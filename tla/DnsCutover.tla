----------------------------- MODULE DnsCutover -----------------------------
(***************************************************************************)
(* The resolver of the gateway before, during and after an activation: the *)
(* distribution's dnsmasq.service as older releases configured it, which   *)
(* snarkypuss-activate.py stops and snarkypuss-rollback.py starts again,   *)
(* and scripts/snarkypuss-dns-cleanup.py, which takes that old             *)
(* configuration away once the dedicated service runs.                     *)
(*                                                                         *)
(* It rides on Activation, whose `services' is the dedicated resolver.     *)
(* The clean-up takes no lock; the administrator edits the stock file, and *)
(* the script may die between any two of its steps.                        *)
(***************************************************************************)
EXTENDS Activation, Naturals

CONSTANTS Hosts,    \* what older releases have left, and what may go wrong
          MaxEdits  \* bound on the administrator's edits

ASSUME MaxEditsIsNat == MaxEdits \in Nat

VARIABLES old,       \* dnsmasq.service enabled and running
          oldWas,    \* per token: the same in the activation record
          legacy,    \* the files of older releases that are left
          stock,     \* what /etc/dnsmasq.conf holds
          backup,    \* its saved original is there
          cleaning,  \* how far the clean-up is
          plan,      \* what it is going to do
          verdict,   \* what the last clean-up reported
          touched,   \* history: the administrator has edited since it began
          edits

files == <<legacy, stock, backup>>
cleanup == <<cleaning, plan, verdict, touched>>
activation == <<netVars, saved, status, snap, timer, applying, lockVars, disturbed, faults>>
dnsVars == <<activation, old, oldWas, files, cleanup, edits>>

LegacyFiles == {"config", "dropin"}

\* "marked": with the line that older releases put in; "edited": the
\* administrator's own, who has removed that line.
Contents == {"absent", "original", "marked", "edited"}

ASSUME HostsAreHosts ==
  Hosts \subseteq [faults : SUBSET FaultKinds, old : BOOLEAN, legacy : SUBSET LegacyFiles,
                   stock : Contents, backup : BOOLEAN]

Plan == [restore : BOOLEAN, remove : SUBSET LegacyFiles]
NoPlan == [restore |-> FALSE, remove |-> {}]

DnsTypeOK ==
  /\ old \in BOOLEAN /\ oldWas \in [Tokens -> BOOLEAN]
  /\ legacy \subseteq LegacyFiles /\ stock \in Contents /\ backup \in BOOLEAN
  /\ cleaning \in {"idle", "checked", "planned", "restored"}
  /\ plan \in Plan
  /\ verdict \in {"none", "OK", "ERROR"}
  /\ touched \in BOOLEAN /\ edits \in 0 .. MaxEdits

DnsInit ==
  /\ Init
  /\ \E h \in Hosts : /\ faults = h.faults /\ old = h.old
                      /\ legacy = h.legacy /\ stock = h.stock /\ backup = h.backup
  /\ oldWas = [t \in Tokens |-> FALSE]
  /\ cleaning = "idle" /\ plan = NoPlan
  /\ verdict = "none" /\ touched = FALSE /\ edits = 0

-----------------------------------------------------------------------------
(* The old resolver in the steps of an activation.  A Faulty variant is used  *)
(* by no action, only by the mutation checks of PROJECT.json.                 *)

\* A dnsmasq that no legacy file marks as Snarkypuss's own stops an apply.
Owned == legacy # {}

\* restore_service follows the record.
FaultyOldRestored(t) == Owned
OldRestored(t) == oldWas[t]

\* apply reads the old service's state, and disables it before it enables the
\* new one; a rollback restores both, ignoring failures.
OldFollows(t) ==
  CASE applying[t] = "none" /\ applying'[t] = "recorded" ->
         (old => Owned) /\ oldWas' = [oldWas EXCEPT ![t] = old] /\ UNCHANGED old
    [] applying[t] = "forwarded" /\ applying'[t] = "done" ->
         old' = (old /\ ~oldWas[t]) /\ UNCHANGED oldWas
    [] applying[t] = "forwarded" /\ applying'[t] = "rescue" ->
         old' \in {old, old /\ ~oldWas[t]} /\ UNCHANGED oldWas
    [] rolling[t] = "restore_services" /\ rolling'[t] \in {"restore_saved", "write_rolled_back"} ->
         old' \in {OldRestored(t)} \union (IF Fails THEN {old} ELSE {}) /\ UNCHANGED oldWas
    [] OTHER -> UNCHANGED <<old, oldWas>>

Activates ==
  /\ \/ \E t \in Tokens :
          /\ \/ Apply(t) \/ Hold(t) \/ TimerFires(t) \/ BeginConfirm(t)
             \/ \E caller \in Callers : BeginRollback(t, caller)
             \/ KillApply(t) \/ KillHolder(t)
          /\ OldFollows(t)
     \/ Reboot /\ UNCHANGED <<old, oldWas>>
  /\ UNCHANGED <<files, cleanup, edits>>

-----------------------------------------------------------------------------
(* The clean-up *)

EndsWith(v) == cleaning' = "idle" /\ plan' = NoPlan /\ verdict' = v

\* service_active, twice: it asks systemd, not the activation record.
BeginCleanup ==
  /\ cleaning = "idle"
  /\ touched' = FALSE
  /\ IF services /\ ~old
     THEN cleaning' = "checked" /\ plan' = NoPlan /\ verdict' = "none"
     ELSE EndsWith("ERROR")
  /\ UNCHANGED <<activation, old, oldWas, files, edits>>

\* cleanup_plan: the old line is taken out again if the original was saved, and
\* a file without it may be the administrator's.
FaultyRefused == stock = "marked" /\ ~backup
Refused == IF backup THEN stock = "edited" ELSE stock = "marked"
FaultyRestores == backup /\ stock = "absent"
Restores == backup /\ stock # "original"

PlanCleanup ==
  /\ cleaning = "checked"
  /\ IF Refused
     THEN EndsWith("ERROR")
     ELSE cleaning' = "planned" /\ plan' = [restore |-> Restores, remove |-> legacy] /\ UNCHANGED verdict
  /\ UNCHANGED <<activation, old, oldWas, files, touched, edits>>

\* atomic_restore: an error leaves the file as it is.
RestoreStock ==
  /\ cleaning = "planned"
  /\ \/ /\ stock' = IF plan.restore THEN "original" ELSE stock
        /\ cleaning' = "restored"
        /\ UNCHANGED <<plan, verdict>>
     \/ Fails /\ plan.restore /\ EndsWith("ERROR") /\ UNCHANGED stock
  /\ UNCHANGED <<activation, old, oldWas, legacy, backup, touched, edits>>

\* The files one by one, as planned: one that is gone by now is an error.
RemoveFile ==
  /\ cleaning = "restored"
  /\ \E f \in plan.remove :
       /\ f = "dropin" => "config" \notin plan.remove
       /\ \/ f \in legacy /\ legacy' = legacy \ {f}
             /\ plan' = [plan EXCEPT !.remove = @ \ {f}] /\ UNCHANGED <<cleaning, verdict>>
          \/ (f \notin legacy \/ Fails) /\ EndsWith("ERROR") /\ UNCHANGED legacy
  /\ UNCHANGED <<activation, old, oldWas, stock, backup, touched, edits>>

\* `systemctl daemon-reload' is the last command.
EndCleanup ==
  /\ cleaning = "restored" /\ plan.remove = {}
  /\ EndsWith("OK") \/ (Fails /\ EndsWith("ERROR"))
  /\ UNCHANGED <<activation, old, oldWas, files, touched, edits>>

KillCleanup ==
  /\ "kill" \in faults /\ cleaning # "idle"
  /\ EndsWith("none")
  /\ UNCHANGED <<activation, old, oldWas, files, touched, edits>>

Administer ==
  /\ edits < MaxEdits
  /\ edits' = edits + 1 /\ touched' = TRUE
  /\ \/ stock' \in {"edited", "absent"} \ {stock} /\ UNCHANGED legacy
     \/ \E f \in legacy : legacy' = legacy \ {f} /\ UNCHANGED stock
  /\ UNCHANGED <<activation, old, oldWas, backup, cleaning, plan, verdict>>

CleanupStep ==
  BeginCleanup \/ PlanCleanup \/ RestoreStock \/ RemoveFile \/ EndCleanup \/ KillCleanup

DnsNext == Activates \/ CleanupStep \/ Administer

DnsSpec == DnsInit /\ [][DnsNext]_dnsVars

\* Activation's fairness; nobody has to clean up.
FairDnsSpec ==
  /\ DnsSpec
  /\ \A t \in Tokens :
       /\ WF_dnsVars(TimerFires(t) /\ Activates)
       /\ WF_dnsVars(Hold(t) /\ Activates)
       /\ SF_dnsVars(BeginRollback(t, "automatic") /\ Activates)

-----------------------------------------------------------------------------
(* Properties *)

\* The administrator's own stock file survives the clean-up, killed, failing
\* and run again though it may be, unless it is written while the clean-up is
\* between its check and its replacement (there is no lock).
AdministratorKept ==
  [][stock = "edited" /\ stock' # "edited" /\ UNCHANGED edits => touched]_dnsVars

\* A clean-up that reports success has left nothing of the older releases, and
\* the original where it was saved, wherever earlier ones stopped.
CleanupConverges ==
  verdict = "OK" /\ ~touched =>
    /\ legacy = {} /\ stock # "marked"
    /\ backup => stock = "original"

\* A rollback that nothing disturbs and in which no command fails brings the
\* old resolver back, if it ran, and stops the new one, whatever the clean-up
\* does to the old one's files meanwhile.
ResolverRestored ==
  \A t \in Tokens :
    status[t] = "rolled_back" /\ ~disturbed[t] /\ faults = {}
    => old = oldWas[t] /\ services = snap[t].services
=============================================================================
