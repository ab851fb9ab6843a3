----------------------------- MODULE Activation -----------------------------
(***************************************************************************)
(* Transactional activation of the gateway: `snarkypuss-activate.py        *)
(* --apply' records the state it is about to change, schedules a transient *)
(* systemd timer that rolls back, and only then changes the network;       *)
(* `--confirm' persists the rules; scripts/snarkypuss-rollback.py restores *)
(* the record, run by the timer, by a failing apply or by the operator.    *)
(*                                                                         *)
(* Confirm and rollback hold the token's flock from their reading of the   *)
(* status to their writing of it; apply takes no lock.  An action is one   *)
(* external command, or one write of the activation record.                *)
(***************************************************************************)
CONSTANTS Tokens,  \* activations, at most one apply each
          Faults   \* what may go wrong on the hosts considered

FaultKinds == {"command", "kill", "reboot"}

ASSUME TokensAreNew == {"original", "partial"} \intersect Tokens = {}
ASSUME FaultsAreKinds == Faults \subseteq FaultKinds

VARIABLES firewall,   \* whose rules are live
          forward,    \* net.ipv4.ip_forward
          services,   \* WireGuard and DNS services enabled and running
          saved,      \* whose rules are in /etc/iptables/rules.v4
          status,     \* per token: status in the activation record
          snap,       \* per token: the state captured in the record
          timer,      \* per token: the transient rollback timer
          applying,   \* per token: how far --apply is
          rolling,    \* per token: how far a rollback that has the flock is
          confirming, \* per token: how far a --confirm that has the flock is
          was,        \* per token: the status the last rollback read
          disturbed,  \* history: something else moved the network meanwhile
          faults      \* what may go wrong on this host: chosen once

netVars == <<firewall, forward, services>>
lockVars == <<rolling, confirming, was>>
vars == <<netVars, saved, status, snap, timer, applying, lockVars, disturbed, faults>>

-----------------------------------------------------------------------------
(* Types *)

Rules == {"original", "partial"} \union Tokens

Snapshot == [firewall : Rules, forward : BOOLEAN, services : BOOLEAN, saved : Rules]

Statuses == {"none", "pending", "confirmed", "rolled_back"}
ApplySteps == {"none", "recorded", "scheduled", "firewalled", "forwarded",
               "rescue", "done", "ended"}
RollbackSteps == {"restore_firewall", "restore_forward", "restore_services",
                  "restore_saved", "write_rolled_back", "stop_rolled_back"}
ConfirmSteps  == {"save", "stop", "write_confirmed"}

TypeOK ==
  /\ firewall \in Rules
  /\ forward \in BOOLEAN
  /\ services \in BOOLEAN
  /\ saved \in Rules
  /\ status \in [Tokens -> Statuses]
  /\ snap \in [Tokens -> Snapshot]
  /\ timer \in [Tokens -> {"none", "armed", "fired"}]
  /\ applying \in [Tokens -> ApplySteps]
  /\ rolling \in [Tokens -> {"idle"} \union RollbackSteps]
  /\ confirming \in [Tokens -> {"idle"} \union ConfirmSteps]
  /\ was \in [Tokens -> Statuses]
  /\ disturbed \in [Tokens -> BOOLEAN]
  /\ faults \subseteq Faults

Now == [firewall |-> firewall, forward |-> forward, services |-> services, saved |-> saved]

\* A host on which Snarkypuss has never been activated.
Init ==
  /\ firewall = "original"
  /\ forward \in BOOLEAN
  /\ services = FALSE
  /\ saved = "original"
  /\ status = [t \in Tokens |-> "none"]
  /\ snap = [t \in Tokens |-> Now]
  /\ timer = [t \in Tokens |-> "none"]
  /\ applying = [t \in Tokens |-> "none"]
  /\ rolling = [t \in Tokens |-> "idle"]
  /\ confirming = [t \in Tokens |-> "idle"]
  /\ was = [t \in Tokens |-> "none"]
  /\ disturbed = [t \in Tokens |-> FALSE]
  /\ faults \in SUBSET Faults

-----------------------------------------------------------------------------
(* The decisions the code takes; a Faulty variant is used by no action, only  *)
(* by the mutation checks of PROJECT.json.                                    *)

\* Who runs a rollback: the timer's service, a failing apply (which passes
\* --force), or the operator with or without --force.
Callers == {"automatic", "rescue", "operator", "forced"}
Forcing == {"rescue", "forced"}

\* A rolled back activation is left alone, a confirmed one unless forced.
FaultyRollsBackNever(t, caller) == caller \in Forcing
RollsBack(t, caller) ==
  status[t] = "pending" \/ (status[t] = "confirmed" /\ caller \in Forcing)

\* The flock of the token is free.
Unlocked(t) == rolling[t] = "idle" /\ confirming[t] = "idle"

\* confirm takes the flock and refuses any status but pending.
FaultyConfirmable(t) == confirming[t] = "idle" /\ status[t] = "pending"
Confirmable(t) == Unlocked(t) /\ status[t] = "pending"

\* Only the rollback of a confirmed activation restores the saved rules.
FaultyAfterServices(t) == "write_rolled_back"
AfterServices(t) ==
  IF was[t] = "confirmed" THEN "restore_saved" ELSE "write_rolled_back"

\* A rollback stops at the first command that fails.
FaultyAfterFailedCommand(next) == next
AfterFailedCommand(next) == "idle"

-----------------------------------------------------------------------------
(* Steps shared by the operations *)

Fails == "command" \in faults

ApplyGoes(t, step) == applying' = [applying EXCEPT ![t] = step]
Rolls(t, step) == rolling' = [rolling EXCEPT ![t] = step]
Confirms(t, step) == confirming' = [confirming EXCEPT ![t] = step]

\* A change of the network counts against the other activations' rollbacks,
\* and one by an apply against the rollback of its own activation too.
Disturbs(tokens) == disturbed' = [t \in Tokens |-> disturbed[t] \/ t \in tokens]
Late(t) == IF rolling[t] # "idle" \/ status[t] = "rolled_back" THEN Tokens ELSE Tokens \ {t}

-----------------------------------------------------------------------------
(* --apply *)

\* The capture of the current state, and the record of it.
Record(t) ==
  /\ applying[t] = "none"
  /\ ApplyGoes(t, "recorded")
  /\ snap' = [snap EXCEPT ![t] = Now]
  /\ status' = [status EXCEPT ![t] = "pending"]
  /\ UNCHANGED <<netVars, saved, timer, lockVars, disturbed, faults>>

\* systemd-run.  Its failure ends apply before anything has changed.
Schedule(t) ==
  /\ applying[t] = "recorded"
  /\ \/ ApplyGoes(t, "scheduled") /\ timer' = [timer EXCEPT ![t] = "armed"]
     \/ Fails /\ ApplyGoes(t, "ended") /\ UNCHANGED timer
  /\ UNCHANGED <<netVars, saved, status, snap, lockVars, disturbed, faults>>

\* apply_firewall.  A failing iptables leaves some of the rules.
ApplyFirewall(t) ==
  /\ applying[t] = "scheduled"
  /\ \/ firewall' = t /\ ApplyGoes(t, "firewalled")
     \/ Fails /\ firewall' \in {firewall, "partial"} /\ ApplyGoes(t, "rescue")
  /\ Disturbs(Late(t))
  /\ UNCHANGED <<forward, services, saved, status, snap, timer, lockVars, faults>>

ApplyForward(t) ==
  /\ applying[t] = "firewalled"
  /\ \/ forward' = TRUE /\ ApplyGoes(t, "forwarded")
     \/ Fails /\ ApplyGoes(t, "rescue") /\ UNCHANGED forward
  /\ Disturbs(Late(t))
  /\ UNCHANGED <<firewall, services, saved, status, snap, timer, lockVars, faults>>

\* The systemctl commands; then the token is shown to the operator.
ApplyServices(t) ==
  /\ applying[t] = "forwarded"
  /\ \/ services' = TRUE /\ ApplyGoes(t, "done")
     \/ Fails /\ services' \in {services, TRUE} /\ ApplyGoes(t, "rescue")
  /\ Disturbs(Late(t))
  /\ UNCHANGED <<firewall, forward, saved, status, snap, timer, lockVars, faults>>

\* The process dies, or leaves on an error that is no ActivationError.
KillApply(t) ==
  /\ "kill" \in faults
  /\ applying[t] \notin {"none", "done", "ended"}
  /\ ApplyGoes(t, "ended")
  /\ UNCHANGED <<netVars, saved, status, snap, timer, lockVars, disturbed, faults>>

-----------------------------------------------------------------------------
(* Rollback *)

TimerFires(t) ==
  /\ timer[t] = "armed"
  /\ timer' = [timer EXCEPT ![t] = "fired"]
  /\ UNCHANGED <<netVars, saved, status, snap, applying, lockVars, disturbed, faults>>

\* A caller is waiting for the flock.  The operator knows the token when apply
\* has printed it, or from the record that an ended apply has left.
Calls(t, caller) ==
  /\ status[t] # "none"
  /\ caller \in {"operator", "forced"} => applying[t] \in {"done", "ended"}
  /\ caller = "automatic" => timer[t] = "fired"
  /\ caller = "rescue" => applying[t] = "rescue"

\* The flock is taken, the record read, and the rollback begun or refused.
BeginRollback(t, caller) ==
  /\ Unlocked(t)
  /\ Calls(t, caller)
  /\ timer' = IF caller = "automatic" THEN [timer EXCEPT ![t] = "none"] ELSE timer
  /\ applying' = IF caller = "rescue" THEN [applying EXCEPT ![t] = "ended"] ELSE applying
  /\ IF RollsBack(t, caller)
     THEN /\ Rolls(t, "restore_firewall")
          /\ was' = [was EXCEPT ![t] = status[t]]
          /\ disturbed' = [disturbed EXCEPT ![t] = FALSE]
     ELSE UNCHANGED <<rolling, was, disturbed>>
  /\ UNCHANGED <<netVars, saved, status, snap, confirming, faults>>

\* A failing command ends the rollback with the record as it was.
RestoreFirewall(t) ==
  /\ rolling[t] = "restore_firewall"
  /\ \/ firewall' = snap[t].firewall /\ Rolls(t, "restore_forward")
     \/ Fails /\ Rolls(t, AfterFailedCommand("restore_forward")) /\ UNCHANGED firewall
  /\ Disturbs(Tokens \ {t})
  /\ UNCHANGED <<forward, services, saved, status, snap, timer, applying, confirming, was, faults>>

RestoreForward(t) ==
  /\ rolling[t] = "restore_forward"
  /\ \/ forward' = snap[t].forward /\ Rolls(t, "restore_services")
     \/ Fails /\ Rolls(t, AfterFailedCommand("restore_services")) /\ UNCHANGED forward
  /\ Disturbs(Tokens \ {t})
  /\ UNCHANGED <<firewall, services, saved, status, snap, timer, applying, confirming, was, faults>>

\* restore_service ignores the failures of systemctl.
RestoreServices(t) ==
  /\ rolling[t] = "restore_services"
  /\ services' \in {snap[t].services} \union (IF Fails THEN {services} ELSE {})
  /\ Rolls(t, AfterServices(t))
  /\ Disturbs(Tokens \ {t})
  /\ UNCHANGED <<firewall, forward, saved, status, snap, timer, applying, confirming, was, faults>>

\* The code writes the saved rules in place, not by renaming.  A rollback killed
\* within the write leaves half a file, here the old one: it has not reported,
\* and nothing is claimed of the saved rules before it does.
RestoreSaved(t) ==
  /\ rolling[t] = "restore_saved"
  /\ \/ saved' = snap[t].saved /\ Rolls(t, "write_rolled_back")
     \/ Fails /\ Rolls(t, "idle") /\ UNCHANGED saved
  /\ UNCHANGED <<netVars, status, snap, timer, applying, confirming, was, disturbed, faults>>

WriteRolledBack(t) ==
  /\ rolling[t] = "write_rolled_back"
  /\ \/ status' = [status EXCEPT ![t] = "rolled_back"] /\ Rolls(t, "stop_rolled_back")
     \/ Fails /\ Rolls(t, "idle") /\ UNCHANGED status
  /\ UNCHANGED <<netVars, saved, snap, timer, applying, confirming, was, disturbed, faults>>

\* `systemctl stop' of the timer, unchecked: a service that the timer has
\* already started goes on waiting for the flock, and confirm does not mind
\* that the timer may be gone.
StopTimer(t) ==
  timer' \in {IF timer[t] = "armed" THEN [timer EXCEPT ![t] = "none"] ELSE timer}
             \union (IF Fails THEN {timer} ELSE {})

StopAfterRollback(t) ==
  /\ rolling[t] = "stop_rolled_back"
  /\ StopTimer(t)
  /\ Rolls(t, "idle")
  /\ UNCHANGED <<netVars, saved, status, snap, applying, confirming, was, disturbed, faults>>

-----------------------------------------------------------------------------
(* --confirm *)

\* The operator has the token from a complete apply.
BeginConfirm(t) ==
  /\ applying[t] = "done"
  /\ Confirmable(t)
  /\ Confirms(t, "save")
  /\ UNCHANGED <<netVars, saved, status, snap, timer, applying, rolling, was, disturbed, faults>>

\* netfilter-persistent save takes whatever rules are live.
ConfirmSave(t) ==
  /\ confirming[t] = "save"
  /\ \/ saved' = firewall /\ Confirms(t, "stop")
     \/ Fails /\ Confirms(t, "idle") /\ UNCHANGED saved
  /\ UNCHANGED <<netVars, status, snap, timer, applying, rolling, was, disturbed, faults>>

ConfirmStop(t) ==
  /\ confirming[t] = "stop"
  /\ StopTimer(t)
  /\ Confirms(t, "write_confirmed")
  /\ UNCHANGED <<netVars, saved, status, snap, applying, rolling, was, disturbed, faults>>

WriteConfirmed(t) ==
  /\ confirming[t] = "write_confirmed"
  /\ \/ status' = [status EXCEPT ![t] = "confirmed"]
     \/ Fails /\ UNCHANGED status
  /\ Confirms(t, "idle")
  /\ UNCHANGED <<netVars, saved, snap, timer, applying, rolling, was, disturbed, faults>>

-----------------------------------------------------------------------------
(* Failures from outside *)

\* The process that holds the flock dies; the kernel drops the lock.
KillHolder(t) ==
  /\ "kill" \in faults
  /\ ~Unlocked(t)
  /\ Rolls(t, "idle")
  /\ Confirms(t, "idle")
  /\ UNCHANGED <<netVars, saved, status, snap, timer, applying, was, disturbed, faults>>

\* The host restarts: the saved rules are loaded, the generated sysctl file
\* turns forwarding on, enabled services start, transient timers are gone.
Reboot ==
  /\ "reboot" \in faults
  /\ firewall' = saved
  /\ forward' = TRUE
  /\ timer' = [t \in Tokens |-> "none"]
  /\ applying' = [t \in Tokens |-> IF applying[t] \in {"none", "done"} THEN applying[t] ELSE "ended"]
  /\ rolling' = [t \in Tokens |-> "idle"]
  /\ confirming' = [t \in Tokens |-> "idle"]
  /\ disturbed' = [t \in Tokens |-> TRUE]
  /\ UNCHANGED <<services, saved, status, snap, was, faults>>

-----------------------------------------------------------------------------
Apply(t) ==
  Record(t) \/ Schedule(t) \/ ApplyFirewall(t) \/ ApplyForward(t) \/ ApplyServices(t)

\* What a process that holds the flock does next.
Hold(t) ==
  \/ RestoreFirewall(t) \/ RestoreForward(t) \/ RestoreServices(t) \/ RestoreSaved(t)
  \/ WriteRolledBack(t) \/ StopAfterRollback(t)
  \/ ConfirmSave(t) \/ ConfirmStop(t) \/ WriteConfirmed(t)

Next ==
  \/ \E t \in Tokens :
       \/ Apply(t) \/ Hold(t) \/ TimerFires(t) \/ BeginConfirm(t)
       \/ \E caller \in Callers : BeginRollback(t, caller)
       \/ KillApply(t) \/ KillHolder(t)
  \/ Reboot

Spec == Init /\ [][Next]_vars

\* An armed timer expires, the service it starts gets the flock in its turn,
\* and commands end.  Nobody has to confirm or to roll back by hand.
FairSpec ==
  /\ Spec
  /\ \A t \in Tokens :
       /\ WF_vars(TimerFires(t))
       /\ WF_vars(Hold(t))
       /\ SF_vars(BeginRollback(t, "automatic"))

-----------------------------------------------------------------------------
(* Properties *)

\* A rolled back activation stays rolled back, and a confirmed one changes
\* only to rolled back, in whatever order the timer, the operator and a failing
\* apply come to the record.
StatusOnlyAdvances ==
  [][\A t \in Tokens :
       /\ status[t] = "rolled_back" => status'[t] = "rolled_back"
       /\ status[t] = "confirmed" => status'[t] \in {"confirmed", "rolled_back"}]_vars

\* The decision taken on the record is still right while the network is being
\* restored or the rules are being saved: no other process moves the record
\* between a reading and the writing that rests on it.
DecisionStillHolds ==
  \A t \in Tokens :
    /\ rolling[t] \notin {"idle", "stop_rolled_back"} => status[t] = was[t]
    /\ confirming[t] # "idle" => status[t] = "pending"

\* A rollback that reports success has put the rules and the forwarding back,
\* unless an apply, another activation or a reboot interfered.
RollbackRestores ==
  \A t \in Tokens :
    status[t] = "rolled_back" /\ ~disturbed[t]
    => firewall = snap[t].firewall /\ forward = snap[t].forward

\* After a rollback of a confirmed activation a reboot does not bring its rules
\* back: the saved rules are those of the record.
RollbackForgetsSaved ==
  \A t \in Tokens :
    status[t] = "rolled_back" /\ was[t] = "confirmed" => saved = snap[t].saved

\* "If the activation is not confirmed before the timer expires, the previous
\* firewall, forwarding, and service state is restored automatically": once the
\* timer's rollback is done, nothing of the activation is left.
TimerRestores ==
  \A t \in Tokens :
    status[t] = "rolled_back" /\ Unlocked(t) /\ applying[t] \in {"done", "ended"}
    => /\ firewall = snap[t].firewall
       /\ forward = snap[t].forward
       /\ services = snap[t].services

\* The same promise over time: a scheduled rollback is not forgotten, the
\* activation ends confirmed or rolled back.  A reboot loses the transient
\* timer, and a rollback that fails or dies is not started again, so this too
\* is said of hosts where nothing goes wrong.
NotForgotten ==
  \A t \in Tokens : faults = {} /\ timer[t] = "armed" ~> status[t] # "pending"
=============================================================================
