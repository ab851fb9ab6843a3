---------------------------- MODULE ControlPanel ----------------------------
(***************************************************************************)
(* The dashboard page's gateway panel (static/dashboard.js): the status it *)
(* asks for every five seconds and shows, the target list it loads, and    *)
(* the operations its buttons request, one at a time.  Status requests     *)
(* overlap each other and the operation: each answer tells what the        *)
(* gateway was like when the daemon looked, and the page shows whichever   *)
(* answer comes last.                                                      *)
(*                                                                         *)
(* The gateway is what the daemon reports of it: ControlDaemon says how it *)
(* gets there.  Other clients may change it and the catalogue as well.     *)
(***************************************************************************)
EXTENDS Naturals

CONSTANTS Targets,    \* target aliases
          NoTarget,
          MaxPolls,   \* bound: status requests of the timer in flight
          MaxChanges, \* bound: changes of the gateway
          MaxFaults   \* bound: failed requests and unknown statuses

ASSUME NoTargetIsNone == NoTarget \notin Targets
ASSUME CountsAreNat == MaxPolls \in Nat /\ MaxChanges \in Nat /\ MaxFaults \in Nat

VARIABLES gateway,    \* the server: mode and current target,
          catalogue,  \*   the targets on offer,
          changes, faults,
          shown,      \* the page: the mode on display, "none" before any,
          current,    \*   currentTarget,
          options,    \*   the choices of the target list,
          selected,   \*   the one chosen,
          phrase,     \*   whether the confirmation reads EXPOSE VPS IP,
          targetsKnown, modesKnown, \* catalogueAvailable, modeControlsAvailable
          enabled,    \*   the controls that are not disabled,
          loading,    \*   a loadTargets is in flight,
          operation,  \*   the operation in progress, or Idle,
          statuses    \*   status requests in flight: 0 is the operation's own

server  == <<gateway, catalogue, changes>>
display == <<shown, current>>
chosen  == <<options, selected, phrase>>
known   == <<targetsKnown, modesKnown, loading>>
panelVars == <<server, faults, display, chosen, known, enabled, operation, statuses>>

-----------------------------------------------------------------------------
Modes == {"VPN", "LOCKED", "DIRECT"}
Safe  == {"VPN", "LOCKED"}

\* One status, as the daemon reports it; and a request for one.
Status == [mode : Modes \union {"UNKNOWN"}, target : Targets \union {NoTarget}]
Free  == [mode |-> "free", target |-> NoTarget]
Asked == [mode |-> "asked", target |-> NoTarget]

Requests == {"connect", "protected", "locked", "direct"}
Stages   == {"sent", "done", "failed", "refreshing"}
Idle     == [kind |-> "none", target |-> NoTarget, stage |-> "none"]
Buttons  == Requests \union {"select", "phrase"}

PanelTypeOK ==
  /\ gateway \in [mode : Modes, target : Targets \union {NoTarget}]
  /\ catalogue \in SUBSET Targets
  /\ changes \in 0 .. MaxChanges /\ faults \in 0 .. MaxFaults
  /\ shown \in Modes \union {"UNKNOWN", "ERROR", "none"}
  /\ current \in Targets \union {NoTarget}
  /\ options \in SUBSET Targets /\ selected \in options \union {NoTarget}
  /\ phrase \in BOOLEAN /\ targetsKnown \in BOOLEAN /\ modesKnown \in BOOLEAN
  /\ enabled \in SUBSET Buttons
  /\ loading \in BOOLEAN
  /\ operation = Idle \/
     operation \in [kind : Requests, target : Targets \union {NoTarget}, stage : Stages]
  /\ statuses \in [0 .. MaxPolls -> Status \union {Free, Asked}]
  /\ statuses[0] # Free <=> operation.stage = "refreshing"

\* The page as it loads: refresh() and loadTargets() are on their way, and of all
\* controls the template leaves the confirmation field alone enabled.
PanelInit ==
  /\ \E m \in Modes, t \in Targets \union {NoTarget} :
       (t # NoTarget => m = "VPN") /\ gateway = [mode |-> m, target |-> t]
  /\ catalogue \in SUBSET Targets
  /\ changes = 0 /\ faults = 0
  /\ shown = "none" /\ current = NoTarget
  /\ options = {} /\ selected = NoTarget /\ phrase = FALSE
  /\ targetsKnown = FALSE /\ modesKnown = FALSE /\ loading = TRUE
  /\ enabled = {"phrase"}
  /\ operation = Idle
  /\ statuses = [i \in 0 .. MaxPolls |-> IF i = 1 THEN Asked ELSE Free]

-----------------------------------------------------------------------------
(* Functions of the page.  A Faulty variant is used by no action, only by the *)
(* mutation checks of PROJECT.json.                                           *)

When(condition, controls) == IF condition THEN controls ELSE {}

\* syncControls: what the page allows, and the controls brought up to it.
Allowed ==
  When(operation = Idle,
       When(targetsKnown, {"select"} \union When(selected # NoTarget, {"connect"}))
       \union When(modesKnown, {"locked", "phrase"}
                               \union When(selected # NoTarget, {"protected"})
                               \union When(phrase, {"direct"})))

Sync == enabled' = Allowed'

\* syncModeControls: those of the gateway modes only.
ModeControls == {"locked", "phrase", "protected", "direct"}
SyncModes == enabled' = (enabled \ ModeControls) \union (Allowed' \intersect ModeControls)

\* The target list shows the current target if nothing else is chosen in it.
Preselected(target) == IF selected = NoTarget /\ target \in options THEN target ELSE selected

\* applyStatus, applyError.
FaultyApplyStatus(s) ==
  /\ shown' = s.mode
  /\ current' = s.target
  /\ selected' = Preselected(s.target)
  /\ enabled' = enabled
ApplyStatus(s) ==
  /\ shown' = s.mode
  /\ current' = s.target
  /\ selected' = Preselected(s.target)
  /\ Sync

ApplyError == shown' = "ERROR" /\ UNCHANGED <<current, selected>>

\* The `finally' of an operation.
FaultySettle == UNCHANGED operation
Settle == operation' = Idle

Fault == faults < MaxFaults /\ faults' = faults + 1

-----------------------------------------------------------------------------
(* Status requests *)

\* setInterval(refresh, 5000), whatever is still in flight.
FaultyPoll ==
  /\ shown # "ERROR"
  /\ \E i \in 1 .. MaxPolls :
       statuses[i] = Free /\ statuses' = [statuses EXCEPT ![i] = Asked]
  /\ UNCHANGED <<server, faults, display, chosen, known, enabled, operation>>
Poll ==
  /\ \E i \in 1 .. MaxPolls :
       statuses[i] = Free /\ statuses' = [statuses EXCEPT ![i] = Asked]
  /\ UNCHANGED <<server, faults, display, chosen, known, enabled, operation>>

\* The daemon looks; what it cannot see is unknown.
Look(i) ==
  /\ statuses[i] = Asked
  /\ \/ statuses' = [statuses EXCEPT ![i] = gateway] /\ UNCHANGED faults
     \/ statuses' = [statuses EXCEPT ![i] = [gateway EXCEPT !.mode = "UNKNOWN"]] /\ Fault
  /\ UNCHANGED <<server, display, chosen, known, enabled, operation>>

StatusAnswered(i) ==
  /\ statuses[i] \in Status
  /\ statuses' = [statuses EXCEPT ![i] = Free]
  /\ IF i = 0 THEN Settle ELSE UNCHANGED operation
  /\ UNCHANGED <<options, phrase, known>>
  /\ ApplyStatus(statuses[i])
  /\ UNCHANGED <<server, faults>>

StatusFailed(i) ==
  /\ statuses[i] # Free
  /\ Fault
  /\ statuses' = [statuses EXCEPT ![i] = Free]
  /\ ApplyError
  /\ UNCHANGED <<options, phrase, known, server>>
  /\ IF i = 0 THEN Settle /\ Sync ELSE UNCHANGED <<operation, enabled>>

-----------------------------------------------------------------------------
(* The target list *)

\* loadTargets: the answer, or its failure.
TargetsLoaded ==
  /\ loading
  /\ loading' = FALSE
  /\ options' = catalogue
  /\ selected' = IF current \in catalogue THEN current ELSE NoTarget
  /\ targetsKnown' = (catalogue # {})
  /\ modesKnown' = TRUE
  /\ UNCHANGED <<phrase, operation>>
  /\ Sync
  /\ UNCHANGED <<server, faults, display, statuses>>

Emptied == options' = {} /\ selected' = NoTarget

TargetsFailed ==
  /\ loading
  /\ Fault
  /\ loading' = FALSE
  /\ Emptied
  /\ targetsKnown' = FALSE /\ modesKnown' = FALSE
  /\ UNCHANGED <<phrase, operation>>
  /\ Sync
  /\ UNCHANGED <<server, display, statuses>>

\* A catalogue saved, on this page (which then loads the list again) or not.
CatalogueSaved ==
  /\ changes < MaxChanges /\ changes' = changes + 1
  /\ catalogue' \in (SUBSET Targets) \ {catalogue}
  /\ loading' \in {loading, TRUE}
  /\ UNCHANGED <<gateway, faults, display, chosen, targetsKnown, modesKnown, enabled,
                 operation, statuses>>

-----------------------------------------------------------------------------
(* The user *)

ChooseTarget ==
  /\ "select" \in enabled
  /\ selected' \in options \ {selected}
  /\ UNCHANGED <<options, phrase, known, operation>>
  /\ Sync
  /\ UNCHANGED <<server, faults, display, statuses>>

\* Typing in the confirmation field, with its own refresh of the controls.
TypePhrase ==
  /\ "phrase" \in enabled
  /\ phrase' \in BOOLEAN
  /\ UNCHANGED <<options, selected, known, operation>>
  /\ SyncModes
  /\ UNCHANGED <<server, faults, display, statuses>>

\* connectSelectedTarget, enableProtectedMode, enableLockedMode,
\* enableDirectMode: their buttons, and their own checks.
Passes(kind) ==
  /\ operation = Idle
  /\ kind = "connect" => targetsKnown
  /\ kind # "connect" => modesKnown
  /\ kind \in {"connect", "protected"} => selected # NoTarget
  /\ kind = "direct" => phrase

Press(kind) ==
  /\ kind \in enabled
  /\ Passes(kind)
  /\ operation' = [kind |-> kind, stage |-> "sent",
                   target |-> IF kind \in {"connect", "protected"} THEN selected ELSE NoTarget]
  /\ UNCHANGED <<chosen, known>>
  /\ Sync
  /\ UNCHANGED <<server, faults, display, statuses>>

-----------------------------------------------------------------------------
(* The operation *)

Stage(to) == operation' = [operation EXCEPT !.stage = to]

\* What it asks for.
Goal == [mode   |-> CASE operation.kind = "direct" -> "DIRECT"
                      [] operation.kind = "locked" -> "LOCKED"
                      [] OTHER -> "VPN",
         target |-> operation.target]

Changes(to) ==
  /\ gateway' = to
  /\ IF to = gateway THEN UNCHANGED changes
     ELSE changes < MaxChanges /\ changes' = changes + 1

\* The daemon performs it; a failure leaves the gateway in some mode.
OperationSucceeds ==
  /\ operation.stage = "sent"
  /\ Changes(Goal)
  /\ Stage("done")
  /\ UNCHANGED <<catalogue, faults, display, chosen, known, enabled, statuses>>

OperationFails ==
  /\ operation.stage = "sent"
  /\ \E m \in Modes : Changes([mode |-> m, target |-> NoTarget]) \/ Changes(gateway)
  /\ Stage("failed")
  /\ UNCHANGED <<catalogue, faults, display, chosen, known, enabled, statuses>>

\* The answer: connect chooses what it connected to, a mode request clears the
\* confirmation, and either then asks for the status and waits for it.
Accepted ==
  /\ operation.stage = "done"
  /\ IF operation.kind = "connect"
     THEN /\ current' = operation.target
          /\ selected' = IF operation.target \in options THEN operation.target ELSE NoTarget
          /\ UNCHANGED phrase
     ELSE /\ current' = IF operation.target # NoTarget THEN operation.target ELSE current
          /\ phrase' = FALSE
          /\ UNCHANGED selected
  /\ Stage("refreshing")
  /\ statuses' = [statuses EXCEPT ![0] = Asked]
  /\ UNCHANGED <<server, faults, shown, options, known, enabled>>

\* An error answered, or the connection lost: no status is asked for.
Rejected ==
  /\ operation.stage = "failed"
  /\ Settle
  /\ UNCHANGED <<chosen, known>>
  /\ Sync
  /\ UNCHANGED <<server, faults, display, statuses>>

Lost ==
  /\ operation.stage \in {"sent", "done"}
  /\ Fault
  /\ Stage("failed")
  /\ UNCHANGED <<server, display, chosen, known, enabled, statuses>>

\* Another client, or the provider by itself.
OthersChange ==
  /\ \E m \in Modes, t \in Targets \union {NoTarget} :
       /\ t # NoTarget => m = "VPN"
       /\ [mode |-> m, target |-> t] # gateway
       /\ Changes([mode |-> m, target |-> t])
  /\ UNCHANGED <<catalogue, faults, display, chosen, known, enabled, operation, statuses>>

-----------------------------------------------------------------------------
UserActs == ChooseTarget \/ TypePhrase \/ \E kind \in Requests : Press(kind)

Answer(i) == Look(i) \/ StatusAnswered(i) \/ StatusFailed(i)
Operation == OperationSucceeds \/ OperationFails \/ Accepted \/ Rejected \/ Lost

PanelNext ==
  \/ Poll \/ \E i \in 0 .. MaxPolls : Answer(i)
  \/ TargetsLoaded \/ TargetsFailed \/ CatalogueSaved
  \/ UserActs \/ Operation \/ OthersChange

PanelSpec == PanelInit /\ [][PanelNext]_panelVars

\* The timer fires, and a request ends, in an answer or an error.  Nothing is
\* assumed of the user.
PanelFairSpec ==
  /\ PanelSpec
  /\ WF_panelVars(Poll)
  /\ \A i \in 0 .. MaxPolls : WF_panelVars(Answer(i))
  /\ WF_panelVars(Operation)

-----------------------------------------------------------------------------
(* Properties *)

\* Until it has a status or the target list, the page has compared nothing.
Unheard == loading /\ shown \in {"none", "ERROR"}

\* A control is enabled exactly where its handler would act: whatever answer
\* comes while an operation runs, the buttons stay off, and none stays off when
\* it has ended.  The page starts otherwise, with a confirmation field that takes
\* text it cannot use; that ends with the first status, target list or key
\* stroke, and never comes back.
ButtonsInSync ==
  [][\/ enabled' = Allowed'
     \/ enabled # Allowed /\ Unheard' /\ enabled' = {"phrase"}]_panelVars

\* Once gateway and network come to rest, the page shows the gateway as it is:
\* an answer that was overtaken is put right by a later one.
DisplaySettles == <>[](shown = gateway.mode /\ current = gateway.target)

\* An operation in progress ends, and with it the lock on the buttons.
OperationEnds == operation # Idle ~> operation = Idle

\* The setup guide's acceptance test: Direct VPS mode presents a conspicuous
\* exposure warning.  While the gateway stays in Direct, a page that shows it
\* goes on warning; an older status answered late takes the warning away.
Warns == shown \notin Safe \union {"none"}
WarnedWhileDirect ==
  [][shown = "DIRECT" /\ gateway.mode = "DIRECT" /\ gateway'.mode = "DIRECT" => Warns']_panelVars
=============================================================================
