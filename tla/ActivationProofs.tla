-------------------------- MODULE ActivationProofs --------------------------
(***************************************************************************)
(* Theorems about Activation, and about the cutover of the resolver that   *)
(* rides on it (DnsCutover), for any number of activations and any faults. *)
(***************************************************************************)
EXTENDS DnsCutover, TLAPS

\* The flock of a token has one holder, and a token has a record only once its
\* apply has begun.
FlockExclusive ==
  \A t \in Tokens : rolling[t] = "idle" \/ confirming[t] = "idle"
RecordFirst ==
  \A t \in Tokens : applying[t] = "none" => status[t] = "none" /\ Unlocked(t)

DInv == TypeOK /\ FlockExclusive /\ RecordFirst /\ DecisionStillHolds

StatusAdvances(t) ==
  /\ status[t] = "rolled_back" => status'[t] = "rolled_back"
  /\ status[t] = "confirmed" => status'[t] \in {"confirmed", "rolled_back"}

-----------------------------------------------------------------------------
(* Type correctness *)

LEMMA ApplyType ==
  ASSUME TypeOK, NEW t \in Tokens, Apply(t) \/ KillApply(t)
  PROVE  TypeOK'
<1> USE DEF TypeOK, lockVars, netVars, ApplyGoes, ApplySteps, Statuses, Disturbs, Late, Rules
<1>1. CASE Record(t)
  <2>1. Now \in Snapshot
    BY DEF Now, Snapshot
  <2>2. QED
    BY <1>1, <2>1 DEF Record
<1>2. CASE Schedule(t)
  BY <1>2 DEF Schedule
<1>3. CASE ApplyFirewall(t)
  BY <1>3 DEF ApplyFirewall
<1>4. CASE ApplyForward(t)
  BY <1>4 DEF ApplyForward
<1>5. CASE ApplyServices(t)
  BY <1>5 DEF ApplyServices
<1>6. CASE KillApply(t)
  BY <1>6 DEF KillApply
<1>7. QED
  BY <1>1, <1>2, <1>3, <1>4, <1>5, <1>6 DEF Apply

LEMMA RollbackType ==
  ASSUME TypeOK, NEW t \in Tokens,
         \/ \E caller \in Callers : BeginRollback(t, caller)
         \/ TimerFires(t)
         \/ RestoreFirewall(t) \/ RestoreForward(t) \/ RestoreServices(t) \/ RestoreSaved(t)
         \/ WriteRolledBack(t) \/ StopAfterRollback(t)
  PROVE  TypeOK'
<1> USE DEF TypeOK, netVars, ApplySteps, Statuses, Disturbs, Rolls, RollbackSteps, Snapshot
<1>1. ASSUME NEW caller \in Callers, BeginRollback(t, caller) PROVE TypeOK'
  <2>1. timer' \in [Tokens -> {"none", "armed", "fired"}]
    BY <1>1 DEF BeginRollback
  <2>2. applying' \in [Tokens -> ApplySteps]
    BY <1>1 DEF BeginRollback
  <2>3. /\ rolling' \in [Tokens -> {"idle"} \union RollbackSteps]
        /\ was' \in [Tokens -> Statuses]
        /\ disturbed' \in [Tokens -> BOOLEAN]
    <3>1. CASE RollsBack(t, caller)
      <4>1. /\ rolling' = [rolling EXCEPT ![t] = "restore_firewall"]
            /\ was' = [was EXCEPT ![t] = status[t]]
            /\ disturbed' = [disturbed EXCEPT ![t] = FALSE]
        BY <1>1, <3>1 DEF BeginRollback
      <4>2. QED
        BY <4>1
    <3>2. CASE ~RollsBack(t, caller)
      BY <1>1, <3>2 DEF BeginRollback
    <3>3. QED
      BY <3>1, <3>2
  <2>4. QED
    BY <1>1, <2>1, <2>2, <2>3 DEF BeginRollback
<1>2. CASE TimerFires(t)
  BY <1>2 DEF TimerFires, lockVars
<1>3. CASE RestoreFirewall(t)
  BY <1>3 DEF RestoreFirewall, AfterFailedCommand
<1>4. CASE RestoreForward(t)
  BY <1>4 DEF RestoreForward, AfterFailedCommand
<1>5. CASE RestoreServices(t)
  BY <1>5 DEF RestoreServices, AfterServices
<1>6. CASE RestoreSaved(t)
  BY <1>6 DEF RestoreSaved
<1>7. CASE WriteRolledBack(t)
  BY <1>7 DEF WriteRolledBack
<1>8. CASE StopAfterRollback(t)
  BY <1>8 DEF StopAfterRollback, StopTimer
<1>9. QED
  BY <1>1, <1>2, <1>3, <1>4, <1>5, <1>6, <1>7, <1>8

LEMMA ConfirmType ==
  ASSUME TypeOK, NEW t \in Tokens,
         BeginConfirm(t) \/ ConfirmSave(t) \/ ConfirmStop(t) \/ WriteConfirmed(t) \/ KillHolder(t)
  PROVE  TypeOK'
<1> USE DEF TypeOK, netVars, Statuses, Confirms, ConfirmSteps
<1>1. CASE BeginConfirm(t)
  BY <1>1 DEF BeginConfirm
<1>2. CASE ConfirmSave(t)
  BY <1>2 DEF ConfirmSave
<1>3. CASE ConfirmStop(t)
  BY <1>3 DEF ConfirmStop, StopTimer
<1>4. CASE WriteConfirmed(t)
  BY <1>4 DEF WriteConfirmed
<1>5. CASE KillHolder(t)
  BY <1>5 DEF KillHolder, Rolls
<1>6. QED
  BY <1>1, <1>2, <1>3, <1>4, <1>5

LEMMA RebootType == TypeOK /\ Reboot => TypeOK'
BY DEF TypeOK, Reboot, ApplySteps

LEMMA TypeStep == TypeOK /\ [Next]_vars => TypeOK'
<1> SUFFICES ASSUME TypeOK, [Next]_vars PROVE TypeOK'
  OBVIOUS
<1>1. CASE UNCHANGED vars
  BY <1>1 DEF vars, TypeOK, netVars, lockVars
<1>2. CASE Next
  BY <1>2, ApplyType, RollbackType, ConfirmType, RebootType DEF Next, Apply, Hold
<1>3. QED
  BY <1>1, <1>2

-----------------------------------------------------------------------------
(* The flock protects the decisions *)

LEMMA ApplyKeeps ==
  ASSUME DInv, NEW t \in Tokens, Apply(t) \/ KillApply(t) \/ TimerFires(t)
  PROVE  /\ FlockExclusive' /\ RecordFirst' /\ DecisionStillHolds'
         /\ \A u \in Tokens : StatusAdvances(u)
<1> USE DEF DInv, TypeOK, FlockExclusive, RecordFirst, DecisionStillHolds, StatusAdvances,
        Unlocked, lockVars, ApplyGoes
<1>1. CASE Record(t)
  BY <1>1 DEF Record
<1>2. CASE Schedule(t)
  BY <1>2 DEF Schedule
<1>3. CASE ApplyFirewall(t)
  BY <1>3 DEF ApplyFirewall
<1>4. CASE ApplyForward(t)
  BY <1>4 DEF ApplyForward
<1>5. CASE ApplyServices(t)
  BY <1>5 DEF ApplyServices
<1>6. CASE KillApply(t)
  BY <1>6 DEF KillApply
<1>7. CASE TimerFires(t)
  BY <1>7 DEF TimerFires
<1>8. QED
  BY <1>1, <1>2, <1>3, <1>4, <1>5, <1>6, <1>7 DEF Apply

LEMMA RollbackKeeps ==
  ASSUME DInv, NEW t \in Tokens,
         \/ \E caller \in Callers : BeginRollback(t, caller)
         \/ RestoreFirewall(t) \/ RestoreForward(t) \/ RestoreServices(t) \/ RestoreSaved(t)
         \/ WriteRolledBack(t) \/ StopAfterRollback(t)
  PROVE  /\ FlockExclusive' /\ RecordFirst' /\ DecisionStillHolds'
         /\ \A u \in Tokens : StatusAdvances(u)
<1> USE DEF DInv, TypeOK, FlockExclusive, RecordFirst, DecisionStillHolds, StatusAdvances,
        Unlocked, Rolls
<1>1. ASSUME NEW caller \in Callers, BeginRollback(t, caller)
      PROVE  /\ FlockExclusive' /\ RecordFirst' /\ DecisionStillHolds'
             /\ \A u \in Tokens : StatusAdvances(u)
  <2>1. /\ Unlocked(t) /\ status[t] # "none" /\ applying[t] # "none"
        /\ UNCHANGED <<status, confirming>>
    BY <1>1 DEF BeginRollback, Calls
  <2>2. \A u \in Tokens : applying'[u] = "none" <=> applying[u] = "none"
    BY <1>1, <2>1 DEF BeginRollback
  <2>3. CASE RollsBack(t, caller)
    <3>1. /\ rolling' = [rolling EXCEPT ![t] = "restore_firewall"]
          /\ was' = [was EXCEPT ![t] = status[t]]
      BY <1>1, <2>3 DEF BeginRollback
    <3>2. QED
      BY <2>1, <2>2, <3>1
  <2>4. CASE ~RollsBack(t, caller)
    <3>1. UNCHANGED <<rolling, was>>
      BY <1>1, <2>4 DEF BeginRollback
    <3>2. QED
      BY <2>1, <2>2, <3>1
  <2>5. QED
    BY <2>3, <2>4
<1>2. CASE RestoreFirewall(t)
  BY <1>2 DEF RestoreFirewall, AfterFailedCommand
<1>3. CASE RestoreForward(t)
  BY <1>3 DEF RestoreForward, AfterFailedCommand
<1>4. CASE RestoreServices(t)
  BY <1>4 DEF RestoreServices
<1>5. CASE RestoreSaved(t)
  BY <1>5 DEF RestoreSaved
<1>6. CASE WriteRolledBack(t)
  BY <1>6 DEF WriteRolledBack
<1>7. CASE StopAfterRollback(t)
  BY <1>7 DEF StopAfterRollback
<1>8. QED
  BY <1>1, <1>2, <1>3, <1>4, <1>5, <1>6, <1>7

LEMMA ConfirmKeeps ==
  ASSUME DInv, NEW t \in Tokens,
         BeginConfirm(t) \/ ConfirmSave(t) \/ ConfirmStop(t) \/ WriteConfirmed(t) \/ KillHolder(t)
  PROVE  /\ FlockExclusive' /\ RecordFirst' /\ DecisionStillHolds'
         /\ \A u \in Tokens : StatusAdvances(u)
<1> USE DEF DInv, TypeOK, FlockExclusive, RecordFirst, DecisionStillHolds, StatusAdvances,
        Unlocked, Confirms
<1>1. CASE BeginConfirm(t)
  BY <1>1 DEF BeginConfirm, Confirmable
<1>2. CASE ConfirmSave(t)
  BY <1>2 DEF ConfirmSave
<1>3. CASE ConfirmStop(t)
  BY <1>3 DEF ConfirmStop
<1>4. CASE WriteConfirmed(t)
  BY <1>4 DEF WriteConfirmed
<1>5. CASE KillHolder(t)
  BY <1>5 DEF KillHolder, Rolls
<1>6. QED
  BY <1>1, <1>2, <1>3, <1>4, <1>5

LEMMA RebootKeeps ==
  ASSUME DInv, Reboot
  PROVE  /\ FlockExclusive' /\ RecordFirst' /\ DecisionStillHolds'
         /\ \A u \in Tokens : StatusAdvances(u)
BY DEF DInv, TypeOK, FlockExclusive, RecordFirst, DecisionStillHolds, StatusAdvances,
       Unlocked, Reboot

LEMMA DInvStep ==
  ASSUME DInv, [Next]_vars
  PROVE  DInv' /\ \A u \in Tokens : StatusAdvances(u)
<1>1. TypeOK'
  BY TypeStep DEF DInv
<1>2. CASE UNCHANGED vars
  BY <1>1, <1>2 DEF vars, lockVars, DInv, FlockExclusive, RecordFirst, DecisionStillHolds,
     StatusAdvances, Unlocked
<1>3. CASE Next
  BY <1>1, <1>3, ApplyKeeps, RollbackKeeps, ConfirmKeeps, RebootKeeps DEF Next, Hold, DInv
<1>4. QED
  BY <1>2, <1>3

LEMMA DInvInit == Init => DInv
<1> SUFFICES ASSUME Init PROVE DInv
  OBVIOUS
<1>1. Now \in Snapshot
  BY DEF Init, Now, Snapshot, Rules
<1>2. TypeOK
  BY <1>1 DEF Init, TypeOK, Rules, Statuses, ApplySteps
<1>3. QED
  BY <1>2 DEF Init, DInv, FlockExclusive, RecordFirst, DecisionStillHolds, Unlocked

-----------------------------------------------------------------------------
(* What a rollback restores *)

\* Half way through, the part that has been done is done.
RestoredSoFar ==
  \A t \in Tokens : ~disturbed[t] =>
    /\ rolling[t] \in RollbackSteps \ {"restore_firewall"} => firewall = snap[t].firewall
    /\ rolling[t] \in RollbackSteps \ {"restore_firewall", "restore_forward"}
       => forward = snap[t].forward

RInv == DInv /\ RestoredSoFar /\ RollbackRestores

Restored == RestoredSoFar /\ RollbackRestores

LEMMA ApplyRestored ==
  ASSUME RInv, NEW t \in Tokens, Apply(t) \/ KillApply(t) \/ TimerFires(t)
  PROVE  Restored'
<1> USE DEF RInv, DInv, TypeOK, RecordFirst, RestoredSoFar, RollbackRestores, Restored,
        Unlocked, lockVars, netVars, ApplyGoes, Disturbs, Late, RollbackSteps
<1>1. CASE Record(t)
  BY <1>1 DEF Record
<1>2. CASE Schedule(t)
  BY <1>2 DEF Schedule
<1>3. CASE ApplyFirewall(t)
  BY <1>3 DEF ApplyFirewall
<1>4. CASE ApplyForward(t)
  BY <1>4 DEF ApplyForward
<1>5. CASE ApplyServices(t)
  BY <1>5 DEF ApplyServices
<1>6. CASE KillApply(t)
  BY <1>6 DEF KillApply
<1>7. CASE TimerFires(t)
  BY <1>7 DEF TimerFires
<1>8. QED
  BY <1>1, <1>2, <1>3, <1>4, <1>5, <1>6, <1>7 DEF Apply

LEMMA RollbackRestored ==
  ASSUME RInv, NEW t \in Tokens,
         \/ \E caller \in Callers : BeginRollback(t, caller)
         \/ RestoreFirewall(t) \/ RestoreForward(t) \/ RestoreServices(t) \/ RestoreSaved(t)
         \/ WriteRolledBack(t) \/ StopAfterRollback(t)
  PROVE  Restored'
<1> USE DEF RInv, DInv, TypeOK, RecordFirst, RestoredSoFar, RollbackRestores, Restored,
        Unlocked, netVars, Rolls, Disturbs, RollbackSteps
<1>1. ASSUME NEW caller \in Callers, BeginRollback(t, caller)
      PROVE  Restored'
  <2>1. UNCHANGED <<firewall, forward, snap, status>>
    BY <1>1 DEF BeginRollback
  <2>2. CASE RollsBack(t, caller)
    <3>1. /\ rolling' = [rolling EXCEPT ![t] = "restore_firewall"]
          /\ disturbed' = [disturbed EXCEPT ![t] = FALSE]
          /\ status[t] # "rolled_back"
      BY <1>1, <2>2 DEF BeginRollback, RollsBack
    <3>2. QED
      BY <2>1, <3>1
  <2>3. CASE ~RollsBack(t, caller)
    <3>1. UNCHANGED <<rolling, disturbed>>
      BY <1>1, <2>3 DEF BeginRollback
    <3>2. QED
      BY <2>1, <3>1
  <2>4. QED
    BY <2>2, <2>3
<1>2. CASE RestoreFirewall(t)
  BY <1>2 DEF RestoreFirewall, AfterFailedCommand, DecisionStillHolds
<1>3. CASE RestoreForward(t)
  BY <1>3 DEF RestoreForward, AfterFailedCommand, DecisionStillHolds
<1>4. CASE RestoreServices(t)
  BY <1>4 DEF RestoreServices, AfterServices
<1>5. CASE RestoreSaved(t)
  BY <1>5 DEF RestoreSaved
<1>6. CASE WriteRolledBack(t)
  BY <1>6 DEF WriteRolledBack
<1>7. CASE StopAfterRollback(t)
  BY <1>7 DEF StopAfterRollback
<1>8. QED
  BY <1>1, <1>2, <1>3, <1>4, <1>5, <1>6, <1>7

LEMMA ConfirmRestored ==
  ASSUME RInv, NEW t \in Tokens,
         BeginConfirm(t) \/ ConfirmSave(t) \/ ConfirmStop(t) \/ WriteConfirmed(t) \/ KillHolder(t)
  PROVE  Restored'
<1> USE DEF RInv, DInv, TypeOK, RestoredSoFar, RollbackRestores, Restored, netVars,
        Confirms, RollbackSteps, DecisionStillHolds
<1>1. CASE BeginConfirm(t)
  BY <1>1 DEF BeginConfirm
<1>2. CASE ConfirmSave(t)
  BY <1>2 DEF ConfirmSave
<1>3. CASE ConfirmStop(t)
  BY <1>3 DEF ConfirmStop
<1>4. CASE WriteConfirmed(t)
  BY <1>4 DEF WriteConfirmed
<1>5. CASE KillHolder(t)
  BY <1>5 DEF KillHolder, Rolls
<1>6. QED
  BY <1>1, <1>2, <1>3, <1>4, <1>5

LEMMA RInvStep == RInv /\ [Next]_vars => RInv'
<1> SUFFICES ASSUME RInv, [Next]_vars PROVE RInv'
  OBVIOUS
<1>1. DInv'
  BY DInvStep DEF RInv
<1>2. CASE UNCHANGED vars
  BY <1>1, <1>2 DEF vars, lockVars, netVars, RInv, RestoredSoFar, RollbackRestores
<1>3. CASE Reboot
  BY <1>1, <1>3 DEF Reboot, RInv, RestoredSoFar, RollbackRestores
<1>4. CASE Next /\ ~Reboot
  BY <1>1, <1>4, ApplyRestored, RollbackRestored, ConfirmRestored DEF Next, Hold, RInv, Restored
<1>5. QED
  BY <1>2, <1>3, <1>4

-----------------------------------------------------------------------------
(* The saved rules, when there is a single activation: another one that is    *)
(* confirmed meanwhile saves its own                                           *)

SavedRestored ==
  \A t \in Tokens :
    was[t] = "confirmed" /\ (rolling[t] = "write_rolled_back" \/ status[t] = "rolled_back")
    => saved = snap[t].saved

LEMMA SavedStep ==
  ASSUME NEW t, Tokens = {t}, DInv, SavedRestored, [Next]_vars
  PROVE  SavedRestored'
<1> USE DEF DInv, TypeOK, RecordFirst, FlockExclusive, DecisionStillHolds, SavedRestored, Unlocked,
        lockVars, netVars, ApplyGoes, Rolls, Confirms, Disturbs
<1>1. CASE Record(t)
  BY <1>1 DEF Record
<1>2. CASE Schedule(t) \/ ApplyFirewall(t) \/ ApplyForward(t) \/ ApplyServices(t)
  BY <1>2 DEF Schedule, ApplyFirewall, ApplyForward, ApplyServices
<1>3. CASE KillApply(t) \/ TimerFires(t)
  BY <1>3 DEF KillApply, TimerFires
<1>4. ASSUME NEW caller \in Callers, BeginRollback(t, caller)
      PROVE  SavedRestored'
  <2>1. UNCHANGED <<saved, snap, status>>
    BY <1>4 DEF BeginRollback
  <2>2. CASE RollsBack(t, caller)
    <3>1. /\ rolling' = [rolling EXCEPT ![t] = "restore_firewall"]
          /\ status[t] # "rolled_back"
      BY <1>4, <2>2 DEF BeginRollback, RollsBack
    <3>2. QED
      BY <2>1, <3>1
  <2>3. CASE ~RollsBack(t, caller)
    <3>1. UNCHANGED <<rolling, was>>
      BY <1>4, <2>3 DEF BeginRollback
    <3>2. QED
      BY <2>1, <3>1
  <2>4. QED
    BY <2>2, <2>3
<1>5. CASE RestoreFirewall(t)
  BY <1>5 DEF RestoreFirewall, AfterFailedCommand
<1>6. CASE RestoreForward(t)
  BY <1>6 DEF RestoreForward, AfterFailedCommand
<1>7. CASE RestoreServices(t)
  BY <1>7 DEF RestoreServices, AfterServices
<1>8. CASE RestoreSaved(t)
  BY <1>8 DEF RestoreSaved
<1>9. CASE WriteRolledBack(t)
  BY <1>9 DEF WriteRolledBack
<1>10. CASE StopAfterRollback(t)
  BY <1>10 DEF StopAfterRollback
<1>11. CASE BeginConfirm(t) \/ ConfirmSave(t) \/ ConfirmStop(t) \/ WriteConfirmed(t)
  BY <1>11 DEF BeginConfirm, ConfirmSave, ConfirmStop, WriteConfirmed
<1>12. CASE KillHolder(t) \/ Reboot \/ UNCHANGED vars
  BY <1>12 DEF KillHolder, Reboot, vars
<1>13. QED
  BY <1>1, <1>2, <1>3, <1>4, <1>5, <1>6, <1>7, <1>8, <1>9, <1>10, <1>11, <1>12
  DEF Next, Hold, Apply

-----------------------------------------------------------------------------
(* The clean-up of the old resolver *)

LEMMA DnsStepIsStep == [DnsNext]_dnsVars => [Next]_vars
BY DEF DnsNext, Activates, Next, CleanupStep, BeginCleanup, PlanCleanup, RestoreStock, RemoveFile,
   EndCleanup, KillCleanup, Administer, dnsVars, activation, vars

\* What the administrator has not touched is as it was planned.
PlannedHolds ==
  /\ verdict = "OK" => cleaning = "idle"
  /\ cleaning = "planned" /\ ~touched =>
       /\ plan.remove = legacy
       /\ plan.restore => stock # "edited"
       /\ ~plan.restore => (backup => stock = "original") /\ stock # "marked"
  /\ cleaning = "restored" /\ ~touched =>
       /\ plan.remove = legacy
       /\ backup => stock = "original"
       /\ stock # "marked"

CTypeOK ==
  /\ cleaning \in {"idle", "checked", "planned", "restored"}
  /\ plan \in Plan
  /\ touched \in BOOLEAN /\ backup \in BOOLEAN
  /\ edits \in Nat
  /\ legacy \subseteq LegacyFiles

CInv == CTypeOK /\ PlannedHolds /\ CleanupConverges

LEMMA NoPlanIsPlan == NoPlan \in Plan
BY DEF NoPlan, Plan

LEMMA CTypeStep == CTypeOK /\ [DnsNext]_dnsVars => CTypeOK'
<1> SUFFICES ASSUME CTypeOK, [DnsNext]_dnsVars PROVE CTypeOK'
  OBVIOUS
<1> USE NoPlanIsPlan DEF CTypeOK, files, EndsWith
<1>1. CASE Activates \/ UNCHANGED dnsVars
  BY <1>1 DEF Activates, dnsVars, cleanup
<1>2. CASE BeginCleanup
  BY <1>2 DEF BeginCleanup
<1>3. CASE PlanCleanup
  <2>1. Restores \in BOOLEAN
    BY DEF Restores
  <2>2. [restore |-> Restores, remove |-> legacy] \in Plan
    BY <2>1 DEF Plan
  <2>3. QED
    BY <1>3, <2>2 DEF PlanCleanup
<1>4. CASE RestoreStock
  BY <1>4 DEF RestoreStock
<1>5. CASE RemoveFile
  <2>1. PICK f \in plan.remove :
          \/ legacy' = legacy \ {f} /\ plan' = [plan EXCEPT !.remove = @ \ {f}]
             /\ UNCHANGED cleaning
          \/ EndsWith("ERROR") /\ UNCHANGED legacy
    BY <1>5 DEF RemoveFile
  <2>2. [plan EXCEPT !.remove = @ \ {f}] \in Plan
    BY DEF Plan
  <2>3. QED
    BY <1>5, <2>1, <2>2 DEF RemoveFile
<1>6. CASE EndCleanup \/ KillCleanup
  BY <1>6 DEF EndCleanup, KillCleanup
<1>7. CASE Administer
  BY <1>7 DEF Administer
<1>8. QED
  BY <1>1, <1>2, <1>3, <1>4, <1>5, <1>6, <1>7 DEF DnsNext, CleanupStep

LEMMA CInvInit == DnsInit => CInv
<1> SUFFICES ASSUME DnsInit PROVE CInv
  OBVIOUS
<1>1. legacy \subseteq LegacyFiles /\ backup \in BOOLEAN
  BY HostsAreHosts DEF DnsInit
<1>2. QED
  BY <1>1, NoPlanIsPlan DEF DnsInit, CInv, CTypeOK, PlannedHolds, CleanupConverges

LEMMA CInvStep == CInv /\ [DnsNext]_dnsVars => CInv'
<1> SUFFICES ASSUME CInv, [DnsNext]_dnsVars PROVE PlannedHolds' /\ CleanupConverges'
  BY CTypeStep DEF CInv
<1>t. plan.restore \in BOOLEAN
  BY DEF CInv, CTypeOK, Plan
<1> USE DEF CInv, CTypeOK, PlannedHolds, CleanupConverges, files, EndsWith
<1>1. CASE Activates \/ UNCHANGED dnsVars
  BY <1>1 DEF Activates, dnsVars, cleanup
<1>2. CASE BeginCleanup
  BY <1>2 DEF BeginCleanup
<1>3. CASE PlanCleanup
  <2>1. CASE Refused
    BY <1>3, <2>1 DEF PlanCleanup
  <2>2. CASE ~Refused
    <3>1. plan' = [restore |-> Restores, remove |-> legacy] /\ cleaning' = "planned"
      BY <1>3, <2>2 DEF PlanCleanup
    <3>2. plan'.restore = Restores /\ plan'.remove = legacy
      BY <3>1
    <3>3. UNCHANGED <<verdict, legacy, stock, backup, touched, edits>>
      BY <1>3, <2>2 DEF PlanCleanup
    <3>4. QED
      BY <1>3, <2>2, <3>1, <3>2, <3>3 DEF Refused, Restores, PlanCleanup
  <2>3. QED
    BY <2>1, <2>2
<1>4. CASE RestoreStock
  BY <1>4, <1>t DEF RestoreStock
<1>5. CASE RemoveFile
  <2>1. PICK f \in plan.remove :
          \/ /\ f \in legacy /\ legacy' = legacy \ {f}
             /\ plan' = [plan EXCEPT !.remove = @ \ {f}] /\ UNCHANGED <<cleaning, verdict>>
          \/ EndsWith("ERROR") /\ UNCHANGED legacy
    BY <1>5 DEF RemoveFile
  <2>2. [plan EXCEPT !.remove = @ \ {f}].remove = plan.remove \ {f}
    BY DEF Plan
  <2>3. cleaning = "restored" /\ UNCHANGED <<stock, backup, touched>>
    BY <1>5 DEF RemoveFile
  <2>4. QED
    BY <2>1, <2>2, <2>3
<1>6. CASE EndCleanup \/ KillCleanup
  BY <1>6 DEF EndCleanup, KillCleanup
<1>7. CASE Administer
  BY <1>7 DEF Administer
<1>8. QED
  BY <1>1, <1>2, <1>3, <1>4, <1>5, <1>6, <1>7 DEF DnsNext, CleanupStep

-----------------------------------------------------------------------------
(* The old resolver in a rollback *)

ResolverSoFar ==
  \A t \in Tokens :
    rolling[t] \in {"restore_saved", "write_rolled_back"} /\ ~disturbed[t] /\ faults = {}
    => old = oldWas[t] /\ services = snap[t].services

OInv ==
  /\ DInv /\ oldWas \in [Tokens -> BOOLEAN]
  /\ ResolverSoFar /\ ResolverRestored

Resolved == oldWas' \in [Tokens -> BOOLEAN] /\ ResolverSoFar' /\ ResolverRestored'

LEMMA ApplyResolved ==
  ASSUME OInv, old \in BOOLEAN, NEW t \in Tokens, OldFollows(t),
         Apply(t) \/ KillApply(t) \/ TimerFires(t)
  PROVE  Resolved
<1> USE DEF OInv, DInv, TypeOK, RecordFirst, ResolverSoFar, ResolverRestored, Resolved,
        Unlocked, lockVars, netVars, ApplyGoes, Disturbs, Late, RollbackSteps
<1>1. CASE Record(t)
  <2>1. oldWas' = [oldWas EXCEPT ![t] = old] /\ UNCHANGED old
    BY <1>1 DEF Record, OldFollows
  <2>2. QED
    BY <1>1, <2>1 DEF Record
<1>2. CASE Schedule(t) \/ ApplyFirewall(t) \/ ApplyForward(t) \/ KillApply(t) \/ TimerFires(t)
  <2>1. UNCHANGED <<old, oldWas, services, snap, rolling, status, faults>>
    BY <1>2 DEF Schedule, ApplyFirewall, ApplyForward, KillApply, TimerFires, OldFollows
  <2>2. \A u \in Tokens : disturbed[u] => disturbed'[u]
    BY <1>2 DEF Schedule, ApplyFirewall, ApplyForward, KillApply, TimerFires
  <2>3. QED
    BY <2>1, <2>2
<1>3. CASE ApplyServices(t)
  <2>1. UNCHANGED oldWas
    BY <1>3 DEF ApplyServices, OldFollows
  <2>2. \A u \in Tokens : rolling[u] # "idle" \/ status[u] = "rolled_back" => disturbed'[u]
    BY <1>3 DEF ApplyServices
  <2>3. UNCHANGED <<rolling, status>>
    BY <1>3 DEF ApplyServices
  <2>4. QED
    BY <2>1, <2>2, <2>3
<1>4. QED
  BY <1>1, <1>2, <1>3 DEF Apply

LEMMA RollbackResolved ==
  ASSUME OInv, old \in BOOLEAN, NEW t \in Tokens, OldFollows(t),
         \/ \E caller \in Callers : BeginRollback(t, caller)
         \/ Hold(t) \/ BeginConfirm(t) \/ KillHolder(t)
  PROVE  Resolved
<1> USE DEF OInv, DInv, TypeOK, ResolverSoFar, ResolverRestored, Resolved, netVars, Rolls
<1>1. ASSUME NEW caller \in Callers, BeginRollback(t, caller)
      PROVE  Resolved
  <2>1. UNCHANGED <<old, oldWas, services, snap, status, faults>>
    BY <1>1 DEF BeginRollback, OldFollows, RollsBack, Unlocked
  <2>2. CASE RollsBack(t, caller)
    <3>1. /\ rolling' = [rolling EXCEPT ![t] = "restore_firewall"]
          /\ disturbed' = [disturbed EXCEPT ![t] = FALSE]
          /\ status[t] # "rolled_back"
      BY <1>1, <2>2 DEF BeginRollback, RollsBack
    <3>2. QED
      BY <2>1, <3>1
  <2>3. CASE ~RollsBack(t, caller)
    <3>1. UNCHANGED <<rolling, disturbed>>
      BY <1>1, <2>3 DEF BeginRollback
    <3>2. QED
      BY <2>1, <3>1
  <2>4. QED
    BY <2>2, <2>3
<1>2. CASE RestoreFirewall(t) \/ RestoreForward(t)
  <2>1. UNCHANGED <<old, oldWas, services, snap, status, faults>>
    BY <1>2 DEF RestoreFirewall, RestoreForward, OldFollows, AfterFailedCommand
  <2>2. /\ rolling'[t] \in {"restore_forward", "restore_services", "idle"}
        /\ \A u \in Tokens \ {t} : rolling'[u] = rolling[u]
        /\ \A u \in Tokens : disturbed[u] => disturbed'[u]
    BY <1>2 DEF RestoreFirewall, RestoreForward, AfterFailedCommand, Disturbs
  <2>3. QED
    BY <2>1, <2>2
<1>3. CASE RestoreServices(t)
  <2>1. rolling'[t] \in {"restore_saved", "write_rolled_back"}
    BY <1>3 DEF RestoreServices, AfterServices
  <2>2. /\ old' \in {oldWas[t]} \union (IF Fails THEN {old} ELSE {})
        /\ UNCHANGED oldWas
    BY <1>3, <2>1 DEF RestoreServices, OldFollows, OldRestored
  <2>3. /\ services' \in {snap[t].services} \union (IF Fails THEN {services} ELSE {})
        /\ UNCHANGED <<snap, status, faults>>
        /\ \A u \in Tokens \ {t} : disturbed'[u]
    BY <1>3 DEF RestoreServices, Disturbs
  <2>4. faults = {} => old' = oldWas'[t] /\ services' = snap'[t].services
    BY <2>2, <2>3 DEF Fails
  <2>5. QED
    BY <2>2, <2>3, <2>4
<1>4. CASE RestoreSaved(t) \/ WriteRolledBack(t) \/ StopAfterRollback(t)
  <2>1. UNCHANGED <<old, oldWas, services, snap, disturbed, faults>>
    BY <1>4 DEF RestoreSaved, WriteRolledBack, StopAfterRollback, OldFollows
  <2>2. QED
    BY <1>4, <2>1 DEF RestoreSaved, WriteRolledBack, StopAfterRollback
<1>5. CASE BeginConfirm(t) \/ ConfirmSave(t) \/ ConfirmStop(t) \/ WriteConfirmed(t)
  <2>1. UNCHANGED <<old, oldWas, services, snap, rolling, disturbed, faults>>
    BY <1>5 DEF BeginConfirm, ConfirmSave, ConfirmStop, WriteConfirmed, OldFollows
  <2>2. \A u \in Tokens : status'[u] = "rolled_back" => status[u] = "rolled_back"
    BY <1>5 DEF BeginConfirm, ConfirmSave, ConfirmStop, WriteConfirmed
  <2>3. QED
    BY <2>1, <2>2
<1>6. CASE KillHolder(t)
  <2>1. UNCHANGED <<old, oldWas, services, snap, status, disturbed, faults>>
    BY <1>6 DEF KillHolder, OldFollows
  <2>2. QED
    BY <1>6, <2>1 DEF KillHolder
<1>7. QED
  BY <1>1, <1>2, <1>3, <1>4, <1>5, <1>6 DEF Hold

LEMMA OInvStep ==
  ASSUME OInv, old \in BOOLEAN, [DnsNext]_dnsVars
  PROVE  OInv' /\ old' \in BOOLEAN
<1>1. DInv'
  BY DInvStep, DnsStepIsStep DEF OInv
<1>2. old' \in BOOLEAN
  <2>1. ASSUME NEW t \in Tokens, OldFollows(t) PROVE old' \in BOOLEAN
    <3>1. oldWas[t] \in BOOLEAN
      BY DEF OInv
    <3>2. QED
      BY <2>1, <3>1 DEF OldFollows, OldRestored
  <2>2. QED
    BY <2>1 DEF DnsNext, Activates, CleanupStep, BeginCleanup, PlanCleanup, RestoreStock,
       RemoveFile, EndCleanup, KillCleanup, Administer, dnsVars
<1>3. CASE UNCHANGED dnsVars \/ CleanupStep \/ Administer
  BY <1>1, <1>3 DEF CleanupStep, BeginCleanup, PlanCleanup, RestoreStock, RemoveFile, EndCleanup,
     KillCleanup, Administer, dnsVars, activation, lockVars, netVars,
     OInv, ResolverSoFar, ResolverRestored
<1>4. CASE Reboot /\ UNCHANGED <<old, oldWas>>
  BY <1>1, <1>4 DEF Reboot, OInv, ResolverSoFar, ResolverRestored, DInv, TypeOK
<1>5. ASSUME NEW t \in Tokens,
             \/ Apply(t) \/ Hold(t) \/ TimerFires(t) \/ BeginConfirm(t)
             \/ \E caller \in Callers : BeginRollback(t, caller)
             \/ KillApply(t) \/ KillHolder(t),
             OldFollows(t)
      PROVE  OInv'
  BY <1>1, <1>5, ApplyResolved, RollbackResolved DEF OInv, Resolved
<1>6. QED
  BY <1>1, <1>2, <1>3, <1>4, <1>5 DEF DnsNext, Activates

-----------------------------------------------------------------------------
(* The theorems *)

\* Every variable has its type (TypeOK).
THEOREM TypeCorrect == Spec => []TypeOK
<1>1. Init => TypeOK
  BY DInvInit DEF DInv
<1>2. QED
  BY <1>1, TypeStep, PTL DEF Spec

\* What a rollback or a confirmation has read in the record is still there when
\* it acts on it: the flock of confirm and snarkypuss-rollback.py suffices,
\* although apply takes none, whatever is killed and whenever the host reboots.
THEOREM DecisionsHold == Spec => []DecisionStillHolds
<1>1. DInv => DecisionStillHolds
  BY DEF DInv
<1>2. DInv /\ [Next]_vars => DInv'
  BY DInvStep
<1>3. QED
  BY <1>1, <1>2, DInvInit, PTL DEF Spec

\* The status of an activation only moves from pending to confirmed to rolled
\* back (snarkypuss-activate.py, snarkypuss-rollback.py).
THEOREM StatusNeverReturns == Spec => StatusOnlyAdvances
<1>1. DInv /\ [Next]_vars => DInv'
  BY DInvStep
<1>2. DInv /\ [Next]_vars
      => [\A t \in Tokens :
            /\ status[t] = "rolled_back" => status'[t] = "rolled_back"
            /\ status[t] = "confirmed" => status'[t] \in {"confirmed", "rolled_back"}]_vars
  BY DInvStep DEF StatusAdvances
<1>3. QED
  BY <1>1, <1>2, DInvInit, PTL DEF Spec, StatusOnlyAdvances

\* A rollback that reports success has restored rules and forwarding, unless an
\* apply, another activation or a reboot has changed them since it began, and
\* although any of its commands may fail (snarkypuss-rollback.py).
THEOREM RollbacksRestore == Spec => []RollbackRestores
<1>1. Init => RInv
  BY DInvInit DEF Init, RInv, RestoredSoFar, RollbackRestores, RollbackSteps
<1>2. RInv => RollbackRestores
  BY DEF RInv
<1>3. QED
  BY <1>1, <1>2, RInvStep, PTL DEF Spec

\* With a single activation, the rules that a confirmation has saved for the
\* next reboot are gone after its rollback; the record, and not the timer or
\* the caller, decides (snarkypuss-rollback.py).
THEOREM RollbackForgets ==
  ASSUME NEW t, Tokens = {t}
  PROVE  Spec => []RollbackForgetsSaved
<1>1. Init => DInv /\ SavedRestored
  BY DInvInit DEF Init, SavedRestored
<1>2. DInv /\ SavedRestored /\ [Next]_vars => (DInv /\ SavedRestored)'
  BY DInvStep, SavedStep
<1>3. DInv /\ SavedRestored => RollbackForgetsSaved
  BY DEF SavedRestored, RollbackForgetsSaved
<1>4. QED
  BY <1>1, <1>2, <1>3, PTL DEF Spec

\* Activation with the resolver implements Activation without it: whatever is
\* proved of the one holds of the other.
THEOREM CutoverIsActivation == DnsSpec => Spec
<1>1. DnsInit => Init
  BY DEF DnsInit
<1>2. QED
  BY <1>1, DnsStepIsStep, PTL DEF DnsSpec, Spec

\* The clean-up replaces no stock file that the administrator has made his own,
\* unless he writes it while the clean-up runs (snarkypuss-dns-cleanup.py).
THEOREM AdministratorIsKept == DnsSpec => AdministratorKept
<1>1. CInv /\ [DnsNext]_dnsVars
      => [stock = "edited" /\ stock' # "edited" /\ UNCHANGED edits => touched]_dnsVars
  <2> SUFFICES ASSUME CInv, DnsNext, stock = "edited", stock' # "edited", edits' = edits
               PROVE  touched
    BY DEF dnsVars
  <2>1. CASE RestoreStock
    BY <2>1 DEF RestoreStock, CInv, CTypeOK, PlannedHolds
  <2>2. CASE Administer
    BY <2>2 DEF Administer, CInv, CTypeOK
  <2>3. QED
    BY <2>1, <2>2 DEF DnsNext, Activates, CleanupStep, BeginCleanup, PlanCleanup, RemoveFile,
       EndCleanup, KillCleanup, files
<1>2. QED
  BY <1>1, CInvInit, CInvStep, PTL DEF DnsSpec, AdministratorKept

\* A clean-up that reports success has left nothing of the older releases,
\* wherever earlier ones failed or were killed (snarkypuss-dns-cleanup.py).
THEOREM CleanupsConverge == DnsSpec => []CleanupConverges
<1>1. CInv => CleanupConverges
  BY DEF CInv
<1>2. QED
  BY <1>1, CInvInit, CInvStep, PTL DEF DnsSpec

\* A rollback in which nothing fails and that nothing disturbs ends with the
\* resolver of before, whatever the clean-up does at the same time
\* (snarkypuss-rollback.py).
THEOREM ResolverComesBack == DnsSpec => []ResolverRestored
<1>1. DnsInit => OInv /\ old \in BOOLEAN
  <2> SUFFICES ASSUME DnsInit PROVE OInv /\ old \in BOOLEAN
    OBVIOUS
  <2>1. old \in BOOLEAN
    BY HostsAreHosts DEF DnsInit
  <2>2. QED
    BY <2>1, DInvInit DEF DnsInit, OInv, ResolverSoFar, ResolverRestored, Init
<1>2. OInv => ResolverRestored
  BY DEF OInv
<1>3. OInv /\ old \in BOOLEAN /\ [DnsNext]_dnsVars => (OInv /\ old \in BOOLEAN)'
  BY OInvStep
<1>4. QED
  BY <1>1, <1>2, <1>3, PTL DEF DnsSpec
=============================================================================
