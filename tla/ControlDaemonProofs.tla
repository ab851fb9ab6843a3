------------------------ MODULE ControlDaemonProofs ------------------------
(***************************************************************************)
(* Theorems about ControlDaemon for any set of workers and targets.        *)
(***************************************************************************)
EXTENDS ControlDaemon, TLAPS

\* The decisions return what the variables may hold.
LEMMA DecisionTypes ==
  /\ \A o \in Requests : Entry(o) \in Points /\ Leave(o) \in Points
  /\ \A o \in Requests, out \in Outcomes : AfterFailure(o, out) \in Points
  /\ \A out \in Outcomes : CodeOf(out) \in Codes
  /\ \A s, p : GatewayMode(s, p) \in Modes
<1>1. \A o \in Requests : Entry(o) \in Points /\ Leave(o) \in Points
  BY DEF Requests, Mutations, Entry, Leave, Points
<1>2. \A o \in Requests, out \in Outcomes : AfterFailure(o, out) \in Points
  BY <1>1 DEF AfterFailure, Points
<1>3. \A out \in Outcomes : CodeOf(out) \in Codes
  BY DEF CodeOf, Codes
<1>4. \A s, p : GatewayMode(s, p) \in Modes
  BY DEF GatewayMode, Modes
<1>5. QED
  BY <1>1, <1>2, <1>3, <1>4

\* The alias is a configured target or None after every request.
LEMMA AliasType ==
  ASSUME TypeOK, NEW o \in Requests, NEW s,
         NEW t \in Targets \union {None}
  PROVE  AliasAfter(o, t, s) \in Targets \union {None}
BY DEF AliasAfter, TypeOK, Requests, Mutations

\* Each provider command, and each unbidden change, leaves a provider state.
LEMMA ProviderTypes ==
  ASSUME ProviderTypeOK
  PROVE  /\ \A t \in Targets, out \in Outcomes : CommandConnect(t, out) => ProviderTypeOK'
         /\ CommandDisconnect => ProviderTypeOK'
         /\ \A v \in Toggle : CommandKillSwitch(v) => ProviderTypeOK'
         /\ TunnelMoves => ProviderTypeOK'
         /\ TunnelLost => ProviderTypeOK'
         /\ UNCHANGED providerVars => ProviderTypeOK'
<1> USE DEF ProviderTypeOK, TunnelStates
<1>1. ASSUME NEW t \in Targets, NEW out \in Outcomes, CommandConnect(t, out)
      PROVE  ProviderTypeOK'
  BY <1>1 DEF CommandConnect, DownTo
<1>2. CommandDisconnect => ProviderTypeOK'
  BY DEF CommandDisconnect, DownTo
<1>3. ASSUME NEW v \in Toggle, CommandKillSwitch(v) PROVE ProviderTypeOK'
  BY <1>3 DEF CommandKillSwitch
<1>4. TunnelMoves => ProviderTypeOK'
  BY DEF TunnelMoves, DownTo
<1>5. TunnelLost => ProviderTypeOK'
  BY DEF TunnelLost, DownTo
<1>6. UNCHANGED providerVars => ProviderTypeOK'
  BY DEF providerVars
<1>7. QED
  BY <1>1, <1>2, <1>3, <1>4, <1>5, <1>6

-----------------------------------------------------------------------------
\* What the type invariant says of one worker's variables and the history.
WorkerTypeOK ==
  /\ pc \in [Workers -> Points]
  /\ op \in [Workers -> Requests \union {"NONE"}]
  /\ tgt \in [Workers -> Targets \union {None}]
  /\ view \in [Workers -> View]
  /\ reply \in [Workers -> Reply]
  /\ granted \in BOOLEAN
  /\ confirmed \in Transitions \union {"NONE"}
  /\ calm \in [Workers -> BOOLEAN]
  /\ restored \in [Workers -> {"no", "tried", "done"}]

\* Where a worker can be with request o for target t: the order in which
\* _dispatch_unlocked runs a request's commands.
PointOK(p, o, t) ==
  /\ p = "idle" <=> o = "NONE"
  /\ p \in {"set_on", "verify_on"} => o \in {"PROTECTED", "LOCK"}
  /\ p \in {"set_off", "verify_off", "restore"} => o = "DIRECT"
  /\ p = "precheck" => o = "DISCONNECT"
  /\ p = "connect" => o \in Targeted
  /\ p = "disconnect" => o \in {"LOCK", "DISCONNECT", "DIRECT"}
  /\ p \in {"observe", "alias"} => o # "REPLACE"
  /\ p = "mode" => o \notin {"REPLACE", "DISCONNECT"}
  /\ p = "replace" => o = "REPLACE"
  /\ p = "release" => o \in Mutations
  /\ o \in Targeted => t \in Targets

RequestAt == \A w \in Workers : PointOK(pc[w], op[w], tgt[w])

\* Working on a worker that has a request, the shared endings of a step keep
\* the types.
LEMMA EndingTypes ==
  ASSUME WorkerTypeOK, NEW w \in Workers, op[w] \in Requests
  PROVE  /\ \A out \in Outcomes : Fail(w, out) => WorkerTypeOK'
         /\ \A c \in Codes : Refuse(w, c) => WorkerTypeOK'
         /\ \A p \in Points : Continue(w, p) => WorkerTypeOK'
         /\ \A m \in Modes \union {"none"} :
              Succeed(w, m) /\ calm' \in [Workers -> BOOLEAN] => WorkerTypeOK'
<1> USE DecisionTypes DEF WorkerTypeOK, Answer, GoTo, Reply, historyVars
<1>1. ASSUME NEW out \in Outcomes, Fail(w, out) PROVE WorkerTypeOK'
  BY <1>1 DEF Fail
<1>2. ASSUME NEW c \in Codes, Refuse(w, c) PROVE WorkerTypeOK'
  BY <1>2 DEF Refuse
<1>3. ASSUME NEW p \in Points, Continue(w, p) PROVE WorkerTypeOK'
  BY <1>3 DEF Continue
<1>4. ASSUME NEW m \in Modes \union {"none"}, Succeed(w, m),
             calm' \in [Workers -> BOOLEAN]
      PROVE  WorkerTypeOK'
  <2>1. confirmed' \in Transitions \union {"NONE"} /\ granted' \in BOOLEAN
    BY <1>4 DEF Succeed
  <2>2. reply' \in [Workers -> Reply]
    BY <1>4 DEF Succeed, Codes
  <2>3. QED
    BY <1>4, <2>1, <2>2 DEF Succeed
<1>5. QED
  BY <1>1, <1>2, <1>3, <1>4
-----------------------------------------------------------------------------
TypedRequests == TypeOK /\ RequestAt

LEMMA InitTyped == Init => TypedRequests
BY DEF Init, ProviderInit, TypedRequests, TypeOK, ProviderTypeOK, TunnelStates,
       RequestAt, PointOK, Targeted, Points, View, NoView, Reply, NoReply

\* A worker away from "idle" has a request.
LEMMA HasRequest ==
  ASSUME TypedRequests, NEW w \in Workers, pc[w] # "idle"
  PROVE  op[w] \in Requests
BY DEF TypedRequests, RequestAt, PointOK, TypeOK

\* Every step of a worker, of the provider, and every crash keeps the types.
LEMMA NextTyped == TypedRequests /\ [Next]_vars => TypeOK'
<1> SUFFICES ASSUME TypedRequests, [Next]_vars PROVE TypeOK'
  OBVIOUS
<1>t. TypeOK /\ ProviderTypeOK /\ WorkerTypeOK
  BY DEF TypedRequests, TypeOK, WorkerTypeOK
<1> DEFINE SharedTypeOK == lock \in Workers \union {None} /\ alias \in Targets \union {None}
<1>s. SharedTypeOK
  BY <1>t DEF TypeOK
<1>a. ASSUME ProviderTypeOK', WorkerTypeOK', SharedTypeOK' PROVE TypeOK'
  BY <1>a DEF TypeOK, WorkerTypeOK
<1>p. UNCHANGED providerVars => ProviderTypeOK'
  BY <1>t, ProviderTypes
<1>l. UNCHANGED <<lock, alias>> => SharedTypeOK'
  BY <1>s
<1>1. ASSUME NEW w \in Workers, Accept(w) PROVE TypeOK'
  <2>1. WorkerTypeOK'
    <3>1. PICK o \in Offered, t \in Targets \union {None} :
            op' = [op EXCEPT ![w] = o] /\ tgt' = [tgt EXCEPT ![w] = t]
      BY <1>1 DEF Accept
    <3>2. o \in Requests
      BY OfferedAreRequests
    <3>3. op' \in [Workers -> Requests \union {"NONE"}]
      BY <1>t, <3>1, <3>2 DEF WorkerTypeOK
    <3>4. tgt' \in [Workers -> Targets \union {None}]
      BY <1>t, <3>1 DEF WorkerTypeOK
    <3>5. QED
      BY <1>t, <1>1, <3>3, <3>4 DEF Accept, GoTo, historyVars, WorkerTypeOK, Points
  <2>2. QED
    BY <1>1, <2>1, <1>a, <1>p, <1>l DEF Accept
<1>2. ASSUME NEW w \in Workers, Compete(w) PROVE TypeOK'
  <2>1. WorkerTypeOK'
    BY <1>t, <1>2 DEF Compete, Answer, GoTo, historyVars, WorkerTypeOK, Points, Reply, Codes
  <2>2. QED
    BY <1>2, <2>1, <1>a, <1>p, <1>l DEF Compete
<1>3. ASSUME NEW w \in Workers, Enter(w) PROVE TypeOK'
  <2>0. op[w] \in Requests
    BY <1>3, HasRequest DEF Enter, At
  <2>e. Entry(op[w]) \in Points /\ "release" \in Points
    BY <2>0, DecisionTypes DEF Points
  <2>p. pc' \in [Workers -> Points]
    BY <1>t, <1>3, <2>e DEF Enter, GoTo, WorkerTypeOK
  <2>1. pc' \in [Workers -> Points] /\ reply' \in [Workers -> Reply]
    BY <1>t, <1>3, <2>p DEF Enter, Answer, WorkerTypeOK, Reply, Codes
  <2>2. confirmed' \in Transitions \union {"NONE"} /\ granted' \in BOOLEAN
    BY <1>t, <1>3 DEF Enter, WorkerTypeOK
  <2>3. WorkerTypeOK'
    BY <1>t, <1>3, <2>1, <2>2 DEF Enter, WorkerTypeOK
  <2>4. SharedTypeOK'
    BY <1>s, <1>3 DEF Enter
  <2>5. QED
    BY <1>3, <2>3, <2>4, <1>a, <1>p DEF Enter
<1>4. ASSUME NEW w \in Workers, SetOn(w) PROVE TypeOK'
  <2>1. ProviderTypeOK'
    BY <1>t, <1>4, ProviderTypes DEF SetOn, Toggle
  <2>2. WorkerTypeOK'
    BY <1>t, <1>4, HasRequest, EndingTypes DEF SetOn, At, Points
  <2>3. QED
    BY <1>4, <2>1, <2>2, <1>a, <1>l DEF SetOn
<1>5. ASSUME NEW w \in Workers, VerifyOn(w) PROVE TypeOK'
  <2>1. WorkerTypeOK'
    BY <1>t, <1>5, HasRequest, EndingTypes DEF VerifyOn, At, Points, Outcomes
  <2>2. QED
    BY <1>5, <2>1, <1>a, <1>p, <1>l DEF VerifyOn
<1>6. ASSUME NEW w \in Workers, SetOff(w) PROVE TypeOK'
  <2>1. ProviderTypeOK'
    BY <1>t, <1>6, ProviderTypes DEF SetOff, Toggle
  <2>2. WorkerTypeOK'
    BY <1>t, <1>6, HasRequest, EndingTypes DEF SetOff, At, Points
  <2>3. QED
    BY <1>6, <2>1, <2>2, <1>a, <1>l DEF SetOff
<1>7. ASSUME NEW w \in Workers, VerifyOff(w) PROVE TypeOK'
  <2>1. WorkerTypeOK'
    BY <1>t, <1>7, HasRequest, EndingTypes DEF VerifyOff, At, Points, Outcomes
  <2>2. QED
    BY <1>7, <2>1, <1>a, <1>p, <1>l DEF VerifyOff
<1>8. ASSUME NEW w \in Workers, Precheck(w) PROVE TypeOK'
  <2>1. ASSUME NEW shown \in Shown(killswitch),
               view' = [view EXCEPT ![w].protection = shown],
               GoTo(w, "disconnect"),
               UNCHANGED <<op, tgt, reply, historyVars>>
        PROVE  WorkerTypeOK'
    <3>1. view' \in [Workers -> View]
      BY <1>t, <2>1 DEF WorkerTypeOK, ProviderTypeOK, View, Shown
    <3>2. QED
      BY <1>t, <2>1, <3>1 DEF WorkerTypeOK, GoTo, Points, historyVars
  <2>2. WorkerTypeOK'
    BY <1>t, <1>8, <2>1, HasRequest, EndingTypes DEF Precheck, At, Outcomes, Codes
  <2>3. QED
    BY <1>8, <2>2, <1>a, <1>p, <1>l DEF Precheck
<1>9. ASSUME NEW w \in Workers, Connect(w) PROVE TypeOK'
  <2>1. tgt[w] \in Targets
    BY <1>9 DEF TypedRequests, RequestAt, PointOK, Connect, At
  <2>2. ProviderTypeOK'
    BY <1>t, <1>9, <2>1, ProviderTypes DEF Connect
  <2>3. WorkerTypeOK'
    BY <1>t, <1>9, HasRequest, EndingTypes DEF Connect, At, Points
  <2>4. QED
    BY <1>9, <2>2, <2>3, <1>a, <1>l DEF Connect
<1>10. ASSUME NEW w \in Workers, Disconnect(w) PROVE TypeOK'
  <2>1. ProviderTypeOK'
    BY <1>t, <1>10, ProviderTypes DEF Disconnect
  <2>2. WorkerTypeOK'
    BY <1>t, <1>10, HasRequest, EndingTypes DEF Disconnect, At, Points
  <2>3. QED
    BY <1>10, <2>1, <2>2, <1>a, <1>l DEF Disconnect
<1>11. ASSUME NEW w \in Workers, Observe(w) PROVE TypeOK'
  <2>1. ASSUME view' = [view EXCEPT ![w].state = tunnel],
               calm' = [calm EXCEPT ![w] = @ \/ ~Exposed],
               GoTo(w, "alias"),
               UNCHANGED <<op, tgt, reply, granted, confirmed, restored>>
        PROVE  WorkerTypeOK'
    <3>1. view' \in [Workers -> View]
      BY <1>t, <2>1 DEF WorkerTypeOK, ProviderTypeOK, View
    <3>2. calm' \in [Workers -> BOOLEAN]
      BY <1>t, <2>1 DEF WorkerTypeOK
    <3>3. QED
      BY <1>t, <2>1, <3>1, <3>2 DEF WorkerTypeOK, GoTo, Points
  <2>2. op[w] \in Requests
    BY <1>11, HasRequest DEF Observe, At
  <2>3. ASSUME Succeed(w, "none"), UNCHANGED calm PROVE WorkerTypeOK'
    BY <1>t, <2>2, <2>3, EndingTypes DEF WorkerTypeOK
  <2>4. WorkerTypeOK'
    BY <1>t, <1>11, <2>1, <2>2, <2>3, EndingTypes DEF Observe, Outcomes
  <2>5. QED
    BY <1>11, <2>4, <1>a, <1>p, <1>l DEF Observe
<1>12. ASSUME NEW w \in Workers, UpdateAlias(w) PROVE TypeOK'
  <2>1. op[w] \in Requests
    BY <1>12, HasRequest DEF UpdateAlias, At
  <2>2. SharedTypeOK'
    BY <1>s, <1>t, <1>12, <2>1, AliasType DEF UpdateAlias, WorkerTypeOK
  <2>3. ASSUME NEW m \in Modes, Succeed(w, m), UNCHANGED calm PROVE WorkerTypeOK'
    BY <1>t, <2>1, <2>3, EndingTypes DEF WorkerTypeOK
  <2>4. WorkerTypeOK'
    BY <1>t, <1>12, <2>1, <2>3, EndingTypes, DecisionTypes DEF UpdateAlias, Points
  <2>5. QED
    BY <1>12, <2>2, <2>4, <1>a, <1>p DEF UpdateAlias
<1>13. ASSUME NEW w \in Workers, ReadMode(w) PROVE TypeOK'
  <2>1. op[w] \in Requests
    BY <1>13, HasRequest DEF ReadMode, At
  <2>2. ASSUME NEW m \in Modes, Succeed(w, m),
               \/ UNCHANGED calm
               \/ calm' = [calm EXCEPT ![w] = @ \/ ~Exposed]
        PROVE WorkerTypeOK'
    <3>1. calm' \in [Workers -> BOOLEAN]
      BY <1>t, <2>2 DEF WorkerTypeOK
    <3>2. QED
      BY <1>t, <2>1, <2>2, <3>1, EndingTypes
  <2>3. WorkerTypeOK'
    BY <1>t, <1>13, <2>1, <2>2, EndingTypes, DecisionTypes DEF ReadMode, Outcomes
  <2>4. QED
    BY <1>13, <2>3, <1>a, <1>p, <1>l DEF ReadMode
<1>14. ASSUME NEW w \in Workers, Restore(w) PROVE TypeOK'
  <2>1. ProviderTypeOK'
    BY <1>t, <1>14, ProviderTypes DEF Restore, Toggle
  <2>2. restored' \in [Workers -> {"no", "tried", "done"}]
    BY <1>t, <1>14 DEF Restore, WorkerTypeOK
  <2>3. reply' \in [Workers -> Reply]
    BY <1>t, <1>14, DecisionTypes DEF Restore, WorkerTypeOK, Answer, Reply
  <2>4. WorkerTypeOK'
    BY <1>t, <1>14, <2>2, <2>3 DEF Restore, WorkerTypeOK, GoTo, Points
  <2>5. QED
    BY <1>14, <2>1, <2>4, <1>a, <1>l DEF Restore
<1>15. ASSUME NEW w \in Workers, Replace(w) PROVE TypeOK'
  <2>1. op[w] \in Requests
    BY <1>15, HasRequest DEF Replace, At
  <2>2. ASSUME Succeed(w, "none"), UNCHANGED calm PROVE WorkerTypeOK'
    BY <1>t, <2>1, <2>2, EndingTypes DEF WorkerTypeOK
  <2>3. WorkerTypeOK'
    BY <1>t, <1>15, <2>1, <2>2, EndingTypes DEF Replace, Outcomes
  <2>4. QED
    BY <1>15, <2>3, <1>a, <1>p, <1>l DEF Replace
<1>16. ASSUME NEW w \in Workers, Release(w) PROVE TypeOK'
  <2>1. WorkerTypeOK'
    BY <1>t, <1>16, HasRequest, EndingTypes DEF Release, At, Points
  <2>2. SharedTypeOK'
    BY <1>s, <1>16 DEF Release
  <2>3. QED
    BY <1>16, <2>1, <2>2, <1>a, <1>p DEF Release
<1>17. ASSUME NEW w \in Workers, Respond(w) PROVE TypeOK'
  <2>1. WorkerTypeOK'
    BY <1>t, <1>17
    DEF Respond, WorkerTypeOK, GoTo, Points, View, NoView, Reply, NoReply
  <2>2. QED
    BY <1>17, <2>1, <1>a, <1>p, <1>l DEF Respond
<1>18. ASSUME Forget PROVE WorkerTypeOK' /\ SharedTypeOK'
  BY <1>t, <1>18 DEF Forget, WorkerTypeOK, Points, View, NoView, Reply, NoReply
<1>19. CASE ProviderMoves
  <2>1. ProviderTypeOK'
    BY <1>t, <1>19, ProviderTypes DEF ProviderMoves
  <2>2. WorkerTypeOK'
    BY <1>t, <1>19 DEF ProviderMoves, workerVars, historyVars, WorkerTypeOK
  <2>3. QED
    BY <1>19, <2>1, <2>2, <1>a, <1>l DEF ProviderMoves
<1>20. CASE Crash
  BY <1>18, <1>20, <1>a, <1>p DEF Crash
<1>21. CASE Reboot
  BY <1>t, <1>18, <1>21, <1>a, ProviderTypes DEF Reboot
<1>22. CASE UNCHANGED vars
  <2>1. WorkerTypeOK'
    BY <1>t, <1>22 DEF vars, workerVars, historyVars, WorkerTypeOK
  <2>2. QED
    BY <1>22, <2>1, <1>a, <1>p, <1>l DEF vars
<1>23. QED
  BY <1>1, <1>2, <1>3, <1>4, <1>5, <1>6, <1>7, <1>8, <1>9, <1>10, <1>11, <1>12,
     <1>13, <1>14, <1>15, <1>16, <1>17, <1>19, <1>20, <1>21, <1>22
  DEF Next, Work

-----------------------------------------------------------------------------
(* Where a step of a worker leads *)

\* The steps inside a request: neither its admission nor its end.
Inner(w) ==
  \/ SetOn(w) \/ VerifyOn(w) \/ SetOff(w) \/ VerifyOff(w) \/ Precheck(w)
  \/ Connect(w) \/ Disconnect(w) \/ Observe(w) \/ UpdateAlias(w)
  \/ ReadMode(w) \/ Restore(w) \/ Replace(w)

Ends == {"idle", "dispatch", "reply"}

\* Worker w moves to point p of the request it is working on; a mutation stays
\* inside the locked region.
Moves(w, p) ==
  /\ pc' = [pc EXCEPT ![w] = p]
  /\ op' = op /\ tgt' = tgt
  /\ pc[w] \notin Ends
  /\ PointOK(p, op[w], tgt[w])
  /\ op[w] \in Mutations => p \notin Ends

LEMMA LeavePoint ==
  ASSUME NEW o \in Requests, NEW t, o \in Targeted => t \in Targets
  PROVE  /\ PointOK(Leave(o), o, t)
         /\ o \in Mutations => Leave(o) \notin Ends
         /\ \A out \in Outcomes :
              /\ PointOK(AfterFailure(o, out), o, t)
              /\ o \in Mutations => AfterFailure(o, out) \notin Ends
BY DEF PointOK, Leave, AfterFailure, Ends, Requests, Mutations, Targeted

LEMMA EndingMoves ==
  ASSUME TypedRequests, NEW w \in Workers, pc[w] \notin Ends
  PROVE  /\ \A out \in Outcomes : Fail(w, out) => Moves(w, AfterFailure(op[w], out))
         /\ \A c : Refuse(w, c) => Moves(w, Leave(op[w]))
         /\ \A m : Succeed(w, m) => Moves(w, Leave(op[w]))
<1>1. op[w] \in Requests /\ (op[w] \in Targeted => tgt[w] \in Targets)
  BY HasRequest DEF Ends, TypedRequests, RequestAt, PointOK
<1>2. QED
  BY <1>1, LeavePoint DEF Moves, Fail, Refuse, Succeed, GoTo

\* Continuing is a move when the next point belongs to the request.
LEMMA ContinueMoves ==
  ASSUME TypedRequests, NEW w \in Workers, pc[w] \notin Ends,
         NEW p \in Points \ Ends, PointOK(p, op[w], tgt[w]), GoTo(w, p),
         op' = op, tgt' = tgt
  PROVE  Moves(w, p)
BY DEF Moves, GoTo

LEMMA InnerMoves ==
  ASSUME TypedRequests, NEW w \in Workers, Inner(w)
  PROVE  lock' = lock /\ \E p : Moves(w, p)
<1>1. lock' = lock /\ pc[w] \notin Ends
  BY DEF Inner, SetOn, VerifyOn, SetOff, VerifyOff, Precheck, Connect, Disconnect,
         Observe, UpdateAlias, ReadMode, Restore, Replace, At, Ends
<1>2. op[w] \in Requests /\ PointOK(pc[w], op[w], tgt[w])
  BY <1>1, HasRequest DEF Ends, TypedRequests, RequestAt
<1>e. /\ \A out \in Outcomes : Fail(w, out) => \E p : Moves(w, p)
      /\ \A c : Refuse(w, c) => \E p : Moves(w, p)
      /\ \A m : Succeed(w, m) => \E p : Moves(w, p)
  BY <1>1, EndingMoves
<1>c. ASSUME NEW p \in Points \ Ends, PointOK(p, op[w], tgt[w]), Continue(w, p)
      PROVE  \E q : Moves(w, q)
  BY <1>1, <1>c, ContinueMoves DEF Continue
<1> USE DEF PointOK, Points, Ends, At, Outcomes
<1>3. CASE SetOn(w)
  BY <1>2, <1>3, <1>1, <1>e, <1>c DEF SetOn, Targeted
<1>4. CASE VerifyOn(w)
  BY <1>2, <1>4, <1>1, <1>e, <1>c DEF VerifyOn, Targeted
<1>5. CASE SetOff(w)
  BY <1>2, <1>5, <1>1, <1>e, <1>c DEF SetOff, Targeted
<1>6. CASE VerifyOff(w)
  BY <1>2, <1>6, <1>1, <1>e, <1>c DEF VerifyOff, Targeted
<1>7. CASE Precheck(w)
  BY <1>2, <1>7, <1>1, <1>e, ContinueMoves DEF Precheck, Targeted
<1>8. CASE Connect(w)
  BY <1>2, <1>8, <1>1, <1>e, <1>c DEF Connect, Targeted
<1>9. CASE Disconnect(w)
  BY <1>2, <1>9, <1>1, <1>e, <1>c DEF Disconnect, Targeted
<1>10. CASE Observe(w)
  BY <1>2, <1>10, <1>1, <1>e, ContinueMoves DEF Observe, Targeted
<1>11. CASE UpdateAlias(w)
  BY <1>2, <1>11, <1>1, <1>e, <1>c DEF UpdateAlias, Targeted
<1>12. CASE ReadMode(w)
  BY <1>2, <1>12, <1>1, <1>e DEF ReadMode
<1>13. CASE Restore(w)
  BY <1>2, <1>13, <1>1, ContinueMoves DEF Restore, Targeted, Mutations
<1>14. CASE Replace(w)
  BY <1>2, <1>14, <1>1, <1>e DEF Replace
<1>15. QED
  BY <1>1, <1>3, <1>4, <1>5, <1>6, <1>7, <1>8, <1>9, <1>10, <1>11, <1>12, <1>13,
     <1>14 DEF Inner

-----------------------------------------------------------------------------
(* The inductive invariant *)

\* Steps of a request that must run under an enabled kill switch: Protected and
\* Lock once they have verified it, Disconnect once it has read it.
Sheltered(w) ==
  \/ op[w] \in {"PROTECTED", "LOCK"} /\ pc[w] \in {"connect", "disconnect", "observe", "alias", "mode"}
  \/ op[w] = "DISCONNECT" /\ pc[w] \in {"disconnect", "observe", "alias"}

ShelterHolds == \A w \in Workers : Sheltered(w) => killswitch = "on"

\* A Direct request works under the grant it got on admission.
GrantHeld == \A w \in Workers : op[w] = "DIRECT" /\ InMutation(w) => granted

\* A confirmed transition is the last one: none is at work.
NoneSince ==
  confirmed # "NONE" =>
    \A w \in Workers : InMutation(w) /\ op[w] \in Transitions => pc[w] = "release"

\* A disconnected tunnel stays so while Lock or Direct derive their mode.
StaysDown ==
  \A w \in Workers :
    /\ op[w] \in {"LOCK", "DIRECT"} /\ pc[w] \in {"alias", "mode"}
    /\ view[w].state = "DISCONNECTED"
    => tunnel = "DISCONNECTED"

IInv ==
  /\ TypedRequests
  /\ LockDiscipline
  /\ ShelterHolds
  /\ NoUngrantedExposure
  /\ GrantHeld
  /\ NoneSince
  /\ StaysDown
  /\ ConfirmedModeHolds

LEMMA InitInv == Init => IInv
<1> SUFFICES ASSUME Init PROVE IInv
  OBVIOUS
<1>1. TypedRequests
  BY InitTyped
<1>2. \A w \in Workers : pc[w] = "idle" /\ op[w] = "NONE"
  BY DEF Init
<1>3. LockDiscipline
  BY <1>2, NoneIsNoWorker DEF Init, LockDiscipline, InMutation
<1>4. ShelterHolds /\ GrantHeld /\ NoneSince /\ StaysDown
  BY <1>2 DEF ShelterHolds, Sheltered, GrantHeld, NoneSince, StaysDown, InMutation
<1>5. NoUngrantedExposure /\ ConfirmedModeHolds
  BY DEF Init, NoUngrantedExposure, ConfirmedModeHolds
<1>6. QED
  BY <1>1, <1>3, <1>4, <1>5 DEF IInv

\* A worker that moves stays on the path of its request and in its lock region.
LEMMA MovesKeep ==
  ASSUME TypedRequests, LockDiscipline, NEW w \in Workers, NEW p, Moves(w, p),
         lock' = lock
  PROVE  RequestAt' /\ LockDiscipline'
<1>1. pc'[w] = p /\ \A v \in Workers \ {w} : pc'[v] = pc[v]
  BY DEF Moves, TypedRequests, TypeOK
<1>2. RequestAt'
  BY <1>1 DEF Moves, TypedRequests, RequestAt
<1>3. \A v \in Workers : InMutation(v)' <=> InMutation(v)
  BY <1>1 DEF Moves, InMutation, Ends
<1>4. QED
  BY <1>2, <1>3 DEF LockDiscipline

LEMMA NextDiscipline ==
  ASSUME TypedRequests, LockDiscipline, [Next]_vars
  PROVE  TypedRequests' /\ LockDiscipline'
<1>t. TypeOK'
  BY NextTyped
<1>y. pc \in [Workers -> Points] /\ op \in [Workers -> Requests \union {"NONE"}]
      /\ tgt \in [Workers -> Targets \union {None}]
  BY DEF TypedRequests, TypeOK
<1>r. \A v \in Workers : PointOK(pc[v], op[v], tgt[v])
  BY DEF TypedRequests, RequestAt
<1>1. ASSUME NEW w \in Workers, Accept(w) PROVE RequestAt' /\ LockDiscipline'
  <2>1. PICK o \in Requests, t \in Targets \union {None} :
          /\ op' = [op EXCEPT ![w] = o]
          /\ tgt' = [tgt EXCEPT ![w] = t]
          /\ o \in Targeted => t \in Targets
    BY <1>1, OfferedAreRequests DEF Accept
  <2>2. pc'[w] = "dispatch" /\ op'[w] = o /\ tgt'[w] = t
    BY <1>y, <1>1, <2>1 DEF Accept, GoTo
  <2>3. \A v \in Workers \ {w} : pc'[v] = pc[v] /\ op'[v] = op[v] /\ tgt'[v] = tgt[v]
    BY <1>y, <1>1, <2>1 DEF Accept, GoTo
  <2>4. PointOK("dispatch", o, t)
    BY <2>1 DEF PointOK, Requests, Mutations
  <2>5. RequestAt'
    BY <1>r, <2>2, <2>3, <2>4 DEF RequestAt
  <2>6. ~InMutation(w) /\ ~InMutation(w)' /\ lock' = lock
    BY <1>1, <2>2 DEF InMutation, Accept, At
  <2>7. LockDiscipline'
    BY <2>3, <2>6 DEF LockDiscipline, InMutation
  <2>8. QED
    BY <2>5, <2>7
<1>2. ASSUME NEW w \in Workers, Compete(w) PROVE RequestAt' /\ LockDiscipline'
  <2>1. op' = op /\ tgt' = tgt /\ lock' = lock /\ pc[w] = "dispatch" /\ pc'[w] = "reply"
        /\ \A v \in Workers \ {w} : pc'[v] = pc[v]
    BY <1>y, <1>2 DEF Compete, GoTo, At
  <2>2. PointOK("reply", op[w], tgt[w])
    BY <1>r, <2>1 DEF PointOK
  <2>3. RequestAt'
    BY <1>r, <2>1, <2>2 DEF RequestAt
  <2>4. LockDiscipline'
    BY <2>1 DEF LockDiscipline, InMutation
  <2>5. QED
    BY <2>3, <2>4
<1>3. ASSUME NEW w \in Workers, Enter(w) PROVE RequestAt' /\ LockDiscipline'
  <2>1. op' = op /\ tgt' = tgt /\ pc[w] = "dispatch"
        /\ \A v \in Workers \ {w} : pc'[v] = pc[v]
    BY <1>y, <1>3 DEF Enter, GoTo, At
  <2>2. op[w] \in Requests /\ (op[w] \in Targeted => tgt[w] \in Targets)
    BY <1>r, <2>1, HasRequest DEF PointOK
  <2>3. pc'[w] = Entry(op[w]) \/ (pc'[w] = "release" /\ op[w] \in Targeted)
    BY <1>y, <1>3 DEF Enter, GoTo
  <2>4. PointOK(Entry(op[w]), op[w], tgt[w]) /\ Entry(op[w]) \notin Ends
    BY <2>2 DEF PointOK, Entry, Requests, Mutations, Targeted, Ends
  <2>5. PointOK(pc'[w], op[w], tgt[w]) /\ pc'[w] \notin Ends
    BY <2>2, <2>3, <2>4 DEF PointOK, Targeted, Mutations, Ends
  <2>6. RequestAt'
    BY <1>r, <2>1, <2>5 DEF RequestAt
  <2>7. ~InMutation(w)
    BY <2>1 DEF InMutation
  <2>8. \A v \in Workers \ {w} : InMutation(v)' <=> InMutation(v)
    BY <2>1 DEF InMutation
  <2>9. CASE op[w] \in Mutations
    <3>1. lock = None /\ lock' = w
      BY <1>3, <2>9 DEF Enter, MayEnter
    <3>2. InMutation(w)'
      BY <2>1, <2>5, <2>9 DEF InMutation, Ends
    <3>3. QED
      BY <2>6, <2>7, <2>8, <3>1, <3>2, NoneIsNoWorker DEF LockDiscipline
  <2>10. CASE op[w] \notin Mutations
    <3>1. lock' = lock
      BY <1>3, <2>10 DEF Enter
    <3>2. ~InMutation(w)'
      BY <2>1, <2>10 DEF InMutation
    <3>3. QED
      BY <2>6, <2>7, <2>8, <3>1, <3>2 DEF LockDiscipline
  <2>11. QED
    BY <2>9, <2>10
<1>4. ASSUME NEW w \in Workers, Inner(w) PROVE RequestAt' /\ LockDiscipline'
  BY <1>4, InnerMoves, MovesKeep
<1>5. ASSUME NEW w \in Workers, Release(w) PROVE RequestAt' /\ LockDiscipline'
  <2>1. op' = op /\ tgt' = tgt /\ lock' = None /\ pc[w] = "release" /\ pc'[w] = "reply"
        /\ \A v \in Workers \ {w} : pc'[v] = pc[v]
    BY <1>y, <1>5 DEF Release, Continue, GoTo, At
  <2>2. PointOK("reply", op[w], tgt[w]) /\ InMutation(w)
    BY <1>r, <2>1 DEF PointOK, InMutation, Mutations
  <2>3. RequestAt'
    BY <1>r, <2>1, <2>2 DEF RequestAt
  <2>4. LockDiscipline'
    BY <2>1, <2>2, NoneIsNoWorker DEF LockDiscipline, InMutation
  <2>5. QED
    BY <2>3, <2>4
<1>6. ASSUME NEW w \in Workers, Respond(w) PROVE RequestAt' /\ LockDiscipline'
  <2>1. lock' = lock /\ pc[w] = "reply" /\ pc'[w] = "idle" /\ op'[w] = "NONE"
        /\ \A v \in Workers \ {w} : pc'[v] = pc[v] /\ op'[v] = op[v] /\ tgt'[v] = tgt[v]
    BY <1>y, <1>6 DEF Respond, GoTo, At
  <2>2. PointOK("idle", "NONE", tgt'[w])
    BY DEF PointOK, Targeted
  <2>3. RequestAt'
    BY <1>r, <2>1, <2>2 DEF RequestAt
  <2>4. LockDiscipline'
    BY <2>1 DEF LockDiscipline, InMutation
  <2>5. QED
    BY <2>3, <2>4
<1>7. ASSUME Forget PROVE RequestAt' /\ LockDiscipline'
  BY <1>7, NoneIsNoWorker
  DEF Forget, RequestAt, PointOK, Targeted, LockDiscipline, InMutation
<1>8. ASSUME UNCHANGED <<lock, pc, op, tgt>> PROVE RequestAt' /\ LockDiscipline'
  BY <1>8 DEF TypedRequests, RequestAt, LockDiscipline, InMutation
<1>9. RequestAt' /\ LockDiscipline'
  BY <1>1, <1>2, <1>3, <1>4, <1>5, <1>6, <1>7, <1>8
  DEF Next, Work, Inner, Crash, Reboot, ProviderMoves, vars, workerVars
<1>10. QED
  BY <1>t, <1>9 DEF TypedRequests

-----------------------------------------------------------------------------
(* Protection and grants *)

\* Only one worker is in the locked region.
LEMMA OneMutation ==
  ASSUME LockDiscipline, NEW v \in Workers, NEW w \in Workers,
         InMutation(v), InMutation(w)
  PROVE  v = w
BY DEF LockDiscipline

\* The kill switch changes only from the two commands that set it, and goes off
\* only in Direct.
LEMMA KillSwitchSteps ==
  ASSUME IInv, [Next]_vars
  PROVE  \/ killswitch' = killswitch
         \/ \E w \in Workers :
              /\ op[w] \in Transitions /\ InMutation(w) /\ pc[w] # "release"
              /\ \/ killswitch' = "on"
                 \/ killswitch' = "off" /\ op[w] = "DIRECT"
<1>r. \A v \in Workers : PointOK(pc[v], op[v], tgt[v])
  BY DEF IInv, TypedRequests, RequestAt
<1>1. ASSUME NEW w \in Workers, SetOn(w) \/ SetOff(w) \/ Restore(w)
      PROVE  /\ op[w] \in Transitions /\ InMutation(w) /\ pc[w] # "release"
             /\ \/ killswitch' \in {killswitch, "on"}
                \/ killswitch' = "off" /\ op[w] = "DIRECT"
  BY <1>r, <1>1
  DEF SetOn, SetOff, Restore, At, CommandKillSwitch, PointOK, InMutation,
      Transitions, Mutations
<1>2. ASSUME NEW w \in Workers, Accept(w) \/ Compete(w) \/ Enter(w) \/ VerifyOn(w)
             \/ VerifyOff(w) \/ Precheck(w) \/ Connect(w) \/ Disconnect(w)
             \/ Observe(w) \/ UpdateAlias(w) \/ ReadMode(w) \/ Replace(w)
             \/ Release(w) \/ Respond(w)
      PROVE  killswitch' = killswitch
  BY <1>2
  DEF Accept, Compete, Enter, VerifyOn, VerifyOff, Precheck, Connect, Disconnect,
      Observe, UpdateAlias, ReadMode, Replace, Release, Respond, CommandConnect,
      CommandDisconnect, providerVars
<1>3. ASSUME Crash \/ Reboot \/ ProviderMoves \/ UNCHANGED vars
      PROVE  killswitch' = killswitch
  BY <1>3 DEF Crash, Reboot, ProviderMoves, TunnelMoves, TunnelLost, vars, providerVars
<1>4. QED
  BY <1>1, <1>2, <1>3 DEF Next, Work

\* A worker comes under shelter only when it has seen the switch on.
LEMMA ShelterSteps ==
  ASSUME IInv, [Next]_vars, NEW w \in Workers, Sheltered(w)'
  PROVE  Sheltered(w) \/ (killswitch = "on" /\ killswitch' = "on")
<1>y. /\ pc \in [Workers -> Points] /\ op \in [Workers -> Requests \union {"NONE"}]
      /\ \A v \in Workers : PointOK(pc[v], op[v], tgt[v])
  BY DEF IInv, TypedRequests, TypeOK, RequestAt
<1>1. CASE Forget
  BY <1>1 DEF Forget, Sheltered
<1>2. CASE UNCHANGED <<pc, op>>
  BY <1>2 DEF Sheltered
<1>3. ASSUME NEW v \in Workers, Accept(v) \/ Compete(v) \/ Enter(v) \/ Release(v) \/ Respond(v)
      PROVE  Sheltered(w)
  <2>1. \A u \in Workers \ {v} : pc'[u] = pc[u] /\ op'[u] = op[u]
    BY <1>y, <1>3 DEF Accept, Compete, Enter, Release, Respond, Continue, GoTo
  <2>2. pc'[v] \in {"dispatch", "reply", "idle", "release", "set_on", "set_off"}
        \/ (pc'[v] = Entry(op[v]) /\ op' = op /\ pc[v] = "dispatch")
    BY <1>y, <1>3 DEF Accept, Compete, Enter, Release, Respond, Continue, GoTo, At
  <2>3. w # v
    <3>1. pc[v] = "dispatch" => op[v] \in Requests
      BY <1>y DEF PointOK
    <3>2. QED
      BY <1>y, <2>2, <3>1 DEF Sheltered, Entry, Requests, Mutations
  <2>4. QED
    BY <2>1, <2>3 DEF Sheltered
<1>4. ASSUME NEW v \in Workers, Inner(v), v # w PROVE Sheltered(w)
  <2>1. pc'[w] = pc[w] /\ op'[w] = op[w]
    BY <1>y, <1>4, InnerMoves DEF Moves, IInv
  <2>2. QED
    BY <2>1 DEF Sheltered
<1>5. ASSUME Inner(w), ~Sheltered(w) PROVE killswitch = "on" /\ killswitch' = "on"
  <2>1. op' = op /\ PointOK(pc[w], op[w], tgt[w])
    BY <1>y, <1>5, InnerMoves DEF Moves, IInv
  <2>2. op[w] \in {"PROTECTED", "LOCK", "DISCONNECT"}
    BY <2>1 DEF Sheltered
  <2>3. pc[w] \in {"set_on", "verify_on", "precheck", "restore", "release"}
    BY <1>5, <2>1, <2>2
    DEF Sheltered, PointOK, Targeted, Inner, SetOn, VerifyOn, SetOff, VerifyOff,
        Precheck, Connect, Disconnect, Observe, UpdateAlias, ReadMode, Restore,
        Replace, At
  <2>4. SetOn(w) \/ VerifyOn(w) \/ Precheck(w)
    BY <1>5, <2>1, <2>2, <2>3
    DEF Inner, PointOK, SetOn, VerifyOn, SetOff, VerifyOff, Precheck, Connect,
        Disconnect, Observe, UpdateAlias, ReadMode, Restore, Replace, At
  <2>5. \A out \in Outcomes : ~Fail(w, out)
    BY <1>y, <2>1, <2>2 DEF Fail, GoTo, AfterFailure, Leave, Sheltered, Mutations
  <2>6. \A c : ~Refuse(w, c)
    BY <1>y, <2>1, <2>2 DEF Refuse, GoTo, Leave, Sheltered, Mutations
  <2>7. ~SetOn(w)
    BY <1>y, <2>1, <2>2, <2>5 DEF SetOn, Continue, GoTo, Sheltered
  <2>8. CASE VerifyOn(w)
    BY <2>5, <2>8 DEF VerifyOn, Shown, Outcomes, providerVars
  <2>9. CASE Precheck(w)
    BY <2>5, <2>6, <2>9 DEF Precheck, Shown, Outcomes, SafeToDisconnect, providerVars
  <2>10. QED
    BY <2>4, <2>7, <2>8, <2>9
<1>6. QED
  BY <1>1, <1>2, <1>3, <1>4, <1>5
  DEF Next, Work, Inner, Crash, Reboot, ProviderMoves, vars, workerVars

LEMMA NextShelter ==
  ASSUME IInv, [Next]_vars PROVE ShelterHolds'
<1> SUFFICES ASSUME NEW w \in Workers, Sheltered(w)' PROVE killswitch' = "on"
  BY DEF ShelterHolds
<1>1. CASE killswitch = "on" /\ killswitch' = "on"
  BY <1>1
<1>2. CASE Sheltered(w)
  <2>1. killswitch = "on" /\ InMutation(w) /\ op[w] # "DIRECT"
    BY <1>2 DEF IInv, ShelterHolds, Sheltered, InMutation, Mutations
  <2>2. \A v \in Workers : InMutation(v) => op[v] # "DIRECT"
    BY <2>1, OneMutation DEF IInv
  <2>3. QED
    BY <2>1, <2>2, KillSwitchSteps
<1>3. QED
  BY <1>1, <1>2, ShelterSteps

\* What IInv says of the functions, in the form the step lemmas use.
LEMMA InvTypes ==
  ASSUME IInv
  PROVE  /\ pc \in [Workers -> Points] /\ op \in [Workers -> Requests \union {"NONE"}]
         /\ view \in [Workers -> View] /\ killswitch \in Toggle
         /\ \A v \in Workers : PointOK(pc[v], op[v], tgt[v])
BY DEF IInv, TypedRequests, TypeOK, ProviderTypeOK, RequestAt

\* The locked region is entered only by Enter, and a worker keeps its request
\* while it is inside.
LEMMA RegionSteps ==
  ASSUME IInv, [Next]_vars, NEW w \in Workers, InMutation(w)'
  PROVE  /\ op'[w] = op[w]
         /\ InMutation(w) \/ Enter(w)
         /\ pc[w] = "release" => pc'[w] = "release"
<1>y. /\ pc \in [Workers -> Points] /\ op \in [Workers -> Requests \union {"NONE"}]
      /\ \A v \in Workers : PointOK(pc[v], op[v], tgt[v])
  BY InvTypes
<1>1. CASE Forget
  BY <1>1 DEF Forget, InMutation
<1>2. CASE UNCHANGED <<pc, op>>
  BY <1>2 DEF InMutation
<1>3. ASSUME NEW v \in Workers, Accept(v) \/ Compete(v) \/ Release(v) \/ Respond(v)
      PROVE  v # w /\ op'[w] = op[w] /\ pc'[w] = pc[w]
  BY <1>y, <1>3 DEF Accept, Compete, Release, Respond, Continue, GoTo, InMutation
<1>4. ASSUME NEW v \in Workers, Enter(v)
      PROVE  op' = op /\ (v # w => pc'[w] = pc[w]) /\ pc[v] = "dispatch"
  BY <1>y, <1>4 DEF Enter, GoTo, At
<1>5. ASSUME NEW v \in Workers, Inner(v)
      PROVE  op' = op /\ (v # w => pc'[w] = pc[w]) /\ pc[v] \notin Ends /\ pc[v] # "release"
  <2>1. op' = op /\ (v # w => pc'[w] = pc[w]) /\ pc[v] \notin Ends
    BY <1>y, <1>5, InnerMoves DEF Moves, IInv
  <2>2. pc[v] # "release"
    BY <1>5 DEF Inner, SetOn, VerifyOn, SetOff, VerifyOff, Precheck, Connect, Disconnect,
                Observe, UpdateAlias, ReadMode, Restore, Replace, At
  <2>3. QED
    BY <2>1, <2>2
<1>6. QED
  BY <1>1, <1>2, <1>3, <1>4, <1>5
  DEF Next, Work, Inner, Crash, Reboot, ProviderMoves, vars, workerVars, InMutation, Ends

\* A transition that reports success has what it reports.
Achieved(o) ==
  /\ o \in {"PROTECTED", "LOCK", "DISCONNECT"} => killswitch = "on"
  /\ o = "DIRECT" => killswitch = "off"
  /\ o \in {"LOCK", "DIRECT"} => tunnel = "DISCONNECTED"

\* A step by which a transition of worker w succeeds.
Succeeds(w) ==
  /\ op[w] \in Transitions /\ InMutation(w) /\ Achieved(op[w])
  /\ confirmed' = op[w] /\ granted' = (granted /\ op[w] \notin {"PROTECTED", "LOCK"})
  /\ pc'[w] = "release" /\ op' = op /\ UNCHANGED <<killswitch, tunnel>>

\* The two history variables move together: on admission, on success, not else.
LEMMA HistorySteps ==
  ASSUME IInv, [Next]_vars
  PROVE  \/ UNCHANGED <<granted, confirmed>>
         \/ \E w \in Workers : Enter(w)
         \/ \E w \in Workers : Succeeds(w)
<1>y. /\ pc \in [Workers -> Points] /\ op \in [Workers -> Requests \union {"NONE"}]
      /\ \A v \in Workers : PointOK(pc[v], op[v], tgt[v])
  BY InvTypes
<1>1. ASSUME NEW w \in Workers,
             Accept(w) \/ Compete(w) \/ SetOn(w) \/ VerifyOn(w) \/ SetOff(w)
             \/ VerifyOff(w) \/ Precheck(w) \/ Connect(w) \/ Disconnect(w)
             \/ Restore(w) \/ Release(w) \/ Respond(w)
      PROVE  UNCHANGED <<granted, confirmed>>
  BY <1>1
  DEF Accept, Compete, SetOn, VerifyOn, SetOff, VerifyOff, Precheck, Connect,
      Disconnect, Restore, Release, Respond, Continue, Fail, Refuse, historyVars
<1>2. ASSUME Crash \/ Reboot \/ ProviderMoves \/ UNCHANGED vars
      PROVE  UNCHANGED <<granted, confirmed>>
  BY <1>2 DEF Crash, Reboot, Forget, ProviderMoves, historyVars, vars
<1>3. ASSUME NEW w \in Workers, NEW m, Succeed(w, m), op[w] \in Transitions,
             pc[w] \notin Ends, Achieved(op[w]), UNCHANGED providerVars
      PROVE  Succeeds(w)
  BY <1>y, <1>3
  DEF Succeed, Succeeds, GoTo, Leave, InMutation, Transitions, Mutations, Ends, providerVars
<1>4. ASSUME NEW w \in Workers, NEW m, Succeed(w, m), op[w] \notin Transitions
      PROVE  UNCHANGED <<granted, confirmed>>
  BY <1>4 DEF Succeed
<1>5. ASSUME NEW w \in Workers, Observe(w)
      PROVE  UNCHANGED <<granted, confirmed>>
  BY <1>4, <1>5 DEF Observe, Fail, historyVars, Transitions, Mutations
<1>6. ASSUME NEW w \in Workers, UpdateAlias(w)
      PROVE  UNCHANGED <<granted, confirmed>> \/ Succeeds(w)
  <2>1. CASE op[w] # "DISCONNECT"
    BY <1>6, <2>1 DEF UpdateAlias, Continue, historyVars
  <2>2. CASE op[w] = "DISCONNECT"
    <3>1. Achieved(op[w])
      BY <1>6, <2>2 DEF UpdateAlias, At, Achieved, IInv, ShelterHolds, Sheltered
    <3>2. QED
      BY <1>3, <1>6, <2>2, <3>1 DEF UpdateAlias, At, Ends, Transitions, Mutations
  <2>3. QED
    BY <2>1, <2>2
<1>7. ASSUME NEW w \in Workers, ReadMode(w)
      PROVE  UNCHANGED <<granted, confirmed>> \/ Succeeds(w)
  <2>1. pc[w] = "mode" /\ op[w] \notin {"NONE", "REPLACE", "DISCONNECT"}
    BY <1>y, <1>7 DEF ReadMode, At, PointOK
  <2>2. ASSUME NEW shown \in Shown(killswitch),
               Reached(op[w], GatewayMode(view[w].state, shown))
        PROVE  Achieved(op[w])
    <3>1. op[w] \in {"PROTECTED", "LOCK"} => killswitch = "on"
      BY <2>1 DEF IInv, ShelterHolds, Sheltered
    <3>2. op[w] \in {"LOCK", "DIRECT"} => view[w].state = "DISCONNECTED"
      BY <2>2 DEF Reached, GatewayMode
    <3>3. op[w] \in {"LOCK", "DIRECT"} => tunnel = "DISCONNECTED"
      BY <2>1, <3>2 DEF IInv, StaysDown
    <3>4. op[w] = "DIRECT" => shown = "off"
      BY <2>2 DEF Reached, GatewayMode
    <3>5. QED
      BY <2>1, <3>1, <3>3, <3>4 DEF Achieved, Shown
  <2>3. op[w] \in {"STATUS", "CONNECT"} => Achieved(op[w])
    BY DEF Achieved
  <2>4. CASE op[w] \in Transitions
    BY <1>3, <1>7, <2>1, <2>2, <2>3, <2>4
    DEF ReadMode, Fail, historyVars, Ends
  <2>5. CASE op[w] \notin Transitions
    BY <1>4, <1>7, <2>5 DEF ReadMode, Fail, historyVars
  <2>6. QED
    BY <2>4, <2>5
<1>8. ASSUME NEW w \in Workers, Replace(w)
      PROVE  UNCHANGED <<granted, confirmed>>
  <2>1. op[w] \notin Transitions
    BY <1>y, <1>8 DEF Replace, At, PointOK, Transitions
  <2>2. QED
    BY <1>4, <1>8, <2>1 DEF Replace, Fail, historyVars
<1>9. QED
  BY <1>1, <1>2, <1>5, <1>6, <1>7, <1>8 DEF Next, Work

\* Enter leaves the provider alone; a Direct request gets its grant there, and
\* any other transition ends the claim of the one before it.
LEMMA EnterSteps ==
  ASSUME IInv, NEW w \in Workers, Enter(w)
  PROVE  /\ UNCHANGED <<killswitch, tunnel, view>>
         /\ granted => granted'
         /\ op[w] = "DIRECT" => granted'
         /\ confirmed' = IF op[w] \in Transitions THEN "NONE" ELSE confirmed
         /\ op' = op /\ (\A v \in Workers \ {w} : pc'[v] = pc[v])
         /\ pc[w] = "dispatch"
<1>1. pc \in [Workers -> Points]
  BY InvTypes
<1>2. QED
  BY <1>1 DEF Enter, providerVars, GoTo, At

LEMMA NextGrant ==
  ASSUME IInv, [Next]_vars PROVE NoUngrantedExposure' /\ GrantHeld'
<1>h. NoUngrantedExposure /\ GrantHeld /\ LockDiscipline
  BY DEF IInv
<1>1. CASE UNCHANGED <<granted, confirmed>>
  <2>1. NoUngrantedExposure'
    BY <1>h, <1>1, KillSwitchSteps DEF NoUngrantedExposure, GrantHeld
  <2>2. GrantHeld'
    <3> SUFFICES ASSUME NEW w \in Workers, op'[w] = "DIRECT", InMutation(w)'
                 PROVE  granted'
      BY DEF GrantHeld
    <3>1. op[w] = "DIRECT" /\ (InMutation(w) \/ Enter(w))
      BY RegionSteps
    <3>2. QED
      BY <1>h, <1>1, <3>1, EnterSteps DEF GrantHeld
  <2>3. QED
    BY <2>1, <2>2
<1>2. ASSUME NEW v \in Workers, Enter(v) PROVE NoUngrantedExposure' /\ GrantHeld'
  <2>1. NoUngrantedExposure'
    BY <1>h, <1>2, EnterSteps DEF NoUngrantedExposure
  <2>2. GrantHeld'
    <3> SUFFICES ASSUME NEW w \in Workers, op'[w] = "DIRECT", InMutation(w)'
                 PROVE  granted'
      BY DEF GrantHeld
    <3>1. op[w] = "DIRECT" /\ (InMutation(w) \/ Enter(w))
      BY RegionSteps
    <3>2. QED
      BY <1>h, <1>2, <3>1, EnterSteps DEF GrantHeld
  <2>3. QED
    BY <2>1, <2>2
<1>3. ASSUME NEW v \in Workers, Succeeds(v) PROVE NoUngrantedExposure' /\ GrantHeld'
  <2>1. NoUngrantedExposure'
    BY <1>h, <1>3 DEF NoUngrantedExposure, Succeeds, Achieved
  <2>2. GrantHeld'
    <3> SUFFICES ASSUME NEW w \in Workers, op'[w] = "DIRECT", InMutation(w)'
                 PROVE  granted'
      BY DEF GrantHeld
    <3>1. op[w] = "DIRECT" /\ InMutation(w)
      <4>1. op[w] = "DIRECT" /\ (InMutation(w) \/ Enter(w))
        BY RegionSteps
      <4>2. InMutation(v) /\ InMutation(v)'
        BY <1>3 DEF Succeeds, InMutation
      <4>3. LockDiscipline'
        BY NextDiscipline DEF IInv
      <4>4. w = v
        BY <4>2, <4>3 DEF LockDiscipline
      <4>5. QED
        BY <4>1, <4>2, <4>4
    <3>2. v = w
      BY <1>h, <1>3, <3>1, OneMutation DEF Succeeds
    <3>3. QED
      BY <1>h, <1>3, <3>1, <3>2 DEF GrantHeld, Succeeds
  <2>3. QED
    BY <2>1, <2>2
<1>4. QED
  BY <1>1, <1>2, <1>3, HistorySteps

\* A disconnected tunnel comes up only by a connect command.
LEMMA TunnelSteps ==
  ASSUME IInv, [Next]_vars, tunnel = "DISCONNECTED"
  PROVE  \/ tunnel' = "DISCONNECTED"
         \/ \E w \in Workers : op[w] \in Targeted /\ InMutation(w) /\ pc[w] = "connect"
<1>y. \A v \in Workers : PointOK(pc[v], op[v], tgt[v])
  BY InvTypes
<1>1. ASSUME NEW w \in Workers, Connect(w)
      PROVE  op[w] \in Targeted /\ InMutation(w) /\ pc[w] = "connect"
  BY <1>y, <1>1 DEF Connect, At, PointOK, Targeted, InMutation, Mutations
<1>2. ASSUME NEW w \in Workers, Accept(w) \/ Compete(w) \/ Enter(w) \/ VerifyOn(w)
             \/ VerifyOff(w) \/ Precheck(w) \/ Disconnect(w) \/ SetOn(w) \/ SetOff(w)
             \/ Observe(w) \/ UpdateAlias(w) \/ ReadMode(w) \/ Replace(w)
             \/ Release(w) \/ Respond(w) \/ Restore(w)
      PROVE  tunnel' = "DISCONNECTED"
  BY <1>2
  DEF Accept, Compete, Enter, VerifyOn, VerifyOff, Precheck, Disconnect, SetOn,
      SetOff, Observe, UpdateAlias, ReadMode, Replace, Release, Respond, Restore,
      CommandDisconnect, CommandKillSwitch, DownTo, providerVars
<1>3. ASSUME Crash \/ Reboot \/ ProviderMoves \/ UNCHANGED vars
      PROVE  tunnel' = "DISCONNECTED"
  BY <1>3 DEF Crash, Reboot, ProviderMoves, TunnelMoves, TunnelLost, DownTo, vars, providerVars
<1>4. QED
  BY <1>1, <1>2, <1>3 DEF Next, Work

LEMMA NextStaysDown ==
  ASSUME IInv, [Next]_vars PROVE StaysDown'
<1> SUFFICES ASSUME NEW w \in Workers, op'[w] \in {"LOCK", "DIRECT"},
                    pc'[w] \in {"alias", "mode"}, view'[w].state = "DISCONNECTED"
             PROVE  tunnel' = "DISCONNECTED"
  BY DEF StaysDown
<1>y. /\ pc \in [Workers -> Points] /\ op \in [Workers -> Requests \union {"NONE"}]
      /\ view \in [Workers -> View]
      /\ \A v \in Workers : PointOK(pc[v], op[v], tgt[v])
  BY InvTypes
<1>r. InMutation(w)' /\ op'[w] = op[w] /\ (InMutation(w) \/ Enter(w))
  <2>1. InMutation(w)'
    BY DEF InMutation, Mutations
  <2>2. QED
    BY <2>1, RegionSteps
<1>1. ~Enter(w)
  BY <1>y, <1>r DEF Enter, GoTo, Entry
<1>2. \A v \in Workers : op[v] \in Targeted => ~InMutation(v)
  BY <1>r, <1>1, OneMutation DEF IInv, Targeted
<1>3. CASE tunnel = "DISCONNECTED"
  BY <1>2, <1>3, TunnelSteps
<1>5. CASE Observe(w)
  <2>1. view'[w].state = view[w].state \/ view'[w].state = tunnel
    BY <1>y, <1>5 DEF Observe, Fail, Succeed, View
  <2>2. CASE view' = [view EXCEPT ![w].state = tunnel]
    BY <1>y, <1>5, <2>2 DEF Observe, View, providerVars
  <2>3. CASE \E out \in Outcomes : Fail(w, out) \/ Succeed(w, "none")
    BY <1>y, <1>r, <2>3 DEF Fail, Succeed, GoTo, AfterFailure, Leave, Mutations
  <2>4. QED
    BY <1>5, <2>2, <2>3 DEF Observe
<1>6. (view'[w] = view[w] /\ pc[w] \in {"alias", "mode"}) \/ Observe(w)
  <2>1. CASE Forget
    BY <2>1 DEF Forget
  <2>2. CASE UNCHANGED <<pc, view>>
    BY <2>2
  <2>3. ASSUME NEW v \in Workers, v # w, Work(v) \/ Accept(v)
        PROVE  pc'[w] = pc[w] /\ view'[w] = view[w]
    <3>1. pc'[w] = pc[w]
      <4>1. CASE Inner(v)
        BY <1>y, <2>3, <4>1, InnerMoves DEF Moves, IInv
      <4>2. CASE Accept(v) \/ Compete(v) \/ Enter(v) \/ Release(v) \/ Respond(v)
        BY <1>y, <2>3, <4>2 DEF Accept, Compete, Enter, Release, Respond, Continue, GoTo
      <4>3. QED
        BY <2>3, <4>1, <4>2 DEF Work, Inner
    <3>2. view'[w] = view[w]
      BY <1>y, <2>3
      DEF Work, Accept, Compete, Enter, SetOn, VerifyOn, SetOff, VerifyOff, Precheck,
          Connect, Disconnect, Observe, UpdateAlias, ReadMode, Restore, Replace,
          Release, Respond, Continue, Fail, Refuse, Succeed
    <3>3. QED
      BY <3>1, <3>2
  <2>4. ASSUME Work(w), ~Observe(w) PROVE pc[w] = "alias" /\ view' = view
    <3>1. \A out \in Outcomes : ~Fail(w, out)
      BY <1>y, <1>r DEF Fail, GoTo, AfterFailure, Leave, Mutations
    <3>2. \A c : ~Refuse(w, c)
      BY <1>y, <1>r DEF Refuse, GoTo, Leave, Mutations
    <3>3. \A m : ~Succeed(w, m)
      BY <1>y, <1>r DEF Succeed, GoTo, Leave, Mutations
    <3>4. \A p : Continue(w, p) => p \in {"alias", "mode"} /\ view' = view
      BY <1>y DEF Continue, GoTo
    <3>5. ~(Compete(w) \/ SetOn(w) \/ VerifyOn(w) \/ SetOff(w) \/ VerifyOff(w)
            \/ Connect(w) \/ Disconnect(w) \/ ReadMode(w) \/ Replace(w) \/ Release(w))
      BY <1>y, <3>1, <3>2, <3>3, <3>4
      DEF Compete, SetOn, VerifyOn, SetOff, VerifyOff, Connect, Disconnect, ReadMode,
          Replace, Release, GoTo, Outcomes
    <3>6. ~(Precheck(w) \/ Restore(w) \/ Respond(w))
      BY <1>y, <3>1, <3>2 DEF Precheck, Restore, Respond, GoTo, Outcomes
    <3>7. QED
      BY <1>1, <2>4, <3>3, <3>4, <3>5, <3>6 DEF Work, UpdateAlias, At
  <2>5. ~Accept(w)
    BY <1>y DEF Accept, GoTo
  <2>6. QED
    BY <2>1, <2>2, <2>3, <2>4, <2>5
    DEF Next, Crash, Reboot, ProviderMoves, vars, workerVars
<1>7. CASE tunnel # "DISCONNECTED" /\ view'[w] = view[w] /\ pc[w] \in {"alias", "mode"}
  BY <1>r, <1>7 DEF IInv, StaysDown
<1>8. QED
  BY <1>3, <1>5, <1>6, <1>7

\* While a transition is at work nothing is confirmed, so what it does to the
\* provider breaks no claim; when it succeeds its own claim holds.
LEMMA NextConfirmed ==
  ASSUME IInv, [Next]_vars PROVE NoneSince' /\ ConfirmedModeHolds'
<1>i. NoneSince /\ ConfirmedModeHolds /\ LockDiscipline' /\ LockDiscipline
  BY NextDiscipline DEF IInv
<1>1. ASSUME NEW w \in Workers, Succeeds(w) PROVE NoneSince' /\ ConfirmedModeHolds'
  <2>1. ConfirmedModeHolds'
    BY <1>1 DEF Succeeds, Achieved, ConfirmedModeHolds
  <2>2. InMutation(w)'
    BY <1>1 DEF Succeeds, InMutation
  <2>3. NoneSince'
    BY <1>i, <1>1, <2>2 DEF NoneSince, Succeeds, LockDiscipline
  <2>4. QED
    BY <2>1, <2>3
<1>2. ASSUME ~\E w \in Workers : Succeeds(w), confirmed' # "NONE"
      PROVE  /\ confirmed' = confirmed
             /\ \A w \in Workers : Enter(w) => op[w] \notin Transitions
  <2>1. ASSUME NEW w \in Workers, Enter(w)
        PROVE  confirmed' = confirmed /\ op[w] \notin Transitions
    BY <1>2, <2>1, EnterSteps
  <2>2. QED
    BY <1>2, <2>1, HistorySteps
<1>3. ASSUME ~\E w \in Workers : Succeeds(w), confirmed' # "NONE"
      PROVE  NoneSince'
  <2> SUFFICES ASSUME NEW w \in Workers, InMutation(w)', op'[w] \in Transitions
               PROVE  pc'[w] = "release"
    BY DEF NoneSince
  <2>1. op[w] \in Transitions /\ InMutation(w)
    BY <1>2, <1>3, RegionSteps
  <2>2. pc[w] = "release"
    BY <1>i, <1>2, <1>3, <2>1 DEF NoneSince
  <2>3. QED
    BY <2>2, RegionSteps
<1>4. ASSUME ~\E w \in Workers : Succeeds(w), confirmed' # "NONE"
      PROVE  ConfirmedModeHolds'
  <2>1. confirmed' = confirmed
    BY <1>2, <1>4
  <2>2. \A w \in Workers : InMutation(w) /\ op[w] \in Transitions => pc[w] = "release"
    BY <1>i, <1>4, <2>1 DEF NoneSince
  <2>3. killswitch' = killswitch
    BY <2>2, KillSwitchSteps
  <2>4. tunnel = "DISCONNECTED" => tunnel' = "DISCONNECTED"
    BY <2>2, TunnelSteps DEF Targeted, Transitions, Mutations
  <2>5. QED
    BY <1>i, <2>1, <2>3, <2>4 DEF ConfirmedModeHolds
<1>5. confirmed' = "NONE" => NoneSince' /\ ConfirmedModeHolds'
  BY DEF NoneSince, ConfirmedModeHolds
<1>6. QED
  BY <1>1, <1>3, <1>4, <1>5

LEMMA NextInv == IInv /\ [Next]_vars => IInv'
<1> SUFFICES ASSUME IInv, [Next]_vars PROVE IInv'
  OBVIOUS
<1>1. TypedRequests' /\ LockDiscipline'
  BY NextDiscipline DEF IInv
<1>2. QED
  BY <1>1, NextShelter, NextGrant, NextConfirmed, NextStaysDown DEF IInv

LEMMA InvHolds == Spec => []IInv
<1>1. QED
  BY InitInv, NextInv, PTL DEF Spec

-----------------------------------------------------------------------------
(* Theorems *)

\* The variables keep their types in every state (all of daemon.py's handlers).
THEOREM TypeCorrect == Spec => []TypeOK
<1>1. IInv => TypeOK
  BY DEF IInv, TypedRequests
<1>2. QED
  BY <1>1, InvHolds, PTL

\* The non-blocking operation lock of dispatch admits one mutation at a time,
\* and is given back by every way a mutation can end.
THEOREM MutualExclusion == Spec => []LockDiscipline
<1>1. IInv => LockDiscipline
  BY DEF IInv
<1>2. QED
  BY <1>1, InvHolds, PTL

\* Whatever fails, races, crashes or reboots, leak protection is off only under
\* a Direct request that no Protected or Lock success has replaced.
THEOREM NoAutomaticDirect == Spec => []NoUngrantedExposure
<1>1. IInv => NoUngrantedExposure
  BY DEF IInv
<1>2. QED
  BY <1>1, InvHolds, PTL

\* A mode the daemon has reported as reached stays in force until the next
\* transition is admitted.
THEOREM ConfirmedModesHold == Spec => []ConfirmedModeHolds
<1>1. IInv => ConfirmedModeHolds
  BY DEF IInv
<1>2. QED
  BY <1>1, InvHolds, PTL

\* Protected, Lock and Disconnect send the command that gives up the tunnel
\* only while the kill switch is on.
THEOREM TunnelReleases == Spec => []TunnelReleasedProtected
<1>1. IInv => TunnelReleasedProtected
  BY DEF IInv, ShelterHolds, Sheltered, TunnelReleasedProtected
<1>2. QED
  BY <1>1, InvHolds, PTL

\* A step of the daemon, its provider or its host is a step of the exposure
\* policy or leaves its two variables alone.
LEMMA StepImplements == IInv /\ [Next]_vars => [Policy!Next]_<<granted, killswitch>>
<1> SUFFICES ASSUME IInv, [Next]_vars PROVE [Policy!Next]_<<granted, killswitch>>
  OBVIOUS
<1> USE DEF Policy!Next, Policy!RequestDirect, Policy!SwitchOff, Policy!SwitchOn, Policy!Revoke
<1>t. granted \in BOOLEAN /\ granted' \in BOOLEAN /\ killswitch \in Toggle
  BY NextDiscipline DEF IInv, TypedRequests, TypeOK, ProviderTypeOK
<1>1. CASE UNCHANGED <<granted, confirmed>>
  <2>1. ASSUME NEW w \in Workers, op[w] = "DIRECT", InMutation(w) PROVE granted
    BY <2>1 DEF IInv, GrantHeld
  <2>2. QED
    BY <1>1, <2>1, KillSwitchSteps
<1>2. ASSUME NEW w \in Workers, Enter(w) PROVE [Policy!Next]_<<granted, killswitch>>
  <2>1. UNCHANGED killswitch /\ (granted' = granted \/ granted' = TRUE)
    BY <1>t, <1>2, EnterSteps
  <2>2. QED
    BY <2>1
<1>3. ASSUME NEW w \in Workers, Succeeds(w) PROVE [Policy!Next]_<<granted, killswitch>>
  <2>1. UNCHANGED killswitch /\ (granted' = granted \/ (granted' = FALSE /\ killswitch = "on"))
    BY <1>t, <1>3 DEF Succeeds, Achieved
  <2>2. QED
    BY <2>1
<1>4. QED
  BY <1>1, <1>2, <1>3, HistorySteps

\* The control daemon implements the exposure policy.
THEOREM Implementation == Spec => ImplementsPolicy
<1>1. Init => Policy!Init
  BY DEF Init, ProviderInit, Toggle, Policy!Init
<1>2. QED
  BY <1>1, StepImplements, InvHolds, PTL
  DEF Spec, ImplementsPolicy, Policy!Spec, Policy!policyVars

-----------------------------------------------------------------------------
(* Answers.  What a worker says rests on what it has read itself, and no      *)
(* other worker touches that.                                                 *)

AnswerHolds(v) ==
  /\ pc[v] \in {"alias", "mode"} /\ (view[v].state = "CONNECTED" \/ op[v] = "DISCONNECT") => calm[v]
  /\ pc[v] \in {"release", "reply"} /\ reply[v].mode \in {"VPN", "LOCKED"} => calm[v]
  /\ pc[v] = "restore" => reply[v].mode = "none"
  /\ pc[v] = "release" /\ op[v] = "DIRECT" /\ reply[v].code = "PROVIDER_ERROR"
       => restored[v] # "no" /\ (restored[v] = "done" => killswitch = "on")

AnswersHold == \A v \in Workers : AnswerHolds(v)

LEMMA AnswerTypes ==
  ASSUME IInv
  PROVE  /\ pc \in [Workers -> Points] /\ op \in [Workers -> Requests \union {"NONE"}]
         /\ tgt \in [Workers -> Targets \union {None}]
         /\ view \in [Workers -> View] /\ reply \in [Workers -> Reply]
         /\ calm \in [Workers -> BOOLEAN] /\ restored \in [Workers -> {"no", "tried", "done"}]
         /\ \A v \in Workers : PointOK(pc[v], op[v], tgt[v])
BY DEF IInv, TypedRequests, TypeOK, RequestAt

\* The ends of a request.
LEMMA FailAnswers ==
  ASSUME IInv, NEW v \in Workers, pc[v] \notin Ends, NEW out \in Outcomes, out # "ok", Fail(v, out)
  PROVE  AnswerHolds(v)'
<1>1. /\ pc'[v] = AfterFailure(op[v], out) /\ op'[v] = op[v]
      /\ reply'[v] = [code |-> CodeOf(out), mode |-> "none"]
  BY AnswerTypes DEF Fail, GoTo, Answer
<1>2. op[v] \in Requests
  BY HasRequest DEF IInv, Ends
<1>3. AfterFailure(op[v], out) \in {"restore", "release", "reply"}
  BY DEF AfterFailure, Leave
<1>4. AfterFailure(op[v], out) = "release" /\ op[v] = "DIRECT" => out # "provider_error"
  BY DEF AfterFailure
<1>5. CodeOf(out) = "PROVIDER_ERROR" => out = "provider_error"
  BY DEF CodeOf
<1>. QED BY <1>1, <1>3, <1>4, <1>5 DEF AnswerHolds

LEMMA SucceedAnswers ==
  ASSUME IInv, NEW v \in Workers, NEW m, Succeed(v, m), m \in {"VPN", "LOCKED"} => calm'[v]
  PROVE  AnswerHolds(v)'
<1>1. /\ pc'[v] = Leave(op[v]) /\ reply'[v] = [code |-> "OK", mode |-> m]
  BY AnswerTypes DEF Succeed, GoTo, Answer
<1>2. Leave(op[v]) \in {"release", "reply"}
  BY DEF Leave
<1>. QED BY <1>1, <1>2 DEF AnswerHolds

\* The steps of the worker itself.
LEMMA OwnAnswer ==
  ASSUME IInv, NEW v \in Workers, AnswerHolds(v), Accept(v) \/ Work(v)
  PROVE  AnswerHolds(v)'
<1>y. /\ pc \in [Workers -> Points] /\ op \in [Workers -> Requests \union {"NONE"}]
      /\ view \in [Workers -> View] /\ reply \in [Workers -> Reply]
      /\ calm \in [Workers -> BOOLEAN] /\ restored \in [Workers -> {"no", "tried", "done"}]
      /\ PointOK(pc[v], op[v], tgt[v])
  BY AnswerTypes
<1>f. ASSUME NEW out \in Outcomes, out # "ok", Fail(v, out), pc[v] \notin Ends PROVE AnswerHolds(v)'
  BY <1>f, FailAnswers
<1>c. ASSUME NEW p, Continue(v, p), p \notin {"alias", "mode", "release", "reply", "restore"}
      PROVE  AnswerHolds(v)'
  BY <1>y, <1>c DEF Continue, GoTo, AnswerHolds
<1>1. CASE Accept(v) \/ Respond(v)
  <2>1. pc'[v] \in {"dispatch", "idle"}
    BY <1>y, <1>1 DEF Accept, Respond, GoTo
  <2>. QED BY <2>1 DEF AnswerHolds
<1>2. CASE Compete(v)
  <2>1. pc'[v] = "reply" /\ reply'[v].mode = "none"
    BY <1>y, <1>2 DEF Compete, GoTo, Answer
  <2>. QED BY <2>1 DEF AnswerHolds
<1>3. CASE Enter(v)
  <2>1. op[v] \in Requests
    BY <1>3, HasRequest DEF Enter, At, IInv
  <2>2. Entry(op[v]) \in {"set_on", "set_off", "connect", "precheck", "replace", "observe"}
    BY <2>1 DEF Entry, Requests, Mutations
  <2>3. \/ pc'[v] = Entry(op[v])
        \/ pc'[v] = "release" /\ reply'[v] = [code |-> "UNKNOWN_TARGET", mode |-> "none"]
    BY <1>y, <1>3 DEF Enter, GoTo, Answer
  <2>. QED BY <2>2, <2>3 DEF AnswerHolds
<1>4. CASE SetOn(v) \/ SetOff(v) \/ Connect(v) \/ Disconnect(v)
  BY <1>4, <1>f, <1>c DEF SetOn, SetOff, Connect, Disconnect, At, Ends
<1>5. CASE VerifyOn(v) \/ VerifyOff(v)
  BY <1>5, <1>f, <1>c DEF VerifyOn, VerifyOff, At, Ends, Outcomes
<1>6. CASE Precheck(v)
  <2>1. CASE Refuse(v, "UNSAFE_DISCONNECT")
    <3>1. /\ pc'[v] = Leave(op[v]) /\ op'[v] = op[v]
          /\ reply'[v] = [code |-> "UNSAFE_DISCONNECT", mode |-> "none"]
      BY <1>y, <2>1 DEF Refuse, GoTo, Answer
    <3>2. Leave(op[v]) \in {"release", "reply"}
      BY DEF Leave
    <3>. QED BY <3>1, <3>2 DEF AnswerHolds
  <2>2. CASE GoTo(v, "disconnect")
    BY <1>y, <2>2 DEF GoTo, AnswerHolds
  <2>. QED BY <1>6, <1>f, <2>1, <2>2 DEF Precheck, At, Ends
<1>7. CASE Observe(v)
  <2>1. ASSUME view' = [view EXCEPT ![v].state = tunnel],
               calm' = [calm EXCEPT ![v] = @ \/ ~Exposed], GoTo(v, "alias"), UNCHANGED op
        PROVE  AnswerHolds(v)'
    <3>1. pc'[v] = "alias" /\ op'[v] = op[v] /\ view'[v].state = tunnel
          /\ calm'[v] = (calm[v] \/ ~Exposed)
      BY <1>y, <2>1 DEF GoTo, View
    <3>2. tunnel = "CONNECTED" => ~Exposed
      BY DEF Exposed
    <3>3. op[v] = "DISCONNECT" => ~Exposed
      BY <1>7 DEF Observe, At, Exposed, IInv, ShelterHolds, Sheltered
    <3>. QED BY <3>1, <3>2, <3>3 DEF AnswerHolds
  <2>2. CASE Succeed(v, "none")
    BY <2>2, SucceedAnswers
  <2>. QED BY <1>7, <1>f, <2>1, <2>2 DEF Observe, At, Ends
<1>8. CASE UpdateAlias(v)
  <2>1. CASE op[v] = "DISCONNECT"
    <3>1. calm[v] /\ calm' = calm
      BY <1>8, <2>1 DEF UpdateAlias, At, AnswerHolds
    <3>. QED BY <1>8, <2>1, <3>1, SucceedAnswers DEF UpdateAlias
  <2>2. CASE op[v] # "DISCONNECT"
    <3>1. /\ pc[v] = "alias" /\ pc'[v] = "mode" /\ op'[v] = op[v] /\ view'[v] = view[v]
          /\ calm'[v] = calm[v]
      BY <1>8, <1>y, <2>2 DEF UpdateAlias, At, Continue, GoTo, historyVars
    <3>. QED BY <2>2, <3>1 DEF AnswerHolds
  <2>. QED BY <2>1, <2>2
<1>9. CASE ReadMode(v)
  <2>0. pc[v] = "mode" /\ (view[v].state = "CONNECTED" => calm[v])
    BY <1>9 DEF ReadMode, At, AnswerHolds
  <2>1. ASSUME NEW shown \in Shown(killswitch), Succeed(v, GatewayMode(view[v].state, shown)),
               calm' = [calm EXCEPT ![v] = @ \/ ~Exposed]
        PROVE  AnswerHolds(v)'
    <3>1. calm'[v] = (calm[v] \/ ~Exposed)
      BY <1>y, <2>1
    <3>2. GatewayMode(view[v].state, shown) = "VPN" => view[v].state = "CONNECTED"
      BY DEF GatewayMode
    <3>3. GatewayMode(view[v].state, shown) = "LOCKED" => ~Exposed
      BY <2>1 DEF GatewayMode, Shown, Exposed
    <3>. QED BY <2>0, <2>1, <3>1, <3>2, <3>3, SucceedAnswers
  <2>2. ASSUME Succeed(v, GatewayMode(view[v].state, "unknown")), UNCHANGED calm
        PROVE  AnswerHolds(v)'
    <3>1. GatewayMode(view[v].state, "unknown") \in {"VPN", "LOCKED"} => view[v].state = "CONNECTED"
      BY DEF GatewayMode
    <3>. QED BY <2>0, <2>2, <3>1, SucceedAnswers
  <2>3. "provider_error" \in Outcomes
    BY DEF Outcomes
  <2>. QED BY <1>9, <1>f, <2>0, <2>1, <2>2, <2>3 DEF ReadMode, Ends
<1>10. CASE Restore(v)
  <2>1. /\ pc'[v] = "release" /\ op'[v] = op[v] /\ killswitch' \in {killswitch, "on"}
        /\ restored'[v] = IF killswitch' = "on" THEN "done" ELSE "tried"
    BY <1>10, <1>y DEF Restore, GoTo, CommandKillSwitch
  <2>2. reply'[v].mode = "none"
    BY <1>10, <1>y DEF Restore, At, Answer, AnswerHolds
  <2>. QED BY <2>1, <2>2 DEF AnswerHolds
<1>11. CASE Replace(v)
  <2>1. CASE Succeed(v, "none")
    BY <2>1, SucceedAnswers
  <2>. QED BY <1>11, <1>f, <2>1 DEF Replace, At, Ends, Outcomes
<1>12. CASE Release(v)
  <2>1. /\ pc[v] = "release" /\ pc'[v] = "reply" /\ reply'[v] = reply[v] /\ calm'[v] = calm[v]
    BY <1>12, <1>y DEF Release, At, Continue, GoTo, historyVars
  <2>. QED BY <2>1 DEF AnswerHolds
<1>. QED
  BY <1>1, <1>2, <1>3, <1>4, <1>5, <1>6, <1>7, <1>8, <1>9, <1>10, <1>11, <1>12 DEF Work

\* A step of somebody else leaves the worker's variables alone.
Apart(v) ==
  /\ pc'[v] = pc[v] /\ op'[v] = op[v] /\ view'[v] = view[v] /\ reply'[v] = reply[v]
  /\ calm'[v] = calm[v] /\ restored'[v] = restored[v]

LEMMA OthersApart ==
  ASSUME IInv, NEW v \in Workers, NEW w \in Workers, v # w, Accept(w) \/ Work(w)
  PROVE  Apart(v)
<1>y. /\ pc \in [Workers -> Points] /\ op \in [Workers -> Requests \union {"NONE"}]
      /\ view \in [Workers -> View] /\ reply \in [Workers -> Reply]
      /\ calm \in [Workers -> BOOLEAN] /\ restored \in [Workers -> {"no", "tried", "done"}]
  BY AnswerTypes
<1>. USE DEF Apart, GoTo, Answer, historyVars
<1>e. /\ \A out : Fail(w, out) => Apart(v)
      /\ \A c : Refuse(w, c) => Apart(v)
      /\ \A m : Succeed(w, m) /\ calm'[v] = calm[v] => Apart(v)
      /\ \A p : Continue(w, p) => Apart(v)
  BY <1>y DEF Fail, Refuse, Succeed, Continue
<1>1. CASE Accept(w) \/ Compete(w) \/ Enter(w) \/ Respond(w) \/ Release(w)
  BY <1>y, <1>1, <1>e DEF Accept, Compete, Enter, Respond, Release
<1>2. CASE SetOn(w) \/ SetOff(w) \/ Connect(w) \/ Disconnect(w)
  BY <1>2, <1>e DEF SetOn, SetOff, Connect, Disconnect
<1>3. CASE VerifyOn(w) \/ VerifyOff(w)
  BY <1>3, <1>e DEF VerifyOn, VerifyOff
<1>4. CASE Precheck(w)
  BY <1>y, <1>4, <1>e DEF Precheck
<1>5. CASE Observe(w)
  BY <1>y, <1>5, <1>e DEF Observe
<1>6. CASE UpdateAlias(w)
  BY <1>6, <1>e DEF UpdateAlias
<1>7. CASE ReadMode(w)
  BY <1>y, <1>7, <1>e DEF ReadMode
<1>8. CASE Restore(w)
  BY <1>y, <1>8 DEF Restore
<1>9. CASE Replace(w)
  BY <1>9, <1>e DEF Replace
<1>. QED
  BY <1>1, <1>2, <1>3, <1>4, <1>5, <1>6, <1>7, <1>8, <1>9 DEF Work

LEMMA NextAnswers ==
  ASSUME IInv, AnswersHold, [Next]_vars PROVE AnswersHold'
<1>. SUFFICES ASSUME NEW v \in Workers PROVE AnswerHolds(v)'
  BY DEF AnswersHold
<1>0. AnswerHolds(v)
  BY DEF AnswersHold
<1>1. CASE Accept(v) \/ Work(v)
  BY <1>0, <1>1, OwnAnswer
<1>2. CASE Forget
  BY <1>2 DEF Forget, AnswerHolds
<1>3. CASE Apart(v)
  <2>1. pc[v] = "release" /\ op[v] = "DIRECT" => killswitch' = killswitch
    <3>. SUFFICES ASSUME pc[v] = "release", op[v] = "DIRECT" PROVE killswitch' = killswitch
      OBVIOUS
    <3>1. InMutation(v)
      BY DEF InMutation, Mutations
    <3>2. \A w \in Workers : InMutation(w) => pc[w] = "release"
      BY <3>1, OneMutation DEF IInv
    <3>. QED BY <3>2, KillSwitchSteps
  <2>. QED BY <1>0, <1>3, <2>1 DEF Apart, AnswerHolds
<1>4. CASE ProviderMoves \/ UNCHANGED vars
  BY <1>3, <1>4 DEF ProviderMoves, vars, workerVars, historyVars, Apart
<1>. QED BY <1>1, <1>2, <1>3, <1>4, OthersApart DEF Next, Crash, Reboot

LEMMA AnswersAlwaysHold == Spec => [](IInv /\ AnswersHold)
<1>1. Init => AnswersHold
  BY DEF Init, AnswersHold, AnswerHolds
<1>. QED BY <1>1, InitInv, NextInv, NextAnswers, PTL DEF Spec

\* An answer that says VPN or LOCKED was true of one of the moments its parts
\* were read, whatever ran between them.
THEOREM NoComfortIsFalse == Spec => []NoFalseComfort
<1>1. AnswersHold => NoFalseComfort
  BY DEF AnswersHold, AnswerHolds, NoFalseComfort
<1>. QED BY <1>1, AnswersAlwaysHold, PTL

\* A Direct request that reports a provider error has tried to restore leak
\* protection, and where that worked nobody has turned it off again.
THEOREM DirectErrorsRestore == Spec => []DirectErrorRestores
<1>1. AnswersHold => DirectErrorRestores
  BY DEF AnswersHold, AnswerHolds, DirectErrorRestores
<1>. QED BY <1>1, AnswersAlwaysHold, PTL

-----------------------------------------------------------------------------
(* The label.  A request for a target has it as the exit of a live tunnel     *)
(* from the moment its command worked; STATUS can only remove the label.      *)

Live == tunnel \in {"CONNECTED", "CONNECTING"}

Labelled(v) ==
  /\ op[v] \in Targeted /\ pc[v] \in {"observe", "alias", "mode"} /\ Live => exit = tgt[v]
  /\ op[v] \in Targeted /\ pc[v] = "mode" => alias \in {None, tgt[v]}
  /\ op[v] \in {"LOCK", "DIRECT"} /\ pc[v] = "mode" => alias = None

LabelsHold == LabelNamesExit /\ \A v \in Workers : Labelled(v)

\* A tunnel that lives after a step of its own had its exit before.
LEMMA ExitStays ==
  ASSUME TunnelMoves \/ TunnelLost \/ UNCHANGED providerVars, Live'
  PROVE  Live /\ exit' = exit
BY DEF TunnelMoves, TunnelLost, DownTo, providerVars, Live

\* Only the connect and disconnect commands move a live tunnel to another exit.
LEMMA ExitSteps ==
  ASSUME IInv, NEW w \in Workers, Accept(w) \/ Work(w), ~Connect(w), ~Disconnect(w)
  PROVE  tunnel' = tunnel /\ exit' = exit
BY DEF Work, Accept, Compete, Enter, SetOn, VerifyOn, SetOff, VerifyOff, Precheck, Observe,
       UpdateAlias, ReadMode, Restore, Replace, Release, Respond, CommandKillSwitch, providerVars

LEMMA AliasSteps ==
  ASSUME IInv, NEW w \in Workers, Accept(w) \/ Work(w), ~UpdateAlias(w)
  PROVE  alias' = alias
BY DEF Work, Accept, Compete, Enter, SetOn, VerifyOn, SetOff, VerifyOff, Precheck, Observe,
       Connect, Disconnect, ReadMode, Restore, Replace, Release, Respond

LEMMA OthersTarget ==
  ASSUME IInv, NEW v \in Workers, NEW w \in Workers, v # w, Accept(w) \/ Work(w)
  PROVE  tgt'[v] = tgt[v]
<1>y. tgt \in [Workers -> Targets \union {None}]
  BY AnswerTypes
<1>. QED
  BY <1>y DEF Work, Accept, Compete, Enter, SetOn, VerifyOn, SetOff, VerifyOff, Precheck, Observe,
       UpdateAlias, Connect, Disconnect, ReadMode, Restore, Replace, Release, Respond,
       Fail, Refuse, Succeed, Continue

\* Outside the lock only STATUS comes to the alias, and it may only drop it.
LEMMA StatusDropsLabel ==
  ASSUME IInv, NEW w \in Workers, UpdateAlias(w), ~InMutation(w)
  PROVE  alias' \in {alias, None} /\ confirmed' = confirmed
<1>1. pc[w] = "alias" /\ op[w] = "STATUS"
  <2>1. pc[w] = "alias" /\ PointOK(pc[w], op[w], tgt[w])
    BY AnswerTypes DEF UpdateAlias, At
  <2>2. op[w] \in Requests
    BY <2>1, HasRequest DEF IInv
  <2>. QED BY <2>1, <2>2 DEF InMutation, Requests
<1>. QED BY <1>1 DEF UpdateAlias, AliasAfter, Targeted, Continue, historyVars

LEMMA OwnLabel ==
  ASSUME IInv, NEW v \in Workers, Labelled(v), Accept(v) \/ Work(v)
  PROVE  Labelled(v)'
<1>y. /\ pc \in [Workers -> Points] /\ op \in [Workers -> Requests \union {"NONE"}]
      /\ tgt \in [Workers -> Targets \union {None}] /\ PointOK(pc[v], op[v], tgt[v])
  BY AnswerTypes
<1>f. ASSUME pc'[v] \notin {"observe", "alias", "mode"} PROVE Labelled(v)'
  BY <1>f DEF Labelled
<1>e. /\ \A out \in Outcomes : Fail(v, out) => Labelled(v)'
      /\ \A c : Refuse(v, c) => Labelled(v)'
      /\ \A m : Succeed(v, m) => Labelled(v)'
      /\ \A p : Continue(v, p) /\ p \notin {"observe", "alias", "mode"} => Labelled(v)'
  <2>1. \A out \in Outcomes : AfterFailure(op[v], out) \in {"restore", "release", "reply"}
    BY DEF AfterFailure, Leave
  <2>2. Leave(op[v]) \in {"release", "reply"}
    BY DEF Leave
  <2>. QED BY <1>y, <1>f, <2>1, <2>2 DEF Fail, Refuse, Succeed, Continue, GoTo
<1>1. CASE Accept(v) \/ Respond(v) \/ Compete(v) \/ Restore(v)
  BY <1>y, <1>1, <1>f DEF Accept, Respond, Compete, Restore, GoTo
<1>2. CASE Enter(v)
  <2>1. op'[v] = op[v] /\ (pc'[v] = Entry(op[v]) \/ pc'[v] = "release")
    BY <1>y, <1>2 DEF Enter, GoTo
  <2>2. op[v] \in Requests
    BY <1>2, HasRequest DEF Enter, At, IInv
  <2>3. Entry(op[v]) \in {"observe", "alias", "mode"} => op[v] = "STATUS" /\ Entry(op[v]) = "observe"
    BY <2>2 DEF Entry, Requests, Mutations
  <2>. QED BY <1>f, <2>1, <2>3 DEF Labelled, Targeted
<1>3. CASE SetOn(v) \/ SetOff(v)
  BY <1>3, <1>e DEF SetOn, SetOff
<1>4. CASE VerifyOn(v) \/ VerifyOff(v)
  BY <1>4, <1>e DEF VerifyOn, VerifyOff, Outcomes
<1>5. CASE Precheck(v)
  <2>1. CASE GoTo(v, "disconnect")
    BY <1>y, <1>f, <2>1 DEF GoTo
  <2>. QED BY <1>5, <1>e, <2>1 DEF Precheck
<1>6. CASE Connect(v)
  <2>1. ASSUME CommandConnect(tgt[v], "ok"), Continue(v, "observe") PROVE Labelled(v)'
    <3>1. pc'[v] = "observe" /\ tgt'[v] = tgt[v] /\ exit' = tgt[v]
      BY <1>y, <2>1 DEF Continue, GoTo, CommandConnect
    <3>. QED BY <3>1 DEF Labelled
  <2>. QED BY <1>6, <1>e, <2>1 DEF Connect
<1>7. CASE Disconnect(v)
  <2>1. ASSUME Continue(v, "observe") PROVE Labelled(v)'
    <3>1. pc'[v] = "observe" /\ op'[v] = op[v] /\ op[v] \notin Targeted
      BY <1>y, <1>7, <2>1 DEF Continue, GoTo, Disconnect, At, PointOK, Targeted
    <3>. QED BY <3>1 DEF Labelled
  <2>. QED BY <1>7, <1>e, <2>1 DEF Disconnect
<1>8. CASE Observe(v)
  <2>1. ASSUME GoTo(v, "alias"), UNCHANGED <<op, tgt>> PROVE Labelled(v)'
    <3>1. /\ pc[v] = "observe" /\ pc'[v] = "alias" /\ op'[v] = op[v] /\ tgt'[v] = tgt[v]
          /\ tunnel' = tunnel /\ exit' = exit
      BY <1>y, <1>8, <2>1 DEF Observe, At, GoTo, providerVars
    <3>. QED BY <3>1 DEF Labelled, Live
  <2>. QED BY <1>8, <1>e, <2>1 DEF Observe
<1>9. CASE UpdateAlias(v)
  <2>1. CASE op[v] = "DISCONNECT"
    BY <1>9, <1>e, <2>1 DEF UpdateAlias
  <2>2. CASE op[v] # "DISCONNECT"
    <3>1. /\ pc[v] = "alias" /\ pc'[v] = "mode" /\ op'[v] = op[v] /\ tgt'[v] = tgt[v]
          /\ tunnel' = tunnel /\ exit' = exit
          /\ alias' = AliasAfter(op[v], tgt[v], view[v].state)
      BY <1>y, <1>9, <2>2 DEF UpdateAlias, At, Continue, GoTo, providerVars
    <3>2. /\ op[v] \in Targeted => alias' = tgt[v]
          /\ op[v] \in {"LOCK", "DIRECT"} => alias' = None
      BY <3>1 DEF AliasAfter, Targeted
    <3>. QED BY <3>1, <3>2 DEF Labelled, Live
  <2>. QED BY <2>1, <2>2
<1>10. CASE ReadMode(v)
  BY <1>10, <1>e DEF ReadMode, Outcomes
<1>11. CASE Replace(v)
  BY <1>11, <1>e DEF Replace, Outcomes
<1>12. CASE Release(v)
  BY <1>12, <1>e DEF Release
<1>. QED
  BY <1>1, <1>2, <1>3, <1>4, <1>5, <1>6, <1>7, <1>8, <1>9, <1>10, <1>11, <1>12 DEF Work

LEMMA OtherLabels ==
  ASSUME IInv, NEW v \in Workers, Labelled(v), NEW w \in Workers, v # w, Accept(w) \/ Work(w)
  PROVE  Labelled(v)'
<1>1. pc'[v] = pc[v] /\ op'[v] = op[v] /\ tgt'[v] = tgt[v]
  BY OthersApart, OthersTarget DEF Apart
<1>2. CASE op[v] \notin Targeted \union {"LOCK", "DIRECT"} \/ pc[v] \notin {"observe", "alias", "mode"}
  BY <1>1, <1>2 DEF Labelled
<1>3. CASE op[v] \in Targeted \union {"LOCK", "DIRECT"} /\ pc[v] \in {"observe", "alias", "mode"}
  <2>1. ~InMutation(w)
    <3>1. InMutation(v)
      BY <1>3 DEF InMutation, Mutations, Targeted
    <3>. QED BY <3>1, OneMutation DEF IInv
  <2>2. ~Connect(w) /\ ~Disconnect(w)
    <3>1. PointOK(pc[w], op[w], tgt[w])
      BY AnswerTypes
    <3>. QED BY <2>1, <3>1 DEF Connect, Disconnect, At, PointOK, InMutation, Mutations, Targeted
  <2>3. tunnel' = tunnel /\ exit' = exit
    BY <2>2, ExitSteps
  <2>4. alias' \in {alias, None}
    BY <2>1, AliasSteps, StatusDropsLabel
  <2>. QED BY <1>1, <2>3, <2>4 DEF Labelled, Live
<1>. QED BY <1>2, <1>3

\* A claim on the last transition is made by the step that ends it, and broken
\* by the admission of the next one.
LEMMA NextLabelNames ==
  ASSUME IInv, LabelsHold, [Next]_vars PROVE LabelNamesExit'
<1>. SUFFICES ASSUME confirmed' # "NONE", Live' PROVE alias' \in {None, exit'}
  BY DEF LabelNamesExit, Live
<1>l. ASSUME confirmed # "NONE", Live, alias' \in {alias, None}, exit' = exit
      PROVE  alias' \in {None, exit'}
  BY <1>l DEF LabelsHold, LabelNamesExit, Live
<1>1. CASE ProviderMoves \/ UNCHANGED vars
  <2>1. Live /\ exit' = exit
    BY <1>1, ExitStays DEF ProviderMoves, vars
  <2>2. confirmed' = confirmed /\ alias' = alias
    BY <1>1 DEF ProviderMoves, historyVars, vars
  <2>. QED BY <2>1, <2>2, <1>l
<1>2. CASE Crash \/ Reboot
  BY <1>2 DEF Crash, Reboot, Forget
<1>3. ASSUME NEW w \in Workers, Accept(w) \/ Work(w) PROVE alias' \in {None, exit'}
  <2>y. PointOK(pc[w], op[w], tgt[w])
    BY AnswerTypes
  <2>1. CASE Connect(w) \/ Disconnect(w)
    <3>1. InMutation(w) /\ op[w] \in Transitions /\ pc[w] # "release"
      BY <2>1, <2>y DEF Connect, Disconnect, At, PointOK, InMutation, Transitions, Mutations, Targeted
    <3>2. confirmed = "NONE"
      BY <3>1 DEF IInv, NoneSince
    <3>3. confirmed' = confirmed
      BY <2>1 DEF Connect, Disconnect, Continue, Fail, historyVars
    <3>. QED BY <3>2, <3>3
  <2>2. CASE ReadMode(w)
    <3>1. alias' = alias /\ tunnel' = tunnel /\ exit' = exit /\ pc[w] = "mode"
      BY <2>2 DEF ReadMode, At, providerVars
    <3>2. CASE confirmed' = confirmed
      BY <3>1, <3>2, <1>l DEF Live
    <3>3. CASE confirmed' # confirmed
      <4>1. op[w] \in Transitions
        BY <2>2, <3>3 DEF ReadMode, Succeed, Fail, historyVars
      <4>2. op[w] \in Targeted \union {"LOCK", "DIRECT"}
        BY <2>y, <3>1, <4>1 DEF PointOK, Transitions, Mutations, Targeted
      <4>3. Labelled(w)
        BY DEF LabelsHold
      <4>. QED BY <3>1, <4>2, <4>3 DEF Labelled, Live
    <3>. QED BY <3>2, <3>3
  <2>3. CASE UpdateAlias(w)
    <3>1. tunnel' = tunnel /\ exit' = exit /\ pc[w] = "alias"
      BY <2>3 DEF UpdateAlias, At, providerVars
    <3>2. CASE ~InMutation(w)
      BY <2>3, <3>1, <3>2, <1>l, StatusDropsLabel DEF Live
    <3>3. CASE InMutation(w) /\ op[w] = "DISCONNECT"
      BY <2>3, <3>3 DEF UpdateAlias, AliasAfter, Targeted
    <3>4. CASE InMutation(w) /\ op[w] # "DISCONNECT"
      <4>1. op[w] \in Transitions
        BY <2>y, <3>1, <3>4 DEF PointOK, InMutation, Transitions
      <4>2. confirmed = "NONE"
        BY <3>1, <3>4, <4>1 DEF IInv, NoneSince
      <4>3. confirmed' = confirmed
        BY <2>3, <3>4 DEF UpdateAlias, Continue, historyVars
      <4>. QED BY <4>2, <4>3
    <3>. QED BY <3>2, <3>3, <3>4
  <2>4. CASE ~(Connect(w) \/ Disconnect(w) \/ ReadMode(w) \/ UpdateAlias(w))
    <3>1. tunnel' = tunnel /\ exit' = exit /\ alias' = alias
      BY <1>3, <2>4, ExitSteps, AliasSteps
    <3>2. confirmed' = confirmed
      <4>1. CASE Enter(w)
        BY <4>1 DEF Enter
      <4>2. CASE Observe(w) \/ Replace(w)
        BY <2>y, <4>2 DEF Observe, Replace, At, PointOK, Succeed, Fail, historyVars, Transitions, Mutations
      <4>3. CASE ~(Enter(w) \/ Observe(w) \/ Replace(w))
        BY <1>3, <2>4, <4>3
        DEF Work, Accept, Compete, SetOn, VerifyOn, SetOff, VerifyOff, Precheck, Restore, Release,
            Respond, Fail, Refuse, Continue, historyVars
      <4>. QED BY <4>1, <4>2, <4>3
    <3>. QED BY <3>1, <3>2, <1>l DEF Live
  <2>. QED BY <2>1, <2>2, <2>3, <2>4
<1>. QED BY <1>1, <1>2, <1>3 DEF Next

LEMMA NextLabels ==
  ASSUME IInv, LabelsHold, [Next]_vars PROVE LabelsHold'
<1>1. LabelNamesExit'
  BY NextLabelNames
<1>2. ASSUME NEW v \in Workers PROVE Labelled(v)'
  <2>0. Labelled(v)
    BY DEF LabelsHold
  <2>1. CASE ProviderMoves \/ UNCHANGED vars
    <3>1. Live' => Live /\ exit' = exit
      BY <2>1, ExitStays DEF ProviderMoves, vars
    <3>2. UNCHANGED <<alias, pc, op, tgt>>
      BY <2>1 DEF ProviderMoves, workerVars, vars
    <3>. QED BY <2>0, <3>1, <3>2 DEF Labelled
  <2>2. CASE Crash \/ Reboot
    BY <2>2 DEF Crash, Reboot, Forget, Labelled
  <2>3. ASSUME NEW w \in Workers, Accept(w) \/ Work(w) PROVE Labelled(v)'
    BY <2>0, <2>3, OwnLabel, OtherLabels
  <2>. QED BY <2>1, <2>2, <2>3 DEF Next
<1>. QED BY <1>1, <1>2 DEF LabelsHold

\* While the last transition is confirmed, the label of a live tunnel is that of
\* its exit or missing.
THEOREM LabelsNameTheExit == Spec => []LabelNamesExit
<1>1. Init => LabelsHold
  BY DEF Init, LabelsHold, LabelNamesExit, Labelled
<1>2. Spec => [](IInv /\ LabelsHold)
  BY <1>1, InitInv, NextInv, NextLabels, PTL DEF Spec
<1>3. LabelsHold => LabelNamesExit
  BY DEF LabelsHold
<1>. QED BY <1>2, <1>3, PTL
=============================================================================
