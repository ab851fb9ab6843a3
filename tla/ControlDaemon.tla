--------------------------- MODULE ControlDaemon ---------------------------
(***************************************************************************)
(* The privileged control daemon, src/snarkyctl/control/daemon.py: pool    *)
(* threads (Workers) take one request each from the control socket, the    *)
(* mutating requests share one non-blocking operation lock, STATUS runs    *)
(* beside them without it, and every request is a sequence of provider CLI *)
(* commands between which anything else may happen.  One action is one     *)
(* CLI command together with the thread-local Python that follows it, or   *)
(* one access to state the threads share (the lock, the current alias).    *)
(*                                                                         *)
(* Program points, in the order each request visits them:                  *)
(*   STATUS      observe alias mode                                        *)
(*   PROTECTED   set_on verify_on connect observe alias mode               *)
(*   CONNECT     connect observe alias mode                                *)
(*   LOCK        set_on verify_on disconnect observe alias mode            *)
(*   DISCONNECT  precheck disconnect observe alias                         *)
(*   DIRECT      set_off verify_off disconnect observe alias mode, and     *)
(*               restore when one of these raises ProviderError            *)
(*   REPLACE     replace  (its effect is the subject of TargetCatalogue)   *)
(* then "release" (mutations only) and "reply".                            *)
(***************************************************************************)
EXTENDS VpnProvider

CONSTANTS Workers,   \* the threads of the daemon's pool
          Offered    \* the requests clients send

ASSUME NoneIsNoWorker == None \notin Workers

VARIABLES lock,       \* the worker holding _operation_lock, or None
          alias,      \* _current_target_alias
          pc, op, tgt, view, reply,   \* per worker: point, request, answers
          granted, confirmed, calm, restored   \* history, for properties only

workerVars  == <<pc, op, tgt, view, reply>>
historyVars == <<granted, confirmed, calm, restored>>
vars == <<providerVars, lock, alias, workerVars, historyVars>>

-----------------------------------------------------------------------------
(* Types *)

Mutations == {"CONNECT", "DISCONNECT", "PROTECTED", "LOCK", "DIRECT", "REPLACE"}
Targeted  == {"CONNECT", "PROTECTED"}
Transitions == Mutations \ {"REPLACE"}   \* those that touch the provider
Requests  == Mutations \union {"STATUS"}

ASSUME OfferedAreRequests == Offered \subseteq Requests

Points == {"idle", "dispatch", "set_on", "verify_on", "set_off", "verify_off",
           "precheck", "connect", "disconnect", "observe", "alias", "mode",
           "replace", "restore", "release", "reply"}

Modes == {"VPN", "LOCKED", "DIRECT", "UNKNOWN"}
Codes == {"OK", "OPERATION_IN_PROGRESS", "UNKNOWN_TARGET", "UNSAFE_DISCONNECT",
          "PROVIDER_ERROR", "INTERNAL_ERROR"}

NoReply == [code |-> "none", mode |-> "none"]
NoView  == [state |-> "none", protection |-> "unknown"]

View  == [state : TunnelStates \union {"none"}, protection : Toggle \union {"unknown"}]
Reply == [code : Codes \union {"none"}, mode : Modes \union {"none"}]

TypeOK ==
  /\ ProviderTypeOK
  /\ lock \in Workers \union {None}
  /\ alias \in Targets \union {None}
  /\ pc \in [Workers -> Points]
  /\ op \in [Workers -> Requests \union {"NONE"}]
  /\ tgt \in [Workers -> Targets \union {None}]
  /\ view \in [Workers -> View]
  /\ reply \in [Workers -> Reply]
  /\ granted \in BOOLEAN
  /\ confirmed \in Transitions \union {"NONE"}
  /\ calm \in [Workers -> BOOLEAN]
  /\ restored \in [Workers -> {"no", "tried", "done"}]

\* A daemon that has just started beside a provider in whatever policy it was.
Init ==
  /\ ProviderInit
  /\ lock = None
  /\ alias = None
  /\ pc = [w \in Workers |-> "idle"]
  /\ op = [w \in Workers |-> "NONE"]
  /\ tgt = [w \in Workers |-> None]
  /\ view = [w \in Workers |-> NoView]
  /\ reply = [w \in Workers |-> NoReply]
  /\ granted = (killswitch = "off")
  /\ confirmed = "NONE"
  /\ calm = [w \in Workers |-> FALSE]
  /\ restored = [w \in Workers |-> "no"]

(***************************************************************************)
(* History, read by properties only:                                       *)
(*   granted     a Direct request was admitted, and no Protected or Lock   *)
(*               request has succeeded since                               *)
(*   confirmed   the last transition, if it succeeded and no other started *)
(*   calm[w]     the gateway was not exposed when w read the tunnel or the *)
(*               settings for its answer                                   *)
(*   restored[w] how far a failed Direct got with restoring protection     *)
(***************************************************************************)

-----------------------------------------------------------------------------
(* The decisions the code takes.  Beside some of them stands a Faulty variant *)
(* that no action uses: the mutation checks of PROJECT.json put it in place   *)
(* of the decision to see a property fail.                                    *)

\* Only mutations need the lock, and they never wait for it.
FaultyMayEnter(o) == o \in Mutations \ {"DIRECT"} => lock = None
MayEnter(o) == o \in Mutations => lock = None

\* First point of a request once it is admitted.
Entry(o) ==
  CASE o \in {"PROTECTED", "LOCK"} -> "set_on"
    [] o = "DIRECT"                -> "set_off"
    [] o = "CONNECT"               -> "connect"
    [] o = "DISCONNECT"            -> "precheck"
    [] o = "REPLACE"               -> "replace"
    [] o = "STATUS"                -> "observe"

\* Where a request goes when it has its reply: mutations release the lock in
\* a finally block.
Leave(o) == IF o \in Mutations THEN "release" ELSE "reply"

\* Direct restores leak protection, but only on a ProviderError.
FaultyAfterFailureNoRestore(o, out) == Leave(o)
FaultyAfterFailureRetry(o, out) == IF o = "DIRECT" THEN "set_off" ELSE Leave(o)
AfterFailure(o, out) ==
  IF o = "DIRECT" /\ out = "provider_error" THEN "restore" ELSE Leave(o)

CodeOf(out) == IF out = "provider_error" THEN "PROVIDER_ERROR" ELSE "INTERNAL_ERROR"

\* _with_gateway_mode: protection does not matter while connected.
FaultyGatewayMode(state, protection) ==
  CASE state = "CONNECTED"                           -> "VPN"
    [] state = "DISCONNECTED" /\ protection # "off"  -> "LOCKED"
    [] state = "DISCONNECTED" /\ protection = "off"  -> "DIRECT"
    [] OTHER                                         -> "UNKNOWN"
GatewayMode(state, protection) ==
  CASE state = "CONNECTED"                           -> "VPN"
    [] state = "DISCONNECTED" /\ protection = "on"   -> "LOCKED"
    [] state = "DISCONNECTED" /\ protection = "off"  -> "DIRECT"
    [] OTHER                                         -> "UNKNOWN"

\* The mode a transition must have reached to be reported as a success.
FaultyReached(o, mode) == o = "PROTECTED" => mode = "VPN"
Reached(o, mode) ==
  /\ o = "PROTECTED" => mode = "VPN"
  /\ o = "LOCK"      => mode = "LOCKED"
  /\ o = "DIRECT"    => mode = "DIRECT"

\* A plain disconnect is refused unless both settings are verified.
FaultySafeToDisconnect(protection, fw) == fw = "on"
SafeToDisconnect(protection, fw) == protection = "on" /\ fw = "on"

\* _current_target_alias after the status command of a request.
FaultyAliasAfterConnect(o, t, state) == IF o = "PROTECTED" THEN t ELSE alias
AliasAfter(o, t, state) ==
  CASE o \in Targeted                             -> t
    [] o \in {"DISCONNECT", "LOCK", "DIRECT"}     -> None
    [] o = "STATUS" /\ state = "DISCONNECTED"     -> None
    [] OTHER                                      -> alias

-----------------------------------------------------------------------------
(* Steps shared by the requests *)

At(w, point) == pc[w] = point
GoTo(w, point) == pc' = [pc EXCEPT ![w] = point]
Answer(w, code, mode) == reply' = [reply EXCEPT ![w] = [code |-> code, mode |-> mode]]

\* An exception leaves the request; handle_connection makes it a response.
Fail(w, out) ==
  /\ Answer(w, CodeOf(out), "none")
  /\ GoTo(w, AfterFailure(op[w], out))
  /\ UNCHANGED <<op, tgt, view, historyVars>>

Refuse(w, code) ==
  /\ Answer(w, code, "none")
  /\ GoTo(w, Leave(op[w]))
  /\ UNCHANGED <<op, tgt, view, historyVars>>

Succeed(w, mode) ==
  /\ Answer(w, "OK", mode)
  /\ GoTo(w, Leave(op[w]))
  /\ IF op[w] \in Transitions
     THEN /\ confirmed' = op[w]
          /\ granted' = (granted /\ op[w] \notin {"PROTECTED", "LOCK"})
     ELSE UNCHANGED <<confirmed, granted>>
  /\ UNCHANGED <<op, tgt, view, restored>>

Continue(w, point) ==
  /\ GoTo(w, point)
  /\ UNCHANGED <<op, tgt, view, reply, historyVars>>

-----------------------------------------------------------------------------
(* One action per program point *)

\* handle_connection: a valid request of a permitted peer is read.
Accept(w) ==
  /\ At(w, "idle")
  /\ \E o \in Offered :
       /\ op' = [op EXCEPT ![w] = o]
       /\ \E t \in IF o \in Targeted THEN Targets ELSE {None} :
            tgt' = [tgt EXCEPT ![w] = t]
  /\ GoTo(w, "dispatch")
  /\ UNCHANGED <<providerVars, lock, alias, view, reply, historyVars>>

\* dispatch: the lock is not free.
Compete(w) ==
  /\ At(w, "dispatch")
  /\ ~MayEnter(op[w])
  /\ Answer(w, "OPERATION_IN_PROGRESS", "none")
  /\ GoTo(w, "reply")
  /\ UNCHANGED <<providerVars, lock, alias, op, tgt, view, historyVars>>

\* dispatch: a mutation takes the lock, STATUS goes ahead without it.  The
\* catalogue may or may not hold the alias.
Enter(w) ==
  /\ At(w, "dispatch")
  /\ MayEnter(op[w])
  /\ \/ GoTo(w, Entry(op[w])) /\ UNCHANGED reply
     \/ /\ op[w] \in Targeted
        /\ GoTo(w, "release")
        /\ Answer(w, "UNKNOWN_TARGET", "none")
  /\ lock' = IF op[w] \in Mutations THEN w ELSE lock
  /\ confirmed' = IF op[w] \in Transitions THEN "NONE" ELSE confirmed
  /\ granted' = (granted \/ op[w] = "DIRECT")
  /\ UNCHANGED <<providerVars, alias, op, tgt, view, calm, restored>>

\* set_leak_protection(True), the command.
SetOn(w) ==
  /\ At(w, "set_on")
  /\ CommandKillSwitch("on")
  /\ \E out \in Outcomes : IF out = "ok" THEN Continue(w, "verify_on") ELSE Fail(w, out)
  /\ UNCHANGED <<lock, alias>>

\* set_leak_protection(True), its readback, and the caller's check of it.
VerifyOn(w) ==
  /\ At(w, "verify_on")
  /\ \/ \E shown \in Shown(killswitch) :
          IF shown = "on"
          THEN Continue(w, IF op[w] = "PROTECTED" THEN "connect" ELSE "disconnect")
          ELSE Fail(w, "provider_error")
     \/ \E out \in Outcomes \ {"ok"} : Fail(w, out)
  /\ UNCHANGED <<providerVars, lock, alias>>

SetOff(w) ==
  /\ At(w, "set_off")
  /\ CommandKillSwitch("off")
  /\ \E out \in Outcomes : IF out = "ok" THEN Continue(w, "verify_off") ELSE Fail(w, out)
  /\ UNCHANGED <<lock, alias>>

VerifyOff(w) ==
  /\ At(w, "verify_off")
  /\ \/ \E shown \in Shown(killswitch) :
          IF shown = "off" THEN Continue(w, "disconnect") ELSE Fail(w, "provider_error")
     \/ \E out \in Outcomes \ {"ok"} : Fail(w, out)
  /\ UNCHANGED <<providerVars, lock, alias>>

\* DISCONNECT reads the settings first and refuses an unsafe disconnect; it
\* reports its mode from this reading.
Precheck(w) ==
  /\ At(w, "precheck")
  /\ \/ \E shown \in Shown(killswitch), fw \in Shown(firewall) :
          IF SafeToDisconnect(shown, fw)
          THEN /\ view' = [view EXCEPT ![w].protection = shown]
               /\ GoTo(w, "disconnect")
               /\ UNCHANGED <<op, tgt, reply, historyVars>>
          ELSE Refuse(w, "UNSAFE_DISCONNECT")
     \/ \E out \in Outcomes \ {"ok"} : Fail(w, out)
  /\ UNCHANGED <<providerVars, lock, alias>>

\* connect_stored, the command.
Connect(w) ==
  /\ At(w, "connect")
  /\ \E out \in Outcomes :
       /\ CommandConnect(tgt[w], out)
       /\ IF out = "ok" THEN Continue(w, "observe") ELSE Fail(w, out)
  /\ UNCHANGED <<lock, alias>>

\* disconnect, the command.
Disconnect(w) ==
  /\ At(w, "disconnect")
  /\ CommandDisconnect
  /\ \E out \in Outcomes : IF out = "ok" THEN Continue(w, "observe") ELSE Fail(w, out)
  /\ UNCHANGED <<lock, alias>>

\* The status command: of STATUS, or the one that ends connect_stored and
\* disconnect.  A STATUS request survives its ProviderError.
Observe(w) ==
  /\ At(w, "observe")
  /\ \/ /\ view' = [view EXCEPT ![w].state = tunnel]
        /\ calm' = [calm EXCEPT ![w] = @ \/ ~Exposed]
        /\ GoTo(w, "alias")
        /\ UNCHANGED <<op, tgt, reply, granted, confirmed, restored>>
     \/ \E out \in Outcomes \ {"ok"} :
          IF op[w] = "STATUS" /\ out = "provider_error"
          THEN Succeed(w, "none") /\ UNCHANGED calm
          ELSE Fail(w, out)
  /\ UNCHANGED <<providerVars, lock, alias>>

\* The access to _current_target_alias.  DISCONNECT is done after it.
UpdateAlias(w) ==
  /\ At(w, "alias")
  /\ alias' = AliasAfter(op[w], tgt[w], view[w].state)
  /\ IF op[w] = "DISCONNECT"
     THEN Succeed(w, GatewayMode(view[w].state, view[w].protection)) /\ UNCHANGED calm
     ELSE Continue(w, "mode")
  /\ UNCHANGED <<providerVars, lock>>

\* The settings command that closes a request, and the mode derived from it.
\* STATUS and CONNECT take a ProviderError here as unknown protection.
ReadMode(w) ==
  /\ At(w, "mode")
  /\ \/ \E shown \in Shown(killswitch) :
          LET mode == GatewayMode(view[w].state, shown)
          IN  IF Reached(op[w], mode)
              THEN /\ Succeed(w, mode)
                   /\ calm' = [calm EXCEPT ![w] = @ \/ ~Exposed]
              ELSE Fail(w, "provider_error")
     \/ \E out \in Outcomes \ {"ok"} :
          IF op[w] \in {"STATUS", "CONNECT"} /\ out = "provider_error"
          THEN Succeed(w, GatewayMode(view[w].state, "unknown")) /\ UNCHANGED calm
          ELSE Fail(w, out)
  /\ UNCHANGED <<providerVars, lock, alias>>

\* _restore_leak_protection after a failed Direct: a ProviderError is
\* swallowed, the readback is not looked at, the first error is reported.
Restore(w) ==
  /\ At(w, "restore")
  /\ CommandKillSwitch("on")
  /\ \E out \in Outcomes :
       /\ restored' = [restored EXCEPT ![w] = IF killswitch' = "on" THEN "done" ELSE "tried"]
       /\ IF out = "exception" THEN Answer(w, CodeOf(out), "none") ELSE UNCHANGED reply
  /\ GoTo(w, "release")
  /\ UNCHANGED <<lock, alias, op, tgt, view, granted, confirmed, calm>>

\* TARGET_CATALOG_REPLACE holds the lock and leaves the provider alone.
Replace(w) ==
  /\ At(w, "replace")
  /\ \/ Succeed(w, "none") /\ UNCHANGED calm
     \/ Fail(w, "provider_error")
     \/ Fail(w, "exception")
  /\ UNCHANGED <<providerVars, lock, alias>>

\* The finally block of dispatch.
FaultyRelease(w) ==
  /\ At(w, "release")
  /\ lock' = IF reply[w].code = "OK" THEN None ELSE lock
  /\ Continue(w, "reply")
  /\ UNCHANGED <<providerVars, alias>>
Release(w) ==
  /\ At(w, "release")
  /\ lock' = None
  /\ Continue(w, "reply")
  /\ UNCHANGED <<providerVars, alias>>

\* The response is sent, or the peer is gone; the thread is free again.
Respond(w) ==
  /\ At(w, "reply")
  /\ GoTo(w, "idle")
  /\ op' = [op EXCEPT ![w] = "NONE"]
  /\ tgt' = [tgt EXCEPT ![w] = None]
  /\ view' = [view EXCEPT ![w] = NoView]
  /\ reply' = [reply EXCEPT ![w] = NoReply]
  /\ calm' = [calm EXCEPT ![w] = FALSE]
  /\ restored' = [restored EXCEPT ![w] = "no"]
  /\ UNCHANGED <<providerVars, lock, alias, granted, confirmed>>

-----------------------------------------------------------------------------
(* Failures of the daemon and of the host *)

\* The process dies and is started again: nothing of it is persistent.
Forget ==
  /\ lock' = None
  /\ alias' = None
  /\ pc' = [w \in Workers |-> "idle"]
  /\ op' = [w \in Workers |-> "NONE"]
  /\ tgt' = [w \in Workers |-> None]
  /\ view' = [w \in Workers |-> NoView]
  /\ reply' = [w \in Workers |-> NoReply]
  /\ calm' = [w \in Workers |-> FALSE]
  /\ restored' = [w \in Workers |-> "no"]
  /\ UNCHANGED <<granted, confirmed>>

Crash  == Forget /\ UNCHANGED providerVars
Reboot == Forget /\ TunnelLost

\* The provider's tunnel moves while the daemon does nothing.
ProviderMoves == TunnelMoves /\ UNCHANGED <<lock, alias, workerVars, historyVars>>

-----------------------------------------------------------------------------
Work(w) ==
  \/ Compete(w) \/ Enter(w) \/ SetOn(w) \/ VerifyOn(w) \/ SetOff(w)
  \/ VerifyOff(w) \/ Precheck(w) \/ Connect(w) \/ Disconnect(w) \/ Observe(w)
  \/ UpdateAlias(w) \/ ReadMode(w) \/ Restore(w) \/ Replace(w) \/ Release(w)
  \/ Respond(w)

Next ==
  \/ \E w \in Workers : Accept(w) \/ Work(w)
  \/ ProviderMoves
  \/ Crash
  \/ Reboot

Spec == Init /\ [][Next]_vars

\* Every CLI command ends, at the latest by its timeout, and the operating
\* system schedules every thread; nobody has to send a request.
FairSpec == Spec /\ \A w \in Workers : WF_vars(Work(w))

-----------------------------------------------------------------------------
(* Safety *)

\* A worker is between taking and releasing the operation lock.
InMutation(w) == op[w] \in Mutations /\ pc[w] \notin {"idle", "dispatch", "reply"}

\* The operation lock belongs to the one mutation in progress and to nobody
\* else: it is never left behind by a failure, never released by a request
\* that was refused, and two mutations never interleave (dispatch).
LockDiscipline == \A w \in Workers : InMutation(w) <=> lock = w

\* Leak protection is off only if a Direct request was admitted and neither a
\* Protected nor a Lock request has succeeded since, whatever failed, timed
\* out, raced or restarted in between ("No automatic Direct fallback").
NoUngrantedExposure == killswitch = "off" => granted

\* A transition reported as a success is still in force, until the next one
\* is admitted: nothing the pool does beside it or after it undoes it.
ConfirmedModeHolds ==
  /\ confirmed \in {"PROTECTED", "LOCK", "DISCONNECT"} => killswitch = "on"
  /\ confirmed = "DIRECT" => killswitch = "off"
  /\ confirmed \in {"LOCK", "DIRECT"} => tunnel = "DISCONNECTED"

\* Protected, Lock and Disconnect let go of the tunnel only under an enabled
\* kill switch: the reading they decided on is still true when the provider
\* command runs (check-then-act over two CLI commands).
TunnelReleasedProtected ==
  \A w \in Workers :
    \/ pc[w] = "disconnect" /\ op[w] \in {"LOCK", "DISCONNECT"}
    \/ pc[w] = "connect" /\ op[w] = "PROTECTED"
    => killswitch = "on"

\* A Direct request that reports a ProviderError has tried to restore leak
\* protection, and if the restore command worked protection is on when the
\* error is reported.
DirectErrorRestores ==
  \A w \in Workers :
    pc[w] = "release" /\ op[w] = "DIRECT" /\ reply[w].code = "PROVIDER_ERROR"
    => /\ restored[w] # "no"
       /\ restored[w] = "done" => killswitch = "on"

\* The documented form of the same: a Direct request that fails with leak
\* protection disabled has tried to restore it, whatever made it fail.
DirectFailureRestores ==
  \A w \in Workers :
    /\ pc[w] = "release" /\ op[w] = "DIRECT" /\ reply[w].code # "OK"
    /\ killswitch = "off"
    => restored[w] # "no"

\* An answer that says VPN or LOCKED is not false comfort: at one of the two
\* moments its parts were read, the gateway was not exposed, even though the
\* parts were read apart and without the lock.
NoFalseComfort ==
  \A w \in Workers :
    pc[w] \in {"release", "reply"} /\ reply[w].mode \in {"VPN", "LOCKED"} => calm[w]

\* After a successful transition the label that STATUS attaches to a live
\* tunnel names the tunnel's exit or is missing; stale STATUS requests can
\* remove it but not falsify it.
LabelNamesExit ==
  confirmed # "NONE" /\ tunnel \in {"CONNECTED", "CONNECTING"} => alias \in {None, exit}

-----------------------------------------------------------------------------
(* Liveness and refinement *)

\* Every request the pool has taken is answered, or dies with the daemon.
RequestsAnswered == \A w \in Workers : pc[w] = "dispatch" ~> pc[w] = "idle"

\* The operation lock does not stay taken ("The lock is released on success or
\* failure, including provider exceptions and timeouts").
LockReleased == lock # None ~> lock = None

Policy == INSTANCE GatewayPolicy WITH protection <- killswitch

\* The daemon, its provider and its crashes implement the exposure policy.
ImplementsPolicy == Policy!Spec
=============================================================================
