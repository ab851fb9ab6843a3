------------------------------ MODULE FrontEnds ------------------------------
(***************************************************************************)
(* The two programs that speak to the control daemon for its users: the    *)
(* web process (src/snarkyctl/main.py with auth.py), where every HTTP      *)
(* request is served by a thread of its own, and the `snarkyctl' command   *)
(* (cli.py).  A request passes the checks of its front end, makes one call *)
(* to the daemon or two, and turns the last one's outcome into an HTTP     *)
(* status or an exit code.                                                 *)
(*                                                                         *)
(* The daemon is met through what RemoteCall says of a call (ControlServer *)
(* implements it), the answer to a STATUS call through StatusReport.       *)
(* Configuration, accounts and the gateway change at any time.             *)
(***************************************************************************)
EXTENDS StatusReport, TargetSelectors, Sequences

CONSTANTS Requests,  \* HTTP requests and commands
          Users,     \* who may be named in the auth file
          Routes,    \* per request, the <<front end, kind>> pairs it may be of
          Texts,     \* values a discovery request may carry
          MaxEdits   \* bound on edits of configuration and auth file

ASSUME MaxEditsIsNat == MaxEdits \in Nat
ASSUME NoneIsNobody == None \notin Users

VARIABLES document,   \* can the main configuration be loaded?
          accounts,   \* the users the auth file admits
          readable,   \* can it be read and parsed?
          runtime,    \* app.state.runtime is set
          request,    \* per request: what it is and how far it is
          told,       \* per call: what ControlClient has learnt of it
          performed,  \* the calls the daemon has performed
          effective,  \* the requests of which the daemon has done what they ask
          reporter,   \* the STATUS call being collected, or None
          vouched,    \* history: the auth file named the user meanwhile
          edits

hostVars == <<document, accounts, readable, edits>>
callVars == <<told, performed, effective>>
vars == <<providerVars, collection, hostVars, runtime, request, callVars, reporter, vouched>>

-----------------------------------------------------------------------------
(* Outcomes.  A Faulty variant is used by no action, only by the mutation     *)
(* checks of PROJECT.json.                                                    *)

\* What the daemon may answer to an operation it has read whole.
Failures == {"PROVIDER_TIMEOUT", "PROVIDER_COMMAND_FAILED", "INTERNAL_ERROR"}

DiscoveryCodes ==
  {DiscoveryCode(k, f, c) : k \in SelectorKinds \union {"other"}, f \in {"country", "city", "server"},
                            c \in [{} -> Texts] \union [{"country"} -> Texts]}

Refusals(op) ==
  CASE op = "OPERATE" -> {"UNKNOWN_TARGET", "UNSAFE_DISCONNECT"}
    [] op = "REPLACE" -> {"UNKNOWN_PROVIDER", "UNSUPPORTED_TARGET_SELECTION", "INVALID_CATALOG",
                          "CATALOG_CONFLICT", "CATALOG_MIGRATION_REQUIRED", "CATALOG_STORAGE_FAILED"}
    [] op = "READ"    -> {"UNKNOWN_PROVIDER"} \union (DiscoveryCodes \ {"OK"}) \union Failures
    [] OTHER -> {}

\* _vpn_operation and _target_control: every code they do not list is a 502.
OperationStatus ==
  [UNKNOWN_TARGET |-> 404, OPERATION_IN_PROGRESS |-> 409,
   PROVIDER_TIMEOUT |-> 504, DAEMON_TIMEOUT |-> 504]
FaultyTargetStatus ==
  [INVALID_CATALOG |-> 400, INVALID_TARGET_CONTEXT |-> 400, UNKNOWN_PROVIDER |-> 404,
   CATALOG_CONFLICT |-> 409, DAEMON_TIMEOUT |-> 409]
TargetStatus ==
  [INVALID_CATALOG |-> 400, INVALID_TARGET_CONTEXT |-> 400,
   UNKNOWN_PROVIDER |-> 404, UNKNOWN_TARGET_KIND |-> 404, UNKNOWN_TARGET_FIELD |-> 404,
   STATIC_TARGET_FIELD |-> 409, UNSUPPORTED_TARGET_SELECTION |-> 409,
   UNSUPPORTED_TARGET_DISCOVERY |-> 409, CATALOG_CONFLICT |-> 409,
   CATALOG_MIGRATION_REQUIRED |-> 409, PROVIDER_TIMEOUT |-> 504, DAEMON_TIMEOUT |-> 504]

Listed(table, code) == IF code \in DOMAIN table THEN table[code] ELSE 502

HttpStatus(kind, code) ==
  CASE kind = "operate" -> Listed(OperationStatus, code)
    [] kind \in {"read", "replace"} -> Listed(TargetStatus, code)
    [] OTHER -> 502

\* The errors of ControlClient, by what they mean for the call.
RefusedCodes(op) ==
  {"DAEMON_UNAVAILABLE", "ACCESS_DENIED", "SOCKET_ERROR"} \union
  (IF op \in {"OPERATE", "REPLACE"} THEN {"OPERATION_IN_PROGRESS"} ELSE {})
UnknownCodes == {"DAEMON_TIMEOUT", "INVALID_RESPONSE"}

\* A command ends with 2 if it got no answer, with 1 if the answer is a failure.
Exit(code) ==
  IF code \in {"DAEMON_UNAVAILABLE", "ACCESS_DENIED", "SOCKET_ERROR"} \union UnknownCodes
  THEN 2 ELSE 1

Codes ==
  {"none", "OK"} \union Failures \union UNION {Refusals(op) : op \in {"OPERATE", "REPLACE", "READ"}}

-----------------------------------------------------------------------------
(* Requests *)

\* The calls behind an endpoint or a command.  "read" stands for the target
\* schema, the options and the editable catalogue: the active provider first.
CallsOf(front, kind) ==
  CASE kind \in {"status", "status_v1"} -> <<"STATUS">>
    [] kind = "list"    -> <<"TARGETS">>
    [] kind = "read"    -> <<"TARGETS", "READ">>
    [] kind = "operate" -> <<"OPERATE">>
    [] kind = "replace" -> IF front = "web" THEN <<"REPLACE">> ELSE <<"TARGETS", "REPLACE">>

Kinds == {"status", "status_v1", "list", "read", "operate", "replace"}
Mutating(kind) == kind \in {"operate", "replace"}

ASSUME RoutesAreRoutes == Routes \in [Requests -> SUBSET ({"web", "cli"} \X Kinds)]

\* `form': a body, query or replacement file that its schema refuses; a request
\* without the marker, media type or origin of the dashboard; or neither.
Phases == {"idle", "runtime", "auth", "ask", "wait", "end"}
Results == {0, 1, 2, 200, 400, 401, 403, 404, 409, 415, 502, 503, 504}
Forms == {"good", "malformed", "unmarked"}

Request == [front : {"none", "web", "cli"}, kind : Kinds \union {"none"},
            user : Users \union {None}, form : Forms, phase : Phases, call : {1, 2},
            code : Codes, mode : GatewayModes \union {None}, result : Results]

Idle == [front |-> "none", kind |-> "none", user |-> None, form |-> "good",
         phase |-> "idle", call |-> 1, code |-> "none", mode |-> None, result |-> 0]

Op(r, n) == CallsOf(request[r].front, request[r].kind)[n]
Call(r) == <<r, request[r].call>>
AllCalls == Requests \X {1, 2}
CallStates == {"idle", "waiting", "performed", "refused", "unknown"}

TypeOK ==
  /\ ProviderTypeOK
  /\ CollectionTypeOK
  /\ document \in BOOLEAN /\ readable \in BOOLEAN /\ runtime \in BOOLEAN
  /\ accounts \in SUBSET Users
  /\ request \in [Requests -> Request]
  /\ told \in [AllCalls -> CallStates]
  /\ performed \subseteq AllCalls
  /\ reporter \in AllCalls \union {None}
  /\ effective \subseteq Requests /\ vouched \subseteq Requests
  /\ edits \in 0 .. MaxEdits

Init ==
  /\ ProviderInit /\ firewall = "on"   \* no report shows the firewall
  /\ CollectionInit
  /\ document \in BOOLEAN
  /\ accounts = Users /\ readable = TRUE
  /\ runtime = FALSE
  /\ request = [r \in Requests |-> Idle]
  /\ told = [c \in AllCalls |-> "idle"]
  /\ performed = {} /\ effective = {} /\ vouched = {}
  /\ reporter = None
  /\ edits = 0

Control == INSTANCE RemoteCall WITH Calls <- AllCalls

-----------------------------------------------------------------------------
(* How a request ends *)

Failed(r, code) ==
  IF request[r].front = "web" THEN HttpStatus(request[r].kind, code) ELSE Exit(code)

\* Version 1 of the status endpoint has nothing to say without a VPN status.
Succeeded(r) ==
  CASE request[r].front = "cli" -> 0
    [] request[r].kind = "status_v1" /\ request[r].mode = None -> 502
    [] OTHER -> 200

\* Who asked, and how, matters no longer.
End(r, result) ==
  request' = [request EXCEPT ![r].phase = "end", ![r].result = result, ![r].code = "none",
                             ![r].mode = None, ![r].user = None, ![r].form = "good"]
GoTo(r, phase) == request' = [request EXCEPT ![r].phase = phase]

-----------------------------------------------------------------------------
(* The web process and the command *)

\* FastAPI validates body and query before anything else; a command has only
\* the socket's permissions in front of it.
Arrive(r) ==
  /\ request[r].phase = "idle"
  /\ \E route \in Routes[r], u \in Users \union {None}, form \in Forms :
       LET web == route[1] = "web"
           new == [Idle EXCEPT !.front = route[1], !.kind = route[2], !.user = u, !.form = form]
       IN  /\ ~web => u = None /\ form # "unmarked"
           /\ form = "malformed" => route[2] \in {"operate", "replace", "read"}
           /\ request' = [request EXCEPT ![r] =
                IF web /\ form = "malformed" THEN [new EXCEPT !.phase = "end", !.result = 400]
                ELSE [new EXCEPT !.phase = IF web THEN "runtime" ELSE "ask"]]
  /\ UNCHANGED <<providerVars, stage, report, hostVars, runtime, callVars, reporter>>

\* _get_runtime: loaded once, and again only after it could not be loaded.
GetRuntime(r) ==
  /\ request[r].phase = "runtime"
  /\ IF runtime \/ document
     THEN runtime' = TRUE /\ GoTo(r, "auth")
     ELSE runtime' = FALSE /\ End(r, 503)
  /\ UNCHANGED <<providerVars, stage, report, hostVars, callVars, reporter>>

\* _authenticate reads the auth file for every request; then the mutations'
\* _require_same_origin.
FaultyAuthentic(r) == request[r].user \in Users
Authentic(r) == request[r].user \in accounts

Authenticate(r) ==
  /\ request[r].phase = "auth"
  /\ CASE request[r].user = None -> End(r, 401)
       [] request[r].user # None /\ ~readable -> End(r, 503)
       [] request[r].user # None /\ readable /\ ~Authentic(r) -> End(r, 401)
       [] OTHER -> IF Mutating(request[r].kind) /\ request[r].form = "unmarked"
                   THEN End(r, 403) \/ End(r, 415)
                   ELSE GoTo(r, "ask")
  /\ UNCHANGED <<providerVars, stage, report, hostVars, runtime, callVars, reporter>>

\* ControlClient.request sends; a replacement file is read before its call.
Ask(r) ==
  /\ request[r].phase = "ask"
  /\ IF request[r].form = "malformed" /\ Op(r, request[r].call) = "REPLACE"
     THEN End(r, 2) /\ UNCHANGED told
     ELSE GoTo(r, "wait") /\ Control!Ask(Call(r))
  /\ UNCHANGED <<providerVars, stage, report, hostVars, runtime, performed, effective, reporter>>

\* ... and returns the response, or raises ControlClientError.
Return(r) ==
  /\ request[r].phase = "wait"
  /\ Control!Answer(Call(r))
  /\ CASE request[r].code # "OK" -> End(r, Failed(r, request[r].code))
       [] request[r].code = "OK" /\ request[r].call < Len(CallsOf(request[r].front, request[r].kind)) ->
            request' = [request EXCEPT ![r].phase = "ask", ![r].call = 2, ![r].code = "none"]
       [] OTHER -> End(r, Succeeded(r))
  /\ UNCHANGED <<providerVars, stage, report, hostVars, runtime, effective, reporter>>

Raise(r) ==
  /\ request[r].phase = "wait"
  /\ \/ /\ Control!Refuse(Call(r)) /\ reporter # Call(r)
        /\ \E code \in RefusedCodes(Op(r, request[r].call)) : End(r, Failed(r, code))
     \/ Control!GiveUp(Call(r)) /\ \E code \in UnknownCodes : End(r, Failed(r, code))
  /\ UNCHANGED <<providerVars, stage, report, hostVars, runtime, effective, reporter>>

-----------------------------------------------------------------------------
(* The daemon *)

\* The answer finds its caller, if it still waits.
AnswerTo(r, n, code, mode) ==
  request' = IF request[r].phase = "wait" /\ request[r].call = n
             THEN [request EXCEPT ![r].code = code, ![r].mode = mode] ELSE request

\* Any sequence of the provider's commands, other users' included.
ProviderOperated ==
  /\ killswitch' \in Toggle
  /\ tunnel' \in TunnelStates
  /\ exit' \in IF tunnel' = "DISCONNECTED" THEN {None} ELSE Targets
  /\ UNCHANGED firewall

\* A mode transition: refused beforehand, failed with or without an effect, or
\* done and confirmed by the mode read afterwards.
Operate(r, n) ==
  /\ Control!Perform(<<r, n>>)
  /\ Op(r, n) = "OPERATE"
  /\ \/ /\ \E code \in Refusals("OPERATE") : AnswerTo(r, n, code, None)
        /\ UNCHANGED <<providerVars, effective>>
     \/ /\ ProviderOperated
        /\ effective' = effective \union {r}
        /\ \/ \E code \in Failures : AnswerTo(r, n, code, None)
           \/ \E shown \in Shown(killswitch') : AnswerTo(r, n, "OK", ModeOf(tunnel', shown))
  /\ UNCHANGED <<stage, report, hostVars, runtime, reporter>>

\* Everything else the daemon serves leaves the gateway alone.
Serve(r, n) ==
  /\ Control!Perform(<<r, n>>)
  /\ Op(r, n) \in {"TARGETS", "READ", "REPLACE"}
  /\ \/ /\ \E code \in Refusals(Op(r, n)) : AnswerTo(r, n, code, None)
        /\ UNCHANGED effective
     \/ /\ AnswerTo(r, n, "OK", None)
        /\ effective' = IF n = Len(CallsOf(request[r].front, request[r].kind))
                        THEN effective \union {r} ELSE effective
  /\ UNCHANGED <<providerVars, stage, report, hostVars, runtime, reporter>>

\* STATUS is collected step by step (one at a time here), and answered.
BeginReport(r) ==
  /\ request[r].phase = "wait"
  /\ Op(r, request[r].call) = "STATUS"
  /\ stage = "idle" /\ Call(r) \notin performed
  /\ stage' = "vpn"
  /\ report' = NoReport
  /\ reporter' = Call(r)
  /\ UNCHANGED <<providerVars, hostVars, runtime, request, callVars>>

Reading == Collect /\ UNCHANGED <<hostVars, runtime, request, callVars, reporter>>

EndReport ==
  /\ stage \in {"done", "lost"}
  /\ Control!Perform(reporter)
  /\ AnswerTo(reporter[1], reporter[2], IF stage = "done" THEN "OK" ELSE "INTERNAL_ERROR", report.mode)
  /\ effective' = IF stage = "done" THEN effective \union {reporter[1]} ELSE effective
  /\ stage' = "idle"
  /\ report' = NoReport
  /\ reporter' = None
  /\ UNCHANGED <<providerVars, hostVars, runtime>>

-----------------------------------------------------------------------------
(* The surroundings *)

GatewayMoves ==
  /\ TunnelMoves
  /\ UNCHANGED <<stage, report, hostVars, runtime, request, callVars, reporter>>

Administer ==
  /\ edits < MaxEdits
  /\ edits' = edits + 1
  /\ \/ document' = ~document /\ UNCHANGED <<accounts, readable, runtime>>
     \/ accounts' \in SUBSET Users /\ readable' \in BOOLEAN /\ UNCHANGED <<document, runtime>>
     \/ /\ \A r \in Requests : request[r].phase \in {"idle", "end"}
        /\ runtime' = FALSE /\ UNCHANGED <<document, accounts, readable>>   \* restart
  /\ UNCHANGED <<providerVars, stage, report, request, callVars, reporter>>

\* The history of every step: who was admitted.
Browsing == {r \in Requests : request[r].phase \notin {"idle", "end"} /\ request[r].front = "web"}
History ==
  /\ Watch
  /\ vouched' = vouched \union {r \in Browsing : request[r].user \in accounts}

-----------------------------------------------------------------------------
FrontEnd(r) == GetRuntime(r) \/ Authenticate(r) \/ Ask(r) \/ Return(r) \/ Raise(r)

Next ==
  /\ \/ \E r \in Requests :
          \/ Arrive(r) \/ FrontEnd(r) \/ BeginReport(r)
          \/ \E n \in {1, 2} : Operate(r, n) \/ Serve(r, n)
     \/ Reading \/ EndReport
     \/ GatewayMoves \/ Administer
  /\ History

Spec == Init /\ [][Next]_vars

-----------------------------------------------------------------------------
(* Properties *)

\* What the answer of a front end says of the request.
Says(r) ==
  CASE request[r].result \in {0, 200} -> "performed"
    [] request[r].result \in {400, 401, 403, 404, 409, 415, 503} -> "refused"
    [] request[r].result \in {1, 2, 502, 504} -> "unknown"

Known(r) ==
  CASE request[r].phase = "idle" -> "idle"
    [] request[r].phase = "end"  -> Says(r)
    [] OTHER -> "waiting"

HttpCall == INSTANCE RemoteCall
  WITH Calls <- Requests, told <- [r \in Requests |-> Known(r)], performed <- effective

\* A request is to its user what a call is to its front end: a success means
\* that it was done once and before, a 4xx or a 503 that it was not and will
\* not be, and only 502, 504 and the exit codes 1 and 2 leave it open, however
\* the daemon, its clients and the timeouts interleave.
AnswersMeanWhatTheySay == HttpCall!Spec

\* Nobody gets anything done whom the auth file did not name while the request
\* was under way, although the configuration is read only once.
NoStaleAdmission ==
  \A r \in effective : request[r].front = "web" => r \in vouched
=============================================================================
