--------------------------- MODULE FrontEndsProofs ---------------------------
(***************************************************************************)
(* Theorems about the front ends (FrontEnds), the report of the gateway's  *)
(* state that they show (StatusReport) and the destinations that they pass *)
(* on (TargetSelectors), for any number of requests, users and exits.      *)
(***************************************************************************)
EXTENDS FrontEnds, TLAPS

-----------------------------------------------------------------------------
(* Destinations *)

\* A client that follows the provider's schema, as the dashboard does, is never
\* refused: nordvpn.py's schema, its discovery and the daemon's checks agree.
THEOREM DiscoveryIsServed ==
  ASSUME NEW texts \in SUBSET Text
  PROVE  SchemaIsServed(texts)
<1> SUFFICES ASSUME NEW kind \in SelectorKinds, NEW field \in ListedFields(kind),
                    NEW context \in [DependsOn(kind, field) -> Offered("country", texts)]
             PROVE  DiscoveryCode(kind, field, context) = "OK"
  BY DEF SchemaIsServed
<1>1. DOMAIN context = DependsOn(kind, field)
  OBVIOUS
<1>2. field \in FieldsOf(kind)
  BY DEF ListedFields
<1>3. AdapterCode(kind, field, context) = "OK"
  <2>1. CASE kind = "city" /\ field = "city"
    <3>1. DOMAIN context = {"country"} /\ context["country"] \in Offered("country", texts)
      BY <1>1, <2>1 DEF DependsOn
    <3>2. IsCode(context["country"]) /\ context["country"].length >= 2
      BY <3>1 DEF Offered, IsCode, Text
    <3>3. QED
      BY <2>1, <3>1, <3>2 DEF AdapterCode
  <2>2. CASE ~(kind = "city" /\ field = "city")
    <3>1. DOMAIN context = {}
      BY <1>1, <2>2 DEF DependsOn
    <3>2. QED
      BY <2>2, <3>1 DEF AdapterCode, ListedFields, FieldsOf, SelectorKinds
  <2>3. QED
    BY <2>1, <2>2
<1>4. QED
  BY <1>1, <1>2, <1>3 DEF DiscoveryCode

LEMMA FoldedText == \A v \in Text : Folded(v) \in Text /\ (v.lower => Folded(v) = v)
BY DEF Folded, Text

\* What NordVPN's discovery offers can be saved as it is, and is found again.
THEOREM OffersAreStored ==
  ASSUME NEW texts \in SUBSET Text
  PROVE  OfferedIsStored(texts)
<1> SUFFICES ASSUME NEW kind \in SelectorKinds, NEW s \in Selector(kind, texts),
                    \A field \in FieldsOf(kind) :
                      field \in ListedFields(kind) /\ s.value[field] \in Offered(field, texts)
             PROVE  ValidSelector(s) /\ Stored(s) = s
  BY DEF OfferedIsStored
<1>1. s.kind = kind /\ s.value \in [FieldsOf(kind) -> texts]
  BY DEF Selector
<1>2. ASSUME NEW field \in FieldsOf(kind)
      PROVE  ValidField(field, s.value[field])
  BY <1>2 DEF Offered, ValidField, IsTarget, IsCode, Text
<1>3. \A f \in FieldsOf(kind) : Folded(s.value[f]) = s.value[f]
  BY FoldedText DEF Offered
<1>4. [f \in DOMAIN s.value |-> IF f = "country" THEN Folded(s.value[f]) ELSE s.value[f]] = s.value
  BY <1>1, <1>3
<1>5. QED
  BY <1>1, <1>2, <1>4 DEF ValidSelector, Stored, Selector

\* A selector that the store accepted is still valid, and the same, when the
\* daemon reads it back and connects to it.
THEOREM StoredSelectorsStay ==
  ASSUME NEW texts \in SUBSET Text
  PROVE  StoredStaysValid(texts)
<1> SUFFICES ASSUME NEW kind \in SelectorKinds, NEW s \in Selector(kind, texts), ValidSelector(s)
             PROVE  ValidSelector(Stored(s)) /\ Stored(Stored(s)) = Stored(s)
  BY DEF StoredStaysValid
<1> DEFINE Value(v) == [f \in DOMAIN v |-> IF f = "country" THEN Folded(v[f]) ELSE v[f]]
<1>1. s.kind = kind /\ s.value \in [FieldsOf(kind) -> texts]
  BY DEF Selector
<1>2. \A v \in Text : /\ Folded(Folded(v)) = Folded(v)
                      /\ \A f : ValidField(f, v) => ValidField(f, Folded(v))
  BY DEF Folded, Text, ValidField, IsTarget, IsCode
<1>3. Stored(s) = [kind |-> kind, value |-> Value(s.value)]
  BY <1>1 DEF Stored, Selector
<1>4. Value(Value(s.value)) = Value(s.value)
  BY <1>1, <1>2
<1>5. Stored(Stored(s)) = Stored(s)
  BY <1>3, <1>4 DEF Stored
<1>6. \A f \in FieldsOf(kind) : ValidField(f, Value(s.value)[f])
  BY <1>1, <1>2 DEF ValidSelector
<1>7. QED
  BY <1>3, <1>5, <1>6 DEF ValidSelector

-----------------------------------------------------------------------------
(* The report of the gateway's state *)

\* What the report holds at each stage, and what it says of a gateway that has
\* stood still so far.
Settled == {"public_ip", "dns", "system", "done"}

SoFar ==
  /\ stage \in {"vpn", "settings"} => report.mode = None
  /\ stage \in {"vpn", "settings", "public_ip"} => report.address = None
  /\ stage = "public_ip" => HasAddress(report.mode)
  /\ ~HasAddress(report.mode) => report.address = None
  /\ stage = "settings" /\ still => report.state = tunnel
  /\ stage \in Settled /\ still =>
       /\ report.mode = "VPN" => tunnel = "CONNECTED" /\ report.address # Vps
       /\ report.mode = "LOCKED" => ~Exposed
       /\ report.mode = "DIRECT" => Exposed /\ report.address \in {Vps, None}

\* What is missing so far, and why.
Explained ==
  /\ report.read \intersect report.failures = {}
  /\ stage = "vpn" => report.read = {} /\ report.failures = {} /\ report.state = None
  /\ stage = "settings" => report.read = {"vpn"} /\ report.failures = {}
  /\ stage \in Settled =>
       /\ "vpn" \in report.read \union report.failures
       /\ "vpn_settings" \in report.read \union report.failures \/ report.state = None
  /\ stage = "public_ip" =>
       {"public_ip", "dns", "system"} \intersect (report.read \union report.failures) = {}
  /\ stage \in {"dns", "system", "done"} =>
       "public_ip" \in report.read \union report.failures \/ ~HasAddress(report.mode)
  /\ stage = "dns" => {"dns", "system"} \intersect (report.read \union report.failures) = {}
  /\ stage \in {"system", "done"} => "dns" \in report.read \union report.failures
  /\ stage = "system" => "system" \notin report.read \union report.failures
  /\ stage = "done" => "system" \in report.read \union report.failures

GInv == ProviderTypeOK /\ CollectionTypeOK /\ SoFar /\ Explained

\* None of the actions that may move the gateway touches the report.
LEMMA GatewayMovesKeep ==
  ASSUME GInv, ProviderTypeOK', UNCHANGED <<stage, report>>, Watch
  PROVE  GInv'
<1>1. still' => stage' = "idle" \/ (still /\ UNCHANGED <<tunnel, exit, killswitch>>)
  BY DEF Watch
<1>2. still' \in BOOLEAN
  BY DEF Watch
<1>3. QED
  BY <1>1, <1>2 DEF GInv, CollectionTypeOK, SoFar, Explained, Settled, Exposed, HasAddress

LEMMA CollectKeeps ==
  ASSUME GInv, Collect, Watch
  PROVE  GInv'
<1> USE DEF GInv, ProviderTypeOK, CollectionTypeOK, Report
<1>1. UNCHANGED <<tunnel, exit, killswitch, firewall>>
  BY DEF Collect, providerVars
<1>2. still' \in BOOLEAN /\ (still' => stage' = "idle" \/ still)
  BY DEF Watch
<1>3. None \notin GatewayModes
  BY NoneIsNoReading
<1>4. CASE ReadVpn
  <2>1. stage = "vpn" /\ report.mode = None /\ report.address = None
    BY <1>4 DEF ReadVpn, SoFar
  <2>2. CASE Read("vpn", [report EXCEPT !.state = tunnel]) /\ stage' = "settings"
    <3>1. report' = [report EXCEPT !.state = tunnel, !.read = @ \union {"vpn"}]
      BY <2>2 DEF Read
    <3>2. QED
      BY <1>1, <1>2, <2>1, <2>2, <3>1 DEF SoFar, Explained, Settled, Components, Stages, HasAddress
  <2>3. CASE Miss("vpn") /\ stage' = "dns"
    <3>1. report' = [report EXCEPT !.failures = @ \union {"vpn"}]
      BY <2>3 DEF Miss
    <3>2. QED
      BY <1>1, <1>2, <1>3, <2>1, <2>3, <3>1 DEF SoFar, Explained, Settled, Components, Stages, HasAddress,
         GatewayModes
  <2>4. CASE Lose
    BY <1>1, <1>2, <2>4 DEF Lose, NoReport, SoFar, Explained, Settled, Components, Stages, HasAddress
  <2>5. QED
    BY <1>4, <2>2, <2>3, <2>4 DEF ReadVpn
<1>5. CASE ReadSettings
  <2>1. CASE Lose
    BY <1>1, <1>2, <2>1 DEF Lose, NoReport, SoFar, Explained, Settled, Components, Stages, HasAddress
  <2>2. CASE ~Lose
    <3>1. PICK shown \in {killswitch, "unknown"} :
            /\ \/ report' = [report EXCEPT !.mode = ModeOf(report.state, shown),
                                          !.read = @ \union {"vpn_settings"}]
               \/ report' = [report EXCEPT !.mode = ModeOf(report.state, shown),
                                          !.failures = @ \union {"vpn_settings"}]
            /\ stage' = IF HasAddress(ModeOf(report.state, shown)) THEN "public_ip" ELSE "dns"
      BY <1>5, <2>2 DEF ReadSettings, Read, Shown
    <3> DEFINE mode == ModeOf(report.state, shown)
    <3>2. mode \in GatewayModes
      BY DEF ModeOf, GatewayModes
    <3>3. report' \in Report
      BY <3>1, <3>2 DEF Components
    <3>4. report'.mode = mode /\ UNCHANGED <<report.state, report.address>>
      BY <3>1, <3>2
    <3>5. stage = "settings"
      BY <1>5 DEF ReadSettings
    <3>6. SoFar'
      <4>1. report.address = None /\ (still => report.state = tunnel)
        BY <3>5 DEF SoFar
      <4>2. still' => still
        BY <1>2, <3>1
      <4>3. still => /\ mode = "VPN" => tunnel = "CONNECTED"
                     /\ mode = "LOCKED" => ~Exposed
                     /\ mode = "DIRECT" => Exposed
        BY <4>1 DEF ModeOf, Exposed, Toggle
      <4>4. Exposed' = Exposed
        BY <1>1 DEF Exposed
      <4>5. None # Vps
        BY VpsIsNoExit
      <4>6. stage' \in {"public_ip", "dns"} /\ (stage' = "public_ip" => HasAddress(mode))
        BY <3>1
      <4>7. QED
        BY <1>1, <3>4, <4>1, <4>2, <4>3, <4>4, <4>5, <4>6
        DEF SoFar, Settled, HasAddress
    <3>7. Explained'
      <4>1. report.read = {"vpn"} /\ report.failures = {}
        BY <3>5 DEF Explained
      <4>2. /\ report'.read \intersect report'.failures = {}
            /\ report'.read \union report'.failures = {"vpn", "vpn_settings"}
        BY <3>1, <4>1
      <4>3. stage' = "public_ip" \/ (stage' = "dns" /\ ~HasAddress(report'.mode))
        BY <3>1, <3>4
      <4>4. QED
        BY <4>2, <4>3 DEF Explained, Settled
    <3>8. QED
      BY <1>1, <1>2, <3>1, <3>3, <3>6, <3>7 DEF Stages
  <2>3. QED
    BY <2>1, <2>2
<1>6. CASE ReadAddress
  <2>1. CASE Lose
    BY <1>1, <1>2, <2>1 DEF Lose, NoReport, SoFar, Explained, Settled, Components, Stages, HasAddress
  <2>2. ASSUME NEW a \in PublicAddress, Read("public_ip", [report EXCEPT !.address = a]), stage' = "dns"
        PROVE  GInv'
    <3>1. report' = [report EXCEPT !.address = a, !.read = @ \union {"public_ip"}]
      BY <2>2 DEF Read
    <3>2. a \in Addresses \union {None}
      BY DEF PublicAddress, Addresses
    <3>3. report' \in Report
      BY <3>1, <3>2 DEF Components
    <3>4. report'.address = a /\ UNCHANGED <<report.state, report.mode>>
      BY <3>1
    <3>5. stage = "public_ip"
      BY <1>6 DEF ReadAddress
    <3>6. SoFar'
      <4>1. HasAddress(report.mode) /\ (still' => still)
        BY <1>2, <2>2, <3>5 DEF SoFar
      <4>2. still /\ report.mode = "VPN" => tunnel = "CONNECTED" /\ a # Vps
        BY <3>5, VpsIsNoExit DEF SoFar, Settled, PublicAddress
      <4>3. still /\ report.mode = "DIRECT" => Exposed /\ a = Vps
        BY <3>5 DEF SoFar, Settled, PublicAddress, Exposed
      <4>4. report.mode # "LOCKED"
        BY <4>1 DEF HasAddress
      <4>5. QED
        BY <1>1, <2>2, <3>4, <4>1, <4>2, <4>3, <4>4 DEF SoFar, Settled, Exposed, HasAddress
    <3>7. Explained'
      BY <2>2, <3>1, <3>4, <3>5 DEF Explained, Settled, Components
    <3>8. QED
      BY <1>1, <1>2, <2>2, <3>3, <3>6, <3>7 DEF Stages
  <2>3. CASE Miss("public_ip") /\ stage' = "dns"
    <3>1. report' = [report EXCEPT !.failures = @ \union {"public_ip"}]
      BY <2>3 DEF Miss
    <3>2. stage = "public_ip"
      BY <1>6 DEF ReadAddress
    <3>3. QED
      BY <1>1, <1>2, <2>3, <3>1, <3>2 DEF SoFar, Explained, Settled, Components, Stages, HasAddress, Exposed
  <2>4. QED
    BY <1>6, <2>1, <2>2, <2>3 DEF ReadAddress
<1>7. CASE ReadDns
  BY <1>7, <1>1, <1>2 DEF ReadDns, Read, Miss, Lose, NoReport, SoFar, Explained, Settled, Components, Stages,
     HasAddress, Exposed
<1>8. CASE ReadSystem
  BY <1>8, <1>1, <1>2 DEF ReadSystem, Read, Miss, Lose, NoReport, SoFar, Explained, Settled, Components, Stages,
     HasAddress, Exposed
<1>9. QED
  BY <1>4, <1>5, <1>6, <1>7, <1>8 DEF Collect

-----------------------------------------------------------------------------
(* Requests *)

Requested == request \in [Requests -> Request]

\* What a step of request r leaves alone.
Others(r) == \A q \in Requests \ {r} : request'[q] = request[q]
Same(r) == request'[r].front = request[r].front /\ request'[r].kind = request[r].kind

LEMMA NoneIsCode == "none" \in Codes
BY DEF Codes

\* The fields of a request, by the names of their sets.
Nobody == Users \union {None}
NoMode == GatewayModes \union {None}

LEMMA RequestIs ==
  /\ Request = [front : {"none", "web", "cli"}, kind : Kinds \union {"none"}, user : Nobody,
                form : Forms, phase : Phases, call : {1, 2}, code : Codes, mode : NoMode,
                result : Results]
  /\ None \in Nobody /\ None \in NoMode
BY DEF Request, Nobody, NoMode

LEMMA EndIs ==
  ASSUME Requested, NEW r \in Requests, NEW x \in Results, End(r, x)
  PROVE  /\ Requested' /\ Others(r) /\ Same(r)
         /\ request'[r].phase = "end" /\ request'[r].result = x /\ request'[r].call = request[r].call
<1>1. "end" \in Phases /\ "good" \in Forms
  BY DEF Phases, Forms
<1>2. request[r] \in Request
  BY DEF Requested
<1> DEFINE ended == [request[r] EXCEPT !.phase = "end", !.result = x, !.code = "none",
                                       !.mode = None, !.user = None, !.form = "good"]
<1>3. ended \in Request
  BY <1>1, <1>2, RequestIs, NoneIsCode
<1>4. request' = [request EXCEPT ![r] = ended]
  BY DEF End
<1>5. QED
  BY <1>3, <1>4 DEF Requested, Others, Same, Request

LEMMA GoToIs ==
  ASSUME Requested, NEW r \in Requests, NEW p \in Phases, GoTo(r, p)
  PROVE  /\ Requested' /\ Others(r) /\ Same(r)
         /\ request'[r].phase = p /\ UNCHANGED <<request[r].call, request[r].code, request[r].result>>
<1>1. [request[r] EXCEPT !.phase = p] \in Request
  BY DEF Requested, Request
<1>2. request' = [request EXCEPT ![r] = [request[r] EXCEPT !.phase = p]]
  BY DEF GoTo
<1>3. QED
  BY <1>1, <1>2 DEF Requested, Others, Same, Request

LEMMA AnswerToIs ==
  ASSUME Requested, NEW r \in Requests, NEW n, NEW c \in Codes, NEW m \in GatewayModes \union {None},
         AnswerTo(r, n, c, m)
  PROVE  /\ Requested' /\ Others(r) /\ Same(r)
         /\ UNCHANGED <<request[r].phase, request[r].call, request[r].result>>
         /\ IF request[r].phase = "wait" /\ request[r].call = n
            THEN request'[r].code = c ELSE request' = request
<1>1. [request[r] EXCEPT !.code = c, !.mode = m] \in Request
  <2>1. request[r] \in Request /\ m \in NoMode
    BY DEF Requested, NoMode
  <2>2. QED
    BY <2>1, RequestIs
<1>2. CASE request[r].phase = "wait" /\ request[r].call = n
  <2>1. request' = [request EXCEPT ![r] = [request[r] EXCEPT !.code = c, !.mode = m]]
    BY <1>2 DEF AnswerTo
  <2>2. QED
    BY <1>1, <1>2, <2>1 DEF Requested, Others, Same, Request
<1>3. CASE ~(request[r].phase = "wait" /\ request[r].call = n)
  BY <1>3 DEF AnswerTo, Requested, Others, Same
<1>4. QED
  BY <1>2, <1>3

\* The statuses and exit codes are those that a front end may end with, and
\* what each failure says of the request: a write that the daemon has read is
\* never called refused, unless the daemon's answer was a refusal.
LEMMA CodesAreCodes ==
  /\ {"none", "OK"} \subseteq Codes /\ Failures \subseteq Codes
  /\ \A op : Refusals(op) \subseteq Codes
<1>1. ASSUME NEW op PROVE Refusals(op) \subseteq Codes
  <2>1. CASE op \in {"OPERATE", "REPLACE", "READ"}
    BY <2>1 DEF Codes
  <2>2. CASE op \notin {"OPERATE", "REPLACE", "READ"}
    BY <2>2 DEF Refusals
  <2>3. QED
    BY <2>1, <2>2
<1>2. QED
  BY <1>1 DEF Codes

LEMMA StatusIsResult ==
  \A kind, code : HttpStatus(kind, code) \in {400, 404, 409, 502, 504}
<1>1. \A code : Listed(OperationStatus, code) \in {404, 409, 502, 504}
  BY DEF Listed, OperationStatus
<1>2. \A code : Listed(TargetStatus, code) \in {400, 404, 409, 502, 504}
  BY DEF Listed, TargetStatus
<1>3. QED
  BY <1>1, <1>2 DEF HttpStatus

LEMMA FailedIsResult ==
  ASSUME NEW r, NEW code
  PROVE  Failed(r, code) \in {1, 2, 400, 404, 409, 502, 504}
BY StatusIsResult DEF Failed, Exit

-----------------------------------------------------------------------------
(* What is known of a request at each point of its way *)

Last(r) == Len(CallsOf(request[r].front, request[r].kind))
Began(r) == request[r].front \in {"web", "cli"} /\ request[r].kind \in Kinds

\* The calls before the present one have been answered, those behind it not asked.
Orderly(r) ==
  /\ request[r].phase # "idle" => Began(r)
  /\ request[r].phase \in {"runtime", "auth"} => request[r].front = "web"
  /\ request[r].phase \in {"idle", "runtime", "auth"} => request[r].call = 1 /\ told[<<r, 1>>] = "idle"
  /\ request[r].phase = "ask"  => told[Call(r)] = "idle"
  /\ request[r].phase = "wait" => told[Call(r)] = "waiting"
  /\ request[r].phase # "idle" => request[r].call <= Last(r)
  /\ request[r].call = 1 => told[<<r, 2>>] = "idle"
  /\ request[r].call = 2 => told[<<r, 1>>] = "performed"

\* Only calls that were asked and not refused are performed, and the last one
\* does what the request asks.
Effects(r) ==
  /\ \A n \in {1, 2} :
       /\ told[<<r, n>>] \in {"idle", "refused"} => <<r, n>> \notin performed
       /\ told[<<r, n>>] = "performed" => <<r, n>> \in performed
  /\ r \in effective => request[r].phase # "idle" /\ <<r, Last(r)>> \in performed

\* What an answer that is on its way says.
Answered(r) ==
  request[r].phase = "wait" /\ Call(r) \in performed =>
    /\ request[r].code # "none"
    /\ request[r].code = "OK" /\ request[r].call = Last(r) => r \in effective
    /\ request[r].code # "OK" /\ Failed(r, request[r].code) \in {400, 404, 409} => r \notin effective

\* A request that is over is not done behind its user's back, if it told him so.
Over(r) ==
  request[r].phase = "end" =>
    /\ \A n \in {1, 2} : told[<<r, n>>] # "waiting"
    /\ request[r].result \in {0, 200} => r \in effective
    /\ request[r].result \in {400, 401, 403, 404, 409, 415, 503} =>
         r \notin effective /\ \A n \in {1, 2} : told[<<r, n>>] # "unknown"

Admitted(r) ==
  request[r].front = "web" =>
    /\ request[r].phase \in {"ask", "wait"} => r \in vouched
    /\ \A n \in {1, 2} : told[<<r, n>>] # "idle" => r \in vouched

Way(r) == Orderly(r) /\ Effects(r) /\ Answered(r) /\ Over(r) /\ Admitted(r)

\* The report being collected answers a STATUS call that has not been performed.
Reporting ==
  stage # "idle" =>
    \E r \in Requests :
      /\ reporter = <<r, 1>> /\ <<r, 1>> \notin performed
      /\ request[r].phase # "idle" /\ request[r].kind \in {"status", "status_v1"}
      /\ told[<<r, 1>>] \in {"waiting", "unknown"}

Shape ==
  /\ Requested
  /\ told \in [AllCalls -> CallStates]
  /\ performed \subseteq AllCalls
  /\ effective \subseteq Requests

FInv == Shape /\ Reporting /\ \A r \in Requests : Way(r)

LEMMA CallsAre ==
  ASSUME NEW front \in {"web", "cli"}, NEW kind \in Kinds
  PROVE  /\ Len(CallsOf(front, kind)) \in {1, 2}
         /\ \A n \in 1 .. Len(CallsOf(front, kind)) :
              /\ CallsOf(front, kind)[n] = "OPERATE" => n = Len(CallsOf(front, kind)) /\ kind = "operate"
              /\ CallsOf(front, kind)[n] = "STATUS" => n = 1 /\ Len(CallsOf(front, kind)) = 1
                                                    /\ kind \in {"status", "status_v1"}
<1>1. CASE kind \in {"status", "status_v1"}
  BY <1>1 DEF CallsOf
<1>2. CASE kind = "list"
  BY <1>2 DEF CallsOf
<1>3. CASE kind = "read"
  BY <1>3 DEF CallsOf
<1>4. CASE kind = "operate"
  BY <1>4 DEF CallsOf
<1>5. CASE kind = "replace"
  BY <1>5 DEF CallsOf
<1>6. QED
  BY <1>1, <1>2, <1>3, <1>4, <1>5 DEF Kinds

LEMMA WayKeeps ==
  ASSUME NEW q \in Requests, Way(q), request'[q] = request[q],
         \A n \in {1, 2} :
           /\ told'[<<q, n>>] = told[<<q, n>>]
           /\ <<q, n>> \in performed' <=> <<q, n>> \in performed,
         q \in effective' <=> q \in effective,
         q \in vouched => q \in vouched',
         request[q].call \in {1, 2}
  PROVE  Way(q)'
<1>1. Last(q)' = Last(q) /\ Call(q)' = Call(q)
  BY DEF Last, Call
<1>2. request[q].phase # "idle" => Last(q) \in {1, 2}
  BY CallsAre DEF Last, Way, Orderly, Began
<1>3. Orderly(q)'
  BY <1>1 DEF Way, Orderly, Began, Call
<1>4. Effects(q)'
  BY <1>1, <1>2 DEF Way, Effects
<1>5. Answered(q)'
  BY <1>1 DEF Way, Answered, Call, Failed
<1>6. Over(q)' /\ Admitted(q)'
  BY DEF Way, Over, Admitted
<1>7. QED
  BY <1>3, <1>4, <1>5, <1>6 DEF Way

\* The history only grows, and names who passes the auth file.
Grows == vouched \subseteq vouched'

LEMMA HistoryIs ==
  ASSUME History
  PROVE  /\ Grows
         /\ \A r \in Requests : request[r].phase = "auth" /\ request[r].front = "web" /\ Authentic(r)
              => r \in vouched'
BY DEF History, Grows, Browsing, Authentic

\* A step of one request leaves the others on their way.
LEMMA OthersKeep ==
  ASSUME FInv, NEW r \in Requests, Others(r), Grows,
         \A q \in Requests \ {r}, n \in {1, 2} :
           /\ told'[<<q, n>>] = told[<<q, n>>]
           /\ <<q, n>> \in performed' <=> <<q, n>> \in performed,
         \A q \in Requests \ {r} : q \in effective' <=> q \in effective
  PROVE  \A q \in Requests \ {r} : Way(q)'
<1> SUFFICES ASSUME NEW q \in Requests \ {r} PROVE Way(q)'
  OBVIOUS
<1>1. Way(q) /\ request'[q] = request[q] /\ request[q].call \in {1, 2}
  BY DEF FInv, Others, Shape, Requested, Request
<1>2. \A n \in {1, 2} :
        /\ told'[<<q, n>>] = told[<<q, n>>]
        /\ <<q, n>> \in performed' <=> <<q, n>> \in performed
  OBVIOUS
<1>3. q \in effective' <=> q \in effective
  OBVIOUS
<1>4. q \in vouched => q \in vouched'
  BY DEF Grows
<1>5. QED
  BY <1>1, <1>2, <1>3, <1>4, WayKeeps

\* The steps of a front end that make no call.
Quiet(r) ==
  /\ Others(r) /\ Grows
  /\ UNCHANGED <<stage, reporter, told, performed, effective>>
  /\ \/ /\ request[r].phase = "idle"
        /\ request'[r].front \in {"web", "cli"} /\ request'[r].kind \in Kinds
        /\ request'[r].call = 1
        /\ request'[r].phase \in {"runtime", "ask", "end"}
        /\ request'[r].phase = "runtime" => request'[r].front = "web"
        /\ request'[r].phase = "ask" => request'[r].front = "cli"
        /\ request'[r].phase = "end" => request'[r].result = 400
     \/ /\ request[r].phase \in {"runtime", "auth"} /\ Same(r)
        /\ request'[r].call = 1
        /\ request'[r].phase \in {"auth", "ask", "end"}
        /\ request'[r].phase = "ask" => r \in vouched'
        /\ request'[r].phase = "end" => request'[r].result \in {401, 403, 415, 503}
     \/ /\ request[r].phase = "ask" /\ request'[r].phase = "end" /\ Same(r)
        /\ request'[r].call = request[r].call /\ request'[r].result = 2

LEMMA QuietKeeps ==
  ASSUME FInv, Requested', NEW r \in Requests, Quiet(r)
  PROVE  FInv'
<1>1. \A q \in Requests \ {r} : Way(q)'
  BY OthersKeep DEF Quiet
<1>2. Shape'
  BY DEF FInv, Shape, Quiet
<1>3. Reporting'
  <2>1. \A q \in Requests : request[q].phase # "idle" =>
          request'[q].phase # "idle" /\ request'[q].kind = request[q].kind
    BY DEF Quiet, Others, Same
  <2>2. QED
    BY <2>1 DEF FInv, Reporting, Quiet
<1>4. Way(r) /\ request[r].call \in {1, 2}
  BY DEF FInv, Shape, Requested, Request
<1>5. Began(r)'
  BY <1>4 DEF Quiet, Same, Began, Way, Orderly
<1>6. Last(r)' \in {1, 2}
  BY <1>5, CallsAre DEF Began, Last
<1>7. request[r].phase # "idle" => Last(r)' = Last(r)
  BY DEF Quiet, Same, Last
<1>8. \A n \in {1, 2} : told[<<r, n>>] \in {"idle", "performed"}
  BY <1>4 DEF Way, Orderly, Quiet, Call
<1>9. r \notin effective
  <2>1. ASSUME request[r].phase # "idle" PROVE told[<<r, Last(r)>>] = "idle" /\ Last(r) \in {1, 2}
    <3>1. request[r].phase \in {"runtime", "auth", "ask"}
      BY <2>1 DEF Quiet
    <3>2. Last(r) \in {1, 2} /\ request[r].call <= Last(r)
      BY <1>6, <1>7, <1>4, <2>1 DEF Way, Orderly
    <3>3. told[<<r, request[r].call>>] = "idle"
      BY <1>4, <3>1 DEF Way, Orderly, Call
    <3>4. request[r].call = 1 => told[<<r, 2>>] = "idle"
      BY <1>4 DEF Way, Orderly
    <3>5. QED
      BY <1>4, <3>2, <3>3, <3>4
  <2>2. QED
    BY <1>4, <2>1 DEF Way, Effects
<1>10. Orderly(r)'
  <2>1. CASE request[r].phase = "ask"
    <3>1. request'[r].phase = "end" /\ request'[r].call = request[r].call /\ UNCHANGED told
      BY <2>1 DEF Quiet
    <3>2. QED
      BY <1>4, <1>5, <1>7, <2>1, <3>1 DEF Way, Orderly
  <2>2. CASE request[r].phase # "ask"
    <3>1. /\ request'[r].call = 1 /\ UNCHANGED told
          /\ request'[r].phase \in {"runtime", "auth", "ask", "end"}
          /\ request'[r].phase \in {"runtime", "auth"} => request'[r].front = "web"
      BY <1>4, <2>2 DEF Quiet, Same, Way, Orderly
    <3>2. told[<<r, 1>>] = "idle" /\ told[<<r, 2>>] = "idle"
      BY <1>4, <2>2 DEF Quiet, Way, Orderly
    <3>3. QED
      BY <1>5, <1>6, <3>1, <3>2 DEF Orderly, Call
  <2>3. QED
    BY <2>1, <2>2
<1>11. Effects(r)'
  BY <1>4, <1>9 DEF Way, Effects, Quiet
<1>12. Answered(r)' /\ Over(r)'
  BY <1>8, <1>9 DEF Answered, Over, Quiet
<1>13. Admitted(r)'
  BY <1>4 DEF Way, Admitted, Orderly, Quiet, Same, Call, Grows
<1>14. QED
  BY <1>1, <1>2, <1>3, <1>10, <1>11, <1>12, <1>13 DEF FInv, Way

LEMMA ArriveIsQuiet ==
  ASSUME FInv, NEW r \in Requests, Arrive(r), History
  PROVE  Requested' /\ Quiet(r)
<1>1. PICK route \in Routes[r], u \in Users \union {None}, form \in Forms :
        LET web == route[1] = "web"
            new == [Idle EXCEPT !.front = route[1], !.kind = route[2], !.user = u, !.form = form]
        IN  /\ ~web => u = None /\ form # "unmarked"
            /\ form = "malformed" => route[2] \in {"operate", "replace", "read"}
            /\ request' = [request EXCEPT ![r] =
                 IF web /\ form = "malformed" THEN [new EXCEPT !.phase = "end", !.result = 400]
                 ELSE [new EXCEPT !.phase = IF web THEN "runtime" ELSE "ask"]]
  BY DEF Arrive
<1> DEFINE new == [Idle EXCEPT !.front = route[1], !.kind = route[2], !.user = u, !.form = form]
           ended == [new EXCEPT !.phase = "end", !.result = 400]
           going == [new EXCEPT !.phase = IF route[1] = "web" THEN "runtime" ELSE "ask"]
<1>2. route[1] \in {"web", "cli"} /\ route[2] \in Kinds
  BY RoutesAreRoutes
<1>3. Idle \in Request /\ Idle.call = 1
  <2>1. "idle" \in Phases /\ 0 \in Results /\ "good" \in Forms
    BY DEF Phases, Results, Forms
  <2>2. QED
    BY <2>1, RequestIs, NoneIsCode DEF Idle
<1>4. /\ new \in Request
      /\ new.front = route[1] /\ new.kind = route[2] /\ new.call = 1
  <2>1. u \in Nobody
    BY DEF Nobody
  <2>2. QED
    BY <1>2, <1>3, <2>1, RequestIs
<1> HIDE DEF new
<1>5. /\ ended \in Request /\ going \in Request
      /\ \A x \in {ended, going} : x.front = route[1] /\ x.kind = route[2] /\ x.call = 1
      /\ ended.phase = "end" /\ ended.result = 400
      /\ going.phase = IF route[1] = "web" THEN "runtime" ELSE "ask"
  <2> DEFINE p == IF route[1] = "web" THEN "runtime" ELSE "ask"
  <2>1. "end" \in Phases /\ p \in Phases /\ 400 \in Results
    BY DEF Phases, Results
  <2> HIDE DEF p
  <2>2. ended \in Request
    BY <1>4, <2>1, RequestIs
  <2>3. /\ ended.front = route[1] /\ ended.kind = route[2] /\ ended.call = 1
        /\ ended.phase = "end" /\ ended.result = 400
    BY <1>4, <2>2, RequestIs
  <2>4. [new EXCEPT !.phase = p] \in Request
    BY <1>4, <2>1, RequestIs
  <2>5. /\ [new EXCEPT !.phase = p].front = route[1] /\ [new EXCEPT !.phase = p].kind = route[2]
        /\ [new EXCEPT !.phase = p].call = 1 /\ [new EXCEPT !.phase = p].phase = p
    BY <1>4, RequestIs
  <2>6. QED
    BY <2>2, <2>3, <2>4, <2>5 DEF p
<1>6. request' = [request EXCEPT ![r] = IF route[1] = "web" /\ form = "malformed" THEN ended ELSE going]
  BY <1>1 DEF new
<1> HIDE DEF ended, going
<1>7. Requested' /\ Others(r) /\ request'[r] \in {ended, going}
  BY <1>5, <1>6 DEF FInv, Shape, Requested, Others
<1>8. request[r].phase = "idle" /\ UNCHANGED <<stage, reporter, told, performed, effective>> /\ Grows
  BY HistoryIs DEF Arrive, callVars
<1>9. QED
  BY <1>2, <1>5, <1>7, <1>8 DEF Quiet

LEMMA EntryIsQuiet ==
  ASSUME FInv, NEW r \in Requests, GetRuntime(r) \/ Authenticate(r), History
  PROVE  Requested' /\ Quiet(r)
<1>1. Requested /\ Way(r) /\ Grows
  BY HistoryIs DEF FInv, Shape
<1>2. CASE GetRuntime(r)
  <2>1. 503 \in Results /\ "auth" \in Phases
    BY DEF Results, Phases
  <2>2. QED
    BY <1>1, <1>2, <2>1, EndIs, GoToIs DEF GetRuntime, Quiet, callVars, Way, Orderly
<1>3. CASE Authenticate(r)
  <2>1. {401, 403, 415, 503} \subseteq Results /\ "ask" \in Phases
    BY DEF Results, Phases
  <2>2. request[r].phase = "auth" /\ request[r].front = "web" /\ request[r].call = 1
    BY <1>1, <1>3 DEF Authenticate, Way, Orderly
  <2>3. (GoTo(r, "ask") /\ Authentic(r)) \/ \E x \in {401, 403, 415, 503} : End(r, x)
    BY <1>3 DEF Authenticate
  <2>4. Authentic(r) => r \in vouched'
    BY <2>2, HistoryIs
  <2>5. UNCHANGED <<stage, reporter, told, performed, effective>>
    BY <1>3 DEF Authenticate, callVars
  <2>6. QED
    BY <1>1, <2>1, <2>2, <2>3, <2>4, <2>5, EndIs, GoToIs DEF Quiet
<1>4. QED
  BY <1>2, <1>3

\* What every step has in common in which a front end is told of its call.
Told(r, v) ==
  /\ request[r].phase \in {"ask", "wait"} /\ request'[r].phase # "idle"
  /\ Others(r) /\ Same(r) /\ Grows
  /\ told' = [told EXCEPT ![Call(r)] = v]
  /\ UNCHANGED <<stage, reporter, performed, effective>>
  /\ v \in {"waiting", "unknown"} \/ stage = "idle" \/ reporter # Call(r)

LEMMA ToldKeeps ==
  ASSUME FInv, Requested', NEW r \in Requests, NEW v \in CallStates, Told(r, v)
  PROVE  /\ Shape' /\ Reporting' /\ \A q \in Requests \ {r} : Way(q)'
         /\ told'[<<r, request[r].call>>] = v
         /\ \A n \in {1, 2} : n # request[r].call => told'[<<r, n>>] = told[<<r, n>>]
         /\ Began(r)' /\ Last(r)' = Last(r) /\ Last(r) \in {1, 2}
<1>1. request[r].call \in {1, 2} /\ Way(r) /\ told \in [AllCalls -> CallStates]
  BY DEF FInv, Shape, Requested, Request
<1>2. Call(r) \in AllCalls /\ \A q \in Requests, n \in {1, 2} : <<q, n>> \in AllCalls
  BY <1>1 DEF Call, AllCalls
<1>3. \A q \in Requests, n \in {1, 2} :
        <<q, n>> # Call(r) => told'[<<q, n>>] = told[<<q, n>>]
  BY <1>1, <1>2 DEF Told
<1>4. told'[Call(r)] = v
  BY <1>1, <1>2 DEF Told
<1>5. Shape'
  BY <1>1, <1>2 DEF Told, FInv, Shape
<1>6. \A q \in Requests \ {r} : Way(q)'
  BY <1>3, OthersKeep DEF Told, Call
<1>7. Reporting'
  <2>1. \A q \in Requests : request[q].phase # "idle" =>
          request'[q].phase # "idle" /\ request'[q].kind = request[q].kind
    BY DEF Told, Others, Same
  <2>2. SUFFICES ASSUME stage # "idle" PROVE Reporting'
    BY DEF Told, Reporting
  <2>3. PICK q \in Requests :
          /\ reporter = <<q, 1>> /\ <<q, 1>> \notin performed
          /\ request[q].phase # "idle" /\ request[q].kind \in {"status", "status_v1"}
          /\ told[<<q, 1>>] \in {"waiting", "unknown"}
    BY <2>2 DEF FInv, Reporting
  <2>4. told'[<<q, 1>>] \in {"waiting", "unknown"}
    BY <1>3, <1>4, <2>2, <2>3 DEF Told
  <2>5. QED
    BY <2>1, <2>3, <2>4 DEF Told, Reporting
<1>8. Began(r)' /\ Last(r)' = Last(r) /\ Last(r) \in {1, 2}
  BY <1>1, CallsAre DEF Told, Same, Way, Orderly, Began, Last
<1>9. QED
  BY <1>1, <1>3, <1>4, <1>5, <1>6, <1>7, <1>8 DEF Call

LEMMA AskKeeps ==
  ASSUME FInv, NEW r \in Requests, Ask(r), History
  PROVE  FInv' /\ Requested'
<1>1. Requested /\ Way(r) /\ Grows /\ request[r].call \in {1, 2} /\ request[r].phase = "ask"
  BY HistoryIs DEF FInv, Shape, Requested, Request, Ask
<1>2. CASE End(r, 2) /\ UNCHANGED told
  <2>1. 2 \in Results
    BY DEF Results
  <2>2. Requested' /\ Quiet(r)
    BY <1>1, <1>2, <2>1, EndIs DEF Ask, Quiet
  <2>3. QED
    BY <2>2, QuietKeeps
<1>3. CASE GoTo(r, "wait") /\ Control!Ask(Call(r))
  <2>1. "wait" \in Phases /\ "waiting" \in CallStates
    BY DEF Phases, CallStates
  <2>2. /\ Requested' /\ Others(r) /\ Same(r) /\ request'[r].phase = "wait"
        /\ request'[r].call = request[r].call /\ request'[r].code = request[r].code
    BY <1>1, <1>3, <2>1, GoToIs
  <2>3. told[Call(r)] = "idle"
    BY <1>1 DEF Way, Orderly
  <2>4. Told(r, "waiting")
    BY <1>1, <1>3, <2>2 DEF Told, Ask, Control!Ask
  <2>5. Call(r) \notin performed
    BY <1>1, <2>3 DEF Way, Effects, Call
  <2>6. Orderly(r)'
    BY <1>1, <2>1, <2>2, <2>4, ToldKeeps DEF Way, Orderly, Call
  <2>7. Effects(r)'
    BY <1>1, <2>1, <2>2, <2>4, <2>5, ToldKeeps DEF Way, Effects, Told, Call
  <2>8. Answered(r)' /\ Over(r)'
    BY <2>2, <2>4, <2>5 DEF Answered, Over, Told, Call
  <2>9. Admitted(r)'
    BY <1>1, <2>2 DEF Way, Admitted, Same, Grows
  <2>10. QED
    BY <2>1, <2>2, <2>4, <2>6, <2>7, <2>8, <2>9, ToldKeeps DEF FInv, Way
<1>4. QED
  BY <1>2, <1>3 DEF Ask

LEMMA ReturnKeeps ==
  ASSUME FInv, NEW r \in Requests, Return(r), History
  PROVE  FInv'
<1>1. Requested /\ Way(r) /\ Grows /\ request[r].call \in {1, 2} /\ request[r].phase = "wait"
  BY HistoryIs DEF FInv, Shape, Requested, Request, Return
<1>2. /\ Call(r) \in performed /\ told' = [told EXCEPT ![Call(r)] = "performed"]
      /\ UNCHANGED <<stage, reporter, performed, effective>>
  BY DEF Return, Control!Answer
<1>3. stage = "idle" \/ reporter # Call(r)
  BY <1>2 DEF FInv, Reporting
<1>4. "performed" \in CallStates
  BY DEF CallStates
<1>5. CASE request[r].code = "OK" /\ request[r].call < Last(r)
  <2>1. request' = [request EXCEPT ![r].phase = "ask", ![r].call = 2, ![r].code = "none"]
    BY <1>5 DEF Return, Last
  <2> DEFINE next == [request[r] EXCEPT !.phase = "ask", !.call = 2, !.code = "none"]
  <2>2. request[r] \in Request /\ "ask" \in Phases
    BY <1>1 DEF Requested, Phases
  <2>3. next \in Request
    BY <2>2, RequestIs, NoneIsCode
  <2>4. request' = [request EXCEPT ![r] = next]
    BY <2>1
  <2>5. /\ Requested' /\ Others(r) /\ Same(r)
        /\ request'[r].phase = "ask" /\ request'[r].call = 2
    BY <1>1, <2>2, <2>3, <2>4 DEF Requested, Others, Same, Request
  <2>6. Told(r, "performed")
    BY <1>1, <1>2, <1>3, <2>5 DEF Told
  <2>7. Last(r) = 2 /\ request[r].call = 1
    <3>1. Last(r) \in {1, 2}
      BY <1>4, <2>5, <2>6, ToldKeeps
    <3>2. QED
      BY <1>1, <1>5, <3>1
  <2>8. told[<<r, 2>>] = "idle" /\ told'[<<r, 2>>] = "idle" /\ told'[<<r, 1>>] = "performed"
    BY <1>1, <1>4, <2>5, <2>6, <2>7, ToldKeeps DEF Way, Orderly
  <2>9. Orderly(r)'
    BY <1>4, <2>5, <2>6, <2>7, <2>8, ToldKeeps DEF Orderly, Call
  <2>10. Effects(r)'
    BY <1>1, <1>2, <1>4, <2>5, <2>6, <2>7, <2>8, ToldKeeps DEF Way, Effects, Call
  <2>11. Answered(r)' /\ Over(r)' /\ Admitted(r)'
    BY <1>1, <2>5 DEF Way, Answered, Over, Admitted, Same, Grows
  <2>12. QED
    BY <1>4, <2>5, <2>6, <2>9, <2>10, <2>11, ToldKeeps DEF FInv, Way
<1>6. CASE ~(request[r].code = "OK" /\ request[r].call < Last(r))
  <2> DEFINE x == IF request[r].code = "OK" THEN Succeeded(r) ELSE Failed(r, request[r].code)
  <2>1. End(r, x)
    <3>1. CASE request[r].code = "OK"
      BY <1>6, <3>1 DEF Return, Last
    <3>2. CASE request[r].code # "OK"
      BY <3>2 DEF Return
    <3>3. QED
      BY <3>1, <3>2
  <2>2. Succeeded(r) \in {0, 200, 502}
    BY DEF Succeeded
  <2>3. x \in Results
    BY <2>1, <2>2, FailedIsResult DEF Results
  <2>4. /\ Requested' /\ Others(r) /\ Same(r)
        /\ request'[r].phase = "end" /\ request'[r].result = x /\ request'[r].call = request[r].call
    BY <1>1, <2>1, <2>3, EndIs
  <2>5. Told(r, "performed")
    BY <1>1, <1>2, <1>3, <2>4 DEF Told
  <2>6. \A n \in {1, 2} : told'[<<r, n>>] \in {"idle", "performed"}
    BY <1>1, <1>4, <2>4, <2>5, ToldKeeps DEF Way, Orderly
  <2>7. Orderly(r)'
    BY <1>1, <1>4, <2>4, <2>5, ToldKeeps DEF Way, Orderly
  <2>8. Effects(r)'
    BY <1>1, <1>2, <1>4, <2>4, <2>5, ToldKeeps DEF Way, Effects, Call
  <2>9. request[r].code = "OK" => request[r].call = Last(r)
    BY <1>1, <1>4, <1>6, <2>4, <2>5, ToldKeeps DEF Way, Orderly
  <2>10. Over(r)'
    <3>1. x \in {0, 200} => r \in effective
      BY <1>1, <1>2, <2>1, <2>9, FailedIsResult DEF Way, Answered
    <3>2. x \in {400, 401, 403, 404, 409, 415, 503} => r \notin effective
      BY <1>1, <1>2, <2>1, <2>2, FailedIsResult DEF Way, Answered
    <3>3. QED
      BY <1>2, <2>4, <2>6, <3>1, <3>2 DEF Over
  <2>11. Answered(r)' /\ Admitted(r)'
    BY <1>1, <2>4 DEF Way, Answered, Admitted, Same, Grows
  <2>12. QED
    BY <1>4, <2>4, <2>5, <2>7, <2>8, <2>10, <2>11, ToldKeeps DEF FInv, Way
<1>7. QED
  BY <1>5, <1>6

\* No error of the client's own, and no timeout, is taken for a refusal.
LEMMA GivenUpIsOpen ==
  ASSUME NEW r, NEW code \in UnknownCodes
  PROVE  Failed(r, code) \in {2, 502, 504}
<1>1. Listed(OperationStatus, code) \in {502, 504} /\ Listed(TargetStatus, code) \in {502, 504}
  BY DEF UnknownCodes, Listed, OperationStatus, TargetStatus
<1>2. QED
  BY <1>1 DEF Failed, HttpStatus, Exit

LEMMA RaiseKeeps ==
  ASSUME FInv, NEW r \in Requests, Raise(r), History
  PROVE  FInv'
<1>1. Requested /\ Way(r) /\ Grows /\ request[r].call \in {1, 2} /\ request[r].phase = "wait"
  BY HistoryIs DEF FInv, Shape, Requested, Request, Raise
<1>2. PICK v \in {"refused", "unknown"}, x \in {1, 2, 400, 404, 409, 502, 504} :
        /\ told' = [told EXCEPT ![Call(r)] = v] /\ UNCHANGED performed
        /\ End(r, x)
        /\ v = "refused" => Call(r) \notin performed /\ reporter # Call(r)
        /\ v = "unknown" => x \in {2, 502, 504}
  BY FailedIsResult, GivenUpIsOpen DEF Raise, Control!Refuse, Control!GiveUp
<1>3. x \in Results /\ v \in CallStates
  BY DEF Results, CallStates
<1>4. /\ Requested' /\ Others(r) /\ Same(r)
      /\ request'[r].phase = "end" /\ request'[r].result = x /\ request'[r].call = request[r].call
  BY <1>1, <1>2, <1>3, EndIs
<1>5. UNCHANGED <<stage, reporter, performed, effective>>
  BY <1>2 DEF Raise
<1>6. Told(r, v)
  BY <1>1, <1>2, <1>4, <1>5 DEF Told
<1>7. Orderly(r)'
  BY <1>1, <1>3, <1>4, <1>6, ToldKeeps DEF Way, Orderly
<1>8. told[Call(r)] = "waiting"
  BY <1>1 DEF Way, Orderly
<1>9. Effects(r)'
  BY <1>1, <1>2, <1>3, <1>4, <1>5, <1>6, ToldKeeps DEF Way, Effects, Call
<1>10. \A n \in {1, 2} : told'[<<r, n>>] \in {"idle", "performed", v}
  BY <1>1, <1>3, <1>4, <1>6, ToldKeeps DEF Way, Orderly
<1>11. v = "refused" => r \notin effective
  <2>1. request[r].call = Last(r) \/ (request[r].call = 1 /\ Last(r) = 2)
    BY <1>1, <1>3, <1>4, <1>6, ToldKeeps DEF Way, Orderly
  <2>2. v = "refused" => <<r, Last(r)>> \notin performed
    BY <1>1, <1>2, <2>1 DEF Way, Orderly, Effects, Call
  <2>3. QED
    BY <1>1, <2>2 DEF Way, Effects
<1>12. Over(r)'
  BY <1>2, <1>4, <1>5, <1>10, <1>11 DEF Over
<1>13. Answered(r)' /\ Admitted(r)'
  BY <1>1, <1>4 DEF Way, Answered, Admitted, Same, Grows
<1>14. Shape' /\ Reporting' /\ \A q \in Requests \ {r} : Way(q)'
  BY <1>3, <1>4, <1>6, ToldKeeps
<1>15. QED
  BY <1>7, <1>9, <1>12, <1>13, <1>14 DEF FInv, Way

\* A call that may still be performed is the one its request waits for, or gave
\* up; nothing has been done for that request yet.
LEMMA OpenCall ==
  ASSUME FInv, NEW r \in Requests, NEW n \in {1, 2},
         told[<<r, n>>] \in {"waiting", "unknown"}, <<r, n>> \notin performed
  PROVE  /\ request[r].phase \in {"wait", "end"} /\ Began(r)
         /\ Last(r) \in {1, 2} /\ n <= Last(r) /\ n = request[r].call
         /\ r \notin effective
<1>1. Requested /\ Way(r) /\ request[r].call \in {1, 2} /\ request[r].phase \in Phases
  BY DEF FInv, Shape, Requested, Request
<1>2. n = request[r].call
  BY <1>1 DEF Way, Orderly
<1>3. request[r].phase \in {"wait", "end"}
  BY <1>1, <1>2 DEF Way, Orderly, Call, Phases
<1>4. Began(r) /\ n <= Last(r)
  BY <1>1, <1>2, <1>3 DEF Way, Orderly
<1>5. Last(r) \in {1, 2}
  BY <1>4, CallsAre DEF Began, Last
<1>6. r \notin effective
  <2>1. n = 1 => told[<<r, 2>>] = "idle"
    BY <1>1, <1>2 DEF Way, Orderly
  <2>2. <<r, Last(r)>> \notin performed
    BY <1>1, <1>4, <1>5, <2>1 DEF Way, Effects
  <2>3. QED
    BY <1>1, <2>2 DEF Way, Effects
<1>7. QED
  BY <1>2, <1>3, <1>4, <1>5, <1>6

\* What every step has in common in which the daemon performs a call.
Performs(r, n, code, mode) ==
  /\ told[<<r, n>>] \in {"waiting", "unknown"} /\ <<r, n>> \notin performed
  /\ performed' = performed \union {<<r, n>>} /\ UNCHANGED told
  /\ AnswerTo(r, n, code, mode)
  /\ code # "none" /\ Grows
  /\ effective' \in {effective, effective \union {r}}
  /\ effective' # effective =>
       n = Last(r) /\ (code # "OK" => Failed(r, code) \notin {400, 404, 409})
  /\ code = "OK" /\ n = Last(r) => effective' = effective \union {r}
  /\ stage' = "idle" \/ (UNCHANGED <<stage, reporter>> /\ reporter # <<r, n>>)

LEMMA PerformsKeeps ==
  ASSUME FInv, NEW r \in Requests, NEW n \in {1, 2},
         NEW code \in Codes, NEW mode \in GatewayModes \union {None}, Performs(r, n, code, mode)
  PROVE  FInv'
<1>1. Requested /\ Way(r) /\ request[r].call \in {1, 2}
  BY DEF FInv, Shape, Requested, Request
<1>2. /\ request[r].phase \in {"wait", "end"} /\ Began(r)
      /\ Last(r) \in {1, 2} /\ n <= Last(r) /\ n = request[r].call /\ r \notin effective
  <2>1. told[<<r, n>>] \in {"waiting", "unknown"} /\ <<r, n>> \notin performed
    BY DEF Performs
  <2>2. QED
    BY <2>1, OpenCall
<1>3. /\ Requested' /\ Others(r) /\ Same(r)
      /\ UNCHANGED <<request[r].phase, request[r].call, request[r].result>>
      /\ request[r].phase = "wait" => request'[r].code = code
  BY <1>1, <1>2, AnswerToIs DEF Performs
<1>4. Last(r)' = Last(r) /\ Call(r)' = Call(r) /\ Began(r)' /\ Call(r) = <<r, n>>
  BY <1>2, <1>3 DEF Last, Call, Same, Began
<1>5. Shape'
  BY <1>3 DEF Performs, FInv, Shape, AllCalls
<1>6. Reporting'
  <2>1. SUFFICES ASSUME UNCHANGED <<stage, reporter>>, reporter # <<r, n>>, stage # "idle" PROVE Reporting'
    BY DEF Performs, Reporting
  <2>2. PICK q \in Requests :
          /\ reporter = <<q, 1>> /\ <<q, 1>> \notin performed
          /\ request[q].phase # "idle" /\ request[q].kind \in {"status", "status_v1"}
          /\ told[<<q, 1>>] \in {"waiting", "unknown"}
    BY <2>1 DEF FInv, Reporting
  <2>3. request'[q].phase # "idle" /\ request'[q].kind = request[q].kind
    BY <1>2, <1>3, <2>2 DEF Others, Same
  <2>4. <<q, 1>> \notin performed' /\ told'[<<q, 1>>] \in {"waiting", "unknown"}
    BY <2>1, <2>2 DEF Performs
  <2>5. QED
    BY <2>1, <2>2, <2>3, <2>4 DEF Reporting
<1>7. \A q \in Requests \ {r} : Way(q)'
  <2>1. \A q \in Requests \ {r}, k \in {1, 2} :
          /\ told'[<<q, k>>] = told[<<q, k>>]
          /\ <<q, k>> \in performed' <=> <<q, k>> \in performed
    BY DEF Performs
  <2>2. \A q \in Requests \ {r} : q \in effective' <=> q \in effective
    BY DEF Performs
  <2>3. QED
    BY <1>3, <2>1, <2>2, OthersKeep DEF Performs
<1>8. Orderly(r)'
  BY <1>1, <1>2, <1>3, <1>4 DEF Performs, Way, Orderly, Same
<1>9. Effects(r)'
  BY <1>1, <1>2, <1>3, <1>4 DEF Performs, Way, Effects
<1>10. Answered(r)'
  <2>1. Failed(r, code)' = Failed(r, code)
    BY <1>3 DEF Failed, Same
  <2>2. QED
    BY <1>2, <1>3, <1>4, <2>1 DEF Performs, Answered
<1>11. Over(r)'
  BY <1>1, <1>2, <1>3 DEF Performs, Way, Over, Orderly
<1>12. Admitted(r)'
  BY <1>1, <1>3 DEF Performs, Way, Admitted, Same, Grows
<1>13. QED
  BY <1>5, <1>6, <1>7, <1>8, <1>9, <1>10, <1>11, <1>12 DEF FInv, Way

\* What the calls of an open request are.
LEMMA OpenOp ==
  ASSUME FInv, NEW r \in Requests, NEW n \in {1, 2},
         told[<<r, n>>] \in {"waiting", "unknown"}, <<r, n>> \notin performed
  PROVE  /\ Op(r, n) = "OPERATE" => n = Last(r) /\ request[r].kind = "operate"
         /\ Op(r, n) = "STATUS" <=> request[r].kind \in {"status", "status_v1"}
         /\ Op(r, n) = "STATUS" => n = 1 /\ Last(r) = 1
<1>1. Began(r) /\ Last(r) \in {1, 2} /\ n \in 1 .. Last(r)
  <2>1. Began(r) /\ Last(r) \in {1, 2} /\ n <= Last(r)
    BY OpenCall
  <2>2. QED
    BY <2>1
<1>2. /\ Op(r, n) = "OPERATE" => n = Last(r) /\ request[r].kind = "operate"
      /\ Op(r, n) = "STATUS" => n = 1 /\ Last(r) = 1 /\ request[r].kind \in {"status", "status_v1"}
  BY <1>1, CallsAre DEF Began, Last, Op
<1>3. request[r].kind \in {"status", "status_v1"} => Op(r, n) = "STATUS"
  BY <1>1 DEF Last, Op, CallsOf
<1>4. QED
  BY <1>2, <1>3

LEMMA NotReported ==
  ASSUME FInv, NEW r \in Requests, NEW n \in {1, 2}, stage # "idle", reporter = <<r, n>>
  PROVE  request[r].kind \in {"status", "status_v1"}
BY DEF FInv, Reporting

\* A failed operation is answered by a status that leaves it open.
LEMMA FailureIsOpen ==
  ASSUME NEW r, NEW code \in Failures, request[r].kind = "operate"
  PROVE  Failed(r, code) \notin {400, 404, 409}
<1>1. Listed(OperationStatus, code) \in {502, 504}
  BY DEF Failures, Listed, OperationStatus
<1>2. QED
  BY <1>1 DEF Failed, HttpStatus, Exit

LEMMA OperateKeeps ==
  ASSUME FInv, NEW r \in Requests, NEW n \in {1, 2}, Operate(r, n), History
  PROVE  FInv'
<1>1. /\ told[<<r, n>>] \in {"waiting", "unknown"} /\ <<r, n>> \notin performed
      /\ performed' = performed \union {<<r, n>>} /\ UNCHANGED told
      /\ Op(r, n) = "OPERATE" /\ UNCHANGED <<stage, reporter>> /\ Grows
  BY HistoryIs DEF Operate, Control!Perform
<1>2. /\ n = Last(r) /\ request[r].kind = "operate"
      /\ stage = "idle" \/ reporter # <<r, n>>
  BY <1>1, OpenOp, NotReported
<1>3. CASE \E code \in Refusals("OPERATE") : AnswerTo(r, n, code, None) /\ UNCHANGED effective
  <2>1. PICK code \in Refusals("OPERATE") : AnswerTo(r, n, code, None) /\ UNCHANGED effective
    BY <1>3
  <2>2. code \in Codes /\ code # "none" /\ code # "OK"
    BY CodesAreCodes DEF Refusals
  <2>3. Performs(r, n, code, None)
    BY <1>1, <1>2, <2>1, <2>2 DEF Performs
  <2>4. QED
    BY <2>2, <2>3, PerformsKeeps
<1>4. CASE \E code \in Failures :
             AnswerTo(r, n, code, None) /\ effective' = effective \union {r}
  <2>1. PICK code \in Failures : AnswerTo(r, n, code, None) /\ effective' = effective \union {r}
    BY <1>4
  <2>2. code \in Codes /\ code # "none" /\ code # "OK" /\ Failed(r, code) \notin {400, 404, 409}
    BY <1>2, CodesAreCodes, FailureIsOpen DEF Failures
  <2>3. Performs(r, n, code, None)
    BY <1>1, <1>2, <2>1, <2>2 DEF Performs
  <2>4. QED
    BY <2>2, <2>3, PerformsKeeps
<1>5. CASE \E shown \in Shown(killswitch') :
             AnswerTo(r, n, "OK", ModeOf(tunnel', shown)) /\ effective' = effective \union {r}
  <2>1. PICK shown \in Shown(killswitch') :
          AnswerTo(r, n, "OK", ModeOf(tunnel', shown)) /\ effective' = effective \union {r}
    BY <1>5
  <2>2. ModeOf(tunnel', shown) \in GatewayModes
    BY DEF ModeOf, GatewayModes
  <2>3. Performs(r, n, "OK", ModeOf(tunnel', shown))
    BY <1>1, <1>2, <2>1 DEF Performs
  <2>4. "OK" \in Codes
    BY CodesAreCodes
  <2>5. QED
    BY <2>2, <2>3, <2>4, PerformsKeeps
<1>6. QED
  BY <1>3, <1>4, <1>5 DEF Operate

LEMMA ServeKeeps ==
  ASSUME FInv, NEW r \in Requests, NEW n \in {1, 2}, Serve(r, n), History
  PROVE  FInv'
<1>1. /\ told[<<r, n>>] \in {"waiting", "unknown"} /\ <<r, n>> \notin performed
      /\ performed' = performed \union {<<r, n>>} /\ UNCHANGED told
      /\ Op(r, n) \in {"TARGETS", "READ", "REPLACE"} /\ UNCHANGED <<stage, reporter>> /\ Grows
  BY HistoryIs DEF Serve, Control!Perform
<1>2. stage = "idle" \/ reporter # <<r, n>>
  BY <1>1, OpenOp, NotReported
<1>3. CASE \E code \in Refusals(Op(r, n)) : AnswerTo(r, n, code, None) /\ UNCHANGED effective
  <2>1. PICK code \in Refusals(Op(r, n)) : AnswerTo(r, n, code, None) /\ UNCHANGED effective
    BY <1>3
  <2>2. code \in Codes
    BY CodesAreCodes
  <2>3. code # "none" /\ code # "OK"
    <3>1. \A k, f, c : DiscoveryCode(k, f, c) # "none"
      BY DEF DiscoveryCode, AdapterCode
    <3>2. code \in Refusals("READ") => code # "none" /\ code # "OK"
      BY <3>1 DEF Refusals, DiscoveryCodes, Failures
    <3>3. QED
      BY <1>1, <3>2 DEF Refusals
  <2>4. Performs(r, n, code, None)
    BY <1>1, <1>2, <2>1, <2>3 DEF Performs
  <2>5. QED
    BY <2>2, <2>4, PerformsKeeps
<1>4. CASE AnswerTo(r, n, "OK", None)
           /\ effective' = IF n = Last(r) THEN effective \union {r} ELSE effective
  <2>1. Performs(r, n, "OK", None)
    BY <1>1, <1>2, <1>4 DEF Performs
  <2>2. "OK" \in Codes
    BY CodesAreCodes
  <2>3. QED
    BY <2>1, <2>2, PerformsKeeps
<1>5. QED
  BY <1>3, <1>4 DEF Serve, Last

LEMMA BeginReportKeeps ==
  ASSUME FInv, NEW r \in Requests, BeginReport(r), History
  PROVE  FInv'
<1>1. /\ request[r].phase = "wait" /\ Op(r, request[r].call) = "STATUS"
      /\ Call(r) \notin performed /\ reporter' = Call(r) /\ stage' = "vpn"
      /\ UNCHANGED <<request, told, performed, effective>> /\ Grows
  BY HistoryIs DEF BeginReport, callVars
<1>2. request[r].call \in {1, 2} /\ told[<<r, request[r].call>>] = "waiting"
  BY <1>1 DEF FInv, Shape, Requested, Request, Way, Orderly, Call
<1>3. request[r].call = 1 /\ request[r].kind \in {"status", "status_v1"}
  BY <1>1, <1>2, OpenOp DEF Call
<1>4. Reporting'
  BY <1>1, <1>2, <1>3 DEF Reporting, Call
<1>5. Shape' /\ Others(r)
  BY <1>1 DEF FInv, Shape, Requested, Others
<1>6. \A q \in Requests \ {r} : Way(q)'
  BY <1>1, <1>5, OthersKeep
<1>7. Way(r)'
  BY <1>1, <1>2, WayKeeps DEF FInv, Grows
<1>8. QED
  BY <1>4, <1>5, <1>6, <1>7 DEF FInv

LEMMA EndReportKeeps ==
  ASSUME FInv, CollectionTypeOK, EndReport, History
  PROVE  FInv'
<1>1. PICK r \in Requests :
        /\ reporter = <<r, 1>> /\ <<r, 1>> \notin performed
        /\ request[r].phase # "idle" /\ request[r].kind \in {"status", "status_v1"}
        /\ told[<<r, 1>>] \in {"waiting", "unknown"}
  BY DEF FInv, Reporting, EndReport
<1> DEFINE code == IF stage = "done" THEN "OK" ELSE "INTERNAL_ERROR"
<1>2. /\ performed' = performed \union {<<r, 1>>} /\ UNCHANGED told
      /\ AnswerTo(r, 1, code, report.mode)
      /\ effective' = IF stage = "done" THEN effective \union {r} ELSE effective
      /\ stage' = "idle" /\ Grows
  BY <1>1, HistoryIs DEF EndReport, Control!Perform
<1>3. Last(r) = 1
  BY <1>1, OpenOp
<1>4. code \in Codes /\ code # "none" /\ Failed(r, "INTERNAL_ERROR") \notin {400, 404, 409}
  <2>1. Failed(r, "INTERNAL_ERROR") \in {1, 502}
    BY <1>1 DEF Failed, HttpStatus, Exit, UnknownCodes
  <2>2. QED
    BY <2>1, CodesAreCodes DEF Failures
<1>5. report.mode \in GatewayModes \union {None}
  BY DEF CollectionTypeOK, Report
<1>6. Performs(r, 1, code, report.mode)
  BY <1>1, <1>2, <1>3, <1>4 DEF Performs
<1>7. QED
  BY <1>4, <1>5, <1>6, PerformsKeeps

LEMMA AsideKeeps ==
  ASSUME FInv, UNCHANGED <<request, told, performed, effective>>, Grows,
         stage' = "idle" \/ (UNCHANGED reporter /\ (stage' # "idle" => stage # "idle"))
  PROVE  FInv'
<1>1. Shape' /\ Reporting'
  BY DEF FInv, Shape, Requested, Reporting
<1>2. ASSUME NEW q \in Requests PROVE Way(q)'
  <2>1. request[q].call \in {1, 2} /\ Way(q)
    BY DEF FInv, Shape, Requested, Request
  <2>2. QED
    BY <2>1, WayKeeps DEF Grows
<1>3. QED
  BY <1>1, <1>2 DEF FInv

Inv == GInv /\ FInv

\* What the front ends do leaves gateway and report alone.
LEMMA FrontEndKeeps ==
  ASSUME Inv, UNCHANGED <<providerVars, stage, report>>, Watch
  PROVE  GInv'
BY GatewayMovesKeep DEF Inv, GInv, ProviderTypeOK, providerVars

LEMMA InvStep ==
  ASSUME Inv, [Next]_vars
  PROVE  Inv'
<1>1. CASE UNCHANGED vars
  <2>1. FInv'
    BY <1>1, AsideKeeps DEF Inv, vars, callVars, collection, Grows
  <2>2. GInv'
    BY <1>1 DEF Inv, vars, providerVars, collection, GInv, ProviderTypeOK, CollectionTypeOK,
       SoFar, Explained, Settled, Exposed, HasAddress
  <2>3. QED
    BY <2>1, <2>2 DEF Inv
<1>2. ASSUME NEW r \in Requests, Arrive(r) \/ FrontEnd(r), History
      PROVE  Inv'
  <2>1. UNCHANGED <<providerVars, stage, report>>
    BY <1>2 DEF Arrive, FrontEnd, GetRuntime, Authenticate, Ask, Return, Raise
  <2>2. GInv'
    BY <1>2, <2>1, FrontEndKeeps DEF History
  <2>3. FInv'
    BY <1>2, ArriveIsQuiet, EntryIsQuiet, QuietKeeps, AskKeeps, ReturnKeeps, RaiseKeeps DEF Inv, FrontEnd
  <2>4. QED
    BY <2>2, <2>3 DEF Inv
<1>3. ASSUME NEW r \in Requests, BeginReport(r), History
      PROVE  Inv'
  <2>1. GInv'
    <3>1. NoReport \in Report /\ "vpn" \in Stages
      BY DEF NoReport, Report, Stages
    <3>2. still' \in BOOLEAN
      BY <1>3 DEF History, Watch
    <3>3. stage' = "vpn" /\ report' = NoReport /\ ProviderTypeOK'
      BY <1>3 DEF BeginReport, providerVars, Inv, GInv, ProviderTypeOK
    <3>4. SoFar' /\ Explained'
      BY <3>3, NoneIsNoReading DEF SoFar, Explained, NoReport, Settled, HasAddress
    <3>5. QED
      BY <3>1, <3>2, <3>3, <3>4 DEF GInv, CollectionTypeOK
  <2>2. QED
    BY <1>3, <2>1, BeginReportKeeps DEF Inv
<1>4. ASSUME NEW r \in Requests, NEW n \in {1, 2}, Operate(r, n) \/ Serve(r, n), History
      PROVE  Inv'
  <2>1. ProviderTypeOK'
    BY <1>4 DEF Operate, Serve, ProviderOperated, providerVars, Inv, GInv, ProviderTypeOK
  <2>2. UNCHANGED <<stage, report>>
    BY <1>4 DEF Operate, Serve
  <2>3. GInv'
    BY <1>4, <2>1, <2>2, GatewayMovesKeep DEF Inv, History
  <2>4. QED
    BY <1>4, <2>3, OperateKeeps, ServeKeeps DEF Inv
<1>5. CASE Reading /\ History
  <2>1. stage' # "idle" => stage # "idle"
    BY <1>5 DEF Reading, Collect, ReadVpn, ReadSettings, ReadAddress, ReadDns, ReadSystem
  <2>2. UNCHANGED <<request, told, performed, effective, reporter>> /\ Grows
    BY <1>5, HistoryIs DEF Reading, callVars
  <2>3. QED
    BY <1>5, <2>1, <2>2, AsideKeeps, CollectKeeps DEF Inv, Reading, History
<1>6. CASE EndReport /\ History
  <2>1. GInv'
    <3>1. NoReport \in Report /\ "idle" \in Stages
      BY DEF NoReport, Report, Stages
    <3>2. still' \in BOOLEAN
      BY <1>6 DEF History, Watch
    <3>3. stage' = "idle" /\ report' = NoReport /\ ProviderTypeOK'
      BY <1>6 DEF EndReport, providerVars, Inv, GInv, ProviderTypeOK
    <3>4. SoFar' /\ Explained'
      BY <3>3, NoneIsNoReading DEF SoFar, Explained, NoReport, Settled, HasAddress
    <3>5. QED
      BY <3>1, <3>2, <3>3, <3>4 DEF GInv, CollectionTypeOK
  <2>2. QED
    BY <1>6, <2>1, EndReportKeeps DEF Inv, GInv
<1>7. CASE (GatewayMoves \/ Administer) /\ History
  <2>1. ProviderTypeOK'
    BY <1>7 DEF GatewayMoves, TunnelMoves, DownTo, Administer, providerVars, Inv, GInv, ProviderTypeOK,
       TunnelStates
  <2>2. UNCHANGED <<stage, report, request, told, performed, effective, reporter>> /\ Grows
    BY <1>7, HistoryIs DEF GatewayMoves, Administer, callVars
  <2>3. QED
    BY <1>7, <2>1, <2>2, AsideKeeps, GatewayMovesKeep DEF Inv, History
<1>8. QED
  BY <1>1, <1>2, <1>3, <1>4, <1>5, <1>6, <1>7 DEF Next

-----------------------------------------------------------------------------
(* A request as one call *)

KnownMap == [r \in Requests |-> Known(r)]

LEMMA KnownIs ==
  ASSUME Requested, NEW r \in Requests
  PROVE  /\ request[r].phase = "idle" => Known(r) = "idle"
         /\ request[r].phase \in Phases \ {"idle", "end"} => Known(r) = "waiting"
         /\ request[r].phase = "end" =>
              /\ request[r].result \in {0, 200} => Known(r) = "performed"
              /\ request[r].result \in {400, 401, 403, 404, 409, 415, 503} => Known(r) = "refused"
              /\ request[r].result \in {1, 2, 502, 504} => Known(r) = "unknown"
BY DEF Known, Says

LEMMA KnownSame ==
  ASSUME NEW q \in Requests, UNCHANGED <<request[q].phase, request[q].result>>
  PROVE  Known(q)' = Known(q)
BY DEF Known, Says

\* A front end tells its user something.
LEMMA FrontEndMaps ==
  ASSUME Inv, Inv', NEW r \in Requests, Others(r), UNCHANGED effective,
         request[r].phase # "end", request'[r].phase # "idle",
         request[r].phase = "idle" /\ request'[r].phase = "end" => request'[r].result = 400
  PROVE  [HttpCall!Next]_(HttpCall!vars)
<1>1. Requested /\ Requested' /\ Way(r)' /\ request[r].phase \in Phases
      /\ request'[r].phase \in Phases /\ request'[r].result \in Results
  BY DEF Inv, FInv, Shape, Requested, Request
<1>2. \A q \in Requests \ {r} : Known(q)' = Known(q)
  BY KnownSame DEF Others
<1>3. KnownMap' = [KnownMap EXCEPT ![r] = Known(r)']
  <2>1. ASSUME NEW q \in Requests PROVE Known(q)' = IF q = r THEN Known(r)' ELSE KnownMap[q]
    BY <1>2 DEF KnownMap
  <2>2. KnownMap' = [q \in Requests |-> IF q = r THEN Known(r)' ELSE KnownMap[q]]
    BY <2>1 DEF KnownMap
  <2>3. DOMAIN KnownMap = Requests
    BY DEF KnownMap
  <2>4. QED
    BY <2>2, <2>3
<1>4. CASE Known(r)' = Known(r)
  <2>1. KnownMap' = KnownMap
    BY <1>2, <1>4 DEF KnownMap
  <2>2. QED
    BY <2>1 DEF HttpCall!vars, KnownMap
<1>5. CASE Known(r)' # Known(r)
  <2>1. /\ request'[r].phase = "end" => Known(r)' \in {"performed", "refused", "unknown"}
        /\ request'[r].phase # "end" => Known(r)' = "waiting"
        /\ request[r].phase = "idle" => Known(r) = "idle"
        /\ request[r].phase # "idle" => Known(r) = "waiting"
    BY <1>1, KnownIs DEF Known, Says, Phases, Results
  <2>2. /\ Known(r)' = "performed" => r \in effective
        /\ Known(r)' = "refused" => r \notin effective
    BY <1>1, <2>1 DEF Way, Over, Known, Says, Phases, Results
  <2>3. \/ Known(r) = "idle" /\ Known(r)' \in {"waiting", "refused"}
        \/ Known(r) = "waiting" /\ Known(r)' \in {"performed", "refused", "unknown"}
    <3>1. request[r].phase = "idle" /\ request'[r].phase = "end" => Known(r)' = "refused"
      BY DEF Known, Says
    <3>2. QED
      BY <1>5, <2>1, <3>1
  <2>4. KnownMap[r] = Known(r)
    BY DEF KnownMap
  <2>5. HttpCall!Ask(r) \/ HttpCall!Answer(r) \/ HttpCall!Refuse(r) \/ HttpCall!GiveUp(r)
    BY <1>3, <2>2, <2>3, <2>4 DEF KnownMap, HttpCall!Ask, HttpCall!Answer, HttpCall!Refuse, HttpCall!GiveUp
  <2>6. QED
    BY <2>5 DEF HttpCall!Next
<1>6. QED
  BY <1>4, <1>5

LEMMA AnswerToKnown ==
  ASSUME Requested, NEW r \in Requests, NEW n, NEW c, NEW m, AnswerTo(r, n, c, m)
  PROVE  KnownMap' = KnownMap
<1>1. \A q \in Requests : UNCHANGED <<request[q].phase, request[q].result>>
  BY DEF AnswerTo, Requested, Request
<1>2. QED
  BY <1>1, KnownSame DEF KnownMap

\* The daemon does something for a user.
LEMMA PerformMaps ==
  ASSUME Inv, NEW r \in Requests, NEW n \in {1, 2},
         told[<<r, n>>] \in {"waiting", "unknown"}, <<r, n>> \notin performed,
         KnownMap' = KnownMap, effective' \in {effective, effective \union {r}}
  PROVE  [HttpCall!Next]_(HttpCall!vars)
<1>1. /\ request[r].phase \in {"wait", "end"} /\ n = request[r].call /\ r \notin effective
      /\ Way(r) /\ Requested /\ request[r].result \in Results
  BY OpenCall DEF Inv, FInv, Shape, Requested, Request
<1>2. Known(r) \in {"waiting", "unknown"}
  BY <1>1, KnownIs DEF Way, Over, Results, Phases
<1>3. KnownMap[r] = Known(r)
  BY DEF KnownMap
<1>4. CASE effective' = effective
  BY <1>4 DEF HttpCall!vars, KnownMap
<1>5. CASE effective' = effective \union {r}
  <2>1. HttpCall!Perform(r)
    BY <1>1, <1>2, <1>3, <1>5 DEF HttpCall!Perform, KnownMap
  <2>2. QED
    BY <2>1 DEF HttpCall!Next
<1>6. QED
  BY <1>4, <1>5

LEMMA StepMaps ==
  ASSUME Inv, [Next]_vars
  PROVE  [HttpCall!Next]_(HttpCall!vars)
<1>1. Inv' /\ Requested
  BY InvStep DEF Inv, FInv, Shape
<1>2. ASSUME UNCHANGED <<request, effective>> PROVE [HttpCall!Next]_(HttpCall!vars)
  <2>1. KnownMap' = KnownMap
    BY <1>2, KnownSame DEF KnownMap
  <2>2. QED
    BY <1>2, <2>1 DEF HttpCall!vars, KnownMap
<1>3. ASSUME NEW r \in Requests, Arrive(r) \/ FrontEnd(r), History
      PROVE  [HttpCall!Next]_(HttpCall!vars)
  <2>1. CASE Arrive(r) \/ GetRuntime(r) \/ Authenticate(r)
    <3>1. Quiet(r)
      BY <1>3, <2>1, ArriveIsQuiet, EntryIsQuiet DEF Inv
    <3>2. QED
      BY <1>1, <3>1, FrontEndMaps DEF Quiet
  <2>2. CASE Ask(r) \/ Return(r) \/ Raise(r)
    <3>1. /\ request[r].phase \in {"ask", "wait"} /\ UNCHANGED effective
      BY <2>2 DEF Ask, Return, Raise
    <3>2. Others(r)
      BY <1>1, <2>2 DEF Ask, Return, Raise, GoTo, End, Requested, Others
    <3>3. request'[r].phase # "idle"
      <4>1. \/ GoTo(r, "wait") \/ \E x : End(r, x)
            \/ request' = [request EXCEPT ![r].phase = "ask", ![r].call = 2, ![r].code = "none"]
        BY <2>2 DEF Ask, Return, Raise
      <4>2. request[r] \in Request
        BY <1>1 DEF Requested
      <4>3. ASSUME NEW x PROVE End(r, x) => request'[r].phase = "end"
        BY <1>1, <4>2, RequestIs DEF End, Requested
      <4>4. GoTo(r, "wait") => request'[r].phase = "wait"
        BY <1>1, <4>2, RequestIs DEF GoTo, Requested
      <4>5. request' = [request EXCEPT ![r].phase = "ask", ![r].call = 2, ![r].code = "none"]
            => request'[r].phase = "ask"
        BY <1>1, <4>2, RequestIs DEF Requested
      <4>6. QED
        BY <4>1, <4>3, <4>4, <4>5
    <3>4. QED
      BY <1>1, <3>1, <3>2, <3>3, FrontEndMaps
  <2>3. QED
    BY <1>3, <2>1, <2>2 DEF FrontEnd
<1>4. ASSUME NEW r \in Requests, NEW n \in {1, 2}, Operate(r, n) \/ Serve(r, n)
      PROVE  [HttpCall!Next]_(HttpCall!vars)
  <2>1. told[<<r, n>>] \in {"waiting", "unknown"} /\ <<r, n>> \notin performed
    BY <1>4 DEF Operate, Serve, Control!Perform
  <2>2. effective' \in {effective, effective \union {r}}
    BY <1>4 DEF Operate, Serve
  <2>3. \E c, m : AnswerTo(r, n, c, m)
    BY <1>4 DEF Operate, Serve
  <2>4. QED
    BY <1>1, <2>1, <2>2, <2>3, AnswerToKnown, PerformMaps
<1>5. CASE EndReport
  <2>1. PICK r \in Requests :
          reporter = <<r, 1>> /\ <<r, 1>> \notin performed /\ told[<<r, 1>>] \in {"waiting", "unknown"}
    BY <1>5 DEF Inv, FInv, Reporting, EndReport
  <2>2. AnswerTo(r, 1, IF stage = "done" THEN "OK" ELSE "INTERNAL_ERROR", report.mode)
    BY <1>5, <2>1 DEF EndReport
  <2>3. effective' \in {effective, effective \union {r}}
    BY <1>5, <2>1 DEF EndReport
  <2>4. QED
    BY <1>1, <2>1, <2>2, <2>3, AnswerToKnown, PerformMaps
<1>6. ASSUME NEW r \in Requests, BeginReport(r) PROVE [HttpCall!Next]_(HttpCall!vars)
  BY <1>2, <1>6 DEF BeginReport, callVars
<1>7. CASE Reading \/ GatewayMoves \/ Administer \/ UNCHANGED vars
  BY <1>2, <1>7 DEF Reading, GatewayMoves, Administer, vars, callVars
<1>8. QED
  BY <1>3, <1>4, <1>5, <1>6, <1>7 DEF Next

-----------------------------------------------------------------------------
(* The theorems *)

LEMMA InvInit == Init => Inv
<1> SUFFICES ASSUME Init PROVE Inv
  OBVIOUS
<1>1. GInv
  <2>1. NoReport \in Report
    BY DEF NoReport, Report
  <2>2. QED
    BY <2>1 DEF Init, ProviderInit, CollectionInit, GInv, ProviderTypeOK, CollectionTypeOK, TunnelStates,
       Toggle, Stages, SoFar, Explained, Settled, NoReport, HasAddress
<1>2. Idle \in Request /\ Idle.phase = "idle" /\ Idle.call = 1
  <2>1. "idle" \in Phases /\ 0 \in Results /\ "good" \in Forms
    BY DEF Phases, Results, Forms
  <2>2. QED
    BY <2>1, RequestIs, NoneIsCode DEF Idle
<1>3. Shape /\ Reporting
  BY <1>2 DEF Init, CollectionInit, Shape, Requested, Reporting, CallStates
<1>4. ASSUME NEW r \in Requests PROVE Way(r)
  <2>1. request[r] = Idle /\ \A n \in {1, 2} : told[<<r, n>>] = "idle"
    BY DEF Init, AllCalls
  <2>2. performed = {} /\ effective = {}
    BY DEF Init
  <2>3. request[r].front = "none"
    BY <2>1 DEF Idle
  <2>4. QED
    BY <1>2, <2>1, <2>2, <2>3 DEF Way, Orderly, Effects, Answered, Over, Admitted
<1>5. QED
  BY <1>1, <1>3, <1>4 DEF Inv, FInv

\* A report whose readings were taken while the gateway stood still is true,
\* whichever readings fail (status.py, daemon.py).
THEOREM ReportsAreTrue == Spec => []StillReportTrue
<1>1. Inv => StillReportTrue
  BY DEF Inv, GInv, SoFar, Settled, StillReportTrue, HasAddress
<1>2. Inv /\ [Next]_vars => Inv'
  BY InvStep
<1>3. QED
  BY <1>1, <1>2, InvInit, PTL DEF Spec

\* Nothing is missing from a report without a reason in it (status.py).
THEOREM AbsencesAreExplained == Spec => []AbsenceExplained
<1>1. Inv => AbsenceExplained
  BY DEF Inv, GInv, Explained, Settled, AbsenceExplained, Components
<1>2. Inv /\ [Next]_vars => Inv'
  BY InvStep
<1>3. QED
  BY <1>1, <1>2, InvInit, PTL DEF Spec

\* The configuration read once and the auth file read per request: nobody gets
\* anything done whom that file did not name meanwhile (main.py, auth.py).
THEOREM AdmissionIsFresh == Spec => []NoStaleAdmission
<1>1. Inv => NoStaleAdmission
  <2> SUFFICES ASSUME Inv, NEW r \in effective, request[r].front = "web" PROVE r \in vouched
    BY DEF NoStaleAdmission
  <2>1. Shape /\ Way(r) /\ r \in Requests
    BY DEF Inv, FInv, Shape
  <2>2. Last(r) \in {1, 2} /\ <<r, Last(r)>> \in performed
    BY <2>1, CallsAre DEF Way, Effects, Orderly, Began, Last
  <2>3. told[<<r, Last(r)>>] # "idle"
    BY <2>1, <2>2 DEF Way, Effects
  <2>4. QED
    BY <2>1, <2>2, <2>3 DEF Way, Admitted
<1>2. Inv /\ [Next]_vars => Inv'
  BY InvStep
<1>3. QED
  BY <1>1, <1>2, InvInit, PTL DEF Spec

\* An HTTP status or exit code tells a user of his request what ControlClient
\* is told of its call: FrontEnds implements RemoteCall (main.py, cli.py).
THEOREM StatusesAreAnswers == Spec => AnswersMeanWhatTheySay
<1>1. Init => HttpCall!Init
  <2> SUFFICES ASSUME Init PROVE HttpCall!Init
    OBVIOUS
  <2>1. \A r \in Requests : request[r].phase = "idle"
    BY DEF Init, Idle
  <2>2. \A r \in Requests : Known(r) = "idle"
    BY <2>1 DEF Known
  <2>3. QED
    BY <2>2 DEF Init, HttpCall!Init
<1>2. Inv /\ [Next]_vars => Inv'
  BY InvStep
<1>3. Inv /\ [Next]_vars => [HttpCall!Next]_(HttpCall!vars)
  BY StepMaps
<1>4. QED
  BY <1>1, <1>2, <1>3, InvInit, PTL DEF Spec, AnswersMeanWhatTheySay, HttpCall!Spec
=============================================================================
