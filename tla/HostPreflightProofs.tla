------------------------ MODULE HostPreflightProofs ------------------------
(***************************************************************************)
(* Proofs about NordVpnSetup, for any set of policies, and about            *)
(* HostPreflight, which runs around it, for any documents, networks and     *)
(* faults of a host, and any number of changes while the checks are made.   *)
(***************************************************************************)
EXTENDS HostPreflight, TLAPS

-----------------------------------------------------------------------------
(* The setup script alone, for any set of policies.                         *)
(*                                                                          *)
(* The inductive invariant: what each command of the plan has left behind.  *)
(* Nothing takes an exception away, or turns auto-connect on, while the     *)
(* script runs, so a command that was accepted stays in effect.             *)

PlanHolds ==
  policy # None =>
    /\ step > 0 => nord.nordlynx
    /\ step > 1 => ~nord.autoconnect
    /\ step > 2 => policy \in nord.ports
    /\ step > 3 => policy \in nord.subnets
    /\ step > 4 /\ ~fault => nord.killswitch

PInv == TypeOK /\ PlanHolds /\ ErrorHasCause

LEMMA PlanSteps ==
  /\ Len(Plan) = 5
  /\ Plan[1] = "nordlynx" /\ Plan[2] = "autoconnect" /\ Plan[3] = "port"
  /\ Plan[4] = "subnet" /\ Plan[5] = "killswitch"
BY DEF Plan

LEMMA InitPInv == Init => PInv
<1>. SUFFICES ASSUME Init PROVE PInv
  OBVIOUS
<1>1. nord \in Settings
  BY DEF Init, Settings
<1>2. TypeOK
  <2>1. fault \in BOOLEAN
    BY DEF Init
  <2>2. /\ document \in Policies /\ policy \in Policies \union {None} /\ step \in 0 .. 5
        /\ verdict \in {"none", "VERIFIED", "ERROR"} /\ policy = None
    BY DEF Init
  <2>. QED BY <1>1, <2>1, <2>2 DEF TypeOK
<1>3. PlanHolds /\ ErrorHasCause
  BY DEF Init, PlanHolds, ErrorHasCause
<1>. QED BY <1>2, <1>3 DEF PInv

\* A command that runs without an error: the next step, with its effect.
LEMMA CommandStep ==
  ASSUME PInv, Command
  PROVE  \/ /\ nord' \in Settings /\ End("ERROR") /\ fault' = TRUE
            /\ UNCHANGED document
         \/ /\ step \in 0 .. 4 /\ nord' = Effect(Plan[step + 1])
            /\ step' = step + 1 /\ fault' = fault
            /\ UNCHANGED <<document, policy, verdict>>
<1>1. step \in 0 .. 4 /\ policy # None
  BY PlanSteps DEF PInv, TypeOK, Command
<1>2. PICK result \in Results(Plan[step + 1]) :
        /\ \/ nord' = Effect(Plan[step + 1])
           \/ result = "failed" /\ nord' = nord
        /\ fault' = (fault \/ result = "failed")
        /\ IF Accepted(result)
           THEN step' = step + 1 /\ UNCHANGED <<policy, verdict>>
           ELSE End("ERROR")
  BY DEF Command
<1>3. Effect(Plan[step + 1]) \in Settings
  BY <1>1, PlanSteps DEF PInv, TypeOK, Settings, Effect
<1>4. result \in {"ok", "duplicate", "failed"}
  BY <1>2 DEF Results
<1>5. CASE result = "failed"
  BY <1>1, <1>2, <1>3, <1>5 DEF Accepted, PInv, TypeOK, Command
<1>6. CASE result # "failed"
  BY <1>1, <1>2, <1>4, <1>6 DEF Accepted, PInv, TypeOK, Command
<1>. QED BY <1>5, <1>6

LEMMA NextPInv == PInv /\ [Next]_vars => PInv'
<1>. SUFFICES ASSUME PInv, [Next]_vars PROVE PInv'
  OBVIOUS
<1>. USE DEF PInv
<1>1. CASE Begin
  <2>1. TypeOK'
    <3>1. fault' \in BOOLEAN /\ nord' \in Settings
      BY <1>1 DEF Begin, TypeOK
    <3>2. /\ document' \in Policies /\ policy' \in Policies \union {None}
          /\ step' \in 0 .. 5 /\ verdict' = "none"
      BY <1>1 DEF Begin, TypeOK
    <3>. QED BY <3>1, <3>2 DEF TypeOK
  <2>2. PlanHolds' /\ ErrorHasCause'
    BY <1>1 DEF Begin, PlanHolds, ErrorHasCause
  <2>. QED BY <2>1, <2>2
<1>2. CASE Preflight
  BY <1>2 DEF Preflight, End, TypeOK, PlanHolds, ErrorHasCause, Settings
<1>3. CASE Command
  <2>1. CASE nord' \in Settings /\ End("ERROR") /\ fault' = TRUE /\ UNCHANGED document
    BY <2>1 DEF End, TypeOK, PlanHolds, ErrorHasCause
  <2>2. CASE /\ step \in 0 .. 4 /\ nord' = Effect(Plan[step + 1])
             /\ step' = step + 1 /\ fault' = fault
             /\ UNCHANGED <<document, policy, verdict>>
    <3>1. policy # None /\ policy' = policy
      BY <1>3, <2>2 DEF Command
    <3>2. /\ nord' \in Settings
          /\ nord'.nordlynx = (nord.nordlynx \/ step = 0)
          /\ nord'.autoconnect = (nord.autoconnect /\ step # 1)
          /\ nord'.ports = IF step = 2 THEN nord.ports \union {policy} ELSE nord.ports
          /\ nord'.subnets = IF step = 3 THEN nord.subnets \union {policy} ELSE nord.subnets
          /\ nord'.killswitch = (nord.killswitch \/ step = 4)
      BY <2>2, <3>1, PlanSteps DEF TypeOK, Settings, Effect
    <3>3. TypeOK'
      BY <2>2, <3>1, <3>2 DEF TypeOK
    <3>4. PlanHolds'
      BY <2>2, <3>1, <3>2 DEF PlanHolds, TypeOK, Settings
    <3>5. ErrorHasCause'
      BY <2>2 DEF ErrorHasCause
    <3>. QED BY <3>3, <3>4, <3>5
  <2>. QED BY <1>3, <2>1, <2>2, CommandStep
<1>4. CASE Verify
  <2>1. step = 5 /\ policy # None /\ nord' = nord /\ document' = document
    BY <1>4, PlanSteps DEF Verify
  <2>2. ~Verified => fault
    BY <2>1 DEF Verified, PlanHolds
  <2>3. policy' = None /\ step' = 0 /\ verdict' \in {"VERIFIED", "ERROR"}
        /\ fault' \in BOOLEAN /\ (verdict' = "ERROR" => fault')
    <3>1. CASE Verified /\ End("VERIFIED") /\ UNCHANGED fault
      BY <3>1 DEF End, TypeOK
    <3>2. CASE ~Verified /\ End("ERROR") /\ UNCHANGED fault
      <4>1. fault /\ fault' = fault
        BY <2>2, <3>2
      <4>2. policy' = None /\ step' = 0 /\ verdict' = "ERROR"
        BY <3>2 DEF End
      <4>. QED BY <4>1, <4>2 DEF TypeOK
    <3>3. CASE fault' = TRUE /\ End("ERROR")
      BY <3>3 DEF End
    <3>. QED BY <1>4, <3>1, <3>2, <3>3 DEF Verify
  <2>. QED BY <2>1, <2>3 DEF TypeOK, PlanHolds, ErrorHasCause
<1>5. CASE Killed
  BY <1>5 DEF Killed, End, TypeOK, PlanHolds, ErrorHasCause
<1>6. CASE DaemonSwitches
  BY <1>6 DEF DaemonSwitches, script, TypeOK, PlanHolds, ErrorHasCause, Settings
<1>7. CASE EditDocument
  BY <1>7 DEF EditDocument, TypeOK, PlanHolds, ErrorHasCause
<1>8. CASE ResetNord
  BY <1>8 DEF ResetNord, TypeOK, PlanHolds, ErrorHasCause, Settings
<1>9. CASE UNCHANGED vars
  BY <1>9 DEF vars, TypeOK, PlanHolds, ErrorHasCause
<1>. QED
  BY <1>1, <1>2, <1>3, <1>4, <1>5, <1>6, <1>7, <1>8, <1>9 DEF Next

\* What holds of every reachable state of the setup.
THEOREM InvariantHolds == Spec => []PInv
BY InitPInv, NextPInv, PTL DEF Spec

-----------------------------------------------------------------------------
(* Theorems *)

\* A run in which nothing fails succeeds, whatever earlier runs left.
THEOREM ErrorHasCauseHolds == Spec => []ErrorHasCause
<1>1. PInv => ErrorHasCause
  BY DEF PInv
<1>. QED BY <1>1, InvariantHolds, PTL

\* The setup turns the kill switch on only behind its exceptions.
THEOREM KillSwitchGuardedHolds == Spec => KillSwitchGuarded
<1>. DEFINE Turned == policy # None /\ nord'.killswitch /\ ~nord.killswitch /\ script' # script
<1>1. ASSUME PInv, [Next]_vars PROVE [Turned => ExceptionsIn(policy)]_vars
  <2>. SUFFICES ASSUME Turned PROVE ExceptionsIn(policy)
    OBVIOUS
  <2>1. CASE Command
    <3>1. step \in 0 .. 4 /\ policy # None
      BY <1>1, <2>1, PlanSteps DEF Command, PInv, TypeOK
    <3>2. nord' = nord \/ nord' = Effect(Plan[step + 1])
      BY <2>1 DEF Command
    <3>3. step = 4
      BY <3>1, <3>2, PlanSteps, <1>1 DEF PInv, TypeOK, Settings, Effect
    <3>. QED BY <3>1, <3>3, <1>1 DEF PInv, PlanHolds, ExceptionsIn
  <2>2. CASE ~Command
    BY <2>2, <1>1 DEF Next, vars, script, Begin, Preflight, Verify, Killed,
                      DaemonSwitches, EditDocument, ResetNord
  <2>. QED BY <2>1, <2>2
<1>. QED BY <1>1, InvariantHolds, PTL DEF Spec, KillSwitchGuarded

\* "VERIFIED" stands for the whole policy.
THEOREM VerifiedIsCompleteHolds == Spec => VerifiedIsComplete
<1>. DEFINE Reported == verdict' = "VERIFIED" /\ verdict # "VERIFIED"
<1>. DEFINE Complete == /\ nord.nordlynx /\ nord.killswitch /\ ~nord.autoconnect
                        /\ ExceptionsIn(policy)
<1>1. ASSUME PInv, [Next]_vars PROVE [Reported => Complete]_vars
  <2>. SUFFICES ASSUME Reported PROVE Complete
    OBVIOUS
  <2>1. CASE Verify
    <3>1. step = 5 /\ policy # None
      BY <2>1, PlanSteps DEF Verify
    <3>2. Verified
      BY <2>1 DEF Verify, End
    <3>. QED BY <1>1, <3>1, <3>2 DEF PInv, PlanHolds, Verified, ExceptionsIn
  <2>2. CASE Command
    <3>1. verdict' = verdict \/ verdict' = "ERROR"
      BY <2>2, <1>1, CommandStep DEF End
    <3>. QED BY <3>1
  <2>3. CASE ~Verify /\ ~Command
    BY <2>3, <1>1 DEF Next, vars, script, Begin, Preflight, End, Killed,
                      DaemonSwitches, EditDocument, ResetNord
  <2>. QED BY <2>1, <2>2, <2>3
<1>. QED BY <1>1, InvariantHolds, PTL DEF Spec, VerifiedIsComplete

-----------------------------------------------------------------------------
(* The list of the checks *)

LEMMA CheckList ==
  /\ Len(Checks) = 25
  /\ CheckIds = {Checks[i] : i \in 1 .. 25}
  /\ Checks[1] = "config.schema" /\ Checks[4] = "identity.group"
  /\ Checks[5] = "file.main_config" /\ Checks[7] = "file.auth"
  /\ Checks[9] = "file.tls_private_key"
  /\ Checks[10] = "network.management_interface" /\ Checks[11] = "network.public_interface"
  /\ Checks[12] = "network.management_address" /\ Checks[13] = "network.web_port"
  /\ Checks[16] = "tls.validity" /\ Checks[19] = "provider.leak_protection"
  /\ Checks[24] = "control.socket_live" /\ Checks[25] = "exposure.policy"
<1>1. Len(Checks) = 25
  BY DEF Checks
<1>. QED BY <1>1 DEF Checks, CheckIds

LEMMA Places ==
  \A i \in 1 .. 25 :
    /\ Checks[i] \in {"file.auth", "file.tls_private_key"} => i > 5
    /\ Checks[i] = "config.schema" => i = 1
    /\ Checks[i] = "exposure.policy" => i = 25
    /\ Checks[i] = "control.socket_live" => i = 24
    /\ Checks[i] = "file.main_config" => i = 5
BY DEF Checks

-----------------------------------------------------------------------------
(* The inductive invariant.  A check that was made and did not fail has seen *)
(* that none of its causes was there; what was there all along it would have *)
(* seen.  Only what _file_security says of a group it says with the group's  *)
(* id in hand.                                                               *)

Made == IF at > 0 THEN at - 1 ELSE 25
Clean == (at > 0 \/ answer = "passed") /\ report.FAIL = {}
Grouped == {"file.auth", "file.tls_private_key"}

\* All that can make a check fail, the service group's id in hand.
AllCauses(id) ==
  CASE id = "config.schema"        -> {id, "config"}
    [] id = "identity.group"       -> {id, "group"}
    [] id = "file.auth"            -> {id, "file.auth group"}
    [] id = "file.tls_private_key" -> {id, "file.tls_private_key group"}
    [] id = "network.web_port"     -> {id, "unbindable"}
    [] id = "tls.validity"         -> {id, "expired"}
    [] OTHER -> {id}

Reports == [PASS : SUBSET CheckIds, FAIL : SUBSET CheckIds, SKIP : SUBSET CheckIds]

Shape ==
  /\ at \in 0 .. 25 /\ report \in Reports /\ bad \subseteq Wrong /\ changes \in Nat
  /\ at > 0 => answer = "none"
  /\ answer = "passed" => report.FAIL = {}

Listed ==
  Clean => /\ report.PASS \union report.SKIP = {Checks[i] : i \in 1 .. Made}
           /\ report.SKIP \subseteq Optional

\* The causes that are no member of Wrong.
Derived == {"network.management_interface", "network.public_interface",
            "network.management_address", "unbindable", "provider.leak_protection"}

Seen ==
  /\ at > 0 => stubborn \subseteq Troubles /\ ("group" \in bad => vanished)
  /\ stubborn \subseteq Wrong \union Derived
  /\ Clean /\ Made > 4 => gid \/ vanished

Held ==
  Clean => \A i \in 1 .. Made :
    Checks[i] \notin Optional /\ (Checks[i] \in Grouped => ~vanished)
      => AllCauses(Checks[i]) \intersect stubborn = {}

Settled ==
  /\ Clean /\ Made > 0 => ValidConfig(config) /\ network \in Networks
  /\ at > 0 => network \in Networks
  /\ Clean /\ changes = 0 => NetworkCauses \subseteq stubborn

HInv == Shape /\ Listed /\ Seen /\ Held /\ Settled

-----------------------------------------------------------------------------
(* One check *)

LEMMA TroublesAreKnown ==
  ASSUME Shape PROVE Troubles \subseteq Wrong \union Derived
BY DEF Shape, Troubles, NetworkCauses, Derived

\* What Record makes of a report: a report without a failure has gone on by
\* one check, and had no failure before.
LEMMA Recorded ==
  ASSUME Shape, at > 0, NEW status \in {"PASS", "FAIL", "SKIP"}, NEW cut \in BOOLEAN,
         cut => status = "FAIL", Record(Checks[at], status, cut)
  PROVE  /\ at' \in 0 .. 25 /\ report' \in Reports
         /\ at' > 0 => answer' = "none"
         /\ answer' = "passed" => report'.FAIL = {}
         /\ Clean' =>
              /\ Clean /\ status # "FAIL" /\ Made' = Made + 1 /\ Made' = at
              /\ report'.PASS \union report'.SKIP = report.PASS \union report.SKIP \union {Checks[at]}
              /\ report'.SKIP = report.SKIP
                   \union (IF status = "SKIP" THEN {Checks[at]} ELSE {})
<1>. DEFINE n == at + 1 + (IF cut THEN Dropped(Checks[at]) ELSE 0)
<1>. DEFINE new == Enter(Checks[at], status, cut)
<1>1. n \in Nat /\ n > at /\ (~cut => n = at + 1)
  BY DEF Shape, Dropped
<1>2. Checks[at] \in CheckIds /\ at \in 1 .. 25
  BY CheckList DEF Shape
<1>3. /\ new \in Reports
      /\ status = "FAIL" => new.FAIL # {}
      /\ status # "FAIL" => new.FAIL = report.FAIL
      /\ status # "FAIL" => new.PASS \union new.SKIP = report.PASS \union report.SKIP \union {Checks[at]}
      /\ new.SKIP = report.SKIP \union (IF status = "SKIP" THEN {Checks[at]} ELSE {})
  BY <1>2 DEF Shape, Reports, Enter
<1>4. /\ report' = new
      /\ IF n <= 25
         THEN at' = n /\ answer' = answer
         ELSE at' = 0 /\ answer' = Conclusion(new)
  BY CheckList DEF Record
<1>5. answer = "none"
  BY DEF Shape
<1>. HIDE DEF n, new
<1>6. CASE n <= 25
  <2>1. at' = n /\ answer' = "none"
    BY <1>4, <1>5, <1>6
  <2>2. at' \in 1 .. 25
    BY <1>1, <1>2, <1>6, <2>1
  <2>3. Clean' => status # "FAIL" /\ report.FAIL = {}
    BY <1>3, <1>4 DEF Clean
  <2>4. status # "FAIL" => Made' = at /\ Made = at - 1
    BY <1>1, <1>2, <2>1 DEF Made
  <2>. QED BY <1>1, <1>2, <1>3, <1>4, <2>1, <2>2, <2>3, <2>4 DEF Clean
<1>7. CASE ~(n <= 25)
  <2>1. at' = 0 /\ answer' = Conclusion(new)
    BY <1>4, <1>7
  <2>2. answer' = "passed" => report'.FAIL = {}
    BY <1>4, <2>1 DEF Conclusion
  <2>3. Clean' => status # "FAIL" /\ report.FAIL = {}
    BY <1>3, <1>4 DEF Clean
  <2>4. status # "FAIL" => Made' = at /\ Made = at - 1
    BY <1>1, <1>2, <1>7, <2>1 DEF Made
  <2>. QED BY <1>1, <1>2, <1>3, <1>4, <2>1, <2>2, <2>3, <2>4 DEF Clean
<1>. QED BY <1>6, <1>7

\* A check that does not fail has none of the causes that were there before.
LEMMA CheckStep ==
  ASSUME HInv, at > 0, NEW status \in {"PASS", "FAIL", "SKIP"}, NEW cut \in BOOLEAN,
         cut => status = "FAIL", Record(Checks[at], status, cut),
         UNCHANGED <<nord, host, config, gid, history>>,
         status = "SKIP" => Checks[at] \in Optional,
         Clean /\ status = "PASS" /\ Checks[at] \notin Optional
           /\ (Checks[at] \in Grouped => ~vanished)
             => AllCauses(Checks[at]) \intersect stubborn = {},
         at = 5 => gid \/ vanished,
         at = 1 => ValidConfig(config)
  PROVE  HInv'
<1>1. /\ at' \in 0 .. 25 /\ report' \in Reports
      /\ at' > 0 => answer' = "none"
      /\ answer' = "passed" => report'.FAIL = {}
      /\ Clean' =>
           /\ Clean /\ status # "FAIL" /\ Made' = Made + 1 /\ Made' = at
           /\ report'.PASS \union report'.SKIP = report.PASS \union report.SKIP \union {Checks[at]}
           /\ report'.SKIP = report.SKIP
                \union (IF status = "SKIP" THEN {Checks[at]} ELSE {})
  <2>1. Shape
    BY DEF HInv
  <2>. QED BY <2>1, Recorded
<1>2. /\ bad' = bad /\ network' = network /\ changes' = changes /\ config' = config
      /\ stubborn' = stubborn /\ vanished' = vanished /\ gid' = gid /\ nord' = nord
  BY DEF host, history
<1>3. Shape'
  BY <1>1, <1>2 DEF HInv, Shape
<1>4. at \in 1 .. 25 /\ Made = at - 1 /\ Made \in 0 .. 24
  BY DEF HInv, Shape, Made
<1>5. Listed'
  <2>. SUFFICES ASSUME Clean'
                PROVE  /\ report'.PASS \union report'.SKIP = {Checks[i] : i \in 1 .. Made'}
                       /\ report'.SKIP \subseteq Optional
    BY DEF Listed
  <2>1. /\ report.PASS \union report.SKIP = {Checks[i] : i \in 1 .. at - 1}
        /\ report.SKIP \subseteq Optional
    BY <1>1, <1>4 DEF HInv, Listed
  <2>2. {Checks[i] : i \in 1 .. at} = {Checks[i] : i \in 1 .. at - 1} \union {Checks[at]}
    BY <1>4
  <2>. QED BY <1>1, <1>4, <2>1, <2>2
<1>6. Troubles' = Troubles /\ NetworkCauses' = NetworkCauses
  BY <1>2 DEF Troubles, NetworkCauses
<1>7. Seen'
  <2>1. at > 0 => stubborn \subseteq Troubles /\ ("group" \in bad => vanished)
    BY DEF HInv, Seen
  <2>2. Clean' /\ Made' > 4 => gid' \/ vanished'
    BY <1>1, <1>2, <1>4 DEF HInv, Seen
  <2>. QED BY <1>2, <1>6, <2>1, <2>2 DEF HInv, Seen
<1>8. Held'
  <2>. SUFFICES ASSUME Clean', NEW i \in 1 .. at,
                       Checks[i] \notin Optional, Checks[i] \in Grouped => ~vanished
                PROVE  AllCauses(Checks[i]) \intersect stubborn = {}
    BY <1>1, <1>2 DEF Held
  <2>1. CASE i = at
    BY <1>1, <2>1
  <2>2. CASE i # at
    <3>1. i \in 1 .. Made
      BY <1>4, <2>2
    <3>. QED BY <1>1, <3>1 DEF HInv, Held
  <2>. QED BY <2>1, <2>2
<1>9. Settled'
  <2>1. network \in Networks
    BY DEF HInv, Settled
  <2>2. Clean' => ValidConfig(config)
    BY <1>1, <1>4 DEF HInv, Settled
  <2>3. ValidConfig(config') = ValidConfig(config)
    BY <1>2
  <2>. QED BY <1>1, <1>2, <1>6, <2>1, <2>2, <2>3 DEF HInv, Settled
<1>. QED BY <1>3, <1>5, <1>7, <1>8, <1>9 DEF HInv

-----------------------------------------------------------------------------
(* Every step *)

LEMMA InitHInv == HostInit => HInv
<1>. SUFFICES ASSUME HostInit PROVE HInv
  OBVIOUS
<1>1. /\ at = 0 /\ answer = "none" /\ bad = {} /\ stubborn = {} /\ report = NoReport
      /\ changes = 0
  BY DEF HostInit
<1>2. Shape
  BY <1>1 DEF Shape, Reports, NoReport
<1>. QED BY <1>1, <1>2 DEF HInv, Clean, Listed, Seen, Held, Settled

\* Steps of the surroundings leave the report alone and take from what has been
\* wrong all along what is not wrong now.
LEMMA WatchedStep ==
  ASSUME HInv, at > 0, Watched, UNCHANGED check, bad' \subseteq Wrong, network' \in Networks, changes' \in Nat,
         changes' # 0 \/ (changes' = changes /\ network' = network)
  PROVE  HInv'
<1>1. /\ at' = at /\ gid' = gid /\ report' = report /\ answer' = answer /\ config' = config
  BY DEF check
<1>2. /\ stubborn' = stubborn \intersect Troubles'
      /\ vanished => vanished'
      /\ "group" \in bad' => vanished'
  BY DEF Watched
<1>3. Made' = Made /\ Clean' = Clean
  BY <1>1 DEF Made, Clean
<1>4. Shape'
  BY <1>1 DEF HInv, Shape
<1>5. Listed'
  BY <1>1, <1>3 DEF HInv, Listed
<1>6. Seen'
  BY <1>1, <1>2, <1>3 DEF HInv, Seen
<1>7. Held'
  BY <1>1, <1>2, <1>3 DEF HInv, Held
<1>8. Settled'
  <2>1. Clean /\ Made > 0 => ValidConfig(config')
    BY <1>1 DEF HInv, Settled
  <2>2. changes' = 0 /\ Clean => NetworkCauses' \subseteq stubborn'
    <3>. SUFFICES ASSUME changes' = 0, Clean PROVE NetworkCauses' \subseteq stubborn'
      OBVIOUS
    <3>1. NetworkCauses' = NetworkCauses
      BY <1>1 DEF NetworkCauses
    <3>2. NetworkCauses \subseteq stubborn
      BY DEF HInv, Settled
    <3>3. NetworkCauses' \subseteq Troubles'
      BY DEF Troubles
    <3>. QED BY <1>2, <3>1, <3>2, <3>3
  <2>. QED BY <1>3, <2>1, <2>2 DEF Settled
<1>. QED BY <1>4, <1>5, <1>6, <1>7, <1>8 DEF HInv

LEMMA NextHInv == HInv /\ [HostNext]_hostVars => HInv'
<1>. SUFFICES ASSUME HInv, [HostNext]_hostVars PROVE HInv'
  OBVIOUS
<1>0. /\ at \in 0 .. 25
      /\ stubborn \subseteq Wrong \union Derived
      /\ at > 0 => stubborn \subseteq Troubles /\ ("group" \in bad => vanished)
      /\ Clean /\ Made > 4 => gid \/ vanished
  BY DEF HInv, Shape, Seen
<1>1. CASE BeginPreflight
  <2>1. /\ at' = 1 /\ answer' = "none" /\ report' = NoReport /\ network' \in Networks
        /\ bad' \subseteq Wrong /\ stubborn' = Troubles' /\ vanished' = ("group" \in bad')
        /\ changes' = 0
    BY <1>1 DEF BeginPreflight
  <2>2. Shape'
    BY <2>1 DEF Shape, Reports, NoReport
  <2>3. Made' = 0
    BY <2>1 DEF Made
  <2>4. Listed' /\ Held'
    BY <2>1, <2>3 DEF Listed, Held, NoReport
  <2>5. Seen'
    <3>1. Troubles' \subseteq Wrong \union Derived
      BY <2>1 DEF Troubles, NetworkCauses, Derived
    <3>2. stubborn' \subseteq Wrong \union Derived
      BY <2>1, <3>1
    <3>3. Derived' = Derived
      BY DEF Derived
    <3>4. "group" \in bad' => vanished'
      BY <2>1
    <3>5. stubborn' \subseteq Troubles'
      BY <2>1
    <3>6. ~(Made' > 4)
      BY <2>3
    <3>. QED BY <3>2, <3>3, <3>4, <3>5, <3>6 DEF Seen
  <2>6. Settled'
    BY <2>1, <2>3 DEF Settled, Troubles
  <2>. QED BY <2>2, <2>4, <2>5, <2>6 DEF HInv
<1>2. CASE LoadConfig
  <2>1. CASE ValidConfig(config) /\ "config" \notin bad
    <3>1. at = 1 /\ Record(Checks[at], "PASS", FALSE)
      BY <1>2, <2>1, CheckList DEF LoadConfig
    <3>2. AllCauses(Checks[at]) \intersect stubborn = {}
      <4>1. AllCauses(Checks[at]) = {"config.schema", "config"}
        BY <3>1, CheckList DEF AllCauses
      <4>2. "config.schema" \notin stubborn
        BY <1>0, WrongIsLookedFor DEF Derived
      <4>3. "config" \notin Troubles
        BY <2>1 DEF Troubles, NetworkCauses
      <4>. QED BY <1>0, <3>1, <4>1, <4>2, <4>3
    <3>3. UNCHANGED <<nord, host, config, gid, history>>
      BY <1>2 DEF LoadConfig, vars
    <3>4. at > 0 /\ at # 5 /\ "PASS" \in {"PASS", "FAIL", "SKIP"} /\ FALSE \in BOOLEAN
      BY <3>1
    <3>. QED BY <2>1, <3>1, <3>2, <3>3, <3>4, CheckStep
  <2>2. CASE ~(ValidConfig(config) /\ "config" \notin bad)
    <3>1. /\ at' = 0 /\ answer' = "error" /\ report' = report /\ bad' = bad
          /\ stubborn' = stubborn /\ changes' = changes
      BY <1>2, <2>2 DEF LoadConfig, host, history
    <3>. QED BY <1>0, <3>1 DEF HInv, Shape, Clean, Listed, Seen, Held, Settled
  <2>. QED BY <2>1, <2>2
<1>3. CASE LookUpGroup
  <2>1. /\ gid' = TRUE /\ at' = at /\ report' = report /\ answer' = answer
        /\ UNCHANGED <<nord, host, config, history>>
    BY <1>3 DEF LookUpGroup, vars
  <2>2. /\ bad' = bad /\ network' = network /\ changes' = changes
        /\ stubborn' = stubborn /\ vanished' = vanished
    BY <2>1 DEF host, history
  <2>3. Made' = Made /\ Clean' = Clean /\ Troubles' = Troubles /\ NetworkCauses' = NetworkCauses
    BY <2>1, <2>2 DEF Made, Clean, Troubles, NetworkCauses
  <2>4. ValidConfig(config') = ValidConfig(config)
    BY <2>1
  <2>5. Shape' /\ Listed' /\ Seen' /\ Held' /\ Settled'
    BY <2>1, <2>2, <2>3, <2>4 DEF HInv, Shape, Listed, Seen, Held, Settled
  <2>. QED BY <2>5 DEF HInv
<1>4. CASE MakeCheck
  <2>1. PICK status \in Statuses(Checks[at]) :
          Record(Checks[at], status, Cut(Checks[at], status))
    BY <1>4 DEF MakeCheck
  <2>2. at \in 2 .. 25 /\ UNCHANGED <<nord, host, config, gid, history>>
    BY <1>0, <1>4 DEF MakeCheck, vars
  <2>3. /\ status \in {"PASS", "FAIL", "SKIP"}
        /\ status = "SKIP" => Checks[at] \in Optional
        /\ status = "PASS" /\ Checks[at] \notin Optional => Causes(Checks[at]) \intersect Troubles = {}
    BY <2>1 DEF Statuses, Optional
  <2>4. Cut(Checks[at], status) \in BOOLEAN /\ (Cut(Checks[at], status) => status = "FAIL")
    BY DEF Cut
  <2>5. at = 5 => gid \/ vanished
    BY <1>0, <1>4, CheckList DEF MakeCheck
  <2>6. ASSUME Clean, status = "PASS", Checks[at] \notin Optional,
               Checks[at] \in Grouped => ~vanished
        PROVE  AllCauses(Checks[at]) \intersect stubborn = {}
    <3>1. Checks[at] # "config.schema"
      BY <2>2, Places
    <3>2. Checks[at] \in Grouped => gid
      <4>1. Checks[at] \in Grouped => Made > 4
        BY <2>2, Places DEF Grouped, Made
      <4>. QED BY <1>0, <2>6, <4>1
    <3>3. AllCauses(Checks[at]) \subseteq Causes(Checks[at])
      BY <3>1, <3>2 DEF AllCauses, Causes, Grouped
    <3>. QED BY <1>0, <2>2, <2>3, <2>6, <3>3
  <2>. QED BY <2>1, <2>2, <2>3, <2>4, <2>5, <2>6, CheckStep
<1>5. CASE SettingsFail
  <2>1. /\ at > 0 /\ UNCHANGED <<nord, host, config, gid, history>>
    BY <1>0, <1>5 DEF SettingsFail, vars
  <2>3. Record(Checks[at], "FAIL", TRUE)
    BY <1>5 DEF SettingsFail
  <2>2. at # 5 /\ at # 1
    BY <1>5, CheckList DEF SettingsFail
  <2>. QED BY <2>1, <2>2, <2>3, CheckStep
<1>6. CASE HostChanges
  <2>1. /\ at > 0 /\ Watched /\ UNCHANGED check /\ bad' \subseteq Wrong /\ network' \in Networks
        /\ changes' \in Nat
    BY <1>6 DEF HostChanges, HInv, Shape, Settled
  <2>2. changes' # 0 \/ (changes' = changes /\ network' = network)
    BY <1>6 DEF HostChanges, HInv, Shape
  <2>. QED BY <2>1, <2>2, WatchedStep
<1>7. CASE Switched
  <2>1. /\ bad' = bad /\ network' = network /\ changes' = changes /\ UNCHANGED check
    BY <1>7 DEF Switched, host
  <2>2. CASE at > 0
    <3>1. Watched /\ bad' \subseteq Wrong /\ network' \in Networks /\ changes' \in Nat
      BY <1>7, <2>1, <2>2 DEF Switched, HInv, Shape, Settled
    <3>. QED BY <2>1, <2>2, <3>1, WatchedStep
  <2>3. CASE ~(at > 0)
    <3>1. UNCHANGED history
      BY <1>7, <2>3 DEF Switched
    <3>2. /\ at' = at /\ gid' = gid /\ report' = report /\ answer' = answer /\ config' = config
          /\ stubborn' = stubborn /\ vanished' = vanished
      BY <2>1, <3>1 DEF check, history
    <3>3. Made' = Made /\ Clean' = Clean /\ NetworkCauses' = NetworkCauses
          /\ ValidConfig(config') = ValidConfig(config)
      BY <2>1, <3>2 DEF Made, Clean, NetworkCauses
    <3>4. ~(at' > 0)
      BY <2>3, <3>2
    <3>5. Shape' /\ Listed' /\ Seen' /\ Held' /\ Settled'
      BY <2>1, <2>3, <3>2, <3>3, <3>4 DEF HInv, Shape, Listed, Seen, Held, Settled
    <3>. QED BY <3>5 DEF HInv
  <2>. QED BY <2>2, <2>3
<1>8. CASE SetUp
  <2>1. /\ at' = 0 /\ answer' = "none" /\ bad' = {} /\ stubborn' = {} /\ report' = NoReport
        /\ changes' = 0
    BY <1>8 DEF SetUp, Forget
  <2>2. Shape'
    BY <2>1 DEF Shape, Reports, NoReport
  <2>. QED BY <2>1, <2>2 DEF HInv, Clean, Listed, Seen, Held, Settled
<1>9. CASE UNCHANGED hostVars
  <2>1. /\ bad' = bad /\ network' = network /\ changes' = changes /\ config' = config
        /\ stubborn' = stubborn /\ vanished' = vanished /\ gid' = gid /\ nord' = nord
        /\ at' = at /\ report' = report /\ answer' = answer
    BY <1>9 DEF hostVars, vars, host, check, history
  <2>2. Made' = Made /\ Clean' = Clean /\ Troubles' = Troubles /\ NetworkCauses' = NetworkCauses
        /\ ValidConfig(config') = ValidConfig(config)
    BY <2>1 DEF Made, Clean, Troubles, NetworkCauses
  <2>3. Shape' /\ Listed' /\ Seen' /\ Held' /\ Settled'
    BY <2>1, <2>2 DEF HInv, Shape, Listed, Seen, Held, Settled
  <2>. QED BY <2>3 DEF HInv
<1>. QED
  BY <1>1, <1>2, <1>3, <1>4, <1>5, <1>6, <1>7, <1>8, <1>9 DEF HostNext

\* What holds of every reachable state of a preflight and its surroundings.
THEOREM PreflightInvariant == HostSpec => []HInv
BY InitHInv, NextHInv, PTL DEF HostSpec

-----------------------------------------------------------------------------
(* Theorems *)

\* A report that passes holds every check of the list; none is left out by an
\* early return, and none skipped but the two that may be.
THEOREM CompleteReports == HostSpec => []PassedIsComplete
<1>1. ASSUME HInv, answer = "passed"
      PROVE  report.PASS \union report.SKIP = CheckIds /\ report.SKIP \subseteq Optional
  <2>1. at = 0 /\ Clean
    BY <1>1 DEF HInv, Shape, Clean
  <2>. QED BY <1>1, <2>1, CheckList DEF HInv, Listed, Made
<1>2. HInv => PassedIsComplete
  BY <1>1 DEF PassedIsComplete
<1>. QED BY <1>2, PreflightInvariant, PTL

\* No fault that was there from the first check to the last passes, whatever
\* else changes on the host meanwhile.
THEOREM NothingSlipsPast == HostSpec => []PassedMeansHeld
<1>1. ASSUME HInv, answer = "passed", ~vanished, NEW x \in stubborn, x # "control.socket_live"
      PROVE  FALSE
  <2>1. /\ at = 0 /\ Clean /\ Made = 25
        /\ x \in Wrong \union Derived
    BY <1>1 DEF HInv, Shape, Clean, Made, Seen
  <2>2. ASSUME NEW i \in 1 .. 25, i < 24 PROVE x \notin AllCauses(Checks[i])
    <3>1. Checks[i] \notin Optional
      BY <2>2, Places DEF Optional
    <3>. QED BY <1>1, <2>1, <2>2, <3>1 DEF HInv, Held
  <2>3. CASE x \in CheckIds \ {"config.schema", "exposure.policy"}
    <3>1. PICK i \in 1 .. 25 : x = Checks[i]
      BY <2>3, CheckList
    <3>2. i < 24
      BY <1>1, <2>3, <3>1, CheckList
    <3>3. x \in AllCauses(Checks[i])
      BY <3>1 DEF AllCauses
    <3>. QED BY <2>2, <3>2, <3>3
  <2>4. CASE x \in {"config", "group", "file.auth group", "file.tls_private_key group", "expired"}
    <3>1. /\ "config" \in AllCauses(Checks[1]) /\ "group" \in AllCauses(Checks[4])
          /\ "file.auth group" \in AllCauses(Checks[7])
          /\ "file.tls_private_key group" \in AllCauses(Checks[9])
          /\ "expired" \in AllCauses(Checks[16])
      BY CheckList DEF AllCauses
    <3>2. x \in AllCauses(Checks[1]) \/ x \in AllCauses(Checks[4]) \/ x \in AllCauses(Checks[7])
          \/ x \in AllCauses(Checks[9]) \/ x \in AllCauses(Checks[16])
      BY <2>4, <3>1
    <3>. QED BY <2>2, <3>2
  <2>5. CASE x \in Derived
    <3>1. /\ "network.management_interface" \in AllCauses(Checks[10])
          /\ "network.public_interface" \in AllCauses(Checks[11])
          /\ "network.management_address" \in AllCauses(Checks[12])
          /\ "unbindable" \in AllCauses(Checks[13])
          /\ "provider.leak_protection" \in AllCauses(Checks[19])
      BY CheckList DEF AllCauses
    <3>2. x \in AllCauses(Checks[10]) \/ x \in AllCauses(Checks[11]) \/ x \in AllCauses(Checks[12])
          \/ x \in AllCauses(Checks[13]) \/ x \in AllCauses(Checks[19])
      BY <2>5, <3>1 DEF Derived
    <3>. QED BY <2>2, <3>2
  <2>. QED BY <2>1, <2>3, <2>4, <2>5, WrongIsLookedFor
<1>2. HInv => PassedMeansHeld
  BY <1>1 DEF PassedMeansHeld
<1>. QED BY <1>2, PreflightInvariant, PTL

\* On a host that did not change while it was looked at, a dashboard that may
\* be started listens on the management interface and nowhere else.
THEOREM DashboardIsPrivate == HostSpec => []DashboardStaysPrivate
<1>1. ASSUME HInv, answer = "passed", changes = 0
      PROVE  /\ config.management \in DOMAIN network /\ network[config.management] = config.bind
             /\ config.public \in DOMAIN network /\ network[config.public] # config.bind
  <2>1. /\ at = 0 /\ Clean /\ Made = 25
    BY <1>1 DEF HInv, Shape, Clean, Made
  <2>2. ValidConfig(config) /\ network \in Networks /\ NetworkCauses \subseteq stubborn
    BY <1>1, <2>1 DEF HInv, Settled
  <2>3. ASSUME NEW i \in 10 .. 12 PROVE Checks[i] \notin NetworkCauses
    <3>1. Checks[i] \notin Optional /\ Checks[i] \notin Grouped
      BY CheckList DEF Optional, Grouped
    <3>2. Checks[i] \in AllCauses(Checks[i])
      BY DEF AllCauses
    <3>. QED BY <1>1, <2>1, <2>2, <3>1, <3>2 DEF HInv, Held
  <2>4. /\ "network.management_interface" \notin NetworkCauses
        /\ "network.public_interface" \notin NetworkCauses
        /\ "network.management_address" \notin NetworkCauses
    BY <2>3, CheckList
  <2>5. /\ config.management \in DOMAIN network /\ config.public \in DOMAIN network
        /\ network[config.management] = config.address
    BY <2>4 DEF NetworkCauses
  <2>6. config.management # config.public /\ config.bind = config.address
    BY <2>2 DEF ValidConfig
  <2>. QED BY <2>2, <2>5, <2>6, AddressesDiffer
<1>2. HInv => DashboardStaysPrivate
  BY <1>1 DEF DashboardStaysPrivate
<1>. QED BY <1>2, PreflightInvariant, PTL

\* Preflight is a bystander: whatever it does, the setup script, NordVPN and the
\* daemon behave as NordVpnSetup says, and its theorems hold here as well.
THEOREM SetupGoesOn == HostSpec => Spec
<1>1. HostInit => Init
  BY DEF HostInit
<1>2. [HostNext]_hostVars => [Next]_vars
  <2>. SUFFICES ASSUME [HostNext]_hostVars PROVE [Next]_vars
    OBVIOUS
  <2>1. CASE SetUp \/ Switched
    BY <2>1 DEF SetUp, Switched, Next
  <2>2. CASE BeginPreflight \/ LoadConfig \/ LookUpGroup \/ MakeCheck \/ SettingsFail \/ HostChanges
    BY <2>2 DEF BeginPreflight, LoadConfig, LookUpGroup, MakeCheck, SettingsFail, HostChanges, vars
  <2>3. CASE UNCHANGED hostVars
    BY <2>3 DEF hostVars, vars
  <2>. QED BY <2>1, <2>2, <2>3 DEF HostNext
<1>. QED BY <1>1, <1>2, PTL DEF HostSpec, Spec

\* With preflight and its host beside it, the setup still turns the kill switch
\* on only behind its exceptions.
THEOREM SwitchStaysGuarded == HostSpec => KillSwitchGuarded
BY SetupGoesOn, KillSwitchGuardedHolds, PTL
=============================================================================
