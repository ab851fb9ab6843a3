--------------------------- MODULE HostPreflight ---------------------------
(***************************************************************************)
(* `snarkyctl preflight': the configuration is loaded (config.py), then    *)
(* preflight.py looks at the host, one check after the other, in groups of *)
(* which some end early.  Beside it the NordVPN setup, after which it is   *)
(* run, the control daemon that switches the kill switch, and an           *)
(* administrator who changes the host meanwhile.                           *)
(***************************************************************************)
EXTENDS NordVpnSetup

CONSTANTS Documents,  \* configuration documents
          Networks,   \* networks a host may have: an address per interface
          Wrong,      \* what may be wrong with the host's files and accounts
          MaxChanges  \* bound on changes of the host during a preflight

ASSUME MaxChangesIsNat == MaxChanges \in Nat

\* Two interfaces of a host have two addresses.
ASSUME AddressesDiffer ==
  \A n \in Networks : \A i, j \in DOMAIN n : n[i] = n[j] => i = j

VARIABLES config,    \* the document preflight has loaded
          network,   \* the host's network
          bad,       \* what is wrong with the host
          at,        \* the check that comes next, or 0
          gid,       \* was the service group's id found?
          report,    \* the checks reported, by status
          answer,    \* what the last preflight said
          stubborn,  \* history: what has been wrong all along
          vanished,  \* history: the service group has been removed
          changes

host == <<network, bad, changes>>
check == <<config, at, gid, report, answer>>
history == <<stubborn, vanished>>
hostVars == <<vars, host, check, history>>

-----------------------------------------------------------------------------
(* The configuration.  A Faulty variant is used by no action, only by the     *)
(* mutation checks of PROJECT.json.                                           *)

Document == [management : STRING, public : STRING, upstream : SUBSET STRING,
             address : STRING, bind : STRING, backends : SUBSET {"yaml", "sqlite"}]

\* The models' validators: NetworkConfig, UpstreamVpnConfig, SnarkyCtlConfig.
FaultyValidConfig(d) ==
  /\ d.management # d.public
  /\ d.upstream # {} /\ d.upstream \intersect {d.management, d.public} = {}
ValidConfig(d) ==
  /\ d.management # d.public
  /\ d.upstream # {} /\ d.upstream \intersect {d.management, d.public} = {}
  /\ d.bind = d.address
  /\ d.backends \in {{"yaml"}, {"sqlite"}}

-----------------------------------------------------------------------------
(* The checks *)

Checks ==
  << "config.schema", "identity.user", "identity.login_shell", "identity.group",
     "file.main_config", "file.targets", "file.auth", "file.tls_certificate", "file.tls_private_key",
     "network.management_interface", "network.public_interface",
     "network.management_address", "network.web_port", "auth.syntax",
     "tls.key_pair", "tls.validity", "tls.management_address",
     "provider.executable", "provider.leak_protection", "provider.firewall",
     "systemd.web", "systemd.control", "systemd.socket", "control.socket_live", "exposure.policy" >>

CheckIds == {Checks[i] : i \in 1 .. Len(Checks)}
Optional == {"control.socket_live", "exposure.policy"}

\* Nothing is wrong with a host but what some check looks for.
ASSUME WrongIsLookedFor ==
  Wrong \subseteq (CheckIds \ {"config.schema", "exposure.policy"})
                 \union {"config", "group", "file.auth group", "file.tls_private_key group", "expired"}

\* What the host's state says of the network and of NordVPN.
NetworkCauses ==
  (IF config.management \in DOMAIN network THEN {} ELSE {"network.management_interface"})
  \union (IF config.public \in DOMAIN network THEN {} ELSE {"network.public_interface"})
  \union (IF config.management \in DOMAIN network /\ network[config.management] = config.address
          THEN {} ELSE {"network.management_address"})
  \union (IF \E i \in DOMAIN network : network[i] = config.bind THEN {} ELSE {"unbindable"})
Troubles == bad \union NetworkCauses \union (IF nord.killswitch THEN {} ELSE {"provider.leak_protection"})

FaultyCauses(id) == {id}
\* What makes a check fail: mostly the one thing it looks at.  _file_security
\* looks at the group of a file only if it knows the service's.
Causes(id) ==
  CASE id = "identity.group"       -> {id, "group"}
    [] id = "file.auth"            -> {id} \union (IF gid THEN {"file.auth group"} ELSE {})
    [] id = "file.tls_private_key" -> {id} \union (IF gid THEN {"file.tls_private_key group"} ELSE {})
    [] id = "network.web_port"     -> {id, "unbindable"}
    [] id = "tls.validity"         -> {id, "expired"}
    [] OTHER -> {id}

\* The early returns: how many of the checks behind a check that could not be
\* made are left out.  A certificate that has expired is still read.
Dropped(id) ==
  CASE id \in {"identity.user", "tls.key_pair", "provider.executable"} -> 2
    [] id \in {"tls.validity", "provider.leak_protection"} -> 1
    [] OTHER -> 0

Statuses(id) ==
  CASE id = "exposure.policy" -> {"SKIP"}
    [] id = "control.socket_live" ->   \* absent, or there
         {"SKIP", IF gid /\ id \notin Troubles THEN "PASS" ELSE "FAIL"}
    [] OTHER -> {IF Causes(id) \intersect Troubles = {} THEN "PASS" ELSE "FAIL"}

NoReport == [PASS |-> {}, FAIL |-> {}, SKIP |-> {}]

\* A check that is cut off by an early return is itself a failure.
Enter(id, status, cut) == [report EXCEPT ![status] = @ \union {id}]

\* The report is complete once its last check is in; `passed' looks for a FAIL.
Conclusion(r) == IF r.FAIL = {} THEN "passed" ELSE "failed"

Record(id, status, cut) ==
  LET next == at + 1 + (IF cut THEN Dropped(id) ELSE 0)
      new  == Enter(id, status, cut)
  IN  /\ report' = new
      /\ IF next <= Len(Checks)
         THEN at' = next /\ UNCHANGED answer
         ELSE at' = 0 /\ answer' = Conclusion(new)

-----------------------------------------------------------------------------
(* Preflight *)

\* Before a preflight, and once what it said is no longer looked at.
HostInit ==
  /\ Init
  /\ config = None /\ network = None /\ bad = {} /\ changes = 0
  /\ at = 0 /\ gid = FALSE /\ report = NoReport /\ answer = "none"
  /\ stubborn = {} /\ vanished = FALSE
Forget ==
  /\ config' = None /\ network' = None /\ bad' = {} /\ changes' = 0
  /\ at' = 0 /\ gid' = FALSE /\ report' = NoReport /\ answer' = "none"
  /\ stubborn' = {} /\ vanished' = FALSE

\* The operator runs it when the setup has said "VERIFIED", on a host where
\* anything may be wrong.  A second run would find what a first one may find.
BeginPreflight ==
  /\ config = None /\ policy = None /\ verdict = "VERIFIED"
  /\ UNCHANGED vars
  /\ config' \in Documents
  /\ network' \in Networks
  /\ bad' \in {{}} \union {{w} : w \in Wrong}
  /\ at' = 1 /\ gid' = FALSE /\ report' = NoReport /\ answer' = "none"
  /\ changes' = 0
  /\ stubborn' = Troubles' /\ vanished' = ("group" \in bad')

\* load_config: an error is no report, and exit status 2.
LoadConfig ==
  /\ at = 1
  /\ IF ValidConfig(config) /\ "config" \notin bad
     THEN Record("config.schema", "PASS", FALSE)
     ELSE at' = 0 /\ answer' = "error" /\ UNCHANGED report
  /\ UNCHANGED <<vars, host, config, gid, history>>

\* getgrnam is called a second time, after the identity checks.
LookUpGroup ==
  /\ at > 0 /\ Checks[at] = "file.main_config" /\ ~gid /\ "group" \notin bad
  /\ gid' = TRUE
  /\ UNCHANGED <<vars, host, config, at, report, answer, history>>

Cut(id, status) ==
  /\ status = "FAIL"
  /\ id = "tls.validity" => id \in Troubles         \* not for having expired
  /\ id # "provider.leak_protection"                \* that is SettingsFail

MakeCheck ==
  /\ at > 1
  /\ Checks[at] = "file.main_config" => gid \/ "group" \in bad
  /\ \E status \in Statuses(Checks[at]) : Record(Checks[at], status, Cut(Checks[at], status))
  /\ UNCHANGED <<vars, host, config, gid, history>>

\* The adapter's settings() raises.
SettingsFail ==
  /\ at > 1 /\ Checks[at] = "provider.leak_protection"
  /\ Record(Checks[at], "FAIL", TRUE)
  /\ UNCHANGED <<vars, host, config, gid, history>>

-----------------------------------------------------------------------------
(* The surroundings *)

\* What history makes of every step during which preflight runs.
Watched ==
  /\ stubborn' = stubborn \intersect Troubles'
  /\ vanished' = (vanished \/ "group" \in bad')

HostChanges ==
  /\ at > 0 /\ changes < MaxChanges
  /\ UNCHANGED <<vars, check>>
  /\ changes' = changes + 1
  /\ \/ \E w \in Wrong : bad' = (bad \union {w}) \ (bad \intersect {w})
        /\ UNCHANGED network
     \/ network' \in Networks \ {network} /\ UNCHANGED bad
  /\ Watched

Switched ==
  /\ DaemonSwitches
  /\ UNCHANGED <<host, check>>
  /\ IF at > 0 THEN Watched ELSE UNCHANGED history

\* The setup script again, or its input: not while preflight runs.
SetUp ==
  /\ at = 0
  /\ \/ Begin \/ Preflight \/ Command \/ Verify \/ Killed \/ EditDocument \/ ResetNord
  /\ Forget

HostNext ==
  \/ BeginPreflight \/ LoadConfig \/ LookUpGroup \/ MakeCheck \/ SettingsFail
  \/ HostChanges \/ Switched \/ SetUp

HostSpec == HostInit /\ [][HostNext]_hostVars

-----------------------------------------------------------------------------
(* Properties *)

\* No early return makes a shorter report pass: a report without a failure has
\* made every check, and skipped none but the two that may be skipped.
PassedIsComplete ==
  answer = "passed" =>
    /\ report.PASS \union report.SKIP = CheckIds
    /\ report.SKIP \subseteq Optional

\* Nothing that was wrong all the time gets past preflight, although the checks
\* are made one after the other on a host that changes, except the group of a
\* file while the service group itself is being removed.
PassedMeansHeld ==
  answer = "passed" /\ ~vanished => stubborn \ {"control.socket_live"} = {}

\* A host that passes serves the dashboard on the management interface alone:
\* the address it listens at was the one of that interface, and not of the
\* public one, whatever the document says.
DashboardStaysPrivate ==
  answer = "passed" /\ changes = 0 =>
    /\ config.management \in DOMAIN network /\ network[config.management] = config.bind
    /\ config.public \in DOMAIN network /\ network[config.public] # config.bind
=============================================================================
