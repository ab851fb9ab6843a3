---------------------------- MODULE StatusReport ----------------------------
(***************************************************************************)
(* The answer to one STATUS request: what control/daemon.py asks of the    *)
(* provider, and status.py and dns_health.py of the host, one reading after *)
(* the other, while the gateway goes on changing.  A reading that fails in  *)
(* a way its collector foresees is left out of the report and named among  *)
(* its partial failures; any other exception loses the whole report.       *)
(*                                                                         *)
(* The current target's alias is left out (ControlDaemon has it).          *)
(***************************************************************************)
EXTENDS VpnProvider

CONSTANT Vps   \* the public address of the gateway itself

ASSUME VpsIsNoExit == Vps \notin Targets \union {None}

VARIABLES stage,   \* the reading that comes next
          report,  \* what has been read so far
          still    \* history: the gateway has not moved since the first reading

collection == <<stage, report, still>>

Stages == {"idle", "vpn", "settings", "public_ip", "dns", "system", "done", "lost"}
Components == {"vpn", "vpn_settings", "public_ip", "dns", "system"}
Addresses == Targets \union {Vps}
GatewayModes == {"VPN", "LOCKED", "DIRECT", "UNKNOWN"}

ASSUME NoneIsNoReading == None \notin GatewayModes \union TunnelStates

\* `read' holds the components the report has, `failures' partial_failures.
Report == [state : TunnelStates \union {None}, mode : GatewayModes \union {None},
           address : Addresses \union {None},
           read : SUBSET Components, failures : SUBSET Components]

NoReport == [state |-> None, mode |-> None, address |-> None, read |-> {}, failures |-> {}]

CollectionTypeOK ==
  /\ stage \in Stages
  /\ report \in Report
  /\ still \in BOOLEAN

CollectionInit ==
  /\ stage = "idle"
  /\ report = NoReport
  /\ still = TRUE

-----------------------------------------------------------------------------
(* The readings.  A Faulty variant is used by no action, only by the mutation *)
(* checks of PROJECT.json.                                                    *)

Read(component, filled) ==
  report' = [filled EXCEPT !.read = @ \union {component}]

\* A ProviderError or a StatusCollectionError, caught where it is raised.
Miss(component) ==
  report' = [report EXCEPT !.failures = @ \union {component}]

\* Any other exception (an OSError of subprocess.run, say) leaves dispatch.
Lose == stage' = "lost" /\ report' = NoReport

\* _with_gateway_mode.
FaultyModeOf(state, protection) ==
  IF state = "CONNECTED" THEN "VPN" ELSE IF protection = "on" THEN "LOCKED" ELSE "DIRECT"
ModeOf(state, protection) ==
  CASE state = "CONNECTED" -> "VPN"
    [] state = "DISCONNECTED" /\ protection = "on"  -> "LOCKED"
    [] state = "DISCONNECTED" /\ protection = "off" -> "DIRECT"
    [] OTHER -> "UNKNOWN"

\* The address under which the gateway's own request reaches the service.
PublicAddress ==
  IF tunnel = "CONNECTED" THEN {exit} ELSE IF killswitch = "off" THEN {Vps} ELSE {}

\* A locked gateway has no public address, and one whose mode is unknown is
\* not asked for it.
HasAddress(mode) == mode \in {"VPN", "DIRECT"}

ReadVpn ==
  /\ stage = "vpn"
  /\ \/ Read("vpn", [report EXCEPT !.state = tunnel]) /\ stage' = "settings"
     \/ Miss("vpn") /\ stage' = "dns"
     \/ Lose

\* Unknown protection is no failure: the settings command succeeded.
ReadSettings ==
  /\ stage = "settings"
  /\ \/ \E shown \in Shown(killswitch) :
          LET mode == ModeOf(report.state, shown)
          IN  /\ Read("vpn_settings", [report EXCEPT !.mode = mode])
              /\ stage' = IF HasAddress(mode) THEN "public_ip" ELSE "dns"
     \/ LET mode == ModeOf(report.state, "unknown")
        IN  /\ report' = [report EXCEPT !.mode = mode, !.failures = @ \union {"vpn_settings"}]
            /\ stage' = IF HasAddress(mode) THEN "public_ip" ELSE "dns"
     \/ Lose

\* collect_public_ip over verified HTTPS.
ReadAddress ==
  /\ stage = "public_ip"
  /\ \/ /\ \E a \in PublicAddress : Read("public_ip", [report EXCEPT !.address = a])
        /\ stage' = "dns"
     \/ Miss("public_ip") /\ stage' = "dns"
     \/ Lose

\* collect_dns_status and the probe behind it: nothing else in the model sees
\* whether the resolver is well, only whether its status could be had.
ReadDns ==
  /\ stage = "dns"
  /\ \/ (Read("dns", report) \/ Miss("dns")) /\ stage' = "system"
     \/ Lose

ReadSystem ==
  /\ stage = "system"
  /\ \/ (Read("system", report) \/ Miss("system")) /\ stage' = "done"
     \/ Lose

Collect == (ReadVpn \/ ReadSettings \/ ReadAddress \/ ReadDns \/ ReadSystem) /\ UNCHANGED providerVars

\* The history of every step, whoever takes it.
Watch ==
  still' = (stage' = "idle" \/ (still /\ UNCHANGED <<tunnel, exit, killswitch>>))

-----------------------------------------------------------------------------
(* Properties *)

\* Status does not raise false alarms, nor hide a leak: a report whose readings
\* were all taken while the gateway stood still says what the gateway is, and
\* the public address in it is the one that mode gives.
StillReportTrue ==
  stage = "done" /\ still
  => /\ report.mode = "VPN"    => tunnel = "CONNECTED" /\ report.address # Vps
     /\ report.mode = "LOCKED" => ~Exposed /\ report.address = None
     /\ report.mode = "DIRECT" => Exposed /\ report.address \in {Vps, None}

\* A component that is missing from a report is accounted for: its collector
\* failed and is named, or the gateway's mode has nothing to show for it.
AbsenceExplained ==
  stage = "done" =>
    /\ report.read \intersect report.failures = {}
    /\ \A c \in Components \ (report.read \union report.failures) :
         \/ c = "vpn_settings" /\ report.state = None
         \/ c = "public_ip" /\ ~HasAddress(report.mode)
=============================================================================
