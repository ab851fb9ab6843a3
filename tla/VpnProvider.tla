---------------------------- MODULE VpnProvider ----------------------------
(***************************************************************************)
(* The upstream VPN provider as the control daemon meets it.  The provider *)
(* itself (nordvpnd and its CLI) is not part of the repository: what is    *)
(* modelled is its tunnel, the exit the tunnel leads to, its kill switch   *)
(* and its firewall setting, and what each CLI command that the adapter in *)
(* src/snarkyctl/providers/nordvpn.py runs may do to them.                 *)
(*                                                                         *)
(* A command that reports success, fails or times out may have taken       *)
(* effect or not; only a successful `connect' is trusted to have connected *)
(* where it was asked to.  Settings survive a reboot, the tunnel does not, *)
(* and auto-connect is off (snarkypuss-nordvpn-configure.py verifies it),  *)
(* so a disconnected tunnel comes up only on a command.                    *)
(***************************************************************************)
CONSTANTS Targets,   \* target aliases a client may ask for
          None       \* Python's None

ASSUME NoneIsNoTarget == None \notin Targets

VARIABLES tunnel,      \* connection state of the provider
          exit,        \* the target the tunnel leads to
          killswitch,  \* leak protection, "on" or "off"
          firewall     \* the provider's firewall setting

providerVars == <<tunnel, exit, killswitch, firewall>>

TunnelStates == {"DISCONNECTED", "CONNECTING", "CONNECTED", "DISCONNECTING"}
Toggle       == {"on", "off"}

ProviderTypeOK ==
  /\ tunnel \in TunnelStates
  /\ exit \in Targets \union {None}
  /\ killswitch \in Toggle
  /\ firewall \in Toggle

\* The gateway as the setup leaves it, or as an earlier Direct request did.
ProviderInit ==
  /\ tunnel = "DISCONNECTED"
  /\ exit = None
  /\ killswitch \in Toggle
  /\ firewall \in Toggle

\* Forwarded traffic can leave through the VPS public address.
Exposed == killswitch = "off" /\ tunnel # "CONNECTED"

\* How running one CLI command ends for the adapter: normally, with a
\* ProviderError (timeout, exit status, unparseable output), or with any
\* other exception (an OSError of subprocess.run, say).
Outcomes == {"ok", "provider_error", "exception"}

DownTo(states) ==
  /\ tunnel' \in states
  /\ exit' = IF tunnel' = "DISCONNECTED" THEN None ELSE exit

CommandConnect(t, out) ==
  /\ \/ /\ tunnel' = "CONNECTED"
        /\ exit' = t
     \/ /\ out # "ok"
        /\ \/ tunnel' = "CONNECTING" /\ exit' = t
           \/ DownTo({tunnel, "DISCONNECTED"})
  /\ UNCHANGED <<killswitch, firewall>>

CommandDisconnect ==
  /\ \/ DownTo({tunnel, "DISCONNECTED"})
     \/ tunnel # "DISCONNECTED" /\ DownTo({"DISCONNECTING"})
  /\ UNCHANGED <<killswitch, firewall>>

CommandKillSwitch(value) ==
  /\ killswitch' \in {killswitch, value}
  /\ UNCHANGED <<tunnel, exit, firewall>>

\* What `nordvpn settings' shows of a toggle: its value, or a text the
\* adapter does not recognise.
Shown(toggle) == {toggle, "unknown"}

\* The tunnel moves by itself: a reconnect, a drop, the end of a connect or
\* disconnect whose command was given up.
TunnelMoves ==
  /\ \/ tunnel \in {"CONNECTED", "CONNECTING"}
        /\ DownTo({"CONNECTED", "CONNECTING", "DISCONNECTED"})
     \/ tunnel = "DISCONNECTING"
        /\ DownTo({"DISCONNECTED"})
  /\ UNCHANGED <<killswitch, firewall>>

TunnelLost ==
  /\ DownTo({"DISCONNECTED"})
  /\ UNCHANGED <<killswitch, firewall>>
=============================================================================
