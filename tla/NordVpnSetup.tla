---------------------------- MODULE NordVpnSetup ----------------------------
(***************************************************************************)
(* scripts/snarkypuss-nordvpn-configure.py: the provider policy a gateway  *)
(* needs, set by one NordVPN command after another.  The kill switch comes *)
(* last: turned on before the exceptions for the WireGuard listener and    *)
(* the management subnet are in, it would cut the operator off.            *)
(*                                                                         *)
(* Between two runs the setup file may be edited and NordVPN changed by    *)
(* hand; during a run the control daemon may switch the kill switch, a     *)
(* command may fail or time out with or without effect, and the script may *)
(* die.                                                                    *)
(***************************************************************************)
EXTENDS Sequences, Naturals

CONSTANTS Policies,  \* values of a gateway policy: a port and its subnet
          None

ASSUME NoneIsNoPolicy == None \notin Policies

VARIABLES document,  \* the gateway policy in the setup file
          nord,      \* NordVPN's settings
          policy,    \* the one the running script has read, or None
          step,      \* how many commands of its plan it has run
          fault,     \* history: something went wrong since the script began
          verdict    \* what the last script reported

vars == <<document, nord, policy, step, fault, verdict>>
script == <<policy, step, verdict>>

Settings == [nordlynx : BOOLEAN, autoconnect : BOOLEAN, killswitch : BOOLEAN,
             ports : SUBSET Policies, subnets : SUBSET Policies]

TypeOK ==
  /\ document \in Policies
  /\ nord \in Settings
  /\ policy \in Policies \union {None}
  /\ step \in 0 .. 5
  /\ fault \in BOOLEAN
  /\ verdict \in {"none", "VERIFIED", "ERROR"}
  /\ policy # None => verdict = "none"

Init ==
  /\ document \in Policies
  /\ nord \in [nordlynx : BOOLEAN, autoconnect : BOOLEAN, killswitch : {FALSE},
               ports : {{}}, subnets : {{}}]
  /\ policy = None
  /\ step = 0
  /\ fault = FALSE
  /\ verdict = "none"

-----------------------------------------------------------------------------
(* The plan and its commands.  A Faulty variant is used by no action, only by *)
(* the mutation checks of PROJECT.json.                                       *)

FaultyPlan == <<"nordlynx", "autoconnect", "killswitch", "port", "subnet">>
Plan == <<"nordlynx", "autoconnect", "port", "subnet", "killswitch">>

\* NordVPN's settings once a command has taken effect.
Effect(command) ==
  [nordlynx    |-> nord.nordlynx \/ command = "nordlynx",
   autoconnect |-> nord.autoconnect /\ command # "autoconnect",
   killswitch  |-> nord.killswitch \/ command = "killswitch",
   ports       |-> IF command = "port" THEN nord.ports \union {policy} ELSE nord.ports,
   subnets     |-> IF command = "subnet" THEN nord.subnets \union {policy} ELSE nord.subnets]

\* The nonzero exit status with which NordVPN answers that an exception is
\* there already.
Duplicate(command) ==
  \/ command = "port" /\ policy \in nord.ports
  \/ command = "subnet" /\ policy \in nord.subnets

Results(command) == {IF Duplicate(command) THEN "duplicate" ELSE "ok", "failed"}

\* `checked': a duplicate exception is as good as success, any other failure
\* ends the script.
FaultyStrict(result) == result = "ok"
FaultyLenient(result) == TRUE
Accepted(result) == result \in {"ok", "duplicate"}

\* verify_settings: the exceptions are not among the settings it looks at.
Verified == nord.nordlynx /\ nord.killswitch /\ ~nord.autoconnect

End(v) ==
  /\ policy' = None
  /\ step' = 0
  /\ verdict' = v

-----------------------------------------------------------------------------
(* The script *)

\* The policy is read once; a dry run, a missing --console-confirmed or an
\* unknown NordVPN version ends before any command and changes nothing
\* (Preflight; a dry run also as Killed, without an error).
Begin ==
  /\ policy = None
  /\ policy' = document
  /\ step' = 0
  /\ fault' = FALSE
  /\ verdict' = "none"
  /\ UNCHANGED <<document, nord>>

Preflight ==
  /\ policy # None
  /\ step = 0
  /\ fault' = TRUE
  /\ End("ERROR")
  /\ UNCHANGED <<document, nord>>

\* One command: a failure may have had its effect (a timeout) or not.
Command ==
  /\ policy # None
  /\ step < Len(Plan)
  /\ LET command == Plan[step + 1]
     IN \E result \in Results(command) :
          /\ \/ nord' = Effect(command)
             \/ result = "failed" /\ nord' = nord
          /\ fault' = (fault \/ result = "failed")
          /\ IF Accepted(result)
             THEN step' = step + 1 /\ UNCHANGED <<policy, verdict>>
             ELSE End("ERROR")
  /\ UNCHANGED document

Verify ==
  /\ policy # None
  /\ step = Len(Plan)
  /\ \/ Verified /\ End("VERIFIED") /\ UNCHANGED fault
     \/ ~Verified /\ End("ERROR") /\ UNCHANGED fault
     \/ fault' = TRUE /\ End("ERROR")    \* `nordvpn settings' itself fails
  /\ UNCHANGED <<document, nord>>

Killed ==
  /\ policy # None
  /\ End("none")
  /\ UNCHANGED <<document, nord, fault>>

-----------------------------------------------------------------------------
(* The surroundings *)

\* The control daemon switches leak protection, whatever the script is doing.
DaemonSwitches ==
  /\ nord' = [nord EXCEPT !.killswitch = ~@]
  /\ fault' = (fault \/ policy # None)
  /\ UNCHANGED <<document, script>>

\* Between two runs: the setup file edited, NordVPN reset.
EditDocument ==
  /\ policy = None
  /\ document' \in Policies \ {document}
  /\ verdict' = "none"
  /\ UNCHANGED <<nord, policy, step, fault>>

ResetNord ==
  /\ policy = None
  /\ nord' \in [nordlynx : BOOLEAN, autoconnect : BOOLEAN, killswitch : {FALSE},
                ports : {{}}, subnets : {{}}]
  /\ verdict' = "none"
  /\ UNCHANGED <<document, policy, step, fault>>

Next == \/ Begin \/ Preflight \/ Command \/ Verify \/ Killed
        \/ DaemonSwitches \/ EditDocument \/ ResetNord

Spec == Init /\ [][Next]_vars

-----------------------------------------------------------------------------
(* Properties *)

ExceptionsIn(p) == p \in nord.ports /\ p \in nord.subnets

\* The script itself turns the kill switch on only where both exceptions of
\* the policy it read are in, whatever failed or timed out before: a step of
\* `apply_policy' never locks the operator out.
KillSwitchGuarded ==
  [][policy # None /\ nord'.killswitch /\ ~nord.killswitch /\ script' # script
       => ExceptionsIn(policy)]_vars

\* "VERIFIED" is reported only of a NordVPN that has all of the policy, the
\* exceptions included, although the settings it verifies do not show them.
VerifiedIsComplete ==
  [][verdict' = "VERIFIED" /\ verdict # "VERIFIED" =>
       /\ nord.nordlynx /\ nord.killswitch /\ ~nord.autoconnect
       /\ ExceptionsIn(policy)]_vars

\* Wherever earlier runs stopped, a run in which nothing fails succeeds: what
\* is already there is no error.
ErrorHasCause == verdict = "ERROR" => fault
=============================================================================
