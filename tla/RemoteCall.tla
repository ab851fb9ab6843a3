----------------------------- MODULE RemoteCall -----------------------------
(***************************************************************************)
(* What a client of the control daemon may rely on, whatever happens to    *)
(* the connection, the daemon or the client's patience in between: each    *)
(* call is performed at most once, its answer comes after that, and a call *)
(* reported as refused is not performed, then or later.  A caller that has *)
(* given up knows nothing: its call may still be performed.                *)
(***************************************************************************)
CONSTANT Calls

VARIABLES told,      \* what the caller has been told of its call
          performed  \* the calls the daemon has performed

vars == <<told, performed>>

Init ==
  /\ told = [c \in Calls |-> "idle"]
  /\ performed = {}

Ask(c) ==
  /\ told[c] = "idle"
  /\ told' = [told EXCEPT ![c] = "waiting"]
  /\ UNCHANGED performed

\* Not before it is asked, not twice, and not once it has been refused.
Perform(c) ==
  /\ told[c] \in {"waiting", "unknown"}
  /\ c \notin performed
  /\ performed' = performed \union {c}
  /\ UNCHANGED told

Answer(c) ==
  /\ told[c] = "waiting"
  /\ c \in performed
  /\ told' = [told EXCEPT ![c] = "performed"]
  /\ UNCHANGED performed

Refuse(c) ==
  /\ told[c] \in {"idle", "waiting"}
  /\ c \notin performed
  /\ told' = [told EXCEPT ![c] = "refused"]
  /\ UNCHANGED performed

GiveUp(c) ==
  /\ told[c] = "waiting"
  /\ told' = [told EXCEPT ![c] = "unknown"]
  /\ UNCHANGED performed

Next == \E c \in Calls : Ask(c) \/ Perform(c) \/ Answer(c) \/ Refuse(c) \/ GiveUp(c)

Spec == Init /\ [][Next]_vars
=============================================================================
