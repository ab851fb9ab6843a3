--------------------------- MODULE GatewayPolicy ---------------------------
(***************************************************************************)
(* What the control plane promises about public exposure, without saying   *)
(* how (docs/11_ARCHITECTURE.md, "No automatic Direct fallback"): leak     *)
(* protection goes off only under a grant, which only a Direct request     *)
(* gives and which a Protected or Locked request takes back once           *)
(* protection is on again.  Tunnels come and go as they like.              *)
(***************************************************************************)
VARIABLES granted, protection

policyVars == <<granted, protection>>

Init ==
  /\ protection \in {"on", "off"}
  /\ granted = (protection = "off")

RequestDirect == granted' = TRUE /\ UNCHANGED protection
SwitchOff     == granted /\ protection' = "off" /\ UNCHANGED granted
SwitchOn      == protection' = "on" /\ UNCHANGED granted
Revoke        == protection = "on" /\ granted' = FALSE /\ UNCHANGED protection

Next == RequestDirect \/ SwitchOff \/ SwitchOn \/ Revoke

Spec == Init /\ [][Next]_policyVars

\* Traffic can leave unprotected only if Direct was asked for and has not
\* been replaced by a confirmed protective mode since.
NoAutomaticDirect == protection = "off" => granted
=============================================================================
