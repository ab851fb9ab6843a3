--------------------------- MODULE EditorSession ---------------------------
(***************************************************************************)
(* What the page and the catalogue behind it rely on in one another        *)
(* (managerRequest, loadManager, saveManager and cleanupUnavailableTargets *)
(* in static/dashboard.js): one request at a time, a replacement only of a *)
(* catalogue that is held and never by nothing, a cleanup only of what is  *)
(* held; and whoever hears that a replacement is done may take what was    *)
(* sent for what is stored.  A catalogue is a set of anything.             *)
(***************************************************************************)
VARIABLES asked, \* the request on its way: "none", "load", "save", "cleanup"
          sent,  \* the catalogue in it that may still come to be stored
          base,  \* committedCatalogue
          able   \* managerLoaded

sessionVars == <<asked, sent, base, able>>

Init == asked = "none" /\ sent = {} /\ base = {} /\ able = FALSE

\* A request as the page makes it.
Proper(ask, catalogue) ==
  /\ ask \in {"load", "save", "cleanup"}
  /\ ask = "load" => catalogue = {}
  /\ ask # "load" => able /\ catalogue # {}
  /\ ask = "cleanup" => catalogue \subseteq base

Ask  == asked = "none" /\ Proper(asked', sent') /\ UNCHANGED <<base, able>>
Over == asked # "none" /\ asked' = "none" /\ sent' = {}
Done == Over /\ able' = TRUE /\ (asked # "load" => sent # {} /\ base' = sent)
Fail == Over /\ able' = (able /\ asked # "load") /\ UNCHANGED base

\* A cleanup that failed and goes on at once with what was flagged meanwhile.
Again == /\ asked = "cleanup" /\ asked' = "cleanup" /\ Proper(asked', sent')
         /\ UNCHANGED <<base, able>>

\* The request dies with the daemon; the page has yet to learn of it.
Lose == asked # "none" /\ sent' = {} /\ UNCHANGED <<asked, base, able>>

Next == Ask \/ Done \/ Fail \/ Again \/ Lose

Spec == Init /\ [][Next]_sessionVars
=============================================================================
