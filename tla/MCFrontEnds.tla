---------------------------- MODULE MCFrontEnds ----------------------------
(* A small instance of FrontEnds: one exit and one user, whom an edit of the *)
(* auth file may shut out; a request or command of any kind that makes two   *)
(* calls, reads the status or writes, beside another one that may operate    *)
(* the gateway meanwhile, load the runtime first or be given up.             *)
EXTENDS FrontEnds

CONSTANTS r, s

SomeRoutes ==
  [q \in Requests |->
     IF q = r
     THEN {<<"web", "status_v1">>, <<"web", "read">>, <<"web", "replace">>,
           <<"cli", "list">>, <<"cli", "operate">>, <<"cli", "replace">>}
     ELSE {<<"web", "operate">>}]

\* Texts at the edges of the patterns.
EdgeTexts == [first : {"letter", "digit", "other"}, rest : {"code", "spaced", "other"},
              lower : BOOLEAN, length : {1, 2, 32, 33, 100, 101}]

\* FrontEndsProofs shows this of every set of texts; TLC evaluates it at the edges.
ASSUME SelectorsAgree ==
  SchemaIsServed(EdgeTexts) /\ OfferedIsStored(EdgeTexts) /\ StoredStaysValid(EdgeTexts)
=============================================================================
