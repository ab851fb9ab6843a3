------------------------- MODULE MCGatewayFiles -------------------------
(* A small instance of GatewayFiles: two usable setups and one that the     *)
(* generator refuses; a gateway made by hand that the parser reads as one   *)
(* of the first, one that it reads but the generator refuses, and one that  *)
(* it cannot read.                                                          *)
EXTENDS GatewayFiles, TLC

CONSTANTS s, t, x, plain, odd, tangled

Readings == (plain :> s) @@ (odd :> x) @@ (tangled :> None)

\* Keys are interchangeable.
Symmetry == Permutations(ServerKeys) \union Permutations(ClientKeys)
=============================================================================
