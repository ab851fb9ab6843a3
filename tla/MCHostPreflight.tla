-------------------------- MODULE MCHostPreflight --------------------------
(* A small instance of HostPreflight: two policies of the NordVPN setup, a   *)
(* host with a private and a public interface, of which the private one may  *)
(* be missing, and documents that mistake one for the other.                 *)
EXTENDS HostPreflight, TLC

Symmetry == Permutations(Policies)

SomeDocuments ==
  [management : {"wg", "eth"}, public : {"eth"}, upstream : {{"tun"}},
   address : {"private", "public"}, bind : {"private", "public"}, backends : {{"sqlite"}}]

SomeNetworks == {[wg |-> "private", eth |-> "public"], [eth |-> "public"]}

Anything == ((CheckIds \ {"config.schema", "exposure.policy"})
             \ {"network.management_interface", "network.public_interface",
                "network.management_address", "provider.leak_protection"})
            \union {"config", "group", "file.auth group", "file.tls_private_key group", "expired"}
=============================================================================
