---------------------------- MODULE MCDnsCutover ----------------------------
(* Small instances of DnsCutover: hosts that no older release has touched,   *)
(* with any of the faults, and hosts with its resolver, where commands may   *)
(* fail and scripts die, or nothing at all goes wrong.                       *)
EXTENDS DnsCutover

New == [faults : SUBSET Faults, old : {FALSE}, legacy : {{}}, stock : {"absent"}, backup : {FALSE}]

Grown == [faults : {{}, {"command", "kill"}}, old : {TRUE}, legacy : {LegacyFiles},
          stock : {"original", "marked"}, backup : {TRUE}]
         \union [faults : {{}}, old : {TRUE}, legacy : {{"dropin"}, {}},
                 stock : Contents, backup : BOOLEAN]

SomeHosts == New \union Grown
=============================================================================
