---------------------------- MODULE GatewayFiles ----------------------------
(***************************************************************************)
(* The files of a gateway and the two scripts that write them:             *)
(* scripts/snarkypuss-configure.py generates them from the setup file, and *)
(* scripts/snarkypuss-migrate.py takes over a gateway that was set up by   *)
(* hand (--prepare: a backup, three files, then the generator), undoing    *)
(* what it did when a step fails, or later on demand (--restore, of any    *)
(* earlier backup).                                                        *)
(*                                                                         *)
(* A file is replaced whole (atomic_write renames a finished copy), so the *)
(* steps are file by file; after each the script may die.  Of what a file  *)
(* says the model keeps the WireGuard settings it was made from and the    *)
(* keys in it; the DNS servers and the exit interface are left out.        *)
(***************************************************************************)
EXTENDS Naturals, Sequences

CONSTANTS ServerKeys,   \* private keys of the WireGuard server
          ClientKeys,   \* public keys of the client
          Setups,       \* WireGuard settings a setup file can express
          Unusable,     \* those the generator refuses
          HandWritten,  \* WireGuard configurations written by hand, but for the keys
          Reading,      \* what parse_wireguard makes of one: a setup, or None
          None,
          MaxBackups,   \* bound: runs of --prepare
          MaxUpsets     \* bound: edits of files, steps that fail, kills

ASSUME SomeAreUnusable == Unusable \subseteq Setups
ASSUME ReadingIsSetup == Reading \in [HandWritten -> Setups \union {None}]
ASSUME HandsDiffer == HandWritten \intersect Setups = {}
ASSUME NoneIsNothing ==
  None \notin ServerKeys \union ClientKeys \union Setups \union HandWritten \union {"standard"}
ASSUME BoundsAreNat == MaxBackups \in Nat /\ MaxUpsets \in Nat

VARIABLES files,    \* the file system
          backups,  \* what each --prepare captured, the oldest first
          chosen,   \* the backup in use: of the migration, or given to --restore
          program,  \* the script at work
          nested,   \* configure runs inside --prepare
          todo,     \* the files it has still to write, in order
          values, peer, key,  \* what it has read: settings, client's and server's key
          outcome,  \* how the last script ended, until something else happens
          upsets,
          found     \* history: the files as each --prepare found them

input == <<values, peer, key>>
taken == <<backups, found>>
vars  == <<files, taken, chosen, program, nested, todo, input, outcome, upsets>>

-----------------------------------------------------------------------------
(* Files *)

\* The WireGuard configuration and the server's key; the files generated beside
\* them; the setup with the client's key; and all other files a migration
\* captures, which neither script writes (the saved firewall rules among them).
Files == {"conf", "key", "dns", "unit", "sysctl", "setup", "client", "other"}

Text    == Setups \union HandWritten \union {"standard", None}
Content == [values : Text, peer : ClientKeys \union {None}, key : ServerKeys \union {None}]
Made(v, p, k) == [values |-> v, peer |-> p, key |-> k]
Absent   == Made(None, None, None)
There(f) == files[f] # Absent

\* What the migration backs up and restores, in this order.
FaultyManagedPaths == <<"conf", "key", "dns", "sysctl", "other", "setup", "client">>
ManagedPaths == <<"conf", "key", "dns", "unit", "other", "sysctl", "setup", "client">>
Managed == {ManagedPaths[i] : i \in DOMAIN ManagedPaths}

\* What --prepare writes before it runs the generator, and what that writes.
FaultyPreparation == <<"key", "client">>
Preparation == <<"key", "client", "setup">>
FaultyGeneration(missing) ==
  IF missing THEN <<"conf", "key", "dns", "unit", "sysctl">>
  ELSE <<"conf", "dns", "unit", "sysctl">>
Generation(missing) ==
  IF missing THEN <<"key", "conf", "dns", "unit", "sysctl">>
  ELSE <<"conf", "dns", "unit", "sysctl">>

\* What they write; the unit and the sysctl file do not depend on the settings.
Written(f) ==
  Made(IF f \in {"conf", "dns", "setup"} THEN values
         ELSE IF f \in {"unit", "sysctl"} THEN "standard" ELSE None,
       IF f \in {"conf", "client"} THEN peer ELSE None,
       IF f \in {"conf", "key"} THEN key ELSE None)

-----------------------------------------------------------------------------
(* Types *)

Programs == {"idle", "prepare", "configure", "undo", "restore"}
Outcomes == {"none", "prepared", "configured", "undone", "restored", "failed", "killed"}

TypeOK ==
  /\ files \in [Files -> Content]
  /\ backups \in Seq([Managed -> Content])
  /\ found \in Seq([Files -> Content])
  /\ Len(found) = Len(backups) /\ Len(backups) <= MaxBackups
  /\ chosen \in 0 .. Len(backups)
  /\ program \in Programs
  /\ nested \in BOOLEAN
  /\ todo \in Seq(Files)
  /\ values \in Text /\ peer \in ClientKeys \union {None} /\ key \in ServerKeys \union {None}
  /\ outcome \in Outcomes
  /\ upsets \in 0 .. MaxUpsets

\* A new host, or a gateway set up by hand, its server key in the configuration,
\* in the file the generator uses, or in both, where the two may differ.
NewHost == [f \in Files |-> Absent]
HandMade(w, p, inline, filed) ==
  [NewHost EXCEPT !["conf"] = Made(w, p, inline),
                  !["key"] = Made(None, None, filed),
                  !["other"] = Made(w, None, None)]
Places == (ServerKeys \union {None}) \X (ServerKeys \union {None}) \ {<<None, None>>}

Init ==
  /\ files \in {NewHost} \union
               {HandMade(w, p, k[1], k[2]) : w \in HandWritten, p \in ClientKeys, k \in Places}
  /\ backups = <<>> /\ found = <<>> /\ chosen = 0
  /\ program = "idle" /\ nested = FALSE /\ todo = <<>>
  /\ values = None /\ peer = None /\ key = None
  /\ outcome = "none"
  /\ upsets = 0

-----------------------------------------------------------------------------
(* The decisions the code takes; a Faulty variant is used by no action, only  *)
(* by the mutation checks of PROJECT.json.                                    *)

\* parse_wireguard: of a configuration written by hand the settings a setup file
\* can express, without its hooks and all but its first addresses; a generated
\* one has nothing else.  Of the server's key it accepts one, in either place.
Parsed(conf) == IF conf.values \in HandWritten THEN Reading[conf.values] ELSE conf.values

KeysIn(fs) == {fs["conf"].key, fs["key"].key} \ {None}

Readable ==
  /\ There("conf")
  /\ Parsed(files["conf"]) # None
  /\ \E k \in ServerKeys : KeysIn(files) = {k}

\* A configuration without the key file, which the generator refuses to touch.
Locked == There("conf") /\ ~There("key")

\* read_setup, and the refusal to rotate an unknown key.
Refuses ==
  \/ ~There("setup") \/ ~There("client")
  \/ files["setup"].values \in Unusable
  \/ Locked

\* An existing key is kept, a missing one generated.
FaultyServerKey == ServerKeys
ServerKey == IF There("key") THEN {files["key"].key} ELSE ServerKeys

\* A step that fails ends the script; in --prepare the files are restored first.
AfterFailure == IF program = "prepare" \/ nested THEN "undo" ELSE "idle"

-----------------------------------------------------------------------------
(* The operator, who runs one script at a time *)

Idle  == program = "idle"
Upset == upsets < MaxUpsets /\ upsets' = upsets + 1

\* The setup file is edited, and the client's key put in place.
EditSetup ==
  /\ Idle /\ Upset
  /\ \E v \in Setups, p \in ClientKeys :
       files' = [files EXCEPT !["setup"] = Made(v, None, None), !["client"] = Made(None, p, None)]
  /\ outcome' = "none"
  /\ UNCHANGED <<taken, chosen, program, nested, todo, input>>

\* Other tools change other files; an activation saves its rules.
OtherChange ==
  /\ Idle /\ Upset
  /\ \E w \in HandWritten : files' = [files EXCEPT !["other"] = Made(w, None, None)]
  /\ outcome' = "none"
  /\ UNCHANGED <<taken, chosen, program, nested, todo, input>>

Begin(script, inner, list) ==
  /\ program' = script
  /\ nested' = inner
  /\ todo' = list
  /\ outcome' = "none"

End(result) ==
  /\ program' = "idle"
  /\ nested' = FALSE
  /\ todo' = <<>>
  /\ outcome' = result

Give(next) == IF next = "undo" THEN Begin("undo", FALSE, ManagedPaths) ELSE End("failed")

-----------------------------------------------------------------------------
(* The scripts *)

\* --prepare reads the gateway and backs it up; without a finished manifest
\* nothing has happened.
Prepare ==
  /\ Idle /\ Len(backups) < MaxBackups
  /\ Readable
  /\ Begin("prepare", FALSE, Preparation)
  /\ backups' = Append(backups, [f \in Managed |-> files[f]])
  /\ found' = Append(found, files)
  /\ chosen' = Len(backups) + 1
  /\ values' = Parsed(files["conf"])
  /\ peer' = files["conf"].peer
  /\ key' \in KeysIn(files)
  /\ UNCHANGED <<files, upsets>>

\* configure --apply, by the operator or as the last step of --prepare.
Configure ==
  /\ Idle \/ (program = "prepare" /\ todo = <<>>)
  /\ IF Refuses
     THEN Give(AfterFailure) /\ UNCHANGED input
     ELSE /\ \E k \in ServerKey : key' = k
          /\ values' = files["setup"].values
          /\ peer' = files["client"].peer
          /\ Begin("configure", program = "prepare", Generation(~There("key")))
  /\ UNCHANGED <<files, taken, chosen, upsets>>

\* One file is written, or cannot be.
Write ==
  /\ program \in {"prepare", "configure"}
  /\ todo # <<>>
  /\ \/ /\ files' = [files EXCEPT ![Head(todo)] = Written(Head(todo))]
        /\ todo' = Tail(todo)
        /\ UNCHANGED <<program, nested, outcome, upsets>>
     \/ Upset /\ Give(AfterFailure) /\ UNCHANGED files
  /\ UNCHANGED <<taken, chosen, input>>

Finish ==
  /\ program = "configure"
  /\ todo = <<>>
  /\ End(IF nested THEN "prepared" ELSE "configured")
  /\ UNCHANGED <<files, taken, chosen, input, upsets>>

\* --restore, of the backup of any --prepare; it may be repeated.
Restore ==
  /\ Idle
  /\ chosen' \in DOMAIN backups
  /\ Begin("restore", FALSE, ManagedPaths)
  /\ UNCHANGED <<files, taken, input, upsets>>

\* One file is put back or removed; a failure ends the restoration.
RestoreFile ==
  /\ program \in {"undo", "restore"}
  /\ todo # <<>>
  /\ \/ /\ files' = [files EXCEPT ![Head(todo)] = backups[chosen][Head(todo)]]
        /\ todo' = Tail(todo)
        /\ UNCHANGED <<program, nested, outcome, upsets>>
     \/ Upset /\ End("failed") /\ UNCHANGED files
  /\ UNCHANGED <<taken, chosen, input>>

FinishRestore ==
  /\ program \in {"undo", "restore"}
  /\ todo = <<>>
  /\ End(IF program = "undo" THEN "undone" ELSE "restored")
  /\ UNCHANGED <<files, taken, chosen, input, upsets>>

\* What runs dies; or only one of the migration and its generator: without the
\* first the second goes on by itself, without the second the first undoes.
Kill ==
  /\ ~Idle /\ Upset
  /\ \/ End("killed")
     \/ nested /\ nested' = FALSE /\ UNCHANGED <<program, todo, outcome>>
     \/ nested /\ Give("undo")
  /\ UNCHANGED <<files, taken, chosen, input>>

-----------------------------------------------------------------------------
Next ==
  \/ EditSetup \/ OtherChange
  \/ Prepare \/ Configure \/ Write \/ Finish
  \/ Restore \/ RestoreFile \/ FinishRestore
  \/ Kill

Spec == Init /\ [][Next]_vars

-----------------------------------------------------------------------------
(* Properties *)

\* The server's key is never rotated: through preparations, generations and
\* restorations of any backup, each of which may stop anywhere and be run again,
\* a host that has a server key gets no other one and never loses the last it
\* has.  (Of a gateway whose two places hold different keys, which the migration
\* refuses, the generator keeps the one in the key file and drops the other.)
ServerKeyNeverRotated ==
  [][KeysIn(files) # {} => KeysIn(files') # {} /\ KeysIn(files') \subseteq KeysIn(files)]_vars

\* The scripts do not shut themselves out: a configuration that one of them wrote,
\* or that was migrated before, can be migrated again, whatever was interrupted
\* since; and only a restoration, which may have no key file to bring back or be
\* stopped before it does, leaves the generator without one.
NeverLockedOut ==
  /\ [](There("conf") /\ (files["conf"].values \notin HandWritten \/ backups # <<>>) => Readable)
  /\ [][Locked' => Locked \/ program \in {"undo", "restore"}]_vars

\* A restoration that reports success has brought back every file as the
\* --prepare of its backup found it, whatever was generated, edited, restored,
\* interrupted or tried before; a failed preparation that says it restored the
\* files has.
RestoreRestores == outcome \in {"undone", "restored"} => files = found[chosen]

\* A migration that succeeds has generated a gateway with the two keys and with
\* the settings the parser could read of the one it found, from no other setup
\* or client key that lay about.  What a setup file cannot express is dropped,
\* until the backup is restored.
PreparedKeepsGateway ==
  outcome = "prepared" =>
    LET conf == found[chosen]["conf"]
    IN  /\ KeysIn(found[chosen]) = {files["conf"].key} /\ KeysIn(files) = {files["conf"].key}
        /\ files["conf"].peer = conf.peer /\ files["client"].peer = conf.peer
        /\ \A f \in {"conf", "dns", "setup"} : files[f].values = Parsed(conf)
        /\ \A f \in {"key", "unit", "sysctl"} : There(f)
=============================================================================
