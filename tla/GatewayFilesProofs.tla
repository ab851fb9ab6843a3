------------------------- MODULE GatewayFilesProofs -------------------------
(***************************************************************************)
(* Proofs about GatewayFiles, for any keys, settings, readings of the       *)
(* parser and numbers of backups and upsets.                                *)
(***************************************************************************)
EXTENDS GatewayFiles, SequenceTheorems, TLAPS

-----------------------------------------------------------------------------
(* Lists of files, of which a script works off one after the other *)

\* A list without its first n members.
Suffix(list, n) == [i \in 1 .. Len(list) - n |-> list[i + n]]

LEMMA WholeList ==
  ASSUME NEW S, NEW list \in Seq(S) PROVE Suffix(list, 0) = list
BY DEF Suffix

\* One step: the file at the head is the next one of the list.
LEMMA NextFile ==
  ASSUME NEW S, NEW list \in Seq(S), NEW n \in 0 .. Len(list), Suffix(list, n) # <<>>
  PROVE  /\ n < Len(list)
         /\ Head(Suffix(list, n)) = list[n + 1]
         /\ Tail(Suffix(list, n)) = Suffix(list, n + 1)
<1>1. Len(list) \in Nat /\ Suffix(list, n) \in Seq(S)
  BY DEF Suffix
<1>2. Len(Suffix(list, n)) = Len(list) - n
  BY <1>1 DEF Suffix
<1>3. Len(list) - n # 0
  BY <1>1, <1>2
<1>4. n < Len(list)
  BY <1>1, <1>3
<1>5. Head(Suffix(list, n)) = list[n + 1]
  BY <1>1, <1>4 DEF Suffix
<1>6. /\ Tail(Suffix(list, n)) \in Seq(S)
      /\ Len(Tail(Suffix(list, n))) = Len(list) - (n + 1)
      /\ \A i \in 1 .. Len(list) - (n + 1) : Tail(Suffix(list, n))[i] = Suffix(list, n)[i + 1]
  BY <1>1, <1>2, HeadTailProperties
<1>7. \A i \in 1 .. Len(list) - (n + 1) : Suffix(list, n)[i + 1] = list[i + (n + 1)]
  BY <1>1 DEF Suffix
<1>8. Tail(Suffix(list, n)) = Suffix(list, n + 1)
  <2>1. Suffix(list, n + 1) \in Seq(S) /\ Len(Suffix(list, n + 1)) = Len(list) - (n + 1)
    BY <1>1, <1>4 DEF Suffix
  <2>2. \A i \in 1 .. Len(list) - (n + 1) : Suffix(list, n + 1)[i] = list[i + (n + 1)]
    BY DEF Suffix
  <2>. QED BY <1>6, <1>7, <2>1, <2>2, SeqEqual
<1>. QED BY <1>4, <1>5, <1>8

LEMMA AllWorkedOff ==
  ASSUME NEW S, NEW list \in Seq(S), NEW n \in 0 .. Len(list), Suffix(list, n) = <<>>
  PROVE  n = Len(list)
<1>1. Len(Suffix(list, n)) = Len(list) - n
  BY DEF Suffix
<1>. QED BY <1>1

LEMMA Lists ==
  /\ ManagedPaths \in Seq(Files) /\ Len(ManagedPaths) = 8 /\ Managed = Files
  /\ Preparation \in Seq(Files) /\ Len(Preparation) = 3
  /\ {Preparation[i] : i \in 1 .. 3} = {"key", "client", "setup"}
  /\ \A missing \in BOOLEAN :
       /\ Generation(missing) \in Seq(Files)
       /\ {Generation(missing)[i] : i \in 1 .. Len(Generation(missing))} \ {"key"}
            = {"conf", "dns", "unit", "sysctl"}
       /\ missing => Head(Generation(missing)) = "key" /\ Generation(missing) # <<>>
<1>1. ManagedPaths \in Seq(Files) /\ Len(ManagedPaths) = 8 /\ Managed = Files
  <2>1. ManagedPaths \in Seq(Files) /\ Len(ManagedPaths) = 8 /\ DOMAIN ManagedPaths = 1 .. 8
    BY DEF ManagedPaths, Files
  <2>2. Managed \subseteq Files
    <3>1. \A i \in 1 .. 8 : ManagedPaths[i] \in Files
      BY <2>1, ElementOfSeq
    <3>. QED BY <2>1, <3>1 DEF Managed
  <2>3. Files \subseteq Managed
    BY <2>1 DEF Managed, ManagedPaths, Files
  <2>. QED BY <2>1, <2>2, <2>3
<1>2. Preparation \in Seq(Files) /\ Len(Preparation) = 3
  BY DEF Preparation, Files
<1>3. {Preparation[i] : i \in 1 .. 3} = {"key", "client", "setup"}
  BY DEF Preparation
<1>4. ASSUME NEW missing \in BOOLEAN
      PROVE  /\ Generation(missing) \in Seq(Files)
             /\ {Generation(missing)[i] : i \in 1 .. Len(Generation(missing))} \ {"key"}
                  = {"conf", "dns", "unit", "sysctl"}
             /\ missing => Head(Generation(missing)) = "key" /\ Generation(missing) # <<>>
  <2>1. CASE missing
    <3>1. Generation(missing) = <<"key", "conf", "dns", "unit", "sysctl">>
      BY <2>1 DEF Generation
    <3>2. Len(Generation(missing)) = 5
      BY <3>1
    <3>. QED BY <3>1, <3>2 DEF Files
  <2>2. CASE ~missing
    <3>1. Generation(missing) = <<"conf", "dns", "unit", "sysctl">>
      BY <2>2 DEF Generation
    <3>2. Len(Generation(missing)) = 4
      BY <3>1
    <3>. QED BY <2>2, <3>1, <3>2 DEF Files
  <2>. QED BY <2>1, <2>2
<1>. QED BY <1>1, <1>2, <1>3, <1>4

-----------------------------------------------------------------------------
(* The inductive invariant *)

Writing == program \in {"prepare", "configure"}
Undoing == program \in {"undo", "restore"}
Migrating == program = "prepare" \/ nested

\* Who runs inside whom, and that a migration or a restoration has its backup.
Roles ==
  /\ nested => program = "configure"
  /\ Migrating \/ Undoing => chosen \in DOMAIN backups
  /\ program # "idle" => outcome = "none"
  /\ backups = found

\* What each file holds: the key file a key, the configuration and the setup
\* settings, and a configuration that the generator wrote the server's key.
SoundFile(f, x) ==
  /\ f = "key" /\ x # Absent => x.key \in ServerKeys
  /\ f = "conf" /\ x # Absent => x.values \in Setups \union HandWritten
  /\ f = "conf" /\ x # Absent /\ x.values \notin HandWritten => x.key \in ServerKeys
  /\ f = "setup" /\ x # Absent => x.values \in Setups
Sound ==
  /\ \A f \in Files : SoundFile(f, files[f])
  /\ \A i \in DOMAIN backups : \A f \in Files : SoundFile(f, backups[i][f])

\* A configuration that the generator wrote agrees with the key file; and what
\* the scripts write is the key in the file, or the first key of a new host.
Agree ==
  /\ There("conf") /\ files["conf"].values \notin HandWritten /\ There("key")
     => files["conf"].key = files["key"].key
  /\ Writing =>
       /\ key \in ServerKeys /\ values \in Setups
       /\ There("key") => files["key"].key = key
  /\ program = "configure" /\ ~There("key") =>
       ~There("conf") /\ todo # <<>> /\ Head(todo) = "key"

\* Once a gateway was migrated there is one server key, in its files, in every
\* backup and in the hands of the script that writes; and it is in all their
\* configurations or in all their key files, so that no mixture of them loses it.
OneKey(c, k) ==
  /\ c["conf"] # Absent /\ Parsed(c["conf"]) # None
  /\ c["conf"].key \in {k, None} /\ c["key"].key \in {k, None}
Throughout(f, k) == files[f].key = k /\ \A i \in DOMAIN backups : backups[i][f].key = k
Held(k) ==
  /\ OneKey(files, k) /\ \A i \in DOMAIN backups : OneKey(backups[i], k)
  /\ Throughout("conf", k) \/ Throughout("key", k)
  /\ Writing => key = k
Backed == backups # <<>> => \E k \in ServerKeys : Held(k)

\* How far the script at work has come in its list.
Restored(n) ==
  /\ todo = Suffix(ManagedPaths, n)
  /\ \A i \in 1 .. n : files[ManagedPaths[i]] = backups[chosen][ManagedPaths[i]]
Done(list, n) ==
  /\ todo = Suffix(list, n)
  /\ \A i \in 1 .. n : files[list[i]] = Written(list[i])

Progress ==
  /\ Undoing => \E n \in 0 .. 8 : Restored(n)
  /\ program = "prepare" => \E n \in 0 .. 3 : Done(Preparation, n)
  /\ program = "configure" =>
       \E missing \in BOOLEAN : \E n \in 0 .. Len(Generation(missing)) :
          Done(Generation(missing), n)
  /\ Migrating => values = Parsed(found[chosen]["conf"]) /\ peer = found[chosen]["conf"].peer
  /\ nested => \A f \in {"key", "setup", "client"} : files[f] = Written(f)

GInv == /\ TypeOK /\ Roles /\ Sound /\ Agree /\ Backed /\ Progress
        /\ RestoreRestores /\ PreparedKeepsGateway

-----------------------------------------------------------------------------
(* What is in a file *)

LEMMA Contents ==
  /\ Absent \in Content /\ Absent.values = None /\ Absent.peer = None /\ Absent.key = None
  /\ \A v \in Text, p \in ClientKeys \union {None}, k \in ServerKeys \union {None} :
       /\ Made(v, p, k) \in Content
       /\ Made(v, p, k).values = v /\ Made(v, p, k).peer = p /\ Made(v, p, k).key = k
       /\ v # None \/ p # None \/ k # None => Made(v, p, k) # Absent
  /\ Setups \subseteq Text /\ HandWritten \subseteq Text /\ None \in Text
  /\ "standard" \in Text
  /\ None \notin Setups /\ None \notin HandWritten /\ None \notin ServerKeys
  /\ None \notin ClientKeys /\ None # "standard"
BY NoneIsNothing DEF Absent, Content, Made, Text

LEMMA WhatIsWritten ==
  ASSUME TypeOK, key \in ServerKeys, NEW f \in Files
  PROVE  /\ Written(f) \in Content
         /\ f \in {"conf", "dns", "setup"} => Written(f).values = values
         /\ f \in {"conf", "client"} => Written(f).peer = peer
         /\ f \in {"conf", "key"} => Written(f).key = key /\ Written(f) # Absent
         /\ f \in {"unit", "sysctl"} => Written(f) # Absent
<1>. DEFINE v == IF f \in {"conf", "dns", "setup"} THEN values
                   ELSE IF f \in {"unit", "sysctl"} THEN "standard" ELSE None
            p == IF f \in {"conf", "client"} THEN peer ELSE None
            k == IF f \in {"conf", "key"} THEN key ELSE None
<1>1. v \in Text /\ p \in ClientKeys \union {None} /\ k \in ServerKeys \union {None}
  BY Contents DEF TypeOK
<1>2. Written(f) = Made(v, p, k)
  BY DEF Written
<1>3. /\ Written(f) \in Content /\ Written(f).values = v /\ Written(f).peer = p
      /\ Written(f).key = k /\ (v # None \/ p # None \/ k # None => Written(f) # Absent)
  BY <1>1, <1>2, Contents
<1>. QED BY <1>3, Contents

\* What the scripts write is sound, and settings the parser reads are a setup's.
LEMMA WrittenIsSound ==
  ASSUME TypeOK, key \in ServerKeys, values \in Setups, NEW f \in Files
  PROVE  SoundFile(f, Written(f))
BY WhatIsWritten DEF SoundFile

LEMMA ParsedIsSetup ==
  ASSUME NEW x, SoundFile("conf", x), x # Absent, Parsed(x) # None
  PROVE  Parsed(x) \in Setups
<1>1. CASE x.values \in HandWritten
  BY <1>1, ReadingIsSetup DEF Parsed
<1>2. CASE x.values \notin HandWritten
  BY <1>2 DEF Parsed, SoundFile
<1>. QED BY <1>1, <1>2

\* Settings of a setup are read as they are.
LEMMA SetupIsParsed ==
  ASSUME NEW x, x.values \in Setups
  PROVE  Parsed(x) = x.values /\ Parsed(x) # None
BY HandsDiffer, Contents DEF Parsed

\* Of a gateway migrated before, the files hold the one key.
LEMMA HeldKeys ==
  ASSUME NEW k \in ServerKeys, Held(k)
  PROVE  /\ KeysIn(files) = {k}
         /\ \A i \in DOMAIN backups : KeysIn(backups[i]) = {k}
         /\ There("conf") /\ Parsed(files["conf"]) # None
BY Contents DEF Held, OneKey, Throughout, KeysIn, There

LEMMA InitGInv == Init => GInv
<1>. SUFFICES ASSUME Init PROVE GInv
  OBVIOUS
<1>1. /\ backups = <<>> /\ found = <<>> /\ chosen = 0 /\ program = "idle" /\ nested = FALSE
      /\ todo = <<>> /\ values = None /\ peer = None /\ key = None /\ outcome = "none"
      /\ upsets = 0
  BY DEF Init
<1>2. /\ files \in [Files -> Content]
      /\ \A f \in Files : SoundFile(f, files[f])
      /\ There("conf") => files["conf"].values \in HandWritten
  <2>1. CASE files = NewHost
    BY <2>1, Contents DEF NewHost, There, SoundFile, Files
  <2>2. ASSUME NEW w \in HandWritten, NEW p \in ClientKeys, NEW k \in Places,
               files = HandMade(w, p, k[1], k[2])
        PROVE  /\ files \in [Files -> Content]
               /\ \A f \in Files : SoundFile(f, files[f])
               /\ There("conf") => files["conf"].values \in HandWritten
    <3>1. k[1] \in ServerKeys \union {None} /\ k[2] \in ServerKeys \union {None}
      BY DEF Places
    <3>2. /\ Made(w, p, k[1]) \in Content /\ Made(w, p, k[1]).values = w
          /\ Made(None, None, k[2]) \in Content /\ Made(None, None, k[2]).key = k[2]
          /\ Made(w, None, None) \in Content
          /\ k[2] = None => Made(None, None, k[2]) = Absent
      BY <3>1, Contents DEF Absent
    <3>3. \A f \in Files : files[f] = (IF f = "conf" THEN Made(w, p, k[1])
                                       ELSE IF f = "key" THEN Made(None, None, k[2])
                                       ELSE IF f = "other" THEN Made(w, None, None) ELSE Absent)
      BY <2>2 DEF HandMade, NewHost, Files
    <3>4. files \in [Files -> Content]
      BY <2>2, <3>2, Contents DEF HandMade, NewHost, Files
    <3>5. \A f \in Files : SoundFile(f, files[f])
      BY <3>1, <3>2, <3>3 DEF SoundFile
    <3>6. files["conf"].values = w
      BY <3>2, <3>3 DEF Files
    <3>. QED BY <3>4, <3>5, <3>6
  <2>3. files = NewHost \/ \E w \in HandWritten, p \in ClientKeys, k \in Places :
                              files = HandMade(w, p, k[1], k[2])
    BY DEF Init
  <2>. QED BY <2>1, <2>2, <2>3
<1>3. TypeOK
  <2>1. <<>> \in Seq(Files) /\ <<>> \in Seq([Managed -> Content])
        /\ <<>> \in Seq([Files -> Content]) /\ Len(<<>>) = 0
    BY EmptySeq
  <2>2. nested \in BOOLEAN /\ outcome \in Outcomes /\ program \in Programs
    BY <1>1 DEF Programs, Outcomes
  <2>. QED BY <1>1, <1>2, <2>1, <2>2, Contents, BoundsAreNat DEF TypeOK
<1>4. Sound
  <2>1. DOMAIN backups = {}
    BY <1>1
  <2>. QED BY <1>2, <2>1 DEF Sound
<1>. QED BY <1>1, <1>2, <1>3, <1>4 DEF GInv, Roles, Agree, Backed, Progress, Writing, Undoing,
                                   Migrating, RestoreRestores, PreparedKeepsGateway

-----------------------------------------------------------------------------
(* The ends and the beginnings of scripts *)

LEMMA UpsetType == TypeOK /\ Upset => upsets' \in 0 .. MaxUpsets
BY BoundsAreNat DEF TypeOK, Upset

\* Facts about files and backups survive whatever leaves both alone and lets no
\* script write.
LEMMA SameFiles ==
  ASSUME GInv, UNCHANGED <<files, backups>>, program' \notin {"prepare", "configure"}
  PROVE  Sound' /\ Agree' /\ Backed'
<1>1. Sound'
  BY DEF GInv, Sound
<1>2. Agree'
  BY DEF GInv, Agree, Writing, There
<1>3. Backed'
  <2>. SUFFICES ASSUME backups' # <<>> PROVE \E k \in ServerKeys : Held(k)'
    BY DEF Backed
  <2>1. PICK k \in ServerKeys : Held(k)
    BY DEF GInv, Backed
  <2>2. Held(k)'
    BY <2>1 DEF Held, Throughout, Writing
  <2>. QED BY <2>2
<1>. QED BY <1>1, <1>2, <1>3

LEMMA EndStep ==
  ASSUME GInv, NEW result \in Outcomes, End(result),
         UNCHANGED <<files, taken, chosen, input>>, upsets' \in 0 .. MaxUpsets,
         result \in {"undone", "restored"} => RestoreRestores',
         result = "prepared" => PreparedKeepsGateway'
  PROVE  GInv'
<1>1. /\ program' = "idle" /\ nested' = FALSE /\ todo' = <<>> /\ outcome' = result
      /\ files' = files /\ backups' = backups /\ found' = found /\ chosen' = chosen
      /\ values' = values /\ peer' = peer /\ key' = key
  BY DEF End, taken, input
<1>2. TypeOK'
  <2>1. <<>> \in Seq(Files)
    BY EmptySeq
  <2>2. nested' \in BOOLEAN /\ program' \in Programs
    BY <1>1 DEF Programs
  <2>. QED BY <1>1, <2>1, <2>2 DEF GInv, TypeOK
<1>3. Roles'
  BY <1>1 DEF GInv, Roles, Migrating, Undoing
<1>4. Sound' /\ Agree' /\ Backed'
  BY <1>1, SameFiles
<1>5. Progress'
  BY <1>1 DEF Progress, Migrating, Undoing
<1>6. RestoreRestores' /\ PreparedKeepsGateway'
  BY <1>1 DEF RestoreRestores, PreparedKeepsGateway
<1>. QED BY <1>2, <1>3, <1>4, <1>5, <1>6 DEF GInv

LEMMA BeginRestoration ==
  ASSUME GInv, NEW script \in {"undo", "restore"}, Begin(script, FALSE, ManagedPaths),
         chosen' \in DOMAIN backups, UNCHANGED <<files, taken, input>>,
         upsets' \in 0 .. MaxUpsets
  PROVE  GInv'
<1>1. /\ program' = script /\ nested' = FALSE /\ todo' = ManagedPaths /\ outcome' = "none"
      /\ files' = files /\ backups' = backups /\ found' = found
      /\ values' = values /\ peer' = peer /\ key' = key
  BY DEF Begin, taken, input
<1>2. TypeOK'
  <2>1. nested' \in BOOLEAN /\ program' \in Programs /\ outcome' \in Outcomes
    BY <1>1 DEF Programs, Outcomes
  <2>2. chosen' \in 0 .. Len(backups)
    <3>1. DOMAIN backups = 1 .. Len(backups) /\ Len(backups) \in Nat
      BY DEF GInv, TypeOK
    <3>. QED BY <3>1
  <2>. QED BY <1>1, <2>1, <2>2, Lists DEF GInv, TypeOK
<1>3. Roles'
  BY <1>1 DEF GInv, Roles, Migrating, Undoing
<1>4. Sound' /\ Agree' /\ Backed'
  BY <1>1, SameFiles
<1>5. Progress'
  <2>1. Restored(0)'
    BY <1>1, Lists, WholeList DEF Restored
  <2>. QED BY <1>1, <2>1 DEF Progress, Migrating, Undoing
<1>6. RestoreRestores' /\ PreparedKeepsGateway'
  BY <1>1 DEF RestoreRestores, PreparedKeepsGateway
<1>. QED BY <1>2, <1>3, <1>4, <1>5, <1>6 DEF GInv

\* A step that fails ends its script, and a migration goes on to undo itself.
LEMMA GiveStep ==
  ASSUME GInv, Give(AfterFailure), UNCHANGED <<files, taken, chosen, input>>,
         upsets' \in 0 .. MaxUpsets
  PROVE  GInv'
<1>1. CASE Migrating
  <2>1. Begin("undo", FALSE, ManagedPaths) /\ chosen' \in DOMAIN backups
    BY <1>1 DEF Give, AfterFailure, Migrating, GInv, Roles
  <2>. QED BY <2>1, BeginRestoration
<1>2. CASE ~Migrating
  <2>1. End("failed") /\ "failed" \in Outcomes
    BY <1>2 DEF Give, AfterFailure, Migrating, Outcomes
  <2>. QED BY <2>1, EndStep
<1>. QED BY <1>1, <1>2

\* Nobody but the scripts touches the WireGuard files.
LEMMA IdleStep ==
  ASSUME GInv, Idle, Upset, outcome' = "none",
         UNCHANGED <<taken, chosen, program, nested, todo, input>>,
         files' \in [Files -> Content], files'["conf"] = files["conf"], files'["key"] = files["key"],
         files'["setup"] = files["setup"] \/ files'["setup"].values \in Setups
  PROVE  GInv'
<1>1. /\ program' = "idle" /\ program = "idle" /\ nested' = FALSE /\ backups' = backups
      /\ found' = found /\ chosen' = chosen /\ todo' = todo
      /\ values' = values /\ peer' = peer /\ key' = key /\ upsets' \in 0 .. MaxUpsets
  BY UpsetType DEF Idle, GInv, Roles, TypeOK, taken, input
<1>2. TypeOK'
  <2>1. nested' \in BOOLEAN /\ program' \in Programs /\ outcome' \in Outcomes
    BY <1>1 DEF Programs, Outcomes
  <2>. QED BY <1>1, <2>1 DEF GInv, TypeOK
<1>3. Roles' /\ Agree'
  BY <1>1 DEF GInv, Roles, Agree, Migrating, Undoing, Writing, There
<1>4. Sound'
  <2>1. \A f \in Files : SoundFile(f, files'[f])
    <3>1. \A f \in Files : SoundFile(f, files[f])
      BY DEF GInv, Sound
    <3>. QED BY <3>1 DEF SoundFile
  <2>. QED BY <1>1, <2>1 DEF GInv, Sound
<1>5. Backed'
  <2>. SUFFICES ASSUME backups' # <<>> PROVE \E k \in ServerKeys : Held(k)'
    BY DEF Backed
  <2>1. PICK k \in ServerKeys : Held(k)
    BY <1>1 DEF GInv, Backed
  <2>2. Held(k)'
    BY <1>1, <2>1 DEF Held, OneKey, Throughout, Writing
  <2>. QED BY <2>2
<1>6. Progress' /\ RestoreRestores' /\ PreparedKeepsGateway'
  BY <1>1 DEF Progress, Migrating, Undoing, RestoreRestores, PreparedKeepsGateway
<1>. QED BY <1>2, <1>3, <1>4, <1>5, <1>6 DEF GInv

\* The first backup makes the gateway's key the one of Backed; a further one adds
\* a copy of files that hold it.
LEMMA PrepareStep ==
  ASSUME GInv, Prepare PROVE GInv'
<1>1. /\ program' = "prepare" /\ nested' = FALSE /\ todo' = Preparation /\ outcome' = "none"
      /\ files' = files /\ found' = Append(found, files) /\ chosen' = Len(backups) + 1
      /\ values' = Parsed(files["conf"]) /\ peer' = files["conf"].peer
      /\ There("conf") /\ Parsed(files["conf"]) # None /\ Len(backups) < MaxBackups
      /\ upsets' = upsets
  BY DEF Prepare, Begin, Readable
<1>2. TypeOK /\ files \in [Files -> Content] /\ "conf" \in Files /\ "key" \in Files
  BY DEF GInv, TypeOK, Files
<1>3. PICK k \in ServerKeys : KeysIn(files) = {k} /\ key' = k
  BY DEF Prepare, Readable
<1>4. /\ files["conf"].key \in {k, None} /\ files["key"].key \in {k, None}
      /\ files["conf"].key = k \/ files["key"].key = k
  BY <1>3 DEF KeysIn
<1>5. backups = found /\ backups' = Append(backups, files) /\ backups' = found'
  <2>1. [f \in Managed |-> files[f]] = files
    BY <1>2, Lists
  <2>. QED BY <1>1, <2>1 DEF Prepare, GInv, Roles
<1>6. /\ backups \in Seq([Files -> Content]) /\ Len(backups) \in Nat
      /\ backups' \in Seq([Files -> Content]) /\ Len(backups') = Len(backups) + 1
      /\ \A i \in DOMAIN backups' : (i \in DOMAIN backups /\ backups'[i] = backups[i])
                                    \/ backups'[i] = files
      /\ backups'[Len(backups) + 1] = files
  <2>1. backups \in Seq([Files -> Content]) /\ Len(backups) \in Nat
        /\ DOMAIN backups = 1 .. Len(backups)
    BY <1>2, Lists DEF TypeOK
  <2>2. LET extended == Append(backups, files)
        IN  /\ extended \in Seq([Files -> Content]) /\ Len(extended) = Len(backups) + 1
            /\ \A i \in 1 .. Len(backups) : extended[i] = backups[i]
            /\ extended[Len(backups) + 1] = files
    BY <1>2, <2>1, AppendProperties
  <2>3. /\ backups' \in Seq([Files -> Content]) /\ Len(backups') = Len(backups) + 1
        /\ \A i \in 1 .. Len(backups) : backups'[i] = backups[i]
        /\ backups'[Len(backups) + 1] = files
    BY <1>5, <2>2
  <2>4. DOMAIN backups' = 1 .. Len(backups) + 1
    BY <2>3
  <2>. QED BY <2>1, <2>3, <2>4
<1>7. Parsed(files["conf"]) \in Setups
  BY <1>1, <1>2, ParsedIsSetup DEF GInv, Sound, There
<1>8. chosen' \in DOMAIN backups' /\ found'[chosen'] = files
  BY <1>1, <1>5, <1>6
<1>9. TypeOK'
  <2>1. nested' \in BOOLEAN /\ program' \in Programs /\ outcome' \in Outcomes
    BY <1>1 DEF Programs, Outcomes
  <2>2. values' \in Text /\ peer' \in ClientKeys \union {None} /\ key' \in ServerKeys \union {None}
    BY <1>1, <1>2, <1>3, <1>7, Contents DEF Content
  <2>3. Len(found') = Len(backups') /\ Len(backups') <= MaxBackups /\ chosen' \in 0 .. Len(backups')
    BY <1>1, <1>5, <1>6, BoundsAreNat
  <2>. QED BY <1>1, <1>2, <1>5, <1>6, <2>1, <2>2, <2>3, Lists DEF TypeOK
<1>10. Roles'
  BY <1>1, <1>5, <1>8 DEF Roles, Migrating, Undoing
<1>11. Sound'
  BY <1>1, <1>6 DEF GInv, Sound
<1>12. Agree'
  BY <1>1, <1>2, <1>3, <1>4, <1>7, Contents DEF GInv, Agree, Sound, SoundFile, Writing, There
<1>13. Backed'
  <2>1. OneKey(files, k)
    BY <1>1, <1>4 DEF OneKey, There
  <2>2. CASE backups = <<>>
    <3>1. DOMAIN backups = {}
      BY <2>2
    <3>2. \A i \in DOMAIN backups' : backups'[i] = files
      BY <1>6, <3>1
    <3>3. Held(k)'
      BY <1>1, <1>3, <1>4, <2>1, <3>2 DEF Held, OneKey, Throughout
    <3>. QED BY <3>3 DEF Backed
  <2>3. CASE backups # <<>>
    <3>1. PICK h \in ServerKeys : Held(h)
      BY <2>3 DEF GInv, Backed
    <3>2. h = k
      BY <1>3, <3>1, HeldKeys
    <3>3. Held(k)'
      BY <1>1, <1>3, <1>6, <2>1, <3>1, <3>2 DEF Held, OneKey, Throughout
    <3>. QED BY <3>3 DEF Backed
  <2>. QED BY <2>2, <2>3
<1>14. Progress'
  <2>1. Done(Preparation, 0)'
    BY <1>1, Lists, WholeList DEF Done
  <2>. QED BY <1>1, <1>8, <2>1 DEF Progress, Migrating, Undoing
<1>15. RestoreRestores' /\ PreparedKeepsGateway'
  BY <1>1 DEF RestoreRestores, PreparedKeepsGateway
<1>. QED BY <1>9, <1>10, <1>11, <1>12, <1>13, <1>14, <1>15 DEF GInv

\* The generator begins, or refuses; inside a migration it reads what the
\* migration has just written.
LEMMA ConfigureStep ==
  ASSUME GInv, Configure PROVE GInv'
<1>1. /\ files' = files /\ backups' = backups /\ found' = found /\ chosen' = chosen
      /\ upsets' = upsets /\ TypeOK
  BY DEF Configure, taken, GInv
<1>2. CASE Refuses
  <2>1. Give(AfterFailure) /\ UNCHANGED <<files, taken, chosen, input>> /\ upsets' \in 0 .. MaxUpsets
    BY <1>1, <1>2 DEF Configure, GInv, TypeOK
  <2>. QED BY <2>1, GiveStep
<1>3. CASE ~Refuses
  <2>1. /\ key' \in ServerKey /\ values' = files["setup"].values /\ peer' = files["client"].peer
        /\ program' = "configure" /\ nested' = (program = "prepare") /\ outcome' = "none"
        /\ todo' = Generation(~There("key"))
        /\ There("setup") /\ There("client") /\ ~Locked
    BY <1>3 DEF Configure, Begin, Refuses
  <2>2. /\ files \in [Files -> Content]
        /\ "conf" \in Files /\ "key" \in Files /\ "setup" \in Files /\ "client" \in Files
    BY <1>1 DEF TypeOK, Files
  <2>3. There("key") => files["key"].key \in ServerKeys /\ key' = files["key"].key
    BY <2>1, <2>2 DEF GInv, Sound, SoundFile, There, ServerKey
  <2>4. key' \in ServerKeys
    BY <2>1, <2>3 DEF ServerKey
  <2>5. values' \in Setups
    BY <2>1, <2>2 DEF GInv, Sound, SoundFile, There
  <2>6. Generation(~There("key")) \in Seq(Files)
        /\ (~There("key") => Head(Generation(~There("key"))) = "key"
                             /\ Generation(~There("key")) # <<>>)
    <3>1. (~There("key")) \in BOOLEAN
      BY DEF There
    <3>. QED BY <3>1, Lists
  <2>7. TypeOK'
    <3>1. nested' \in BOOLEAN /\ program' \in Programs /\ outcome' \in Outcomes
      BY <2>1 DEF Programs, Outcomes
    <3>2. peer' \in ClientKeys \union {None}
      BY <2>1, <2>2 DEF Content
    <3>. QED BY <1>1, <2>1, <2>4, <2>5, <2>6, <3>1, <3>2, Contents DEF TypeOK
  <2>8. Roles'
    BY <1>1, <2>1 DEF GInv, Roles, Migrating, Undoing
  <2>9. Sound'
    BY <1>1 DEF GInv, Sound
  <2>10. Agree'
    BY <1>1, <2>1, <2>3, <2>4, <2>5, <2>6 DEF GInv, Agree, There, Locked
  <2>11. Backed'
    <3>. SUFFICES ASSUME backups' # <<>> PROVE \E k \in ServerKeys : Held(k)'
      BY DEF Backed
    <3>1. PICK k \in ServerKeys : Held(k)
      BY <1>1 DEF GInv, Backed
    <3>2. There("key")
      BY <2>1, <3>1, HeldKeys DEF Locked
    <3>3. key' = k
      BY <2>3, <3>1, <3>2, Contents DEF Held, OneKey
    <3>4. Held(k)'
      BY <1>1, <3>1, <3>3 DEF Held, OneKey, Throughout
    <3>. QED BY <3>4
  <2>12. program = "prepare" =>
           /\ values' = values /\ peer' = peer /\ key' = key
           /\ \A f \in {"key", "setup", "client"} : files[f] = Written(f)
    <3>. SUFFICES ASSUME program = "prepare"
                  PROVE  /\ values' = values /\ peer' = peer /\ key' = key
                         /\ \A f \in {"key", "setup", "client"} : files[f] = Written(f)
      OBVIOUS
    <3>1. todo = <<>> /\ key \in ServerKeys
      BY DEF Configure, Idle, GInv, Agree, Writing
    <3>2. PICK n \in 0 .. 3 : Done(Preparation, n)
      BY DEF GInv, Progress
    <3>3. Preparation \in Seq(Files) /\ Len(Preparation) = 3
      BY Lists
    <3>4. n = 3
      BY <3>1, <3>2, <3>3, AllWorkedOff DEF Done
    <3>5. \A f \in {Preparation[i] : i \in 1 .. 3} : files[f] = Written(f)
      BY <3>2, <3>4 DEF Done
    <3>6. \A f \in {"key", "setup", "client"} : files[f] = Written(f)
      BY <3>5, Lists
    <3>7. Written("setup").values = values /\ Written("client").peer = peer
          /\ Written("key").key = key /\ Written("key") # Absent
      BY <1>1, <2>2, <3>1, WhatIsWritten
    <3>. QED BY <2>1, <2>3, <3>6, <3>7 DEF There
  <2>13. Progress'
    <3>1. PICK missing \in BOOLEAN : missing = ~There("key")
      BY DEF There
    <3>2. Done(Generation(missing), 0)'
      <4>1. Suffix(Generation(missing), 0) = Generation(missing)
        BY <2>6, <3>1, WholeList
      <4>. QED BY <2>1, <3>1, <4>1 DEF Done
    <3>3. 0 \in 0 .. Len(Generation(missing))
      BY <2>6, <3>1
    <3>7. \E m \in BOOLEAN : \E n \in 0 .. Len(Generation(m)) : Done(Generation(m), n)'
      BY <3>2, <3>3
    <3>4. nested' => \A f \in {"key", "setup", "client"} : files'[f] = Written(f)'
      BY <1>1, <2>1, <2>12 DEF Written
    <3>5. Migrating' => program = "prepare"
      BY <2>1 DEF Migrating
    <3>6. Migrating' => values' = Parsed(found[chosen]["conf"]) /\ peer' = found[chosen]["conf"].peer
      BY <2>12, <3>5 DEF GInv, Progress, Migrating
    <3>. QED BY <1>1, <2>1, <3>4, <3>6, <3>7 DEF Progress, Undoing
  <2>14. RestoreRestores' /\ PreparedKeepsGateway'
    BY <2>1 DEF RestoreRestores, PreparedKeepsGateway
  <2>. QED BY <2>7, <2>8, <2>9, <2>10, <2>11, <2>13, <2>14 DEF GInv
<1>. QED BY <1>2, <1>3

-----------------------------------------------------------------------------
(* File by file *)

\* One more file of the list holds what the script writes.
LEMMA WriteFile ==
  ASSUME TypeOK, NEW list \in Seq(Files), NEW n \in 0 .. Len(list), Done(list, n), todo # <<>>,
         files' = [files EXCEPT ![Head(todo)] = Written(Head(todo))], todo' = Tail(todo),
         UNCHANGED input
  PROVE  n + 1 \in 0 .. Len(list) /\ Done(list, n + 1)'
<1>1. n < Len(list) /\ Head(todo) = list[n + 1] /\ Tail(todo) = Suffix(list, n + 1)
  BY NextFile DEF Done
<1>2. n + 1 \in 0 .. Len(list)
  BY <1>1
<1>3. ASSUME NEW i \in 1 .. n + 1 PROVE files'[list[i]] = Written(list[i])
  <2>1. list[i] \in Files
    BY <1>2, ElementOfSeq
  <2>2. CASE i = n + 1
    BY <1>1, <2>1, <2>2 DEF TypeOK
  <2>3. CASE i # n + 1
    <3>1. i \in 1 .. n
      BY <2>3
    <3>. QED BY <2>1, <3>1 DEF Done, TypeOK
  <2>. QED BY <2>2, <2>3
<1>4. \A f : Written(f)' = Written(f)
  BY DEF Written, input
<1>5. Done(list, n + 1)'
  BY <1>1, <1>3, <1>4 DEF Done
<1>. QED BY <1>2, <1>5

\* Whatever is written carries the key in use, and a new host's key comes first.
LEMMA WriteStep ==
  ASSUME GInv, Write PROVE GInv'
<1>1. CASE Upset /\ Give(AfterFailure) /\ UNCHANGED files
  <2>1. UNCHANGED <<files, taken, chosen, input>> /\ upsets' \in 0 .. MaxUpsets
    BY <1>1, UpsetType DEF Write, GInv
  <2>. QED BY <1>1, <2>1, GiveStep
<1>2. CASE /\ files' = [files EXCEPT ![Head(todo)] = Written(Head(todo))]
           /\ todo' = Tail(todo)
           /\ UNCHANGED <<program, nested, outcome, upsets>>
  <2>. DEFINE f == Head(todo)
  <2>1. /\ program' = program /\ nested' = nested /\ outcome' = outcome /\ upsets' = upsets
        /\ backups' = backups /\ found' = found /\ chosen' = chosen
        /\ values' = values /\ peer' = peer /\ key' = key
        /\ Writing /\ todo # <<>> /\ ~Undoing /\ outcome = "none"
    BY <1>2 DEF Write, Writing, Undoing, taken, input, GInv, Roles
  <2>2. TypeOK /\ key \in ServerKeys /\ values \in Setups
    BY <2>1 DEF GInv, Agree
  <2>3. f \in Files /\ Tail(todo) \in Seq(Files)
    BY <2>1, <2>2, HeadTailProperties DEF TypeOK
  <2>4. program = "configure" /\ ~There("key") => ~There("conf") /\ f = "key"
    BY DEF GInv, Agree
  <2>5. \A g \in Files : files'[g] = (IF g = f THEN Written(g) ELSE files[g])
    BY <1>2, <2>2 DEF TypeOK
  <2>. HIDE DEF f
  <2>6. /\ Written(f) \in Content /\ SoundFile(f, Written(f))
        /\ f = "conf" => Written(f).values = values /\ Written(f).key = key /\ Written(f) # Absent
        /\ f = "key" => Written(f).key = key /\ Written(f) # Absent
    BY <2>2, <2>3, WhatIsWritten, WrittenIsSound
  <2>7. "conf" \in Files /\ "key" \in Files
    BY DEF Files
  <2>8. TypeOK'
    <3>1. files' \in [Files -> Content]
      BY <1>2, <2>2, <2>3, <2>6 DEF TypeOK, f
    <3>. QED BY <1>2, <2>1, <2>2, <2>3, <3>1 DEF TypeOK
  <2>9. Roles'
    BY <2>1 DEF GInv, Roles, Migrating, Undoing
  <2>10. Sound'
    <3>1. \A g \in Files : SoundFile(g, files'[g])
      BY <2>5, <2>6 DEF GInv, Sound
    <3>. QED BY <2>1, <3>1 DEF GInv, Sound
  <2>11. There("key")' => files'["key"].key = key
    BY <2>1, <2>5, <2>6, <2>7 DEF GInv, Agree, There
  <2>12. backups # <<>> => \E k \in ServerKeys : Held(k) /\ key = k
    BY <2>1 DEF GInv, Backed, Held
  <2>13. Migrating => backups # <<>>
    BY DEF GInv, Roles
  <2>14. Agree'
    <3>1. There("conf")' /\ files'["conf"].values \notin HandWritten /\ There("key")'
          => files'["conf"].key = files'["key"].key
      <4>. SUFFICES ASSUME There("conf")', files'["conf"].values \notin HandWritten, There("key")'
                    PROVE  files'["conf"].key = key
        BY <2>11
      <4>1. CASE f = "conf"
        BY <2>5, <2>6, <2>7, <4>1
      <4>2. CASE f # "conf" /\ There("key")
        BY <2>1, <2>5, <2>7, <4>2 DEF GInv, Agree, There
      <4>3. CASE f # "conf" /\ ~There("key")
        <5>1. files["conf"] = files'["conf"] /\ There("conf")
          BY <2>5, <2>7, <4>3 DEF There
        <5>2. program = "prepare" /\ Migrating
          BY <2>1, <2>4, <4>3, <5>1 DEF Writing, Migrating
        <5>3. PICK k \in ServerKeys : Held(k) /\ key = k
          BY <2>12, <2>13, <5>2
        <5>4. files["conf"].key \in ServerKeys
          BY <2>7, <5>1 DEF GInv, Sound, SoundFile, There
        <5>. QED BY <5>1, <5>3, <5>4, Contents DEF Held, OneKey
      <4>. QED BY <4>1, <4>2, <4>3
    <3>2. program = "configure" => There("key")'
      BY <2>4, <2>5, <2>6, <2>7 DEF There
    <3>. QED BY <2>1, <2>2, <2>11, <3>1, <3>2 DEF Agree, Writing
  <2>15. Backed'
    <3>. SUFFICES ASSUME backups' # <<>> PROVE \E k \in ServerKeys : Held(k)'
      BY DEF Backed
    <3>1. PICK k \in ServerKeys : Held(k) /\ key = k
      BY <2>1, <2>12
    <3>2. f = "conf" => Parsed(Written(f)) # None
      BY <2>2, <2>6, SetupIsParsed
    <3>3. OneKey(files, k)'
      BY <2>5, <2>6, <2>7, <3>1, <3>2 DEF Held, OneKey
    <3>4. Throughout("conf", k)' \/ Throughout("key", k)'
      BY <2>1, <2>5, <2>6, <2>7, <3>1 DEF Held, Throughout
    <3>5. Held(k)'
      BY <2>1, <3>1, <3>3, <3>4 DEF Held, OneKey
    <3>. QED BY <3>5
  <2>16. Progress'
    <3>1. UNCHANGED input /\ \A g : Written(g)' = Written(g)
      BY <2>1 DEF input, Written
    <3>2. ASSUME program = "prepare" PROVE \E n \in 0 .. 3 : Done(Preparation, n)'
      <4>1. PICK n \in 0 .. 3 : Done(Preparation, n)
        BY <3>2 DEF GInv, Progress
      <4>2. Preparation \in Seq(Files) /\ Len(Preparation) = 3
        BY Lists
      <4>3. n + 1 \in 0 .. 3 /\ Done(Preparation, n + 1)'
        BY <1>2, <2>1, <2>2, <3>1, <4>1, <4>2, WriteFile
      <4>. QED BY <4>3
    <3>3. ASSUME program = "configure"
          PROVE  \E missing \in BOOLEAN : \E n \in 0 .. Len(Generation(missing)) :
                    Done(Generation(missing), n)'
      <4>1. PICK missing \in BOOLEAN : \E n \in 0 .. Len(Generation(missing)) :
                                         Done(Generation(missing), n)
        BY <3>3 DEF GInv, Progress
      <4>2. PICK n \in 0 .. Len(Generation(missing)) : Done(Generation(missing), n)
        BY <4>1
      <4>3. Generation(missing) \in Seq(Files)
        BY Lists
      <4>4. n + 1 \in 0 .. Len(Generation(missing)) /\ Done(Generation(missing), n + 1)'
        BY <1>2, <2>1, <2>2, <3>1, <4>2, <4>3, WriteFile
      <4>. QED BY <4>4
    <3>4. nested => \A g \in {"key", "setup", "client"} : files'[g] = Written(g)'
      <4>1. {"key", "setup", "client"} \subseteq Files
        BY DEF Files
      <4>. QED BY <2>5, <3>1, <4>1 DEF GInv, Progress
    <3>5. program' = "prepare" => \E n \in 0 .. 3 : Done(Preparation, n)'
      BY <2>1, <3>2
    <3>6. program' = "configure" =>
            \E missing \in BOOLEAN : \E n \in 0 .. Len(Generation(missing)) :
               Done(Generation(missing), n)'
      BY <2>1, <3>3
    <3>7. ~Undoing' /\ (Migrating' <=> Migrating)
      BY <2>1 DEF Undoing, Migrating
    <3>. QED BY <2>1, <3>4, <3>5, <3>6, <3>7 DEF GInv, Progress
  <2>17. RestoreRestores' /\ PreparedKeepsGateway'
    BY <2>1 DEF RestoreRestores, PreparedKeepsGateway
  <2>. QED BY <2>8, <2>9, <2>10, <2>14, <2>15, <2>16, <2>17 DEF GInv
<1>. QED BY <1>1, <1>2 DEF Write

\* The configuration is put back before its key: whichever backups the two come
\* from, one of them holds the gateway's key.
LEMMA RestoreStep ==
  ASSUME GInv, RestoreFile PROVE GInv'
<1>1. CASE Upset /\ End("failed") /\ UNCHANGED files
  <2>1. /\ UNCHANGED <<files, taken, chosen, input>> /\ "failed" \in Outcomes
        /\ upsets' \in 0 .. MaxUpsets
    BY <1>1, UpsetType DEF RestoreFile, Outcomes, GInv
  <2>. QED BY <1>1, <2>1, EndStep
<1>2. CASE /\ files' = [files EXCEPT ![Head(todo)] = backups[chosen][Head(todo)]]
           /\ todo' = Tail(todo)
           /\ UNCHANGED <<program, nested, outcome, upsets>>
  <2>. DEFINE f == Head(todo)
              b == backups[chosen]
  <2>1. /\ program' = program /\ nested' = nested /\ outcome' = outcome /\ upsets' = upsets
        /\ backups' = backups /\ found' = found /\ chosen' = chosen
        /\ values' = values /\ peer' = peer /\ key' = key
        /\ Undoing /\ todo # <<>> /\ ~Writing /\ outcome = "none" /\ ~nested
    BY <1>2 DEF RestoreFile, Writing, Undoing, taken, input, GInv, Roles
  <2>2. TypeOK /\ chosen \in DOMAIN backups
    BY <2>1 DEF GInv, Roles
  <2>3. b \in [Files -> Content] /\ backups # <<>>
    <3>1. backups \in Seq([Files -> Content]) /\ DOMAIN backups = 1 .. Len(backups)
      BY <2>2, Lists DEF TypeOK
    <3>2. chosen \in 1 .. Len(backups)
      BY <2>2, <3>1
    <3>. QED BY <3>1, <3>2, ElementOfSeq
  <2>4. PICK n \in 0 .. 8 : Restored(n)
    BY <2>1 DEF GInv, Progress
  <2>5. /\ n + 1 \in 1 .. 8 /\ f = ManagedPaths[n + 1] /\ f \in Files
        /\ Tail(todo) = Suffix(ManagedPaths, n + 1) /\ Tail(todo) \in Seq(Files)
    <3>1. ManagedPaths \in Seq(Files) /\ Len(ManagedPaths) = 8
      BY Lists
    <3>2. n < 8 /\ f = ManagedPaths[n + 1] /\ Tail(todo) = Suffix(ManagedPaths, n + 1)
      BY <2>1, <2>4, <3>1, NextFile DEF Restored
    <3>. QED BY <2>1, <2>2, <3>2, HeadTailProperties DEF TypeOK
  <2>. HIDE DEF f
  <2>6. files' = [files EXCEPT ![f] = b[f]]
    BY <1>2 DEF f
  <2>7. \A g \in Files : files'[g] = (IF g = f THEN b[g] ELSE files[g])
    BY <2>2, <2>6 DEF TypeOK
  <2>8. TypeOK'
    <3>1. files' \in [Files -> Content]
      BY <2>2, <2>3, <2>5, <2>6 DEF TypeOK
    <3>. QED BY <1>2, <2>1, <2>2, <2>5, <3>1 DEF TypeOK
  <2>9. Roles'
    BY <2>1 DEF GInv, Roles, Migrating, Undoing
  <2>10. "conf" \in Files /\ "key" \in Files
    BY DEF Files
  <2>11. Sound'
    <3>1. \A g \in Files : SoundFile(g, files'[g])
      BY <2>2, <2>7 DEF GInv, Sound
    <3>. QED BY <2>1, <3>1 DEF GInv, Sound
  <2>12. PICK k \in ServerKeys : Held(k)
    BY <2>3 DEF GInv, Backed
  <2>13. OneKey(b, k)
    BY <2>2, <2>12 DEF Held
  <2>14. Held(k)'
    <3>1. OneKey(files, k)'
      BY <2>7, <2>10, <2>12, <2>13 DEF Held, OneKey
    <3>2. ASSUME NEW g \in {"conf", "key"}, Throughout(g, k) PROVE Throughout(g, k)'
      BY <2>1, <2>2, <2>7, <2>10, <3>2 DEF Throughout
    <3>. QED BY <2>1, <2>12, <3>1, <3>2 DEF Held, OneKey, Writing
  <2>15. Agree'
    <3>1. There("conf")' /\ files'["conf"].values \notin HandWritten => files'["conf"].key \in ServerKeys
      BY <2>10, <2>11 DEF Sound, SoundFile, There
    <3>2. There("key")' => files'["key"].key \in ServerKeys
      BY <2>10, <2>11 DEF Sound, SoundFile, There
    <3>3. files'["conf"].key \in {k, None} /\ files'["key"].key \in {k, None}
      BY <2>14 DEF Held, OneKey
    <3>4. program # "configure" /\ ~Writing'
      BY <2>1 DEF Writing
    <3>. QED BY <2>1, <3>1, <3>2, <3>3, <3>4, Contents DEF Agree
  <2>16. Backed'
    BY <2>14 DEF Backed
  <2>17. Progress'
    <3>1. ASSUME NEW i \in 1 .. n + 1 PROVE files'[ManagedPaths[i]] = b[ManagedPaths[i]]
      <4>1. ManagedPaths[i] \in Files
        <5>1. ManagedPaths \in Seq(Files) /\ i \in 1 .. Len(ManagedPaths)
          BY <2>5, Lists
        <5>. QED BY <5>1, ElementOfSeq
      <4>2. CASE i = n + 1
        BY <2>5, <2>7, <4>1, <4>2
      <4>3. CASE i # n + 1
        <5>1. i \in 1 .. n
          BY <4>3
        <5>. QED BY <2>4, <2>7, <4>1, <5>1 DEF Restored
      <4>. QED BY <4>2, <4>3
    <3>2. Restored(n + 1)'
      BY <1>2, <2>1, <2>5, <3>1 DEF Restored
    <3>3. n + 1 \in 0 .. 8
      BY <2>5
    <3>. QED BY <2>1, <3>2, <3>3 DEF Progress, Migrating, Undoing
  <2>18. RestoreRestores' /\ PreparedKeepsGateway'
    BY <2>1 DEF RestoreRestores, PreparedKeepsGateway
  <2>. QED BY <2>8, <2>9, <2>11, <2>15, <2>16, <2>17, <2>18 DEF GInv
<1>. QED BY <1>1, <1>2 DEF RestoreFile

\* Both happy ends: every file of the list has been dealt with.
LEMMA FinishStep ==
  ASSUME GInv, Finish \/ FinishRestore PROVE GInv'
<1>1. CASE Finish
  <2>1. /\ program = "configure" /\ todo = <<>>
        /\ UNCHANGED <<files, taken, chosen, input>> /\ upsets' \in 0 .. MaxUpsets
        /\ End(IF nested THEN "prepared" ELSE "configured")
    BY <1>1 DEF Finish, GInv, TypeOK
  <2>2. CASE ~nested
    <3>1. End("configured") /\ "configured" \in Outcomes
      BY <2>1, <2>2 DEF Outcomes
    <3>. QED BY <2>1, <3>1, EndStep
  <2>3. CASE nested
    <3>1. End("prepared") /\ "prepared" \in Outcomes
      BY <2>1, <2>3 DEF Outcomes
    <3>2. TypeOK /\ key \in ServerKeys /\ chosen \in DOMAIN backups /\ backups = found
      BY <2>1, <2>3 DEF GInv, Agree, Writing, Roles, Migrating
    <3>3. values = Parsed(found[chosen]["conf"]) /\ peer = found[chosen]["conf"].peer
      BY <2>3 DEF GInv, Progress, Migrating
    <3>4. PICK missing \in BOOLEAN : \E n \in 0 .. Len(Generation(missing)) :
                                       Done(Generation(missing), n)
      BY <2>1 DEF GInv, Progress
    <3>5. PICK n \in 0 .. Len(Generation(missing)) : Done(Generation(missing), n)
      BY <3>4
    <3>6. n = Len(Generation(missing))
      BY <2>1, <3>5, Lists, AllWorkedOff DEF Done
    <3>7. \A f \in {Generation(missing)[i] : i \in 1 .. Len(Generation(missing))} :
            files[f] = Written(f)
      BY <3>5, <3>6 DEF Done
    <3>8. \A f \in {"conf", "dns", "unit", "sysctl", "key", "setup", "client"} :
            files[f] = Written(f) /\ f \in Files
      <4>1. \A f \in {"conf", "dns", "unit", "sysctl"} : files[f] = Written(f)
        BY <3>7, Lists
      <4>2. \A f \in {"key", "setup", "client"} : files[f] = Written(f)
        BY <2>3 DEF GInv, Progress
      <4>. QED BY <4>1, <4>2 DEF Files
    <3>9. /\ files["conf"].key = key /\ files["key"].key = key
          /\ files["conf"].peer = peer /\ files["client"].peer = peer
          /\ \A f \in {"conf", "dns", "setup"} : files[f].values = values
          /\ \A f \in {"key", "unit", "sysctl"} : There(f)
      BY <3>2, <3>8, WhatIsWritten DEF There
    <3>10. KeysIn(files) = {key} /\ KeysIn(found[chosen]) = {key}
      <4>1. backups # <<>>
        BY <3>2
      <4>2. PICK k \in ServerKeys : Held(k) /\ key = k
        BY <2>1, <4>1 DEF GInv, Backed, Held, Writing
      <4>. QED BY <3>2, <4>2, HeldKeys
    <3>11. PreparedKeepsGateway'
      <4>1. files' = files /\ found' = found /\ chosen' = chosen
        BY <2>1 DEF taken
      <4>2. /\ KeysIn(found[chosen]) = {files["conf"].key} /\ KeysIn(files) = {files["conf"].key}
            /\ files["conf"].peer = found[chosen]["conf"].peer
            /\ files["client"].peer = found[chosen]["conf"].peer
            /\ \A f \in {"conf", "dns", "setup"} : files[f].values = Parsed(found[chosen]["conf"])
            /\ \A f \in {"key", "unit", "sysctl"} : There(f)
        BY <3>3, <3>9, <3>10
      <4>. QED BY <4>1, <4>2 DEF PreparedKeepsGateway, There
    <3>. QED BY <2>1, <3>1, <3>11, EndStep
  <2>. QED BY <2>2, <2>3
<1>2. CASE FinishRestore
  <2>1. /\ Undoing /\ todo = <<>> /\ UNCHANGED <<files, taken, chosen, input>>
        /\ upsets' \in 0 .. MaxUpsets
        /\ End(IF program = "undo" THEN "undone" ELSE "restored")
    BY <1>2 DEF FinishRestore, Undoing, GInv, TypeOK
  <2>2. PICK n \in 0 .. 8 : Restored(n)
    BY <2>1 DEF GInv, Progress
  <2>3. n = 8
    BY <2>1, <2>2, Lists, AllWorkedOff DEF Restored
  <2>4. /\ backups = found /\ files \in [Files -> Content]
        /\ backups[chosen] \in [Files -> Content]
    <3>1. backups = found /\ chosen \in DOMAIN backups /\ TypeOK
      BY <2>1 DEF GInv, Roles
    <3>2. backups \in Seq([Files -> Content]) /\ chosen \in 1 .. Len(backups)
      BY <3>1, Lists DEF TypeOK
    <3>. QED BY <3>1, <3>2, ElementOfSeq DEF TypeOK
  <2>5. \A f \in Files : files[f] = backups[chosen][f]
    <3>1. \A i \in 1 .. 8 : files[ManagedPaths[i]] = backups[chosen][ManagedPaths[i]]
      BY <2>2, <2>3 DEF Restored
    <3>2. DOMAIN ManagedPaths = 1 .. 8
      BY DEF ManagedPaths
    <3>3. Files = {ManagedPaths[i] : i \in 1 .. 8}
      BY <3>2, Lists DEF Managed
    <3>. QED BY <3>1, <3>3
  <2>6. files = found[chosen]
    BY <2>4, <2>5
  <2>7. RestoreRestores'
    BY <2>1, <2>6 DEF RestoreRestores, taken
  <2>8. PICK result \in {"undone", "restored"} : End(result)
    BY <2>1
  <2>9. result \in Outcomes /\ result # "prepared"
    BY DEF Outcomes
  <2>. QED BY <2>1, <2>7, <2>8, <2>9, EndStep
<1>. QED BY <1>1, <1>2

\* A generator whose migration died goes on by itself.
LEMMA OrphanStep ==
  ASSUME GInv, Upset, nested, nested' = FALSE,
         UNCHANGED <<files, taken, chosen, program, todo, input, outcome>>
  PROVE  GInv'
<1>1. /\ program = "configure" /\ program' = program /\ todo' = todo /\ outcome' = outcome
      /\ files' = files /\ backups' = backups /\ found' = found /\ chosen' = chosen
      /\ values' = values /\ peer' = peer /\ key' = key /\ upsets' \in 0 .. MaxUpsets
  BY UpsetType DEF GInv, Roles, taken, input
<1>2. TypeOK' /\ Roles' /\ Sound' /\ Agree'
  BY <1>1 DEF GInv, TypeOK, Roles, Sound, Agree, Migrating, Undoing, Writing, There
<1>3. Backed'
  <2>. SUFFICES ASSUME backups' # <<>> PROVE \E k \in ServerKeys : Held(k)'
    BY DEF Backed
  <2>1. PICK k \in ServerKeys : Held(k)
    BY <1>1 DEF GInv, Backed
  <2>2. Held(k)'
    BY <1>1, <2>1 DEF Held, Throughout, Writing
  <2>. QED BY <2>2
<1>4. Progress'
  <2>1. PICK missing \in BOOLEAN : \E n \in 0 .. Len(Generation(missing)) :
                                     Done(Generation(missing), n)
    BY <1>1 DEF GInv, Progress
  <2>2. PICK n \in 0 .. Len(Generation(missing)) : Done(Generation(missing), n)
    BY <2>1
  <2>3. Done(Generation(missing), n)'
    BY <1>1, <2>2 DEF Done, Written
  <2>. QED BY <1>1, <2>3 DEF Progress, Migrating, Undoing
<1>5. RestoreRestores' /\ PreparedKeepsGateway'
  BY <1>1 DEF GInv, RestoreRestores, PreparedKeepsGateway, There
<1>. QED BY <1>2, <1>3, <1>4, <1>5 DEF GInv

LEMMA KillStep ==
  ASSUME GInv, Kill PROVE GInv'
<1>1. UNCHANGED <<files, taken, chosen, input>> /\ upsets' \in 0 .. MaxUpsets
  BY UpsetType DEF Kill, GInv
<1>2. CASE End("killed")
  <2>1. "killed" \in Outcomes
    BY DEF Outcomes
  <2>. QED BY <1>1, <1>2, <2>1, EndStep
<1>3. CASE nested /\ nested' = FALSE /\ UNCHANGED <<program, todo, outcome>>
  BY <1>1, <1>3, OrphanStep DEF Kill
<1>4. CASE nested /\ Give("undo")
  <2>1. Give(AfterFailure)
    BY <1>4 DEF AfterFailure
  <2>. QED BY <1>1, <2>1, GiveStep
<1>. QED BY <1>2, <1>3, <1>4 DEF Kill

-----------------------------------------------------------------------------
(* Theorems *)

LEMMA NextGInv == GInv /\ [Next]_vars => GInv'
<1>. SUFFICES ASSUME GInv, [Next]_vars PROVE GInv'
  OBVIOUS
<1>1. CASE EditSetup
  <2>1. PICK v \in Setups, p \in ClientKeys :
          files' = [files EXCEPT !["setup"] = Made(v, None, None), !["client"] = Made(None, p, None)]
    BY <1>1 DEF EditSetup
  <2>2. /\ files' \in [Files -> Content] /\ files'["setup"].values \in Setups
        /\ files'["conf"] = files["conf"] /\ files'["key"] = files["key"]
    BY <2>1, Contents DEF GInv, TypeOK, Files
  <2>3. /\ Idle /\ Upset /\ outcome' = "none"
        /\ UNCHANGED <<taken, chosen, program, nested, todo, input>>
    BY <1>1 DEF EditSetup
  <2>. QED BY <2>2, <2>3, IdleStep
<1>2. CASE OtherChange
  <2>1. PICK w \in HandWritten : files' = [files EXCEPT !["other"] = Made(w, None, None)]
    BY <1>2 DEF OtherChange
  <2>2. /\ files' \in [Files -> Content] /\ files'["setup"] = files["setup"]
        /\ files'["conf"] = files["conf"] /\ files'["key"] = files["key"]
    BY <2>1, Contents DEF GInv, TypeOK, Files
  <2>3. /\ Idle /\ Upset /\ outcome' = "none"
        /\ UNCHANGED <<taken, chosen, program, nested, todo, input>>
    BY <1>2 DEF OtherChange
  <2>. QED BY <2>2, <2>3, IdleStep
<1>3. CASE Prepare
  BY <1>3, PrepareStep
<1>4. CASE Configure
  BY <1>4, ConfigureStep
<1>5. CASE Write
  BY <1>5, WriteStep
<1>6. CASE Finish \/ FinishRestore
  BY <1>6, FinishStep
<1>7. CASE Restore
  <2>1. /\ chosen' \in DOMAIN backups /\ Begin("restore", FALSE, ManagedPaths)
        /\ UNCHANGED <<files, taken, input>> /\ upsets' \in 0 .. MaxUpsets
        /\ "restore" \in {"undo", "restore"}
    BY <1>7 DEF Restore, GInv, TypeOK
  <2>. QED BY <2>1, BeginRestoration
<1>8. CASE RestoreFile
  BY <1>8, RestoreStep
<1>9. CASE Kill
  BY <1>9, KillStep
<1>10. CASE UNCHANGED vars
  <2>1. /\ UNCHANGED <<files, backups, found, chosen, program, nested, todo, values, peer, key>>
        /\ UNCHANGED <<outcome, upsets>>
    BY <1>10 DEF vars, taken, input
  <2>. QED BY <2>1 DEF GInv, TypeOK, Roles, Sound, Agree, Backed, Held, OneKey, Throughout, Progress,
                       Migrating, Undoing, Writing, There, Restored, Done, Written,
                       RestoreRestores, PreparedKeepsGateway
<1>. QED
  BY <1>1, <1>2, <1>3, <1>4, <1>5, <1>6, <1>7, <1>8, <1>9, <1>10 DEF Next

\* What holds of every reachable state of a gateway's files: for any keys,
\* settings and readings, however many backups and upsets.
THEOREM FilesInvariant == Spec => []GInv
BY InitGInv, NextGInv, PTL DEF Spec

\* A restoration that reports success has restored every file, of whichever
\* backup, however often restorations were interrupted before.
THEOREM RestorationsRestore == Spec => []RestoreRestores
<1>1. GInv => RestoreRestores
  BY DEF GInv
<1>. QED BY <1>1, FilesInvariant, PTL

\* A migration that reports success has generated a gateway with the keys it
\* found and the settings the parser, whatever it makes of them, could read.
THEOREM MigrationsKeepTheGateway == Spec => []PreparedKeepsGateway
<1>1. GInv => PreparedKeepsGateway
  BY DEF GInv
<1>. QED BY <1>1, FilesInvariant, PTL

\* No mixture of files from interrupted restorations and generations is one that
\* the migration could not take over again, and only a restoration takes the key
\* file from the generator.
THEOREM GatewaysStayOpen == Spec => NeverLockedOut
<1>. DEFINE Open == There("conf") /\ (files["conf"].values \notin HandWritten \/ backups # <<>>)
                    => Readable
            Shut == Locked' => Locked \/ program \in {"undo", "restore"}
<1>1. GInv => Open
  <2>. SUFFICES ASSUME GInv, There("conf"), files["conf"].values \notin HandWritten \/ backups # <<>>
                PROVE  Readable
    OBVIOUS
  <2>1. CASE backups # <<>>
    <3>1. PICK k \in ServerKeys : Held(k)
      BY <2>1 DEF GInv, Backed
    <3>. QED BY <3>1, HeldKeys DEF Readable
  <2>2. CASE files["conf"].values \notin HandWritten
    <3>1. /\ files["conf"].values \in Setups /\ files["conf"].key \in ServerKeys
          /\ "conf" \in Files /\ "key" \in Files
      BY <2>2 DEF GInv, Sound, SoundFile, There, Files
    <3>2. There("key") => files["key"].key = files["conf"].key
      BY <2>2 DEF GInv, Agree
    <3>3. ~There("key") => files["key"].key = None
      BY Contents DEF There
    <3>4. KeysIn(files) = {files["conf"].key}
      BY <3>1, <3>2, <3>3, Contents DEF KeysIn
    <3>. QED BY <3>1, <3>4, SetupIsParsed DEF Readable
  <2>. QED BY <2>1, <2>2
<1>2. ASSUME GInv, [Next]_vars PROVE [Shut]_vars
  <2>. SUFFICES ASSUME Locked', ~Locked, program \notin {"undo", "restore"} PROVE FALSE
    OBVIOUS
  <2>1. "conf" \in Files /\ "key" \in Files /\ files \in [Files -> Content]
    BY <1>2 DEF GInv, TypeOK, Files
  <2>2. files'["conf"] # files["conf"] \/ files'["key"] # files["key"]
    BY DEF Locked, There
  <2>3. Write /\ files' = [files EXCEPT ![Head(todo)] = Written(Head(todo))]
    <3>1. ~RestoreFile
      BY DEF RestoreFile
    <3>2. CASE EditSetup \/ OtherChange
      BY <2>1, <2>2, <3>2 DEF EditSetup, OtherChange
    <3>3. CASE UNCHANGED files
      BY <2>2, <3>3
    <3>. QED BY <1>2, <3>1, <3>2, <3>3
            DEF Next, vars, Prepare, Configure, Write, Finish, Restore, FinishRestore, Kill
  <2>4. Written("key") # Absent /\ Writing
    BY <1>2, <2>1, <2>3, WhatIsWritten DEF GInv, Agree, Write, Writing
  <2>5. Head(todo) = "conf" /\ ~There("key") /\ ~There("conf")
    BY <2>1, <2>3, <2>4 DEF Locked, There
  <2>6. program = "prepare"
    BY <1>2, <2>4, <2>5 DEF GInv, Agree, Writing
  <2>7. \E k \in ServerKeys : Held(k)
    BY <1>2, <2>6 DEF GInv, Roles, Migrating, Backed
  <2>. QED BY <2>5, <2>7, HeldKeys
<1>. QED BY <1>1, <1>2, FilesInvariant, PTL DEF Spec, NeverLockedOut

\* The clients' server key survives whatever the scripts do, and wherever they
\* stop, in whatever places a gateway made by hand had it.
THEOREM KeyIsNeverRotated == Spec => ServerKeyNeverRotated
<1>. DEFINE Kept == KeysIn(files) # {} => KeysIn(files') # {} /\ KeysIn(files') \subseteq KeysIn(files)
<1>1. ASSUME GInv, [Next]_vars PROVE [Kept]_vars
  <2>1. "conf" \in Files /\ "key" \in Files /\ files \in [Files -> Content]
    BY <1>1 DEF GInv, TypeOK, Files
  <2>2. CASE files'["conf"] = files["conf"] /\ files'["key"] = files["key"]
    BY <2>2 DEF KeysIn
  <2>3. CASE Write /\ files' = [files EXCEPT ![Head(todo)] = Written(Head(todo))]
    <3>. SUFFICES ASSUME KeysIn(files) # {}, Head(todo) \in {"conf", "key"} PROVE Kept
      BY <2>1, <2>2, <2>3
    <3>1. Writing /\ key \in ServerKeys
      BY <1>1, <2>3 DEF GInv, Agree, Write, Writing
    <3>2. key \in KeysIn(files)
      <4>1. CASE backups # <<>>
        <5>1. PICK k \in ServerKeys : Held(k) /\ key = k
          BY <1>1, <3>1, <4>1 DEF GInv, Backed, Held
        <5>. QED BY <5>1, HeldKeys
      <4>2. CASE There("key")
        BY <1>1, <3>1, <4>2, Contents DEF GInv, Agree, KeysIn
      <4>3. CASE backups = <<>> /\ ~There("key")
        <5>1. program = "configure"
          BY <1>1, <3>1, <4>3 DEF GInv, Roles, Migrating, Writing
        <5>2. ~There("conf")
          BY <1>1, <4>3, <5>1 DEF GInv, Agree
        <5>. QED BY <4>3, <5>2, Contents DEF KeysIn, There
      <4>. QED BY <4>1, <4>2, <4>3
    <3>3. Written("conf").key = key /\ Written("key").key = key
      BY <1>1, <2>1, <3>1, WhatIsWritten DEF GInv
    <3>4. /\ files'["conf"].key = key \/ files'["conf"].key = files["conf"].key
          /\ files'["key"].key = key \/ files'["key"].key = files["key"].key
          /\ files'["conf"].key = key \/ files'["key"].key = key
      BY <2>1, <2>3, <3>3
    <3>. QED BY <3>1, <3>2, <3>4, Contents DEF KeysIn
  <2>4. CASE RestoreFile
    <3>1. backups # <<>> /\ GInv'
      BY <1>1, <2>4, NextGInv DEF RestoreFile, GInv, Roles, Undoing
    <3>2. PICK k \in ServerKeys : Held(k)
      BY <1>1, <3>1 DEF GInv, Backed
    <3>3. backups' = backups
      BY <2>4 DEF RestoreFile, taken
    <3>4. PICK h \in ServerKeys : Held(h)'
      BY <3>1, <3>3 DEF GInv, Backed
    <3>5. h = k
      <4>1. PICK i \in DOMAIN backups : backups'[i] = backups[i]
        BY <1>1, <2>4, <3>3 DEF RestoreFile, GInv, Roles, Undoing
      <4>2. KeysIn(backups[i]) = {k}
        BY <3>2, HeldKeys
      <4>3. KeysIn(backups[i]) = {h}
        BY <3>3, <3>4, <4>1, Contents DEF Held, OneKey, Throughout, KeysIn
      <4>. QED BY <4>2, <4>3
    <3>6. KeysIn(files) = {k}
      BY <3>2, HeldKeys
    <3>7. KeysIn(files') = {k}
      BY <3>4, <3>5, Contents DEF Held, OneKey, Throughout, KeysIn
    <3>. QED BY <3>6, <3>7
  <2>5. CASE EditSetup \/ OtherChange
    BY <2>1, <2>2, <2>5 DEF EditSetup, OtherChange
  <2>6. CASE UNCHANGED files
    BY <2>2, <2>6
  <2>. QED BY <1>1, <2>3, <2>4, <2>5, <2>6
          DEF Next, vars, Prepare, Configure, Write, Finish, Restore, FinishRestore, Kill
<1>. QED BY <1>1, FilesInvariant, PTL DEF Spec, ServerKeyNeverRotated
=============================================================================
