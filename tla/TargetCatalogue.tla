-------------------------- MODULE TargetCatalogue --------------------------
(***************************************************************************)
(* The editable target catalogue: the SQLite store (targets/sqlite.py),    *)
(* the snapshot and the lookup index the control daemon keeps of it        *)
(* (control/daemon.py), the editors that load, edit and replace it (the    *)
(* dashboard's target manager in static/dashboard.js, and `snarkyctl       *)
(* targets export/replace'), and the one other writer, the migration from  *)
(* YAML (scripts/legacy/targets_yaml_to_sqlite.py).                        *)
(*                                                                         *)
(* A target is an opaque value that stands for alias, label and selector   *)
(* together: renaming one replaces it.  A request occupies a pool thread   *)
(* (Workers) from its admission to its answer; its client may have stopped *)
(* waiting by then and may already be asking again.                        *)
(***************************************************************************)
EXTENDS Naturals, FiniteSets

CONSTANTS Clients,      \* editing sessions
          Browsers,     \* those of them that are dashboards
          Workers,      \* threads of the daemon's pool
          Targets,      \* stored targets
          Reserved,     \* those that clash with the built-in recommended target
          MaxRevision,  \* bound on the replacements of a behaviour
          None

ASSUME BrowsersAreClients == Browsers \subseteq Clients
ASSUME ReservedAreTargets == Reserved \subseteq Targets
ASSUME NoneIsNobody == None \notin Clients \union Workers
ASSUME MaxRevisionIsNat == MaxRevision \in Nat

VARIABLES disk,      \* committed catalogue in SQLite
          daemon,    \* "down", "loading" or "up"
          cache,     \* daemon: _catalogue
          index,     \* daemon: the values of _targets
          lock,      \* daemon: the worker in _operation_lock, or None
          job,       \* per worker: the request it serves
          base,      \* per client: committedCatalogue
          loaded,    \* per client: managerLoaded
          asked      \* per client: the request it waits for

daemonVars == <<daemon, cache, index, lock>>
clientVars == <<base, loaded, asked>>
vars == <<disk, daemonVars, job, clientVars>>

-----------------------------------------------------------------------------
(* Types *)

Catalogue == [revision : Nat, targets : SUBSET Targets]
Empty     == [revision |-> 0, targets |-> {}]

Asks  == {"none", "load", "save", "cleanup"}
Steps == {"idle", "dispatch", "transact", "cache", "index", "release", "reply"}
Codes == {"none", "OK", "OPERATION_IN_PROGRESS", "INVALID_CATALOG",
          "CATALOG_CONFLICT", "CATALOG_STORAGE_FAILED", "INTERNAL_ERROR"}

\* `seen' is history: the targets the editor held as committed when it asked.
Job == [step : Steps, client : Clients \union {None}, ask : Asks,
        expected : Nat, targets : SUBSET Targets, seen : SUBSET Targets,
        code : Codes, result : Catalogue]

NoJob == [step |-> "idle", client |-> None, ask |-> "none", expected |-> 0,
          targets |-> {}, seen |-> {}, code |-> "none", result |-> Empty]

TypeOK ==
  /\ disk \in Catalogue
  /\ daemon \in {"down", "loading", "up"}
  /\ cache \in Catalogue
  /\ index \in SUBSET Targets
  /\ lock \in Workers \union {None}
  /\ job \in [Workers -> Job]
  /\ base \in [Clients -> Catalogue]
  /\ loaded \in [Clients -> BOOLEAN]
  /\ asked \in [Clients -> Asks]

\* A new database, a stopped daemon, and pages that have loaded nothing.
Init ==
  /\ disk = Empty
  /\ daemon = "down"
  /\ cache = Empty
  /\ index = {}
  /\ lock = None
  /\ job = [w \in Workers |-> NoJob]
  /\ base = [c \in Clients |-> Empty]
  /\ loaded = [c \in Clients |-> FALSE]
  /\ asked = [c \in Clients |-> "none"]

-----------------------------------------------------------------------------
(* The decisions the code takes; a Faulty variant is used by no action, only  *)
(* by the mutation checks of PROJECT.json.                                    *)

Replacements == {"save", "cleanup"}

\* The built-in recommended target is not part of the editable catalogue.
Editable(targets) == targets \ Reserved

\* An empty catalogue is accepted only beside a built-in target, and nothing
\* may be stored that clashes with it.
Acceptable(targets) ==
  /\ targets = {} => Reserved # {}
  /\ targets \intersect Reserved = {}

\* replace_catalogue compares revisions inside the transaction.
FaultyStale(expected) == expected > disk.revision
Stale(expected) == expected # disk.revision

\* What follows the transaction: the snapshot moves only after a commit.
FaultyAfterTransaction(code) == "release"
AfterTransaction(code) == IF code = "OK" THEN "cache" ELSE "release"

\* cleanupUnavailableTargets stores the committed targets without the
\* unavailable ones, not the list with the user's edits.
FaultyCleaned(c, gone, edits) == (base[c].targets \ gone) \union edits
Cleaned(c, gone, edits) == base[c].targets \ gone

-----------------------------------------------------------------------------
(* The editors *)

\* A request reaches a free pool thread of a running daemon.
Submit(c, ask, targets) ==
  /\ daemon = "up"
  /\ asked[c] = "none"
  /\ asked' = [asked EXCEPT ![c] = ask]
  /\ \E w \in Workers :
       /\ job[w].step = "idle"
       /\ job' = [job EXCEPT ![w] =
            [NoJob EXCEPT !.step = "dispatch", !.client = c, !.ask = ask,
                          !.expected = base[c].revision, !.targets = targets,
                          !.seen = base[c].targets]]
  /\ UNCHANGED <<disk, daemonVars, base, loaded>>

\* loadManager; `targets export'.
Load(c) == Submit(c, "load", {})

\* saveManager, which needs a destination; `targets replace', which does not.
\* The user may have made anything of the catalogue.
Save(c) ==
  /\ loaded[c]
  /\ \E targets \in SUBSET Targets :
       /\ c \in Browsers => targets # {}
       /\ Submit(c, "save", targets)

\* cleanupUnavailableTargets, after discovery found targets unavailable; the
\* last saved one is never removed.  None of `gone' need be a saved target.
Cleanup(c) ==
  /\ c \in Browsers
  /\ loaded[c]
  /\ \E gone, edits \in SUBSET Targets :
       /\ base[c].targets \ gone # {}
       /\ Submit(c, "cleanup", Cleaned(c, gone, edits))

\* The client's timeout, or the error that a dead daemon gives: whatever the
\* daemon does with the request, nobody hears of it.  A dashboard that could
\* not load has to load again.
Unheard(c) == [w \in Workers |-> IF job[w].client = c THEN [job[w] EXCEPT !.client = None] ELSE job[w]]
FaultyGiveUpListening(c) ==
  /\ asked[c] # "none"
  /\ asked' = [asked EXCEPT ![c] = "none"]
  /\ UNCHANGED <<disk, daemonVars, job, base, loaded>>
FaultyGiveUpOptimistic(c) ==
  /\ asked[c] # "none"
  /\ job' = Unheard(c)
  /\ asked' = [asked EXCEPT ![c] = "none"]
  /\ base' = IF asked[c] = "save"
             THEN [base EXCEPT ![c].revision = @ + 1]
             ELSE base
  /\ UNCHANGED <<disk, daemonVars, loaded>>
GiveUp(c) ==
  /\ asked[c] # "none"
  /\ job' = Unheard(c)
  /\ asked' = [asked EXCEPT ![c] = "none"]
  /\ loaded' = [loaded EXCEPT ![c] = @ /\ (asked[c] = "load" => c \notin Browsers)]
  /\ UNCHANGED <<disk, daemonVars, base>>

-----------------------------------------------------------------------------
(* The daemon's side of a request *)

At(w, step) == job[w].step = step
GoTo(w, step) == job' = [job EXCEPT ![w].step = step]
End(w, step, code) == job' = [job EXCEPT ![w].step = step, ![w].code = code]

\* TARGET_CATALOG_GET serves the snapshot, without the lock.
Read(w) ==
  /\ At(w, "dispatch")
  /\ job[w].ask = "load"
  /\ job' = [job EXCEPT ![w].step = "reply", ![w].code = "OK", ![w].result = cache]
  /\ UNCHANGED <<disk, daemonVars, clientVars>>

Compete(w) ==
  /\ At(w, "dispatch")
  /\ job[w].ask \in Replacements
  /\ lock # None
  /\ End(w, "reply", "OPERATION_IN_PROGRESS")
  /\ UNCHANGED <<disk, daemonVars, clientVars>>

\* The lock is taken and the targets are checked; the provider may refuse a
\* selector of an otherwise acceptable catalogue.
Begin(w) ==
  /\ At(w, "dispatch")
  /\ job[w].ask \in Replacements
  /\ lock = None
  /\ lock' = w
  /\ \/ Acceptable(job[w].targets) /\ GoTo(w, "transact")
     \/ End(w, "release", "INVALID_CATALOG")
  /\ UNCHANGED <<disk, daemon, cache, index, clientVars>>

\* replace_catalogue: one IMMEDIATE transaction, committed or rolled back.
Transact(w) ==
  /\ At(w, "transact")
  /\ \/ /\ Stale(job[w].expected)
        /\ End(w, AfterTransaction("CATALOG_CONFLICT"), "CATALOG_CONFLICT")
        /\ UNCHANGED disk
     \/ /\ ~Stale(job[w].expected)
        /\ disk.revision < MaxRevision
        /\ disk' = [revision |-> job[w].expected + 1, targets |-> job[w].targets]
        /\ job' = [job EXCEPT ![w].step = AfterTransaction("OK"), ![w].code = "OK",
                              ![w].result = disk']
     \/ \E code \in {"CATALOG_STORAGE_FAILED", "INTERNAL_ERROR"} :
          End(w, AfterTransaction(code), code) /\ UNCHANGED disk
  /\ UNCHANGED <<daemonVars, clientVars>>

\* The two assignments after the commit.
SwapCache(w) ==
  /\ At(w, "cache")
  /\ cache' = job[w].result
  /\ GoTo(w, "index")
  /\ UNCHANGED <<disk, daemon, index, lock, clientVars>>

SwapIndex(w) ==
  /\ At(w, "index")
  /\ index' = Editable(job[w].result.targets)
  /\ GoTo(w, "release")
  /\ UNCHANGED <<disk, daemon, cache, lock, clientVars>>

Release(w) ==
  /\ At(w, "release")
  /\ lock' = None
  /\ GoTo(w, "reply")
  /\ UNCHANGED <<disk, daemon, cache, index, clientVars>>

\* The answer reaches the client, if it still waits.  A dashboard takes over
\* what it loaded or saved; a file keeps the revision it was exported with.
Answer(w) ==
  /\ At(w, "reply")
  /\ job' = [job EXCEPT ![w] = NoJob]
  /\ LET c == job[w].client
         done == c # None /\ job[w].code = "OK"
     IN  /\ asked' = [d \in Clients |-> IF d = c THEN "none" ELSE asked[d]]
         /\ IF done /\ (job[w].ask = "load" \/ c \in Browsers)
            THEN /\ base' = [base EXCEPT ![c] = job[w].result]
                 /\ loaded' = [loaded EXCEPT ![c] = TRUE]
            ELSE UNCHANGED <<base, loaded>>
  /\ UNCHANGED <<disk, daemonVars>>

-----------------------------------------------------------------------------
(* Start and death of the daemon, and the migration *)

\* The two SELECTs of get_catalogue share no transaction.  Without a row for
\* the provider there is no second one.
ReadRevision ==
  /\ daemon = "down"
  /\ cache' = [revision |-> disk.revision, targets |-> {}]
  /\ daemon' = IF disk.revision = 0 THEN "up" ELSE "loading"
  /\ UNCHANGED <<disk, index, lock, job, clientVars>>

ReadTargets ==
  /\ daemon = "loading"
  /\ cache' = [cache EXCEPT !.targets = Editable(disk.targets)]
  /\ index' = Editable(disk.targets)
  /\ daemon' = "up"
  /\ UNCHANGED <<disk, lock, job, clientVars>>

\* SQLite rolls back what was not committed, and commits stay.
Crash ==
  /\ daemon # "down"
  /\ daemon' = "down"
  /\ cache' = Empty
  /\ index' = {}
  /\ lock' = None
  /\ job' = [w \in Workers |-> NoJob]
  /\ UNCHANGED <<disk, clientVars>>

\* migrate: refused unless the catalogue is untouched; the daemon may run.
Import ==
  /\ disk.revision = 0
  /\ MaxRevision > 0
  /\ \E targets \in SUBSET Targets : disk' = [revision |-> 1, targets |-> targets]
  /\ UNCHANGED <<daemonVars, job, clientVars>>

-----------------------------------------------------------------------------
Next ==
  \/ \E c \in Clients : Load(c) \/ Save(c) \/ Cleanup(c) \/ GiveUp(c)
  \/ \E w \in Workers :
       \/ Read(w) \/ Compete(w) \/ Begin(w) \/ Transact(w)
       \/ SwapCache(w) \/ SwapIndex(w) \/ Release(w) \/ Answer(w)
  \/ ReadRevision \/ ReadTargets \/ Crash \/ Import

Spec == Init /\ [][Next]_vars

-----------------------------------------------------------------------------
(* Properties *)

\* A replacement overwrites exactly the catalogue its editor had on screen as
\* committed: with two sessions, lost answers, retries, a migration and
\* restarts of the daemon, no update is lost unseen (CATALOG_CONFLICT).
NoLostUpdate ==
  [][\A w \in Workers :
       At(w, "transact") /\ job'[w] # job[w] /\ disk' # disk
       => Editable(disk.targets) = job[w].seen]_vars

\* What an editor holds as committed was committed: it is never ahead of the
\* store, and at the store's revision it is the store's content.
EditorsHoldCommitted ==
  \A c \in Clients :
    /\ base[c].revision <= disk.revision
    /\ base[c].revision = disk.revision => base[c].targets = Editable(disk.targets)

\* An editor's view never goes back to an older catalogue, whatever answers
\* arrive late and however often the daemon restarts.
NoStepBack == [][\A c \in Clients : base'[c].revision >= base[c].revision]_vars

\* While no replacement is under way, requests by alias and the editors are
\* served the same catalogue, and it is the committed one; only a migration
\* behind a running daemon leaves it with the empty catalogue it started with.
SnapshotCurrent ==
  daemon = "up" /\ lock = None
  => /\ index = cache.targets
     /\ \/ cache = [revision |-> disk.revision, targets |-> Editable(disk.targets)]
        \/ cache = Empty /\ disk.revision = 1

\* Each dashboard has its session with the daemon, whatever happens to threads,
\* answers and daemon: a replacement that it hears is done is the one it sent,
\* although others' requests, and its own earlier ones, are under way too.
Sent(c) == UNION {job[w].targets : w \in {v \in Workers : job[v].client = c}}
Session(c) == INSTANCE EditorSession
                WITH asked <- asked[c], sent <- Sent(c), base <- base[c].targets, able <- loaded[c]
KeepsSessions ==
  /\ \A c \in Browsers : Session(c)!Init
  /\ [][\A c \in Browsers : [Session(c)!Next]_(Session(c)!sessionVars)]_vars

\* An automatic cleanup only takes targets away from the committed catalogue:
\* it does not publish edits the user has not saved.
CleanupOnlyRemoves ==
  [][\A w \in Workers :
       At(w, "transact") /\ job'[w] # job[w] /\ disk' # disk /\ job[w].ask = "cleanup"
       => disk'.targets \subseteq disk.targets]_vars

\* Nothing that clashes with the built-in recommended target is ever served,
\* not even when a migration has stored it.
BuiltinUnshadowed == (cache.targets \union index) \intersect Reserved = {}
=============================================================================
