------------------------- MODULE DestinationEditor -------------------------
(***************************************************************************)
(* The destination editor of the dashboard, static/dashboard.js: the list  *)
(* the user edits, the list known to be saved, the discovery of options    *)
(* for every entry, and the automatic cleanup of entries whose saved value *)
(* the provider no longer offers.  It runs in one thread; what interleaves *)
(* are the user, the answers to `fetch', and the code after each `await'.  *)
(*                                                                         *)
(* An entry is known by the alias it was loaded with (targetIdentity); the *)
(* one new destination that can be under construction is New.  Kind and    *)
(* parent fields of a selector are its context, its discovered field is    *)
(* its value.  Labels and the order of the list are left out.              *)
(***************************************************************************)
EXTENDS Naturals, FiniteSets

CONSTANTS Aliases, Contexts, Values,
          New,        \* newDestinationDraft
          None,       \* an empty field, or no saved selection
          Tried,      \* bound: the contexts tried for each entry
          MaxTargets, \* the length of a full list, 100 in the code
          MaxStale    \* bound on the answers under way to replaced discoveries

ASSUME BoundsAreNat == MaxTargets \in Nat /\ MaxStale \in Nat
ASSUME NamesDiffer == New \notin Aliases /\ None \notin Aliases \union Contexts \union Values

Keys       == Aliases \union {New}
Selections == [context : Contexts \union {None}, value : Values \union {None}]

ASSUME NoneIsNoSelection == None \notin Selections
ASSUME TriedAreContexts == Tried \in [Keys -> SUBSET Contexts]

VARIABLES entry,      \* editableCatalogue.targets and their discoveryState
          committed,  \* committedCatalogue: the saved selection of each alias
          loaded,     \* managerLoaded, and whether there is a catalogue at all
          busy,       \* managerBusy, and what the page waits for
          queue,      \* unavailableTargets
          removing,   \* the entries of the cleanup under way
          auto,       \* New \in autoAliasTargets
          stale,      \* answers under way to discoveries that were replaced
          ghost,      \* answers under way for entries no longer in the list
          gone        \* history: saved targets the provider has reported missing

vars == <<entry, committed, loaded, busy, queue, removing, auto, stale, ghost,
          gone>>

-----------------------------------------------------------------------------
(* Types *)

Phases == {"none", "loading", "ready", "error", "removing"}

Entry == [listed : BOOLEAN, alias : Aliases \union {None}, select : Selections,
          phase : Phases, options : SUBSET Values]

Nowhere == [context |-> None, value |-> None]
Absent == [listed |-> FALSE, alias |-> None, select |-> Nowhere,
           phase |-> "none", options |-> {}]

TypeOK ==
  /\ entry \in [Keys -> Entry]
  /\ committed \in [Aliases -> Selections \union {None}]
  /\ loaded \in {"never", "failed", "yes"}
  /\ busy \in {"no", "load", "save", "saved", "cleanup", "cleaned"}
  /\ queue \subseteq Aliases
  /\ removing \subseteq Aliases
  /\ auto \in BOOLEAN
  /\ stale \subseteq Keys \X Contexts
  /\ ghost \in BOOLEAN
  /\ gone \subseteq Aliases

\* The page as it opens.
Init ==
  /\ entry = [k \in Keys |-> Absent]
  /\ committed = [a \in Aliases |-> None]
  /\ loaded = "never"
  /\ busy = "no"
  /\ queue = {}
  /\ removing = {}
  /\ auto = FALSE
  /\ stale = {}
  /\ ghost = FALSE
  /\ gone = {}

-----------------------------------------------------------------------------
(* The decisions the code takes; a Faulty variant is used by no action, only  *)
(* by the mutation checks of PROJECT.json.                                    *)

Listed == {k \in Keys : entry[k].listed}
Saved(catalogue) == {a \in Aliases : catalogue[a] # None}

\* What cleanup removes from the saved list: entries go by the alias they were
\* loaded with, whatever the user has typed since.
FaultyIdentity(k) == entry[k].alias
Identity(k) == k
Removed(keys) == {Identity(k) : k \in keys}

\* A changed context starts without a value.
Moved(select, c) == [context |-> c, value |-> None]

\* An answer to a discovery that was replaced in the meantime is dropped.
Heeded(k, options) == FALSE

\* validateEditor, as far as the provider's options and the aliases go.
Valid ==
  /\ Listed # {}
  /\ \A k \in Listed :
       /\ entry[k].alias # None
       /\ entry[k].phase \notin {"none", "loading", "error"}
       /\ entry[k].select.value \in entry[k].options
       /\ \A j \in Listed \ {k} : entry[j].alias # entry[k].alias

\* hasUnfinishedDestination
Unfinished == \E k \in Listed : entry[k].alias = None

\* uniqueAlias: not the alias of another entry of the list.
Unused(k) == Aliases \ {entry[j].alias : j \in Listed \ {k}}

-----------------------------------------------------------------------------
(* Rendering, adoption and cleanup, which the handlers end with *)

\* renderEditor asks for the options of every entry that has a context and has
\* not asked yet (ensureProviderOptions).
Rendered(list) ==
  [k \in Keys |->
     IF list[k].listed /\ list[k].phase = "none" /\ list[k].select.context # None
     THEN [list[k] EXCEPT !.phase = "loading"]
     ELSE list[k]]

\* adoptCommittedCatalogue makes new objects of the saved targets.
Clones(catalogue) ==
  [k \in Keys |->
     IF k \in Saved(catalogue)
     THEN [Absent EXCEPT !.listed = TRUE, !.alias = k, !.select = catalogue[k]]
     ELSE Absent]

\* What leaves the list leaves its answers behind: one to a current discovery
\* still renders the editor, one to a replaced discovery does nothing.
Discard(keys) ==
  /\ ghost' = (ghost \/ \E k \in keys : entry[k].phase = "loading")
  /\ stale' = {s \in stale : s[1] \notin keys}

Adopt(catalogue) ==
  /\ committed' = catalogue
  /\ Discard(Keys)
  /\ queue' = {}
  /\ auto' = FALSE
  /\ gone' = {}

Without(catalogue, aliases) ==
  [a \in Aliases |-> IF a \in aliases THEN None ELSE catalogue[a]]

\* cleanupUnavailableTargets up to its request, for the list it is called with;
\* the only saved destination is left to the user.
FaultyCleanUp(flagged, free) ==
  IF free /\ loaded = "yes" /\ flagged # {} /\ Saved(Without(committed', Removed(flagged))) # {}
  THEN busy' = "cleanup" /\ removing' = flagged /\ queue' = flagged
  ELSE queue' = flagged /\ busy' = (IF free THEN "no" ELSE busy) /\ removing' = removing
FaultyCleanUpLast(flagged, free) ==
  IF free /\ loaded = "yes"
  THEN /\ queue' = {}
       /\ busy' = IF flagged # {} THEN "cleanup" ELSE "no"
       /\ removing' = flagged
  ELSE queue' = flagged /\ UNCHANGED <<busy, removing>>
CleanUp(flagged, free) ==
  IF free /\ loaded = "yes"
  THEN /\ queue' = {}
       /\ IF flagged # {} /\ Saved(Without(committed', Removed(flagged))) # {}
          THEN busy' = "cleanup" /\ removing' = flagged
          ELSE busy' = "no" /\ removing' = {}
  ELSE queue' = flagged /\ UNCHANGED <<busy, removing>>

-----------------------------------------------------------------------------
(* Answers to discoveries *)

\* For the history: the provider was asked about a context and named these.
Report(context, options) ==
  gone' = gone \union
    {a \in Saved(committed) : committed[a].context = context /\ committed[a].value \notin options}

\* loadProviderOptions, answered or failed, while its discovery is current.
Flags(k, options) == k # New /\ entry[k].select.value \notin options \union {None}

DiscoveryAnswered(k, options) ==
  /\ entry[k].phase = "loading"
  /\ Report(entry[k].select.context, options)
  /\ entry' = [entry EXCEPT ![k].phase = IF entry[k].select.value \in options \union {None}
                                         THEN "ready" ELSE "removing",
                            ![k].options = options]
  /\ UNCHANGED committed
  /\ IF Flags(k, options)
     THEN CleanUp(queue \union {k}, busy = "no")
     ELSE UNCHANGED <<queue, busy, removing>>
  /\ UNCHANGED <<loaded, auto, stale, ghost>>

DiscoveryFailed(k) ==
  /\ entry[k].phase = "loading"
  /\ entry' = [entry EXCEPT ![k].phase = "error", ![k].options = {}]
  /\ UNCHANGED <<committed, loaded, busy, queue, removing, auto, stale, ghost, gone>>

\* The same for a discovery that was replaced (`current !== state').
StaleAnswered(k, c, options) ==
  /\ <<k, c>> \in stale
  /\ stale' = stale \ {<<k, c>>}
  /\ Report(c, options)
  /\ UNCHANGED committed
  /\ IF Heeded(k, options)
     THEN CleanUp(queue \union ({k} \ {New}), busy = "no")
     ELSE UNCHANGED <<queue, busy, removing>>
  /\ UNCHANGED <<entry, loaded, auto, ghost>>

\* The same for an entry that has left the list: it only renders.
GhostAnswered ==
  /\ ghost
  /\ ghost' \in BOOLEAN
  /\ entry' = Rendered(entry)
  /\ UNCHANGED <<committed, loaded, busy, queue, removing, auto, stale, gone>>

-----------------------------------------------------------------------------
(* The user, whose controls are disabled while the editor is busy *)

MayEdit(k) == busy = "no" /\ entry[k].listed

\* A change of kind or parent field.
ChooseContext(k, c) ==
  /\ MayEdit(k)
  /\ c # entry[k].select.context
  /\ stale' = IF entry[k].phase = "loading"
              THEN stale \union {<<k, entry[k].select.context>>} ELSE stale
  /\ Cardinality(stale') <= MaxStale
  /\ \E alias \in IF k = New /\ auto THEN Unused(k) \union {None} ELSE {entry[k].alias} :
       entry' = Rendered([entry EXCEPT ![k].select = Moved(@, c), ![k].phase = "none",
                                       ![k].options = {}, ![k].alias = alias])
  /\ UNCHANGED <<committed, loaded, busy, queue, removing, auto, ghost, gone>>

ChooseValue(k, v) ==
  /\ MayEdit(k)
  /\ entry[k].phase = "ready"
  /\ v \in entry[k].options \ {entry[k].select.value}
  /\ \E alias \in IF k = New /\ auto THEN Unused(k) ELSE {entry[k].alias} :
       entry' = Rendered([entry EXCEPT ![k].select.value = v, ![k].alias = alias])
  /\ UNCHANGED <<committed, loaded, busy, queue, removing, auto, stale, ghost, gone>>

EditAlias(k, alias) ==
  /\ MayEdit(k)
  /\ entry' = [entry EXCEPT ![k].alias = alias]
  /\ auto' = (auto /\ k # New)
  /\ UNCHANGED <<committed, loaded, busy, queue, removing, stale, ghost, gone>>

AddDestination ==
  /\ busy = "no"
  /\ loaded # "never"
  /\ ~entry[New].listed
  /\ ~Unfinished
  /\ Cardinality(Listed) < MaxTargets
  /\ entry' = Rendered([entry EXCEPT ![New] = [Absent EXCEPT !.listed = TRUE]])
  /\ auto' = TRUE
  /\ UNCHANGED <<committed, loaded, busy, queue, removing, stale, ghost, gone>>

RemoveDestination(k) ==
  /\ MayEdit(k)
  /\ entry' = Rendered([entry EXCEPT ![k] = Absent])
  /\ Discard({k})
  /\ queue' = queue \ {k}
  /\ auto' = (auto /\ k # New)
  /\ UNCHANGED <<committed, loaded, busy, removing, gone>>

-----------------------------------------------------------------------------
(* Load, save and cleanup, each from its request to its `finally' *)

LoadManager ==
  /\ busy = "no"
  /\ busy' = "load"
  /\ entry' = Rendered(entry)
  /\ UNCHANGED <<committed, loaded, queue, removing, auto, stale, ghost, gone>>

\* Other sessions may have saved anything.
LoadAnswered ==
  /\ busy = "load"
  /\ \E catalogue \in [Aliases -> [context : Contexts, value : Values] \union {None}] :
       /\ \A a \in Saved(catalogue) : catalogue[a].context \in Tried[a]
       /\ Cardinality(Saved(catalogue)) <= MaxTargets
       /\ Adopt(catalogue)
       /\ entry' = Rendered(Clones(catalogue))
  /\ loaded' = "yes"
  /\ busy' = "no"
  /\ UNCHANGED removing

LoadFailed ==
  /\ busy = "load"
  /\ loaded' = IF loaded = "never" THEN "never" ELSE "failed"
  /\ entry' = Rendered(entry)
  /\ busy' = "no"
  /\ UNCHANGED <<committed, queue, removing, auto, stale, ghost, gone>>

SaveManager ==
  /\ loaded = "yes"
  /\ busy = "no"
  /\ Valid
  /\ busy' = "save"
  /\ entry' = Rendered(entry)
  /\ UNCHANGED <<committed, loaded, queue, removing, auto, stale, ghost, gone>>

\* catalogueTargetsForRequest: the list as it stands, by its present aliases.
Request ==
  [a \in Aliases |->
     IF \E k \in Listed : entry[k].alias = a
     THEN entry[CHOOSE k \in Listed : entry[k].alias = a].select
     ELSE None]

\* What was saved is adopted at once but rendered only after loadTargets.
SaveAnswered ==
  /\ busy = "save"
  /\ Adopt(Request)
  /\ entry' = Clones(Request)
  /\ busy' = "saved"
  /\ UNCHANGED <<loaded, removing>>


\* The `finally' of saveManager, after its request failed or all is done.
SaveSettled ==
  /\ busy \in {"save", "saved"}
  /\ busy' = "no"
  /\ entry' = Rendered(entry)
  /\ UNCHANGED <<committed, loaded, queue, removing, auto, stale, ghost, gone>>

\* The saved list has shrunk; the edited one loses the same entries.
CleanupAnswered ==
  /\ busy = "cleanup"
  /\ committed' = Without(committed, Removed(removing))
  /\ entry' = [k \in Keys |-> IF k \in removing THEN Absent ELSE entry[k]]
  /\ Discard(removing)
  /\ busy' = "cleaned"
  /\ UNCHANGED <<loaded, queue, removing, auto, gone>>

\* The `finally' of the cleanup, which goes on with what was flagged meanwhile.
CleanupSettled ==
  /\ busy \in {"cleanup", "cleaned"}
  /\ entry' = Rendered(entry)
  /\ UNCHANGED committed
  /\ CleanUp(queue, TRUE)
  /\ UNCHANGED <<loaded, auto, stale, ghost, gone>>

-----------------------------------------------------------------------------
Answers ==
  \/ LoadAnswered \/ LoadFailed \/ SaveAnswered \/ SaveSettled
  \/ CleanupAnswered \/ CleanupSettled

Discoveries ==
  \/ \E k \in Keys : DiscoveryFailed(k)
  \/ \E k \in Keys, options \in SUBSET Values :
       \/ DiscoveryAnswered(k, options)
       \/ \E c \in Contexts : StaleAnswered(k, c, options)

User ==
  \/ \E k \in Keys :
       \/ \E c \in Tried[k] : ChooseContext(k, c)
       \/ \E v \in Values : ChooseValue(k, v)
       \/ \E alias \in Aliases \union {None} : EditAlias(k, alias)
       \/ RemoveDestination(k)
  \/ AddDestination \/ LoadManager \/ SaveManager

Next == Answers \/ Discoveries \/ GhostAnswered \/ User

Spec == Init /\ [][Next]_vars

\* Every fetch settles (the web API answers within its own timeouts) and the
\* browser runs what waits for it.  Users and discoveries owe nothing.
FairSpec == Spec /\ WF_vars(Answers)

-----------------------------------------------------------------------------
(* Properties *)

\* An automatic cleanup takes from the saved list only destinations whose saved
\* selection the provider has reported missing since it was loaded: not one the
\* user has renamed or is editing, nor one for which another context's answer
\* came late (cleanupUnavailableTargets).
CleanupRemovesReported ==
  busy = "cleanup" => Removed(removing) \intersect Saved(committed) \subseteq gone

\* The page keeps to its session with the catalogue: it asks for one thing at a
\* time, saves nothing empty and nothing it has not loaded, sends in a cleanup
\* only what is saved, and what it sent is what it then shows as committed,
\* whatever the user and late answers have done to the list in the meantime.
Pairs(catalogue) == {<<a, catalogue[a]>> : a \in Saved(catalogue)}
Pending == IF busy \in {"load", "save", "cleanup"} THEN busy ELSE "none"
Sent ==
  CASE busy = "save"    -> {<<entry[k].alias, entry[k].select>> : k \in Listed}
    [] busy = "cleanup" -> Pairs(Without(committed, Removed(removing)))
    [] OTHER            -> {}

Session == INSTANCE EditorSession
             WITH asked <- Pending, sent <- Sent, base <- Pairs(committed), able <- loaded = "yes"
KeepsSession == Session!Spec

\* The editor does not stay busy: every path out of a load, a save and a
\* cleanup gives the controls back.
BusyEnds == busy # "no" ~> busy = "no"

\* "It normally removes unavailable saved entries automatically; if automatic
\* cleanup cannot complete, it reports the problem": an entry that is marked for
\* removal in a working editor is removed, or the removal is at least tried.
FlaggedIsHandled == \A k \in Aliases : k \in queue ~> k \notin queue \/ loaded # "yes"
=============================================================================
