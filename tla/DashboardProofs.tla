-------------------------- MODULE DashboardProofs --------------------------
(***************************************************************************)
(* Theorems about the dashboard page, for any targets, aliases, contexts   *)
(* and values: DestinationEditor, and beside it on the same page, with     *)
(* variables of its own, ControlPanel.                                     *)
(***************************************************************************)
EXTENDS DestinationEditor, ControlPanel, TLAPS

-----------------------------------------------------------------------------
(* The editor: the operators that make a new list *)

\* Nobody but the new destination has no saved counterpart.
LEMMA Names == New \in Keys /\ New \notin Aliases /\ Aliases \subseteq Keys /\ None \notin Contexts
BY NamesDiffer DEF Keys

LEMMA AbsentType ==
  /\ Absent \in Entry /\ Nowhere \in Selections /\ Absent.select = Nowhere
  /\ Nowhere.value = None /\ Absent.phase = "none" /\ Absent.listed = FALSE
BY DEF Absent, Nowhere, Entry, Selections, Phases

\* Rendering only starts discoveries, of entries that have a context.
LEMMA RenderedList ==
  ASSUME NEW list \in [Keys -> Entry]
  PROVE  /\ Rendered(list) \in [Keys -> Entry]
         /\ \A k \in Keys : /\ Rendered(list)[k].select = list[k].select
                            /\ \/ Rendered(list)[k].phase = list[k].phase
                               \/ /\ list[k].phase = "none" /\ Rendered(list)[k].phase = "loading"
                                  /\ list[k].select.context # None
<1>1. ASSUME NEW k \in Keys
      PROVE  LET e == Rendered(list)[k]
             IN  /\ e \in Entry /\ e.select = list[k].select
                 /\ \/ e.phase = list[k].phase
                    \/ /\ list[k].phase = "none" /\ e.phase = "loading"
                       /\ list[k].select.context # None
  <2>1. list[k] \in Entry
    OBVIOUS
  <2>2. CASE list[k].listed /\ list[k].phase = "none" /\ list[k].select.context # None
    <3>1. Rendered(list)[k] = [list[k] EXCEPT !.phase = "loading"]
      BY <2>2 DEF Rendered
    <3>. QED BY <2>1, <2>2, <3>1 DEF Entry, Phases
  <2>3. CASE ~(list[k].listed /\ list[k].phase = "none" /\ list[k].select.context # None)
    <3>1. Rendered(list)[k] = list[k]
      BY <2>3 DEF Rendered
    <3>. QED BY <2>1, <3>1
  <2>. QED BY <2>2, <2>3
<1>2. Rendered(list) \in [Keys -> Entry]
  BY <1>1 DEF Rendered
<1>. QED BY <1>1, <1>2

\* The clones of a catalogue stand for what it has saved, and nothing else.
LEMMA ClonedList ==
  ASSUME NEW saved \in [Aliases -> Selections \union {None}]
  PROVE  /\ Clones(saved) \in [Keys -> Entry]
         /\ \A k \in Keys : Clones(saved)[k].phase = "none"
         /\ \A k \in Saved(saved) : Clones(saved)[k].select = saved[k]
<1>1. ASSUME NEW k \in Keys
      PROVE  /\ Clones(saved)[k] \in Entry /\ Clones(saved)[k].phase = "none"
             /\ k \in Saved(saved) => Clones(saved)[k].select = saved[k]
  <2>1. CASE k \in Saved(saved)
    <3>1. k \in Aliases /\ saved[k] \in Selections
      BY <2>1 DEF Saved
    <3>2. Clones(saved)[k] = [Absent EXCEPT !.listed = TRUE, !.alias = k, !.select = saved[k]]
      BY <2>1 DEF Clones
    <3>. QED BY <3>1, <3>2 DEF Absent, Entry, Phases
  <2>2. CASE k \notin Saved(saved)
    <3>1. Clones(saved)[k] = Absent
      BY <2>2 DEF Clones
    <3>. QED BY <2>2, <3>1, AbsentType
  <2>. QED BY <2>1, <2>2
<1>2. Clones(saved) \in [Keys -> Entry]
  BY <1>1 DEF Clones
<1>. QED BY <1>1, <1>2, Names DEF Saved

\* The list that is sent is a catalogue.
LEMMA RequestCatalogue ==
  ASSUME TypeOK
  PROVE  Request \in [Aliases -> Selections \union {None}]
<1>1. ASSUME NEW a \in Aliases, \E k \in Listed : entry[k].alias = a
      PROVE  entry[CHOOSE k \in Listed : entry[k].alias = a].select \in Selections
  <2>1. (CHOOSE k \in Listed : entry[k].alias = a) \in Listed
    BY <1>1
  <2>2. \A k \in Listed : entry[k].select \in Selections
    BY DEF TypeOK, Listed, Entry
  <2>. QED BY <2>1, <2>2
<1>. QED BY <1>1 DEF Request

LEMMA RemovedIsKeys == \A keys : Removed(keys) = keys
BY DEF Removed, Identity

-----------------------------------------------------------------------------
(* The editor: type correctness *)

\* Only what has a context is under discovery.
Asking == \A k \in Keys : entry[k].phase = "loading" => entry[k].select.context # None

TInv == TypeOK /\ Asking

\* Most steps change the list and render it.
LEMMA RenderedType ==
  ASSUME NEW list \in [Keys -> Entry], entry' = Rendered(list),
         \A k \in Keys : list[k].phase = "loading" => list[k].select.context # None
  PROVE  entry' \in [Keys -> Entry] /\ Asking'
BY RenderedList DEF Asking

\* What is discarded is forgotten.
LEMMA DiscardType ==
  ASSUME TypeOK, NEW keys, Discard(keys)
  PROVE  ghost' \in BOOLEAN /\ stale' \subseteq Keys \X Contexts
BY DEF Discard, TypeOK

LEMMA CleanUpType ==
  ASSUME TypeOK, NEW flagged \in SUBSET Aliases, NEW free, CleanUp(flagged, free)
  PROVE  /\ queue' \subseteq Aliases /\ removing' \subseteq Aliases
         /\ busy' \in {"no", "load", "save", "saved", "cleanup", "cleaned"}
BY DEF CleanUp, TypeOK

LEMMA DiscoveryType ==
  ASSUME TInv, NEW k \in Keys, NEW answer \in SUBSET Values,
         DiscoveryAnswered(k, answer) \/ DiscoveryFailed(k)
  PROVE  TInv'
<1>. USE DEF TInv
<1>0. entry[k] \in Entry /\ k \in Keys
  BY DEF TypeOK
<1>1. ASSUME NEW to \in {"ready", "removing", "error"}, NEW choices \in SUBSET Values,
             entry' = [entry EXCEPT ![k].phase = to, ![k].options = choices]
      PROVE  entry' \in [Keys -> Entry] /\ Asking'
  <2>1. entry' = [entry EXCEPT ![k] = [entry[k] EXCEPT !.phase = to, !.options = choices]]
    BY <1>1 DEF TypeOK
  <2>2. /\ [entry[k] EXCEPT !.phase = to, !.options = choices] \in Entry
        /\ [entry[k] EXCEPT !.phase = to, !.options = choices].phase = to
    BY <1>0 DEF Entry, Phases
  <2>. QED BY <2>1, <2>2 DEF TypeOK, Asking
<1>2. CASE DiscoveryAnswered(k, answer)
  <2>1. entry' \in [Keys -> Entry] /\ Asking'
    BY <1>1, <1>2 DEF DiscoveryAnswered
  <2>2. gone' \subseteq Aliases
    BY <1>2 DEF DiscoveryAnswered, Report, TypeOK, Saved
  <2>3. Flags(k, answer) => queue \union {k} \in SUBSET Aliases
    BY DEF Flags, Keys, TypeOK
  <2>4. /\ queue' \subseteq Aliases /\ removing' \subseteq Aliases
        /\ busy' \in {"no", "load", "save", "saved", "cleanup", "cleaned"}
    <3>1. CASE Flags(k, answer)
      BY <1>2, <2>3, <3>1, CleanUpType DEF DiscoveryAnswered
    <3>2. CASE ~Flags(k, answer)
      BY <1>2, <3>2 DEF DiscoveryAnswered, TypeOK
    <3>. QED BY <3>1, <3>2
  <2>. QED BY <1>2, <2>1, <2>2, <2>4 DEF DiscoveryAnswered, TypeOK
<1>3. CASE DiscoveryFailed(k)
  <2>1. entry' \in [Keys -> Entry] /\ Asking'
    <3>1. entry' = [entry EXCEPT ![k].phase = "error", ![k].options = {}]
      BY <1>3 DEF DiscoveryFailed
    <3>2. "error" \in {"ready", "removing", "error"} /\ {} \in SUBSET Values
      OBVIOUS
    <3>. QED BY <1>1, <3>1, <3>2
  <2>. QED BY <1>3, <2>1 DEF DiscoveryFailed, TypeOK
<1>. QED BY <1>2, <1>3

\* What the user does to one entry.
LEMMA EditType ==
  ASSUME TInv, NEW k \in Keys,
         \/ \E c \in Tried[k] : ChooseContext(k, c)
         \/ \E v \in Values : ChooseValue(k, v)
         \/ \E alias \in Aliases \union {None} : EditAlias(k, alias)
         \/ RemoveDestination(k)
  PROVE  TInv'
<1>. USE DEF TInv
<1>0. /\ entry \in [Keys -> Entry] /\ entry[k] \in Entry /\ entry[k].alias \in Aliases \union {None}
      /\ Unused(k) \subseteq Aliases
  BY DEF TypeOK, Entry, Unused
<1>e. ASSUME NEW e \in Entry, e.phase = "loading" => e.select.context # None,
             entry' = Rendered([entry EXCEPT ![k] = e])
      PROVE  entry' \in [Keys -> Entry] /\ Asking'
  <2>1. /\ [entry EXCEPT ![k] = e] \in [Keys -> Entry]
        /\ \A j \in Keys : [entry EXCEPT ![k] = e][j].phase = "loading"
                           => [entry EXCEPT ![k] = e][j].select.context # None
    BY <1>0, <1>e DEF Asking
  <2>. QED BY <1>e, <2>1, RenderedType
<1>1. ASSUME NEW c \in Tried[k], ChooseContext(k, c) PROVE TInv'
  <2>1. c \in Contexts
    BY TriedAreContexts
  <2>2. PICK alias \in Aliases \union {None} :
          entry' = Rendered([entry EXCEPT ![k].select = Moved(@, c), ![k].phase = "none",
                                          ![k].options = {}, ![k].alias = alias])
    BY <1>0, <1>1 DEF ChooseContext
  <2> DEFINE e == [entry[k] EXCEPT !.select = Moved(@, c), !.phase = "none",
                                   !.options = {}, !.alias = alias]
  <2>3. e \in Entry /\ e.phase = "none"
    BY <1>0, <2>1 DEF Entry, Phases, Moved, Selections
  <2>4. entry' = Rendered([entry EXCEPT ![k] = e])
    BY <1>0, <2>2 DEF Moved
  <2> HIDE DEF e
  <2>5. entry' \in [Keys -> Entry] /\ Asking'
    BY <1>e, <2>3, <2>4
  <2>6. stale' \subseteq Keys \X Contexts
    <3>1. entry[k].phase = "loading" => entry[k].select.context \in Contexts
      BY <1>0 DEF Asking, Entry, Selections
    <3>2. entry[k].phase = "loading" => <<k, entry[k].select.context>> \in Keys \X Contexts
      BY <3>1
    <3>3. \/ stale' = stale
          \/ entry[k].phase = "loading" /\ stale' = stale \union {<<k, entry[k].select.context>>}
      BY <1>1 DEF ChooseContext
    <3>4. stale \subseteq Keys \X Contexts
      BY DEF TypeOK
    <3>. QED BY <3>2, <3>3, <3>4
  <2>. QED BY <1>1, <2>5, <2>6 DEF ChooseContext, TypeOK
<1>2. ASSUME NEW v \in Values, ChooseValue(k, v) PROVE TInv'
  <2>1. PICK alias \in Aliases \union {None} :
          entry' = Rendered([entry EXCEPT ![k].select.value = v, ![k].alias = alias])
    BY <1>0, <1>2 DEF ChooseValue
  <2> DEFINE e == [entry[k] EXCEPT !.select = [@ EXCEPT !.value = v], !.alias = alias]
  <2>2. e \in Entry /\ e.phase = "ready"
    BY <1>0, <1>2 DEF Entry, Phases, Selections, ChooseValue
  <2>3. entry' = Rendered([entry EXCEPT ![k] = e])
    BY <1>0, <2>1
  <2> HIDE DEF e
  <2>4. entry' \in [Keys -> Entry] /\ Asking'
    BY <1>e, <2>2, <2>3
  <2>. QED BY <1>2, <2>4 DEF ChooseValue, TypeOK
<1>3. ASSUME NEW alias \in Aliases \union {None}, EditAlias(k, alias) PROVE TInv'
  <2>1. entry' = [entry EXCEPT ![k] = [entry[k] EXCEPT !.alias = alias]]
    BY <1>0, <1>3 DEF EditAlias
  <2>2. /\ [entry[k] EXCEPT !.alias = alias] \in Entry
        /\ [entry[k] EXCEPT !.alias = alias].phase = entry[k].phase
        /\ [entry[k] EXCEPT !.alias = alias].select = entry[k].select
    BY <1>0 DEF Entry
  <2>3. entry' \in [Keys -> Entry] /\ Asking'
    BY <1>0, <2>1, <2>2 DEF Asking
  <2>. QED BY <1>3, <2>3 DEF EditAlias, TypeOK
<1>4. CASE RemoveDestination(k)
  <2>1. entry' \in [Keys -> Entry] /\ Asking'
    BY <1>e, <1>4, AbsentType DEF RemoveDestination
  <2>2. ghost' \in BOOLEAN /\ stale' \subseteq Keys \X Contexts
    BY <1>4, DiscardType DEF RemoveDestination
  <2>. QED BY <1>4, <2>1, <2>2 DEF RemoveDestination, TypeOK
<1>. QED BY <1>1, <1>2, <1>3, <1>4

\* A load or a save that was answered puts a new catalogue on the page.
LEMMA AdoptType ==
  ASSUME TypeOK, NEW saved \in [Aliases -> Selections \union {None}], Adopt(saved)
  PROVE  /\ committed' \in [Aliases -> Selections \union {None}]
         /\ queue' \subseteq Aliases /\ auto' \in BOOLEAN /\ gone' \subseteq Aliases
         /\ ghost' \in BOOLEAN /\ stale' \subseteq Keys \X Contexts
<1>1. ghost' \in BOOLEAN /\ stale' \subseteq Keys \X Contexts
  BY DiscardType DEF Adopt
<1>. QED BY <1>1 DEF Adopt

\* The catalogues a load may answer with.
LEMMA Loadable ==
  [Aliases -> [context : Contexts, value : Values] \union {None}]
    \subseteq [Aliases -> Selections \union {None}]
<1>1. [context : Contexts, value : Values] \subseteq Selections
  BY DEF Selections
<1>. QED BY <1>1

LEMMA TInvStep == TInv /\ [Next]_vars => TInv'
<1>. SUFFICES ASSUME TInv, [Next]_vars PROVE TInv'
  OBVIOUS
<1>0. /\ TypeOK /\ Asking /\ entry \in [Keys -> Entry]
      /\ committed \in [Aliases -> Selections \union {None}]
  BY DEF TInv, TypeOK
<1>r. ASSUME entry' = Rendered(entry) PROVE entry' \in [Keys -> Entry] /\ Asking'
  BY <1>0, <1>r, RenderedType DEF Asking
<1>1. CASE LoadAnswered
  <2>1. PICK saved \in [Aliases -> [context : Contexts, value : Values] \union {None}] :
          Adopt(saved) /\ entry' = Rendered(Clones(saved))
    BY <1>1 DEF LoadAnswered
  <2>2. saved \in [Aliases -> Selections \union {None}]
    BY Loadable
  <2>3. entry' \in [Keys -> Entry] /\ Asking'
    BY <2>1, <2>2, ClonedList, RenderedType
  <2>. QED BY <1>0, <1>1, <2>1, <2>2, <2>3, AdoptType DEF LoadAnswered, TInv, TypeOK
<1>2. CASE LoadFailed
  BY <1>0, <1>2, <1>r DEF LoadFailed, TInv, TypeOK
<1>3. CASE SaveAnswered
  <2>1. Request \in [Aliases -> Selections \union {None}]
    BY <1>0, RequestCatalogue
  <2>2. entry' \in [Keys -> Entry] /\ Asking'
    BY <1>3, <2>1, ClonedList DEF SaveAnswered, Asking
  <2>3. Adopt(Request)
    BY <1>3 DEF SaveAnswered
  <2>4. /\ committed' \in [Aliases -> Selections \union {None}]
        /\ queue' \subseteq Aliases /\ auto' \in BOOLEAN /\ gone' \subseteq Aliases
        /\ ghost' \in BOOLEAN /\ stale' \subseteq Keys \X Contexts
    BY <1>0, <2>1, <2>3, AdoptType
  <2>. QED BY <1>0, <1>3, <2>2, <2>4 DEF SaveAnswered, TInv, TypeOK
<1>4. CASE SaveSettled
  BY <1>0, <1>4, <1>r DEF SaveSettled, TInv, TypeOK
<1>5. CASE CleanupAnswered
  <2>1. entry' \in [Keys -> Entry] /\ Asking'
    BY <1>0, <1>5, AbsentType DEF CleanupAnswered, Asking
  <2>2. committed' \in [Aliases -> Selections \union {None}]
    BY <1>0, <1>5 DEF CleanupAnswered, Without
  <2>3. ghost' \in BOOLEAN /\ stale' \subseteq Keys \X Contexts
    BY <1>0, <1>5, DiscardType DEF CleanupAnswered
  <2>. QED BY <1>0, <1>5, <2>1, <2>2, <2>3 DEF CleanupAnswered, TInv, TypeOK
<1>6. CASE CleanupSettled
  <2>1. CleanUp(queue, TRUE) /\ queue \in SUBSET Aliases
    BY <1>0, <1>6 DEF CleanupSettled, TypeOK
  <2>2. /\ queue' \subseteq Aliases /\ removing' \subseteq Aliases
        /\ busy' \in {"no", "load", "save", "saved", "cleanup", "cleaned"}
    BY <1>0, <2>1, CleanUpType
  <2>. QED BY <1>0, <1>6, <1>r, <2>2 DEF CleanupSettled, TInv, TypeOK
<1>7. ASSUME NEW k \in Keys, DiscoveryFailed(k) PROVE TInv'
  <2>1. {} \in SUBSET Values
    OBVIOUS
  <2>. QED BY <1>7, <2>1, DiscoveryType
<1>8. ASSUME NEW k \in Keys, NEW answer \in SUBSET Values, DiscoveryAnswered(k, answer)
      PROVE  TInv'
  BY <1>8, DiscoveryType
<1>9. ASSUME NEW k \in Keys, NEW answer \in SUBSET Values, NEW c \in Contexts,
             StaleAnswered(k, c, answer)
      PROVE  TInv'
  <2>1. gone' \subseteq Aliases
    BY <1>0, <1>9 DEF StaleAnswered, Report, Saved, TypeOK
  <2>. QED BY <1>0, <1>9, <2>1 DEF StaleAnswered, Heeded, TInv, TypeOK, Asking
<1>10. CASE GhostAnswered
  BY <1>0, <1>10, <1>r DEF GhostAnswered, TInv, TypeOK
<1>11. ASSUME NEW k \in Keys,
              \/ \E c \in Tried[k] : ChooseContext(k, c)
              \/ \E v \in Values : ChooseValue(k, v)
              \/ \E alias \in Aliases \union {None} : EditAlias(k, alias)
              \/ RemoveDestination(k)
       PROVE  TInv'
  BY <1>11, EditType
<1>12. CASE AddDestination
  <2>1. [Absent EXCEPT !.listed = TRUE] \in Entry /\ [Absent EXCEPT !.listed = TRUE].phase = "none"
    BY AbsentType DEF Entry, Absent
  <2>2. /\ [entry EXCEPT ![New] = [Absent EXCEPT !.listed = TRUE]] \in [Keys -> Entry]
        /\ \A k \in Keys :
             [entry EXCEPT ![New] = [Absent EXCEPT !.listed = TRUE]][k].phase = "loading"
             => [entry EXCEPT ![New] = [Absent EXCEPT !.listed = TRUE]][k].select.context # None
    BY <1>0, <2>1 DEF Asking
  <2>3. entry' \in [Keys -> Entry] /\ Asking'
    BY <1>12, <2>2, RenderedType DEF AddDestination
  <2>. QED BY <1>0, <1>12, <2>3 DEF AddDestination, TInv, TypeOK
<1>13. CASE LoadManager
  BY <1>0, <1>13, <1>r DEF LoadManager, TInv, TypeOK
<1>14. CASE SaveManager
  BY <1>0, <1>14, <1>r DEF SaveManager, TInv, TypeOK
<1>15. CASE UNCHANGED vars
  BY <1>0, <1>15 DEF vars, TInv, TypeOK, Asking
<1>. QED BY <1>1, <1>2, <1>3, <1>4, <1>5, <1>6, <1>7, <1>8, <1>9, <1>10, <1>11, <1>12, <1>13,
            <1>14, <1>15
       DEF Next, Answers, Discoveries, User

\* The editor's variables keep to their types.
THEOREM EditorTypeCorrect == Spec => []TypeOK
<1>1. Init => TInv
  BY AbsentType DEF Init, TInv, TypeOK, Asking
<1>. QED BY <1>1, TInvStep, PTL DEF Spec, TInv

-----------------------------------------------------------------------------
(* The editor: what an automatic cleanup takes.  A destination is flagged for *)
(* the value it shows.  While its first discovery is under way that is the    *)
(* saved one: a value is only chosen after an answer, and a new context has   *)
(* none.  So whatever is flagged was saved as it was reported missing.        *)

Untouched(k) == entry[k].phase \in {"none", "loading"} /\ entry[k].select.value # None

\* An entry with a value that was not discovered on this page shows what is saved.
AsSaved == \A k \in Saved(committed) : Untouched(k) => entry[k].select = committed[k]

Reported(keys) == keys \intersect Saved(committed) \subseteq gone

EInv ==
  /\ AsSaved
  /\ Reported(queue)
  /\ busy = "cleanup" => Reported(removing)

\* Nothing newly untouched, nothing newly flagged: most steps.
LEMMA NothingFlagged ==
  ASSUME EInv, committed' = committed, gone \subseteq gone', queue' \subseteq queue,
         busy' = "cleanup" => busy = "cleanup" /\ removing' = removing,
         \A k \in Aliases : Untouched(k)' => Untouched(k) /\ entry'[k].select = entry[k].select
  PROVE  EInv'
<1>1. Saved(committed)' = Saved(committed) /\ Saved(committed) \subseteq Aliases
  BY DEF Saved
<1>2. AsSaved'
  BY <1>1 DEF EInv, AsSaved
<1>3. Reported(queue)' /\ (busy' = "cleanup" => Reported(removing)')
  BY <1>1 DEF EInv, Reported
<1>. QED BY <1>2, <1>3 DEF EInv

\* Rendering leaves what is untouched as it is.
LEMMA RenderedUntouched ==
  ASSUME NEW list \in [Keys -> Entry], entry' = Rendered(list),
         NEW k \in Keys, Untouched(k)'
  PROVE  /\ entry'[k].select = list[k].select
         /\ list[k].phase \in {"none", "loading"} /\ list[k].select.value # None
BY RenderedList DEF Untouched

LEMMA RenderedFlagsNothing ==
  ASSUME TInv, EInv, entry' = Rendered(entry), UNCHANGED <<committed, gone>>,
         queue' \subseteq queue,
         busy' = "cleanup" => busy = "cleanup" /\ removing' = removing
  PROVE  EInv'
<1>1. \A k \in Aliases : Untouched(k)' => Untouched(k) /\ entry'[k].select = entry[k].select
  BY RenderedUntouched, Names DEF TInv, TypeOK, Untouched
<1>. QED BY <1>1, NothingFlagged

\* A cleanup begins with what was reported.
LEMMA CleanUpReported ==
  ASSUME EInv, NEW flagged, NEW free, CleanUp(flagged, free),
         committed' = committed, gone \subseteq gone',
         flagged \intersect Saved(committed) \subseteq gone'
  PROVE  /\ Reported(queue)' /\ (busy' = "cleanup" => Reported(removing)')
<1>1. Saved(committed)' = Saved(committed)
  BY DEF Saved
<1>2. CASE free /\ loaded = "yes"
  BY <1>1, <1>2 DEF CleanUp, Reported
<1>3. CASE ~(free /\ loaded = "yes")
  BY <1>1, <1>3 DEF CleanUp, Reported, EInv
<1>. QED BY <1>2, <1>3

\* The answer that flags an entry reports its saved selection missing.
LEMMA FlaggedIsReported ==
  ASSUME TInv, EInv, NEW k \in Keys, NEW answer \in SUBSET Values,
         DiscoveryAnswered(k, answer), Flags(k, answer), k \in Saved(committed)
  PROVE  k \in gone'
<1>1. entry[k].phase = "loading" /\ entry[k].select.value \notin answer \union {None}
  BY DEF DiscoveryAnswered, Flags
<1>2. entry[k].select = committed[k]
  BY <1>1 DEF EInv, AsSaved, Untouched
<1>3. committed[k].context = entry[k].select.context /\ committed[k].value \notin answer
  BY <1>1, <1>2
<1>. QED BY <1>3 DEF DiscoveryAnswered, Report

LEMMA AnsweredReports ==
  ASSUME TInv, EInv, NEW k \in Keys, NEW answer \in SUBSET Values, DiscoveryAnswered(k, answer)
  PROVE  EInv'
<1>1. /\ committed' = committed /\ gone \subseteq gone' /\ Saved(committed)' = Saved(committed)
  BY DEF DiscoveryAnswered, Report, Saved
<1>2. \A j \in Aliases : Untouched(j)' => Untouched(j) /\ entry'[j].select = entry[j].select
  <2>. SUFFICES ASSUME NEW j \in Aliases, Untouched(j)'
                PROVE  Untouched(j) /\ entry'[j].select = entry[j].select
    OBVIOUS
  <2>1. entry[k] \in Entry /\ j \in Keys
    BY Names DEF TInv, TypeOK
  <2>2. CASE j = k
    <3>1. entry'[k].phase \in {"ready", "removing"}
      BY <2>1 DEF DiscoveryAnswered, TInv, TypeOK, Entry
    <3>. QED BY <2>2, <3>1 DEF Untouched
  <2>3. CASE j # k
    <3>1. entry'[j] = entry[j]
      BY <2>1, <2>3 DEF DiscoveryAnswered, TInv, TypeOK
    <3>. QED BY <3>1 DEF Untouched
  <2>. QED BY <2>2, <2>3
<1>3. CASE Flags(k, answer)
  <2>1. CleanUp(queue \union {k}, busy = "no")
    BY <1>3 DEF DiscoveryAnswered
  <2>2. (queue \union {k}) \intersect Saved(committed) \subseteq gone'
    <3>1. k \in Saved(committed) => k \in gone'
      BY <1>3, FlaggedIsReported
    <3>2. Reported(queue)
      BY DEF EInv
    <3>. QED BY <1>1, <3>1, <3>2 DEF Reported
  <2>3. AsSaved'
    BY <1>1, <1>2 DEF EInv, AsSaved, Saved
  <2>. QED BY <1>1, <2>1, <2>2, <2>3, CleanUpReported DEF EInv
<1>4. CASE ~Flags(k, answer)
  BY <1>1, <1>2, <1>4, NothingFlagged DEF DiscoveryAnswered
<1>. QED BY <1>3, <1>4

\* What the user does to an entry leaves it touched or as it was.
LEMMA EditFlagsNothing ==
  ASSUME TInv, EInv, NEW k \in Keys,
         \/ \E c \in Tried[k] : ChooseContext(k, c)
         \/ \E v \in Values : ChooseValue(k, v)
         \/ \E alias \in Aliases \union {None} : EditAlias(k, alias)
         \/ RemoveDestination(k)
  PROVE  EInv'
<1>0. /\ entry \in [Keys -> Entry] /\ entry[k] \in Entry
      /\ Unused(k) \subseteq Aliases /\ entry[k].alias \in Aliases \union {None}
  BY DEF TInv, TypeOK, Entry, Unused
<1>e. ASSUME NEW e \in Entry,
             e.phase \in {"none", "loading"} /\ e.select.value # None
               => Untouched(k) /\ e.select = entry[k].select,
             entry' = Rendered([entry EXCEPT ![k] = e])
      PROVE  \A j \in Aliases : Untouched(j)' => Untouched(j) /\ entry'[j].select = entry[j].select
  <2>. SUFFICES ASSUME NEW j \in Aliases, Untouched(j)'
                PROVE  Untouched(j) /\ entry'[j].select = entry[j].select
    OBVIOUS
  <2> DEFINE list == [entry EXCEPT ![k] = e]
  <2>1. list \in [Keys -> Entry] /\ j \in Keys
    BY <1>0, Names
  <2>2. /\ entry'[j].select = list[j].select
        /\ list[j].phase \in {"none", "loading"} /\ list[j].select.value # None
    BY <1>e, <2>1, RenderedUntouched
  <2>3. list[j] = IF j = k THEN e ELSE entry[j]
    BY <1>0, <2>1
  <2> HIDE DEF list
  <2>. QED BY <1>e, <2>2, <2>3 DEF Untouched
<1>1. ASSUME NEW c \in Tried[k], ChooseContext(k, c) PROVE EInv'
  <2>1. PICK alias \in Aliases \union {None} :
          entry' = Rendered([entry EXCEPT ![k].select = Moved(@, c), ![k].phase = "none",
                                          ![k].options = {}, ![k].alias = alias])
    BY <1>0, <1>1 DEF ChooseContext
  <2> DEFINE e == [entry[k] EXCEPT !.select = Moved(@, c), !.phase = "none",
                                   !.options = {}, !.alias = alias]
  <2>2. c \in Contexts
    BY TriedAreContexts
  <2>3. e \in Entry /\ e.select.value = None
    BY <1>0, <2>2 DEF Entry, Phases, Moved, Selections
  <2>4. entry' = Rendered([entry EXCEPT ![k] = e])
    BY <1>0, <2>1 DEF Moved
  <2> HIDE DEF e
  <2>. QED BY <1>1, <1>e, <2>3, <2>4, NothingFlagged DEF ChooseContext
<1>2. ASSUME NEW v \in Values, ChooseValue(k, v) PROVE EInv'
  <2>1. PICK alias \in Aliases \union {None} :
          entry' = Rendered([entry EXCEPT ![k].select.value = v, ![k].alias = alias])
    BY <1>0, <1>2 DEF ChooseValue
  <2> DEFINE e == [entry[k] EXCEPT !.select = [@ EXCEPT !.value = v], !.alias = alias]
  <2>2. e \in Entry /\ e.phase = "ready"
    BY <1>0, <1>2 DEF Entry, Phases, Selections, ChooseValue
  <2>3. entry' = Rendered([entry EXCEPT ![k] = e])
    BY <1>0, <2>1
  <2> HIDE DEF e
  <2>. QED BY <1>2, <1>e, <2>2, <2>3, NothingFlagged DEF ChooseValue
<1>3. ASSUME NEW alias \in Aliases \union {None}, EditAlias(k, alias) PROVE EInv'
  <2>1. \A j \in Keys : entry'[j].phase = entry[j].phase /\ entry'[j].select = entry[j].select
    BY <1>0, <1>3 DEF EditAlias, Entry
  <2>2. \A j \in Aliases : Untouched(j)' => Untouched(j) /\ entry'[j].select = entry[j].select
    BY <2>1, Names DEF Untouched
  <2>. QED BY <1>3, <2>2, NothingFlagged DEF EditAlias
<1>4. CASE RemoveDestination(k)
  <2>1. entry' = Rendered([entry EXCEPT ![k] = Absent])
    BY <1>4 DEF RemoveDestination
  <2>2. \A j \in Aliases : Untouched(j)' => Untouched(j) /\ entry'[j].select = entry[j].select
    BY <1>e, <2>1, AbsentType
  <2>. QED BY <1>4, <2>2, NothingFlagged DEF RemoveDestination
<1>. QED BY <1>1, <1>2, <1>3, <1>4

\* A new catalogue on the page: the clones are what is saved, nothing is flagged.
LEMMA AdoptedFlagsNothing ==
  ASSUME NEW saved \in [Aliases -> Selections \union {None}], Adopt(saved), busy' # "cleanup",
         entry' = Clones(saved) \/ entry' = Rendered(Clones(saved))
  PROVE  EInv'
<1>1. Clones(saved) \in [Keys -> Entry]
  BY ClonedList
<1>2. \A k \in Keys : entry'[k].select = Clones(saved)[k].select
  BY <1>1, RenderedList
<1>3. committed' = saved /\ queue' = {}
  BY DEF Adopt
<1>4. AsSaved'
  <2>. SUFFICES ASSUME NEW k \in Saved(saved) PROVE entry'[k].select = saved[k]
    BY <1>3 DEF AsSaved, Saved
  <2>1. k \in Keys
    BY Names DEF Saved
  <2>. QED BY <1>2, <2>1, ClonedList
<1>. QED BY <1>3, <1>4 DEF EInv, Reported

LEMMA EInvStep == TInv /\ EInv /\ [Next]_vars => EInv'
<1>. SUFFICES ASSUME TInv, EInv, [Next]_vars PROVE EInv'
  OBVIOUS
<1>0. /\ entry \in [Keys -> Entry] /\ TypeOK
      /\ committed \in [Aliases -> Selections \union {None}]
  BY DEF TInv, TypeOK
<1>1. CASE LoadAnswered
  <2>1. PICK saved \in [Aliases -> [context : Contexts, value : Values] \union {None}] :
          Adopt(saved) /\ entry' = Rendered(Clones(saved))
    BY <1>1 DEF LoadAnswered
  <2>2. saved \in [Aliases -> Selections \union {None}]
    BY Loadable
  <2>. QED BY <1>1, <2>1, <2>2, AdoptedFlagsNothing DEF LoadAnswered
<1>2. CASE LoadFailed
  BY <1>2, RenderedFlagsNothing DEF LoadFailed
<1>3. CASE SaveAnswered
  BY <1>0, <1>3, RequestCatalogue, AdoptedFlagsNothing DEF SaveAnswered
<1>4. CASE SaveSettled
  BY <1>4, RenderedFlagsNothing DEF SaveSettled
<1>5. CASE CleanupAnswered
  <2>1. /\ Saved(committed)' = Saved(committed) \ removing
        /\ \A k \in Saved(committed) \ removing : committed'[k] = committed[k]
    BY <1>0, <1>5, RemovedIsKeys DEF CleanupAnswered, Saved, Without
  <2>2. \A k \in Keys \ removing : entry'[k] = entry[k]
    BY <1>5 DEF CleanupAnswered
  <2>3. AsSaved'
    <3>. SUFFICES ASSUME NEW k \in Saved(committed) \ removing, Untouched(k)'
                  PROVE  entry'[k].select = committed'[k]
      BY <2>1 DEF AsSaved
    <3>1. k \in Keys
      BY Names DEF Saved
    <3>. QED BY <2>1, <2>2, <3>1 DEF EInv, AsSaved, Untouched
  <2>4. Reported(queue)'
    BY <1>5, <2>1 DEF EInv, Reported, CleanupAnswered
  <2>. QED BY <1>5, <2>3, <2>4 DEF EInv, CleanupAnswered
<1>6. CASE CleanupSettled
  <2>1. /\ CleanUp(queue, TRUE) /\ entry' = Rendered(entry) /\ committed' = committed
        /\ gone' = gone /\ Saved(committed)' = Saved(committed)
    BY <1>6 DEF CleanupSettled, Saved
  <2>2. Reported(queue)' /\ (busy' = "cleanup" => Reported(removing)')
    <3>1. queue \intersect Saved(committed) \subseteq gone'
      BY <2>1 DEF EInv, Reported
    <3>. QED BY <2>1, <3>1, CleanUpReported
  <2>3. \A k \in Aliases : Untouched(k)' => Untouched(k) /\ entry'[k].select = entry[k].select
    BY <1>0, <2>1, RenderedUntouched, Names DEF Untouched
  <2>4. AsSaved'
    BY <2>1, <2>3 DEF EInv, AsSaved, Saved
  <2>. QED BY <2>2, <2>4 DEF EInv
<1>7. ASSUME NEW k \in Keys, DiscoveryFailed(k) PROVE EInv'
  <2>1. \A j \in Keys : entry'[j].phase = (IF j = k THEN "error" ELSE entry[j].phase)
                        /\ entry'[j].select = entry[j].select
    BY <1>0, <1>7 DEF DiscoveryFailed, Entry
  <2>2. \A j \in Aliases : Untouched(j)' => Untouched(j) /\ entry'[j].select = entry[j].select
    BY <2>1, Names DEF Untouched
  <2>. QED BY <1>7, <2>2, NothingFlagged DEF DiscoveryFailed
<1>8. ASSUME NEW k \in Keys, NEW answer \in SUBSET Values, DiscoveryAnswered(k, answer)
      PROVE  EInv'
  BY <1>8, AnsweredReports
<1>9. ASSUME NEW k \in Keys, NEW answer \in SUBSET Values, NEW c \in Contexts,
             StaleAnswered(k, c, answer)
      PROVE  EInv'
  <2>1. gone \subseteq gone' /\ UNCHANGED <<entry, committed, queue, busy, removing>>
    BY <1>9 DEF StaleAnswered, Report, Heeded
  <2>. QED BY <2>1, NothingFlagged DEF Untouched
<1>10. CASE GhostAnswered
  BY <1>10, RenderedFlagsNothing DEF GhostAnswered
<1>11. ASSUME NEW k \in Keys,
              \/ \E c \in Tried[k] : ChooseContext(k, c)
              \/ \E v \in Values : ChooseValue(k, v)
              \/ \E alias \in Aliases \union {None} : EditAlias(k, alias)
              \/ RemoveDestination(k)
       PROVE  EInv'
  BY <1>11, EditFlagsNothing
<1>12. CASE AddDestination
  <2>1. [Absent EXCEPT !.listed = TRUE] \in Entry
    BY AbsentType DEF Entry, Absent
  <2>2. /\ [entry EXCEPT ![New] = [Absent EXCEPT !.listed = TRUE]] \in [Keys -> Entry]
        /\ \A j \in Aliases : [entry EXCEPT ![New] = [Absent EXCEPT !.listed = TRUE]][j] = entry[j]
    BY <1>0, <2>1, Names
  <2>3. \A j \in Aliases : Untouched(j)' => Untouched(j) /\ entry'[j].select = entry[j].select
    BY <1>12, <2>2, RenderedUntouched, Names DEF AddDestination, Untouched
  <2>. QED BY <1>12, <2>3, NothingFlagged DEF AddDestination
<1>13. CASE LoadManager
  BY <1>13, RenderedFlagsNothing DEF LoadManager
<1>14. CASE SaveManager
  BY <1>14, RenderedFlagsNothing DEF SaveManager
<1>15. CASE UNCHANGED vars
  BY <1>15, NothingFlagged DEF vars, Untouched
<1>. QED BY <1>1, <1>2, <1>3, <1>4, <1>5, <1>6, <1>7, <1>8, <1>9, <1>10, <1>11, <1>12, <1>13,
            <1>14, <1>15
       DEF Next, Answers, Discoveries, User

\* Whatever the user renames, moves and adds, and in whatever order the answers
\* come, an automatic cleanup takes from the saved list only destinations whose
\* saved selection the provider has reported missing (cleanupUnavailableTargets).
THEOREM CleanupsRemoveReported == Spec => []CleanupRemovesReported
<1>1. Init => TInv /\ EInv
  <2>1. Init => TInv
    BY AbsentType DEF Init, TInv, TypeOK, Asking
  <2>2. Init => EInv
    BY DEF Init, EInv, AsSaved, Reported, Saved
  <2>. QED BY <2>1, <2>2
<1>2. EInv => CleanupRemovesReported
  BY RemovedIsKeys DEF EInv, Reported, CleanupRemovesReported
<1>3. Spec => [](TInv /\ EInv)
  BY <1>1, TInvStep, EInvStep, PTL DEF Spec
<1>. QED BY <1>2, <1>3, PTL

-----------------------------------------------------------------------------
(* The editor: its session with the catalogue.  What a save sends is the list *)
(* as it was when it was asked for, which has every alias once: nothing the   *)
(* page does while it waits changes what an entry stands for.                 *)

Distinct ==
  \A k \in Listed :
    entry[k].alias # None /\ \A j \in Listed \ {k} : entry[j].alias # entry[k].alias

SInv ==
  /\ busy \in {"save", "cleanup"} => loaded = "yes" /\ Sent # {}
  /\ busy = "save" => Distinct

\* What the list stands for stays the same.
SameRows ==
  \A k \in Keys : /\ entry'[k].listed = entry[k].listed
                  /\ entry'[k].alias = entry[k].alias
                  /\ entry'[k].select = entry[k].select

LEMMA RowsRendered ==
  ASSUME TInv, entry' = Rendered(entry)
  PROVE  SameRows
<1>. SUFFICES ASSUME NEW k \in Keys
              PROVE  /\ entry'[k].listed = entry[k].listed
                     /\ entry'[k].alias = entry[k].alias
                     /\ entry'[k].select = entry[k].select
  BY DEF SameRows
<1>1. entry[k] \in Entry
  BY DEF TInv, TypeOK
<1>. QED BY <1>1 DEF Rendered, Entry

LEMMA RowsSent ==
  ASSUME SameRows
  PROVE  /\ {<<entry[k].alias, entry[k].select>> : k \in Listed}'
              = {<<entry[k].alias, entry[k].select>> : k \in Listed}
         /\ Distinct' <=> Distinct
<1>1. Listed' = Listed /\ Listed \subseteq Keys
  BY DEF SameRows, Listed
<1>. QED BY <1>1 DEF SameRows, Distinct

\* A list that has every alias once is the catalogue it asks for.
LEMMA RequestPairs ==
  ASSUME TInv, Distinct
  PROVE  Pairs(Request) = {<<entry[k].alias, entry[k].select>> : k \in Listed}
<1>1. ASSUME NEW k \in Listed
      PROVE  /\ entry[k].alias \in Saved(Request)
             /\ Request[entry[k].alias] = entry[k].select
  <2>1. entry[k] \in Entry /\ entry[k].alias \in Aliases /\ entry[k].select \in Selections
    BY DEF TInv, TypeOK, Listed, Distinct, Entry
  <2>2. \A j \in Listed : entry[j].alias = entry[k].alias => j = k
    BY DEF Distinct
  <2>3. (CHOOSE j \in Listed : entry[j].alias = entry[k].alias) = k
    BY <2>2
  <2>4. Request[entry[k].alias] = entry[k].select
    BY <2>1, <2>3 DEF Request
  <2>. QED BY <2>1, <2>4, NoneIsNoSelection DEF Saved
<1>2. \A a \in Saved(Request) : \E k \in Listed : entry[k].alias = a
  BY DEF Saved, Request
<1>. QED BY <1>1, <1>2 DEF Pairs

LEMMA WithoutPairs ==
  ASSUME NEW saved \in [Aliases -> Selections \union {None}], NEW keys
  PROVE  /\ Pairs(Without(saved, keys)) \subseteq Pairs(saved)
         /\ Pairs(Without(saved, keys)) # {} <=> Saved(Without(saved, keys)) # {}
BY DEF Pairs, Saved, Without

\* Most steps: neither request nor catalogue changes.
LEMMA SessionStays ==
  ASSUME SInv, UNCHANGED <<busy, committed, loaded, removing>>, SameRows \/ busy = "no"
  PROVE  SInv' /\ UNCHANGED Session!sessionVars
<1>1. Sent' = Sent
  <2>1. CASE busy = "save"
    BY <2>1, RowsSent DEF Sent
  <2>2. CASE busy # "save"
    BY <2>2 DEF Sent, Removed, Identity
  <2>. QED BY <2>1, <2>2
<1>2. /\ Pending' = Pending /\ Pairs(committed)' = Pairs(committed)
      /\ (loaded = "yes")' = (loaded = "yes")
  BY DEF Pending, Pairs, Saved
<1>3. busy = "save" => (Distinct' <=> Distinct)
  BY RowsSent
<1>. QED BY <1>1, <1>2, <1>3 DEF SInv, Session!sessionVars

\* A cleanup that is asked for, or not.
LEMMA CleanUpAsks ==
  ASSUME TInv, SInv, SameRows, NEW flagged, NEW free, CleanUp(flagged, free),
         free => busy \in {"no", "cleanup", "cleaned"}, UNCHANGED <<committed, loaded>>
  PROVE  SInv' /\ [Session!Next]_(Session!sessionVars)
<1>1. CASE ~(free /\ loaded = "yes")
  BY <1>1, SessionStays DEF CleanUp
<1>2. CASE free /\ loaded = "yes" /\ busy' = "cleanup"
  <2>1. /\ removing' = flagged
        /\ Saved(Without(committed', Removed(flagged))) # {}
    BY <1>2 DEF CleanUp
  <2>2. /\ Sent' = Pairs(Without(committed, Removed(flagged))) /\ Sent' # {}
        /\ Sent' \subseteq Pairs(committed)
    BY <1>2, <2>1, WithoutPairs DEF Sent, TInv, TypeOK, Removed, Identity
  <2>3. SInv'
    BY <1>2, <2>2 DEF SInv
  <2>4. Pending' = "cleanup" /\ Pending \in {"none", "cleanup"}
    BY <1>2 DEF Pending
  <2>5. Pairs(committed)' = Pairs(committed)
    BY DEF Pairs, Saved
  <2>6. Session!Proper(Pending', Sent')
    BY <1>2, <2>2, <2>4 DEF Session!Proper
  <2>. QED BY <1>2, <2>3, <2>4, <2>5, <2>6 DEF Session!Next, Session!Ask, Session!Again
<1>3. CASE free /\ loaded = "yes" /\ busy' # "cleanup"
  <2>1. busy' = "no" /\ SInv'
    BY <1>3 DEF CleanUp, SInv
  <2>2. Pending' = "none" /\ Sent' = {} /\ Pairs(committed)' = Pairs(committed)
    BY <2>1 DEF Pending, Sent, Pairs, Saved
  <2>3. CASE busy = "cleanup"
    <3>1. Pending = "cleanup"
      BY <2>3 DEF Pending
    <3>. QED BY <1>3, <2>1, <2>2, <3>1 DEF Session!Next, Session!Fail, Session!Over
  <2>4. CASE busy # "cleanup"
    <3>1. Pending = "none" /\ Sent = {}
      BY <1>3, <2>4 DEF Pending, Sent
    <3>. QED BY <1>3, <2>1, <2>2, <3>1 DEF Session!sessionVars
  <2>. QED BY <2>3, <2>4
<1>. QED BY <1>1, <1>2, <1>3

\* An answer that finishes what was asked for, and one that does not.
LEMMA SessionEnds ==
  ASSUME busy \in {"load", "save", "cleanup"}, busy' \notin {"load", "save", "cleanup"},
         \/ /\ loaded' = "yes"
            /\ busy # "load" => Sent # {} /\ Pairs(committed') = Sent
         \/ /\ committed' = committed
            /\ loaded' = "yes" <=> loaded = "yes" /\ busy # "load"
  PROVE  SInv' /\ Session!Next
<1>1. /\ Pending = busy /\ Pending' = "none" /\ Sent' = {}
      /\ Pairs(committed)' = Pairs(committed')
  BY DEF Pending, Sent, Pairs, Saved
<1>2. SInv'
  BY DEF SInv
<1>. QED BY <1>1, <1>2 DEF Session!Next, Session!Done, Session!Fail, Session!Over

LEMMA SessionStep == TInv /\ SInv /\ [Next]_vars => SInv' /\ [Session!Next]_(Session!sessionVars)
<1>. SUFFICES ASSUME TInv, SInv, [Next]_vars
              PROVE  SInv' /\ [Session!Next]_(Session!sessionVars)
  OBVIOUS
<1>0. /\ entry \in [Keys -> Entry] /\ committed \in [Aliases -> Selections \union {None}]
      /\ busy \in {"no", "load", "save", "saved", "cleanup", "cleaned"}
  BY DEF TInv, TypeOK
<1>1. CASE LoadAnswered
  BY <1>1, SessionEnds DEF LoadAnswered
<1>2. CASE LoadFailed
  <2>1. busy = "load" /\ busy' = "no" /\ committed' = committed /\ loaded' # "yes"
    BY <1>2 DEF LoadFailed
  <2>. QED BY <2>1, SessionEnds
<1>3. CASE SaveAnswered
  <2>1. busy = "save" /\ busy' = "saved" /\ committed' = Request /\ loaded' = loaded
    BY <1>3 DEF SaveAnswered, Adopt
  <2>2. Distinct /\ loaded = "yes" /\ Sent # {}
    BY <2>1 DEF SInv
  <2>3. Pairs(committed') = Sent
    BY <2>1, <2>2, RequestPairs DEF Sent
  <2>. QED BY <2>1, <2>2, <2>3, SessionEnds
<1>4. CASE SaveSettled
  <2>1. CASE busy = "save"
    BY <1>4, <2>1, SessionEnds DEF SaveSettled, SInv
  <2>2. CASE busy = "saved"
    <3>1. Pending = "none" /\ Pending' = "none" /\ Sent = {} /\ Sent' = {} /\ SInv'
      BY <1>4, <2>2 DEF SaveSettled, Pending, Sent, SInv
    <3>. QED BY <1>4, <3>1 DEF SaveSettled, Session!sessionVars, Pairs, Saved
  <2>. QED BY <1>4, <2>1, <2>2 DEF SaveSettled
<1>5. CASE CleanupAnswered
  <2>1. busy = "cleanup" /\ busy' = "cleaned" /\ loaded' = loaded
        /\ committed' = Without(committed, Removed(removing))
    BY <1>5 DEF CleanupAnswered
  <2>2. loaded = "yes" /\ Sent # {} /\ Pairs(committed') = Sent
    BY <2>1 DEF SInv, Sent
  <2>. QED BY <2>1, <2>2, SessionEnds
<1>6. CASE CleanupSettled
  <2>1. SameRows
    BY <1>6, RowsRendered DEF CleanupSettled
  <2>. QED BY <1>6, <2>1, CleanUpAsks DEF CleanupSettled
<1>7. ASSUME NEW k \in Keys, DiscoveryFailed(k)
      PROVE  SInv' /\ [Session!Next]_(Session!sessionVars)
  <2>1. SameRows
    BY <1>0, <1>7 DEF DiscoveryFailed, SameRows, Entry
  <2>. QED BY <1>7, <2>1, SessionStays DEF DiscoveryFailed
<1>8. ASSUME NEW k \in Keys, NEW answer \in SUBSET Values, DiscoveryAnswered(k, answer)
      PROVE  SInv' /\ [Session!Next]_(Session!sessionVars)
  <2>1. SameRows /\ UNCHANGED <<committed, loaded>>
    BY <1>0, <1>8 DEF DiscoveryAnswered, SameRows, Entry
  <2>2. CASE Flags(k, answer)
    BY <1>8, <2>1, <2>2, CleanUpAsks DEF DiscoveryAnswered
  <2>3. CASE ~Flags(k, answer)
    BY <1>8, <2>1, <2>3, SessionStays DEF DiscoveryAnswered
  <2>. QED BY <2>2, <2>3
<1>9. ASSUME NEW k \in Keys, NEW answer \in SUBSET Values, NEW c \in Contexts,
             StaleAnswered(k, c, answer)
      PROVE  SInv' /\ [Session!Next]_(Session!sessionVars)
  BY <1>9, SessionStays DEF StaleAnswered, Heeded, SameRows
<1>10. CASE GhostAnswered
  BY <1>10, RowsRendered, SessionStays DEF GhostAnswered
<1>11. CASE \E k \in Keys : \/ \E c \in Tried[k] : ChooseContext(k, c)
                            \/ \E v \in Values : ChooseValue(k, v)
                            \/ \E alias \in Aliases \union {None} : EditAlias(k, alias)
                            \/ RemoveDestination(k)
  BY <1>11, SessionStays
  DEF ChooseContext, ChooseValue, EditAlias, RemoveDestination, MayEdit
<1>12. CASE AddDestination
  BY <1>12, SessionStays DEF AddDestination
<1>13. CASE LoadManager
  <2>1. Pending = "none" /\ Pending' = "load" /\ Sent' = {} /\ SInv'
    BY <1>13 DEF LoadManager, Pending, Sent, SInv
  <2>2. Pairs(committed)' = Pairs(committed) /\ loaded' = loaded
    BY <1>13 DEF LoadManager, Pairs, Saved
  <2>. QED BY <2>1, <2>2 DEF Session!Next, Session!Ask, Session!Proper
<1>14. CASE SaveManager
  <2>1. /\ busy = "no" /\ busy' = "save" /\ loaded = "yes" /\ loaded' = loaded
        /\ committed' = committed /\ Valid /\ SameRows
    BY <1>14, RowsRendered DEF SaveManager
  <2>2. Distinct /\ Listed # {}
    BY <2>1 DEF Valid, Distinct
  <2>3. Distinct' /\ Sent' = {<<entry[k].alias, entry[k].select>> : k \in Listed}
    BY <2>1, <2>2, RowsSent DEF Sent
  <2>4. Sent' # {}
    BY <2>2, <2>3
  <2>5. Pending = "none" /\ Pending' = "save" /\ Pairs(committed)' = Pairs(committed)
    BY <2>1 DEF Pending, Pairs, Saved
  <2>6. SInv'
    BY <2>1, <2>3, <2>4 DEF SInv
  <2>. QED BY <2>1, <2>4, <2>5, <2>6 DEF Session!Next, Session!Ask, Session!Proper
<1>15. CASE UNCHANGED vars
  BY <1>15, SessionStays DEF vars, SameRows
<1>. QED BY <1>1, <1>2, <1>3, <1>4, <1>5, <1>6, <1>7, <1>8, <1>9, <1>10, <1>11, <1>12, <1>13,
            <1>14, <1>15
       DEF Next, Answers, Discoveries, User

\* The page keeps to its session (EditorSession): with any entries and answers it
\* has one request under way, replaces nothing it has not loaded, never by
\* nothing, cleans up only what is saved, and shows as committed what it sent.
THEOREM EditorKeepsSession == Spec => KeepsSession
<1>1. Init => TInv /\ SInv
  BY AbsentType DEF Init, TInv, TypeOK, Asking, SInv
<1>2. Init => Session!Init
  BY DEF Init, Session!Init, Pending, Sent, Pairs, Saved
<1>. QED BY <1>1, <1>2, TInvStep, SessionStep, PTL DEF Spec, KeepsSession, Session!Spec

-----------------------------------------------------------------------------
(* The gateway panel *)

\* An operation of the panel is a request at some stage of its life.
LEMMA PanelOperation ==
  ASSUME PanelTypeOK
  PROVE  /\ operation = Idle <=> operation.stage = "none"
         /\ operation # Idle
            => operation \in [kind : Requests, target : Targets \union {NoTarget},
                              stage : Stages]
BY DEF PanelTypeOK, Idle, Stages

\* A status is not mistaken for the absence of one.
LEMMA PanelStatus == \A s \in Status : s # Free /\ s # Asked
BY DEF Status, Modes, Free, Asked

\* What the page allows is decided by five of its variables.
PanelInputs == <<operation, targetsKnown, modesKnown, selected, phrase>>

LEMMA PanelAllowedSame ==
  ASSUME UNCHANGED PanelInputs
  PROVE  Allowed' = Allowed
BY DEF PanelInputs, Allowed, When

\* Nothing is allowed while an operation runs.
LEMMA PanelLocked ==
  ASSUME operation # Idle
  PROVE  Allowed = {}
BY DEF Allowed, When

\* The stages an operation goes through do not end it.
LEMMA PanelStaged ==
  ASSUME PanelTypeOK, operation.stage # "none", NEW to \in Stages, Stage(to)
  PROVE  /\ operation # Idle /\ operation' # Idle
         /\ operation'.stage = to /\ operation'.kind = operation.kind
         /\ operation' \in [kind : Requests, target : Targets \union {NoTarget},
                            stage : Stages]
<1>1. operation # Idle
  BY DEF Idle
<1>2. operation \in [kind : Requests, target : Targets \union {NoTarget},
                     stage : Stages]
  BY <1>1, PanelOperation
<1>3. operation' = [operation EXCEPT !.stage = to]
  BY DEF Stage
<1>4. operation'.stage = to /\ to # "none"
  BY <1>2, <1>3 DEF Stages
<1>. QED BY <1>1, <1>2, <1>3, <1>4 DEF Idle

\* The handlers that end with syncControls.
PanelSyncs ==
  \/ \E i \in 0 .. MaxPolls : StatusAnswered(i)
  \/ StatusFailed(0)
  \/ TargetsLoaded \/ TargetsFailed
  \/ ChooseTarget \/ TypePhrase
  \/ \E kind \in Requests : Press(kind)
  \/ Rejected

\* The steps of an operation under way, which leave the controls alone.
PanelStages ==
  OperationSucceeds \/ OperationFails \/ Accepted \/ Lost

\* All others: the timer, the daemon, an error shown, other clients.
PanelAside ==
  \/ Poll \/ \E i \in 0 .. MaxPolls : Look(i)
  \/ \E i \in 1 .. MaxPolls : StatusFailed(i)
  \/ CatalogueSaved \/ OthersChange
  \/ UNCHANGED panelVars

LEMMA PanelSteps == [PanelNext]_panelVars => PanelSyncs \/ PanelStages \/ PanelAside
<1>. SUFFICES ASSUME [PanelNext]_panelVars PROVE PanelSyncs \/ PanelStages \/ PanelAside
  OBVIOUS
<1>1. ASSUME NEW i \in 0 .. MaxPolls, Answer(i) PROVE PanelSyncs \/ PanelAside
  <2>1. i = 0 \/ i \in 1 .. MaxPolls
    OBVIOUS
  <2>. QED BY <1>1, <2>1 DEF Answer, PanelSyncs, PanelAside
<1>. QED BY <1>1 DEF PanelNext, UserActs, Operation, PanelSyncs, PanelStages, PanelAside

\* The page as it starts, before it has heard anything; and in sync or so.
PanelFresh ==
  enabled = {"phrase"} /\ Unheard /\ operation = Idle /\ ~targetsKnown /\ ~modesKnown
PanelSynced == enabled = Allowed \/ PanelFresh

LEMMA PanelFreshAllows == PanelFresh => Allowed = {}
BY DEF PanelFresh, Allowed, When

\* The confirmation field is no input of the target controls.
LEMMA PanelTyping ==
  ASSUME PanelSynced, TypePhrase
  PROVE  enabled' = Allowed'
<1>1. /\ UNCHANGED <<operation, targetsKnown, modesKnown, selected>>
      /\ enabled' = (enabled \ ModeControls) \union (Allowed' \intersect ModeControls)
  BY DEF TypePhrase, SyncModes, known
<1>2. Allowed' \ ModeControls = Allowed \ ModeControls
  BY <1>1 DEF Allowed, When, ModeControls
<1>3. CASE enabled = Allowed
  BY <1>1, <1>2, <1>3
<1>4. CASE PanelFresh
  <2>1. enabled \ ModeControls = {} /\ Allowed \ ModeControls = {}
    BY <1>4, PanelFreshAllows DEF PanelFresh, ModeControls
  <2>. QED BY <1>1, <1>2, <2>1
<1>. QED BY <1>3, <1>4 DEF PanelSynced

LEMMA PanelInSyncStep ==
  ASSUME PanelTypeOK, PanelSynced, [PanelNext]_panelVars
  PROVE  /\ PanelSynced'
         /\ enabled' = Allowed' \/ (enabled # Allowed /\ Unheard' /\ enabled' = {"phrase"})
<1>1. CASE PanelSyncs
  <2>1. TypePhrase => enabled' = Allowed'
    BY PanelTyping
  <2>2. ~TypePhrase => enabled' = Allowed'
    BY <1>1 DEF PanelSyncs, StatusAnswered, ApplyStatus, StatusFailed,
                TargetsLoaded, TargetsFailed, ChooseTarget, Press, Rejected, Sync
  <2>. QED BY <2>1, <2>2 DEF PanelSynced
<1>2. CASE PanelStages
  <2>1. enabled' = enabled
    BY <1>2 DEF PanelStages, OperationSucceeds, OperationFails, Accepted,
                Lost
  <2>2. operation.stage # "none" /\ \E to \in Stages : Stage(to)
    BY <1>2 DEF PanelStages, OperationSucceeds, OperationFails, Accepted,
                Lost, Stages
  <2>3. operation # Idle /\ operation' # Idle'
    BY <2>2, PanelStaged DEF Idle
  <2>4. Allowed = {} /\ Allowed' = {}
    BY <2>3, PanelLocked DEF Allowed, When
  <2>. QED BY <2>1, <2>3, <2>4 DEF PanelSynced, PanelFresh
<1>3. CASE PanelAside
  <2>1. ASSUME NEW i \in 1 .. MaxPolls, StatusFailed(i)
        PROVE  UNCHANGED <<enabled, PanelInputs>> /\ (Unheard => Unheard')
    <3>1. i # 0
      OBVIOUS
    <3>. QED BY <2>1, <3>1 DEF StatusFailed, ApplyError, known, PanelInputs, Unheard
  <2>2. UNCHANGED <<enabled, PanelInputs>>
    BY <1>3, <2>1 DEF PanelAside, PanelInputs, Poll, Look, CatalogueSaved,
                      OthersChange, panelVars, chosen, known
  <2>5. Unheard => Unheard'
    <3>1. Poll \/ (\E i \in 0 .. MaxPolls : Look(i)) \/ OthersChange
          => shown' = shown /\ loading' = loading
      BY DEF Poll, Look, OthersChange, known, display
    <3>2. CatalogueSaved => shown' = shown /\ loading' \in {loading, TRUE}
      BY DEF CatalogueSaved, display
    <3>3. UNCHANGED panelVars => shown' = shown /\ loading' = loading
      BY DEF panelVars, known, display
    <3>. QED BY <1>3, <2>1, <3>1, <3>2, <3>3 DEF PanelAside, Unheard
  <2>3. Allowed' = Allowed
    BY <2>2, PanelAllowedSame
  <2>4. PanelFresh => PanelFresh'
    BY <2>2, <2>5 DEF PanelFresh, PanelInputs, Idle
  <2>. QED BY <2>2, <2>3, <2>4, PanelFreshAllows DEF PanelSynced, PanelFresh
<1>. QED BY <1>1, <1>2, <1>3, PanelSteps

\* A bounded count stays within its bound.
LEMMA PanelCount ==
  ASSUME NEW bound \in Nat, NEW n \in 0 .. bound, NEW m, n < bound /\ m = n + 1
  PROVE  m \in 0 .. bound
OBVIOUS

\* The operation's own status request is there exactly while it refreshes.
PanelOwn == statuses[0] # Free <=> operation.stage = "refreshing"

\* One status request moves on; the others stay.
LEMMA PanelStatuses ==
  ASSUME PanelTypeOK, NEW i \in 0 .. MaxPolls,
         NEW s \in Status \union {Free, Asked},
         statuses' = [statuses EXCEPT ![i] = s]
  PROVE  /\ statuses' \in [0 .. MaxPolls -> Status \union {Free, Asked}]
         /\ statuses'[i] = s /\ 0 \in 0 .. MaxPolls
         /\ i # 0 => statuses'[0] = statuses[0]
BY CountsAreNat DEF PanelTypeOK

LEMMA PanelTypeStep ==
  ASSUME PanelTypeOK, [PanelNext]_panelVars
  PROVE  PanelTypeOK'
<1>. USE DEF PanelTypeOK
<1>n. MaxPolls \in Nat /\ MaxChanges \in Nat /\ MaxFaults \in Nat
  BY CountsAreNat
<1>g. gateway \in Status /\ [gateway EXCEPT !.mode = "UNKNOWN"] \in Status
  BY DEF Status
<1>i. Idle.stage = "none" /\ Free # Asked
  BY DEF Idle, Free, Asked
<1>f. Fault => faults' \in 0 .. MaxFaults
  BY <1>n, PanelCount DEF Fault
<1>c. ASSUME NEW to \in [mode : Modes, target : Targets \union {NoTarget}], Changes(to)
      PROVE  gateway' \in [mode : Modes, target : Targets \union {NoTarget}]
             /\ changes' \in 0 .. MaxChanges
  BY <1>n, <1>c, PanelCount DEF Changes
<1>o. \A i \in 0 .. MaxPolls : i # 0 <=> i \in 1 .. MaxPolls
  BY <1>n
<1>1. CASE Poll
  <2>1. PICK i \in 1 .. MaxPolls : statuses' = [statuses EXCEPT ![i] = Asked]
    BY <1>1 DEF Poll
  <2>2. i \in 0 .. MaxPolls /\ i # 0
    BY <1>n
  <2>3. /\ statuses' \in [0 .. MaxPolls -> Status \union {Free, Asked}]
        /\ statuses'[0] = statuses[0]
    BY <2>1, <2>2, PanelStatuses
  <2>. QED BY <1>1, <2>3 DEF Poll, server, display, chosen, known
<1>2. ASSUME NEW i \in 0 .. MaxPolls, Look(i) PROVE PanelTypeOK'
  <2>1. PICK s \in Status : statuses' = [statuses EXCEPT ![i] = s]
    BY <1>2, <1>g DEF Look
  <2>2. /\ statuses' \in [0 .. MaxPolls -> Status \union {Free, Asked}]
        /\ statuses'[0] # Free <=> statuses[0] # Free
    BY <1>2, <1>i, <2>1, PanelStatuses, PanelStatus DEF Look
  <2>3. faults' \in 0 .. MaxFaults
    BY <1>2, <1>f DEF Look
  <2>. QED BY <1>2, <2>2, <2>3 DEF Look, server, display, chosen,
                                  known
\* What the end of a status request means for the operation.
<1>e. ASSUME NEW i \in 0 .. MaxPolls, statuses' = [statuses EXCEPT ![i] = Free],
             IF i = 0 THEN Settle ELSE UNCHANGED operation
      PROVE  /\ statuses' \in [0 .. MaxPolls -> Status \union {Free, Asked}]
             /\ operation' = Idle \/ operation' = operation
             /\ PanelOwn'
  <2>1. /\ statuses' \in [0 .. MaxPolls -> Status \union {Free, Asked}]
        /\ statuses'[i] = Free /\ (i # 0 => statuses'[0] = statuses[0])
    BY <1>e, PanelStatuses
  <2>2. CASE i = 0
    BY <1>e, <1>i, <2>1, <2>2 DEF Settle, PanelOwn, Free, Idle
  <2>3. CASE i # 0
    BY <1>e, <2>1, <2>3 DEF PanelOwn, Free
  <2>. QED BY <2>1, <2>2, <2>3, <1>e DEF Settle
<1>3. ASSUME NEW i \in 0 .. MaxPolls, StatusAnswered(i) PROVE PanelTypeOK'
  <2>1. /\ statuses' \in [0 .. MaxPolls -> Status \union {Free, Asked}]
        /\ operation' = Idle \/ operation' = operation
        /\ PanelOwn'
    BY <1>3, <1>e DEF StatusAnswered
  <2>2. /\ shown' \in Modes \union {"UNKNOWN"} /\ current' \in Targets \union {NoTarget}
        /\ selected' \in options \union {NoTarget}
    BY <1>3 DEF StatusAnswered, ApplyStatus, Preselected, Status
  <2>3. enabled' \in SUBSET Buttons
    BY <1>3 DEF StatusAnswered, ApplyStatus, Sync, Allowed, When,
                Buttons, Requests
  <2>. QED BY <1>3, <2>1, <2>2, <2>3
          DEF StatusAnswered, PanelOwn, known, server, Idle
<1>a. Sync => enabled' \in SUBSET Buttons
  BY DEF Sync, Allowed, When, Buttons, Requests
<1>4. ASSUME NEW i \in 0 .. MaxPolls, StatusFailed(i) PROVE PanelTypeOK'
  <2>1. /\ statuses' \in [0 .. MaxPolls -> Status \union {Free, Asked}]
        /\ operation' = Idle \/ operation' = operation
        /\ PanelOwn'
    BY <1>4, <1>e DEF StatusFailed
  <2>. QED BY <1>4, <1>a, <1>f, <2>1
          DEF StatusFailed, ApplyError, PanelOwn, known, server, Idle
<1>5. CASE TargetsLoaded
  BY <1>5, <1>a DEF TargetsLoaded, server, display
<1>6. CASE TargetsFailed
  BY <1>6, <1>a, <1>f DEF TargetsFailed, Emptied, server, display
<1>7. CASE CatalogueSaved
  <2>1. /\ changes' \in 0 .. MaxChanges /\ catalogue' \in SUBSET Targets
        /\ loading' \in BOOLEAN
    BY <1>7, <1>n, PanelCount DEF CatalogueSaved
  <2>. QED BY <1>7, <2>1 DEF CatalogueSaved, display, chosen
<1>8. CASE ChooseTarget
  BY <1>8, <1>a DEF ChooseTarget, known, server, display
<1>9. CASE TypePhrase
  <2>1. enabled' \in SUBSET Buttons
    BY <1>9 DEF TypePhrase, SyncModes, ModeControls, Buttons, Requests
  <2>. QED BY <1>9, <2>1 DEF TypePhrase, known, server, display
<1>10. ASSUME NEW kind \in Requests, Press(kind) PROVE PanelTypeOK'
  <2>1. operation' \in [kind : Requests, target : Targets \union {NoTarget},
                        stage : Stages]
    BY <1>10 DEF Press, Stages
  <2>2. operation = Idle /\ operation'.stage = "sent"
    BY <1>10 DEF Press, Passes
  <2>3. statuses'[0] = Free /\ operation'.stage # "refreshing"
    BY <1>10, <1>i, <2>2 DEF Press
  <2>. QED BY <1>10, <1>a, <2>1, <2>3
          DEF Press, chosen, known, server, display, Free
<1>11. CASE OperationSucceeds
  <2>1. Goal \in [mode : Modes, target : Targets \union {NoTarget}]
    BY <1>11, PanelOperation DEF OperationSucceeds, Goal, Modes
  <2>. QED BY <1>11, <1>c, <2>1, PanelStaged
          DEF OperationSucceeds, Stages, display, chosen, known
<1>12. CASE OperationFails
  <2>1. PICK to \in [mode : Modes, target : Targets \union {NoTarget}] : Changes(to)
    BY <1>12 DEF OperationFails
  <2>. QED BY <1>12, <1>c, <2>1, PanelStaged
          DEF OperationFails, Stages, display, chosen, known
<1>13. CASE Accepted
  <2>1. /\ operation'.stage = "refreshing" /\ operation.target \in Targets \union {NoTarget}
        /\ operation' \in [kind : Requests, target : Targets \union {NoTarget},
                           stage : Stages]
    BY <1>13, PanelStaged, PanelOperation DEF Accepted, Stages
  <2>2. /\ statuses' \in [0 .. MaxPolls -> Status \union {Free, Asked}]
        /\ statuses'[0] # Free
    BY <1>13, <1>n, <1>i, PanelStatuses DEF Accepted
  <2>3. /\ current' \in Targets \union {NoTarget} /\ selected' \in options \union {NoTarget}
        /\ phrase' \in BOOLEAN
    BY <1>13, <2>1 DEF Accepted
  <2>. QED BY <1>13, <2>1, <2>2, <2>3 DEF Accepted, server, known, Free
<1>14. CASE Rejected
  <2>1. statuses'[0] = Free /\ operation' = Idle
    BY <1>14 DEF Rejected, Settle
  <2>. QED BY <1>14, <1>a, <1>i, <2>1
          DEF Rejected, chosen, known, server, display, Free,
              Idle
<1>15. CASE Lost
  BY <1>15, <1>f, PanelStaged
  DEF Lost, Stages, server, display, chosen, known, Free
<1>16. CASE OthersChange
  BY <1>16, <1>c DEF OthersChange, display, chosen, known
<1>17. CASE UNCHANGED panelVars
  BY <1>17 DEF panelVars, server, display, chosen, known
<1>. QED BY <1>1, <1>2, <1>3, <1>4, <1>5, <1>6, <1>7, <1>8, <1>9, <1>10, <1>11, <1>12, <1>13,
            <1>14, <1>15, <1>16, <1>17
       DEF PanelNext, Answer, UserActs, Operation

LEMMA PanelStarts ==
  ASSUME PanelInit
  PROVE  PanelTypeOK /\ PanelSynced
<1>1. 0 \in 0 .. MaxPolls /\ 0 \in 0 .. MaxChanges /\ 0 \in 0 .. MaxFaults
  BY CountsAreNat
<1>2. gateway \in [mode : Modes, target : Targets \union {NoTarget}]
  BY DEF PanelInit
<1>3. statuses[0] = Free /\ operation.stage = "none"
  BY <1>1 DEF PanelInit, Idle
<1>4. PanelTypeOK
  BY <1>1, <1>2, <1>3 DEF PanelInit, PanelTypeOK, Buttons
<1>5. PanelSynced
  BY DEF PanelInit, PanelSynced, PanelFresh, Unheard
<1>. QED BY <1>4, <1>5

\* The panel's variables keep to their types.
THEOREM PanelTypeCorrect == PanelSpec => []PanelTypeOK
BY PanelStarts, PanelTypeStep, PTL DEF PanelSpec

\* For any number of targets, of status requests in flight and of changes and
\* faults: controls in sync stay so, and those of a page just loaded, all but the
\* confirmation field, are.  Only the handlers that end with syncControls or
\* syncModeControls change what is allowed while no operation runs, and the steps
\* of an operation leave everything disabled.
THEOREM ButtonsStayInSync == PanelSpec => ButtonsInSync
<1>. DEFINE Kept == enabled' = Allowed' \/ (enabled # Allowed /\ Unheard' /\ enabled' = {"phrase"})
<1>1. ASSUME PanelTypeOK, PanelSynced, [PanelNext]_panelVars PROVE PanelSynced' /\ [Kept]_panelVars
  BY <1>1, PanelInSyncStep
<1>. QED BY <1>1, PanelStarts, PanelTypeStep, PTL DEF PanelSpec, ButtonsInSync
=============================================================================
