----------------------- MODULE TargetCatalogueProofs -----------------------
(***************************************************************************)
(* Theorems about TargetCatalogue for any clients, workers and targets.    *)
(* Everything rests on one fact: whatever was read of the store, wherever  *)
(* it is kept (a page, a request, an answer, the snapshot), is either of an *)
(* older revision or equal to the store (Held).                            *)
(***************************************************************************)
EXTENDS TargetCatalogue, TLAPS

USE DEF Editable

\* A catalogue that was read is older than the store d or equal to it.
Held(d, revision, targets) ==
  /\ revision <= d.revision
  /\ revision = d.revision => targets = Editable(d.targets)

\* What a request carries and what it answers is held.
JobHeld(d, j) ==
  /\ Held(d, j.expected, j.seen)
  /\ Held(d, j.result.revision, j.result.targets)
  /\ j.step = "transact" => j.targets \intersect Reserved = {}
  /\ j.ask = "cleanup" => j.targets \subseteq j.seen

\* Nothing was ever stored at revision 0.
FirstRevision(d) == d.revision = 0 => d.targets = {}

\* A loading daemon has seen the revision that the targets will belong to.
DaemonHeld ==
  /\ daemon # "up" => \A w \in Workers : job[w].step = "idle"
  /\ daemon # "loading" => Held(disk, cache.revision, cache.targets)
  /\ daemon = "loading" => cache.revision = disk.revision /\ disk.revision # 0

HInv ==
  /\ TypeOK
  /\ FirstRevision(disk)
  /\ \A c \in Clients : Held(disk, base[c].revision, base[c].targets)
  /\ \A w \in Workers : JobHeld(disk, job[w])
  /\ DaemonHeld

-----------------------------------------------------------------------------
(* Type correctness *)

\* The empty representations are well typed.
LEMMA EmptyTypes == Empty \in Catalogue /\ NoJob \in Job
<1>1. Empty \in Catalogue
  BY DEF Empty, Catalogue
<1>2. QED
  BY <1>1 DEF NoJob, Job, Asks, Steps, Codes

\* One worker's request changes, the others stay.
LEMMA JobUpdate ==
  ASSUME TypeOK, NEW w \in Workers, NEW j \in Job, job' = [job EXCEPT ![w] = j]
  PROVE  /\ job' \in [Workers -> Job]
         /\ job'[w] = j
         /\ \A v \in Workers \ {w} : job'[v] = job[v]
BY DEF TypeOK

\* A new request is a Job.
LEMMA SubmitJob ==
  ASSUME TypeOK, NEW c \in Clients, NEW ask \in Asks, NEW targets \in SUBSET Targets
  PROVE  [NoJob EXCEPT !.step = "dispatch", !.client = c, !.ask = ask,
                       !.expected = base[c].revision, !.targets = targets,
                       !.seen = base[c].targets] \in Job
<1>1. base[c].revision \in Nat /\ base[c].targets \in SUBSET Targets
  BY DEF TypeOK, Catalogue
<1>2. Empty \in Catalogue
  BY EmptyTypes
<1>3. QED
  BY <1>1, <1>2 DEF NoJob, Job, Steps, Codes

\* A record differs from another in the fields that EXCEPT names only.
LEMMA JobFields ==
  ASSUME NEW j \in Job, NEW step \in Steps, NEW code \in Codes, NEW result \in Catalogue
  PROVE  /\ [j EXCEPT !.step = step] \in Job
         /\ [j EXCEPT !.step = step, !.code = code] \in Job
         /\ [j EXCEPT !.step = step, !.code = code, !.result = result] \in Job
         /\ [j EXCEPT !.client = None] \in Job
BY DEF Job

\* Nothing of a stopped daemon is left; every worker is free.
LEMMA FreshJobs ==
  /\ [w \in Workers |-> NoJob] \in [Workers -> Job]
  /\ \A w \in Workers : [v \in Workers |-> NoJob][w].step = "idle"
BY EmptyTypes DEF NoJob

\* The requests of a client that gives up are still requests.
LEMMA UnheardJobs ==
  ASSUME TypeOK, NEW c \in Clients
  PROVE  /\ Unheard(c) \in [Workers -> Job]
         /\ \A w \in Workers :
              \/ Unheard(c)[w] = job[w]
              \/ Unheard(c)[w] = [job[w] EXCEPT !.client = None]
<1>1. \A w \in Workers : job[w] \in Job
  BY DEF TypeOK
<1>2. \A w \in Workers : [job[w] EXCEPT !.client = None] \in Job
  BY <1>1, EmptyTypes, JobFields DEF Steps, Codes
<1>3. QED
  BY <1>1, <1>2 DEF Unheard

\* A submitted request keeps the types.
LEMMA SubmitType ==
  ASSUME TypeOK, NEW c \in Clients, NEW ask \in Asks, NEW targets \in SUBSET Targets,
         Submit(c, ask, targets)
  PROVE  TypeOK'
<1>1. PICK w \in Workers :
        job' = [job EXCEPT ![w] =
            [NoJob EXCEPT !.step = "dispatch", !.client = c, !.ask = ask,
                          !.expected = base[c].revision, !.targets = targets,
                          !.seen = base[c].targets]]
  BY DEF Submit
<1>2. job' \in [Workers -> Job]
  BY <1>1, SubmitJob, JobUpdate
<1>3. asked' \in [Clients -> Asks]
  BY DEF Submit, TypeOK
<1>4. QED
  BY <1>2, <1>3 DEF Submit, TypeOK, daemonVars

\* Each step of a request moves it to a typed request.
LEMMA StepTypes ==
  ASSUME TypeOK, NEW w \in Workers, NEW step \in Steps, NEW code \in Codes
  PROVE  /\ GoTo(w, step) => job' \in [Workers -> Job]
         /\ End(w, step, code) => job' \in [Workers -> Job]
<1>1. job[w] \in Job
  BY DEF TypeOK
<1>2. GoTo(w, step) => job' = [job EXCEPT ![w] = [job[w] EXCEPT !.step = step]]
  BY DEF GoTo, TypeOK
<1>3. End(w, step, code)
      => job' = [job EXCEPT ![w] = [job[w] EXCEPT !.step = step, !.code = code]]
  BY DEF End, TypeOK
<1>4. QED
  BY <1>1, <1>2, <1>3, JobFields, EmptyTypes, JobUpdate

\* A transaction rolls back, or commits what was asked on top of the revision
\* that was expected.
RolledBack(w) ==
  /\ \E code \in Codes \ {"OK"} : End(w, "release", code)
  /\ UNCHANGED disk
Committed(w) ==
  /\ job[w].expected = disk.revision
  /\ disk' = [revision |-> job[w].expected + 1, targets |-> job[w].targets]
  /\ job' = [job EXCEPT ![w].step = "cache", ![w].code = "OK", ![w].result = disk']

LEMMA TransactCases ==
  ASSUME NEW w \in Workers, Transact(w)
  PROVE  /\ At(w, "transact")
         /\ RolledBack(w) \/ Committed(w)
         /\ UNCHANGED <<daemonVars, clientVars>>
BY DEF Transact, AfterTransaction, Stale, RolledBack, Committed, Codes

\* A replacement's transaction keeps the types.
LEMMA TransactType ==
  ASSUME TypeOK, NEW w \in Workers, Transact(w)
  PROVE  TypeOK'
<1>1. job[w] \in Job
  BY DEF TypeOK
<1>2. CASE RolledBack(w)
  <2>1. job' \in [Workers -> Job]
    BY <1>2, StepTypes DEF RolledBack, Steps, Codes
  <2>2. QED
    BY <1>2, <2>1, TransactCases DEF RolledBack, TypeOK, daemonVars, clientVars
<1>3. CASE Committed(w)
  <2>1. disk' \in Catalogue
    BY <1>1, <1>3 DEF Committed, Job, Catalogue
  <2>2. [job[w] EXCEPT !.step = "cache", !.code = "OK", !.result = disk'] \in Job
    BY <1>1, <2>1, JobFields DEF Steps, Codes
  <2>3. job' = [job EXCEPT ![w] = [job[w] EXCEPT !.step = "cache", !.code = "OK",
                                                 !.result = disk']]
    BY <1>3 DEF Committed, TypeOK
  <2>4. QED
    BY <2>1, <2>2, <2>3, JobUpdate, TransactCases DEF TypeOK, daemonVars, clientVars
<1>4. QED
  BY <1>2, <1>3, TransactCases

\* An answer keeps the types.
LEMMA AnswerType ==
  ASSUME TypeOK, NEW w \in Workers, Answer(w)
  PROVE  TypeOK'
<1>1. job[w] \in Job /\ job[w].result \in Catalogue
  BY DEF TypeOK, Job
<1>2. job' \in [Workers -> Job]
  BY EmptyTypes, JobUpdate DEF Answer
<1>3. asked' \in [Clients -> Asks]
  BY DEF Answer, TypeOK, Asks
<1>4. base' \in [Clients -> Catalogue] /\ loaded' \in [Clients -> BOOLEAN]
  BY <1>1 DEF Answer, TypeOK
<1>5. QED
  BY <1>2, <1>3, <1>4 DEF Answer, TypeOK, daemonVars

LEMMA TypeStep == TypeOK /\ [Next]_vars => TypeOK'
<1> SUFFICES ASSUME TypeOK, [Next]_vars PROVE TypeOK'
  OBVIOUS
<1>1. ASSUME NEW c \in Clients, Load(c) PROVE TypeOK'
  BY <1>1, SubmitType DEF Load, Asks
<1>2. ASSUME NEW c \in Clients, Save(c) PROVE TypeOK'
  BY <1>2, SubmitType DEF Save, Asks
<1>3. ASSUME NEW c \in Clients, Cleanup(c) PROVE TypeOK'
  <2>1. PICK gone \in SUBSET Targets, edits \in SUBSET Targets :
          Submit(c, "cleanup", Cleaned(c, gone, edits))
    BY <1>3 DEF Cleanup
  <2>2. Cleaned(c, gone, edits) \in SUBSET Targets
    BY DEF Cleaned, TypeOK, Catalogue
  <2>3. QED
    BY <2>1, <2>2, SubmitType DEF Asks
<1>4. ASSUME NEW c \in Clients, GiveUp(c) PROVE TypeOK'
  <2>1. job' \in [Workers -> Job]
    BY <1>4, UnheardJobs DEF GiveUp
  <2>2. asked' \in [Clients -> Asks]
    BY <1>4 DEF GiveUp, TypeOK, Asks
  <2>3. loaded' \in [Clients -> BOOLEAN]
    BY <1>4 DEF GiveUp, TypeOK
  <2>4. QED
    BY <1>4, <2>1, <2>2, <2>3 DEF GiveUp, TypeOK, daemonVars
<1>5. ASSUME NEW w \in Workers, Read(w) PROVE TypeOK'
  <2>1. job' = [job EXCEPT ![w] = [job[w] EXCEPT !.step = "reply", !.code = "OK",
                                                 !.result = cache]]
    BY <1>5 DEF Read, TypeOK
  <2>2. [job[w] EXCEPT !.step = "reply", !.code = "OK", !.result = cache] \in Job
    BY JobFields DEF TypeOK, Steps, Codes
  <2>3. QED
    BY <1>5, <2>1, <2>2, JobUpdate DEF Read, TypeOK, daemonVars, clientVars
<1>6. ASSUME NEW w \in Workers, Compete(w) PROVE TypeOK'
  BY <1>6, StepTypes DEF Compete, TypeOK, daemonVars, clientVars, Steps, Codes
<1>7. ASSUME NEW w \in Workers, Begin(w) PROVE TypeOK'
  <2>1. job' \in [Workers -> Job]
    BY <1>7, StepTypes DEF Begin, Steps, Codes
  <2>2. QED
    BY <1>7, <2>1 DEF Begin, TypeOK, clientVars
<1>8. ASSUME NEW w \in Workers, Transact(w) PROVE TypeOK'
  BY <1>8, TransactType
<1>9. ASSUME NEW w \in Workers, SwapCache(w) PROVE TypeOK'
  <2>1. job' \in [Workers -> Job]
    BY <1>9, StepTypes DEF SwapCache, Steps, Codes
  <2>2. cache' \in Catalogue
    BY <1>9 DEF SwapCache, TypeOK, Job
  <2>3. QED
    BY <1>9, <2>1, <2>2 DEF SwapCache, TypeOK, clientVars
<1>10. ASSUME NEW w \in Workers, SwapIndex(w) PROVE TypeOK'
  <2>1. job' \in [Workers -> Job]
    BY <1>10, StepTypes DEF SwapIndex, Steps, Codes
  <2>2. index' \in SUBSET Targets
    BY <1>10 DEF SwapIndex, TypeOK, Job, Catalogue
  <2>3. QED
    BY <1>10, <2>1, <2>2 DEF SwapIndex, TypeOK, clientVars
<1>11. ASSUME NEW w \in Workers, Release(w) PROVE TypeOK'
  <2>1. job' \in [Workers -> Job]
    BY <1>11, StepTypes DEF Release, Steps, Codes
  <2>2. QED
    BY <1>11, <2>1 DEF Release, TypeOK, clientVars
<1>12. ASSUME NEW w \in Workers, Answer(w) PROVE TypeOK'
  BY <1>12, AnswerType
<1>13. CASE ReadRevision
  BY <1>13 DEF ReadRevision, TypeOK, Catalogue, clientVars
<1>14. CASE ReadTargets
  BY <1>14 DEF ReadTargets, TypeOK, Catalogue, clientVars
<1>15. CASE Crash
  BY <1>15, FreshJobs, EmptyTypes DEF Crash, TypeOK, clientVars
<1>16. CASE Import
  BY <1>16 DEF Import, TypeOK, Catalogue, clientVars, daemonVars
<1>17. CASE UNCHANGED vars
  BY <1>17 DEF vars, TypeOK, daemonVars, clientVars
<1>18. QED
  BY <1>1, <1>2, <1>3, <1>4, <1>5, <1>6, <1>7, <1>8, <1>9, <1>10, <1>11, <1>12,
     <1>13, <1>14, <1>15, <1>16, <1>17 DEF Next

-----------------------------------------------------------------------------
(* What was read stays held *)

\* The store stays or moves to a higher revision, and what is held stays held.
LEMMA HeldAdvances ==
  ASSUME NEW d \in Catalogue, NEW e \in Catalogue, e = d \/ e.revision > d.revision,
         NEW r \in Nat, NEW targets, Held(d, r, targets)
  PROVE  Held(e, r, targets)
BY DEF Held, Catalogue

LEMMA JobAdvances ==
  ASSUME NEW d \in Catalogue, NEW e \in Catalogue, e = d \/ e.revision > d.revision,
         NEW j \in Job, JobHeld(d, j)
  PROVE  JobHeld(e, j)
<1>1. j.expected \in Nat /\ j.result.revision \in Nat
  BY DEF Job, Catalogue
<1>2. QED
  BY <1>1, HeldAdvances DEF JobHeld

\* Nobody can hold something newer than an empty representation.
LEMMA EmptyHeld ==
  ASSUME NEW d \in Catalogue, FirstRevision(d)
  PROVE  Held(d, 0, {}) /\ JobHeld(d, NoJob)
<1>1. Held(d, 0, {})
  BY DEF Held, Catalogue, FirstRevision
<1>2. QED
  BY <1>1 DEF JobHeld, NoJob, Empty

\* A submitted request carries what its client held.
LEMMA SubmitHeld ==
  ASSUME HInv, TypeOK', NEW c \in Clients, NEW ask \in Asks, NEW targets \in SUBSET Targets,
         Submit(c, ask, targets), ask = "cleanup" => targets \subseteq base[c].targets
  PROVE  HInv'
<1> DEFINE j == [NoJob EXCEPT !.step = "dispatch", !.client = c, !.ask = ask,
                              !.expected = base[c].revision, !.targets = targets,
                              !.seen = base[c].targets]
<1>1. PICK w \in Workers : job' = [job EXCEPT ![w] = j]
  BY DEF Submit
<1>2. /\ j.step = "dispatch" /\ j.ask = ask /\ j.targets = targets /\ j.result = Empty
      /\ j.expected = base[c].revision /\ j.seen = base[c].targets
  BY DEF NoJob
<1>3. JobHeld(disk, j)
  BY <1>2, EmptyHeld DEF JobHeld, HInv, TypeOK, Empty
<1> HIDE DEF j
<1>4. \A v \in Workers : job'[v] = j \/ job'[v] = job[v]
  BY <1>1 DEF HInv, TypeOK
<1>5. UNCHANGED <<disk, daemonVars, base>> /\ daemon = "up"
  BY DEF Submit
<1>6. QED
  BY <1>3, <1>4, <1>5 DEF HInv, DaemonHeld, daemonVars

\* A request changes while the store, the pages and the snapshot stay: what
\* has to be seen is that the request is still held.
LEMMA RequestHeld ==
  ASSUME HInv, TypeOK', NEW w \in Workers, NEW j \in Job, JobHeld(disk, j),
         job' = [job EXCEPT ![w] = j],
         UNCHANGED <<disk, daemon, cache, base>>,
         job[w].step # "idle"
  PROVE  HInv'
<1>1. \A v \in Workers : job'[v] = j \/ job'[v] = job[v]
  BY DEF HInv, TypeOK
<1>2. daemon = "up"
  BY DEF HInv, DaemonHeld, TypeOK
<1>3. QED
  BY <1>1, <1>2 DEF HInv, DaemonHeld

\* A step that only moves a request on, not into its transaction.
LEMMA MoveHeld ==
  ASSUME HInv, TypeOK', NEW w \in Workers, NEW step \in Steps \ {"transact"}, NEW code \in Codes,
         GoTo(w, step) \/ End(w, step, code),
         UNCHANGED <<disk, daemon, cache, base>>,
         job[w].step # "idle"
  PROVE  HInv'
<1>1. job[w] \in Job /\ JobHeld(disk, job[w])
  BY DEF HInv, TypeOK
<1>2. CASE GoTo(w, step)
  <2>1. job' = [job EXCEPT ![w] = [job[w] EXCEPT !.step = step]]
    BY <1>2 DEF GoTo, HInv, TypeOK
  <2>2. [job[w] EXCEPT !.step = step] \in Job
    BY <1>1, JobFields, EmptyTypes
  <2>3. JobHeld(disk, [job[w] EXCEPT !.step = step])
    BY <1>1 DEF JobHeld, Job
  <2>4. QED
    BY <2>1, <2>2, <2>3, RequestHeld
<1>3. CASE End(w, step, code)
  <2>1. job' = [job EXCEPT ![w] = [job[w] EXCEPT !.step = step, !.code = code]]
    BY <1>3 DEF End, HInv, TypeOK
  <2>2. [job[w] EXCEPT !.step = step, !.code = code] \in Job
    BY <1>1, JobFields, EmptyTypes
  <2>3. JobHeld(disk, [job[w] EXCEPT !.step = step, !.code = code])
    BY <1>1 DEF JobHeld, Job
  <2>4. QED
    BY <2>1, <2>2, <2>3, RequestHeld
<1>4. QED
  BY <1>2, <1>3

\* A client that gives up changes nothing of what is held.
LEMMA GiveUpHeld ==
  ASSUME HInv, TypeOK', NEW c \in Clients, GiveUp(c)
  PROVE  HInv'
<1>1. \A w \in Workers : job'[w] = job[w] \/ job'[w] = [job[w] EXCEPT !.client = None]
  BY UnheardJobs DEF GiveUp, HInv
<1>2. \A w \in Workers : job[w] \in Job
  BY DEF HInv, TypeOK
<1>3. ASSUME NEW w \in Workers
      PROVE  JobHeld(disk, job'[w]) /\ job'[w].step = job[w].step
  <2>1. JobHeld(disk, job[w]) /\ job[w] \in Job
    BY <1>2 DEF HInv
  <2>2. CASE job'[w] = job[w]
    BY <2>1, <2>2
  <2>3. CASE job'[w] = [job[w] EXCEPT !.client = None]
    <3>1. /\ job'[w].expected = job[w].expected /\ job'[w].seen = job[w].seen
          /\ job'[w].result = job[w].result /\ job'[w].step = job[w].step
          /\ job'[w].ask = job[w].ask /\ job'[w].targets = job[w].targets
      BY <2>1, <2>3 DEF Job
    <3>2. QED
      BY <2>1, <3>1 DEF JobHeld
  <2>4. QED
    BY <1>1, <2>2, <2>3
<1>4. QED
  BY <1>3 DEF HInv, DaemonHeld, GiveUp, daemonVars

\* A load answers with the snapshot of a running daemon.
LEMMA ReadHeld ==
  ASSUME HInv, TypeOK', NEW w \in Workers, Read(w)
  PROVE  HInv'
<1> DEFINE j == [job[w] EXCEPT !.step = "reply", !.code = "OK", !.result = cache]
<1>1. job[w] \in Job /\ JobHeld(disk, job[w]) /\ cache \in Catalogue
  BY DEF HInv, TypeOK
<1>2. j \in Job
  BY <1>1, JobFields DEF Steps, Codes
<1>3. job[w].step # "idle" /\ daemon = "up"
  BY DEF Read, At, HInv, DaemonHeld
<1>4. JobHeld(disk, j)
  BY <1>1, <1>3 DEF JobHeld, Job, HInv, DaemonHeld
<1>5. job' = [job EXCEPT ![w] = j]
  BY DEF Read, HInv, TypeOK
<1>6. QED
  BY <1>2, <1>3, <1>4, <1>5, RequestHeld DEF Read, daemonVars, clientVars

\* Only acceptable targets go into a transaction.
LEMMA BeginHeld ==
  ASSUME HInv, TypeOK', NEW w \in Workers, Begin(w)
  PROVE  HInv'
<1>1. job[w] \in Job /\ JobHeld(disk, job[w]) /\ job[w].step # "idle"
  BY DEF HInv, TypeOK, Begin, At
<1>2. CASE Acceptable(job[w].targets) /\ GoTo(w, "transact")
  <2>1. job' = [job EXCEPT ![w] = [job[w] EXCEPT !.step = "transact"]]
    BY <1>2 DEF GoTo, HInv, TypeOK
  <2>2. [job[w] EXCEPT !.step = "transact"] \in Job
    BY <1>1, JobFields, EmptyTypes DEF Steps, Codes
  <2>3. JobHeld(disk, [job[w] EXCEPT !.step = "transact"])
    BY <1>1, <1>2 DEF JobHeld, Job, Acceptable
  <2>4. QED
    BY <1>1, <2>1, <2>2, <2>3, RequestHeld DEF Begin, clientVars
<1>3. CASE End(w, "release", "INVALID_CATALOG")
  BY <1>1, <1>3, MoveHeld DEF Begin, clientVars, Steps, Codes
<1>4. QED
  BY <1>2, <1>3 DEF Begin

\* A commit makes everything that is held older than the store, except its own
\* answer, which is the store.
LEMMA TransactHeld ==
  ASSUME HInv, TypeOK', NEW w \in Workers, Transact(w)
  PROVE  HInv'
<1>1. job[w] \in Job /\ JobHeld(disk, job[w]) /\ job[w].step = "transact"
  BY TransactCases DEF HInv, TypeOK, At
<1>2. CASE RolledBack(w)
  <2>1. PICK code \in Codes : End(w, "release", code)
    BY <1>2 DEF RolledBack
  <2>2. QED
    BY <1>1, <1>2, <2>1, MoveHeld, TransactCases DEF RolledBack, daemonVars, clientVars, Steps
<1>3. CASE Committed(w)
  <2>1. /\ disk \in Catalogue /\ disk' \in Catalogue
        /\ disk'.revision = disk.revision + 1 /\ disk'.targets = job[w].targets
    BY <1>3 DEF Committed, HInv, TypeOK
  <2>2. disk'.revision > disk.revision
    BY <2>1 DEF Catalogue
  <2>3. \A c \in Clients : Held(disk', base[c].revision, base[c].targets)
    BY <2>1, <2>2, HeldAdvances DEF HInv, TypeOK, Catalogue
  <2>4. \A v \in Workers : JobHeld(disk', job[v])
    BY <2>1, <2>2, JobAdvances DEF HInv, TypeOK
  <2>5. Held(disk', disk'.revision, disk'.targets)
    BY <1>1, <2>1 DEF Held, JobHeld, Catalogue
  <2>6. \A v \in Workers : JobHeld(disk', job'[v])
    <3> SUFFICES ASSUME NEW v \in Workers PROVE JobHeld(disk', job'[v])
      OBVIOUS
    <3>1. CASE v # w
      BY <2>4, <3>1, <1>3 DEF Committed, HInv, TypeOK
    <3>2. CASE v = w
      <4>1. job'[w] = [job[w] EXCEPT !.step = "cache", !.code = "OK", !.result = disk']
        BY <1>3 DEF Committed, HInv, TypeOK
      <4>2. /\ job'[w].expected = job[w].expected /\ job'[w].seen = job[w].seen
            /\ job'[w].result = disk' /\ job'[w].step = "cache"
            /\ job'[w].ask = job[w].ask /\ job'[w].targets = job[w].targets
        BY <1>1, <4>1 DEF Job
      <4>3. JobHeld(disk', job[w])
        BY <2>4
      <4>4. QED
        BY <2>5, <3>2, <4>2, <4>3 DEF JobHeld
    <3>3. QED
      BY <3>1, <3>2
  <2>7. daemon = "up"
    BY <1>1 DEF HInv, DaemonHeld, TypeOK
  <2>8. Held(disk', cache.revision, cache.targets)
    BY <2>1, <2>2, <2>7, HeldAdvances DEF HInv, DaemonHeld, TypeOK, Catalogue
  <2>9. FirstRevision(disk')
    BY <2>1 DEF FirstRevision, Catalogue
  <2>10. QED
    BY <2>3, <2>6, <2>7, <2>8, <2>9, TransactCases
    DEF HInv, DaemonHeld, daemonVars, clientVars
<1>4. QED
  BY <1>2, <1>3, TransactCases

\* The snapshot takes over an answer, which is held.
LEMMA SwapCacheHeld ==
  ASSUME HInv, TypeOK', NEW w \in Workers, SwapCache(w)
  PROVE  HInv'
<1>1. job[w] \in Job /\ JobHeld(disk, job[w]) /\ job[w].step # "idle"
  BY DEF HInv, TypeOK, SwapCache, At
<1>2. \A v \in Workers : job'[v] = job[v] \/ job'[v] = [job[w] EXCEPT !.step = "index"]
  BY DEF SwapCache, GoTo, HInv, TypeOK
<1>3. JobHeld(disk, [job[w] EXCEPT !.step = "index"])
  BY <1>1 DEF JobHeld, Job
<1>4. Held(disk, cache'.revision, cache'.targets) /\ daemon = "up"
  BY <1>1 DEF SwapCache, JobHeld, HInv, DaemonHeld, TypeOK
<1>5. QED
  BY <1>2, <1>3, <1>4 DEF HInv, DaemonHeld, SwapCache, clientVars

\* A page takes over an answer, which is held.
LEMMA AnswerHeld ==
  ASSUME HInv, TypeOK', NEW w \in Workers, Answer(w)
  PROVE  HInv'
<1>1. JobHeld(disk, job[w]) /\ job[w].step # "idle" /\ JobHeld(disk, NoJob)
  BY EmptyHeld DEF HInv, TypeOK, Answer, At
<1>2. \A v \in Workers : job'[v] = job[v] \/ job'[v] = NoJob
  BY DEF Answer, HInv, TypeOK
<1>3. \A c \in Clients : base'[c] = base[c] \/ base'[c] = job[w].result
  BY DEF Answer, HInv, TypeOK
<1>4. \A c \in Clients : Held(disk, base'[c].revision, base'[c].targets)
  BY <1>1, <1>3 DEF HInv, JobHeld
<1>5. daemon = "up"
  BY <1>1 DEF HInv, DaemonHeld, TypeOK
<1>6. QED
  BY <1>1, <1>2, <1>4, <1>5 DEF HInv, DaemonHeld, Answer, daemonVars

-----------------------------------------------------------------------------
(* The invariant *)

LEMMA HInvInit == Init => HInv
<1> SUFFICES ASSUME Init PROVE HInv
  OBVIOUS
<1>1. TypeOK
  BY EmptyTypes, FreshJobs DEF Init, TypeOK, Asks
<1>2. FirstRevision(disk) /\ disk \in Catalogue
  BY <1>1 DEF Init, Empty, FirstRevision, TypeOK
<1>3. Held(disk, 0, {}) /\ JobHeld(disk, NoJob)
  BY <1>2, EmptyHeld
<1>4. QED
  BY <1>1, <1>2, <1>3, FreshJobs DEF Init, HInv, DaemonHeld, Empty

LEMMA HInvStep == HInv /\ [Next]_vars => HInv'
<1> SUFFICES ASSUME HInv, [Next]_vars PROVE HInv'
  OBVIOUS
<1>0. TypeOK'
  BY TypeStep DEF HInv
<1>1. ASSUME NEW c \in Clients, Load(c) PROVE HInv'
  BY <1>0, <1>1, SubmitHeld DEF Load, Asks
<1>2. ASSUME NEW c \in Clients, Save(c) PROVE HInv'
  BY <1>0, <1>2, SubmitHeld DEF Save, Asks
<1>3. ASSUME NEW c \in Clients, Cleanup(c) PROVE HInv'
  <2>1. PICK gone \in SUBSET Targets, edits \in SUBSET Targets :
          Submit(c, "cleanup", Cleaned(c, gone, edits))
    BY <1>3 DEF Cleanup
  <2>2. /\ Cleaned(c, gone, edits) \in SUBSET Targets
        /\ Cleaned(c, gone, edits) \subseteq base[c].targets
    BY DEF Cleaned, HInv, TypeOK, Catalogue
  <2>3. QED
    BY <1>0, <2>1, <2>2, SubmitHeld DEF Asks
<1>4. ASSUME NEW c \in Clients, GiveUp(c) PROVE HInv'
  BY <1>0, <1>4, GiveUpHeld
<1>5. ASSUME NEW w \in Workers, Read(w) PROVE HInv'
  BY <1>0, <1>5, ReadHeld
<1>6. ASSUME NEW w \in Workers, Compete(w) PROVE HInv'
  BY <1>0, <1>6, MoveHeld DEF Compete, At, daemonVars, clientVars, Steps, Codes
<1>7. ASSUME NEW w \in Workers, Begin(w) PROVE HInv'
  BY <1>0, <1>7, BeginHeld
<1>8. ASSUME NEW w \in Workers, Transact(w) PROVE HInv'
  BY <1>0, <1>8, TransactHeld
<1>9. ASSUME NEW w \in Workers, SwapCache(w) PROVE HInv'
  BY <1>0, <1>9, SwapCacheHeld
<1>10. ASSUME NEW w \in Workers, SwapIndex(w) PROVE HInv'
  BY <1>0, <1>10, MoveHeld DEF SwapIndex, At, clientVars, Steps, Codes
<1>11. ASSUME NEW w \in Workers, Release(w) PROVE HInv'
  BY <1>0, <1>11, MoveHeld DEF Release, At, clientVars, Steps, Codes
<1>12. ASSUME NEW w \in Workers, Answer(w) PROVE HInv'
  BY <1>0, <1>12, AnswerHeld
<1>13. CASE ReadRevision
  <2>1. Held(disk, 0, {}) /\ disk \in Catalogue
    BY EmptyHeld DEF HInv, TypeOK
  <2>2. DaemonHeld'
    BY <1>13, <2>1 DEF ReadRevision, DaemonHeld, HInv
  <2>3. QED
    BY <1>0, <1>13, <2>2 DEF HInv, ReadRevision, clientVars
<1>14. CASE ReadTargets
  <2>1. DaemonHeld'
    BY <1>14 DEF ReadTargets, DaemonHeld, HInv, Held, TypeOK, Catalogue
  <2>2. QED
    BY <1>0, <1>14, <2>1 DEF HInv, ReadTargets, clientVars
<1>15. CASE Crash
  <2>1. Held(disk, 0, {}) /\ JobHeld(disk, NoJob)
    BY EmptyHeld DEF HInv, TypeOK
  <2>2. DaemonHeld'
    BY <1>15, <2>1, FreshJobs DEF Crash, DaemonHeld, Empty
  <2>3. QED
    BY <1>0, <1>15, <2>1, <2>2 DEF HInv, Crash, clientVars
<1>16. CASE Import
  <2>1. /\ disk \in Catalogue /\ disk' \in Catalogue
        /\ disk.revision = 0 /\ disk'.revision = 1
    BY <1>0, <1>16 DEF Import, HInv, TypeOK
  <2>2. \A c \in Clients : Held(disk', base[c].revision, base[c].targets)
    BY <2>1, HeldAdvances DEF HInv, TypeOK, Catalogue
  <2>3. \A w \in Workers : JobHeld(disk', job[w])
    BY <2>1, JobAdvances DEF HInv, TypeOK
  <2>4. daemon # "loading" => Held(disk', cache.revision, cache.targets)
    BY <2>1, HeldAdvances DEF HInv, DaemonHeld, TypeOK, Catalogue
  <2>5. DaemonHeld'
    BY <1>16, <2>1, <2>4 DEF Import, HInv, DaemonHeld, daemonVars
  <2>6. FirstRevision(disk')
    BY <2>1 DEF FirstRevision
  <2>7. QED
    BY <1>0, <1>16, <2>2, <2>3, <2>5, <2>6 DEF Import, HInv, clientVars
<1>17. CASE UNCHANGED vars
  BY <1>0, <1>17 DEF vars, HInv, DaemonHeld, daemonVars, clientVars
<1>18. QED
  BY <1>1, <1>2, <1>3, <1>4, <1>5, <1>6, <1>7, <1>8, <1>9, <1>10, <1>11, <1>12,
     <1>13, <1>14, <1>15, <1>16, <1>17 DEF Next

-----------------------------------------------------------------------------
(* The theorems *)

\* Every variable has its type (TypeOK).
THEOREM TypeCorrect == Spec => []TypeOK
<1>1. Init => TypeOK
  BY HInvInit DEF HInv
<1>2. QED
  BY <1>1, TypeStep, PTL DEF Spec

\* The inductive invariant holds throughout.
THEOREM Holding == Spec => []HInv
BY HInvInit, HInvStep, PTL DEF Spec

\* What an editor takes for the committed catalogue was committed, and at the
\* store's revision it is the store (adoptCommittedCatalogue).
THEOREM CommittedIsCommitted == Spec => []EditorsHoldCommitted
<1>1. HInv => EditorsHoldCommitted
  BY DEF HInv, Held, EditorsHoldCommitted
<1>2. QED
  BY <1>1, Holding, PTL

\* The only request that writes the store is the one that commits.
LEMMA WriterCommits ==
  ASSUME TypeOK, [Next]_vars, NEW w \in Workers, job'[w] # job[w], disk' # disk
  PROVE  At(w, "transact") /\ Committed(w)
<1>1. ~UNCHANGED disk /\ job' # job
  OBVIOUS
<1>2. \A v \in Workers : ~(Read(v) \/ Compete(v) \/ Begin(v) \/ SwapCache(v)
                             \/ SwapIndex(v) \/ Release(v) \/ Answer(v))
  BY <1>1 DEF Read, Compete, Begin, SwapCache, SwapIndex, Release, Answer
<1>3. \A c \in Clients : ~(Load(c) \/ Save(c) \/ Cleanup(c) \/ GiveUp(c))
  BY <1>1 DEF Load, Save, Cleanup, GiveUp, Submit
<1>4. ~(ReadRevision \/ ReadTargets \/ Crash \/ Import)
  BY <1>1 DEF ReadRevision, ReadTargets, Crash, Import
<1>5. PICK v \in Workers : Transact(v)
  BY <1>1, <1>2, <1>3, <1>4 DEF Next, vars
<1>6. At(v, "transact") /\ Committed(v)
  BY <1>1, <1>5, TransactCases DEF RolledBack
<1>7. v = w
  BY <1>6 DEF Committed, TypeOK
<1>8. QED
  BY <1>6, <1>7

\* The revision check of replace_catalogue loses no update, whatever sessions,
\* retries, migrations and restarts come between.
THEOREM NoUpdateLost == Spec => NoLostUpdate
<1>1. ASSUME HInv, [Next]_vars, NEW w \in Workers,
             At(w, "transact"), job'[w] # job[w], disk' # disk
      PROVE  Editable(disk.targets) = job[w].seen
  BY <1>1, WriterCommits DEF HInv, JobHeld, Held, Committed
<1>2. HInv /\ [Next]_vars
      => [\A w \in Workers :
            At(w, "transact") /\ job'[w] # job[w] /\ disk' # disk
            => Editable(disk.targets) = job[w].seen]_vars
  BY <1>1
<1>3. QED
  BY <1>2, Holding, PTL DEF Spec, NoLostUpdate

\* An automatic cleanup stores a part of what is stored: it never publishes
\* unsaved edits (cleanupUnavailableTargets).
THEOREM CleanupsOnlyRemove == Spec => CleanupOnlyRemoves
<1>1. ASSUME HInv, [Next]_vars, NEW w \in Workers,
             At(w, "transact"), job'[w] # job[w], disk' # disk, job[w].ask = "cleanup"
      PROVE  disk'.targets \subseteq disk.targets
  <2>1. JobHeld(disk, job[w]) /\ Committed(w)
    BY <1>1, WriterCommits DEF HInv
  <2>2. job[w].targets \subseteq Editable(disk.targets) /\ disk'.targets = job[w].targets
    BY <1>1, <2>1 DEF JobHeld, Held, Committed
  <2>3. QED
    BY <2>2
<1>2. HInv /\ [Next]_vars
      => [\A w \in Workers :
            At(w, "transact") /\ job'[w] # job[w] /\ disk' # disk /\ job[w].ask = "cleanup"
            => disk'.targets \subseteq disk.targets]_vars
  BY <1>1
<1>3. QED
  BY <1>2, Holding, PTL DEF Spec, CleanupOnlyRemoves

-----------------------------------------------------------------------------
(* The built-in recommended target *)

\* What the daemon serves, and what it is about to serve, was editable.
BInv ==
  /\ BuiltinUnshadowed
  /\ \A w \in Workers : At(w, "cache") => job[w].result.targets \intersect Reserved = {}

\* No step but a commit brings a request to the exchange of the snapshot.
Quiet ==
  \A w \in Workers :
    job'[w].step = "cache" => At(w, "cache") /\ job'[w].result = job[w].result

LEMMA QuietKeeps ==
  ASSUME BInv, Quiet, UNCHANGED <<cache, index>>
  PROVE  BInv'
BY DEF BInv, Quiet, BuiltinUnshadowed, At

LEMMA QuietSteps ==
  ASSUME TypeOK, NEW w \in Workers,
         \/ Read(w) \/ Compete(w) \/ Begin(w) \/ SwapCache(w) \/ SwapIndex(w)
         \/ Release(w) \/ Answer(w)
  PROVE  Quiet
<1> USE DEF TypeOK, Job, Quiet, At
<1>1. CASE Read(w)
  BY <1>1 DEF Read
<1>2. CASE Compete(w)
  BY <1>2 DEF Compete, End
<1>3. CASE Begin(w)
  BY <1>3 DEF Begin, GoTo, End
<1>4. CASE SwapCache(w)
  BY <1>4 DEF SwapCache, GoTo
<1>5. CASE SwapIndex(w)
  BY <1>5 DEF SwapIndex, GoTo
<1>6. CASE Release(w)
  BY <1>6 DEF Release, GoTo
<1>7. CASE Answer(w)
  <2>1. \A v \in Workers : job'[v] = job[v] \/ job'[v] = NoJob
    BY <1>7 DEF Answer
  <2>2. QED
    BY <2>1 DEF NoJob
<1>8. QED
  BY <1>1, <1>2, <1>3, <1>4, <1>5, <1>6, <1>7

\* A client's own steps bring no request to the exchange either.
LEMMA QuietClients ==
  ASSUME TypeOK, NEW c \in Clients, Load(c) \/ Save(c) \/ Cleanup(c) \/ GiveUp(c)
  PROVE  Quiet /\ UNCHANGED <<cache, index>>
<1>1. ASSUME NEW ask \in Asks, NEW targets \in SUBSET Targets, Submit(c, ask, targets)
      PROVE  Quiet /\ UNCHANGED <<cache, index>>
  <2>1. \A w \in Workers : job'[w] = job[w] \/ job'[w].step = "dispatch"
    BY <1>1 DEF Submit, NoJob, TypeOK
  <2>2. QED
    BY <1>1, <2>1 DEF Quiet, At, Submit, daemonVars
<1>2. CASE Load(c)
  BY <1>1, <1>2 DEF Load, Asks
<1>3. CASE Save(c)
  BY <1>1, <1>3 DEF Save, Asks
<1>4. CASE Cleanup(c)
  <2>1. \A gone, edits \in SUBSET Targets : Cleaned(c, gone, edits) \in SUBSET Targets
    BY DEF Cleaned, TypeOK, Catalogue
  <2>2. QED
    BY <1>1, <1>4, <2>1 DEF Cleanup, Asks
<1>5. CASE GiveUp(c)
  <2>1. \A w \in Workers : job'[w] = job[w] \/ job'[w] = [job[w] EXCEPT !.client = None]
    BY <1>5, UnheardJobs DEF GiveUp
  <2>2. QED
    BY <1>5, <2>1 DEF Quiet, At, GiveUp, daemonVars, TypeOK, Job
<1>6. QED
  BY <1>2, <1>3, <1>4, <1>5

LEMMA BInvStep == HInv /\ BInv /\ [Next]_vars => BInv'
<1> SUFFICES ASSUME HInv, BInv, [Next]_vars PROVE BInv'
  OBVIOUS
<1>0. TypeOK
  BY DEF HInv
<1>1. ASSUME NEW c \in Clients, Load(c) \/ Save(c) \/ Cleanup(c) \/ GiveUp(c) PROVE BInv'
  BY <1>0, <1>1, QuietClients, QuietKeeps
<1>2. ASSUME NEW w \in Workers, Read(w) \/ Compete(w) \/ Begin(w) \/ Release(w) \/ Answer(w)
      PROVE  BInv'
  <2>1. UNCHANGED <<cache, index>>
    BY <1>2 DEF Read, Compete, Begin, Release, Answer, daemonVars
  <2>2. QED
    BY <1>0, <1>2, <2>1, QuietSteps, QuietKeeps
<1>3. ASSUME NEW w \in Workers, SwapCache(w) PROVE BInv'
  <2>1. Quiet
    BY <1>0, <1>3, QuietSteps
  <2>2. cache'.targets \intersect Reserved = {}
    BY <1>3 DEF SwapCache, BInv
  <2>3. QED
    BY <1>3, <2>1, <2>2 DEF SwapCache, BInv, BuiltinUnshadowed, Quiet, At
<1>4. ASSUME NEW w \in Workers, SwapIndex(w) PROVE BInv'
  <2>1. Quiet
    BY <1>0, <1>4, QuietSteps
  <2>2. QED
    BY <1>4, <2>1 DEF SwapIndex, BInv, BuiltinUnshadowed, Quiet, At
<1>5. ASSUME NEW w \in Workers, Transact(w) PROVE BInv'
  <2>1. At(w, "transact") /\ UNCHANGED <<cache, index>>
    BY <1>5, TransactCases DEF daemonVars
  <2>2. CASE RolledBack(w)
    <3>1. Quiet
      BY <1>0, <2>2 DEF RolledBack, End, Quiet, At, TypeOK, Job
    <3>2. QED
      BY <2>1, <3>1, QuietKeeps
  <2>3. CASE Committed(w)
    <3>1. job[w] \in Job /\ job[w].targets \intersect Reserved = {}
      BY <1>0, <2>1 DEF HInv, JobHeld, At, TypeOK
    <3>2. job'[w].result.targets = job[w].targets
      BY <1>0, <2>3, <3>1 DEF Committed, TypeOK, Job
    <3>3. \A v \in Workers \ {w} : job'[v] = job[v]
      BY <1>0, <2>3 DEF Committed, TypeOK
    <3>4. QED
      BY <2>1, <3>1, <3>2, <3>3 DEF BInv, BuiltinUnshadowed, At
  <2>4. QED
    BY <1>5, <2>2, <2>3, TransactCases
<1>6. CASE ReadRevision
  BY <1>6 DEF ReadRevision, BInv, BuiltinUnshadowed, At
<1>7. CASE ReadTargets
  BY <1>0, <1>7 DEF ReadTargets, BInv, BuiltinUnshadowed, At, TypeOK, Catalogue
<1>8. CASE Crash
  <2>1. \A w \in Workers : job'[w].step = "idle"
    BY <1>8, FreshJobs DEF Crash
  <2>2. cache'.targets = {} /\ index' = {}
    BY <1>8 DEF Crash, Empty
  <2>3. QED
    BY <2>1, <2>2 DEF BInv, BuiltinUnshadowed, At
<1>9. CASE Import
  BY <1>9 DEF Import, daemonVars, BInv, BuiltinUnshadowed, At
<1>10. CASE UNCHANGED vars
  BY <1>10 DEF vars, daemonVars, BInv, BuiltinUnshadowed, At
<1>11. QED
  BY <1>1, <1>2, <1>3, <1>4, <1>5, <1>6, <1>7, <1>8, <1>9, <1>10 DEF Next

\* Whatever a migration has stored and whoever saves, no target that clashes
\* with the built-in recommended one is served (ControlService.__init__ and the
\* checks of TARGET_CATALOG_REPLACE).
THEOREM NeverShadowed == Spec => []BuiltinUnshadowed
<1>1. Init => BInv
  BY FreshJobs DEF Init, BInv, BuiltinUnshadowed, At, Empty
<1>2. BInv => BuiltinUnshadowed
  BY DEF BInv
<1>3. QED
  BY <1>1, <1>2, BInvStep, Holding, PTL DEF Spec

-----------------------------------------------------------------------------
(* The snapshot *)

Locked == {"transact", "cache", "index", "release"}
Swapping(w) == job[w].step \in {"cache", "index"}

\* What is served is what is stored, or a migration came behind a running daemon.
Synced ==
  /\ index = cache.targets
  /\ \/ cache = [revision |-> disk.revision, targets |-> Editable(disk.targets)]
     \/ cache = Empty /\ disk.revision = 1

\* Between the commit and the second of the two assignments the one worker in
\* the lock holds the store in its hands.
SwapHeld(w) ==
  /\ Swapping(w) => /\ job[w].result = disk /\ disk.revision # 0
                    /\ disk.targets \intersect Reserved = {}
  /\ At(w, "index") => cache = disk

SInv ==
  /\ \A w \in Workers : job[w].step \in Locked <=> lock = w
  /\ \A w \in Workers : SwapHeld(w)
  /\ daemon = "up" /\ (\A w \in Workers : ~Swapping(w)) => Synced
  /\ daemon = "down" => index = {}

\* A step that takes no worker into the lock, out of it, or on inside it.
Aside(w) ==
  \/ job'[w].step = job[w].step /\ job'[w].result = job[w].result
  \/ job[w].step \notin Locked /\ job'[w].step \notin Locked

LEMMA AsideKeeps ==
  ASSUME SInv, \A w \in Workers : Aside(w), UNCHANGED <<disk, daemonVars>>
  PROVE  SInv'
<1>1. ASSUME NEW w \in Workers
      PROVE  /\ job'[w].step \in Locked <=> job[w].step \in Locked
             /\ job'[w].step \in {"cache", "index"} <=> job[w].step \in {"cache", "index"}
             /\ job'[w].step = "index" => job[w].step = "index"
             /\ job[w].step \in {"cache", "index"} => job'[w].result = job[w].result
  BY DEF Aside, Locked
<1>2. /\ disk' = disk /\ daemon' = daemon /\ cache' = cache /\ index' = index /\ lock' = lock
  BY DEF daemonVars
<1>3. \A w \in Workers : job'[w].step \in Locked <=> lock' = w
  BY <1>1, <1>2 DEF SInv
<1>4. ASSUME NEW w \in Workers PROVE SwapHeld(w)'
  <2>1. SwapHeld(w)
    BY DEF SInv
  <2>2. (job[w].step \in {"cache", "index"})
        => job[w].result = disk /\ disk.revision # 0 /\ disk.targets \intersect Reserved = {}
    BY <2>1 DEF SwapHeld, Swapping
  <2>3. job[w].step = "index" => cache = disk
    BY <2>1 DEF SwapHeld, At
  <2>. QED BY <1>1, <1>2, <2>2, <2>3 DEF SwapHeld, At, Swapping
<1>5. daemon' = "up" /\ (\A w \in Workers : ~Swapping(w)') => Synced'
  <2>. SUFFICES ASSUME daemon' = "up", \A w \in Workers : ~Swapping(w)' PROVE Synced'
    OBVIOUS
  <2>1. \A w \in Workers : ~Swapping(w)
    BY <1>1 DEF Swapping
  <2>2. Synced
    BY <1>2, <2>1 DEF SInv
  <2>. QED BY <1>2, <2>2 DEF Synced
<1>6. daemon' = "down" => index' = {}
  BY <1>2 DEF SInv
<1>. QED BY <1>3, <1>4, <1>5, <1>6 DEF SInv

LEMMA ClientsAside ==
  ASSUME TypeOK, NEW c \in Clients, Load(c) \/ Save(c) \/ Cleanup(c) \/ GiveUp(c)
  PROVE  (\A w \in Workers : Aside(w)) /\ UNCHANGED <<disk, daemonVars>>
<1>1. ASSUME NEW ask \in Asks, NEW targets \in SUBSET Targets, Submit(c, ask, targets)
      PROVE  (\A w \in Workers : Aside(w)) /\ UNCHANGED <<disk, daemonVars>>
  <2>1. \A w \in Workers : job'[w] = job[w] \/ (job[w].step = "idle" /\ job'[w].step = "dispatch")
    BY <1>1 DEF Submit, NoJob, TypeOK
  <2>. QED BY <1>1, <2>1 DEF Aside, Locked, Submit
<1>2. CASE Load(c)
  BY <1>1, <1>2 DEF Load, Asks
<1>3. CASE Save(c)
  BY <1>1, <1>3 DEF Save, Asks
<1>4. CASE Cleanup(c)
  <2>1. \A gone, edits \in SUBSET Targets : Cleaned(c, gone, edits) \in SUBSET Targets
    BY DEF Cleaned, TypeOK, Catalogue
  <2>. QED BY <1>1, <1>4, <2>1 DEF Cleanup, Asks
<1>5. CASE GiveUp(c)
  <2>1. \A w \in Workers : job'[w] = job[w] \/ job'[w] = [job[w] EXCEPT !.client = None]
    BY <1>5, UnheardJobs DEF GiveUp
  <2>. QED BY <1>5, <2>1 DEF Aside, GiveUp, TypeOK, Job
<1>. QED BY <1>2, <1>3, <1>4, <1>5

LEMMA AnswersAside ==
  ASSUME TypeOK, NEW w \in Workers, Read(w) \/ Compete(w) \/ Answer(w)
  PROVE  (\A v \in Workers : Aside(v)) /\ UNCHANGED <<disk, daemonVars>>
<1>. USE DEF TypeOK, Job, Aside, At, Locked
<1>1. CASE Read(w)
  BY <1>1 DEF Read
<1>2. CASE Compete(w)
  BY <1>2 DEF Compete, End
<1>3. CASE Answer(w)
  <2>1. \A v \in Workers : job'[v] = IF v = w THEN NoJob ELSE job[v]
    BY <1>3 DEF Answer
  <2>. QED BY <1>3, <2>1 DEF Answer, NoJob
<1>. QED BY <1>1, <1>2, <1>3

\* The steps of the worker in the lock.
LEMMA LockedStep ==
  ASSUME HInv, SInv, NEW w \in Workers,
         Begin(w) \/ Transact(w) \/ SwapCache(w) \/ SwapIndex(w) \/ Release(w)
  PROVE  SInv'
<1>t. /\ job \in [Workers -> Job] /\ disk \in Catalogue /\ cache \in Catalogue
      /\ \A v \in Workers : v # None
  BY NoneIsNobody DEF HInv, TypeOK
<1>u. daemon = "up" /\ daemon' = "up"
  <2>1. job[w].step # "idle"
    BY DEF Begin, Transact, SwapCache, SwapIndex, Release, At
  <2>. QED BY <2>1 DEF HInv, DaemonHeld, TypeOK, Begin, Transact, SwapCache, SwapIndex, Release, daemonVars
<1>1. CASE Begin(w)
  <2>1. /\ lock = None /\ lock' = w /\ disk' = disk /\ cache' = cache /\ index' = index
        /\ job'[w].step \in {"transact", "release"} /\ \A v \in Workers \ {w} : job'[v] = job[v]
    BY <1>t, <1>1 DEF Begin, GoTo, End, Job
  <2>2. \A v \in Workers : job[v].step \notin Locked /\ ~Swapping(v) /\ ~Swapping(v)'
    BY <1>t, <2>1 DEF SInv, Locked, Swapping
  <2>3. Synced'
    BY <1>u, <2>1, <2>2 DEF SInv, Synced
  <2>4. \A v \in Workers : SwapHeld(v)'
    BY <2>2 DEF SwapHeld, At, Swapping
  <2>. QED BY <1>u, <2>1, <2>2, <2>3, <2>4 DEF SInv, Locked
<1>l. CASE ~Begin(w)
  <2>1. lock = w /\ \A v \in Workers \ {w} : job[v].step \notin Locked
    <3>1. job[w].step \in Locked
      BY <1>l DEF Transact, SwapCache, SwapIndex, Release, At, Locked
    <3>. QED BY <3>1 DEF SInv
  <2>2. CASE Release(w)
    <3>1. /\ lock' = None /\ disk' = disk /\ cache' = cache /\ index' = index
          /\ job[w].step = "release" /\ job'[w].step = "reply"
          /\ \A v \in Workers \ {w} : job'[v] = job[v]
      BY <1>t, <2>2 DEF Release, At, GoTo, Job
    <3>2. \A v \in Workers : job'[v].step \notin Locked /\ ~Swapping(v) /\ ~Swapping(v)'
      BY <2>1, <3>1 DEF Locked, Swapping
    <3>3. Synced'
      BY <1>u, <3>1, <3>2 DEF SInv, Synced
    <3>4. \A v \in Workers : SwapHeld(v)'
      BY <3>2 DEF SwapHeld, At, Swapping
    <3>. QED BY <1>t, <1>u, <3>1, <3>2, <3>3, <3>4 DEF SInv
  <2>3. ASSUME NEW step \in Locked, job'[w].step = step, lock' = lock,
               \A v \in Workers \ {w} : job'[v] = job[v],
               SwapHeld(w)', step \notin {"cache", "index"} => Synced'
        PROVE  SInv'
    <3>1. \A v \in Workers : SwapHeld(v)'
      BY <2>1, <2>3 DEF SwapHeld, Swapping, At, Locked
    <3>2. \A v \in Workers : job'[v].step \in Locked <=> lock' = v
      BY <2>1, <2>3
    <3>3. (\A v \in Workers : ~Swapping(v)') => Synced'
      BY <2>3 DEF Swapping
    <3>. QED BY <1>u, <3>1, <3>2, <3>3 DEF SInv
  <2>4. CASE Transact(w) /\ RolledBack(w)
    <3>1. /\ job[w].step = "transact" /\ job'[w].step = "release"
          /\ lock' = lock /\ disk' = disk /\ cache' = cache /\ index' = index
          /\ \A v \in Workers \ {w} : job'[v] = job[v]
      BY <1>t, <2>4, TransactCases DEF RolledBack, End, At, Job, daemonVars
    <3>2. Synced'
      <4>1. \A v \in Workers : ~Swapping(v)
        BY <2>1, <3>1 DEF Swapping, Locked
      <4>. QED BY <1>u, <3>1, <4>1 DEF SInv, Synced
    <3>3. SwapHeld(w)'
      BY <3>1 DEF SwapHeld, Swapping, At
    <3>. QED BY <2>3, <3>1, <3>2, <3>3 DEF Locked
  <2>5. CASE Transact(w) /\ Committed(w)
    <3>1. /\ job'[w].step = "cache" /\ job'[w].result = disk'
          /\ disk' = [revision |-> disk.revision + 1, targets |-> job[w].targets]
          /\ \A v \in Workers \ {w} : job'[v] = job[v]
      BY <1>t, <2>5 DEF Committed, Job
    <3>2. lock' = lock /\ job[w].step = "transact"
      BY <2>5, TransactCases DEF daemonVars, At
    <3>3. job[w].targets \intersect Reserved = {}
      BY <3>2 DEF HInv, JobHeld
    <3>4. disk.revision \in Nat
      BY <1>t DEF Catalogue
    <3>5. SwapHeld(w)'
      BY <3>1, <3>3, <3>4 DEF SwapHeld, Swapping, At
    <3>. QED BY <2>3, <3>1, <3>2, <3>5 DEF Locked
  <2>6. CASE SwapCache(w)
    <3>1. /\ job[w].step = "cache" /\ job'[w].step = "index" /\ job'[w].result = job[w].result
          /\ lock' = lock /\ disk' = disk /\ cache' = job[w].result
          /\ \A v \in Workers \ {w} : job'[v] = job[v]
      BY <1>t, <2>6 DEF SwapCache, GoTo, At, Job
    <3>2. SwapHeld(w)
      BY DEF SInv
    <3>3. SwapHeld(w)'
      BY <3>1, <3>2 DEF SwapHeld, Swapping, At
    <3>. QED BY <2>3, <3>1, <3>3 DEF Locked
  <2>7. CASE SwapIndex(w)
    <3>1. /\ job[w].step = "index" /\ job'[w].step = "release"
          /\ lock' = lock /\ disk' = disk /\ cache' = cache
          /\ index' = Editable(job[w].result.targets)
          /\ \A v \in Workers \ {w} : job'[v] = job[v]
      BY <1>t, <2>7 DEF SwapIndex, GoTo, At, Job
    <3>2. job[w].result = disk /\ cache = disk /\ disk.targets \intersect Reserved = {}
      BY <3>1 DEF SInv, SwapHeld, Swapping, At
    <3>3. disk = [revision |-> disk.revision, targets |-> Editable(disk.targets)]
      <4>1. disk.targets = Editable(disk.targets)
        BY <3>2
      <4>. QED BY <1>t, <4>1 DEF Catalogue
    <3>4. Synced'
      BY <3>1, <3>2, <3>3 DEF Synced
    <3>5. SwapHeld(w)'
      BY <3>1 DEF SwapHeld, Swapping, At
    <3>. QED BY <2>3, <3>1, <3>4, <3>5 DEF Locked
  <2>. QED BY <1>l, <2>2, <2>4, <2>5, <2>6, <2>7, TransactCases
<1>. QED BY <1>1, <1>l

LEMMA SInvStep == HInv /\ SInv /\ [Next]_vars => SInv'
<1>. SUFFICES ASSUME HInv, SInv, [Next]_vars PROVE SInv'
  OBVIOUS
<1>t. TypeOK /\ disk \in Catalogue /\ cache \in Catalogue
  BY DEF HInv, TypeOK
<1>1. ASSUME NEW c \in Clients, Load(c) \/ Save(c) \/ Cleanup(c) \/ GiveUp(c) PROVE SInv'
  BY <1>t, <1>1, ClientsAside, AsideKeeps
<1>2. ASSUME NEW w \in Workers, Read(w) \/ Compete(w) \/ Answer(w) PROVE SInv'
  BY <1>t, <1>2, AnswersAside, AsideKeeps
<1>3. ASSUME NEW w \in Workers,
             Begin(w) \/ Transact(w) \/ SwapCache(w) \/ SwapIndex(w) \/ Release(w)
      PROVE  SInv'
  BY <1>3, LockedStep
<1>4. CASE ReadRevision
  <2>1. /\ job' = job /\ lock' = lock /\ disk' = disk /\ index' = index
        /\ daemon = "down" /\ cache' = [revision |-> disk.revision, targets |-> {}]
        /\ daemon' = IF disk.revision = 0 THEN "up" ELSE "loading"
    BY <1>4 DEF ReadRevision
  <2>2. \A w \in Workers : ~Swapping(w) /\ ~At(w, "index")
    BY <2>1 DEF HInv, DaemonHeld, Swapping, At
  <2>3. daemon' = "up" => Synced'
    BY <2>1 DEF SInv, HInv, FirstRevision, Synced
  <2>. QED BY <2>1, <2>2, <2>3 DEF SInv, SwapHeld, Swapping, At
<1>5. CASE ReadTargets
  <2>1. /\ job' = job /\ lock' = lock /\ disk' = disk /\ index' = Editable(disk.targets)
        /\ daemon = "loading" /\ daemon' = "up"
        /\ cache' = [cache EXCEPT !.targets = Editable(disk.targets)]
    BY <1>5 DEF ReadTargets
  <2>2. \A w \in Workers : ~Swapping(w) /\ ~At(w, "index")
    BY <2>1 DEF HInv, DaemonHeld, Swapping, At
  <2>3. cache.revision = disk.revision
    BY <2>1 DEF HInv, DaemonHeld
  <2>4. Synced'
    BY <1>t, <2>1, <2>3 DEF Synced, Catalogue
  <2>. QED BY <2>1, <2>2, <2>4 DEF SInv, SwapHeld, Swapping, At
<1>6. CASE Crash
  <2>1. \A w \in Workers : job'[w].step = "idle"
    BY <1>6, FreshJobs DEF Crash
  <2>2. lock' = None /\ daemon' = "down" /\ index' = {}
    BY <1>6 DEF Crash
  <2>3. \A w \in Workers : w # None
    BY NoneIsNobody
  <2>. QED BY <2>1, <2>2, <2>3 DEF SInv, SwapHeld, Swapping, At, Locked
<1>7. CASE Import
  <2>1. /\ job' = job /\ lock' = lock /\ cache' = cache /\ index' = index /\ daemon' = daemon
        /\ disk.revision = 0 /\ disk'.revision = 1
    BY <1>7 DEF Import, daemonVars
  <2>2. \A w \in Workers : ~Swapping(w) /\ ~At(w, "index")
    BY <2>1 DEF SInv, SwapHeld, Swapping, At
  <2>3. daemon = "up" => Synced
    BY <2>2 DEF SInv
  <2>4. disk.targets = {}
    BY <2>1 DEF HInv, FirstRevision
  <2>5. daemon = "up" => Synced'
    BY <2>1, <2>3, <2>4 DEF Synced, Empty
  <2>. QED BY <2>1, <2>2, <2>5 DEF SInv, SwapHeld, Swapping, At
<1>8. CASE UNCHANGED vars
  <2>1. (\A w \in Workers : Aside(w)) /\ UNCHANGED <<disk, daemonVars>>
    BY <1>8 DEF vars, Aside
  <2>. QED BY <2>1, AsideKeeps
<1>. QED BY <1>1, <1>2, <1>3, <1>4, <1>5, <1>6, <1>7, <1>8 DEF Next

\* Between two replacements the daemon serves what is stored, to lookups by alias
\* and to editors alike, whatever crashed, loaded or was refused before.
THEOREM SnapshotsAreCurrent == Spec => []SnapshotCurrent
<1>1. Init => SInv
  <2>1. \A w \in Workers : w # None
    BY NoneIsNobody
  <2>. QED BY <2>1, FreshJobs DEF Init, SInv, SwapHeld, Swapping, At, Locked
<1>2. SInv => SnapshotCurrent
  <2>. SUFFICES ASSUME SInv, daemon = "up", lock = None PROVE Synced
    BY DEF SnapshotCurrent, Synced
  <2>1. \A w \in Workers : ~Swapping(w)
    BY NoneIsNobody DEF SInv, Swapping, Locked
  <2>. QED BY <2>1 DEF SInv
<1>3. Spec => [](HInv /\ SInv)
  BY <1>1, SInvStep, HInvInit, HInvStep, PTL DEF Spec
<1>. QED BY <1>2, <1>3, PTL

-----------------------------------------------------------------------------
(* Nothing older comes back *)

\* A client waits for at most one request, and only while it asks.
Expected(w) == job[w].client # None
Following ==
  /\ \A w \in Workers : Expected(w) => asked[job[w].client] # "none"
  /\ \A v, w \in Workers : Expected(v) /\ job[v].client = job[w].client => v = w

\* An answer on its way is between what its client holds and what is served:
\* once it is delivered, the client still holds nothing newer than is served.
Fresh(j) ==
  j.code = "OK" =>
    /\ j.step # "cache" => j.result.revision <= cache.revision
    /\ j.client # None => base[j.client].revision <= j.result.revision

FInv ==
  /\ Following
  /\ daemon # "down" => \A c \in Clients : base[c].revision <= cache.revision
  /\ \A w \in Workers : Fresh(job[w])

\* The types and bounds that the revisions are compared with.
LEMMA Revisions ==
  ASSUME HInv
  PROVE  /\ disk.revision \in Nat /\ cache.revision \in Nat
         /\ \A c \in Clients : /\ base[c].revision \in Nat
                               /\ base[c].revision <= disk.revision
         /\ \A w \in Workers : /\ job[w] \in Job /\ job[w].result.revision \in Nat
                               /\ job[w].client # None => job[w].client \in Clients
         /\ cache.revision <= disk.revision
<1>1. \A w \in Workers : job[w] \in Job
  BY DEF HInv, TypeOK
<1>2. cache.revision <= disk.revision
  BY DEF HInv, DaemonHeld, Held, TypeOK, Catalogue
<1>. QED BY <1>1, <1>2 DEF HInv, TypeOK, Job, Catalogue, Held

\* A request is dropped, refused or moved on, no new one is made, and the
\* snapshot does not go back.
Onward(w) ==
  /\ job'[w].client \in {job[w].client, None}
  /\ job'[w].code = "OK" => /\ job[w].code = "OK" /\ job'[w].result = job[w].result
                            /\ job[w].step = "cache" => job'[w].step = "cache"

LEMMA OnwardKeeps ==
  ASSUME HInv, FInv, cache'.revision \in Nat, UNCHANGED base,
         cache.revision <= cache'.revision,
         daemon' # "down" => daemon # "down",
         \A w \in Workers : Onward(w),
         \A w \in Workers : job'[w].client # None => asked'[job[w].client] # "none"
  PROVE  FInv'
<1>r. /\ cache.revision \in Nat /\ \A c \in Clients : base[c].revision \in Nat
      /\ \A w \in Workers : job[w].result.revision \in Nat
  BY Revisions
<1>1. Following'
  <2>1. \A w \in Workers : job'[w].client # None => job'[w].client = job[w].client
    BY DEF Onward
  <2>. QED BY <2>1 DEF FInv, Following, Expected
<1>2. daemon' # "down" => \A c \in Clients : base'[c].revision <= cache'.revision
  BY <1>r DEF FInv
<1>3. ASSUME NEW w \in Workers PROVE Fresh(job[w])'
  <2>1. Fresh(job[w]) /\ Onward(w)
    BY DEF FInv
  <2>. SUFFICES ASSUME job'[w].code = "OK"
                PROVE  /\ job'[w].step # "cache" => job'[w].result.revision <= cache'.revision
                       /\ job'[w].client # None
                          => base[job'[w].client].revision <= job'[w].result.revision
    BY DEF Fresh
  <2>2. /\ job[w].code = "OK" /\ job'[w].result = job[w].result
        /\ job'[w].step # "cache" => job[w].step # "cache"
        /\ job'[w].client # None => job'[w].client = job[w].client
    BY <2>1 DEF Onward
  <2>3. /\ job[w].step # "cache" => job[w].result.revision <= cache.revision
        /\ job[w].client # None => base[job[w].client].revision <= job[w].result.revision
    BY <2>1, <2>2 DEF Fresh
  <2>. QED BY <1>r, <2>2, <2>3
<1>. QED BY <1>1, <1>2, <1>3 DEF FInv

\* A client that asks had no request under way.
LEMMA SubmitFollows ==
  ASSUME HInv, FInv, NEW c \in Clients, NEW ask \in Asks \ {"none"}, NEW targets,
         Submit(c, ask, targets)
  PROVE  FInv'
<1>1. PICK w \in Workers :
        job' = [job EXCEPT ![w] =
            [NoJob EXCEPT !.step = "dispatch", !.client = c, !.ask = ask,
                          !.expected = base[c].revision, !.targets = targets,
                          !.seen = base[c].targets]]
  BY DEF Submit
<1>2. /\ job'[w].client = c /\ job'[w].code = "none"
      /\ \A v \in Workers \ {w} : job'[v] = job[v]
  BY <1>1 DEF HInv, TypeOK, NoJob
<1>3. /\ asked[c] = "none" /\ asked'[c] # "none"
      /\ \A d \in Clients \ {c} : asked'[d] = asked[d]
      /\ UNCHANGED <<daemon, cache, base>>
  BY DEF Submit, daemonVars, HInv, TypeOK
<1>4. c # None
  BY NoneIsNobody
<1>5. \A v \in Workers : job[v].client # c
  BY <1>3, <1>4 DEF FInv, Following, Expected
<1>6. \A v \in Workers : job[v].client # None => job[v].client \in Clients
  BY Revisions
<1>7. Following'
  BY <1>2, <1>3, <1>4, <1>5, <1>6 DEF FInv, Following, Expected
<1>8. \A v \in Workers : Fresh(job[v])'
  <2>. SUFFICES ASSUME NEW v \in Workers PROVE Fresh(job[v])'
    OBVIOUS
  <2>1. CASE v = w
    BY <1>2, <2>1 DEF Fresh
  <2>2. CASE v # w
    BY <1>2, <1>3, <2>2 DEF FInv, Fresh
  <2>. QED BY <2>1, <2>2
<1>. QED BY <1>3, <1>7, <1>8 DEF FInv

LEMMA ClientFollows ==
  ASSUME HInv, FInv, NEW c \in Clients, Load(c) \/ Save(c) \/ Cleanup(c) \/ GiveUp(c)
  PROVE  FInv'
<1>1. CASE Load(c)
  BY <1>1, SubmitFollows DEF Load, Asks
<1>2. CASE Save(c)
  BY <1>2, SubmitFollows DEF Save, Asks
<1>3. CASE Cleanup(c)
  BY <1>3, SubmitFollows DEF Cleanup, Asks
<1>4. CASE GiveUp(c)
  <2>1. \A w \in Workers : job'[w] = IF job[w].client = c THEN [job[w] EXCEPT !.client = None]
                                                         ELSE job[w]
    BY <1>4 DEF GiveUp, Unheard
  <2>2. \A w \in Workers : job[w] \in Job
    BY Revisions
  <2>3. ASSUME NEW w \in Workers
        PROVE  /\ Onward(w)
               /\ job'[w].client # None => job[w].client # c /\ job[w].client # None
    <3>1. CASE job[w].client = c
      <4>1. /\ job'[w].client = None /\ job'[w].code = job[w].code
            /\ job'[w].result = job[w].result /\ job'[w].step = job[w].step
        BY <2>1, <2>2, <3>1 DEF Job
      <4>. QED BY <4>1 DEF Onward
    <3>2. CASE job[w].client # c
      BY <2>1, <3>2 DEF Onward
    <3>. QED BY <3>1, <3>2
  <2>4. /\ UNCHANGED <<daemon, cache, base>> /\ \A d : d # c /\ d \in Clients => asked'[d] = asked[d]
    BY <1>4 DEF GiveUp, daemonVars, HInv, TypeOK
  <2>5. \A w \in Workers : job'[w].client # None => asked'[job[w].client] # "none"
    BY <2>3, <2>4, Revisions DEF FInv, Following, Expected
  <2>. QED BY <2>3, <2>4, <2>5, Revisions, OnwardKeeps
<1>. QED BY <1>1, <1>2, <1>3, <1>4

\* A step of one request that gives it no answer.
LEMMA MoveFollows ==
  ASSUME HInv, FInv, NEW w \in Workers, Onward(w),
         \A v \in Workers \ {w} : job'[v] = job[v],
         UNCHANGED <<daemon, cache, clientVars>>
  PROVE  FInv'
<1>1. \A v \in Workers : Onward(v)
  BY DEF Onward
<1>2. UNCHANGED <<daemon, cache, base, asked>>
  BY DEF clientVars
<1>3. \A v \in Workers : job'[v].client # None => asked'[job[v].client] # "none"
  BY <1>1, <1>2 DEF Onward, FInv, Following, Expected
<1>. QED BY <1>1, <1>2, <1>3, Revisions, OnwardKeeps

\* A step of one request that gives it an answer.
LEMMA AnsweredFollows ==
  ASSUME HInv, FInv, NEW w \in Workers, job'[w].client = job[w].client,
         \A v \in Workers \ {w} : job'[v] = job[v],
         UNCHANGED <<daemon, cache, clientVars>>, daemon = "up",
         job'[w].step # "cache" => job'[w].result.revision <= cache.revision,
         job'[w].client # None => base[job'[w].client].revision <= job'[w].result.revision
  PROVE  FInv'
<1>1. UNCHANGED <<base, asked>>
  BY DEF clientVars
<1>2. Following'
  <2>1. \A v \in Workers : job'[v].client = job[v].client
    OBVIOUS
  <2>. QED BY <1>1, <2>1 DEF FInv, Following, Expected
<1>3. \A v \in Workers : Fresh(job[v])'
  <2>. SUFFICES ASSUME NEW v \in Workers PROVE Fresh(job[v])'
    OBVIOUS
  <2>1. CASE v = w
    BY <1>1, <2>1 DEF Fresh
  <2>2. CASE v # w
    BY <1>1, <2>2 DEF FInv, Fresh
  <2>. QED BY <2>1, <2>2
<1>. QED BY <1>1, <1>2, <1>3 DEF FInv

\* The steps of a request up to its answer.
LEMMA WorkFollows ==
  ASSUME HInv, SInv, FInv, NEW w \in Workers,
         \/ Read(w) \/ Compete(w) \/ Begin(w) \/ Transact(w)
         \/ SwapCache(w) \/ SwapIndex(w) \/ Release(w)
  PROVE  FInv'
<1>t. /\ job \in [Workers -> Job] /\ job[w] \in Job
  BY DEF HInv, TypeOK
<1>u. daemon = "up"
  <2>1. job[w].step # "idle"
    BY DEF Read, Compete, Begin, Transact, SwapCache, SwapIndex, Release, At
  <2>. QED BY <2>1 DEF HInv, DaemonHeld
<1>r. /\ cache.revision \in Nat /\ disk.revision \in Nat /\ cache.revision <= disk.revision
      /\ \A c \in Clients : base[c].revision \in Nat /\ base[c].revision <= disk.revision
      /\ job[w].client # None => job[w].client \in Clients
  BY Revisions
<1>e. ASSUME NEW step \in Steps, NEW code \in Codes \ {"OK"}, End(w, step, code)
      PROVE  Onward(w) /\ \A v \in Workers \ {w} : job'[v] = job[v]
  BY <1>t, <1>e DEF End, Onward, Job
<1>g. ASSUME NEW step \in Steps, GoTo(w, step), job[w].step # "cache"
      PROVE  Onward(w) /\ \A v \in Workers \ {w} : job'[v] = job[v]
  BY <1>t, <1>g DEF GoTo, Onward, Job
<1>1. CASE Read(w)
  <2>1. /\ job'[w].client = job[w].client /\ job'[w].result = cache
        /\ \A v \in Workers \ {w} : job'[v] = job[v]
    BY <1>t, <1>1 DEF Read, Job
  <2>2. UNCHANGED <<daemon, cache, clientVars>>
    BY <1>1 DEF Read, daemonVars
  <2>3. job[w].client # None => base[job[w].client].revision <= cache.revision
    BY <1>u, <1>r DEF FInv
  <2>. QED BY <1>u, <1>r, <2>1, <2>2, <2>3, AnsweredFollows
<1>2. CASE Compete(w)
  BY <1>2, <1>e, MoveFollows DEF Compete, daemonVars, Steps, Codes
<1>3. CASE Begin(w)
  <2>1. job[w].step # "cache"
    BY <1>3 DEF Begin, At
  <2>2. GoTo(w, "transact") \/ End(w, "release", "INVALID_CATALOG")
    BY <1>3 DEF Begin
  <2>. QED BY <1>3, <1>e, <1>g, <2>1, <2>2, MoveFollows DEF Begin, Steps, Codes
<1>4. CASE Transact(w)
  <2>1. UNCHANGED <<daemon, cache, clientVars>>
    BY <1>4, TransactCases DEF daemonVars
  <2>2. CASE RolledBack(w)
    BY <1>e, <2>1, <2>2, MoveFollows DEF RolledBack, Steps
  <2>3. CASE Committed(w)
    <3>1. /\ job'[w].client = job[w].client /\ job'[w].step = "cache"
          /\ job'[w].result.revision = disk.revision + 1
          /\ \A v \in Workers \ {w} : job'[v] = job[v]
      BY <1>t, <2>3 DEF Committed, Job
    <3>2. job[w].client # None => base[job[w].client].revision <= disk.revision + 1
      BY <1>r
    <3>. QED BY <1>u, <2>1, <3>1, <3>2, AnsweredFollows
  <2>. QED BY <1>4, <2>2, <2>3, TransactCases
<1>5. CASE SwapCache(w)
  <2>1. /\ job[w].step = "cache" /\ cache' = job[w].result
        /\ job'[w].step = "index" /\ job'[w].result = job[w].result
        /\ job'[w].client = job[w].client /\ job'[w].code = job[w].code
        /\ \A v \in Workers \ {w} : job'[v] = job[v]
        /\ UNCHANGED <<daemon, base, asked>>
    BY <1>t, <1>5 DEF SwapCache, GoTo, At, Job, clientVars
  <2>2. job[w].result = disk
    BY <2>1 DEF SInv, SwapHeld, Swapping
  <2>3. Following'
    <3>1. \A v \in Workers : job'[v].client = job[v].client
      BY <2>1
    <3>. QED BY <2>1, <3>1 DEF FInv, Following, Expected
  <2>4. ASSUME NEW v \in Workers PROVE Fresh(job[v])'
    <3>1. Fresh(job[v]) /\ job[v].result.revision \in Nat
      BY Revisions DEF FInv
    <3>2. CASE v = w
      BY <1>r, <2>1, <2>2, <3>1, <3>2 DEF Fresh
    <3>3. CASE v # w
      <4>1. job'[v] = job[v] /\ cache.revision <= cache'.revision /\ cache'.revision \in Nat
        BY <1>r, <2>1, <2>2, <3>3
      <4>. QED BY <1>r, <2>1, <3>1, <4>1 DEF Fresh
    <3>. QED BY <3>2, <3>3
  <2>5. \A c \in Clients : base'[c].revision <= cache'.revision
    BY <1>r, <2>1, <2>2
  <2>. QED BY <2>3, <2>4, <2>5 DEF FInv
<1>6. CASE SwapIndex(w)
  BY <1>6, <1>g, MoveFollows DEF SwapIndex, At, Steps
<1>7. CASE Release(w)
  BY <1>7, <1>g, MoveFollows DEF Release, At, Steps
<1>. QED BY <1>1, <1>2, <1>3, <1>4, <1>5, <1>6, <1>7

\* What an answer does to the client that waits for it.
LEMMA Delivery ==
  ASSUME HInv, NEW w \in Workers, Answer(w)
  PROVE  /\ job'[w].client = None /\ job'[w].code = "none"
         /\ \A v \in Workers \ {w} : job'[v] = job[v]
         /\ \A d \in Clients : d # job[w].client => asked'[d] = asked[d]
         /\ \A d \in Clients :
              \/ base'[d] = base[d]
              \/ d = job[w].client /\ job[w].code = "OK" /\ base'[d] = job[w].result
         /\ UNCHANGED <<daemon, cache>> /\ job[w].step = "reply"
BY DEF Answer, HInv, TypeOK, NoJob, At, daemonVars

LEMMA AnswerFollows ==
  ASSUME HInv, FInv, NEW w \in Workers, Answer(w)
  PROVE  FInv'
<1>1. /\ job'[w].client = None /\ job'[w].code = "none"
      /\ \A v \in Workers \ {w} : job'[v] = job[v]
      /\ \A d \in Clients : d # job[w].client => asked'[d] = asked[d]
      /\ \A d \in Clients :
           \/ base'[d] = base[d]
           \/ d = job[w].client /\ job[w].code = "OK" /\ base'[d] = job[w].result
      /\ UNCHANGED <<daemon, cache>> /\ job[w].step = "reply"
  BY Delivery
<1>2. \A v \in Workers \ {w} : job[v].client # None
        => job[v].client # job[w].client /\ job[v].client \in Clients
  BY Revisions DEF FInv, Following, Expected
<1>3. Following'
  BY <1>1, <1>2 DEF FInv, Following, Expected
<1>4. Fresh(job[w])
  BY DEF FInv
<1>5. daemon' # "down" => \A c \in Clients : base'[c].revision <= cache'.revision
  BY <1>1, <1>4 DEF FInv, Fresh
<1>6. ASSUME NEW v \in Workers PROVE Fresh(job[v])'
  <2>1. CASE v = w
    BY <1>1, <2>1 DEF Fresh
  <2>2. CASE v # w
    <3>1. job[v].client # None => base'[job[v].client] = base[job[v].client]
      BY <1>1, <1>2, <2>2
    <3>. QED BY <1>1, <2>2, <3>1 DEF FInv, Fresh
  <2>. QED BY <2>1, <2>2
<1>. QED BY <1>3, <1>5, <1>6 DEF FInv

LEMMA FInvStep == HInv /\ SInv /\ FInv /\ [Next]_vars => FInv'
<1>. SUFFICES ASSUME HInv, SInv, FInv, [Next]_vars PROVE FInv'
  OBVIOUS
<1>1. ASSUME NEW c \in Clients, Load(c) \/ Save(c) \/ Cleanup(c) \/ GiveUp(c) PROVE FInv'
  BY <1>1, ClientFollows
<1>2. ASSUME NEW w \in Workers,
             \/ Read(w) \/ Compete(w) \/ Begin(w) \/ Transact(w)
             \/ SwapCache(w) \/ SwapIndex(w) \/ Release(w)
      PROVE  FInv'
  BY <1>2, WorkFollows
<1>3. ASSUME NEW w \in Workers, Answer(w) PROVE FInv'
  BY <1>3, AnswerFollows
<1>r. /\ disk.revision \in Nat /\ cache.revision \in Nat /\ cache.revision <= disk.revision
      /\ \A c \in Clients : base[c].revision \in Nat /\ base[c].revision <= disk.revision
      /\ \A w \in Workers : job[w].result.revision \in Nat
  BY Revisions
<1>4. CASE ReadRevision
  <2>1. cache'.revision = disk.revision /\ UNCHANGED <<job, base, asked>>
    BY <1>4 DEF ReadRevision, clientVars
  <2>2. Following'
    BY <2>1 DEF FInv, Following, Expected
  <2>3. ASSUME NEW w \in Workers PROVE Fresh(job[w])'
    <3>1. Fresh(job[w]) /\ job[w].result.revision \in Nat
      BY <1>r DEF FInv
    <3>. QED BY <1>r, <2>1, <3>1 DEF Fresh
  <2>. QED BY <1>r, <2>1, <2>2, <2>3 DEF FInv
<1>s. ASSUME UNCHANGED <<job, base, asked>>, cache'.revision = cache.revision,
             daemon' # "down" => daemon # "down"
      PROVE  FInv'
  <2>1. \A w \in Workers : Onward(w)
    BY <1>s DEF Onward
  <2>2. \A w \in Workers : job'[w].client # None => asked'[job[w].client] # "none"
    BY <1>s DEF FInv, Following, Expected
  <2>. QED BY <1>r, <1>s, <2>1, <2>2, OnwardKeeps
<1>5. CASE ReadTargets
  <2>1. cache'.revision = cache.revision
    BY <1>5 DEF ReadTargets, HInv, TypeOK, Catalogue
  <2>. QED BY <1>5, <1>s, <2>1 DEF ReadTargets, clientVars
<1>6. CASE Crash
  <2>1. daemon' = "down" /\ \A w \in Workers : job'[w] = NoJob
    BY <1>6 DEF Crash
  <2>2. \A w \in Workers : job'[w].client = None /\ job'[w].code = "none"
    BY <2>1 DEF NoJob
  <2>. QED BY <2>1, <2>2 DEF FInv, Following, Expected, Fresh
<1>7. CASE Import
  BY <1>7, <1>s DEF Import, daemonVars, clientVars
<1>8. CASE UNCHANGED vars
  BY <1>8, <1>s DEF vars, daemonVars, clientVars
<1>. QED BY <1>1, <1>2, <1>3, <1>4, <1>5, <1>6, <1>7, <1>8 DEF Next

\* Whatever an editor shows as committed is only ever replaced by something as
\* new: not by a late answer, not by a daemon that has just started again, and
\* not by a snapshot read while another replacement was under way.
THEOREM NeverStepsBack == Spec => NoStepBack
<1>1. Init => SInv /\ FInv
  <2>1. \A w \in Workers : w # None
    BY NoneIsNobody
  <2>2. Init => SInv
    BY <2>1, FreshJobs DEF Init, SInv, SwapHeld, Swapping, At, Locked
  <2>3. Init => \A w \in Workers : job[w].client = None /\ job[w].code = "none"
    BY DEF Init, NoJob
  <2>4. Init => FInv
    BY <2>3 DEF Init, FInv, Following, Expected, Fresh
  <2>. QED BY <2>2, <2>4
<1>2. HInv /\ FInv /\ [Next]_vars => \A c \in Clients : base'[c].revision >= base[c].revision
  <2>. SUFFICES ASSUME HInv, FInv, [Next]_vars, NEW c \in Clients
                PROVE  base'[c].revision >= base[c].revision
    OBVIOUS
  <2>r. base[c].revision \in Nat
    BY Revisions
  <2>1. CASE UNCHANGED base
    BY <2>r, <2>1
  <2>2. ASSUME NEW w \in Workers, Answer(w) PROVE base'[c].revision >= base[c].revision
    <3>1. c # None
      BY NoneIsNobody
    <3>2. \/ base'[c] = base[c]
          \/ c = job[w].client /\ job[w].code = "OK" /\ base'[c] = job[w].result
      BY <2>2, Delivery
    <3>3. Fresh(job[w]) /\ job[w].result.revision \in Nat
      BY Revisions DEF FInv
    <3>. QED BY <2>r, <3>1, <3>2, <3>3 DEF Fresh
  <2>. QED BY <2>1, <2>2
       DEF Next, vars, clientVars, Load, Save, Cleanup, GiveUp, Submit, Read, Compete, Begin,
           Transact, SwapCache, SwapIndex, Release, ReadRevision, ReadTargets, Crash, Import
<1>3. Spec => [](HInv /\ SInv /\ FInv)
  BY <1>1, SInvStep, FInvStep, HInvInit, HInvStep, PTL DEF Spec
<1>. QED BY <1>2, <1>3, PTL DEF Spec, NoStepBack

-----------------------------------------------------------------------------
(* The sessions of the dashboards: whoever waits for an answer waits for the  *)
(* one request that it sent last, and what is stored for a request is what    *)
(* came with it.                                                              *)

Carried(j) ==
  /\ j.step = "idle" => j.client = None
  /\ j.client # None => j.ask = asked[j.client]
  /\ j.ask \notin Replacements => j.targets = {}
  /\ j.ask = "load" => j.step = "dispatch" \/ (j.step = "reply" /\ j.code = "OK")
  /\ j.ask \in Replacements /\ j.code = "OK" => j.result.targets = j.targets
  /\ j.ask \in Replacements /\ j.client \in Browsers => j.targets # {}

VInv ==
  /\ \A w \in Workers : Carried(job[w])
  /\ \A c \in Browsers : asked[c] \in Replacements => loaded[c]

\* What a dashboard has sent is what its one request carries.
LEMMA OnlyListener ==
  ASSUME FInv, NEW c \in Clients, NEW w \in Workers, job[w].client = c
  PROVE  Sent(c) = job[w].targets
<1>1. \A v \in Workers : job[v].client = c => v = w
  BY NoneIsNobody DEF FInv, Following, Expected
<1>2. {v \in Workers : job[v].client = c} = {w}
  BY <1>1
<1>. QED BY <1>2 DEF Sent

LEMMA NoListener == \A c : (\A w \in Workers : job[w].client # c) => Sent(c) = {}
BY DEF Sent

LEMMA Unasked ==
  ASSUME FInv, NEW c \in Clients, asked[c] = "none"
  PROVE  Sent(c) = {} /\ \A w \in Workers : job[w].client # c
<1>1. \A w \in Workers : job[w].client # c
  BY NoneIsNobody DEF FInv, Following, Expected
<1>. QED BY <1>1, NoListener

LEMMA SameSent ==
  ASSUME NEW c, \A w \in Workers : job'[w].client = c <=> job[w].client = c,
         \A w \in Workers : job[w].client = c => job'[w].targets = job[w].targets
  PROVE  Sent(c)' = Sent(c)
<1>1. {w \in Workers : job[w].client = c}' = {w \in Workers : job[w].client = c}
  OBVIOUS
<1>2. {job[w].targets : w \in {v \in Workers : job[v].client = c}}'
      = {job[w].targets : w \in {v \in Workers : job[v].client = c}}
  BY <1>1
<1>. QED BY <1>2 DEF Sent

\* One request moves on, and stays the request it was.
LEMMA WorkMoves ==
  ASSUME HInv, VInv, NEW w \in Workers,
         \/ Read(w) \/ Compete(w) \/ Begin(w) \/ Transact(w)
         \/ SwapCache(w) \/ SwapIndex(w) \/ Release(w)
  PROVE  /\ job'[w].client = job[w].client /\ job'[w].ask = job[w].ask
         /\ job'[w].targets = job[w].targets /\ Carried(job[w])'
         /\ \A v \in Workers \ {w} : job'[v] = job[v]
         /\ UNCHANGED clientVars
<1>t. job \in [Workers -> Job] /\ job[w] \in Job /\ Carried(job[w])
  BY DEF HInv, VInv, TypeOK
<1>c. UNCHANGED <<clientVars, asked>>
  BY TransactCases
  DEF clientVars, Read, Compete, Begin, SwapCache, SwapIndex, Release
<1>e. ASSUME NEW step \in Steps \ {"idle"}, NEW code \in Codes \ {"OK"}, End(w, step, code),
             job[w].ask # "load"
      PROVE  /\ job'[w].client = job[w].client /\ job'[w].ask = job[w].ask
             /\ job'[w].targets = job[w].targets /\ Carried(job[w])'
             /\ \A v \in Workers \ {w} : job'[v] = job[v]
  <2>1. /\ job'[w].client = job[w].client /\ job'[w].ask = job[w].ask
        /\ job'[w].targets = job[w].targets /\ job'[w].step = step /\ job'[w].code = code
        /\ \A v \in Workers \ {w} : job'[v] = job[v]
    BY <1>t, <1>e DEF End, Job
  <2>. QED BY <1>t, <1>c, <1>e, <2>1 DEF Carried
<1>g. ASSUME NEW step \in Steps \ {"idle"}, GoTo(w, step), job[w].ask # "load"
      PROVE  /\ job'[w].client = job[w].client /\ job'[w].ask = job[w].ask
             /\ job'[w].targets = job[w].targets /\ Carried(job[w])'
             /\ \A v \in Workers \ {w} : job'[v] = job[v]
  <2>1. /\ job'[w].client = job[w].client /\ job'[w].ask = job[w].ask
        /\ job'[w].targets = job[w].targets /\ job'[w].step = step
        /\ job'[w].code = job[w].code /\ job'[w].result = job[w].result
        /\ \A v \in Workers \ {w} : job'[v] = job[v]
    BY <1>t, <1>g DEF GoTo, Job
  <2>. QED BY <1>t, <1>c, <1>g, <2>1 DEF Carried
<1>l. job[w].step \notin {"dispatch", "reply"} => job[w].ask # "load"
  BY <1>t DEF Carried
<1>1. CASE Read(w)
  <2>1. /\ job'[w].client = job[w].client /\ job'[w].ask = "load" /\ job[w].ask = "load"
        /\ job'[w].targets = job[w].targets /\ job'[w].step = "reply" /\ job'[w].code = "OK"
        /\ \A v \in Workers \ {w} : job'[v] = job[v]
    BY <1>t, <1>1 DEF Read, Job
  <2>2. Carried(job[w])'
    BY <1>t, <1>c, <2>1 DEF Carried, Replacements
  <2>. QED BY <1>c, <2>1, <2>2
<1>2. CASE Compete(w)
  <2>1. job[w].ask # "load" /\ End(w, "reply", "OPERATION_IN_PROGRESS")
    BY <1>2 DEF Compete, Replacements
  <2>. QED BY <1>c, <1>e, <2>1 DEF Steps, Codes
<1>3. CASE Begin(w)
  <2>1. job[w].ask # "load" /\ (GoTo(w, "transact") \/ End(w, "release", "INVALID_CATALOG"))
    BY <1>3 DEF Begin, Replacements
  <2>. QED BY <1>c, <1>e, <1>g, <2>1 DEF Steps, Codes
<1>4. CASE Transact(w)
  <2>1. job[w].ask # "load"
    BY <1>4, <1>l, TransactCases DEF At
  <2>2. CASE RolledBack(w)
    BY <1>c, <1>e, <2>1, <2>2 DEF RolledBack, Steps
  <2>3. CASE Committed(w)
    <3>1. /\ job'[w].client = job[w].client /\ job'[w].ask = job[w].ask
          /\ job'[w].targets = job[w].targets /\ job'[w].step = "cache"
          /\ job'[w].result.targets = job[w].targets
          /\ \A v \in Workers \ {w} : job'[v] = job[v]
      BY <1>t, <2>3 DEF Committed, Job
    <3>2. Carried(job[w])'
      BY <1>t, <1>c, <2>1, <3>1 DEF Carried
    <3>. QED BY <1>c, <3>1, <3>2
  <2>. QED BY <1>4, <2>2, <2>3, TransactCases
<1>5. CASE SwapCache(w)
  BY <1>5, <1>c, <1>g, <1>l DEF SwapCache, At, Steps
<1>6. CASE SwapIndex(w)
  BY <1>6, <1>c, <1>g, <1>l DEF SwapIndex, At, Steps
<1>7. CASE Release(w)
  BY <1>7, <1>c, <1>g, <1>l DEF Release, At, Steps
<1>. QED BY <1>1, <1>2, <1>3, <1>4, <1>5, <1>6, <1>7

\* A dashboard or an editor of files asks.
LEMMA SubmitSends ==
  ASSUME HInv, FInv, VInv, NEW c \in Clients, NEW ask \in {"load", "save", "cleanup"},
         NEW targets \in SUBSET Targets, Submit(c, ask, targets),
         ask = "load" => targets = {},
         c \in Browsers /\ ask # "load" => loaded[c] /\ targets # {}
  PROVE  /\ VInv'
         /\ Sent(c) = {} /\ Sent(c)' = targets /\ asked[c] = "none" /\ asked'[c] = ask
         /\ \A d \in Clients \ {c} : Sent(d)' = Sent(d) /\ asked'[d] = asked[d]
         /\ UNCHANGED <<base, loaded>>
<1>1. PICK w \in Workers :
        /\ job[w].step = "idle"
        /\ job' = [job EXCEPT ![w] =
            [NoJob EXCEPT !.step = "dispatch", !.client = c, !.ask = ask,
                          !.expected = base[c].revision, !.targets = targets,
                          !.seen = base[c].targets]]
  BY DEF Submit
<1>2. /\ job'[w].client = c /\ job'[w].ask = ask /\ job'[w].targets = targets
      /\ job'[w].step = "dispatch" /\ job'[w].code = "none"
      /\ \A v \in Workers \ {w} : job'[v] = job[v]
  BY <1>1 DEF HInv, TypeOK, NoJob
<1>3. /\ asked[c] = "none" /\ asked'[c] = ask /\ \A d \in Clients \ {c} : asked'[d] = asked[d]
      /\ UNCHANGED <<base, loaded>>
  BY DEF Submit, HInv, TypeOK
<1>4. Sent(c) = {} /\ \A v \in Workers : job[v].client # c
  BY <1>3, Unasked
<1>5. c # None /\ job[w].client = None
  BY <1>1, NoneIsNobody DEF VInv, Carried
<1>6. Sent(c)' = targets
  <2>1. {v \in Workers : job'[v].client = c} = {w}
    BY <1>2, <1>4
  <2>. QED BY <1>2, <2>1 DEF Sent
<1>7. ASSUME NEW d \in Clients \ {c} PROVE Sent(d)' = Sent(d)
  <2>1. d # None
    BY NoneIsNobody
  <2>. QED BY <1>2, <1>5, <2>1, SameSent
<1>8. ASSUME NEW v \in Workers PROVE Carried(job[v])'
  <2>1. CASE v = w
    BY <1>2, <1>3, <2>1 DEF Carried, Replacements
  <2>2. CASE v # w
    <3>1. job'[v] = job[v] /\ Carried(job[v]) /\ (job[v].client # None => job[v].client \in Clients \ {c})
      BY <1>2, <1>4, <2>2, Revisions DEF VInv
    <3>. QED BY <1>3, <3>1 DEF Carried
  <2>. QED BY <2>1, <2>2
<1>9. \A d \in Browsers : asked'[d] \in Replacements => loaded'[d]
  BY <1>3, BrowsersAreClients DEF VInv, Replacements
<1>. QED BY <1>3, <1>4, <1>6, <1>7, <1>8, <1>9 DEF VInv

\* A client that gives up has sent nothing that it will hear of.
LEMMA GiveUpSends ==
  ASSUME HInv, VInv, NEW c \in Clients, GiveUp(c)
  PROVE  /\ VInv'
         /\ Sent(c)' = {} /\ asked[c] # "none" /\ asked'[c] = "none"
         /\ c \in Browsers => loaded'[c] = (loaded[c] /\ asked[c] # "load")
         /\ \A d \in Clients \ {c} : Sent(d)' = Sent(d) /\ asked'[d] = asked[d]
                                     /\ loaded'[d] = loaded[d]
         /\ UNCHANGED base
<1>1. \A w \in Workers : job'[w] = IF job[w].client = c THEN [job[w] EXCEPT !.client = None]
                                                        ELSE job[w]
  BY DEF GiveUp, Unheard
<1>2. \A w \in Workers : job[w] \in Job
  BY Revisions
<1>3. c # None /\ \A d \in Clients : d # None
  BY NoneIsNobody
<1>4. /\ asked[c] # "none" /\ asked'[c] = "none" /\ UNCHANGED base
      /\ c \in Browsers => loaded'[c] = (loaded[c] /\ asked[c] # "load")
      /\ \A d \in Clients \ {c} : asked'[d] = asked[d] /\ loaded'[d] = loaded[d]
  BY DEF GiveUp, HInv, TypeOK
<1>5. \A w \in Workers : job[w].client = c => job'[w].client = None
  BY <1>1, <1>2 DEF Job
<1>6. Sent(c)' = {}
  <2>1. \A w \in Workers : job'[w].client # c
    BY <1>1, <1>3, <1>5
  <2>. QED BY <2>1 DEF Sent
<1>7. ASSUME NEW d \in Clients \ {c} PROVE Sent(d)' = Sent(d)
  <2>1. \A w \in Workers : job'[w].client = d <=> job[w].client = d
    BY <1>1, <1>3, <1>5
  <2>2. \A w \in Workers : job[w].client = d => job'[w].targets = job[w].targets
    BY <1>1
  <2>. QED BY <2>1, <2>2, SameSent
<1>8. ASSUME NEW w \in Workers PROVE Carried(job[w])'
  <2>1. Carried(job[w]) /\ job[w] \in Job
    BY <1>2 DEF VInv
  <2>2. CASE job[w].client = c
    <3>1. job'[w] = [job[w] EXCEPT !.client = None]
      BY <1>1, <2>2
    <3>2. /\ job'[w].client = None /\ job'[w].step = job[w].step /\ job'[w].ask = job[w].ask
          /\ job'[w].code = job[w].code /\ job'[w].targets = job[w].targets
          /\ job'[w].result = job[w].result
      BY <2>1, <3>1 DEF Job
    <3>3. None \notin Browsers
      BY NoneIsNobody, BrowsersAreClients
    <3>. QED BY <2>1, <3>2, <3>3 DEF Carried
  <2>3. CASE job[w].client # c
    <3>1. job'[w] = job[w] /\ (job[w].client # None => job[w].client \in Clients \ {c})
      BY <1>1, <2>3, Revisions
    <3>. QED BY <1>4, <2>1, <3>1 DEF Carried
  <2>. QED BY <2>2, <2>3
<1>9. \A d \in Browsers : asked'[d] \in Replacements => loaded'[d]
  BY <1>4, BrowsersAreClients DEF VInv, Replacements
<1>. QED BY <1>4, <1>6, <1>7, <1>8, <1>9 DEF VInv

\* The answer that a client waits for is the one to what it sent.
LEMMA AnswerSends ==
  ASSUME HInv, FInv, VInv, NEW w \in Workers, Answer(w)
  PROVE  /\ VInv'
         /\ \A c \in Browsers : c = job[w].client =>
              /\ Sent(c)' = {} /\ asked[c] \in {"load", "save", "cleanup"} /\ asked'[c] = "none"
              /\ \/ /\ loaded'[c] = TRUE
                    /\ asked[c] # "load" => base'[c].targets = Sent(c) /\ Sent(c) # {}
                 \/ asked[c] # "load" /\ loaded'[c] = loaded[c] /\ base'[c] = base[c]
         /\ \A c \in Clients : c # job[w].client =>
              /\ Sent(c)' = Sent(c) /\ asked'[c] = asked[c] /\ loaded'[c] = loaded[c]
              /\ base'[c] = base[c]
<1> DEFINE d == job[w].client
<1>1. /\ job'[w] = NoJob /\ \A v \in Workers \ {w} : job'[v] = job[v]
      /\ \A c \in Clients : asked'[c] = IF c = d THEN "none" ELSE asked[c]
  BY DEF Answer, HInv, TypeOK
<1>2. /\ job[w].step = "reply" /\ Carried(job[w]) /\ job[w].ask \in Asks
      /\ d # None => d \in Clients
  BY Revisions DEF Answer, At, VInv, Job
<1>3. /\ d # None /\ job[w].code = "OK" /\ (job[w].ask = "load" \/ d \in Browsers)
         => /\ base' = [base EXCEPT ![d] = job[w].result]
            /\ loaded' = [loaded EXCEPT ![d] = TRUE]
      /\ ~(d # None /\ job[w].code = "OK" /\ (job[w].ask = "load" \/ d \in Browsers))
         => UNCHANGED <<base, loaded>>
  BY DEF Answer
<1>4. /\ base \in [Clients -> Catalogue] /\ loaded \in [Clients -> BOOLEAN]
      /\ job'[w].client = None /\ job'[w].step = "idle" /\ job'[w].ask = "none"
      /\ job'[w].targets = {} /\ job'[w].code = "none"
  BY <1>1 DEF HInv, TypeOK, NoJob
<1>5. \A v \in Workers \ {w} : d # None => job[v].client # d
  BY DEF FInv, Following, Expected
<1>6. \A c \in Clients : c # None
  BY NoneIsNobody
<1>7. ASSUME NEW c \in Clients, c # d
      PROVE  /\ Sent(c)' = Sent(c) /\ asked'[c] = asked[c] /\ loaded'[c] = loaded[c]
             /\ base'[c] = base[c]
  <2>1. Sent(c)' = Sent(c)
    BY <1>1, <1>4, <1>6, <1>7, SameSent
  <2>. QED BY <1>1, <1>2, <1>3, <1>4, <1>7, <2>1
<1>8. ASSUME NEW c \in Browsers, c = d
      PROVE  /\ Sent(c)' = {} /\ asked[c] \in {"load", "save", "cleanup"} /\ asked'[c] = "none"
             /\ \/ /\ loaded'[c] = TRUE
                   /\ asked[c] # "load" => base'[c].targets = Sent(c) /\ Sent(c) # {}
                \/ asked[c] # "load" /\ loaded'[c] = loaded[c] /\ base'[c] = base[c]
  <2>1. c \in Clients /\ d # None /\ Sent(c) = job[w].targets
    BY <1>6, <1>8, BrowsersAreClients, OnlyListener
  <2>2. \A v \in Workers : job'[v].client # c
    BY <1>1, <1>4, <1>5, <1>8, <2>1
  <2>3. Sent(c)' = {}
    BY <2>2 DEF Sent
  <2>4. asked[c] = job[w].ask /\ asked[c] \in {"load", "save", "cleanup"} /\ asked'[c] = "none"
    BY <1>1, <1>2, <1>8, <2>1 DEF Carried, Asks, FInv, Following, Expected
  <2>5. CASE job[w].code = "OK"
    <3>1. loaded'[c] = TRUE /\ base'[c] = job[w].result
      BY <1>3, <1>4, <1>8, <2>1, <2>5
    <3>2. asked[c] # "load" => job[w].result.targets = job[w].targets /\ job[w].targets # {}
      BY <1>2, <1>8, <2>4, <2>5 DEF Carried, Replacements
    <3>. QED BY <2>1, <2>3, <2>4, <3>1, <3>2
  <2>6. CASE job[w].code # "OK"
    <3>1. UNCHANGED <<base, loaded>>
      BY <1>3, <2>6
    <3>2. asked[c] # "load"
      BY <1>2, <2>4, <2>6 DEF Carried
    <3>. QED BY <2>3, <2>4, <3>1, <3>2
  <2>. QED BY <2>5, <2>6
<1>9. VInv'
  <2>1. ASSUME NEW v \in Workers PROVE Carried(job[v])'
    <3>1. CASE v = w
      BY <1>4, <3>1, NoneIsNobody, BrowsersAreClients DEF Carried, Replacements
    <3>2. CASE v # w
      <4>1. job'[v] = job[v] /\ Carried(job[v])
            /\ (job[v].client # None => job[v].client \in Clients /\ job[v].client # d)
        BY <1>1, <1>5, <3>2, Revisions DEF VInv
      <4>. QED BY <1>7, <4>1 DEF Carried
    <3>. QED BY <3>1, <3>2
  <2>2. ASSUME NEW c \in Browsers, asked'[c] \in Replacements PROVE loaded'[c]
    <3>1. c # d
      BY <1>1, <2>2, BrowsersAreClients DEF Replacements
    <3>. QED BY <1>7, <2>2, <3>1, BrowsersAreClients DEF VInv
  <2>. QED BY <2>1, <2>2 DEF VInv
<1>. QED BY <1>7, <1>8, <1>9

\* No client is concerned.
LEMMA SessionsRest ==
  ASSUME VInv, UNCHANGED <<job, base, loaded, asked>>
  PROVE  VInv' /\ \A c \in Browsers : UNCHANGED Session(c)!sessionVars
BY DEF VInv, Carried, Session!sessionVars, Sent

Onwards == \A c \in Browsers : [Session(c)!Next]_(Session(c)!sessionVars)

\* The session of one dashboard, in a step that is not its own.
LEMMA SessionElsewhere ==
  ASSUME NEW c, Sent(c)' = Sent(c), asked'[c] = asked[c], loaded'[c] = loaded[c],
         base'[c] = base[c]
  PROVE  UNCHANGED Session(c)!sessionVars
BY DEF Session!sessionVars

LEMMA SubmitInSession ==
  ASSUME HInv, FInv, VInv, NEW c \in Clients, NEW ask \in {"load", "save", "cleanup"},
         NEW targets \in SUBSET Targets, Submit(c, ask, targets),
         ask = "load" => targets = {},
         c \in Browsers /\ ask # "load" => loaded[c] /\ targets # {},
         ask = "cleanup" => targets \subseteq base[c].targets
  PROVE  VInv' /\ Onwards
<1>1. /\ VInv'
      /\ Sent(c) = {} /\ Sent(c)' = targets /\ asked[c] = "none" /\ asked'[c] = ask
      /\ \A d \in Clients \ {c} : Sent(d)' = Sent(d) /\ asked'[d] = asked[d]
      /\ UNCHANGED <<base, loaded>>
  BY SubmitSends
<1>2. ASSUME NEW d \in Browsers PROVE [Session(d)!Next]_(Session(d)!sessionVars)
  <2>1. CASE d = c
    BY <1>1, <2>1 DEF Session!Next, Session!Ask, Session!Proper
  <2>2. CASE d # c
    BY <1>1, <2>2, BrowsersAreClients, SessionElsewhere
  <2>. QED BY <2>1, <2>2
<1>. QED BY <1>1, <1>2 DEF Onwards

LEMMA VInvStep == HInv /\ FInv /\ VInv /\ [Next]_vars => VInv' /\ Onwards
<1>. SUFFICES ASSUME HInv, FInv, VInv, [Next]_vars PROVE VInv' /\ Onwards
  OBVIOUS
<1>1. ASSUME NEW c \in Clients, Load(c) PROVE VInv' /\ Onwards
  BY <1>1, SubmitInSession DEF Load
<1>2. ASSUME NEW c \in Clients, Save(c) PROVE VInv' /\ Onwards
  BY <1>2, SubmitInSession DEF Save
<1>3. ASSUME NEW c \in Clients, Cleanup(c) PROVE VInv' /\ Onwards
  <2>1. PICK gone, edits \in SUBSET Targets :
          base[c].targets \ gone # {} /\ Submit(c, "cleanup", Cleaned(c, gone, edits))
    BY <1>3 DEF Cleanup
  <2>2. /\ Cleaned(c, gone, edits) \in SUBSET Targets
        /\ Cleaned(c, gone, edits) \subseteq base[c].targets /\ Cleaned(c, gone, edits) # {}
    BY <2>1 DEF Cleaned, HInv, TypeOK, Catalogue
  <2>. QED BY <1>3, <2>1, <2>2, SubmitInSession DEF Cleanup
<1>4. ASSUME NEW c \in Clients, GiveUp(c) PROVE VInv' /\ Onwards
  <2>1. /\ VInv'
        /\ Sent(c)' = {} /\ asked[c] # "none" /\ asked'[c] = "none"
        /\ c \in Browsers => loaded'[c] = (loaded[c] /\ asked[c] # "load")
        /\ \A d \in Clients \ {c} : Sent(d)' = Sent(d) /\ asked'[d] = asked[d]
                                    /\ loaded'[d] = loaded[d]
        /\ UNCHANGED base
    BY <1>4, GiveUpSends
  <2>2. ASSUME NEW d \in Browsers PROVE [Session(d)!Next]_(Session(d)!sessionVars)
    <3>1. CASE d = c
      BY <2>1, <3>1 DEF Session!Next, Session!Fail, Session!Over
    <3>2. CASE d # c
      BY <2>1, <3>2, BrowsersAreClients, SessionElsewhere
    <3>. QED BY <3>1, <3>2
  <2>. QED BY <2>1, <2>2 DEF Onwards
<1>5. ASSUME NEW w \in Workers,
             \/ Read(w) \/ Compete(w) \/ Begin(w) \/ Transact(w)
             \/ SwapCache(w) \/ SwapIndex(w) \/ Release(w)
      PROVE  VInv' /\ Onwards
  <2>1. /\ job'[w].client = job[w].client /\ job'[w].ask = job[w].ask
        /\ job'[w].targets = job[w].targets /\ Carried(job[w])'
        /\ \A v \in Workers \ {w} : job'[v] = job[v]
        /\ UNCHANGED <<base, loaded, asked>>
    BY <1>5, WorkMoves DEF clientVars
  <2>2. VInv'
    BY <2>1 DEF VInv, Carried
  <2>3. ASSUME NEW c \in Browsers PROVE UNCHANGED Session(c)!sessionVars
    BY <2>1, SameSent, SessionElsewhere
  <2>. QED BY <2>2, <2>3 DEF Onwards
<1>6. ASSUME NEW w \in Workers, Answer(w) PROVE VInv' /\ Onwards
  <2>1. ASSUME NEW c \in Browsers PROVE [Session(c)!Next]_(Session(c)!sessionVars)
    <3>1. CASE c = job[w].client
      <4>1. /\ Sent(c)' = {} /\ asked[c] \in {"load", "save", "cleanup"} /\ asked'[c] = "none"
            /\ \/ /\ loaded'[c] = TRUE
                  /\ asked[c] # "load" => base'[c].targets = Sent(c) /\ Sent(c) # {}
               \/ asked[c] # "load" /\ loaded'[c] = loaded[c] /\ base'[c] = base[c]
        BY <1>6, <3>1, AnswerSends
      <4>2. loaded[c] \in BOOLEAN
        BY BrowsersAreClients DEF HInv, TypeOK
      <4>. QED BY <4>1, <4>2 DEF Session!Next, Session!Done, Session!Fail, Session!Over
    <3>2. CASE c # job[w].client
      BY <1>6, <3>2, AnswerSends, BrowsersAreClients, SessionElsewhere
    <3>. QED BY <3>1, <3>2
  <2>. QED BY <1>6, <2>1, AnswerSends DEF Onwards
<1>7. CASE Crash
  <2>1. /\ \A w \in Workers : job'[w].client = None /\ job'[w].ask = "none"
                              /\ job'[w].targets = {} /\ job'[w].code = "none"
        /\ UNCHANGED <<base, loaded, asked>>
    BY <1>7 DEF Crash, NoJob, clientVars
  <2>2. VInv'
    BY <2>1, NoneIsNobody, BrowsersAreClients DEF VInv, Carried, Replacements
  <2>3. ASSUME NEW c \in Browsers PROVE [Session(c)!Next]_(Session(c)!sessionVars)
    <3>1. c \in Clients /\ c # None
      BY NoneIsNobody, BrowsersAreClients
    <3>2. Sent(c)' = {}
      BY <2>1, <3>1 DEF Sent
    <3>3. CASE asked[c] = "none"
      BY <2>1, <3>1, <3>2, <3>3, Unasked, SessionElsewhere
    <3>4. CASE asked[c] # "none"
      BY <2>1, <3>2, <3>4 DEF Session!Next, Session!Lose
    <3>. QED BY <3>3, <3>4
  <2>. QED BY <2>2, <2>3 DEF Onwards
<1>8. CASE ReadRevision \/ ReadTargets \/ Import \/ UNCHANGED vars
  BY <1>8, SessionsRest
  DEF ReadRevision, ReadTargets, Import, vars, clientVars, daemonVars, Onwards
<1>. QED BY <1>1, <1>2, <1>3, <1>4, <1>5, <1>6, <1>7, <1>8 DEF Next

\* Every dashboard has its session (EditorSession), for any number of clients,
\* threads and restarts: it is told that a replacement is done only if what it
\* sent is what was stored, and takes no answer for another.
THEOREM SessionsAreKept == Spec => KeepsSessions
<1>1. Init => SInv /\ FInv /\ VInv
  <2>1. \A w \in Workers : w # None
    BY NoneIsNobody
  <2>2. Init => SInv
    BY <2>1, FreshJobs DEF Init, SInv, SwapHeld, Swapping, At, Locked
  <2>3. Init => \A w \in Workers : /\ job[w].client = None /\ job[w].code = "none"
                                   /\ job[w].ask = "none" /\ job[w].targets = {}
    BY DEF Init, NoJob
  <2>4. Init => FInv
    BY <2>3 DEF Init, FInv, Following, Expected, Fresh
  <2>5. Init => VInv
    BY <2>3, NoneIsNobody, BrowsersAreClients DEF Init, VInv, Carried, Replacements
  <2>. QED BY <2>2, <2>4, <2>5
<1>2. Init => \A c \in Browsers : Session(c)!Init
  <2>. SUFFICES ASSUME Init, NEW c \in Browsers PROVE Session(c)!Init
    OBVIOUS
  <2>1. c \in Clients /\ c # None /\ \A w \in Workers : job[w].client # c
    BY NoneIsNobody, BrowsersAreClients DEF Init, NoJob
  <2>2. Sent(c) = {}
    BY <2>1, NoListener
  <2>. QED BY <2>1, <2>2 DEF Init, Session!Init, Empty
<1>3. Spec => [](HInv /\ SInv /\ FInv /\ VInv)
  BY <1>1, SInvStep, FInvStep, VInvStep, HInvInit, HInvStep, PTL DEF Spec
<1>4. HInv /\ FInv /\ VInv /\ [Next]_vars
      => \A c \in Browsers : [Session(c)!Next]_(Session(c)!sessionVars)
  BY VInvStep DEF Onwards
<1>. QED BY <1>2, <1>3, <1>4, PTL DEF Spec, KeepsSessions
=============================================================================
