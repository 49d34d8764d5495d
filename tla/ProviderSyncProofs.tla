-------------------------- MODULE ProviderSyncProofs --------------------------
(***************************************************************************)
(* TLAPS proofs about ProviderSync, for any providers, pages, chapter      *)
(* numbers, workers and requests and every value of the bound.             *)
(***************************************************************************)
EXTENDS ProviderSync, WellFoundedInduction, TLAPS

(* The full domains: TypeOK says less of a worker's job.                   *)
Places == {"idle", "search", "searching", "read", "fetching", "check", "insert",
           "compute", "store", "queue", "purge"}

CopyType == [url : Pages \cup {NoPage}, synced : BOOLEAN]
ListType == [Numbers -> Providers \cup {NoProvider}]

JobType ==
  [at      : Places,
   task    : TaskSet \cup {NoTask},
   all     : BOOLEAN,
   watched : BOOLEAN,
   todo    : SUBSET Providers,
   copy    : [Providers -> CopyType],
   now     : Providers \cup {NoProvider},
   infos   : SUBSET Numbers,
   number  : Numbers \cup {0},
   known   : BOOLEAN,
   news    : SUBSET Rows,
   list    : ListType]

GhostType ==
  [scraped  : [Providers -> SUBSET (Pages \cup {NoPage})],
   backlist : SUBSET Rows,
   fresh    : SUBSET Rows,
   switched : SUBSET Providers,
   tangled  : BOOLEAN,
   excused  : SUBSET Numbers]

DomInv ==
  /\ shown \in [Pages -> SUBSET Numbers]
  /\ url    \in [Providers -> Pages \cup {NoPage}]
  /\ \A p \in Providers : url[p] \in PagesOf[p] \cup {NoPage}
  /\ synced \in [Providers -> BOOLEAN]
  /\ override \in [Providers -> {"on", "off", "none"}]
  /\ off \in [Providers -> BOOLEAN]
  /\ monitored \in BOOLEAN /\ due \in BOOLEAN
  /\ waiting \in SUBSET TaskSet
  /\ rows   \in SUBSET Rows
  /\ canonical \in ListType
  /\ queued \in SUBSET Rows
  /\ edits \in 0..MaxEdits
  /\ job   \in [Procs -> JobType]
  /\ ghost \in GhostType

(* Where a worker or a request stands says what it has in hand; what it    *)
(* has copied of a provider's entry points to that provider, and says      *)
(* synced only of a page that was read; the sync of one provider has       *)
(* stored nothing before its only answer.                                  *)
JobOK(w) ==
  /\ w \in Editors => job[w].at \in {"idle", "purge", "compute", "store"}
  /\ w \in Workers => job[w].at \notin {"purge", "compute"}
  /\ w \in Workers /\ job[w].at # "idle" => job[w].task \in TaskSet
  /\ \A p \in Providers :
       /\ job[w].copy[p].url \in PagesOf[p] \cup {NoPage}
       /\ job[w].copy[p].synced => job[w].copy[p].url \in ghost.scraped[p]
       /\ job[w].at \in {"fetching", "check", "insert"} /\ p \in job[w].todo
            => job[w].copy[p].url # NoPage
  /\ job[w].at \in {"check", "insert", "purge"} => job[w].now \in Providers
  /\ job[w].at = "insert" => job[w].number \in Numbers
  /\ job[w].at = "purge" => job[w].now \in ghost.switched
  /\ job[w].at \in {"idle", "search", "searching", "read", "purge", "compute"}
       => job[w].news = {}
  /\ job[w].at = "fetching" /\ ~job[w].all =>
       job[w].todo = {} \/ (job[w].news = {} /\ \E p \in Providers : job[w].todo = {p})
  /\ job[w].at \in {"check", "insert"} =>
       job[w].now \notin job[w].todo /\ (~job[w].all => job[w].todo = {})

JobInv  == \A w \in Procs : JobOK(w)
BaseInv == DomInv /\ JobInv /\ SyncedMeansRead

-----------------------------------------------------------------------------
(* Of the providers of a number the preferred one exists, and is one.      *)
LEMMA FirstExists ==
  ASSUME NEW C \in SUBSET Providers, C # {}
  PROVE  \E p \in C : \A q \in C : Rank[p] <= Rank[q]
<1> DEFINE T == {Rank[p] : p \in C}
<1>1. T \subseteq Nat /\ T # {}
  BY SyncAssumption
<1>2. \E k \in T : \A m \in T : ~(<<m, k>> \in OpToRel(<, Nat))
  <2>. HIDE DEF T
  <2>. QED  BY <1>1, NatLessThanWellFounded, WFMin
<1>3. PICK k \in T : \A m \in T : ~(m < k)
  BY <1>1, <1>2 DEF OpToRel
<1>4. PICK p \in C : k = Rank[p]
  BY <1>1
<1>5. ASSUME NEW q \in C  PROVE Rank[p] <= Rank[q]
  <2>1. Rank[q] \in T /\ Rank[q] \in Nat /\ Rank[p] \in Nat
    BY SyncAssumption
  <2>2. ~(Rank[q] < Rank[p])
    <3>. HIDE DEF T
    <3>. QED  BY <1>3, <1>4, <2>1
  <2>. QED  BY <2>1, <2>2
<1>. QED  BY <1>5

(* Best yields a provider that has the number and is enabled, if one does, *)
(* and none of these comes before it.                                      *)
LEMMA BestIsFirst ==
  ASSUME NEW n \in Numbers
  PROVE  /\ Best(n) \in Providers \cup {NoProvider}
         /\ \A p \in Providers : <<p, n>> \in rows /\ Enabled(p) =>
               /\ Best(n) \in Providers /\ <<Best(n), n>> \in rows
               /\ Rank[Best(n)] <= Rank[p]
<1> DEFINE C == {p \in Providers : <<p, n>> \in rows /\ Enabled(p)}
<1>1. CASE C = {}
  BY <1>1 DEF Best
<1>2. CASE C # {}
  <2>1. \E p \in C : \A q \in C : Rank[p] <= Rank[q]
    <3>1. C \in SUBSET Providers
      OBVIOUS
    <3>. HIDE DEF C
    <3>. QED  BY <1>2, <3>1, FirstExists
  <2>2. Best(n) \in C /\ \A q \in C : Rank[Best(n)] <= Rank[q]
    <3>1. Best(n) = CHOOSE p \in C : \A q \in C : Rank[p] <= Rank[q]
      BY <1>2 DEF Best
    <3>. HIDE DEF C
    <3>. QED  BY <2>1, <3>1
  <2>. QED  BY <2>2
<1>. QED  BY <1>1, <1>2

LEMMA BestListType == BestList \in ListType
  BY BestIsFirst DEF BestList, ListType

LEMMA IdleType == Idle \in JobType
  BY SyncAssumption
    DEF Idle, JobType, Places, NoTask, NoCopy, CopyType, NoList, ListType

(* The tasks.                                                              *)
LEMMA TasksAreTasks ==
  /\ Build \in TaskSet /\ CheckAll \in TaskSet
  /\ \A p \in Providers, b \in BOOLEAN : Task("one", p, b) \in TaskSet
  /\ NoTask \notin TaskSet
<1>1. Build \in TaskSet /\ CheckAll \in TaskSet
  BY DEF TaskSet
<1>2. ASSUME NEW p \in Providers, NEW b \in BOOLEAN
      PROVE  Task("one", p, b) \in TaskSet
  BY DEF TaskSet
<1>3. ASSUME NEW t \in TaskSet  PROVE t.kind # "none"
  <2>1. CASE t = Build
    BY <2>1 DEF Build, Task
  <2>2. CASE t = CheckAll
    BY <2>2 DEF CheckAll, Task
  <2>3. CASE \E p \in Providers, b \in BOOLEAN : t = Task("one", p, b)
    <3>1. PICK p \in Providers, b \in BOOLEAN : t = Task("one", p, b)
      BY <2>3
    <3>. QED  BY <3>1 DEF Task
  <2>. QED  BY <2>1, <2>2, <2>3 DEF TaskSet
<1>4. NoTask.kind = "none"
  BY DEF NoTask, Task
<1>5. NoTask \notin TaskSet
  BY <1>3, <1>4
<1>. QED  BY <1>1, <1>2, <1>5

LEMMA EnqueuedType ==
  ASSUME NEW p \in Providers, waiting \in SUBSET TaskSet
  PROVE  Enqueued(p) \in SUBSET TaskSet
  BY TasksAreTasks DEF Enqueued

LEMMA DomIsTyped == DomInv => TypeOK
<1> SUFFICES ASSUME DomInv  PROVE TypeOK
  OBVIOUS
<1>1. ASSUME NEW w \in Procs
      PROVE  /\ job[w].task \in TaskSet \cup {NoTask}
             /\ job[w].at \in Places
             /\ job[w].news \in SUBSET Rows
  <2>1. job[w] \in JobType
    BY DEF DomInv
  <2>. QED  BY <2>1 DEF JobType
<1>. QED  BY <1>1 DEF DomInv, TypeOK, ListType, Places

(* A step of one worker or request ...                                     *)
LEMMA Stepped ==
  ASSUME job \in [Procs -> JobType], NEW w \in Procs, NEW j \in JobType, Step(w, j)
  PROVE  /\ job' \in [Procs -> JobType] /\ job'[w] = j
         /\ \A v \in Procs \ {w} : job'[v] = job[v]
  BY DEF Step

(* ... leaves what is said of the others alone: pages stay read and        *)
(* providers switched.                                                     *)
Grows ==
  /\ \A p \in Providers : ghost.scraped[p] \subseteq ghost'.scraped[p]
  /\ ghost.switched \subseteq ghost'.switched

LEMMA OthersKept ==
  ASSUME JobInv, Grows, NEW v \in Procs, job'[v] = job[v]
  PROVE  JobOK(v)'
  BY DEF JobInv, JobOK, Grows

LEMMA IdleIsOK ==
  ASSUME NEW w \in Procs, job[w] = Idle
  PROVE  JobOK(w)
  BY DEF Idle, JobOK, NoCopy

LEMMA BaseInit == Init => BaseInv
<1> SUFFICES ASSUME Init  PROVE BaseInv
  OBVIOUS
<1>1. waiting \in SUBSET TaskSet
  BY TasksAreTasks DEF Init
<1>2. \A w \in Procs : job[w] = Idle
  BY DEF Init
<1>3. job \in [Procs -> JobType]
  BY IdleType DEF Init
<1>4. ghost \in GhostType
  BY DEF Init, GhostType
<1>5. DomInv
  BY <1>1, <1>3, <1>4, SyncAssumption DEF Init, DomInv, NoList, ListType
<1>6. JobInv
  BY <1>2, IdleIsOK DEF JobInv
<1>7. SyncedMeansRead
  BY DEF Init, SyncedMeansRead
<1>. QED  BY <1>5, <1>6, <1>7 DEF BaseInv

LEMMA BaseNext == BaseInv /\ [Next]_vars => BaseInv'
<1> SUFFICES ASSUME BaseInv, [Next]_vars  PROVE BaseInv'
  OBVIOUS
<1>. USE DEF site, entry, config, sched, list
<1>0. /\ DomInv /\ JobInv /\ SyncedMeansRead /\ NoCopy \in CopyType
      /\ \A w \in Procs : job[w] \in JobType /\ JobOK(w)
      /\ \A w \in Workers : w \in Procs /\ w \notin Editors
      /\ \A w \in Editors : w \in Procs /\ w \notin Workers
      /\ Idle \in JobType
  BY IdleType, SyncAssumption DEF BaseInv, DomInv, JobInv, Procs, NoCopy, CopyType
<1>1. ASSUME NEW u \in Pages, NEW n \in Numbers, Post(u, n)  PROVE BaseInv'
  <2>1. waiting' \in SUBSET TaskSet
    BY <1>1, <1>0 DEF Post, DomInv
  <2>2. job' = job /\ ghost' = ghost
    BY <1>1 DEF Post
  <2>3. DomInv'
    BY <1>1, <1>0, <2>1, <2>2, SyncAssumption DEF Post, DomInv
  <2>4. JobInv'
    BY <1>0, <2>2, OthersKept DEF JobInv, Grows
  <2>5. SyncedMeansRead'
    BY <1>1, <1>0, <2>2 DEF Post, SyncedMeansRead, DomInv
  <2>. QED  BY <2>3, <2>4, <2>5 DEF BaseInv
<1>2. ASSUME BecomeDue  PROVE BaseInv'
  <2>1. waiting' \in SUBSET TaskSet
    BY <1>2, <1>0 DEF BecomeDue, DomInv
  <2>2. job' = job /\ ghost' = ghost
    BY <1>2 DEF BecomeDue
  <2>3. DomInv'
    BY <1>2, <1>0, <2>1, <2>2, SyncAssumption DEF BecomeDue, DomInv
  <2>4. JobInv'
    BY <1>0, <2>2, OthersKept DEF JobInv, Grows
  <2>5. SyncedMeansRead'
    BY <1>2, <1>0, <2>2 DEF BecomeDue, SyncedMeansRead, DomInv
  <2>. QED  BY <2>3, <2>4, <2>5 DEF BaseInv
<1>3. ASSUME NEW p \in Providers, Tick(p)  PROVE BaseInv'
  <2>1. waiting' \in SUBSET TaskSet
    BY <1>3, <1>0, EnqueuedType, TasksAreTasks DEF Tick, DomInv
  <2>2. job' = job /\ ghost' = ghost
    BY <1>3 DEF Tick
  <2>3. DomInv'
    BY <1>3, <1>0, <2>1, <2>2, SyncAssumption DEF Tick, DomInv
  <2>4. JobInv'
    BY <1>0, <2>2, OthersKept DEF JobInv, Grows
  <2>5. SyncedMeansRead'
    BY <1>3, <1>0, <2>2 DEF Tick, SyncedMeansRead, DomInv
  <2>. QED  BY <2>3, <2>4, <2>5 DEF BaseInv
<1>4. ASSUME NEW p \in Providers, NEW u \in PagesOf[p] \cup {NoPage}, SetUrl(p, u)
      PROVE  BaseInv'
  <2>1. waiting' \in SUBSET TaskSet
    BY <1>4, <1>0 DEF SetUrl, Edit, DomInv
  <2>2. job' = job /\ ghost' = ghost
    BY <1>4 DEF SetUrl, Edit
  <2>3. DomInv'
    BY <1>4, <1>0, <2>1, <2>2, SyncAssumption DEF SetUrl, Edit, DomInv
  <2>4. JobInv'
    BY <1>0, <2>2, OthersKept DEF JobInv, Grows
  <2>5. SyncedMeansRead'
    BY <1>4, <1>0, <2>2 DEF SetUrl, Edit, SyncedMeansRead, DomInv
  <2>. QED  BY <2>3, <2>4, <2>5 DEF BaseInv
<1>5. ASSUME SetMonitored  PROVE BaseInv'
  <2>1. waiting' \in SUBSET TaskSet
    BY <1>5, <1>0 DEF SetMonitored, Edit, DomInv
  <2>2. job' = job /\ ghost' = ghost
    BY <1>5 DEF SetMonitored, Edit
  <2>3. DomInv'
    BY <1>5, <1>0, <2>1, <2>2, SyncAssumption DEF SetMonitored, Edit, DomInv
  <2>4. JobInv'
    BY <1>0, <2>2, OthersKept DEF JobInv, Grows
  <2>5. SyncedMeansRead'
    BY <1>5, <1>0, <2>2 DEF SetMonitored, Edit, SyncedMeansRead, DomInv
  <2>. QED  BY <2>3, <2>4, <2>5 DEF BaseInv
<1>6. ASSUME NEW t \in TaskSet, Ask(t)  PROVE BaseInv'
  <2>1. waiting' \in SUBSET TaskSet
    BY <1>6, <1>0, EnqueuedType, TasksAreTasks DEF Ask, DomInv
  <2>2. job' = job /\ ghost' = ghost
    BY <1>6 DEF Ask, Edit
  <2>3. DomInv'
    BY <1>6, <1>0, <2>1, <2>2, SyncAssumption DEF Ask, Edit, DomInv
  <2>4. JobInv'
    BY <1>0, <2>2, OthersKept DEF JobInv, Grows
  <2>5. SyncedMeansRead'
    BY <1>6, <1>0, <2>2 DEF Ask, Edit, SyncedMeansRead, DomInv
  <2>. QED  BY <2>3, <2>4, <2>5 DEF BaseInv
<1>7. ASSUME UNCHANGED vars  PROVE BaseInv'
  <2>1. waiting' \in SUBSET TaskSet
    BY <1>7, <1>0 DEF vars, DomInv
  <2>2. job' = job /\ ghost' = ghost
    BY <1>7 DEF vars
  <2>3. DomInv'
    BY <1>7, <1>0, <2>1, <2>2, SyncAssumption DEF vars, DomInv
  <2>4. JobInv'
    BY <1>0, <2>2, OthersKept DEF JobInv, Grows
  <2>5. SyncedMeansRead'
    BY <1>7, <1>0, <2>2 DEF vars, SyncedMeansRead, DomInv
  <2>. QED  BY <2>3, <2>4, <2>5 DEF BaseInv
<1>8. ASSUME NEW w \in Workers, NEW t \in TaskSet, Claim(w, t)  PROVE BaseInv'
  <2> DEFINE j == [Idle EXCEPT !.at = IF t = Build THEN "search" ELSE "read",
                              !.task = t, !.watched = monitored]
  <2>0. w \in Procs /\ job[w] \in JobType /\ JobOK(w)
    BY <1>0
  <2>1. Step(w, j)
    BY <1>8 DEF Claim
  <2>2. j \in JobType
    BY <1>0 DEF JobType, Places, DomInv
  <2>. HIDE DEF j
  <2>3. /\ job' \in [Procs -> JobType] /\ job'[w] = j
        /\ \A v \in Procs \ {w} : job'[v] = job[v]
    BY <1>0, <2>0, <2>1, <2>2, Stepped DEF DomInv
  <2>4. ghost' \in GhostType /\ Grows
    BY <1>8, <1>0 DEF Claim, DomInv, Grows
  <2>5. waiting' \in SUBSET TaskSet
    BY <1>8, <1>0 DEF Claim, DomInv
  <2>6. DomInv'
    BY <1>8, <1>0, <2>0, <2>3, <2>4, <2>5, SyncAssumption DEF Claim, DomInv
  <2>7. JobOK(w)'
    BY <1>0, <2>0, <2>3 DEF JobOK, j, Idle, NoCopy
  <2>8. SyncedMeansRead'
    BY <1>8, <1>0, <2>4 DEF Claim, SyncedMeansRead, Grows, DomInv
  <2>9. JobInv'
    BY <1>0, <2>3, <2>4, <2>7, OthersKept DEF JobInv
  <2>. QED  BY <2>6, <2>8, <2>9 DEF BaseInv
<1>9. ASSUME NEW w \in Workers, SearchRead(w)  PROVE BaseInv'
  <2> DEFINE j == [job[w] EXCEPT !.at = "searching", !.todo = {p \in Providers : ~off[p] /\ ~Found(p)}]
  <2>0. w \in Procs /\ job[w] \in JobType /\ JobOK(w)
    BY <1>0
  <2>1. Step(w, j)
    BY <1>9 DEF SearchRead
  <2>2. j \in JobType
    BY <1>0, <2>0 DEF JobType, Places
  <2>. HIDE DEF j
  <2>3. /\ job' \in [Procs -> JobType] /\ job'[w] = j
        /\ \A v \in Procs \ {w} : job'[v] = job[v]
    BY <1>0, <2>0, <2>1, <2>2, Stepped DEF DomInv
  <2>4. ghost' \in GhostType /\ Grows
    BY <1>9, <1>0 DEF SearchRead, DomInv, Grows
  <2>5. waiting' \in SUBSET TaskSet
    BY <1>9, <1>0 DEF SearchRead, DomInv
  <2>6. DomInv'
    BY <1>9, <1>0, <2>0, <2>3, <2>4, <2>5, SyncAssumption DEF SearchRead, DomInv
  <2>7. JobOK(w)'
    BY <1>9, <1>0, <2>0, <2>3, <2>4 DEF SearchRead, JobOK, JobType, j, Grows, DomInv
  <2>8. SyncedMeansRead'
    BY <1>9, <1>0, <2>4 DEF SearchRead, SyncedMeansRead, Grows, DomInv
  <2>9. JobInv'
    BY <1>0, <2>3, <2>4, <2>7, OthersKept DEF JobInv
  <2>. QED  BY <2>6, <2>8, <2>9 DEF BaseInv
<1>10. ASSUME NEW w \in Workers, NEW p \in Providers, SearchAnswer(w, p)
      PROVE  BaseInv'
  <2> DEFINE j == [job[w] EXCEPT !.todo = @ \ {p}]
  <2>0. w \in Procs /\ job[w] \in JobType /\ JobOK(w)
    BY <1>0
  <2>1. Step(w, j)
    BY <1>10 DEF SearchAnswer
  <2>2. j \in JobType
    BY <1>0, <2>0 DEF JobType, Places
  <2>. HIDE DEF j
  <2>3. /\ job' \in [Procs -> JobType] /\ job'[w] = j
        /\ \A v \in Procs \ {w} : job'[v] = job[v]
    BY <1>0, <2>0, <2>1, <2>2, Stepped DEF DomInv
  <2>4. ghost' \in GhostType /\ Grows
    BY <1>10, <1>0 DEF SearchAnswer, DomInv, Grows
  <2>5. waiting' \in SUBSET TaskSet
    BY <1>10, <1>0 DEF SearchAnswer, DomInv
  <2>6. DomInv'
    BY <1>10, <1>0, <2>0, <2>3, <2>4, <2>5, SyncAssumption DEF SearchAnswer, DomInv
  <2>7. JobOK(w)'
    BY <1>10, <1>0, <2>0, <2>3, <2>4 DEF SearchAnswer, JobOK, JobType, j, Grows, DomInv
  <2>8. SyncedMeansRead'
    BY <1>10, <1>0, <2>4 DEF SearchAnswer, SyncedMeansRead, Grows, DomInv
  <2>9. JobInv'
    BY <1>0, <2>3, <2>4, <2>7, OthersKept DEF JobInv
  <2>. QED  BY <2>6, <2>8, <2>9 DEF BaseInv
<1>11. ASSUME NEW w \in Workers, Spread(w)  PROVE BaseInv'
  <2> DEFINE j == Idle
  <2>0. w \in Procs /\ job[w] \in JobType /\ JobOK(w)
    BY <1>0
  <2>1. Step(w, j)
    BY <1>11 DEF Spread
  <2>2. j \in JobType
    BY <1>0
  <2>. HIDE DEF j
  <2>3. /\ job' \in [Procs -> JobType] /\ job'[w] = j
        /\ \A v \in Procs \ {w} : job'[v] = job[v]
    BY <1>0, <2>0, <2>1, <2>2, Stepped DEF DomInv
  <2>4. ghost' \in GhostType /\ Grows
    BY <1>11, <1>0 DEF Spread, DomInv, Grows
  <2>5. waiting' \in SUBSET TaskSet
    <3> DEFINE U == UNION {Enqueued(p) : p \in Usable}
    <3>1. \A p \in Usable : Enqueued(p) \in SUBSET TaskSet
      BY <1>0, EnqueuedType DEF Usable, DomInv
    <3>2. U \in SUBSET TaskSet
      BY <3>1
    <3>3. waiting' = waiting \cup U
      BY <1>11 DEF Spread
    <3>. HIDE DEF U
    <3>. QED  BY <1>0, <3>2, <3>3 DEF DomInv
  <2>6. DomInv'
    BY <1>11, <1>0, <2>0, <2>3, <2>4, <2>5, SyncAssumption DEF Spread, DomInv
  <2>7. JobOK(w)'
    BY <2>0, <2>3 DEF JobOK, j, Idle, NoCopy
  <2>8. SyncedMeansRead'
    BY <1>11, <1>0, <2>4 DEF Spread, SyncedMeansRead, Grows, DomInv
  <2>9. JobInv'
    BY <1>0, <2>3, <2>4, <2>7, OthersKept DEF JobInv
  <2>. QED  BY <2>6, <2>8, <2>9 DEF BaseInv
<1>12. ASSUME NEW w \in Workers, SyncRead(w)  PROVE BaseInv'
  <2> DEFINE S   == Wanted(w) \cap Usable
             All == job[w].all \/ job[w].task = CheckAll
             C   == [p \in Providers |-> IF p \in S THEN [url |-> url[p], synced |-> synced[p]]
                                                    ELSE NoCopy]
  <2> DEFINE j == [job[w] EXCEPT !.at = "fetching", !.todo = S, !.all = All, !.copy = C]
  <2>0. w \in Procs /\ job[w] \in JobType /\ JobOK(w)
    BY <1>0
  <2>a. S \in SUBSET Providers /\ C \in [Providers -> CopyType] /\ All \in BOOLEAN
    BY <1>0 DEF DomInv, CopyType, Usable
  <2>b. /\ ~All => \E p \in Providers : S = {p}
        /\ job[w].task = CheckAll \/ job[w].task.provider \in Usable
        /\ job[w].at = "read"
    BY <1>12 DEF SyncRead, Wanted, Usable
  <2>c. \A p \in Providers :
          /\ C[p].url \in PagesOf[p] \cup {NoPage}
          /\ C[p].synced => C[p].url \in ghost.scraped[p]
          /\ p \in S => C[p].url # NoPage
    BY <1>0, SyncAssumption DEF DomInv, SyncedMeansRead, Usable, Found, NoCopy
  <2>1. Step(w, j)
    BY <1>12 DEF SyncRead
  <2>. HIDE DEF S, All, C
  <2>2. j \in JobType
    BY <2>0, <2>a DEF JobType, Places
  <2>. HIDE DEF j
  <2>3. /\ job' \in [Procs -> JobType] /\ job'[w] = j
        /\ \A v \in Procs \ {w} : job'[v] = job[v]
    BY <1>0, <2>0, <2>1, <2>2, Stepped DEF DomInv
  <2>4. ghost' \in GhostType /\ Grows
    BY <1>12, <1>0 DEF SyncRead, DomInv, Grows
  <2>5. waiting' \in SUBSET TaskSet
    BY <1>12, <1>0 DEF SyncRead, DomInv
  <2>6. DomInv'
    BY <1>12, <1>0, <2>0, <2>3, <2>4, <2>5, SyncAssumption DEF SyncRead, DomInv
  <2>7. JobOK(w)'
    <3>1. /\ j.at = "fetching" /\ j.todo = S /\ j.all = All /\ j.copy = C
          /\ j.task = job[w].task /\ j.news = job[w].news
      BY <2>0 DEF JobType, j
    <3>. QED  BY <1>12, <1>0, <2>0, <2>3, <2>4, <2>a, <2>b, <2>c, <3>1
      DEF SyncRead, JobOK, Grows
  <2>8. SyncedMeansRead'
    BY <1>12, <1>0, <2>4 DEF SyncRead, SyncedMeansRead, Grows, DomInv
  <2>9. JobInv'
    BY <1>0, <2>3, <2>4, <2>7, OthersKept DEF JobInv
  <2>. QED  BY <2>6, <2>8, <2>9 DEF BaseInv
<1>13. ASSUME NEW w \in Workers, SyncRefuse(w)  PROVE BaseInv'
  <2> DEFINE j == Idle
  <2>0. w \in Procs /\ job[w] \in JobType /\ JobOK(w)
    BY <1>0
  <2>1. Step(w, j)
    BY <1>13 DEF SyncRefuse, Drop
  <2>2. j \in JobType
    BY <1>0
  <2>. HIDE DEF j
  <2>3. /\ job' \in [Procs -> JobType] /\ job'[w] = j
        /\ \A v \in Procs \ {w} : job'[v] = job[v]
    BY <1>0, <2>0, <2>1, <2>2, Stepped DEF DomInv
  <2>4. ghost' \in GhostType /\ Grows
    BY <1>13, <1>0 DEF SyncRefuse, Drop, DomInv, Grows
  <2>5. waiting' \in SUBSET TaskSet
    BY <1>13, <1>0, <2>0 DEF SyncRefuse, Drop, DomInv, JobOK
  <2>6. DomInv'
    BY <1>13, <1>0, <2>0, <2>3, <2>4, <2>5, SyncAssumption DEF SyncRefuse, Drop, DomInv
  <2>7. JobOK(w)'
    BY <2>0, <2>3 DEF JobOK, j, Idle, NoCopy
  <2>8. SyncedMeansRead'
    BY <1>13, <1>0, <2>4 DEF SyncRefuse, Drop, SyncedMeansRead, Grows, DomInv
  <2>9. JobInv'
    BY <1>0, <2>3, <2>4, <2>7, OthersKept DEF JobInv
  <2>. QED  BY <2>6, <2>8, <2>9 DEF BaseInv
<1>14. ASSUME NEW w \in Workers, NEW p \in Providers, Answer(w, p)  PROVE BaseInv'
  <2> DEFINE j == [job[w] EXCEPT !.at = "check", !.todo = @ \ {p}, !.now = p,
                              !.infos = shown[job[w].copy[p].url],
                              !.task = Progress(w, p)]
  <2>0. w \in Procs /\ job[w] \in JobType /\ JobOK(w)
    BY <1>0
  <2>a. job[w].at = "fetching" /\ p \in job[w].todo
    BY <1>14 DEF Answer
  <2>b. Progress(w, p) \in TaskSet
    BY <2>0, <2>a, TasksAreTasks DEF Progress, JobOK
  <2>c. shown[job[w].copy[p].url] \in SUBSET Numbers
    BY <1>0, <2>0, <2>a, SyncAssumption DEF JobOK, DomInv
  <2>1. Step(w, j)
    BY <1>14 DEF Answer
  <2>2. j \in JobType
    BY <2>0, <2>b, <2>c DEF JobType, Places
  <2>. HIDE DEF j
  <2>3. /\ job' \in [Procs -> JobType] /\ job'[w] = j
        /\ \A v \in Procs \ {w} : job'[v] = job[v]
    BY <1>0, <2>0, <2>1, <2>2, Stepped DEF DomInv
  <2>4. ghost' \in GhostType /\ Grows
    BY <1>14, <1>0 DEF Answer, DomInv, Grows
  <2>5. waiting' \in SUBSET TaskSet
    BY <1>14, <1>0 DEF Answer, DomInv
  <2>6. DomInv'
    BY <1>14, <1>0, <2>0, <2>3, <2>4, <2>5, SyncAssumption DEF Answer, DomInv
  <2>7. JobOK(w)'
    BY <2>0, <2>3, <2>4, <2>a, <2>b DEF JobOK, JobType, j, Grows
  <2>8. SyncedMeansRead'
    BY <1>14, <1>0, <2>4 DEF Answer, SyncedMeansRead, Grows, DomInv
  <2>9. JobInv'
    BY <1>0, <2>3, <2>4, <2>7, OthersKept DEF JobInv
  <2>. QED  BY <2>6, <2>8, <2>9 DEF BaseInv
<1>15. ASSUME NEW w \in Workers, NEW p \in Providers, Failed(w, p), job[w].all
      PROVE  BaseInv'
  <2> DEFINE j == [job[w] EXCEPT !.todo = @ \ {p}, !.copy[p] = NoCopy,
                              !.task = Progress(w, p)]
  <2>0. w \in Procs /\ job[w] \in JobType /\ JobOK(w)
    BY <1>0
  <2>a. job[w].at = "fetching" /\ p \in job[w].todo
    BY <1>15 DEF Failed
  <2>b. Progress(w, p) \in TaskSet
    BY <2>0, <2>a, TasksAreTasks DEF Progress, JobOK
  <2>1. Step(w, j)
    BY <1>15 DEF Failed
  <2>2. j \in JobType
    BY <1>0, <2>0, <2>b DEF JobType
  <2>. HIDE DEF j
  <2>3. /\ job' \in [Procs -> JobType] /\ job'[w] = j
        /\ \A v \in Procs \ {w} : job'[v] = job[v]
    BY <1>0, <2>0, <2>1, <2>2, Stepped DEF DomInv
  <2>4. ghost' \in GhostType /\ Grows
    BY <1>15, <1>0 DEF Failed, DomInv, Grows
  <2>5. waiting' \in SUBSET TaskSet
    BY <1>15, <1>0 DEF Failed, DomInv
  <2>6. DomInv'
    BY <1>15, <1>0, <2>0, <2>3, <2>4, <2>5, SyncAssumption DEF Failed, DomInv
  <2>7. JobOK(w)'
    <3>1. /\ j.at = "fetching" /\ j.todo = job[w].todo \ {p} /\ j.all = job[w].all
          /\ j.copy = [job[w].copy EXCEPT ![p] = NoCopy]
          /\ j.task = Progress(w, p) /\ j.news = job[w].news /\ j.now = job[w].now
      BY <2>0, <2>a DEF JobType, j
    <3>2. \A q \in Providers : j.copy[q] = IF q = p THEN NoCopy ELSE job[w].copy[q]
      BY <2>0, <3>1 DEF JobType
    <3>. QED  BY <1>15, <1>0, <2>0, <2>3, <2>4, <2>a, <2>b, <3>1, <3>2
      DEF JobOK, Grows, NoCopy
  <2>8. SyncedMeansRead'
    BY <1>15, <1>0, <2>4 DEF Failed, SyncedMeansRead, Grows, DomInv
  <2>9. JobInv'
    BY <1>0, <2>3, <2>4, <2>7, OthersKept DEF JobInv
  <2>. QED  BY <2>6, <2>8, <2>9 DEF BaseInv
<1>16. ASSUME NEW w \in Workers, NEW p \in Providers, Failed(w, p), ~job[w].all
      PROVE  BaseInv'
  <2> DEFINE j == Idle
  <2>0. w \in Procs /\ job[w] \in JobType /\ JobOK(w)
    BY <1>0
  <2>1. Step(w, j)
    BY <1>16 DEF Failed, Drop
  <2>2. j \in JobType
    BY <1>0
  <2>. HIDE DEF j
  <2>3. /\ job' \in [Procs -> JobType] /\ job'[w] = j
        /\ \A v \in Procs \ {w} : job'[v] = job[v]
    BY <1>0, <2>0, <2>1, <2>2, Stepped DEF DomInv
  <2>4. ghost' \in GhostType /\ Grows
    BY <1>16, <1>0 DEF Failed, Drop, DomInv, Grows
  <2>5. waiting' \in SUBSET TaskSet
    BY <1>16, <1>0, <2>0 DEF Failed, Drop, DomInv, JobOK
  <2>6. DomInv'
    BY <1>16, <1>0, <2>0, <2>3, <2>4, <2>5, SyncAssumption DEF Failed, Drop, DomInv
  <2>7. JobOK(w)'
    BY <2>0, <2>3 DEF JobOK, j, Idle, NoCopy
  <2>8. SyncedMeansRead'
    BY <1>16, <1>0, <2>4 DEF Failed, Drop, SyncedMeansRead, Grows, DomInv
  <2>9. JobInv'
    BY <1>0, <2>3, <2>4, <2>7, OthersKept DEF JobInv
  <2>. QED  BY <2>6, <2>8, <2>9 DEF BaseInv
<1>17. ASSUME NEW w \in Workers, NEW n \in Numbers, Check(w, n)  PROVE BaseInv'
  <2> DEFINE Known == <<job[w].now, n>> \in rows
  <2> DEFINE j == [job[w] EXCEPT !.at = "insert", !.number = n, !.known = Known]
  <2>0. w \in Procs /\ job[w] \in JobType /\ JobOK(w)
    BY <1>0
  <2>a. Known \in BOOLEAN
    OBVIOUS
  <2>1. Step(w, j)
    BY <1>17 DEF Check
  <2>. HIDE DEF Known
  <2>2. j \in JobType
    BY <2>0, <2>a DEF JobType, Places
  <2>. HIDE DEF j
  <2>3. /\ job' \in [Procs -> JobType] /\ job'[w] = j
        /\ \A v \in Procs \ {w} : job'[v] = job[v]
    BY <1>0, <2>0, <2>1, <2>2, Stepped DEF DomInv
  <2>4. ghost' \in GhostType /\ Grows
    BY <1>17, <1>0 DEF Check, DomInv, Grows
  <2>5. waiting' \in SUBSET TaskSet
    BY <1>17, <1>0 DEF Check, DomInv
  <2>6. DomInv'
    BY <1>17, <1>0, <2>0, <2>3, <2>4, <2>5, SyncAssumption DEF Check, DomInv
  <2>7. JobOK(w)'
    BY <1>17, <1>0, <2>0, <2>3, <2>4 DEF Check, JobOK, JobType, j, Grows, DomInv
  <2>8. SyncedMeansRead'
    BY <1>17, <1>0, <2>4 DEF Check, SyncedMeansRead, Grows, DomInv
  <2>9. JobInv'
    BY <1>0, <2>3, <2>4, <2>7, OthersKept DEF JobInv
  <2>. QED  BY <2>6, <2>8, <2>9 DEF BaseInv
<1>18. ASSUME NEW w \in Workers, Insert(w)  PROVE BaseInv'
  <2> DEFINE j == [job[w] EXCEPT
       !.at = "check", !.infos = @ \ {job[w].number}, !.number = 0, !.known = FALSE,
       !.news = IF SyncedBefore(w)
                THEN Extend(@, IF job[w].known THEN {} ELSE {<<job[w].now, job[w].number>>})
                ELSE @]
  <2>0. w \in Procs /\ job[w] \in JobType /\ JobOK(w)
    BY <1>0
  <2>a. <<job[w].now, job[w].number>> \in Rows
    BY <1>18, <2>0 DEF Insert, JobOK, Rows
  <2>1. Step(w, j)
    BY <1>18 DEF Insert
  <2>2. j \in JobType
    BY <2>0, <2>a DEF JobType, Places, Extend
  <2>. HIDE DEF j
  <2>3. /\ job' \in [Procs -> JobType] /\ job'[w] = j
        /\ \A v \in Procs \ {w} : job'[v] = job[v]
    BY <1>0, <2>0, <2>1, <2>2, Stepped DEF DomInv
  <2>4. ghost' \in GhostType /\ Grows
    BY <1>18, <1>0, <2>a DEF Insert, DomInv, GhostType, Grows
  <2>5. waiting' \in SUBSET TaskSet
    BY <1>18, <1>0 DEF Insert, DomInv
  <2>6. DomInv'
    BY <1>18, <1>0, <2>0, <2>3, <2>4, <2>5, SyncAssumption
      DEF Insert, DomInv, Rows, JobOK
  <2>7. JobOK(w)'
    BY <1>18, <1>0, <2>0, <2>3, <2>4 DEF Insert, JobOK, JobType, j, Grows, DomInv
  <2>8. SyncedMeansRead'
    BY <1>18, <1>0, <2>4 DEF Insert, SyncedMeansRead, Grows, DomInv
  <2>9. JobInv'
    BY <1>0, <2>3, <2>4, <2>7, OthersKept DEF JobInv
  <2>. QED  BY <2>6, <2>8, <2>9 DEF BaseInv
<1>19. ASSUME NEW w \in Workers, Mark(w)  PROVE BaseInv'
  <2> DEFINE j == [job[w] EXCEPT !.at = "fetching", !.now = NoProvider, !.copy[job[w].now] = NoCopy]
  <2>0. w \in Procs /\ job[w] \in JobType /\ JobOK(w)
    BY <1>0
  <2>a. job[w].at = "check" /\ job[w].now \in Providers
    BY <1>19, <2>0 DEF Mark, JobOK
  <2>1. Step(w, j)
    BY <1>19 DEF Mark
  <2>2. j \in JobType
    BY <1>0, <2>0, <2>a DEF JobType, Places
  <2>. HIDE DEF j
  <2>3. /\ job' \in [Procs -> JobType] /\ job'[w] = j
        /\ \A v \in Procs \ {w} : job'[v] = job[v]
    BY <1>0, <2>0, <2>1, <2>2, Stepped DEF DomInv
  <2>4. ghost' \in GhostType /\ Grows
    <3>1. job[w].copy[job[w].now].url \in Pages \cup {NoPage}
      BY <2>0, <2>a DEF JobType, CopyType
    <3>2. ghost' = [ghost EXCEPT !.scraped[job[w].now] = @ \cup {job[w].copy[job[w].now].url}]
      BY <1>19 DEF Mark
    <3>. QED  BY <1>0, <2>a, <3>1, <3>2 DEF DomInv, GhostType, Grows
  <2>5. waiting' \in SUBSET TaskSet
    BY <1>19, <1>0 DEF Mark, DomInv
  <2>6. DomInv'
    BY <1>19, <1>0, <2>0, <2>3, <2>4, <2>5, SyncAssumption
      DEF Mark, DomInv, JobOK, JobType, CopyType
  <2>7. JobOK(w)'
    <3>1. /\ j.at = "fetching" /\ j.todo = job[w].todo /\ j.all = job[w].all
          /\ j.copy = [job[w].copy EXCEPT ![job[w].now] = NoCopy]
          /\ j.task = job[w].task /\ j.news = job[w].news
      BY <2>0, <2>a DEF JobType, j
    <3>2. \A q \in Providers : j.copy[q] = IF q = job[w].now THEN NoCopy ELSE job[w].copy[q]
      BY <2>0, <3>1 DEF JobType
    <3>3. \A q \in Providers :
            /\ j.copy[q].url \in PagesOf[q] \cup {NoPage}
            /\ j.copy[q].synced => j.copy[q].url \in ghost'.scraped[q]
            /\ q \in j.todo => j.copy[q].url # NoPage
      BY <2>0, <2>4, <2>a, <3>1, <3>2 DEF JobOK, Grows, NoCopy
    <3>4. ~j.all => j.todo = {}
      BY <2>0, <2>a, <3>1 DEF JobOK
    <3>. QED  BY <1>0, <2>0, <2>3, <2>a, <3>1, <3>3, <3>4 DEF JobOK
  <2>8. SyncedMeansRead'
    BY <1>19, <1>0, <2>0, <2>a DEF Mark, SyncedMeansRead, DomInv, GhostType
  <2>9. JobInv'
    BY <1>0, <2>3, <2>4, <2>7, OthersKept DEF JobInv
  <2>. QED  BY <2>6, <2>8, <2>9 DEF BaseInv
<1>20. ASSUME NEW w \in Workers, Compute(w)  PROVE BaseInv'
  <2> DEFINE j == [job[w] EXCEPT !.at = "store", !.list = BestList]
  <2>0. w \in Procs /\ job[w] \in JobType /\ JobOK(w)
    BY <1>0
  <2>1. Step(w, j)
    BY <1>20 DEF Compute
  <2>2. j \in JobType
    BY <1>0, <2>0, BestListType DEF JobType, Places
  <2>. HIDE DEF j
  <2>3. /\ job' \in [Procs -> JobType] /\ job'[w] = j
        /\ \A v \in Procs \ {w} : job'[v] = job[v]
    BY <1>0, <2>0, <2>1, <2>2, Stepped DEF DomInv
  <2>4. ghost' \in GhostType /\ Grows
    BY <1>20, <1>0 DEF Compute, DomInv, Grows
  <2>5. waiting' \in SUBSET TaskSet
    BY <1>20, <1>0 DEF Compute, DomInv
  <2>6. DomInv'
    BY <1>20, <1>0, <2>0, <2>3, <2>4, <2>5, SyncAssumption DEF Compute, DomInv
  <2>7. JobOK(w)'
    BY <1>20, <1>0, <2>0, <2>3, <2>4 DEF Compute, JobOK, JobType, j, Grows, DomInv
  <2>8. SyncedMeansRead'
    BY <1>20, <1>0, <2>4 DEF Compute, SyncedMeansRead, Grows, DomInv
  <2>9. JobInv'
    BY <1>0, <2>3, <2>4, <2>7, OthersKept DEF JobInv
  <2>. QED  BY <2>6, <2>8, <2>9 DEF BaseInv
<1>21. ASSUME NEW w \in Editors, Compute(w)  PROVE BaseInv'
  <2> DEFINE j == [job[w] EXCEPT !.at = "store", !.list = BestList]
  <2>0. w \in Procs /\ job[w] \in JobType /\ JobOK(w)
    BY <1>0
  <2>1. Step(w, j)
    BY <1>21 DEF Compute
  <2>2. j \in JobType
    BY <1>0, <2>0, BestListType DEF JobType, Places
  <2>. HIDE DEF j
  <2>3. /\ job' \in [Procs -> JobType] /\ job'[w] = j
        /\ \A v \in Procs \ {w} : job'[v] = job[v]
    BY <1>0, <2>0, <2>1, <2>2, Stepped DEF DomInv
  <2>4. ghost' \in GhostType /\ Grows
    BY <1>21, <1>0 DEF Compute, DomInv, Grows
  <2>5. waiting' \in SUBSET TaskSet
    BY <1>21, <1>0 DEF Compute, DomInv
  <2>6. DomInv'
    BY <1>21, <1>0, <2>0, <2>3, <2>4, <2>5, SyncAssumption DEF Compute, DomInv
  <2>7. JobOK(w)'
    BY <1>21, <1>0, <2>0, <2>3, <2>4 DEF Compute, JobOK, JobType, j, Grows, DomInv
  <2>8. SyncedMeansRead'
    BY <1>21, <1>0, <2>4 DEF Compute, SyncedMeansRead, Grows, DomInv
  <2>9. JobInv'
    BY <1>0, <2>3, <2>4, <2>7, OthersKept DEF JobInv
  <2>. QED  BY <2>6, <2>8, <2>9 DEF BaseInv
<1>22. ASSUME NEW w \in Workers, Store(w)  PROVE BaseInv'
  <2> DEFINE j == [job[w] EXCEPT !.at = "queue", !.list = NoList]
  <2>0. w \in Procs /\ job[w] \in JobType /\ JobOK(w)
    BY <1>0
  <2>1. Step(w, j)
    BY <1>22 DEF Store
  <2>2. j \in JobType
    BY <1>0, <2>0 DEF JobType, Places, NoList, ListType
  <2>. HIDE DEF j
  <2>3. /\ job' \in [Procs -> JobType] /\ job'[w] = j
        /\ \A v \in Procs \ {w} : job'[v] = job[v]
    BY <1>0, <2>0, <2>1, <2>2, Stepped DEF DomInv
  <2>4. ghost' \in GhostType /\ Grows
    BY <1>22, <1>0 DEF Store, DomInv, GhostType, Grows
  <2>5. waiting' \in SUBSET TaskSet
    BY <1>22, <1>0 DEF Store, DomInv
  <2>6. DomInv'
    BY <1>22, <1>0, <2>0, <2>3, <2>4, <2>5, SyncAssumption, <2>0
      DEF Store, DomInv, JobType
  <2>7. JobOK(w)'
    BY <1>22, <1>0, <2>0, <2>3, <2>4 DEF Store, JobOK, JobType, j, Grows, DomInv
  <2>8. SyncedMeansRead'
    BY <1>22, <1>0, <2>4 DEF Store, SyncedMeansRead, Grows, DomInv
  <2>9. JobInv'
    BY <1>0, <2>3, <2>4, <2>7, OthersKept DEF JobInv
  <2>. QED  BY <2>6, <2>8, <2>9 DEF BaseInv
<1>23. ASSUME NEW w \in Editors, Store(w)  PROVE BaseInv'
  <2> DEFINE j == Idle
  <2>0. w \in Procs /\ job[w] \in JobType /\ JobOK(w)
    BY <1>0
  <2>1. Step(w, j)
    BY <1>23, <1>0 DEF Store
  <2>2. j \in JobType
    BY <1>0
  <2>. HIDE DEF j
  <2>3. /\ job' \in [Procs -> JobType] /\ job'[w] = j
        /\ \A v \in Procs \ {w} : job'[v] = job[v]
    BY <1>0, <2>0, <2>1, <2>2, Stepped DEF DomInv
  <2>4. ghost' \in GhostType /\ Grows
    BY <1>23, <1>0 DEF Store, DomInv, GhostType, Grows
  <2>5. waiting' \in SUBSET TaskSet
    BY <1>23, <1>0 DEF Store, DomInv
  <2>6. DomInv'
    BY <1>23, <1>0, <2>0, <2>3, <2>4, <2>5, SyncAssumption, <2>0
      DEF Store, DomInv, JobType
  <2>7. JobOK(w)'
    BY <2>0, <2>3 DEF JobOK, j, Idle, NoCopy
  <2>8. SyncedMeansRead'
    BY <1>23, <1>0, <2>4 DEF Store, SyncedMeansRead, Grows, DomInv
  <2>9. JobInv'
    BY <1>0, <2>3, <2>4, <2>7, OthersKept DEF JobInv
  <2>. QED  BY <2>6, <2>8, <2>9 DEF BaseInv
<1>24. ASSUME NEW w \in Workers, QueueNew(w)  PROVE BaseInv'
  <2> DEFINE j == Idle
  <2>0. w \in Procs /\ job[w] \in JobType /\ JobOK(w)
    BY <1>0
  <2>a. Chosen(w) \in SUBSET Rows
    BY <2>0 DEF Chosen, JobType
  <2>b. /\ queued' = queued \cup Chosen(w) \/ queued' = queued
        /\ ghost' = ghost
        /\ due' = FALSE
        /\ UNCHANGED <<site, entry, config, waiting, rows, canonical, edits>>
    BY <1>24 DEF QueueNew
  <2>1. Step(w, j)
    BY <1>24 DEF QueueNew
  <2>2. j \in JobType
    BY <1>0
  <2>. HIDE DEF j
  <2>3. /\ job' \in [Procs -> JobType] /\ job'[w] = j
        /\ \A v \in Procs \ {w} : job'[v] = job[v]
    BY <1>0, <2>0, <2>1, <2>2, Stepped DEF DomInv
  <2>4. ghost' \in GhostType /\ Grows
    BY <1>0, <2>a, <2>b DEF DomInv, GhostType, Grows
  <2>5. waiting' \in SUBSET TaskSet
    BY <1>24, <1>0 DEF QueueNew, DomInv
  <2>6. DomInv'
    BY <1>0, <2>3, <2>4, <2>5, <2>a, <2>b, SyncAssumption DEF DomInv
  <2>7. JobOK(w)'
    BY <2>0, <2>3 DEF JobOK, j, Idle, NoCopy
  <2>8. SyncedMeansRead'
    BY <1>24, <1>0, <2>4 DEF QueueNew, SyncedMeansRead, Grows, DomInv
  <2>9. JobInv'
    BY <1>0, <2>3, <2>4, <2>7, OthersKept DEF JobInv
  <2>. QED  BY <2>6, <2>8, <2>9 DEF BaseInv
<1>25. ASSUME NEW w \in Editors, NEW p \in Providers, NEW on \in BOOLEAN, SetSeries(w, p, on)
      PROVE  BaseInv'
  <2> DEFINE j == [Idle EXCEPT !.at = IF on THEN "compute" ELSE "purge", !.now = p]
  <2>0. w \in Procs /\ job[w] \in JobType /\ JobOK(w)
    BY <1>0
  <2>1. Step(w, j)
    BY <1>25 DEF SetSeries, Edit
  <2>2. j \in JobType
    BY <1>0 DEF JobType, Places
  <2>. HIDE DEF j
  <2>3. /\ job' \in [Procs -> JobType] /\ job'[w] = j
        /\ \A v \in Procs \ {w} : job'[v] = job[v]
    BY <1>0, <2>0, <2>1, <2>2, Stepped DEF DomInv
  <2>4. ghost' \in GhostType /\ Grows
    BY <1>25, <1>0 DEF SetSeries, DomInv, GhostType, Grows
  <2>5. waiting' \in SUBSET TaskSet
    BY <1>25, <1>0 DEF SetSeries, Edit, DomInv
  <2>6. DomInv'
    BY <1>25, <1>0, <2>0, <2>3, <2>4, <2>5, SyncAssumption DEF SetSeries, Edit, DomInv
  <2>7. JobOK(w)'
    <3>1. p \in ghost'.switched
      BY <1>25, <1>0 DEF SetSeries, DomInv, GhostType
    <3>. QED  BY <1>0, <2>0, <2>3, <3>1 DEF JobOK, j, Idle, NoCopy
  <2>8. SyncedMeansRead'
    BY <1>25, <1>0, <2>4 DEF SetSeries, Edit, SyncedMeansRead, Grows, DomInv
  <2>9. JobInv'
    BY <1>0, <2>3, <2>4, <2>7, OthersKept DEF JobInv
  <2>. QED  BY <2>6, <2>8, <2>9 DEF BaseInv
<1>26. ASSUME NEW w \in Editors, NEW p \in Providers, ClearSeries(w, p)
      PROVE  BaseInv'
  <2> DEFINE j == [job[w] EXCEPT !.at = "compute"]
  <2>0. w \in Procs /\ job[w] \in JobType /\ JobOK(w)
    BY <1>0
  <2>1. Step(w, j)
    BY <1>26 DEF ClearSeries, Edit, Goto
  <2>2. j \in JobType
    BY <1>0, <2>0 DEF JobType, Places
  <2>. HIDE DEF j
  <2>3. /\ job' \in [Procs -> JobType] /\ job'[w] = j
        /\ \A v \in Procs \ {w} : job'[v] = job[v]
    BY <1>0, <2>0, <2>1, <2>2, Stepped DEF DomInv
  <2>4. ghost' \in GhostType /\ Grows
    BY <1>26, <1>0 DEF ClearSeries, DomInv, GhostType, Grows
  <2>5. waiting' \in SUBSET TaskSet
    BY <1>26, <1>0 DEF ClearSeries, Edit, Goto, DomInv
  <2>6. DomInv'
    BY <1>26, <1>0, <2>0, <2>3, <2>4, <2>5, SyncAssumption
      DEF ClearSeries, Edit, Goto, DomInv
  <2>7. JobOK(w)'
    BY <1>26, <1>0, <2>0, <2>3 DEF ClearSeries, JobOK, j, Idle, NoCopy
  <2>8. SyncedMeansRead'
    BY <1>26, <1>0, <2>4 DEF ClearSeries, Edit, Goto, SyncedMeansRead, Grows, DomInv
  <2>9. JobInv'
    BY <1>0, <2>3, <2>4, <2>7, OthersKept DEF JobInv
  <2>. QED  BY <2>6, <2>8, <2>9 DEF BaseInv
<1>27. ASSUME NEW w \in Editors, NEW p \in Providers, NEW on \in BOOLEAN, SetGlobal(w, p, on)
      PROVE  BaseInv'
  <2> DEFINE j == [job[w] EXCEPT !.at = "compute"]
  <2>0. w \in Procs /\ job[w] \in JobType /\ JobOK(w)
    BY <1>0
  <2>1. Step(w, j)
    BY <1>27 DEF SetGlobal, Edit, Goto
  <2>2. j \in JobType
    BY <1>0, <2>0 DEF JobType, Places
  <2>. HIDE DEF j
  <2>3. /\ job' \in [Procs -> JobType] /\ job'[w] = j
        /\ \A v \in Procs \ {w} : job'[v] = job[v]
    BY <1>0, <2>0, <2>1, <2>2, Stepped DEF DomInv
  <2>4. ghost' \in GhostType /\ Grows
    BY <1>27, <1>0 DEF SetGlobal, DomInv, GhostType, Grows
  <2>5. waiting' \in SUBSET TaskSet
    BY <1>27, <1>0 DEF SetGlobal, Edit, Goto, DomInv
  <2>6. DomInv'
    BY <1>27, <1>0, <2>0, <2>3, <2>4, <2>5, SyncAssumption
      DEF SetGlobal, Edit, Goto, DomInv
  <2>7. JobOK(w)'
    BY <1>27, <1>0, <2>0, <2>3 DEF SetGlobal, JobOK, j, Idle, NoCopy
  <2>8. SyncedMeansRead'
    BY <1>27, <1>0, <2>4 DEF SetGlobal, Edit, Goto, SyncedMeansRead, Grows, DomInv
  <2>9. JobInv'
    BY <1>0, <2>3, <2>4, <2>7, OthersKept DEF JobInv
  <2>. QED  BY <2>6, <2>8, <2>9 DEF BaseInv
<1>28. ASSUME NEW w \in Editors, Purge(w)  PROVE BaseInv'
  <2> DEFINE j == [job[w] EXCEPT !.at = "compute"]
  <2>0. w \in Procs /\ job[w] \in JobType /\ JobOK(w)
    BY <1>0
  <2>1. Step(w, j)
    BY <1>28 DEF Purge, Goto
  <2>2. j \in JobType
    BY <1>0, <2>0 DEF JobType, Places
  <2>. HIDE DEF j
  <2>3. /\ job' \in [Procs -> JobType] /\ job'[w] = j
        /\ \A v \in Procs \ {w} : job'[v] = job[v]
    BY <1>0, <2>0, <2>1, <2>2, Stepped DEF DomInv
  <2>4. ghost' \in GhostType /\ Grows
    BY <1>28, <1>0 DEF Purge, Goto, DomInv, Grows
  <2>5. waiting' \in SUBSET TaskSet
    BY <1>28, <1>0 DEF Purge, Goto, DomInv
  <2>6. DomInv'
    BY <1>28, <1>0, <2>0, <2>3, <2>4, <2>5, SyncAssumption DEF Purge, Goto, DomInv
  <2>7. JobOK(w)'
    BY <1>28, <1>0, <2>0, <2>3, <2>4 DEF Purge, Goto, JobOK, JobType, j, Grows, DomInv
  <2>8. SyncedMeansRead'
    BY <1>28, <1>0, <2>4 DEF Purge, Goto, SyncedMeansRead, Grows, DomInv
  <2>9. JobInv'
    BY <1>0, <2>3, <2>4, <2>7, OthersKept DEF JobInv
  <2>. QED  BY <2>6, <2>8, <2>9 DEF BaseInv
<1>29. ASSUME Restart  PROVE BaseInv'
  <2>1. \A w \in Procs : job'[w] = Idle
    BY <1>29 DEF Restart
  <2>2. job' \in [Procs -> JobType]
    BY <1>29, <1>0 DEF Restart
  <2>3. ghost' \in GhostType /\ Grows
    <3>1. {r[2] : r \in UNION {job[w].news : w \in Workers}} \in SUBSET Numbers
      <4>1. \A w \in Workers : job[w].news \in SUBSET Rows
        BY <1>0 DEF JobType
      <4>. QED  BY <4>1 DEF Rows
    <3>. QED  BY <1>29, <1>0, <3>1 DEF Restart, DomInv, GhostType, Grows
  <2>4. waiting' \in SUBSET TaskSet
    <3>1. \A w \in Workers : job[w].task \in TaskSet \cup {NoTask}
      BY <1>0 DEF JobType
    <3>2. PICK V \in SUBSET {p \in Providers : Found(p)} :
             waiting' = ((waiting \cup {job[w].task : w \in Workers}) \ {NoTask})
                          \cup {Task("one", p, TRUE) : p \in V}
      BY <1>29 DEF Restart
    <3>3. {Task("one", p, TRUE) : p \in V} \subseteq TaskSet
      BY TasksAreTasks
    <3>. QED  BY <1>0, <3>1, <3>2, <3>3 DEF DomInv
  <2>a. /\ UNCHANGED <<site, entry, config, due, list>>
        /\ edits < MaxEdits /\ edits' = edits + 1
    BY <1>29 DEF Restart, Edit
  <2>5. DomInv'
    BY <1>0, <2>2, <2>3, <2>4, <2>a, SyncAssumption DEF DomInv
  <2>6. JobInv'
    <3>1. ASSUME NEW w \in Procs  PROVE JobOK(w)'
      BY <2>1 DEF Idle, JobOK, NoCopy
    <3>. QED  BY <3>1 DEF JobInv
  <2>7. SyncedMeansRead'
    BY <1>29, <1>0, <2>3 DEF Restart, SyncedMeansRead, Grows
  <2>. QED  BY <2>5, <2>6, <2>7 DEF BaseInv
<1>. QED
  BY <1>1, <1>2, <1>3, <1>4, <1>5, <1>6, <1>7, <1>8, <1>9, <1>10, <1>11,
     <1>12, <1>13, <1>14, <1>15, <1>16, <1>17, <1>18, <1>19, <1>20, <1>21,
     <1>22, <1>23, <1>24, <1>25, <1>26, <1>27, <1>28, <1>29
    DEF Next, WorkerStep, EditorStep, Request

-----------------------------------------------------------------------------
(* What the ghosts and the queue have recorded stays, and so do the rows   *)
(* but those of a provider that was switched, ...                          *)
Accumulates ==
  /\ ghost.switched \subseteq ghost'.switched
  /\ ghost.fresh    \subseteq ghost'.fresh
  /\ ghost.excused  \subseteq ghost'.excused
  /\ queued \subseteq queued'
  /\ \A r \in rows : r \in rows' \/ r[1] \in ghost.switched

LEMMA NothingIsForgotten == BaseInv /\ [Next]_vars => Accumulates
<1> SUFFICES ASSUME BaseInv, [Next]_vars  PROVE Accumulates
  OBVIOUS
<1>. USE DEF site, entry, config, sched, list
<1>0. /\ ghost \in GhostType
      /\ \A w \in Workers : w \in Procs
      /\ \A w \in Editors : w \in Procs
      /\ \A w \in Procs : JobOK(w)
  BY DEF BaseInv, DomInv, JobInv, Procs
<1>1. ASSUME NEW u \in Pages, NEW n \in Numbers, Post(u, n)  PROVE Accumulates
  BY <1>1, <1>0 DEF Post, Accumulates, GhostType
<1>2. ASSUME BecomeDue  PROVE Accumulates
  BY <1>2, <1>0 DEF BecomeDue, Accumulates, GhostType
<1>3. ASSUME NEW p \in Providers, Tick(p)  PROVE Accumulates
  BY <1>3, <1>0 DEF Tick, Accumulates, GhostType
<1>4. ASSUME NEW p \in Providers, NEW u \in PagesOf[p] \cup {NoPage}, SetUrl(p, u)
      PROVE  Accumulates
  BY <1>4, <1>0 DEF SetUrl, Accumulates, GhostType
<1>5. ASSUME SetMonitored  PROVE Accumulates
  BY <1>5, <1>0 DEF SetMonitored, Accumulates, GhostType
<1>6. ASSUME NEW t \in TaskSet, Ask(t)  PROVE Accumulates
  BY <1>6, <1>0 DEF Ask, Accumulates, GhostType
<1>7. ASSUME UNCHANGED vars  PROVE Accumulates
  BY <1>7, <1>0 DEF vars, Accumulates, GhostType
<1>8. ASSUME NEW w \in Workers, NEW t \in TaskSet, Claim(w, t)  PROVE Accumulates
  BY <1>8, <1>0 DEF Claim, Step, Accumulates, GhostType
<1>9. ASSUME NEW w \in Workers, SearchRead(w)  PROVE Accumulates
  BY <1>9, <1>0 DEF SearchRead, Step, Accumulates, GhostType
<1>10. ASSUME NEW w \in Workers, NEW p \in Providers, SearchAnswer(w, p)
      PROVE  Accumulates
  BY <1>10, <1>0 DEF SearchAnswer, Step, Accumulates, GhostType
<1>11. ASSUME NEW w \in Workers, Spread(w)  PROVE Accumulates
  BY <1>11, <1>0 DEF Spread, Step, Accumulates, GhostType
<1>12. ASSUME NEW w \in Workers, SyncRead(w)  PROVE Accumulates
  BY <1>12, <1>0 DEF SyncRead, Step, Accumulates, GhostType
<1>13. ASSUME NEW w \in Workers, SyncRefuse(w)  PROVE Accumulates
  BY <1>13, <1>0 DEF SyncRefuse, Drop, Step, Accumulates, GhostType
<1>14. ASSUME NEW w \in Workers, NEW p \in Providers, Answer(w, p)
      PROVE  Accumulates
  BY <1>14, <1>0 DEF Answer, Step, Accumulates, GhostType
<1>15. ASSUME NEW w \in Workers, NEW p \in Providers, Failed(w, p)
      PROVE  Accumulates
  BY <1>15, <1>0 DEF Failed, Drop, Step, Accumulates, GhostType
<1>16. ASSUME NEW w \in Workers, NEW n \in Numbers, Check(w, n)  PROVE Accumulates
  BY <1>16, <1>0 DEF Check, Step, Accumulates, GhostType
<1>17. ASSUME NEW w \in Workers, Insert(w)  PROVE Accumulates
  BY <1>17, <1>0 DEF Insert, Step, Accumulates, GhostType
<1>18. ASSUME NEW w \in Workers, Mark(w)  PROVE Accumulates
  BY <1>18, <1>0 DEF Mark, Step, Accumulates, GhostType
<1>19. ASSUME NEW w \in Procs, Compute(w)  PROVE Accumulates
  BY <1>19, <1>0 DEF Compute, Step, Accumulates, GhostType
<1>20. ASSUME NEW w \in Procs, Store(w)  PROVE Accumulates
  BY <1>20, <1>0 DEF Store, Step, Accumulates, GhostType
<1>21. ASSUME NEW w \in Workers, QueueNew(w)  PROVE Accumulates
  BY <1>21, <1>0 DEF QueueNew, Step, Accumulates, GhostType
<1>22. ASSUME NEW w \in Editors, NEW p \in Providers, NEW on \in BOOLEAN, SetSeries(w, p, on)
      PROVE  Accumulates
  BY <1>22, <1>0 DEF SetSeries, Step, Accumulates, GhostType
<1>23. ASSUME NEW w \in Editors, NEW p \in Providers, ClearSeries(w, p)
      PROVE  Accumulates
  BY <1>23, <1>0 DEF ClearSeries, Goto, Step, Accumulates, GhostType
<1>24. ASSUME NEW w \in Editors, NEW p \in Providers, NEW on \in BOOLEAN, SetGlobal(w, p, on)
      PROVE  Accumulates
  BY <1>24, <1>0 DEF SetGlobal, Goto, Step, Accumulates, GhostType
<1>25. ASSUME NEW w \in Editors, Purge(w)  PROVE Accumulates
  <2>1. job[w].now \in ghost.switched
    BY <1>25, <1>0 DEF Purge, JobOK
  <2>. QED  BY <1>25, <1>0, <2>1 DEF Purge, Goto, Step, Accumulates, GhostType
<1>26. ASSUME Restart  PROVE Accumulates
  BY <1>26, <1>0 DEF Restart, Accumulates, GhostType
<1>. QED
  BY <1>0, <1>1, <1>2, <1>3, <1>4, <1>5, <1>6, <1>7, <1>8, <1>9, <1>10,
     <1>11, <1>12, <1>13, <1>14, <1>15, <1>16, <1>17, <1>18, <1>19, <1>20,
     <1>21, <1>22, <1>23, <1>24, <1>25, <1>26
  DEF Next, WorkerStep, EditorStep, Request

(* ... and nobody but an insert adds to what a sync calls new.             *)
NewsKept == \A v \in Procs : job'[v].news \subseteq job[v].news

LEMMA NewsComeFromInserts ==
  BaseInv /\ [Next]_vars => NewsKept \/ \E w \in Workers : Insert(w)
<1> SUFFICES ASSUME BaseInv, [Next]_vars  PROVE NewsKept \/ \E w \in Workers : Insert(w)
  OBVIOUS
<1>. USE DEF site, entry, config, sched, list
<1>0. /\ job \in [Procs -> JobType] /\ \A w \in Procs : job[w] \in JobType
      /\ \A w \in Workers : w \in Procs
      /\ \A w \in Editors : w \in Procs
      /\ Idle.news = {}
  BY DEF BaseInv, DomInv, Procs, Idle
<1>1. ASSUME NEW u \in Pages, NEW n \in Numbers, Post(u, n)
      PROVE  NewsKept \/ \E v \in Workers : Insert(v)
  BY <1>1, <1>0 DEF Post, NewsKept, JobType
<1>2. ASSUME BecomeDue  PROVE NewsKept \/ \E v \in Workers : Insert(v)
  BY <1>2, <1>0 DEF BecomeDue, NewsKept, JobType
<1>3. ASSUME NEW p \in Providers, Tick(p)
      PROVE  NewsKept \/ \E v \in Workers : Insert(v)
  BY <1>3, <1>0 DEF Tick, NewsKept, JobType
<1>4. ASSUME NEW p \in Providers, NEW u \in PagesOf[p] \cup {NoPage}, SetUrl(p, u)
      PROVE  NewsKept \/ \E v \in Workers : Insert(v)
  BY <1>4, <1>0 DEF SetUrl, NewsKept, JobType
<1>5. ASSUME SetMonitored  PROVE NewsKept \/ \E v \in Workers : Insert(v)
  BY <1>5, <1>0 DEF SetMonitored, NewsKept, JobType
<1>6. ASSUME NEW t \in TaskSet, Ask(t)
      PROVE  NewsKept \/ \E v \in Workers : Insert(v)
  BY <1>6, <1>0 DEF Ask, NewsKept, JobType
<1>7. ASSUME UNCHANGED vars  PROVE NewsKept \/ \E v \in Workers : Insert(v)
  BY <1>7, <1>0 DEF vars, NewsKept, JobType
<1>8. ASSUME NEW w \in Workers, NEW t \in TaskSet, Claim(w, t)
      PROVE  NewsKept \/ \E v \in Workers : Insert(v)
  BY <1>8, <1>0 DEF Claim, Step, NewsKept, JobType
<1>9. ASSUME NEW w \in Workers, SearchRead(w)
      PROVE  NewsKept \/ \E v \in Workers : Insert(v)
  BY <1>9, <1>0 DEF SearchRead, Step, NewsKept, JobType
<1>10. ASSUME NEW w \in Workers, NEW p \in Providers, SearchAnswer(w, p)
      PROVE  NewsKept \/ \E v \in Workers : Insert(v)
  BY <1>10, <1>0 DEF SearchAnswer, Step, NewsKept, JobType
<1>11. ASSUME NEW w \in Workers, Spread(w)
      PROVE  NewsKept \/ \E v \in Workers : Insert(v)
  BY <1>11, <1>0 DEF Spread, Step, NewsKept, JobType
<1>12. ASSUME NEW w \in Workers, SyncRead(w)
      PROVE  NewsKept \/ \E v \in Workers : Insert(v)
  BY <1>12, <1>0 DEF SyncRead, Step, NewsKept, JobType
<1>13. ASSUME NEW w \in Workers, SyncRefuse(w)
      PROVE  NewsKept \/ \E v \in Workers : Insert(v)
  BY <1>13, <1>0 DEF SyncRefuse, Drop, Step, NewsKept, JobType
<1>14. ASSUME NEW w \in Workers, NEW p \in Providers, Answer(w, p)
      PROVE  NewsKept \/ \E v \in Workers : Insert(v)
  BY <1>14, <1>0 DEF Answer, Step, NewsKept, JobType
<1>15. ASSUME NEW w \in Workers, NEW p \in Providers, Failed(w, p)
      PROVE  NewsKept \/ \E v \in Workers : Insert(v)
  <2> DEFINE j == [job[w] EXCEPT !.todo = @ \ {p}, !.copy[p] = NoCopy,
                                 !.task = Progress(w, p)]
  <2>1. job' = [job EXCEPT ![w] = Idle] \/ job' = [job EXCEPT ![w] = j]
    BY <1>15 DEF Failed, Drop, Step
  <2>2. j.news = job[w].news
    BY <1>0 DEF JobType
  <2>. HIDE DEF j
  <2>. QED  BY <2>1, <2>2, <1>0 DEF NewsKept
<1>16. ASSUME NEW w \in Workers, NEW n \in Numbers, Check(w, n)
      PROVE  NewsKept \/ \E v \in Workers : Insert(v)
  BY <1>16, <1>0 DEF Check, Step, NewsKept, JobType
<1>17. ASSUME NEW w \in Workers, Insert(w)
      PROVE  NewsKept \/ \E v \in Workers : Insert(v)
  BY <1>17
<1>18. ASSUME NEW w \in Workers, Mark(w)
      PROVE  NewsKept \/ \E v \in Workers : Insert(v)
  BY <1>18, <1>0 DEF Mark, Step, NewsKept, JobType
<1>19. ASSUME NEW w \in Procs, Compute(w)
      PROVE  NewsKept \/ \E v \in Workers : Insert(v)
  BY <1>19, <1>0 DEF Compute, Step, NewsKept, JobType
<1>20. ASSUME NEW w \in Procs, Store(w)
      PROVE  NewsKept \/ \E v \in Workers : Insert(v)
  BY <1>20, <1>0 DEF Store, Step, NewsKept, JobType
<1>21. ASSUME NEW w \in Workers, QueueNew(w)
      PROVE  NewsKept \/ \E v \in Workers : Insert(v)
  BY <1>21, <1>0 DEF QueueNew, Step, NewsKept, JobType
<1>22. ASSUME NEW w \in Editors, NEW p \in Providers, NEW on \in BOOLEAN, SetSeries(w, p, on)
      PROVE  NewsKept \/ \E v \in Workers : Insert(v)
  BY <1>22, <1>0 DEF SetSeries, Step, NewsKept, JobType
<1>23. ASSUME NEW w \in Editors, NEW p \in Providers, ClearSeries(w, p)
      PROVE  NewsKept \/ \E v \in Workers : Insert(v)
  BY <1>23, <1>0 DEF ClearSeries, Goto, Step, NewsKept, JobType
<1>24. ASSUME NEW w \in Editors, NEW p \in Providers, NEW on \in BOOLEAN, SetGlobal(w, p, on)
      PROVE  NewsKept \/ \E v \in Workers : Insert(v)
  BY <1>24, <1>0 DEF SetGlobal, Goto, Step, NewsKept, JobType
<1>25. ASSUME NEW w \in Editors, Purge(w)
      PROVE  NewsKept \/ \E v \in Workers : Insert(v)
  BY <1>25, <1>0 DEF Purge, Goto, Step, NewsKept, JobType
<1>26. ASSUME Restart  PROVE NewsKept \/ \E v \in Workers : Insert(v)
  BY <1>26, <1>0 DEF Restart, NewsKept, JobType
<1>. QED
  BY <1>0, <1>1, <1>2, <1>3, <1>4, <1>5, <1>6, <1>7, <1>8, <1>9, <1>10,
     <1>11, <1>12, <1>13, <1>14, <1>15, <1>16, <1>17, <1>18, <1>19, <1>20,
     <1>21, <1>22, <1>23, <1>24, <1>25, <1>26
  DEF Next, WorkerStep, EditorStep, Request

-----------------------------------------------------------------------------
(* What was brought or queued is still there, unless its provider was      *)
(* switched; the backlog of a page is nobody's news; a provider that was   *)
(* never switched is enabled.                                              *)
Standing(r) == r \in rows \/ r[1] \in ghost.switched
Backlog(r)  == r \in ghost.backlist => r[1] \in ghost.switched

RowInv ==
  /\ \A r \in ghost.backlist \cup ghost.fresh \cup queued : Standing(r)
  /\ \A w \in Procs : \A r \in job[w].news : Standing(r) /\ Backlog(r)
  /\ \A p \in Providers \ ghost.switched : Enabled(p)
  /\ NoMassDownload

LEMMA RowInit == Init => RowInv
<1> SUFFICES ASSUME Init  PROVE RowInv
  OBVIOUS
<1>1. \A w \in Procs : job[w].news = {}
  BY DEF Init, Idle
<1>. QED  BY <1>1 DEF Init, RowInv, Enabled, NoMassDownload

LEMMA RowKept ==
  ASSUME RowInv, Accumulates, NewsKept,
         \A r \in rows : r \in rows' \/ r[1] \in ghost'.switched,
         ghost'.backlist = ghost.backlist, ghost'.fresh = ghost.fresh, queued' = queued,
         \A p \in Providers \ ghost'.switched : Enabled(p) => Enabled(p)'
  PROVE  RowInv'
<1>1. \A r : Standing(r) => Standing(r)'
  BY DEF Standing, Accumulates
<1>2. \A r : Backlog(r) => Backlog(r)'
  BY DEF Backlog, Accumulates
<1>3. NoMassDownload'
  BY DEF RowInv, NoMassDownload, Accumulates
<1>4. \A w \in Procs : \A r \in job'[w].news : r \in job[w].news
  BY DEF NewsKept
<1>5. \A p \in Providers \ ghost'.switched : Enabled(p)'
  BY DEF RowInv, Accumulates
<1>. QED  BY <1>1, <1>2, <1>3, <1>4, <1>5 DEF RowInv

LEMMA RowNext == BaseInv /\ RowInv /\ [Next]_vars => RowInv'
<1> SUFFICES ASSUME BaseInv, RowInv, [Next]_vars  PROVE RowInv'
  OBVIOUS
<1>. USE DEF site, entry, config, sched, list
<1>0. /\ ghost \in GhostType /\ rows \in SUBSET Rows
      /\ off \in [Providers -> BOOLEAN] /\ override \in [Providers -> {"on", "off", "none"}]
      /\ job \in [Procs -> JobType]
      /\ \A w \in Procs : job[w] \in JobType /\ JobOK(w)
      /\ \A w \in Workers : w \in Procs
      /\ \A w \in Editors : w \in Procs
      /\ Accumulates
      /\ NewsKept \/ \E w \in Workers : Insert(w)
  BY NothingIsForgotten, NewsComeFromInserts DEF BaseInv, DomInv, JobInv, Procs
<1>1. ASSUME NEW u \in Pages, NEW n \in Numbers, Post(u, n), NewsKept
      PROVE  RowInv'
  <2>1. /\ ghost'.backlist = ghost.backlist /\ ghost'.fresh = ghost.fresh
        /\ ghost'.switched = ghost.switched
    BY <1>1, <1>0 DEF Post, GhostType
  <2>2. \A r \in rows : r \in rows' \/ r[1] \in ghost.switched
    BY <1>1, <1>0 DEF Post, JobOK
  <2>3. queued' = queued /\ UNCHANGED <<override, off>>
    BY <1>1 DEF Post
  <2>4. \A q \in Providers : Enabled(q) => Enabled(q)'
    BY <2>3 DEF Enabled
  <2>. QED  BY <1>1, <1>0, <2>1, <2>2, <2>3, <2>4, RowKept
<1>2. ASSUME BecomeDue, NewsKept  PROVE RowInv'
  <2>1. /\ ghost'.backlist = ghost.backlist /\ ghost'.fresh = ghost.fresh
        /\ ghost'.switched = ghost.switched
    BY <1>2, <1>0 DEF BecomeDue, GhostType
  <2>2. \A r \in rows : r \in rows' \/ r[1] \in ghost.switched
    BY <1>2, <1>0 DEF BecomeDue, JobOK
  <2>3. queued' = queued /\ UNCHANGED <<override, off>>
    BY <1>2 DEF BecomeDue
  <2>4. \A q \in Providers : Enabled(q) => Enabled(q)'
    BY <2>3 DEF Enabled
  <2>. QED  BY <1>2, <1>0, <2>1, <2>2, <2>3, <2>4, RowKept
<1>3. ASSUME NEW p \in Providers, Tick(p), NewsKept  PROVE RowInv'
  <2>1. /\ ghost'.backlist = ghost.backlist /\ ghost'.fresh = ghost.fresh
        /\ ghost'.switched = ghost.switched
    BY <1>3, <1>0 DEF Tick, GhostType
  <2>2. \A r \in rows : r \in rows' \/ r[1] \in ghost.switched
    BY <1>3, <1>0 DEF Tick, JobOK
  <2>3. queued' = queued /\ UNCHANGED <<override, off>>
    BY <1>3 DEF Tick
  <2>4. \A q \in Providers : Enabled(q) => Enabled(q)'
    BY <2>3 DEF Enabled
  <2>. QED  BY <1>3, <1>0, <2>1, <2>2, <2>3, <2>4, RowKept
<1>4. ASSUME NEW p \in Providers, NEW u \in PagesOf[p] \cup {NoPage}, SetUrl(p, u), NewsKept
      PROVE  RowInv'
  <2>1. /\ ghost'.backlist = ghost.backlist /\ ghost'.fresh = ghost.fresh
        /\ ghost'.switched = ghost.switched
    BY <1>4, <1>0 DEF SetUrl, GhostType
  <2>2. \A r \in rows : r \in rows' \/ r[1] \in ghost.switched
    BY <1>4, <1>0 DEF SetUrl, JobOK
  <2>3. queued' = queued /\ UNCHANGED <<override, off>>
    BY <1>4 DEF SetUrl
  <2>4. \A q \in Providers : Enabled(q) => Enabled(q)'
    BY <2>3 DEF Enabled
  <2>. QED  BY <1>4, <1>0, <2>1, <2>2, <2>3, <2>4, RowKept
<1>5. ASSUME SetMonitored, NewsKept  PROVE RowInv'
  <2>1. /\ ghost'.backlist = ghost.backlist /\ ghost'.fresh = ghost.fresh
        /\ ghost'.switched = ghost.switched
    BY <1>5, <1>0 DEF SetMonitored, GhostType
  <2>2. \A r \in rows : r \in rows' \/ r[1] \in ghost.switched
    BY <1>5, <1>0 DEF SetMonitored, JobOK
  <2>3. queued' = queued /\ UNCHANGED <<override, off>>
    BY <1>5 DEF SetMonitored
  <2>4. \A q \in Providers : Enabled(q) => Enabled(q)'
    BY <2>3 DEF Enabled
  <2>. QED  BY <1>5, <1>0, <2>1, <2>2, <2>3, <2>4, RowKept
<1>6. ASSUME NEW t \in TaskSet, Ask(t), NewsKept  PROVE RowInv'
  <2>1. /\ ghost'.backlist = ghost.backlist /\ ghost'.fresh = ghost.fresh
        /\ ghost'.switched = ghost.switched
    BY <1>6, <1>0 DEF Ask, GhostType
  <2>2. \A r \in rows : r \in rows' \/ r[1] \in ghost.switched
    BY <1>6, <1>0 DEF Ask, JobOK
  <2>3. queued' = queued /\ UNCHANGED <<override, off>>
    BY <1>6 DEF Ask
  <2>4. \A q \in Providers : Enabled(q) => Enabled(q)'
    BY <2>3 DEF Enabled
  <2>. QED  BY <1>6, <1>0, <2>1, <2>2, <2>3, <2>4, RowKept
<1>7. ASSUME UNCHANGED vars, NewsKept  PROVE RowInv'
  <2>1. /\ ghost'.backlist = ghost.backlist /\ ghost'.fresh = ghost.fresh
        /\ ghost'.switched = ghost.switched
    BY <1>7, <1>0 DEF vars, GhostType
  <2>2. \A r \in rows : r \in rows' \/ r[1] \in ghost.switched
    BY <1>7, <1>0 DEF vars, JobOK
  <2>3. queued' = queued /\ UNCHANGED <<override, off>>
    BY <1>7 DEF vars
  <2>4. \A q \in Providers : Enabled(q) => Enabled(q)'
    BY <2>3 DEF Enabled
  <2>. QED  BY <1>7, <1>0, <2>1, <2>2, <2>3, <2>4, RowKept
<1>8. ASSUME NEW w \in Workers, NEW t \in TaskSet, Claim(w, t), NewsKept
      PROVE  RowInv'
  <2>1. /\ ghost'.backlist = ghost.backlist /\ ghost'.fresh = ghost.fresh
        /\ ghost'.switched = ghost.switched
    BY <1>8, <1>0 DEF Claim, Step, GhostType
  <2>2. \A r \in rows : r \in rows' \/ r[1] \in ghost.switched
    BY <1>8, <1>0 DEF Claim, Step, JobOK
  <2>3. queued' = queued /\ UNCHANGED <<override, off>>
    BY <1>8 DEF Claim, Step
  <2>4. \A q \in Providers : Enabled(q) => Enabled(q)'
    BY <2>3 DEF Enabled
  <2>. QED  BY <1>8, <1>0, <2>1, <2>2, <2>3, <2>4, RowKept
<1>9. ASSUME NEW w \in Workers, SearchRead(w), NewsKept  PROVE RowInv'
  <2>1. /\ ghost'.backlist = ghost.backlist /\ ghost'.fresh = ghost.fresh
        /\ ghost'.switched = ghost.switched
    BY <1>9, <1>0 DEF SearchRead, Step, GhostType
  <2>2. \A r \in rows : r \in rows' \/ r[1] \in ghost.switched
    BY <1>9, <1>0 DEF SearchRead, Step, JobOK
  <2>3. queued' = queued /\ UNCHANGED <<override, off>>
    BY <1>9 DEF SearchRead, Step
  <2>4. \A q \in Providers : Enabled(q) => Enabled(q)'
    BY <2>3 DEF Enabled
  <2>. QED  BY <1>9, <1>0, <2>1, <2>2, <2>3, <2>4, RowKept
<1>10. ASSUME NEW w \in Workers, NEW p \in Providers, SearchAnswer(w, p), NewsKept
      PROVE  RowInv'
  <2>1. /\ ghost'.backlist = ghost.backlist /\ ghost'.fresh = ghost.fresh
        /\ ghost'.switched = ghost.switched
    BY <1>10, <1>0 DEF SearchAnswer, Step, GhostType
  <2>2. \A r \in rows : r \in rows' \/ r[1] \in ghost.switched
    BY <1>10, <1>0 DEF SearchAnswer, Step, JobOK
  <2>3. queued' = queued /\ UNCHANGED <<override, off>>
    BY <1>10 DEF SearchAnswer, Step
  <2>4. \A q \in Providers : Enabled(q) => Enabled(q)'
    BY <2>3 DEF Enabled
  <2>. QED  BY <1>10, <1>0, <2>1, <2>2, <2>3, <2>4, RowKept
<1>11. ASSUME NEW w \in Workers, Spread(w), NewsKept  PROVE RowInv'
  <2>1. /\ ghost'.backlist = ghost.backlist /\ ghost'.fresh = ghost.fresh
        /\ ghost'.switched = ghost.switched
    BY <1>11, <1>0 DEF Spread, Step, GhostType
  <2>2. \A r \in rows : r \in rows' \/ r[1] \in ghost.switched
    BY <1>11, <1>0 DEF Spread, Step, JobOK
  <2>3. queued' = queued /\ UNCHANGED <<override, off>>
    BY <1>11 DEF Spread, Step
  <2>4. \A q \in Providers : Enabled(q) => Enabled(q)'
    BY <2>3 DEF Enabled
  <2>. QED  BY <1>11, <1>0, <2>1, <2>2, <2>3, <2>4, RowKept
<1>12. ASSUME NEW w \in Workers, SyncRead(w), NewsKept  PROVE RowInv'
  <2>1. /\ ghost'.backlist = ghost.backlist /\ ghost'.fresh = ghost.fresh
        /\ ghost'.switched = ghost.switched
    BY <1>12, <1>0 DEF SyncRead, Step, GhostType
  <2>2. \A r \in rows : r \in rows' \/ r[1] \in ghost.switched
    BY <1>12, <1>0 DEF SyncRead, Step, JobOK
  <2>3. queued' = queued /\ UNCHANGED <<override, off>>
    BY <1>12 DEF SyncRead, Step
  <2>4. \A q \in Providers : Enabled(q) => Enabled(q)'
    BY <2>3 DEF Enabled
  <2>. QED  BY <1>12, <1>0, <2>1, <2>2, <2>3, <2>4, RowKept
<1>13. ASSUME NEW w \in Workers, SyncRefuse(w), NewsKept  PROVE RowInv'
  <2>1. /\ ghost'.backlist = ghost.backlist /\ ghost'.fresh = ghost.fresh
        /\ ghost'.switched = ghost.switched
    BY <1>13, <1>0 DEF SyncRefuse, Drop, Step, GhostType
  <2>2. \A r \in rows : r \in rows' \/ r[1] \in ghost.switched
    BY <1>13, <1>0 DEF SyncRefuse, Drop, Step, JobOK
  <2>3. queued' = queued /\ UNCHANGED <<override, off>>
    BY <1>13 DEF SyncRefuse, Drop, Step
  <2>4. \A q \in Providers : Enabled(q) => Enabled(q)'
    BY <2>3 DEF Enabled
  <2>. QED  BY <1>13, <1>0, <2>1, <2>2, <2>3, <2>4, RowKept
<1>14. ASSUME NEW w \in Workers, NEW p \in Providers, Answer(w, p), NewsKept
      PROVE  RowInv'
  <2>1. /\ ghost'.backlist = ghost.backlist /\ ghost'.fresh = ghost.fresh
        /\ ghost'.switched = ghost.switched
    BY <1>14, <1>0 DEF Answer, Step, GhostType
  <2>2. \A r \in rows : r \in rows' \/ r[1] \in ghost.switched
    BY <1>14, <1>0 DEF Answer, Step, JobOK
  <2>3. queued' = queued /\ UNCHANGED <<override, off>>
    BY <1>14 DEF Answer, Step
  <2>4. \A q \in Providers : Enabled(q) => Enabled(q)'
    BY <2>3 DEF Enabled
  <2>. QED  BY <1>14, <1>0, <2>1, <2>2, <2>3, <2>4, RowKept
<1>15. ASSUME NEW w \in Workers, NEW p \in Providers, Failed(w, p), NewsKept
      PROVE  RowInv'
  <2>1. /\ ghost'.backlist = ghost.backlist /\ ghost'.fresh = ghost.fresh
        /\ ghost'.switched = ghost.switched
    BY <1>15, <1>0 DEF Failed, Drop, Step, GhostType
  <2>2. \A r \in rows : r \in rows' \/ r[1] \in ghost.switched
    BY <1>15, <1>0 DEF Failed, Drop, Step, JobOK
  <2>3. queued' = queued /\ UNCHANGED <<override, off>>
    BY <1>15 DEF Failed, Drop, Step
  <2>4. \A q \in Providers : Enabled(q) => Enabled(q)'
    BY <2>3 DEF Enabled
  <2>. QED  BY <1>15, <1>0, <2>1, <2>2, <2>3, <2>4, RowKept
<1>16. ASSUME NEW w \in Workers, NEW n \in Numbers, Check(w, n), NewsKept
      PROVE  RowInv'
  <2>1. /\ ghost'.backlist = ghost.backlist /\ ghost'.fresh = ghost.fresh
        /\ ghost'.switched = ghost.switched
    BY <1>16, <1>0 DEF Check, Step, GhostType
  <2>2. \A r \in rows : r \in rows' \/ r[1] \in ghost.switched
    BY <1>16, <1>0 DEF Check, Step, JobOK
  <2>3. queued' = queued /\ UNCHANGED <<override, off>>
    BY <1>16 DEF Check, Step
  <2>4. \A q \in Providers : Enabled(q) => Enabled(q)'
    BY <2>3 DEF Enabled
  <2>. QED  BY <1>16, <1>0, <2>1, <2>2, <2>3, <2>4, RowKept
<1>17. ASSUME NEW w \in Workers, Insert(w)  PROVE RowInv'
  <2>0. PICK r \in Rows : r = <<job[w].now, job[w].number>>
    BY <1>17, <1>0 DEF Insert, JobOK, Rows
  <2> DEFINE new == IF job[w].known THEN {} ELSE {r}
             old == job[w].news
  <2>1. SyncedBefore(w) => job[w].copy[job[w].now].url \in ghost.scraped[job[w].now]
    BY <1>17, <1>0 DEF Insert, JobOK, SyncedBefore
  <2>2. /\ rows' = rows \cup {r} /\ queued' = queued /\ UNCHANGED <<override, off>>
        /\ ghost'.switched = ghost.switched
    BY <1>17, <1>0, <2>0 DEF Insert, GhostType
  <2>3. /\ ghost'.fresh \subseteq ghost.fresh \cup {r}
        /\ IF r \in rows THEN ghost'.backlist = ghost.backlist \ new
           ELSE /\ ghost'.backlist \subseteq ghost.backlist \cup {r}
                /\ SyncedBefore(w) => ghost'.backlist = ghost.backlist
    BY <1>17, <1>0, <2>0, <2>1 DEF Insert, GhostType
  <2>4. job'[w].news = IF SyncedBefore(w) THEN old \cup new ELSE old
    <3> DEFINE n == IF SyncedBefore(w) THEN old \cup new ELSE old
               j == [job[w] EXCEPT !.at = "check", !.infos = @ \ {job[w].number},
                                   !.number = 0, !.known = FALSE, !.news = n]
    <3>1. job' = [job EXCEPT ![w] = j]
      BY <1>17, <2>0 DEF Insert, Step, Extend
    <3>. HIDE DEF n
    <3>2. j.news = n
      BY <1>0 DEF JobType
    <3>. HIDE DEF j
    <3>. QED  BY <1>0, <3>1, <3>2 DEF n
  <2>5. \A v \in Procs \ {w} : job'[v] = job[v]
    BY <1>17, <1>0 DEF Insert, Step
  <2>6. \A x : Standing(x) => Standing(x)'
    BY <2>2 DEF Standing
  <2>7. Standing(r)'
    BY <2>2 DEF Standing
  <2>8. \A x \in ghost'.backlist \cup ghost'.fresh \cup queued' : Standing(x)'
    BY <2>2, <2>3, <2>6, <2>7 DEF RowInv
  <2>9. \A v \in Procs : \A x \in job'[v].news : Standing(x)'
    BY <2>4, <2>5, <2>6, <2>7 DEF RowInv
  <2>10. ASSUME NEW x, Standing(x), Backlog(x)  PROVE Backlog(x)'
    BY <2>2, <2>3, <2>10 DEF Backlog, Standing
  <2>11. SyncedBefore(w) /\ r \in new => Backlog(r)'
    BY <1>0, <2>1, <2>2, <2>3 DEF Backlog, RowInv, Standing
  <2>12. \A v \in Procs : \A x \in job'[v].news : Backlog(x)'
    BY <1>0, <2>4, <2>5, <2>10, <2>11 DEF RowInv
  <2>13. \A p \in Providers \ ghost'.switched : Enabled(p)'
    BY <2>2 DEF RowInv, Enabled
  <2>14. NoMassDownload'
    BY <2>2, <2>10 DEF NoMassDownload, RowInv, Backlog
  <2>. QED  BY <2>8, <2>9, <2>12, <2>13, <2>14 DEF RowInv
<1>18. ASSUME NEW w \in Workers, Mark(w), NewsKept  PROVE RowInv'
  <2>1. /\ ghost'.backlist = ghost.backlist /\ ghost'.fresh = ghost.fresh
        /\ ghost'.switched = ghost.switched
    BY <1>18, <1>0 DEF Mark, Step, GhostType
  <2>2. \A r \in rows : r \in rows' \/ r[1] \in ghost.switched
    BY <1>18, <1>0 DEF Mark, Step, JobOK
  <2>3. queued' = queued /\ UNCHANGED <<override, off>>
    BY <1>18 DEF Mark, Step
  <2>4. \A q \in Providers : Enabled(q) => Enabled(q)'
    BY <2>3 DEF Enabled
  <2>. QED  BY <1>18, <1>0, <2>1, <2>2, <2>3, <2>4, RowKept
<1>19. ASSUME NEW w \in Procs, Compute(w), NewsKept  PROVE RowInv'
  <2>1. /\ ghost'.backlist = ghost.backlist /\ ghost'.fresh = ghost.fresh
        /\ ghost'.switched = ghost.switched
    BY <1>19, <1>0 DEF Compute, Step, GhostType
  <2>2. \A r \in rows : r \in rows' \/ r[1] \in ghost.switched
    BY <1>19, <1>0 DEF Compute, Step, JobOK
  <2>3. queued' = queued /\ UNCHANGED <<override, off>>
    BY <1>19 DEF Compute, Step
  <2>4. \A q \in Providers : Enabled(q) => Enabled(q)'
    BY <2>3 DEF Enabled
  <2>. QED  BY <1>19, <1>0, <2>1, <2>2, <2>3, <2>4, RowKept
<1>20. ASSUME NEW w \in Procs, Store(w), NewsKept  PROVE RowInv'
  <2>1. /\ ghost'.backlist = ghost.backlist /\ ghost'.fresh = ghost.fresh
        /\ ghost'.switched = ghost.switched
    BY <1>20, <1>0 DEF Store, Step, GhostType
  <2>2. \A r \in rows : r \in rows' \/ r[1] \in ghost.switched
    BY <1>20, <1>0 DEF Store, Step, JobOK
  <2>3. queued' = queued /\ UNCHANGED <<override, off>>
    BY <1>20 DEF Store, Step
  <2>4. \A q \in Providers : Enabled(q) => Enabled(q)'
    BY <2>3 DEF Enabled
  <2>. QED  BY <1>20, <1>0, <2>1, <2>2, <2>3, <2>4, RowKept
<1>21. ASSUME NEW w \in Workers, QueueNew(w), NewsKept  PROVE RowInv'
  <2>1. /\ ghost'.backlist = ghost.backlist /\ ghost'.fresh = ghost.fresh
        /\ ghost'.switched = ghost.switched
    BY <1>21, <1>0 DEF QueueNew, GhostType
  <2>2. rows' = rows /\ queued' \subseteq queued \cup job[w].news /\ UNCHANGED <<override, off>>
    BY <1>21 DEF QueueNew, Chosen
  <2>3. \A x : Standing(x)' <=> Standing(x)
    BY <2>1, <2>2 DEF Standing
  <2>4. \A x : Backlog(x)' <=> Backlog(x)
    BY <2>1 DEF Backlog
  <2>5. \A v \in Procs : \A x \in job'[v].news : x \in job[v].news
    BY <1>21 DEF NewsKept
  <2>6. \A p \in Providers : Enabled(p) => Enabled(p)'
    BY <2>2 DEF Enabled
  <2>7. NoMassDownload'
    BY <1>0, <2>1, <2>2 DEF NoMassDownload, RowInv, Backlog
  <2>. QED  BY <1>0, <2>1, <2>2, <2>3, <2>4, <2>5, <2>6, <2>7 DEF RowInv
<1>22. ASSUME NEW w \in Editors, NEW p \in Providers, NEW on \in BOOLEAN, SetSeries(w, p, on), NewsKept
      PROVE  RowInv'
  <2>1. p \in ghost'.switched /\ ghost'.switched = ghost.switched \cup {p}
        /\ ghost'.backlist = ghost.backlist /\ ghost'.fresh = ghost.fresh
    BY <1>22, <1>0 DEF SetSeries, Step, GhostType
  <2>2. \A q \in Providers \ ghost'.switched : Enabled(q) => Enabled(q)'
    BY <1>22, <1>0, <2>1 DEF SetSeries, Step, Enabled
  <2>3. rows' = rows /\ queued' = queued
    BY <1>22 DEF SetSeries, Step
  <2>. QED  BY <1>22, <1>0, <2>1, <2>2, <2>3, RowKept
<1>23. ASSUME NEW w \in Editors, NEW p \in Providers, ClearSeries(w, p), NewsKept
      PROVE  RowInv'
  <2>1. p \in ghost'.switched /\ ghost'.switched = ghost.switched \cup {p}
        /\ ghost'.backlist = ghost.backlist /\ ghost'.fresh = ghost.fresh
    BY <1>23, <1>0 DEF ClearSeries, Goto, Step, GhostType
  <2>2. \A q \in Providers \ ghost'.switched : Enabled(q) => Enabled(q)'
    BY <1>23, <1>0, <2>1 DEF ClearSeries, Goto, Step, Enabled
  <2>3. rows' = rows /\ queued' = queued
    BY <1>23 DEF ClearSeries, Goto, Step
  <2>. QED  BY <1>23, <1>0, <2>1, <2>2, <2>3, RowKept
<1>24. ASSUME NEW w \in Editors, NEW p \in Providers, NEW on \in BOOLEAN, SetGlobal(w, p, on), NewsKept
      PROVE  RowInv'
  <2>1. p \in ghost'.switched /\ ghost'.switched = ghost.switched \cup {p}
        /\ ghost'.backlist = ghost.backlist /\ ghost'.fresh = ghost.fresh
    BY <1>24, <1>0 DEF SetGlobal, Goto, Step, GhostType
  <2>2. \A q \in Providers \ ghost'.switched : Enabled(q) => Enabled(q)'
    BY <1>24, <1>0, <2>1 DEF SetGlobal, Goto, Step, Enabled
  <2>3. rows' = rows /\ queued' = queued
    BY <1>24 DEF SetGlobal, Goto, Step
  <2>. QED  BY <1>24, <1>0, <2>1, <2>2, <2>3, RowKept
<1>25. ASSUME NEW w \in Editors, Purge(w), NewsKept  PROVE RowInv'
  <2>1. /\ ghost'.backlist = ghost.backlist /\ ghost'.fresh = ghost.fresh
        /\ ghost'.switched = ghost.switched
    BY <1>25, <1>0 DEF Purge, Goto, Step, GhostType
  <2>2. \A r \in rows : r \in rows' \/ r[1] \in ghost.switched
    BY <1>25, <1>0 DEF Purge, Goto, Step, JobOK
  <2>3. queued' = queued /\ UNCHANGED <<override, off>>
    BY <1>25 DEF Purge, Goto, Step
  <2>4. \A q \in Providers : Enabled(q) => Enabled(q)'
    BY <2>3 DEF Enabled
  <2>. QED  BY <1>25, <1>0, <2>1, <2>2, <2>3, <2>4, RowKept
<1>26. ASSUME Restart, NewsKept  PROVE RowInv'
  <2>1. /\ ghost'.backlist = ghost.backlist /\ ghost'.fresh = ghost.fresh
        /\ ghost'.switched = ghost.switched
    BY <1>26, <1>0 DEF Restart, GhostType
  <2>2. \A r \in rows : r \in rows' \/ r[1] \in ghost.switched
    BY <1>26, <1>0 DEF Restart, JobOK
  <2>3. queued' = queued /\ UNCHANGED <<override, off>>
    BY <1>26 DEF Restart
  <2>4. \A q \in Providers : Enabled(q) => Enabled(q)'
    BY <2>3 DEF Enabled
  <2>. QED  BY <1>26, <1>0, <2>1, <2>2, <2>3, <2>4, RowKept
<1>. QED
  BY <1>0, <1>1, <1>2, <1>3, <1>4, <1>5, <1>6, <1>7, <1>8, <1>9, <1>10,
     <1>11, <1>12, <1>13, <1>14, <1>15, <1>16, <1>17, <1>18, <1>19, <1>20,
     <1>21, <1>22, <1>23, <1>24, <1>25, <1>26
  DEF Next, WorkerStep, EditorStep, Request

-----------------------------------------------------------------------------
(* The preferred one of the new chapters of a number has a download, or an *)
(* exception applies to it, or it is in the hands of the sync that brought *)
(* it, which from its last store on waits only to queue it, or one         *)
(* preferred to it.                                                        *)
Settled(m, n) ==
  \/ n \in ghost.excused
  \/ \E q \in Providers : <<q, n>> \in queued
  \/ \E q \in Providers : <<q, n>> \in rows \ ghost.fresh /\ Rank[q] < Rank[m]
  \/ \E q \in ghost.switched : Rank[q] <= Rank[m]

Takes(w, m, n) ==
  /\ <<m, n>> \in job[w].news /\ job[w].watched
  /\ \/ job[w].at \in {"fetching", "check", "insert", "store"}
     \/ /\ job[w].at = "queue"
        /\ \E q \in Providers :
             canonical[n] = q /\ Rank[q] <= Rank[m] /\ Standing(<<q, n>>)

Foremost(m, n) ==
  /\ <<m, n>> \in ghost.fresh
  /\ \A q \in Providers : <<q, n>> \in ghost.fresh => Rank[m] <= Rank[q]

FreshInv ==
  \A n \in Numbers, m \in Providers :
    Foremost(m, n) => Settled(m, n) \/ \E w \in Workers : Takes(w, m, n)

LEMMA StandingStays ==
  ASSUME Accumulates, NEW q, NEW n, Standing(<<q, n>>)
  PROVE  Standing(<<q, n>>)'
  BY DEF Accumulates, Standing

LEMMA SettledStays ==
  ASSUME BaseInv, Accumulates, NEW m \in Providers, NEW n, Settled(m, n), Foremost(m, n)'
  PROVE  Settled(m, n)'
<1>1. ghost.switched \subseteq Providers
  BY DEF BaseInv, DomInv, GhostType
<1>2. CASE n \in ghost.excused
  BY <1>2 DEF Accumulates, Settled
<1>3. CASE \E q \in Providers : <<q, n>> \in queued
  BY <1>3 DEF Accumulates, Settled
<1>4. CASE \E q \in ghost.switched : Rank[q] <= Rank[m]
  BY <1>4 DEF Accumulates, Settled
<1>5. CASE \E q \in Providers : <<q, n>> \in rows \ ghost.fresh /\ Rank[q] < Rank[m]
  <2>1. PICK q \in Providers : <<q, n>> \in rows /\ Rank[q] < Rank[m]
    BY <1>5
  <2>2. Rank[q] \in Nat /\ Rank[m] \in Nat
    BY SyncAssumption
  <2>3. <<q, n>> \notin ghost'.fresh
    BY <2>1, <2>2 DEF Foremost
  <2>4. <<q, n>> \in rows' \/ q \in ghost'.switched
    BY <2>1 DEF Accumulates
  <2>. QED  BY <2>1, <2>2, <2>3, <2>4 DEF Settled
<1>. QED  BY <1>2, <1>3, <1>4, <1>5 DEF Settled

LEMMA FreshKept ==
  ASSUME BaseInv, FreshInv, Accumulates, ghost'.fresh = ghost.fresh,
         \A n \in Numbers, m \in Providers : \A w \in Workers :
            Foremost(m, n) /\ Takes(w, m, n) => Settled(m, n)' \/ Takes(w, m, n)'
  PROVE  FreshInv'
<1> SUFFICES ASSUME NEW n \in Numbers, NEW m \in Providers, Foremost(m, n)'
             PROVE  Settled(m, n)' \/ \E w \in Workers : Takes(w, m, n)'
  BY DEF FreshInv
<1>1. Foremost(m, n)
  BY DEF Foremost
<1>2. CASE Settled(m, n)
  BY <1>2, SettledStays
<1>3. CASE \E w \in Workers : Takes(w, m, n)
  <2>1. PICK w \in Workers : Takes(w, m, n)
    BY <1>3
  <2>2. Settled(m, n)' \/ Takes(w, m, n)'
    BY <1>1, <2>1
  <2>. QED  BY <2>2
<1>. QED  BY <1>1, <1>2, <1>3 DEF FreshInv

LEMMA FreshInit == Init => FreshInv
  BY DEF Init, FreshInv, Foremost

LEMMA FreshNext == BaseInv /\ RowInv /\ FreshInv /\ [Next]_vars => FreshInv'
<1> SUFFICES ASSUME BaseInv, RowInv, FreshInv, [Next]_vars  PROVE FreshInv'
  OBVIOUS
<1>. USE DEF site, entry, config, sched, list
<1>0. /\ ghost \in GhostType /\ canonical \in ListType /\ rows \in SUBSET Rows
      /\ job \in [Procs -> JobType]
      /\ \A w \in Procs : job[w] \in JobType /\ JobOK(w)
      /\ \A w \in Workers : w \in Procs /\ w \notin Editors
      /\ \A w \in Editors : w \in Procs /\ w \notin Workers
      /\ Accumulates
      /\ \A q \in Providers, n \in Numbers : Standing(<<q, n>>) => Standing(<<q, n>>)'
  BY NothingIsForgotten, StandingStays, SyncAssumption DEF BaseInv, DomInv, JobInv, Procs
<1>1. ASSUME NEW u \in Pages, NEW n \in Numbers, Post(u, n)  PROVE FreshInv'
  <2>1. job' = job /\ ghost' = ghost /\ canonical' = canonical
    BY <1>1 DEF Post
  <2>. QED  BY <1>0, <2>1, FreshKept DEF Takes
<1>2. ASSUME BecomeDue  PROVE FreshInv'
  <2>1. job' = job /\ ghost' = ghost /\ canonical' = canonical
    BY <1>2 DEF BecomeDue
  <2>. QED  BY <1>0, <2>1, FreshKept DEF Takes
<1>3. ASSUME NEW p \in Providers, Tick(p)  PROVE FreshInv'
  <2>1. job' = job /\ ghost' = ghost /\ canonical' = canonical
    BY <1>3 DEF Tick
  <2>. QED  BY <1>0, <2>1, FreshKept DEF Takes
<1>4. ASSUME NEW p \in Providers, NEW u \in PagesOf[p] \cup {NoPage}, SetUrl(p, u)
      PROVE  FreshInv'
  <2>1. job' = job /\ ghost' = ghost /\ canonical' = canonical
    BY <1>4 DEF SetUrl
  <2>. QED  BY <1>0, <2>1, FreshKept DEF Takes
<1>5. ASSUME SetMonitored  PROVE FreshInv'
  <2>1. job' = job /\ ghost' = ghost /\ canonical' = canonical
    BY <1>5 DEF SetMonitored
  <2>. QED  BY <1>0, <2>1, FreshKept DEF Takes
<1>6. ASSUME NEW t \in TaskSet, Ask(t)  PROVE FreshInv'
  <2>1. job' = job /\ ghost' = ghost /\ canonical' = canonical
    BY <1>6 DEF Ask
  <2>. QED  BY <1>0, <2>1, FreshKept DEF Takes
<1>7. ASSUME UNCHANGED vars  PROVE FreshInv'
  <2>1. job' = job /\ ghost' = ghost /\ canonical' = canonical
    BY <1>7 DEF vars
  <2>. QED  BY <1>0, <2>1, FreshKept DEF Takes
<1>8. ASSUME NEW w \in Workers, NEW t \in TaskSet, Claim(w, t)  PROVE FreshInv'
  <2>1. ghost'.fresh = ghost.fresh /\ canonical' = canonical
    BY <1>8, <1>0 DEF Claim, Step, Idle, GhostType
  <2>2. \A v \in Procs \ {w} : job'[v] = job[v]
    BY <1>8, <1>0 DEF Claim, Step, Idle
  <2>3. \A n \in Numbers, m \in Providers : Takes(w, m, n) => Takes(w, m, n)'
    BY <1>8, <1>0, <2>1 DEF Claim, Step, Idle, Takes, JobType, JobOK
  <2>. QED  BY <1>0, <2>1, <2>2, <2>3, FreshKept DEF Takes
<1>9. ASSUME NEW w \in Workers, SearchRead(w)  PROVE FreshInv'
  <2>1. ghost'.fresh = ghost.fresh /\ canonical' = canonical
    BY <1>9, <1>0 DEF SearchRead, Step, GhostType
  <2>2. \A v \in Procs \ {w} : job'[v] = job[v]
    BY <1>9, <1>0 DEF SearchRead, Step
  <2>3. \A n \in Numbers, m \in Providers : Takes(w, m, n) => Takes(w, m, n)'
    BY <1>9, <1>0, <2>1 DEF SearchRead, Step, Takes, JobType, JobOK
  <2>. QED  BY <1>0, <2>1, <2>2, <2>3, FreshKept DEF Takes
<1>10. ASSUME NEW w \in Workers, NEW p \in Providers, SearchAnswer(w, p)
      PROVE  FreshInv'
  <2>1. ghost'.fresh = ghost.fresh /\ canonical' = canonical
    BY <1>10, <1>0 DEF SearchAnswer, Step, GhostType
  <2>2. \A v \in Procs \ {w} : job'[v] = job[v]
    BY <1>10, <1>0 DEF SearchAnswer, Step
  <2>3. \A n \in Numbers, m \in Providers : Takes(w, m, n) => Takes(w, m, n)'
    BY <1>10, <1>0, <2>1 DEF SearchAnswer, Step, Takes, JobType, JobOK
  <2>. QED  BY <1>0, <2>1, <2>2, <2>3, FreshKept DEF Takes
<1>11. ASSUME NEW w \in Workers, Spread(w)  PROVE FreshInv'
  <2>1. ghost'.fresh = ghost.fresh /\ canonical' = canonical
    BY <1>11, <1>0 DEF Spread, Step, Idle, GhostType
  <2>2. \A v \in Procs \ {w} : job'[v] = job[v]
    BY <1>11, <1>0 DEF Spread, Step, Idle
  <2>3. \A n \in Numbers, m \in Providers : Takes(w, m, n) => Takes(w, m, n)'
    BY <1>11, <1>0, <2>1 DEF Spread, Step, Idle, Takes, JobType, JobOK
  <2>. QED  BY <1>0, <2>1, <2>2, <2>3, FreshKept DEF Takes
<1>12. ASSUME NEW w \in Workers, SyncRead(w)  PROVE FreshInv'
  <2>1. ghost'.fresh = ghost.fresh /\ canonical' = canonical
    BY <1>12, <1>0 DEF SyncRead, Step, GhostType
  <2>2. \A v \in Procs \ {w} : job'[v] = job[v]
    BY <1>12, <1>0 DEF SyncRead, Step
  <2>3. \A n \in Numbers, m \in Providers : Takes(w, m, n) => Takes(w, m, n)'
    BY <1>12, <1>0, <2>1 DEF SyncRead, Step, Takes, JobType, JobOK
  <2>. QED  BY <1>0, <2>1, <2>2, <2>3, FreshKept DEF Takes
<1>13. ASSUME NEW w \in Workers, SyncRefuse(w)  PROVE FreshInv'
  <2>1. ghost'.fresh = ghost.fresh /\ canonical' = canonical
    BY <1>13, <1>0 DEF SyncRefuse, Drop, Step, Idle, GhostType
  <2>2. \A v \in Procs \ {w} : job'[v] = job[v]
    BY <1>13, <1>0 DEF SyncRefuse, Drop, Step, Idle
  <2>3. \A n \in Numbers, m \in Providers : Takes(w, m, n) => Takes(w, m, n)'
    BY <1>13, <1>0, <2>1 DEF SyncRefuse, Drop, Step, Idle, Takes, JobType, JobOK
  <2>. QED  BY <1>0, <2>1, <2>2, <2>3, FreshKept DEF Takes
<1>14. ASSUME NEW w \in Workers, NEW p \in Providers, Answer(w, p)
      PROVE  FreshInv'
  <2>1. ghost'.fresh = ghost.fresh /\ canonical' = canonical
    BY <1>14, <1>0 DEF Answer, Step, GhostType
  <2>2. \A v \in Procs \ {w} : job'[v] = job[v]
    BY <1>14, <1>0 DEF Answer, Step
  <2>3. \A n \in Numbers, m \in Providers : Takes(w, m, n) => Takes(w, m, n)'
    BY <1>14, <1>0, <2>1 DEF Answer, Step, Takes, JobType, JobOK
  <2>. QED  BY <1>0, <2>1, <2>2, <2>3, FreshKept DEF Takes
<1>15. ASSUME NEW w \in Workers, NEW p \in Providers, Failed(w, p)
      PROVE  FreshInv'
  <2> DEFINE j == [job[w] EXCEPT !.todo = @ \ {p}, !.copy[p] = NoCopy,
                                 !.task = Progress(w, p)]
  <2>1. /\ job[w].at = "fetching" /\ p \in job[w].todo
        /\ job' = [job EXCEPT ![w] = IF job[w].all THEN j ELSE Idle]
        /\ ghost' = ghost /\ canonical' = canonical
    BY <1>15 DEF Failed, Drop, Step
  <2>2. j.news = job[w].news /\ j.at = job[w].at /\ j.watched = job[w].watched
    BY <1>0 DEF JobType
  <2>3. ~job[w].all => job[w].news = {}
    BY <1>0, <2>1 DEF JobOK
  <2>. HIDE DEF j
  <2>4. \A v \in Workers : \A n \in Numbers, m \in Providers : Takes(v, m, n) => Takes(v, m, n)'
    BY <1>0, <2>1, <2>2, <2>3 DEF Takes
  <2>. QED  BY <1>0, <2>1, <2>4, FreshKept
<1>16. ASSUME NEW w \in Workers, NEW n \in Numbers, Check(w, n)  PROVE FreshInv'
  <2>1. ghost'.fresh = ghost.fresh /\ canonical' = canonical
    BY <1>16, <1>0 DEF Check, Step, GhostType
  <2>2. \A v \in Procs \ {w} : job'[v] = job[v]
    BY <1>16, <1>0 DEF Check, Step
  <2>3. \A k \in Numbers, m \in Providers : Takes(w, m, k) => Takes(w, m, k)'
    BY <1>16, <1>0, <2>1 DEF Check, Step, Takes, JobType, JobOK
  <2>. QED  BY <1>0, <2>1, <2>2, <2>3, FreshKept DEF Takes
<1>17. ASSUME NEW w \in Workers, Insert(w)  PROVE FreshInv'
  <2>0. PICK k \in Numbers, p \in Providers : k = job[w].number /\ p = job[w].now
    BY <1>17, <1>0 DEF Insert, JobOK
  <2> DEFINE new == IF job[w].known THEN {} ELSE {<<p, k>>}
             n1  == IF SyncedBefore(w) THEN job[w].news \cup new ELSE job[w].news
             j   == [job[w] EXCEPT !.at = "check", !.infos = @ \ {job[w].number},
                                   !.number = 0, !.known = FALSE, !.news = n1]
  <2>1. job' = [job EXCEPT ![w] = j] /\ canonical' = canonical
    BY <1>17, <2>0 DEF Insert, Step, Extend
  <2>2. /\ ghost'.fresh = ghost.fresh
           \/ /\ SyncedBefore(w) /\ job[w].watched
              /\ ghost'.fresh = ghost.fresh \cup new
        /\ job[w].at = "insert"
    BY <1>17, <1>0, <2>0 DEF Insert, GhostType
  <2>3. j.at = "check" /\ j.watched = job[w].watched /\ j.news = n1
    <3>. HIDE DEF n1
    <3>. QED  BY <1>0 DEF JobType
  <2>. HIDE DEF j
  <2>4. ASSUME NEW v \in Workers, NEW m \in Providers, NEW n \in Numbers, Takes(v, m, n)
        PROVE  Takes(v, m, n)'
    BY <1>0, <2>1, <2>2, <2>3, <2>4 DEF Takes
  <2>5. ASSUME NEW m \in Providers, NEW n \in Numbers, Foremost(m, n)'
        PROVE  Settled(m, n)' \/ \E v \in Workers : Takes(v, m, n)'
    <3>1. CASE <<m, n>> \in ghost.fresh
      <4>1. Foremost(m, n)
        BY <1>0, <2>5, <3>1 DEF Foremost, Accumulates
      <4>2. CASE Settled(m, n)
        BY <1>0, <2>5, <4>2, SettledStays
      <4>3. CASE \E v \in Workers : Takes(v, m, n)
        BY <2>4, <4>3
      <4>. QED  BY <4>1, <4>2, <4>3 DEF FreshInv
    <3>2. CASE <<m, n>> \notin ghost.fresh
      <4>1. /\ SyncedBefore(w) /\ job[w].watched /\ <<m, n>> \in new
        BY <2>2, <2>5, <3>2 DEF Foremost
      <4>2. Takes(w, m, n)'
        BY <1>0, <2>1, <2>3, <4>1 DEF Takes
      <4>. QED  BY <4>2
    <3>. QED  BY <3>1, <3>2
  <2>. QED  BY <2>5 DEF FreshInv
<1>18. ASSUME NEW w \in Workers, Mark(w)  PROVE FreshInv'
  <2>1. ghost'.fresh = ghost.fresh /\ canonical' = canonical
    BY <1>18, <1>0 DEF Mark, Step, GhostType
  <2>2. \A v \in Procs \ {w} : job'[v] = job[v]
    BY <1>18, <1>0 DEF Mark, Step
  <2>3. \A n \in Numbers, m \in Providers : Takes(w, m, n) => Takes(w, m, n)'
    BY <1>18, <1>0, <2>1 DEF Mark, Step, Takes, JobType, JobOK
  <2>. QED  BY <1>0, <2>1, <2>2, <2>3, FreshKept DEF Takes
<1>19. ASSUME NEW w \in Procs, Compute(w)  PROVE FreshInv'
  <2>1. ghost'.fresh = ghost.fresh /\ canonical' = canonical
    BY <1>19, <1>0 DEF Compute, Step, GhostType
  <2>2. \A v \in Procs \ {w} : job'[v] = job[v]
    BY <1>19, <1>0 DEF Compute, Step
  <2>3. \A n \in Numbers, m \in Providers : Takes(w, m, n) => Takes(w, m, n)'
    BY <1>19, <1>0, <2>1 DEF Compute, Step, Takes, JobType, JobOK
  <2>. QED  BY <1>0, <2>1, <2>2, <2>3, FreshKept DEF Takes
<1>20. ASSUME NEW w \in Procs, Store(w)  PROVE FreshInv'
  <2>1. /\ ghost'.fresh = ghost.fresh
        /\ \A n \in Numbers : job[w].list[n] # Best(n) => n \in ghost'.excused
        /\ job[w].at = "store" /\ canonical' = job[w].list
    BY <1>20, <1>0 DEF Store, GhostType
  <2>2. \A v \in Procs \ {w} : job'[v] = job[v]
    BY <1>20, <1>0 DEF Store, Step
  <2>3. w \in Workers => /\ job'[w].at = "queue" /\ job'[w].news = job[w].news
                         /\ job'[w].watched = job[w].watched
    BY <1>20, <1>0 DEF Store, Step, JobType
  <2>4. ASSUME NEW n \in Numbers, NEW m \in Providers, Foremost(m, n)
        PROVE  \/ Settled(m, n)'
               \/ \E q \in Providers :
                    canonical'[n] = q /\ Rank[q] <= Rank[m] /\ Standing(<<q, n>>)'
    <3>1. CASE job[w].list[n] # Best(n)
      BY <2>1, <3>1 DEF Settled
    <3>2. CASE m \in ghost.switched
      <4>1. m \in ghost'.switched /\ Rank[m] <= Rank[m]
        BY <3>2, <1>0, SyncAssumption DEF Accumulates
      <4>. QED  BY <4>1 DEF Settled
    <3>3. CASE canonical'[n] = Best(n) /\ m \notin ghost.switched
      <4>1. <<m, n>> \in rows /\ Enabled(m)
        BY <2>4, <3>3 DEF Foremost, RowInv, Standing
      <4>2. PICK q \in Providers : q = Best(n)
        BY <4>1, BestIsFirst
      <4>3. <<q, n>> \in rows /\ Rank[q] <= Rank[m]
        BY <4>1, <4>2, BestIsFirst
      <4>4. Standing(<<q, n>>)'
        BY <1>0, <4>3 DEF Standing
      <4>. QED  BY <3>3, <4>2, <4>3, <4>4
    <3>. QED  BY <2>1, <3>1, <3>2, <3>3
  <2>5. ASSUME NEW v \in Workers, NEW n \in Numbers, NEW m \in Providers,
               Foremost(m, n), Takes(v, m, n)
        PROVE  Settled(m, n)' \/ Takes(v, m, n)'
    <3>1. job'[v].news = job[v].news /\ job'[v].watched = job[v].watched
      BY <1>0, <2>2, <2>3
    <3>2. \/ job'[v].at = "queue"
          \/ job'[v].at = job[v].at
      BY <1>0, <2>2, <2>3
    <3>. QED  BY <2>4, <2>5, <3>1, <3>2 DEF Takes
  <2>. QED  BY <1>0, <2>1, <2>5, FreshKept
<1>21. ASSUME NEW w \in Workers, QueueNew(w)  PROVE FreshInv'
  <2>1. /\ ghost' = ghost /\ canonical' = canonical /\ rows' = rows
        /\ job[w].watched => queued' = queued \cup Chosen(w)
    BY <1>21 DEF QueueNew
  <2>2. \A v \in Procs \ {w} : job'[v] = job[v]
    BY <1>21, <1>0 DEF QueueNew, Step
  <2>3. ASSUME NEW n \in Numbers, NEW m \in Providers, Foremost(m, n), Takes(w, m, n)
        PROVE  Settled(m, n)'
    <3>1. /\ <<m, n>> \in job[w].news /\ job[w].watched
          /\ \E q \in Providers :
               canonical[n] = q /\ Rank[q] <= Rank[m] /\ Standing(<<q, n>>)
      BY <1>21, <2>3 DEF Takes, QueueNew
    <3>2. PICK q \in Providers : canonical[n] = q /\ Rank[q] <= Rank[m] /\ Standing(<<q, n>>)
      BY <3>1
    <3>3. CASE q = m
      <4>1. <<m, n>> \in Chosen(w)
        BY <3>1, <3>2, <3>3 DEF Chosen
      <4>. QED  BY <2>1, <3>1, <4>1 DEF Settled
    <3>4. CASE q \in ghost.switched
      BY <2>1, <3>2, <3>4 DEF Settled
    <3>5. CASE q # m /\ <<q, n>> \in rows
      <4>1. Rank[q] # Rank[m]
        BY <3>5, SyncAssumption
      <4>2. Rank[q] \in Nat /\ Rank[m] \in Nat
        BY SyncAssumption
      <4>3. Rank[q] < Rank[m] /\ ~(Rank[m] <= Rank[q])
        BY <3>2, <4>1, <4>2
      <4>4. <<q, n>> \notin ghost.fresh
        BY <2>3, <4>3 DEF Foremost
      <4>. QED  BY <2>1, <3>5, <4>3, <4>4 DEF Settled
    <3>. QED  BY <3>2, <3>3, <3>4, <3>5 DEF Standing
  <2>4. ASSUME NEW v \in Workers, v # w, NEW n \in Numbers, NEW m \in Providers, Takes(v, m, n)
        PROVE  Takes(v, m, n)'
    BY <1>0, <2>1, <2>2, <2>4 DEF Takes
  <2>. QED  BY <1>0, <2>1, <2>3, <2>4, FreshKept
<1>22. ASSUME NEW w \in Editors, NEW p \in Providers, NEW on \in BOOLEAN, SetSeries(w, p, on)
      PROVE  FreshInv'
  <2>1. ghost'.fresh = ghost.fresh /\ canonical' = canonical
    BY <1>22, <1>0 DEF SetSeries, Step, Idle, GhostType
  <2>2. \A v \in Procs \ {w} : job'[v] = job[v]
    BY <1>22, <1>0 DEF SetSeries, Step, Idle
  <2>3. \A n \in Numbers, m \in Providers : Takes(w, m, n) => Takes(w, m, n)'
    BY <1>22, <1>0, <2>1 DEF SetSeries, Step, Idle, Takes, JobType, JobOK
  <2>. QED  BY <1>0, <2>1, <2>2, <2>3, FreshKept DEF Takes
<1>23. ASSUME NEW w \in Editors, NEW p \in Providers, ClearSeries(w, p)
      PROVE  FreshInv'
  <2>1. ghost'.fresh = ghost.fresh /\ canonical' = canonical
    BY <1>23, <1>0 DEF ClearSeries, Goto, Step, Idle, GhostType
  <2>2. \A v \in Procs \ {w} : job'[v] = job[v]
    BY <1>23, <1>0 DEF ClearSeries, Goto, Step, Idle
  <2>3. \A n \in Numbers, m \in Providers : Takes(w, m, n) => Takes(w, m, n)'
    BY <1>23, <1>0, <2>1 DEF ClearSeries, Goto, Step, Idle, Takes, JobType, JobOK
  <2>. QED  BY <1>0, <2>1, <2>2, <2>3, FreshKept DEF Takes
<1>24. ASSUME NEW w \in Editors, NEW p \in Providers, NEW on \in BOOLEAN, SetGlobal(w, p, on)
      PROVE  FreshInv'
  <2>1. ghost'.fresh = ghost.fresh /\ canonical' = canonical
    BY <1>24, <1>0 DEF SetGlobal, Goto, Step, Idle, GhostType
  <2>2. \A v \in Procs \ {w} : job'[v] = job[v]
    BY <1>24, <1>0 DEF SetGlobal, Goto, Step, Idle
  <2>3. \A n \in Numbers, m \in Providers : Takes(w, m, n) => Takes(w, m, n)'
    BY <1>24, <1>0, <2>1 DEF SetGlobal, Goto, Step, Idle, Takes, JobType, JobOK
  <2>. QED  BY <1>0, <2>1, <2>2, <2>3, FreshKept DEF Takes
<1>25. ASSUME NEW w \in Editors, Purge(w)  PROVE FreshInv'
  <2>1. ghost'.fresh = ghost.fresh /\ canonical' = canonical
    BY <1>25, <1>0 DEF Purge, Goto, Step, GhostType
  <2>2. \A v \in Procs \ {w} : job'[v] = job[v]
    BY <1>25, <1>0 DEF Purge, Goto, Step
  <2>3. \A n \in Numbers, m \in Providers : Takes(w, m, n) => Takes(w, m, n)'
    BY <1>25, <1>0, <2>1 DEF Purge, Goto, Step, Takes, JobType, JobOK
  <2>. QED  BY <1>0, <2>1, <2>2, <2>3, FreshKept DEF Takes
<1>26. ASSUME Restart  PROVE FreshInv'
  <2>1. /\ ghost'.fresh = ghost.fresh
        /\ {r[2] : r \in UNION {job[w].news : w \in Workers}} \subseteq ghost'.excused
    BY <1>26, <1>0 DEF Restart, GhostType
  <2>2. ASSUME NEW w \in Workers, NEW n \in Numbers, NEW m \in Providers, Takes(w, m, n)
        PROVE  Settled(m, n)'
    <3>1. <<m, n>> \in UNION {job[v].news : v \in Workers}
      BY <2>2 DEF Takes
    <3>2. n \in {r[2] : r \in UNION {job[v].news : v \in Workers}}
      BY <3>1
    <3>. QED  BY <2>1, <3>2 DEF Settled
  <2>. QED  BY <1>0, <2>1, <2>2, FreshKept
<1>. QED
  BY <1>0, <1>1, <1>2, <1>3, <1>4, <1>5, <1>6, <1>7, <1>8, <1>9, <1>10,
     <1>11, <1>12, <1>13, <1>14, <1>15, <1>16, <1>17, <1>18, <1>19, <1>20,
     <1>21, <1>22, <1>23, <1>24, <1>25, <1>26
  DEF Next, WorkerStep, EditorStep, Request

-----------------------------------------------------------------------------
(* The list follows the rows, or lags behind them, or whoever changed them *)
(* owes an update_canonical.                                               *)
CanonInv == canonical = BestList \/ ghost.tangled \/ \E w \in Procs : Owes(w)

LEMMA SameBest ==
  ASSUME UNCHANGED <<rows, override, off>>
  PROVE  BestList' = BestList
<1>1. \A p \in Providers : Enabled(p)' <=> Enabled(p)
  BY DEF Enabled
<1>2. ASSUME NEW n \in Numbers  PROVE Best(n)' = Best(n)
  <2> DEFINE C == {p \in Providers : <<p, n>> \in rows /\ Enabled(p)}
  <2>1. C' = C
    BY <1>1
  <2>2. Best(n)' = IF C' = {} THEN NoProvider ELSE CHOOSE p \in C' : \A q \in C' : Rank[p] <= Rank[q]
    BY DEF Best
  <2>3. Best(n) = IF C = {} THEN NoProvider ELSE CHOOSE p \in C : \A q \in C : Rank[p] <= Rank[q]
    BY DEF Best
  <2>. HIDE DEF C
  <2>. QED  BY <2>1, <2>2, <2>3
<1>. QED  BY <1>2 DEF BestList

LEMMA CanonKept ==
  ASSUME CanonInv, UNCHANGED <<rows, override, off, canonical>>,
         ghost.tangled => ghost'.tangled,
         \A w \in Procs : Owes(w) => Owes(w)'
  PROVE  CanonInv'
<1>1. BestList' = BestList
  BY SameBest
<1>. QED  BY <1>1 DEF CanonInv

LEMMA CanonInit == Init => CanonInv
<1> SUFFICES ASSUME Init  PROVE canonical = BestList
  BY DEF CanonInv
<1>1. ASSUME NEW n \in Numbers  PROVE Best(n) = NoProvider
  <2>1. {p \in Providers : <<p, n>> \in rows /\ Enabled(p)} = {}
    BY DEF Init
  <2>. QED  BY <2>1 DEF Best
<1>. QED  BY <1>1 DEF Init, NoList, BestList

LEMMA CanonNext == BaseInv /\ CanonInv /\ [Next]_vars => CanonInv'
<1> SUFFICES ASSUME BaseInv, CanonInv, [Next]_vars  PROVE CanonInv'
  OBVIOUS
<1>. USE DEF site, entry, config, sched, list
<1>0. /\ ghost \in GhostType /\ job \in [Procs -> JobType]
      /\ \A w \in Procs : job[w] \in JobType /\ JobOK(w)
      /\ \A w \in Workers : w \in Procs /\ w \notin Editors
      /\ \A w \in Editors : w \in Procs /\ w \notin Workers
  BY SyncAssumption DEF BaseInv, DomInv, JobInv, Procs
<1>1. ASSUME NEW u \in Pages, NEW n \in Numbers, Post(u, n)  PROVE CanonInv'
  <2>1. job' = job /\ ghost' = ghost /\ UNCHANGED <<rows, override, off, canonical>>
    BY <1>1 DEF Post
  <2>. QED  BY <2>1, CanonKept DEF Owes
<1>2. ASSUME BecomeDue  PROVE CanonInv'
  <2>1. job' = job /\ ghost' = ghost /\ UNCHANGED <<rows, override, off, canonical>>
    BY <1>2 DEF BecomeDue
  <2>. QED  BY <2>1, CanonKept DEF Owes
<1>3. ASSUME NEW p \in Providers, Tick(p)  PROVE CanonInv'
  <2>1. job' = job /\ ghost' = ghost /\ UNCHANGED <<rows, override, off, canonical>>
    BY <1>3 DEF Tick
  <2>. QED  BY <2>1, CanonKept DEF Owes
<1>4. ASSUME NEW p \in Providers, NEW u \in PagesOf[p] \cup {NoPage}, SetUrl(p, u)
      PROVE  CanonInv'
  <2>1. job' = job /\ ghost' = ghost /\ UNCHANGED <<rows, override, off, canonical>>
    BY <1>4 DEF SetUrl
  <2>. QED  BY <2>1, CanonKept DEF Owes
<1>5. ASSUME SetMonitored  PROVE CanonInv'
  <2>1. job' = job /\ ghost' = ghost /\ UNCHANGED <<rows, override, off, canonical>>
    BY <1>5 DEF SetMonitored
  <2>. QED  BY <2>1, CanonKept DEF Owes
<1>6. ASSUME NEW t \in TaskSet, Ask(t)  PROVE CanonInv'
  <2>1. job' = job /\ ghost' = ghost /\ UNCHANGED <<rows, override, off, canonical>>
    BY <1>6 DEF Ask
  <2>. QED  BY <2>1, CanonKept DEF Owes
<1>7. ASSUME UNCHANGED vars  PROVE CanonInv'
  <2>1. job' = job /\ ghost' = ghost /\ UNCHANGED <<rows, override, off, canonical>>
    BY <1>7 DEF vars
  <2>. QED  BY <2>1, CanonKept DEF Owes
<1>8. ASSUME NEW w \in Workers, NEW t \in TaskSet, Claim(w, t)  PROVE CanonInv'
  <2>1. UNCHANGED <<rows, override, off, canonical>> /\ ghost'.tangled = ghost.tangled
    BY <1>8, <1>0 DEF Claim, Step, GhostType
  <2>2. \A v \in Procs \ {w} : job'[v] = job[v]
    BY <1>8, <1>0 DEF Claim, Step
  <2>3. Owes(w) => Owes(w)'
    BY <1>8, <1>0 DEF Claim, Step, Owes, JobType, JobOK, Idle
  <2>. QED  BY <2>1, <2>2, <2>3, CanonKept DEF Owes
<1>9. ASSUME NEW w \in Workers, SearchRead(w)  PROVE CanonInv'
  <2>1. UNCHANGED <<rows, override, off, canonical>> /\ ghost'.tangled = ghost.tangled
    BY <1>9, <1>0 DEF SearchRead, Step, GhostType
  <2>2. \A v \in Procs \ {w} : job'[v] = job[v]
    BY <1>9, <1>0 DEF SearchRead, Step
  <2>3. Owes(w) => Owes(w)'
    BY <1>9, <1>0 DEF SearchRead, Step, Owes, JobType, JobOK, Idle
  <2>. QED  BY <2>1, <2>2, <2>3, CanonKept DEF Owes
<1>10. ASSUME NEW w \in Workers, NEW p \in Providers, SearchAnswer(w, p)
      PROVE  CanonInv'
  <2>1. UNCHANGED <<rows, override, off, canonical>> /\ ghost'.tangled = ghost.tangled
    BY <1>10, <1>0 DEF SearchAnswer, Step, GhostType
  <2>2. \A v \in Procs \ {w} : job'[v] = job[v]
    BY <1>10, <1>0 DEF SearchAnswer, Step
  <2>3. Owes(w) => Owes(w)'
    BY <1>10, <1>0 DEF SearchAnswer, Step, Owes, JobType, JobOK, Idle
  <2>. QED  BY <2>1, <2>2, <2>3, CanonKept DEF Owes
<1>11. ASSUME NEW w \in Workers, Spread(w)  PROVE CanonInv'
  <2>1. UNCHANGED <<rows, override, off, canonical>> /\ ghost'.tangled = ghost.tangled
    BY <1>11, <1>0 DEF Spread, Step, GhostType
  <2>2. \A v \in Procs \ {w} : job'[v] = job[v]
    BY <1>11, <1>0 DEF Spread, Step
  <2>3. Owes(w) => Owes(w)'
    BY <1>11, <1>0 DEF Spread, Step, Owes, JobType, JobOK, Idle
  <2>. QED  BY <2>1, <2>2, <2>3, CanonKept DEF Owes
<1>12. ASSUME NEW w \in Workers, SyncRead(w)  PROVE CanonInv'
  <2>1. UNCHANGED <<rows, override, off, canonical>> /\ ghost'.tangled = ghost.tangled
    BY <1>12, <1>0 DEF SyncRead, Step, GhostType
  <2>2. \A v \in Procs \ {w} : job'[v] = job[v]
    BY <1>12, <1>0 DEF SyncRead, Step
  <2>3. Owes(w) => Owes(w)'
    BY <1>12, <1>0 DEF SyncRead, Step, Owes, JobType, JobOK, Idle
  <2>. QED  BY <2>1, <2>2, <2>3, CanonKept DEF Owes
<1>13. ASSUME NEW w \in Workers, SyncRefuse(w)  PROVE CanonInv'
  <2>1. UNCHANGED <<rows, override, off, canonical>> /\ ghost'.tangled = ghost.tangled
    BY <1>13, <1>0 DEF SyncRefuse, Drop, Step, GhostType
  <2>2. \A v \in Procs \ {w} : job'[v] = job[v]
    BY <1>13, <1>0 DEF SyncRefuse, Drop, Step
  <2>3. Owes(w) => Owes(w)'
    BY <1>13, <1>0 DEF SyncRefuse, Drop, Step, Owes, JobType, JobOK, Idle
  <2>. QED  BY <2>1, <2>2, <2>3, CanonKept DEF Owes
<1>14. ASSUME NEW w \in Workers, NEW p \in Providers, Answer(w, p)
      PROVE  CanonInv'
  <2>1. UNCHANGED <<rows, override, off, canonical>> /\ ghost'.tangled = ghost.tangled
    BY <1>14, <1>0 DEF Answer, Step, GhostType
  <2>2. \A v \in Procs \ {w} : job'[v] = job[v]
    BY <1>14, <1>0 DEF Answer, Step
  <2>3. Owes(w) => Owes(w)'
    BY <1>14, <1>0 DEF Answer, Step, Owes, JobType, JobOK, Idle
  <2>. QED  BY <2>1, <2>2, <2>3, CanonKept DEF Owes
<1>15. ASSUME NEW w \in Workers, NEW p \in Providers, Failed(w, p)
      PROVE  CanonInv'
  <2> DEFINE j == [job[w] EXCEPT !.todo = @ \ {p}, !.copy[p] = NoCopy,
                                 !.task = Progress(w, p)]
  <2>1. /\ job[w].at = "fetching" /\ p \in job[w].todo
        /\ job' = [job EXCEPT ![w] = IF job[w].all THEN j ELSE Idle]
        /\ ghost' = ghost /\ UNCHANGED <<rows, override, off, canonical>>
    BY <1>15 DEF Failed, Drop, Step
  <2>2. j.at = job[w].at /\ j.all = job[w].all
    BY <1>0 DEF JobType
  <2>. HIDE DEF j
  <2>3. \A v \in Procs : Owes(v) => Owes(v)'
    BY <1>0, <2>1, <2>2 DEF Owes
  <2>. QED  BY <2>1, <2>3, CanonKept
<1>16. ASSUME NEW w \in Workers, NEW n \in Numbers, Check(w, n)  PROVE CanonInv'
  <2>1. UNCHANGED <<rows, override, off, canonical>> /\ ghost'.tangled = ghost.tangled
    BY <1>16, <1>0 DEF Check, Step, GhostType
  <2>2. \A v \in Procs \ {w} : job'[v] = job[v]
    BY <1>16, <1>0 DEF Check, Step
  <2>3. Owes(w) => Owes(w)'
    BY <1>16, <1>0 DEF Check, Step, Owes, JobType, JobOK, Idle
  <2>. QED  BY <2>1, <2>2, <2>3, CanonKept DEF Owes
<1>17. ASSUME NEW w \in Workers, Insert(w)  PROVE CanonInv'
  <2>1. job'[w].at = "check"
    BY <1>17, <1>0 DEF Insert, Step, JobType
  <2>2. Owes(w)'
    BY <2>1 DEF Owes
  <2>. QED  BY <1>0, <2>2 DEF CanonInv
<1>18. ASSUME NEW w \in Workers, Mark(w)  PROVE CanonInv'
  <2>1. UNCHANGED <<rows, override, off, canonical>> /\ ghost'.tangled = ghost.tangled
    BY <1>18, <1>0 DEF Mark, Step, GhostType
  <2>2. \A v \in Procs \ {w} : job'[v] = job[v]
    BY <1>18, <1>0 DEF Mark, Step
  <2>3. Owes(w) => Owes(w)'
    BY <1>18, <1>0 DEF Mark, Step, Owes, JobType, JobOK, Idle
  <2>. QED  BY <2>1, <2>2, <2>3, CanonKept DEF Owes
<1>19. ASSUME NEW w \in Procs, Compute(w)  PROVE CanonInv'
  <2>1. UNCHANGED <<rows, override, off, canonical>> /\ ghost'.tangled = ghost.tangled
    BY <1>19, <1>0 DEF Compute, Step, GhostType
  <2>2. \A v \in Procs \ {w} : job'[v] = job[v]
    BY <1>19, <1>0 DEF Compute, Step
  <2>3. Owes(w) => Owes(w)'
    BY <1>19, <1>0 DEF Compute, Step, Owes, JobType, JobOK, Idle
  <2>. QED  BY <2>1, <2>2, <2>3, CanonKept DEF Owes
<1>20. ASSUME NEW w \in Procs, Store(w)  PROVE CanonInv'
  <2>1. /\ canonical' = job[w].list /\ ghost'.tangled = (job[w].list # BestList)
        /\ UNCHANGED <<rows, override, off>>
    BY <1>20, <1>0 DEF Store, GhostType
  <2>2. BestList' = BestList
    BY <2>1, SameBest
  <2>. QED  BY <2>1, <2>2 DEF CanonInv
<1>21. ASSUME NEW w \in Workers, QueueNew(w)  PROVE CanonInv'
  <2>1. UNCHANGED <<rows, override, off, canonical>> /\ ghost'.tangled = ghost.tangled
    BY <1>21, <1>0 DEF QueueNew, Step, GhostType
  <2>2. \A v \in Procs \ {w} : job'[v] = job[v]
    BY <1>21, <1>0 DEF QueueNew, Step
  <2>3. Owes(w) => Owes(w)'
    BY <1>21, <1>0 DEF QueueNew, Step, Owes, JobType, JobOK, Idle
  <2>. QED  BY <2>1, <2>2, <2>3, CanonKept DEF Owes
<1>22. ASSUME NEW w \in Editors, NEW p \in Providers, NEW on \in BOOLEAN, SetSeries(w, p, on)
      PROVE  CanonInv'
  <2>1. job'[w].at = (IF on THEN "compute" ELSE "purge")
    BY <1>22, <1>0 DEF SetSeries, Step, JobType, Idle
  <2>2. Owes(w)'
    BY <2>1 DEF Owes
  <2>. QED  BY <1>0, <2>2 DEF CanonInv
<1>23. ASSUME NEW w \in Editors, NEW p \in Providers, ClearSeries(w, p)
      PROVE  CanonInv'
  <2>1. job'[w].at = "compute"
    BY <1>23, <1>0 DEF ClearSeries, Goto, Step, JobType
  <2>2. Owes(w)'
    BY <2>1 DEF Owes
  <2>. QED  BY <1>0, <2>2 DEF CanonInv
<1>24. ASSUME NEW w \in Editors, NEW p \in Providers, NEW on \in BOOLEAN, SetGlobal(w, p, on)
      PROVE  CanonInv'
  <2>1. job'[w].at = "compute"
    BY <1>24, <1>0 DEF SetGlobal, Goto, Step, JobType, Idle
  <2>2. Owes(w)'
    BY <2>1 DEF Owes
  <2>. QED  BY <1>0, <2>2 DEF CanonInv
<1>25. ASSUME NEW w \in Editors, Purge(w)  PROVE CanonInv'
  <2>1. job'[w].at = "compute"
    BY <1>25, <1>0 DEF Purge, Goto, Step, JobType
  <2>2. Owes(w)'
    BY <2>1 DEF Owes
  <2>. QED  BY <1>0, <2>2 DEF CanonInv
<1>26. ASSUME Restart  PROVE CanonInv'
  <2>1. ghost'.tangled = (ghost.tangled \/ \E w \in Procs : Owes(w))
    BY <1>26, <1>0 DEF Restart, GhostType
  <2>2. UNCHANGED <<rows, override, off, canonical>>
    BY <1>26 DEF Restart
  <2>3. BestList' = BestList
    BY <2>2, SameBest
  <2>. QED  BY <2>1, <2>2, <2>3 DEF CanonInv
<1>. QED
  BY <1>0, <1>1, <1>2, <1>3, <1>4, <1>5, <1>6, <1>7, <1>8, <1>9, <1>10,
     <1>11, <1>12, <1>13, <1>14, <1>15, <1>16, <1>17, <1>18, <1>19, <1>20,
     <1>21, <1>22, <1>23, <1>24, <1>25, <1>26
  DEF Next, WorkerStep, EditorStep, Request

-----------------------------------------------------------------------------
LEMMA SyncInvariant == Spec => [](BaseInv /\ RowInv /\ FreshInv /\ CanonInv)
<1>1. Init => BaseInv /\ RowInv /\ FreshInv /\ CanonInv
  BY BaseInit, RowInit, FreshInit, CanonInit
<1>2. /\ BaseInv /\ RowInv /\ FreshInv /\ CanonInv /\ [Next]_vars
      => (BaseInv /\ RowInv /\ FreshInv /\ CanonInv)'
  BY BaseNext, RowNext, FreshNext, CanonNext
<1>. QED  BY <1>1, <1>2, PTL DEF Spec

(* The state stays in its domains.                                         *)
THEOREM SyncTypeCorrect == Spec => []TypeOK
<1>1. BaseInv => TypeOK
  BY DomIsTyped DEF BaseInv
<1>. QED  BY <1>1, SyncInvariant, PTL

(* An entry that says it is synced points to a page whose chapters were    *)
(* read, however searches, corrections of the address and the write-backs  *)
(* of old copies interleave.                                               *)
THEOREM SyncedPagesWereRead == Spec => []SyncedMeansRead
<1>1. BaseInv => SyncedMeansRead
  BY DEF BaseInv
<1>. QED  BY <1>1, SyncInvariant, PTL

(* The backlog of a page read for the first time is not downloaded         *)
(* automatically.                                                          *)
THEOREM BacklogIsNotDownloaded == Spec => []NoMassDownload
<1>1. RowInv => NoMassDownload
  BY DEF RowInv
<1>. QED  BY <1>1, SyncInvariant, PTL

(* A chapter that a sync of a known page brought to a monitored series has *)
(* a download when nothing runs, unless a preferred provider has it and    *)
(* did not bring it as news, its number's list was stored too late, a      *)
(* restart came before the enqueue, or its provider or a preferred one was *)
(* switched.                                                               *)
THEOREM NewChaptersAreDownloaded == Spec => []NewChaptersAreQueued
<1>1. BaseInv /\ FreshInv => NewChaptersAreQueued
  <2> SUFFICES ASSUME BaseInv, FreshInv, Quiet, NEW p \in Providers, NEW n \in Numbers,
                      <<p, n>> \in ghost.fresh
               PROVE  Settled(p, n)
    <3>1. BaseInv => ghost.fresh \subseteq Rows
      BY DEF BaseInv, DomInv, GhostType
    <3>. QED  BY <3>1 DEF NewChaptersAreQueued, Settled, Rows
  <2> DEFINE C == {q \in Providers : <<q, n>> \in ghost.fresh}
  <2>3. p \in C
    OBVIOUS
  <2>4. PICK m \in C : \A q \in C : Rank[m] <= Rank[q]
    <3>1. C \in SUBSET Providers /\ C # {}
      BY <2>3
    <3>. HIDE DEF C
    <3>. QED  BY <3>1, FirstExists
  <2>5. Foremost(m, n)
    BY <2>4 DEF Foremost
  <2>6. ~\E w \in Workers : Takes(w, m, n)
    BY DEF Quiet, Takes, Idle, Procs
  <2>7. Settled(m, n)
    BY <2>5, <2>6 DEF FreshInv
  <2>8. \A q \in Providers : Rank[q] \in Nat
    BY SyncAssumption
  <2>9. Rank[m] <= Rank[p] /\ ghost.switched \subseteq Providers
    BY <2>3, <2>4 DEF BaseInv, DomInv, GhostType
  <2>. QED  BY <2>7, <2>8, <2>9 DEF Settled
<1>. QED  BY <1>1, SyncInvariant, PTL

(* When nothing runs, the canonical list is the best choice, unless the    *)
(* last list stored was computed before another change, or a restart cut   *)
(* off a sync or a request that still owed update_canonical.               *)
THEOREM ListFollowsRows == Spec => []CanonicalFollows
<1>1. CanonInv => CanonicalFollows
  BY DEF CanonInv, CanonicalFollows, Quiet, Owes, Idle
<1>. QED  BY <1>1, SyncInvariant, PTL
====
