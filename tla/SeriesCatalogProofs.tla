-------------------------- MODULE SeriesCatalogProofs --------------------------
(***************************************************************************)
(* TLAPS proofs about SeriesCatalog, for any series, titles, links,        *)
(* workers and clients and every value of the bounds.                      *)
(***************************************************************************)
EXTENDS SeriesCatalog, FiniteSetTheorems, TLAPS

(* The full domains: TypeOK says less of a job.                            *)
Whats == {"none", "add", "import", "manual", "refresh", "titles", "upload", "url",
          "delete", "suggest"}
Places == {"idle", "ask", "check", "cover", "insert", "queue", "look", "request", "write",
           "comic", "clear", "put", "wipe", "drop", "read", "details", "recall", "store"}

JobType ==
  [at     : Places,
   what   : Whats,
   of     : Series \cup {NoSeries},
   tries  : {n \in Nat : n < MaxTries},
   titles : [Titles -> TitleStates],
   title  : Titles \cup {NoTitle},
   thumb  : {"own", "remote"},
   seen   : SUBSET Series,
   cached : SUBSET Listed,
   hidden : SUBSET Listed,
   stale  : BOOLEAN,
   lost   : BOOLEAN,
   late   : SUBSET Listed]

GhostType ==
  [wish    : [Series -> [Titles -> {"free", "hidden", "listed"}]],
   tangled : SUBSET Series,
   known   : SUBSET Series,
   excused : SUBSET Series]

DomInv ==
  /\ shelf \in SUBSET Series
  /\ titles \in [Series -> [Titles -> TitleStates]]
  /\ thumb \in [Series -> {"own", "remote"}]
  /\ disk \in [Series -> {"none", "dir", "cover"}]
  /\ waiting \in [Series -> Nat] /\ asked \in Nat
  /\ \A s \in Series \ shelf : waiting[s] = 0
  /\ hints \in [Listed -> {"no", "shown", "hidden"}]
  /\ job \in [Procs -> JobType]
  /\ ghost \in GhostType

(* What a process does says where it may stand, whose it is and what it is *)
(* about; a refresh that has not lost its row is about one of the library. *)
Aimless == {"none", "suggest"}

JobOK(p) ==
  /\ job[p].what = "none"    => job[p].at = "idle"
  /\ job[p].what = "add"     => job[p].at \in {"ask", "check", "cover", "insert", "queue",
                                               "look", "request"}
  /\ job[p].what = "import"  => job[p].at \in {"ask", "cover", "insert", "queue"}
  /\ job[p].what = "manual"  => job[p].at \in {"cover", "insert", "queue"}
  /\ job[p].what = "refresh" => job[p].at \in {"ask", "cover", "write", "comic", "look",
                                               "request"}
  /\ job[p].what = "titles"  => job[p].at = "write"
  /\ job[p].what = "upload"  => job[p].at \in {"clear", "put", "write"}
  /\ job[p].what = "url"     => job[p].at \in {"cover", "write"}
  /\ job[p].what = "delete"  => job[p].at \in {"wipe", "drop"}
  /\ job[p].what = "suggest" => job[p].at \in {"read", "ask", "details", "recall", "store"}
  /\ job[p].what \in Aimless => job[p].of = NoSeries /\ ~job[p].lost
  /\ job[p].what \notin Aimless => job[p].of \in Series
  /\ job[p].what \in {"add", "import"} => job[p].of \in Listed
  /\ job[p].what = "manual" => job[p].of \in ByHand
  /\ job[p].what = "titles" => job[p].title \in Titles
  /\ job[p].what \notin Aimless \cup {"refresh"} => p \in Clients
  /\ job[p].what = "refresh" => p \in Workers
  /\ job[p].what = "refresh" /\ ~job[p].lost => job[p].of \in shelf

JobInv  == \A p \in Procs : JobOK(p)
BaseInv == DomInv /\ JobInv

LEMMA DomIsTyped == BaseInv => TypeOK
<1> SUFFICES ASSUME BaseInv  PROVE TypeOK
  OBVIOUS
<1>1. ASSUME NEW p \in Procs
      PROVE  /\ job[p].of \in Series \cup {NoSeries}
             /\ job[p].at \in {"write", "cover", "insert", "clear", "put", "comic", "look"}
                  => job[p].of # NoSeries
             /\ job[p].tries < MaxTries
  <2>1. job[p] \in JobType /\ JobOK(p)
    BY DEF BaseInv, DomInv, JobInv
  <2>2. /\ job[p].what \in Whats /\ job[p].of \in Series \cup {NoSeries}
        /\ job[p].tries < MaxTries
    BY <2>1 DEF JobType
  <2>3. job[p].at \in {"write", "cover", "insert", "clear", "put", "comic", "look"}
          => job[p].what \notin Aimless
    BY <2>1, <2>2 DEF JobOK, Aimless
  <2>. QED  BY <2>1, <2>2, <2>3, CatalogAssumption DEF JobOK
<1>. QED  BY <1>1 DEF BaseInv, DomInv, TypeOK

LEMMA IdleType == Idle \in JobType
  BY CatalogAssumption DEF Idle, JobType, Places, Whats, Untitled, TitleStates

LEMMA MergeType ==
  ASSUME NEW old \in [Titles -> TitleStates], NEW fresh
  PROVE  Merge(old, fresh) \in [Titles -> TitleStates]
  BY DEF Merge, TitleStates

(* An answer of AniList's.                                                 *)
LEMMA AskedType ==
  ASSUME NEW j \in JobType, NEW at \in Places, NEW f \in [Titles -> TitleStates]
  PROVE  /\ [j EXCEPT !.tries = 0, !.at = at] \in JobType
         /\ [j EXCEPT !.tries = 0, !.at = at, !.titles = f] \in JobType
<1>1. 0 \in {n \in Nat : n < MaxTries}
  BY CatalogAssumption
<1>. QED  BY <1>1 DEF JobType

(* A step of one process ...                                               *)
LEMMA Stepped ==
  ASSUME job \in [Procs -> JobType], NEW p \in Procs, NEW j \in JobType, Step(p, j)
  PROVE  /\ job' \in [Procs -> JobType] /\ job'[p] = j
         /\ \A q \in Procs \ {p} : job'[q] = job[q]
  BY DEF Step

(* ... may tell others that what they have read is old, and a deletion     *)
(* that their series is gone.                                              *)
Told(q) ==
  /\ job'[q].at = job[q].at /\ job'[q].what = job[q].what
  /\ job'[q].of = job[q].of
  /\ job'[q].titles = job[q].titles /\ job'[q].title = job[q].title
  /\ job'[q].thumb = job[q].thumb
  /\ job'[q].seen = job[q].seen /\ job'[q].hidden = job[q].hidden
  /\ job[q].stale => job'[q].stale
  /\ job[q].lost => job'[q].lost
  /\ job[q].of = NoSeries => job'[q].lost = job[q].lost
  /\ job[q].late \subseteq job'[q].late

LEMMA ToldIsOK ==
  ASSUME JobInv, NEW q \in Procs, Told(q),
         job[q].of \in shelf => job[q].of \in shelf' \/ job'[q].lost
  PROVE  JobOK(q)'
<1>1. JobOK(q)
  BY DEF JobInv
<1>2. job'[q].at = job[q].at /\ job'[q].what = job[q].what /\ job'[q].of = job[q].of
      /\ job'[q].title = job[q].title
  BY DEF Told
<1>3. job'[q].what \in Aimless => job'[q].of = NoSeries /\ ~job'[q].lost
  BY <1>1, <1>2 DEF Told, JobOK
<1>4. job'[q].what = "refresh" /\ ~job'[q].lost => job'[q].of \in shelf'
  BY <1>1, <1>2 DEF Told, JobOK
<1>. QED  BY <1>1, <1>2, <1>3, <1>4 DEF JobOK

LEMMA StaleStep ==
  ASSUME job \in [Procs -> JobType], NEW p \in Procs, NEW s, NEW mine \in JobType,
         Stale(p, s, mine)
  PROVE  /\ job' \in [Procs -> JobType] /\ job'[p] = mine
         /\ \A q \in Procs \ {p} :
              /\ Told(q) /\ job'[q].lost = job[q].lost
              /\ job'[q].late = job[q].late
              /\ job[q].of = s => job'[q].stale
              /\ job[q].of # s => job'[q] = job[q]
<1>1. /\ job' \in [Procs -> JobType] /\ job'[p] = mine
  <2>1. ASSUME NEW q \in Procs  PROVE [job[q] EXCEPT !.stale = TRUE] \in JobType
    <3>1. job[q] \in JobType
      OBVIOUS
    <3>. QED  BY <3>1 DEF JobType
  <2>. QED  BY <2>1 DEF Stale
<1>2. ASSUME NEW q \in Procs \ {p}
      PROVE  /\ Told(q) /\ job'[q].lost = job[q].lost /\ job'[q].late = job[q].late
             /\ job[q].of = s => job'[q].stale
             /\ job[q].of # s => job'[q] = job[q]
  <2>1. job[q] \in JobType
    OBVIOUS
  <2>2. CASE job[q].of = s
    <3>1. job'[q] = [job[q] EXCEPT !.stale = TRUE]
      BY <2>2 DEF Stale
    <3>. QED  BY <2>1, <2>2, <3>1 DEF JobType, Told
  <2>3. CASE job[q].of # s
    <3>1. job'[q] = job[q]
      BY <2>3 DEF Stale
    <3>. QED  BY <2>3, <3>1 DEF Told
  <2>. QED  BY <2>2, <2>3
<1>. QED  BY <1>1, <1>2

(* A job that fails leaves the rows to come as they should be.             *)
LEMMA FailsIsOK ==
  ASSUME BaseInv, NEW p \in Procs, Fails(p), shelf' = shelf
  PROVE  /\ Step(p, Idle)
         /\ waiting' \in [Series -> Nat] /\ asked' \in Nat
         /\ \A s \in Series \ shelf' : waiting'[s] = 0
         /\ ghost' \in GhostType
<1>1. Step(p, Idle)
  BY DEF Fails, Done
<1>2. job[p] \in JobType /\ JobOK(p)
  BY DEF BaseInv, DomInv, JobInv
<1>3. waiting' \in [Series -> Nat] /\ \A s \in Series \ shelf' : waiting'[s] = 0
  <2>1. CASE waiting' = waiting
    BY <2>1 DEF BaseInv, DomInv
  <2>2. CASE /\ job[p].what = "refresh" /\ ~job[p].lost
             /\ waiting' = [waiting EXCEPT ![job[p].of] = @ + 1]
    <3>1. job[p].of \in shelf
      BY <1>2, <2>2 DEF JobOK
    <3>. QED  BY <2>2, <3>1 DEF BaseInv, DomInv
  <2>. QED  BY <2>1, <2>2 DEF Fails, tasks
<1>4. asked' \in Nat
  BY DEF Fails, tasks, BaseInv, DomInv
<1>5. ghost' \in GhostType
  <2>1. ghost' = ghost \/ ghost' = [ghost EXCEPT !.excused = @ \cup shelf]
    BY DEF Fails
  <2>. QED  BY <2>1 DEF BaseInv, DomInv, GhostType
<1>. QED  BY <1>1, <1>3, <1>4, <1>5

(* A change of a row begins with a copy of it.                             *)
LEMMA Changed ==
  ASSUME BaseInv, NEW c \in Clients, NEW s \in Series, Change(c, s)
  PROVE  \E j \in JobType :
           /\ job' = [job EXCEPT ![c] = j]
           /\ j.of = s /\ j.thumb = thumb[s] /\ ~j.stale /\ ~j.lost
           /\ \/ /\ j.what = "titles" /\ j.at = "write" /\ j.title \in Titles
                 /\ \A t \in Titles \ {j.title} : j.titles[t] = titles[s][t]
              \/ /\ j.what = "upload" /\ j.at = "clear" /\ j.title = NoTitle /\ j.titles = titles[s]
              \/ /\ j.what = "url" /\ j.at = "cover" /\ j.title = NoTitle /\ j.titles = titles[s]
<1> DEFINE Copy(what, at) == [Idle EXCEPT !.what = what, !.of = s, !.at = at,
                                          !.titles = titles[s], !.thumb = thumb[s]]
<1>1. Idle \in JobType /\ s \in Series /\ thumb[s] \in {"own", "remote"}
      /\ titles[s] \in [Titles -> TitleStates]
  BY IdleType DEF BaseInv, DomInv, Change
<1>2. CASE \E t \in Titles : \E new \in Retitled(titles[s], t) :
             Step(c, [Copy("titles", "write") EXCEPT !.titles = new, !.title = t])
  <2>0. PICK t \in Titles : \E new \in Retitled(titles[s], t) :
          job' = [job EXCEPT ![c] = [Copy("titles", "write") EXCEPT !.titles = new, !.title = t]]
    BY <1>2 DEF Step
  <2>1. PICK new \in Retitled(titles[s], t) :
          job' = [job EXCEPT ![c] = [Copy("titles", "write") EXCEPT !.titles = new, !.title = t]]
    BY <2>0
  <2>2. new \in [Titles -> TitleStates] /\ \A u \in Titles \ {t} : new[u] = titles[s][u]
    BY <1>1 DEF Retitled, TitleStates
  <2> DEFINE j == [Copy("titles", "write") EXCEPT !.titles = new, !.title = t]
  <2>3. j \in JobType
    BY <1>1, <2>2 DEF JobType, Places, Whats
  <2>4. /\ j.of = s /\ j.thumb = thumb[s] /\ ~j.stale /\ ~j.lost
        /\ j.what = "titles" /\ j.at = "write" /\ j.title = t /\ j.titles = new
    BY DEF Idle
  <2>5. job' = [job EXCEPT ![c] = j]
    BY <2>1
  <2>. HIDE DEF j
  <2>. QED  BY <2>2, <2>3, <2>4, <2>5
<1>3. CASE Step(c, Copy("upload", "clear"))
  <2> DEFINE j == Copy("upload", "clear")
  <2>1. j \in JobType
    BY <1>1 DEF JobType, Places, Whats
  <2>2. /\ j.of = s /\ j.thumb = thumb[s] /\ ~j.stale /\ ~j.lost
        /\ j.what = "upload" /\ j.at = "clear" /\ j.title = NoTitle
        /\ j.titles = titles[s]
    BY DEF Idle
  <2>3. job' = [job EXCEPT ![c] = j]
    BY <1>3 DEF Step
  <2>. HIDE DEF j
  <2>. QED  BY <2>1, <2>2, <2>3
<1>4. CASE Step(c, Copy("url", "cover"))
  <2> DEFINE j == Copy("url", "cover")
  <2>1. j \in JobType
    BY <1>1 DEF JobType, Places, Whats
  <2>2. /\ j.of = s /\ j.thumb = thumb[s] /\ ~j.stale /\ ~j.lost
        /\ j.what = "url" /\ j.at = "cover" /\ j.title = NoTitle
        /\ j.titles = titles[s]
    BY DEF Idle
  <2>3. job' = [job EXCEPT ![c] = j]
    BY <1>4 DEF Step
  <2>. HIDE DEF j
  <2>. QED  BY <2>1, <2>2, <2>3
<1>. QED  BY <1>2, <1>3, <1>4 DEF Change

LEMMA BaseInit == Init => BaseInv
<1> SUFFICES ASSUME Init  PROVE BaseInv
  OBVIOUS
<1>1. titles \in [Series -> [Titles -> TitleStates]]
  BY DEF Init, TitleStates
<1>2. DomInv
  BY <1>1, IdleType, CatalogAssumption DEF Init, DomInv, GhostType
<1>3. JobInv
  BY DEF Init, JobInv, JobOK, Idle, Aimless
<1>. QED  BY <1>2, <1>3 DEF BaseInv

LEMMA BaseNext == BaseInv /\ [Next]_vars => BaseInv'
<1> SUFFICES ASSUME BaseInv, [Next]_vars  PROVE BaseInv'
  OBVIOUS
<1>. USE DEF tasks
<1>0. /\ DomInv /\ JobInv /\ Idle \in JobType
      /\ \A p \in Procs : job[p] \in JobType /\ JobOK(p)
      /\ \A w \in Workers : w \in Procs /\ w \notin Clients
      /\ \A c \in Clients : c \in Procs /\ c \notin Workers
  BY IdleType, CatalogAssumption DEF BaseInv, DomInv, JobInv, Procs
<1>1. ASSUME NEW p \in Procs, Refused(p)  PROVE BaseInv'
  <2> DEFINE j == [job[p] EXCEPT !.tries = @ + 1]
  <2>1. p \in Procs /\ job[p] \in JobType /\ JobOK(p)
    BY <1>0
  <2>2. Step(p, j)
    BY <1>1 DEF Refused, Edit
  <2>3. j \in JobType
    BY <1>1, <1>0, <2>1 DEF Refused, Edit, JobType, Places
  <2>. HIDE DEF j
  <2>4. /\ job' \in [Procs -> JobType] /\ job'[p] = j
        /\ \A q \in Procs \ {p} : job'[q] = job[q]
    BY <1>0, <2>1, <2>2, <2>3, Stepped DEF DomInv
  <2>5. DomInv'
    BY <1>1, <1>0, <2>1, <2>4 DEF Refused, Edit, DomInv, rows
  <2>6. shelf' = shelf
    BY <1>1 DEF Refused, Edit, rows
  <2>7. JobOK(p)'
    BY <1>1, <1>0, <2>1, <2>4, <2>6 DEF Refused, Edit, JobOK, Aimless, j, JobType
  <2>8. \A q \in Procs \ {p} : JobOK(q)'
    BY <1>0, <2>4, <2>6 DEF JobOK
  <2>. QED  BY <2>5, <2>7, <2>8 DEF BaseInv, JobInv
<1>2. ASSUME NEW p \in Procs, Unanswered(p)  PROVE BaseInv'
  <2> DEFINE j == Idle
  <2>1. p \in Procs /\ job[p] \in JobType /\ JobOK(p)
    BY <1>0
  <2>2. Step(p, j)
    BY <1>2 DEF Unanswered, Fails, Done
  <2>3. j \in JobType
    BY <1>0
  <2>. HIDE DEF j
  <2>4. /\ job' \in [Procs -> JobType] /\ job'[p] = j
        /\ \A q \in Procs \ {p} : job'[q] = job[q]
    BY <1>0, <2>1, <2>2, <2>3, Stepped DEF DomInv
  <2>5. DomInv'
    <3>1. Fails(p) /\ UNCHANGED <<shelf, titles, thumb, disk, hints>>
      BY <1>2 DEF Unanswered, rows
    <3>. QED  BY <2>1, <2>4, <3>1, FailsIsOK DEF DomInv, BaseInv
  <2>6. shelf' = shelf
    BY <1>2 DEF Unanswered, Fails, Done, rows
  <2>7. JobOK(p)'
    BY <2>1, <2>4 DEF JobOK, Aimless, j, Idle
  <2>8. \A q \in Procs \ {p} : JobOK(q)'
    BY <1>0, <2>4, <2>6 DEF JobOK
  <2>. QED  BY <2>5, <2>7, <2>8 DEF BaseInv, JobInv
<1>3. ASSUME NEW p \in Procs, Answered(p)  PROVE BaseInv'
  <2> DEFINE at == IF job[p].what = "add" THEN "check" ELSE "cover"
  <2>0. PICK fresh \in SUBSET Titles :
          Step(p, [job[p] EXCEPT !.tries = 0,
                     !.at = IF job[p].what = "add" THEN "check" ELSE "cover",
                     !.titles = Merge(job[p].titles, fresh)])
    BY <1>3 DEF Answered
  <2> DEFINE j == [job[p] EXCEPT !.tries = 0,
                  !.at = at, !.titles = Merge(job[p].titles, fresh)]
  <2>1. p \in Procs /\ job[p] \in JobType /\ JobOK(p)
    BY <1>0
  <2>2. Step(p, j)
    BY <2>0
  <2>3. j \in JobType
    <3>1. job[p].titles \in [Titles -> TitleStates]
      BY <2>1 DEF JobType
    <3>2. Merge(job[p].titles, fresh) \in [Titles -> TitleStates]
      BY <3>1, MergeType
    <3>3. at \in Places
      BY DEF Places
    <3>. HIDE DEF at
    <3>. QED  BY <2>1, <3>2, <3>3, AskedType
  <2>. HIDE DEF j
  <2>4. /\ job' \in [Procs -> JobType] /\ job'[p] = j
        /\ \A q \in Procs \ {p} : job'[q] = job[q]
    BY <1>0, <2>1, <2>2, <2>3, Stepped DEF DomInv
  <2>5. DomInv'
    BY <1>3, <1>0, <2>1, <2>4 DEF Answered, DomInv, rows
  <2>6. shelf' = shelf
    BY <1>3 DEF Answered, rows
  <2>7. JobOK(p)'
    BY <1>3, <2>1, <2>4, <2>6 DEF Answered, Doing, JobOK, Aimless, j, JobType
  <2>8. \A q \in Procs \ {p} : JobOK(q)'
    BY <1>0, <2>4, <2>6 DEF JobOK
  <2>. QED  BY <2>5, <2>7, <2>8 DEF BaseInv, JobInv
<1>4. ASSUME NEW p \in Procs, Cover(p)  PROVE BaseInv'
  <2>0. PICK written \in BOOLEAN :
          /\ disk' = [disk EXCEPT ![job[p].of] = IF written \/ @ = "cover" THEN "cover" ELSE "dir"]
          /\ Step(p, [job[p] EXCEPT !.thumb = Address(written),
                     !.at = IF job[p].what \in {"refresh", "url"} THEN "write" ELSE "insert"])
    BY <1>4 DEF Cover
  <2> DEFINE j == [job[p] EXCEPT !.thumb = Address(written),
                     !.at = IF job[p].what \in {"refresh", "url"} THEN "write" ELSE "insert"]
  <2>1. p \in Procs /\ job[p] \in JobType /\ JobOK(p)
    BY <1>0
  <2>2. Step(p, j)
    BY <2>0
  <2>3. j \in JobType
    BY <2>1 DEF JobType, Places, Address
  <2>. HIDE DEF j
  <2>4. /\ job' \in [Procs -> JobType] /\ job'[p] = j
        /\ \A q \in Procs \ {p} : job'[q] = job[q]
    BY <1>0, <2>1, <2>2, <2>3, Stepped DEF DomInv
  <2>5. DomInv'
    BY <1>4, <1>0, <2>0, <2>1, <2>4 DEF Cover, DomInv, rows
  <2>6. shelf' = shelf
    BY <1>4 DEF Cover, rows
  <2>7. JobOK(p)'
    BY <1>4, <2>1, <2>4, <2>6 DEF Cover, Doing, JobOK, Aimless, j, JobType
  <2>8. \A q \in Procs \ {p} : JobOK(q)'
    BY <1>0, <2>4, <2>6 DEF JobOK
  <2>. QED  BY <2>5, <2>7, <2>8 DEF BaseInv, JobInv
<1>5. ASSUME NEW p \in Procs, Write(p), job[p].of \in shelf  PROVE BaseInv'
  <2> DEFINE s    == job[p].of
             next == IF job[p].what = "refresh" THEN [job[p] EXCEPT !.at = "comic"] ELSE Idle
  <2>1. job[p] \in JobType /\ JobOK(p) /\ s \in Series
        /\ job[p].what \in {"titles", "upload", "url", "refresh"}
    BY <1>5, <1>0 DEF Write, Doing, DomInv
  <2>2. next \in JobType
    BY <1>0, <2>1 DEF JobType, Places
  <2>3. Stale(p, s, next)
    BY <1>5 DEF Write
  <2>. HIDE DEF next
  <2>4. /\ job' \in [Procs -> JobType] /\ job'[p] = next
        /\ \A q \in Procs \ {p} : Told(q)
    BY <1>0, <2>2, <2>3, StaleStep DEF DomInv
  <2>5. ghost' \in GhostType
    <3> DEFINE u == job[p].title
               W == IF job[p].what = "titles"
                    THEN [ghost.wish[s] EXCEPT ![u] = Wish(job[p].titles[u])] ELSE ghost.wish[s]
               T == IF job[p].stale THEN ghost.tangled \cup {s} ELSE ghost.tangled
    <3>1. ghost' = [ghost EXCEPT !.wish[s] = W, !.tangled = T]
      BY <1>5 DEF Write
    <3>2. \A x : Wish(x) \in {"free", "hidden", "listed"}
      BY DEF Wish
    <3>3. W \in [Titles -> {"free", "hidden", "listed"}]
      BY <1>0, <2>1, <3>2 DEF DomInv, GhostType
    <3>4. T \in SUBSET Series
      BY <1>0, <2>1 DEF DomInv, GhostType
    <3>. HIDE DEF W, T
    <3>. QED  BY <1>0, <2>1, <3>1, <3>3, <3>4 DEF DomInv, GhostType
  <2>6. /\ titles' = [titles EXCEPT ![s] = job[p].titles]
        /\ thumb' = [thumb EXCEPT ![s] = job[p].thumb]
        /\ UNCHANGED <<tasks, shelf, disk, hints>>
    BY <1>5 DEF Write
  <2>7. DomInv'
    BY <1>0, <2>1, <2>4, <2>5, <2>6 DEF DomInv, JobType
  <2>8. JobOK(p)'
    BY <1>5, <2>1, <2>4, <2>6 DEF JobOK, Aimless, next, JobType, Idle
  <2>9. \A q \in Procs \ {p} : JobOK(q)'
    BY <1>0, <2>4, <2>6, ToldIsOK
  <2>. QED  BY <2>7, <2>8, <2>9 DEF BaseInv, JobInv
<1>6. ASSUME NEW p \in Procs, Write(p), job[p].of \notin shelf, job[p].what = "refresh",
             Step(p, [job[p] EXCEPT !.at = "comic"]), UNCHANGED <<tasks, ghost>>
      PROVE  BaseInv'
  <2> DEFINE j == [job[p] EXCEPT !.at = "comic"]
  <2>1. p \in Procs /\ job[p] \in JobType /\ JobOK(p)
    BY <1>0
  <2>2. Step(p, j)
    BY <1>6
  <2>3. j \in JobType
    BY <2>1 DEF JobType, Places
  <2>. HIDE DEF j
  <2>4. /\ job' \in [Procs -> JobType] /\ job'[p] = j
        /\ \A q \in Procs \ {p} : job'[q] = job[q]
    BY <1>0, <2>1, <2>2, <2>3, Stepped DEF DomInv
  <2>5. DomInv'
    BY <1>6, <1>0, <2>1, <2>4 DEF Write, DomInv, rows
  <2>6. shelf' = shelf
    BY <1>6 DEF Write, rows
  <2>7. JobOK(p)'
    BY <1>6, <2>1, <2>4, <2>6 DEF JobOK, Aimless, j, JobType
  <2>8. \A q \in Procs \ {p} : JobOK(q)'
    BY <1>0, <2>4, <2>6 DEF JobOK
  <2>. QED  BY <2>5, <2>7, <2>8 DEF BaseInv, JobInv
<1>7. ASSUME NEW p \in Procs, Write(p), job[p].of \notin shelf, Step(p, Idle),
             UNCHANGED <<tasks, ghost>>
      PROVE  BaseInv'
  <2> DEFINE j == Idle
  <2>1. p \in Procs /\ job[p] \in JobType /\ JobOK(p)
    BY <1>0
  <2>2. Step(p, j)
    BY <1>7
  <2>3. j \in JobType
    BY <1>0
  <2>. HIDE DEF j
  <2>4. /\ job' \in [Procs -> JobType] /\ job'[p] = j
        /\ \A q \in Procs \ {p} : job'[q] = job[q]
    BY <1>0, <2>1, <2>2, <2>3, Stepped DEF DomInv
  <2>5. DomInv'
    BY <1>7, <1>0, <2>1, <2>4 DEF Write, DomInv, rows
  <2>6. shelf' = shelf
    BY <1>7 DEF Write, rows
  <2>7. JobOK(p)'
    BY <2>1, <2>4 DEF JobOK, Aimless, j, Idle
  <2>8. \A q \in Procs \ {p} : JobOK(q)'
    BY <1>0, <2>4, <2>6 DEF JobOK
  <2>. QED  BY <2>5, <2>7, <2>8 DEF BaseInv, JobInv
<1>8. ASSUME NEW p \in Procs, Write(p), job[p].of \notin shelf, Fails(p)
      PROVE  BaseInv'
  <2> DEFINE j == Idle
  <2>1. p \in Procs /\ job[p] \in JobType /\ JobOK(p)
    BY <1>0
  <2>2. Step(p, j)
    BY <1>8 DEF Fails, Done
  <2>3. j \in JobType
    BY <1>0
  <2>. HIDE DEF j
  <2>4. /\ job' \in [Procs -> JobType] /\ job'[p] = j
        /\ \A q \in Procs \ {p} : job'[q] = job[q]
    BY <1>0, <2>1, <2>2, <2>3, Stepped DEF DomInv
  <2>5. DomInv'
    <3>1. Fails(p) /\ UNCHANGED <<shelf, titles, thumb, disk, hints>>
      BY <1>8 DEF Write
    <3>. QED  BY <2>1, <2>4, <3>1, FailsIsOK DEF DomInv, BaseInv
  <2>6. shelf' = shelf
    BY <1>8 DEF Write, rows
  <2>7. JobOK(p)'
    BY <2>1, <2>4 DEF JobOK, Aimless, j, Idle
  <2>8. \A q \in Procs \ {p} : JobOK(q)'
    BY <1>0, <2>4, <2>6 DEF JobOK
  <2>. QED  BY <2>5, <2>7, <2>8 DEF BaseInv, JobInv
<1>9. ASSUME NEW p \in Procs, Look(p), ToCome  PROVE BaseInv'
  <2> DEFINE j == Idle
  <2>1. p \in Procs /\ job[p] \in JobType /\ JobOK(p)
    BY <1>0
  <2>2. Step(p, j)
    BY <1>9 DEF Look, Done
  <2>3. j \in JobType
    BY <1>0
  <2>. HIDE DEF j
  <2>4. /\ job' \in [Procs -> JobType] /\ job'[p] = j
        /\ \A q \in Procs \ {p} : job'[q] = job[q]
    BY <1>0, <2>1, <2>2, <2>3, Stepped DEF DomInv
  <2>5. DomInv'
    <3>1. ghost' \in GhostType
      <4>1. job[p].of \in Series
        BY <1>9, <2>1 DEF Look, Doing, JobOK, Aimless
      <4>. QED  BY <1>9, <1>0, <4>1 DEF Look, DomInv, GhostType
    <3>. QED  BY <1>9, <1>0, <2>4, <3>1 DEF Look, DomInv, rows
  <2>6. shelf' = shelf
    BY <1>9 DEF Look, Done, rows
  <2>7. JobOK(p)'
    BY <2>1, <2>4 DEF JobOK, Aimless, j, Idle
  <2>8. \A q \in Procs \ {p} : JobOK(q)'
    BY <1>0, <2>4, <2>6 DEF JobOK
  <2>. QED  BY <2>5, <2>7, <2>8 DEF BaseInv, JobInv
<1>10. ASSUME NEW p \in Procs, Look(p), ~ToCome  PROVE BaseInv'
  <2> DEFINE j == [job[p] EXCEPT !.at = "request"]
  <2>1. p \in Procs /\ job[p] \in JobType /\ JobOK(p)
    BY <1>0
  <2>2. Step(p, j)
    BY <1>10 DEF Look, Goto
  <2>3. j \in JobType
    BY <2>1 DEF JobType, Places
  <2>. HIDE DEF j
  <2>4. /\ job' \in [Procs -> JobType] /\ job'[p] = j
        /\ \A q \in Procs \ {p} : job'[q] = job[q]
    BY <1>0, <2>1, <2>2, <2>3, Stepped DEF DomInv
  <2>5. DomInv'
    <3>1. ghost' \in GhostType
      <4>1. job[p].of \in Series
        BY <1>10, <2>1 DEF Look, Doing, JobOK, Aimless
      <4>. QED  BY <1>10, <1>0, <4>1 DEF Look, DomInv, GhostType
    <3>. QED  BY <1>10, <1>0, <2>4, <3>1 DEF Look, DomInv, rows
  <2>6. shelf' = shelf
    BY <1>10 DEF Look, Goto, rows
  <2>7. JobOK(p)'
    BY <1>10, <2>1, <2>4, <2>6 DEF Look, Doing, JobOK, Aimless, j, JobType
  <2>8. \A q \in Procs \ {p} : JobOK(q)'
    BY <1>0, <2>4, <2>6 DEF JobOK
  <2>. QED  BY <2>5, <2>7, <2>8 DEF BaseInv, JobInv
<1>11. ASSUME NEW p \in Procs, Request(p)  PROVE BaseInv'
  <2> DEFINE j == Idle
  <2>1. p \in Procs /\ job[p] \in JobType /\ JobOK(p)
    BY <1>0
  <2>2. Step(p, j)
    BY <1>11 DEF Request, Done
  <2>3. j \in JobType
    BY <1>0
  <2>. HIDE DEF j
  <2>4. /\ job' \in [Procs -> JobType] /\ job'[p] = j
        /\ \A q \in Procs \ {p} : job'[q] = job[q]
    BY <1>0, <2>1, <2>2, <2>3, Stepped DEF DomInv
  <2>5. DomInv'
    BY <1>11, <1>0, <2>1, <2>4 DEF Request, Done, DomInv, rows
  <2>6. shelf' = shelf
    BY <1>11 DEF Request, Done, rows
  <2>7. JobOK(p)'
    BY <2>1, <2>4 DEF JobOK, Aimless, j, Idle
  <2>8. \A q \in Procs \ {p} : JobOK(q)'
    BY <1>0, <2>4, <2>6 DEF JobOK
  <2>. QED  BY <2>5, <2>7, <2>8 DEF BaseInv, JobInv
<1>12. ASSUME NEW p \in Procs, Suggest(p)  PROVE BaseInv'
  <2> DEFINE j == [Idle EXCEPT !.what = "suggest", !.at = "read"]
  <2>1. p \in Procs /\ job[p] \in JobType /\ JobOK(p)
    BY <1>0
  <2>2. Step(p, j)
    BY <1>12 DEF Suggest
  <2>3. j \in JobType
    BY <1>0 DEF JobType, Places, Whats
  <2>. HIDE DEF j
  <2>4. /\ job' \in [Procs -> JobType] /\ job'[p] = j
        /\ \A q \in Procs \ {p} : job'[q] = job[q]
    BY <1>0, <2>1, <2>2, <2>3, Stepped DEF DomInv
  <2>5. DomInv'
    BY <1>12, <1>0, <2>1, <2>4 DEF Suggest, DomInv, rows
  <2>6. shelf' = shelf
    BY <1>12 DEF Suggest, rows
  <2>7. JobOK(p)'
    BY <2>1, <2>4 DEF JobOK, Aimless, j, Idle
  <2>8. \A q \in Procs \ {p} : JobOK(q)'
    BY <1>0, <2>4, <2>6 DEF JobOK
  <2>. QED  BY <2>5, <2>7, <2>8 DEF BaseInv, JobInv
<1>13. ASSUME NEW p \in Procs, ReadShelf(p)  PROVE BaseInv'
  <2> DEFINE at == IF shelf \cap Listed = {} THEN "recall" ELSE "ask"
             cached == {i \in Listed : hints[i] # "no"}
  <2> DEFINE j == [job[p] EXCEPT !.seen = shelf, !.cached = cached, !.at = at]
  <2>1. p \in Procs /\ job[p] \in JobType /\ JobOK(p)
    BY <1>0
  <2>2. Step(p, j)
    BY <1>13 DEF ReadShelf
  <2>3. j \in JobType
    <3>1. at \in Places /\ cached \in SUBSET Listed /\ shelf \in SUBSET Series
      BY <1>0 DEF Places, DomInv
    <3>. HIDE DEF at, cached
    <3>. QED  BY <2>1, <3>1 DEF JobType
  <2>. HIDE DEF j
  <2>4. /\ job' \in [Procs -> JobType] /\ job'[p] = j
        /\ \A q \in Procs \ {p} : job'[q] = job[q]
    BY <1>0, <2>1, <2>2, <2>3, Stepped DEF DomInv
  <2>5. DomInv'
    BY <1>13, <1>0, <2>1, <2>4 DEF ReadShelf, DomInv, rows
  <2>6. shelf' = shelf
    BY <1>13 DEF ReadShelf, rows
  <2>7. JobOK(p)'
    BY <1>13, <2>1, <2>4, <2>6 DEF ReadShelf, Doing, JobOK, Aimless, j, JobType
  <2>8. \A q \in Procs \ {p} : JobOK(q)'
    BY <1>0, <2>4, <2>6 DEF JobOK
  <2>. QED  BY <2>5, <2>7, <2>8 DEF BaseInv, JobInv
<1>14. ASSUME NEW p \in Procs, Bundled(p)  PROVE BaseInv'
  <2> DEFINE at == IF Recommended(job[p].seen) \subseteq job[p].cached THEN "recall" ELSE "details"
  <2> DEFINE j == [job[p] EXCEPT !.tries = 0, !.at = at]
  <2>1. p \in Procs /\ job[p] \in JobType /\ JobOK(p)
    BY <1>0
  <2>2. Step(p, j)
    BY <1>14 DEF Bundled
  <2>3. j \in JobType
    <3>1. at \in Places
      BY DEF Places
    <3>2. job[p].titles \in [Titles -> TitleStates]
      BY <2>1 DEF JobType
    <3>. HIDE DEF at
    <3>. QED  BY <2>1, <3>1, <3>2, AskedType
  <2>. HIDE DEF j
  <2>4. /\ job' \in [Procs -> JobType] /\ job'[p] = j
        /\ \A q \in Procs \ {p} : job'[q] = job[q]
    BY <1>0, <2>1, <2>2, <2>3, Stepped DEF DomInv
  <2>5. DomInv'
    BY <1>14, <1>0, <2>1, <2>4 DEF Bundled, DomInv, rows
  <2>6. shelf' = shelf
    BY <1>14 DEF Bundled, rows
  <2>7. JobOK(p)'
    BY <1>14, <2>1, <2>4, <2>6 DEF Bundled, Doing, JobOK, Aimless, j, JobType
  <2>8. \A q \in Procs \ {p} : JobOK(q)'
    BY <1>0, <2>4, <2>6 DEF JobOK
  <2>. QED  BY <2>5, <2>7, <2>8 DEF BaseInv, JobInv
<1>15. ASSUME NEW p \in Procs, Detailed(p)  PROVE BaseInv'
  <2> DEFINE j == [job[p] EXCEPT !.tries = 0, !.at = "recall"]
  <2>1. p \in Procs /\ job[p] \in JobType /\ JobOK(p)
    BY <1>0
  <2>2. Step(p, j)
    BY <1>15 DEF Detailed
  <2>3. j \in JobType
    <3>1. "recall" \in Places /\ job[p].titles \in [Titles -> TitleStates]
      BY <2>1 DEF JobType, Places
    <3>. QED  BY <2>1, <3>1, AskedType
  <2>. HIDE DEF j
  <2>4. /\ job' \in [Procs -> JobType] /\ job'[p] = j
        /\ \A q \in Procs \ {p} : job'[q] = job[q]
    BY <1>0, <2>1, <2>2, <2>3, Stepped DEF DomInv
  <2>5. DomInv'
    BY <1>15, <1>0, <2>1, <2>4 DEF Detailed, DomInv, rows
  <2>6. shelf' = shelf
    BY <1>15 DEF Detailed, rows
  <2>7. JobOK(p)'
    BY <1>15, <2>1, <2>4, <2>6 DEF Detailed, Doing, JobOK, Aimless, j, JobType
  <2>8. \A q \in Procs \ {p} : JobOK(q)'
    BY <1>0, <2>4, <2>6 DEF JobOK
  <2>. QED  BY <2>5, <2>7, <2>8 DEF BaseInv, JobInv
<1>16. ASSUME NEW p \in Procs, Recall(p)  PROVE BaseInv'
  <2> DEFINE j == [job[p] EXCEPT !.at = "store", !.late = {},
                !.hidden = {i \in Listed : hints[i] = "hidden"}]
  <2>1. p \in Procs /\ job[p] \in JobType /\ JobOK(p)
    BY <1>0
  <2>2. Step(p, j)
    BY <1>16 DEF Recall
  <2>3. j \in JobType
    BY <2>1 DEF JobType, Places
  <2>. HIDE DEF j
  <2>4. /\ job' \in [Procs -> JobType] /\ job'[p] = j
        /\ \A q \in Procs \ {p} : job'[q] = job[q]
    BY <1>0, <2>1, <2>2, <2>3, Stepped DEF DomInv
  <2>5. DomInv'
    BY <1>16, <1>0, <2>1, <2>4 DEF Recall, DomInv, rows
  <2>6. shelf' = shelf
    BY <1>16 DEF Recall, rows
  <2>7. JobOK(p)'
    BY <1>16, <2>1, <2>4, <2>6 DEF Recall, Doing, JobOK, Aimless, j, JobType
  <2>8. \A q \in Procs \ {p} : JobOK(q)'
    BY <1>0, <2>4, <2>6 DEF JobOK
  <2>. QED  BY <2>5, <2>7, <2>8 DEF BaseInv, JobInv
<1>17. ASSUME NEW p \in Procs, Store(p), Sources(job[p].seen) \subseteq shelf
      PROVE  BaseInv'
  <2> DEFINE j(q) == [job[q] EXCEPT !.stale = TRUE,
                        !.late = @ \cup {i \in Listed : hints'[i] # hints[i]}]
  <2>1. job[p] \in JobType /\ JobOK(p)
    BY <1>0
  <2>2. job' = [q \in Procs |-> IF q = p THEN Idle
                 ELSE IF job[q].what # "suggest" THEN job[q] ELSE j(q)]
    BY <1>17 DEF Store
  <2>3. ASSUME NEW q \in Procs
        PROVE  /\ j(q) \in JobType
               /\ q # p => Told(q)
    <3>1. job[q] \in JobType
      BY <1>0
    <3>2. /\ j(q).at = job[q].at /\ j(q).what = job[q].what /\ j(q).of = job[q].of
          /\ j(q).titles = job[q].titles /\ j(q).title = job[q].title
          /\ j(q).thumb = job[q].thumb
          /\ j(q).seen = job[q].seen /\ j(q).hidden = job[q].hidden
          /\ j(q).lost = job[q].lost
          /\ j(q).stale = TRUE /\ job[q].late \subseteq j(q).late
      BY <3>1 DEF JobType
    <3>3. j(q) \in JobType
      BY <3>1 DEF JobType
    <3>. HIDE DEF j
    <3>. QED  BY <2>2, <3>2, <3>3 DEF Told
  <2>4. job' \in [Procs -> JobType] /\ job'[p] = Idle
    <3>. HIDE DEF j
    <3>. QED  BY <1>0, <2>2, <2>3
  <2>5. ghost' \in GhostType
    <3> DEFINE E == IF job[p].stale THEN ghost.excused \cup (shelf \ job[p].seen)
                    ELSE ghost.excused \ job[p].seen
    <3>1. ghost' = [ghost EXCEPT !.known = job[p].seen, !.excused = E]
      BY <1>17 DEF Store
    <3>2. E \in SUBSET Series /\ job[p].seen \in SUBSET Series
      BY <1>0, <2>1 DEF DomInv, GhostType, JobType
    <3>. HIDE DEF E
    <3>. QED  BY <1>0, <3>1, <3>2 DEF DomInv, GhostType
  <2>6. hints' \in [Listed -> {"no", "shown", "hidden"}] /\ UNCHANGED <<tasks, rows, disk>>
    BY <1>17 DEF Store, Keep
  <2>7. DomInv'
    BY <1>0, <2>4, <2>5, <2>6 DEF DomInv, rows
  <2>8. JobOK(p)'
    BY <2>4 DEF JobOK, Aimless, Idle
  <2>9. \A q \in Procs \ {p} : JobOK(q)'
    BY <1>0, <2>3, <2>6, ToldIsOK DEF rows
  <2>. QED  BY <2>7, <2>8, <2>9 DEF BaseInv, JobInv
<1>18. ASSUME NEW p \in Procs, Store(p), ~(Sources(job[p].seen) \subseteq shelf)
      PROVE  BaseInv'
  <2> DEFINE j == Idle
  <2>1. p \in Procs /\ job[p] \in JobType /\ JobOK(p)
    BY <1>0
  <2>2. Step(p, j)
    BY <1>18 DEF Store, Fails, Done
  <2>3. j \in JobType
    BY <1>0
  <2>. HIDE DEF j
  <2>4. /\ job' \in [Procs -> JobType] /\ job'[p] = j
        /\ \A q \in Procs \ {p} : job'[q] = job[q]
    BY <1>0, <2>1, <2>2, <2>3, Stepped DEF DomInv
  <2>5. DomInv'
    <3>1. Fails(p) /\ UNCHANGED <<shelf, titles, thumb, disk, hints>>
      BY <1>18 DEF Store, rows
    <3>. QED  BY <2>1, <2>4, <3>1, FailsIsOK DEF DomInv, BaseInv
  <2>6. shelf' = shelf
    BY <1>18 DEF Store, rows
  <2>7. JobOK(p)'
    BY <2>1, <2>4 DEF JobOK, Aimless, j, Idle
  <2>8. \A q \in Procs \ {p} : JobOK(q)'
    BY <1>0, <2>4, <2>6 DEF JobOK
  <2>. QED  BY <2>5, <2>7, <2>8 DEF BaseInv, JobInv
<1>19. ASSUME NEW c \in Clients, Clear(c)  PROVE BaseInv'
  <2> DEFINE j == [job[c] EXCEPT !.at = "put"]
  <2>1. c \in Procs /\ job[c] \in JobType /\ JobOK(c)
    BY <1>0
  <2>2. Step(c, j)
    BY <1>19 DEF Clear, Goto
  <2>3. j \in JobType
    BY <1>19, <1>0, <2>1 DEF Clear, Goto, JobType, Places
  <2>. HIDE DEF j
  <2>4. /\ job' \in [Procs -> JobType] /\ job'[c] = j
        /\ \A q \in Procs \ {c} : job'[q] = job[q]
    BY <1>0, <2>1, <2>2, <2>3, Stepped DEF DomInv
  <2>5. DomInv'
    BY <1>19, <1>0, <2>4 DEF Clear, DomInv, rows
  <2>6. shelf' = shelf
    BY <1>19 DEF Clear, Goto, rows
  <2>7. JobOK(c)'
    BY <1>19, <1>0, <2>1, <2>4, <2>6 DEF Clear, Doing, JobOK, Aimless, j, JobType
  <2>8. \A q \in Procs \ {c} : JobOK(q)'
    BY <1>0, <2>4, <2>6 DEF JobOK
  <2>. QED  BY <2>5, <2>7, <2>8 DEF BaseInv, JobInv
<1>20. ASSUME NEW c \in Clients, Put(c)  PROVE BaseInv'
  <2> DEFINE j == [job[c] EXCEPT !.at = "write", !.thumb = "own"]
  <2>1. c \in Procs /\ job[c] \in JobType /\ JobOK(c)
    BY <1>0
  <2>2. Step(c, j)
    BY <1>20 DEF Put
  <2>3. j \in JobType
    BY <1>20, <1>0, <2>1 DEF Put, JobType, Places
  <2>. HIDE DEF j
  <2>4. /\ job' \in [Procs -> JobType] /\ job'[c] = j
        /\ \A q \in Procs \ {c} : job'[q] = job[q]
    BY <1>0, <2>1, <2>2, <2>3, Stepped DEF DomInv
  <2>5. DomInv'
    BY <1>20, <1>0, <2>4 DEF Put, DomInv, rows
  <2>6. shelf' = shelf
    BY <1>20 DEF Put, rows
  <2>7. JobOK(c)'
    BY <1>20, <1>0, <2>1, <2>4, <2>6 DEF Put, Doing, JobOK, Aimless, j, JobType
  <2>8. \A q \in Procs \ {c} : JobOK(q)'
    BY <1>0, <2>4, <2>6 DEF JobOK
  <2>. QED  BY <2>5, <2>7, <2>8 DEF BaseInv, JobInv
<1>21. ASSUME NEW c \in Clients, Check(c), job[c].of \in shelf  PROVE BaseInv'
  <2> DEFINE j == Idle
  <2>1. c \in Procs /\ job[c] \in JobType /\ JobOK(c)
    BY <1>0
  <2>2. Step(c, j)
    BY <1>21 DEF Check, Done
  <2>3. j \in JobType
    BY <1>0
  <2>. HIDE DEF j
  <2>4. /\ job' \in [Procs -> JobType] /\ job'[c] = j
        /\ \A q \in Procs \ {c} : job'[q] = job[q]
    BY <1>0, <2>1, <2>2, <2>3, Stepped DEF DomInv
  <2>5. DomInv'
    BY <1>21, <1>0, <2>1, <2>4 DEF Check, Done, DomInv, rows
  <2>6. shelf' = shelf
    BY <1>21 DEF Check, Done, rows
  <2>7. JobOK(c)'
    BY <2>1, <2>4 DEF JobOK, Aimless, j, Idle
  <2>8. \A q \in Procs \ {c} : JobOK(q)'
    BY <1>0, <2>4, <2>6 DEF JobOK
  <2>. QED  BY <2>5, <2>7, <2>8 DEF BaseInv, JobInv
<1>22. ASSUME NEW c \in Clients, Check(c), job[c].of \notin shelf  PROVE BaseInv'
  <2> DEFINE j == [job[c] EXCEPT !.at = "cover"]
  <2>1. c \in Procs /\ job[c] \in JobType /\ JobOK(c)
    BY <1>0
  <2>2. Step(c, j)
    BY <1>22 DEF Check, Goto
  <2>3. j \in JobType
    BY <1>22, <1>0, <2>1 DEF Check, Goto, JobType, Places
  <2>. HIDE DEF j
  <2>4. /\ job' \in [Procs -> JobType] /\ job'[c] = j
        /\ \A q \in Procs \ {c} : job'[q] = job[q]
    BY <1>0, <2>1, <2>2, <2>3, Stepped DEF DomInv
  <2>5. DomInv'
    BY <1>22, <1>0, <2>1, <2>4 DEF Check, Goto, DomInv, rows
  <2>6. shelf' = shelf
    BY <1>22 DEF Check, Goto, rows
  <2>7. JobOK(c)'
    BY <1>22, <1>0, <2>1, <2>4, <2>6 DEF Check, Doing, JobOK, Aimless, j, JobType
  <2>8. \A q \in Procs \ {c} : JobOK(q)'
    BY <1>0, <2>4, <2>6 DEF JobOK
  <2>. QED  BY <2>5, <2>7, <2>8 DEF BaseInv, JobInv
<1>23. ASSUME NEW c \in Clients, Insert(c), job[c].of \in shelf  PROVE BaseInv'
  <2> DEFINE j == Idle
  <2>1. c \in Procs /\ job[c] \in JobType /\ JobOK(c)
    BY <1>0
  <2>2. Step(c, j)
    BY <1>23 DEF Insert, Done
  <2>3. j \in JobType
    BY <1>0
  <2>. HIDE DEF j
  <2>4. /\ job' \in [Procs -> JobType] /\ job'[c] = j
        /\ \A q \in Procs \ {c} : job'[q] = job[q]
    BY <1>0, <2>1, <2>2, <2>3, Stepped DEF DomInv
  <2>5. DomInv'
    BY <1>23, <1>0, <2>1, <2>4 DEF Insert, Done, DomInv, rows
  <2>6. shelf' = shelf
    BY <1>23 DEF Insert, Done, rows
  <2>7. JobOK(c)'
    BY <2>1, <2>4 DEF JobOK, Aimless, j, Idle
  <2>8. \A q \in Procs \ {c} : JobOK(q)'
    BY <1>0, <2>4, <2>6 DEF JobOK
  <2>. QED  BY <2>5, <2>7, <2>8 DEF BaseInv, JobInv
<1>24. ASSUME NEW c \in Clients, Insert(c), job[c].of \notin shelf  PROVE BaseInv'
  <2> DEFINE s == job[c].of
             j == [job[c] EXCEPT !.at = "queue"]
  <2>1. job[c] \in JobType /\ JobOK(c) /\ s \in Series /\ c \in Procs
        /\ job[c].what \in {"add", "import", "manual"}
    BY <1>24, <1>0 DEF Insert, Doing, JobOK, Aimless
  <2>2. j \in JobType
    BY <2>1 DEF JobType, Places
  <2>3. Stale(c, s, j)
    BY <1>24 DEF Insert
  <2>. HIDE DEF j
  <2>4. /\ job' \in [Procs -> JobType] /\ job'[c] = j
        /\ \A q \in Procs \ {c} : Told(q)
    BY <1>0, <2>1, <2>2, <2>3, StaleStep DEF DomInv
  <2>5. ghost' \in GhostType
    <3> DEFINE T == IF job[c].stale THEN ghost.tangled \cup {s} ELSE ghost.tangled \ {s}
               E == IF job[c].what = "import" THEN ghost.excused \cup {s}
                    ELSE ghost.excused \ {s}
    <3>1. ghost' = [ghost EXCEPT !.wish[s] = [t \in Titles |-> "free"],
                                 !.tangled = T, !.excused = E]
      BY <1>24 DEF Insert
    <3>2. T \in SUBSET Series /\ E \in SUBSET Series
      BY <1>0, <2>1 DEF DomInv, GhostType
    <3>. HIDE DEF T, E
    <3>. QED  BY <1>0, <2>1, <3>1, <3>2 DEF DomInv, GhostType
  <2>6. /\ titles' = [titles EXCEPT ![s] = job[c].titles]
        /\ thumb' = [thumb EXCEPT ![s] = job[c].thumb]
        /\ shelf' = shelf \cup {s}
        /\ UNCHANGED <<tasks, disk, hints>>
    BY <1>24 DEF Insert
  <2>7. DomInv'
    BY <1>0, <2>1, <2>4, <2>5, <2>6 DEF DomInv, JobType
  <2>8. JobOK(c)'
    BY <2>1, <2>4, <2>6 DEF JobOK, Aimless, j, JobType
  <2>9. \A q \in Procs \ {c} : JobOK(q)'
    BY <1>0, <2>4, <2>6, ToldIsOK
  <2>. QED  BY <2>7, <2>8, <2>9 DEF BaseInv, JobInv
<1>25. ASSUME NEW c \in Clients, Queue(c), job[c].of \notin shelf \/ job[c].what # "add"
      PROVE  BaseInv'
  <2> DEFINE j == Idle
  <2>1. c \in Procs /\ job[c] \in JobType /\ JobOK(c)
    BY <1>0
  <2>2. Step(c, j)
    BY <1>25 DEF Queue, Done
  <2>3. j \in JobType
    BY <1>0
  <2>. HIDE DEF j
  <2>4. /\ job' \in [Procs -> JobType] /\ job'[c] = j
        /\ \A q \in Procs \ {c} : job'[q] = job[q]
    BY <1>0, <2>1, <2>2, <2>3, Stepped DEF DomInv
  <2>5. DomInv'
    <3>1. job[c].of \in Series
      BY <1>25, <2>1 DEF Queue, Doing, JobOK, Aimless
    <3>. QED  BY <1>25, <1>0, <2>4, <3>1 DEF Queue, DomInv, rows
  <2>6. shelf' = shelf
    BY <1>25 DEF Queue, Done, rows
  <2>7. JobOK(c)'
    BY <2>1, <2>4 DEF JobOK, Aimless, j, Idle
  <2>8. \A q \in Procs \ {c} : JobOK(q)'
    BY <1>0, <2>4, <2>6 DEF JobOK
  <2>. QED  BY <2>5, <2>7, <2>8 DEF BaseInv, JobInv
<1>26. ASSUME NEW c \in Clients, Queue(c), job[c].of \in shelf, job[c].what = "add"
      PROVE  BaseInv'
  <2> DEFINE j == [job[c] EXCEPT !.at = "look"]
  <2>1. c \in Procs /\ job[c] \in JobType /\ JobOK(c)
    BY <1>0
  <2>2. Step(c, j)
    BY <1>26 DEF Queue, Goto
  <2>3. j \in JobType
    BY <1>26, <1>0, <2>1 DEF Queue, Goto, JobType, Places
  <2>. HIDE DEF j
  <2>4. /\ job' \in [Procs -> JobType] /\ job'[c] = j
        /\ \A q \in Procs \ {c} : job'[q] = job[q]
    BY <1>0, <2>1, <2>2, <2>3, Stepped DEF DomInv
  <2>5. DomInv'
    <3>1. job[c].of \in Series
      BY <1>26, <2>1 DEF Queue, Doing, JobOK, Aimless
    <3>. QED  BY <1>26, <1>0, <2>4, <3>1 DEF Queue, DomInv, rows
  <2>6. shelf' = shelf
    BY <1>26 DEF Queue, Goto, rows
  <2>7. JobOK(c)'
    BY <1>26, <1>0, <2>1, <2>4, <2>6 DEF Queue, Doing, JobOK, Aimless, j, JobType
  <2>8. \A q \in Procs \ {c} : JobOK(q)'
    BY <1>0, <2>4, <2>6 DEF JobOK
  <2>. QED  BY <2>5, <2>7, <2>8 DEF BaseInv, JobInv
<1>27. ASSUME NEW c \in Clients, Wipe(c)  PROVE BaseInv'
  <2> DEFINE j == [job[c] EXCEPT !.at = "drop"]
  <2>1. c \in Procs /\ job[c] \in JobType /\ JobOK(c)
    BY <1>0
  <2>2. Step(c, j)
    BY <1>27 DEF Wipe, Goto
  <2>3. j \in JobType
    BY <1>27, <1>0, <2>1 DEF Wipe, Goto, JobType, Places
  <2>. HIDE DEF j
  <2>4. /\ job' \in [Procs -> JobType] /\ job'[c] = j
        /\ \A q \in Procs \ {c} : job'[q] = job[q]
    BY <1>0, <2>1, <2>2, <2>3, Stepped DEF DomInv
  <2>5. DomInv'
    BY <1>27, <1>0, <2>4 DEF Wipe, DomInv, rows
  <2>6. shelf' = shelf
    BY <1>27 DEF Wipe, Goto, rows
  <2>7. JobOK(c)'
    BY <1>27, <1>0, <2>1, <2>4, <2>6 DEF Wipe, Doing, JobOK, Aimless, j, JobType
  <2>8. \A q \in Procs \ {c} : JobOK(q)'
    BY <1>0, <2>4, <2>6 DEF JobOK
  <2>. QED  BY <2>5, <2>7, <2>8 DEF BaseInv, JobInv
<1>28. ASSUME NEW c \in Clients, Drop(c)  PROVE BaseInv'
  <2> DEFINE s == job[c].of
             j(q) == [job[q] EXCEPT !.stale = TRUE, !.lost = TRUE]
  <2>1. job[c] \in JobType /\ JobOK(c) /\ s \in Series /\ c \in Procs
    BY <1>28, <1>0 DEF Drop, Doing, JobOK, Aimless
  <2>2. job' = [q \in Procs |-> IF q = c THEN Idle ELSE IF job[q].of = s THEN j(q) ELSE job[q]]
    BY <1>28 DEF Drop
  <2>3. ASSUME NEW q \in Procs
        PROVE  /\ j(q) \in JobType
               /\ q # c => Told(q) /\ (job[q].of = s => job'[q].lost)
    <3>1. job[q] \in JobType
      BY <1>0
    <3>2. /\ j(q).at = job[q].at /\ j(q).what = job[q].what /\ j(q).of = job[q].of
          /\ j(q).titles = job[q].titles /\ j(q).title = job[q].title
          /\ j(q).thumb = job[q].thumb
          /\ j(q).seen = job[q].seen /\ j(q).hidden = job[q].hidden
          /\ j(q).lost = TRUE
          /\ j(q).stale = TRUE /\ j(q).late = job[q].late
      BY <3>1 DEF JobType
    <3>3. j(q) \in JobType
      BY <3>1 DEF JobType
    <3>. HIDE DEF j
    <3>. QED  BY <2>1, <2>2, <3>2, <3>3, CatalogAssumption DEF Told
  <2>4. job' \in [Procs -> JobType] /\ job'[c] = Idle
    <3>. HIDE DEF j
    <3>. QED  BY <1>0, <2>1, <2>2, <2>3
  <2>5. ghost' \in GhostType
    BY <1>28, <1>0, <2>1 DEF Drop, DomInv, GhostType
  <2>6. /\ titles' = [titles EXCEPT ![s] = Untitled]
        /\ thumb' = [thumb EXCEPT ![s] = "remote"]
        /\ shelf' = shelf \ {s}
        /\ waiting' = [waiting EXCEPT ![s] = 0]
        /\ UNCHANGED <<disk, asked, hints>>
    BY <1>28 DEF Drop, Cascade
  <2>7. DomInv'
    BY <1>0, <2>1, <2>4, <2>5, <2>6 DEF DomInv, Untitled, TitleStates
  <2>8. JobOK(c)'
    BY <2>4 DEF JobOK, Aimless, Idle
  <2>9. \A q \in Procs \ {c} : JobOK(q)'
    BY <1>0, <2>3, <2>6, ToldIsOK
  <2>. QED  BY <2>7, <2>8, <2>9 DEF BaseInv, JobInv
<1>29. ASSUME NEW c \in Clients, NEW s \in Series, Add(c, s)  PROVE BaseInv'
  <2> DEFINE j == [Idle EXCEPT !.what = "add", !.of = s, !.at = "ask"]
  <2>1. c \in Procs /\ job[c] \in JobType /\ JobOK(c)
    BY <1>0
  <2>2. Step(c, j)
    BY <1>29 DEF Add, Edit, Begin
  <2>3. j \in JobType
    <3>1. s \in Series
      BY <1>29 DEF Add, Listed
    <3>. QED  BY <1>0, <3>1 DEF JobType, Places, Whats
  <2>. HIDE DEF j
  <2>4. /\ job' \in [Procs -> JobType] /\ job'[c] = j
        /\ \A q \in Procs \ {c} : job'[q] = job[q]
    BY <1>0, <2>1, <2>2, <2>3, Stepped DEF DomInv
  <2>5. DomInv'
    BY <1>29, <1>0, <2>1, <2>4 DEF Add, Edit, Begin, DomInv, rows
  <2>6. shelf' = shelf
    BY <1>29 DEF Add, Edit, Begin, rows
  <2>7. JobOK(c)'
    BY <1>29, <1>0, <2>1, <2>4, <2>6 DEF Add, JobOK, Aimless, j, Idle, Listed
  <2>8. \A q \in Procs \ {c} : JobOK(q)'
    BY <1>0, <2>4, <2>6 DEF JobOK
  <2>. QED  BY <2>5, <2>7, <2>8 DEF BaseInv, JobInv
<1>30. ASSUME NEW c \in Clients, NEW s \in Series, Import(c, s)  PROVE BaseInv'
  <2> DEFINE j == [Idle EXCEPT !.what = "import", !.of = s, !.at = "ask"]
  <2>1. c \in Procs /\ job[c] \in JobType /\ JobOK(c)
    BY <1>0
  <2>2. Step(c, j)
    BY <1>30 DEF Import, Edit, Begin
  <2>3. j \in JobType
    <3>1. s \in Series
      BY <1>30 DEF Import, Listed
    <3>. QED  BY <1>0, <3>1 DEF JobType, Places, Whats
  <2>. HIDE DEF j
  <2>4. /\ job' \in [Procs -> JobType] /\ job'[c] = j
        /\ \A q \in Procs \ {c} : job'[q] = job[q]
    BY <1>0, <2>1, <2>2, <2>3, Stepped DEF DomInv
  <2>5. DomInv'
    BY <1>30, <1>0, <2>1, <2>4 DEF Import, Edit, Begin, DomInv, rows
  <2>6. shelf' = shelf
    BY <1>30 DEF Import, Edit, Begin, rows
  <2>7. JobOK(c)'
    BY <1>30, <1>0, <2>1, <2>4, <2>6 DEF Import, JobOK, Aimless, j, Idle, Listed
  <2>8. \A q \in Procs \ {c} : JobOK(q)'
    BY <1>0, <2>4, <2>6 DEF JobOK
  <2>. QED  BY <2>5, <2>7, <2>8 DEF BaseInv, JobInv
<1>31. ASSUME NEW c \in Clients, NEW s \in Series, AddByHand(c, s)  PROVE BaseInv'
  <2>0. PICK at \in {"cover", "insert"} :
          Step(c, [Idle EXCEPT !.what = "manual", !.of = s, !.at = at])
    BY <1>31 DEF AddByHand, Begin
  <2> DEFINE j == [Idle EXCEPT !.what = "manual", !.of = s, !.at = at]
  <2>1. c \in Procs /\ job[c] \in JobType /\ JobOK(c)
    BY <1>0
  <2>2. Step(c, j)
    BY <2>0
  <2>3. j \in JobType
    BY <1>0, <2>0 DEF JobType, Places, Whats
  <2>. HIDE DEF j
  <2>4. /\ job' \in [Procs -> JobType] /\ job'[c] = j
        /\ \A q \in Procs \ {c} : job'[q] = job[q]
    BY <1>0, <2>1, <2>2, <2>3, Stepped DEF DomInv
  <2>5. DomInv'
    BY <1>31, <1>0, <2>1, <2>4 DEF AddByHand, Edit, Begin, DomInv, rows
  <2>6. shelf' = shelf
    BY <1>31 DEF AddByHand, Edit, Begin, rows
  <2>7. JobOK(c)'
    BY <1>31, <1>0, <2>0, <2>1, <2>4, <2>6 DEF AddByHand, JobOK, Aimless, j, Idle
  <2>8. \A q \in Procs \ {c} : JobOK(q)'
    BY <1>0, <2>4, <2>6 DEF JobOK
  <2>. QED  BY <2>5, <2>7, <2>8 DEF BaseInv, JobInv
<1>32. ASSUME NEW c \in Clients, NEW s \in Series, Delete(c, s)  PROVE BaseInv'
  <2>0. PICK at \in {"wipe", "drop"} :
          Step(c, [Idle EXCEPT !.what = "delete", !.of = s, !.at = at])
    BY <1>32 DEF Delete, Begin
  <2> DEFINE j == [Idle EXCEPT !.what = "delete", !.of = s, !.at = at]
  <2>1. c \in Procs /\ job[c] \in JobType /\ JobOK(c)
    BY <1>0
  <2>2. Step(c, j)
    BY <2>0
  <2>3. j \in JobType
    BY <1>0, <2>0 DEF JobType, Places, Whats
  <2>. HIDE DEF j
  <2>4. /\ job' \in [Procs -> JobType] /\ job'[c] = j
        /\ \A q \in Procs \ {c} : job'[q] = job[q]
    BY <1>0, <2>1, <2>2, <2>3, Stepped DEF DomInv
  <2>5. DomInv'
    BY <1>32, <1>0, <2>1, <2>4 DEF Delete, Edit, Begin, DomInv, rows
  <2>6. shelf' = shelf
    BY <1>32 DEF Delete, Edit, Begin, rows
  <2>7. JobOK(c)'
    BY <1>32, <1>0, <2>0, <2>1, <2>4, <2>6 DEF Delete, JobOK, Aimless, j, Idle
  <2>8. \A q \in Procs \ {c} : JobOK(q)'
    BY <1>0, <2>4, <2>6 DEF JobOK
  <2>. QED  BY <2>5, <2>7, <2>8 DEF BaseInv, JobInv
<1>33. ASSUME NEW c \in Clients, NEW s \in Series, Change(c, s)  PROVE BaseInv'
  <2>1. PICK j \in JobType :
          /\ job' = [job EXCEPT ![c] = j]
          /\ j.of = s /\ ~j.lost
          /\ \/ j.what = "titles" /\ j.at = "write" /\ j.title \in Titles
             \/ j.what = "upload" /\ j.at = "clear"
             \/ j.what = "url" /\ j.at = "cover"
    BY <1>33, Changed
  <2>2. UNCHANGED <<rows, disk, tasks, hints, ghost>> /\ s \in Series
    BY <1>33 DEF Change
  <2>3. /\ job' \in [Procs -> JobType] /\ job'[c] = j
        /\ \A q \in Procs \ {c} : job'[q] = job[q]
    BY <1>0, <2>1 DEF DomInv
  <2>4. DomInv'
    BY <1>0, <2>2, <2>3 DEF DomInv, rows
  <2>5. JobOK(c)'
    BY <1>0, <2>1, <2>2, <2>3 DEF JobOK, Aimless
  <2>6. \A q \in Procs \ {c} : JobOK(q)'
    BY <1>0, <2>2, <2>3 DEF JobOK, rows
  <2>. QED  BY <2>4, <2>5, <2>6 DEF BaseInv, JobInv
<1>34. ASSUME NEW w \in Workers, Comic(w)  PROVE BaseInv'
  <2> DEFINE j == [job[w] EXCEPT !.at = "look"]
  <2>1. w \in Procs /\ job[w] \in JobType /\ JobOK(w)
    BY <1>0
  <2>2. Step(w, j)
    BY <1>34 DEF Comic, Goto
  <2>3. j \in JobType
    BY <1>34, <1>0, <2>1 DEF Comic, Goto, JobType, Places
  <2>. HIDE DEF j
  <2>4. /\ job' \in [Procs -> JobType] /\ job'[w] = j
        /\ \A q \in Procs \ {w} : job'[q] = job[q]
    BY <1>0, <2>1, <2>2, <2>3, Stepped DEF DomInv
  <2>5. DomInv'
    BY <1>34, <1>0, <2>4 DEF Comic, DomInv, rows
  <2>6. shelf' = shelf
    BY <1>34 DEF Comic, Goto, rows
  <2>7. JobOK(w)'
    BY <1>34, <1>0, <2>1, <2>4, <2>6 DEF Comic, Doing, JobOK, Aimless, j, JobType
  <2>8. \A q \in Procs \ {w} : JobOK(q)'
    BY <1>0, <2>4, <2>6 DEF JobOK
  <2>. QED  BY <2>5, <2>7, <2>8 DEF BaseInv, JobInv
<1>35. ASSUME NEW w \in Workers, NEW s \in Series, Refresh(w, s), s \in ByHand
      PROVE  BaseInv'
  <2> DEFINE j == Idle
  <2>1. w \in Procs /\ job[w] \in JobType /\ JobOK(w)
    BY <1>0
  <2>2. Step(w, j)
    BY <1>35 DEF Refresh
  <2>3. j \in JobType
    BY <1>0
  <2>. HIDE DEF j
  <2>4. /\ job' \in [Procs -> JobType] /\ job'[w] = j
        /\ \A q \in Procs \ {w} : job'[q] = job[q]
    BY <1>0, <2>1, <2>2, <2>3, Stepped DEF DomInv
  <2>5. DomInv'
    <3>1. s \in shelf
      BY <1>35, <1>0 DEF Refresh, DomInv
    <3>. QED  BY <1>35, <1>0, <2>4, <3>1 DEF Refresh, DomInv, rows
  <2>6. shelf' = shelf
    BY <1>35 DEF Refresh, rows
  <2>7. JobOK(w)'
    BY <2>1, <2>4 DEF JobOK, Aimless, j, Idle
  <2>8. \A q \in Procs \ {w} : JobOK(q)'
    BY <1>0, <2>4, <2>6 DEF JobOK
  <2>. QED  BY <2>5, <2>7, <2>8 DEF BaseInv, JobInv
<1>36. ASSUME NEW w \in Workers, NEW s \in Series, Refresh(w, s), s \notin ByHand
      PROVE  BaseInv'
  <2> DEFINE j == [Idle EXCEPT !.what = "refresh", !.of = s, !.at = "ask",
                               !.titles = titles[s], !.thumb = thumb[s]]
  <2>1. w \in Procs /\ job[w] \in JobType /\ JobOK(w)
    BY <1>0
  <2>2. Step(w, j)
    BY <1>36 DEF Refresh
  <2>3. j \in JobType
    BY <1>0 DEF JobType, Places, Whats, DomInv
  <2>. HIDE DEF j
  <2>4. /\ job' \in [Procs -> JobType] /\ job'[w] = j
        /\ \A q \in Procs \ {w} : job'[q] = job[q]
    BY <1>0, <2>1, <2>2, <2>3, Stepped DEF DomInv
  <2>5. DomInv'
    <3>1. s \in shelf
      BY <1>36, <1>0 DEF Refresh, DomInv
    <3>. QED  BY <1>36, <1>0, <2>4, <3>1 DEF Refresh, DomInv, rows
  <2>6. shelf' = shelf
    BY <1>36 DEF Refresh, rows
  <2>7. JobOK(w)'
    <3>1. s \in shelf
      BY <1>36, <1>0 DEF Refresh, DomInv
    <3>. QED  BY <1>0, <2>1, <2>4, <2>6, <3>1 DEF JobOK, Aimless, j, Idle
  <2>8. \A q \in Procs \ {w} : JobOK(q)'
    BY <1>0, <2>4, <2>6 DEF JobOK
  <2>. QED  BY <2>5, <2>7, <2>8 DEF BaseInv, JobInv
<1>37. ASSUME NEW s \in Series, AskRefresh(s)  PROVE BaseInv'
  <2>1. DomInv'
    BY <1>37, <1>0 DEF AskRefresh, Edit, DomInv, rows
  <2>2. job' = job /\ shelf' = shelf
    BY <1>37 DEF AskRefresh, Edit, rows
  <2>3. \A q \in Procs : JobOK(q)'
    BY <1>0, <2>2 DEF JobOK
  <2>. QED  BY <2>1, <2>3 DEF BaseInv, JobInv
<1>38. ASSUME UNCHANGED vars  PROVE BaseInv'
  <2>1. DomInv'
    BY <1>38, <1>0 DEF vars, DomInv, rows
  <2>2. job' = job /\ shelf' = shelf
    BY <1>38 DEF vars, rows
  <2>3. \A q \in Procs : JobOK(q)'
    BY <1>0, <2>2 DEF JobOK
  <2>. QED  BY <2>1, <2>3 DEF BaseInv, JobInv
<1>39. ASSUME NEW i \in Listed, Hide(i)  PROVE BaseInv'
  <2> DEFINE j(q) == [job[q] EXCEPT !.late = @ \cup {i}]
  <2>1. job' = [q \in Procs |-> IF job[q].at = "store" THEN j(q) ELSE job[q]]
        /\ UNCHANGED <<rows, disk, tasks, ghost>>
    BY <1>39 DEF Hide
  <2>2. ASSUME NEW q \in Procs  PROVE j(q) \in JobType /\ Told(q)
    <3>1. job[q] \in JobType
      BY <1>0
    <3>2. /\ j(q).at = job[q].at /\ j(q).what = job[q].what /\ j(q).of = job[q].of
          /\ j(q).titles = job[q].titles /\ j(q).title = job[q].title
          /\ j(q).thumb = job[q].thumb
          /\ j(q).seen = job[q].seen /\ j(q).hidden = job[q].hidden
          /\ j(q).lost = job[q].lost
          /\ j(q).stale = job[q].stale /\ job[q].late \subseteq j(q).late
      BY <3>1 DEF JobType
    <3>3. j(q) \in JobType
      BY <3>1 DEF JobType
    <3>. HIDE DEF j
    <3>. QED  BY <2>1, <3>2, <3>3 DEF Told
  <2>3. job' \in [Procs -> JobType]
    <3>. HIDE DEF j
    <3>. QED  BY <1>0, <2>1, <2>2
  <2>4. hints' \in [Listed -> {"no", "shown", "hidden"}]
    BY <1>39, <1>0 DEF Hide, DomInv
  <2>5. DomInv'
    BY <1>0, <2>1, <2>3, <2>4 DEF DomInv, rows
  <2>6. \A q \in Procs : JobOK(q)'
    BY <1>0, <2>1, <2>2, ToldIsOK DEF rows
  <2>. QED  BY <2>5, <2>6 DEF BaseInv, JobInv
<1>40. ASSUME Crash  PROVE BaseInv'
  <2> DEFINE Run(what, s) == {w \in Workers : job[w].what = what /\ job[w].of = s /\ ~job[w].lost}
             Of(what) == {job[p].of : p \in {q \in Procs : job[q].what \in what}}
  <2>1. \A what, s :
          Cardinality(Run(what, s)) \in Nat /\ (Run(what, s) = {} => Cardinality(Run(what, s)) = 0)
    <3>1. ASSUME NEW what, NEW s  PROVE IsFiniteSet(Run(what, s))
      BY CatalogAssumption, FS_Subset
    <3>. HIDE DEF Run
    <3>. QED  BY <3>1, FS_CardinalityType, FS_EmptySet
  <2>2. \A s \in Series \ shelf : Run("refresh", s) = {}
    BY <1>0 DEF JobOK
  <2>3. /\ waiting' = [s \in Series |-> waiting[s] + Cardinality(Run("refresh", s))]
        /\ asked' = asked + Cardinality(Run("suggest", NoSeries))
    BY <1>40 DEF Crash
  <2>4. waiting' \in [Series -> Nat] /\ asked' \in Nat /\ \A s \in Series \ shelf : waiting'[s] = 0
    <3>. HIDE DEF Run
    <3>. QED  BY <1>0, <2>1, <2>2, <2>3 DEF DomInv
  <2>5. ghost' \in GhostType
    <3>1. ghost' = [ghost EXCEPT !.tangled = @ \cup (Of({"upload", "delete"}) \ {NoSeries}),
                                 !.excused = @ \cup Of({"add"})]
      BY <1>40 DEF Crash
    <3>2. Of({"upload", "delete"}) \in SUBSET Series /\ Of({"add"}) \in SUBSET Series
      BY <1>0 DEF JobOK, Aimless
    <3>. HIDE DEF Of
    <3>. QED  BY <1>0, <3>1, <3>2 DEF DomInv, GhostType
  <2>6. job' = [p \in Procs |-> Idle] /\ UNCHANGED <<rows, disk, hints>>
    BY <1>40 DEF Crash
  <2>7. DomInv'
    BY <1>0, <2>4, <2>5, <2>6 DEF DomInv, rows
  <2>8. \A q \in Procs : JobOK(q)'
    BY <2>6 DEF JobOK, Idle, Aimless
  <2>. QED  BY <2>7, <2>8 DEF BaseInv, JobInv
<1>50. ASSUME NEW p \in Procs, Write(p)  PROVE BaseInv'
  <2>1. \/ job[p].of \in shelf
        \/ /\ job[p].of \notin shelf
           /\ \/ Fails(p)
              \/ /\ UNCHANGED <<tasks, ghost>>
                 /\ \/ job[p].what = "refresh" /\ Step(p, [job[p] EXCEPT !.at = "comic"])
                    \/ Step(p, Idle)
    BY <1>50 DEF Write
  <2>. QED  BY <1>50, <2>1, <1>5, <1>6, <1>7, <1>8
<1>51. ASSUME NEW p \in Procs, Look(p)  PROVE BaseInv'
  BY <1>51, <1>9, <1>10
<1>52. ASSUME NEW p \in Procs, Store(p)  PROVE BaseInv'
  BY <1>52, <1>17, <1>18
<1>53. ASSUME NEW c \in Clients, Check(c)  PROVE BaseInv'
  BY <1>53, <1>21, <1>22
<1>54. ASSUME NEW c \in Clients, Insert(c)  PROVE BaseInv'
  BY <1>54, <1>23, <1>24
<1>55. ASSUME NEW c \in Clients, Queue(c)  PROVE BaseInv'
  BY <1>55, <1>25, <1>26
<1>56. ASSUME NEW w \in Workers, NEW s \in Series, Refresh(w, s)  PROVE BaseInv'
  BY <1>56, <1>35, <1>36
<1>57. ASSUME NEW p \in Procs, p \in Workers, ComicFails(p)  PROVE BaseInv'
  <2> DEFINE j == Idle
  <2>1. p \in Procs /\ job[p] \in JobType /\ JobOK(p)
    BY <1>0
  <2>2. Step(p, j)
    BY <1>57 DEF ComicFails, Fails, Done
  <2>3. j \in JobType
    BY <1>0
  <2>. HIDE DEF j
  <2>4. /\ job' \in [Procs -> JobType] /\ job'[p] = j
        /\ \A q \in Procs \ {p} : job'[q] = job[q]
    BY <1>0, <2>1, <2>2, <2>3, Stepped DEF DomInv
  <2>5. DomInv'
    <3>1. Fails(p) /\ UNCHANGED <<shelf, titles, thumb, hints>>
      BY <1>57 DEF ComicFails, rows
    <3>2. disk' \in [Series -> {"none", "dir", "cover"}]
      <4>1. PICK made \in {"none", "dir"} :
              disk' = [disk EXCEPT ![job[p].of] = IF @ = "none" THEN made ELSE @]
        BY <1>57 DEF ComicFails
      <4>2. disk \in [Series -> {"none", "dir", "cover"}]
        BY <1>0 DEF BaseInv, DomInv
      <4>. QED  BY <4>1, <4>2
    <3>. QED  BY <2>1, <2>4, <3>1, <3>2, FailsIsOK DEF DomInv, BaseInv
  <2>6. shelf' = shelf
    BY <1>57 DEF ComicFails, Fails, Done, rows
  <2>7. JobOK(p)'
    BY <2>1, <2>4 DEF JobOK, Aimless, j, Idle
  <2>8. \A q \in Procs \ {p} : JobOK(q)'
    BY <1>0, <2>4, <2>6 DEF JobOK
  <2>. QED  BY <2>5, <2>7, <2>8 DEF BaseInv, JobInv
<1>. QED
  BY <1>1, <1>2, <1>3, <1>4, <1>11, <1>12, <1>13, <1>14, <1>15, <1>16,
     <1>19, <1>20, <1>27, <1>28, <1>29, <1>30, <1>31, <1>32, <1>33, <1>34,
     <1>37, <1>38, <1>39, <1>40, <1>50, <1>51, <1>52, <1>53, <1>54, <1>55,
     <1>56, <1>57
  DEF Next, Procs

(***************************************************************************)
(* What each step does to the jobs, field by field: the step of the        *)
(* process itself, and what the others are told.                           *)
(***************************************************************************)
Others(p) == \A q \in Procs \ {p} : Told(q)

(* p is where it was or elsewhere in the same job ...                      *)
Moved(p) ==
  /\ job'[p].what = job[p].what /\ job'[p].of = job[p].of
  /\ job'[p].title = job[p].title
  /\ job'[p].seen = job[p].seen /\ job'[p].hidden = job[p].hidden
  /\ job'[p].stale = job[p].stale /\ job'[p].lost = job[p].lost
  /\ job'[p].late = job[p].late

SameRow(p) == job'[p].titles = job[p].titles /\ job'[p].thumb = job[p].thumb

(* ... done with it ...                                                    *)
Quit(p) == job'[p] = Idle

(* ... or has begun one, in which it has read nothing yet.                 *)
Began(p) ==
  /\ job[p].at = "idle"
  /\ job'[p].title = NoTitle /\ job'[p].thumb = "remote"
  /\ ~job'[p].stale /\ ~job'[p].lost

LEMMA Apart ==
  ASSUME job \in [Procs -> JobType], NEW p \in Procs, NEW j, job' = [job EXCEPT ![p] = j]
  PROVE  Others(p) /\ job'[p] = j
  BY DEF Others, Told

LEMMA IdleFields ==
  /\ Idle.what = "none" /\ Idle.at = "idle" /\ Idle.of = NoSeries
  /\ Idle.title = NoTitle
  /\ Idle.thumb = "remote" /\ ~Idle.stale /\ ~Idle.lost
  BY DEF Idle

LEMMA OfRefused ==
  ASSUME BaseInv, NEW p \in Procs, Refused(p)
  PROVE  /\ Others(p) /\ Moved(p) /\ SameRow(p)
         /\ job'[p].at = job[p].at
<1>1. job \in [Procs -> JobType] /\ job[p] \in JobType /\ p \in Procs
  BY DEF BaseInv, DomInv, Procs
<1>2. job' = [job EXCEPT ![p] = [job[p] EXCEPT !.tries = @ + 1]]
  BY DEF Refused, Step
<1>3. Others(p) /\ job'[p] = [job[p] EXCEPT !.tries = @ + 1]
  BY <1>1, <1>2, Apart
<1>. QED  BY <1>1, <1>3, IdleFields DEF Refused, Doing, Moved, Quit, Began,
             JobType, SameRow

LEMMA OfFails ==
  ASSUME BaseInv, NEW p \in Procs, Fails(p)
  PROVE  /\ Others(p) /\ Quit(p)
<1>1. job \in [Procs -> JobType] /\ job[p] \in JobType /\ p \in Procs
  BY DEF BaseInv, DomInv, Procs
<1>2. job' = [job EXCEPT ![p] = Idle]
  BY DEF Fails, Step, Done
<1>3. Others(p) /\ job'[p] = Idle
  BY <1>1, <1>2, Apart
<1>. QED  BY <1>1, <1>3, IdleFields DEF Fails, Doing, Moved, Quit, Began, JobType

LEMMA OfAnswered ==
  ASSUME BaseInv, NEW p \in Procs, Answered(p)
  PROVE  /\ Others(p) /\ Moved(p) /\ job'[p].thumb = job[p].thumb
         /\ job[p].at = "ask" /\ job[p].what \in {"add", "import", "refresh"}
         /\ job'[p].at \in {"check", "cover"}
         /\ \E fresh \in SUBSET Titles : job'[p].titles = Merge(job[p].titles, fresh)
<1>1. job \in [Procs -> JobType] /\ job[p] \in JobType
  BY DEF BaseInv, DomInv
<1> DEFINE at == IF job[p].what = "add" THEN "check" ELSE "cover"
<1>2. PICK fresh \in SUBSET Titles :
        job' = [job EXCEPT ![p] = [job[p] EXCEPT !.tries = 0, !.at = at,
                                     !.titles = Merge(job[p].titles, fresh)]]
  BY DEF Answered, Step
<1> DEFINE j == [job[p] EXCEPT !.tries = 0, !.at = at, !.titles = Merge(job[p].titles, fresh)]
<1>3. Others(p) /\ job'[p] = j
  BY <1>1, <1>2, Apart
<1>4. Moved(p) /\ job'[p].thumb = job[p].thumb /\ job'[p].at = at
      /\ job'[p].titles = Merge(job[p].titles, fresh)
  BY <1>1, <1>3 DEF Moved, JobType
<1>. QED  BY <1>3, <1>4 DEF Answered, Doing

LEMMA OfCover ==
  ASSUME BaseInv, NEW p \in Procs, Cover(p)
  PROVE  /\ Others(p) /\ Moved(p) /\ job'[p].titles = job[p].titles
         /\ job[p].at = "cover"
         /\ job[p].what \in {"add", "import", "refresh", "manual", "url"}
         /\ job'[p].at \in {"write", "insert"}
         /\ job'[p].thumb = "own" => disk'[job[p].of] = "cover"
         /\ \A s \in Series : disk[s] = "cover" => disk'[s] = "cover"
<1>1. /\ job \in [Procs -> JobType] /\ job[p] \in JobType
      /\ disk \in [Series -> {"none", "dir", "cover"}]
      /\ job[p].of \in Series
  <2>1. JobOK(p) /\ job[p].what \in {"add", "import", "refresh", "manual", "url"}
    BY DEF BaseInv, JobInv, Cover, Doing
  <2>. QED  BY <2>1 DEF BaseInv, DomInv, JobOK, Aimless
<1> DEFINE at == IF job[p].what \in {"refresh", "url"} THEN "write" ELSE "insert"
<1>2. PICK written \in BOOLEAN :
        /\ disk' = [disk EXCEPT ![job[p].of] = IF written \/ @ = "cover" THEN "cover" ELSE "dir"]
        /\ job' = [job EXCEPT ![p] = [job[p] EXCEPT !.thumb = Address(written), !.at = at]]
  BY DEF Cover, Step
<1>3. Others(p) /\ job'[p] = [job[p] EXCEPT !.thumb = Address(written), !.at = at]
  BY <1>1, <1>2, Apart
<1>4. Moved(p) /\ job'[p].titles = job[p].titles /\ job'[p].thumb = Address(written)
      /\ job'[p].at = at
  BY <1>1, <1>3 DEF Moved, JobType
<1>5. job'[p].thumb = "own" => disk'[job[p].of] = "cover"
  BY <1>1, <1>2, <1>4 DEF Address
<1>6. \A s \in Series : disk[s] = "cover" => disk'[s] = "cover"
  BY <1>1, <1>2
<1>. QED  BY <1>3, <1>4, <1>5, <1>6 DEF Cover, Doing

LEMMA OfClear ==
  ASSUME BaseInv, NEW c \in Clients, Clear(c)
  PROVE  /\ Others(c) /\ Moved(c) /\ SameRow(c)
         /\ job[c].what = "upload" /\ job[c].at = "clear" /\ job'[c].at = "put"
         /\ \A s \in Series \ {job[c].of} : disk'[s] = disk[s]
<1>1. job \in [Procs -> JobType] /\ job[c] \in JobType /\ c \in Procs
  BY DEF BaseInv, DomInv, Procs
<1>2. job' = [job EXCEPT ![c] = [job[c] EXCEPT !.at = "put"]]
  BY DEF Clear, Step, Goto
<1>3. Others(c) /\ job'[c] = [job[c] EXCEPT !.at = "put"]
  BY <1>1, <1>2, Apart
<1>. QED  BY <1>1, <1>3, IdleFields DEF Clear, Doing, Moved, Quit, Began,
             JobType, SameRow, BaseInv, DomInv

LEMMA OfPut ==
  ASSUME BaseInv, NEW c \in Clients, Put(c)
  PROVE  /\ Others(c) /\ Moved(c) /\ job'[c].titles = job[c].titles
         /\ job[c].what = "upload" /\ job[c].at = "put"
         /\ job'[c].at = "write" /\ job'[c].thumb = "own"
         /\ job[c].of \in Series => disk'[job[c].of] = "cover"
         /\ \A s \in Series \ {job[c].of} : disk'[s] = disk[s]
<1>1. job \in [Procs -> JobType] /\ job[c] \in JobType /\ c \in Procs
  BY DEF BaseInv, DomInv, Procs
<1>2. job' = [job EXCEPT ![c] = [job[c] EXCEPT !.at = "write", !.thumb = "own"]]
  BY DEF Put, Step
<1>3. Others(c) /\ job'[c] = [job[c] EXCEPT !.at = "write", !.thumb = "own"]
  BY <1>1, <1>2, Apart
<1>. QED  BY <1>1, <1>3, IdleFields DEF Put, Doing, Moved, Quit, Began, JobType,
             BaseInv, DomInv

LEMMA OfAdd ==
  ASSUME BaseInv, NEW c \in Clients, NEW s \in Series, Add(c, s)
  PROVE  /\ Others(c) /\ Began(c)
         /\ job'[c].what = "add" /\ job'[c].at = "ask" /\ job'[c].of = s
<1>1. job \in [Procs -> JobType] /\ job[c] \in JobType /\ c \in Procs
  BY DEF BaseInv, DomInv, Procs
<1>2. job' = [job EXCEPT ![c] = [Idle EXCEPT !.what = "add", !.of = s, !.at = "ask"]]
  BY DEF Add, Step, Begin
<1>3. Others(c) /\ job'[c] = [Idle EXCEPT !.what = "add", !.of = s, !.at = "ask"]
  BY <1>1, <1>2, Apart
<1>. QED  BY <1>1, <1>3, IdleFields DEF Add, Doing, Moved, Quit, Began, JobType,
             Idle

LEMMA OfImport ==
  ASSUME BaseInv, NEW c \in Clients, NEW s \in Series, Import(c, s)
  PROVE  /\ Others(c) /\ Began(c)
         /\ job'[c].what = "import" /\ job'[c].at = "ask" /\ job'[c].of = s
<1>1. job \in [Procs -> JobType] /\ job[c] \in JobType /\ c \in Procs
  BY DEF BaseInv, DomInv, Procs
<1>2. job' = [job EXCEPT ![c] = [Idle EXCEPT !.what = "import", !.of = s, !.at = "ask"]]
  BY DEF Import, Step, Begin
<1>3. Others(c) /\ job'[c] = [Idle EXCEPT !.what = "import", !.of = s, !.at = "ask"]
  BY <1>1, <1>2, Apart
<1>. QED  BY <1>1, <1>3, IdleFields DEF Import, Doing, Moved, Quit, Began,
             JobType, Idle

LEMMA OfAddByHand ==
  ASSUME BaseInv, NEW c \in Clients, NEW s \in Series, AddByHand(c, s)
  PROVE  /\ Others(c) /\ Began(c)
         /\ job'[c].what = "manual" /\ job'[c].at \in {"cover", "insert"}
         /\ job'[c].of = s
<1>1. job \in [Procs -> JobType] /\ job[c] = Idle /\ c \in Procs
  BY DEF BaseInv, DomInv, Procs, AddByHand
<1>2. PICK at \in {"cover", "insert"} :
          job' = [job EXCEPT ![c] = [Idle EXCEPT !.what = "manual", !.of = s, !.at = at]]
  BY DEF AddByHand, Begin, Step
<1>3. Others(c) /\ job'[c] = [Idle EXCEPT !.what = "manual", !.of = s, !.at = at]
  BY <1>1, <1>2, Apart
<1>. QED  BY <1>1, <1>3 DEF Began, Idle

LEMMA OfDelete ==
  ASSUME BaseInv, NEW c \in Clients, NEW s \in Series, Delete(c, s)
  PROVE  /\ Others(c) /\ Began(c)
         /\ job'[c].what = "delete" /\ job'[c].at \in {"wipe", "drop"}
         /\ job'[c].of = s
<1>1. job \in [Procs -> JobType] /\ job[c] = Idle /\ c \in Procs
  BY DEF BaseInv, DomInv, Procs, Delete
<1>2. PICK at \in {"wipe", "drop"} :
          job' = [job EXCEPT ![c] = [Idle EXCEPT !.what = "delete", !.of = s, !.at = at]]
  BY DEF Delete, Begin, Step
<1>3. Others(c) /\ job'[c] = [Idle EXCEPT !.what = "delete", !.of = s, !.at = at]
  BY <1>1, <1>2, Apart
<1>. QED  BY <1>1, <1>3 DEF Began, Idle

LEMMA OfCheck ==
  ASSUME BaseInv, NEW c \in Clients, Check(c)
  PROVE  /\ job[c].what = "add" /\ job[c].at = "check"
         /\ Others(c)
         /\ Quit(c) \/ (Moved(c) /\ SameRow(c) /\ job'[c].at = "cover")
<1>1. job \in [Procs -> JobType] /\ job[c] \in JobType /\ c \in Procs
  BY DEF BaseInv, DomInv, Procs
<1>2. job' = [job EXCEPT ![c] = Idle] \/ job' = [job EXCEPT ![c] = [job[c] EXCEPT !.at = "cover"]]
  BY DEF Check, Done, Goto, Step
<1>3. Others(c) /\ (job'[c] = Idle \/ job'[c] = [job[c] EXCEPT !.at = "cover"])
  BY <1>1, <1>2, Apart
<1>. QED  BY <1>1, <1>3 DEF Check, Doing, Quit, Moved, SameRow, JobType

LEMMA OfInsert ==
  ASSUME BaseInv, NEW c \in Clients, Insert(c)
  PROVE  /\ job[c].what \in {"add", "import", "manual"} /\ job[c].at = "insert"
         /\ job[c].of \in Series /\ Others(c)
         /\ job[c].of \in shelf => Quit(c)
         /\ job[c].of \notin shelf => /\ Moved(c) /\ SameRow(c) /\ job'[c].at = "queue"
                                   /\ \A q \in Procs \ {c} : job[q].of = job[c].of => job'[q].stale
<1>1. /\ job \in [Procs -> JobType] /\ job[c] \in JobType /\ c \in Procs /\ job[c].of \in Series
      /\ job[c].what \in {"add", "import", "manual"} /\ job[c].at = "insert"
  BY DEF BaseInv, DomInv, Procs, JobInv, JobOK, Insert, Doing, Aimless
<1>2. CASE job[c].of \in shelf
  <2>1. job' = [job EXCEPT ![c] = Idle]
    BY <1>2 DEF Insert, Done, Step
  <2>2. Others(c) /\ job'[c] = Idle
    BY <1>1, <2>1, Apart
  <2>. QED  BY <1>1, <1>2, <2>2 DEF Quit
<1>3. CASE job[c].of \notin shelf
  <2> DEFINE j == [job[c] EXCEPT !.at = "queue"]
  <2>1. Stale(c, job[c].of, j)
    BY <1>3 DEF Insert
  <2>2. /\ j \in JobType /\ j.at = "queue" /\ j.what = job[c].what /\ j.of = job[c].of
        /\ j.title = job[c].title /\ j.seen = job[c].seen
        /\ j.hidden = job[c].hidden
        /\ j.stale = job[c].stale /\ j.lost = job[c].lost /\ j.late = job[c].late
        /\ j.titles = job[c].titles /\ j.thumb = job[c].thumb
    BY <1>1 DEF JobType, Places
  <2>. HIDE DEF j
  <2>3. /\ job'[c] = j
        /\ \A q \in Procs \ {c} : Told(q) /\ (job[q].of = job[c].of => job'[q].stale)
    BY <1>1, <2>1, <2>2, StaleStep
  <2>. QED  BY <1>1, <1>3, <2>2, <2>3 DEF Others, Moved, SameRow
<1>. QED  BY <1>2, <1>3

LEMMA OfQueue ==
  ASSUME BaseInv, NEW c \in Clients, Queue(c)
  PROVE  /\ job[c].what \in {"add", "import", "manual"} /\ job[c].at = "queue"
         /\ job[c].of \in Series /\ Others(c)
         /\ job[c].what = "add" /\ job[c].of \in shelf => Moved(c) /\ SameRow(c) /\ job'[c].at = "look"
         /\ job[c].what # "add" \/ job[c].of \notin shelf => Quit(c)
         /\ \A s \in Series : disk[s] = "cover" => disk'[s] = "cover"
<1>1. /\ job \in [Procs -> JobType] /\ job[c] \in JobType /\ c \in Procs /\ job[c].of \in Series
      /\ job[c].what \in {"add", "import", "manual"} /\ job[c].at = "queue"
  BY DEF BaseInv, DomInv, Procs, JobInv, JobOK, Queue, Doing, Aimless
<1>2. IF job[c].what = "add" /\ job[c].of \in shelf
      THEN job' = [job EXCEPT ![c] = [job[c] EXCEPT !.at = "look"]]
      ELSE job' = [job EXCEPT ![c] = Idle]
  BY <1>1 DEF Queue, Done, Goto, Step
<1>3. Others(c) /\ IF job[c].what = "add" /\ job[c].of \in shelf
                  THEN job'[c] = [job[c] EXCEPT !.at = "look"] ELSE job'[c] = Idle
  BY <1>1, <1>2, Apart
<1>4. \A s \in Series : disk[s] = "cover" => disk'[s] = "cover"
  BY <1>1 DEF Queue, BaseInv, DomInv
<1>. QED  BY <1>1, <1>3, <1>4 DEF Quit, Moved, SameRow, JobType

LEMMA OfLook ==
  ASSUME BaseInv, NEW p \in Procs, Look(p)
  PROVE  /\ job[p].what \in {"add", "refresh"} /\ job[p].at = "look"
         /\ job[p].of \in Series /\ Others(p)
         /\ ToCome => Quit(p)
         /\ ~ToCome => Moved(p) /\ SameRow(p) /\ job'[p].at = "request"
<1>1. /\ job \in [Procs -> JobType] /\ job[p] \in JobType /\ job[p].of \in Series
      /\ job[p].what \in {"add", "refresh"} /\ job[p].at = "look"
  BY DEF BaseInv, DomInv, JobInv, JobOK, Look, Doing, Aimless
<1>2. IF ToCome THEN job' = [job EXCEPT ![p] = Idle]
      ELSE job' = [job EXCEPT ![p] = [job[p] EXCEPT !.at = "request"]]
  BY DEF Look, Done, Goto, Step
<1>3. Others(p) /\ IF ToCome THEN job'[p] = Idle ELSE job'[p] = [job[p] EXCEPT !.at = "request"]
  BY <1>1, <1>2, Apart
<1>. QED  BY <1>1, <1>3 DEF Quit, Moved, SameRow, JobType

LEMMA OfRequest ==
  ASSUME BaseInv, NEW p \in Procs, Request(p)
  PROVE  /\ Others(p) /\ Quit(p)
         /\ job[p].what \in {"add", "refresh"} /\ job[p].at = "request"
<1>1. job \in [Procs -> JobType] /\ job[p] \in JobType /\ p \in Procs
  BY DEF BaseInv, DomInv, Procs
<1>2. job' = [job EXCEPT ![p] = Idle]
  BY DEF Request, Step, Done
<1>3. Others(p) /\ job'[p] = Idle
  BY <1>1, <1>2, Apart
<1>. QED  BY <1>1, <1>3, IdleFields DEF Request, Doing, Moved, Quit, Began,
             JobType

LEMMA OfSuggest ==
  ASSUME BaseInv, NEW p \in Procs, Suggest(p)
  PROVE  /\ Others(p) /\ Began(p)
         /\ job'[p].what = "suggest" /\ job'[p].at = "read"
         /\ job'[p].of = NoSeries
<1>1. job \in [Procs -> JobType] /\ job[p] \in JobType /\ p \in Procs
  BY DEF BaseInv, DomInv, Procs
<1>2. job' = [job EXCEPT ![p] = [Idle EXCEPT !.what = "suggest", !.at = "read"]]
  BY DEF Suggest, Step
<1>3. Others(p) /\ job'[p] = [Idle EXCEPT !.what = "suggest", !.at = "read"]
  BY <1>1, <1>2, Apart
<1>. QED  BY <1>1, <1>3, IdleFields DEF Suggest, Doing, Moved, Quit, Began,
             JobType, Idle

LEMMA OfReadShelf ==
  ASSUME BaseInv, NEW p \in Procs, ReadShelf(p)
  PROVE  /\ job[p].what = "suggest" /\ job[p].at = "read" /\ Others(p)
         /\ job'[p].what = "suggest" /\ job'[p].at \in {"recall", "ask"}
         /\ job'[p].of = job[p].of
         /\ job'[p].title = job[p].title /\ job'[p].seen = shelf
<1>1. job \in [Procs -> JobType] /\ job[p] \in JobType /\ p \in Procs
  BY DEF BaseInv, DomInv, Procs
<1>2. job' = [job EXCEPT ![p] = [job[p] EXCEPT !.seen = shelf,
                !.cached = {i \in Listed : hints[i] # "no"},
                !.at = IF shelf \cap Listed = {} THEN "recall" ELSE "ask"]]
  BY DEF ReadShelf, Step
<1>3. Others(p) /\ job'[p] = [job[p] EXCEPT !.seen = shelf,
                !.cached = {i \in Listed : hints[i] # "no"},
                !.at = IF shelf \cap Listed = {} THEN "recall" ELSE "ask"]
  BY <1>1, <1>2, Apart
<1>. QED  BY <1>1, <1>3, IdleFields DEF ReadShelf, Doing, Moved, Quit, Began,
             JobType

LEMMA OfBundled ==
  ASSUME BaseInv, NEW p \in Procs, Bundled(p)
  PROVE  /\ Others(p) /\ Moved(p)
         /\ job[p].what = "suggest" /\ job[p].at = "ask"
         /\ job'[p].at \in {"recall", "details"}
<1>1. job \in [Procs -> JobType] /\ job[p] \in JobType /\ p \in Procs
  BY DEF BaseInv, DomInv, Procs
<1>2. job' = [job EXCEPT ![p] = [job[p] EXCEPT !.tries = 0,
      !.at = IF Recommended(job[p].seen) \subseteq job[p].cached THEN "recall" ELSE "details"]]
  BY DEF Bundled, Step
<1>3. Others(p) /\ job'[p] = [job[p] EXCEPT !.tries = 0,
      !.at = IF Recommended(job[p].seen) \subseteq job[p].cached THEN "recall" ELSE "details"]
  BY <1>1, <1>2, Apart
<1>. QED  BY <1>1, <1>3, IdleFields DEF Bundled, Doing, Moved, Quit, Began,
             JobType

LEMMA OfDetailed ==
  ASSUME BaseInv, NEW p \in Procs, Detailed(p)
  PROVE  /\ Others(p) /\ Moved(p)
         /\ job[p].what = "suggest" /\ job[p].at = "details"
         /\ job'[p].at \in {"recall", "details"}
<1>1. job \in [Procs -> JobType] /\ job[p] \in JobType /\ p \in Procs
  BY DEF BaseInv, DomInv, Procs
<1>2. job' = [job EXCEPT ![p] = [job[p] EXCEPT !.tries = 0, !.at = "recall"]]
  BY DEF Detailed, Step
<1>3. Others(p) /\ job'[p] = [job[p] EXCEPT !.tries = 0, !.at = "recall"]
  BY <1>1, <1>2, Apart
<1>. QED  BY <1>1, <1>3, IdleFields DEF Detailed, Doing, Moved, Quit, Began,
             JobType

LEMMA OfRecall ==
  ASSUME BaseInv, NEW p \in Procs, Recall(p)
  PROVE  /\ Others(p) /\ job[p].what = "suggest" /\ job[p].at = "recall"
         /\ job'[p].what = "suggest" /\ job'[p].at = "store"
         /\ job'[p].of = job[p].of
         /\ job'[p].title = job[p].title /\ job'[p].seen = job[p].seen
         /\ job'[p].stale = job[p].stale
         /\ job'[p].hidden = {i \in Listed : hints[i] = "hidden"}
<1>1. job \in [Procs -> JobType] /\ job[p] \in JobType /\ p \in Procs
  BY DEF BaseInv, DomInv, Procs
<1>2. job' = [job EXCEPT ![p] = [job[p] EXCEPT !.at = "store", !.late = {},
                !.hidden = {i \in Listed : hints[i] = "hidden"}]]
  BY DEF Recall, Step
<1>3. Others(p) /\ job'[p] = [job[p] EXCEPT !.at = "store", !.late = {},
                !.hidden = {i \in Listed : hints[i] = "hidden"}]
  BY <1>1, <1>2, Apart
<1>. QED  BY <1>1, <1>3, IdleFields DEF Recall, Doing, Moved, Quit, Began, JobType

LEMMA OfStore ==
  ASSUME BaseInv, NEW p \in Procs, Store(p)
  PROVE  /\ job[p].what = "suggest" /\ job[p].at = "store" /\ Others(p) /\ Quit(p)
         /\ \/ Fails(p) /\ UNCHANGED hints
            \/ \A q \in Procs \ {p} : job[q].what = "suggest" =>
                 /\ job'[q].stale
                 /\ \A i \in Listed : hints'[i] # hints[i] => i \in job'[q].late
<1>1. /\ job \in [Procs -> JobType] /\ job[p].what = "suggest" /\ job[p].at = "store"
  BY DEF BaseInv, DomInv, Store, Doing
<1>2. CASE Fails(p) /\ UNCHANGED hints
  BY <1>1, <1>2, OfFails
<1>3. CASE Sources(job[p].seen) \subseteq shelf
  <2> DEFINE D    == {i \in Listed : hints'[i] # hints[i]}
             j(q) == [job[q] EXCEPT !.stale = TRUE, !.late = job[q].late \cup D]
  <2>1. job' = [q \in Procs |-> IF q = p THEN Idle
                                ELSE IF job[q].what # "suggest" THEN job[q] ELSE j(q)]
    BY <1>3 DEF Store
  <2>2. ASSUME NEW q \in Procs \ {p}
        PROVE  Told(q) /\ (job[q].what = "suggest" => job'[q].stale /\ D \subseteq job'[q].late)
    <3>. HIDE DEF D
    <3>1. job[q] \in JobType
      BY <1>1
    <3>2. /\ j(q).at = job[q].at /\ j(q).what = job[q].what /\ j(q).of = job[q].of
          /\ j(q).titles = job[q].titles /\ j(q).title = job[q].title
          /\ j(q).thumb = job[q].thumb
          /\ j(q).seen = job[q].seen /\ j(q).hidden = job[q].hidden
          /\ j(q).lost = job[q].lost /\ j(q).stale = TRUE
          /\ j(q).late = job[q].late \cup D
      BY <3>1 DEF JobType
    <3>3. job'[q] = IF job[q].what # "suggest" THEN job[q] ELSE j(q)
      BY <2>1
    <3>. HIDE DEF j
    <3>. QED  BY <3>2, <3>3 DEF Told
  <2>3. job'[p] = Idle
    BY <2>1
  <2>. QED  BY <1>1, <2>2, <2>3 DEF Others, Quit
<1>. QED  BY <1>2, <1>3 DEF Store

LEMMA OfHide ==
  ASSUME BaseInv, NEW i \in Listed, Hide(i)
  PROVE  /\ \A q \in Procs : Told(q) /\ (job[q].at = "store" => i \in job'[q].late)
         /\ \A k \in Listed \ {i} : hints'[k] = hints[k]
         /\ edits \in Nat => edits' # edits
<1>1. job \in [Procs -> JobType]
  BY DEF BaseInv, DomInv
<1> DEFINE j(q) == [job[q] EXCEPT !.late = job[q].late \cup {i}]
<1>2. job' = [q \in Procs |-> IF job[q].at = "store" THEN j(q) ELSE job[q]]
  BY DEF Hide
<1>3. ASSUME NEW q \in Procs
      PROVE  Told(q) /\ (job[q].at = "store" => i \in job'[q].late)
  <2>1. job[q] \in JobType
    BY <1>1
  <2>2. /\ j(q).at = job[q].at /\ j(q).what = job[q].what /\ j(q).of = job[q].of
        /\ j(q).titles = job[q].titles /\ j(q).title = job[q].title
        /\ j(q).thumb = job[q].thumb
        /\ j(q).seen = job[q].seen /\ j(q).hidden = job[q].hidden
        /\ j(q).lost = job[q].lost
        /\ j(q).stale = job[q].stale /\ j(q).late = job[q].late \cup {i}
    BY <2>1 DEF JobType
  <2>3. job'[q] = IF job[q].at = "store" THEN j(q) ELSE job[q]
    BY <1>2
  <2>. HIDE DEF j
  <2>. QED  BY <2>2, <2>3 DEF Told
<1>4. \A k \in Listed \ {i} : hints'[k] = hints[k]
  BY DEF Hide, BaseInv, DomInv
<1>. QED  BY <1>3, <1>4 DEF Hide, Edit

LEMMA OfWrite ==
  ASSUME BaseInv, NEW p \in Procs, Write(p)
  PROVE  /\ job[p].what \in {"titles", "upload", "url", "refresh"} /\ job[p].at = "write"
         /\ job[p].of \in Series /\ Others(p)
         /\ Quit(p) \/ (job[p].what = "refresh" /\ Moved(p) /\ SameRow(p) /\ job'[p].at = "comic")
         /\ job[p].of \in shelf => \A q \in Procs \ {p} : job[q].of = job[p].of => job'[q].stale
<1>1. /\ job \in [Procs -> JobType] /\ job[p] \in JobType /\ job[p].of \in Series /\ Idle \in JobType
      /\ job[p].what \in {"titles", "upload", "url", "refresh"}
      /\ job[p].at = "write"
  BY IdleType DEF BaseInv, DomInv, JobInv, JobOK, Write, Doing, Aimless
<1> DEFINE next == IF job[p].what = "refresh" THEN [job[p] EXCEPT !.at = "comic"] ELSE Idle
<1>2. next \in JobType
  BY <1>1 DEF JobType, Places
<1>3. ASSUME job'[p] = next
      PROVE  Quit(p) \/ (job[p].what = "refresh" /\ Moved(p) /\ SameRow(p) /\ job'[p].at = "comic")
  BY <1>1, <1>3 DEF Quit, Moved, SameRow, JobType
<1>4. CASE job[p].of \in shelf
  <2>1. Stale(p, job[p].of, next)
    BY <1>4 DEF Write
  <2>. HIDE DEF next
  <2>2. /\ job'[p] = next
        /\ \A q \in Procs \ {p} : Told(q) /\ (job[q].of = job[p].of => job'[q].stale)
    BY <1>1, <1>2, <2>1, StaleStep
  <2>. QED  BY <1>1, <1>3, <2>2 DEF Others
<1>5. CASE job[p].of \notin shelf
  <2>1. job' = [job EXCEPT ![p] = next] \/ job' = [job EXCEPT ![p] = Idle]
    BY <1>5 DEF Write, Fails, Done, Step
  <2>. HIDE DEF next
  <2>2. Others(p) /\ (job'[p] = next \/ job'[p] = Idle)
    BY <1>1, <2>1, Apart
  <2>. QED  BY <1>1, <1>3, <1>5, <2>2 DEF Quit
<1>. QED  BY <1>4, <1>5

LEMMA OfRefresh ==
  ASSUME BaseInv, NEW w \in Workers, NEW s \in Series, Refresh(w, s)
  PROVE  /\ s \in shelf /\ Others(w) /\ job[w] = Idle
         /\ \/ Quit(w)
            \/ /\ job'[w].what = "refresh" /\ job'[w].of = s
               /\ job'[w].at = "ask" /\ job'[w].title = NoTitle
               /\ job'[w].titles = titles[s] /\ job'[w].thumb = thumb[s]
               /\ ~job'[w].stale
<1>1. job \in [Procs -> JobType] /\ w \in Procs /\ job[w] = Idle /\ s \in shelf
  BY DEF BaseInv, DomInv, Procs, Refresh
<1> DEFINE j == [Idle EXCEPT !.what = "refresh", !.of = s, !.at = "ask",
                            !.titles = titles[s], !.thumb = thumb[s]]
<1>2. job' = [job EXCEPT ![w] = Idle] \/ job' = [job EXCEPT ![w] = j]
  BY DEF Refresh, Step
<1>3. Others(w) /\ (job'[w] = Idle \/ job'[w] = j)
  BY <1>1, <1>2, Apart
<1>4. /\ j.what = "refresh" /\ j.of = s /\ j.at = "ask" /\ j.title = NoTitle
      /\ j.titles = titles[s] /\ j.thumb = thumb[s] /\ ~j.stale
  BY DEF Idle
<1>. QED  BY <1>1, <1>3, <1>4 DEF Quit

LEMMA OfComic ==
  ASSUME BaseInv, NEW w \in Workers, Comic(w)
  PROVE  /\ Others(w) /\ Moved(w) /\ SameRow(w)
         /\ job[w].what = "refresh" /\ job[w].at = "comic" /\ job'[w].at = "look"
         /\ \A s \in Series : disk[s] = "cover" => disk'[s] = "cover"
<1>1. job \in [Procs -> JobType] /\ job[w] \in JobType /\ w \in Procs
  BY DEF BaseInv, DomInv, Procs
<1>2. job' = [job EXCEPT ![w] = [job[w] EXCEPT !.at = "look"]]
  BY DEF Comic, Step, Goto
<1>3. Others(w) /\ job'[w] = [job[w] EXCEPT !.at = "look"]
  BY <1>1, <1>2, Apart
<1>. QED  BY <1>1, <1>3, IdleFields DEF Comic, Doing, Moved, Quit, Began,
             JobType, SameRow, BaseInv, DomInv

LEMMA OfWipe ==
  ASSUME BaseInv, NEW c \in Clients, Wipe(c)
  PROVE  /\ Others(c) /\ Moved(c) /\ SameRow(c)
         /\ job[c].what = "delete" /\ job[c].at = "wipe" /\ job'[c].at = "drop"
         /\ \A s \in Series \ {job[c].of} : disk'[s] = disk[s]
<1>1. job \in [Procs -> JobType] /\ job[c] \in JobType /\ c \in Procs
  BY DEF BaseInv, DomInv, Procs
<1>2. job' = [job EXCEPT ![c] = [job[c] EXCEPT !.at = "drop"]]
  BY DEF Wipe, Step, Goto
<1>3. Others(c) /\ job'[c] = [job[c] EXCEPT !.at = "drop"]
  BY <1>1, <1>2, Apart
<1>. QED  BY <1>1, <1>3, IdleFields DEF Wipe, Doing, Moved, Quit, Began,
             JobType, SameRow, BaseInv, DomInv

LEMMA OfDrop ==
  ASSUME BaseInv, NEW c \in Clients, Drop(c)
  PROVE  /\ job[c].what = "delete" /\ job[c].at = "drop" /\ job[c].of \in Series
         /\ Others(c) /\ Quit(c)
         /\ \A q \in Procs \ {c} : job[q].of = job[c].of => job'[q].stale
<1>1. /\ job \in [Procs -> JobType] /\ c \in Procs /\ job[c].of \in Series
      /\ job[c].what = "delete" /\ job[c].at = "drop"
  BY DEF BaseInv, DomInv, Procs, JobInv, JobOK, Drop, Doing, Aimless
<1> DEFINE j(q) == [job[q] EXCEPT !.stale = TRUE, !.lost = TRUE]
<1>2. job' = [q \in Procs |-> IF q = c THEN Idle ELSE IF job[q].of = job[c].of THEN j(q) ELSE job[q]]
  BY DEF Drop
<1>3. ASSUME NEW q \in Procs \ {c}
      PROVE  Told(q) /\ (job[q].of = job[c].of => job'[q].stale)
  <2>1. job[q] \in JobType
    BY <1>1
  <2>2. /\ j(q).at = job[q].at /\ j(q).what = job[q].what /\ j(q).of = job[q].of
        /\ j(q).titles = job[q].titles /\ j(q).title = job[q].title
        /\ j(q).thumb = job[q].thumb
        /\ j(q).seen = job[q].seen /\ j(q).hidden = job[q].hidden
        /\ j(q).lost = TRUE
        /\ j(q).stale = TRUE /\ j(q).late = job[q].late
    BY <2>1 DEF JobType
  <2>3. job'[q] = IF job[q].of = job[c].of THEN j(q) ELSE job[q]
    BY <1>2
  <2>. HIDE DEF j
  <2>. QED  BY <1>1, <2>2, <2>3, CatalogAssumption DEF Told
<1>4. job'[c] = Idle
  BY <1>1, <1>2
<1>. QED  BY <1>1, <1>3, <1>4 DEF Others, Quit

LEMMA OfChange ==
  ASSUME BaseInv, NEW c \in Clients, NEW s \in Series, Change(c, s)
  PROVE  /\ s \in shelf /\ Others(c) /\ job[c] = Idle
         /\ job'[c].of = s /\ job'[c].thumb = thumb[s] /\ ~job'[c].stale
         /\ \/ /\ job'[c].what = "titles" /\ job'[c].at = "write" /\ job'[c].title \in Titles
               /\ \A t \in Titles \ {job'[c].title} : job'[c].titles[t] = titles[s][t]
            \/ /\ \/ job'[c].what = "upload" /\ job'[c].at = "clear"
                  \/ job'[c].what = "url" /\ job'[c].at = "cover"
               /\ job'[c].title = NoTitle /\ job'[c].titles = titles[s]
<1>1. job \in [Procs -> JobType] /\ c \in Procs
  BY DEF BaseInv, DomInv, Procs
<1>2. PICK j \in JobType :
        /\ job' = [job EXCEPT ![c] = j]
        /\ j.of = s /\ j.thumb = thumb[s] /\ ~j.stale /\ ~j.lost
        /\ \/ /\ j.what = "titles" /\ j.at = "write" /\ j.title \in Titles
              /\ \A t \in Titles \ {j.title} : j.titles[t] = titles[s][t]
           \/ j.what = "upload" /\ j.at = "clear" /\ j.title = NoTitle /\ j.titles = titles[s]
           \/ j.what = "url" /\ j.at = "cover" /\ j.title = NoTitle /\ j.titles = titles[s]
  BY Changed
<1>3. Others(c) /\ job'[c] = j
  BY <1>1, <1>2, Apart
<1>. QED  BY <1>2, <1>3 DEF Change

(***************************************************************************)
(* HiddenStays: what a refresh takes for hidden is hidden still, or known  *)
(* to have changed since it was read.                                      *)
(***************************************************************************)
HintInv ==
  \A p \in Procs : job[p].at = "store" =>
    \A i \in Listed : (hints[i] = "hidden" <=> i \in job[p].hidden) \/ i \in job[p].late

LEMMA HintQuiet ==
  ASSUME HintInv, UNCHANGED hints,
         \A q \in Procs : job'[q].at = "store" =>
           /\ job[q].at = "store" /\ job'[q].hidden = job[q].hidden
           /\ job[q].late \subseteq job'[q].late
  PROVE  HintInv'
  BY DEF HintInv

LEMMA HintInit == Init => HintInv
  BY IdleFields DEF Init, HintInv

LEMMA HintNext == BaseInv /\ HintInv /\ [Next]_vars => HintInv'
<1> SUFFICES ASSUME BaseInv, HintInv, [Next]_vars  PROVE HintInv'
  OBVIOUS
<1>0. Clients \subseteq Procs /\ Workers \subseteq Procs
  BY DEF Procs
<1>1. ASSUME NEW p \in Procs, Refused(p)  PROVE HintInv'
  <2>1. UNCHANGED hints
    BY <1>1 DEF Refused
  <2>. QED  BY <1>1, <1>0, <2>1, HintQuiet, OfRefused, IdleFields DEF Others,
               Told, Moved, Quit, Began
<1>2. ASSUME NEW p \in Procs, Unanswered(p)  PROVE HintInv'
  <2>1. UNCHANGED hints
    BY <1>2 DEF Unanswered
  <2>. QED  BY <1>2, <1>0, <2>1, HintQuiet, OfFails, IdleFields DEF Unanswered,
               Others, Told, Moved, Quit, Began
<1>3. ASSUME NEW p \in Procs, Answered(p)  PROVE HintInv'
  <2>1. UNCHANGED hints
    BY <1>3 DEF Answered
  <2>. QED  BY <1>3, <1>0, <2>1, HintQuiet, OfAnswered, IdleFields DEF Others,
               Told, Moved, Quit, Began
<1>4. ASSUME NEW p \in Procs, Cover(p)  PROVE HintInv'
  <2>1. UNCHANGED hints
    BY <1>4 DEF Cover
  <2>. QED  BY <1>4, <1>0, <2>1, HintQuiet, OfCover, IdleFields DEF Others,
               Told, Moved, Quit, Began
<1>5. ASSUME NEW p \in Procs, Write(p)  PROVE HintInv'
  <2>1. UNCHANGED hints
    BY <1>5 DEF Write
  <2>. QED  BY <1>5, <1>0, <2>1, HintQuiet, OfWrite, IdleFields DEF Others,
               Told, Moved, Quit, Began
<1>6. ASSUME NEW p \in Procs, Look(p)  PROVE HintInv'
  <2>1. UNCHANGED hints
    BY <1>6 DEF Look
  <2>. QED  BY <1>6, <1>0, <2>1, HintQuiet, OfLook, IdleFields DEF Others, Told,
               Moved, Quit, Began
<1>7. ASSUME NEW p \in Procs, Request(p)  PROVE HintInv'
  <2>1. UNCHANGED hints
    BY <1>7 DEF Request
  <2>. QED  BY <1>7, <1>0, <2>1, HintQuiet, OfRequest, IdleFields DEF Others,
               Told, Moved, Quit, Began
<1>8. ASSUME NEW p \in Procs, Suggest(p)  PROVE HintInv'
  <2>1. UNCHANGED hints
    BY <1>8 DEF Suggest
  <2>. QED  BY <1>8, <1>0, <2>1, HintQuiet, OfSuggest, IdleFields DEF Others,
               Told, Moved, Quit, Began
<1>9. ASSUME NEW p \in Procs, ReadShelf(p)  PROVE HintInv'
  <2>1. UNCHANGED hints
    BY <1>9 DEF ReadShelf
  <2>. QED  BY <1>9, <1>0, <2>1, HintQuiet, OfReadShelf, IdleFields DEF Others,
               Told, Moved, Quit, Began
<1>10. ASSUME NEW p \in Procs, Bundled(p)  PROVE HintInv'
  <2>1. UNCHANGED hints
    BY <1>10 DEF Bundled
  <2>. QED  BY <1>10, <1>0, <2>1, HintQuiet, OfBundled, IdleFields DEF Others,
               Told, Moved, Quit, Began
<1>11. ASSUME NEW p \in Procs, Detailed(p)  PROVE HintInv'
  <2>1. UNCHANGED hints
    BY <1>11 DEF Detailed
  <2>. QED  BY <1>11, <1>0, <2>1, HintQuiet, OfDetailed, IdleFields DEF Others,
               Told, Moved, Quit, Began
<1>12. ASSUME NEW p \in Procs, Recall(p)  PROVE HintInv'
  <2>1. UNCHANGED hints
    BY <1>12 DEF Recall
  <2>. QED  BY <1>12, <2>1, OfRecall DEF HintInv, Others, Told
<1>13. ASSUME NEW p \in Procs, Store(p)  PROVE HintInv'
  <2>1. Others(p) /\ Quit(p) /\ job[p].what = "suggest"
    BY <1>13, OfStore
  <2>2. CASE UNCHANGED hints
    BY <2>1, <2>2, HintQuiet, IdleFields DEF Others, Told, Quit
  <2>3. CASE \A q \in Procs \ {p} : job[q].what = "suggest" =>
               \A i \in Listed : hints'[i] # hints[i] => i \in job'[q].late
    <3> SUFFICES ASSUME NEW q \in Procs, job'[q].at = "store", NEW i \in Listed
                 PROVE  (hints'[i] = "hidden" <=> i \in job'[q].hidden) \/ i \in job'[q].late
      BY DEF HintInv
    <3>1. /\ q # p /\ job[q].at = "store" /\ job[q].hidden = job'[q].hidden
          /\ job[q].late \subseteq job'[q].late
      BY <2>1, IdleFields DEF Others, Told, Quit
    <3>2. job[q].what = "suggest"
      <4>1. JobOK(q) /\ job[q] \in JobType
        BY DEF BaseInv, JobInv, DomInv
      <4>2. job[q].what \in Whats
        BY <4>1 DEF JobType
      <4>. QED  BY <3>1, <4>1, <4>2 DEF JobOK, Whats
    <3>. QED  BY <2>3, <3>1, <3>2 DEF HintInv
  <2>. QED  BY <1>13, <2>2, <2>3, OfStore
<1>14. ASSUME NEW c \in Clients, Clear(c)  PROVE HintInv'
  <2>1. UNCHANGED hints
    BY <1>14 DEF Clear
  <2>. QED  BY <1>14, <1>0, <2>1, HintQuiet, OfClear, IdleFields DEF Others,
               Told, Moved, Quit, Began
<1>15. ASSUME NEW c \in Clients, Put(c)  PROVE HintInv'
  <2>1. UNCHANGED hints
    BY <1>15 DEF Put
  <2>. QED  BY <1>15, <1>0, <2>1, HintQuiet, OfPut, IdleFields DEF Others, Told,
               Moved, Quit, Began
<1>16. ASSUME NEW c \in Clients, Check(c)  PROVE HintInv'
  <2>1. UNCHANGED hints
    BY <1>16 DEF Check
  <2>. QED  BY <1>16, <1>0, <2>1, HintQuiet, OfCheck, IdleFields DEF Others,
               Told, Moved, Quit, Began
<1>17. ASSUME NEW c \in Clients, Insert(c)  PROVE HintInv'
  <2>1. UNCHANGED hints
    BY <1>17 DEF Insert
  <2>. QED  BY <1>17, <1>0, <2>1, HintQuiet, OfInsert, IdleFields DEF Others,
               Told, Moved, Quit, Began
<1>18. ASSUME NEW c \in Clients, Queue(c)  PROVE HintInv'
  <2>1. UNCHANGED hints
    BY <1>18 DEF Queue
  <2>. QED  BY <1>18, <1>0, <2>1, HintQuiet, OfQueue, IdleFields DEF Others,
               Told, Moved, Quit, Began
<1>19. ASSUME NEW c \in Clients, Wipe(c)  PROVE HintInv'
  <2>1. UNCHANGED hints
    BY <1>19 DEF Wipe
  <2>. QED  BY <1>19, <1>0, <2>1, HintQuiet, OfWipe, IdleFields DEF Others,
               Told, Moved, Quit, Began
<1>20. ASSUME NEW c \in Clients, Drop(c)  PROVE HintInv'
  <2>1. UNCHANGED hints
    BY <1>20 DEF Drop
  <2>. QED  BY <1>20, <1>0, <2>1, HintQuiet, OfDrop, IdleFields DEF Others,
               Told, Moved, Quit, Began
<1>21. ASSUME NEW c \in Clients, NEW s \in Series, Add(c, s)  PROVE HintInv'
  <2>1. UNCHANGED hints
    BY <1>21 DEF Add
  <2>. QED  BY <1>21, <1>0, <2>1, HintQuiet, OfAdd, IdleFields DEF Others, Told,
               Moved, Quit, Began
<1>22. ASSUME NEW c \in Clients, NEW s \in Series, AddByHand(c, s)  PROVE HintInv'
  <2>1. UNCHANGED hints
    BY <1>22 DEF AddByHand
  <2>. QED  BY <1>22, <1>0, <2>1, HintQuiet, OfAddByHand, IdleFields DEF Others,
               Told, Moved, Quit, Began
<1>23. ASSUME NEW c \in Clients, NEW s \in Series, Import(c, s)  PROVE HintInv'
  <2>1. UNCHANGED hints
    BY <1>23 DEF Import
  <2>. QED  BY <1>23, <1>0, <2>1, HintQuiet, OfImport, IdleFields DEF Others,
               Told, Moved, Quit, Began
<1>24. ASSUME NEW c \in Clients, NEW s \in Series, Change(c, s)  PROVE HintInv'
  <2>1. UNCHANGED hints
    BY <1>24 DEF Change
  <2>. QED  BY <1>24, <1>0, <2>1, HintQuiet, OfChange, IdleFields DEF Others,
               Told, Moved, Quit, Began
<1>25. ASSUME NEW c \in Clients, NEW s \in Series, Delete(c, s)  PROVE HintInv'
  <2>1. UNCHANGED hints
    BY <1>25 DEF Delete
  <2>. QED  BY <1>25, <1>0, <2>1, HintQuiet, OfDelete, IdleFields DEF Others,
               Told, Moved, Quit, Began
<1>26. ASSUME NEW w \in Workers, Comic(w)  PROVE HintInv'
  <2>1. UNCHANGED hints
    BY <1>26 DEF Comic
  <2>. QED  BY <1>26, <1>0, <2>1, HintQuiet, OfComic, IdleFields DEF Others,
               Told, Moved, Quit, Began
<1>27. ASSUME NEW w \in Workers, NEW s \in Series, Refresh(w, s)  PROVE HintInv'
  <2>1. UNCHANGED hints
    BY <1>27 DEF Refresh
  <2>. QED  BY <1>27, <1>0, <2>1, HintQuiet, OfRefresh, IdleFields DEF Others,
               Told, Moved, Quit, Began
<1>28. ASSUME NEW s \in Series, AskRefresh(s)  PROVE HintInv'
  BY <1>28, HintQuiet DEF AskRefresh, vars
<1>29. ASSUME NEW i \in Listed, Hide(i)  PROVE HintInv'
  BY <1>29, OfHide DEF HintInv, Told
<1>30. ASSUME Crash  PROVE HintInv'
  BY <1>30, HintQuiet, IdleFields DEF Crash
<1>31. ASSUME UNCHANGED vars  PROVE HintInv'
  BY <1>31, HintQuiet DEF AskRefresh, vars
<1>32. ASSUME NEW p \in Procs, p \in Workers, ComicFails(p)  PROVE HintInv'
  <2>1. UNCHANGED hints
    BY <1>32 DEF ComicFails
  <2>. QED  BY <1>32, <1>0, <2>1, HintQuiet, OfFails, IdleFields DEF ComicFails,
               Others, Told, Moved, Quit, Began
<1>. QED
  BY <1>1, <1>2, <1>3, <1>4, <1>5, <1>6, <1>7, <1>8, <1>9, <1>10, <1>11,
     <1>12, <1>13, <1>14, <1>15, <1>16, <1>17, <1>18, <1>19, <1>20, <1>21,
     <1>22, <1>23, <1>24, <1>25, <1>26, <1>27, <1>28, <1>29, <1>30, <1>31, <1>32
  DEF Next, Procs

LEMMA EditsNext == edits \in Nat /\ [Next]_vars => edits' \in Nat
<1> SUFFICES ASSUME edits \in Nat, [Next]_vars  PROVE edits' \in Nat
  OBVIOUS
<1>1. ASSUME NEW p \in Procs, Refused(p)  PROVE edits' \in Nat
  BY <1>1 DEF Refused, Edit
<1>2. ASSUME NEW p \in Procs, Unanswered(p)  PROVE edits' \in Nat
  BY <1>2 DEF Unanswered, Edit
<1>3. ASSUME NEW p \in Procs, Answered(p)  PROVE edits' \in Nat
  BY <1>3 DEF Answered, Edit
<1>4. ASSUME NEW p \in Procs, Cover(p)  PROVE edits' \in Nat
  BY <1>4 DEF Cover, Edit
<1>5. ASSUME NEW p \in Procs, Write(p)  PROVE edits' \in Nat
  BY <1>5 DEF Write, Edit
<1>6. ASSUME NEW p \in Procs, Look(p)  PROVE edits' \in Nat
  BY <1>6 DEF Look, Edit
<1>7. ASSUME NEW p \in Procs, Request(p)  PROVE edits' \in Nat
  BY <1>7 DEF Request, Edit
<1>8. ASSUME NEW p \in Procs, Suggest(p)  PROVE edits' \in Nat
  BY <1>8 DEF Suggest, Edit
<1>9. ASSUME NEW p \in Procs, ReadShelf(p)  PROVE edits' \in Nat
  BY <1>9 DEF ReadShelf, Edit
<1>10. ASSUME NEW p \in Procs, Bundled(p)  PROVE edits' \in Nat
  BY <1>10 DEF Bundled, Edit
<1>11. ASSUME NEW p \in Procs, Detailed(p)  PROVE edits' \in Nat
  BY <1>11 DEF Detailed, Edit
<1>12. ASSUME NEW p \in Procs, Recall(p)  PROVE edits' \in Nat
  BY <1>12 DEF Recall, Edit
<1>13. ASSUME NEW p \in Procs, Store(p)  PROVE edits' \in Nat
  BY <1>13 DEF Store, Edit
<1>14. ASSUME NEW c \in Clients, Clear(c)  PROVE edits' \in Nat
  BY <1>14 DEF Clear, Edit
<1>15. ASSUME NEW c \in Clients, Put(c)  PROVE edits' \in Nat
  BY <1>15 DEF Put, Edit
<1>16. ASSUME NEW c \in Clients, Check(c)  PROVE edits' \in Nat
  BY <1>16 DEF Check, Edit
<1>17. ASSUME NEW c \in Clients, Insert(c)  PROVE edits' \in Nat
  BY <1>17 DEF Insert, Edit
<1>18. ASSUME NEW c \in Clients, Queue(c)  PROVE edits' \in Nat
  BY <1>18 DEF Queue, Edit
<1>19. ASSUME NEW c \in Clients, Wipe(c)  PROVE edits' \in Nat
  BY <1>19 DEF Wipe, Edit
<1>20. ASSUME NEW c \in Clients, Drop(c)  PROVE edits' \in Nat
  BY <1>20 DEF Drop, Edit
<1>21. ASSUME NEW c \in Clients, NEW s \in Series, Add(c, s)  PROVE edits' \in Nat
  BY <1>21 DEF Add, Edit
<1>22. ASSUME NEW c \in Clients, NEW s \in Series, AddByHand(c, s)
       PROVE  edits' \in Nat
  BY <1>22 DEF AddByHand, Edit
<1>23. ASSUME NEW c \in Clients, NEW s \in Series, Import(c, s)
       PROVE  edits' \in Nat
  BY <1>23 DEF Import, Edit
<1>24. ASSUME NEW c \in Clients, NEW s \in Series, Change(c, s)
       PROVE  edits' \in Nat
  <2>1. Edit("titles") \/ Edit("cover")
    BY <1>24 DEF Change
  <2>. QED  BY <2>1 DEF Edit
<1>25. ASSUME NEW c \in Clients, NEW s \in Series, Delete(c, s)
       PROVE  edits' \in Nat
  BY <1>25 DEF Delete, Edit
<1>26. ASSUME NEW w \in Workers, Comic(w)  PROVE edits' \in Nat
  BY <1>26 DEF Comic, Edit
<1>27. ASSUME NEW w \in Workers, NEW s \in Series, Refresh(w, s)
       PROVE  edits' \in Nat
  BY <1>27 DEF Refresh, Edit
<1>28. ASSUME NEW s \in Series, AskRefresh(s)  PROVE edits' \in Nat
  BY <1>28 DEF AskRefresh, Edit
<1>29. ASSUME NEW i \in Listed, Hide(i)  PROVE edits' \in Nat
  BY <1>29 DEF Hide, Edit
<1>30. ASSUME Crash  PROVE edits' \in Nat
  BY <1>30 DEF Crash, Edit
<1>31. ASSUME UNCHANGED vars  PROVE edits' \in Nat
  BY <1>31 DEF vars, Edit
<1>32. ASSUME NEW p \in Procs, p \in Workers, ComicFails(p)  PROVE edits' \in Nat
  BY <1>32 DEF ComicFails, Edit
<1>. QED
  BY <1>1, <1>2, <1>3, <1>4, <1>5, <1>6, <1>7, <1>8, <1>9, <1>10, <1>11,
     <1>12, <1>13, <1>14, <1>15, <1>16, <1>17, <1>18, <1>19, <1>20, <1>21,
     <1>22, <1>23, <1>24, <1>25, <1>26, <1>27, <1>28, <1>29, <1>30, <1>31, <1>32
  DEF Next, Procs

(* Only a refresh's transaction and the user change what is hidden.        *)
LEMMA HintsWritten ==
  ASSUME [Next]_vars
  PROVE  \/ UNCHANGED hints
         \/ \E q \in Procs : Store(q)
         \/ \E k \in Listed : Hide(k)
<1>1. ASSUME NEW p \in Procs, Refused(p)
      PROVE  \/ UNCHANGED hints
             \/ \E q \in Procs : Store(q)
             \/ \E k \in Listed : Hide(k)
  BY <1>1 DEF Refused
<1>2. ASSUME NEW p \in Procs, Unanswered(p)
      PROVE  \/ UNCHANGED hints
             \/ \E q \in Procs : Store(q)
             \/ \E k \in Listed : Hide(k)
  BY <1>2 DEF Unanswered
<1>3. ASSUME NEW p \in Procs, Answered(p)
      PROVE  \/ UNCHANGED hints
             \/ \E q \in Procs : Store(q)
             \/ \E k \in Listed : Hide(k)
  BY <1>3 DEF Answered
<1>4. ASSUME NEW p \in Procs, Cover(p)
      PROVE  \/ UNCHANGED hints
             \/ \E q \in Procs : Store(q)
             \/ \E k \in Listed : Hide(k)
  BY <1>4 DEF Cover
<1>5. ASSUME NEW p \in Procs, Write(p)
      PROVE  \/ UNCHANGED hints
             \/ \E q \in Procs : Store(q)
             \/ \E k \in Listed : Hide(k)
  BY <1>5 DEF Write
<1>6. ASSUME NEW p \in Procs, Look(p)
      PROVE  \/ UNCHANGED hints
             \/ \E q \in Procs : Store(q)
             \/ \E k \in Listed : Hide(k)
  BY <1>6 DEF Look
<1>7. ASSUME NEW p \in Procs, Request(p)
      PROVE  \/ UNCHANGED hints
             \/ \E q \in Procs : Store(q)
             \/ \E k \in Listed : Hide(k)
  BY <1>7 DEF Request
<1>8. ASSUME NEW p \in Procs, Suggest(p)
      PROVE  \/ UNCHANGED hints
             \/ \E q \in Procs : Store(q)
             \/ \E k \in Listed : Hide(k)
  BY <1>8 DEF Suggest
<1>9. ASSUME NEW p \in Procs, ReadShelf(p)
      PROVE  \/ UNCHANGED hints
             \/ \E q \in Procs : Store(q)
             \/ \E k \in Listed : Hide(k)
  BY <1>9 DEF ReadShelf
<1>10. ASSUME NEW p \in Procs, Bundled(p)
       PROVE  \/ UNCHANGED hints
              \/ \E q \in Procs : Store(q)
              \/ \E k \in Listed : Hide(k)
  BY <1>10 DEF Bundled
<1>11. ASSUME NEW p \in Procs, Detailed(p)
       PROVE  \/ UNCHANGED hints
              \/ \E q \in Procs : Store(q)
              \/ \E k \in Listed : Hide(k)
  BY <1>11 DEF Detailed
<1>12. ASSUME NEW p \in Procs, Recall(p)
       PROVE  \/ UNCHANGED hints
              \/ \E q \in Procs : Store(q)
              \/ \E k \in Listed : Hide(k)
  BY <1>12 DEF Recall
<1>13. ASSUME NEW p \in Procs, Store(p)
       PROVE  \/ UNCHANGED hints
              \/ \E q \in Procs : Store(q)
              \/ \E k \in Listed : Hide(k)
  BY <1>13
<1>14. ASSUME NEW c \in Clients, Clear(c)
       PROVE  \/ UNCHANGED hints
              \/ \E q \in Procs : Store(q)
              \/ \E k \in Listed : Hide(k)
  BY <1>14 DEF Clear
<1>15. ASSUME NEW c \in Clients, Put(c)
       PROVE  \/ UNCHANGED hints
              \/ \E q \in Procs : Store(q)
              \/ \E k \in Listed : Hide(k)
  BY <1>15 DEF Put
<1>16. ASSUME NEW c \in Clients, Check(c)
       PROVE  \/ UNCHANGED hints
              \/ \E q \in Procs : Store(q)
              \/ \E k \in Listed : Hide(k)
  BY <1>16 DEF Check
<1>17. ASSUME NEW c \in Clients, Insert(c)
       PROVE  \/ UNCHANGED hints
              \/ \E q \in Procs : Store(q)
              \/ \E k \in Listed : Hide(k)
  BY <1>17 DEF Insert
<1>18. ASSUME NEW c \in Clients, Queue(c)
       PROVE  \/ UNCHANGED hints
              \/ \E q \in Procs : Store(q)
              \/ \E k \in Listed : Hide(k)
  BY <1>18 DEF Queue
<1>19. ASSUME NEW c \in Clients, Wipe(c)
       PROVE  \/ UNCHANGED hints
              \/ \E q \in Procs : Store(q)
              \/ \E k \in Listed : Hide(k)
  BY <1>19 DEF Wipe
<1>20. ASSUME NEW c \in Clients, Drop(c)
       PROVE  \/ UNCHANGED hints
              \/ \E q \in Procs : Store(q)
              \/ \E k \in Listed : Hide(k)
  BY <1>20 DEF Drop
<1>21. ASSUME NEW c \in Clients, NEW s \in Series, Add(c, s)
       PROVE  \/ UNCHANGED hints
              \/ \E q \in Procs : Store(q)
              \/ \E k \in Listed : Hide(k)
  BY <1>21 DEF Add
<1>22. ASSUME NEW c \in Clients, NEW s \in Series, AddByHand(c, s)
       PROVE  \/ UNCHANGED hints
              \/ \E q \in Procs : Store(q)
              \/ \E k \in Listed : Hide(k)
  BY <1>22 DEF AddByHand
<1>23. ASSUME NEW c \in Clients, NEW s \in Series, Import(c, s)
       PROVE  \/ UNCHANGED hints
              \/ \E q \in Procs : Store(q)
              \/ \E k \in Listed : Hide(k)
  BY <1>23 DEF Import
<1>24. ASSUME NEW c \in Clients, NEW s \in Series, Change(c, s)
       PROVE  \/ UNCHANGED hints
              \/ \E q \in Procs : Store(q)
              \/ \E k \in Listed : Hide(k)
  BY <1>24 DEF Change
<1>25. ASSUME NEW c \in Clients, NEW s \in Series, Delete(c, s)
       PROVE  \/ UNCHANGED hints
              \/ \E q \in Procs : Store(q)
              \/ \E k \in Listed : Hide(k)
  BY <1>25 DEF Delete
<1>26. ASSUME NEW w \in Workers, Comic(w)
       PROVE  \/ UNCHANGED hints
              \/ \E q \in Procs : Store(q)
              \/ \E k \in Listed : Hide(k)
  BY <1>26 DEF Comic
<1>27. ASSUME NEW w \in Workers, NEW s \in Series, Refresh(w, s)
       PROVE  \/ UNCHANGED hints
              \/ \E q \in Procs : Store(q)
              \/ \E k \in Listed : Hide(k)
  BY <1>27 DEF Refresh
<1>28. ASSUME NEW s \in Series, AskRefresh(s)
       PROVE  \/ UNCHANGED hints
              \/ \E q \in Procs : Store(q)
              \/ \E k \in Listed : Hide(k)
  BY <1>28 DEF AskRefresh
<1>29. ASSUME NEW i \in Listed, Hide(i)
       PROVE  \/ UNCHANGED hints
              \/ \E q \in Procs : Store(q)
              \/ \E k \in Listed : Hide(k)
  BY <1>29
<1>30. ASSUME Crash
       PROVE  \/ UNCHANGED hints
              \/ \E q \in Procs : Store(q)
              \/ \E k \in Listed : Hide(k)
  BY <1>30 DEF Crash
<1>31. ASSUME UNCHANGED vars
       PROVE  \/ UNCHANGED hints
              \/ \E q \in Procs : Store(q)
              \/ \E k \in Listed : Hide(k)
  BY <1>31 DEF vars
<1>32. ASSUME NEW p \in Procs, p \in Workers, ComicFails(p)
      PROVE  \/ UNCHANGED hints
             \/ \E q \in Procs : Store(q)
             \/ \E k \in Listed : Hide(k)
  BY <1>32 DEF ComicFails
<1>. QED
  BY <1>1, <1>2, <1>3, <1>4, <1>5, <1>6, <1>7, <1>8, <1>9, <1>10, <1>11,
     <1>12, <1>13, <1>14, <1>15, <1>16, <1>17, <1>18, <1>19, <1>20, <1>21,
     <1>22, <1>23, <1>24, <1>25, <1>26, <1>27, <1>28, <1>29, <1>30, <1>31, <1>32
  DEF Next, Procs

LEMMA HiddenStep ==
  ASSUME BaseInv, HintInv, edits \in Nat, [Next]_vars,
         NEW i \in Listed, hints[i] = "hidden", hints'[i] = "shown"
  PROVE  edits' # edits \/ \E p \in Procs : job[p].at = "store" /\ i \in job[p].late
<1>1. ASSUME NEW p \in Procs, Store(p)
      PROVE  job[p].at = "store" /\ i \in job[p].late
  <2>1. /\ job[p].at = "store"
        /\ hints'[i] = IF i \in Recommended(job[p].seen) THEN Keep(p, i) ELSE "no"
    BY <1>1 DEF Store, Doing
  <2>2. i \notin job[p].hidden
    BY <2>1 DEF Keep
  <2>. QED  BY <2>1, <2>2 DEF HintInv
<1>2. ASSUME NEW k \in Listed, Hide(k)  PROVE edits' # edits
  BY <1>2, OfHide
<1>. QED  BY <1>1, <1>2, HintsWritten

(***************************************************************************)
(* TitlesKept: a row that was read, and is not known to be old, has what   *)
(* the user wants of every title but the one that is being edited.         *)
(***************************************************************************)
Keeps(wish, state) ==
  /\ wish = "hidden" => state = "hidden"
  /\ wish = "listed" => state \in {"manual", "shown"}

Writers == {"titles", "upload", "url", "refresh"}
ToWrite == {"ask", "cover", "clear", "put", "write"}

(* A row changes, or goes, behind the back of no job that is not stale.    *)
FreshOK(p) ==
  job[p].what \in Writers \cup {"delete"} /\ ~job[p].stale => job[p].of \in shelf

CopyOK(p) ==
  /\ job[p].title # NoTitle => job[p].what = "titles"
  /\ job[p].what \in Writers /\ job[p].at \in ToWrite /\ ~job[p].stale
     /\ job[p].of \in shelf \ ghost.tangled
       => \A t \in Titles \ {job[p].title} :
            Keeps(ghost.wish[job[p].of][t], job[p].titles[t])

CopyInv  == \A p \in Procs : FreshOK(p) /\ CopyOK(p)
TitleInv == TitlesKept /\ CopyInv

(* The same for a step that writes no row.                                 *)
LEMMA CopyQuiet ==
  ASSUME CopyInv, NEW q \in Procs, shelf' = shelf, ghost'.wish = ghost.wish,
         ghost.tangled \subseteq ghost'.tangled,
         job'[q].what = job[q].what, job'[q].of = job[q].of, job'[q].title = job[q].title,
         job[q].stale => job'[q].stale, job'[q].titles = job[q].titles,
         job'[q].at \in ToWrite => job[q].at \in ToWrite
  PROVE  FreshOK(q)' /\ CopyOK(q)'
  BY DEF CopyInv, FreshOK, CopyOK

LEMMA CopyIdle ==
  ASSUME NEW q \in Procs, job'[q] = Idle
  PROVE  FreshOK(q)' /\ CopyOK(q)'
  BY IdleFields DEF FreshOK, CopyOK, Writers

LEMMA TitlesQuiet ==
  ASSUME TitlesKept, shelf' \subseteq shelf, UNCHANGED titles, ghost'.wish = ghost.wish,
         ghost.tangled \subseteq ghost'.tangled
  PROVE  TitlesKept'
  BY DEF TitlesKept

LEMMA MergeKeeps ==
  ASSUME NEW wish, NEW old \in [Titles -> TitleStates], NEW fresh, NEW t \in Titles,
         Keeps(wish, old[t])
  PROVE  Keeps(wish, Merge(old, fresh)[t])
  BY DEF Keeps, Merge, TitleStates

LEMMA TitleInit == Init => TitleInv
<1> SUFFICES ASSUME Init  PROVE TitleInv
  OBVIOUS
<1>1. TitlesKept
  BY CatalogAssumption DEF Init, TitlesKept
<1>2. CopyInv
  BY IdleFields DEF Init, CopyInv, FreshOK, CopyOK, Writers
<1>. QED  BY <1>1, <1>2 DEF TitleInv

LEMMA TitleNext == BaseInv /\ TitleInv /\ [Next]_vars => TitleInv'
<1> SUFFICES ASSUME BaseInv, TitleInv, [Next]_vars  PROVE TitleInv'
  OBVIOUS
<1>0. /\ TitlesKept /\ CopyInv
      /\ job \in [Procs -> JobType]
      /\ titles \in [Series -> [Titles -> TitleStates]]
      /\ ghost \in GhostType /\ shelf \subseteq Series
      /\ Clients \subseteq Procs /\ Workers \subseteq Procs
  BY DEF TitleInv, BaseInv, DomInv, Procs
<1>1. ASSUME NEW p \in Procs, Refused(p)  PROVE TitleInv'
  <2>1. /\ shelf' = shelf /\ UNCHANGED titles /\ ghost'.wish = ghost.wish
        /\ ghost.tangled \subseteq ghost'.tangled
    BY <1>1 DEF Refused, rows
  <2>2. Others(p)
    BY <1>1, <1>0, OfRefused
  <2>3. TitlesKept'
    BY <1>0, <2>1, TitlesQuiet
  <2>4. \A q \in Procs \ {p} : FreshOK(q)' /\ CopyOK(q)'
    BY <1>0, <2>1, <2>2, CopyQuiet DEF Others, Told
  <2>5. FreshOK(p)' /\ CopyOK(p)'
    BY <1>1, <1>0, <2>1, OfRefused, CopyQuiet DEF Moved, SameRow, ToWrite
  <2>. QED  BY <2>3, <2>4, <2>5 DEF TitleInv, CopyInv
<1>2. ASSUME NEW p \in Procs, Unanswered(p)  PROVE TitleInv'
  <2>1. /\ shelf' = shelf /\ UNCHANGED titles /\ ghost'.wish = ghost.wish
        /\ ghost.tangled \subseteq ghost'.tangled
    BY <1>2, <1>0 DEF Unanswered, Fails, rows, GhostType
  <2>2. Others(p)
    BY <1>2, <1>0, OfFails DEF Unanswered
  <2>3. TitlesKept'
    BY <1>0, <2>1, TitlesQuiet
  <2>4. \A q \in Procs \ {p} : FreshOK(q)' /\ CopyOK(q)'
    BY <1>0, <2>1, <2>2, CopyQuiet DEF Others, Told
  <2>5. FreshOK(p)' /\ CopyOK(p)'
    BY <1>2, <1>0, OfFails, CopyIdle DEF Quit, Unanswered
  <2>. QED  BY <2>3, <2>4, <2>5 DEF TitleInv, CopyInv
<1>3. ASSUME NEW p \in Procs, Answered(p)  PROVE TitleInv'
  <2>1. /\ shelf' = shelf /\ UNCHANGED titles /\ ghost'.wish = ghost.wish
        /\ ghost.tangled \subseteq ghost'.tangled
    BY <1>3 DEF Answered, rows
  <2>2. Others(p)
    BY <1>3, <1>0, OfAnswered
  <2>3. TitlesKept'
    BY <1>0, <2>1, TitlesQuiet
  <2>4. \A q \in Procs \ {p} : FreshOK(q)' /\ CopyOK(q)'
    BY <1>0, <2>1, <2>2, CopyQuiet DEF Others, Told
  <2>5. FreshOK(p)' /\ CopyOK(p)'
    <3>1. PICK fresh \in SUBSET Titles : job'[p].titles = Merge(job[p].titles, fresh)
      BY <1>3, OfAnswered
    <3>2. Moved(p) /\ job[p].at = "ask" /\ FreshOK(p) /\ CopyOK(p)
      BY <1>3, <1>0, OfAnswered DEF CopyInv
    <3>3. job[p].titles \in [Titles -> TitleStates]
      BY <1>0 DEF JobType
    <3>4. ASSUME NEW wish, NEW t \in Titles, Keeps(wish, job[p].titles[t])
          PROVE  Keeps(wish, job'[p].titles[t])
      BY <3>1, <3>3, <3>4, MergeKeeps
    <3>5. FreshOK(p)'
      BY <2>1, <3>2 DEF Moved, FreshOK
    <3>6. CopyOK(p)'
      BY <2>1, <3>2, <3>4 DEF Moved, CopyOK, ToWrite
    <3>. QED  BY <3>5, <3>6
  <2>. QED  BY <2>3, <2>4, <2>5 DEF TitleInv, CopyInv
<1>4. ASSUME NEW p \in Procs, Cover(p)  PROVE TitleInv'
  <2>1. /\ shelf' = shelf /\ UNCHANGED titles /\ ghost'.wish = ghost.wish
        /\ ghost.tangled \subseteq ghost'.tangled
    BY <1>4 DEF Cover, rows
  <2>2. Others(p)
    BY <1>4, <1>0, OfCover
  <2>3. TitlesKept'
    BY <1>0, <2>1, TitlesQuiet
  <2>4. \A q \in Procs \ {p} : FreshOK(q)' /\ CopyOK(q)'
    BY <1>0, <2>1, <2>2, CopyQuiet DEF Others, Told
  <2>5. FreshOK(p)' /\ CopyOK(p)'
    BY <1>4, <1>0, <2>1, OfCover, CopyQuiet DEF Moved, SameRow, ToWrite
  <2>. QED  BY <2>3, <2>4, <2>5 DEF TitleInv, CopyInv
<1>5. ASSUME NEW p \in Procs, Write(p)  PROVE TitleInv'
  <2> DEFINE s == job[p].of
             u == job[p].title
  <2>1. /\ job[p].what \in Writers /\ job[p].at = "write" /\ s \in Series /\ Others(p)
        /\ Quit(p) \/ (job[p].what = "refresh" /\ Moved(p) /\ job'[p].at = "comic")
        /\ s \in shelf => \A q \in Procs \ {p} : job[q].of = s => job'[q].stale
    BY <1>5, OfWrite DEF Writers
  <2>2. shelf' = shelf
    BY <1>5 DEF Write
  <2>3. FreshOK(p)' /\ CopyOK(p)'
    <3>1. CASE Quit(p)
      BY <3>1, CopyIdle DEF Quit
    <3>2. CASE job[p].what = "refresh" /\ Moved(p) /\ job'[p].at = "comic"
      BY <1>0, <2>2, <3>2 DEF CopyInv, FreshOK, CopyOK, Moved, ToWrite
    <3>. QED  BY <2>1, <3>1, <3>2
  <2>4. CASE s \notin shelf
    <3>1. UNCHANGED titles /\ ghost'.wish = ghost.wish /\ ghost.tangled \subseteq ghost'.tangled
      BY <1>5, <1>0, <2>4 DEF Write, Fails, GhostType
    <3>2. TitlesKept'
      BY <1>0, <2>2, <3>1, TitlesQuiet
    <3>3. \A q \in Procs \ {p} : FreshOK(q)' /\ CopyOK(q)'
      BY <1>0, <2>1, <2>2, <3>1, CopyQuiet DEF Others, Told
    <3>. QED  BY <2>3, <3>2, <3>3 DEF TitleInv, CopyInv
  <2>5. CASE s \in shelf
    <3> DEFINE W == IF job[p].what = "titles"
                    THEN [ghost.wish[s] EXCEPT ![u] = Wish(job[p].titles[u])] ELSE ghost.wish[s]
               T == IF job[p].stale THEN ghost.tangled \cup {s} ELSE ghost.tangled
    <3>1. /\ ghost' = [ghost EXCEPT !.wish[s] = W, !.tangled = T]
          /\ titles' = [titles EXCEPT ![s] = job[p].titles]
      BY <1>5, <2>5 DEF Write
    <3>2. /\ ghost.wish[s] \in [Titles -> {"free", "hidden", "listed"}]
          /\ job[p].titles \in [Titles -> TitleStates]
          /\ u \in Titles \cup {NoTitle}
      BY <1>0, <2>1 DEF GhostType, JobType
    <3>3. ASSUME ~job[p].stale, s \notin ghost.tangled, NEW t \in Titles
          PROVE  Keeps(W[t], job[p].titles[t])
      <4>1. \A v \in Titles \ {u} : Keeps(ghost.wish[s][v], job[p].titles[v])
        BY <1>0, <2>1, <2>5, <3>3 DEF CopyInv, CopyOK, ToWrite
      <4>2. u # NoTitle => job[p].what = "titles"
        BY <1>0 DEF CopyInv, CopyOK
      <4>3. CASE job[p].what = "titles" /\ t = u
        BY <3>2, <4>3 DEF Keeps, Wish
      <4>4. CASE ~(job[p].what = "titles" /\ t = u)
        <5>1. t # u
          BY <3>2, <4>2, <4>4, CatalogAssumption
        <5>2. W[t] = ghost.wish[s][t]
          BY <3>2, <5>1
        <5>. QED  BY <4>1, <5>1, <5>2
      <4>. QED  BY <4>3, <4>4
    <3>. HIDE DEF W
    <3>4. /\ ghost'.wish[s] = W /\ ghost'.tangled = T /\ titles'[s] = job[p].titles
          /\ \A r \in Series \ {s} : ghost'.wish[r] = ghost.wish[r] /\ titles'[r] = titles[r]
      BY <1>0, <2>1, <3>1 DEF GhostType
    <3>5. TitlesKept'
      <4>1. ASSUME NEW r \in shelf \ ghost'.tangled, NEW t \in Titles
            PROVE  Keeps(ghost'.wish[r][t], titles'[r][t])
        <5>1. CASE r = s
          BY <3>3, <3>4, <4>1, <5>1
        <5>2. CASE r # s
          <6>1. r \in Series /\ r \notin ghost.tangled
            BY <1>0, <3>4, <4>1
          <6>. QED  BY <1>0, <3>4, <4>1, <5>2, <6>1 DEF TitlesKept, Keeps
        <5>. QED  BY <5>1, <5>2
      <4>. QED  BY <2>2, <4>1 DEF TitlesKept, Keeps
    <3>6. ASSUME NEW q \in Procs \ {p}  PROVE FreshOK(q)' /\ CopyOK(q)'
      <4>1. Told(q) /\ FreshOK(q) /\ CopyOK(q) /\ (job[q].of = s => job'[q].stale)
        BY <1>0, <2>1, <2>5 DEF Others, CopyInv
      <4>2. FreshOK(q)'
        BY <2>2, <4>1 DEF Told, FreshOK
      <4>3. job[q].of \in shelf => job[q].of \in Series
        BY <1>0
      <4>4. ghost.tangled \subseteq ghost'.tangled
        BY <3>4
      <4>5. CopyOK(q)'
        BY <2>2, <3>4, <4>1, <4>3, <4>4 DEF Told, CopyOK
      <4>. QED  BY <4>2, <4>5
    <3>. QED  BY <2>3, <3>5, <3>6 DEF TitleInv, CopyInv
  <2>. QED  BY <2>4, <2>5
<1>6. ASSUME NEW p \in Procs, Look(p)  PROVE TitleInv'
  <2>1. /\ shelf' = shelf /\ UNCHANGED titles /\ ghost'.wish = ghost.wish
        /\ ghost.tangled \subseteq ghost'.tangled
    BY <1>6, <1>0 DEF Look, rows, GhostType
  <2>2. Others(p)
    BY <1>6, <1>0, OfLook
  <2>3. TitlesKept'
    BY <1>0, <2>1, TitlesQuiet
  <2>4. \A q \in Procs \ {p} : FreshOK(q)' /\ CopyOK(q)'
    BY <1>0, <2>1, <2>2, CopyQuiet DEF Others, Told
  <2>5. FreshOK(p)' /\ CopyOK(p)'
    <3>1. CASE Quit(p)
      BY <1>0, <3>1, CopyIdle DEF Quit
    <3>2. CASE Moved(p) /\ SameRow(p)
      BY <1>6, <1>0, <2>1, <3>2, OfLook, CopyQuiet, IdleFields DEF Moved,
         SameRow, ToWrite, Quit
    <3>. QED  BY <1>6, <1>0, <3>1, <3>2, OfLook
  <2>. QED  BY <2>3, <2>4, <2>5 DEF TitleInv, CopyInv
<1>7. ASSUME NEW p \in Procs, Request(p)  PROVE TitleInv'
  <2>1. /\ shelf' = shelf /\ UNCHANGED titles /\ ghost'.wish = ghost.wish
        /\ ghost.tangled \subseteq ghost'.tangled
    BY <1>7 DEF Request, rows
  <2>2. Others(p)
    BY <1>7, <1>0, OfRequest
  <2>3. TitlesKept'
    BY <1>0, <2>1, TitlesQuiet
  <2>4. \A q \in Procs \ {p} : FreshOK(q)' /\ CopyOK(q)'
    BY <1>0, <2>1, <2>2, CopyQuiet DEF Others, Told
  <2>5. FreshOK(p)' /\ CopyOK(p)'
    BY <1>7, <1>0, OfRequest, CopyIdle DEF Quit
  <2>. QED  BY <2>3, <2>4, <2>5 DEF TitleInv, CopyInv
<1>8. ASSUME NEW p \in Procs, Suggest(p)  PROVE TitleInv'
  <2>1. /\ shelf' = shelf /\ UNCHANGED titles /\ ghost'.wish = ghost.wish
        /\ ghost.tangled \subseteq ghost'.tangled
    BY <1>8 DEF Suggest, rows
  <2>2. Others(p)
    BY <1>8, <1>0, OfSuggest
  <2>3. TitlesKept'
    BY <1>0, <2>1, TitlesQuiet
  <2>4. \A q \in Procs \ {p} : FreshOK(q)' /\ CopyOK(q)'
    BY <1>0, <2>1, <2>2, CopyQuiet DEF Others, Told
  <2>5. FreshOK(p)' /\ CopyOK(p)'
    BY <1>8, <1>0, OfSuggest DEF Began, FreshOK, CopyOK, Writers
  <2>. QED  BY <2>3, <2>4, <2>5 DEF TitleInv, CopyInv
<1>9. ASSUME NEW p \in Procs, ReadShelf(p)  PROVE TitleInv'
  <2>1. /\ shelf' = shelf /\ UNCHANGED titles /\ ghost'.wish = ghost.wish
        /\ ghost.tangled \subseteq ghost'.tangled
    BY <1>9 DEF ReadShelf, rows
  <2>2. Others(p)
    BY <1>9, <1>0, OfReadShelf
  <2>3. TitlesKept'
    BY <1>0, <2>1, TitlesQuiet
  <2>4. \A q \in Procs \ {p} : FreshOK(q)' /\ CopyOK(q)'
    BY <1>0, <2>1, <2>2, CopyQuiet DEF Others, Told
  <2>5. FreshOK(p)' /\ CopyOK(p)'
    <3>1. job'[p].what = "suggest" /\ job'[p].title = NoTitle
      BY <1>9, <1>0, OfReadShelf DEF Moved, CopyInv, CopyOK
    <3>. QED  BY <3>1 DEF FreshOK, CopyOK, Writers
  <2>. QED  BY <2>3, <2>4, <2>5 DEF TitleInv, CopyInv
<1>10. ASSUME NEW p \in Procs, Bundled(p)  PROVE TitleInv'
  <2>1. /\ shelf' = shelf /\ UNCHANGED titles /\ ghost'.wish = ghost.wish
        /\ ghost.tangled \subseteq ghost'.tangled
    BY <1>10 DEF Bundled, rows
  <2>2. Others(p)
    BY <1>10, <1>0, OfBundled
  <2>3. TitlesKept'
    BY <1>0, <2>1, TitlesQuiet
  <2>4. \A q \in Procs \ {p} : FreshOK(q)' /\ CopyOK(q)'
    BY <1>0, <2>1, <2>2, CopyQuiet DEF Others, Told
  <2>5. FreshOK(p)' /\ CopyOK(p)'
    <3>1. job'[p].what = "suggest" /\ job'[p].title = NoTitle
      BY <1>10, <1>0, OfBundled DEF Moved, CopyInv, CopyOK
    <3>. QED  BY <3>1 DEF FreshOK, CopyOK, Writers
  <2>. QED  BY <2>3, <2>4, <2>5 DEF TitleInv, CopyInv
<1>11. ASSUME NEW p \in Procs, Detailed(p)  PROVE TitleInv'
  <2>1. /\ shelf' = shelf /\ UNCHANGED titles /\ ghost'.wish = ghost.wish
        /\ ghost.tangled \subseteq ghost'.tangled
    BY <1>11 DEF Detailed, rows
  <2>2. Others(p)
    BY <1>11, <1>0, OfDetailed
  <2>3. TitlesKept'
    BY <1>0, <2>1, TitlesQuiet
  <2>4. \A q \in Procs \ {p} : FreshOK(q)' /\ CopyOK(q)'
    BY <1>0, <2>1, <2>2, CopyQuiet DEF Others, Told
  <2>5. FreshOK(p)' /\ CopyOK(p)'
    <3>1. job'[p].what = "suggest" /\ job'[p].title = NoTitle
      BY <1>11, <1>0, OfDetailed DEF Moved, CopyInv, CopyOK
    <3>. QED  BY <3>1 DEF FreshOK, CopyOK, Writers
  <2>. QED  BY <2>3, <2>4, <2>5 DEF TitleInv, CopyInv
<1>12. ASSUME NEW p \in Procs, Recall(p)  PROVE TitleInv'
  <2>1. /\ shelf' = shelf /\ UNCHANGED titles /\ ghost'.wish = ghost.wish
        /\ ghost.tangled \subseteq ghost'.tangled
    BY <1>12 DEF Recall, rows
  <2>2. Others(p)
    BY <1>12, <1>0, OfRecall
  <2>3. TitlesKept'
    BY <1>0, <2>1, TitlesQuiet
  <2>4. \A q \in Procs \ {p} : FreshOK(q)' /\ CopyOK(q)'
    BY <1>0, <2>1, <2>2, CopyQuiet DEF Others, Told
  <2>5. FreshOK(p)' /\ CopyOK(p)'
    <3>1. job'[p].what = "suggest" /\ job'[p].title = NoTitle
      BY <1>12, <1>0, OfRecall DEF Moved, CopyInv, CopyOK
    <3>. QED  BY <3>1 DEF FreshOK, CopyOK, Writers
  <2>. QED  BY <2>3, <2>4, <2>5 DEF TitleInv, CopyInv
<1>13. ASSUME NEW p \in Procs, Store(p)  PROVE TitleInv'
  <2>1. /\ shelf' = shelf /\ UNCHANGED titles /\ ghost'.wish = ghost.wish
        /\ ghost.tangled \subseteq ghost'.tangled
    BY <1>13, <1>0 DEF Store, Fails, rows, GhostType
  <2>2. Others(p)
    BY <1>13, <1>0, OfStore
  <2>3. TitlesKept'
    BY <1>0, <2>1, TitlesQuiet
  <2>4. \A q \in Procs \ {p} : FreshOK(q)' /\ CopyOK(q)'
    BY <1>0, <2>1, <2>2, CopyQuiet DEF Others, Told
  <2>5. FreshOK(p)' /\ CopyOK(p)'
    BY <1>13, <1>0, OfStore, CopyIdle DEF Quit
  <2>. QED  BY <2>3, <2>4, <2>5 DEF TitleInv, CopyInv
<1>14. ASSUME NEW c \in Clients, Clear(c)  PROVE TitleInv'
  <2>1. /\ shelf' = shelf /\ UNCHANGED titles /\ ghost'.wish = ghost.wish
        /\ ghost.tangled \subseteq ghost'.tangled
    BY <1>14 DEF Clear, rows
  <2>2. Others(c)
    BY <1>14, <1>0, OfClear
  <2>3. TitlesKept'
    BY <1>0, <2>1, TitlesQuiet
  <2>4. \A q \in Procs \ {c} : FreshOK(q)' /\ CopyOK(q)'
    BY <1>0, <2>1, <2>2, CopyQuiet DEF Others, Told
  <2>5. FreshOK(c)' /\ CopyOK(c)'
    BY <1>14, <1>0, <2>1, OfClear, CopyQuiet DEF Moved, SameRow, ToWrite
  <2>. QED  BY <2>3, <2>4, <2>5 DEF TitleInv, CopyInv
<1>15. ASSUME NEW c \in Clients, Put(c)  PROVE TitleInv'
  <2>1. /\ shelf' = shelf /\ UNCHANGED titles /\ ghost'.wish = ghost.wish
        /\ ghost.tangled \subseteq ghost'.tangled
    BY <1>15 DEF Put, rows
  <2>2. Others(c)
    BY <1>15, <1>0, OfPut
  <2>3. TitlesKept'
    BY <1>0, <2>1, TitlesQuiet
  <2>4. \A q \in Procs \ {c} : FreshOK(q)' /\ CopyOK(q)'
    BY <1>0, <2>1, <2>2, CopyQuiet DEF Others, Told
  <2>5. FreshOK(c)' /\ CopyOK(c)'
    BY <1>15, <1>0, <2>1, OfPut, CopyQuiet DEF Moved, SameRow, ToWrite
  <2>. QED  BY <2>3, <2>4, <2>5 DEF TitleInv, CopyInv
<1>16. ASSUME NEW c \in Clients, Check(c)  PROVE TitleInv'
  <2>1. /\ shelf' = shelf /\ UNCHANGED titles /\ ghost'.wish = ghost.wish
        /\ ghost.tangled \subseteq ghost'.tangled
    BY <1>16 DEF Check, rows
  <2>2. Others(c)
    BY <1>16, <1>0, OfCheck
  <2>3. TitlesKept'
    BY <1>0, <2>1, TitlesQuiet
  <2>4. \A q \in Procs \ {c} : FreshOK(q)' /\ CopyOK(q)'
    BY <1>0, <2>1, <2>2, CopyQuiet DEF Others, Told
  <2>5. FreshOK(c)' /\ CopyOK(c)'
    <3>1. CASE Quit(c)
      BY <1>0, <3>1, CopyIdle DEF Quit
    <3>2. CASE Moved(c)
      <4>1. job'[c].what = "add" /\ job'[c].title = NoTitle
        BY <1>16, <1>0, <3>2, OfCheck DEF Moved, CopyInv, CopyOK
      <4>. QED  BY <4>1 DEF FreshOK, CopyOK, Writers
    <3>. QED  BY <1>16, <3>1, <3>2, OfCheck
  <2>. QED  BY <2>3, <2>4, <2>5 DEF TitleInv, CopyInv
<1>17. ASSUME NEW c \in Clients, Insert(c)  PROVE TitleInv'
  <2> DEFINE s == job[c].of
             T == IF job[c].stale THEN ghost.tangled \cup {s} ELSE ghost.tangled \ {s}
  <2>1. /\ job[c].what \in {"add", "import", "manual"} /\ s \in Series /\ Others(c) /\ c \in Procs
        /\ s \in shelf => Quit(c)
        /\ s \notin shelf =>
             /\ Moved(c) /\ job'[c].at = "queue"
             /\ \A q \in Procs \ {c} : job[q].of = s => job'[q].stale
    BY <1>17, <1>0, OfInsert
  <2>2. FreshOK(c)' /\ CopyOK(c)'
    <3>1. CASE Quit(c)
      BY <2>1, <3>1, CopyIdle DEF Quit
    <3>2. CASE Moved(c)
      <4>1. job'[c].what \in {"add", "import", "manual"} /\ job'[c].title = NoTitle
        BY <1>0, <2>1, <3>2 DEF Moved, CopyInv, CopyOK
      <4>. QED  BY <4>1 DEF FreshOK, CopyOK, Writers
    <3>. QED  BY <2>1, <3>1, <3>2
  <2>3. CASE s \in shelf
    <3>1. UNCHANGED <<shelf, titles, ghost>>
      BY <1>17, <2>3 DEF Insert, rows
    <3>2. TitlesKept'
      BY <1>0, <3>1, TitlesQuiet
    <3>3. \A q \in Procs \ {c} : FreshOK(q)' /\ CopyOK(q)'
      BY <1>0, <2>1, <3>1, CopyQuiet DEF Others, Told
    <3>. QED  BY <2>2, <3>2, <3>3 DEF TitleInv, CopyInv
  <2>4. CASE s \notin shelf
    <3> DEFINE free == [t \in Titles |-> "free"]
    <3>1. /\ shelf' = shelf \cup {s} /\ titles' = [titles EXCEPT ![s] = job[c].titles]
          /\ ghost'.wish = [ghost.wish EXCEPT ![s] = free] /\ ghost'.tangled = T
      BY <1>17, <1>0, <2>4 DEF Insert, GhostType
    <3>2. /\ \A t \in Titles : ghost'.wish[s][t] = "free"
          /\ \A r \in Series \ {s} :
               /\ ghost'.wish[r] = ghost.wish[r] /\ titles'[r] = titles[r]
               /\ r \in ghost.tangled => r \in ghost'.tangled
      BY <1>0, <2>1, <3>1 DEF GhostType
    <3>3. TitlesKept'
      BY <1>0, <3>1, <3>2 DEF TitlesKept
    <3>4. ASSUME NEW q \in Procs \ {c}  PROVE FreshOK(q)' /\ CopyOK(q)'
      <4>1. Told(q) /\ FreshOK(q) /\ CopyOK(q) /\ (job[q].of = s => job'[q].stale)
        BY <1>0, <2>1, <2>4 DEF Others, CopyInv
      <4>2. FreshOK(q)'
        BY <3>1, <4>1 DEF Told, FreshOK
      <4>3. job[q].of # s /\ job[q].of \in shelf' => job[q].of \in Series \ {s} /\ job[q].of \in shelf
        BY <1>0, <3>1
      <4>4. ASSUME job'[q].what \in Writers, job'[q].at \in ToWrite, ~job'[q].stale,
                   job'[q].of \in shelf' \ ghost'.tangled
            PROVE  /\ job[q].of \in shelf \ ghost.tangled /\ ~job[q].stale
                   /\ ghost'.wish[job[q].of] = ghost.wish[job[q].of]
        <5>1. job'[q].of = job[q].of /\ ~job[q].stale /\ job[q].of # s
          BY <4>1, <4>4 DEF Told
        <5>. HIDE DEF s, T, free
        <5>2. job[q].of \in Series \ {s} /\ job[q].of \in shelf
          BY <4>3, <4>4, <5>1
        <5>. QED  BY <3>2, <4>4, <5>1, <5>2
      <4>. HIDE DEF s
      <4>5. CopyOK(q)'
        BY <4>1, <4>4 DEF Told, CopyOK
      <4>. QED  BY <4>2, <4>5
    <3>. QED  BY <2>2, <3>3, <3>4 DEF TitleInv, CopyInv
  <2>. QED  BY <2>3, <2>4
<1>18. ASSUME NEW c \in Clients, Queue(c)  PROVE TitleInv'
  <2>1. /\ shelf' = shelf /\ UNCHANGED titles /\ ghost'.wish = ghost.wish
        /\ ghost.tangled \subseteq ghost'.tangled
    BY <1>18 DEF Queue, rows
  <2>2. Others(c)
    BY <1>18, <1>0, OfQueue
  <2>3. TitlesKept'
    BY <1>0, <2>1, TitlesQuiet
  <2>4. \A q \in Procs \ {c} : FreshOK(q)' /\ CopyOK(q)'
    BY <1>0, <2>1, <2>2, CopyQuiet DEF Others, Told
  <2>5. FreshOK(c)' /\ CopyOK(c)'
    <3>1. CASE Quit(c)
      BY <1>0, <3>1, CopyIdle DEF Quit
    <3>2. CASE Moved(c) /\ SameRow(c)
      BY <1>18, <1>0, <2>1, <3>2, OfQueue, CopyQuiet, IdleFields DEF Moved,
         SameRow, ToWrite, Quit
    <3>. QED  BY <1>18, <1>0, <3>1, <3>2, OfQueue
  <2>. QED  BY <2>3, <2>4, <2>5 DEF TitleInv, CopyInv
<1>19. ASSUME NEW c \in Clients, Wipe(c)  PROVE TitleInv'
  <2>1. /\ shelf' = shelf /\ UNCHANGED titles /\ ghost'.wish = ghost.wish
        /\ ghost.tangled \subseteq ghost'.tangled
    BY <1>19 DEF Wipe, rows
  <2>2. Others(c)
    BY <1>19, <1>0, OfWipe
  <2>3. TitlesKept'
    BY <1>0, <2>1, TitlesQuiet
  <2>4. \A q \in Procs \ {c} : FreshOK(q)' /\ CopyOK(q)'
    BY <1>0, <2>1, <2>2, CopyQuiet DEF Others, Told
  <2>5. FreshOK(c)' /\ CopyOK(c)'
    BY <1>19, <1>0, <2>1, OfWipe, CopyQuiet DEF Moved, SameRow, ToWrite
  <2>. QED  BY <2>3, <2>4, <2>5 DEF TitleInv, CopyInv
<1>20. ASSUME NEW c \in Clients, Drop(c)  PROVE TitleInv'
  <2> DEFINE s == job[c].of
             free == [t \in Titles |-> "free"]
  <2>1. /\ s \in Series /\ Others(c) /\ Quit(c) /\ c \in Procs
        /\ \A q \in Procs \ {c} : job[q].of = s => job'[q].stale
    BY <1>20, <1>0, OfDrop
  <2>2. /\ shelf' = shelf \ {s} /\ titles' = [titles EXCEPT ![s] = Untitled]
        /\ ghost'.wish = [ghost.wish EXCEPT ![s] = free]
        /\ ghost'.tangled = ghost.tangled
    BY <1>20, <1>0 DEF Drop, GhostType
  <2>3. \A r \in Series \ {s} : ghost'.wish[r] = ghost.wish[r] /\ titles'[r] = titles[r]
    BY <1>0, <2>2 DEF GhostType
  <2>4. TitlesKept'
    BY <1>0, <2>2, <2>3 DEF TitlesKept
  <2>5. ASSUME NEW q \in Procs \ {c}  PROVE FreshOK(q)' /\ CopyOK(q)'
    <3>1. Told(q) /\ FreshOK(q) /\ CopyOK(q) /\ (job[q].of = s => job'[q].stale)
      BY <1>0, <2>1 DEF Others, CopyInv
    <3>2. FreshOK(q)'
      BY <2>2, <3>1 DEF Told, FreshOK
    <3>3. job[q].of \in shelf' => job[q].of \in Series /\ job[q].of \in shelf
      BY <1>0, <2>2
    <3>4. CopyOK(q)'
      BY <2>2, <2>3, <3>1, <3>3 DEF Told, CopyOK
    <3>. QED  BY <3>2, <3>4
  <2>6. FreshOK(c)' /\ CopyOK(c)'
    BY <2>1, CopyIdle DEF Quit
  <2>. QED  BY <2>4, <2>5, <2>6 DEF TitleInv, CopyInv
<1>21. ASSUME NEW c \in Clients, NEW s \in Series, Add(c, s)  PROVE TitleInv'
  <2>1. /\ shelf' = shelf /\ UNCHANGED titles /\ ghost'.wish = ghost.wish
        /\ ghost.tangled \subseteq ghost'.tangled
    BY <1>21 DEF Add, rows
  <2>2. Others(c)
    BY <1>21, <1>0, OfAdd
  <2>3. TitlesKept'
    BY <1>0, <2>1, TitlesQuiet
  <2>4. \A q \in Procs \ {c} : FreshOK(q)' /\ CopyOK(q)'
    BY <1>0, <2>1, <2>2, CopyQuiet DEF Others, Told
  <2>5. FreshOK(c)' /\ CopyOK(c)'
    BY <1>21, <1>0, OfAdd DEF Began, FreshOK, CopyOK, Writers
  <2>. QED  BY <2>3, <2>4, <2>5 DEF TitleInv, CopyInv
<1>22. ASSUME NEW c \in Clients, NEW s \in Series, AddByHand(c, s)  PROVE TitleInv'
  <2>1. /\ shelf' = shelf /\ UNCHANGED titles /\ ghost'.wish = ghost.wish
        /\ ghost.tangled \subseteq ghost'.tangled
    BY <1>22 DEF AddByHand, rows
  <2>2. Others(c)
    BY <1>22, <1>0, OfAddByHand
  <2>3. TitlesKept'
    BY <1>0, <2>1, TitlesQuiet
  <2>4. \A q \in Procs \ {c} : FreshOK(q)' /\ CopyOK(q)'
    BY <1>0, <2>1, <2>2, CopyQuiet DEF Others, Told
  <2>5. FreshOK(c)' /\ CopyOK(c)'
    BY <1>22, <1>0, OfAddByHand DEF Began, FreshOK, CopyOK, Writers
  <2>. QED  BY <2>3, <2>4, <2>5 DEF TitleInv, CopyInv
<1>23. ASSUME NEW c \in Clients, NEW s \in Series, Import(c, s)  PROVE TitleInv'
  <2>1. /\ shelf' = shelf /\ UNCHANGED titles /\ ghost'.wish = ghost.wish
        /\ ghost.tangled \subseteq ghost'.tangled
    BY <1>23 DEF Import, rows
  <2>2. Others(c)
    BY <1>23, <1>0, OfImport
  <2>3. TitlesKept'
    BY <1>0, <2>1, TitlesQuiet
  <2>4. \A q \in Procs \ {c} : FreshOK(q)' /\ CopyOK(q)'
    BY <1>0, <2>1, <2>2, CopyQuiet DEF Others, Told
  <2>5. FreshOK(c)' /\ CopyOK(c)'
    BY <1>23, <1>0, OfImport DEF Began, FreshOK, CopyOK, Writers
  <2>. QED  BY <2>3, <2>4, <2>5 DEF TitleInv, CopyInv
<1>24. ASSUME NEW c \in Clients, NEW s \in Series, Change(c, s)  PROVE TitleInv'
  <2>1. /\ shelf' = shelf /\ UNCHANGED titles /\ ghost'.wish = ghost.wish
        /\ ghost.tangled \subseteq ghost'.tangled
    BY <1>24 DEF Change, rows
  <2>2. Others(c)
    BY <1>24, <1>0, OfChange
  <2>3. TitlesKept'
    BY <1>0, <2>1, TitlesQuiet
  <2>4. \A q \in Procs \ {c} : FreshOK(q)' /\ CopyOK(q)'
    BY <1>0, <2>1, <2>2, CopyQuiet DEF Others, Told
  <2>5. FreshOK(c)' /\ CopyOK(c)'
    <3>1. /\ s \in shelf /\ job'[c].of = s
          /\ job'[c].what \in Writers /\ (job'[c].title # NoTitle => job'[c].what = "titles")
          /\ \A t \in Titles \ {job'[c].title} : job'[c].titles[t] = titles[s][t]
      BY <1>24, OfChange DEF Writers
    <3>. QED  BY <1>0, <2>1, <3>1 DEF FreshOK, CopyOK, TitlesKept, Keeps
  <2>. QED  BY <2>3, <2>4, <2>5 DEF TitleInv, CopyInv
<1>25. ASSUME NEW c \in Clients, NEW s \in Series, Delete(c, s)  PROVE TitleInv'
  <2>1. /\ shelf' = shelf /\ UNCHANGED titles /\ ghost'.wish = ghost.wish
        /\ ghost.tangled \subseteq ghost'.tangled
    BY <1>25 DEF Delete, rows
  <2>2. Others(c)
    BY <1>25, <1>0, OfDelete
  <2>3. TitlesKept'
    BY <1>0, <2>1, TitlesQuiet
  <2>4. \A q \in Procs \ {c} : FreshOK(q)' /\ CopyOK(q)'
    BY <1>0, <2>1, <2>2, CopyQuiet DEF Others, Told
  <2>5. FreshOK(c)' /\ CopyOK(c)'
    BY <1>25, <1>0, <2>1, OfDelete DEF Began, FreshOK, CopyOK, Writers, Delete
  <2>. QED  BY <2>3, <2>4, <2>5 DEF TitleInv, CopyInv
<1>26. ASSUME NEW w \in Workers, Comic(w)  PROVE TitleInv'
  <2>1. /\ shelf' = shelf /\ UNCHANGED titles /\ ghost'.wish = ghost.wish
        /\ ghost.tangled \subseteq ghost'.tangled
    BY <1>26 DEF Comic, rows
  <2>2. Others(w)
    BY <1>26, <1>0, OfComic
  <2>3. TitlesKept'
    BY <1>0, <2>1, TitlesQuiet
  <2>4. \A q \in Procs \ {w} : FreshOK(q)' /\ CopyOK(q)'
    BY <1>0, <2>1, <2>2, CopyQuiet DEF Others, Told
  <2>5. FreshOK(w)' /\ CopyOK(w)'
    BY <1>26, <1>0, <2>1, OfComic, CopyQuiet DEF Moved, SameRow, ToWrite
  <2>. QED  BY <2>3, <2>4, <2>5 DEF TitleInv, CopyInv
<1>27. ASSUME NEW w \in Workers, NEW s \in Series, Refresh(w, s)  PROVE TitleInv'
  <2>1. /\ shelf' = shelf /\ UNCHANGED titles /\ ghost'.wish = ghost.wish
        /\ ghost.tangled \subseteq ghost'.tangled
    BY <1>27 DEF Refresh, rows
  <2>2. Others(w)
    BY <1>27, <1>0, OfRefresh
  <2>3. TitlesKept'
    BY <1>0, <2>1, TitlesQuiet
  <2>4. \A q \in Procs \ {w} : FreshOK(q)' /\ CopyOK(q)'
    BY <1>0, <2>1, <2>2, CopyQuiet DEF Others, Told
  <2>5. FreshOK(w)' /\ CopyOK(w)'
    <3>1. CASE Quit(w)
      BY <1>0, <3>1, CopyIdle DEF Quit
    <3>2. CASE ~Quit(w)
      <4>1. /\ s \in shelf /\ job'[w].of = s /\ job'[w].title = NoTitle
            /\ job'[w].titles = titles[s]
        BY <1>27, <3>2, OfRefresh
      <4>. QED  BY <1>0, <2>1, <4>1 DEF FreshOK, CopyOK, TitlesKept, Keeps
    <3>. QED  BY <3>1, <3>2
  <2>. QED  BY <2>3, <2>4, <2>5 DEF TitleInv, CopyInv
<1>28. ASSUME NEW s \in Series, AskRefresh(s)  PROVE TitleInv'
  <2>1. UNCHANGED <<shelf, titles, ghost, job>>
    BY <1>28 DEF AskRefresh, rows
  <2>. QED  BY <1>0, <2>1 DEF TitleInv, TitlesKept, CopyInv, FreshOK, CopyOK
<1>29. ASSUME NEW i \in Listed, Hide(i)  PROVE TitleInv'
  <2>1. UNCHANGED <<shelf, titles, ghost>>
    BY <1>29 DEF Hide, rows
  <2>2. TitlesKept'
    BY <1>0, <2>1, TitlesQuiet
  <2>3. \A q \in Procs : FreshOK(q)' /\ CopyOK(q)'
    BY <1>29, <1>0, <2>1, OfHide, CopyQuiet DEF Told
  <2>. QED  BY <2>2, <2>3 DEF TitleInv, CopyInv
<1>30. ASSUME Crash  PROVE TitleInv'
  <2>1. /\ UNCHANGED <<shelf, titles>> /\ ghost'.wish = ghost.wish
        /\ ghost.tangled \subseteq ghost'.tangled
    BY <1>30, <1>0 DEF Crash, rows, GhostType
  <2>2. TitlesKept'
    BY <1>0, <2>1, TitlesQuiet
  <2>3. \A q \in Procs : FreshOK(q)' /\ CopyOK(q)'
    BY <1>30, CopyIdle DEF Crash
  <2>. QED  BY <2>2, <2>3 DEF TitleInv, CopyInv
<1>31. ASSUME UNCHANGED vars  PROVE TitleInv'
  <2>1. UNCHANGED <<shelf, titles, ghost, job>>
    BY <1>31 DEF vars, rows
  <2>. QED  BY <1>0, <2>1 DEF TitleInv, TitlesKept, CopyInv, FreshOK, CopyOK
<1>32. ASSUME NEW p \in Procs, p \in Workers, ComicFails(p)  PROVE TitleInv'
  <2>1. /\ shelf' = shelf /\ UNCHANGED titles /\ ghost'.wish = ghost.wish
        /\ ghost.tangled \subseteq ghost'.tangled
    BY <1>32, <1>0 DEF ComicFails, Fails, rows, GhostType
  <2>2. Others(p)
    BY <1>32, <1>0, OfFails DEF ComicFails
  <2>3. TitlesKept'
    BY <1>0, <2>1, TitlesQuiet
  <2>4. \A q \in Procs \ {p} : FreshOK(q)' /\ CopyOK(q)'
    BY <1>0, <2>1, <2>2, CopyQuiet DEF Others, Told
  <2>5. FreshOK(p)' /\ CopyOK(p)'
    BY <1>32, <1>0, OfFails, CopyIdle DEF Quit, ComicFails
  <2>. QED  BY <2>3, <2>4, <2>5 DEF TitleInv, CopyInv
<1>. QED
  BY <1>1, <1>2, <1>3, <1>4, <1>5, <1>6, <1>7, <1>8, <1>9, <1>10, <1>11,
     <1>12, <1>13, <1>14, <1>15, <1>16, <1>17, <1>18, <1>19, <1>20, <1>21,
     <1>22, <1>23, <1>24, <1>25, <1>26, <1>27, <1>28, <1>29, <1>30, <1>31, <1>32
  DEF Next, Procs

(***************************************************************************)
(* CoverIsThere: a row, or a copy that is not known to be old, that points *)
(* at this server's cover has one on disk, or one that is being replaced   *)
(* or deleted at this moment.                                              *)
(***************************************************************************)
Gap(s) ==
  \E c \in Clients :
    /\ job[c].of = s
    /\ \/ job[c].what = "upload" /\ job[c].at = "put"
       \/ job[c].what = "delete" /\ job[c].at = "drop"

There(s) == disk[s] = "cover" \/ Gap(s)

RowsCovered == \A s \in shelf \ ghost.tangled : thumb[s] = "own" => There(s)

PointsOK(p) ==
  /\ job[p].what = "upload" /\ job[p].at = "write" => job[p].thumb = "own"
  /\ ~job[p].stale /\ job[p].thumb = "own" =>
       /\ job[p].what \in {"add", "import", "manual"} /\ job[p].at = "insert"
            => There(job[p].of)
       /\ job[p].what = "upload" /\ job[p].at = "write" => There(job[p].of)
       /\ job[p].what \in {"titles", "url", "refresh"} /\ job[p].of \in shelf \ ghost.tangled
            => There(job[p].of)

CoverInv == RowsCovered /\ \A p \in Procs : PointsOK(p)

LEMMA CoverHolds == CoverInv => CoverIsThere
  BY DEF CoverInv, RowsCovered, There, Gap, CoverIsThere

(* Only the end of an upload or of a deletion closes a gap.                *)
LEMMA ThereStays ==
  ASSUME NEW p \in Procs, Others(p), NEW s, There(s),
         disk[s] = "cover" => disk'[s] = "cover",
         job[p].at \notin {"put", "drop"} \/ job[p].of # s
  PROVE  There(s)'
<1>1. CASE disk[s] = "cover"
  BY <1>1 DEF There
<1>2. ASSUME NEW c \in Clients, job[c].of = s,
             \/ job[c].what = "upload" /\ job[c].at = "put"
             \/ job[c].what = "delete" /\ job[c].at = "drop"
      PROVE  There(s)'
  <2>1. c # p /\ c \in Procs
    BY <1>2 DEF Procs
  <2>2. job'[c].of = job[c].of /\ job'[c].what = job[c].what /\ job'[c].at = job[c].at
    BY <2>1 DEF Others, Told
  <2>. QED  BY <1>2, <2>2 DEF There, Gap
<1>. QED  BY <1>1, <1>2 DEF There, Gap

LEMMA PointsQuiet ==
  ASSUME NEW q \in Procs, PointsOK(q),
         job'[q].what = job[q].what, job'[q].of = job[q].of,
         job'[q].thumb = job[q].thumb, job[q].stale => job'[q].stale,
         job'[q].at \in {"insert", "write"} => job'[q].at = job[q].at,
         ~job'[q].stale =>
           /\ There(job[q].of) => There(job[q].of)'
           /\ job[q].of \in shelf' \ ghost'.tangled => job[q].of \in shelf \ ghost.tangled
  PROVE  PointsOK(q)'
  BY DEF PointsOK

LEMMA PointsIdle ==
  ASSUME NEW q \in Procs, job'[q].thumb # "own", job'[q].what # "upload"
  PROVE  PointsOK(q)'
  BY DEF PointsOK

LEMMA CoverInit == Init => CoverInv
  BY IdleFields, CatalogAssumption DEF Init, CoverInv, RowsCovered, PointsOK,
     There

LEMMA CoverNext == BaseInv /\ CoverInv /\ [Next]_vars => CoverInv'
<1> SUFFICES ASSUME BaseInv, CoverInv, [Next]_vars  PROVE CoverInv'
  OBVIOUS
<1>0. /\ RowsCovered /\ \A p \in Procs : PointsOK(p)
      /\ job \in [Procs -> JobType] /\ thumb \in [Series -> {"own", "remote"}]
      /\ ghost \in GhostType /\ shelf \subseteq Series
      /\ Clients \subseteq Procs /\ Workers \subseteq Procs
      /\ \A p \in Procs : JobOK(p)
  BY DEF CoverInv, BaseInv, DomInv, JobInv, Procs
<1>1. ASSUME NEW p \in Procs, Refused(p)  PROVE CoverInv'
  <2>1. /\ UNCHANGED <<shelf, thumb>> /\ ghost.tangled \subseteq ghost'.tangled
    BY <1>1 DEF Refused, rows
  <2>2. Others(p)
    BY <1>1, <1>0, OfRefused
  <2>3. \A r \in Series : There(r) => There(r)'
    <3>1. disk' = disk
      BY <1>1 DEF Refused
    <3>2. job[p].at \notin {"put", "drop"}
      BY <1>1, <1>0, OfRefused, IdleFields DEF Refused
    <3>. QED  BY <1>0, <2>2, <3>1, <3>2, ThereStays
  <2>4. RowsCovered'
    BY <1>0, <2>1, <2>3 DEF RowsCovered
  <2>5. \A q \in Procs :
          \/ job[q].of \in Series
          \/ PointsOK(q)'
          \/ job[q].what \in Aimless
    BY <1>0 DEF JobOK
  <2>6. ASSUME NEW q \in Procs \ {p}  PROVE PointsOK(q)'
    <3>1. CASE job[q].what \in Aimless
      <4>1. job'[q].what \in Aimless
        BY <2>2, <3>1 DEF Others, Told
      <4>. QED  BY <4>1 DEF PointsOK, Aimless
    <3>2. CASE job[q].of \in Series
      BY <1>0, <2>1, <2>2, <2>3, <3>2, PointsQuiet DEF Others, Told
    <3>. QED  BY <2>5, <3>1, <3>2
  <2>7. PointsOK(p)'
    <3>1. job[p].of \in Series \/ job[p].what \in Aimless
      BY <1>0 DEF JobOK
    <3>. QED  BY <1>1, <1>0, <2>1, <2>3, <3>1, OfRefused, PointsQuiet DEF Moved,
                 SameRow, PointsOK, Aimless
  <2>. QED  BY <2>4, <2>6, <2>7 DEF CoverInv
<1>2. ASSUME NEW p \in Procs, Unanswered(p)  PROVE CoverInv'
  <2>1. /\ UNCHANGED <<shelf, thumb>> /\ ghost.tangled \subseteq ghost'.tangled
    BY <1>2, <1>0 DEF Unanswered, Fails, rows, GhostType
  <2>2. Others(p)
    BY <1>2, <1>0, OfFails DEF Unanswered
  <2>3. \A r \in Series : There(r) => There(r)'
    <3>1. disk' = disk
      BY <1>2 DEF Unanswered
    <3>2. job[p].at \notin {"put", "drop"}
      BY <1>2, <1>0, OfFails, IdleFields DEF Unanswered
    <3>. QED  BY <1>0, <2>2, <3>1, <3>2, ThereStays
  <2>4. RowsCovered'
    BY <1>0, <2>1, <2>3 DEF RowsCovered
  <2>5. \A q \in Procs :
          \/ job[q].of \in Series
          \/ PointsOK(q)'
          \/ job[q].what \in Aimless
    BY <1>0 DEF JobOK
  <2>6. ASSUME NEW q \in Procs \ {p}  PROVE PointsOK(q)'
    <3>1. CASE job[q].what \in Aimless
      <4>1. job'[q].what \in Aimless
        BY <2>2, <3>1 DEF Others, Told
      <4>. QED  BY <4>1 DEF PointsOK, Aimless
    <3>2. CASE job[q].of \in Series
      BY <1>0, <2>1, <2>2, <2>3, <3>2, PointsQuiet DEF Others, Told
    <3>. QED  BY <2>5, <3>1, <3>2
  <2>7. PointsOK(p)'
    BY <1>2, <1>0, OfFails, PointsIdle, IdleFields DEF Quit, Unanswered
  <2>. QED  BY <2>4, <2>6, <2>7 DEF CoverInv
<1>3. ASSUME NEW p \in Procs, Answered(p)  PROVE CoverInv'
  <2>1. /\ UNCHANGED <<shelf, thumb>> /\ ghost.tangled \subseteq ghost'.tangled
    BY <1>3 DEF Answered, rows
  <2>2. Others(p)
    BY <1>3, <1>0, OfAnswered
  <2>3. \A r \in Series : There(r) => There(r)'
    <3>1. disk' = disk
      BY <1>3 DEF Answered
    <3>2. job[p].at \notin {"put", "drop"}
      BY <1>3, <1>0, OfAnswered, IdleFields
    <3>. QED  BY <1>0, <2>2, <3>1, <3>2, ThereStays
  <2>4. RowsCovered'
    BY <1>0, <2>1, <2>3 DEF RowsCovered
  <2>5. \A q \in Procs :
          \/ job[q].of \in Series
          \/ PointsOK(q)'
          \/ job[q].what \in Aimless
    BY <1>0 DEF JobOK
  <2>6. ASSUME NEW q \in Procs \ {p}  PROVE PointsOK(q)'
    <3>1. CASE job[q].what \in Aimless
      <4>1. job'[q].what \in Aimless
        BY <2>2, <3>1 DEF Others, Told
      <4>. QED  BY <4>1 DEF PointsOK, Aimless
    <3>2. CASE job[q].of \in Series
      BY <1>0, <2>1, <2>2, <2>3, <3>2, PointsQuiet DEF Others, Told
    <3>. QED  BY <2>5, <3>1, <3>2
  <2>7. PointsOK(p)'
    <3>1. job[p].of \in Series
      BY <1>3, <1>0, OfAnswered DEF JobOK, Aimless
    <3>. QED  BY <1>3, <1>0, <2>1, <2>3, <3>1, OfAnswered, PointsQuiet DEF Moved
  <2>. QED  BY <2>4, <2>6, <2>7 DEF CoverInv
<1>4. ASSUME NEW p \in Procs, Cover(p)  PROVE CoverInv'
  <2>1. /\ UNCHANGED <<shelf, thumb>> /\ ghost.tangled \subseteq ghost'.tangled
    BY <1>4 DEF Cover, rows
  <2>2. Others(p)
    BY <1>4, <1>0, OfCover
  <2>3. \A r \in Series : There(r) => There(r)'
    BY <1>4, <1>0, <2>2, OfCover, ThereStays
  <2>4. RowsCovered'
    BY <1>0, <2>1, <2>3 DEF RowsCovered
  <2>5. \A q \in Procs :
          \/ job[q].of \in Series
          \/ PointsOK(q)'
          \/ job[q].what \in Aimless
    BY <1>0 DEF JobOK
  <2>6. ASSUME NEW q \in Procs \ {p}  PROVE PointsOK(q)'
    <3>1. CASE job[q].what \in Aimless
      <4>1. job'[q].what \in Aimless
        BY <2>2, <3>1 DEF Others, Told
      <4>. QED  BY <4>1 DEF PointsOK, Aimless
    <3>2. CASE job[q].of \in Series
      BY <1>0, <2>1, <2>2, <2>3, <3>2, PointsQuiet DEF Others, Told
    <3>. QED  BY <2>5, <3>1, <3>2
  <2>7. PointsOK(p)'
    <3>1. job'[p].what = job[p].what /\ job[p].what # "upload" /\ job'[p].of = job[p].of
      BY <1>4, OfCover DEF Moved
    <3>2. job'[p].thumb = "own" => There(job[p].of)'
      BY <1>4, <3>1, OfCover DEF There
    <3>. QED  BY <3>1, <3>2 DEF PointsOK
  <2>. QED  BY <2>4, <2>6, <2>7 DEF CoverInv
<1>5. ASSUME NEW p \in Procs, Write(p)  PROVE CoverInv'
  <2> DEFINE s == job[p].of
             T == IF job[p].stale THEN ghost.tangled \cup {s} ELSE ghost.tangled
  <2>1. /\ job[p].what \in {"titles", "upload", "url", "refresh"} /\ job[p].at = "write"
        /\ s \in Series /\ Others(p) /\ PointsOK(p)
        /\ Quit(p) \/ (job[p].what = "refresh" /\ Moved(p) /\ SameRow(p) /\ job'[p].at = "comic")
        /\ s \in shelf => \A q \in Procs \ {p} : job[q].of = s => job'[q].stale
    BY <1>5, <1>0, OfWrite
  <2>2. /\ UNCHANGED <<shelf, disk>> /\ ghost.tangled \subseteq ghost'.tangled
        /\ s \in shelf => ghost'.tangled = T
    <3>1. UNCHANGED <<shelf, disk>>
      BY <1>5 DEF Write
    <3>2. CASE s \in shelf
      <4> DEFINE W == IF job[p].what = "titles"
                      THEN [ghost.wish[s] EXCEPT ![job[p].title] = Wish(job[p].titles[job[p].title])]
                      ELSE ghost.wish[s]
      <4>1. ghost' = [ghost EXCEPT !.wish[s] = W, !.tangled = T]
        BY <1>5, <3>2 DEF Write
      <4>. HIDE DEF W
      <4>. QED  BY <1>0, <3>1, <4>1 DEF GhostType
    <3>3. CASE s \notin shelf
      <4>1. ghost' = ghost \/ ghost' = [ghost EXCEPT !.excused = @ \cup shelf]
        BY <1>5, <3>3 DEF Write, Fails
      <4>. QED  BY <1>0, <3>1, <3>3, <4>1 DEF GhostType
    <3>. QED  BY <3>2, <3>3
  <2>3. \A r \in Series : There(r) => There(r)'
    BY <1>0, <2>1, <2>2, ThereStays
  <2>4. ASSUME NEW r \in shelf \ ghost'.tangled, thumb'[r] = "own"  PROVE There(r)'
    <3>1. r \in Series /\ r \notin ghost.tangled
      BY <1>0, <2>2, <2>4
    <3>2. CASE thumb'[r] = thumb[r]
      BY <1>0, <2>3, <2>4, <3>1, <3>2 DEF RowsCovered
    <3>3. CASE thumb'[r] # thumb[r]
      <4>1. r = s /\ thumb'[r] = job[p].thumb
        BY <1>5, <1>0, <2>1, <3>1, <3>3 DEF Write
      <4>2. ~job[p].stale
        BY <2>2, <2>4, <4>1
      <4>3. There(s)
        BY <2>1, <2>4, <3>1, <4>1, <4>2 DEF PointsOK
      <4>. QED  BY <2>1, <2>3, <4>1, <4>3
    <3>. QED  BY <3>2, <3>3
  <2>5. RowsCovered'
    BY <2>2, <2>4 DEF RowsCovered
  <2>6. ASSUME NEW q \in Procs \ {p}  PROVE PointsOK(q)'
    <3>1. CASE job[q].what \in Aimless
      <4>1. job'[q].what \in Aimless
        BY <2>1, <3>1 DEF Others, Told
      <4>. QED  BY <4>1 DEF PointsOK, Aimless
    <3>2. CASE job[q].what \notin Aimless
      <4>1. job[q].of \in Series /\ Told(q) /\ PointsOK(q)
        BY <1>0, <2>1, <3>2 DEF JobOK, Others
      <4>. QED  BY <2>2, <2>3, <4>1, PointsQuiet DEF Told
    <3>. QED  BY <3>1, <3>2
  <2>7. PointsOK(p)'
    <3>1. CASE Quit(p)
      BY <3>1, PointsIdle, IdleFields DEF Quit
    <3>2. CASE Moved(p) /\ SameRow(p) /\ job'[p].at = "comic"
      BY <2>1, <2>2, <2>3, <3>2, PointsQuiet DEF Moved, SameRow
    <3>. QED  BY <2>1, <3>1, <3>2
  <2>. QED  BY <2>5, <2>6, <2>7 DEF CoverInv
<1>6. ASSUME NEW p \in Procs, Look(p)  PROVE CoverInv'
  <2>1. /\ UNCHANGED <<shelf, thumb>> /\ ghost.tangled \subseteq ghost'.tangled
    BY <1>6, <1>0 DEF Look, rows, GhostType
  <2>2. Others(p)
    BY <1>6, <1>0, OfLook
  <2>3. \A r \in Series : There(r) => There(r)'
    <3>1. disk' = disk
      BY <1>6 DEF Look
    <3>2. job[p].at \notin {"put", "drop"}
      BY <1>6, <1>0, OfLook, IdleFields
    <3>. QED  BY <1>0, <2>2, <3>1, <3>2, ThereStays
  <2>4. RowsCovered'
    BY <1>0, <2>1, <2>3 DEF RowsCovered
  <2>5. \A q \in Procs :
          \/ job[q].of \in Series
          \/ PointsOK(q)'
          \/ job[q].what \in Aimless
    BY <1>0 DEF JobOK
  <2>6. ASSUME NEW q \in Procs \ {p}  PROVE PointsOK(q)'
    <3>1. CASE job[q].what \in Aimless
      <4>1. job'[q].what \in Aimless
        BY <2>2, <3>1 DEF Others, Told
      <4>. QED  BY <4>1 DEF PointsOK, Aimless
    <3>2. CASE job[q].of \in Series
      BY <1>0, <2>1, <2>2, <2>3, <3>2, PointsQuiet DEF Others, Told
    <3>. QED  BY <2>5, <3>1, <3>2
  <2>7. PointsOK(p)'
    <3>1. CASE Quit(p)
      BY <1>0, <3>1, PointsIdle, IdleFields DEF Quit
    <3>2. CASE Moved(p) /\ SameRow(p)
      <4>1. job[p].of \in Series \/ job[p].what \in Aimless
        BY <1>0 DEF JobOK
      <4>. QED  BY <1>6, <1>0, <2>1, <2>3, <3>2, <4>1, OfLook, IdleFields,
                   PointsQuiet DEF Moved, SameRow, PointsOK, Aimless, Quit
    <3>. QED  BY <1>6, <1>0, <3>1, <3>2, OfLook
  <2>. QED  BY <2>4, <2>6, <2>7 DEF CoverInv
<1>7. ASSUME NEW p \in Procs, Request(p)  PROVE CoverInv'
  <2>1. /\ UNCHANGED <<shelf, thumb>> /\ ghost.tangled \subseteq ghost'.tangled
    BY <1>7 DEF Request, rows
  <2>2. Others(p)
    BY <1>7, <1>0, OfRequest
  <2>3. \A r \in Series : There(r) => There(r)'
    <3>1. disk' = disk
      BY <1>7 DEF Request
    <3>2. job[p].at \notin {"put", "drop"}
      BY <1>7, <1>0, OfRequest, IdleFields
    <3>. QED  BY <1>0, <2>2, <3>1, <3>2, ThereStays
  <2>4. RowsCovered'
    BY <1>0, <2>1, <2>3 DEF RowsCovered
  <2>5. \A q \in Procs :
          \/ job[q].of \in Series
          \/ PointsOK(q)'
          \/ job[q].what \in Aimless
    BY <1>0 DEF JobOK
  <2>6. ASSUME NEW q \in Procs \ {p}  PROVE PointsOK(q)'
    <3>1. CASE job[q].what \in Aimless
      <4>1. job'[q].what \in Aimless
        BY <2>2, <3>1 DEF Others, Told
      <4>. QED  BY <4>1 DEF PointsOK, Aimless
    <3>2. CASE job[q].of \in Series
      BY <1>0, <2>1, <2>2, <2>3, <3>2, PointsQuiet DEF Others, Told
    <3>. QED  BY <2>5, <3>1, <3>2
  <2>7. PointsOK(p)'
    BY <1>7, <1>0, OfRequest, PointsIdle, IdleFields DEF Quit
  <2>. QED  BY <2>4, <2>6, <2>7 DEF CoverInv
<1>8. ASSUME NEW p \in Procs, Suggest(p)  PROVE CoverInv'
  <2>1. /\ UNCHANGED <<shelf, thumb>> /\ ghost.tangled \subseteq ghost'.tangled
    BY <1>8 DEF Suggest, rows
  <2>2. Others(p)
    BY <1>8, <1>0, OfSuggest
  <2>3. \A r \in Series : There(r) => There(r)'
    <3>1. disk' = disk
      BY <1>8 DEF Suggest
    <3>2. job[p].at \notin {"put", "drop"}
      BY <1>8, <1>0, OfSuggest, IdleFields DEF Began
    <3>. QED  BY <1>0, <2>2, <3>1, <3>2, ThereStays
  <2>4. RowsCovered'
    BY <1>0, <2>1, <2>3 DEF RowsCovered
  <2>5. \A q \in Procs :
          \/ job[q].of \in Series
          \/ PointsOK(q)'
          \/ job[q].what \in Aimless
    BY <1>0 DEF JobOK
  <2>6. ASSUME NEW q \in Procs \ {p}  PROVE PointsOK(q)'
    <3>1. CASE job[q].what \in Aimless
      <4>1. job'[q].what \in Aimless
        BY <2>2, <3>1 DEF Others, Told
      <4>. QED  BY <4>1 DEF PointsOK, Aimless
    <3>2. CASE job[q].of \in Series
      BY <1>0, <2>1, <2>2, <2>3, <3>2, PointsQuiet DEF Others, Told
    <3>. QED  BY <2>5, <3>1, <3>2
  <2>7. PointsOK(p)'
    BY <1>8, <1>0, OfSuggest, PointsIdle DEF Began
  <2>. QED  BY <2>4, <2>6, <2>7 DEF CoverInv
<1>9. ASSUME NEW p \in Procs, ReadShelf(p)  PROVE CoverInv'
  <2>1. /\ UNCHANGED <<shelf, thumb>> /\ ghost.tangled \subseteq ghost'.tangled
    BY <1>9 DEF ReadShelf, rows
  <2>2. Others(p)
    BY <1>9, <1>0, OfReadShelf
  <2>3. \A r \in Series : There(r) => There(r)'
    <3>1. disk' = disk
      BY <1>9 DEF ReadShelf
    <3>2. job[p].at \notin {"put", "drop"}
      BY <1>9, <1>0, OfReadShelf, IdleFields
    <3>. QED  BY <1>0, <2>2, <3>1, <3>2, ThereStays
  <2>4. RowsCovered'
    BY <1>0, <2>1, <2>3 DEF RowsCovered
  <2>5. \A q \in Procs :
          \/ job[q].of \in Series
          \/ PointsOK(q)'
          \/ job[q].what \in Aimless
    BY <1>0 DEF JobOK
  <2>6. ASSUME NEW q \in Procs \ {p}  PROVE PointsOK(q)'
    <3>1. CASE job[q].what \in Aimless
      <4>1. job'[q].what \in Aimless
        BY <2>2, <3>1 DEF Others, Told
      <4>. QED  BY <4>1 DEF PointsOK, Aimless
    <3>2. CASE job[q].of \in Series
      BY <1>0, <2>1, <2>2, <2>3, <3>2, PointsQuiet DEF Others, Told
    <3>. QED  BY <2>5, <3>1, <3>2
  <2>7. PointsOK(p)'
    <3>1. job'[p].what = "suggest"
      BY <1>9, OfReadShelf DEF Moved
    <3>. QED  BY <3>1 DEF PointsOK
  <2>. QED  BY <2>4, <2>6, <2>7 DEF CoverInv
<1>10. ASSUME NEW p \in Procs, Bundled(p)  PROVE CoverInv'
  <2>1. /\ UNCHANGED <<shelf, thumb>> /\ ghost.tangled \subseteq ghost'.tangled
    BY <1>10 DEF Bundled, rows
  <2>2. Others(p)
    BY <1>10, <1>0, OfBundled
  <2>3. \A r \in Series : There(r) => There(r)'
    <3>1. disk' = disk
      BY <1>10 DEF Bundled
    <3>2. job[p].at \notin {"put", "drop"}
      BY <1>10, <1>0, OfBundled, IdleFields
    <3>. QED  BY <1>0, <2>2, <3>1, <3>2, ThereStays
  <2>4. RowsCovered'
    BY <1>0, <2>1, <2>3 DEF RowsCovered
  <2>5. \A q \in Procs :
          \/ job[q].of \in Series
          \/ PointsOK(q)'
          \/ job[q].what \in Aimless
    BY <1>0 DEF JobOK
  <2>6. ASSUME NEW q \in Procs \ {p}  PROVE PointsOK(q)'
    <3>1. CASE job[q].what \in Aimless
      <4>1. job'[q].what \in Aimless
        BY <2>2, <3>1 DEF Others, Told
      <4>. QED  BY <4>1 DEF PointsOK, Aimless
    <3>2. CASE job[q].of \in Series
      BY <1>0, <2>1, <2>2, <2>3, <3>2, PointsQuiet DEF Others, Told
    <3>. QED  BY <2>5, <3>1, <3>2
  <2>7. PointsOK(p)'
    <3>1. job'[p].what = "suggest"
      BY <1>10, OfBundled DEF Moved
    <3>. QED  BY <3>1 DEF PointsOK
  <2>. QED  BY <2>4, <2>6, <2>7 DEF CoverInv
<1>11. ASSUME NEW p \in Procs, Detailed(p)  PROVE CoverInv'
  <2>1. /\ UNCHANGED <<shelf, thumb>> /\ ghost.tangled \subseteq ghost'.tangled
    BY <1>11 DEF Detailed, rows
  <2>2. Others(p)
    BY <1>11, <1>0, OfDetailed
  <2>3. \A r \in Series : There(r) => There(r)'
    <3>1. disk' = disk
      BY <1>11 DEF Detailed
    <3>2. job[p].at \notin {"put", "drop"}
      BY <1>11, <1>0, OfDetailed, IdleFields
    <3>. QED  BY <1>0, <2>2, <3>1, <3>2, ThereStays
  <2>4. RowsCovered'
    BY <1>0, <2>1, <2>3 DEF RowsCovered
  <2>5. \A q \in Procs :
          \/ job[q].of \in Series
          \/ PointsOK(q)'
          \/ job[q].what \in Aimless
    BY <1>0 DEF JobOK
  <2>6. ASSUME NEW q \in Procs \ {p}  PROVE PointsOK(q)'
    <3>1. CASE job[q].what \in Aimless
      <4>1. job'[q].what \in Aimless
        BY <2>2, <3>1 DEF Others, Told
      <4>. QED  BY <4>1 DEF PointsOK, Aimless
    <3>2. CASE job[q].of \in Series
      BY <1>0, <2>1, <2>2, <2>3, <3>2, PointsQuiet DEF Others, Told
    <3>. QED  BY <2>5, <3>1, <3>2
  <2>7. PointsOK(p)'
    <3>1. job'[p].what = "suggest"
      BY <1>11, OfDetailed DEF Moved
    <3>. QED  BY <3>1 DEF PointsOK
  <2>. QED  BY <2>4, <2>6, <2>7 DEF CoverInv
<1>12. ASSUME NEW p \in Procs, Recall(p)  PROVE CoverInv'
  <2>1. /\ UNCHANGED <<shelf, thumb>> /\ ghost.tangled \subseteq ghost'.tangled
    BY <1>12 DEF Recall, rows
  <2>2. Others(p)
    BY <1>12, <1>0, OfRecall
  <2>3. \A r \in Series : There(r) => There(r)'
    <3>1. disk' = disk
      BY <1>12 DEF Recall
    <3>2. job[p].at \notin {"put", "drop"}
      BY <1>12, <1>0, OfRecall, IdleFields
    <3>. QED  BY <1>0, <2>2, <3>1, <3>2, ThereStays
  <2>4. RowsCovered'
    BY <1>0, <2>1, <2>3 DEF RowsCovered
  <2>5. \A q \in Procs :
          \/ job[q].of \in Series
          \/ PointsOK(q)'
          \/ job[q].what \in Aimless
    BY <1>0 DEF JobOK
  <2>6. ASSUME NEW q \in Procs \ {p}  PROVE PointsOK(q)'
    <3>1. CASE job[q].what \in Aimless
      <4>1. job'[q].what \in Aimless
        BY <2>2, <3>1 DEF Others, Told
      <4>. QED  BY <4>1 DEF PointsOK, Aimless
    <3>2. CASE job[q].of \in Series
      BY <1>0, <2>1, <2>2, <2>3, <3>2, PointsQuiet DEF Others, Told
    <3>. QED  BY <2>5, <3>1, <3>2
  <2>7. PointsOK(p)'
    <3>1. job'[p].what = "suggest"
      BY <1>12, OfRecall DEF Moved
    <3>. QED  BY <3>1 DEF PointsOK
  <2>. QED  BY <2>4, <2>6, <2>7 DEF CoverInv
<1>13. ASSUME NEW p \in Procs, Store(p)  PROVE CoverInv'
  <2>1. /\ UNCHANGED <<shelf, thumb>> /\ ghost.tangled \subseteq ghost'.tangled
    <3>1. UNCHANGED <<shelf, thumb>>
      BY <1>13 DEF Store, rows
    <3>2. \/ ghost' = ghost
          \/ \E e : ghost' = [ghost EXCEPT !.excused = e]
          \/ \E k, e : ghost' = [ghost EXCEPT !.known = k, !.excused = e]
      BY <1>13 DEF Store, Fails
    <3>3. ghost'.tangled = ghost.tangled
      BY <1>0, <3>2 DEF GhostType
    <3>. QED  BY <3>1, <3>3
  <2>2. Others(p)
    BY <1>13, <1>0, OfStore
  <2>3. \A r \in Series : There(r) => There(r)'
    <3>1. disk' = disk
      BY <1>13 DEF Store
    <3>2. job[p].at \notin {"put", "drop"}
      BY <1>13, <1>0, OfStore, IdleFields
    <3>. QED  BY <1>0, <2>2, <3>1, <3>2, ThereStays
  <2>4. RowsCovered'
    BY <1>0, <2>1, <2>3 DEF RowsCovered
  <2>5. \A q \in Procs :
          \/ job[q].of \in Series
          \/ PointsOK(q)'
          \/ job[q].what \in Aimless
    BY <1>0 DEF JobOK
  <2>6. ASSUME NEW q \in Procs \ {p}  PROVE PointsOK(q)'
    <3>1. CASE job[q].what \in Aimless
      <4>1. job'[q].what \in Aimless
        BY <2>2, <3>1 DEF Others, Told
      <4>. QED  BY <4>1 DEF PointsOK, Aimless
    <3>2. CASE job[q].of \in Series
      BY <1>0, <2>1, <2>2, <2>3, <3>2, PointsQuiet DEF Others, Told
    <3>. QED  BY <2>5, <3>1, <3>2
  <2>7. PointsOK(p)'
    BY <1>13, <1>0, OfStore, PointsIdle, IdleFields DEF Quit
  <2>. QED  BY <2>4, <2>6, <2>7 DEF CoverInv
<1>14. ASSUME NEW c \in Clients, Clear(c)  PROVE CoverInv'
  <2>1. /\ UNCHANGED <<shelf, thumb>> /\ ghost.tangled \subseteq ghost'.tangled
    BY <1>14 DEF Clear, rows
  <2>2. Others(c)
    BY <1>14, <1>0, OfClear
  <2>3. \A r \in Series : There(r) => There(r)'
    <3>1. ASSUME NEW s \in Series, There(s)  PROVE There(s)'
      <4>1. CASE s = job[c].of
        BY <1>14, <4>1, OfClear DEF There, Gap, Moved
      <4>2. CASE s # job[c].of
        BY <1>14, <1>0, <2>2, <3>1, <4>2, OfClear, ThereStays
      <4>. QED  BY <4>1, <4>2
    <3>. QED  BY <3>1
  <2>4. RowsCovered'
    BY <1>0, <2>1, <2>3 DEF RowsCovered
  <2>5. \A q \in Procs :
          \/ job[q].of \in Series
          \/ PointsOK(q)'
          \/ job[q].what \in Aimless
    BY <1>0 DEF JobOK
  <2>6. ASSUME NEW q \in Procs \ {c}  PROVE PointsOK(q)'
    <3>1. CASE job[q].what \in Aimless
      <4>1. job'[q].what \in Aimless
        BY <2>2, <3>1 DEF Others, Told
      <4>. QED  BY <4>1 DEF PointsOK, Aimless
    <3>2. CASE job[q].of \in Series
      BY <1>0, <2>1, <2>2, <2>3, <3>2, PointsQuiet DEF Others, Told
    <3>. QED  BY <2>5, <3>1, <3>2
  <2>7. PointsOK(c)'
    <3>1. job[c].of \in Series \/ job[c].what \in Aimless
      BY <1>0 DEF JobOK
    <3>. QED  BY <1>14, <1>0, <2>1, <2>3, <3>1, OfClear, PointsQuiet DEF Moved,
                 SameRow, PointsOK, Aimless
  <2>. QED  BY <2>4, <2>6, <2>7 DEF CoverInv
<1>15. ASSUME NEW c \in Clients, Put(c)  PROVE CoverInv'
  <2>1. /\ UNCHANGED <<shelf, thumb>> /\ ghost.tangled \subseteq ghost'.tangled
    BY <1>15 DEF Put, rows
  <2>2. Others(c)
    BY <1>15, <1>0, OfPut
  <2>3. \A r \in Series : There(r) => There(r)'
    <3>1. ASSUME NEW s \in Series, There(s)  PROVE There(s)'
      <4>1. CASE s = job[c].of
        BY <1>15, <4>1, OfPut DEF There
      <4>2. CASE s # job[c].of
        BY <1>15, <1>0, <2>2, <3>1, <4>2, OfPut, ThereStays
      <4>. QED  BY <4>1, <4>2
    <3>. QED  BY <3>1
  <2>4. RowsCovered'
    BY <1>0, <2>1, <2>3 DEF RowsCovered
  <2>5. \A q \in Procs :
          \/ job[q].of \in Series
          \/ PointsOK(q)'
          \/ job[q].what \in Aimless
    BY <1>0 DEF JobOK
  <2>6. ASSUME NEW q \in Procs \ {c}  PROVE PointsOK(q)'
    <3>1. CASE job[q].what \in Aimless
      <4>1. job'[q].what \in Aimless
        BY <2>2, <3>1 DEF Others, Told
      <4>. QED  BY <4>1 DEF PointsOK, Aimless
    <3>2. CASE job[q].of \in Series
      BY <1>0, <2>1, <2>2, <2>3, <3>2, PointsQuiet DEF Others, Told
    <3>. QED  BY <2>5, <3>1, <3>2
  <2>7. PointsOK(c)'
    <3>1. job[c].of \in Series
      BY <1>15, <1>0, OfPut DEF JobOK, Aimless
    <3>2. There(job[c].of)'
      BY <1>15, <3>1, OfPut DEF There, Moved
    <3>. QED  BY <1>15, <3>2, OfPut DEF PointsOK, Moved
  <2>. QED  BY <2>4, <2>6, <2>7 DEF CoverInv
<1>16. ASSUME NEW c \in Clients, Check(c)  PROVE CoverInv'
  <2>1. /\ UNCHANGED <<shelf, thumb>> /\ ghost.tangled \subseteq ghost'.tangled
    BY <1>16 DEF Check, rows
  <2>2. Others(c)
    BY <1>16, <1>0, OfCheck
  <2>3. \A r \in Series : There(r) => There(r)'
    <3>1. disk' = disk
      BY <1>16 DEF Check
    <3>2. job[c].at \notin {"put", "drop"}
      BY <1>16, <1>0, OfCheck, IdleFields
    <3>. QED  BY <1>0, <2>2, <3>1, <3>2, ThereStays
  <2>4. RowsCovered'
    BY <1>0, <2>1, <2>3 DEF RowsCovered
  <2>5. \A q \in Procs :
          \/ job[q].of \in Series
          \/ PointsOK(q)'
          \/ job[q].what \in Aimless
    BY <1>0 DEF JobOK
  <2>6. ASSUME NEW q \in Procs \ {c}  PROVE PointsOK(q)'
    <3>1. CASE job[q].what \in Aimless
      <4>1. job'[q].what \in Aimless
        BY <2>2, <3>1 DEF Others, Told
      <4>. QED  BY <4>1 DEF PointsOK, Aimless
    <3>2. CASE job[q].of \in Series
      BY <1>0, <2>1, <2>2, <2>3, <3>2, PointsQuiet DEF Others, Told
    <3>. QED  BY <2>5, <3>1, <3>2
  <2>7. PointsOK(c)'
    <3>1. CASE Quit(c)
      BY <1>0, <3>1, PointsIdle, IdleFields DEF Quit
    <3>2. CASE Moved(c) /\ SameRow(c)
      <4>1. job[c].of \in Series \/ job[c].what \in Aimless
        BY <1>0 DEF JobOK
      <4>. QED  BY <1>16, <1>0, <2>1, <2>3, <3>2, <4>1, OfCheck, IdleFields,
                   PointsQuiet DEF Moved, SameRow, PointsOK, Aimless, Quit
    <3>. QED  BY <1>16, <1>0, <3>1, <3>2, OfCheck
  <2>. QED  BY <2>4, <2>6, <2>7 DEF CoverInv
<1>17. ASSUME NEW c \in Clients, Insert(c)  PROVE CoverInv'
  <2> DEFINE s == job[c].of
             T == IF job[c].stale THEN ghost.tangled \cup {s} ELSE ghost.tangled \ {s}
  <2>1. /\ job[c].what \in {"add", "import", "manual"} /\ job[c].at = "insert"
        /\ s \in Series /\ c \in Procs /\ Others(c) /\ PointsOK(c)
        /\ s \in shelf => Quit(c)
        /\ s \notin shelf =>
             /\ Moved(c) /\ SameRow(c) /\ job'[c].at = "queue"
             /\ \A q \in Procs \ {c} : job[q].of = s => job'[q].stale
    BY <1>17, <1>0, OfInsert
  <2>2. /\ disk' = disk
        /\ s \in shelf => UNCHANGED <<shelf, thumb, ghost>>
        /\ s \notin shelf => /\ shelf' = shelf \cup {s} /\ ghost'.tangled = T
                             /\ thumb' = [thumb EXCEPT ![s] = job[c].thumb]
    BY <1>17, <1>0 DEF Insert, rows, GhostType
  <2>3. \A r \in Series : There(r) => There(r)'
    BY <1>0, <2>1, <2>2, ThereStays
  <2>4. ASSUME NEW r \in shelf' \ ghost'.tangled, thumb'[r] = "own"  PROVE There(r)'
    <3>1. CASE s \notin shelf /\ r = s
      <4>1. ~job[c].stale /\ job[c].thumb = "own"
        BY <1>0, <2>1, <2>2, <2>4, <3>1
      <4>. QED  BY <2>1, <2>3, <3>1, <4>1 DEF PointsOK
    <3>2. CASE s \in shelf \/ r # s
      <4>1. r \in shelf \ ghost.tangled /\ thumb[r] = "own" /\ r \in Series
        BY <1>0, <2>1, <2>2, <2>4, <3>2
      <4>. QED  BY <1>0, <2>3, <4>1 DEF RowsCovered
    <3>. QED  BY <3>1, <3>2
  <2>5. RowsCovered'
    BY <2>4 DEF RowsCovered
  <2>6. ASSUME NEW q \in Procs \ {c}  PROVE PointsOK(q)'
    <3>1. CASE job[q].what \in Aimless
      <4>1. job'[q].what \in Aimless
        BY <2>1, <3>1 DEF Others, Told
      <4>. QED  BY <4>1 DEF PointsOK, Aimless
    <3>2. CASE job[q].what \notin Aimless
      <4>1. job[q].of \in Series /\ Told(q) /\ PointsOK(q)
        BY <1>0, <2>1, <3>2 DEF JobOK, Others
      <4>2. ~job'[q].stale /\ job[q].of \in shelf' \ ghost'.tangled
              => job[q].of \in shelf \ ghost.tangled
        BY <2>1, <2>2
      <4>. QED  BY <2>3, <4>1, <4>2, PointsQuiet DEF Told
    <3>. QED  BY <3>1, <3>2
  <2>7. PointsOK(c)'
    <3>1. CASE Quit(c)
      BY <2>1, <3>1, PointsIdle, IdleFields DEF Quit
    <3>2. CASE Moved(c) /\ job'[c].at = "queue"
      BY <2>1, <3>2 DEF Moved, PointsOK
    <3>. QED  BY <2>1, <3>1, <3>2
  <2>. QED  BY <2>5, <2>6, <2>7 DEF CoverInv
<1>18. ASSUME NEW c \in Clients, Queue(c)  PROVE CoverInv'
  <2>1. /\ UNCHANGED <<shelf, thumb>> /\ ghost.tangled \subseteq ghost'.tangled
    BY <1>18 DEF Queue, rows
  <2>2. Others(c)
    BY <1>18, <1>0, OfQueue
  <2>3. \A r \in Series : There(r) => There(r)'
    BY <1>18, <1>0, <2>2, OfQueue, ThereStays
  <2>4. RowsCovered'
    BY <1>0, <2>1, <2>3 DEF RowsCovered
  <2>5. \A q \in Procs :
          \/ job[q].of \in Series
          \/ PointsOK(q)'
          \/ job[q].what \in Aimless
    BY <1>0 DEF JobOK
  <2>6. ASSUME NEW q \in Procs \ {c}  PROVE PointsOK(q)'
    <3>1. CASE job[q].what \in Aimless
      <4>1. job'[q].what \in Aimless
        BY <2>2, <3>1 DEF Others, Told
      <4>. QED  BY <4>1 DEF PointsOK, Aimless
    <3>2. CASE job[q].of \in Series
      BY <1>0, <2>1, <2>2, <2>3, <3>2, PointsQuiet DEF Others, Told
    <3>. QED  BY <2>5, <3>1, <3>2
  <2>7. PointsOK(c)'
    <3>1. CASE Quit(c)
      BY <1>0, <3>1, PointsIdle, IdleFields DEF Quit
    <3>2. CASE Moved(c) /\ SameRow(c)
      <4>1. job[c].of \in Series \/ job[c].what \in Aimless
        BY <1>0 DEF JobOK
      <4>. QED  BY <1>18, <1>0, <2>1, <2>3, <3>2, <4>1, OfQueue, IdleFields,
                   PointsQuiet DEF Moved, SameRow, PointsOK, Aimless, Quit
    <3>. QED  BY <1>18, <1>0, <3>1, <3>2, OfQueue
  <2>. QED  BY <2>4, <2>6, <2>7 DEF CoverInv
<1>19. ASSUME NEW c \in Clients, Wipe(c)  PROVE CoverInv'
  <2>1. /\ UNCHANGED <<shelf, thumb>> /\ ghost.tangled \subseteq ghost'.tangled
    BY <1>19 DEF Wipe, rows
  <2>2. Others(c)
    BY <1>19, <1>0, OfWipe
  <2>3. \A r \in Series : There(r) => There(r)'
    <3>1. ASSUME NEW s \in Series, There(s)  PROVE There(s)'
      <4>1. CASE s = job[c].of
        BY <1>19, <4>1, OfWipe DEF There, Gap, Moved
      <4>2. CASE s # job[c].of
        BY <1>19, <1>0, <2>2, <3>1, <4>2, OfWipe, ThereStays
      <4>. QED  BY <4>1, <4>2
    <3>. QED  BY <3>1
  <2>4. RowsCovered'
    BY <1>0, <2>1, <2>3 DEF RowsCovered
  <2>5. \A q \in Procs :
          \/ job[q].of \in Series
          \/ PointsOK(q)'
          \/ job[q].what \in Aimless
    BY <1>0 DEF JobOK
  <2>6. ASSUME NEW q \in Procs \ {c}  PROVE PointsOK(q)'
    <3>1. CASE job[q].what \in Aimless
      <4>1. job'[q].what \in Aimless
        BY <2>2, <3>1 DEF Others, Told
      <4>. QED  BY <4>1 DEF PointsOK, Aimless
    <3>2. CASE job[q].of \in Series
      BY <1>0, <2>1, <2>2, <2>3, <3>2, PointsQuiet DEF Others, Told
    <3>. QED  BY <2>5, <3>1, <3>2
  <2>7. PointsOK(c)'
    <3>1. job[c].of \in Series \/ job[c].what \in Aimless
      BY <1>0 DEF JobOK
    <3>. QED  BY <1>19, <1>0, <2>1, <2>3, <3>1, OfWipe, PointsQuiet DEF Moved,
                 SameRow, PointsOK, Aimless
  <2>. QED  BY <2>4, <2>6, <2>7 DEF CoverInv
<1>20. ASSUME NEW c \in Clients, Drop(c)  PROVE CoverInv'
  <2> DEFINE s == job[c].of
  <2>1. /\ s \in Series /\ c \in Procs /\ Others(c) /\ Quit(c)
        /\ \A q \in Procs \ {c} : job[q].of = s => job'[q].stale
    BY <1>20, <1>0, OfDrop
  <2>2. /\ disk' = disk /\ shelf' = shelf \ {s} /\ ghost'.tangled = ghost.tangled
        /\ thumb' = [thumb EXCEPT ![s] = "remote"]
    BY <1>20, <1>0 DEF Drop, GhostType
  <2>3. \A r \in Series \ {s} : There(r) => There(r)'
    BY <1>0, <2>1, <2>2, ThereStays
  <2>4. RowsCovered'
    BY <1>0, <2>2, <2>3 DEF RowsCovered
  <2>5. ASSUME NEW q \in Procs \ {c}  PROVE PointsOK(q)'
    <3>1. CASE job[q].what \in Aimless
      <4>1. job'[q].what \in Aimless
        BY <2>1, <3>1 DEF Others, Told
      <4>. QED  BY <4>1 DEF PointsOK, Aimless
    <3>2. CASE job[q].what \notin Aimless
      <4>1. job[q].of \in Series /\ Told(q) /\ PointsOK(q)
        BY <1>0, <2>1, <3>2 DEF JobOK, Others
      <4>. QED  BY <2>1, <2>2, <2>3, <4>1, PointsQuiet DEF Told
    <3>. QED  BY <3>1, <3>2
  <2>6. PointsOK(c)'
    BY <2>1, PointsIdle, IdleFields DEF Quit
  <2>. QED  BY <2>4, <2>5, <2>6 DEF CoverInv
<1>21. ASSUME NEW c \in Clients, NEW s \in Series, Add(c, s)  PROVE CoverInv'
  <2>1. /\ UNCHANGED <<shelf, thumb>> /\ ghost.tangled \subseteq ghost'.tangled
    BY <1>21 DEF Add, rows
  <2>2. Others(c)
    BY <1>21, <1>0, OfAdd
  <2>3. \A r \in Series : There(r) => There(r)'
    <3>1. disk' = disk
      BY <1>21 DEF Add
    <3>2. job[c].at \notin {"put", "drop"}
      BY <1>21, <1>0, OfAdd, IdleFields DEF Began
    <3>. QED  BY <1>0, <2>2, <3>1, <3>2, ThereStays
  <2>4. RowsCovered'
    BY <1>0, <2>1, <2>3 DEF RowsCovered
  <2>5. \A q \in Procs :
          \/ job[q].of \in Series
          \/ PointsOK(q)'
          \/ job[q].what \in Aimless
    BY <1>0 DEF JobOK
  <2>6. ASSUME NEW q \in Procs \ {c}  PROVE PointsOK(q)'
    <3>1. CASE job[q].what \in Aimless
      <4>1. job'[q].what \in Aimless
        BY <2>2, <3>1 DEF Others, Told
      <4>. QED  BY <4>1 DEF PointsOK, Aimless
    <3>2. CASE job[q].of \in Series
      BY <1>0, <2>1, <2>2, <2>3, <3>2, PointsQuiet DEF Others, Told
    <3>. QED  BY <2>5, <3>1, <3>2
  <2>7. PointsOK(c)'
    BY <1>21, <1>0, OfAdd, PointsIdle DEF Began
  <2>. QED  BY <2>4, <2>6, <2>7 DEF CoverInv
<1>22. ASSUME NEW c \in Clients, NEW s \in Series, AddByHand(c, s)  PROVE CoverInv'
  <2>1. /\ UNCHANGED <<shelf, thumb>> /\ ghost.tangled \subseteq ghost'.tangled
    BY <1>22 DEF AddByHand, rows
  <2>2. Others(c)
    BY <1>22, <1>0, OfAddByHand
  <2>3. \A r \in Series : There(r) => There(r)'
    <3>1. disk' = disk
      BY <1>22 DEF AddByHand
    <3>2. job[c].at \notin {"put", "drop"}
      BY <1>22, <1>0, OfAddByHand, IdleFields DEF Began
    <3>. QED  BY <1>0, <2>2, <3>1, <3>2, ThereStays
  <2>4. RowsCovered'
    BY <1>0, <2>1, <2>3 DEF RowsCovered
  <2>5. \A q \in Procs :
          \/ job[q].of \in Series
          \/ PointsOK(q)'
          \/ job[q].what \in Aimless
    BY <1>0 DEF JobOK
  <2>6. ASSUME NEW q \in Procs \ {c}  PROVE PointsOK(q)'
    <3>1. CASE job[q].what \in Aimless
      <4>1. job'[q].what \in Aimless
        BY <2>2, <3>1 DEF Others, Told
      <4>. QED  BY <4>1 DEF PointsOK, Aimless
    <3>2. CASE job[q].of \in Series
      BY <1>0, <2>1, <2>2, <2>3, <3>2, PointsQuiet DEF Others, Told
    <3>. QED  BY <2>5, <3>1, <3>2
  <2>7. PointsOK(c)'
    BY <1>22, <1>0, OfAddByHand, PointsIdle DEF Began
  <2>. QED  BY <2>4, <2>6, <2>7 DEF CoverInv
<1>23. ASSUME NEW c \in Clients, NEW s \in Series, Import(c, s)  PROVE CoverInv'
  <2>1. /\ UNCHANGED <<shelf, thumb>> /\ ghost.tangled \subseteq ghost'.tangled
    BY <1>23 DEF Import, rows
  <2>2. Others(c)
    BY <1>23, <1>0, OfImport
  <2>3. \A r \in Series : There(r) => There(r)'
    <3>1. disk' = disk
      BY <1>23 DEF Import
    <3>2. job[c].at \notin {"put", "drop"}
      BY <1>23, <1>0, OfImport, IdleFields DEF Began
    <3>. QED  BY <1>0, <2>2, <3>1, <3>2, ThereStays
  <2>4. RowsCovered'
    BY <1>0, <2>1, <2>3 DEF RowsCovered
  <2>5. \A q \in Procs :
          \/ job[q].of \in Series
          \/ PointsOK(q)'
          \/ job[q].what \in Aimless
    BY <1>0 DEF JobOK
  <2>6. ASSUME NEW q \in Procs \ {c}  PROVE PointsOK(q)'
    <3>1. CASE job[q].what \in Aimless
      <4>1. job'[q].what \in Aimless
        BY <2>2, <3>1 DEF Others, Told
      <4>. QED  BY <4>1 DEF PointsOK, Aimless
    <3>2. CASE job[q].of \in Series
      BY <1>0, <2>1, <2>2, <2>3, <3>2, PointsQuiet DEF Others, Told
    <3>. QED  BY <2>5, <3>1, <3>2
  <2>7. PointsOK(c)'
    BY <1>23, <1>0, OfImport, PointsIdle DEF Began
  <2>. QED  BY <2>4, <2>6, <2>7 DEF CoverInv
<1>24. ASSUME NEW c \in Clients, NEW s \in Series, Change(c, s)  PROVE CoverInv'
  <2>1. /\ UNCHANGED <<shelf, thumb>> /\ ghost.tangled \subseteq ghost'.tangled
    BY <1>24 DEF Change, rows
  <2>2. Others(c)
    BY <1>24, <1>0, OfChange
  <2>3. \A r \in Series : There(r) => There(r)'
    <3>1. disk' = disk
      BY <1>24 DEF Change
    <3>2. job[c].at \notin {"put", "drop"}
      BY <1>24, <1>0, OfChange, IdleFields
    <3>. QED  BY <1>0, <2>2, <3>1, <3>2, ThereStays
  <2>4. RowsCovered'
    BY <1>0, <2>1, <2>3 DEF RowsCovered
  <2>5. \A q \in Procs :
          \/ job[q].of \in Series
          \/ PointsOK(q)'
          \/ job[q].what \in Aimless
    BY <1>0 DEF JobOK
  <2>6. ASSUME NEW q \in Procs \ {c}  PROVE PointsOK(q)'
    <3>1. CASE job[q].what \in Aimless
      <4>1. job'[q].what \in Aimless
        BY <2>2, <3>1 DEF Others, Told
      <4>. QED  BY <4>1 DEF PointsOK, Aimless
    <3>2. CASE job[q].of \in Series
      BY <1>0, <2>1, <2>2, <2>3, <3>2, PointsQuiet DEF Others, Told
    <3>. QED  BY <2>5, <3>1, <3>2
  <2>7. PointsOK(c)'
    <3>1. /\ s \in shelf /\ job'[c].of = s /\ job'[c].thumb = thumb[s]
          /\ job'[c].what = "upload" => job'[c].at = "clear"
      BY <1>24, OfChange
    <3>2. job'[c].thumb = "own" /\ s \notin ghost'.tangled => There(job[c].of)'
      BY <1>0, <2>1, <2>3, <3>1 DEF RowsCovered
    <3>3. job'[c].what \notin {"add", "import", "manual"}
      BY <1>24, OfChange
    <3>. QED  BY <3>1, <3>2, <3>3 DEF PointsOK
  <2>. QED  BY <2>4, <2>6, <2>7 DEF CoverInv
<1>25. ASSUME NEW c \in Clients, NEW s \in Series, Delete(c, s)  PROVE CoverInv'
  <2>1. /\ UNCHANGED <<shelf, thumb>> /\ ghost.tangled \subseteq ghost'.tangled
    BY <1>25 DEF Delete, rows
  <2>2. Others(c)
    BY <1>25, <1>0, OfDelete
  <2>3. \A r \in Series : There(r) => There(r)'
    <3>1. disk' = disk
      BY <1>25 DEF Delete
    <3>2. job[c].at \notin {"put", "drop"}
      BY <1>25, <1>0, OfDelete, IdleFields DEF Began
    <3>. QED  BY <1>0, <2>2, <3>1, <3>2, ThereStays
  <2>4. RowsCovered'
    BY <1>0, <2>1, <2>3 DEF RowsCovered
  <2>5. \A q \in Procs :
          \/ job[q].of \in Series
          \/ PointsOK(q)'
          \/ job[q].what \in Aimless
    BY <1>0 DEF JobOK
  <2>6. ASSUME NEW q \in Procs \ {c}  PROVE PointsOK(q)'
    <3>1. CASE job[q].what \in Aimless
      <4>1. job'[q].what \in Aimless
        BY <2>2, <3>1 DEF Others, Told
      <4>. QED  BY <4>1 DEF PointsOK, Aimless
    <3>2. CASE job[q].of \in Series
      BY <1>0, <2>1, <2>2, <2>3, <3>2, PointsQuiet DEF Others, Told
    <3>. QED  BY <2>5, <3>1, <3>2
  <2>7. PointsOK(c)'
    BY <1>25, <1>0, OfDelete, PointsIdle DEF Began
  <2>. QED  BY <2>4, <2>6, <2>7 DEF CoverInv
<1>26. ASSUME NEW w \in Workers, Comic(w)  PROVE CoverInv'
  <2>1. /\ UNCHANGED <<shelf, thumb>> /\ ghost.tangled \subseteq ghost'.tangled
    BY <1>26 DEF Comic, rows
  <2>2. Others(w)
    BY <1>26, <1>0, OfComic
  <2>3. \A r \in Series : There(r) => There(r)'
    BY <1>26, <1>0, <2>2, OfComic, ThereStays
  <2>4. RowsCovered'
    BY <1>0, <2>1, <2>3 DEF RowsCovered
  <2>5. \A q \in Procs :
          \/ job[q].of \in Series
          \/ PointsOK(q)'
          \/ job[q].what \in Aimless
    BY <1>0 DEF JobOK
  <2>6. ASSUME NEW q \in Procs \ {w}  PROVE PointsOK(q)'
    <3>1. CASE job[q].what \in Aimless
      <4>1. job'[q].what \in Aimless
        BY <2>2, <3>1 DEF Others, Told
      <4>. QED  BY <4>1 DEF PointsOK, Aimless
    <3>2. CASE job[q].of \in Series
      BY <1>0, <2>1, <2>2, <2>3, <3>2, PointsQuiet DEF Others, Told
    <3>. QED  BY <2>5, <3>1, <3>2
  <2>7. PointsOK(w)'
    <3>1. job[w].of \in Series \/ job[w].what \in Aimless
      BY <1>0 DEF JobOK
    <3>. QED  BY <1>26, <1>0, <2>1, <2>3, <3>1, OfComic, PointsQuiet DEF Moved,
                 SameRow, PointsOK, Aimless
  <2>. QED  BY <2>4, <2>6, <2>7 DEF CoverInv
<1>27. ASSUME NEW w \in Workers, NEW s \in Series, Refresh(w, s)  PROVE CoverInv'
  <2>1. /\ UNCHANGED <<shelf, thumb>> /\ ghost.tangled \subseteq ghost'.tangled
    BY <1>27 DEF Refresh, rows
  <2>2. Others(w)
    BY <1>27, <1>0, OfRefresh
  <2>3. \A r \in Series : There(r) => There(r)'
    <3>1. disk' = disk
      BY <1>27 DEF Refresh
    <3>2. job[w].at \notin {"put", "drop"}
      BY <1>27, <1>0, OfRefresh, IdleFields
    <3>. QED  BY <1>0, <2>2, <3>1, <3>2, ThereStays
  <2>4. RowsCovered'
    BY <1>0, <2>1, <2>3 DEF RowsCovered
  <2>5. \A q \in Procs :
          \/ job[q].of \in Series
          \/ PointsOK(q)'
          \/ job[q].what \in Aimless
    BY <1>0 DEF JobOK
  <2>6. ASSUME NEW q \in Procs \ {w}  PROVE PointsOK(q)'
    <3>1. CASE job[q].what \in Aimless
      <4>1. job'[q].what \in Aimless
        BY <2>2, <3>1 DEF Others, Told
      <4>. QED  BY <4>1 DEF PointsOK, Aimless
    <3>2. CASE job[q].of \in Series
      BY <1>0, <2>1, <2>2, <2>3, <3>2, PointsQuiet DEF Others, Told
    <3>. QED  BY <2>5, <3>1, <3>2
  <2>7. PointsOK(w)'
    <3>1. CASE Quit(w)
      BY <1>0, <3>1, PointsIdle, IdleFields DEF Quit
    <3>2. CASE ~Quit(w)
      <4>1. s \in shelf /\ job'[w].of = s /\ job'[w].thumb = thumb[s] /\ job'[w].what = "refresh"
        BY <1>27, <3>2, OfRefresh
      <4>2. job'[w].thumb = "own" /\ s \notin ghost'.tangled => There(job[w].of)'
        BY <1>0, <2>1, <2>3, <4>1 DEF RowsCovered
      <4>. QED  BY <4>1, <4>2 DEF PointsOK
    <3>. QED  BY <3>1, <3>2
  <2>. QED  BY <2>4, <2>6, <2>7 DEF CoverInv
<1>28. ASSUME NEW s \in Series, AskRefresh(s)  PROVE CoverInv'
  <2>1. UNCHANGED <<shelf, thumb, disk, job, ghost>>
    BY <1>28 DEF AskRefresh, rows
  <2>. QED  BY <1>0, <2>1 DEF CoverInv, RowsCovered, PointsOK, There, Gap
<1>29. ASSUME NEW i \in Listed, Hide(i)  PROVE CoverInv'
  <2>1. UNCHANGED <<shelf, thumb, disk, ghost>>
    BY <1>29 DEF Hide, rows
  <2>2. \A q \in Procs : Told(q)
    BY <1>29, OfHide
  <2>3. \A s : There(s) <=> There(s)'
    BY <1>0, <2>1, <2>2 DEF There, Gap, Told
  <2>4. RowsCovered'
    BY <1>0, <2>1, <2>3 DEF RowsCovered
  <2>5. \A q \in Procs : PointsOK(q)'
    BY <1>0, <2>1, <2>2, <2>3, PointsQuiet DEF Told
  <2>. QED  BY <2>4, <2>5 DEF CoverInv
<1>30. ASSUME Crash  PROVE CoverInv'
  <2> DEFINE Of(what) == {job[p].of : p \in {q \in Procs : job[q].what \in what}}
             T == ghost.tangled \cup (Of({"upload", "delete"}) \ {NoSeries})
  <2>1. UNCHANGED <<shelf, thumb, disk>> /\ ghost'.tangled = T
    BY <1>30, <1>0 DEF Crash, rows, GhostType
  <2>2. RowsCovered'
    <3>1. ASSUME NEW s \in Series, Gap(s)  PROVE s \in T
      BY <1>0, <3>1, CatalogAssumption DEF Gap
    <3>. QED  BY <1>0, <2>1, <3>1 DEF RowsCovered, There
  <2>3. \A q \in Procs : PointsOK(q)'
    BY <1>30, PointsIdle, IdleFields DEF Crash
  <2>. QED  BY <2>2, <2>3 DEF CoverInv
<1>31. ASSUME UNCHANGED vars  PROVE CoverInv'
  <2>1. UNCHANGED <<shelf, thumb, disk, job, ghost>>
    BY <1>31 DEF vars, rows
  <2>. QED  BY <1>0, <2>1 DEF CoverInv, RowsCovered, PointsOK, There, Gap
<1>32. ASSUME NEW p \in Procs, p \in Workers, ComicFails(p)  PROVE CoverInv'
  <2>1. /\ UNCHANGED <<shelf, thumb>> /\ ghost.tangled \subseteq ghost'.tangled
    BY <1>32, <1>0 DEF ComicFails, Fails, rows, GhostType
  <2>2. Others(p)
    BY <1>32, <1>0, OfFails DEF ComicFails
  <2>3. \A r \in Series : There(r) => There(r)'
    <3>1. \A r \in Series : disk[r] = "cover" => disk'[r] = "cover"
      BY <1>32 DEF ComicFails, BaseInv, DomInv
    <3>2. job[p].at = "comic"
      BY <1>32 DEF ComicFails, Doing
    <3>. QED  BY <1>0, <2>2, <3>1, <3>2, ThereStays
  <2>4. RowsCovered'
    BY <1>0, <2>1, <2>3 DEF RowsCovered
  <2>5. \A q \in Procs :
          \/ job[q].of \in Series
          \/ PointsOK(q)'
          \/ job[q].what \in Aimless
    BY <1>0 DEF JobOK
  <2>6. ASSUME NEW q \in Procs \ {p}  PROVE PointsOK(q)'
    <3>1. CASE job[q].what \in Aimless
      <4>1. job'[q].what \in Aimless
        BY <2>2, <3>1 DEF Others, Told
      <4>. QED  BY <4>1 DEF PointsOK, Aimless
    <3>2. CASE job[q].of \in Series
      BY <1>0, <2>1, <2>2, <2>3, <3>2, PointsQuiet DEF Others, Told
    <3>. QED  BY <2>5, <3>1, <3>2
  <2>7. PointsOK(p)'
    BY <1>32, <1>0, OfFails, PointsIdle, IdleFields DEF Quit, ComicFails
  <2>. QED  BY <2>4, <2>6, <2>7 DEF CoverInv
<1>. QED
  BY <1>1, <1>2, <1>3, <1>4, <1>5, <1>6, <1>7, <1>8, <1>9, <1>10, <1>11,
     <1>12, <1>13, <1>14, <1>15, <1>16, <1>17, <1>18, <1>19, <1>20, <1>21,
     <1>22, <1>23, <1>24, <1>25, <1>26, <1>27, <1>28, <1>29, <1>30, <1>31, <1>32
  DEF Next, Procs

(***************************************************************************)
(* SuggestionsKnowAll: a series is in the suggestions, or excused, or a    *)
(* refresh that reads it runs, waits or is about to be asked for; and no   *)
(* refresh that will not see it may still store what it read.              *)
(***************************************************************************)
Has(p) == job[p].what = "suggest" /\ job[p].at \in {"ask", "details", "recall", "store"}

Awaits(p, s) ==
  \/ /\ p \in Clients /\ job[p].what = "add" /\ job[p].of = s
     /\ job[p].at \in {"queue", "look", "request"}
  \/ /\ p \in Workers /\ job[p].what = "suggest"
     /\ job[p].at = "read" \/ (Has(p) /\ s \in job[p].seen)

Pending(s) == asked > 0 \/ \E p \in Procs : Awaits(p, s)

SeenOK(p, s) == Has(p) /\ ~job[p].stale => s \in job[p].seen

Known(s)   == s \in ghost.known /\ \A p \in Procs : SeenOK(p, s)
Covered(s) == s \in ghost.excused \/ Pending(s) \/ Known(s)
SuggestInv == \A s \in shelf \cap Listed : Covered(s)

LEMMA SuggestHolds == BaseInv /\ SuggestInv => SuggestionsKnowAll
<1> SUFFICES ASSUME BaseInv, SuggestInv, asked = 0, \A p \in Procs : job[p] = Idle,
                    NEW s \in shelf \cap Listed
             PROVE  s \in ghost.known \cup ghost.excused
  BY DEF SuggestionsKnowAll
<1>1. ~Pending(s)
  BY IdleFields DEF Pending, Awaits
<1>. QED  BY <1>1 DEF SuggestInv, Covered, Known

(* Others await what they did, and what they have read is no newer.        *)
LEMMA OthersAwait ==
  ASSUME NEW p \in Procs, Others(p), NEW s, NEW q \in Procs \ {p}
  PROVE  (Awaits(q, s) => Awaits(q, s)') /\ (SeenOK(q, s) => SeenOK(q, s)')
  BY DEF Others, Told, Awaits, SeenOK, Has

LEMMA SuggestQuiet ==
  ASSUME NEW p \in Procs, Others(p), NEW s, Covered(s),
         s \in ghost.excused => s \in ghost'.excused,
         s \in ghost.known => s \in ghost'.known,
         asked > 0 => Pending(s)',
         Awaits(p, s) => Pending(s)' \/ s \in ghost'.excused,
         SeenOK(p, s)'
  PROVE  Covered(s)'
<1>1. CASE s \in ghost.excused
  BY <1>1 DEF Covered
<1>2. CASE Pending(s)
  <2>1. CASE asked > 0
    BY <2>1 DEF Covered
  <2>2. ASSUME NEW q \in Procs, Awaits(q, s)  PROVE Covered(s)'
    <3>1. CASE q = p
      BY <2>2, <3>1 DEF Covered
    <3>2. CASE q # p
      <4>1. Awaits(q, s)'
        BY <2>2, <3>2, OthersAwait
      <4>. QED  BY <4>1 DEF Covered, Pending
    <3>. QED  BY <3>1, <3>2
  <2>. QED  BY <1>2, <2>1, <2>2 DEF Pending
<1>3. CASE Known(s)
  <2>1. ASSUME NEW q \in Procs  PROVE SeenOK(q, s)'
    <3>1. CASE q = p
      BY <3>1
    <3>2. CASE q # p
      BY <1>3, <3>2, OthersAwait DEF Known
    <3>. QED  BY <3>1, <3>2
  <2>. QED  BY <1>3, <2>1 DEF Covered, Known
<1>. QED  BY <1>1, <1>2, <1>3 DEF Covered

(* A job that fails, and is the one that was waited for, is tried again or *)
(* gives up for every series there is.                                     *)
LEMMA FailsAwaits ==
  ASSUME BaseInv, NEW p \in Procs, Fails(p), NEW s \in shelf, job[p].what = "suggest", p \in Workers
  PROVE  asked' > 0 \/ s \in ghost'.excused
<1>1. asked \in Nat /\ ghost \in GhostType
  BY DEF BaseInv, DomInv
<1>2. asked' = asked + 1 \/ ghost' = [ghost EXCEPT !.excused = ghost.excused \cup shelf]
  BY DEF Fails
<1>. QED  BY <1>1, <1>2 DEF GhostType

LEMMA FailsKeeps ==
  ASSUME BaseInv, NEW p \in Procs, Fails(p), NEW s
  PROVE  /\ s \in ghost.excused => s \in ghost'.excused
         /\ ghost'.known = ghost.known
         /\ asked > 0 => asked' > 0
<1>1. asked \in Nat /\ ghost \in GhostType
  BY DEF BaseInv, DomInv
<1>2. /\ asked' = asked + 1 \/ asked' = asked
      /\ ghost' = ghost \/ ghost' = [ghost EXCEPT !.excused = ghost.excused \cup shelf]
  BY DEF Fails, tasks
<1>. QED  BY <1>1, <1>2 DEF GhostType

LEMMA SuggestInit == Init => SuggestInv
<1> SUFFICES ASSUME Init, NEW s \in shelf \cap Listed  PROVE Covered(s)
  BY DEF SuggestInv
<1>. QED  BY IdleFields DEF Init, Covered, Known, SeenOK, Has

LEMMA SuggestNext == BaseInv /\ SuggestInv /\ [Next]_vars => SuggestInv'
<1> SUFFICES ASSUME BaseInv, SuggestInv, [Next]_vars  PROVE SuggestInv'
  OBVIOUS
<1>0. /\ \A s \in shelf \cap Listed : Covered(s)
      /\ job \in [Procs -> JobType] /\ asked \in Nat /\ ghost \in GhostType
      /\ shelf \subseteq Series
      /\ Clients \subseteq Procs /\ Workers \subseteq Procs
      /\ Workers \cap Clients = {}
      /\ \A p \in Procs : JobOK(p)
  BY CatalogAssumption DEF SuggestInv, BaseInv, DomInv, JobInv, Procs
<1>1. ASSUME NEW p \in Procs, Refused(p)  PROVE SuggestInv'
  <2>1. UNCHANGED <<shelf, asked, ghost>> /\ Others(p) /\ Moved(p) /\ job'[p].at = job[p].at
    BY <1>1, OfRefused DEF Refused, rows, tasks
  <2> SUFFICES ASSUME NEW s \in shelf' \cap Listed  PROVE Covered(s)'
    BY DEF SuggestInv
  <2>2. \A q \in Procs : (Awaits(q, s) => Awaits(q, s)') /\ (SeenOK(q, s) => SeenOK(q, s)')
    <3>1. (Awaits(p, s) => Awaits(p, s)') /\ (SeenOK(p, s) => SeenOK(p, s)')
      BY <2>1 DEF Moved, Awaits, SeenOK, Has
    <3>. QED  BY <2>1, <3>1, OthersAwait
  <2>3. Covered(s)
    BY <1>0, <2>1
  <2>. QED  BY <2>1, <2>2, <2>3 DEF Covered, Pending, Known
<1>2. ASSUME NEW p \in Procs, Unanswered(p)  PROVE SuggestInv'
  <2> SUFFICES ASSUME NEW s \in shelf' \cap Listed  PROVE Covered(s)'
    BY DEF SuggestInv
  <2>1. /\ shelf' = shelf
        /\ s \in ghost.excused => s \in ghost'.excused
        /\ s \in ghost.known => s \in ghost'.known
    BY <1>2, <1>0, FailsKeeps DEF Unanswered, rows
  <2>2. Others(p) /\ Covered(s) /\ s \in shelf
    BY <1>2, <1>0, <2>1, OfFails DEF Unanswered
  <2>3. asked > 0 => Pending(s)'
    BY <1>2, FailsKeeps DEF Unanswered, Pending
  <2>4. Awaits(p, s) => Pending(s)' \/ s \in ghost'.excused
    <3>1. ASSUME Awaits(p, s)  PROVE job[p].what = "suggest" /\ p \in Workers
      BY <1>2, <3>1 DEF Awaits, Unanswered
    <3>. QED  BY <1>2, <1>0, <2>2, <3>1, FailsAwaits DEF Pending, Unanswered
  <2>5. SeenOK(p, s)'
    BY <1>2, OfFails, IdleFields DEF Unanswered, SeenOK, Has, Quit
  <2>. QED  BY <1>2, <1>0, <2>1, <2>2, <2>3, <2>4, <2>5, SuggestQuiet
<1>3. ASSUME NEW p \in Procs, Answered(p)  PROVE SuggestInv'
  <2> SUFFICES ASSUME NEW s \in shelf' \cap Listed  PROVE Covered(s)'
    BY DEF SuggestInv
  <2>1. /\ shelf' = shelf
        /\ s \in ghost.excused => s \in ghost'.excused
        /\ s \in ghost.known => s \in ghost'.known
    BY <1>3 DEF Answered, rows
  <2>2. Others(p) /\ Covered(s) /\ s \in shelf
    BY <1>3, <1>0, <2>1, OfAnswered
  <2>3. asked > 0 => Pending(s)'
    BY <1>3 DEF Answered, tasks, Pending
  <2>4. Awaits(p, s) => Pending(s)' \/ s \in ghost'.excused
    BY <1>3, <1>0, OfAnswered, IdleFields DEF Awaits
  <2>5. SeenOK(p, s)'
    BY <1>3, <1>0, OfAnswered, IdleFields DEF SeenOK, Has, Moved, Quit
  <2>. QED  BY <1>3, <1>0, <2>1, <2>2, <2>3, <2>4, <2>5, SuggestQuiet
<1>4. ASSUME NEW p \in Procs, Cover(p)  PROVE SuggestInv'
  <2> SUFFICES ASSUME NEW s \in shelf' \cap Listed  PROVE Covered(s)'
    BY DEF SuggestInv
  <2>1. /\ shelf' = shelf
        /\ s \in ghost.excused => s \in ghost'.excused
        /\ s \in ghost.known => s \in ghost'.known
    BY <1>4 DEF Cover, rows
  <2>2. Others(p) /\ Covered(s) /\ s \in shelf
    BY <1>4, <1>0, <2>1, OfCover
  <2>3. asked > 0 => Pending(s)'
    BY <1>4 DEF Cover, tasks, Pending
  <2>4. Awaits(p, s) => Pending(s)' \/ s \in ghost'.excused
    BY <1>4, <1>0, OfCover, IdleFields DEF Awaits
  <2>5. SeenOK(p, s)'
    BY <1>4, <1>0, OfCover, IdleFields DEF SeenOK, Has, Moved, Quit
  <2>. QED  BY <1>4, <1>0, <2>1, <2>2, <2>3, <2>4, <2>5, SuggestQuiet
<1>5. ASSUME NEW p \in Procs, Write(p)  PROVE SuggestInv'
  <2> SUFFICES ASSUME NEW s \in shelf' \cap Listed  PROVE Covered(s)'
    BY DEF SuggestInv
  <2>1. /\ shelf' = shelf
        /\ s \in ghost.excused => s \in ghost'.excused
        /\ s \in ghost.known => s \in ghost'.known
    <3>1. shelf' = shelf
      BY <1>5 DEF Write
    <3>2. CASE job[p].of \in shelf
      <4> DEFINE u == job[p].title
                 W == IF job[p].what = "titles"
                      THEN [ghost.wish[job[p].of] EXCEPT ![u] = Wish(job[p].titles[u])]
                      ELSE ghost.wish[job[p].of]
                 T == IF job[p].stale THEN ghost.tangled \cup {job[p].of} ELSE ghost.tangled
      <4>1. ghost' = [ghost EXCEPT !.wish[job[p].of] = W, !.tangled = T]
        BY <1>5, <3>2 DEF Write
      <4>. HIDE DEF W, T
      <4>. QED  BY <1>0, <3>1, <4>1 DEF GhostType
    <3>3. CASE ghost' = ghost
      BY <3>1, <3>3
    <3>4. CASE Fails(p)
      BY <3>1, <3>4, FailsKeeps
    <3>. QED  BY <1>5, <3>2, <3>3, <3>4 DEF Write
  <2>2. Others(p) /\ Covered(s) /\ s \in shelf
    BY <1>5, <1>0, <2>1, OfWrite
  <2>3. asked > 0 => Pending(s)'
    <3>1. asked' = asked \/ Fails(p)
      BY <1>5 DEF Write, tasks
    <3>. QED  BY <3>1, FailsKeeps DEF Pending
  <2>4. Awaits(p, s) => Pending(s)' \/ s \in ghost'.excused
    BY <1>5, <1>0, OfWrite, IdleFields DEF Awaits
  <2>5. SeenOK(p, s)'
    BY <1>5, OfWrite, IdleFields DEF SeenOK, Has, Quit, Moved
  <2>. QED  BY <1>5, <1>0, <2>1, <2>2, <2>3, <2>4, <2>5, SuggestQuiet
<1>6. ASSUME NEW p \in Procs, Look(p)  PROVE SuggestInv'
  <2> SUFFICES ASSUME NEW s \in shelf' \cap Listed  PROVE Covered(s)'
    BY DEF SuggestInv
  <2>1. /\ shelf' = shelf
        /\ s \in ghost.excused => s \in ghost'.excused
        /\ s \in ghost.known => s \in ghost'.known
    <3>1. ghost' = ghost \/ ghost' = [ghost EXCEPT !.excused = ghost.excused \cup {job[p].of}]
      BY <1>6 DEF Look
    <3>2. shelf' = shelf
      BY <1>6 DEF Look, rows
    <3>. QED  BY <1>0, <3>1, <3>2 DEF GhostType
  <2>2. Others(p) /\ Covered(s) /\ s \in shelf
    BY <1>6, <1>0, <2>1, OfLook
  <2>3. asked > 0 => Pending(s)'
    BY <1>6 DEF Look, tasks, Pending
  <2>4. Awaits(p, s) => Pending(s)' \/ s \in ghost'.excused
    <3> SUFFICES ASSUME Awaits(p, s)  PROVE Pending(s)' \/ s \in ghost'.excused
      OBVIOUS
    <3>1. /\ p \in Clients /\ job[p].what = "add" /\ job[p].of = s /\ asked' = asked
          /\ Others(p)
      BY <1>6, OfLook DEF Awaits, Look, tasks
    <3>2. CASE asked > 0
      BY <3>1, <3>2 DEF Pending
    <3>3. CASE ~ToCome
      <4>1. Awaits(p, s)'
        BY <1>6, <3>1, <3>3, OfLook DEF Awaits, Moved
      <4>. QED  BY <4>1 DEF Pending
    <3>4. CASE \E q \in Suggesters : job[q].at = "read"
      <4>1. PICK q \in Suggesters : job[q].at = "read"
        BY <3>4
      <4>2. q \in Procs \ {p} /\ Awaits(q, s)
        BY <1>0, <3>1, <4>1 DEF Suggesters, Awaits
      <4>3. Awaits(q, s)'
        BY <3>1, <4>2, OthersAwait
      <4>. QED  BY <4>2, <4>3 DEF Pending
    <3>5. CASE asked = 0 /\ Suggesters # {} /\ \A q \in Suggesters : job[q].at # "read"
      <4>1. ghost' = [ghost EXCEPT !.excused = ghost.excused \cup {s}]
        BY <1>6, <3>1, <3>5 DEF Look
      <4>. QED  BY <1>0, <4>1 DEF GhostType
    <3>. QED  BY <1>0, <3>2, <3>3, <3>4, <3>5 DEF ToCome
  <2>5. SeenOK(p, s)'
    <3>1. job'[p].what # "suggest"
      <4>1. CASE ToCome
        BY <1>6, <4>1, OfLook, IdleFields DEF Quit
      <4>2. CASE ~ToCome
        BY <1>6, <4>2, OfLook DEF Moved
      <4>. QED  BY <4>1, <4>2
    <3>. QED  BY <3>1 DEF SeenOK, Has
  <2>. QED  BY <1>6, <1>0, <2>1, <2>2, <2>3, <2>4, <2>5, SuggestQuiet
<1>7. ASSUME NEW p \in Procs, Request(p)  PROVE SuggestInv'
  <2> SUFFICES ASSUME NEW s \in shelf' \cap Listed  PROVE Covered(s)'
    BY DEF SuggestInv
  <2>1. /\ shelf' = shelf
        /\ s \in ghost.excused => s \in ghost'.excused
        /\ s \in ghost.known => s \in ghost'.known
    BY <1>7 DEF Request, rows
  <2>2. Others(p) /\ Covered(s) /\ s \in shelf
    BY <1>7, <1>0, <2>1, OfRequest
  <2>3. asked > 0 => Pending(s)'
    BY <1>7, <1>0 DEF Request, Pending
  <2>4. Awaits(p, s) => Pending(s)' \/ s \in ghost'.excused
    <3>1. asked' > 0
      BY <1>7, <1>0 DEF Request
    <3>. QED  BY <3>1 DEF Pending
  <2>5. SeenOK(p, s)'
    BY <1>7, <1>0, OfRequest, IdleFields DEF SeenOK, Has, Moved, Quit
  <2>. QED  BY <1>7, <1>0, <2>1, <2>2, <2>3, <2>4, <2>5, SuggestQuiet
<1>8. ASSUME NEW p \in Procs, Suggest(p)  PROVE SuggestInv'
  <2> SUFFICES ASSUME NEW s \in shelf' \cap Listed  PROVE Covered(s)'
    BY DEF SuggestInv
  <2>1. UNCHANGED <<shelf, ghost>> /\ Others(p)
    BY <1>8, OfSuggest DEF Suggest, rows
  <2>2. Covered(s)
    BY <1>0, <2>1
  <2>3. asked > 0 => Pending(s)'
    <3>1. CASE p \in Workers
      BY <1>8, <1>0, <3>1, OfSuggest DEF Pending, Awaits
    <3>2. CASE p \notin Workers
      BY <1>8, <3>2 DEF Suggest, Pending
    <3>. QED  BY <3>1, <3>2
  <2>4. ~Awaits(p, s)
    BY <1>8, OfSuggest DEF Awaits, Began, Has
  <2>5. SeenOK(p, s)'
    BY <1>8, OfSuggest DEF SeenOK, Has
  <2>. QED  BY <2>1, <2>2, <2>3, <2>4, <2>5, SuggestQuiet
<1>9. ASSUME NEW p \in Procs, ReadShelf(p)  PROVE SuggestInv'
  <2> SUFFICES ASSUME NEW s \in shelf' \cap Listed  PROVE Covered(s)'
    BY DEF SuggestInv
  <2>1. /\ shelf' = shelf
        /\ s \in ghost.excused => s \in ghost'.excused
        /\ s \in ghost.known => s \in ghost'.known
    BY <1>9 DEF ReadShelf, rows
  <2>2. Others(p) /\ Covered(s) /\ s \in shelf
    BY <1>9, <1>0, <2>1, OfReadShelf
  <2>3. asked > 0 => Pending(s)'
    BY <1>9 DEF ReadShelf, tasks, Pending
  <2>4. Awaits(p, s) => Pending(s)' \/ s \in ghost'.excused
    <3>1. Awaits(p, s) => Awaits(p, s)'
      BY <1>9, <2>2, OfReadShelf DEF Awaits, Has
    <3>. QED  BY <3>1 DEF Pending
  <2>5. SeenOK(p, s)'
    BY <1>9, <2>2, OfReadShelf DEF SeenOK, Has
  <2>. QED  BY <1>9, <1>0, <2>1, <2>2, <2>3, <2>4, <2>5, SuggestQuiet
<1>10. ASSUME NEW p \in Procs, Bundled(p)  PROVE SuggestInv'
  <2>1. /\ UNCHANGED <<shelf, asked, ghost>> /\ Others(p)
        /\ job[p].what = "suggest" /\ job[p].at \in {"ask", "details", "recall"}
        /\ job'[p].what = "suggest"
        /\ job'[p].at \in {"details", "recall", "store"}
        /\ job'[p].seen = job[p].seen /\ job'[p].stale = job[p].stale
    BY <1>10, OfBundled DEF Bundled, rows, tasks, Moved
  <2> SUFFICES ASSUME NEW s \in shelf' \cap Listed  PROVE Covered(s)'
    BY DEF SuggestInv
  <2>2. \A q \in Procs : (Awaits(q, s) => Awaits(q, s)') /\ (SeenOK(q, s) => SeenOK(q, s)')
    <3>1. (Awaits(p, s) => Awaits(p, s)') /\ (SeenOK(p, s) => SeenOK(p, s)')
      BY <1>0, <2>1 DEF Awaits, SeenOK, Has
    <3>. QED  BY <2>1, <3>1, OthersAwait
  <2>3. Covered(s)
    BY <1>0, <2>1
  <2>. QED  BY <2>1, <2>2, <2>3 DEF Covered, Pending, Known
<1>11. ASSUME NEW p \in Procs, Detailed(p)  PROVE SuggestInv'
  <2>1. /\ UNCHANGED <<shelf, asked, ghost>> /\ Others(p)
        /\ job[p].what = "suggest" /\ job[p].at \in {"ask", "details", "recall"}
        /\ job'[p].what = "suggest"
        /\ job'[p].at \in {"details", "recall", "store"}
        /\ job'[p].seen = job[p].seen /\ job'[p].stale = job[p].stale
    BY <1>11, OfDetailed DEF Detailed, rows, tasks, Moved
  <2> SUFFICES ASSUME NEW s \in shelf' \cap Listed  PROVE Covered(s)'
    BY DEF SuggestInv
  <2>2. \A q \in Procs : (Awaits(q, s) => Awaits(q, s)') /\ (SeenOK(q, s) => SeenOK(q, s)')
    <3>1. (Awaits(p, s) => Awaits(p, s)') /\ (SeenOK(p, s) => SeenOK(p, s)')
      BY <1>0, <2>1 DEF Awaits, SeenOK, Has
    <3>. QED  BY <2>1, <3>1, OthersAwait
  <2>3. Covered(s)
    BY <1>0, <2>1
  <2>. QED  BY <2>1, <2>2, <2>3 DEF Covered, Pending, Known
<1>12. ASSUME NEW p \in Procs, Recall(p)  PROVE SuggestInv'
  <2>1. /\ UNCHANGED <<shelf, asked, ghost>> /\ Others(p)
        /\ job[p].what = "suggest" /\ job[p].at \in {"ask", "details", "recall"}
        /\ job'[p].what = "suggest"
        /\ job'[p].at \in {"details", "recall", "store"}
        /\ job'[p].seen = job[p].seen /\ job'[p].stale = job[p].stale
    BY <1>12, OfRecall DEF Recall, rows, tasks
  <2> SUFFICES ASSUME NEW s \in shelf' \cap Listed  PROVE Covered(s)'
    BY DEF SuggestInv
  <2>2. \A q \in Procs : (Awaits(q, s) => Awaits(q, s)') /\ (SeenOK(q, s) => SeenOK(q, s)')
    <3>1. (Awaits(p, s) => Awaits(p, s)') /\ (SeenOK(p, s) => SeenOK(p, s)')
      BY <1>0, <2>1 DEF Awaits, SeenOK, Has
    <3>. QED  BY <2>1, <3>1, OthersAwait
  <2>3. Covered(s)
    BY <1>0, <2>1
  <2>. QED  BY <2>1, <2>2, <2>3 DEF Covered, Pending, Known
<1>13. ASSUME NEW p \in Procs, Store(p)  PROVE SuggestInv'
  <2>0. job[p].what = "suggest" /\ job[p].at = "store" /\ Others(p) /\ Quit(p) /\ UNCHANGED shelf
    BY <1>13, OfStore DEF Store, rows
  <2> SUFFICES ASSUME NEW s \in shelf' \cap Listed  PROVE Covered(s)'
    BY DEF SuggestInv
  <2>1. SeenOK(p, s)' /\ Covered(s) /\ s \in shelf
    BY <1>0, <2>0, IdleFields DEF SeenOK, Has, Quit
  <2>2. CASE Fails(p)
    <3>1. Awaits(p, s) => Pending(s)' \/ s \in ghost'.excused
      <4>1. ASSUME Awaits(p, s)  PROVE p \in Workers
        BY <2>0, <4>1 DEF Awaits
      <4>. QED  BY <2>0, <2>1, <2>2, <4>1, FailsAwaits DEF Pending
    <3>2. asked > 0 => Pending(s)'
      BY <2>2, FailsKeeps DEF Pending
    <3>. QED  BY <2>0, <2>1, <2>2, <3>1, <3>2, FailsKeeps, SuggestQuiet
  <2>3. CASE Sources(job[p].seen) \subseteq shelf
    <3> DEFINE E == IF job[p].stale THEN ghost.excused \cup (shelf \ job[p].seen)
                    ELSE ghost.excused \ job[p].seen
    <3>1. /\ ghost' = [ghost EXCEPT !.known = job[p].seen, !.excused = E] /\ asked' = asked
          /\ job' = [q \in Procs |->
               IF q = p THEN Idle
               ELSE IF job[q].what # "suggest" THEN job[q]
               ELSE [job[q] EXCEPT !.stale = TRUE,
                       !.late = @ \cup {i \in Listed : hints'[i] # hints[i]}]]
      BY <1>13, <2>3 DEF Store, tasks
    <3>2. ghost'.known = job[p].seen /\ ghost'.excused = E
      BY <1>0, <3>1 DEF GhostType
    <3>3. CASE s \in job[p].seen
      <4>1. ASSUME NEW q \in Procs \ {p}  PROVE job[q].what = "suggest" => job'[q].stale
        <5>1. job[q] \in JobType
          BY <1>0
        <5>. QED  BY <3>1, <5>1 DEF JobType
      <4>2. ASSUME NEW q \in Procs \ {p}  PROVE SeenOK(q, s)'
        BY <2>0, <4>1 DEF SeenOK, Has, Others, Told
      <4>. QED  BY <2>1, <3>2, <3>3, <4>2 DEF Covered, Known
    <3>4. CASE s \notin job[p].seen
      <4>1. CASE job[p].stale
        BY <2>1, <3>2, <3>4, <4>1 DEF Covered
      <4>2. CASE ~job[p].stale
        <5>1. ~Known(s) /\ ~Awaits(p, s)
          BY <2>0, <3>4, <4>2 DEF Known, SeenOK, Awaits, Has
        <5>2. s \in ghost.excused \/ Pending(s)
          BY <2>1, <5>1 DEF Covered
        <5>3. CASE s \in ghost.excused
          BY <3>2, <3>4, <4>2, <5>3 DEF Covered
        <5>4. CASE asked > 0
          BY <3>1, <5>4 DEF Covered, Pending
        <5>5. ASSUME NEW q \in Procs, Awaits(q, s)  PROVE Covered(s)'
          <6>1. q # p
            BY <5>1, <5>5
          <6>2. Awaits(q, s)'
            BY <2>0, <5>5, <6>1, OthersAwait
          <6>. QED  BY <6>2 DEF Covered, Pending
        <5>. QED  BY <5>2, <5>3, <5>4, <5>5 DEF Pending
      <4>. QED  BY <4>1, <4>2
    <3>. QED  BY <3>3, <3>4
  <2>. QED  BY <1>13, <2>2, <2>3 DEF Store
<1>14. ASSUME NEW c \in Clients, Clear(c)  PROVE SuggestInv'
  <2> SUFFICES ASSUME NEW s \in shelf' \cap Listed  PROVE Covered(s)'
    BY DEF SuggestInv
  <2>1. /\ shelf' = shelf
        /\ s \in ghost.excused => s \in ghost'.excused
        /\ s \in ghost.known => s \in ghost'.known
    BY <1>14 DEF Clear, rows
  <2>2. Others(c) /\ Covered(s) /\ s \in shelf
    BY <1>14, <1>0, <2>1, OfClear
  <2>3. asked > 0 => Pending(s)'
    BY <1>14 DEF Clear, tasks, Pending
  <2>4. Awaits(c, s) => Pending(s)' \/ s \in ghost'.excused
    BY <1>14, <1>0, OfClear, IdleFields DEF Awaits
  <2>5. SeenOK(c, s)'
    BY <1>14, <1>0, OfClear, IdleFields DEF SeenOK, Has, Moved, Quit
  <2>. QED  BY <1>14, <1>0, <2>1, <2>2, <2>3, <2>4, <2>5, SuggestQuiet
<1>15. ASSUME NEW c \in Clients, Put(c)  PROVE SuggestInv'
  <2> SUFFICES ASSUME NEW s \in shelf' \cap Listed  PROVE Covered(s)'
    BY DEF SuggestInv
  <2>1. /\ shelf' = shelf
        /\ s \in ghost.excused => s \in ghost'.excused
        /\ s \in ghost.known => s \in ghost'.known
    BY <1>15 DEF Put, rows
  <2>2. Others(c) /\ Covered(s) /\ s \in shelf
    BY <1>15, <1>0, <2>1, OfPut
  <2>3. asked > 0 => Pending(s)'
    BY <1>15 DEF Put, tasks, Pending
  <2>4. Awaits(c, s) => Pending(s)' \/ s \in ghost'.excused
    BY <1>15, <1>0, OfPut, IdleFields DEF Awaits
  <2>5. SeenOK(c, s)'
    BY <1>15, <1>0, OfPut, IdleFields DEF SeenOK, Has, Moved, Quit
  <2>. QED  BY <1>15, <1>0, <2>1, <2>2, <2>3, <2>4, <2>5, SuggestQuiet
<1>16. ASSUME NEW c \in Clients, Check(c)  PROVE SuggestInv'
  <2> SUFFICES ASSUME NEW s \in shelf' \cap Listed  PROVE Covered(s)'
    BY DEF SuggestInv
  <2>1. /\ shelf' = shelf
        /\ s \in ghost.excused => s \in ghost'.excused
        /\ s \in ghost.known => s \in ghost'.known
    BY <1>16 DEF Check, rows
  <2>2. Others(c) /\ Covered(s) /\ s \in shelf
    BY <1>16, <1>0, <2>1, OfCheck
  <2>3. asked > 0 => Pending(s)'
    BY <1>16 DEF Check, tasks, Pending
  <2>4. Awaits(c, s) => Pending(s)' \/ s \in ghost'.excused
    BY <1>16, <1>0, OfCheck, IdleFields DEF Awaits
  <2>5. SeenOK(c, s)'
    BY <1>16, <1>0, OfCheck, IdleFields DEF SeenOK, Has, Moved, Quit
  <2>. QED  BY <1>16, <1>0, <2>1, <2>2, <2>3, <2>4, <2>5, SuggestQuiet
<1>17. ASSUME NEW c \in Clients, Insert(c)  PROVE SuggestInv'
  <2> SUFFICES ASSUME NEW r \in shelf' \cap Listed  PROVE Covered(r)'
    BY DEF SuggestInv
  <2> DEFINE s == job[c].of
             E == IF job[c].what = "import" THEN ghost.excused \cup {s} ELSE ghost.excused \ {s}
  <2>1. /\ job[c].what \in {"add", "import", "manual"} /\ job[c].at = "insert"
        /\ c \in Procs /\ Others(c) /\ JobOK(c)
        /\ s \in shelf => Quit(c)
        /\ s \notin shelf => Moved(c) /\ job'[c].at = "queue"
    BY <1>17, <1>0, OfInsert
  <2>2. /\ asked' = asked
        /\ s \in shelf => UNCHANGED <<shelf, ghost>>
        /\ s \notin shelf => /\ shelf' = shelf \cup {s} /\ ghost'.excused = E
                             /\ ghost'.known = ghost.known
    BY <1>17, <1>0 DEF Insert, rows, tasks, GhostType
  <2>3. ~Awaits(c, r) /\ SeenOK(c, r)'
    BY <1>0, <2>1, IdleFields DEF Awaits, SeenOK, Has, Quit, Moved
  <2>4. CASE s \notin shelf /\ r = s
    <3>1. job[c].what # "manual"
      BY <2>1, <2>4 DEF JobOK, Listed
    <3>2. CASE job[c].what = "import"
      BY <2>2, <2>4, <3>2 DEF Covered
    <3>3. CASE job[c].what = "add"
      <4>1. Awaits(c, r)'
        BY <1>17, <2>1, <2>4, <3>3 DEF Awaits, Moved
      <4>. QED  BY <2>1, <4>1 DEF Covered, Pending
    <3>. QED  BY <2>1, <3>1, <3>2, <3>3
  <2>5. CASE s \in shelf \/ r # s
    <3>1. /\ Covered(r) /\ (r \in ghost.excused => r \in ghost'.excused)
          /\ r \in ghost.known => r \in ghost'.known
      BY <1>0, <2>2, <2>5
    <3>. QED  BY <2>1, <2>2, <2>3, <3>1, SuggestQuiet DEF Pending
  <2>. QED  BY <2>4, <2>5
<1>18. ASSUME NEW c \in Clients, Queue(c)  PROVE SuggestInv'
  <2> SUFFICES ASSUME NEW s \in shelf' \cap Listed  PROVE Covered(s)'
    BY DEF SuggestInv
  <2>1. /\ shelf' = shelf
        /\ s \in ghost.excused => s \in ghost'.excused
        /\ s \in ghost.known => s \in ghost'.known
    BY <1>18 DEF Queue, rows
  <2>2. Others(c) /\ Covered(s) /\ s \in shelf
    BY <1>18, <1>0, <2>1, OfQueue
  <2>3. asked > 0 => Pending(s)'
    BY <1>18 DEF Queue, tasks, Pending
  <2>4. Awaits(c, s) => Pending(s)' \/ s \in ghost'.excused
    <3>1. Awaits(c, s) => Awaits(c, s)'
      BY <1>18, <1>0, <2>2, OfQueue DEF Awaits, Moved
    <3>. QED  BY <1>18, <1>0, <3>1 DEF Pending
  <2>5. SeenOK(c, s)'
    BY <1>18, <1>0, OfQueue, IdleFields DEF SeenOK, Has, Moved, Quit
  <2>. QED  BY <1>18, <1>0, <2>1, <2>2, <2>3, <2>4, <2>5, SuggestQuiet
<1>19. ASSUME NEW c \in Clients, Wipe(c)  PROVE SuggestInv'
  <2> SUFFICES ASSUME NEW s \in shelf' \cap Listed  PROVE Covered(s)'
    BY DEF SuggestInv
  <2>1. /\ shelf' = shelf
        /\ s \in ghost.excused => s \in ghost'.excused
        /\ s \in ghost.known => s \in ghost'.known
    BY <1>19 DEF Wipe, rows
  <2>2. Others(c) /\ Covered(s) /\ s \in shelf
    BY <1>19, <1>0, <2>1, OfWipe
  <2>3. asked > 0 => Pending(s)'
    BY <1>19 DEF Wipe, tasks, Pending
  <2>4. Awaits(c, s) => Pending(s)' \/ s \in ghost'.excused
    BY <1>19, <1>0, OfWipe, IdleFields DEF Awaits
  <2>5. SeenOK(c, s)'
    BY <1>19, <1>0, OfWipe, IdleFields DEF SeenOK, Has, Moved, Quit
  <2>. QED  BY <1>19, <1>0, <2>1, <2>2, <2>3, <2>4, <2>5, SuggestQuiet
<1>20. ASSUME NEW c \in Clients, Drop(c)  PROVE SuggestInv'
  <2> SUFFICES ASSUME NEW s \in shelf' \cap Listed  PROVE Covered(s)'
    BY DEF SuggestInv
  <2>1. /\ s \in shelf /\ s # job[c].of /\ asked' = asked /\ ghost'.excused = ghost.excused
        /\ s \in ghost.known => s \in ghost'.known
    BY <1>20, <1>0 DEF Drop, GhostType
  <2>2. Others(c) /\ Quit(c) /\ job[c].what = "delete" /\ c \in Procs
    BY <1>20, <1>0, OfDrop
  <2>3. ~Awaits(c, s) /\ SeenOK(c, s)'
    BY <2>2, IdleFields DEF Awaits, SeenOK, Has, Quit
  <2>4. Covered(s)
    BY <1>0, <2>1
  <2>. QED  BY <2>1, <2>2, <2>3, <2>4, SuggestQuiet DEF Pending
<1>21. ASSUME NEW c \in Clients, NEW s \in Series, Add(c, s)  PROVE SuggestInv'
  <2> SUFFICES ASSUME NEW r \in shelf' \cap Listed  PROVE Covered(r)'
    BY DEF SuggestInv
  <2>1. /\ shelf' = shelf
        /\ r \in ghost.excused => r \in ghost'.excused
        /\ r \in ghost.known => r \in ghost'.known
    BY <1>21 DEF Add, rows
  <2>2. Others(c) /\ Covered(r) /\ r \in shelf
    BY <1>21, <1>0, <2>1, OfAdd
  <2>3. asked > 0 => Pending(r)'
    BY <1>21 DEF Add, tasks, Pending
  <2>4. Awaits(c, r) => Pending(r)' \/ r \in ghost'.excused
    BY <1>21, <1>0, OfAdd DEF Awaits, Began, Has
  <2>5. SeenOK(c, r)'
    BY <1>21, <1>0, OfAdd DEF SeenOK, Has, Began
  <2>. QED  BY <1>21, <1>0, <2>1, <2>2, <2>3, <2>4, <2>5, SuggestQuiet
<1>22. ASSUME NEW c \in Clients, NEW s \in Series, AddByHand(c, s)
       PROVE  SuggestInv'
  <2> SUFFICES ASSUME NEW r \in shelf' \cap Listed  PROVE Covered(r)'
    BY DEF SuggestInv
  <2>1. /\ shelf' = shelf
        /\ r \in ghost.excused => r \in ghost'.excused
        /\ r \in ghost.known => r \in ghost'.known
    BY <1>22 DEF AddByHand, rows
  <2>2. Others(c) /\ Covered(r) /\ r \in shelf
    BY <1>22, <1>0, <2>1, OfAddByHand
  <2>3. asked > 0 => Pending(r)'
    BY <1>22 DEF AddByHand, tasks, Pending
  <2>4. Awaits(c, r) => Pending(r)' \/ r \in ghost'.excused
    BY <1>22, <1>0, OfAddByHand DEF Awaits, Began, Has
  <2>5. SeenOK(c, r)'
    BY <1>22, <1>0, OfAddByHand DEF SeenOK, Has, Began
  <2>. QED  BY <1>22, <1>0, <2>1, <2>2, <2>3, <2>4, <2>5, SuggestQuiet
<1>23. ASSUME NEW c \in Clients, NEW s \in Series, Import(c, s)  PROVE SuggestInv'
  <2> SUFFICES ASSUME NEW r \in shelf' \cap Listed  PROVE Covered(r)'
    BY DEF SuggestInv
  <2>1. /\ shelf' = shelf
        /\ r \in ghost.excused => r \in ghost'.excused
        /\ r \in ghost.known => r \in ghost'.known
    BY <1>23 DEF Import, rows
  <2>2. Others(c) /\ Covered(r) /\ r \in shelf
    BY <1>23, <1>0, <2>1, OfImport
  <2>3. asked > 0 => Pending(r)'
    BY <1>23 DEF Import, tasks, Pending
  <2>4. Awaits(c, r) => Pending(r)' \/ r \in ghost'.excused
    BY <1>23, <1>0, OfImport DEF Awaits, Began, Has
  <2>5. SeenOK(c, r)'
    BY <1>23, <1>0, OfImport DEF SeenOK, Has, Began
  <2>. QED  BY <1>23, <1>0, <2>1, <2>2, <2>3, <2>4, <2>5, SuggestQuiet
<1>24. ASSUME NEW c \in Clients, NEW s \in Series, Change(c, s)  PROVE SuggestInv'
  <2> SUFFICES ASSUME NEW r \in shelf' \cap Listed  PROVE Covered(r)'
    BY DEF SuggestInv
  <2>1. /\ shelf' = shelf
        /\ r \in ghost.excused => r \in ghost'.excused
        /\ r \in ghost.known => r \in ghost'.known
    BY <1>24 DEF Change, rows
  <2>2. Others(c) /\ Covered(r) /\ r \in shelf
    BY <1>24, <1>0, <2>1, OfChange
  <2>3. asked > 0 => Pending(r)'
    BY <1>24 DEF Change, tasks, Pending
  <2>4. Awaits(c, r) => Pending(r)' \/ r \in ghost'.excused
    BY <1>24, <1>0, OfChange, IdleFields DEF Awaits
  <2>5. SeenOK(c, r)'
    BY <1>24, <1>0, OfChange, IdleFields DEF SeenOK, Has, Quit
  <2>. QED  BY <1>24, <1>0, <2>1, <2>2, <2>3, <2>4, <2>5, SuggestQuiet
<1>25. ASSUME NEW c \in Clients, NEW s \in Series, Delete(c, s)  PROVE SuggestInv'
  <2> SUFFICES ASSUME NEW r \in shelf' \cap Listed  PROVE Covered(r)'
    BY DEF SuggestInv
  <2>1. /\ shelf' = shelf
        /\ r \in ghost.excused => r \in ghost'.excused
        /\ r \in ghost.known => r \in ghost'.known
    BY <1>25 DEF Delete, rows
  <2>2. Others(c) /\ Covered(r) /\ r \in shelf
    BY <1>25, <1>0, <2>1, OfDelete
  <2>3. asked > 0 => Pending(r)'
    BY <1>25 DEF Delete, tasks, Pending
  <2>4. Awaits(c, r) => Pending(r)' \/ r \in ghost'.excused
    BY <1>25, <1>0, OfDelete DEF Awaits, Began, Has
  <2>5. SeenOK(c, r)'
    BY <1>25, <1>0, OfDelete DEF SeenOK, Has, Began
  <2>. QED  BY <1>25, <1>0, <2>1, <2>2, <2>3, <2>4, <2>5, SuggestQuiet
<1>26. ASSUME NEW w \in Workers, Comic(w)  PROVE SuggestInv'
  <2> SUFFICES ASSUME NEW s \in shelf' \cap Listed  PROVE Covered(s)'
    BY DEF SuggestInv
  <2>1. /\ shelf' = shelf
        /\ s \in ghost.excused => s \in ghost'.excused
        /\ s \in ghost.known => s \in ghost'.known
    BY <1>26 DEF Comic, rows
  <2>2. Others(w) /\ Covered(s) /\ s \in shelf
    BY <1>26, <1>0, <2>1, OfComic
  <2>3. asked > 0 => Pending(s)'
    BY <1>26 DEF Comic, tasks, Pending
  <2>4. Awaits(w, s) => Pending(s)' \/ s \in ghost'.excused
    BY <1>26, <1>0, OfComic, IdleFields DEF Awaits
  <2>5. SeenOK(w, s)'
    BY <1>26, <1>0, OfComic, IdleFields DEF SeenOK, Has, Moved, Quit
  <2>. QED  BY <1>26, <1>0, <2>1, <2>2, <2>3, <2>4, <2>5, SuggestQuiet
<1>27. ASSUME NEW w \in Workers, NEW s \in Series, Refresh(w, s)  PROVE SuggestInv'
  <2> SUFFICES ASSUME NEW r \in shelf' \cap Listed  PROVE Covered(r)'
    BY DEF SuggestInv
  <2>1. /\ shelf' = shelf
        /\ r \in ghost.excused => r \in ghost'.excused
        /\ r \in ghost.known => r \in ghost'.known
    BY <1>27 DEF Refresh, rows
  <2>2. Others(w) /\ Covered(r) /\ r \in shelf
    BY <1>27, <1>0, <2>1, OfRefresh
  <2>3. asked > 0 => Pending(r)'
    BY <1>27 DEF Refresh, tasks, Pending
  <2>4. Awaits(w, r) => Pending(r)' \/ r \in ghost'.excused
    BY <1>27, <1>0, OfRefresh, IdleFields DEF Awaits
  <2>5. SeenOK(w, r)'
    BY <1>27, <1>0, OfRefresh, IdleFields DEF SeenOK, Has, Quit
  <2>. QED  BY <1>27, <1>0, <2>1, <2>2, <2>3, <2>4, <2>5, SuggestQuiet
<1>28. ASSUME NEW s \in Series, AskRefresh(s)  PROVE SuggestInv'
  <2>1. UNCHANGED <<shelf, asked, job, ghost>>
    BY <1>28 DEF AskRefresh, rows, tasks
  <2>. QED  BY <1>0, <2>1 DEF SuggestInv, Covered, Pending, Known, Awaits,
               SeenOK, Has
<1>29. ASSUME NEW i \in Listed, Hide(i)  PROVE SuggestInv'
  <2>1. UNCHANGED <<shelf, asked, ghost>>
    BY <1>29 DEF Hide, rows, tasks
  <2> SUFFICES ASSUME NEW s \in shelf' \cap Listed  PROVE Covered(s)'
    BY DEF SuggestInv
  <2>2. \A q \in Procs : (Awaits(q, s) => Awaits(q, s)') /\ (SeenOK(q, s) => SeenOK(q, s)')
    BY <1>29, OfHide DEF Told, Awaits, SeenOK, Has
  <2>3. Covered(s)
    BY <1>0, <2>1
  <2>. QED  BY <2>1, <2>2, <2>3 DEF Covered, Pending, Known
<1>30. ASSUME Crash  PROVE SuggestInv'
  <2> SUFFICES ASSUME NEW s \in shelf' \cap Listed  PROVE Covered(s)'
    BY DEF SuggestInv
  <2> DEFINE Of(what) == {job[p].of : p \in {q \in Procs : job[q].what \in what}}
             R == {w \in Workers : /\ job[w].what = "suggest" /\ job[w].of = NoSeries
                                   /\ ~job[w].lost}
  <2>1. /\ shelf' = shelf /\ ghost'.known = ghost.known
        /\ ghost'.excused = ghost.excused \cup Of({"add"})
    BY <1>30, <1>0 DEF Crash, rows, GhostType
  <2>2. asked' = asked + Cardinality(R)
    BY <1>30 DEF Crash
  <2>3. IsFiniteSet(R)
    BY CatalogAssumption, FS_Subset
  <2>4. \A q \in Procs : SeenOK(q, s)'
    BY <1>30, IdleFields DEF Crash, SeenOK, Has
  <2>5. Covered(s)
    BY <1>0, <2>1
  <2>6. CASE s \in ghost.excused \/ Known(s)
    BY <2>1, <2>4, <2>6 DEF Covered, Known
  <2>7. CASE asked > 0
    <3>1. asked' > 0
      <4>. HIDE DEF R
      <4>. QED  BY <1>0, <2>2, <2>3, <2>7, FS_CardinalityType
    <3>. QED  BY <3>1 DEF Covered, Pending
  <2>8. ASSUME NEW q \in Procs, Awaits(q, s)  PROVE Covered(s)'
    <3>1. CASE job[q].what = "add" /\ job[q].of = s
      BY <2>1, <3>1 DEF Covered
    <3>2. CASE q \in Workers /\ job[q].what = "suggest"
      <4>1. q \in R
        BY <1>0, <3>2 DEF JobOK, Aimless
      <4>2. Cardinality(R) \in Nat /\ Cardinality(R) # 0
        <5>. HIDE DEF R
        <5>. QED  BY <2>3, <4>1, FS_CardinalityType, FS_EmptySet
      <4>3. asked' > 0
        <5>. HIDE DEF R
        <5>. QED  BY <1>0, <2>2, <4>2
      <4>. QED  BY <4>3 DEF Covered, Pending
    <3>. QED  BY <2>8, <3>1, <3>2 DEF Awaits
  <2>. QED  BY <2>5, <2>6, <2>7, <2>8 DEF Covered, Pending
<1>31. ASSUME UNCHANGED vars  PROVE SuggestInv'
  <2>1. UNCHANGED <<shelf, asked, job, ghost>>
    BY <1>31 DEF vars, rows, tasks
  <2>. QED  BY <1>0, <2>1 DEF SuggestInv, Covered, Pending, Known, Awaits,
               SeenOK, Has
<1>32. ASSUME NEW p \in Procs, p \in Workers, ComicFails(p)  PROVE SuggestInv'
  <2> SUFFICES ASSUME NEW s \in shelf' \cap Listed  PROVE Covered(s)'
    BY DEF SuggestInv
  <2>1. /\ shelf' = shelf
        /\ s \in ghost.excused => s \in ghost'.excused
        /\ s \in ghost.known => s \in ghost'.known
    BY <1>32, <1>0, FailsKeeps DEF ComicFails, rows
  <2>2. Others(p) /\ Covered(s) /\ s \in shelf
    BY <1>32, <1>0, <2>1, OfFails DEF ComicFails
  <2>3. asked > 0 => Pending(s)'
    BY <1>32, FailsKeeps DEF ComicFails, Pending
  <2>4. Awaits(p, s) => Pending(s)' \/ s \in ghost'.excused
    <3>1. ASSUME Awaits(p, s)  PROVE job[p].what = "suggest" /\ p \in Workers
      BY <1>32, <3>1, CatalogAssumption DEF Awaits, Has, ComicFails, Doing
    <3>. QED  BY <1>32, <1>0, <2>2, <3>1, FailsAwaits DEF Pending, ComicFails
  <2>5. SeenOK(p, s)'
    BY <1>32, OfFails, IdleFields DEF ComicFails, SeenOK, Has, Quit
  <2>. QED  BY <1>32, <1>0, <2>1, <2>2, <2>3, <2>4, <2>5, SuggestQuiet
<1>. QED
  BY <1>1, <1>2, <1>3, <1>4, <1>5, <1>6, <1>7, <1>8, <1>9, <1>10, <1>11,
     <1>12, <1>13, <1>14, <1>15, <1>16, <1>17, <1>18, <1>19, <1>20, <1>21,
     <1>22, <1>23, <1>24, <1>25, <1>26, <1>27, <1>28, <1>29, <1>30, <1>31, <1>32
  DEF Next, Procs

(***************************************************************************)
(* The theorems                                                            *)
(***************************************************************************)

(* TypeOK: the rows, the waiting tasks and the jobs have their types, a job *)
(* that touches a row or a directory names its series, and a series that   *)
(* is gone has no refresh waiting (delete_manga's cascade, db/task.rs).    *)
THEOREM CatalogTypeCorrect == Spec => []TypeOK
<1>1. Init => BaseInv
  BY BaseInit
<1>2. BaseInv /\ [Next]_vars => BaseInv'
  BY BaseNext
<1>3. BaseInv => TypeOK
  BY DomIsTyped
<1>. QED  BY <1>1, <1>2, <1>3, PTL DEF Spec

(* TitlesKept: through every refresh, upload and edit, a title that the    *)
(* user hid stays hidden and one the user added stays listed, unless a row *)
(* was written back over a newer one (merge_synonyms, update_metadata).    *)
THEOREM UsersTitlesAreKept == Spec => []TitlesKept
<1>1. Init => BaseInv /\ TitleInv
  BY BaseInit, TitleInit
<1>2. BaseInv /\ TitleInv /\ [Next]_vars => BaseInv' /\ TitleInv'
  BY BaseNext, TitleNext
<1>3. BaseInv /\ TitleInv => TitlesKept
  BY DEF TitleInv
<1>. QED  BY <1>1, <1>2, <1>3, PTL DEF Spec

(* CoverIsThere: a row that points at a cover of this server has one on    *)
(* disk, but for an upload or a deletion under way or cut off              *)
(* (download_cover, upload_cover_file, delete_manga).                      *)
THEOREM OwnCoversAreThere == Spec => []CoverIsThere
<1>1. Init => BaseInv /\ CoverInv
  BY BaseInit, CoverInit
<1>2. BaseInv /\ CoverInv /\ [Next]_vars => BaseInv' /\ CoverInv'
  BY BaseNext, CoverNext
<1>3. BaseInv /\ CoverInv => CoverIsThere
  BY CoverHolds
<1>. QED  BY <1>1, <1>2, <1>3, PTL DEF Spec

(* SuggestionsKnowAll: when nothing waits and nothing runs, the suggestions *)
(* were made of every series there is, but the excused (add_manga, the      *)
(* worker's request, is_pending_for_library).                               *)
THEOREM NoSeriesIsForgotten == Spec => []SuggestionsKnowAll
<1>1. Init => BaseInv /\ SuggestInv
  BY BaseInit, SuggestInit
<1>2. BaseInv /\ SuggestInv /\ [Next]_vars => BaseInv' /\ SuggestInv'
  BY BaseNext, SuggestNext
<1>3. BaseInv /\ SuggestInv => SuggestionsKnowAll
  BY SuggestHolds
<1>. QED  BY <1>1, <1>2, <1>3, PTL DEF Spec

(* HiddenStays: a refresh shows no suggestion that is hidden, unless it was *)
(* hidden between the refresh's read and its transaction                    *)
(* (replace_library_suggestions, db/suggestions.rs).                        *)
THEOREM HiddenSuggestionsStay == Spec => HiddenStays
<1> DEFINE I == BaseInv /\ HintInv /\ edits \in Nat
<1>1. Init => I
  BY BaseInit, HintInit DEF Init
<1>2. I /\ [Next]_vars => I'
  BY BaseNext, HintNext, EditsNext
<1>3. I /\ [Next]_vars
        => [\A i \in Listed : hints[i] = "hidden" /\ hints'[i] = "shown"
              => edits' # edits \/ \E p \in Procs : job[p].at = "store" /\ i \in job[p].late]_vars
  BY HiddenStep
<1>. HIDE DEF I
<1>. QED  BY <1>1, <1>2, <1>3, PTL DEF Spec, HiddenStays

====
