--------------------------- MODULE CanonicalProofs ---------------------------
(***************************************************************************)
(* TLAPS proofs about Canonical, for any rows, rules, users and bounds.    *)
(*                                                                         *)
(* A list that is fresh was made by update_canonical from the rows, flags, *)
(* overrides and providers there are now (FreshInv): what it promises then *)
(* follows from lemmas about the operators that update_canonical is made   *)
(* of, which say nothing of states or steps.                               *)
(***************************************************************************)
EXTENDS Canonical, TLAPS

(* One row per number.                                                     *)
Distinct(K) == \A c, d \in K : Number(c) = Number(d) => c = d

(* A map of overrides: each number has one row, and it is of that number.  *)
OverrideMap(O) ==
  /\ O \in SUBSET (Keys \X Chapters)
  /\ \A o, q \in O : Number(o[2]) = o[1] /\ (o[1] = q[1] => o = q)

Places == {"idle", "read", "filter", "load", "store", "purge", "clear", "choose", "chosen",
           "cut", "write"}

(* What a request or a task holds between its statements. (The values of   *)
(* its scores do not matter to what is proved: any function may stand for  *)
(* them.)                                                                  *)
JobType(scores) ==
  [at    : Places,
   raw   : SUBSET Chapters,
   flags : SUBSET Chapters,
   all   : SUBSET Chapters,
   over  : SUBSET (Keys \X Chapters),
   kept  : SUBSET Chapters,
   score : {scores},
   target: SUBSET Chapters,
   by    : SUBSET (Keys \cup Providers),
   late  : SUBSET (Keys \X Chapters)]

JobOK(j) ==
  /\ \E scores : j \in JobType(scores)
  /\ Distinct(j.kept) /\ OverrideMap(j.over)
  /\ \A c, d \in j.target : c = d
  /\ j.at = "chosen" => \A c \in j.target : <<Number(c), c>> \in j.over

JobInv ==
  /\ job = [u \in Users |-> job[u]]
  /\ \A u \in Users : JobOK(job[u])

(* The choice of c replaces o, as users mean it.                           *)
Replaces(c, o, flags) ==
  \/ Number(o[2]) = Number(c)
  \/ /\ ~StandsAlone(c, flags)
     /\ Info[o[2]].base = Info[c].base /\ Info[o[2]].variant \in 0..4

(* Who is about to write overrides has all that were chosen before he read *)
(* them, but for those he is there to drop.                                *)
Keeps(j, C) ==
  /\ j.at = "store" => \A o \in C \ j.late : o \in j.over
  /\ j.at = "clear" => \A o \in C \ j.late : o \in j.over \/ o[1] \in j.by
  /\ j.at = "chosen" => \A c \in j.target : \A o \in C \ j.late :
       o \in j.over \/ Replaces(c, o, j.flags)

LateInv == \A u \in Users : Keeps(job[u], chosen)

CoreInv == TypeOK /\ JobInv

BaseInv == TypeOK /\ JobInv /\ OverrideSurvives /\ LateInv

(* The list cl can come out of update_canonical with these overrides, rows *)
(* and flags, when all is what the filters leave and kept what may stay.   *)
MadeFrom(cl, over, raw, all, flags, kept) ==
  \E K \in SUBSET kept : Distinct(K) /\
    \E S : \E L \in AutoLists(all, flags, S) :
      cl \in Overridden(Preserved(L, K), over, raw, all, flags)

FreshInv ==
  fresh => MadeFrom(list, overrides, rows, Filtered(rows, off), extra, have)

-----------------------------------------------------------------------------
(* The operators update_canonical is made of.                              *)

LEMMA FilteredIsRead ==
  ASSUME NEW raw, NEW disabled
  PROVE  Filtered(raw, disabled) \subseteq raw
  BY DEF Filtered

LEMMA OverrideKeys == ASSUME NEW c \in Chapters PROVE <<Number(c), c>> \in Keys \X Chapters
  BY DEF Keys

(* Every slot of the rows has entries in an automatic list, all of one     *)
(* bundle: one for each part, or one.                                      *)
LEMMA SlotIsWon ==
  ASSUME NEW all, NEW flags, NEW S, NEW L \in AutoLists(all, flags, S), NEW c \in all
  PROVE  \E B \in SUBSET InSlot(Slot(c, all, flags), all, flags) :
           B # {} /\ L \cap InSlot(Slot(c, all, flags), all, flags) \in Winners(B, S)
<1> DEFINE C        == InSlot(Slot(c, all, flags), all, flags)
           slots    == {InSlot(Slot(d, all, flags), all, flags) : d \in all}
           contests == {<<D, UNION {Winners(B, S) : B \in Finalists(D, S)}>> : D \in slots}
<1>1. <<C, UNION {Winners(B, S) : B \in Finalists(C, S)}>> \in contests
  OBVIOUS
<1>2. \A p \in contests : L \cap p[1] \in p[2]
  BY DEF AutoLists
<1>3. L \cap C \in UNION {Winners(B, S) : B \in Finalists(C, S)}
  <2> HIDE DEF contests
  <2> QED  BY <1>1, <1>2
<1>4. PICK B \in Finalists(C, S) : L \cap C \in Winners(B, S)
  BY <1>3
<1>5. Finalists(C, S) \subseteq Bundles(C)
  BY DEF Finalists
<1>6. B \in SUBSET C /\ B # {}
  BY <1>4, <1>5 DEF Bundles
<1>. QED  BY <1>4, <1>6

LEMMA WinnersAreSome ==
  ASSUME NEW B, B # {}, NEW S, NEW W \in Winners(B, S)
  PROVE  W # {} /\ W \subseteq B
<1>1. CASE IsSplit(B)
  <2>1. PICK c \in B : TRUE
    OBVIOUS
  <2>2. /\ W \in SUBSET B
        /\ \A v \in {Info[d].variant : d \in B} :
             \E d \in Top({e \in B : Info[e].variant = v}, S) :
               {e \in W : Info[e].variant = v} = {d}
    BY <1>1 DEF Winners
  <2>3. \E d \in Top({e \in B : Info[e].variant = Info[c].variant}, S) :
           {e \in W : Info[e].variant = Info[c].variant} = {d}
    BY <2>1, <2>2
  <2>. QED  BY <2>2, <2>3
<1>2. CASE ~IsSplit(B)
  BY <1>2 DEF Winners, Top
<1>. QED  BY <1>1, <1>2

(* Of a part a provider has in several releases, one wins.                 *)
LEMMA WinnersDiffer ==
  ASSUME NEW B, NEW S, NEW W \in Winners(B, S), NEW c \in W, NEW d \in W,
         Info[c].variant = Info[d].variant, c \in B
  PROVE  c = d
<1>1. CASE IsSplit(B)
  <2>1. \A v \in {Info[e].variant : e \in B} :
             \E x \in Top({e \in B : Info[e].variant = v}, S) :
               {e \in W : Info[e].variant = v} = {x}
    BY <1>1 DEF Winners
  <2>2. \E x : {e \in W : Info[e].variant = Info[c].variant} = {x}
    BY <2>1
  <2>. QED  BY <2>2
<1>2. CASE ~IsSplit(B)
  BY <1>2 DEF Winners
<1>. QED  BY <1>1, <1>2

LEMMA AutoListed ==
  ASSUME NEW all, NEW flags, NEW S, NEW L \in AutoLists(all, flags, S)
  PROVE  L \subseteq all
<1> DEFINE slots    == {InSlot(Slot(c, all, flags), all, flags) : c \in all}
           contests == {<<C, UNION {Winners(B, S) : B \in Finalists(C, S)}>> : C \in slots}
<1> SUFFICES ASSUME NEW d \in L  PROVE d \in all
  OBVIOUS
<1>1. d \in UNION {UNION p[2] : p \in contests}
  BY DEF AutoLists
<1>2. PICK C \in slots : d \in UNION UNION {Winners(B, S) : B \in Finalists(C, S)}
  BY <1>1
<1>3. PICK B \in Finalists(C, S) : \E W \in Winners(B, S) : d \in W
  BY <1>2
<1>4. B \in Bundles(C)
  BY <1>3 DEF Finalists
<1>5. B \subseteq C /\ B # {}
  BY <1>4 DEF Bundles
<1>6. d \in B
  BY <1>3, <1>5, WinnersAreSome
<1>. QED  BY <1>2, <1>5, <1>6 DEF InSlot

(* Rows of one number and mark are in one slot.                            *)
LEMMA SameSlot ==
  ASSUME NEW all, NEW flags, NEW c, NEW d, Number(c) = Number(d), c \in flags <=> d \in flags
  PROVE  Slot(c, all, flags) = Slot(d, all, flags) /\ Info[c].variant = Info[d].variant
  BY DEF Slot, Number

LEMMA AutoDiffer ==
  ASSUME NEW all, NEW flags, NEW S, NEW L \in AutoLists(all, flags, S),
         NEW c \in L, NEW d \in L, Number(c) = Number(d), c \in flags <=> d \in flags
  PROVE  c = d
<1> DEFINE C == InSlot(Slot(c, all, flags), all, flags)
<1>1. c \in all /\ d \in all
  BY AutoListed
<1>2. c \in C /\ d \in C
  BY <1>1, SameSlot DEF InSlot
<1>3. PICK B \in SUBSET C : B # {} /\ L \cap C \in Winners(B, S)
  BY <1>1, SlotIsWon
<1>4. L \cap C \subseteq B
  BY <1>3, WinnersAreSome
<1>5. Info[c].variant = Info[d].variant
  BY SameSlot
<1>6. c \in L \cap C /\ d \in L \cap C /\ c \in B
  BY <1>2, <1>4
<1>7. \A W \in Winners(B, S) : c \in W /\ d \in W => c = d
  BY <1>5, <1>6, WinnersDiffer
<1> HIDE DEF C
<1>. QED  BY <1>3, <1>6, <1>7

LEMMA AutoHasSlot ==
  ASSUME NEW all, NEW flags, NEW S, NEW L \in AutoLists(all, flags, S), NEW c \in all
  PROVE  \E d \in L : d \in all /\ Slot(d, all, flags) = Slot(c, all, flags)
<1> DEFINE C == InSlot(Slot(c, all, flags), all, flags)
<1>1. PICK B \in SUBSET C : B # {} /\ L \cap C \in Winners(B, S)
  BY SlotIsWon
<1>2. L \cap C # {}
  BY <1>1, WinnersAreSome
<1>. QED  BY <1>2 DEF InSlot

-----------------------------------------------------------------------------
(* The invariant of the rows, the overrides and what is under way.         *)

LEMMA IdleOK == JobOK(Idle)
<1>1. ASSUME NEW f
      PROVE  [at |-> "idle", raw |-> {}, flags |-> {}, all |-> {}, over |-> {},
              kept |-> {}, score |-> f, target |-> {}, by |-> {}, late |-> {}] \in JobType(f)
  BY DEF Places, JobType
<1>2. Idle \in JobType([c \in {} |-> 0])
  BY <1>1 DEF Idle
<1>3. Idle.at = "idle" /\ Idle.over = {} /\ Idle.kept = {} /\ Idle.target = {}
  BY DEF Idle
<1>. QED  BY <1>2, <1>3 DEF JobOK, Distinct, OverrideMap

(* The ways in which what is held changes.                                 *)
LEMMA MoveAt ==
  ASSUME NEW j, JobOK(j),
         NEW at \in Places, at # "chosen"
  PROVE  JobOK([j EXCEPT !.at = at])
<1> DEFINE n == [j EXCEPT !.at = at]
<1>1. PICK s : j \in JobType(s)
  BY DEF JobOK
<1>2. n \in JobType(s)
  BY <1>1 DEF Places, JobType
<1>3. n.at = at /\ n.kept = j.kept /\ n.over = j.over /\ n.target = j.target
  BY <1>1 DEF Places, JobType
<1> HIDE DEF n
<1>4. JobOK(n)
  BY <1>2, <1>3 DEF JobOK
<1>. QED  BY <1>4 DEF n

LEMMA MoveAll ==
  ASSUME NEW j, JobOK(j),
         NEW at \in Places, at # "chosen",
         NEW l \in SUBSET Chapters
  PROVE  JobOK([j EXCEPT !.at = at, !.all = l])
<1> DEFINE n == [j EXCEPT !.at = at, !.all = l]
<1>1. PICK s : j \in JobType(s)
  BY DEF JobOK
<1>2. n \in JobType(s)
  BY <1>1 DEF Places, JobType
<1>3. n.at = at /\ n.kept = j.kept /\ n.over = j.over /\ n.target = j.target
  BY <1>1 DEF Places, JobType
<1> HIDE DEF n
<1>4. JobOK(n)
  BY <1>2, <1>3 DEF JobOK
<1>. QED  BY <1>4 DEF n

LEMMA MoveRead ==
  ASSUME NEW j, JobOK(j),
         NEW at \in Places, at # "chosen",
         NEW r \in SUBSET Chapters,
         NEW g \in SUBSET Chapters
  PROVE  JobOK([j EXCEPT !.at = at, !.raw = r, !.flags = g])
<1> DEFINE n == [j EXCEPT !.at = at, !.raw = r, !.flags = g]
<1>1. PICK s : j \in JobType(s)
  BY DEF JobOK
<1>2. n \in JobType(s)
  BY <1>1 DEF Places, JobType
<1>3. n.at = at /\ n.kept = j.kept /\ n.over = j.over /\ n.target = j.target
  BY <1>1 DEF Places, JobType
<1> HIDE DEF n
<1>4. JobOK(n)
  BY <1>2, <1>3 DEF JobOK
<1>. QED  BY <1>4 DEF n

LEMMA MoveLoad ==
  ASSUME NEW j, JobOK(j),
         NEW o, OverrideMap(o), NEW f,
         NEW k \in SUBSET Chapters, Distinct(k)
  PROVE  JobOK([j EXCEPT !.at = "store", !.over = o, !.late = {}, !.score = f, !.kept = k])
<1> DEFINE n == [j EXCEPT !.at = "store", !.over = o, !.late = {}, !.score = f, !.kept = k]
<1>1. PICK s : j \in JobType(s)
  BY DEF JobOK
<1>2. n \in JobType(f)
  BY <1>1 DEF Places, JobType, OverrideMap
<1>3. n.at = "store" /\ n.kept = k /\ n.over = o /\ n.target = j.target
  BY <1>1 DEF Places, JobType
<1> HIDE DEF n
<1>4. JobOK(n)
  BY <1>2, <1>3 DEF JobOK
<1>. QED  BY <1>4 DEF n

LEMMA MoveLate ==
  ASSUME NEW j, JobOK(j), NEW o \in Keys \X Chapters
  PROVE  JobOK([j EXCEPT !.late = @ \cup {o}])
<1> DEFINE n == [j EXCEPT !.late = @ \cup {o}]
<1>1. PICK s : j \in JobType(s)
  BY DEF JobOK
<1>2. n \in JobType(s)
  BY <1>1 DEF Places, JobType
<1>3. n.at = j.at /\ n.kept = j.kept /\ n.over = j.over /\ n.target = j.target
  BY <1>1 DEF Places, JobType
<1> HIDE DEF n
<1>4. JobOK(n)
  BY <1>2, <1>3 DEF JobOK
<1>. QED  BY <1>4 DEF n

LEMMA MoveChosen ==
  ASSUME NEW j, JobOK(j),
         NEW o, OverrideMap(o),
         \A c \in j.target : <<Number(c), c>> \in o
  PROVE  JobOK([j EXCEPT !.at = "chosen", !.over = o])
<1> DEFINE n == [j EXCEPT !.at = "chosen", !.over = o]
<1>1. PICK s : j \in JobType(s)
  BY DEF JobOK
<1>2. n \in JobType(s)
  BY <1>1 DEF Places, JobType, OverrideMap
<1>3. n.at = "chosen" /\ n.kept = j.kept /\ n.over = o /\ n.target = j.target
  BY <1>1 DEF Places, JobType
<1> HIDE DEF n
<1>4. JobOK(n)
  BY <1>2, <1>3 DEF JobOK
<1>. QED  BY <1>4 DEF n

LEMMA StartChoice ==
  ASSUME NEW at \in Places, at # "chosen",
         NEW c \in Chapters,
         NEW g \in SUBSET Chapters,
         NEW l \in SUBSET Chapters
  PROVE  JobOK([Idle EXCEPT !.at = at, !.target = {c}, !.flags = g, !.all = l])
<1> DEFINE n == [Idle EXCEPT !.at = at, !.target = {c}, !.flags = g, !.all = l]
<1>1. PICK s : Idle \in JobType(s)
  BY IdleOK DEF JobOK
<1>2. n \in JobType(s)
  BY <1>1 DEF Places, JobType
<1>3. n.at = at /\ n.kept = Idle.kept /\ n.over = Idle.over /\ n.target = {c}
  BY <1>1 DEF Places, JobType
<1>4. Idle.over = {} /\ Idle.kept = {} /\ Idle.target = {} /\ Distinct({}) /\ OverrideMap({})
  BY DEF Idle, Distinct, OverrideMap
<1> HIDE DEF n
<1>5. JobOK(n)
  BY <1>2, <1>3, <1>4 DEF JobOK
<1>. QED  BY <1>5 DEF n

LEMMA StartCut ==
  ASSUME NEW at \in Places, at # "chosen",
         NEW c \in Chapters
  PROVE  JobOK([Idle EXCEPT !.at = at, !.target = {c}])
<1> DEFINE n == [Idle EXCEPT !.at = at, !.target = {c}]
<1>1. PICK s : Idle \in JobType(s)
  BY IdleOK DEF JobOK
<1>2. n \in JobType(s)
  BY <1>1 DEF Places, JobType
<1>3. n.at = at /\ n.kept = Idle.kept /\ n.over = Idle.over /\ n.target = {c}
  BY <1>1 DEF Places, JobType
<1>4. Idle.over = {} /\ Idle.kept = {} /\ Idle.target = {} /\ Distinct({}) /\ OverrideMap({})
  BY DEF Idle, Distinct, OverrideMap
<1> HIDE DEF n
<1>5. JobOK(n)
  BY <1>2, <1>3, <1>4 DEF JobOK
<1>. QED  BY <1>5 DEF n

LEMMA StartClear ==
  ASSUME NEW at \in Places, at # "chosen",
         NEW o, OverrideMap(o),
         NEW k \in Keys
  PROVE  JobOK([Idle EXCEPT !.at = at, !.over = o, !.by = {k}])
<1> DEFINE n == [Idle EXCEPT !.at = at, !.over = o, !.by = {k}]
<1>1. PICK s : Idle \in JobType(s)
  BY IdleOK DEF JobOK
<1>2. n \in JobType(s)
  BY <1>1 DEF Places, JobType, OverrideMap
<1>3. n.at = at /\ n.kept = Idle.kept /\ n.over = o /\ n.target = Idle.target
  BY <1>1 DEF Places, JobType
<1>4. Idle.over = {} /\ Idle.kept = {} /\ Idle.target = {} /\ Distinct({}) /\ OverrideMap({})
  BY DEF Idle, Distinct, OverrideMap
<1> HIDE DEF n
<1>5. JobOK(n)
  BY <1>2, <1>3, <1>4 DEF JobOK
<1>. QED  BY <1>5 DEF n

LEMMA StartPurge ==
  ASSUME NEW at \in Places, at # "chosen",
         NEW p \in Providers
  PROVE  JobOK([Idle EXCEPT !.at = at, !.by = {p}])
<1> DEFINE n == [Idle EXCEPT !.at = at, !.by = {p}]
<1>1. PICK s : Idle \in JobType(s)
  BY IdleOK DEF JobOK
<1>2. n \in JobType(s)
  BY <1>1 DEF Places, JobType
<1>3. n.at = at /\ n.kept = Idle.kept /\ n.over = Idle.over /\ n.target = Idle.target
  BY <1>1 DEF Places, JobType
<1>4. Idle.over = {} /\ Idle.kept = {} /\ Idle.target = {} /\ Distinct({}) /\ OverrideMap({})
  BY DEF Idle, Distinct, OverrideMap
<1> HIDE DEF n
<1>5. JobOK(n)
  BY <1>2, <1>3, <1>4 DEF JobOK
<1>. QED  BY <1>5 DEF n

LEMMA Stepped ==
  ASSUME JobInv, NEW u \in Users, NEW j, JobOK(j), Step(u, j)
  PROVE  JobInv'
<1>1. job' = [v \in Users |-> IF v = u THEN j ELSE job[v]]
  BY DEF Step, JobInv
<1>2. \A v \in Users : job'[v] = IF v = u THEN j ELSE job[v]
  BY <1>1
<1>3. job' = [v \in Users |-> job'[v]]
  BY <1>1
<1>4. \A v \in Users : JobOK(job'[v])
  BY <1>2 DEF JobInv
<1>. QED  BY <1>3, <1>4 DEF JobInv

LEMMA MapParts ==
  ASSUME NEW O, OverrideMap(O), NEW P \in SUBSET O
  PROVE  OverrideMap(P)
  BY DEF OverrideMap

LEMMA MapChosen ==
  ASSUME NEW O, OverrideMap(O), NEW c \in Chapters, NEW flags
  PROVE  OverrideMap((O \ Displaced(O, c, flags)) \cup {<<Number(c), c>>})
<1> DEFINE n == <<Number(c), c>>
<1>1. \A o \in O \ Displaced(O, c, flags) : o \in O /\ o[1] # Number(c)
  BY DEF Displaced
<1>2. n \in Keys \X Chapters /\ n[1] = Number(c) /\ n[2] = c
  BY OverrideKeys
<1>. QED  BY <1>1, <1>2 DEF OverrideMap

LEMMA CurrentIsDistinct ==
  ASSUME NEW L, NEW M \in Current(L)
  PROVE  M \subseteq L /\ Distinct(M)
  BY DEF Current, Distinct

LEMMA OverriddenIn ==
  ASSUME NEW L, NEW over, NEW raw, NEW all, NEW flags,
         NEW cl \in Overridden(L, over, raw, all, flags)
  PROVE  cl \subseteq L \cup raw
  BY DEF Overridden

LEMMA PreservedIn == ASSUME NEW L, NEW K PROVE Preserved(L, K) \subseteq L \cup K
  BY DEF Preserved

LEMMA BaseInit == Init => BaseInv
<1> SUFFICES ASSUME Init  PROVE BaseInv
  OBVIOUS
<1>1. JobInv
  BY IdleOK DEF Init, JobInv
<1>2. TypeOK
  <2>1. rows \in SUBSET Chapters /\ edits \in 0..MaxEdits
    BY CanonicalAssumption DEF Init
  <2>. QED  BY <2>1 DEF Init, TypeOK
<1>3. OverrideSurvives
  BY DEF Init, OverrideSurvives
<1>4. LateInv
  BY DEF Init, LateInv, Keeps
<1>. QED  BY <1>1, <1>2, <1>3, <1>4 DEF BaseInv

LEMMA CoreNext == BaseInv /\ [Next]_vars => CoreInv'
<1> SUFFICES ASSUME BaseInv, [Next]_vars  PROVE CoreInv'
  OBVIOUS
<1>. USE DEF BaseInv, CoreInv
<1>a. /\ rows \subseteq Chapters
      /\ extra \subseteq rows /\ manual \subseteq rows /\ have \subseteq rows
      /\ off \subseteq Providers /\ frozen \in BOOLEAN /\ rules \subseteq QualityRules
      /\ list \subseteq Chapters /\ OverrideMap(overrides)
      /\ edits \in 0..MaxEdits
  BY DEF TypeOK, OverrideMap
<1>b. ASSUME rows' \subseteq Chapters,
             extra' \subseteq rows', manual' \subseteq rows', have' \subseteq rows',
             off' \subseteq Providers, frozen' \in BOOLEAN, rules' \subseteq QualityRules,
             list' \subseteq Chapters, OverrideMap(overrides'),
             edits' \in 0..MaxEdits
      PROVE  TypeOK'
  BY <1>b DEF TypeOK, OverrideMap
<1>c. \A kind : Edit(kind) => edits' \in 0..MaxEdits
  BY <1>a, CanonicalAssumption DEF Edit
<1>d. MaxEdits \in Nat
  BY CanonicalAssumption
<1>e. UNCHANGED table => /\ rows' = rows /\ extra' = extra
                         /\ manual' = manual /\ have' = have
  BY DEF table
<1>f. UNCHANGED config => off' = off /\ frozen' = frozen /\ rules' = rules
  BY DEF config
<1>g. UNCHANGED entry => list' = list /\ overrides' = overrides
  BY DEF entry
<1>i. ASSUME NEW u \in Users  PROVE JobOK(job[u])
  BY DEF JobInv
<1>1. ASSUME NEW u \in Users, Rescan(u)  PROVE CoreInv'
  <2>1. JobOK([Idle EXCEPT !.at = "read"])
    BY IdleOK, MoveAt DEF Places
  <2>2. JobInv'
    BY <1>1, <2>1, Stepped DEF Rescan
  <2>. QED  BY <1>1, <2>2, <1>a, <1>b, <1>e, <1>f, <1>g DEF Rescan
<1>2. ASSUME NEW u \in Users, Read(u)  PROVE CoreInv'
  <2>1. JobOK([job[u] EXCEPT !.at = "filter", !.raw = rows, !.flags = extra])
    BY <1>i, <1>a, MoveRead DEF Places
  <2>2. JobInv'
    BY <1>2, <2>1, Stepped DEF Read
  <2>. QED  BY <1>2, <2>2, <1>a, <1>b, <1>e, <1>f, <1>g DEF Read
<1>3. ASSUME NEW u \in Users, Filter(u)  PROVE CoreInv'
  <2> DEFINE all == Filtered(job[u].raw, off)
  <2>1. all \subseteq Chapters
    BY <1>i, FilteredIsRead DEF JobOK, JobType
  <2>2. JobOK([job[u] EXCEPT !.at = "load", !.all = all])
    <3> HIDE DEF all
    <3> QED  BY <1>i, <2>1, MoveAll DEF Places
  <2>3. Step(u, [job[u] EXCEPT !.at = "load", !.all = all])
    BY <1>3 DEF Filter
  <2>4. JobInv'
    <3> HIDE DEF all
    <3> QED  BY <2>2, <2>3, Stepped
  <2>5. extra' \subseteq rows /\ rows' = rows /\ manual' = manual /\ have' = have
        /\ edits' = edits
    BY <1>3 DEF Filter
  <2>. QED  BY <1>3, <2>4, <2>5, <1>a, <1>b, <1>f, <1>g DEF Filter
<1>4. ASSUME NEW u \in Users, Load(u)  PROVE CoreInv'
  <2>1. PICK current \in IF frozen THEN Current(list \cap rows) ELSE {{}} :
          Step(u, [job[u] EXCEPT !.at = "store", !.over = overrides, !.late = {},
                                 !.score = Scores(job[u].all),
                                 !.kept = current \cap have])
    BY <1>4 DEF Load
  <2>2. current \cap have \subseteq Chapters /\ Distinct(current \cap have)
    BY <2>1, <1>a, CurrentIsDistinct DEF Distinct
  <2>3. JobOK([job[u] EXCEPT !.at = "store", !.over = overrides, !.late = {},
                             !.score = Scores(job[u].all),
                             !.kept = current \cap have])
    BY <1>i, <1>a, <2>2, MoveLoad
  <2>4. JobInv'
    BY <2>1, <2>3, Stepped
  <2>. QED  BY <1>4, <2>4, <1>a, <1>b, <1>e, <1>f, <1>g DEF Load
<1>5. ASSUME NEW u \in Users, Store(u)  PROVE CoreInv'
  <2>1. JobInv'
    BY <1>5, IdleOK, Stepped DEF Store
  <2>2. list' \subseteq Chapters
    <3>1. list' \in Results(u)
      BY <1>5 DEF Store
    <3>2. PICK L \in AutoLists(job[u].all, job[u].flags, job[u].score) :
            list' \in Overridden(Preserved(L, job[u].kept), job[u].over, job[u].raw,
                                  job[u].all, job[u].flags)
      BY <3>1 DEF Results
    <3>3. L \subseteq job[u].all
      BY <3>2, AutoListed
    <3>4. list' \subseteq Preserved(L, job[u].kept) \cup job[u].raw
      BY <3>2, OverriddenIn
    <3>5. Preserved(L, job[u].kept) \subseteq L \cup job[u].kept
      BY PreservedIn
    <3>. QED  BY <1>i, <3>3, <3>4, <3>5 DEF JobOK, JobType
  <2>3. OverrideMap(overrides')
    <3>1. OverrideMap(job[u].over)
      BY <1>i DEF JobOK
    <3>2. overrides' = {o \in job[u].over : o[2] \in job[u].raw}
      BY <1>5 DEF Store, Pruned
    <3>. QED  BY <3>1, <3>2, MapParts
  <2>. QED  BY <1>5, <2>1, <2>2, <2>3, <1>a, <1>b, <1>e, <1>f DEF Store
<1>6. ASSUME NEW u \in Users, NEW c \in Chapters, Add(u, c)  PROVE CoreInv'
  <2>1. JobOK([Idle EXCEPT !.at = "read"])
    BY IdleOK, MoveAt DEF Places
  <2>2. JobInv'
    BY <1>6, <2>1, Stepped DEF Add
  <2>. QED  BY <1>6, <2>2, <1>a, <1>b, <1>c, <1>f, <1>g DEF Add
<1>7. ASSUME NEW u \in Users, NEW c \in Chapters, ChooseRead(u, c)  PROVE CoreInv'
  <2> DEFINE stay == {d \in list \cap rows : ~Competes(d, c, extra)}
             cl == stay \cup Brings(c, rows, extra)
  <2>1. cl \subseteq Chapters
    BY <1>a DEF Brings, Siblings
  <2>2. JobOK([Idle EXCEPT !.at = "choose", !.target = {c}, !.flags = extra, !.all = cl])
    <3> HIDE DEF cl
    <3> QED  BY <1>a, <2>1, StartChoice DEF Places
  <2>3. Step(u, [Idle EXCEPT !.at = "choose", !.target = {c}, !.flags = extra, !.all = cl])
    BY <1>7 DEF ChooseRead
  <2>4. JobInv'
    <3> HIDE DEF cl
    <3> QED  BY <2>2, <2>3, Stepped
  <2>. QED  BY <1>7, <2>4, <1>a, <1>b, <1>c, <1>e, <1>f, <1>g DEF ChooseRead
<1>8. ASSUME NEW u \in Users, NEW c \in Chapters, DeleteRow(u, c)  PROVE CoreInv'
  <2>1. JobOK([Idle EXCEPT !.at = "cut", !.target = {c}])
    BY StartCut DEF Places
  <2>2. JobInv'
    BY <1>8, <2>1, Stepped DEF DeleteRow
  <2>. QED  BY <1>8, <2>2, <1>a, <1>b, <1>c, <1>f, <1>g DEF DeleteRow, Keep
<1>9. ASSUME NEW u \in Users, NEW p \in Providers, Switch(u, p)  PROVE CoreInv'
  <2> DEFINE j == IF p \in off THEN [Idle EXCEPT !.at = "read"]
                  ELSE [Idle EXCEPT !.at = "purge", !.by = {p}]
  <2>1. JobOK(j)
    BY IdleOK, MoveAt, StartPurge DEF Places
  <2>2. JobInv'
    <3>1. Step(u, j)
      BY <1>9 DEF Switch
    <3> HIDE DEF j
    <3> QED  BY <3>1, <2>1, Stepped
  <2>. QED  BY <1>9, <2>2, <1>a, <1>b, <1>c, <1>e, <1>g DEF Switch
<1>10. ASSUME NEW u \in Users, NEW k \in Keys, ClearRead(u, k)  PROVE CoreInv'
  <2>1. OverrideMap({o \in overrides : o[1] # k})
    BY <1>a, MapParts
  <2>2. JobOK([Idle EXCEPT !.at = "clear", !.over = {o \in overrides : o[1] # k}, !.by = {k}])
    BY <2>1, StartClear DEF Places
  <2>3. JobInv'
    BY <1>10, <2>2, Stepped DEF ClearRead
  <2>. QED  BY <1>10, <2>3, <1>a, <1>b, <1>c, <1>e, <1>f, <1>g DEF ClearRead
<1>11. ASSUME NEW u \in Users, Purge(u)  PROVE CoreInv'
  <2>1. JobOK([Idle EXCEPT !.at = "read"])
    BY IdleOK, MoveAt DEF Places
  <2>2. JobInv'
    BY <1>11, <2>1, Stepped DEF Purge
  <2>3. PICK busy \in SUBSET {c \in rows : Info[c].provider \in job[u].by} :
          Keep({c \in rows : Info[c].provider \notin job[u].by \/ c \in have \cup busy})
    BY <1>11 DEF Purge
  <2>. QED  BY <1>11, <2>2, <2>3, <1>a, <1>b, <1>f, <1>g DEF Purge, Keep
<1>12. ASSUME NEW u \in Users, ClearWrite(u)  PROVE CoreInv'
  <2>1. JobOK([Idle EXCEPT !.at = "read"])
    BY IdleOK, MoveAt DEF Places
  <2>2. JobInv'
    BY <1>12, <2>1, Stepped DEF ClearWrite
  <2>3. OverrideMap(overrides')
    BY <1>12, <1>i DEF ClearWrite, JobOK, JobType
  <2>. QED  BY <1>12, <2>2, <2>3, <1>a, <1>b, <1>e, <1>f DEF ClearWrite
<1>13. ASSUME NEW u \in Users, ChooseLoad(u)  PROVE CoreInv'
  <2>1. PICK c \in job[u].target :
          Step(u, [job[u] EXCEPT !.at = "chosen",
            !.over = (overrides \ Displaced(overrides, c, job[u].flags)) \cup {<<Number(c), c>>}])
    BY <1>13 DEF ChooseLoad
  <2> DEFINE new == (overrides \ Displaced(overrides, c, job[u].flags)) \cup {<<Number(c), c>>}
  <2>2. c \in Chapters /\ \A d \in job[u].target : d = c
    BY <2>1, <1>i DEF JobOK, JobType
  <2>3. OverrideMap(new) /\ <<Number(c), c>> \in new
    BY <2>2, <1>a, MapChosen
  <2>4. JobOK([job[u] EXCEPT !.at = "chosen", !.over = new])
    <3> HIDE DEF new
    <3> QED  BY <1>i, <2>2, <2>3, MoveChosen
  <2>5. JobInv'
    <3>1. Step(u, [job[u] EXCEPT !.at = "chosen", !.over = new])
      BY <2>1
    <3> HIDE DEF new
    <3> QED  BY <3>1, <2>4, Stepped
  <2>. QED  BY <1>13, <2>5, <1>a, <1>b, <1>e, <1>f, <1>g DEF ChooseLoad
<1>14. ASSUME NEW u \in Users, ChooseStore(u)  PROVE CoreInv'
  <2>1. PICK c \in job[u].target :
          job' = [v \in Users |->
            IF v = u THEN Idle
            ELSE IF Stale(v) THEN [job[v] EXCEPT !.late = @ \cup {<<Number(c), c>>}]
            ELSE job[v]]
    BY <1>14 DEF ChooseStore
  <2>2. c \in Chapters /\ <<Number(c), c>> \in Keys \X Chapters
    BY <1>i, <2>1, OverrideKeys DEF JobOK, JobType
  <2>3. ASSUME NEW v \in Users  PROVE JobOK(job'[v])
    <3>1. JobOK([job[v] EXCEPT !.late = @ \cup {<<Number(c), c>>}])
      BY <2>2, <1>i, MoveLate
    <3>. QED  BY <2>1, <3>1, <1>i, IdleOK
  <2>4. JobInv'
    BY <2>1, <2>3 DEF JobInv
  <2>5. list' \subseteq Chapters /\ OverrideMap(overrides')
    BY <1>14, <1>i DEF ChooseStore, JobOK, JobType
  <2>. QED  BY <1>14, <2>4, <2>5, <1>a, <1>b, <1>e, <1>f DEF ChooseStore
<1>15. ASSUME NEW u \in Users, CutRead(u)  PROVE CoreInv'
  <2>1. JobOK([job[u] EXCEPT !.at = "write", !.all = list \ job[u].target])
    BY <1>i, <1>a, MoveAll DEF Places
  <2>2. JobInv'
    BY <1>15, <2>1, Stepped DEF CutRead
  <2>. QED  BY <1>15, <2>2, <1>a, <1>b, <1>e, <1>f, <1>g DEF CutRead
<1>16. ASSUME NEW u \in Users, CutWrite(u)  PROVE CoreInv'
  <2>1. JobInv'
    BY <1>16, IdleOK, Stepped DEF CutWrite
  <2>2. list' \subseteq Chapters /\ overrides' = {}
    BY <1>16, <1>i DEF CutWrite, JobOK, JobType
  <2>3. OverrideMap(overrides')
    BY <2>2 DEF OverrideMap
  <2>. QED  BY <1>16, <2>1, <2>2, <2>3, <1>a, <1>b, <1>e, <1>f DEF CutWrite
<1>17. ASSUME NEW c \in Chapters, ToggleExtra(c)  PROVE CoreInv'
  <2>1. JobInv'
    BY <1>17 DEF ToggleExtra, JobInv
  <2>. QED  BY <1>17, <2>1, <1>a, <1>b, <1>c, <1>f, <1>g DEF ToggleExtra
<1>18. ASSUME NEW c \in Chapters, Download(c)  PROVE CoreInv'
  <2>1. JobInv'
    BY <1>18 DEF Download, JobInv
  <2>. QED  BY <1>18, <2>1, <1>a, <1>b, <1>c, <1>f, <1>g DEF Download
<1>19. ASSUME Freeze  PROVE CoreInv'
  <2>1. JobInv'
    BY <1>19 DEF Freeze, JobInv
  <2>. QED  BY <1>19, <2>1, <1>a, <1>b, <1>c, <1>e, <1>g DEF Freeze
<1>20. ASSUME NEW r \in QualityRules, ChangeRule(r)  PROVE CoreInv'
  <2>1. JobInv'
    BY <1>20 DEF ChangeRule, JobInv
  <2>. QED  BY <1>20, <2>1, <1>a, <1>b, <1>c, <1>e, <1>g DEF ChangeRule
<1>21. ASSUME UNCHANGED vars  PROVE CoreInv'
  <2>1. JobInv'
    BY <1>21 DEF vars, JobInv
  <2>. QED  BY <1>21, <2>1, <1>a, <1>b, <1>e, <1>f, <1>g DEF vars
<1>. QED  BY <1>1, <1>2, <1>3, <1>4, <1>5, <1>6, <1>7, <1>8, <1>9, <1>10, <1>11, <1>12,
             <1>13, <1>14, <1>15, <1>16, <1>17, <1>18, <1>19, <1>20, <1>21 DEF Next

(* Overrides that users have chosen: only ChooseStore adds one, and what    *)
(* the others had read by then is late for it.                             *)
LEMMA KeepsLess ==
  ASSUME NEW j, NEW C, NEW D \in SUBSET C, Keeps(j, C)
  PROVE  Keeps(j, D)
  BY DEF Keeps

LEMMA KeepsOthers ==
  ASSUME JobInv, LateInv, NEW u \in Users, NEW j, Step(u, j), Keeps(j, chosen'),
         chosen' \subseteq chosen
  PROVE  LateInv'
<1>1. ASSUME NEW v \in Users  PROVE Keeps(job'[v], chosen')
  <2>1. Keeps(job[v], chosen')
    BY KeepsLess DEF LateInv
  <2>2. job'[v] = IF v = u THEN j ELSE job[v]
    BY DEF Step, JobInv
  <2>. QED  BY <2>1, <2>2
<1>. QED  BY <1>1 DEF LateInv

LEMMA DisplacedIsReplaced ==
  ASSUME OverrideMap(overrides), NEW c \in Chapters, NEW flags,
         NEW o \in Displaced(overrides, c, flags)
  PROVE  Replaces(c, o, flags)
<1>1. o \in overrides /\ o[2] \in Chapters /\ Number(o[2]) = o[1]
  BY DEF OverrideMap, Displaced
<1>2. Info[o[2]].variant \in 0..9
  BY <1>1, CanonicalAssumption
<1>3. o[1][1] = Info[o[2]].base /\ o[1][2] = Info[o[2]].variant
  BY <1>1 DEF Number
<1>. QED  BY <1>1, <1>2, <1>3 DEF Displaced, Replaces

LEMMA LateNext == BaseInv /\ [Next]_vars => (OverrideSurvives /\ LateInv)'
<1> SUFFICES ASSUME BaseInv, [Next]_vars  PROVE (OverrideSurvives /\ LateInv)'
  OBVIOUS
<1>a. JobInv /\ LateInv /\ chosen \subseteq overrides /\ OverrideMap(overrides)
  BY DEF BaseInv, TypeOK, OverrideMap, OverrideSurvives
<1>b. ASSUME NEW u \in Users
      PROVE  /\ \E s : job[u] \in JobType(s)
             /\ \A c \in job[u].target : job[u].at = "chosen" => <<Number(c), c>> \in job[u].over
             /\ Keeps(job[u], chosen)
  BY <1>a DEF JobInv, JobOK, LateInv
<1>c. ASSUME NEW u \in Users, NEW j, Step(u, j), j.at \notin {"store", "clear", "chosen"},
             chosen' \subseteq chosen
      PROVE  LateInv'
  BY <1>a, <1>c, KeepsOthers DEF Keeps
<1>d. chosen' \subseteq chosen /\ UNCHANGED entry => OverrideSurvives'
  BY <1>a DEF OverrideSurvives, entry
<1>e. UNCHANGED ghost => chosen' = chosen
  BY DEF ghost
<1>f. Idle.at = "idle" /\ \A at : [Idle EXCEPT !.at = at].at = at
  BY DEF Idle
<1>1. ASSUME NEW u \in Users, Rescan(u) \/ \E c \in Chapters : Add(u, c)
      PROVE  (OverrideSurvives /\ LateInv)'
  <2>1. Step(u, [Idle EXCEPT !.at = "read"]) /\ chosen' = chosen /\ UNCHANGED entry
    BY <1>1, <1>e DEF Rescan, Add
  <2>. QED  BY <2>1, <1>c, <1>d, <1>f
<1>2. ASSUME NEW u \in Users, Purge(u)
      PROVE  (OverrideSurvives /\ LateInv)'
  <2>1. Step(u, [Idle EXCEPT !.at = "read"]) /\ chosen' \subseteq chosen /\ UNCHANGED entry
    BY <1>2 DEF Purge
  <2>. QED  BY <2>1, <1>c, <1>d, <1>f
<1>3. ASSUME NEW u \in Users, Read(u) \/ Filter(u) \/ CutRead(u)
      PROVE  (OverrideSurvives /\ LateInv)'
  <2>1. /\ \E j : Step(u, j) /\ j.at \in {"filter", "load", "write"}
        /\ chosen' = chosen /\ UNCHANGED entry
    <3>1. \A r, g : [job[u] EXCEPT !.at = "filter", !.raw = r, !.flags = g].at = "filter"
      BY <1>b DEF JobType
    <3>2. \A l : /\ [job[u] EXCEPT !.at = "load", !.all = l].at = "load"
                 /\ [job[u] EXCEPT !.at = "write", !.all = l].at = "write"
      BY <1>b DEF JobType
    <3>3. CASE Read(u)
      BY <3>3, <3>1, <1>e DEF Read
    <3>4. CASE Filter(u)
      BY <3>4, <3>2 DEF Filter
    <3>5. CASE CutRead(u)
      BY <3>5, <3>2, <1>e DEF CutRead
    <3>. QED  BY <1>3, <3>3, <3>4, <3>5
  <2>2. PICK j : Step(u, j) /\ j.at \in {"filter", "load", "write"}
    BY <2>1
  <2>. QED  BY <2>1, <2>2, <1>c, <1>d
<1>4. ASSUME NEW u \in Users, Load(u)
      PROVE  (OverrideSurvives /\ LateInv)'
  <2>1. PICK current :
          Step(u, [job[u] EXCEPT !.at = "store", !.over = overrides, !.late = {},
                                 !.score = Scores(job[u].all),
                                 !.kept = current \cap have])
    BY <1>4 DEF Load
  <2> DEFINE j == [job[u] EXCEPT !.at = "store", !.over = overrides, !.late = {},
                                 !.score = Scores(job[u].all),
                                 !.kept = current \cap have]
  <2>2. j.at = "store" /\ j.over = overrides
    BY <1>b DEF JobType
  <2>3. chosen' = chosen /\ UNCHANGED entry
    BY <1>4, <1>e DEF Load
  <2>4. Step(u, j)
    BY <2>1
  <2> HIDE DEF j
  <2>5. Keeps(j, chosen')
    BY <2>2, <2>3, <1>a DEF Keeps
  <2>. QED  BY <2>3, <2>4, <2>5, <1>a, <1>d, KeepsOthers
<1>5. ASSUME NEW u \in Users, Store(u)
      PROVE  (OverrideSurvives /\ LateInv)'
  <2>1. /\ overrides' = {o \in job[u].over : o[2] \in job[u].raw}
        /\ chosen' = {o \in chosen \ job[u].late : o[2] \in job[u].raw}
        /\ Step(u, Idle) /\ job[u].at = "store"
    BY <1>5 DEF Store, Pruned
  <2>2. chosen' \subseteq overrides'
    BY <2>1, <1>b DEF Keeps
  <2>3. chosen' \subseteq chosen
    BY <2>1
  <2>. QED  BY <2>1, <2>2, <2>3, <1>c, <1>f DEF OverrideSurvives
<1>6. ASSUME NEW u \in Users, NEW c \in Chapters, ChooseRead(u, c)
      PROVE  (OverrideSurvives /\ LateInv)'
  <2>1. PICK l : Step(u, [Idle EXCEPT !.at = "choose", !.target = {c}, !.flags = extra,
                                      !.all = l])
    BY <1>6 DEF ChooseRead
  <2>2. \A g : [Idle EXCEPT !.at = "choose", !.target = {c}, !.flags = g, !.all = l].at
                  = "choose"
    BY DEF Idle
  <2>3. chosen' = chosen /\ UNCHANGED entry
    BY <1>6, <1>e DEF ChooseRead
  <2>. QED  BY <2>1, <2>2, <2>3, <1>c, <1>d
<1>7. ASSUME NEW u \in Users, NEW c \in Chapters, DeleteRow(u, c)
      PROVE  (OverrideSurvives /\ LateInv)'
  <2>1. Step(u, [Idle EXCEPT !.at = "cut", !.target = {c}])
        /\ chosen' \subseteq chosen /\ UNCHANGED entry
    BY <1>7 DEF DeleteRow
  <2>2. [Idle EXCEPT !.at = "cut", !.target = {c}].at = "cut"
    BY DEF Idle
  <2>. QED  BY <2>1, <2>2, <1>c, <1>d
<1>8. ASSUME NEW u \in Users, NEW p \in Providers, Switch(u, p)
      PROVE  (OverrideSurvives /\ LateInv)'
  <2>1. PICK j : Step(u, j) /\ j.at \in {"read", "purge"}
    <3>1. [Idle EXCEPT !.at = "purge", !.by = {p}].at = "purge"
      BY DEF Idle
    <3>. QED  BY <1>8, <3>1, <1>f DEF Switch
  <2>2. chosen' = chosen /\ UNCHANGED entry
    BY <1>8 DEF Switch
  <2>. QED  BY <2>1, <2>2, <1>c, <1>d
<1>9. ASSUME NEW u \in Users, NEW k \in Keys, ClearRead(u, k)
      PROVE  (OverrideSurvives /\ LateInv)'
  <2> DEFINE j == [Idle EXCEPT !.at = "clear", !.over = {o \in overrides : o[1] # k},
                               !.by = {k}]
  <2>1. Step(u, j) /\ chosen' = chosen /\ UNCHANGED entry
    BY <1>9, <1>e DEF ClearRead
  <2>2. j.at = "clear" /\ j.over = {o \in overrides : o[1] # k} /\ j.by = {k}
    BY DEF Idle
  <2> HIDE DEF j
  <2>3. Keeps(j, chosen')
    BY <2>1, <2>2, <1>a DEF Keeps
  <2>. QED  BY <2>1, <2>3, <1>a, <1>d, KeepsOthers
<1>10. ASSUME NEW u \in Users, ClearWrite(u)
       PROVE  (OverrideSurvives /\ LateInv)'
  <2>1. /\ overrides' = job[u].over /\ job[u].at = "clear"
        /\ chosen' = {o \in chosen \ job[u].late : o[1] \notin job[u].by}
        /\ Step(u, [Idle EXCEPT !.at = "read"])
    BY <1>10 DEF ClearWrite
  <2>2. chosen' \subseteq overrides'
    BY <2>1, <1>b DEF Keeps
  <2>3. chosen' \subseteq chosen
    BY <2>1
  <2>. QED  BY <2>1, <2>2, <2>3, <1>c, <1>f DEF OverrideSurvives
<1>11. ASSUME NEW u \in Users, ChooseLoad(u)
       PROVE  (OverrideSurvives /\ LateInv)'
  <2>1. PICK c \in job[u].target :
          Step(u, [job[u] EXCEPT !.at = "chosen",
            !.over = (overrides \ Displaced(overrides, c, job[u].flags)) \cup {<<Number(c), c>>}])
    BY <1>11 DEF ChooseLoad
  <2> DEFINE new == (overrides \ Displaced(overrides, c, job[u].flags)) \cup {<<Number(c), c>>}
             j == [job[u] EXCEPT !.at = "chosen", !.over = new]
  <2>2. /\ j.at = "chosen" /\ j.over = new
        /\ j.target = job[u].target /\ j.flags = job[u].flags
    BY <1>b DEF JobType
  <2>3. c \in Chapters /\ \A d \in job[u].target : d = c
    BY <2>1, <1>a DEF JobInv, JobOK, JobType
  <2>4. Step(u, j)
    BY <2>1
  <2>5. ASSUME NEW o \in chosen  PROVE o \in new \/ Replaces(c, o, job[u].flags)
    BY <2>3, <1>a, DisplacedIsReplaced
  <2>6. chosen' = chosen /\ UNCHANGED entry
    BY <1>11, <1>e DEF ChooseLoad
  <2> HIDE DEF new, j
  <2>7. Keeps(j, chosen')
    BY <2>2, <2>3, <2>5, <2>6 DEF Keeps
  <2>. QED  BY <2>4, <2>6, <2>7, <1>a, <1>d, KeepsOthers
<1>12. ASSUME NEW u \in Users, ChooseStore(u)
       PROVE  (OverrideSurvives /\ LateInv)'
  <2>1. PICK c \in job[u].target :
          /\ chosen' = (chosen \ (Revoked(c, job[u].flags) \cup job[u].late))
                          \cup {<<Number(c), c>>}
          /\ job' = [v \in Users |->
               IF v = u THEN Idle
               ELSE IF Stale(v) THEN [job[v] EXCEPT !.late = @ \cup {<<Number(c), c>>}]
               ELSE job[v]]
    BY <1>12 DEF ChooseStore
  <2> DEFINE n == <<Number(c), c>>
  <2>2. overrides' = job[u].over /\ job[u].at = "chosen"
    BY <1>12 DEF ChooseStore
  <2>3. OverrideSurvives'
    <3>1. n \in job[u].over
      BY <2>2, <1>b
    <3>2. ASSUME NEW o \in chosen, o \notin Revoked(c, job[u].flags), o \notin job[u].late
          PROVE  o \in job[u].over
      BY <3>2, <2>2, <1>b DEF Keeps, Replaces, Revoked
    <3> HIDE DEF n
    <3>3. chosen' \subseteq job[u].over
      BY <2>1, <3>1, <3>2 DEF n
    <3>. QED  BY <2>2, <3>3 DEF OverrideSurvives
  <2>4. ASSUME NEW v \in Users  PROVE Keeps(job'[v], chosen')
    <3>1. CASE v = u
      BY <2>1, <3>1, <1>f DEF Keeps
    <3>2. CASE v # u /\ ~Stale(v)
      <4>1. job'[v] = job[v]
        BY <2>1, <3>2
      <4>. QED  BY <3>2, <4>1 DEF Stale, Keeps
    <3>3. CASE v # u /\ Stale(v)
      <4> DEFINE j == [job[v] EXCEPT !.late = @ \cup {n}]
      <4>1. job'[v] = j
        BY <2>1, <3>3
      <4>2. /\ j.at = job[v].at /\ j.over = job[v].over /\ j.by = job[v].by
            /\ j.target = job[v].target /\ j.flags = job[v].flags
            /\ j.late = job[v].late \cup {n}
        <5> HIDE DEF n
        <5> QED  BY <1>b DEF JobType
      <4>3. chosen' \ j.late \subseteq chosen \ job[v].late
        BY <2>1, <4>2
      <4> HIDE DEF j, n
      <4>4. Keeps(j, chosen')
        BY <4>2, <4>3, <1>b DEF Keeps
      <4>. QED  BY <4>1, <4>4
    <3>. QED  BY <3>1, <3>2, <3>3
  <2>. QED  BY <2>3, <2>4 DEF LateInv
<1>13. ASSUME NEW u \in Users, CutWrite(u)
       PROVE  (OverrideSurvives /\ LateInv)'
  <2>1. chosen' = {} /\ Step(u, Idle)
    BY <1>13 DEF CutWrite
  <2>. QED  BY <2>1, <1>c, <1>f DEF OverrideSurvives
<1>14. ASSUME \/ \E c \in Chapters : ToggleExtra(c) \/ Download(c)
              \/ Freeze \/ (\E r \in QualityRules : ChangeRule(r))
              \/ UNCHANGED vars
       PROVE  (OverrideSurvives /\ LateInv)'
  <2>1. job' = job /\ chosen' = chosen /\ UNCHANGED entry
    BY <1>14, <1>e DEF ToggleExtra, Download, Freeze, ChangeRule, vars
  <2>. QED  BY <2>1, <1>a, <1>d DEF LateInv
<1>. QED  BY <1>1, <1>2, <1>3, <1>4, <1>5, <1>6, <1>7, <1>8, <1>9, <1>10, <1>11, <1>12,
             <1>13, <1>14 DEF Next

LEMMA BaseNext == BaseInv /\ [Next]_vars => BaseInv'
  BY CoreNext, LateNext DEF CoreInv, BaseInv

(* What update_canonical does to the list it makes depends on the overrides *)
(* of rows that exist only, so the pruned map gives the same list.         *)
LEMMA PrunedIsEnough ==
  ASSUME NEW L, NEW over, NEW raw, NEW all, NEW flags
  PROVE  Overridden(L, Pruned(over, raw), raw, all, flags) = Overridden(L, over, raw, all, flags)
<1>1. Applied(Pruned(over, raw), raw, all) = Applied(over, raw, all)
  BY DEF Applied, Pruned
<1>. QED  BY <1>1 DEF Overridden

LEMMA FreshStays ==
  ASSUME FreshInv,
         fresh' => /\ fresh /\ list' = list /\ overrides' = overrides /\ rows' = rows
                   /\ off' = off /\ extra' = extra /\ have \subseteq have'
  PROVE  FreshInv'
<1> SUFFICES ASSUME fresh'
             PROVE  MadeFrom(list, overrides, rows, Filtered(rows, off), extra, have')
  BY DEF FreshInv
<1>1. MadeFrom(list, overrides, rows, Filtered(rows, off), extra, have)
  BY DEF FreshInv
<1>2. have \subseteq have'
  OBVIOUS
<1>. QED  BY <1>1, <1>2 DEF MadeFrom

LEMMA FreshInit == Init => FreshInv
  BY DEF Init, FreshInv

LEMMA FreshNext == BaseInv /\ FreshInv /\ [Next]_vars => FreshInv'
<1> SUFFICES ASSUME BaseInv, FreshInv, [Next]_vars  PROVE FreshInv'
  OBVIOUS
<1>1. ASSUME NEW u \in Users, Store(u)  PROVE FreshInv'
  <2> SUFFICES ASSUME fresh'  PROVE FreshInv'
    BY DEF FreshInv
  <2>1. /\ job[u].raw = rows /\ job[u].flags = extra
        /\ job[u].all = Filtered(rows, off) /\ job[u].kept \subseteq have
    BY <1>1 DEF Store, UpToDate
  <2>2. /\ rows' = rows /\ extra' = extra /\ have' = have /\ off' = off
        /\ overrides' = Pruned(job[u].over, rows)
    BY <1>1, <2>1 DEF Store, table, config
  <2>3. Distinct(job[u].kept)
    BY DEF BaseInv, JobInv, JobOK
  <2>4. PICK L \in AutoLists(job[u].all, job[u].flags, job[u].score) :
          list' \in Overridden(Preserved(L, job[u].kept), job[u].over, job[u].raw,
                               job[u].all, job[u].flags)
    BY <1>1 DEF Store, Results
  <2>5. list' \in Overridden(Preserved(L, job[u].kept), overrides', rows,
                             Filtered(rows, off), extra)
    BY <2>1, <2>2, <2>4, PrunedIsEnough
  <2>6. MadeFrom(list', overrides', rows, Filtered(rows, off), extra, have)
    BY <2>1, <2>3, <2>4, <2>5 DEF MadeFrom
  <2>. QED  BY <2>2, <2>6 DEF FreshInv
<1>2. ASSUME NEW u \in Users, Filter(u)  PROVE FreshInv'
  BY <1>2, FreshStays DEF Filter, config, entry
<1>3. ASSUME NEW c \in Chapters, Download(c)  PROVE FreshInv'
  BY <1>3, FreshStays DEF Download, config, entry, ghost
<1>4. ASSUME NEW u \in Users,
             \/ Rescan(u) \/ Read(u) \/ Load(u) \/ ChooseLoad(u) \/ CutRead(u)
             \/ \E c \in Chapters : ChooseRead(u, c)
             \/ \E k \in Keys : ClearRead(u, k)
      PROVE  FreshInv'
  <2>1. UNCHANGED <<table, config, entry, ghost>>
    BY <1>4 DEF Rescan, Read, Load, ChooseLoad, CutRead, ChooseRead, ClearRead
  <2>. QED  BY <2>1, FreshStays DEF table, config, entry, ghost
<1>5. ASSUME Freeze \/ UNCHANGED vars  PROVE FreshInv'
  BY <1>5, FreshStays DEF Freeze, vars, table, config, entry, ghost
<1>6. ASSUME \/ \E u \in Users : \/ Purge(u) \/ ClearWrite(u) \/ ChooseStore(u) \/ CutWrite(u)
                                 \/ \E c \in Chapters : Add(u, c) \/ DeleteRow(u, c)
                                 \/ \E p \in Providers : Switch(u, p)
             \/ \E c \in Chapters : ToggleExtra(c)
             \/ \E r \in QualityRules : ChangeRule(r)
      PROVE  FreshInv'
  <2>1. ~fresh'
    BY <1>6 DEF Purge, ClearWrite, ChooseStore, CutWrite, Add, DeleteRow, Switch,
                ToggleExtra, ChangeRule
  <2>. QED  BY <2>1 DEF FreshInv
<1>. QED  BY <1>1, <1>2, <1>3, <1>4, <1>5, <1>6 DEF Next

-----------------------------------------------------------------------------
(* What a fresh list promises.                                             *)

(* The overrides of one group compete, and what a choice brings is of its  *)
(* group.                                                                  *)
LEMMA GroupCompetes ==
  ASSUME NEW c \in Chapters, NEW d \in Chapters, NEW flags,
         OverrideGroup(c, flags) = OverrideGroup(d, flags)
  PROVE  Competes(c, d, flags)
<1>1. Info[c].variant \in 0..9 /\ Info[d].variant \in 0..9
  BY CanonicalAssumption
<1>2. Info[c].base = Info[d].base
  BY DEF OverrideGroup
<1>3. CASE StandsAlone(d, flags)
  <2>1. Info[c].variant = Info[d].variant
    BY <1>1, <1>3 DEF OverrideGroup
  <2>. QED  BY <1>2, <1>3, <2>1 DEF Competes, Number
<1>4. CASE ~StandsAlone(d, flags)
  <2>1. ~StandsAlone(c, flags)
    BY <1>1, <1>4 DEF OverrideGroup
  <2>. QED  BY <1>2, <1>4, <2>1 DEF Competes
<1>. QED  BY <1>3, <1>4

LEMMA GroupOfNumber ==
  ASSUME NEW c, NEW d, NEW flags, Number(c) = Number(d), c \in flags <=> d \in flags
  PROVE  OverrideGroup(c, flags) = OverrideGroup(d, flags)
  BY DEF OverrideGroup, StandsAlone, Number

LEMMA GroupOfBrought ==
  ASSUME NEW c \in Chapters, NEW raw \in SUBSET Chapters, NEW flags,
         NEW d \in Brings(c, raw, flags)
  PROVE  d \in Chapters /\ OverrideGroup(d, flags) = OverrideGroup(c, flags)
<1>1. CASE d = c
  BY <1>1
<1>2. CASE d # c
  <2>1. ~StandsAlone(c, flags) /\ d \in Siblings(c, raw)
        /\ Info[d].variant \in 1..4 /\ d \notin flags
    BY <1>2 DEF Brings
  <2>2. ~StandsAlone(d, flags)
    BY <2>1 DEF StandsAlone
  <2>3. Info[d].base = Info[c].base /\ d \in Chapters
    BY <2>1 DEF Siblings
  <2>. QED  BY <2>1, <2>2, <2>3 DEF OverrideGroup
<1>. QED  BY <1>1, <1>2

LEMMA OneFirst ==
  ASSUME NEW O, NEW flags, NEW F \in Firsts(O, flags)
  PROVE  /\ F \subseteq O
         /\ \A c \in O : \E d \in F : OverrideGroup(d, flags) = OverrideGroup(c, flags)
         /\ \A d, e \in F : OverrideGroup(d, flags) = OverrideGroup(e, flags) => d = e
<1>1. F \subseteq O /\ \A c \in O : \E d \in F :
        {e \in F : OverrideGroup(e, flags) = OverrideGroup(c, flags)} = {d}
  BY DEF Firsts
<1>2. ASSUME NEW d \in F, NEW e \in F, OverrideGroup(d, flags) = OverrideGroup(e, flags)
      PROVE  d = e
  <2>1. PICK x \in F : {y \in F : OverrideGroup(y, flags) = OverrideGroup(e, flags)} = {x}
    BY <1>1
  <2>2. d \in {y \in F : OverrideGroup(y, flags) = OverrideGroup(e, flags)}
    BY <1>2
  <2>3. e \in {y \in F : OverrideGroup(y, flags) = OverrideGroup(e, flags)}
    OBVIOUS
  <2>. QED  BY <2>1, <2>2, <2>3
<1>3. ASSUME NEW c \in O
      PROVE  \E d \in F : OverrideGroup(d, flags) = OverrideGroup(c, flags)
  <2>1. PICK x \in F : {y \in F : OverrideGroup(y, flags) = OverrideGroup(c, flags)} = {x}
    BY <1>1
  <2>. QED  BY <2>1
<1>. QED  BY <1>1, <1>2, <1>3

(* The list is what the overrides that are applied left, and what those    *)
(* brought that no later one evicted.                                      *)
Evicts(c, d, all, flags) == d \in all /\ Competes(d, c, flags)

Remains(cl, P, F, r, raw, all, flags) ==
  \A d : d \in cl <=>
    \/ d \in P /\ \A c \in F : ~Evicts(c, d, all, flags)
    \/ /\ d \in raw
       /\ \E c \in F : /\ d \in Brings(c, raw, flags)
                       /\ \A e \in F : r[e] > r[c] => ~Evicts(e, d, all, flags)

LEMMA OverriddenMeans ==
  ASSUME NEW P, NEW over, NEW raw, NEW all, NEW flags,
         NEW cl \in Overridden(P, over, raw, all, flags)
  PROVE  \E F \in Firsts(Applied(over, raw, all), flags) : \E r \in Orders(F) :
           Remains(cl, P, F, r, raw, all, flags)
<1> DEFINE left(F) == {d \in P : \A c \in F : ~(d \in all /\ Competes(d, c, flags))}
           brought(F, r) == {d \in raw : \E c \in F :
                               /\ d \in Brings(c, raw, flags)
                               /\ \A e \in F : r[e] > r[c] => ~(d \in all /\ Competes(d, e, flags))}
<1>1. PICK F \in Firsts(Applied(over, raw, all), flags) :
        cl \in {left(F) \cup brought(F, r) : r \in Orders(F)}
  BY DEF Overridden
<1>2. PICK r \in Orders(F) : cl = left(F) \cup brought(F, r)
  BY <1>1
<1>3. Remains(cl, P, F, r, raw, all, flags)
  BY <1>2 DEF Remains, Evicts
<1>. QED  BY <1>3

LEMMA MadeMeans ==
  ASSUME NEW cl, NEW over, NEW raw, NEW all, NEW flags, NEW kept,
         MadeFrom(cl, over, raw, all, flags, kept)
  PROVE  \E K, S : /\ K \in SUBSET kept /\ Distinct(K)
                   /\ \E L \in AutoLists(all, flags, S) :
                        \E F \in Firsts(Applied(over, raw, all), flags) :
                          \E r \in Orders(F) :
                            Remains(cl, Preserved(L, K), F, r, raw, all, flags)
<1>1. PICK K \in SUBSET kept : Distinct(K) /\
        \E S : \E L \in AutoLists(all, flags, S) :
          cl \in Overridden(Preserved(L, K), over, raw, all, flags)
  BY DEF MadeFrom
<1>2. PICK S : \E L \in AutoLists(all, flags, S) :
          cl \in Overridden(Preserved(L, K), over, raw, all, flags)
  BY <1>1
<1>3. PICK L \in AutoLists(all, flags, S) :
          cl \in Overridden(Preserved(L, K), over, raw, all, flags)
  BY <1>2
<1>4. \E F \in Firsts(Applied(over, raw, all), flags) : \E r \in Orders(F) :
        Remains(cl, Preserved(L, K), F, r, raw, all, flags)
  BY <1>3, OverriddenMeans
<1>. QED  BY <1>1, <1>4

LEMMA OrderIsIrreflexive ==
  ASSUME NEW F, NEW r \in Orders(F), NEW c \in F
  PROVE  ~(r[c] > r[c])
<1>1. r \in [F -> 1..Cardinality(F)]
  BY DEF Orders
<1>2. r[c] \in Int
  BY <1>1
<1>. QED  BY <1>2

-----------------------------------------------------------------------------
LEMMA DoublesExcluded == BaseInv /\ FreshInv => NoDoubles
<1> SUFFICES ASSUME BaseInv, FreshInv, fresh, NEW c \in list, NEW d \in list,
                    Number(c) = Number(d), c \in extra <=> d \in extra
             PROVE  \/ c = d
                    \/ \E o \in overrides : {c, d} \subseteq Brings(o[2], rows, extra)
                    \/ \E e \in {c, d} \cap have : e \notin Filtered(rows, off)
  BY DEF NoDoubles
<1> DEFINE all == Filtered(rows, off)
<1>1. PICK K, S : /\ K \in SUBSET have /\ Distinct(K)
                  /\ \E L \in AutoLists(all, extra, S) :
                       \E F \in Firsts(Applied(overrides, rows, all), extra) :
                         \E r \in Orders(F) :
                           Remains(list, Preserved(L, K), F, r, rows, all, extra)
  BY MadeMeans DEF FreshInv
<1>2. PICK L \in AutoLists(all, extra, S),
           F \in Firsts(Applied(overrides, rows, all), extra) :
             \E r \in Orders(F) : Remains(list, Preserved(L, K), F, r, rows, all, extra)
  BY <1>1
<1>r. PICK r \in Orders(F) : Remains(list, Preserved(L, K), F, r, rows, all, extra)
  BY <1>2
<1>3. rows \subseteq Chapters /\ list \subseteq Chapters
  BY DEF BaseInv, TypeOK
<1>4. L \subseteq all
  BY <1>2, AutoListed
<1>5. ASSUME NEW x \in F  PROVE x \in Chapters /\ \E o \in overrides : o[2] = x
  <2>1. x \in Applied(overrides, rows, all)
    BY <1>2, OneFirst
  <2>. QED  BY <2>1, <1>3 DEF Applied
<1> HIDE DEF all
<1> DEFINE Left(x)       == x \in Preserved(L, K) /\ \A e \in F : ~Evicts(e, x, all, extra)
           Brought(x, y) == x \in F /\ y \in Brings(x, rows, extra)
<1>6. (Left(c) \/ \E x : Brought(x, c)) /\ (Left(d) \/ \E x : Brought(x, d))
  BY <1>r DEF Remains
<1>7. OverrideGroup(c, extra) = OverrideGroup(d, extra)
  BY GroupOfNumber
<1>8. CASE Left(c) /\ Left(d)
  <2>1. c \in Preserved(L, K) /\ d \in Preserved(L, K)
    BY <1>8
  <2>2. (c \in L /\ d \in L) \/ (c \in K /\ d \in K)
    BY <2>1 DEF Preserved
  <2>3. c \in L /\ d \in L => c = d
    BY <1>2, AutoDiffer
  <2>4. c \in K /\ d \in K => c = d
    BY <1>1 DEF Distinct
  <2>. QED  BY <2>2, <2>3, <2>4
<1>9. ASSUME NEW y \in {c, d}, NEW z \in {c, d}, NEW x, Left(y), Brought(x, z)
      PROVE  y \in have /\ y \notin all
  <2>1. OverrideGroup(y, extra) = OverrideGroup(x, extra)
    BY <1>3, <1>5, <1>7, <1>9, GroupOfBrought
  <2>2. Competes(y, x, extra)
    BY <1>3, <1>5, <1>9, <2>1, GroupCompetes
  <2>3. y \notin all
    BY <1>9, <2>2 DEF Evicts
  <2>4. y \in K
    BY <1>4, <1>9, <2>3 DEF Preserved
  <2>. QED  BY <1>1, <2>3, <2>4
<1>10. ASSUME NEW x, NEW y, Brought(x, c), Brought(y, d)
       PROVE  \E o \in overrides : {c, d} \subseteq Brings(o[2], rows, extra)
  <2>1. OverrideGroup(x, extra) = OverrideGroup(y, extra)
    BY <1>3, <1>5, <1>7, <1>10, GroupOfBrought
  <2>2. x = y
    BY <1>2, <1>10, <2>1, OneFirst
  <2>3. PICK o \in overrides : o[2] = x
    BY <1>5, <1>10
  <2>. QED  BY <1>10, <2>2, <2>3
<1>. QED  BY <1>6, <1>8, <1>9, <1>10 DEF all

LEMMA ChoicesListed == BaseInv /\ FreshInv => ChoiceIsListed
<1> SUFFICES ASSUME BaseInv, FreshInv, fresh, NEW o \in overrides, o[2] \in rows,
                    \A q \in overrides \ {o} : ~Competes(o[2], q[2], extra)
             PROVE  o[2] \in list
  BY DEF ChoiceIsListed
<1> DEFINE all == Filtered(rows, off)
<1>1. PICK K, S : /\ K \in SUBSET have /\ Distinct(K)
                  /\ \E L \in AutoLists(all, extra, S) :
                       \E F \in Firsts(Applied(overrides, rows, all), extra) :
                         \E r \in Orders(F) :
                           Remains(list, Preserved(L, K), F, r, rows, all, extra)
  BY MadeMeans DEF FreshInv
<1>2. PICK L \in AutoLists(all, extra, S),
           F \in Firsts(Applied(overrides, rows, all), extra) :
             \E r \in Orders(F) : Remains(list, Preserved(L, K), F, r, rows, all, extra)
  BY <1>1
<1>r. PICK r \in Orders(F) : Remains(list, Preserved(L, K), F, r, rows, all, extra)
  BY <1>2
<1>3. rows \subseteq Chapters
  BY DEF BaseInv, TypeOK
<1> HIDE DEF all
<1>4. ASSUME NEW x \in F, x # o[2]
      PROVE  x \in Chapters /\ ~Competes(o[2], x, extra)
  <2>1. x \in Applied(overrides, rows, all)
    BY <1>2, OneFirst
  <2>2. PICK q \in overrides : q[2] = x /\ x \in rows
    BY <2>1 DEF Applied
  <2>. QED  BY <1>3, <1>4, <2>2
<1>5. o[2] \in F
  <2>1. o[2] \in Applied(overrides, rows, all)
    BY DEF Applied
  <2>2. PICK x \in F : OverrideGroup(x, extra) = OverrideGroup(o[2], extra)
    BY <1>2, <2>1, OneFirst
  <2>. QED  BY <1>3, <1>4, <2>2, GroupCompetes
<1>6. o[2] \in Brings(o[2], rows, extra)
  BY DEF Brings
<1>7. \A e \in F : r[e] > r[o[2]] => ~Evicts(e, o[2], all, extra)
  BY <1>r, <1>4, <1>5, OrderIsIrreflexive DEF Evicts
<1>. QED  BY <1>r, <1>5, <1>6, <1>7 DEF Remains

(* A row of the same slot: the whole chapter and its parts share one, an   *)
(* extra part has that of its number.                                      *)
Main(c, flags) == c \notin flags \/ Info[c].variant = 0

LEMMA SlotShared ==
  ASSUME NEW all \in SUBSET Chapters, NEW flags, NEW c \in all, NEW w \in all,
         Slot(w, all, flags) = Slot(c, all, flags)
  PROVE  /\ Info[w].base = Info[c].base
         /\ Main(c, flags) => Main(w, flags) \/ Number(w) = Number(c)
         /\ ~Main(c, flags) => Number(w) = Number(c) /\ StandsAlone(w, flags)
<1> DEFINE b       == Info[c].base
           v       == Info[c].variant
           b2      == Info[w].base
           v2      == Info[w].variant
           split(x) == \E d \in all : Info[d].base = x /\ Info[d].variant \in 1..4
<1>1. b \in Nat /\ v \in 0..9 /\ b2 \in Nat /\ v2 \in 0..9
  BY CanonicalAssumption
<1>2. Slot(c, all, flags) = IF c \notin flags /\ split(b) THEN 10 * b ELSE 10 * b + v
  BY DEF Slot
<1>3. Slot(w, all, flags) = IF w \notin flags /\ split(b2) THEN 10 * b2 ELSE 10 * b2 + v2
  BY DEF Slot
<1>4. v \in 1..4 => split(b)
  OBVIOUS
<1>5. Number(w) = Number(c) <=> b2 = b /\ v2 = v
  BY DEF Number
<1>6. StandsAlone(w, flags) <=> v2 > 4 \/ w \in flags
  BY DEF StandsAlone
<1>7. (Main(c, flags) <=> c \notin flags \/ v = 0) /\ (Main(w, flags) <=> w \notin flags \/ v2 = 0)
  BY DEF Main
<1> HIDE DEF b, v, b2, v2, split
<1>8. b2 = b
  BY <1>1, <1>2, <1>3
<1>9. split(b2) <=> split(b)
  BY <1>8
<1>10. (IF c \notin flags /\ split(b) THEN 0 ELSE v)
         = (IF w \notin flags /\ split(b) THEN 0 ELSE v2)
  BY <1>1, <1>2, <1>3, <1>8, <1>9
<1>11. Main(c, flags) => Main(w, flags) \/ Number(w) = Number(c)
  BY <1>1, <1>5, <1>7, <1>8, <1>10
<1>12. ASSUME ~Main(c, flags)
       PROVE  Number(w) = Number(c) /\ StandsAlone(w, flags)
  <2>1. c \in flags /\ v # 0
    BY <1>7, <1>12
  <2>2. v2 = v /\ (w \in flags \/ ~split(b))
    BY <1>10, <2>1
  <2>3. w \in flags \/ v2 > 4
    BY <1>1, <1>4, <2>1, <2>2
  <2>. QED  BY <1>5, <1>6, <1>8, <2>2, <2>3
<1>. QED  BY <1>8, <1>11, <1>12 DEF b, b2

LEMMA ChaptersCovered == BaseInv /\ FreshInv => EveryChapterHasOne
<1> DEFINE all == Filtered(rows, off)
<1> SUFFICES ASSUME BaseInv, FreshInv, fresh, NEW c \in all,
                    ~\E o \in overrides : /\ StandsAlone(o[2], extra)
                                          /\ \E d \in rows \ extra : Number(d) = o[1],
                    ~\E d \in have, e \in rows :
                       Number(d) = Number(e) /\ Info[d].base = Info[c].base
                         /\ (d \in extra) # (e \in extra)
             PROVE  \E d \in list \cap rows : Covers(d, c)
  BY DEF EveryChapterHasOne
<1>1. PICK K, S : /\ K \in SUBSET have /\ Distinct(K)
                  /\ \E L \in AutoLists(all, extra, S) :
                       \E F \in Firsts(Applied(overrides, rows, all), extra) :
                         \E r \in Orders(F) :
                           Remains(list, Preserved(L, K), F, r, rows, all, extra)
  BY MadeMeans DEF FreshInv
<1>2. PICK L \in AutoLists(all, extra, S),
           F \in Firsts(Applied(overrides, rows, all), extra) :
             \E r \in Orders(F) : Remains(list, Preserved(L, K), F, r, rows, all, extra)
  BY <1>1
<1>r. PICK r \in Orders(F) : Remains(list, Preserved(L, K), F, r, rows, all, extra)
  BY <1>2
<1>3. rows \subseteq Chapters /\ have \subseteq rows /\ all \subseteq rows /\ L \subseteq all
  BY <1>2, FilteredIsRead, AutoListed DEF BaseInv, TypeOK
<1> HIDE DEF all
<1>4. ASSUME NEW x \in F
      PROVE  x \in rows /\ x \in Chapters
             /\ \E o \in overrides : o[2] = x /\ o[1] = Number(x)
  <2>1. x \in Applied(overrides, rows, all)
    BY <1>2, OneFirst
  <2>2. PICK o \in overrides : o[2] = x /\ x \in rows
    BY <2>1 DEF Applied
  <2>3. o[1] = Number(x)
    BY <2>2 DEF BaseInv, TypeOK
  <2>. QED  BY <1>3, <2>2, <2>3
<1>5. ASSUME NEW x \in F, NEW d \in rows, StandsAlone(x, extra), Number(d) = Number(x)
      PROVE  d \in extra
  BY <1>4, <1>5
(* An override that is applied is in the list.                             *)
<1>6. ASSUME NEW x \in F  PROVE x \in list
  <2>1. x \in rows /\ x \in Chapters /\ x \in Brings(x, rows, extra)
    BY <1>4 DEF Brings
  <2>2. ASSUME NEW e \in F, Competes(x, e, extra)  PROVE x = e
    <3>1. OverrideGroup(x, extra) = OverrideGroup(e, extra)
      <4>1. CASE StandsAlone(e, extra)
        <5>1. Number(x) = Number(e)
          BY <2>2, <4>1 DEF Competes
        <5>2. x \in extra
          BY <1>5, <2>1, <4>1, <5>1
        <5>3. StandsAlone(x, extra)
          BY <5>2 DEF StandsAlone
        <5>. QED  BY <4>1, <5>1, <5>3 DEF OverrideGroup, Number
      <4>2. CASE ~StandsAlone(e, extra)
        BY <2>2, <4>2 DEF Competes, OverrideGroup
      <4>. QED  BY <4>1, <4>2
    <3>. QED  BY <1>2, <3>1, OneFirst
  <2>3. \A e \in F : r[e] > r[x] => ~Evicts(e, x, all, extra)
    BY <1>r, <2>2, OrderIsIrreflexive DEF Evicts
  <2>. QED  BY <1>r, <2>1, <2>3 DEF Remains
<1>7. PICK w \in L : w \in all /\ Slot(w, all, extra) = Slot(c, all, extra)
  BY <1>2, AutoHasSlot
<1>8. /\ Info[w].base = Info[c].base
      /\ Main(c, extra) => Main(w, extra) \/ Number(w) = Number(c)
      /\ ~Main(c, extra) => Number(w) = Number(c) /\ StandsAlone(w, extra)
  <2>1. all \in SUBSET Chapters
    BY <1>3
  <2>. QED  BY <1>7, <2>1, SlotShared
(* A row that stays in its place is marked as it is.                       *)
<1>9. PICK d \in Preserved(L, K) : d \in rows /\ Number(d) = Number(w)
                                   /\ (d \in extra <=> w \in extra)
  <2>1. CASE \E d \in K : Number(d) = Number(w)
    <3>1. PICK d \in K : Number(d) = Number(w)
      BY <2>1
    <3>2. d \in have /\ d \in rows /\ d \in Preserved(L, K)
      BY <1>1, <1>3, <1>7, <3>1 DEF Preserved
    <3>3. Info[d].base = Info[c].base /\ w \in rows
      BY <1>3, <1>7, <1>8, <3>1 DEF Number
    <3>4. d \in extra <=> w \in extra
      BY <3>1, <3>2, <3>3
    <3>. QED  BY <3>1, <3>2, <3>4
  <2>2. CASE ~\E d \in K : Number(d) = Number(w)
    BY <1>3, <1>7, <2>2 DEF Preserved
  <2>. QED  BY <2>1, <2>2
<1>10. /\ Info[d].base = Info[c].base
       /\ Main(c, extra) => Main(d, extra) \/ Number(d) = Number(c)
       /\ ~Main(c, extra) => Number(d) = Number(c) /\ StandsAlone(d, extra)
  BY <1>8, <1>9 DEF Number, Main, StandsAlone
<1>11. CASE \A x \in F : ~Evicts(x, d, all, extra)
  <2>1. d \in list
    BY <1>r, <1>11, <1>9 DEF Remains
  <2>. QED  BY <1>9, <1>10, <2>1 DEF Covers, Main
<1>12. CASE \E x \in F : Evicts(x, d, all, extra)
  <2>1. PICK x \in F : Competes(d, x, extra)
    BY <1>12 DEF Evicts
  <2>2. x \in list \cap rows
    BY <1>4, <1>6
  <2>3. Info[x].base = Info[c].base
    BY <1>10, <2>1 DEF Competes
  <2>4. CASE StandsAlone(x, extra)
    <3>1. Number(d) = Number(x)
      BY <2>1, <2>4 DEF Competes
    <3>2. d \in extra
      BY <1>5, <1>9, <2>4, <3>1
    <3>3. CASE Number(d) = Number(c)
      BY <2>2, <3>1, <3>3 DEF Covers
    <3>4. CASE Number(d) # Number(c)
      <4>1. Main(c, extra) /\ Main(d, extra)
        BY <1>10, <3>4
      <4>2. Info[x].variant = 0
        BY <3>1, <3>2, <4>1 DEF Main, Number
      <4>. QED  BY <2>2, <2>3, <4>1, <4>2 DEF Covers, Main
    <3>. QED  BY <3>3, <3>4
  <2>5. CASE ~StandsAlone(x, extra)
    <3>1. ~StandsAlone(d, extra) /\ x \notin extra
      BY <2>1, <2>5 DEF Competes, StandsAlone
    <3>2. Main(c, extra)
      BY <1>10, <3>1
    <3>. QED  BY <2>2, <2>3, <3>1, <3>2 DEF Covers, Main
  <2>. QED  BY <2>4, <2>5
<1>. QED  BY <1>11, <1>12

-----------------------------------------------------------------------------
LEMMA CanonicalInvariant == Spec => [](BaseInv /\ FreshInv)
<1> DEFINE I == BaseInv /\ FreshInv
<1>1. Init => I
  BY BaseInit, FreshInit
<1>2. I /\ [Next]_vars => I'
  BY BaseNext, FreshNext
<1> HIDE DEF I
<1>3. Spec => []I
  BY <1>1, <1>2, PTL DEF Spec
<1>. QED  BY <1>3 DEF I

(* Flags belong to rows that exist, the list to rows there can be, and the *)
(* overrides are a map: each number has one row, and it is of that number. *)
THEOREM CanonicalTypeCorrect == Spec => []TypeOK
<1>1. BaseInv /\ FreshInv => TypeOK
  BY DEF BaseInv
<1>. QED  BY <1>1, CanonicalInvariant, PTL

(* The release a user has chosen stays in the overrides through updates,   *)
(* requests and downloads, whatever the filters make of its row, but for   *)
(* the cases OverrideSurvives names: somebody writes back overrides he had *)
(* read before, an update had read the rows before its row was there, or   *)
(* the entry of some chapter is deleted. (By LateInv: who is to write the  *)
(* overrides has all that were chosen before he read them.)                *)
THEOREM ChoicesSurvive == Spec => []OverrideSurvives
<1>1. BaseInv /\ FreshInv => OverrideSurvives
  BY DEF BaseInv
<1>. QED  BY <1>1, CanonicalInvariant, PTL

(* A list made from what there is has no two releases of one chapter or    *)
(* extra, with the exceptions that NoDoubles names.                        *)
THEOREM OneReleaseEach == Spec => []NoDoubles
  BY CanonicalInvariant, DoublesExcluded, PTL

(* It has the row of every override that no other override competes with.  *)
THEOREM ChoicesAreListed == Spec => []ChoiceIsListed
  BY CanonicalInvariant, ChoicesListed, PTL

(* And it leaves no chapter out that the filters leave.                    *)
THEOREM NoChapterIsMissing == Spec => []EveryChapterHasOne
  BY CanonicalInvariant, ChaptersCovered, PTL

==============================================================================
