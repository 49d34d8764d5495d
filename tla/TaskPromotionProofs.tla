-------------------------- MODULE TaskPromotionProofs --------------------------
(***************************************************************************)
(* TLAPS proofs about TaskPromotion, for any rows, workers and requests.   *)
(***************************************************************************)
EXTENDS TaskPromotion, TaskQueueProofs

(* A row stays in front of what it was put in front of as long as it is    *)
(* Pending: no row that exists changes its priority but by a promotion.    *)
OvertakenInv ==
  /\ overtaken \in [Tasks -> SUBSET Tasks]
  /\ \A t \in Tasks : \A u \in overtaken[t] :
       /\ u # t /\ QueueOf[u] = QueueOf[t]
       /\ status[t] = "Pending" /\ status[u] # "Absent"
       /\ priority[t] < priority[u] \/ priority[t] = MinPriority

PromotionInv == QueueInv /\ OvertakenInv

-----------------------------------------------------------------------------
(* What steps do to priorities: nothing, or they give a new row its own,   *)
(* or they promote a row.                                                  *)
Inserted(t) ==
  /\ status[t] = "Absent" /\ status' = [status EXCEPT ![t] = "Pending"]
  /\ \E p \in Priority : priority' = [priority EXCEPT ![t] = p]

LEMMA PriorityStep ==
  ASSUME QueueInv, [Next]_vars
  PROVE  \/ /\ priority' = priority
            /\ \A t \in Tasks : status[t] # "Absent" => status'[t] # "Absent"
         \/ \E t \in Tasks : Inserted(t) \/ Prioritise(t)
<1>t. /\ status \in [Tasks -> Statuses] /\ held \in [Workers -> Tasks \cup {NoTask}]
      /\ req \in [Requests -> RequestType]
  BY DEF QueueInv, TypeOK
<1>1. ASSUME NEW w \in Workers, WorkerStep(w)
      PROVE  priority' = priority /\ \A t \in Tasks : status[t] # "Absent" => status'[t] # "Absent"
  BY <1>1, <1>t DEF WorkerStep, CheckGates, ClaimNothing, Register, Return, Complete, Fail,
                    Dropped, WriteLost, Claim, rows
<1>2. ASSUME NEW r \in Requests, RequestStep(r)
      PROVE  \/ /\ priority' = priority
                /\ \A t \in Tasks : status[t] # "Absent" => status'[t] # "Absent"
             \/ \E t \in Tasks : Inserted(t)
  <2>1. ASSUME NEW t \in Tasks, FrontInsert(r, t)  PROVE Inserted(t)
    BY <1>t, <2>1 DEF FrontInsert, Insert, Inserted, RequestType
  <2>2. CASE ~\E t \in Tasks : FrontInsert(r, t)
    BY <1>2, <1>t, <2>2 DEF RequestStep, ResetRows, CancelRow, CancelFire, ResetFire, FrontRead,
                            ResetRead, CancelRows, rows
  <2>. QED  BY <2>1, <2>2
<1>3. ASSUME NEW t \in Tasks, Enqueue(t)  PROVE Inserted(t)
  BY <1>3, QueueAssumption DEF Enqueue, Insert, Inserted, Priority
<1>4. ASSUME \/ \E t \in Tasks : BackoffEnds(t)
             \/ \E c \in Chapters : DeleteChapter(c)
             \/ TogglePause \/ BeginShutdown \/ Prune \/ Restart \/ UNCHANGED vars
      PROVE  priority' = priority /\ \A t \in Tasks : status[t] # "Absent" => status'[t] # "Absent"
  BY <1>4, <1>t DEF BackoffEnds, DeleteChapter, TogglePause, BeginShutdown, Prune, Restart,
                    vars, rows
<1>. QED  BY <1>1, <1>2, <1>3, <1>4 DEF Next

(* A Pending row becomes Running by a claim.                               *)
LEMMA ClaimedByClaim ==
  ASSUME QueueInv, [Next]_vars, NEW u \in Tasks, Claimed(u)
  PROVE  \E w \in Workers : Claim(w, u)
<1>t. /\ status \in [Tasks -> Statuses] /\ held \in [Workers -> Tasks \cup {NoTask}]
  BY DEF QueueInv, TypeOK
<1>0. status[u] = "Pending" /\ status'[u] = "Running"
  BY DEF Claimed
<1>1. ASSUME NEW w \in Workers, WorkerStep(w)  PROVE \E t \in Tasks : Claim(w, t)
  BY <1>0, <1>1, <1>t DEF WorkerStep, CheckGates, ClaimNothing, Register, Return, Complete, Fail,
                    Dropped, WriteLost, rows
<1>2. ASSUME NEW w \in Workers, NEW t \in Tasks, Claim(w, t)  PROVE Claim(w, u)
  BY <1>0, <1>2, <1>t DEF Claim
<1>3. ASSUME NEW r \in Requests, RequestStep(r)  PROVE FALSE
  BY <1>0, <1>3, <1>t DEF RequestStep, FrontInsert, Insert, ResetRows, CancelRow, CancelFire,
                    ResetFire, FrontRead, ResetRead, CancelRows, rows
<1>4. ASSUME \/ \E t \in Tasks : Enqueue(t) \/ Prioritise(t) \/ BackoffEnds(t)
             \/ \E c \in Chapters : DeleteChapter(c)
             \/ TogglePause \/ BeginShutdown \/ Prune \/ Restart \/ UNCHANGED vars
      PROVE  FALSE
  BY <1>0, <1>4, <1>t DEF Enqueue, Insert, Prioritise, BackoffEnds, DeleteChapter, TogglePause,
                    BeginShutdown, Prune, Restart, vars, rows
<1>. QED  BY <1>1, <1>2, <1>3, <1>4 DEF Next

(* The front of a queue is before every row that waits in it, down to the  *)
(* least priority there is.                                                *)
LEMMA FrontIsFirst ==
  ASSUME TypeOK, NEW q \in Queues, NEW u \in PendingIn(q)
  PROVE  FrontPriority(q) < priority[u] \/ FrontPriority(q) = MinPriority
<1> DEFINE S == {priority[t] : t \in PendingIn(q)}
           P(p) == \A x \in PendingIn(q) : p <= priority[x]
<1>1. S \in SUBSET Priority /\ S # {}
  BY DEF PendingIn, TypeOK
<1>2. \E p \in S : \A x \in S : p <= x
  <2> HIDE DEF S
  <2> QED  BY <1>1, LeastPriority
<1>3. \E p \in S : P(p)
  BY <1>2
<1>4. (CHOOSE p \in S : P(p)) \in S /\ P(CHOOSE p \in S : P(p))
  <2> HIDE DEF S, P
  <2> QED  BY <1>3
<1>5. PICK p \in S : P(p) /\ FrontPriority(q) = Before(p)
  BY <1>4 DEF FrontPriority
<1>6. p \in Int /\ priority[u] \in Int /\ p <= priority[u] /\ MinPriority \in Int
  BY <1>1, <1>5, QueueAssumption DEF Priority
<1>7. Before(p) < priority[u] \/ Before(p) = MinPriority
  BY <1>6 DEF Before
<1>. QED  BY <1>5, <1>7

-----------------------------------------------------------------------------
LEMMA PromotionInit == PInit => PromotionInv
<1> SUFFICES ASSUME PInit  PROVE PromotionInv
  OBVIOUS
<1>1. overtaken = [t \in Tasks |-> {}]
  BY DEF PInit
<1>. QED  BY <1>1, QueueInvInit DEF PInit, PromotionInv, OvertakenInv

LEMMA PromotionNext == PromotionInv /\ [PNext]_pvars => PromotionInv'
<1> SUFFICES ASSUME PromotionInv, [PNext]_pvars  PROVE PromotionInv'
  OBVIOUS
<1>1. [Next]_vars
  BY DEF PNext, pvars
<1>2. QueueInv'
  BY <1>1, QueueInvNext DEF PromotionInv
<1>3. CASE UNCHANGED pvars
  <2>1. UNCHANGED <<overtaken, status, priority>>
    BY <1>3 DEF pvars, vars, rows
  <2>. QED  BY <1>2, <2>1 DEF PromotionInv, OvertakenInv
<1>4. CASE PNext
  <2>t. /\ status \in [Tasks -> Statuses] /\ priority \in [Tasks -> Priority]
        /\ status' \in [Tasks -> Statuses] /\ priority' \in [Tasks -> Priority]
        /\ QueueOf \in [Tasks -> Queues]
    BY <1>2, QueueAssumption DEF PromotionInv, QueueInv, TypeOK
  <2>1. \A t \in Tasks : overtaken'[t] =
          IF status'[t] # "Pending" THEN {}
          ELSE IF Promoted(t) THEN PendingIn(QueueOf[t]) \ {t}
          ELSE overtaken[t] \ {u \in Tasks : Promoted(u)}
    BY <1>4 DEF PNext, Remember
  <2>2. overtaken' \in [Tasks -> SUBSET Tasks]
    BY <1>4 DEF PNext, Remember, PromotionInv, OvertakenInv, PendingIn
  <2>3. ASSUME NEW t \in Tasks, NEW u \in overtaken'[t]
        PROVE  /\ u # t /\ QueueOf[u] = QueueOf[t]
               /\ status'[t] = "Pending" /\ status'[u] # "Absent"
               /\ priority'[t] < priority'[u] \/ priority'[t] = MinPriority
    <3>1. status'[t] = "Pending" /\ u \in Tasks
      BY <2>1, <2>2, <2>3
    <3>2. CASE Promoted(t)
      <4>1. u # t /\ u \in PendingIn(QueueOf[t])
        BY <2>1, <2>3, <3>1, <3>2
      <4>2. status[u] = "Pending" /\ QueueOf[u] = QueueOf[t] /\ QueueOf[t] \in Queues
        BY <2>t, <4>1 DEF PendingIn
      <4>3. Prioritise(t)
        <5>1. \A x \in Tasks : Inserted(x) => x = t
          BY <2>t, <3>2 DEF Promoted, Inserted
        <5>2. ~Inserted(t)
          BY <3>2 DEF Promoted, Inserted
        <5>3. \A x \in Tasks : Prioritise(x) => x = t
          BY <2>t, <3>2 DEF Promoted, Prioritise
        <5>4. priority' # priority
          BY <3>2 DEF Promoted
        <5>. QED  BY <1>1, <5>1, <5>2, <5>3, <5>4, PriorityStep DEF PromotionInv
      <4>4. priority'[t] = FrontPriority(QueueOf[t]) /\ priority'[u] = priority[u]
            /\ status'[u] = status[u]
        BY <2>t, <4>1, <4>3 DEF Prioritise
      <4>5. priority'[t] < priority[u] \/ priority'[t] = MinPriority
        BY <4>1, <4>2, <4>4, FrontIsFirst DEF PromotionInv, QueueInv
      <4>. QED  BY <3>1, <4>1, <4>2, <4>4, <4>5
    <3>3. CASE ~Promoted(t)
      <4>1. u \in overtaken[t] /\ ~Promoted(u)
        BY <2>1, <2>3, <3>1, <3>3
      <4>2. /\ u # t /\ QueueOf[u] = QueueOf[t]
            /\ status[t] = "Pending" /\ status[u] # "Absent"
            /\ priority[t] < priority[u] \/ priority[t] = MinPriority
        BY <4>1 DEF PromotionInv, OvertakenInv
      <4>3. priority'[t] = priority[t]
        BY <3>1, <3>3, <4>2 DEF Promoted
      <4>4. priority'[u] = priority[u] /\ status'[u] # "Absent"
        <5>1. ASSUME NEW x \in Tasks, Inserted(x)
              PROVE  priority'[u] = priority[u] /\ status'[u] # "Absent"
          BY <2>t, <3>1, <4>2, <5>1 DEF Inserted
        <5>2. ASSUME NEW x \in Tasks, Prioritise(x)
              PROVE  priority'[u] = priority[u] /\ status'[u] # "Absent"
          BY <2>t, <3>1, <4>1, <4>2, <5>2 DEF Prioritise, Promoted
        <5>. QED  BY <1>1, <3>1, <4>2, <5>1, <5>2, PriorityStep DEF PromotionInv
      <4>. QED  BY <3>1, <4>2, <4>3, <4>4
    <3>. QED  BY <3>2, <3>3
  <2>. QED  BY <1>2, <2>2, <2>3 DEF PromotionInv, OvertakenInv
<1>. QED  BY <1>3, <1>4

(* What PromotedGoesFirst says of a step.                                  *)
LEMMA PromotedFirstStep ==
  ASSUME PromotionInv, [PNext]_pvars
  PROVE  \A t, u \in Tasks :
           u \in overtaken[t] /\ Claimed(u) => ~due[t] \/ priority[t] = MinPriority
<1> SUFFICES ASSUME NEW t \in Tasks, NEW u \in Tasks, u \in overtaken[t], Claimed(u), due[t]
             PROVE  priority[t] = MinPriority
  OBVIOUS
<1>1. [Next]_vars
  BY DEF PNext, pvars
<1>2. PICK w \in Workers : Claim(w, u)
  BY <1>1, ClaimedByClaim DEF PromotionInv
<1>3. /\ QueueOf[u] = QueueOf[t] /\ status[t] = "Pending"
      /\ priority[t] < priority[u] \/ priority[t] = MinPriority
  BY DEF PromotionInv, OvertakenInv
<1>4. t \in Runnable(WorkerQueue[w])
  BY <1>2, <1>3 DEF Claim, Runnable, PendingIn
<1>5. priority[u] <= priority[t]
  <2>1. Precedes(u, t)
    BY <1>2, <1>4 DEF Claim
  <2>2. priority[t] \in Int /\ priority[u] \in Int
    BY DEF PromotionInv, QueueInv, TypeOK, Priority
  <2>. QED  BY <2>1, <2>2 DEF Precedes
<1>6. priority[t] \in Int /\ priority[u] \in Int
  BY DEF PromotionInv, QueueInv, TypeOK, Priority
<1>. QED  BY <1>3, <1>5, <1>6

(* A promoted row is claimed before the rows it overtook, whatever is      *)
(* inserted, retried or promoted in between.                               *)
THEOREM PromotedRowsGoFirst == PSpec => PromotedGoesFirst
<1> DEFINE I == PromotionInv
           A == \A t, u \in Tasks :
                  u \in overtaken[t] /\ Claimed(u) => ~due[t] \/ priority[t] = MinPriority
<1>1. PInit => I
  BY PromotionInit
<1>2. I /\ [PNext]_pvars => I'
  BY PromotionNext
<1>3. I /\ [PNext]_pvars => A
  BY PromotedFirstStep
<1> HIDE DEF I, A
<1>4. PSpec => [][A]_pvars
  BY <1>1, <1>2, <1>3, PTL DEF PSpec
<1>. QED  BY <1>4 DEF A, PromotedGoesFirst
=============================================================================
