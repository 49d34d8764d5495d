--------------------------- MODULE TaskQueueProofs ---------------------------
(***************************************************************************)
(* TLAPS proofs about TaskQueue, for every set of tasks, workers, queues,  *)
(* chapters and requests and every value of the bounds.                    *)
(***************************************************************************)
EXTENDS TaskQueue, FiniteSetTheorems, WellFoundedInduction, TLAPS

(* A worker has a task in hand exactly from its claim to its report, and   *)
(* that task is Running, unless it was cancelled or deleted meanwhile; it  *)
(* has an attempt left for the failure the worker may report.              *)
HeldInv ==
  \A w \in Workers :
     /\ held[w] = NoTask <=> pc[w] \in {"poll", "claim"}
     /\ held[w] # NoTask => /\ status[held[w]] \in {"Running", "Cancelled", "Deleted"}
                            /\ attempt[held[w]] < MaxAttempts

(* A chapter reset is under way: it will cancel the rows of the chapter.    *)
Resetting(t) == \E r \in Requests : req[r].op = "reset" /\ req[r].chapter = ChapterOf[t]

(* A fired token, and the result "cancelled" it leads to, belong to a row  *)
(* that is no longer Running or that a chapter reset will cancel.          *)
FiredInv ==
  \A w \in Workers :
     /\ held[w] = NoTask => ~signalled[w]
     /\ pc[w] # "report" => outcome[w] = "none"
     /\ signalled[w] /\ held[w] # NoTask /\ status[held[w]] = "Running" => Resetting(held[w])
     /\ outcome[w] = "cancelled" => signalled[w]

(* A handler that is about to fire a token has cancelled the row, which a  *)
(* late failure may have made Pending again, but not due; or it is a reset *)
(* of the row's chapter.                                                   *)
RequestInv ==
  \A r \in Requests :
     /\ req[r].op = "cancel" =>
           \A t \in req[r].tasks :
              \/ status[t] \in {"Cancelled", "Completed", "Failed", "Deleted"}
              \/ status[t] = "Pending" /\ ~due[t]
     /\ req[r].op = "reset" => \A t \in req[r].tasks : ChapterOf[t] = req[r].chapter

(* The inductive invariant behind RunningIsOwned.                          *)
OwnInv == RunningIsOwned /\ FiredInv /\ RequestInv

(* The inductive invariant.                                                *)
QueueInv == TypeOK /\ HeldInv /\ OneHolder /\ AttemptBudget /\ TokenReachesRun

-----------------------------------------------------------------------------
(* Every nonempty set of integers bounded from below by MinPriority has a  *)
(* least element, so FrontPriority is a priority.                          *)
LEMMA LeastPriority ==
  ASSUME NEW S \in SUBSET Priority, S # {}
  PROVE  \E p \in S : \A x \in S : p <= x
<1> DEFINE T == {n \in Nat : \E x \in S : n = x - MinPriority}
<1>1. MinPriority \in Int
  BY QueueAssumption
<1>2. T \subseteq Nat /\ T # {}
  <2>1. PICK x \in S : TRUE
    OBVIOUS
  <2>2. x \in Int /\ x >= MinPriority
    BY DEF Priority
  <2>3. x - MinPriority \in Nat
    BY <1>1, <2>2
  <2>4. x - MinPriority \in T
    BY <2>3
  <2>. QED  BY <2>4
<1>3. \E n \in T : \A m \in T : ~(<<m, n>> \in OpToRel(<, Nat))
  <2>. HIDE DEF T
  <2>. QED  BY <1>2, NatLessThanWellFounded, WFMin
<1>4. PICK n \in T : \A m \in T : ~(m < n)
  BY <1>2, <1>3 DEF OpToRel
<1>5. PICK p \in S : n = p - MinPriority
  BY <1>4
<1>6. ASSUME NEW x \in S  PROVE p <= x
  <2>1. x - MinPriority \in T
    BY <1>1 DEF Priority
  <2>2. ~(x - MinPriority < p - MinPriority)
    BY <1>4, <1>5, <2>1
  <2>. QED  BY <1>1, <2>2 DEF Priority
<1>. QED  BY <1>6

LEMMA BeforeType == \A p \in Priority : Before(p) \in Priority
  BY QueueAssumption DEF Before, Priority

LEMMA FrontPriorityType ==
  ASSUME TypeOK, NEW q \in Queues
  PROVE  FrontPriority(q) \in Priority
<1> DEFINE S == {priority[t] : t \in PendingIn(q)}
<1>1. CASE PendingIn(q) = {}
  <2>1. 0 \in Priority
    BY QueueAssumption DEF Priority
  <2>. QED  BY <1>1, <2>1, BeforeType DEF FrontPriority
<1>2. CASE PendingIn(q) # {}
  <2>1. S \in SUBSET Priority /\ S # {}
    BY <1>2 DEF PendingIn, TypeOK
  <2>2. \E p \in S : \A x \in S : p <= x
    <3>. HIDE DEF S
    <3>. QED  BY <2>1, LeastPriority
  <2>3. \E p \in S : \A u \in PendingIn(q) : p <= priority[u]
    BY <2>2
  <2>4. (CHOOSE p \in S : \A u \in PendingIn(q) : p <= priority[u]) \in S
    BY <2>3
  <2>5. FrontPriority(q) = Before(CHOOSE p \in S : \A u \in PendingIn(q) : p <= priority[u])
    BY <1>2 DEF FrontPriority
  <2>. QED  BY <2>1, <2>4, <2>5, BeforeType
<1>. QED  BY <1>1, <1>2

-----------------------------------------------------------------------------
LEMMA IdleRequestType == IdleRequest \in RequestType
  BY QueueAssumption DEF IdleRequest, RequestType, Priority

LEMMA QueueInvInit == Init => QueueInv
<1> SUFFICES ASSUME Init  PROVE QueueInv
  OBVIOUS
<1>1. TypeOK
  <2>1. 0 \in Priority /\ 0 \in 0..MaxAttempts
    BY QueueAssumption DEF Priority
  <2>2. req \in [Requests -> RequestType]
    BY IdleRequestType DEF Init
  <2>. QED  BY <2>1, <2>2 DEF Init, TypeOK, Statuses
<1>2. HeldInv /\ OneHolder /\ AttemptBudget /\ TokenReachesRun
  BY QueueAssumption DEF Init, HeldInv, OneHolder, AttemptBudget, TokenReachesRun, Active
<1>. QED  BY <1>1, <1>2 DEF QueueInv

LEMMA QueueInvNext == QueueInv /\ [Next]_vars => QueueInv'
<1> SUFFICES ASSUME QueueInv, [Next]_vars
             PROVE  QueueInv'
  OBVIOUS
<1>. USE QueueAssumption DEF QueueInv
<1>1. ASSUME NEW w \in Workers, CheckGates(w)
      PROVE  QueueInv'
  <2>1. TypeOK'
    BY <1>1 DEF CheckGates, TypeOK, AttemptBudget, HeldInv, rows, loops, settings, Statuses, Active
  <2>2. HeldInv' /\ OneHolder' /\ AttemptBudget' /\ TokenReachesRun'
    BY <1>1 DEF CheckGates, TypeOK, HeldInv, OneHolder, AttemptBudget, TokenReachesRun, Active, rows, loops, settings
  <2>. QED  BY <2>1, <2>2
<1>2. ASSUME NEW w \in Workers, ClaimNothing(w)
      PROVE  QueueInv'
  <2>1. TypeOK'
    BY <1>2 DEF ClaimNothing, TypeOK, AttemptBudget, HeldInv, rows, loops, settings, Statuses, Active
  <2>2. HeldInv' /\ OneHolder' /\ AttemptBudget' /\ TokenReachesRun'
    BY <1>2 DEF ClaimNothing, TypeOK, HeldInv, OneHolder, AttemptBudget, TokenReachesRun, Active, rows, loops, settings
  <2>. QED  BY <2>1, <2>2
<1>3. ASSUME NEW w \in Workers, Register(w)
      PROVE  QueueInv'
  <2>1. TypeOK'
    BY <1>3 DEF Register, TypeOK, AttemptBudget, HeldInv, rows, loops, settings, Statuses, Active
  <2>2. HeldInv' /\ OneHolder' /\ AttemptBudget' /\ TokenReachesRun'
    BY <1>3 DEF Register, TypeOK, HeldInv, OneHolder, AttemptBudget, TokenReachesRun, Active, rows, loops, settings
  <2>. QED  BY <2>1, <2>2
<1>4. ASSUME NEW w \in Workers, Return(w)
      PROVE  QueueInv'
  <2>1. TypeOK'
    BY <1>4 DEF Return, TypeOK, AttemptBudget, HeldInv, rows, loops, settings, Statuses, Active
  <2>2. HeldInv' /\ OneHolder' /\ AttemptBudget' /\ TokenReachesRun'
    BY <1>4 DEF Return, TypeOK, HeldInv, OneHolder, AttemptBudget, TokenReachesRun, Active, rows, loops, settings
  <2>. QED  BY <2>1, <2>2
<1>5. ASSUME NEW w \in Workers, Complete(w)
      PROVE  QueueInv'
  <2>1. TypeOK'
    BY <1>5 DEF Complete, LetGo, TypeOK, AttemptBudget, HeldInv, rows, loops, settings, Statuses, Active
  <2>2. HeldInv' /\ OneHolder' /\ AttemptBudget' /\ TokenReachesRun'
    BY <1>5 DEF Complete, LetGo, TypeOK, HeldInv, OneHolder, AttemptBudget, TokenReachesRun, Active, rows, loops, settings
  <2>. QED  BY <2>1, <2>2
<1>6. ASSUME NEW w \in Workers, Fail(w)
      PROVE  QueueInv'
  <2>1. TypeOK'
    <3>1. held[w] \in Tasks /\ attempt[held[w]] + 1 \in 0..MaxAttempts
      BY <1>6 DEF Fail, AttemptsLeft, TypeOK, HeldInv
    <3>. QED  BY <1>6, <3>1 DEF Fail, AttemptsLeft, LetGo, TypeOK, settings, Statuses
  <2>2. HeldInv' /\ OneHolder' /\ AttemptBudget' /\ TokenReachesRun'
    BY <1>6 DEF Fail, AttemptsLeft, LetGo, TypeOK, HeldInv, OneHolder, AttemptBudget, TokenReachesRun, Active, rows, loops, settings
  <2>. QED  BY <2>1, <2>2
<1>7. ASSUME NEW w \in Workers, Dropped(w)
      PROVE  QueueInv'
  <2>1. TypeOK'
    BY <1>7 DEF Dropped, LetGo, TypeOK, AttemptBudget, HeldInv, rows, loops, settings, Statuses, Active
  <2>2. HeldInv' /\ OneHolder' /\ AttemptBudget' /\ TokenReachesRun'
    BY <1>7 DEF Dropped, LetGo, TypeOK, HeldInv, OneHolder, AttemptBudget, TokenReachesRun, Active, rows, loops, settings
  <2>. QED  BY <2>1, <2>2
<1>8. ASSUME NEW w \in Workers, WriteLost(w)
      PROVE  QueueInv'
  <2>1. TypeOK'
    BY <1>8 DEF WriteLost, LetGo, TypeOK, AttemptBudget, HeldInv, rows, loops, settings, Statuses, Active
  <2>2. HeldInv' /\ OneHolder' /\ AttemptBudget' /\ TokenReachesRun'
    BY <1>8 DEF WriteLost, LetGo, TypeOK, HeldInv, OneHolder, AttemptBudget, TokenReachesRun, Active, rows, loops, settings
  <2>. QED  BY <2>1, <2>2
<1>9. ASSUME NEW w \in Workers, NEW t \in Tasks, Claim(w, t)
      PROVE  QueueInv'
  <2>1. TypeOK'
    BY <1>9 DEF Claim, Runnable, PendingIn, TypeOK, AttemptBudget, HeldInv, rows, loops, settings, Statuses, Active
  <2>2. HeldInv' /\ OneHolder' /\ AttemptBudget' /\ TokenReachesRun'
    BY <1>9 DEF Claim, Runnable, PendingIn, TypeOK, HeldInv, OneHolder, AttemptBudget, TokenReachesRun, Active, rows, loops, settings
  <2>. QED  BY <2>1, <2>2
<1>10. ASSUME NEW r \in Requests, ResetRows(r)
      PROVE  QueueInv'
  <2>1. TypeOK'
    <3>1. req' \in [Requests -> RequestType]
      BY <1>10, IdleRequestType DEF ResetRows, TypeOK, IdleRequest
    <3>2. status' \in [Tasks -> Statuses]
      BY <1>10 DEF ResetRows, CancelRows, TypeOK, rows, loops, settings, Statuses, Active
    <3>. QED  BY <1>10, <3>1, <3>2 DEF ResetRows, CancelRows, TypeOK, rows, loops, settings, Statuses, Active
  <2>2. HeldInv' /\ OneHolder' /\ AttemptBudget' /\ TokenReachesRun'
    BY <1>10 DEF ResetRows, CancelRows, TypeOK, HeldInv, OneHolder, AttemptBudget, TokenReachesRun, Active, rows, loops, settings
  <2>. QED  BY <2>1, <2>2
<1>11. ASSUME NEW r \in Requests, NEW t \in Tasks, FrontInsert(r, t)
      PROVE  QueueInv'
  <2>1. TypeOK'
    <3>1. req[r].prio \in Priority
      BY DEF TypeOK, RequestType
    <3>2. req' \in [Requests -> RequestType]
      BY <1>11, IdleRequestType DEF FrontInsert, TypeOK
    <3>. QED  BY <1>11, <3>1, <3>2 DEF FrontInsert, Insert, TypeOK, loops, settings, Statuses
  <2>2. HeldInv' /\ OneHolder' /\ AttemptBudget' /\ TokenReachesRun'
    BY <1>11 DEF FrontInsert, Insert, TypeOK, HeldInv, OneHolder, AttemptBudget, TokenReachesRun, Active, rows, loops, settings
  <2>. QED  BY <2>1, <2>2
<1>12. ASSUME NEW r \in Requests, NEW t \in Tasks, CancelRow(r, t)
      PROVE  QueueInv'
  <2>1. TypeOK'
    <3>1. req' \in [Requests -> RequestType]
      BY <1>12, IdleRequestType DEF CancelRow, TypeOK, RequestType, IdleRequest
    <3>2. status' \in [Tasks -> Statuses]
      BY <1>12 DEF CancelRow, CancelRows, TypeOK, rows, loops, settings, Statuses, Active
    <3>. QED  BY <1>12, <3>1, <3>2 DEF CancelRow, CancelRows, TypeOK, rows, loops, settings, Statuses, Active
  <2>2. HeldInv' /\ OneHolder' /\ AttemptBudget' /\ TokenReachesRun'
    BY <1>12 DEF CancelRow, CancelRows, TypeOK, HeldInv, OneHolder, AttemptBudget, TokenReachesRun, Active, rows, loops, settings
  <2>. QED  BY <2>1, <2>2
<1>13. ASSUME NEW r \in Requests, NEW t \in Tasks, CancelFire(r, t)
      PROVE  QueueInv'
  <2>1. TypeOK'
    <3>1. req' \in [Requests -> RequestType]
      BY <1>13, IdleRequestType DEF CancelFire, TypeOK, IdleRequest
    <3>2. signalled' \in [Workers -> BOOLEAN]
      BY <1>13 DEF CancelFire, Fire, TypeOK, rows, loops, settings, Statuses, Active
    <3>. QED  BY <1>13, <3>1, <3>2 DEF CancelFire, Fire, TypeOK, rows, loops, settings, Statuses, Active
  <2>2. HeldInv' /\ OneHolder' /\ AttemptBudget' /\ TokenReachesRun'
    BY <1>13 DEF CancelFire, Fire, TypeOK, HeldInv, OneHolder, AttemptBudget, TokenReachesRun, Active, rows, loops, settings
  <2>. QED  BY <2>1, <2>2
<1>14. ASSUME NEW r \in Requests, NEW t \in Tasks, ResetFire(r, t)
      PROVE  QueueInv'
  <2>1. TypeOK'
    <3>1. req' \in [Requests -> RequestType]
      BY <1>14, IdleRequestType DEF ResetFire, TypeOK, RequestType, IdleRequest
    <3>2. signalled' \in [Workers -> BOOLEAN]
      BY <1>14 DEF ResetFire, Fire, TypeOK, rows, loops, settings, Statuses, Active
    <3>. QED  BY <1>14, <3>1, <3>2 DEF ResetFire, Fire, TypeOK, rows, loops, settings, Statuses, Active
  <2>2. HeldInv' /\ OneHolder' /\ AttemptBudget' /\ TokenReachesRun'
    BY <1>14 DEF ResetFire, Fire, TypeOK, HeldInv, OneHolder, AttemptBudget, TokenReachesRun, Active, rows, loops, settings
  <2>. QED  BY <2>1, <2>2
<1>15. ASSUME NEW r \in Requests, NEW q \in Queues, FrontRead(r, q)
      PROVE  QueueInv'
  <2>1. TypeOK'
    <3>0. FrontPriority(q) \in Priority
      BY FrontPriorityType
    <3>1. req' \in [Requests -> RequestType]
      BY <1>15, IdleRequestType, <3>0 DEF FrontRead, TypeOK, RequestType, IdleRequest
    <3>2. UNCHANGED rows
      BY <1>15 DEF FrontRead, TypeOK, rows, loops, settings, Statuses, Active
    <3>. QED  BY <1>15, <3>1, <3>2 DEF FrontRead, TypeOK, rows, loops, settings, Statuses, Active
  <2>2. HeldInv' /\ OneHolder' /\ AttemptBudget' /\ TokenReachesRun'
    BY <1>15 DEF FrontRead, TypeOK, HeldInv, OneHolder, AttemptBudget, TokenReachesRun, Active, rows, loops, settings
  <2>. QED  BY <2>1, <2>2
<1>16. ASSUME NEW r \in Requests, NEW c \in Chapters, ResetRead(r, c)
      PROVE  QueueInv'
  <2>1. TypeOK'
    <3>1. req' \in [Requests -> RequestType]
      BY <1>16, IdleRequestType DEF ResetRead, TypeOK, RequestType, IdleRequest
    <3>2. UNCHANGED rows
      BY <1>16 DEF ResetRead, TypeOK, rows, loops, settings, Statuses, Active
    <3>. QED  BY <1>16, <3>1, <3>2 DEF ResetRead, TypeOK, rows, loops, settings, Statuses, Active
  <2>2. HeldInv' /\ OneHolder' /\ AttemptBudget' /\ TokenReachesRun'
    BY <1>16 DEF ResetRead, TypeOK, HeldInv, OneHolder, AttemptBudget, TokenReachesRun, Active, rows, loops, settings
  <2>. QED  BY <2>1, <2>2
<1>17. ASSUME NEW t \in Tasks, Enqueue(t)
      PROVE  QueueInv'
  <2>1. TypeOK'
    <3>1. PICK p \in Priorities : Insert(t, p)
      BY <1>17 DEF Enqueue
    <3>2. p \in Priority
      BY DEF Priority
    <3>. QED  BY <1>17, <3>1, <3>2 DEF Enqueue, Insert, TypeOK, loops, settings, Statuses
  <2>2. HeldInv' /\ OneHolder' /\ AttemptBudget' /\ TokenReachesRun'
    BY <1>17 DEF Enqueue, Insert, TypeOK, HeldInv, OneHolder, AttemptBudget, TokenReachesRun, Active, rows, loops, settings
  <2>. QED  BY <2>1, <2>2
<1>18. ASSUME NEW t \in Tasks, Prioritise(t)
      PROVE  QueueInv'
  <2>1. TypeOK'
    <3>1. FrontPriority(QueueOf[t]) \in Priority
      BY FrontPriorityType
    <3>. QED  BY <1>18, <3>1 DEF Prioritise, TypeOK, loops, settings
  <2>2. HeldInv' /\ OneHolder' /\ AttemptBudget' /\ TokenReachesRun'
    BY <1>18 DEF Prioritise, TypeOK, HeldInv, OneHolder, AttemptBudget, TokenReachesRun, Active, rows, loops, settings
  <2>. QED  BY <2>1, <2>2
<1>19. ASSUME NEW t \in Tasks, BackoffEnds(t)
      PROVE  QueueInv'
  <2>1. TypeOK'
    BY <1>19 DEF BackoffEnds, TypeOK, AttemptBudget, HeldInv, rows, loops, settings, Statuses, Active
  <2>2. HeldInv' /\ OneHolder' /\ AttemptBudget' /\ TokenReachesRun'
    BY <1>19 DEF BackoffEnds, TypeOK, HeldInv, OneHolder, AttemptBudget, TokenReachesRun, Active, rows, loops, settings
  <2>. QED  BY <2>1, <2>2
<1>20. ASSUME NEW c \in Chapters, DeleteChapter(c)
      PROVE  QueueInv'
  <2>1. TypeOK'
    BY <1>20 DEF DeleteChapter, TypeOK, AttemptBudget, HeldInv, rows, loops, settings, Statuses, Active
  <2>2. HeldInv' /\ OneHolder' /\ AttemptBudget' /\ TokenReachesRun'
    BY <1>20 DEF DeleteChapter, TypeOK, HeldInv, OneHolder, AttemptBudget, TokenReachesRun, Active, rows, loops, settings
  <2>. QED  BY <2>1, <2>2
<1>21. ASSUME TogglePause
      PROVE  QueueInv'
  <2>1. TypeOK'
    BY <1>21 DEF TogglePause, TypeOK, AttemptBudget, HeldInv, rows, loops, settings, Statuses, Active
  <2>2. HeldInv' /\ OneHolder' /\ AttemptBudget' /\ TokenReachesRun'
    BY <1>21 DEF TogglePause, TypeOK, HeldInv, OneHolder, AttemptBudget, TokenReachesRun, Active, rows, loops, settings
  <2>. QED  BY <2>1, <2>2
<1>22. ASSUME BeginShutdown
      PROVE  QueueInv'
  <2>1. TypeOK'
    BY <1>22 DEF BeginShutdown, TypeOK, AttemptBudget, HeldInv, rows, loops, settings, Statuses, Active
  <2>2. HeldInv' /\ OneHolder' /\ AttemptBudget' /\ TokenReachesRun'
    BY <1>22 DEF BeginShutdown, TypeOK, HeldInv, OneHolder, AttemptBudget, TokenReachesRun, Active, rows, loops, settings
  <2>. QED  BY <2>1, <2>2
<1>23. ASSUME Prune
      PROVE  QueueInv'
  <2>1. TypeOK'
    BY <1>23 DEF Prune, History, TypeOK, AttemptBudget, HeldInv, rows, loops, settings, Statuses, Active
  <2>2. HeldInv' /\ OneHolder' /\ AttemptBudget' /\ TokenReachesRun'
    BY <1>23 DEF Prune, History, TypeOK, HeldInv, OneHolder, AttemptBudget, TokenReachesRun, Active, rows, loops, settings
  <2>. QED  BY <2>1, <2>2
<1>24. ASSUME Restart
      PROVE  QueueInv'
  <2>1. TypeOK'
    <3>1. req' \in [Requests -> RequestType]
      BY <1>24, IdleRequestType DEF Restart, Stuck, TypeOK, IdleRequest
    <3>2. status' \in [Tasks -> Statuses]
      BY <1>24 DEF Restart, Stuck, TypeOK, rows, loops, settings, Statuses, Active
    <3>3. due' \in [Tasks -> BOOLEAN]
      <4>1. \/ due' = due
            \/ \E S : due' = [t \in Tasks |-> due[t] \/ t \in S]
        BY <1>24 DEF Restart, Stuck
      <4>. QED  BY <4>1, Zenon DEF TypeOK
    <3>4. lost' \in SUBSET Tasks
      BY <1>24 DEF Restart, Stuck, TypeOK
    <3>5. /\ pc'        \in [Workers -> {"poll", "claim", "claimed", "dispatch", "report"}]
          /\ held'      \in [Workers -> Tasks \cup {NoTask}]
          /\ outcome'   \in [Workers -> {"none", "ok", "error", "cancelled"}]
          /\ signalled' \in [Workers -> BOOLEAN]
          /\ cancelMap' \in [Tasks -> Workers \cup {NoWorker}]
      BY <1>24 DEF Restart, Stuck
    <3>6. /\ UNCHANGED <<priority, created, attempt, inserts, paused>>
          /\ shutdown' \in BOOLEAN
      BY <1>24 DEF Restart, Stuck
    <3>7. restarts \in Nat /\ restarts' = restarts + 1
      BY <1>24 DEF Restart, Stuck, TypeOK
    <3>8. restarts' \in Nat
      BY <3>7
    <3>. QED  BY <3>1, <3>2, <3>3, <3>4, <3>5, <3>6, <3>8 DEF TypeOK
  <2>2. HeldInv' /\ OneHolder' /\ AttemptBudget' /\ TokenReachesRun'
    BY <1>24 DEF Restart, Stuck, TypeOK, HeldInv, OneHolder, AttemptBudget, TokenReachesRun, Active, rows, loops, settings
  <2>. QED  BY <2>1, <2>2
<1>25. ASSUME UNCHANGED vars
      PROVE  QueueInv'
  BY <1>25 DEF vars, rows, loops, settings, TypeOK, HeldInv, OneHolder, AttemptBudget, TokenReachesRun
<1>. QED
  BY <1>1, <1>2, <1>3, <1>4, <1>5, <1>6, <1>7, <1>8, <1>9, <1>10, <1>11, <1>12, <1>13, <1>14, <1>15, <1>16, <1>17, <1>18, <1>19, <1>20, <1>21, <1>22, <1>23, <1>24, <1>25 DEF Next, WorkerStep, RequestStep

THEOREM QueueInvariant == Spec => []QueueInv
  BY QueueInvInit, QueueInvNext, PTL DEF Spec

(* Every variable stays in its domain.                                     *)
THEOREM TypeCorrect == Spec => []TypeOK
  BY QueueInvariant, PTL DEF QueueInv

(* No task is ever in the hands of two workers, however cancels, resets,   *)
(* retries, deletions, lost writes and restarts interleave with claims.    *)
THEOREM AtMostOneHolder == Spec => []OneHolder
  BY QueueInvariant, PTL DEF QueueInv

(* The retry counter never drifts: rows waiting or running have attempts   *)
(* left, and only used-up rows are Failed.                                 *)
THEOREM AttemptsKept == Spec => []AttemptBudget
  BY QueueInvariant, PTL DEF QueueInv

(* The CancelMap leads exactly to the tokens of the dispatches under way.  *)
THEOREM TokensReachRuns == Spec => []TokenReachesRun
  BY QueueInvariant, PTL DEF QueueInv

-----------------------------------------------------------------------------
(* Completed and Failed rows never come back: the rows complete() and      *)
(* fail() write to are held, and a held row is Running, Cancelled or gone. *)
LEMMA FinalStep ==
  QueueInv /\ [Next]_vars =>
    [\A t \in Tasks : status[t] \in {"Completed", "Failed"}
                        => status'[t] \in {status[t], "Deleted"}]_vars
<1> SUFFICES ASSUME QueueInv, Next, NEW t \in Tasks,
                    status[t] \in {"Completed", "Failed"}
             PROVE  status'[t] \in {status[t], "Deleted"}
  OBVIOUS
<1>. USE DEF QueueInv, TypeOK
<1>1. ASSUME NEW w \in Workers, WorkerStep(w)
      PROVE  status'[t] \in {status[t], "Deleted"}
  <2>1. ASSUME pc[w] = "report"  PROVE held[w] # t
    BY <2>1 DEF HeldInv
  <2>2. CASE Complete(w)
    BY <2>1, <2>2 DEF Complete
  <2>3. CASE Fail(w)
    BY <2>1, <2>3 DEF Fail, AttemptsLeft
  <2>4. CASE \E u \in Tasks : Claim(w, u)
    BY <2>4 DEF Claim, Runnable, PendingIn
  <2>5. CASE CheckGates(w) \/ ClaimNothing(w) \/ Register(w) \/ Return(w) \/ Dropped(w) \/ WriteLost(w)
    BY <2>5 DEF CheckGates, ClaimNothing, Register, Return, Dropped, WriteLost, rows
  <2>. QED  BY <1>1, <2>2, <2>3, <2>4, <2>5 DEF WorkerStep
<1>2. ASSUME NEW r \in Requests, RequestStep(r)
      PROVE  status'[t] \in {status[t], "Deleted"}
  BY <1>2 DEF RequestStep, ResetRows, FrontInsert, Insert, CancelRow, CancelRows, CancelFire,
     ResetFire, FrontRead, ResetRead, Active, rows
<1>3. ASSUME NEW u \in Tasks, Enqueue(u) \/ Prioritise(u) \/ BackoffEnds(u)
      PROVE  status'[t] \in {status[t], "Deleted"}
  BY <1>3 DEF Enqueue, Insert, Prioritise, BackoffEnds
<1>4. ASSUME NEW c \in Chapters, DeleteChapter(c)
      PROVE  status'[t] \in {status[t], "Deleted"}
  BY <1>4 DEF DeleteChapter
<1>5. CASE TogglePause \/ BeginShutdown
  BY <1>5 DEF TogglePause, BeginShutdown, rows
<1>6. CASE Prune
  BY <1>6 DEF Prune
<1>7. CASE Restart
  BY <1>7 DEF Restart, Stuck
<1>. QED  BY <1>1, <1>2, <1>3, <1>4, <1>5, <1>6, <1>7 DEF Next

(* No late result, cancel or restart revives a task that ended.            *)
THEOREM EndedStaysEnded == Spec => FinalIsFinal
  BY QueueInvariant, FinalStep, PTL DEF Spec, FinalIsFinal

-----------------------------------------------------------------------------
LEMMA OwnInvInit == Init => OwnInv
  BY QueueAssumption DEF Init, OwnInv, RunningIsOwned, FiredInv, RequestInv, IdleRequest

LEMMA OwnInvNext == QueueInv /\ OwnInv /\ [Next]_vars => OwnInv'
<1> SUFFICES ASSUME QueueInv, OwnInv, [Next]_vars
             PROVE  OwnInv'
  OBVIOUS
<1>. USE QueueAssumption DEF QueueInv, OwnInv, TypeOK
<1>1. ASSUME NEW w \in Workers, CheckGates(w)
      PROVE  OwnInv'
  <2>1. RunningIsOwned'
    BY <1>1 DEF CheckGates, rows, RunningIsOwned, HeldInv, FiredInv, Resetting, RequestInv, IdleRequest, Active
  <2>2. FiredInv'
    BY <1>1 DEF CheckGates, rows, HeldInv, OneHolder, TokenReachesRun, FiredInv, Resetting, RequestInv, IdleRequest, Active
  <2>3. RequestInv'
    BY <1>1 DEF CheckGates, rows, HeldInv, RequestInv, RequestType, IdleRequest, Active
  <2>. QED  BY <2>1, <2>2, <2>3
<1>2. ASSUME NEW w \in Workers, ClaimNothing(w)
      PROVE  OwnInv'
  <2>1. RunningIsOwned'
    BY <1>2 DEF ClaimNothing, rows, RunningIsOwned, HeldInv, FiredInv, Resetting, RequestInv, IdleRequest, Active
  <2>2. FiredInv'
    BY <1>2 DEF ClaimNothing, rows, HeldInv, OneHolder, TokenReachesRun, FiredInv, Resetting, RequestInv, IdleRequest, Active
  <2>3. RequestInv'
    BY <1>2 DEF ClaimNothing, rows, HeldInv, RequestInv, RequestType, IdleRequest, Active
  <2>. QED  BY <2>1, <2>2, <2>3
<1>3. ASSUME NEW w \in Workers, Register(w)
      PROVE  OwnInv'
  <2>1. RunningIsOwned'
    BY <1>3 DEF Register, rows, RunningIsOwned, HeldInv, FiredInv, Resetting, RequestInv, IdleRequest, Active
  <2>2. FiredInv'
    BY <1>3 DEF Register, rows, HeldInv, OneHolder, TokenReachesRun, FiredInv, Resetting, RequestInv, IdleRequest, Active
  <2>3. RequestInv'
    BY <1>3 DEF Register, rows, HeldInv, RequestInv, RequestType, IdleRequest, Active
  <2>. QED  BY <2>1, <2>2, <2>3
<1>4. ASSUME NEW w \in Workers, Return(w)
      PROVE  OwnInv'
  <2>1. RunningIsOwned'
    BY <1>4 DEF Return, rows, RunningIsOwned, HeldInv, FiredInv, Resetting, RequestInv, IdleRequest, Active
  <2>2. FiredInv'
    BY <1>4 DEF Return, rows, HeldInv, OneHolder, TokenReachesRun, FiredInv, Resetting, RequestInv, IdleRequest, Active
  <2>3. RequestInv'
    BY <1>4 DEF Return, rows, HeldInv, RequestInv, RequestType, IdleRequest, Active
  <2>. QED  BY <2>1, <2>2, <2>3
<1>5. ASSUME NEW w \in Workers, Complete(w)
      PROVE  OwnInv'
  <2>1. RunningIsOwned'
    BY <1>5 DEF Complete, LetGo, RunningIsOwned, HeldInv, FiredInv, Resetting, RequestInv, IdleRequest, Active
  <2>2. FiredInv'
    BY <1>5 DEF Complete, LetGo, HeldInv, OneHolder, TokenReachesRun, FiredInv, Resetting, RequestInv, IdleRequest, Active
  <2>3. RequestInv'
    BY <1>5 DEF Complete, LetGo, HeldInv, RequestInv, RequestType, IdleRequest, Active
  <2>. QED  BY <2>1, <2>2, <2>3
<1>6. ASSUME NEW w \in Workers, Fail(w)
      PROVE  OwnInv'
  <2>1. RunningIsOwned'
    BY <1>6 DEF Fail, AttemptsLeft, LetGo, RunningIsOwned, HeldInv, FiredInv, Resetting, RequestInv, IdleRequest, Active
  <2>2. FiredInv'
    BY <1>6 DEF Fail, AttemptsLeft, LetGo, HeldInv, OneHolder, TokenReachesRun, FiredInv, Resetting, RequestInv, IdleRequest, Active
  <2>3. RequestInv'
    BY <1>6 DEF Fail, AttemptsLeft, LetGo, HeldInv, RequestInv, RequestType, IdleRequest, Active
  <2>. QED  BY <2>1, <2>2, <2>3
<1>7. ASSUME NEW w \in Workers, Dropped(w)
      PROVE  OwnInv'
  <2>1. RunningIsOwned'
    BY <1>7 DEF Dropped, LetGo, rows, RunningIsOwned, HeldInv, FiredInv, Resetting, RequestInv, IdleRequest, Active
  <2>2. FiredInv'
    BY <1>7 DEF Dropped, LetGo, rows, HeldInv, OneHolder, TokenReachesRun, FiredInv, Resetting, RequestInv, IdleRequest, Active
  <2>3. RequestInv'
    BY <1>7 DEF Dropped, LetGo, rows, HeldInv, RequestInv, RequestType, IdleRequest, Active
  <2>. QED  BY <2>1, <2>2, <2>3
<1>8. ASSUME NEW w \in Workers, WriteLost(w)
      PROVE  OwnInv'
  <2>1. RunningIsOwned'
    BY <1>8 DEF WriteLost, LetGo, rows, RunningIsOwned, HeldInv, FiredInv, Resetting, RequestInv, IdleRequest, Active
  <2>2. FiredInv'
    BY <1>8 DEF WriteLost, LetGo, rows, HeldInv, OneHolder, TokenReachesRun, FiredInv, Resetting, RequestInv, IdleRequest, Active
  <2>3. RequestInv'
    BY <1>8 DEF WriteLost, LetGo, rows, HeldInv, RequestInv, RequestType, IdleRequest, Active
  <2>. QED  BY <2>1, <2>2, <2>3
<1>9. ASSUME NEW w \in Workers, NEW t \in Tasks, Claim(w, t)
      PROVE  OwnInv'
  <2>1. RunningIsOwned'
    BY <1>9 DEF Claim, Runnable, PendingIn, RunningIsOwned, HeldInv, FiredInv, Resetting, RequestInv, IdleRequest, Active
  <2>2. FiredInv'
    BY <1>9 DEF Claim, Runnable, PendingIn, HeldInv, OneHolder, TokenReachesRun, FiredInv, Resetting, RequestInv, IdleRequest, Active
  <2>3. RequestInv'
    BY <1>9 DEF Claim, Runnable, PendingIn, HeldInv, RequestInv, RequestType, IdleRequest, Active
  <2>. QED  BY <2>1, <2>2, <2>3
<1>10. ASSUME NEW r \in Requests, ResetRows(r)
      PROVE  OwnInv'
  <2>1. RunningIsOwned'
    BY <1>10 DEF ResetRows, CancelRows, loops, RunningIsOwned, HeldInv, FiredInv, Resetting, RequestInv, IdleRequest, Active
  <2>2. FiredInv'
    BY <1>10 DEF ResetRows, CancelRows, loops, HeldInv, OneHolder, TokenReachesRun, FiredInv, Resetting, RequestInv, IdleRequest, Active
  <2>3. RequestInv'
    BY <1>10 DEF ResetRows, CancelRows, loops, HeldInv, RequestInv, RequestType, IdleRequest, Active
  <2>. QED  BY <2>1, <2>2, <2>3
<1>11. ASSUME NEW r \in Requests, NEW t \in Tasks, FrontInsert(r, t)
      PROVE  OwnInv'
  <2>1. RunningIsOwned'
    BY <1>11 DEF FrontInsert, Insert, loops, RunningIsOwned, HeldInv, FiredInv, Resetting, RequestInv, IdleRequest, Active
  <2>2. FiredInv'
    BY <1>11 DEF FrontInsert, Insert, loops, HeldInv, OneHolder, TokenReachesRun, FiredInv, Resetting, RequestInv, IdleRequest, Active
  <2>3. RequestInv'
    BY <1>11 DEF FrontInsert, Insert, loops, HeldInv, RequestInv, RequestType, IdleRequest, Active
  <2>. QED  BY <2>1, <2>2, <2>3
<1>12. ASSUME NEW r \in Requests, NEW t \in Tasks, CancelRow(r, t)
      PROVE  OwnInv'
  <2>1. RunningIsOwned'
    BY <1>12 DEF CancelRow, CancelRows, loops, RunningIsOwned, HeldInv, FiredInv, Resetting, RequestInv, IdleRequest, Active
  <2>2. FiredInv'
    BY <1>12 DEF CancelRow, CancelRows, loops, HeldInv, OneHolder, TokenReachesRun, FiredInv, Resetting, RequestInv, IdleRequest, Active
  <2>3. RequestInv'
    <3> SUFFICES ASSUME NEW x \in Requests
                 PROVE  /\ req'[x].op = "cancel" =>
                             \A u \in req'[x].tasks :
                                \/ status'[u] \in {"Cancelled", "Completed", "Failed", "Deleted"}
                                \/ status'[u] = "Pending" /\ ~due'[u]
                        /\ req'[x].op = "reset" =>
                             \A u \in req'[x].tasks : ChapterOf[u] = req'[x].chapter
      BY DEF RequestInv
    <3>1. CASE x = r
      <4>1. req'[x] = [IdleRequest EXCEPT !.op = "cancel", !.tasks = {t}]
        BY <1>12, <3>1 DEF CancelRow
      <4>2. status'[t] \in {"Cancelled", "Completed", "Failed", "Deleted"}
        BY <1>12 DEF CancelRow, CancelRows, Active, Statuses
      <4>. QED  BY <4>1, <4>2 DEF IdleRequest
    <3>2. CASE x # r
      <4>1. req'[x] = req[x] /\ due' = due /\ req[x].tasks \subseteq Tasks
        BY <1>12, <3>2 DEF CancelRow, RequestType
      <4>2. \A u \in Tasks : status'[u] = status[u] \/ status'[u] = "Cancelled"
        BY <1>12 DEF CancelRow, CancelRows
      <4>. QED  BY <4>1, <4>2 DEF RequestInv
    <3>. QED  BY <3>1, <3>2
  <2>. QED  BY <2>1, <2>2, <2>3
<1>13. ASSUME NEW r \in Requests, NEW t \in Tasks, CancelFire(r, t)
      PROVE  OwnInv'
  <2>1. RunningIsOwned'
    BY <1>13 DEF CancelFire, Fire, rows, RunningIsOwned, HeldInv, FiredInv, Resetting, RequestInv, IdleRequest, Active
  <2>2. FiredInv'
    BY <1>13 DEF CancelFire, Fire, rows, HeldInv, OneHolder, TokenReachesRun, FiredInv, Resetting, RequestInv, IdleRequest, Active
  <2>3. RequestInv'
    BY <1>13 DEF CancelFire, Fire, rows, HeldInv, RequestInv, RequestType, IdleRequest, Active
  <2>. QED  BY <2>1, <2>2, <2>3
<1>14. ASSUME NEW r \in Requests, NEW t \in Tasks, ResetFire(r, t)
      PROVE  OwnInv'
  <2>1. RunningIsOwned'
    BY <1>14 DEF ResetFire, Fire, rows, RunningIsOwned, HeldInv, FiredInv, Resetting, RequestInv, IdleRequest, Active
  <2>2. FiredInv'
    BY <1>14 DEF ResetFire, Fire, rows, HeldInv, OneHolder, TokenReachesRun, FiredInv, Resetting, RequestInv, IdleRequest, Active
  <2>3. RequestInv'
    BY <1>14 DEF ResetFire, Fire, rows, HeldInv, RequestInv, RequestType, IdleRequest, Active
  <2>. QED  BY <2>1, <2>2, <2>3
<1>15. ASSUME NEW r \in Requests, NEW q \in Queues, FrontRead(r, q)
      PROVE  OwnInv'
  <2>1. RunningIsOwned'
    BY <1>15 DEF FrontRead, rows, loops, RunningIsOwned, HeldInv, FiredInv, Resetting, RequestInv, IdleRequest, Active
  <2>2. FiredInv'
    BY <1>15 DEF FrontRead, rows, loops, HeldInv, OneHolder, TokenReachesRun, FiredInv, Resetting, RequestInv, IdleRequest, Active
  <2>3. RequestInv'
    BY <1>15 DEF FrontRead, rows, loops, HeldInv, RequestInv, RequestType, IdleRequest, Active
  <2>. QED  BY <2>1, <2>2, <2>3
<1>16. ASSUME NEW r \in Requests, NEW c \in Chapters, ResetRead(r, c)
      PROVE  OwnInv'
  <2>1. RunningIsOwned'
    BY <1>16 DEF ResetRead, rows, loops, RunningIsOwned, HeldInv, FiredInv, Resetting, RequestInv, IdleRequest, Active
  <2>2. FiredInv'
    BY <1>16 DEF ResetRead, rows, loops, HeldInv, OneHolder, TokenReachesRun, FiredInv, Resetting, RequestInv, IdleRequest, Active
  <2>3. RequestInv'
    BY <1>16 DEF ResetRead, rows, loops, HeldInv, RequestInv, RequestType, IdleRequest, Active
  <2>. QED  BY <2>1, <2>2, <2>3
<1>17. ASSUME NEW t \in Tasks, Enqueue(t)
      PROVE  OwnInv'
  <2>1. RunningIsOwned'
    BY <1>17 DEF Enqueue, Insert, loops, RunningIsOwned, HeldInv, FiredInv, Resetting, RequestInv, IdleRequest, Active
  <2>2. FiredInv'
    BY <1>17 DEF Enqueue, Insert, loops, HeldInv, OneHolder, TokenReachesRun, FiredInv, Resetting, RequestInv, IdleRequest, Active
  <2>3. RequestInv'
    BY <1>17 DEF Enqueue, Insert, loops, HeldInv, RequestInv, RequestType, IdleRequest, Active
  <2>. QED  BY <2>1, <2>2, <2>3
<1>18. ASSUME NEW t \in Tasks, Prioritise(t)
      PROVE  OwnInv'
  <2>1. RunningIsOwned'
    BY <1>18 DEF Prioritise, loops, RunningIsOwned, HeldInv, FiredInv, Resetting, RequestInv, IdleRequest, Active
  <2>2. FiredInv'
    BY <1>18 DEF Prioritise, loops, HeldInv, OneHolder, TokenReachesRun, FiredInv, Resetting, RequestInv, IdleRequest, Active
  <2>3. RequestInv'
    BY <1>18 DEF Prioritise, loops, HeldInv, RequestInv, RequestType, IdleRequest, Active
  <2>. QED  BY <2>1, <2>2, <2>3
<1>19. ASSUME NEW t \in Tasks, BackoffEnds(t)
      PROVE  OwnInv'
  <2>1. RunningIsOwned'
    BY <1>19 DEF BackoffEnds, loops, RunningIsOwned, HeldInv, FiredInv, Resetting, RequestInv, IdleRequest, Active
  <2>2. FiredInv'
    BY <1>19 DEF BackoffEnds, loops, HeldInv, OneHolder, TokenReachesRun, FiredInv, Resetting, RequestInv, IdleRequest, Active
  <2>3. RequestInv'
    BY <1>19 DEF BackoffEnds, loops, HeldInv, RequestInv, RequestType, IdleRequest, Active
  <2>. QED  BY <2>1, <2>2, <2>3
<1>20. ASSUME NEW c \in Chapters, DeleteChapter(c)
      PROVE  OwnInv'
  <2>1. RunningIsOwned'
    BY <1>20 DEF DeleteChapter, loops, RunningIsOwned, HeldInv, FiredInv, Resetting, RequestInv, IdleRequest, Active
  <2>2. FiredInv'
    BY <1>20 DEF DeleteChapter, loops, HeldInv, OneHolder, TokenReachesRun, FiredInv, Resetting, RequestInv, IdleRequest, Active
  <2>3. RequestInv'
    BY <1>20 DEF DeleteChapter, loops, HeldInv, RequestInv, RequestType, IdleRequest, Active
  <2>. QED  BY <2>1, <2>2, <2>3
<1>21. ASSUME TogglePause
      PROVE  OwnInv'
  <2>1. RunningIsOwned'
    BY <1>21 DEF TogglePause, rows, loops, RunningIsOwned, HeldInv, FiredInv, Resetting, RequestInv, IdleRequest, Active
  <2>2. FiredInv'
    BY <1>21 DEF TogglePause, rows, loops, HeldInv, OneHolder, TokenReachesRun, FiredInv, Resetting, RequestInv, IdleRequest, Active
  <2>3. RequestInv'
    BY <1>21 DEF TogglePause, rows, loops, HeldInv, RequestInv, RequestType, IdleRequest, Active
  <2>. QED  BY <2>1, <2>2, <2>3
<1>22. ASSUME BeginShutdown
      PROVE  OwnInv'
  <2>1. RunningIsOwned'
    BY <1>22 DEF BeginShutdown, rows, loops, RunningIsOwned, HeldInv, FiredInv, Resetting, RequestInv, IdleRequest, Active
  <2>2. FiredInv'
    BY <1>22 DEF BeginShutdown, rows, loops, HeldInv, OneHolder, TokenReachesRun, FiredInv, Resetting, RequestInv, IdleRequest, Active
  <2>3. RequestInv'
    BY <1>22 DEF BeginShutdown, rows, loops, HeldInv, RequestInv, RequestType, IdleRequest, Active
  <2>. QED  BY <2>1, <2>2, <2>3
<1>23. ASSUME Prune
      PROVE  OwnInv'
  <2>1. RunningIsOwned'
    BY <1>23 DEF Prune, History, loops, RunningIsOwned, HeldInv, FiredInv, Resetting, RequestInv, IdleRequest, Active
  <2>2. FiredInv'
    BY <1>23 DEF Prune, History, loops, HeldInv, OneHolder, TokenReachesRun, FiredInv, Resetting, RequestInv, IdleRequest, Active
  <2>3. RequestInv'
    BY <1>23 DEF Prune, History, loops, HeldInv, RequestInv, RequestType, IdleRequest, Active
  <2>. QED  BY <2>1, <2>2, <2>3
<1>24. ASSUME Restart
      PROVE  OwnInv'
  <2>1. RunningIsOwned'
    BY <1>24 DEF Restart, Stuck, RunningIsOwned, HeldInv, FiredInv, Resetting, RequestInv, IdleRequest, Active
  <2>2. FiredInv'
    BY <1>24 DEF Restart, Stuck, HeldInv, OneHolder, TokenReachesRun, FiredInv, Resetting, RequestInv, IdleRequest, Active
  <2>3. RequestInv'
    BY <1>24 DEF Restart, Stuck, HeldInv, RequestInv, RequestType, IdleRequest, Active
  <2>. QED  BY <2>1, <2>2, <2>3
<1>25. CASE UNCHANGED vars
  BY <1>25 DEF vars, rows, loops, settings, RunningIsOwned, FiredInv, Resetting, RequestInv
<1>. QED
  BY <1>1, <1>2, <1>3, <1>4, <1>5, <1>6, <1>7, <1>8, <1>9, <1>10, <1>11, <1>12, <1>13, <1>14, <1>15, <1>16, <1>17, <1>18, <1>19, <1>20, <1>21, <1>22, <1>23, <1>24, <1>25 DEF Next, WorkerStep, RequestStep

(* A Running row has a worker, or a failed write or a reset in progress    *)
(* explains why not.                                                       *)
THEOREM RunningRowsOwned == Spec => []RunningIsOwned
  BY QueueInvariant, OwnInvInit, OwnInvNext, PTL DEF Spec, OwnInv

-----------------------------------------------------------------------------
(* Retention: a set of rows, if there are any, has a newest one.           *)
LEMMA NewestExists ==
  ASSUME TypeOK, NEW D \in SUBSET Tasks, D # {}, NEW top \in Nat,
         \A u \in D : created[u] < top
  PROVE  \E m \in D : \A u \in D : created[u] <= created[m]
<1> DEFINE A == {n \in Nat : \E u \in D : n = top - created[u]}
<1>. USE DEF TypeOK
<1>1. A \subseteq Nat /\ A # {}
  <2>1. PICK u \in D : TRUE
    OBVIOUS
  <2>2. created[u] \in Nat /\ created[u] < top
    OBVIOUS
  <2>3. top - created[u] \in Nat
    BY <2>2
  <2>. QED  BY <2>3
<1>2. \E k \in A : \A n \in A : ~(<<n, k>> \in OpToRel(<, Nat))
  <2>. HIDE DEF A
  <2>. QED  BY <1>1, NatLessThanWellFounded, WFMin
<1>3. PICK k \in A : \A n \in A : ~(n < k)
  BY <1>1, <1>2 DEF OpToRel
<1>4. PICK m \in D : k = top - created[m]
  BY <1>3
<1>5. ASSUME NEW u \in D  PROVE created[u] <= created[m]
  <2>1. created[u] \in Nat /\ created[u] < top /\ created[m] \in Nat
    OBVIOUS
  <2>2. top - created[u] \in A
    BY <2>1
  <2>3. ~(top - created[u] < top - created[m])
    BY <1>3, <1>4, <2>2
  <2>. QED  BY <2>1, <2>3
<1>. QED  BY <1>5

(* Of a sweep's rows the newest, or the row in question if none is newer,  *)
(* has min_keep newer rows, and all of these stay.                         *)
LEMMA SweepLeavesFloor ==
  ASSUME QueueInv, Prune, NEW t \in Tasks, status[t] # "Deleted", status'[t] = "Deleted"
  PROVE  MinKeep <= Cardinality({u \in Tasks : /\ status'[u] \in {"Completed", "Cancelled"}
                                              /\ created'[u] > created[t]})
<1> DEFINE Newer(m) == {u \in History : created[u] > created[m]}
           Staying  == {u \in Tasks : /\ status'[u] \in {"Completed", "Cancelled"}
                                      /\ created'[u] > created[t]}
           Swept    == {u \in Newer(t) : status'[u] = "Deleted"}
<1>. USE DEF QueueInv
<1>1. PICK cutoff \in 1..(inserts + 1) :
        status' = [u \in Tasks |-> IF u \in History /\ created[u] < cutoff /\ ~Kept(u)
                                   THEN "Deleted" ELSE status[u]]
  BY DEF Prune
<1>2. created' = created /\ History \subseteq Tasks /\ created \in [Tasks -> Nat]
  BY DEF Prune, History, TypeOK
<1>3. ASSUME NEW m \in Tasks, status[m] # "Deleted", status'[m] = "Deleted"
      PROVE  created[m] < cutoff /\ MinKeep <= Cardinality(Newer(m))
  <2>1. m \in History /\ created[m] < cutoff /\ ~Kept(m)
    BY <1>1, <1>3
  <2>2. IsFiniteSet(Newer(m))
    BY <1>2, FS_Subset, QueueAssumption
  <2>3. Cardinality(Newer(m)) \in Nat /\ MinKeep \in Nat
    BY <2>2, FS_CardinalityType, QueueAssumption
  <2>. QED  BY <2>1, <2>3 DEF Kept
<1>4. IsFiniteSet(Staying) /\ Cardinality(Staying) \in Nat
  BY FS_Subset, FS_CardinalityType, QueueAssumption
<1>5. ASSUME NEW m \in Tasks, status[m] # "Deleted", status'[m] = "Deleted",
             Newer(m) \subseteq Staying
      PROVE  MinKeep <= Cardinality(Staying)
  <2>1. MinKeep <= Cardinality(Newer(m))
    BY <1>3, <1>5
  <2>2. Cardinality(Newer(m)) <= Cardinality(Staying) /\ IsFiniteSet(Newer(m))
    BY <1>4, <1>5, FS_Subset
  <2>3. Cardinality(Newer(m)) \in Nat /\ MinKeep \in Nat
    BY <2>2, FS_CardinalityType, QueueAssumption
  <2>. QED  BY <1>4, <2>1, <2>2, <2>3
<1>6. ASSUME NEW u \in History, status'[u] # "Deleted"
      PROVE  status'[u] \in {"Completed", "Cancelled"}
  BY <1>1, <1>6 DEF History
<1>7. CASE Swept = {}
  <2>1. Newer(t) \subseteq Staying
    BY <1>2, <1>6, <1>7
  <2>. QED  BY <1>5, <2>1
<1>8. CASE Swept # {}
  <2>1. ASSUME NEW u \in Swept  PROVE u \in Tasks /\ status[u] # "Deleted" /\ created[u] < cutoff
    <3>1. u \in Tasks /\ status[u] # "Deleted" /\ status'[u] = "Deleted"
      BY <1>2, <2>1 DEF History
    <3>. QED  BY <1>3, <3>1
  <2>2. cutoff \in Nat
    BY DEF TypeOK
  <2>3. PICK m \in Swept : \A u \in Swept : created[u] <= created[m]
    <3>. HIDE DEF Swept
    <3>. QED  BY <1>8, <2>1, <2>2, NewestExists
  <2>4. m \in Tasks /\ status[m] # "Deleted" /\ status'[m] = "Deleted" /\ created[m] > created[t]
    BY <2>1
  <2>5. ASSUME NEW u \in Newer(m)  PROVE u \in Staying
    <3>1. u \in Tasks /\ created[u] > created[m] /\ created[u] \in Nat /\ created[m] \in Nat
          /\ created[t] \in Nat
      BY <1>2, <2>4
    <3>2. u \in Newer(t)
      BY <2>4, <3>1
    <3>3. status'[u] # "Deleted"
      BY <2>3, <3>1, <3>2
    <3>. QED  BY <1>2, <1>6, <3>1, <3>2, <3>3
  <2>. QED  BY <1>5, <2>4, <2>5
<1>. QED  BY <1>7, <1>8

(* A row goes with its chapter or in a sweep of the history.               *)
LEMMA RetentionStep ==
  ASSUME QueueInv, Next, NEW t \in Tasks,
         status[t] # "Deleted", status'[t] = "Deleted", ~(\E c \in Chapters : DeleteChapter(c))
  PROVE  /\ status[t] \in {"Completed", "Cancelled"}
         /\ Prune
<1>. USE DEF QueueInv, TypeOK
<1>1. ASSUME NEW w \in Workers, WorkerStep(w)  PROVE status'[t] # "Deleted"
  <2>1. CASE Complete(w)
    BY <2>1 DEF Complete
  <2>2. CASE Fail(w)
    BY <2>2 DEF Fail
  <2>3. CASE \E u \in Tasks : Claim(w, u)
    BY <2>3 DEF Claim
  <2>4. CASE CheckGates(w) \/ ClaimNothing(w) \/ Register(w) \/ Return(w) \/ Dropped(w) \/ WriteLost(w)
    BY <2>4 DEF CheckGates, ClaimNothing, Register, Return, Dropped, WriteLost, rows
  <2>. QED  BY <1>1, <2>1, <2>2, <2>3, <2>4 DEF WorkerStep
<1>2. ASSUME NEW r \in Requests, RequestStep(r)  PROVE status'[t] # "Deleted"
  BY <1>2 DEF RequestStep, ResetRows, FrontInsert, Insert, CancelRow, CancelRows, CancelFire,
     ResetFire, FrontRead, ResetRead, rows
<1>3. ASSUME NEW u \in Tasks, Enqueue(u) \/ Prioritise(u) \/ BackoffEnds(u)
      PROVE  status'[t] # "Deleted"
  BY <1>3 DEF Enqueue, Insert, Prioritise, BackoffEnds
<1>4. ~(TogglePause \/ BeginShutdown \/ Restart)
  BY DEF TogglePause, BeginShutdown, Restart, rows
<1>5. Prune
  BY <1>1, <1>2, <1>3, <1>4 DEF Next
<1>. QED  BY <1>5 DEF Prune, History

(* A row that goes, other than with its chapter, was Completed or          *)
(* Cancelled, never Failed, and min_keep newer rows of the history stay    *)
(* when the sweep is over.                                                 *)
THEOREM RetentionTakesHistoryOnly == Spec => RetentionSparesWork
<1>1. QueueInv /\ [Next]_vars =>
        [\A t \in Tasks :
           status[t] # "Deleted" /\ status'[t] = "Deleted" /\ ~(\E c \in Chapters : DeleteChapter(c)) =>
             /\ status[t] \in {"Completed", "Cancelled"}
             /\ MinKeep <= Cardinality({u \in Tasks : /\ status'[u] \in {"Completed", "Cancelled"}
                                                    /\ created'[u] > created[t]})]_vars
  BY RetentionStep, SweepLeavesFloor
<1>. QED  BY <1>1, QueueInvariant, PTL DEF Spec, RetentionSparesWork

-----------------------------------------------------------------------------
(* The refinement of TaskLease. What the queue's state says of a task in   *)
(* the terms of the lease: its holder is the worker that has it in hand,   *)
(* and the phase of a task nobody has in hand follows from its status.     *)
PhaseOfStatus(s) ==
  CASE s = "Absent"  -> "new"
    [] s = "Pending" -> "offered"
    [] s = "Running" -> "stranded"
    [] OTHER         -> "closed"

LeaseView ==
  \A t \in Tasks :
     /\ HolderOf(t) \in Workers \cup {NoWorker}
     /\ \A w \in Workers : HolderOf(t) = w <=> held[w] = t
     /\ HolderOf(t) # NoWorker => PhaseOf(t) = "held"
     /\ HolderOf(t) = NoWorker => PhaseOf(t) = PhaseOfStatus(status[t])

LEMMA LeaseViewHolds == QueueInv => LeaseView
<1> SUFFICES ASSUME QueueInv, NEW t \in Tasks
             PROVE  /\ HolderOf(t) \in Workers \cup {NoWorker}
                    /\ \A w \in Workers : HolderOf(t) = w <=> held[w] = t
                    /\ HolderOf(t) # NoWorker => PhaseOf(t) = "held"
                    /\ HolderOf(t) = NoWorker => PhaseOf(t) = PhaseOfStatus(status[t])
  BY DEF LeaseView
<1>0. t # NoTask /\ NoWorker \notin Workers
  BY QueueAssumption
<1>1. CASE \E w \in Workers : held[w] = t
  <2>1. HolderOf(t) \in Workers /\ held[HolderOf(t)] = t
    BY <1>1 DEF HolderOf
  <2>2. PhaseOf(t) = "held"
    BY <1>1 DEF PhaseOf
  <2>. QED  BY <1>0, <2>1, <2>2 DEF QueueInv, OneHolder
<1>2. CASE ~ \E w \in Workers : held[w] = t
  <2>1. HolderOf(t) = NoWorker
    BY <1>2 DEF HolderOf
  <2>2. PhaseOf(t) = PhaseOfStatus(status[t])
    BY <1>2 DEF PhaseOf, PhaseOfStatus
  <2>. QED  BY <1>0, <1>2, <2>1, <2>2
<1>. QED  BY <1>1, <1>2

(* A task whose status and holder stay stays as it was in the lease.       *)
LEMMA LeaseFrame ==
  ASSUME LeaseView, LeaseView', NEW t \in Tasks,
         status'[t] = status[t], \A w \in Workers : held'[w] = t <=> held[w] = t
  PROVE  PhaseOf(t)' = PhaseOf(t) /\ HolderOf(t)' = HolderOf(t)
<1>1. HolderOf(t)' = HolderOf(t)
  BY QueueAssumption DEF LeaseView
<1>2. PhaseOf(t)' = PhaseOf(t)
  BY <1>1 DEF LeaseView
<1>. QED  BY <1>1, <1>2

(* A task in hand is Running, or was cancelled or deleted meanwhile.       *)
LEMMA HeldStatus ==
  ASSUME LeaseView, QueueInv, NEW t \in Tasks, HolderOf(t) # NoWorker
  PROVE  status[t] \in {"Running", "Cancelled", "Deleted"}
<1>1. PICK w \in Workers : held[w] = t
  BY DEF LeaseView
<1>. QED  BY <1>1, QueueAssumption DEF QueueInv, HeldInv

LEMMA LeaseInitial == Init => Lease!LeaseInit
<1> SUFFICES ASSUME Init  PROVE Lease!LeaseInit
  OBVIOUS
<1>1. ASSUME NEW t \in Tasks  PROVE PhaseOf(t) = "new" /\ HolderOf(t) = NoWorker
  BY QueueAssumption DEF Init, PhaseOf, HolderOf
<1>. QED  BY <1>1 DEF Lease!LeaseInit

(* Nothing in hand changes: the rows may be cancelled or deleted.          *)
LEMMA CloseStep ==
  ASSUME LeaseView, LeaseView', held' = held,
         \A t \in Tasks : \/ status'[t] \in {"Cancelled", "Deleted"} /\ status[t] # "Absent"
                         \/ status'[t] = status[t]
  PROVE  Lease!Close
<1>1. \A t \in Tasks : HolderOf(t)' = HolderOf(t)
  BY QueueAssumption DEF LeaseView
<1>2. ASSUME NEW t \in Tasks
      PROVE  \/ PhaseOf(t)' = PhaseOf(t)
             \/ PhaseOf(t) \in {"offered", "stranded"} /\ PhaseOf(t)' = "closed"
  <2>1. CASE HolderOf(t) # NoWorker
    BY <1>1, <2>1 DEF LeaseView
  <2>2. CASE HolderOf(t) = NoWorker
    <3>1. PhaseOf(t) = PhaseOfStatus(status[t]) /\ PhaseOf(t)' = PhaseOfStatus(status'[t])
      BY <1>1, <2>2 DEF LeaseView
    <3>. QED  BY <3>1 DEF PhaseOfStatus
  <2>. QED  BY <2>1, <2>2
<1>3. \A t \in Tasks : PhaseOf(t)' \in {"new", "offered", "held", "stranded", "closed"}
  BY DEF LeaseView, PhaseOfStatus
<1>. QED  BY <1>1, <1>2, <1>3 DEF Lease!Close, Lease!Phases

(* A row is inserted.                                                      *)
LEMMA OfferStep ==
  ASSUME LeaseView, LeaseView', held' = held, NEW t \in Tasks,
         status[t] = "Absent", status' = [status EXCEPT ![t] = "Pending"],
         QueueInv
  PROVE  Lease!Offer(t)
<1>1. \A u \in Tasks : HolderOf(u)' = HolderOf(u)
  BY QueueAssumption DEF LeaseView
<1>2. HolderOf(t) = NoWorker
  BY HeldStatus
<1>3. PhaseOf(t) = "new" /\ PhaseOf(t)' = "offered"
  BY <1>1, <1>2 DEF LeaseView, PhaseOfStatus, QueueInv, TypeOK
<1>4. \A u \in Tasks : u # t => PhaseOf(u)' = PhaseOf(u)
  BY <1>1 DEF LeaseView, QueueInv, TypeOK
<1>. QED  BY <1>1, <1>3, <1>4 DEF Lease!Offer

(* A worker has nothing in hand when it claims, and nobody has the row.    *)
LEMMA TakeStep ==
  ASSUME LeaseView, LeaseView', QueueInv, NEW w \in Workers, NEW t \in Tasks, Claim(w, t)
  PROVE  Lease!Take(w, t)
<1>. USE DEF QueueInv, TypeOK
<1>1. status[t] = "Pending" /\ status'[t] = "Running" /\ held[w] = NoTask
  BY DEF Claim, Runnable, PendingIn, HeldInv
<1>2. HolderOf(t) = NoWorker
  BY <1>1, HeldStatus
<1>3. HolderOf(t)' = w
  BY DEF Claim, LeaseView
<1>4. \A u \in Tasks : HolderOf(u) # w
  BY <1>1, QueueAssumption DEF LeaseView
<1>5. PhaseOf(t) = "offered" /\ PhaseOf(t)' = "held"
  BY <1>1, <1>2, <1>3, QueueAssumption DEF LeaseView, PhaseOfStatus
<1>6. ASSUME NEW u \in Tasks, u # t
      PROVE  PhaseOf(u)' = PhaseOf(u) /\ HolderOf(u)' = HolderOf(u)
  <2>1. status'[u] = status[u] /\ \A v \in Workers : held'[v] = u <=> held[v] = u
    BY <1>1, <1>6, QueueAssumption DEF Claim
  <2>. QED  BY <2>1, LeaseFrame
<1>. QED  BY <1>2, <1>3, <1>4, <1>5, <1>6 DEF Lease!Take

(* A worker lets go of its task, whatever it reports of it.                *)
LEMMA ReleaseStep ==
  ASSUME LeaseView, LeaseView', QueueInv, NEW w \in Workers, NEW t \in Tasks,
         held[w] = t, LetGo(w),
         \A u \in Tasks : u # t => status'[u] = status[u],
         status'[t] # "Absent"
  PROVE  Lease!Release(w, t)
<1>. USE DEF QueueInv, TypeOK
<1>1. HolderOf(t) = w /\ HolderOf(t)' = NoWorker
  <2>1. \A v \in Workers : held'[v] # t
    BY QueueAssumption DEF LetGo, OneHolder
  <2>. QED  BY <2>1 DEF LeaseView
<1>2. PhaseOf(t)' \in {"offered", "closed", "stranded"}
  BY <1>1 DEF LeaseView, PhaseOfStatus
<1>3. ASSUME NEW u \in Tasks, u # t
      PROVE  PhaseOf(u)' = PhaseOf(u) /\ HolderOf(u)' = HolderOf(u)
  <2>1. status'[u] = status[u] /\ \A v \in Workers : held'[v] = u <=> held[v] = u
    BY <1>3, QueueAssumption DEF LetGo
  <2>. QED  BY <2>1, LeaseFrame
<1>. QED  BY <1>1, <1>2, <1>3 DEF Lease!Release

(* Every worker is gone: what was in hand is free, and Running rows may    *)
(* have been made Pending.                                                 *)
LEMMA RestartStep ==
  ASSUME LeaseView, LeaseView', QueueInv, Restart
  PROVE  Lease!LeaseRestart
<1>. USE DEF QueueInv, TypeOK
<1>1. ASSUME NEW t \in Tasks
      PROVE  HolderOf(t)' = NoWorker /\ PhaseOf(t)' = PhaseOfStatus(status'[t])
  BY QueueAssumption DEF Restart, LeaseView
<1>2. \A t \in Tasks : \/ status'[t] = status[t]
                       \/ status[t] = "Running" /\ status'[t] = "Pending"
  BY DEF Restart, Stuck
<1>3. ASSUME NEW t \in Tasks
      PROVE  \/ PhaseOf(t)' = PhaseOf(t) /\ PhaseOf(t) # "held"
             \/ PhaseOf(t) = "held" /\ PhaseOf(t)' \in {"offered", "stranded", "closed"}
             \/ PhaseOf(t) = "stranded" /\ PhaseOf(t)' = "offered"
  <2>1. CASE HolderOf(t) = NoWorker
    BY <1>1, <1>2, <2>1 DEF LeaseView, PhaseOfStatus
  <2>2. CASE HolderOf(t) # NoWorker
    <3>1. status[t] \in {"Running", "Cancelled", "Deleted"}
      BY <2>2, HeldStatus
    <3>. QED  BY <1>1, <1>2, <2>2, <3>1 DEF LeaseView, PhaseOfStatus
  <2>. QED  BY <2>1, <2>2
<1>4. \A t \in Tasks : PhaseOf(t)' \in {"new", "offered", "held", "stranded", "closed"}
  BY <1>1 DEF PhaseOfStatus
<1>. QED  BY <1>1, <1>3, <1>4 DEF Lease!LeaseRestart, Lease!Phases

(* Every step of the queue is a step of the lease, or leaves it alone.     *)
LEMMA LeaseStep ==
  QueueInv /\ QueueInv' /\ [Next]_vars => [Lease!LeaseNext]_(Lease!lvars)
<1> SUFFICES ASSUME QueueInv, QueueInv', [Next]_vars
             PROVE  Lease!LeaseNext \/ UNCHANGED Lease!lvars
  OBVIOUS
<1>0. LeaseView /\ LeaseView'
  BY LeaseViewHolds, PTL
<1>1. ASSUME UNCHANGED <<status, held>>
      PROVE  UNCHANGED Lease!lvars
  <2>1. \A t \in Tasks : PhaseOf(t)' = PhaseOf(t) /\ HolderOf(t)' = HolderOf(t)
    BY <1>0, <1>1, LeaseFrame
  <2>. QED  BY <2>1 DEF Lease!lvars
<1>2. ASSUME held' = held,
             \A t \in Tasks : \/ status'[t] \in {"Cancelled", "Deleted"} /\ status[t] # "Absent"
                              \/ status'[t] = status[t]
      PROVE  Lease!LeaseNext
  BY <1>0, <1>2, CloseStep DEF Lease!LeaseNext
<1>3. ASSUME NEW w \in Workers, WorkerStep(w)
      PROVE  Lease!LeaseNext \/ UNCHANGED Lease!lvars
  <2>1. CASE CheckGates(w) \/ ClaimNothing(w) \/ Register(w) \/ Return(w)
    BY <1>1, <2>1 DEF CheckGates, ClaimNothing, Register, Return, rows
  <2>2. ASSUME pc[w] = "report"
        PROVE  held[w] \in Tasks /\ status[held[w]] \in {"Running", "Cancelled", "Deleted"}
    BY <2>2 DEF QueueInv, TypeOK, HeldInv
  <2>3. ASSUME pc[w] = "report", LetGo(w),
               \A u \in Tasks : u # held[w] => status'[u] = status[u],
               status'[held[w]] # "Absent"
        PROVE  Lease!LeaseNext
    <3>1. PICK t \in Tasks : t = held[w]
      BY <2>2, <2>3
    <3>2. Lease!Release(w, t)
      BY <1>0, <2>3, <3>1, ReleaseStep
    <3>. QED  BY <3>2 DEF Lease!LeaseNext
  <2>4. CASE Complete(w)
    BY <2>2, <2>3, <2>4 DEF Complete, QueueInv, TypeOK
  <2>5. CASE Fail(w)
    BY <2>2, <2>3, <2>5 DEF Fail, QueueInv, TypeOK
  <2>6. CASE Dropped(w)
    BY <2>2, <2>3, <2>6 DEF Dropped, rows, QueueInv, TypeOK
  <2>7. CASE WriteLost(w)
    BY <2>2, <2>3, <2>7 DEF WriteLost, rows, QueueInv, TypeOK
  <2>8. CASE \E t \in Tasks : Claim(w, t)
    BY <1>0, <2>8, TakeStep DEF Lease!LeaseNext
  <2>. QED  BY <1>3, <2>1, <2>4, <2>5, <2>6, <2>7, <2>8 DEF WorkerStep
<1>4. ASSUME NEW t \in Tasks, NEW p, Insert(t, p), held' = held
      PROVE  Lease!LeaseNext
  <2>1. Lease!Offer(t)
    BY <1>0, <1>4, OfferStep DEF Insert
  <2>. QED  BY <2>1 DEF Lease!LeaseNext
<1>5. ASSUME NEW r \in Requests, RequestStep(r)
      PROVE  Lease!LeaseNext \/ UNCHANGED Lease!lvars
  <2>1. CASE \E t \in Tasks : FrontInsert(r, t)
    BY <1>4, <2>1 DEF FrontInsert, loops
  <2>2. CASE ResetRows(r) \/ \E t \in Tasks : CancelRow(r, t)
    BY <1>2, <2>2 DEF ResetRows, CancelRow, CancelRows, Active, loops
  <2>3. CASE \/ \E t \in Tasks : CancelFire(r, t) \/ ResetFire(r, t)
             \/ \E q \in Queues : FrontRead(r, q)
             \/ \E c \in Chapters : ResetRead(r, c)
    BY <1>1, <2>3 DEF CancelFire, ResetFire, FrontRead, ResetRead, rows, loops
  <2>. QED  BY <1>5, <2>1, <2>2, <2>3 DEF RequestStep
<1>6. ASSUME NEW t \in Tasks, Enqueue(t)
      PROVE  Lease!LeaseNext
  BY <1>4, <1>6 DEF Enqueue, loops
<1>7. ASSUME NEW t \in Tasks, Prioritise(t) \/ BackoffEnds(t)
      PROVE  UNCHANGED Lease!lvars
  BY <1>1, <1>7 DEF Prioritise, BackoffEnds, loops
<1>8. ASSUME NEW c \in Chapters, DeleteChapter(c)
      PROVE  Lease!LeaseNext
  BY <1>2, <1>8 DEF DeleteChapter, loops
<1>9. CASE TogglePause \/ BeginShutdown \/ UNCHANGED vars
  BY <1>1, <1>9 DEF TogglePause, BeginShutdown, vars, rows, loops
<1>10. CASE Prune
  BY <1>2, <1>10 DEF Prune, History, loops
<1>11. CASE Restart
  BY <1>0, <1>11, RestartStep DEF Lease!LeaseNext
<1>. QED  BY <1>3, <1>5, <1>6, <1>7, <1>8, <1>9, <1>10, <1>11 DEF Next

(* The queue implements the lease: a task is handed to one worker at a     *)
(* time, closed tasks are never handed out again, and a task that lost its *)
(* worker without the queue knowing comes back through a restart only.     *)
THEOREM QueueImplementsLease == Spec => ImplementsLease
  BY QueueInvariant, LeaseInitial, LeaseStep, PTL DEF Spec, ImplementsLease, Lease!LeaseSpec
==============================================================================
