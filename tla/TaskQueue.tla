------------------------------ MODULE TaskQueue ------------------------------
(***************************************************************************)
(* The Task table of rebarr (src/db/task.rs), the queue workers that claim *)
(* from it and report back (src/scheduler/worker.rs), the cancellation     *)
(* tokens they publish in the CancelMap, and the HTTP handlers that cancel, *)
(* reset, prioritise and front-insert tasks (src/api/tasks.rs and          *)
(* src/api/chapters.rs).                                                   *)
(*                                                                         *)
(* A row's queue and chapter never change once inserted, so they are       *)
(* constant functions of the row. created_at is the insertion order;       *)
(* run_after is kept as whether it has passed. What a task does while it   *)
(* is dispatched is the subject of other modules: here a dispatch ends in  *)
(* one of the three results queue_worker tells apart.                      *)
(***************************************************************************)
EXTENDS Integers, FiniteSets

CONSTANTS
  Tasks,        (* row ids: each is inserted at most once (UUIDv4)         *)
  Workers,      (* tasks running queue_worker                              *)
  Queues,       (* "system" and one queue per provider                     *)
  Chapters,     (* chapters with DownloadChapter tasks                     *)
  Requests,     (* HTTP handlers in flight                                 *)
  NoTask, NoWorker, NoChapter, NoQueue,
  QueueOf,      (* the queue column of each row                            *)
  ChapterOf,    (* its chapter_id, or NoChapter: only DownloadChapter rows *)
                (* have one here, being the only cancellable ones          *)
  WorkerQueue,  (* the queue each worker polls                             *)
  Priorities,   (* priorities the callers of enqueue use                   *)
  MinPriority,  (* i64::MIN, where saturating_sub stops                    *)
  MaxAttempts,  (* the max_attempts column, 3 for every row                *)
  MinKeep,      (* RetentionPolicy.min_keep                                *)
  Operator,     (* whether somebody pauses the queue and stops the daemon  *)
  MaxRestarts,  (* bound: crashes or shutdowns of the daemon               *)
  MaxLost       (* bound: database writes of the worker that fail          *)

ASSUME QueueAssumption ==
  /\ IsFiniteSet(Tasks)
  /\ NoTask \notin Tasks /\ NoWorker \notin Workers /\ NoChapter \notin Chapters
  /\ NoQueue \notin Queues
  /\ QueueOf \in [Tasks -> Queues]
  /\ ChapterOf \in [Tasks -> Chapters \cup {NoChapter}]
  /\ WorkerQueue \in [Workers -> Queues]
  /\ MinPriority \in Int /\ MinPriority < 0
  /\ Priorities \subseteq {p \in Int : p >= MinPriority}
  /\ MaxAttempts \in Nat \ {0}
  /\ Operator \in BOOLEAN
  /\ MinKeep \in Nat /\ MaxRestarts \in Nat /\ MaxLost \in Nat

VARIABLES
  status,       (* Task.status; "Absent" before INSERT, "Deleted" after    *)
  priority,     (* Task.priority: the lowest is claimed first              *)
  created,      (* Task.created_at                                         *)
  attempt,      (* Task.attempt: failures so far                           *)
  due,          (* Task.run_after <= now                                   *)
  inserts,      (* the clock created_at is read from                       *)
  paused,       (* the queue_paused setting                                *)
  shutdown,     (* the shutdown token                                      *)
  pc,           (* where each worker is in its loop                        *)
  held,         (* the task a worker has in hand                           *)
  outcome,      (* what its dispatch returned                              *)
  signalled,    (* its cancellation token                                  *)
  cancelMap,    (* CancelMap: the worker whose token a task id leads to    *)
  req,          (* what each HTTP handler in flight has read and must do   *)
  restarts,     (* restarts so far                                         *)
  lost          (* rows left Running by a write of ours that failed        *)

rows     == <<status, priority, created, attempt, due, inserts>>
loops    == <<pc, held, outcome, signalled, cancelMap>>
settings == <<paused, shutdown, restarts>>
vars     == <<rows, loops, settings, req, lost>>

Statuses == {"Absent", "Pending", "Running", "Completed", "Failed", "Cancelled", "Deleted"}
Active   == {"Pending", "Running"}
Priority == {p \in Int : p >= MinPriority}

IdleRequest ==
  [op |-> "idle", tasks |-> {}, chapter |-> NoChapter, queue |-> NoQueue, prio |-> 0]

RequestType ==
  [op      : {"idle", "cancel", "reset", "front"},
   tasks   : SUBSET Tasks,
   chapter : Chapters \cup {NoChapter},
   queue   : Queues \cup {NoQueue},
   prio    : Priority]

Init ==
  /\ status    = [t \in Tasks |-> "Absent"]
  /\ priority  = [t \in Tasks |-> 0]
  /\ created   = [t \in Tasks |-> 0]
  /\ attempt   = [t \in Tasks |-> 0]
  /\ due       = [t \in Tasks |-> FALSE]
  /\ inserts   = 0
  /\ paused    = FALSE
  /\ shutdown  = FALSE
  /\ pc        = [w \in Workers |-> "poll"]
  /\ held      = [w \in Workers |-> NoTask]
  /\ outcome   = [w \in Workers |-> "none"]
  /\ signalled = [w \in Workers |-> FALSE]
  /\ cancelMap = [t \in Tasks |-> NoWorker]
  /\ req       = [r \in Requests |-> IdleRequest]
  /\ restarts  = 0
  /\ lost      = {}

-----------------------------------------------------------------------------
(* Inserting and reordering rows.                                          *)

(* Mutant: the claim forgets status = 'Pending' and finds running rows too. *)
ActiveIn(q) == {t \in Tasks : status[t] \in Active /\ QueueOf[t] = q}

PendingIn(q) == {t \in Tasks : status[t] = "Pending" /\ QueueOf[t] = q}

(* Mutant: the front priority equals the least one instead of undercutting it. *)
NotBefore(p) == p

(* i64::saturating_sub(1).                                                 *)
Before(p) == IF p = MinPriority THEN p ELSE p - 1

(* MIN(priority) over the Pending rows of a queue, else the seed 0, less 1. *)
FrontPriority(q) ==
  IF PendingIn(q) = {}
  THEN Before(0)
  ELSE Before(CHOOSE p \in {priority[t] : t \in PendingIn(q)} :
                \A u \in PendingIn(q) : p <= priority[u])

Insert(t, p) ==
  /\ status[t] = "Absent"
  /\ status'   = [status EXCEPT ![t] = "Pending"]
  /\ priority' = [priority EXCEPT ![t] = p]
  /\ created'  = [created EXCEPT ![t] = inserts + 1]
  /\ attempt'  = [attempt EXCEPT ![t] = 0]
  /\ due'      = [due EXCEPT ![t] = TRUE]
  /\ inserts'  = inserts + 1

Enqueue(t) ==
  /\ \E p \in Priorities : Insert(t, p)
  /\ UNCHANGED <<loops, settings, req, lost>>

(* enqueue_at_front reads the front priority and inserts in two statements. *)
FrontRead(r, q) ==
  /\ req[r] = IdleRequest
  /\ req' = [req EXCEPT ![r] =
        [IdleRequest EXCEPT !.op = "front", !.queue = q, !.prio = FrontPriority(q)]]
  /\ UNCHANGED <<rows, loops, settings, lost>>

FrontInsert(r, t) ==
  /\ req[r].op = "front" /\ req[r].queue = QueueOf[t]
  /\ Insert(t, req[r].prio)
  /\ req' = [req EXCEPT ![r] = IdleRequest]
  /\ UNCHANGED <<loops, settings, lost>>

(* prioritise_task: a Pending row goes to the front, in one transaction.   *)
Prioritise(t) ==
  /\ status[t] = "Pending"
  /\ priority' = [priority EXCEPT ![t] = FrontPriority(QueueOf[t])]
  /\ UNCHANGED <<status, created, attempt, due, inserts, loops, settings, req, lost>>

-----------------------------------------------------------------------------
(* Cancelling. UPDATE ... WHERE status IN ('Pending', 'Running').          *)

(* Mutant: the UPDATE loses its status filter.                             *)
CancelAnyRows(S) ==
  status' = [t \in Tasks |->
               IF t \in S /\ status[t] # "Absent" THEN "Cancelled" ELSE status[t]]

(* Mutant: the UPDATE only matches Pending rows.                           *)
CancelPendingRows(S) ==
  status' = [t \in Tasks |->
               IF t \in S /\ status[t] = "Pending" THEN "Cancelled" ELSE status[t]]

CancelRows(S) ==
  status' = [t \in Tasks |->
               IF t \in S /\ status[t] \in Active THEN "Cancelled" ELSE status[t]]

(* Fire the token the CancelMap has for t, if any.                         *)
Fire(t) ==
  signalled' = [w \in Workers |-> signalled[w] \/ cancelMap[t] = w]

(* cancel_task writes the row, then looks the token up.                    *)
CancelRow(r, t) ==
  /\ req[r] = IdleRequest
  /\ status[t] # "Absent"
  /\ CancelRows({t})
  /\ req' = [req EXCEPT ![r] = [IdleRequest EXCEPT !.op = "cancel", !.tasks = {t}]]
  /\ UNCHANGED <<priority, created, attempt, due, inserts, loops, settings, lost>>

CancelFire(r, t) ==
  /\ req[r].op = "cancel" /\ t \in req[r].tasks
  /\ Fire(t)
  /\ req' = [req EXCEPT ![r] = IdleRequest]
  /\ UNCHANGED <<rows, pc, held, outcome, cancelMap, settings, lost>>

(* reset_chapter_api reads the chapter's Running rows, fires their tokens, *)
(* and cancels every row of the chapter that is then still active.         *)
ResetRead(r, c) ==
  /\ req[r] = IdleRequest
  /\ req' = [req EXCEPT ![r] =
        [IdleRequest EXCEPT !.op = "reset", !.chapter = c,
           !.tasks = {t \in Tasks : ChapterOf[t] = c /\ status[t] = "Running"}]]
  /\ UNCHANGED <<rows, loops, settings, lost>>

ResetFire(r, t) ==
  /\ req[r].op = "reset" /\ t \in req[r].tasks
  /\ Fire(t)
  /\ req' = [req EXCEPT ![r].tasks = @ \ {t}]
  /\ UNCHANGED <<rows, pc, held, outcome, cancelMap, settings, lost>>

ResetRows(r) ==
  /\ req[r].op = "reset" /\ req[r].tasks = {}
  /\ CancelRows({t \in Tasks : ChapterOf[t] = req[r].chapter})
  /\ req' = [req EXCEPT ![r] = IdleRequest]
  /\ UNCHANGED <<priority, created, attempt, due, inserts, loops, settings, lost>>

-----------------------------------------------------------------------------
(* The loop of queue_worker.                                               *)

(* The top of the loop: neither shutting down nor paused.                  *)
CheckGates(w) ==
  /\ pc[w] = "poll" /\ ~shutdown /\ ~paused
  /\ pc' = [pc EXCEPT ![w] = "claim"]
  /\ UNCHANGED <<rows, held, outcome, signalled, cancelMap, settings, req, lost>>

(* ORDER BY priority ASC, created_at ASC.                                  *)
Precedes(t, u) ==
  \/ priority[t] < priority[u]
  \/ priority[t] = priority[u] /\ created[t] <= created[u]

Runnable(q) == {t \in PendingIn(q) : due[t]}

(* claim_next_for_queue: select and mark Running in one transaction.       *)
Claim(w, t) ==
  /\ pc[w] = "claim"
  /\ t \in Runnable(WorkerQueue[w])
  /\ \A u \in Runnable(WorkerQueue[w]) : Precedes(t, u)
  /\ status' = [status EXCEPT ![t] = "Running"]
  /\ pc'     = [pc EXCEPT ![w] = "claimed"]
  /\ held'   = [held EXCEPT ![w] = t]
  /\ UNCHANGED <<priority, created, attempt, due, inserts, outcome, signalled,
                 cancelMap, settings, req, lost>>

ClaimNothing(w) ==
  /\ pc[w] = "claim"
  /\ Runnable(WorkerQueue[w]) = {}
  /\ pc' = [pc EXCEPT ![w] = "poll"]
  /\ UNCHANGED <<rows, held, outcome, signalled, cancelMap, settings, req, lost>>

(* Mutant: the worker forgets to publish its token.                        *)
RegisterNothing(w) ==
  /\ pc[w] = "claimed"
  /\ pc'        = [pc EXCEPT ![w] = "dispatch"]
  /\ signalled' = [signalled EXCEPT ![w] = FALSE]
  /\ UNCHANGED <<rows, held, outcome, cancelMap, settings, req, lost>>

(* A fresh token goes into the map only after the claim has committed.     *)
Register(w) ==
  /\ pc[w] = "claimed"
  /\ pc'        = [pc EXCEPT ![w] = "dispatch"]
  /\ signalled' = [signalled EXCEPT ![w] = FALSE]
  /\ cancelMap' = [cancelMap EXCEPT ![held[w]] = w]
  /\ UNCHANGED <<rows, held, outcome, settings, req, lost>>

(* dispatch returns and the token leaves the map. Only a download looks at *)
(* its token, between pages; after the last look it may still end well.    *)
Return(w) ==
  /\ pc[w] = "dispatch"
  /\ \E o \in {"ok", "error", "cancelled"} :
        /\ o = "cancelled" => signalled[w] /\ ChapterOf[held[w]] # NoChapter
        /\ outcome' = [outcome EXCEPT ![w] = o]
  /\ pc'        = [pc EXCEPT ![w] = "report"]
  /\ cancelMap' = [cancelMap EXCEPT ![held[w]] = NoWorker]
  /\ UNCHANGED <<rows, held, signalled, settings, req, lost>>

(* The worker is free again.                                               *)
LetGo(w) ==
  /\ pc'        = [pc EXCEPT ![w] = "poll"]
  /\ held'      = [held EXCEPT ![w] = NoTask]
  /\ outcome'   = [outcome EXCEPT ![w] = "none"]
  /\ signalled' = [signalled EXCEPT ![w] = FALSE]
  /\ UNCHANGED cancelMap

(* complete() writes Completed whatever the row's status has become; a row *)
(* that was deleted stays deleted.                                         *)
Complete(w) ==
  /\ pc[w] = "report" /\ outcome[w] = "ok"
  /\ status' = [status EXCEPT ![held[w]] = IF @ = "Deleted" THEN @ ELSE "Completed"]
  /\ LetGo(w)
  /\ UNCHANGED <<priority, created, attempt, due, inserts, settings, req, lost>>

(* Mutant: one retry too many.                                             *)
AttemptsLeftOrNone(n) == n <= MaxAttempts

AttemptsLeft(n) == n < MaxAttempts

(* fail() retries with backoff while attempts are left, else gives up,     *)
(* whatever the row's status has become.                                   *)
Fail(w) ==
  /\ pc[w] = "report" /\ outcome[w] = "error"
  /\ LET t    == held[w]
         next == attempt[t] + 1
     IN  IF status[t] = "Deleted"
         THEN UNCHANGED <<status, attempt, due>>
         ELSE /\ attempt' = [attempt EXCEPT ![t] = next]
              /\ \/ /\ AttemptsLeft(next)
                    /\ status' = [status EXCEPT ![t] = "Pending"]
                    /\ due'    = [due EXCEPT ![t] = FALSE]
                 \/ /\ ~AttemptsLeft(next)
                    /\ status' = [status EXCEPT ![t] = "Failed"]
                    /\ UNCHANGED due
  /\ LetGo(w)
  /\ UNCHANGED <<priority, created, inserts, settings, req, lost>>

(* A result of "cancelled" is only logged.                                 *)
Dropped(w) ==
  /\ pc[w] = "report" /\ outcome[w] = "cancelled"
  /\ LetGo(w)
  /\ UNCHANGED <<rows, settings, req, lost>>

(* complete() or fail() returns an error: it is logged and the loop goes on. *)
WriteLost(w) ==
  /\ pc[w] = "report" /\ outcome[w] # "cancelled"
  /\ Cardinality(lost) < MaxLost
  /\ lost' = lost \cup {held[w]}
  /\ LetGo(w)
  /\ UNCHANGED <<rows, settings, req>>

-----------------------------------------------------------------------------
(* Time, settings, retention, deletion and restarts.                       *)

(* A backoff lasts a minute or more. Timing assumption: a handler that has *)
(* cancelled the row fires its token, its next statement, within it.       *)
BackoffEnds(t) ==
  /\ status[t] = "Pending" /\ ~due[t]
  /\ \A r \in Requests : req[r].op = "cancel" => t \notin req[r].tasks
  /\ due' = [due EXCEPT ![t] = TRUE]
  /\ UNCHANGED <<status, priority, created, attempt, inserts, loops, settings, req, lost>>

TogglePause ==
  /\ Operator
  /\ paused' = ~paused
  /\ UNCHANGED <<rows, loops, shutdown, restarts, req, lost>>

BeginShutdown ==
  /\ Operator
  /\ ~shutdown /\ restarts < MaxRestarts
  /\ shutdown' = TRUE
  /\ UNCHANGED <<rows, loops, paused, restarts, req, lost>>

(* prune_terminal_history with some cutoff: Completed and Cancelled rows   *)
(* created before it go, except the min_keep newest of those rows.         *)
(* Mutant: retention takes failed rows for history as well.                *)
Ended == {t \in Tasks : status[t] \in {"Completed", "Cancelled", "Failed"}}

History == {t \in Tasks : status[t] \in {"Completed", "Cancelled"}}

Kept(t) == Cardinality({u \in History : created[u] > created[t]}) < MinKeep

Prune ==
  /\ \E cutoff \in 1..(inserts + 1) :
        status' = [t \in Tasks |->
                     IF t \in History /\ created[t] < cutoff /\ ~Kept(t)
                     THEN "Deleted" ELSE status[t]]
  /\ UNCHANGED <<priority, created, attempt, due, inserts, loops, settings, req, lost>>

(* Deleting a chapter takes its tasks along (ON DELETE CASCADE), in any    *)
(* status, a running one too.                                              *)
DeleteChapter(c) ==
  /\ status' = [t \in Tasks |->
                  IF ChapterOf[t] = c /\ status[t] # "Absent" THEN "Deleted" ELSE status[t]]
  /\ UNCHANGED <<priority, created, attempt, due, inserts, loops, settings, req, lost>>

(* Mutants: the startup reset finds nothing, or cancelled rows too.        *)
NoneStuck == {}
StuckOrCancelled == {t \in Tasks : status[t] \in {"Running", "Cancelled"}}

(* What reset_running_tasks finds.                                         *)
Stuck == {t \in Tasks : status[t] = "Running"}

(* The process dies, or is stopped, and starts again: everything in memory *)
(* is gone and reset_running_tasks runs before any worker. If it fails the *)
(* error is logged and the daemon goes on.                                 *)
Restart ==
  /\ restarts < MaxRestarts
  /\ restarts'  = restarts + 1
  /\ shutdown'  = FALSE
  /\ pc'        = [w \in Workers |-> "poll"]
  /\ held'      = [w \in Workers |-> NoTask]
  /\ outcome'   = [w \in Workers |-> "none"]
  /\ signalled' = [w \in Workers |-> FALSE]
  /\ cancelMap' = [t \in Tasks |-> NoWorker]
  /\ req'       = [r \in Requests |-> IdleRequest]
  /\ \/ /\ status' = [t \in Tasks |-> IF t \in Stuck THEN "Pending" ELSE status[t]]
        /\ due'    = [t \in Tasks |-> due[t] \/ t \in Stuck]
        /\ lost'   = {}
     \/ /\ Cardinality(lost \cup Stuck) <= MaxLost
        /\ lost' = lost \cup Stuck
        /\ UNCHANGED <<status, due>>
  /\ UNCHANGED <<priority, created, attempt, inserts, paused>>

-----------------------------------------------------------------------------
WorkerStep(w) ==
  \/ CheckGates(w) \/ ClaimNothing(w) \/ Register(w) \/ Return(w)
  \/ Complete(w) \/ Fail(w) \/ Dropped(w) \/ WriteLost(w)
  \/ \E t \in Tasks : Claim(w, t)

RequestStep(r) ==
  \/ ResetRows(r)
  \/ \E t \in Tasks :
        FrontInsert(r, t) \/ CancelRow(r, t) \/ CancelFire(r, t) \/ ResetFire(r, t)
  \/ \E q \in Queues : FrontRead(r, q)
  \/ \E c \in Chapters : ResetRead(r, c)

Next ==
  \/ \E w \in Workers : WorkerStep(w)
  \/ \E r \in Requests : RequestStep(r)
  \/ \E t \in Tasks : Enqueue(t) \/ Prioritise(t) \/ BackoffEnds(t)
  \/ \E c \in Chapters : DeleteChapter(c)
  \/ TogglePause \/ BeginShutdown \/ Prune \/ Restart

Spec == Init /\ [][Next]_vars

(* Tokio runs every worker and every handler on; a dispatch ends, since    *)
(* what it waits for ends or times out; time passes. Nothing is assumed of *)
(* users: pauses, requests, restarts and shutdowns may happen or not.      *)
Fairness ==
  /\ \A w \in Workers : WF_vars(WorkerStep(w))
  /\ \A r \in Requests :
        WF_vars(ResetRows(r) \/ \E t \in Tasks : CancelFire(r, t) \/ ResetFire(r, t))
  /\ \A t \in Tasks : WF_vars(BackoffEnds(t))

FairSpec == Spec /\ Fairness

-----------------------------------------------------------------------------
(* Properties.                                                             *)

(* Every variable stays in its domain.                                     *)
TypeOK ==
  /\ status    \in [Tasks -> Statuses]
  /\ priority  \in [Tasks -> Priority]
  /\ created   \in [Tasks -> Nat]
  /\ attempt   \in [Tasks -> 0..MaxAttempts]
  /\ due       \in [Tasks -> BOOLEAN]
  /\ inserts   \in Nat
  /\ paused    \in BOOLEAN
  /\ shutdown  \in BOOLEAN
  /\ pc        \in [Workers -> {"poll", "claim", "claimed", "dispatch", "report"}]
  /\ held      \in [Workers -> Tasks \cup {NoTask}]
  /\ outcome   \in [Workers -> {"none", "ok", "error", "cancelled"}]
  /\ signalled \in [Workers -> BOOLEAN]
  /\ cancelMap \in [Tasks -> Workers \cup {NoWorker}]
  /\ req       \in [Requests -> RequestType]
  /\ restarts  \in Nat
  /\ lost      \in SUBSET Tasks

(* A task is in the hands of at most one worker, although two workers poll *)
(* each queue and failed, cancelled and reset tasks become Pending again.  *)
OneHolder ==
  \A v, w \in Workers : held[v] = held[w] /\ held[v] # NoTask => v = w

(* A Running row has a worker, unless the write that should have ended it  *)
(* failed, or a reset_chapter_api has fired its token and is about to      *)
(* cancel the row. Nothing else would ever pick such a row up again.       *)
RunningIsOwned ==
  \A t \in Tasks : status[t] = "Running" =>
     \/ \E w \in Workers : held[w] = t
     \/ t \in lost
     \/ \E r \in Requests : req[r].op = "reset" /\ req[r].chapter = ChapterOf[t]

(* A row waiting or running has attempts left, and Failed means they are   *)
(* used up: neither cancels nor restarts make the retry counter drift.     *)
AttemptBudget ==
  \A t \in Tasks :
     /\ status[t] \in Active => attempt[t] < MaxAttempts
     /\ status[t] = "Failed" => attempt[t] = MaxAttempts

(* While a task is dispatched its id leads to the token of the worker that *)
(* runs it, and the map never leads to the token of an earlier run.        *)
TokenReachesRun ==
  /\ \A w \in Workers : pc[w] = "dispatch" => cancelMap[held[w]] = w
  /\ \A t \in Tasks, w \in Workers :
        cancelMap[t] = w => pc[w] = "dispatch" /\ held[w] = t

(* No late result, cancel or restart revives a task that ended: Completed  *)
(* and Failed rows only ever disappear.                                    *)
FinalIsFinal ==
  [][\A t \in Tasks : status[t] \in {"Completed", "Failed"}
                        => status'[t] \in {status[t], "Deleted"}]_vars

(* A row that goes, other than with its chapter, was Completed or          *)
(* Cancelled, never Failed, and min_keep rows newer than it stay in the    *)
(* history, counted after a sweep that may take many rows at once.         *)
RetentionSparesWork ==
  [][\A t \in Tasks :
        status[t] # "Deleted" /\ status'[t] = "Deleted" /\ ~(\E c \in Chapters : DeleteChapter(c)) =>
           /\ status[t] \in {"Completed", "Cancelled"}
           /\ MinKeep <= Cardinality({u \in Tasks : /\ status'[u] \in {"Completed", "Cancelled"}
                                                  /\ created'[u] > created[t]})]_vars

(* The queue implements the lease it promises its workers.                 *)
HolderOf(t) ==
  IF \E w \in Workers : held[w] = t THEN CHOOSE w \in Workers : held[w] = t ELSE NoWorker

PhaseOf(t) ==
  IF \E w \in Workers : held[w] = t THEN "held"
  ELSE CASE status[t] = "Absent"  -> "new"
         [] status[t] = "Pending" -> "offered"
         [] status[t] = "Running" -> "stranded"
         [] OTHER                 -> "closed"

Lease == INSTANCE TaskLease WITH
           phase  <- [t \in Tasks |-> PhaseOf(t)],
           holder <- [t \in Tasks |-> HolderOf(t)]

ImplementsLease == Lease!LeaseSpec

Settled(t) ==
  \/ status[t] \in {"Completed", "Failed", "Cancelled", "Deleted"}
  \/ status[t] = "Running" /\ t \in lost

(* Once nobody keeps the queue paused or shutting down, every Pending task *)
(* comes to an end, through retries, cancels, races and restarts, or it is *)
(* left Running by a write or a startup reset that failed. The next reset, *)
(* if any, makes that one Pending, and it must come to an end again.       *)
EveryTaskSettles ==
  <>[](~paused /\ ~shutdown) => \A t \in Tasks : status[t] = "Pending" ~> Settled(t)
==============================================================================
