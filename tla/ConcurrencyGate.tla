--------------------------- MODULE ConcurrencyGate ---------------------------
(***************************************************************************)
(* The concurrency gates of src/scraper/executor.rs: one per provider and  *)
(* one shared by everything that drives the browser. A call of search,     *)
(* chapters or pages takes a permit of its provider's gate and then, if    *)
(* the provider needs the browser, one of the browser gate; an image       *)
(* download takes a browser permit only. Permits are given back when they  *)
(* are dropped. A gate is a counter behind a mutex and a tokio Notify; the *)
(* wait list of a Notify is kept as a set, so the order it wakes in is     *)
(* left open.                                                              *)
(***************************************************************************)
EXTENDS Integers, FiniteSets

CONSTANTS
  Callers,      (* tasks that use the executor                             *)
  Abortable,    (* those in a JoinSet of merge.rs, searches and chapter    *)
                (* lists: it aborts them when its owner returns early      *)
  Gates,        (* provider gates, and the browser gate                    *)
  Browser,      (* the browser gate                                        *)
  ProviderOf,   (* the gate of the caller's provider, or NoGate            *)
  NoGate,
  BrowserUsers, (* callers that need the browser                           *)
  StartLimit,   (* the limit each gate is configured with                  *)
  Counts,       (* browser worker counts the settings handler accepts      *)
  MaxSpawned    (* bound: releases of one gate in spawned tasks at a time  *)

ASSUME GateAssumption ==
  /\ IsFiniteSet(Callers) /\ Abortable \subseteq Callers
  /\ Browser \in Gates /\ NoGate \notin Gates
  /\ ProviderOf \in [Callers -> (Gates \ {Browser}) \cup {NoGate}]
  /\ BrowserUsers \subseteq Callers
  /\ \A c \in Callers : ProviderOf[c] = NoGate => c \in BrowserUsers
  /\ StartLimit \in [Gates -> Nat]
  /\ Counts \subseteq Nat \ {0} /\ MaxSpawned \in Nat

VARIABLES
  current,      (* ConcurrencyGateState.current                            *)
  limit,        (* ConcurrencyGateState.limit                              *)
  stored,       (* a notification the Notify keeps for the next waiter     *)
  orphans,      (* releases handed to a spawned task, not yet run          *)
  due,          (* of those, notify_one calls still to come                *)
  announcing,   (* set_limit is between its unlock and notify_waiters      *)
  pc,           (* where each caller is                                    *)
  at,           (* the gate it deals with                                  *)
  held,         (* the gates it has a permit of                            *)
  wake,         (* what woke it last: notify_one, notify_waiters, nothing  *)
  swallowed     (* gates where an aborted caller took a wake-up with it    *)

gates == <<current, limit, stored, orphans, due, announcing>>
vars  == <<gates, pc, at, held, wake, swallowed>>

(* Mutant: the limit is taken as configured.                               *)
AsConfigured(n) == n

(* usize::max(1): a provider file may say "workers: 0".                    *)
AtLeastOne(n) == IF n = 0 THEN 1 ELSE n

Init ==
  /\ current    = [g \in Gates |-> 0]
  /\ limit      = [g \in Gates |-> AtLeastOne(StartLimit[g])]
  /\ stored     = [g \in Gates |-> FALSE]
  /\ orphans    = [g \in Gates |-> 0]
  /\ due        = [g \in Gates |-> 0]
  /\ announcing = FALSE
  /\ pc         = [c \in Callers |-> "idle"]
  /\ at         = [c \in Callers |-> NoGate]
  /\ held       = [c \in Callers |-> {}]
  /\ wake       = [c \in Callers |-> "none"]
  /\ swallowed  = {}

Sleepers(g) == {c \in Callers : pc[c] = "asleep" /\ at[c] = g}
Holders(g)  == {c \in Callers : g \in held[c]}

-----------------------------------------------------------------------------
(* acquire_provider_slots and acquire_browser_slot.                        *)

Start(c) ==
  /\ pc[c] = "idle"
  /\ pc'   = [pc EXCEPT ![c] = "lock"]
  /\ at'   = [at EXCEPT ![c] = IF ProviderOf[c] = NoGate THEN Browser ELSE ProviderOf[c]]
  /\ wake' = [wake EXCEPT ![c] = "none"]
  /\ UNCHANGED <<gates, held, swallowed>>

(* Mutant: the comparison lets one caller too many in.                     *)
HasRoomOrFull(g) == current[g] <= limit[g]

HasRoom(g) == current[g] < limit[g]

(* acquire, under the lock: a free slot is taken.                          *)
Grant(c) ==
  /\ pc[c] = "lock" /\ HasRoom(at[c])
  /\ current' = [current EXCEPT ![at[c]] = @ + 1]
  /\ held'    = [held EXCEPT ![c] = @ \cup {at[c]}]
  /\ IF at[c] # Browser /\ c \in BrowserUsers
     THEN /\ at' = [at EXCEPT ![c] = Browser]
          /\ UNCHANGED pc
     ELSE /\ pc' = [pc EXCEPT ![c] = "work"]
          /\ UNCHANGED at
  /\ wake' = [wake EXCEPT ![c] = "none"]
  /\ UNCHANGED <<limit, stored, orphans, due, announcing, swallowed>>

(* Otherwise notified() is created under the lock, and polled after it.    *)
Full(c) ==
  /\ pc[c] = "lock" /\ ~HasRoom(at[c])
  /\ pc'   = [pc EXCEPT ![c] = "armed"]
  /\ wake' = [wake EXCEPT ![c] = "none"]
  /\ UNCHANGED <<gates, at, held, swallowed>>

(* The first poll takes a stored notification, or returns at once if       *)
(* notify_waiters was called since the future was created, or enlists.     *)
Poll(c) ==
  /\ pc[c] = "armed"
  /\ stored' = [stored EXCEPT ![at[c]] = FALSE]
  /\ IF stored[at[c]] \/ wake[c] = "all"
     THEN /\ pc'   = [pc EXCEPT ![c] = "lock"]
          /\ wake' = [wake EXCEPT ![c] = IF stored[at[c]] THEN "one" ELSE @]
     ELSE /\ pc'   = [pc EXCEPT ![c] = "asleep"]
          /\ UNCHANGED wake
  /\ UNCHANGED <<current, limit, orphans, due, announcing, at, held, swallowed>>

(* A woken caller goes round the loop.                                     *)
Retry(c) ==
  /\ pc[c] = "woken"
  /\ pc' = [pc EXCEPT ![c] = "lock"]
  /\ UNCHANGED <<gates, at, held, wake, swallowed>>

-----------------------------------------------------------------------------
(* Notify::notify_one and notify_waiters.                                  *)

(* notify_one wakes a waiter, or is stored for the next one to poll. next  *)
(* is where the callers go otherwise.                                      *)
NotifyOne(g, next) ==
  IF Sleepers(g) = {}
  THEN /\ pc'     = next
       /\ stored' = [stored EXCEPT ![g] = TRUE]
       /\ UNCHANGED wake
  ELSE \E s \in Sleepers(g) :
         /\ pc'   = [next EXCEPT ![s] = "woken"]
         /\ wake' = [wake EXCEPT ![s] = "one"]
         /\ UNCHANGED stored

(* set_limit, for the browser gate only. Bound: one settings request at a  *)
(* time.                                                                   *)
SetLimit ==
  /\ ~announcing
  /\ \E n \in Counts : limit' = [limit EXCEPT ![Browser] = AtLeastOne(n)]
  /\ announcing' = TRUE
  /\ UNCHANGED <<current, stored, orphans, due, pc, at, held, wake, swallowed>>

(* notify_waiters: all that are enlisted or about to be.                   *)
Announce ==
  /\ announcing
  /\ announcing' = FALSE
  /\ pc'   = [c \in Callers |-> IF c \in Sleepers(Browser) THEN "woken" ELSE pc[c]]
  /\ wake' = [c \in Callers |->
                IF at[c] = Browser /\ pc[c] \in {"armed", "asleep"} THEN "all" ELSE wake[c]]
  /\ UNCHANGED <<current, limit, stored, orphans, due, at, held, swallowed>>

-----------------------------------------------------------------------------
(* Dropping the permits: the browser permit first.                         *)

LastOf(S) == IF Browser \in S THEN Browser ELSE CHOOSE g \in S : TRUE

Finish(c) ==
  /\ pc[c] = "work"
  /\ pc' = [pc EXCEPT ![c] = "drop"]
  /\ at' = [at EXCEPT ![c] = LastOf(held[c])]
  /\ UNCHANGED <<gates, held, wake, swallowed>>

(* Where a caller that keeps the permits S goes on to.                     *)
DropRest(c, S) == IF S = {} THEN "idle" ELSE "drop"
NextAt(c, S)   == [at EXCEPT ![c] = IF S = {} THEN NoGate ELSE LastOf(S)]

(* usize::saturating_sub(1).                                               *)
GiveBack(n) == IF n = 0 THEN 0 ELSE n - 1

(* Mutant: no return after the release, so that a spawned task repeats it. *)
ReleaseTwice(c) ==
  /\ pc[c] = "drop"
  /\ current' = [current EXCEPT ![at[c]] = GiveBack(@)]
  /\ held'    = [held EXCEPT ![c] = @ \ {at[c]}]
  /\ pc'      = [pc EXCEPT ![c] = "notify"]
  /\ orphans' = [orphans EXCEPT ![at[c]] = 1]
  /\ UNCHANGED <<limit, stored, due, announcing, at, wake, swallowed>>

(* try_lock succeeds: the slot is given back by the caller.                *)
Release(c) ==
  /\ pc[c] = "drop"
  /\ current' = [current EXCEPT ![at[c]] = GiveBack(@)]
  /\ held'    = [held EXCEPT ![c] = @ \ {at[c]}]
  /\ pc'      = [pc EXCEPT ![c] = "notify"]
  /\ UNCHANGED <<limit, stored, orphans, due, announcing, at, wake, swallowed>>

(* Mutant: the wake-up after a release is missing.                         *)
NotifyNobody(c) ==
  /\ pc[c] = "notify"
  /\ pc' = [pc EXCEPT ![c] = DropRest(c, held[c])]
  /\ at' = NextAt(c, held[c])
  /\ UNCHANGED <<current, limit, stored, orphans, due, announcing, held, wake, swallowed>>

NotifyAfter(c) ==
  /\ pc[c] = "notify"
  /\ NotifyOne(at[c], [pc EXCEPT ![c] = DropRest(c, held[c])])
  /\ at' = NextAt(c, held[c])
  /\ UNCHANGED <<current, limit, orphans, due, announcing, held, swallowed>>

(* try_lock fails while another thread is inside: a spawned task will do it. *)
ReleaseLater(c) ==
  /\ pc[c] = "drop"
  /\ orphans[at[c]] + due[at[c]] < MaxSpawned
  /\ LET rest == held[c] \ {at[c]}
     IN  /\ held' = [held EXCEPT ![c] = rest]
         /\ pc'   = [pc EXCEPT ![c] = DropRest(c, rest)]
         /\ at'   = NextAt(c, rest)
  /\ orphans' = [orphans EXCEPT ![at[c]] = @ + 1]
  /\ UNCHANGED <<current, limit, stored, due, announcing, wake, swallowed>>

SpawnedRelease(g) ==
  /\ orphans[g] > 0
  /\ orphans' = [orphans EXCEPT ![g] = @ - 1]
  /\ current' = [current EXCEPT ![g] = GiveBack(@)]
  /\ due'     = [due EXCEPT ![g] = @ + 1]
  /\ UNCHANGED <<limit, stored, announcing, pc, at, held, wake, swallowed>>

SpawnedNotify(g) ==
  /\ due[g] > 0
  /\ due' = [due EXCEPT ![g] = @ - 1]
  /\ NotifyOne(g, pc)
  /\ UNCHANGED <<current, limit, orphans, announcing, at, held, swallowed>>

(* The JoinSet is dropped: a call ends where it waits. A Notified that     *)
(* notify_one has woken passes the wake-up on when it is dropped; a caller *)
(* that has left it and waits for the mutex has nothing left to pass on.   *)
Abort(c) ==
  /\ c \in Abortable
  /\ pc[c] \in {"lock", "asleep", "woken", "work"}
  /\ LET away == [pc EXCEPT ![c] = DropRest(c, held[c])]
     IN  IF pc[c] = "woken" /\ wake[c] = "one"
         THEN NotifyOne(at[c], away)
         ELSE pc' = away /\ UNCHANGED <<stored, wake>>
  /\ at' = NextAt(c, held[c])
  /\ swallowed' = swallowed \cup {g \in {at[c]} : pc[c] = "lock" /\ wake[c] = "one"}
  /\ UNCHANGED <<current, limit, orphans, due, announcing, held>>

-----------------------------------------------------------------------------
Advance(c) ==
  \/ Grant(c) \/ Full(c) \/ Poll(c) \/ Retry(c) \/ Finish(c)
  \/ Release(c) \/ ReleaseLater(c) \/ NotifyAfter(c)

Next ==
  \/ \E c \in Callers : Start(c) \/ Advance(c) \/ Abort(c)
  \/ \E g \in Gates : SpawnedRelease(g) \/ SpawnedNotify(g)
  \/ SetLimit \/ Announce

Spec == Init /\ [][Next]_vars

(* Tokio runs every task that can go on, spawned releases included, and a  *)
(* provider call or a download comes to an end. Calls may come or not.     *)
Fairness ==
  /\ \A c \in Callers : WF_vars(Advance(c))
  /\ \A g \in Gates : WF_vars(SpawnedRelease(g)) /\ WF_vars(SpawnedNotify(g))
  /\ WF_vars(Announce)

FairSpec == Spec /\ Fairness

-----------------------------------------------------------------------------
(* Properties.                                                             *)

(* Every variable stays in its domain.                                     *)
TypeOK ==
  /\ current    \in [Gates -> Nat]
  /\ limit      \in [Gates -> Nat \ {0}]
  /\ stored     \in [Gates -> BOOLEAN]
  /\ orphans    \in [Gates -> Nat]
  /\ due        \in [Gates -> Nat]
  /\ announcing \in BOOLEAN
  /\ pc         \in [Callers -> {"idle", "lock", "armed", "asleep", "woken", "work",
                                 "drop", "notify"}]
  /\ at         \in [Callers -> Gates \cup {NoGate}]
  /\ held       \in [Callers -> SUBSET Gates]
  /\ wake       \in [Callers -> {"none", "one", "all"}]
  /\ swallowed  \in SUBSET Gates

(* current counts the permits that are alive and those whose release is in *)
(* the hands of a spawned task: no slot leaks and none is freed twice,     *)
(* through contended drops, limit changes and aborted calls.               *)
SlotsAccounted ==
  \A g \in Gates : current[g] = Cardinality(Holders(g)) + orphans[g]

(* The callers inside a gate only ever exceed its limit because the limit  *)
(* was lowered under them: nobody comes in over it.                        *)
NobodyOverLimit ==
  [][\A g \in Gates :
       Cardinality(Holders(g)') > Cardinality(Holders(g)) => Cardinality(Holders(g)') <= limit'[g]]_vars

(* Somebody at g has seen no free slot and no wake-up since.               *)
Restless(g) ==
  \E c \in Callers : at[c] = g /\ (pc[c] = "asleep" \/ (pc[c] = "armed" /\ wake[c] # "all"))

Stirring(g) ==
  \/ current[g] > 0
  \/ due[g] > 0
  \/ \E c \in Callers :
        /\ at[c] = g
        /\ \/ pc[c] = "notify"
           \/ pc[c] \in {"woken", "lock"} /\ wake[c] = "one"
           \/ pc[c] = "armed" /\ stored[g]

(* As long as a caller sleeps at a gate, or is about to, something is left *)
(* that will wake one there: a permit still to be dropped, or a wake-up on *)
(* its way. Only an abort between a wake-up and the lock breaks the chain. *)
SleepersAreWoken ==
  \A g \in Gates : Restless(g) => Stirring(g) \/ g \in swallowed

Waiting(g) == \E c \in Callers : at[c] = g /\ pc[c] \in {"lock", "armed", "asleep", "woken"}

LetsIn(g) == \E c \in Callers : g \notin held[c] /\ g \in held'[c]

(* A gate that always has callers before it goes on letting callers in,    *)
(* whatever the limit is set to meanwhile, as long as calls are not aborted *)
(* for ever. Who gets in is open: a newcomer may overtake a sleeper. So    *)
(* the holder of a provider permit may be overtaken again and again at the *)
(* browser gate, and only then may its provider's gate stand still.        *)
GateKeepsMoving ==
  \A g \in Gates :
     <>[]Waiting(g) => \/ []<><<LetsIn(g) \/ LetsIn(Browser)>>_vars
                       \/ <>(g \in swallowed)
                       \/ []<><<\E c \in Callers : Abort(c)>>_vars
==============================================================================
