------------------------------ MODULE TaskLease ------------------------------
(***************************************************************************)
(* What rebarr's task queue promises, without tables, tokens or requests.  *)
(*                                                                         *)
(* Every task is handed out to at most one worker at a time; a task that   *)
(* was closed (finished, given up, cancelled or deleted) while no worker   *)
(* held it is never handed out again; and a task that lost its worker      *)
(* without the queue learning of it is offered again only by a restart of  *)
(* the daemon.                                                             *)
(***************************************************************************)
CONSTANTS Tasks, Workers, NoWorker

VARIABLES
  phase,    (* where each task stands                                      *)
  holder    (* the worker a held task was handed to                        *)

lvars == <<phase, holder>>

Phases == {"new", "offered", "held", "stranded", "closed"}

LeaseInit ==
  /\ phase  = [t \in Tasks |-> "new"]
  /\ holder = [t \in Tasks |-> NoWorker]

Offer(t) ==
  /\ phase[t] = "new"
  /\ phase' = [phase EXCEPT ![t] = "offered"]
  /\ UNCHANGED holder

(* A worker has at most one task in hand.                                  *)
Take(w, t) ==
  /\ phase[t] = "offered"
  /\ \A u \in Tasks : holder[u] # w
  /\ phase'  = [phase EXCEPT ![t] = "held"]
  /\ holder' = [holder EXCEPT ![t] = w]

(* The worker is done: the task is offered again (a retry), closed, or     *)
(* left behind without the queue knowing (stranded).                       *)
Release(w, t) ==
  /\ holder[t] = w
  /\ holder' = [holder EXCEPT ![t] = NoWorker]
  /\ \E p \in {"offered", "closed", "stranded"} :
        phase' = [phase EXCEPT ![t] = p]

(* Tasks nobody holds are cancelled or deleted, several at a time.         *)
Close ==
  /\ UNCHANGED holder
  /\ \A t \in Tasks :
        \/ phase'[t] = phase[t]
        \/ phase[t] \in {"offered", "stranded"} /\ phase'[t] = "closed"
  /\ phase' \in [Tasks -> Phases]

(* The daemon restarts: every worker is gone, and what was in hand or      *)
(* stranded may be offered again. New, offered and closed tasks stay so.   *)
LeaseRestart ==
  /\ holder' = [t \in Tasks |-> NoWorker]
  /\ phase' \in [Tasks -> Phases]
  /\ \A t \in Tasks :
        \/ phase'[t] = phase[t] /\ phase[t] # "held"
        \/ phase[t] = "held" /\ phase'[t] \in {"offered", "stranded", "closed"}
        \/ phase[t] = "stranded" /\ phase'[t] = "offered"

LeaseNext ==
  \/ \E t \in Tasks : Offer(t)
  \/ \E w \in Workers, t \in Tasks : Take(w, t) \/ Release(w, t)
  \/ Close
  \/ LeaseRestart

LeaseSpec == LeaseInit /\ [][LeaseNext]_lvars
==============================================================================
