---------------------------- MODULE TaskPromotion ----------------------------
(***************************************************************************)
(* What prioritise_task promises about the order of a queue, over the      *)
(* whole life of the promoted row. A history variable remembers, for each  *)
(* Pending row, the rows it was put in front of.                           *)
(***************************************************************************)
EXTENDS TaskQueue

VARIABLE overtaken   (* the rows a Pending row was last promoted past       *)

pvars == <<vars, overtaken>>

Promoted(t) ==
  /\ status[t] = "Pending" /\ status'[t] = "Pending"
  /\ priority'[t] # priority[t]

Remember ==
  overtaken' = [t \in Tasks |->
    IF status'[t] # "Pending" THEN {}
    ELSE IF Promoted(t) THEN PendingIn(QueueOf[t]) \ {t}
    ELSE overtaken[t] \ {u \in Tasks : Promoted(u)}]

PInit == Init /\ overtaken = [t \in Tasks |-> {}]
PNext == Next /\ Remember
PSpec == PInit /\ [][PNext]_pvars

Claimed(u) == status[u] = "Pending" /\ status'[u] = "Running"

(* A promoted row that may run is claimed before every row it overtook,    *)
(* unless that row was promoted past it later: retries, front insertions   *)
(* with a stale priority and new rows in between do not undo a promotion,  *)
(* down to i64::MIN, where rows tie and the older one goes first.          *)
PromotedGoesFirst ==
  [][\A t, u \in Tasks :
        u \in overtaken[t] /\ Claimed(u) => ~due[t] \/ priority[t] = MinPriority]_pvars
==============================================================================
