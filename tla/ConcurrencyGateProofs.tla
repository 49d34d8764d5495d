------------------------ MODULE ConcurrencyGateProofs ------------------------
(***************************************************************************)
(* TLAPS proofs about ConcurrencyGate, for every set of callers and gates, *)
(* every configured limit and every sequence of limit changes.             *)
(***************************************************************************)
EXTENDS ConcurrencyGate, FiniteSetTheorems, TLAPS

WaitingPc == {"lock", "armed", "asleep", "woken"}

(* Where a caller is agrees with the permits it has, and with how it was   *)
(* woken.                                                                  *)
PlaceOK(c) ==
  /\ pc[c] # "idle" => at[c] \in Gates
  /\ pc[c] = "idle" => held[c] = {}
  /\ pc[c] = "work" => held[c] # {}
  /\ pc[c] = "drop" => at[c] \in held[c]
  /\ pc[c] = "notify" => at[c] \notin held[c]
  /\ pc[c] \in WaitingPc => at[c] \notin held[c] /\ Browser \notin held[c]
  /\ pc[c] = "armed" => wake[c] # "one"
  /\ pc[c] = "asleep" => wake[c] = "none"

PlaceInv == \A c \in Callers : PlaceOK(c)

(* The inductive invariant.                                                *)
GateInv == TypeOK /\ PlaceInv /\ SlotsAccounted /\ SleepersAreWoken

-----------------------------------------------------------------------------
(* LastOf picks one of the permits.                                        *)
LEMMA LastOfMember == ASSUME NEW S, S # {} PROVE LastOf(S) \in S
  BY DEF LastOf

(* Where a caller that keeps the permits S goes is a place for it.         *)
LEMMA DropPlace ==
  ASSUME TypeOK, NEW c \in Callers, NEW S \in SUBSET Gates
  PROVE  /\ NextAt(c, S) \in [Callers -> Gates \cup {NoGate}]
         /\ DropRest(c, S) \in {"idle", "drop"}
         /\ DropRest(c, S) = "idle" => S = {}
         /\ DropRest(c, S) = "drop" => NextAt(c, S)[c] \in S
         /\ \A d \in Callers : d # c => NextAt(c, S)[d] = at[d]
<1>1. CASE S = {}
  BY <1>1 DEF TypeOK, NextAt, DropRest
<1>2. CASE S # {}
  <2>1. LastOf(S) \in S
    BY <1>2, LastOfMember
  <2>. QED  BY <1>2, <2>1 DEF TypeOK, NextAt, DropRest
<1>. QED  BY <1>1, <1>2

(* The callers of a gate are finitely many.                                *)
LEMMA HoldersFinite ==
  \A g \in Gates : IsFiniteSet(Holders(g)) /\ Cardinality(Holders(g)) \in Nat
<1> SUFFICES ASSUME NEW g \in Gates
             PROVE  IsFiniteSet(Holders(g)) /\ Cardinality(Holders(g)) \in Nat
  OBVIOUS
<1>1. IsFiniteSet(Callers)
  BY GateAssumption
<1>2. Holders(g) \in SUBSET Callers
  BY DEF Holders
<1>3. IsFiniteSet(Holders(g))
  BY <1>1, <1>2, FS_Subset
<1>. QED  BY <1>3, FS_CardinalityType

(* A caller that gets a permit adds one to the holders of that gate.       *)
LEMMA HoldersGain ==
  ASSUME TypeOK, NEW c \in Callers, NEW g \in Gates, g \notin held[c],
         held' = [held EXCEPT ![c] = @ \cup {g}]
  PROVE  \A h \in Gates : Cardinality(Holders(h)') =
            IF h = g THEN Cardinality(Holders(h)) + 1 ELSE Cardinality(Holders(h))
<1> TAKE h \in Gates
<1>1. CASE h = g
  <2>1. Holders(h)' = Holders(h) \cup {c} /\ c \notin Holders(h)
    BY <1>1 DEF Holders, TypeOK
  <2>2. IsFiniteSet(Holders(h))
    BY HoldersFinite
  <2>. QED  BY <1>1, <2>1, <2>2, FS_AddElement
<1>2. CASE h # g
  <2>1. Holders(h)' = Holders(h)
    BY <1>2 DEF Holders, TypeOK
  <2>. QED  BY <1>2, <2>1
<1>. QED  BY <1>1, <1>2

(* A caller that drops a permit takes one from the holders of that gate,   *)
(* where there was at least one.                                           *)
LEMMA HoldersLoss ==
  ASSUME TypeOK, NEW c \in Callers, NEW g \in Gates, g \in held[c],
         held' = [held EXCEPT ![c] = @ \ {g}]
  PROVE  /\ Cardinality(Holders(g)) > 0
         /\ \A h \in Gates : Cardinality(Holders(h)') =
               IF h = g THEN Cardinality(Holders(h)) - 1 ELSE Cardinality(Holders(h))
<1>1. c \in Holders(g)
  BY DEF Holders
<1>2. IsFiniteSet(Holders(g)) /\ Cardinality(Holders(g)) \in Nat
  BY HoldersFinite
<1>3. Cardinality(Holders(g)) > 0
  <2>1. Cardinality(Holders(g)) # 0
    BY <1>1, <1>2, FS_EmptySet
  <2>. QED  BY <1>2, <2>1
<1>4. ASSUME NEW h \in Gates
      PROVE  Cardinality(Holders(h)') =
               IF h = g THEN Cardinality(Holders(h)) - 1 ELSE Cardinality(Holders(h))
  <2>1. CASE h = g
    <3>1. Holders(h)' = Holders(h) \ {c}
      BY <2>1 DEF Holders, TypeOK
    <3>. QED  BY <1>1, <1>2, <2>1, <3>1, FS_RemoveElement
  <2>2. CASE h # g
    <3>1. Holders(h)' = Holders(h)
      BY <2>2 DEF Holders, TypeOK
    <3>. QED  BY <2>2, <3>1
  <2>. QED  BY <2>1, <2>2
<1>. QED  BY <1>3, <1>4

(* Steps that leave current, held and orphans alone keep the accounts.     *)
LEMMA AccountsKept ==
  ASSUME SlotsAccounted, UNCHANGED <<current, held, orphans>>
  PROVE  SlotsAccounted'
<1>1. \A g \in Gates : Holders(g)' = Holders(g)
  BY DEF Holders
<1>. QED  BY <1>1 DEF SlotsAccounted

-----------------------------------------------------------------------------
LEMMA GateInvInit == Init => GateInv
<1> SUFFICES ASSUME Init PROVE GateInv
  OBVIOUS
<1> USE DEF Init
<1>1. TypeOK
  <2>1. limit \in [Gates -> Nat \ {0}]
    BY GateAssumption DEF AtLeastOne
  <2>2. stored \in [Gates -> BOOLEAN] /\ announcing \in BOOLEAN
    BY Zenon
  <2>. QED  BY <2>1, <2>2 DEF TypeOK
<1>2. PlaceInv
  BY DEF PlaceInv, PlaceOK, WaitingPc
<1>3. SlotsAccounted
  <2>1. \A g \in Gates : Holders(g) = {}
    BY DEF Holders
  <2>. QED  BY <2>1, FS_EmptySet DEF SlotsAccounted
<1>4. SleepersAreWoken
  BY DEF SleepersAreWoken, Restless
<1>. QED  BY <1>1, <1>2, <1>3, <1>4 DEF GateInv

-----------------------------------------------------------------------------
PcType == {"idle", "lock", "armed", "asleep", "woken", "work", "drop", "notify"}

(* notify_one wakes one sleeper of its gate, or is stored if there is none; *)
(* everybody else goes where next says.                                    *)
LEMMA NotifyOneEffect ==
  ASSUME TypeOK, NEW g \in Gates, NEW next \in [Callers -> PcType],
         NotifyOne(g, next)
  PROVE  /\ pc' \in [Callers -> PcType]
         /\ wake' \in [Callers -> {"none", "one", "all"}]
         /\ stored' \in [Gates -> BOOLEAN]
         /\ \A h \in Gates : h # g => stored'[h] = stored[h]
         /\ \A d \in Callers : \/ pc'[d] = next[d] /\ wake'[d] = wake[d]
                               \/ d \in Sleepers(g) /\ pc'[d] = "woken" /\ wake'[d] = "one"
         /\ \/ Sleepers(g) = {} /\ stored'[g] /\ pc' = next /\ wake' = wake
            \/ \E s \in Sleepers(g) : pc'[s] = "woken" /\ wake'[s] = "one"
<1>1. CASE Sleepers(g) = {}
  <2>1. pc' = next /\ stored' = [stored EXCEPT ![g] = TRUE] /\ wake' = wake
    BY <1>1 DEF NotifyOne
  <2>2. stored' \in [Gates -> BOOLEAN] /\ stored'[g] /\ \A h \in Gates : h # g => stored'[h] = stored[h]
    BY <2>1 DEF TypeOK
  <2>. QED  BY <1>1, <2>1, <2>2 DEF TypeOK
<1>2. CASE Sleepers(g) # {}
  <2>1. PICK s \in Sleepers(g) : /\ pc' = [next EXCEPT ![s] = "woken"]
                                 /\ wake' = [wake EXCEPT ![s] = "one"]
                                 /\ stored' = stored
    BY <1>2 DEF NotifyOne
  <2>2. s \in Callers
    BY DEF Sleepers
  <2>3. pc' \in [Callers -> PcType] /\ wake' \in [Callers -> {"none", "one", "all"}]
    BY <2>1, <2>2 DEF TypeOK, PcType
  <2>4. stored' \in [Gates -> BOOLEAN]
    BY <2>1 DEF TypeOK
  <2>. QED  BY <2>1, <2>2, <2>3, <2>4 DEF TypeOK
<1>. QED  BY <1>1, <1>2

(* A notify_one keeps the sleepers of every gate on the way to be woken,    *)
(* even if the callers M that issue it, or let one go, drop out.           *)
LEMMA NotifyOneStirs ==
  ASSUME TypeOK, SleepersAreWoken,
         NEW g \in Gates, NEW next \in [Callers -> PcType], NEW M \in SUBSET Callers,
         NotifyOne(g, next),
         \A d \in M : at[d] = g /\ pc[d] # "asleep" /\ next[d] \in {"idle", "drop"},
         \A d \in Callers \ M : next[d] = pc[d] /\ at'[d] = at[d],
         current' = current, swallowed' = swallowed,
         \A h \in Gates : h # g => due'[h] = due[h]
  PROVE  SleepersAreWoken'
<1> SUFFICES ASSUME NEW h \in Gates, Restless(h)'
             PROVE  Stirring(h)' \/ h \in swallowed'
  BY DEF SleepersAreWoken
<1>1. PICK d \in Callers : at'[d] = h /\ (pc'[d] = "asleep" \/ (pc'[d] = "armed" /\ wake'[d] # "all"))
  BY DEF Restless
<1>2. d \notin M
  BY <1>1, NotifyOneEffect DEF Sleepers
<1>3. pc'[d] = pc[d] /\ wake'[d] = wake[d] /\ at[d] = h
  BY <1>1, <1>2, NotifyOneEffect
<1>4. CASE h = g
  <2>1. CASE Sleepers(g) = {} /\ stored'[g]
    <3>1. pc'[d] = "armed"
      BY <1>1, <1>3, <1>4, <2>1 DEF Sleepers
    <3>. QED  BY <1>1, <1>4, <2>1, <3>1 DEF Stirring
  <2>2. ASSUME NEW s \in Sleepers(g), pc'[s] = "woken", wake'[s] = "one"
        PROVE  Stirring(h)'
    <3>1. s \in Callers /\ pc[s] = "asleep" /\ at[s] = g
      BY DEF Sleepers
    <3>2. at'[s] = g
      BY <3>1
    <3>. QED  BY <1>4, <2>2, <3>1, <3>2 DEF Stirring
  <2>. QED  BY <2>1, <2>2, NotifyOneEffect
<1>5. CASE h # g
  <2>1. Restless(h)
    BY <1>1, <1>3 DEF Restless
  <2>2. Stirring(h) \/ h \in swallowed
    BY <2>1 DEF SleepersAreWoken
  <2>3. CASE current[h] > 0 \/ due[h] > 0 \/ h \in swallowed
    BY <1>5, <2>3 DEF Stirring
  <2>4. ASSUME NEW e \in Callers, at[e] = h,
               \/ pc[e] = "notify"
               \/ pc[e] \in {"woken", "lock"} /\ wake[e] = "one"
               \/ pc[e] = "armed" /\ stored[h]
        PROVE  Stirring(h)'
    <3>1. e \notin M /\ e \notin Sleepers(g)
      BY <1>5, <2>4 DEF Sleepers
    <3>2. pc'[e] = pc[e] /\ wake'[e] = wake[e] /\ at'[e] = h /\ stored'[h] = stored[h]
      BY <1>5, <2>4, <3>1, NotifyOneEffect
    <3>. QED  BY <2>4, <3>2 DEF Stirring
  <2>. QED  BY <2>2, <2>3, <2>4 DEF Stirring
<1>. QED  BY <1>4, <1>5

-----------------------------------------------------------------------------
(* Every step keeps the invariant.                                         *)
LEMMA GateInvNext == GateInv /\ [Next]_vars => GateInv'
<1> SUFFICES ASSUME GateInv, [Next]_vars PROVE GateInv'
  OBVIOUS
<1> USE DEF GateInv
<1>1. ASSUME NEW c \in Callers, Start(c)
      PROVE  GateInv'
  <2>1. TypeOK'
    BY <1>1, GateAssumption DEF Start, gates, TypeOK
  <2>2. PlaceInv'
    BY <1>1, GateAssumption DEF Start, TypeOK, PlaceInv, PlaceOK, WaitingPc
  <2>3. SlotsAccounted'
    BY <1>1, AccountsKept DEF Start, gates
  <2>4. SleepersAreWoken'
    BY <1>1 DEF Start, gates, TypeOK, PlaceInv, PlaceOK, WaitingPc, HasRoom, SleepersAreWoken, Restless, Stirring
  <2>. QED  BY <2>1, <2>2, <2>3, <2>4
<1>2. ASSUME NEW c \in Callers, Full(c)
      PROVE  GateInv'
  <2>1. TypeOK'
    BY <1>2, GateAssumption DEF Full, gates, TypeOK
  <2>2. PlaceInv'
    BY <1>2, GateAssumption DEF Full, TypeOK, PlaceInv, PlaceOK, WaitingPc
  <2>3. SlotsAccounted'
    BY <1>2, AccountsKept DEF Full, gates
  <2>4. SleepersAreWoken'
    BY <1>2 DEF Full, gates, TypeOK, PlaceInv, PlaceOK, WaitingPc, HasRoom, SleepersAreWoken, Restless, Stirring
  <2>. QED  BY <2>1, <2>2, <2>3, <2>4
<1>3. ASSUME NEW c \in Callers, Retry(c)
      PROVE  GateInv'
  <2>1. TypeOK'
    BY <1>3, GateAssumption DEF Retry, gates, TypeOK
  <2>2. PlaceInv'
    BY <1>3, GateAssumption DEF Retry, TypeOK, PlaceInv, PlaceOK, WaitingPc
  <2>3. SlotsAccounted'
    BY <1>3, AccountsKept DEF Retry, gates
  <2>4. SleepersAreWoken'
    BY <1>3 DEF Retry, gates, TypeOK, PlaceInv, PlaceOK, WaitingPc, HasRoom, SleepersAreWoken, Restless, Stirring
  <2>. QED  BY <2>1, <2>2, <2>3, <2>4
<1>4. ASSUME NEW c \in Callers, Poll(c)
      PROVE  GateInv'
  <2>1. TypeOK'
    BY <1>4, GateAssumption DEF Poll, gates, TypeOK
  <2>2. PlaceInv'
    BY <1>4, GateAssumption DEF Poll, TypeOK, PlaceInv, PlaceOK, WaitingPc
  <2>3. SlotsAccounted'
    BY <1>4, AccountsKept DEF Poll, gates
  <2>4. SleepersAreWoken'
    BY <1>4 DEF Poll, gates, TypeOK, PlaceInv, PlaceOK, WaitingPc, HasRoom, SleepersAreWoken, Restless, Stirring
  <2>. QED  BY <2>1, <2>2, <2>3, <2>4
<1>5. ASSUME NEW c \in Callers, Finish(c)
      PROVE  GateInv'
  <2>0. LastOf(held[c]) \in held[c] /\ held[c] \subseteq Gates
    BY <1>5, LastOfMember DEF Finish, PlaceInv, PlaceOK, TypeOK
  <2>1. TypeOK'
    BY <1>5, <2>0, GateAssumption DEF Finish, gates, TypeOK
  <2>2. PlaceInv'
    BY <1>5, <2>0, GateAssumption DEF Finish, TypeOK, PlaceInv, PlaceOK, WaitingPc
  <2>3. SlotsAccounted'
    BY <1>5, AccountsKept DEF Finish, gates
  <2>4. SleepersAreWoken'
    BY <1>5 DEF Finish, gates, TypeOK, PlaceInv, PlaceOK, WaitingPc, HasRoom, SleepersAreWoken, Restless, Stirring
  <2>. QED  BY <2>1, <2>2, <2>3, <2>4
<1>6. ASSUME NEW c \in Callers, Grant(c)
      PROVE  GateInv'
  <2>1. TypeOK'
    BY <1>6, GateAssumption DEF Grant, TypeOK, PlaceInv, PlaceOK, WaitingPc
  <2>2. PlaceInv'
    BY <1>6, GateAssumption DEF Grant, TypeOK, PlaceInv, PlaceOK, WaitingPc
  <2>3. SlotsAccounted'
    <3>1. at[c] \in Gates /\ at[c] \notin held[c]
      BY <1>6 DEF Grant, PlaceInv, PlaceOK, WaitingPc
    <3>2. \A h \in Gates : Cardinality(Holders(h)') =
             IF h = at[c] THEN Cardinality(Holders(h)) + 1 ELSE Cardinality(Holders(h))
      BY <1>6, <3>1, HoldersGain DEF Grant
    <3>. QED  BY <1>6, <3>1, <3>2, HoldersFinite DEF Grant, TypeOK, SlotsAccounted
  <2>4. SleepersAreWoken'
    BY <1>6 DEF Grant, TypeOK, PlaceInv, PlaceOK, WaitingPc, SleepersAreWoken, Restless, Stirring
  <2>. QED  BY <2>1, <2>2, <2>3, <2>4
<1>7. ASSUME NEW c \in Callers, Release(c)
      PROVE  GateInv'
  <2>0. at[c] \in Gates /\ at[c] \in held[c]
    BY <1>7 DEF Release, PlaceInv, PlaceOK, TypeOK
  <2>1. TypeOK'
    BY <1>7, <2>0 DEF Release, GiveBack, TypeOK
  <2>2. PlaceInv'
    BY <1>7, <2>0 DEF Release, TypeOK, PlaceInv, PlaceOK, WaitingPc
  <2>3. SlotsAccounted'
    <3>1. /\ Cardinality(Holders(at[c])) > 0
          /\ \A h \in Gates : Cardinality(Holders(h)') =
                IF h = at[c] THEN Cardinality(Holders(h)) - 1 ELSE Cardinality(Holders(h))
      BY <1>7, <2>0, HoldersLoss DEF Release
    <3>. QED  BY <1>7, <2>0, <3>1, HoldersFinite DEF Release, GiveBack, TypeOK, SlotsAccounted
  <2>4. SleepersAreWoken'
    <3> SUFFICES ASSUME NEW h \in Gates, Restless(h)'
                 PROVE  Stirring(h)' \/ h \in swallowed'
      BY DEF SleepersAreWoken
    <3>1. CASE h = at[c]
      BY <1>7, <3>1 DEF Release, TypeOK, Stirring
    <3>2. CASE h # at[c]
      BY <1>7, <2>0, <3>2 DEF Release, TypeOK, SleepersAreWoken, Restless, Stirring
    <3>. QED  BY <3>1, <3>2
  <2>. QED  BY <2>1, <2>2, <2>3, <2>4
<1>8. ASSUME NEW c \in Callers, ReleaseLater(c)
      PROVE  GateInv'
  <2>0. at[c] \in Gates /\ at[c] \in held[c] /\ held[c] \ {at[c]} \in SUBSET Gates
    BY <1>8 DEF ReleaseLater, PlaceInv, PlaceOK, TypeOK
  <2> DEFINE rest == held[c] \ {at[c]}
  <2>a. /\ held' = [held EXCEPT ![c] = rest] /\ pc' = [pc EXCEPT ![c] = DropRest(c, rest)]
        /\ at' = NextAt(c, rest) /\ orphans' = [orphans EXCEPT ![at[c]] = @ + 1]
        /\ pc[c] = "drop"
        /\ UNCHANGED <<current, limit, stored, due, announcing, wake, swallowed>>
    BY <1>8 DEF ReleaseLater
  <2>b. /\ at' \in [Callers -> Gates \cup {NoGate}]
        /\ DropRest(c, rest) \in {"idle", "drop"}
        /\ DropRest(c, rest) = "idle" => rest = {}
        /\ DropRest(c, rest) = "drop" => at'[c] \in rest
        /\ \A d \in Callers : d # c => at'[d] = at[d]
    BY <2>0, <2>a, DropPlace
  <2> HIDE DEF rest
  <2>c. rest = held[c] \ {at[c]}
    BY DEF rest
  <2>1. TypeOK'
    <3>1. pc' \in [Callers -> PcType] /\ held' \in [Callers -> SUBSET Gates]
      BY <2>0, <2>a, <2>b, <2>c DEF TypeOK, PcType
    <3>2. orphans' \in [Gates -> Nat]
      BY <2>0, <2>a DEF TypeOK
    <3>. QED  BY <2>a, <2>b, <3>1, <3>2 DEF TypeOK, PcType
  <2>2. PlaceInv'
    BY <2>0, <2>a, <2>b, <2>c DEF TypeOK, PlaceInv, PlaceOK, WaitingPc
  <2>d. /\ Cardinality(Holders(at[c])) > 0
        /\ \A h \in Gates : Cardinality(Holders(h)') =
              IF h = at[c] THEN Cardinality(Holders(h)) - 1 ELSE Cardinality(Holders(h))
    <3>1. held' = [held EXCEPT ![c] = @ \ {at[c]}]
      BY <2>a, <2>c DEF TypeOK
    <3>. QED  BY <2>0, <3>1, HoldersLoss
  <2>3. SlotsAccounted'
    BY <2>0, <2>a, <2>d, HoldersFinite DEF TypeOK, SlotsAccounted
  <2>4. SleepersAreWoken'
    <3>1. current[at[c]] > 0
      BY <2>0, <2>d, HoldersFinite DEF TypeOK, SlotsAccounted
    <3> SUFFICES ASSUME NEW h \in Gates, Restless(h)'
                 PROVE  Stirring(h)' \/ h \in swallowed'
      BY DEF SleepersAreWoken
    <3>2. CASE h = at[c]
      BY <2>a, <3>1, <3>2 DEF Stirring
    <3>3. CASE h # at[c]
      <4>1. Restless(h)
        BY <2>a, <2>b DEF TypeOK, Restless
      <4>2. Stirring(h) \/ h \in swallowed
        BY <4>1 DEF SleepersAreWoken
      <4>. QED  BY <2>a, <2>b, <3>3, <4>2 DEF TypeOK, Stirring
    <3>. QED  BY <3>2, <3>3
  <2>. QED  BY <2>1, <2>2, <2>3, <2>4
<1>9. ASSUME NEW c \in Callers, NotifyAfter(c)
      PROVE  GateInv'
  <2>0. at[c] \in Gates /\ held[c] \in SUBSET Gates
    BY <1>9 DEF NotifyAfter, PlaceInv, PlaceOK, TypeOK, WaitingPc
  <2> DEFINE next == [pc EXCEPT ![c] = DropRest(c, held[c])]
  <2>a. /\ NotifyOne(at[c], next) /\ at' = NextAt(c, held[c]) /\ pc[c] \in {"notify", "woken"}
        /\ UNCHANGED <<current, limit, orphans, due, announcing, held>>
    BY <1>9 DEF NotifyAfter
  <2>b. /\ at' \in [Callers -> Gates \cup {NoGate}]
        /\ DropRest(c, held[c]) \in {"idle", "drop"}
        /\ DropRest(c, held[c]) = "idle" => held[c] = {}
        /\ DropRest(c, held[c]) = "drop" => at'[c] \in held[c]
        /\ \A d \in Callers : d # c => at'[d] = at[d]
    BY <2>0, <2>a, DropPlace
  <2>c. next \in [Callers -> PcType] /\ next[c] = DropRest(c, held[c])
        /\ \A d \in Callers : d # c => next[d] = pc[d]
    BY <2>b DEF TypeOK, PcType
  <2> HIDE DEF next
  <2>d. c \notin Sleepers(at[c])
    BY <2>a DEF Sleepers
  <2>1. TypeOK'
    <3>1. pc' \in [Callers -> PcType] /\ wake' \in [Callers -> {"none", "one", "all"}]
      BY <2>0, <2>a, <2>c, NotifyOneEffect
    <3>2. stored' \in [Gates -> BOOLEAN]
      BY <2>0, <2>a, <2>c, NotifyOneEffect
    <3>3. swallowed' \in SUBSET Gates
      BY <1>9 DEF NotifyAfter, TypeOK
    <3>. QED  BY <2>a, <2>b, <3>1, <3>2, <3>3 DEF TypeOK, PcType
  <2>2. PlaceInv'
    <3> SUFFICES ASSUME NEW d \in Callers
                 PROVE  PlaceOK(d)'
      BY DEF PlaceInv
    <3>1. \/ pc'[d] = next[d] /\ wake'[d] = wake[d]
          \/ d \in Sleepers(at[c]) /\ pc'[d] = "woken" /\ wake'[d] = "one"
      BY <2>0, <2>a, <2>c, NotifyOneEffect
    <3>2. CASE d = c
      BY <2>a, <2>b, <2>c, <2>d, <3>1, <3>2 DEF TypeOK, PlaceInv, PlaceOK, WaitingPc
    <3>3. CASE d # c
      BY <2>a, <2>b, <2>c, <3>1, <3>3 DEF TypeOK, PlaceInv, PlaceOK, WaitingPc, Sleepers
    <3>. QED  BY <3>2, <3>3
  <2>3. SlotsAccounted'
    BY <2>a, AccountsKept
  <2>4. SleepersAreWoken'
    <3>1. /\ \A d \in {c} : at[d] = at[c] /\ pc[d] # "asleep" /\ next[d] \in {"idle", "drop"}
          /\ \A d \in Callers \ {c} : next[d] = pc[d] /\ at'[d] = at[d]
      BY <2>a, <2>b, <2>c
    <3>2. swallowed' = swallowed
      BY <1>9 DEF NotifyAfter
    <3>3. {c} \in SUBSET Callers /\ current' = current /\ due' = due
      BY <2>a
    <3>. QED  BY <2>0, <2>a, <2>c, <3>1, <3>2, <3>3, NotifyOneStirs
  <2>. QED  BY <2>1, <2>2, <2>3, <2>4
<1>10. ASSUME NEW c \in Callers, Abort(c)
      PROVE  GateInv'
  <2>A. CASE pc[c] = "woken" /\ wake[c] = "one"
    <3>0. at[c] \in Gates /\ held[c] \in SUBSET Gates
      BY <1>10 DEF Abort, PlaceInv, PlaceOK, TypeOK, WaitingPc
    <3> DEFINE next == [pc EXCEPT ![c] = DropRest(c, held[c])]
    <3>a. /\ NotifyOne(at[c], next) /\ at' = NextAt(c, held[c]) /\ pc[c] \in {"notify", "woken"}
          /\ UNCHANGED <<current, limit, orphans, due, announcing, held>>
      BY <1>10, <2>A DEF Abort
    <3>b. /\ at' \in [Callers -> Gates \cup {NoGate}]
          /\ DropRest(c, held[c]) \in {"idle", "drop"}
          /\ DropRest(c, held[c]) = "idle" => held[c] = {}
          /\ DropRest(c, held[c]) = "drop" => at'[c] \in held[c]
          /\ \A d \in Callers : d # c => at'[d] = at[d]
      BY <3>0, <3>a, DropPlace
    <3>c. next \in [Callers -> PcType] /\ next[c] = DropRest(c, held[c])
          /\ \A d \in Callers : d # c => next[d] = pc[d]
      BY <3>b DEF TypeOK, PcType
    <3> HIDE DEF next
    <3>d. c \notin Sleepers(at[c])
      BY <3>a DEF Sleepers
    <3>1. TypeOK'
      <4>1. pc' \in [Callers -> PcType] /\ wake' \in [Callers -> {"none", "one", "all"}]
        BY <3>0, <3>a, <3>c, NotifyOneEffect
      <4>2. stored' \in [Gates -> BOOLEAN]
        BY <3>0, <3>a, <3>c, NotifyOneEffect
      <4>3. swallowed' \in SUBSET Gates
        BY <1>10, <2>A DEF Abort, TypeOK
      <4>. QED  BY <3>a, <3>b, <4>1, <4>2, <4>3 DEF TypeOK, PcType
    <3>2. PlaceInv'
      <4> SUFFICES ASSUME NEW d \in Callers
                   PROVE  PlaceOK(d)'
        BY DEF PlaceInv, PlaceOK
      <4>1. \/ pc'[d] = next[d] /\ wake'[d] = wake[d]
            \/ d \in Sleepers(at[c]) /\ pc'[d] = "woken" /\ wake'[d] = "one"
        BY <3>0, <3>a, <3>c, NotifyOneEffect
      <4>2. CASE d = c
        BY <3>a, <3>b, <3>c, <3>d, <4>1, <4>2 DEF TypeOK, PlaceInv, PlaceOK, WaitingPc
      <4>3. CASE d # c
        BY <3>a, <3>b, <3>c, <4>1, <4>3 DEF TypeOK, PlaceInv, PlaceOK, WaitingPc, Sleepers
      <4>. QED  BY <4>2, <4>3
    <3>3. SlotsAccounted'
      BY <3>a, AccountsKept
    <3>4. SleepersAreWoken'
      <4>1. /\ \A d \in {c} : at[d] = at[c] /\ pc[d] # "asleep" /\ next[d] \in {"idle", "drop"}
            /\ \A d \in Callers \ {c} : next[d] = pc[d] /\ at'[d] = at[d]
        BY <3>a, <3>b, <3>c
      <4>2. swallowed' = swallowed
        BY <1>10, <2>A DEF Abort
      <4>3. {c} \in SUBSET Callers /\ current' = current /\ due' = due
        BY <3>a
      <4>. QED  BY <3>0, <3>a, <3>c, <4>1, <4>2, <4>3, NotifyOneStirs
    <3>. QED  BY <3>1, <3>2, <3>3, <3>4
  <2>B. CASE ~(pc[c] = "woken" /\ wake[c] = "one")
    <3>0. held[c] \in SUBSET Gates
      BY DEF TypeOK
    <3>a. /\ pc' = [pc EXCEPT ![c] = DropRest(c, held[c])] /\ at' = NextAt(c, held[c])
          /\ pc[c] \in {"lock", "asleep", "woken", "work"}
          /\ UNCHANGED <<current, limit, orphans, due, announcing, held, stored, wake>>
          /\ swallowed' = swallowed \cup {h \in {at[c]} : pc[c] = "lock" /\ wake[c] = "one"}
      BY <1>10, <2>B DEF Abort
    <3>b. /\ at' \in [Callers -> Gates \cup {NoGate}]
          /\ DropRest(c, held[c]) \in {"idle", "drop"}
          /\ DropRest(c, held[c]) = "idle" => held[c] = {}
          /\ DropRest(c, held[c]) = "drop" => at'[c] \in held[c]
          /\ \A d \in Callers : d # c => at'[d] = at[d]
      BY <3>0, <3>a, DropPlace
    <3>1. TypeOK'
      <4>1. at[c] \in Gates
        BY <3>a DEF PlaceInv, PlaceOK
      <4>. QED  BY <3>a, <3>b, <4>1 DEF TypeOK
    <3>2. PlaceInv'
      BY <3>a, <3>b DEF TypeOK, PlaceInv, PlaceOK, WaitingPc
    <3>3. SlotsAccounted'
      BY <3>a, AccountsKept
    <3>4. SleepersAreWoken'
      <4> SUFFICES ASSUME NEW h \in Gates, Restless(h)'
                   PROVE  Stirring(h)' \/ h \in swallowed'
        BY DEF SleepersAreWoken
      <4>1. Restless(h)
        BY <3>a, <3>b DEF TypeOK, Restless
      <4>2. CASE at[c] = h /\ pc[c] = "lock" /\ wake[c] = "one"
        BY <3>a, <4>2
      <4>3. CASE ~(at[c] = h /\ pc[c] = "lock" /\ wake[c] = "one")
        <5>1. Stirring(h) \/ h \in swallowed
          BY <4>1 DEF SleepersAreWoken
        <5>. QED  BY <2>B, <3>a, <3>b, <4>3, <5>1 DEF TypeOK, Stirring
      <4>. QED  BY <4>2, <4>3
    <3>. QED  BY <3>1, <3>2, <3>3, <3>4
  <2>. QED  BY <2>A, <2>B
<1>11. ASSUME NEW g \in Gates, SpawnedRelease(g)
      PROVE  GateInv'
  <2>1. TypeOK'
    BY <1>11 DEF SpawnedRelease, GiveBack, TypeOK
  <2>2. PlaceInv'
    BY <1>11 DEF SpawnedRelease, PlaceInv, PlaceOK
  <2>3. SlotsAccounted'
    <3>1. \A h \in Gates : Holders(h)' = Holders(h)
      BY <1>11 DEF SpawnedRelease, Holders
    <3>. QED  BY <1>11, <3>1, HoldersFinite DEF SpawnedRelease, GiveBack, TypeOK, SlotsAccounted
  <2>4. SleepersAreWoken'
    BY <1>11 DEF SpawnedRelease, GiveBack, TypeOK, SleepersAreWoken, Restless, Stirring
  <2>. QED  BY <2>1, <2>2, <2>3, <2>4
<1>12. ASSUME NEW g \in Gates, SpawnedNotify(g)
      PROVE  GateInv'
  <2>a. /\ NotifyOne(g, pc) /\ due' = [due EXCEPT ![g] = @ - 1] /\ due[g] > 0
        /\ UNCHANGED <<current, limit, orphans, announcing, at, held, swallowed>>
    BY <1>12 DEF SpawnedNotify
  <2>b. pc \in [Callers -> PcType]
    BY DEF TypeOK, PcType
  <2>1. TypeOK'
    <3>1. pc' \in [Callers -> PcType] /\ wake' \in [Callers -> {"none", "one", "all"}]
      BY <2>a, <2>b, NotifyOneEffect
    <3>2. stored' \in [Gates -> BOOLEAN]
      BY <2>a, <2>b, NotifyOneEffect
    <3>3. due' \in [Gates -> Nat]
      BY <2>a DEF TypeOK
    <3>. QED  BY <2>a, <3>1, <3>2, <3>3 DEF TypeOK, PcType
  <2>2. PlaceInv'
    <3> SUFFICES ASSUME NEW d \in Callers PROVE PlaceOK(d)'
      BY DEF PlaceInv
    <3>1. \/ pc'[d] = pc[d] /\ wake'[d] = wake[d]
          \/ d \in Sleepers(g) /\ pc'[d] = "woken" /\ wake'[d] = "one"
      BY <2>a, <2>b, NotifyOneEffect
    <3>. QED  BY <2>a, <3>1 DEF PlaceInv, PlaceOK, WaitingPc, Sleepers
  <2>3. SlotsAccounted'
    BY <2>a, AccountsKept
  <2>4. SleepersAreWoken'
    <3>1. \A h \in Gates : h # g => due'[h] = due[h]
      BY <2>a DEF TypeOK
    <3>2. /\ {} \in SUBSET Callers /\ \A d \in Callers \ {} : pc[d] = pc[d] /\ at'[d] = at[d]
          /\ \A d \in {} : at[d] = g /\ pc[d] # "asleep" /\ pc[d] \in {"idle", "drop"}
      BY <2>a
    <3>. QED  BY <2>a, <2>b, <3>1, <3>2, NotifyOneStirs
  <2>. QED  BY <2>1, <2>2, <2>3, <2>4
<1>13. ASSUME SetLimit
      PROVE  GateInv'
  <2>1. TypeOK'
    BY <1>13, GateAssumption DEF SetLimit, AtLeastOne, TypeOK
  <2>2. PlaceInv'
    BY <1>13 DEF SetLimit, TypeOK, PlaceInv, PlaceOK, WaitingPc, Sleepers
  <2>3. SlotsAccounted'
    BY <1>13, AccountsKept DEF SetLimit
  <2>4. SleepersAreWoken'
    BY <1>13 DEF SetLimit, TypeOK, PlaceInv, PlaceOK, WaitingPc, Sleepers, SleepersAreWoken, Restless, Stirring
  <2>. QED  BY <2>1, <2>2, <2>3, <2>4
<1>14. ASSUME Announce
      PROVE  GateInv'
  <2>1. TypeOK'
    BY <1>14, GateAssumption DEF Announce, AtLeastOne, TypeOK
  <2>2. PlaceInv'
    BY <1>14 DEF Announce, TypeOK, PlaceInv, PlaceOK, WaitingPc, Sleepers
  <2>3. SlotsAccounted'
    BY <1>14, AccountsKept DEF Announce
  <2>4. SleepersAreWoken'
    BY <1>14 DEF Announce, TypeOK, PlaceInv, PlaceOK, WaitingPc, Sleepers, SleepersAreWoken, Restless, Stirring
  <2>. QED  BY <2>1, <2>2, <2>3, <2>4
<1>15. CASE UNCHANGED vars
  <2>1. TypeOK' /\ PlaceInv'
    BY <1>15 DEF vars, gates, TypeOK, PlaceInv, PlaceOK
  <2>2. SlotsAccounted'
    BY <1>15, AccountsKept DEF vars, gates
  <2>3. SleepersAreWoken'
    BY <1>15 DEF vars, gates, SleepersAreWoken, Restless, Stirring
  <2>. QED  BY <2>1, <2>2, <2>3
<1>. QED
  BY <1>1, <1>2, <1>3, <1>4, <1>5, <1>6, <1>7, <1>8, <1>9, <1>10, <1>11, <1>12, <1>13, <1>14, <1>15 DEF Next, Advance

(* Nobody comes in over the limit.                                         *)
LEMMA LimitStep ==
  GateInv /\ [Next]_vars =>
    \A g \in Gates :
       Cardinality(Holders(g)') > Cardinality(Holders(g)) => Cardinality(Holders(g)') <= limit'[g]
<1> SUFFICES ASSUME GateInv, [Next]_vars, NEW g \in Gates,
                    Cardinality(Holders(g)') > Cardinality(Holders(g))
             PROVE  Cardinality(Holders(g)') <= limit'[g]
  OBVIOUS
<1> USE DEF GateInv
<1>1. Cardinality(Holders(g)) \in Nat
  BY HoldersFinite
<1>2. held' # held
  <2>1. held' = held => Holders(g)' = Holders(g)
    BY DEF Holders
  <2>. QED  BY <1>1, <2>1
<1>3. ASSUME NEW c \in Callers, Release(c) \/ ReleaseLater(c)
      PROVE  FALSE
  <2>1. at[c] \in Gates /\ at[c] \in held[c]
    BY <1>3 DEF Release, ReleaseLater, PlaceInv, PlaceOK
  <2>2. held' = [held EXCEPT ![c] = @ \ {at[c]}]
    BY <1>3 DEF Release, ReleaseLater, TypeOK
  <2>3. Cardinality(Holders(g)') =
           IF g = at[c] THEN Cardinality(Holders(g)) - 1 ELSE Cardinality(Holders(g))
    BY <2>1, <2>2, HoldersLoss
  <2>. QED  BY <1>1, <2>3
<1>4. PICK c \in Callers : Grant(c)
  BY <1>2, <1>3 DEF Next, Advance, vars, gates, Start, Full, Poll, Retry, Finish, NotifyAfter,
     Abort, SpawnedRelease, SpawnedNotify, SetLimit, Announce
<1>5. at[c] \in Gates /\ at[c] \notin held[c]
  BY <1>4 DEF Grant, PlaceInv, PlaceOK, WaitingPc
<1>6. Cardinality(Holders(g)') =
         IF g = at[c] THEN Cardinality(Holders(g)) + 1 ELSE Cardinality(Holders(g))
  BY <1>4, <1>5, HoldersGain DEF Grant
<1>. QED  BY <1>1, <1>4, <1>5, <1>6 DEF Grant, HasRoom, TypeOK, SlotsAccounted

-----------------------------------------------------------------------------
THEOREM GateInvariant == Spec => []GateInv
  BY GateInvInit, GateInvNext, PTL DEF Spec

(* Every variable stays in its domain.                                     *)
THEOREM GateTypeCorrect == Spec => []TypeOK
  BY GateInvariant, PTL DEF GateInv

(* No slot of a gate leaks, and none is given back twice.                  *)
THEOREM NoSlotLeaks == Spec => []SlotsAccounted
  BY GateInvariant, PTL DEF GateInv

(* A sleeping caller always has somebody to wake it, or lost its wake-up   *)
(* to an abort.                                                            *)
THEOREM NoWakeUpLost == Spec => []SleepersAreWoken
  BY GateInvariant, PTL DEF GateInv

(* The limit in force when a caller comes in is respected.                 *)
THEOREM LimitRespected == Spec => NobodyOverLimit
<1>1. GateInv /\ [Next]_vars =>
        [\A g \in Gates :
           Cardinality(Holders(g)') > Cardinality(Holders(g)) => Cardinality(Holders(g)') <= limit'[g]]_vars
  BY LimitStep
<1>. QED  BY <1>1, GateInvariant, PTL DEF Spec, NobodyOverLimit
==============================================================================
