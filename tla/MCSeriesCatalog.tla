---------------------------- MODULE MCSeriesCatalog ----------------------------
(* Two series of AniList that recommend each other, and one added by hand.  *)
EXTENDS SeriesCatalog, TLC

CONSTANTS a, b

MCLinks == [s \in {a, b} |-> {a, b} \ {s}]

ProcSymmetry == Permutations(Workers) \cup Permutations(Clients)
==============================================================================
