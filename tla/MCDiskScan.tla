------------------------------ MODULE MCDiskScan ------------------------------
(* One number: releases of two providers, one ranked above the other, and  *)
(* the row of a file without a provider, which the rules put first.        *)
EXTENDS DiskScan

CONSTANTS better, worse, loose

MCNumberOf == [r \in Rows |-> 1]
MCRank     == [r \in Rows |-> CASE r = loose -> 2 [] r = better -> 1 [] OTHER -> 0]
==============================================================================
