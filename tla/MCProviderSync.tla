---------------------------- MODULE MCProviderSync ----------------------------
(* Two providers. a has two pages, and a search matches the wrong one; b,  *)
(* the better one, has one page. Chapters may be published before or after *)
(* their page is first read.                                               *)
EXTENDS ProviderSync

CONSTANTS a, b, a1, a2, b1, sys, wa

MCPagesOf  == [p \in Providers |-> IF p = a THEN {a1, a2} \cap Pages ELSE {b1}]
MCHit      == [p \in Providers |-> IF p = a THEN a1 ELSE b1]
MCRank     == [p \in Providers |-> IF p = a THEN 1 ELSE 0]
MCServes   == [w \in Workers |-> IF w = sys THEN NoProvider ELSE IF w = wa THEN a ELSE b]
MCBacklist == [u \in Pages |-> IF u = a2 THEN {1} ELSE {}]
==============================================================================
