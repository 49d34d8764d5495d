--------------------------- MODULE MCTaskPromotion ---------------------------
(* The whole queue with the memory of promotions: two rows of one chapter, *)
(* two workers, a handler, a restart and a lost write. The priorities go   *)
(* down to MCLowest, which two promotions in a row reach.                  *)
EXTENDS TaskPromotion, MCTaskQueue

MCPriorities == {0, 1}
MCLowest     == -2
==============================================================================
