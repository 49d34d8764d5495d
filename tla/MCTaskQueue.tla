----------------------------- MODULE MCTaskQueue -----------------------------
(* Small instances of TaskQueue. Rows are downloads of the chapter c1, and *)
(* t3, if there, belongs to no chapter; w3, if there, polls a queue of its *)
(* own.                                                                    *)
EXTENDS TaskQueue, TLC

CONSTANTS t3, w3, q1, q2, c1

MCQueueOf     == [t \in Tasks |-> q1]
MCChapterOf   == [t \in Tasks |-> IF t = t3 THEN NoChapter ELSE c1]
MCWorkerQueue == [w \in Workers |-> IF w = w3 THEN q2 ELSE q1]
MCMinPriority == -1

(* Rows of one chapter, and workers of one queue, are interchangeable.     *)
MCSymmetry == Permutations(Tasks \ {t3}) \cup Permutations(Workers \ {w3})
==============================================================================
