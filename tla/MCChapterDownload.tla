-------------------------- MODULE MCChapterDownload --------------------------
(* Two entries of one chapter, a the better one, and downloads of a. The   *)
(* entries have no title, or the same one, so their files have one name.   *)
EXTENDS ChapterDownload

CONSTANTS a, b, q1, plain

MCQueueOf     == [t \in Tasks |-> q1]
MCChapterOf   == [t \in Tasks |-> a]
MCWorkerQueue == [w \in Workers |-> q1]
MCScore       == [c \in Chapters |-> IF c = a THEN 2 ELSE 1]
MCNameOf      == [c \in Chapters |-> plain]
MCMinPriority == -1
MCListings    == {{a, b}, {b}}
==============================================================================
