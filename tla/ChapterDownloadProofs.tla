------------------------ MODULE ChapterDownloadProofs ------------------------
(***************************************************************************)
(* TLAPS proofs about ChapterDownload: it implements TaskQueue, so all     *)
(* that is proved of the queue holds of it, and the chapters it shows as   *)
(* Downloading are worked on, whatever the entries, names and scores.      *)
(***************************************************************************)
EXTENDS ChapterDownload, TaskQueueProofs

(* Where a download_chapter call stands says where its worker is, and the  *)
(* entry in hand is an entry.                                              *)
CallInv ==
  \A w \in Workers :
     /\ dl[w].step # "off" => pc[w] = "dispatch"
     /\ dl[w].step \in {"fetch", "fetched", "writing", "demote", "mark", "crown",
                        "survey", "unlink", "unmark"} => dl[w].entry \in Chapters

(* What a download_chapter call keeps, as CTypeOK has it.                  *)
CallType ==
  [step  : {"off", "try", "fetch", "fetched", "writing", "demote", "mark", "crown",
            "survey", "unlink", "unmark", "fail", "ok", "error", "cancelled"},
   entry : Chapters \cup {NoChapter},
   todo  : SUBSET Chapters,
   best  : BOOLEAN]

(* A handler that has begun has an entry to write to.                      *)
ApiInv == \A r \in Requests : api[r].step # "none" => api[r].entry \in Chapters

(* The part of the invariant that is about the domains.                    *)
BaseInv == QueueInv /\ CTypeOK /\ CallInv /\ ApiInv

-----------------------------------------------------------------------------
(* Every step of ChapterDownload is a step of the queue, or leaves all the *)
(* queue's variables alone: a reset works on a chapter that exists.        *)
LEMMA StepOfQueue == ApiInv /\ [CNext]_cvars => [Next]_vars
<1> SUFFICES ASSUME ApiInv, CNext  PROVE [Next]_vars
  BY DEF cvars
<1>1. ASSUME NEW w \in Workers, QueueStep(w)  PROVE Next
  <2>1. WorkerStep(w)
    BY <1>1 DEF QueueStep, WorkerStep
  <2>. QED  BY <2>1 DEF Next
<1>2. ASSUME NEW w \in Workers, Download(w)  PROVE [Next]_vars
  <2>1. CASE HandBack(w)
    <3>1. WorkerStep(w)
      BY <2>1 DEF HandBack, WorkerStep
    <3>. QED  BY <3>1 DEF Next
  <2>2. CASE ~HandBack(w)
    <3>1. UNCHANGED vars
      BY <1>2, <2>2 DEF Download, Begin, StopHere, TryEntry, EntryFails, LastLook, Create, FinishFile,
         Demote, MarkDownloaded, Crown, Survey, Unlink, Unmark, GiveUp, MarkFailed
    <3>. QED  BY <3>1
  <2>. QED  BY <2>1, <2>2
<1>3. ASSUME NEW r \in Requests,
             Open(r) \/ ScanFinds(r) \/ HandlerStep(r) \/ \E t \in Tasks : CancelBegin(r, t)
      PROVE  [Next]_vars
  <2>1. CASE \/ Open(r) \/ ScanFinds(r) \/ NowCheck(r) \/ DeleteFile(r) \/ ClearFirst(r) \/ WriteStatus(r)
    BY <2>1 DEF Open, ScanFinds, NowCheck, DeleteFile, ClearFirst, WriteStatus
  <2>2. CASE \E t \in Tasks : DownloadInsert(r, t) \/ ScanInsert(r, t) \/ NowPromote(r, t)
    BY <2>2 DEF DownloadInsert, ScanInsert, NowPromote, Next
  <2>3. ASSUME RequestStep(r)  PROVE Next
    BY <2>3 DEF Next
  <2>4. CASE \E t \in Tasks : CancelBegin(r, t) \/ NowFrontInsert(r, t)
    BY <2>3, <2>4 DEF CancelBegin, NowFrontInsert, RequestStep
  <2>5. CASE \E q \in Queues : NowFrontRead(r, q)
    BY <2>3, <2>5 DEF NowFrontRead, RequestStep
  <2>6. CASE ResetRows(r) \/ \E t \in Tasks : CancelFire(r, t) \/ ResetFire(r, t)
    BY <2>3, <2>6 DEF RequestStep
  <2>7. CASE ClearTasks(r)
    <3>1. api[r].entry \in Chapters /\ ResetRead(r, api[r].entry)
      BY <2>7 DEF ClearTasks, ApiInv
    <3>. QED  BY <2>3, <3>1 DEF RequestStep
  <2>. QED  BY <1>3, <2>1, <2>2, <2>4, <2>5, <2>6, <2>7 DEF HandlerStep
<1>4. CASE \/ \E t \in Tasks : BackoffEnds(t)
           \/ \E c \in Chapters : SetCanonical(c)
           \/ CrashRestart
  BY <1>4 DEF Next, SetCanonical, CrashRestart
<1>. QED  BY <1>1, <1>2, <1>3, <1>4 DEF CNext, CWorkerStep

LEMMA BaseInit == CInit => BaseInv
<1> SUFFICES ASSUME CInit  PROVE BaseInv
  OBVIOUS
<1>1. QueueInv
  BY QueueInvInit DEF CInit
<1>2. CTypeOK
  BY <1>1 DEF CInit, QueueInv, CTypeOK, ChapterStatuses, NoCall, NoApi
<1>. QED  BY <1>1, <1>2 DEF BaseInv, CallInv, ApiInv, CInit, NoCall, NoApi

(* What a cleanup has left to do is a set of entries.                      *)
LEMMA TodoKept ==
  ASSUME CTypeOK, NEW w \in Workers, NEW S \in SUBSET Chapters,
         NEW s \in {"ok", "unlink"}, dl' = [dl EXCEPT ![w].todo = S, ![w].step = s]
  PROVE  dl' \in [Workers -> CallType]
<1>1. dl \in [Workers -> CallType]
  BY DEF CTypeOK, CallType
<1>. QED  BY <1>1 DEF CallType

(* So is what it has left once an entry is marked.                         *)
LEMMA UnmarkKept ==
  ASSUME CTypeOK, NEW w \in Workers, NEW v \in dl[w].todo,
         dl' = [dl EXCEPT ![w].todo = @ \ {v},
                          ![w].step = IF dl[w].todo = {v} THEN "ok" ELSE "unlink"]
  PROVE  dl' \in [Workers -> CallType]
<1>1. PICK S \in SUBSET Chapters : S = dl[w].todo \ {v}
  BY DEF CTypeOK
<1>2. PICK s \in {"ok", "unlink"} : s = IF dl[w].todo = {v} THEN "ok" ELSE "unlink"
  OBVIOUS
<1>3. dl' = [dl EXCEPT ![w].todo = S, ![w].step = s]
  BY <1>1, <1>2
<1>. QED  BY <1>3, TodoKept

(* And so is what a download has left to try.                               *)
LEMMA TryKept ==
  ASSUME CTypeOK, NEW w \in Workers, NEW e \in Chapters,
         dl' = [dl EXCEPT ![w] =
                  IF e \in Loaded THEN [@ EXCEPT !.step = "fetch", !.entry = e]
                                  ELSE [@ EXCEPT !.todo = dl[w].todo \ {e}]]
  PROVE  dl' \in [Workers -> CallType]
<1>1. dl \in [Workers -> CallType]
  BY DEF CTypeOK, CallType
<1>2. CASE e \in Loaded
  BY <1>1, <1>2 DEF CallType
<1>3. CASE e \notin Loaded
  BY <1>1, <1>3 DEF CallType
<1>. QED  BY <1>2, <1>3

LEMMA BaseInvNext == BaseInv /\ [CNext]_cvars => BaseInv'
<1> SUFFICES ASSUME BaseInv, [CNext]_cvars
             PROVE  BaseInv'
  OBVIOUS
<1>. USE DownloadAssumption, QueueAssumption DEF BaseInv
<1>0. QueueInv'
  BY StepOfQueue, QueueInvNext
<1>1. TypeOK /\ TypeOK' /\ HeldInv
  BY <1>0 DEF QueueInv
<1>. USE <1>1 DEF CTypeOK
<1>2. ASSUME NEW w \in Workers, QueueStep(w)
      PROVE  BaseInv'
  <2>1. UNCHANGED <<slot, dl, api>>
    BY <1>2 DEF QueueStep
  <2>2. pc[w] # "dispatch" /\ \A v \in Workers \ {w} : pc'[v] = pc[v]
    BY <1>2 DEF QueueStep, CheckGates, ClaimNothing, Register, Complete, Fail, Dropped, WriteLost, Claim, LetGo, TypeOK
  <2>3. CallInv'
    BY <2>1, <2>2 DEF CallInv
  <2>. QED  BY <1>0, <2>1, <2>3 DEF slot, ApiInv
<1>3. ASSUME NEW w \in Workers, Begin(w)
      PROVE  BaseInv'
  <2>1. UNCHANGED <<pc, held, api>>
    BY <1>3 DEF Begin, vars, loops, slot
  <2>2. dl' \in [Workers -> CallType]
    BY <1>3 DEF Begin, Write, Asked, slot, CallType, CallInv
  <2>3. CTypeOK'
    BY <1>3, <2>2 DEF Begin, Write, Asked, slot, ChapterStatuses, CallType, CallInv
  <2>4. CallInv'
    BY <1>3, <2>1 DEF Begin, Write, Asked, CallInv, TypeOK, HeldInv
  <2>. QED  BY <1>0, <2>1, <2>3, <2>4 DEF ApiInv
<1>4. ASSUME NEW w \in Workers, StopHere(w)
      PROVE  BaseInv'
  <2>1. UNCHANGED <<pc, held, api>>
    BY <1>4 DEF StopHere, vars, loops, slot
  <2>2. dl' \in [Workers -> CallType]
    BY <1>4 DEF StopHere, Leave, NoCall, Write, Asked, slot, CallType, CallInv
  <2>3. CTypeOK'
    BY <1>4, <2>2 DEF StopHere, Leave, NoCall, Write, Asked, slot, ChapterStatuses, CallType, CallInv
  <2>4. CallInv'
    BY <1>4, <2>1 DEF StopHere, Leave, NoCall, Write, Asked, CallInv, TypeOK, HeldInv
  <2>. QED  BY <1>0, <2>1, <2>3, <2>4 DEF ApiInv
<1>5. ASSUME NEW w \in Workers, TryEntry(w)
      PROVE  BaseInv'
  <2>1. UNCHANGED <<pc, held, api>>
    BY <1>5 DEF TryEntry, vars, loops, slot
  <2>2. dl' \in [Workers -> CallType]
    <3>1. PICK e \in Chapters :
             dl' = [dl EXCEPT ![w] =
                      IF e \in Loaded THEN [@ EXCEPT !.step = "fetch", !.entry = e]
                                      ELSE [@ EXCEPT !.todo = dl[w].todo \ {e}]]
      BY <1>5, Zenon DEF TryEntry
    <3>. QED  BY <3>1, TryKept
  <2>3. CTypeOK'
    BY <1>5, <2>2 DEF TryEntry, First, slot, ChapterStatuses, CallType, CallInv
  <2>4. CallInv'
    BY <1>5, <2>1 DEF TryEntry, First, CallInv, TypeOK, HeldInv
  <2>. QED  BY <1>0, <2>1, <2>3, <2>4 DEF ApiInv
<1>6. ASSUME NEW w \in Workers, EntryFails(w)
      PROVE  BaseInv'
  <2>1. UNCHANGED <<pc, held, api>>
    BY <1>6 DEF EntryFails, vars, loops, slot
  <2>2. dl' \in [Workers -> CallType]
    BY <1>6 DEF EntryFails, Write, slot, CallType, CallInv
  <2>3. CTypeOK'
    BY <1>6, <2>2 DEF EntryFails, Write, slot, ChapterStatuses, CallType, CallInv
  <2>4. CallInv'
    BY <1>6, <2>1 DEF EntryFails, Write, CallInv, TypeOK, HeldInv
  <2>. QED  BY <1>0, <2>1, <2>3, <2>4 DEF ApiInv
<1>7. ASSUME NEW w \in Workers, LastLook(w)
      PROVE  BaseInv'
  <2>1. UNCHANGED <<pc, held, api>>
    BY <1>7 DEF LastLook, vars, loops, slot
  <2>2. dl' \in [Workers -> CallType]
    BY <1>7 DEF LastLook, Go, slot, CallType, CallInv
  <2>3. CTypeOK'
    BY <1>7, <2>2 DEF LastLook, Go, slot, ChapterStatuses, CallType, CallInv
  <2>4. CallInv'
    BY <1>7, <2>1 DEF LastLook, Go, CallInv, TypeOK, HeldInv
  <2>. QED  BY <1>0, <2>1, <2>3, <2>4 DEF ApiInv
<1>8. ASSUME NEW w \in Workers, Create(w)
      PROVE  BaseInv'
  <2>1. UNCHANGED <<pc, held, api>>
    BY <1>8 DEF Create, vars, loops, slot
  <2>2. dl' \in [Workers -> CallType]
    <3>1. dl' = [dl EXCEPT ![w].step = "writing"]
      BY <1>8 DEF Create, Go
    <3>. QED  BY <3>1 DEF CallType
  <2>3. CTypeOK'
    BY <1>8, <2>2 DEF Create, Go, Goal, Asked, slot, ChapterStatuses, CallType, CallInv
  <2>4. CallInv'
    BY <1>8, <2>1 DEF Create, Go, Goal, Asked, CallInv, TypeOK, HeldInv
  <2>. QED  BY <1>0, <2>1, <2>3, <2>4 DEF ApiInv
<1>9. ASSUME NEW w \in Workers, FinishFile(w)
      PROVE  BaseInv'
  <2>1. UNCHANGED <<pc, held, api>>
    BY <1>9 DEF FinishFile, vars, loops, slot
  <2>2. dl' \in [Workers -> CallType]
    BY <1>9 DEF FinishFile, Served, NoCall, Goal, Asked, slot, CallType, CallInv
  <2>3. CTypeOK'
    BY <1>9, <2>2 DEF FinishFile, Served, NoCall, Goal, Asked, slot, ChapterStatuses, CallType, CallInv
  <2>4. CallInv'
    BY <1>9, <2>1 DEF FinishFile, Served, NoCall, Goal, Asked, CallInv, TypeOK, HeldInv
  <2>. QED  BY <1>0, <2>1, <2>3, <2>4 DEF ApiInv
<1>10. ASSUME NEW w \in Workers, Demote(w)
      PROVE  BaseInv'
  <2>1. UNCHANGED <<pc, held, api>>
    BY <1>10 DEF Demote, vars, loops, slot
  <2>2. dl' \in [Workers -> CallType]
    BY <1>10 DEF Demote, Go, Write, Asked, slot, CallType, CallInv
  <2>3. CTypeOK'
    BY <1>10, <2>2 DEF Demote, Go, Write, Asked, slot, ChapterStatuses, CallType, CallInv
  <2>4. CallInv'
    BY <1>10, <2>1 DEF Demote, Go, Write, Asked, CallInv, TypeOK, HeldInv
  <2>. QED  BY <1>0, <2>1, <2>3, <2>4 DEF ApiInv
<1>11. ASSUME NEW w \in Workers, MarkDownloaded(w)
      PROVE  BaseInv'
  <2>1. UNCHANGED <<pc, held, api>>
    BY <1>11 DEF MarkDownloaded, vars, loops, slot
  <2>2. dl' \in [Workers -> CallType]
    BY <1>11 DEF MarkDownloaded, Go, Write, Asked, slot, CallType, CallInv
  <2>3. CTypeOK'
    BY <1>11, <2>2 DEF MarkDownloaded, Go, Write, Asked, slot, ChapterStatuses, CallType, CallInv
  <2>4. CallInv'
    BY <1>11, <2>1 DEF MarkDownloaded, Go, Write, Asked, CallInv, TypeOK, HeldInv
  <2>. QED  BY <1>0, <2>1, <2>3, <2>4 DEF ApiInv
<1>12. ASSUME NEW w \in Workers, Crown(w)
      PROVE  BaseInv'
  <2>1. UNCHANGED <<pc, held, api>>
    BY <1>12 DEF Crown, vars, loops, slot
  <2>2. dl' \in [Workers -> CallType]
    BY <1>12 DEF Crown, Go, slot, CallType, CallInv
  <2>3. CTypeOK'
    BY <1>12, <2>2 DEF Crown, Go, slot, ChapterStatuses, CallType, CallInv
  <2>4. CallInv'
    BY <1>12, <2>1 DEF Crown, Go, CallInv, TypeOK, HeldInv
  <2>. QED  BY <1>0, <2>1, <2>3, <2>4 DEF ApiInv
<1>13. ASSUME NEW w \in Workers, Survey(w)
      PROVE  BaseInv'
  <2>1. UNCHANGED <<pc, held, api>>
    BY <1>13 DEF Survey, vars, loops, slot
  <2>2. dl' \in [Workers -> CallType]
    <3>1. PICK S \in SUBSET Chapters :
             dl' = [dl EXCEPT ![w].todo = S, ![w].step = IF S = {} THEN "ok" ELSE "unlink"]
      BY <1>13, Zenon DEF Survey
    <3>. QED  BY <3>1, TodoKept
  <2>3. CTypeOK'
    BY <1>13, <2>2 DEF Survey, slot, ChapterStatuses, CallType, CallInv
  <2>4. CallInv'
    BY <1>13, <2>1 DEF Survey, CallInv, TypeOK, HeldInv
  <2>. QED  BY <1>0, <2>1, <2>3, <2>4 DEF ApiInv
<1>14. ASSUME NEW w \in Workers, Unlink(w)
      PROVE  BaseInv'
  <2>1. UNCHANGED <<pc, held, api>>
    BY <1>14 DEF Unlink, vars, loops, slot
  <2>2. dl' \in [Workers -> CallType]
    BY <1>14 DEF Unlink, Go, slot, CallType, CallInv
  <2>3. CTypeOK'
    BY <1>14, <2>2 DEF Unlink, Go, slot, ChapterStatuses, CallType, CallInv
  <2>4. CallInv'
    BY <1>14, <2>1 DEF Unlink, Go, CallInv, TypeOK, HeldInv
  <2>. QED  BY <1>0, <2>1, <2>3, <2>4 DEF ApiInv
<1>15. ASSUME NEW w \in Workers, Unmark(w)
      PROVE  BaseInv'
  <2>1. UNCHANGED <<pc, held, api>>
    BY <1>15 DEF Unmark, vars, loops, slot
  <2>2. dl' \in [Workers -> CallType]
    <3>1. PICK v \in dl[w].todo :
             dl' = [dl EXCEPT ![w].todo = @ \ {v},
                              ![w].step = IF dl[w].todo = {v} THEN "ok" ELSE "unlink"]
      BY <1>15, Zenon DEF Unmark
    <3>. QED  BY <3>1, UnmarkKept
  <2>3. CTypeOK'
    BY <1>15, <2>2 DEF Unmark, Write, slot, ChapterStatuses, CallType, CallInv
  <2>4. CallInv'
    BY <1>15, <2>1 DEF Unmark, Write, CallInv, TypeOK, HeldInv
  <2>. QED  BY <1>0, <2>1, <2>3, <2>4 DEF ApiInv
<1>16. ASSUME NEW w \in Workers, GiveUp(w)
      PROVE  BaseInv'
  <2>1. UNCHANGED <<pc, held, api>>
    BY <1>16 DEF GiveUp, vars, loops, slot
  <2>2. dl' \in [Workers -> CallType]
    BY <1>16 DEF GiveUp, Leave, NoCall, Asked, slot, CallType, CallInv
  <2>3. CTypeOK'
    BY <1>16, <2>2 DEF GiveUp, Leave, NoCall, Asked, slot, ChapterStatuses, CallType, CallInv
  <2>4. CallInv'
    BY <1>16, <2>1 DEF GiveUp, Leave, NoCall, Asked, CallInv, TypeOK, HeldInv
  <2>. QED  BY <1>0, <2>1, <2>3, <2>4 DEF ApiInv
<1>17. ASSUME NEW w \in Workers, MarkFailed(w)
      PROVE  BaseInv'
  <2>1. UNCHANGED <<pc, held, api>>
    BY <1>17 DEF MarkFailed, vars, loops, slot
  <2>2. dl' \in [Workers -> CallType]
    BY <1>17 DEF MarkFailed, Go, Write, Asked, slot, CallType, CallInv
  <2>3. CTypeOK'
    BY <1>17, <2>2 DEF MarkFailed, Go, Write, Asked, slot, ChapterStatuses, CallType, CallInv
  <2>4. CallInv'
    BY <1>17, <2>1 DEF MarkFailed, Go, Write, Asked, CallInv, TypeOK, HeldInv
  <2>. QED  BY <1>0, <2>1, <2>3, <2>4 DEF ApiInv
<1>18. ASSUME NEW w \in Workers, HandBack(w)
      PROVE  BaseInv'
  <2>1. dl' = [dl EXCEPT ![w] = NoCall] /\ UNCHANGED <<slot, api>>
    BY <1>18 DEF HandBack
  <2>2. \A v \in Workers \ {w} : pc'[v] = pc[v]
    BY <1>18 DEF HandBack, Return, TypeOK
  <2>3. CTypeOK'
    BY <2>1 DEF slot, NoCall
  <2>4. CallInv'
    BY <2>1, <2>2 DEF CallInv, NoCall
  <2>. QED  BY <1>0, <2>1, <2>3, <2>4 DEF ApiInv
<1>19. ASSUME UNCHANGED <<pc, held, dl>>, CTypeOK', ApiInv'
      PROVE  BaseInv'
  BY <1>0, <1>19 DEF CallInv
<1>20. ASSUME NEW r \in Requests, Open(r)
      PROVE  BaseInv'
  <2>1. UNCHANGED <<pc, held, dl>>
    BY <1>20 DEF Open, NoApi, vars, rows, loops
  <2>2. CTypeOK' /\ ApiInv'
    BY <1>20 DEF Open, NoApi, vars, slot, ChapterStatuses, ApiInv
  <2>. QED  BY <1>19, <2>1, <2>2
<1>21. ASSUME NEW r \in Requests, ScanFinds(r)
      PROVE  BaseInv'
  <2>1. UNCHANGED <<pc, held, dl>>
    BY <1>21 DEF ScanFinds, NoApi, vars, rows, loops
  <2>2. CTypeOK' /\ ApiInv'
    BY <1>21 DEF ScanFinds, NoApi, vars, slot, ChapterStatuses, ApiInv
  <2>. QED  BY <1>19, <2>1, <2>2
<1>22. ASSUME NEW r \in Requests, NowCheck(r)
      PROVE  BaseInv'
  <2>1. UNCHANGED <<pc, held, dl>>
    BY <1>22 DEF NowCheck, Then, vars, rows, loops
  <2>2. CTypeOK' /\ ApiInv'
    BY <1>22 DEF NowCheck, Then, vars, slot, ChapterStatuses, ApiInv
  <2>. QED  BY <1>19, <2>1, <2>2
<1>23. ASSUME NEW r \in Requests, DeleteFile(r)
      PROVE  BaseInv'
  <2>1. UNCHANGED <<pc, held, dl>>
    BY <1>23 DEF DeleteFile, Then, vars, rows, loops
  <2>2. CTypeOK' /\ ApiInv'
    BY <1>23 DEF DeleteFile, Then, vars, slot, ChapterStatuses, ApiInv
  <2>. QED  BY <1>19, <2>1, <2>2
<1>24. ASSUME NEW r \in Requests, ClearFirst(r)
      PROVE  BaseInv'
  <2>1. UNCHANGED <<pc, held, dl>>
    BY <1>24 DEF ClearFirst, Then, Write, vars, rows, loops
  <2>2. CTypeOK' /\ ApiInv'
    BY <1>24 DEF ClearFirst, Then, Write, vars, slot, ChapterStatuses, ApiInv
  <2>. QED  BY <1>19, <2>1, <2>2
<1>25. ASSUME NEW r \in Requests, ClearTasks(r)
      PROVE  BaseInv'
  <2>1. UNCHANGED <<pc, held, dl>>
    BY <1>25 DEF ClearTasks, ResetRead, NoApi, vars, rows, loops
  <2>2. CTypeOK' /\ ApiInv'
    BY <1>25 DEF ClearTasks, ResetRead, NoApi, vars, slot, ChapterStatuses, ApiInv
  <2>. QED  BY <1>19, <2>1, <2>2
<1>26. ASSUME NEW r \in Requests, WriteStatus(r)
      PROVE  BaseInv'
  <2>1. UNCHANGED <<pc, held, dl>>
    BY <1>26 DEF WriteStatus, Write, NoApi, vars, rows, loops
  <2>2. CTypeOK' /\ ApiInv'
    BY <1>26 DEF WriteStatus, Write, NoApi, vars, slot, ChapterStatuses, ApiInv
  <2>. QED  BY <1>19, <2>1, <2>2
<1>27. ASSUME NEW r \in Requests, NEW t \in Tasks, DownloadInsert(r, t)
      PROVE  BaseInv'
  <2>1. UNCHANGED <<pc, held, dl>>
    BY <1>27 DEF DownloadInsert, Then, Enqueue, vars, rows, loops
  <2>2. CTypeOK' /\ ApiInv'
    BY <1>27 DEF DownloadInsert, Then, Enqueue, vars, slot, ChapterStatuses, ApiInv
  <2>. QED  BY <1>19, <2>1, <2>2
<1>28. ASSUME NEW r \in Requests, NEW t \in Tasks, ScanInsert(r, t)
      PROVE  BaseInv'
  <2>1. UNCHANGED <<pc, held, dl>>
    BY <1>28 DEF ScanInsert, Enqueue, NoApi, vars, rows, loops
  <2>2. CTypeOK' /\ ApiInv'
    BY <1>28 DEF ScanInsert, Enqueue, NoApi, vars, slot, ChapterStatuses, ApiInv
  <2>. QED  BY <1>19, <2>1, <2>2
<1>29. ASSUME NEW r \in Requests, NEW t \in Tasks, NowPromote(r, t)
      PROVE  BaseInv'
  <2>1. UNCHANGED <<pc, held, dl>>
    BY <1>29 DEF NowPromote, Then, Prioritise, vars, rows, loops
  <2>2. CTypeOK' /\ ApiInv'
    BY <1>29 DEF NowPromote, Then, Prioritise, vars, slot, ChapterStatuses, ApiInv
  <2>. QED  BY <1>19, <2>1, <2>2
<1>30. ASSUME NEW r \in Requests, NEW t \in Tasks, NowFrontInsert(r, t)
      PROVE  BaseInv'
  <2>1. UNCHANGED <<pc, held, dl>>
    BY <1>30 DEF NowFrontInsert, Then, FrontInsert, vars, rows, loops
  <2>2. CTypeOK' /\ ApiInv'
    BY <1>30 DEF NowFrontInsert, Then, FrontInsert, vars, slot, ChapterStatuses, ApiInv
  <2>. QED  BY <1>19, <2>1, <2>2
<1>31. ASSUME NEW r \in Requests, NEW t \in Tasks, CancelBegin(r, t)
      PROVE  BaseInv'
  <2>1. UNCHANGED <<pc, held, dl>>
    BY <1>31 DEF CancelBegin, CancelRow, vars, rows, loops
  <2>2. CTypeOK' /\ ApiInv'
    BY <1>31 DEF CancelBegin, CancelRow, vars, slot, ChapterStatuses, ApiInv
  <2>. QED  BY <1>19, <2>1, <2>2
<1>32. ASSUME NEW r \in Requests, NEW q \in Queues, NowFrontRead(r, q)
      PROVE  BaseInv'
  <2>1. UNCHANGED <<pc, held, dl>>
    BY <1>32 DEF NowFrontRead, Then, FrontRead, vars, rows, loops
  <2>2. CTypeOK' /\ ApiInv'
    BY <1>32 DEF NowFrontRead, Then, FrontRead, vars, slot, ChapterStatuses, ApiInv
  <2>. QED  BY <1>19, <2>1, <2>2
<1>33. ASSUME NEW r \in Requests, UNCHANGED <<slot, dl, api>>,
             ResetRows(r) \/ \E t \in Tasks : CancelFire(r, t) \/ ResetFire(r, t)
      PROVE  BaseInv'
  <2>1. UNCHANGED <<pc, held, dl>>
    BY <1>33 DEF ResetRows, CancelFire, ResetFire, vars, rows, loops
  <2>2. CTypeOK' /\ ApiInv'
    BY <1>33 DEF ResetRows, CancelFire, ResetFire, vars, slot, ChapterStatuses, ApiInv
  <2>. QED  BY <1>19, <2>1, <2>2
<1>34. ASSUME NEW t \in Tasks, BackoffEnds(t), UNCHANGED <<slot, dl, api>>
      PROVE  BaseInv'
  <2>1. UNCHANGED <<pc, held, dl>>
    BY <1>34 DEF BackoffEnds, vars, rows, loops
  <2>2. CTypeOK' /\ ApiInv'
    BY <1>34 DEF BackoffEnds, vars, slot, ChapterStatuses, ApiInv
  <2>. QED  BY <1>19, <2>1, <2>2
<1>35. ASSUME NEW c \in Chapters, SetCanonical(c)
      PROVE  BaseInv'
  <2>1. UNCHANGED <<pc, held, dl>>
    BY <1>35 DEF SetCanonical, vars, rows, loops
  <2>2. CTypeOK' /\ ApiInv'
    BY <1>35 DEF SetCanonical, vars, slot, ChapterStatuses, ApiInv
  <2>. QED  BY <1>19, <2>1, <2>2
<1>36. ASSUME CrashRestart
      PROVE  BaseInv'
  <2>1. CTypeOK'
    BY <1>36 DEF CrashRestart, NoCall, NoApi
  <2>. QED  BY <1>0, <1>36, <2>1 DEF CrashRestart, CallInv, ApiInv, NoCall, NoApi
<1>37. CASE UNCHANGED cvars
  BY <1>0, <1>37 DEF cvars, slot, vars, loops, CallInv, ApiInv
<1>. QED
  BY <1>2, <1>3, <1>4, <1>5, <1>6, <1>7, <1>8, <1>9, <1>10, <1>11, <1>12, <1>13, <1>14, <1>15, <1>16, <1>17, <1>18, <1>19, <1>20, <1>21, <1>22, <1>23, <1>24, <1>25, <1>26, <1>27, <1>28, <1>29, <1>30, <1>31, <1>32, <1>33, <1>34, <1>35, <1>36, <1>37
     DEF CNext, CWorkerStep, Download, HandlerStep

(* Calls and handlers stand where their workers and entries allow.         *)
THEOREM BaseInvariant == CSpec => []BaseInv
  BY BaseInit, BaseInvNext, PTL DEF CSpec

(* A chapter's download runs on the queue as TaskQueue describes it: what  *)
(* is proved of the queue holds of it.                                     *)
THEOREM DownloadImplementsQueue == CSpec => Spec
<1>1. CSpec => Init
  BY DEF CSpec, CInit
<1>2. BaseInv /\ [CNext]_cvars => [Next]_vars
  BY StepOfQueue DEF BaseInv
<1>. QED  BY <1>1, <1>2, BaseInvariant, PTL DEF CSpec, Spec

(* Every variable stays in its domain.                                     *)
THEOREM DownloadTypeCorrect == CSpec => []CTypeOK
  BY BaseInvariant, PTL DEF BaseInv

-----------------------------------------------------------------------------
(* Nothing deletes rows here, and a row whose last write was lost stays    *)
(* Running, or is cancelled, and nobody has it in hand.                    *)
RowInv ==
  /\ \A t \in Tasks : status[t] # "Deleted"
  /\ \A t \in lost : status[t] \in {"Running", "Cancelled"} /\ \A w \in Workers : held[w] # t

(* What lets a chapter be shown as Downloading with no worker on it: a     *)
(* task of it will be claimed, or has been and its download is about to    *)
(* begin, or it was cancelled or lost and nobody has it in hand.           *)
Pursued(t) ==
  \/ status[t] = "Pending"
  \/ \E w \in Workers : held[w] = t /\ pc[w] \in {"claimed", "dispatch"} /\ dl[w].step = "off"
  \/ (status[t] = "Cancelled" \/ t \in lost) /\ \A w \in Workers : held[w] # t

(* As long as the daemon has never restarted a worker is on every chapter  *)
(* shown as Downloading.                                                   *)
ChapterInv ==
  \A c \in Chapters : chapter[c] = "Downloading" =>
     \/ \E w \in Workers : WorksOn(w, c)
     \/ restarts > 0 /\ \E t \in Tasks : ChapterOf[t] = c /\ Pursued(t)

(* The inductive invariant.                                                *)
DownloadInv == BaseInv /\ RowInv /\ ChapterInv

(* Nobody has a Pending row in hand, and no lost or deleted row is either. *)
LEMMA HeldRow ==
  ASSUME BaseInv, RowInv, NEW w \in Workers, held[w] # NoTask
  PROVE  /\ held[w] \in Tasks /\ held[w] \notin lost
         /\ status[held[w]] \in {"Running", "Cancelled"}
         /\ pc[w] \in {"claimed", "dispatch", "report"}
  BY DEF BaseInv, QueueInv, TypeOK, HeldInv, RowInv

(* The steps of the queue that a chapter's download takes part in: none of *)
(* them deletes a row.                                                     *)
QueuePart ==
  \/ \E w \in Workers :
        \/ CheckGates(w) \/ ClaimNothing(w) \/ Register(w)
        \/ Complete(w) \/ Fail(w) \/ Dropped(w) \/ WriteLost(w)
        \/ \E u \in Tasks : Claim(w, u)
  \/ \E r \in Requests : RequestStep(r)
  \/ \E u \in Tasks : Enqueue(u) \/ Prioritise(u) \/ BackoffEnds(u)
  \/ UNCHANGED vars

(* Such a step leaves a download alone, and whatever pursues a chapter.    *)
LEMMA QueuePartKeeps ==
  ASSUME BaseInv, RowInv, QueuePart, dl' = dl
  PROVE  /\ RowInv'
         /\ restarts' = restarts
         /\ \A t \in Tasks : Pursued(t) => Pursued(t)'
         /\ \A w \in Workers : pc[w] = "dispatch" => pc'[w] = "dispatch" /\ held'[w] = held[w]
<1> DEFINE Keeps == /\ RowInv'
                    /\ restarts' = restarts
                    /\ \A t \in Tasks : Pursued(t) => Pursued(t)'
                    /\ \A w \in Workers : pc[w] = "dispatch" => pc'[w] = "dispatch" /\ held'[w] = held[w]
<1>. USE QueueAssumption DEF BaseInv, QueueInv, TypeOK
<1>1. ASSUME NEW w \in Workers, CheckGates(w)  PROVE Keeps
  <2>1. RowInv'
    BY <1>1, HeldRow DEF CheckGates, rows, RowInv, HeldInv, OneHolder
  <2>2. ASSUME NEW t \in Tasks, Pursued(t)  PROVE Pursued(t)'
    BY <1>1, <2>2, HeldRow DEF CheckGates, rows, Pursued, OneHolder, HeldInv, RowInv, CallInv
  <2>3. /\ restarts' = restarts
        /\ \A v \in Workers : pc[v] = "dispatch" => pc'[v] = "dispatch" /\ held'[v] = held[v]
    BY <1>1 DEF CheckGates, rows, loops, settings
  <2>. QED  BY <2>1, <2>2, <2>3
<1>2. ASSUME NEW w \in Workers, ClaimNothing(w)  PROVE Keeps
  <2>1. RowInv'
    BY <1>2, HeldRow DEF ClaimNothing, rows, RowInv, HeldInv, OneHolder
  <2>2. ASSUME NEW t \in Tasks, Pursued(t)  PROVE Pursued(t)'
    BY <1>2, <2>2, HeldRow DEF ClaimNothing, rows, Pursued, OneHolder, HeldInv, RowInv, CallInv
  <2>3. /\ restarts' = restarts
        /\ \A v \in Workers : pc[v] = "dispatch" => pc'[v] = "dispatch" /\ held'[v] = held[v]
    BY <1>2 DEF ClaimNothing, rows, loops, settings
  <2>. QED  BY <2>1, <2>2, <2>3
<1>3. ASSUME NEW w \in Workers, Register(w)  PROVE Keeps
  <2>1. RowInv'
    BY <1>3, HeldRow DEF Register, rows, RowInv, HeldInv, OneHolder
  <2>2. ASSUME NEW t \in Tasks, Pursued(t)  PROVE Pursued(t)'
    BY <1>3, <2>2, HeldRow DEF Register, rows, Pursued, OneHolder, HeldInv, RowInv, CallInv
  <2>3. /\ restarts' = restarts
        /\ \A v \in Workers : pc[v] = "dispatch" => pc'[v] = "dispatch" /\ held'[v] = held[v]
    BY <1>3 DEF Register, rows, loops, settings
  <2>. QED  BY <2>1, <2>2, <2>3
<1>4. ASSUME NEW w \in Workers, Complete(w)  PROVE Keeps
  <2>1. RowInv'
    BY <1>4, HeldRow DEF Complete, LetGo, RowInv, HeldInv, OneHolder
  <2>2. ASSUME NEW t \in Tasks, Pursued(t)  PROVE Pursued(t)'
    BY <1>4, <2>2, HeldRow DEF Complete, LetGo, Pursued, OneHolder, HeldInv, RowInv, CallInv
  <2>3. /\ restarts' = restarts
        /\ \A v \in Workers : pc[v] = "dispatch" => pc'[v] = "dispatch" /\ held'[v] = held[v]
    BY <1>4 DEF Complete, LetGo, loops, settings
  <2>. QED  BY <2>1, <2>2, <2>3
<1>5. ASSUME NEW w \in Workers, Fail(w)  PROVE Keeps
  <2>1. RowInv'
    BY <1>5, HeldRow DEF Fail, AttemptsLeft, LetGo, RowInv, HeldInv, OneHolder
  <2>2. ASSUME NEW t \in Tasks, Pursued(t)  PROVE Pursued(t)'
    BY <1>5, <2>2, HeldRow DEF Fail, AttemptsLeft, LetGo, Pursued, OneHolder, HeldInv, RowInv, CallInv
  <2>3. /\ restarts' = restarts
        /\ \A v \in Workers : pc[v] = "dispatch" => pc'[v] = "dispatch" /\ held'[v] = held[v]
    BY <1>5 DEF Fail, AttemptsLeft, LetGo, loops, settings
  <2>. QED  BY <2>1, <2>2, <2>3
<1>6. ASSUME NEW w \in Workers, Dropped(w)  PROVE Keeps
  <2>1. RowInv'
    BY <1>6, HeldRow DEF Dropped, LetGo, rows, RowInv, HeldInv, OneHolder
  <2>2. ASSUME NEW t \in Tasks, Pursued(t)  PROVE Pursued(t)'
    BY <1>6, <2>2, HeldRow DEF Dropped, LetGo, rows, Pursued, OneHolder, HeldInv, RowInv, CallInv
  <2>3. /\ restarts' = restarts
        /\ \A v \in Workers : pc[v] = "dispatch" => pc'[v] = "dispatch" /\ held'[v] = held[v]
    BY <1>6 DEF Dropped, LetGo, rows, loops, settings
  <2>. QED  BY <2>1, <2>2, <2>3
<1>7. ASSUME NEW w \in Workers, WriteLost(w)  PROVE Keeps
  <2>1. RowInv'
    BY <1>7, HeldRow DEF WriteLost, LetGo, rows, RowInv, HeldInv, OneHolder
  <2>2. ASSUME NEW t \in Tasks, Pursued(t)  PROVE Pursued(t)'
    BY <1>7, <2>2, HeldRow DEF WriteLost, LetGo, rows, Pursued, OneHolder, HeldInv, RowInv, CallInv
  <2>3. /\ restarts' = restarts
        /\ \A v \in Workers : pc[v] = "dispatch" => pc'[v] = "dispatch" /\ held'[v] = held[v]
    BY <1>7 DEF WriteLost, LetGo, rows, loops, settings
  <2>. QED  BY <2>1, <2>2, <2>3
<1>8. ASSUME NEW w \in Workers, NEW u \in Tasks, Claim(w, u)  PROVE Keeps
  <2>1. RowInv'
    BY <1>8, HeldRow DEF Claim, Runnable, PendingIn, RowInv, HeldInv, OneHolder
  <2>2. ASSUME NEW t \in Tasks, Pursued(t)  PROVE Pursued(t)'
    BY <1>8, <2>2, HeldRow DEF Claim, Runnable, PendingIn, Pursued, OneHolder, HeldInv, RowInv, CallInv
  <2>3. /\ restarts' = restarts
        /\ \A v \in Workers : pc[v] = "dispatch" => pc'[v] = "dispatch" /\ held'[v] = held[v]
    BY <1>8 DEF Claim, Runnable, PendingIn, loops, settings
  <2>. QED  BY <2>1, <2>2, <2>3
<1>9. ASSUME NEW r \in Requests, ResetRows(r)  PROVE Keeps
  <2>1. RowInv'
    BY <1>9, HeldRow DEF ResetRows, CancelRows, Active, loops, settings, RowInv, HeldInv, OneHolder
  <2>2. ASSUME NEW t \in Tasks, Pursued(t)  PROVE Pursued(t)'
    BY <1>9, <2>2, HeldRow DEF ResetRows, CancelRows, Active, loops, settings, Pursued, OneHolder, HeldInv, RowInv, CallInv
  <2>3. /\ restarts' = restarts
        /\ \A v \in Workers : pc[v] = "dispatch" => pc'[v] = "dispatch" /\ held'[v] = held[v]
    BY <1>9 DEF ResetRows, CancelRows, Active, loops, settings, loops, settings
  <2>. QED  BY <2>1, <2>2, <2>3
<1>10. ASSUME NEW r \in Requests, NEW u \in Tasks, CancelRow(r, u)  PROVE Keeps
  <2>1. RowInv'
    BY <1>10, HeldRow DEF CancelRow, CancelRows, Active, loops, settings, RowInv, HeldInv, OneHolder
  <2>2. ASSUME NEW t \in Tasks, Pursued(t)  PROVE Pursued(t)'
    BY <1>10, <2>2, HeldRow DEF CancelRow, CancelRows, Active, loops, settings, Pursued, OneHolder, HeldInv, RowInv, CallInv
  <2>3. /\ restarts' = restarts
        /\ \A v \in Workers : pc[v] = "dispatch" => pc'[v] = "dispatch" /\ held'[v] = held[v]
    BY <1>10 DEF CancelRow, CancelRows, Active, loops, settings, loops, settings
  <2>. QED  BY <2>1, <2>2, <2>3
<1>11. ASSUME NEW r \in Requests, NEW u \in Tasks, CancelFire(r, u) \/ ResetFire(r, u)  PROVE Keeps
  <2>1. RowInv'
    BY <1>11, HeldRow DEF CancelFire, ResetFire, rows, settings, RowInv, HeldInv, OneHolder
  <2>2. ASSUME NEW t \in Tasks, Pursued(t)  PROVE Pursued(t)'
    BY <1>11, <2>2, HeldRow DEF CancelFire, ResetFire, rows, settings, Pursued, OneHolder, HeldInv, RowInv, CallInv
  <2>3. /\ restarts' = restarts
        /\ \A v \in Workers : pc[v] = "dispatch" => pc'[v] = "dispatch" /\ held'[v] = held[v]
    BY <1>11 DEF CancelFire, ResetFire, rows, settings, loops, settings
  <2>. QED  BY <2>1, <2>2, <2>3
<1>12. ASSUME NEW r \in Requests, NEW u \in Tasks, FrontInsert(r, u)  PROVE Keeps
  <2>1. RowInv'
    BY <1>12, HeldRow DEF FrontInsert, Insert, loops, settings, RowInv, HeldInv, OneHolder
  <2>2. ASSUME NEW t \in Tasks, Pursued(t)  PROVE Pursued(t)'
    BY <1>12, <2>2, HeldRow DEF FrontInsert, Insert, loops, settings, Pursued, OneHolder, HeldInv, RowInv, CallInv
  <2>3. /\ restarts' = restarts
        /\ \A v \in Workers : pc[v] = "dispatch" => pc'[v] = "dispatch" /\ held'[v] = held[v]
    BY <1>12 DEF FrontInsert, Insert, loops, settings, loops, settings
  <2>. QED  BY <2>1, <2>2, <2>3
<1>13. ASSUME NEW r \in Requests, NEW q \in Queues, FrontRead(r, q)  PROVE Keeps
  <2>1. RowInv'
    BY <1>13, HeldRow DEF FrontRead, rows, loops, settings, RowInv, HeldInv, OneHolder
  <2>2. ASSUME NEW t \in Tasks, Pursued(t)  PROVE Pursued(t)'
    BY <1>13, <2>2, HeldRow DEF FrontRead, rows, loops, settings, Pursued, OneHolder, HeldInv, RowInv, CallInv
  <2>3. /\ restarts' = restarts
        /\ \A v \in Workers : pc[v] = "dispatch" => pc'[v] = "dispatch" /\ held'[v] = held[v]
    BY <1>13 DEF FrontRead, rows, loops, settings, loops, settings
  <2>. QED  BY <2>1, <2>2, <2>3
<1>14. ASSUME NEW r \in Requests, NEW c \in Chapters, ResetRead(r, c)  PROVE Keeps
  <2>1. RowInv'
    BY <1>14, HeldRow DEF ResetRead, rows, loops, settings, RowInv, HeldInv, OneHolder
  <2>2. ASSUME NEW t \in Tasks, Pursued(t)  PROVE Pursued(t)'
    BY <1>14, <2>2, HeldRow DEF ResetRead, rows, loops, settings, Pursued, OneHolder, HeldInv, RowInv, CallInv
  <2>3. /\ restarts' = restarts
        /\ \A v \in Workers : pc[v] = "dispatch" => pc'[v] = "dispatch" /\ held'[v] = held[v]
    BY <1>14 DEF ResetRead, rows, loops, settings, loops, settings
  <2>. QED  BY <2>1, <2>2, <2>3
<1>15. ASSUME NEW u \in Tasks, Enqueue(u)  PROVE Keeps
  <2>1. RowInv'
    BY <1>15, HeldRow DEF Enqueue, Insert, loops, settings, RowInv, HeldInv, OneHolder
  <2>2. ASSUME NEW t \in Tasks, Pursued(t)  PROVE Pursued(t)'
    BY <1>15, <2>2, HeldRow DEF Enqueue, Insert, loops, settings, Pursued, OneHolder, HeldInv, RowInv, CallInv
  <2>3. /\ restarts' = restarts
        /\ \A v \in Workers : pc[v] = "dispatch" => pc'[v] = "dispatch" /\ held'[v] = held[v]
    BY <1>15 DEF Enqueue, Insert, loops, settings, loops, settings
  <2>. QED  BY <2>1, <2>2, <2>3
<1>16. ASSUME NEW u \in Tasks, Prioritise(u) \/ BackoffEnds(u)  PROVE Keeps
  <2>1. RowInv'
    BY <1>16, HeldRow DEF Prioritise, BackoffEnds, loops, settings, RowInv, HeldInv, OneHolder
  <2>2. ASSUME NEW t \in Tasks, Pursued(t)  PROVE Pursued(t)'
    BY <1>16, <2>2, HeldRow DEF Prioritise, BackoffEnds, loops, settings, Pursued, OneHolder, HeldInv, RowInv, CallInv
  <2>3. /\ restarts' = restarts
        /\ \A v \in Workers : pc[v] = "dispatch" => pc'[v] = "dispatch" /\ held'[v] = held[v]
    BY <1>16 DEF Prioritise, BackoffEnds, loops, settings, loops, settings
  <2>. QED  BY <2>1, <2>2, <2>3
<1>17. CASE UNCHANGED vars
  BY <1>17 DEF vars, rows, loops, settings, RowInv, Pursued
<1>. QED  BY <1>1, <1>2, <1>3, <1>4, <1>5, <1>6, <1>7, <1>8, <1>9, <1>10, <1>11, <1>12, <1>13, <1>14, <1>15, <1>16, <1>17
     DEF QueuePart, RequestStep

(* What a step must leave true for the chapters to stay worked on, ...     *)
LEMMA StillPursued ==
  ASSUME ChapterInv, restarts' = restarts,
         \A t \in Tasks : Pursued(t) => Pursued(t)',
         \A c \in Chapters : chapter'[c] = "Downloading" =>
            /\ chapter[c] = "Downloading"
            /\ \A w \in Workers : WorksOn(w, c) => WorksOn(w, c)'
  PROVE  ChapterInv'
<1> SUFFICES ASSUME NEW c \in Chapters, chapter'[c] = "Downloading"
             PROVE  \/ \E w \in Workers : WorksOn(w, c)'
                    \/ restarts' > 0 /\ \E t \in Tasks : ChapterOf[t] = c /\ Pursued(t)'
  BY DEF ChapterInv
<1>1. CASE \E w \in Workers : WorksOn(w, c)
  BY <1>1
<1>2. CASE restarts > 0 /\ \E t \in Tasks : ChapterOf[t] = c /\ Pursued(t)
  BY <1>2
<1>. QED  BY <1>1, <1>2 DEF ChapterInv

(* ... and what a download under way must, which leaves the queue alone.   *)
LEMMA DownloadKeeps ==
  ASSUME DownloadInv, NEW w \in Workers, UNCHANGED vars, dl[w].step # "off",
         \A v \in Workers \ {w} : dl'[v] = dl[v],
         \A c \in Chapters : chapter'[c] = "Downloading" =>
            chapter[c] = "Downloading" /\ (WorksOn(w, c) => WorksOn(w, c)')
  PROVE  RowInv' /\ ChapterInv'
<1>1. UNCHANGED <<status, held, pc, lost, restarts>>
  BY DEF vars, rows, loops, settings
<1>2. RowInv'
  BY <1>1 DEF DownloadInv, RowInv
<1>3. ASSUME NEW t \in Tasks, Pursued(t)  PROVE Pursued(t)'
  BY <1>1, <1>3 DEF Pursued
<1>4. ASSUME NEW c \in Chapters, NEW v \in Workers \ {w}, WorksOn(v, c)  PROVE WorksOn(v, c)'
  BY <1>1, <1>4 DEF WorksOn, Asked
<1>. QED  BY <1>1, <1>2, <1>3, <1>4, StillPursued DEF DownloadInv

LEMMA DownloadInvInit == CInit => DownloadInv
  BY BaseInit DEF CInit, Init, DownloadInv, RowInv, ChapterInv

LEMMA DownloadInvNext == DownloadInv /\ [CNext]_cvars => DownloadInv'
<1> SUFFICES ASSUME DownloadInv, [CNext]_cvars
             PROVE  RowInv' /\ ChapterInv'
  BY BaseInvNext DEF DownloadInv
<1>. USE DownloadAssumption, QueueAssumption DEF DownloadInv
<1>0. /\ BaseInv /\ QueueInv /\ TypeOK /\ CTypeOK /\ CallInv
      /\ \A w \in Workers : pc[w] = "dispatch" => held[w] \in Tasks /\ Asked(w) \in Chapters
  BY DEF BaseInv, QueueInv, TypeOK, HeldInv, Asked
<1>1. ASSUME QueuePart, dl' = dl,
             \A c \in Chapters : chapter'[c] = "Downloading" => chapter[c] = "Downloading"
      PROVE  RowInv' /\ ChapterInv'
  <2>1. RowInv' /\ restarts' = restarts /\ \A t \in Tasks : Pursued(t) => Pursued(t)'
    BY <1>1, QueuePartKeeps
  <2>2. ASSUME NEW w \in Workers, NEW c \in Chapters, WorksOn(w, c)  PROVE WorksOn(w, c)'
    BY <1>1, <2>2, QueuePartKeeps DEF WorksOn, Asked
  <2>. QED  BY <1>1, <2>1, <2>2, StillPursued
<1>2. ASSUME NEW w \in Workers, QueueStep(w)
      PROVE  RowInv' /\ ChapterInv'
  <2>1. QueuePart /\ dl' = dl /\ chapter' = chapter
    BY <1>2 DEF QueueStep, QueuePart, slot
  <2>. QED  BY <1>1, <2>1
<1>3. ASSUME NEW w \in Workers, Begin(w)
      PROVE  RowInv' /\ ChapterInv'
  <2>1. /\ UNCHANGED <<status, held, pc, lost, restarts>>
        /\ pc[w] = "dispatch" /\ dl[w].step = "off"
    BY <1>3 DEF Begin, vars, rows, loops, settings
  <2>2. dl'[w].step = "try" /\ \A v \in Workers \ {w} : dl'[v] = dl[v]
    BY <1>3, <1>0 DEF Begin, CTypeOK
  <2>3. RowInv'
    BY <2>1 DEF RowInv
  <2>4. ASSUME NEW c \in Chapters, chapter'[c] = "Downloading"
        PROVE  \/ \E v \in Workers : WorksOn(v, c)'
               \/ restarts' > 0 /\ \E t \in Tasks : ChapterOf[t] = c /\ Pursued(t)'
    <3>1. CASE c = Asked(w)
      BY <2>1, <2>2, <3>1 DEF WorksOn, Asked
    <3>2. CASE c # Asked(w)
      <4>1. chapter[c] = "Downloading"
        BY <1>3, <2>4, <3>2, <1>0 DEF Begin, Write, CTypeOK
      <4>2. ASSUME NEW v \in Workers, WorksOn(v, c)  PROVE WorksOn(v, c)'
        BY <2>1, <2>2, <4>2 DEF WorksOn, Asked
      <4>3. ASSUME NEW t \in Tasks, ChapterOf[t] = c, Pursued(t)  PROVE Pursued(t)'
        BY <2>1, <2>2, <3>2, <4>3 DEF Pursued, Asked
      <4>. QED  BY <2>1, <4>1, <4>2, <4>3 DEF ChapterInv
    <3>. QED  BY <3>1, <3>2
  <2>. QED  BY <2>3, <2>4 DEF ChapterInv
<1>4. ASSUME NEW w \in Workers, StopHere(w)
      PROVE  RowInv' /\ ChapterInv'
  <2>1. UNCHANGED <<vars, pc, held>> /\ dl[w].step # "off"
    BY <1>4 DEF StopHere, Leave, NoCall, Write, Asked, vars, loops
  <2>2. \A v \in Workers \ {w} : dl'[v] = dl[v]
    BY <1>4, <1>0 DEF StopHere, Leave, NoCall, Write, Asked, CTypeOK
  <2>3. ASSUME NEW c \in Chapters, chapter'[c] = "Downloading"
        PROVE  chapter[c] = "Downloading" /\ (WorksOn(w, c) => WorksOn(w, c)')
    BY <1>4, <1>0, <2>1, <2>3 DEF StopHere, Leave, NoCall, Write, Asked, slot, WorksOn, Asked, CTypeOK, CallInv
  <2>. QED  BY <2>1, <2>2, <2>3, DownloadKeeps
<1>5. ASSUME NEW w \in Workers, TryEntry(w)
      PROVE  RowInv' /\ ChapterInv'
  <2>1. UNCHANGED <<vars, pc, held>> /\ dl[w].step # "off"
    BY <1>5 DEF TryEntry, First, vars, loops
  <2>2. \A v \in Workers \ {w} : dl'[v] = dl[v]
    BY <1>5, <1>0 DEF TryEntry, First, CTypeOK
  <2>3. ASSUME NEW c \in Chapters, chapter'[c] = "Downloading"
        PROVE  chapter[c] = "Downloading" /\ (WorksOn(w, c) => WorksOn(w, c)')
    BY <1>5, <1>0, <2>1, <2>3 DEF TryEntry, First, slot, WorksOn, Asked, CTypeOK, CallInv
  <2>. QED  BY <2>1, <2>2, <2>3, DownloadKeeps
<1>6. ASSUME NEW w \in Workers, EntryFails(w)
      PROVE  RowInv' /\ ChapterInv'
  <2>1. UNCHANGED <<vars, pc, held>> /\ dl[w].step # "off"
    BY <1>6 DEF EntryFails, Write, vars, loops
  <2>2. \A v \in Workers \ {w} : dl'[v] = dl[v]
    BY <1>6, <1>0 DEF EntryFails, Write, CTypeOK
  <2>3. ASSUME NEW c \in Chapters, chapter'[c] = "Downloading"
        PROVE  chapter[c] = "Downloading" /\ (WorksOn(w, c) => WorksOn(w, c)')
    BY <1>6, <1>0, <2>1, <2>3 DEF EntryFails, Write, slot, WorksOn, Asked, CTypeOK, CallInv
  <2>. QED  BY <2>1, <2>2, <2>3, DownloadKeeps
<1>7. ASSUME NEW w \in Workers, LastLook(w)
      PROVE  RowInv' /\ ChapterInv'
  <2>1. UNCHANGED <<vars, pc, held>> /\ dl[w].step # "off"
    BY <1>7 DEF LastLook, Go, vars, loops
  <2>2. \A v \in Workers \ {w} : dl'[v] = dl[v]
    BY <1>7, <1>0 DEF LastLook, Go, CTypeOK
  <2>3. ASSUME NEW c \in Chapters, chapter'[c] = "Downloading"
        PROVE  chapter[c] = "Downloading" /\ (WorksOn(w, c) => WorksOn(w, c)')
    BY <1>7, <1>0, <2>1, <2>3 DEF LastLook, Go, slot, WorksOn, Asked, CTypeOK, CallInv
  <2>. QED  BY <2>1, <2>2, <2>3, DownloadKeeps
<1>8. ASSUME NEW w \in Workers, Create(w)
      PROVE  RowInv' /\ ChapterInv'
  <2>1. UNCHANGED <<vars, pc, held>> /\ dl[w].step # "off"
    BY <1>8 DEF Create, Go, Goal, Asked, vars, loops
  <2>2. \A v \in Workers \ {w} : dl'[v] = dl[v]
    BY <1>8, <1>0 DEF Create, Go, Goal, Asked, CTypeOK
  <2>3. ASSUME NEW c \in Chapters, chapter'[c] = "Downloading"
        PROVE  chapter[c] = "Downloading" /\ (WorksOn(w, c) => WorksOn(w, c)')
    BY <1>8, <1>0, <2>1, <2>3 DEF Create, Go, Goal, Asked, slot, WorksOn, Asked, CTypeOK, CallInv
  <2>. QED  BY <2>1, <2>2, <2>3, DownloadKeeps
<1>9. ASSUME NEW w \in Workers, FinishFile(w)
      PROVE  RowInv' /\ ChapterInv'
  <2>1. UNCHANGED <<vars, pc, held>> /\ dl[w].step # "off"
    BY <1>9 DEF FinishFile, Served, NoCall, Goal, Asked, vars, loops
  <2>2. \A v \in Workers \ {w} : dl'[v] = dl[v]
    BY <1>9, <1>0 DEF FinishFile, Served, NoCall, Goal, Asked, CTypeOK
  <2>3. ASSUME NEW c \in Chapters, chapter'[c] = "Downloading"
        PROVE  chapter[c] = "Downloading" /\ (WorksOn(w, c) => WorksOn(w, c)')
    BY <1>9, <1>0, <2>1, <2>3 DEF FinishFile, Served, NoCall, Goal, Asked, slot, WorksOn, Asked, CTypeOK, CallInv
  <2>. QED  BY <2>1, <2>2, <2>3, DownloadKeeps
<1>10. ASSUME NEW w \in Workers, Demote(w)
      PROVE  RowInv' /\ ChapterInv'
  <2>1. UNCHANGED <<vars, pc, held>> /\ dl[w].step # "off"
    BY <1>10 DEF Demote, Go, Write, Asked, vars, loops
  <2>2. \A v \in Workers \ {w} : dl'[v] = dl[v]
    BY <1>10, <1>0 DEF Demote, Go, Write, Asked, CTypeOK
  <2>3. ASSUME NEW c \in Chapters, chapter'[c] = "Downloading"
        PROVE  chapter[c] = "Downloading" /\ (WorksOn(w, c) => WorksOn(w, c)')
    BY <1>10, <1>0, <2>1, <2>3 DEF Demote, Go, Write, Asked, slot, WorksOn, Asked, CTypeOK, CallInv
  <2>. QED  BY <2>1, <2>2, <2>3, DownloadKeeps
<1>11. ASSUME NEW w \in Workers, MarkDownloaded(w)
      PROVE  RowInv' /\ ChapterInv'
  <2>1. UNCHANGED <<vars, pc, held>> /\ dl[w].step # "off"
    BY <1>11 DEF MarkDownloaded, Go, Write, Asked, vars, loops
  <2>2. \A v \in Workers \ {w} : dl'[v] = dl[v]
    BY <1>11, <1>0 DEF MarkDownloaded, Go, Write, Asked, CTypeOK
  <2>3. ASSUME NEW c \in Chapters, chapter'[c] = "Downloading"
        PROVE  chapter[c] = "Downloading" /\ (WorksOn(w, c) => WorksOn(w, c)')
    BY <1>11, <1>0, <2>1, <2>3 DEF MarkDownloaded, Go, Write, Asked, slot, WorksOn, Asked, CTypeOK, CallInv
  <2>. QED  BY <2>1, <2>2, <2>3, DownloadKeeps
<1>12. ASSUME NEW w \in Workers, Crown(w)
      PROVE  RowInv' /\ ChapterInv'
  <2>1. UNCHANGED <<vars, pc, held>> /\ dl[w].step # "off"
    BY <1>12 DEF Crown, Go, vars, loops
  <2>2. \A v \in Workers \ {w} : dl'[v] = dl[v]
    BY <1>12, <1>0 DEF Crown, Go, CTypeOK
  <2>3. ASSUME NEW c \in Chapters, chapter'[c] = "Downloading"
        PROVE  chapter[c] = "Downloading" /\ (WorksOn(w, c) => WorksOn(w, c)')
    BY <1>12, <1>0, <2>1, <2>3 DEF Crown, Go, slot, WorksOn, Asked, CTypeOK, CallInv
  <2>. QED  BY <2>1, <2>2, <2>3, DownloadKeeps
<1>13. ASSUME NEW w \in Workers, Survey(w)
      PROVE  RowInv' /\ ChapterInv'
  <2>1. UNCHANGED <<vars, pc, held>> /\ dl[w].step # "off"
    BY <1>13 DEF Survey, vars, loops
  <2>2. \A v \in Workers \ {w} : dl'[v] = dl[v]
    BY <1>13, <1>0 DEF Survey, CTypeOK
  <2>3. ASSUME NEW c \in Chapters, chapter'[c] = "Downloading"
        PROVE  chapter[c] = "Downloading" /\ (WorksOn(w, c) => WorksOn(w, c)')
    BY <1>13, <1>0, <2>1, <2>3 DEF Survey, slot, WorksOn, Asked, CTypeOK, CallInv
  <2>. QED  BY <2>1, <2>2, <2>3, DownloadKeeps
<1>14. ASSUME NEW w \in Workers, Unlink(w)
      PROVE  RowInv' /\ ChapterInv'
  <2>1. UNCHANGED <<vars, pc, held>> /\ dl[w].step # "off"
    BY <1>14 DEF Unlink, Go, vars, loops
  <2>2. \A v \in Workers \ {w} : dl'[v] = dl[v]
    BY <1>14, <1>0 DEF Unlink, Go, CTypeOK
  <2>3. ASSUME NEW c \in Chapters, chapter'[c] = "Downloading"
        PROVE  chapter[c] = "Downloading" /\ (WorksOn(w, c) => WorksOn(w, c)')
    BY <1>14, <1>0, <2>1, <2>3 DEF Unlink, Go, slot, WorksOn, Asked, CTypeOK, CallInv
  <2>. QED  BY <2>1, <2>2, <2>3, DownloadKeeps
<1>15. ASSUME NEW w \in Workers, Unmark(w)
      PROVE  RowInv' /\ ChapterInv'
  <2>1. UNCHANGED <<vars, pc, held>> /\ dl[w].step # "off"
    BY <1>15 DEF Unmark, Write, vars, loops
  <2>2. \A v \in Workers \ {w} : dl'[v] = dl[v]
    BY <1>15, <1>0 DEF Unmark, Write, CTypeOK
  <2>3. ASSUME NEW c \in Chapters, chapter'[c] = "Downloading"
        PROVE  chapter[c] = "Downloading" /\ (WorksOn(w, c) => WorksOn(w, c)')
    BY <1>15, <1>0, <2>1, <2>3 DEF Unmark, Write, slot, WorksOn, Asked, CTypeOK, CallInv
  <2>. QED  BY <2>1, <2>2, <2>3, DownloadKeeps
<1>16. ASSUME NEW w \in Workers, GiveUp(w)
      PROVE  RowInv' /\ ChapterInv'
  <2>1. UNCHANGED <<vars, pc, held>> /\ dl[w].step # "off"
    BY <1>16 DEF GiveUp, Leave, NoCall, Asked, vars, loops
  <2>2. \A v \in Workers \ {w} : dl'[v] = dl[v]
    BY <1>16, <1>0 DEF GiveUp, Leave, NoCall, Asked, CTypeOK
  <2>3. ASSUME NEW c \in Chapters, chapter'[c] = "Downloading"
        PROVE  chapter[c] = "Downloading" /\ (WorksOn(w, c) => WorksOn(w, c)')
    BY <1>16, <1>0, <2>1, <2>3 DEF GiveUp, Leave, NoCall, Asked, slot, WorksOn, Asked, CTypeOK, CallInv
  <2>. QED  BY <2>1, <2>2, <2>3, DownloadKeeps
<1>17. ASSUME NEW w \in Workers, MarkFailed(w)
      PROVE  RowInv' /\ ChapterInv'
  <2>1. UNCHANGED <<vars, pc, held>> /\ dl[w].step # "off"
    BY <1>17 DEF MarkFailed, Go, Write, Asked, vars, loops
  <2>2. \A v \in Workers \ {w} : dl'[v] = dl[v]
    BY <1>17, <1>0 DEF MarkFailed, Go, Write, Asked, CTypeOK
  <2>3. ASSUME NEW c \in Chapters, chapter'[c] = "Downloading"
        PROVE  chapter[c] = "Downloading" /\ (WorksOn(w, c) => WorksOn(w, c)')
    BY <1>17, <1>0, <2>1, <2>3 DEF MarkFailed, Go, Write, Asked, slot, WorksOn, Asked, CTypeOK, CallInv
  <2>. QED  BY <2>1, <2>2, <2>3, DownloadKeeps
<1>18. ASSUME NEW w \in Workers, HandBack(w)
      PROVE  RowInv' /\ ChapterInv'
  <2>1. /\ UNCHANGED <<chapter, status, held, lost, restarts>>
        /\ dl[w].step \in {"ok", "error", "cancelled"}
        /\ \A v \in Workers \ {w} : pc'[v] = pc[v] /\ dl'[v] = dl[v]
    BY <1>18, <1>0 DEF HandBack, Return, slot, rows, settings, TypeOK, CTypeOK
  <2>2. RowInv'
    BY <2>1 DEF RowInv
  <2>3. ASSUME NEW t \in Tasks, Pursued(t)  PROVE Pursued(t)'
    BY <2>1, <2>3 DEF Pursued
  <2>4. ASSUME NEW c \in Chapters, NEW v \in Workers, WorksOn(v, c)  PROVE WorksOn(v, c)'
    BY <2>1, <2>4 DEF WorksOn, Asked
  <2>. QED  BY <2>1, <2>2, <2>3, <2>4, StillPursued
<1>19. ASSUME NEW r \in Requests, Open(r)
      PROVE  RowInv' /\ ChapterInv'
  <2>1. QueuePart
    BY <1>19 DEF Open, QueuePart
  <2>2. dl' = dl /\ \A c \in Chapters : chapter'[c] = "Downloading" => chapter[c] = "Downloading"
    BY <1>19, <1>0 DEF Open, slot, CTypeOK
  <2>. QED  BY <1>1, <2>1, <2>2
<1>20. ASSUME NEW r \in Requests, ScanFinds(r)
      PROVE  RowInv' /\ ChapterInv'
  <2>1. QueuePart
    BY <1>20 DEF ScanFinds, QueuePart
  <2>2. dl' = dl /\ \A c \in Chapters : chapter'[c] = "Downloading" => chapter[c] = "Downloading"
    BY <1>20, <1>0 DEF ScanFinds, slot, CTypeOK
  <2>. QED  BY <1>1, <2>1, <2>2
<1>21. ASSUME NEW r \in Requests, NowCheck(r)
      PROVE  RowInv' /\ ChapterInv'
  <2>1. QueuePart
    BY <1>21 DEF NowCheck, QueuePart
  <2>2. dl' = dl /\ \A c \in Chapters : chapter'[c] = "Downloading" => chapter[c] = "Downloading"
    BY <1>21, <1>0 DEF NowCheck, slot, CTypeOK
  <2>. QED  BY <1>1, <2>1, <2>2
<1>22. ASSUME NEW r \in Requests, DeleteFile(r)
      PROVE  RowInv' /\ ChapterInv'
  <2>1. QueuePart
    BY <1>22 DEF DeleteFile, QueuePart
  <2>2. dl' = dl /\ \A c \in Chapters : chapter'[c] = "Downloading" => chapter[c] = "Downloading"
    BY <1>22, <1>0 DEF DeleteFile, slot, CTypeOK
  <2>. QED  BY <1>1, <2>1, <2>2
<1>23. ASSUME NEW r \in Requests, ClearFirst(r)
      PROVE  RowInv' /\ ChapterInv'
  <2>1. QueuePart
    BY <1>23 DEF ClearFirst, Write, QueuePart
  <2>2. dl' = dl /\ \A c \in Chapters : chapter'[c] = "Downloading" => chapter[c] = "Downloading"
    BY <1>23, <1>0 DEF ClearFirst, Write, slot, CTypeOK
  <2>. QED  BY <1>1, <2>1, <2>2
<1>24. ASSUME NEW r \in Requests, WriteStatus(r)
      PROVE  RowInv' /\ ChapterInv'
  <2>1. QueuePart
    BY <1>24 DEF WriteStatus, Write, QueuePart
  <2>2. dl' = dl /\ \A c \in Chapters : chapter'[c] = "Downloading" => chapter[c] = "Downloading"
    BY <1>24, <1>0 DEF WriteStatus, Write, slot, CTypeOK
  <2>. QED  BY <1>1, <2>1, <2>2
<1>25. ASSUME NEW r \in Requests, ClearTasks(r)
      PROVE  RowInv' /\ ChapterInv'
  <2>1. api[r].entry \in Chapters /\ ResetRead(r, api[r].entry)
    BY <1>25, <1>0 DEF ClearTasks, BaseInv, ApiInv
  <2>2. QueuePart
    BY <2>1 DEF QueuePart, RequestStep
  <2>. QED  BY <1>25, <1>1, <2>2 DEF ClearTasks, slot
<1>26. ASSUME NEW r \in Requests, NEW t \in Tasks,
             DownloadInsert(r, t) \/ ScanInsert(r, t) \/ NowPromote(r, t)
      PROVE  RowInv' /\ ChapterInv'
  <2>1. QueuePart
    BY <1>26 DEF DownloadInsert, ScanInsert, NowPromote, QueuePart
  <2>2. dl' = dl /\ \A c \in Chapters : chapter'[c] = "Downloading" => chapter[c] = "Downloading"
    BY <1>26, <1>0 DEF DownloadInsert, ScanInsert, NowPromote, slot, CTypeOK
  <2>. QED  BY <1>1, <2>1, <2>2
<1>27. ASSUME NEW r \in Requests, NEW t \in Tasks,
             NowFrontInsert(r, t) \/ CancelBegin(r, t)
      PROVE  RowInv' /\ ChapterInv'
  <2>1. QueuePart
    BY <1>27 DEF NowFrontInsert, CancelBegin, QueuePart, RequestStep
  <2>2. dl' = dl /\ \A c \in Chapters : chapter'[c] = "Downloading" => chapter[c] = "Downloading"
    BY <1>27, <1>0 DEF NowFrontInsert, CancelBegin, slot, CTypeOK
  <2>. QED  BY <1>1, <2>1, <2>2
<1>28. ASSUME NEW r \in Requests, NEW q \in Queues, NowFrontRead(r, q)
      PROVE  RowInv' /\ ChapterInv'
  <2>1. QueuePart
    BY <1>28 DEF NowFrontRead, QueuePart, RequestStep
  <2>2. dl' = dl /\ \A c \in Chapters : chapter'[c] = "Downloading" => chapter[c] = "Downloading"
    BY <1>28, <1>0 DEF NowFrontRead, slot, CTypeOK
  <2>. QED  BY <1>1, <2>1, <2>2
<1>29. ASSUME NEW r \in Requests, UNCHANGED <<slot, dl, api>>,
             ResetRows(r) \/ \E t \in Tasks : CancelFire(r, t) \/ ResetFire(r, t)
      PROVE  RowInv' /\ ChapterInv'
  <2>1. QueuePart
    BY <1>29 DEF RequestStep, QueuePart
  <2>2. dl' = dl /\ \A c \in Chapters : chapter'[c] = "Downloading" => chapter[c] = "Downloading"
    BY <1>29, <1>0 DEF RequestStep, slot, CTypeOK
  <2>. QED  BY <1>1, <2>1, <2>2
<1>30. ASSUME NEW t \in Tasks, BackoffEnds(t), UNCHANGED <<slot, dl, api>>
      PROVE  RowInv' /\ ChapterInv'
  <2>1. QueuePart
    BY <1>30 DEF rows, QueuePart
  <2>2. dl' = dl /\ \A c \in Chapters : chapter'[c] = "Downloading" => chapter[c] = "Downloading"
    BY <1>30, <1>0 DEF rows, slot, CTypeOK
  <2>. QED  BY <1>1, <2>1, <2>2
<1>31. ASSUME NEW c \in Chapters, SetCanonical(c)
      PROVE  RowInv' /\ ChapterInv'
  <2>1. QueuePart
    BY <1>31 DEF SetCanonical, QueuePart
  <2>2. dl' = dl /\ \A d \in Chapters : chapter'[d] = "Downloading" => chapter[d] = "Downloading"
    BY <1>31, <1>0 DEF SetCanonical, slot, CTypeOK
  <2>. QED  BY <1>1, <2>1, <2>2
<1>32. ASSUME CrashRestart
      PROVE  RowInv' /\ ChapterInv'
  <2>1. /\ restarts' = restarts + 1 /\ restarts \in Nat /\ UNCHANGED chapter
        /\ \A w \in Workers : held'[w] = NoTask
        /\ \A t \in Tasks : \/ status'[t] = "Pending" /\ status[t] = "Running"
                            \/ status'[t] = status[t] /\ (status[t] = "Running" => t \in lost')
        /\ \/ lost' = {}
           \/ lost \subseteq lost' /\ \A t \in lost' : t \in lost \/ status'[t] = "Running"
    BY <1>32, <1>0 DEF CrashRestart, Restart, Stuck, TypeOK
  <2>2. RowInv'
    <3>1. \A t \in Tasks : status'[t] # "Deleted" /\ \A w \in Workers : held'[w] # t
      BY <2>1 DEF RowInv
    <3>2. ASSUME NEW t \in lost'  PROVE t \in Tasks /\ status'[t] \in {"Running", "Cancelled"}
      BY <1>32, <3>2, <1>0 DEF CrashRestart, Restart, Stuck, TypeOK, RowInv
    <3>. QED  BY <3>1, <3>2 DEF RowInv
  <2>3. ASSUME NEW t \in Tasks, status[t] \in {"Running", "Pending", "Cancelled"}
        PROVE  Pursued(t)'
    BY <2>1, <2>3 DEF Pursued
  <2>4. ASSUME NEW c \in Chapters, chapter[c] = "Downloading"
        PROVE  \E t \in Tasks : ChapterOf[t] = c /\ status[t] \in {"Running", "Pending", "Cancelled"}
    <3>1. CASE \E w \in Workers : WorksOn(w, c)
      BY <3>1, <1>0, HeldRow DEF WorksOn, Asked
    <3>2. CASE \E t \in Tasks : ChapterOf[t] = c /\ Pursued(t)
      BY <3>2, <1>0, HeldRow DEF Pursued, RowInv
    <3>. QED  BY <2>4, <3>1, <3>2 DEF ChapterInv
  <2>. QED  BY <2>1, <2>2, <2>3, <2>4 DEF ChapterInv
<1>33. ASSUME UNCHANGED cvars
      PROVE  RowInv' /\ ChapterInv'
  <2>1. QueuePart /\ dl' = dl /\ chapter' = chapter
    BY <1>33 DEF cvars, QueuePart, slot
  <2>. QED  BY <1>1, <2>1
<1>. QED
  BY <1>2, <1>3, <1>4, <1>5, <1>6, <1>7, <1>8, <1>9, <1>10, <1>11, <1>12, <1>13, <1>14, <1>15, <1>16, <1>17, <1>18, <1>19, <1>20, <1>21, <1>22, <1>23, <1>24, <1>25, <1>26, <1>27, <1>28, <1>29, <1>30, <1>31, <1>32, <1>33
     DEF CNext, CWorkerStep, Download, HandlerStep

(* A chapter shown as Downloading is being downloaded, or will be again    *)
(* after a crash, or its task was cancelled or lost across one: whatever   *)
(* fails, falls back, is cancelled, or is asked for twice.                 *)
THEOREM DownloadingChaptersWorkedOn == CSpec => []DownloadingIsWorkedOn
<1>1. DownloadInv => DownloadingIsWorkedOn
  BY DEF DownloadInv, ChapterInv, DownloadingIsWorkedOn, Pursued, Ahead, Abandoned
<1>2. CSpec => []DownloadInv
  BY DownloadInvInit, DownloadInvNext, PTL DEF CSpec
<1>. QED  BY <1>1, <1>2, PTL
====
