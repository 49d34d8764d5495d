--------------------------- MODULE ChapterDownload ---------------------------
(***************************************************************************)
(* A chapter's download, from the task that asks for it to the file on     *)
(* disk: download_chapter and cleanup_superseded_downloads                 *)
(* (src/scraper/downloader.rs), run by the queue workers of TaskQueue, and *)
(* the chapter handlers of src/api/chapters.rs that write the same rows    *)
(* and files meanwhile.                                                    *)
(*                                                                         *)
(* One chapter number of one manga: its entries, one per provider, compete *)
(* to be canonical. A file name starts with "Chapter <number>", so that of *)
(* another chapter may start with the same text ("Chapter 1" and "Chapter  *)
(* 10"). Database writes of the download itself succeed here; entries are  *)
(* not deleted, and retention, pausing and shutting down, which touch none *)
(* of this, stay in TaskQueue.                                             *)
(***************************************************************************)
EXTENDS TaskQueue

CONSTANTS
  Score,      (* compute_score of each entry                               *)
  Listings,   (* what the language filter may keep when a run starts       *)
  Loaded,     (* entries that have a provider, and one that is loaded      *)
  Modes,      (* values of best_only when a run starts                     *)
  Asks,       (* what users ask of the slot's canonical entry              *)
  Names,      (* .cbz names that start with the chapter's number           *)
  NameOf,     (* chapter_cbz_path of each entry                            *)
  OtherFiles, (* names that hold other chapters' files                     *)
  NoFile, Torn, Other

ASSUME DownloadAssumption ==
  /\ NoChapter \notin Chapters
  /\ \A t \in Tasks : ChapterOf[t] \in Chapters
  /\ Score \in [Chapters -> Int]
  /\ Listings \subseteq SUBSET Chapters /\ {} \notin Listings
  /\ Loaded \subseteq Chapters
  /\ Modes \subseteq BOOLEAN
  /\ Asks \subseteq {"download", "now", "delete", "clear", "mark"}
  /\ NameOf \in [Chapters -> Names] /\ OtherFiles \subseteq Names
  /\ {NoFile, Torn, Other} \cap (Chapters \cup Workers) = {}

VARIABLES
  chapter,    (* Chapters.download_status of each entry                    *)
  canonical,  (* the slot's entry in CanonicalChapters                     *)
  file,       (* per name: the entry whose pages it holds, the worker that *)
              (* is writing it, a torn file, another chapter's, or none    *)
  dl,         (* the download_chapter call of each worker                  *)
  api         (* what each HTTP handler has read and still has to do       *)

slot  == <<chapter, canonical, file>>
cvars == <<vars, slot, dl, api>>

ChapterStatuses == {"Missing", "Queued", "Downloading", "Downloaded", "Failed"}

NoCall == [step |-> "off", entry |-> NoChapter, todo |-> {}, best |-> FALSE]
NoApi  == [step |-> "none", entry |-> NoChapter, had |-> FALSE]

CInit ==
  /\ Init
  /\ chapter = [c \in Chapters |-> "Missing"]
  /\ canonical \in Chapters
  /\ file = [n \in Names |-> IF n \in OtherFiles THEN Other ELSE NoFile]
  /\ dl   = [w \in Workers |-> NoCall]
  /\ api  = [r \in Requests |-> NoApi]

Asked(w) == ChapterOf[held[w]]
Goal(w)  == NameOf[Asked(w)]

(* A step of w's download_chapter: from one point to the next, and what it *)
(* writes to the table.                                                    *)
Go(w, from, to) ==
  /\ dl[w].step = from
  /\ dl' = [dl EXCEPT ![w].step = to]

(* The loop over the entries is over, and with it what it went by.         *)
Leave(w, to) == dl' = [dl EXCEPT ![w] = [NoCall EXCEPT !.step = to]]

Write(c, s) == chapter' = [chapter EXCEPT ![c] = s]

-----------------------------------------------------------------------------
(* download_chapter.                                                       *)

(* Every run reads the download mode and the preferred language anew.      *)
Begin(w) ==
  /\ pc[w] = "dispatch" /\ dl[w].step = "off"
  /\ \E best \in Modes, listed \in Listings :
        dl' = [dl EXCEPT ![w] = [step |-> "try", entry |-> NoChapter,
                                 todo |-> listed, best |-> best]]
  /\ Write(Asked(w), "Downloading")
  /\ UNCHANGED <<vars, canonical, file, api>>

(* The requested entry first, then by score.                               *)
First(w, e) ==
  /\ e \in dl[w].todo
  /\ IF Asked(w) \in dl[w].todo
     THEN e = Asked(w)
     ELSE \A f \in dl[w].todo : Score[e] >= Score[f]

(* Before an entry, and before each page of it, the token is looked at.    *)
StopHere(w) ==
  /\ signalled[w]
  /\ dl[w].todo # {} /\ dl[w].step \in {"try", "fetch"}
  /\ Leave(w, "cancelled")
  /\ Write(Asked(w), "Missing")
  /\ UNCHANGED <<vars, canonical, file, api>>

(* An entry without a loaded provider is passed over, in best_only mode    *)
(* too.                                                                    *)
TryEntry(w) ==
  /\ dl[w].step = "try" /\ ~signalled[w]
  /\ \E e \in Chapters :
        /\ First(w, e)
        /\ dl' = [dl EXCEPT ![w] =
             IF e \in Loaded THEN [@ EXCEPT !.step = "fetch", !.entry = e]
                             ELSE [@ EXCEPT !.todo = dl[w].todo \ {e}]]
  /\ UNCHANGED <<vars, slot, api>>

(* No URL, no pages, a page that fails, or a file that cannot be written.  *)
EntryFails(w) ==
  /\ dl[w].step \in {"fetch", "fetched", "writing"}
  /\ Write(dl[w].entry, "Failed")
  /\ dl' = [dl EXCEPT ![w].step = "try", ![w].entry = NoChapter,
                      ![w].todo = IF dl[w].best THEN {} ELSE @ \ {dl[w].entry}]
  /\ file' = [n \in Names |-> IF file[n] = w THEN Torn ELSE file[n]]
  /\ UNCHANGED <<vars, canonical, api>>

(* The last page's look finds no cancellation.                             *)
LastLook(w) ==
  /\ ~signalled[w]
  /\ Go(w, "fetch", "fetched")
  /\ UNCHANGED <<vars, slot, api>>

(* File::create truncates, also under another worker that writes the file. *)
Create(w) ==
  /\ Go(w, "fetched", "writing")
  /\ file' = [file EXCEPT ![Goal(w)] = IF @ \in Workers THEN Torn ELSE w]
  /\ UNCHANGED <<vars, chapter, canonical, api>>

(* The loop ends with the entry in hand.                                   *)
Served(w) ==
  dl' = [dl EXCEPT ![w] = [NoCall EXCEPT !.entry = dl[w].entry,
           !.step = IF dl[w].entry = Asked(w) THEN "mark" ELSE "demote"]]

(* Mutant: the entry is forgotten once its pages are there.                *)
FinishBlank(w) ==
  /\ dl[w].step = "writing" /\ Served(w)
  /\ file' = [file EXCEPT ![Goal(w)] = IF @ = w THEN NoChapter ELSE @]
  /\ UNCHANGED <<vars, chapter, canonical, api>>

(* A file that was unlinked meanwhile stays so.                            *)
FinishFile(w) ==
  /\ dl[w].step = "writing" /\ Served(w)
  /\ file' = [file EXCEPT ![Goal(w)] = IF @ = w THEN dl[w].entry ELSE @]
  /\ UNCHANGED <<vars, chapter, canonical, api>>

(* A fallback served: the requested entry has failed, ...                  *)
Demote(w) ==
  /\ Go(w, "demote", "mark")
  /\ Write(Asked(w), "Failed")
  /\ UNCHANGED <<vars, canonical, file, api>>

MarkDownloaded(w) ==
  /\ Go(w, "mark", IF dl[w].entry = Asked(w) THEN "survey" ELSE "crown")
  /\ Write(dl[w].entry, "Downloaded")
  /\ UNCHANGED <<vars, canonical, file, api>>

(* ... and the one that served becomes canonical.                          *)
Crown(w) ==
  /\ Go(w, "crown", "survey")
  /\ canonical' = dl[w].entry
  /\ UNCHANGED <<vars, chapter, file, api>>

(* cleanup_superseded_downloads reads the table once, ...                  *)
Survey(w) ==
  /\ dl[w].step = "survey"
  /\ LET e == dl[w].entry
         worse == {v \in Chapters : /\ v # e
                                    /\ chapter[v] = "Downloaded"
                                    /\ Score[v] < Score[e]}
     IN  dl' = [dl EXCEPT ![w].todo = worse,
                          ![w].step = IF worse = {} THEN "ok" ELSE "unlink"]
  /\ UNCHANGED <<vars, slot, api>>

(* ... and for each entry removes the first file read_dir yields whose     *)
(* name starts with the chapter's number, if there is one and it lets      *)
(* itself be removed, ...                                                  *)
Unlink(w) ==
  /\ Go(w, "unlink", "unmark")
  /\ \/ \E n \in Names :
          file[n] # NoFile /\ file' = [file EXCEPT ![n] = NoFile]
     \/ UNCHANGED file
  /\ UNCHANGED <<vars, chapter, canonical, api>>

(* ... and marks the entry Missing.                                        *)
Unmark(w) ==
  /\ dl[w].step = "unmark"
  /\ \E v \in dl[w].todo :
        /\ Write(v, "Missing")
        /\ dl' = [dl EXCEPT ![w].todo = @ \ {v},
                            ![w].step = IF dl[w].todo = {v} THEN "ok" ELSE "unlink"]
  /\ UNCHANGED <<vars, canonical, file, api>>

(* Mutant: only the entries that were tried are marked Failed.             *)
GiveUpSilently(w) ==
  /\ dl[w].step = "try" /\ dl[w].todo = {}
  /\ Leave(w, "error")
  /\ UNCHANGED <<vars, slot, api>>

(* Nothing served: a requested entry still Downloading is marked Failed.   *)
GiveUp(w) ==
  /\ dl[w].step = "try" /\ dl[w].todo = {}
  /\ Leave(w, IF chapter[Asked(w)] = "Downloading" THEN "fail" ELSE "error")
  /\ UNCHANGED <<vars, slot, api>>

MarkFailed(w) ==
  /\ Go(w, "fail", "error")
  /\ Write(Asked(w), "Failed")
  /\ UNCHANGED <<vars, canonical, file, api>>

(* What dispatch hands to queue_worker.                                    *)
HandBack(w) ==
  /\ dl[w].step \in {"ok", "error", "cancelled"}
  /\ Return(w) /\ outcome'[w] = dl[w].step
  /\ dl' = [dl EXCEPT ![w] = NoCall]
  /\ UNCHANGED <<slot, api>>

Download(w) ==
  \/ Begin(w) \/ StopHere(w) \/ TryEntry(w) \/ EntryFails(w) \/ LastLook(w)
  \/ Create(w) \/ FinishFile(w) \/ Demote(w) \/ MarkDownloaded(w) \/ Crown(w)
  \/ Survey(w) \/ Unlink(w) \/ Unmark(w) \/ GiveUp(w) \/ MarkFailed(w) \/ HandBack(w)

-----------------------------------------------------------------------------
(* The handlers. Each reads the slot's canonical entry and its status      *)
(* first.                                                                  *)

Open(r) ==
  /\ api[r] = NoApi /\ req[r] = IdleRequest
  /\ \E op \in Asks :
        api' = [api EXCEPT ![r] = [step |-> op, entry |-> canonical,
                                   had |-> chapter[canonical] = "Downloaded"]]
  /\ UNCHANGED <<vars, slot, dl>>

Then(r, from, to) ==
  /\ api[r].step = from
  /\ api' = [api EXCEPT ![r].step = to]

(* download_chapter_api: insert, then mark Queued, whatever has happened   *)
(* in between.                                                             *)
DownloadInsert(r, t) ==
  /\ Then(r, "download", "queue")
  /\ ChapterOf[t] = api[r].entry
  /\ Enqueue(t)
  /\ UNCHANGED <<slot, dl>>

(* download_chapter_now_api: nothing if a task runs, else the first        *)
(* Pending one is promoted, else one is inserted at the front.             *)
TasksOf(c, s) == {t \in Tasks : ChapterOf[t] = c /\ status[t] = s}

NowCheck(r) ==
  /\ Then(r, "now", IF TasksOf(api[r].entry, "Running") # {} THEN "queue" ELSE "promote")
  /\ UNCHANGED <<vars, slot, dl>>

NowPromote(r, t) ==
  /\ t \in TasksOf(api[r].entry, "Pending")
  /\ \A u \in TasksOf(api[r].entry, "Pending") : Precedes(t, u)
  /\ Then(r, "promote", "queue")
  /\ Prioritise(t)
  /\ UNCHANGED <<slot, dl>>

NowFrontRead(r, q) ==
  /\ TasksOf(api[r].entry, "Pending") = {}
  /\ Then(r, "promote", "front")
  /\ FrontRead(r, q)
  /\ UNCHANGED <<slot, dl>>

NowFrontInsert(r, t) ==
  /\ ChapterOf[t] = api[r].entry
  /\ Then(r, "front", "queue")
  /\ FrontInsert(r, t)
  /\ UNCHANGED <<slot, dl>>

(* delete_chapter_api unlinks the entry's own name if it was Downloaded; a *)
(* failure is only logged.                                                 *)
DeleteFile(r) ==
  /\ Then(r, "delete", "missing")
  /\ \/ api[r].had /\ file' = [file EXCEPT ![NameOf[api[r].entry]] = NoFile]
     \/ UNCHANGED file
  /\ UNCHANGED <<vars, chapter, canonical, dl>>

(* reset_chapter_api marks the entry Missing before it looks for tasks.    *)
ClearFirst(r) ==
  /\ Then(r, "clear", "reset")
  /\ Write(api[r].entry, "Missing")
  /\ UNCHANGED <<vars, canonical, file, dl>>

ClearTasks(r) ==
  /\ api[r].step = "reset"
  /\ ResetRead(r, api[r].entry)
  /\ api' = [api EXCEPT ![r] = NoApi]
  /\ UNCHANGED <<slot, dl>>

(* cancel_task: the row, then the chapter, then the token. Rows that are   *)
(* gone have no chapter any more.                                          *)
CancelBegin(r, t) ==
  /\ api[r] = NoApi
  /\ CancelRow(r, t)
  /\ api' = [api EXCEPT ![r] = [step |-> "missing", entry |-> ChapterOf[t], had |-> FALSE]]
  /\ UNCHANGED <<slot, dl>>

(* The status write that ends a handler, or comes before the token.        *)
WriteStatus(r) ==
  /\ \E p \in {<<"queue", "Queued">>, <<"missing", "Missing">>, <<"mark", "Downloaded">>} :
        /\ api[r].step = p[1]
        /\ Write(api[r].entry, p[2])
  /\ api' = [api EXCEPT ![r] = NoApi]
  /\ UNCHANGED <<vars, canonical, file, dl>>

(* set_canonical_api, clear_canonical_override_api, and rescoring scans.   *)
SetCanonical(c) ==
  /\ canonical' = c
  /\ UNCHANGED <<vars, chapter, file, dl, api>>

(* A scan, kept like a handler, finds a canonical entry that is Missing,   *)
(* or better than one that is Downloaded unless it is queued or running,   *)
ScanFinds(r) ==
  /\ api[r] = NoApi /\ req[r] = IdleRequest
  /\ \/ chapter[canonical] = "Missing"
     \/ /\ chapter[canonical] \notin {"Queued", "Downloading"}
        /\ \E c \in Chapters :
              chapter[c] = "Downloaded" /\ Score[c] < Score[canonical]
  /\ api' = [api EXCEPT ![r] = [step |-> "scan", entry |-> canonical, had |-> FALSE]]
  /\ UNCHANGED <<vars, slot, dl>>

(* ... and inserts a task for it, whatever has become of it.               *)
ScanInsert(r, t) ==
  /\ api[r].step = "scan" /\ ChapterOf[t] = api[r].entry
  /\ api' = [api EXCEPT ![r] = NoApi]
  /\ Enqueue(t)
  /\ UNCHANGED <<slot, dl>>

(* The files and the table outlive the process.                            *)
CrashRestart ==
  /\ Restart
  /\ dl'   = [w \in Workers |-> NoCall]
  /\ api'  = [r \in Requests |-> NoApi]
  /\ file' = [n \in Names |-> IF file[n] \in Workers THEN Torn ELSE file[n]]
  /\ UNCHANGED <<chapter, canonical>>

-----------------------------------------------------------------------------
QueueStep(w) ==
  /\ \/ CheckGates(w) \/ ClaimNothing(w) \/ Register(w)
     \/ Complete(w) \/ Fail(w) \/ Dropped(w) \/ WriteLost(w)
     \/ \E t \in Tasks : Claim(w, t)
  /\ UNCHANGED <<slot, dl, api>>

CWorkerStep(w) == QueueStep(w) \/ Download(w)

(* What carries a handler that has begun to its end.                       *)
HandlerStep(r) ==
  \/ NowCheck(r) \/ DeleteFile(r) \/ ClearFirst(r) \/ ClearTasks(r) \/ WriteStatus(r)
  \/ \E t \in Tasks : \/ DownloadInsert(r, t) \/ ScanInsert(r, t)
                      \/ NowPromote(r, t) \/ NowFrontInsert(r, t)
  \/ \E q \in Queues : NowFrontRead(r, q)
  \/ /\ api[r] = NoApi
     /\ ResetRows(r) \/ \E t \in Tasks : CancelFire(r, t) \/ ResetFire(r, t)
     /\ UNCHANGED <<slot, dl, api>>

CNext ==
  \/ \E w \in Workers : CWorkerStep(w)
  \/ \E r \in Requests : \/ Open(r) \/ ScanFinds(r) \/ HandlerStep(r)
                         \/ \E t \in Tasks : CancelBegin(r, t)
  \/ \E t \in Tasks : BackoffEnds(t) /\ UNCHANGED <<slot, dl, api>>
  \/ \E c \in Chapters : SetCanonical(c)
  \/ CrashRestart

CSpec == CInit /\ [][CNext]_cvars

(* As in TaskQueue: workers and handlers run on, backoffs end.             *)
CFairness ==
  /\ \A w \in Workers : WF_cvars(CWorkerStep(w))
  /\ \A r \in Requests : WF_cvars(HandlerStep(r))
  /\ \A t \in Tasks : WF_cvars(BackoffEnds(t) /\ UNCHANGED <<slot, dl, api>>)

CFairSpec == CSpec /\ CFairness

-----------------------------------------------------------------------------
(* Properties.                                                             *)

(* Every variable stays in its domain.                                     *)
CTypeOK ==
  /\ TypeOK
  /\ chapter   \in [Chapters -> ChapterStatuses]
  /\ canonical \in Chapters
  /\ file      \in [Names -> Chapters \cup Workers \cup {NoFile, Torn, Other}]
  /\ dl \in [Workers ->
       [step  : {"off", "try", "fetch", "fetched", "writing", "demote", "mark", "crown",
                 "survey", "unlink", "unmark", "fail", "ok", "error", "cancelled"},
        entry : Chapters \cup {NoChapter},
        todo  : SUBSET Chapters,
        best  : BOOLEAN]]
  /\ api \in [Requests ->
       [step  : {"none", "download", "now", "promote", "front", "queue", "delete",
                 "missing", "clear", "reset", "mark", "scan"},
        entry : Chapters \cup {NoChapter},
        had   : BOOLEAN]]

(* w has still to write the outcome of its download of c to the table.     *)
WorksOn(w, c) ==
  /\ pc[w] = "dispatch" /\ Asked(w) = c
  /\ \/ dl[w].step \in {"try", "fetch", "fetched", "writing", "demote", "fail"}
     \/ dl[w].step = "mark" /\ dl[w].entry = c

(* A task of c will be claimed, or has been and is about to begin.         *)
Ahead(c) ==
  \E t \in Tasks :
     /\ ChapterOf[t] = c
     /\ \/ status[t] = "Pending"
        \/ \E w \in Workers : held[w] = t /\ pc[w] \in {"claimed", "dispatch"}
                              /\ dl[w].step = "off"

(* The daemon went down between the cancellation of a row and the last     *)
(* write of the download it was meant to stop, or could not reset the row  *)
(* when it came up: nobody is left to do it.                               *)
Abandoned(c) ==
  /\ restarts > 0
  /\ \E t \in Tasks : ChapterOf[t] = c /\ (status[t] = "Cancelled" \/ t \in lost)

(* A chapter shown as Downloading is being downloaded, or will be again    *)
(* after a crash: whatever fails, falls back, is cancelled, or is asked    *)
(* for twice, the last run to touch it replaces the status.                *)
DownloadingIsWorkedOn ==
  \A c \in Chapters : chapter[c] = "Downloading" =>
     (\E w \in Workers : WorksOn(w, c)) \/ Ahead(c) \/ Abandoned(c)

(* No chapter is shown as Downloading for ever.                            *)
NoChapterStaysDownloading ==
  \A c \in Chapters :
     chapter[c] = "Downloading" ~> chapter[c] # "Downloading" \/ Abandoned(c)

(* The change log: cancelling "stops the download mid-state and resets to  *)
(* 'Missing'". A run whose row was cancelled, by a request that has been   *)
(* answered, marks nothing Downloaded unless the cancellation reached it   *)
(* after its last look.                                                    *)
CancelStopsDownload ==
  [][\A w \in Workers :
        MarkDownloaded(w) /\ status[held[w]] = "Cancelled"
          => signalled[w] \/ \E r \in Requests : req[r] # IdleRequest]_cvars

(* cleanup_superseded_downloads: "same-or-better score variants are left   *)
(* untouched". A cleanup never removes the file of the entry just served.  *)
UpgradeKeepsFile ==
  [][\A w \in Workers, n \in Names :
        Unlink(w) /\ file'[n] # file[n] => file[n] # dl[w].entry]_cvars
==============================================================================
