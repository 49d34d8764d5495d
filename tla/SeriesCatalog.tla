----------------------------- MODULE SeriesCatalog -----------------------------
(***************************************************************************)
(* The series of one library and what AniList says of them: adding a       *)
(* series (src/api/manga.rs, src/importer/mod.rs), refreshing its metadata *)
(* and the library's suggestions (src/scheduler/worker.rs,                 *)
(* src/library/suggestions.rs, src/db/suggestions.rs), against the user,   *)
(* who edits titles, uploads covers, hides suggestions and deletes series. *)
(*                                                                         *)
(* Every row is read, changed and written back whole, with calls to        *)
(* AniList in between, by two workers of the system queue and by requests. *)
(* How a task is claimed and retried is TaskQueue's; promotion and retries *)
(* change the order, so any waiting task may be the next one here.         *)
(***************************************************************************)
EXTENDS Integers, FiniteSets

CONSTANTS
  Series,     (* series that may be added                                  *)
  ByHand,     (* those added by hand, without an AniList id                *)
  Initially,  (* those the library has at first                            *)
  Links,      (* what AniList recommends to the readers of each series     *)
  Titles,     (* other titles that a series may have                       *)
  NoSeries, NoTitle,
  Workers,    (* of the system queue                                       *)
  Clients,    (* requests to the API                                       *)
  MaxTries,   (* MAX_RETRIES                                               *)
  Edits,      (* the kinds of request and failure that occur               *)
  MaxEdits    (* bound: how many of them                                   *)

Listed == Series \ ByHand    (* those that AniList has *)

ASSUME CatalogAssumption ==
  /\ ByHand \subseteq Series /\ Initially \subseteq Series
  /\ Links \in [Listed -> SUBSET Listed]
  /\ NoSeries \notin Series /\ NoTitle \notin Titles
  /\ IsFiniteSet(Workers) /\ Workers \cap Clients = {}
  /\ MaxTries \in Nat \ {0} /\ MaxEdits \in Nat

Procs == Workers \cup Clients

VARIABLES
  shelf,      (* the rows of Manga                                         *)
  titles,     (* other_titles of each                                      *)
  thumb,      (* thumbnail_url: this server's, or AniList's                *)
  disk,       (* the directory of each: none, there, there with a cover    *)
  waiting,    (* RefreshMetadata tasks of each that wait                   *)
  asked,      (* RefreshSuggestions tasks that wait                        *)
  hints,      (* LibrarySuggestionCandidate: no, shown, hidden             *)
  job,        (* what each process is doing                                *)
  edits,
  ghost       (* what happened, for the properties                         *)

rows  == <<shelf, titles, thumb>>
tasks == <<waiting, asked>>
vars  == <<rows, disk, tasks, hints, job, edits, ghost>>

TitleStates == {"no", "manual", "shown", "hidden"}
Untitled    == [t \in Titles |-> "no"]

Idle == [at |-> "idle", what |-> "none", of |-> NoSeries, tries |-> 0,
         titles |-> Untitled, title |-> NoTitle, thumb |-> "remote",
         seen |-> {}, cached |-> {}, hidden |-> {},
         stale |-> FALSE, lost |-> FALSE, late |-> {}]

Step(p, changes) == job' = [job EXCEPT ![p] = changes]
Goto(p, at)      == Step(p, [job[p] EXCEPT !.at = at])
Edit(kind)       == kind \in Edits /\ edits < MaxEdits /\ edits' = edits + 1
Doing(p, what, at) == job[p].what \in what /\ job[p].at = at

(* What the series in S have in common: the candidates of a refresh.       *)
Recommended(S) == (UNION {Links[s] : s \in S \cap Listed}) \ S

Init ==
  /\ shelf = Initially
  /\ titles \in {f \in [Series -> [Titles -> {"no", "shown"}]] :
                   \A s \in Series \ Initially : f[s] = Untitled}
  /\ thumb = [s \in Series |-> IF s \in Initially THEN "own" ELSE "remote"]
  /\ disk = [s \in Series |-> IF s \in Initially THEN "cover" ELSE "none"]
  /\ waiting = [s \in Series |-> 0] /\ asked = 0
  /\ hints = [s \in Listed |-> IF s \in Recommended(Initially) THEN "shown" ELSE "no"]
  /\ job = [p \in Procs |-> Idle]
  /\ edits = 0
  /\ ghost = [wish    |-> [s \in Series |-> [t \in Titles |-> "free"]],
              tangled |-> {},         (* rows written back over a newer one *)
              known   |-> Initially,  (* series the suggestions were made of *)
              excused |-> {}]         (* series they may lack                *)

(* Another process's change of the row of s, of which those that have read *)
(* it do not know.                                                         *)
Stale(p, s, mine) ==
  job' = [q \in Procs |-> IF q = p THEN mine
                          ELSE IF job[q].of = s THEN [job[q] EXCEPT !.stale = TRUE]
                          ELSE job[q]]

-----------------------------------------------------------------------------
(* How a job ends                                                          *)

Done(p) == Step(p, Idle)

(* A task that fails is tried again, unless its row is gone or it has been *)
(* tried often enough; a request returns the error.                        *)
Fails(p) ==
  /\ Done(p)
  /\ \/ /\ p \in Workers /\ job[p].what = "refresh" /\ ~job[p].lost
        /\ waiting' = [waiting EXCEPT ![job[p].of] = @ + 1]
        /\ UNCHANGED <<asked, ghost>>
     \/ /\ p \in Workers /\ job[p].what = "suggest"
        /\ asked' = asked + 1 /\ UNCHANGED <<waiting, ghost>>
     \/ /\ ghost' = IF p \in Workers /\ job[p].what = "suggest"
                    THEN [ghost EXCEPT !.excused = @ \cup shelf] ELSE ghost
        /\ UNCHANGED tasks

-----------------------------------------------------------------------------
(* AniList                                                                 *)

(* Mutant: the fetched titles replace the stored ones.                     *)
Replace(old, fresh) ==
  [t \in Titles |-> IF t \in fresh THEN "shown" ELSE "no"]

(* merge_synonyms: a title of AniList's keeps what the user made of it, and *)
(* stays when AniList drops it; one of the user's becomes AniList's.       *)
Merge(old, fresh) ==
  [t \in Titles |-> IF t \in fresh /\ old[t] \in {"no", "manual"} THEN "shown" ELSE old[t]]

(* Refused with 429: the client waits and tries again.                     *)
Refused(p) ==
  /\ job[p].at \in {"ask", "details"} /\ job[p].tries + 1 < MaxTries
  /\ Edit("refuse")
  /\ Step(p, [job[p] EXCEPT !.tries = @ + 1])
  /\ UNCHANGED <<rows, disk, tasks, hints, ghost>>

(* Any other error, or the last refusal.                                   *)
Unanswered(p) ==
  /\ job[p].at \in {"ask", "details"}
  /\ Edit("refuse")
  /\ Fails(p)
  /\ UNCHANGED <<rows, disk, hints>>

(* grab_manga. An addition looks for the series before it goes on.         *)
Answered(p) ==
  /\ Doing(p, {"add", "import", "refresh"}, "ask")
  /\ \E fresh \in SUBSET Titles :
       Step(p, [job[p] EXCEPT !.tries = 0,
                  !.at = IF job[p].what = "add" THEN "check" ELSE "cover",
                  !.titles = Merge(@, fresh)])
  /\ UNCHANGED <<rows, disk, tasks, hints, edits, ghost>>

-----------------------------------------------------------------------------
(* Covers                                                                  *)

(* Mutant: this server's address whatever became of the download.          *)
OwnAddress(written) == "own"

(* download_cover gives this server's address once the file is written,    *)
(* else the row keeps the other one.                                       *)
Address(written) == IF written THEN "own" ELSE "remote"

(* The directory is made first, so it is there when the download fails.    *)
Cover(p) ==
  /\ Doing(p, {"add", "import", "refresh", "manual", "url"}, "cover")
  /\ \E written \in BOOLEAN :
       /\ IF written THEN UNCHANGED edits ELSE Edit("refuse")
       /\ disk' = [disk EXCEPT ![job[p].of] = IF written \/ @ = "cover" THEN "cover" ELSE "dir"]
       /\ Step(p, [job[p] EXCEPT !.thumb = Address(written),
                     !.at = IF job[p].what \in {"refresh", "url"} THEN "write" ELSE "insert"])
  /\ UNCHANGED <<rows, tasks, hints, ghost>>

(* upload_cover_file removes the covers that are there and writes its own. *)
Clear(p) ==
  /\ Doing(p, {"upload"}, "clear")
  /\ disk' = [disk EXCEPT ![job[p].of] = "dir"]
  /\ Goto(p, "put")
  /\ UNCHANGED <<rows, tasks, hints, edits, ghost>>

Put(p) ==
  /\ Doing(p, {"upload"}, "put")
  /\ disk' = [disk EXCEPT ![job[p].of] = "cover"]
  /\ Step(p, [job[p] EXCEPT !.at = "write", !.thumb = "own"])
  /\ UNCHANGED <<rows, tasks, hints, edits, ghost>>

-----------------------------------------------------------------------------
(* Adding a series                                                         *)

Begin(c, what, s, at) == Step(c, [Idle EXCEPT !.what = what, !.of = s, !.at = at])

(* add_manga asks AniList first.                                           *)
Add(c, s) ==
  /\ Edit("add") /\ job[c] = Idle /\ s \in Listed
  /\ Begin(c, "add", s, "ask")
  /\ UNCHANGED <<rows, disk, tasks, hints, ghost>>

(* add_manga_manual asks nobody; the series may have the address of a cover. *)
AddByHand(c, s) ==
  /\ Edit("add") /\ job[c] = Idle /\ s \in ByHand
  /\ \E at \in {"cover", "insert"} : Begin(c, "manual", s, at)
  /\ UNCHANGED <<rows, disk, tasks, hints, ghost>>

(* execute_series_imports, of one of its series: the library is looked at  *)
(* first, AniList asked then.                                              *)
Import(c, s) ==
  /\ Edit("import") /\ job[c] = Idle /\ s \in Listed \ shelf
  /\ Begin(c, "import", s, "ask")
  /\ UNCHANGED <<rows, disk, tasks, hints, ghost>>

(* exists_by_external_ids: the existing series is the answer.              *)
Check(c) ==
  /\ Doing(c, {"add"}, "check")
  /\ IF job[c].of \in shelf THEN Done(c) ELSE Goto(c, "cover")
  /\ UNCHANGED <<rows, disk, tasks, hints, edits, ghost>>

(* The id is made of the AniList id or of the path: a second row with it   *)
(* is an error.                                                            *)
Insert(c) ==
  /\ Doing(c, {"add", "import", "manual"}, "insert")
  /\ LET s == job[c].of
     IN  IF s \in shelf THEN Done(c) /\ UNCHANGED <<rows, ghost>>
         ELSE /\ shelf' = shelf \cup {s}
              /\ titles' = [titles EXCEPT ![s] = job[c].titles]
              /\ thumb' = [thumb EXCEPT ![s] = job[c].thumb]
              /\ Stale(c, s, [job[c] EXCEPT !.at = "queue"])
              /\ ghost' = [ghost EXCEPT
                   !.wish[s] = [t \in Titles |-> "free"],
                   !.tangled = IF job[c].stale THEN @ \cup {s} ELSE @ \ {s},
                   !.excused = IF job[c].what = "import" THEN @ \cup {s} ELSE @ \ {s}]
  /\ UNCHANGED <<disk, tasks, hints, edits>>

(* The series' ComicInfo is written and its first refresh queued, which    *)
(* fails when the series is gone again; an import queues a disk scan only. *)
Queue(c) ==
  /\ Doing(c, {"add", "manual", "import"}, "queue")
  /\ disk' = [disk EXCEPT ![job[c].of] = IF @ = "none" THEN "dir" ELSE @]
  /\ IF job[c].of \notin shelf \/ job[c].what = "import" THEN Done(c) /\ UNCHANGED waiting
     ELSE /\ waiting' = [waiting EXCEPT ![job[c].of] = @ + 1]
          /\ IF job[c].what = "add" THEN Goto(c, "look") ELSE Done(c)
  /\ UNCHANGED <<rows, asked, hints, edits, ghost>>

Suggesters == {p \in Workers : job[p].what = "suggest"}

(* Mutant: a library that has suggestions is not asked about again.        *)
ToComeOrThere == asked > 0 \/ Suggesters # {} \/ \E s \in Listed : hints[s] # "no"

(* is_pending_for_library: a refresh that runs counts as one to come.      *)
ToCome == asked > 0 \/ Suggesters # {}

(* ... so what it has not read is left out until the next one.             *)
Look(p) ==
  /\ Doing(p, {"add", "refresh"}, "look")
  /\ IF ToCome THEN Done(p) ELSE Goto(p, "request")
  /\ ghost' = IF asked = 0 /\ Suggesters # {} /\ \A q \in Suggesters : job[q].at # "read"
              THEN [ghost EXCEPT !.excused = @ \cup {job[p].of}] ELSE ghost
  /\ UNCHANGED <<rows, disk, tasks, hints, edits>>

Request(p) ==
  /\ Doing(p, {"add", "refresh"}, "request")
  /\ asked' = asked + 1
  /\ Done(p)
  /\ UNCHANGED <<rows, disk, waiting, hints, edits, ghost>>

-----------------------------------------------------------------------------
(* Changing a row: read, change, write back whole                          *)

(* update_synonyms: adds a title, hides one of AniList's, drops one of the *)
(* user's or shows one of AniList's again.                                 *)
Retitled(old, t) ==
  {[old EXCEPT ![t] = IF @ = "no" THEN "manual" ELSE @],
   [old EXCEPT ![t] = IF @ = "shown" THEN "hidden" ELSE @],
   [old EXCEPT ![t] = CASE @ = "manual" -> "no" [] @ = "hidden" -> "shown" [] OTHER -> @]}

Change(c, s) ==
  /\ job[c] = Idle /\ s \in shelf
  /\ LET Copy(what, at) == [Idle EXCEPT !.what = what, !.of = s, !.at = at,
                                        !.titles = titles[s], !.thumb = thumb[s]]
     IN  \/ /\ Edit("titles")
            /\ \E t \in Titles : \E new \in Retitled(titles[s], t) :
                 Step(c, [Copy("titles", "write") EXCEPT !.titles = new, !.title = t])
         \/ Edit("cover") /\ Step(c, Copy("upload", "clear"))
         \/ Edit("cover") /\ Step(c, Copy("url", "cover"))
  /\ UNCHANGED <<rows, disk, tasks, hints, ghost>>

(* What the user means by a title's state after an edit.                   *)
Wish(state) == CASE state = "hidden" -> "hidden" [] state = "manual" -> "listed" [] OTHER -> "free"

(* update_metadata: no row is no error, but its first tag is one.          *)
Write(p) ==
  /\ Doing(p, {"titles", "upload", "url", "refresh"}, "write")
  /\ LET s == job[p].of
         next == IF job[p].what = "refresh" THEN [job[p] EXCEPT !.at = "comic"] ELSE Idle
     IN  \/ /\ s \in shelf
            /\ titles' = [titles EXCEPT ![s] = job[p].titles]
            /\ thumb' = [thumb EXCEPT ![s] = job[p].thumb]
            /\ Stale(p, s, next)
            /\ ghost' = [ghost EXCEPT
                 !.wish[s] = IF job[p].what = "titles"
                             THEN [@ EXCEPT ![job[p].title] = Wish(job[p].titles[job[p].title])] ELSE @,
                 !.tangled = IF job[p].stale THEN @ \cup {s} ELSE @]
            /\ UNCHANGED tasks
         \/ /\ s \notin shelf
            /\ \/ Step(p, next) /\ UNCHANGED <<tasks, ghost>>
               \/ Fails(p)
            /\ UNCHANGED <<titles, thumb>>
  /\ UNCHANGED <<shelf, disk, hints, edits>>

(* refresh_manga_api.                                                      *)
AskRefresh(s) ==
  /\ Edit("refresh") /\ s \in shelf
  /\ waiting' = [waiting EXCEPT ![s] = @ + 1]
  /\ UNCHANGED <<rows, disk, asked, hints, job, ghost>>

(* RefreshMetadata: nothing to do for a series without AniList id.         *)
Refresh(w, s) ==
  /\ job[w] = Idle /\ waiting[s] > 0
  /\ waiting' = [waiting EXCEPT ![s] = @ - 1]
  /\ Step(w, IF s \in ByHand THEN Idle
             ELSE [Idle EXCEPT !.what = "refresh", !.of = s, !.at = "ask",
                               !.titles = titles[s], !.thumb = thumb[s]])
  /\ UNCHANGED <<rows, disk, asked, hints, edits, ghost>>

(* write_series_comicinfo makes the directory anew.                        *)
Comic(w) ==
  /\ Doing(w, {"refresh"}, "comic")
  /\ disk' = [disk EXCEPT ![job[w].of] = IF @ = "none" THEN "dir" ELSE @]
  /\ Goto(w, "look")
  /\ UNCHANGED <<rows, tasks, hints, edits, ghost>>

(* That, or the ComicInfo of a chapter's file, cannot be written: then the *)
(* refresh has failed, with its row written.                               *)
ComicFails(w) ==
  /\ Doing(w, {"refresh"}, "comic")
  /\ Edit("refuse")
  /\ \E made \in {"none", "dir"} :
       disk' = [disk EXCEPT ![job[w].of] = IF @ = "none" THEN made ELSE @]
  /\ Fails(w)
  /\ UNCHANGED <<rows, hints>>

(* delete_manga: the files first, if asked to, then the row and, with it,  *)
(* the tasks of the series.                                                *)
Delete(c, s) ==
  /\ Edit("delete") /\ job[c] = Idle /\ s \in shelf
  /\ \E at \in {"wipe", "drop"} : Step(c, [Idle EXCEPT !.what = "delete", !.of = s, !.at = at])
  /\ UNCHANGED <<rows, disk, tasks, hints, ghost>>

(* Mutant: without the cascade.                                            *)
Orphans(s) == waiting

Cascade(s) == [waiting EXCEPT ![s] = 0]

Wipe(c) ==
  /\ Doing(c, {"delete"}, "wipe")
  /\ disk' = [disk EXCEPT ![job[c].of] = "none"]
  /\ Goto(c, "drop")
  /\ UNCHANGED <<rows, tasks, hints, edits, ghost>>

Drop(c) ==
  /\ Doing(c, {"delete"}, "drop")
  /\ LET s == job[c].of
     IN  /\ shelf' = shelf \ {s}
         /\ titles' = [titles EXCEPT ![s] = Untitled]
         /\ thumb' = [thumb EXCEPT ![s] = "remote"]
         /\ waiting' = Cascade(s)
         /\ job' = [q \in Procs |->
                      IF q = c THEN Idle
                      ELSE IF job[q].of = s THEN [job[q] EXCEPT !.stale = TRUE, !.lost = TRUE]
                      ELSE job[q]]
         /\ ghost' = [ghost EXCEPT !.wish[s] = [t \in Titles |-> "free"],
                                   !.known = @ \ {s}]
  /\ UNCHANGED <<disk, asked, hints, edits>>

-----------------------------------------------------------------------------
(* The suggestions of the library                                          *)

(* RefreshSuggestions, or a request that does the same.                    *)
Suggest(p) ==
  /\ job[p] = Idle
  /\ \/ p \in Workers /\ asked > 0 /\ asked' = asked - 1 /\ UNCHANGED edits
     \/ p \in Clients /\ Edit("suggest") /\ UNCHANGED asked
  /\ Step(p, [Idle EXCEPT !.what = "suggest", !.at = "read"])
  /\ UNCHANGED <<rows, disk, waiting, hints, ghost>>

(* The series of the library and the details that are stored already.      *)
ReadShelf(p) ==
  /\ Doing(p, {"suggest"}, "read")
  /\ Step(p, [job[p] EXCEPT !.seen = shelf,
                !.cached = {i \in Listed : hints[i] # "no"},
                !.at = IF shelf \cap Listed = {} THEN "recall" ELSE "ask"])
  /\ UNCHANGED <<rows, disk, tasks, hints, edits, ghost>>

(* batch_fetch_with_suggestions; batch_fetch_media_details only for those  *)
(* whose details are not stored.                                           *)
Bundled(p) ==
  /\ Doing(p, {"suggest"}, "ask")
  /\ Step(p, [job[p] EXCEPT !.tries = 0,
                !.at = IF Recommended(job[p].seen) \subseteq job[p].cached THEN "recall" ELSE "details"])
  /\ UNCHANGED <<rows, disk, tasks, hints, edits, ghost>>

Detailed(p) ==
  /\ Doing(p, {"suggest"}, "details")
  /\ Step(p, [job[p] EXCEPT !.tries = 0, !.at = "recall"])
  /\ UNCHANGED <<rows, disk, tasks, hints, edits, ghost>>

(* replace_library_suggestions reads what is hidden before its transaction. *)
Recall(p) ==
  /\ Doing(p, {"suggest"}, "recall")
  /\ Step(p, [job[p] EXCEPT !.at = "store", !.late = {},
                !.hidden = {i \in Listed : hints[i] = "hidden"}])
  /\ UNCHANGED <<rows, disk, tasks, hints, edits, ghost>>

(* Mutant: a candidate is stored as one never seen before.                 *)
Reset(p, i) == "shown"

Keep(p, i) == IF i \in job[p].hidden THEN "hidden" ELSE "shown"

(* The transaction fails when a series that recommends is gone.            *)
Sources(S) == {s \in S \cap Listed : Links[s] \ S # {}}

Store(p) ==
  /\ Doing(p, {"suggest"}, "store")
  /\ IF Sources(job[p].seen) \subseteq shelf
     THEN /\ hints' = [i \in Listed |-> IF i \in Recommended(job[p].seen) THEN Keep(p, i) ELSE "no"]
          /\ ghost' = [ghost EXCEPT !.known = job[p].seen,
                         !.excused = IF job[p].stale THEN @ \cup (shelf \ job[p].seen)
                                     ELSE @ \ job[p].seen]
          /\ job' = [q \in Procs |->
               IF q = p THEN Idle
               ELSE IF job[q].what # "suggest" THEN job[q]
               ELSE [job[q] EXCEPT !.stale = TRUE,
                                   !.late = @ \cup {i \in Listed : hints'[i] # hints[i]}]]
          /\ UNCHANGED tasks
     ELSE Fails(p) /\ UNCHANGED hints
  /\ UNCHANGED <<rows, disk, edits>>

(* set_hidden.                                                             *)
Hide(i) ==
  /\ Edit("hide") /\ hints[i] # "no"
  /\ hints' = [hints EXCEPT ![i] = IF @ = "hidden" THEN "shown" ELSE "hidden"]
  /\ job' = [p \in Procs |-> IF job[p].at = "store" THEN [job[p] EXCEPT !.late = @ \cup {i}]
                             ELSE job[p]]
  /\ UNCHANGED <<rows, disk, tasks, ghost>>

-----------------------------------------------------------------------------
(* A restart: tasks that ran wait again, requests are lost half-way.       *)
Crash ==
  /\ Edit("crash")
  /\ LET Of(what) == {job[p].of : p \in {q \in Procs : job[q].what \in what}}
         Running(what, s) == Cardinality({w \in Workers : job[w].what = what /\ job[w].of = s
                                                          /\ ~job[w].lost})
     IN  /\ waiting' = [s \in Series |-> waiting[s] + Running("refresh", s)]
         /\ asked' = asked + Running("suggest", NoSeries)
         /\ ghost' = [ghost EXCEPT !.tangled = @ \cup (Of({"upload", "delete"}) \ {NoSeries}),
                                   !.excused = @ \cup Of({"add"})]
  /\ job' = [p \in Procs |-> Idle]
  /\ UNCHANGED <<rows, disk, hints>>

Next ==
  \/ \E p \in Procs :
       \/ Refused(p) \/ Unanswered(p) \/ Answered(p) \/ Cover(p) \/ Write(p)
       \/ Look(p) \/ Request(p)
       \/ Suggest(p) \/ ReadShelf(p) \/ Bundled(p) \/ Detailed(p) \/ Recall(p) \/ Store(p)
  \/ \E c \in Clients :
       \/ Clear(c) \/ Put(c) \/ Check(c) \/ Insert(c) \/ Queue(c) \/ Wipe(c) \/ Drop(c)
       \/ \E s \in Series : \/ Add(c, s) \/ AddByHand(c, s) \/ Import(c, s)
                          \/ Change(c, s) \/ Delete(c, s)
  \/ \E w \in Workers : Comic(w) \/ ComicFails(w) \/ \E s \in Series : Refresh(w, s)
  \/ \E s \in Series : AskRefresh(s)
  \/ \E i \in Listed : Hide(i)
  \/ Crash

Spec == Init /\ [][Next]_vars

-----------------------------------------------------------------------------
TypeOK ==
  /\ shelf \subseteq Series
  /\ titles \in [Series -> [Titles -> TitleStates]]
  /\ thumb \in [Series -> {"own", "remote"}]
  /\ disk \in [Series -> {"none", "dir", "cover"}]
  /\ waiting \in [Series -> Nat] /\ asked \in Nat
  /\ hints \in [Listed -> {"no", "shown", "hidden"}]
  /\ \A p \in Procs :
       /\ job[p].of \in Series \cup {NoSeries}
       /\ job[p].at \in {"write", "cover", "insert", "clear", "put", "comic", "look"}
            => job[p].of # NoSeries
       /\ job[p].tries < MaxTries
  /\ \A s \in Series \ shelf : waiting[s] = 0

(* A title that the user hid stays hidden, and one the user added stays     *)
(* listed, through every refresh and upload, unless a row was written back  *)
(* over a newer one (merge_synonyms, core.rs; update_metadata, db/manga.rs). *)
TitlesKept ==
  \A s \in shelf \ ghost.tangled, t \in Titles :
    /\ ghost.wish[s][t] = "hidden" => titles[s][t] = "hidden"
    /\ ghost.wish[s][t] = "listed" => titles[s][t] \in {"manual", "shown"}

(* A series whose row points at the cover that this server has, has one on *)
(* disk, except while an upload or a deletion is under way or was cut off   *)
(* (download_cover, upload_cover_file, delete_manga).                       *)
CoverIsThere ==
  \A s \in shelf \ ghost.tangled :
    thumb[s] = "own" =>
      \/ disk[s] = "cover"
      \/ \E c \in Clients : job[c].of = s /\ job[c].what \in {"upload", "delete"}

(* Once nothing waits and nothing runs, the suggestions were made of every  *)
(* series of the library, except an imported one, one that was added while  *)
(* a refresh ran, and those of a refresh that failed, was overtaken or lost *)
(* in a restart (add_manga, worker.rs, is_pending_for_library).             *)
SuggestionsKnowAll ==
  (asked = 0 /\ (\A s \in Series : waiting[s] = 0) /\ \A p \in Procs : job[p] = Idle)
    => (shelf \cap Listed) \subseteq (ghost.known \cup ghost.excused)

(* A refresh shows no suggestion that is hidden, unless it was hidden, by   *)
(* the user or by the transaction of another refresh, between its read of   *)
(* what is hidden and its own transaction (replace_library_suggestions,     *)
(* db/suggestions.rs).                                                      *)
HiddenStays ==
  [][\A i \in Listed : hints[i] = "hidden" /\ hints'[i] = "shown"
       => edits' # edits \/ \E p \in Procs : job[p].at = "store" /\ i \in job[p].late]_vars
==============================================================================
