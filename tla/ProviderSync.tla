----------------------------- MODULE ProviderSync -----------------------------
(***************************************************************************)
(* How one series gets its chapters (src/manga/merge.rs): the search for   *)
(* its page on each provider, the tasks that read the chapter lists, the   *)
(* rows and provider entries they write, the canonical list, the automatic *)
(* downloads; the scheduler that starts them (src/scheduler/worker.rs) and *)
(* the requests that edit the same rows meanwhile (src/api/manga.rs,       *)
(* src/api/provider_settings.rs).                                          *)
(*                                                                         *)
(* A chapter is its number; at most one row per provider and number, and   *)
(* the canonical list takes one row per number, the best ranked of the     *)
(* enabled providers. The rest of that choice is the subject of Canonical, *)
(* the order of a queue that of TaskQueue, upgrades that of ChapterDownload. *)
(* Titles in provider_data, which no decision but that of searching for a  *)
(* title depends on, are left out.                                         *)
(***************************************************************************)
EXTENDS Integers, FiniteSets

CONSTANTS
  Providers, NoProvider,
  Pages, NoPage,  (* addresses of series on the providers' sites           *)
  PagesOf,        (* those a provider's entry may point to                 *)
  Hit,            (* the page a search on each provider matches, or NoPage *)
  Numbers,        (* chapter numbers                                       *)
  Backlist,       (* what each page lists when the series is added         *)
  Rank,           (* each one's place in update_canonical's order: the     *)
                  (* lowest is preferred                                   *)
  Workers,        (* queue workers                                         *)
  Serves,         (* the provider whose queue a worker polls, or NoProvider *)
                  (* for the system queue                                  *)
  Editors,        (* requests in flight that end in update_canonical       *)
  Edits,          (* the kinds of request that occur                       *)
  MaxEdits        (* bound: requests and crashes of the daemon             *)

Rows == Providers \X Numbers

ASSUME SyncAssumption ==
  /\ NoProvider \notin Providers /\ NoPage \notin Pages
  /\ PagesOf \in [Providers -> SUBSET Pages]
  /\ \A p \in Providers : Hit[p] \in PagesOf[p] \cup {NoPage}
  /\ Backlist \in [Pages -> SUBSET Numbers]
  /\ Rank \in [Providers -> Nat]
  /\ \A p, q \in Providers : Rank[p] = Rank[q] => p = q
  /\ Serves \in [Workers -> Providers \cup {NoProvider}]
  /\ Workers \cap Editors = {}
  /\ MaxEdits \in Nat

VARIABLES
  shown,      (* the chapters each page lists                              *)
  url,        (* MangaProvider.provider_url, or NoPage                     *)
  synced,     (* MangaProvider.last_synced_at is set                       *)
  override,   (* the provider's setting for this series: on, off or none   *)
  off,        (* some global ProviderSettings row of the provider says so  *)
  monitored,  (* Manga.monitored                                           *)
  due,        (* last_checked_at is older than scan_interval_hours         *)
  waiting,    (* Pending tasks of the series                               *)
  rows,       (* Chapters                                                  *)
  canonical,  (* the provider of each number in canonical_list             *)
  queued,     (* rows an automatic DownloadChapter task was inserted for   *)
  job,        (* what each worker and request in flight is doing           *)
  edits,      (* requests and crashes so far                               *)
  ghost       (* what happened, for the properties                         *)

site   == <<shown>>
entry  == <<url, synced>>
config == <<override, off, monitored>>
sched  == <<due, waiting>>
list   == <<rows, canonical, queued>>
vars   == <<site, entry, config, sched, list, job, edits, ghost>>

Procs == Workers \cup Editors

(* A SyncProviderChapters task names a provider in its payload ("one") or  *)
(* not ("all"); own tells whether it is in that provider's queue.          *)
Task(kind, p, own) == [kind |-> kind, provider |-> p, own |-> own]
NoTask   == Task("none", NoProvider, FALSE)
Build    == Task("build", NoProvider, FALSE)
CheckAll == Task("all", NoProvider, FALSE)
TaskSet  == {Build, CheckAll} \cup {Task("one", p, b) : p \in Providers, b \in BOOLEAN}

NoCopy  == [url |-> NoPage, synced |-> FALSE]
NoList  == [n \in Numbers |-> NoProvider]
Idle ==
  [at |-> "idle", task |-> NoTask, all |-> FALSE, watched |-> FALSE, todo |-> {},
   copy |-> [p \in Providers |-> NoCopy], now |-> NoProvider, infos |-> {},
   number |-> 0, known |-> FALSE, news |-> {}, list |-> NoList]

Init ==
  /\ shown     = Backlist
  /\ url       = [p \in Providers |-> NoPage]
  /\ synced    = [p \in Providers |-> FALSE]
  /\ override  = [p \in Providers |-> "none"]
  /\ off       = [p \in Providers |-> FALSE]
  /\ monitored = TRUE
  /\ due       = TRUE
  /\ waiting   = {Build}
  /\ rows      = {}
  /\ canonical = NoList
  /\ queued    = {}
  /\ job       = [w \in Procs |-> Idle]
  /\ edits     = 0
  /\ ghost     = [scraped  |-> [p \in Providers |-> {}],  (* pages read     *)
                  backlist |-> {},     (* rows the first sync of a page added *)
                  fresh    |-> {},     (* rows a later one added            *)
                  switched |-> {},     (* providers set on or off           *)
                  tangled  |-> FALSE,  (* the list may stay behind the rows *)
                  excused  |-> {}]     (* numbers a stale list, or a crash, decided *)

Found(p)   == url[p] # NoPage
Enabled(p) == override[p] = "on" \/ (override[p] = "none" /\ ~off[p])
Usable     == {p \in Providers : Found(p) /\ Enabled(p)}

(* update_canonical, for chapters of one number and different providers.   *)
Best(n) ==
  LET C == {p \in Providers : <<p, n>> \in rows /\ Enabled(p)}
  IN  IF C = {} THEN NoProvider
      ELSE CHOOSE p \in C : \A q \in C : Rank[p] <= Rank[q]
BestList == [n \in Numbers |-> Best(n)]

(* is_pending_in_queue for a provider's queue: Pending or Running.         *)
Active(p) ==
  \/ Task("one", p, TRUE) \in waiting
  \/ \E w \in Workers : job[w].task = Task("one", p, TRUE)

(* Bound: a task of each kind waits at most once.                          *)
Enqueued(p) == IF Active(p) THEN waiting ELSE waiting \cup {Task("one", p, TRUE)}

-----------------------------------------------------------------------------
(* The world, the clock and the scheduler.                                 *)

(* A provider publishes a chapter.                                         *)
Post(u, n) ==
  /\ n \notin shown[u]
  /\ shown' = [shown EXCEPT ![u] = @ \cup {n}]
  /\ UNCHANGED <<entry, config, sched, list, job, edits, ghost>>

BecomeDue ==
  /\ ~due /\ due' = TRUE
  /\ UNCHANGED <<site, entry, config, waiting, list, job, edits, ghost>>

(* run_scheduler: every minute a series that is due has a task inserted    *)
(* for each provider that found it. It asks for no setting of the provider; *)
(* is_auto_disabled edits the rows of a table nothing writes to.          *)
Tick(p) ==
  /\ due /\ monitored /\ Found(p)
  /\ Enqueued(p) # waiting
  /\ waiting' = Enqueued(p)
  /\ UNCHANGED <<site, entry, config, due, list, job, edits, ghost>>

-----------------------------------------------------------------------------
(* Workers: taking a task.                                                 *)

Step(w, changes) == job' = [job EXCEPT ![w] = changes]
Goto(w, at)      == Step(w, [job[w] EXCEPT !.at = at])

(* The series is read once, when the dispatch begins.                      *)
Claim(w, t) ==
  /\ job[w] = Idle /\ t \in waiting
  /\ Serves[w] = (IF t.own THEN t.provider ELSE NoProvider)
  /\ waiting' = waiting \ {t}
  /\ Step(w, [Idle EXCEPT !.at = IF t = Build THEN "search" ELSE "read",
                          !.task = t, !.watched = monitored])
  /\ UNCHANGED <<site, entry, config, due, list, edits, ghost>>

(* A failed task is retried, or has used up its attempts.                  *)
Drop(w) ==
  /\ \/ waiting' = waiting \cup {job[w].task}
     \/ waiting' = waiting
  /\ Step(w, Idle)

-----------------------------------------------------------------------------
(* BuildFullChapterList: search_providers, then a task per provider found. *)

SearchRead(w) ==
  /\ job[w].at = "search"
  /\ Step(w, [job[w] EXCEPT !.at = "searching",
                            !.todo = {p \in Providers : ~off[p] /\ ~Found(p)}])
  /\ UNCHANGED <<site, entry, config, sched, list, edits, ghost>>

(* A match above the threshold is written over whatever the entry says by  *)
(* now; no match, or an error, leaves the entry as it is.                  *)
SearchAnswer(w, p) ==
  /\ job[w].at = "searching" /\ p \in job[w].todo
  /\ Step(w, [job[w] EXCEPT !.todo = @ \ {p}])
  /\ \/ /\ Hit[p] # NoPage
        /\ url'    = [url EXCEPT ![p] = Hit[p]]
        /\ synced' = [synced EXCEPT ![p] = FALSE]
     \/ UNCHANGED entry
  /\ UNCHANGED <<site, config, sched, list, edits, ghost>>

(* The tasks of the providers found by now, unless is_pending_in_queue.    *)
Spread(w) ==
  /\ job[w].at = "searching" /\ job[w].todo = {}
  /\ waiting' = waiting \cup UNION {Enqueued(p) : p \in Usable}
  /\ Step(w, Idle)
  /\ UNCHANGED <<site, entry, config, due, list, edits, ghost>>

-----------------------------------------------------------------------------
(* SyncProviderChapters: scrape_single_provider or scrape_known_providers. *)

Wanted(w) == IF job[w].task = CheckAll THEN Providers ELSE {job[w].task.provider}

SyncRead(w) ==
  /\ job[w].at = "read"
  /\ job[w].task = CheckAll \/ job[w].task.provider \in Usable
  /\ LET S == Wanted(w) \cap Usable
     IN  Step(w, [job[w] EXCEPT
           !.at = "fetching", !.todo = S, !.all = (@ \/ job[w].task = CheckAll),
           !.copy = [p \in Providers |->
              IF p \in S THEN [url |-> url[p], synced |-> synced[p]] ELSE NoCopy]])
  /\ UNCHANGED <<site, entry, config, sched, list, edits, ghost>>

(* "provider not found or disabled"                                        *)
SyncRefuse(w) ==
  /\ job[w].at = "read"
  /\ job[w].task # CheckAll /\ job[w].task.provider \notin Usable
  /\ Drop(w)
  /\ UNCHANGED <<site, entry, config, due, list, edits, ghost>>

(* Mutant: the progress record has no provider.                            *)
NoName(w, p) == IF job[w].all THEN Task("one", NoProvider, FALSE) ELSE job[w].task

(* set_progress overwrites the payload with a record that has a provider:  *)
(* from then on, the row of a check of all providers names a single one.   *)
Progress(w, p) == IF job[w].all THEN Task("one", p, FALSE) ELSE job[w].task

(* The calls run at the same time; their results are taken one by one.     *)
Answer(w, p) ==
  /\ job[w].at = "fetching" /\ p \in job[w].todo
  /\ Step(w, [job[w] EXCEPT !.at = "check", !.todo = @ \ {p}, !.now = p,
                            !.infos = shown[job[w].copy[p].url],
                            !.task = Progress(w, p)])
  /\ UNCHANGED <<site, entry, config, sched, list, edits, ghost>>

(* A call that fails ends a check of one provider; one of all goes on.     *)
Failed(w, p) ==
  /\ job[w].at = "fetching" /\ p \in job[w].todo
  /\ IF job[w].all
     THEN /\ Step(w, [job[w] EXCEPT !.todo = @ \ {p}, !.copy[p] = NoCopy,
                                    !.task = Progress(w, p)])
          /\ UNCHANGED waiting
     ELSE Drop(w)
  /\ UNCHANGED <<site, entry, config, due, list, edits, ghost>>

(* upsert_from_scrape: is there a row, and then INSERT OR UPDATE.          *)
Check(w, n) ==
  /\ job[w].at = "check" /\ n \in job[w].infos
  /\ Step(w, [job[w] EXCEPT !.at = "insert", !.number = n,
                            !.known = <<job[w].now, n>> \in rows])
  /\ UNCHANGED <<site, entry, config, sched, list, edits, ghost>>

(* Mutant: the new chapters of one provider replace those of the one before. *)
OnlyOf(news, fresh) == IF fresh = {} THEN news ELSE fresh

(* new_ids.extend(inserted_ids)                                            *)
Extend(news, fresh) == news \cup fresh

(* Mutant: last_synced_at is looked at after it was set.                   *)
LookAfter(w) == TRUE

(* First-time syncs are excluded from the automatic downloads.             *)
SyncedBefore(w) == job[w].copy[job[w].now].synced

(* A row that another sync inserted since the check is declared new too:   *)
(* the statement is INSERT .. ON CONFLICT DO UPDATE.                       *)
Insert(w) ==
  /\ job[w].at = "insert"
  /\ LET r     == <<job[w].now, job[w].number>>
         new   == IF job[w].known THEN {} ELSE {r}
         first == job[w].copy[job[w].now].url \notin ghost.scraped[job[w].now]
     IN  /\ rows' = rows \cup {r}
         /\ Step(w, [job[w] EXCEPT
              !.at = "check", !.infos = @ \ {job[w].number}, !.number = 0, !.known = FALSE,
              !.news = IF SyncedBefore(w) THEN Extend(@, new) ELSE @])
         /\ ghost' = [ghost EXCEPT
              !.fresh    = IF SyncedBefore(w) /\ job[w].watched THEN @ \cup new ELSE @,
              !.backlist = IF r \in rows THEN @ \ new
                           ELSE IF first THEN @ \cup {r} ELSE @]
  /\ UNCHANGED <<site, entry, config, sched, canonical, queued, edits>>

(* The entry is written back as it was read, with last_synced_at set.      *)
Mark(w) ==
  /\ job[w].at = "check" /\ job[w].infos = {}
  /\ LET p == job[w].now
     IN  /\ url'    = [url EXCEPT ![p] = job[w].copy[p].url]
         /\ synced' = [synced EXCEPT ![p] = TRUE]
         /\ ghost'  = [ghost EXCEPT !.scraped[p] = @ \cup {job[w].copy[p].url}]
         /\ Step(w, [job[w] EXCEPT !.at = "fetching", !.now = NoProvider,
                                   !.copy[p] = NoCopy])
  /\ UNCHANGED <<site, config, sched, list, edits>>

(* update_canonical reads and computes, and then stores the list. It also  *)
(* ends the requests that change a provider's setting.                     *)
Compute(w) ==
  /\ \/ job[w].at = "fetching" /\ job[w].todo = {}
     \/ job[w].at = "compute"
  /\ Step(w, [job[w] EXCEPT !.at = "store", !.list = BestList])
  /\ UNCHANGED <<site, entry, config, sched, list, edits, ghost>>

Store(w) ==
  /\ job[w].at = "store"
  /\ canonical' = job[w].list
  /\ ghost' = [ghost EXCEPT
       !.tangled = (job[w].list # BestList),
       !.excused = @ \cup {n \in Numbers : job[w].list[n] # Best(n)}]
  /\ Step(w, IF w \in Workers THEN [job[w] EXCEPT !.at = "queue", !.list = NoList] ELSE Idle)
  /\ UNCHANGED <<site, entry, config, sched, rows, queued, edits>>

(* enqueue_auto_downloads: new rows that are canonical now.                *)
Chosen(w) == {r \in job[w].news : canonical[r[2]] = r[1]}

(* Then clear_for_manga and update_last_checked, and the task is Completed. *)
QueueNew(w) ==
  /\ job[w].at = "queue"
  /\ queued' = IF job[w].watched THEN queued \cup Chosen(w) ELSE queued
  /\ due' = FALSE
  /\ Step(w, Idle)
  /\ UNCHANGED <<site, entry, config, waiting, rows, canonical, edits, ghost>>

-----------------------------------------------------------------------------
(* Requests.                                                               *)

Edit(kind) ==
  /\ kind \in Edits /\ edits < MaxEdits
  /\ edits' = edits + 1

(* Mutant: the new address keeps last_synced_at.                           *)
KeepSynced(p, u) ==
  /\ Edit("url")
  /\ u # url[p]
  /\ url' = [url EXCEPT ![p] = u]
  /\ UNCHANGED <<synced, site, config, sched, list, job, ghost>>

(* set_provider_url: the user corrects or clears the address.              *)
SetUrl(p, u) ==
  /\ Edit("url")
  /\ u # url[p]
  /\ url'    = [url EXCEPT ![p] = u]
  /\ synced' = [synced EXCEPT ![p] = FALSE]
  /\ UNCHANGED <<site, config, sched, list, job, ghost>>

(* set_series_settings; a provider that is switched off loses its rows.    *)
SetSeries(e, p, on) ==
  /\ Edit("series") /\ job[e] = Idle
  /\ override' = [override EXCEPT ![p] = IF on THEN "on" ELSE "off"]
  /\ Step(e, [Idle EXCEPT !.at = IF on THEN "compute" ELSE "purge", !.now = p])
  /\ ghost' = [ghost EXCEPT !.switched = @ \cup {p}]
  /\ UNCHANGED <<site, entry, off, monitored, sched, list>>

(* Mutant: the canonical list is left as it is.                            *)
PurgeOnly(e) ==
  /\ job[e].at = "purge"
  /\ \E kept \in SUBSET {r \in rows : r[1] = job[e].now} :
       rows' = {r \in rows : r[1] # job[e].now} \cup kept
  /\ Step(e, Idle)
  /\ UNCHANGED <<site, entry, config, sched, canonical, queued, edits, ghost>>

(* delete_missing_for_provider: the provider's rows but for those that are *)
(* Queued, Downloading, Downloaded or Failed, which may be any of them.    *)
Purge(e) ==
  /\ job[e].at = "purge"
  /\ \E kept \in SUBSET {r \in rows : r[1] = job[e].now} :
       rows' = {r \in rows : r[1] # job[e].now} \cup kept
  /\ Goto(e, "compute")
  /\ UNCHANGED <<site, entry, config, sched, canonical, queued, edits, ghost>>

(* delete_series_settings                                                  *)
ClearSeries(e, p) ==
  /\ Edit("series") /\ job[e] = Idle
  /\ override' = [override EXCEPT ![p] = "none"]
  /\ Goto(e, "compute")
  /\ ghost' = [ghost EXCEPT !.switched = @ \cup {p}]
  /\ UNCHANGED <<site, entry, off, monitored, sched, list>>

(* set_global_settings: NULLs never conflict, so every call adds a row,    *)
(* and one that says off is enough for get_globally_disabled.              *)
SetGlobal(e, p, on) ==
  /\ Edit("global") /\ job[e] = Idle
  /\ off' = [off EXCEPT ![p] = @ \/ ~on]
  /\ ghost' = [ghost EXCEPT !.switched = @ \cup {p}]
  /\ Goto(e, "compute")
  /\ UNCHANGED <<site, entry, override, monitored, sched, list>>

SetMonitored ==
  /\ Edit("monitor")
  /\ monitored' = ~monitored
  /\ UNCHANGED <<site, entry, override, off, sched, list, job, ghost>>

(* scan_manga_api, check_new_chapters_api, sync_provider_api               *)
Ask(t) ==
  /\ Edit("task")
  /\ t \in {Build, CheckAll} \cup {Task("one", p, TRUE) : p \in Providers}
  /\ t \notin waiting
  /\ waiting' = waiting \cup {t}
  /\ UNCHANGED <<site, entry, config, due, list, job, ghost>>

-----------------------------------------------------------------------------
(* Who may have changed the rows, or a setting, and has update_canonical   *)
(* still before it.                                                        *)
Owes(w) ==
  \/ job[w].at \in {"compute", "purge", "store", "check", "insert"}
  \/ job[w].at = "fetching" /\ (job[w].all \/ job[w].todo = {})

(* A crash, and a start: running tasks are Pending again, with the payload *)
(* they have by now, and a provider whose file has a new version is synced. *)
Restart ==
  /\ Edit("crash")
  /\ job' = [w \in Procs |-> Idle]
  /\ \E V \in SUBSET {p \in Providers : Found(p)} :
       waiting' = ((waiting \cup {job[w].task : w \in Workers}) \ {NoTask})
                    \cup {Task("one", p, TRUE) : p \in V}
  /\ ghost' = [ghost EXCEPT
       !.tangled = @ \/ \E w \in Procs : Owes(w),
       !.excused = @ \cup {r[2] : r \in UNION {job[w].news : w \in Workers}}]
  /\ UNCHANGED <<site, entry, config, due, list>>

-----------------------------------------------------------------------------
WorkerStep(w) ==
  \/ \E t \in TaskSet : Claim(w, t)
  \/ SearchRead(w) \/ Spread(w)
  \/ \E p \in Providers : SearchAnswer(w, p) \/ Answer(w, p) \/ Failed(w, p)
  \/ SyncRead(w) \/ SyncRefuse(w)
  \/ \E n \in Numbers : Check(w, n)
  \/ Insert(w) \/ Mark(w) \/ Compute(w) \/ Store(w) \/ QueueNew(w)

EditorStep(e) ==
  \/ \E p \in Providers :
        \/ \E on \in BOOLEAN : SetSeries(e, p, on) \/ SetGlobal(e, p, on)
        \/ ClearSeries(e, p)
  \/ Purge(e) \/ Compute(e) \/ Store(e)

Request ==
  \/ \E p \in Providers : \E u \in PagesOf[p] \cup {NoPage} : SetUrl(p, u)
  \/ SetMonitored
  \/ \E t \in TaskSet : Ask(t)

Next ==
  \/ \E u \in Pages, n \in Numbers : Post(u, n)
  \/ BecomeDue
  \/ \E p \in Providers : Tick(p)
  \/ \E w \in Workers : WorkerStep(w)
  \/ \E e \in Editors : EditorStep(e)
  \/ Request \/ Restart

Spec == Init /\ [][Next]_vars

-----------------------------------------------------------------------------
(* Properties.                                                             *)

TypeOK ==
  /\ shown \in [Pages -> SUBSET Numbers]
  /\ \A p \in Providers : url[p] \in PagesOf[p] \cup {NoPage}
  /\ synced    \in [Providers -> BOOLEAN]
  /\ override  \in [Providers -> {"on", "off", "none"}]
  /\ off       \in [Providers -> BOOLEAN]
  /\ monitored \in BOOLEAN /\ due \in BOOLEAN
  /\ waiting   \in SUBSET TaskSet
  /\ rows      \in SUBSET Rows
  /\ canonical \in [Numbers -> Providers \cup {NoProvider}]
  /\ queued    \in SUBSET Rows
  /\ edits \in 0..MaxEdits
  /\ \A w \in Procs :
       /\ job[w].task \in TaskSet \cup {NoTask}
       /\ job[w].at \in {"idle", "search", "searching", "read",
                         "fetching", "check", "insert", "compute", "store", "queue",
                         "purge"}
       /\ job[w].news \in SUBSET Rows

Quiet == \A w \in Procs : job[w] = Idle

(* A last_synced_at is never one of another page: an entry that says it is *)
(* synced points to a page whose chapters were read, whatever searches,    *)
(* corrections of the address and write-backs of old copies come between.  *)
SyncedMeansRead ==
  \A p \in Providers : synced[p] => url[p] \in ghost.scraped[p]

(* The rows that the first sync of a page added are not downloaded         *)
(* automatically, unless the provider was switched off meanwhile (its rows *)
(* are deleted, last_synced_at stays) or a sync that had looked for the    *)
(* row before declares it new a second time.                               *)
NoMassDownload ==
  \A r \in queued : r \in ghost.backlist => r[1] \in ghost.switched

(* When nothing runs, a chapter that a sync of a known page brought to a   *)
(* monitored series has a download, of its provider's row or another's,    *)
(* however syncs, failures and edits interleave. It has none when          *)
(* - a preferred provider has the chapter and did not bring it as news: it *)
(*   came with the first sync of a page, which downloads nothing, or while *)
(*   the series was not monitored;                                         *)
(* - a list was stored for its number that was computed before another     *)
(*   change, so that two syncs may each leave the chapter to the other;    *)
(* - a restart fell between the insert of its row and the enqueue;         *)
(* - its provider, or a preferred one, was switched on or off.             *)
NewChaptersAreQueued ==
  Quiet => \A r \in ghost.fresh :
    \/ \E q \in Providers : <<q, r[2]>> \in queued
    \/ \E q \in Providers : <<q, r[2]>> \in rows \ ghost.fresh /\ Rank[q] < Rank[r[1]]
    \/ r[2] \in ghost.excused
    \/ \E q \in ghost.switched : Rank[q] <= Rank[r[1]]

(* Whatever changes rows or settings is followed by update_canonical: when *)
(* nothing runs the list is the best choice, unless the last list stored   *)
(* was computed before another change, or a restart cut off a sync or a    *)
(* request that still owed the update. The next update that nothing        *)
(* overlaps puts both right.                                               *)
CanonicalFollows ==
  Quiet => ghost.tangled \/ canonical = BestList
=============================================================================
