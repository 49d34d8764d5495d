# Rebarr: TLA+ models and proofs

Rebarr downloads manga chapters. A daemon (`src/src/bin/rebarrd.rs`) keeps a SQLite database of
series, chapters and tasks, runs worker loops over the tasks, scrapes providers through a shared
browser and writes `.cbz` files. This directory models its concurrent core in TLA+, checks it with
TLC and proves its safety properties with TLAPS. Source paths below are relative to the directory that holds
`src/` and `tla/`.

- [Inventory](#inventory): the parts of the system
- [Modules](#modules): what is modelled, and how it maps to the code
- [Runs](#runs): what TLC checks, with which bounds
- [Fairness and timing](#fairness-and-timing)
- [Proofs](#proofs)
- [Disagreements with the documentation](#disagreements-with-the-documentation)
- [What is left out](#what-is-left-out)
- [Plan](#plan)

## Inventory

| part | source (`src/src/`) | state | operations | what is hard | what makes it correct |
|---|---|---|---|---|---|
| Task queue | `db/task.rs`, `scheduler/worker.rs`, `api/tasks.rs` | `Task` rows, `CancelMap`, `queue_paused`, shutdown token | enqueue, claim, complete, fail, cancel, prioritise, prune, startup reset | several workers per queue; results that come after a cancel; tokens that live in memory; crashes; lost writes | one holder per task, no forgotten Running row, retries bounded, ended tasks stay ended, every task settles |
| Chapter download | `scraper/downloader.rs`, `api/chapters.rs`, `manga/merge.rs` (enqueueing) | `Chapters.download_status`, `CanonicalChapters`, `.cbz` files | `download_chapter` with fallbacks, cleanup of superseded files, download / download-now / delete / reset / mark handlers, scans that enqueue | many writers of one status; statuses written before and after awaits; crash between status and task | a chapter shown as Downloading is worked on; a cancel stops a download; a cleanup keeps the new file |
| Concurrency gates | `scraper/executor.rs` | counter, limit and `Notify` per provider, and for the browser | acquire, drop, `set_browser_worker_count` | drop cannot wait; two gates taken in order; lost wake-ups; aborted callers | cap respected, no slot leaked, no sleeper forgotten, admission goes on |
| Provider sync, search | `manga/merge.rs`, `db/provider.rs`, `db/provider_settings.rs` | `MangaProvider` rows, switches, task payloads | search round, scrape round of all or of one, upsert of chapters, enqueueing of downloads | rows cloned before an await and written back after it; several syncs of one series; a restart between insert and enqueue; progress written over the payload | only what is new since the first sync is downloaded; what is new is, but for named causes; `last_synced_at` is never of another page |
| Canonical selection | `db/chapter.rs`, `manga/scoring.rs`, `manga/metadata_rules.rs` | `canonical_list`, `canonical_overrides`, `is_extra` | `update_canonical`, `set_canonical_override`, `remove_canonical_override`, `delete` | read-compute-write without a transaction; whole chapters against their parts | every chapter has one canonical release, none twice, overrides are lost only where the code is known to drop them |
| Scheduler | `scheduler/worker.rs` (`run_scheduler`), `bin/rebarrd.rs` (`check_provider_versions`) | none | check every minute, enqueue what is due | check-then-enqueue | no needless duplicates |
| Library scan | `library/scanner.rs` | rows against files | match, reconcile, purge orphans | files and rows change during the walk | a file with a row stays, a row without a file becomes Missing |
| Optimiser | `scheduler/optimiser.rs` | a `.cbz` | rewrite in place | races with download, delete, crash | content never lost |
| ComicInfo, importer | `manga/comicinfo.rs`, `importer/mod.rs` | `.cbz` files, chapter rows | rewrite metadata in a `.cbz`; rename a foreign file and insert its row | two naming conventions; renames over files in use | a Downloaded row has its file |
| Series and AniList | `api/manga.rs`, `db/manga.rs`, `manga/core.rs`, `manga/covers.rs`, `http/metadata/anilist.rs` | `Manga` rows, synonyms, covers | add, import, refresh, edit titles, upload a cover, delete | rows written back whole after calls to AniList | what the user set stays, a cover is where the row says |
| Suggestions | `library/suggestions.rs`, `db/suggestions.rs` | `LibrarySuggestionCandidate` | refresh, hide | read before the transaction; a running refresh counts as pending | hidden stays hidden, suggestions catch up with the library |
| Metadata rate limiter | `http/metadata/rate_limiter.rs` | atomics: remaining, reset, retry-after | wait, update from headers, back off | atomics loaded and stored separately | a back-off is honoured |
| Browser pool | `scraper/browser.rs` | the browser, registered tabs | get, reset, sweep popup tabs | tabs opened during a sweep | only popups are closed |
| Provider engine | `scraper/engine.rs`, `def.rs` | one call's variables | interpret YAML steps | parsing | - |
| Webhooks, events | `http/webhook.rs`, `api/events.rs` | broadcast channel | dispatch, stream | lagging clients | - |
| Plain CRUD API, CLI, frontend | the rest | tables | single statements, formatting | - | - |

How they interact: HTTP handlers and the scheduler insert `Task` rows; a worker claims one,
publishes a cancellation token in the `CancelMap`, and dispatches it to a download, a sync, a scan
or an optimisation; these call providers through the gates, and write chapters and files that
handlers write too. There is no lock over any of it: SQLite statements (and a few transactions)
are the units of atomicity, and so are the model's actions.

## Modules

| module | is | of |
|---|---|---|
| `TaskLease` | abstract specification: leases | what the queue promises |
| `TaskQueue` | component | task table, worker loops, `CancelMap`, handlers |
| `TaskPromotion` | `TaskQueue` with a history variable | the order promised by prioritising |
| `ChapterDownload` | composition, EXTENDS `TaskQueue` | `download_chapter` as what a worker dispatches, and its rivals |
| `ConcurrencyGate` | component | gates and permits |
| `ProviderSync` | component | search and scrape tasks, the scheduler, provider switches |
| `Canonical` | component | the canonical list and its overrides |
| `DiskScan` | component | `.cbz` files against chapter rows |
| `SeriesCatalog` | component | series, their AniList data, covers and suggestions |
| `TaskQueueProofs`, `TaskPromotionProofs`, `ConcurrencyGateProofs`, `ChapterDownloadProofs`, `ProviderSyncProofs`, `CanonicalProofs`, `DiskScanProofs`, `SeriesCatalogProofs` | theorems | of the module each is named after |
| `MC*` | instances for TLC | constants as functions of the model values |

**TaskQueue.** A row is a member of `Tasks`; `status`, `priority`, `attempt` and `created` are its
columns, `due` says whether `run_after` has passed. A worker's loop is `pc`: `poll` (looks at
shutdown and pause), `claim` (the transaction of `claim_next_for_queue`), `claimed` (committed,
token not yet published), `dispatch`, `report` (token removed, result not yet written). A dispatch
returns `ok`, `error` or `cancelled`, the three arms of `queue_worker`. `Complete` and `Fail` write
whatever the row's status has become, as the code does, but a deleted row stays deleted. Handlers in
flight are `req`: `cancel_task` is row then token; `reset_chapter_api` is read, tokens, rows;
`enqueue_at_front` is read the priority, then insert. `Restart` forgets everything in memory and
runs `reset_running_tasks`, or fails to (`lost`), in which case the daemon starts anyway.
`WriteLost` is a `complete` or `fail` that returns an error.

**ChapterDownload.** The chapters are the entries of one chapter number, one per provider. `dl` is
where each worker is in `download_chapter`; every await that separates a read from a write, or two
writes, separates two actions. A file is known by its name, and what it holds: an entry's pages, a
worker's half-written file, a torn file, another chapter's. `api` is what a handler of
`api/chapters.rs`, `cancel_task` or a scan has read and has still to do; those that cancel or insert
at the front go on as requests of `TaskQueue`. `HandBack` is `Return` of `TaskQueue` with the outcome
the download had.

**ConcurrencyGate.** A caller's `pc`: `lock` (about to take the mutex), `armed` (has created its
`Notified` under the lock, not polled it), `asleep`, `woken`, `work`, `drop`, `notify` (slot given
back, `notify_one` to come). `orphans` and `due` are the releases a drop had to hand to a spawned
task because `try_lock` failed. tokio's `Notify` is modelled from its documented behaviour: a stored
permit, a wait list (as a set: whom it wakes is open), `notify_waiters` that reaches futures created
but not yet polled, and a woken future that passes its wake-up on when dropped.

**ProviderSync.** One series. A provider's site is a page or several (an address the search may get
wrong); `shown` is what a page lists, `url` and `synced` are the columns of `MangaProvider`,
`override` and `off` the two switches. A worker's `job` carries what the code carries over its
awaits: the entry it cloned (`copy`), the chapters the page answered with, which of them it
found absent, whether the page had been synced. `Check` and `Insert` are two statements of
`upsert_from_scrape`, `Compute` and `Store` the two halves of `update_canonical`, which is
reduced to the best entry of a number here. `Progress` is `set_progress`, which overwrites the
payload of a check of all providers with a record that names one, so that its retry checks only that
one. `Purge` deletes the provider's rows that are Missing; which of them are is left open. The queue is a
set of tasks: what happens to rows is `TaskQueue`'s. The choice between a whole chapter and its parts
when both are canonical (`skip_ids`, `manga/merge.rs:612-644`) is left out: with one row per number
and provider it never has to be made.

**Canonical.** `Info` gives the columns of a row that never change; a variant of 0 is a whole
chapter, 1 to 4 one of its parts, 5 and up an extra. `Filtered`, `Siblings`, `Classified`,
`Bundles`, `Coverage`, `Finalists` and `Winners` are `update_canonical` and `select_best_bundle` in
the order of the code, as operators on what a process read; `Scores` applies the quality rules.
`Preserved` is what upgrades being disabled leaves of the old list: its Downloaded rows, of which the
code's map keeps one per number (`Current`). `Overridden` applies the choices one after the other, in
an order that a `HashMap` leaves open (`Orders`): where choices evict each other it says which lists
can come out. A process is `Read`, `Load`, `Store`: the overrides are read at `Load`, after the
chapters, and both go into the write. `Results` is a set, since ties, too, are decided by the order in
which SQLite returns the rows. `Filter` writes the flags of all rows it judges, whatever the copy says.
Who is to write overrides that he read before another choice was stored has that choice in the history
field `late`.

**DiskScan.** A file is known by its name (number, and whether the title is part of it) and holds
the row that its ComicInfo names, whether it is whole, and whether its pages are webp. `System` is
the queue worker that scans, optimises or rewrites, `Loader` a download, `Api` a request. A scan
lists the directory (`ScanList`, or `ScanNowhere` when it is missing), reads a file (`ScanRead`), writes its row (`ScanKnown`,
`ScanPlain`), gathers the rows without a file (`ScanReconcile`), drops them (`ScanDrop`) and
recomputes (`ScanEnd`). `OptimiseOpen` truncates and `OptimiseFill` fills. `Put` and `Take` are the
user's file manager.

**SeriesCatalog.** A job is a request or a task of the system queue; it carries the copy of the row
that it read, and `Write` stores that copy whole, as `update_metadata` does. `Answered` merges
AniList's synonyms into the copy (`Merge`); `Cover` is `download_cover`, which gives this server's
address only once the file is written. `Comic` writes the ComicInfo of the series and its chapters,
or `ComicFails`, which fails the refresh with its row written. A refresh of the suggestions is `ReadShelf`, `Bundled`,
`Detailed`, `Recall` (what is hidden, before the transaction) and `Store` (the transaction).

Some modules have a `ghost`: a history variable that says which rows an earlier write has already
lost a file or a flag for, or which chapters a sync found. It is read by the properties only, and
each exception that a property makes is one field of it, set where the code lets go of the fact in
question.

## Runs

| run | instance | checks | shows |
|---|---|---|---|
| `task_queue` | 2 downloads of one chapter, 2 workers, 1 request, 1 restart, 1 lost write, 2 attempts, 2 priorities, lowest priority -2 (1.0 million states) | invariants and action properties of `TaskQueue`, that it implements `TaskLease`, and `PromotedGoesFirst` of `TaskPromotion` | claims, cancels, resets, retention, deletion and a crash interleave without a task held twice, a Running row forgotten, a retry miscounted or an ended task revived; a promotion holds until the row is claimed, except while it waits out a backoff, or once priorities saturate |
| `task_queue_live` | a download and another task, 1 worker, pause, shutdown, 1 restart, 1 lost write or failed startup reset (1.0 million states) | `EveryTaskSettles` | every Pending task ends once nobody keeps the queue stopped, or is left Running by a write or a reset that failed; after the next reset it must end again |
| `chapter_download` | 2 entries with one file name, 1 task tried twice, 1 worker, 1 handler, 1 restart, 1 lost write, both download modes | `DownloadingIsWorkedOn`, `NoChapterStaysDownloading` | no interleaving leaves a chapter Downloading with nobody to end it, but for the gap named by `Abandoned` |
| `chapter_cancel` | 1 task, 1 worker, 1 handler | `CancelStopsDownload` violated | see below |
| `chapter_upgrade` | 2 tasks, 1 worker, 1 handler | `UpgradeKeepsFile` violated | see below |
| `gate` | 3 callers over a provider gate configured with 0 and the browser gate (1 or 2), 1 spawned release per gate, 1 abortable caller (the search) | invariants of `ConcurrencyGate`, `NobodyOverLimit`, `GateKeepsMoving` | the cap, the count and the wake-ups survive contended drops, limit changes and aborts; admission goes on, even with callers that hold one gate while they wait for the other |
| `sync` | 2 providers, one of which has a wrong page and a right one, 1 chapter number, a system worker and a provider's worker, 1 settings request, 2 edits of six kinds, restarts among them (3.0 million states) | invariants of `ProviderSync` | a back catalogue is never downloaded at once; a chapter that appears on a known page is, but for the four causes that `NewChaptersAreQueued` names; the canonical list follows, unless a store was overtaken or a restart cut an update off |
| `canonical` | 1 number: a whole chapter, two parts (the first by two groups), two bonus chapters, of 2 providers; 1 quality rule; 2 processes; 3 edits of nine kinds (3.1 million states) | invariants of `Canonical` | chapters and their parts never both canonical, each chapter has one, a choice is listed and survives scans, switches and rule changes, but for overlapping writers and deleted entries |
| `disk` | 2 providers' releases and a local row of 1 number, so 2 file names; a scan or optimiser, a download, a request; 5 edits of eleven kinds (4.1 million states) | invariants of `DiskScan` | a scan does not give up the chapter that a file's ComicInfo names, and a Downloaded row has its file, but for the accidents named |
| `disk_plain` | the same files, one put there by hand, one scan | `FilesAreMarked` violated | see below |
| `disk_purge` | the same files, one import, one purge | `PurgeSparesDownloads` violated | see below |
| `catalogue` | 2 series of AniList that recommend each other and 1 added by hand, 1 other title, 2 workers, 2 requests, 3 tries, 3 edits of ten kinds (3.2 million states) | invariants of `SeriesCatalog`, `HiddenStays` | the user's decisions stay, covers are there, suggestions catch up |

**Bounds.** Two workers and two rows are enough for a double claim, a retry that races another claim,
a retention that keeps one row of two, and a promoted row with one that it overtakes, or that comes
later and gets in front. What a third row adds to a promotion, or to a sweep that takes several rows, is in
the proofs, which are about any number.
One request in flight suffices for the races, since each is between a handler and a worker; two
handlers meet only through the rows, whose writes they do in single statements. Two attempts give
one retry and one giving up, `max_attempts` being 3 for every row in the code. `MinPriority` stands
for `i64::MIN` so that saturation happens. `MaxRestarts`, `MaxLost` and `MaxSpawned` bound counters
that would grow without end; all are parameters, and the proofs do not depend on them. The rows of
one chapter and the workers of one queue are interchangeable, which the safety runs use as symmetry;
the liveness runs use none. `gate` configures a provider with 0 workers, which the code clamps to 1;
the browser gate starts at 1 and is set to 1 or 2. In the four modules that follow, `MaxEdits`
bounds how often anything from outside (a request, a failure, a crash)
happens in a behaviour, and `Edits` says which kinds do; every race of two processes needs no more
than one such step to start each of them and one to come in between. New
chapters on a page and what the scheduler starts are not counted. `canonical` and `catalogue` use the
symmetry of their processes.

**Deadlock** is checked in the runs of the queue, the downloads, the gates and the canonical list,
where there is always something a user or time may do, so what these runs show of liveness is in the
leads-to properties. It is not in `sync`, `disk` and `catalogue`, which rest once the bound on
edits is used up and the work is done.

## Fairness and timing

Weak fairness of each worker's loop, of a handler that has begun, of backoffs and of spawned
releases: tokio runs every task that can go on. A dispatch ends, since provider calls, page loads
and image fetches have timeouts. Nothing is assumed of users, crashes or errors. `EveryTaskSettles`
is under the condition that the queue is in the end neither paused nor shutting down, excepts by name the
row that a failed write or a failed startup reset leaves Running, and speaks of
queues that have a worker: the instance gives each queue one. In the code the queue of a provider
that is not loaded, or is configured with 0 workers, has none. `GateKeepsMoving` is checked with the
safety of the gates, under `FairSpec`: no fairness of limit changes or aborts. The
four later modules state no liveness: that their tasks are run and end is `EveryTaskSettles`.

One timing assumption, in `BackoffEnds`: the handler of a cancel fires its token, a few statements
after it has written the row, before the backoff of that row ends, a minute or more. Without it a
token of a later run of the row could be fired by an earlier cancel.

## Proofs

TLAPS proves, for any number of tasks, workers, queues, chapters, providers, series, requests and
callers, and for any value of the bounds, every invariant and every action property that the passing
runs check, and the refinement of `TaskLease`. Each proof has the same plan: an inductive invariant that
implies the properties, checked to hold initially and to survive each action, one step of the proof per
action. The properties themselves are seldom inductive; what has to be added is mostly what a process
holds between two of its statements.

- `TaskQueueProofs`. `QueueInv` is `TypeOK` with the properties and what ties them together: what each
  `pc` says about `held` and `outcome`, that a held row is neither new, Pending, Completed nor Failed,
  and that the `CancelMap` has entries of dispatches only. That last but one is what makes `complete`,
  which does not look at the status, harmless: a row in some worker's hands can only have been
  cancelled or deleted. `RunningIsOwned` needs one more conjunct (`OwnInv`): the rows a reset handler
  has read, and not yet fired, belong to the chapter whose rows it will cancel. `QueueImplementsLease`
  shows that each step is one of the lease's (`CloseStep`, `OfferStep`, `TakeStep`, `ReleaseStep`,
  `RestartStep`) or changes none of its variables. `EndedStaysEnded` and
  `RetentionTakesHistoryOnly` are about steps and follow from `QueueInv` as it is; the latter needs, for
  the floor, the newest of the rows that a sweep takes (`SweepLeavesFloor`): whatever is newer than that
  one stays, and `min_keep` rows are.
- `TaskPromotionProofs`. `PromotedRowsGoFirst`, from `OvertakenInv`: whatever was overtaken has a
  greater priority value than the row promoted over it (or the least one is reached) for as long as that
  row is Pending. A claim takes a least value, so it cannot take the overtaken one.
- `ConcurrencyGateProofs`. `GateInv` adds to the type invariant where a caller can be while it holds
  which permits (`PlaceInv`); counting (`SlotsAccounted`) then follows action by action from the
  cardinality of the holders, which needs `Callers` finite.
- `ChapterDownloadProofs`. `DownloadImplementsQueue`: each step of the composition is a step of
  `TaskQueue` or leaves its variables alone, so all that is proved of the queue holds of it, and `QueueInv`
  may be used here. `DownloadingChaptersWorkedOn` needs to know which worker owes which chapter a
  status: `ChapterInv` says that a chapter shown as Downloading has a worker on it or, once the daemon
  has been restarted, a task that is still to come back, was cancelled or lost its last write.
- `ProviderSyncProofs`. `RowInv`: what a sync holds as new is in the table, unless its provider was
  switched, and is no backlog of a first read (`NoMassDownload`). `FreshInv` follows the foremost new
  chapter of each number: it has a download, or one of the named causes applies, or it is in the hands of
  a sync that will queue it. `CanonInv`: whoever changes rows or settings owes (`Owes`) an update of the
  canonical list, and a restart that cuts such a process off is the exception. That
  the `CHOOSE` of `Best` has an answer, for any set of providers, rests on the well-foundedness of
  their ranks.
- `CanonicalProofs`. Choices surviving (`ChoicesSurvive`) rests on `LateInv`: whoever is to write
  overrides holds every choice that was made before he read them, and those made since are in `late`;
  and on `DisplacedIsReplaced`: what a choice removes is what its user means to replace. The three properties of the list follow from `FreshInv`: a list that is up to date could
  be computed by `update_canonical` from the rows, flags, overrides and providers there are now, though
  it was computed from what was read some steps earlier. What such a list promises is then a matter of
  the operators alone, and the lemmas say it of each: every contested slot is won (`SlotIsWon`,
  `WinnersAreSome`), by releases of different numbers (`WinnersDiffer`), a choice evicts only what it
  competes with (`GroupCompetes`), the first of each group stays (`OneFirst`). Ties, the order
  of the choices and the values of the scores are left open: the proof holds for any scores.
- `DiskScanProofs`. `SteadyInv`: a file that lay there since the listing is still to be read, in hand, or
  its row is remembered. `CalmInv`: as long as nothing else happens, what is remembered is exactly what
  the ComicInfos say. `FilesAreSpared` follows from both. `KeepInv` follows the file of each Downloaded row, and of each row about to be marked
  so, through everything that writes, renames or removes files.
- `SeriesCatalogProofs`. `TitleInv` and `CoverInv` say of each copy of a row in flight that it is either
  known to be old or has what the user wants, and points at a cover that is there. `SuggestInv` says of
  each listed series that the suggestions know it, that a refresh which will read it is waiting or under
  way, or that it is excused. `HintInv`, for `HiddenSuggestionsStay`: what a refresh takes for hidden is so
  still, or is known to have changed since it was read.

The assumptions are the named `ASSUME`s of the modules: shapes of the constants, absent values that
are no members of their sets, distinct processes, positive numbers of tries, finite sets of tasks, of
callers and of the workers of the catalogue (they are counted), and ranks without ties, a local row for
each number, in the modules that reduce the choice of a release to a rank. TLC evaluates them in the
runs.

**What the proofs changed.** Three properties turned out to hold only within the bounds of their runs,
and say now what is true of the code:

- `NewChaptersAreQueued`: of three syncs that overlap, one may store a canonical list that is out of
  date when another looks for what is new and canonical. The property excuses the numbers for which a
  stale list was stored (hazard of `scheduler/worker.rs:309`). Another of its exceptions needs no
  overlap: a chapter that a preferred provider's first sync brought as well is canonical by that row,
  which is not downloaded, and so is never downloaded by itself.
- `HiddenStays`: of two refreshes that overlap, the second may carry what was hidden from before the
  first. A job remembers in `late` what changed after it was read (hazard of `db/suggestions.rs:178`).
- `NoDoubles` and `EveryChapterHasOne`: a Downloaded row that stays because upgrades are disabled is
  not evicted by a choice when its provider is disabled, and takes the place of a row that is marked as
  an extra when it is not, or the other way round. `Current` came of the same proof: the code keeps
  one row per number, where the model used to keep all of them.

**Only model-checked** are the liveness properties `EveryTaskSettles`, `NoChapterStaysDownloading` and
`GateKeepsMoving`, since liveness under fairness and ENABLED are out of the prover's reach, and the four
properties that the code violates. Induction over data is out of reach too: that the sum of the scores
of a release (a fold) is the one the rules give is evaluated by TLC, and no proof depends on it. No
recursive operator is declared.

## Disagreements with the documentation

- **chapter_cancel.** `src/docs/CHANGELOG.md:280` says that cancelling a chapter stops the download
  and resets it to Missing. Between the commit of a claim and the publication of the token there is
  nothing to fire: the download runs to its end and the chapter becomes Downloaded.
- **chapter_upgrade.** `src/src/scraper/downloader.rs:1168` says that the cleanup only removes
  worse variants. It removes the first file with the chapter's number in its name, which is the one
  just written whenever the two entries have the same title or none; "Chapter 1" is a prefix of
  "Chapter 10" besides.
- **disk_purge.** `src/src/importer/mod.rs:764` says that an imported file is named by the
  downloader's convention, and `src/src/library/scanner.rs:321` that the purge deletes files of no
  Downloaded chapter. The importer appends ` [group]`, the downloader never does: the purge deletes
  the imported files of every entry that has a group.

- **disk_plain.** `src/src/library/scanner.rs:17-18` says that the chapters of the files found are
  updated to Downloaded, or inserted as such ("useful for pre-existing files"). A file without ComicInfo
  marks its chapter Downloaded, or has a local row inserted, but is not among the `found_ids`; the end of
  the same scan therefore marks the chapter Missing again, or deletes the row.

Seen on the way and not made into runs: `src/src/db/task.rs:970` says a promoted task "will be
claimed before all other Pending tasks", but one that waits out a backoff is passed over;
`web/js/views/settings.js:120` says that `best_only` tries only the top-ranked release, yet entries
without a loaded provider are passed over in that mode too; `download_chapter_api` marks Queued a
chapter whose task may have ended already; a daemon that dies after a task was cancelled and before
its download noticed leaves the chapter Downloading for good (`Abandoned`);
`find_upgrade_candidates` describes its result as Missing or Failed, and returns Downloaded ones as
well, which are then downloaded again.

In the canonical list: two releases of one part may both be canonical (`db/chapter.rs:726` says one
is picked); an override is to survive future scans (`db/chapter.rs:1178`), but deleting
any entry of the series, by a request or at the end of a disk scan, drops them all (`INSERT OR REPLACE`
without the column, `db/chapter.rs:1382-1390`), and writers that overlap overwrite each other's, which
`OverrideSurvives` therefore excepts; `db/chapter.rs:1262-1267` says that choosing a whole or split
chapter leaves the choices of extras alone, but a choice of a part that was marked as an extra is cleared;
`update_canonical` ignores the preferred language it is given; with upgrades disabled, a Downloaded
row whose provider is disabled stays canonical beside a row of its number that the user chose, since
choices evict only what the filters leave (`db/chapter.rs:1006`). In the sync: a provider that was
switched off globally stays off, as the upsert adds a row each time (NULL never conflicts in a UNIQUE
key); the scheduler asks disabled providers too; `provider_failure::record` is never called; the
version of a provider is stored before its syncs are queued. In the catalogue: a refresh replaces a cover that the user
uploaded (`scheduler/worker.rs:624` speaks of a changed URL only); a refresh of a deleted series
makes its directory anew; imported series get no refresh of metadata or suggestions; adding a series
to a second library fails at the primary key after its cover was written; `docs/CHANGELOG.md:188`
says that completed series are unmonitored, which `update_metadata` does not write.

## What is left out

- In `TaskQueue`: the payload, which is in `ProviderSync`; a claim that fails because the database
  is busy (it changes nothing and is retried); a row that cannot be decoded after its claim was
  committed, which would stay Running until a restart; a panic in a dispatch, which ends that
  worker.
- In `ChapterDownload`: failing database writes of the download itself; deleting entries; the tiers
  of the image fetch, which end in success, an error or a cancellation; more than one slot, a split
  chapter and its parts. Looking for a Pending task and promoting it is taken as one step.
- In `ConcurrencyGate`: `await_rate_limit`, which the governor crate decides; the order of the wait
  list. Rocket does not abort handlers of clients that disconnect, so only the two `JoinSet`s of
  `manga/merge.rs` abort callers. A caller aborted between its wake-up and the lock takes the
  wake-up with it (`swallowed`), and the properties say so.
- In `ProviderSync`: ranking of titles (a search matches the page that the instance says, `Hit`,
  which may be the wrong one, or none); `provider_data`; upgrades; `skip_ids`; scores (a fixed rank per
  provider); chapters of several languages.
- In `Canonical`: more than one series; how a condition is worded. Numbers, parts and rules are
  given by the instance, which has no metadata rule.
- In `DiskScan`: the XML, page images; the number of a file that cannot be parsed, which the scan
  skips. Writers that find the file replaced under them write into the old inode, that is, nothing.
- In `SeriesCatalog`: tags, dates and other columns that are only copied; a second library. That
  writing the ComicInfo of a series fails when it is added or imported is logged only and left out; when
  it fails in a refresh, the refresh does (`ComicFails`).
- The provider engine (`scraper/engine.rs`) interprets steps of a provider file on state of one
  call: it is sequential parsing, and its results are the nondeterministic answers of the modules
  above. The browser pool's sweep depends on what Chromium reports. `main.rs` is a command line that
  calls the functions modelled here, one at a time.
- The other parts listed as `not_modelled` in `PROJECT.json`, with their reasons.

## Plan

1. `TaskLease`, `TaskQueue`, `TaskPromotion`, their runs and proofs: done.
2. `ConcurrencyGate`, its runs and proofs: done.
3. `ChapterDownload` over `TaskQueue`, its runs and proofs: done.
4. `ProviderSync`, `Canonical`, `DiskScan`, `SeriesCatalog`, their runs and proofs: done.
5. Left: more about what is modelled rather than more modules. Action properties of the download (a
   chapter becomes Downloaded only by a worker that has written its file, or by hand); the exceptions
   of `SuggestionsKnowAll` once more, each of which should come with a behaviour that needs it; a second
   `Canonical` run for the overrides that deleted entries drop; the safety part of the liveness properties (what each waiting
   process waits for), from which the temporal argument is short.
