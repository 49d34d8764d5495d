------------------------------- MODULE DiskScan -------------------------------
(***************************************************************************)
(* The directory of one series and the rows that say what is in it: the    *)
(* disk scan and the purge of orphans (src/library/scanner.rs), the        *)
(* optimiser (src/scheduler/optimiser.rs), the ComicInfo that is rewritten *)
(* after a refresh (src/manga/comicinfo.rs, src/scheduler/worker.rs), the  *)
(* file names (src/manga/files.rs), against downloads, deletions and what  *)
(* the user does to the directory by hand.                                 *)
(*                                                                         *)
(* The name of a file is a number and what follows it: nothing, a title,   *)
(* or the group that only the importer (src/importer/mod.rs) appends.      *)
(* Which row is canonical is a ranking here (see Canonical); the steps of  *)
(* a download before it writes its file are those of ChapterDownload.      *)
(***************************************************************************)
EXTENDS Integers, FiniteSets

CONSTANTS
  Rows,       (* chapter rows that a provider or a file may bring          *)
  Local,      (* those without a provider                                  *)
  Numbers,
  NumberOf,   (* the number of each row                                    *)
  Rank,       (* how update_canonical orders the rows of a number          *)
  NoRow,      (* the row of a file without a readable ComicInfo            *)
  System,     (* the worker of the system queue: scan, optimise, refresh   *)
  Loader,     (* a worker of a provider queue: downloads                   *)
  Api,        (* a request: deletes a file, purges orphans, imports        *)
  Edits,      (* the kinds of change from outside that occur               *)
  MaxEdits    (* bound: those changes, and tasks and requests begun        *)

ASSUME DiskAssumption ==
  /\ Local \subseteq Rows /\ NumberOf \in [Rows -> Numbers]
  /\ \A n \in Numbers : \E r \in Local : NumberOf[r] = n
  /\ Rank \in [Rows -> Nat] /\ NoRow \notin Rows
  /\ \A r, q \in Rows : NumberOf[r] = NumberOf[q] /\ Rank[r] = Rank[q] => r = q
  /\ System # Loader /\ System # Api /\ Loader # Api
  /\ MaxEdits \in Nat

Procs == {System, Loader, Api}
Names == Numbers \X {"plain", "titled", "grouped"}

VARIABLES
  disk,    (* the files: the row in its ComicInfo, whole, webp              *)
  rows,    (* Chapters                                                      *)
  titled,  (* those with a title                                            *)
  have,    (* those that are Downloaded                                     *)
  list,    (* the canonical ones                                            *)
  job,     (* what each process is doing                                    *)
  edits,   (* changes so far                                                *)
  ghost    (* what happened, for the properties                             *)

table == <<rows, titled, have, list>>
vars  == <<disk, table, job, edits, ghost>>

NoFile == [row |-> NoRow, whole |-> FALSE, webp |-> FALSE, there |-> FALSE]
File(r, whole, webp) == [row |-> r, whole |-> whole, webp |-> webp, there |-> TRUE]
Contents == [row : Rows \cup {NoRow}, whole : BOOLEAN, webp : BOOLEAN, there : BOOLEAN]
There == {f \in Names : disk[f].there}

Idle == [at |-> "idle", row |-> NoRow, name |-> <<>>, todo |-> {},
         found |-> {}, copy |-> NoFile]

Init ==
  /\ disk = [f \in Names |-> NoFile]
  /\ rows = Rows \ Local /\ titled = {} /\ have = {}
  /\ list = {r \in rows : \A q \in rows : NumberOf[q] = NumberOf[r] => Rank[q] <= Rank[r]}
  /\ job = [p \in Procs |-> Idle]
  /\ edits = 0
  /\ ghost = [steady |-> {},      (* files unchanged since the scan listed them *)
              calm |-> FALSE,     (* nothing else happened since then           *)
              exact |-> FALSE,    (* ... until the scan ended, nor after        *)
              lost |-> {}]        (* rows whose file others may have taken      *)

(* chapter_base_name: "Chapter 5", or "Chapter 5 - Title".                 *)
Name(r) == <<NumberOf[r], IF r \in titled THEN "titled" ELSE "plain">>

(* update_canonical over rows R.                                           *)
Best(R) == {r \in R : \A q \in R : NumberOf[q] = NumberOf[r] => Rank[q] <= Rank[r]}

Step(p, changes) == job' = [job EXCEPT ![p] = changes]
Goto(p, at)      == Step(p, [job[p] EXCEPT !.at = at])

Edit(kind) == kind \in Edits /\ edits < MaxEdits /\ edits' = edits + 1

(* A change that is not the scan's: of a file, or of the rows.             *)
Touch(f) == ghost' = [ghost EXCEPT !.steady = @ \ {f}, !.calm = FALSE, !.exact = FALSE]
(* Rows that lose their file, or may not keep it, when one is removed: a   *)
(* download, an import or a scan marks its row afterwards all the same.     *)
InScan == job[System].at \in {"scan", "apply", "drop"}
Owners(f) == {r \in have : f = Name(r) \/ r = disk[f].row}
Coming(f) ==
  {job[p].row : p \in {q \in {Loader, Api} : f = job[q].name \/ disk[f].row = job[q].row}}
             \cup (IF InScan THEN {r \in Rows : NumberOf[r] = f[1]} ELSE {})

(* A file that row r's takes the place of.                                 *)
Cover(f, r) ==
  ghost' = [ghost EXCEPT !.steady = @ \ {f}, !.calm = FALSE, !.exact = FALSE,
              !.lost = @ \cup ((Owners(f) \cup Coming(f)) \ {r})]
Disturb  == ghost' = [ghost EXCEPT !.calm = FALSE, !.exact = FALSE]

-----------------------------------------------------------------------------
(* scan_existing_chapters                                                  *)

ScanList ==
  /\ Edit("scan") /\ job[System] = Idle
  /\ Step(System, [Idle EXCEPT !.at = "scan", !.todo = There])
  /\ ghost' = [ghost EXCEPT !.steady = There, !.calm = TRUE, !.exact = FALSE]
  /\ UNCHANGED <<disk, table>>

(* The directory of the series is not there: nothing is reconciled.        *)
ScanNowhere ==
  /\ Edit("scan") /\ job[System] = Idle /\ There = {}
  /\ UNCHANGED <<disk, table, job, ghost>>

(* read_cbz_comicinfo gives nothing when there is none, or no whole file.  *)
ScanRead(f) ==
  /\ job[System].at = "scan" /\ f \in job[System].todo
  /\ Step(System, [job[System] EXCEPT !.at = "apply", !.todo = @ \ {f}, !.name = f,
                     !.row = IF disk[f].whole THEN disk[f].row ELSE NoRow])
  /\ UNCHANGED <<disk, table, edits, ghost>>

(* Mutant: the row is marked but not remembered as found.                  *)
Forget(found, r) == found

Remember(found, r) == found \cup {r}

(* The row that the ComicInfo names is inserted and Downloaded. A new row  *)
(* takes its title from there, where it agrees with the name of the file.  *)
ScanKnown ==
  /\ job[System].at = "apply" /\ job[System].row # NoRow
  /\ LET r == job[System].row
     IN  /\ rows' = rows \cup {r}
         /\ have' = have \cup {r}
         /\ titled' = IF r \notin rows /\ job[System].name[2] = "titled"
                      THEN titled \cup {r} ELSE titled
         /\ Step(System, [job[System] EXCEPT !.at = "scan", !.row = NoRow,
                            !.name = Idle.name, !.found = Remember(@, r)])
  /\ UNCHANGED <<disk, list, edits, ghost>>

(* Without a ComicInfo the canonical row of the number is Downloaded, or a *)
(* local one is inserted. Neither is remembered as found.                  *)
ScanPlain ==
  /\ job[System].at = "apply" /\ job[System].row = NoRow
  /\ LET C == {r \in list : NumberOf[r] = job[System].name[1]}
     IN  IF C # {} THEN have' = have \cup C /\ UNCHANGED rows
         ELSE \E r \in Local :
                /\ NumberOf[r] = job[System].name[1]
                /\ rows' = rows \cup {r}
                /\ have' = IF r \in rows THEN have ELSE have \cup {r}
  /\ Step(System, [job[System] EXCEPT !.at = "scan", !.name = Idle.name])
  /\ UNCHANGED <<disk, titled, list, edits, ghost>>

(* get_downloaded, less the rows found.                                    *)
Gather(found) == have \ found

ScanReconcile ==
  /\ job[System].at = "scan" /\ job[System].todo = {}
  /\ Step(System, [job[System] EXCEPT !.at = "drop", !.found = Gather(@)])
  /\ UNCHANGED <<disk, table, edits, ghost>>

(* Mutant: the row is deleted, its place in the list stays.                *)
DropRowOnly(r) ==
  /\ rows' = rows \ {r} /\ titled' = titled \ {r} /\ have' = have \ {r}
  /\ UNCHANGED list

(* db::chapter::delete                                                     *)
DropRow(r) ==
  /\ rows' = rows \ {r} /\ titled' = titled \ {r} /\ have' = have \ {r}
  /\ list' = list \ {r}

ScanDrop(r) ==
  /\ job[System].at = "drop" /\ r \in job[System].found
  /\ IF r \in Local THEN DropRow(r)
     ELSE have' = have \ {r} /\ UNCHANGED <<rows, titled, list>>
  /\ Step(System, [job[System] EXCEPT !.found = @ \ {r}])
  /\ UNCHANGED <<disk, edits, ghost>>

ScanEnd ==
  /\ job[System].at = "drop" /\ job[System].found = {}
  /\ list' = Best(rows)
  /\ Step(System, Idle)
  /\ ghost' = [ghost EXCEPT !.exact = ghost.calm, !.calm = FALSE, !.steady = {},
                            !.lost = IF ghost.calm THEN @ \cap {job[Loader].row, job[Api].row} ELSE @]
  /\ UNCHANGED <<disk, rows, titled, have, edits>>

-----------------------------------------------------------------------------
(* optimise_chapter: the file it looks for has no title in its name.       *)

OptimiseRead(r) ==
  /\ Edit("optimise") /\ job[System] = Idle /\ r \in list
  /\ LET f == <<NumberOf[r], "plain">>
     IN  /\ disk[f].whole /\ ~disk[f].webp
         /\ Step(System, [Idle EXCEPT !.at = "pack", !.name = f, !.copy = disk[f]])
  /\ UNCHANGED <<disk, table, ghost>>

(* repack_cbz_webp: fs::write truncates the file and fills it again.       *)
OptimiseOpen ==
  /\ job[System].at = "pack"
  /\ disk' = [disk EXCEPT ![job[System].name] = File(job[System].copy.row, FALSE, TRUE)]
  /\ Goto(System, "fill")
  /\ Cover(job[System].name, job[System].copy.row)
  /\ UNCHANGED <<table, edits>>

OptimiseFill ==
  /\ job[System].at = "fill"
  /\ disk' = IF disk[job[System].name] = File(job[System].copy.row, FALSE, TRUE)
             THEN [disk EXCEPT ![job[System].name] = File(job[System].copy.row, TRUE, TRUE)]
             ELSE disk
  /\ Step(System, Idle)
  /\ Touch(job[System].name)
  /\ UNCHANGED <<table, edits>>

(* rewrite_downloaded_comicinfo: for a row whose file is there and says    *)
(* something else than the series and the row do now.                      *)
RewriteRead(r) ==
  /\ Edit("refresh") /\ job[System] = Idle
  /\ r \in have /\ disk[Name(r)].whole
  /\ Step(System, [Idle EXCEPT !.at = "rename", !.row = r, !.name = Name(r),
                               !.copy = disk[Name(r)]])
  /\ UNCHANGED <<disk, table, ghost>>

(* The new file is written beside the old one and renamed over it. Its     *)
(* ComicInfo is that of the row, its pages are those that were read.       *)
RewriteRename ==
  /\ job[System].at = "rename"
  /\ disk' = [disk EXCEPT ![job[System].name] =
                File(job[System].row, TRUE, job[System].copy.webp)]
  /\ Step(System, Idle)
  /\ Cover(job[System].name, job[System].row)
  /\ UNCHANGED <<table, edits>>

-----------------------------------------------------------------------------
(* The end of a download: write_cbz, then the status. Who writes into a    *)
(* file that was removed meanwhile, or replaced, writes nothing.           *)

DownloadOpen(r) ==
  /\ Edit("download") /\ job[Loader] = Idle /\ r \in list \ (have \cup Local)
  /\ disk' = [disk EXCEPT ![Name(r)] = File(r, FALSE, FALSE)]
  /\ Step(Loader, [Idle EXCEPT !.at = "write", !.row = r, !.name = Name(r)])
  /\ Cover(Name(r), r)
  /\ UNCHANGED table

DownloadWrite ==
  /\ job[Loader].at = "write"
  /\ disk' = IF disk[job[Loader].name] = File(job[Loader].row, FALSE, FALSE)
             THEN [disk EXCEPT ![job[Loader].name] = File(job[Loader].row, TRUE, FALSE)]
             ELSE disk
  /\ Goto(Loader, "mark")
  /\ Touch(job[Loader].name)
  /\ UNCHANGED <<table, edits>>

(* The download does not look whether its file is still there.             *)
DownloadMark ==
  /\ job[Loader].at = "mark"
  /\ have' = have \cup ({job[Loader].row} \cap rows)
  /\ Step(Loader, Idle)
  /\ Disturb
  /\ UNCHANGED <<disk, rows, titled, list, edits>>

-----------------------------------------------------------------------------
(* Requests.                                                               *)

Remove(f, excused) ==
  /\ disk' = [disk EXCEPT ![f] = NoFile]
  /\ ghost' = [ghost EXCEPT !.steady = @ \ {f}, !.calm = FALSE, !.exact = FALSE,
                            !.lost = @ \cup excused]

(* delete_chapter_api: the file of a Downloaded row goes, and then the row *)
(* is Missing. A file of the same name may be another row's.               *)
DeleteFile(r) ==
  /\ Edit("delete") /\ job[Api] = Idle /\ r \in list
  /\ IF r \in have THEN Remove(Name(r), (Owners(Name(r)) \ {r}) \cup Coming(Name(r)))
     ELSE UNCHANGED <<disk, ghost>>
  /\ Step(Api, [Idle EXCEPT !.at = "missing", !.row = r])
  /\ UNCHANGED table

(* Mutant: the row keeps its status.                                       *)
LeaveStatus ==
  /\ job[Api].at = "missing"
  /\ Step(Api, Idle) /\ Disturb
  /\ UNCHANGED <<disk, table, edits>>

DeleteMark ==
  /\ job[Api].at = "missing"
  /\ have' = have \ {job[Api].row}
  /\ Step(Api, Idle) /\ Disturb
  /\ UNCHANGED <<disk, rows, titled, list, edits>>

(* purge_orphan_cbz: the directory is opened and the names of Downloaded   *)
(* rows are read; the files found while walking are compared with these.   *)
PurgeList ==
  /\ Edit("purge") /\ job[Api] = Idle
  /\ Step(Api, [Idle EXCEPT !.at = "purge", !.todo = There, !.found = {Name(r) : r \in have}])
  /\ UNCHANGED <<disk, table, ghost>>

PurgeFile(f) ==
  /\ job[Api].at = "purge" /\ f \in There \ job[Api].found
  /\ Remove(f, Owners(f) \cup Coming(f))
  /\ Step(Api, [job[Api] EXCEPT !.todo = @ \ {f}])
  /\ UNCHANGED <<table, edits>>

PurgeEnd ==
  /\ job[Api].at = "purge" /\ (job[Api].todo \cap There) \ job[Api].found = {}
  /\ Step(Api, Idle)
  /\ UNCHANGED <<disk, table, edits, ghost>>

(* process_single_import: the file is written aside and renamed to the     *)
(* stem that cbz_stem makes; the source is outside, or another file here.  *)
ImportRename(f, r, g) ==
  /\ Edit("import") /\ job[Api] = Idle /\ NumberOf[r] = f[1]
  /\ g = f \/ (disk[g].whole /\ disk[g].row \in {r, NoRow})
  /\ disk' = [disk EXCEPT ![f] = File(r, TRUE, FALSE)]
  /\ Step(Api, [Idle EXCEPT !.at = "import", !.row = r, !.name = f, !.todo = {g} \ {f}])
  /\ Cover(f, r)
  /\ UNCHANGED table

(* The source goes, and the row is inserted as Downloaded if it is new; a  *)
(* row that was there waits for the scan that is queued with it.           *)
ImportRow ==
  /\ job[Api].at = "import"
  /\ LET r == job[Api].row
         gone == job[Api].todo
     IN  /\ disk' = [f \in Names |-> IF f \in gone THEN NoFile ELSE disk[f]]
         /\ rows' = rows \cup {r}
         /\ have' = IF r \in rows THEN have ELSE have \cup {r}
         /\ titled' = IF r \notin rows /\ job[Api].name[2] = "titled"
                      THEN titled \cup {r} ELSE titled
         /\ ghost' = [ghost EXCEPT !.steady = @ \ gone, !.calm = FALSE, !.exact = FALSE,
              !.lost = @ \cup (UNION {(Owners(f) \cup Coming(f)) \ {r} : f \in gone})]
  /\ Step(Api, Idle)
  /\ UNCHANGED <<list, edits>>

-----------------------------------------------------------------------------
(* What comes from outside.                                                *)

(* The user puts a file there, with or without a ComicInfo, or takes one.  *)
Put(f, r) ==
  /\ Edit("put") /\ f \notin There
  /\ r \in {q \in Rows : NumberOf[q] = f[1]} \cup {NoRow}
  /\ disk' = [disk EXCEPT ![f] = File(r, TRUE, FALSE)]
  /\ Touch(f)
  /\ UNCHANGED <<table, job>>

Take(f) ==
  /\ Edit("take") /\ f \in There
  /\ Remove(f, Owners(f) \cup Coming(f))
  /\ UNCHANGED <<table, job>>

(* upsert_from_scrape fills in a title that was missing.                   *)
Backfill(r) ==
  /\ Edit("title") /\ r \in rows \ (titled \cup Local)
  /\ titled' = titled \cup {r}
  /\ ghost' = [ghost EXCEPT !.calm = FALSE, !.exact = FALSE,
                 !.lost = @ \cup (({r} \cap have) \cup ({r} \cap {job[Loader].row}))]
  /\ UNCHANGED <<disk, rows, have, list, job>>

(* A crash in the middle of a write in place leaves the file torn.         *)
Crash ==
  /\ Edit("crash")
  /\ job' = [p \in Procs |-> Idle]
  /\ ghost' = [ghost EXCEPT !.steady = {}, !.calm = FALSE, !.exact = FALSE,
                 !.lost = @ \cup ({job[Api].row} \ {NoRow})
                            \cup (IF InScan THEN have ELSE {})]
  /\ UNCHANGED <<disk, table>>

Next ==
  \/ ScanList \/ ScanNowhere \/ ScanKnown \/ ScanPlain \/ ScanReconcile \/ ScanEnd
  \/ \E f \in Names : ScanRead(f) \/ PurgeFile(f) \/ Take(f)
  \/ \E r \in Rows : \/ ScanDrop(r) \/ OptimiseRead(r) \/ RewriteRead(r)
                     \/ DownloadOpen(r) \/ DeleteFile(r) \/ Backfill(r)
  \/ OptimiseOpen \/ OptimiseFill \/ RewriteRename
  \/ DownloadWrite \/ DownloadMark
  \/ DeleteMark \/ PurgeList \/ PurgeEnd
  \/ \E f, g \in Names, r \in Rows : ImportRename(f, r, g)
  \/ ImportRow
  \/ \E f \in Names, r \in Rows \cup {NoRow} : Put(f, r)
  \/ Crash

Spec == Init /\ [][Next]_vars

-----------------------------------------------------------------------------
(* Properties.                                                             *)

TypeOK ==
  /\ disk \in [Names -> Contents]
  /\ rows \in SUBSET Rows
  /\ titled \in SUBSET rows /\ have \in SUBSET rows /\ list \in SUBSET rows
  /\ edits \in 0..MaxEdits

(* A scan never takes for missing a chapter whose file lies there from     *)
(* before its listing on, whatever happens to other files and rows; and    *)
(* after a scan that nothing disturbed such a chapter is Downloaded. (The  *)
(* chapter that the ComicInfo names: of files without one, FilesAreMarked  *)
(* says what the scan is to do.)                                           *)
ScanSparesFiles ==
  /\ job[System].at = "drop" =>
       \A f \in ghost.steady : disk[f].whole => disk[f].row \notin job[System].found
  /\ ghost.exact =>
       \A f \in There : disk[f].whole /\ disk[f].row # NoRow => disk[f].row \in have

(* "Chapters that exist in the DB are updated to Downloaded. Chapters that *)
(* don't exist yet are inserted as Downloaded (useful for pre-existing     *)
(* files)": after a scan that nothing disturbed, the chapter of every file *)
(* has a Downloaded release.                                               *)
FilesAreMarked ==
  ghost.exact => \A f \in There : \E r \in have : NumberOf[r] = f[1]

(* At rest a Downloaded chapter has a file, by its name or by what the     *)
(* ComicInfo says, except where this code lets go of it: two rows with one *)
(* file name, a title filled in afterwards, a purge that read the names    *)
(* before, an optimiser that writes an old copy over a new file, a scan or *)
(* a deletion that a crash cut off, or the user's hand.                    *)
DownloadedHasFile ==
  (\A p \in Procs : job[p] = Idle) =>
    \A r \in have : \/ r \in ghost.lost \/ Name(r) \in There
                   \/ \E f \in There : disk[f].row = r

(* The purge deletes files "that do not match any Downloaded chapter in    *)
(* the database": never the one that the ComicInfo says is such a chapter. *)
PurgeSparesDownloads ==
  [][\A f \in There : job[Api].at = "purge" /\ disk'[f] = NoFile
                         => disk[f].row \notin have]_vars
==============================================================================
