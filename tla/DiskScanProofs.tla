---------------------------- MODULE DiskScanProofs ----------------------------
(***************************************************************************)
(* What the scan promises, for any rows, numbers and changes from outside. *)
(*                                                                         *)
(* BaseInv has the types, what each process has in hand, and that a file   *)
(* only ever holds a row of its own number. ScanInv follows the scan: each *)
(* file that lay there from the listing on is still to be read, in hand,   *)
(* or its row is remembered; and as long as nothing else happens, what is  *)
(* remembered is exactly what the files say. KeepInv follows the files of  *)
(* Downloaded rows, and of rows about to be marked so, through all that    *)
(* replaces and removes files: whoever may lose one is counted as lost, is *)
(* being deleted, or is what the running scan has yet to find out.         *)
(***************************************************************************)
EXTENDS DiskScan, TLAPS

Places == {"idle", "scan", "apply", "drop", "pack", "fill", "rename", "write",
           "mark", "missing", "purge", "import"}
JobType == [at : Places, row : Rows \cup {NoRow}, name : Names \cup {<<>>},
            todo : SUBSET Names, found : SUBSET (Rows \cup Names), copy : Contents]
GhostType == [steady : SUBSET Names, calm : BOOLEAN, exact : BOOLEAN,
              lost : SUBSET (Rows \cup {NoRow})]

(* A file of this name may hold this row.                                  *)
Fits(r, f) == r = NoRow \/ (r \in Rows /\ NumberOf[r] = f[1])

SystemOK ==
  /\ job[System].at \in {"idle", "scan", "apply", "drop", "pack", "fill", "rename"}
  /\ job[System].at = "idle" => job[System] = Idle
  /\ InScan => job[System].found \subseteq Rows
  /\ job[System].at \in {"apply", "pack", "fill", "rename"} => job[System].name \in Names
  /\ job[System].at \in {"apply", "rename"} => Fits(job[System].row, job[System].name)
  /\ job[System].at = "rename" => job[System].row # NoRow
  /\ job[System].at \in {"pack", "fill"} => Fits(job[System].copy.row, job[System].name)

LoaderOK ==
  /\ job[Loader].at \in {"idle", "write", "mark"}
  /\ job[Loader].at = "idle" => job[Loader] = Idle
  /\ job[Loader].at \in {"write", "mark"} =>
       /\ job[Loader].name \in Names /\ job[Loader].row \in Rows
       /\ Fits(job[Loader].row, job[Loader].name)

ApiOK ==
  /\ job[Api].at \in {"idle", "missing", "purge", "import"}
  /\ job[Api].at = "idle" => job[Api] = Idle
  /\ job[Api].at = "import" =>
       /\ job[Api].name \in Names /\ job[Api].row \in Rows
       /\ Fits(job[Api].row, job[Api].name) /\ job[Api].name \notin job[Api].todo
  /\ job[Api].at = "missing" => job[Api].row \in Rows

FileOK == \A f \in Names : Fits(disk[f].row, f) /\ (disk[f].there \/ disk[f] = NoFile)

BaseInv ==
  /\ TypeOK
  /\ job \in [Procs -> JobType] /\ ghost \in GhostType
  /\ SystemOK /\ LoaderOK /\ ApiOK /\ FileOK

USE DiskAssumption

LEMMA BaseInit == Init => BaseInv
<1>1. ASSUME Init  PROVE BaseInv
  <2>1. Idle \in JobType /\ NoFile \in Contents
    BY DEF Idle, JobType, Places, NoFile, Contents
  <2>2. TypeOK /\ FileOK
    BY <1>1, <2>1 DEF Init, TypeOK, FileOK, Fits, NoFile
  <2>3. job \in [Procs -> JobType] /\ \A p \in Procs : job[p] = Idle
    BY <1>1, <2>1 DEF Init
  <2>4. SystemOK /\ LoaderOK /\ ApiOK
    BY <2>3 DEF SystemOK, LoaderOK, ApiOK, InScan, Procs, Idle
  <2>5. ghost \in GhostType
    BY <1>1 DEF Init, GhostType
  <2>. QED  BY <2>2, <2>3, <2>4, <2>5 DEF BaseInv
<1>. QED  BY <1>1

(* The pieces that steps are put together from.                            *)
LEMMA BasicTypes == Idle \in JobType /\ NoFile \in Contents
  BY DEF Idle, JobType, Places, NoFile, Contents

LEMMA NameFits ==
  ASSUME NEW r \in Rows
  PROVE  Name(r) \in Names /\ Fits(r, Name(r))
  BY DEF Name, Names, Fits

LEMMA Moves ==
  ASSUME job \in [Procs -> JobType], NEW p \in Procs, NEW j, Step(p, j)
  PROVE  /\ job'[p] = j /\ \A q \in Procs \ {p} : job'[q] = job[q]
         /\ j \in JobType => job' \in [Procs -> JobType]
  BY DEF Step

LEMMA Writes ==
  ASSUME FileOK, disk \in [Names -> Contents], NEW f \in Names, NEW x \in Contents,
         disk' = [disk EXCEPT ![f] = x], Fits(x.row, f), x.there
  PROVE  disk' \in [Names -> Contents] /\ FileOK'
  BY DEF FileOK

LEMMA Removes ==
  ASSUME FileOK, disk \in [Names -> Contents], NEW f \in Names,
         disk' = [disk EXCEPT ![f] = NoFile]
  PROVE  disk' \in [Names -> Contents] /\ FileOK'
  BY BasicTypes DEF FileOK, Fits, NoFile

LEMMA LostTyped ==
  ASSUME BaseInv, NEW f \in Names
  PROVE  Owners(f) \subseteq Rows /\ Coming(f) \subseteq Rows \cup {NoRow}
<1>1. job \in [Procs -> JobType] /\ have \subseteq Rows
  BY DEF BaseInv, TypeOK
<1>. QED  BY <1>1 DEF Owners, Coming, JobType, Procs

LEMMA CoverTyped ==
  ASSUME BaseInv, NEW f \in Names, NEW r, Cover(f, r)
  PROVE  ghost' \in GhostType
<1>1. ghost \in GhostType /\ Owners(f) \cup Coming(f) \subseteq Rows \cup {NoRow}
  BY LostTyped DEF BaseInv
<1>. QED  BY <1>1 DEF Cover, GhostType

LEMMA RemoveTyped ==
  ASSUME BaseInv, NEW f \in Names, NEW R \in SUBSET (Rows \cup {NoRow}), Remove(f, R)
  PROVE  ghost' \in GhostType
  BY DEF Remove, GhostType, BaseInv

(* Every action keeps the types and what each process has in hand.         *)
LEMMA BaseNext == BaseInv /\ [Next]_vars => BaseInv'
<1>0. SUFFICES ASSUME BaseInv, [Next]_vars  PROVE BaseInv'
  OBVIOUS
<1>1. ASSUME ScanList  PROVE BaseInv'
  <2> DEFINE j == [Idle EXCEPT !.at = "scan", !.todo = There]
  <2>1. Step(System, j)
    BY <1>1 DEF ScanList, Step
  <2>2. /\ job[System] \in JobType /\ Idle \in JobType /\ There \subseteq Names
        /\ disk \in [Names -> Contents] /\ have \subseteq Rows
    BY <1>0, BasicTypes DEF BaseInv, TypeOK, Procs, There
  <2>3. j \in JobType
    BY <2>2 DEF JobType, Places, Idle
  <2>4. /\ job' \in [Procs -> JobType] /\ job'[System] = j
        /\ \A q \in Procs \ {System} : job'[q] = job[q]
    <3>1. job \in [Procs -> JobType] /\ System \in Procs
      BY <1>0 DEF BaseInv, Procs
    <3>. HIDE DEF j
    <3>. QED  BY <2>1, <2>3, <3>1, Moves
  <2>5. LoaderOK' /\ ApiOK'
    BY <1>0, <2>4 DEF BaseInv, Procs, LoaderOK, ApiOK
  <2>6. SystemOK'
    BY <1>1, <1>0, <2>2, <2>4 DEF ScanList, BaseInv, SystemOK, InScan, Fits, Idle
  <2>9. disk' \in [Names -> Contents] /\ FileOK'
    BY <1>1, <1>0 DEF ScanList, BaseInv, TypeOK, FileOK
  <2>10. /\ rows' \in SUBSET Rows /\ titled' \in SUBSET rows'
         /\ have' \in SUBSET rows' /\ list' \in SUBSET rows'
         /\ edits' \in 0..MaxEdits
    BY <1>1, <1>0 DEF ScanList, BaseInv, TypeOK, table, Edit
  <2>11. ghost' \in GhostType
    BY <1>1, <1>0 DEF ScanList, BaseInv, GhostType, TypeOK, JobType, Procs, There
  <2>. QED  BY <2>4, <2>5, <2>6, <2>9, <2>10, <2>11 DEF BaseInv, TypeOK
<1>2. ASSUME ScanKnown  PROVE BaseInv'
  <2> DEFINE j == [job[System] EXCEPT !.at = "scan", !.row = NoRow, !.name = Idle.name,
                               !.found = job[System].found \cup {job[System].row}]
  <2>1. Step(System, j)
    BY <1>2 DEF ScanKnown, Step, Remember
  <2>2. /\ job[System] \in JobType /\ Idle \in JobType /\ There \subseteq Names
        /\ disk \in [Names -> Contents] /\ have \subseteq Rows
    BY <1>0, BasicTypes DEF BaseInv, TypeOK, Procs, There
  <2>3. j \in JobType
    BY <1>2, <2>2 DEF ScanKnown, JobType, Places, Idle
  <2>4. /\ job' \in [Procs -> JobType] /\ job'[System] = j
        /\ \A q \in Procs \ {System} : job'[q] = job[q]
    BY <1>0, <2>1, <2>3, Moves DEF BaseInv, Procs
  <2>5. LoaderOK' /\ ApiOK'
    BY <1>0, <2>4 DEF BaseInv, Procs, LoaderOK, ApiOK
  <2>6. SystemOK'
    BY <1>2, <1>0, <2>2, <2>4 DEF ScanKnown, BaseInv, SystemOK, InScan, Fits, Idle
  <2>9. disk' \in [Names -> Contents] /\ FileOK'
    BY <1>2, <1>0 DEF ScanKnown, BaseInv, TypeOK, FileOK
  <2>10. /\ rows' \in SUBSET Rows /\ titled' \in SUBSET rows'
         /\ have' \in SUBSET rows' /\ list' \in SUBSET rows'
         /\ edits' \in 0..MaxEdits
    BY <1>2, <1>0, <2>2 DEF ScanKnown, BaseInv, TypeOK, JobType
  <2>11. ghost' \in GhostType
    <3>1. ghost' = ghost
      BY <1>2 DEF ScanKnown
    <3>. QED  BY <1>0, <3>1 DEF BaseInv
  <2>. QED  BY <2>4, <2>5, <2>6, <2>9, <2>10, <2>11 DEF BaseInv, TypeOK
<1>3. ASSUME ScanPlain  PROVE BaseInv'
  <2> DEFINE j == [job[System] EXCEPT !.at = "scan", !.name = Idle.name]
  <2>1. Step(System, j)
    BY <1>3 DEF ScanPlain, Step
  <2>2. /\ job[System] \in JobType /\ Idle \in JobType /\ There \subseteq Names
        /\ disk \in [Names -> Contents] /\ have \subseteq Rows
    BY <1>0, BasicTypes DEF BaseInv, TypeOK, Procs, There
  <2>3. j \in JobType
    BY <2>2 DEF JobType, Places, Idle
  <2>4. /\ job' \in [Procs -> JobType] /\ job'[System] = j
        /\ \A q \in Procs \ {System} : job'[q] = job[q]
    BY <1>0, <2>1, <2>3, Moves DEF BaseInv, Procs
  <2>5. LoaderOK' /\ ApiOK'
    BY <1>0, <2>4 DEF BaseInv, Procs, LoaderOK, ApiOK
  <2>6. SystemOK'
    BY <1>3, <1>0, <2>2, <2>4 DEF ScanPlain, BaseInv, SystemOK, InScan, Fits, Idle
  <2>9. disk' \in [Names -> Contents] /\ FileOK'
    BY <1>3, <1>0 DEF ScanPlain, BaseInv, TypeOK, FileOK
  <2>10. /\ rows' \in SUBSET Rows /\ titled' \in SUBSET rows'
         /\ have' \in SUBSET rows' /\ list' \in SUBSET rows'
         /\ edits' \in 0..MaxEdits
    BY <1>3, <1>0 DEF ScanPlain, BaseInv, TypeOK, table, Edit, SystemOK
  <2>11. ghost' \in GhostType
    <3>1. ghost' = ghost
      BY <1>3 DEF ScanPlain
    <3>. QED  BY <1>0, <3>1 DEF BaseInv
  <2>. QED  BY <2>4, <2>5, <2>6, <2>9, <2>10, <2>11 DEF BaseInv, TypeOK
<1>4. ASSUME ScanReconcile  PROVE BaseInv'
  <2> DEFINE j == [job[System] EXCEPT !.at = "drop", !.found = have \ job[System].found]
  <2>1. Step(System, j)
    BY <1>4 DEF ScanReconcile, Step, Gather
  <2>2. /\ job[System] \in JobType /\ Idle \in JobType /\ There \subseteq Names
        /\ disk \in [Names -> Contents] /\ have \subseteq Rows
    BY <1>0, BasicTypes DEF BaseInv, TypeOK, Procs, There
  <2>3. j \in JobType
    BY <2>2 DEF JobType, Places, Idle
  <2>4. /\ job' \in [Procs -> JobType] /\ job'[System] = j
        /\ \A q \in Procs \ {System} : job'[q] = job[q]
    BY <1>0, <2>1, <2>3, Moves DEF BaseInv, Procs
  <2>5. LoaderOK' /\ ApiOK'
    BY <1>0, <2>4 DEF BaseInv, Procs, LoaderOK, ApiOK
  <2>6. SystemOK'
    BY <1>4, <1>0, <2>2, <2>4 DEF ScanReconcile, BaseInv, SystemOK, InScan,
       Fits, Idle
  <2>9. disk' \in [Names -> Contents] /\ FileOK'
    BY <1>4, <1>0 DEF ScanReconcile, BaseInv, TypeOK, FileOK
  <2>10. /\ rows' \in SUBSET Rows /\ titled' \in SUBSET rows'
         /\ have' \in SUBSET rows' /\ list' \in SUBSET rows'
         /\ edits' \in 0..MaxEdits
    BY <1>4, <1>0 DEF ScanReconcile, BaseInv, TypeOK, table, Edit
  <2>11. ghost' \in GhostType
    <3>1. ghost' = ghost
      BY <1>4 DEF ScanReconcile
    <3>. QED  BY <1>0, <3>1 DEF BaseInv
  <2>. QED  BY <2>4, <2>5, <2>6, <2>9, <2>10, <2>11 DEF BaseInv, TypeOK
<1>5. ASSUME ScanEnd  PROVE BaseInv'
  <2> DEFINE j == Idle
  <2>1. Step(System, j)
    BY <1>5 DEF ScanEnd, Step
  <2>2. /\ job[System] \in JobType /\ Idle \in JobType /\ There \subseteq Names
        /\ disk \in [Names -> Contents] /\ have \subseteq Rows
    BY <1>0, BasicTypes DEF BaseInv, TypeOK, Procs, There
  <2>3. j \in JobType
    BY <2>2 DEF JobType, Places, Idle
  <2>4. /\ job' \in [Procs -> JobType] /\ job'[System] = j
        /\ \A q \in Procs \ {System} : job'[q] = job[q]
    BY <1>0, <2>1, <2>3, Moves DEF BaseInv, Procs
  <2>5. LoaderOK' /\ ApiOK'
    BY <1>0, <2>4 DEF BaseInv, Procs, LoaderOK, ApiOK
  <2>6. SystemOK'
    BY <2>4 DEF SystemOK, Idle, InScan
  <2>9. disk' \in [Names -> Contents] /\ FileOK'
    BY <1>5, <1>0 DEF ScanEnd, BaseInv, TypeOK, FileOK
  <2>10. /\ rows' \in SUBSET Rows /\ titled' \in SUBSET rows'
         /\ have' \in SUBSET rows' /\ list' \in SUBSET rows'
         /\ edits' \in 0..MaxEdits
    BY <1>5, <1>0 DEF ScanEnd, BaseInv, TypeOK, table, Edit, Best
  <2>11. ghost' \in GhostType
    BY <1>5, <1>0 DEF ScanEnd, BaseInv, GhostType, TypeOK, JobType, Procs, There
  <2>. QED  BY <2>4, <2>5, <2>6, <2>9, <2>10, <2>11 DEF BaseInv, TypeOK
<1>6. ASSUME NEW f \in Names, ScanRead(f)  PROVE BaseInv'
  <2> DEFINE j == [job[System] EXCEPT !.at = "apply", !.todo = job[System].todo \ {f},
                   !.name = f, !.row = IF disk[f].whole THEN disk[f].row ELSE NoRow]
  <2>1. Step(System, j)
    BY <1>6 DEF ScanRead, Step
  <2>2. /\ job[System] \in JobType /\ Idle \in JobType /\ There \subseteq Names
        /\ disk \in [Names -> Contents] /\ have \subseteq Rows
    BY <1>0, BasicTypes DEF BaseInv, TypeOK, Procs, There
  <2>3. j \in JobType
    BY <2>2 DEF JobType, Places, Idle, Contents
  <2>4. /\ job' \in [Procs -> JobType] /\ job'[System] = j
        /\ \A q \in Procs \ {System} : job'[q] = job[q]
    BY <1>0, <2>1, <2>3, Moves DEF BaseInv, Procs
  <2>5. LoaderOK' /\ ApiOK'
    BY <1>0, <2>4 DEF BaseInv, Procs, LoaderOK, ApiOK
  <2>6. SystemOK'
    <3>1. Fits(disk[f].row, f)
      BY <1>0 DEF BaseInv, FileOK
    <3>. QED  BY <1>6, <1>0, <2>2, <2>4, <3>1 DEF ScanRead, BaseInv, SystemOK,
                 InScan, Fits
  <2>9. disk' \in [Names -> Contents] /\ FileOK'
    BY <1>6, <1>0 DEF ScanRead, BaseInv, TypeOK, FileOK
  <2>10. /\ rows' \in SUBSET Rows /\ titled' \in SUBSET rows'
         /\ have' \in SUBSET rows' /\ list' \in SUBSET rows'
         /\ edits' \in 0..MaxEdits
    BY <1>6, <1>0 DEF ScanRead, BaseInv, TypeOK, table, Edit
  <2>11. ghost' \in GhostType
    <3>1. ghost' = ghost
      BY <1>6 DEF ScanRead
    <3>. QED  BY <1>0, <3>1 DEF BaseInv
  <2>. QED  BY <2>4, <2>5, <2>6, <2>9, <2>10, <2>11 DEF BaseInv, TypeOK
<1>7. ASSUME NEW f \in Names, PurgeFile(f)  PROVE BaseInv'
  <2> DEFINE j == [job[Api] EXCEPT !.todo = job[Api].todo \ {f}]
  <2>1. Step(Api, j)
    BY <1>7 DEF PurgeFile, Step
  <2>2. /\ job[Api] \in JobType /\ Idle \in JobType /\ There \subseteq Names
        /\ disk \in [Names -> Contents] /\ have \subseteq Rows
    BY <1>0, BasicTypes DEF BaseInv, TypeOK, Procs, There
  <2>3. j \in JobType
    BY <2>2 DEF JobType, Places, Idle
  <2>4. /\ job' \in [Procs -> JobType] /\ job'[Api] = j
        /\ \A q \in Procs \ {Api} : job'[q] = job[q]
    BY <1>0, <2>1, <2>3, Moves DEF BaseInv, Procs
  <2>5. SystemOK' /\ LoaderOK'
    BY <1>0, <2>4 DEF BaseInv, Procs, SystemOK, LoaderOK, InScan
  <2>6. ApiOK'
    BY <1>7, <1>0, <2>2, <2>4 DEF PurgeFile, BaseInv, ApiOK, Fits, Idle
  <2>8. disk' = [disk EXCEPT ![f] = NoFile]
    BY <1>7 DEF PurgeFile, Remove
  <2>9. disk' \in [Names -> Contents] /\ FileOK'
    <3>1. disk \in [Names -> Contents] /\ FileOK
      BY <1>0 DEF BaseInv, TypeOK
    <3>. QED  BY <2>8, <3>1, Removes DEF FileOK, File
  <2>10. /\ rows' \in SUBSET Rows /\ titled' \in SUBSET rows'
         /\ have' \in SUBSET rows' /\ list' \in SUBSET rows'
         /\ edits' \in 0..MaxEdits
    BY <1>7, <1>0 DEF PurgeFile, BaseInv, TypeOK, table, Edit
  <2>11. ghost' \in GhostType
    BY <1>7, <1>0, LostTyped, RemoveTyped DEF PurgeFile
  <2>. QED  BY <2>4, <2>5, <2>6, <2>9, <2>10, <2>11 DEF BaseInv, TypeOK
<1>8. ASSUME NEW f \in Names, Take(f)  PROVE BaseInv'
  <2>1. UNCHANGED job
    BY <1>8 DEF Take
  <2>5. SystemOK' /\ LoaderOK' /\ ApiOK' /\ job' \in [Procs -> JobType]
    BY <1>0, <2>1 DEF BaseInv, SystemOK, LoaderOK, ApiOK, InScan
  <2>8. disk' = [disk EXCEPT ![f] = NoFile]
    BY <1>8 DEF Take, Remove
  <2>9. disk' \in [Names -> Contents] /\ FileOK'
    <3>1. disk \in [Names -> Contents] /\ FileOK
      BY <1>0 DEF BaseInv, TypeOK
    <3>. QED  BY <2>8, <3>1, Removes DEF FileOK, File
  <2>10. /\ rows' \in SUBSET Rows /\ titled' \in SUBSET rows'
         /\ have' \in SUBSET rows' /\ list' \in SUBSET rows'
         /\ edits' \in 0..MaxEdits
    BY <1>8, <1>0 DEF Take, BaseInv, TypeOK, table, Edit
  <2>11. ghost' \in GhostType
    BY <1>8, <1>0, LostTyped, RemoveTyped DEF Take
  <2>. QED  BY <2>5, <2>9, <2>10, <2>11 DEF BaseInv, TypeOK
<1>9. ASSUME NEW r \in Rows, ScanDrop(r)  PROVE BaseInv'
  <2> DEFINE j == [job[System] EXCEPT !.found = job[System].found \ {r}]
  <2>1. Step(System, j)
    BY <1>9 DEF ScanDrop, Step
  <2>2. /\ job[System] \in JobType /\ Idle \in JobType /\ There \subseteq Names
        /\ disk \in [Names -> Contents] /\ have \subseteq Rows
    BY <1>0, BasicTypes DEF BaseInv, TypeOK, Procs, There
  <2>3. j \in JobType
    BY <2>2 DEF JobType, Places, Idle
  <2>4. /\ job' \in [Procs -> JobType] /\ job'[System] = j
        /\ \A q \in Procs \ {System} : job'[q] = job[q]
    BY <1>0, <2>1, <2>3, Moves DEF BaseInv, Procs
  <2>5. LoaderOK' /\ ApiOK'
    BY <1>0, <2>4 DEF BaseInv, Procs, LoaderOK, ApiOK
  <2>6. SystemOK'
    BY <1>9, <1>0, <2>2, <2>4 DEF ScanDrop, BaseInv, SystemOK, InScan, Fits, Idle
  <2>9. disk' \in [Names -> Contents] /\ FileOK'
    BY <1>9, <1>0 DEF ScanDrop, BaseInv, TypeOK, FileOK, DropRow
  <2>10. /\ rows' \in SUBSET Rows /\ titled' \in SUBSET rows'
         /\ have' \in SUBSET rows' /\ list' \in SUBSET rows'
         /\ edits' \in 0..MaxEdits
    BY <1>9, <1>0 DEF ScanDrop, BaseInv, TypeOK, table, DropRow
  <2>11. ghost' \in GhostType
    <3>1. ghost' = ghost
      BY <1>9 DEF ScanDrop
    <3>. QED  BY <1>0, <3>1 DEF BaseInv
  <2>. QED  BY <2>4, <2>5, <2>6, <2>9, <2>10, <2>11 DEF BaseInv, TypeOK
<1>10. ASSUME NEW r \in Rows, OptimiseRead(r)  PROVE BaseInv'
  <2> DEFINE j == [Idle EXCEPT !.at = "pack", !.name = <<NumberOf[r], "plain">>,
                        !.copy = disk[<<NumberOf[r], "plain">>]]
  <2>1. Step(System, j)
    BY <1>10 DEF OptimiseRead, Step
  <2>2. /\ job[System] \in JobType /\ Idle \in JobType /\ There \subseteq Names
        /\ disk \in [Names -> Contents] /\ have \subseteq Rows
    BY <1>0, BasicTypes DEF BaseInv, TypeOK, Procs, There
  <2>3. j \in JobType
    BY <1>10, <2>2 DEF OptimiseRead, JobType, Places, Idle, Names
  <2>4. /\ job' \in [Procs -> JobType] /\ job'[System] = j
        /\ \A q \in Procs \ {System} : job'[q] = job[q]
    BY <1>0, <2>1, <2>3, Moves DEF BaseInv, Procs
  <2>5. LoaderOK' /\ ApiOK'
    BY <1>0, <2>4 DEF BaseInv, Procs, LoaderOK, ApiOK
  <2>6. SystemOK'
    <3>1. Fits(j.copy.row, j.name) /\ j.name \in Names
      BY <1>0, <2>2 DEF BaseInv, FileOK, Names, Idle
    <3>. QED  BY <2>2, <2>4, <3>1 DEF SystemOK, InScan, Idle
  <2>9. disk' \in [Names -> Contents] /\ FileOK'
    BY <1>10, <1>0 DEF OptimiseRead, BaseInv, TypeOK, FileOK
  <2>10. /\ rows' \in SUBSET Rows /\ titled' \in SUBSET rows'
         /\ have' \in SUBSET rows' /\ list' \in SUBSET rows'
         /\ edits' \in 0..MaxEdits
    BY <1>10, <1>0 DEF OptimiseRead, BaseInv, TypeOK, table, Edit
  <2>11. ghost' \in GhostType
    <3>1. ghost' = ghost
      BY <1>10 DEF OptimiseRead
    <3>. QED  BY <1>0, <3>1 DEF BaseInv
  <2>. QED  BY <2>4, <2>5, <2>6, <2>9, <2>10, <2>11 DEF BaseInv, TypeOK
<1>11. ASSUME NEW r \in Rows, RewriteRead(r)  PROVE BaseInv'
  <2> DEFINE j == [Idle EXCEPT !.at = "rename", !.row = r, !.name = Name(r),
                        !.copy = disk[Name(r)]]
  <2>1. Step(System, j)
    BY <1>11 DEF RewriteRead, Step
  <2>2. /\ job[System] \in JobType /\ Idle \in JobType /\ There \subseteq Names
        /\ disk \in [Names -> Contents] /\ have \subseteq Rows
    BY <1>0, BasicTypes DEF BaseInv, TypeOK, Procs, There
  <2>3. j \in JobType
    BY <2>2, NameFits DEF JobType, Places, Idle, Contents
  <2>4. /\ job' \in [Procs -> JobType] /\ job'[System] = j
        /\ \A q \in Procs \ {System} : job'[q] = job[q]
    BY <1>0, <2>1, <2>3, Moves DEF BaseInv, Procs
  <2>5. LoaderOK' /\ ApiOK'
    BY <1>0, <2>4 DEF BaseInv, Procs, LoaderOK, ApiOK
  <2>6. SystemOK'
    BY <1>11, <1>0, <2>2, <2>4, NameFits DEF RewriteRead, BaseInv, SystemOK,
       InScan, Fits, Idle
  <2>9. disk' \in [Names -> Contents] /\ FileOK'
    BY <1>11, <1>0 DEF RewriteRead, BaseInv, TypeOK, FileOK
  <2>10. /\ rows' \in SUBSET Rows /\ titled' \in SUBSET rows'
         /\ have' \in SUBSET rows' /\ list' \in SUBSET rows'
         /\ edits' \in 0..MaxEdits
    BY <1>11, <1>0 DEF RewriteRead, BaseInv, TypeOK, table, Edit
  <2>11. ghost' \in GhostType
    <3>1. ghost' = ghost
      BY <1>11 DEF RewriteRead
    <3>. QED  BY <1>0, <3>1 DEF BaseInv
  <2>. QED  BY <2>4, <2>5, <2>6, <2>9, <2>10, <2>11 DEF BaseInv, TypeOK
<1>12. ASSUME NEW r \in Rows, DownloadOpen(r)  PROVE BaseInv'
  <2> DEFINE j == [Idle EXCEPT !.at = "write", !.row = r, !.name = Name(r)]
  <2>1. Step(Loader, j)
    BY <1>12 DEF DownloadOpen, Step
  <2>2. /\ job[Loader] \in JobType /\ Idle \in JobType /\ There \subseteq Names
        /\ disk \in [Names -> Contents] /\ have \subseteq Rows
    BY <1>0, BasicTypes DEF BaseInv, TypeOK, Procs, There
  <2>3. j \in JobType
    BY <2>2, NameFits DEF JobType, Places, Idle
  <2>4. /\ job' \in [Procs -> JobType] /\ job'[Loader] = j
        /\ \A q \in Procs \ {Loader} : job'[q] = job[q]
    BY <1>0, <2>1, <2>3, Moves DEF BaseInv, Procs
  <2>5. SystemOK' /\ ApiOK'
    BY <1>0, <2>4 DEF BaseInv, Procs, SystemOK, ApiOK, InScan
  <2>6. LoaderOK'
    BY <1>12, <1>0, <2>2, <2>4, NameFits DEF DownloadOpen, BaseInv, LoaderOK,
       Fits, Idle
  <2>7. Name(r) \in Names /\ File(r, FALSE, FALSE) \in Contents /\ Fits(r, Name(r))
    BY NameFits DEF Contents, File
  <2>8. disk' = [disk EXCEPT ![Name(r)] = File(r, FALSE, FALSE)]
    BY <1>12 DEF DownloadOpen
  <2>9. disk' \in [Names -> Contents] /\ FileOK'
    <3>1. disk \in [Names -> Contents] /\ FileOK
      BY <1>0 DEF BaseInv, TypeOK
    <3>. QED  BY <2>7, <2>8, <3>1, Writes DEF FileOK, File
  <2>10. /\ rows' \in SUBSET Rows /\ titled' \in SUBSET rows'
         /\ have' \in SUBSET rows' /\ list' \in SUBSET rows'
         /\ edits' \in 0..MaxEdits
    BY <1>12, <1>0 DEF DownloadOpen, BaseInv, TypeOK, table, Edit
  <2>11. ghost' \in GhostType
    BY <1>12, <1>0, <2>7, CoverTyped DEF DownloadOpen
  <2>. QED  BY <2>4, <2>5, <2>6, <2>9, <2>10, <2>11 DEF BaseInv, TypeOK
<1>13. ASSUME NEW r \in Rows, DeleteFile(r)  PROVE BaseInv'
  <2> DEFINE j == [Idle EXCEPT !.at = "missing", !.row = r]
  <2>1. Step(Api, j)
    BY <1>13 DEF DeleteFile, Step
  <2>2. /\ job[Api] \in JobType /\ Idle \in JobType /\ There \subseteq Names
        /\ disk \in [Names -> Contents] /\ have \subseteq Rows
    BY <1>0, BasicTypes DEF BaseInv, TypeOK, Procs, There
  <2>3. j \in JobType
    BY <2>2 DEF JobType, Places, Idle
  <2>4. /\ job' \in [Procs -> JobType] /\ job'[Api] = j
        /\ \A q \in Procs \ {Api} : job'[q] = job[q]
    BY <1>0, <2>1, <2>3, Moves DEF BaseInv, Procs
  <2>5. SystemOK' /\ LoaderOK'
    BY <1>0, <2>4 DEF BaseInv, Procs, SystemOK, LoaderOK, InScan
  <2>6. ApiOK'
    BY <1>13, <1>0, <2>2, <2>4 DEF DeleteFile, BaseInv, ApiOK, Fits, Idle
  <2>7. Name(r) \in Names
    BY NameFits
  <2>8. disk' = disk \/ disk' = [disk EXCEPT ![Name(r)] = NoFile]
    BY <1>13 DEF DeleteFile, Remove
  <2>9. disk' \in [Names -> Contents] /\ FileOK'
    <3>1. disk \in [Names -> Contents] /\ FileOK
      BY <1>0 DEF BaseInv, TypeOK
    <3>. QED  BY <2>7, <2>8, <3>1, Removes DEF FileOK, File
  <2>10. /\ rows' \in SUBSET Rows /\ titled' \in SUBSET rows'
         /\ have' \in SUBSET rows' /\ list' \in SUBSET rows'
         /\ edits' \in 0..MaxEdits
    BY <1>13, <1>0 DEF DeleteFile, BaseInv, TypeOK, table, Edit
  <2>11. ghost' \in GhostType
    BY <1>13, <1>0, <2>7, LostTyped, RemoveTyped DEF DeleteFile, BaseInv
  <2>. QED  BY <2>4, <2>5, <2>6, <2>9, <2>10, <2>11 DEF BaseInv, TypeOK
<1>14. ASSUME NEW r \in Rows, Backfill(r)  PROVE BaseInv'
  <2>1. UNCHANGED job
    BY <1>14 DEF Backfill
  <2>5. SystemOK' /\ LoaderOK' /\ ApiOK' /\ job' \in [Procs -> JobType]
    BY <1>0, <2>1 DEF BaseInv, SystemOK, LoaderOK, ApiOK, InScan
  <2>9. disk' \in [Names -> Contents] /\ FileOK'
    BY <1>14, <1>0 DEF Backfill, BaseInv, TypeOK, FileOK
  <2>10. /\ rows' \in SUBSET Rows /\ titled' \in SUBSET rows'
         /\ have' \in SUBSET rows' /\ list' \in SUBSET rows'
         /\ edits' \in 0..MaxEdits
    BY <1>14, <1>0 DEF Backfill, BaseInv, TypeOK, table, Edit
  <2>11. ghost' \in GhostType
    BY <1>14, <1>0 DEF Backfill, BaseInv, GhostType, TypeOK, JobType, Procs, There
  <2>. QED  BY <2>5, <2>9, <2>10, <2>11 DEF BaseInv, TypeOK
<1>15. ASSUME OptimiseOpen  PROVE BaseInv'
  <2> DEFINE j == [job[System] EXCEPT !.at = "fill"]
  <2>1. Step(System, j)
    BY <1>15 DEF OptimiseOpen, Step, Goto
  <2>2. /\ job[System] \in JobType /\ Idle \in JobType /\ There \subseteq Names
        /\ disk \in [Names -> Contents] /\ have \subseteq Rows
    BY <1>0, BasicTypes DEF BaseInv, TypeOK, Procs, There
  <2>3. j \in JobType
    BY <2>2 DEF JobType, Places, Idle
  <2>4. /\ job' \in [Procs -> JobType] /\ job'[System] = j
        /\ \A q \in Procs \ {System} : job'[q] = job[q]
    BY <1>0, <2>1, <2>3, Moves DEF BaseInv, Procs
  <2>5. LoaderOK' /\ ApiOK'
    BY <1>0, <2>4 DEF BaseInv, Procs, LoaderOK, ApiOK
  <2>6. SystemOK'
    BY <1>15, <1>0, <2>2, <2>4 DEF OptimiseOpen, BaseInv, SystemOK, InScan,
       Fits, Idle
  <2>7. /\ job[System].name \in Names /\ File(job[System].copy.row, FALSE, TRUE) \in Contents
        /\ Fits(job[System].copy.row, job[System].name)
    BY <1>15, <1>0, <2>2 DEF OptimiseOpen, BaseInv, SystemOK, JobType,
       Contents, File
  <2>8. disk' = [disk EXCEPT ![job[System].name] = File(job[System].copy.row, FALSE, TRUE)]
    BY <1>15 DEF OptimiseOpen
  <2>9. disk' \in [Names -> Contents] /\ FileOK'
    <3>1. disk \in [Names -> Contents] /\ FileOK
      BY <1>0 DEF BaseInv, TypeOK
    <3>. QED  BY <2>7, <2>8, <3>1, Writes DEF FileOK, File
  <2>10. /\ rows' \in SUBSET Rows /\ titled' \in SUBSET rows'
         /\ have' \in SUBSET rows' /\ list' \in SUBSET rows'
         /\ edits' \in 0..MaxEdits
    BY <1>15, <1>0 DEF OptimiseOpen, BaseInv, TypeOK, table, Edit
  <2>11. ghost' \in GhostType
    BY <1>15, <1>0, <2>7, CoverTyped DEF OptimiseOpen
  <2>. QED  BY <2>4, <2>5, <2>6, <2>9, <2>10, <2>11 DEF BaseInv, TypeOK
<1>16. ASSUME OptimiseFill  PROVE BaseInv'
  <2> DEFINE j == Idle
  <2>1. Step(System, j)
    BY <1>16 DEF OptimiseFill, Step
  <2>2. /\ job[System] \in JobType /\ Idle \in JobType /\ There \subseteq Names
        /\ disk \in [Names -> Contents] /\ have \subseteq Rows
    BY <1>0, BasicTypes DEF BaseInv, TypeOK, Procs, There
  <2>3. j \in JobType
    BY <2>2 DEF JobType, Places, Idle
  <2>4. /\ job' \in [Procs -> JobType] /\ job'[System] = j
        /\ \A q \in Procs \ {System} : job'[q] = job[q]
    BY <1>0, <2>1, <2>3, Moves DEF BaseInv, Procs
  <2>5. LoaderOK' /\ ApiOK'
    BY <1>0, <2>4 DEF BaseInv, Procs, LoaderOK, ApiOK
  <2>6. SystemOK'
    BY <2>4 DEF SystemOK, Idle, InScan
  <2>7. /\ job[System].name \in Names /\ File(job[System].copy.row, TRUE, TRUE) \in Contents
        /\ Fits(job[System].copy.row, job[System].name)
    BY <1>16, <1>0, <2>2 DEF OptimiseFill, BaseInv, SystemOK, JobType,
       Contents, File
  <2>8. \/ disk' = disk
        \/ disk' = [disk EXCEPT ![job[System].name] = File(job[System].copy.row, TRUE, TRUE)]
    BY <1>16 DEF OptimiseFill
  <2>9. disk' \in [Names -> Contents] /\ FileOK'
    <3>1. disk \in [Names -> Contents] /\ FileOK
      BY <1>0 DEF BaseInv, TypeOK
    <3>. QED  BY <2>7, <2>8, <3>1, Writes DEF FileOK, File
  <2>10. /\ rows' \in SUBSET Rows /\ titled' \in SUBSET rows'
         /\ have' \in SUBSET rows' /\ list' \in SUBSET rows'
         /\ edits' \in 0..MaxEdits
    BY <1>16, <1>0 DEF OptimiseFill, BaseInv, TypeOK, table, Edit
  <2>11. ghost' \in GhostType
    BY <1>16, <1>0 DEF OptimiseFill, Touch, GhostType, BaseInv
  <2>. QED  BY <2>4, <2>5, <2>6, <2>9, <2>10, <2>11 DEF BaseInv, TypeOK
<1>17. ASSUME RewriteRename  PROVE BaseInv'
  <2> DEFINE j == Idle
  <2>1. Step(System, j)
    BY <1>17 DEF RewriteRename, Step
  <2>2. /\ job[System] \in JobType /\ Idle \in JobType /\ There \subseteq Names
        /\ disk \in [Names -> Contents] /\ have \subseteq Rows
    BY <1>0, BasicTypes DEF BaseInv, TypeOK, Procs, There
  <2>3. j \in JobType
    BY <2>2 DEF JobType, Places, Idle
  <2>4. /\ job' \in [Procs -> JobType] /\ job'[System] = j
        /\ \A q \in Procs \ {System} : job'[q] = job[q]
    BY <1>0, <2>1, <2>3, Moves DEF BaseInv, Procs
  <2>5. LoaderOK' /\ ApiOK'
    BY <1>0, <2>4 DEF BaseInv, Procs, LoaderOK, ApiOK
  <2>6. SystemOK'
    BY <2>4 DEF SystemOK, Idle, InScan
  <2>7. /\ job[System].name \in Names /\ File(job[System].row, TRUE, job[System].copy.webp) \in Contents
        /\ Fits(job[System].row, job[System].name)
    BY <1>17, <1>0, <2>2 DEF RewriteRename, BaseInv, SystemOK, JobType,
       Contents, File
  <2>8. disk' = [disk EXCEPT ![job[System].name] = File(job[System].row, TRUE, job[System].copy.webp)]
    BY <1>17 DEF RewriteRename
  <2>9. disk' \in [Names -> Contents] /\ FileOK'
    <3>1. disk \in [Names -> Contents] /\ FileOK
      BY <1>0 DEF BaseInv, TypeOK
    <3>. QED  BY <2>7, <2>8, <3>1, Writes DEF FileOK, File
  <2>10. /\ rows' \in SUBSET Rows /\ titled' \in SUBSET rows'
         /\ have' \in SUBSET rows' /\ list' \in SUBSET rows'
         /\ edits' \in 0..MaxEdits
    BY <1>17, <1>0 DEF RewriteRename, BaseInv, TypeOK, table, Edit
  <2>11. ghost' \in GhostType
    BY <1>17, <1>0, <2>7, CoverTyped DEF RewriteRename
  <2>. QED  BY <2>4, <2>5, <2>6, <2>9, <2>10, <2>11 DEF BaseInv, TypeOK
<1>18. ASSUME DownloadWrite  PROVE BaseInv'
  <2> DEFINE j == [job[Loader] EXCEPT !.at = "mark"]
  <2>1. Step(Loader, j)
    BY <1>18 DEF DownloadWrite, Step, Goto
  <2>2. /\ job[Loader] \in JobType /\ Idle \in JobType /\ There \subseteq Names
        /\ disk \in [Names -> Contents] /\ have \subseteq Rows
    BY <1>0, BasicTypes DEF BaseInv, TypeOK, Procs, There
  <2>3. j \in JobType
    BY <2>2 DEF JobType, Places, Idle
  <2>4. /\ job' \in [Procs -> JobType] /\ job'[Loader] = j
        /\ \A q \in Procs \ {Loader} : job'[q] = job[q]
    BY <1>0, <2>1, <2>3, Moves DEF BaseInv, Procs
  <2>5. SystemOK' /\ ApiOK'
    BY <1>0, <2>4 DEF BaseInv, Procs, SystemOK, ApiOK, InScan
  <2>6. LoaderOK'
    BY <1>18, <1>0, <2>2, <2>4 DEF DownloadWrite, BaseInv, LoaderOK, Fits, Idle
  <2>7. /\ job[Loader].name \in Names /\ File(job[Loader].row, TRUE, FALSE) \in Contents
        /\ Fits(job[Loader].row, job[Loader].name)
    BY <1>18, <1>0 DEF DownloadWrite, BaseInv, LoaderOK, Contents, File
  <2>8. \/ disk' = disk
        \/ disk' = [disk EXCEPT ![job[Loader].name] = File(job[Loader].row, TRUE, FALSE)]
    BY <1>18 DEF DownloadWrite
  <2>9. disk' \in [Names -> Contents] /\ FileOK'
    <3>1. disk \in [Names -> Contents] /\ FileOK
      BY <1>0 DEF BaseInv, TypeOK
    <3>. QED  BY <2>7, <2>8, <3>1, Writes DEF FileOK, File
  <2>10. /\ rows' \in SUBSET Rows /\ titled' \in SUBSET rows'
         /\ have' \in SUBSET rows' /\ list' \in SUBSET rows'
         /\ edits' \in 0..MaxEdits
    BY <1>18, <1>0 DEF DownloadWrite, BaseInv, TypeOK, table, Edit
  <2>11. ghost' \in GhostType
    BY <1>18, <1>0 DEF DownloadWrite, Touch, GhostType, BaseInv
  <2>. QED  BY <2>4, <2>5, <2>6, <2>9, <2>10, <2>11 DEF BaseInv, TypeOK
<1>19. ASSUME DownloadMark  PROVE BaseInv'
  <2> DEFINE j == Idle
  <2>1. Step(Loader, j)
    BY <1>19 DEF DownloadMark, Step
  <2>2. /\ job[Loader] \in JobType /\ Idle \in JobType /\ There \subseteq Names
        /\ disk \in [Names -> Contents] /\ have \subseteq Rows
    BY <1>0, BasicTypes DEF BaseInv, TypeOK, Procs, There
  <2>3. j \in JobType
    BY <2>2 DEF JobType, Places, Idle
  <2>4. /\ job' \in [Procs -> JobType] /\ job'[Loader] = j
        /\ \A q \in Procs \ {Loader} : job'[q] = job[q]
    BY <1>0, <2>1, <2>3, Moves DEF BaseInv, Procs
  <2>5. SystemOK' /\ ApiOK'
    BY <1>0, <2>4 DEF BaseInv, Procs, SystemOK, ApiOK, InScan
  <2>6. LoaderOK'
    BY <2>4 DEF LoaderOK, Idle
  <2>9. disk' \in [Names -> Contents] /\ FileOK'
    BY <1>19, <1>0 DEF DownloadMark, BaseInv, TypeOK, FileOK
  <2>10. /\ rows' \in SUBSET Rows /\ titled' \in SUBSET rows'
         /\ have' \in SUBSET rows' /\ list' \in SUBSET rows'
         /\ edits' \in 0..MaxEdits
    BY <1>19, <1>0 DEF DownloadMark, BaseInv, TypeOK, table, Edit
  <2>11. ghost' \in GhostType
    BY <1>19, <1>0 DEF DownloadMark, Disturb, GhostType, BaseInv
  <2>. QED  BY <2>4, <2>5, <2>6, <2>9, <2>10, <2>11 DEF BaseInv, TypeOK
<1>20. ASSUME DeleteMark  PROVE BaseInv'
  <2> DEFINE j == Idle
  <2>1. Step(Api, j)
    BY <1>20 DEF DeleteMark, Step
  <2>2. /\ job[Api] \in JobType /\ Idle \in JobType /\ There \subseteq Names
        /\ disk \in [Names -> Contents] /\ have \subseteq Rows
    BY <1>0, BasicTypes DEF BaseInv, TypeOK, Procs, There
  <2>3. j \in JobType
    BY <2>2 DEF JobType, Places, Idle
  <2>4. /\ job' \in [Procs -> JobType] /\ job'[Api] = j
        /\ \A q \in Procs \ {Api} : job'[q] = job[q]
    BY <1>0, <2>1, <2>3, Moves DEF BaseInv, Procs
  <2>5. SystemOK' /\ LoaderOK'
    BY <1>0, <2>4 DEF BaseInv, Procs, SystemOK, LoaderOK, InScan
  <2>6. ApiOK'
    BY <2>4 DEF ApiOK, Idle
  <2>9. disk' \in [Names -> Contents] /\ FileOK'
    BY <1>20, <1>0 DEF DeleteMark, BaseInv, TypeOK, FileOK
  <2>10. /\ rows' \in SUBSET Rows /\ titled' \in SUBSET rows'
         /\ have' \in SUBSET rows' /\ list' \in SUBSET rows'
         /\ edits' \in 0..MaxEdits
    BY <1>20, <1>0 DEF DeleteMark, BaseInv, TypeOK, table, Edit
  <2>11. ghost' \in GhostType
    BY <1>20, <1>0 DEF DeleteMark, Disturb, GhostType, BaseInv
  <2>. QED  BY <2>4, <2>5, <2>6, <2>9, <2>10, <2>11 DEF BaseInv, TypeOK
<1>21. ASSUME PurgeList  PROVE BaseInv'
  <2> DEFINE j == [Idle EXCEPT !.at = "purge", !.todo = There, !.found = {Name(r) : r \in have}]
  <2>1. Step(Api, j)
    BY <1>21 DEF PurgeList, Step
  <2>2. /\ job[Api] \in JobType /\ Idle \in JobType /\ There \subseteq Names
        /\ disk \in [Names -> Contents] /\ have \subseteq Rows
    BY <1>0, BasicTypes DEF BaseInv, TypeOK, Procs, There
  <2>3. j \in JobType
    <3>1. {Name(r) : r \in have} \subseteq Names
      BY <2>2, NameFits
    <3>. QED  BY <2>2, <3>1 DEF JobType, Places
  <2>4. /\ job' \in [Procs -> JobType] /\ job'[Api] = j
        /\ \A q \in Procs \ {Api} : job'[q] = job[q]
    BY <1>0, <2>1, <2>3, Moves DEF BaseInv, Procs
  <2>5. SystemOK' /\ LoaderOK'
    BY <1>0, <2>4 DEF BaseInv, Procs, SystemOK, LoaderOK, InScan
  <2>6. ApiOK'
    BY <1>21, <1>0, <2>2, <2>4 DEF PurgeList, BaseInv, ApiOK, Fits, Idle
  <2>9. disk' \in [Names -> Contents] /\ FileOK'
    BY <1>21, <1>0 DEF PurgeList, BaseInv, TypeOK, FileOK
  <2>10. /\ rows' \in SUBSET Rows /\ titled' \in SUBSET rows'
         /\ have' \in SUBSET rows' /\ list' \in SUBSET rows'
         /\ edits' \in 0..MaxEdits
    BY <1>21, <1>0 DEF PurgeList, BaseInv, TypeOK, table, Edit
  <2>11. ghost' \in GhostType
    <3>1. ghost' = ghost
      BY <1>21 DEF PurgeList
    <3>. QED  BY <1>0, <3>1 DEF BaseInv
  <2>. QED  BY <2>4, <2>5, <2>6, <2>9, <2>10, <2>11 DEF BaseInv, TypeOK
<1>22. ASSUME PurgeEnd  PROVE BaseInv'
  <2> DEFINE j == Idle
  <2>1. Step(Api, j)
    BY <1>22 DEF PurgeEnd, Step
  <2>2. /\ job[Api] \in JobType /\ Idle \in JobType /\ There \subseteq Names
        /\ disk \in [Names -> Contents] /\ have \subseteq Rows
    BY <1>0, BasicTypes DEF BaseInv, TypeOK, Procs, There
  <2>3. j \in JobType
    BY <2>2 DEF JobType, Places, Idle
  <2>4. /\ job' \in [Procs -> JobType] /\ job'[Api] = j
        /\ \A q \in Procs \ {Api} : job'[q] = job[q]
    BY <1>0, <2>1, <2>3, Moves DEF BaseInv, Procs
  <2>5. SystemOK' /\ LoaderOK'
    BY <1>0, <2>4 DEF BaseInv, Procs, SystemOK, LoaderOK, InScan
  <2>6. ApiOK'
    BY <2>4 DEF ApiOK, Idle
  <2>9. disk' \in [Names -> Contents] /\ FileOK'
    BY <1>22, <1>0 DEF PurgeEnd, BaseInv, TypeOK, FileOK
  <2>10. /\ rows' \in SUBSET Rows /\ titled' \in SUBSET rows'
         /\ have' \in SUBSET rows' /\ list' \in SUBSET rows'
         /\ edits' \in 0..MaxEdits
    BY <1>22, <1>0 DEF PurgeEnd, BaseInv, TypeOK, table, Edit
  <2>11. ghost' \in GhostType
    <3>1. ghost' = ghost
      BY <1>22 DEF PurgeEnd
    <3>. QED  BY <1>0, <3>1 DEF BaseInv
  <2>. QED  BY <2>4, <2>5, <2>6, <2>9, <2>10, <2>11 DEF BaseInv, TypeOK
<1>23. ASSUME NEW f \in Names, NEW r \in Rows, NEW g \in Names, ImportRename(f, r, g)
      PROVE  BaseInv'
  <2> DEFINE j == [Idle EXCEPT !.at = "import", !.row = r, !.name = f, !.todo = {g} \ {f}]
  <2>1. Step(Api, j)
    BY <1>23 DEF ImportRename, Step
  <2>2. /\ job[Api] \in JobType /\ Idle \in JobType /\ There \subseteq Names
        /\ disk \in [Names -> Contents] /\ have \subseteq Rows
    BY <1>0, BasicTypes DEF BaseInv, TypeOK, Procs, There
  <2>3. j \in JobType
    BY <2>2 DEF JobType, Places, Idle
  <2>4. /\ job' \in [Procs -> JobType] /\ job'[Api] = j
        /\ \A q \in Procs \ {Api} : job'[q] = job[q]
    BY <1>0, <2>1, <2>3, Moves DEF BaseInv, Procs
  <2>5. SystemOK' /\ LoaderOK'
    BY <1>0, <2>4 DEF BaseInv, Procs, SystemOK, LoaderOK, InScan
  <2>6. ApiOK'
    BY <1>23, <1>0, <2>2, <2>4 DEF ImportRename, BaseInv, ApiOK, Fits, Idle
  <2>7. File(r, TRUE, FALSE) \in Contents /\ Fits(r, f)
    BY <1>23 DEF ImportRename, Contents, File, Fits
  <2>8. disk' = [disk EXCEPT ![f] = File(r, TRUE, FALSE)]
    BY <1>23 DEF ImportRename
  <2>9. disk' \in [Names -> Contents] /\ FileOK'
    <3>1. disk \in [Names -> Contents] /\ FileOK
      BY <1>0 DEF BaseInv, TypeOK
    <3>. QED  BY <2>7, <2>8, <3>1, Writes DEF FileOK, File
  <2>10. /\ rows' \in SUBSET Rows /\ titled' \in SUBSET rows'
         /\ have' \in SUBSET rows' /\ list' \in SUBSET rows'
         /\ edits' \in 0..MaxEdits
    BY <1>23, <1>0 DEF ImportRename, BaseInv, TypeOK, table, Edit
  <2>11. ghost' \in GhostType
    BY <1>23, <1>0, <2>7, CoverTyped DEF ImportRename
  <2>. QED  BY <2>4, <2>5, <2>6, <2>9, <2>10, <2>11 DEF BaseInv, TypeOK
<1>24. ASSUME ImportRow  PROVE BaseInv'
  <2> DEFINE j == Idle
  <2>1. Step(Api, j)
    BY <1>24 DEF ImportRow, Step
  <2>2. /\ job[Api] \in JobType /\ Idle \in JobType /\ There \subseteq Names
        /\ disk \in [Names -> Contents] /\ have \subseteq Rows
    BY <1>0, BasicTypes DEF BaseInv, TypeOK, Procs, There
  <2>3. j \in JobType
    BY <2>2 DEF JobType, Places, Idle
  <2>4. /\ job' \in [Procs -> JobType] /\ job'[Api] = j
        /\ \A q \in Procs \ {Api} : job'[q] = job[q]
    BY <1>0, <2>1, <2>3, Moves DEF BaseInv, Procs
  <2>5. SystemOK' /\ LoaderOK'
    BY <1>0, <2>4 DEF BaseInv, Procs, SystemOK, LoaderOK, InScan
  <2>6. ApiOK'
    BY <2>4 DEF ApiOK, Idle
  <2>9. disk' \in [Names -> Contents] /\ FileOK'
    BY <1>24, <1>0, BasicTypes DEF ImportRow, BaseInv, TypeOK, FileOK, Fits,
       NoFile
  <2>10. /\ rows' \in SUBSET Rows /\ titled' \in SUBSET rows'
         /\ have' \in SUBSET rows' /\ list' \in SUBSET rows'
         /\ edits' \in 0..MaxEdits
    BY <1>24, <1>0 DEF ImportRow, BaseInv, TypeOK, table, Edit, ApiOK
  <2>11. ghost' \in GhostType
    <3>1. \A f \in job[Api].todo : (Owners(f) \cup Coming(f)) \subseteq Rows \cup {NoRow}
      BY <1>0, <2>2, LostTyped DEF JobType
    <3>2. job[Api].todo \subseteq Names /\ ghost \in GhostType
      BY <1>0, <2>2 DEF JobType, BaseInv
    <3>. DEFINE gone == job[Api].todo
                R == UNION {(Owners(f) \cup Coming(f)) \ {job[Api].row} : f \in gone}
    <3>3. R \subseteq Rows \cup {NoRow}
      BY <3>1
    <3>4. ghost' = [ghost EXCEPT !.steady = ghost.steady \ gone, !.calm = FALSE,
                                 !.exact = FALSE, !.lost = ghost.lost \cup R]
      BY <1>24 DEF ImportRow
    <3>. HIDE DEF R
    <3>. QED  BY <3>2, <3>3, <3>4 DEF GhostType
  <2>. QED  BY <2>4, <2>5, <2>6, <2>9, <2>10, <2>11 DEF BaseInv, TypeOK
<1>25. ASSUME NEW f \in Names, NEW r \in Rows \cup {NoRow}, Put(f, r)
      PROVE  BaseInv'
  <2>1. UNCHANGED job
    BY <1>25 DEF Put
  <2>5. SystemOK' /\ LoaderOK' /\ ApiOK' /\ job' \in [Procs -> JobType]
    BY <1>0, <2>1 DEF BaseInv, SystemOK, LoaderOK, ApiOK, InScan
  <2>7. File(r, TRUE, FALSE) \in Contents /\ Fits(r, f)
    BY <1>25 DEF Put, Contents, File, Fits
  <2>8. disk' = [disk EXCEPT ![f] = File(r, TRUE, FALSE)]
    BY <1>25 DEF Put
  <2>9. disk' \in [Names -> Contents] /\ FileOK'
    <3>1. disk \in [Names -> Contents] /\ FileOK
      BY <1>0 DEF BaseInv, TypeOK
    <3>. QED  BY <2>7, <2>8, <3>1, Writes DEF FileOK, File
  <2>10. /\ rows' \in SUBSET Rows /\ titled' \in SUBSET rows'
         /\ have' \in SUBSET rows' /\ list' \in SUBSET rows'
         /\ edits' \in 0..MaxEdits
    BY <1>25, <1>0 DEF Put, BaseInv, TypeOK, table, Edit
  <2>11. ghost' \in GhostType
    BY <1>25, <1>0 DEF Put, Touch, GhostType, BaseInv
  <2>. QED  BY <2>5, <2>9, <2>10, <2>11 DEF BaseInv, TypeOK
<1>26. ASSUME Crash  PROVE BaseInv'
  <2>1. job' \in [Procs -> JobType] /\ \A p \in Procs : job'[p] = Idle
    BY <1>26, BasicTypes DEF Crash
  <2>5. SystemOK' /\ LoaderOK' /\ ApiOK'
    BY <2>1 DEF SystemOK, LoaderOK, ApiOK, Procs, Idle, InScan
  <2>9. disk' \in [Names -> Contents] /\ FileOK'
    BY <1>26, <1>0 DEF Crash, BaseInv, TypeOK, FileOK
  <2>10. /\ rows' \in SUBSET Rows /\ titled' \in SUBSET rows'
         /\ have' \in SUBSET rows' /\ list' \in SUBSET rows'
         /\ edits' \in 0..MaxEdits
    BY <1>26, <1>0 DEF Crash, BaseInv, TypeOK, table, Edit
  <2>11. ghost' \in GhostType
    <3>1. job[Api].row \in Rows \cup {NoRow} /\ have \subseteq Rows /\ ghost \in GhostType
      BY <1>0 DEF BaseInv, TypeOK, JobType, Procs
    <3>. QED  BY <1>26, <3>1 DEF Crash, GhostType
  <2>. QED  BY <2>1, <2>5, <2>9, <2>10, <2>11 DEF BaseInv, TypeOK
<1>27. CASE UNCHANGED vars
  BY <1>27, <1>0 DEF vars, table, BaseInv, TypeOK, SystemOK, LoaderOK, ApiOK,
     FileOK, InScan
<1>28. ASSUME ScanNowhere  PROVE BaseInv'
  BY <1>28, <1>0 DEF ScanNowhere, Edit, table, BaseInv, TypeOK, SystemOK, LoaderOK,
     ApiOK, FileOK, InScan
<1>. QED  BY <1>0, <1>1, <1>2, <1>3, <1>4, <1>5, <1>6, <1>7, <1>8, <1>9, <1>10,
             <1>11, <1>12, <1>13, <1>14, <1>15, <1>16, <1>17, <1>18, <1>19,
             <1>20, <1>21, <1>22, <1>23, <1>24, <1>25, <1>26, <1>27, <1>28 DEF Next

-----------------------------------------------------------------------------
(* The scan: what it has learnt of the files that lay there all along, and *)
(* what it knows when nothing else happened.                               *)

WithFile == {r \in Rows : \E f \in There : disk[f].whole /\ disk[f].row = r}

Scanning == job[System].at \in {"scan", "apply"}
Dropping == job[System].at = "drop"

(* A file is still to be read, in hand, or its row has been remembered.    *)
Seen(f) ==
  \/ f \in job[System].todo
  \/ /\ job[System].at = "apply" /\ job[System].name = f
     /\ job[System].row = IF disk[f].whole THEN disk[f].row ELSE NoRow
  \/ disk[f].whole /\ disk[f].row # NoRow => disk[f].row \in job[System].found

SteadyInv ==
  /\ Scanning => \A f \in ghost.steady : Seen(f)
  /\ Dropping =>
       \A f \in ghost.steady : disk[f].whole => disk[f].row \notin job[System].found

CalmInv ==
  /\ ghost.calm => InScan /\ ghost.steady = There
  /\ ghost.calm /\ job[System].at = "apply" /\ job[System].row # NoRow
       => job[System].row \in WithFile
  /\ ghost.calm /\ Scanning => job[System].found \subseteq WithFile \cap have
  /\ ghost.calm /\ Dropping => have = WithFile \cup job[System].found
  /\ ghost.exact => ~InScan /\ have = WithFile

ScanInv == SteadyInv /\ CalmInv

(* Others' steps: a file they touch is steady no more, nor is it calm.     *)
LEMMA TouchScan ==
  ASSUME ScanInv, job'[System] = job[System], ghost'.steady \subseteq ghost.steady,
         \A f \in ghost'.steady : disk'[f] = disk[f], ~ghost'.calm, ~ghost'.exact
  PROVE  ScanInv'
  BY DEF ScanInv, SteadyInv, CalmInv, Scanning, Dropping, Seen

LEMMA QuietScan ==
  ASSUME ScanInv, job'[System] = job[System], UNCHANGED <<disk, have, ghost>>
  PROVE  ScanInv'
  BY DEF ScanInv, SteadyInv, CalmInv, Scanning, Dropping, InScan, Seen,
     WithFile, There

(* Steps of the system queue's worker that are not a scan's.               *)
LEMMA AwayScan ==
  ASSUME ScanInv, ~InScan, job'[System].at \notin {"scan", "apply", "drop"},
         ghost'.calm => ghost.calm,
         ghost'.exact => ghost.exact /\ UNCHANGED <<disk, have>>
  PROVE  ScanInv'
  BY DEF ScanInv, SteadyInv, CalmInv, Scanning, Dropping, InScan, WithFile, There

(* What the ghost says after a step that touches the file f.               *)
LEMMA Touched ==
  ASSUME BaseInv, NEW f, NEW r, NEW R, Touch(f) \/ Cover(f, r) \/ Remove(f, R)
  PROVE  /\ ~ghost'.calm /\ ~ghost'.exact
         /\ ghost'.steady = ghost.steady \ {f} /\ ghost.lost \subseteq ghost'.lost
<1>1. ghost \in GhostType
  BY DEF BaseInv
<1>2. CASE Touch(f)
  BY <1>1, <1>2 DEF Touch, GhostType
<1>3. CASE Cover(f, r)
  <2> DEFINE L == ghost.lost \cup ((Owners(f) \cup Coming(f)) \ {r})
  <2>1. ghost' = [ghost EXCEPT !.steady = ghost.steady \ {f}, !.calm = FALSE,
                               !.exact = FALSE, !.lost = L]
    BY <1>3 DEF Cover
  <2>2. ghost.lost \subseteq L
    OBVIOUS
  <2>. HIDE DEF L
  <2>. QED  BY <1>1, <2>1, <2>2 DEF GhostType
<1>4. CASE Remove(f, R)
  BY <1>1, <1>4 DEF Remove, GhostType
<1>. QED  BY <1>2, <1>3, <1>4

LEMMA Disturbed ==
  ASSUME BaseInv, Disturb
  PROVE  /\ ~ghost'.calm /\ ~ghost'.exact
         /\ ghost'.steady = ghost.steady /\ ghost'.lost = ghost.lost
  BY DEF Disturb, BaseInv, GhostType

LEMMA ScanInit == Init => ScanInv
  BY DEF Init, ScanInv, SteadyInv, CalmInv, Scanning, Dropping, InScan, Idle,
     Procs

LEMMA ScanNext == BaseInv /\ ScanInv /\ [Next]_vars => ScanInv'
<1>0. SUFFICES ASSUME BaseInv, ScanInv, [Next]_vars  PROVE ScanInv'
  OBVIOUS
<1>1. ASSUME ScanList  PROVE ScanInv'
  <2>1. job \in [Procs -> JobType] /\ ghost \in GhostType /\ have \subseteq Rows
    BY <1>0 DEF BaseInv, TypeOK
  <2> DEFINE j == [Idle EXCEPT !.at = "scan", !.todo = There]
  <2>2. job'[System] = j
    BY <1>1, <2>1 DEF ScanList, Step, Procs
  <2>3. ghost'.steady = There /\ ghost'.calm /\ ~ghost'.exact /\ disk' = disk
    BY <1>1, <2>1 DEF ScanList, GhostType
  <2>. QED  BY <2>2, <2>3 DEF ScanInv, SteadyInv, CalmInv, Scanning, Dropping,
               InScan, Seen, There, Idle
<1>2. ASSUME ScanKnown  PROVE ScanInv'
  <2>1. job \in [Procs -> JobType] /\ ghost \in GhostType /\ have \subseteq Rows
    BY <1>0 DEF BaseInv, TypeOK
  <2> DEFINE j == [job[System] EXCEPT !.at = "scan", !.row = NoRow, !.name = Idle.name,
                               !.found = job[System].found \cup {job[System].row}]
  <2>2. job'[System] = j
    BY <1>2, <2>1 DEF ScanKnown, Step, Procs, Remember
  <2>3. ghost' = ghost /\ disk' = disk /\ have' = have \cup {job[System].row}
    BY <1>2 DEF ScanKnown, table
  <2>4. /\ job[System].at = "apply" /\ job[System].row # NoRow
        /\ job'[System].at = "scan" /\ job'[System].todo = job[System].todo
        /\ job'[System].found = job[System].found \cup {job[System].row}
    BY <1>2, <2>1, <2>2 DEF ScanKnown, JobType, Procs, Idle
  <2>5. WithFile' = WithFile /\ There' = There
    BY <2>3 DEF WithFile, There
  <2>8. SteadyInv'
    BY <1>0, <2>1, <2>3, <2>4 DEF ScanInv, SteadyInv, Scanning, Dropping, Seen
  <2>9. CalmInv'
    BY <1>0, <2>1, <2>3, <2>4, <2>5 DEF ScanInv, CalmInv, Scanning, Dropping,
       InScan
  <2>. QED  BY <2>8, <2>9 DEF ScanInv
<1>3. ASSUME ScanPlain  PROVE ScanInv'
  <2>1. job \in [Procs -> JobType] /\ ghost \in GhostType /\ have \subseteq Rows
    BY <1>0 DEF BaseInv, TypeOK
  <2> DEFINE j == [job[System] EXCEPT !.at = "scan", !.name = Idle.name]
  <2>2. job'[System] = j
    BY <1>3, <2>1 DEF ScanPlain, Step, Procs
  <2>3. ghost' = ghost /\ disk' = disk /\ have \subseteq have'
    BY <1>3 DEF ScanPlain, table
  <2>4. /\ job[System].at = "apply" /\ job[System].row = NoRow
        /\ job'[System].at = "scan" /\ job'[System].todo = job[System].todo
        /\ job'[System].found = job[System].found
    BY <1>3, <2>1, <2>2 DEF ScanPlain, JobType, Procs, Idle
  <2>5. WithFile' = WithFile /\ There' = There
    BY <2>3 DEF WithFile, There
  <2>8. SteadyInv'
    BY <1>0, <2>1, <2>3, <2>4 DEF ScanInv, SteadyInv, Scanning, Dropping, Seen
  <2>9. CalmInv'
    BY <1>0, <2>1, <2>3, <2>4, <2>5 DEF ScanInv, CalmInv, Scanning, Dropping,
       InScan
  <2>. QED  BY <2>8, <2>9 DEF ScanInv
<1>4. ASSUME ScanReconcile  PROVE ScanInv'
  <2>1. job \in [Procs -> JobType] /\ ghost \in GhostType /\ have \subseteq Rows
    BY <1>0 DEF BaseInv, TypeOK
  <2> DEFINE j == [job[System] EXCEPT !.at = "drop", !.found = have \ job[System].found]
  <2>2. job'[System] = j
    BY <1>4, <2>1 DEF ScanReconcile, Step, Procs, Gather
  <2>3. ghost' = ghost /\ disk' = disk /\ have' = have
    BY <1>4 DEF ScanReconcile, table
  <2>4. /\ job[System].at = "scan" /\ job[System].todo = {}
        /\ job'[System].at = "drop" /\ job'[System].found = have \ job[System].found
    BY <1>4, <2>1, <2>2 DEF ScanReconcile, JobType, Procs, Idle
  <2>5. WithFile' = WithFile /\ There' = There
    BY <2>3 DEF WithFile, There
  <2>8. SteadyInv'
    BY <1>0, <2>1, <2>3, <2>4 DEF ScanInv, SteadyInv, Scanning, Dropping, Seen
  <2>9. CalmInv'
    BY <1>0, <2>1, <2>3, <2>4, <2>5 DEF ScanInv, SteadyInv, Seen, CalmInv,
       Scanning, Dropping, InScan, WithFile
  <2>. QED  BY <2>8, <2>9 DEF ScanInv
<1>5. ASSUME ScanEnd  PROVE ScanInv'
  <2>1. job \in [Procs -> JobType] /\ ghost \in GhostType /\ have \subseteq Rows
    BY <1>0 DEF BaseInv, TypeOK
  <2> DEFINE j == Idle
  <2>2. job'[System] = j
    BY <1>5, <2>1 DEF ScanEnd, Step, Procs
  <2>3. /\ ghost'.steady = {} /\ ~ghost'.calm /\ ghost'.exact = ghost.calm
        /\ disk' = disk /\ have' = have
    BY <1>5, <2>1 DEF ScanEnd, GhostType
  <2>. QED  BY <1>5, <1>0, <2>2, <2>3 DEF ScanEnd, ScanInv, SteadyInv, CalmInv,
               Scanning, Dropping, InScan, WithFile, There, Idle
<1>6. ASSUME NEW f \in Names, ScanRead(f)  PROVE ScanInv'
  <2>1. job \in [Procs -> JobType] /\ ghost \in GhostType /\ have \subseteq Rows
    BY <1>0 DEF BaseInv, TypeOK
  <2> DEFINE j == [job[System] EXCEPT !.at = "apply", !.todo = job[System].todo \ {f},
                   !.name = f, !.row = IF disk[f].whole THEN disk[f].row ELSE NoRow]
  <2>2. job'[System] = j
    BY <1>6, <2>1 DEF ScanRead, Step, Procs
  <2>3. ghost' = ghost /\ disk' = disk /\ have' = have
    BY <1>6 DEF ScanRead, table
  <2>4. /\ job[System].at = "scan" /\ job'[System].at = "apply" /\ job'[System].name = f
        /\ job'[System].todo = job[System].todo \ {f}
        /\ job'[System].row = (IF disk[f].whole THEN disk[f].row ELSE NoRow)
        /\ job'[System].found = job[System].found
    BY <1>6, <2>1, <2>2 DEF ScanRead, JobType, Procs, Idle
  <2>5. WithFile' = WithFile /\ There' = There
    BY <2>3 DEF WithFile, There
  <2>6. /\ ghost.calm => f \in ghost.steady \/ f \notin There
        /\ disk[f].whole /\ disk[f].row # NoRow => disk[f].row \in Rows /\ f \in There
    BY <1>6, <1>0 DEF BaseInv, TypeOK, Contents, FileOK, NoFile, There,
       ScanInv, CalmInv
  <2>8. SteadyInv'
    BY <1>0, <2>1, <2>3, <2>4 DEF ScanInv, SteadyInv, Scanning, Dropping, Seen
  <2>9. CalmInv'
    BY <1>0, <2>1, <2>3, <2>4, <2>5, <2>6 DEF ScanInv, CalmInv, Scanning,
       Dropping, InScan, WithFile
  <2>. QED  BY <2>8, <2>9 DEF ScanInv
<1>7. ASSUME NEW f \in Names, PurgeFile(f)  PROVE ScanInv'
  <2>1. job'[System] = job[System]
    BY <1>7, <1>0 DEF PurgeFile, BaseInv, Step, Goto, Procs
  <2>2. ~ghost'.calm /\ ~ghost'.exact /\ ghost'.steady = ghost.steady \ {f}
    BY <1>7, <1>0, Touched DEF PurgeFile
  <2>3. \A n \in ghost'.steady : disk'[n] = disk[n]
    BY <1>7, <1>0, <2>2 DEF PurgeFile, BaseInv, TypeOK, GhostType, Remove
  <2>. QED  BY <1>0, <2>1, <2>2, <2>3, TouchScan
<1>8. ASSUME NEW f \in Names, Take(f)  PROVE ScanInv'
  <2>1. job'[System] = job[System]
    BY <1>8 DEF Take
  <2>2. ~ghost'.calm /\ ~ghost'.exact /\ ghost'.steady = ghost.steady \ {f}
    BY <1>8, <1>0, Touched DEF Take
  <2>3. \A n \in ghost'.steady : disk'[n] = disk[n]
    BY <1>8, <1>0, <2>2 DEF Take, BaseInv, TypeOK, GhostType, Remove
  <2>. QED  BY <1>0, <2>1, <2>2, <2>3, TouchScan
<1>9. ASSUME NEW r \in Rows, ScanDrop(r)  PROVE ScanInv'
  <2>1. job \in [Procs -> JobType] /\ ghost \in GhostType /\ have \subseteq Rows
    BY <1>0 DEF BaseInv, TypeOK
  <2> DEFINE j == [job[System] EXCEPT !.found = job[System].found \ {r}]
  <2>2. job'[System] = j
    BY <1>9, <2>1 DEF ScanDrop, Step, Procs
  <2>3. ghost' = ghost /\ disk' = disk /\ have' = have \ {r}
    BY <1>9 DEF ScanDrop, DropRow
  <2>4. job[System].at = "drop" /\ r \in job[System].found /\ job'[System].at = "drop"
    BY <1>9, <2>1, <2>2 DEF ScanDrop, JobType, Procs
  <2>5. job'[System].found = job[System].found \ {r}
    BY <2>1, <2>2 DEF JobType, Procs
  <2>6. WithFile' = WithFile /\ There' = There
    BY <2>3 DEF WithFile, There
  <2>7. ghost.calm => r \notin WithFile
    BY <1>0, <2>4 DEF ScanInv, SteadyInv, CalmInv, Dropping, WithFile
  <2>8. SteadyInv'
    BY <1>0, <2>3, <2>4, <2>5 DEF ScanInv, SteadyInv, Scanning, Dropping
  <2>9. CalmInv'
    BY <1>0, <2>3, <2>4, <2>5, <2>6, <2>7 DEF ScanInv, CalmInv, Scanning,
       Dropping, InScan
  <2>. QED  BY <2>8, <2>9 DEF ScanInv
<1>10. ASSUME NEW r \in Rows, OptimiseRead(r)  PROVE ScanInv'
  <2>1. job[System] \in JobType /\ System \in Procs
    BY <1>0 DEF BaseInv, Procs
  <2>2. ~InScan /\ job'[System].at \notin {"scan", "apply", "drop"}
    BY <1>10, <1>0, <2>1 DEF OptimiseRead, BaseInv, Step, Goto, JobType,
       InScan, Idle
  <2>3. UNCHANGED <<disk, have, ghost>>
    BY <1>10 DEF OptimiseRead, table
  <2>. QED  BY <1>0, <2>2, <2>3, AwayScan
<1>11. ASSUME NEW r \in Rows, RewriteRead(r)  PROVE ScanInv'
  <2>1. job[System] \in JobType /\ System \in Procs
    BY <1>0 DEF BaseInv, Procs
  <2>2. ~InScan /\ job'[System].at \notin {"scan", "apply", "drop"}
    BY <1>11, <1>0, <2>1 DEF RewriteRead, BaseInv, Step, Goto, JobType, InScan,
       Idle
  <2>3. UNCHANGED <<disk, have, ghost>>
    BY <1>11 DEF RewriteRead, table
  <2>. QED  BY <1>0, <2>2, <2>3, AwayScan
<1>12. ASSUME NEW r \in Rows, DownloadOpen(r)  PROVE ScanInv'
  <2>1. job'[System] = job[System]
    BY <1>12, <1>0 DEF DownloadOpen, BaseInv, Step, Goto, Procs
  <2>2. ~ghost'.calm /\ ~ghost'.exact /\ ghost'.steady = ghost.steady \ {Name(r)}
    BY <1>12, <1>0, Touched DEF DownloadOpen
  <2>3. \A n \in ghost'.steady : disk'[n] = disk[n]
    BY <1>12, <1>0, <2>2 DEF DownloadOpen, BaseInv, TypeOK, GhostType
  <2>. QED  BY <1>0, <2>1, <2>2, <2>3, TouchScan
<1>13. ASSUME NEW r \in Rows, DeleteFile(r)  PROVE ScanInv'
  <2>1. job'[System] = job[System]
    BY <1>13, <1>0 DEF DeleteFile, BaseInv, Step, Goto, Procs
  <2>2. CASE r \in have
    <3>1. /\ ~ghost'.calm /\ ~ghost'.exact /\ ghost'.steady = ghost.steady \ {Name(r)}
      BY <1>13, <1>0, <2>2, Touched DEF DeleteFile
    <3>2. \A f \in ghost'.steady : disk'[f] = disk[f]
      BY <1>13, <1>0, <2>2, <3>1 DEF DeleteFile, Remove, BaseInv, TypeOK,
         GhostType
    <3>. QED  BY <1>0, <2>1, <3>1, <3>2, TouchScan
  <2>3. CASE r \notin have
    BY <1>13, <1>0, <2>1, <2>3, QuietScan DEF DeleteFile, table
  <2>. QED  BY <2>2, <2>3
<1>14. ASSUME NEW r \in Rows, Backfill(r)  PROVE ScanInv'
  <2>1. job'[System] = job[System]
    BY <1>14 DEF Backfill
  <2>2. ~ghost'.calm /\ ~ghost'.exact /\ ghost'.steady = ghost.steady
    BY <1>14, <1>0 DEF Backfill, BaseInv, GhostType
  <2>3. disk' = disk
    BY <1>14 DEF Backfill
  <2>. QED  BY <1>0, <2>1, <2>2, <2>3, TouchScan
<1>15. ASSUME OptimiseOpen  PROVE ScanInv'
  <2>1. job[System] \in JobType /\ System \in Procs
    BY <1>0 DEF BaseInv, Procs
  <2>2. ~InScan /\ job'[System].at \notin {"scan", "apply", "drop"}
    BY <1>15, <1>0, <2>1 DEF OptimiseOpen, BaseInv, Step, Goto, JobType,
       InScan, Idle
  <2>3. ~ghost'.calm /\ ~ghost'.exact
    BY <1>15, <1>0, Touched DEF OptimiseOpen
  <2>. QED  BY <1>0, <2>2, <2>3, AwayScan
<1>16. ASSUME OptimiseFill  PROVE ScanInv'
  <2>1. job[System] \in JobType /\ System \in Procs
    BY <1>0 DEF BaseInv, Procs
  <2>2. ~InScan /\ job'[System].at \notin {"scan", "apply", "drop"}
    BY <1>16, <1>0, <2>1 DEF OptimiseFill, BaseInv, Step, Goto, JobType,
       InScan, Idle
  <2>3. ~ghost'.calm /\ ~ghost'.exact
    BY <1>16, <1>0, Touched DEF OptimiseFill
  <2>. QED  BY <1>0, <2>2, <2>3, AwayScan
<1>17. ASSUME RewriteRename  PROVE ScanInv'
  <2>1. job[System] \in JobType /\ System \in Procs
    BY <1>0 DEF BaseInv, Procs
  <2>2. ~InScan /\ job'[System].at \notin {"scan", "apply", "drop"}
    BY <1>17, <1>0, <2>1 DEF RewriteRename, BaseInv, Step, Goto, JobType,
       InScan, Idle
  <2>3. ~ghost'.calm /\ ~ghost'.exact
    BY <1>17, <1>0, Touched DEF RewriteRename
  <2>. QED  BY <1>0, <2>2, <2>3, AwayScan
<1>18. ASSUME DownloadWrite  PROVE ScanInv'
  <2>1. job'[System] = job[System]
    BY <1>18, <1>0 DEF DownloadWrite, BaseInv, Step, Goto, Procs
  <2>2. ~ghost'.calm /\ ~ghost'.exact /\ ghost'.steady = ghost.steady \ {job[Loader].name}
    BY <1>18, <1>0, Touched DEF DownloadWrite
  <2>3. \A n \in ghost'.steady : disk'[n] = disk[n]
    BY <1>18, <1>0, <2>2 DEF DownloadWrite, BaseInv, TypeOK, GhostType
  <2>. QED  BY <1>0, <2>1, <2>2, <2>3, TouchScan
<1>19. ASSUME DownloadMark  PROVE ScanInv'
  <2>1. job'[System] = job[System]
    BY <1>19, <1>0 DEF DownloadMark, BaseInv, Step, Goto, Procs
  <2>2. ~ghost'.calm /\ ~ghost'.exact /\ ghost'.steady = ghost.steady
    BY <1>19, <1>0, Disturbed DEF DownloadMark
  <2>3. disk' = disk
    BY <1>19 DEF DownloadMark
  <2>. QED  BY <1>0, <2>1, <2>2, <2>3, TouchScan
<1>20. ASSUME DeleteMark  PROVE ScanInv'
  <2>1. job'[System] = job[System]
    BY <1>20, <1>0 DEF DeleteMark, BaseInv, Step, Goto, Procs
  <2>2. ~ghost'.calm /\ ~ghost'.exact /\ ghost'.steady = ghost.steady
    BY <1>20, <1>0, Disturbed DEF DeleteMark
  <2>3. disk' = disk
    BY <1>20 DEF DeleteMark
  <2>. QED  BY <1>0, <2>1, <2>2, <2>3, TouchScan
<1>21. ASSUME PurgeList  PROVE ScanInv'
  <2>1. job'[System] = job[System]
    BY <1>21, <1>0 DEF PurgeList, BaseInv, Step, Goto, Procs
  <2>2. UNCHANGED <<disk, have, ghost>>
    BY <1>21 DEF PurgeList, table
  <2>. QED  BY <1>0, <2>1, <2>2, QuietScan
<1>22. ASSUME PurgeEnd  PROVE ScanInv'
  <2>1. job'[System] = job[System]
    BY <1>22, <1>0 DEF PurgeEnd, BaseInv, Step, Goto, Procs
  <2>2. UNCHANGED <<disk, have, ghost>>
    BY <1>22 DEF PurgeEnd, table
  <2>. QED  BY <1>0, <2>1, <2>2, QuietScan
<1>23. ASSUME NEW f \in Names, NEW r \in Rows, NEW g \in Names, ImportRename(f, r, g)
      PROVE  ScanInv'
  <2>1. job'[System] = job[System]
    BY <1>23, <1>0 DEF ImportRename, BaseInv, Step, Goto, Procs
  <2>2. ~ghost'.calm /\ ~ghost'.exact /\ ghost'.steady = ghost.steady \ {f}
    BY <1>23, <1>0, Touched DEF ImportRename
  <2>3. \A n \in ghost'.steady : disk'[n] = disk[n]
    BY <1>23, <1>0, <2>2 DEF ImportRename, BaseInv, TypeOK, GhostType
  <2>. QED  BY <1>0, <2>1, <2>2, <2>3, TouchScan
<1>24. ASSUME ImportRow  PROVE ScanInv'
  <2>1. job'[System] = job[System]
    BY <1>24, <1>0 DEF ImportRow, BaseInv, Step, Goto, Procs
  <2>2. /\ ~ghost'.calm /\ ~ghost'.exact
        /\ ghost'.steady = ghost.steady \ job[Api].todo
    BY <1>24, <1>0 DEF ImportRow, BaseInv, GhostType
  <2>3. \A f \in ghost'.steady : disk'[f] = disk[f]
    BY <1>24, <1>0, <2>2 DEF ImportRow, BaseInv, GhostType
  <2>. QED  BY <1>0, <2>1, <2>2, <2>3, TouchScan
<1>25. ASSUME NEW f \in Names, NEW r \in Rows \cup {NoRow}, Put(f, r)
      PROVE  ScanInv'
  <2>1. job'[System] = job[System]
    BY <1>25 DEF Put
  <2>2. ~ghost'.calm /\ ~ghost'.exact /\ ghost'.steady = ghost.steady \ {f}
    BY <1>25, <1>0, Touched DEF Put
  <2>3. \A n \in ghost'.steady : disk'[n] = disk[n]
    BY <1>25, <1>0, <2>2 DEF Put, BaseInv, TypeOK, GhostType
  <2>. QED  BY <1>0, <2>1, <2>2, <2>3, TouchScan
<1>26. ASSUME Crash  PROVE ScanInv'
  <2>1. job'[System] = Idle /\ ghost'.steady = {} /\ ~ghost'.calm /\ ~ghost'.exact
    BY <1>26, <1>0 DEF Crash, BaseInv, GhostType, Procs
  <2>. QED  BY <2>1 DEF ScanInv, SteadyInv, CalmInv, Scanning, Dropping,
               InScan, Idle
<1>27. CASE UNCHANGED vars
  BY <1>27, <1>0, QuietScan DEF vars, table
<1>28. ASSUME ScanNowhere  PROVE ScanInv'
  BY <1>28, <1>0, QuietScan DEF ScanNowhere, table
<1>. QED  BY <1>0, <1>1, <1>2, <1>3, <1>4, <1>5, <1>6, <1>7, <1>8, <1>9, <1>10,
             <1>11, <1>12, <1>13, <1>14, <1>15, <1>16, <1>17, <1>18, <1>19,
             <1>20, <1>21, <1>22, <1>23, <1>24, <1>25, <1>26, <1>27, <1>28 DEF Next

-----------------------------------------------------------------------------
(* The file of a Downloaded chapter. A row is sure of its file, or others  *)
(* may have taken it; a row that a process is about to mark Downloaded is  *)
(* watched as those that are.                                              *)

HasFile(r) == r \in ghost.lost \/ \E f \in There : disk[f].row = r
Landed(r, f) == r \in ghost.lost \/ (f \in There /\ disk[f].row = r)
Backed(r) == HasFile(r) \/ Name(r) \in There

TrackInv ==
  /\ job[Loader].at # "idle" => HasFile(job[Loader].row)
  /\ job[Api].at = "import" => Landed(job[Api].row, job[Api].name)
  /\ job[System].at = "apply" /\ job[System].row # NoRow => HasFile(job[System].row)
  /\ Scanning => \A r \in job[System].found : HasFile(r)

(* Its file is being deleted, or the scan is yet to find out.              *)
Excused(r) ==
  \/ job[Api].at = "missing" /\ job[Api].row = r
  \/ Scanning /\ r \notin job[System].found
  \/ Dropping /\ r \in job[System].found

HaveInv == \A r \in have : Backed(r) \/ Excused(r)

KeepInv == TrackInv /\ HaveInv

(* A step that keeps each file, or gives it to a row that was after it, or *)
(* counts as lost who owned it (but X) and who was to have it (but Y).     *)
Known(f, r) == r \in ghost'.lost \/ (f \in There' /\ disk'[f].row = r)

Takes(X, Y) ==
  /\ ghost.lost \subseteq ghost'.lost
  /\ \A f \in There :
       \/ f \in There' /\ disk'[f].row = disk[f].row
       \/ /\ \A r \in Owners(f) \ X : Known(f, r)
          /\ \A r \in Coming(f) \ Y : Known(f, r)

LEMMA TakesNone ==
  ASSUME disk' = disk, ghost.lost \subseteq ghost'.lost \/ ghost' = ghost, NEW X, NEW Y
  PROVE  Takes(X, Y)
  BY DEF Takes, There

LEMMA TouchTakes ==
  ASSUME disk \in [Names -> Contents], NEW f, NEW x, x.there, ghost'.lost = ghost.lost,
         disk' = disk \/ disk' = [disk EXCEPT ![f] = x],
         disk' = disk \/ (disk[f].there => disk[f].row = x.row)
  PROVE  Takes({}, {})
  BY DEF Takes, There

LEMMA CoverTakes ==
  ASSUME BaseInv, NEW f \in Names, NEW r, NEW whole, NEW webp, Cover(f, r),
         disk' = [disk EXCEPT ![f] = File(r, whole, webp)]
  PROVE  Takes({}, {}) /\ HasFile(r)' /\ Landed(r, f)'
<1> DEFINE L == ghost.lost \cup ((Owners(f) \cup Coming(f)) \ {r})
<1>1. ghost'.lost = L
  BY DEF Cover, BaseInv, GhostType
<1>2. f \in There' /\ disk'[f].row = r
  BY DEF There, File, BaseInv, TypeOK
<1>3. ASSUME NEW g \in There, g # f  PROVE g \in There' /\ disk'[g] = disk[g]
  BY <1>3 DEF There
<1>4. \A q \in Owners(f) \cup Coming(f) : Known(f, q)
  BY <1>1, <1>2 DEF Known
<1>. QED  BY <1>1, <1>2, <1>3, <1>4 DEF Takes, HasFile, Landed

LEMMA TakesRemove ==
  ASSUME disk \in [Names -> Contents], ghost \in GhostType, NEW f, NEW R, NEW X,
         Remove(f, R), (Owners(f) \ X) \cup Coming(f) \subseteq R
  PROVE  Takes(X, {})
<1>1. ghost'.lost = ghost.lost \cup R /\ disk' = [disk EXCEPT ![f] = NoFile]
  BY DEF Remove, GhostType
<1>2. ASSUME NEW g \in There, g # f  PROVE g \in There' /\ disk'[g] = disk[g]
  BY <1>1, <1>2 DEF There
<1>3. \A q \in (Owners(f) \ X) \cup Coming(f) : Known(f, q)
  BY <1>1 DEF Known
<1>. QED  BY <1>1, <1>2, <1>3 DEF Takes

LEMMA OwnersKept ==
  ASSUME NEW X, NEW Y, Takes(X, Y), NEW r \in have, r \notin X, Backed(r),
         r \in titled' <=> r \in titled
  PROVE  Backed(r)'
<1>1. Name(r)' = Name(r)
  BY DEF Name
<1>2. CASE r \in ghost.lost
  BY <1>2 DEF Takes, Backed, HasFile
<1>3. ASSUME NEW f \in There, disk[f].row = r  PROVE Backed(r)'
  BY <1>3 DEF Takes, Backed, HasFile, Owners, Known
<1>4. CASE Name(r) \in There
  BY <1>1, <1>4 DEF Takes, Backed, HasFile, Owners, Known
<1>. QED  BY <1>2, <1>3, <1>4 DEF Backed, HasFile

LEMMA ComersKept ==
  ASSUME FileOK, NEW X, NEW Y, Takes(X, Y), NEW r \in Rows, r \notin Y, HasFile(r),
         InScan \/ r = job[Loader].row
  PROVE  HasFile(r)'
<1>1. ASSUME NEW f \in There, disk[f].row = r  PROVE r \in Coming(f)
  BY <1>1 DEF FileOK, Fits, There, Coming
<1>2. ASSUME NEW f \in There, disk[f].row = r  PROVE HasFile(r)'
  BY <1>1, <1>2 DEF Takes, HasFile, Known
<1>. QED  BY <1>2 DEF HasFile, Takes

(* What must be seen of a step for the rows in hand to stay sure.          *)
LEMMA TrackStep ==
  ASSUME BaseInv, TrackInv, NEW X, NEW Y, Takes(X, Y), \A r \in Y : HasFile(r)',
         job'[Loader].at # "idle" =>
           \/ \E r \in Rows : HasFile(r)' /\ job'[Loader].row = r
           \/ job[Loader].at # "idle" /\ job'[Loader].row = job[Loader].row,
         job'[Api].at = "import" =>
           \/ \E r \in Rows, f \in Names :
                Landed(r, f)' /\ job'[Api].row = r /\ job'[Api].name = f
           \/ Y = {} /\ job'[Api] = job[Api],
         job'[System].at = "apply" /\ job'[System].row # NoRow =>
           \/ \E r \in Rows : HasFile(r)' /\ job'[System].row = r
           \/ job'[System] = job[System],
         job'[System].at \in {"scan", "apply"} => \A r \in job'[System].found :
           HasFile(r)' \/ (Scanning /\ r \in job[System].found)
  PROVE  TrackInv'
<1>0. FileOK /\ LoaderOK /\ SystemOK
  BY DEF BaseInv
<1>1. ASSUME job'[Loader].at # "idle"  PROVE HasFile(job[Loader].row)'
  <2>1. CASE \E r \in Rows : HasFile(r)' /\ job'[Loader].row = r
    BY <2>1 DEF HasFile
  <2>2. CASE job[Loader].at # "idle" /\ job'[Loader].row = job[Loader].row
    <3>1. PICK r \in Rows : r = job[Loader].row
      BY <1>0, <2>2 DEF LoaderOK
    <3>2. HasFile(r)'
      BY <1>0, <2>2, <3>1, ComersKept DEF TrackInv
    <3>. QED  BY <2>2, <3>1, <3>2 DEF HasFile
  <2>. QED  BY <1>1, <2>1, <2>2
<1>2. ASSUME job'[Api].at = "import"  PROVE Landed(job[Api].row, job[Api].name)'
  <2>1. CASE Y = {} /\ job'[Api] = job[Api]
    BY <1>2, <2>1 DEF TrackInv, Landed, Takes, Known, Coming
  <2>2. CASE \E r \in Rows, f \in Names :
               Landed(r, f)' /\ job'[Api].row = r /\ job'[Api].name = f
    BY <2>2 DEF Landed
  <2>. QED  BY <1>2, <2>1, <2>2
<1>3. ASSUME job'[System].at = "apply", job'[System].row # NoRow
      PROVE  HasFile(job[System].row)'
  <2>1. CASE \E r \in Rows : HasFile(r)' /\ job'[System].row = r
    BY <2>1 DEF HasFile
  <2>2. CASE job'[System] = job[System]
    <3>1. PICK r \in Rows : r = job[System].row
      BY <1>0, <1>3, <2>2 DEF SystemOK, Fits
    <3>2. HasFile(r)'
      BY <1>0, <1>3, <2>2, <3>1, ComersKept DEF TrackInv, InScan
    <3>. QED  BY <2>2, <3>1, <3>2 DEF HasFile
  <2>. QED  BY <1>3, <2>1, <2>2
<1>4. ASSUME job'[System].at \in {"scan", "apply"}, NEW r \in job'[System].found
      PROVE  HasFile(r)'
  <2>1. CASE Scanning /\ r \in job[System].found
    BY <1>0, <2>1, ComersKept DEF TrackInv, SystemOK, Scanning, InScan
  <2>. QED  BY <1>4, <2>1
<1>. QED  BY <1>1, <1>2, <1>3, <1>4 DEF TrackInv, Scanning

LEMMA HaveStep ==
  ASSUME HaveInv, NEW X, NEW Y, Takes(X, Y),
         \A r \in have' :
           \/ Backed(r)' \/ Excused(r)'
           \/ /\ r \in have /\ r \notin X /\ (r \in titled' <=> r \in titled)
              /\ ~Excused(r)
  PROVE  HaveInv'
  BY OwnersKept DEF HaveInv

LEMMA KeepInit == Init => KeepInv
  BY DEF Init, KeepInv, TrackInv, HaveInv, Scanning, Idle, Procs

LEMMA KeepNext == BaseInv /\ ScanInv /\ KeepInv /\ [Next]_vars => KeepInv'
<1>0. SUFFICES ASSUME BaseInv, ScanInv, KeepInv, [Next]_vars  PROVE KeepInv'
  OBVIOUS
<1>1. ASSUME ScanList  PROVE KeepInv'
  <2>1. /\ job \in [Procs -> JobType] /\ ghost \in GhostType
        /\ disk \in [Names -> Contents] /\ TrackInv /\ HaveInv
    BY <1>0 DEF BaseInv, TypeOK, KeepInv
  <2>2. /\ job'[System] = [Idle EXCEPT !.at = "scan", !.todo = There]
        /\ \A q \in Procs \ {System} : job'[q] = job[q]
    BY <1>1, <2>1 DEF ScanList, Step, Procs
  <2>3. Takes({}, {})
    BY <1>1, <1>0, <2>1, TakesNone DEF ScanList, GhostType
  <2>7. TrackInv'
    BY <1>1, <1>0, <2>1, <2>2, <2>3, TrackStep DEF JobType, Procs, Idle,
       Scanning, ScanList
  <2>8. HaveInv'
    <3>1. \A q \in have' :
            \/ Backed(q)' \/ Excused(q)'
            \/ /\ q \in have /\ q \notin {} /\ (q \in titled' <=> q \in titled)
               /\ ~Excused(q)
      BY <1>1, <1>0, <2>1, <2>2, <2>3 DEF ScanList, JobType, Procs, Idle,
         Excused, Scanning, Dropping, There, BaseInv, TypeOK, table
    <3>. QED  BY <2>1, <2>3, <3>1, HaveStep
  <2>. QED  BY <2>7, <2>8 DEF KeepInv
<1>2. ASSUME ScanKnown  PROVE KeepInv'
  <2>1. /\ job \in [Procs -> JobType] /\ ghost \in GhostType
        /\ disk \in [Names -> Contents] /\ TrackInv /\ HaveInv
    BY <1>0 DEF BaseInv, TypeOK, KeepInv
  <2>2. /\ job'[System] = [job[System] EXCEPT !.at = "scan", !.row = NoRow, !.name = Idle.name,
                               !.found = job[System].found \cup {job[System].row}]
        /\ \A q \in Procs \ {System} : job'[q] = job[q]
    BY <1>2, <2>1 DEF ScanKnown, Step, Remember, Procs
  <2>3. Takes({}, {})
    BY <1>2, <1>0, <2>1, TakesNone DEF ScanKnown
  <2>4. PICK r \in Rows : r = job[System].row /\ job[System].at = "apply"
    BY <1>2, <1>0 DEF ScanKnown, BaseInv, SystemOK, Fits
  <2>5. HasFile(r)'
    BY <1>2, <2>1, <2>4 DEF ScanKnown, TrackInv, HasFile, There
  <2>7. TrackInv'
    <3>1. /\ Scanning /\ job'[System].at = "scan"
          /\ job'[System].found = job[System].found \cup {r}
          /\ job'[Loader] = job[Loader] /\ job'[Api] = job[Api]
      BY <2>1, <2>2, <2>4 DEF JobType, Procs, Scanning
    <3>. QED  BY <1>0, <2>1, <2>3, <3>1, <2>5, TrackStep DEF Scanning
  <2>8. HaveInv'
    <3>1. \A q \in have' :
            \/ Backed(q)' \/ Excused(q)'
            \/ /\ q \in have /\ q \notin {} /\ (q \in titled' <=> q \in titled)
               /\ ~Excused(q)
      BY <1>2, <1>0, <2>1, <2>2, <2>3, <2>4, <2>5 DEF ScanKnown, JobType,
         Procs, Idle, Excused, Scanning, Dropping, There, BaseInv, TypeOK,
         Backed
    <3>. QED  BY <2>1, <2>3, <3>1, HaveStep
  <2>. QED  BY <2>7, <2>8 DEF KeepInv
<1>3. ASSUME ScanPlain  PROVE KeepInv'
  <2>1. /\ job \in [Procs -> JobType] /\ ghost \in GhostType
        /\ disk \in [Names -> Contents] /\ TrackInv /\ HaveInv
    BY <1>0 DEF BaseInv, TypeOK, KeepInv
  <2>2. /\ job'[System] = [job[System] EXCEPT !.at = "scan", !.name = Idle.name]
        /\ \A q \in Procs \ {System} : job'[q] = job[q]
    BY <1>3, <2>1 DEF ScanPlain, Step, Procs
  <2>3. Takes({}, {})
    BY <1>3, <1>0, <2>1, TakesNone DEF ScanPlain
  <2>7. TrackInv'
    BY <1>3, <1>0, <2>1, <2>2, <2>3, TrackStep DEF JobType, Procs, Idle,
       Scanning, ScanPlain
  <2>8. HaveInv'
    <3>1. \A q \in have' :
            \/ Backed(q)' \/ Excused(q)'
            \/ /\ q \in have /\ q \notin {} /\ (q \in titled' <=> q \in titled)
               /\ ~Excused(q)
      BY <1>3, <1>0, <2>1, <2>2, <2>3 DEF ScanPlain, JobType, Procs, Idle,
         Excused, Scanning, Dropping, There, BaseInv, TypeOK, HasFile, Backed,
         TrackInv
    <3>. QED  BY <2>1, <2>3, <3>1, HaveStep
  <2>. QED  BY <2>7, <2>8 DEF KeepInv
<1>4. ASSUME ScanReconcile  PROVE KeepInv'
  <2>1. /\ job \in [Procs -> JobType] /\ ghost \in GhostType
        /\ disk \in [Names -> Contents] /\ TrackInv /\ HaveInv
    BY <1>0 DEF BaseInv, TypeOK, KeepInv
  <2>2. /\ job'[System] = [job[System] EXCEPT !.at = "drop", !.found = have \ job[System].found]
        /\ \A q \in Procs \ {System} : job'[q] = job[q]
    BY <1>4, <2>1 DEF ScanReconcile, Step, Gather, Procs
  <2>3. Takes({}, {})
    BY <1>4, <1>0, <2>1, TakesNone DEF ScanReconcile, table
  <2>7. TrackInv'
    BY <1>4, <1>0, <2>1, <2>2, <2>3, TrackStep DEF JobType, Procs, Idle,
       Scanning, ScanReconcile
  <2>8. HaveInv'
    <3>1. \A q \in have' :
            \/ Backed(q)' \/ Excused(q)'
            \/ /\ q \in have /\ q \notin {} /\ (q \in titled' <=> q \in titled)
               /\ ~Excused(q)
      BY <1>4, <1>0, <2>1, <2>2, <2>3 DEF ScanReconcile, JobType, Procs, Idle,
         Excused, Scanning, Dropping, There, BaseInv, TypeOK, table
    <3>. QED  BY <2>1, <2>3, <3>1, HaveStep
  <2>. QED  BY <2>7, <2>8 DEF KeepInv
<1>5. ASSUME ScanEnd  PROVE KeepInv'
  <2>1. /\ job \in [Procs -> JobType] /\ ghost \in GhostType
        /\ disk \in [Names -> Contents] /\ TrackInv /\ HaveInv
    BY <1>0 DEF BaseInv, TypeOK, KeepInv
  <2>2. /\ job'[System] = Idle
        /\ \A q \in Procs \ {System} : job'[q] = job[q]
    BY <1>5, <2>1 DEF ScanEnd, Step, Procs
  <2>3. /\ ghost'.lost \subseteq ghost.lost
        /\ ~ghost.calm => ghost'.lost = ghost.lost
        /\ ghost.lost \cap {job[Loader].row, job[Api].row} \subseteq ghost'.lost
    BY <1>5, <2>1 DEF ScanEnd, GhostType
  <2>4. UNCHANGED <<disk, have, titled>> /\ job[System].at = "drop" /\ job[System].found = {}
    BY <1>5 DEF ScanEnd
  <2>5. There' = There /\ \A r \in have : Name(r)' = Name(r)
    BY <2>4 DEF There, Name
  <2>6. TrackInv'
    BY <2>1, <2>2, <2>3, <2>4, <2>5 DEF TrackInv, HasFile, Landed, Scanning,
       Idle, Procs
  <2>7. ASSUME NEW r \in have  PROVE Backed(r)' \/ Excused(r)'
    <3>1. CASE ghost.calm
      <4>1. r \in WithFile
        BY <1>0, <2>4, <3>1 DEF ScanInv, CalmInv, Dropping
      <4>. QED  BY <2>4, <2>5, <4>1 DEF WithFile, Backed, HasFile
    <3>2. CASE Backed(r) /\ ~ghost.calm
      BY <2>3, <2>4, <2>5, <3>2 DEF Backed, HasFile
    <3>3. CASE Excused(r)
      BY <2>2, <2>4, <3>3 DEF Excused, Scanning, Dropping, Procs
    <3>. QED  BY <2>1, <3>1, <3>2, <3>3 DEF HaveInv
  <2>. QED  BY <2>4, <2>6, <2>7 DEF KeepInv, HaveInv
<1>6. ASSUME NEW f \in Names, ScanRead(f)  PROVE KeepInv'
  <2>1. /\ job \in [Procs -> JobType] /\ ghost \in GhostType
        /\ disk \in [Names -> Contents] /\ TrackInv /\ HaveInv
    BY <1>0 DEF BaseInv, TypeOK, KeepInv
  <2>2. /\ job'[System] = [job[System] EXCEPT !.at = "apply", !.todo = job[System].todo \ {f},
                   !.name = f, !.row = IF disk[f].whole THEN disk[f].row ELSE NoRow]
        /\ \A q \in Procs \ {System} : job'[q] = job[q]
    BY <1>6, <2>1 DEF ScanRead, Step, Procs
  <2>3. Takes({}, {})
    BY <1>6, <1>0, <2>1, TakesNone DEF ScanRead, table
  <2>4. PICK r : r = IF disk[f].whole THEN disk[f].row ELSE NoRow
    OBVIOUS
  <2>5. /\ job'[System].row = r /\ job[System].at = "scan" /\ job'[System].at = "apply"
        /\ job'[System].found = job[System].found
    BY <1>6, <2>1, <2>2, <2>4 DEF ScanRead, JobType, Procs
  <2>6. r # NoRow => r \in Rows /\ HasFile(r)'
    BY <1>6, <1>0, <2>1, <2>4 DEF ScanRead, table, BaseInv, FileOK, Fits,
       NoFile, HasFile, There
  <2>7. TrackInv'
    <3>1. /\ Scanning /\ job'[System].at = "apply"
          /\ job'[System].found = job[System].found /\ job'[System].row = r
          /\ job'[Loader] = job[Loader] /\ job'[Api] = job[Api]
      BY <2>2, <2>5 DEF Procs, Scanning
    <3>. QED  BY <1>0, <2>1, <2>3, <3>1, <2>6, TrackStep DEF Scanning
  <2>8. HaveInv'
    <3>1. \A q \in have' :
            \/ Backed(q)' \/ Excused(q)'
            \/ /\ q \in have /\ q \notin {} /\ (q \in titled' <=> q \in titled)
               /\ ~Excused(q)
      BY <1>6, <1>0, <2>1, <2>2, <2>3, <2>5, <2>6 DEF ScanRead, JobType, Procs,
         Idle, Excused, Scanning, Dropping, There, BaseInv, TypeOK, table
    <3>. QED  BY <2>1, <2>3, <3>1, HaveStep
  <2>. QED  BY <2>7, <2>8 DEF KeepInv
<1>7. ASSUME NEW f \in Names, PurgeFile(f)  PROVE KeepInv'
  <2>1. /\ job \in [Procs -> JobType] /\ ghost \in GhostType
        /\ disk \in [Names -> Contents] /\ TrackInv /\ HaveInv
    BY <1>0 DEF BaseInv, TypeOK, KeepInv
  <2>2. /\ job'[Api] = [job[Api] EXCEPT !.todo = job[Api].todo \ {f}]
        /\ \A q \in Procs \ {Api} : job'[q] = job[q]
    BY <1>7, <2>1 DEF PurgeFile, Step, Procs
  <2>3. Takes({}, {})
    BY <1>7, <2>1, TakesRemove DEF PurgeFile
  <2>7. TrackInv'
    BY <1>7, <1>0, <2>1, <2>2, <2>3, TrackStep DEF JobType, Procs, Idle,
       Scanning, PurgeFile
  <2>8. HaveInv'
    <3>1. \A q \in have' :
            \/ Backed(q)' \/ Excused(q)'
            \/ /\ q \in have /\ q \notin {} /\ (q \in titled' <=> q \in titled)
               /\ ~Excused(q)
      BY <1>7, <1>0, <2>1, <2>2, <2>3 DEF PurgeFile, JobType, Procs, Idle,
         Excused, Scanning, Dropping, There, BaseInv, TypeOK, table
    <3>. QED  BY <2>1, <2>3, <3>1, HaveStep
  <2>. QED  BY <2>7, <2>8 DEF KeepInv
<1>8. ASSUME NEW f \in Names, Take(f)  PROVE KeepInv'
  <2>1. /\ job \in [Procs -> JobType] /\ ghost \in GhostType
        /\ disk \in [Names -> Contents] /\ TrackInv /\ HaveInv
    BY <1>0 DEF BaseInv, TypeOK, KeepInv
  <2>2. job' = job
    BY <1>8 DEF Take
  <2>3. Takes({}, {})
    BY <1>8, <2>1, TakesRemove DEF Take
  <2>7. TrackInv'
    BY <1>8, <1>0, <2>1, <2>2, <2>3, TrackStep DEF JobType, Procs, Idle,
       Scanning, Take
  <2>8. HaveInv'
    <3>1. \A q \in have' :
            \/ Backed(q)' \/ Excused(q)'
            \/ /\ q \in have /\ q \notin {} /\ (q \in titled' <=> q \in titled)
               /\ ~Excused(q)
      BY <1>8, <1>0, <2>1, <2>2, <2>3 DEF Take, JobType, Procs, Idle, Excused,
         Scanning, Dropping, There, BaseInv, TypeOK, table
    <3>. QED  BY <2>1, <2>3, <3>1, HaveStep
  <2>. QED  BY <2>7, <2>8 DEF KeepInv
<1>9. ASSUME NEW r \in Rows, ScanDrop(r)  PROVE KeepInv'
  <2>1. /\ job \in [Procs -> JobType] /\ ghost \in GhostType
        /\ disk \in [Names -> Contents] /\ TrackInv /\ HaveInv
    BY <1>0 DEF BaseInv, TypeOK, KeepInv
  <2>2. /\ job'[System] = [job[System] EXCEPT !.found = job[System].found \ {r}]
        /\ \A q \in Procs \ {System} : job'[q] = job[q]
    BY <1>9, <2>1 DEF ScanDrop, Step, Procs
  <2>3. Takes({}, {})
    BY <1>9, <1>0, <2>1, TakesNone DEF ScanDrop
  <2>7. TrackInv'
    BY <1>9, <1>0, <2>1, <2>2, <2>3, TrackStep DEF JobType, Procs, Idle,
       Scanning, ScanDrop
  <2>8. HaveInv'
    <3>1. \A q \in have' :
            \/ Backed(q)' \/ Excused(q)'
            \/ /\ q \in have /\ q \notin {} /\ (q \in titled' <=> q \in titled)
               /\ ~Excused(q)
      BY <1>9, <1>0, <2>1, <2>2, <2>3 DEF ScanDrop, JobType, Procs, Idle,
         Excused, Scanning, Dropping, There, BaseInv, TypeOK, DropRow
    <3>. QED  BY <2>1, <2>3, <3>1, HaveStep
  <2>. QED  BY <2>7, <2>8 DEF KeepInv
<1>10. ASSUME NEW r \in Rows, OptimiseRead(r)  PROVE KeepInv'
  <2>1. /\ job \in [Procs -> JobType] /\ ghost \in GhostType
        /\ disk \in [Names -> Contents] /\ TrackInv /\ HaveInv
    BY <1>0 DEF BaseInv, TypeOK, KeepInv
  <2>2. /\ job'[System] = [Idle EXCEPT !.at = "pack", !.name = <<NumberOf[r], "plain">>,
                        !.copy = disk[<<NumberOf[r], "plain">>]]
        /\ \A q \in Procs \ {System} : job'[q] = job[q]
    BY <1>10, <2>1 DEF OptimiseRead, Step, Procs
  <2>3. Takes({}, {})
    BY <1>10, <1>0, <2>1, TakesNone DEF OptimiseRead
  <2>7. TrackInv'
    BY <1>10, <1>0, <2>1, <2>2, <2>3, TrackStep DEF JobType, Procs, Idle,
       Scanning, OptimiseRead
  <2>8. HaveInv'
    <3>1. \A q \in have' :
            \/ Backed(q)' \/ Excused(q)'
            \/ /\ q \in have /\ q \notin {} /\ (q \in titled' <=> q \in titled)
               /\ ~Excused(q)
      BY <1>10, <1>0, <2>1, <2>2, <2>3 DEF OptimiseRead, JobType, Procs, Idle,
         Excused, Scanning, Dropping, There, BaseInv, TypeOK, table
    <3>. QED  BY <2>1, <2>3, <3>1, HaveStep
  <2>. QED  BY <2>7, <2>8 DEF KeepInv
<1>11. ASSUME NEW r \in Rows, RewriteRead(r)  PROVE KeepInv'
  <2>1. /\ job \in [Procs -> JobType] /\ ghost \in GhostType
        /\ disk \in [Names -> Contents] /\ TrackInv /\ HaveInv
    BY <1>0 DEF BaseInv, TypeOK, KeepInv
  <2>2. /\ job'[System] = [Idle EXCEPT !.at = "rename", !.row = r, !.name = Name(r),
                        !.copy = disk[Name(r)]]
        /\ \A q \in Procs \ {System} : job'[q] = job[q]
    BY <1>11, <2>1 DEF RewriteRead, Step, Procs
  <2>3. Takes({}, {})
    BY <1>11, <1>0, <2>1, TakesNone DEF RewriteRead
  <2>7. TrackInv'
    BY <1>11, <1>0, <2>1, <2>2, <2>3, TrackStep DEF JobType, Procs, Idle,
       Scanning, RewriteRead
  <2>8. HaveInv'
    <3>1. \A q \in have' :
            \/ Backed(q)' \/ Excused(q)'
            \/ /\ q \in have /\ q \notin {} /\ (q \in titled' <=> q \in titled)
               /\ ~Excused(q)
      BY <1>11, <1>0, <2>1, <2>2, <2>3 DEF RewriteRead, JobType, Procs, Idle,
         Excused, Scanning, Dropping, There, BaseInv, TypeOK, table
    <3>. QED  BY <2>1, <2>3, <3>1, HaveStep
  <2>. QED  BY <2>7, <2>8 DEF KeepInv
<1>12. ASSUME NEW r \in Rows, DownloadOpen(r)  PROVE KeepInv'
  <2>1. /\ job \in [Procs -> JobType] /\ ghost \in GhostType
        /\ disk \in [Names -> Contents] /\ TrackInv /\ HaveInv
    BY <1>0 DEF BaseInv, TypeOK, KeepInv
  <2>2. /\ job'[Loader] = [Idle EXCEPT !.at = "write", !.row = r, !.name = Name(r)]
        /\ \A q \in Procs \ {Loader} : job'[q] = job[q]
    BY <1>12, <2>1 DEF DownloadOpen, Step, Procs
  <2>4. PICK f \in Names : f = Name(r)
    BY NameFits
  <2>5. Cover(f, r) /\ disk' = [disk EXCEPT ![f] = File(r, FALSE, FALSE)]
    BY <1>12, <2>4 DEF DownloadOpen
  <2>3. Takes({}, {}) /\ HasFile(r)'
    BY <1>0, <2>5, CoverTakes
  <2>7. TrackInv'
    BY <1>12, <1>0, <2>1, <2>2, <2>3, <2>4, TrackStep DEF JobType, Procs, Idle,
       Scanning, DownloadOpen
  <2>8. HaveInv'
    <3>1. \A q \in have' :
            \/ Backed(q)' \/ Excused(q)'
            \/ /\ q \in have /\ q \notin {} /\ (q \in titled' <=> q \in titled)
               /\ ~Excused(q)
      BY <1>12, <1>0, <2>1, <2>2, <2>3, <2>4 DEF DownloadOpen, JobType, Procs,
         Idle, Excused, Scanning, Dropping, There, BaseInv, TypeOK, table
    <3>. QED  BY <2>1, <2>3, <3>1, HaveStep
  <2>. QED  BY <2>7, <2>8 DEF KeepInv
<1>13. ASSUME NEW r \in Rows, DeleteFile(r)  PROVE KeepInv'
  <2>1. /\ job \in [Procs -> JobType] /\ ghost \in GhostType
        /\ disk \in [Names -> Contents] /\ TrackInv /\ HaveInv
    BY <1>0 DEF BaseInv, TypeOK, KeepInv
  <2>2. /\ job'[Api] = [Idle EXCEPT !.at = "missing", !.row = r]
        /\ \A q \in Procs \ {Api} : job'[q] = job[q]
    BY <1>13, <2>1 DEF DeleteFile, Step, Procs
  <2>3. Takes({r}, {})
    <3>1. CASE r \in have
      BY <1>13, <2>1, <3>1, NameFits, TakesRemove DEF DeleteFile
    <3>2. CASE r \notin have
      BY <1>13, <3>2, TakesNone DEF DeleteFile
    <3>. QED  BY <3>1, <3>2
  <2>7. TrackInv'
    BY <1>13, <1>0, <2>1, <2>2, <2>3, TrackStep DEF JobType, Procs, Idle,
       Scanning, DeleteFile
  <2>8. HaveInv'
    <3>1. \A q \in have' :
            \/ Backed(q)' \/ Excused(q)'
            \/ /\ q \in have /\ q \notin {r} /\ (q \in titled' <=> q \in titled)
               /\ ~Excused(q)
      BY <1>13, <1>0, <2>1, <2>2, <2>3 DEF DeleteFile, JobType, Procs, Idle,
         Excused, Scanning, Dropping, There, BaseInv, TypeOK, table
    <3>. QED  BY <2>1, <2>3, <3>1, HaveStep
  <2>. QED  BY <2>7, <2>8 DEF KeepInv
<1>14. ASSUME NEW r \in Rows, Backfill(r)  PROVE KeepInv'
  <2>1. /\ job \in [Procs -> JobType] /\ ghost \in GhostType
        /\ disk \in [Names -> Contents] /\ TrackInv /\ HaveInv
    BY <1>0 DEF BaseInv, TypeOK, KeepInv
  <2>2. job' = job
    BY <1>14 DEF Backfill
  <2>3. /\ ghost'.lost = ghost.lost \cup (({r} \cap have) \cup ({r} \cap {job[Loader].row}))
        /\ Takes({}, {})
    BY <1>14, <2>1, TakesNone DEF Backfill, GhostType
  <2>7. TrackInv'
    <3>1. /\ job' = job
          /\ Scanning => job'[System].at \in {"scan", "apply"}
      BY <2>2 DEF Scanning
    <3>. QED  BY <1>0, <2>1, <2>3, <3>1, TrackStep DEF Scanning
  <2>8. HaveInv'
    <3>1. \A q \in have' :
            \/ Backed(q)' \/ Excused(q)'
            \/ /\ q \in have /\ q \notin {} /\ (q \in titled' <=> q \in titled)
               /\ ~Excused(q)
      BY <1>14, <1>0, <2>1, <2>2, <2>3 DEF Backfill, JobType, Procs, Idle,
         Excused, Scanning, Dropping, There, BaseInv, TypeOK, Backed, HasFile
    <3>. QED  BY <2>1, <2>3, <3>1, HaveStep
  <2>. QED  BY <2>7, <2>8 DEF KeepInv
<1>15. ASSUME OptimiseOpen  PROVE KeepInv'
  <2>1. /\ job \in [Procs -> JobType] /\ ghost \in GhostType
        /\ disk \in [Names -> Contents] /\ TrackInv /\ HaveInv
    BY <1>0 DEF BaseInv, TypeOK, KeepInv
  <2>2. /\ job'[System] = [job[System] EXCEPT !.at = "fill"]
        /\ \A q \in Procs \ {System} : job'[q] = job[q]
    BY <1>15, <2>1 DEF OptimiseOpen, Step, Goto, Procs
  <2>4. PICK f \in Names, r \in Rows \cup {NoRow}, webp \in BOOLEAN :
               /\ f = job[System].name /\ r = job[System].copy.row
               /\ Cover(f, r) /\ disk' = [disk EXCEPT ![f] = File(r, FALSE, TRUE)]
    BY <1>15, <1>0, <2>1 DEF OptimiseOpen, BaseInv, SystemOK, Fits, JobType,
       Contents, Procs
  <2>3. Takes({}, {})
    BY <1>0, <2>4, CoverTakes
  <2>7. TrackInv'
    <3>1. /\ job'[System].at = "fill"
          /\ job'[Loader] = job[Loader] /\ job'[Api] = job[Api]
      BY <2>1, <2>2 DEF JobType, Procs
    <3>. QED  BY <1>0, <2>1, <2>3, <3>1, TrackStep DEF Scanning
  <2>8. HaveInv'
    <3>1. \A q \in have' :
            \/ Backed(q)' \/ Excused(q)'
            \/ /\ q \in have /\ q \notin {} /\ (q \in titled' <=> q \in titled)
               /\ ~Excused(q)
      BY <1>15, <1>0, <2>1, <2>2, <2>3, <2>4 DEF OptimiseOpen, JobType, Procs,
         Idle, Excused, Scanning, Dropping, There, BaseInv, TypeOK, table
    <3>. QED  BY <2>1, <2>3, <3>1, HaveStep
  <2>. QED  BY <2>7, <2>8 DEF KeepInv
<1>16. ASSUME OptimiseFill  PROVE KeepInv'
  <2>1. /\ job \in [Procs -> JobType] /\ ghost \in GhostType
        /\ disk \in [Names -> Contents] /\ TrackInv /\ HaveInv
    BY <1>0 DEF BaseInv, TypeOK, KeepInv
  <2>2. /\ job'[System] = Idle
        /\ \A q \in Procs \ {System} : job'[q] = job[q]
    BY <1>16, <2>1 DEF OptimiseFill, Step, Procs
  <2>3. Takes({}, {})
    <3>0. PICK n, x : n = job[System].name /\ x = File(job[System].copy.row, TRUE, TRUE)
      OBVIOUS
    <3>1. x.there /\ x.row = job[System].copy.row
      BY <3>0 DEF File
    <3>2. \/ disk' = disk
          \/ disk' = [disk EXCEPT ![n] = x] /\ (disk[n].there => disk[n].row = x.row)
      BY <1>16, <3>0, <3>1 DEF OptimiseFill, File, There
    <3>3. ghost'.lost = ghost.lost
      BY <1>16, <2>1 DEF OptimiseFill, Touch, GhostType
    <3>. QED  BY <2>1, <3>1, <3>2, <3>3, TouchTakes
  <2>7. TrackInv'
    BY <1>16, <1>0, <2>1, <2>2, <2>3, TrackStep DEF JobType, Procs, Idle,
       Scanning, OptimiseFill
  <2>8. HaveInv'
    <3>1. \A q \in have' :
            \/ Backed(q)' \/ Excused(q)'
            \/ /\ q \in have /\ q \notin {} /\ (q \in titled' <=> q \in titled)
               /\ ~Excused(q)
      BY <1>16, <1>0, <2>1, <2>2, <2>3 DEF OptimiseFill, JobType, Procs, Idle,
         Excused, Scanning, Dropping, There, BaseInv, TypeOK, table
    <3>. QED  BY <2>1, <2>3, <3>1, HaveStep
  <2>. QED  BY <2>7, <2>8 DEF KeepInv
<1>17. ASSUME RewriteRename  PROVE KeepInv'
  <2>1. /\ job \in [Procs -> JobType] /\ ghost \in GhostType
        /\ disk \in [Names -> Contents] /\ TrackInv /\ HaveInv
    BY <1>0 DEF BaseInv, TypeOK, KeepInv
  <2>2. /\ job'[System] = Idle
        /\ \A q \in Procs \ {System} : job'[q] = job[q]
    BY <1>17, <2>1 DEF RewriteRename, Step, Procs
  <2>4. PICK f \in Names, r \in Rows \cup {NoRow}, webp \in BOOLEAN :
               /\ f = job[System].name /\ r = job[System].row
               /\ Cover(f, r) /\ disk' = [disk EXCEPT ![f] = File(r, TRUE, webp)]
    BY <1>17, <1>0, <2>1 DEF RewriteRename, BaseInv, SystemOK, Fits, JobType,
       Contents, Procs
  <2>3. Takes({}, {})
    BY <1>0, <2>4, CoverTakes
  <2>7. TrackInv'
    BY <1>17, <1>0, <2>1, <2>2, <2>3, <2>4, TrackStep DEF JobType, Procs, Idle,
       Scanning, RewriteRename
  <2>8. HaveInv'
    <3>1. \A q \in have' :
            \/ Backed(q)' \/ Excused(q)'
            \/ /\ q \in have /\ q \notin {} /\ (q \in titled' <=> q \in titled)
               /\ ~Excused(q)
      BY <1>17, <1>0, <2>1, <2>2, <2>3, <2>4 DEF RewriteRename, JobType, Procs,
         Idle, Excused, Scanning, Dropping, There, BaseInv, TypeOK, table
    <3>. QED  BY <2>1, <2>3, <3>1, HaveStep
  <2>. QED  BY <2>7, <2>8 DEF KeepInv
<1>18. ASSUME DownloadWrite  PROVE KeepInv'
  <2>1. /\ job \in [Procs -> JobType] /\ ghost \in GhostType
        /\ disk \in [Names -> Contents] /\ TrackInv /\ HaveInv
    BY <1>0 DEF BaseInv, TypeOK, KeepInv
  <2>2. /\ job'[Loader] = [job[Loader] EXCEPT !.at = "mark"]
        /\ \A q \in Procs \ {Loader} : job'[q] = job[q]
    BY <1>18, <2>1 DEF DownloadWrite, Step, Goto, Procs
  <2>3. Takes({}, {})
    <3>0. PICK n, x : n = job[Loader].name /\ x = File(job[Loader].row, TRUE, FALSE)
      OBVIOUS
    <3>1. x.there /\ x.row = job[Loader].row
      BY <3>0 DEF File
    <3>2. \/ disk' = disk
          \/ disk' = [disk EXCEPT ![n] = x] /\ (disk[n].there => disk[n].row = x.row)
      BY <1>18, <3>0, <3>1 DEF DownloadWrite, File, There
    <3>3. ghost'.lost = ghost.lost
      BY <1>18, <2>1 DEF DownloadWrite, Touch, GhostType
    <3>. QED  BY <2>1, <3>1, <3>2, <3>3, TouchTakes
  <2>7. TrackInv'
    <3>1. /\ job[Loader].at = "write" /\ job'[Loader].row = job[Loader].row
          /\ job'[System] = job[System] /\ job'[Api] = job[Api]
      BY <1>18, <2>1, <2>2 DEF DownloadWrite, JobType, Procs
    <3>. QED  BY <1>0, <2>1, <2>3, <3>1, TrackStep DEF Scanning
  <2>8. HaveInv'
    <3>1. \A q \in have' :
            \/ Backed(q)' \/ Excused(q)'
            \/ /\ q \in have /\ q \notin {} /\ (q \in titled' <=> q \in titled)
               /\ ~Excused(q)
      BY <1>18, <1>0, <2>1, <2>2, <2>3 DEF DownloadWrite, JobType, Procs, Idle,
         Excused, Scanning, Dropping, There, BaseInv, TypeOK, table
    <3>. QED  BY <2>1, <2>3, <3>1, HaveStep
  <2>. QED  BY <2>7, <2>8 DEF KeepInv
<1>19. ASSUME DownloadMark  PROVE KeepInv'
  <2>1. /\ job \in [Procs -> JobType] /\ ghost \in GhostType
        /\ disk \in [Names -> Contents] /\ TrackInv /\ HaveInv
    BY <1>0 DEF BaseInv, TypeOK, KeepInv
  <2>2. /\ job'[Loader] = Idle
        /\ \A q \in Procs \ {Loader} : job'[q] = job[q]
    BY <1>19, <2>1 DEF DownloadMark, Step, Procs
  <2>3. Takes({}, {})
    BY <1>19, <1>0, <2>1, Disturbed, TakesNone DEF DownloadMark
  <2>4. PICK r \in Rows : r = job[Loader].row
    BY <1>19, <1>0 DEF DownloadMark, BaseInv, LoaderOK
  <2>5. HasFile(r)'
    BY <1>19, <1>0, <2>1, <2>4, Disturbed DEF DownloadMark, TrackInv, HasFile,
       There
  <2>7. TrackInv'
    BY <1>19, <1>0, <2>1, <2>2, <2>3, <2>4, <2>5, TrackStep DEF JobType, Procs,
       Idle, Scanning, DownloadMark
  <2>8. HaveInv'
    <3>1. \A q \in have' :
            \/ Backed(q)' \/ Excused(q)'
            \/ /\ q \in have /\ q \notin {} /\ (q \in titled' <=> q \in titled)
               /\ ~Excused(q)
      BY <1>19, <1>0, <2>1, <2>2, <2>3, <2>4, <2>5 DEF DownloadMark, JobType,
         Procs, Idle, Excused, Scanning, Dropping, There, BaseInv, TypeOK,
         Backed
    <3>. QED  BY <2>1, <2>3, <3>1, HaveStep
  <2>. QED  BY <2>7, <2>8 DEF KeepInv
<1>20. ASSUME DeleteMark  PROVE KeepInv'
  <2>1. /\ job \in [Procs -> JobType] /\ ghost \in GhostType
        /\ disk \in [Names -> Contents] /\ TrackInv /\ HaveInv
    BY <1>0 DEF BaseInv, TypeOK, KeepInv
  <2>2. /\ job'[Api] = Idle
        /\ \A q \in Procs \ {Api} : job'[q] = job[q]
    BY <1>20, <2>1 DEF DeleteMark, Step, Procs
  <2>3. Takes({}, {})
    BY <1>20, <1>0, <2>1, Disturbed, TakesNone DEF DeleteMark
  <2>7. TrackInv'
    BY <1>20, <1>0, <2>1, <2>2, <2>3, TrackStep DEF JobType, Procs, Idle,
       Scanning, DeleteMark
  <2>8. HaveInv'
    <3>1. \A q \in have' :
            \/ Backed(q)' \/ Excused(q)'
            \/ /\ q \in have /\ q \notin {} /\ (q \in titled' <=> q \in titled)
               /\ ~Excused(q)
      BY <1>20, <1>0, <2>1, <2>2, <2>3 DEF DeleteMark, JobType, Procs, Idle,
         Excused, Scanning, Dropping, There, BaseInv, TypeOK, table
    <3>. QED  BY <2>1, <2>3, <3>1, HaveStep
  <2>. QED  BY <2>7, <2>8 DEF KeepInv
<1>21. ASSUME PurgeList  PROVE KeepInv'
  <2>1. /\ job \in [Procs -> JobType] /\ ghost \in GhostType
        /\ disk \in [Names -> Contents] /\ TrackInv /\ HaveInv
    BY <1>0 DEF BaseInv, TypeOK, KeepInv
  <2>2. /\ job'[Api] = [Idle EXCEPT !.at = "purge", !.todo = There, !.found = {Name(r) : r \in have}]
        /\ \A q \in Procs \ {Api} : job'[q] = job[q]
    BY <1>21, <2>1 DEF PurgeList, Step, Procs
  <2>3. Takes({}, {})
    BY <1>21, <1>0, <2>1, TakesNone DEF PurgeList
  <2>7. TrackInv'
    BY <1>21, <1>0, <2>1, <2>2, <2>3, TrackStep DEF JobType, Procs, Idle,
       Scanning, PurgeList
  <2>8. HaveInv'
    <3>1. \A q \in have' :
            \/ Backed(q)' \/ Excused(q)'
            \/ /\ q \in have /\ q \notin {} /\ (q \in titled' <=> q \in titled)
               /\ ~Excused(q)
      BY <1>21, <1>0, <2>1, <2>2, <2>3 DEF PurgeList, JobType, Procs, Idle,
         Excused, Scanning, Dropping, There, BaseInv, TypeOK, table
    <3>. QED  BY <2>1, <2>3, <3>1, HaveStep
  <2>. QED  BY <2>7, <2>8 DEF KeepInv
<1>22. ASSUME PurgeEnd  PROVE KeepInv'
  <2>1. /\ job \in [Procs -> JobType] /\ ghost \in GhostType
        /\ disk \in [Names -> Contents] /\ TrackInv /\ HaveInv
    BY <1>0 DEF BaseInv, TypeOK, KeepInv
  <2>2. /\ job'[Api] = Idle
        /\ \A q \in Procs \ {Api} : job'[q] = job[q]
    BY <1>22, <2>1 DEF PurgeEnd, Step, Procs
  <2>3. Takes({}, {})
    BY <1>22, <1>0, <2>1, TakesNone DEF PurgeEnd
  <2>7. TrackInv'
    BY <1>22, <1>0, <2>1, <2>2, <2>3, TrackStep DEF JobType, Procs, Idle,
       Scanning, PurgeEnd
  <2>8. HaveInv'
    <3>1. \A q \in have' :
            \/ Backed(q)' \/ Excused(q)'
            \/ /\ q \in have /\ q \notin {} /\ (q \in titled' <=> q \in titled)
               /\ ~Excused(q)
      BY <1>22, <1>0, <2>1, <2>2, <2>3 DEF PurgeEnd, JobType, Procs, Idle,
         Excused, Scanning, Dropping, There, BaseInv, TypeOK, table
    <3>. QED  BY <2>1, <2>3, <3>1, HaveStep
  <2>. QED  BY <2>7, <2>8 DEF KeepInv
<1>23. ASSUME NEW f \in Names, NEW r \in Rows, NEW g \in Names, ImportRename(f, r, g)
      PROVE  KeepInv'
  <2>1. /\ job \in [Procs -> JobType] /\ ghost \in GhostType
        /\ disk \in [Names -> Contents] /\ TrackInv /\ HaveInv
    BY <1>0 DEF BaseInv, TypeOK, KeepInv
  <2>2. /\ job'[Api] = [Idle EXCEPT !.at = "import", !.row = r, !.name = f, !.todo = {g} \ {f}]
        /\ \A q \in Procs \ {Api} : job'[q] = job[q]
    BY <1>23, <2>1 DEF ImportRename, Step, Procs
  <2>3. Takes({}, {}) /\ Landed(r, f)'
    BY <1>23, <1>0, CoverTakes DEF ImportRename
  <2>7. TrackInv'
    <3>1. /\ job'[Api].row = r /\ job'[Api].name = f
          /\ job'[Loader] = job[Loader] /\ job'[System] = job[System]
      BY <2>1, <2>2 DEF JobType, Procs, Idle
    <3>. QED  BY <1>0, <2>1, <2>3, <3>1, TrackStep DEF Scanning
  <2>8. HaveInv'
    <3>1. \A q \in have' :
            \/ Backed(q)' \/ Excused(q)'
            \/ /\ q \in have /\ q \notin {} /\ (q \in titled' <=> q \in titled)
               /\ ~Excused(q)
      BY <1>23, <1>0, <2>1, <2>2, <2>3 DEF ImportRename, JobType, Procs, Idle,
         Excused, Scanning, Dropping, There, BaseInv, TypeOK, table
    <3>. QED  BY <2>1, <2>3, <3>1, HaveStep
  <2>. QED  BY <2>7, <2>8 DEF KeepInv
<1>24. ASSUME ImportRow  PROVE KeepInv'
  <2>1. /\ job \in [Procs -> JobType] /\ ghost \in GhostType
        /\ disk \in [Names -> Contents] /\ TrackInv /\ HaveInv
    BY <1>0 DEF BaseInv, TypeOK, KeepInv
  <2>2. /\ job'[Api] = Idle
        /\ \A q \in Procs \ {Api} : job'[q] = job[q]
    BY <1>24, <2>1 DEF ImportRow, Step, Procs
  <2>0. PICK r : r = job[Api].row
    OBVIOUS
  <2> DEFINE gone == job[Api].todo
         R == UNION {(Owners(f) \cup Coming(f)) \ {r} : f \in gone}
  <2>3. /\ r \in Rows /\ job[Api].name \in Names /\ job[Api].name \notin gone
        /\ job[Api].at = "import"
    BY <1>24, <1>0, <2>0 DEF ImportRow, BaseInv, ApiOK
  <2>4. /\ disk' = [f \in Names |-> IF f \in gone THEN NoFile ELSE disk[f]]
        /\ ghost'.lost = ghost.lost \cup R
    BY <1>24, <2>0, <2>1 DEF ImportRow, GhostType
  <2>5. Takes({r}, {r})
    BY <2>1, <2>4 DEF Takes, Known, There
  <2>6. HasFile(r)'
    BY <2>0, <2>1, <2>3, <2>4 DEF TrackInv, Landed, HasFile, There
  <2>7. TrackInv'
    BY <1>24, <1>0, <2>0, <2>1, <2>2, <2>3, <2>5, <2>6, TrackStep DEF JobType,
       Procs, Idle, Scanning, ImportRow
  <2>8. HaveInv'
    <3>1. \A q \in have' :
            \/ Backed(q)' \/ Excused(q)'
            \/ /\ q \in have /\ q \notin {r} /\ (q \in titled' <=> q \in titled)
               /\ ~Excused(q)
      BY <1>24, <1>0, <2>0, <2>1, <2>2, <2>3, <2>5, <2>6 DEF ImportRow,
         JobType, Procs, Idle, Excused, Scanning, Dropping, There, BaseInv,
         TypeOK, Backed
    <3>. QED  BY <2>1, <2>5, <3>1, HaveStep
  <2>. QED  BY <2>7, <2>8 DEF KeepInv
<1>25. ASSUME NEW f \in Names, NEW r \in Rows \cup {NoRow}, Put(f, r)
      PROVE  KeepInv'
  <2>1. /\ job \in [Procs -> JobType] /\ ghost \in GhostType
        /\ disk \in [Names -> Contents] /\ TrackInv /\ HaveInv
    BY <1>0 DEF BaseInv, TypeOK, KeepInv
  <2>2. job' = job
    BY <1>25 DEF Put
  <2>3. Takes({}, {})
    <3>0. PICK n, x : n = f /\ x = File(r, TRUE, FALSE)
      OBVIOUS
    <3>1. x.there /\ x.row = r
      BY <3>0 DEF File
    <3>2. \/ disk' = disk
          \/ disk' = [disk EXCEPT ![n] = x] /\ (disk[n].there => disk[n].row = x.row)
      BY <1>25, <3>0, <3>1 DEF Put, File, There
    <3>3. ghost'.lost = ghost.lost
      BY <1>25, <2>1 DEF Put, Touch, GhostType
    <3>. QED  BY <2>1, <3>1, <3>2, <3>3, TouchTakes
  <2>7. TrackInv'
    BY <1>25, <1>0, <2>1, <2>2, <2>3, TrackStep DEF JobType, Procs, Idle,
       Scanning, Put
  <2>8. HaveInv'
    <3>1. \A q \in have' :
            \/ Backed(q)' \/ Excused(q)'
            \/ /\ q \in have /\ q \notin {} /\ (q \in titled' <=> q \in titled)
               /\ ~Excused(q)
      BY <1>25, <1>0, <2>1, <2>2, <2>3 DEF Put, JobType, Procs, Idle, Excused,
         Scanning, Dropping, There, BaseInv, TypeOK, table
    <3>. QED  BY <2>1, <2>3, <3>1, HaveStep
  <2>. QED  BY <2>7, <2>8 DEF KeepInv
<1>26. ASSUME Crash  PROVE KeepInv'
  <2>1. /\ job \in [Procs -> JobType] /\ ghost \in GhostType
        /\ disk \in [Names -> Contents] /\ TrackInv /\ HaveInv
    BY <1>0 DEF BaseInv, TypeOK, KeepInv
  <2>2. \A p \in Procs : job'[p] = Idle
    BY <1>26 DEF Crash
  <2>3. /\ UNCHANGED <<disk, have, titled>> /\ ghost.lost \subseteq ghost'.lost
        /\ {job[Api].row} \ {NoRow} \subseteq ghost'.lost
        /\ InScan => have \subseteq ghost'.lost
    BY <1>26, <2>1 DEF Crash, table, GhostType
  <2>4. There' = There /\ \A r \in have : Name(r)' = Name(r)
    BY <2>3 DEF There, Name
  <2>5. TrackInv'
    BY <2>2 DEF TrackInv, Scanning, Idle, Procs
  <2>6. ASSUME NEW r \in have  PROVE Backed(r)'
    <3>1. CASE Backed(r)
      BY <2>3, <2>4, <3>1 DEF Backed, HasFile
    <3>2. CASE Excused(r)
      BY <1>0, <2>3, <3>2 DEF Excused, Scanning, Dropping, InScan, Backed,
         HasFile, BaseInv, ApiOK
    <3>. QED  BY <2>1, <3>1, <3>2 DEF HaveInv
  <2>. QED  BY <2>3, <2>5, <2>6 DEF KeepInv, HaveInv
<1>27. CASE UNCHANGED vars
  BY <1>27, <1>0 DEF vars, table, KeepInv, TrackInv, HaveInv, HasFile, Landed,
     Backed, Name, Excused, Scanning, Dropping, There
<1>28. ASSUME ScanNowhere  PROVE KeepInv'
  BY <1>28, <1>0 DEF ScanNowhere, table, KeepInv, TrackInv, HaveInv, HasFile, Landed,
     Backed, Name, Excused, Scanning, Dropping, There
<1>. QED  BY <1>0, <1>1, <1>2, <1>3, <1>4, <1>5, <1>6, <1>7, <1>8, <1>9, <1>10,
             <1>11, <1>12, <1>13, <1>14, <1>15, <1>16, <1>17, <1>18, <1>19,
             <1>20, <1>21, <1>22, <1>23, <1>24, <1>25, <1>26, <1>27, <1>28 DEF Next

-----------------------------------------------------------------------------
(* A row, a file and a step of each process always belong to the series    *)
(* and to one another: the types of the model's variables.                 *)
THEOREM ScanTypeCorrect == Spec => []TypeOK
<1>1. BaseInv => TypeOK
  BY DEF BaseInv
<1>. QED  BY <1>1, BaseInit, BaseNext, PTL DEF Spec

LEMMA ScanInvariant == Spec => [](BaseInv /\ ScanInv)
<1> DEFINE I == BaseInv /\ ScanInv
<1>1. Init => I
  BY BaseInit, ScanInit
<1>2. I /\ [Next]_vars => I'
  BY BaseNext, ScanNext
<1>. HIDE DEF I
<1>3. Spec => []I
  BY <1>1, <1>2, PTL DEF Spec
<1>. QED  BY <1>3 DEF I

(* Whatever happens meanwhile to other files and rows, a scan never takes  *)
(* for missing a chapter that the ComicInfo of a file names which lies     *)
(* there from its listing on; and when nothing at all happens meanwhile,   *)
(* these chapters are Downloaded at its end, until something does. (Files  *)
(* without a ComicInfo are not spoken of: what they mark is dropped again.) *)
THEOREM FilesAreSpared == Spec => []ScanSparesFiles
<1>1. BaseInv /\ ScanInv => ScanSparesFiles
  <2> SUFFICES ASSUME BaseInv, ScanInv  PROVE ScanSparesFiles
    OBVIOUS
  <2>1. job[System].at = "drop" =>
          \A f \in ghost.steady : disk[f].whole => disk[f].row \notin job[System].found
    BY DEF ScanInv, SteadyInv, Dropping
  <2>2. ASSUME ghost.exact, NEW f \in There, disk[f].whole, disk[f].row # NoRow
        PROVE  disk[f].row \in have
    <3>1. disk[f].row \in Rows
      BY <2>2 DEF BaseInv, TypeOK, Contents, There
    <3>. QED  BY <2>2, <3>1 DEF ScanInv, CalmInv, WithFile
  <2>. QED  BY <2>1, <2>2 DEF ScanSparesFiles
<1>. QED  BY <1>1, ScanInvariant, PTL

(* At rest, a Downloaded chapter has a file, by its name or by what a      *)
(* ComicInfo says, unless another row, a purge, a crash or the user took   *)
(* it in one of the ways that the ghost records.                           *)
THEOREM DownloadsHaveFiles == Spec => []DownloadedHasFile
<1> DEFINE I == BaseInv /\ ScanInv /\ KeepInv
<1>1. Init => I
  BY BaseInit, ScanInit, KeepInit
<1>2. I /\ [Next]_vars => I'
  BY BaseNext, ScanNext, KeepNext
<1>3. I => DownloadedHasFile
  BY DEF KeepInv, HaveInv, Backed, HasFile, Excused, Scanning, Dropping, Procs,
     Idle, DownloadedHasFile
<1>. HIDE DEF I
<1>. QED  BY <1>1, <1>2, <1>3, PTL DEF Spec
==============================================================================
