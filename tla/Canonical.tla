------------------------------ MODULE Canonical ------------------------------
(***************************************************************************)
(* Which release of each chapter of one series counts: update_canonical    *)
(* and the operations that edit the same list (src/db/chapter.rs), with    *)
(* the scores it compares (src/manga/scoring.rs) and the requests that     *)
(* change what it reads.                                                   *)
(*                                                                         *)
(* update_canonical reads the rows, the settings, the overrides and, when  *)
(* upgrades are disabled, the list it had, in statements of their own, and *)
(* then writes list and overrides over whatever is there by now. Ties are  *)
(* broken by the order of hash maps and of equal rows: any of the best. A  *)
(* crash leaves what was written so far, as a task that never goes on does. *)
(***************************************************************************)
EXTENDS Integers, FiniteSets, FiniteSetsExt

CONSTANTS
  Chapters,    (* rows that can be: Info gives base, variant, provider,    *)
  Info,        (* group, titled (the title says extra) and foreign (not in *)
               (* the preferred language)                                  *)
  NoProvider,  (* of a row made from a file on disk                        *)
  NoGroup,
  Initially,   (* rows of the series at first                              *)
  QualityRules,(* sets of [field, value, negate] with a score              *)
  MetaRules,   (* [provider, to]: groups of a provider's rows are replaced *)
  Users,       (* requests and tasks in flight                             *)
  Edits,       (* the kinds of change that occur                           *)
  MaxEdits     (* bound: changes of rows, settings and overrides           *)

Providers == {Info[c].provider : c \in Chapters} \ {NoProvider}
Number(c) == <<Info[c].base, Info[c].variant>>
Bases     == {Info[c].base : c \in Chapters}
Keys      == {Number(c) : c \in Chapters}

ASSUME CanonicalAssumption ==
  /\ Initially \subseteq Chapters
  /\ \A c \in Chapters : Info[c].base \in Nat /\ Info[c].variant \in 0..9
  /\ \A r \in QualityRules : r.score \in Int
  /\ MaxEdits \in Nat

VARIABLES
  rows,       (* Chapters                                                  *)
  extra,      (* those with is_extra                                       *)
  manual,     (* those with is_extra_manual, a choice of the user          *)
  have,       (* those that are Downloaded                                 *)
  off,        (* providers that are disabled for the series                *)
  frozen,     (* disable_chapter_upgrades                                  *)
  rules,      (* the quality rules in force                                *)
  list,       (* canonical_list                                            *)
  overrides,  (* canonical_overrides, pairs of a number and a row          *)
  job,        (* what each request or task is doing                        *)
  edits,      (* changes so far                                            *)
  fresh,      (* the list was computed from what is there now              *)
  chosen      (* what users have chosen, less what they changed since      *)

table  == <<rows, extra, manual, have>>
config == <<off, frozen, rules>>
entry  == <<list, overrides>>
ghost  == <<fresh, chosen>>
vars   == <<table, config, entry, job, edits, ghost>>

Idle == [at |-> "idle", raw |-> {}, flags |-> {}, all |-> {}, over |-> {},
         kept |-> {}, score |-> [c \in {} |-> 0], target |-> {}, by |-> {},
         late |-> {}]

Init ==
  /\ rows = Initially
  /\ extra = {} /\ manual = {} /\ have = {}
  /\ off = {} /\ frozen = FALSE /\ rules = QualityRules
  /\ list = {} /\ overrides = {}
  /\ job = [u \in Users |-> Idle]
  /\ edits = 0
  /\ fresh = FALSE /\ chosen = {}

-----------------------------------------------------------------------------
(* Scores.                                                                 *)

(* apply_meta_rules: the group as the rules clean it, for scoring only.    *)
Group(c) ==
  LET M == {m \in MetaRules : m.provider \in {Info[c].provider, NoProvider}}
  IN  IF M = {} THEN Info[c].group ELSE (CHOOSE m \in M : TRUE).to

Matches(cond, c) ==
  cond.negate # CASE cond.field = "provider" -> Info[c].provider = cond.value
                  [] cond.field = "group"    -> Group(c) = cond.value
                  [] cond.field = "full"     -> Info[c].variant = 0
                  [] cond.field = "split"    -> Info[c].variant \in 1..4

(* compute_score: the sum of the rules all of whose conditions match.      *)
Score(c) ==
  MapThenSumSet(LAMBDA r : r.score,
                {r \in rules : \A cond \in r.conditions : Matches(cond, c)})

Scores(C) == [c \in C |-> Score(c)]

-----------------------------------------------------------------------------
(* update_canonical as a function of what it read.                         *)

(* Rows of enabled providers; of these, the ones in the preferred language *)
(* or in none, if there are any.                                           *)
Filtered(raw, disabled) ==
  LET on     == {c \in raw : Info[c].provider \notin disabled}
      native == {c \in on : ~Info[c].foreign}
  IN  IF native = {} THEN on ELSE native

Siblings(c, all) ==
  {d \in all : Info[d].provider = Info[c].provider /\ Info[d].base = Info[c].base}

(* The automatic classification judges these rows; those of them are       *)
(* extras that say so, and those that do not continue a split chapter.     *)
Judged(all) ==
  {c \in all : Info[c].variant >= 5 \/ (Info[c].variant >= 1 /\ Info[c].titled)}

Classified(c, all) ==
  LET variants == {Info[d].variant : d \in Siblings(c, all)}
  IN  Info[c].titled \/ ~(Info[c].variant - 1 \in variants /\ variants \cap 1..4 # {})

(* assign_slot_id, times ten.                                              *)
Slot(c, all, flags) ==
  LET b == Info[c].base
  IN  IF c \notin flags /\ \E d \in all : Info[d].base = b /\ Info[d].variant \in 1..4
      THEN 10 * b
      ELSE 10 * b + Info[c].variant

InSlot(s, all, flags) == {c \in all : Slot(c, all, flags) = s}

(* The bundles of a slot: a provider's full chapter and its parts compete. *)
Bundles(C) == {{d \in C : /\ Info[d].provider = Info[c].provider
                          /\ (Info[d].variant = 0) = (Info[c].variant = 0)} : c \in C}

IsSplit(B)  == \E c, d \in B : Info[c].variant # Info[d].variant
Coverage(B) == IF IsSplit(B) THEN Cardinality(B) ELSE 1
Top(B, S)   == {c \in B : \A d \in B : S[d] <= S[c]}

(* select_best_bundle: score, then coverage among those of several entries. *)
Finalists(C, S) ==
  LET best    == {B \in Bundles(C) : Top(B, S) \cap Top(C, S) # {}}
      several == {B \in best : Cardinality(B) > 1}
  IN  IF Cardinality(best) < 2 \/ several = {} THEN best
      ELSE {B \in several : \A D \in several : Coverage(D) <= Coverage(B)}

(* Mutant: all releases of every part.                                     *)
AllParts(B, S) == IF IsSplit(B) THEN {B} ELSE {{c} : c \in Top(B, S)}

(* Every part of a split chapter, or one entry.                            *)
Winners(B, S) ==
  IF IsSplit(B)
  THEN {W \in SUBSET B : \A v \in {Info[c].variant : c \in B} :
          \E c \in Top({d \in B : Info[d].variant = v}, S) :
            {d \in W : Info[d].variant = v} = {c}}
  ELSE {{c} : c \in Top(B, S)}

(* The winners of one bundle of each slot.                                 *)
AutoLists(all, flags, S) ==
  LET slots    == {InSlot(Slot(c, all, flags), all, flags) : c \in all}
      contests == {<<C, UNION {Winners(B, S) : B \in Finalists(C, S)}>> : C \in slots}
      best     == UNION {UNION p[2] : p \in contests}
  IN  {L \in SUBSET best : \A p \in contests : L \cap p[1] \in p[2]}

(* The map of the current list by number: of two releases, either.         *)
Current(L) ==
  {M \in SUBSET L : \A c \in L : \E d \in M : {e \in M : Number(e) = Number(c)} = {d}}

(* With upgrades disabled, the Downloaded row of the same number stays.    *)
Preserved(L, kept) ==
  {c \in L : ~\E d \in kept : Number(d) = Number(c)}
    \cup {d \in kept : \E c \in L : Number(d) = Number(c)}

(* Full chapters and parts compete; each extra is on its own.              *)
StandsAlone(c, flags) == Info[c].variant > 4 \/ c \in flags

(* Mutant: a choice evicts all there is of its chapter.                    *)
SameBase(d, c, flags) == Info[d].base = Info[c].base

Competes(d, c, flags) ==
  /\ Info[d].base = Info[c].base
  /\ IF StandsAlone(c, flags) THEN Number(d) = Number(c) ELSE ~StandsAlone(d, flags)

(* A part that is chosen brings its provider's other parts.                *)
Brings(c, raw, flags) ==
  IF Info[c].variant = 0 \/ StandsAlone(c, flags) THEN {c}
  ELSE {c} \cup {d \in Siblings(c, raw) : Info[d].variant \in 1..4 /\ d \notin flags}

OverrideGroup(c, flags) ==
  <<Info[c].base, IF StandsAlone(c, flags) THEN Info[c].variant ELSE -1>>

(* Mutant: only overrides of rows that the filters leave.                  *)
AppliedVisible(over, raw, all) == {o[2] : o \in over} \cap all

(* Overrides of rows that exist are applied, the first of each group...    *)
Applied(over, raw, all) == {o[2] : o \in over} \cap raw

Firsts(O, flags) ==
  {F \in SUBSET O : \A c \in O : \E d \in F :
     {e \in F : OverrideGroup(e, flags) = OverrideGroup(c, flags)} = {d}}

(* ... in any order: each evicts what competes with it among the rows that *)
(* the filters leave, then brings its own.                                 *)
Orders(F) ==
  {r \in [F -> 1..Cardinality(F)] : \A c, d \in F : r[c] = r[d] => c = d}

Overridden(L, over, raw, all, flags) ==
  LET evicts(c, d) == d \in all /\ Competes(d, c, flags)
      left(F) == {d \in L : \A c \in F : ~evicts(c, d)}
      brought(F, r) == {d \in raw : \E c \in F :
                          /\ d \in Brings(c, raw, flags)
                          /\ \A e \in F : r[e] > r[c] => ~evicts(e, d)}
  IN  UNION {{left(F) \cup brought(F, r) : r \in Orders(F)} :
                F \in Firsts(Applied(over, raw, all), flags)}

Pruned(over, raw) == {o \in over : o[2] \in raw}

-----------------------------------------------------------------------------
Step(u, changes) == job' = [job EXCEPT ![u] = changes]

Edit(kind) == kind \in Edits /\ edits < MaxEdits /\ edits' = edits + 1

(* update_canonical, step by step. Each user that calls it is at "read".   *)

Read(u) ==
  /\ job[u].at = "read"
  /\ Step(u, [job[u] EXCEPT !.at = "filter", !.raw = rows, !.flags = extra])
  /\ UNCHANGED <<table, config, entry, edits, ghost>>

(* The flags are written to the rows (never over the user's choice), not   *)
(* to the copy that the rest of the function works on.                     *)
Filter(u) ==
  /\ job[u].at = "filter"
  /\ LET all == Filtered(job[u].raw, off)
         set == Judged(all) \ manual
     IN  /\ Step(u, [job[u] EXCEPT !.at = "load", !.all = all])
         /\ extra' = ((extra \ set) \cup {c \in set : Classified(c, all)}) \cap rows
         /\ fresh' = (fresh /\ extra' = extra)
  /\ UNCHANGED <<rows, manual, have, config, entry, edits, chosen>>

Load(u) ==
  /\ job[u].at = "load"
  /\ \E current \in IF frozen THEN Current(list \cap rows) ELSE {{}} :
       Step(u, [job[u] EXCEPT !.at = "store", !.over = overrides, !.late = {},
                              !.score = Scores(job[u].all),
                              !.kept = current \cap have])
  /\ UNCHANGED <<table, config, entry, edits, ghost>>

(* What the stored list was computed from is what is there now.            *)
UpToDate(u) ==
  /\ job[u].raw = rows /\ job[u].flags = extra /\ job[u].over = overrides
  /\ job[u].all = Filtered(rows, off) /\ job[u].score = Scores(job[u].all)
  /\ job[u].kept \subseteq have

Results(u) ==
  UNION {Overridden(Preserved(L, job[u].kept), job[u].over, job[u].raw, job[u].all, job[u].flags)
          : L \in AutoLists(job[u].all, job[u].flags, job[u].score)}

Store(u) ==
  /\ job[u].at = "store"
  /\ list' \in Results(u)
  /\ overrides' = Pruned(job[u].over, job[u].raw)
  /\ fresh' = UpToDate(u)
  /\ chosen' = {o \in chosen \ job[u].late : o[2] \in job[u].raw}
  /\ Step(u, Idle)
  /\ UNCHANGED <<table, config, edits>>

-----------------------------------------------------------------------------
(* What is followed by update_canonical.                                   *)

(* A sync or a scan that finds nothing new.                                *)
Rescan(u) ==
  /\ job[u] = Idle
  /\ Step(u, [Idle EXCEPT !.at = "read"])
  /\ UNCHANGED <<table, config, entry, edits, ghost>>

(* One that adds a row (upsert_from_scrape, insert).                       *)
Add(u, c) ==
  /\ Edit("add") /\ job[u] = Idle /\ c \notin rows
  /\ rows' = rows \cup {c}
  /\ Step(u, [Idle EXCEPT !.at = "read"])
  /\ fresh' = FALSE
  /\ UNCHANGED <<extra, manual, have, config, entry, chosen>>

(* set_series_settings, delete_series_settings                             *)
Switch(u, p) ==
  /\ Edit("provider") /\ job[u] = Idle
  /\ off' = (off \ {p}) \cup ({p} \ off)
  /\ Step(u, IF p \in off THEN [Idle EXCEPT !.at = "read"]
             ELSE [Idle EXCEPT !.at = "purge", !.by = {p}])
  /\ fresh' = FALSE
  /\ UNCHANGED <<table, frozen, rules, entry, chosen>>

Keep(C) ==
  /\ rows' = rows \cap C
  /\ extra' = extra \cap C /\ manual' = manual \cap C /\ have' = have \cap C

(* delete_missing_for_provider: the provider's rows but for those that are *)
(* Downloaded, and those that are Queued, Downloading or Failed.           *)
Purge(u) ==
  /\ job[u].at = "purge"
  /\ \E busy \in SUBSET {c \in rows : Info[c].provider \in job[u].by} :
       Keep({c \in rows : Info[c].provider \notin job[u].by \/ c \in have \cup busy})
  /\ chosen' = {o \in chosen : o[2] \in rows'}
  /\ Step(u, [Idle EXCEPT !.at = "read"])
  /\ fresh' = FALSE
  /\ UNCHANGED <<config, entry, edits>>

(* clear_canonical_override_api: the map is read, and written without it.  *)
ClearRead(u, k) ==
  /\ Edit("clear") /\ job[u] = Idle
  /\ \E o \in overrides : o[1] = k
  /\ Step(u, [Idle EXCEPT !.at = "clear", !.over = {o \in overrides : o[1] # k}, !.by = {k}])
  /\ UNCHANGED <<table, config, entry, ghost>>

ClearWrite(u) ==
  /\ job[u].at = "clear"
  /\ overrides' = job[u].over
  /\ chosen' = {o \in chosen \ job[u].late : o[1] \notin job[u].by}
  /\ Step(u, [Idle EXCEPT !.at = "read"])
  /\ fresh' = FALSE
  /\ UNCHANGED <<table, config, list, edits>>

-----------------------------------------------------------------------------
(* set_canonical_override, by a user or by the fallback of a download.     *)

ChooseRead(u, c) ==
  /\ Edit("choose") /\ job[u] = Idle /\ c \in rows
  /\ LET stay == {d \in list \cap rows : ~Competes(d, c, extra)}
     IN  Step(u, [Idle EXCEPT !.at = "choose", !.target = {c}, !.flags = extra,
                              !.all = stay \cup Brings(c, rows, extra)])
  /\ UNCHANGED <<table, config, entry, ghost>>

(* Mutant: the override of an extra is added to those of its number.       *)
OnlyRivals(over, c, flags) ==
  {o \in over : ~StandsAlone(c, flags) /\ o[1][1] = Info[c].base /\ o[1][2] <= 4}

(* Mutant: a choice clears all the overrides of its chapter.               *)
AllOfBase(over, c, flags) == {o \in over : o[1][1] = Info[c].base}

(* The overrides that the new one replaces, by their numbers.              *)
Displaced(over, c, flags) ==
  {o \in over : \/ o[1] = Number(c)
                \/ ~StandsAlone(c, flags) /\ o[1][1] = Info[c].base /\ o[1][2] <= 4}

ChooseLoad(u) ==
  /\ job[u].at = "choose"
  /\ \E c \in job[u].target :
       Step(u, [job[u] EXCEPT !.at = "chosen",
         !.over = (overrides \ Displaced(overrides, c, job[u].flags)) \cup {<<Number(c), c>>}])
  /\ UNCHANGED <<table, config, entry, edits, ghost>>

(* What a user means who chooses c: not the release that had its number,   *)
(* nor, if c is a full chapter or a part of one, those chosen for the      *)
(* chapter so far; extras are chosen for themselves.                       *)
Revoked(c, flags) ==
  {o \in chosen : \/ Number(o[2]) = Number(c)
                  \/ /\ ~StandsAlone(c, flags)
                     /\ Info[o[2]].base = Info[c].base /\ Info[o[2]].variant \in 0..4}

(* Who has read the overrides and not yet written them back.               *)
Stale(v) == job[v].at \in {"store", "clear", "chosen"}

ChooseStore(u) ==
  /\ job[u].at = "chosen"
  /\ list' = job[u].all
  /\ overrides' = job[u].over
  /\ \E c \in job[u].target :
       /\ chosen' = (chosen \ (Revoked(c, job[u].flags) \cup job[u].late))
                       \cup {<<Number(c), c>>}
       /\ job' = [v \in Users |->
            IF v = u THEN Idle
            ELSE IF Stale(v) THEN [job[v] EXCEPT !.late = @ \cup {<<Number(c), c>>}]
            ELSE job[v]]
  /\ fresh' = FALSE
  /\ UNCHANGED <<table, config, edits>>

-----------------------------------------------------------------------------
(* Changes of the rows that update_canonical does not follow.              *)

(* toggle_extra_api                                                        *)
ToggleExtra(c) ==
  /\ Edit("extra") /\ c \in list \cap rows
  /\ extra' = (extra \ {c}) \cup ({c} \ extra)
  /\ manual' = manual \cup {c}
  /\ fresh' = FALSE
  /\ UNCHANGED <<rows, have, config, entry, job, chosen>>

(* A canonical chapter is downloaded.                                      *)
Download(c) ==
  /\ Edit("download") /\ c \in (list \cap rows) \ have
  /\ have' = have \cup {c}
  /\ UNCHANGED <<rows, extra, manual, config, entry, job, ghost>>

(* delete_chapter_entry_api, and the disk scan for a row of a file that is *)
(* gone: the row goes, then the list is read, then list and no overrides   *)
(* are written.                                                            *)
DeleteRow(u, c) ==
  /\ Edit("delete") /\ job[u] = Idle /\ c \in list \cap rows
  /\ Keep(rows \ {c}) /\ chosen' = {o \in chosen : o[2] # c}
  /\ Step(u, [Idle EXCEPT !.at = "cut", !.target = {c}])
  /\ fresh' = FALSE
  /\ UNCHANGED <<config, entry>>

CutRead(u) ==
  /\ job[u].at = "cut"
  /\ Step(u, [job[u] EXCEPT !.at = "write", !.all = list \ job[u].target])
  /\ UNCHANGED <<table, config, entry, edits, ghost>>

(* INSERT OR REPLACE without the column canonical_overrides.               *)
CutWrite(u) ==
  /\ job[u].at = "write"
  /\ list' = job[u].all
  /\ overrides' = {} /\ chosen' = {}
  /\ fresh' = FALSE
  /\ Step(u, Idle)
  /\ UNCHANGED <<table, config, edits>>

(* Settings and quality rules take effect at the next update.              *)
Freeze ==
  /\ Edit("freeze") /\ frozen' = ~frozen
  /\ UNCHANGED <<table, off, rules, entry, job, ghost>>

ChangeRule(r) ==
  /\ Edit("rule") /\ rules' = (rules \ {r}) \cup ({r} \ rules)
  /\ fresh' = FALSE
  /\ UNCHANGED <<table, off, frozen, entry, job, chosen>>

Next ==
  \/ \E u \in Users :
       \/ Rescan(u) \/ Read(u) \/ Filter(u) \/ Load(u) \/ Store(u)
       \/ \E c \in Chapters : Add(u, c) \/ ChooseRead(u, c) \/ DeleteRow(u, c)
       \/ \E p \in Providers : Switch(u, p)
       \/ \E k \in Keys : ClearRead(u, k)
       \/ Purge(u) \/ ClearWrite(u) \/ ChooseLoad(u) \/ ChooseStore(u)
       \/ CutRead(u) \/ CutWrite(u)
  \/ \E c \in Chapters : ToggleExtra(c) \/ Download(c)
  \/ Freeze
  \/ \E r \in QualityRules : ChangeRule(r)

Spec == Init /\ [][Next]_vars

-----------------------------------------------------------------------------
(* Properties.                                                             *)

TypeOK ==
  /\ rows \in SUBSET Chapters
  /\ extra \in SUBSET rows /\ manual \in SUBSET rows /\ have \in SUBSET rows
  /\ off \in SUBSET Providers /\ frozen \in BOOLEAN /\ rules \in SUBSET QualityRules
  /\ list \in SUBSET Chapters
  /\ overrides \in SUBSET (Keys \X Chapters)
  /\ \A o, q \in overrides : Number(o[2]) = o[1] /\ (o[1] = q[1] => o = q)
  /\ edits \in 0..MaxEdits

(* "pick one winner per (chapter_base, chapter_variant)": a list that was  *)
(* computed from what is there has one release of each chapter and of each *)
(* extra. There are two exceptions: a part the user chose brings all       *)
(* releases of the parts that its provider has, and a Downloaded row that  *)
(* stays is not evicted by a choice if its provider is disabled.           *)
NoDoubles ==
  fresh => \A c, d \in list :
    Number(c) = Number(d) /\ (c \in extra <=> d \in extra) =>
      \/ c = d
      \/ \E o \in overrides : {c, d} \subseteq Brings(o[2], rows, extra)
      \/ \E e \in {c, d} \cap have : e \notin Filtered(rows, off)

(* Such a list has the release the user chose, unless marking a chapter as *)
(* an extra, or not, made two choices rivals that were none.               *)
ChoiceIsListed ==
  fresh => \A o \in overrides :
    \/ o[2] \in list \/ o[2] \notin rows
    \/ \E q \in overrides \ {o} : Competes(o[2], q[2], extra)

(* And no chapter that has a release to choose is missing from it: neither *)
(* a chapter, whole or in parts, nor an extra. (A whole chapter marked as  *)
(* an extra still competes with the others.) There are two exceptions: the *)
(* choice of an extra evicts all releases of its number, also those not    *)
(* marked, and a Downloaded row that stays takes the place of one of its   *)
(* number that is marked otherwise.                                        *)
Covers(d, c) ==
  \/ Number(d) = Number(c)
  \/ /\ Info[d].base = Info[c].base
     /\ \A e \in {c, d} : e \notin extra \/ Info[e].variant = 0

EveryChapterHasOne ==
  fresh => \A c \in Filtered(rows, off) :
    \/ \E d \in list \cap rows : Covers(d, c)
    \/ \E o \in overrides : StandsAlone(o[2], extra) /\ \E d \in rows \ extra : Number(d) = o[1]
    \/ \E d \in have, e \in rows :
         Number(d) = Number(e) /\ Info[d].base = Info[c].base /\ (d \in extra) # (e \in extra)

(* An override "survives future scans": the release a user has chosen is   *)
(* in the overrides until its row goes, the user clears it or chooses      *)
(* another for its chapter, whatever updates, requests and downloads run.  *)
(* It is lost when                                                         *)
(* - somebody who had read the overrides before it was stored writes them  *)
(*   back (late), or an update had read the rows before its row came;      *)
(* - the entry of any chapter is deleted, by a request or by a disk scan,  *)
(*   which writes the list without the overrides.                          *)
OverrideSurvives ==
  \A o \in chosen : o \in overrides
=============================================================================
