----------------------------- MODULE ServingStore -----------------------------
(***************************************************************************)
(* The persisted owner surfaces of one org and the index that readers go   *)
(* through.  A nightly cycle materialises the surfaces of its runs: each   *)
(* save writes one snapshot file, then lists the date directories, reads   *)
(* them one by one and rewrites the whole index file; afterwards the daily *)
(* overview of each affected date is built from what the index leads to.   *)
(* Only then does the cycle save its ledger.  Several processes share the  *)
(* directory without a lock, and any of them may die, also between the     *)
(* truncation of a file and its text: whoever reads that file then raises. *)
(***************************************************************************)
EXTENDS Integers, FiniteSets

CONSTANTS
  Component,   \* COMPONENT_CAPABILITY_IDS
  Overview,    \* DAILY_OVERVIEW_CAPABILITY_ID
  LastDate,    \* business dates are 1..LastDate
  Process,     \* processes that run nightly cycles
  MaxRuns      \* bound on the component runs of all cycles together

ASSUME ServingAssumption ==
  /\ IsFiniteSet(Component) /\ Component # {}
  /\ Overview \notin Component
  /\ LastDate \in Nat \ {0}
  /\ MaxRuns \in Nat

Date       == 1 .. LastDate
NoDate     == 0
Capability == Component \cup {Overview}
Key        == Capability \X Date
Readiness  == {"ready", "failed"}

\* A file another writer is in the middle of: truncated, or with two texts in it
HalfWritten == {"empty", "mixed"}
Content     == Readiness \cup HalfWritten \cup {"none"}

\* the surface a component run yields, ready only when no endpoint failed
Run == [key : Component \X Date, readiness : Readiness]

Stage == {"idle", "saving", "writing", "listing", "scanning", "indexing",
          "looking", "composing", "settling"}

VARIABLES
  files,       \* snapshot files: what each holds, "none" if there is none
  index,       \* available_business_dates of the last index.json written in full
  indexFile,   \* whether index.json holds that text
  stage,       \* per process: where its cycle is
  runs,        \* per process: component runs of the cycle
  toSave,      \* per process: runs whose snapshot is not saved yet
  writing,     \* per process: the run whose snapshot file it has open
  toBuild,     \* per process: affected_business_dates not looked at yet
  toScan,      \* per process: date directories listed and not read yet
  scanned,     \* per process: snapshots read by the refresh under way
  found,       \* per process: component -> what load_snapshot returned
  executed,    \* number of component runs so far
  settled,     \* history: keys of runs whose cycle reached its ledger save
  overlapped,  \* history: two cycles have been in flight at once
  unfinished   \* history: dates of cycles that died, until materialised again

store   == <<files, index, indexFile>>
refresh == <<toScan, scanned>>
locals  == <<runs, toSave, writing, toBuild, found>>
history == <<settled, overlapped, unfinished>>
vars    == <<store, stage, locals, refresh, executed, history>>

-----------------------------------------------------------------------------
Stored   == {k \in Key : files[k] # "none"}
Readable == {k \in Key : files[k] \notin HalfWritten}
Unlooked == [c \in Component |-> "unknown"]

\* mutant: the calendar day on which the business day ends
DayAfter(rs) == {r.key[2] + 1 : r \in rs}

DatesOf(rs) == {r.key[2] : r \in rs}

Earliest(dates) == CHOOSE d \in dates : \A x \in dates : d <= x

Init ==
  /\ files = [k \in Key |-> "none"] /\ index = {} /\ indexFile = "whole"
  /\ stage = [p \in Process |-> "idle"]
  /\ runs = [p \in Process |-> {}]
  /\ toSave = [p \in Process |-> {}]
  /\ writing = [p \in Process |-> {}]
  /\ toBuild = [p \in Process |-> {}]
  /\ toScan = [p \in Process |-> {}]
  /\ scanned = [p \in Process |-> {}]
  /\ found = [p \in Process |-> Unlooked]
  /\ executed = 0
  /\ settled = {} /\ overlapped = FALSE /\ unfinished = {}

\* A cycle has executed its dispatch plan: one run per component and date.
StartMaterialize(p) ==
  /\ stage[p] = "idle"
  /\ \E rs \in SUBSET Run :
       /\ rs # {} /\ executed + Cardinality(rs) <= MaxRuns
       /\ \A r, q \in rs : r.key = q.key => r = q
       /\ runs' = [runs EXCEPT ![p] = rs]
       /\ toSave' = [toSave EXCEPT ![p] = rs]
       /\ toBuild' = [toBuild EXCEPT ![p] = DatesOf(rs)]
       /\ executed' = executed + Cardinality(rs)
  /\ stage' = [stage EXCEPT ![p] = "saving"]
  /\ overlapped' = (overlapped \/ \E q \in Process : stage[q] # "idle")
  /\ UNCHANGED <<store, refresh, writing, found, settled, unfinished>>

(***************************************************************************)
(* _write_json opens the file, which empties it, and then writes its text. *)
(* The text stands alone unless another process has written into the file  *)
(* since; then it may be mixed with what that process wrote.               *)
(***************************************************************************)
AfterWrite(old, text) == {text} \cup (IF old = "empty" THEN {} ELSE {"mixed"})

\* save_snapshot opens the file of the next run...
OpenComponent(p) ==
  /\ stage[p] = "saving"
  /\ \E r \in toSave[p] :
       /\ files' = [files EXCEPT ![r.key] = "empty"]
       /\ writing' = [writing EXCEPT ![p] = {r}]
  /\ stage' = [stage EXCEPT ![p] = "writing"]
  /\ UNCHANGED <<index, indexFile, runs, toSave, toBuild, found, refresh, executed, history>>

\* ...writes it...
SaveComponent(p) ==
  /\ stage[p] = "writing"
  /\ \E r \in writing[p] :
       /\ \E text \in AfterWrite(files[r.key], r.readiness) :
            files' = [files EXCEPT ![r.key] = text]
       /\ toSave' = [toSave EXCEPT ![p] = @ \ {r}]
  /\ writing' = [writing EXCEPT ![p] = {}]
  /\ stage' = [stage EXCEPT ![p] = "listing"]
  /\ UNCHANGED <<index, indexFile, runs, toBuild, found, refresh, executed, history>>

\* ..._refresh_index lists the date directories...
ListDates(p) ==
  /\ stage[p] = "listing"
  /\ toScan' = [toScan EXCEPT ![p] = {k[2] : k \in Stored}]
  /\ scanned' = [scanned EXCEPT ![p] = {}]
  /\ stage' = [stage EXCEPT ![p] = "scanning"]
  /\ UNCHANGED <<store, locals, executed, history>>

\* ...reads them in ascending order, and raises over a file it cannot parse...
ScanDate(p) ==
  /\ stage[p] = "scanning" /\ toScan[p] # {}
  /\ LET d == Earliest(toScan[p])
     IN  /\ \A k \in Stored : k[2] = d => k \in Readable
         /\ toScan' = [toScan EXCEPT ![p] = @ \ {d}]
         /\ scanned' = [scanned EXCEPT ![p] = @ \cup {k \in Stored : k[2] = d}]
  /\ UNCHANGED <<store, stage, locals, executed, history>>

\* mutant: the refresh lists only the date of the last snapshot read
LastDateOnly(p) == {k \in scanned[p] : \A j \in scanned[p] : j[2] <= k[2]}

\* the index a refresh has computed
NewIndex(p) == scanned[p]

\* mutant: the overviews are built after the ledger save
SettleFirst(p) == IF toSave[p] # {} THEN "saving" ELSE "settling"

\* what a cycle does after a save or after a date without overview
AfterSave(p) ==
  IF toSave[p] # {} THEN "saving" ELSE IF toBuild[p] # {} THEN "looking" ELSE "settling"

\* ...and opens...
OpenIndex(p) ==
  /\ stage[p] = "scanning" /\ toScan[p] = {}
  /\ indexFile' = "empty"
  /\ stage' = [stage EXCEPT ![p] = "indexing"]
  /\ UNCHANGED <<files, index, locals, refresh, executed, history>>

\* ...and rewrites the index file.
WriteIndex(p) ==
  /\ stage[p] = "indexing"
  /\ \E text \in AfterWrite(indexFile, "whole") :
       /\ indexFile' = text
       /\ index' = IF text = "whole" THEN NewIndex(p) ELSE index
  /\ scanned' = [scanned EXCEPT ![p] = {}]
  /\ stage' = [stage EXCEPT ![p] = AfterSave(p)]
  /\ UNCHANGED <<files, locals, toScan, executed, history>>

\* load_snapshot with strict_date: the file, if the index lists the date
LoadStrict(c, d) == IF <<c, d>> \in index THEN files[<<c, d>>] ELSE "none"

\* one of the component loads for the next affected date, which raises over an
\* index or a snapshot it cannot parse
LookUp(p) ==
  /\ stage[p] = "looking" /\ indexFile = "whole"
  /\ \E c \in Component :
       /\ found[p][c] = "unknown"
       /\ LoadStrict(c, Earliest(toBuild[p])) \notin HalfWritten
       /\ found' = [found EXCEPT ![p][c] = LoadStrict(c, Earliest(toBuild[p]))]
  /\ UNCHANGED <<store, stage, runs, toSave, writing, toBuild, refresh, executed, history>>

LookedUp(p) == stage[p] = "looking" /\ \A c \in Component : found[p][c] # "unknown"

\* mutant: some component suffices
AnyFound(p) == \E c \in Component : found[p][c] # "none"

\* all of member, finance and staff have a snapshot
Complete(p) == \A c \in Component : found[p][c] # "none"

\* A component is missing: no overview for this date.
SkipOverview(p) ==
  /\ LookedUp(p) /\ ~ Complete(p)
  /\ toBuild' = [toBuild EXCEPT ![p] = @ \ {Earliest(@)}]
  /\ found' = [found EXCEPT ![p] = Unlooked]
  /\ stage' = [stage EXCEPT ![p] = IF toBuild[p] = {Earliest(toBuild[p])} THEN "settling" ELSE @]
  /\ UNCHANGED <<store, runs, toSave, writing, refresh, executed, history>>

\* mutant: the overview is ready as soon as one component is
AnyReady(p) == IF \E c \in Component : found[p][c] = "ready" THEN "ready" ELSE "failed"

\* build_daily_overview_readiness_response
OverviewReadiness(p) ==
  IF \A c \in Component : found[p][c] = "ready" THEN "ready" ELSE "failed"

\* the overview's file is opened...
OpenOverview(p) ==
  /\ LookedUp(p) /\ Complete(p)
  /\ files' = [files EXCEPT ![<<Overview, Earliest(toBuild[p])>>] = "empty"]
  /\ stage' = [stage EXCEPT ![p] = "composing"]
  /\ UNCHANGED <<index, indexFile, locals, refresh, executed, history>>

\* ...and written, and the index refreshed once more.
SaveOverview(p) ==
  /\ stage[p] = "composing"
  /\ LET k == <<Overview, Earliest(toBuild[p])>>
     IN  \E text \in AfterWrite(files[k], OverviewReadiness(p)) : files' = [files EXCEPT ![k] = text]
  /\ toBuild' = [toBuild EXCEPT ![p] = @ \ {Earliest(@)}]
  /\ found' = [found EXCEPT ![p] = Unlooked]
  /\ stage' = [stage EXCEPT ![p] = "listing"]
  /\ UNCHANGED <<index, indexFile, runs, toSave, writing, refresh, executed, history>>

\* The locals of a cycle go with its call or its process.
Forget(p) ==
  /\ stage' = [stage EXCEPT ![p] = "idle"]
  /\ runs' = [runs EXCEPT ![p] = {}]
  /\ toSave' = [toSave EXCEPT ![p] = {}]
  /\ writing' = [writing EXCEPT ![p] = {}]
  /\ toBuild' = [toBuild EXCEPT ![p] = {}]
  /\ toScan' = [toScan EXCEPT ![p] = {}]
  /\ scanned' = [scanned EXCEPT ![p] = {}]
  /\ found' = [found EXCEPT ![p] = Unlooked]

\* save_ledger: from here on the ledger may credit the cycle's runs.
Settle(p) ==
  /\ stage[p] = "settling"
  /\ settled' = settled \cup {r.key : r \in runs[p]}
  /\ unfinished' = unfinished \ DatesOf(runs[p])
  /\ Forget(p)
  /\ UNCHANGED <<store, executed, overlapped>>

\* The process dies, or it raises over a half-written file it reads.
Die(p) ==
  /\ stage[p] # "idle"
  /\ unfinished' = unfinished \cup DatesOf(runs[p])
  /\ Forget(p)
  /\ UNCHANGED <<executed, settled, overlapped>>

\* Dead outside a write, or before it had written anything of the text
DieBetween(p) == Die(p) /\ UNCHANGED store

\* the snapshot file a process has open
OpenKeys(p) ==
  {r.key : r \in writing[p]} \cup
  (IF stage[p] = "composing" THEN {<<Overview, Earliest(toBuild[p])>>} ELSE {})

\* Dead with a part of the text written
DieWriting(p) ==
  /\ Die(p)
  /\ \/ /\ \E k \in OpenKeys(p) : files' = [files EXCEPT ![k] = "mixed"]
        /\ UNCHANGED <<index, indexFile>>
     \/ /\ stage[p] = "indexing" /\ indexFile' = "mixed"
        /\ UNCHANGED <<files, index>>

Next ==
  \E p \in Process :
    \/ StartMaterialize(p) \/ OpenComponent(p) \/ SaveComponent(p)
    \/ ListDates(p) \/ ScanDate(p) \/ OpenIndex(p) \/ WriteIndex(p)
    \/ LookUp(p) \/ SkipOverview(p) \/ OpenOverview(p) \/ SaveOverview(p)
    \/ Settle(p) \/ DieBetween(p) \/ DieWriting(p)

Spec == Init /\ [][Next]_vars

-----------------------------------------------------------------------------
TypeOK ==
  /\ files \in [Key -> Content] /\ index \subseteq Key
  /\ indexFile \in HalfWritten \cup {"whole"}
  /\ stage \in [Process -> Stage]
  /\ runs \in [Process -> SUBSET Run] /\ toSave \in [Process -> SUBSET Run]
  /\ writing \in [Process -> SUBSET Run]
  /\ toBuild \in [Process -> SUBSET Date] /\ toScan \in [Process -> SUBSET Date]
  /\ scanned \in [Process -> SUBSET Key]
  /\ found \in [Process -> [Component -> Readiness \cup {"none", "unknown"}]]
  /\ executed \in 0 .. MaxRuns
  /\ settled \subseteq Component \X Date /\ overlapped \in BOOLEAN /\ unfinished \subseteq Date

(* However saves, scans and index writes of different cycles interleave,   *)
(* and wherever they die, the index last written leads only to files that  *)
(* exist, and a daily overview exists only where all its components have a *)
(* file.  (A file may be half-written: see WholeStore.)                    *)
NothingDangles ==
  /\ index \subseteq Stored
  /\ \A d \in Date : files[<<Overview, d>>] # "none" =>
       \A c \in Component : files[<<c, d>>] # "none"

\* no file of the store is half-written
WholeStore == indexFile = "whole" /\ Stored \subseteq Readable

(* As long as no two cycles have overlapped:                               *)
(* - whenever the store is whole, what the ledger may credit can be read:  *)
(*   the index lists the surface of every settled run, and the overview of *)
(*   a date settled in every component;                                    *)
(* - a file is half-written only while it is being written, or because a   *)
(*   cycle of its own date died: a death between two files, or inside the  *)
(*   index, costs no surface;                                              *)
(* - a cycle that comes as far as its ledger save leaves a whole store: it *)
(*   raises over what a dead cycle left, unless its first save happens to  *)
(*   rewrite that file, so the ledger does not advance over a broken store.*)
SettledIsServed ==
  ~ overlapped =>
    /\ WholeStore =>
         /\ settled \subseteq index
         /\ \A d \in Date : (\A c \in Component : <<c, d>> \in settled) => <<Overview, d>> \in index
    /\ \A k \in Key \ Readable : k[2] \in unfinished \/ \E p \in Process : k \in OpenKeys(p)
    /\ \A p \in Process : stage[p] = "settling" => WholeStore

(* A refresh never unlists a snapshot, unless two cycles have overlapped:  *)
(* over a file that it cannot read it raises and leaves the index alone.   *)
NothingUnlisted == [][~ overlapped' => index \subseteq index']_vars

(* Between cycles a daily overview says ready exactly when all component   *)
(* surfaces of its date do, if cycles never overlapped and the last cycle  *)
(* that wrote the date was not cut short.                                  *)
OverviewAgrees ==
  ~ overlapped /\ (\A p \in Process : stage[p] = "idle") =>
    \A d \in Date \ unfinished : files[<<Overview, d>>] # "none" =>
      (files[<<Overview, d>>] = "ready" <=> \A c \in Component : files[<<c, d>>] = "ready")

-----------------------------------------------------------------------------
\* load_snapshot with latest_usable: the last listed date up to t
LoadLatestDate(c, t) ==
  LET listed == {d \in Date : d <= t /\ <<c, d>> \in index}
  IN  IF listed = {} THEN NoDate ELSE CHOOSE d \in listed : \A x \in listed : x <= d

(* Readers get latest-usable surfaces from the store: when nothing is      *)
(* half-written and some listed surface up to the target date is ready,    *)
(* the one returned is ready.                                              *)
LatestUsableIsUsable ==
  WholeStore => \A c \in Component, t \in Date :
    (\E d \in 1 .. t : <<c, d>> \in index /\ files[<<c, d>>] = "ready") =>
      files[<<c, LoadLatestDate(c, t)>>] = "ready"
=============================================================================
