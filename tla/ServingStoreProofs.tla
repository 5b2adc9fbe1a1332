-------------------------- MODULE ServingStoreProofs --------------------------
(***************************************************************************)
(* Proofs about ServingStore for any components, calendar, bound and       *)
(* number of processes.                                                    *)
(***************************************************************************)
EXTENDS ServingStore, FiniteSetTheorems, WellFoundedInduction, TLAPS

(* A non-empty set of business dates has an earliest one, and Earliest is  *)
(* it.                                                                     *)
LEMMA EarliestIsLeast ==
  ASSUME NEW S \in SUBSET Date, S # {}
  PROVE  Earliest(S) \in S /\ \A x \in S : Earliest(S) <= x
<1> DEFINE Less == {ss \in Nat \X Nat : ss[1] < ss[2]}
<1>1. S \subseteq Nat
  BY DEF Date
<1>2. IsWellFoundedOn(Less, Nat)
  BY NatLessThanWellFounded, Zenon DEF OpToRel
<1>3. \A x, m \in Nat : ~ (<<x, m>> \in Less) => m <= x
  OBVIOUS
<1> HIDE DEF Less
<1>4. PICK m \in S : \A x \in S : ~ (<<x, m>> \in Less)
  BY <1>1, <1>2, WFMin, Zenon
<1>5. \A x \in S : m <= x
  BY <1>1, <1>3, <1>4
<1> QED  BY <1>5 DEF Earliest

-----------------------------------------------------------------------------
(***************************************************************************)
(* Types.                                                                  *)
(***************************************************************************)
LEMMA KeyTypes ==
  ASSUME NEW rs \in SUBSET Run
  PROVE  DatesOf(rs) \subseteq Date /\ \A r \in rs : r.key \in Component \X Date /\ r.key \in Key
BY DEF DatesOf, Run, Key, Capability

LEMMA StoredType == Stored \subseteq Key
BY DEF Stored

LEMMA UnlookedType == Unlooked \in [Component -> Readiness \cup {"none", "unknown"}]
BY DEF Unlooked

LEMMA ForgetTypes ==
  ASSUME TypeOK, NEW p \in Process, Forget(p)
  PROVE  /\ stage' \in [Process -> Stage]
         /\ runs' \in [Process -> SUBSET Run] /\ toSave' \in [Process -> SUBSET Run]
         /\ writing' \in [Process -> SUBSET Run]
         /\ toBuild' \in [Process -> SUBSET Date] /\ toScan' \in [Process -> SUBSET Date]
         /\ scanned' \in [Process -> SUBSET Key]
         /\ found' \in [Process -> [Component -> Readiness \cup {"none", "unknown"}]]
BY UnlookedType DEF TypeOK, Forget, Stage

\* what a write leaves in a snapshot file
LEMMA WriteTypes ==
  ASSUME NEW old, NEW v \in Readiness, NEW text \in AfterWrite(old, v)
  PROVE  text \in Content /\ text # "none" /\ (old = "empty" => text = v)
BY DEF AfterWrite, Content, HalfWritten, Readiness

(* The component runs are finitely many, so a cycle has finitely many.     *)
LEMMA RunsAreFinite == IsFiniteSet(Run)
<1>1. IsFiniteSet(Component \X Date)
  <2>1. IsFiniteSet(Date)
    BY ServingAssumption, FS_Interval DEF Date
  <2> QED  BY <2>1, ServingAssumption, FS_Product
<1>2. IsFiniteSet(Readiness)
  <2>1. Readiness = {"ready"} \cup {"failed"}
    BY DEF Readiness
  <2> QED  BY <2>1, FS_Singleton, FS_AddElement
<1>3. IsFiniteSet((Component \X Date) \X Readiness)
  BY <1>1, <1>2, FS_Product
<1> DEFINE recOf == [x \in (Component \X Date) \X Readiness |-> [key |-> x[1], readiness |-> x[2]]]
<1>4. recOf \in Surjection((Component \X Date) \X Readiness, Run)
  <2>1. recOf \in [(Component \X Date) \X Readiness -> Run]
    BY DEF Run
  <2>2. \A r \in Run : recOf[<<r.key, r.readiness>>] = r /\ <<r.key, r.readiness>> \in (Component \X Date) \X Readiness
    BY DEF Run
  <2> QED  BY <2>1, <2>2 DEF Surjection
<1> QED  BY <1>3, <1>4, FS_Surjection

LEMMA InitTypeOK == Init => TypeOK
<1> SUFFICES ASSUME Init PROVE TypeOK
  OBVIOUS
<1>1. 0 \in 0 .. MaxRuns
  BY ServingAssumption
<1>2. files \in [Key -> Content]
  BY DEF Init, Content
<1> QED  BY <1>1, <1>2, UnlookedType DEF Init, TypeOK, Stage

LEMMA StepTypeOK == TypeOK /\ [Next]_vars => TypeOK'
<1> SUFFICES ASSUME TypeOK, [Next]_vars PROVE TypeOK'
  OBVIOUS
<1>1. ASSUME NEW p \in Process, StartMaterialize(p) PROVE TypeOK'
  <2>1. PICK rs \in SUBSET Run :
           /\ rs # {} /\ executed + Cardinality(rs) <= MaxRuns
           /\ runs' = [runs EXCEPT ![p] = rs]
           /\ toSave' = [toSave EXCEPT ![p] = rs]
           /\ toBuild' = [toBuild EXCEPT ![p] = DatesOf(rs)]
           /\ executed' = executed + Cardinality(rs)
    BY <1>1 DEF StartMaterialize
  <2>2. executed' \in 0 .. MaxRuns
    <3>1. Cardinality(rs) \in Nat
      BY RunsAreFinite, FS_Subset, FS_CardinalityType
    <3> QED  BY <2>1, <3>1, ServingAssumption DEF TypeOK
  <2>3. DatesOf(rs) \subseteq Date
    BY KeyTypes
  <2> QED
    BY <1>1, <2>1, <2>2, <2>3 DEF StartMaterialize, TypeOK, Stage, store, refresh
<1>2. ASSUME NEW p \in Process, OpenComponent(p) PROVE TypeOK'
  <2>1. PICK r \in toSave[p] :
           /\ files' = [files EXCEPT ![r.key] = "empty"]
           /\ writing' = [writing EXCEPT ![p] = {r}]
    BY <1>2 DEF OpenComponent
  <2>2. r \in Run /\ "empty" \in Content
    BY <2>1 DEF TypeOK, Content, HalfWritten
  <2> QED
    BY <1>2, <2>1, <2>2 DEF OpenComponent, TypeOK, Stage, refresh, history
<1>3. ASSUME NEW p \in Process, SaveComponent(p) PROVE TypeOK'
  <2>1. PICK r \in writing[p] :
           /\ \E text \in AfterWrite(files[r.key], r.readiness) : files' = [files EXCEPT ![r.key] = text]
           /\ toSave' = [toSave EXCEPT ![p] = @ \ {r}]
    BY <1>3 DEF SaveComponent
  <2>2. PICK text \in AfterWrite(files[r.key], r.readiness) : files' = [files EXCEPT ![r.key] = text]
    BY <2>1
  <2>3. text \in Content
    BY <2>1, WriteTypes DEF TypeOK, Run
  <2> QED
    BY <1>3, <2>1, <2>2, <2>3 DEF SaveComponent, TypeOK, Stage, refresh, history
<1>4. ASSUME NEW p \in Process, ListDates(p) PROVE TypeOK'
  <2>1. {k[2] : k \in Stored} \subseteq Date
    BY StoredType DEF Key
  <2> QED
    BY <1>4, <2>1 DEF ListDates, TypeOK, Stage, store, locals, history
<1>5. ASSUME NEW p \in Process, ScanDate(p) PROVE TypeOK'
  BY <1>5, StoredType DEF ScanDate, TypeOK, store, locals, history
<1>6. ASSUME NEW p \in Process, OpenIndex(p) PROVE TypeOK'
  BY <1>6 DEF OpenIndex, TypeOK, Stage, HalfWritten, locals, refresh, history
<1>7. ASSUME NEW p \in Process, WriteIndex(p) PROVE TypeOK'
  <2>1. PICK text \in AfterWrite(indexFile, "whole") :
           indexFile' = text /\ index' = IF text = "whole" THEN NewIndex(p) ELSE index
    BY <1>7 DEF WriteIndex
  <2>2. NewIndex(p) \subseteq Key /\ AfterSave(p) \in Stage
    BY DEF NewIndex, AfterSave, TypeOK, Stage
  <2>3. text \in HalfWritten \cup {"whole"}
    BY DEF AfterWrite, HalfWritten
  <2> QED
    BY <1>7, <2>1, <2>2, <2>3 DEF WriteIndex, TypeOK, locals, history
<1>8. ASSUME NEW p \in Process, LookUp(p) PROVE TypeOK'
  <2>1. PICK c \in Component :
           /\ LoadStrict(c, Earliest(toBuild[p])) \notin HalfWritten
           /\ found' = [found EXCEPT ![p][c] = LoadStrict(c, Earliest(toBuild[p]))]
    BY <1>8 DEF LookUp
  <2>2. LoadStrict(c, Earliest(toBuild[p])) \in Readiness \cup {"none", "unknown"}
    BY <2>1 DEF LoadStrict, TypeOK, Content
  <2> QED
    BY <1>8, <2>1, <2>2 DEF LookUp, TypeOK, store, refresh, history
<1>9. ASSUME NEW p \in Process, SkipOverview(p) PROVE TypeOK'
  BY <1>9, UnlookedType DEF SkipOverview, TypeOK, Stage, store, refresh, history
<1>10. ASSUME NEW p \in Process, OpenOverview(p) PROVE TypeOK'
  BY <1>10 DEF OpenOverview, TypeOK, Stage, Content, HalfWritten, locals, refresh, history
<1>11. ASSUME NEW p \in Process, SaveOverview(p) PROVE TypeOK'
  <2> DEFINE k == <<Overview, Earliest(toBuild[p])>>
  <2>1. PICK text \in AfterWrite(files[k], OverviewReadiness(p)) : files' = [files EXCEPT ![k] = text]
    BY <1>11 DEF SaveOverview
  <2>2. text \in Content
    BY WriteTypes DEF OverviewReadiness, Readiness
  <2> QED
    BY <1>11, <2>1, <2>2, UnlookedType DEF SaveOverview, TypeOK, Stage, refresh, history
<1>12. ASSUME NEW p \in Process, Settle(p) PROVE TypeOK'
  <2>1. {r.key : r \in runs[p]} \subseteq Component \X Date
    BY DEF TypeOK, Run
  <2> QED  BY <1>12, <2>1, ForgetTypes DEF Settle, TypeOK, store
<1>13. ASSUME NEW p \in Process, DieBetween(p) \/ DieWriting(p) PROVE TypeOK'
  <2>1. /\ files' \in [Key -> Content] /\ index' \subseteq Key
        /\ indexFile' \in HalfWritten \cup {"whole"}
    BY <1>13 DEF DieBetween, DieWriting, TypeOK, Content, HalfWritten, store
  <2>2. DatesOf(runs[p]) \subseteq Date
    BY KeyTypes DEF TypeOK
  <2>3. Die(p)
    BY <1>13 DEF DieBetween, DieWriting
  <2> QED  BY <2>1, <2>2, <2>3, ForgetTypes DEF Die, TypeOK
<1>14. CASE UNCHANGED vars
  BY <1>14 DEF TypeOK, vars, store, locals, refresh, history
<1> QED
  BY <1>1, <1>2, <1>3, <1>4, <1>5, <1>6, <1>7, <1>8, <1>9, <1>10, <1>11, <1>12, <1>13, <1>14 DEF Next

(* Every variable keeps its type.                                          *)
THEOREM ServingTypeCorrect == Spec => []TypeOK
BY InitTypeOK, StepTypeOK, PTL DEF Spec

-----------------------------------------------------------------------------
(***************************************************************************)
(* The index never dangles.  A refresh reads only files that exist, files  *)
(* are never removed, and what a lookup returned was read from one.        *)
(***************************************************************************)
IdleIsClean ==
  \A p \in Process : stage[p] = "idle" =>
    runs[p] = {} /\ toSave[p] = {} /\ writing[p] = {} /\ toBuild[p] = {} /\ found[p] = Unlooked

ReadFromFiles ==
  \A p \in Process :
    /\ scanned[p] \subseteq Stored
    /\ \A c \in Component : found[p][c] \in Readiness => <<c, Earliest(toBuild[p])>> \in Stored

\* what a process has open is there, and it has a date to look at while looking
OpenIsStored ==
  \A p \in Process :
    /\ OpenKeys(p) \subseteq Stored
    /\ stage[p] \in {"looking", "composing"} => toBuild[p] # {}

DangleInv == IdleIsClean /\ NothingDangles /\ ReadFromFiles /\ OpenIsStored

\* a snapshot file is opened and overwritten, never removed
LEMMA WriteKeepsStored ==
  ASSUME TypeOK, NEW k, NEW v, v # "none", files' = [files EXCEPT ![k] = v]
  PROVE  /\ Stored \subseteq Stored' /\ (k \in Key => k \in Stored')
         /\ \A j \in Stored' : j # k => j \in Stored
BY DEF TypeOK, Stored

\* an overwritten file was there before: nothing comes to dangle
LEMMA OverwriteDanglesNothing ==
  ASSUME TypeOK, NothingDangles, NEW k \in Stored, NEW v, v # "none",
         files' = [files EXCEPT ![k] = v], index' = index
  PROVE  NothingDangles' /\ Stored' = Stored
<1>1. \A j \in Key : (files'[j] = "none") <=> (files[j] = "none")
  BY DEF TypeOK, Stored
<1>2. \A c \in Capability, d \in Date : (files'[<<c, d>>] = "none") <=> (files[<<c, d>>] = "none")
  BY <1>1 DEF Key
<1> QED  BY <1>1, <1>2 DEF NothingDangles, Stored, Capability

\* a process that is composing has the overview of its earliest date open
LEMMA ComposingKey ==
  ASSUME TypeOK, OpenIsStored, NEW p \in Process, stage[p] \in {"looking", "composing"}
  PROVE  /\ Earliest(toBuild[p]) \in toBuild[p] /\ Earliest(toBuild[p]) \in Date
         /\ <<Overview, Earliest(toBuild[p])>> \in Key
         /\ stage[p] = "composing" => <<Overview, Earliest(toBuild[p])>> \in Stored
<1>1. toBuild[p] # {} /\ toBuild[p] \in SUBSET Date
  BY DEF OpenIsStored, TypeOK
<1>2. Earliest(toBuild[p]) \in toBuild[p]
  BY <1>1, EarliestIsLeast
<1> QED  BY <1>1, <1>2 DEF OpenIsStored, OpenKeys, Key, Capability

\* whatever is stored stays so, a lookup and a refresh under way stay true
LEMMA ReadStaysTrue ==
  ASSUME DangleInv, Stored \subseteq Stored', NEW p \in Process,
         scanned'[p] \subseteq Stored',
         \/ found'[p] = Unlooked
         \/ found'[p] = found[p] /\ toBuild'[p] = toBuild[p]
  PROVE  /\ scanned'[p] \subseteq Stored'
         /\ \A c \in Component : found'[p][c] \in Readiness => <<c, Earliest(toBuild'[p])>> \in Stored'
BY DEF DangleInv, ReadFromFiles, Unlooked, Readiness

\* a process that does not move keeps open what it has open
LEMMA OpenStaysStored ==
  ASSUME OpenIsStored, Stored \subseteq Stored', NEW p \in Process,
         stage'[p] = stage[p], writing'[p] = writing[p], toBuild'[p] = toBuild[p]
  PROVE  /\ OpenKeys(p)' \subseteq Stored'
         /\ stage'[p] \in {"looking", "composing"} => toBuild'[p] # {}
BY DEF OpenIsStored, OpenKeys

\* a process that moved to a stage in which it has nothing open
LEMMA NothingOpen ==
  ASSUME NEW p \in Process, stage'[p] # "composing", writing'[p] = {}
  PROVE  OpenKeys(p)' = {}
BY DEF OpenKeys

LEMMA StepDangleInv == TypeOK /\ DangleInv /\ [Next]_vars => DangleInv'
<1> SUFFICES ASSUME TypeOK, DangleInv, [Next]_vars PROVE DangleInv'
  OBVIOUS
<1> USE DEF DangleInv
<1> DEFINE Others(p) == \A q \in Process \ {p} :
             /\ stage'[q] = stage[q] /\ runs'[q] = runs[q] /\ toSave'[q] = toSave[q]
             /\ writing'[q] = writing[q] /\ toBuild'[q] = toBuild[q] /\ found'[q] = found[q]
             /\ scanned'[q] = scanned[q]
\* it is enough to look at the process that moves
<1>0. ASSUME NEW p \in Process, Others(p), Stored \subseteq Stored', NothingDangles',
             stage'[p] = "idle" =>
               runs'[p] = {} /\ toSave'[p] = {} /\ writing'[p] = {} /\ toBuild'[p] = {} /\ found'[p] = Unlooked,
             scanned'[p] \subseteq Stored',
             \A c \in Component : found'[p][c] \in Readiness => <<c, Earliest(toBuild'[p])>> \in Stored',
             OpenKeys(p)' \subseteq Stored',
             stage'[p] \in {"looking", "composing"} => toBuild'[p] # {}
      PROVE  DangleInv'
  <2>1. IdleIsClean'
    BY <1>0 DEF IdleIsClean, Unlooked
  <2>2. ASSUME NEW q \in Process, q # p
        PROVE  /\ scanned'[q] \subseteq Stored'
               /\ \A c \in Component : found'[q][c] \in Readiness => <<c, Earliest(toBuild'[q])>> \in Stored'
    <3>1. scanned'[q] \subseteq Stored' /\ found'[q] = found[q] /\ toBuild'[q] = toBuild[q]
      BY <1>0, <2>2 DEF ReadFromFiles
    <3> QED  BY <1>0, <3>1, ReadStaysTrue
  <2>3. ReadFromFiles'
    BY <1>0, <2>2 DEF ReadFromFiles
  <2>4. OpenIsStored'
    BY <1>0, OpenStaysStored DEF OpenIsStored
  <2> QED  BY <1>0, <2>1, <2>3, <2>4
<1>1. ASSUME NEW p \in Process, StartMaterialize(p) PROVE DangleInv'
  <2>1. UNCHANGED <<files, index, scanned, found, writing>> /\ Stored' = Stored
    BY <1>1 DEF StartMaterialize, store, refresh, Stored
  <2>2. stage'[p] = "saving" /\ found[p] = Unlooked /\ writing[p] = {}
    BY <1>1 DEF StartMaterialize, IdleIsClean, TypeOK
  <2>3. Others(p)
    BY <1>1, <2>1 DEF StartMaterialize, TypeOK
  <2>4. NothingDangles' /\ scanned'[p] \subseteq Stored'
    BY <2>1 DEF NothingDangles, ReadFromFiles
  <2>5. OpenKeys(p)' = {}
    BY <2>1, <2>2, NothingOpen
  <2> QED  BY <2>1, <2>2, <2>3, <2>4, <2>5, <1>0 DEF Unlooked, Readiness
<1>2. ASSUME NEW p \in Process, OpenComponent(p) PROVE DangleInv'
  <2>1. PICK r \in toSave[p] :
           /\ files' = [files EXCEPT ![r.key] = "empty"]
           /\ writing' = [writing EXCEPT ![p] = {r}]
    BY <1>2 DEF OpenComponent
  <2>2. r.key \in Component \X Date /\ r.key \in Key
    BY <2>1, KeyTypes DEF TypeOK
  <2>3. Stored \subseteq Stored' /\ r.key \in Stored'
    BY <2>1, <2>2, WriteKeepsStored
  <2>4. UNCHANGED <<index, runs, toSave, toBuild, scanned, found>> /\ stage'[p] = "writing" /\ writing'[p] = {r}
    BY <1>2, <2>1 DEF OpenComponent, refresh, TypeOK
  <2>5. Others(p)
    BY <1>2, <2>1, <2>4 DEF OpenComponent, TypeOK
  <2>6. NothingDangles'
    <3>1. \A d \in Date : files'[<<Overview, d>>] = files[<<Overview, d>>]
      BY <2>1, <2>2, ServingAssumption DEF TypeOK
    <3>2. \A c \in Component, d \in Date : files[<<c, d>>] # "none" => files'[<<c, d>>] # "none"
      BY <2>1, <2>2 DEF TypeOK
    <3> QED  BY <2>3, <2>4, <3>1, <3>2 DEF NothingDangles
  <2>7. OpenKeys(p)' = {r.key}
    BY <2>4 DEF OpenKeys
  <2>8. /\ scanned'[p] \subseteq Stored'
        /\ \A c \in Component : found'[p][c] \in Readiness => <<c, Earliest(toBuild'[p])>> \in Stored'
    BY <2>3, <2>4 DEF ReadFromFiles
  <2> QED  BY <2>3, <2>4, <2>5, <2>6, <2>7, <2>8, <1>0
<1>3. ASSUME NEW p \in Process, SaveComponent(p) PROVE DangleInv'
  <2>1. PICK r \in writing[p] :
           \E text \in AfterWrite(files[r.key], r.readiness) : files' = [files EXCEPT ![r.key] = text]
    BY <1>3 DEF SaveComponent
  <2>2. PICK text \in AfterWrite(files[r.key], r.readiness) : files' = [files EXCEPT ![r.key] = text]
    BY <2>1
  <2>3. r.key \in Stored /\ text # "none"
    BY <2>1, WriteTypes DEF OpenIsStored, OpenKeys, TypeOK, Run
  <2>4. UNCHANGED <<index, runs, toBuild, scanned, found>> /\ stage'[p] = "listing" /\ writing'[p] = {}
    BY <1>3 DEF SaveComponent, refresh, TypeOK
  <2>5. Others(p)
    BY <1>3, <2>4 DEF SaveComponent, TypeOK
  <2>6. NothingDangles' /\ Stored' = Stored
    BY <2>2, <2>3, <2>4, OverwriteDanglesNothing
  <2>7. OpenKeys(p)' = {}
    BY <2>4, NothingOpen
  <2>8. /\ scanned'[p] \subseteq Stored'
        /\ \A c \in Component : found'[p][c] \in Readiness => <<c, Earliest(toBuild'[p])>> \in Stored'
    BY <2>4, <2>6 DEF ReadFromFiles
  <2> QED  BY <2>4, <2>5, <2>6, <2>7, <2>8, <1>0
<1>4. ASSUME NEW p \in Process, ListDates(p) \/ ScanDate(p) \/ OpenIndex(p) PROVE DangleInv'
  <2>1. UNCHANGED <<files, index, runs, toSave, writing, toBuild, found>> /\ Stored' = Stored
    BY <1>4 DEF ListDates, ScanDate, OpenIndex, store, locals, Stored
  <2>2. stage'[p] \in {"scanning", "indexing"} /\ stage[p] \in {"listing", "scanning"}
    BY <1>4 DEF ListDates, ScanDate, OpenIndex, TypeOK
  <2>3. Others(p)
    BY <1>4, <2>1 DEF ListDates, ScanDate, OpenIndex, refresh, TypeOK
  <2>4. scanned'[p] \subseteq Stored'
    BY <1>4, <2>1 DEF ListDates, ScanDate, OpenIndex, refresh, ReadFromFiles, TypeOK
  <2>5. NothingDangles'
    BY <2>1 DEF NothingDangles
  <2>6. OpenKeys(p)' \subseteq Stored'
    BY <2>1, <2>2 DEF OpenKeys, OpenIsStored
  <2>7. \A c \in Component : found'[p][c] \in Readiness => <<c, Earliest(toBuild'[p])>> \in Stored'
    BY <2>1 DEF ReadFromFiles
  <2> QED  BY <2>1, <2>2, <2>3, <2>4, <2>5, <2>6, <2>7, <1>0
<1>5. ASSUME NEW p \in Process, WriteIndex(p) PROVE DangleInv'
  <2>1. UNCHANGED <<files, runs, toSave, writing, toBuild, found>> /\ Stored' = Stored
    BY <1>5 DEF WriteIndex, locals, Stored
  <2>2. stage'[p] = AfterSave(p) /\ AfterSave(p) \in {"saving", "looking", "settling"} /\ stage[p] = "indexing"
    BY <1>5 DEF WriteIndex, AfterSave, TypeOK
  <2>3. Others(p) /\ scanned'[p] = {}
    BY <1>5, <2>1 DEF WriteIndex, TypeOK
  <2>4. NothingDangles'
    BY <1>5, <2>1 DEF WriteIndex, NewIndex, ReadFromFiles, NothingDangles
  <2>5. OpenKeys(p)' \subseteq Stored'
    BY <2>1, <2>2 DEF OpenKeys, OpenIsStored
  <2>6. AfterSave(p) = "looking" => toBuild[p] # {}
    BY DEF AfterSave
  <2>7. \A c \in Component : found'[p][c] \in Readiness => <<c, Earliest(toBuild'[p])>> \in Stored'
    BY <2>1 DEF ReadFromFiles
  <2> QED  BY <2>1, <2>2, <2>3, <2>4, <2>5, <2>6, <2>7, <1>0
<1>6. ASSUME NEW p \in Process, LookUp(p) PROVE DangleInv'
  <2>1. UNCHANGED <<files, index, stage, runs, toSave, writing, toBuild, scanned>> /\ Stored' = Stored
    BY <1>6 DEF LookUp, store, refresh, Stored
  <2>2. PICK c \in Component :
           found' = [found EXCEPT ![p][c] = LoadStrict(c, Earliest(toBuild[p]))]
    BY <1>6 DEF LookUp
  <2>3. LoadStrict(c, Earliest(toBuild[p])) \in Readiness => <<c, Earliest(toBuild[p])>> \in Stored
    BY DEF LoadStrict, NothingDangles, Readiness
  <2>4. Others(p)
    BY <2>1, <2>2 DEF TypeOK
  <2>5. found'[p][c] = LoadStrict(c, Earliest(toBuild[p])) /\ \A b \in Component \ {c} : found'[p][b] = found[p][b]
    BY <2>2 DEF TypeOK
  <2>6. \A b \in Component : found'[p][b] \in Readiness => <<b, Earliest(toBuild'[p])>> \in Stored'
    BY <2>1, <2>3, <2>5 DEF ReadFromFiles
  <2>7. /\ stage'[p] # "idle" /\ scanned'[p] \subseteq Stored' /\ OpenKeys(p)' \subseteq Stored'
        /\ stage'[p] \in {"looking", "composing"} => toBuild'[p] # {}
    BY <1>6, <2>1 DEF LookUp, ReadFromFiles, OpenIsStored, OpenKeys
  <2>8. NothingDangles'
    BY <2>1 DEF NothingDangles
  <2> QED  BY <2>1, <2>4, <2>6, <2>7, <2>8, <1>0
<1>7. ASSUME NEW p \in Process, SkipOverview(p) PROVE DangleInv'
  <2> DEFINE d0 == Earliest(toBuild[p])
  <2>1. UNCHANGED <<files, index, runs, toSave, writing, scanned>> /\ Stored' = Stored
    BY <1>7 DEF SkipOverview, store, refresh, Stored
  <2>2. /\ stage[p] = "looking" /\ found'[p] = Unlooked /\ toBuild'[p] = toBuild[p] \ {d0}
        /\ stage'[p] = IF toBuild[p] = {d0} THEN "settling" ELSE "looking"
    BY <1>7 DEF SkipOverview, LookedUp, TypeOK
  <2>3. Others(p)
    BY <1>7, <2>1 DEF SkipOverview, TypeOK
  <2>4. d0 \in toBuild[p]
    BY <2>2, ComposingKey
  <2> HIDE DEF d0
  <2>5. stage'[p] = "looking" => toBuild'[p] # {}
    BY <2>2, <2>4
  <2>6. NothingDangles' /\ scanned'[p] \subseteq Stored'
    BY <2>1 DEF NothingDangles, ReadFromFiles
  <2>7. OpenKeys(p)' \subseteq Stored'
    BY <2>1, <2>2 DEF OpenKeys, OpenIsStored
  <2>8. \A c \in Component : found'[p][c] \notin Readiness
    BY <2>2 DEF Unlooked, Readiness
  <2> QED  BY <2>1, <2>2, <2>3, <2>5, <2>6, <2>7, <2>8, <1>0
<1>8. ASSUME NEW p \in Process, OpenOverview(p) PROVE DangleInv'
  <2> DEFINE d0 == Earliest(toBuild[p])
  <2>1. UNCHANGED <<index, runs, toSave, writing, toBuild, found, scanned>>
    BY <1>8 DEF OpenOverview, refresh, locals
  <2>2. files' = [files EXCEPT ![<<Overview, d0>>] = "empty"] /\ stage'[p] = "composing" /\ stage[p] = "looking"
    BY <1>8 DEF OpenOverview, LookedUp, TypeOK
  <2>3. d0 \in toBuild[p] /\ d0 \in Date /\ <<Overview, d0>> \in Key
    BY <2>2, ComposingKey
  <2>4. Stored \subseteq Stored' /\ <<Overview, d0>> \in Stored'
    BY <2>2, <2>3, WriteKeepsStored
  <2>5. Others(p)
    BY <1>8, <2>1 DEF OpenOverview, TypeOK
  <2>6. \A c \in Component : <<c, d0>> \in Stored
    <3>1. \A c \in Component : found[p][c] \in Readiness
      BY <1>8 DEF OpenOverview, LookedUp, Complete, TypeOK
    <3> QED  BY <3>1 DEF ReadFromFiles
  <2>7. NothingDangles'
    <3>1. \A d \in Date : d # d0 => files'[<<Overview, d>>] = files[<<Overview, d>>]
      BY <2>2 DEF TypeOK
    <3>2. \A c \in Component, d \in Date : files'[<<c, d>>] = files[<<c, d>>]
      BY <2>2, ServingAssumption DEF TypeOK
    <3> QED  BY <2>1, <2>4, <2>6, <3>1, <3>2 DEF NothingDangles, Stored
  <2>8. OpenKeys(p)' \subseteq Stored'
    BY <2>1, <2>2, <2>4 DEF OpenKeys, OpenIsStored
  <2>9. /\ scanned'[p] \subseteq Stored'
        /\ \A c \in Component : found'[p][c] \in Readiness => <<c, Earliest(toBuild'[p])>> \in Stored'
    BY <2>1, <2>4 DEF ReadFromFiles
  <2> QED  BY <2>1, <2>2, <2>3, <2>4, <2>5, <2>7, <2>8, <2>9, <1>0
<1>9. ASSUME NEW p \in Process, SaveOverview(p) PROVE DangleInv'
  <2> DEFINE k == <<Overview, Earliest(toBuild[p])>>
  <2>1. PICK text \in AfterWrite(files[k], OverviewReadiness(p)) : files' = [files EXCEPT ![k] = text]
    BY <1>9 DEF SaveOverview
  <2>2. k \in Stored /\ text # "none"
    BY <1>9, ComposingKey, WriteTypes DEF SaveOverview, OverviewReadiness, Readiness
  <2>3. UNCHANGED <<index, runs, toSave, writing, scanned>> /\ stage'[p] = "listing" /\ found'[p] = Unlooked
    BY <1>9 DEF SaveOverview, refresh, TypeOK
  <2>4. Others(p)
    BY <1>9, <2>3 DEF SaveOverview, TypeOK
  <2> HIDE DEF k
  <2>5. NothingDangles' /\ Stored' = Stored
    BY <2>1, <2>2, <2>3, OverwriteDanglesNothing
  <2>6. OpenKeys(p)' \subseteq Stored'
    BY <2>3, <2>5 DEF OpenKeys, OpenIsStored
  <2>7. /\ scanned'[p] \subseteq Stored'
        /\ \A c \in Component : found'[p][c] \in Readiness => <<c, Earliest(toBuild'[p])>> \in Stored'
    BY <2>3, <2>5 DEF ReadFromFiles, Unlooked, Readiness
  <2> QED  BY <2>3, <2>4, <2>5, <2>6, <2>7, <1>0
<1>10. ASSUME NEW p \in Process, Settle(p) \/ DieBetween(p) \/ DieWriting(p) PROVE DangleInv'
  <2>1. Forget(p)
    BY <1>10 DEF Settle, DieBetween, DieWriting, Die
  <2>2. NothingDangles' /\ Stored' = Stored
    <3>1. ASSUME NEW k \in OpenKeys(p), files' = [files EXCEPT ![k] = "mixed"], index' = index
          PROVE  NothingDangles' /\ Stored' = Stored
      BY <3>1, OverwriteDanglesNothing DEF OpenIsStored
    <3>2. ASSUME UNCHANGED <<files, index>> PROVE NothingDangles' /\ Stored' = Stored
      BY <3>2 DEF NothingDangles, Stored
    <3> QED  BY <1>10, <3>1, <3>2 DEF Settle, DieBetween, DieWriting, store
  <2>3. /\ stage'[p] = "idle" /\ runs'[p] = {} /\ toSave'[p] = {} /\ writing'[p] = {}
        /\ toBuild'[p] = {} /\ scanned'[p] = {} /\ found'[p] = Unlooked
    BY <2>1 DEF Forget, TypeOK
  <2>4. Others(p)
    BY <2>1 DEF Forget, TypeOK
  <2>5. OpenKeys(p)' = {}
    BY <2>3, NothingOpen
  <2>6. \A c \in Component : found'[p][c] \notin Readiness
    BY <2>3 DEF Unlooked, Readiness
  <2> QED  BY <2>2, <2>3, <2>4, <2>5, <2>6, <1>0
<1>11. CASE UNCHANGED vars
  BY <1>11 DEF IdleIsClean, NothingDangles, ReadFromFiles, OpenIsStored, OpenKeys, Stored, Unlooked,
               vars, store, locals, refresh, history
<1> QED
  BY <1>1, <1>2, <1>3, <1>4, <1>5, <1>6, <1>7, <1>8, <1>9, <1>10, <1>11 DEF Next

LEMMA InitDangleInv == Init => DangleInv
BY DEF Init, DangleInv, IdleIsClean, NothingDangles, ReadFromFiles, OpenIsStored, OpenKeys, Stored, Key,
       Capability, Unlooked, Readiness

(* The index leads only to files that exist, and an overview exists only   *)
(* where all its components do, however cycles overlap and die.            *)
THEOREM IndexNeverDangles == Spec => []NothingDangles
<1>1. DangleInv => NothingDangles
  BY DEF DangleInv
<1> QED  BY <1>1, InitTypeOK, InitDangleInv, StepTypeOK, StepDangleInv, PTL DEF Spec

-----------------------------------------------------------------------------
(***************************************************************************)
(* Settled runs are served, as long as cycles follow one another.          *)
(***************************************************************************)
KeysOf(rs) == {r.key : r \in rs}

\* with this cycle, every component of the date has a run
Full(p, d) == \A c \in Component : <<c, d>> \in settled \cup KeysOf(runs[p])

Listed(p) == stage[p] \notin {"listing", "scanning", "indexing"}

\* where the saves of a cycle stand
Saves(p) ==
  /\ toSave[p] \subseteq runs[p]
  /\ KeysOf(runs[p] \ toSave[p]) \subseteq Stored
  /\ Listed(p) => KeysOf(runs[p] \ toSave[p]) \subseteq index
  /\ stage[p] = "scanning" => \A k \in Stored : k \in scanned[p] \/ k[2] \in toScan[p]
  /\ stage[p] = "indexing" => Stored \subseteq scanned[p]

\* where its overviews stand
Overviews(p) ==
  /\ toBuild[p] \subseteq DatesOf(runs[p])
  /\ stage[p] \in {"looking", "composing", "settling"} => toSave[p] = {}
  /\ stage[p] = "settling" => toBuild[p] = {}
  /\ toSave[p] # {} => toBuild[p] = DatesOf(runs[p])
  /\ \A c \in Component : found[p][c] = "none" =>
       <<c, Earliest(toBuild[p])>> \notin settled \cup KeysOf(runs[p])
  /\ \A d \in DatesOf(runs[p]) \ toBuild[p] : Full(p, d) =>
       /\ <<Overview, d>> \in Stored
       /\ Listed(p) => <<Overview, d>> \in index

\* which files it knows to be whole, and which one it has emptied itself
Sound(p) ==
  /\ stage[p] \in {"looking", "settling"} => WholeStore
  /\ stage[p] = "scanning" => scanned[p] \subseteq Readable
  /\ stage[p] = "indexing" => Stored \subseteq Readable /\ indexFile = "empty"
  /\ stage[p] = "composing" => files[<<Overview, Earliest(toBuild[p])>>] = "empty"
  /\ stage[p] # "writing" => writing[p] = {}
  /\ writing[p] \subseteq toSave[p]
  /\ \A r, q \in writing[p] : r = q
  /\ \A r \in writing[p] : files[r.key] = "empty"

Alone(p) == \A q \in Process \ {p} : stage[q] = "idle"

SettledListed ==
  /\ settled \subseteq index
  /\ \A d \in Date : (\A c \in Component : <<c, d>> \in settled) => <<Overview, d>> \in index

Blamed ==
  \A k \in Key \ Readable : k[2] \in unfinished \/ \E p \in Process : k \in OpenKeys(p)

BlamedOn(p) == \A k \in Key \ Readable : k[2] \in unfinished \/ k \in OpenKeys(p)

ServedInv ==
  ~ overlapped =>
    /\ SettledListed /\ Blamed
    /\ \A p \in Process : stage[p] # "idle" => Alone(p) /\ Saves(p) /\ Overviews(p) /\ Sound(p)

\* only one cycle is in flight, so only that one has to be looked at
LEMMA OnlyOneMoves ==
  ASSUME TypeOK, ServedInv, NEW p \in Process, NEW s, stage' = [stage EXCEPT ![p] = s],
         ~ overlapped' => ~ overlapped /\ Alone(p),
         ~ overlapped' => SettledListed' /\ BlamedOn(p)' /\ (s # "idle" => Saves(p)' /\ Overviews(p)' /\ Sound(p)')
  PROVE  ServedInv'
<1>1. \A q \in Process : stage'[q] = IF q = p THEN s ELSE stage[q]
  BY DEF TypeOK
<1>2. ~ overlapped' => \A q \in Process : stage'[q] # "idle" => q = p /\ Alone(p)'
  BY <1>1 DEF Alone
<1>3. ~ overlapped' => Blamed'
  BY DEF Blamed, BlamedOn
<1> QED  BY <1>1, <1>2, <1>3, Zenon DEF ServedInv

\* while a cycle is alone, a half-written file is its own or a dead cycle's
LEMMA OnlyItsFile ==
  ASSUME DangleInv, Blamed, NEW p \in Process, Alone(p)
  PROVE  BlamedOn(p)
<1>1. \A q \in Process \ {p} : OpenKeys(q) = {}
  BY DEF DangleInv, IdleIsClean, Alone, OpenKeys
<1> QED  BY <1>1 DEF Blamed, BlamedOn

\* a file that is opened is unreadable, the others are what they were
LEMMA WriteReadable ==
  ASSUME TypeOK, NEW k \in Key, NEW v, files' = [files EXCEPT ![k] = v]
  PROVE  /\ \A j \in Key : j # k => (j \in Readable' <=> j \in Readable)
         /\ v \notin HalfWritten => k \in Readable'
         /\ files'[k] = v
BY DEF TypeOK, Readable

\* what a cycle has open belongs to one of its dates
LEMMA ItsDates ==
  ASSUME TypeOK, OpenIsStored, NEW p \in Process, Saves(p), Overviews(p), Sound(p)
  PROVE  \A k \in OpenKeys(p) : k[2] \in DatesOf(runs[p])
<1>1. \A r \in writing[p] : r.key[2] \in DatesOf(runs[p])
  BY DEF Saves, Sound, DatesOf
<1>2. stage[p] = "composing" => Earliest(toBuild[p]) \in DatesOf(runs[p])
  BY ComposingKey DEF Overviews
<1> QED  BY <1>1, <1>2 DEF OpenKeys

LEMMA StepServedInv == TypeOK /\ DangleInv /\ ServedInv /\ [Next]_vars => ServedInv'
<1> SUFFICES ASSUME TypeOK, DangleInv, ServedInv, [Next]_vars PROVE ServedInv'
  OBVIOUS
<1>1. ASSUME NEW p \in Process, StartMaterialize(p) PROVE ServedInv'
  <2>1. PICK rs \in SUBSET Run :
           /\ runs' = [runs EXCEPT ![p] = rs] /\ toSave' = [toSave EXCEPT ![p] = rs]
           /\ toBuild' = [toBuild EXCEPT ![p] = DatesOf(rs)]
    BY <1>1 DEF StartMaterialize
  <2>2. /\ runs'[p] = rs /\ toSave'[p] = rs /\ toBuild'[p] = DatesOf(rs) /\ found'[p] = Unlooked
        /\ writing'[p] = {} /\ writing[p] = {}
    BY <1>1, <2>1 DEF StartMaterialize, TypeOK, DangleInv, IdleIsClean
  <2>3. stage' = [stage EXCEPT ![p] = "saving"] /\ stage'[p] = "saving" /\ stage[p] = "idle"
    BY <1>1 DEF StartMaterialize, TypeOK
  <2>4. ~ overlapped' => ~ overlapped /\ Alone(p)
    BY <1>1 DEF StartMaterialize, Alone, TypeOK
  <2>5. UNCHANGED <<files, index, indexFile, settled, unfinished>> /\ Readable' = Readable
    BY <1>1 DEF StartMaterialize, store, Readable
  <2>6. Saves(p)' /\ Sound(p)'
    BY <2>2, <2>3 DEF Saves, KeysOf, Sound
  <2>7. Overviews(p)'
    BY <2>2, <2>3 DEF Overviews, Unlooked
  <2>8. ~ overlapped' => SettledListed'
    BY <2>4, <2>5 DEF ServedInv, SettledListed
  <2>9. ~ overlapped' => BlamedOn(p)'
    <3>1. OpenKeys(p) = {}
      BY <2>2, <2>3 DEF OpenKeys
    <3>2. ~ overlapped' => BlamedOn(p)
      BY <2>4, OnlyItsFile DEF ServedInv
    <3> QED  BY <2>5, <3>1, <3>2 DEF BlamedOn
  <2> QED  BY <2>3, <2>4, <2>6, <2>7, <2>8, <2>9, OnlyOneMoves
\* in every other step the cycle that moves was alone before
<1> DEFINE Was(p) == ~ overlapped /\ Alone(p) /\ SettledListed /\ BlamedOn(p)
                       /\ Saves(p) /\ Overviews(p) /\ Sound(p)
<1>2. ASSUME NEW p \in Process, stage[p] # "idle", UNCHANGED overlapped
      PROVE  ~ overlapped' => Was(p)
  BY <1>2, OnlyItsFile DEF ServedInv
<1> HIDE DEF Was
\* steps that leave files, settled runs and the dead alone blame nobody else
<1>0. ASSUME NEW p \in Process, Was(p), UNCHANGED <<files, settled, unfinished, writing>>,
             stage[p] # "composing"
      PROVE  BlamedOn(p)'
  <2>1. OpenKeys(p) \subseteq OpenKeys(p)'
    BY <1>0 DEF OpenKeys
  <2>2. Readable' = Readable
    BY <1>0 DEF Readable
  <2> QED  BY <1>0, <2>1, <2>2 DEF Was, BlamedOn
<1>3. ASSUME NEW p \in Process, OpenComponent(p) PROVE ServedInv'
  <2>1. PICK r \in toSave[p] :
           /\ files' = [files EXCEPT ![r.key] = "empty"]
           /\ writing' = [writing EXCEPT ![p] = {r}]
    BY <1>3 DEF OpenComponent
  <2>2. writing'[p] = {r} /\ r \in Run /\ r.key \in Key
    BY <2>1, KeyTypes DEF TypeOK
  <2>3. Stored \subseteq Stored'
    BY <2>1, WriteKeepsStored
  <2>4. UNCHANGED <<index, runs, toSave, toBuild, found, settled, unfinished, overlapped>>
    BY <1>3 DEF OpenComponent, history
  <2>5. stage' = [stage EXCEPT ![p] = "writing"] /\ stage'[p] = "writing" /\ stage[p] = "saving"
    BY <1>3 DEF OpenComponent, TypeOK
  <2>6. ~ overlapped' => Was(p)
    BY <1>2, <1>3, <2>4 DEF OpenComponent
  <2>7. ASSUME Was(p) PROVE SettledListed' /\ BlamedOn(p)' /\ Saves(p)' /\ Overviews(p)' /\ Sound(p)'
    <3>1. Saves(p)'
      BY <2>3, <2>4, <2>5, <2>7 DEF Was, Saves, KeysOf, Listed
    <3>2. Overviews(p)'
      BY <2>3, <2>4, <2>5, <2>7 DEF Was, Overviews, Listed, Full
    <3>3. Sound(p)'
      BY <2>1, <2>2, <2>4, <2>5, WriteReadable DEF Sound
    <3>4. BlamedOn(p)'
      <4>1. OpenKeys(p) = {} /\ OpenKeys(p)' = {r.key}
        BY <2>2, <2>5, <2>7 DEF Was, Sound, OpenKeys
      <4> QED  BY <2>1, <2>2, <2>4, <2>7, <4>1, WriteReadable DEF Was, BlamedOn
    <3>5. SettledListed'
      BY <2>4, <2>7 DEF Was, SettledListed
    <3> QED  BY <3>1, <3>2, <3>3, <3>4, <3>5
  <2> QED  BY <2>4, <2>5, <2>6, <2>7, OnlyOneMoves DEF Was
<1>4. ASSUME NEW p \in Process, SaveComponent(p) PROVE ServedInv'
  <2>1. PICK r \in writing[p] :
           /\ \E text \in AfterWrite(files[r.key], r.readiness) : files' = [files EXCEPT ![r.key] = text]
           /\ toSave' = [toSave EXCEPT ![p] = @ \ {r}]
    BY <1>4 DEF SaveComponent
  <2>2. PICK text \in AfterWrite(files[r.key], r.readiness) : files' = [files EXCEPT ![r.key] = text]
    BY <2>1
  <2>3. toSave'[p] = toSave[p] \ {r} /\ r \in Run /\ r.key \in Key /\ text # "none" /\ writing'[p] = {}
    <3>1. r \in Run /\ toSave'[p] = toSave[p] \ {r} /\ writing'[p] = {}
      BY <1>4, <2>1 DEF SaveComponent, TypeOK
    <3>2. r.key \in Key /\ r.readiness \in Readiness
      BY <3>1, KeyTypes DEF Run
    <3>3. text # "none"
      BY <2>2, <3>2, WriteTypes DEF Readiness
    <3> QED  BY <3>1, <3>2, <3>3
  <2>4. Stored \subseteq Stored' /\ r.key \in Stored'
    BY <2>2, <2>3, WriteKeepsStored
  <2>5. UNCHANGED <<index, runs, toBuild, found, settled, unfinished, overlapped>>
    BY <1>4 DEF SaveComponent, history
  <2>6. stage' = [stage EXCEPT ![p] = "listing"] /\ stage'[p] = "listing" /\ stage[p] = "writing"
    BY <1>4 DEF SaveComponent, TypeOK
  <2>7. ~ overlapped' => Was(p)
    BY <1>2, <2>5, <2>6
  <2>8. ASSUME Was(p) PROVE SettledListed' /\ BlamedOn(p)' /\ Saves(p)' /\ Overviews(p)' /\ Sound(p)'
    <3>0. r \in toSave[p] /\ writing[p] = {r} /\ files[r.key] = "empty"
      BY <2>1, <2>8 DEF Was, Sound
    <3>1. Saves(p)'
      BY <2>3, <2>4, <2>5, <2>6, <2>8 DEF Was, Saves, KeysOf, Listed
    <3>2. DatesOf(runs[p]) = toBuild[p]
      BY <2>8, <3>0 DEF Was, Overviews
    <3>3. Overviews(p)'
      BY <2>3, <2>5, <2>6, <2>8, <3>2 DEF Was, Overviews
    <3>4. Sound(p)'
      BY <2>3, <2>6 DEF Sound
    <3>5. text \notin HalfWritten
      BY <2>2, <2>3, <3>0, WriteTypes DEF Run, Readiness, HalfWritten
    <3>6. BlamedOn(p)'
      <4>1. OpenKeys(p) = {r.key}
        BY <2>6, <3>0 DEF OpenKeys
      <4> QED  BY <2>2, <2>3, <2>5, <2>8, <3>5, <4>1, WriteReadable DEF Was, BlamedOn
    <3>7. SettledListed'
      BY <2>5, <2>8 DEF Was, SettledListed
    <3> QED  BY <3>1, <3>3, <3>4, <3>6, <3>7
  <2> QED  BY <2>5, <2>6, <2>7, <2>8, OnlyOneMoves DEF Was
<1>5. ASSUME NEW p \in Process, ListDates(p) PROVE ServedInv'
  <2>1. /\ UNCHANGED <<files, index, indexFile, runs, toSave, writing, toBuild, found, settled, unfinished, overlapped>>
        /\ Stored' = Stored
    BY <1>5 DEF ListDates, store, locals, history, Stored
  <2>2. stage' = [stage EXCEPT ![p] = "scanning"] /\ stage'[p] = "scanning" /\ stage[p] = "listing"
    BY <1>5 DEF ListDates, TypeOK
  <2>3. ~ overlapped' => Was(p)
    BY <1>2, <2>1, <2>2
  <2>4. toScan'[p] = {k[2] : k \in Stored} /\ scanned'[p] = {}
    BY <1>5 DEF ListDates, TypeOK
  <2>5. ASSUME Was(p) PROVE SettledListed' /\ BlamedOn(p)' /\ Saves(p)' /\ Overviews(p)' /\ Sound(p)'
    <3>1. Saves(p)'
      BY <2>1, <2>2, <2>4, <2>5 DEF Was, Saves, Listed
    <3>2. Overviews(p)'
      BY <2>1, <2>2, <2>5 DEF Was, Overviews, Listed, Full
    <3>3. Sound(p)'
      BY <2>1, <2>2, <2>4, <2>5 DEF Was, Sound
    <3>4. SettledListed' /\ BlamedOn(p)'
      BY <1>0, <2>1, <2>2, <2>5 DEF Was, SettledListed
    <3> QED  BY <3>1, <3>2, <3>3, <3>4
  <2> QED  BY <2>1, <2>2, <2>3, <2>5, OnlyOneMoves DEF Was
<1>6. ASSUME NEW p \in Process, ScanDate(p) PROVE ServedInv'
  <2>1. /\ UNCHANGED <<files, index, indexFile, stage, runs, toSave, writing, toBuild, found, settled, unfinished, overlapped>>
        /\ Stored' = Stored /\ Readable' = Readable
    BY <1>6 DEF ScanDate, store, locals, history, Stored, Readable
  <2>2. stage' = [stage EXCEPT ![p] = "scanning"] /\ stage[p] = "scanning"
    BY <1>6, <2>1 DEF ScanDate, TypeOK
  <2>3. ~ overlapped' => Was(p)
    BY <1>2, <2>1, <2>2
  <2>4. \A k \in Stored : k \in scanned'[p] \/ k[2] \in toScan'[p] \/ ~ (k \in scanned[p] \/ k[2] \in toScan[p])
    BY <1>6 DEF ScanDate, TypeOK
  <2>5. \A k \in scanned'[p] : k \in scanned[p] \/ k \in Readable
    BY <1>6 DEF ScanDate, TypeOK
  <2>6. ASSUME Was(p) PROVE SettledListed' /\ BlamedOn(p)' /\ Saves(p)' /\ Overviews(p)' /\ Sound(p)'
    <3>1. Saves(p)'
      BY <2>1, <2>2, <2>4, <2>6 DEF Was, Saves, Listed
    <3>2. Overviews(p)'
      BY <2>1, <2>6 DEF Was, Overviews, Listed, Full
    <3>3. Sound(p)'
      BY <2>1, <2>2, <2>5, <2>6 DEF Was, Sound
    <3>4. SettledListed' /\ BlamedOn(p)'
      BY <1>0, <2>1, <2>2, <2>6 DEF Was, SettledListed
    <3> QED  BY <3>1, <3>2, <3>3, <3>4
  <2> QED  BY <2>1, <2>2, <2>3, <2>6, OnlyOneMoves DEF Was
<1>7. ASSUME NEW p \in Process, OpenIndex(p) PROVE ServedInv'
  <2>1. /\ UNCHANGED <<files, index, runs, toSave, writing, toBuild, found, scanned, settled, unfinished, overlapped>>
        /\ Stored' = Stored /\ Readable' = Readable
    BY <1>7 DEF OpenIndex, refresh, locals, history, Stored, Readable
  <2>2. /\ stage' = [stage EXCEPT ![p] = "indexing"] /\ stage'[p] = "indexing" /\ stage[p] = "scanning"
        /\ toScan[p] = {} /\ indexFile' = "empty"
    BY <1>7 DEF OpenIndex, TypeOK
  <2>3. ~ overlapped' => Was(p)
    BY <1>2, <2>1, <2>2
  <2>4. ASSUME Was(p) PROVE SettledListed' /\ BlamedOn(p)' /\ Saves(p)' /\ Overviews(p)' /\ Sound(p)'
    <3>1. Stored \subseteq scanned[p] /\ scanned[p] \subseteq Readable
      BY <2>2, <2>4 DEF Was, Saves, Sound
    <3>2. Saves(p)'
      BY <2>1, <2>2, <2>4, <3>1 DEF Was, Saves, Listed
    <3>3. Overviews(p)'
      BY <2>1, <2>2, <2>4 DEF Was, Overviews, Listed, Full
    <3>4. Sound(p)'
      BY <2>1, <2>2, <2>4, <3>1 DEF Was, Sound
    <3>5. SettledListed' /\ BlamedOn(p)'
      BY <1>0, <2>1, <2>2, <2>4 DEF Was, SettledListed
    <3> QED  BY <3>2, <3>3, <3>4, <3>5
  <2> QED  BY <2>1, <2>2, <2>3, <2>4, OnlyOneMoves DEF Was
<1>8. ASSUME NEW p \in Process, WriteIndex(p) PROVE ServedInv'
  <2>1. /\ UNCHANGED <<files, runs, toSave, writing, toBuild, found, settled, unfinished, overlapped>>
        /\ Stored' = Stored /\ Readable' = Readable
    BY <1>8 DEF WriteIndex, locals, history, Stored, Readable
  <2>2. stage' = [stage EXCEPT ![p] = AfterSave(p)] /\ stage'[p] = AfterSave(p) /\ stage[p] = "indexing"
    BY <1>8 DEF WriteIndex, TypeOK
  <2>3. ~ overlapped' => Was(p)
    BY <1>2, <2>1, <2>2
  <2>4. ASSUME Was(p) PROVE SettledListed' /\ BlamedOn(p)' /\ Saves(p)' /\ Overviews(p)' /\ Sound(p)'
    <3>1. indexFile' = "whole" /\ index' = scanned[p]
      BY <1>8, <2>2, <2>4 DEF WriteIndex, NewIndex, AfterWrite, Was, Sound
    <3>2. Stored \subseteq index' /\ index \subseteq index' /\ WholeStore'
      BY <2>1, <2>2, <2>4, <3>1 DEF Was, Saves, Sound, DangleInv, NothingDangles, WholeStore
    <3>3. AfterSave(p) \in {"saving", "looking", "settling"}
      BY DEF AfterSave
    <3>4. Saves(p)'
      BY <2>1, <2>2, <2>4, <3>2, <3>3 DEF Was, Saves
    <3>5. /\ AfterSave(p) \in {"looking", "settling"} => toSave[p] = {}
          /\ AfterSave(p) = "settling" => toBuild[p] = {}
      BY DEF AfterSave
    <3>6. Overviews(p)'
      BY <2>1, <2>2, <2>4, <3>2, <3>3, <3>5 DEF Was, Overviews, Full
    <3>7. Sound(p)'
      BY <2>1, <2>2, <2>4, <3>2, <3>3 DEF Was, Sound
    <3>8. SettledListed' /\ BlamedOn(p)'
      BY <1>0, <2>1, <2>2, <2>4, <3>2 DEF Was, SettledListed
    <3> QED  BY <3>4, <3>6, <3>7, <3>8
  <2> QED  BY <2>1, <2>2, <2>3, <2>4, OnlyOneMoves DEF Was
<1>9. ASSUME NEW p \in Process, LookUp(p) PROVE ServedInv'
  <2>1. /\ UNCHANGED <<files, index, indexFile, stage, runs, toSave, writing, toBuild, scanned, toScan, settled, unfinished, overlapped>>
        /\ Stored' = Stored /\ Readable' = Readable
    BY <1>9 DEF LookUp, store, refresh, history, Stored, Readable
  <2>2. stage' = [stage EXCEPT ![p] = "looking"] /\ stage[p] = "looking"
    BY <1>9, <2>1 DEF LookUp, TypeOK
  <2>3. ~ overlapped' => Was(p)
    BY <1>2, <2>1, <2>2
  <2>4. PICK c \in Component :
           found' = [found EXCEPT ![p][c] = LoadStrict(c, Earliest(toBuild[p]))]
    BY <1>9 DEF LookUp
  <2>5. /\ found'[p][c] = LoadStrict(c, Earliest(toBuild[p]))
        /\ \A b \in Component \ {c} : found'[p][b] = found[p][b]
    BY <2>4 DEF TypeOK
  <2>6. LoadStrict(c, Earliest(toBuild[p])) = "none" => <<c, Earliest(toBuild[p])>> \notin index
    BY DEF LoadStrict, DangleInv, NothingDangles, Stored
  <2>7. ASSUME Was(p) PROVE SettledListed' /\ BlamedOn(p)' /\ Saves(p)' /\ Overviews(p)' /\ Sound(p)'
    <3>1. settled \cup KeysOf(runs[p]) \subseteq index
      <4>1. toSave[p] = {} /\ Listed(p)
        BY <2>2, <2>7 DEF Was, Overviews, Listed
      <4>2. runs[p] \ toSave[p] = runs[p]
        BY <4>1
      <4> QED  BY <2>7, <4>1, <4>2 DEF Was, Saves, SettledListed
    <3>2. Saves(p)'
      BY <2>1, <2>7 DEF Was, Saves, Listed
    <3>3. Overviews(p)'
      BY <2>1, <2>5, <2>6, <2>7, <3>1 DEF Was, Overviews, Listed, Full
    <3>4. Sound(p)'
      BY <2>1, <2>2, <2>7 DEF Was, Sound, WholeStore
    <3>5. SettledListed' /\ BlamedOn(p)'
      BY <1>0, <2>1, <2>2, <2>7 DEF Was, SettledListed
    <3> QED  BY <3>2, <3>3, <3>4, <3>5
  <2> QED  BY <2>1, <2>2, <2>3, <2>7, OnlyOneMoves DEF Was
<1>10. ASSUME NEW p \in Process, SkipOverview(p) PROVE ServedInv'
  <2> DEFINE d0 == Earliest(toBuild[p])
             s == IF toBuild[p] = {d0} THEN "settling" ELSE "looking"
  <2>1. /\ UNCHANGED <<files, index, indexFile, runs, toSave, writing, settled, unfinished, overlapped>>
        /\ Stored' = Stored /\ Readable' = Readable
    BY <1>10 DEF SkipOverview, store, history, Stored, Readable
  <2>2. stage' = [stage EXCEPT ![p] = s] /\ stage'[p] = s /\ stage[p] = "looking"
    BY <1>10 DEF SkipOverview, LookedUp, TypeOK
  <2>3. toBuild'[p] = toBuild[p] \ {d0} /\ found'[p] = Unlooked
    BY <1>10 DEF SkipOverview, TypeOK
  <2>4. ~ overlapped' => Was(p)
    BY <1>2, <2>1, <2>2
  <2>5. ASSUME Was(p) PROVE SettledListed' /\ BlamedOn(p)' /\ Saves(p)' /\ Overviews(p)' /\ Sound(p)'
    <3>1. ~ Full(p, d0)
      BY <1>10, <2>5 DEF SkipOverview, Complete, Was, Overviews, Full
    <3>2. Saves(p)'
      BY <2>1, <2>2, <2>5 DEF Was, Saves, Listed
    <3>3. Overviews(p)'
      <4>1. \A d \in DatesOf(runs[p]) \ toBuild'[p] : Full(p, d) => <<Overview, d>> \in Stored /\ <<Overview, d>> \in index
        BY <2>2, <2>3, <2>5, <3>1 DEF Was, Overviews, Listed
      <4>2. toSave[p] = {} /\ toBuild[p] \subseteq DatesOf(runs[p])
        BY <2>2, <2>5 DEF Was, Overviews
      <4>3. s = "settling" => toBuild'[p] = {}
        BY <2>3
      <4>4. \A c \in Component : found'[p][c] # "none"
        BY <2>3 DEF Unlooked
      <4>5. toBuild'[p] \subseteq DatesOf(runs[p])
        BY <2>3, <4>2
      <4> HIDE DEF s, d0
      <4> QED  BY <2>1, <2>2, <4>1, <4>2, <4>3, <4>4, <4>5 DEF Overviews, Full
    <3>4. Sound(p)'
      BY <2>1, <2>2, <2>5 DEF Was, Sound, WholeStore
    <3>5. SettledListed' /\ BlamedOn(p)'
      BY <1>0, <2>1, <2>2, <2>5 DEF Was, SettledListed
    <3> QED  BY <3>2, <3>3, <3>4, <3>5
  <2> QED  BY <2>1, <2>2, <2>4, <2>5, OnlyOneMoves DEF Was
<1>11. ASSUME NEW p \in Process, OpenOverview(p) PROVE ServedInv'
  <2> DEFINE d0 == Earliest(toBuild[p])
  <2>1. UNCHANGED <<index, runs, toSave, writing, toBuild, found, settled, unfinished, overlapped>>
    BY <1>11 DEF OpenOverview, locals, history
  <2>2. stage' = [stage EXCEPT ![p] = "composing"] /\ stage'[p] = "composing" /\ stage[p] = "looking"
    BY <1>11 DEF OpenOverview, LookedUp, TypeOK
  <2>3. files' = [files EXCEPT ![<<Overview, d0>>] = "empty"]
    BY <1>11 DEF OpenOverview
  <2>4. <<Overview, d0>> \in Key
    BY <2>2, ComposingKey DEF DangleInv
  <2>5. ~ overlapped' => Was(p)
    BY <1>2, <2>1, <2>2
  <2>6. ASSUME Was(p) PROVE SettledListed' /\ BlamedOn(p)' /\ Saves(p)' /\ Overviews(p)' /\ Sound(p)'
    <3>1. Stored \subseteq Stored'
      BY <2>3, WriteKeepsStored
    <3>2. Saves(p)'
      BY <2>1, <2>2, <2>6, <3>1 DEF Was, Saves, Listed
    <3>3. Overviews(p)'
      BY <2>1, <2>2, <2>6, <3>1 DEF Was, Overviews, Listed, Full
    <3>4. Sound(p)'
      BY <2>1, <2>2, <2>3, <2>4, <2>6, WriteReadable DEF Was, Sound
    <3>5. BlamedOn(p)'
      <4>1. OpenKeys(p) = {} /\ <<Overview, d0>> \in OpenKeys(p)'
        BY <2>1, <2>2, <2>6 DEF Was, Sound, OpenKeys
      <4> HIDE DEF d0
      <4> QED  BY <2>1, <2>3, <2>4, <2>6, <4>1, WriteReadable DEF Was, BlamedOn
    <3>6. SettledListed'
      BY <2>1, <2>6 DEF Was, SettledListed
    <3> QED  BY <3>2, <3>3, <3>4, <3>5, <3>6
  <2> QED  BY <2>1, <2>2, <2>5, <2>6, OnlyOneMoves DEF Was
<1>12. ASSUME NEW p \in Process, SaveOverview(p) PROVE ServedInv'
  <2> DEFINE d0 == Earliest(toBuild[p])
             k  == <<Overview, d0>>
  <2>1. UNCHANGED <<index, runs, toSave, writing, settled, unfinished, overlapped>>
    BY <1>12 DEF SaveOverview, history
  <2>2. stage' = [stage EXCEPT ![p] = "listing"] /\ stage'[p] = "listing" /\ stage[p] = "composing"
    BY <1>12 DEF SaveOverview, TypeOK
  <2>3. toBuild'[p] = toBuild[p] \ {d0} /\ found'[p] = Unlooked
    BY <1>12 DEF SaveOverview, TypeOK
  <2>4. PICK text \in AfterWrite(files[k], OverviewReadiness(p)) : files' = [files EXCEPT ![k] = text]
    BY <1>12 DEF SaveOverview
  <2>5. k \in Key /\ text # "none" /\ (files[k] = "empty" => text \in Readiness)
    BY <2>2, ComposingKey, WriteTypes DEF DangleInv, OverviewReadiness, Readiness
  <2>6. ~ overlapped' => Was(p)
    BY <1>2, <2>1, <2>2
  <2>7. ASSUME Was(p) PROVE SettledListed' /\ BlamedOn(p)' /\ Saves(p)' /\ Overviews(p)' /\ Sound(p)'
    <3>1. toSave[p] = {} /\ toBuild[p] \subseteq DatesOf(runs[p]) /\ files[k] = "empty" /\ writing[p] = {}
      BY <2>2, <2>7 DEF Was, Overviews, Sound
    <3>2. Stored \subseteq Stored' /\ k \in Stored'
      BY <2>4, <2>5, WriteKeepsStored
    <3>3. Saves(p)'
      BY <2>1, <2>2, <2>7, <3>2 DEF Was, Saves, Listed
    <3>4. \A d \in DatesOf(runs[p]) \ toBuild'[p] : Full(p, d) => <<Overview, d>> \in Stored'
      BY <2>3, <2>7, <3>2 DEF Was, Overviews
    <3>5. \A c \in Component : found'[p][c] # "none"
      BY <2>3 DEF Unlooked
    <3>6. toBuild'[p] \subseteq DatesOf(runs[p])
      BY <2>3, <3>1
    <3>7. Overviews(p)'
      BY <2>1, <2>2, <3>1, <3>4, <3>5, <3>6 DEF Overviews, Listed, Full
    <3>8. Sound(p)'
      BY <2>1, <2>2, <3>1 DEF Sound
    <3>9. BlamedOn(p)'
      <4>1. OpenKeys(p) = {k} /\ text \notin HalfWritten
        BY <2>2, <2>5, <3>1 DEF OpenKeys, Readiness, HalfWritten
      <4> HIDE DEF k
      <4> QED  BY <2>1, <2>4, <2>5, <2>7, <4>1, WriteReadable DEF Was, BlamedOn
    <3>10. SettledListed'
      BY <2>1, <2>7 DEF Was, SettledListed
    <3> QED  BY <3>3, <3>7, <3>8, <3>9, <3>10
  <2> QED  BY <2>1, <2>2, <2>6, <2>7, OnlyOneMoves DEF Was
<1>13. ASSUME NEW p \in Process, Settle(p) PROVE ServedInv'
  <2>1. UNCHANGED <<files, index, overlapped>> /\ settled' = settled \cup KeysOf(runs[p])
    BY <1>13 DEF Settle, store, KeysOf
  <2>2. stage' = [stage EXCEPT ![p] = "idle"] /\ stage[p] = "settling"
    BY <1>13 DEF Settle, Forget
  <2>3. ~ overlapped' => Was(p)
    BY <1>2, <2>1, <2>2
  <2>4. ASSUME Was(p) PROVE SettledListed' /\ BlamedOn(p)'
    <3>1. toSave[p] = {} /\ toBuild[p] = {} /\ Listed(p)
      BY <2>2, <2>4 DEF Was, Overviews, Listed
    <3>2. KeysOf(runs[p]) \subseteq index
      <4>1. runs[p] \ toSave[p] = runs[p]
        BY <3>1
      <4> QED  BY <2>4, <3>1, <4>1 DEF Was, Saves
    <3>3. \A d \in DatesOf(runs[p]) : Full(p, d) => <<Overview, d>> \in index
      BY <2>4, <3>1 DEF Was, Overviews
    <3>4. \A d \in Date : Full(p, d) /\ d \notin DatesOf(runs[p]) => \A c \in Component : <<c, d>> \in settled
      <4>1. \A c \in Component, d \in Date : <<c, d>> \in KeysOf(runs[p]) => d \in DatesOf(runs[p])
        BY DEF KeysOf, DatesOf
      <4> QED  BY <4>1 DEF Full
    <3>5. SettledListed'
      BY <2>1, <2>4, <3>2, <3>3, <3>4 DEF Was, SettledListed, Full
    <3>6. Key \ Readable' = {}
      BY <2>1, <2>2, <2>4 DEF Was, Sound, WholeStore, Stored, Readable, HalfWritten
    <3> QED  BY <3>5, <3>6 DEF BlamedOn
  <2> QED  BY <2>1, <2>2, <2>3, <2>4, OnlyOneMoves DEF Was
<1>14. ASSUME NEW p \in Process, DieBetween(p) \/ DieWriting(p) PROVE ServedInv'
  <2>1. UNCHANGED <<index, settled, overlapped>> /\ unfinished' = unfinished \cup DatesOf(runs[p])
    BY <1>14 DEF DieBetween, DieWriting, Die, store
  <2>2. stage' = [stage EXCEPT ![p] = "idle"] /\ stage[p] # "idle"
    BY <1>14 DEF DieBetween, DieWriting, Die, Forget
  <2>3. ~ overlapped' => Was(p)
    BY <1>2, <2>1, <2>2
  <2>4. ASSUME Was(p) PROVE SettledListed' /\ BlamedOn(p)'
    <3>1. \A k \in OpenKeys(p) : k[2] \in DatesOf(runs[p])
      BY <2>4, ItsDates DEF Was, DangleInv
    <3>2. \A k \in Key \ Readable' : k \notin Readable \/ k \in OpenKeys(p)
      BY <1>14 DEF DieBetween, DieWriting, store, Readable, TypeOK
    <3>3. SettledListed'
      BY <2>1, <2>4 DEF Was, SettledListed
    <3> QED  BY <2>1, <2>4, <3>1, <3>2, <3>3 DEF Was, BlamedOn
  <2> QED  BY <2>1, <2>2, <2>3, <2>4, OnlyOneMoves DEF Was
<1>15. CASE UNCHANGED vars
  <2>1. /\ UNCHANGED <<files, index, indexFile, stage, runs, toSave, writing, toBuild, toScan, scanned, found>>
        /\ UNCHANGED <<settled, overlapped, unfinished>> /\ Stored' = Stored /\ Readable' = Readable
    BY <1>15 DEF vars, store, locals, refresh, history, Stored, Readable
  <2>2. SettledListed' = SettledListed /\ WholeStore' = WholeStore
    BY <2>1 DEF SettledListed, WholeStore
  <2>3. \A p \in Process : OpenKeys(p)' = OpenKeys(p) /\ Alone(p)' = Alone(p)
    BY <2>1 DEF OpenKeys, Alone
  <2>4. Blamed' = Blamed
    BY <2>1, <2>3 DEF Blamed
  <2>5. \A p \in Process : Saves(p)' = Saves(p) /\ Overviews(p)' = Overviews(p) /\ Sound(p)' = Sound(p)
    BY <2>1, <2>2 DEF Saves, Overviews, Sound, Listed, Full
  <2> QED  BY <2>1, <2>2, <2>3, <2>4, <2>5 DEF ServedInv
<1> QED
  BY <1>1, <1>3, <1>4, <1>5, <1>6, <1>7, <1>8, <1>9, <1>10, <1>11, <1>12, <1>13, <1>14, <1>15 DEF Next

LEMMA InitServing == Init => DangleInv /\ ServedInv
<1> SUFFICES ASSUME Init PROVE DangleInv /\ ServedInv
  OBVIOUS
<1>1. DangleInv
  BY InitDangleInv
<1>2. SettledListed
  BY ServingAssumption DEF Init, SettledListed
<1>3. \A p \in Process : stage[p] = "idle"
  BY DEF Init
<1>4. Key \ Readable = {}
  BY DEF Init, Readable, HalfWritten
<1> QED  BY <1>1, <1>2, <1>3, <1>4 DEF ServedInv, Blamed

(* As long as cycles follow one another: in a store that is whole, what a  *)
(* cycle has settled can be read through the index; a half-written file is *)
(* being written or is what a dead cycle of its date left; and no cycle    *)
(* reaches its ledger save over a store that is not whole.                 *)
THEOREM SettledRunsAreServed == Spec => []SettledIsServed
<1>1. ServedInv => SettledIsServed
  BY DEF ServedInv, SettledListed, Blamed, Sound, SettledIsServed
<1> QED  BY <1>1, InitTypeOK, InitServing, StepTypeOK, StepDangleInv, StepServedInv, PTL DEF Spec

(* As long as cycles follow one another, no refresh unlists a snapshot: a  *)
(* refresh that writes the index has read every file there is.             *)
THEOREM NothingIsUnlisted == Spec => NothingUnlisted
<1>1. TypeOK /\ DangleInv /\ ServedInv /\ [Next]_vars => [~ overlapped' => index \subseteq index']_vars
  <2> SUFFICES ASSUME TypeOK, DangleInv, ServedInv, Next, ~ overlapped' PROVE index \subseteq index'
    OBVIOUS
  <2>1. PICK p \in Process : WriteIndex(p) \/ UNCHANGED index
    BY DEF Next, StartMaterialize, OpenComponent, SaveComponent, ListDates, ScanDate, OpenIndex, LookUp,
           SkipOverview, OpenOverview, SaveOverview, Settle, DieBetween, DieWriting, store
  <2>2. ASSUME WriteIndex(p) PROVE index \subseteq index'
    <3>1. ~ overlapped /\ stage[p] = "indexing" /\ index' \in {scanned[p], index}
      BY <2>2 DEF WriteIndex, NewIndex, history
    <3>2. Stored \subseteq scanned[p]
      BY <3>1 DEF ServedInv, Saves
    <3> QED  BY <3>1, <3>2 DEF DangleInv, NothingDangles
  <2> QED  BY <2>1, <2>2
<1> QED
  BY <1>1, InitTypeOK, InitServing, StepTypeOK, StepDangleInv, StepServedInv, PTL DEF Spec, NothingUnlisted

-----------------------------------------------------------------------------
(***************************************************************************)
(* An overview agrees with its components.  A cycle may leave a date       *)
(* behind only while it has still to look at it, or unfinished; what it    *)
(* looks at is the files, since after its first refresh the index lists    *)
(* them all.                                                               *)
(***************************************************************************)
Agreed(d) ==
  files[<<Overview, d>>] # "none" =>
    (files[<<Overview, d>>] = "ready" <=> \A c \in Component : files[<<c, d>>] = "ready")

\* what a cycle has looked at is what the files say
LooksRight(p) ==
  /\ \A c \in Component : found[p][c] # "unknown" =>
       /\ stage[p] \in {"looking", "composing"}
       /\ found[p][c] = files[<<c, Earliest(toBuild[p])>>]
  /\ stage[p] = "looking" => Stored \subseteq index

\* what it has looked at before it composes an overview was all there
Composed(p) == stage[p] = "composing" => \A c \in Component : found[p][c] # "unknown"

Builds(p) ==
  /\ \A d \in DatesOf(runs[p]) \ toBuild[p] : Agreed(d)
  /\ LooksRight(p) /\ Composed(p)

AgreeInv ==
  ~ overlapped =>
    /\ \A d \in Date \ unfinished : Agreed(d) \/ \E p \in Process : d \in toBuild[p]
    /\ \A p \in Process : stage[p] # "idle" => Builds(p)

\* only one cycle is in flight, so only its dates may disagree
LEMMA OnlyOneBuilds ==
  ASSUME TypeOK, AgreeInv, NEW p \in Process, NEW s, stage' = [stage EXCEPT ![p] = s],
         ~ overlapped' => ~ overlapped /\ Alone(p),
         ~ overlapped' => \A d \in Date \ unfinished' : Agreed(d)' \/ d \in toBuild'[p],
         ~ overlapped' /\ s # "idle" => Builds(p)'
  PROVE  AgreeInv'
<1>1. \A q \in Process : stage'[q] = IF q = p THEN s ELSE stage[q]
  BY DEF TypeOK
<1>2. ~ overlapped' => \A q \in Process : stage'[q] # "idle" => q = p /\ s # "idle"
  BY <1>1 DEF Alone
<1> QED  BY <1>1, <1>2, Zenon DEF AgreeInv

\* before a step of a lone cycle, only dates it has to build may disagree
LEMMA OnlyItsDates ==
  ASSUME DangleInv, AgreeInv, ~ overlapped, NEW p \in Process, Alone(p)
  PROVE  \A d \in Date \ unfinished : Agreed(d) \/ d \in toBuild[p]
<1>1. \A q \in Process \ {p} : toBuild[q] = {}
  BY DEF DangleInv, IdleIsClean, Alone
<1> QED  BY <1>1 DEF AgreeInv

\* a file of one date is no evidence about another date
LEMMA OtherDatesAgree ==
  ASSUME TypeOK, NEW k \in Key, NEW v, files' = [files EXCEPT ![k] = v]
  PROVE  \A d \in Date : d # k[2] => (Agreed(d)' <=> Agreed(d))
<1>1. \A j \in Key : j # k => files'[j] = files[j]
  BY DEF TypeOK
<1>2. \A d \in Date, c \in Capability : d # k[2] => <<c, d>> \in Key /\ files'[<<c, d>>] = files[<<c, d>>]
  BY <1>1 DEF Key
<1> QED  BY <1>2 DEF Agreed, Capability

LEMMA StepAgreeInv == TypeOK /\ DangleInv /\ ServedInv /\ AgreeInv /\ [Next]_vars => AgreeInv'
<1> SUFFICES ASSUME TypeOK, DangleInv, ServedInv, AgreeInv, [Next]_vars PROVE AgreeInv'
  OBVIOUS
<1>1. ASSUME NEW p \in Process, StartMaterialize(p) PROVE AgreeInv'
  <2>1. PICK rs \in SUBSET Run :
           runs' = [runs EXCEPT ![p] = rs] /\ toBuild' = [toBuild EXCEPT ![p] = DatesOf(rs)]
    BY <1>1 DEF StartMaterialize
  <2>2. runs'[p] = rs /\ toBuild'[p] = DatesOf(rs) /\ found'[p] = Unlooked /\ toBuild[p] = {}
    BY <1>1, <2>1 DEF StartMaterialize, TypeOK, DangleInv, IdleIsClean
  <2>3. stage' = [stage EXCEPT ![p] = "saving"] /\ stage'[p] = "saving"
    BY <1>1 DEF StartMaterialize, TypeOK
  <2>4. ~ overlapped' => ~ overlapped /\ Alone(p)
    BY <1>1 DEF StartMaterialize, Alone, TypeOK
  <2>5. UNCHANGED <<files, unfinished>>
    BY <1>1 DEF StartMaterialize, store
  <2>6. Builds(p)'
    BY <2>2, <2>3 DEF Builds, LooksRight, Composed, Unlooked
  <2>7. ~ overlapped' => \A d \in Date \ unfinished' : Agreed(d)' \/ d \in toBuild'[p]
    BY <2>2, <2>4, <2>5, OnlyItsDates DEF Agreed
  <2> QED  BY <2>3, <2>4, <2>6, <2>7, OnlyOneBuilds
<1> DEFINE Was(p) ==
      /\ ~ overlapped /\ Alone(p) /\ Saves(p) /\ Overviews(p) /\ Sound(p) /\ Builds(p)
      /\ \A d \in Date \ unfinished : Agreed(d) \/ d \in toBuild[p]
<1>2. ASSUME NEW p \in Process, stage[p] # "idle", UNCHANGED overlapped
      PROVE  ~ overlapped' => Was(p)
  BY <1>2, OnlyItsDates DEF ServedInv, AgreeInv
<1> HIDE DEF Was
<1>3. ASSUME NEW p \in Process, OpenComponent(p) \/ SaveComponent(p) PROVE AgreeInv'
  <2>1. PICK r \in toSave[p] \cup writing[p] : \E v : files' = [files EXCEPT ![r.key] = v]
    BY <1>3 DEF OpenComponent, SaveComponent
  <2>2. UNCHANGED <<index, runs, toBuild, found, unfinished, overlapped>>
    BY <1>3 DEF OpenComponent, SaveComponent, history
  <2>3. PICK s \in {"writing", "listing"} : stage' = [stage EXCEPT ![p] = s]
    BY <1>3 DEF OpenComponent, SaveComponent
  <2>4. stage'[p] = s /\ stage[p] \in {"saving", "writing"}
    BY <1>3, <2>3 DEF OpenComponent, SaveComponent, TypeOK
  <2>5. ~ overlapped' => Was(p)
    BY <1>2, <2>2, <2>4
  <2>6. r.key \in Key /\ r.key[2] \in Date
    BY <2>1, KeyTypes DEF TypeOK
  <2>7. \A d \in Date : d # r.key[2] => (Agreed(d)' <=> Agreed(d))
    BY <2>1, <2>6, OtherDatesAgree
  <2>8. ASSUME Was(p)
        PROVE  Builds(p)' /\ \A d \in Date \ unfinished' : Agreed(d)' \/ d \in toBuild'[p]
    <3>0. r \in toSave[p]
      BY <2>1, <2>8 DEF Was, Sound
    <3>1. toBuild[p] = DatesOf(runs[p]) /\ r.key[2] \in toBuild[p]
      BY <2>8, <3>0 DEF Was, Overviews, Saves, DatesOf
    <3>2. \A c \in Component : found'[p][c] = "unknown"
      BY <2>2, <2>4, <2>8 DEF Was, Builds, LooksRight
    <3>3. Builds(p)'
      BY <2>2, <2>3, <2>4, <3>1, <3>2 DEF Builds, LooksRight, Composed
    <3> QED  BY <2>2, <2>7, <2>8, <3>1, <3>3 DEF Was
  <2> QED  BY <2>3, <2>5, <2>8, OnlyOneBuilds DEF Was
<1>4. ASSUME NEW p \in Process, ListDates(p) \/ ScanDate(p) \/ OpenIndex(p) PROVE AgreeInv'
  <2>1. UNCHANGED <<files, index, runs, toBuild, found, unfinished, overlapped>> /\ Stored' = Stored
    BY <1>4 DEF ListDates, ScanDate, OpenIndex, store, locals, history, Stored
  <2>2. PICK s \in {"scanning", "indexing"} : stage' = [stage EXCEPT ![p] = s]
    BY <1>4 DEF ListDates, ScanDate, OpenIndex, TypeOK
  <2>3. stage'[p] = s /\ stage[p] \in {"listing", "scanning"}
    BY <1>4, <2>2 DEF ListDates, ScanDate, OpenIndex, TypeOK
  <2>4. ~ overlapped' => Was(p)
    BY <1>2, <2>1, <2>3
  <2>5. ASSUME Was(p)
        PROVE  Builds(p)' /\ \A d \in Date \ unfinished' : Agreed(d)' \/ d \in toBuild'[p]
    BY <2>1, <2>2, <2>3, <2>5 DEF Was, Builds, LooksRight, Composed, Agreed
  <2> QED  BY <2>2, <2>4, <2>5, OnlyOneBuilds DEF Was
<1>5. ASSUME NEW p \in Process, WriteIndex(p) PROVE AgreeInv'
  <2>1. UNCHANGED <<files, runs, toSave, toBuild, found, unfinished, overlapped>> /\ Stored' = Stored
    BY <1>5 DEF WriteIndex, locals, history, Stored
  <2>2. stage' = [stage EXCEPT ![p] = AfterSave(p)] /\ stage'[p] = AfterSave(p) /\ stage[p] = "indexing"
    BY <1>5 DEF WriteIndex, TypeOK
  <2>3. ~ overlapped' => Was(p)
    BY <1>2, <2>1, <2>2
  <2>4. ASSUME Was(p)
        PROVE  Builds(p)' /\ \A d \in Date \ unfinished' : Agreed(d)' \/ d \in toBuild'[p]
    <3>1. Stored \subseteq index'
      BY <1>5, <2>2, <2>4 DEF WriteIndex, NewIndex, AfterWrite, Was, Saves, Sound
    <3>2. \A c \in Component : found[p][c] = "unknown"
      BY <2>2, <2>4 DEF Was, Builds, LooksRight
    <3>3. AfterSave(p) # "composing"
      BY DEF AfterSave
    <3> QED  BY <2>1, <2>2, <2>4, <3>1, <3>2, <3>3 DEF Was, Builds, LooksRight, Composed, Agreed
  <2> QED  BY <2>2, <2>3, <2>4, OnlyOneBuilds DEF Was
<1>6. ASSUME NEW p \in Process, LookUp(p) PROVE AgreeInv'
  <2> DEFINE d0 == Earliest(toBuild[p])
  <2>1. UNCHANGED <<files, index, stage, runs, toSave, toBuild, unfinished, overlapped>> /\ Stored' = Stored
    BY <1>6 DEF LookUp, store, refresh, history, Stored
  <2>2. stage' = [stage EXCEPT ![p] = "looking"] /\ stage[p] = "looking"
    BY <1>6, <2>1 DEF LookUp, TypeOK
  <2>3. ~ overlapped' => Was(p)
    BY <1>2, <2>1, <2>2
  <2>4. PICK c \in Component : found' = [found EXCEPT ![p][c] = LoadStrict(c, d0)]
    BY <1>6 DEF LookUp
  <2>5. found'[p][c] = LoadStrict(c, d0) /\ \A b \in Component \ {c} : found'[p][b] = found[p][b]
    BY <2>4 DEF TypeOK
  <2>6. ASSUME Was(p)
        PROVE  Builds(p)' /\ \A d \in Date \ unfinished' : Agreed(d)' \/ d \in toBuild'[p]
    <3>1. d0 \in Date
      BY <2>2, ComposingKey DEF DangleInv
    <3>2. <<c, d0>> \in Key
      BY <3>1 DEF Key, Capability
    <3>3. LoadStrict(c, d0) = files[<<c, d0>>]
      BY <2>2, <2>6, <3>2 DEF Was, Builds, LooksRight, LoadStrict, Stored
    <3>4. LooksRight(p)'
      BY <2>1, <2>2, <2>5, <2>6, <3>3 DEF Was, Builds, LooksRight
    <3> QED  BY <2>1, <2>2, <2>6, <3>4 DEF Was, Builds, Composed, Agreed
  <2> QED  BY <2>1, <2>2, <2>3, <2>6, OnlyOneBuilds DEF Was
<1>7. ASSUME NEW p \in Process, SkipOverview(p) PROVE AgreeInv'
  <2> DEFINE d0 == Earliest(toBuild[p])
             s == IF toBuild[p] = {d0} THEN "settling" ELSE "looking"
  <2>1. UNCHANGED <<files, index, runs, toSave, unfinished, overlapped>> /\ Stored' = Stored
    BY <1>7 DEF SkipOverview, store, history, Stored
  <2>2. stage' = [stage EXCEPT ![p] = s] /\ stage[p] = "looking" /\ stage'[p] = s
    BY <1>7 DEF SkipOverview, LookedUp, TypeOK
  <2>3. toBuild'[p] = toBuild[p] \ {d0} /\ found'[p] = Unlooked
    BY <1>7 DEF SkipOverview, TypeOK
  <2>4. ~ overlapped' => Was(p)
    BY <1>2, <2>1, <2>2
  <2>5. ASSUME Was(p)
        PROVE  Builds(p)' /\ \A d \in Date \ unfinished' : Agreed(d)' \/ d \in toBuild'[p]
    <3>2. d0 \in Date
      BY <2>2, ComposingKey DEF DangleInv
    <3>3. \E c \in Component : files[<<c, d0>>] = "none"
      BY <1>7, <2>5 DEF SkipOverview, Complete, Was, Builds, LooksRight
    <3>4. Agreed(d0)
      BY <3>2, <3>3 DEF Agreed, DangleInv, NothingDangles
    <3>0. s # "composing"
      OBVIOUS
    <3> HIDE DEF d0, s
    <3>5. \A d \in Date : Agreed(d)' <=> Agreed(d)
      BY <2>1 DEF Agreed
    <3>6. LooksRight(p)' /\ Composed(p)'
      BY <2>1, <2>2, <2>3, <2>5, <3>0 DEF Was, Builds, LooksRight, Composed, Unlooked
    <3>7. DatesOf(runs[p]) \subseteq Date
      BY KeyTypes DEF TypeOK
    <3>8. Builds(p)'
      BY <2>1, <2>3, <2>5, <3>4, <3>5, <3>6, <3>7 DEF Was, Builds
    <3> QED  BY <2>1, <2>3, <2>5, <3>4, <3>5, <3>8 DEF Was
  <2> QED  BY <2>2, <2>4, <2>5, OnlyOneBuilds DEF Was
<1>8. ASSUME NEW p \in Process, OpenOverview(p) PROVE AgreeInv'
  <2> DEFINE d0 == Earliest(toBuild[p])
  <2>1. UNCHANGED <<index, runs, toSave, toBuild, found, unfinished, overlapped>>
    BY <1>8 DEF OpenOverview, locals, history
  <2>2. stage' = [stage EXCEPT ![p] = "composing"] /\ stage'[p] = "composing" /\ stage[p] = "looking"
    BY <1>8 DEF OpenOverview, LookedUp, TypeOK
  <2>3. files' = [files EXCEPT ![<<Overview, d0>>] = "empty"]
    BY <1>8 DEF OpenOverview
  <2>4. d0 \in toBuild[p] /\ d0 \in Date /\ <<Overview, d0>> \in Key
    BY <2>2, ComposingKey DEF DangleInv
  <2>5. ~ overlapped' => Was(p)
    BY <1>2, <2>1, <2>2
  <2>6. ASSUME Was(p)
        PROVE  Builds(p)' /\ \A d \in Date \ unfinished' : Agreed(d)' \/ d \in toBuild'[p]
    <3>1. \A d \in Date : d # d0 => (Agreed(d)' <=> Agreed(d))
      BY <2>3, <2>4, OtherDatesAgree
    <3>2. \A c \in Component, d \in Date : files'[<<c, d>>] = files[<<c, d>>]
      BY <2>3, <2>4, ServingAssumption DEF TypeOK, Key, Capability
    <3>3. LooksRight(p)' /\ Composed(p)'
      BY <1>8, <2>1, <2>2, <2>4, <2>6, <3>2 DEF OpenOverview, LookedUp, Was, Builds, LooksRight, Composed
    <3>4. DatesOf(runs[p]) \subseteq Date
      BY KeyTypes DEF TypeOK
    <3> HIDE DEF d0
    <3>5. Builds(p)'
      BY <2>1, <2>4, <2>6, <3>1, <3>3, <3>4 DEF Was, Builds
    <3> QED  BY <2>1, <2>4, <2>6, <3>1, <3>5 DEF Was
  <2> QED  BY <2>2, <2>5, <2>6, OnlyOneBuilds DEF Was
<1>9. ASSUME NEW p \in Process, SaveOverview(p) PROVE AgreeInv'
  <2> DEFINE d0 == Earliest(toBuild[p])
             k  == <<Overview, d0>>
  <2>1. UNCHANGED <<index, runs, toSave, unfinished, overlapped>>
    BY <1>9 DEF SaveOverview, history
  <2>2. stage' = [stage EXCEPT ![p] = "listing"] /\ stage'[p] = "listing" /\ stage[p] = "composing"
    BY <1>9 DEF SaveOverview, TypeOK
  <2>3. toBuild'[p] = toBuild[p] \ {d0} /\ found'[p] = Unlooked
    BY <1>9 DEF SaveOverview, TypeOK
  <2>4. PICK text \in AfterWrite(files[k], OverviewReadiness(p)) : files' = [files EXCEPT ![k] = text]
    BY <1>9 DEF SaveOverview
  <2>5. ~ overlapped' => Was(p)
    BY <1>2, <2>1, <2>2
  <2>6. ASSUME Was(p)
        PROVE  Builds(p)' /\ \A d \in Date \ unfinished' : Agreed(d)' \/ d \in toBuild'[p]
    <3>2. d0 \in Date /\ k \in Key
      BY <2>2, ComposingKey DEF DangleInv
    <3>3. \A c \in Component : found[p][c] = files[<<c, d0>>]
      BY <2>2, <2>6 DEF Was, Builds, Composed, LooksRight
    <3>4. OverviewReadiness(p) = "ready" <=> \A c \in Component : files[<<c, d0>>] = "ready"
      BY <3>3 DEF OverviewReadiness
    <3>5. text = OverviewReadiness(p)
      BY <2>2, <2>4, <2>6, WriteTypes DEF Was, Sound, OverviewReadiness, Readiness
    <3>6. \A c \in Component : files'[<<c, d0>>] = files[<<c, d0>>]
      BY <2>4, <3>2, ServingAssumption DEF TypeOK, Key, Capability
    <3>7. files'[k] = OverviewReadiness(p)
      BY <2>4, <3>2, <3>5 DEF TypeOK
    <3>8. \A d \in Date : IF d = d0 THEN Agreed(d)' ELSE (Agreed(d)' <=> Agreed(d))
      BY <2>4, <3>2, <3>4, <3>6, <3>7, OtherDatesAgree DEF Agreed
    <3>9. LooksRight(p)' /\ Composed(p)'
      BY <2>2, <2>3 DEF LooksRight, Composed, Unlooked
    <3>10. DatesOf(runs[p]) \subseteq Date
      BY KeyTypes DEF TypeOK
    <3> HIDE DEF d0
    <3>11. Builds(p)'
      BY <2>1, <2>3, <2>6, <3>8, <3>9, <3>10 DEF Was, Builds
    <3> QED  BY <2>1, <2>3, <2>6, <3>8, <3>11 DEF Was
  <2> QED  BY <2>2, <2>5, <2>6, OnlyOneBuilds DEF Was
<1>10. ASSUME NEW p \in Process, Settle(p) PROVE AgreeInv'
  <2>1. UNCHANGED <<files, overlapped>> /\ unfinished' = unfinished \ DatesOf(runs[p])
    BY <1>10 DEF Settle, store
  <2>2. stage' = [stage EXCEPT ![p] = "idle"] /\ stage[p] = "settling"
    BY <1>10 DEF Settle, Forget
  <2>3. ~ overlapped' => Was(p)
    BY <1>2, <2>1, <2>2
  <2>4. ASSUME Was(p) PROVE \A d \in Date \ unfinished' : Agreed(d)'
    <3>1. toBuild[p] = {}
      BY <2>2, <2>4 DEF Was, Overviews
    <3> QED  BY <2>1, <2>4, <3>1 DEF Was, Builds, Agreed
  <2> QED  BY <2>1, <2>2, <2>3, <2>4, OnlyOneBuilds DEF Was
<1>11. ASSUME NEW p \in Process, DieBetween(p) \/ DieWriting(p) PROVE AgreeInv'
  <2>1. UNCHANGED overlapped /\ unfinished' = unfinished \cup DatesOf(runs[p])
    BY <1>11 DEF DieBetween, DieWriting, Die
  <2>2. stage' = [stage EXCEPT ![p] = "idle"] /\ stage[p] # "idle"
    BY <1>11 DEF DieBetween, DieWriting, Die, Forget
  <2>3. ~ overlapped' => Was(p)
    BY <1>2, <2>1, <2>2
  <2>4. ASSUME Was(p) PROVE \A d \in Date \ unfinished' : Agreed(d)'
    <3>1. \A k \in OpenKeys(p) : k \in Key /\ k[2] \in DatesOf(runs[p])
      BY <2>4, ItsDates DEF Was, DangleInv, OpenIsStored, Stored
    <3>2. \A d \in Date \ DatesOf(runs[p]) : Agreed(d)' <=> Agreed(d)
      <4>1. CASE UNCHANGED files
        BY <4>1 DEF Agreed
      <4>2. CASE \E k \in OpenKeys(p) : files' = [files EXCEPT ![k] = "mixed"]
        BY <4>2, <3>1, OtherDatesAgree
      <4> QED  BY <1>11, <4>1, <4>2 DEF DieBetween, DieWriting, store
    <3>3. toBuild[p] \subseteq DatesOf(runs[p])
      BY <2>4 DEF Was, Overviews
    <3> QED  BY <2>1, <2>4, <3>2, <3>3 DEF Was
  <2> QED  BY <2>1, <2>2, <2>3, <2>4, OnlyOneBuilds DEF Was
<1>12. CASE UNCHANGED vars
  BY <1>12 DEF AgreeInv, Agreed, Builds, LooksRight, Composed, Stored, vars, store, locals, refresh, history
<1> QED
  BY <1>1, <1>3, <1>4, <1>5, <1>6, <1>7, <1>8, <1>9, <1>10, <1>11, <1>12 DEF Next

(* As long as cycles follow one another, the daily overview of a date that *)
(* no dead cycle left unfinished says ready exactly when all its           *)
(* components do.                                                          *)
THEOREM OverviewsAgree == Spec => []OverviewAgrees
<1>1. Init => AgreeInv
  BY DEF Init, AgreeInv, Agreed, Key, Capability
<1>2. DangleInv /\ AgreeInv => OverviewAgrees
  <2> SUFFICES ASSUME DangleInv, AgreeInv, ~ overlapped, \A p \in Process : stage[p] = "idle"
               PROVE  \A d \in Date \ unfinished : Agreed(d)
    BY DEF OverviewAgrees, Agreed
  <2>1. \A p \in Process : toBuild[p] = {}
    BY DEF DangleInv, IdleIsClean
  <2> QED  BY <2>1 DEF AgreeInv
<1> QED
  BY <1>1, <1>2, InitTypeOK, InitServing, StepTypeOK, StepDangleInv, StepServedInv, StepAgreeInv, PTL DEF Spec
=============================================================================
