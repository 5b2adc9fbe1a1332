------------------------ MODULE GuardedRuntimeProofs ------------------------
(***************************************************************************)
(* Proofs about GuardedRuntime for every number of chains and requests,    *)
(* every size and lifetime of the cache, and however runs fail.            *)
(***************************************************************************)
EXTENDS GuardedRuntime, FiniteSetTheorems, WellFoundedInduction, TLAPS

(* The entries that Bounded keeps are no more than the bound.              *)
LEMMA BoundedIsBounded ==
  ASSUME NEW n \in Nat, NEW E \in SUBSET (1 .. n)
  PROVE  /\ Bounded(E) \subseteq E
         /\ Cardinality(Bounded(E)) <= MaxEntries \/ Bounded(E) = {}
<1> DEFINE B == Bounded(E)
           Above(r) == {s \in E : r < s}
           Less == OpToRel(<, Nat)
<1>1. B \subseteq E /\ B \subseteq Nat
  <2>1. B \subseteq E
    BY DEF Bounded
  <2>2. \A e \in E : e \in Nat
    OBVIOUS
  <2> QED  BY <2>1, <2>2
<1>2. IsFiniteSet(E) /\ IsFiniteSet(B)
  <2>1. IsFiniteSet(1 .. n)
    BY FS_Interval
  <2> QED  BY <2>1, <1>1, FS_Subset
<1>3. ASSUME B # {}  PROVE Cardinality(B) <= MaxEntries
  <2>1. PICK m \in B : \A b \in B : ~ (<<b, m>> \in Less)
    BY <1>1, <1>3, NatLessThanWellFounded, WFMin, Zenon
  <2>2. ASSUME NEW b \in B, b # m  PROVE m < b
    <3>1. b \in Nat /\ m \in Nat
      BY <2>1, <1>1
    <3>2. ~ (b < m)
      BY <2>1, <3>1 DEF OpToRel
    <3> QED  BY <3>1, <3>2, <2>2
  <2>3. B \ {m} \subseteq Above(m)
    BY <2>2, <1>1
  <2>4. IsFiniteSet(Above(m))
    BY <1>2, FS_Subset
  <2>5. Cardinality(B \ {m}) <= Cardinality(Above(m))
    BY <2>3, <2>4, FS_Subset
  <2>6. Cardinality(B \ {m}) = Cardinality(B) - 1 /\ Cardinality(B) \in Nat
    BY <1>2, <2>1, FS_RemoveElement, FS_CardinalityType
  <2>7. Cardinality(Above(m)) < MaxEntries /\ Cardinality(Above(m)) \in Nat
    BY <2>1, <2>4, FS_CardinalityType DEF Bounded
  <2> QED  BY <2>5, <2>6, <2>7, RuntimeAssumption
<1> QED  BY <1>1, <1>3

(* An entry that Bounded drops has given way to MaxEntries newer ones.     *)
LEMMA DroppedIsOld ==
  ASSUME NEW n \in Nat, NEW E \in SUBSET (1 .. n), NEW r \in E, r \notin Bounded(E)
  PROVE  n - r >= MaxEntries
<1> DEFINE Above == {s \in E : r < s}
<1>1. Above \subseteq r + 1 .. n
  <2>1. \A e \in E : e \in Int /\ e <= n
    OBVIOUS
  <2>2. ASSUME NEW s \in E, r < s  PROVE s \in r + 1 .. n
    BY <2>1, <2>2
  <2> QED  BY <2>2
<1>2. IsFiniteSet(r + 1 .. n) /\ Cardinality(r + 1 .. n) = n - r
  BY FS_Interval
<1>3. Cardinality(Above) <= n - r /\ Cardinality(Above) \in Nat
  BY <1>1, <1>2, FS_Subset, FS_CardinalityType
<1>4. ~ (Cardinality(Above) < MaxEntries)
  BY DEF Bounded
<1> QED  BY <1>3, <1>4, RuntimeAssumption

-----------------------------------------------------------------------------
(***************************************************************************)
(* The cache.  A run is in the cache unless the cache had a reason to lose *)
(* it, and a run in the cache is the newest of its key.                    *)
(***************************************************************************)
RunsOK ==
  /\ clock \in 0 .. MaxClock
  /\ started \in 0 .. MaxRuns
  /\ run \in [1 .. started -> RunRecord]
  /\ cache \subseteq 1 .. started
  /\ Cardinality(cache) <= MaxEntries \/ cache = {}

Lost(r) ==
  \/ run[r].status = "rejected"
  \/ RunTtl > 0 /\ clock - run[r].at > RunTtl
  \/ started - r >= MaxEntries
  \/ \E q \in 1 .. r - 1 : run[q].key = run[r].key /\ run[q].status = "rejected"

CacheInv ==
  /\ \A r \in 1 .. started : r \in cache \/ Lost(r)
  /\ \A r \in cache : \A s \in 1 .. started : r < s => run[s].key # run[r].key
  /\ NoNeedlessRun

(* What no step does to the runs there are: only a running one changes.    *)
RunsKept ==
  /\ started <= started'
  /\ \A r \in 1 .. started :
       /\ run'[r].key = run[r].key /\ run'[r].by = run[r].by /\ run'[r].at = run[r].at
       /\ run[r].status # "running" => run'[r] = run[r]

(* A query of the data platform: answered at once, or by a run of key.     *)
Query(c, key) ==
  \/ \E a \in {"unsupported", "mismatch", "threw"} : AtOnce(c, a)
  \/ reply' = [reply EXCEPT ![c] = "run"] /\ Load(c, key)

LEMMA KeyType ==
  ASSUME TypeOK, NEW c \in Chain, NEW mode \in {"base", "explanation"},
         NEW date \in {"target", "earlier"}
  PROVE  KeyOf(request[c], mode, date) \in Key
BY RuntimeAssumption DEF TypeOK, KeyOf, Key, Request

LEMMA LoadRuns ==
  ASSUME RunsOK, CacheInv, NEW c \in Chain, NEW key \in Key, Load(c, key),
         waits \in [Chain -> 0 .. started], clock' = clock
  PROVE  /\ RunsOK' /\ CacheInv' /\ RunsKept
         /\ \A r \in 1 .. started' : r > started => run'[r].by = c
         /\ waits' \in [Chain -> 0 .. started']
         /\ \A d \in Chain \ {c} : waits'[d] = waits[d]
         /\ waits'[c] # 0 /\ run'[waits'[c]].key = key
<1>1. ASSUME NEW r \in Pruned, run[r].key = key,
             waits' = [waits EXCEPT ![c] = r], cache' = Pruned, UNCHANGED <<started, run>>
      PROVE  /\ RunsOK' /\ CacheInv' /\ RunsKept
             /\ \A q \in 1 .. started' : q > started => run'[q].by = c
             /\ waits' \in [Chain -> 0 .. started']
             /\ \A d \in Chain \ {c} : waits'[d] = waits[d]
             /\ waits'[c] # 0 /\ run'[waits'[c]].key = key
  <2>1. cache' \subseteq cache /\ r \in 1 .. started
    BY <1>1 DEF Pruned, RunsOK
  <2>2. RunsOK'
    <3>1. IsFiniteSet(cache)
      <4>1. IsFiniteSet(1 .. started)
        BY FS_Interval DEF RunsOK
      <4> QED  BY <4>1, FS_Subset DEF RunsOK
    <3>2. Cardinality(cache') <= Cardinality(cache) /\ Cardinality(cache') \in Nat
      BY <3>1, <2>1, FS_Subset, FS_CardinalityType
    <3>3. Cardinality(cache) \in Nat
      BY <3>1, FS_CardinalityType
    <3> QED  BY <1>1, <2>1, <3>2, <3>3, RuntimeAssumption DEF RunsOK
  <2>3. CacheInv'
    <3>1. \A q \in 1 .. started : q \in cache' \/ Lost(q)
      BY <1>1 DEF CacheInv, Pruned, Expired, Lost
    <3>2. NoNeedlessRun'
      BY <1>1 DEF CacheInv, NoNeedlessRun
    <3>3. \A q \in 1 .. started : Lost(q)' = Lost(q)
      BY <1>1 DEF Lost
    <3> QED  BY <1>1, <2>1, <3>1, <3>2, <3>3 DEF CacheInv
  <2>4. RunsKept
    BY <1>1 DEF RunsKept, RunsOK
  <2> QED  BY <1>1, <2>1, <2>2, <2>3, <2>4 DEF RunsOK
<1>2. ASSUME \A r \in Pruned : run[r].key # key,
             started < MaxRuns, started' = started + 1,
             run' = [r \in 1 .. started' |-> IF r <= started THEN run[r] ELSE
               [key |-> key, by |-> c, at |-> clock, status |-> "running", result |-> NoResult]],
             waits' = [waits EXCEPT ![c] = started + 1],
             cache' = Bounded(Pruned \cup {started + 1})
      PROVE  /\ RunsOK' /\ CacheInv' /\ RunsKept
             /\ \A q \in 1 .. started' : q > started => run'[q].by = c
             /\ waits' \in [Chain -> 0 .. started']
             /\ \A d \in Chain \ {c} : waits'[d] = waits[d]
             /\ waits'[c] # 0 /\ run'[waits'[c]].key = key
  <2> DEFINE new == started + 1
             E == Pruned \cup {new}
             rec == [key |-> key, by |-> c, at |-> clock, status |-> "running", result |-> NoResult]
  <2>1. started \in Nat /\ started' \in Nat /\ Pruned \subseteq cache
    BY <1>2 DEF RunsOK, Pruned
  <2>2. E \in SUBSET (1 .. started')
    BY <1>2, <2>1 DEF RunsOK
  <2>3. cache' \subseteq E /\ (Cardinality(cache') <= MaxEntries \/ cache' = {})
    BY <1>2, <2>1, <2>2, BoundedIsBounded
  <2>4. \A r \in E : r \in cache' \/ started' - r >= MaxEntries
    BY <1>2, <2>1, <2>2, DroppedIsOld
  <2>5. /\ \A r \in 1 .. started : run'[r] = run[r]
        /\ run'[new] = rec
        /\ 1 .. started' = 1 .. started \cup {new}
    BY <1>2, <2>1
  <2>6. RunsOK'
    <3>1. rec \in RunRecord
      BY DEF RunRecord, RunsOK, NoResult, Result
    <3>2. run' \in [1 .. started' -> RunRecord]
      BY <1>2, <2>1, <3>1 DEF RunsOK
    <3>3. cache' \subseteq 1 .. started'
      BY <2>2, <2>3
    <3>4. clock' \in 0 .. MaxClock /\ started' \in 0 .. MaxRuns
      BY <1>2, RuntimeAssumption DEF RunsOK
    <3> QED  BY <3>2, <3>3, <3>4, <2>3 DEF RunsOK
  <2>7. ASSUME NEW r \in 1 .. started, Lost(r)
        PROVE  Lost(r)'
    <3>1. run'[r] = run[r]
      BY <2>5
    <3>2. CASE run[r].status = "rejected"
      BY <3>1, <3>2 DEF Lost
    <3>3. CASE RunTtl > 0 /\ clock - run[r].at > RunTtl
      BY <3>1, <3>3 DEF Lost
    <3>4. CASE started - r >= MaxEntries
      <4>1. started' - r >= MaxEntries
        BY <3>4, <1>2, <2>1, RuntimeAssumption
      <4> QED  BY <4>1 DEF Lost
    <3>5. CASE \E q \in 1 .. r - 1 : run[q].key = run[r].key /\ run[q].status = "rejected"
      <4>1. PICK q \in 1 .. r - 1 : run[q].key = run[r].key /\ run[q].status = "rejected"
        BY <3>5
      <4>2. run'[q] = run[q]
        BY <2>1, <2>5
      <4> QED  BY <3>1, <4>1, <4>2 DEF Lost
    <3> QED  BY <2>7, <3>2, <3>3, <3>4, <3>5 DEF Lost
  <2>8. \A r \in 1 .. started' : r \in cache' \/ Lost(r)'
    <3> SUFFICES ASSUME NEW r \in 1 .. started', r \notin cache'
                 PROVE  Lost(r)'
      OBVIOUS
    <3>1. CASE r \in 1 .. started
      <4>1. CASE r \in Pruned
        BY <4>1, <2>4 DEF Lost
      <4>2. CASE r \in cache /\ Expired(r)
        BY <4>2, <3>1, <2>5 DEF Expired, Lost
      <4>3. CASE r \notin cache
        BY <4>3, <3>1, <2>7 DEF CacheInv
      <4> QED  BY <4>1, <4>2, <4>3 DEF Pruned
    <3>2. CASE r = new
      <4>1. started' - new >= MaxEntries
        BY <3>2, <2>4
      <4> QED  BY <4>1, <3>2 DEF Lost
    <3> QED  BY <3>1, <3>2, <2>5
  <2>9. \A r \in cache' : \A s \in 1 .. started' : r < s => run'[s].key # run'[r].key
    <3> SUFFICES ASSUME NEW r \in cache', NEW s \in 1 .. started', r < s
                 PROVE  run'[s].key # run'[r].key
      OBVIOUS
    <3>1. r \in Pruned /\ r \in cache /\ r \in 1 .. started
      BY <2>1, <2>3, <2>5 DEF RunsOK
    <3>2. CASE s \in 1 .. started
      BY <3>1, <3>2, <2>5 DEF CacheInv
    <3>3. CASE s = new
      BY <3>1, <3>3, <2>5, <1>2
    <3> QED  BY <3>2, <3>3, <2>5
  <2>10. NoNeedlessRun'
    <3> SUFFICES ASSUME NEW r \in 1 .. started', NEW s \in 1 .. started', r < s,
                        run'[r].key = run'[s].key
                 PROVE  \/ run'[r].status = "rejected"
                        \/ RunTtl > 0 /\ run'[s].at - run'[r].at > RunTtl
                        \/ s - r > MaxEntries
                        \/ \E q \in 1 .. r - 1 : run'[q].key = run'[r].key
                                                 /\ run'[q].status = "rejected"
      BY DEF NoNeedlessRun
    <3>1. r \in 1 .. started /\ 1 .. r - 1 \subseteq 1 .. started
      BY <2>1, <2>5
    <3>2. CASE s \in 1 .. started
      <4>1. run[r].key = run[s].key /\ run'[r] = run[r] /\ run'[s] = run[s]
        BY <3>1, <3>2, <2>5
      <4>2. \A q \in 1 .. r - 1 : run'[q] = run[q]
        BY <3>1, <2>5
      <4> QED  BY <3>1, <3>2, <4>1, <4>2 DEF CacheInv, NoNeedlessRun
    <3>3. CASE s = new
      <4>1. run[r].key = key /\ r \notin Pruned
        BY <3>1, <3>3, <2>5, <1>2
      <4>2. CASE r \in cache /\ Expired(r)
        BY <4>2, <3>1, <3>3, <2>5 DEF Expired
      <4>3. CASE Lost(r)
        <5>1. started - r >= MaxEntries => s - r > MaxEntries
          BY <3>1, <3>3, <2>1, RuntimeAssumption
        <5>2. \A q \in 1 .. r - 1 : run'[q] = run[q]
          BY <3>1, <2>5
        <5>3. run'[r] = run[r] /\ run'[s].at = clock
          BY <3>1, <3>3, <2>5
        <5> QED  BY <4>3, <5>1, <5>2, <5>3 DEF Lost
      <4> QED  BY <4>1, <4>2, <4>3, <3>1 DEF CacheInv, Pruned
    <3> QED  BY <3>2, <3>3, <2>5
  <2>11. RunsKept
    BY <2>1, <2>5, <1>2 DEF RunsKept
  <2>12. waits' \in [Chain -> 0 .. started'] /\ waits'[c] = new
         /\ \A d \in Chain \ {c} : waits'[d] = waits[d]
    BY <1>2, <2>1
  <2>13. \A q \in 1 .. started' : q > started => run'[q].by = c
    BY <2>1, <2>5
  <2> QED  BY <2>1, <2>5, <2>6, <2>8, <2>9, <2>10, <2>11, <2>12, <2>13 DEF CacheInv
<1> QED  BY <1>1, <1>2 DEF Load

LEMMA SameRuns ==
  ASSUME RunsOK, CacheInv, UNCHANGED runs, clock' = clock
  PROVE  RunsOK' /\ CacheInv' /\ RunsKept
<1>1. RunsOK' /\ RunsKept
  BY DEF RunsOK, RunsKept, runs
<1>2. \A r \in 1 .. started : Lost(r) = Lost(r)'
  BY DEF Lost, runs
<1>3. NoNeedlessRun'
  BY DEF CacheInv, NoNeedlessRun, runs
<1> QED  BY <1>1, <1>2, <1>3 DEF CacheInv, runs

LEMMA TickRuns ==
  ASSUME RunsOK, CacheInv, Tick
  PROVE  RunsOK' /\ CacheInv' /\ RunsKept
<1>1. RunsOK' /\ RunsKept
  BY RuntimeAssumption DEF RunsOK, RunsKept, Tick, runs
<1>2. \A r \in 1 .. started : Lost(r) => Lost(r)'
  <2> SUFFICES ASSUME NEW r \in 1 .. started, Lost(r)  PROVE Lost(r)'
    OBVIOUS
  <2>1. run[r].at \in Int /\ clock \in Int /\ clock' = clock + 1
    BY DEF RunsOK, RunRecord, Tick
  <2> QED  BY <2>1, RuntimeAssumption DEF Lost, Tick, runs
<1>3. NoNeedlessRun'
  BY DEF CacheInv, NoNeedlessRun, Tick, runs
<1> QED  BY <1>1, <1>2, <1>3 DEF CacheInv, Tick, runs

LEMMA ResolveRuns ==
  ASSUME RunsOK, CacheInv, NEW r \in 1 .. started, Resolve(r)
  PROVE  RunsOK' /\ CacheInv' /\ RunsKept
<1>1. PICK res \in Yields(run[r].key) :
        run' = [run EXCEPT ![r].status = "resolved", ![r].result = res]
  BY DEF Resolve
<1>2. res \in Result
  BY DEF Yields
<1>3. /\ run' \in [1 .. started -> RunRecord]
      /\ \A s \in 1 .. started :
           /\ run'[s].key = run[s].key /\ run'[s].by = run[s].by /\ run'[s].at = run[s].at
           /\ run[s].status # "running" => run'[s] = run[s]
           /\ run'[s].status = "rejected" <=> run[s].status = "rejected"
  BY <1>1, <1>2 DEF RunsOK, RunRecord, Resolve
<1>4. UNCHANGED <<clock, started, cache>>
  BY DEF Resolve
<1>5. RunsOK' /\ RunsKept
  BY <1>3, <1>4 DEF RunsOK, RunsKept
<1>6. \A s \in 1 .. started : 1 .. s - 1 \subseteq 1 .. started
  BY DEF RunsOK
<1>7. \A s \in 1 .. started : Lost(s) => Lost(s)'
  BY <1>3, <1>4, <1>6 DEF Lost
<1>8. NoNeedlessRun'
  BY <1>3, <1>4, <1>6 DEF CacheInv, NoNeedlessRun
<1>9. \A s \in cache : s \in 1 .. started
  BY DEF RunsOK
<1> QED  BY <1>3, <1>4, <1>5, <1>7, <1>8, <1>9 DEF CacheInv

LEMMA RejectRuns ==
  ASSUME RunsOK, CacheInv, NEW r \in 1 .. started, Reject(r)
  PROVE  RunsOK' /\ CacheInv' /\ RunsKept
<1>1. /\ run' \in [1 .. started -> RunRecord]
      /\ \A s \in 1 .. started :
           /\ run'[s].key = run[s].key /\ run'[s].by = run[s].by /\ run'[s].at = run[s].at
           /\ run[s].status # "running" => run'[s] = run[s]
           /\ run[s].status = "rejected" => run'[s].status = "rejected"
      /\ run'[r].status = "rejected"
  BY DEF RunsOK, RunRecord, Reject
<1>2. UNCHANGED <<clock, started>> /\ cache' = {s \in cache : run[s].key # run[r].key}
  BY DEF Reject
<1>3. \A s \in cache : s \in 1 .. started
  BY DEF RunsOK
<1>4. RunsKept
  BY <1>1, <1>2 DEF RunsKept, RunsOK
<1>5. RunsOK'
  <2>1. IsFiniteSet(1 .. started)
    BY FS_Interval DEF RunsOK
  <2>2. IsFiniteSet(cache)
    BY <2>1, FS_Subset DEF RunsOK
  <2>3. Cardinality(cache') <= Cardinality(cache) /\ Cardinality(cache') \in Nat
        /\ Cardinality(cache) \in Nat
    BY <2>2, <1>2, FS_Subset, FS_CardinalityType
  <2>4. cache' \subseteq cache
    BY <1>2
  <2>5. Cardinality(cache') <= MaxEntries \/ cache' = {}
    BY <2>3, <2>4, RuntimeAssumption DEF RunsOK
  <2> QED  BY <1>1, <1>2, <2>4, <2>5 DEF RunsOK
<1>6. \A s \in 1 .. started : 1 .. s - 1 \subseteq 1 .. started
  BY DEF RunsOK
<1>7. \A s \in 1 .. started : Lost(s) => Lost(s)'
  BY <1>1, <1>2, <1>6 DEF Lost
<1>8. ASSUME NEW s \in cache, run[s].key = run[r].key
      PROVE  Lost(s)'
  <2>1. ~ (s < r) /\ s \in 1 .. started
    BY <1>3, <1>8 DEF CacheInv
  <2>2. CASE s = r
    BY <2>2, <1>1 DEF Lost
  <2>3. CASE r < s
    <3>1. r \in 1 .. s - 1
      BY <2>1, <2>3 DEF RunsOK
    <3>2. run'[r].key = run'[s].key /\ run'[r].status = "rejected"
      BY <1>1, <1>8, <2>1
    <3> QED  BY <3>1, <3>2 DEF Lost
  <2> QED  BY <2>1, <2>2, <2>3 DEF RunsOK
<1>9. NoNeedlessRun'
  BY <1>1, <1>2, <1>6 DEF CacheInv, NoNeedlessRun
<1>10. \A s \in 1 .. started : s \in cache' \/ Lost(s)'
  BY <1>2, <1>7, <1>8 DEF CacheInv
<1>11. \A p \in cache' : \A s \in 1 .. started : p < s => run'[s].key # run'[p].key
  BY <1>1, <1>2, <1>3 DEF CacheInv
<1> QED  BY <1>2, <1>4, <1>5, <1>9, <1>10, <1>11 DEF CacheInv

-----------------------------------------------------------------------------
(***************************************************************************)
(* The chains.  What a chain awaits was asked for its own request, after   *)
(* its access was granted; a run is some granted chain's.                  *)
(***************************************************************************)
ChainsOK ==
  /\ request \in [Chain -> Requests]
  /\ stage \in [Chain -> {"idle", "access", "readiness", "explanation", "theme", "done"}]
  /\ decision \in [Chain -> Decision \cup {"none"}]
  /\ reply \in [Chain -> {"none", "run", "unsupported", "mismatch", "threw"}]
  /\ outcome \in [Chain -> DependencyStage \cup {"none"}]
  /\ waits \in [Chain -> 0 .. started]
  /\ readyBy \in [Chain -> 0 .. started] /\ servedBy \in [Chain -> 0 .. started]

LEMMA TypeOKParts == TypeOK <=> RunsOK /\ ChainsOK
BY DEF TypeOK, RunsOK, ChainsOK

Asking == {"readiness", "explanation", "theme"}

\* the mode of the run that answers what the chain awaits
Mode(c) ==
  IF stage[c] = "readiness" \/ (stage[c] = "theme" /\ request[c].object = "own")
  THEN "base" ELSE "explanation"

\* what a data query is answered with, if it is answered at once
Instant(c) == IF stage[c] = "readiness" THEN {"unsupported", "threw"} ELSE {"mismatch", "threw"}

Replied(c) ==
  /\ reply[c] \in {"run"} \cup Instant(c)
  /\ reply[c] = "run" =>
       /\ waits[c] # 0
       /\ run[waits[c]].key.id = request[c].id
       /\ run[waits[c]].key.capability = request[c].capability
       /\ run[waits[c]].key.mode = Mode(c)

ToldReady(c) ==
  /\ readyBy[c] # 0
  /\ run[readyBy[c]].status = "resolved"
  /\ run[readyBy[c]].result.readiness = "ready"
  /\ run[readyBy[c]].key.id = request[c].id

ServedBy(c) ==
  /\ servedBy[c] # 0
  /\ run[servedBy[c]].status = "resolved"
  /\ run[servedBy[c]].result.service = "served"
  /\ run[servedBy[c]].key.id = request[c].id
  /\ run[servedBy[c]].key.capability = request[c].capability
  /\ run[servedBy[c]].key.mode = "base" <=> request[c].object = "own"
  /\ request[c].object = "own" => ToldReady(c)

Guarded(c) ==
  /\ stage[c] \in Asking => decision[c] \in Granted /\ Replied(c)
  /\ stage[c] = "theme" => ToldReady(c)
  /\ outcome[c] # "none" => stage[c] = "done"
  /\ outcome[c] = "served" => decision[c] \in Granted /\ ServedBy(c)

\* decided once and for all, and granted
IsGranted(c) == decision[c] \in Granted /\ stage[c] \notin {"idle", "access"}

GuardInv ==
  /\ \A c \in Chain : Guarded(c)
  /\ \A r \in 1 .. started : IsGranted(run[r].by)

IInv == TypeOK /\ CacheInv /\ GuardInv

LEMMA GuardInvIsEnough == TypeOK /\ GuardInv => ServedIsGuarded
<1> SUFFICES ASSUME TypeOK, GuardInv  PROVE ServedIsGuarded
  OBVIOUS
<1>1. ASSUME NEW c \in Chain, outcome[c] = "served"
      PROVE  /\ decision[c] \in Granted
             /\ servedBy[c] # 0
             /\ LET s == run[servedBy[c]] IN
                  /\ s.status = "resolved" /\ s.result.service = "served"
                  /\ s.key.id = request[c].id /\ s.key.capability = request[c].capability
                  /\ s.key.mode = "base" <=> request[c].object = "own"
             /\ request[c].object = "own" =>
                  /\ readyBy[c] # 0
                  /\ run[readyBy[c]].result.readiness = "ready"
                  /\ run[readyBy[c]].key.id = request[c].id
  BY <1>1 DEF GuardInv, Guarded, ServedBy, ToldReady
<1>2. \A r \in 1 .. started : decision[run[r].by] \in Granted
  BY DEF GuardInv, IsGranted
<1> QED  BY <1>1, <1>2 DEF ServedIsGuarded

\* a step that leaves a chain as it is
Untouched(c) ==
  /\ request'[c] = request[c] /\ stage'[c] = stage[c] /\ decision'[c] = decision[c]
  /\ reply'[c] = reply[c] /\ waits'[c] = waits[c] /\ readyBy'[c] = readyBy[c]
  /\ servedBy'[c] = servedBy[c] /\ outcome'[c] = outcome[c]

(* Whatever the runs do, what is settled for a chain stays settled.        *)
LEMMA GuardedFrame ==
  ASSUME TypeOK, RunsKept, NEW c \in Chain, Guarded(c), Untouched(c)
  PROVE  Guarded(c)'
<1>1. waits[c] \in 0 .. started /\ readyBy[c] \in 0 .. started /\ servedBy[c] \in 0 .. started
  BY DEF TypeOK
<1>2. \A r \in 1 .. started : run'[r].key = run[r].key
      /\ (run[r].status = "resolved" => run'[r] = run[r])
  BY DEF RunsKept
<1>3. ToldReady(c) => ToldReady(c)'
  BY <1>1, <1>2 DEF ToldReady, Untouched
<1>4. ServedBy(c) => ServedBy(c)'
  BY <1>1, <1>2, <1>3 DEF ServedBy, Untouched
<1>5. stage[c] \in Asking /\ Replied(c) => Replied(c)'
  BY <1>1, <1>2 DEF Replied, Instant, Mode, Untouched
<1> QED  BY <1>3, <1>4, <1>5 DEF Guarded, Untouched

(* A step of the runs alone.                                               *)
LEMMA RunsAlone ==
  ASSUME IInv, RunsOK', CacheInv', RunsKept, UNCHANGED chains, started' = started
  PROVE  IInv'
<1>1. ChainsOK'
  BY TypeOKParts DEF IInv, ChainsOK, chains
<1>2. \A c \in Chain : Guarded(c)'
  BY GuardedFrame DEF IInv, GuardInv, Untouched, chains
<1>3. \A r \in 1 .. started : run[r].by \in Chain
  BY DEF IInv, TypeOK, RunRecord
<1>4. \A r \in 1 .. started' : IsGranted(run[r].by)'
  BY <1>3 DEF IInv, GuardInv, IsGranted, RunsKept, chains
<1>5. TypeOK'
  BY <1>1 DEF TypeOK, RunsOK, ChainsOK
<1>6. GuardInv'
  BY <1>2, <1>4 DEF GuardInv, RunsKept, IsGranted, chains
<1> QED  BY <1>5, <1>6 DEF IInv

(* A step of one chain, with what it does to the runs.                     *)
LEMMA ChainAlone ==
  ASSUME IInv, NEW c \in Chain, RunsOK', CacheInv', RunsKept, ChainsOK',
         \A d \in Chain \ {c} : Untouched(d),
         Guarded(c)', IsGranted(c) => IsGranted(c)',
         \A r \in 1 .. started' : r > started => run'[r].by = c /\ IsGranted(c)'
  PROVE  IInv'
<1>1. ASSUME NEW d \in Chain  PROVE Guarded(d)'
  BY GuardedFrame DEF IInv, GuardInv
<1>2. ASSUME NEW r \in 1 .. started'  PROVE IsGranted(run[r].by)'
  <2>1. CASE r > started
    BY <2>1
  <2>2. CASE r \in 1 .. started
    <3>1. run'[r].by = run[r].by /\ run[r].by \in Chain /\ IsGranted(run[r].by)
      BY <2>2 DEF IInv, TypeOK, RunRecord, RunsKept, GuardInv
    <3>2. CASE run[r].by = c
      BY <3>1, <3>2 DEF IsGranted
    <3>3. CASE run[r].by # c
      BY <3>1, <3>3 DEF IsGranted, Untouched
    <3> QED  BY <3>2, <3>3
  <2> QED  BY <2>1, <2>2 DEF IInv, TypeOK, RunsOK
<1>3. TypeOK'
  BY DEF TypeOK, RunsOK, ChainsOK
<1>4. GuardInv'
  BY <1>1, <1>2 DEF GuardInv
<1> QED  BY <1>3, <1>4 DEF IInv

(* A step that asks the data platform nothing.                             *)
LEMMA NoQuery ==
  ASSUME IInv, NEW c \in Chain, UNCHANGED runs, clock' = clock, ChainsOK',
         \A d \in Chain \ {c} : Untouched(d),
         Guarded(c)', IsGranted(c) => IsGranted(c)'
  PROVE  IInv'
<1>1. RunsOK' /\ CacheInv' /\ RunsKept
  BY SameRuns, TypeOKParts DEF IInv
<1>2. started' = started /\ started \in Nat
  BY DEF runs, IInv, TypeOK
<1>3. \A r \in 1 .. started' : r > started => run'[r].by = c /\ IsGranted(c)'
  BY <1>2
<1> QED  BY <1>1, <1>3, ChainAlone

(* What a query of the data platform leaves behind.                        *)
LEMMA QueryEffect ==
  ASSUME IInv, NEW c \in Chain, NEW key \in Key, Query(c, key), clock' = clock
  PROVE  /\ RunsOK' /\ CacheInv' /\ RunsKept
         /\ \A r \in 1 .. started' : r > started => run'[r].by = c
         /\ reply' \in [Chain -> {"none", "run", "unsupported", "mismatch", "threw"}]
         /\ waits' \in [Chain -> 0 .. started']
         /\ \A d \in Chain \ {c} : reply'[d] = reply[d] /\ waits'[d] = waits[d]
         /\ reply'[c] = "run" => waits'[c] # 0 /\ run'[waits'[c]].key = key
<1>1. RunsOK /\ ChainsOK /\ CacheInv
  BY TypeOKParts DEF IInv
<1>2. ASSUME NEW a \in {"unsupported", "mismatch", "threw"}, AtOnce(c, a)
      PROVE  /\ RunsOK' /\ CacheInv' /\ RunsKept
             /\ \A r \in 1 .. started' : r > started => run'[r].by = c
             /\ reply' \in [Chain -> {"none", "run", "unsupported", "mismatch", "threw"}]
             /\ waits' \in [Chain -> 0 .. started']
             /\ \A d \in Chain \ {c} : reply'[d] = reply[d] /\ waits'[d] = waits[d]
             /\ reply'[c] # "run"
  <2>1. RunsOK' /\ CacheInv' /\ RunsKept
    BY <1>1, <1>2, SameRuns DEF AtOnce
  <2>2. started' = started /\ started \in Nat
    BY <1>1, <1>2 DEF AtOnce, runs, RunsOK
  <2>3. reply' = [reply EXCEPT ![c] = a] /\ waits' = [waits EXCEPT ![c] = 0]
    BY <1>2 DEF AtOnce
  <2> QED  BY <1>1, <2>1, <2>2, <2>3 DEF ChainsOK
<1>3. CASE reply' = [reply EXCEPT ![c] = "run"] /\ Load(c, key)
  <2>1. /\ RunsOK' /\ CacheInv' /\ RunsKept
        /\ \A r \in 1 .. started' : r > started => run'[r].by = c
        /\ waits' \in [Chain -> 0 .. started']
        /\ \A d \in Chain \ {c} : waits'[d] = waits[d]
        /\ waits'[c] # 0 /\ run'[waits'[c]].key = key
    BY <1>1, <1>3, LoadRuns DEF ChainsOK
  <2>2. reply' \in [Chain -> {"none", "run", "unsupported", "mismatch", "threw"}]
        /\ \A d \in Chain \ {c} : reply'[d] = reply[d]
    BY <1>1, <1>3 DEF ChainsOK
  <2> QED  BY <2>1, <2>2
<1> QED  BY <1>2, <1>3 DEF Query

LEMMA ReadinessIsAQuery ==
  ASSUME IInv, NEW c \in Chain, QueryReadiness(c)
  PROVE  /\ Query(c, KeyOf(request[c], "base", "target"))
         /\ reply'[c] \in {"run", "unsupported", "threw"}
BY DEF IInv, TypeOK, QueryReadiness, ByRun, AtOnce, Query

LEMMA ThemeIsAQuery ==
  ASSUME IInv, NEW c \in Chain, NEW object, NEW date, QueryTheme(c, object, date)
  PROVE  /\ Query(c, KeyOf(request[c], IF object = "own" THEN "base" ELSE "explanation", date))
         /\ reply'[c] \in {"run", "mismatch", "threw"}
BY DEF IInv, TypeOK, QueryTheme, ByRun, AtOnce, Query

-----------------------------------------------------------------------------
(* The end of a chain, whatever it came to.                                *)
LEMMA FinishStep ==
  ASSUME IInv, NEW c \in Chain, NEW result \in DependencyStage, Finish(c, result),
         UNCHANGED <<clock, request, readyBy, runs>>,
         NEW d \in Decision \cup {"none"}, decision' = [decision EXCEPT ![c] = d],
         NEW s \in 0 .. started, servedBy' = [servedBy EXCEPT ![c] = s],
         result = "served" => d \in Granted /\ ServedBy(c)',
         IsGranted(c) => d \in Granted
  PROVE  IInv'
<1>1. ChainsOK /\ started' = started /\ 0 \in 0 .. started
  BY TypeOKParts DEF IInv, runs, RunsOK
<1>2. ChainsOK'
  <2>1. /\ request' \in [Chain -> Requests]
        /\ decision' \in [Chain -> Decision \cup {"none"}]
        /\ readyBy' \in [Chain -> 0 .. started']
        /\ servedBy' \in [Chain -> 0 .. started']
    BY <1>1 DEF ChainsOK
  <2>2. waits' \in [Chain -> 0 .. started']
    BY <1>1 DEF ChainsOK, Finish
  <2>3. /\ stage' \in [Chain -> {"idle", "access", "readiness", "explanation", "theme", "done"}]
        /\ reply' \in [Chain -> {"none", "run", "unsupported", "mismatch", "threw"}]
        /\ outcome' \in [Chain -> DependencyStage \cup {"none"}]
    BY <1>1 DEF ChainsOK, Finish
  <2> QED  BY <2>1, <2>2, <2>3 DEF ChainsOK
<1>3. \A e \in Chain \ {c} : Untouched(e)
  BY <1>1 DEF ChainsOK, Finish, Untouched
<1>4. /\ stage'[c] = "done" /\ outcome'[c] = result /\ decision'[c] = d
  BY <1>1 DEF ChainsOK, Finish
<1>5. Guarded(c)'
  BY <1>4 DEF Guarded, Asking
<1>6. IsGranted(c) => IsGranted(c)'
  BY <1>4 DEF IsGranted
<1> QED  BY <1>2, <1>3, <1>5, <1>6, NoQuery

LEMMA StartStep ==
  ASSUME IInv, NEW c \in Chain, Start(c)
  PROVE  IInv'
<1>1. ChainsOK
  BY TypeOKParts DEF IInv
<1>2. ChainsOK' /\ stage'[c] = "access"
  BY <1>1 DEF ChainsOK, Start, runs
<1>3. \A e \in Chain \ {c} : Untouched(e)
  BY <1>1 DEF ChainsOK, Start, Untouched
<1>4. outcome'[c] = "none"
  BY <1>1 DEF IInv, GuardInv, Guarded, Start
<1>5. Guarded(c)'
  BY <1>2, <1>4 DEF Guarded, Asking
<1>6. ~ IsGranted(c)
  BY DEF IsGranted, Start
<1> QED  BY <1>2, <1>3, <1>5, <1>6, NoQuery DEF Start

LEMMA DecideStep ==
  ASSUME IInv, NEW c \in Chain, NEW d \in Decision, Decide(c, d)
  PROVE  IInv'
<1>1. ChainsOK /\ outcome[c] = "none" /\ ~ IsGranted(c)
  BY TypeOKParts DEF IInv, GuardInv, Guarded, IsGranted, Decide
<1>2. CASE StageOf(d) # "granted" /\ Finish(c, StageOf(d)) /\ UNCHANGED runs
  <2>1. StageOf(d) \in DependencyStage \ {"served"}
    BY <1>2 DEF StageOf, Decision, Granted, DependencyStage
  <2>2. servedBy' = [servedBy EXCEPT ![c] = servedBy[c]] /\ servedBy[c] \in 0 .. started
    BY <1>1 DEF ChainsOK, Decide
  <2>3. decision' = [decision EXCEPT ![c] = d]
    BY DEF Decide
  <2> QED  BY <1>1, <1>2, <2>1, <2>2, <2>3, FinishStep DEF Decide
<1>3. CASE /\ StageOf(d) = "granted"
           /\ stage' = [stage EXCEPT ![c] = "readiness"]
           /\ QueryReadiness(c)
           /\ UNCHANGED outcome
  <2> DEFINE key == KeyOf(request[c], "base", "target")
  <2>1. key \in Key /\ Query(c, key) /\ reply'[c] \in {"run", "unsupported", "threw"}
    BY <1>3, KeyType, ReadinessIsAQuery DEF IInv
  <2> HIDE DEF key
  <2>2. /\ RunsOK' /\ CacheInv' /\ RunsKept
        /\ \A r \in 1 .. started' : r > started => run'[r].by = c
        /\ reply' \in [Chain -> {"none", "run", "unsupported", "mismatch", "threw"}]
        /\ waits' \in [Chain -> 0 .. started']
        /\ \A e \in Chain \ {c} : reply'[e] = reply[e] /\ waits'[e] = waits[e]
        /\ reply'[c] = "run" => waits'[c] # 0 /\ run'[waits'[c]].key = key
    BY <2>1, QueryEffect DEF Decide
  <2>3. d \in Granted
    BY <1>3 DEF StageOf, Decision, Granted
  <2>4. /\ stage'[c] = "readiness" /\ decision'[c] = d /\ request'[c] = request[c]
        /\ outcome'[c] = "none"
    BY <1>1, <1>3 DEF ChainsOK, Decide
  <2>5. ChainsOK'
    <3>1. 0 .. started \subseteq 0 .. started'
      BY <2>2 DEF RunsKept, IInv, TypeOK, RunsOK
    <3> QED  BY <1>1, <1>3, <2>2, <3>1 DEF ChainsOK, Decide
  <2>6. \A e \in Chain \ {c} : Untouched(e)
    BY <1>1, <1>3, <2>2 DEF ChainsOK, Decide, Untouched
  <2>7. Guarded(c)'
    <3>1. /\ key.id = request[c].id /\ key.capability = request[c].capability
          /\ key.mode = "base"
      BY DEF key, KeyOf
    <3>2. Replied(c)'
      BY <2>1, <2>2, <2>4, <3>1 DEF Replied, Instant, Mode
    <3> QED  BY <2>3, <2>4, <3>2 DEF Guarded, Asking
  <2>8. IsGranted(c)'
    BY <2>3, <2>4 DEF IsGranted
  <2> QED  BY <2>2, <2>5, <2>6, <2>7, <2>8, ChainAlone
<1> QED  BY <1>2, <1>3 DEF Decide

LEMMA ReadinessFailsStep ==
  ASSUME IInv, NEW c \in Chain, ReadinessFails(c)
  PROVE  IInv'
<1>1. ChainsOK /\ decision[c] \in Granted
  BY TypeOKParts DEF IInv, GuardInv, Guarded, Asking, ReadinessFails
<1>2. servedBy' = [servedBy EXCEPT ![c] = servedBy[c]] /\ servedBy[c] \in 0 .. started
      /\ decision' = [decision EXCEPT ![c] = decision[c]]
      /\ decision[c] \in Decision \cup {"none"}
  BY <1>1 DEF ChainsOK, ReadinessFails
<1>3. "dependency_error" \in DependencyStage \ {"served"}
  BY DEF DependencyStage
<1> QED  BY <1>1, <1>2, <1>3, FinishStep DEF ReadinessFails

LEMMA BlockedStep ==
  ASSUME IInv, NEW c \in Chain, Blocked(c)
  PROVE  IInv'
<1>1. ChainsOK /\ decision[c] \in Granted
  BY TypeOKParts DEF IInv, GuardInv, Guarded, Asking, Blocked
<1>2. servedBy' = [servedBy EXCEPT ![c] = servedBy[c]] /\ servedBy[c] \in 0 .. started
      /\ decision' = [decision EXCEPT ![c] = decision[c]]
      /\ decision[c] \in Decision \cup {"none"}
  BY <1>1 DEF ChainsOK, Blocked
<1>3. "readiness_blocked" \in DependencyStage \ {"served"}
  BY DEF DependencyStage
<1> QED  BY <1>1, <1>2, <1>3, FinishStep DEF Blocked

(* Asking for a service or an explanation after the readiness is known.    *)
LEMMA AskStep ==
  ASSUME IInv, NEW c \in Chain, stage[c] = "readiness",
         NEW next \in {"explanation", "theme"}, NEW object \in {"own", "explanation"},
         NEW date \in {"target", "earlier"},
         next = "explanation" => object = "explanation",
         next = "theme" => object = request[c].object,
         stage' = [stage EXCEPT ![c] = next],
         readyBy' = [readyBy EXCEPT ![c] = waits[c]],
         next = "theme" => /\ waits[c] # 0 /\ run[waits[c]].key.id = request[c].id
                           /\ run[waits[c]].status = "resolved"
                           /\ run[waits[c]].result.readiness = "ready",
         QueryTheme(c, object, date),
         UNCHANGED <<clock, request, decision, servedBy, outcome>>
  PROVE  IInv'
<1> DEFINE mode == IF object = "own" THEN "base" ELSE "explanation"
           key == KeyOf(request[c], mode, date)
<1>1. ChainsOK /\ outcome[c] = "none" /\ decision[c] \in Granted
  BY TypeOKParts DEF IInv, GuardInv, Guarded, Asking
<1>2. key \in Key /\ Query(c, key) /\ reply'[c] \in {"run", "mismatch", "threw"}
  BY KeyType, ThemeIsAQuery DEF IInv
<1>3. key.id = request[c].id /\ key.capability = request[c].capability /\ key.mode = mode
  BY DEF KeyOf
<1> HIDE DEF key
<1>4. /\ RunsOK' /\ CacheInv' /\ RunsKept
      /\ \A r \in 1 .. started' : r > started => run'[r].by = c
      /\ reply' \in [Chain -> {"none", "run", "unsupported", "mismatch", "threw"}]
      /\ waits' \in [Chain -> 0 .. started']
      /\ \A e \in Chain \ {c} : reply'[e] = reply[e] /\ waits'[e] = waits[e]
      /\ reply'[c] = "run" => waits'[c] # 0 /\ run'[waits'[c]].key = key
  BY <1>2, QueryEffect
<1>5. ChainsOK'
  <2>1. 0 .. started \subseteq 0 .. started'
    BY <1>4 DEF RunsKept, IInv, TypeOK, RunsOK
  <2> QED  BY <1>1, <1>4, <2>1 DEF ChainsOK
<1>6. \A e \in Chain \ {c} : Untouched(e)
  BY <1>1, <1>4 DEF ChainsOK, Untouched
<1>7. stage'[c] = next /\ readyBy'[c] = waits[c] /\ waits[c] \in 0 .. started
  BY <1>1 DEF ChainsOK
<1>8. Replied(c)'
  BY <1>2, <1>3, <1>4, <1>7 DEF Replied, Instant, Mode
<1>9. next = "theme" => ToldReady(c)'
  BY <1>4, <1>7 DEF ToldReady, RunsKept
<1>10. Guarded(c)'
  BY <1>1, <1>7, <1>8, <1>9 DEF Guarded, Asking
<1>11. IsGranted(c)'
  BY <1>1, <1>7 DEF IsGranted
<1> QED  BY <1>4, <1>5, <1>6, <1>10, <1>11, ChainAlone

LEMMA ExplainStep ==
  ASSUME IInv, NEW c \in Chain, Explain(c)
  PROVE  IInv'
BY AskStep DEF Explain

LEMMA ServeStep ==
  ASSUME IInv, NEW c \in Chain, Serve(c)
  PROVE  IInv'
<1>1. TypeOK /\ Replied(c) /\ waits[c] \in 0 .. started
  BY DEF IInv, TypeOK, GuardInv, Guarded, Asking, Serve
<1>2. reply[c] = "run" /\ waits[c] # 0 /\ run[waits[c]].key.id = request[c].id
  BY <1>1 DEF Replied, Instant, ReadinessOf, Failed, Serve
<1>3. run[waits[c]] \in RunRecord
  BY <1>1, <1>2 DEF TypeOK
<1>4. run[waits[c]].status = "resolved" /\ run[waits[c]].result.readiness = "ready"
  BY <1>2, <1>3 DEF ReadinessOf, Failed, Answered, Serve, RunRecord
<1>5. request[c].object \in {"own", "explanation"}
  BY <1>1, RuntimeAssumption DEF TypeOK, Request
<1>6. ServiceDate(c) \in {"target", "earlier"}
  BY <1>3 DEF ServiceDate, RunRecord, Result
<1> QED  BY <1>2, <1>4, <1>5, <1>6, AskStep DEF Serve

LEMMA ServiceAnsweredStep ==
  ASSUME IInv, NEW c \in Chain, ServiceAnswered(c)
  PROVE  IInv'
<1>1. ChainsOK /\ Guarded(c) /\ decision[c] \in Granted /\ Replied(c)
  BY TypeOKParts DEF IInv, GuardInv, Guarded, Asking, ServiceAnswered, IsAsked
<1>2. /\ decision' = [decision EXCEPT ![c] = decision[c]]
      /\ decision[c] \in Decision \cup {"none"}
      /\ UNCHANGED <<clock, request, readyBy, runs>>
  BY <1>1 DEF ChainsOK, ServiceAnswered
<1>3. ASSUME NEW result \in DependencyStage \ {"served"}, Finish(c, result), UNCHANGED servedBy
      PROVE  IInv'
  <2>1. servedBy' = [servedBy EXCEPT ![c] = servedBy[c]] /\ servedBy[c] \in 0 .. started
    BY <1>1, <1>3 DEF ChainsOK
  <2> QED  BY <1>1, <1>2, <1>3, <2>1, FinishStep
<1>4. ASSUME ServiceOf(c) = "served", Finish(c, "served"),
             servedBy' = [servedBy EXCEPT ![c] = waits[c]]
      PROVE  IInv'
  <2>1. reply[c] = "run" /\ waits[c] # 0 /\ waits[c] \in 0 .. started
    BY <1>1, <1>4 DEF Replied, Instant, ServiceOf, Failed, ServiceAnswered, IsAsked, ChainsOK
  <2>2. run[waits[c]] \in RunRecord
    BY <2>1 DEF IInv, TypeOK
  <2>3. run[waits[c]].status = "resolved" /\ run[waits[c]].result.service = "served"
    BY <1>4, <2>1, <2>2 DEF ServiceOf, Failed, Answered, ServiceAnswered, RunRecord
  <2>4. Mode(c) = "base" <=> request[c].object = "own"
    BY DEF Mode, ServiceAnswered, IsAsked
  <2>5. request[c].object = "own" => ToldReady(c)
    BY <1>1 DEF Guarded, ServiceAnswered, IsAsked
  <2>6. servedBy'[c] = waits[c] /\ UNCHANGED <<run, request, readyBy>>
    BY <1>1, <1>2, <1>4 DEF ChainsOK, runs
  <2>7. ServedBy(c)'
    BY <1>1, <2>1, <2>3, <2>4, <2>5, <2>6 DEF ServedBy, Replied, ToldReady
  <2>8. "served" \in DependencyStage
    BY DEF DependencyStage
  <2> QED  BY <1>1, <1>2, <1>4, <2>1, <2>7, <2>8, FinishStep
<1> QED  BY <1>3, <1>4 DEF ServiceAnswered, DependencyStage

-----------------------------------------------------------------------------
LEMMA InitIInv == Init => IInv
<1> SUFFICES ASSUME Init  PROVE IInv
  OBVIOUS
<1>1. TypeOK
  BY FS_EmptySet, RuntimeAssumption DEF Init, TypeOK
<1>2. CacheInv
  BY DEF Init, CacheInv, NoNeedlessRun
<1>3. GuardInv
  BY DEF Init, GuardInv, Guarded, Asking
<1> QED  BY <1>1, <1>2, <1>3 DEF IInv

LEMMA StepIInv == IInv /\ [Next]_vars => IInv'
<1> SUFFICES ASSUME IInv, [Next]_vars  PROVE IInv'
  OBVIOUS
<1>1. RunsOK /\ CacheInv
  BY TypeOKParts DEF IInv
<1>2. ASSUME NEW c \in Chain, ChainStep(c)  PROVE IInv'
  BY <1>2, StartStep, DecideStep, ReadinessFailsStep, ExplainStep, ServeStep, BlockedStep,
     ServiceAnsweredStep DEF ChainStep
<1>3. ASSUME NEW r \in 1 .. started, Resolve(r)  PROVE IInv'
  BY <1>1, <1>3, ResolveRuns, RunsAlone DEF Resolve
<1>4. ASSUME NEW r \in 1 .. started, Reject(r)  PROVE IInv'
  BY <1>1, <1>4, RejectRuns, RunsAlone DEF Reject
<1>5. CASE Tick
  BY <1>1, <1>5, TickRuns, RunsAlone DEF Tick, runs
<1>6. CASE UNCHANGED vars
  BY <1>1, <1>6, SameRuns, RunsAlone DEF vars, runs
<1> QED  BY <1>2, <1>3, <1>4, <1>5, <1>6 DEF Next

LEMMA AlwaysIInv == Spec => []IInv
BY InitIInv, StepIInv, PTL DEF Spec

(* Types, and the cache never holds more entries than its bound allows,    *)
(* nor any at all when the bound is zero or less.                          *)
THEOREM RuntimeTypeCorrect == Spec => []TypeOK
<1>1. IInv => TypeOK
  BY DEF IInv
<1> QED  BY <1>1, AlwaysIInv, PTL

(* A second run for the same request, mode and date has a reason the cache *)
(* could not help: a failure, the lifetime or the bound of its entries.    *)
THEOREM RunsAreShared == Spec => []NoNeedlessRun
<1>1. IInv => NoNeedlessRun
  BY DEF IInv, CacheInv
<1> QED  BY <1>1, AlwaysIInv, PTL

(* However many chains share runs and however these fail: what is served   *)
(* was granted, ready and answered for the chain's own request, and no run *)
(* is started for a chain that was not granted access.                     *)
THEOREM ServingIsGuarded == Spec => []ServedIsGuarded
<1>1. IInv => ServedIsGuarded
  BY GuardInvIsEnough DEF IInv
<1> QED  BY <1>1, AlwaysIInv, PTL
=============================================================================
