------------------------------- MODULE SliceRun -------------------------------
(***************************************************************************)
(* A run of a vertical slice and what its caller makes of it.  The         *)
(* endpoints of the slice are fetched page by page by a pool of workers,   *)
(* recorded one after the other in the artefact store, and summed up in    *)
(* run status, canonical artefacts and latest states; a script then has    *)
(* the artefacts written file by file under its output root, a reader gets *)
(* the readiness and the theme service of an owner surface, or of an       *)
(* aggregate over several slices.                                          *)
(*                                                                         *)
(* Left out: identifiers, times, the content of records, and what kind of  *)
(* source error (business, auth or sign) a message points to.              *)
(***************************************************************************)
EXTENDS QinqinTransport, OwnerSurface

CONSTANTS
  Endpoints,    \* slice -> its endpoint contracts, in registry order
  MaxWorkers,   \* endpoint_fetch_concurrency
  Sizes,        \* numbers of records the source may hold for an endpoint
  MaxRuns       \* bound on the runs under one output root

Slice == {"member", "finance", "staff", "generic_finance", "generic_staff", "commission"}

ASSUME SliceAssumption ==
  /\ Endpoints \in [Slice -> Seq(Endpoint)]
  /\ \A s \in Slice : Endpoints[s] # << >> /\
       \A i, j \in DOMAIN Endpoints[s] : Endpoints[s][i] = Endpoints[s][j] => i = j
  /\ MaxWorkers \in Nat \ {0} /\ MaxRuns \in Nat
  /\ 0 \in Sizes /\ Sizes \subseteq 0 .. MaxRows

\* As the seeded bindings have it: who answers in pages with a total takes a
\* page index, and no endpoint of the member slice answers with an object of
\* items.
ASSUME RegistryAssumption ==
  /\ \A e \in Endpoint : Shape[e] = "page" => e \in Paged
  /\ \A i \in DOMAIN Endpoints["member"] : Shape[Endpoints["member"][i]] # "items"

SliceEndpoints(s) == {Endpoints[s][i] : i \in DOMAIN Endpoints[s]}

\* The slices whose owner surfaces a surface is built from.
Components == [
  member_insight    |-> <<"member">>,
  finance_summary   |-> <<"finance">>,
  staff_board       |-> <<"staff">>,
  daily_overview    |-> <<"member", "staff", "finance">>,
  phase1_finance    |-> <<"generic_finance">>,
  phase1_staff      |-> <<"generic_staff">>,
  phase1_overview   |-> <<"member", "generic_finance", "generic_staff">>,
  explanation       |-> << >> ]

Surface == DOMAIN Components

File == {"ingestion_runs", "endpoint_runs", "raw_pages", "replay", "canonical",
         "latest", "state", "quality"}

\* Where the fetch of one endpoint is: seen and told are history, the records
\* its pages held and whether the source said that there were no more.
Fetch == [at : {"open", "ended", "raised"}, page : Nat, count : Nat, seen : SUBSET Row,
          told : BOOLEAN, status : EndpointStatus \cup {"none"},
          error : Taxonomy \cup {"none", "source_error", "source_schema_error"}]

Unfetched == [at |-> "open", page |-> 1, count |-> 0, seen |-> {}, told |-> FALSE,
              status |-> "none", error |-> "none"]

NoAnswer == [outcome |-> "none", readiness |-> "none", service |-> "none", lacking |-> FALSE]

VARIABLES
  caller,      \* the surface a reader queries, or the slice a script runs
  ask,         \* what the reader asks for
  stage,       \* idle, starting, fetching, writing (between two files),
               \* rewriting (in one that is truncated), answering
  todo,        \* slices still to run, the current one first
  content,     \* endpoint -> number of records the source holds
  fetch,       \* endpoint -> where its fetch is
  recorded,    \* endpoint runs of the artefact store
  toWrite,     \* files of the payload map not written yet
  files,       \* file -> the run whose content it holds whole, 0 if it is missing
               \* or was truncated; the canonical artefacts and the two quality
               \* reports are several files each, and count as one
  begun,       \* history: the last run that truncated a file
  runs,        \* runs under the output root so far
  built,       \* the component surfaces built so far; lacking is history: ready,
               \* although the artefacts lack records of the source
  answer       \* what the caller got last

work == <<content, fetch, recorded>>
disk == <<files, begun, runs>>
vars == <<caller, ask, stage, todo, work, toWrite, disk, built, answer>>

IsReader == caller \in Surface
Current  == Head(todo)
Statuses(s) == [i \in DOMAIN recorded |-> recorded[i].status]

-----------------------------------------------------------------------------
(***************************************************************************)
(* The page loops: what a fetch result means to a slice.  acc counts the   *)
(* records up to and with this page.                                       *)
(***************************************************************************)
More           == [at |-> "open", status |-> "none", error |-> "none"]
Ended(status)  == [at |-> "ended", status |-> status, error |-> "none"]
Failed(error)  == [at |-> "ended", status |-> "failed", error |-> error]
Emptied(acc)   == Ended(IF acc = 0 THEN "source_empty" ELSE "completed")

IsDict(envelope) == envelope.data \in {"page", "items"}
Succeeded(r)     == r.error = "none" /\ r.envelope.code = 200
ShapeFits(e, r)  == r.envelope.data = Shape[e]

\* the code and message by which the source says that it has no data
SaysNoData(envelope) == envelope.code \in {204, 404} /\ envelope.nodata

\* mutant: the page boundary is taken for one more page already read
SkipsLastPage(page, total) == total > (page + 1) * PageSize

AnotherPage(page, total) == total > page * PageSize

\* len(RetData.get('Data')): a RetData that is no object raises
MemberRaises(r) == ~ IsDict(r.envelope)

MemberCount(r) == IF r.envelope.data = "page" THEN Cardinality(r.envelope.rows) ELSE 0

MemberVerdict(e, page, acc, r) ==
  IF r.error # "none" THEN Failed(r.error)
  ELSE IF r.envelope.code # 200 THEN Failed("source_error")
  ELSE IF MemberCount(r) = 0 THEN Emptied(acc)
  ELSE IF AnotherPage(page, r.envelope.total) THEN More
  ELSE Ended("completed")

\* _response_record_count: an object without Data counts as one record
GenericCount(r) ==
  CASE r.envelope.data \in {"page", "list"} -> Cardinality(r.envelope.rows)
    [] r.envelope.data = "items" -> 1
    [] r.envelope.data = "null"  -> 0

\* The generic slice pages through every endpoint, whatever its parameters.
GenericVerdict(e, page, acc, r) ==
  LET total == IF r.envelope.data = "page" THEN r.envelope.total ELSE GenericCount(r) IN
  IF r.error # "none" THEN Failed(r.error)
  ELSE IF r.envelope.code # 200 THEN Failed("source_error")
  ELSE IF GenericCount(r) = 0 THEN Emptied(acc)
  ELSE IF AnotherPage(page, total) THEN More
  ELSE Ended("completed")

\* Only the rows of a successful page of the right shape count.
FinanceCount(e, r) ==
  IF Succeeded(r) /\ ShapeFits(e, r) THEN Cardinality(r.envelope.rows) ELSE 0

FinanceVerdict(e, page, acc, r) ==
  IF SaysNoData(r.envelope) THEN Emptied(acc)
  ELSE IF r.error # "none" THEN Failed(r.error)
  ELSE IF r.envelope.code # 200 THEN Failed("source_error")
  ELSE IF ~ ShapeFits(e, r) THEN Failed("source_schema_error")
  ELSE IF FinanceCount(e, r) = 0 THEN Emptied(acc)
  ELSE IF e \in Paged /\ AnotherPage(page, r.envelope.total) THEN More
  ELSE Ended("completed")

\* _extract_page_rows
StaffCount(e, r) ==
  IF Succeeded(r) /\ ShapeFits(e, r) THEN Cardinality(r.envelope.rows) ELSE 0

\* _source_failure: a 404, or a message without data, is an empty source
StaffSourceFailure(envelope) ==
  IF envelope.code = 404 \/ envelope.nodata THEN Ended("source_empty")
  ELSE Failed("source_error")

StaffVerdict(e, page, acc, r) ==
  IF r.error # "none" THEN Failed(r.error)
  ELSE IF r.envelope.code # 200 THEN StaffSourceFailure(r.envelope)
  ELSE IF ~ ShapeFits(e, r) THEN Failed("source_schema_error")
  ELSE IF StaffCount(e, r) = 0 THEN Emptied(acc)
  ELSE IF e \in Paged /\ AnotherPage(page, r.envelope.total) THEN More
  ELSE Ended("completed")

\* commission settings are one page, and no rows are as good as some
CommissionVerdict(e, r) ==
  IF r.error # "none" THEN Failed(r.error)
  ELSE IF r.envelope.code = 404 /\ r.envelope.nodata THEN Ended("source_empty")
  ELSE IF r.envelope.code # 200 THEN Failed("source_error")
  ELSE IF r.envelope.data # "list" THEN Failed("source_schema_error")
  ELSE Ended("completed")

CommissionCount(r) ==
  IF Succeeded(r) /\ r.envelope.data = "list" THEN Cardinality(r.envelope.rows) ELSE 0

Raises(s, r) == s = "member" /\ MemberRaises(r)

Count(s, e, r) ==
  CASE s = "member"  -> MemberCount(r)
    [] s = "finance" -> FinanceCount(e, r)
    [] s = "staff"   -> StaffCount(e, r)
    [] s = "commission" -> CommissionCount(r)
    [] OTHER         -> GenericCount(r)

Verdict(s, e, page, acc, r) ==
  CASE s = "member"  -> MemberVerdict(e, page, acc, r)
    [] s = "finance" -> FinanceVerdict(e, page, acc, r)
    [] s = "staff"   -> StaffVerdict(e, page, acc, r)
    [] s = "commission" -> CommissionVerdict(e, r)
    [] OTHER         -> GenericVerdict(e, page, acc, r)

-----------------------------------------------------------------------------
(***************************************************************************)
(* The behaviours of the wire that are modelled: the page asked for, a     *)
(* page without records, answers that carry no data, refuse, or refuse and *)
(* say that there is no data, a timeout, an HTTP error with or without a   *)
(* body that says why, and a body that is not JSON.                        *)
(***************************************************************************)
NoData     == [Answer("null", {}, 0) EXCEPT !.code = 404, !.nodata = TRUE]
NotFound   == [Answer("page", {}, 0) EXCEPT !.code = 404]
Refusal    == [Answer("page", {}, 0) EXCEPT !.code = 401]

\* a code that is no success with a message that there is no data: nothing for
\* the staff slice, an error for the others
EmptyRefusal == [Refusal EXCEPT !.nodata = TRUE]

Exchanges(request, n) ==
  { Received(FixturePage(request, n)),
    Received(EmptyEnvelope(request.endpoint)),
    Received(Answer("null", {}, 0)),
    Received(NoData), Received(NotFound), Received(Refusal), Received(EmptyRefusal),
    [Received(SyntheticEnvelope) EXCEPT !.raised = "timeout"],
    [Received(NoData) EXCEPT !.http_error = TRUE],
    [Received(SyntheticEnvelope) EXCEPT !.body = "garbled"] }

\* history: the source said that there is nothing (more) to fetch
Told(r) == r.envelope.rows = {} /\ (r.envelope.code \in {200, 204, 404} \/ r.envelope.nodata)

-----------------------------------------------------------------------------
(***************************************************************************)
(* ordered_parallel_map: one after the other with one item or one worker,  *)
(* else a pool that takes the endpoints in order.                          *)
(***************************************************************************)
Sequential(s) == Len(Endpoints[s]) = 1 \/ MaxWorkers = 1

InPool(s, e) ==
  LET es == Endpoints[s]
      before(i) == {j \in 1 .. i - 1 : fetch[es[j]].at = "open"}
      width == IF Sequential(s) THEN 1 ELSE MaxWorkers
  IN  \E i \in DOMAIN es : es[i] = e /\ Cardinality(before(i)) < width

SomeRaised(s) == \E e \in SliceEndpoints(s) : fetch[e].at = "raised"

\* mutant: a worker's exception is never looked at
AllReturned(s) == \A e \in SliceEndpoints(s) : fetch[e].at = "ended"

\* A raise ends the loop at once, but waits for a pool to finish.
MapEnded(s) ==
  \/ \A e \in SliceEndpoints(s) : fetch[e].at # "open"
  \/ Sequential(s) /\ SomeRaised(s)

\* mutant: results are put down as the fetches end, those of one page first
AsTheyEnd(s, i) ==
  LET es == Endpoints[s]
      j  == Len(es) + 1 - i
  IN  IF fetch[es[j]].page < fetch[es[i]].page \/ fetch[es[i]].page < fetch[es[j]].page
      THEN fetch[es[j]] ELSE fetch[es[i]]

\* the result of item i
ResultOf(s, i) == fetch[Endpoints[s][i]]

-----------------------------------------------------------------------------
Init ==
  /\ caller \in Surface \cup Slice
  /\ ask \in Ask /\ (caller \in Slice => ask = "own")
  /\ stage = "idle" /\ todo = << >>
  /\ content = [e \in Endpoint |-> 0]
  /\ fetch = [e \in Endpoint |-> Unfetched]
  /\ recorded = << >> /\ toWrite = << >>
  /\ files = [f \in File |-> 0] /\ begun = 0 /\ runs = 0
  /\ built = << >> /\ answer = NoAnswer

Start ==
  /\ stage = "idle"
  /\ IsReader \/ runs < MaxRuns
  /\ todo' = IF IsReader THEN Components[caller] ELSE <<caller>>
  /\ runs' = IF IsReader THEN 0 ELSE runs + 1
  /\ stage' = IF todo' = << >> THEN "answering" ELSE "starting"
  /\ answer' = NoAnswer
  /\ UNCHANGED <<caller, ask, work, toWrite, files, begun, built>>

\* start_ingestion_run; the source holds some records for each endpoint.
StartSlice ==
  /\ stage = "starting"
  /\ content' \in [Endpoint -> Sizes]
  /\ \A e \in Endpoint \ SliceEndpoints(Current) : content'[e] = 0
  /\ stage' = "fetching"
  /\ UNCHANGED <<caller, ask, todo, fetch, recorded, toWrite, disk, built, answer>>

\* One turn of the page loop of one endpoint, in one of the workers.
FetchPage(e) ==
  /\ stage = "fetching" /\ e \in SliceEndpoints(Current)
  /\ fetch[e].at = "open" /\ InPool(Current, e) /\ ~ MapEnded(Current)
  /\ LET f == fetch[e]
         request == Request(e, f.page)
     IN  \E wire \in Exchanges(request, content[e]) :
           LET r   == Fetched(wire)
               acc == f.count + Count(Current, e, r)
               v   == Verdict(Current, e, f.page, acc, r)
           IN  fetch' = [fetch EXCEPT ![e] =
                 IF Raises(Current, r) THEN [f EXCEPT !.at = "raised"]
                 ELSE [at |-> v.at, status |-> v.status, error |-> v.error, count |-> acc,
                       page |-> IF v.at = "open" THEN f.page + 1 ELSE f.page,
                       seen |-> f.seen \cup r.envelope.rows, told |-> Told(r)]]
  /\ UNCHANGED <<caller, ask, stage, todo, content, recorded, toWrite, disk, built, answer>>

Forget ==
  /\ content' = [e \in Endpoint |-> 0]
  /\ fetch' = [e \in Endpoint |-> Unfetched]
  /\ recorded' = << >>

\* The caller gets an exception, and no artefact of the run is left.
Raise ==
  /\ stage = "fetching" /\ MapEnded(Current) /\ SomeRaised(Current)
  /\ Forget
  /\ stage' = "idle" /\ todo' = << >> /\ built' = << >>
  /\ answer' = [NoAnswer EXCEPT !.outcome = "raised"]
  /\ UNCHANGED <<caller, ask, toWrite, disk>>

\* start_endpoint_run, its pages and replay artefacts, finalize_endpoint_run
RecordEndpoint ==
  LET i == Len(recorded) + 1
      r == ResultOf(Current, i)
  IN  /\ stage = "fetching" /\ MapEnded(Current) /\ ~ SomeRaised(Current)
      /\ i <= Len(Endpoints[Current])
      /\ recorded' = Append(recorded, [endpoint |-> Endpoints[Current][i], status |-> r.status,
                                       error |-> r.error, count |-> r.count, pages |-> r.page])
      /\ UNCHANGED <<caller, ask, stage, todo, content, fetch, toWrite, disk, built, answer>>

-----------------------------------------------------------------------------
(***************************************************************************)
(* The payload maps: which artefacts a slice writes, in which order.       *)
(***************************************************************************)
Truth == <<"ingestion_runs", "endpoint_runs", "raw_pages", "replay">>

\* mutant: the latest states first, as in no slice
StatesFirst == <<"latest", "state", "canonical">> \o Truth

MemberFiles     == Truth \o <<"canonical", "latest", "state">>
FinanceFiles    == Truth \o <<"canonical", "latest", "state">>
StaffFiles      == Truth \o <<"canonical", "latest", "state">>
GenericFiles    == Truth \o <<"latest", "state", "canonical">>
CommissionFiles == Truth \o <<"canonical", "latest", "state", "quality">>

FilesOf(s) ==
  CASE s = "member"  -> MemberFiles
    [] s = "finance" -> FinanceFiles
    [] s = "staff"   -> StaffFiles
    [] s = "commission" -> CommissionFiles
    [] OTHER         -> GenericFiles

\* finalize_ingestion_run; a reader's run has no output root to write to.
Finalize ==
  /\ stage = "fetching" /\ Len(recorded) = Len(Endpoints[Current])
  /\ toWrite' = IF IsReader THEN << >> ELSE FilesOf(Current)
  /\ stage' = "writing"
  /\ UNCHANGED <<caller, ask, todo, work, disk, built, answer>>

\* write_text opens the next file for writing: what it held is gone.
OpenFile ==
  /\ stage = "writing" /\ toWrite # << >>
  /\ files' = [files EXCEPT ![Head(toWrite)] = 0]
  /\ begun' = runs
  /\ stage' = "rewriting"
  /\ UNCHANGED <<caller, ask, todo, work, toWrite, runs, built, answer>>

WriteFile ==
  /\ stage = "rewriting"
  /\ files' = [files EXCEPT ![Head(toWrite)] = runs]
  /\ toWrite' = Tail(toWrite)
  /\ stage' = "writing"
  /\ UNCHANGED <<caller, ask, todo, work, begun, runs, built, answer>>

\* what canonical artefacts are built from: the pages of usable endpoints
CanonicalRows(i) ==
  IF recorded[i].status \in {"completed", "source_empty"}
  THEN fetch[recorded[i].endpoint].seen ELSE {}

\* history: the canonical artefacts hold what the source had to give
Whole ==
  \A i \in DOMAIN recorded :
    LET e == recorded[i].endpoint IN CanonicalRows(i) = 1 .. content[e] \/ fetch[e].told

\* Components of an aggregate are asked for what they are.
AskOf == IF Len(Components[caller]) = 1 THEN ask ELSE "own"

ReadinessOf(s) ==
  CASE s = "member"  -> MemberReadiness(AskOf, Statuses(s))
    [] s = "finance" -> FinanceReadiness(AskOf, Statuses(s))
    [] s = "staff"   -> StaffReadiness(AskOf, Statuses(s))
    [] OTHER         -> Phase1Readiness(AskOf, Statuses(s))

\* The run returns; a reader's component surface is built from it.
ReturnSlice ==
  /\ stage = "writing" /\ toWrite = << >>
  /\ built' = IF ~ IsReader THEN << >> ELSE
       Append(built, [readiness |-> ReadinessOf(Current),
                      lacking |-> ReadinessOf(Current) = "ready" /\ ~ Whole])
  /\ todo' = Tail(todo)
  /\ stage' = IF ~ IsReader THEN "idle" ELSE IF todo' = << >> THEN "answering" ELSE "starting"
  /\ answer' = IF IsReader THEN answer ELSE [NoAnswer EXCEPT !.outcome = "answered"]
  /\ Forget
  /\ UNCHANGED <<caller, ask, toWrite, disk>>

ReadinessBuilt == [i \in DOMAIN built |-> built[i].readiness]

SurfaceReadiness ==
  CASE caller = "daily_overview"  -> DailyOverviewReadiness(ask, ReadinessBuilt)
    [] caller = "phase1_overview" -> Phase1OverviewReadiness(ReadinessBuilt)
    [] caller = "explanation"     -> "ready"
    [] OTHER                      -> built[1].readiness

SurfaceService ==
  CASE caller = "member_insight"  -> MemberService(ask, SurfaceReadiness)
    [] caller = "finance_summary" -> FinanceService(ask, SurfaceReadiness)
    [] caller = "staff_board"     -> StaffService(ask, SurfaceReadiness)
    [] caller = "daily_overview"  -> DailyOverviewService(ask, SurfaceReadiness)
    [] caller = "phase1_overview" -> Phase1OverviewService(ask, SurfaceReadiness)
    [] caller = "explanation"     -> ExplanationService(ask)
    [] OTHER                      -> Phase1Service(ask, SurfaceReadiness)

AnswerReader ==
  /\ stage = "answering"
  /\ answer' = [outcome |-> "answered", readiness |-> SurfaceReadiness,
                service |-> SurfaceService, lacking |-> \E i \in DOMAIN built : built[i].lacking]
  /\ stage' = "idle" /\ built' = << >>
  /\ UNCHANGED <<caller, ask, todo, work, toWrite, disk>>

\* The process dies: its files stay as they are, one of them perhaps truncated.
Die ==
  /\ stage # "idle"
  /\ Forget
  /\ stage' = "idle" /\ todo' = << >> /\ toWrite' = << >> /\ built' = << >>
  /\ answer' = NoAnswer
  /\ UNCHANGED <<caller, ask, disk>>

Next ==
  \/ Start \/ StartSlice \/ (\E e \in Endpoint : FetchPage(e)) \/ Raise \/ RecordEndpoint
  \/ Finalize \/ OpenFile \/ WriteFile \/ ReturnSlice \/ AnswerReader \/ Die

\* The process runs on as long as it lives: every step but Start and Die.
Progressing ==
  \/ StartSlice \/ (\E e \in Endpoint : FetchPage(e)) \/ Raise \/ RecordEndpoint
  \/ Finalize \/ OpenFile \/ WriteFile \/ ReturnSlice \/ AnswerReader

Spec == Init /\ [][Next]_vars

FairSpec == Spec /\ WF_vars(Progressing)

-----------------------------------------------------------------------------
(* What a reader is served holds everything the source has: no endpoint of *)
(* a component failed, and each was read to the last record or until the   *)
(* source itself said that there was nothing (more), whichever of its      *)
(* modelled behaviours the wire showed, and a surface that is not ready is *)
(* not served.                                                             *)
ServedIsComplete ==
  /\ answer.service = "served" => answer.readiness = "ready"
  /\ answer.readiness = "ready" => ~ answer.lacking

(* However the fetches of a slice overlap and whichever ends first, the    *)
(* endpoint runs are put down in registry order, each with the outcome of  *)
(* its own endpoint: a completed one with its records, a failed one with   *)
(* its error.                                                              *)
RecordedInOrder ==
  \A i \in DOMAIN recorded :
    LET r == recorded[i]
        f == fetch[r.endpoint]
    IN  /\ r.endpoint = Endpoints[Current][i]
        /\ r.status = f.status /\ r.count = f.count /\ r.pages = f.page
        /\ r.status = "failed" <=> r.error # "none"

\* what the latest states of a run are derived from: its truth and replay files
\* and, except in the generic slice, its canonical artefacts
Backing ==
  {"ingestion_runs", "endpoint_runs", "raw_pages", "replay"} \cup
  (IF caller \in {"generic_finance", "generic_staff"} THEN {} ELSE {"canonical"})

(* A latest state that can be read is backed by what its OWN run derived   *)
(* it from, wherever that run or another died, also inside a file, until a *)
(* later run begins to replace the files: and then ingestion-runs.json,    *)
(* which every run replaces first, is no longer that of the latest state.  *)
(* So who finds the run of a latest state there finds all that backs it.   *)
LatestStateIsBacked ==
  LET own == files["latest"] IN
  own # 0 =>
    IF begun = own THEN \A f \in Backing : files[f] = own
    ELSE files["ingestion_runs"] # own

(* Every run ends, with a result, an exception or the end of its process:  *)
(* no source that holds a fixed number of records keeps a page loop going. *)
SliceEnds == stage # "idle" ~> stage = "idle"
=============================================================================
