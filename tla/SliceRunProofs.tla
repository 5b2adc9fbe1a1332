---------------------------- MODULE SliceRunProofs ----------------------------
(***************************************************************************)
(* Proofs about SliceRun, for every registry, page size, number of workers *)
(* and size of the source: what is served is complete, endpoint runs are   *)
(* put down in order, and no latest state is without its truth.            *)
(***************************************************************************)
EXTENDS SliceRun, FiniteSetTheorems, SequenceTheorems, TLAPS

EndpointRun == [endpoint : Endpoint, status : EndpointStatus \cup {"none"},
                error : Taxonomy \cup {"none", "source_error", "source_schema_error"},
                count : Nat, pages : Nat]

ComponentSurface == [readiness : Readiness, lacking : BOOLEAN]

Stage == {"idle", "starting", "fetching", "writing", "rewriting", "answering"}

TypeOK ==
  /\ caller \in Surface \cup Slice
  /\ stage \in Stage
  /\ todo \in Seq(Slice)
  /\ content \in [Endpoint -> 0 .. MaxRows]
  /\ fetch \in [Endpoint -> Fetch]
  /\ recorded \in Seq(EndpointRun)
  /\ toWrite \in Seq(File)
  /\ files \in [File -> Nat] /\ begun \in Nat /\ runs \in Nat
  /\ built \in Seq(ComponentSurface)

\* The current slice is the head of what is still to run; a script runs one.
Busy ==
  /\ stage \in {"starting", "fetching", "writing", "rewriting"} =>
       todo # << >> /\ (caller \in Slice => todo = <<caller>>)
  /\ stage \in {"idle", "starting", "answering"} =>
       recorded = << >> /\ \A e \in Endpoint : fetch[e] = Unfetched

\* The first page is always asked for, a further one only for records that the
\* pages before have no room for.
Wanted(page, n) == page = 1 \/ AnotherPage(page - 1, n)

\* Where a page loop is: a paged endpoint has been read up to its page, and
\* one that ended well to the end, or to where the source ended.
UpToPage(n, page) == {r \in 1 .. n : r <= page * PageSize}

FetchSound(e, f, n) ==
  /\ f.seen \subseteq 1 .. n /\ Wanted(f.page, n)
  /\ f.at = "open" =>
       f.page # 0 /\ (Shape[e] = "page" => UpToPage(n, f.page - 1) \subseteq f.seen)
  /\ f.at = "ended" =>
       /\ f.status \in EndpointStatus
       /\ f.status = "failed" <=> f.error # "none"
       /\ f.status # "failed" => f.told \/ f.seen = 1 .. n

FetchesSound == \A e \in Endpoint : FetchSound(e, fetch[e], content[e])

\* Nothing is recorded before every fetch of the slice has ended.
RecordsSound ==
  /\ recorded # << >> =>
       /\ \A e \in SliceEndpoints(Current) : fetch[e].at = "ended"
       /\ Len(recorded) <= Len(Endpoints[Current])
  /\ RecordedInOrder

NothingLacks ==
  /\ \A i \in DOMAIN built : ~ built[i].lacking
  /\ answer.readiness = "ready" => ~ answer.lacking
  /\ answer.service = "served" => answer.readiness = "ready"

\* A run in the middle of its payload map has written the files before, and as
\* long as the latest states are not among them those on disk are of an older run.
Written(F) == Len(F) - Len(toWrite)

MapInv(F) ==
  /\ Written(F) \in Nat
  /\ \A k \in 1 .. Len(toWrite) : toWrite[k] = F[Written(F) + k]
  /\ \A k \in 1 .. Written(F) : files[F[k]] = runs
  /\ (\A k \in 1 .. Written(F) : F[k] # "latest") => files["latest"] < runs

WritesSound ==
  /\ begun <= runs /\ \A f \in File : files[f] <= begun
  /\ caller \in Surface => runs = 0
  /\ LatestStateIsBacked
  /\ stage \in {"starting", "fetching"} /\ caller \in Slice => begun < runs
  /\ toWrite # << >> =>
       stage \in {"writing", "rewriting"} /\ caller \in Slice /\ MapInv(FilesOf(caller))
  /\ stage = "rewriting" => toWrite # << >> /\ begun = runs

SliceInv == TypeOK /\ Busy /\ FetchesSound /\ RecordsSound /\ NothingLacks /\ WritesSound

-----------------------------------------------------------------------------
(***************************************************************************)
(* The wire and the verdicts.                                              *)
(***************************************************************************)
Surprises == {"transport_timeout_error", "transport_http_status_error",
              "transport_invalid_json_error"}

\* What a slice may rely on in a fetch result: records come from the source,
\* in the answer to what was asked, and no error comes with any.
Faithful(r, request, n) ==
  /\ r.error \in Surprises \cup {"none"}
  /\ r.envelope.data \in Payload /\ r.envelope.total \in Nat
  /\ r.envelope.rows \subseteq 1 .. n
  /\ r.envelope.rows # {} => r.error = "none" /\ r.envelope = Content(request, n)
  /\ r.envelope.nodata => r.envelope.rows = {}

LEMMA RequestType ==
  ASSUME NEW e \in Endpoint, NEW page \in Nat
  PROVE  /\ Request(e, page).endpoint = e
         /\ Shape[e] = "page" => Request(e, page).page = page
         /\ Shape[e] \in {"page", "list", "items"}
BY RegistryAssumption, TransportAssumption DEF Request

LEMMA Refusals ==
  ASSUME NEW envelope \in {Answer("null", {}, 0), NoData, NotFound, Refusal, EmptyRefusal}
  PROVE  /\ envelope.data \in Payload /\ envelope.rows = {} /\ envelope.total = 0
<1>1. /\ NoData.data = "null" /\ NoData.rows = {} /\ NoData.total = 0
      /\ NotFound.data = "page" /\ NotFound.rows = {} /\ NotFound.total = 0
      /\ NotFound.nodata = FALSE
      /\ Refusal.data = "page" /\ Refusal.rows = {} /\ Refusal.total = 0
      /\ Refusal.nodata = FALSE
      /\ EmptyRefusal.data = "page" /\ EmptyRefusal.rows = {} /\ EmptyRefusal.total = 0
  BY DEF NoData, NotFound, Refusal, EmptyRefusal, Answer
<1> QED
  BY <1>1 DEF Answer, Payload

LEMMA ExchangesAreFaithful ==
  ASSUME NEW e \in Endpoint, NEW page \in Nat, NEW n \in 0 .. MaxRows,
         NEW wire \in Exchanges(Request(e, page), n)
  PROVE  Faithful(Fetched(wire), Request(e, page), n)
<1> DEFINE request == Request(e, page)
<1>1. request.endpoint = e /\ Shape[e] \in {"page", "list", "items"}
  BY RequestType
<1>2. n \in Nat
  BY TransportAssumption
<1> HIDE DEF request
<1>3. CASE wire = Received(FixturePage(request, n))
  <2>1. Fetched(wire) = [error |-> "none", envelope |-> FixturePage(request, n)]
    BY <1>3 DEF Received, Fetched, LiveFetch
  <2>2. CASE Content(request, n).rows = {}
    <3>1. FixturePage(request, n) = Answer(Shape[e], {}, 0)
      BY <2>2, <1>1 DEF FixturePage, EmptyEnvelope
    <3> QED
      BY <3>1, <2>1, <1>1 DEF Faithful, Answer, Payload, request
  <2>3. CASE Content(request, n).rows # {}
    <3>1. FixturePage(request, n) = Content(request, n)
      BY <2>3 DEF FixturePage
    <3>2. CASE Shape[e] = "page"
      <4>1. Content(request, n) = Answer("page", RowsOfPage(n, request.page), n)
        BY <3>2, <1>1 DEF Content
      <4>2. RowsOfPage(n, request.page) \subseteq 1 .. n
        BY DEF RowsOfPage
      <4> QED
        BY <4>1, <4>2, <3>1, <2>1, <1>2 DEF Faithful, Answer, Payload, request
    <3>3. CASE Shape[e] # "page"
      <4>1. Content(request, n) = Answer(Shape[e], 1 .. n, 0)
        BY <3>3, <1>1 DEF Content
      <4> QED
        BY <4>1, <3>1, <2>1, <1>1 DEF Faithful, Answer, Payload, request
    <3> QED
      BY <3>2, <3>3
  <2> QED
    BY <2>2, <2>3
<1>4. CASE wire = Received(EmptyEnvelope(e))
  BY <1>4, <1>1 DEF Received, EmptyEnvelope, Answer, Fetched, LiveFetch, Faithful, Payload
<1>5. CASE wire \in {Received(Answer("null", {}, 0)), Received(NoData),
                    Received(NotFound), Received(Refusal), Received(EmptyRefusal)}
  <2>1. PICK envelope \in {Answer("null", {}, 0), NoData, NotFound, Refusal, EmptyRefusal} :
          wire = Received(envelope)
    BY <1>5
  <2>2. Fetched(wire) = [error |-> "none", envelope |-> envelope]
    BY <2>1 DEF Received, Fetched, LiveFetch
  <2> QED
    BY <2>1, <2>2, Refusals DEF Answer, Faithful, Payload
<1>6. CASE wire = [Received(SyntheticEnvelope) EXCEPT !.raised = "timeout"]
  <2>1. Fetched(wire) = Failure("transport_timeout_error")
    BY <1>6 DEF Received, Fetched, ExceptionResult, TaxonomyOf
  <2> QED
    BY <2>1 DEF Failure, SyntheticEnvelope, Answer, Faithful, Surprises, Payload
<1>7. CASE wire = [Received(NoData) EXCEPT !.http_error = TRUE]
  <2>1. Fetched(wire) = [error |-> "transport_http_status_error", envelope |-> NoData]
    BY <1>7 DEF Received, Fetched, LiveFetch, BestEffortEnvelope
  <2> QED
    BY <2>1, Refusals DEF Faithful, Surprises, Payload
<1>8. CASE wire = [Received(SyntheticEnvelope) EXCEPT !.body = "garbled"]
  <2>1. Fetched(wire) = Failure("transport_invalid_json_error")
    BY <1>8 DEF Received, Fetched, LiveFetch
  <2> QED
    BY <2>1 DEF Failure, SyntheticEnvelope, Answer, Faithful, Surprises, Payload
<1>9. wire \in Exchanges(request, n)
  BY DEF request
<1> QED
  BY <1>1, <1>3, <1>4, <1>5, <1>6, <1>7, <1>8, <1>9 DEF Exchanges, request

LEMMA RowsCounted ==
  ASSUME NEW n \in 0 .. MaxRows, NEW rows \in SUBSET (1 .. n)
  PROVE  /\ IsFiniteSet(rows) /\ Cardinality(rows) \in Nat
         /\ Cardinality(rows) = 0 <=> rows = {}
<1>1. IsFiniteSet(1 .. n)
  BY FS_Interval, TransportAssumption
<1>2. IsFiniteSet(rows)
  BY <1>1, FS_Subset
<1> QED
  BY <1>2, FS_CardinalityType, FS_EmptySet

\* What a verdict may say: the loop goes on only after records, for those that
\* the source has beyond this page, and ends well only when the source said so, or after the last page of a paged endpoint.
Fair(v, e, page, r, n) ==
  /\ \/ /\ v.at = "open" /\ v.status = "none" /\ v.error = "none" /\ r.envelope.rows # {}
        /\ AnotherPage(page, n)
     \/ v.at = "ended" /\ v.status \in EndpointStatus
  /\ v.error \in Surprises \cup {"none", "source_error", "source_schema_error"}
  /\ v.status = "failed" <=> v.error # "none"
  /\ v.at = "ended" /\ v.status # "failed" =>
       \/ Told(r)
       \/ r.envelope.rows # {} /\ (Shape[e] = "page" => ~ AnotherPage(page, n))

\* what a slice may rely on, and what its records say if there are any
LEMMA AnswerWithRecords ==
  ASSUME NEW e \in Endpoint, NEW page \in Nat \ {0}, NEW n \in 0 .. MaxRows, NEW r,
         Faithful(r, Request(e, page), n), r.envelope.rows # {}
  PROVE  /\ r.error = "none" /\ r.envelope.code = 200 /\ ~ r.envelope.nodata
         /\ r.envelope.data = Shape[e] /\ Shape[e] \in {"page", "list", "items"}
         /\ Shape[e] = "page" =>
              r.envelope.total = n /\ r.envelope.rows = RowsOfPage(n, page)
         /\ Shape[e] # "page" => r.envelope.rows = 1 .. n /\ r.envelope.total = 0
<1>1. r.error = "none" /\ r.envelope = Content(Request(e, page), n)
  BY DEF Faithful
<1>2. Request(e, page).endpoint = e /\ (Shape[e] = "page" => Request(e, page).page = page)
  BY RequestType
<1> QED
  BY <1>1, <1>2, RequestType DEF Content, Answer

LEMMA MemberIsFair ==
  ASSUME NEW e \in SliceEndpoints("member"), NEW page \in Nat \ {0}, NEW n \in 0 .. MaxRows,
         NEW acc \in Nat, NEW r, Faithful(r, Request(e, page), n), ~ MemberRaises(r)
  PROVE  Fair(MemberVerdict(e, page, acc, r), e, page, r, n)
<1>1. e \in Endpoint /\ Shape[e] # "items"
  BY RegistryAssumption, SliceAssumption DEF SliceEndpoints, Slice
<1>2. Cardinality(r.envelope.rows) = 0 <=> r.envelope.rows = {}
  BY RowsCounted DEF Faithful
<1>3. CASE r.envelope.rows = {}
  <2>1. MemberCount(r) = 0
    BY <1>2, <1>3 DEF MemberCount
  <2> QED
    BY <2>1, <1>3 DEF MemberVerdict, Fair, Faithful, Failed, Emptied, Ended, Told, EndpointStatus, Surprises
<1>4. CASE r.envelope.rows # {}
  <2>1. /\ r.error = "none" /\ r.envelope.code = 200 /\ r.envelope.data = "page"
        /\ r.envelope.total = n
    BY <1>1, <1>4, AnswerWithRecords DEF MemberRaises, IsDict
  <2>2. MemberCount(r) # 0
    BY <1>2, <1>4, <2>1 DEF MemberCount
  <2> QED
    BY <2>1, <2>2, <1>4 DEF MemberVerdict, Fair, More, Ended, EndpointStatus
<1> QED
  BY <1>3, <1>4

\* no total of one or none leads to another page
LEMMA OnePageIsEnough ==
  ASSUME NEW page \in Nat \ {0}
  PROVE  ~ AnotherPage(page, 1) /\ ~ AnotherPage(page, 0)
<1>1. page * PageSize \in Nat /\ page * PageSize >= 1
  BY TransportAssumption
<1> QED
  BY <1>1 DEF AnotherPage

LEMMA GenericIsFair ==
  ASSUME NEW e \in Endpoint, NEW page \in Nat \ {0}, NEW n \in 0 .. MaxRows,
         NEW acc \in Nat, NEW r, Faithful(r, Request(e, page), n)
  PROVE  Fair(GenericVerdict(e, page, acc, r), e, page, r, n)
<1>1. Cardinality(r.envelope.rows) = 0 <=> r.envelope.rows = {}
  BY RowsCounted DEF Faithful
<1>2. CASE r.envelope.rows = {}
  <2>1. GenericCount(r) = IF r.envelope.data = "items" THEN 1 ELSE 0
    BY <1>1, <1>2 DEF GenericCount, Faithful, Payload
  <2>2. ~ AnotherPage(page, 1)
    BY OnePageIsEnough
  <2> QED
    BY <2>1, <2>2, <1>2
    DEF GenericVerdict, Fair, Faithful, Failed, Emptied, Ended, Told, EndpointStatus, Surprises
<1>3. CASE r.envelope.rows # {}
  <2>1. /\ r.error = "none" /\ r.envelope.code = 200
        /\ r.envelope.data = Shape[e] /\ Shape[e] \in {"page", "list", "items"}
        /\ Shape[e] = "page" => r.envelope.total = n
    BY <1>3, AnswerWithRecords
  <2>2. GenericCount(r) # 0
    BY <1>1, <1>3, <2>1 DEF GenericCount
  <2>3. AnotherPage(page, IF r.envelope.data = "page" THEN r.envelope.total ELSE GenericCount(r))
          => AnotherPage(page, n)
    <3>1. CASE Shape[e] = "page"
      BY <2>1, <3>1
    <3>2. CASE Shape[e] = "list"
      <4>1. r.envelope.rows = 1 .. n
        BY <1>3, <3>2, AnswerWithRecords
      <4>2. GenericCount(r) = n
        BY <2>1, <3>2, <4>1, FS_Interval DEF GenericCount
      <4> QED
        BY <2>1, <3>2, <4>2
    <3>3. CASE Shape[e] = "items"
      <4>1. GenericCount(r) = 1 /\ r.envelope.data # "page"
        BY <2>1, <3>3 DEF GenericCount
      <4> QED
        BY <4>1, OnePageIsEnough
    <3> QED
      BY <2>1, <3>1, <3>2, <3>3
  <2> QED
    BY <2>1, <2>2, <2>3, <1>3 DEF GenericVerdict, Fair, More, Ended, EndpointStatus
<1> QED
  BY <1>2, <1>3

LEMMA FinanceIsFair ==
  ASSUME NEW e \in Endpoint, NEW page \in Nat \ {0}, NEW n \in 0 .. MaxRows,
         NEW acc \in Nat, NEW r, Faithful(r, Request(e, page), n)
  PROVE  Fair(FinanceVerdict(e, page, acc, r), e, page, r, n)
<1>1. Cardinality(r.envelope.rows) = 0 <=> r.envelope.rows = {}
  BY RowsCounted DEF Faithful
<1>2. CASE r.envelope.rows = {}
  <2>1. FinanceCount(e, r) = 0
    BY <1>1, <1>2 DEF FinanceCount
  <2> QED
    BY <2>1, <1>2
    DEF FinanceVerdict, Fair, Faithful, Failed, Emptied, Ended, Told, SaysNoData, EndpointStatus, Surprises
<1>3. CASE r.envelope.rows # {}
  <2>1. /\ r.error = "none" /\ r.envelope.code = 200 /\ ~ r.envelope.nodata /\ ShapeFits(e, r)
        /\ Shape[e] = "page" => r.envelope.total = n
    BY <1>3, AnswerWithRecords DEF ShapeFits
  <2>3. AnotherPage(page, r.envelope.total) => AnotherPage(page, n)
    BY <1>3, <2>1, AnswerWithRecords, OnePageIsEnough
  <2>2. FinanceCount(e, r) # 0 /\ ~ SaysNoData(r.envelope)
    BY <1>1, <1>3, <2>1 DEF FinanceCount, Succeeded, SaysNoData
  <2> QED
    BY <2>1, <2>2, <2>3, <1>3, RegistryAssumption DEF FinanceVerdict, Fair, More, Ended, EndpointStatus
<1> QED
  BY <1>2, <1>3

LEMMA StaffIsFair ==
  ASSUME NEW e \in Endpoint, NEW page \in Nat \ {0}, NEW n \in 0 .. MaxRows,
         NEW acc \in Nat, NEW r, Faithful(r, Request(e, page), n)
  PROVE  Fair(StaffVerdict(e, page, acc, r), e, page, r, n)
<1>1. Cardinality(r.envelope.rows) = 0 <=> r.envelope.rows = {}
  BY RowsCounted DEF Faithful
<1>2. CASE r.envelope.rows = {}
  <2>1. StaffCount(e, r) = 0
    BY <1>1, <1>2 DEF StaffCount
  <2> QED
    BY <2>1, <1>2
    DEF StaffVerdict, StaffSourceFailure, Fair, Faithful, Failed, Emptied, Ended, Told, EndpointStatus, Surprises
<1>3. CASE r.envelope.rows # {}
  <2>1. /\ r.error = "none" /\ r.envelope.code = 200 /\ ~ r.envelope.nodata /\ ShapeFits(e, r)
        /\ Shape[e] = "page" => r.envelope.total = n
    BY <1>3, AnswerWithRecords DEF ShapeFits
  <2>3. AnotherPage(page, r.envelope.total) => AnotherPage(page, n)
    BY <1>3, <2>1, AnswerWithRecords, OnePageIsEnough
  <2>2. StaffCount(e, r) # 0
    BY <1>1, <1>3, <2>1 DEF StaffCount, Succeeded
  <2> QED
    BY <2>1, <2>2, <2>3, <1>3, RegistryAssumption DEF StaffVerdict, Fair, More, Ended, EndpointStatus
<1> QED
  BY <1>2, <1>3

LEMMA CommissionIsFair ==
  ASSUME NEW e \in Endpoint, NEW page \in Nat \ {0}, NEW n \in 0 .. MaxRows,
         NEW r, Faithful(r, Request(e, page), n)
  PROVE  Fair(CommissionVerdict(e, r), e, page, r, n)
<1>1. CASE r.envelope.rows = {}
  BY <1>1 DEF CommissionVerdict, Fair, Faithful, Failed, Ended, Told, EndpointStatus, Surprises
<1>2. CASE r.envelope.rows # {}
  BY <1>2, AnswerWithRecords
  DEF CommissionVerdict, Fair, Failed, Ended, EndpointStatus, Surprises
<1> QED
  BY <1>1, <1>2

LEMMA VerdictsAreFair ==
  ASSUME NEW s \in Slice, NEW e \in SliceEndpoints(s), NEW page \in Nat \ {0},
         NEW n \in 0 .. MaxRows, NEW acc \in Nat, NEW r, Faithful(r, Request(e, page), n),
         ~ Raises(s, r)
  PROVE  Fair(Verdict(s, e, page, acc, r), e, page, r, n)
<1>1. e \in Endpoint
  BY SliceAssumption DEF SliceEndpoints
<1> QED
  BY <1>1, MemberIsFair, GenericIsFair, FinanceIsFair, StaffIsFair, CommissionIsFair
  DEF Verdict, Raises, Slice

LEMMA CountIsNatural ==
  ASSUME NEW s \in Slice, NEW e, NEW n \in 0 .. MaxRows, NEW r, NEW request,
         Faithful(r, request, n)
  PROVE  Count(s, e, r) \in Nat
<1>1. Cardinality(r.envelope.rows) \in Nat
  BY RowsCounted DEF Faithful
<1>2. r.envelope.data \in Payload
  BY DEF Faithful
<1> QED
  BY <1>1, <1>2
  DEF Count, MemberCount, FinanceCount, StaffCount, CommissionCount, GenericCount, Payload, Slice

-----------------------------------------------------------------------------
(***************************************************************************)
(* One turn of a page loop.                                                *)
(***************************************************************************)
LEMMA PageByPage ==
  ASSUME NEW page \in Nat \ {0}, NEW n \in 0 .. MaxRows
  PROVE  /\ UpToPage(n, 0) = {}
         /\ UpToPage(n, page) \subseteq UpToPage(n, page - 1) \cup RowsOfPage(n, page)
         /\ ~ AnotherPage(page, n) => 1 .. n \subseteq UpToPage(n, page)
<1>1. /\ page * PageSize \in Nat /\ (page - 1) * PageSize \in Nat /\ 0 * PageSize = 0
      /\ n \in Nat
  BY TransportAssumption
<1>2. UpToPage(n, page) \subseteq UpToPage(n, page - 1) \cup RowsOfPage(n, page)
  BY <1>1 DEF UpToPage, RowsOfPage
<1>3. ~ AnotherPage(page, n) => 1 .. n \subseteq UpToPage(n, page)
  BY <1>1 DEF UpToPage, AnotherPage
<1>4. UpToPage(n, 0) = {}
  BY <1>1 DEF UpToPage
<1> QED
  BY <1>2, <1>3, <1>4

\* the fetch of e after a page that brought r, as in FetchPage
AfterPage(s, e, f, r) ==
  LET acc == f.count + Count(s, e, r)
      v   == Verdict(s, e, f.page, acc, r)
  IN  IF Raises(s, r) THEN [f EXCEPT !.at = "raised"]
      ELSE [at |-> v.at, status |-> v.status, error |-> v.error, count |-> acc,
            page |-> IF v.at = "open" THEN f.page + 1 ELSE f.page,
            seen |-> f.seen \cup r.envelope.rows, told |-> Told(r)]

LEMMA PageKeepsSound ==
  ASSUME NEW s \in Slice, NEW e \in SliceEndpoints(s), NEW n \in 0 .. MaxRows, NEW f \in Fetch,
         FetchSound(e, f, n), f.at = "open", NEW wire \in Exchanges(Request(e, f.page), n)
  PROVE  LET g == AfterPage(s, e, f, Fetched(wire)) IN g \in Fetch /\ FetchSound(e, g, n)
<1> DEFINE r   == Fetched(wire)
           acc == f.count + Count(s, e, r)
           v   == Verdict(s, e, f.page, acc, r)
           g   == AfterPage(s, e, f, r)
<1>1. e \in Endpoint
  BY SliceAssumption DEF SliceEndpoints
<1>2. f.page \in Nat \ {0} /\ f.count \in Nat /\ f.seen \in SUBSET Row /\ n \in Nat
  BY TransportAssumption DEF Fetch, FetchSound
<1>3. Faithful(r, Request(e, f.page), n)
  BY <1>1, <1>2, ExchangesAreFaithful
<1>4. acc \in Nat
  BY <1>2, <1>3, CountIsNatural
<1>5. r.envelope.rows \subseteq 1 .. n /\ 1 .. n \subseteq Row
  BY <1>3, TransportAssumption DEF Faithful, Row
<1> HIDE DEF r
<1>6. CASE Raises(s, r)
  <2>1. g = [f EXCEPT !.at = "raised"]
    BY <1>6 DEF AfterPage
  <2>2. g \in Fetch
    BY <2>1 DEF Fetch
  <2> QED
    BY <2>1, <2>2 DEF Fetch, FetchSound, r
<1>7. CASE ~ Raises(s, r)
  <2>1. Fair(v, e, f.page, r, n)
    BY <1>2, <1>3, <1>4, <1>7, VerdictsAreFair
  <2> HIDE DEF acc, v
  <2>2. g = [at |-> v.at, status |-> v.status, error |-> v.error, count |-> acc,
             page |-> IF v.at = "open" THEN f.page + 1 ELSE f.page,
             seen |-> f.seen \cup r.envelope.rows, told |-> Told(r)]
    BY <1>7 DEF AfterPage, acc, v
  <2>3. Told(r) \in BOOLEAN
    BY DEF Told
  <2>4. g \in Fetch
    BY <1>2, <1>4, <1>5, <2>1, <2>2, <2>3 DEF Fetch, Fair, EndpointStatus, Surprises, Taxonomy
  <2>5. g.seen \subseteq 1 .. n /\ Wanted(g.page, n)
    <3>1. CASE v.at = "open"
      <4>1. g.page = f.page + 1 /\ g.page - 1 = f.page
        BY <1>2, <2>2, <3>1
      <4>2. AnotherPage(f.page, n)
        BY <2>1, <3>1 DEF Fair
      <4> QED
        BY <1>5, <2>2, <4>1, <4>2 DEF FetchSound, Wanted
    <3>2. CASE v.at # "open"
      BY <1>5, <2>2, <3>2 DEF FetchSound
    <3> QED
      BY <3>1, <3>2
  <2>6. r.envelope.rows # {} =>
          /\ Shape[e] = "page" => UpToPage(n, f.page) \subseteq g.seen
          /\ Shape[e] # "page" => g.seen = 1 .. n
    <3>1. CASE r.envelope.rows # {}
      <4>1. /\ Shape[e] = "page" => r.envelope.rows = RowsOfPage(n, f.page)
            /\ Shape[e] # "page" => r.envelope.rows = 1 .. n
        BY <1>1, <1>2, <1>3, <3>1, AnswerWithRecords
      <4>2. Shape[e] = "page" => UpToPage(n, f.page - 1) \subseteq f.seen
        BY DEF FetchSound
      <4> QED
        BY <1>2, <2>2, <2>5, <4>1, <4>2, PageByPage
    <3> QED
      BY <3>1
  <2>7. g.at = "open" =>
          g.page # 0 /\ (Shape[e] = "page" => UpToPage(n, g.page - 1) \subseteq g.seen)
    <3>1. CASE v.at = "open"
      <4>1. g.page = f.page + 1 /\ g.page - 1 = f.page /\ g.page # 0
        BY <1>2, <2>2, <3>1
      <4> QED
        BY <2>1, <2>6, <3>1, <4>1 DEF Fair
    <3> QED
      BY <2>2, <3>1
  <2>8. g.at = "ended" =>
          /\ g.status \in EndpointStatus
          /\ g.status = "failed" <=> g.error # "none"
          /\ g.status # "failed" => g.told \/ g.seen = 1 .. n
    <3>1. ASSUME g.at = "ended", g.status # "failed", ~ Told(r)
          PROVE  g.seen = 1 .. n
      <4>1. r.envelope.rows # {} /\ (Shape[e] = "page" => ~ AnotherPage(f.page, n))
        BY <2>1, <2>2, <3>1 DEF Fair
      <4>2. Shape[e] = "page" => 1 .. n \subseteq UpToPage(n, f.page)
        BY <1>2, <4>1, PageByPage
      <4> QED
        BY <2>5, <2>6, <4>1, <4>2
    <3>2. g.at = v.at /\ g.status = v.status /\ g.error = v.error /\ g.told = Told(r)
      BY <2>2
    <3> QED
      BY <2>1, <3>1, <3>2 DEF Fair
  <2> QED
    BY <2>4, <2>5, <2>7, <2>8 DEF FetchSound, r
<1> QED
  BY <1>6, <1>7

-----------------------------------------------------------------------------
(***************************************************************************)
(* The payload maps.                                                       *)
(***************************************************************************)
TruthFile == {"ingestion_runs", "endpoint_runs", "raw_pages", "replay"}

Generic == {"generic_finance", "generic_staff"}

LEMMA TruthComesFirst ==
  ASSUME NEW rest \in Seq(File)
  PROVE  /\ Truth \o rest \in Seq(File) /\ Len(Truth \o rest) = 4 + Len(rest)
         /\ \A i \in 1 .. Len(Truth \o rest) :
              (Truth \o rest)[i] = IF i <= 4 THEN Truth[i] ELSE rest[i - 4]
<1>1. Truth \in Seq(File) /\ Len(Truth) = 4
  BY DEF Truth, File
<1>2. Len(rest) \in Nat
  BY LenProperties
<1>3. /\ Truth \o rest \in Seq(File) /\ Len(Truth \o rest) = Len(Truth) + Len(rest)
      /\ \A i \in 1 .. Len(Truth) + Len(rest) :
           (Truth \o rest)[i] = IF i <= Len(Truth) THEN Truth[i] ELSE rest[i - Len(Truth)]
  BY <1>1, ConcatProperties, Zenon
<1> QED
  BY <1>1, <1>2, <1>3

LEMMA PayloadMap ==
  ASSUME NEW s \in Slice
  PROVE  \E rest \in Seq(File) :
           /\ FilesOf(s) = Truth \o rest
           /\ s \notin Generic => Len(rest) >= 2 /\ rest[1] = "canonical" /\ rest[2] = "latest"
           /\ \A i \in 1 .. Len(rest) : rest[i] = "latest" => i = IF s \in Generic THEN 1 ELSE 2
           /\ \A i, j \in 1 .. Len(rest) : rest[i] = rest[j] => i = j
           /\ \A i \in 1 .. Len(rest) : rest[i] \notin TruthFile
<1>1. CASE s \in Generic
  <2> DEFINE rest == <<"latest", "state", "canonical">>
  <2>1. FilesOf(s) = Truth \o rest
    BY <1>1 DEF FilesOf, GenericFiles, Generic
  <2>2. /\ rest \in Seq(File) /\ Len(rest) = 3 /\ rest[1] = "latest" /\ rest[2] = "state"
        /\ \A i \in 3 .. 3 : rest[i] # "latest"
    BY DEF File
  <2> HIDE DEF rest
  <2>3. \A i \in 1 .. Len(rest) : rest[i] = "latest" => i = 1
    BY <2>2
  <2>4. s \in Generic
    BY <1>1
  <2>5. rest \in Seq(File)
    BY <2>2
  <2>6. /\ \A i, j \in 1 .. Len(rest) : rest[i] = rest[j] => i = j
        /\ \A i \in 1 .. Len(rest) : rest[i] \notin TruthFile
    <3>1. Len(rest) = 3 /\ rest[1] = "latest" /\ rest[2] = "state" /\ rest[3] = "canonical"
      BY DEF rest
    <3>2. \A i \in 1 .. 3 : i = 1 \/ i = 2 \/ i = 3
      OBVIOUS
    <3> HIDE DEF rest
    <3> QED
      BY <3>1, <3>2 DEF TruthFile
  <2> WITNESS rest \in Seq(File)
  <2> QED
    BY <2>1, <2>2, <2>3, <2>4, <2>6
<1>2. CASE s = "commission"
  <2> DEFINE rest == <<"canonical", "latest", "state", "quality">>
  <2>1. FilesOf(s) = Truth \o rest
    BY <1>2 DEF FilesOf, CommissionFiles
  <2>2. /\ rest \in Seq(File) /\ Len(rest) = 4 /\ rest[1] = "canonical" /\ rest[2] = "latest"
        /\ \A i \in 3 .. 4 : rest[i] # "latest"
    BY DEF File
  <2> HIDE DEF rest
  <2>3. \A i \in 1 .. Len(rest) : rest[i] = "latest" => i = 2
    BY <2>2
  <2>4. s \notin Generic
    BY <1>2 DEF Generic
  <2>5. rest \in Seq(File)
    BY <2>2
  <2>6. /\ \A i, j \in 1 .. Len(rest) : rest[i] = rest[j] => i = j
        /\ \A i \in 1 .. Len(rest) : rest[i] \notin TruthFile
    <3>1. Len(rest) = 4 /\ rest[1] = "canonical" /\ rest[2] = "latest" /\ rest[3] = "state" /\ rest[4] = "quality"
      BY DEF rest
    <3>2. \A i \in 1 .. 4 : i = 1 \/ i = 2 \/ i = 3 \/ i = 4
      OBVIOUS
    <3> HIDE DEF rest
    <3> QED
      BY <3>1, <3>2 DEF TruthFile
  <2> WITNESS rest \in Seq(File)
  <2> QED
    BY <2>1, <2>2, <2>3, <2>4, <2>6
<1>3. CASE s \in {"member", "finance", "staff"}
  <2> DEFINE rest == <<"canonical", "latest", "state">>
  <2>1. FilesOf(s) = Truth \o rest
    BY <1>3 DEF FilesOf, MemberFiles, FinanceFiles, StaffFiles
  <2>2. /\ rest \in Seq(File) /\ Len(rest) = 3 /\ rest[1] = "canonical" /\ rest[2] = "latest"
        /\ \A i \in 3 .. 3 : rest[i] # "latest"
    BY DEF File
  <2> HIDE DEF rest
  <2>3. \A i \in 1 .. Len(rest) : rest[i] = "latest" => i = 2
    BY <2>2
  <2>4. s \notin Generic
    BY <1>3 DEF Generic
  <2>5. rest \in Seq(File)
    BY <2>2
  <2>6. /\ \A i, j \in 1 .. Len(rest) : rest[i] = rest[j] => i = j
        /\ \A i \in 1 .. Len(rest) : rest[i] \notin TruthFile
    <3>1. Len(rest) = 3 /\ rest[1] = "canonical" /\ rest[2] = "latest" /\ rest[3] = "state"
      BY DEF rest
    <3>2. \A i \in 1 .. 3 : i = 1 \/ i = 2 \/ i = 3
      OBVIOUS
    <3> HIDE DEF rest
    <3> QED
      BY <3>1, <3>2 DEF TruthFile
  <2> WITNESS rest \in Seq(File)
  <2> QED
    BY <2>1, <2>2, <2>3, <2>4, <2>6
<1> QED
  BY <1>1, <1>2, <1>3 DEF Slice, Generic

LEMMA LatestComesLate ==
  ASSUME NEW s \in Slice, NEW i \in 1 .. Len(FilesOf(s)), FilesOf(s)[i] = "latest"
  PROVE  /\ \A f \in TruthFile : \E j \in 1 .. i - 1 : FilesOf(s)[j] = f
         /\ s \notin Generic => \E j \in 1 .. i - 1 : FilesOf(s)[j] = "canonical"
<1>1. PICK rest \in Seq(File) :
        /\ FilesOf(s) = Truth \o rest
        /\ s \notin Generic => Len(rest) >= 2 /\ rest[1] = "canonical" /\ rest[2] = "latest"
        /\ \A k \in 1 .. Len(rest) : rest[k] = "latest" => k = IF s \in Generic THEN 1 ELSE 2
  BY PayloadMap
<1> DEFINE F == FilesOf(s)
<1>2. /\ Len(F) = 4 + Len(rest) /\ Len(rest) \in Nat
      /\ \A k \in 1 .. Len(F) : F[k] = IF k <= 4 THEN Truth[k] ELSE rest[k - 4]
  BY <1>1, TruthComesFirst, LenProperties
<1>3. /\ Truth[1] = "ingestion_runs" /\ Truth[2] = "endpoint_runs"
      /\ Truth[3] = "raw_pages" /\ Truth[4] = "replay"
  BY DEF Truth
<1> HIDE DEF F
<1>4. i \in Nat /\ i <= Len(F) /\ i >= 1 /\ F[i] = "latest"
  BY <1>2 DEF F
<1>5. i > 4
  <2>1. i \in {1, 2, 3, 4} \/ i > 4
    BY <1>4
  <2> QED
    BY <1>2, <1>3, <1>4, <2>1
<1>6. rest[i - 4] = "latest" /\ i - 4 \in 1 .. Len(rest)
  BY <1>2, <1>4, <1>5
<1>7. \A k \in 1 .. 4 : k \in 1 .. Len(F) /\ k \in 1 .. i - 1 /\ F[k] = Truth[k]
  BY <1>2, <1>4, <1>5
<1>8. ASSUME s \notin Generic
      PROVE  5 \in 1 .. i - 1 /\ F[5] = "canonical"
  BY <1>1, <1>2, <1>4, <1>6, <1>8
<1>9. ASSUME NEW f \in TruthFile
      PROVE  \E j \in 1 .. i - 1 : F[j] = f
  <2>1. \E k \in 1 .. 4 : Truth[k] = f
    BY <1>3 DEF TruthFile
  <2> QED
    BY <1>7, <2>1
<1> QED
  BY <1>8, <1>9 DEF F

\* the run truth comes first, and no file is written twice
LEMMA EachFileOnce ==
  ASSUME NEW s \in Slice
  PROVE  /\ FilesOf(s) \in Seq(File) /\ Len(FilesOf(s)) \in Nat /\ FilesOf(s)[1] = "ingestion_runs"
         /\ \A i, j \in 1 .. Len(FilesOf(s)) : FilesOf(s)[i] = FilesOf(s)[j] => i = j
<1>1. PICK rest \in Seq(File) :
        /\ FilesOf(s) = Truth \o rest
        /\ \A i, j \in 1 .. Len(rest) : rest[i] = rest[j] => i = j
        /\ \A i \in 1 .. Len(rest) : rest[i] \notin TruthFile
  BY PayloadMap
<1> DEFINE F == FilesOf(s)
<1>2. /\ F \in Seq(File) /\ Len(F) = 4 + Len(rest) /\ Len(rest) \in Nat
      /\ \A k \in 1 .. Len(F) : F[k] = IF k <= 4 THEN Truth[k] ELSE rest[k - 4]
  BY <1>1, TruthComesFirst, LenProperties
<1>3. /\ Truth[1] = "ingestion_runs" /\ Truth[2] = "endpoint_runs"
      /\ Truth[3] = "raw_pages" /\ Truth[4] = "replay"
  BY DEF Truth
<1> HIDE DEF F
<1>4. \A k \in 1 .. 4 : k = 1 \/ k = 2 \/ k = 3 \/ k = 4
  OBVIOUS
<1>5. \A k \in 1 .. 4 : F[k] = Truth[k] /\ Truth[k] \in TruthFile
  BY <1>2, <1>3, <1>4 DEF TruthFile
<1>6. \A i, j \in 1 .. 4 : Truth[i] = Truth[j] => i = j
  BY <1>3, <1>4
<1>7. \A k \in 1 .. Len(F) :
        k \notin 1 .. 4 => k - 4 \in 1 .. Len(rest) /\ F[k] = rest[k - 4] /\ F[k] \notin TruthFile
  BY <1>1, <1>2
<1>8. ASSUME NEW i \in 1 .. Len(F), NEW j \in 1 .. Len(F), F[i] = F[j]
      PROVE  i = j
  <2>1. CASE i \in 1 .. 4 /\ j \in 1 .. 4
    BY <1>5, <1>6, <1>8, <2>1
  <2>2. CASE i \notin 1 .. 4 /\ j \notin 1 .. 4
    <3>1. i - 4 = j - 4
      BY <1>1, <1>7, <1>8, <2>2
    <3> QED
      BY <1>2, <3>1
  <2> QED
    BY <1>5, <1>7, <1>8, <2>1, <2>2
<1> QED
  BY <1>2, <1>3, <1>5, <1>8 DEF F

\* what a latest state is derived from comes before it
LEMMA BackingComesFirst ==
  ASSUME caller \in Slice, NEW i \in 1 .. Len(FilesOf(caller)), FilesOf(caller)[i] = "latest",
         NEW f \in Backing
  PROVE  \E j \in 1 .. i - 1 : FilesOf(caller)[j] = f
<1>1. f \in TruthFile \/ (caller \notin Generic /\ f = "canonical")
  BY DEF Backing, TruthFile, Generic
<1> QED
  BY <1>1, LatestComesLate

-----------------------------------------------------------------------------
(***************************************************************************)
(* Facts the steps share.                                                  *)
(***************************************************************************)
LEMMA SlicesAndSurfaces ==
  /\ \A s \in Slice : /\ Endpoints[s] \in Seq(Endpoint) /\ Len(Endpoints[s]) \in Nat \ {0}
                      /\ SliceEndpoints(s) \subseteq Endpoint
  /\ \A c \in Surface : c \notin Slice /\ Components[c] \in Seq(Slice)
<1>1. \A s \in Slice : Endpoints[s] \in Seq(Endpoint) /\ Endpoints[s] # << >>
  BY SliceAssumption
<1>2. \A s \in Slice : Len(Endpoints[s]) \in Nat \ {0}
  BY <1>1, EmptySeq
<1>3. \A s \in Slice : SliceEndpoints(s) \subseteq Endpoint
  BY <1>1 DEF SliceEndpoints
<1>4. \A c \in Surface : c \notin Slice /\ Components[c] \in Seq(Slice)
  <2>1. Surface = {"member_insight", "finance_summary", "staff_board", "daily_overview",
                   "phase1_finance", "phase1_staff", "phase1_overview", "explanation"}
    BY DEF Surface, Components
  <2>2. /\ Components["member_insight"] = <<"member">>
        /\ Components["finance_summary"] = <<"finance">>
        /\ Components["staff_board"] = <<"staff">>
        /\ Components["daily_overview"] = <<"member", "staff", "finance">>
        /\ Components["phase1_finance"] = <<"generic_finance">>
        /\ Components["phase1_staff"] = <<"generic_staff">>
        /\ Components["phase1_overview"] = <<"member", "generic_finance", "generic_staff">>
        /\ Components["explanation"] = << >>
    BY DEF Components
  <2>3. \A c \in Surface : c \notin Slice
    BY <2>1 DEF Slice
  <2>4. /\ <<"member">> \in Seq(Slice) /\ <<"finance">> \in Seq(Slice) /\ <<"staff">> \in Seq(Slice)
        /\ <<"member", "staff", "finance">> \in Seq(Slice)
        /\ <<"generic_finance">> \in Seq(Slice) /\ <<"generic_staff">> \in Seq(Slice)
        /\ <<"member", "generic_finance", "generic_staff">> \in Seq(Slice)
        /\ << >> \in Seq(Slice)
    BY DEF Slice
  <2>5. \A c \in Surface : Components[c] \in Seq(Slice)
    BY <2>1, <2>2, <2>4
  <2> QED
    BY <2>3, <2>5
<1> QED
  BY <1>1, <1>2, <1>3, <1>4

LEMMA CurrentIsASlice ==
  ASSUME TypeOK, todo # << >>
  PROVE  Current \in Slice /\ Tail(todo) \in Seq(Slice)
BY HeadTailProperties DEF TypeOK, Current

LEMMA UnfetchedIsSound ==
  /\ Unfetched \in Fetch
  /\ \A e \in Endpoint, n \in 0 .. MaxRows : FetchSound(e, Unfetched, n)
<1>1. Unfetched \in Fetch
  BY DEF Unfetched, Fetch
<1>2. ASSUME NEW n \in 0 .. MaxRows
      PROVE  UpToPage(n, 1 - 1) = {}
  <2>1. 1 \in Nat \ {0} /\ 1 - 1 = 0
    OBVIOUS
  <2> QED
    BY <2>1, PageByPage
<1> QED
  BY <1>1, <1>2 DEF FetchSound, Unfetched, Wanted

LEMMA ForgetIsSound ==
  ASSUME Forget
  PROVE  /\ content' \in [Endpoint -> 0 .. MaxRows] /\ fetch' \in [Endpoint -> Fetch]
         /\ recorded' \in Seq(EndpointRun)
         /\ recorded' = << >> /\ \A e \in Endpoint : fetch'[e] = Unfetched
         /\ FetchesSound'
         /\ RecordsSound'
<1>1. /\ content' = [e \in Endpoint |-> 0] /\ fetch' = [e \in Endpoint |-> Unfetched]
      /\ recorded' = << >> /\ 0 \in 0 .. MaxRows
  BY TransportAssumption DEF Forget
<1>2. FetchesSound'
  BY <1>1, UnfetchedIsSound DEF FetchesSound
<1>3. RecordsSound'
  BY <1>1 DEF RecordsSound, RecordedInOrder
<1> QED
  BY <1>1, <1>2, <1>3, UnfetchedIsSound

\* while the endpoint runs and the fetches behind them stay as they are
LEMMA RecordsStay ==
  ASSUME RecordsSound, FetchesSound, UNCHANGED <<content, fetch, recorded, todo>>
  PROVE  FetchesSound' /\ RecordsSound'
BY DEF RecordsSound, FetchesSound, RecordedInOrder, Current, SliceEndpoints

LEMMA NothingToWrite ==
  ASSUME WritesSound, UNCHANGED <<caller, files, begun, runs>>, toWrite' = << >>,
         stage' # "rewriting",
         stage' \in {"starting", "fetching"} =>
           stage \in {"starting", "fetching"} \/ caller \notin Slice
  PROVE  WritesSound'
BY DEF WritesSound, LatestStateIsBacked, Backing

LEMMA AnswersStay ==
  ASSUME NothingLacks, UNCHANGED <<built, answer>>
  PROVE  NothingLacks'
BY DEF NothingLacks

LEMMA NoAnswerIsSound ==
  NoAnswer.readiness = "none" /\ NoAnswer.service = "none"
BY DEF NoAnswer

-----------------------------------------------------------------------------
(***************************************************************************)
(* The steps.                                                              *)
(***************************************************************************)
LEMMA InitSound == Init => SliceInv
<1> SUFFICES ASSUME Init PROVE SliceInv
  OBVIOUS
<1>1. 0 \in 0 .. MaxRows
  BY TransportAssumption
<1>2. TypeOK
  BY <1>1, UnfetchedIsSound DEF Init, TypeOK, Stage
<1>3. Busy
  BY DEF Init, Busy
<1>4. FetchesSound
  BY <1>1, UnfetchedIsSound DEF Init, FetchesSound
<1>5. RecordsSound
  BY DEF Init, RecordsSound, RecordedInOrder
<1>6. NothingLacks
  BY NoAnswerIsSound DEF Init, NothingLacks
<1>7. WritesSound
  BY DEF Init, WritesSound, LatestStateIsBacked, File
<1> QED
  BY <1>2, <1>3, <1>4, <1>5, <1>6, <1>7 DEF SliceInv

LEMMA StartSound ==
  ASSUME SliceInv, Start
  PROVE  SliceInv'
<1> USE DEF SliceInv
<1>1. /\ caller \in Slice => todo' = <<caller>> /\ runs' = runs + 1
      /\ caller \in Surface => todo' = Components[caller] /\ runs' = 0
      /\ todo' \in Seq(Slice) /\ runs' \in Nat
  BY SlicesAndSurfaces DEF Start, IsReader, TypeOK
<1>2. TypeOK'
  BY <1>1 DEF Start, TypeOK, Stage, work
<1>3. Busy'
  BY <1>1, SlicesAndSurfaces DEF Start, Busy, work, TypeOK
<1>4. FetchesSound' /\ RecordsSound'
  BY DEF Start, Busy, FetchesSound, RecordsSound, RecordedInOrder, work
<1>5. NothingLacks'
  BY NoAnswerIsSound DEF Start, NothingLacks
<1>6. WritesSound'
  <2>1. /\ toWrite = << >> /\ toWrite' = << >> /\ stage' # "rewriting"
        /\ UNCHANGED <<files, begun, caller>>
    BY DEF Start, WritesSound
  <2>2. /\ begun <= runs' /\ (caller \in Surface => runs' = 0)
        /\ caller \in Slice => begun < runs'
    BY <1>1, SlicesAndSurfaces DEF TypeOK, WritesSound
  <2> QED
    BY <2>1, <2>2 DEF WritesSound, LatestStateIsBacked, Backing
<1> QED
  BY <1>2, <1>3, <1>4, <1>5, <1>6

LEMMA StartSliceSound ==
  ASSUME SliceInv, StartSlice
  PROVE  SliceInv'
<1> USE DEF SliceInv
<1>1. content' \in [Endpoint -> 0 .. MaxRows]
  BY SliceAssumption DEF StartSlice
<1>2. TypeOK'
  BY <1>1 DEF StartSlice, TypeOK, Stage, disk
<1>3. Busy'
  BY DEF StartSlice, Busy
<1>4. fetch' = fetch /\ recorded' = << >> /\ \A e \in Endpoint : fetch[e] = Unfetched
  BY DEF StartSlice, Busy
<1>5. FetchesSound'
  BY <1>1, <1>4, UnfetchedIsSound DEF FetchesSound
<1>6. RecordsSound'
  BY <1>4 DEF RecordsSound, RecordedInOrder
<1>7. NothingLacks'
  BY AnswersStay DEF StartSlice
<1>8. WritesSound'
  <2>1. toWrite = << >>
    BY DEF StartSlice, WritesSound
  <2> QED
    BY <2>1, NothingToWrite DEF StartSlice, disk
<1> QED
  BY <1>2, <1>3, <1>5, <1>6, <1>7, <1>8

LEMMA FetchPageSound ==
  ASSUME SliceInv, NEW e \in Endpoint, FetchPage(e)
  PROVE  SliceInv'
<1> USE DEF SliceInv
<1>1. /\ stage = "fetching" /\ e \in SliceEndpoints(Current) /\ fetch[e].at = "open"
      /\ Current \in Slice
  BY CurrentIsASlice DEF FetchPage, Busy
<1>2. PICK wire \in Exchanges(Request(e, fetch[e].page), content[e]) :
        fetch' = [fetch EXCEPT ![e] = AfterPage(Current, e, fetch[e], Fetched(wire))]
  BY DEF FetchPage, AfterPage
<1> DEFINE g == AfterPage(Current, e, fetch[e], Fetched(wire))
<1>3. g \in Fetch /\ FetchSound(e, g, content[e])
  BY <1>1, PageKeepsSound DEF TypeOK, FetchesSound
<1> HIDE DEF g
<1>4. /\ fetch' \in [Endpoint -> Fetch]
      /\ \A d \in Endpoint : fetch'[d] = IF d = e THEN g ELSE fetch[d]
  BY <1>2, <1>3 DEF TypeOK, g
<1>5. UNCHANGED <<caller, ask, stage, todo, content, recorded, toWrite, disk, built, answer>>
  BY DEF FetchPage
<1>6. TypeOK'
  BY <1>4, <1>5 DEF TypeOK, disk
<1>7. Busy'
  BY <1>1, <1>5 DEF Busy
<1>8. FetchesSound'
  BY <1>3, <1>4, <1>5 DEF FetchesSound
<1>9. RecordsSound'
  <2>1. recorded = << >>
    BY <1>1 DEF RecordsSound
  <2> QED
    BY <2>1, <1>5 DEF RecordsSound, RecordedInOrder
<1>10. NothingLacks'
  BY <1>5, AnswersStay
<1>11. WritesSound'
  <2>1. toWrite = << >>
    BY <1>1 DEF WritesSound
  <2> QED
    BY <2>1, <1>1, <1>5, NothingToWrite DEF disk
<1> QED
  BY <1>6, <1>7, <1>8, <1>9, <1>10, <1>11

LEMMA RaiseSound ==
  ASSUME SliceInv, Raise
  PROVE  SliceInv'
<1> USE DEF SliceInv
<1>1. Forget /\ stage' = "idle" /\ todo' = << >> /\ built' = << >> /\ toWrite = << >>
  BY DEF Raise, WritesSound
<1>2. TypeOK'
  BY <1>1, ForgetIsSound DEF Raise, TypeOK, Stage, disk
<1>3. Busy'
  BY <1>1, ForgetIsSound DEF Busy
<1>4. NothingLacks'
  <2>1. answer'.readiness = "none" /\ answer'.service = "none"
    BY DEF Raise, NoAnswer
  <2> QED
    BY <1>1, <2>1 DEF NothingLacks
<1>5. WritesSound'
  BY <1>1, NothingToWrite DEF Raise, disk
<1> QED
  BY <1>1, <1>2, <1>3, <1>4, <1>5, ForgetIsSound

LEMMA DieSound ==
  ASSUME SliceInv, Die
  PROVE  SliceInv'
<1> USE DEF SliceInv
<1>1. Forget /\ stage' = "idle" /\ todo' = << >> /\ built' = << >> /\ toWrite' = << >>
  BY DEF Die
<1>2. TypeOK'
  BY <1>1, ForgetIsSound DEF Die, TypeOK, Stage, disk
<1>3. Busy'
  BY <1>1, ForgetIsSound DEF Busy
<1>4. NothingLacks'
  BY <1>1, NoAnswerIsSound DEF Die, NothingLacks
<1>5. WritesSound'
  BY <1>1, NothingToWrite DEF Die, disk
<1> QED
  BY <1>1, <1>2, <1>3, <1>4, <1>5, ForgetIsSound

LEMMA RecordEndpointSound ==
  ASSUME SliceInv, RecordEndpoint
  PROVE  SliceInv'
<1> USE DEF SliceInv
<1> DEFINE i == Len(recorded) + 1
           es == Endpoints[Current]
           f == fetch[es[i]]
           run == [endpoint |-> es[i], status |-> f.status, error |-> f.error,
                   count |-> f.count, pages |-> f.page]
<1>1. /\ stage = "fetching" /\ Current \in Slice /\ recorded' = Append(recorded, run)
      /\ i \in Nat \ {0} /\ i <= Len(es)
  <2>1. stage = "fetching" /\ Current \in Slice /\ i <= Len(es)
    BY CurrentIsASlice DEF RecordEndpoint, Busy
  <2>2. recorded' = Append(recorded, run)
    BY DEF RecordEndpoint, ResultOf
  <2>3. i \in Nat \ {0}
    BY LenProperties DEF TypeOK
  <2> QED
    BY <2>1, <2>2, <2>3
<1>2. UNCHANGED <<caller, ask, stage, todo, content, fetch, toWrite, disk, built, answer>>
  BY DEF RecordEndpoint
<1>3. \A e \in SliceEndpoints(Current) : fetch[e].at = "ended"
  <2>1. ~ SomeRaised(Current) /\ MapEnded(Current)
    BY DEF RecordEndpoint
  <2>2. \A e \in SliceEndpoints(Current) : fetch[e] \in Fetch
    BY <1>1, SlicesAndSurfaces DEF TypeOK
  <2> QED
    BY <2>1, <2>2 DEF SomeRaised, MapEnded, Fetch
<1>4. es[i] \in SliceEndpoints(Current) /\ es[i] \in Endpoint
  <2>1. es \in Seq(Endpoint) /\ i \in DOMAIN es
    BY <1>1, SlicesAndSurfaces
  <2> QED
    BY <1>1, <2>1, SlicesAndSurfaces DEF SliceEndpoints
<1>5. run \in EndpointRun
  <2>1. f \in Fetch
    BY <1>4 DEF TypeOK
  <2> QED
    BY <1>4, <2>1 DEF Fetch, EndpointRun
<1>6. run.status = "failed" <=> run.error # "none"
  BY <1>3, <1>4 DEF FetchesSound, FetchSound
<1>7. /\ recorded' \in Seq(EndpointRun) /\ Len(recorded') = i
      /\ DOMAIN recorded' = 1 .. i
      /\ recorded'[i] = run
      /\ \A j \in 1 .. i : j # i => j \in DOMAIN recorded /\ recorded'[j] = recorded[j]
  BY <1>1, <1>5 DEF TypeOK
<1> DEFINE recordOf(r, j, current, ff) ==
             /\ r.endpoint = Endpoints[current][j]
             /\ r.status = ff[r.endpoint].status /\ r.count = ff[r.endpoint].count
             /\ r.pages = ff[r.endpoint].page
             /\ r.status = "failed" <=> r.error # "none"
<1>8. recordOf(run, i, Current, fetch)
  BY <1>6
<1>9. \A j \in DOMAIN recorded : recordOf(recorded[j], j, Current, fetch)
  BY DEF RecordsSound, RecordedInOrder
<1>10. TypeOK'
  BY <1>2, <1>7 DEF TypeOK, disk
<1>11. Busy'
  BY <1>1, <1>2 DEF Busy
<1>12. FetchesSound'
  BY <1>2 DEF FetchesSound
<1> HIDE DEF run, i, f, es
<1>13. RecordsSound'
  <2>1. fetch' = fetch /\ Current' = Current /\ SliceEndpoints(Current)' = SliceEndpoints(Current)
    BY <1>2 DEF Current, SliceEndpoints
  <2>2. \A j \in DOMAIN recorded' : recordOf(recorded'[j], j, Current, fetch)
    <3> HIDE DEF recordOf
    <3> QED
      BY <1>7, <1>8, <1>9
  <2>3. RecordedInOrder'
    BY <2>1, <2>2 DEF RecordedInOrder
  <2> QED
    BY <1>1, <1>3, <1>7, <2>1, <2>3 DEF RecordsSound, es
<1>14. NothingLacks'
  BY <1>2, AnswersStay
<1>15. WritesSound'
  <2>1. toWrite = << >>
    BY <1>1 DEF WritesSound
  <2> QED
    BY <1>1, <1>2, <2>1, NothingToWrite DEF disk
<1> QED
  BY <1>10, <1>11, <1>12, <1>13, <1>14, <1>15

LEMMA FinalizeSound ==
  ASSUME SliceInv, Finalize
  PROVE  SliceInv'
<1> USE DEF SliceInv
<1>1. stage = "fetching" /\ stage' = "writing" /\ Current \in Slice
  BY CurrentIsASlice DEF Finalize, Busy
<1>2. UNCHANGED <<caller, ask, todo, content, fetch, recorded, files, begun, runs, built, answer>>
  BY DEF Finalize, work, disk
<1>3. /\ caller \in Surface => toWrite' = << >>
      /\ caller \in Slice => Current = caller /\ toWrite' = FilesOf(caller)
  BY <1>1, SlicesAndSurfaces DEF Finalize, IsReader, Busy, Current
<1>4. caller \in Slice => FilesOf(caller) \in Seq(File) /\ Len(FilesOf(caller)) \in Nat
  BY PayloadMap, TruthComesFirst, LenProperties
<1>5. TypeOK'
  <2>1. caller \in Surface \/ caller \in Slice
    BY DEF TypeOK
  <2>2. toWrite' \in Seq(File)
    BY <1>3, <1>4, <2>1, EmptySeq
  <2> QED
    BY <1>1, <1>2, <2>2 DEF TypeOK, Stage
<1>6. Busy'
  BY <1>1, <1>2 DEF Busy
<1>7. FetchesSound' /\ RecordsSound'
  BY <1>2, RecordsStay
<1>8. NothingLacks'
  BY <1>2, AnswersStay
<1>9. WritesSound'
  <2>1. CASE caller \in Surface
    BY <1>1, <1>2, <1>3, <2>1, SlicesAndSurfaces, NothingToWrite
  <2>2. CASE caller \in Slice
    <3>1. Written(FilesOf(caller))' = 0 /\ caller' = caller /\ toWrite' = FilesOf(caller)
      BY <1>2, <1>3, <1>4, <2>2 DEF Written
    <3>2. \A k \in 1 .. Len(toWrite') : toWrite'[k] = FilesOf(caller)[0 + k]
      BY <1>4, <2>2, <3>1
    <3>3. files["latest"] < runs
      BY <1>1, <2>2 DEF WritesSound, TypeOK, File
    <3>4. MapInv(FilesOf(caller))'
      BY <1>2, <3>1, <3>2, <3>3 DEF MapInv
    <3>5. LatestStateIsBacked' /\ begun' <= runs' /\ (\A f \in File : files'[f] <= begun')
          /\ (caller' \in Surface => runs' = 0)
      BY <1>2 DEF WritesSound, LatestStateIsBacked, Backing
    <3> QED
      BY <1>1, <2>2, <3>1, <3>4, <3>5 DEF WritesSound
  <2> QED
    BY <2>1, <2>2 DEF TypeOK
<1> QED
  BY <1>5, <1>6, <1>7, <1>8, <1>9

\* a run in the middle of its payload map
LEMMA MapFacts ==
  ASSUME SliceInv, toWrite # << >>
  PROVE  LET F == FilesOf(caller)
             w == Written(F)
         IN  /\ caller \in Slice /\ caller \notin Surface /\ w \in Nat /\ w + 1 \in 1 .. Len(F)
             /\ Head(toWrite) = F[w + 1] /\ F[w + 1] \in File
             /\ Tail(toWrite) \in Seq(File) /\ Len(F) - Len(Tail(toWrite)) = w + 1
             /\ \A k \in 1 .. Len(Tail(toWrite)) : Tail(toWrite)[k] = F[(w + 1) + k]
             /\ \A k \in 1 .. w : /\ k \in 1 .. Len(F) /\ F[k] \in File /\ F[k] # F[w + 1]
                                  /\ files[F[k]] = runs
             /\ F[1] = "ingestion_runs" /\ (w = 0 \/ 1 \in 1 .. w)
<1> DEFINE F == FilesOf(caller)
           w == Written(F)
<1>1. /\ caller \in Slice /\ caller \notin Surface /\ w \in Nat
      /\ \A k \in 1 .. Len(toWrite) : toWrite[k] = F[w + k]
      /\ \A k \in 1 .. w : files[F[k]] = runs
  BY SlicesAndSurfaces DEF SliceInv, WritesSound, MapInv
<1>2. /\ F \in Seq(File) /\ Len(F) \in Nat /\ F[1] = "ingestion_runs"
      /\ \A i, j \in 1 .. Len(F) : F[i] = F[j] => i = j
  BY <1>1, EachFileOnce
<1>3. /\ Head(toWrite) = toWrite[1] /\ Tail(toWrite) \in Seq(File)
      /\ Len(toWrite) \in Nat \ {0} /\ Len(Tail(toWrite)) = Len(toWrite) - 1
      /\ \A k \in 1 .. Len(Tail(toWrite)) : Tail(toWrite)[k] = toWrite[k + 1]
  <2>1. toWrite \in Seq(File)
    BY DEF SliceInv, TypeOK
  <2>2. Head(toWrite) = toWrite[1] /\ Len(toWrite) \in Nat \ {0}
    BY <2>1, EmptySeq
  <2> QED
    BY <2>1, <2>2, HeadTailProperties
<1>4. w = Len(F) - Len(toWrite)
  BY DEF Written
<1> HIDE DEF F, w
<1>5. w + 1 \in 1 .. Len(F) /\ Head(toWrite) = F[w + 1] /\ Len(F) - Len(Tail(toWrite)) = w + 1
  BY <1>1, <1>2, <1>3, <1>4
<1>6. ASSUME NEW k \in 1 .. Len(Tail(toWrite))
      PROVE  Tail(toWrite)[k] = F[(w + 1) + k]
  <2>1. k + 1 \in 1 .. Len(toWrite) /\ Tail(toWrite)[k] = toWrite[k + 1]
    BY <1>3, <1>6
  <2>2. w + (k + 1) = (w + 1) + k
    BY <1>1, <1>3
  <2> QED
    BY <1>1, <2>1, <2>2
<1>7. \A k \in 1 .. Len(F) : F[k] \in File
  BY <1>2, ElementOfSeq
<1>8. \A k \in 1 .. w : k \in 1 .. Len(F) /\ k # w + 1
  BY <1>1, <1>2, <1>5
<1>9. w = 0 \/ 1 \in 1 .. w
  BY <1>1
<1> QED
  BY <1>1, <1>2, <1>3, <1>5, <1>6, <1>7, <1>8, <1>9 DEF F, w

\* Between two files of the payload map, with the next one truncated or not: the
\* latest state is still an older one and ingestion-runs.json no longer its own,
\* or it is that of this run, and all that backs it has been written.
LEMMA BackedInTheMiddle ==
  ASSUME SliceInv, toWrite # << >>,
         files' \in [File -> Nat],
         \A f \in File : f # Head(toWrite) => files'[f] = files[f],
         files'[Head(toWrite)] \in {0, runs}, begun' = runs, caller' = caller
  PROVE  LatestStateIsBacked'
<1> DEFINE F == FilesOf(caller)
           w == Written(F)
           own == files'["latest"]
<1>1. /\ caller \in Slice /\ w \in Nat /\ w + 1 \in 1 .. Len(F)
      /\ Head(toWrite) = F[w + 1] /\ F[w + 1] \in File
      /\ \A k \in 1 .. w : /\ k \in 1 .. Len(F) /\ F[k] \in File /\ F[k] # F[w + 1]
                           /\ files[F[k]] = runs
      /\ F[1] = "ingestion_runs" /\ (w = 0 \/ 1 \in 1 .. w)
  BY MapFacts
<1>2. (\A k \in 1 .. w : F[k] # "latest") => files["latest"] < runs
  BY DEF SliceInv, WritesSound, MapInv
<1>3. \A i \in 1 .. Len(F) : F[i] = "latest" =>
        \A f \in Backing : \E j \in 1 .. i - 1 : F[j] = f
  BY <1>1, BackingComesFirst
<1>4. runs \in Nat /\ files \in [File -> Nat] /\ "latest" \in File /\ "ingestion_runs" \in File
  BY DEF SliceInv, TypeOK, File
<1>5. Backing' = Backing
  BY DEF Backing
<1> HIDE DEF F, w
<1>6. \A k \in 1 .. w : files'[F[k]] = runs
  BY <1>1
<1>7. ASSUME NEW i \in 1 .. w + 1, F[i] = "latest", NEW f \in Backing
      PROVE  files'[f] = runs
  <2>1. i \in 1 .. Len(F)
    BY <1>1, <1>7
  <2>2. PICK j \in 1 .. i - 1 : F[j] = f
    BY <1>3, <1>7, <2>1
  <2>3. j \in 1 .. w
    BY <1>1, <1>7, <2>2
  <2> QED
    BY <1>6, <2>2, <2>3
<1>8. CASE F[w + 1] = "latest"
  <2>1. own = 0 \/ own = runs
    BY <1>1, <1>8
  <2>2. \A f \in Backing' : files'[f] = runs
    BY <1>1, <1>5, <1>7, <1>8
  <2> QED
    BY <2>1, <2>2 DEF LatestStateIsBacked
<1>9. CASE F[w + 1] # "latest" /\ \E k \in 1 .. w : F[k] = "latest"
  <2>1. own = runs
    BY <1>6, <1>9
  <2>2. PICK k \in 1 .. w : F[k] = "latest"
    BY <1>9
  <2>3. k \in 1 .. w + 1
    BY <1>1, <2>2
  <2>4. \A f \in Backing' : files'[f] = runs
    BY <1>5, <1>7, <2>2, <2>3
  <2> QED
    BY <2>1, <2>4 DEF LatestStateIsBacked
<1>10. CASE F[w + 1] # "latest" /\ \A k \in 1 .. w : F[k] # "latest"
  <2>1. own = files["latest"] /\ own < runs /\ own \in Nat
    BY <1>1, <1>2, <1>4, <1>10
  <2>2. files'["ingestion_runs"] \in {0, runs}
    <3>1. CASE w = 0
      BY <1>1, <3>1
    <3>2. CASE 1 \in 1 .. w
      BY <1>1, <1>6, <3>2
    <3> QED
      BY <1>1, <3>1, <3>2
  <2>3. own # 0 => files'["ingestion_runs"] # own /\ begun' # own
    BY <1>4, <2>1, <2>2
  <2> QED
    BY <2>3 DEF LatestStateIsBacked
<1> QED
  BY <1>8, <1>9, <1>10

LEMMA OpenFileSound ==
  ASSUME SliceInv, OpenFile
  PROVE  SliceInv'
<1> USE DEF SliceInv
<1> DEFINE F == FilesOf(caller)
           w == Written(F)
<1>1. /\ toWrite # << >> /\ stage = "writing" /\ stage' = "rewriting" /\ begun' = runs
      /\ UNCHANGED <<caller, todo, content, fetch, recorded, toWrite, runs, built, answer>>
      /\ files' = [files EXCEPT ![Head(toWrite)] = 0]
  BY DEF OpenFile, work
<1>2. /\ caller \in Slice /\ caller \notin Surface /\ w \in Nat /\ w + 1 \in 1 .. Len(F)
      /\ Head(toWrite) = F[w + 1] /\ F[w + 1] \in File
      /\ \A k \in 1 .. w : F[k] \in File /\ F[k] # F[w + 1] /\ files[F[k]] = runs
  BY <1>1, MapFacts
<1>3. /\ files' \in [File -> Nat] /\ runs \in Nat /\ files \in [File -> Nat]
      /\ \A f \in File : files'[f] = IF f = Head(toWrite) THEN 0 ELSE files[f]
      /\ begun <= runs /\ \A f \in File : files[f] <= runs
  BY <1>1, <1>2 DEF TypeOK, WritesSound
<1>4. /\ \A k \in 1 .. Len(toWrite) : toWrite[k] = F[w + k]
      /\ (\A k \in 1 .. w : F[k] # "latest") => files["latest"] < runs
  BY <1>1 DEF WritesSound, MapInv
<1>5. LatestStateIsBacked'
  BY <1>1, <1>2, <1>3, BackedInTheMiddle, MapFacts
<1>6. TypeOK' /\ Busy'
  BY <1>1, <1>3 DEF TypeOK, Busy, Stage, OpenFile
<1>7. FetchesSound' /\ RecordsSound' /\ NothingLacks'
  BY <1>1, RecordsStay, AnswersStay
<1>8. MapInv(FilesOf(caller))'
  <2> HIDE DEF F, w
  <2>1. \A k \in 1 .. w : files'[F[k]] = runs
    BY <1>2, <1>3
  <2>2. (\A k \in 1 .. w : F[k] # "latest") => files'["latest"] < runs
    <3>1. "latest" \in File
      BY DEF File
    <3>2. files["latest"] \in Nat /\ files'["latest"] <= files["latest"]
      BY <1>3, <3>1
    <3> QED
      BY <1>3, <1>4, <3>1, <3>2
  <2>3. Written(FilesOf(caller))' = w /\ FilesOf(caller)' = F
    BY <1>1 DEF Written, F, w, FilesOf
  <2> QED
    BY <1>1, <1>2, <1>4, <2>1, <2>2, <2>3 DEF MapInv
<1>9. WritesSound'
  <2>1. \A f \in File : files'[f] <= runs
    BY <1>3
  <2> QED
    BY <1>1, <1>2, <1>3, <1>5, <1>8, <2>1 DEF WritesSound
<1> QED
  BY <1>6, <1>7, <1>9

LEMMA WriteFileSound ==
  ASSUME SliceInv, WriteFile
  PROVE  SliceInv'
<1> USE DEF SliceInv
<1> DEFINE F == FilesOf(caller)
           w == Written(F)
<1>1. /\ toWrite # << >> /\ stage = "rewriting" /\ stage' = "writing" /\ begun' = begun /\ begun = runs
      /\ UNCHANGED <<caller, todo, content, fetch, recorded, runs, built, answer>>
      /\ files' = [files EXCEPT ![Head(toWrite)] = runs] /\ toWrite' = Tail(toWrite)
  BY DEF WriteFile, work, WritesSound
<1>2. /\ caller \in Slice /\ caller \notin Surface /\ w \in Nat /\ w + 1 \in 1 .. Len(F)
      /\ Head(toWrite) = F[w + 1] /\ F[w + 1] \in File
      /\ Tail(toWrite) \in Seq(File) /\ Len(F) - Len(Tail(toWrite)) = w + 1
      /\ \A k \in 1 .. Len(Tail(toWrite)) : Tail(toWrite)[k] = F[(w + 1) + k]
      /\ \A k \in 1 .. w : F[k] \in File /\ F[k] # F[w + 1] /\ files[F[k]] = runs
  BY <1>1, MapFacts
<1>3. /\ files' \in [File -> Nat] /\ runs \in Nat /\ files \in [File -> Nat]
      /\ \A f \in File : files'[f] = IF f = Head(toWrite) THEN runs ELSE files[f]
      /\ \A f \in File : files[f] <= runs
  BY <1>1, <1>2 DEF TypeOK, WritesSound
<1>4. (\A k \in 1 .. w : F[k] # "latest") => files["latest"] < runs
  BY <1>1 DEF WritesSound, MapInv
<1>5. LatestStateIsBacked'
  BY <1>1, <1>2, <1>3, BackedInTheMiddle, MapFacts
<1>6. TypeOK' /\ Busy'
  BY <1>1, <1>2, <1>3 DEF TypeOK, Busy, Stage, WriteFile
<1>7. FetchesSound' /\ RecordsSound' /\ NothingLacks'
  BY <1>1, RecordsStay, AnswersStay
<1>8. MapInv(FilesOf(caller))'
  <2> HIDE DEF F, w
  <2>1. ASSUME NEW k \in 1 .. w + 1  PROVE files'[F[k]] = runs
    <3>1. k = w + 1 \/ k \in 1 .. w
      BY <1>2
    <3> QED
      BY <1>2, <1>3, <3>1
  <2>2. ASSUME \A k \in 1 .. w + 1 : F[k] # "latest"  PROVE files'["latest"] < runs
    <3>1. "latest" \in File
      BY DEF File
    <3>2. F[w + 1] # "latest" /\ \A k \in 1 .. w : F[k] # "latest"
      BY <1>2, <2>2
    <3> QED
      BY <1>2, <1>3, <1>4, <3>1, <3>2
  <2>3. Written(FilesOf(caller))' = w + 1 /\ FilesOf(caller)' = F
    BY <1>1, <1>2 DEF Written, F, w, FilesOf
  <2>4. \A k \in 1 .. Len(toWrite') : toWrite'[k] = F[(w + 1) + k]
    BY <1>1, <1>2
  <2>5. w + 1 \in Nat
    BY <1>2
  <2> QED
    BY <1>1, <2>1, <2>2, <2>3, <2>4, <2>5 DEF MapInv
<1>9. WritesSound'
  <2>1. \A f \in File : files'[f] <= runs
    BY <1>3
  <2> QED
    BY <1>1, <1>2, <1>3, <1>5, <1>8, <2>1 DEF WritesSound
<1> QED
  BY <1>6, <1>7, <1>9

Usable(statuses) == \A i \in DOMAIN statuses : statuses[i] \in {"completed", "source_empty"}

LEMMA ReadyMeansUsable ==
  ASSUME NEW statuses, \A i \in DOMAIN statuses : statuses[i] \in EndpointStatus, NEW a
  PROVE  /\ MemberReadiness(a, statuses) = "ready" => Usable(statuses)
         /\ FinanceReadiness(a, statuses) = "ready" => Usable(statuses)
         /\ StaffReadiness(a, statuses) = "ready" => Usable(statuses)
         /\ Phase1Readiness(a, statuses) = "ready" => Usable(statuses)
<1>1. \A i \in DOMAIN statuses :
        /\ Availability(statuses[i]) \in {"available", "source_empty"} => statuses[i] # "failed"
        /\ Availability(statuses[i]) # "unavailable" => statuses[i] # "failed"
  BY DEF Availability, EndpointStatus
<1>2. BackboneReady(LatestStates(statuses)) => Usable(statuses)
  BY <1>1 DEF BackboneReady, All, LatestStates, Usable, EndpointStatus
<1>3. PrerequisiteReady(FinanceLatestStates(statuses)) => Usable(statuses)
  BY <1>1 DEF PrerequisiteReady, Some, FinanceLatestStates, Usable, EndpointStatus
<1> QED
  BY <1>2, <1>3 DEF MemberReadiness, FinanceReadiness, StaffReadiness, Phase1Readiness

LEMMA ReadinessType ==
  ASSUME NEW s
  PROVE  ReadinessOf(s) \in Readiness
BY DEF ReadinessOf, MemberReadiness, FinanceReadiness, StaffReadiness, Phase1Readiness, Readiness

\* what a run found usable holds all that the source had
LEMMA ReadyIsWhole ==
  ASSUME SliceInv, stage = "writing", ReadinessOf(Current) = "ready"
  PROVE  Whole
<1> USE DEF SliceInv
<1>1. CASE recorded = << >>
  BY <1>1 DEF Whole
<1>2. CASE recorded # << >>
  <2>1. Current \in Slice /\ Len(recorded) \in Nat /\ DOMAIN recorded = 1 .. Len(recorded)
    BY CurrentIsASlice, LenProperties DEF Busy, TypeOK
  <2>2. ASSUME NEW i \in DOMAIN recorded
        PROVE  /\ recorded[i].endpoint \in SliceEndpoints(Current)
               /\ recorded[i].endpoint \in Endpoint
               /\ recorded[i].status = fetch[recorded[i].endpoint].status
    <3>1. i \in DOMAIN Endpoints[Current] /\ recorded[i].endpoint = Endpoints[Current][i]
      BY <1>2, <2>1, SlicesAndSurfaces DEF RecordsSound, RecordedInOrder
    <3> QED
      BY <2>1, <3>1, SlicesAndSurfaces DEF SliceEndpoints, RecordsSound, RecordedInOrder
  <2>3. ASSUME NEW i \in DOMAIN recorded
        PROVE  LET e == recorded[i].endpoint IN
               /\ recorded[i].status \in EndpointStatus
               /\ recorded[i].status # "failed" => fetch[e].told \/ fetch[e].seen = 1 .. content[e]
    BY <1>2, <2>2 DEF RecordsSound, FetchesSound, FetchSound
  <2>4. DOMAIN Statuses(Current) = DOMAIN recorded
        /\ \A i \in DOMAIN recorded : Statuses(Current)[i] = recorded[i].status
    BY DEF Statuses
  <2>5. Usable(Statuses(Current))
    <3>1. \A i \in DOMAIN Statuses(Current) : Statuses(Current)[i] \in EndpointStatus
      BY <2>3, <2>4
    <3> QED
      BY <3>1, ReadyMeansUsable DEF ReadinessOf
  <2>6. \A i \in DOMAIN recorded : recorded[i].status \in {"completed", "source_empty"}
    BY <2>4, <2>5 DEF Usable
  <2> QED
    BY <2>3, <2>6 DEF Whole, CanonicalRows
<1> QED
  BY <1>1, <1>2

LEMMA ReturnSliceSound ==
  ASSUME SliceInv, ReturnSlice
  PROVE  SliceInv'
<1> USE DEF SliceInv
<1>1. /\ stage = "writing" /\ toWrite = << >> /\ toWrite' = << >> /\ Forget
      /\ todo # << >> /\ todo' = Tail(todo) /\ Tail(todo) \in Seq(Slice)
      /\ UNCHANGED <<caller, ask, files, begun, runs>>
  BY CurrentIsASlice DEF ReturnSlice, disk, Busy
<1> DEFINE surface == [readiness |-> ReadinessOf(Current),
                       lacking |-> ReadinessOf(Current) = "ready" /\ ~ Whole]
<1>2. surface \in ComponentSurface /\ ~ surface.lacking
  BY <1>1, ReadinessType, ReadyIsWhole DEF ComponentSurface
<1> HIDE DEF surface
<1>3. /\ ~ IsReader => built' = << >>
      /\ IsReader => built' = Append(built, surface)
  BY DEF ReturnSlice, surface
<1>4. built' \in Seq(ComponentSurface) /\ \A i \in DOMAIN built' : ~ built'[i].lacking
  <2>1. CASE IsReader
    <3>1. built \in Seq(ComponentSurface) /\ \A i \in DOMAIN built : ~ built[i].lacking
      BY DEF TypeOK, NothingLacks
    <3> QED
      BY <1>2, <1>3, <2>1, <3>1
  <2>2. CASE ~ IsReader
    BY <1>3, <2>2
  <2> QED
    BY <2>1, <2>2
<1>5. /\ stage' \in {"idle", "answering", "starting"}
      /\ stage' = "starting" => IsReader /\ todo' # << >>
  BY DEF ReturnSlice
<1>6. TypeOK'
  BY <1>1, <1>4, <1>5, ForgetIsSound DEF TypeOK, Stage
<1>7. Busy'
  BY <1>1, <1>5, ForgetIsSound, SlicesAndSurfaces DEF Busy, IsReader
<1>8. NothingLacks'
  <2>1. CASE IsReader
    <3>1. answer' = answer
      BY <2>1 DEF ReturnSlice
    <3> QED
      BY <1>4, <3>1 DEF NothingLacks
  <2>2. CASE ~ IsReader
    <3>1. answer' = [NoAnswer EXCEPT !.outcome = "answered"]
      BY <2>2 DEF ReturnSlice
    <3>2. answer'.readiness = "none" /\ answer'.service = "none"
      BY <3>1 DEF NoAnswer
    <3> QED
      BY <1>4, <3>2 DEF NothingLacks
  <2> QED
    BY <2>1, <2>2
<1>9. WritesSound'
  BY <1>1, <1>5, NothingToWrite, SlicesAndSurfaces DEF IsReader
<1> QED
  BY <1>1, <1>6, <1>7, <1>8, <1>9, ForgetIsSound

LEMMA ServedMeansReady ==
  SurfaceService = "served" => SurfaceReadiness = "ready"
<1>1. \A a, readiness :
        /\ ServedIf(readiness) = "served" => readiness = "ready"
        /\ MemberService(a, readiness) = "served" => readiness = "ready"
        /\ FinanceService(a, readiness) = "served" => readiness = "ready"
        /\ StaffService(a, readiness) = "served" => readiness = "ready"
        /\ Phase1Service(a, readiness) = "served" => readiness = "ready"
        /\ DailyOverviewService(a, readiness) = "served" => readiness = "ready"
        /\ Phase1OverviewService(a, readiness) = "served" => readiness = "ready"
  BY DEF ServedIf, MemberService, FinanceService, StaffService, Phase1Service,
         DailyOverviewService, Phase1OverviewService
<1>2. caller = "explanation" => SurfaceReadiness = "ready"
  BY DEF SurfaceReadiness
<1> HIDE DEF SurfaceReadiness
<1> QED
  BY <1>1, <1>2 DEF SurfaceService

LEMMA AnswerReaderSound ==
  ASSUME SliceInv, AnswerReader
  PROVE  SliceInv'
<1> USE DEF SliceInv
<1>1. /\ stage = "answering" /\ stage' = "idle" /\ built' = << >>
      /\ UNCHANGED <<caller, ask, todo, content, fetch, recorded, toWrite, files, begun, runs>>
      /\ answer' = [outcome |-> "answered", readiness |-> SurfaceReadiness,
                    service |-> SurfaceService, lacking |-> \E i \in DOMAIN built : built[i].lacking]
  BY DEF AnswerReader, work, disk
<1>2. TypeOK'
  BY <1>1 DEF TypeOK, Stage
<1>3. Busy'
  BY <1>1 DEF Busy
<1>4. FetchesSound' /\ RecordsSound'
  BY <1>1, RecordsStay
<1>5. NothingLacks'
  <2>1. ~ \E i \in DOMAIN built : built[i].lacking
    BY DEF NothingLacks
  <2> QED
    BY <1>1, <2>1, ServedMeansReady DEF NothingLacks
<1>6. WritesSound'
  <2>1. toWrite = << >>
    BY <1>1 DEF WritesSound
  <2> QED
    BY <1>1, <2>1, NothingToWrite
<1> QED
  BY <1>2, <1>3, <1>4, <1>5, <1>6

LEMMA StutterSound ==
  ASSUME SliceInv, UNCHANGED vars
  PROVE  SliceInv'
<1> USE DEF SliceInv
<1>1. UNCHANGED <<caller, ask, stage, todo, content, fetch, recorded, toWrite, files, begun, runs, built, answer>>
  BY DEF vars, work, disk
<1>2. TypeOK' /\ Busy'
  BY <1>1 DEF TypeOK, Busy
<1>3. FetchesSound' /\ RecordsSound' /\ NothingLacks'
  BY <1>1, RecordsStay, AnswersStay
<1>4. WritesSound'
  BY <1>1 DEF WritesSound, MapInv, LatestStateIsBacked, Backing, Written
<1> QED
  BY <1>2, <1>3, <1>4

-----------------------------------------------------------------------------
(* Every slice run keeps types, page loops, endpoint runs, surfaces and    *)
(* files as SliceInv says: the invariant the theorems below rest on.       *)
THEOREM SliceInvariant == Spec => []SliceInv
<1>1. Init => SliceInv
  BY InitSound
<1>2. SliceInv /\ [Next]_vars => SliceInv'
  <2> SUFFICES ASSUME SliceInv, [Next]_vars
               PROVE  SliceInv'
    OBVIOUS
  <2>1. CASE Start
    BY <2>1, StartSound
  <2>2. CASE StartSlice
    BY <2>2, StartSliceSound
  <2>3. CASE \E e \in Endpoint : FetchPage(e)
    BY <2>3, FetchPageSound
  <2>4. CASE Raise
    BY <2>4, RaiseSound
  <2>5. CASE RecordEndpoint
    BY <2>5, RecordEndpointSound
  <2>6. CASE Finalize
    BY <2>6, FinalizeSound
  <2>7. CASE OpenFile \/ WriteFile
    BY <2>7, OpenFileSound, WriteFileSound
  <2>8. CASE ReturnSlice
    BY <2>8, ReturnSliceSound
  <2>9. CASE AnswerReader
    BY <2>9, AnswerReaderSound
  <2>10. CASE Die
    BY <2>10, DieSound
  <2>11. CASE UNCHANGED vars
    BY <2>11, StutterSound
  <2> QED
    BY <2>1, <2>2, <2>3, <2>4, <2>5, <2>6, <2>7, <2>8, <2>9, <2>10, <2>11 DEF Next
<1> QED
  BY <1>1, <1>2, PTL DEF Spec

(* What a reader is served holds all the source had, whichever of the      *)
(* modelled behaviours the wire showed for each page: the page loops of    *)
(* every slice and the readiness and theme services of every surface.      *)
THEOREM ReadersGetEverything == Spec => []ServedIsComplete
<1>1. SliceInv => ServedIsComplete
  BY DEF SliceInv, NothingLacks, ServedIsComplete
<1> QED
  BY <1>1, SliceInvariant, PTL

(* Endpoint runs are put down in registry order, each with the outcome of  *)
(* its own endpoint, however the pool of workers orders the fetches.       *)
THEOREM EndpointRunsInOrder == Spec => []RecordedInOrder
<1>1. SliceInv => RecordedInOrder
  BY DEF SliceInv, RecordsSound
<1> QED
  BY <1>1, SliceInvariant, PTL

(* At any point, wherever runs have died, also inside a file, a latest     *)
(* state that can be read has all that its own run derived it from beside  *)
(* it, unless a later run has begun to replace the files; then             *)
(* ingestion-runs.json is no longer that of the latest state.              *)
THEOREM NoLatestWithoutTruth == Spec => []LatestStateIsBacked
<1>1. SliceInv => LatestStateIsBacked
  BY DEF SliceInv, WritesSound
<1> QED
  BY <1>1, SliceInvariant, PTL

(* No page loop goes on past the source: a further page of an endpoint is  *)
(* asked for only while the source holds more records than the pages       *)
(* before had room for.                                                    *)
NoPageInVain == \A e \in Endpoint : Wanted(fetch[e].page, content[e])

(* The page loops are bounded in every slice and under every modelled      *)
(* behaviour of the wire, also in the generic slice, which pages through   *)
(* endpoints that know no pages: what SliceEnds needs besides fairness.    *)
THEOREM PageLoopsAreBounded == Spec => []NoPageInVain
<1>1. SliceInv => NoPageInVain
  BY DEF SliceInv, FetchesSound, FetchSound, NoPageInVain
<1> QED
  BY <1>1, SliceInvariant, PTL
=============================================================================
