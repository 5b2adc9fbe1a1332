--------------------------- MODULE QinqinTransport ---------------------------
(***************************************************************************)
(* The connector to the source: how a page request is built, and what a    *)
(* fetch makes of whatever happens on the wire.  Every exchange ends in a  *)
(* fetch result, an error class and a response envelope, and the slices    *)
(* decide from these two alone.                                            *)
(*                                                                         *)
(* Signatures, headers, URLs, messages and the retryable flag, which no    *)
(* caller reads, are left out.                                             *)
(***************************************************************************)
EXTENDS Integers, FiniteSets

CONSTANTS
  Endpoint,   \* the endpoint contracts of the registry
  Shape,      \* endpoint -> response_payload_shape of its binding
  Paged,      \* endpoints with page_index among their parameters
  PageSize,
  MaxRows     \* bound on the records the source holds for an endpoint

ASSUME TransportAssumption ==
  /\ Shape \in [Endpoint -> {"page", "list", "items"}]
  /\ Paged \subseteq Endpoint
  /\ PageSize \in Nat \ {0}
  /\ MaxRows \in Nat

Row == 1 .. MaxRows

\* What RetData is: {Total, Data}, an array, {Items, Main, Extra}, or null.
Payload == {"page", "list", "items", "null"}

\* A response envelope: Code (0 for None), whether Msg says that there is no
\* data, and RetData with the records it holds.
Envelope == [code : {0, 200, 204, 401, 404, 500}, nodata : BOOLEAN, data : Payload,
             rows : SUBSET Row, total : 0 .. MaxRows]

Exception == {"config", "timeout", "network", "unexpected"}

Taxonomy == {"transport_config_error", "transport_timeout_error", "transport_network_error",
             "transport_unexpected_exception", "transport_http_status_error",
             "transport_invalid_json_error", "transport_invalid_payload_error"}

\* Only parameters of the endpoint's binding reach the request body, so an
\* endpoint without page_index is asked for the same thing on every page.
Request(e, page) == [endpoint |-> e, page |-> IF e \in Paged THEN page ELSE 1]

-----------------------------------------------------------------------------
Answer(data, rows, total) ==
  [code |-> 200, nodata |-> FALSE, data |-> data, rows |-> rows, total |-> total]

EmptyEnvelope(e) == Answer(Shape[e], {}, 0)

\* the envelope a failed exchange is given: no code and an empty page
SyntheticEnvelope == [Answer("page", {}, 0) EXCEPT !.code = 0]

RowsOfPage(content, page) ==
  {r \in 1 .. content : (page - 1) * PageSize < r /\ r <= page * PageSize}

\* A source, or a fixture, that holds the records 1 .. content.
Content(request, content) ==
  IF Shape[request.endpoint] = "page"
  THEN Answer("page", RowsOfPage(content, request.page), content)
  ELSE Answer(Shape[request.endpoint], 1 .. content, 0)

\* FixtureQinqinTransport.fetch_page: beyond its pages, the empty envelope
FixturePage(request, content) ==
  IF Content(request, content).rows = {} THEN EmptyEnvelope(request.endpoint)
  ELSE Content(request, content)

\* What the wire can do with a request: raise, end with an HTTP error whose
\* body may or may not be an envelope, or answer with a body.
Wire == [raised : Exception \cup {"none"}, http_error : BOOLEAN,
         body : {"object", "other_json", "garbled"}, envelope : Envelope]

Received(envelope) ==
  [raised |-> "none", http_error |-> FALSE, body |-> "object", envelope |-> envelope]

-----------------------------------------------------------------------------
\* _exception_to_transport_error
TaxonomyOf(exception) ==
  CASE exception = "config"     -> "transport_config_error"
    [] exception = "timeout"    -> "transport_timeout_error"
    [] exception = "network"    -> "transport_network_error"
    [] exception = "unexpected" -> "transport_unexpected_exception"

Failure(taxonomy) == [error |-> taxonomy, envelope |-> SyntheticEnvelope]

ExceptionResult(exception) == Failure(TaxonomyOf(exception))

\* the body of an HTTP error, if it is a JSON object
BestEffortEnvelope(wire) == IF wire.body = "object" THEN wire.envelope ELSE SyntheticEnvelope

\* LiveQinqinTransport.fetch_page: what it catches becomes an error result
LiveFetch(wire) ==
  IF wire.http_error
    THEN [error |-> "transport_http_status_error", envelope |-> BestEffortEnvelope(wire)]
  ELSE IF wire.body = "garbled" THEN Failure("transport_invalid_json_error")
  ELSE IF wire.body = "other_json" THEN Failure("transport_invalid_payload_error")
  ELSE [error |-> "none", envelope |-> wire.envelope]

\* What a slice works with: a raised exception becomes a result, too.
Fetched(wire) ==
  IF wire.raised # "none" THEN ExceptionResult(wire.raised) ELSE LiveFetch(wire)
=============================================================================
