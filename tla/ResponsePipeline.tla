-------------------------- MODULE ResponsePipeline --------------------------
(***************************************************************************)
(* One proxied exchange of mysterio, from the round trip to the upstream   *)
(* to the bytes the client receives (internal/proxy/proxy.go): the         *)
(* transport, ModifyResponse with its per-backend rewriting,               *)
(* modifyResponseBody with its buffer limit, the ErrorHandler, and what    *)
(* httputil.ReverseProxy and net/http then do with the rewritten response. *)
(* Exchanges share only immutable values (the Config and the maskers), so  *)
(* one exchange is the whole story.                                        *)
(*                                                                         *)
(* Data is abstracted to what delivery depends on: a body is a number of   *)
(* units of some content under some content coding.  Masking keeps the     *)
(* number of units, an envelope is one unit.                               *)
(***************************************************************************)
EXTENDS Integers

CONSTANTS
    Limits,     \* MAX_RESPONSE_BYTES a process may be started with
    MaxInt,     \* the largest int64, in units
    MaxUnits,   \* bound: the largest upstream body explored
    Statuses,   \* upstream statuses explored
    Codings     \* content codings upstreams use

ASSUME LimitsAssumption == Limits \subseteq 1 .. MaxInt
ASSUME BoundsAssumption == MaxInt \in Nat /\ MaxUnits \in Nat
ASSUME StatusesAssumption == Statuses \subseteq 100 .. 599
ASSUME CodingsAssumption == Codings \subseteq {"identity", "gzip", "br"}

VARIABLES
    limit,      \* cfg.MaxResponseBytes of this process
    up,         \* the upstream's response (fixed, seen only when it arrives)
    pc,         \* where the exchange stands
    read,       \* units io.ReadAll has buffered
    broke,      \* the upstream connection failed or the client went away
    resp,       \* the http.Response being rewritten
    client      \* what the client has received

vars == <<limit, up, pc, read, broke, resp, client>>

-----------------------------------------------------------------------------
(* Responses.                                                              *)

Routes == {"loki", "elastic", "search", "graphql"}

\* What the decoded body holds.  "governed": a document of the route's shape
\* with a value some rule masks; "clean": one with none; "tail": a clean JSON
\* object followed by more data; "text": anything that is not JSON.
Contents == {"governed", "clean", "tail", "text"}
Produced == {"masked", "envelope", "badgateway", "none"}

Unknown == -1   \* no Content-Length: chunked on the wire

Bodies == [coding : Codings \union {"identity"},
           content : Contents \union Produced,
           units : 0 .. MaxUnits + 1]

\* net/http's bodyAllowedForStatus: writing a body to such a response fails.
BodyAllowed(status) == status \notin {204, 304} \union 100 .. 199

\* An upstream response.  `label' is its Content-Encoding header, which need
\* not tell the truth about the coding of the body; `websocket' says whether it
\* has an "Upgrade: websocket" header, which any status may carry.
Upstreams ==
    {u \in [route : Routes, status : Statuses, label : Codings,
            chunked : BOOLEAN, websocket : BOOLEAN, body : Bodies] :
        /\ u.body.coding \in Codings /\ u.body.content \in Contents
        /\ u.body.units <= MaxUnits
        /\ u.body.units = 0 => u.body.content = "text"
        /\ ~BodyAllowed(u.status) => u.body.units = 0 /\ ~u.chunked}

\* The label is right (and an empty body is no gzip stream).
Honest(u) == u.label = u.body.coding /\ (u.label = "gzip" => u.body.units > 0)

None == [coding |-> "identity", content |-> "none", units |-> 0]
Own(content) == [coding |-> "identity", content |-> content, units |-> 1]

Responses ==
    [status : Statuses, label : Codings \union {"identity"},
     length : {Unknown} \union 0 .. MaxUnits + 1, json : BOOLEAN, body : Bodies]

Deliveries ==
    [verdict : {"waiting", "complete", "aborted"}, status : Statuses \union {0, 502},
     label : Codings \union {"identity"}, json : BOOLEAN, body : Bodies]

Pcs == {"connect", "await", "modify", "gunzip", "readall", "limit", "mask",
        "stream", "copy", "done"}

isProtocolUpgrade == up.status = 101 \/ up.websocket

TypeOK ==
    /\ limit \in Limits
    /\ up \in Upstreams
    /\ pc \in Pcs
    /\ read \in 0 .. MaxUnits /\ read <= limit + 1
    /\ broke \in BOOLEAN
    /\ resp \in Responses
    /\ client \in Deliveries

\* The response as the transport hands it to ModifyResponse.
Received ==
    [status |-> up.status, label |-> up.label,
     length |-> IF up.chunked THEN Unknown ELSE up.body.units,
     json |-> FALSE, body |-> up.body]

Init ==
    /\ limit \in Limits
    /\ up \in Upstreams
    /\ pc = "connect" /\ read = 0 /\ broke = FALSE
    /\ resp = Received
    /\ client = [verdict |-> "waiting", status |-> 0, label |-> "identity",
                 json |-> FALSE, body |-> None]

-----------------------------------------------------------------------------
(* Answering the client.                                                   *)

Answer(r) == client' = [verdict |-> "complete", status |-> r.status,
                        label |-> r.label, json |-> r.json, body |-> r.body]
Abort == client' = [client EXCEPT !.verdict = "aborted"]

\* Wrong on purpose, like every operator under "Variant": the same handler
\* without its GraphQL branch.
VariantErrorHandlerText ==
    /\ pc' = "done"
    /\ Answer([status |-> 502, label |-> "identity", json |-> FALSE, body |-> Own("badgateway")])
    /\ UNCHANGED <<limit, up, read>>

\* The ErrorHandler: 502, a GraphQL envelope on /graphql, text elsewhere.
ErrorHandler ==
    /\ pc' = "done"
    /\ Answer([status |-> 502, label |-> "identity", json |-> up.route = "graphql",
               body |-> Own(IF up.route = "graphql" THEN "envelope" ELSE "badgateway")])
    /\ UNCHANGED <<limit, up, read>>

-----------------------------------------------------------------------------
(* The transport: http.Transport with a ResponseHeaderTimeout and nothing  *)
(* else, so dialling and the TLS handshake have no deadline of their own.  *)

Connected ==
    /\ pc = "connect" /\ pc' = "await"
    /\ UNCHANGED <<limit, up, read, broke, resp, client>>

ConnectFails == pc = "connect" /\ ErrorHandler /\ broke' = TRUE /\ UNCHANGED resp

HeadersArrive ==
    /\ pc = "await" /\ pc' = "modify"
    /\ UNCHANGED <<limit, up, read, broke, resp, client>>

\* Variant: a Transport without the timeout; only a failure ends the wait.
VariantNoHeaderTimeout ==
    pc = "await" /\ broke /\ ErrorHandler /\ UNCHANGED <<broke, resp>>

\* The 30 s ResponseHeaderTimeout, a reset, or the client's own cancellation.
ResponseHeaderTimeout == pc = "await" /\ ErrorHandler /\ broke' = TRUE /\ UNCHANGED resp

-----------------------------------------------------------------------------
(* ModifyResponse.                                                         *)

\* Responses modifyResponseBody (or its caller) leaves alone: upgrades, error
\* statuses of the log backends, Elastic paths that are not searches.
Untouched ==
    \/ isProtocolUpgrade
    \/ up.status >= 400 /\ up.route # "graphql"
    \/ up.route = "elastic"

LeaveUntouched ==
    /\ pc = "modify" /\ Untouched /\ pc' = "stream"
    /\ UNCHANGED <<limit, up, read, broke, resp, client>>

\* A body that is not labelled gzip is read as it is.
StartReading ==
    /\ pc = "modify" /\ ~Untouched /\ up.label # "gzip"
    /\ pc' = "readall"
    /\ UNCHANGED <<limit, up, read, broke, resp, client>>

\* gzip.NewReader is called, which reads the gzip header from the upstream.
OpenGzip ==
    /\ pc = "modify" /\ ~Untouched /\ up.label = "gzip"
    /\ pc' = "gunzip"
    /\ UNCHANGED <<limit, up, read, broke, resp, client>>

\* The body starts with a gzip header.
IsGzip(body) == body.coding = "gzip" /\ body.units > 0

\* The upstream has yet to send bytes, or the chunk that ends its body.
MoreToCome == read < up.body.units \/ up.chunked

GzipReaderOpens ==
    /\ pc = "gunzip" /\ IsGzip(up.body)
    /\ pc' = "readall"
    /\ UNCHANGED <<limit, up, read, broke, resp, client>>

\* gzip.NewReader fails and the response is passed through, less the bytes its
\* bufio.Reader has already taken from the body (at least one, up to 4096).
GzipReaderFails ==
    /\ pc = "gunzip" /\ ~IsGzip(up.body)
    /\ \E taken \in 0 .. up.body.units :
          /\ taken = 0 => up.body.units = 0
          /\ resp' = [resp EXCEPT !.body.units = @ - taken,
                                  !.json = up.route = "graphql"]
    /\ pc' = "stream"
    /\ UNCHANGED <<limit, up, read, broke, client>>

\* The connection breaks within the gzip header: passed through as well, and
\* the copy to the client meets the same read error.
GzipHeaderCut ==
    /\ pc = "gunzip" /\ MoreToCome
    /\ pc' = "done" /\ broke' = TRUE /\ Abort
    /\ UNCHANGED <<limit, up, read, resp>>

\* Variants: no LimitReader at all, and one without the spare byte.
VariantNoLimitReader == MaxUnits + 1
VariantNoSpareByte == limit

\* MaxResponseBytes + 1 in int64 arithmetic: what io.LimitReader is given.
ReaderLimit == IF limit = MaxInt THEN -1 - MaxInt ELSE limit + 1

\* One unit travels from the upstream into io.ReadAll's buffer.
ReadUnit ==
    /\ pc = "readall" /\ read < up.body.units /\ read < ReaderLimit
    /\ read' = read + 1
    /\ UNCHANGED <<limit, up, pc, broke, resp, client>>

\* io.ReadAll is not done before the upstream has sent more: body, gzip trailer
\* or last chunk.
Owed == read < ReaderLimit /\ (MoreToCome \/ up.label = "gzip")

\* The upstream stops short, or the gzip trailer does not check.
ReadFails ==
    /\ pc = "readall" /\ Owed
    /\ broke' = TRUE /\ resp' = [resp EXCEPT !.body = None]
    /\ ErrorHandler

ReadEnds ==
    /\ pc = "readall" /\ (read = up.body.units \/ read >= ReaderLimit)
    /\ pc' = "limit"
    /\ UNCHANGED <<limit, up, read, broke, resp, client>>

\* Variant: off by one.
VariantTooLargeOffByOne == read > limit + 1

TooLarge == read > limit

RefuseTooLarge ==
    /\ pc = "limit" /\ TooLarge
    /\ resp' = [resp EXCEPT !.body = None]
    /\ ErrorHandler /\ UNCHANGED broke

WithinLimit ==
    /\ pc = "limit" /\ ~TooLarge /\ pc' = "mask"
    /\ UNCHANGED <<limit, up, read, broke, resp, client>>

-----------------------------------------------------------------------------
(* Masking and setBody.                                                    *)

\* Variant: the raw body is handed to the masker, gzip or not.
VariantNotDecompressed ==
    [coding |-> up.body.coding, units |-> read,
     content |-> IF read = 0 THEN "text" ELSE up.body.content]

\* The bytes in the buffer: decoded if the reader was a gzip reader.
Buffered ==
    [coding |-> IF up.label = "gzip" THEN "identity" ELSE up.body.coding,
     units |-> read,
     content |-> IF read = 0 THEN "text" ELSE up.body.content]

\* MaskResponseBody, MaskElasticResponseBody, MaskGraphQLResponseBody: what a
\* masker makes of these bytes.  A coded body is not JSON to any of them, and
\* what the log maskers cannot read, or find nothing in, comes back as it is.
Masked(b) ==
    IF b.coding = "identity" /\ b.content = "governed"
    THEN [b EXCEPT !.content = "masked"]
    ELSE IF up.route = "graphql" /\ (b.coding # "identity" \/ b.content = "text")
         THEN Own("envelope")
         ELSE b

\* Variants: a header setBody has to bring in line is left as it was.
VariantKeepEncoding(r, b) == [r EXCEPT !.body = b, !.length = b.units]
VariantKeepLength(r, b) == [r EXCEPT !.body = b, !.label = "identity"]

SetBody(r, b) == [r EXCEPT !.body = b, !.label = "identity", !.length = b.units]

MaskAndSetBody ==
    /\ pc = "mask" /\ pc' = "copy"
    /\ resp' = [SetBody(resp, Masked(Buffered)) EXCEPT !.json = up.route = "graphql"]
    /\ UNCHANGED <<limit, up, read, broke, client>>

-----------------------------------------------------------------------------
(* httputil.ReverseProxy and net/http deliver the response.                *)

\* A body where none is allowed, or of another length than announced: the
\* handler is aborted and the connection closed.
Writable(r) ==
    /\ r.body.units > 0 => BodyAllowed(r.status)
    /\ r.length \in {Unknown, r.body.units}

\* A 101 to a request that asked for no upgrade; guardGraphQLRequest lets no
\* upgrade request through to a GraphQL upstream.
UnaskedUpgrade == up.status = 101 /\ up.route = "graphql"

CopyResponse ==
    /\ pc = "copy" /\ pc' = "done"
    /\ IF Writable(resp) THEN Answer(resp) ELSE Abort
    /\ UNCHANGED <<limit, up, read, broke, resp>>

StreamResponse ==
    /\ pc = "stream" /\ ~UnaskedUpgrade /\ pc' = "done"
    /\ IF Writable(resp) THEN Answer(resp) ELSE Abort
    /\ UNCHANGED <<limit, up, read, broke, resp>>

RefuseUpgrade ==
    pc = "stream" /\ UnaskedUpgrade /\ ErrorHandler /\ UNCHANGED <<broke, resp>>

StreamBreaks ==
    /\ pc = "stream" /\ (resp.body.units > 0 \/ up.chunked)
    /\ pc' = "done" /\ broke' = TRUE /\ Abort
    /\ UNCHANGED <<limit, up, read, resp>>

Done == pc = "done" /\ UNCHANGED vars

Next ==
    \/ Connected \/ ConnectFails \/ HeadersArrive \/ ResponseHeaderTimeout
    \/ LeaveUntouched \/ StartReading
    \/ OpenGzip \/ GzipReaderOpens \/ GzipReaderFails \/ GzipHeaderCut
    \/ ReadUnit \/ ReadFails \/ ReadEnds \/ RefuseTooLarge \/ WithinLimit
    \/ MaskAndSetBody \/ CopyResponse \/ StreamResponse \/ StreamBreaks
    \/ RefuseUpgrade
    \/ Done

\* The header timer fires, and the proxy's own code runs where it waits for
\* nobody.  No timer makes the upstream accept the connection or send its body,
\* gzip header and trailer included, or the client (the server has no
\* WriteTimeout) take the response: those steps are not fair.
Fairness ==
    /\ WF_vars(ResponseHeaderTimeout)
    /\ WF_vars(LeaveUntouched \/ StartReading \/ OpenGzip)
    /\ WF_vars(GzipReaderFails /\ ~MoreToCome)
    /\ WF_vars(ReadEnds /\ ~Owed)
    /\ WF_vars(RefuseTooLarge \/ WithinLimit)
    /\ WF_vars(MaskAndSetBody) /\ WF_vars(RefuseUpgrade)

Spec == Init /\ [][Next]_vars /\ Fairness

-----------------------------------------------------------------------------
(* Properties.                                                             *)

Complete == client.verdict = "complete"
Rewritten == ~Untouched
OwnAnswer == client.body.content \in {"badgateway", "envelope"}

\* A complete answer carries the whole of the upstream's document, masked or
\* not, or an answer of the proxy's own: no part of a document is ever served
\* as all of it.  The one limit it does not hold for is MaxInt64, whose
\* successor makes io.LimitReader read nothing.
WholeOrRefused ==
    Complete /\ Honest(up) /\ limit < MaxInt
        => OwnAnswer \/ client.body.units = up.body.units

\* The Content-Encoding the client is given is the coding of the bytes it is
\* given, through decompression, rewriting and every passthrough.
LabelMatchesBody ==
    Complete /\ Honest(up) => client.label = client.body.coding

\* A document with a governed value is delivered unmasked only where the code
\* means to leave it: error statuses and non-search paths of the log backends.
MaskedUnlessExempt ==
    Complete /\ Honest(up) /\ client.body.content = "governed" => Untouched

\* The buffer limit decides alone: of the responses that are rewritten, the
\* ones above it, and no others, become the proxy's 502 (a broken upstream
\* aside), whatever their coding and framing.
RefusedExactlyWhenTooLarge ==
    Complete /\ Honest(up) /\ Rewritten /\ ~broke /\ limit < MaxInt /\ up.status # 502
        => (client.status = 502 <=> up.body.units > limit)

\* What the answer's header and body say of being JSON.
AnswersJSON ==
    /\ client.json /\ client.body.coding = "identity"
    /\ client.body.content \in {"governed", "clean", "masked", "envelope"}

\* Every answer on /graphql is JSON under a JSON Content-Type, gateway errors,
\* upstream error pages, unknown codings and refused upgrades included, but for
\* three kinds of response: one with an "Upgrade: websocket" header, taken for a
\* handshake whatever its status; one labelled gzip whose body has no gzip
\* header, which is passed through; and an object with trailing data, because
\* MaskDocument never reads past the object.  README.md says "always" of all.
GraphQLAnswersJSON ==
    Complete /\ up.route = "graphql"
        => \/ AnswersJSON
           \/ up.websocket
           \/ up.label = "gzip" /\ ~IsGzip(up.body)
           \/ up.body.content = "tail"

\* The client's connection is torn down only if the upstream's was, except
\* for the envelope written to a status that allows no body.
AbortedOnlyWhenBroken ==
    client.verdict = "aborted"
        => broke \/ ~Honest(up) \/ (up.route = "graphql" /\ ~BodyAllowed(up.status))

\* What README.md says of MAX_RESPONSE_BYTES: "Skip masking above this size".
\* The code refuses such a response instead.
OversizeSkipsMasking ==
    Complete /\ Honest(up) /\ ~broke /\ up.body.units > limit
        => client.body.content = up.body.content

\* What README.md says of a CORS preflight, which upstreams commonly answer
\* with 204: it passes.  The code writes an envelope into the 204, and net/http
\* aborts the exchange.
PreflightPasses ==
    up.route = "graphql" /\ up.status = 204 /\ client.verdict = "aborted" => broke

\* What the code's log line says of a failing gzip reader: "passthrough".  The
\* reader has taken the start of the body by then.
GzipFailurePassesThrough ==
    Complete /\ up.label = "gzip" /\ up.body.coding = "identity"
        => OwnAnswer \/ client.body.units = up.body.units

\* Where an exchange may stand still: the upstream has yet to accept the
\* connection, or to send the rest of a gzip header or of the body, or the
\* response is on its way to the client.
WaitsOnPeer ==
    \/ pc \in {"connect", "stream", "copy"}
    \/ pc = "gunzip" /\ MoreToCome
    \/ pc = "readall" /\ Owed

\* An exchange ends, or it waits on a peer for ever.  The wait for headers is
\* bounded, and nothing waits for bytes that are not owed: a body of the
\* announced length, or one that has reached the limit, is read no further.
HangsOnlyOnPeers == <>(pc = "done") \/ <>[]WaitsOnPeer
=============================================================================
