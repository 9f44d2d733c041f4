---------------------------- MODULE RequestGuard ----------------------------
(***************************************************************************)
(* The guard in front of the /graphql upstream                             *)
(* (internal/proxy/graphql_request.go): checkGraphQLRequest and the token  *)
(* walk of queriesFromJSON.  The client writes its JSON body one token at  *)
(* a time, in any legal or illegal way, and the guard reads along; what    *)
(* has been read of the body is kept, because the same bytes are what the  *)
(* upstream parses, by rules of its own, if the request is forwarded.      *)
(*                                                                         *)
(* A query text is a member of Documents, known only by whether gqlparser  *)
(* accepts it and whether it holds an alias.                               *)
(***************************************************************************)
EXTENDS Naturals, Sequences, FiniteSets

CONSTANTS
    Keys,           \* names of object members and URL parameters
    QueryKeys,      \* those that are "query" under case folding
    Documents,      \* query texts
    Unparseable,    \* those the parser rejects (syntax, or too many tokens)
    WithAlias,      \* those with a field renamed by an alias
    Empty,          \* the empty text, which parses as a document of nothing
    Null, Other,    \* the JSON null, and any value that is not a string
    MaxElements,    \* bound: elements of a batch explored
    MaxParams       \* bound: parameters of the URL explored

ASSUME KeysAssumption == QueryKeys \subseteq Keys
ASSUME DocumentsAssumption ==
    /\ Unparseable \subseteq Documents \ {Empty}
    /\ WithAlias \subseteq Documents \ {Empty}
    /\ Empty \in Documents
ASSUME ValuesAssumption == Null \notin Documents /\ Other \notin Documents /\ Null # Other

VARIABLES
    head,       \* the request line and headers
    pc,
    batch,      \* the body is an array of request objects
    sent,       \* the request objects read so far
    element,    \* the members read of the current one
    seen, query, queryKeys,     \* locals of queryFromObject
    queries,    \* queries found, in the URL and in the body
    checked,    \* those checkQuery has passed
    code        \* the refusal's code

vars == <<head, pc, batch, sent, element, seen, query, queryKeys, queries, checked, code>>

Values == Documents \union {Null, Other}
Members == [key : Keys, value : Values]

Heads == [method : {"GET", "POST", "OPTIONS", "PUT"}, upgrade : BOOLEAN,
          json : BOOLEAN,       \* Content-Type is application/json
          body : {"none", "fits", "above"},     \* against maxGraphQLRequestBytes
          params : {ps \in SUBSET (Keys \X Documents) : Cardinality(ps) <= MaxParams}]

Walking == {"first", "object", "array", "trailing"}

Codes == {"WEBSOCKET_NOT_ALLOWED", "UNSUPPORTED_REQUEST", "REQUEST_TOO_LARGE",
          "INVALID_REQUEST", "QUERY_REQUIRED", "GRAPHQL_PARSE_FAILED",
          "ALIASES_NOT_ALLOWED"}

TypeOK ==
    /\ head \in Heads
    /\ pc \in {"start", "method", "buffer", "check", "forwarded", "refused"} \union Walking
    /\ batch \in BOOLEAN
    /\ sent \in Seq(Seq(Members)) /\ element \in Seq(Members)
    /\ seen \in SUBSET Keys
    /\ query \in Documents
    /\ queryKeys \in 0 .. 1
    /\ queries \in SUBSET Documents /\ checked \in SUBSET queries
    /\ code \in Codes \union {"none"}

Init ==
    /\ head \in Heads
    /\ pc = "start" /\ batch = FALSE /\ sent = <<>> /\ element = <<>>
    /\ seen = {} /\ query = Empty /\ queryKeys = 0
    /\ queries = {} /\ checked = {} /\ code = "none"

Reject(c) == pc' = "refused" /\ code' = c
locals == <<seen, query, queryKeys>>
body == <<batch, sent, element>>

-----------------------------------------------------------------------------
(* checkGraphQLRequest.                                                    *)

\* Variant: the exact name only.
VariantExactKey(k) == k = "query"

isQueryKey(k) == k \in QueryKeys

RefuseUpgrade ==
    /\ pc = "start" /\ head.upgrade
    /\ Reject("WEBSOCKET_NOT_ALLOWED")
    /\ UNCHANGED <<head, body, locals, queries, checked>>

\* Every copy of ?query= under any casing, on any method.  params are the pairs
\* that r.URL.Query() reads: one with a semicolon or a bad escape it drops, and
\* the upstream, which is sent the query string as it came, is taken to do so too.
CollectParams ==
    /\ pc = "start" /\ ~head.upgrade /\ pc' = "method"
    /\ queries' = {p[2] : p \in {q \in head.params : isQueryKey(q[1])}}
    /\ UNCHANGED <<head, body, locals, checked, code>>

ForwardOptions ==
    /\ pc = "method" /\ head.method = "OPTIONS" /\ pc' = "forwarded"
    /\ UNCHANGED <<head, body, locals, queries, checked, code>>

\* GET and HEAD, which the code treats alike.
AcceptGet ==
    /\ pc = "method" /\ head.method = "GET" /\ head.body = "none" /\ pc' = "check"
    /\ UNCHANGED <<head, body, locals, queries, checked, code>>

RefuseMethod ==
    /\ pc = "method"
    /\ \/ head.method = "PUT"
       \/ head.method = "GET" /\ head.body # "none"
       \/ head.method = "POST" /\ ~head.json
    /\ Reject("UNSUPPORTED_REQUEST")
    /\ UNCHANGED <<head, body, locals, queries, checked>>

AcceptPost ==
    /\ pc = "method" /\ head.method = "POST" /\ head.json /\ pc' = "buffer"
    /\ UNCHANGED <<head, body, locals, queries, checked, code>>

-----------------------------------------------------------------------------
(* readGraphQLBody and queriesFromJSON.                                    *)

RefuseTooLarge ==
    /\ pc = "buffer" /\ head.body = "above"
    /\ Reject("REQUEST_TOO_LARGE")
    /\ UNCHANGED <<head, body, locals, queries, checked>>

BufferBody ==
    /\ pc = "buffer" /\ head.body # "above" /\ pc' = "first"
    /\ UNCHANGED <<head, body, locals, queries, checked, code>>

\* The client's connection fails while the body is read, or the decoder meets
\* a token it cannot accept where it stands: bad syntax, an early end, a body
\* or batch element that is no object, an empty batch, data after the body.
RefuseBody ==
    /\ pc \in Walking \union {"buffer"}
    /\ pc = "buffer" => head.body # "above"
    /\ Reject("INVALID_REQUEST")
    /\ UNCHANGED <<head, body, locals, queries, checked>>

OpenArray ==
    /\ pc = "first" /\ head.body = "fits" /\ pc' = "array" /\ batch' = TRUE
    /\ UNCHANGED <<head, sent, element, locals, queries, checked, code>>

\* Variant: the locals survive from one element of a batch to the next.
VariantStaleSeen == UNCHANGED seen /\ query' = Empty /\ queryKeys' = 0

FreshLocals == seen' = {} /\ query' = Empty /\ queryKeys' = 0

\* '{' as the body or as the next element of a batch: queryFromObject begins.
OpenObject ==
    /\ \/ pc = "first" /\ head.body = "fits"
       \/ pc = "array" /\ Len(sent) < MaxElements
    /\ pc' = "object" /\ element' = <<>>
    /\ FreshLocals
    /\ UNCHANGED <<head, batch, sent, queries, checked, code>>

\* Variant: a second query key is not refused, the last one counts.
VariantAnyNumberOfKeys(k) == FALSE

SecondQueryKey(k) == isQueryKey(k) /\ queryKeys = 1

\* One member of the current object.
AcceptMember(k, v) ==
    /\ pc = "object"
    /\ k \notin seen /\ ~SecondQueryKey(k) /\ (isQueryKey(k) => v # Other)
    /\ seen' = seen \union {k}
    /\ queryKeys' = IF isQueryKey(k) THEN queryKeys + 1 ELSE queryKeys
    /\ query' = IF isQueryKey(k) /\ v # Null THEN v ELSE query
    /\ element' = Append(element, [key |-> k, value |-> v])
    /\ UNCHANGED <<head, pc, batch, sent, queries, checked, code>>

RefuseMember(k, v) ==
    /\ pc = "object"
    /\ k \in seen \/ SecondQueryKey(k) \/ (isQueryKey(k) /\ v = Other)
    /\ Reject("INVALID_REQUEST")
    /\ element' = Append(element, [key |-> k, value |-> v])
    /\ UNCHANGED <<head, batch, sent, locals, queries, checked>>

\* Variant: an object without query text is let through.
VariantHasText == TRUE

HasText == query # Empty

CloseObject ==
    /\ pc = "object" /\ HasText
    /\ queries' = queries \union {query}
    /\ sent' = Append(sent, element)
    /\ pc' = IF batch THEN "array" ELSE "trailing"
    /\ UNCHANGED <<head, batch, element, locals, checked, code>>

RefuseNoText ==
    /\ pc = "object" /\ ~HasText
    /\ Reject("QUERY_REQUIRED")
    /\ UNCHANGED <<head, body, locals, queries, checked>>

CloseArray ==
    /\ pc = "array" /\ sent # <<>> /\ pc' = "trailing"
    /\ UNCHANGED <<head, body, locals, queries, checked, code>>

EndOfBody ==
    /\ pc = "trailing" /\ pc' = "check"
    /\ UNCHANGED <<head, body, locals, queries, checked, code>>

-----------------------------------------------------------------------------
(* The queries are checked one by one; those from the URL in map order.    *)

RefuseNoQuery ==
    /\ pc = "check" /\ queries = {}
    /\ Reject("QUERY_REQUIRED")
    /\ UNCHANGED <<head, body, locals, queries, checked>>

\* checkQuery.
PassQuery(d) ==
    /\ pc = "check" /\ d \in queries \ checked
    /\ d \notin Unparseable /\ d \notin WithAlias
    /\ checked' = checked \union {d}
    /\ UNCHANGED <<head, pc, body, locals, queries, code>>

RefuseQuery(d) ==
    /\ pc = "check" /\ d \in queries \ checked
    /\ \/ d \in Unparseable /\ Reject("GRAPHQL_PARSE_FAILED")
       \/ d \in WithAlias \ Unparseable /\ Reject("ALIASES_NOT_ALLOWED")
    /\ UNCHANGED <<head, body, locals, queries, checked>>

Forward ==
    /\ pc = "check" /\ queries # {} /\ checked = queries /\ pc' = "forwarded"
    /\ UNCHANGED <<head, body, locals, queries, checked, code>>

Done == pc \in {"forwarded", "refused"} /\ UNCHANGED vars

Next ==
    \/ RefuseUpgrade \/ CollectParams \/ ForwardOptions \/ AcceptGet \/ RefuseMethod
    \/ AcceptPost \/ RefuseTooLarge \/ BufferBody \/ RefuseBody
    \/ OpenArray \/ OpenObject \/ CloseObject \/ RefuseNoText \/ CloseArray \/ EndOfBody
    \/ \E k \in Keys, v \in Values : AcceptMember(k, v) \/ RefuseMember(k, v)
    \/ RefuseNoQuery \/ Forward
    \/ \E d \in Documents : PassQuery(d) \/ RefuseQuery(d)
    \/ Done

Spec == Init /\ [][Next]_vars

-----------------------------------------------------------------------------
(* Properties.                                                             *)

Clean == Documents \ (Unparseable \union WithAlias)

\* What some upstream may take for the query of an object: any member, if it
\* keeps the first or the last of several, whose name it folds or not.
Bindable(e) ==
    {e[i].value : i \in {j \in DOMAIN e : e[j].key \in QueryKeys}} \ {Null}

\* Whatever the upstream's way to bind parameters (first or last copy wins,
\* names folded or exact, URL before body or after), if it reads the same pairs
\* of the URL as the guard and the same JSON, every query it may run
\* for a forwarded request is one that was parsed and found free of aliases.
\* OPTIONS is exempt: nothing executes on it.
ExecutedIsChecked ==
    pc = "forwarded" /\ head.method # "OPTIONS" =>
        /\ \A p \in head.params : p[1] \in QueryKeys => p[2] \in checked \intersect Clean
        /\ \A i \in DOMAIN sent : Bindable(sent[i]) \subseteq checked \intersect Clean

\* Every operation of a forwarded body carries its query text, each element of
\* a batch included: none can name a query the guard has not seen.
EveryOperationHasText ==
    pc = "forwarded" /\ head.method = "POST" =>
        sent # <<>> /\ \A i \in DOMAIN sent : Bindable(sent[i]) \ {Empty} # {}

\* An object as a correct client writes it.
WellFormed(e) ==
    /\ \A i, j \in DOMAIN e :
          e[i].key = e[j].key \/ {e[i].key, e[j].key} \subseteq QueryKeys => i = j
    /\ Bindable(e) \subseteq Documents

\* All the query texts a request carries, as far as it has been read.
Carried ==
    {p[2] : p \in {q \in head.params : q[1] \in QueryKeys}}
        \union UNION {Bindable(sent[i]) : i \in DOMAIN sent}

\* What causes a refusal for what a request says: a member spoils its own
\* object, whatever stood in earlier ones of the batch; an object lacks its
\* text; or a text the request carries is at fault.
RefusalHasCause ==
    pc' = "refused" /\ pc # "refused" =>
        /\ element' # element => ~WellFormed(element')
        /\ code' = "QUERY_REQUIRED" => Bindable(element) \subseteq {Empty}
        /\ code' = "ALIASES_NOT_ALLOWED" => Carried \intersect WithAlias # {}
        /\ code' = "GRAPHQL_PARSE_FAILED" => Carried \intersect Unparseable # {}

\* No correct request is refused for what it says.
RefusedWithCause == [][RefusalHasCause]_vars
=============================================================================
