# Formal models of mysterio

mysterio is a reverse proxy that masks personal data in what Loki, Elasticsearch
and a GraphQL service answer. This directory holds TLA+ models of it, the TLC
configurations that check them on small instances, and proofs checked by TLAPS.
`PROJECT.json` lists the runs, the theorems, the source lines every definition
stands for, the known disagreements between code and documents, and the hazards
the properties are aimed at.

Run a check with `tlc -config MCResponsePipeline.cfg MCResponsePipeline`, a proof
with `tlapm ResponsePipelineProofs.tla`.

## The system

| Component | State | Operations | Correct when |
|---|---|---|---|
| Response pipeline (`internal/proxy/proxy.go`) | per exchange: the `http.Response`, the buffered body | round trip, `ModifyResponse`, `modifyResponseBody`, `setBody`, `ErrorHandler` | what is delivered is whole, masked, labelled as it is coded, or an answer of the proxy's own; an exchange hangs on its peers only |
| Request guard (`internal/proxy/graphql_request.go`) | per request: queries found; per request object: `seen`, `query`, `queryKeys` | `checkGraphQLRequest`, `readGraphQLBody`, `queriesFromJSON`, `queryFromObject`, `checkQuery`, `findAlias` | every query the upstream may run was checked; correct requests pass |
| GraphQL document masking (`internal/masker/graphql.go`) | patterns, fixed at start; per document: output, `changed`, the recursion's path and rule | `NewGraphQL`, `MaskDocument`, `docWriter`, `match`, `maskString`, `maskEmbedded` | each leaf is rewritten by the rule the ranking names, nothing else changes, nothing partial is delivered |
| GraphQL envelope (`internal/proxy/rewrite_graphql.go`) | none | `MaskGraphQLResponseBody`, `graphQLErrorEnvelope`, `truncateUTF8` | always JSON; the excerpt is masked before it is cut |
| Log masker (`internal/masker/masker.go`), tokens (`internal/token`) | rules, key; fixed at start | `Apply`, `walk`, `maskEmbeddedJSON`, `applyTextRules`, `ApplyStrings` | every rule is applied, tokens are equal for equal values, masking twice is masking once |
| Loki and Elasticsearch rewriters (`rewrite.go`, `rewrite_elastic.go`) | none | `MaskResponseBody`, `MaskElasticResponseBody` | every log line is masked, the rest of the document is kept |
| Process (`main.go`) | listener, signal channel, exchanges in flight | start, serve, `Shutdown` | a signal ends the process in order and in bounded time |
| Configuration (`configs/config.go`) | `Config`, fixed at start | `Load`, `LoadRules`, validations | no process starts that would proxy unmasked |
| `/test-me` (`internal/testme`) | none | page, rules, mask, hmac | the preview masks as the proxy does |
| Request logging (`internal/proxy/logging.go`) | none | `withLogging` | no effect |

A request enters `NewHandler`'s mux. On `/graphql` the guard reads and checks it
first; then `httputil.ReverseProxy` sends it on, and calls `ModifyResponse` when
the headers have come. That buffers the body, calls the backend's masker and puts
the result back; any error on the way calls `ErrorHandler`. Exchanges run
concurrently and share the configuration and the maskers, none of which changes
after start. So there are no races between exchanges: what is hard is inside one
of them. It is the order of failures (headers, gzip header, body, trailer,
copying), the arithmetic at the limit, headers that go stale when the body is
rewritten, the client's freedom to write a body in ways parsers disagree about,
slices that share arrays along a recursion, and waits that nothing ends. Between
the listener's goroutine, the main goroutine and signals there is real concurrency.

## The modules

### ResponsePipeline

One exchange, `pc` naming the place in the code it has reached:

| `pc` | code |
|---|---|
| `connect`, `await` | `http.Transport`: dial, wait for headers (30 s at most) |
| `modify` | `ModifyResponse` up to the choice of a reader |
| `gunzip` | `gzip.NewReader`, which reads the gzip header from the upstream |
| `readall` | `io.ReadAll` on the `LimitReader` |
| `limit` | the comparison with `MaxResponseBytes` |
| `mask` | the masker and `setBody` |
| `stream`, `copy` | the response left alone, or rewritten, on its way to the client |

A body is a number of units of some content in some coding; the limit is a number
of units, and so is the largest int64, because `MaxResponseBytes + 1` overflows
there. The upstream is any response: its `Content-Encoding` may be wrong, it may
be chunked, of any status in `Statuses`, have an `Upgrade: websocket` header, or
break at any point. Masking is known only by its effect on the content (governed
document, clean document, document with trailing data, other text). What
`ReverseProxy` and `net/http` do with a response is external and modelled from
what the code hands them: a body for a status without one, or of another length
than announced, aborts the exchange.

Left out: HEAD requests, the Director's path rewriting and logging.

### RequestGuard

The client writes its JSON body one token at a time while `queriesFromJSON` reads
it: `OpenArray`, `OpenObject`, `AcceptMember`, `RefuseMember`, `CloseObject`,
`CloseArray`, `EndOfBody` are the tokens, `RefuseBody` is everything a decoder
rejects. The members read are kept in `sent` and `element`: the upstream gets the
same bytes and binds parameters by rules of its own (first copy, last copy, any
casing), which `Bindable` over-approximates. URL parameters are those that
`r.URL.Query()` reads; a pair it drops (a semicolon, a bad escape) is forwarded in the
query string, and the upstream is taken to drop it too. A query text is a member of
`Documents`, of which the parser rejects some and some hold an alias.

### GuardedQueries

Which texts hold an alias, by `findAlias` and `aliasIn`: `Parsed` gives each text
that parses its operations and fragments, a selection set being the selections in
it at any depth, each with the kinds of those around it (`around`). It extends
RequestGuard, whose constant `WithAlias` is assumed to be what `findAlias` finds, and
adds the upstream (external): an operation answers with its own fields and those of
the fragments it uses, itself or through other fragments. `AnswersUnderOwnNames`
composes the two: whatever the upstream may run of a forwarded request, each value
comes back under its field's own name, which the rules of the block go by. `guard`
runs this module's instance of the guard.

### KeyPaths, MaskedDocument, GraphQLDocument

`KeyPaths` has the patterns and the two sides of their ranking: `matches` and
`moreSpecificThan` are the code's, `Outranks`, `Anchors` and `Governor` say what
the block promises. `MaskedDocument` is the abstract specification: a document is
read, and the same tokens are delivered with each leaf rewritten by its governor,
or nothing is; what masking makes of tokens is its parameter `Masked`, which
`KeyPaths` defines. `GraphQLDocument` is `MaskDocument` with the recursion of
`docWriter` on an explicit stack and `match` as a scan, one candidate at a step.
It refines `MaskedDocument` (`DeliversMaskedDocument`).

Path slices are slices: `append` writes into the array behind the path when it
has room, else allocates with any spare capacity in `Spare`. `keys` beside each
slice is what it should hold (a ghost), and `SlicesHoldPaths` that it does.

`maskString` is a constant function of rule and text, `maskEmbedded` masks a
document of one leaf by that leaf's governor, and what follows the document's
last brace is not part of it, as in the code.

### Tokens, LogMasker

`Tokens` is `hashOrSkip` and what it calls. A text is a value as received (`Raw`), or
what masking made of one: `stars`, a fixed replacement, a token of the normalised text
it was made from, a token with words around it, a template that was expanded, a number
that went through a float64, a piece. Tokens of different texts differ. Whether a
normalisation leaves anything of a made text is a constant (`Remains`).

`LogMasker` follows one value through the masking of the response it is in. The value
is given by its path: the layers around it, members, elements, and strings that carry
JSON as a whole (`json`), after other words (`mixed`), in a way no decoder finds
(`lost`), or none (`bare`). Rules treat values independently, so one path is enough;
what a pattern does to text that holds several members is that it meets the value at
one of its keys.

| Action | code |
|---|---|
| `ApplyLine`, `WalkSource`, `ApplyStrings`, `Truncate` | the calls `Apply`, `WalkAndMask`, `ApplyStrings` and `truncateUTF8`, in the order `Stages` names for a Loki line, a `_source` with or without a message field, an excerpt |
| `MaskScalar`, `Descend`, `WalkEnds` | `walk` and `maskEmbeddedJSON`, one layer at a step |
| `ReplaceKeyed`, `CutOpen`, `ReplaceFormat`, `NoMatch` | `applyTextRules`, one pattern at a step, in the order of `textRules`: the three patterns of each key, then each regex and its escaped variant |
| `EndStage`, `RewriteAround`, `Deliver` | what `changed` decides, and which members of a Loki document are written back |

`json.Marshal` escapes some characters and decoding undoes it: `Escaped` says how a value
is spelled inside a string (`Spelled`), which is what a text rule hashes:
where only the text rules see a value, its token is that of the spelling. A fixed replacement is written as it
stands by the walk and expanded as a template by the patterns (`replaceMatch`); a rule
whose replacement has a `$`, or words around `{hmac}`, is a `template`. `InFloat` says
which numbers `MaskResponseBody` spells anew: wide ones beside the lines of a Loki body,
once a line was masked.

A regex rule is a key pattern, which has an escaped variant, or a format: a set of values.
Formats that span several values or meet a text that masking made, literal text of a key
pattern's own, and numbers with an exponent, of which a number pattern meets the digits
alone, are left out. The text masker of the graphql block is the masker `doc`; with
`log` it masks excerpts.

### Startup

The environment and the rules file, which operators edit at any time, and the process:
`starting` (`Load` up to `RULES_PATH`), `reading`, `checking` (`LoadRules` and the rest
of `Load`), `building` (`masker.New`, `NewGraphQL`, `NewHandler`), `serving` or
`exited`, and again. Rules are records of what the validations look at; a file that is
no YAML, or a pattern that is no regular expression, is a flag. The order of the checks
within one step is not kept, as every failure ends the same way. A serving process
answers `/test-me`: `GetRules`, `handleMask`, `handleHMAC`, and `BadRequest` for what
their guards refuse.

Beside `LoadRules`, a list of checks, stands what the maskers make of a rule, checked or
not: `expand` hashes the whole match for a group the pattern does not have, and knows no
normalisation but its own; `LogMakes` is the log masker, which looks up names of keys and
reads neither `keep_first` nor `replace_number`; `DocMakes` the document masker, which
keeps no part of a value it hashes; `Owner` the rule that wins a path which several
declare. `AsWritten` says that all this is what the rules say (`KeySays`). It says
nothing of two log rules on one key, of which the walk follows the last and the text
patterns the first, and nothing of words around `{hmac}` (`hmac_literal`): `LoadRules`
accepts both.

### Lifecycle

`main` is where the main goroutine stands, `listener` where the goroutine that calls
`ListenAndServe` stands, `conns` what became of each connection. A signal kills
before `Notify`, and goes into the channel of one after it if there is room. Of
net/http there is what matters to the order of things: `ListenAndServe` and `Serve`
look whether the server has been shut down, `Shutdown` closes the listener and the
connections without a request and waits for the others, or for its context. A
connection is `active` when net/http has marked it so. The moment between the last
byte of a request and that mark is part of `new`, where `Shutdown` closes
connections; nothing is said of a handler that still runs on one. A websocket tail
leaves the server's books (`Hijack`) when the upstream's 101 is passed on: `Shutdown`
does not wait for it and the end of the process drops it, which `CutWithCause` says
in so many words. `Shutdown` first waits for `Serve` to return, under no timer, and then
looks at the connections (`Polling`). The 15 s are an event that may happen whenever
`Shutdown` waits.

## The runs

| Run | Module | Shows |
|---|---|---|
| `response` | MCResponsePipeline | wholeness, labels, masking, the limit, always-JSON, no needless abort; termination up to the peers |
| `guard` | MCRequestGuard | what is forwarded was checked, has text and answers under its own names; what is refused has a cause |
| `document` | MCGraphQLDocument | slices, governing rule, `match`, and the refinement |
| `lifecycle` | MCLifecycle | who is cut and why, nobody stays up deaf, no signal is lost, a signal ends the process |
| `masker` | MCLogMasker | a value under a key or of a format is masked wherever walk or text rules see it, whole or cut; twice is once; nothing else changes |
| `startup` | MCStartup | what serves does what its rules say, only what would not is refused, and `/test-me` agrees with the process |
| `oversize` | MCResponsePipeline | README and docs say oversize responses are passed unmasked; they are refused |
| `gzip_failure` | MCResponsePipeline | the passthrough of a failing gzip reader lacks the body's beginning |
| `brotli` | MCResponsePipeline | a br body passed through loses its `Content-Encoding` |
| `preflight` | MCResponsePipeline | a 204 on `/graphql` is torn down by its envelope |
| `hmac_literal` | MCLogMasker | with text around `{hmac}`, a JSON log line gets the token of a decorated token |
| `hmac_key` | MCStartup | the docs say a set `MASK_HMAC_KEY` lets `/test-me` hash; without `{hmac}` in the rules it does not |

The last six expect a violation and are explained under "findings" in
`PROJECT.json`. Four more disagreements have no run of their own; the properties that
hold name them where they bear on them:

* `docs/instructions.md:150-151` says that a process with neither Loki nor Elasticsearch
  enabled does not start, and one with GraphQL alone does (`SomeBackend`).
* `README.md:100` of the repository says that the response on `/graphql` is always JSON.
  A body labelled gzip that `gzip.NewReader` refuses is passed on as it is, an empty one
  too: one of the three exceptions in `GraphQLAnswersJSON`.
* `docs/instructions.md:396-397` says that one IIN has one token in any field and
  backend. Of digits that is so, of values at large not: one that JSON spells with an
  escape has another token in a line that is not JSON as a whole, which is why
  `KeyedIsMasked` speaks of the spelling.
* The comment at `configs/config.go:206-208` says that an empty graphql block would
  let every response pass unmasked, and is refused. A block whose rules have no keys is
  not empty to `Load`, and does; `ServesOnlySound` counts rules too, as `Load` does.

Each property of a passing run has a mutant: a definition named `Variant...`, the
handler with a plausible bug, under which TLC finds the property violated.

### Bounds

* `response`: bodies of 0 to 4 units against limits 2, 4 and `MaxInt` = 5. A body is
  below, at, one above and two above a limit; a unit more adds no comparison.
  Five statuses, one of each kind the code or `net/http` tells apart, and 502,
  which an upstream may send itself.
* `guard`: two request objects in a batch, one URL parameter, three member names of
  which two fold to `query`, and one text of each kind (empty, good, aliased,
  unparseable). A member is refused for a repetition, so objects are bounded by
  the names. Two objects show what leaks from one to the next.
* `document`: eight tokens, nesting of three, two keys, five patterns with every
  kind of tie, and spare capacity 0 or 1. Paths of three keys are reached, and
  siblings that overwrite a shared array; documents of two leaves are delivered
  whole.
* `masker`: paths of up to two nested strings of JSON, two containers deep each; three
  keys (one hashed by the log rules, one with a fixed text, one that only the graphql
  block names), and values of each sort: two that normalise alike, one with nothing to
  hash, one that is escaped and its spelling, one wider than a float64, one with quotation
  marks, stars, a token, the empty string. A third string inside a string meets the same cases as the second: the walk
  takes it alike, and no pattern sees it.
* `startup`: files with one fault of each kind a check is for, alone, and the pairs of
  rules that are at odds; environments with one fault each, every choice of key and the
  interesting choices of backends.
* `lifecycle`: three connections, one of which may hang and one be a hijacked tail while
  the third ends or is cut, and two signals, of which one may be dropped.

In `guard` the queries parse as documents with an alias in each kind of place
(`MCRequestGuard`). Deadlock is checked in all runs; a finished exchange, and a masked
value, stutters (`Done`).

### Fairness

In ResponsePipeline: weak fairness on the header timer and on the proxy's own steps
where they wait for nobody. There is none on dialling, on the upstream's body or on the
client: `http.Transport` has a `ResponseHeaderTimeout` and nothing else, the server no
`WriteTimeout`. The upstream's body is read in two places, by `gzip.NewReader` for the
gzip header (`gunzip`) and by `io.ReadAll` (`readall`); their ends are fair only if no
byte is owed any more (`MoreToCome`, `Owed`). So `HangsOnlyOnPeers` says that an exchange
ends or waits for ever for a peer (`WaitsOnPeer`), and that a wait for the body is one for
bytes that are owed.

In Lifecycle: weak fairness on main's way to the receive and on the receive, on
`Shutdown`, its polling and its timer, and on `Serve` returning once its listener is
closed, which nothing holds up and `Shutdown` waits for. There is none on exchanges and
tails, so `EndsAfterSignal` needs the timer, and none on the rest of the listener's
goroutine.

LogMasker and Startup state none: masking a value is a sequential computation that
ends, and nothing obliges an operator to start a process.

## The proofs

`ResponsePipelineProofs`, `RequestGuardProofs`, `GuardedQueriesProofs`,
`GraphQLDocumentProofs`, `LogMaskerProofs`, `LifecycleProofs` and `StartupProofs` prove
every safety property that a passing run checks, and that `GraphQLDocument` implements
`MaskedDocument`, for all values of the constants. Assumed are the named
assumptions of the modules: limits between 1 and `MaxInt` (`Load` rejects others),
statuses that are statuses; in RequestGuard, that the empty text is neither
unparseable nor aliased; in KeyPaths, that patterns are not empty and belong to a
rule (`LoadRules` rejects others), and what masking yields.

The safety properties of a pipeline speak of its end, so they are not inductive.
`Stages` says what is true at each `pc`: the response is as received up to the
rewriting; only decodable bodies are read, those labelled gzip through `gunzip`;
`read` is the whole body or has reached
the reader's limit; after the limit check it is the whole body; what is streamed
is a response left alone or a mislabelled one. `IInv` is `TypeOK`, `Stages` and the
properties themselves. `LabelMatchesBody` and `MaskedUnlessExempt` are proved under
`Decodable` (upstreams use no coding but gzip); without it the `brotli` run refutes
the first.

In RequestGuard the strengthening is `ObjectInv` (the locals of `queryFromObject`
summarise the members read of the current object: `seen` its names, `queryKeys`
the number of query keys, `query` their text), `QueriesInv` (`queries` contains
what the URL and the closed objects may bind) and `StageInv`.

`KeyPathsProofs` has the lemmas on ranking and governors: the ranking is a strict
total order (so the best pattern is unique and a scan finds it), and the governor
of a child is the best pattern anchored at it or else its parent's governor. That
an inhabited set of anchors has a largest element would need an induction over the
path; instead the invariant carries it (`HasNearest`) from a place to its children,
as the recursion carries the rule.

In GraphQLDocument the invariant has four parts besides `TypeOK`. `SliceInv`: each
slice in use holds its path, and slices further down the stack are not shorter.
That is why sharing is harmless: `append` writes just beyond the end of the
innermost slice, which no slice in use reaches; longer ones belong to subtrees
already left. `GovernedInv`: places on the stack are governed by their nearest anchors.
`ScanInv`: among the patterns `match` has looked
at, `best` matches and outranks the others that do, and those in neither list
cannot match (`MatchingByLast`). `WrittenInv`: each token written is the one read as
its governor has it, and `changed` is FALSE only if nothing differs. The refinement
follows: `Finish` is `Deliver` because of `WrittenInv` in the state it leads to, the
other emitting steps are `Read`, and the steps of `match` stutter.

In Lifecycle, `StageInv` says that nothing is cut while the process is up, that no
connection is in hand before the listener accepts, that `inShutdown` and the timer
belong to main's last stage, and that signals count only after `Notify`; with it the
properties are inductive.

In GuardedQueriesProofs, `NoAliasNoRenaming` says of every document what `findAlias`
promises: it looks at all fragments, so those an operation uses are among them. With
`ForwardsOnlyChecked` of RequestGuardProofs it gives `AnswersKeepNames`.

`LoadRulesIsExact` proves of every rules file that `LoadRules` accepts it if and only if
it is `AsWritten` and not `Pointless` (a graphql path of wildcards alone, or one that its
own rule declares twice). `Expands` shows what of a replacement the maskers follow, and
`DocumentRule` the same of `keep_first` and `keep_last`. The hard part is the paths: that
the checks of each rule against those before it (`seen`) amount to each path being won by
the rule that declares it (`SeenIsEnough`, `OwnersDeclare`). The invariant of Startup
says, for each stage, which checks `data` has passed and where `tok` comes from; its
properties follow with that lemma, and `HashIsSearchable` from the two definitions of a
token (`PageToken` and `hashOrSkip`) agreeing on every value that is not empty.

`LogMaskerProofs` proves `HashedOnce`: what `hashOrSkip` made, no second pass hashes
again, under any normalisation. It proves type correctness of LogMasker, of which the
shape of the path is the hard part: `IInv` says which stages each route may have ahead
(`Ahead`, `StageInv`), that a line is a string of the path which stays where it is, and
that the walk stands on a container below it (`LineInv`), and the lemmas `CutPath` and
`Relabelled` that every rewriting of a path leaves a path. `LeavesTheRest` proves
`NothingElseChanges` for any rules, values and paths: `KeepInv` says that a value no rule
covers is where and what it was until an excerpt is cut or a Loki body written anew,
because whatever the walk or a
pattern replaces, some rule of the masker at work names (`RuleHeld`, `TextRulesNamed`).

The other four follow one value through every stage of its route and every pattern of a
line in their order. Each invariant says that the rule which must act is still to come,
or has done its work in a way that no later step undoes:

* `CallInv` is what the calls of a stage have in hand: the masker of the stage, the
  line, the first pattern, and that `changed` is FALSE only while nothing differs.
* `FormatInv`, for `FormatIsMasked`: a matching value is still as it was sent and the
  pass has not come to the format (`FormatAhead`), or it no longer shows. It needs no
  hypothesis: whatever an earlier rule makes of a value that is no token is neither the
  value nor a piece of it (`NothingShows`, `StaysHidden`).
* `KeyInv`, for `KeyedIsMasked` and `ExcerptIsMasked`: the walk is above the key, with
  only strings it can decode in between (`WalkAbove`), or no pattern up to the current
  one meets the key (`KeyAhead`); or the value is made (`KeyDone`). `KeyInText` has the
  hard case, another pattern that meets the line first: `OuterStrings` and `MeetsOnce`
  say that of two keys a pattern meets, the outer one has the inner one in its string.
* `TwiceInv`, for `MaskedTwice`: at the end of the first pass the line is `Settled`.
  Walk and patterns would find nothing, or only what they would replace by itself
  (`AtRest`). In the first pass this holds of the patterns so far (`PassedAtRest`), so
  every way of replacing must not create a match for an earlier pattern: `RestKeyed`,
  `RestCut`, `RestRelabel` and `RestFormat` show that for the four.

Three hypotheses on the rules appear in these theorems, each stated at the end of
`LogMasker`. With rules that break any one of them TLC refutes `MaskedTwice`, and
`MCAssumption` checks that the rules of the `masker` run keep all three.

* `FormatsSpareTokens` (`KeysMasked`, `MasksOnce`): no format matches a token. A format
  that does replaces what a key's rule has made.
* `OneReplacement` (`MasksOnce`): the log rules naming a key replace it alike, without
  words around `{hmac}` or a `$` in a fixed text. With such words the text pass leaves a
  text that the next pass hashes again; that is what `hmac_literal` shows.
* `FormatsReadPlain` (`MasksOnce`): what a format matches is spelled alike inside a JSON
  string and outside, has no quotation mark and is not `true`, `false` or `null`. A key
  pattern cuts a string open at a quotation mark; what was inside then stands in the
  open, and a format the escaped spelling evaded matches it in the next pass.

Nothing in `LoadRules` enforces the three; they are conditions on the rules an operator
writes. `KeyedIsMasked` carries its own: one replacement names the key, and
a rule of `json_keys` does, because the walk knows no regex rules. Of values
`SpellingAssumption` asks that a token has no quotation mark and nothing to escape (`~`
and base64url digits, `alreadyToken` in `token.go`), and that a text with JSON in it is
no token.

Model-checked only: `HangsOnlyOnPeers` and `EndsAfterSignal`; liveness is beyond the
prover.

## Plan

Everything that keeps state is modelled. What is left, most useful first:

1. Formats that match several values at once, and key patterns with literal text of
   their own around the captured value.
2. The Director's paths: what `StripPrefix` and `normalizeLokiUpstreamPath` make of the
   two forms Grafana sends, against what a Loki behind a gateway expects.
3. `maskString` and `ApplyText` in GraphQLDocument by the operators of Tokens instead of a
   constant, so that a leaf's token and a log line's token are compared.

## Not modelled

Logging (`withLogging`) only writes lines. The `/test-me` page and its vendored assets,
Docker, Grafana and CI files hold no program state. The Director's path rewriting and
`HEAD` requests are left out of the pipeline. `NewHandler`'s errors for upstream URLs
are unreachable after `Load` has parsed them. YAML, regular expressions and the GraphQL
grammar are external: what they yield is a constant or a flag.
