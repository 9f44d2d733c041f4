------------------------------- MODULE Startup -------------------------------
(***************************************************************************)
(* From the environment and the rules file to a process that serves        *)
(* (configs/config.go, main.go, NewHandler in internal/proxy/proxy.go),    *)
(* and the /test-me page of that process (internal/testme/testme.go).      *)
(*                                                                         *)
(* Operators edit the rules file and the environment at any time; a        *)
(* process reads each once.  A replacement is known by its placeholders,   *)
(* a key by its path segments.                                             *)
(***************************************************************************)
EXTENDS Tokens, Integers

CONSTANTS
    Names,          \* keys, and segments of key paths
    Wildcard,       \* config.KeyPathWildcard
    NoName,         \* the empty segment
    Environments,   \* bound: the environments explored
    Files           \* bound: the contents of the rules file explored

Whole == -1     \* the placeholder {hmac}; n is {hmac:$n}

\* broken: some "{hmac" is no placeholder, or its group is no number.
Replacements == [slots : SUBSET Int, broken : BOOLEAN]
KeyRules == [keys : Seq(Seq(Names \union {Wildcard, NoName}) \ {<<>>}), replace : Replacements,
             normalize : {"known", "unknown"},
             keepFirst : Int, keepLast : Int, number : BOOLEAN]
RegexRules == [compiles : BOOLEAN, groups : Nat, replace : Replacements,
               normalize : {"known", "unknown"}]
RuleSets == [yaml : BOOLEAN, regex : Seq(RegexRules), json_keys : Seq(KeyRules),
             graphql : Seq(KeyRules)]
Missing == [missing |-> TRUE]
Unread == [unread |-> TRUE]
Nothing == [kind |-> "nothing"]

Backends == {"loki", "elastic", "graphql"}

ASSUME EnvironmentsAssumption ==
    Environments \subseteq
        [limit : {"unset", "number", "bad"}, base : {"good", "bad"}, rulesPath : BOOLEAN,
         backends : [Backends -> {"off", "no URL", "bad URL", "on"}],
         key : {"none", "short", "long"}, testMe : BOOLEAN]
ASSUME FilesAssumption == Files \subseteq RuleSets

VARIABLES
    env, file,      \* as the operator has them now
    pc,
    data,           \* what ReadFile returned to this process, if it was called
    tok,            \* the process has a tokenizer
    routes,         \* the backends NewHandler has mounted
    page,           \* what GET /test-me/api/rules sends
    asked, reply    \* the last request to /test-me and its answer

vars == <<env, file, pc, data, tok, routes, page, asked, reply>>

Refused(status) == [status |-> status]
Rng(s) == {s[i] : i \in DOMAIN s}

Init ==
    /\ env \in Environments /\ file \in Files \union {Missing}
    /\ pc = "stopped" /\ data = Unread /\ tok = FALSE /\ routes = {} /\ page = Unread
    /\ asked = Nothing /\ reply = Nothing

-----------------------------------------------------------------------------
(* Checking the rules.                                                     *)

Placeholders(replace) == replace.slots # {} \/ replace.broken

\* Variant: the graphql block is not looked at.
VariantLogRulesOnly(f) == \E r \in Rng(f.json_keys) \union Rng(f.regex) : Placeholders(r.replace)

RulesUseHMAC(f) ==
    \E r \in Rng(f.json_keys) \union Rng(f.regex) \union Rng(f.graphql) : Placeholders(r.replace)

\* Variant: text that is no placeholder is left as it is.
VariantNoUncovered(r) == r.normalize = "unknown"

\* validateNormalize, hmacSlots.
BadReplacement(r) == r.normalize = "unknown" \/ r.replace.broken

validateRegexHMAC(r) ==
    ~BadReplacement(r) /\ \A n \in r.replace.slots \ {Whole} : n \in 1 .. r.groups

validateJSONKeyHMAC(r) == ~BadReplacement(r) /\ r.replace.slots \subseteq {Whole}

validateGlobalJSONKey(r) ==
    /\ r.keepFirst = 0 /\ r.keepLast = 0 /\ ~r.number
    /\ \A k \in Rng(r.keys) : Len(k) = 1

SplitKeyPath(k) == NoName \notin Rng(k) /\ Rng(k) # {Wildcard}

\* `seen' are the paths of the rules before this one, and of this one.
validateGraphQLJSONKey(r, seen) ==
    /\ r.keepFirst >= 0 /\ r.keepLast >= 0
    /\ r.keepFirst > 0 \/ r.keepLast > 0 => ~Placeholders(r.replace)
    /\ \A i \in DOMAIN r.keys :
          SplitKeyPath(r.keys[i]) /\ r.keys[i] \notin seen \union {r.keys[j] : j \in 1 .. i - 1}

LoadRules(f) ==
    /\ f.yaml
    /\ \A r \in Rng(f.regex) : r.compiles /\ validateRegexHMAC(r)
    /\ \A r \in Rng(f.json_keys) : validateJSONKeyHMAC(r) /\ validateGlobalJSONKey(r)
    /\ \A n \in DOMAIN f.graphql :
          /\ validateJSONKeyHMAC(f.graphql[n])
          /\ validateGraphQLJSONKey(f.graphql[n],
                                    UNION {Rng(f.graphql[j].keys) : j \in 1 .. n - 1})

-----------------------------------------------------------------------------
(* What the maskers make of a rule, checked or not.                        *)

\* What a replacement does: the parts of the match it hashes, what is left in it
\* that only looks like a placeholder, and how a text is normalised.
Replacing(hashes, spoilt, mode) == [hashes |-> hashes, spoilt |-> spoilt, mode |-> mode]

\* For a group that the pattern does not have, the whole match is hashed; a mode
\* that applyNormalize does not know counts as none.
expand(r, groups) ==
    Replacing({IF n \in 1 .. groups THEN n ELSE Whole : n \in r.replace.slots},
              r.replace.broken, "known")

\* The log masker looks up names of keys, and reads nothing else of a rule.
LogMakes(r) ==
    [replaces |-> expand(r, 0), keeps |-> <<0, 0>>, number |-> FALSE,
     keys |-> {k \in Rng(r.keys) : Len(k) = 1}]

\* The document masker writes the replacement as it stands around what is kept,
\* and cannot keep less than nothing of one end and something of the other.
DocMakes(r) ==
    LET keeping == r.keepFirst > 0 \/ r.keepLast > 0
    IN [replaces |-> IF keeping THEN [expand(r, 0) EXCEPT !.hashes = {}] ELSE expand(r, 0),
        keeps |-> CASE keeping /\ {r.keepFirst, r.keepLast} \subseteq Nat
                         -> <<r.keepFirst, r.keepLast>>
                    [] keeping /\ ~({r.keepFirst, r.keepLast} \subseteq Nat) -> <<>>
                    [] OTHER -> <<0, 0>>,
        number |-> r.number,
        keys |-> {k \in Rng(r.keys) : NoName \notin Rng(k)}]

\* Of equal paths the one declared first decides (moreSpecificThan).
Owner(rules, k) ==
    CHOOSE n \in DOMAIN rules :
        k \in Rng(rules[n].keys) /\ \A m \in 1 .. n - 1 : k \notin Rng(rules[m].keys)

-----------------------------------------------------------------------------
(* Operators and the process.                                              *)

unasked == <<asked, reply>>

EditFile(f) ==
    /\ file' = f
    /\ UNCHANGED <<env, pc, data, tok, routes, page, unasked>>

\* A process keeps the environment it was started with.
EditEnvironment(e) ==
    /\ pc = "stopped" /\ env' = e
    /\ UNCHANGED <<file, pc, data, tok, routes, page, unasked>>

Start ==
    /\ pc = "stopped" /\ pc' = "starting"
    /\ UNCHANGED <<env, file, data, tok, routes, page, unasked>>

Exit == pc' = "exited" /\ UNCHANGED <<env, file, data, tok, routes, page, unasked>>

Enabled == {b \in Backends : env.backends[b] # "off"}

\* Variant: a backend for documents alone does not count.
VariantLogBackends == Enabled \ {"graphql"} # {}

SomeBackend == Enabled # {}

\* Load, up to the rules file.
LoadEnvironment ==
    /\ pc = "starting"
    /\ IF /\ env.limit # "bad" /\ env.base = "good"
          /\ \A b \in Enabled : env.backends[b] = "on"
          /\ SomeBackend /\ env.rulesPath
       THEN pc' = "reading" /\ UNCHANGED <<env, file, data, tok, routes, page, unasked>>
       ELSE Exit

\* Variant: the error of ReadFile is not looked at.
VariantReadAnyway ==
    /\ pc = "reading" /\ data' = file /\ pc' = "checking"
    /\ UNCHANGED <<env, file, tok, routes, page, unasked>>

ReadFile ==
    /\ pc = "reading" /\ data' = file
    /\ pc' = (IF file = Missing THEN "exited" ELSE "checking")
    /\ UNCHANGED <<env, file, tok, routes, page, unasked>>

\* The rest of Load.  The key counts only if the rules call for it.
CheckRules ==
    /\ pc = "checking"
    /\ IF /\ LoadRules(data)
          /\ "graphql" \in Enabled => \E r \in Rng(data.graphql) : TRUE
          /\ RulesUseHMAC(data) => env.key = "long"
       THEN /\ pc' = "building" /\ tok' = RulesUseHMAC(data)
            /\ UNCHANGED <<env, file, data, routes, page, unasked>>
       ELSE Exit

\* masker.New, and NewGraphQL through the text masker it makes.
New(f, t) == RulesUseHMAC(f) => t
NewGraphQL(f, t) == New([f EXCEPT !.json_keys = f.graphql, !.regex = <<>>, !.graphql = <<>>], t)

NewHandler ==
    /\ pc = "building"
    /\ IF /\ New(data, tok) /\ Enabled # {}
          /\ "graphql" \in Enabled => NewGraphQL(data, tok)
       THEN /\ pc' = "serving" /\ routes' = Enabled /\ page' = data
            /\ UNCHANGED <<env, file, data, tok, unasked>>
       ELSE Exit

\* Shutdown or a crash, and the next process in its place.
Stop ==
    /\ pc \in {"serving", "exited"} /\ pc' = "stopped"
    /\ data' = Unread /\ tok' = FALSE /\ routes' = {} /\ page' = Unread
    /\ asked' = Nothing /\ reply' = Nothing
    /\ UNCHANGED <<env, file>>

-----------------------------------------------------------------------------
(* The /test-me page.                                                      *)

Answer(request, a) ==
    /\ pc = "serving" /\ env.testMe
    /\ asked' = request /\ reply' = a
    /\ UNCHANGED <<env, file, pc, data, tok, routes, page>>

\* Variant: the page shows the file as it is when it is asked for.
VariantRereads == file

RulesText == page

GetRules == Answer([kind |-> "rules"], RulesText)

\* Variant: the preview masks without the process's key.
VariantNoTokenizer == FALSE

PreviewTokenizer == tok

\* handleMask, for a request with a log line: the submitted rules alone count.
handleMask(f) ==
    Answer([kind |-> "mask", of |-> f],
           IF LoadRules(f) /\ New(f, PreviewTokenizer)
           THEN [status |-> 200, rules |-> f, tok |-> PreviewTokenizer]
           ELSE Refused(400))

\* Variant: asterisks are hashed like any other value.
VariantHashesStars(v, m) ==
    IF IsToken(Raw(v)) THEN Raw(v)
    ELSE IF applyNormalize(Raw(v), m) = <<NoText>> THEN Stars
         ELSE Content("token", applyNormalize(Raw(v), m))

PageToken(v, m) ==
    IF IsToken(Raw(v)) THEN Raw(v)
    ELSE IF v \in Starred \/ applyNormalize(Raw(v), m) = <<NoText>> THEN Stars
    ELSE Content("token", applyNormalize(Raw(v), m))

handleHMAC(v, m) ==
    Answer([kind |-> "hmac", value |-> v, mode |-> m],
           CASE ~tok -> Refused(503)
             [] tok /\ v = Blank -> Refused(400)
             [] OTHER -> [status |-> 200, token |-> PageToken(v, m)])

\* A body that is no JSON, or above a megabyte, or a preview of no log line.
BadRequest(kind) ==
    Answer([kind |-> "bad"], IF kind = "hmac" /\ ~tok THEN Refused(503) ELSE Refused(400))

Next ==
    \/ \E f \in Files \union {Missing} : EditFile(f)
    \/ \E e \in Environments : EditEnvironment(e)
    \/ Start \/ LoadEnvironment \/ ReadFile \/ CheckRules \/ NewHandler \/ Stop
    \/ GetRules
    \/ \E f \in Files : handleMask(f)
    \/ \E v \in Values, m \in Modes : handleHMAC(v, m)
    \/ \E kind \in {"mask", "hmac"} : BadRequest(kind)

Spec == Init /\ [][Next]_vars

-----------------------------------------------------------------------------
(* Properties.                                                             *)

\* The types, and what goes with the stage that the process has come to.
TypeOK ==
    /\ env \in Environments /\ file \in Files \union {Missing}
    /\ pc \in {"stopped", "starting", "reading", "checking", "building", "serving", "exited"}
    /\ data \in Files \union {Missing, Unread} /\ tok \in BOOLEAN
    /\ routes \subseteq Backends /\ page \in {Unread, data}
    /\ pc \in {"checking", "building", "serving"} => data \in Files
    /\ pc = "serving" => routes # {}
    /\ pc # "serving" => routes = {} /\ asked = Nothing

\* What a rule says is to be done.
Says(r) == Replacing(r.replace.slots, FALSE, r.normalize)
KeySays(r) ==
    [replaces |-> Says(r), keeps |-> <<r.keepFirst, r.keepLast>>, number |-> r.number,
     keys |-> Rng(r.keys)]

\* The maskers make of each rule what it says, and each path of the graphql block
\* is masked as the rule says that declares it.  Of several log rules for one key
\* the maskers follow the last, and the first in plain text; this says nothing of
\* them, nor of the words around a placeholder.
AsWritten(f) ==
    /\ f.yaml
    /\ \A r \in Rng(f.regex) : r.compiles /\ expand(r, r.groups) = Says(r)
    /\ \A r \in Rng(f.json_keys) : LogMakes(r) = KeySays(r)
    /\ \A r \in Rng(f.graphql) : DocMakes(r) = KeySays(r)
    /\ \A n \in DOMAIN f.graphql : \A k \in Rng(f.graphql[n].keys) : Owner(f.graphql, k) = n

\* A graphql rule declares a path that names no key, or the same path twice.
Pointless(f) ==
    \E r \in Rng(f.graphql) :
        \/ \E k \in Rng(r.keys) : Rng(k) = {Wildcard}
        \/ \E i, j \in DOMAIN r.keys : i # j /\ r.keys[i] = r.keys[j]

Hashes(f) ==
    \E r \in Rng(f.json_keys) \union Rng(f.regex) \union Rng(f.graphql) : r.replace.slots # {}

\* A process that serves masks as each of its rules says, has the key that they
\* hash with, and has rules for /graphql, where the block replaces the log rules,
\* and a URL for each route (LoadRules, Load, masker.New): a rule that the maskers
\* would follow only in part, as the whole match for a group, asterisks for a
\* token, or a value left as it is, is an error at the start.
ServesOnlySound ==
    pc = "serving" =>
        /\ AsWritten(data) /\ (Hashes(data) => tok)
        /\ "graphql" \in routes => Len(data.graphql) > 0
        /\ \A b \in routes : env.backends[b] = "on"

\* What makes an environment unusable (docs/instructions.md, section 2).
Unusable(e) ==
    \/ e.limit = "bad" \/ e.base = "bad" \/ ~e.rulesPath
    \/ \A b \in Backends : e.backends[b] = "off"
    \/ \E b \in Backends : e.backends[b] \in {"no URL", "bad URL"}

\* A process exits at the start only for a cause: in the environment, with the
\* file unread or without what the rules need from it; in the file that was not
\* there when it was read; or in rules that say what the maskers would not do, or
\* nothing (Load, LoadRules, NewHandler).  An operator never finds a sound
\* configuration refused.
ExitHasCause ==
    pc = "exited" =>
        \/ Unusable(env) /\ data = Unread
        \/ data = Missing
        \/ /\ data \in Files
           /\ \/ ~AsWritten(data) \/ Pointless(data)
              \/ env.backends["graphql"] = "on" /\ Len(data.graphql) = 0
              \/ Hashes(data) /\ env.key # "long"

\* What the page shows as the rules are those that the maskers were made from,
\* whatever has become of the file since.
PageShowsRules == asked = [kind |-> "rules"] => reply = data

\* The preview of the rules in force is never refused and masks as the process
\* masks, with its key; no preview has rules that a start would refuse.
PreviewIsFaithful ==
    \A f \in Files : asked = [kind |-> "mask", of |-> f] =>
        /\ f = data => reply = [status |-> 200, rules |-> data, tok |-> tok]
        /\ reply.status = 200 => AsWritten(f) /\ (Hashes(f) => reply.tok)

\* The token to search for, as the page gives it, is what masking puts in place
\* of the value (handleHMAC repeats hashOrSkip).
HashIsSearchable ==
    \A v \in Values, m \in Modes :
        asked = [kind |-> "hmac", value |-> v, mode |-> m] /\ reply.status = 200 =>
            reply.token = hashOrSkip(Raw(v), m)

\* With MASK_HMAC_KEY set, the page can hash a value (README.md, "Masking test
\* UI").
KeyEnablesHashing ==
    \A v \in Values \ {Blank}, m \in Modes :
        asked = [kind |-> "hmac", value |-> v, mode |-> m] /\ env.key = "long" =>
            reply.status = 200
=============================================================================
