------------------------------ MODULE LogMasker ------------------------------
(***************************************************************************)
(* The log masker (internal/masker/masker.go) and the rewriters that call  *)
(* it (rewrite.go, rewrite_elastic.go, the excerpt of rewrite_graphql.go): *)
(* what becomes of one value of a response.                                *)
(*                                                                         *)
(* A value is known by its path: the layers around it from the outside in, *)
(* members of objects, elements of arrays, strings that carry JSON or bare *)
(* words.  Rules treat the values of a line independently of each other,   *)
(* so the walk is the descent along the path, one layer at a step, and a   *)
(* text pattern is one step at the form in which it meets the value.       *)
(***************************************************************************)
EXTENDS Tokens

CONSTANTS
    Keys,           \* object keys
    Escaped,        \* Escaped[v]: v as it is spelled inside a JSON string
    Quoted,         \* values with a quotation mark in them
    Document,       \* a text that carries JSON, as one value
    Wide,           \* numbers that float64 does not keep as they are spelled
    KeyRules,       \* KeyRules[m]: the json_keys of masker m, [key, repl]
    Regexes,        \* regex rules of the log masker, [key, repl] for a pattern
                    \* "(k)"\s*:\s*"([^"]*)", [values, repl] for a format
    MessageField,   \* ELASTIC_MESSAGE_FIELD
    Paths,          \* bound: the paths explored
    Spells(_, _)    \* Spells(l, v): the innermost layer l can hold v

\* The log masker, and the text masker NewGraphQL makes of the graphql block.
Maskers == {"log", "doc"}

\* A replacement is a fixed text or hashes.  It is a template if there are words
\* around its {hmac}, or if it refers to a part of what a pattern has met ($1).
Replacements == [hmac : BOOLEAN, template : BOOLEAN, mode : Modes]

ASSUME RulesAssumption ==
    /\ KeyRules \in [Maskers -> Seq([key : Keys, repl : Replacements])]
    /\ Regexes \in Seq([key : Keys, repl : Replacements]
                         \union [values : SUBSET Values, repl : Replacements])
\* A token has no quotation mark, and nothing that is escaped.
ASSUME SpellingAssumption ==
    /\ Escaped \in [Values -> Values]
    /\ Quoted \subseteq Values \ TokenLike /\ Document \in Values \ TokenLike
    /\ \A v \in TokenLike : Escaped[v] = v
    /\ Wide \subseteq Values

Member(k) == [in |-> "member", key |-> k]
Element == [in |-> "element"]
String(as) == [in |-> "string", as |-> as]
Bare == String("bare")
Layers == {Member(k) : k \in Keys} \union {Element} \union [in : {"number", "literal"}]
    \* JSON; JSON between words; JSON a decoder does not find; words.
    \union {String(as) : as \in {"json", "mixed", "lost", "bare"}}

\* A path ends in words, a number, or true, false or null; members and elements
\* stand inside a document, and a string that carries JSON carries a container.
Leaf(layer) == layer = Bare \/ layer.in \in {"number", "literal"}
Container(layer) == layer.in \in {"member", "element"}
WellFormed(p) ==
    /\ p \in Seq(Layers) /\ p # <<>> /\ Leaf(p[Len(p)])
    /\ \A i \in 1 .. Len(p) - 1 :
          Container(p[i]) \/ (p[i].in = "string" /\ ~Leaf(p[i]) /\ Container(p[i + 1]))

ASSUME PathsAssumption ==
    \A p \in Paths : WellFormed(p) /\ p[1].in \in {"string", "member"}

VARIABLES
    path, content,  \* the value: where it stands and what it reads
    given,          \* as the upstream sent it
    route,          \* what part of which response it is in
    todo,           \* what is still to be done with it
    masker, base,   \* which masker is at work, on the line in which layer
    pos, rule,      \* how far the walk, and the text rules, have come
    before, changed,
    pc

vars == <<path, content, given, route, todo, masker, base, pos, rule, before, changed, pc>>
-----------------------------------------------------------------------------
(* Replacements.                                                           *)

expand(repl, c) ==
    LET hash == hashOrSkip(c, repl.mode)
    IN IF repl.template THEN Around("decorated", hash) ELSE hash

\* In the walk, where a fixed text is written as it is.
replaceScalar(repl, c) == IF repl.hmac THEN expand(repl, c) ELSE Static

\* By ReplaceAllString, which expands a fixed text as a template.  A template
\* that repeats the whole value and nothing else is left out.
replaceMatch(repl, c) ==
    IF ~repl.hmac /\ repl.template THEN Around("expanded", c) ELSE replaceScalar(repl, c)

staticReplacement(repl) == IF repl.hmac THEN Stars ELSE Static

-----------------------------------------------------------------------------
(* Stages.  What each kind of response has done to the value.              *)

\* Where a value may stand that no rewriter looks at.
Aside == {"stream", "row", "stats", "root", "data"}

\* Variant: the excerpt is cut to its length first.
VariantCutFirst == <<"cut", "doc", "log">>

\* A foreign body in an error envelope.
Excerpt == <<"doc", "log", "cut">>

Stages(r) ==
    CASE r = "line" -> <<"log">>                \* Loki's values[][1], /test-me
      [] r = "twice" -> <<"log", "log">>        \* a line that was masked before
      [] r = "excerpt" -> Excerpt
      [] r = "source" -> <<"walk", "strings">>  \* Elasticsearch's _source
      [] r = "field" -> <<"walk", "field">>
      [] OTHER -> <<>>

Init ==
    /\ path \in Paths
    /\ content \in {Raw(v) : v \in {w \in Values : Spells(path[Len(path)], w)}}
    /\ route \in Aside \union (IF path[1].in = "string" THEN {"line", "twice", "excerpt"}
                                ELSE {"source", "field"})
    /\ todo = Stages(route)
    /\ given = <<path, content>> /\ before = given /\ changed = FALSE
    /\ masker = "log" /\ base = 0 /\ pos = 0 /\ rule = 0 /\ pc = "next"

Begin(stages) ==
    /\ pc = "next" /\ todo # <<>> /\ Head(todo) \in stages
    /\ before' = <<path, content>>

\* Apply on the string in layer b; it leaves a blank line alone.
BeginApply(b) ==
    /\ base' = b /\ rule' = 1
    /\ pos' = b + 1
    /\ pc' = CASE path[b] = Bare /\ content = Raw(Blank) -> "end"
               [] path[b].as = "json" -> "walk"
               [] OTHER -> "text"

ApplyLine ==
    /\ Begin(Maskers) /\ masker' = Head(todo)
    /\ BeginApply(1)
    /\ UNCHANGED <<path, content, given, route, todo, changed>>

\* WalkAndMask on the _source document.
WalkSource ==
    /\ Begin({"walk"}) /\ base' = 0 /\ pos' = 1 /\ pc' = "walk"
    /\ UNCHANGED <<path, content, given, route, todo, masker, rule, changed>>

\* The first string on the way down from _source.
FirstString(b) ==
    path[b].in = "string" /\ \A i \in 1 .. b - 1 : path[i].in # "string"

\* Variant: only the strings right below _source are looked at.
VariantTopOnly(b) == FirstString(b) /\ b = 2

InScope(b) ==
    FirstString(b) /\ (Head(todo) = "field" => b = 2 /\ path[1] = Member(MessageField))

\* ApplyStrings, or Apply on the message field.
ApplyStrings ==
    /\ Begin({"strings", "field"})
    /\ \/ \E b \in DOMAIN path : InScope(b) /\ BeginApply(b)
       \/ /\ \A b \in DOMAIN path : ~InScope(b)
          /\ pc' = "end" /\ UNCHANGED <<base, pos, rule>>
    /\ UNCHANGED <<path, content, given, route, todo, masker, changed>>

\* truncateUTF8: the value may be kept, cut in two, or cut off.
Truncate ==
    /\ Begin({"cut"}) /\ pc' = "end"
    /\ content' \in {content, Around("piece", content), Gone}
    /\ UNCHANGED <<path, given, route, todo, masker, base, pos, rule, changed>>

\* Variant: what the second pass changed decides alone.
VariantLastPassCounts == changed' = (before # <<path, content>>)

CountChange == changed' = (changed \/ before # <<path, content>>)

EndStage ==
    /\ pc = "end" /\ CountChange
    /\ todo' = Tail(todo) /\ pc' = "next"
    /\ UNCHANGED <<path, content, given, route, masker, base, pos, rule, before>>

\* Variant: the members beside `data' are not written back.
VariantSurvives(r) == r \in {"stream", "row", "stats"}

\* What MaskResponseBody puts into the document it builds anew: all but the
\* members of data other than resultType, result and stats.
Survives(r) == r # "data"

\* A number c of `result', at p, that decoding without UseNumber does not keep.
InFloat(r, p, c) ==
    /\ r \in {"stream", "row"} /\ p[Len(p)].in = "number"
    /\ \A i \in DOMAIN p : p[i].in # "string"
    /\ \E v \in Wide : c = Raw(v)

\* A value beside the lines, in a response where some line has changed or not.
RewriteAround ==
    /\ pc = "next" /\ route \in Aside /\ pc' = "done"
    /\ \E rewritten \in BOOLEAN :
          /\ content' = CASE rewritten /\ ~Survives(route) -> Gone
                          [] rewritten /\ InFloat(route, path, content) -> Around("float", content)
                          [] OTHER -> content
          /\ changed' = rewritten
    /\ UNCHANGED <<path, given, route, todo, masker, base, pos, rule, before>>

Deliver ==
    /\ pc = "next" /\ todo = <<>> /\ route \notin Aside /\ pc' = "done"
    /\ UNCHANGED <<path, content, given, route, todo, masker, base, pos, rule, before, changed>>

-----------------------------------------------------------------------------
(* The walk.  `pos' is a member or element layer, whose container walk has *)
(* been called on.                                                         *)

RulesOf(k) == {n \in DOMAIN KeyRules[masker] : KeyRules[masker][n].key = k}

\* keyReplace holds the last of several rules for a key.
keyReplace(k) ==
    KeyRules[masker][CHOOSE n \in RulesOf(k) : \A i \in RulesOf(k) : i <= n].repl

Scalar(layer) == layer.in \in {"string", "number", "literal"}
Ruled(i) == path[i].in = "member" /\ RulesOf(path[i].key) # {} /\ Scalar(path[i + 1])

\* The text of the scalar in layer i.
Text(i) == IF i = Len(path) THEN content ELSE Raw(Document)

\* Layer i + 1 becomes a plain string that reads c.
Put(i, c) == path' = Append(SubSeq(path, 1, i), Bare) /\ content' = c

LeaveWalk == pc' = (IF base = 0 THEN "end" ELSE "text") /\ UNCHANGED pos

MaskScalar ==
    /\ pc = "walk" /\ Ruled(pos)
    /\ LET repl == keyReplace(path[pos].key)
       IN Put(pos, IF path[pos + 1].in = "literal" THEN staticReplacement(repl)
                   ELSE replaceScalar(repl, Text(pos + 1)))
    /\ LeaveWalk
    /\ UNCHANGED <<given, route, todo, masker, base, rule, before, changed>>

\* Variant: whatever string is met is taken for a document.
VariantDecodeAll(layer) == layer.in = "string"

\* Variant: only a string that is JSON as a whole is decoded.
VariantDecodable(layer) == layer = String("json")

\* maskEmbeddedJSON finds JSON in the string.
Decodable(layer) == layer \in {String("json"), String("mixed")}

Descend ==
    /\ pc = "walk" /\ ~Ruled(pos) /\ pc' = "walk"
    /\ \/ ~Scalar(path[pos + 1]) /\ pos' = pos + 1
       \/ Decodable(path[pos + 1]) /\ pos' = pos + 2
    /\ UNCHANGED <<path, content, given, route, todo, masker, base, rule, before, changed>>

WalkEnds ==
    /\ pc = "walk" /\ ~Ruled(pos)
    /\ Scalar(path[pos + 1]) /\ ~Decodable(path[pos + 1])
    /\ LeaveWalk
    /\ UNCHANGED <<path, content, given, route, todo, masker, base, rule, before, changed>>

-----------------------------------------------------------------------------
(* The text rules, over the line as it is written out.                     *)

Forms == <<"string", "number", "escaped">>

\* The words around {hmac} do not reach the key patterns' wrap; a fixed text does.
buildKeyPatterns(r, form) ==
    [form |-> form, key |-> r.key,
     repl |-> [r.repl EXCEPT !.template = @ /\ ~r.repl.hmac]]

\* A pattern with quotation marks has an escaped variant; no regex has a third.
compileRegex(r, form) ==
    IF "key" \in DOMAIN r
    THEN [form |-> IF form = "number" THEN "absent" ELSE form, key |-> r.key, repl |-> r.repl]
    ELSE [form |-> IF form = "string" THEN "format" ELSE "absent", values |-> r.values, repl |-> r.repl]

\* All patterns in the order they are applied, three of each rule.
RegexesOf(m) == IF m = "log" THEN Regexes ELSE <<>>
RuleCount(m) == Len(KeyRules[m]) + Len(RegexesOf(m))
textRules ==
    [m \in Maskers |->
        [n \in 1 .. 3 * RuleCount(m) |->
            LET r == (n + 2) \div 3
                form == Forms[1 + ((n + 2) % 3)]
            IN IF r <= Len(KeyRules[m]) THEN buildKeyPatterns(KeyRules[m][r], form)
               ELSE compileRegex(RegexesOf(m)[r - Len(KeyRules[m])], form)]]

\* The strings of the line that the key in layer i is inside of.
Strings(i) == {j \in base + 1 .. i - 1 : path[j].in = "string"}

\* The text as the line spells it.
Spelled(c) ==
    IF c.form = "raw" /\ base < Len(path) THEN Raw(Escaped[c.of[1]]) ELSE c

HoldsQuotes(i) ==
    \/ \E j \in i + 1 .. Len(path) : path[j].in \in {"member", "string"}
    \/ i = Len(path) /\ \E v \in Quoted : content = Raw(v)

\* The pattern meets its key in layer i, and a value of its kind after it.
Meets(p, i) ==
    /\ p.form \notin {"format", "absent"} /\ i > base /\ path[i] = Member(p.key)
    /\ CASE p.form = "string" -> path[i + 1].in = "string" /\ Strings(i) = {}
         [] p.form = "number" ->
               path[i + 1].in = "number" /\ Strings(i) = {} /\ content.form = "raw"
         [] p.form = "escaped" ->
               /\ path[i + 1].in = "string" /\ ~HoldsQuotes(i + 1)
               /\ \E j \in Strings(i) : Strings(i) = {j}
               /\ Spelled(Text(i + 1)) = Text(i + 1)

Current(p) == pc = "text" /\ rule \in DOMAIN textRules[masker] /\ p = textRules[masker][rule]

ReplaceKeyed(p, i) ==
    /\ Current(p) /\ Meets(p, i) /\ ~HoldsQuotes(i + 1)
    /\ Put(i, replaceMatch(p.repl, Spelled(Text(i + 1))))
    /\ rule' = rule + 1
    /\ UNCHANGED <<given, route, todo, masker, base, pos, before, changed, pc>>

\* [^"]* ends at the first quotation mark inside the string.  What follows
\* stands in the open, its first key without the quotation mark before it.
CutOpen(p, i) ==
    /\ Current(p) /\ Meets(p, i) /\ HoldsQuotes(i + 1)
    /\ path' \in {Append(SubSeq(path, 1, base - 1), Bare)}
          \union (IF i + 1 = Len(path) THEN {}
                  ELSE {[path EXCEPT ![i] = Element, ![i + 1] = String("lost")]})
    /\ rule' = rule + 1
    /\ UNCHANGED <<content, given, route, todo, masker, base, pos, before, changed, pc>>

\* A format is one of received values; what masking has made it does not match again.
Formatted(p) ==
    /\ p.form = "format" /\ path[Len(path)].in # "literal"
    /\ \E v \in p.values : Spelled(content) = Raw(v)

\* A format is met wherever it stands.  A token in place of a number leaves
\* the string around it no longer JSON.
ReplaceFormat(p) ==
    /\ Current(p) /\ Formatted(p)
    /\ content' = replaceMatch(p.repl, Spelled(content))
    /\ path' = [i \in DOMAIN path |->
                  IF /\ path[Len(path)].in = "number" /\ path[i].in = "string"
                     /\ \A j \in i + 1 .. Len(path) : path[j].in # "string"
                  THEN String("lost") ELSE path[i]]
    /\ rule' = rule + 1
    /\ UNCHANGED <<given, route, todo, masker, base, pos, before, changed, pc>>

NoMatch(p) ==
    /\ Current(p) /\ ~Formatted(p)
    /\ \A i \in 1 .. Len(path) - 1 : ~Meets(p, i)
    /\ rule' = rule + 1
    /\ UNCHANGED <<path, content, given, route, todo, masker, base, pos, before, changed, pc>>

EndText ==
    /\ pc = "text" /\ rule \notin DOMAIN textRules[masker] /\ pc' = "end"
    /\ UNCHANGED <<path, content, given, route, todo, masker, base, pos, rule, before, changed>>

TextRule ==
    \E p \in {textRules[masker][n] : n \in DOMAIN textRules[masker]} :
        \/ ReplaceFormat(p) \/ NoMatch(p)
        \/ \E i \in 1 .. Len(path) - 1 : ReplaceKeyed(p, i) \/ CutOpen(p, i)

Done == pc = "done" /\ UNCHANGED vars

Next ==
    \/ ApplyLine \/ WalkSource \/ ApplyStrings \/ Truncate \/ EndStage
    \/ RewriteAround \/ Deliver
    \/ MaskScalar \/ Descend \/ WalkEnds
    \/ TextRule \/ EndText
    \/ Done

Spec == Init /\ [][Next]_vars

-----------------------------------------------------------------------------
(* Properties.                                                             *)

Makes == {"raw", "stars", "static", "gone", "token", "decorated", "expanded", "piece", "float"}

\* The types, and the shape of the path after every rewriting of it: the walk
\* always stands on a member or an element with something below it (walk,
\* tryDecodeAndMask), a text pass always on a string of the path (Apply).
TypeOK ==
    /\ WellFormed(path) /\ WellFormed(given[1])
    /\ content.form \in Makes /\ content.of \in Seq(Values \union Makes \union Modes)
    /\ \E v \in Values : given[2] = Raw(v)
    /\ todo \in Seq(Maskers \union {"walk", "strings", "field", "cut"})
    /\ masker \in Maskers /\ rule \in Nat /\ changed \in BOOLEAN
    /\ pc \in {"next", "walk", "text", "end", "done"}
    /\ pc = "walk" => pos \in base + 1 .. Len(path) - 1 /\ Container(path[pos])
    /\ pc = "text" => base \in DOMAIN path /\ path[base].in = "string"

\* What the client gets: the rewriters send the body as it came when no masker
\* reports a change.
Delivered == IF changed THEN <<path, content>> ELSE given

\* The replacements of all rules of masker m that name key k.
Naming(m, k) ==
    {KeyRules[m][n].repl : n \in {i \in DOMAIN KeyRules[m] : KeyRules[m][i].key = k}}
      \union {Regexes[n].repl : n \in
                {i \in DOMAIN Regexes : m = "log" /\ "key" \in DOMAIN Regexes[i]
                                          /\ Regexes[i].key = k}}

\* A json_keys rule of masker m, which the walk knows and a regex is not, names k.
InKeyRules(m, k) == \E n \in DOMAIN KeyRules[m] : KeyRules[m][n].key = k

\* Member layers of path p with a scalar that the maskers ms are to replace.
Holders(ms, p) ==
    {i \in 1 .. Len(p) - 1 :
        p[i].in = "member" /\ Scalar(p[i + 1]) /\ \E m \in ms : Naming(m, p[i].key) # {}}
Outermost(ms, p) == {i \in Holders(ms, p) : \A j \in Holders(ms, p) : i <= j}

StringsIn(p, b, i) == {j \in b + 1 .. i - 1 : p[j].in = "string"}

\* From the document in layer b down to layer i there are only strings that a
\* decoder finds JSON in, at their start or behind other words.
InDocument(p, b, i) == \A j \in StringsIn(p, b, i) : p[j].as \in {"json", "mixed"}

\* In the text of layer b, layer i is "k": with a number or a string after it,
\* or one level of escaping deeper a plain string.
InText(p, c, b, i) ==
    /\ i + 1 = Len(p) /\ p[i + 1].in # "literal" /\ c.of[1] \notin Quoted
    /\ \/ StringsIn(p, b, i) = {}
       \/ /\ p[i + 1] = Bare /\ Escaped[c.of[1]] = c.of[1]
          /\ \E j \in StringsIn(p, b, i) : StringsIn(p, b, i) = {j}

\* The layer whose text the masker gets for a value of route r, if any.
Line(r, p) ==
    {b \in DOMAIN p :
        /\ p[b].in = "string" /\ \A i \in 1 .. b - 1 : p[i].in # "string"
        /\ r = "field" => b = 2 /\ p[1] = Member(MessageField)}

Walked(r, p, i) ==
    IF r \in {"source", "field"} THEN InDocument(p, 0, i)
    ELSE p[1] = String("json") /\ InDocument(p, 1, i)
ReadAsText(r, p, c, i) == \E b \in Line(r, p) : b < i /\ InText(p, c, b, i)

\* A value under a key that rules replace in one way, with a bare {hmac} or a text
\* that refers to nothing, arrives as exactly what they make of it, whatever other
\* rules run before or after, however often, and in either backend (walk,
\* applyTextRules, maskElasticSource).  Where the walk sees it that is the token of
\* the value; where only the text rules do, it is the token of the value as the
\* line spells it, which is another one if it is escaped there.
KeyedIsMasked ==
    pc = "done" /\ route \in {"line", "twice", "source", "field"} =>
        \A i \in Outermost({"log"}, given[1]), repl \in Replacements :
            LET p == given[1]
                text == IF i + 1 = Len(p) THEN given[2] ELSE Raw(Document)
                spelled == Raw(Escaped[text.of[1]])
            IN /\ Naming("log", p[i].key) = {repl}
               /\ InKeyRules("log", p[i].key) /\ ~repl.template
               /\ Walked(route, p, i) \/ ReadAsText(route, p, given[2], i)
               => Delivered = << Append(SubSeq(p, 1, i), Bare),
                                 CASE ~Walked(route, p, i) -> replaceScalar(repl, spelled)
                                   [] p[i + 1].in = "literal" -> staticReplacement(repl)
                                   [] OTHER -> replaceScalar(repl, text) >>

\* A value that is hashed arrives as its own token, with or without the words
\* that the rule's replacement puts around it, whatever the field and the backend
\* (docs/instructions.md, the {hmac} replacement).
OneToken ==
    pc = "done" /\ route \in {"line", "source", "field"} =>
        \A i \in Outermost({"log"}, given[1]), repl \in Replacements :
            LET p == given[1]
                v == given[2].of[1]
                token == <<Norm[repl.mode, v]>>
            IN /\ Naming("log", p[i].key) = {repl} /\ repl.hmac
               /\ i + 1 = Len(p) /\ p[i + 1].in # "literal" /\ Escaped[v] = v
               /\ v \notin Starred \union TokenLike \union {Blank} /\ token # <<NoText>>
               /\ Walked(route, p, i) \/ ReadAsText(route, p, given[2], i)
               => Delivered[2] \in {Content("token", token),
                                    Content("decorated", <<"token">> \o token)}

\* The text of layer b matches a format at the value, which masking has not made.
HasFormat(p, c, b) ==
    /\ p[Len(p)].in # "literal" /\ Escaped[c.of[1]] = c.of[1]
    /\ c.of[1] \notin Starred \union TokenLike \union {Blank}
    /\ \E n \in DOMAIN Regexes : "values" \in DOMAIN Regexes[n] /\ c.of[1] \in Regexes[n].values

\* A value of a secret format never arrives as it was sent, whatever key or
\* nesting it stands under: in a Loki line anywhere, in Elasticsearch's _source
\* in any string, or in the message field if one is configured (ApplyStrings).
FormatIsMasked ==
    pc = "done" /\ route \in {"line", "twice", "source", "field"} =>
        \A b \in Line(route, given[1]) :
            HasFormat(given[1], given[2], b) => Delivered[2] # given[2]

\* The excerpt of a foreign body shows neither the whole of a value that a rule
\* of the graphql block or of the log rules covers, nor the part of it that the
\* cut to 2048 bytes leaves (graphQLErrorEnvelope).
ExcerptIsMasked ==
    pc = "done" /\ route = "excerpt" /\ ~IsToken(given[2]) =>
        LET p == given[1]
            c == given[2]
        IN \/ \E b \in Line(route, p) : HasFormat(p, c, b)
           \/ \E i \in Outermost(Maskers, p) :
                  /\ \E m \in Maskers : InKeyRules(m, p[i].key)
                  /\ Walked(route, p, i) \/ ReadAsText(route, p, c, i)
           => content \notin {c, Around("piece", c)}

\* Masking a line that was masked before leaves it alone: Elasticsearch sources
\* and excerpts go through two passes, and a proxy may stand behind another
\* (hashOrSkip).
MaskedTwice == pc = "done" /\ route = "twice" => <<path, content>> = before

\* A value that no rule covers arrives as it was sent, in the place it had,
\* and so does what stands beside the lines in a Loki response, but for two
\* things that MaskResponseBody does once a line was masked: it does not write
\* back the other members of `data', and it spells the numbers of `result' anew.
NothingElseChanges ==
    LET p == given[1]
        v == given[2].of[1]
        ms == IF route = "excerpt" THEN Maskers ELSE {"log"}
    IN /\ pc = "done" /\ route # "data"
       /\ \/ route \in Aside
          \/ /\ Holders(ms, p) = {}
             /\ p[Len(p)].in = "literal"
                \/ \A n \in DOMAIN Regexes : "values" \in DOMAIN Regexes[n] =>
                        {v, Escaped[v]} \intersect Regexes[n].values = {}
       => Delivered \in {given} \union
             (IF route = "excerpt" THEN {<<p, Around("piece", given[2])>>, <<p, Gone>>} ELSE {})
               \union
             (IF InFloat(route, p, given[2]) THEN {<<p, Around("float", given[2])>>} ELSE {})

-----------------------------------------------------------------------------
(* What the rules must be like for a result to hold.                       *)

Formats == {Regexes[n].values : n \in {i \in DOMAIN Regexes : "values" \in DOMAIN Regexes[i]}}

\* No format matches a token, so the log rules make nothing of their own tokens.
FormatsSpareTokens == \A f \in Formats : f \intersect TokenLike = {}

\* The values of a format read the same inside a JSON string and outside, and
\* none is true, false or null.
FormatsReadPlain ==
    \A f \in Formats :
        /\ f \intersect Quoted = {} /\ \A v \in f : ~Spells([in |-> "literal"], v)
        /\ \A v \in Values : {v, Escaped[v]} \intersect f # {} => Escaped[v] = v

\* All log rules that name a key replace it alike, by a bare {hmac} or a text
\* that refers to nothing.
OneReplacement ==
    \A k \in Keys : \A r, s \in Naming("log", k) : r = s /\ ~r.template
=============================================================================
