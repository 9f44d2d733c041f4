--------------------------- MODULE LogMaskerProofs ---------------------------
(***************************************************************************)
(* Proofs about Tokens and LogMasker, for rules, values and paths of any   *)
(* number and length: tokens are not hashed again, a path keeps its shape  *)
(* through every rewriting, what no rule covers stays as it was, what one  *)
(* covers is masked, and masking what was masked changes nothing.          *)
(***************************************************************************)
EXTENDS LogMasker, SequenceTheorems, WellFoundedInduction, TLAPS

-----------------------------------------------------------------------------
(* Tokens.                                                                 *)

\* What hashOrSkip has made of a text, it leaves alone under any normalisation:
\* a value that two rules, two passes or two proxies meet has one token.
THEOREM HashedOnce ==
    ASSUME NEW c, NEW m, NEW n
    PROVE  hashOrSkip(hashOrSkip(c, m), n) = hashOrSkip(c, m)
<1> DEFINE h == hashOrSkip(c, m)
<1>1. h = Stars \/ (h.form = "token" /\ h # Stars /\ \A v : h # Raw(v))
               \/ (\E v \in TokenLike : h = Raw(v))
  BY DEF hashOrSkip, IsToken, Content, Stars, Raw
<1>2. CASE h = Stars
  BY <1>2 DEF hashOrSkip
<1>3. CASE h.form = "token" /\ h # Stars /\ \A v : h # Raw(v)
  BY <1>3 DEF hashOrSkip, IsToken
<1>4. ASSUME NEW v \in TokenLike, h = Raw(v) PROVE hashOrSkip(h, n) = h
  <2>1. h # Stars
    BY <1>4 DEF Raw, Stars, Content
  <2>2. \A w \in Starred \union {Blank} : h # Raw(w)
    <3> SUFFICES ASSUME NEW w \in Starred \union {Blank}, Raw(v) = Raw(w) PROVE FALSE
      BY <1>4
    <3>1. Raw(v).of = Raw(w).of
      OBVIOUS
    <3>2. v = w
      BY <3>1 DEF Raw, Content
    <3> QED
      BY <3>2, TokensAssumption
  <2> QED
    BY <1>4, <2>1, <2>2 DEF hashOrSkip, IsToken
<1> QED
  BY <1>1, <1>2, <1>3, <1>4

-----------------------------------------------------------------------------
(* Paths.                                                                  *)

\* The kinds of layers exclude each other.
LEMMA LayerKinds ==
    ASSUME NEW l \in Layers
    PROVE  /\ l.in \in {"member", "element", "string", "number", "literal"}
           /\ Container(l) <=> l.in \in {"member", "element"}
           /\ Leaf(l) => ~Container(l)
           /\ l.in \in {"number", "literal"} => Leaf(l)
           /\ l.in = "string" => l = String(l.as) /\ l.as \in {"json", "mixed", "lost", "bare"}
           /\ l.in = "string" => (Leaf(l) <=> l = Bare)
           /\ l.in = "member" => l = Member(l.key) /\ l.key \in Keys
BY DEF Layers, Member, Element, String, Bare, Container, Leaf

\* The layers that masking puts in.
LEMMA NewLayers ==
    /\ Bare \in Layers /\ Leaf(Bare) /\ Bare.in = "string"
    /\ Element \in Layers /\ Container(Element)
    /\ String("lost") \in Layers /\ ~Leaf(String("lost")) /\ String("lost").in = "string"
BY DEF Layers, Member, Element, String, Bare, Container, Leaf

\* Below the last index there is another one.
LEMMA Arithmetic ==
    ASSUME NEW n \in Nat, NEW i \in 1 .. n
    PROVE  /\ i < n => i # n
           /\ i # n => i \in 1 .. n - 1 /\ i + 1 \in 1 .. n
OBVIOUS

\* What lies below a layer of a well-formed path.
LEMMA Below ==
    ASSUME NEW p, WellFormed(p), NEW i \in 1 .. Len(p)
    PROVE  /\ Len(p) \in Nat \ {0} /\ DOMAIN p = 1 .. Len(p) /\ p[i] \in Layers
           /\ i = Len(p) <=> Leaf(p[i])
           /\ i < Len(p) => /\ Container(p[i]) \/ (p[i].in = "string" /\ Container(p[i + 1]))
                            /\ i + 1 \in 1 .. Len(p)
<1>1. /\ p \in Seq(Layers) /\ p # <<>> /\ Leaf(p[Len(p)])
      /\ \A j \in 1 .. Len(p) - 1 :
            Container(p[j]) \/ (p[j].in = "string" /\ ~Leaf(p[j]) /\ Container(p[j + 1]))
  BY DEF WellFormed
<1>2. Len(p) \in Nat /\ Len(p) # 0 /\ DOMAIN p = 1 .. Len(p)
  BY <1>1, EmptySeq, LenProperties
<1>3. \A j \in 1 .. Len(p) : p[j] \in Layers
  BY <1>1, ElementOfSeq
<1>4. ASSUME i # Len(p) PROVE /\ i + 1 \in 1 .. Len(p) /\ ~Leaf(p[i])
                              /\ Container(p[i]) \/ (p[i].in = "string" /\ Container(p[i + 1]))
  <2>1. i \in 1 .. Len(p) - 1 /\ i + 1 \in 1 .. Len(p)
    BY <1>2, <1>4, Arithmetic
  <2>2. p[i] \in Layers
    BY <1>3
  <2> QED
    BY <1>1, <2>1, <2>2, LayerKinds
<1>5. i < Len(p) => i # Len(p)
  BY <1>2, Arithmetic
<1>6. p[i] \in Layers /\ Len(p) \in Nat \ {0}
  BY <1>2, <1>3
<1>7. i = Len(p) => Leaf(p[i])
  BY <1>1
<1> QED
  BY <1>2, <1>4, <1>5, <1>6, <1>7, Zenon

\* A path that is cut below layer i, and ends there in plain words.
LEMMA CutPath ==
    ASSUME NEW p, WellFormed(p), NEW i \in 0 .. Len(p) - 1, i # 0 => Container(p[i]),
           NEW q, q = Append(SubSeq(p, 1, i), Bare)
    PROVE  /\ WellFormed(q) /\ Len(q) = i + 1
           /\ \A j \in 1 .. i : q[j] = p[j]
           /\ q[i + 1] = Bare
<1>1. /\ p \in Seq(Layers) /\ Len(p) \in Nat /\ \A j \in 1 .. Len(p) : p[j] \in Layers
  BY LenProperties, ElementOfSeq DEF WellFormed
<1> DEFINE s == SubSeq(p, 1, i)
<1>2. /\ s \in Seq(Layers) /\ Len(s) = i /\ \A j \in 1 .. i : s[j] = p[j]
  <2>1. 1 \in Int /\ i \in Int /\ \A j \in 1 .. i : p[j] \in Layers
    BY <1>1
  <2>2. /\ s \in Seq(Layers) /\ Len(s) = IF 1 <= i THEN i - 1 + 1 ELSE 0
        /\ \A j \in 1 .. i - 1 + 1 : s[j] = p[1 + j - 1]
    BY <2>1, SubSeqProperties
  <2> QED
    BY <1>1, <2>2
<1> HIDE DEF s
<1>3. /\ q \in Seq(Layers) /\ Len(q) = i + 1 /\ q[i + 1] = Bare
      /\ \A j \in 1 .. i : q[j] = p[j]
  <2> HIDE DEF Layers
  <2>1. q = Append(s, Bare) /\ Bare \in Layers
    BY NewLayers DEF s
  <2> QED
    BY <1>1, <1>2, <2>1
<1>4. q # <<>>
  <2>1. Len(q) # 0
    BY <1>1, <1>3
  <2> QED
    BY <2>1, EmptySeq, Zenon
<1>5. ASSUME NEW j \in 1 .. Len(q) - 1
      PROVE  Container(q[j]) \/ (q[j].in = "string" /\ ~Leaf(q[j]) /\ Container(q[j + 1]))
  <2>1. CASE j = i
    BY <1>1, <1>3, <2>1
  <2>2. CASE j < i
    <3>1. q[j] = p[j] /\ q[j + 1] = p[j + 1] /\ j \in 1 .. Len(p) - 1
      BY <1>1, <1>3, <2>2
    <3> QED
      BY <3>1 DEF WellFormed
  <2> QED
    BY <1>1, <1>3, <2>1, <2>2
<1> QED
  BY <1>1, <1>3, <1>4, <1>5, NewLayers DEF WellFormed

\* A path of the same length, with some strings of JSON no longer decodable and
\* some members no longer named.
LEMMA Relabelled ==
    ASSUME NEW p, WellFormed(p), NEW q \in [DOMAIN p -> Layers],
           \A j \in DOMAIN p : \/ q[j] = p[j]
                               \/ q[j] = String("lost") /\ p[j].in = "string" /\ j # Len(p)
                               \/ q[j] = Element /\ Container(p[j])
    PROVE  WellFormed(q) /\ Len(q) = Len(p) /\ DOMAIN q = DOMAIN p
<1>1. /\ p \in Seq(Layers) /\ Len(p) \in Nat /\ DOMAIN p = 1 .. Len(p) /\ Len(p) # 0
      /\ \A j \in 1 .. Len(p) : p[j] \in Layers
  BY LenProperties, EmptySeq, ElementOfSeq DEF WellFormed
<1>2. q \in Seq(Layers) /\ Len(q) = Len(p)
  <2> HIDE DEF Layers
  <2>1. q \in [1 .. Len(p) -> Layers]
    BY <1>1
  <2> QED
    BY <1>1, <2>1
<1>3. q # <<>>
  <2>1. Len(q) # 0
    BY <1>1, <1>2
  <2> QED
    BY <2>1, EmptySeq, Zenon
<1>4. Leaf(q[Len(q)])
  <2> DEFINE n == Len(p)
  <2>1. n \in DOMAIN p /\ Leaf(p[n]) /\ p[n] \in Layers
    BY <1>1 DEF WellFormed
  <2>2. ~Container(p[n])
    BY <2>1, LayerKinds
  <2> QED
    BY <1>2, <2>1, <2>2
<1>5. ASSUME NEW j \in 1 .. Len(q) - 1
      PROVE  Container(q[j]) \/ (q[j].in = "string" /\ ~Leaf(q[j]) /\ Container(q[j + 1]))
  <2>1. /\ j \in DOMAIN p /\ j + 1 \in DOMAIN p
        /\ p[j] \in Layers /\ p[j + 1] \in Layers
        /\ Container(p[j]) \/ (p[j].in = "string" /\ ~Leaf(p[j]) /\ Container(p[j + 1]))
    <3>1. j \in 1 .. Len(p) - 1 /\ j \in 1 .. Len(p) /\ j + 1 \in 1 .. Len(p)
      BY <1>1, <1>2
    <3> QED
      BY <1>1, <3>1 DEF WellFormed
  <2>2. Container(p[j]) => Container(q[j])
    BY <2>1, LayerKinds, NewLayers
  <2>3. Container(p[j + 1]) => Container(q[j + 1])
    BY <2>1, LayerKinds, NewLayers
  <2>4. p[j].in = "string" /\ ~Leaf(p[j]) => q[j].in = "string" /\ ~Leaf(q[j])
    BY <2>1, LayerKinds, NewLayers
  <2> QED
    BY <2>1, <2>2, <2>3, <2>4
<1> QED
  BY <1>1, <1>2, <1>3, <1>4, <1>5 DEF WellFormed

-----------------------------------------------------------------------------
(* Texts.                                                                  *)

Texts ==
    {c \in [form : Makes, of : Seq(Values \union Makes \union Modes)] :
        c.form = "raw" => \E v \in Values : c = Raw(v)}

\* Words around a text, and a text as its line spells it, are texts.
LEMMA MadeTexts ==
    /\ \A v \in Values : Raw(v) \in Texts
    /\ Stars \in Texts /\ Static \in Texts /\ Gone \in Texts
    /\ \A c \in Texts, form \in Makes \ {"raw"} : Around(form, c) \in Texts
    /\ \A c \in Texts : Spelled(c) \in Texts
<1>1. \A v \in Values : <<v>> \in Seq(Values \union Makes \union Modes)
  OBVIOUS
<1>2. \A c \in Texts : <<c.form>> \o c.of \in Seq(Values \union Makes \union Modes)
  <2> SUFFICES ASSUME NEW c \in Texts PROVE <<c.form>> \o c.of \in Seq(Values \union Makes \union Modes)
    OBVIOUS
  <2>1. c.form \in Makes /\ c.of \in Seq(Values \union Makes \union Modes)
    BY DEF Texts
  <2> QED
    BY <2>1
<1>3. \A v \in Values : Raw(v) \in Texts
  BY <1>1 DEF Texts, Raw, Content, Makes
<1>4. Stars \in Texts /\ Static \in Texts /\ Gone \in Texts
  BY DEF Texts, Stars, Static, Gone, Content, Makes
<1>5. \A c \in Texts, form \in Makes \ {"raw"} : Around(form, c) \in Texts
  BY <1>2 DEF Texts, Around, Content
<1>6. ASSUME NEW c \in Texts PROVE Spelled(c) \in Texts
  <2>1. CASE c.form = "raw" /\ base < Len(path)
    <3>1. PICK v \in Values : c = Raw(v)
      BY <2>1 DEF Texts
    <3>2. Escaped[c.of[1]] \in Values
      BY <3>1, SpellingAssumption DEF Raw, Content
    <3> QED
      BY <1>3, <2>1, <3>2 DEF Spelled
  <2>2. CASE ~(c.form = "raw" /\ base < Len(path))
    BY <2>2 DEF Spelled
  <2> QED
    BY <2>1, <2>2
<1> QED
  BY <1>3, <1>4, <1>5, <1>6

\* Every replacement makes a text of a text.
LEMMA ReplacedTexts ==
    ASSUME NEW repl \in Replacements, NEW c \in Texts
    PROVE  /\ replaceScalar(repl, c) \in Texts /\ replaceMatch(repl, c) \in Texts
           /\ staticReplacement(repl) \in Texts
<1>1. repl.mode \in Modes
  BY DEF Replacements
<1>2. applyNormalize(c, repl.mode) = <<NoText>>
        \/ applyNormalize(c, repl.mode) \in Seq(Values \union Makes \union Modes)
  <2>1. CASE c.form = "raw"
    <3>1. PICK v \in Values : c = Raw(v)
      BY <2>1 DEF Texts
    <3>2. c.of[1] = v
      BY <3>1 DEF Raw, Content
    <3>3. applyNormalize(c, repl.mode) = <<Norm[repl.mode, v]>>
      BY <2>1, <3>2, Zenon DEF applyNormalize
    <3>4. <<repl.mode, v>> \in Modes \X Values
      BY <1>1
    <3> DEFINE n == Norm[repl.mode, v]
    <3>5. n \in Values \union {NoText}
      <4>1. Norm \in [Modes \X Values -> Values \union {NoText}]
        BY ValuesAssumption, Zenon
      <4> QED
        BY <3>4, <4>1, Zenon
    <3> HIDE DEF n
    <3>6. <<n>> = <<NoText>> \/ <<n>> \in Seq(Values \union Makes \union Modes)
      BY <3>5
    <3> QED
      BY <3>3, <3>6 DEF n
  <2>2. CASE c.form # "raw"
    <3>1. c.form \in Makes /\ c.of \in Seq(Values \union Makes \union Modes)
      BY DEF Texts
    <3>2. <<repl.mode, c.form>> \o c.of \in Seq(Values \union Makes \union Modes)
      BY <1>1, <3>1
    <3> QED
      BY <2>2, <3>2 DEF applyNormalize
  <2> QED
    BY <2>1, <2>2
<1>3. hashOrSkip(c, repl.mode) \in Texts
  <2>1. applyNormalize(c, repl.mode) \in Seq(Values \union Makes \union Modes)
          => Content("token", applyNormalize(c, repl.mode)) \in Texts
    BY DEF Texts, Content, Makes
  <2> QED
    BY <1>2, <2>1, MadeTexts DEF hashOrSkip
<1>4. expand(repl, c) \in Texts
  BY <1>3, MadeTexts DEF expand, Makes
<1> QED
  BY <1>4, MadeTexts DEF replaceScalar, replaceMatch, staticReplacement, Makes

\* Without words around it or a reference, a replacement is the same wherever it
\* is made.
LEMMA PlainMatch ==
    ASSUME NEW repl, ~repl.template
    PROVE  \A c : replaceMatch(repl, c) = replaceScalar(repl, c)
BY DEF replaceMatch

-----------------------------------------------------------------------------
(* The text rules.                                                         *)

\* Every third pattern belongs to the next rule.
LEMMA Thirds ==
    ASSUME NEW count \in Nat, NEW n \in 1 .. 3 * count
    PROVE  /\ (n + 2) \div 3 \in 1 .. count /\ 1 + ((n + 2) % 3) \in 1 .. 3
           /\ \A k \in Nat : ~((n + 2) \div 3 <= k) => n > 3 * k
OBVIOUS

\* The rules as the configuration gives them.
LEMMA GivenRules ==
    ASSUME NEW m \in Maskers
    PROVE  /\ KeyRules[m] \in Seq([key : Keys, repl : Replacements])
           /\ Len(KeyRules[m]) \in Nat /\ Len(RegexesOf(m)) \in Nat /\ RuleCount(m) \in Nat
           /\ \A k \in DOMAIN KeyRules[m] :
                 KeyRules[m][k].key \in Keys /\ KeyRules[m][k].repl \in Replacements
           /\ RegexesOf(m) # <<>> => m = "log"
           /\ RegexesOf("log") = Regexes /\ Len(Regexes) \in Nat
           /\ \A k \in DOMAIN Regexes : Regexes[k].repl \in Replacements
           /\ \A k \in DOMAIN Regexes : "key" \in DOMAIN Regexes[k] => Regexes[k].key \in Keys
           /\ \A k \in DOMAIN Regexes : "key" \notin DOMAIN Regexes[k] => "values" \in DOMAIN Regexes[k]
<1> DEFINE K == [key : Keys, repl : Replacements]
           F == [values : SUBSET Values, repl : Replacements]
<1>1. KeyRules[m] \in Seq(K) /\ Regexes \in Seq(K \union F)
  BY RulesAssumption
<1>2. \A r \in K : r.key \in Keys /\ r.repl \in Replacements /\ "key" \in DOMAIN r
  OBVIOUS
<1>3. \A r \in F : r.repl \in Replacements /\ "values" \in DOMAIN r /\ "key" \notin DOMAIN r
  OBVIOUS
<1> HIDE DEF K, F
<1>4. /\ Len(KeyRules[m]) \in Nat /\ DOMAIN KeyRules[m] = 1 .. Len(KeyRules[m])
      /\ Len(Regexes) \in Nat /\ DOMAIN Regexes = 1 .. Len(Regexes)
      /\ \A k \in DOMAIN KeyRules[m] : KeyRules[m][k] \in K
      /\ \A k \in DOMAIN Regexes : Regexes[k] \in K \union F
  BY <1>1
<1>5. Len(<<>>) = 0
  BY EmptySeq
<1>6. Len(RegexesOf(m)) \in Nat
  BY <1>4, <1>5 DEF RegexesOf
<1>7. RuleCount(m) \in Nat
  BY <1>4, <1>6 DEF RuleCount
<1>8. RegexesOf(m) # <<>> => m = "log"
  BY DEF RegexesOf
<1>9. RegexesOf("log") = Regexes
  BY DEF RegexesOf
<1> QED
  BY <1>1, <1>2, <1>3, <1>4, <1>6, <1>7, <1>8, <1>9 DEF K

\* A pattern belongs to a key rule or to a regex rule, and has its key or its
\* format.
LEMMA TextRulesNamed ==
    ASSUME NEW m \in Maskers, NEW n \in DOMAIN textRules[m],
           NEW p, p = textRules[m][n]
    PROVE  /\ p.repl \in Replacements
           /\ p.form \in {"string", "number", "escaped", "format", "absent"}
           /\ p.form \notin {"format", "absent"} =>
                 \E repl \in Naming(m, p.key) : p.repl \in {repl, [repl EXCEPT !.template = FALSE]}
           /\ p.form = "format" =>
                 /\ m = "log" /\ n > 3 * Len(KeyRules[m])
                 /\ \E k \in DOMAIN Regexes :
                       "values" \in DOMAIN Regexes[k] /\ p.values = Regexes[k].values
<1> DEFINE r == (n + 2) \div 3
           form == Forms[1 + ((n + 2) % 3)]
           N == Len(KeyRules[m])
<1>1. n \in 1 .. 3 * RuleCount(m)
  BY DEF textRules
<1>2. r \in 1 .. RuleCount(m) /\ 1 + ((n + 2) % 3) \in 1 .. 3
  BY <1>1, GivenRules, Thirds
<1>3. form \in {"string", "number", "escaped"}
  <2> DEFINE i == 1 + ((n + 2) % 3)
  <2>1. i \in 1 .. 3
    BY <1>2
  <2> HIDE DEF i
  <2>2. Forms[i] \in {"string", "number", "escaped"}
    BY <2>1 DEF Forms
  <2> QED
    BY <2>2 DEF i
<1>4. p = IF r <= N THEN buildKeyPatterns(KeyRules[m][r], form)
          ELSE compileRegex(RegexesOf(m)[r - N], form)
  BY DEF textRules
<1> HIDE DEF r, form
<1>5. CASE r <= N
  <2>1. r \in DOMAIN KeyRules[m]
    BY <1>2, <1>5, GivenRules
  <2> DEFINE rule1 == KeyRules[m][r]
  <2>2. rule1.key \in Keys /\ rule1.repl \in Replacements /\ rule1.repl \in Naming(m, rule1.key)
    BY <2>1, GivenRules DEF Naming
  <2> DEFINE kept == [rule1.repl EXCEPT !.template = @ /\ ~rule1.repl.hmac]
  <2>3. p = [form |-> form, key |-> rule1.key, repl |-> kept]
    BY <1>4, <1>5 DEF buildKeyPatterns
  <2> HIDE DEF rule1
  <2>4. \A x \in Replacements : [x EXCEPT !.template = FALSE] \in Replacements
    BY DEF Replacements
  <2>5. kept \in {rule1.repl, [rule1.repl EXCEPT !.template = FALSE]}
    BY <2>2 DEF Replacements
  <2> HIDE DEF kept
  <2>6. p.form = form /\ p.key = rule1.key /\ p.repl = kept
    BY <2>3
  <2>7. p.repl \in Replacements
    BY <2>2, <2>4, <2>5, <2>6, Zenon
  <2> QED
    BY <1>3, <2>2, <2>5, <2>6, <2>7
<1>6. CASE ~(r <= N)
  <2>1. m = "log" /\ r - N \in DOMAIN Regexes
    <3>1. r - N \in 1 .. Len(RegexesOf(m))
      BY <1>2, <1>6, GivenRules DEF RuleCount
    <3>2. RegexesOf(m) # <<>>
      BY <3>1, EmptySeq
    <3>3. m = "log" /\ RegexesOf(m) = Regexes
      BY <3>2, GivenRules
    <3>4. DOMAIN Regexes = 1 .. Len(Regexes)
      BY RulesAssumption, LenProperties
    <3> QED
      BY <3>1, <3>3, <3>4
  <2> DEFINE regex1 == Regexes[r - N]
  <2>2. regex1.repl \in Replacements /\ p = compileRegex(regex1, form)
    BY <1>4, <1>6, <2>1, GivenRules
  <2>3. CASE "key" \in DOMAIN regex1
    <3>1. regex1.repl \in Naming(m, regex1.key)
      BY <2>1, <2>3 DEF Naming
    <3>2. /\ p.key = regex1.key /\ p.repl = regex1.repl
          /\ p.form \in {"string", "escaped", "absent"}
      BY <1>3, <2>2, <2>3 DEF compileRegex
    <3> QED
      BY <2>2, <3>1, <3>2
  <2>4. CASE "key" \notin DOMAIN regex1
    <3>1. p.values = regex1.values /\ p.repl = regex1.repl /\ p.form \in {"format", "absent"}
      BY <2>2, <2>4 DEF compileRegex
    <3>2. "values" \in DOMAIN regex1
      BY <2>1, <2>4, GivenRules
    <3>3. n > 3 * N
      BY <1>1, <1>6, GivenRules, Thirds DEF r
    <3> QED
      BY <2>1, <2>2, <3>1, <3>2, <3>3
  <2> QED
    BY <2>3, <2>4
<1> QED
  BY <1>5, <1>6

-----------------------------------------------------------------------------
(* Type correctness.                                                       *)

Routes == {"line", "twice", "excerpt", "source", "field"} \union Aside

\* The stages that a value of route r may have ahead of it.
Ahead(r) ==
    IF r = "line" THEN {<<"log">>, <<>>}
    ELSE IF r = "twice" THEN {<<"log", "log">>, <<"log">>, <<>>}
    ELSE IF r = "excerpt" THEN {<<"doc", "log", "cut">>, <<"log", "cut">>, <<"cut">>, <<>>}
    ELSE IF r = "source" THEN {<<"walk", "strings">>, <<"strings">>, <<>>}
    ELSE IF r = "field" THEN {<<"walk", "field">>, <<"field">>, <<>>}
    ELSE {<<>>}

\* Where a route begins, and with which stages.
StageInv ==
    /\ route \in Routes /\ todo \in Ahead(route)
    /\ route \in {"line", "twice", "excerpt"} => path[1].in = "string"
    /\ route \in {"source", "field"} => path[1].in = "member"
    /\ pc \in {"walk", "text", "end"} => todo # <<>>
    /\ pc = "done" => todo = <<>>
    /\ todo # <<>> /\ Head(todo) = "cut" => pc \in {"next", "end"}

\* A line is a string of the path and stays where it is; the walk stands on a
\* container below it.
LineInv ==
    /\ base \in Nat /\ (pc = "text" => base # 0)
    /\ pc \in {"walk", "text"} /\ base # 0 => base \in DOMAIN path /\ path[base].in = "string"
    /\ pc = "walk" => pos \in base + 1 .. Len(path) - 1 /\ Container(path[pos])

GivenInv == \E p \in Paths, v \in Values : given = <<p, Raw(v)>>

IInv ==
    /\ WellFormed(path) /\ content \in Texts
    /\ StageInv /\ LineInv /\ GivenInv
    /\ masker \in Maskers /\ (masker = "doc" => route = "excerpt")
    /\ rule \in Nat /\ changed \in BOOLEAN
    /\ pc \in {"next", "walk", "text", "end", "done"}

\* The stages of a route, taken one by one.
LEMMA StagesAhead ==
    ASSUME NEW r \in Routes
    PROVE  /\ Stages(r) \in Ahead(r)
           /\ \A t \in Ahead(r) : t # <<>> =>
                 /\ Tail(t) \in Ahead(r)
                 /\ Head(t) \in {"log", "doc"} => r \in {"line", "twice", "excerpt"}
                 /\ Head(t) \in {"walk", "strings", "field"} => r \in {"source", "field"}
                 /\ Head(t) \in {"doc", "cut"} => r = "excerpt"
                 /\ Head(t) = "cut" => Tail(t) = <<>>
                 /\ r \notin Aside
           /\ \A t \in Ahead(r) : t \in Seq(Maskers \union {"walk", "strings", "field", "cut"})
<1>1. /\ Head(<<"log">>) = "log" /\ Tail(<<"log">>) = <<>>
      /\ Head(<<"log", "log">>) = "log" /\ Tail(<<"log", "log">>) = <<"log">>
      /\ Head(<<"doc", "log", "cut">>) = "doc" /\ Tail(<<"doc", "log", "cut">>) = <<"log", "cut">>
      /\ Head(<<"log", "cut">>) = "log" /\ Tail(<<"log", "cut">>) = <<"cut">>
      /\ Head(<<"cut">>) = "cut" /\ Tail(<<"cut">>) = <<>>
      /\ Head(<<"walk", "strings">>) = "walk" /\ Tail(<<"walk", "strings">>) = <<"strings">>
      /\ Head(<<"walk", "field">>) = "walk" /\ Tail(<<"walk", "field">>) = <<"field">>
      /\ Head(<<"strings">>) = "strings" /\ Tail(<<"strings">>) = <<>>
      /\ Head(<<"field">>) = "field" /\ Tail(<<"field">>) = <<>>
  OBVIOUS
<1>2. Stages(r) \in Ahead(r)
  BY DEF Stages, Excerpt, Ahead, Routes, Aside
<1>3. \A t \in Ahead(r) : t # <<>> =>
         /\ Tail(t) \in Ahead(r)
         /\ Head(t) \in {"log", "doc"} => r \in {"line", "twice", "excerpt"}
         /\ Head(t) \in {"walk", "strings", "field"} => r \in {"source", "field"}
         /\ Head(t) \in {"doc", "cut"} => r = "excerpt"
         /\ Head(t) = "cut" => Tail(t) = <<>>
         /\ r \notin Aside
  BY <1>1 DEF Ahead, Routes, Aside
<1>4. \A t \in Ahead(r) : t \in Seq(Maskers \union {"walk", "strings", "field", "cut"})
  <2> DEFINE A == Maskers \union {"walk", "strings", "field", "cut"}
  <2>1. {"log", "doc", "walk", "strings", "field", "cut"} \subseteq A
    BY DEF Maskers
  <2> HIDE DEF A
  <2>2. /\ <<>> \in Seq(A) /\ <<"log">> \in Seq(A) /\ <<"log", "log">> \in Seq(A)
        /\ <<"doc", "log", "cut">> \in Seq(A) /\ <<"log", "cut">> \in Seq(A)
        /\ <<"cut">> \in Seq(A) /\ <<"strings">> \in Seq(A) /\ <<"field">> \in Seq(A)
        /\ <<"walk", "strings">> \in Seq(A) /\ <<"walk", "field">> \in Seq(A)
    BY <2>1
  <2>3. \A t \in Ahead(r) : t \in Seq(A)
    BY <2>2 DEF Ahead
  <2> QED
    BY <2>3 DEF A
<1> QED
  BY <1>2, <1>3, <1>4

\* Below a string that is not words, and below a member or an element that holds
\* no scalar, there is a container with something in it.
LEMMA ContainerBelow ==
    ASSUME WellFormed(path), NEW i \in 1 .. Len(path)
    PROVE  /\ path[i].in = "string" /\ path[i] # Bare =>
                 i + 1 \in 1 .. Len(path) - 1 /\ Container(path[i + 1])
           /\ Container(path[i]) => i + 1 \in 1 .. Len(path)
           /\ ~Scalar(path[i]) => i \in 1 .. Len(path) - 1 /\ Container(path[i])
<1>1. ASSUME NEW j \in 1 .. Len(path), Container(path[j]) PROVE j < Len(path)
  <2>1. path[j] \in Layers /\ (j = Len(path) <=> Leaf(path[j])) /\ Len(path) \in Nat
    BY Below
  <2> QED
    BY <1>1, <2>1, LayerKinds
<1>2. /\ path[i] \in Layers /\ (i = Len(path) <=> Leaf(path[i])) /\ Len(path) \in Nat
      /\ i < Len(path) => /\ Container(path[i]) \/ (path[i].in = "string" /\ Container(path[i + 1]))
                          /\ i + 1 \in 1 .. Len(path)
  BY Below
<1>3. path[i].in = "string" => ~Container(path[i]) /\ (Leaf(path[i]) <=> path[i] = Bare)
  BY <1>2, LayerKinds
<1>4. ~Scalar(path[i]) => Container(path[i])
  BY <1>2, LayerKinds DEF Scalar
<1>5. i \in Nat /\ i <= Len(path)
  BY <1>2
<1>6. ASSUME path[i].in = "string", path[i] # Bare
      PROVE  i + 1 \in 1 .. Len(path) - 1 /\ Container(path[i + 1])
  <2>1. i < Len(path)
    BY <1>2, <1>3, <1>5, <1>6
  <2>2. Container(path[i + 1]) /\ i + 1 \in 1 .. Len(path)
    BY <1>2, <1>3, <1>6, <2>1
  <2>3. i + 1 < Len(path)
    BY <1>1, <2>2
  <2> QED
    BY <1>2, <1>5, <2>2, <2>3
<1> QED
  BY <1>1, <1>2, <1>4, <1>5, <1>6

\* What Apply begins with on a line.
LEMMA ApplyBegins ==
    ASSUME IInv, NEW b \in DOMAIN path, path[b].in = "string", BeginApply(b), path' = path
    PROVE  /\ base' = b /\ rule' \in Nat /\ pc' \in {"walk", "text", "end"}
           /\ LineInv'
<1>1. /\ DOMAIN path = 1 .. Len(path) /\ b \in 1 .. Len(path) /\ Len(path) \in Nat
  BY LenProperties DEF IInv, WellFormed
<1>2. Bare.as # "json"
  BY DEF Bare, String
<1>3. /\ base' = b /\ rule' = 1 /\ pos' = b + 1
      /\ pc' \in {"walk", "text", "end"} /\ (pc' = "walk" => path[b].as = "json")
  <2>1. CASE path[b] = Bare /\ content = Raw(Blank)
    BY <1>2, <2>1 DEF BeginApply
  <2>2. CASE ~(path[b] = Bare /\ content = Raw(Blank)) /\ path[b].as = "json"
    BY <2>2 DEF BeginApply
  <2>3. CASE ~(path[b] = Bare /\ content = Raw(Blank)) /\ path[b].as # "json"
    BY <2>3 DEF BeginApply
  <2> QED
    BY <2>1, <2>2, <2>3
<1>4. pc' = "walk" => b + 1 \in 1 .. Len(path) - 1 /\ Container(path[b + 1])
  BY <1>1, <1>2, <1>3, ContainerBelow DEF IInv
<1>5. LineInv'
  BY <1>1, <1>3, <1>4 DEF LineInv
<1> QED
  BY <1>3, <1>5

\* The first states.
LEMMA TypeInit == Init => IInv
<1> SUFFICES ASSUME Init PROVE IInv
  OBVIOUS
<1>1. PICK v \in Values : content = Raw(v)
  BY DEF Init
<1>2. path \in Paths /\ WellFormed(path) /\ path[1].in \in {"string", "member"}
  BY PathsAssumption DEF Init
<1>3. content \in Texts
  BY <1>1, MadeTexts
<1>4. /\ route \in Aside \union {"line", "twice", "excerpt", "source", "field"}
      /\ route \in {"line", "twice", "excerpt"} => path[1].in = "string"
      /\ route \in {"source", "field"} => path[1].in = "member"
  BY <1>2 DEF Init, Aside
<1>5. route \in Routes
  BY <1>2, <1>4 DEF Routes
<1>6. StageInv
  BY <1>2, <1>4, <1>5, StagesAhead DEF StageInv, Init, Routes, Aside
<1>7. GivenInv
  BY <1>1, <1>2 DEF GivenInv, Init
<1> QED
  BY <1>2, <1>3, <1>6, <1>7 DEF IInv, LineInv, Init, Maskers

\* The calls that the stages begin with.
LEMMA TypeCalls == IInv /\ (ApplyLine \/ WalkSource \/ ApplyStrings \/ Truncate) => IInv'
<1> SUFFICES ASSUME IInv, ApplyLine \/ WalkSource \/ ApplyStrings \/ Truncate PROVE IInv'
  OBVIOUS
<1>1. /\ Len(path) \in Nat \ {0} /\ DOMAIN path = 1 .. Len(path) /\ 1 \in DOMAIN path
  <2>1. Len(path) \in Nat /\ path # <<>> /\ DOMAIN path = 1 .. Len(path)
    BY LenProperties DEF IInv, WellFormed
  <2>2. Len(path) # 0
    BY <2>1, EmptySeq DEF IInv, WellFormed
  <2> QED
    BY <2>1, <2>2
<1>2. /\ todo # <<>> /\ route \in Routes /\ todo \in Ahead(route) /\ pc = "next"
  BY DEF ApplyLine, WalkSource, ApplyStrings, Truncate, Begin, IInv, StageInv
<1>3. CASE ApplyLine
  <2>1. /\ Head(todo) \in Maskers /\ masker' = Head(todo) /\ BeginApply(1)
        /\ UNCHANGED <<path, content, given, route, todo, changed>>
    BY <1>3 DEF ApplyLine, Begin
  <2>2. route \in {"line", "twice", "excerpt"} /\ (Head(todo) = "doc" => route = "excerpt")
    BY <1>2, <2>1, StagesAhead DEF Maskers
  <2>3. path[1].in = "string"
    BY <2>2 DEF IInv, StageInv
  <2>4. LineInv' /\ rule' \in Nat /\ pc' \in {"walk", "text", "end"}
    BY <1>1, <2>1, <2>3, ApplyBegins
  <2>5. Head(todo) # "cut"
    BY <2>1 DEF Maskers
  <2> QED
    BY <1>2, <2>1, <2>2, <2>4, <2>5 DEF IInv, StageInv, GivenInv
<1>4. CASE WalkSource
  <2>1. /\ Head(todo) = "walk" /\ base' = 0 /\ pos' = 1 /\ pc' = "walk"
        /\ UNCHANGED <<path, content, given, route, todo, masker, rule, changed>>
    BY <1>4 DEF WalkSource, Begin
  <2>2. path[1].in = "member" /\ path[1] \in Layers
    BY <1>1, <1>2, <2>1, StagesAhead, Below DEF IInv, StageInv
  <2>3. Container(path[1]) /\ ~Scalar(path[1])
    BY <2>2 DEF Container, Scalar
  <2>4. 1 \in 1 .. Len(path) - 1
    BY <1>1, <2>3, ContainerBelow DEF IInv
  <2> QED
    BY <1>2, <2>1, <2>3, <2>4 DEF IInv, StageInv, LineInv, GivenInv
<1>5. CASE ApplyStrings
  <2>1. /\ Head(todo) \in {"strings", "field"}
        /\ UNCHANGED <<path, content, given, route, todo, masker, changed>>
    BY <1>5 DEF ApplyStrings, Begin
  <2>2. LineInv' /\ rule' \in Nat /\ pc' \in {"walk", "text", "end"}
    <3>1. CASE \E b \in DOMAIN path : InScope(b) /\ BeginApply(b)
      <4>1. PICK b \in DOMAIN path : InScope(b) /\ BeginApply(b)
        BY <3>1
      <4>2. path[b].in = "string"
        BY <4>1 DEF InScope, FirstString
      <4> QED
        BY <2>1, <4>1, <4>2, ApplyBegins
    <3>2. CASE pc' = "end" /\ UNCHANGED <<base, pos, rule>>
      BY <2>1, <3>2 DEF IInv, LineInv
    <3> QED
      BY <1>5, <3>1, <3>2 DEF ApplyStrings
  <2> QED
    BY <1>2, <2>1, <2>2 DEF IInv, StageInv, GivenInv
<1>6. CASE Truncate
  <2>1. /\ pc' = "end" /\ content' \in {content, Around("piece", content), Gone}
        /\ UNCHANGED <<path, given, route, todo, masker, base, pos, rule, changed>>
    BY <1>6 DEF Truncate
  <2>2. content' \in Texts
    BY <2>1, MadeTexts DEF IInv, Makes
  <2> QED
    BY <1>2, <2>1, <2>2 DEF IInv, StageInv, LineInv, GivenInv
<1> QED
  BY <1>3, <1>4, <1>5, <1>6

\* What ends a stage, and a value's way.
LEMMA TypeEnds == IInv /\ (EndStage \/ RewriteAround \/ Deliver) => IInv'
<1> SUFFICES ASSUME IInv, EndStage \/ RewriteAround \/ Deliver PROVE IInv'
  OBVIOUS
<1>1. CASE EndStage
  <2>1. /\ pc' = "next" /\ todo' = Tail(todo) /\ changed' \in BOOLEAN
        /\ UNCHANGED <<path, content, given, route, masker, base, pos, rule>>
    BY <1>1 DEF EndStage, CountChange, IInv
  <2>2. todo # <<>> /\ route \in Routes /\ todo \in Ahead(route)
    BY <1>1 DEF EndStage, IInv, StageInv
  <2>3. todo' \in Ahead(route)
    BY <2>1, <2>2, StagesAhead
  <2> QED
    BY <2>1, <2>3 DEF IInv, StageInv, LineInv, GivenInv
<1>2. CASE RewriteAround
  <2>1. /\ pc' = "done" /\ content' \in {Gone, content, Around("float", content)}
        /\ changed' \in BOOLEAN
        /\ route \in Aside
        /\ UNCHANGED <<path, given, route, todo, masker, base, pos, rule>>
    BY <1>2 DEF RewriteAround
  <2>2. content' \in Texts
    BY <2>1, MadeTexts DEF IInv, Makes
  <2>3. todo = <<>>
    BY <2>1 DEF IInv, StageInv, Ahead, Aside
  <2> QED
    BY <2>1, <2>2, <2>3 DEF IInv, StageInv, LineInv, GivenInv
<1>3. CASE Deliver
  BY <1>3 DEF Deliver, IInv, StageInv, LineInv, GivenInv
<1> QED
  BY <1>1, <1>2, <1>3

\* A value written over the scalar that a member below the line holds.
LEMMA Written ==
    ASSUME IInv, NEW i \in 1 .. Len(path) - 1, i > base, Container(path[i]),
           NEW c \in Texts, Put(i, c), base' = base
    PROVE  /\ WellFormed(path') /\ content' \in Texts
           /\ path'[1].in = path[1].in
           /\ base # 0 /\ base \in DOMAIN path =>
                 base \in DOMAIN path' /\ path'[base] = path[base]
<1>1. /\ Len(path) \in Nat /\ DOMAIN path = 1 .. Len(path) /\ base \in Nat
  BY LenProperties DEF IInv, WellFormed, LineInv
<1>2. /\ WellFormed(path') /\ Len(path') = i + 1 /\ \A j \in 1 .. i : path'[j] = path[j]
  <2>1. i \in 0 .. Len(path) - 1 /\ path' = Append(SubSeq(path, 1, i), Bare)
    BY <1>1 DEF Put
  <2> QED
    BY <2>1, CutPath DEF IInv
<1>3. DOMAIN path' = 1 .. i + 1
  BY <1>2, LenProperties DEF WellFormed
<1>4. 1 \in 1 .. i /\ (base # 0 => base \in 1 .. i)
  BY <1>1
<1> QED
  BY <1>1, <1>2, <1>3, <1>4 DEF Put

\* Among rules that are so many at most there is a last one.
LEMMA LastRule ==
    ASSUME NEW n \in Nat, NEW T, T \subseteq 1 .. n, T # {}
    PROVE  \E l \in T : \A i \in T : i <= l
<1>1. \A x, y \in Nat : x < y => <<x, y>> \in OpToRel(<, Nat)
  BY DEF OpToRel
<1> DEFINE U == {n - i : i \in T}
<1>2. \A i \in T : n - i \in Nat
  OBVIOUS
<1>3. U \subseteq Nat /\ U # {}
  BY <1>2
<1>4. PICK u \in U : \A y \in U : ~(<<y, u>> \in OpToRel(<, Nat))
  BY <1>3, NatLessThanWellFounded, WFMin
<1>5. \A y \in U : ~(y < u)
  BY <1>1, <1>3, <1>4
<1>6. PICK l \in T : u = n - l
  OBVIOUS
<1>7. ASSUME NEW i \in T PROVE i <= l
  <2>1. ~(n - i < n - l)
    BY <1>5, <1>6
  <2>2. i \in Nat /\ l \in Nat
    OBVIOUS
  <2> QED
    BY <2>1, <2>2
<1> QED
  BY <1>7

\* The rule that keyReplace holds for a key is one of those that name it.
LEMMA RuleHeld ==
    ASSUME masker \in Maskers, NEW k, RulesOf(k) # {}
    PROVE  keyReplace(k) \in Replacements /\ keyReplace(k) \in Naming(masker, k)
<1>1. /\ Len(KeyRules[masker]) \in Nat /\ DOMAIN KeyRules[masker] = 1 .. Len(KeyRules[masker])
  BY GivenRules, LenProperties
<1>2. RulesOf(k) \subseteq DOMAIN KeyRules[masker]
  BY DEF RulesOf
<1>3. \E l \in RulesOf(k) : \A i \in RulesOf(k) : i <= l
  BY <1>1, <1>2, LastRule
<1> DEFINE l == CHOOSE l \in RulesOf(k) : \A i \in RulesOf(k) : i <= l
<1>4. l \in RulesOf(k)
  BY <1>3
<1>5. keyReplace(k) = KeyRules[masker][l].repl
  BY DEF keyReplace
<1> HIDE DEF l
<1>6. l \in DOMAIN KeyRules[masker] /\ KeyRules[masker][l].key = k
  BY <1>4 DEF RulesOf
<1> QED
  BY <1>5, <1>6, GivenRules DEF Naming

\* The steps of the walk.
LEMMA TypeWalk == IInv /\ (MaskScalar \/ Descend \/ WalkEnds) => IInv'
<1> SUFFICES ASSUME IInv, MaskScalar \/ Descend \/ WalkEnds PROVE IInv'
  OBVIOUS
<1>1. /\ pc = "walk" /\ pos \in base + 1 .. Len(path) - 1 /\ Container(path[pos])
      /\ base \in Nat /\ Len(path) \in Nat /\ DOMAIN path = 1 .. Len(path)
      /\ base # 0 => base \in DOMAIN path /\ path[base].in = "string"
      /\ todo # <<>> /\ Head(todo) # "cut"
  BY LenProperties DEF MaskScalar, Descend, WalkEnds, IInv, LineInv, StageInv, WellFormed
<1>2. pos \in 1 .. Len(path) - 1 /\ pos > base /\ pos + 1 \in 1 .. Len(path)
  BY <1>1
<1>3. CASE MaskScalar
  <2>1. PICK c \in Texts : Put(pos, c)
    <3>1. RulesOf(path[pos].key) # {}
      BY <1>3 DEF MaskScalar, Ruled
    <3>2. Text(pos + 1) \in Texts
      BY SpellingAssumption, MadeTexts DEF Text, IInv
    <3> DEFINE repl == keyReplace(path[pos].key)
    <3>3. repl \in Replacements
      BY <3>1, RuleHeld DEF IInv
    <3>4. replaceScalar(repl, Text(pos + 1)) \in Texts /\ staticReplacement(repl) \in Texts
      BY <3>2, <3>3, ReplacedTexts
    <3> QED
      BY <1>3, <3>4 DEF MaskScalar
  <2>2. /\ pc' = (IF base = 0 THEN "end" ELSE "text")
        /\ UNCHANGED <<pos, given, route, todo, masker, base, rule, changed>>
    BY <1>3 DEF MaskScalar, LeaveWalk
  <2>3. /\ WellFormed(path') /\ content' \in Texts /\ path'[1].in = path[1].in
        /\ base # 0 => base \in DOMAIN path' /\ path'[base].in = "string"
    BY <1>1, <1>2, <2>1, <2>2, Written
  <2> QED
    BY <1>1, <2>2, <2>3 DEF IInv, StageInv, LineInv, GivenInv
<1>4. CASE Descend
  <2>1. /\ pc' = "walk"
        /\ UNCHANGED <<path, content, given, route, todo, masker, base, rule, changed>>
    BY <1>4 DEF Descend
  <2>2. pos' \in base + 1 .. Len(path) - 1 /\ Container(path[pos'])
    <3>1. CASE ~Scalar(path[pos + 1]) /\ pos' = pos + 1
      <4>1. pos + 1 \in 1 .. Len(path) - 1 /\ Container(path[pos + 1])
        BY <1>2, <3>1, ContainerBelow DEF IInv
      <4> QED
        BY <1>1, <3>1, <4>1
    <3>2. CASE Decodable(path[pos + 1]) /\ pos' = pos + 2
      <4>1. path[pos + 1].in = "string" /\ path[pos + 1] # Bare
        BY <3>2 DEF Decodable, String, Bare
      <4>2. pos + 1 + 1 \in 1 .. Len(path) - 1 /\ Container(path[pos + 1 + 1])
        BY <1>2, <4>1, ContainerBelow DEF IInv
      <4>3. pos + 1 + 1 = pos'
        BY <1>1, <3>2
      <4> QED
        BY <1>1, <4>2, <4>3
    <3> QED
      BY <1>4, <3>1, <3>2 DEF Descend
  <2> QED
    BY <1>1, <2>1, <2>2 DEF IInv, StageInv, LineInv, GivenInv
<1>5. CASE WalkEnds
  BY <1>1, <1>5 DEF WalkEnds, LeaveWalk, IInv, StageInv, LineInv, GivenInv
<1> QED
  BY <1>3, <1>4, <1>5

\* A text rule changes the path only below the string that is the line.
LEMMA TypeText == IInv /\ (TextRule \/ EndText) => IInv'
<1> SUFFICES ASSUME IInv, TextRule \/ EndText PROVE IInv'
  OBVIOUS
<1>1. /\ pc = "text" /\ base \in Nat \ {0} /\ base \in DOMAIN path /\ path[base].in = "string"
      /\ todo # <<>> /\ Head(todo) # "cut" /\ masker \in Maskers
      /\ Len(path) \in Nat /\ DOMAIN path = 1 .. Len(path)
  <2>1. pc = "text"
    BY DEF TextRule, EndText, ReplaceFormat, NoMatch, ReplaceKeyed, CutOpen, Current
  <2> QED
    BY <2>1, LenProperties DEF IInv, LineInv, StageInv, WellFormed
<1>2. ASSUME /\ WellFormed(path') /\ content' \in Texts
             /\ path'[1].in = path[1].in
             /\ base \in DOMAIN path' /\ path'[base].in = "string",
             pc' = "text", rule' = rule + 1,
             UNCHANGED <<given, route, todo, masker, base, pos, changed>>
      PROVE  IInv'
  BY <1>1, <1>2 DEF IInv, StageInv, LineInv, GivenInv
<1>3. CASE EndText
  BY <1>1, <1>3 DEF EndText, IInv, StageInv, LineInv, GivenInv
<1>4. ASSUME NEW n \in DOMAIN textRules[masker], NEW p, p = textRules[masker][n],
             \/ ReplaceFormat(p) \/ NoMatch(p)
             \/ \E i \in 1 .. Len(path) - 1 : ReplaceKeyed(p, i) \/ CutOpen(p, i)
      PROVE  IInv'
  <2>1. p.repl \in Replacements /\ p.form \in {"string", "number", "escaped", "format", "absent"}
    BY <1>1, <1>4, TextRulesNamed
  <2>2. \A c \in Texts : replaceMatch(p.repl, Spelled(c)) \in Texts
    BY <2>1, MadeTexts, ReplacedTexts
  <2>3. CASE NoMatch(p)
    BY <1>1, <1>2, <2>3 DEF NoMatch, Current, IInv
  <2>4. CASE ReplaceFormat(p)
    <3> DEFINE Lost(i) == /\ path[Len(path)].in = "number" /\ path[i].in = "string"
                          /\ \A j \in i + 1 .. Len(path) : path[j].in # "string"
    <3>1. path' = [i \in DOMAIN path |-> IF Lost(i) THEN String("lost") ELSE path[i]]
      BY <2>4 DEF ReplaceFormat
    <3>2. \A i \in DOMAIN path : Lost(i) => path[i].in = "string" /\ i # Len(path)
      OBVIOUS
    <3>3. \A i \in DOMAIN path : path[i] \in Layers
      BY <1>1, Below DEF IInv
    <3> HIDE DEF Lost
    <3>4. /\ path' \in [DOMAIN path -> Layers]
          /\ \A i \in DOMAIN path : \/ path'[i] = path[i]
                                    \/ path'[i] = String("lost") /\ path[i].in = "string"
                                         /\ i # Len(path)
      BY <3>1, <3>2, <3>3, NewLayers
    <3>5. WellFormed(path') /\ DOMAIN path' = DOMAIN path
      BY <3>4, Relabelled DEF IInv
    <3>6. 1 \in DOMAIN path
      BY <1>1
    <3>7. path'[1].in = path[1].in /\ path'[base].in = path[base].in
      BY <1>1, <3>4, <3>6, NewLayers
    <3>8. content' \in Texts
      BY <2>2, <2>4 DEF ReplaceFormat, IInv
    <3> QED
      BY <1>1, <1>2, <2>4, <3>5, <3>7, <3>8 DEF ReplaceFormat
  <2>5. ASSUME NEW i \in 1 .. Len(path) - 1, ReplaceKeyed(p, i) \/ CutOpen(p, i)
        PROVE  IInv'
    <3>1. /\ Meets(p, i) /\ i > base /\ path[i] = Member(p.key) /\ Container(path[i])
      <4>1. Meets(p, i)
        BY <2>5 DEF ReplaceKeyed, CutOpen
      <4>2. i > base /\ path[i] = Member(p.key)
        BY <4>1, Zenon DEF Meets
      <4> QED
        BY <4>1, <4>2 DEF Member, Container
    <3>2. /\ i \in 1 .. Len(path) /\ i + 1 \in 1 .. Len(path) /\ base < i
      BY <1>1, <3>1
    <3>3. CASE ReplaceKeyed(p, i)
      <4>1. Text(i + 1) \in Texts
        BY SpellingAssumption, MadeTexts DEF Text, IInv
      <4>2. replaceMatch(p.repl, Spelled(Text(i + 1))) \in Texts
        BY <2>2, <4>1
      <4>3. /\ Put(i, replaceMatch(p.repl, Spelled(Text(i + 1)))) /\ base' = base
            /\ rule' = rule + 1
            /\ UNCHANGED <<given, route, todo, masker, base, pos, before, changed, pc>>
        BY <3>3 DEF ReplaceKeyed
      <4>4. /\ WellFormed(path') /\ content' \in Texts /\ path'[1].in = path[1].in
            /\ base \in DOMAIN path' /\ path'[base].in = "string"
        BY <1>1, <3>1, <4>2, <4>3, Written
      <4> QED
        BY <1>1, <1>2, <4>3, <4>4
    <3>4. CASE CutOpen(p, i)
      <4>1. /\ HoldsQuotes(i + 1) /\ rule' = rule + 1
            /\ UNCHANGED <<content, given, route, todo, masker, base, pos, before, changed, pc>>
        BY <3>4 DEF CutOpen
      <4>2. CASE path' = Append(SubSeq(path, 1, base - 1), Bare)
        <5>1. base - 1 \in 0 .. Len(path) - 1
          BY <1>1
        <5>2. base - 1 # 0 => Container(path[base - 1])
          <6> SUFFICES ASSUME base - 1 # 0 PROVE Container(path[base - 1])
            OBVIOUS
          <6> DEFINE j == base - 1
          <6>1. j \in 1 .. Len(path) /\ j < Len(path) /\ j + 1 = base
            BY <1>1
          <6>2. ~Container(path[base])
            BY <1>1 DEF Container
          <6> HIDE DEF j
          <6>3. Container(path[j]) \/ Container(path[j + 1])
            BY <6>1, Below DEF IInv
          <6>4. Container(path[j])
            BY <6>1, <6>2, <6>3
          <6> QED
            BY <6>4 DEF j
        <5> DEFINE j == base - 1
        <5>3. /\ WellFormed(path') /\ Len(path') = j + 1 /\ path'[j + 1] = Bare
              /\ \A l \in 1 .. j : path'[l] = path[l]
          <6> HIDE DEF j
          <6>1. j \in 0 .. Len(path) - 1 /\ (j # 0 => Container(path[j]))
            BY <5>1, <5>2 DEF j
          <6>2. path' = Append(SubSeq(path, 1, j), Bare)
            BY <4>2 DEF j
          <6> QED
            BY <6>1, <6>2, CutPath DEF IInv
        <5>4. j + 1 = base /\ (base = 1 \/ 1 \in 1 .. j)
          BY <1>1
        <5>5. path'[base] = Bare /\ path'[1].in = path[1].in
          BY <1>1, <5>3, <5>4, NewLayers
        <5>6. base \in DOMAIN path'
          BY <1>1, <5>3, <5>4, LenProperties DEF WellFormed
        <5> QED
          BY <1>1, <1>2, <4>1, <5>3, <5>5, <5>6, NewLayers DEF IInv
      <4>3. CASE /\ i + 1 # Len(path)
                 /\ path' = [path EXCEPT ![i] = Element, ![i + 1] = String("lost")]
        <5>1. path[i + 1].in = "string"
          <6>1. path[i + 1].in # "number"
            BY <3>2, <4>3, Below, LayerKinds DEF IInv
          <6> QED
            BY <2>1, <3>1, <4>1, <6>1 DEF Meets
        <5>2. \A j \in DOMAIN path : path[j] \in Layers
          BY <1>1, Below DEF IInv
        <5>3. i \in DOMAIN path /\ i + 1 \in DOMAIN path /\ i # i + 1
          BY <1>1, <3>2
        <5> DEFINE k == i + 1
        <5> HIDE DEF k
        <5>4. path' = [path EXCEPT ![i] = Element, ![k] = String("lost")]
          BY <4>3 DEF k
        <5>5. k \in DOMAIN path /\ path[k].in = "string" /\ k # Len(path) /\ k # i
          BY <4>3, <5>1, <5>3 DEF k
        <5>6. /\ path' \in [DOMAIN path -> Layers]
              /\ \A j \in DOMAIN path : \/ path'[j] = path[j]
                                        \/ path'[j] = String("lost") /\ j = k
                                        \/ path'[j] = Element /\ j = i
          <6>1. path \in [DOMAIN path -> Layers]
            <7> HIDE DEF Layers
            <7>1. path = [j \in DOMAIN path |-> path[j]]
              BY <1>1, SeqDef DEF IInv, WellFormed
            <7> QED
              BY <5>2, <7>1
          <6> HIDE DEF Layers
          <6> QED
            BY <5>2, <5>4, <5>3, <5>5, <6>1, NewLayers
        <5>7. WellFormed(path') /\ DOMAIN path' = DOMAIN path
          BY <3>1, <5>5, <5>6, Relabelled DEF IInv
        <5>8. 1 \in DOMAIN path /\ 1 # i /\ base # i
          BY <1>1, <3>2
        <5>9. path'[1].in = path[1].in /\ path'[base].in = path[base].in
          BY <1>1, <5>5, <5>6, <5>8, NewLayers
        <5> QED
          BY <1>1, <1>2, <4>1, <5>7, <5>9 DEF IInv
      <4> QED
        BY <3>4, <4>2, <4>3 DEF CutOpen
    <3> QED
      BY <2>5, <3>3, <3>4
  <2> QED
    BY <1>4, <2>3, <2>4, <2>5
<1> QED
  <2>1. CASE TextRule
    <3>1. PICK p \in {textRules[masker][n] : n \in DOMAIN textRules[masker]} :
            \/ ReplaceFormat(p) \/ NoMatch(p)
            \/ \E i \in 1 .. Len(path) - 1 : ReplaceKeyed(p, i) \/ CutOpen(p, i)
      BY <2>1 DEF TextRule
    <3>2. PICK n \in DOMAIN textRules[masker] : p = textRules[masker][n]
      OBVIOUS
    <3> QED
      BY <1>4, <3>1, <3>2
  <2> QED
    BY <1>3, <2>1

\* Every step.
LEMMA TypeStep == IInv /\ [Next]_vars => IInv'
<1> SUFFICES ASSUME IInv, [Next]_vars PROVE IInv'
  OBVIOUS
<1>1. CASE Done \/ UNCHANGED vars
  BY <1>1 DEF Done, vars, IInv, StageInv, LineInv, GivenInv
<1> QED
  BY <1>1, TypeCalls, TypeEnds, TypeWalk, TypeText DEF Next

\* Every path is well formed from the first to the last step, the walk stands on
\* a container of it and a text pass on a string (walk, tryDecodeAndMask, Apply).
THEOREM TypeCorrect == Spec => []TypeOK
<1>1. Init => IInv
  BY TypeInit
<1>2. IInv /\ [Next]_vars => IInv'
  BY TypeStep
<1>3. IInv => TypeOK
  <2> SUFFICES ASSUME IInv PROVE TypeOK
    OBVIOUS
  <2>1. PICK p \in Paths, v \in Values : given = <<p, Raw(v)>>
    BY DEF IInv, GivenInv
  <2>2. WellFormed(given[1]) /\ given[2] = Raw(v)
    BY <2>1, PathsAssumption
  <2>3. todo \in Seq(Maskers \union {"walk", "strings", "field", "cut"})
    BY StagesAhead DEF IInv, StageInv
  <2>4. content.form \in Makes /\ content.of \in Seq(Values \union Makes \union Modes)
    BY DEF IInv, Texts
  <2> QED
    BY <2>2, <2>3, <2>4 DEF IInv, LineInv, TypeOK
<1> QED
  BY <1>1, <1>2, <1>3, PTL DEF Spec

-----------------------------------------------------------------------------
(* What no rule covers.                                                    *)

\* No key above the value is any masker's, and no format is the value's.
Uncovered ==
    LET p == given[1]
        v == given[2].of[1]
        ms == IF route = "excerpt" THEN Maskers ELSE {"log"}
    IN /\ Holders(ms, p) = {}
       /\ p[Len(p)].in = "literal"
          \/ \A n \in DOMAIN Regexes : "values" \in DOMAIN Regexes[n] =>
                  {v, Escaped[v]} \intersect Regexes[n].values = {}

\* What Truncate, the last stage, leaves of an excerpt.
Cut ==
    /\ route = "excerpt" /\ content \in {Around("piece", given[2]), Gone}
    /\ (pc = "end" /\ Tail(todo) = <<>>) \/ todo = <<>>

KeepInv ==
    /\ route \in Aside \ {"data"} =>
          /\ path = given[1]
          /\ content = given[2] \/ (InFloat(route, path, given[2]) /\ content = Around("float", given[2]))
    /\ route \notin Aside /\ Uncovered => path = given[1] /\ (content = given[2] \/ Cut)

\* The rules at work are among those that would cover the value.
LEMMA NothingMet ==
    ASSUME IInv, KeepInv, route \notin Aside, Uncovered, todo # <<>>, pc \in {"walk", "text"}
    PROVE  /\ path = given[1] /\ content = given[2]
           /\ \A i \in 1 .. Len(path) - 1 :
                 path[i].in = "member" /\ Scalar(path[i + 1]) => Naming(masker, path[i].key) = {}
           /\ \A n \in DOMAIN textRules[masker] : ~Formatted(textRules[masker][n])
<1>1. path = given[1] /\ content = given[2] /\ masker \in Maskers
  BY DEF KeepInv, Cut, IInv
<1>2. PICK w \in Values : given[2] = Raw(w)
  BY DEF IInv, GivenInv
<1> DEFINE ms == IF route = "excerpt" THEN Maskers ELSE {"log"}
<1>3. masker \in ms
  BY DEF IInv, Maskers
<1>4. Holders(ms, path) = {}
  BY <1>1 DEF Uncovered
<1>5. ASSUME NEW i \in 1 .. Len(path) - 1, path[i].in = "member", Scalar(path[i + 1])
      PROVE  Naming(masker, path[i].key) = {}
  <2> HIDE DEF ms
  <2> QED
    BY <1>3, <1>4, <1>5 DEF Holders
<1>6. ASSUME NEW n \in DOMAIN textRules[masker], Formatted(textRules[masker][n])
      PROVE  FALSE
  <2> DEFINE p == textRules[masker][n]
  <2>1. PICK k \in DOMAIN Regexes : "values" \in DOMAIN Regexes[k] /\ p.values = Regexes[k].values
    BY <1>1, <1>6, TextRulesNamed DEF Formatted
  <2>2. PICK v \in p.values : Spelled(content) = Raw(v)
    BY <1>6 DEF Formatted
  <2>3. w = content.of[1] /\ content = Raw(w)
    BY <1>1, <1>2 DEF Raw, Content
  <2>4. Raw(v) = Raw(w) \/ Raw(v) = Raw(Escaped[w])
    BY <2>2, <2>3 DEF Spelled
  <2>5. v \in {w, Escaped[w]}
    BY <2>4 DEF Raw, Content
  <2>6. path[Len(path)].in # "literal"
    BY <1>6 DEF Formatted
  <2> QED
    BY <1>1, <2>1, <2>2, <2>3, <2>5, <2>6 DEF Uncovered
<1> QED
  BY <1>1, <1>5, <1>6

\* Values that no rule covers are kept by every step, the cut apart.
LEMMA Kept == IInv /\ KeepInv /\ [Next]_vars => KeepInv'
<1> SUFFICES ASSUME IInv, KeepInv, [Next]_vars PROVE KeepInv'
  OBVIOUS
<1>1. /\ route' = route /\ given' = given /\ (Uncovered' <=> Uncovered)
  <2>1. route' = route /\ given' = given
    BY DEF Next, vars, ApplyLine, WalkSource, ApplyStrings, Truncate, EndStage, RewriteAround,
           Deliver, MaskScalar, Descend, WalkEnds, TextRule, EndText, ReplaceFormat, NoMatch,
           ReplaceKeyed, CutOpen, Done
  <2> QED
    BY <2>1 DEF Uncovered
<1>2. CASE route \in Aside
  <2>1. todo = <<>> /\ pc \notin {"walk", "text", "end"} /\ "data" \in Aside
    BY <1>2 DEF IInv, StageInv, Ahead, Aside
  <2>2. ~RewriteAround => UNCHANGED <<path, content>>
    BY <1>2, <2>1 DEF Next, vars, ApplyLine, WalkSource, ApplyStrings, Truncate, EndStage, Begin,
           Deliver, MaskScalar, Descend, WalkEnds, TextRule, EndText,
           ReplaceFormat, NoMatch, ReplaceKeyed, CutOpen, Current, Done
  <2>3. ASSUME RewriteAround, route # "data"
        PROVE  /\ path' = path
               /\ content' = content
                    \/ (InFloat(route, path, content) /\ content' = Around("float", content))
    BY <2>3 DEF RewriteAround, Survives
  <2>4. ASSUME InFloat(route, path, Around("float", given[2])) PROVE FALSE
    BY <2>4 DEF InFloat, Around, Raw, Content
  <2>5. route # "data" => InFloat(route, path, given[2])' = InFloat(route, path, given[2])
    BY <1>1, <2>2, <2>3 DEF InFloat
  <2> QED
    BY <1>1, <1>2, <2>2, <2>3, <2>4, <2>5 DEF KeepInv
<1>3. CASE route \notin Aside /\ ~Uncovered
  BY <1>1, <1>3 DEF KeepInv
<1>4. CASE route \notin Aside /\ Uncovered
  <2>1. path = given[1] /\ (content = given[2] \/ Cut)
    BY <1>4 DEF KeepInv
  <2>2. ASSUME path' = given[1], content' = given[2] \/ Cut' PROVE KeepInv'
    BY <1>1, <1>4, <2>2 DEF KeepInv
  <2>3. todo # <<>> /\ pc # "end" => content = given[2]
    BY <2>1 DEF Cut
  <2>4. CASE ApplyLine \/ WalkSource \/ ApplyStrings
    BY <2>1, <2>2, <2>3, <2>4 DEF ApplyLine, WalkSource, ApplyStrings, Begin
  <2>5. CASE Truncate
    <3>1. /\ pc' = "end" /\ content' \in {content, Around("piece", content), Gone}
          /\ UNCHANGED <<path, todo>> /\ todo # <<>> /\ Head(todo) = "cut" /\ pc = "next"
      BY <2>5 DEF Truncate, Begin
    <3>2. route = "excerpt" /\ Tail(todo) = <<>>
      BY <3>1, StagesAhead DEF IInv, StageInv
    <3> QED
      BY <1>1, <2>1, <2>2, <2>3, <3>1, <3>2 DEF Cut
  <2>6. CASE EndStage
    <3>1. pc = "end" /\ todo' = Tail(todo) /\ UNCHANGED <<path, content>> /\ todo # <<>>
      BY <2>6 DEF EndStage, IInv, StageInv
    <3> QED
      BY <1>1, <2>1, <2>2, <3>1 DEF Cut
  <2>7. CASE Deliver \/ Done \/ UNCHANGED vars
    BY <1>1, <2>1, <2>2, <2>7 DEF Deliver, Done, vars, Cut
  <2>8. CASE Descend \/ WalkEnds \/ EndText
    <3>1. UNCHANGED <<path, content>> /\ pc \in {"walk", "text"} /\ todo # <<>>
      BY <2>8 DEF Descend, WalkEnds, EndText, IInv, StageInv
    <3> QED
      BY <2>1, <2>2, <2>3, <3>1
  <2>9. ~MaskScalar
    <3> SUFFICES ASSUME MaskScalar PROVE FALSE
      OBVIOUS
    <3>1. pc = "walk" /\ Ruled(pos) /\ todo # <<>> /\ pos \in base + 1 .. Len(path) - 1
          /\ base \in Nat /\ Len(path) \in Nat
      BY LenProperties DEF MaskScalar, IInv, StageInv, LineInv, WellFormed
    <3>2. pos \in 1 .. Len(path) - 1
      BY <3>1
    <3>3. /\ path[pos].in = "member" /\ Scalar(path[pos + 1]) /\ RulesOf(path[pos].key) # {}
      BY <3>1 DEF Ruled
    <3>4. Naming(masker, path[pos].key) = {}
      BY <1>4, <3>1, <3>2, <3>3, NothingMet
    <3> QED
      BY <3>3, <3>4, RuleHeld DEF IInv
  <2>10. CASE TextRule
    <3>1. PICK n \in DOMAIN textRules[masker] :
            \/ ReplaceFormat(textRules[masker][n]) \/ NoMatch(textRules[masker][n])
            \/ \E i \in 1 .. Len(path) - 1 :
                  ReplaceKeyed(textRules[masker][n], i) \/ CutOpen(textRules[masker][n], i)
      BY <2>10 DEF TextRule
    <3> DEFINE p == textRules[masker][n]
    <3>2. pc = "text" /\ todo # <<>>
      BY <3>1 DEF ReplaceFormat, NoMatch, ReplaceKeyed, CutOpen, Current, IInv, StageInv
    <3>3. ~Formatted(p)
      BY <1>4, <3>2, NothingMet
    <3>4. ASSUME NEW i \in 1 .. Len(path) - 1, Meets(p, i) PROVE FALSE
      <4>1. /\ p.form \notin {"format", "absent"} /\ path[i] = Member(p.key)
            /\ p.form \in {"string", "number", "escaped"} /\ masker \in Maskers
        BY <3>4, TextRulesNamed DEF Meets, IInv
      <4>2. path[i + 1].in \in {"string", "number"}
        BY <3>4, <4>1 DEF Meets
      <4>3. path[i].in = "member" /\ path[i].key = p.key /\ Scalar(path[i + 1])
        BY <4>1, <4>2 DEF Member, Scalar
      <4>4. Naming(masker, p.key) = {}
        BY <1>4, <3>2, <4>3, NothingMet
      <4> QED
        BY <4>1, <4>4, TextRulesNamed
    <3>5. NoMatch(p)
      BY <3>1, <3>3, <3>4 DEF ReplaceFormat, ReplaceKeyed, CutOpen
    <3> QED
      BY <2>1, <2>2, <2>3, <3>2, <3>5 DEF NoMatch
  <2> QED
    BY <1>4, <2>4, <2>5, <2>6, <2>7, <2>8, <2>9, <2>10 DEF Next, RewriteAround
<1> QED
  BY <1>2, <1>3, <1>4

\* Whatever the rules, a value that none of them covers arrives as it was sent and
\* where it was, through both maskers, the walk, every pattern and every rewriter;
\* so does what stands beside the lines of a Loki response, but for the members of
\* `data' that are not written back and the spelling of the numbers of `result'
\* (Apply, WalkAndMask, MaskResponseBody, graphQLErrorEnvelope).
THEOREM LeavesTheRest == Spec => []NothingElseChanges
<1>1. Init => IInv /\ KeepInv
  <2> SUFFICES ASSUME Init PROVE KeepInv
    BY TypeInit
  <2>1. given[1] = path /\ given[2] = content
    BY DEF Init
  <2> QED
    BY <2>1 DEF KeepInv
<1>2. IInv /\ KeepInv /\ [Next]_vars => (IInv /\ KeepInv)'
  BY TypeStep, Kept
<1>3. IInv /\ KeepInv => NothingElseChanges
  <2> SUFFICES ASSUME IInv, KeepInv, pc = "done", route # "data", route \in Aside \/ Uncovered
               PROVE  Delivered \in {given} \union
                        (IF route = "excerpt"
                         THEN {<<given[1], Around("piece", given[2])>>, <<given[1], Gone>>}
                         ELSE {})
                        \union
                        (IF InFloat(route, given[1], given[2])
                         THEN {<<given[1], Around("float", given[2])>>} ELSE {})
    BY DEF NothingElseChanges, Uncovered
  <2>1. given = <<given[1], given[2]>>
    BY DEF IInv, GivenInv
  <2>2. CASE route \in Aside
    BY <2>1, <2>2 DEF KeepInv, Delivered
  <2>3. CASE route \notin Aside /\ Uncovered
    BY <2>1, <2>3 DEF KeepInv, Cut, Delivered
  <2> QED
    BY <2>2, <2>3
<1> QED
  BY <1>1, <1>2, <1>3, PTL DEF Spec

-----------------------------------------------------------------------------
(* Where the patterns of a rule are.                                       *)

\* The three patterns of rule number r.
LEMMA ThreePatterns ==
    ASSUME NEW m \in Maskers, NEW r \in 1 .. RuleCount(m), NEW f \in 1 .. 3
    PROVE  LET n == 3 * r - 3 + f
           IN /\ n \in DOMAIN textRules[m] /\ n \in Nat \ {0}
              /\ textRules[m][n] = IF r <= Len(KeyRules[m])
                                   THEN buildKeyPatterns(KeyRules[m][r], Forms[f])
                                   ELSE compileRegex(RegexesOf(m)[r - Len(KeyRules[m])], Forms[f])
<1> DEFINE n == 3 * r - 3 + f
<1>1. RuleCount(m) \in Nat
  BY GivenRules
<1>2. n \in 1 .. 3 * RuleCount(m) /\ (n + 2) \div 3 = r /\ 1 + ((n + 2) % 3) = f
  <2>1. r \in Nat /\ r >= 1 /\ r <= RuleCount(m)
    BY <1>1
  <2>2. CASE f = 1
    BY <1>1, <2>1, <2>2
  <2>3. CASE f = 2
    BY <1>1, <2>1, <2>3
  <2>4. CASE f = 3
    BY <1>1, <2>1, <2>4
  <2> QED
    BY <2>2, <2>3, <2>4
<1> HIDE DEF n
<1>3. n \in DOMAIN textRules[m] /\ textRules[m][n] =
        LET q == (n + 2) \div 3
            form == Forms[1 + ((n + 2) % 3)]
        IN IF q <= Len(KeyRules[m]) THEN buildKeyPatterns(KeyRules[m][q], form)
           ELSE compileRegex(RegexesOf(m)[q - Len(KeyRules[m])], form)
  BY <1>2 DEF textRules
<1>4. n \in Nat \ {0}
  BY <1>1, <1>2
<1> QED
  BY <1>2, <1>3, <1>4 DEF n

\* A key rule has a pattern of each form, before those of the regexes.
LEMMA KeyPatterns ==
    ASSUME NEW m \in Maskers, NEW k, InKeyRules(m, k), NEW f \in 1 .. 3
    PROVE  \E n \in DOMAIN textRules[m] :
              /\ n \in Nat \ {0} /\ n <= 3 * Len(KeyRules[m])
              /\ textRules[m][n].form = Forms[f] /\ textRules[m][n].key = k
<1>1. PICK r \in DOMAIN KeyRules[m] : KeyRules[m][r].key = k
  BY DEF InKeyRules
<1>2. /\ Len(KeyRules[m]) \in Nat /\ r \in 1 .. Len(KeyRules[m]) /\ Len(RegexesOf(m)) \in Nat
  BY GivenRules, LenProperties
<1>3. r \in 1 .. RuleCount(m) /\ r <= Len(KeyRules[m])
  BY <1>2 DEF RuleCount
<1> DEFINE n == 3 * r - 3 + f
<1>4. n <= 3 * Len(KeyRules[m])
  BY <1>2
<1>5. n \in DOMAIN textRules[m] /\ n \in Nat \ {0}
      /\ textRules[m][n] = buildKeyPatterns(KeyRules[m][r], Forms[f])
  BY <1>3, ThreePatterns
<1> QED
  BY <1>1, <1>4, <1>5 DEF buildKeyPatterns

\* A format has a pattern among those of the log rules.
LEMMA FormatPattern ==
    ASSUME NEW k \in DOMAIN Regexes, "values" \in DOMAIN Regexes[k]
    PROVE  \E n \in DOMAIN textRules["log"] :
              /\ n \in Nat \ {0} /\ textRules["log"][n].form = "format"
              /\ textRules["log"][n].values = Regexes[k].values
<1>1. "log" \in Maskers
  BY DEF Maskers
<1>2. /\ "key" \notin DOMAIN Regexes[k] /\ k \in 1 .. Len(Regexes) /\ Len(Regexes) \in Nat
  <2> DEFINE K == [key : Keys, repl : Replacements]
             F == [values : SUBSET Values, repl : Replacements]
  <2>1. Regexes \in Seq(K \union F)
    BY RulesAssumption
  <2>2. \A q \in K : "values" \notin DOMAIN q
    OBVIOUS
  <2>3. \A q \in F : "key" \notin DOMAIN q
    OBVIOUS
  <2> HIDE DEF K, F
  <2>4. Regexes[k] \in K \union F /\ k \in 1 .. Len(Regexes) /\ Len(Regexes) \in Nat
    BY <2>1
  <2> QED
    BY <2>2, <2>3, <2>4
<1> DEFINE N == Len(KeyRules["log"])
<1>3. N \in Nat /\ RegexesOf("log") = Regexes
  BY <1>1, GivenRules
<1>4. PICK r \in 1 .. RuleCount("log") : ~(r <= N) /\ r - N = k
  <2>1. RuleCount("log") = N + Len(Regexes)
    BY <1>3 DEF RuleCount
  <2> HIDE DEF N
  <2>2. N + k \in 1 .. RuleCount("log") /\ ~(N + k <= N) /\ (N + k) - N = k
    BY <1>2, <1>3, <2>1
  <2> QED
    BY <2>2
<1> DEFINE n == 3 * r - 3 + 1
<1>5. n \in DOMAIN textRules["log"] /\ n \in Nat \ {0}
      /\ textRules["log"][n] = compileRegex(Regexes[k], Forms[1])
  BY <1>1, <1>3, <1>4, ThreePatterns
<1>6. Forms[1] = "string"
  BY DEF Forms
<1> HIDE DEF n
<1> QED
  BY <1>2, <1>5, <1>6 DEF compileRegex

-----------------------------------------------------------------------------
(* Values under way.                                                       *)

\* What the calls of a stage have in hand: its masker, its line, the pattern that
\* a text pass begins with; and `changed' tells whether the value has changed.
CallInv ==
    /\ pc \in {"walk", "text", "end"} /\ Head(todo) \in Maskers => masker = Head(todo)
    /\ pc \in {"walk", "text"} => (base = 0 <=> Head(todo) = "walk")
    /\ pc \in {"walk", "text"} /\ Head(todo) \in Maskers => base = 1
    /\ pc = "walk" /\ base # 0 => rule = 1 /\ path[base].as = "json"
    /\ pc = "text" => rule # 0
    /\ route \in Aside /\ pc = "next" => ~changed
    /\ ~changed /\ pc \in {"next", "done"} => <<path, content>> = given
    /\ ~changed /\ pc \in {"walk", "text", "end"} => before = given

\* The value as it came, whole or in part.
Shown == {given[2], Around("piece", given[2])}

\* Some text of the value's matches a format.
Secret ==
    /\ route \notin Aside
    /\ \E b \in Line(route, given[1]) : HasFormat(given[1], given[2], b)

\* The log rules have not come to the formats that match the value.
FormatAhead ==
    /\ content = given[2] /\ path[Len(path)].in # "literal"
    /\ todo # <<>> /\ Head(todo) # "cut"
    /\ route \in {"source", "field"} /\ (pc = "next" \/ Head(todo) = "walk") => path = given[1]
    /\ pc = "end" => Head(todo) \in {"doc", "walk"}
    /\ pc = "text" /\ masker = "log" =>
          \A n \in DOMAIN textRules["log"] :
              textRules["log"][n].form = "format" /\ given[2].of[1] \in textRules["log"][n].values
                => rule <= n

FormatInv == Secret => FormatAhead \/ content \notin Shown

\* Layer i is the outermost member that the maskers of the route replace, by a
\* rule the walk knows, and the walk or a text pass sees it.
Covered(i) ==
    LET p == given[1]
        ms == IF route = "excerpt" THEN Maskers ELSE {"log"}
    IN /\ route \notin Aside /\ i \in Outermost(ms, p)
       /\ \E m \in ms : InKeyRules(m, p[i].key)
       /\ Walked(route, p, i) \/ ReadAsText(route, p, given[2], i)

\* The walk is above layer i, and above all strings before i that it cannot pass.
WalkAbove(i) ==
    /\ pos <= i
    /\ \A j \in base + 1 .. i - 1 :
          path[j].in = "string" /\ ~Decodable(path[j]) => pos < j

\* The masker whose rule names the key in layer i has not come to it.
KeyAhead(i) ==
    LET p == given[1]
        k == given[1][i].key
    IN /\ path = p /\ content = given[2] /\ todo # <<>> /\ Head(todo) # "cut"
       /\ route = "excerpt" /\ Head(todo) = "log" => ~InKeyRules("doc", k)
       /\ Head(todo) \in {"strings", "field"} => ~Walked(route, p, i)
       /\ pc \in {"walk", "text"} /\ Head(todo) # "walk" => base \in Line(route, p)
       /\ pc = "end" => \/ Head(todo) = "walk" /\ ~Walked(route, p, i)
                        \/ Head(todo) = "doc" /\ ~InKeyRules("doc", k)
       /\ pc = "walk" /\ InKeyRules(masker, k) => WalkAbove(i)
       /\ pc = "text" /\ InKeyRules(masker, k) =>
             /\ ~Walked(route, p, i)
             /\ \A n \in DOMAIN textRules[masker] : Meets(textRules[masker][n], i) => rule <= n

\* What the only rule of the key in layer i makes of what the layer holds.
Made(i, repl) ==
    LET p == given[1]
        text == IF i + 1 = Len(p) THEN given[2] ELSE Raw(Document)
    IN CASE ~Walked(route, p, i) -> replaceScalar(repl, Raw(Escaped[text.of[1]]))
         [] p[i + 1].in = "literal" -> staticReplacement(repl)
         [] OTHER -> replaceScalar(repl, text)

OnlyRule(i, repl) == Naming("log", given[1][i].key) = {repl} /\ ~repl.template

KeyDone(i) ==
    /\ ~IsToken(given[2]) => content \notin Shown
    /\ route # "excerpt" /\ FormatsSpareTokens =>
          \A repl \in Replacements : OnlyRule(i, repl) =>
              path = Append(SubSeq(given[1], 1, i), Bare) /\ content = Made(i, repl)

KeyInv == \A i \in 1 .. Len(given[1]) - 1 : Covered(i) => KeyAhead(i) \/ KeyDone(i)

\* The value as it was sent.
LEMMA GivenFacts ==
    ASSUME IInv
    PROVE  /\ \E v \in Values : given[2] = Raw(v) /\ given[2].of[1] = v
           /\ given = <<given[1], given[2]>> /\ WellFormed(given[1])
<1>1. PICK p \in Paths, v \in Values : given = <<p, Raw(v)>>
  BY DEF IInv, GivenInv
<1>2. given[1] = p /\ given[2] = Raw(v) /\ given[2].of[1] = v
  BY <1>1 DEF Raw, Content
<1> QED
  BY <1>1, <1>2, PathsAssumption

\* No step changes what was sent, or which way the value goes.
LEMMA GivenStays ==
    ASSUME [Next]_vars
    PROVE  given' = given /\ route' = route
BY DEF Next, vars, ApplyLine, WalkSource, ApplyStrings, Truncate, EndStage, RewriteAround,
       Deliver, MaskScalar, Descend, WalkEnds, TextRule, EndText, ReplaceFormat, NoMatch,
       ReplaceKeyed, CutOpen, Done

\* A text pass takes one pattern of its masker at a step.
LEMMA TextStep ==
    ASSUME TextRule
    PROVE  /\ pc = "text" /\ rule \in DOMAIN textRules[masker] /\ rule' = rule + 1 /\ pc' = "text"
           /\ UNCHANGED <<given, route, todo, masker, base, pos, before, changed>>
           /\ LET p == textRules[masker][rule]
              IN \/ ReplaceFormat(p) \/ NoMatch(p)
                 \/ \E i \in 1 .. Len(path) - 1 : ReplaceKeyed(p, i) \/ CutOpen(p, i)
<1>1. PICK n \in DOMAIN textRules[masker] :
        LET p == textRules[masker][n]
        IN \/ ReplaceFormat(p) \/ NoMatch(p)
           \/ \E i \in 1 .. Len(path) - 1 : ReplaceKeyed(p, i) \/ CutOpen(p, i)
  BY DEF TextRule
<1>2. Current(textRules[masker][n])
  BY <1>1 DEF ReplaceFormat, NoMatch, ReplaceKeyed, CutOpen
<1>3. /\ pc = "text" /\ rule \in DOMAIN textRules[masker]
      /\ textRules[masker][n] = textRules[masker][rule]
  BY <1>2 DEF Current
<1>4. /\ rule' = rule + 1 /\ pc' = "text"
      /\ UNCHANGED <<given, route, todo, masker, base, pos, before, changed>>
  BY <1>1, <1>3 DEF ReplaceFormat, NoMatch, ReplaceKeyed, CutOpen
<1> QED
  BY <1>1, <1>3, <1>4

\* A replacement is neither the value nor a piece of it, tokens apart.
LEMMA NothingShows ==
    ASSUME NEW v, v \notin TokenLike, NEW repl, NEW c
    PROVE  /\ replaceScalar(repl, c) \notin {Raw(v), Around("piece", Raw(v))}
           /\ replaceMatch(repl, c) \notin {Raw(v), Around("piece", Raw(v))}
           /\ staticReplacement(repl) \notin {Raw(v), Around("piece", Raw(v))}
<1>1. /\ Raw(v).form = "raw" /\ Around("piece", Raw(v)).form = "piece"
      /\ Stars.form = "stars" /\ Static.form = "static"
      /\ \A d : /\ Around("decorated", d).form = "decorated" /\ Content("token", d).form = "token"
                /\ Around("expanded", d).form = "expanded"
  BY DEF Raw, Around, Stars, Static, Content
<1>2. hashOrSkip(c, repl.mode) \notin {Raw(v), Around("piece", Raw(v))}
  <2>1. CASE IsToken(c)
    <3>1. CASE c.form = "token"
      BY <1>1, <3>1 DEF hashOrSkip
    <3>2. CASE \E w \in TokenLike : c = Raw(w)
      <4>1. PICK w \in TokenLike : c = Raw(w)
        BY <3>2
      <4>2. Raw(w).of = <<w>> /\ Raw(v).of = <<v>> /\ Raw(w).form = "raw"
        BY DEF Raw, Content
      <4>3. Raw(w) # Raw(v)
        BY <4>2
      <4> QED
        BY <1>1, <4>1, <4>2, <4>3 DEF hashOrSkip
    <3> QED
      BY <2>1, <3>1, <3>2 DEF IsToken
  <2>2. CASE ~IsToken(c)
    BY <1>1, <2>2 DEF hashOrSkip
  <2> QED
    BY <2>1, <2>2
<1>3. expand(repl, c) \notin {Raw(v), Around("piece", Raw(v))}
  BY <1>1, <1>2 DEF expand
<1> QED
  BY <1>1, <1>3 DEF replaceScalar, replaceMatch, staticReplacement

\* Pieces of different texts differ.
LEMMA PiecesDiffer ==
    ASSUME NEW c \in Texts, NEW v \in Values
    PROVE  /\ Around("piece", c) = Around("piece", Raw(v)) => c = Raw(v)
           /\ Around("piece", c) # Raw(v) /\ Gone \notin {Raw(v), Around("piece", Raw(v))}
<1>1. /\ Around("piece", c).form = "piece" /\ Raw(v).form = "raw" /\ Gone.form = "gone"
      /\ Around("piece", Raw(v)).form = "piece"
  BY DEF Around, Raw, Gone, Content
<1>2. ASSUME Around("piece", c) = Around("piece", Raw(v)) PROVE c = Raw(v)
  <2>1. /\ Around("piece", c).of = <<c.form>> \o c.of
        /\ Around("piece", Raw(v)).of = <<"raw">> \o <<v>>
    BY DEF Around, Raw, Content
  <2>2. <<c.form>> \o c.of = <<"raw">> \o <<v>>
    BY <1>2, <2>1
  <2>3. c.of \in Seq(Values \union Makes \union Modes)
    BY DEF Texts
  <2>4. (<<c.form>> \o c.of)[1] = c.form
    BY <2>3
  <2>5. (<<"raw">> \o <<v>>)[1] = "raw"
    OBVIOUS
  <2>6. c.form = "raw"
    BY <2>2, <2>4, <2>5
  <2>7. PICK w \in Values : c = Raw(w)
    BY <2>6 DEF Texts
  <2>8. c.of = <<w>>
    BY <2>7 DEF Raw, Content
  <2>9. (<<c.form>> \o <<w>>)[2] = w /\ (<<"raw">> \o <<v>>)[2] = v
    OBVIOUS
  <2> QED
    BY <2>2, <2>7, <2>8, <2>9
<1> QED
  BY <1>1, <1>2

\* Once hidden, the value stays so.
LEMMA StaysHidden ==
    ASSUME IInv, ~IsToken(given[2]), content \notin Shown, [Next]_vars
    PROVE  content' \notin Shown'
<1>1. PICK v \in Values : given[2] = Raw(v)
  BY GivenFacts
<1>2. v \notin TokenLike
  BY <1>1 DEF IsToken
<1>3. Shown' = {Raw(v), Around("piece", Raw(v))} /\ Shown = Shown'
  BY <1>1, GivenStays DEF Shown
<1>4. \A repl, c : /\ replaceScalar(repl, c) \notin Shown /\ replaceMatch(repl, c) \notin Shown
                   /\ staticReplacement(repl) \notin Shown
  BY <1>2, <1>3, NothingShows
<1>5. Gone \notin Shown /\ Around("piece", content) \notin Shown
  BY <1>1, <1>3, PiecesDiffer DEF IInv
<1>12. Around("float", content) \notin Shown
  BY <1>3 DEF Around, Raw, Content
<1>6. CASE UNCHANGED content
  BY <1>3, <1>6
<1>7. CASE MaskScalar
  BY <1>3, <1>4, <1>7 DEF MaskScalar, Put
<1>8. CASE Truncate \/ RewriteAround
  BY <1>3, <1>5, <1>8, <1>12 DEF Truncate, RewriteAround
<1>9. CASE TextRule
  <2>1. \/ UNCHANGED content
        \/ \E repl, c : content' = replaceMatch(repl, c)
    BY <1>9 DEF TextRule, ReplaceFormat, ReplaceKeyed, NoMatch, CutOpen, Put
  <2> QED
    BY <1>3, <1>4, <2>1
<1>10. CASE ApplyLine \/ WalkSource \/ ApplyStrings \/ EndStage \/ Deliver
  BY <1>3, <1>10 DEF ApplyLine, WalkSource, ApplyStrings, EndStage, Deliver
<1>11. CASE Descend \/ WalkEnds \/ EndText \/ Done \/ UNCHANGED vars
  BY <1>3, <1>11 DEF Descend, WalkEnds, EndText, Done, vars
<1> QED
  BY <1>7, <1>8, <1>9, <1>10, <1>11 DEF Next

\* The calls have in hand what their stage says.
LEMMA CallsInHand == IInv /\ CallInv /\ [Next]_vars => CallInv'
<1> SUFFICES ASSUME IInv, CallInv, [Next]_vars PROVE CallInv'
  OBVIOUS
<1>1. given' = given /\ route' = route
  BY GivenStays
<1>2. "walk" \notin Maskers /\ "cut" \notin Maskers /\ "strings" \notin Maskers
      /\ "field" \notin Maskers
  BY DEF Maskers
<1>3. CASE ApplyLine
  <2>1. /\ pc = "next" /\ todo' = todo /\ Head(todo) \in Maskers /\ masker' = Head(todo)
        /\ before' = <<path, content>> /\ UNCHANGED <<path, content, changed>>
        /\ base' = 1 /\ rule' = 1 /\ pc' \in {"walk", "text", "end"}
        /\ pc' = "walk" => path[base'].as = "json"
    BY <1>3 DEF ApplyLine, Begin, BeginApply
  <2> QED
    BY <1>1, <1>2, <2>1 DEF CallInv
<1>4. CASE WalkSource
  <2>1. /\ pc = "next" /\ todo' = todo /\ Head(todo) = "walk" /\ base' = 0 /\ pc' = "walk"
        /\ before' = <<path, content>> /\ UNCHANGED <<path, content, changed>>
    BY <1>4 DEF WalkSource, Begin
  <2> QED
    BY <1>1, <1>2, <2>1 DEF CallInv
<1>5. CASE ApplyStrings
  <2>1. /\ pc = "next" /\ todo' = todo /\ Head(todo) \in {"strings", "field"}
        /\ before' = <<path, content>> /\ UNCHANGED <<path, content, changed>>
    BY <1>5 DEF ApplyStrings, Begin
  <2>2. \/ pc' = "end"
        \/ /\ base' \in DOMAIN path /\ rule' = 1 /\ pc' \in {"walk", "text", "end"}
           /\ pc' = "walk" => path[base'].as = "json"
    BY <1>5 DEF ApplyStrings, BeginApply
  <2>3. 0 \notin DOMAIN path
    BY LenProperties DEF IInv, WellFormed
  <2> QED
    BY <1>1, <1>2, <2>1, <2>2, <2>3 DEF CallInv
<1>6. CASE Truncate
  <2>1. /\ pc = "next" /\ todo' = todo /\ Head(todo) = "cut" /\ pc' = "end"
        /\ before' = <<path, content>> /\ UNCHANGED <<path, changed>>
    BY <1>6 DEF Truncate, Begin
  <2> QED
    BY <1>1, <1>2, <2>1 DEF CallInv
<1>7. CASE EndStage
  <2>1. /\ pc = "end" /\ pc' = "next" /\ UNCHANGED <<path, content>>
        /\ changed' = (changed \/ before # <<path, content>>)
    BY <1>7 DEF EndStage, CountChange
  <2>2. route \notin Aside
    <3>1. todo # <<>> /\ todo \in Ahead(route) /\ route \in Routes
      BY <2>1 DEF IInv, StageInv
    <3> QED
      BY <3>1, StagesAhead
  <2> QED
    BY <1>1, <2>1, <2>2 DEF CallInv
<1>8. CASE RewriteAround
  <2>1. /\ pc = "next" /\ pc' = "done" /\ changed' \in BOOLEAN
        /\ ~changed' => UNCHANGED <<path, content>>
        /\ route \in Aside
    BY <1>8 DEF RewriteAround
  <2> QED
    BY <1>1, <2>1 DEF CallInv
<1>9. CASE Deliver \/ Done \/ UNCHANGED vars
  BY <1>1, <1>9 DEF Deliver, Done, vars, CallInv
<1>10. CASE MaskScalar \/ WalkEnds
  <2>1. /\ pc = "walk" /\ pc' = (IF base = 0 THEN "end" ELSE "text")
        /\ UNCHANGED <<todo, masker, base, rule, before, changed>>
    BY <1>10 DEF MaskScalar, WalkEnds, LeaveWalk
  <2> QED
    BY <1>1, <2>1 DEF CallInv
<1>11. CASE Descend
  BY <1>1, <1>11 DEF Descend, CallInv
<1>12. CASE TextRule
  <2>1. /\ pc = "text" /\ pc' = "text" /\ rule' = rule + 1
        /\ UNCHANGED <<todo, masker, base, before, changed>>
    BY <1>12, TextStep
  <2>2. rule' # 0
    BY <2>1 DEF IInv
  <2> QED
    BY <1>1, <2>1, <2>2 DEF CallInv
<1>13. CASE EndText
  BY <1>1, <1>13 DEF EndText, CallInv
<1> QED
  BY <1>3, <1>4, <1>5, <1>6, <1>7, <1>8, <1>9, <1>10, <1>11, <1>12, <1>13 DEF Next

-----------------------------------------------------------------------------
(* Values of a format.                                                     *)

\* What a value of a format is, and where the pattern for it is.
LEMMA SecretFacts ==
    ASSUME IInv, Secret
    PROVE  \E v \in Values :
              /\ given[2] = Raw(v) /\ given[2].of[1] = v /\ ~IsToken(given[2])
              /\ v \notin TokenLike /\ given[2] # Raw(Blank) /\ Escaped[v] = v
              /\ given[1][Len(given[1])].in # "literal" /\ Line(route, given[1]) # {}
              /\ \E n \in DOMAIN textRules["log"] :
                    /\ n \in Nat \ {0} /\ textRules["log"][n].form = "format"
                    /\ v \in textRules["log"][n].values
<1>1. PICK v \in Values : given[2] = Raw(v) /\ given[2].of[1] = v
  BY GivenFacts
<1>2. PICK b \in Line(route, given[1]) : HasFormat(given[1], given[2], b)
  BY DEF Secret
<1>3. /\ v \notin TokenLike /\ v # Blank /\ Escaped[v] = v
      /\ given[1][Len(given[1])].in # "literal"
  BY <1>1, <1>2 DEF HasFormat
<1>4. PICK k \in DOMAIN Regexes : "values" \in DOMAIN Regexes[k] /\ v \in Regexes[k].values
  BY <1>1, <1>2 DEF HasFormat
<1>5. \E n \in DOMAIN textRules["log"] :
        /\ n \in Nat \ {0} /\ textRules["log"][n].form = "format"
        /\ v \in textRules["log"][n].values
  BY <1>4, FormatPattern
<1>6. Raw(v).form = "raw" /\ \A w : Raw(v) = Raw(w) => v = w
  <2>1. Raw(v).of = <<v>> /\ \A w : Raw(w).of = <<w>>
    BY DEF Raw, Content
  <2> QED
    BY <2>1 DEF Raw, Content
<1>7. ~IsToken(Raw(v)) /\ Raw(v) # Raw(Blank)
  BY <1>3, <1>6 DEF IsToken
<1> QED
  BY <1>1, <1>2, <1>3, <1>5, <1>7

\* A string in scope is the one that the masker gets the text of.
LEMMA LineInScope ==
    ASSUME NEW b \in DOMAIN path, Head(todo) \in {"strings", "field"},
           route \in {"source", "field"}, Head(todo) = "field" <=> route = "field"
    PROVE  InScope(b) <=> b \in Line(route, path)
BY DEF InScope, FirstString, Line

\* There is one such string at most.
LEMMA OneLine ==
    ASSUME NEW r, NEW p, WellFormed(p), NEW a \in Line(r, p), NEW b \in Line(r, p)
    PROVE  a = b
<1>1. DOMAIN p = 1 .. Len(p) /\ Len(p) \in Nat
  BY LenProperties DEF WellFormed
<1>2. /\ a \in 1 .. Len(p) /\ b \in 1 .. Len(p)
      /\ p[a].in = "string" /\ p[b].in = "string"
      /\ \A i \in 1 .. a - 1 : p[i].in # "string"
      /\ \A i \in 1 .. b - 1 : p[i].in # "string"
  BY <1>1 DEF Line
<1>3. ~(a < b) /\ ~(b < a)
  BY <1>2
<1> QED
  BY <1>2, <1>3

\* The last stages of the routes through _source.
LEMMA SourceStages ==
    ASSUME IInv, todo # <<>>
    PROVE  /\ Head(todo) \in {"strings", "field"} => (Head(todo) = "field" <=> route = "field")
           /\ Head(todo) \in {"walk", "strings", "field"} <=> route \in {"source", "field"}
<1>1. todo \in Ahead(route) /\ route \in Routes
  BY DEF IInv, StageInv
<1>2. /\ Head(<<"log">>) = "log" /\ Head(<<"log", "log">>) = "log"
      /\ Head(<<"doc", "log", "cut">>) = "doc" /\ Head(<<"log", "cut">>) = "log"
      /\ Head(<<"cut">>) = "cut" /\ Head(<<"strings">>) = "strings"
      /\ Head(<<"walk", "strings">>) = "walk" /\ Head(<<"walk", "field">>) = "walk"
      /\ Head(<<"field">>) = "field"
  OBVIOUS
<1> QED
  BY <1>1, <1>2 DEF Ahead, Routes, Aside

\* Up to its pattern a value of a format keeps a layer that the pattern can meet.
LEMMA FormatStep == IInv /\ CallInv /\ FormatInv /\ [Next]_vars => FormatInv'
<1> SUFFICES ASSUME IInv, CallInv, FormatInv, [Next]_vars, Secret
             PROVE  FormatAhead' \/ content' \notin Shown'
  BY GivenStays DEF FormatInv, Secret
<1>1. given' = given /\ route' = route
  BY GivenStays
<1>2. PICK v \in Values :
        /\ given[2] = Raw(v) /\ given[2].of[1] = v /\ ~IsToken(given[2])
        /\ v \notin TokenLike /\ given[2] # Raw(Blank) /\ Escaped[v] = v
        /\ given[1][Len(given[1])].in # "literal" /\ Line(route, given[1]) # {}
        /\ \E n \in DOMAIN textRules["log"] :
              /\ n \in Nat \ {0} /\ textRules["log"][n].form = "format"
              /\ v \in textRules["log"][n].values
  BY SecretFacts
<1>3. CASE content \notin Shown
  BY <1>2, <1>3, StaysHidden
<1>4. CASE FormatAhead
  <2>1. /\ content = Raw(v) /\ path[Len(path)].in # "literal"
        /\ todo # <<>> /\ Head(todo) # "cut"
        /\ route \in {"source", "field"} /\ (pc = "next" \/ Head(todo) = "walk")
             => path = given[1]
        /\ pc = "end" => Head(todo) \in {"doc", "walk"}
    BY <1>2, <1>4 DEF FormatAhead
  <2>2. /\ WellFormed(path) /\ Len(path) \in Nat \ {0} /\ DOMAIN path = 1 .. Len(path)
        /\ rule \in Nat /\ masker \in Maskers
    <3>1. WellFormed(path) /\ rule \in Nat /\ masker \in Maskers
      BY DEF IInv
    <3>2. path # <<>> /\ Len(path) \in Nat /\ DOMAIN path = 1 .. Len(path)
      BY <3>1, LenProperties DEF WellFormed
    <3> QED
      BY <3>1, <3>2, EmptySeq
  <2>3. \A repl, c : /\ replaceScalar(repl, c) \notin Shown' /\ replaceMatch(repl, c) \notin Shown'
                     /\ staticReplacement(repl) \notin Shown'
    BY <1>1, <1>2, NothingShows DEF Shown
  \* A step that leaves the text, and begins no text pass but at its first rule.
  <2>4. ASSUME content' = content, todo' = todo, path'[Len(path')].in # "literal",
               route \in {"source", "field"} /\ (pc' = "next" \/ Head(todo) = "walk")
                 => path' = given[1],
               pc' = "end" => Head(todo) \in {"doc", "walk"},
               pc' = "text" => rule' = 1
        PROVE  FormatAhead'
    <3>1. \A n \in DOMAIN textRules["log"] : 1 <= n
      <4>1. DOMAIN textRules["log"] = 1 .. 3 * RuleCount("log")
        BY DEF textRules, Maskers
      <4> QED
        BY <4>1
    <3> QED
      BY <1>1, <1>2, <2>1, <2>4, <3>1 DEF FormatAhead
  <2>5. CASE ApplyLine
    <3>1. /\ pc = "next" /\ Head(todo) \in Maskers /\ BeginApply(1)
          /\ UNCHANGED <<path, content, todo>>
      BY <2>5 DEF ApplyLine, Begin
    <3>2. pc' \in {"walk", "text"} /\ rule' = 1
      BY <1>2, <2>1, <3>1 DEF BeginApply
    <3>3. Head(todo) # "walk"
      BY <3>1 DEF Maskers
    <3> QED
      BY <2>1, <2>4, <3>1, <3>2, <3>3
  <2>6. CASE WalkSource
    <3>1. /\ pc = "next" /\ pc' = "walk" /\ UNCHANGED <<path, content, todo>>
      BY <2>6 DEF WalkSource, Begin
    <3> QED
      BY <2>1, <2>4, <3>1
  <2>7. CASE ApplyStrings
    <3>1. /\ pc = "next" /\ Head(todo) \in {"strings", "field"}
          /\ UNCHANGED <<path, content, todo>>
      BY <2>7 DEF ApplyStrings, Begin
    <3>2. route \in {"source", "field"} /\ (Head(todo) = "field" <=> route = "field")
      BY <2>1, <3>1, SourceStages
    <3>3. path = given[1]
      BY <2>1, <3>1, <3>2
    <3>4. \E b \in DOMAIN path : InScope(b)
      <4>1. PICK b : b \in Line(route, path)
        BY <1>2, <3>3
      <4>2. b \in DOMAIN path
        BY <4>1 DEF Line
      <4> QED
        BY <3>1, <3>2, <4>1, <4>2, LineInScope
    <3>5. PICK b \in DOMAIN path : BeginApply(b)
      BY <2>7, <3>4 DEF ApplyStrings
    <3>6. pc' \in {"walk", "text"} /\ rule' = 1
      BY <1>2, <2>1, <3>5 DEF BeginApply
    <3> QED
      BY <2>1, <2>4, <3>1, <3>6
  <2>8. CASE EndStage
    <3>1. /\ pc = "end" /\ todo' = Tail(todo) /\ pc' = "next" /\ UNCHANGED <<path, content>>
      BY <2>8 DEF EndStage
    <3>2. Head(todo) \in {"doc", "walk"} /\ todo \in Ahead(route) /\ route \in Routes
      BY <2>1, <3>1 DEF IInv, StageInv
    <3>3. todo' # <<>> /\ Head(todo') # "cut"
      <4>1. /\ Head(<<"log">>) = "log" /\ Head(<<"log", "log">>) = "log"
            /\ Head(<<"log", "cut">>) = "log" /\ Head(<<"cut">>) = "cut"
            /\ Head(<<"strings">>) = "strings" /\ Head(<<"field">>) = "field"
            /\ Tail(<<"doc", "log", "cut">>) = <<"log", "cut">>
            /\ Tail(<<"walk", "strings">>) = <<"strings">> /\ Tail(<<"walk", "field">>) = <<"field">>
        OBVIOUS
      <4>2. todo \in {<<"doc", "log", "cut">>, <<"walk", "strings">>, <<"walk", "field">>}
        BY <2>1, <3>2, <4>1 DEF Ahead
      <4>3. /\ <<"log", "cut">> # <<>> /\ <<"strings">> # <<>> /\ <<"field">> # <<>>
        OBVIOUS
      <4> QED
        BY <3>1, <4>1, <4>2, <4>3
    <3>4. route \in {"source", "field"} => path' = given[1]
      <4>1. route \in {"source", "field"} => Head(todo) # "doc"
        BY <3>2, <2>1, StagesAhead
      <4> QED
        BY <2>1, <3>1, <3>2, <4>1
    <3> QED
      BY <1>1, <1>2, <2>1, <3>1, <3>3, <3>4 DEF FormatAhead
  <2>9. CASE Truncate \/ RewriteAround \/ Deliver
    BY <1>2, <2>1, <2>9 DEF Truncate, Begin, RewriteAround, Deliver, Secret
  <2>10. CASE MaskScalar
    BY <2>3, <2>10 DEF MaskScalar, Put
  <2>11. CASE Descend
    <3>1. pc = "walk" /\ pc' = "walk" /\ UNCHANGED <<path, content, todo>>
      BY <2>11 DEF Descend
    <3> QED
      BY <2>1, <2>4, <3>1
  <2>12. CASE WalkEnds
    <3>1. /\ pc = "walk" /\ pc' = (IF base = 0 THEN "end" ELSE "text")
          /\ UNCHANGED <<path, content, todo, base, rule>>
      BY <2>12 DEF WalkEnds, LeaveWalk
    <3>2. base = 0 <=> Head(todo) = "walk"
      BY <3>1 DEF CallInv
    <3>3. base # 0 => rule = 1
      BY <3>1 DEF CallInv
    <3> QED
      BY <2>1, <2>4, <3>1, <3>2, <3>3
  <2>13. CASE TextRule
    <3> DEFINE p == textRules[masker][rule]
    <3>1. /\ pc = "text" /\ rule \in DOMAIN textRules[masker] /\ rule' = rule + 1 /\ pc' = "text"
          /\ UNCHANGED <<given, route, todo, masker, base, pos, before, changed>>
          /\ \/ ReplaceFormat(p) \/ NoMatch(p)
             \/ \E i \in 1 .. Len(path) - 1 : ReplaceKeyed(p, i) \/ CutOpen(p, i)
      BY <2>13, TextStep
    <3>2. CASE ReplaceFormat(p) \/ \E i \in 1 .. Len(path) - 1 : ReplaceKeyed(p, i)
      BY <2>3, <3>2 DEF ReplaceFormat, ReplaceKeyed, Put
    <3>3. ASSUME content' = content, path'[Len(path')].in # "literal",
                 masker = "log" => ~(p.form = "format" /\ v \in p.values)
          PROVE  FormatAhead'
      <4>1. Head(todo) # "walk"
        BY <3>1 DEF CallInv, IInv, LineInv
      <4>2. masker = "log" =>
              \A n \in DOMAIN textRules["log"] :
                  textRules["log"][n].form = "format" /\ v \in textRules["log"][n].values
                    => rule + 1 <= n
        <5> SUFFICES ASSUME masker = "log", NEW n \in DOMAIN textRules["log"],
                            textRules["log"][n].form = "format", v \in textRules["log"][n].values
                     PROVE  rule + 1 <= n
          OBVIOUS
        <5>1. rule <= n
          BY <1>2, <1>4, <3>1 DEF FormatAhead
        <5>2. rule # n
          BY <3>3
        <5>3. n \in Nat
          BY DEF textRules, Maskers
        <5> QED
          BY <2>2, <5>1, <5>2, <5>3
      <4> QED
        BY <1>1, <1>2, <2>1, <3>1, <3>3, <4>1, <4>2 DEF FormatAhead
    <3>4. CASE NoMatch(p)
      <4>1. UNCHANGED <<path, content>> /\ ~Formatted(p)
        BY <3>4 DEF NoMatch
      <4>2. Spelled(content) = Raw(v)
        BY <1>2, <2>1 DEF Spelled
      <4>3. ~(p.form = "format" /\ v \in p.values)
        BY <2>1, <4>1, <4>2 DEF Formatted
      <4> QED
        BY <2>1, <3>3, <4>1, <4>3
    <3>5. ASSUME NEW i \in 1 .. Len(path) - 1, CutOpen(p, i)
          PROVE  FormatAhead'
      <4>1. UNCHANGED content /\ p.form # "format" /\ base \in 1 .. Len(path)
        BY <2>2, <3>1, <3>5 DEF CutOpen, Meets, IInv, LineInv
      <4>2. CASE path' = Append(SubSeq(path, 1, base - 1), Bare)
        <5>1. Len(path') = base /\ path'[base] = Bare
          <6> DEFINE j == base - 1
          <6>1. j \in 0 .. Len(path) /\ j + 1 = base
            BY <2>2, <4>1
          <6>2. path \in Seq(Layers)
            BY <2>2 DEF WellFormed
          <6> HIDE DEF j
          <6>3. SubSeq(path, 1, j) \in Seq(Layers) /\ Len(SubSeq(path, 1, j)) = j
            <7> HIDE DEF Layers
            <7>1. 1 \in Int /\ j \in Int /\ \A l \in 1 .. j : path[l] \in Layers
              BY <2>2, <6>1, <6>2
            <7> QED
              BY <6>1, <7>1, SubSeqProperties
          <6>4. path' = Append(SubSeq(path, 1, j), Bare)
            BY <4>2 DEF j
          <6> HIDE DEF Layers
          <6>5. Len(path') = j + 1 /\ path'[j + 1] = Bare
            BY <6>1, <6>3, <6>4, NewLayers
          <6> QED
            BY <6>1, <6>5
        <5> QED
          BY <3>3, <4>1, <5>1, NewLayers
      <4>3. CASE /\ i + 1 # Len(path)
                 /\ path' = [path EXCEPT ![i] = Element, ![i + 1] = String("lost")]
        <5>1. Len(path) # i /\ Len(path) # i + 1 /\ Len(path) \in DOMAIN path
          <6>1. i + 1 # Len(path) /\ i \in 1 .. Len(path) - 1
            BY <3>5, <4>3
          <6> DEFINE N == Len(path)
          <6>2. N \in Nat \ {0} /\ DOMAIN path = 1 .. N /\ N # i + 1 /\ i \in 1 .. N - 1
            BY <2>2, <6>1
          <6> HIDE DEF N
          <6>3. N # i /\ N \in DOMAIN path
            BY <6>2
          <6> QED
            BY <6>2, <6>3 DEF N
        <5>2. path'[Len(path)] = path[Len(path)]
          BY <4>3, <5>1
        <5>3. Len(path') = Len(path)
          <6>1. DOMAIN path' = DOMAIN path
            BY <4>3
          <6>2. IInv'
            BY TypeStep
          <6>3. path' \in Seq(Layers)
            BY <6>2 DEF IInv, WellFormed
          <6>4. DOMAIN path' = 1 .. Len(path') /\ Len(path') \in Nat
            <7> HIDE DEF Layers
            <7> QED
              BY <6>3, LenProperties
          <6> QED
            BY <2>2, <6>1, <6>4
        <5> QED
          BY <2>1, <3>3, <4>1, <5>2, <5>3
      <4> QED
        BY <3>5, <4>2, <4>3 DEF CutOpen
    <3> QED
      BY <3>1, <3>2, <3>4, <3>5
  <2>14. CASE EndText
    <3>1. /\ pc = "text" /\ rule \notin DOMAIN textRules[masker] /\ pc' = "end"
          /\ UNCHANGED <<path, content, todo>>
      BY <2>14 DEF EndText
    <3>2. masker # "log"
      <4> SUFFICES ASSUME masker = "log" PROVE FALSE
        OBVIOUS
      <4>1. PICK n \in DOMAIN textRules["log"] :
              /\ n \in Nat \ {0} /\ textRules["log"][n].form = "format"
              /\ v \in textRules["log"][n].values
        BY <1>2
      <4>2. rule <= n /\ rule # 0
        BY <1>2, <1>4, <3>1, <4>1 DEF FormatAhead, CallInv
      <4>3. DOMAIN textRules["log"] = 1 .. 3 * RuleCount("log") /\ RuleCount("log") \in Nat
        BY GivenRules DEF textRules, Maskers
      <4> QED
        BY <2>2, <3>1, <4>1, <4>2, <4>3
    <3>3. Head(todo) = "doc"
      <4>1. route = "excerpt" /\ todo \in Ahead(route) /\ route \in Routes /\ masker = "doc"
        BY <2>2, <3>2 DEF IInv, StageInv, Maskers
      <4>2. Head(<<"doc", "log", "cut">>) = "doc" /\ Head(<<"log", "cut">>) = "log"
            /\ Head(<<"cut">>) = "cut"
        OBVIOUS
      <4>3. Head(todo) \in Maskers
        BY <2>1, <4>1, <4>2 DEF Ahead, Maskers
      <4> QED
        BY <3>1, <4>1, <4>3 DEF CallInv
    <3> QED
      <4>1. route \notin {"source", "field"}
        BY <2>1, <3>3, SourceStages
      <4> QED
        BY <2>1, <2>4, <3>1, <3>3, <4>1
  <2>15. CASE Done \/ UNCHANGED vars
    BY <1>1, <1>4, <2>15 DEF Done, vars, FormatAhead, Meets
  <2> QED
    BY <2>5, <2>6, <2>7, <2>8, <2>9, <2>10, <2>11, <2>12, <2>13, <2>14, <2>15 DEF Next
<1> QED
  BY <1>3, <1>4 DEF FormatInv

\* What is delivered is the value as masking has left it.
LEMMA DeliversThis ==
    ASSUME CallInv, pc = "done"
    PROVE  Delivered = <<path, content>>
BY DEF CallInv, Delivered

\* Nothing is in hand at first.
LEMMA CallsInit == Init => CallInv
<1> SUFFICES ASSUME Init PROVE CallInv
  OBVIOUS
<1>1. pc = "next" /\ ~changed /\ <<path, content>> = given
  BY DEF Init
<1> QED
  BY <1>1 DEF CallInv

\* The stages of a route where the maskers come in.
LEMMA FirstStages ==
    ASSUME Init, route \notin Aside
    PROVE  todo # <<>> /\ Head(todo) # "cut" /\ Head(todo) \notin {"strings", "field"}
<1>1. route \in {"line", "twice", "excerpt", "source", "field"}
  BY StagesAhead, TypeInit DEF IInv, StageInv, Routes
<1>2. /\ Head(<<"log">>) = "log" /\ Head(<<"log", "log">>) = "log"
      /\ Head(<<"doc", "log", "cut">>) = "doc"
      /\ Head(<<"walk", "strings">>) = "walk" /\ Head(<<"walk", "field">>) = "walk"
  OBVIOUS
<1>3. todo = Stages(route)
  BY DEF Init
<1>4. todo \in {<<"log">>, <<"log", "log">>, <<"doc", "log", "cut">>, <<"walk", "strings">>,
                <<"walk", "field">>}
  BY <1>1, <1>3 DEF Stages, Excerpt
<1> QED
  BY <1>2, <1>4

\* At first the formats are ahead.
LEMMA FormatInit == Init => FormatInv
<1> SUFFICES ASSUME Init, Secret PROVE FormatAhead
  BY DEF FormatInv
<1>1. IInv
  BY TypeInit
<1>2. path = given[1] /\ content = given[2] /\ pc = "next"
  BY DEF Init
<1>3. path[Len(path)].in # "literal"
  BY <1>1, <1>2, SecretFacts
<1>4. todo # <<>> /\ Head(todo) # "cut"
  BY FirstStages DEF Secret
<1> QED
  BY <1>2, <1>3, <1>4 DEF FormatAhead

\* Formats are masked, for rules, values and paths of any number and length.
THEOREM FormatsMasked == Spec => []FormatIsMasked
<1>1. Init => IInv /\ CallInv /\ FormatInv
  BY TypeInit, CallsInit, FormatInit
<1>2. IInv /\ CallInv /\ FormatInv /\ [Next]_vars => (IInv /\ CallInv /\ FormatInv)'
  BY TypeStep, CallsInHand, FormatStep
<1>3. IInv /\ CallInv /\ FormatInv => FormatIsMasked
  <2> SUFFICES ASSUME IInv, CallInv, FormatInv, pc = "done",
                      route \in {"line", "twice", "source", "field"},
                      NEW b \in Line(route, given[1]), HasFormat(given[1], given[2], b)
               PROVE  Delivered[2] # given[2]
    BY DEF FormatIsMasked
  <2>1. Secret
    BY DEF Secret, Aside
  <2>2. todo = <<>>
    BY DEF IInv, StageInv
  <2>3. content \notin Shown
    BY <2>1, <2>2 DEF FormatInv, FormatAhead
  <2> QED
    BY <2>3, DeliversThis DEF Shown
<1> QED
  BY <1>1, <1>2, <1>3, PTL DEF Spec

-----------------------------------------------------------------------------
(* Values under a key.                                                     *)

\* The layer of a covered value, and those around it.
LEMMA CoveredFacts ==
    ASSUME IInv, NEW i \in 1 .. Len(given[1]) - 1, Covered(i)
    PROVE  /\ given[1][i].in = "member" /\ Scalar(given[1][i + 1])
           /\ given[1][i] = Member(given[1][i].key)
           /\ \A m \in Maskers, j \in 1 .. i - 1 :
                 /\ m = "doc" => route = "excerpt"
                 /\ given[1][j].in = "member" /\ Scalar(given[1][j + 1])
                 => Naming(m, given[1][j].key) = {}
           /\ given[1][i + 1].in = "string" \/ i + 1 = Len(given[1])
           /\ \/ InKeyRules("log", given[1][i].key)
              \/ InKeyRules("doc", given[1][i].key) /\ route = "excerpt"
           /\ Len(given[1]) \in Nat /\ DOMAIN given[1] = 1 .. Len(given[1])
           /\ i \in 1 .. Len(given[1]) /\ i + 1 \in 1 .. Len(given[1])
<1> DEFINE p == given[1]
           ms == IF route = "excerpt" THEN Maskers ELSE {"log"}
<1>1. WellFormed(p)
  BY GivenFacts
<1>2. i \in Outermost(ms, p) /\ \E m \in ms : InKeyRules(m, p[i].key)
  BY DEF Covered
<1>3. Len(p) \in Nat /\ DOMAIN p = 1 .. Len(p)
  BY <1>1, LenProperties DEF WellFormed
<1>4. i \in 1 .. Len(p) /\ i + 1 \in 1 .. Len(p) /\ i \in Nat
  BY <1>3
<1>5. p[i].in = "member" /\ Scalar(p[i + 1])
  BY <1>2 DEF Outermost, Holders
<1>6. p[i] \in Layers /\ p[i + 1] \in Layers /\ (i + 1 = Len(p) <=> Leaf(p[i + 1]))
  BY <1>1, <1>4, Below
<1>7. p[i] = Member(p[i].key)
  BY <1>5, <1>6, LayerKinds
<1>8. p[i + 1].in = "string" \/ i + 1 = Len(p)
  BY <1>5, <1>6, LayerKinds DEF Scalar
<1>9. ASSUME NEW m \in Maskers, NEW j \in 1 .. i - 1, m = "doc" => route = "excerpt",
             p[j].in = "member", Scalar(p[j + 1]), Naming(m, p[j].key) # {}
      PROVE  FALSE
  <2>1. m \in ms
    BY <1>9 DEF Maskers
  <2>2. j \in 1 .. Len(p) - 1 /\ ~(i <= j)
    BY <1>3, <1>4
  <2>3. j \in Holders(ms, p)
    BY <1>9, <2>1, <2>2 DEF Holders
  <2> QED
    BY <1>2, <2>2, <2>3 DEF Outermost
<1>10. \/ InKeyRules("log", p[i].key)
       \/ InKeyRules("doc", p[i].key) /\ route = "excerpt"
  BY <1>2 DEF Maskers
<1> QED
  BY <1>3, <1>4, <1>5, <1>7, <1>8, <1>9, <1>10

\* The masker at work on a value whose key is ahead knows the key, or it is the
\* one of the graphql block and the log rules are still to come.
LEMMA MaskerKnows ==
    ASSUME IInv, CallInv, pc \in {"walk", "text", "end"},
           NEW i \in 1 .. Len(given[1]) - 1, Covered(i), KeyAhead(i)
    PROVE  \/ InKeyRules(masker, given[1][i].key)
           \/ /\ masker = "doc" /\ Head(todo) = "doc" /\ route = "excerpt"
              /\ ~InKeyRules("doc", given[1][i].key)
<1>1. \/ InKeyRules("log", given[1][i].key)
      \/ InKeyRules("doc", given[1][i].key) /\ route = "excerpt"
  BY CoveredFacts
<1>2. masker \in {"log", "doc"} /\ (masker = "doc" => route = "excerpt")
  BY DEF IInv, Maskers
<1>3. CASE route # "excerpt"
  BY <1>1, <1>2, <1>3
<1>4. CASE route = "excerpt"
  <2>1. todo \in {<<"doc", "log", "cut">>, <<"log", "cut">>, <<"cut">>} /\ Head(todo) # "cut"
    BY <1>4 DEF IInv, StageInv, Ahead, KeyAhead
  <2>2. /\ Head(<<"doc", "log", "cut">>) = "doc" /\ Head(<<"log", "cut">>) = "log"
        /\ Head(<<"cut">>) = "cut"
    OBVIOUS
  <2>3. Head(todo) \in Maskers
    BY <2>1, <2>2 DEF Maskers
  <2>4. masker = Head(todo)
    BY <2>3 DEF CallInv
  <2> QED
    BY <1>1, <1>2, <1>4, <2>4 DEF KeyAhead
<1> QED
  BY <1>3, <1>4

\* A key that the text rules can see has a pattern that meets it.
LEMMA KeyedPattern ==
    ASSUME IInv, NEW m \in Maskers, NEW i \in 1 .. Len(path) - 1, NEW v,
           content = Raw(v), base < i, path[i].in = "member", Scalar(path[i + 1]),
           InText(path, content, base, i), InKeyRules(m, path[i].key)
    PROVE  /\ ~HoldsQuotes(i + 1)
           /\ \E n \in DOMAIN textRules[m] :
                 n \in Nat \ {0} /\ n <= 3 * Len(KeyRules[m]) /\ Meets(textRules[m][n], i)
<1>1. /\ i + 1 = Len(path) /\ path[i + 1].in # "literal" /\ v \notin Quoted
      /\ \/ StringsIn(path, base, i) = {}
         \/ /\ path[i + 1] = Bare /\ Escaped[v] = v
            /\ \E j \in StringsIn(path, base, i) : StringsIn(path, base, i) = {j}
  BY DEF InText, Raw, Content
<1>2. WellFormed(path) /\ Len(path) \in Nat /\ base \in Nat
  BY LenProperties DEF IInv, LineInv, WellFormed
<1>3. path[i] \in Layers
  <2>1. i \in 1 .. Len(path)
    BY <1>2
  <2> QED
    BY <1>2, <2>1, Below
<1>4. path[i] = Member(path[i].key)
  BY <1>3, LayerKinds
<1>5. Strings(i) = StringsIn(path, base, i)
  BY DEF Strings, StringsIn
<1>6. Text(i + 1) = Raw(v) /\ content.form = "raw" /\ content.of[1] = v
  BY <1>1 DEF Text, Raw, Content
<1>7. ~HoldsQuotes(i + 1)
  <2>1. i + 1 + 1 .. Len(path) = {}
    BY <1>1, <1>2
  <2>2. \A w : Raw(v) = Raw(w) => v = w
    BY DEF Raw, Content
  <2> QED
    BY <1>1, <2>1, <2>2 DEF HoldsQuotes
<1>8. path[i + 1].in \in {"string", "number"}
  BY <1>1 DEF Scalar
<1>9. /\ Forms[1] = "string" /\ Forms[2] = "number" /\ Forms[3] = "escaped"
  BY DEF Forms
<1>10. \A f \in 1 .. 3 : \E n \in DOMAIN textRules[m] :
          /\ n \in Nat \ {0} /\ n <= 3 * Len(KeyRules[m])
          /\ textRules[m][n].form = Forms[f] /\ textRules[m][n].key = path[i].key
  BY KeyPatterns
<1>11. CASE StringsIn(path, base, i) = {} /\ path[i + 1].in = "string"
  <2>1. PICK n \in DOMAIN textRules[m] :
          /\ n \in Nat \ {0} /\ n <= 3 * Len(KeyRules[m])
          /\ textRules[m][n].form = "string" /\ textRules[m][n].key = path[i].key
    BY <1>9, <1>10
  <2>2. Meets(textRules[m][n], i)
    BY <1>2, <1>4, <1>5, <1>11, <2>1 DEF Meets
  <2> QED
    BY <1>7, <2>1, <2>2
<1>12. CASE StringsIn(path, base, i) = {} /\ path[i + 1].in = "number"
  <2>1. PICK n \in DOMAIN textRules[m] :
          /\ n \in Nat \ {0} /\ n <= 3 * Len(KeyRules[m])
          /\ textRules[m][n].form = "number" /\ textRules[m][n].key = path[i].key
    BY <1>9, <1>10
  <2>2. Meets(textRules[m][n], i)
    BY <1>2, <1>4, <1>5, <1>6, <1>12, <2>1 DEF Meets
  <2> QED
    BY <1>7, <2>1, <2>2
<1>13. CASE /\ path[i + 1] = Bare /\ Escaped[v] = v
            /\ \E j \in StringsIn(path, base, i) : StringsIn(path, base, i) = {j}
  <2>1. PICK n \in DOMAIN textRules[m] :
          /\ n \in Nat \ {0} /\ n <= 3 * Len(KeyRules[m])
          /\ textRules[m][n].form = "escaped" /\ textRules[m][n].key = path[i].key
    BY <1>9, <1>10
  <2>2. Spelled(Text(i + 1)) = Text(i + 1)
    BY <1>6, <1>13 DEF Spelled, Raw, Content
  <2>3. Meets(textRules[m][n], i)
    BY <1>2, <1>4, <1>5, <1>7, <1>13, <2>1, <2>2, NewLayers DEF Meets
  <2> QED
    BY <1>7, <2>1, <2>3
<1> QED
  BY <1>1, <1>8, <1>11, <1>12, <1>13

\* What a pattern meets is a scalar of a key that a rule names.
LEMMA MetMember ==
    ASSUME IInv, pc = "text", rule \in DOMAIN textRules[masker],
           NEW j \in 1 .. Len(path) - 1, Meets(textRules[masker][rule], j)
    PROVE  /\ path[j].in = "member" /\ Scalar(path[j + 1])
           /\ \E repl \in Naming(masker, path[j].key) :
                 textRules[masker][rule].repl \in {repl, [repl EXCEPT !.template = FALSE]}
<1> DEFINE p == textRules[masker][rule]
<1>1. p.form \notin {"format", "absent"} /\ path[j] = Member(p.key)
  BY Zenon DEF Meets
<1>2. p.form \in {"string", "number", "escaped", "format", "absent"}
  BY TextRulesNamed DEF IInv
<1>3. path[j + 1].in \in {"string", "number"}
  BY <1>1, <1>2 DEF Meets
<1>4. path[j].in = "member" /\ path[j].key = p.key
  BY <1>1 DEF Member
<1>5. \E repl \in Naming(masker, p.key) : p.repl \in {repl, [repl EXCEPT !.template = FALSE]}
  BY <1>1, TextRulesNamed DEF IInv
<1> QED
  BY <1>3, <1>4, <1>5 DEF Scalar

\* What a rule without words around its token has made, it makes again.
LEMMA MadeAgain ==
    ASSUME NEW repl \in Replacements, ~repl.template, NEW d \in Texts, NEW c,
           c \in {replaceScalar(repl, d), staticReplacement(repl)}
    PROVE  /\ replaceScalar(repl, c) = c /\ Spelled(c) = c
           /\ \A v : c = Raw(v) => v \in TokenLike
<1>1. /\ Stars.form = "stars" /\ Static.form = "static"
      /\ \A e : Content("token", e).form = "token"
      /\ \A v : Raw(v).form = "raw" /\ Raw(v).of[1] = v
  BY DEF Raw, Stars, Static, Content
<1>2. hashOrSkip(Stars, repl.mode) = Stars
  BY DEF hashOrSkip
<1>3. CASE repl.hmac /\ c = hashOrSkip(d, repl.mode)
  <2>1. hashOrSkip(c, repl.mode) = c
    BY <1>3, HashedOnce
  <2>2. LET token == Content("token", applyNormalize(d, repl.mode))
        IN c \in {Stars, d, token} /\ (c = d => IsToken(d) \/ c \in {Stars, token})
    BY <1>3 DEF hashOrSkip
  <2>3. c.form = "raw" => \E w \in TokenLike : c = Raw(w)
    BY <1>1, <2>2 DEF IsToken
  <2> QED
    BY <1>1, <1>3, <2>1, <2>3, SpellingAssumption DEF replaceScalar, expand, Spelled
<1>4. CASE repl.hmac /\ c = Stars
  BY <1>1, <1>2, <1>4 DEF replaceScalar, expand, Spelled
<1>5. CASE ~repl.hmac
  <2>1. c = Static
    BY <1>5 DEF replaceScalar, staticReplacement
  <2> QED
    BY <1>1, <1>5, <2>1 DEF replaceScalar, Spelled
<1> QED
  BY <1>3, <1>4, <1>5 DEF replaceScalar, staticReplacement, expand

\* A stage that begins or ends leaves the key ahead.
LEMMA KeyAtStages ==
    ASSUME IInv, IInv', CallInv, NEW i \in 1 .. Len(given[1]) - 1, Covered(i), KeyAhead(i),
           ApplyLine \/ WalkSource \/ ApplyStrings \/ EndStage
    PROVE  KeyAhead(i)'
<1> DEFINE p == given[1]
           k == given[1][i].key
<1>1. given' = given /\ route' = route /\ path' = path /\ content' = content
  BY DEF ApplyLine, WalkSource, ApplyStrings, EndStage
<1>2. /\ path = p /\ content = given[2] /\ todo # <<>> /\ Head(todo) # "cut"
      /\ route = "excerpt" /\ Head(todo) = "log" => ~InKeyRules("doc", k)
      /\ Head(todo) \in {"strings", "field"} => ~Walked(route, p, i)
      /\ pc = "end" => \/ Head(todo) = "walk" /\ ~Walked(route, p, i)
                       \/ Head(todo) = "doc" /\ ~InKeyRules("doc", k)
  BY DEF KeyAhead
<1>3. /\ p[i].in = "member" /\ Len(p) \in Nat /\ DOMAIN p = 1 .. Len(p)
      /\ i \in 1 .. Len(p) /\ i + 1 \in 1 .. Len(p)
  BY CoveredFacts
<1>4. WellFormed(p)
  BY GivenFacts
<1>5. \A m \in Maskers : \A n \in DOMAIN textRules[m] : 1 <= n
  <2> SUFFICES ASSUME NEW m \in Maskers, NEW n \in DOMAIN textRules[m] PROVE 1 <= n
    OBVIOUS
  <2>1. DOMAIN textRules[m] = 1 .. 3 * RuleCount(m)
    BY DEF textRules
  <2> QED
    BY <2>1
<1>6. ASSUME NEW b \in Line(route, p), b < i, BeginApply(b), todo' = todo,
             Walked(route, p, i) => p[b].as = "json" /\ Head(todo) \in Maskers,
             Head(todo) # "walk"
      PROVE  KeyAhead(i)'
  <2>1. b \in 1 .. Len(p) /\ p[b].in = "string" /\ b \in Nat /\ b # Len(p)
    BY <1>3, <1>6 DEF Line
  <2>2. p[b] # Bare
    BY <1>4, <2>1, Below, NewLayers
  <2>3. /\ base' = b /\ rule' = 1 /\ pos' = b + 1
        /\ pc' = IF p[b].as = "json" THEN "walk" ELSE "text"
    BY <1>2, <1>6, <2>2 DEF BeginApply
  <2>4. pc' = "walk" => WalkAbove(i)'
    <3> SUFFICES ASSUME pc' = "walk" PROVE WalkAbove(i)'
      OBVIOUS
    <3>1. Container(p[b + 1]) /\ b + 1 \in 1 .. Len(p)
      <4>1. p[b] \in Layers /\ (b < Len(p) => /\ Container(p[b]) \/ Container(p[b + 1])
                                             /\ b + 1 \in 1 .. Len(p))
        BY <1>4, <2>1, Below
      <4>2. ~Container(p[b]) /\ b < Len(p)
        BY <1>3, <1>6, <2>1 DEF Container
      <4> QED
        BY <4>1, <4>2
    <3>2. p[b + 1].in # "string"
      BY <3>1 DEF Container
    <3> QED
      BY <1>1, <1>2, <1>3, <1>6, <2>1, <2>3, <3>2 DEF WalkAbove
  <2>5. pc' = "text" => ~Walked(route, p, i)
    BY <1>6, <2>3
  <2>6. masker' \in Maskers
    BY DEF IInv
  <2> QED
    BY <1>1, <1>2, <1>5, <1>6, <2>3, <2>4, <2>5, <2>6 DEF KeyAhead
<1>7. CASE ApplyLine
  <2>1. pc = "next" /\ Head(todo) \in Maskers /\ BeginApply(1) /\ todo' = todo
    BY <1>7 DEF ApplyLine, Begin
  <2>2. route \notin {"source", "field"} /\ Head(todo) # "walk"
    BY <1>2, <2>1, SourceStages DEF Maskers
  <2>3. p[1].in = "string"
    <3>1. todo # <<>>
      BY <1>7 DEF ApplyLine, Begin
    <3> QED
      BY <1>2, <2>1, <3>1, StagesAhead DEF IInv, StageInv, Maskers
  <2>4. 1 \in Line(route, p) /\ 1 < i
    <3>1. i # 1 /\ 1 \in DOMAIN p
      BY <1>3, <2>3
    <3>2. 1 .. 1 - 1 = {}
      OBVIOUS
    <3> QED
      BY <1>3, <2>2, <2>3, <3>1, <3>2 DEF Line
  <2>5. Walked(route, p, i) => p[1].as = "json"
    BY <2>2 DEF Walked, String
  <2> QED
    BY <1>6, <2>1, <2>2, <2>4, <2>5
<1>8. CASE WalkSource
  <2>1. pc = "next" /\ Head(todo) = "walk" /\ base' = 0 /\ pos' = 1 /\ pc' = "walk" /\ todo' = todo
    BY <1>8 DEF WalkSource, Begin
  <2>2. route \in {"source", "field"}
    BY <1>2, <2>1, SourceStages
  <2>3. p[1].in = "member"
    BY <1>2, <2>2 DEF IInv, StageInv
  <2>4. WalkAbove(i)'
    BY <1>1, <1>2, <1>3, <2>1, <2>3 DEF WalkAbove
  <2> QED
    BY <1>1, <1>2, <2>1, <2>4 DEF KeyAhead
<1>9. CASE ApplyStrings
  <2>1. pc = "next" /\ Head(todo) \in {"strings", "field"} /\ todo' = todo
    BY <1>9 DEF ApplyStrings, Begin
  <2>2. route \in {"source", "field"} /\ (Head(todo) = "field" <=> route = "field")
    BY <1>2, <2>1, SourceStages
  <2>3. ~Walked(route, p, i)
    BY <1>2, <2>1
  <2>4. PICK b \in Line(route, p) : b < i
    BY <2>3 DEF Covered, ReadAsText
  <2>5. InScope(b) /\ b \in DOMAIN path
    <3>1. b \in DOMAIN path
      BY <1>2, <2>4 DEF Line
    <3> QED
      BY <1>2, <2>1, <2>2, <2>4, <3>1, LineInScope
  <2>6. PICK a \in DOMAIN path : InScope(a) /\ BeginApply(a)
    BY <1>9, <2>5 DEF ApplyStrings
  <2>7. a = b
    <3>1. a \in Line(route, p)
      BY <1>2, <2>1, <2>2, <2>6, LineInScope
    <3> QED
      BY <1>4, <2>4, <3>1, OneLine
  <2> QED
    BY <1>6, <2>1, <2>3, <2>4, <2>6, <2>7
<1>10. CASE EndStage
  <2>1. pc = "end" /\ pc' = "next" /\ todo' = Tail(todo)
    BY <1>10 DEF EndStage
  <2>2. todo \in Ahead(route) /\ route \in Routes
    BY DEF IInv, StageInv
  <2>3. /\ Head(<<"log">>) = "log" /\ Head(<<"log", "log">>) = "log"
        /\ Head(<<"doc", "log", "cut">>) = "doc" /\ Head(<<"log", "cut">>) = "log"
        /\ Head(<<"cut">>) = "cut" /\ Head(<<"walk", "strings">>) = "walk"
        /\ Head(<<"strings">>) = "strings" /\ Head(<<"field">>) = "field"
        /\ Head(<<"walk", "field">>) = "walk"
        /\ Tail(<<"doc", "log", "cut">>) = <<"log", "cut">>
        /\ Tail(<<"walk", "strings">>) = <<"strings">> /\ Tail(<<"walk", "field">>) = <<"field">>
        /\ <<"log", "cut">> # <<>> /\ <<"strings">> # <<>> /\ <<"field">> # <<>>
    OBVIOUS
  <2>4. CASE Head(todo) = "walk" /\ ~Walked(route, p, i)
    <3>1. todo' # <<>> /\ Head(todo') \in {"strings", "field"}
      BY <2>1, <2>2, <2>3, <2>4, <1>2 DEF Ahead
    <3> QED
      BY <1>1, <1>2, <2>1, <2>4, <3>1 DEF KeyAhead
  <2>5. CASE Head(todo) = "doc" /\ ~InKeyRules("doc", k)
    <3>1. todo' # <<>> /\ Head(todo') = "log"
      BY <2>1, <2>2, <2>3, <2>5, <1>2 DEF Ahead
    <3> QED
      BY <1>1, <1>2, <2>1, <2>5, <3>1 DEF KeyAhead
  <2> QED
    BY <1>2, <2>1, <2>4, <2>5
<1> QED
  BY <1>7, <1>8, <1>9, <1>10

\* The walk comes down to the key and replaces what is under it, or it ends above
\* it, at a string that it cannot pass.
LEMMA KeyInWalk ==
    ASSUME IInv, IInv', CallInv, NEW i \in 1 .. Len(given[1]) - 1, Covered(i), KeyAhead(i),
           MaskScalar \/ Descend \/ WalkEnds
    PROVE  KeyAhead(i)' \/ KeyDone(i)'
<1> DEFINE p == given[1]
           k == given[1][i].key
<1>1. /\ pc = "walk" /\ given' = given /\ route' = route /\ todo' = todo /\ masker' = masker
      /\ base' = base /\ rule' = rule
  BY DEF MaskScalar, Descend, WalkEnds
<1>2. /\ path = p /\ content = given[2] /\ todo # <<>> /\ Head(todo) # "cut"
      /\ route = "excerpt" /\ Head(todo) = "log" => ~InKeyRules("doc", k)
      /\ Head(todo) \in {"strings", "field"} => ~Walked(route, p, i)
      /\ Head(todo) # "walk" => base \in Line(route, p)
      /\ InKeyRules(masker, k) => WalkAbove(i)
  BY <1>1 DEF KeyAhead
<1>3. /\ p[i].in = "member" /\ Scalar(p[i + 1]) /\ Len(p) \in Nat /\ DOMAIN p = 1 .. Len(p)
      /\ i \in 1 .. Len(p) /\ i + 1 \in 1 .. Len(p) /\ i \in Nat
  BY CoveredFacts
<1>4. /\ WellFormed(p) /\ masker \in Maskers /\ (masker = "doc" => route = "excerpt")
      /\ base \in Nat /\ pos \in base + 1 .. Len(p) - 1 /\ Container(p[pos])
      /\ base # 0 => base \in DOMAIN p /\ p[base].in = "string" /\ p[base].as = "json"
      /\ base # 0 => rule = 1
      /\ base = 0 <=> Head(todo) = "walk"
  BY <1>1, <1>2 DEF IInv, LineInv, CallInv
<1>5. pos \in Nat /\ pos > base /\ pos + 1 \in 1 .. Len(p) /\ pos \in 1 .. Len(p) - 1
  BY <1>3, <1>4
<1>6. \/ InKeyRules(masker, k)
      \/ masker = "doc" /\ Head(todo) = "doc" /\ route = "excerpt" /\ ~InKeyRules("doc", k)
  BY <1>1, MaskerKnows
<1>7. ASSUME \A j \in base + 1 .. i - 1 : p[j].in = "string" => Decodable(p[j])
      PROVE  Walked(route, p, i)
  <2>1. \A l : Decodable(l) => l.as \in {"json", "mixed"}
    BY DEF Decodable, String
  <2>2. CASE base = 0
    <3>1. route \in {"source", "field"}
      BY <1>2, <1>4, <2>2, SourceStages
    <3> QED
      BY <1>7, <2>1, <2>2, <3>1 DEF Walked, InDocument, StringsIn
  <2>3. CASE base # 0
    <3>1. base \in Line(route, p)
      BY <1>2, <1>4, <2>3
    <3>2. CASE route \in {"source", "field"}
      <4>1. \A j \in 1 .. i - 1 : p[j].in = "string" => p[j].as \in {"json", "mixed"}
        <5> SUFFICES ASSUME NEW j \in 1 .. i - 1, p[j].in = "string"
                     PROVE  p[j].as \in {"json", "mixed"}
          OBVIOUS
        <5>1. ~(j < base)
          <6>1. \A l \in 1 .. base - 1 : p[l].in # "string"
            BY <3>1 DEF Line
          <6> QED
            BY <1>4, <6>1
        <5>2. CASE j = base
          BY <1>4, <2>3, <5>2
        <5>3. CASE j \in base + 1 .. i - 1
          BY <1>7, <2>1, <5>3
        <5> QED
          BY <1>3, <1>4, <5>1, <5>2, <5>3
      <4> QED
        BY <3>2, <4>1 DEF Walked, InDocument, StringsIn
    <3>3. CASE route \notin {"source", "field"}
      <4>1. Head(todo) \in Maskers
        <5>1. todo \in Ahead(route) /\ route \in Routes
          BY DEF IInv, StageInv
        <5>2. /\ Head(<<"log">>) = "log" /\ Head(<<"log", "log">>) = "log"
              /\ Head(<<"doc", "log", "cut">>) = "doc" /\ Head(<<"log", "cut">>) = "log"
              /\ Head(<<"cut">>) = "cut"
          OBVIOUS
        <5> QED
          BY <1>2, <3>3, <5>1, <5>2 DEF Ahead, Routes, Maskers
      <4>2. base = 1
        BY <1>1, <4>1 DEF CallInv
      <4>3. p[1] = String("json")
        <5>1. 1 \in 1 .. Len(p)
          BY <1>3
        <5>2. p[1] \in Layers
          BY <1>4, <5>1, Below
        <5> QED
          BY <1>4, <4>2, <5>2, LayerKinds
      <4> QED
        BY <1>7, <2>1, <3>3, <4>2, <4>3 DEF Walked, InDocument, StringsIn
    <3> QED
      BY <3>2, <3>3
  <2> QED
    BY <2>2, <2>3
<1>8. ASSUME InKeyRules(masker, k), ~Ruled(pos)
      PROVE  pos < i
  <2>1. pos <= i
    BY <1>2, <1>8 DEF WalkAbove
  <2>2. RulesOf(k) # {}
    BY <1>8 DEF InKeyRules, RulesOf
  <2>3. pos # i
    BY <1>2, <1>3, <1>8, <2>2 DEF Ruled
  <2> QED
    BY <1>3, <1>5, <2>1, <2>3
<1>9. CASE MaskScalar
  <2> DEFINE repl == keyReplace(p[pos].key)
             made == IF p[pos + 1].in = "literal" THEN staticReplacement(repl)
                     ELSE replaceScalar(repl, Text(pos + 1))
  <2>1. /\ p[pos].in = "member" /\ Scalar(p[pos + 1]) /\ RulesOf(p[pos].key) # {}
        /\ path' = Append(SubSeq(p, 1, pos), Bare) /\ content' = made
    BY <1>2, <1>9 DEF MaskScalar, Ruled, Put
  <2>2. repl \in Replacements /\ repl \in Naming(masker, p[pos].key)
    BY <1>4, <2>1, RuleHeld
  <2>3. ~(pos < i)
    <3>1. pos < i => pos \in 1 .. i - 1
      BY <1>3, <1>5
    <3> QED
      BY <1>4, <2>1, <2>2, <3>1, CoveredFacts
  <2>4. ~IsToken(given[2]) => content' \notin Shown'
    <3> SUFFICES ASSUME ~IsToken(given[2]) PROVE content' \notin Shown'
      OBVIOUS
    <3>1. PICK v \in Values : given[2] = Raw(v)
      BY GivenFacts
    <3>2. v \notin TokenLike
      BY <3>1 DEF IsToken
    <3> QED
      BY <1>1, <2>1, <3>1, <3>2, NothingShows DEF Shown
  <2>5. ASSUME route # "excerpt", NEW r \in Replacements, OnlyRule(i, r)
        PROVE  path' = Append(SubSeq(p, 1, i), Bare) /\ content' = Made(i, r)
    <3>1. InKeyRules(masker, k) /\ masker = "log"
      BY <1>4, <1>6, <2>5 DEF Maskers
    <3>2. pos = i /\ WalkAbove(i)
      BY <1>2, <1>3, <1>5, <2>3, <3>1 DEF WalkAbove
    <3>3. Walked(route, p, i)
      <4>1. \A j \in base + 1 .. i - 1 : p[j].in = "string" => Decodable(p[j])
        BY <1>2, <1>3, <1>4, <3>2 DEF WalkAbove
      <4> QED
        BY <1>7, <4>1
    <3>4. repl = r
      BY <2>2, <2>5, <3>1, <3>2 DEF OnlyRule
    <3>5. Text(i + 1) = IF i + 1 = Len(p) THEN given[2] ELSE Raw(Document)
      BY <1>2 DEF Text
    <3> QED
      BY <2>1, <3>2, <3>3, <3>4, <3>5 DEF Made
  <2>6. \A r : OnlyRule(i, r)' = OnlyRule(i, r) /\ Made(i, r)' = Made(i, r)
    BY <1>1 DEF OnlyRule, Made
  <2> QED
    BY <1>1, <2>4, <2>5, <2>6 DEF KeyDone
<1>10. CASE Descend
  <2>1. /\ UNCHANGED <<path, content>> /\ pc' = "walk" /\ ~Ruled(pos)
        /\ \/ ~Scalar(p[pos + 1]) /\ pos' = pos + 1
           \/ Decodable(p[pos + 1]) /\ pos' = pos + 2
    BY <1>2, <1>10 DEF Descend
  <2>2. InKeyRules(masker, k) => WalkAbove(i)'
    <3> SUFFICES ASSUME InKeyRules(masker, k) PROVE WalkAbove(i)'
      OBVIOUS
    <3>1. pos < i
      BY <1>8, <2>1
    <3>2. \A j \in base + 1 .. i - 1 : p[j].in = "string" /\ ~Decodable(p[j]) => pos < j
      BY <1>2 DEF WalkAbove
    <3>3. p[pos'].in # "string"
      BY <1>2, <2>1 DEF IInv, LineInv, Container
    <3>4. CASE ~Scalar(p[pos + 1]) /\ pos' = pos + 1
      <4>1. pos' <= i
        BY <1>3, <1>5, <3>1, <3>4
      <4>2. \A j \in base + 1 .. i - 1 :
              p[j].in = "string" /\ ~Decodable(p[j]) => j # pos'
        BY <3>3
      <4>3. \A j \in base + 1 .. i - 1 :
              p[j].in = "string" /\ ~Decodable(p[j]) => pos' < j
        BY <1>3, <1>4, <1>5, <3>2, <3>4, <4>2
      <4> QED
        BY <1>1, <1>2, <2>1, <4>1, <4>3 DEF WalkAbove
    <3>5. CASE Decodable(p[pos + 1]) /\ pos' = pos + 2
      <4>1. p[pos + 1].in = "string"
        BY <3>5 DEF Decodable, String
      <4>2. pos + 1 # i
        BY <1>3, <4>1
      <4>3. pos' <= i
        BY <1>3, <1>5, <3>1, <3>5, <4>2
      <4>4. \A j \in base + 1 .. i - 1 :
              p[j].in = "string" /\ ~Decodable(p[j]) => j # pos + 1 /\ j # pos'
        BY <3>3, <3>5
      <4>5. \A j \in base + 1 .. i - 1 :
              p[j].in = "string" /\ ~Decodable(p[j]) => pos' < j
        BY <1>3, <1>4, <1>5, <3>2, <3>5, <4>4
      <4> QED
        BY <1>1, <1>2, <2>1, <4>3, <4>5 DEF WalkAbove
    <3> QED
      BY <2>1, <3>4, <3>5
  <2> QED
    BY <1>1, <1>2, <2>1, <2>2 DEF KeyAhead
<1>11. CASE WalkEnds
  <2>1. /\ UNCHANGED <<path, content>> /\ pc' = (IF base = 0 THEN "end" ELSE "text") /\ ~Ruled(pos)
        /\ Scalar(p[pos + 1]) /\ ~Decodable(p[pos + 1])
    BY <1>2, <1>11 DEF WalkEnds, LeaveWalk
  <2>2. InKeyRules(masker, k) => ~Walked(route, p, i)
    <3> SUFFICES ASSUME InKeyRules(masker, k) PROVE ~Walked(route, p, i)
      OBVIOUS
    <3>1. pos < i
      BY <1>8, <2>1
    <3>2. pos + 1 < i
      <4>1. pos + 1 # i
        BY <1>3, <2>1 DEF Scalar
      <4> QED
        BY <1>3, <1>5, <3>1, <4>1
    <3>3. p[pos + 1].in = "string"
      <4>1. pos + 1 # Len(p)
        BY <1>3, <1>5, <3>2
      <4>2. p[pos + 1] \in Layers /\ ~Leaf(p[pos + 1])
        BY <1>4, <1>5, <4>1, Below
      <4> QED
        BY <2>1, <4>2, LayerKinds DEF Scalar
    <3>4. p[pos + 1].as \notin {"json", "mixed"}
      <4>1. p[pos + 1] \in Layers
        BY <1>4, <1>5, Below
      <4>2. p[pos + 1] = String(p[pos + 1].as)
        BY <3>3, <4>1, LayerKinds
      <4> QED
        BY <2>1, <4>2 DEF Decodable
    <3>5. pos + 1 \in base + 1 .. i - 1 /\ pos + 1 \in 1 .. i - 1
      BY <1>3, <1>4, <1>5, <3>2
    <3>6. CASE route \in {"source", "field"}
      BY <3>3, <3>4, <3>5, <3>6 DEF Walked, InDocument, StringsIn
    <3>7. CASE route \notin {"source", "field"}
      <4>1. 1 \in 1 .. Len(p) /\ p[1].in = "string"
        <5>1. route \in {"line", "twice", "excerpt"}
          BY <1>2, <3>7 DEF IInv, StageInv, Routes, Ahead, Aside
        <5> QED
          BY <1>2, <1>3, <5>1 DEF IInv, StageInv
      <4>2. Container(p[1]) <=> p[1].in \in {"member", "element"}
        BY DEF Container
      <4>3. pos # 1 \/ base # 0
        BY <1>4, <4>1, <4>2
      <4>4. pos + 1 \in 2 .. i - 1
        BY <1>3, <1>4, <1>5, <3>2, <4>3
      <4> QED
        BY <3>3, <3>4, <3>7, <4>4 DEF Walked, InDocument, StringsIn
    <3> QED
      BY <3>6, <3>7
  <2>3. \A n \in DOMAIN textRules[masker] : 1 <= n
    <3>1. DOMAIN textRules[masker] = 1 .. 3 * RuleCount(masker)
      BY <1>4 DEF textRules
    <3> QED
      BY <3>1
  <2>4. CASE base = 0
    <3>1. InKeyRules(masker, k)
      BY <1>4, <1>6, <2>4
    <3> QED
      BY <1>1, <1>2, <1>4, <2>1, <2>2, <2>4, <3>1 DEF KeyAhead
  <2>5. CASE base # 0
    BY <1>1, <1>2, <1>4, <2>1, <2>2, <2>3, <2>5 DEF KeyAhead
  <2> QED
    BY <2>4, <2>5
<1> QED
  BY <1>9, <1>10, <1>11

\* A text pass comes to a pattern that meets the key and replaces what is under
\* it; no pattern before that one changes the value.
LEMMA KeyInText ==
    ASSUME IInv, IInv', CallInv, NEW i \in 1 .. Len(given[1]) - 1, Covered(i), KeyAhead(i),
           TextRule \/ EndText
    PROVE  KeyAhead(i)' \/ KeyDone(i)'
<1> DEFINE p == given[1]
           k == given[1][i].key
           q == textRules[masker][rule]
<1>1. /\ pc = "text" /\ given' = given /\ route' = route /\ todo' = todo /\ masker' = masker
      /\ base' = base
  BY TextStep DEF EndText
<1>2. /\ path = p /\ content = given[2] /\ todo # <<>> /\ Head(todo) # "cut"
      /\ route = "excerpt" /\ Head(todo) = "log" => ~InKeyRules("doc", k)
      /\ Head(todo) \in {"strings", "field"} => ~Walked(route, p, i)
      /\ Head(todo) # "walk" => base \in Line(route, p)
      /\ InKeyRules(masker, k) =>
            /\ ~Walked(route, p, i)
            /\ \A n \in DOMAIN textRules[masker] : Meets(textRules[masker][n], i) => rule <= n
  BY <1>1 DEF KeyAhead
<1>3. /\ p[i].in = "member" /\ Scalar(p[i + 1]) /\ Len(p) \in Nat /\ DOMAIN p = 1 .. Len(p)
      /\ i \in 1 .. Len(p) /\ i + 1 \in 1 .. Len(p) /\ i \in Nat
  BY CoveredFacts
<1>4. /\ WellFormed(p) /\ masker \in Maskers /\ (masker = "doc" => route = "excerpt")
      /\ base \in Nat /\ base # 0 /\ rule \in Nat \ {0} /\ Head(todo) # "walk"
  BY <1>1, <1>2, GivenFacts DEF IInv, LineInv, CallInv
<1>5. base \in Line(route, p) /\ base \in 1 .. Len(p) /\ p[base].in = "string"
      /\ \A j \in 1 .. base - 1 : p[j].in # "string"
  <2>1. base \in Line(route, p)
    BY <1>2, <1>4
  <2> QED
    BY <1>3, <2>1 DEF Line
<1>6. \/ InKeyRules(masker, k)
      \/ masker = "doc" /\ Head(todo) = "doc" /\ route = "excerpt" /\ ~InKeyRules("doc", k)
  BY <1>1, MaskerKnows
<1>7. PICK v \in Values : given[2] = Raw(v) /\ given[2].of[1] = v
  BY GivenFacts
<1>8. \A r, c : ~IsToken(given[2]) => replaceMatch(r, c) \notin Shown'
  <2> SUFFICES ASSUME ~IsToken(given[2]), NEW r, NEW c PROVE replaceMatch(r, c) \notin Shown'
    OBVIOUS
  <2>1. v \notin TokenLike
    BY <1>7 DEF IsToken
  <2> QED
    BY <1>1, <1>7, <2>1, NothingShows DEF Shown
<1>9. \A n \in DOMAIN textRules[masker] : n \in Nat
  <2>1. DOMAIN textRules[masker] = 1 .. 3 * RuleCount(masker)
    BY <1>4 DEF textRules
  <2> QED
    BY <2>1
<1>10. ASSUME InKeyRules(masker, k)
       PROVE  /\ base < i /\ ~Walked(route, p, i) /\ i + 1 = Len(p) /\ ~HoldsQuotes(i + 1)
              /\ p[i + 1].in # "literal"
              /\ \E n \in DOMAIN textRules[masker] :
                    n <= 3 * Len(KeyRules[masker]) /\ Meets(textRules[masker][n], i)
  <2>1. ~Walked(route, p, i)
    BY <1>2, <1>10
  <2>2. PICK b \in Line(route, p) : b < i /\ InText(p, given[2], b, i)
    BY <2>1 DEF Covered, ReadAsText
  <2>3. b = base
    BY <1>4, <1>5, <2>2, OneLine
  <2>4. i + 1 = Len(p) /\ p[i + 1].in # "literal"
    BY <2>2 DEF InText
  <2> QED
    BY <1>2, <1>3, <1>4, <1>7, <1>10, <2>1, <2>2, <2>3, <2>4, KeyedPattern
<1>11. ASSUME rule \in DOMAIN textRules[masker], NEW j \in 1 .. Len(path) - 1, Meets(q, j)
       PROVE  /\ ~(j < i) /\ p[j].in = "member"
              /\ \E r \in Naming(masker, p[j].key) : q.repl \in {r, [r EXCEPT !.template = FALSE]}
  <2>1. /\ path[j].in = "member" /\ Scalar(path[j + 1])
        /\ \E r \in Naming(masker, path[j].key) : q.repl \in {r, [r EXCEPT !.template = FALSE]}
    BY <1>1, <1>11, MetMember
  <2>2. ~(j < i)
    <3>1. j < i => j \in 1 .. i - 1
      BY <1>3
    <3> QED
      BY <1>2, <1>4, <2>1, <3>1, CoveredFacts
  <2> QED
    BY <1>2, <2>1, <2>2
<1>12. ASSUME NEW j \in 1 .. Len(p) - 1, i < j, base < i, p[j].in = "member"
       PROVE  i + 1 \in Strings(j)
  <2>1. i + 1 # Len(p)
    BY <1>3, <1>12
  <2>2. p[i + 1].in = "string"
    BY <2>1, CoveredFacts
  <2>3. i + 1 \in base + 1 .. j - 1
    <3>1. i + 1 # j
      BY <1>12, <2>2
    <3> QED
      BY <1>3, <1>4, <1>12, <3>1
  <2> QED
    BY <1>2, <2>2, <2>3 DEF Strings
<1>13. CASE EndText
  <2>1. /\ rule \notin DOMAIN textRules[masker] /\ pc' = "end" /\ UNCHANGED <<path, content>>
    BY <1>13 DEF EndText
  <2>2. ~InKeyRules(masker, k)
    <3> SUFFICES ASSUME InKeyRules(masker, k) PROVE FALSE
      OBVIOUS
    <3>1. PICK n \in DOMAIN textRules[masker] : Meets(textRules[masker][n], i)
      BY <1>10
    <3>2. rule <= n
      BY <1>2, <3>1
    <3>3. DOMAIN textRules[masker] = 1 .. 3 * RuleCount(masker) /\ RuleCount(masker) \in Nat
      BY <1>4, GivenRules DEF textRules
    <3> QED
      BY <1>4, <2>1, <3>1, <3>2, <3>3
  <2> QED
    BY <1>1, <1>2, <1>6, <2>1, <2>2 DEF KeyAhead
<1>14. CASE TextRule
  <2>1. /\ rule \in DOMAIN textRules[masker] /\ rule' = rule + 1 /\ pc' = "text"
        /\ \/ ReplaceFormat(q) \/ NoMatch(q)
           \/ \E j \in 1 .. Len(path) - 1 : ReplaceKeyed(q, j) \/ CutOpen(q, j)
    BY <1>14, TextStep
  <2>2. CASE ReplaceFormat(q)
    <3>1. content' = replaceMatch(q.repl, Spelled(content)) /\ q.form = "format"
      BY <2>2 DEF ReplaceFormat, Formatted
    <3>2. masker = "log" /\ rule > 3 * Len(KeyRules[masker])
      BY <1>4, <2>1, <3>1, TextRulesNamed
    <3>3. InKeyRules(masker, k) => FALSE
      <4> SUFFICES ASSUME InKeyRules(masker, k) PROVE FALSE
        OBVIOUS
      <4>1. PICK n \in DOMAIN textRules[masker] :
              n <= 3 * Len(KeyRules[masker]) /\ Meets(textRules[masker][n], i)
        BY <1>10
      <4>2. rule <= n /\ n \in Nat /\ Len(KeyRules[masker]) \in Nat
        BY <1>2, <1>4, <1>9, <4>1, GivenRules
      <4> QED
        BY <1>4, <3>2, <4>1, <4>2
    <3> QED
      BY <1>6, <3>2, <3>3
  <2>3. CASE NoMatch(q)
    <3>1. UNCHANGED <<path, content>> /\ \A j \in 1 .. Len(path) - 1 : ~Meets(q, j)
      BY <2>3 DEF NoMatch
    <3>2. ~Meets(q, i)
      BY <1>2, <3>1
    <3>3. ASSUME InKeyRules(masker, k), NEW n \in DOMAIN textRules[masker],
                 Meets(textRules[masker][n], i)
          PROVE  rule + 1 <= n
      <4>1. rule <= n /\ rule # n /\ n \in Nat
        BY <1>2, <1>9, <3>2, <3>3
      <4> QED
        BY <1>4, <4>1
    <3>4. \A n \in DOMAIN textRules[masker] :
            Meets(textRules[masker][n], i)' = Meets(textRules[masker][n], i)
      BY <1>1, <3>1 DEF Meets, Strings, HoldsQuotes, Spelled, Text
    <3> QED
      BY <1>1, <1>2, <1>4, <2>1, <3>1, <3>3, <3>4 DEF KeyAhead
  <2>4. ASSUME NEW j \in 1 .. Len(path) - 1, CutOpen(q, j)
        PROVE  FALSE
    <3>1. Meets(q, j) /\ HoldsQuotes(j + 1) /\ j > base
      <4>1. Meets(q, j) /\ HoldsQuotes(j + 1)
        BY <2>4 DEF CutOpen
      <4> QED
        BY <4>1, Zenon DEF Meets
    <3>2. j \in 1 .. Len(p) - 1 /\ j \in Nat
      BY <1>2, <1>3
    <3>3. ~(j < i) /\ p[j].in = "member"
      BY <1>11, <2>1, <3>1
    <3>4. CASE j = i
      <4>1. InKeyRules(masker, k)
        BY <1>6, <1>11, <2>1, <3>1, <3>4 DEF Naming, InKeyRules
      <4> QED
        BY <1>10, <3>1, <3>4, <4>1
    <3>5. CASE i < j
      <4>1. base < i
        <5>1. CASE InKeyRules(masker, k)
          BY <1>10, <5>1
        <5>2. CASE Head(todo) = "doc"
          <6>1. base = 1
            BY <1>1, <5>2 DEF CallInv, Maskers
          <6>2. i # base
            BY <1>3, <1>5
          <6> QED
            BY <1>3, <6>1, <6>2
        <5> QED
          BY <1>6, <5>1, <5>2
      <4>2. i + 1 \in Strings(j)
        BY <1>12, <3>2, <3>3, <3>5, <4>1
      <4>3. q.form \in {"string", "number", "escaped", "format", "absent"}
        BY <1>4, <2>1, TextRulesNamed
      <4>4. q.form = "escaped" /\ ~HoldsQuotes(j + 1)
        BY <3>1, <4>2, <4>3 DEF Meets
      <4> QED
        BY <3>1, <4>4
    <3> QED
      BY <1>3, <3>2, <3>3, <3>4, <3>5
  <2>5. ASSUME NEW j \in 1 .. Len(path) - 1, ReplaceKeyed(q, j)
        PROVE  KeyDone(i)'
    <3>1. /\ Meets(q, j) /\ path' = Append(SubSeq(path, 1, j), Bare)
          /\ content' = replaceMatch(q.repl, Spelled(Text(j + 1)))
      BY <2>5 DEF ReplaceKeyed, Put
    <3>2. ~(j < i) /\ \E r \in Naming(masker, p[j].key) : q.repl \in {r, [r EXCEPT !.template = FALSE]}
      BY <1>11, <2>1, <3>1
    <3>3. ASSUME route # "excerpt", NEW r \in Replacements, OnlyRule(i, r)
          PROVE  path' = Append(SubSeq(p, 1, i), Bare) /\ content' = Made(i, r)
      <4>1. InKeyRules(masker, k) /\ masker = "log"
        BY <1>4, <1>6, <3>3 DEF Maskers
      <4>2. base < i /\ ~Walked(route, p, i) /\ i + 1 = Len(p) /\ p[i + 1].in # "literal"
        BY <1>10, <4>1
      <4>3. j = i
        BY <1>2, <1>3, <3>2, <4>2
      <4>4. r = [r EXCEPT !.template = FALSE]
        BY <3>3 DEF OnlyRule, Replacements
      <4>5. q.repl = r
        BY <3>2, <3>3, <4>1, <4>3, <4>4 DEF OnlyRule
      <4>6. Text(i + 1) = Raw(v) /\ base < Len(path)
        BY <1>2, <1>3, <1>4, <1>7, <4>2 DEF Text
      <4>7. Spelled(Raw(v)) = Raw(Escaped[v])
        BY <4>6 DEF Spelled, Raw, Content
      <4>8. Made(i, r) = replaceScalar(r, Raw(Escaped[v]))
        BY <1>7, <4>2 DEF Made
      <4> QED
        BY <1>2, <3>1, <3>3, <4>3, <4>5, <4>6, <4>7, <4>8, PlainMatch DEF OnlyRule
    <3>4. \A r : OnlyRule(i, r)' = OnlyRule(i, r) /\ Made(i, r)' = Made(i, r)
      BY <1>1 DEF OnlyRule, Made
    <3> QED
      BY <1>1, <1>8, <3>1, <3>3, <3>4 DEF KeyDone
  <2> QED
    BY <2>1, <2>2, <2>3, <2>4, <2>5
<1> QED
  BY <1>13, <1>14

\* What the only rule of the key makes, it makes of a text.
LEMMA MadeOfText ==
    ASSUME IInv, NEW i \in 1 .. Len(given[1]) - 1, Covered(i), NEW repl \in Replacements
    PROVE  \E d \in Texts : Made(i, repl) \in {replaceScalar(repl, d), staticReplacement(repl)}
<1> DEFINE p == given[1]
           text == IF i + 1 = Len(p) THEN given[2] ELSE Raw(Document)
<1>1. PICK v \in Values : given[2] = Raw(v)
  BY GivenFacts
<1>2. PICK w \in Values : text = Raw(w) /\ text.of[1] = w
  <2>1. \A x : Raw(x).of[1] = x
    BY DEF Raw, Content
  <2>2. Document \in Values
    BY SpellingAssumption
  <2> QED
    BY <1>1, <2>1, <2>2
<1>3. text \in Texts /\ Raw(Escaped[text.of[1]]) \in Texts
  <2>1. Escaped[w] \in Values
    BY SpellingAssumption
  <2> QED
    BY <1>2, <2>1, MadeTexts
<1>4. ~Walked(route, p, i) => p[i + 1].in # "literal"
  BY DEF Covered, ReadAsText, InText
<1>5. CASE ~Walked(route, p, i)
  <2>1. Made(i, repl) = replaceScalar(repl, Raw(Escaped[text.of[1]]))
    BY <1>4, <1>5 DEF Made
  <2> QED
    BY <1>3, <2>1
<1>6. CASE Walked(route, p, i) /\ p[i + 1].in = "literal"
  <2>1. Made(i, repl) = staticReplacement(repl)
    BY <1>6 DEF Made
  <2> QED
    BY <1>3, <2>1
<1>7. CASE Walked(route, p, i) /\ p[i + 1].in # "literal"
  <2>1. Made(i, repl) = replaceScalar(repl, text)
    BY <1>7 DEF Made
  <2> QED
    BY <1>3, <2>1
<1> QED
  BY <1>5, <1>6, <1>7

\* What is masked stays as it is: the walk and the text rules come to the same
\* place, and make of what is there the same again.
LEMMA KeyStaysDone ==
    ASSUME IInv, [Next]_vars, NEW i \in 1 .. Len(given[1]) - 1, Covered(i), KeyDone(i)
    PROVE  KeyDone(i)'
<1> DEFINE p == given[1]
           k == given[1][i].key
           P == Append(SubSeq(given[1], 1, i), Bare)
<1>1. given' = given /\ route' = route
  BY GivenStays
<1>2. ~IsToken(given[2]) => content' \notin Shown'
  BY StaysHidden DEF KeyDone
<1>3. ASSUME route # "excerpt", FormatsSpareTokens, NEW repl \in Replacements, OnlyRule(i, repl)
      PROVE  path' = P /\ content' = Made(i, repl)
  <2> DEFINE c == Made(i, repl)
  <2>1. path = P /\ content = c
    BY <1>3 DEF KeyDone
  <2>2. /\ p[i].in = "member" /\ p[i] = Member(k) /\ Len(p) \in Nat /\ i \in Nat /\ i # 0
        /\ i \in 0 .. Len(p) - 1 /\ WellFormed(p) /\ route \notin Aside
    <3>1. p[i].in = "member" /\ p[i] = Member(k) /\ Len(p) \in Nat
      BY CoveredFacts
    <3>2. WellFormed(p) /\ route \notin Aside
      BY GivenFacts DEF Covered
    <3> QED
      BY <3>1, <3>2
  <2>3. /\ Len(P) = i + 1 /\ \A j \in 1 .. i : P[j] = p[j]
        /\ P[i + 1] = Bare
    BY <2>2, CutPath DEF Container
  <2>4. SubSeq(P, 1, i) = SubSeq(p, 1, i)
    <3>1. \A j \in 1 .. i : P[j] = p[j] /\ P[j] \in Layers
      <4>1. \A j \in 1 .. i : j \in 1 .. Len(p)
        BY <2>2
      <4> QED
        BY <2>2, <2>3, <4>1, Below
    <3> HIDE DEF P
    <3> QED
      BY <2>2, <3>1, SubSeqProperties
  <2>5. /\ replaceScalar(repl, c) = c /\ Spelled(c) = c /\ \A w : c = Raw(w) => w \in TokenLike
    <3>1. PICK d \in Texts : c \in {replaceScalar(repl, d), staticReplacement(repl)}
      BY MadeOfText
    <3> QED
      BY <1>3, <3>1, MadeAgain DEF OnlyRule
  <2>6. /\ masker = "log" /\ masker \in Maskers /\ repl = [repl EXCEPT !.template = FALSE]
        /\ Naming("log", k) = {repl}
    BY <1>3 DEF IInv, OnlyRule, Replacements, Maskers
  <2>7. Text(i + 1) = c
    BY <2>1, <2>3 DEF Text
  \* A member with a scalar that the log rules name is the one in layer i.
  <2>8. ASSUME NEW j \in 1 .. Len(path) - 1, path[j].in = "member", Scalar(path[j + 1]),
               Naming("log", path[j].key) # {}
        PROVE  j = i
    <3>1. j \in 1 .. i
      BY <2>1, <2>2, <2>3
    <3>2. ~(j < i)
      <4> SUFFICES ASSUME j < i PROVE FALSE
        OBVIOUS
      <4>1. j \in 1 .. i - 1 /\ j + 1 \in 1 .. i
        BY <2>2, <3>1
      <4>2. path[j] = p[j] /\ path[j + 1] = p[j + 1]
        BY <2>1, <2>3, <3>1, <4>1
      <4> QED
        BY <2>6, <2>8, <4>1, <4>2, CoveredFacts
    <3> QED
      BY <2>2, <3>1, <3>2
  <2>9. CASE UNCHANGED <<path, content>>
    BY <2>1, <2>9
  <2>10. CASE MaskScalar
    <3>1. /\ pc = "walk" /\ path[pos].in = "member" /\ RulesOf(path[pos].key) # {}
          /\ Scalar(path[pos + 1])
      BY <2>10 DEF MaskScalar, Ruled
    <3>2. pos \in 1 .. Len(path) - 1
      <4>1. pos \in base + 1 .. Len(path) - 1 /\ base \in Nat /\ Len(path) \in Nat
        BY <2>1, <2>2, <2>3, <3>1 DEF IInv, LineInv
      <4> QED
        BY <4>1
    <3>3. keyReplace(path[pos].key) \in Naming("log", path[pos].key)
      BY <2>6, <3>1, RuleHeld
    <3>4. pos = i
      BY <2>8, <3>1, <3>2, <3>3
    <3>5. path[i] = p[i] /\ path[i + 1] = Bare
      BY <2>1, <2>2, <2>3
    <3>6. keyReplace(path[pos].key) = repl
      BY <2>6, <3>3, <3>4, <3>5
    <3>7. path[pos + 1].in # "literal"
      BY <3>4, <3>5, NewLayers
    <3>8. /\ path' = Append(SubSeq(path, 1, i), Bare)
          /\ content' = replaceScalar(repl, Text(i + 1))
      BY <2>10, <3>4, <3>6, <3>7 DEF MaskScalar, Put
    <3> QED
      BY <2>1, <2>4, <2>5, <2>7, <3>8
  <2>11. CASE TextRule
    <3> DEFINE q == textRules[masker][rule]
    <3>1. /\ pc = "text" /\ rule \in DOMAIN textRules[masker]
          /\ \/ ReplaceFormat(q) \/ NoMatch(q)
             \/ \E j \in 1 .. Len(path) - 1 : ReplaceKeyed(q, j) \/ CutOpen(q, j)
      BY <2>11, TextStep
    <3>2. ASSUME NEW j \in 1 .. Len(path) - 1, Meets(q, j)
          PROVE  j = i /\ q.repl = repl
      <4>1. /\ path[j].in = "member" /\ Scalar(path[j + 1])
            /\ \E r \in Naming(masker, path[j].key) :
                  q.repl \in {r, [r EXCEPT !.template = FALSE]}
        BY <3>1, <3>2, MetMember
      <4>2. j = i
        BY <2>6, <2>8, <4>1
      <4>3. path[i] = p[i]
        BY <2>1, <2>2, <2>3
      <4> QED
        BY <2>6, <4>1, <4>2, <4>3
    <3>3. CASE ReplaceFormat(q)
      <4>1. q.form = "format" /\ \E w \in q.values : Spelled(content) = Raw(w)
        BY <3>3 DEF ReplaceFormat, Formatted
      <4>2. \E n \in DOMAIN Regexes : "values" \in DOMAIN Regexes[n] /\ q.values = Regexes[n].values
        BY <2>6, <3>1, <4>1, TextRulesNamed
      <4> QED
        <5>1. q.values \in Formats
          BY <4>2 DEF Formats
        <5> QED
          BY <1>3, <2>1, <2>5, <4>1, <5>1 DEF FormatsSpareTokens
    <3>4. CASE NoMatch(q)
      BY <2>9, <3>4 DEF NoMatch
    <3>5. ASSUME NEW j \in 1 .. Len(path) - 1, ReplaceKeyed(q, j)
          PROVE  path' = P /\ content' = c
      <4>1. /\ Meets(q, j) /\ path' = Append(SubSeq(path, 1, j), Bare)
            /\ content' = replaceMatch(q.repl, Spelled(Text(j + 1)))
        BY <3>5 DEF ReplaceKeyed, Put
      <4>2. j = i /\ q.repl = repl
        BY <3>2, <4>1
      <4> QED
        BY <1>3, <2>1, <2>4, <2>5, <2>7, <4>1, <4>2, PlainMatch DEF OnlyRule
    <3>6. ASSUME NEW j \in 1 .. Len(path) - 1, CutOpen(q, j)
          PROVE  FALSE
      <4>1. j = i /\ HoldsQuotes(i + 1)
        BY <3>2, <3>6 DEF CutOpen
      <4>2. i + 1 + 1 .. Len(path) = {}
        BY <2>1, <2>2, <2>3
      <4>3. \E w \in Quoted : content = Raw(w)
        BY <4>1, <4>2 DEF HoldsQuotes
      <4> QED
        BY <2>1, <2>5, <4>3, SpellingAssumption
    <3> QED
      BY <3>1, <3>3, <3>4, <3>5, <3>6
  <2>12. CASE Truncate
    <3>1. todo # <<>> /\ Head(todo) = "cut" /\ todo \in Ahead(route) /\ route \in Routes
      BY <2>12 DEF Truncate, Begin, IInv, StageInv
    <3>2. /\ Head(<<"log">>) = "log" /\ Head(<<"log", "log">>) = "log"
          /\ Head(<<"walk", "strings">>) = "walk" /\ Head(<<"strings">>) = "strings"
          /\ Head(<<"walk", "field">>) = "walk" /\ Head(<<"field">>) = "field"
      OBVIOUS
    <3> QED
      BY <1>3, <3>1, <3>2 DEF Ahead
  <2>13. CASE RewriteAround
    BY <2>2, <2>13 DEF RewriteAround
  <2>14. CASE ApplyLine \/ WalkSource \/ ApplyStrings \/ EndStage \/ Deliver
    BY <2>9, <2>14 DEF ApplyLine, WalkSource, ApplyStrings, EndStage, Deliver
  <2>15. CASE Descend \/ WalkEnds \/ EndText \/ Done \/ UNCHANGED vars
    BY <2>9, <2>15 DEF Descend, WalkEnds, EndText, Done, vars
  <2> QED
    BY <2>10, <2>11, <2>12, <2>13, <2>14, <2>15 DEF Next
<1>4. \A r : OnlyRule(i, r)' = OnlyRule(i, r) /\ Made(i, r)' = Made(i, r)
  BY <1>1 DEF OnlyRule, Made
<1> QED
  BY <1>1, <1>2, <1>3, <1>4 DEF KeyDone

\* At first no masker has come to the key.
LEMMA KeyInit == Init => KeyInv
<1> SUFFICES ASSUME Init, NEW i \in 1 .. Len(given[1]) - 1, Covered(i) PROVE KeyAhead(i)
  BY DEF KeyInv
<1>1. path = given[1] /\ content = given[2] /\ pc = "next" /\ todo = Stages(route)
  BY DEF Init
<1>2. todo # <<>> /\ Head(todo) # "cut" /\ Head(todo) \notin {"strings", "field"}
  BY FirstStages DEF Covered
<1>3. ~(route = "excerpt" /\ Head(todo) = "log")
  <2>1. Head(<<"doc", "log", "cut">>) = "doc"
    OBVIOUS
  <2> QED
    BY <1>1, <2>1 DEF Stages, Excerpt
<1> QED
  BY <1>1, <1>2, <1>3 DEF KeyAhead

\* The key stays ahead until it is done, and then stays done.
LEMMA KeyStep == IInv /\ CallInv /\ KeyInv /\ [Next]_vars => KeyInv'
<1> SUFFICES ASSUME IInv, CallInv, KeyInv, [Next]_vars,
                    NEW i \in 1 .. Len(given[1]) - 1, Covered(i)
             PROVE  KeyAhead(i)' \/ KeyDone(i)'
  BY GivenStays DEF KeyInv, Covered
<1>1. IInv'
  BY TypeStep
<1>2. CASE KeyDone(i)
  BY <1>2, KeyStaysDone
<1>3. CASE KeyAhead(i)
  <2>1. todo # <<>> /\ Head(todo) # "cut" /\ route \notin Aside
    BY <1>3 DEF KeyAhead, Covered
  <2>2. CASE ApplyLine \/ WalkSource \/ ApplyStrings \/ EndStage
    BY <1>1, <1>3, <2>2, KeyAtStages
  <2>3. CASE MaskScalar \/ Descend \/ WalkEnds
    BY <1>1, <1>3, <2>3, KeyInWalk
  <2>4. CASE TextRule \/ EndText
    BY <1>1, <1>3, <2>4, KeyInText
  <2>5. ~Truncate /\ ~RewriteAround /\ ~Deliver
    BY <2>1 DEF Truncate, Begin, RewriteAround, Deliver
  <2>6. CASE Done \/ UNCHANGED vars
    <3>1. UNCHANGED vars
      BY <2>6 DEF Done
    <3> QED
      BY <1>3, <3>1 DEF vars, KeyAhead, WalkAbove, Meets, Strings, HoldsQuotes, Spelled, Text
  <2> QED
    BY <2>2, <2>3, <2>4, <2>5, <2>6 DEF Next
<1> QED
  BY <1>2, <1>3 DEF KeyInv

\* At the end every masker has come to the key.
LEMMA KeyAtEnd ==
    ASSUME IInv, KeyInv, pc = "done", NEW i \in 1 .. Len(given[1]) - 1, Covered(i)
    PROVE  KeyDone(i)
<1>1. todo = <<>>
  BY DEF IInv, StageInv
<1> QED
  BY <1>1 DEF KeyInv, KeyAhead

\* A value under a key that rules replace in one way, and not by a template, arrives
\* as what they make of it, if no format of the log rules matches a token (walk,
\* applyTextRules).
THEOREM KeysMasked ==
    ASSUME FormatsSpareTokens
    PROVE  Spec => []KeyedIsMasked
<1>1. Init => IInv /\ CallInv /\ KeyInv
  BY TypeInit, CallsInit, KeyInit
<1>2. IInv /\ CallInv /\ KeyInv /\ [Next]_vars => (IInv /\ CallInv /\ KeyInv)'
  BY TypeStep, CallsInHand, KeyStep
<1>3. IInv /\ CallInv /\ KeyInv => KeyedIsMasked
  <2> SUFFICES ASSUME IInv, CallInv, KeyInv, pc = "done",
                      route \in {"line", "twice", "source", "field"},
                      NEW i \in Outermost({"log"}, given[1]), NEW repl \in Replacements,
                      Naming("log", given[1][i].key) = {repl},
                      InKeyRules("log", given[1][i].key), ~repl.template,
                      Walked(route, given[1], i) \/ ReadAsText(route, given[1], given[2], i)
               PROVE  Delivered = <<Append(SubSeq(given[1], 1, i), Bare), Made(i, repl)>>
    BY DEF KeyedIsMasked, Made
  <2>1. i \in 1 .. Len(given[1]) - 1
    BY DEF Outermost, Holders
  <2>2. Covered(i) /\ route # "excerpt"
    BY DEF Covered, Aside
  <2>3. KeyDone(i)
    BY <2>1, <2>2, KeyAtEnd
  <2>4. OnlyRule(i, repl)
    BY DEF OnlyRule
  <2> QED
    BY <2>2, <2>3, <2>4, DeliversThis DEF KeyDone
<1> QED
  BY <1>1, <1>2, <1>3, PTL DEF Spec

\* An excerpt shows no value that a rule covers, and no piece of one.
THEOREM ExcerptsMasked == Spec => []ExcerptIsMasked
<1>1. Init => IInv /\ CallInv /\ FormatInv /\ KeyInv
  BY TypeInit, CallsInit, FormatInit, KeyInit
<1>2. IInv /\ CallInv /\ FormatInv /\ KeyInv /\ [Next]_vars
        => (IInv /\ CallInv /\ FormatInv /\ KeyInv)'
  BY TypeStep, CallsInHand, FormatStep, KeyStep
<1>3. IInv /\ CallInv /\ FormatInv /\ KeyInv => ExcerptIsMasked
  <2> SUFFICES ASSUME IInv, CallInv, FormatInv, KeyInv,
                      pc = "done", route = "excerpt", ~IsToken(given[2]),
                      \/ \E b \in Line(route, given[1]) : HasFormat(given[1], given[2], b)
                      \/ \E i \in Outermost(Maskers, given[1]) :
                            /\ \E m \in Maskers : InKeyRules(m, given[1][i].key)
                            /\ \/ Walked(route, given[1], i)
                               \/ ReadAsText(route, given[1], given[2], i)
               PROVE  content \notin Shown
    BY DEF ExcerptIsMasked, Shown
  <2>1. CASE \E b \in Line(route, given[1]) : HasFormat(given[1], given[2], b)
    <3>1. Secret
      BY <2>1 DEF Secret, Aside
    <3>2. todo = <<>>
      BY DEF IInv, StageInv
    <3> QED
      BY <3>1, <3>2 DEF FormatInv, FormatAhead
  <2>2. ASSUME NEW i \in Outermost(Maskers, given[1]),
               \E m \in Maskers : InKeyRules(m, given[1][i].key),
               Walked(route, given[1], i) \/ ReadAsText(route, given[1], given[2], i)
        PROVE  content \notin Shown
    <3>1. i \in 1 .. Len(given[1]) - 1
      BY DEF Outermost, Holders
    <3>2. Covered(i)
      BY <2>2 DEF Covered, Aside
    <3> QED
      BY <3>1, <3>2, KeyAtEnd DEF KeyDone
  <2> QED
    BY <2>1, <2>2
<1> QED
  BY <1>1, <1>2, <1>3, PTL DEF Spec

-----------------------------------------------------------------------------
(* Lines that are masked twice.                                            *)

\* A text that a replacement and its line's spelling leave alone.
Fixed(repl, c) == replaceScalar(repl, c) = c /\ \A v \in Values : c = Raw(v) => v \in TokenLike

\* The value under the key in layer i is masked, and masking leaves it alone.
AtRest(i) ==
    /\ i + 1 = Len(path) /\ path[i + 1] = Bare
    /\ \A repl \in Naming("log", path[i].key) : Fixed(repl, content)

\* The walk would change nothing.
WalkAtRest ==
    \A i \in 1 .. Len(path) - 1 :
        /\ path[i].in = "member" /\ InKeyRules("log", path[i].key) /\ Scalar(path[i + 1])
        /\ Walked("twice", path, i)
        => AtRest(i)

\* Pattern n would change nothing.
PatternAtRest(n) ==
    /\ ~Formatted(textRules["log"][n])
    /\ \A i \in 1 .. Len(path) - 1 : Meets(textRules["log"][n], i) => AtRest(i)

\* The walk, and the patterns up to the one it is the turn of, would change nothing.
PassedAtRest ==
    WalkAtRest /\ \A n \in DOMAIN textRules["log"] : n < rule => PatternAtRest(n)

LineAtRest == WalkAtRest /\ \A n \in DOMAIN textRules["log"] : PatternAtRest(n)
Settled == base = 1 /\ (LineAtRest \/ (path[1] = Bare /\ content = Raw(Blank)))

\* The walk has passed no key of its rules, and only strings that it can decode.
WalkPast ==
    \A j \in 2 .. pos - 1 :
        /\ path[j].in = "string" => Decodable(path[j])
        /\ ~(path[j].in = "member" /\ InKeyRules("log", path[j].key) /\ Scalar(path[j + 1]))

\* The first pass comes to rest, and the second changes nothing.
TwiceInv ==
    route = "twice" =>
        /\ path[Len(path)].in = "literal" =>
              \E v \in Values : content = Raw(v) /\ Spells([in |-> "literal"], v)
        /\ pc = "walk" => WalkPast
        /\ Len(todo) = 2 /\ pc = "text" => PassedAtRest
        /\ Len(todo) = 2 /\ pc = "end" => Settled
        /\ Len(todo) = 1 => Settled
        /\ Len(todo) = 1 /\ pc \in {"walk", "text"} => LineAtRest
        /\ Len(todo) = 1 /\ pc # "next" => <<path, content>> = before
        /\ todo = <<>> => <<path, content>> = before

\* A value at rest reads the same in any string, and no quotation mark ends it.
LEMMA FixedReads ==
    ASSUME NEW c \in Texts, NEW repl, Fixed(repl, c)
    PROVE  /\ c.form = "raw" => Raw(Escaped[c.of[1]]) = c
           /\ \A w \in Quoted : c # Raw(w)
           /\ FormatsSpareTokens => \A f \in Formats : \A w \in f : c # Raw(w)
<1>1. \A w : Raw(w).form = "raw" /\ Raw(w).of[1] = w
  BY DEF Raw, Content
<1>2. c.form = "raw" => \E v \in Values : c = Raw(v) /\ v \in TokenLike /\ Escaped[v] = v
  BY SpellingAssumption DEF Texts, Fixed
<1>3. c.form = "raw" => Raw(Escaped[c.of[1]]) = c
  BY <1>1, <1>2
<1>4. \A w : c = Raw(w) => w \in TokenLike
  BY <1>1, <1>2
<1> QED
  BY <1>3, <1>4, SpellingAssumption DEF FormatsSpareTokens

\* What a replacement without words around its token makes is at rest.
LEMMA MadeFixed ==
    ASSUME NEW repl \in Replacements, ~repl.template, NEW d \in Texts, NEW c,
           c \in {replaceScalar(repl, d), staticReplacement(repl)}
    PROVE  Fixed(repl, c)
BY MadeAgain DEF Fixed

\* A value at rest is put where it is.
LEMMA RestPut ==
    ASSUME WellFormed(path), NEW i \in 1 .. Len(path) - 1, path[i].in = "member", AtRest(i)
    PROVE  Append(SubSeq(path, 1, i), Bare) = path
<1>1. Len(path) \in Nat /\ i \in Nat /\ i \in 0 .. Len(path) - 1 /\ i + 1 = Len(path)
      /\ path \in Seq(Layers)
  BY LenProperties DEF WellFormed, AtRest
<1> DEFINE q == Append(SubSeq(path, 1, i), Bare)
<1>2. /\ WellFormed(q) /\ Len(q) = i + 1 /\ \A j \in 1 .. i : q[j] = path[j]
      /\ q[i + 1] = Bare
  BY <1>1, CutPath DEF Container
<1> HIDE DEF q
<1>3. \A j \in 1 .. Len(path) : q[j] = path[j]
  BY <1>1, <1>2 DEF AtRest
<1>4. q \in Seq(Layers) /\ Len(q) = Len(path)
  BY <1>1, <1>2 DEF WellFormed
<1>5. q = path
  BY <1>1, <1>3, <1>4, SeqEqual
<1> QED
  BY <1>5 DEF q

\* What it means that a pattern meets a key.
LEMMA MeetsMeans ==
    ASSUME NEW q, q.form \in {"string", "number", "escaped", "format", "absent"},
           NEW i, Meets(q, i)
    PROVE  /\ i > base /\ path[i] = Member(q.key) /\ path[i].in = "member" /\ path[i].key = q.key
           /\ path[i + 1].in \in {"string", "number"} /\ q.form \notin {"format", "absent"}
           /\ path[i + 1].in = "number" => content.form = "raw"
           /\ q.form = "escaped" <=> Strings(i) # {}
           /\ \A s, t \in Strings(i) : s = t
           /\ q.form = "escaped" => ~HoldsQuotes(i + 1) /\ Spelled(Text(i + 1)) = Text(i + 1)
<1>1. i > base /\ path[i] = Member(q.key) /\ q.form \notin {"format", "absent"}
  BY Zenon DEF Meets
<1>2. path[i].in = "member" /\ path[i].key = q.key
  BY <1>1 DEF Member
<1>3. CASE q.form = "string"
  BY <1>1, <1>2, <1>3 DEF Meets
<1>4. CASE q.form = "number"
  BY <1>1, <1>2, <1>4 DEF Meets
<1>5. CASE q.form = "escaped"
  BY <1>1, <1>2, <1>5 DEF Meets
<1> QED
  BY <1>1, <1>3, <1>4, <1>5

\* A pattern meets a key, before a step and after it, in one of three forms.
MeetsAs(q, i) ==
    /\ i > base /\ path[i] = Member(q.key)
    /\ \/ q.form = "string" /\ path[i + 1].in = "string" /\ Strings(i) = {}
       \/ q.form = "number" /\ path[i + 1].in = "number" /\ Strings(i) = {} /\ content.form = "raw"
       \/ /\ q.form = "escaped" /\ path[i + 1].in = "string" /\ ~HoldsQuotes(i + 1)
          /\ \E j \in Strings(i) : Strings(i) = {j}
          /\ Spelled(Text(i + 1)) = Text(i + 1)

LEMMA MeetsForms ==
    ASSUME NEW q, q.form \in {"string", "number", "escaped", "format", "absent"}, NEW i
    PROVE  (Meets(q, i) <=> MeetsAs(q, i)) /\ (Meets(q, i)' <=> MeetsAs(q, i)')
<1>1. CASE q.form = "string"
  BY <1>1 DEF Meets, MeetsAs
<1>2. CASE q.form = "number"
  BY <1>2 DEF Meets, MeetsAs
<1>3. CASE q.form = "escaped"
  BY <1>3 DEF Meets, MeetsAs
<1>4. CASE q.form \in {"format", "absent"}
  BY <1>4 DEF Meets, MeetsAs
<1> QED
  BY <1>1, <1>2, <1>3, <1>4

\* Of two keys, the string under the outer one is around the inner one.
LEMMA OuterStrings ==
    ASSUME IInv, NEW i \in 1 .. Len(path) - 1, NEW j \in 1 .. Len(path) - 1, i < j, base < i,
           path[i + 1].in \in {"string", "number"}, path[j].in = "member"
    PROVE  /\ path[i + 1].in = "string" /\ i + 1 < j /\ i + 1 \in Strings(j) /\ i + 1 \notin Strings(i)
           /\ Strings(i) \subseteq Strings(j)
<1>1. WellFormed(path) /\ Len(path) \in Nat /\ base \in Nat
  BY LenProperties DEF IInv, LineInv, WellFormed
<1>2. i \in Nat /\ j \in Nat /\ i + 1 \in 1 .. Len(path) /\ i + 1 # Len(path)
  BY <1>1
<1>3. path[i + 1] \in Layers /\ ~Leaf(path[i + 1])
  BY <1>1, <1>2, Below
<1>4. path[i + 1].in = "string"
  BY <1>3, LayerKinds
<1>5. i + 1 # j
  BY <1>4
<1> QED
  BY <1>1, <1>2, <1>4, <1>5 DEF Strings

\* A pattern meets one key of the path at most.
LEMMA MeetsOnce ==
    ASSUME IInv, NEW q, q.form \in {"string", "number", "escaped", "format", "absent"},
           NEW i \in 1 .. Len(path) - 1, NEW j \in 1 .. Len(path) - 1, Meets(q, i), Meets(q, j)
    PROVE  i = j
<1>1. \A a, b \in 1 .. Len(path) - 1 : Meets(q, a) /\ Meets(q, b) => ~(a < b)
  <2> SUFFICES ASSUME NEW a \in 1 .. Len(path) - 1, NEW b \in 1 .. Len(path) - 1,
                      Meets(q, a), Meets(q, b), a < b
               PROVE  FALSE
    OBVIOUS
  <2>1. /\ a > base /\ path[a + 1].in \in {"string", "number"}
        /\ q.form = "escaped" <=> Strings(a) # {}
    BY MeetsMeans
  <2>2. /\ path[b].in = "member" /\ (q.form = "escaped" <=> Strings(b) # {})
        /\ \A s, t \in Strings(b) : s = t
    BY MeetsMeans
  <2>3. base < a
    BY <2>1 DEF IInv, LineInv
  <2>4. a + 1 \in Strings(b) /\ a + 1 \notin Strings(a) /\ Strings(a) \subseteq Strings(b)
    BY <2>1, <2>2, <2>3, OuterStrings
  <2> QED
    BY <2>1, <2>2, <2>4
<1>2. i \in Int /\ j \in Int
  BY LenProperties DEF IInv, WellFormed
<1> QED
  BY <1>1, <1>2

\* The patterns of the log rules.
LEMMA LogPatterns ==
    ASSUME NEW n \in DOMAIN textRules["log"]
    PROVE  /\ textRules["log"][n].form \in {"string", "number", "escaped", "format", "absent"}
           /\ textRules["log"][n].form = "format" => textRules["log"][n].values \in Formats
           /\ n \in Nat \ {0}
<1>1. "log" \in Maskers
  BY DEF Maskers
<1>2. DOMAIN textRules["log"] = 1 .. 3 * RuleCount("log")
  BY <1>1 DEF textRules
<1>3. textRules["log"][n].form = "format" => textRules["log"][n].values \in Formats
  BY <1>1, TextRulesNamed DEF Formats
<1>4. textRules["log"][n].form \in {"string", "number", "escaped", "format", "absent"}
  BY <1>1, TextRulesNamed
<1> QED
  BY <1>2, <1>3, <1>4

\* What has been put under a key is at rest.
LEMMA RestKeyed ==
    ASSUME IInv, IInv', pc = "text", masker = "log", OneReplacement, FormatsSpareTokens,
           PassedAtRest, rule \in DOMAIN textRules["log"], NEW j \in 1 .. Len(path) - 1,
           ReplaceKeyed(textRules["log"][rule], j)
    PROVE  PassedAtRest'
<1> DEFINE q == textRules["log"][rule]
           t == textRules["log"]
<1>1. /\ Meets(q, j) /\ path' = Append(SubSeq(path, 1, j), Bare)
      /\ content' = replaceMatch(q.repl, Spelled(Text(j + 1)))
      /\ rule' = rule + 1 /\ UNCHANGED <<masker, base>>
  BY DEF ReplaceKeyed, Put
<1>2. /\ path[j].in = "member" /\ Scalar(path[j + 1])
      /\ \E r \in Naming("log", path[j].key) : q.repl \in {r, [r EXCEPT !.template = FALSE]}
  BY <1>1, MetMember
<1>3. /\ WellFormed(path) /\ Len(path) \in Nat /\ j \in Nat /\ base \in Nat
      /\ j \in 1 .. Len(path) /\ j \in 0 .. Len(path) - 1
  BY LenProperties DEF IInv, LineInv, WellFormed
<1>4. /\ Len(path') = j + 1 /\ \A i \in 1 .. j : path'[i] = path[i]
      /\ path'[j + 1] = Bare
  BY <1>1, <1>2, <1>3, CutPath DEF Container
<1>5. \A r \in Naming("log", path[j].key) : Fixed(r, content')
  <2>1. PICK r \in Naming("log", path[j].key) : q.repl \in {r, [r EXCEPT !.template = FALSE]}
    BY <1>2
  <2>2. path[j].key \in Keys
    <3>1. path[j] \in Layers
      BY <1>3, Below
    <3> QED
      BY <1>2, <3>1, LayerKinds
  <2>3. ~r.template /\ \A s \in Naming("log", path[j].key) : s = r
    BY <2>1, <2>2 DEF OneReplacement
  <2>4. r \in Replacements
    BY <2>1, GivenRules DEF Naming, Maskers
  <2>5. q.repl = r
    BY <2>1, <2>3, <2>4 DEF Replacements
  <2>6. Spelled(Text(j + 1)) \in Texts
    <3>1. Text(j + 1) \in Texts
      BY SpellingAssumption, MadeTexts DEF Text, IInv
    <3> QED
      BY <3>1, MadeTexts
  <2>7. Fixed(r, content')
    BY <1>1, <2>3, <2>4, <2>5, <2>6, MadeFixed, PlainMatch
  <2> QED
    BY <2>3, <2>7
<1>6. AtRest(j)'
  BY <1>3, <1>4, <1>5 DEF AtRest
<1>7. ASSUME NEW i \in 1 .. j - 1, AtRest(i) PROVE FALSE
  BY <1>3, <1>7 DEF AtRest
<1>8. \A i \in 1 .. Len(path') - 1 : i = j \/ i \in 1 .. j - 1
  BY <1>3, <1>4
<1>9. WalkAtRest'
  <2> SUFFICES ASSUME NEW i \in 1 .. j - 1, path'[i].in = "member",
                      InKeyRules("log", path'[i].key), Scalar(path'[i + 1]),
                      Walked("twice", path', i)
               PROVE  FALSE
    BY <1>6, <1>8 DEF WalkAtRest
  <2>1. /\ i \in 1 .. j /\ i + 1 \in 1 .. j /\ 1 \in 1 .. j /\ i \in 1 .. Len(path) - 1
        /\ \A l \in 2 .. i - 1 : l \in 1 .. j
    BY <1>3
  <2>2. Walked("twice", path, i)
    <3>1. path'[1] = path[1] /\ \A l \in 2 .. i - 1 : path'[l] = path[l]
      BY <1>4, <2>1
    <3>2. StringsIn(path', 1, i) = StringsIn(path, 1, i) /\ StringsIn(path, 1, i) \subseteq 2 .. i - 1
      BY <3>1 DEF StringsIn
    <3> QED
      BY <3>1, <3>2 DEF Walked, InDocument
  <2>3. AtRest(i)
    BY <1>4, <2>1, <2>2 DEF PassedAtRest, WalkAtRest
  <2> QED
    BY <1>7, <2>3
<1>10. ASSUME NEW n \in DOMAIN t, n < rule + 1 PROVE PatternAtRest(n)'
  <2>1. /\ t[n].form \in {"string", "number", "escaped", "format", "absent"}
        /\ t[n].form = "format" => t[n].values \in Formats
    BY LogPatterns
  <2>2. ~Formatted(t[n])'
    <3>1. PICK r \in Naming("log", path[j].key) : Fixed(r, content')
      BY <1>2, <1>5
    <3>2. content' \in Texts
      BY DEF IInv
    <3>3. /\ content'.form = "raw" => Raw(Escaped[content'.of[1]]) = content'
          /\ \A f \in Formats : \A w \in f : content' # Raw(w)
      BY <3>1, <3>2, FixedReads
    <3> QED
      BY <2>1, <3>3 DEF Formatted, Spelled
  <2>3. ASSUME NEW i \in 1 .. j - 1, Meets(t[n], i)' PROVE FALSE
    <3>1. /\ i \in 1 .. j /\ i + 1 \in 1 .. j /\ i \in 1 .. Len(path) - 1 /\ i < j
          /\ \A l \in base + 1 .. i - 1 : l \in 1 .. j
      BY <1>3
    <3>2. path'[i] = path[i] /\ path'[i + 1] = path[i + 1] /\ Strings(i)' = Strings(i)
      BY <1>1, <1>4, <3>1 DEF Strings
    <3>3. MeetsAs(t[n], i)'
      BY <2>1, <2>3, MeetsForms
    <3>4. i > base /\ path[i] = Member(t[n].key) /\ path[i + 1].in \in {"string", "number"}
      BY <1>1, <3>2, <3>3 DEF MeetsAs
    <3>5. /\ path[i + 1].in = "string" /\ i + 1 \in Strings(j) /\ i + 1 \notin Strings(i)
          /\ Strings(i) \subseteq Strings(j)
      BY <1>2, <1>3, <3>1, <3>4, OuterStrings
    <3>6. q.form = "escaped" /\ Strings(i) = {}
      <4>1. /\ q.form = "escaped" <=> Strings(j) # {}
            /\ \A x, y \in Strings(j) : x = y
        BY <1>1, LogPatterns, MeetsMeans
      <4> QED
        BY <3>5, <4>1
    <3>7. t[n].form = "string"
      BY <3>2, <3>3, <3>5, <3>6 DEF MeetsAs
    <3>8. Meets(t[n], i) /\ n # rule
      <4>1. MeetsAs(t[n], i)
        BY <3>4, <3>5, <3>6, <3>7 DEF MeetsAs
      <4> QED
        BY <2>1, <3>6, <3>7, <4>1, MeetsForms
    <3>9. n < rule
      BY <1>10, <3>8, LogPatterns
    <3>10. AtRest(i)
      BY <3>1, <3>8, <3>9 DEF PassedAtRest, PatternAtRest
    <3> QED
      BY <1>7, <3>10
  <2> QED
    BY <1>6, <1>8, <2>2, <2>3 DEF PatternAtRest
<1> QED
  BY <1>1, <1>9, <1>10 DEF PassedAtRest

\* A line that is cut at its quotation mark has no key any more, and a format that
\* matches what is left of it would have matched before.
LEMMA RestCut ==
    ASSUME IInv, IInv', pc = "text", masker = "log", base = 1, FormatsReadPlain, PassedAtRest,
           path[Len(path)].in = "literal" =>
              \E v \in Values : content = Raw(v) /\ Spells([in |-> "literal"], v),
           rule \in DOMAIN textRules["log"], NEW j \in 1 .. Len(path) - 1,
           CutOpen(textRules["log"][rule], j), path' = Append(SubSeq(path, 1, base - 1), Bare)
    PROVE  PassedAtRest'
<1> DEFINE t == textRules["log"]
<1>1. Meets(t[rule], j) /\ content' = content /\ rule' = rule + 1 /\ UNCHANGED <<masker, base>>
  BY DEF CutOpen
<1>2. WellFormed(path) /\ Len(path) \in Nat /\ rule \in Nat
  BY LenProperties DEF IInv, WellFormed
<1>3. Len(path') = 1 /\ path'[1] = Bare
  <2>1. base - 1 = 0 /\ 0 \in 0 .. Len(path) - 1
    BY <1>2
  <2>2. path' = Append(SubSeq(path, 1, 0), Bare)
    BY <2>1
  <2>3. Len(path') = 0 + 1 /\ path'[0 + 1] = Bare
    BY <1>2, <2>1, <2>2, CutPath
  <2> QED
    BY <2>3
<1>4. 1 .. Len(path') - 1 = {}
  BY <1>3
<1>5. ASSUME NEW n \in DOMAIN t, n < rule + 1, Formatted(t[n])' PROVE FALSE
  <2>1. /\ t[n].form = "format" /\ t[n].values \in Formats /\ n \in Nat
    BY <1>5, LogPatterns DEF Formatted
  <2>2. PICK v \in t[n].values : content = Raw(v)
    BY <1>1, <1>3, <1>5 DEF Formatted, Spelled
  <2>3. Raw(v).form = "raw" /\ Raw(v).of[1] = v
    BY DEF Raw, Content
  <2>4. v \in Values
    <3>1. PICK w \in Values : content = Raw(w)
      BY <2>2, <2>3 DEF IInv, Texts
    <3> QED
      BY <2>2, <2>3, <3>1 DEF Raw, Content
  <2>5. Escaped[v] = v
    BY <2>1, <2>4 DEF FormatsReadPlain
  <2>6. Spelled(content) = Raw(v)
    BY <2>2, <2>3, <2>5 DEF Spelled
  <2>7. path[Len(path)].in # "literal"
    <3> SUFFICES ASSUME path[Len(path)].in = "literal" PROVE FALSE
      OBVIOUS
    <3>1. PICK w \in Values : content = Raw(w) /\ Spells([in |-> "literal"], w)
      OBVIOUS
    <3>2. w = v
      BY <2>2, <2>3, <3>1 DEF Raw, Content
    <3> QED
      BY <2>1, <3>1, <3>2 DEF FormatsReadPlain
  <2>8. Formatted(t[n])
    BY <2>1, <2>6, <2>7 DEF Formatted
  <2>9. n # rule
    BY <1>1, <2>1, LogPatterns, MeetsMeans
  <2>10. n < rule
    BY <1>2, <1>5, <2>1, <2>9
  <2> QED
    BY <2>8, <2>10 DEF PassedAtRest, PatternAtRest
<1> QED
  BY <1>1, <1>4, <1>5 DEF PassedAtRest, WalkAtRest, PatternAtRest

\* Where a path keeps its kinds of layers, and its members unless a string below
\* them is lost, a pattern meets nothing that it did not meet before.
LEMMA RestRelabel ==
    ASSUME IInv, IInv', pc = "text", masker = "log", PassedAtRest,
           rule \in DOMAIN textRules["log"], NEW j \in 1 .. Len(path) - 1,
           CutOpen(textRules["log"][rule], j), j + 1 # Len(path),
           path' = [path EXCEPT ![j] = Element, ![j + 1] = String("lost")]
    PROVE  PassedAtRest'
<1> DEFINE t == textRules["log"]
<1>1. Meets(t[rule], j) /\ content' = content /\ rule' = rule + 1 /\ UNCHANGED <<masker, base>>
      /\ HoldsQuotes(j + 1)
  BY DEF CutOpen
<1>2. WellFormed(path) /\ Len(path) \in Nat /\ rule \in Nat /\ j \in Nat
      /\ DOMAIN path = 1 .. Len(path) /\ j \in 1 .. Len(path) /\ j + 1 \in 1 .. Len(path)
      /\ base \in Nat
  BY LenProperties DEF IInv, LineInv, WellFormed
<1>3. path[j].in = "member" /\ path[j + 1].in \in {"string", "number"} /\ j > base
  BY <1>1, LogPatterns, MeetsMeans
<1>4. path[j + 1].in = "string"
  <2>1. path[j + 1] \in Layers /\ ~Leaf(path[j + 1])
    BY <1>2, Below
  <2> QED
    BY <1>3, <2>1, LayerKinds
<1>5. /\ path'[j] = Element /\ path'[j + 1] = String("lost")
      /\ \A i \in 1 .. Len(path) : i # j /\ i # j + 1 => path'[i] = path[i]
  BY <1>2
<1>6. Len(path') = Len(path)
  <2>1. DOMAIN path' = DOMAIN path
    OBVIOUS
  <2>2. path' \in Seq(Layers)
    BY DEF IInv, WellFormed
  <2>3. DOMAIN path' = 1 .. Len(path') /\ Len(path') \in Nat
    <3> HIDE DEF Layers
    <3> QED
      BY <2>2, LenProperties
  <2> DEFINE M == Len(path')
             N == Len(path)
  <2>4. N \in Nat /\ M \in Nat /\ 1 .. M = 1 .. N
    BY <1>2, <2>1, <2>3
  <2> HIDE DEF M, N
  <2>5. M = N
    BY <2>4
  <2> QED
    BY <2>5 DEF M, N
<1>7. /\ Element.in = "element" /\ String("lost").in = "string" /\ ~Decodable(String("lost"))
      /\ String("lost").as = "lost" /\ String("lost") # String("json")
  BY DEF Element, String, Decodable
<1>8. ASSUME NEW i \in 1 .. Len(path) - 1, path'[i].in = "member"
      PROVE  i # j /\ path'[i] = path[i] /\ (i # j + 1 => path'[i] = path[i]) /\ i # j + 1
  BY <1>2, <1>5, <1>7, <1>8
<1>9. ASSUME NEW i \in 1 .. Len(path) - 1, AtRest(i), path[i].in = "member", i # j
      PROVE  AtRest(i)'
  <2>1. i + 1 = Len(path) /\ path[i + 1] = Bare
    BY <1>9 DEF AtRest
  <2>2. i # j + 1
    BY <1>4, <1>9
  <2>3. path'[i] = path[i] /\ path'[i + 1] = path[i + 1]
    <3> DEFINE N == Len(path)
    <3>1. N \in Nat /\ j \in 1 .. N - 1 /\ j + 1 # N
      BY <1>2
    <3> HIDE DEF N
    <3>2. i \in 1 .. N /\ i + 1 \in 1 .. N /\ i # j /\ i # j + 1
      BY <1>9, <2>1, <2>2, <3>1 DEF N
    <3>3. i + 1 = N /\ i + 1 # j /\ i + 1 # j + 1
      BY <1>9, <2>1, <3>1 DEF N
    <3> QED
      BY <1>5, <3>2, <3>3, Zenon DEF N
  <2> QED
    BY <1>1, <1>6, <1>9, <2>1, <2>3 DEF AtRest
<1>10. WalkAtRest'
  <2> SUFFICES ASSUME NEW i \in 1 .. Len(path) - 1, path'[i].in = "member",
                      InKeyRules("log", path'[i].key), Scalar(path'[i + 1]),
                      Walked("twice", path', i)
               PROVE  AtRest(i)'
    BY <1>6 DEF WalkAtRest
  <2>1. i # j /\ path'[i] = path[i]
    BY <1>8
  <2>2. Scalar(path[i + 1])
    <3>1. i + 1 # j /\ i + 1 # j + 1
      BY <1>2, <1>5, <1>7, <2>1 DEF Scalar
    <3>2. i + 1 \in 1 .. Len(path)
      <4> DEFINE N == Len(path)
      <4>1. N \in Nat /\ i \in 1 .. N - 1
        BY <1>2
      <4> HIDE DEF N
      <4>2. i + 1 \in 1 .. N
        BY <4>1
      <4> QED
        BY <4>2 DEF N
    <3> QED
      BY <1>5, <3>1, <3>2
  <2>3. Walked("twice", path, i)
    <3> DEFINE N == Len(path)
    <3>1. N \in Nat /\ i \in 1 .. N - 1 /\ j \in 1 .. N
      BY <1>2
    <3>2. 1 \in 1 .. N /\ \A l \in 2 .. i - 1 : l \in 1 .. N
      <4> HIDE DEF N
      <4> QED
        BY <3>1
    <3>3. ASSUME NEW l \in 2 .. i - 1, path[l].in = "string" PROVE path'[l] = path[l]
      <4>1. l \in 1 .. Len(path) /\ l # j
        BY <1>3, <3>2, <3>3
      <4>2. l # j + 1
        BY <1>5, <1>7, <3>3 DEF Walked, InDocument, StringsIn
      <4> QED
        BY <1>5, <4>1, <4>2
    <3>4. path[1] = String("json")
      <4>1. path'[1] = String("json")
        BY DEF Walked
      <4>2. 1 # j /\ 1 # j + 1
        BY <1>5, <1>7, <4>1 DEF String
      <4>3. path'[1] = path[1]
        BY <1>5, <3>2, <4>2
      <4> QED
        BY <4>1, <4>3
    <3>5. \A l \in StringsIn(path, 1, i) : path[l].as \in {"json", "mixed"}
      <4> SUFFICES ASSUME NEW l \in 2 .. i - 1, path[l].in = "string"
                   PROVE  path[l].as \in {"json", "mixed"}
        BY DEF StringsIn
      <4>1. path'[l] = path[l]
        BY <3>3
      <4>2. path'[l].in = "string" => path'[l].as \in {"json", "mixed"}
        BY DEF Walked, InDocument, StringsIn
      <4> QED
        BY <4>1, <4>2
    <3> QED
      BY <3>4, <3>5 DEF Walked, InDocument
  <2>4. AtRest(i)
    BY <2>1, <2>2, <2>3 DEF PassedAtRest, WalkAtRest
  <2> QED
    BY <1>9, <2>1, <2>4
<1>11. ASSUME NEW n \in DOMAIN t, n < rule + 1 PROVE PatternAtRest(n)'
  <2>1. /\ t[n].form \in {"string", "number", "escaped", "format", "absent"} /\ n \in Nat
    BY LogPatterns
  <2>2. n < rule \/ n = rule
    BY <1>2, <1>11, <2>1
  <2>3. ~Formatted(t[n])'
    <3>1. path'[Len(path')] = path[Len(path)]
      BY <1>2, <1>5, <1>6
    <3>2. Formatted(t[n])' => Formatted(t[n])
      BY <1>1, <1>6, <3>1 DEF Formatted, Spelled
    <3>3. ~Formatted(t[rule])
      BY <1>1, LogPatterns, MeetsMeans DEF Formatted
    <3> QED
      BY <2>2, <3>2, <3>3 DEF PassedAtRest, PatternAtRest
  <2>4. ASSUME NEW i \in 1 .. Len(path) - 1, Meets(t[n], i)' PROVE AtRest(i)'
    <3>1. MeetsAs(t[n], i)'
      BY <2>1, <2>4, MeetsForms
    <3>2. path'[i].in = "member"
      BY <3>1 DEF MeetsAs, Member
    <3>3. i # j /\ i # j + 1 /\ path'[i] = path[i] /\ i \in Nat
      BY <1>8, <3>2
    <3>4. path'[i + 1].in \in {"string", "number"}
      BY <3>1 DEF MeetsAs
    <3>5. i + 1 # j /\ path'[i + 1].in = path[i + 1].in
      BY <1>2, <1>4, <1>5, <1>7, <3>3, <3>4
    <3>6. Strings(i)' = Strings(i)
      <4>1. \A l \in base + 1 .. i - 1 : path'[l].in = "string" <=> path[l].in = "string"
        BY <1>2, <1>3, <1>4, <1>5, <1>7
      <4> QED
        BY <1>1, <4>1 DEF Strings
    <3>7. HoldsQuotes(i + 1) => HoldsQuotes(i + 1)'
      <4> DEFINE N == Len(path)
      <4>1. N \in Nat /\ j \in 1 .. N /\ j + 1 \in 1 .. N /\ i \in Nat
        BY <1>2, <3>3
      <4>2. ASSUME NEW l \in i + 1 + 1 .. Len(path), path[l].in \in {"member", "string"}
            PROVE  \E m \in i + 1 + 1 .. Len(path') : path'[m].in \in {"member", "string"}
        <5>1. CASE l = j \/ l = j + 1
          <6>1. j + 1 \in i + 1 + 1 .. Len(path')
            <7>1. l \in i + 1 + 1 .. N
              BY <4>2
            <7> HIDE DEF N
            <7>2. j + 1 \in i + 1 + 1 .. N
              BY <4>1, <5>1, <7>1
            <7> QED
              BY <1>6, <7>2 DEF N
          <6> QED
            BY <1>5, <1>7, <6>1
        <5>2. CASE l # j /\ l # j + 1
          <6>1. l \in 1 .. Len(path) /\ l \in i + 1 + 1 .. Len(path')
            <7>1. l \in i + 1 + 1 .. N
              BY <4>2
            <7> HIDE DEF N
            <7>2. l \in 1 .. N
              BY <4>1, <7>1
            <7> QED
              BY <1>6, <7>1, <7>2 DEF N
          <6> QED
            BY <1>5, <4>2, <5>2, <6>1
        <5> QED
          BY <5>1, <5>2
      <4> QED
        BY <1>1, <1>6, <4>2 DEF HoldsQuotes
    <3>8. Text(i + 1)' = Text(i + 1) /\ Spelled(Text(i + 1))' = Spelled(Text(i + 1))
      BY <1>1, <1>6 DEF Text, Spelled
    <3>9. MeetsAs(t[n], i)
      BY <1>1, <3>1, <3>3, <3>5, <3>6, <3>7, <3>8 DEF MeetsAs
    <3>10. Meets(t[n], i)
      BY <2>1, <3>9, MeetsForms
    <3>11. n # rule
      BY <1>1, <2>1, <3>3, <3>10, MeetsOnce
    <3>12. AtRest(i) /\ path[i].in = "member"
      BY <2>2, <3>2, <3>3, <3>10, <3>11 DEF PassedAtRest, PatternAtRest
    <3> QED
      BY <1>9, <3>3, <3>12
  <2> QED
    BY <1>6, <2>3, <2>4 DEF PatternAtRest
<1> QED
  BY <1>1, <1>10, <1>11 DEF PassedAtRest

\* A format that matches makes a text that reads the same in any string, and it
\* has met no text that a string spells differently.
LEMMA RestFormatted ==
    ASSUME IInv, FormatsSpareTokens, FormatsReadPlain, NEW p, p.form = "format" => p.values \in Formats,
           Formatted(p)
    PROVE  /\ \E v \in Values : content = Raw(v) /\ v \notin Quoted /\ v \in p.values
           /\ Spelled(content) = content
           /\ replaceMatch(p.repl, Spelled(content)).form # "raw"
<1>1. \A v : Raw(v).form = "raw" /\ Raw(v).of[1] = v
  BY DEF Raw, Content
<1>2. PICK v \in p.values : Spelled(content) = Raw(v)
  BY DEF Formatted
<1>3. p.values \in Formats
  BY DEF Formatted
<1>4. content.form = "raw"
  BY <1>1, <1>2 DEF Spelled
<1>5. PICK w \in Values : content = Raw(w)
  BY <1>4 DEF IInv, Texts
<1>6. v \in {w, Escaped[w]}
  BY <1>1, <1>2, <1>5 DEF Spelled
<1>7. Escaped[w] = w /\ w \notin Quoted /\ w \notin TokenLike /\ v = w
  BY <1>3, <1>5, <1>6 DEF FormatsReadPlain, FormatsSpareTokens
<1>8. ~IsToken(content)
  BY <1>1, <1>5, <1>7 DEF IsToken
<1>9. replaceMatch(p.repl, content).form # "raw"
  BY <1>8 DEF replaceMatch, replaceScalar, expand, hashOrSkip, Around, Stars, Static, Content
<1> QED
  BY <1>2, <1>5, <1>7, <1>9

\* What a format matches is not at rest.
LEMMA RestNotFormatted ==
    ASSUME IInv, FormatsSpareTokens, FormatsReadPlain, NEW p, p.form = "format" => p.values \in Formats,
           Formatted(p), NEW i, Naming("log", path[i].key) # {}
    PROVE  ~AtRest(i)
<1>1. PICK v \in Values : content = Raw(v) /\ v \in p.values
  BY RestFormatted
<1>2. p.values \in Formats /\ content \in Texts
  BY DEF Formatted, IInv
<1>3. ASSUME NEW repl, Fixed(repl, content) PROVE FALSE
  BY <1>1, <1>2, <1>3, FixedReads
<1> QED
  BY <1>3 DEF AtRest

\* After a format has been replaced no pattern up to it meets the value.
LEMMA RestFormat ==
    ASSUME IInv, IInv', pc = "text", masker = "log", FormatsSpareTokens, FormatsReadPlain,
           PassedAtRest, rule \in DOMAIN textRules["log"], ReplaceFormat(textRules["log"][rule])
    PROVE  PassedAtRest'
<1> DEFINE t == textRules["log"]
           N == Len(path)
<1>1. /\ Formatted(t[rule]) /\ content' = replaceMatch(t[rule].repl, Spelled(content))
      /\ rule' = rule + 1 /\ UNCHANGED <<masker, base>>
      /\ path' = [i \in DOMAIN path |->
                  IF /\ path[Len(path)].in = "number" /\ path[i].in = "string"
                     /\ \A j \in i + 1 .. Len(path) : path[j].in # "string"
                  THEN String("lost") ELSE path[i]]
  BY DEF ReplaceFormat
<1>2. WellFormed(path) /\ N \in Nat /\ rule \in Nat /\ DOMAIN path = 1 .. N /\ base \in Nat
  BY LenProperties DEF IInv, LineInv, WellFormed
<1>3. t[rule].form = "format" /\ t[rule].values \in Formats
  BY <1>1, LogPatterns DEF Formatted
<1>4. /\ \E v \in Values : content = Raw(v) /\ v \notin Quoted
      /\ Spelled(content) = content /\ content'.form # "raw"
  BY <1>1, <1>3, RestFormatted
<1>5. ASSUME NEW i \in 1 .. N - 1, InKeyRules("log", path[i].key), AtRest(i) PROVE FALSE
  <2>1. Naming("log", path[i].key) # {}
    BY <1>5 DEF InKeyRules, Naming
  <2> QED
    BY <1>1, <1>3, <1>5, <2>1, RestNotFormatted
<1>6. ASSUME NEW i \in 1 .. N - 1, NEW n \in DOMAIN t, Meets(t[n], i), AtRest(i) PROVE FALSE
  <2>1. Naming("log", path[i].key) # {}
    <3>1. /\ t[n].form \in {"string", "number", "escaped", "format", "absent"}
          /\ path[i].key = t[n].key /\ t[n].form \notin {"format", "absent"}
      BY <1>6, LogPatterns, MeetsMeans
    <3> QED
      BY <3>1, TextRulesNamed DEF Maskers
  <2> QED
    BY <1>1, <1>3, <1>6, <2>1, RestNotFormatted
<1>7. /\ DOMAIN path' = 1 .. N
      /\ \A i \in 1 .. N : path'[i] = path[i] \/ (path[i].in = "string" /\ path'[i] = String("lost"))
  BY <1>1, <1>2
<1>8. Len(path') = N
  <2>1. path' \in Seq(Layers)
    BY DEF IInv, WellFormed
  <2>2. DOMAIN path' = 1 .. Len(path') /\ Len(path') \in Nat
    <3> HIDE DEF Layers
    <3> QED
      BY <2>1, LenProperties
  <2> DEFINE M == Len(path')
  <2>3. M \in Nat /\ 1 .. M = 1 .. N
    BY <1>7, <2>2
  <2> HIDE DEF M, N
  <2>4. M = N
    BY <1>2, <2>3
  <2> QED
    BY <2>4 DEF M
<1>9. String("lost").in = "string" /\ String("lost").as = "lost" /\ String("lost") # String("json")
  BY DEF String
<1>10. ASSUME NEW i \in 1 .. N
       PROVE  /\ path'[i].in = path[i].in
              /\ path'[i] = path[i] \/ path'[i].as = "lost"
              /\ path[i].in # "string" => path'[i] = path[i]
  BY <1>7, <1>9
<1>11. ASSUME NEW i \in 1 .. N - 1
       PROVE  i \in 1 .. N /\ i + 1 \in 1 .. N /\ i \in Nat /\ 1 \in 1 .. N
              /\ \A l : (l \in 2 .. i - 1 \/ l \in base + 1 .. i - 1 \/ l \in i + 1 .. N) => l \in 1 .. N
  <2> HIDE DEF N
  <2> QED
    BY <1>2
<1>12. WalkAtRest'
  <2> SUFFICES ASSUME NEW i \in 1 .. N - 1, path'[i].in = "member",
                      InKeyRules("log", path'[i].key), Scalar(path'[i + 1]),
                      Walked("twice", path', i)
               PROVE  FALSE
    BY <1>8 DEF WalkAtRest
  <2>1. path'[i] = path[i] /\ path[i].in = "member" /\ Scalar(path[i + 1])
    BY <1>10, <1>11 DEF Scalar
  <2>2. Walked("twice", path, i)
    <3>1. ASSUME NEW l \in 2 .. i - 1, path[l].in = "string" PROVE path'[l] = path[l]
      <4>1. l \in 1 .. N
        BY <1>11
      <4>2. path'[l].in = "string" => path'[l].as \in {"json", "mixed"}
        BY DEF Walked, InDocument, StringsIn
      <4> QED
        BY <1>10, <3>1, <4>1, <4>2
    <3>2. path[1] = String("json")
      BY <1>7, <1>9, <1>11 DEF Walked
    <3> QED
      BY <3>1, <3>2 DEF Walked, InDocument, StringsIn
  <2>3. AtRest(i)
    BY <2>1, <2>2 DEF PassedAtRest, WalkAtRest
  <2> QED
    BY <1>5, <2>1, <2>3
<1>13. ASSUME NEW n \in DOMAIN t, n < rule + 1 PROVE PatternAtRest(n)'
  <2>1. /\ t[n].form \in {"string", "number", "escaped", "format", "absent"} /\ n \in Nat
    BY LogPatterns
  <2>2. ~Formatted(t[n])'
    <3>1. \A w : Raw(w).form = "raw"
      BY DEF Raw, Content
    <3> QED
      BY <1>4, <3>1 DEF Formatted, Spelled
  <2>3. ASSUME NEW i \in 1 .. N - 1, Meets(t[n], i)' PROVE FALSE
    <3>1. MeetsAs(t[n], i)'
      BY <2>1, <2>3, MeetsForms
    <3>2. path'[i].in = "member" /\ t[n].form # "format" /\ t[n].form # "number"
      BY <1>4, <3>1 DEF MeetsAs, Member
    <3>3. path'[i] = path[i] /\ path'[i + 1].in = path[i + 1].in
      BY <1>10, <1>11, <3>2
    <3>4. Strings(i)' = Strings(i)
      <4>1. \A l \in base + 1 .. i - 1 : path'[l].in = "string" <=> path[l].in = "string"
        BY <1>10, <1>11
      <4> QED
        BY <1>1, <4>1 DEF Strings
    <3>5. HoldsQuotes(i + 1) => HoldsQuotes(i + 1)'
      <4>1. \A w \in Quoted : content # Raw(w)
        <5>1. \A w, v : Raw(w) = Raw(v) => w = v
          BY DEF Raw, Content
        <5> QED
          BY <1>4, <5>1
      <4>2. \A l \in i + 1 + 1 .. N : path'[l].in = path[l].in
        BY <1>2, <1>10, <1>11
      <4> QED
        BY <1>8, <4>1, <4>2 DEF HoldsQuotes
    <3>6. Spelled(Text(i + 1)) # Text(i + 1) => (Spelled(Text(i + 1)) # Text(i + 1))'
      BY <1>1, <1>4, <1>8 DEF Text, Spelled
    <3>7. Meets(t[n], i)
      <4>1. MeetsAs(t[n], i)
        BY <1>1, <3>1, <3>2, <3>3, <3>4, <3>5, <3>6 DEF MeetsAs
      <4> QED
        BY <2>1, <4>1, MeetsForms
    <3>8. n < rule
      BY <1>2, <1>3, <1>13, <2>1, <3>2
    <3> QED
      BY <1>6, <3>7, <3>8 DEF PassedAtRest, PatternAtRest
  <2> QED
    BY <1>8, <2>2, <2>3 DEF PatternAtRest
<1> QED
  BY <1>1, <1>12, <1>13 DEF PassedAtRest

\* What stands as it stood is at rest as before.
LEMMA RestStays ==
    ASSUME UNCHANGED <<path, content, base>>
    PROVE  /\ WalkAtRest' = WalkAtRest /\ LineAtRest' = LineAtRest /\ Settled' = Settled
           /\ \A n : PatternAtRest(n)' = PatternAtRest(n)
<1>1. \A i : AtRest(i)' = AtRest(i)
  BY DEF AtRest
<1>2. WalkAtRest' = WalkAtRest
  BY <1>1 DEF WalkAtRest
<1>3. \A p, i : Meets(p, i)' = Meets(p, i)
  BY DEF Meets, Strings, HoldsQuotes, Spelled, Text
<1>4. \A p : Formatted(p)' = Formatted(p)
  BY DEF Formatted, Spelled
<1>5. \A n : PatternAtRest(n)' = PatternAtRest(n)
  BY <1>1, <1>3, <1>4 DEF PatternAtRest
<1>6. LineAtRest' = LineAtRest
  BY <1>2, <1>5 DEF LineAtRest
<1> QED
  BY <1>2, <1>5, <1>6 DEF Settled

\* The stages, the masker and the line of a value that is masked twice.
LEMMA TwiceFacts ==
    ASSUME IInv, CallInv, route = "twice"
    PROVE  /\ todo \in {<<"log", "log">>, <<"log">>, <<>>}
           /\ todo # <<>> => Head(todo) = "log"
           /\ todo = <<"log", "log">> => Len(todo) = 2 /\ Tail(todo) = <<"log">>
           /\ todo = <<"log">> => Len(todo) = 1 /\ Tail(todo) = <<>>
           /\ todo = <<>> => Len(todo) = 0 /\ pc \in {"next", "done"}
           /\ masker = "log" /\ path[1].in = "string"
           /\ pc \in {"walk", "text"} => base = 1
           /\ pc = "walk" => rule = 1 /\ path[1] = String("json")
           /\ 1 \in 1 .. Len(path) /\ path[1] \in Layers
<1>1. todo \in {<<"log", "log">>, <<"log">>, <<>>}
  BY DEF IInv, StageInv, Ahead
<1>2. masker = "log" /\ path[1].in = "string"
  BY DEF IInv, StageInv, Maskers
<1>3. todo # <<>> => Head(todo) = "log"
  BY <1>1
<1>4. todo = <<>> => pc \in {"next", "done"}
  BY DEF IInv, StageInv
<1>5. pc \in {"walk", "text"} => base = 1
  BY <1>3, <1>4 DEF CallInv, Maskers
<1>6. 1 \in 1 .. Len(path) /\ path[1] \in Layers
  <2>1. Len(path) \in Nat /\ Len(path) # 0
    BY LenProperties, EmptySeq DEF IInv, WellFormed
  <2>2. 1 \in 1 .. Len(path)
    BY <2>1
  <2> QED
    BY <2>2, Below DEF IInv
<1>7. pc = "walk" => rule = 1 /\ path[1] = String("json")
  BY <1>2, <1>5, <1>6, LayerKinds DEF CallInv
<1>8. /\ Len(<<"log", "log">>) = 2 /\ Tail(<<"log", "log">>) = <<"log">>
      /\ Len(<<"log">>) = 1 /\ Tail(<<"log">>) = <<>> /\ Len(<<>>) = 0
  OBVIOUS
<1> QED
  BY <1>1, <1>2, <1>3, <1>4, <1>5, <1>6, <1>7, <1>8

\* The stages begin and end where the value is at rest.
LEMMA TwiceStages ==
    ASSUME IInv, CallInv, TwiceInv, route = "twice", ApplyLine \/ EndStage \/ Deliver
    PROVE  TwiceInv'
<1>1. CASE ApplyLine
  <2>1. /\ pc = "next" /\ todo # <<>> /\ before' = <<path, content>> /\ BeginApply(1)
        /\ UNCHANGED <<path, content, route, todo>>
    BY <1>1 DEF ApplyLine, Begin
  <2>2. /\ base' = 1 /\ rule' = 1 /\ pos' = 2
        /\ \/ pc' = "end" /\ path[1] = Bare /\ content = Raw(Blank)
           \/ pc' = "walk" /\ ~(path[1] = Bare /\ content = Raw(Blank))
           \/ pc' = "text" /\ ~(path[1] = Bare /\ content = Raw(Blank)) /\ path[1].as # "json"
    <3>1. base' = 1 /\ rule' = 1 /\ pos' = 1 + 1
      BY <2>1 DEF BeginApply
    <3>2. CASE path[1] = Bare /\ content = Raw(Blank)
      BY <2>1, <3>1, <3>2 DEF BeginApply, Bare, String
    <3>3. CASE ~(path[1] = Bare /\ content = Raw(Blank)) /\ path[1].as = "json"
      BY <2>1, <3>1, <3>3 DEF BeginApply
    <3>4. CASE ~(path[1] = Bare /\ content = Raw(Blank)) /\ path[1].as # "json"
      BY <2>1, <3>1, <3>4 DEF BeginApply
    <3> QED
      BY <3>1, <3>2, <3>3, <3>4
  <2>3. WalkPast'
    BY <2>2 DEF WalkPast
  <2>4. pc' = "text" => PassedAtRest'
    <3>1. path[1].as # "json" => path[1] # String("json")
      BY DEF String
    <3>2. path[1] # String("json") => WalkAtRest'
      BY <2>1 DEF WalkAtRest, Walked
    <3>3. \A n \in DOMAIN textRules["log"] : ~(n < rule')
      BY <2>2, LogPatterns
    <3> QED
      BY <2>2, <3>1, <3>2, <3>3 DEF PassedAtRest
  <2>5. pc' = "end" => Settled'
    BY <2>1, <2>2 DEF Settled
  <2>6. ASSUME Len(todo) = 1 PROVE Settled' /\ (pc' \in {"walk", "text"} => LineAtRest')
    <3>1. Settled
      BY <2>6 DEF TwiceInv
    <3>2. UNCHANGED <<path, content, base>>
      BY <2>1, <2>2, <3>1 DEF Settled
    <3>3. Settled' = Settled /\ LineAtRest' = LineAtRest
      BY <3>2, RestStays
    <3> QED
      BY <2>2, <3>1, <3>3 DEF Settled
  <2> QED
    BY <2>1, <2>3, <2>4, <2>5, <2>6, TwiceFacts DEF TwiceInv
<1>2. CASE EndStage
  <2>1. /\ pc = "end" /\ pc' = "next" /\ todo' = Tail(todo)
        /\ UNCHANGED <<path, content, route, base, before>>
    BY <1>2 DEF EndStage
  <2>2. Settled' = Settled
    BY <2>1, RestStays
  <2>3. CASE todo = <<"log", "log">>
    <3>1. Len(todo) = 2 /\ todo' = <<"log">> /\ Len(<<"log">>) = 1
      BY <2>1, <2>3, TwiceFacts
    <3>2. Settled
      BY <2>1, <3>1 DEF TwiceInv
    <3> QED
      BY <2>1, <2>2, <3>1, <3>2 DEF TwiceInv
  <2>4. CASE todo = <<"log">>
    <3>1. Len(todo) = 1 /\ todo' = <<>> /\ Len(<<>>) = 0
      BY <2>1, <2>4, TwiceFacts
    <3>2. <<path, content>> = before
      BY <2>1, <3>1 DEF TwiceInv
    <3> QED
      BY <2>1, <3>1, <3>2 DEF TwiceInv
  <2> QED
    BY <2>1, <2>3, <2>4, TwiceFacts
<1>3. CASE Deliver
  <2>1. todo = <<>> /\ pc' = "done" /\ UNCHANGED <<path, content, route, todo, base, before>>
    BY <1>3 DEF Deliver
  <2> QED
    BY <2>1, TwiceFacts DEF TwiceInv
<1> QED
  BY <1>1, <1>2, <1>3

\* In the second pass the walk stands below strings that it decodes, so what it
\* replaces is at rest.
LEMMA SecondWalk ==
    ASSUME IInv, CallInv, route = "twice", WalkPast, WalkAtRest, MaskScalar
    PROVE  UNCHANGED <<path, content>>
<1>1. /\ pc = "walk" /\ path[pos].in = "member" /\ RulesOf(path[pos].key) # {}
      /\ Scalar(path[pos + 1])
      /\ LET repl == keyReplace(path[pos].key)
         IN Put(pos, IF path[pos + 1].in = "literal" THEN staticReplacement(repl)
                     ELSE replaceScalar(repl, Text(pos + 1)))
  BY DEF MaskScalar, Ruled
<1>2. /\ masker = "log" /\ base = 1 /\ path[1] = String("json") /\ pos \in 1 .. Len(path) - 1
  <2>1. masker = "log" /\ base = 1 /\ path[1] = String("json")
    BY <1>1, TwiceFacts
  <2>2. pos \in 1 + 1 .. Len(path) - 1 /\ Len(path) \in Nat
    BY <1>1, <2>1, LenProperties DEF IInv, LineInv, WellFormed
  <2> QED
    BY <2>1, <2>2
<1>3. InKeyRules("log", path[pos].key)
  BY <1>1, <1>2 DEF RulesOf, InKeyRules
<1>4. Walked("twice", path, pos)
  <2>1. \A j \in 2 .. pos - 1 : path[j].in = "string" => path[j].as \in {"json", "mixed"}
    BY DEF WalkPast, Decodable, String
  <2> QED
    BY <1>2, <2>1 DEF Walked, InDocument, StringsIn
<1>5. AtRest(pos)
  BY <1>1, <1>2, <1>3, <1>4 DEF WalkAtRest
<1>6. path' = path
  <2>1. path' = Append(SubSeq(path, 1, pos), Bare)
    BY <1>1 DEF Put
  <2> QED
    BY <1>1, <1>2, <1>5, <2>1, RestPut DEF IInv
<1>7. content' = content
  <2>1. path[pos + 1].in # "literal" /\ Text(pos + 1) = content
    BY <1>5, NewLayers DEF AtRest, Text
  <2>2. Fixed(keyReplace(path[pos].key), content)
    BY <1>1, <1>2, <1>5, RuleHeld DEF AtRest, Maskers
  <2> QED
    BY <1>1, <2>1, <2>2 DEF Put, Fixed
<1> QED
  BY <1>6, <1>7

\* The walk replaces the outermost key of its rules, and there is no other above it.
LEMMA FirstWalk ==
    ASSUME IInv, CallInv, route = "twice", WalkPast, OneReplacement, MaskScalar
    PROVE  WalkAtRest'
<1> DEFINE k == path[pos].key
           N == Len(path)
<1>1. /\ pc = "walk" /\ path[pos].in = "member" /\ RulesOf(k) # {} /\ base' = base
      /\ LET repl == keyReplace(k)
         IN Put(pos, IF path[pos + 1].in = "literal" THEN staticReplacement(repl)
                     ELSE replaceScalar(repl, Text(pos + 1)))
  BY DEF MaskScalar, Ruled
<1>2. /\ masker = "log" /\ base = 1 /\ path[1].in = "string" /\ WellFormed(path) /\ N \in Nat
      /\ pos \in base + 1 .. N - 1 /\ Container(path[pos])
  BY <1>1, TwiceFacts, LenProperties DEF IInv, LineInv, WellFormed
<1>3. pos \in 0 .. N - 1 /\ pos \in 1 .. N /\ pos \in Nat
  <2> HIDE DEF N
  <2> QED
    BY <1>2
<1>4. /\ Len(path') = pos + 1 /\ \A j \in 1 .. pos : path'[j] = path[j]
      /\ path'[pos + 1] = Bare
  BY <1>1, <1>2, <1>3, CutPath DEF Put
<1>5. k \in Keys
  BY <1>1, <1>2, <1>3, Below, LayerKinds
<1>6. /\ keyReplace(k) \in Replacements /\ keyReplace(k) \in Naming("log", k)
      /\ ~keyReplace(k).template /\ \A r \in Naming("log", k) : r = keyReplace(k)
  BY <1>1, <1>2, <1>5, RuleHeld DEF Maskers, OneReplacement
<1>7. Fixed(keyReplace(k), content')
  <2>1. Text(pos + 1) \in Texts
    BY SpellingAssumption, MadeTexts DEF Text, IInv
  <2> QED
    BY <1>1, <1>6, <2>1, MadeFixed DEF Put
<1>8. ASSUME NEW i \in {pos} PROVE AtRest(i)'
  <2>1. i + 1 = Len(path') /\ path'[i + 1] = Bare /\ path'[i] = path[pos]
    BY <1>2, <1>3, <1>4
  <2>2. \A r \in Naming("log", path'[i].key) : Fixed(r, content')
    BY <1>6, <1>7, <2>1
  <2> QED
    BY <2>1, <2>2 DEF AtRest
<1>9. ASSUME NEW i \in 1 .. pos - 1, path'[i].in = "member", InKeyRules("log", path'[i].key),
             Scalar(path'[i + 1])
      PROVE  FALSE
  <2>1. i \in 1 .. pos /\ i + 1 \in 1 .. pos /\ (i = 1 \/ i \in 2 .. pos - 1)
    BY <1>3
  <2>2. path'[i] = path[i] /\ path'[i + 1] = path[i + 1]
    BY <1>4, <2>1
  <2> QED
    BY <1>2, <1>9, <2>1, <2>2 DEF WalkPast
<1>10. \A i \in 1 .. Len(path') - 1 : i = pos \/ i \in 1 .. pos - 1
  BY <1>3, <1>4
<1> QED
  BY <1>8, <1>9, <1>10 DEF WalkAtRest

\* Where the walk ends with nothing replaced there was nothing to replace.
LEMMA NothingToWalk ==
    ASSUME IInv, CallInv, route = "twice", WalkPast, WalkEnds
    PROVE  WalkAtRest
<1> DEFINE N == Len(path)
<1>1. /\ pc = "walk" /\ ~Ruled(pos) /\ Scalar(path[pos + 1]) /\ ~Decodable(path[pos + 1])
  BY DEF WalkEnds
<1>2. /\ masker = "log" /\ base = 1 /\ path[1].in = "string" /\ WellFormed(path) /\ N \in Nat
      /\ pos \in base + 1 .. N - 1 /\ Container(path[pos])
  BY <1>1, TwiceFacts, LenProperties DEF IInv, LineInv, WellFormed
<1>3. pos + 1 \in 1 .. N /\ pos \in Nat
  <2> HIDE DEF N
  <2> QED
    BY <1>2
<1>4. path[pos + 1] \in Layers /\ (pos + 1 = N <=> Leaf(path[pos + 1]))
  BY <1>2, <1>3, Below
<1>5. ASSUME NEW i \in 1 .. N - 1, path[i].in = "member", InKeyRules("log", path[i].key),
             Scalar(path[i + 1]), Walked("twice", path, i)
      PROVE  FALSE
  <2>1. \/ i = 1 \/ i \in 2 .. pos - 1 \/ i = pos \/ i = pos + 1
        \/ pos + 1 \in 2 .. i - 1 /\ pos + 1 # N
    <3> HIDE DEF N
    <3> QED
      BY <1>2
  <2>2. i # pos
    BY <1>1, <1>2, <1>5 DEF Ruled, RulesOf, InKeyRules
  <2>3. i # pos + 1
    BY <1>1, <1>5 DEF Scalar
  <2>4. ~(i \in 2 .. pos - 1)
    BY <1>5 DEF WalkPast
  <2>5. pos + 1 \in 2 .. i - 1 /\ pos + 1 # N
    BY <1>2, <1>5, <2>1, <2>2, <2>3, <2>4
  <2>6. path[pos + 1].in = "string" /\ path[pos + 1] = String(path[pos + 1].as)
    BY <1>1, <1>4, <2>5, LayerKinds DEF Scalar
  <2>7. path[pos + 1].as \in {"json", "mixed"}
    BY <1>5, <2>5, <2>6 DEF Walked, InDocument, StringsIn
  <2> QED
    BY <1>1, <2>6, <2>7 DEF Decodable
<1> QED
  BY <1>5 DEF WalkAtRest

\* Further down the walk has passed what it stood on.
LEMMA WalksPast ==
    ASSUME IInv, CallInv, route = "twice", WalkPast, Descend
    PROVE  WalkPast'
<1>1. /\ pc = "walk" /\ ~Ruled(pos) /\ UNCHANGED path
      /\ \/ ~Scalar(path[pos + 1]) /\ pos' = pos + 1
         \/ Decodable(path[pos + 1]) /\ pos' = pos + 2
  BY DEF Descend
<1>2. masker = "log" /\ Container(path[pos]) /\ pos \in Nat
  <2>1. base \in Nat /\ Len(path) \in Nat /\ pos \in base + 1 .. Len(path) - 1
    BY <1>1, LenProperties DEF IInv, LineInv, WellFormed
  <2> QED
    BY <1>1, <2>1, TwiceFacts DEF IInv, LineInv
<1>3. /\ path[pos].in # "string"
      /\ ~(path[pos].in = "member" /\ InKeyRules("log", path[pos].key) /\ Scalar(path[pos + 1]))
  BY <1>1, <1>2 DEF Container, Ruled, RulesOf, InKeyRules
<1>4. Decodable(path[pos + 1]) => path[pos + 1].in = "string"
  BY DEF Decodable, String
<1>5. \A j \in 2 .. pos' - 1 :
         j \in 2 .. pos - 1 \/ j = pos \/ (j = pos + 1 /\ pos' = pos + 2 /\ j # pos)
  BY <1>1, <1>2
<1>6. ASSUME NEW j \in 2 .. pos' - 1
      PROVE  /\ path[j].in = "string" => Decodable(path[j])
             /\ ~(path[j].in = "member" /\ InKeyRules("log", path[j].key) /\ Scalar(path[j + 1]))
  <2>1. CASE j \in 2 .. pos - 1
    BY <2>1 DEF WalkPast
  <2>2. CASE j = pos
    BY <1>3, <2>2
  <2>3. CASE j = pos + 1 /\ pos' = pos + 2
    <3>1. Decodable(path[j])
      BY <1>1, <1>2, <2>3
    <3> QED
      BY <1>4, <2>3, <3>1
  <2> QED
    BY <1>5, <2>1, <2>2, <2>3
<1> QED
  BY <1>1, <1>6 DEF WalkPast

\* In the second pass every pattern leaves the value alone.
LEMMA SecondText ==
    ASSUME IInv, CallInv, route = "twice", OneReplacement, LineAtRest, TextRule
    PROVE  UNCHANGED <<path, content>>
<1> DEFINE q == textRules["log"][rule]
<1>1. /\ pc = "text" /\ rule \in DOMAIN textRules[masker] /\ masker = "log"
      /\ \/ ReplaceFormat(q) \/ NoMatch(q)
         \/ \E i \in 1 .. Len(path) - 1 : ReplaceKeyed(q, i) \/ CutOpen(q, i)
  BY TextStep, TwiceFacts
<1>2. PatternAtRest(rule)
  BY <1>1 DEF LineAtRest
<1>3. content \in Texts /\ WellFormed(path)
  BY DEF IInv
<1>4. CASE ReplaceFormat(q)
  BY <1>2, <1>4 DEF ReplaceFormat, PatternAtRest
<1>5. CASE NoMatch(q)
  BY <1>5 DEF NoMatch
<1>6. ASSUME NEW i \in 1 .. Len(path) - 1, ReplaceKeyed(q, i) \/ CutOpen(q, i)
      PROVE  UNCHANGED <<path, content>>
  <2>1. Meets(q, i) /\ AtRest(i)
    BY <1>2, <1>6 DEF ReplaceKeyed, CutOpen, PatternAtRest
  <2>2. path[i].in = "member" /\ i \in 1 .. Len(path)
    <3>1. path[i].in = "member"
      BY <1>1, <2>1, MetMember
    <3>2. Len(path) \in Nat
      BY <1>3, LenProperties DEF WellFormed
    <3> DEFINE N == Len(path)
    <3> HIDE DEF N
    <3>3. i \in 1 .. N
      BY <3>2 DEF N
    <3> QED
      BY <3>1, <3>3 DEF N
  <2>3. PICK r \in Naming("log", path[i].key) : q.repl \in {r, [r EXCEPT !.template = FALSE]}
    BY <1>1, <2>1, MetMember
  <2>4. path[i].key \in Keys
    BY <1>3, <2>2, Below, LayerKinds
  <2>5. ~r.template /\ r \in Replacements
    BY <2>3, <2>4, GivenRules DEF OneReplacement, Naming, Maskers
  <2>6. q.repl = r
    BY <2>3, <2>5 DEF Replacements
  <2>7. Fixed(r, content) /\ i + 1 = Len(path) /\ path[i + 1] = Bare
    BY <2>1, <2>3 DEF AtRest
  <2>8. /\ content.form = "raw" => Raw(Escaped[content.of[1]]) = content
        /\ \A w \in Quoted : content # Raw(w)
    BY <1>3, <2>7, FixedReads
  <2>9. Text(i + 1) = content /\ Spelled(content) = content
    BY <2>7, <2>8 DEF Text, Spelled
  <2>10. ~HoldsQuotes(i + 1)
    <3>1. Len(path) \in Nat
      BY <1>3, LenProperties DEF WellFormed
    <3>2. i + 1 + 1 .. Len(path) = {}
      <4> DEFINE N == Len(path)
      <4>1. N \in Nat /\ i + 1 = N
        BY <2>7, <3>1
      <4> HIDE DEF N
      <4>2. i + 1 + 1 .. N = {}
        BY <4>1
      <4> QED
        BY <4>2 DEF N
    <3> QED
      BY <2>8, <3>2 DEF HoldsQuotes
  <2>11. ReplaceKeyed(q, i)
    BY <1>6, <2>10 DEF CutOpen
  <2>12. path' = Append(SubSeq(path, 1, i), Bare) /\ content' = replaceMatch(q.repl, content)
    BY <2>9, <2>11 DEF ReplaceKeyed, Put
  <2>13. path' = path
    BY <1>3, <2>1, <2>2, <2>12, RestPut
  <2> QED
    BY <2>5, <2>6, <2>7, <2>12, <2>13, PlainMatch DEF Fixed
<1> QED
  BY <1>1, <1>4, <1>5, <1>6

\* In the first pass a text rule leaves the value at rest for the patterns so far.
LEMMA FirstText ==
    ASSUME IInv, IInv', CallInv, TwiceInv, route = "twice", OneReplacement, FormatsSpareTokens,
           FormatsReadPlain, PassedAtRest, TextRule
    PROVE  PassedAtRest'
<1> DEFINE q == textRules["log"][rule]
<1>1. /\ pc = "text" /\ rule \in DOMAIN textRules["log"] /\ masker = "log" /\ base = 1
      /\ \/ ReplaceFormat(q) \/ NoMatch(q)
         \/ \E i \in 1 .. Len(path) - 1 : ReplaceKeyed(q, i) \/ CutOpen(q, i)
  BY TextStep, TwiceFacts
<1>2. CASE ReplaceFormat(q)
  BY <1>1, <1>2, RestFormat
<1>3. CASE NoMatch(q)
  <2>1. UNCHANGED <<path, content, base>> /\ rule' = rule + 1
    BY <1>3 DEF NoMatch
  <2>2. PatternAtRest(rule)
    BY <1>3 DEF NoMatch, PatternAtRest
  <2>3. \A n \in DOMAIN textRules["log"] : n < rule' => n < rule \/ n = rule
    BY <2>1, LogPatterns DEF IInv
  <2>4. WalkAtRest' /\ \A n \in DOMAIN textRules["log"] : n < rule' => PatternAtRest(n)'
    BY <2>1, <2>2, <2>3, RestStays DEF PassedAtRest
  <2> QED
    BY <2>4 DEF PassedAtRest
<1>4. ASSUME NEW i \in 1 .. Len(path) - 1, ReplaceKeyed(q, i) PROVE PassedAtRest'
  BY <1>1, <1>4, RestKeyed
<1>5. ASSUME NEW i \in 1 .. Len(path) - 1, CutOpen(q, i) PROVE PassedAtRest'
  <2>1. CASE path' = Append(SubSeq(path, 1, base - 1), Bare)
    <3>1. path[Len(path)].in = "literal" =>
             \E v \in Values : content = Raw(v) /\ Spells([in |-> "literal"], v)
      BY DEF TwiceInv
    <3> QED
      BY <1>1, <1>5, <2>1, <3>1, RestCut
  <2>2. CASE path' # Append(SubSeq(path, 1, base - 1), Bare)
    <3>1. i + 1 # Len(path) /\ path' = [path EXCEPT ![i] = Element, ![i + 1] = String("lost")]
      BY <1>5, <2>2 DEF CutOpen
    <3> QED
      BY <1>1, <1>5, <3>1, RestRelabel
  <2> QED
    BY <2>1, <2>2
<1> QED
  BY <1>1, <1>2, <1>3, <1>4, <1>5

\* A path that ends in true, false or null has lost nothing at its end.
LEMMA LiteralStays ==
    ASSUME IInv, IInv', CallInv, route = "twice", MaskScalar \/ TextRule,
           path'[Len(path')].in = "literal"
    PROVE  path[Len(path)].in = "literal" /\ content' = content
<1> DEFINE N == Len(path)
           q == textRules["log"][rule]
<1>1. WellFormed(path) /\ WellFormed(path') /\ N \in Nat /\ Len(path') \in Nat
      /\ DOMAIN path = 1 .. N
  BY LenProperties DEF IInv, WellFormed
<1>2. ASSUME NEW i \in 0 .. N - 1, i # 0 => Container(path[i]),
             path' = Append(SubSeq(path, 1, i), Bare)
      PROVE  FALSE
  <2>1. path'[Len(path')] = Bare
    BY <1>1, <1>2, CutPath
  <2> QED
    BY <2>1, NewLayers
<1>3. CASE MaskScalar
  <2>1. path[pos].in = "member" /\ path' = Append(SubSeq(path, 1, pos), Bare)
    BY <1>3 DEF MaskScalar, Ruled, Put
  <2>2. pos \in 0 .. N - 1
    <3>1. base \in Nat /\ pos \in base + 1 .. N - 1
      BY <1>3 DEF MaskScalar, IInv, LineInv
    <3> HIDE DEF N
    <3> QED
      BY <1>1, <3>1
  <2> QED
    BY <1>2, <2>1, <2>2 DEF Container
<1>4. CASE TextRule
  <2>1. /\ rule \in DOMAIN textRules[masker] /\ masker = "log" /\ pc = "text" /\ base = 1
        /\ \/ ReplaceFormat(q) \/ NoMatch(q)
           \/ \E i \in 1 .. Len(path) - 1 : ReplaceKeyed(q, i) \/ CutOpen(q, i)
    BY <1>4, TextStep, TwiceFacts
  <2>2. CASE NoMatch(q)
    BY <2>2 DEF NoMatch
  <2>3. ASSUME DOMAIN path' = DOMAIN path PROVE Len(path') = N
    <3> DEFINE M == Len(path')
    <3>1. DOMAIN path' = 1 .. M
      BY LenProperties DEF IInv, WellFormed
    <3>2. 1 .. M = 1 .. N /\ M \in Nat
      BY <1>1, <2>3, <3>1
    <3> HIDE DEF M, N
    <3>3. M = N
      BY <1>1, <3>2
    <3> QED
      BY <3>3 DEF M
  <2>4. N \in 1 .. N /\ N \notin 1 .. N - 1
    <3>1. 1 \in 1 .. N
      BY TwiceFacts
    <3> HIDE DEF N
    <3> QED
      BY <1>1, <3>1
  <2>5. CASE ReplaceFormat(q)
    <3>1. path[N].in # "literal"
      BY <2>5 DEF ReplaceFormat, Formatted
    <3>2. DOMAIN path' = DOMAIN path /\ path'[N] \in {path[N], String("lost")}
      BY <1>1, <2>4, <2>5 DEF ReplaceFormat
    <3> QED
      BY <2>3, <3>1, <3>2, NewLayers
  <2>6. ASSUME NEW i \in 1 .. N - 1, ReplaceKeyed(q, i) \/ CutOpen(q, i)
        PROVE  path[N].in = "literal" /\ content' = content
    <3>1. path[i].in = "member" /\ i \in 0 .. N - 1
      <4>1. path[i].in = "member"
        BY <2>1, <2>6, MetMember DEF ReplaceKeyed, CutOpen
      <4> HIDE DEF N
      <4> QED
        BY <1>1, <4>1
    <3>2. CASE ReplaceKeyed(q, i)
      BY <1>2, <3>1, <3>2 DEF ReplaceKeyed, Put, Container
    <3>3. CASE CutOpen(q, i)
      <4>1. base - 1 = 0 /\ 0 \in 0 .. N - 1
        BY <1>1, <2>1, <3>1
      <4>2. path' # Append(SubSeq(path, 1, base - 1), Bare)
        BY <1>2, <4>1
      <4>3. /\ i + 1 # N /\ path' = [path EXCEPT ![i] = Element, ![i + 1] = String("lost")]
            /\ content' = content
        BY <3>3, <4>2 DEF CutOpen
      <4>4. i # N /\ N \in DOMAIN path
        BY <1>1, <2>4
      <4>5. DOMAIN path' = DOMAIN path /\ path'[N] = path[N]
        BY <4>3, <4>4
      <4> QED
        BY <2>3, <4>3, <4>5
    <3> QED
      BY <2>6, <3>2, <3>3
  <2> QED
    BY <2>1, <2>2, <2>5, <2>6
<1> QED
  BY <1>3, <1>4

\* The walk and the text rules on a value that is masked twice.
LEMMA TwicePass ==
    ASSUME IInv, IInv', CallInv, TwiceInv, route = "twice", OneReplacement, FormatsSpareTokens,
           FormatsReadPlain, MaskScalar \/ Descend \/ WalkEnds \/ TextRule \/ EndText
    PROVE  TwiceInv'
<1>1. /\ pc \in {"walk", "text"} /\ pc' \in {"walk", "text", "end"} /\ base = 1
      /\ UNCHANGED <<route, todo, base, before>>
  <2>1. /\ pc \in {"walk", "text"} /\ pc' \in {"walk", "text", "end"}
        /\ UNCHANGED <<route, todo, base, before>>
    <3>1. CASE MaskScalar \/ WalkEnds
      BY <3>1 DEF MaskScalar, WalkEnds, LeaveWalk
    <3>2. CASE Descend \/ EndText
      BY <3>2 DEF Descend, EndText
    <3>3. CASE TextRule
      BY <3>3, TextStep
    <3> QED
      BY <3>1, <3>2, <3>3
  <2> QED
    BY <2>1, TwiceFacts
<1>2. todo # <<>> /\ Len(todo) \in {1, 2}
  <2>1. todo # <<>>
    BY <1>1, TwiceFacts
  <2> QED
    BY <2>1, TwiceFacts
<1>3. path'[Len(path')].in = "literal" =>
         \E v \in Values : content' = Raw(v) /\ Spells([in |-> "literal"], v)
  <2>1. CASE MaskScalar \/ TextRule
    BY <2>1, LiteralStays DEF TwiceInv
  <2>2. CASE Descend \/ WalkEnds \/ EndText
    BY <2>2 DEF Descend, WalkEnds, EndText, TwiceInv
  <2> QED
    BY <2>1, <2>2
<1>4. pc' = "walk" => WalkPast'
  <2>1. pc' = "walk" => Descend
    BY <1>1, TextStep DEF MaskScalar, WalkEnds, LeaveWalk, EndText
  <2> QED
    BY <2>1, WalksPast DEF TwiceInv, Descend
<1>5. ASSUME Len(todo) = 2, pc' = "text" PROVE PassedAtRest'
  <2>1. CASE MaskScalar
    <3>1. pc = "walk" /\ rule' = rule
      BY <2>1 DEF MaskScalar
    <3>2. WalkAtRest' /\ rule' = 1
      BY <2>1, <3>1, FirstWalk, TwiceFacts DEF TwiceInv
    <3>3. \A n \in DOMAIN textRules["log"] : ~(n < 1)
      BY LogPatterns
    <3> QED
      BY <3>2, <3>3 DEF PassedAtRest
  <2>2. CASE WalkEnds
    <3>1. pc = "walk" /\ UNCHANGED <<path, content, rule>>
      BY <2>2 DEF WalkEnds
    <3>2. WalkAtRest /\ rule' = 1
      BY <2>2, <3>1, NothingToWalk, TwiceFacts DEF TwiceInv
    <3>3. WalkAtRest'
      BY <1>1, <3>1, <3>2, RestStays
    <3>4. \A n \in DOMAIN textRules["log"] : ~(n < 1)
      BY LogPatterns
    <3> QED
      BY <3>2, <3>3, <3>4 DEF PassedAtRest
  <2>3. CASE TextRule
    <3>1. PassedAtRest
      BY <1>5, <2>3, TextStep DEF TwiceInv
    <3> QED
      BY <2>3, <3>1, FirstText
  <2>4. CASE Descend \/ EndText
    BY <1>5, <2>4 DEF Descend, EndText
  <2> QED
    BY <2>1, <2>2, <2>3, <2>4
<1>6. ASSUME Len(todo) = 2, pc' = "end" PROVE Settled'
  <2>1. EndText
    <3>1. CASE MaskScalar \/ WalkEnds
      BY <1>1, <1>6, <3>1 DEF MaskScalar, WalkEnds, LeaveWalk
    <3>2. CASE TextRule
      BY <1>6, <3>2, TextStep
    <3> QED
      BY <1>6, <3>1, <3>2 DEF Descend
  <2>2. pc = "text" /\ rule \notin DOMAIN textRules["log"] /\ UNCHANGED <<path, content>>
    BY <2>1, TwiceFacts DEF EndText
  <2>3. PassedAtRest /\ rule \in Nat \ {0}
    BY <1>6, <2>2 DEF TwiceInv, CallInv, IInv
  <2>4. \A n \in DOMAIN textRules["log"] : n < rule
    <3>1. DOMAIN textRules["log"] = 1 .. 3 * RuleCount("log") /\ RuleCount("log") \in Nat
      BY GivenRules DEF textRules, Maskers
    <3> QED
      BY <2>2, <2>3, <3>1
  <2>5. LineAtRest
    BY <2>3, <2>4 DEF PassedAtRest, LineAtRest
  <2>6. LineAtRest' = LineAtRest
    BY <1>1, <2>2, RestStays
  <2> QED
    BY <1>1, <2>5, <2>6 DEF Settled
<1>7. ASSUME Len(todo) = 1
      PROVE  Settled' /\ (pc' \in {"walk", "text"} => LineAtRest') /\ <<path', content'>> = before'
  <2>1. LineAtRest /\ Settled /\ <<path, content>> = before /\ (pc = "walk" => WalkPast)
    BY <1>1, <1>7 DEF TwiceInv
  <2>2. UNCHANGED <<path, content>>
    <3>1. CASE MaskScalar
      BY <2>1, <3>1, SecondWalk DEF LineAtRest, MaskScalar
    <3>2. CASE TextRule
      BY <2>1, <3>2, SecondText
    <3> QED
      BY <3>1, <3>2 DEF Descend, WalkEnds, EndText
  <2> QED
    BY <1>1, <2>1, <2>2, RestStays
<1> QED
  BY <1>1, <1>2, <1>3, <1>4, <1>5, <1>6, <1>7 DEF TwiceInv

\* The first pass leaves the value at rest, and the second leaves it alone.
LEMMA TwiceStep ==
    ASSUME OneReplacement, FormatsSpareTokens, FormatsReadPlain
    PROVE  IInv /\ IInv' /\ CallInv /\ TwiceInv /\ [Next]_vars => TwiceInv'
<1> SUFFICES ASSUME IInv, IInv', CallInv, TwiceInv, [Next]_vars, route = "twice" PROVE TwiceInv'
  BY GivenStays DEF TwiceInv
<1>1. CASE ApplyLine \/ EndStage \/ Deliver
  BY <1>1, TwiceStages
<1>2. CASE MaskScalar \/ Descend \/ WalkEnds \/ TextRule \/ EndText
  BY <1>2, TwicePass
<1>3. CASE WalkSource \/ ApplyStrings \/ Truncate \/ RewriteAround
  BY <1>3, TwiceFacts DEF WalkSource, ApplyStrings, Truncate, Begin, RewriteAround, Aside
<1>4. CASE UNCHANGED vars
  BY <1>4, RestStays DEF vars, TwiceInv, WalkPast, PassedAtRest
<1> QED
  BY <1>1, <1>2, <1>3, <1>4 DEF Next, Done

\* MaskedTwice: the second pass over a line leaves the value as the first one left
\* it, in its place, whatever other rules there are (hashOrSkip, applyTextRules, walk).
THEOREM MasksOnce ==
    ASSUME OneReplacement, FormatsSpareTokens, FormatsReadPlain
    PROVE  Spec => []MaskedTwice
<1>1. Init => TwiceInv
  <2> SUFFICES ASSUME Init, route = "twice" PROVE TwiceInv
    BY DEF TwiceInv
  <2>1. todo = <<"log", "log">> /\ Len(<<"log", "log">>) = 2 /\ pc = "next"
    BY DEF Init, Stages
  <2>2. PICK v \in Values : content = Raw(v) /\ Spells(path[Len(path)], v)
    BY DEF Init
  <2>3. path[Len(path)].in = "literal" => path[Len(path)] = [in |-> "literal"]
    <3>1. IInv
      BY TypeInit
    <3>2. Len(path) \in 1 .. Len(path)
      BY <3>1, LenProperties, EmptySeq DEF IInv, WellFormed
    <3>3. path[Len(path)] \in Layers
      BY <3>1, <3>2, Below DEF IInv
    <3> QED
      BY <3>3 DEF Layers, Member, Element, String
  <2> QED
    BY <2>1, <2>2, <2>3 DEF TwiceInv
<1>2. IInv /\ TwiceInv => MaskedTwice
  BY DEF IInv, StageInv, TwiceInv, MaskedTwice
<1>3. IInv /\ IInv' /\ CallInv /\ TwiceInv /\ [Next]_vars => TwiceInv'
  BY TwiceStep
<1>4. IInv /\ [Next]_vars => IInv'
  BY TypeStep
<1> QED
  BY <1>1, <1>2, <1>3, <1>4, TypeInit, CallsInit, CallsInHand, PTL DEF Spec
=============================================================================
