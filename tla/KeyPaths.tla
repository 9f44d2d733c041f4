------------------------------ MODULE KeyPaths ------------------------------
(***************************************************************************)
(* The rules of the graphql block and what they promise                    *)
(* (internal/masker/graphql.go): key-path patterns, which of them is the   *)
(* most specific, which rule governs a leaf, and what becomes of the leaf. *)
(*                                                                         *)
(* A pattern is known by its position in the rules file, which is its      *)
(* `order'.  A rule is a positive number; 0 is the nil rule.               *)
(***************************************************************************)
EXTENDS Naturals, Sequences, FiniteSets

CONSTANTS
    Keys,       \* object keys
    Wildcard,   \* config.KeyPathWildcard
    Rules,      \* rules of the block
    Patterns,   \* their key paths, in declaration order
    Texts,      \* contents of strings, as far as masking tells them apart
    Numbers,    \* number literals
    Mask,       \* Mask[r, x]: the string rule r makes of x
    NumberOf    \* NumberOf[r]: the literal r puts for a number, or "null"

Segments == Keys \union {Wildcard}

ASSUME RulesAssumption == Rules \subseteq Nat \ {0}
ASSUME PatternsAssumption ==
    Patterns \in Seq([segs : Seq(Segments) \ {<<>>}, rule : Rules])
ASSUME MaskAssumption == Mask \in [Rules \X Texts -> Texts]
ASSUME NumberAssumption == NumberOf \in [Rules -> Numbers \union {"null"}]

Paths == Seq(Keys)
Orders == DOMAIN Patterns
Segs(n) == Patterns[n].segs

-----------------------------------------------------------------------------
(* Matching and specificity.                                               *)

LastSeg(n) == Segs(n)[Len(Segs(n))]

literals(n) == Cardinality({i \in DOMAIN Segs(n) : Segs(n)[i] # Wildcard})

\* A pattern matches the end of a path, segment by segment.
matches(n, path) ==
    /\ Len(Segs(n)) <= Len(path)
    /\ \A i \in DOMAIN Segs(n) :
          Segs(n)[i] \in {Wildcard, path[Len(path) - Len(Segs(n)) + i]}

moreSpecificThan(n, m) ==
    \/ literals(n) > literals(m)
    \/ literals(n) = literals(m) /\ Len(Segs(n)) > Len(Segs(m))
    \/ literals(n) = literals(m) /\ Len(Segs(n)) = Len(Segs(m)) /\ n < m

-----------------------------------------------------------------------------
(* What the block promises, as the comment on type GraphQL states it: the  *)
(* rule anchored closest to the leaf wins, then the one with more literal  *)
(* segments, then more segments, then the one declared first.              *)

Matching(path) == {n \in Orders : matches(n, path)}

Outranks(n, m) ==
    LET rank(x) == <<literals(x), Len(Segs(x))>>
    IN \/ rank(n)[1] > rank(m)[1]
       \/ rank(n)[1] = rank(m)[1] /\ rank(n)[2] > rank(m)[2]
       \/ rank(n) = rank(m) /\ n < m

Best(path) ==
    CHOOSE n \in Matching(path) : \A m \in Matching(path) \ {n} : Outranks(n, m)

\* The lengths of the prefixes of a path that some pattern is anchored at.
Anchors(path) == {n \in 1 .. Len(path) : Matching(SubSeq(path, 1, n)) # {}}

Nearest(path) == CHOOSE n \in Anchors(path) : \A m \in Anchors(path) : m <= n

\* The rule that governs a leaf at this path, 0 if none does.
Governor(path) ==
    IF Anchors(path) = {} THEN 0
    ELSE Patterns[Best(SubSeq(path, 1, Nearest(path)))].rule

-----------------------------------------------------------------------------
(* Tokens.  `doc' is the path, in JSON carried inside a string, to the one *)
(* string leaf of that JSON, <<>> if the string carries none; `path' is    *)
(* where the token stands in the document.                                 *)

Token(type, text, doc, path) ==
    [type |-> type, text |-> text, doc |-> doc, path |-> path]

\* maskString: the whole string is rewritten by its rule.
maskString(t, r) == [t EXCEPT !.text = Mask[r, t.text], !.doc = <<>>]

\* maskEmbedded: the leaf of the embedded JSON is rewritten by the rule that
\* governs it in that JSON, matched from its own root.
maskEmbedded(t) ==
    IF Governor(t.doc) = 0 THEN t ELSE [t EXCEPT !.text = Mask[Governor(t.doc), t.text]]

\* What the docWriter emits for a token under a rule.
Rewrite(t, gov) ==
    CASE t.type = "string" /\ gov # 0 -> maskString(t, gov)
      [] t.type = "string" /\ gov = 0 -> maskEmbedded(t)
      [] t.type = "number" /\ gov # 0 ->
            [t EXCEPT !.text = NumberOf[gov],
                      !.type = IF NumberOf[gov] = "null" THEN "null" ELSE "number"]
      [] OTHER -> t

\* What the block promises of a document: each token as its governor has it.
Masked(s) == [i \in DOMAIN s |-> Rewrite(s[i], Governor(s[i].path))]
=============================================================================
