-------------------------------- MODULE Tokens --------------------------------
(***************************************************************************)
(* HMAC tokens (internal/token/token.go) and what the masker puts in place *)
(* of a text (hashOrSkip in internal/masker/masker.go).                    *)
(*                                                                         *)
(* A text is a value as it was received, or what masking made of one: a    *)
(* token is known by the text it was made from, under the process's key.   *)
(***************************************************************************)
EXTENDS Naturals, Sequences, FiniteSets

CONSTANTS
    Values,         \* texts, as far as masking tells them apart
    Modes, Norm,    \* Norm[m, v]: v under normalisation m, or NoText
    Remains(_, _),  \* Remains(m, c): m leaves something of the made text c
    NoText,
    Starred,        \* values of asterisks
    TokenLike,      \* values that look like a token
    Blank           \* the empty text

ASSUME ValuesAssumption ==
    /\ Norm \in [Modes \X Values -> Values \union {NoText}]
    /\ Blank \in Values
    /\ {Starred, TokenLike} \subseteq SUBSET Values

\* A token begins with a tilde.
ASSUME TokensAssumption == TokenLike \intersect (Starred \union {Blank}) = {}

Content(form, of) == [form |-> form, of |-> of]
Raw(v) == Content("raw", <<v>>)
Stars == Content("stars", <<>>)
Static == Content("static", <<>>)
Gone == Content("gone", <<>>)
Around(form, c) == Content(form, <<c.form>> \o c.of)

\* What is hashed: what the mode makes of the text, received or made by masking.
applyNormalize(c, m) ==
    IF c.form = "raw" THEN <<Norm[m, c.of[1]]>>
    ELSE IF Remains(m, c) THEN <<m, c.form>> \o c.of
    ELSE <<NoText>>

\* Variant: tokens are hashed like any other text.
VariantHashAgain(c, m) ==
    IF c = Stars \/ c = Raw(Blank) \/ applyNormalize(c, m) = <<NoText>> THEN Stars
    ELSE Content("token", applyNormalize(c, m))

IsToken(c) == c.form = "token" \/ \E v \in TokenLike : c = Raw(v)

hashOrSkip(c, m) ==
    IF c = Stars \/ \E v \in Starred \union {Blank} : c = Raw(v) THEN Stars
    ELSE IF IsToken(c) THEN c
    ELSE IF applyNormalize(c, m) = <<NoText>> THEN Stars
    ELSE Content("token", applyNormalize(c, m))
=============================================================================
