--------------------------- MODULE GraphQLDocument ---------------------------
(***************************************************************************)
(* masker.GraphQL at work (internal/masker/graphql.go): MaskDocument and   *)
(* its docWriter, which re-emits a token stream while it masks leaves.     *)
(* The Go recursion object/array/value is an explicit stack here.  The     *)
(* path is a Go slice that siblings and descendants share: append writes   *)
(* into the spare capacity of the array behind it when there is any.       *)
(*                                                                         *)
(* The upstream supplies any JSON document, one legal token at a time, and *)
(* may end it or break it anywhere.                                        *)
(***************************************************************************)
EXTENDS KeyPaths

CONSTANTS
    Docs,       \* paths of JSON embedded in strings, <<>> for plain strings
    Spare,      \* spare capacities append may leave when it allocates
    MaxTokens,  \* bound: tokens of a document explored
    MaxDepth    \* bound: nesting of a document explored

ASSUME DocsAssumption == Docs \subseteq Paths
ASSUME SpareAssumption == Spare \subseteq Nat

VARIABLES
    src, out,   \* tokens read and written
    changed,    \* docWriter.changed
    body,       \* what MaskDocument returns
    heap,       \* the arrays behind the path slices, the nil slice's first
    stack,      \* one frame per open object or array
    at,         \* path and governing rule of the member being read
    todo, best, \* locals of match: candidates left, and the best so far
    pc

vars == <<src, out, changed, body, heap, stack, at, todo, best, pc>>

\* Frames and `at' keep the keys on the way down beside the slice that is meant
\* to hold them; the program has only the slice.
Places == [path : [array : Nat, len : Nat], keys : Paths, gov : Rules \union {0}]
Frames == [kind : {"object", "array"}, place : Places]

Top == stack[Len(stack)].place

Tokens ==
    [type : {"{", "}", "[", "]", "key", "string", "number", "null"},
     text : Keys \union Texts \union Numbers \union {"", "null"},
     doc : Docs \union {<<>>}, path : Paths]

TypeOK ==
    /\ src \in Seq(Tokens)
    /\ Len(out) = Len(src) /\ changed \in BOOLEAN
    /\ heap \in Seq(Paths)
    /\ stack \in Seq(Frames) /\ at \in Places
    /\ todo \subseteq Orders /\ best \in Orders \union {0}
    /\ pc \in {"start", "member", "match", "value", "element", "done", "failed"}
    /\ pc \in {"member", "match", "value", "element"} => stack # <<>>

Root == [path |-> [array |-> 1, len |-> 0], keys |-> <<>>, gov |-> 0]

Init ==
    /\ src = <<>> /\ out = <<>> /\ changed = FALSE /\ body = <<>>
    /\ heap = << <<>> >> /\ stack = <<>> /\ at = Root
    /\ todo = {} /\ best = 0 /\ pc = "start"

-----------------------------------------------------------------------------
(* Slices.                                                                 *)

Content(s) == SubSeq(heap[s.array], 1, s.len)

\* append(s, key): in place if the array has room, else in a new array that
\* may have room to spare.
Appended(s, key) ==
    IF s.len < Len(heap[s.array])
    THEN {[heap |-> [heap EXCEPT ![s.array][s.len + 1] = key],
           slice |-> [s EXCEPT !.len = @ + 1]]}
    ELSE {[heap |-> Append(heap, Append(Content(s), key) \o [i \in 1 .. n |-> key]),
           slice |-> [array |-> Len(heap) + 1, len |-> s.len + 1]] : n \in Spare}

-----------------------------------------------------------------------------
(* The docWriter.                                                          *)

\* Variant: a rule that has no literal for numbers writes nothing for one.
VariantEmit(type, text, doc, keys, gov) ==
    LET t == Token(type, text, doc, keys)
        w == Rewrite(t, gov)
    IN /\ Len(src) < MaxTokens
       /\ src' = Append(src, t)
       /\ out' = IF t.type = "number" /\ w.type = "null" THEN out ELSE Append(out, w)
       /\ changed' = (changed \/ w # t)

\* A token is read, and written as the rule over it has it.
Emit(type, text, doc, keys, gov) ==
    LET t == Token(type, text, doc, keys)
        w == Rewrite(t, gov)
    IN /\ Len(src) < MaxTokens
       /\ src' = Append(src, t)
       /\ out' = Append(out, w)
       /\ changed' = (changed \/ w # t)

\* MaskDocument up to the '{' of the document.
Start ==
    /\ pc = "start" /\ pc' = "member"
    /\ Emit("{", "", <<>>, <<>>, 0)
    /\ stack' = <<[kind |-> "object", place |-> Root]>>
    /\ UNCHANGED <<body, heap, at, todo, best>>

\* Variant: wildLast is looked at only if no pattern ends with the key.
VariantByLastOnly(key) ==
    LET byLast == {n \in Orders : LastSeg(n) = key}
    IN IF byLast # {} THEN byLast ELSE {n \in Orders : LastSeg(n) = Wildcard}

\* The patterns match looks at for a path that ends with this key: byLast[key]
\* and wildLast.
Candidates(key) == {n \in Orders : LastSeg(n) \in {key, Wildcard}}

Before(n, m) ==
    \/ LastSeg(n) # Wildcard /\ LastSeg(m) = Wildcard
    \/ (LastSeg(n) = Wildcard <=> LastSeg(m) = Wildcard) /\ n < m

\* Variant: the members of an object extend the slice of the member before.
VariantPathGrows == IF Len(at.keys) > Len(Top.keys) THEN at.path ELSE Top.path

\* The slice a member's path is appended to.
ParentPath == Top.path

\* object reads a key: child := append(path, key), and match begins.
ReadKey(key) ==
    /\ pc = "member" /\ pc' = "match"
    /\ Emit("key", key, <<>>, Append(Top.keys, key), 0)
    /\ \E r \in Appended(ParentPath, key) :
          /\ heap' = r.heap
          /\ at' = [path |-> r.slice, keys |-> Append(Top.keys, key), gov |-> Top.gov]
    /\ todo' = Candidates(key) /\ best' = 0
    /\ UNCHANGED <<body, stack>>

\* One round of match's loops.
Consider(n) ==
    /\ pc = "match" /\ n \in todo
    /\ \A m \in todo \ {n} : Before(n, m)
    /\ todo' = todo \ {n}
    /\ best' = IF matches(n, Content(at.path)) /\ (best = 0 \/ moreSpecificThan(n, best))
               THEN n ELSE best
    /\ UNCHANGED <<src, out, changed, body, heap, stack, at, pc>>

\* Variant: a member no pattern is anchored at is governed by nothing.
VariantNoInheritance == IF best = 0 THEN 0 ELSE Patterns[best].rule

\* childGov.
ChildGov == IF best = 0 THEN at.gov ELSE Patterns[best].rule

EndMatch ==
    /\ pc = "match" /\ todo = {} /\ pc' = "value"
    /\ at' = [at EXCEPT !.gov = ChildGov]
    /\ UNCHANGED <<src, out, changed, body, heap, stack, todo, best>>

\* Where the next value goes: elements of an array share the array's place.
Place == IF pc = "element" THEN Top ELSE at

Resume(s) == IF s[Len(s)].kind = "object" THEN "member" ELSE "element"

\* value meets a string, a number, or a bool or null, which are one kind here.
ReadScalar(type, text, doc) ==
    /\ pc \in {"value", "element"} /\ pc' = Resume(stack)
    /\ Emit(type, text, doc, Place.keys, Place.gov)
    /\ UNCHANGED <<body, heap, stack, at, todo, best>>

Open(kind, delim) ==
    /\ pc \in {"value", "element"} /\ Len(stack) < MaxDepth
    /\ Emit(delim, "", <<>>, Place.keys, 0)
    /\ stack' = Append(stack, [kind |-> kind, place |-> Place])
    /\ pc' = Resume(stack')
    /\ UNCHANGED <<body, heap, at, todo, best>>

\* The end of an object or array inside the document.
Close(delim) ==
    /\ pc = (IF delim = "}" THEN "member" ELSE "element") /\ Len(stack) > 1
    /\ Emit(delim, "", <<>>, Top.keys, 0)
    /\ stack' = SubSeq(stack, 1, Len(stack) - 1)
    /\ pc' = Resume(stack')
    /\ UNCHANGED <<body, heap, at, todo, best>>

\* Variant: the test of `changed' is inverted.
VariantOriginal == IF changed' THEN src' ELSE out'

\* The original body if no value changed, else what was written.
Result == IF changed' THEN out' ELSE src'

\* The end of the document; whatever follows it is not read.
Finish ==
    /\ pc = "member" /\ Len(stack) = 1 /\ pc' = "done"
    /\ Emit("}", "", <<>>, <<>>, 0)
    /\ body' = Result
    /\ UNCHANGED <<heap, stack, at, todo, best>>

\* The decoder finds the input ended or malformed, or no object at its start.
Fail ==
    /\ pc \in {"start", "member", "value", "element"} /\ pc' = "failed"
    /\ UNCHANGED <<src, out, changed, body, heap, stack, at, todo, best>>

Done == pc \in {"done", "failed"} /\ UNCHANGED vars

Next ==
    \/ Start \/ (\E key \in Keys : ReadKey(key)) \/ (\E n \in Orders : Consider(n))
    \/ EndMatch
    \/ (\E text \in Texts, doc \in Docs : ReadScalar("string", text, doc))
    \/ (\E text \in Numbers : ReadScalar("number", text, <<>>))
    \/ ReadScalar("null", "null", <<>>)
    \/ Open("object", "{") \/ Open("array", "[") \/ Close("}") \/ Close("]")
    \/ Finish \/ Fail \/ Done

Spec == Init /\ [][Next]_vars

-----------------------------------------------------------------------------
(* Properties.                                                             *)

\* However slices share arrays, each frame's slice, and the member's, reads as
\* the keys on the way to it: no sibling's append shows through in a path that
\* is still in use.
SlicesHoldPaths ==
    /\ \A i \in DOMAIN stack : Content(stack[i].place.path) = stack[i].place.keys
    /\ pc \in {"match", "value"} => Content(at.path) = at.keys

\* The governing rule handed down the recursion is that of the anchor nearest
\* to the value, whatever was matched above, beside or below it.
GovernedByNearestAnchor ==
    /\ \A i \in DOMAIN stack : stack[i].place.gov = Governor(stack[i].place.keys)
    /\ pc = "value" => at.gov = Governor(at.keys)

\* match's two loops end with the pattern the documented ranking puts first
\* among all patterns that match, though they look at some of them only.
MatchFindsBest ==
    pc = "match" /\ todo = {} =>
        best = IF Matching(at.keys) = {} THEN 0 ELSE Best(at.keys)

Promise == INSTANCE MaskedDocument
    WITH status <- IF pc \in {"done", "failed"} THEN pc ELSE "reading"

\* The document delivered has the upstream's tokens in their order, each leaf
\* rewritten by the rule that governs its path and nothing else touched.
DeliversMaskedDocument == Promise!Spec
=============================================================================
