----------------------- MODULE GraphQLDocumentProofs -----------------------
(***************************************************************************)
(* Proofs about GraphQLDocument, for every block of rules and every        *)
(* document: type correctness; path slices hold the paths they stand for;  *)
(* the rule handed down is the nearest anchor's; match finds the best      *)
(* pattern; and docWriter implements MaskedDocument.                       *)
(***************************************************************************)
EXTENDS GraphQLDocument, KeyPathsProofs

Types == {"{", "}", "[", "]", "key", "string", "number", "null"}
Strings == Keys \union Texts \union Numbers \union {"", "null"}
Governors == Rules \union {0}

\* A slice holds the keys on the way to its place, position by position.
HoldsIn(h, s, keys) ==
    /\ s.array \in 1 .. Len(h)
    /\ s.len = Len(keys) /\ s.len <= Len(h[s.array])
    /\ \A i \in 1 .. s.len : h[s.array][i] = keys[i]

Holds(h, p) == HoldsIn(h, p.path, p.keys)

\* The slices in use hold their paths, and none is longer than those further
\* down, whose appends therefore cannot reach into it.
SliceInv ==
    /\ heap # <<>>
    /\ \A i \in DOMAIN stack : Holds(heap, stack[i].place)
    /\ \A i, j \in DOMAIN stack :
          i <= j => stack[i].place.path.len <= stack[j].place.path.len
    /\ pc \in {"match", "value"} =>
          Holds(heap, at) /\ Top.path.len <= at.path.len

\* Every place is governed by its nearest anchor.
GovernedInv ==
    /\ \A i \in DOMAIN stack :
          /\ HasNearest(stack[i].place.keys)
          /\ stack[i].place.gov = Governor(stack[i].place.keys)
    /\ pc = "value" => HasNearest(at.keys) /\ at.gov = Governor(at.keys)

\* Of the patterns match has looked at, it keeps the best that matches; those it
\* will not look at cannot match.
ScanInv ==
    pc = "match" =>
        /\ at.gov = Top.gov /\ \E k \in Keys : at.keys = Append(Top.keys, k)
        /\ best # 0 => best \in Matching(at.keys)
        /\ \A m \in Matching(at.keys) \ todo : best # 0 /\ (m = best \/ Outranks(best, m))

\* What is written is what was read, masked.
Rewritten == {Rewrite(t, g) : t \in Tokens, g \in Governors}

WrittenInv ==
    /\ out \in Seq(Rewritten)
    /\ \A i \in 1 .. Len(src) : out[i] = Rewrite(src[i], Governor(src[i].path))
    /\ ~changed => out = src

IInv == TypeOK /\ SliceInv /\ GovernedInv /\ ScanInv /\ WrittenInv

-----------------------------------------------------------------------------
(* Slices.                                                                 *)

\* A slice's content is a path if it is that path position by position.
LEMMA ContentOfSlice ==
    ASSUME heap \in Seq(Paths), NEW p \in Places, Holds(heap, p)
    PROVE  Content(p.path) = p.keys
  <1>1. /\ p.keys \in Seq(Keys) /\ p.path.len \in Nat /\ Len(p.keys) = p.path.len
        /\ heap[p.path.array] \in Seq(Keys)
    BY ElementOfSeq DEF Places, Paths, Holds, HoldsIn
  <1> DEFINE s == heap[p.path.array]
             n == p.path.len
  <1>2. s \in Seq(Keys) /\ n \in Nat /\ n <= Len(s) /\ Len(s) \in Nat
    BY <1>1, LenProperties DEF Holds, HoldsIn
  <1>3. \A i \in 1 .. n : s[i] \in Keys /\ s[i] = p.keys[i]
    BY <1>2, ElementOfSeq DEF Holds, HoldsIn
  <1> HIDE DEF s, n
  <1>4. /\ SubSeq(s, 1, n) \in Seq(Keys) /\ Len(SubSeq(s, 1, n)) = n
        /\ \A i \in 1 .. n : SubSeq(s, 1, n)[i] = s[i]
    BY <1>2, <1>3, SubSeqProperties, Z3
  <1>5. SubSeq(s, 1, n) = p.keys
    BY <1>1, <1>3, <1>4, SeqEqual DEF n
  <1>6. QED
    BY <1>5 DEF Content, s, n

\* append gives a slice that holds one key more, and leaves every slice alone
\* that is not longer than the one it appends to.
LEMMA AppendSlice ==
    ASSUME heap \in Seq(Paths), NEW p \in Places, Holds(heap, p), NEW key \in Keys,
           NEW r \in Appended(p.path, key)
    PROVE  /\ r.heap \in Seq(Paths)
           /\ r.slice \in [array : Nat, len : Nat] /\ r.slice.len = p.path.len + 1
           /\ HoldsIn(r.heap, r.slice, Append(p.keys, key))
           /\ \A q \in Places :
                 Holds(heap, q) /\ q.path.len <= p.path.len => Holds(r.heap, q)
  <1> DEFINE a == p.path.array
             n == p.path.len
             keys == Append(p.keys, key)
  <1>1. /\ a \in 1 .. Len(heap) /\ Len(heap) \in Nat
        /\ n \in Nat /\ n = Len(p.keys) /\ p.keys \in Seq(Keys)
        /\ heap[a] \in Seq(Keys) /\ Len(heap[a]) \in Nat /\ n <= Len(heap[a])
        /\ \A i \in 1 .. n : heap[a][i] = p.keys[i]
        /\ p.path = [array |-> a, len |-> n]
    <2>1. a \in 1 .. Len(heap) /\ heap[a] \in Seq(Keys)
      BY ElementOfSeq DEF Holds, HoldsIn, Paths
    <2>2. QED
      BY <2>1, LenProperties DEF Holds, HoldsIn, Places, Paths
  <1>2. /\ keys \in Seq(Keys) /\ Len(keys) = n + 1 /\ keys[n + 1] = key
        /\ \A i \in 1 .. n : keys[i] = p.keys[i]
    BY <1>1, AppendProperties
  <1> HIDE DEF a, n, keys
  <1>3. CASE n < Len(heap[a])
    <2> DEFINE array == [heap[a] EXCEPT ![n + 1] = key]
    <2>1. r.heap = [heap EXCEPT ![a] = array] /\ r.slice = [array |-> a, len |-> n + 1]
      BY <1>1, <1>3 DEF Appended
    <2>2. n + 1 \in 1 .. Len(heap[a])
      BY <1>1, <1>3
    <2>3. /\ array \in Seq(Keys) /\ Len(array) = Len(heap[a])
          /\ \A j \in 1 .. Len(heap[a]) : array[j] = IF j = n + 1 THEN key ELSE heap[a][j]
      BY <1>1, <2>2, ExceptSeq
    <2> HIDE DEF array
    <2>4. /\ r.heap \in Seq(Paths) /\ Len(r.heap) = Len(heap)
          /\ \A j \in 1 .. Len(heap) : r.heap[j] = IF j = a THEN array ELSE heap[j]
      BY <1>1, <2>1, <2>3, ExceptSeq DEF Paths
    <2>5. HoldsIn(r.heap, r.slice, keys)
      <3>1. \A i \in 1 .. n + 1 : i \in 1 .. Len(heap[a]) /\ array[i] = keys[i]
        BY <1>1, <1>2, <2>2, <2>3
      <3>2. QED
        BY <1>1, <1>2, <2>1, <2>2, <2>3, <2>4, <3>1 DEF HoldsIn
    <2>6. ASSUME NEW q \in Places, Holds(heap, q), q.path.len <= n
          PROVE  Holds(r.heap, q)
      <3>1. /\ q.path.len \in Nat /\ q.path.array \in 1 .. Len(heap)
            /\ q.path.len <= Len(heap[q.path.array])
        BY <2>6 DEF Holds, HoldsIn, Places
      <3>2. \A i \in 1 .. q.path.len : r.heap[q.path.array][i] = heap[q.path.array][i]
        <4>1. CASE q.path.array = a
          <5>1. \A i \in 1 .. q.path.len : i \in 1 .. Len(heap[a]) /\ i # n + 1
            BY <1>1, <2>6, <3>1, <4>1
          <5>2. QED
            BY <1>1, <2>3, <2>4, <4>1, <5>1
        <4>2. CASE q.path.array # a
          BY <2>4, <3>1, <4>2
        <4>3. QED
          BY <4>1, <4>2
      <3>3. Len(r.heap[q.path.array]) = Len(heap[q.path.array])
        BY <2>3, <2>4, <3>1
      <3>4. QED
        BY <2>4, <2>6, <3>1, <3>2, <3>3 DEF Holds, HoldsIn
    <2>7. QED
      <3>1. r.slice \in [array : Nat, len : Nat] /\ r.slice.len = n + 1
        BY <1>1, <2>1
      <3>2. QED
        BY <2>4, <2>5, <2>6, <3>1 DEF keys, n
  <1>4. CASE ~(n < Len(heap[a]))
    <2>1. PICK m \in Spare :
            r = [heap |-> Append(heap, Append(Content(p.path), key) \o [i \in 1 .. m |-> key]),
                 slice |-> [array |-> Len(heap) + 1, len |-> n + 1]]
      BY <1>4 DEF Appended, a, n
    <2> DEFINE pad == [i \in 1 .. m |-> key]
               array == keys \o pad
    <2>2. m \in Nat /\ pad \in Seq(Keys)
      BY SpareAssumption, SeqDef
    <2> HIDE DEF pad
    <2>3. /\ array \in Seq(Keys) /\ Len(array) = n + 1 + Len(pad)
          /\ \A i \in 1 .. n + 1 + Len(pad) :
                array[i] = IF i <= n + 1 THEN keys[i] ELSE pad[i - (n + 1)]
      <3>1. /\ array \in Seq(Keys) /\ Len(array) = Len(keys) + Len(pad)
            /\ \A i \in 1 .. Len(keys) + Len(pad) :
                  array[i] = IF i <= Len(keys) THEN keys[i] ELSE pad[i - Len(keys)]
        BY <1>2, <2>2, ConcatProperties
      <3>2. QED
        BY <1>2, <3>1
    <2>4. Len(pad) \in Nat
      BY <2>2, LenProperties
    <2>5. r.heap = Append(heap, array) /\ r.slice = [array |-> Len(heap) + 1, len |-> n + 1]
      BY <2>1, ContentOfSlice DEF keys, pad
    <2> HIDE DEF array
    <2>6. /\ r.heap \in Seq(Paths) /\ Len(r.heap) = Len(heap) + 1
          /\ r.heap[Len(heap) + 1] = array
          /\ \A j \in 1 .. Len(heap) : r.heap[j] = heap[j]
      BY <2>3, <2>5, AppendProperties DEF Paths
    <2>7. \A i \in 1 .. n + 1 : array[i] = keys[i]
      BY <1>1, <2>3, <2>4
    <2>8. HoldsIn(r.heap, r.slice, keys)
      <3>1. Len(heap) + 1 \in 1 .. Len(r.heap) /\ n + 1 <= Len(array)
        BY <1>1, <2>3, <2>4, <2>6
      <3>2. QED
        BY <1>2, <2>5, <2>6, <2>7, <3>1 DEF HoldsIn
    <2>9. ASSUME NEW q \in Places, Holds(heap, q) PROVE Holds(r.heap, q)
      <3>1. q.path.array \in 1 .. Len(heap) /\ q.path.array \in 1 .. Len(r.heap)
        BY <1>1, <2>6, <2>9 DEF Holds, HoldsIn
      <3>2. QED
        BY <2>6, <2>9, <3>1 DEF Holds, HoldsIn
    <2>10. QED
      BY <1>1, <2>5, <2>6, <2>8, <2>9 DEF keys, n
  <1>5. QED
    BY <1>3, <1>4

-----------------------------------------------------------------------------
(* Writing.                                                                *)

\* A token written under the rule that governs it keeps WrittenInv.
LEMMA EmitWrites ==
    ASSUME TypeOK, WrittenInv,
           NEW type \in Types, NEW text \in Strings, NEW doc \in Docs \union {<<>>},
           NEW keys \in Paths, NEW gov \in Governors,
           type \in {"string", "number"} => gov = Governor(keys),
           Emit(type, text, doc, keys, gov)
    PROVE  /\ src' \in Seq(Tokens) /\ Len(src') = Len(src) + 1 /\ Len(out') = Len(src')
           /\ changed' \in BOOLEAN
           /\ WrittenInv'
  <1> DEFINE t == Token(type, text, doc, keys)
             w == Rewrite(t, gov)
  <1>1. t \in Tokens /\ t.type = type /\ t.path = keys
    BY DEF Token, Tokens, Types, Strings
  <1>2. w = Rewrite(t, Governor(t.path))
    BY <1>1 DEF Rewrite
  <1>3. w \in Rewritten
    BY <1>1 DEF Rewritten
  <1>4. src' = Append(src, t) /\ out' = Append(out, w) /\ changed' = (changed \/ w # t)
    BY DEF Emit
  <1> HIDE DEF t, w
  <1>5. /\ src \in Seq(Tokens) /\ out \in Seq(Rewritten) /\ Len(out) = Len(src)
        /\ Len(src) \in Nat
    BY LenProperties DEF TypeOK, WrittenInv
  <1>6. /\ src' \in Seq(Tokens) /\ Len(src') = Len(src) + 1
        /\ src'[Len(src) + 1] = t /\ \A i \in 1 .. Len(src) : src'[i] = src[i]
    BY <1>1, <1>4, <1>5, AppendProperties
  <1>7. /\ out' \in Seq(Rewritten) /\ Len(out') = Len(src) + 1
        /\ out'[Len(src) + 1] = w /\ \A i \in 1 .. Len(src) : out'[i] = out[i]
    BY <1>3, <1>4, <1>5, AppendProperties
  <1>8. \A i \in 1 .. Len(src') : out'[i] = Rewrite(src'[i], Governor(src'[i].path))
    <2>1. \A i \in 1 .. Len(src') : i \in 1 .. Len(src) \/ i = Len(src) + 1
      BY <1>5, <1>6
    <2>2. \A i \in 1 .. Len(src) : out[i] = Rewrite(src[i], Governor(src[i].path))
      BY DEF WrittenInv
    <2>3. QED
      BY <1>2, <1>6, <1>7, <2>1, <2>2
  <1>9. ~changed' => out' = src'
    BY <1>4 DEF WrittenInv
  <1>10. changed' \in BOOLEAN
    BY <1>4 DEF TypeOK
  <1>11. QED
    BY <1>6, <1>7, <1>8, <1>9, <1>10 DEF WrittenInv

\* What WrittenInv says of a document and what is written for it.
LEMMA WrittenIsMasked ==
    ASSUME NEW s \in Seq(Tokens), NEW w \in Seq(Rewritten), Len(w) = Len(s),
           \A i \in 1 .. Len(s) : w[i] = Rewrite(s[i], Governor(s[i].path))
    PROVE  w = Masked(s)
  <1>1. w \in [1 .. Len(w) -> Rewritten] /\ DOMAIN s = 1 .. Len(s)
    BY LenProperties
  <1>2. w = [i \in 1 .. Len(s) |-> Rewrite(s[i], Governor(s[i].path))]
    BY <1>1
  <1>3. QED
    BY <1>1, <1>2 DEF Masked

\* Whatever is written for it, a token is read after the others.
LEMMA EmitReads ==
    ASSUME TypeOK, NEW type, NEW text, NEW doc, NEW keys, NEW gov,
           Emit(type, text, doc, keys, gov)
    PROVE  Promise!OneMoreToken
  <1> DEFINE t == Token(type, text, doc, keys)
             S == Tokens \union {t}
  <1>1. src' = Append(src, t) /\ t \in S
    BY DEF Emit
  <1>2. src \in Seq(S)
    <2>1. src \in Seq(Tokens) /\ Tokens \subseteq S
      BY DEF TypeOK
    <2> HIDE DEF S
    <2>2. QED
      BY <2>1, SeqDef
  <1> HIDE DEF t, S
  <1>3. /\ Len(src) \in Nat /\ Len(src') = Len(src) + 1
        /\ \A i \in 1 .. Len(src) : src'[i] = src[i] /\ src'[i] \in S
    BY <1>1, <1>2, AppendProperties, LenProperties, ElementOfSeq
  <1>4. /\ SubSeq(src', 1, Len(src)) \in Seq(S)
        /\ Len(SubSeq(src', 1, Len(src))) = Len(src)
        /\ \A i \in 1 .. Len(src) : SubSeq(src', 1, Len(src))[i] = src'[i]
    BY <1>3, SubSeqProperties, Z3
  <1>5. SubSeq(src', 1, Len(src)) = src
    BY <1>2, <1>3, <1>4, SeqEqual
  <1>6. QED
    BY <1>3, <1>5 DEF Promise!OneMoreToken

-----------------------------------------------------------------------------
(* The stack of frames.                                                    *)

\* Pushing onto a sequence.
LEMMA Push ==
    ASSUME NEW S, NEW s \in Seq(S), NEW x \in S
    PROVE  /\ Append(s, x) \in Seq(S) /\ Append(s, x) # <<>>
           /\ Len(s) \in Nat /\ Len(Append(s, x)) = Len(s) + 1
           /\ DOMAIN s = 1 .. Len(s) /\ DOMAIN Append(s, x) = 1 .. Len(s) + 1
           /\ Append(s, x)[Len(s) + 1] = x
           /\ \A i \in 1 .. Len(s) : Append(s, x)[i] = s[i]
  BY AppendProperties, LenProperties

\* Popping from a sequence that stays non-empty.
LEMMA Pop ==
    ASSUME NEW S, NEW s \in Seq(S), Len(s) > 1
    PROVE  /\ SubSeq(s, 1, Len(s) - 1) \in Seq(S) /\ SubSeq(s, 1, Len(s) - 1) # <<>>
           /\ \A i \in DOMAIN SubSeq(s, 1, Len(s) - 1) :
                 i \in DOMAIN s /\ SubSeq(s, 1, Len(s) - 1)[i] = s[i]
  <1> DEFINE t == SubSeq(s, 1, Len(s) - 1)
  <1>1. Len(s) \in Nat /\ DOMAIN s = 1 .. Len(s)
    BY LenProperties
  <1>2. \A i \in 1 .. Len(s) - 1 : s[i] \in S
    BY <1>1, ElementOfSeq
  <1>3. /\ t \in Seq(S) /\ Len(t) = Len(s) - 1
        /\ \A i \in 1 .. Len(s) - 1 : t[i] = s[i]
    BY <1>1, <1>2, SubSeqProperties, Z3
  <1> HIDE DEF t
  <1>4. DOMAIN t = 1 .. Len(s) - 1
    BY <1>3, LenProperties
  <1>5. t # <<>>
    BY <1>1, <1>3, EmptySeq
  <1>6. \A i \in 1 .. Len(s) - 1 : i \in 1 .. Len(s)
    BY <1>1
  <1>7. QED
    BY <1>1, <1>3, <1>4, <1>5, <1>6 DEF t

-----------------------------------------------------------------------------
(* The steps, one by one.                                                  *)

\* The innermost frame is a frame.
LEMMA TopFacts ==
    ASSUME TypeOK, stack # <<>>
    PROVE  /\ Len(stack) \in Nat \ {0} /\ DOMAIN stack = 1 .. Len(stack)
           /\ Len(stack) \in DOMAIN stack
           /\ Top \in Places /\ Top.keys \in Paths /\ Top.gov \in Governors
           /\ Top.path.len \in Nat
  <1>1. stack \in Seq(Frames)
    BY DEF TypeOK
  <1>2. /\ Len(stack) \in Nat \ {0} /\ DOMAIN stack = 1 .. Len(stack)
        /\ Len(stack) \in 1 .. Len(stack)
    BY <1>1, LenProperties, EmptySeq
  <1>3. stack[Len(stack)] \in Frames
    BY <1>1, <1>2, ElementOfSeq
  <1>4. QED
    BY <1>2, <1>3 DEF Top, Frames, Places, Governors

\* Where the next value goes is a place that is held by its slice and governed
\* as it should be.
LEMMA PlaceFacts ==
    ASSUME IInv, pc \in {"value", "element"}
    PROVE  /\ stack # <<>> /\ Place \in Places /\ Place.keys \in Paths /\ Place.gov \in Governors
           /\ Place.path.len \in Nat /\ Holds(heap, Place)
           /\ HasNearest(Place.keys) /\ Place.gov = Governor(Place.keys)
           /\ \A i \in DOMAIN stack : stack[i].place.path.len <= Place.path.len
  <1>1. stack # <<>>
    BY DEF IInv, TypeOK
  <1>2. /\ Len(stack) \in DOMAIN stack /\ Top \in Places /\ Top.path.len \in Nat
        /\ DOMAIN stack = 1 .. Len(stack) /\ Len(stack) \in Nat
        /\ Top = stack[Len(stack)].place
    BY <1>1, TopFacts DEF IInv, Top
  <1>3. \A i \in DOMAIN stack : stack[i].place.path.len <= Top.path.len
    BY <1>2 DEF IInv, SliceInv
  <1>4. CASE pc = "element"
    <2>1. Place = Top
      BY <1>4 DEF Place
    <2>2. QED
      BY <1>1, <1>2, <1>3, <2>1 DEF IInv, SliceInv, GovernedInv, Places, Governors
  <1>5. CASE pc = "value"
    <2>1. Place = at /\ at \in Places /\ Top.path.len <= at.path.len
      BY <1>5 DEF Place, IInv, TypeOK, SliceInv
    <2>2. \A i \in DOMAIN stack : stack[i].place.path.len \in Int
      <3>1. \A i \in DOMAIN stack : stack[i] \in Frames
        BY <1>2, ElementOfSeq DEF IInv, TypeOK
      <3>2. QED
        BY <3>1 DEF Frames, Places
    <2>3. at.path.len \in Nat /\ at.keys \in Paths /\ at.gov \in Governors
      BY <2>1 DEF Places, Governors
    <2>4. \A i \in DOMAIN stack : stack[i].place.path.len <= at.path.len
      BY <1>2, <1>3, <2>1, <2>2, <2>3
    <2>5. QED
      BY <1>1, <1>5, <2>1, <2>3, <2>4 DEF IInv, SliceInv, GovernedInv
  <1>6. QED
    BY <1>4, <1>5

\* Frames that stay as they are keep what is said of them.
LEMMA SameFrames ==
    ASSUME SliceInv, GovernedInv, UNCHANGED <<heap, stack>>,
           pc' \notin {"match", "value"}
    PROVE  SliceInv' /\ GovernedInv' /\ ScanInv'
  BY DEF SliceInv, GovernedInv, ScanInv

\* The invariant holds before the first token.
LEMMA InitInv == Init => IInv
  <1> SUFFICES ASSUME Init PROVE IInv
    OBVIOUS
  <1>1. <<>> \in Seq(Tokens) /\ <<>> \in Seq(Frames) /\ <<>> \in Seq(Rewritten)
        /\ <<>> \in Paths /\ Len(<<>>) = 0 /\ DOMAIN <<>> = {}
    BY EmptySeq DEF Paths
  <1>2. << <<>> >> \in Seq(Paths) /\ << <<>> >> # <<>>
    BY <1>1
  <1>3. Root \in Places
    BY <1>1 DEF Root, Places
  <1>4. QED
    <2>1. TypeOK
      BY <1>1, <1>2, <1>3 DEF Init, TypeOK
    <2>2. SliceInv /\ GovernedInv /\ ScanInv
      BY <1>1, <1>2 DEF Init, SliceInv, GovernedInv, ScanInv
    <2>3. WrittenInv
      BY <1>1 DEF Init, WrittenInv
    <2>4. QED
      BY <2>1, <2>2, <2>3 DEF IInv

\* A stack of one frame.
LEMMA OneFrame ==
    ASSUME NEW f \in Frames
    PROVE  /\ <<f>> \in Seq(Frames) /\ <<f>> # <<>> /\ Len(<<f>>) = 1
           /\ <<f>>[1] = f /\ DOMAIN <<f>> = 1 .. 1
  OBVIOUS

\* MaskDocument's first token opens a frame at the root, which nothing governs.
LEMMA StartStep == ASSUME IInv, Start PROVE IInv'
  <1>1. /\ pc' = "member" /\ Emit("{", "", <<>>, <<>>, 0)
        /\ stack' = <<[kind |-> "object", place |-> Root]>>
        /\ UNCHANGED <<body, heap, at, todo, best>>
    BY DEF Start
  <1>2. /\ src' \in Seq(Tokens) /\ Len(out') = Len(src') /\ changed' \in BOOLEAN
        /\ WrittenInv'
    <2>1. <<>> \in Paths
      BY EmptySeq DEF Paths
    <2>2. QED
      BY <1>1, <2>1, EmitWrites DEF IInv, Types, Strings, Governors
  <1>3. Root \in Places /\ Root.path = [array |-> 1, len |-> 0] /\ Root.keys = <<>> /\ Root.gov = 0
    BY EmptySeq DEF Root, Places, Paths
  <1>4. /\ stack' \in Seq(Frames) /\ stack' # <<>> /\ Len(stack') = 1
        /\ stack'[1].place = Root /\ DOMAIN stack' = 1 .. 1
    <2>1. [kind |-> "object", place |-> Root] \in Frames
      BY <1>3 DEF Frames
    <2>2. QED
      BY <1>1, <2>1, OneFrame
  <1>5. TypeOK'
    BY <1>1, <1>2, <1>4 DEF IInv, TypeOK
  <1>6. Holds(heap, Root)
    <2>1. heap \in Seq(Paths) /\ Len(heap) \in Nat \ {0}
      BY EmptySeq DEF IInv, TypeOK, SliceInv
    <2>2. heap[1] \in Seq(Keys) /\ 1 \in 1 .. Len(heap)
      BY <2>1, ElementOfSeq DEF Paths
    <2>3. Len(heap[1]) \in Nat /\ Len(<<>>) = 0
      BY <2>2, LenProperties
    <2>4. QED
      BY <1>3, <2>2, <2>3 DEF Holds, HoldsIn
  <1>7. SliceInv'
    <2>1. \A i \in DOMAIN stack' : i = 1
      BY <1>4
    <2>2. \A i \in DOMAIN stack' : Holds(heap', stack'[i].place)
      BY <1>1, <1>4, <1>6, <2>1
    <2>3. \A i, j \in DOMAIN stack' :
             i <= j => stack'[i].place.path.len <= stack'[j].place.path.len
      BY <1>3, <1>4, <2>1
    <2>4. heap' # <<>> /\ pc' \notin {"match", "value"}
      BY <1>1 DEF IInv, SliceInv
    <2>5. QED
      BY <2>2, <2>3, <2>4 DEF SliceInv
  <1>8. GovernedInv'
    <2>1. \A i \in DOMAIN stack' : i = 1
      BY <1>4
    <2>2. QED
      BY <1>1, <1>3, <1>4, <2>1, RootHasNearest DEF GovernedInv
  <1>9. ScanInv'
    BY <1>1 DEF ScanInv
  <1>10. QED
    BY <1>2, <1>5, <1>7, <1>8, <1>9 DEF IInv

\* A key's slice holds the key after its parent's path, and match has yet to look
\* at every pattern that can match it.
LEMMA ReadKeyStep == ASSUME IInv, NEW key \in Keys, ReadKey(key) PROVE IInv'
  <1>1. /\ pc = "member" /\ pc' = "match"
        /\ Emit("key", key, <<>>, Append(Top.keys, key), 0)
        /\ todo' = Candidates(key) /\ best' = 0
        /\ UNCHANGED <<body, stack>>
    BY DEF ReadKey
  <1>2. PICK r \in Appended(Top.path, key) :
          /\ heap' = r.heap
          /\ at' = [path |-> r.slice, keys |-> Append(Top.keys, key), gov |-> Top.gov]
    BY DEF ReadKey, ParentPath
  <1>3. /\ stack # <<>> /\ Len(stack) \in Nat /\ DOMAIN stack = 1 .. Len(stack)
        /\ Len(stack) \in DOMAIN stack /\ Top \in Places /\ Top.keys \in Paths
        /\ Top.gov \in Governors /\ Top.path.len \in Nat /\ Top = stack[Len(stack)].place
    BY <1>1, TopFacts DEF IInv, TypeOK, Top
  <1>4. heap \in Seq(Paths) /\ Holds(heap, Top)
    BY <1>3 DEF IInv, TypeOK, SliceInv
  <1>5. /\ heap' \in Seq(Paths) /\ at'.path.len = Top.path.len + 1
        /\ r.slice \in [array : Nat, len : Nat]
        /\ Holds(heap', at')
        /\ \A q \in Places : Holds(heap, q) /\ q.path.len <= Top.path.len => Holds(heap', q)
    BY <1>2, <1>3, <1>4, AppendSlice DEF Holds
  <1>6. Append(Top.keys, key) \in Paths
    BY <1>3, AppendProperties DEF Paths
  <1>7. /\ src' \in Seq(Tokens) /\ Len(out') = Len(src') /\ changed' \in BOOLEAN
        /\ WrittenInv'
    BY <1>1, <1>6, EmitWrites DEF IInv, Types, Strings, Governors
  <1>8. TypeOK'
    <2>1. at' \in Places
      BY <1>2, <1>3, <1>5, <1>6 DEF Places, Governors
    <2>2. Candidates(key) \subseteq Orders
      BY DEF Candidates
    <2>3. QED
      BY <1>1, <1>3, <1>5, <1>7, <2>1, <2>2 DEF IInv, TypeOK
  <1>9. SliceInv'
    <2>1. \A i \in DOMAIN stack : Holds(heap', stack[i].place)
      <3>1. ASSUME NEW i \in DOMAIN stack
            PROVE  /\ stack[i].place \in Places /\ Holds(heap, stack[i].place)
                   /\ stack[i].place.path.len <= Top.path.len
        <4>1. stack[i] \in Frames
          BY <1>3, ElementOfSeq DEF IInv, TypeOK
        <4>2. QED
          BY <1>3, <4>1 DEF IInv, SliceInv, Frames
      <3>2. QED
        BY <1>5, <3>1
    <2>2. heap' # <<>>
      BY <1>5, EmptySeq DEF Holds, HoldsIn
    <2>3. Top' = Top
      BY <1>1 DEF Top
    <2>4. Top.path.len <= at'.path.len
      BY <1>3, <1>5
    <2>5. QED
      BY <1>1, <1>5, <2>1, <2>2, <2>3, <2>4 DEF IInv, SliceInv
  <1>10. GovernedInv'
    BY <1>1 DEF IInv, GovernedInv
  <1>11. ScanInv'
    <2>1. Matching(at'.keys) \ Candidates(key) = {}
      BY <1>2, <1>3, MatchingByLast DEF Candidates
    <2>2. Top' = Top
      BY <1>1 DEF Top
    <2>3. QED
      BY <1>1, <1>2, <2>1, <2>2 DEF ScanInv
  <1>12. QED
    BY <1>7, <1>8, <1>9, <1>10, <1>11 DEF IInv

\* A round of match keeps the better of two patterns that match.
LEMMA ConsiderStep == ASSUME IInv, NEW n \in Orders, Consider(n) PROVE IInv'
  <1>1. /\ pc = "match" /\ n \in todo /\ todo' = todo \ {n}
        /\ UNCHANGED <<src, out, changed, body, heap, stack, at, pc>>
        /\ best' = IF matches(n, Content(at.path)) /\ (best = 0 \/ moreSpecificThan(n, best))
                   THEN n ELSE best
    BY DEF Consider
  <1>2. Content(at.path) = at.keys
    BY <1>1, ContentOfSlice DEF IInv, TypeOK, SliceInv
  <1>3. best' = IF n \in Matching(at.keys) /\ (best = 0 \/ moreSpecificThan(n, best))
                THEN n ELSE best
    BY <1>1, <1>2 DEF Matching
  <1>4. TypeOK'
    BY <1>1, <1>3 DEF IInv, TypeOK
  <1>5. SliceInv' /\ GovernedInv' /\ WrittenInv'
    BY <1>1 DEF IInv, SliceInv, GovernedInv, WrittenInv, Top
  <1>6. ScanInv'
    <2>1. /\ at.gov = Top.gov /\ \E k \in Keys : at.keys = Append(Top.keys, k)
          /\ best # 0 => best \in Matching(at.keys)
          /\ \A m \in Matching(at.keys) \ todo : best # 0 /\ (m = best \/ Outranks(best, m))
      BY <1>1 DEF IInv, ScanInv
    <2>2. Matching(at.keys) \subseteq Orders /\ 0 \notin Orders
      <3>1. \A m \in Orders : m \in 1 .. Len(Patterns)
        BY PatternFacts
      <3>2. QED
        BY <3>1 DEF Matching
    <2>3. best' # 0 => best' \in Matching(at.keys)
      BY <1>3, <2>1
    <2>4. ASSUME NEW m \in Matching(at.keys) \ (todo \ {n})
          PROVE  best' # 0 /\ (m = best' \/ Outranks(best', m))
      <3>1. m = n \/ m \in Matching(at.keys) \ todo
        OBVIOUS
      <3>2. CASE best = 0
        BY <1>3, <2>1, <2>2, <3>1, <3>2
      <3>3. CASE best # 0 /\ best' = n /\ n # best
        <4>1. Outranks(n, best)
          BY <1>3, <2>1, <2>2, <3>3, SpecificityIsRank
        <4>2. QED
          BY <2>1, <2>2, <3>1, <3>3, <4>1, RankIsTransitive
      <3>4. CASE best # 0 /\ best' = best
        <4>1. CASE m = n /\ n # best
          <5>1. n \in Matching(at.keys) /\ ~moreSpecificThan(n, best)
            BY <1>3, <2>4, <3>4, <4>1
          <5>2. QED
            BY <2>1, <2>2, <3>4, <4>1, <5>1, SpecificityIsRank, RankIsTotal
        <4>2. QED
          BY <2>1, <2>4, <3>1, <3>4, <4>1
      <3>5. QED
        BY <1>3, <3>2, <3>3, <3>4
    <2>5. Top' = Top /\ at' = at
      BY <1>1 DEF Top
    <2>6. QED
      BY <1>1, <2>1, <2>3, <2>4, <2>5 DEF ScanInv
  <1>7. QED
    BY <1>4, <1>5, <1>6 DEF IInv

\* childGov is the governor of the member's path.
LEMMA EndMatchStep == ASSUME IInv, EndMatch PROVE IInv'
  <1>1. /\ pc = "match" /\ todo = {} /\ pc' = "value"
        /\ at' = [at EXCEPT !.gov = ChildGov]
        /\ UNCHANGED <<src, out, changed, body, heap, stack, todo, best>>
    BY DEF EndMatch
  <1>2. /\ stack # <<>> /\ Top \in Places /\ Top.keys \in Paths
        /\ Len(stack) \in DOMAIN stack /\ Top = stack[Len(stack)].place
    BY <1>1, TopFacts DEF IInv, TypeOK, Top
  <1>3. /\ at \in Places /\ at' = [path |-> at.path, keys |-> at.keys, gov |-> ChildGov]
    BY <1>1 DEF IInv, TypeOK, Places
  <1>4. /\ at.gov = Top.gov /\ HasNearest(Top.keys) /\ Top.gov = Governor(Top.keys)
        /\ best # 0 => best \in Matching(at.keys)
        /\ \A m \in Matching(at.keys) : best # 0 /\ (m = best \/ Outranks(best, m))
    BY <1>1, <1>2 DEF IInv, ScanInv, GovernedInv
  <1>5. PICK k \in Keys : at.keys = Append(Top.keys, k)
    BY <1>1 DEF IInv, ScanInv
  <1>6. /\ best = 0 => Matching(at.keys) = {}
        /\ best # 0 => Matching(at.keys) # {} /\ Best(at.keys) = best
    BY <1>4, BestIsUnique
  <1>7. HasNearest(at.keys) /\ ChildGov = Governor(at.keys)
    BY <1>2, <1>4, <1>5, <1>6, GovernorOfChild DEF ChildGov
  <1>8. ChildGov \in Governors
    <2>1. best # 0 => Patterns[best].rule \in Rules
      BY <1>4, PatternFacts DEF Matching
    <2>2. QED
      BY <1>3, <2>1 DEF ChildGov, Governors, Places
  <1>9. TypeOK'
    BY <1>1, <1>2, <1>3, <1>8 DEF IInv, TypeOK, Places, Governors
  <1>10. SliceInv'
    BY <1>1, <1>3 DEF IInv, SliceInv, Holds, Top
  <1>11. GovernedInv'
    BY <1>1, <1>3, <1>7 DEF IInv, GovernedInv
  <1>12. ScanInv' /\ WrittenInv'
    BY <1>1 DEF IInv, ScanInv, WrittenInv
  <1>13. QED
    BY <1>9, <1>10, <1>11, <1>12 DEF IInv

\* After a value, the enclosing frame says what is read next.
LEMMA ResumeFacts ==
    ASSUME NEW s
    PROVE  Resume(s) \in {"member", "element"}
  BY DEF Resume

\* A scalar is written under the rule of its place.
LEMMA ReadScalarStep ==
    ASSUME IInv, NEW type \in Types, NEW text \in Strings, NEW doc \in Docs \union {<<>>},
           ReadScalar(type, text, doc)
    PROVE  IInv'
  <1>1. /\ pc \in {"value", "element"} /\ pc' = Resume(stack)
        /\ Emit(type, text, doc, Place.keys, Place.gov)
        /\ UNCHANGED <<body, heap, stack, at, todo, best>>
    BY DEF ReadScalar
  <1>2. /\ stack # <<>> /\ Place.keys \in Paths /\ Place.gov \in Governors
        /\ Place.gov = Governor(Place.keys)
    BY <1>1, PlaceFacts
  <1>3. pc' \in {"member", "element"}
    BY <1>1, ResumeFacts
  <1>4. /\ src' \in Seq(Tokens) /\ Len(out') = Len(src') /\ changed' \in BOOLEAN
        /\ WrittenInv'
    BY <1>1, <1>2, EmitWrites DEF IInv
  <1>5. TypeOK'
    BY <1>1, <1>2, <1>3, <1>4 DEF IInv, TypeOK
  <1>6. SliceInv' /\ GovernedInv' /\ ScanInv'
    BY <1>1, <1>3, SameFrames DEF IInv
  <1>7. QED
    BY <1>4, <1>5, <1>6 DEF IInv

\* A frame opens where the next value goes, which no slice in use is longer than.
LEMMA OpenStep ==
    ASSUME IInv, NEW kind \in {"object", "array"}, NEW delim \in Types \ {"string", "number"},
           Open(kind, delim)
    PROVE  IInv'
  <1> DEFINE f == [kind |-> kind, place |-> Place]
  <1>1. /\ pc \in {"value", "element"} /\ pc' = Resume(stack')
        /\ Emit(delim, "", <<>>, Place.keys, 0)
        /\ stack' = Append(stack, f)
        /\ UNCHANGED <<body, heap, at, todo, best>>
    BY DEF Open
  <1>2. /\ stack # <<>> /\ Place \in Places /\ Place.keys \in Paths
        /\ Place.path.len \in Nat /\ Holds(heap, Place)
        /\ HasNearest(Place.keys) /\ Place.gov = Governor(Place.keys)
        /\ \A i \in DOMAIN stack : stack[i].place.path.len <= Place.path.len
    BY <1>1, PlaceFacts
  <1>3. pc' \in {"member", "element"}
    BY <1>1, ResumeFacts
  <1>4. /\ src' \in Seq(Tokens) /\ Len(out') = Len(src') /\ changed' \in BOOLEAN
        /\ WrittenInv'
    BY <1>1, <1>2, EmitWrites DEF IInv, Strings, Governors
  <1>5. f \in Frames /\ f.place = Place
    BY <1>2 DEF Frames
  <1> HIDE DEF f
  <1>6. /\ stack' \in Seq(Frames) /\ Len(stack') = Len(stack) + 1
        /\ stack'[Len(stack) + 1] = f
        /\ \A i \in 1 .. Len(stack) : stack'[i] = stack[i]
        /\ Len(stack) \in Nat /\ DOMAIN stack = 1 .. Len(stack)
        /\ DOMAIN stack' = 1 .. Len(stack) + 1 /\ stack' # <<>>
    <2>1. stack \in Seq(Frames) /\ stack' = Append(stack, f) /\ f \in Frames
      BY <1>1, <1>5 DEF IInv, TypeOK
    <2>2. QED
      BY <2>1, Push
  <1>8. TypeOK'
    BY <1>1, <1>3, <1>4, <1>6 DEF IInv, TypeOK
  <1>9. \A i \in DOMAIN stack' : \/ i \in DOMAIN stack /\ stack'[i] = stack[i]
                                 \/ i = Len(stack) + 1 /\ stack'[i].place = Place
    <2>1. \A i \in 1 .. Len(stack) + 1 : i \in 1 .. Len(stack) \/ i = Len(stack) + 1
      BY <1>6
    <2>2. QED
      BY <1>5, <1>6, <2>1
  <1>10. SliceInv'
    <2>1. \A i \in DOMAIN stack' : Holds(heap', stack'[i].place)
      BY <1>1, <1>2, <1>9 DEF IInv, SliceInv
    <2>2. ASSUME NEW i \in DOMAIN stack', NEW j \in DOMAIN stack', i <= j
          PROVE  stack'[i].place.path.len <= stack'[j].place.path.len
      <3>1. CASE j \in DOMAIN stack
        <4>1. i \in DOMAIN stack
          BY <1>6, <2>2, <3>1
        <4>2. stack'[i] = stack[i] /\ stack'[j] = stack[j]
          BY <1>6, <3>1, <4>1
        <4>3. QED
          BY <2>2, <3>1, <4>1, <4>2 DEF IInv, SliceInv
      <3>2. CASE j = Len(stack) + 1
        <4>1. stack'[j].place = Place
          BY <1>5, <1>6, <3>2
        <4>2. CASE i \in DOMAIN stack /\ stack'[i] = stack[i]
          BY <1>2, <4>1, <4>2
        <4>3. CASE stack'[i].place = Place
          BY <1>2, <4>1, <4>3
        <4>4. QED
          BY <1>9, <2>2, <4>2, <4>3
      <3>3. QED
        BY <1>9, <3>1, <3>2
    <2>3. heap' # <<>>
      BY <1>1 DEF IInv, SliceInv
    <2>4. QED
      BY <1>3, <2>1, <2>2, <2>3 DEF SliceInv
  <1>11. GovernedInv'
    BY <1>2, <1>3, <1>9 DEF IInv, GovernedInv
  <1>12. ScanInv'
    BY <1>3 DEF ScanInv
  <1>13. QED
    BY <1>4, <1>8, <1>10, <1>11, <1>12 DEF IInv

\* What is left of the stack stays as it was.
LEMMA CloseStep ==
    ASSUME IInv, NEW delim \in Types \ {"string", "number"}, Close(delim)
    PROVE  IInv'
  <1>1. /\ pc \in {"member", "element"} /\ Len(stack) > 1 /\ pc' = Resume(stack')
        /\ Emit(delim, "", <<>>, Top.keys, 0)
        /\ stack' = SubSeq(stack, 1, Len(stack) - 1)
        /\ UNCHANGED <<body, heap, at, todo, best>>
    BY DEF Close
  <1>2. pc' \in {"member", "element"}
    BY <1>1, ResumeFacts
  <1>3. /\ stack # <<>> /\ Len(stack) \in Nat /\ DOMAIN stack = 1 .. Len(stack)
        /\ Top.keys \in Paths
    BY <1>1, TopFacts DEF IInv, TypeOK
  <1>4. /\ src' \in Seq(Tokens) /\ Len(out') = Len(src') /\ changed' \in BOOLEAN
        /\ WrittenInv'
    BY <1>1, <1>3, EmitWrites DEF IInv, Strings, Governors
  <1>5. /\ stack' \in Seq(Frames) /\ stack' # <<>>
        /\ \A i \in DOMAIN stack' : i \in DOMAIN stack /\ stack'[i] = stack[i]
    <2>1. stack \in Seq(Frames)
      BY DEF IInv, TypeOK
    <2>2. QED
      BY <1>1, <2>1, Pop, Zenon
  <1>6. TypeOK'
    BY <1>1, <1>2, <1>4, <1>5 DEF IInv, TypeOK
  <1>7. heap' # <<>> /\ \A i \in DOMAIN stack' : Holds(heap', stack'[i].place)
    BY <1>1, <1>5 DEF IInv, SliceInv
  <1>8. \A i, j \in DOMAIN stack' :
           i <= j => stack'[i].place.path.len <= stack'[j].place.path.len
    BY <1>5 DEF IInv, SliceInv
  <1>9. SliceInv' /\ GovernedInv' /\ ScanInv'
    BY <1>1, <1>2, <1>5, <1>7, <1>8 DEF IInv, SliceInv, GovernedInv, ScanInv
  <1>10. QED
    BY <1>4, <1>6, <1>9 DEF IInv

\* The document's last token ends it.
LEMMA FinishStep == ASSUME IInv, Finish PROVE IInv'
  <1>1. /\ pc = "member" /\ pc' = "done"
        /\ Emit("}", "", <<>>, <<>>, 0)
        /\ UNCHANGED <<heap, stack, at, todo, best>>
    BY DEF Finish
  <1>2. /\ src' \in Seq(Tokens) /\ Len(out') = Len(src') /\ changed' \in BOOLEAN
        /\ WrittenInv'
    <2>1. <<>> \in Paths
      BY EmptySeq DEF Paths
    <2>2. QED
      BY <1>1, <2>1, EmitWrites DEF IInv, Types, Strings, Governors
  <1>3. TypeOK'
    BY <1>1, <1>2 DEF IInv, TypeOK
  <1>4. SliceInv' /\ GovernedInv' /\ ScanInv'
    BY <1>1, SameFrames DEF IInv
  <1>5. QED
    BY <1>2, <1>3, <1>4 DEF IInv

\* A broken document leaves everything as it was.
LEMMA FailStep == ASSUME IInv, Fail PROVE IInv'
  <1>1. pc' = "failed" /\ UNCHANGED <<src, out, changed, body, heap, stack, at, todo, best>>
    BY DEF Fail
  <1>2. TypeOK' /\ WrittenInv'
    BY <1>1 DEF IInv, TypeOK, WrittenInv
  <1>3. SliceInv' /\ GovernedInv' /\ ScanInv'
    BY <1>1, SameFrames DEF IInv
  <1>4. QED
    BY <1>2, <1>3 DEF IInv

\* So does a step that changes nothing.
LEMMA StutterStep == ASSUME IInv, UNCHANGED vars PROVE IInv'
  BY DEF vars, IInv, TypeOK, SliceInv, GovernedInv, ScanInv, WrittenInv, Top

-----------------------------------------------------------------------------
(* The results.                                                            *)

\* Every step keeps the inductive invariant.
LEMMA NextInv == IInv /\ [Next]_vars => IInv'
  <1> SUFFICES ASSUME IInv, [Next]_vars PROVE IInv'
    OBVIOUS
  <1>1. CASE Start
    BY <1>1, StartStep
  <1>2. ASSUME NEW key \in Keys, ReadKey(key) PROVE IInv'
    BY <1>2, ReadKeyStep
  <1>3. ASSUME NEW n \in Orders, Consider(n) PROVE IInv'
    BY <1>3, ConsiderStep
  <1>4. CASE EndMatch
    BY <1>4, EndMatchStep
  <1>5. ASSUME NEW text \in Texts, NEW doc \in Docs, ReadScalar("string", text, doc)
        PROVE  IInv'
    BY <1>5, ReadScalarStep DEF Types, Strings
  <1>6. ASSUME NEW text \in Numbers, ReadScalar("number", text, <<>>) PROVE IInv'
    BY <1>6, ReadScalarStep DEF Types, Strings
  <1>7. CASE ReadScalar("null", "null", <<>>)
    BY <1>7, ReadScalarStep DEF Types, Strings
  <1>8. CASE Open("object", "{")
    BY <1>8, OpenStep DEF Types
  <1>9. CASE Open("array", "[")
    BY <1>9, OpenStep DEF Types
  <1>10. CASE Close("}")
    BY <1>10, CloseStep DEF Types
  <1>11. CASE Close("]")
    BY <1>11, CloseStep DEF Types
  <1>12. CASE Finish
    BY <1>12, FinishStep
  <1>13. CASE Fail
    BY <1>13, FailStep
  <1>14. CASE UNCHANGED vars
    BY <1>14, StutterStep
  <1>15. QED
    BY <1>1, <1>2, <1>3, <1>4, <1>5, <1>6, <1>7, <1>8, <1>9, <1>10, <1>11, <1>12, <1>13,
       <1>14 DEF Next, Done

\* docWriter keeps the inductive invariant from the first token to the last.
THEOREM Invariant == Spec => []IInv
  <1>1. QED
    BY InitInv, NextInv, PTL DEF Spec

\* The tokens, slices, frames and locals of MaskDocument have their types, and a
\* token is written for each one read.
THEOREM TypeCorrect == Spec => []TypeOK
  <1>1. IInv => TypeOK
    BY DEF IInv
  <1>2. QED
    BY <1>1, Invariant, PTL

\* Whatever append shares between the paths of siblings and descendants, a slice
\* in use reads as the path it stands for.
THEOREM SlicesHold == Spec => []SlicesHoldPaths
  <1>1. IInv => SlicesHoldPaths
    <2> SUFFICES ASSUME IInv PROVE SlicesHoldPaths
      OBVIOUS
    <2>1. \A i \in DOMAIN stack : Content(stack[i].place.path) = stack[i].place.keys
      <3> SUFFICES ASSUME NEW i \in DOMAIN stack
                   PROVE  Content(stack[i].place.path) = stack[i].place.keys
        OBVIOUS
      <3>1. stack[i] \in Frames
        BY ElementOfSeq, LenProperties DEF IInv, TypeOK
      <3>2. stack[i].place \in Places /\ Holds(heap, stack[i].place)
        BY <3>1 DEF Frames, IInv, SliceInv
      <3>3. QED
        BY <3>2, ContentOfSlice DEF IInv, TypeOK
    <2>2. pc \in {"match", "value"} => Content(at.path) = at.keys
      BY ContentOfSlice DEF IInv, TypeOK, SliceInv
    <2>3. QED
      BY <2>1, <2>2 DEF SlicesHoldPaths
  <1>2. QED
    BY <1>1, Invariant, PTL

\* The rule object and array hand down is that of the anchor nearest to the value.
THEOREM GovernedByNearest == Spec => []GovernedByNearestAnchor
  <1>1. IInv => GovernedByNearestAnchor
    BY DEF IInv, GovernedInv, GovernedByNearestAnchor
  <1>2. QED
    BY <1>1, Invariant, PTL

\* match's loops over byLast[key] and wildLast end with the first in the ranking
\* of all the patterns that match.
THEOREM MatchFinds == Spec => []MatchFindsBest
  <1>1. IInv => MatchFindsBest
    <2> SUFFICES ASSUME IInv, pc = "match", todo = {}
                 PROVE  best = IF Matching(at.keys) = {} THEN 0 ELSE Best(at.keys)
      BY DEF MatchFindsBest
    <2>1. /\ best # 0 => best \in Matching(at.keys)
          /\ \A m \in Matching(at.keys) : best # 0 /\ (m = best \/ Outranks(best, m))
      BY DEF IInv, ScanInv
    <2>2. QED
      BY <2>1, BestIsUnique
  <1>2. QED
    BY <1>1, Invariant, PTL

\* Every step of docWriter reads a token, delivers, fails, or is unseen outside.
LEMMA PromiseStep == IInv /\ IInv' /\ [Next]_vars => [Promise!Next]_(Promise!vars)
  <1> SUFFICES ASSUME IInv, IInv', [Next]_vars PROVE [Promise!Next]_(Promise!vars)
    OBVIOUS
  <1> USE DEF Promise!Next, Promise!vars
  <1>1. ASSUME NEW type, NEW text, NEW doc, NEW keys, NEW gov,
               Emit(type, text, doc, keys, gov),
               pc \notin {"done", "failed"}, pc' \notin {"done", "failed"}, body' = body
        PROVE  Promise!Next
    BY <1>1, EmitReads DEF IInv, Promise!Read
  <1>2. CASE Start
    BY <1>1, <1>2 DEF Start
  <1>3. ASSUME NEW key \in Keys, ReadKey(key) PROVE Promise!Next
    BY <1>1, <1>3 DEF ReadKey
  <1>4. ASSUME NEW n \in Orders, Consider(n) PROVE UNCHANGED Promise!vars
    BY <1>4 DEF Consider
  <1>5. CASE EndMatch
    BY <1>5 DEF EndMatch
  <1>6. ASSUME NEW type, NEW text, NEW doc, ReadScalar(type, text, doc) PROVE Promise!Next
    BY <1>1, <1>6, ResumeFacts DEF ReadScalar
  <1>7. ASSUME NEW kind, NEW delim, Open(kind, delim) PROVE Promise!Next
    BY <1>1, <1>7, ResumeFacts DEF Open
  <1>8. ASSUME NEW delim, Close(delim) PROVE Promise!Next
    BY <1>1, <1>8, ResumeFacts DEF Close
  <1>9. CASE Finish
    <2>1. /\ pc = "member" /\ pc' = "done" /\ body' = Result
          /\ Emit("}", "", <<>>, <<>>, 0)
      BY <1>9 DEF Finish
    <2>2. Promise!OneMoreToken
      BY <2>1, EmitReads DEF IInv
    <2>3. out' = Masked(src')
      BY WrittenIsMasked DEF IInv, TypeOK, WrittenInv
    <2>4. body' = Masked(src')
      BY <2>1, <2>3 DEF Result, IInv, WrittenInv
    <2>5. QED
      BY <2>1, <2>2, <2>4 DEF Promise!Deliver
  <1>10. CASE Fail
    BY <1>10 DEF Fail, Promise!Fail
  <1>11. CASE UNCHANGED vars
    BY <1>11 DEF vars
  <1>12. QED
    BY <1>2, <1>3, <1>4, <1>5, <1>6, <1>7, <1>8, <1>9, <1>10, <1>11 DEF Next, Done

\* MaskDocument implements its promise: what it delivers is the upstream's document
\* with each leaf as its governing rule has it, or nothing if the body is no object.
THEOREM Delivers == Spec => DeliversMaskedDocument
  <1>1. Init => Promise!Init
    BY DEF Init, Promise!Init
  <1>2. QED
    BY <1>1, PromiseStep, Invariant, PTL DEF Spec, DeliversMaskedDocument, Promise!Spec
=============================================================================
