--------------------------- MODULE KeyPathsProofs ---------------------------
(***************************************************************************)
(* Facts about the operators of KeyPaths, for every block of rules: the    *)
(* ranking of patterns is a strict total order, and it is the code's; the  *)
(* governor of a path follows from its parent's.                           *)
(***************************************************************************)
EXTENDS KeyPaths, SequenceTheorems, FiniteSetTheorems, TLAPS

\* A pattern has at least one segment, a countable number of them literal, and a
\* rule of the block.
LEMMA PatternFacts ==
    ASSUME NEW n \in Orders
    PROVE  /\ n \in Nat /\ n \in 1 .. Len(Patterns)
           /\ Segs(n) \in Seq(Segments) /\ Len(Segs(n)) \in Nat \ {0}
           /\ DOMAIN Segs(n) = 1 .. Len(Segs(n))
           /\ literals(n) \in Nat
           /\ Patterns[n].rule \in Rules
  <1>1. /\ n \in 1 .. Len(Patterns) /\ Len(Patterns) \in Nat
        /\ Patterns[n] \in [segs : Seq(Segments) \ {<<>>}, rule : Rules]
    <2>1. Patterns \in Seq([segs : Seq(Segments) \ {<<>>}, rule : Rules])
      BY PatternsAssumption
    <2>2. Len(Patterns) \in Nat /\ DOMAIN Patterns = 1 .. Len(Patterns)
      BY <2>1, LenProperties
    <2>3. n \in 1 .. Len(Patterns)
      BY <2>2 DEF Orders
    <2>4. QED
      BY <2>1, <2>2, <2>3, ElementOfSeq
  <1>2. /\ Segs(n) \in Seq(Segments) /\ Segs(n) # <<>>
        /\ Patterns[n].rule \in Rules
    BY <1>1 DEF Segs
  <1>3. Len(Segs(n)) \in Nat \ {0} /\ DOMAIN Segs(n) = 1 .. Len(Segs(n))
    BY <1>2, LenProperties, EmptySeq
  <1>4. IsFiniteSet(1 .. Len(Segs(n)))
    BY <1>3, FS_Interval
  <1>5. literals(n) \in Nat
    BY <1>3, <1>4, FS_Subset, FS_CardinalityType DEF literals
  <1>6. QED
    BY <1>1, <1>2, <1>3, <1>5

\* moreSpecificThan is the documented ranking.
LEMMA SpecificityIsRank ==
    ASSUME NEW n \in Orders, NEW m \in Orders
    PROVE  moreSpecificThan(n, m) <=> Outranks(n, m)
  BY DEF moreSpecificThan, Outranks

\* The ranking is a strict order.
LEMMA RankIsStrict ==
    ASSUME NEW n \in Orders, NEW m \in Orders, Outranks(n, m)
    PROVE  n # m /\ ~Outranks(m, n)
  BY PatternFacts DEF Outranks

\* It is transitive.
LEMMA RankIsTransitive ==
    ASSUME NEW n \in Orders, NEW m \in Orders, NEW k \in Orders,
           Outranks(n, m), Outranks(m, k)
    PROVE  Outranks(n, k)
  BY PatternFacts DEF Outranks

\* It is total.
LEMMA RankIsTotal ==
    ASSUME NEW n \in Orders, NEW m \in Orders, n # m
    PROVE  Outranks(n, m) \/ Outranks(m, n)
  BY PatternFacts DEF Outranks

\* A pattern that matches and outranks all others that do is the best one.
LEMMA BestIsUnique ==
    ASSUME NEW path, NEW n \in Matching(path),
           \A m \in Matching(path) \ {n} : Outranks(n, m)
    PROVE  Best(path) = n
  <1> DEFINE P(b) == b \in Matching(path) /\ \A m \in Matching(path) \ {b} : Outranks(b, m)
  <1>1. P(Best(path))
    BY DEF Best
  <1>2. n \in Orders /\ Best(path) \in Orders
    BY <1>1 DEF Matching
  <1>3. CASE Best(path) # n
    <2>1. Outranks(n, Best(path)) /\ Outranks(Best(path), n)
      BY <1>1, <1>3
    <2>2. QED
      BY <1>2, <2>1, RankIsStrict
  <1>4. QED
    BY <1>3

-----------------------------------------------------------------------------
(* Paths and their anchors.                                                *)

\* The prefixes of a path are those of its parent, and itself.
LEMMA PrefixOfChild ==
    ASSUME NEW p \in Paths, NEW k \in Keys
    PROVE  /\ Append(p, k) \in Paths /\ Len(Append(p, k)) = Len(p) + 1 /\ Len(p) \in Nat
           /\ SubSeq(Append(p, k), 1, Len(p) + 1) = Append(p, k)
           /\ \A n \in 0 .. Len(p) : SubSeq(Append(p, k), 1, n) = SubSeq(p, 1, n)
  <1> DEFINE q == Append(p, k)
  <1>1. /\ q \in Seq(Keys) /\ Len(q) = Len(p) + 1 /\ Len(p) \in Nat
        /\ \A i \in 1 .. Len(p) : q[i] = p[i]
    BY AppendProperties, LenProperties DEF Paths
  <1>2. SubSeq(q, 1, Len(q)) = q
    BY <1>1, SubSeqFull
  <1>3. ASSUME NEW n \in 0 .. Len(p) PROVE SubSeq(q, 1, n) = SubSeq(p, 1, n)
    <2>1. \A i \in 1 .. n : q[i] \in Keys /\ p[i] \in Keys /\ q[i] = p[i]
      BY <1>1, <1>3, ElementOfSeq DEF Paths
    <2>2. /\ SubSeq(q, 1, n) \in Seq(Keys) /\ SubSeq(p, 1, n) \in Seq(Keys)
          /\ Len(SubSeq(q, 1, n)) = n /\ Len(SubSeq(p, 1, n)) = n
          /\ \A i \in 1 .. n : SubSeq(q, 1, n)[i] = q[i] /\ SubSeq(p, 1, n)[i] = p[i]
      BY <1>1, <1>3, <2>1, SubSeqProperties, Z3
    <2>3. QED
      BY <2>1, <2>2, SeqEqual
  <1>4. QED
    BY <1>1, <1>2, <1>3 DEF Paths

\* Some anchor of the path, if it has any, is the nearest.
HasNearest(path) == Anchors(path) # {} => \E n \in Anchors(path) : \A m \in Anchors(path) : m <= n

\* Nothing is anchored at the root.
LEMMA RootHasNearest == HasNearest(<<>>) /\ Governor(<<>>) = 0
  BY DEF HasNearest, Anchors, Governor

\* The governor of a child is the best pattern anchored at it, or else its
\* parent's governor: what docWriter's childGov computes.
LEMMA GovernorOfChild ==
    ASSUME NEW p \in Paths, NEW k \in Keys, HasNearest(p)
    PROVE  /\ HasNearest(Append(p, k))
           /\ Governor(Append(p, k)) = IF Matching(Append(p, k)) = {} THEN Governor(p)
                                       ELSE Patterns[Best(Append(p, k))].rule
  <1> DEFINE q == Append(p, k)
  <1>1. /\ q \in Paths /\ Len(q) = Len(p) + 1 /\ Len(p) \in Nat
        /\ SubSeq(q, 1, Len(q)) = q
        /\ \A n \in 0 .. Len(p) : SubSeq(q, 1, n) = SubSeq(p, 1, n)
    BY PrefixOfChild
  <1> HIDE DEF q
  <1>2. /\ Anchors(p) \subseteq 1 .. Len(p) /\ Anchors(q) \subseteq 1 .. Len(q)
        /\ \A n \in 1 .. Len(p) : n \in Anchors(q) <=> n \in Anchors(p)
        /\ Len(q) \in Anchors(q) <=> Matching(q) # {}
    <2>1. \A n \in 1 .. Len(p) : n \in 0 .. Len(p) /\ n \in 1 .. Len(q)
      BY <1>1
    <2>2. \A n \in 1 .. Len(p) : SubSeq(q, 1, n) = SubSeq(p, 1, n)
      BY <1>1, <2>1
    <2>3. Len(q) \in 1 .. Len(q)
      BY <1>1
    <2>4. QED
      BY <1>1, <2>1, <2>2, <2>3 DEF Anchors
  <1>3. CASE Matching(q) = {}
    <2>1. Anchors(q) = Anchors(p)
      <3>1. \A n \in Anchors(q) : n \in 1 .. Len(p)
        BY <1>1, <1>2, <1>3
      <3>2. QED
        BY <1>2, <3>1
    <2>2. CASE Anchors(p) = {}
      BY <1>3, <2>1, <2>2 DEF Governor, HasNearest, q
    <2>3. CASE Anchors(p) # {}
      <3>1. Nearest(q) = Nearest(p) /\ Nearest(p) \in Anchors(p)
        BY <2>1, <2>3 DEF Nearest, HasNearest
      <3>2. SubSeq(q, 1, Nearest(q)) = SubSeq(p, 1, Nearest(p))
        BY <1>1, <1>2, <3>1
      <3>3. QED
        BY <1>3, <2>1, <2>3, <3>2 DEF Governor, HasNearest, q
    <2>4. QED
      BY <2>2, <2>3
  <1>4. CASE Matching(q) # {}
    <2>1. Len(q) \in Anchors(q) /\ \A m \in Anchors(q) : m \in Int /\ m <= Len(q)
      BY <1>1, <1>2, <1>4
    <2>2. Nearest(q) = Len(q)
      <3>1. \A n \in Anchors(q) : (\A m \in Anchors(q) : m <= n) => n = Len(q)
        BY <1>1, <2>1
      <3>2. QED
        BY <2>1, <3>1 DEF Nearest
    <2>3. QED
      BY <1>1, <1>4, <2>1, <2>2 DEF Governor, HasNearest, q
  <1>5. QED
    BY <1>3, <1>4

\* match looks at every pattern that can match: those whose last segment is the
\* path's last key, or the wildcard.
LEMMA MatchingByLast ==
    ASSUME NEW p \in Paths, NEW k \in Keys, NEW n \in Matching(Append(p, k))
    PROVE  n \in Orders /\ LastSeg(n) \in {k, Wildcard}
  <1>1. n \in Orders /\ matches(n, Append(p, k))
    BY DEF Matching
  <1>2. /\ Len(Segs(n)) \in DOMAIN Segs(n) /\ Len(Segs(n)) \in Nat
        /\ Len(Append(p, k)) \in Nat /\ Append(p, k)[Len(Append(p, k))] = k
    BY <1>1, PatternFacts, AppendProperties, LenProperties DEF Paths
  <1>3. Segs(n)[Len(Segs(n))]
          \in {Wildcard, Append(p, k)[Len(Append(p, k)) - Len(Segs(n)) + Len(Segs(n))]}
    BY <1>1, <1>2 DEF matches
  <1>4. QED
    BY <1>1, <1>2, <1>3 DEF LastSeg
=============================================================================
