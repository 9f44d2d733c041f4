---------------------------- MODULE StartupProofs ----------------------------
(***************************************************************************)
(* Proofs about Startup, for rules files of any number of rules, keys and  *)
(* placeholders: the checks of LoadRules accept exactly the rules of which *)
(* the maskers make what they say, and from it what serving, exiting and   *)
(* the /test-me page promise.                                              *)
(***************************************************************************)
EXTENDS Startup, SequenceTheorems, TLAPS

\* What is hashed is what the placeholders ask for exactly if each names the whole
\* match or a group of the pattern.
LEMMA Expands ==
    ASSUME NEW r, r.replace \in Replacements, r.normalize \in {"known", "unknown"},
           NEW groups \in Nat
    PROVE  expand(r, groups) = Says(r) <=>
             /\ \A n \in r.replace.slots : n = Whole \/ (n >= 1 /\ n <= groups)
             /\ ~r.replace.broken /\ r.normalize = "known"
<1> DEFINE slots == r.replace.slots
           made == {IF n \in 1 .. groups THEN n ELSE Whole : n \in slots}
<1>1. slots \subseteq Int /\ r.replace.broken \in BOOLEAN
  BY DEF Replacements
<1>2. \A n \in slots : n \in 1 .. groups <=> n >= 1 /\ n <= groups
  BY <1>1
<1>3. made = slots <=> \A n \in slots : n = Whole \/ n \in 1 .. groups
  <2>1. ASSUME made = slots, NEW n \in slots PROVE n = Whole \/ n \in 1 .. groups
    <3>1. PICK m \in slots : n = IF m \in 1 .. groups THEN m ELSE Whole
      BY <2>1
    <3> QED
      BY <3>1
  <2>2. ASSUME \A n \in slots : n = Whole \/ n \in 1 .. groups PROVE made = slots
    <3>1. \A n \in slots : (IF n \in 1 .. groups THEN n ELSE Whole) = n
      BY <2>2
    <3> QED
      BY <3>1
  <2> QED
    BY <2>1, <2>2
<1>4. expand(r, groups) = Says(r) <=>
        made = slots /\ r.replace.broken = FALSE /\ "known" = r.normalize
  BY DEF expand, Says, Replacing
<1> QED
  BY <1>1, <1>2, <1>3, <1>4

\* A regex rule passes exactly if the masker does what it says.
LEMMA RegexRule ==
    ASSUME NEW r \in RegexRules
    PROVE  validateRegexHMAC(r) <=> expand(r, r.groups) = Says(r)
<1>1. /\ r.replace \in Replacements /\ r.replace.slots \in SUBSET Int /\ r.groups \in Nat
      /\ r.normalize \in {"known", "unknown"}
  BY DEF RegexRules, Replacements
<1>2. \A n \in r.replace.slots : n \in 1 .. r.groups <=> n >= 1 /\ n <= r.groups
  BY <1>1
<1> QED
  BY <1>1, <1>2, Expands DEF validateRegexHMAC, BadReplacement

\* A key rule passes what is common to both blocks exactly if its replacement
\* does what it says, in a text that has no groups.
LEMMA KeyRule ==
    ASSUME NEW r \in KeyRules
    PROVE  /\ validateJSONKeyHMAC(r) <=> expand(r, 0) = Says(r)
           /\ validateJSONKeyHMAC(r) <=>
                /\ \A n \in r.replace.slots : n = Whole
                /\ ~r.replace.broken /\ r.normalize = "known"
<1>1. /\ r.replace \in Replacements /\ r.replace.slots \in SUBSET Int
      /\ r.normalize \in {"known", "unknown"}
  BY DEF KeyRules, Replacements
<1>2. \A n \in r.replace.slots : ~(n >= 1 /\ n <= 0)
  BY <1>1
<1>3. validateJSONKeyHMAC(r) <=>
        /\ \A n \in r.replace.slots : n = Whole
        /\ ~r.replace.broken /\ r.normalize = "known"
  BY <1>1 DEF validateJSONKeyHMAC, BadReplacement
<1>4. expand(r, 0) = Says(r) <=>
        /\ \A n \in r.replace.slots : n = Whole \/ (n >= 1 /\ n <= 0)
        /\ ~r.replace.broken /\ r.normalize = "known"
  BY <1>1, Expands
<1> QED
  BY <1>2, <1>3, <1>4

\* A rule for logs passes exactly if the log masker does all that it says.
LEMMA GlobalRule ==
    ASSUME NEW r \in KeyRules
    PROVE  validateJSONKeyHMAC(r) /\ validateGlobalJSONKey(r) <=> LogMakes(r) = KeySays(r)
<1>1. r.keys \in Seq(Seq(Names \union {Wildcard, NoName}) \ {<<>>}) /\ r.number \in BOOLEAN
  BY DEF KeyRules
<1>2. (\A k \in Rng(r.keys) : Len(k) = 1) <=> {k \in Rng(r.keys) : Len(k) = 1} = Rng(r.keys)
  OBVIOUS
<1>3. <<0, 0>> = <<r.keepFirst, r.keepLast>> <=> r.keepFirst = 0 /\ r.keepLast = 0
  OBVIOUS
<1>4. LogMakes(r) = KeySays(r) <=>
        /\ expand(r, 0) = Says(r) /\ <<0, 0>> = <<r.keepFirst, r.keepLast>>
        /\ FALSE = r.number /\ {k \in Rng(r.keys) : Len(k) = 1} = Rng(r.keys)
  BY DEF LogMakes, KeySays
<1> QED
  BY <1>1, <1>2, <1>3, <1>4, KeyRule DEF validateGlobalJSONKey

\* The paths of the rules before rule n of a block.
Seen(rules, n) == UNION {Rng(rules[j].keys) : j \in 1 .. n - 1}

\* The paths that rule n declares are new, each when its turn comes.
AllNew(rules, n) ==
    \A i \in DOMAIN rules[n].keys :
        rules[n].keys[i] \notin Seen(rules, n) \union {rules[n].keys[j] : j \in 1 .. i - 1}

\* No two places of a block declare one path.
OneOwner(rules) ==
    \A n, m \in DOMAIN rules :
        \A i \in DOMAIN rules[n].keys, j \in DOMAIN rules[m].keys :
            rules[n].keys[i] = rules[m].keys[j] => n = m /\ i = j

\* The map of paths seen so far tells exactly the blocks that claim one twice.
LEMMA SeenIsEnough ==
    ASSUME NEW rules \in Seq(KeyRules)
    PROVE  (\A n \in DOMAIN rules : AllNew(rules, n)) <=> OneOwner(rules)
<1>1. \A n \in DOMAIN rules : DOMAIN rules = 1 .. Len(rules) /\ Len(rules) \in Nat
  OBVIOUS
<1>2. \A n \in DOMAIN rules : \E l \in Nat : DOMAIN rules[n].keys = 1 .. l
  <2> SUFFICES ASSUME NEW n \in DOMAIN rules PROVE \E l \in Nat : DOMAIN rules[n].keys = 1 .. l
    OBVIOUS
  <2>1. rules[n] \in KeyRules
    OBVIOUS
  <2> DEFINE K == Seq(Names \union {Wildcard, NoName}) \ {<<>>}
  <2>2. rules[n].keys \in Seq(K)
    BY <2>1 DEF KeyRules
  <2> HIDE DEF K
  <2> QED
    BY <2>2
<1>3. ASSUME \A n \in DOMAIN rules : AllNew(rules, n) PROVE OneOwner(rules)
  <2> SUFFICES ASSUME NEW n \in DOMAIN rules, NEW m \in DOMAIN rules,
                      NEW i \in DOMAIN rules[n].keys, NEW j \in DOMAIN rules[m].keys,
                      rules[n].keys[i] = rules[m].keys[j]
               PROVE  n = m /\ i = j
    BY DEF OneOwner
  <2>1. ~(m < n)
    BY <1>1, <1>3 DEF AllNew, Seen, Rng
  <2>2. ~(n < m)
    BY <1>1, <1>3 DEF AllNew, Seen, Rng
  <2>3. n = m
    BY <1>1, <2>1, <2>2
  <2>4. PICK l \in Nat : DOMAIN rules[n].keys = 1 .. l
    BY <1>2
  <2>5. ~(j < i) /\ ~(i < j)
    BY <1>3, <2>3, <2>4 DEF AllNew
  <2> QED
    BY <2>3, <2>4, <2>5
<1>4. ASSUME OneOwner(rules), NEW n \in DOMAIN rules PROVE AllNew(rules, n)
  <2> SUFFICES ASSUME NEW i \in DOMAIN rules[n].keys
               PROVE  /\ rules[n].keys[i] \notin Seen(rules, n)
                      /\ \A j \in 1 .. i - 1 : rules[n].keys[i] # rules[n].keys[j]
    BY DEF AllNew
  <2>1. rules[n].keys[i] \notin Seen(rules, n)
    <3> SUFFICES ASSUME NEW m \in 1 .. n - 1, rules[n].keys[i] \in Rng(rules[m].keys) PROVE FALSE
      BY DEF Seen
    <3>1. m \in DOMAIN rules /\ m # n
      BY <1>1
    <3> QED
      BY <1>4, <3>1 DEF OneOwner, Rng
  <2>2. PICK l \in Nat : DOMAIN rules[n].keys = 1 .. l
    BY <1>2
  <2>3. \A j \in 1 .. i - 1 : j \in DOMAIN rules[n].keys /\ j # i
    BY <2>2
  <2> QED
    BY <1>4, <2>1, <2>3 DEF OneOwner
<1> QED
  BY <1>3, <1>4

\* A block gives each path to the rule that declares it exactly if no two rules
\* declare one; with no rule declaring one twice, no two places do.
OncePerRule(rules) ==
    \A n \in DOMAIN rules :
        \A i, j \in DOMAIN rules[n].keys : rules[n].keys[i] = rules[n].keys[j] => i = j

LEMMA OwnersDeclare ==
    ASSUME NEW rules \in Seq(KeyRules)
    PROVE  OneOwner(rules) <=>
             /\ \A n \in DOMAIN rules : \A k \in Rng(rules[n].keys) : Owner(rules, k) = n
             /\ OncePerRule(rules)
<1>1. ASSUME OneOwner(rules), NEW n \in DOMAIN rules, NEW k \in Rng(rules[n].keys)
      PROVE  Owner(rules, k) = n
  <2> DEFINE First(x) == k \in Rng(rules[x].keys) /\ \A m \in 1 .. x - 1 : k \notin Rng(rules[m].keys)
  <2>1. \A m \in DOMAIN rules : k \in Rng(rules[m].keys) => m = n
    BY <1>1 DEF OneOwner, Rng
  <2>2. \A m \in 1 .. n - 1 : m \in DOMAIN rules /\ m # n
    OBVIOUS
  <2>3. First(n)
    BY <1>1, <2>1, <2>2
  <2>4. \A x \in DOMAIN rules : First(x) => x = n
    BY <2>1
  <2>5. Owner(rules, k) = CHOOSE x \in DOMAIN rules : First(x)
    BY DEF Owner
  <2> HIDE DEF First
  <2> QED
    BY <2>3, <2>4, <2>5
<1>2. OneOwner(rules) => OncePerRule(rules)
  BY DEF OneOwner, OncePerRule
<1>3. ASSUME \A n \in DOMAIN rules : \A k \in Rng(rules[n].keys) : Owner(rules, k) = n,
             OncePerRule(rules)
      PROVE  OneOwner(rules)
  <2> SUFFICES ASSUME NEW n \in DOMAIN rules, NEW m \in DOMAIN rules,
                      NEW i \in DOMAIN rules[n].keys, NEW j \in DOMAIN rules[m].keys,
                      rules[n].keys[i] = rules[m].keys[j]
               PROVE  n = m /\ i = j
    BY DEF OneOwner
  <2>1. rules[n].keys[i] \in Rng(rules[n].keys) /\ rules[n].keys[i] \in Rng(rules[m].keys)
    BY DEF Rng
  <2>2. n = m
    BY <1>3, <2>1
  <2> QED
    BY <1>3, <2>2 DEF OncePerRule
<1> QED
  BY <1>1, <1>2, <1>3

\* A graphql rule passes what is asked of it alone, but for paths of wildcards,
\* exactly if the document masker does all that it says.
LEMMA DocumentRule ==
    ASSUME NEW r \in KeyRules
    PROVE  DocMakes(r) = KeySays(r) <=>
             /\ validateJSONKeyHMAC(r)
             /\ r.keepFirst >= 0 /\ r.keepLast >= 0
             /\ r.keepFirst > 0 \/ r.keepLast > 0 => ~Placeholders(r.replace)
             /\ \A k \in Rng(r.keys) : NoName \notin Rng(k)
<1> DEFINE keeping == r.keepFirst > 0 \/ r.keepLast > 0
           whole == {k \in Rng(r.keys) : NoName \notin Rng(k)}
           ends == {r.keepFirst, r.keepLast} \subseteq Nat
<1>1. r.keepFirst \in Int /\ r.keepLast \in Int
  BY DEF KeyRules
<1>2. (\A k \in Rng(r.keys) : NoName \notin Rng(k)) <=> whole = Rng(r.keys)
  OBVIOUS
<1>3. ends <=> r.keepFirst >= 0 /\ r.keepLast >= 0
  BY <1>1
<1>4. CASE keeping
  <2>1. DocMakes(r) = KeySays(r) <=>
          /\ [expand(r, 0) EXCEPT !.hashes = {}] = Says(r)
          /\ (IF ends THEN <<r.keepFirst, r.keepLast>> ELSE <<>>) = <<r.keepFirst, r.keepLast>>
          /\ r.number = r.number /\ whole = Rng(r.keys)
    <3>1. DocMakes(r) =
            [replaces |-> [expand(r, 0) EXCEPT !.hashes = {}],
             keeps |-> IF ends THEN <<r.keepFirst, r.keepLast>> ELSE <<>>,
             number |-> r.number, keys |-> whole]
      BY <1>4 DEF DocMakes
    <3> DEFINE kept == [expand(r, 0) EXCEPT !.hashes = {}]
               keeps == IF ends THEN <<r.keepFirst, r.keepLast>> ELSE <<>>
    <3>2. DocMakes(r) = [replaces |-> kept, keeps |-> keeps, number |-> r.number, keys |-> whole]
      BY <3>1
    <3> HIDE DEF whole, ends, kept, keeps
    <3>3. DocMakes(r) = KeySays(r) <=>
            /\ kept = Says(r) /\ keeps = <<r.keepFirst, r.keepLast>>
            /\ r.number = r.number /\ whole = Rng(r.keys)
      BY <3>2 DEF KeySays
    <3> QED
      BY <3>3 DEF kept, keeps
  <2>2. [expand(r, 0) EXCEPT !.hashes = {}] = Says(r) <=> expand(r, 0) = Says(r) /\ r.replace.slots = {}
    <3>1. [expand(r, 0) EXCEPT !.hashes = {}] = Says(r) <=>
            {} = r.replace.slots /\ r.replace.broken = FALSE /\ "known" = r.normalize
      <4> DEFINE made == {IF n \in 1 .. 0 THEN n ELSE Whole : n \in r.replace.slots}
      <4>1. expand(r, 0) = [hashes |-> made, spoilt |-> r.replace.broken, mode |-> "known"]
        BY DEF expand, Replacing
      <4> HIDE DEF made
      <4>2. [expand(r, 0) EXCEPT !.hashes = {}]
              = [hashes |-> {}, spoilt |-> r.replace.broken, mode |-> "known"]
        BY <4>1
      <4> QED
        BY <4>2 DEF Says, Replacing
    <3>2. expand(r, 0) = Says(r) <=>
            /\ {IF n \in 1 .. 0 THEN n ELSE Whole : n \in r.replace.slots} = r.replace.slots
            /\ r.replace.broken = FALSE /\ "known" = r.normalize
      BY DEF expand, Says, Replacing
    <3>3. r.replace.slots = {} =>
            {IF n \in 1 .. 0 THEN n ELSE Whole : n \in r.replace.slots} = r.replace.slots
      OBVIOUS
    <3> QED
      BY <3>1, <3>2, <3>3
  <2>3. (IF ends THEN <<r.keepFirst, r.keepLast>> ELSE <<>>) = <<r.keepFirst, r.keepLast>> <=> ends
    <3>1. Len(<<r.keepFirst, r.keepLast>>) = 2 /\ Len(<<>>) = 0
      OBVIOUS
    <3>2. <<>> # <<r.keepFirst, r.keepLast>>
      BY <3>1
    <3> HIDE DEF ends
    <3> QED
      BY <3>2
  <2>4. validateJSONKeyHMAC(r) => (r.replace.slots = {} <=> ~Placeholders(r.replace))
    BY DEF Placeholders, validateJSONKeyHMAC, BadReplacement
  <2>5. validateJSONKeyHMAC(r) <=> expand(r, 0) = Says(r)
    BY KeyRule
  <2> HIDE DEF whole, ends
  <2> QED
    BY <1>2, <1>3, <1>4, <2>1, <2>2, <2>3, <2>4, <2>5
<1>5. CASE ~keeping
  <2>1. DocMakes(r) = KeySays(r) <=>
          /\ expand(r, 0) = Says(r) /\ <<0, 0>> = <<r.keepFirst, r.keepLast>>
          /\ whole = Rng(r.keys)
    <3>1. DocMakes(r) =
            [replaces |-> expand(r, 0), keeps |-> <<0, 0>>, number |-> r.number, keys |-> whole]
      BY <1>5 DEF DocMakes
    <3> HIDE DEF whole
    <3> QED
      BY <3>1 DEF KeySays
  <2>2. <<0, 0>> = <<r.keepFirst, r.keepLast>> <=> r.keepFirst >= 0 /\ r.keepLast >= 0
    BY <1>1, <1>5
  <2>3. validateJSONKeyHMAC(r) <=> expand(r, 0) = Says(r)
    BY KeyRule
  <2> HIDE DEF whole
  <2> QED
    BY <1>2, <1>5, <2>1, <2>2, <2>3
<1> QED
  BY <1>4, <1>5

\* LoadRules accepts exactly the files whose rules the maskers follow as written
\* and whose graphql rules declare no path in vain, for every rules file.
THEOREM LoadRulesIsExact ==
    ASSUME NEW f \in RuleSets
    PROVE  LoadRules(f) <=> AsWritten(f) /\ ~Pointless(f)
<1>1. /\ f.regex \in Seq(RegexRules) /\ f.json_keys \in Seq(KeyRules)
      /\ f.graphql \in Seq(KeyRules)
  BY DEF RuleSets
<1>2. \A r \in Rng(f.regex) : r \in RegexRules
  BY <1>1 DEF Rng
<1>3. \A r \in Rng(f.json_keys) \union Rng(f.graphql) : r \in KeyRules
  BY <1>1 DEF Rng
<1>4. (\A r \in Rng(f.regex) : r.compiles /\ validateRegexHMAC(r))
      <=> \A r \in Rng(f.regex) : r.compiles /\ expand(r, r.groups) = Says(r)
  BY <1>2, RegexRule
<1>5. (\A r \in Rng(f.json_keys) : validateJSONKeyHMAC(r) /\ validateGlobalJSONKey(r))
      <=> \A r \in Rng(f.json_keys) : LogMakes(r) = KeySays(r)
  BY <1>3, GlobalRule
<1> DEFINE NamesKey(r) == \A k \in Rng(r.keys) : Rng(k) # {Wildcard}
<1>6. \A n \in DOMAIN f.graphql :
         /\ validateJSONKeyHMAC(f.graphql[n])
         /\ validateGraphQLJSONKey(f.graphql[n], Seen(f.graphql, n))
         <=> /\ DocMakes(f.graphql[n]) = KeySays(f.graphql[n]) /\ NamesKey(f.graphql[n])
             /\ AllNew(f.graphql, n)
  <2> SUFFICES ASSUME NEW n \in DOMAIN f.graphql
               PROVE  /\ validateJSONKeyHMAC(f.graphql[n])
                      /\ validateGraphQLJSONKey(f.graphql[n], Seen(f.graphql, n))
                      <=> /\ DocMakes(f.graphql[n]) = KeySays(f.graphql[n]) /\ NamesKey(f.graphql[n])
                          /\ AllNew(f.graphql, n)
    OBVIOUS
  <2> DEFINE r == f.graphql[n]
  <2>1. r \in KeyRules
    BY <1>1
  <2>2. (\A i \in DOMAIN r.keys :
           SplitKeyPath(r.keys[i]) /\ r.keys[i] \notin Seen(f.graphql, n) \union {r.keys[j] : j \in 1 .. i - 1})
        <=> (\A k \in Rng(r.keys) : NoName \notin Rng(k)) /\ NamesKey(r) /\ AllNew(f.graphql, n)
    BY DEF Rng, AllNew, SplitKeyPath
  <2>3. DocMakes(r) = KeySays(r) <=>
          /\ validateJSONKeyHMAC(r)
          /\ r.keepFirst >= 0 /\ r.keepLast >= 0
          /\ r.keepFirst > 0 \/ r.keepLast > 0 => ~Placeholders(r.replace)
          /\ \A k \in Rng(r.keys) : NoName \notin Rng(k)
    BY <2>1, DocumentRule
  <2>4. validateGraphQLJSONKey(r, Seen(f.graphql, n)) <=>
          /\ r.keepFirst >= 0 /\ r.keepLast >= 0
          /\ r.keepFirst > 0 \/ r.keepLast > 0 => ~Placeholders(r.replace)
          /\ (\A k \in Rng(r.keys) : NoName \notin Rng(k)) /\ NamesKey(r) /\ AllNew(f.graphql, n)
    BY <2>2 DEF validateGraphQLJSONKey
  <2> HIDE DEF r, NamesKey
  <2>5. /\ validateJSONKeyHMAC(r) /\ validateGraphQLJSONKey(r, Seen(f.graphql, n))
        <=> DocMakes(r) = KeySays(r) /\ NamesKey(r) /\ AllNew(f.graphql, n)
    BY <2>3, <2>4
  <2> QED
    BY <2>5 DEF r
<1> DEFINE Owned(g) == \A n \in DOMAIN g : \A k \in Rng(g[n].keys) : Owner(g, k) = n
<1>7. Pointless(f) <=> ~(\A r \in Rng(f.graphql) : NamesKey(r)) \/ ~OncePerRule(f.graphql)
  BY DEF Pointless, OncePerRule, Rng
<1>8. (\A n \in DOMAIN f.graphql : AllNew(f.graphql, n)) <=> Owned(f.graphql) /\ OncePerRule(f.graphql)
  <2>1. OneOwner(f.graphql) <=> Owned(f.graphql) /\ OncePerRule(f.graphql)
    BY <1>1, OwnersDeclare
  <2> HIDE DEF Owned
  <2> QED
    BY <1>1, <2>1, SeenIsEnough
<1>9. /\ (\A r \in Rng(f.graphql) : NamesKey(r)) <=> \A n \in DOMAIN f.graphql : NamesKey(f.graphql[n])
      /\ (\A r \in Rng(f.graphql) : DocMakes(r) = KeySays(r))
         <=> \A n \in DOMAIN f.graphql : DocMakes(f.graphql[n]) = KeySays(f.graphql[n])
  <2> HIDE DEF NamesKey
  <2> QED
    BY DEF Rng
<1>10. AsWritten(f) <=>
         /\ f.yaml
         /\ \A r \in Rng(f.regex) : r.compiles /\ expand(r, r.groups) = Says(r)
         /\ \A r \in Rng(f.json_keys) : LogMakes(r) = KeySays(r)
         /\ \A r \in Rng(f.graphql) : DocMakes(r) = KeySays(r)
         /\ Owned(f.graphql)
  BY DEF AsWritten
<1>11. LoadRules(f) <=>
         /\ f.yaml
         /\ \A r \in Rng(f.regex) : r.compiles /\ validateRegexHMAC(r)
         /\ \A r \in Rng(f.json_keys) : validateJSONKeyHMAC(r) /\ validateGlobalJSONKey(r)
         /\ \A n \in DOMAIN f.graphql :
               /\ validateJSONKeyHMAC(f.graphql[n])
               /\ validateGraphQLJSONKey(f.graphql[n], Seen(f.graphql, n))
  BY DEF LoadRules, Seen
<1> HIDE DEF Owned, NamesKey
<1>12. (\A n \in DOMAIN f.graphql :
          /\ validateJSONKeyHMAC(f.graphql[n])
          /\ validateGraphQLJSONKey(f.graphql[n], Seen(f.graphql, n)))
       <=> /\ \A r \in Rng(f.graphql) : DocMakes(r) = KeySays(r)
           /\ \A r \in Rng(f.graphql) : NamesKey(r)
           /\ Owned(f.graphql) /\ OncePerRule(f.graphql)
  BY <1>6, <1>8, <1>9
<1> QED
  BY <1>4, <1>5, <1>7, <1>10, <1>11, <1>12

-----------------------------------------------------------------------------
(* The process.                                                            *)

\* A file that LoadRules accepts has {hmac} where RulesUseHMAC sees it.
LEMMA UsesOfHMAC ==
    ASSUME NEW f \in RuleSets, LoadRules(f)
    PROVE  RulesUseHMAC(f) <=> Hashes(f)
<1>1. \A r \in Rng(f.json_keys) \union Rng(f.regex) \union Rng(f.graphql) : ~r.replace.broken
  BY DEF LoadRules, validateRegexHMAC, validateJSONKeyHMAC, BadReplacement, Rng
<1> QED
  BY <1>1 DEF RulesUseHMAC, Hashes, Placeholders

\* What Load has made sure of by the time that NewHandler is called.
Checked ==
    /\ LoadRules(data)
    /\ "graphql" \in Enabled => Len(data.graphql) > 0
    /\ tok = RulesUseHMAC(data)

\* What is known at each stage of the start.
StageInv ==
    /\ pc \in {"reading", "checking", "building", "serving"} =>
          Enabled # {} /\ \A b \in Enabled : env.backends[b] = "on"
    /\ pc \in {"building", "serving"} => Checked
    /\ pc \in {"starting", "reading", "stopped"} => data = Unread
    /\ pc = "serving" => routes = Enabled /\ page = data

\* The answer to the last request, by its kind.
ReplyInv ==
    /\ asked = [kind |-> "rules"] => reply = data
    /\ \A f \in Files : asked = [kind |-> "mask", of |-> f] =>
          reply = IF LoadRules(f) /\ New(f, tok) THEN [status |-> 200, rules |-> f, tok |-> tok]
                  ELSE Refused(400)
    /\ \A v \in Values, m \in Modes : asked = [kind |-> "hmac", value |-> v, mode |-> m] =>
          reply = CASE ~tok -> Refused(503)
                    [] tok /\ v = Blank -> Refused(400)
                    [] OTHER -> [status |-> 200, token |-> PageToken(v, m)]

IInv == TypeOK /\ StageInv /\ ExitHasCause /\ ReplyInv

\* A stopped process: nothing has been read or asked.
LEMMA InitInv == Init => IInv
<1> SUFFICES ASSUME Init PROVE IInv
  OBVIOUS
<1>1. TypeOK
  BY DEF Init, TypeOK
<1>2. StageInv /\ ExitHasCause
  BY DEF Init, StageInv, ExitHasCause
<1>3. ReplyInv
  BY DEF Init, ReplyInv, Nothing
<1> QED
  BY <1>1, <1>2, <1>3 DEF IInv

\* Steps keep the types.
LEMMA NextType == IInv /\ [Next]_vars => TypeOK'
<1> SUFFICES ASSUME IInv, [Next]_vars PROVE TypeOK'
  OBVIOUS
<1> USE DEF IInv, TypeOK, unasked
<1>1. ASSUME NEW f \in Files \union {Missing}, EditFile(f) PROVE TypeOK'
  BY <1>1 DEF EditFile
<1>2. ASSUME NEW e \in Environments, EditEnvironment(e) PROVE TypeOK'
  BY <1>2 DEF EditEnvironment
<1>3. CASE Start
  BY <1>3 DEF Start
<1>4. CASE LoadEnvironment
  BY <1>4 DEF LoadEnvironment, Exit
<1>5. CASE ReadFile
  BY <1>5 DEF ReadFile, Exit, StageInv
<1>6. CASE CheckRules
  <2>1. RulesUseHMAC(data) \in BOOLEAN
    BY DEF RulesUseHMAC
  <2> QED
    BY <1>6, <2>1 DEF CheckRules, Exit
<1>7. CASE NewHandler
  BY <1>7 DEF NewHandler, Exit, Enabled, StageInv
<1>8. CASE Stop
  BY <1>8 DEF Stop
<1>9. CASE GetRules
  BY <1>9 DEF GetRules, Answer
<1>10. ASSUME NEW f \in Files, handleMask(f) PROVE TypeOK'
  BY <1>10 DEF handleMask, Answer
<1>11. ASSUME NEW v \in Values, NEW m \in Modes, handleHMAC(v, m) PROVE TypeOK'
  BY <1>11 DEF handleHMAC, Answer
<1>12. ASSUME NEW kind \in {"mask", "hmac"}, BadRequest(kind) PROVE TypeOK'
  BY <1>12 DEF BadRequest, Answer
<1>13. CASE UNCHANGED vars
  BY <1>13 DEF vars
<1> QED
  BY <1>1, <1>2, <1>3, <1>4, <1>5, <1>6, <1>7, <1>8, <1>9, <1>10, <1>11, <1>12, <1>13 DEF Next

\* Steps keep what is known at each stage.
LEMMA NextStage == IInv /\ [Next]_vars => StageInv'
<1> SUFFICES ASSUME IInv, [Next]_vars PROVE StageInv'
  OBVIOUS
<1> USE DEF IInv, StageInv, Checked, unasked
<1>1. ASSUME NEW f \in Files \union {Missing}, EditFile(f) PROVE StageInv'
  BY <1>1 DEF EditFile, Enabled
<1>2. ASSUME NEW e \in Environments, EditEnvironment(e) PROVE StageInv'
  BY <1>2 DEF EditEnvironment
<1>3. CASE Start
  BY <1>3 DEF Start
<1>4. CASE LoadEnvironment
  BY <1>4 DEF LoadEnvironment, SomeBackend, Exit, Enabled
<1>5. CASE ReadFile
  BY <1>5 DEF ReadFile, Exit, Enabled
<1>6. CASE CheckRules
  <2>1. CASE pc' = "exited"
    BY <1>6, <2>1
  <2>2. CASE pc' # "exited"
    <3>1. /\ pc = "checking" /\ pc' = "building" /\ tok' = RulesUseHMAC(data)
          /\ LoadRules(data) /\ ("graphql" \in Enabled => \E r \in Rng(data.graphql) : TRUE)
          /\ UNCHANGED <<env, file, data, routes, page, unasked>>
      BY <1>6, <2>2 DEF CheckRules, Exit
    <3>2. data \in RuleSets
      BY <3>1, FilesAssumption DEF TypeOK
    <3>3. (\E r \in Rng(data.graphql) : TRUE) => Len(data.graphql) > 0
      <4>1. data.graphql \in Seq(KeyRules)
        BY <3>2 DEF RuleSets
      <4>2. DOMAIN data.graphql = 1 .. Len(data.graphql) /\ Len(data.graphql) \in Nat
        BY <4>1
      <4> QED
        BY <4>2 DEF Rng
    <3> QED
      BY <3>1, <3>3 DEF Enabled
  <2> QED
    BY <2>1, <2>2
<1>7. CASE NewHandler
  BY <1>7 DEF NewHandler, Exit, Enabled
<1>8. CASE Stop
  BY <1>8 DEF Stop
<1>9. CASE GetRules
  BY <1>9 DEF GetRules, Answer, Enabled
<1>10. ASSUME NEW f \in Files, handleMask(f) PROVE StageInv'
  BY <1>10 DEF handleMask, Answer, Enabled
<1>11. ASSUME NEW v \in Values, NEW m \in Modes, handleHMAC(v, m) PROVE StageInv'
  BY <1>11 DEF handleHMAC, Answer, Enabled
<1>12. ASSUME NEW kind \in {"mask", "hmac"}, BadRequest(kind) PROVE StageInv'
  BY <1>12 DEF BadRequest, Answer, Enabled
<1>13. CASE UNCHANGED vars
  BY <1>13 DEF vars, Enabled
<1> QED
  BY <1>1, <1>2, <1>3, <1>4, <1>5, <1>6, <1>7, <1>8, <1>9, <1>10, <1>11, <1>12, <1>13 DEF Next

\* A process exits only where a check fails, and of what LoadRules
\* refuses the maskers would do something else, or nothing.
LEMMA NextExit == IInv /\ [Next]_vars => ExitHasCause'
<1> SUFFICES ASSUME IInv, [Next]_vars, pc' = "exited" PROVE ExitHasCause'
  BY DEF ExitHasCause
<1> USE DEF IInv, StageInv, unasked
<1>1. CASE pc = "exited"
  <2>1. data' = data /\ env' = env
    BY <1>1 DEF Next, EditFile, EditEnvironment, Start, LoadEnvironment, ReadFile, CheckRules,
        NewHandler, Stop, GetRules, handleMask, handleHMAC, BadRequest, Answer, vars
  <2> QED
    BY <1>1, <2>1 DEF ExitHasCause
<1>2. CASE pc # "exited" /\ LoadEnvironment
  <2>1. /\ data' = Unread /\ env' = env
        /\ \/ env.limit = "bad" \/ env.base # "good" \/ ~env.rulesPath \/ Enabled = {}
           \/ \E b \in Enabled : env.backends[b] # "on"
    BY <1>2 DEF LoadEnvironment, Exit, SomeBackend
  <2>2. env \in [limit : {"unset", "number", "bad"}, base : {"good", "bad"}, rulesPath : BOOLEAN,
                backends : [Backends -> {"off", "no URL", "bad URL", "on"}],
                key : {"none", "short", "long"}, testMe : BOOLEAN]
    BY EnvironmentsAssumption DEF TypeOK
  <2>3. Unusable(env)
    <3>1. /\ env.base \in {"good", "bad"} /\ env.rulesPath \in BOOLEAN
          /\ env.backends \in [Backends -> {"off", "no URL", "bad URL", "on"}]
      BY <2>2
    <3>2. \A b \in Backends : env.backends[b] \in {"off", "no URL", "bad URL", "on"}
      BY <3>1
    <3>3. Enabled = {b \in Backends : env.backends[b] # "off"}
      BY DEF Enabled
    <3> QED
      BY <2>1, <3>1, <3>2, <3>3 DEF Unusable
  <2> QED
    BY <2>1, <2>3 DEF ExitHasCause, Unusable
<1>3. CASE pc # "exited" /\ ReadFile
  BY <1>3 DEF ReadFile, Exit, ExitHasCause, TypeOK
<1>4. CASE pc # "exited" /\ CheckRules
  <2>1. /\ data' = data /\ env' = env /\ pc = "checking"
        /\ \/ ~LoadRules(data)
           \/ "graphql" \in Enabled /\ ~\E r \in Rng(data.graphql) : TRUE
           \/ RulesUseHMAC(data) /\ env.key # "long"
    BY <1>4 DEF CheckRules, Exit
  <2>2. data \in RuleSets
    BY <2>1, FilesAssumption DEF TypeOK
  <2>3. ~LoadRules(data) => ~AsWritten(data) \/ Pointless(data)
    BY <2>2, LoadRulesIsExact
  <2>4. LoadRules(data) /\ RulesUseHMAC(data) => Hashes(data)
    BY <2>2, UsesOfHMAC
  <2>5. (~\E r \in Rng(data.graphql) : TRUE) => Len(data.graphql) = 0
    <3>1. data.graphql \in Seq(KeyRules)
      BY <2>2 DEF RuleSets
    <3>2. DOMAIN data.graphql = 1 .. Len(data.graphql) /\ Len(data.graphql) \in Nat
      BY <3>1
    <3>3. Len(data.graphql) # 0 => 1 \in DOMAIN data.graphql
      BY <3>2
    <3> QED
      BY <3>3, Zenon DEF Rng
  <2>6. "graphql" \in Enabled => env.backends["graphql"] = "on"
    BY <2>1
  <2>7. data \in Files
    BY <2>1 DEF TypeOK
  <2>8. \/ ~AsWritten(data) \/ Pointless(data)
        \/ env.backends["graphql"] = "on" /\ Len(data.graphql) = 0
        \/ Hashes(data) /\ env.key # "long"
    BY <2>1, <2>3, <2>4, <2>5, <2>6
  <2>9. \/ ~AsWritten(data)' \/ Pointless(data)'
        \/ env'.backends["graphql"] = "on" /\ Len(data'.graphql) = 0
        \/ Hashes(data)' /\ env'.key # "long"
    BY <2>1, <2>8 DEF AsWritten, Pointless, Hashes, Owner
  <2> QED
    BY <2>1, <2>7, <2>9 DEF ExitHasCause
<1>5. CASE pc # "exited" /\ NewHandler
  <2>1. pc = "building" /\ Checked
    BY <1>5 DEF NewHandler
  <2>2. New(data, tok)
    BY <2>1 DEF New, Checked
  <2>3. NewGraphQL(data, tok)
    <3>1. RulesUseHMAC([data EXCEPT !.json_keys = data.graphql, !.regex = <<>>, !.graphql = <<>>])
          => RulesUseHMAC(data)
      <4>1. data \in RuleSets
        BY <2>1, FilesAssumption DEF TypeOK
      <4> QED
        BY <4>1 DEF RulesUseHMAC, RuleSets, Rng
    <3> QED
      BY <2>1, <3>1 DEF NewGraphQL, New, Checked
  <2> QED
    BY <1>5, <2>2, <2>3 DEF NewHandler
<1> QED
  BY <1>1, <1>2, <1>3, <1>4, <1>5
     DEF Next, EditFile, EditEnvironment, Start, Stop, GetRules, handleMask, handleHMAC,
         BadRequest, Answer, vars

\* The process that answers is the one that is asked: between the two nothing
\* of it changes.
LEMMA NextReply == IInv /\ [Next]_vars => ReplyInv'
<1> SUFFICES ASSUME IInv, [Next]_vars PROVE ReplyInv'
  OBVIOUS
<1> USE DEF IInv
<1>1. CASE UNCHANGED <<asked, reply, data, tok>>
  BY <1>1 DEF ReplyInv
<1>2. CASE asked' = Nothing
  BY <1>2 DEF ReplyInv, Nothing
<1>3. CASE ReadFile \/ CheckRules
  <2>1. asked' = Nothing
    BY <1>3 DEF ReadFile, CheckRules, Exit, TypeOK, unasked
  <2> QED
    BY <1>2, <2>1
<1>4. CASE GetRules
  BY <1>4 DEF GetRules, Answer, RulesText, ReplyInv, StageInv
<1>5. ASSUME NEW f \in Files, handleMask(f) PROVE ReplyInv'
  BY <1>5 DEF handleMask, Answer, PreviewTokenizer, ReplyInv
<1>6. ASSUME NEW v \in Values, NEW m \in Modes, handleHMAC(v, m) PROVE ReplyInv'
  BY <1>6 DEF handleHMAC, Answer, ReplyInv
<1>7. ASSUME NEW kind \in {"mask", "hmac"}, BadRequest(kind) PROVE ReplyInv'
  BY <1>7 DEF BadRequest, Answer, ReplyInv
<1> QED
  BY <1>1, <1>2, <1>3, <1>4, <1>5, <1>6, <1>7
     DEF Next, EditFile, EditEnvironment, Start, LoadEnvironment, NewHandler, Exit, Stop, unasked, vars

\* The invariant holds of every reachable state.
LEMMA Invariant == Spec => []IInv
<1>1. IInv /\ [Next]_vars => IInv'
  BY NextType, NextStage, NextExit, NextReply DEF IInv
<1> QED
  BY InitInv, <1>1, PTL DEF Spec

-----------------------------------------------------------------------------
\* Every reachable state is well typed; no process serves without a backend.
THEOREM TypeCorrect == Spec => []TypeOK
  BY Invariant, PTL DEF IInv

\* A process that serves makes of each rule what it says, has the key, and has
\* rules for /graphql if it serves it, for every rules file.
THEOREM ServesSound == Spec => []ServesOnlySound
<1>1. IInv => ServesOnlySound
  <2> SUFFICES ASSUME IInv, pc = "serving" PROVE ServesOnlySound
    BY DEF ServesOnlySound
  <2>1. data \in RuleSets /\ Checked /\ routes = Enabled
    BY FilesAssumption DEF IInv, TypeOK, StageInv
  <2>2. AsWritten(data) /\ (Hashes(data) => tok)
    BY <2>1, LoadRulesIsExact, UsesOfHMAC DEF Checked
  <2> QED
    BY <2>1, <2>2 DEF ServesOnlySound, Checked, IInv, StageInv
<1> QED
  BY <1>1, Invariant, PTL

\* No process exits without a cause: an unusable environment if the file is
\* unread, the missing file, or what the file says or lacks.
THEOREM ExitsWithCause == Spec => []ExitHasCause
  BY Invariant, PTL DEF IInv

\* The page shows the rules in force, whatever has become of the file.
THEOREM PageShowsRulesInForce == Spec => []PageShowsRules
<1>1. IInv => PageShowsRules
  BY DEF IInv, ReplyInv, PageShowsRules
<1> QED
  BY <1>1, Invariant, PTL

\* The preview of the rules in force masks as the process does.
THEOREM PreviewsFaithfully == Spec => []PreviewIsFaithful
<1>1. IInv => PreviewIsFaithful
  <2> SUFFICES ASSUME IInv, NEW f \in Files, asked = [kind |-> "mask", of |-> f]
               PROVE  /\ f = data => reply = [status |-> 200, rules |-> data, tok |-> tok]
                      /\ reply.status = 200 => AsWritten(f) /\ (Hashes(f) => reply.tok)
    BY DEF PreviewIsFaithful
  <2>1. reply = IF LoadRules(f) /\ New(f, tok) THEN [status |-> 200, rules |-> f, tok |-> tok]
                ELSE Refused(400)
    BY DEF IInv, ReplyInv
  <2>2. Checked
    BY DEF IInv, TypeOK, StageInv, Nothing
  <2>3. f = data => LoadRules(f) /\ New(f, tok)
    BY <2>2 DEF Checked, New
  <2>4. f \in RuleSets
    BY FilesAssumption
  <2>5. LoadRules(f) /\ New(f, tok) => AsWritten(f) /\ (Hashes(f) => tok)
    BY <2>4, LoadRulesIsExact, UsesOfHMAC DEF New
  <2> QED
    BY <2>1, <2>3, <2>5 DEF Refused
<1> QED
  BY <1>1, Invariant, PTL

\* The token that the page gives for a value is the one that masking puts.
THEOREM HashesAsTheMasker == Spec => []HashIsSearchable
<1>1. IInv => HashIsSearchable
  <2> SUFFICES ASSUME IInv, NEW v \in Values, NEW m \in Modes,
                      asked = [kind |-> "hmac", value |-> v, mode |-> m], reply.status = 200
               PROVE  reply.token = hashOrSkip(Raw(v), m)
    BY DEF HashIsSearchable
  <2>1. reply = CASE ~tok -> Refused(503)
                  [] tok /\ v = Blank -> Refused(400)
                  [] OTHER -> [status |-> 200, token |-> PageToken(v, m)]
    BY DEF IInv, ReplyInv
  <2>2. v # Blank /\ reply.token = PageToken(v, m)
    BY <2>1 DEF Refused
  <2>3. PageToken(v, m) = hashOrSkip(Raw(v), m)
    <3>1. Raw(v) # Stars /\ Raw(v).form # "token" /\ \A w : Raw(v) = Raw(w) <=> v = w
      BY DEF Raw, Stars, Content
    <3>2. v \in TokenLike => v \notin Starred \union {Blank}
      BY TokensAssumption
    <3>3. IsToken(Raw(v)) <=> v \in TokenLike
      BY <3>1 DEF IsToken
    <3>4. (\E w \in Starred \union {Blank} : Raw(v) = Raw(w)) <=> v \in Starred
      BY <2>2, <3>1
    <3>5. CASE IsToken(Raw(v))
      BY <3>1, <3>2, <3>3, <3>4, <3>5 DEF PageToken, hashOrSkip
    <3>6. CASE ~IsToken(Raw(v))
      BY <3>1, <3>4, <3>6 DEF PageToken, hashOrSkip
    <3> QED
      BY <3>5, <3>6
  <2> QED
    BY <2>2, <2>3
<1> QED
  BY <1>1, Invariant, PTL
=============================================================================
