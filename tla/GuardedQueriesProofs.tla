------------------------- MODULE GuardedQueriesProofs -------------------------
(***************************************************************************)
(* What the guard's promise about texts (RequestGuardProofs) means for the *)
(* responses: no value stands under another field's name.                  *)
(***************************************************************************)
EXTENDS GuardedQueries, RequestGuardProofs

\* An element of a sequence.
LEMMA InSequence ==
    ASSUME NEW S, NEW s \in Seq(S), NEW i \in DOMAIN s
    PROVE  s[i] \in S
  BY ElementOfSeq

\* aliasIn overlooks no field, however deep it stands.
LEMMA AliasInFindsAll ==
    ASSUME NEW set \in SUBSET Selections, ~aliasIn(set),
           NEW s \in set, s.kind = "field"
    PROVE  s.alias = s.name
<1>1. s \in [kind : {"field"}, alias : FieldNames, name : FieldNames, around : Around]
  BY DEF Selections
<1>2. s.around \in Seq({"field", "inline"})
  BY <1>1 DEF Around
<1>3. \A i \in DOMAIN s.around : s.around[i] \in {"field", "inline"}
  BY <1>2
<1> QED
  BY <1>3 DEF aliasIn, Descends

\* findAlias overlooks no field that an operation's response has a value of:
\* the fragments an operation uses are among those it checks.
THEOREM NoAliasNoRenaming ==
    ASSUME NEW doc \in QueryDocuments, ~findAlias(doc),
           NEW op \in DOMAIN doc.operations, NEW s \in Answered(doc, op)
    PROVE  s.alias = s.name
<1>1. /\ doc.operations \in Seq(SUBSET Selections)
      /\ doc.fragments \in Seq([name : FragmentNames, selections : SUBSET Selections])
  BY DEF QueryDocuments
<1>2. s.kind = "field"
  BY DEF Answered
<1>3. CASE s \in doc.operations[op]
  <2>1. doc.operations[op] \in SUBSET Selections
    BY <1>1, InSequence
  <2>2. ~aliasIn(doc.operations[op])
    BY DEF findAlias
  <2> QED
    BY <1>2, <1>3, <2>1, <2>2, AliasInFindsAll
<1>4. CASE s \notin doc.operations[op]
  <2>1. PICK i \in DOMAIN doc.fragments : s \in doc.fragments[i].selections
    BY <1>4 DEF Answered, Used
  <2> DEFINE fragments == [name : FragmentNames, selections : SUBSET Selections]
  <2>2. doc.fragments[i].selections \in SUBSET Selections
    <3>1. doc.fragments[i] \in fragments
      <4> HIDE DEF fragments
      <4>1. doc.fragments \in Seq(fragments)
        BY <1>1 DEF fragments
      <4> QED
        BY <4>1, InSequence
    <3> QED
      BY <3>1
  <2>3. ~aliasIn(doc.fragments[i].selections)
    BY DEF findAlias
  <2> QED
    BY <1>2, <2>1, <2>2, <2>3, AliasInFindsAll
<1> QED
  BY <1>3, <1>4

\* Every value of a forwarded request's response stands under the name of its
\* own field, for every text, document, batch and way to bind parameters.
THEOREM AnswersKeepNames == Spec => []AnswersUnderOwnNames
<1>1. ExecutedIsChecked => AnswersUnderOwnNames
  <2> SUFFICES ASSUME ExecutedIsChecked,
                      pc = "forwarded", head.method # "OPTIONS",
                      NEW d \in MayRun
               PROVE  /\ d \in DOMAIN Parsed
                      /\ \A op \in DOMAIN Parsed[d].operations :
                            \A s \in Answered(Parsed[d], op) : s.alias = s.name
    BY DEF AnswersUnderOwnNames
  <2>1. d \in checked /\ d \in Clean
    BY DEF MayRun, ExecutedIsChecked
  <2>2. d \in Documents \ Unparseable /\ d \notin WithAlias
    BY <2>1 DEF Clean
  <2>3. DOMAIN Parsed = Documents \ Unparseable /\ Parsed[d] \in QueryDocuments
    BY <2>2, ParsedAssumption
  <2>4. ~findAlias(Parsed[d])
    BY <2>2, AliasAssumption
  <2> QED
    BY <2>2, <2>3, <2>4, NoAliasNoRenaming
<1> QED
  BY <1>1, ForwardsOnlyChecked, PTL
=============================================================================
