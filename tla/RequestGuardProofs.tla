------------------------- MODULE RequestGuardProofs -------------------------
(***************************************************************************)
(* Proofs about RequestGuard, for every set of names and texts and bodies  *)
(* of any number of objects and members: type correctness, that what the   *)
(* upstream may execute has been checked, that every operation carries its *)
(* text, and that a refusal has its cause in the request.                  *)
(***************************************************************************)
EXTENDS RequestGuard, SequenceTheorems, TLAPS

\* What the locals of queryFromObject say about the members read so far.
ObjectInv ==
    pc = "object" =>
        /\ \A i \in DOMAIN element : element[i].key \in seen
        /\ \A k \in seen : \E i \in DOMAIN element : element[i].key = k
        /\ queryKeys = 0 => query = Empty
        /\ queryKeys = 0 <=> \A i \in DOMAIN element : element[i].key \notin QueryKeys
        /\ Bindable(element) \subseteq {query}
        /\ query # Empty => query \in Bindable(element)

\* The queries collected are those of the URL and of the objects read.
QueriesInv ==
    /\ pc \notin {"start", "refused"} =>
          \A p \in head.params : p[1] \in QueryKeys => p[2] \in queries
    /\ \A i \in DOMAIN sent : /\ Bindable(sent[i]) \subseteq queries
                              /\ Bindable(sent[i]) \ {Empty} # {}
    /\ pc = "start" => queries = {}
    /\ queries \subseteq Carried
    /\ checked \subseteq Clean

\* Bodies are read of POST requests only, and not left before an object is read.
StageInv ==
    /\ pc \in Walking \union {"buffer"} => head.method = "POST"
    /\ head.method # "POST" => element = <<>>
    /\ pc \in {"trailing", "check", "forwarded"} /\ head.method = "POST" => sent # <<>>
    /\ pc = "forwarded" /\ head.method # "OPTIONS" => checked = queries

IInv == TypeOK /\ ObjectInv /\ QueriesInv /\ StageInv

\* Reading one more member adds its value to what may be bound, if it counts.
LEMMA BindableAppend ==
    ASSUME NEW e \in Seq(Members), NEW m \in Members
    PROVE  Bindable(Append(e, m)) =
             Bindable(e) \union (IF m.key \in QueryKeys THEN {m.value} \ {Null} ELSE {})
  <1>1. /\ DOMAIN e = 1 .. Len(e) /\ Len(e) \in Nat
        /\ DOMAIN Append(e, m) = 1 .. Len(e) + 1
        /\ \A i \in 1 .. Len(e) : Append(e, m)[i] = e[i]
        /\ Append(e, m)[Len(e) + 1] = m
    BY AppendProperties, LenProperties
  <1>2. QED
    BY <1>1 DEF Bindable

\* An empty object binds nothing.
LEMMA BindableEmpty == Bindable(<<>>) = {}
  BY DEF Bindable

\* The invariant holds before the body is read.
LEMMA InitInv == Init => IInv
  <1> SUFFICES ASSUME Init PROVE IInv
    OBVIOUS
  <1>1. TypeOK
    <2>1. <<>> \in Seq(Seq(Members)) /\ <<>> \in Seq(Members)
      BY EmptySeq
    <2>2. sent \in Seq(Seq(Members)) /\ element \in Seq(Members)
      BY <2>1 DEF Init
    <2>3. /\ query \in Documents /\ queries \in SUBSET Documents
          /\ checked \in SUBSET queries /\ seen \in SUBSET Keys /\ queryKeys \in 0 .. 1
      BY DocumentsAssumption DEF Init
    <2>4. QED
      BY <2>2, <2>3 DEF Init, TypeOK
  <1>2. ObjectInv /\ StageInv
    BY DEF Init, ObjectInv, StageInv, Walking
  <1>3. QueriesInv
    BY DEF Init, QueriesInv
  <1>4. QED
    BY <1>1, <1>2, <1>3 DEF IInv

\* Every step keeps the types.
LEMMA NextType == IInv /\ [Next]_vars => TypeOK'
  <1> SUFFICES ASSUME IInv, [Next]_vars PROVE TypeOK'
    OBVIOUS
  <1> USE DEF IInv, TypeOK, body, locals, Reject, Codes, Walking
  <1>1. CASE CollectParams
    <2>1. head.params \in SUBSET (Keys \X Documents)
      BY DEF Heads
    <2>2. \A q \in head.params : q[2] \in Documents
      BY <2>1
    <2>3. queries' \in SUBSET Documents
      BY <1>1, <2>2 DEF CollectParams
    <2>4. checked = {}
      BY <1>1 DEF CollectParams, QueriesInv
    <2>5. QED
      BY <1>1, <2>3, <2>4 DEF CollectParams
  <1>2. CASE OpenObject
    BY <1>2, DocumentsAssumption, EmptySeq DEF OpenObject, FreshLocals
  <1>3. ASSUME NEW k \in Keys, NEW v \in Values, AcceptMember(k, v) PROVE TypeOK'
    <2>1. [key |-> k, value |-> v] \in Members
      BY DEF Members
    <2>2. element' \in Seq(Members)
      BY <1>3, <2>1, AppendProperties DEF AcceptMember
    <2>3. queryKeys' \in 0 .. 1
      BY <1>3 DEF AcceptMember, SecondQueryKey
    <2>4. query' \in Documents
      BY <1>3 DEF AcceptMember, Values
    <2>5. QED
      BY <1>3, <2>2, <2>3, <2>4 DEF AcceptMember
  <1>4. ASSUME NEW k \in Keys, NEW v \in Values, RefuseMember(k, v) PROVE TypeOK'
    <2>1. [key |-> k, value |-> v] \in Members
      BY DEF Members
    <2>2. element' \in Seq(Members)
      BY <1>4, <2>1, AppendProperties DEF RefuseMember
    <2>3. QED
      BY <1>4, <2>2 DEF RefuseMember
  <1>5. CASE CloseObject
    <2>1. sent' \in Seq(Seq(Members))
      BY <1>5, AppendProperties DEF CloseObject
    <2>2. QED
      BY <1>5, <2>1 DEF CloseObject
  <1>6. CASE RefuseUpgrade \/ RefuseMethod \/ RefuseTooLarge \/ RefuseBody \/ RefuseNoText
             \/ RefuseNoQuery
    BY <1>6 DEF RefuseUpgrade, RefuseMethod, RefuseTooLarge, RefuseBody, RefuseNoText,
                RefuseNoQuery
  <1>7. CASE ForwardOptions \/ AcceptGet \/ AcceptPost \/ BufferBody \/ OpenArray
             \/ CloseArray \/ EndOfBody \/ Forward
    BY <1>7 DEF ForwardOptions, AcceptGet, AcceptPost, BufferBody, OpenArray, CloseArray,
                EndOfBody, Forward
  <1>8. ASSUME NEW d \in Documents, PassQuery(d) PROVE TypeOK'
    BY <1>8 DEF PassQuery
  <1>9. ASSUME NEW d \in Documents, RefuseQuery(d) PROVE TypeOK'
    BY <1>9 DEF RefuseQuery
  <1>10. CASE UNCHANGED vars
    BY <1>10 DEF vars
  <1>11. QED
    BY <1>1, <1>2, <1>3, <1>4, <1>5, <1>6, <1>7, <1>8, <1>9, <1>10 DEF Next, Done

\* Every step keeps what the locals say of the current object.
LEMMA NextObject == IInv /\ [Next]_vars => ObjectInv'
  <1> SUFFICES ASSUME IInv, [Next]_vars, pc' = "object" PROVE ObjectInv'
    BY DEF ObjectInv
  <1> USE DEF IInv, locals, body, Reject
  <1>1. CASE OpenObject
    <2>1. element' = <<>> /\ seen' = {} /\ queryKeys' = 0 /\ query' = Empty
      BY <1>1 DEF OpenObject, FreshLocals
    <2>2. QED
      BY <2>1, BindableEmpty DEF ObjectInv
  <1>2. ASSUME NEW k \in Keys, NEW v \in Values, AcceptMember(k, v) PROVE ObjectInv'
    <2> DEFINE m == [key |-> k, value |-> v]
    <2>1. /\ pc = "object" /\ element' = Append(element, m) /\ m \in Members
          /\ element \in Seq(Members) /\ queryKeys \in 0 .. 1
          /\ seen' = seen \union {k}
      BY <1>2 DEF AcceptMember, Members, TypeOK
    <2>2. /\ DOMAIN element = 1 .. Len(element) /\ Len(element) \in Nat
          /\ DOMAIN element' = 1 .. Len(element) + 1
          /\ \A i \in 1 .. Len(element) : element'[i] = element[i]
          /\ element'[Len(element) + 1] = m
      BY <2>1, AppendProperties, LenProperties
    <2>3. Bindable(element') =
            Bindable(element) \union (IF k \in QueryKeys THEN {v} \ {Null} ELSE {})
      BY <2>1, BindableAppend
    <2>4. /\ \A i \in DOMAIN element' : element'[i].key \in seen'
          /\ \A n \in seen' : \E i \in DOMAIN element' : element'[i].key = n
      BY <2>1, <2>2 DEF ObjectInv
    <2>5. CASE k \in QueryKeys
      <3>1. /\ queryKeys = 0 /\ queryKeys' = 1 /\ query = Empty
            /\ query' = IF v # Null THEN v ELSE query
        BY <1>2, <2>1, <2>5 DEF AcceptMember, SecondQueryKey, isQueryKey, ObjectInv
      <3>2. \A i \in DOMAIN element : element[i].key \notin QueryKeys
        BY <2>1, <3>1 DEF ObjectInv
      <3>3. Bindable(element) = {}
        BY <3>2 DEF Bindable
      <3>4. Bindable(element') = {v} \ {Null}
        BY <2>3, <2>5, <3>3
      <3>5. \E i \in DOMAIN element' : element'[i].key \in QueryKeys
        BY <2>2, <2>5
      <3>6. QED
        BY <2>4, <3>1, <3>4, <3>5 DEF ObjectInv
    <2>6. CASE k \notin QueryKeys
      <3>1. queryKeys' = queryKeys /\ query' = query
        BY <1>2, <2>6 DEF AcceptMember, isQueryKey
      <3>2. Bindable(element') = Bindable(element)
        BY <2>3, <2>6
      <3>3. (\A i \in DOMAIN element : element[i].key \notin QueryKeys)
              <=> (\A i \in DOMAIN element' : element'[i].key \notin QueryKeys)
        BY <2>2, <2>6
      <3>4. QED
        BY <2>1, <2>4, <3>1, <3>2, <3>3 DEF ObjectInv
    <2>7. QED
      BY <2>5, <2>6
  <1>3. ASSUME NEW k \in Keys, NEW v \in Values, RefuseMember(k, v) PROVE ObjectInv'
    BY <1>3 DEF RefuseMember
  <1>4. CASE UNCHANGED vars
    BY <1>4 DEF vars, ObjectInv
  <1>5. ASSUME NEW d \in Documents, PassQuery(d) \/ RefuseQuery(d) PROVE ObjectInv'
    BY <1>5 DEF PassQuery, RefuseQuery
  <1>6. CASE CloseObject
    BY <1>6 DEF CloseObject
  <1>7. QED
    BY <1>1, <1>2, <1>3, <1>4, <1>5, <1>6
       DEF Next, Done, RefuseUpgrade, CollectParams, ForwardOptions, AcceptGet,
           RefuseMethod, AcceptPost, RefuseTooLarge, BufferBody, RefuseBody, OpenArray,
           RefuseNoText, CloseArray, EndOfBody, RefuseNoQuery, Forward

\* Every step keeps the account of the queries collected.
LEMMA NextQueries == IInv /\ [Next]_vars => QueriesInv'
  <1> SUFFICES ASSUME IInv, [Next]_vars PROVE QueriesInv'
    OBVIOUS
  <1> USE DEF IInv, locals, body, Reject
  <1>1. CASE CollectParams
    <2>1. queries' = {p[2] : p \in {q \in head.params : q[1] \in QueryKeys}}
      BY <1>1 DEF CollectParams, isQueryKey
    <2>2. \A p \in head.params : p[1] \in QueryKeys => p[2] \in queries'
      BY <2>1
    <2>3. \A i \in DOMAIN sent : Bindable(sent[i]) = {}
      BY <1>1 DEF CollectParams, QueriesInv
    <2>4. QED
      BY <1>1, <2>1, <2>2, <2>3 DEF CollectParams, QueriesInv, Carried
  <1>2. CASE CloseObject
    <2>1. /\ sent \in Seq(Seq(Members)) /\ element \in Seq(Members)
          /\ sent' = Append(sent, element) /\ queries' = queries \union {query}
          /\ pc = "object" /\ query # Empty /\ UNCHANGED <<head, checked>>
      BY <1>2 DEF CloseObject, HasText, TypeOK
    <2>2. /\ DOMAIN sent = 1 .. Len(sent) /\ Len(sent) \in Nat
          /\ DOMAIN sent' = 1 .. Len(sent) + 1
          /\ \A i \in 1 .. Len(sent) : sent'[i] = sent[i]
          /\ sent'[Len(sent) + 1] = element
      BY <2>1, AppendProperties, LenProperties
    <2>3. Bindable(element) \subseteq {query} /\ query \in Bindable(element)
      BY <2>1 DEF ObjectInv
    <2>4. ASSUME NEW i \in DOMAIN sent'
          PROVE  /\ Bindable(sent'[i]) \subseteq queries'
                 /\ Bindable(sent'[i]) \ {Empty} # {}
      <3>1. CASE i = Len(sent) + 1
        <4>1. sent'[i] = element
          BY <2>2, <3>1
        <4>2. QED
          BY <4>1, <2>1, <2>3
      <3>2. CASE i \in 1 .. Len(sent)
        <4>1. sent'[i] = sent[i] /\ i \in DOMAIN sent
          BY <2>2, <3>2
        <4>2. Bindable(sent[i]) \subseteq queries /\ Bindable(sent[i]) \ {Empty} # {}
          BY <4>1 DEF QueriesInv
        <4>3. QED
          BY <4>1, <4>2, <2>1
      <3>3. QED
        BY <2>2, <3>1, <3>2
    <2>5. Carried \subseteq Carried'
      <3>1. ASSUME NEW i \in DOMAIN sent PROVE sent[i] = sent'[i] /\ i \in DOMAIN sent'
        BY <2>2
      <3>2. QED
        BY <3>1, <2>1 DEF Carried
    <2>6. query \in Carried'
      <3>1. Len(sent) + 1 \in DOMAIN sent' /\ query \in Bindable(sent'[Len(sent) + 1])
        BY <2>2, <2>3
      <3>2. QED
        BY <3>1 DEF Carried
    <2>7. queries' \subseteq Carried'
      BY <2>1, <2>5, <2>6 DEF QueriesInv
    <2>8. pc' \in {"array", "trailing"}
      BY <1>2 DEF CloseObject
    <2>9. QED
      BY <2>1, <2>4, <2>7, <2>8 DEF QueriesInv
  <1>3. ASSUME NEW k \in Keys, NEW v \in Values, AcceptMember(k, v) \/ RefuseMember(k, v)
        PROVE  QueriesInv'
    BY <1>3 DEF AcceptMember, RefuseMember, QueriesInv, Carried
  <1>4. ASSUME NEW d \in Documents, PassQuery(d) PROVE QueriesInv'
    BY <1>4 DEF PassQuery, QueriesInv, Carried, Clean
  <1>5. ASSUME NEW d \in Documents, RefuseQuery(d) PROVE QueriesInv'
    BY <1>5 DEF RefuseQuery, QueriesInv, Carried
  <1>6. CASE OpenObject
    BY <1>6 DEF OpenObject, QueriesInv, Carried
  <1>7. CASE RefuseUpgrade \/ RefuseMethod \/ RefuseTooLarge \/ RefuseBody \/ RefuseNoText
             \/ RefuseNoQuery
    BY <1>7 DEF RefuseUpgrade, RefuseMethod, RefuseTooLarge, RefuseBody, RefuseNoText,
                RefuseNoQuery, QueriesInv, Carried
  <1>8. CASE ForwardOptions \/ AcceptGet \/ AcceptPost \/ BufferBody \/ OpenArray
             \/ CloseArray \/ EndOfBody \/ Forward
    BY <1>8 DEF ForwardOptions, AcceptGet, AcceptPost, BufferBody, OpenArray, CloseArray,
                EndOfBody, Forward, QueriesInv, Carried
  <1>9. CASE UNCHANGED vars
    BY <1>9 DEF vars, QueriesInv, Carried
  <1>10. QED
    BY <1>1, <1>2, <1>3, <1>4, <1>5, <1>6, <1>7, <1>8, <1>9 DEF Next, Done

\* Every step keeps what the stages say.
LEMMA NextStage == IInv /\ [Next]_vars => StageInv'
  <1> SUFFICES ASSUME IInv, [Next]_vars PROVE StageInv'
    OBVIOUS
  <1> USE DEF IInv, StageInv, locals, body, Reject, Walking
  <1>1. CASE CloseObject
    <2>1. sent' # <<>>
      BY <1>1, AppendProperties DEF CloseObject, TypeOK
    <2>2. QED
      BY <1>1, <2>1 DEF CloseObject
  <1>2. CASE OpenObject
    BY <1>2 DEF OpenObject
  <1>3. ASSUME NEW k \in Keys, NEW v \in Values, AcceptMember(k, v) \/ RefuseMember(k, v)
        PROVE  StageInv'
    BY <1>3 DEF AcceptMember, RefuseMember
  <1>4. ASSUME NEW d \in Documents, PassQuery(d) \/ RefuseQuery(d) PROVE StageInv'
    BY <1>4 DEF PassQuery, RefuseQuery
  <1>5. CASE RefuseUpgrade \/ RefuseMethod \/ RefuseTooLarge \/ RefuseBody \/ RefuseNoText
             \/ RefuseNoQuery
    BY <1>5 DEF RefuseUpgrade, RefuseMethod, RefuseTooLarge, RefuseBody, RefuseNoText,
                RefuseNoQuery
  <1>6. CASE CollectParams \/ ForwardOptions \/ AcceptGet \/ AcceptPost \/ BufferBody
             \/ OpenArray \/ CloseArray \/ EndOfBody \/ Forward
    BY <1>6 DEF CollectParams, ForwardOptions, AcceptGet, AcceptPost, BufferBody, OpenArray,
                CloseArray, EndOfBody, Forward
  <1>7. CASE UNCHANGED vars
    BY <1>7 DEF vars
  <1>8. QED
    BY <1>1, <1>2, <1>3, <1>4, <1>5, <1>6, <1>7 DEF Next, Done

\* Every step keeps it.
LEMMA NextInv == IInv /\ [Next]_vars => IInv'
  BY NextType, NextObject, NextQueries, NextStage DEF IInv

\* The invariant holds of every reachable state.
LEMMA Invariant == Spec => []IInv
  BY InitInv, NextInv, PTL DEF Spec

-----------------------------------------------------------------------------
\* Every reachable state is well typed; no object ever has two query keys.
THEOREM TypeCorrect == Spec => []TypeOK
  BY Invariant, PTL DEF IInv

\* Whatever way the upstream binds parameters, each query it may run for a
\* forwarded request was parsed and is free of aliases.
THEOREM ForwardsOnlyChecked == Spec => []ExecutedIsChecked
  <1>1. IInv => ExecutedIsChecked
    BY DEF IInv, QueriesInv, StageInv, ExecutedIsChecked
  <1>2. QED
    BY Invariant, <1>1, PTL

\* Every operation of a forwarded body, batched or not, carries its text.
THEOREM ForwardsOnlyText == Spec => []EveryOperationHasText
  <1>1. IInv => EveryOperationHasText
    BY DEF IInv, QueriesInv, StageInv, EveryOperationHasText
  <1>2. QED
    BY Invariant, <1>1, PTL

\* A refusal for the contents of a request has its cause in the request.
THEOREM RefusesWithCause == Spec => RefusedWithCause
  <1>1. IInv /\ [Next]_vars => [RefusalHasCause]_vars
    <2> SUFFICES ASSUME IInv, [Next]_vars, pc' = "refused", pc # "refused" PROVE RefusalHasCause
      BY DEF RefusalHasCause
    <2> USE DEF IInv, locals, body, Reject, RefusalHasCause
    <2>1. ASSUME NEW k \in Keys, NEW v \in Values, RefuseMember(k, v) PROVE RefusalHasCause
      <3> DEFINE m == [key |-> k, value |-> v]
      <3>1. /\ pc = "object" /\ element' = Append(element, m) /\ m \in Members
            /\ element \in Seq(Members) /\ queryKeys \in 0 .. 1
            /\ code' = "INVALID_REQUEST"
        BY <2>1 DEF RefuseMember, Members, TypeOK
      <3>2. /\ DOMAIN element = 1 .. Len(element) /\ Len(element) \in Nat
            /\ DOMAIN element' = 1 .. Len(element) + 1
            /\ \A i \in 1 .. Len(element) : element'[i] = element[i]
            /\ element'[Len(element) + 1] = m
        BY <3>1, AppendProperties, LenProperties
      <3>3. CASE k \in seen
        <4>1. PICK i \in DOMAIN element : element[i].key = k
          BY <3>1, <3>3 DEF ObjectInv
        <4>2. element'[i].key = k /\ i # Len(element) + 1 /\ i \in DOMAIN element'
          BY <4>1, <3>2
        <4>3. ~WellFormed(element')
          <5>1. Len(element) + 1 \in DOMAIN element' /\ element'[Len(element) + 1].key = k
            BY <3>2
          <5>2. QED
            BY <4>2, <5>1 DEF WellFormed
        <4>4. QED
          BY <3>1, <4>3
      <3>4. CASE SecondQueryKey(k)
        <4>1. PICK i \in DOMAIN element : element[i].key \in QueryKeys
          BY <3>1, <3>4 DEF ObjectInv, SecondQueryKey
        <4>2. element'[i].key \in QueryKeys /\ i # Len(element) + 1 /\ i \in DOMAIN element'
          BY <4>1, <3>2
        <4>3. m.key \in QueryKeys
          BY <3>4 DEF SecondQueryKey, isQueryKey
        <4>4. ~WellFormed(element')
          <5>1. /\ Len(element) + 1 \in DOMAIN element'
                /\ element'[Len(element) + 1].key \in QueryKeys
            BY <3>2, <4>3
          <5>2. {element'[i].key, element'[Len(element) + 1].key} \subseteq QueryKeys
            BY <4>2, <5>1
          <5>3. QED
            BY <4>2, <5>1, <5>2 DEF WellFormed
        <4>5. QED
          BY <3>1, <4>4
      <3>5. CASE isQueryKey(k) /\ v = Other
        <4>1. Other \in Bindable(element')
          BY <3>1, <3>5, BindableAppend, ValuesAssumption DEF isQueryKey
        <4>2. QED
          BY <3>1, <4>1, ValuesAssumption DEF WellFormed
      <3>6. QED
        BY <2>1, <3>3, <3>4, <3>5 DEF RefuseMember
    <2>2. CASE RefuseNoText
      BY <2>2 DEF RefuseNoText, HasText, ObjectInv
    <2>3. CASE RefuseNoQuery
      <3>1. pc = "check" /\ queries = {} /\ UNCHANGED element /\ code' = "QUERY_REQUIRED"
        BY <2>3 DEF RefuseNoQuery
      <3>2. head.method # "POST"
        <4> SUFFICES ASSUME head.method = "POST" PROVE FALSE
          OBVIOUS
        <4>1. sent # <<>> /\ sent \in Seq(Seq(Members))
          BY <3>1 DEF StageInv, TypeOK
        <4>2. 1 \in DOMAIN sent
          BY <4>1, EmptySeq, LenProperties
        <4>3. QED
          BY <3>1, <4>2 DEF QueriesInv
      <3>3. Bindable(element) = {}
        BY <3>2, BindableEmpty DEF StageInv
      <3>4. QED
        BY <3>1, <3>3
    <2>4. ASSUME NEW d \in Documents, RefuseQuery(d) PROVE RefusalHasCause
      BY <2>4 DEF RefuseQuery, QueriesInv
    <2>5. CASE RefuseUpgrade \/ RefuseMethod \/ RefuseTooLarge \/ RefuseBody
      BY <2>5 DEF RefuseUpgrade, RefuseMethod, RefuseTooLarge, RefuseBody
    <2>6. ASSUME NEW k \in Keys, NEW v \in Values, AcceptMember(k, v) PROVE RefusalHasCause
      BY <2>6 DEF AcceptMember
    <2>7. QED
      BY <2>1, <2>2, <2>3, <2>4, <2>5, <2>6
         DEF Next, Done, vars, CollectParams, ForwardOptions, AcceptGet, AcceptPost,
             BufferBody, OpenArray, OpenObject, CloseObject, CloseArray, EndOfBody,
             Forward, PassQuery
  <1>2. QED
    BY Invariant, <1>1, PTL DEF RefusedWithCause, Spec
=============================================================================
