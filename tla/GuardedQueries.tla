---------------------------- MODULE GuardedQueries ----------------------------
(***************************************************************************)
(* What the guard looks for in a query (findAlias and aliasIn in           *)
(* internal/proxy/graphql_request.go), put to the guard of RequestGuard,   *)
(* and what the upstream answers to the queries that it lets pass.         *)
(*                                                                         *)
(* A selection set is given by all the selections in it, at any depth,     *)
(* each with the kinds of the selections around it.                        *)
(***************************************************************************)
EXTENDS RequestGuard

CONSTANTS
    FieldNames, FragmentNames,
    Parsed          \* Parsed[d]: the document that query text d reads as

Around == Seq({"field", "inline"})
Selections ==
    [kind : {"field"}, alias : FieldNames, name : FieldNames, around : Around]
      \union [kind : {"inline"}, around : Around]
      \union [kind : {"spread"}, of : FragmentNames, around : Around]
QueryDocuments ==
    [operations : Seq(SUBSET Selections),
     fragments : Seq([name : FragmentNames, selections : SUBSET Selections])]

ASSUME ParsedAssumption == Parsed \in [Documents \ Unparseable -> QueryDocuments]

\* Variant: what stands in an inline fragment is not looked at.
VariantFieldsOnly == {"field"}

\* The selections whose own selection set aliasIn descends into.
Descends == {"field", "inline"}

aliasIn(set) ==
    \E s \in set :
        s.kind = "field" /\ s.alias # s.name /\ \A i \in DOMAIN s.around : s.around[i] \in Descends

findAlias(doc) ==
    \/ \E i \in DOMAIN doc.operations : aliasIn(doc.operations[i])
    \/ \E i \in DOMAIN doc.fragments : aliasIn(doc.fragments[i].selections)

ASSUME AliasAssumption == WithAlias = {d \in Documents \ Unparseable : findAlias(Parsed[d])}

-----------------------------------------------------------------------------
(* The upstream.                                                           *)

Spread(doc, set) ==
    {i \in DOMAIN doc.fragments :
        \E s \in set : s.kind = "spread" /\ s.of = doc.fragments[i].name}

\* The fragments that an operation uses, itself or through other fragments.
Used(doc, op) ==
    {i \in DOMAIN doc.fragments :
        \A closed \in SUBSET DOMAIN doc.fragments :
            (/\ Spread(doc, doc.operations[op]) \subseteq closed
             /\ \A j \in closed : Spread(doc, doc.fragments[j].selections) \subseteq closed)
            => i \in closed}

\* The fields that an operation's response has values of.
Answered(doc, op) ==
    {s \in doc.operations[op]
             \union UNION {doc.fragments[i].selections : i \in Used(doc, op)} : s.kind = "field"}

\* The query texts that some upstream may run for this request.
MayRun ==
    {p[2] : p \in {q \in head.params : q[1] \in QueryKeys}}
      \union UNION {Bindable(sent[i]) : i \in DOMAIN sent}

\* Whatever operation of whatever query in a forwarded request the upstream
\* runs, each value of the response stands under the name of its own field, so
\* that a rule for the key meets it: neither nesting, nor an inline fragment,
\* nor a fragment used by another hides an alias (findAlias).
AnswersUnderOwnNames ==
    pc = "forwarded" /\ head.method # "OPTIONS" =>
        \A d \in MayRun : d \in DOMAIN Parsed /\
            \A op \in DOMAIN Parsed[d].operations :
                \A s \in Answered(Parsed[d], op) : s.alias = s.name
=============================================================================
