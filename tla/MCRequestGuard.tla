--------------------------- MODULE MCRequestGuard ---------------------------
(* Bounds for RequestGuard and GuardedQueries: three member names, two of     *)
(* which fold to "query", and a text of each kind: nothing, fields under      *)
(* their own names, a field renamed inside an inline fragment in a fragment   *)
(* that only another fragment uses, and no GraphQL.                           *)
EXTENDS GuardedQueries

MCKeys == {"query", "QUERY", "variables"}
MCQueryKeys == {"query", "QUERY"}
Renaming == "{...F} fragment F {...G} fragment G {a {... {a: b}}}"
MCDocuments == {"", "{a: a ...F}", Renaming, "{"}
MCUnparseable == {"{"}

Field(alias, name, around) ==
    [kind |-> "field", alias |-> alias, name |-> name, around |-> around]
Spreading(of) == [kind |-> "spread", of |-> of, around |-> <<>>]
Fragment(name, selections) == [name |-> name, selections |-> selections]

MCParsed ==
    [d \in MCDocuments \ MCUnparseable |->
        CASE d = "" -> [operations |-> <<>>, fragments |-> <<>>]
          [] d = "{a: a ...F}" ->
                [operations |-> <<{Field("a", "a", <<>>), Spreading("F")}>>, fragments |-> <<>>]
          [] d = Renaming ->
                [operations |-> <<{Spreading("F")}>>,
                 fragments |->
                    <<Fragment("F", {Spreading("G")}),
                      Fragment("G", {Field("a", "a", <<>>),
                                     [kind |-> "inline", around |-> <<"field">>],
                                     Field("a", "b", <<"field", "inline">>)})>>]]
MCWithAlias == {d \in MCDocuments \ MCUnparseable : findAlias(MCParsed[d])}
=============================================================================
