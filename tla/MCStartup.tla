------------------------------ MODULE MCStartup ------------------------------
(* Bounds for Startup: environments with at most one fault next to the choice  *)
(* of backends and key, and files of each kind of rule and of each fault that  *)
(* a rule can have, alone and in pairs where two rules are at odds.            *)
EXTENDS Startup

Env(limit, base, rulesPath, backends, key, testMe) ==
    [limit |-> limit, base |-> base, rulesPath |-> rulesPath, backends |-> backends,
     key |-> key, testMe |-> testMe]
On(bs) == [b \in Backends |-> IF b \in bs THEN "on" ELSE "off"]

MCEnvironments ==
    {Env("unset", "good", TRUE, On(bs), key, TRUE) :
        bs \in {{}, {"loki"}, {"graphql"}, Backends}, key \in {"none", "short", "long"}}
      \union {Env("bad", "good", TRUE, On(Backends), "long", TRUE),
              Env("number", "bad", TRUE, On(Backends), "long", TRUE),
              Env("number", "good", FALSE, On(Backends), "long", TRUE),
              Env("number", "good", TRUE, On(Backends), "long", FALSE),
              Env("unset", "good", TRUE, [On({}) EXCEPT !["elastic"] = "no URL"], "long", TRUE),
              Env("unset", "good", TRUE, [On({"loki"}) EXCEPT !["graphql"] = "bad URL"], "long", TRUE)}

Replace(slots, broken) == [slots |-> slots, broken |-> broken]
Fixed == Replace({}, FALSE)
Hash == Replace({Whole}, FALSE)
KeyRule(key, replace) ==
    [keys |-> <<key>>, replace |-> replace, normalize |-> "known",
     keepFirst |-> 0, keepLast |-> 0, number |-> FALSE]
Regex(groups, replace) ==
    [compiles |-> TRUE, groups |-> groups, replace |-> replace, normalize |-> "known"]
File(regex, json_keys, graphql) ==
    [yaml |-> TRUE, regex |-> regex, json_keys |-> json_keys, graphql |-> graphql]

A == <<"a">>
AB == <<"a", "b">>
Plain == KeyRule(A, Fixed)
Hashed == KeyRule(A, Hash)

GoodFiles ==
    {File(<<>>, <<>>, <<>>), File(<<>>, <<Plain>>, <<Plain>>), File(<<>>, <<Plain>>, <<Hashed>>),
     File(<<>>, <<Hashed>>, <<>>), File(<<Regex(1, Replace({1}, FALSE))>>, <<>>, <<Plain>>),
     File(<<>>, <<Plain, Hashed>>, <<>>), File(<<>>, <<>>, <<[Plain EXCEPT !.keys = <<>>]>>),
     File(<<>>, <<>>, <<[Plain EXCEPT !.keepFirst = 1, !.number = TRUE], KeyRule(AB, Hash)>>)}

\* One fault each.
BadGlobal == {[Plain EXCEPT !.keepLast = 1], [Plain EXCEPT !.number = TRUE], KeyRule(AB, Fixed)}
BadBlock == {[Plain EXCEPT !.keepLast = -1], [Plain EXCEPT !.keepFirst = 1, !.keepLast = -1],
             [Hashed EXCEPT !.keepFirst = 1],
             KeyRule(<<"a", "">>, Fixed), KeyRule(<<"*">>, Fixed),
             [Plain EXCEPT !.keys = <<A, AB, A>>]}
BadKey == {[Plain EXCEPT !.normalize = "unknown"], KeyRule(A, Replace({}, TRUE)),
           KeyRule(A, Replace({1}, FALSE))}
BadRegex == {Regex(1, Replace({2}, FALSE)), Regex(1, Replace({0}, FALSE)),
             Regex(0, Replace({Whole}, TRUE)), [Regex(0, Fixed) EXCEPT !.compiles = FALSE]}
BadFiles ==
    {File(<<>>, <<r>>, <<Plain>>) : r \in BadGlobal \union BadKey}
      \union {File(<<>>, <<Plain>>, <<r>>) : r \in BadBlock \union BadKey}
      \union {File(<<r>>, <<>>, <<Plain>>) : r \in BadRegex}
      \union {File(<<>>, <<>>, <<Plain, KeyRule(AB, Fixed), Hashed>>),
              [File(<<>>, <<>>, <<>>) EXCEPT !.yaml = FALSE]}

MCFiles == GoodFiles \union BadFiles

MCNames == {"a", "b"}
MCValues == {"880101", "88-01-01", "word", "***", "~token", ""}
MCModes == {"digits", "none"}
MCNorm ==
    [mv \in MCModes \X MCValues |->
        CASE mv[1] = "digits" /\ mv[2] \in {"880101", "88-01-01"} -> "880101"
          [] mv[1] = "none" /\ mv[2] # "" -> mv[2]
          [] OTHER -> "no text"]
MCRemains(m, c) == TRUE
MCStarred == {"***"}
MCTokenLike == {"~token"}
=============================================================================
