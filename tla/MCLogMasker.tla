----------------------------- MODULE MCLogMasker -----------------------------
(* Bounds for LogMasker: a key with a token, one with a fixed replacement and  *)
(* one that only the graphql block names; paths with up to two strings that    *)
(* carry JSON, a value of each sort, a format and a keyed pattern.             *)
EXTENDS LogMasker

MCKeys == {"iin", "password", "email"}
MCValues == {"880101", "88-01-01", "word", "a&1", "a\\u00261", "say \"x\"",
             "98765432109876543210", "***", "~token", "", "{}", "true"}
MCModes == {"digits"}
MCNorm ==
    [mv \in MCModes \X MCValues |->
        CASE mv[2] \in {"880101", "88-01-01"} -> "880101"
          [] mv[2] \in {"a&1", "a\\u00261", "98765432109876543210", "{}", "~token"} -> mv[2]
          [] OTHER -> "none"]
\* A fixed replacement has no digits.
MCRemains(m, c) == c.form # "static"
MCWide == {"98765432109876543210"}
MCEscaped == [v \in MCValues |-> IF v = "a&1" THEN "a\\u00261" ELSE v]
MCQuoted == {"say \"x\"", "{}"}
MCStarred == {"***"}
MCTokenLike == {"~token"}
MCSpells(l, v) ==
    CASE l.in = "number" -> v \in {"880101", "98765432109876543210"}
      [] l.in = "literal" -> v = "true"
      [] OTHER -> v \notin {"98765432109876543210", "true", "{}", "a\\u00261"}

Plain == [hmac |-> FALSE, template |-> FALSE, mode |-> "digits"]
Hash == [hmac |-> TRUE, template |-> FALSE, mode |-> "digits"]
Decorated == [Hash EXCEPT !.template = TRUE]
Referring == [Plain EXCEPT !.template = TRUE]
Rule(k, repl) == [key |-> k, repl |-> repl]

MCKeyRules ==
    [m \in {"log", "doc"} |->
        IF m = "log" THEN << Rule("iin", Hash), Rule("password", Plain) >>
        ELSE << Rule("email", Hash), Rule("iin", Referring) >>]
MCDecoratedRules ==
    [m \in {"log", "doc"} |->
        IF m = "log" THEN << Rule("iin", Decorated), Rule("password", Plain) >>
        ELSE << Rule("email", Hash) >>]
MCFormats == << [values |-> {"880101", "88-01-01"}, repl |-> Decorated] >>
MCRegexes == Append(MCFormats, Rule("iin", Hash))

Insides == {Member(k) : k \in MCKeys} \union {Element}
Carriers == {String("json"), String("mixed"), String("lost")}
Leaves == {Bare} \union [in : {"number", "literal"}]
Documents(inner) == {<<c>> \o p : c \in Insides, p \in inner}
Ends == {<<l>> : l \in Leaves}
Flat == Documents(Ends)
Inner == Flat \union Documents(Flat)
Carrying(inner) == {<<s>> \o p : s \in Carriers, p \in inner}
Nested == Inner \union Documents(Carrying(Flat))
MCPaths ==
    {<<Bare>>} \union Carrying(Nested)
      \union {p \in Nested \union Documents(Carrying(Documents(Carrying(Flat)))) :
                 p[1].in = "member"}

\* The hypotheses of the theorems about this module hold on the instance of the
\* masking runs, whose rules replace each key in one way.
ASSUME MCAssumption ==
    /\ FormatsSpareTokens /\ FormatsReadPlain
    /\ KeyRules = MCKeyRules => OneReplacement
=============================================================================
