-------------------------- MODULE MCGraphQLDocument --------------------------
(* A block of five key paths over two keys, with every kind of tie: literals   *)
(* against length, length, and declaration order.  Rule 2's replacement is a   *)
(* text that also occurs in documents, so that masking may change nothing.     *)
EXTENDS GraphQLDocument

MCKeys == {"a", "b"}
MCPatterns == << [segs |-> <<"a">>, rule |-> 1],
                 [segs |-> <<"*", "*", "a">>, rule |-> 2],
                 [segs |-> <<"a", "a">>, rule |-> 3],
                 [segs |-> <<"b", "*">>, rule |-> 2],
                 [segs |-> <<"*", "a">>, rule |-> 1] >>
MCTexts == {"x", "***"}
MCNumbers == {"7"}
MCMask == [p \in {1, 2, 3} \X MCTexts |-> IF p[1] = 2 THEN "x" ELSE "***"]
MCNumberOf == [r \in {1, 2, 3} |-> IF r = 2 THEN "7" ELSE "null"]
MCDocs == {<<>>, <<"b", "a">>}
=============================================================================
