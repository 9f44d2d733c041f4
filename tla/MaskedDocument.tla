--------------------------- MODULE MaskedDocument ---------------------------
(***************************************************************************)
(* What masker.GraphQL promises of a response: the document that is        *)
(* delivered has the tokens of the upstream's, each leaf rewritten by the  *)
(* rule that governs its path, or nothing is delivered because the body is *)
(* no JSON object.                                                         *)
(***************************************************************************)
EXTENDS Naturals, Sequences

CONSTANT Masked(_)  \* the masked form of a sequence of tokens

VARIABLES
    src,        \* the tokens of the upstream's document, as they are read
    body,       \* the tokens delivered
    status      \* "reading", "done" or "failed"

vars == <<src, body, status>>

Init == src = <<>> /\ body = <<>> /\ status = "reading"

OneMoreToken == Len(src') = Len(src) + 1 /\ SubSeq(src', 1, Len(src)) = src

Read == status = "reading" /\ OneMoreToken /\ UNCHANGED <<body, status>>

\* The last token has been read: the masked document is delivered whole.
Deliver ==
    /\ status = "reading" /\ status' = "done"
    /\ OneMoreToken
    /\ body' = Masked(src')

Fail == status = "reading" /\ status' = "failed" /\ UNCHANGED <<src, body>>

Next == Read \/ Deliver \/ Fail

Spec == Init /\ [][Next]_vars
=============================================================================
