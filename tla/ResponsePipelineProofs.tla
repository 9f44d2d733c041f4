----------------------- MODULE ResponsePipelineProofs -----------------------
(***************************************************************************)
(* Proofs about ResponsePipeline, for every limit, every upstream and every *)
(* body size: type correctness and all its safety properties.              *)
(***************************************************************************)
EXTENDS ResponsePipeline, TLAPS

\* What holds at each stage of the exchange: the response is as received until
\* it is rewritten, only decodable bodies of responses to be rewritten are
\* read, reading stops at the end of the body or at the reader's limit, and a
\* response passed through after a gzip failure was mislabelled.
Stages ==
    /\ pc # "done" => ~broke /\ client.verdict = "waiting"
    /\ pc \notin {"stream", "copy", "done"} => resp = Received
    /\ pc \in {"connect", "await", "modify", "gunzip"} => read = 0
    /\ pc = "gunzip" => ~Untouched /\ up.label = "gzip"
    /\ pc \in {"readall", "limit", "mask", "copy"} =>
          /\ ~Untouched
          /\ up.label = "gzip" => IsGzip(up.body)
          /\ read <= up.body.units
    /\ pc = "limit" => read = up.body.units \/ read >= ReaderLimit
    /\ pc \in {"mask", "copy"} => read <= limit /\ (limit = MaxInt \/ read = up.body.units)
    /\ pc = "copy" =>
          resp = [SetBody(Received, Masked(Buffered)) EXCEPT !.json = up.route = "graphql"]
    /\ pc = "stream" => \/ resp = Received /\ Untouched
                        \/ up.label = "gzip" /\ ~IsGzip(up.body) /\ ~Untouched

\* Codings the proxy can decode: without "br", every honest body is readable.
Decodable == "br" \notin Codings

Safe ==
    /\ WholeOrRefused /\ RefusedExactlyWhenTooLarge
    /\ GraphQLAnswersJSON /\ AbortedOnlyWhenBroken
    /\ Decodable => LabelMatchesBody /\ MaskedUnlessExempt

IInv == TypeOK /\ Stages /\ Safe

\* The upstream's response is well formed.
LEMMA UpstreamFacts ==
    ASSUME up \in Upstreams
    PROVE  /\ up.route \in Routes /\ up.status \in Statuses
           /\ up.label \in Codings /\ up.chunked \in BOOLEAN
           /\ up.body \in Bodies /\ up.body.coding \in Codings
           /\ up.body.content \in Contents /\ up.body.units \in 0 .. MaxUnits
           /\ up.body.units = 0 => up.body.content = "text"
           /\ ~BodyAllowed(up.status) => up.body.units = 0 /\ ~up.chunked
  BY BoundsAssumption DEF Upstreams, Bodies, Contents

\* The response as received is well typed.
LEMMA ReceivedType == ASSUME up \in Upstreams PROVE Received \in Responses
  BY UpstreamFacts, BoundsAssumption DEF Received, Responses

\* The proxy's own bodies are bodies.
LEMMA OwnType ==
    /\ None \in Bodies
    /\ \A c \in Produced : Own(c) \in Bodies
  BY BoundsAssumption DEF None, Own, Bodies, Produced

\* A limit is an integer from 1 to MaxInt, and the reader's limit is one above
\* it unless that overflows.
LEMMA LimitFacts ==
    ASSUME limit \in Limits
    PROVE  /\ limit \in Int /\ 1 <= limit /\ limit <= MaxInt
           /\ ReaderLimit = IF limit = MaxInt THEN -1 - MaxInt ELSE limit + 1
           /\ ReaderLimit \in Int /\ ReaderLimit <= limit + 1
  BY LimitsAssumption, BoundsAssumption DEF ReaderLimit

\* What a masker returns for the bytes in the buffer is a body, still
\* identity coded if the upstream's label was honest and decodable.
LEMMA MaskedType ==
    ASSUME up \in Upstreams, read \in 0 .. MaxUnits
    PROVE  /\ Buffered \in Bodies /\ Masked(Buffered) \in Bodies
           /\ Buffered.units = read
           /\ Masked(Buffered).units = read \/ Masked(Buffered) = Own("envelope")
  <1>1. Buffered \in Bodies /\ Buffered.units = read
    <2>1. up.body \in Bodies /\ read \in 0 .. MaxUnits + 1
      BY UpstreamFacts, BoundsAssumption
    <2>2. QED
      BY <2>1 DEF Buffered, Bodies, Contents
  <1>2. Own("envelope") \in Bodies
    BY OwnType DEF Produced
  <1>3. [Buffered EXCEPT !.content = "masked"] \in Bodies
    BY <1>1 DEF Bodies, Produced
  <1>4. QED
    BY <1>1, <1>2, <1>3 DEF Masked, Bodies

\* The initial state satisfies the invariant.
LEMMA InitInv == Init => IInv
  <1> SUFFICES ASSUME Init PROVE IInv
    OBVIOUS
  <1>1. TypeOK
    <2>1. resp \in Responses
      BY ReceivedType DEF Init
    <2>2. client \in Deliveries
      BY OwnType DEF Init, Deliveries
    <2>3. read \in 0 .. MaxUnits /\ read <= limit + 1
      BY LimitFacts, BoundsAssumption DEF Init
    <2>4. QED
      BY <2>1, <2>2, <2>3 DEF Init, TypeOK, Pcs
  <1>2. Stages
    BY DEF Init, Stages
  <1>3. Safe
    BY DEF Init, Safe, WholeOrRefused, RefusedExactlyWhenTooLarge, GraphQLAnswersJSON,
           AbortedOnlyWhenBroken, LabelMatchesBody, MaskedUnlessExempt, Complete
  <1>4. QED
    BY <1>1, <1>2, <1>3 DEF IInv

-----------------------------------------------------------------------------
\* Steps that leave the client waiting keep the invariant if they keep the
\* types and the stages.
LEMMA QuietStep ==
    ASSUME IInv, pc # "done", UNCHANGED client, TypeOK', Stages'
    PROVE  IInv'
  <1>1. client'.verdict = "waiting"
    BY DEF IInv, Stages
  <1>2. Safe'
    BY <1>1 DEF Safe, WholeOrRefused, RefusedExactlyWhenTooLarge, GraphQLAnswersJSON,
         AbortedOnlyWhenBroken, LabelMatchesBody, MaskedUnlessExempt, Complete
  <1>3. QED
    BY <1>2 DEF IInv

\* The ErrorHandler's answer is safe if the upstream broke, or the body is above
\* the limit, or the response was an upgrade nobody had asked for.
LEMMA ErrorHandlerStep ==
    ASSUME IInv, ErrorHandler, pc # "done", resp' \in Responses, broke' \in BOOLEAN,
           broke' \/ up.body.units > limit \/ Untouched
    PROVE  IInv'
  <1> USE DEF IInv, TypeOK
  <1> DEFINE content == IF up.route = "graphql" THEN "envelope" ELSE "badgateway"
  <1>1. client' = [verdict |-> "complete", status |-> 502, label |-> "identity",
                   json |-> up.route = "graphql", body |-> Own(content)]
    BY DEF ErrorHandler, Answer
  <1>2. up' = up /\ limit' = limit /\ read' = read /\ pc' = "done"
    BY DEF ErrorHandler
  <1>3. Own(content) \in Bodies
    BY OwnType DEF Produced
  <1>4. TypeOK'
    BY <1>1, <1>2, <1>3 DEF Deliveries, Pcs
  <1>5. Stages'
    BY <1>2 DEF Stages
  <1>6. Safe'
    <2>1. /\ WholeOrRefused' /\ GraphQLAnswersJSON' /\ LabelMatchesBody'
          /\ AbortedOnlyWhenBroken' /\ MaskedUnlessExempt'
      BY <1>1, <1>2
         DEF WholeOrRefused, GraphQLAnswersJSON, AnswersJSON, AbortedOnlyWhenBroken,
             LabelMatchesBody, MaskedUnlessExempt, Complete, OwnAnswer, Own
    <2>2. RefusedExactlyWhenTooLarge'
      BY <1>1, <1>2
         DEF RefusedExactlyWhenTooLarge, Complete, Rewritten, Untouched, isProtocolUpgrade
    <2>3. QED
      BY <2>1, <2>2 DEF Safe
  <1>7. QED
    BY <1>4, <1>5, <1>6

\* A connection torn down because the upstream's broke is safe.
LEMMA BrokenStep ==
    ASSUME IInv, pc # "done", pc' = "done", broke' = TRUE, Abort,
           UNCHANGED <<limit, up, read, resp>>
    PROVE  IInv'
  <1>1. client' \in Deliveries /\ client'.verdict = "aborted"
    BY DEF IInv, TypeOK, Abort, Deliveries
  <1>2. TypeOK'
    BY <1>1 DEF IInv, TypeOK, Pcs
  <1>3. Stages'
    BY DEF Stages
  <1>4. AbortedOnlyWhenBroken'
    BY DEF AbortedOnlyWhenBroken
  <1>5. /\ WholeOrRefused' /\ RefusedExactlyWhenTooLarge' /\ GraphQLAnswersJSON'
        /\ LabelMatchesBody' /\ MaskedUnlessExempt'
    BY <1>1 DEF WholeOrRefused, RefusedExactlyWhenTooLarge,
           GraphQLAnswersJSON, LabelMatchesBody, MaskedUnlessExempt, Complete
  <1>6. QED
    BY <1>2, <1>3, <1>4, <1>5 DEF IInv, Safe

\* An answer of a well-typed response is well typed.
LEMMA AnswerType ==
    ASSUME resp \in Responses, client \in Deliveries, Answer(resp) \/ Abort
    PROVE  client' \in Deliveries
  BY DEF Answer, Abort, Responses, Deliveries

\* Delivering the rewritten response is safe: this is where the stages before it
\* pay, the body being the masker's output for the whole of the upstream's body.
LEMMA CopyStep == ASSUME IInv, CopyResponse PROVE IInv'
  <1> USE DEF IInv
  <1> DEFINE out == Masked(Buffered)
  <1>1. /\ up \in Upstreams /\ read \in 0 .. MaxUnits /\ resp \in Responses
        /\ client \in Deliveries /\ ~broke /\ ~Untouched
        /\ up.label = "gzip" => up.body.coding = "gzip" /\ up.body.units > 0
        /\ read <= limit /\ (limit = MaxInt \/ read = up.body.units)
    BY DEF CopyResponse, TypeOK, Stages, IsGzip
  <1>2. resp = [status |-> up.status, label |-> "identity", length |-> out.units,
                json |-> up.route = "graphql", body |-> out]
    BY DEF CopyResponse, Stages, SetBody, Received
  <1>3. /\ pc' = "done" /\ UNCHANGED <<limit, up, read, broke, resp>>
        /\ IF Writable(resp) THEN Answer(resp) ELSE Abort
    BY DEF CopyResponse
  <1>4. TypeOK'
    BY <1>1, <1>3, AnswerType DEF TypeOK, Pcs
  <1>5. Stages'
    BY <1>3 DEF Stages
  <1>6. /\ out \in Bodies /\ Buffered.units = read
        /\ out.units = read \/ out = Own("envelope")
    BY <1>1, MaskedType
  <1>7. CASE Writable(resp)
    <2>1. client' = [verdict |-> "complete", status |-> up.status, label |-> "identity",
                     json |-> up.route = "graphql", body |-> out]
      BY <1>2, <1>3, <1>7 DEF Answer
    <2>2. WholeOrRefused'
      BY <2>1, <1>1, <1>3, <1>6, LimitFacts, BoundsAssumption
         DEF WholeOrRefused, Complete, OwnAnswer, Own, TypeOK
    <2>3. RefusedExactlyWhenTooLarge'
      BY <2>1, <1>1, <1>3, LimitFacts, UpstreamFacts, BoundsAssumption
         DEF RefusedExactlyWhenTooLarge, Complete, TypeOK
    <2>4. GraphQLAnswersJSON'
      <3>1. SUFFICES ASSUME up.route = "graphql", up.body.content # "tail"
                     PROVE  /\ out.coding = "identity"
                            /\ out.content \in {"governed", "clean", "masked", "envelope"}
        BY <2>1, <1>3 DEF GraphQLAnswersJSON, AnswersJSON, Complete
      <3>2. Buffered.content \in {"governed", "clean", "text"}
        BY <3>1, <1>1, UpstreamFacts DEF Buffered, Contents
      <3>3. QED
        BY <3>1, <3>2 DEF Masked, Own
    <2>5. AbortedOnlyWhenBroken'
      BY <2>1 DEF AbortedOnlyWhenBroken
    <2>6. Decodable => LabelMatchesBody' /\ MaskedUnlessExempt'
      <3>1. SUFFICES ASSUME Decodable, Honest(up)
                     PROVE  out.coding = "identity" /\ out.content # "governed"
        BY <2>1, <1>3 DEF LabelMatchesBody, MaskedUnlessExempt, Complete
      <3>2. Buffered.coding = "identity"
        BY <3>1, <1>1, UpstreamFacts, CodingsAssumption DEF Buffered, Honest, Decodable
      <3>3. QED
        BY <3>2 DEF Masked, Own
    <2>7. QED
      BY <1>4, <1>5, <2>2, <2>3, <2>4, <2>5, <2>6 DEF Safe, Decodable
  <1>8. CASE ~Writable(resp)
    <2>1. client'.verdict = "aborted"
      BY <1>1, <1>3, <1>8 DEF Abort, Deliveries
    <2>2. out.units > 0 /\ ~BodyAllowed(up.status)
      BY <1>2, <1>8 DEF Writable
    <2>3. up.body.units = 0 /\ read = 0
      BY <2>2, <1>1, UpstreamFacts, BoundsAssumption, LimitFacts DEF Stages, CopyResponse
    <2>4. out # Buffered
      BY <2>2, <2>3, <1>6
    <2>5. up.route = "graphql"
      BY <2>2, <2>3, <2>4, <1>6 DEF Masked
    <2>6. AbortedOnlyWhenBroken'
      BY <2>2, <2>5, <1>3 DEF AbortedOnlyWhenBroken
    <2>7. Safe'
      BY <2>1, <2>6 DEF Safe, WholeOrRefused, RefusedExactlyWhenTooLarge,
             GraphQLAnswersJSON, LabelMatchesBody, MaskedUnlessExempt, Complete
    <2>8. QED
      BY <1>4, <1>5, <2>7
  <1>9. QED
    BY <1>7, <1>8

\* Delivering a response passed through is safe: it is as received and was to be
\* left alone, or it was mislabelled.
LEMMA StreamStep == ASSUME IInv, StreamResponse PROVE IInv'
  <1> USE DEF IInv
  <1>1. /\ up \in Upstreams /\ resp \in Responses /\ client \in Deliveries
        /\ pc' = "done" /\ UNCHANGED <<limit, up, read, broke, resp>>
        /\ IF Writable(resp) THEN Answer(resp) ELSE Abort
    BY DEF StreamResponse, TypeOK
  <1>2. TypeOK'
    BY <1>1, AnswerType DEF TypeOK, Pcs
  <1>3. Stages'
    BY <1>1 DEF Stages
  <1>4. CASE ~Honest(up)
    <2>1. \/ up.label = "gzip" /\ ~IsGzip(up.body)
          \/ up.route = "graphql" => up.websocket
      BY <1>1 DEF StreamResponse, Stages, UnaskedUpgrade, Untouched, isProtocolUpgrade
    <2>2. Safe'
      BY <1>1, <1>4, <2>1 DEF Safe, WholeOrRefused, RefusedExactlyWhenTooLarge,
             GraphQLAnswersJSON, AbortedOnlyWhenBroken, LabelMatchesBody, MaskedUnlessExempt
    <2>3. QED
      BY <1>2, <1>3, <2>2
  <1>5. CASE Honest(up)
    <2>1. resp = Received /\ Untouched /\ (up.route = "graphql" => up.websocket)
      BY <1>5 DEF StreamResponse, Stages, UnaskedUpgrade, Untouched, isProtocolUpgrade,
                  Honest, IsGzip
    <2>2. Writable(resp)
      BY <2>1, <1>1, UpstreamFacts DEF Writable, Received, Unknown
    <2>3. client' = [verdict |-> "complete", status |-> up.status, label |-> up.label,
                     json |-> FALSE, body |-> up.body]
      BY <1>1, <2>1, <2>2 DEF Answer, Received
    <2>4. Untouched'
      BY <1>1, <2>1 DEF Untouched, isProtocolUpgrade
    <2>5. Safe'
      BY <1>1, <1>5, <2>1, <2>3, <2>4
         DEF Safe, WholeOrRefused, RefusedExactlyWhenTooLarge, GraphQLAnswersJSON,
             AbortedOnlyWhenBroken, LabelMatchesBody, MaskedUnlessExempt, Complete,
             Rewritten, Honest
    <2>6. QED
      BY <1>2, <1>3, <2>5
  <1>6. QED
    BY <1>4, <1>5

\* Every step keeps the invariant.
LEMMA NextInv == IInv /\ [Next]_vars => IInv'
  <1> SUFFICES ASSUME IInv, [Next]_vars PROVE IInv'
    OBVIOUS
  <1> USE DEF IInv
  <1>a. /\ limit \in Limits /\ up \in Upstreams /\ read \in 0 .. MaxUnits
        /\ resp \in Responses /\ client \in Deliveries
    BY DEF TypeOK
  <1>b. /\ limit \in Int /\ 1 <= limit /\ limit <= MaxInt
        /\ ReaderLimit \in Int /\ ReaderLimit <= limit + 1
    BY <1>a, LimitFacts
  <1>1. CASE Connected
    <2>1. TypeOK'
      BY <1>1 DEF Connected, TypeOK, Pcs
    <2>2. Stages'
      BY <1>1 DEF Connected, Stages, Received
    <2>3. QED
      BY <1>1, <2>1, <2>2, QuietStep DEF Connected
  <1>2. CASE ConnectFails
    BY <1>2, <1>a, ErrorHandlerStep DEF ConnectFails
  <1>3. CASE HeadersArrive
    <2>1. TypeOK'
      BY <1>3 DEF HeadersArrive, TypeOK, Pcs
    <2>2. Stages'
      BY <1>3 DEF HeadersArrive, Stages, Received
    <2>3. QED
      BY <1>3, <2>1, <2>2, QuietStep DEF HeadersArrive
  <1>4. CASE ResponseHeaderTimeout
    BY <1>4, <1>a, ErrorHandlerStep DEF ResponseHeaderTimeout
  <1>5. CASE LeaveUntouched
    <2>1. TypeOK'
      BY <1>5 DEF LeaveUntouched, TypeOK, Pcs
    <2>2. Stages'
      BY <1>5 DEF LeaveUntouched, Stages, Received, Untouched, isProtocolUpgrade
    <2>3. QED
      BY <1>5, <2>1, <2>2, QuietStep DEF LeaveUntouched
  <1>6. CASE StartReading
    <2>1. TypeOK'
      BY <1>6 DEF StartReading, TypeOK, Pcs
    <2>2. read <= up.body.units
      BY <1>6, <1>a, UpstreamFacts, BoundsAssumption DEF StartReading, Stages
    <2>3. Stages'
      BY <1>6, <2>2 DEF StartReading, Stages, Received, Untouched, isProtocolUpgrade
    <2>4. QED
      BY <1>6, <2>1, <2>3, QuietStep DEF StartReading
  <1>6a. CASE OpenGzip
    <2>1. TypeOK'
      BY <1>6a DEF OpenGzip, TypeOK, Pcs
    <2>2. Stages'
      BY <1>6a DEF OpenGzip, Stages, Received, Untouched, isProtocolUpgrade
    <2>3. QED
      BY <1>6a, <2>1, <2>2, QuietStep DEF OpenGzip
  <1>6b. CASE GzipReaderOpens
    <2>1. TypeOK'
      BY <1>6b DEF GzipReaderOpens, TypeOK, Pcs
    <2>2. read <= up.body.units
      BY <1>6b, <1>a, UpstreamFacts, BoundsAssumption DEF GzipReaderOpens, Stages
    <2>3. Stages'
      BY <1>6b, <2>2 DEF GzipReaderOpens, Stages, Received, Untouched, isProtocolUpgrade
    <2>4. QED
      BY <1>6b, <2>1, <2>3, QuietStep DEF GzipReaderOpens
  <1>7. CASE GzipReaderFails
    <2>1. PICK taken \in 0 .. up.body.units :
             resp' = [resp EXCEPT !.body.units = @ - taken, !.json = up.route = "graphql"]
      BY <1>7 DEF GzipReaderFails
    <2>2. resp.body.units - taken \in 0 .. MaxUnits + 1
      BY <1>7, <1>a, UpstreamFacts, BoundsAssumption DEF GzipReaderFails, Stages, Received
    <2>3. resp' \in Responses
      BY <2>1, <2>2, <1>a DEF Responses, Bodies
    <2>4. TypeOK'
      BY <1>7, <2>3 DEF GzipReaderFails, TypeOK, Pcs
    <2>5. ~IsGzip(up.body) /\ up.label = "gzip" /\ ~Untouched
      BY <1>7 DEF GzipReaderFails, Stages
    <2>6. Stages'
      BY <1>7, <2>5 DEF GzipReaderFails, Stages, Received, Untouched, isProtocolUpgrade
    <2>7. QED
      BY <1>7, <2>4, <2>6, QuietStep DEF GzipReaderFails
  <1>8. CASE GzipHeaderCut
    BY <1>8, BrokenStep DEF GzipHeaderCut
  <1>9. CASE ReadUnit
    <2>1. TypeOK'
      BY <1>9, <1>a, <1>b, UpstreamFacts, BoundsAssumption DEF ReadUnit, TypeOK
    <2>2. read + 1 <= up.body.units
      BY <1>9, <1>a, UpstreamFacts, BoundsAssumption DEF ReadUnit
    <2>3. Stages'
      BY <1>9, <2>2 DEF ReadUnit, Stages, Received, Untouched, isProtocolUpgrade
    <2>4. QED
      BY <1>9, <2>1, <2>3, QuietStep DEF ReadUnit
  <1>10. CASE ReadFails
    <2>1. resp' \in Responses
      BY <1>10, <1>a, OwnType DEF ReadFails, Responses
    <2>2. QED
      BY <1>10, <2>1, ErrorHandlerStep DEF ReadFails
  <1>11. CASE ReadEnds
    <2>1. TypeOK'
      BY <1>11 DEF ReadEnds, TypeOK, Pcs
    <2>2. Stages'
      BY <1>11 DEF ReadEnds, Stages, Received, Untouched, isProtocolUpgrade, ReaderLimit
    <2>3. QED
      BY <1>11, <2>1, <2>2, QuietStep DEF ReadEnds
  <1>12. CASE RefuseTooLarge
    <2>1. resp' \in Responses
      BY <1>12, <1>a, OwnType DEF RefuseTooLarge, Responses
    <2>2. up.body.units > limit
      BY <1>12, <1>a, <1>b, UpstreamFacts, BoundsAssumption
         DEF RefuseTooLarge, TooLarge, Stages
    <2>3. broke' \in BOOLEAN
      BY <1>12 DEF RefuseTooLarge, TypeOK
    <2>4. QED
      BY <1>12, <2>1, <2>2, <2>3, ErrorHandlerStep DEF RefuseTooLarge
  <1>13. CASE WithinLimit
    <2>1. TypeOK'
      BY <1>13 DEF WithinLimit, TypeOK, Pcs
    <2>2. read <= limit /\ (limit = MaxInt \/ read = up.body.units)
      BY <1>13, <1>a, <1>b, BoundsAssumption DEF WithinLimit, TooLarge, Stages, ReaderLimit
    <2>3. Stages'
      BY <1>13, <2>2 DEF WithinLimit, Stages, Received, Untouched, isProtocolUpgrade
    <2>4. QED
      BY <1>13, <2>1, <2>3, QuietStep DEF WithinLimit
  <1>14. CASE MaskAndSetBody
    <2> DEFINE out == Masked(Buffered)
    <2>1. out \in Bodies /\ out.units \in 0 .. MaxUnits + 1
      BY <1>a, MaskedType DEF Bodies
    <2>2. resp' = [SetBody(Received, out) EXCEPT !.json = up.route = "graphql"]
      BY <1>14 DEF MaskAndSetBody, Stages
    <2>3. resp' \in Responses
      BY <2>1, <2>2, <1>a, ReceivedType DEF SetBody, Responses
    <2>4. TypeOK'
      BY <1>14, <2>3 DEF MaskAndSetBody, TypeOK, Pcs
    <2>5. Stages'
      BY <1>14, <2>2 DEF MaskAndSetBody, Stages, Received, Untouched, isProtocolUpgrade,
                         SetBody, Masked, Buffered
    <2>6. QED
      BY <1>14, <2>4, <2>5, QuietStep DEF MaskAndSetBody
  <1>15. CASE CopyResponse
    BY <1>15, CopyStep
  <1>16. CASE StreamResponse
    BY <1>16, StreamStep
  <1>17. CASE StreamBreaks
    BY <1>17, BrokenStep DEF StreamBreaks
  <1>18. CASE RefuseUpgrade
    BY <1>18, <1>a, ErrorHandlerStep
       DEF RefuseUpgrade, UnaskedUpgrade, Untouched, isProtocolUpgrade, TypeOK
  <1>19. CASE UNCHANGED vars
    BY <1>19 DEF vars, TypeOK, Stages, Received, Untouched, isProtocolUpgrade, SetBody,
                 Masked, Buffered, ReaderLimit, Safe, WholeOrRefused,
                 RefusedExactlyWhenTooLarge, GraphQLAnswersJSON, AnswersJSON,
                 AbortedOnlyWhenBroken, LabelMatchesBody, MaskedUnlessExempt, Complete,
                 OwnAnswer, Rewritten
  <1>20. QED
    BY <1>1, <1>2, <1>3, <1>4, <1>5, <1>6, <1>7, <1>8, <1>9, <1>10, <1>11, <1>12, <1>13,
       <1>14, <1>15, <1>16, <1>17, <1>18, <1>19, <1>6a, <1>6b DEF Next, Done

-----------------------------------------------------------------------------
\* The invariant holds of every reachable state.
LEMMA Invariant == Spec => []IInv
  BY InitInv, NextInv, PTL DEF Spec

\* Every reachable state is well typed; in particular the buffer never holds more
\* than one unit above MAX_RESPONSE_BYTES.
THEOREM TypeCorrect == Spec => []TypeOK
  BY Invariant, PTL DEF IInv

\* Whatever the upstream sends and whenever it breaks, no part of a document is
\* served as the whole of it.
THEOREM ServesWholeDocuments == Spec => []WholeOrRefused
  <1>1. IInv => WholeOrRefused
    BY DEF IInv, Safe
  <1>2. QED
    BY Invariant, <1>1, PTL

\* Of the responses that are rewritten, exactly those above the limit become the
\* proxy's 502.
THEOREM RefusesByTheLimit == Spec => []RefusedExactlyWhenTooLarge
  <1>1. IInv => RefusedExactlyWhenTooLarge
    BY DEF IInv, Safe
  <1>2. QED
    BY Invariant, <1>1, PTL

\* Every answer on /graphql is JSON, whatever the upstream's status, coding and
\* framing, or else a handshake, a body labelled gzip that is none, or an object
\* with trailing data.
THEOREM AlwaysJSON == Spec => []GraphQLAnswersJSON
  <1>1. IInv => GraphQLAnswersJSON
    BY DEF IInv, Safe
  <1>2. QED
    BY Invariant, <1>1, PTL

\* A client is cut off only if the upstream was, or for an envelope written to a
\* status without a body.
THEOREM AbortsOnlyBroken == Spec => []AbortedOnlyWhenBroken
  <1>1. IInv => AbortedOnlyWhenBroken
    BY DEF IInv, Safe
  <1>2. QED
    BY Invariant, <1>1, PTL

\* With upstreams that use no coding but gzip, the Content-Encoding delivered is
\* that of the bytes delivered.
THEOREM LabelsMatch == ASSUME Decodable PROVE Spec => []LabelMatchesBody
  <1>1. IInv => LabelMatchesBody
    BY DEF IInv, Safe
  <1>2. QED
    BY Invariant, <1>1, PTL

\* With upstreams that use no coding but gzip, a governed value is delivered
\* unmasked only in the responses the code means to leave alone.
THEOREM Masks == ASSUME Decodable PROVE Spec => []MaskedUnlessExempt
  <1>1. IInv => MaskedUnlessExempt
    BY DEF IInv, Safe
  <1>2. QED
    BY Invariant, <1>1, PTL
=============================================================================
