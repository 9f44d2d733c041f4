------------------------- MODULE MCResponsePipeline -------------------------
(* Bounds for ResponsePipeline: documents of up to four units against limits *)
(* of two, four and MaxInt, so that a body is below, at, one above and well   *)
(* above the limit.                                                           *)
EXTENDS ResponsePipeline

MCStatuses == {101, 200, 204, 500, 502}
MCHonestCodings == {"identity", "gzip"}
MCAllCodings == {"identity", "gzip", "br"}
=============================================================================
