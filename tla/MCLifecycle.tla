----------------------------- MODULE MCLifecycle -----------------------------
(* Three connections, so that one may hang and one be a tail while another    *)
(* ends, and two signals: one to be kept and one to be dropped.               *)
EXTENDS Lifecycle
=============================================================================
