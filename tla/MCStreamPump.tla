----------------------------- MODULE MCStreamPump -----------------------------
(* Small queues; the bounds are in the configurations. *)
EXTENDS StreamPump
=============================================================================
