----------------------------- MODULE MCCompletion -----------------------------
(* Two accounts the request may be leased, one after the other. *)
EXTENDS Completion
CONSTANTS a1, a2
MCAccounts == {a1, a2}
=============================================================================
