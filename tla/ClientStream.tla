----------------------------- MODULE ClientStream -----------------------------
(***************************************************************************)
(* What the client of a completion is promised: pieces of an answer, each  *)
(* once and in order, then one ending with nothing after it, and that the  *)
(* ending comes and stays.  Where the pieces come from is left open.       *)
(***************************************************************************)
EXTENDS Sequences, SequencesExt

CONSTANT Ends       \* the ways an answer may end

VARIABLES
    shown,          \* the pieces sent so far
    end             \* how the answer ended, or "open"

Init == shown = <<>> /\ end = "open"

\* A step of the server: it may send some more, and it may end the answer.
Deliver ==
    /\ end = "open"
    /\ IsPrefix(shown, shown')
    /\ IsInjective(shown')
    /\ end' \in Ends \cup {"open"}

Spec == Init /\ [][Deliver]_<<shown, end>> /\ <>[](end \in Ends)
=============================================================================
