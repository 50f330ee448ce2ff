------------------------------ MODULE MCFibers ------------------------------
(* Both context switch programs for TLC.                                   *)
EXTENDS Fibers

\* Six registers that all differ, and differ from those of another content.
MCContents == {[r \in Regs |-> <<"reg", 6 * k + r>>] : k \in 0 .. 3}
=============================================================================
