----------------------------- MODULE MCDeadline -----------------------------
(* An instance of ReadDeadline, and so of Connection, for TLC. *)
EXTENDS ReadDeadline

\* All at once, or one by one.
MCBatches == {-1, 1}
=============================================================================
