---------------------------- MODULE MCConnection ----------------------------
(* Instances of Connection for TLC; the cfg files give the constants. *)
EXTENDS Connection

\* Streams are read one record at a time, or whole.
MCBatches == {-1, 1}
=============================================================================
