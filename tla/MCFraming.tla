------------------------------ MODULE MCFraming -----------------------------
(* Instances of Framing for TLC; the cfg files give the constants. *)
EXTENDS Framing

\* With Base 2 a chunk has three bytes at most.  A body like a PackStream
\* structure does not begin with a zero; the rest looks like headers and NOOPs.
Short  == <<1, 0>>
Full   == <<1, 0, 0>>           \* one chunk to the byte
Long   == <<1, 0, 0, 0>>        \* one byte over, and MAX_MESSAGE
Over   == <<1, 0, 0, 0, 1>>

Bodies == {Short, Full, Long, Over}
=============================================================================
