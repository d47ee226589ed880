----------------------------- MODULE HeaderCodec ----------------------------
(***************************************************************************)
(* One header of PackStream, packed and read back (src/src/packstream.rs). *)
(***************************************************************************)
EXTENDS PackHeader

CONSTANTS Sizes,   \* lengths and counts packed
          Ints     \* integers packed

VARIABLES kind, n, bytes, back, stage

headerVars == <<kind, n, bytes, back, stage>>

HeaderInit ==
  /\ \/ kind \in Sized \union {"bytes"} /\ n \in Sizes
     \/ kind = "int" /\ n \in Ints
  /\ bytes = << >>
  /\ back = 0
  /\ stage = "new"

Pack ==
  /\ stage = "new"
  /\ stage' = "packed"
  /\ bytes' = CASE kind = "int" -> pack_int(n)
                [] kind = "bytes" -> bytes_header(n)
                [] OTHER -> pack_header(n, Markers[kind])
  /\ UNCHANGED <<kind, n, back>>

Read ==
  /\ stage = "packed"
  /\ bytes # Refused
  /\ stage' = "read"
  /\ back' = Number(bytes[1], Tail(bytes))
  /\ UNCHANGED <<kind, n, bytes>>

HeaderNext == Pack \/ Read

HeaderSpec == HeaderInit /\ [][HeaderNext]_headerVars

-----------------------------------------------------------------------------
(* Properties *)

\* What is read is what was packed, the header's length included: every
\* boundary of the widths falls on the same side in pack_header, pack_int and
\* the Reader.  A size past 32 bits is refused, but for a byte array's, which
\* pack_bytes writes modulo 2^32 and is set aside.
HeaderRoundTrip ==
  /\ stage = "read" /\ (kind = "bytes" => n < U32) =>
       /\ Kind(bytes[1]) = (IF kind = "int" /\ n \in -16 .. 127 THEN "tiny_int" ELSE kind)
       /\ Len(bytes) = 1 + Width(bytes[1])
       /\ back = n
  /\ stage = "packed" => (bytes = Refused <=> kind \in Sized /\ n >= U32)
=============================================================================
