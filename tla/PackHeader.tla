----------------------------- MODULE PackHeader -----------------------------
(***************************************************************************)
(* The headers of PackStream (src/src/packstream.rs): the marker and the   *)
(* size or the integer at the head of a packed value, and how a Reader     *)
(* tells them.  HeaderCodec.tla packs one and reads it back; PackStream.tla *)
(* builds whole values over them.                                          *)
(*                                                                         *)
(* Half32 is 2^31 in the code.  TLC's integers end there, so a run takes a *)
(* smaller one: the comparisons at 32 bits keep their form.  The proofs of *)
(* HeaderProofs.tla are for every Half32 up to 2^31.                       *)
(***************************************************************************)
EXTENDS Integers, Sequences

CONSTANT Half32

ASSUME HeaderAssumption == Half32 \in Nat /\ Half32 > 65536 /\ Half32 - 1 <= 2147483647

U32 == 2 * Half32

NULL     == 192
FLOAT_64 == 193
FALSE_   == 194
TRUE_    == 195
INT_8    == 200
INT_16   == 201
INT_32   == 202
INT_64   == 203
BYTES_8  == 204
BYTES_16 == 205
BYTES_32 == 206

\* tiny, m8 and m16 of the kinds that share pack_header; m32 = m16 + 1.
Markers == [string |-> [tiny |-> 128, m8 |-> 208, m16 |-> 209],
            list   |-> [tiny |-> 144, m8 |-> 212, m16 |-> 213],
            map    |-> [tiny |-> 160, m8 |-> 216, m16 |-> 217],
            struct |-> [tiny |-> 176, m8 |-> 220, m16 |-> 221]]

Sized == DOMAIN Markers

-----------------------------------------------------------------------------
(* to_be_bytes and from_be_bytes, two's complement *)

be1(n) == <<n % 256>>
be2(n) == <<(n \div 256) % 256, n % 256>>
be4(n) == <<(n \div 16777216) % 256, (n \div 65536) % 256, (n \div 256) % 256, n % 256>>
be8(n) == be4((n \div 65536) \div 65536) \o be4(n)

u1(b) == b[1]
u2(b) == b[1] * 256 + b[2]
u4(b) == (u2(b) * 256 + b[3]) * 256 + b[4]
i1(b) == IF b[1] < 128 THEN b[1] ELSE b[1] - 256
i2(b) == i1(b) * 256 + b[2]
i4(b) == (i2(b) * 256 + b[3]) * 256 + b[4]
i8(b) == (((i4(b) * 256 + b[5]) * 256 + b[6]) * 256 + b[7]) * 256 + b[8]

-----------------------------------------------------------------------------
(* Packing *)

\* The error of a size past 32 bits; no header is empty.
Refused == << >>

\* Mutant: the bound of the tiny form is off by one.
pack_headerTiny(size, m) ==
  IF size <= 16 THEN <<m.tiny + size>>
  ELSE IF size < 256 THEN <<m.m8>> \o be1(size)
  ELSE IF size < 65536 THEN <<m.m16>> \o be2(size)
  ELSE IF size < U32 THEN <<m.m16 + 1>> \o be4(size)
  ELSE Refused

pack_header(size, m) ==
  IF size < 16 THEN <<m.tiny + size>>
  ELSE IF size < 256 THEN <<m.m8>> \o be1(size)
  ELSE IF size < 65536 THEN <<m.m16>> \o be2(size)
  ELSE IF size < U32 THEN <<m.m16 + 1>> \o be4(size)
  ELSE Refused

\* The head of pack_bytes: the last cast drops what is past 32 bits.
bytes_header(n) ==
  IF n < 256 THEN <<BYTES_8>> \o be1(n)
  ELSE IF n < 65536 THEN <<BYTES_16>> \o be2(n)
  ELSE <<BYTES_32>> \o be4(n % U32)

pack_int(i) ==
  IF i \in -16 .. 127 THEN be1(i)
  ELSE IF i \in -128 .. 127 THEN <<INT_8>> \o be1(i)
  ELSE IF -32768 <= i /\ i <= 32767 THEN <<INT_16>> \o be2(i)
  ELSE IF -Half32 <= i /\ i <= Half32 - 1 THEN <<INT_32>> \o be4(i)
  ELSE <<INT_64>> \o be8(i)

-----------------------------------------------------------------------------
(* Reading *)

\* The kind a marker byte announces, "unknown" for none.
Kind(marker) ==
  LET nibble == marker - (marker % 16) IN
  CASE marker < 128 \/ marker >= 240 -> "tiny_int"
    [] \E k \in Sized : Markers[k].tiny = nibble ->
         CHOOSE k \in Sized : Markers[k].tiny = nibble
    [] \E k \in Sized : marker \in Markers[k].m8 .. Markers[k].m8 + 2 ->
         CHOOSE k \in Sized : marker \in Markers[k].m8 .. Markers[k].m8 + 2
    [] marker \in INT_8 .. INT_64 -> "int"
    [] marker \in BYTES_8 .. BYTES_32 -> "bytes"
    [] marker = NULL -> "null"
    [] marker = FLOAT_64 -> "float"
    [] marker \in {FALSE_, TRUE_} -> "bool"
    [] OTHER -> "unknown"

\* How many bytes of size or integer follow the marker.
Width(marker) ==
  CASE Kind(marker) = "int"   -> 2 ^ (marker - INT_8)
    [] Kind(marker) = "bytes" -> 2 ^ (marker - BYTES_8)
    [] Kind(marker) \in Sized /\ marker >= 192 -> 2 ^ (marker - Markers[Kind(marker)].m8)
    [] OTHER -> 0

\* Reader::size, and the integer arms of unpack, by the bytes taken.
Unsigned(b) == CASE Len(b) = 1 -> u1(b) [] Len(b) = 2 -> u2(b) [] OTHER -> u4(b)

Signed(b) ==
  CASE Len(b) = 1 -> i1(b) [] Len(b) = 2 -> i2(b) [] Len(b) = 4 -> i4(b) [] OTHER -> i8(b)

\* The number in the bytes after the marker, or in the marker when they are none.
Number(marker, b) ==
  IF Kind(marker) = "tiny_int" THEN i1(<<marker>>)
  ELSE IF Kind(marker) = "int" THEN Signed(b)
  ELSE IF Width(marker) = 0 THEN marker % 16
  ELSE Unsigned(b)

=============================================================================
