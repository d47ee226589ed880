---------------------------- MODULE HeaderProofs ----------------------------
(***************************************************************************)
(* PackStream's headers read back as they were packed (HeaderCodec), for   *)
(* every size and every 64-bit integer, with Half32 up to the code's 2^31. *)
(***************************************************************************)
EXTENDS HeaderCodec, SequenceTheorems, TLAPS

\* i64.
Int64 == {k \in Int : -(2147483648 * 4294967296) <= k /\ k < 2147483648 * 4294967296}

-----------------------------------------------------------------------------
(* to_be_bytes and from_be_bytes *)

\* An unsigned byte is read back.
LEMMA Unsigned1 ==
  ASSUME NEW k \in Nat, k < 256
  PROVE  u1(be1(k)) = k /\ Len(be1(k)) = 1
  BY DEF u1, be1

\* A u16 is read back from its two big-endian bytes.
LEMMA Unsigned2 ==
  ASSUME NEW k \in Nat, k < 65536
  PROVE  u2(be2(k)) = k /\ Len(be2(k)) = 2
  BY DEF u2, be2

\* A u32 is read back from its four big-endian bytes.
LEMMA Unsigned4 ==
  ASSUME NEW k \in Nat, k < 4294967296
  PROVE  u4(be4(k)) = k /\ Len(be4(k)) = 4
  BY DEF u4, u2, be4

\* An i8 is read back from its byte.
LEMMA Signed1 ==
  ASSUME NEW k \in Int, -128 <= k, k < 128
  PROVE  i1(be1(k)) = k /\ Len(be1(k)) = 1
  BY DEF i1, be1

\* An i16 is read back from its two bytes.
LEMMA Signed2 ==
  ASSUME NEW k \in Int, -32768 <= k, k < 32768
  PROVE  i2(be2(k)) = k /\ Len(be2(k)) = 2
  BY DEF i2, i1, be2

\* An i32 is read back from its four bytes.
LEMMA Signed4 ==
  ASSUME NEW k \in Int, -2147483648 <= k, k < 2147483648
  PROVE  i4(be4(k)) = k /\ Len(be4(k)) = 4
  BY DEF i4, i2, i1, be4

\* An i64 is read back from its eight bytes.
LEMMA Signed8 ==
  ASSUME NEW k \in Int64
  PROVE  i8(be8(k)) = k /\ Len(be8(k)) = 8
<1> DEFINE h == (k \div 65536) \div 65536
<1>1. k \in Int /\ -(2147483648 * 4294967296) <= k /\ k < 2147483648 * 4294967296
  BY DEF Int64
<1>2. h \in Int /\ -2147483648 <= h /\ h < 2147483648
  BY <1>1
<1>3. be4(h) \in Seq(Int) /\ be4(k) \in Seq(Int) /\ Len(be4(h)) = 4 /\ Len(be4(k)) = 4
  BY <1>1, <1>2 DEF be4
<1>4. i4(be4(h)) = h
  BY <1>2, Signed4
<1>5. u4(be4(k)) = k - h * 4294967296
  <2> DEFINE r == k - h * 4294967296
  <2>1. r \in Nat /\ r < 4294967296 /\ k = r + h * 4294967296
    BY <1>1
  <2> HIDE DEF h, r
  <2>2. /\ k % 256 = r % 256 /\ (k \div 256) % 256 = (r \div 256) % 256
        /\ (k \div 65536) % 256 = (r \div 65536) % 256
        /\ (k \div 16777216) % 256 = (r \div 16777216) % 256
    BY <1>1, <1>2, <2>1
  <2>3. u4(be4(k)) = u4(be4(r))
    BY <2>2 DEF be4
  <2> QED  BY <2>1, <2>3, Unsigned4 DEF r
<1>6. k = h * 4294967296 + (k - h * 4294967296)
  BY <1>1
<1> DEFINE b == be8(k)
<1>7. b = be4(h) \o be4(k)
  BY DEF be8
<1> HIDE DEF h, b
<1>8. /\ Len(b) = 8
      /\ b[1] = be4(h)[1] /\ b[2] = be4(h)[2] /\ b[3] = be4(h)[3] /\ b[4] = be4(h)[4]
      /\ b[5] = be4(k)[1] /\ b[6] = be4(k)[2] /\ b[7] = be4(k)[3] /\ b[8] = be4(k)[4]
  <2>1. /\ Len(b) = Len(be4(h)) + Len(be4(k))
        /\ \A i \in 1 .. Len(be4(h)) + Len(be4(k)) :
             b[i] = IF i <= Len(be4(h)) THEN be4(h)[i] ELSE be4(k)[i - Len(be4(h))]
    BY <1>3, <1>7, ConcatProperties, Zenon
  <2>2. \A i \in 1..8 : b[i] = IF i <= 4 THEN be4(h)[i] ELSE be4(k)[i - 4]
    BY <1>3, <2>1
  <2> QED  BY <1>3, <2>1, <2>2
<1>9. i4(b) = i4(be4(h))
  BY <1>8 DEF i4, i2, i1
<1>10. i8(b) = i4(b) * 4294967296 + u4(be4(k))
  <2>1. /\ be4(k)[1] \in Int /\ be4(k)[2] \in Int /\ be4(k)[3] \in Int
        /\ be4(k)[4] \in Int /\ i4(b) \in Int
    BY <1>1, <1>2, <1>4, <1>9 DEF be4
  <2> QED  BY <1>8, <2>1 DEF i8, u4, u2
<1> QED  BY <1>2, <1>4, <1>5, <1>6, <1>8, <1>9, <1>10 DEF b

-----------------------------------------------------------------------------
(* Markers *)

\* A marker in front of its bytes, taken apart again.
LEMMA Marked ==
  ASSUME NEW m \in Int, NEW s \in Seq(Int)
  PROVE  /\ (<<m>> \o s)[1] = m /\ Tail(<<m>> \o s) = s
         /\ Len(<<m>> \o s) = 1 + Len(s) /\ <<m>> \o s # << >>
  OBVIOUS

\* The kinds that share pack_header.
LEMMA SizedKinds == Sized = {"string", "list", "map", "struct"}
  BY DEF Sized, Markers

\* The powers the widths are.
LEMMA Powers == 2^0 = 1 /\ 2^1 = 2 /\ 2^2 = 4 /\ 2^3 = 8
  OBVIOUS

\* What a byte must not be to have one kind: the guards of Kind exclude one
\* another.
LEMMA Guards ==
  ASSUME NEW m \in Int
  PROVE  /\ m < 128 \/ m >= 192 =>
              \A k \in Sized : Markers[k].tiny # m - (m % 16)
         /\ m < 208 \/ m >= 223 =>
              \A k \in Sized : m \notin Markers[k].m8 .. Markers[k].m8 + 2
<1>1. m < 128 => m - (m % 16) < 128
  OBVIOUS
<1>2. m >= 192 => m - (m % 16) >= 192
  OBVIOUS
<1>3. m - (m % 16) \in Int
  OBVIOUS
<1>4. \A k \in Sized : /\ 128 <= Markers[k].tiny /\ Markers[k].tiny < 192 /\ Markers[k].tiny \in Int
                       /\ 208 <= Markers[k].m8 /\ Markers[k].m8 <= 220 /\ Markers[k].m8 \in Int
  BY SizedKinds DEF Markers
<1> QED  BY <1>1, <1>2, <1>3, <1>4

\* A tiny header's marker holds the size.
LEMMA TinyMarker ==
  ASSUME NEW k \in Sized, NEW s \in Nat, s < 16
  PROVE  /\ Markers[k].tiny + s \in Int
         /\ Kind(Markers[k].tiny + s) = k /\ Width(Markers[k].tiny + s) = 0
         /\ (Markers[k].tiny + s) % 16 = s
<1> DEFINE m == Markers[k].tiny + s
<1>1. /\ m \in Int /\ 128 <= m /\ m < 192 /\ m % 16 = s
      /\ m - (m % 16) = Markers[k].tiny
  BY SizedKinds DEF Markers
<1>2. \A j \in Sized : Markers[j].tiny = Markers[k].tiny => j = k
  BY SizedKinds DEF Markers
<1> HIDE DEF m
<1>3. Kind(m) = k
  <2>1. \A j \in Sized : m \notin Markers[j].m8 .. Markers[j].m8 + 2
    BY <1>1, Guards
  <2> QED  BY <1>1, <1>2, <2>1
           DEF Kind, NULL, FLOAT_64, FALSE_, TRUE_, INT_8, INT_64, BYTES_8, BYTES_32
<1>4. Kind(m) # "int" /\ Kind(m) # "bytes" /\ ~(m >= 192)
  BY <1>1, <1>3, SizedKinds
<1>5. Width(m) = 0
  BY <1>4 DEF Width
<1> QED  BY <1>1, <1>3, <1>5 DEF m

\* The markers of 8, 16 and 32 bit sizes.
LEMMA WideMarker ==
  ASSUME NEW k \in Sized, NEW j \in 0..2
  PROVE  /\ Markers[k].m8 + j \in Int /\ Markers[k].m16 = Markers[k].m8 + 1
         /\ Kind(Markers[k].m8 + j) = k /\ Width(Markers[k].m8 + j) = 2^j
<1> DEFINE m == Markers[k].m8 + j
<1>1. /\ m \in Int /\ 208 <= m /\ m < 223
      /\ Markers[k].m16 = Markers[k].m8 + 1 /\ m - Markers[k].m8 = j
      /\ m \in Markers[k].m8 .. Markers[k].m8 + 2
  BY SizedKinds DEF Markers
<1>2. \A l \in Sized : m \in Markers[l].m8 .. Markers[l].m8 + 2 => l = k
  BY SizedKinds DEF Markers
<1> HIDE DEF m
<1>3. \A l \in Sized : Markers[l].tiny # m - (m % 16)
  BY <1>1, Guards
<1>4. Kind(m) = k
  BY <1>1, <1>2, <1>3
  DEF Kind, NULL, FLOAT_64, FALSE_, TRUE_, INT_8, INT_64, BYTES_8, BYTES_32
<1>5. Width(m) = 2^(m - Markers[k].m8)
  <2>1. Kind(m) # "int" /\ Kind(m) # "bytes" /\ Kind(m) \in Sized /\ m >= 192
    BY <1>1, <1>4, SizedKinds
  <2> QED  BY <1>4, <2>1 DEF Width
<1> QED  BY <1>1, <1>4, <1>5 DEF m

\* The markers of integers.
LEMMA IntMarker ==
  ASSUME NEW j \in 0..3
  PROVE  Kind(INT_8 + j) = "int" /\ Width(INT_8 + j) = 2^j
<1> DEFINE m == INT_8 + j
<1>1. m \in Int /\ 200 <= m /\ m <= 203 /\ m - INT_8 = j
  BY DEF INT_8
<1> HIDE DEF m
<1>2. \A l \in Sized : /\ Markers[l].tiny # m - (m % 16)
                       /\ m \notin Markers[l].m8 .. Markers[l].m8 + 2
  BY <1>1, Guards
<1>3. Kind(m) = "int"
  BY <1>1, <1>2 DEF Kind, NULL, FLOAT_64, FALSE_, TRUE_, INT_8, INT_64, BYTES_8, BYTES_32
<1>4. Width(m) = 2^(m - INT_8)
  BY <1>3, SizedKinds DEF Width
<1> QED  BY <1>1, <1>3, <1>4 DEF m

\* The markers of byte arrays.
LEMMA BytesMarker ==
  ASSUME NEW j \in 0..2
  PROVE  Kind(BYTES_8 + j) = "bytes" /\ Width(BYTES_8 + j) = 2^j
<1> DEFINE m == BYTES_8 + j
<1>1. m \in Int /\ 204 <= m /\ m <= 206 /\ m - BYTES_8 = j
  BY DEF BYTES_8
<1> HIDE DEF m
<1>2. \A l \in Sized : /\ Markers[l].tiny # m - (m % 16)
                       /\ m \notin Markers[l].m8 .. Markers[l].m8 + 2
  BY <1>1, Guards
<1>3. Kind(m) = "bytes"
  BY <1>1, <1>2 DEF Kind, NULL, FLOAT_64, FALSE_, TRUE_, INT_8, INT_64, BYTES_8, BYTES_32
<1>4. Width(m) = 2^(m - BYTES_8)
  BY <1>3, SizedKinds DEF Width
<1> QED  BY <1>1, <1>3, <1>4 DEF m

\* The marker that is the integer itself.
LEMMA TinyInt ==
  ASSUME NEW k \in Int, -16 <= k, k < 128
  PROVE  Kind(k % 256) = "tiny_int" /\ Width(k % 256) = 0
<1> DEFINE m == k % 256
<1>1. m \in Int /\ (m < 128 \/ m >= 240)
  OBVIOUS
<1> HIDE DEF m
<1>2. \A l \in Sized : /\ Markers[l].tiny # m - (m % 16)
                       /\ m \notin Markers[l].m8 .. Markers[l].m8 + 2
  BY <1>1, Guards
<1>3. Kind(m) = "tiny_int"
  <2>1. CASE m < 128
    BY <1>1, <1>2, <2>1
    DEF Kind, NULL, FLOAT_64, FALSE_, TRUE_, INT_8, INT_64, BYTES_8, BYTES_32
  <2>2. CASE m >= 240
    BY <1>1, <1>2, <2>2
    DEF Kind, NULL, FLOAT_64, FALSE_, TRUE_, INT_8, INT_64, BYTES_8, BYTES_32
  <2> QED  BY <1>1, <2>1, <2>2
<1>4. Width(m) = 0
  BY <1>3, SizedKinds DEF Width
<1> QED  BY <1>3, <1>4 DEF m

-----------------------------------------------------------------------------
(* Headers *)

\* Bytes b are a header of kind k that reads as number s.
Reads(b, k, s) ==
  /\ b # Refused
  /\ Kind(b[1]) = k
  /\ Len(b) = 1 + Width(b[1])
  /\ Number(b[1], Tail(b)) = s

\* A marker in front of an unsigned number.
LEMMA UnsignedReads ==
  ASSUME NEW m \in Int, NEW b \in Seq(Int), NEW k, NEW s,
         Kind(m) = k, k # "int", k # "tiny_int", Width(m) = Len(b),
         \/ Len(b) = 1 /\ u1(b) = s
         \/ Len(b) = 2 /\ u2(b) = s
         \/ Len(b) = 4 /\ u4(b) = s
  PROVE  Reads(<<m>> \o b, k, s)
<1>1. Unsigned(b) = s
  <2>1. CASE Len(b) = 1 /\ u1(b) = s
    BY <2>1 DEF Unsigned
  <2>2. CASE Len(b) = 2 /\ u2(b) = s
    BY <2>2 DEF Unsigned
  <2>3. CASE Len(b) = 4 /\ u4(b) = s
    BY <2>3 DEF Unsigned
  <2> QED  BY <2>1, <2>2, <2>3
<1>2. Number(m, b) = s
  BY <1>1 DEF Number
<1> QED  BY <1>2, Marked, Zenon DEF Reads, Refused

\* A marker in front of a signed number.
LEMMA SignedReads ==
  ASSUME NEW m \in Int, NEW b \in Seq(Int), NEW s,
         Kind(m) = "int", Width(m) = Len(b),
         \/ Len(b) = 1 /\ i1(b) = s
         \/ Len(b) = 2 /\ i2(b) = s
         \/ Len(b) = 4 /\ i4(b) = s
         \/ Len(b) = 8 /\ i8(b) = s
  PROVE  Reads(<<m>> \o b, "int", s)
<1>1. Signed(b) = s
  <2>1. CASE Len(b) = 1 /\ i1(b) = s
    BY <2>1 DEF Signed
  <2>2. CASE Len(b) = 2 /\ i2(b) = s
    BY <2>2 DEF Signed
  <2>3. CASE Len(b) = 4 /\ i4(b) = s
    BY <2>3 DEF Signed
  <2>4. CASE Len(b) = 8 /\ i8(b) = s
    BY <2>4 DEF Signed
  <2> QED  BY <2>1, <2>2, <2>3, <2>4
<1>2. Number(m, b) = s
  BY <1>1 DEF Number
<1> QED  BY <1>2, Marked, Zenon DEF Reads, Refused

\* The bytes of a number are integers.
LEMMA Bytes ==
  ASSUME NEW k \in Int
  PROVE  be1(k) \in Seq(Int) /\ be2(k) \in Seq(Int) /\ be4(k) \in Seq(Int) /\ be8(k) \in Seq(Int)
<1>1. \A j \in Int : be4(j) \in Seq(Int)
  BY DEF be4
<1>2. (k \div 65536) \div 65536 \in Int
  OBVIOUS
<1> QED  BY <1>1, <1>2 DEF be1, be2, be8

\* pack_header: strings, lists, maps and structures.
LEMMA SizedReads ==
  ASSUME NEW k \in Sized, NEW s \in Nat
  PROVE  /\ s < U32 => Reads(pack_header(s, Markers[k]), k, s)
         /\ s >= U32 => pack_header(s, Markers[k]) = Refused
<1>1. k # "int" /\ k # "tiny_int"
  BY SizedKinds
<1>2. U32 \in Nat /\ U32 <= 4294967296 /\ U32 > 65536
  BY HeaderAssumption DEF U32
<1>3. CASE s < 16
  <2> DEFINE m == Markers[k].tiny + s
  <2>1. m \in Int /\ Kind(m) = k /\ Width(m) = 0 /\ m % 16 = s
    BY <1>3, TinyMarker
  <2>2. pack_header(s, Markers[k]) = <<m>>
    BY <1>3 DEF pack_header
  <2> HIDE DEF m
  <2>3. Number(m, Tail(<<m>>)) = s
    BY <1>1, <2>1 DEF Number
  <2>4. Reads(<<m>>, k, s)
    BY <2>1, <2>3 DEF Reads, Refused
  <2> QED  BY <1>2, <1>3, <2>2, <2>4
<1>4. CASE 16 <= s /\ s < 256
  <2>1. Markers[k].m8 \in Int /\ Kind(Markers[k].m8) = k /\ Width(Markers[k].m8) = 1
    <3>1. Markers[k].m8 \in Int
      BY SizedKinds DEF Markers
    <3>2. Markers[k].m8 + 0 = Markers[k].m8
      BY <3>1
    <3>3. Kind(Markers[k].m8 + 0) = k /\ Width(Markers[k].m8 + 0) = 2^0
      BY WideMarker
    <3> QED  BY <3>1, <3>2, <3>3, Powers
  <2>2. pack_header(s, Markers[k]) = <<Markers[k].m8>> \o be1(s)
    BY <1>4 DEF pack_header
  <2>3. Reads(<<Markers[k].m8>> \o be1(s), k, s)
    <3>1. be1(s) \in Seq(Int)
      BY <1>1, <1>4, <2>1, Bytes
    <3>2. u1(be1(s)) = s /\ Len(be1(s)) = 1
      BY <1>1, <1>4, <2>1, Unsigned1
    <3> QED  BY <1>1, <2>1, <3>1, <3>2, UnsignedReads
  <2> QED  BY <1>2, <1>4, <2>2, <2>3
<1>5. CASE 256 <= s /\ s < 65536
  <2>1. Markers[k].m16 \in Int /\ Kind(Markers[k].m16) = k /\ Width(Markers[k].m16) = 2
    BY WideMarker, Powers
  <2>2. pack_header(s, Markers[k]) = <<Markers[k].m16>> \o be2(s)
    BY <1>5 DEF pack_header
  <2>3. Reads(<<Markers[k].m16>> \o be2(s), k, s)
    <3>1. be2(s) \in Seq(Int)
      BY <1>1, <1>5, <2>1, Bytes
    <3>2. u2(be2(s)) = s /\ Len(be2(s)) = 2
      BY <1>1, <1>5, <2>1, Unsigned2
    <3> QED  BY <1>1, <2>1, <3>1, <3>2, UnsignedReads
  <2> QED  BY <1>2, <1>5, <2>2, <2>3
<1>6. CASE 65536 <= s /\ s < U32
  <2> DEFINE m == Markers[k].m16 + 1
  <2>1. m \in Int /\ Kind(m) = k /\ Width(m) = 4
    <3>1. Markers[k].m8 \in Int /\ Markers[k].m8 + 2 = m
      BY SizedKinds DEF Markers
    <3> QED  BY <3>1, WideMarker, Powers
  <2>2. pack_header(s, Markers[k]) = <<m>> \o be4(s)
    BY <1>6 DEF pack_header
  <2> HIDE DEF m
  <2>3. Reads(<<m>> \o be4(s), k, s)
    <3>1. be4(s) \in Seq(Int)
      BY <1>1, <1>2, <1>6, <2>1, Bytes, SMT
    <3>2. u4(be4(s)) = s /\ Len(be4(s)) = 4
      BY <1>1, <1>2, <1>6, <2>1, Unsigned4, SMT
    <3> QED  BY <1>1, <2>1, <3>1, <3>2, UnsignedReads
  <2> QED  BY <1>6, <1>2, <2>2, <2>3
<1>7. CASE s >= U32
  BY <1>2, <1>7 DEF pack_header
<1> QED  BY <1>2, <1>3, <1>4, <1>5, <1>6, <1>7

\* The head of pack_bytes, refused by no length.
LEMMA BytesReads ==
  ASSUME NEW s \in Nat
  PROVE  /\ s < U32 => Reads(bytes_header(s), "bytes", s)
         /\ bytes_header(s) # Refused
<1>1. U32 \in Nat /\ U32 <= 4294967296 /\ U32 > 65536
  BY HeaderAssumption DEF U32
<1>2. /\ Kind(BYTES_8) = "bytes" /\ Width(BYTES_8) = 1
      /\ Kind(BYTES_16) = "bytes" /\ Width(BYTES_16) = 2
      /\ Kind(BYTES_32) = "bytes" /\ Width(BYTES_32) = 4
  <2>1. BYTES_8 + 0 = BYTES_8 /\ BYTES_8 + 1 = BYTES_16 /\ BYTES_8 + 2 = BYTES_32
    BY DEF BYTES_8, BYTES_16, BYTES_32
  <2>2. /\ Kind(BYTES_8 + 0) = "bytes" /\ Width(BYTES_8 + 0) = 2^0
        /\ Kind(BYTES_8 + 1) = "bytes" /\ Width(BYTES_8 + 1) = 2^1
        /\ Kind(BYTES_8 + 2) = "bytes" /\ Width(BYTES_8 + 2) = 2^2
    BY BytesMarker
  <2> QED  BY <2>1, <2>2, Powers
<1>3. BYTES_8 \in Int /\ BYTES_16 \in Int /\ BYTES_32 \in Int
  BY DEF BYTES_8, BYTES_16, BYTES_32
<1>4. CASE s < 256
  <2>1. Reads(<<BYTES_8>> \o be1(s), "bytes", s)
    <3>1. be1(s) \in Seq(Int)
      BY <1>2, <1>3, <1>4, Bytes
    <3>2. u1(be1(s)) = s /\ Len(be1(s)) = 1
      BY <1>2, <1>3, <1>4, Unsigned1
    <3> QED  BY <1>2, <1>3, <3>1, <3>2, UnsignedReads
  <2> QED  BY <1>4, <2>1 DEF bytes_header, Reads
<1>5. CASE 256 <= s /\ s < 65536
  <2>1. Reads(<<BYTES_16>> \o be2(s), "bytes", s)
    <3>1. be2(s) \in Seq(Int)
      BY <1>2, <1>3, <1>5, Bytes
    <3>2. u2(be2(s)) = s /\ Len(be2(s)) = 2
      BY <1>2, <1>3, <1>5, Unsigned2
    <3> QED  BY <1>2, <1>3, <3>1, <3>2, UnsignedReads
  <2> QED  BY <1>5, <2>1 DEF bytes_header, Reads
<1>6. CASE 65536 <= s
  <2>1. s % U32 \in Nat /\ s % U32 < 4294967296 /\ (s < U32 => s % U32 = s)
    BY <1>1
  <2>2. Reads(<<BYTES_32>> \o be4(s % U32), "bytes", s % U32)
    <3>1. be4(s % U32) \in Seq(Int)
      BY <1>2, <1>3, <2>1, Bytes, SMT
    <3>2. u4(be4(s % U32)) = s % U32 /\ Len(be4(s % U32)) = 4
      BY <1>2, <1>3, <2>1, Unsigned4, SMT
    <3> QED  BY <1>2, <1>3, <3>1, <3>2, UnsignedReads
  <2> QED  BY <1>6, <2>1, <2>2 DEF bytes_header, Reads
<1> QED  BY <1>4, <1>5, <1>6

\* pack_int, for the integers of 64 bits; a small one is its own marker.
LEMMA IntReads ==
  ASSUME NEW i \in Int64
  PROVE  Reads(pack_int(i), IF i \in -16 .. 127 THEN "tiny_int" ELSE "int", i)
<1>1. i \in Int
  BY DEF Int64
<1>2. /\ Kind(INT_8) = "int" /\ Width(INT_8) = 1 /\ Kind(INT_16) = "int" /\ Width(INT_16) = 2
      /\ Kind(INT_32) = "int" /\ Width(INT_32) = 4 /\ Kind(INT_64) = "int" /\ Width(INT_64) = 8
  <2>1. /\ INT_8 + 0 = INT_8 /\ INT_8 + 1 = INT_16
        /\ INT_8 + 2 = INT_32 /\ INT_8 + 3 = INT_64
    BY DEF INT_8, INT_16, INT_32, INT_64
  <2>2. /\ Kind(INT_8 + 0) = "int" /\ Width(INT_8 + 0) = 2^0
        /\ Kind(INT_8 + 1) = "int" /\ Width(INT_8 + 1) = 2^1
        /\ Kind(INT_8 + 2) = "int" /\ Width(INT_8 + 2) = 2^2
        /\ Kind(INT_8 + 3) = "int" /\ Width(INT_8 + 3) = 2^3
    BY IntMarker
  <2> QED  BY <2>1, <2>2, Powers
<1>3. INT_8 \in Int /\ INT_16 \in Int /\ INT_32 \in Int /\ INT_64 \in Int
  BY DEF INT_8, INT_16, INT_32, INT_64
<1>4. Half32 \in Int /\ Half32 <= 2147483648
  BY HeaderAssumption
<1> DEFINE tiny  == i \in -16 .. 127
           one   == i \in -128 .. 127
           two   == -32768 <= i /\ i <= 32767
           four  == -Half32 <= i /\ i <= Half32 - 1
<1>5. pack_int(i) = IF tiny THEN be1(i) ELSE IF one THEN <<INT_8>> \o be1(i)
                    ELSE IF two THEN <<INT_16>> \o be2(i)
                    ELSE IF four THEN <<INT_32>> \o be4(i) ELSE <<INT_64>> \o be8(i)
  BY SMT DEF pack_int
<1>6. /\ tiny => one /\ -16 <= i /\ i < 128
      /\ one => -128 <= i /\ i < 128
      /\ two => -32768 <= i /\ i < 32768
      /\ four => -2147483648 <= i /\ i < 2147483648
  <2>1. tiny => one /\ -16 <= i /\ i < 128
    BY <1>1
  <2>2. one => -128 <= i /\ i < 128
    BY <1>1
  <2>3. two => -32768 <= i /\ i < 32768
    BY <1>1, SMT
  <2>4. four => -2147483648 <= i /\ i < 2147483648
    BY <1>1, <1>4, SMT
  <2> HIDE DEF tiny, one, two, four
  <2> QED  BY <2>1, <2>2, <2>3, <2>4, SMT
<1> HIDE DEF tiny, one, two, four
<1>7. CASE tiny
  <2> DEFINE m == i % 256
  <2>1. Kind(m) = "tiny_int" /\ Width(m) = 0
    BY <1>1, <1>6, <1>7, TinyInt, SMT
  <2>2. m \in Int /\ be1(i) = <<m>>
    BY <1>1 DEF be1
  <2>3. i1(be1(i)) = i
    BY <1>1, <1>6, <1>7, Signed1, SMT
  <2> HIDE DEF m
  <2>4. Number(m, Tail(<<m>>)) = i
    BY <2>1, <2>2, <2>3 DEF Number
  <2>5. Reads(<<m>>, "tiny_int", i)
    BY <2>1, <2>2, <2>4 DEF Reads, Refused
  <2> QED  BY <1>5, <1>7, <2>2, <2>5 DEF tiny
<1>8. CASE ~tiny /\ one
  <2>1. be1(i) \in Seq(Int)
    BY <1>1, Bytes
  <2>2. i1(be1(i)) = i /\ Len(be1(i)) = 1
    BY <1>1, <1>6, <1>8, Signed1, SMT
  <2>3. Reads(<<INT_8>> \o be1(i), "int", i)
    BY <1>2, <1>3, <2>1, <2>2, SignedReads
  <2> QED  BY <1>5, <1>8, <2>3 DEF tiny
<1>9. CASE ~tiny /\ ~one /\ two
  <2>1. be2(i) \in Seq(Int)
    BY <1>1, Bytes
  <2>2. i2(be2(i)) = i /\ Len(be2(i)) = 2
    BY <1>1, <1>6, <1>9, Signed2, SMT
  <2>3. Reads(<<INT_16>> \o be2(i), "int", i)
    BY <1>2, <1>3, <2>1, <2>2, SignedReads
  <2> QED  BY <1>5, <1>9, <2>3 DEF tiny
<1>10. CASE ~tiny /\ ~one /\ ~two /\ four
  <2>1. be4(i) \in Seq(Int)
    BY <1>1, Bytes
  <2>2. i4(be4(i)) = i /\ Len(be4(i)) = 4
    BY <1>1, <1>6, <1>10, Signed4, SMT
  <2>3. Reads(<<INT_32>> \o be4(i), "int", i)
    BY <1>2, <1>3, <2>1, <2>2, SignedReads
  <2> QED  BY <1>5, <1>10, <2>3 DEF tiny
<1>11. CASE ~tiny /\ ~one /\ ~two /\ ~four
  <2>1. be8(i) \in Seq(Int)
    BY <1>1, Bytes
  <2>2. i8(be8(i)) = i /\ Len(be8(i)) = 8
    BY Signed8
  <2>3. Reads(<<INT_64>> \o be8(i), "int", i)
    BY <1>2, <1>3, <2>1, <2>2, SignedReads
  <2> QED  BY <1>5, <1>11, <2>3 DEF tiny
<1> QED  BY <1>7, <1>8, <1>9, <1>10, <1>11

-----------------------------------------------------------------------------
(* HeaderCodec *)

\* What Pack writes for a number of a kind.
Packed(k, s) ==
  CASE k = "int" -> pack_int(s)
    [] k = "bytes" -> bytes_header(s)
    [] OTHER -> pack_header(s, Markers[k])

\* What each stage has done.
Inv ==
  /\ \/ kind \in Sized \union {"bytes"} /\ n \in Nat
     \/ kind = "int" /\ n \in Int64
  /\ stage \in {"new", "packed", "read"}
  /\ stage # "new" => bytes = Packed(kind, n)
  /\ stage = "read" => bytes # Refused /\ back = Number(bytes[1], Tail(bytes))

\* Every header that is written reads back, whatever its kind.
LEMMA PackedReads ==
  ASSUME NEW k, NEW s,
         \/ k \in Sized \union {"bytes"} /\ s \in Nat
         \/ k = "int" /\ s \in Int64
  PROVE  /\ Packed(k, s) = Refused <=> k \in Sized /\ s >= U32
         /\ ~(k \in Sized \union {"bytes"} /\ s >= U32) =>
              Reads(Packed(k, s),
                    IF k = "int" /\ s \in -16 .. 127 THEN "tiny_int" ELSE k, s)
<1>1. U32 \in Nat
  BY HeaderAssumption DEF U32
<1>2. CASE k \in Sized /\ s \in Nat
  <2>1. k # "int" /\ k # "bytes"
    BY <1>2, SizedKinds
  <2>2. Packed(k, s) = pack_header(s, Markers[k])
    BY <2>1 DEF Packed
  <2> QED  BY <1>1, <1>2, <2>1, <2>2, SizedReads DEF Reads
<1>3. CASE k = "bytes" /\ s \in Nat
  <2>1. k \notin Sized /\ k # "int"
    BY <1>3, SizedKinds
  <2>2. Packed(k, s) = bytes_header(s)
    BY <1>3, <2>1 DEF Packed
  <2> QED  BY <1>1, <1>3, <2>1, <2>2, BytesReads
<1>4. CASE k = "int" /\ s \in Int64
  <2>1. k \notin Sized /\ k # "bytes"
    BY <1>4, SizedKinds
  <2>2. Packed(k, s) = pack_int(s)
    BY <1>4, <2>1 DEF Packed
  <2> QED  BY <1>4, <2>1, <2>2, IntReads DEF Reads
<1> QED  BY <1>2, <1>3, <1>4

\* The stages are what Pack and Read make them.
LEMMA Stages ==
  ASSUME Sizes \subseteq Nat, Ints \subseteq Int64
  PROVE  HeaderSpec => []Inv
<1>1. HeaderInit => Inv
  BY DEF HeaderInit, Inv
<1>2. Inv /\ [HeaderNext]_headerVars => Inv'
  <2> SUFFICES ASSUME Inv, [HeaderNext]_headerVars
               PROVE  Inv'
    OBVIOUS
  <2>1. CASE Pack
    BY <2>1 DEF Pack, Inv, Packed
  <2>2. CASE Read
    BY <2>2 DEF Read, Inv
  <2>3. CASE UNCHANGED headerVars
    BY <2>3 DEF headerVars, Inv
  <2> QED  BY <2>1, <2>2, <2>3 DEF HeaderNext
<1> QED  BY <1>1, <1>2, PTL DEF HeaderSpec

\* Every string, list, map, structure and byte array header and every 64-bit
\* integer that pack_header, pack_bytes and pack_int write is read back by the
\* Reader as the number it was, with the kind and the length written; only
\* the sizes of strings, lists, maps and structures past 32 bits are refused.
THEOREM HeadersReadBack ==
  ASSUME Sizes \subseteq Nat, Ints \subseteq Int64
  PROVE  HeaderSpec => []HeaderRoundTrip
<1>1. Inv => HeaderRoundTrip
  <2> SUFFICES ASSUME Inv
               PROVE  HeaderRoundTrip
    OBVIOUS
  <2>1. \/ kind \in Sized \union {"bytes"} /\ n \in Nat
        \/ kind = "int" /\ n \in Int64
    BY DEF Inv
  <2> DEFINE k == IF kind = "int" /\ n \in -16 .. 127 THEN "tiny_int" ELSE kind
  <2>2. /\ Packed(kind, n) = Refused <=> kind \in Sized /\ n >= U32
        /\ ~(kind \in Sized \union {"bytes"} /\ n >= U32) => Reads(Packed(kind, n), k, n)
    BY <2>1, PackedReads
  <2>3. ASSUME stage = "read", kind = "bytes" => n < U32
        PROVE  Reads(bytes, k, n) /\ back = Number(bytes[1], Tail(bytes))
    <3>1. bytes = Packed(kind, n) /\ bytes # Refused /\ back = Number(bytes[1], Tail(bytes))
      BY <2>3 DEF Inv
    <3>2. ~(kind = "bytes" /\ n >= U32)
      BY <2>1, <2>3, HeaderAssumption, SizedKinds DEF U32
    <3> QED  BY <2>2, <3>1, <3>2
  <2>4. stage = "packed" => (bytes = Refused <=> kind \in Sized /\ n >= U32)
    BY <2>2 DEF Inv
  <2> HIDE DEF k
  <2>5. stage = "read" /\ (kind = "bytes" => n < U32) =>
          Kind(bytes[1]) = k /\ Len(bytes) = 1 + Width(bytes[1]) /\ back = n
    BY <2>3 DEF Reads
  <2> QED  BY <2>4, <2>5 DEF HeaderRoundTrip, k
<1> QED  BY <1>1, Stages, PTL
=============================================================================
