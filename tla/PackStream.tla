----------------------------- MODULE PackStream -----------------------------
(***************************************************************************)
(* PackStream values (src/src/packstream.rs, src/src/value.rs): pack turns *)
(* a BoltValue into bytes, a Reader turns them back.                       *)
(*                                                                         *)
(* A float is its eight bytes, a string its bytes, all ASCII, so that any  *)
(* byte from 128 up is not UTF-8.  The order of a map's entries on the     *)
(* wire is the hash map's, any order.  A peer (external) may write every   *)
(* size and integer in the widest form; the client writes the narrowest.   *)
(***************************************************************************)
EXTENDS PackHeader, Values, FiniteSets, SequencesExt

CONSTANT Samples  \* the values packed

VARIABLES value,  \* the value packed
          wire,   \* its bytes
          back,   \* what the Reader makes of them
          stage   \* "value", "packed", "cut", then "read" or "refused"

vars == <<value, wire, back, stage>>

-----------------------------------------------------------------------------
(* Packing *)

\* The header of a kind: pack_header's, or a peer's of 32 bits.
Header(kind, n, wide) ==
  CASE wide /\ kind = "bytes" -> <<BYTES_32>> \o be4(n)
    [] wide /\ kind # "bytes" -> <<Markers[kind].m16 + 1>> \o be4(n)
    [] ~wide /\ kind = "bytes" -> bytes_header(n)
    [] OTHER -> pack_header(n, Markers[kind])

PackString(s, wide) == Header("string", Len(s), wide) \o s

\* The orders a map's entries may come in.
Orders(m) ==
  {o \in [1 .. Cardinality(DOMAIN m) -> DOMAIN m] : IsInjective(o)}

\* All that one of A is followed by one of B.
Then(A, B) == {a \o b : a \in A, b \in B}

\* The bytes pack may produce: one string, but for the order of maps.
RECURSIVE Packs(_, _)
Packs(v, wide) ==
  LET seq(items) == FoldLeft(LAMBDA out, x : Then(out, Packs(x, wide)), {<< >>}, items)
      entries(m, o) == FoldLeft(LAMBDA out, k : Then(out, Then({PackString(k, wide)},
                                                               Packs(m[k], wide))),
                                {<< >>}, o)
  IN
  CASE v.kind = "null"   -> {<<NULL>>}
    [] v.kind = "bool"   -> {IF v.b THEN <<TRUE_>> ELSE <<FALSE_>>}
    [] v.kind = "int"    -> {IF wide THEN <<INT_64>> \o be8(v.i) ELSE pack_int(v.i)}
    [] v.kind = "float"  -> {<<FLOAT_64>> \o v.f}
    [] v.kind = "string" -> {PackString(v.s, wide)}
    [] v.kind = "bytes"  -> {Header("bytes", Len(v.bytes), wide) \o v.bytes}
    [] v.kind = "list"   -> Then({Header("list", Len(v.items), wide)}, seq(v.items))
    [] v.kind = "map"    -> Then({Header("map", Cardinality(DOMAIN v.map), wide)},
                                 UNION {entries(v.map, o) : o \in Orders(v.map)})
    [] v.kind = "struct" -> Then({Header("struct", Len(v.fields), wide) \o <<v.signature>>},
                                 seq(v.fields))

-----------------------------------------------------------------------------
(* Reading *)

Err         == [ok |-> FALSE]
Ok(v, pos)  == [ok |-> TRUE, v |-> v, pos |-> pos]

\* Reader::take: n bytes from pos on, all of them.
take(buf, pos, n) ==
  IF pos + n > Len(buf) THEN Err ELSE Ok(SubSeq(buf, pos + 1, pos + n), pos + n)

\* String::from_utf8, for the strings of this model.
from_utf8(s) == \A k \in DOMAIN s : s[k] < 128

\* take's bytes as a value of one kind.
Taken(t, Make(_)) == IF t.ok THEN Ok(Make(t.v), t.pos) ELSE Err

\* Keys and values by turns: the last of equal keys stays.
Entries(items) ==
  LET at(s) == {k \in 1 .. Len(items) \div 2 : items[2 * k - 1].s = s}
      last(s) == CHOOSE k \in at(s) : \A j \in at(s) : j <= k
  IN  [s \in {items[2 * k - 1].s : k \in 1 .. Len(items) \div 2} |-> items[2 * last(s)]]

RECURSIVE unpack(_, _)
RECURSIVE unpack_n(_, _, _)

\* n values from pos on, in a sequence.
unpack_n(buf, pos, n) ==
  IF n = 0 THEN Ok(<< >>, pos)
  ELSE LET first == unpack(buf, pos) IN
       IF ~first.ok THEN Err
       ELSE LET rest == unpack_n(buf, first.pos, n - 1)
            IN  IF rest.ok THEN Ok(<<first.v>> \o rest.v, rest.pos) ELSE Err

unpack_map(buf, pos, n) ==
  LET all == unpack_n(buf, pos, 2 * n) IN
  IF all.ok /\ \A k \in 1 .. n : all.v[2 * k - 1].kind = "string"
    THEN Ok(Map(Entries(all.v)), all.pos) ELSE Err

unpack_struct(buf, pos, n) ==
  LET signature == take(buf, pos, 1)
      fields    == unpack_n(buf, pos + 1, n)
  IN  IF signature.ok /\ fields.ok
        THEN Ok(Struct(signature.v[1], fields.v), fields.pos) ELSE Err

\* Mutant: what is there, when less is left than the header says.
unpack_stringShort(buf, pos, n) ==
  LET t == take(buf, pos, IF pos + n > Len(buf) THEN Len(buf) - pos ELSE n)
  IN  IF from_utf8(t.v) THEN Ok(String(t.v), t.pos) ELSE Err

unpack_string(buf, pos, n) ==
  LET t == take(buf, pos, n)
  IN  IF t.ok /\ from_utf8(t.v) THEN Ok(String(t.v), t.pos) ELSE Err

\* The value at pos: its marker, the number of its header, then the rest.
unpack(buf, pos) ==
  LET marker == take(buf, pos, 1) IN
  IF ~marker.ok THEN Err
  ELSE LET kind  == Kind(marker.v[1])
           after == take(buf, pos + 1, Width(marker.v[1]))
       IN
       IF kind = "unknown" \/ ~after.ok THEN Err
       ELSE LET n  == Number(marker.v[1], after.v)
                at == after.pos
            IN
            CASE kind \in {"int", "tiny_int"} -> Ok(Int_(n), at)
              [] kind = "null"   -> Ok(Null, at)
              [] kind = "bool"   -> Ok(Bool(marker.v[1] = TRUE_), at)
              [] kind = "float"  -> Taken(take(buf, at, 8), Float)
              [] kind = "bytes"  -> Taken(take(buf, at, n), Bytes)
              [] kind = "string" -> unpack_string(buf, at, n)
              [] kind = "list"   -> Taken(unpack_n(buf, at, n), List)
              [] kind = "map"    -> unpack_map(buf, at, n)
              [] kind = "struct" -> unpack_struct(buf, at, n)

-----------------------------------------------------------------------------
(* A value, packed by the client or by a peer, read whole or cut short *)

Init ==
  /\ value \in Samples
  /\ wire = << >>
  /\ back = Err
  /\ stage = "value"

Pack(wide) ==
  /\ stage = "value"
  /\ wire' \in Packs(value, wide)
  /\ stage' = "packed"
  /\ UNCHANGED <<value, back>>

Cut(n) ==
  /\ stage = "packed"
  /\ wire' = SubSeq(wire, 1, n)
  /\ stage' = "cut"
  /\ UNCHANGED <<value, back>>

Read ==
  /\ stage \in {"packed", "cut"}
  /\ back' = unpack(wire, 0)
  /\ stage' = IF stage = "packed" THEN "read" ELSE "refused"
  /\ UNCHANGED <<value, wire>>

Next == \/ \E wide \in BOOLEAN : Pack(wide)
        \/ \E n \in 0 .. Len(wire) - 1 : Cut(n)
        \/ Read

Spec == Init /\ [][Next]_vars

-----------------------------------------------------------------------------
(* Properties *)

\* What pack writes, and what a peer writes in wider forms, the Reader reads
\* back as the same value, to the last byte and no further.
RoundTrip == stage = "read" => back = Ok(value, Len(wire))

\* No packed value is a beginning of another: a body cut short anywhere, in a
\* header, a string or between two fields, is refused and never read as less.
CutRefused == stage = "refused" => ~back.ok
=============================================================================
