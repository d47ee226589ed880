------------------------------ MODULE Convert -------------------------------
(***************************************************************************)
(* serde conversion (src/src/convert.rs): to_value turns a Rust value into *)
(* a BoltValue, from_value turns one into a Rust value of a wanted type,   *)
(* and rows_as does so with every row of a result.                         *)
(*                                                                         *)
(* A Rust type and a Rust value are records.  What serde's derived         *)
(* Serialize, Deserialize and IgnoredAny ask of the code is external: the  *)
(* order of the calls, a missing Option that is None, and that a visitor   *)
(* of n elements leaves the others where they are.                         *)
(***************************************************************************)
EXTENDS Integers, Sequences, SequencesExt, Values

CONSTANTS I64Max,   \* the largest i64 (a small one for TLC)
          Samples,  \* pairs of a type and a value of it
          Extras    \* what a column may hold that no field asks for

Ok(x) == [ok |-> TRUE, x |-> x]
Err   == [ok |-> FALSE]

\* The results of a sequence, or the error if one of them is.
All(results) ==
  IF \A k \in DOMAIN results : results[k].ok
    THEN Ok([k \in DOMAIN results |-> results[k].x]) ELSE Err

Then(result, Make(_)) == IF result.ok THEN Ok(Make(result.x)) ELSE Err

\* A function of one key.
Single(key, x) == [k \in {key} |-> x]

(***************************************************************************)
(* Types: [t |-> "bool"], "f32", "f64", "char", "str", "bytes", "unit",    *)
(* "int" (with lo and hi), "option", "newtype", "seq" and "map" (of),      *)
(* "tuple" (of: a sequence), "struct" (fields: a sequence of name and      *)
(* type), "enum" (variants: name to a type that is "unit", "newtype",      *)
(* "tuple" or "struct").                                                   *)
(*                                                                         *)
(* Values: the type's t, and b, f, i, s, x (what option, newtype hold), xs *)
(* (seq and tuple, a struct's fields in order), m (map), or name and x     *)
(* (a variant).  A map has the key type "str" or another (keyed).  A float *)
(* is what an f32 can hold of it, and the rest; bytes are a text, or none. *)
(***************************************************************************)
None    == [t |-> "none"]
Some(x) == [t |-> "some", x |-> x]
Unit    == [t |-> "unit"]
NotUtf8 == "not UTF-8"

-----------------------------------------------------------------------------
(* to_value *)

\* Mutant: the name of a variant with one field is lost.
TaggedBare(name, v) == v

\* newtype, tuple and struct variants: a map of the name to what it holds.
Tagged(name, v) == Map(Single(name, v))

\* SerializeStruct: a map from the fields' names.
StructMap(names, vs) ==
  Map([name \in Range(names) |-> vs[CHOOSE k \in DOMAIN names : names[k] = name]])

RECURSIVE to_value(_)
to_value(d) ==
  CASE d.t = "bool"   -> Ok(Bool(d.b))
    [] d.t = "int"    -> IF d.i <= I64Max THEN Ok(Int_(d.i)) ELSE Err
    [] d.t \in {"f32", "f64"}  -> Ok(Float(d.f))
    [] d.t \in {"char", "str"} -> Ok(String(d.s))
    [] d.t = "bytes"  -> Ok(Bytes(d.s))
    [] d.t \in {"none", "unit"} -> Ok(Null)
    [] d.t \in {"some", "newtype"} -> to_value(d.x)
    [] d.t \in {"seq", "tuple"} -> Then(All([k \in DOMAIN d.xs |-> to_value(d.xs[k])]), List)
    [] d.t = "map"    ->
         IF d.keyed # "str" /\ DOMAIN d.m # {} THEN Err   \* map key must be a string
         ELSE Then(All([k \in DOMAIN d.m |-> to_value(d.m[k])]), Map)
    [] d.t = "struct" ->
         Then(All([k \in DOMAIN d.xs |-> to_value(d.xs[k])]), LAMBDA vs : StructMap(d.names, vs))
    [] d.t = "variant" /\ d.x = Unit -> Ok(String(d.name))
    [] d.t = "variant" /\ d.x # Unit -> Then(to_value(d.x), LAMBDA v : Tagged(d.name, v))

\* params: what to_value makes, if it is a map.
params(d) ==
  LET r == to_value(d) IN IF r.ok /\ r.x.kind = "map" THEN r ELSE Err

-----------------------------------------------------------------------------
(* from_value *)

\* IgnoredAny walks the value through deserialize_any, which refuses a graph
\* structure wherever it is.
RECURSIVE Ignored(_)
Ignored(v) ==
  CASE v.kind = "struct" -> FALSE
    [] v.kind = "list" -> \A k \in DOMAIN v.items : Ignored(v.items[k])
    [] v.kind = "map"  -> \A k \in DOMAIN v.map : Ignored(v.map[k])
    [] OTHER -> TRUE

Names(T) == [k \in DOMAIN T.fields |-> T.fields[k].name]

RECURSIVE from_value(_, _)

\* visit_seq: one element for each of Ts; fewer is an error, more are left.
from_list(Ts, items) ==
  IF Len(items) < Len(Ts) THEN Err
  ELSE All([k \in DOMAIN Ts |-> from_value(Ts[k], items[k])])

\* A field the map does not have: None if it is an Option, an error if not.
Missing(f) == IF f.type.t = "option" THEN Ok(None) ELSE Err

field(f, m) == IF f.name \in DOMAIN m THEN from_value(f.type, m[f.name]) ELSE Missing(f)

\* visit_map of a struct: by name, the other entries as IgnoredAny.
from_map(T, m) ==
  IF \A k \in DOMAIN m \ Range(Names(T)) : Ignored(m[k])
    THEN All([k \in DOMAIN T.fields |-> field(T.fields[k], m)]) ELSE Err

\* deserialize_enum: a string names a unit variant, a map of one entry any.
from_enum(T, v) ==
  LET key == CHOOSE k \in DOMAIN v.map : TRUE IN
  CASE v.kind = "string" ->
         IF v.s \in DOMAIN T.variants /\ T.variants[v.s].t = "unit"
           THEN Ok([t |-> "variant", name |-> v.s, x |-> Unit]) ELSE Err
    [] v.kind = "map" /\ \E k \in DOMAIN v.map : DOMAIN v.map = {k} ->
         IF key \in DOMAIN T.variants
           THEN Then(from_value(T.variants[key], v.map[key]),
                     LAMBDA x : [t |-> "variant", name |-> key, x |-> x])
           ELSE Err
    [] OTHER -> Err

from_value(T, v) ==
  CASE T.t = "option" ->
         IF v = Null THEN Ok(None) ELSE Then(from_value(T.of, v), Some)
    [] T.t = "newtype" -> Then(from_value(T.of, v), LAMBDA x : [t |-> "newtype", x |-> x])
    [] T.t = "enum" -> from_enum(T, v)
    [] T.t = "bool" /\ v.kind = "bool" -> Ok([t |-> "bool", b |-> v.b])
    [] T.t = "int" /\ v.kind = "int" ->
         IF T.lo <= v.i /\ v.i <= T.hi THEN Ok([t |-> "int", i |-> v.i]) ELSE Err
    [] T.t = "f64" /\ v.kind = "float" -> Ok([t |-> "f64", f |-> v.f])
    [] T.t = "f32" /\ v.kind = "float" -> Ok([t |-> "f32", f |-> <<v.f[1], 0>>])
    [] T.t \in {"f32", "f64"} /\ v.kind = "int" -> Ok([t |-> T.t, f |-> <<v.i, 0>>])
    [] T.t = "char" /\ v.kind = "string" -> IF Len(v.s) = 1 THEN Ok([t |-> "char", s |-> v.s]) ELSE Err
    [] T.t = "str" /\ v.kind = "string" -> Ok([t |-> "str", s |-> v.s])
    [] T.t = "str" /\ v.kind = "bytes" -> IF v.bytes = NotUtf8 THEN Err ELSE Ok([t |-> "str", s |-> v.bytes])
    [] T.t = "bytes" /\ v.kind = "bytes" -> Ok([t |-> "bytes", s |-> v.bytes])
    [] T.t = "bytes" /\ v.kind = "string" -> Ok([t |-> "bytes", s |-> v.s])
    [] T.t = "unit" /\ v.kind = "null" -> Ok(Unit)
    [] T.t = "seq" /\ v.kind = "list" ->
         Then(All([k \in DOMAIN v.items |-> from_value(T.of, v.items[k])]),
              LAMBDA xs : [t |-> "seq", xs |-> xs])
    [] T.t = "tuple" /\ v.kind = "list" ->
         Then(from_list(T.of, v.items), LAMBDA xs : [t |-> "tuple", xs |-> xs])
    [] T.t = "map" /\ v.kind = "map" ->
         IF T.keyed # "str" /\ DOMAIN v.map # {} THEN Err
         ELSE Then(All([k \in DOMAIN v.map |-> from_value(T.of, v.map[k])]),
              LAMBDA m : [t |-> "map", keyed |-> T.keyed, m |-> m])
    [] T.t = "struct" /\ v.kind = "map" ->
         Then(from_map(T, v.map), LAMBDA xs : [t |-> "struct", names |-> Names(T), xs |-> xs])
    [] T.t = "struct" /\ v.kind = "list" ->
         Then(from_list([k \in DOMAIN T.fields |-> T.fields[k].type], v.items),
              LAMBDA xs : [t |-> "struct", names |-> Names(T), xs |-> xs])
    [] OTHER -> Err

-----------------------------------------------------------------------------
(* Rows *)

\* Where a row has a column of that name.
At(columns, record, name) ==
  {k \in DOMAIN columns \cap DOMAIN record : columns[k] = name}

\* Mutant: the last column is left out.
RowMapShort(columns, record) ==
  [c \in {columns[k] : k \in DOMAIN columns \ {Len(columns)}}
     |-> record[Max(At(columns, record, c))]]

\* rows_as_maps, one row: zipped as far as both go; the last of equal names.
RowMap(columns, record) ==
  [c \in {columns[k] : k \in DOMAIN columns \cap DOMAIN record}
     |-> record[Max(At(columns, record, c))]]

\* rows_as, one row.
row_as(T, columns, record) == from_value(T, Map(RowMap(columns, record)))

-----------------------------------------------------------------------------
VARIABLES type, d, value, back, stage

vars == <<type, d, value, back, stage>>

Init ==
  /\ \E s \in Samples : type = s.type /\ d = s.d
  /\ value = Err
  /\ back = Err
  /\ stage = "new"

Serialize ==
  /\ stage = "new"
  /\ value' = to_value(d)
  /\ stage' = "value"
  /\ UNCHANGED <<type, d, back>>

Params ==
  /\ stage = "new"
  /\ value' = params(d)
  /\ stage' = "value"
  /\ UNCHANGED <<type, d, back>>

Deserialize ==
  /\ stage = "value" /\ value.ok
  /\ back' = from_value(type, value.x)
  /\ stage' = "back"
  /\ UNCHANGED <<type, d, value>>

\* The orders of the columns of a result that has the struct's fields and one
\* more; a field that is None may have no column.
Orders ==
  LET names    == Names(type)
      optional == {names[k] : k \in {j \in DOMAIN names : d.xs[j] = None}}
  IN  UNION {SetToSeqs((Range(names) \ absent) \union {"other"}) : absent \in SUBSET optional}

\* A query returns the struct's fields as the columns of a row, and one more.
RowAs(columns, extra) ==
  LET record == [k \in DOMAIN columns |->
                   IF columns[k] = "other" THEN extra ELSE value.x.map[columns[k]]]
  IN  /\ back' = row_as(type, columns, record)
      /\ value' = Ok([columns |-> columns, record |-> record])
      /\ stage' = "rowed"
      /\ UNCHANGED <<type, d>>

Rows ==
  /\ stage = "value" /\ value.ok /\ type.t = "struct"
  /\ \E columns \in Orders, extra \in Extras : RowAs(columns, extra)

Next == Serialize \/ Params \/ Deserialize \/ Rows

Spec == Init /\ [][Next]_vars

-----------------------------------------------------------------------------
(* Properties *)

\* Some value of the type is Null on the wire.
RECURSIVE Nullable(_)
Nullable(T) ==
  \/ T.t \in {"option", "unit"}
  \/ T.t = "newtype" /\ Nullable(T.of)

\* No Option in the type is of a nullable one, whose Some(None) is None.
RECURSIVE Unambiguous(_)
Unambiguous(T) ==
  CASE T.t = "option" -> ~Nullable(T.of) /\ Unambiguous(T.of)
    [] T.t \in {"newtype", "seq", "map"} -> Unambiguous(T.of)
    [] T.t = "tuple"  -> \A k \in DOMAIN T.of : Unambiguous(T.of[k])
    [] T.t = "struct" -> \A k \in DOMAIN T.fields : Unambiguous(T.fields[k].type)
    [] T.t = "enum"   -> \A n \in DOMAIN T.variants : Unambiguous(T.variants[n])
    [] OTHER -> TRUE

\* A value that to_value or params accepts comes back from from_value as it
\* was, unless its type has an Option of something that may itself be Null.
ConvertRoundTrip == stage = "back" /\ Unambiguous(type) => back = Ok(d)

\* There is a graph structure in the value.
RECURSIVE Graph(_)
Graph(v) ==
  \/ v.kind = "struct"
  \/ v.kind = "list" /\ \E k \in DOMAIN v.items : Graph(v.items[k])
  \/ v.kind = "map" /\ \E k \in DOMAIN v.map : Graph(v.map[k])

\* A struct whose fields a query returns as a row comes back from rows_as as it
\* was ("fields matched by column name"), whatever the order of the columns
\* and beside a column that no field asks for; but a row whose other column
\* holds a graph structure, however deep, is refused.
RowRoundTrip ==
  stage = "rowed" /\ Unambiguous(type) =>
    LET k == CHOOSE k \in DOMAIN value.x.columns : value.x.columns[k] = "other"
    IN  back = IF Graph(value.x.record[k]) THEN Err ELSE Ok(d)
=============================================================================
