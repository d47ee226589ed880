------------------------------- MODULE Values -------------------------------
(***************************************************************************)
(* BoltValue (src/src/value.rs): a value has the fields of its kind only.  *)
(* A map is a function from its keys.                                      *)
(***************************************************************************)

Null      == [kind |-> "null"]
Bool(b)   == [kind |-> "bool", b |-> b]
Int_(i)   == [kind |-> "int", i |-> i]
Float(f)  == [kind |-> "float", f |-> f]
String(s) == [kind |-> "string", s |-> s]
Bytes(b)  == [kind |-> "bytes", bytes |-> b]
List(l)   == [kind |-> "list", items |-> l]
Map(m)    == [kind |-> "map", map |-> m]
Struct(signature, fields) ==
  [kind |-> "struct", signature |-> signature, fields |-> fields]
=============================================================================
