------------------------------ MODULE MCCodecs ------------------------------
(***************************************************************************)
(* The parts that hold no state between two calls, in one instance for     *)
(* TLC.  They do not interact: in a behaviour one of them moves, and the   *)
(* others stay in an initial state.  HeaderCodec, Handshake, TlsTrust and  *)
(* Uri have their own variables; the other two share v1 to v5, each under  *)
(* its own names.                                                          *)
(***************************************************************************)
EXTENDS HeaderCodec, Handshake, TlsTrust, Uri, Values

CONSTANTS Ca,     \* a private CA
          Public, \* a CA webpki knows
          Own,    \* a server certificate of the private CA
          Site,   \* a server certificate of the public one
          Self    \* a self-signed server certificate

VARIABLES part, v1, v2, v3, v4, v5

-----------------------------------------------------------------------------
(* HeaderCodec: both sides of every bound of the widths, and a size that   *)
(* wraps; the 32-bit bounds are at 2^20.                                   *)

Around(S) == UNION {{s - 1, s, s + 1} : s \in S}

Edges == {x \in Around({0, 16, 256, 65536, U32}) : x >= 0} \union {U32 + 7}

SignedEdges == Around({-Half32, -32768, -128, -16, 0, 128, 256, 32768, 65536, Half32})
                 \union {-2000000000, 2000000000}

-----------------------------------------------------------------------------
(* Handshake: versions below, at both ends of, inside and above the window *)

Known == {Version(4, 4), Version(6, 3)} \union {Version(5, m) : m \in {1, 2, 5, 8, 9}}

AnyOfKnown == SUBSET Known

-----------------------------------------------------------------------------
(* TlsTrust: PEMs malformed, without a certificate, with one and with two. *)

Issuers == [c \in Cert |-> CASE c = Own -> Ca [] c = Site -> Public [] OTHER -> c]

Pems == {[valid |-> FALSE, certs |-> {}], [valid |-> TRUE, certs |-> {}],
         [valid |-> TRUE, certs |-> {Ca}], [valid |-> TRUE, certs |-> {Own, Self}]}

-----------------------------------------------------------------------------
(* PackStream: values at the bounds of the headers, alone and nested.      *)

Times(count, x) == [k \in 1 .. count |-> x]

Scalars ==
  {Null, Bool(TRUE), Bool(FALSE), Float(<<63, 240, 0, 0, 0, 0, 0, 0>>)}
    \union {Int_(i) : i \in {-40000, -129, -128, -17, -16, 0, 127, 128, 255, 32768}}
    \union {String(Times(size, 97)) : size \in {0, 1, 15, 16, 255, 256}}
    \union {Bytes(Times(size, 200)) : size \in {0, 1, 16, 255, 256}}

Inner == {Null, Int_(-17), String(<<97>>), List(<< >>), List(<<Int_(300)>>)}

Keys == {<< >>, <<97>>}

Containers ==
  {List(<<x, y>>) : x \in Inner, y \in Inner}
    \union {Map(m) : m \in UNION {[K -> Inner] : K \in SUBSET Keys}}
    \union {Struct(78, <<x, Map([k \in Keys |-> x])>>) : x \in Inner}
    \union {Struct(128, << >>), Struct(127, Times(16, Null))}
    \union {List(Times(size, Null)) : size \in {15, 16}}

Packed == INSTANCE PackStream
            WITH Samples <- Scalars \union Containers,
                 value <- v1, wire <- v2, back <- v3, stage <- v4

-----------------------------------------------------------------------------
(* Uri: URIs written from parts, and every text of up to five tokens where *)
(* the host is.                                                            *)

Words == STRING
Ports == [w \in {"1", "7687"} |-> IF w = "1" THEN 1 ELSE 7687]

Auths == {Absent} \union [user : {<<"u">>, <<"u", "@", "x">>},
                          pass : {<< >>, <<"p">>, <<":", "//", "@", "1">>}]

UriParts ==
  [scheme : {"bolt", "neo4j+s"}, auth : Auths, host : {<<"h">>, <<":", ":", "1">>},
   port : {Absent, 1, 7687}, db : {Absent, <<"n">>}]

RawUris == {<<s, ":", "//">> \o t : s \in {"bolt", "neo4j+ssc"},
                                    t \in BoundedSeq({"h", "1", ":", "//", "[", "]", "@"}, 5)}
             \union {<<"http", ":", "//", "h">>, <<"bolt", ":", "h">>, <<"h">>}

-----------------------------------------------------------------------------
(* Convert: types one and two levels deep, and some values of each; an i64 *)
(* ends at 7, and one of the integer types reaches past it.                *)

OfType(t)     == [t |-> t]
Of(t, x)      == [t |-> t, of |-> x]
IntT(lo, hi)  == [t |-> "int", lo |-> lo, hi |-> hi]
MapT(keyed, x) == [t |-> "map", keyed |-> keyed, of |-> x]
StructT(x, y) ==
  [t |-> "struct", fields |-> <<[name |-> "a", type |-> x], [name |-> "b", type |-> y]>>]
EnumT(x) ==
  [t |-> "enum",
   variants |-> [v \in {"a", "one", "two", "rec"} |->
                   CASE v = "a" -> OfType("unit") [] v = "one" -> Of("newtype", x)
                     [] v = "two" -> Of("tuple", <<x, OfType("bool")>>)
                     [] v = "rec" -> StructT(x, OfType("str"))]]

Leaves == {OfType(t) : t \in {"bool", "char", "str", "bytes", "f32", "f64", "unit"}}
            \union {IntT(-8, 7), IntT(0, 8)}

Over(S) ==
  UNION {{Of(t, x) : t \in {"option", "newtype", "seq"}}
           \union {MapT("str", x), MapT("int", x), Of("tuple", <<x, OfType("bool")>>),
                   StructT(x, Of("option", OfType("str"))), EnumT(x)} : x \in S}

Types == Leaves \union Over(Leaves) \union Over(Over({OfType("unit"), IntT(0, 8)}))

RECURSIVE ValuesOf(_)
ValuesOf(T) ==
  CASE T.t = "bool" -> {[t |-> "bool", b |-> TRUE]}
    [] T.t = "f32"  -> {[t |-> "f32", f |-> <<1, 0>>]}
    [] T.t = "f64"  -> {[t |-> "f64", f |-> <<1, rest>>] : rest \in {0, 1}}
    [] T.t \in {"char", "str"} -> {[t |-> T.t, s |-> s] : s \in {"a", "x"}}
    [] T.t = "bytes" -> {[t |-> "bytes", s |-> s] : s \in {"a", "not UTF-8"}}
    [] T.t = "unit" -> {[t |-> "unit"]}
    [] T.t = "int"  -> {[t |-> "int", i |-> i] : i \in {T.lo, T.hi}}
    [] T.t = "option" -> {[t |-> "none"]} \union {[t |-> "some", x |-> x] : x \in ValuesOf(T.of)}
    [] T.t = "newtype" -> {[t |-> "newtype", x |-> x] : x \in ValuesOf(T.of)}
    [] T.t = "seq" ->
         {[t |-> "seq", xs |-> xs] : xs \in {<< >>} \union {<<x, x>> : x \in ValuesOf(T.of)}}
    [] T.t = "map" ->
         {[t |-> "map", keyed |-> T.keyed, m |-> m] :
            m \in UNION {[K -> ValuesOf(T.of)] : K \in {{}, {"a"}}}}
    [] T.t = "tuple" ->
         {[t |-> "tuple", xs |-> <<x, y>>] : x \in ValuesOf(T.of[1]), y \in ValuesOf(T.of[2])}
    [] T.t = "struct" ->
         {[t |-> "struct", names |-> <<"a", "b">>, xs |-> <<x, y>>] :
            x \in ValuesOf(T.fields[1].type), y \in ValuesOf(T.fields[2].type)}
    [] T.t = "enum" ->
         UNION {{[t |-> "variant", name |-> v, x |-> x] : x \in ValuesOf(T.variants[v])} :
                v \in DOMAIN T.variants}

TypedValues == UNION {{[type |-> T, d |-> x] : x \in ValuesOf(T)} : T \in Types}

\* A column of its own: plain, and graph structures on the top and nested.
Others ==
  {Null, List(<<Int_(1), Map([k \in {"a"} |-> Bytes("a")])>>), Struct(78, << >>),
   List(<<Null, Struct(78, << >>)>>), Map([k \in {"a"} |-> List(<<Struct(78, << >>)>>)])}

Serde == INSTANCE Convert
           WITH I64Max <- 7, Samples <- TypedValues, Extras <- Others,
                type <- v1, d <- v2, value <- v3, back <- v4, stage <- v5

-----------------------------------------------------------------------------
(* One part moves. *)

Init ==
  /\ part \in {"header", "agree", "trust", "packed", "uri", "convert"}
  /\ HeaderInit /\ (part # "header" => kind = "int" /\ n = 0)
  /\ HandshakeInit /\ (part # "agree" => server = "foreign")
  /\ TrustInit
  /\ UriInit /\ (part # "uri" => uri = <<"h">>)
  /\ CASE part = "packed"  -> Packed!Init /\ v5 = 0
       [] part = "convert" -> Serde!Init
       [] OTHER -> v1 = 0 /\ v2 = 0 /\ v3 = 0 /\ v4 = 0 /\ v5 = 0

OwnVars == <<headerVars, handshakeVars, trustVars, uriVars>>

Next ==
  /\ \/ /\ part = "header" /\ HeaderNext
        /\ UNCHANGED <<handshakeVars, trustVars, uriVars, v1, v2, v3, v4, v5>>
     \/ /\ part = "agree" /\ HandshakeNext
        /\ UNCHANGED <<headerVars, trustVars, uriVars, v1, v2, v3, v4, v5>>
     \/ /\ part = "trust" /\ TrustNext
        /\ UNCHANGED <<headerVars, handshakeVars, uriVars, v1, v2, v3, v4, v5>>
     \/ part = "packed" /\ Packed!Next /\ UNCHANGED <<OwnVars, v5>>
     \/ /\ part = "uri" /\ UriNext
        /\ UNCHANGED <<headerVars, handshakeVars, trustVars, v1, v2, v3, v4, v5>>
     \/ part = "convert" /\ Serde!Next /\ UNCHANGED OwnVars
  /\ UNCHANGED part

Spec == Init /\ [][Next]_<<part, OwnVars, v1, v2, v3, v4, v5>>

-----------------------------------------------------------------------------
(* Properties of the parts that share variables, each of its own part; the *)
(* others' are in their modules.                                           *)

\* What pack or a peer writes, the Reader reads back as the same value.
RoundTrip == part = "packed" => Packed!RoundTrip

\* The Reader refuses a packed value cut short anywhere.
CutRefused == part = "packed" => Packed!CutRefused

\* A value that to_value accepts comes back from from_value as it was.
ConvertRoundTrip == part = "convert" => Serde!ConvertRoundTrip

\* A struct returned as a row comes back from rows_as as it was, unless there
\* is a graph structure in a column beside it.
RowRoundTrip == part = "convert" => Serde!RowRoundTrip
=============================================================================
