-------------------------------- MODULE Uri ---------------------------------
(***************************************************************************)
(* Connection URIs (src/src/uri.rs): Config::from_uri takes a URI apart,   *)
(* addr puts host and port together again, and connect and routed_pool     *)
(* dial; routed_pool splits the address it dials once more, for the name   *)
(* the TLS certificate is checked against.                                 *)
(*                                                                         *)
(* A text is a sequence of tokens: the separators the code looks for, and  *)
(* words that hold none of them.  The :// after the scheme is two tokens,  *)
(* so that a search for a colon sees the one in it.                        *)
(***************************************************************************)
EXTENDS Integers, Sequences, SequencesExt

CONSTANTS TlsRustls, \* whether the feature tls-rustls is built in
          Token,    \* separators and words
          Numbers,  \* words that parse as a u16, and the number in 0 .. 65535
          Absent,   \* no port, no auth, no db, not written from parts
          Parts,    \* the parts of well-formed URIs
          Raw       \* other texts given to from_uri

Schemes == {"bolt", "bolt+s", "bolt+ssc", "neo4j", "neo4j+s", "neo4j+ssc"}
routed(scheme) == scheme \in {"neo4j", "neo4j+s", "neo4j+ssc"}
tls(scheme) == CASE scheme \in {"bolt", "neo4j"} -> "Off"
                 [] scheme \in {"bolt+s", "neo4j+s"} -> "Strict"
                 [] OTHER -> "AcceptInvalid"

Separators == {":", "//", "?", "@", "[", "]", "&", "db="}

\* Texts without the tokens of F.
Text(F) == {s \in Seq(Token) : \A k \in DOMAIN s : s[k] \notin F}

PortNumbers == {Numbers[w] : w \in DOMAIN Numbers}

ASSUME TokenAssumption == Separators \union Schemes \union {"x"} \subseteq Token

ASSUME WordsAssumption == DOMAIN Numbers \subseteq Token \ Separators

ASSUME NumbersAssumption == 7687 \in PortNumbers /\ Absent \notin PortNumbers

\* Of a URI's parts, none holds what ends it: a user name no colon (and so no
\* ://), a host no bracket and no @, and none before the query a question mark.
ASSUME UriAssumption ==
  /\ Raw \subseteq Seq(Token)
  /\ Parts \subseteq [scheme : Schemes,
                      auth   : {Absent} \union [user : Text({":", "?"}), pass : Text({"?"})],
                      host   : Text({"@", "?", "[", "]"}) \ {<< >>},
                      port   : {Absent} \union PortNumbers,
                      db     : {Absent} \union Text({"&"})]

Ok(v) == [ok |-> TRUE, v |-> v]
Err   == [ok |-> FALSE]

-----------------------------------------------------------------------------
(* str: split_once, rsplit_once, strip_prefix *)

Before(s, k) == SubSeq(s, 1, k - 1)
After(s, k)  == SubSeq(s, k + 1, Len(s))
FirstAt(s, tok) == SelectInSeq(s, LAMBDA x : x = tok)
LastAt(s, tok)  == SelectLastInSeq(s, LAMBDA x : x = tok)
StartsWith(s, tok) == s # << >> /\ s[1] = tok

-----------------------------------------------------------------------------
(* Parsing *)

parse_port(p) ==
  IF Len(p) = 1 /\ p[1] \in DOMAIN Numbers THEN Ok(Numbers[p[1]]) ELSE Err

\* The host, bare, and the port or Absent.
HostPort(host, port) == IF port.ok /\ host # << >> THEN Ok([host |-> host, port |-> port.v]) ELSE Err

Bracketed(rest) ==
  LET k     == FirstAt(rest, "]")
      after == After(rest, k)
  IN  IF k = 0 THEN Err
      ELSE IF StartsWith(after, ":") THEN HostPort(Before(rest, k), parse_port(Tail(after)))
      ELSE IF after = << >> THEN HostPort(Before(rest, k), Ok(Absent))
      ELSE Err

split_host_port(s) ==
  LET k == FirstAt(s, ":") IN
  IF StartsWith(s, "[") THEN Bracketed(Tail(s))
  ELSE IF k = 0 THEN HostPort(s, Ok(Absent))
  ELSE IF Contains(After(s, k), ":") THEN Err
  ELSE HostPort(Before(s, k), parse_port(After(s, k)))

\* Mutant: userinfo ends at the first @.
UserinfoFirst(rest) == FirstAt(rest, "@")

\* userinfo ends at the last @.
Userinfo(rest) == LastAt(rest, "@")

\* Auth::basic of user:pass, split at the first colon.
Basic(userinfo) ==
  LET k == FirstAt(userinfo, ":")
  IN  IF k = 0 THEN Err ELSE Ok([user |-> Before(userinfo, k), pass |-> After(userinfo, k)])

\* The first of the query's pairs that begins with db=.
Db(query) ==
  LET starts == {k \in DOMAIN query : query[k] = "db=" /\ (k = 1 \/ query[k - 1] = "&")}
      from   == CHOOSE k \in starts : \A j \in starts : k <= j
      value  == After(query, from)
      end    == FirstAt(value, "&")
  IN  IF starts = {} THEN Absent ELSE IF end = 0 THEN value ELSE Before(value, end)

\* The text before the first :// is a scheme; no scheme holds a colon.
HasScheme(uri) == Len(uri) >= 3 /\ uri[1] \in Schemes /\ uri[2] = ":" /\ uri[3] = "//"

from_uri(uri) ==
  LET text == After(uri, 3)
      q    == FirstAt(text, "?")
      rest == IF q = 0 THEN text ELSE Before(text, q)
      at   == Userinfo(rest)
      auth == IF at = 0 THEN Ok(Absent) ELSE Basic(Before(rest, at))
      hp   == split_host_port(After(rest, at))
  IN  IF ~HasScheme(uri) \/ ~auth.ok \/ ~hp.ok THEN Err
      ELSE Ok([scheme |-> uri[1], auth |-> auth.v, host |-> hp.v.host,
               port |-> IF hp.v.port = Absent THEN 7687 ELSE hp.v.port,
               db |-> IF q = 0 THEN Absent ELSE Db(After(text, q))])

-----------------------------------------------------------------------------
(* Dialling *)

\* The word a number is written as.
Word(n) == CHOOSE w \in DOMAIN Numbers : Numbers[w] = n

\* Mutant: no brackets.
addrBare(c) == c.host \o <<":", Word(c.port)>>

addr(c) ==
  IF Contains(c.host, ":") THEN <<"[">> \o c.host \o <<"]", ":", Word(c.port)>>
  ELSE c.host \o <<":", Word(c.port)>>

\* Plain, or over TLS with any certificate or with one of the native roots
\* for the name host; an error where TLS is not built in.
dial(tlsMode, address, host, auth) ==
  IF tlsMode # "Off" /\ ~TlsRustls THEN Err
  ELSE Ok([trusts |-> CASE tlsMode = "Off" -> "plain" [] tlsMode = "Strict" -> "native roots"
                        [] tlsMode = "AcceptInvalid" -> "any",
           addr |-> address, host |-> host, auth |-> auth])

\* Config::connect: refused for a routed scheme.
Direct(c) ==
  IF routed(c.scheme) THEN Err ELSE dial(tls(c.scheme), addr(c), c.host, c.auth)

\* What the pool's connect function does with a server's address.
PoolDials(c, server) ==
  LET hp == split_host_port(server)
  IN  IF hp.ok THEN dial(tls(c.scheme), server, hp.v.host, c.auth) ELSE Err

-----------------------------------------------------------------------------
VARIABLES parts,   \* what the URI was written from, or Absent
          uri,
          config,  \* from_uri's result
          dialled, \* what is dialled, or the error
          progress

uriVars == <<parts, uri, config, dialled, progress>>

\* scheme://[user:pass@]host[:port][?db=name], an IPv6 host in brackets.
Written(p) ==
  <<p.scheme, ":", "//">>
    \o (IF p.auth = Absent THEN << >> ELSE p.auth.user \o <<":">> \o p.auth.pass \o <<"@">>)
    \o (IF Contains(p.host, ":") THEN <<"[">> \o p.host \o <<"]">> ELSE p.host)
    \o (IF p.port = Absent THEN << >> ELSE <<":", Word(p.port)>>)
    \o (IF p.db = Absent THEN << >> ELSE <<"?", "x", "&", "db=">> \o p.db)

UriInit ==
  /\ \/ parts \in Parts /\ uri = Written(parts)
     \/ parts = Absent /\ uri \in Raw
  /\ config = Err /\ dialled = Err
  /\ progress = "uri"

Parse ==
  /\ progress = "uri"
  /\ config' = from_uri(uri)
  /\ progress' = "parsed"
  /\ UNCHANGED <<parts, uri, dialled>>

Connect ==
  /\ progress = "parsed" /\ config.ok
  /\ dialled' = Direct(config.v)
  /\ progress' = "connect"
  /\ UNCHANGED <<parts, uri, config>>

\* routed_pool's seed is addr().
DialSeed ==
  /\ progress = "parsed" /\ config.ok
  /\ dialled' = PoolDials(config.v, addr(config.v))
  /\ progress' = "routed"
  /\ UNCHANGED <<parts, uri, config>>

UriNext == Parse \/ Connect \/ DialSeed

UriSpec == UriInit /\ [][UriNext]_uriVars

-----------------------------------------------------------------------------
(* Properties *)

\* A URI written from its parts is taken apart into them: a user name or a
\* password with @ in it, a password with colons or :// and an IPv6 host
\* included.
WrittenIsParsed ==
  progress = "parsed" /\ parts # Absent =>
    config = Ok([parts EXCEPT !.port = IF @ = Absent THEN 7687 ELSE @])

\* Whatever URI was accepted, its own address is not refused by the split the
\* pool does before it dials, and gives back the bare host for the TLS name:
\* the seed is dialled as connect would dial it.  A host that holds a bracket
\* is no host name and is set aside.
SeedIsDialled ==
  progress = "routed" /\ ~Contains(config.v.host, "[") =>
    dialled = dial(tls(config.v.scheme), addr(config.v), config.v.host, config.v.auth)
=============================================================================
