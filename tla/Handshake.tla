----------------------------- MODULE Handshake ------------------------------
(***************************************************************************)
(* Version negotiation (src/src/handshake.rs, and handshake in             *)
(* src/src/connection.rs): the client proposes versions in four slots of   *)
(* four bytes, the server answers with four bytes, and the client takes    *)
(* the version in them or gives up.                                        *)
(*                                                                         *)
(* The server is external.  It takes the first slot that has a version it  *)
(* speaks, and of that slot the highest; one that ignores range bytes      *)
(* takes a slot to be its own version alone; a foreign one answers         *)
(* anything.                                                               *)
(***************************************************************************)
EXTENDS Integers, Sequences, FiniteSetsExt

CONSTANTS Speaks,      \* the sets of versions a server may speak
          ReplyBytes   \* the bytes of a foreign server's answer

Version(major, minor) == [major |-> major, minor |-> minor]

NoVersion == Version(0, 0)

MAX == Version(5, 8)
MIN == Version(5, 2)

encode_range(v, range) == <<0, range, v.minor, v.major>>

decode(bytes) == Version(bytes[4], bytes[3])

is_zero(v) == v.major = 0 /\ v.minor = 0

supported(v) == v.major = MAX.major /\ v.minor >= MIN.minor /\ v.minor <= MAX.minor

Empty == <<0, 0, 0, 0>>

\* Mutant: the lowest version is not offered in a slot of its own.
client_helloOne ==
  <<encode_range(MAX, MAX.minor - MIN.minor), Empty, Empty, Empty>>

\* The four slots after the magic bytes; the last two stay zero.
client_hello ==
  <<encode_range(MAX, MAX.minor - MIN.minor), encode_range(MIN, 0), Empty, Empty>>

VARIABLES hello,    \* the proposals the server has, << >> before they are sent
          server,   \* "ranges", "exact" or "foreign"
          speaks,   \* the versions the server speaks
          reply,    \* its answer, << >> before it comes
          state,    \* "new", "connected" or "refused"
          version   \* the version of the connection

handshakeVars == <<hello, server, speaks, reply, state, version>>

HandshakeInit ==
  /\ hello = << >> /\ reply = << >>
  /\ server \in {"ranges", "exact", "foreign"}
  /\ speaks \in (IF server = "foreign" THEN {{}} ELSE Speaks)
  /\ state = "new"
  /\ version = NoVersion

SendHello ==
  /\ hello = << >>
  /\ hello' = client_hello
  /\ UNCHANGED <<server, speaks, reply, state, version>>

\* The minors of a slot that the server speaks.
Offered(slot) ==
  {v \in speaks : /\ v.major = slot[4]
                  /\ v.minor <= slot[3]
                  /\ v.minor >= slot[3] - (IF server = "ranges" THEN slot[2] ELSE 0)}

\* External: the server's choice; four zero bytes if no slot suits it.
Choice ==
  LET slots == {k \in DOMAIN hello : Offered(hello[k]) # {}}
  IN  IF slots = {} THEN Empty
      ELSE LET best == Max({v.minor : v \in Offered(hello[Min(slots)])})
           IN  <<0, 0, best, hello[Min(slots)][4]>>

Answer ==
  /\ hello # << >> /\ reply = << >>
  /\ reply' \in (IF server = "foreign" THEN [1 .. 4 -> ReplyBytes] ELSE {Choice})
  /\ UNCHANGED <<hello, server, speaks, state, version>>

\* handshake, from the answer: BoltError::Version or the connection's version.
ReadAgreed ==
  /\ state = "new" /\ reply # << >>
  /\ LET v == decode(reply)
     IN  IF is_zero(v) \/ ~supported(v)
           THEN state' = "refused" /\ UNCHANGED version
           ELSE state' = "connected" /\ version' = v
  /\ UNCHANGED <<hello, server, speaks, reply>>

HandshakeNext == SendHello \/ Answer \/ ReadAgreed

HandshakeSpec == HandshakeInit /\ [][HandshakeNext]_handshakeVars

-----------------------------------------------------------------------------
(* Properties *)

Window == {Version(5, minor) : minor \in 2 .. 8}

\* With a server that knows ranges the client ends up on the highest version
\* both speak, and is refused only if there is none; with one that ignores
\* them it connects exactly if the server speaks 5.8 or 5.2.  Whatever a
\* foreign server answers, a connection speaks a version from 5.2 to 5.8.
HighestCommon ==
  LET common == IF server = "ranges" THEN speaks \cap Window
                ELSE speaks \cap {MAX, MIN}
  IN  /\ state = "connected" => version \in Window
      /\ server # "foreign" /\ state # "new" =>
           IF common = {} THEN state = "refused"
           ELSE /\ state = "connected"
                /\ version \in common
                /\ \A v \in common : v.minor <= version.minor
=============================================================================
