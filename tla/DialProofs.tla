----------------------------- MODULE DialProofs -----------------------------
(***************************************************************************)
(* Proofs about the way to a connection: what a URI says (Uri), whom TLS   *)
(* trusts (TlsTrust) and the version the two sides agree on (Handshake).   *)
(* They hold for every text and every set of parts a URI can be written    *)
(* from; for every set of certificates, issuers, PEMs and stores and any   *)
(* number of builder calls; for every set of versions a server may speak   *)
(* and every answer of a foreign one.                                      *)
(***************************************************************************)
EXTENDS Handshake, TlsTrust, Uri, SequenceTheorems, WellFoundedInduction, TLAPS

Versions == [major : Nat, minor : Nat]

-----------------------------------------------------------------------------
(* Least and greatest *)

\* A bounded set of numbers has a greatest.
LEMMA Greatest ==
  ASSUME NEW n \in Nat, NEW S \in SUBSET (0 .. n), S # {}
  PROVE  Max(S) \in S /\ \A x \in S : x <= Max(S)
<1> DEFINE T == {d \in Nat : \E x \in S : d = n - x}
<1>1. T \subseteq Nat /\ T # {}
  <2>1. PICK x \in S : TRUE
    OBVIOUS
  <2>2. n - x \in Nat
    OBVIOUS
  <2>3. n - x \in T
    BY <2>2
  <2> QED  BY <2>3
<1>2. PICK d \in T : \A y \in T : ~(<<y, d>> \in OpToRel(<, Nat))
  BY <1>1, WFMin, NatLessThanWellFounded
<1>3. \A y \in T : d <= y
  <2> HIDE DEF T
  <2>1. \A y \in T : ~(y < d)
    BY <1>1, <1>2 DEF OpToRel
  <2> QED  BY <1>1, <2>1
<1>4. PICK m \in S : d = n - m
  BY <1>2
<1>5. \A x \in S : x <= m
  <2> SUFFICES ASSUME NEW x \in S
               PROVE  x <= m
    OBVIOUS
  <2>1. n - x \in T
    OBVIOUS
  <2>2. n - m <= n - x
    BY <1>3, <1>4, <2>1
  <2>3. m \in 0 .. n /\ x \in 0 .. n
    OBVIOUS
  <2> QED  BY <2>2, <2>3
<1>6. S \subseteq Int /\ \A x \in S : m >= x
  BY <1>5
<1>7. Max(S) \in S /\ \A x \in S : Max(S) >= x
  BY <1>6 DEF Max
<1> QED  BY <1>6, <1>7

\* The least slot of those that suit the server.
LEMMA Least ==
  ASSUME NEW S \in SUBSET Int, NEW m \in S, \A x \in S : m <= x
  PROVE  Min(S) = m
<1>1. \A x \in S : (\A y \in S : x <= y) => x = m
  OBVIOUS
<1> QED  BY <1>1 DEF Min

-----------------------------------------------------------------------------
(* The slots of client_hello *)

\* The proposals: 5.8 down to 5.2, 5.2 alone, and nothing twice.
LEMMA Hello ==
  /\ client_hello = << <<0, 6, 8, 5>>, <<0, 0, 2, 5>>, <<0, 0, 0, 0>>, <<0, 0, 0, 0>> >>
  /\ DOMAIN client_hello = {1, 2, 3, 4} /\ client_hello # << >>
  BY DEF client_hello, encode_range, MAX, MIN, Version, Empty

\* The versions from 5.2 to 5.8.
LEMMA WindowIs ==
  ASSUME NEW v \in Versions
  PROVE  /\ v \in Window <=> v.major = 5 /\ 2 <= v.minor /\ v.minor <= 8
         /\ v \in Window <=> supported(v)
         /\ v = MAX <=> v.major = 5 /\ v.minor = 8
         /\ v = MIN <=> v.major = 5 /\ v.minor = 2
         /\ is_zero(v) => ~supported(v)
<1>1. v = [major |-> v.major, minor |-> v.minor] /\ v.major \in Nat /\ v.minor \in Nat
  BY DEF Versions
<1>2. v \in Window <=> v.major = 5 /\ 2 <= v.minor /\ v.minor <= 8
  BY <1>1 DEF Window, Version
<1>3. supported(v) <=> v.major = 5 /\ 2 <= v.minor /\ v.minor <= 8
  BY <1>1 DEF supported, MAX, MIN, Version
<1>4. /\ v = MAX <=> v.major = 5 /\ v.minor = 8
      /\ v = MIN <=> v.major = 5 /\ v.minor = 2
  BY <1>1 DEF MAX, MIN, Version
<1>5. is_zero(v) => ~supported(v)
  BY <1>3 DEF is_zero
<1> QED  BY <1>2, <1>3, <1>4, <1>5

\* What the server may take of each slot.
LEMMA Offers ==
  ASSUME speaks \subseteq Versions, server \in {"ranges", "exact"}, hello = client_hello
  PROVE  /\ Offered(hello[1]) = IF server = "ranges" THEN speaks \cap Window
                                ELSE speaks \cap {MAX}
         /\ Offered(hello[2]) = speaks \cap {MIN}
         /\ \A v \in Offered(hello[3]) : v.minor = 0
         /\ Offered(hello[4]) = Offered(hello[3])
<1>1. /\ hello[1] = <<0, 6, 8, 5>> /\ hello[2] = <<0, 0, 2, 5>>
      /\ hello[3] = <<0, 0, 0, 0>> /\ hello[4] = <<0, 0, 0, 0>>
  BY Hello
<1>2. \A v \in speaks : v.major \in Nat /\ v.minor \in Nat
  BY DEF Versions
<1>3. \A v \in speaks : v \in Offered(hello[1]) <=>
        v.major = 5 /\ v.minor <= 8 /\ v.minor >= 8 - (IF server = "ranges" THEN 6 ELSE 0)
  BY <1>1 DEF Offered
<1>4. \A v \in speaks : v \in Offered(hello[2]) <=>
        v.major = 5 /\ v.minor <= 2 /\ v.minor >= 2
  BY <1>1, <1>2 DEF Offered
<1>5. \A v \in Offered(hello[3]) : v \in speaks /\ v.minor <= 0
  BY <1>1 DEF Offered
<1>6. Offered(hello[1]) \subseteq speaks /\ Offered(hello[2]) \subseteq speaks
  BY DEF Offered
<1>7. \A v \in speaks : /\ v \in Window <=> v.major = 5 /\ 2 <= v.minor /\ v.minor <= 8
                        /\ v = MAX <=> v.major = 5 /\ v.minor = 8
                        /\ v = MIN <=> v.major = 5 /\ v.minor = 2
  BY WindowIs
<1>8. CASE server = "ranges"
  <2>1. \A v \in speaks : v \in Offered(hello[1]) <=> v \in Window
    BY <1>2, <1>3, <1>7, <1>8
  <2>2. \A v \in speaks : v \in Offered(hello[2]) <=> v = MIN
    BY <1>2, <1>4, <1>7
  <2> QED  BY <1>1, <1>2, <1>5, <1>6, <1>8, <2>1, <2>2
<1>9. CASE server = "exact"
  <2>1. \A v \in speaks : v \in Offered(hello[1]) <=> v = MAX
    BY <1>2, <1>3, <1>7, <1>9
  <2>2. \A v \in speaks : v \in Offered(hello[2]) <=> v = MIN
    BY <1>2, <1>4, <1>7
  <2> QED  BY <1>1, <1>2, <1>5, <1>6, <1>9, <2>1, <2>2
<1> QED  BY <1>8, <1>9

\* The versions on which client and server can meet.
Common == IF server = "ranges" THEN speaks \cap Window ELSE speaks \cap {MAX, MIN}

\* The choice from slot k, the first that suits the server.
LEMMA ChosenFrom ==
  ASSUME speaks \subseteq Versions, server \in {"ranges", "exact"}, hello = client_hello,
         NEW k \in 1 .. 4, Offered(hello[k]) # {},
         \A j \in 1 .. 4 : j < k => Offered(hello[j]) = {}
  PROVE  \E v \in Offered(hello[k]) :
           /\ \A w \in Offered(hello[k]) : w.minor <= v.minor
           /\ Choice = <<0, 0, v.minor, v.major>>
<1> DEFINE slots  == {j \in DOMAIN hello : Offered(hello[j]) # {}}
           minors == {v.minor : v \in Offered(hello[k])}
<1>1. DOMAIN hello = 1 .. 4
  BY Hello
<1>2. Min(slots) = k
  <2>1. slots \in SUBSET Int /\ k \in slots /\ \A x \in slots : k <= x
    BY <1>1
  <2> HIDE DEF slots
  <2> QED  BY <2>1, Least
<1>3. slots # {}
  BY <1>1
<1>4. Choice = <<0, 0, Max(minors), hello[k][4]>>
  <2>1. Choice = IF slots = {} THEN Empty
                 ELSE <<0, 0, Max({v.minor : v \in Offered(hello[Min(slots)])}),
                        hello[Min(slots)][4]>>
    BY DEF Choice
  <2> HIDE DEF slots
  <2> QED  BY <1>2, <1>3, <2>1
<1>5. \A v \in Offered(hello[k]) : /\ v.minor \in 0 .. 8 /\ v.major = hello[k][4]
                                   /\ v \in speaks
  <2>1. \A v \in Offered(hello[k]) : /\ v \in speaks /\ v.major = hello[k][4]
                                     /\ v.minor <= hello[k][3]
    BY DEF Offered
  <2>2. hello[k][3] \in {0, 2, 8}
    BY Hello
  <2>3. \A v \in speaks : v.minor \in Nat
    BY DEF Versions
  <2> QED  BY <2>1, <2>2, <2>3
<1>6. minors \in SUBSET (0 .. 8) /\ minors # {}
  BY <1>5
<1>7. PICK v \in Offered(hello[k]) : v.minor = Max(minors)
  <2> HIDE DEF minors
  <2>1. Max(minors) \in minors
    BY <1>6, Greatest
  <2> QED  BY <2>1 DEF minors
<1>8. \A w \in Offered(hello[k]) : w.minor <= v.minor
  <2>1. \A w \in Offered(hello[k]) : w.minor \in minors
    OBVIOUS
  <2> HIDE DEF minors
  <2>2. \A x \in minors : x <= Max(minors)
    BY <1>6, Greatest
  <2> QED  BY <1>7, <2>1, <2>2
<1> HIDE DEF minors
<1> QED  BY <1>4, <1>5, <1>7, <1>8

\* A server that negotiates answers with the highest common version, or with
\* zeros.
LEMMA ChoiceIsHighest ==
  ASSUME speaks \subseteq Versions, server \in {"ranges", "exact"}, hello = client_hello
  PROVE  /\ Common = {} => Choice[3] = 0 /\ Choice[4] = 0
         /\ Common # {} => \E v \in Common : /\ \A w \in Common : w.minor <= v.minor
                                             /\ Choice = <<0, 0, v.minor, v.major>>
<1>1. /\ Offered(hello[1]) = IF server = "ranges" THEN speaks \cap Window
                             ELSE speaks \cap {MAX}
      /\ Offered(hello[2]) = speaks \cap {MIN}
      /\ \A v \in Offered(hello[3]) : v.minor = 0
      /\ Offered(hello[4]) = Offered(hello[3])
  BY Offers
<1>2. MAX.minor = 8 /\ MIN.minor = 2 /\ MIN \in Window
  BY DEF MAX, MIN, Version, Window
<1>3. CASE Offered(hello[1]) # {}
  <2>1. PICK v \in Offered(hello[1]) :
          /\ \A w \in Offered(hello[1]) : w.minor <= v.minor
          /\ Choice = <<0, 0, v.minor, v.major>>
    <3>1. \A j \in 1 .. 4 : j < 1 => Offered(hello[j]) = {}
      OBVIOUS
    <3> QED  BY <1>3, <3>1, ChosenFrom
  <2>2. v \in Common
    BY <1>1 DEF Common
  <2>3. \A w \in Common : w.minor <= v.minor
    <3>1. CASE server = "ranges"
      BY <1>1, <2>1, <3>1 DEF Common
    <3>2. CASE server = "exact"
      BY <1>1, <1>2, <3>2 DEF Common
    <3> QED  BY <3>1, <3>2
  <2> QED  BY <2>1, <2>2, <2>3
<1>4. CASE Offered(hello[1]) = {} /\ Offered(hello[2]) # {}
  <2>1. PICK v \in Offered(hello[2]) : Choice = <<0, 0, v.minor, v.major>>
    <3>1. \A j \in 1 .. 4 : j < 2 => j = 1
      OBVIOUS
    <3>2. \A j \in 1 .. 4 : j < 2 => Offered(hello[j]) = {}
      BY <1>4, <3>1
    <3> QED  BY <1>4, <3>2, ChosenFrom
  <2>2. server = "exact" /\ v = MIN /\ Common = {MIN}
    BY <1>1, <1>2, <1>4 DEF Common
  <2> QED  BY <1>2, <2>1, <2>2
<1>5. CASE Offered(hello[1]) = {} /\ Offered(hello[2]) = {}
  <2>1. Common = {}
    <3>1. CASE server = "ranges"
      BY <1>1, <1>5, <3>1 DEF Common
    <3>2. CASE server = "exact"
      BY <1>1, <1>5, <3>2 DEF Common
    <3> QED  BY <3>1, <3>2
  <2>2. CASE Offered(hello[3]) = {}
    <3>1. \A j \in DOMAIN hello : Offered(hello[j]) = {}
      BY <1>1, <1>5, <2>2, Hello
    <3>2. Choice = Empty
      BY <3>1 DEF Choice
    <3> QED  BY <2>1, <3>2 DEF Empty
  <2>3. CASE Offered(hello[3]) # {}
    <3>1. \A j \in 1 .. 4 : j < 3 => j = 1 \/ j = 2
      OBVIOUS
    <3>2. \A j \in 1 .. 4 : j < 3 => Offered(hello[j]) = {}
      BY <1>5, <3>1
    <3>3. PICK v \in Offered(hello[3]) : Choice = <<0, 0, v.minor, v.major>>
      BY <2>3, <3>2, ChosenFrom
    <3>4. hello[3][4] = 0
      BY Hello
    <3>5. v.minor = 0 /\ v.major = 0
      BY <1>1, <3>4 DEF Offered
    <3> QED  BY <2>1, <3>3, <3>5
  <2> QED  BY <2>2, <2>3
<1> QED  BY <1>3, <1>4, <1>5

-----------------------------------------------------------------------------
(* The invariant *)

\* What has been sent, answered and concluded, one from the other.
AgreeInv ==
  /\ server \in {"ranges", "exact", "foreign"} /\ speaks \subseteq Versions
  /\ state \in {"new", "connected", "refused"}
  /\ hello \in {<< >>, client_hello}
  /\ reply # << >> =>
       /\ hello = client_hello
       /\ server = "foreign" => reply \in [1 .. 4 -> Nat]
       /\ server # "foreign" => reply = Choice
  /\ state # "new" => reply # << >>
  /\ state = "connected" => supported(decode(reply)) /\ version = decode(reply)
  /\ state = "refused" => ~supported(decode(reply))

\* A supported answer is in the window, and no answer of zeros is supported.
LEMMA Decoded ==
  ASSUME NEW bytes, bytes[3] \in Nat, bytes[4] \in Nat
  PROVE  /\ supported(decode(bytes)) <=> decode(bytes) \in Window
         /\ is_zero(decode(bytes)) => ~supported(decode(bytes))
<1>1. decode(bytes) \in Versions
  BY DEF decode, Version, Versions
<1> QED  BY <1>1, WindowIs

\* The answer of a server that negotiates has a version in it.
LEMMA ChoiceTyped ==
  ASSUME speaks \subseteq Versions, server \in {"ranges", "exact"}, hello = client_hello
  PROVE  Choice[3] \in Nat /\ Choice[4] \in Nat
<1>1. CASE Common = {}
  BY <1>1, ChoiceIsHighest
<1>2. CASE Common # {}
  <2>1. PICK v \in Common : Choice = <<0, 0, v.minor, v.major>>
    BY <1>2, ChoiceIsHighest
  <2>2. v \in Versions
    BY DEF Common
  <2> QED  BY <2>1, <2>2 DEF Versions
<1> QED  BY <1>1, <1>2

\* Every step of the negotiation keeps what is known of the offers and the answer.
LEMMA AgreeStep ==
  ASSUME ReplyBytes \subseteq Nat
  PROVE  AgreeInv /\ [HandshakeNext]_handshakeVars => AgreeInv'
<1> SUFFICES ASSUME AgreeInv, [HandshakeNext]_handshakeVars
             PROVE  AgreeInv'
  OBVIOUS
<1>1. client_hello # << >>
  BY Hello
<1>2. CASE SendHello
  <2>1. hello = << >> /\ hello' = client_hello /\ UNCHANGED <<server, speaks, reply, state, version>>
    BY <1>2 DEF SendHello
  <2>2. reply = << >> /\ state = "new"
    BY <1>1, <2>1 DEF AgreeInv
  <2> QED  BY <2>1, <2>2 DEF AgreeInv
<1>3. CASE Answer
  <2>1. /\ hello = client_hello /\ reply = << >> /\ state = "new"
        /\ UNCHANGED <<hello, server, speaks, state, version>>
    BY <1>3 DEF Answer, AgreeInv
  <2>2. Choice' = Choice
    BY <2>1 DEF Choice, Offered
  <2>3. CASE server = "foreign"
    <3>1. reply' \in [1 .. 4 -> ReplyBytes]
      BY <1>3, <2>3 DEF Answer
    <3>2. reply' \in [1 .. 4 -> Nat]
      BY <3>1
    <3> QED  BY <2>1, <2>3, <3>2 DEF AgreeInv
  <2>4. CASE server # "foreign"
    <3>1. reply' = Choice
      BY <1>3, <2>4 DEF Answer
    <3> QED  BY <2>1, <2>2, <2>4, <3>1 DEF AgreeInv
  <2> QED  BY <2>3, <2>4
<1>4. CASE ReadAgreed
  <2>1. state = "new" /\ reply # << >> /\ UNCHANGED <<hello, server, speaks, reply>>
    BY <1>4 DEF ReadAgreed
  <2>2. Choice' = Choice
    BY <2>1 DEF Choice, Offered
  <2>3. reply[3] \in Nat /\ reply[4] \in Nat
    <3>1. CASE server = "foreign"
      BY <2>1, <3>1 DEF AgreeInv
    <3>2. CASE server # "foreign"
      BY <2>1, <3>2, ChoiceTyped DEF AgreeInv
    <3> QED  BY <3>1, <3>2
  <2>4. IF ~supported(decode(reply)) THEN state' = "refused"
        ELSE state' = "connected" /\ version' = decode(reply)
    BY <1>4, <2>3, Decoded DEF ReadAgreed
  <2> QED  BY <2>1, <2>2, <2>4 DEF AgreeInv
<1>5. CASE UNCHANGED handshakeVars
  <2>1. UNCHANGED <<hello, server, speaks, reply, state, version>>
    BY <1>5 DEF handshakeVars
  <2>2. Choice' = Choice
    BY <2>1 DEF Choice, Offered
  <2> QED  BY <2>1, <2>2 DEF AgreeInv
<1> QED  BY <1>2, <1>3, <1>4, <1>5 DEF HandshakeNext

\* Whatever versions a server speaks, handshake ends on the highest that it
\* and client_hello's window share if the server knows ranges, on 5.8 or 5.2
\* if it does not, and in BoltError::Version only if there is none; whatever
\* bytes a foreign server answers with, no version outside the window is
\* taken.
THEOREM AgreesOnHighest ==
  ASSUME Speaks \subseteq SUBSET Versions, ReplyBytes \subseteq Nat
  PROVE  HandshakeSpec => []HighestCommon
<1>1. HandshakeInit => AgreeInv
  <2> SUFFICES ASSUME HandshakeInit
               PROVE  AgreeInv
    OBVIOUS
  <2>1. speaks \subseteq Versions
    BY DEF HandshakeInit
  <2> QED  BY <2>1 DEF HandshakeInit, AgreeInv
<1>2. AgreeInv => HighestCommon
  <2> SUFFICES ASSUME AgreeInv
               PROVE  HighestCommon
    OBVIOUS
  <2>1. CASE state = "new"
    BY <2>1 DEF HighestCommon
  <2>2. CASE state # "new" /\ server = "foreign"
    <3>1. reply[3] \in Nat /\ reply[4] \in Nat
      BY <2>2 DEF AgreeInv
    <3>2. state = "connected" => version \in Window
      BY <3>1, Decoded DEF AgreeInv
    <3> QED  BY <2>2, <3>2 DEF HighestCommon
  <2>3. CASE state # "new" /\ server # "foreign"
    <3>1. /\ speaks \subseteq Versions /\ server \in {"ranges", "exact"}
          /\ hello = client_hello /\ reply = Choice
      BY <2>3 DEF AgreeInv
    <3>2. reply[3] \in Nat /\ reply[4] \in Nat
      BY <3>1, ChoiceTyped
    <3>3. /\ supported(decode(reply)) <=> decode(reply) \in Window
          /\ is_zero(decode(reply)) => ~supported(decode(reply))
      BY <3>2, Decoded
    <3>4. CASE Common = {}
      <4>1. is_zero(decode(reply))
        BY <3>1, <3>4, ChoiceIsHighest DEF decode, Version, is_zero
      <4>2. state = "refused"
        BY <2>3, <3>3, <4>1 DEF AgreeInv
      <4> QED  BY <3>4, <4>2 DEF HighestCommon, Common
    <3>5. CASE Common # {}
      <4>1. PICK v \in Common : /\ \A w \in Common : w.minor <= v.minor
                                /\ Choice = <<0, 0, v.minor, v.major>>
        BY <3>1, <3>5, ChoiceIsHighest
      <4>2. v \in Versions
        BY <3>1 DEF Common
      <4>3. decode(reply) = v
        BY <3>1, <4>1, <4>2 DEF decode, Version, Versions
      <4>4. v \in Window
        BY <4>1 DEF Common, MAX, MIN, Window, Version
      <4>5. state = "connected" /\ version = v
        BY <2>3, <3>3, <4>3, <4>4 DEF AgreeInv
      <4> QED  BY <3>5, <4>1, <4>4, <4>5 DEF HighestCommon, Common
    <3> QED  BY <3>4, <3>5
  <2> QED  BY <2>1, <2>2, <2>3
<1> QED  BY <1>1, <1>2, AgreeStep, PTL DEF HandshakeSpec

-----------------------------------------------------------------------------
(* Server trust *)

Fields == {"root_store", "extra_roots_pem", "extra_roots_der", "pins_pem", "pins_der",
           "accept_invalid", "native_roots", "identity"}

\* What build made of the builder, which is left alone from then on, and what
\* a handshake made of that.
TrustInv ==
  /\ DOMAIN builder = Fields
  /\ builder.accept_invalid \in BOOLEAN
  /\ session.outcome # "none" => phase = "built"
  /\ phase = "built" => PinsUsable /\ trust = Trusted
  /\ session.outcome \in {"up", "Tls"} =>
       (session.outcome = "up" <=> verify_server_cert(session.cert) /\ session.key)

\* A builder call changes one field, of a builder that was not built.
LEMMA SetKeeps ==
  ASSUME TrustInv, NEW field \in Fields, NEW x, Set(field, x),
         field = "accept_invalid" => x \in BOOLEAN
  PROVE  TrustInv'
<1>1. /\ phase = "building" /\ phase' = phase /\ session' = session
      /\ builder' = [builder EXCEPT ![field] = x]
  BY DEF Set
<1>2. session.outcome = "none"
  BY <1>1 DEF TrustInv
<1>3. DOMAIN builder' = Fields /\ builder'.accept_invalid \in BOOLEAN
  <2>1. "accept_invalid" \in Fields
    BY DEF Fields
  <2> QED  BY <1>1, <2>1 DEF TrustInv
<1> QED  BY <1>1, <1>2, <1>3 DEF TrustInv

\* Each of the builder's calls.
LEMMA CallKeeps ==
  ASSUME TrustInv,
         \/ add_root_pem \/ add_root_der \/ with_root_store
         \/ pin_certificate_pem \/ pin_certificate_der
         \/ danger_accept_invalid_certs \/ use_native_roots \/ client_identity
  PROVE  TrustInv'
<1>1. \E field \in Fields : \E x : Set(field, x) /\ (field = "accept_invalid" => x \in BOOLEAN)
  BY DEF add_root_pem, add_root_der, with_root_store, pin_certificate_pem,
         pin_certificate_der, danger_accept_invalid_certs, use_native_roots,
         client_identity, Push, Fields
<1> QED  BY <1>1, SetKeeps

\* A pin that build takes is a certificate: something was pinned exactly if
\* there is one to compare with.
LEMMA PinsArePinned ==
  ASSUME PinsUsable
  PROVE  Pinned <=> pins # {}
  BY DEF PinsUsable, Pinned, pins, pem_certs

\* The verifier that Trusted describes accepts what the caller asked for.
LEMMA TrustedAsks ==
  ASSUME builder.accept_invalid \in BOOLEAN, PinsUsable, trust = Trusted, NEW c
  PROVE  verify_server_cert(c) <=>
           \/ builder.accept_invalid
           \/ ~builder.accept_invalid /\ Pinned /\ c \in pins
           \/ /\ ~builder.accept_invalid /\ ~Pinned
              /\ c \notin Authority
              /\ \/ Issuer[c] \in extra
                 \/ builder.root_store = NoStore /\ Issuer[c] \in Webpki
                 \/ builder.root_store # NoStore /\ Issuer[c] \in builder.root_store
                 \/ builder.native_roots /\ Issuer[c] \in Native /\ Issuer[c] \in Rootable
<1>1. Pinned <=> pins # {}
  BY PinsArePinned
<1>2. CASE builder.accept_invalid
  <2>1. trust.mode = "any"
    BY <1>2 DEF Trusted
  <2> QED  BY <1>2, <2>1 DEF verify_server_cert
<1>3. CASE ~builder.accept_invalid /\ pins # {}
  <2>1. trust = [mode |-> "pinned", certs |-> pins]
    BY <1>3 DEF Trusted
  <2>2. trust.mode = "pinned" /\ trust.certs = pins
    BY <2>1
  <2> QED  BY <1>1, <1>3, <2>2 DEF verify_server_cert
<1>4. CASE ~builder.accept_invalid /\ pins = {}
  <2>1. trust = [mode |-> "roots", certs |-> Roots]
    BY <1>4 DEF Trusted
  <2>2. trust.mode = "roots" /\ trust.certs = Roots
    BY <2>1
  <2>3. verify_server_cert(c) <=> c \notin Authority /\ Issuer[c] \in Roots
    BY <2>2 DEF verify_server_cert
  <2> QED  BY <1>1, <1>4, <2>3 DEF Roots
<1> QED  BY <1>2, <1>3, <1>4

\* Every call on the builder and every handshake keeps the invariant.
LEMMA TrustStep == TrustInv /\ [TrustNext]_trustVars => TrustInv'
<1> SUFFICES ASSUME TrustInv, [TrustNext]_trustVars
             PROVE  TrustInv'
  OBVIOUS
<1>1. CASE \/ add_root_pem \/ add_root_der \/ with_root_store
           \/ pin_certificate_pem \/ pin_certificate_der
           \/ danger_accept_invalid_certs \/ use_native_roots \/ client_identity
  BY <1>1, CallKeeps
<1>2. CASE BuildOk
  <2>1. /\ PinsUsable /\ trust' = Trusted /\ phase' = "built" /\ builder' = builder
        /\ session' = session /\ session.outcome = "none"
    BY <1>2 DEF BuildOk, Builds, TrustInv
  <2>2. PinsUsable' /\ Trusted' = Trusted
    BY <2>1 DEF PinsUsable, Trusted, pins, Roots, extra, pem_certs
  <2> QED  BY <2>1, <2>2 DEF TrustInv
<1>3. CASE BuildErr
  <2>1. /\ phase' = "failed" /\ builder' = builder
        /\ session' = session /\ session.outcome = "none"
    BY <1>3 DEF BuildErr, TrustInv
  <2> QED  BY <2>1 DEF TrustInv
<1>4. CASE connect \/ Dropped \/ InvalidName \/ UNCHANGED trustVars
  <2>1. builder' = builder /\ trust' = trust /\ phase' = phase
    BY <1>4 DEF connect, Dropped, InvalidName, trustVars
  <2>2. PinsUsable' = PinsUsable /\ Trusted' = Trusted
    BY <2>1 DEF PinsUsable, Trusted, pins, Roots, extra, pem_certs
  <2>3. \A c : verify_server_cert(c)' = verify_server_cert(c)
    BY <2>1 DEF verify_server_cert
  <2>4. CASE UNCHANGED trustVars
    BY <2>1, <2>2, <2>3, <2>4 DEF TrustInv, trustVars
  <2>5. CASE Dropped \/ InvalidName
    <3>1. phase = "built" /\ session'.outcome \in {"Io", "name"}
      BY <2>5 DEF Dropped, InvalidName
    <3> QED  BY <2>1, <2>2, <3>1 DEF TrustInv
  <2>6. CASE connect
    <3>1. PICK c \in Cert, key \in BOOLEAN :
            session' = [cert |-> c, key |-> key,
                        outcome |-> IF verify_server_cert(c) /\ verify_signature(key)
                                      THEN "up" ELSE "Tls"]
      BY <2>6 DEF connect
    <3>2. /\ session'.cert = c /\ session'.key = key
          /\ session'.outcome = IF verify_server_cert(c) /\ key THEN "up" ELSE "Tls"
      BY <3>1 DEF verify_signature
    <3>3. phase = "built"
      BY <2>6 DEF connect
    <3>4. (session.outcome = "up" <=> verify_server_cert(session.cert) /\ session.key)'
      <4>1. verify_server_cert(session.cert)' <=> verify_server_cert(c)
        BY <2>1, <3>2 DEF verify_server_cert
      <4> QED  BY <3>2, <4>1
    <3> QED  BY <2>1, <2>2, <3>3, <3>4 DEF TrustInv
  <2> QED  BY <1>4, <2>4, <2>5, <2>6
<1> QED  BY <1>1, <1>2, <1>3, <1>4 DEF TrustNext

\* Whatever the calls on the builder and their order, a handshake that build's
\* verifier lets through is with a server that has the key of a certificate
\* the caller asked to trust, and one it refuses is not: build drops no pin,
\* and no root is trusted beside a pin.
THEOREM TrustIsAsAsked == TrustSpec => []TrustAsAsked
<1>1. TrustInit => TrustInv
  BY DEF TrustInit, TrustInv, Fields
<1>2. TrustInv => TrustAsAsked
  <2> SUFFICES ASSUME TrustInv, session.outcome \in {"up", "Tls"}
               PROVE  TrustAsAsked
    BY DEF TrustAsAsked
  <2>1. builder.accept_invalid \in BOOLEAN /\ PinsUsable /\ trust = Trusted
    BY DEF TrustInv
  <2>2. session.outcome = "up" <=> verify_server_cert(session.cert) /\ session.key
    BY DEF TrustInv
  <2> QED  BY <2>1, <2>2, TrustedAsks DEF TrustAsAsked
<1> QED  BY <1>1, <1>2, TrustStep, PTL DEF TrustSpec

-----------------------------------------------------------------------------
(* Texts: where a token is *)

\* s holds no tok.
Free(s, tok) == \A i \in 1 .. Len(s) : s[i] # tok

\* t is a, then tok, then b.
Around(t, a, tok, b) ==
  /\ t \in Seq(Token) /\ a \in Seq(Token) /\ b \in Seq(Token)
  /\ Len(a) \in Nat /\ Len(b) \in Nat /\ Len(t) = Len(a) + 1 + Len(b)
  /\ \A i \in 1 .. Len(a) : t[i] = a[i]
  /\ t[Len(a) + 1] = tok
  /\ \A i \in 1 .. Len(b) : t[Len(a) + 1 + i] = b[i]

\* Of two texts together.
LEMMA Pair ==
  ASSUME NEW a \in Seq(Token), NEW b \in Seq(Token)
  PROVE  /\ a \o b \in Seq(Token) /\ Len(a \o b) = Len(a) + Len(b)
         /\ Len(a) \in Nat /\ Len(b) \in Nat
         /\ \A i \in 1 .. Len(a) : (a \o b)[i] = a[i]
         /\ \A i \in 1 .. Len(b) : (a \o b)[Len(a) + i] = b[i]
  OBVIOUS

\* Of three texts together.
LEMMA Regroup ==
  ASSUME NEW a \in Seq(Token), NEW b \in Seq(Token), NEW c \in Seq(Token)
  PROVE  (a \o b) \o c = a \o (b \o c)
  OBVIOUS

\* A text around a token.
LEMMA AroundFacts ==
  ASSUME NEW a \in Seq(Token), NEW tok \in Token, NEW b \in Seq(Token)
  PROVE  /\ Around((a \o <<tok>>) \o b, a, tok, b)
         /\ (a \o <<tok>>) \o b = a \o (<<tok>> \o b)
<1> DEFINE w == <<tok>>
           c == a \o w
           t == c \o b
<1>1. w \in Seq(Token) /\ Len(w) = 1 /\ w[1] = tok
  OBVIOUS
<1> HIDE DEF w
<1>2. /\ c \in Seq(Token) /\ Len(c) = Len(a) + Len(w)
      /\ Len(a) \in Nat /\ \A i \in 1 .. Len(a) : c[i] = a[i]
  BY <1>1, Pair
<1>3. c[Len(a) + 1] = tok
  <2>1. \A i \in 1 .. Len(w) : c[Len(a) + i] = w[i]
    BY <1>1, Pair
  <2>2. 1 \in 1 .. Len(w)
    BY <1>1
  <2> QED  BY <1>1, <2>1, <2>2
<1> HIDE DEF c
<1>4. Len(c) = Len(a) + 1
  BY <1>1, <1>2
<1>5. /\ t \in Seq(Token) /\ Len(t) = Len(c) + Len(b) /\ Len(b) \in Nat
      /\ (\A i \in 1 .. Len(c) : t[i] = c[i])
      /\ \A i \in 1 .. Len(b) : t[Len(c) + i] = b[i]
  <2>1. c \in Seq(Token)
    BY <1>2
  <2> QED  BY <2>1
<1> HIDE DEF t
<1>6. \A i \in 1 .. Len(a) : t[i] = a[i]
  BY <1>2, <1>4, <1>5
<1>7. t[Len(a) + 1] = tok
  BY <1>2, <1>3, <1>4, <1>5
<1>8. \A i \in 1 .. Len(b) : t[Len(a) + 1 + i] = b[i]
  BY <1>2, <1>4, <1>5
<1>9. Len(t) = Len(a) + 1 + Len(b)
  BY <1>4, <1>5
<1>10. Around(t, a, tok, b)
  BY <1>2, <1>5, <1>6, <1>7, <1>8, <1>9 DEF Around
<1>11. (a \o w) \o b = a \o (w \o b)
  BY <1>1
<1> QED  BY <1>10, <1>11 DEF t, c, w

\* What is before the token, and what is after it.
LEMMA AroundParts ==
  ASSUME NEW t, NEW a, NEW tok, NEW b, Around(t, a, tok, b)
  PROVE  Before(t, Len(a) + 1) = a /\ After(t, Len(a) + 1) = b
<1> DEFINE l == Len(a)
           r == Len(b)
<1>1. /\ t \in Seq(Token) /\ a \in Seq(Token) /\ b \in Seq(Token)
      /\ l \in Nat /\ r \in Nat /\ Len(t) = l + 1 + r
      /\ (\A i \in 1 .. l : t[i] = a[i])
      /\ \A i \in 1 .. r : t[l + 1 + i] = b[i]
  BY DEF Around
<1> HIDE DEF l, r
<1>2. SubSeq(t, 1, l) = a
  <2> DEFINE y == SubSeq(t, 1, l)
  <2>1. y \in Seq(Token) /\ Len(y) = l /\ \A i \in 1 .. l : y[i] = t[i]
    BY <1>1
  <2> HIDE DEF y
  <2>2. Len(y) = Len(a) /\ \A i \in 1 .. Len(y) : y[i] = a[i]
    BY <1>1, <2>1 DEF l
  <2>3. y = a
    BY <1>1, <2>1, <2>2, SeqEqual
  <2> QED  BY <2>3 DEF y
<1>3. SubSeq(t, l + 1 + 1, Len(t)) = b
  <2> DEFINE y == SubSeq(t, l + 1 + 1, Len(t))
  <2>1. y \in Seq(Token) /\ Len(y) = r /\ \A i \in 1 .. r : y[i] = t[l + 1 + i]
    BY <1>1
  <2> HIDE DEF y
  <2>2. Len(y) = Len(b) /\ \A i \in 1 .. Len(y) : y[i] = b[i]
    BY <1>1, <2>1 DEF r
  <2>3. y = b
    BY <1>1, <2>1, <2>2, SeqEqual
  <2> QED  BY <2>3 DEF y
<1>4. l + 1 - 1 = l
  BY <1>1
<1> QED  BY <1>2, <1>3, <1>4 DEF Before, After, l

\* A set of positions has a first one, and it is Min.
LEMMA LeastPosition ==
  ASSUME NEW S \in SUBSET Nat, S # {}
  PROVE  Min(S) \in S /\ \A y \in S : Min(S) <= y
<1>1. PICK x \in S : \A y \in S : ~(<<y, x>> \in OpToRel(<, Nat))
  BY WFMin, NatLessThanWellFounded
<1>2. \A y \in S : ~(y < x)
  BY <1>1 DEF OpToRel
<1>3. \E z \in S : \A y \in S : z <= y
  BY <1>2
<1> QED  BY <1>3 DEF Min

\* FirstAt is the first place of the token, or 0.
LEMMA FirstFacts ==
  ASSUME NEW s \in Seq(Token), NEW tok
  PROVE  \/ FirstAt(s, tok) = 0 /\ Free(s, tok)
         \/ /\ FirstAt(s, tok) \in 1 .. Len(s) /\ s[FirstAt(s, tok)] = tok
            /\ \A i \in 1 .. Len(s) : s[i] = tok => FirstAt(s, tok) <= i
<1> DEFINE I == {i \in 1 .. Len(s) : s[i] = tok}
           k == FirstAt(s, tok)
<1>1. k = IF I # {} THEN Min(I) ELSE 0
  BY DEF FirstAt, SelectInSeq
<1>2. CASE I = {}
  BY <1>1, <1>2 DEF Free
<1>3. CASE I # {}
  <2>1. \A i \in I : i \in Nat
    OBVIOUS
  <2>2. Min(I) \in I /\ \A y \in I : Min(I) <= y
    BY <1>3, <2>1, LeastPosition
  <2>3. k \in I /\ \A y \in I : k <= y
    BY <1>1, <1>3, <2>2
  <2> HIDE DEF k
  <2> QED  BY <2>3 DEF k
<1> QED  BY <1>2, <1>3

\* LastAt is the last place of the token, or 0.
LEMMA LastFacts ==
  ASSUME NEW s \in Seq(Token), NEW tok
  PROVE  \/ LastAt(s, tok) = 0 /\ Free(s, tok)
         \/ /\ LastAt(s, tok) \in 1 .. Len(s) /\ s[LastAt(s, tok)] = tok
            /\ \A i \in 1 .. Len(s) : s[i] = tok => i <= LastAt(s, tok)
<1> DEFINE I == {i \in 1 .. Len(s) : s[i] = tok}
           k == LastAt(s, tok)
<1>1. k = IF I # {} THEN Max(I) ELSE 0
  BY DEF LastAt, SelectLastInSeq
<1>2. CASE I = {}
  BY <1>1, <1>2 DEF Free
<1>3. CASE I # {}
  <2>1. Len(s) \in Nat /\ \A i \in I : i \in 0 .. Len(s)
    OBVIOUS
  <2>2. Max(I) \in I /\ \A y \in I : y <= Max(I)
    BY <1>3, <2>1, Greatest
  <2>3. k \in I /\ \A y \in I : y <= k
    BY <1>1, <1>3, <2>2
  <2> HIDE DEF k
  <2> QED  BY <2>3 DEF k
<1> QED  BY <1>2, <1>3

\* A text without the token.
LEMMA NotFound ==
  ASSUME NEW s \in Seq(Token), NEW tok, Free(s, tok)
  PROVE  FirstAt(s, tok) = 0 /\ LastAt(s, tok) = 0 /\ ~Contains(s, tok)
<1>1. FirstAt(s, tok) = 0
  BY FirstFacts DEF Free
<1>2. LastAt(s, tok) = 0
  BY LastFacts DEF Free
<1> QED  BY <1>1, <1>2 DEF Free, Contains

\* A text without the token, then the token: split_once finds the end of it.
LEMMA FoundFirst ==
  ASSUME NEW t, NEW a, NEW tok, NEW b, Around(t, a, tok, b), Free(a, tok)
  PROVE  FirstAt(t, tok) = Len(a) + 1
<1> DEFINE l == Len(a)
           k == FirstAt(t, tok)
<1>1. /\ t \in Seq(Token) /\ l \in Nat /\ Len(b) \in Nat /\ Len(t) = l + 1 + Len(b)
      /\ (\A i \in 1 .. l : t[i] = a[i]) /\ t[l + 1] = tok
  BY DEF Around
<1>2. \A i \in 1 .. l : a[i] # tok
  BY DEF Free
<1> HIDE DEF l
<1>3. \/ k = 0 /\ Free(t, tok)
      \/ /\ k \in 1 .. Len(t) /\ t[k] = tok
         /\ \A i \in 1 .. Len(t) : t[i] = tok => k <= i
  BY <1>1, FirstFacts
<1> HIDE DEF k
<1>4. l + 1 \in 1 .. Len(t)
  BY <1>1
<1>5. k \in 1 .. Len(t) /\ t[k] = tok /\ k <= l + 1
  BY <1>1, <1>3, <1>4 DEF Free
<1>6. ~(k \in 1 .. l)
  BY <1>1, <1>2, <1>5
<1>7. k = l + 1
  BY <1>1, <1>5, <1>6
<1> QED  BY <1>7 DEF k, l

\* The token, then a text without it: rsplit_once finds the beginning of it.
LEMMA FoundLast ==
  ASSUME NEW t, NEW a, NEW tok, NEW b, Around(t, a, tok, b), Free(b, tok)
  PROVE  LastAt(t, tok) = Len(a) + 1
<1> DEFINE l == Len(a)
           r == Len(b)
           k == LastAt(t, tok)
<1>1. /\ t \in Seq(Token) /\ l \in Nat /\ r \in Nat /\ Len(t) = l + 1 + r
      /\ t[l + 1] = tok /\ \A i \in 1 .. r : t[l + 1 + i] = b[i]
  BY DEF Around
<1>2. \A i \in 1 .. r : b[i] # tok
  BY DEF Free
<1> HIDE DEF l, r
<1>3. \/ k = 0 /\ Free(t, tok)
      \/ /\ k \in 1 .. Len(t) /\ t[k] = tok
         /\ \A i \in 1 .. Len(t) : t[i] = tok => i <= k
  BY <1>1, LastFacts
<1> HIDE DEF k
<1>4. l + 1 \in 1 .. Len(t)
  BY <1>1
<1>5. k \in 1 .. Len(t) /\ t[k] = tok /\ l + 1 <= k
  BY <1>1, <1>3, <1>4 DEF Free
<1>6. ASSUME k # l + 1
      PROVE  FALSE
  <2> DEFINE i == k - (l + 1)
  <2>1. i \in 1 .. r /\ l + 1 + i = k
    BY <1>1, <1>5, <1>6
  <2> HIDE DEF i
  <2> QED  BY <1>1, <1>2, <1>5, <2>1
<1> QED  BY <1>6 DEF k, l

\* A token that neither of two texts holds.
LEMMA FreeTogether ==
  ASSUME NEW a \in Seq(Token), NEW b \in Seq(Token), NEW tok, Free(a, tok), Free(b, tok)
  PROVE  Free(a \o b, tok)
<1> DEFINE c == a \o b
<1>1. /\ Len(c) = Len(a) + Len(b) /\ Len(a) \in Nat /\ Len(b) \in Nat
      /\ (\A i \in 1 .. Len(a) : c[i] = a[i])
      /\ \A i \in 1 .. Len(b) : c[Len(a) + i] = b[i]
  OBVIOUS
<1> HIDE DEF c
<1>2. ASSUME NEW i \in 1 .. Len(c)
      PROVE  c[i] # tok
  <2>1. CASE i <= Len(a)
    BY <1>1, <2>1 DEF Free
  <2>2. CASE i > Len(a)
    <3> DEFINE j == i - Len(a)
    <3>1. j \in 1 .. Len(b) /\ Len(a) + j = i
      BY <1>1, <2>2
    <3> HIDE DEF j
    <3> QED  BY <1>1, <3>1 DEF Free
  <2> QED  BY <1>1, <2>1, <2>2
<1> QED  BY <1>2 DEF Free, c

\* One word.
LEMMA OneWord ==
  ASSUME NEW w \in Token
  PROVE  /\ <<w>> \in Seq(Token) /\ Len(<<w>>) = 1 /\ <<w>>[1] = w
         /\ \A tok : w # tok => Free(<<w>>, tok)
  BY DEF Free

-----------------------------------------------------------------------------
(* Host and port *)

\* The host and the port as Written and addr write them.
HostText(host) == IF Contains(host, ":") THEN <<"[">> \o host \o <<"]">> ELSE host
PortText(port) == IF port = Absent THEN << >> ELSE <<":", Word(port)>>

\* The separators are tokens.
LEMMA SeparatorTokens ==
  /\ "//" \in Token /\ "?" \in Token /\ "@" \in Token /\ ":" \in Token
  /\ "[" \in Token /\ "]" \in Token /\ "&" \in Token /\ "db=" \in Token /\ "x" \in Token
  /\ \A scheme \in Schemes : scheme \in Token
  BY TokenAssumption DEF Separators

\* What is assumed of the numbers.
LEMMA NumberWords ==
  /\ \A v \in DOMAIN Numbers : v \in Token /\ v \notin Separators
  /\ \A n \in PortNumbers : n # Absent
  /\ 7687 \in PortNumbers
<1>1. \A v \in DOMAIN Numbers : v \in Token /\ v \notin Separators
  BY WordsAssumption
<1>2. Absent \notin PortNumbers
  BY NumbersAssumption
<1>3. 7687 \in PortNumbers
  BY NumbersAssumption
<1> QED  BY <1>1, <1>2, <1>3

\* A token, then a text.
LEMMA Led ==
  ASSUME NEW tok \in Token, NEW x \in Seq(Token)
  PROVE  /\ <<tok>> \o x \in Seq(Token) /\ <<tok>> \o x # << >>
         /\ (<<tok>> \o x)[1] = tok /\ Tail(<<tok>> \o x) = x
<1> DEFINE w == <<tok>>
           t == w \o x
<1>1. w \in Seq(Token) /\ Len(w) = 1 /\ w[1] = tok
  BY OneWord
<1> HIDE DEF w
<1>2. /\ t \in Seq(Token) /\ Len(t) = Len(w) + Len(x) /\ Len(x) \in Nat
      /\ (\A i \in 1 .. Len(w) : t[i] = w[i])
      /\ \A i \in 1 .. Len(x) : t[Len(w) + i] = x[i]
  <2>1. w \in Seq(Token)
    BY <1>1
  <2> QED  BY <2>1
<1> HIDE DEF t
<1>3. Len(t) = 1 + Len(x) /\ t[1] = tok /\ \A i \in 1 .. Len(x) : t[1 + i] = x[i]
  <2>1. 1 \in 1 .. Len(w)
    BY <1>1
  <2> QED  BY <1>1, <1>2, <2>1
<1>4. t # << >>
  BY <1>2, <1>3
<1> DEFINE y == Tail(t)
<1>5. y \in Seq(Token) /\ Len(y) = Len(x) /\ \A i \in 1 .. Len(x) : y[i] = t[i + 1]
  BY <1>2, <1>3, <1>4
<1> HIDE DEF y
<1>6. \A i \in 1 .. Len(y) : y[i] = x[i]
  <2> SUFFICES ASSUME NEW i \in 1 .. Len(y)
               PROVE  y[i] = x[i]
    OBVIOUS
  <2>1. i \in 1 .. Len(x) /\ i + 1 = 1 + i
    BY <1>2, <1>5
  <2> QED  BY <1>3, <1>5, <2>1
<1>7. y = x
  BY <1>5, <1>6, SeqEqual
<1> QED  BY <1>2, <1>3, <1>4, <1>7 DEF y, t, w

\* A port's word is read as the port.
LEMMA PortRead ==
  ASSUME NEW port \in PortNumbers
  PROVE  /\ Word(port) \in Token /\ Word(port) \notin Separators
         /\ parse_port(<<Word(port)>>) = Ok(port) /\ port # Absent
<1>1. \E w \in DOMAIN Numbers : Numbers[w] = port
  BY DEF PortNumbers
<1>2. Word(port) \in DOMAIN Numbers /\ Numbers[Word(port)] = port
  BY <1>1 DEF Word
<1>3. Word(port) \in Token /\ Word(port) \notin Separators /\ port # Absent
  BY <1>2, NumberWords
<1> DEFINE w == Word(port)
<1> HIDE DEF w
<1>4. Len(<<w>>) = 1 /\ <<w>>[1] = w
  OBVIOUS
<1>5. parse_port(<<w>>) = Ok(port)
  BY <1>2, <1>4 DEF parse_port, w
<1> QED  BY <1>3, <1>5 DEF w

\* The port's text.
LEMMA PortTexts ==
  ASSUME NEW port \in {Absent} \union PortNumbers
  PROVE  /\ PortText(port) \in Seq(Token)
         /\ \A tok \in Separators : tok # ":" => Free(PortText(port), tok)
         /\ port = Absent => PortText(port) = << >>
         /\ port # Absent => /\ PortText(port) = <<":">> \o <<Word(port)>>
                           /\ <<Word(port)>> \in Seq(Token) /\ Free(<<Word(port)>>, ":")
                           /\ parse_port(<<Word(port)>>) = Ok(port)
<1>1. CASE port = Absent
  <2>1. PortText(port) = << >>
    BY <1>1 DEF PortText
  <2>2. << >> \in Seq(Token) /\ \A tok : Free(<< >>, tok)
    BY DEF Free
  <2> QED  BY <1>1, <2>1, <2>2
<1>2. CASE port # Absent
  <2> DEFINE w == Word(port)
  <2>1. w \in Token /\ w \notin Separators /\ parse_port(<<w>>) = Ok(port)
    BY <1>2, PortRead
  <2>2. ":" \in Token /\ ":" \in Separators
    BY SeparatorTokens DEF Separators
  <2> HIDE DEF w
  <2>3. PortText(port) = <<":", w>>
    BY <1>2 DEF PortText, w
  <2>4. <<":", w>> = <<":">> \o <<w>>
    OBVIOUS
  <2>5. <<w>> \in Seq(Token) /\ \A tok \in Separators : Free(<<w>>, tok)
    BY <2>1, OneWord
  <2>6. <<":">> \in Seq(Token) /\ \A tok : tok # ":" => Free(<<":">>, tok)
    BY <2>2, OneWord
  <2>7. <<":">> \o <<w>> \in Seq(Token)
    BY <2>2, <2>5, Led
  <2>8. \A tok \in Separators : tok # ":" => Free(<<":">> \o <<w>>, tok)
    BY <2>5, <2>6, FreeTogether
  <2> QED  BY <1>2, <2>1, <2>2, <2>3, <2>4, <2>5, <2>7, <2>8 DEF w
<1> QED  BY <1>1, <1>2

\* split_host_port reads back what is written for a host and a port.
LEMMA HostPortRead ==
  ASSUME NEW host \in Seq(Token), host # << >>,
         Contains(host, ":") => Free(host, "]"),
         ~Contains(host, ":") => host[1] # "[",
         NEW port \in {Absent} \union PortNumbers
  PROVE  split_host_port(HostText(host) \o PortText(port)) = Ok([host |-> host, port |-> port])
<1> DEFINE P == PortText(port)
           s == HostText(host) \o P
           w == <<Word(port)>>
<1>1. /\ P \in Seq(Token)
      /\ port = Absent => P = << >>
      /\ port # Absent => /\ P = <<":">> \o w /\ w \in Seq(Token) /\ Free(w, ":")
                        /\ parse_port(w) = Ok(port)
  BY PortTexts
<1>2. "[" \in Token /\ "]" \in Token /\ ":" \in Token
  BY SeparatorTokens DEF Separators
<1> HIDE DEF P, w
<1>3. HostPort(host, Ok(port)) = Ok([host |-> host, port |-> port])
  BY DEF HostPort, Ok
<1>4. CASE Contains(host, ":")
  <2> DEFINE X == (host \o <<"]">>) \o P
  <2>1. Around(X, host, "]", P)
    BY <1>1, <1>2, AroundFacts
  <2>2. s = <<"[">> \o X
    <3> DEFINE l == <<"[">>
               r == <<"]">>
    <3>1. s = ((l \o host) \o r) \o P
      BY <1>4 DEF HostText
    <3>2. l \in Seq(Token) /\ r \in Seq(Token)
      BY <1>2, OneWord
    <3> HIDE DEF l, r, s
    <3>3. host \o r \in Seq(Token)
      BY <3>2
    <3>4. (l \o host) \o r = l \o (host \o r)
      BY <3>2, Regroup, Zenon
    <3>5. (l \o (host \o r)) \o P = l \o ((host \o r) \o P)
      <4>1. P \in Seq(Token)
        BY <1>1
      <4> DEFINE hr == host \o r
      <4>2. l \in Seq(Token) /\ hr \in Seq(Token)
        BY <3>2, <3>3
      <4> HIDE DEF hr, X
      <4>3. (l \o hr) \o P = l \o (hr \o P)
        BY <4>1, <4>2, Regroup, Zenon
      <4> QED  BY <4>3 DEF hr
    <3> QED  BY <3>1, <3>4, <3>5 DEF l, r
  <2>3. X \in Seq(Token)
    BY <2>1 DEF Around
  <2>4. FirstAt(X, "]") = Len(host) + 1 /\ Before(X, Len(host) + 1) = host
        /\ After(X, Len(host) + 1) = P /\ Len(host) + 1 # 0
    BY <1>4, <2>1, FoundFirst, AroundParts
  <2> HIDE DEF X
  <2>5. StartsWith(<<"[">> \o X, "[") /\ Tail(<<"[">> \o X) = X
    BY <1>2, <2>3, Led DEF StartsWith
  <2> DEFINE t == <<"[">> \o X
  <2> HIDE DEF t, s
  <2>6. split_host_port(s) = Bracketed(X)
    <3>1. StartsWith(t, "[") /\ Tail(t) = X
      BY <2>5 DEF t
    <3>2. split_host_port(t) = Bracketed(Tail(t))
      BY <3>1 DEF split_host_port
    <3> QED  BY <2>2, <3>1, <3>2 DEF t
  <2>7. CASE port = Absent
    <3>1. ~StartsWith(P, ":") /\ P = << >>
      BY <1>1, <2>7 DEF StartsWith
    <3>2. Bracketed(X) = HostPort(host, Ok(Absent))
      BY <2>4, <3>1 DEF Bracketed
    <3> QED  BY <1>3, <2>6, <2>7, <3>2 DEF s, P
  <2>8. CASE port # Absent
    <3>1. StartsWith(P, ":") /\ Tail(P) = w
      BY <1>1, <1>2, <2>8, Led DEF StartsWith
    <3>2. Bracketed(X) = HostPort(host, parse_port(w))
      BY <2>4, <3>1 DEF Bracketed
    <3> QED  BY <1>1, <1>3, <2>6, <2>8, <3>2 DEF s, P
  <2> QED  BY <2>7, <2>8
<1>5. CASE ~Contains(host, ":")
  <2>1. s = host \o P /\ host[1] # "[" /\ Free(host, ":")
    BY <1>5 DEF HostText, Contains, Free
  <2>2. s \in Seq(Token) /\ Len(host) \in Nat /\ Len(host) >= 1 /\ s[1] = host[1]
    <3> HIDE DEF s
    <3>1. Len(host) \in Nat /\ Len(host) >= 1
      OBVIOUS
    <3>2. host \o P \in Seq(Token) /\ \A i \in 1 .. Len(host) : (host \o P)[i] = host[i]
      BY <1>1
    <3> QED  BY <2>1, <3>1, <3>2
  <2> HIDE DEF s
  <2>3. ~StartsWith(s, "[")
    BY <2>1, <2>2 DEF StartsWith
  <2>4. CASE port = Absent
    <3>1. s = host
      BY <1>1, <2>1, <2>4
    <3>2. FirstAt(s, ":") = 0
      BY <2>1, <3>1, NotFound
    <3>3. split_host_port(s) = HostPort(s, Ok(Absent))
      BY <2>3, <3>2 DEF split_host_port
    <3> QED  BY <1>3, <2>4, <3>1, <3>3 DEF s, P
  <2>5. CASE port # Absent
    <3>1. s = (host \o <<":">>) \o w /\ Around((host \o <<":">>) \o w, host, ":", w)
      <4>1. w \in Seq(Token) /\ P = <<":">> \o w
        BY <1>1, <2>5
      <4>2. /\ Around((host \o <<":">>) \o w, host, ":", w)
            /\ (host \o <<":">>) \o w = host \o (<<":">> \o w)
        BY <1>2, <4>1, AroundFacts
      <4> QED  BY <2>1, <4>1, <4>2
    <3>2. FirstAt(s, ":") = Len(host) + 1 /\ Before(s, Len(host) + 1) = host
          /\ After(s, Len(host) + 1) = w /\ Len(host) + 1 # 0
      BY <2>1, <2>2, <3>1, FoundFirst, AroundParts
    <3>3. ~Contains(w, ":")
      BY <1>1, <2>5, NotFound
    <3>4. split_host_port(s) = HostPort(host, parse_port(w))
      BY <2>3, <3>2, <3>3 DEF split_host_port
    <3> QED  BY <1>1, <1>3, <2>5, <3>4 DEF s, P
  <2> QED  BY <2>4, <2>5
<1> QED  BY <1>4, <1>5

\* addr writes a host and a port as a URI does.
LEMMA AddrText ==
  ASSUME NEW c, c.host \in Seq(Token), c.port \in PortNumbers
  PROVE  addr(c) = HostText(c.host) \o PortText(c.port)
<1> DEFINE h == c.host
           n == c.port
           w == Word(n)
           x == <<":", w>>
<1>1. w \in Token /\ n # Absent
  BY PortRead
<1>2. "[" \in Token /\ "]" \in Token /\ ":" \in Token
  BY SeparatorTokens
<1>3. h \in Seq(Token)
  OBVIOUS
<1>4. PortText(n) = x
  BY <1>1 DEF PortText
<1>5. addr(c) = IF Contains(h, ":") THEN <<"[">> \o h \o <<"]", ":", w>> ELSE h \o x
  BY DEF addr
<1> HIDE DEF h, n, w
<1>6. x \in Seq(Token) /\ <<"]", ":", w>> = <<"]">> \o x
  BY <1>1, <1>2
<1>7. <<"[">> \in Seq(Token) /\ <<"]">> \in Seq(Token)
  BY <1>2, OneWord
<1> DEFINE l == <<"[">>
           r == <<"]">>
<1> HIDE DEF x, l, r
<1>8. l \o h \in Seq(Token)
  BY <1>3, <1>7 DEF l
<1>9. (l \o h) \o (r \o x) = ((l \o h) \o r) \o x
  <2>1. r \in Seq(Token)
    BY <1>7 DEF r
  <2> QED  BY <1>6, <1>8, <2>1, Regroup, Zenon
<1>10. addr(c) = HostText(h) \o x
  <2>1. CASE Contains(h, ":")
    <3>1. addr(c) = (l \o h) \o (r \o x)
      BY <1>5, <1>6, <2>1 DEF l, r
    <3>2. HostText(h) = (l \o h) \o r
      BY <2>1 DEF HostText, l, r
    <3> QED  BY <1>9, <3>1, <3>2
  <2>2. CASE ~Contains(h, ":")
    BY <1>5, <2>2 DEF HostText
  <2> QED  BY <2>1, <2>2
<1> QED  BY <1>4, <1>10 DEF h, n

\* What is cut out of a text is a text.
LEMMA Slices ==
  ASSUME NEW s \in Seq(Token), NEW k \in 0 .. Len(s)
  PROVE  /\ After(s, k) \in Seq(Token)
         /\ k # 0 => /\ Before(s, k) \in Seq(Token) /\ Len(Before(s, k)) = k - 1
                     /\ \A i \in 1 .. k - 1 : Before(s, k)[i] = s[i]
<1>1. SubSeq(s, k + 1, Len(s)) \in Seq(Token)
  OBVIOUS
<1>2. ASSUME k # 0
      PROVE  /\ SubSeq(s, 1, k - 1) \in Seq(Token) /\ Len(SubSeq(s, 1, k - 1)) = k - 1
             /\ \A i \in 1 .. k - 1 : SubSeq(s, 1, k - 1)[i] = s[i]
  BY <1>2
<1> QED  BY <1>1, <1>2 DEF Before, After

\* split_once leaves a first half without the separator.
LEMMA SplitOnce ==
  ASSUME NEW s \in Seq(Token), NEW tok
  PROVE  /\ FirstAt(s, tok) \in 0 .. Len(s)
         /\ After(s, FirstAt(s, tok)) \in Seq(Token)
         /\ FirstAt(s, tok) = 0 => Free(s, tok)
         /\ FirstAt(s, tok) # 0 => /\ Before(s, FirstAt(s, tok)) \in Seq(Token)
                                   /\ Free(Before(s, FirstAt(s, tok)), tok)
<1> DEFINE k == FirstAt(s, tok)
           b == Before(s, k)
<1>1. \/ k = 0 /\ Free(s, tok)
      \/ /\ k \in 1 .. Len(s) /\ s[k] = tok
         /\ \A i \in 1 .. Len(s) : s[i] = tok => k <= i
  BY FirstFacts
<1> HIDE DEF k
<1>2. k \in 0 .. Len(s)
  BY <1>1
<1>3. /\ After(s, k) \in Seq(Token)
      /\ k # 0 => b \in Seq(Token) /\ Len(b) = k - 1 /\ \A i \in 1 .. k - 1 : b[i] = s[i]
  BY <1>2, Slices
<1> HIDE DEF b
<1>4. ASSUME k # 0
      PROVE  Free(b, tok)
  <2> SUFFICES ASSUME NEW i \in 1 .. Len(b)
               PROVE  b[i] # tok
    BY DEF Free
  <2>1. i \in 1 .. k - 1 /\ i \in 1 .. Len(s) /\ ~(k <= i)
    BY <1>2, <1>3, <1>4
  <2> QED  BY <1>1, <1>3, <1>4, <2>1
<1>5. k = 0 => Free(s, tok)
  BY <1>1
<1> QED  BY <1>2, <1>3, <1>4, <1>5 DEF b, k

\* What split_host_port gives: a host, and no brackets to come in the way of
\* the ones addr puts around it.
Host(h) ==
  h \in Seq(Token) /\ h # << >> /\ (Contains(h, ":") => Free(h, "]"))

\* r is an error, or a host and a port.
Given(r) ==
  \/ r = Err
  \/ \E h \in Seq(Token), n \in {Absent} \union PortNumbers :
       Host(h) /\ r = Ok([host |-> h, port |-> n])

\* The ports parse_port gives.
LEMMA PortGives ==
  ASSUME NEW p
  PROVE  parse_port(p) = Err \/ \E n \in PortNumbers : parse_port(p) = Ok(n)
  BY DEF parse_port, PortNumbers

\* Of a host with a port.
LEMMA HostPortGives ==
  ASSUME NEW h \in Seq(Token), Contains(h, ":") => Free(h, "]"), NEW port,
         port = Err \/ \E n \in {Absent} \union PortNumbers : port = Ok(n)
  PROVE  Given(HostPort(h, port))
<1>1. CASE port = Err \/ h = << >>
  <2>1. HostPort(h, port) = Err
    BY <1>1 DEF HostPort, Err
  <2> QED  BY <2>1 DEF Given
<1>2. CASE port # Err /\ h # << >>
  <2>1. PICK n \in {Absent} \union PortNumbers : port = Ok(n)
    BY <1>2
  <2>2. port.ok /\ port.v = n
    BY <2>1 DEF Ok
  <2>3. HostPort(h, port) = Ok([host |-> h, port |-> n]) /\ Host(h)
    BY <1>2, <2>2 DEF HostPort, Host
  <2> QED  BY <2>3 DEF Given
<1> QED  BY <1>1, <1>2

\* Of any text.
LEMMA SplitGives ==
  ASSUME NEW s \in Seq(Token)
  PROVE  Given(split_host_port(s))
<1>1. Given(Err)
  BY DEF Given
<1>2. \A p : parse_port(p) = Err \/ \E n \in {Absent} \union PortNumbers : parse_port(p) = Ok(n)
  BY PortGives
<1>3. \E n \in {Absent} \union PortNumbers : Ok(Absent) = Ok(n)
  OBVIOUS
<1>4. CASE StartsWith(s, "[")
  <2> DEFINE t == Tail(s)
             k == FirstAt(t, "]")
             h == Before(t, k)
             after == After(t, k)
  <2>1. t \in Seq(Token)
    BY <1>4 DEF StartsWith
  <2>2. split_host_port(s) = Bracketed(t)
    BY <1>4 DEF split_host_port
  <2> HIDE DEF t
  <2>3. k # 0 => h \in Seq(Token) /\ Free(h, "]")
    BY <2>1, SplitOnce
  <2>4. Bracketed(t) = IF k = 0 THEN Err
                       ELSE IF StartsWith(after, ":") THEN HostPort(h, parse_port(Tail(after)))
                       ELSE IF after = << >> THEN HostPort(h, Ok(Absent))
                       ELSE Err
    BY DEF Bracketed
  <2> HIDE DEF k, h, after
  <2>5. ASSUME k # 0
        PROVE  Given(HostPort(h, parse_port(Tail(after)))) /\ Given(HostPort(h, Ok(Absent)))
    BY <1>2, <1>3, <2>3, <2>5, HostPortGives
  <2> QED  BY <1>1, <2>2, <2>4, <2>5
<1>5. CASE ~StartsWith(s, "[")
  <2> DEFINE k == FirstAt(s, ":")
             h == Before(s, k)
             after == After(s, k)
  <2>1. /\ k = 0 => Free(s, ":")
        /\ k # 0 => h \in Seq(Token) /\ Free(h, ":")
    BY SplitOnce
  <2>2. split_host_port(s) = IF k = 0 THEN HostPort(s, Ok(Absent))
                             ELSE IF Contains(after, ":") THEN Err
                             ELSE HostPort(h, parse_port(after))
    BY <1>5 DEF split_host_port
  <2> HIDE DEF k, h, after
  <2>3. ASSUME k = 0
        PROVE  Given(HostPort(s, Ok(Absent)))
    <3>1. ~Contains(s, ":")
      BY <2>1, <2>3, NotFound
    <3> QED  BY <1>3, <3>1, HostPortGives
  <2>4. ASSUME k # 0
        PROVE  Given(HostPort(h, parse_port(after)))
    <3>1. h \in Seq(Token) /\ ~Contains(h, ":")
      BY <2>1, <2>4, NotFound
    <3> QED  BY <1>2, <3>1, HostPortGives
  <2> QED  BY <1>1, <2>2, <2>3, <2>4
<1> QED  BY <1>4, <1>5

\* What from_uri accepts has a host, and a port that is not Absent.
LEMMA Accepted ==
  ASSUME NEW t \in Seq(Token), from_uri(t).ok
  PROVE  Host(from_uri(t).v.host) /\ from_uri(t).v.port \in PortNumbers
<1> DEFINE text == After(t, 3)
           q    == FirstAt(text, "?")
           rest == IF q = 0 THEN text ELSE Before(text, q)
           at   == Userinfo(rest)
           auth == IF at = 0 THEN Ok(Absent) ELSE Basic(Before(rest, at))
           hp   == split_host_port(After(rest, at))
           db   == IF q = 0 THEN Absent ELSE Db(After(text, q))
           n    == IF hp.v.port = Absent THEN 7687 ELSE hp.v.port
           c    == [scheme |-> t[1], auth |-> auth.v, host |-> hp.v.host, port |-> n, db |-> db]
<1>1. from_uri(t) = IF ~HasScheme(t) \/ ~auth.ok \/ ~hp.ok THEN Err ELSE Ok(c)
  BY DEF from_uri
<1> HIDE DEF text, db, auth, hp, c
<1>2. text \in Seq(Token)
  <2>1. HasScheme(t)
    BY <1>1 DEF Err
  <2>2. 3 \in 0 .. Len(t)
    BY <2>1 DEF HasScheme
  <2> QED  BY <2>2, Slices DEF text
<1> USE DEF auth, hp, c
<1>3. q # 0 => Before(text, q) \in Seq(Token)
  BY <1>2, SplitOnce
<1> HIDE DEF q
<1>4. rest \in Seq(Token)
  BY <1>2, <1>3
<1> HIDE DEF rest
<1>5. at \in 0 .. Len(rest)
  <2>1. LastAt(rest, "@") \in 0 .. Len(rest)
    <3> DEFINE k == LastAt(rest, "@")
    <3>1. k = 0 \/ k \in 1 .. Len(rest)
      BY <1>4, LastFacts
    <3>2. Len(rest) \in Nat
      BY <1>4
    <3> HIDE DEF k
    <3>3. k \in 0 .. Len(rest)
      BY <3>1, <3>2
    <3> QED  BY <3>3 DEF k
  <2> QED  BY <2>1 DEF Userinfo
<1> HIDE DEF at, auth
<1>6. After(rest, at) \in Seq(Token)
  BY <1>4, <1>5, Slices
<1>7. Given(hp)
  BY <1>6, SplitGives
<1> HIDE DEF hp, c
<1>8. from_uri(t) = Ok(c) /\ hp.ok
  BY <1>1 DEF Err
<1>9. PICK h \in Seq(Token), m \in {Absent} \union PortNumbers :
        Host(h) /\ hp = Ok([host |-> h, port |-> m])
  <2>1. hp # Err
    BY <1>8 DEF Err
  <2> QED  BY <1>7, <2>1 DEF Given
<1>10. hp.v = [host |-> h, port |-> m]
  BY <1>9 DEF Ok
<1>11. hp.v.host = h /\ hp.v.port = m
  BY <1>10
<1>12. n \in PortNumbers
  BY <1>11, NumberWords
<1> HIDE DEF n
<1>13. c.host = h /\ c.port = n
  BY <1>11 DEF c
<1>14. from_uri(t).v = c
  BY <1>8 DEF Ok
<1> QED  BY <1>9, <1>12, <1>13, <1>14

\* The address of an accepted URI is split into the host it was made of.
LEMMA SeedSplit ==
  ASSUME NEW c, Host(c.host), c.port \in PortNumbers, ~Contains(c.host, "[")
  PROVE  PoolDials(c, addr(c)) = dial(tls(c.scheme), addr(c), c.host, c.auth)
<1> DEFINE h == c.host
           n == c.port
<1>1. /\ h \in Seq(Token) /\ h # << >> /\ (Contains(h, ":") => Free(h, "]"))
      /\ n \in {Absent} \union PortNumbers /\ ~Contains(h, "[")
  BY DEF Host
<1>2. addr(c) = HostText(h) \o PortText(n)
  BY <1>1, AddrText
<1> HIDE DEF h, n
<1>3. h[1] # "["
  <2>1. 1 \in 1 .. Len(h)
    BY <1>1
  <2> QED  BY <1>1, <2>1 DEF Contains
<1>4. split_host_port(HostText(h) \o PortText(n)) = Ok([host |-> h, port |-> n])
  BY <1>1, <1>3, HostPortRead
<1> DEFINE hp == split_host_port(addr(c))
<1>5. hp = Ok([host |-> h, port |-> n])
  BY <1>2, <1>4
<1>6. PoolDials(c, addr(c)) =
        IF hp.ok THEN dial(tls(c.scheme), addr(c), hp.v.host, c.auth) ELSE Err
  BY DEF PoolDials
<1> HIDE DEF hp
<1>7. hp.ok /\ hp.v.host = h
  BY <1>5 DEF Ok
<1> QED  BY <1>6, <1>7 DEF h

-----------------------------------------------------------------------------
(* A URI written from parts *)

\* What the parts of a URI are.
AuthPart(a) ==
  \/ a = Absent
  \/ \E user \in Seq(Token), pass \in Seq(Token) :
       /\ a = [user |-> user, pass |-> pass]
       /\ Free(user, ":") /\ Free(user, "?") /\ Free(pass, "?")

HostPart(h) ==
  h \in Seq(Token) /\ h # << >> /\ Free(h, "@") /\ Free(h, "?") /\ Free(h, "[") /\ Free(h, "]")

DbPart(d) == d = Absent \/ (d \in Seq(Token) /\ Free(d, "&"))

\* Of a text without some tokens.
LEMMA TextFree ==
  ASSUME NEW F, NEW s \in Text(F)
  PROVE  s \in Seq(Token) /\ \A tok \in F : Free(s, tok)
<1>1. s \in Seq(Token) /\ \A k \in DOMAIN s : s[k] \notin F
  BY DEF Text
<1>2. DOMAIN s = 1 .. Len(s)
  BY <1>1
<1> QED  BY <1>1, <1>2 DEF Free

\* Of the parts.
LEMMA PartsAre ==
  ASSUME NEW p \in Parts
  PROVE  /\ p.scheme \in Schemes /\ AuthPart(p.auth) /\ HostPart(p.host)
         /\ p.port \in {Absent} \union PortNumbers /\ DbPart(p.db)
         /\ p = [scheme |-> p.scheme, auth |-> p.auth, host |-> p.host,
                 port |-> p.port, db |-> p.db]
<1> DEFINE Users  == Text({":", "?"})
           Passes == Text({"?"})
           Hosts  == Text({"@", "?", "[", "]"})
           Dbs    == Text({"&"})
           Auths  == [user : Users, pass : Passes]
           Ports  == {Absent} \union PortNumbers
<1>1. p \in [scheme : Schemes, auth : {Absent} \union Auths, host : Hosts \ {<< >>},
             port : Ports, db : {Absent} \union Dbs]
  BY UriAssumption
<1>2. ASSUME NEW u \in Users
      PROVE  u \in Seq(Token) /\ Free(u, ":") /\ Free(u, "?")
  BY TextFree
<1>3. ASSUME NEW u \in Passes
      PROVE  u \in Seq(Token) /\ Free(u, "?")
  BY TextFree
<1>4. ASSUME NEW u \in Hosts
      PROVE  u \in Seq(Token) /\ Free(u, "@") /\ Free(u, "?") /\ Free(u, "[") /\ Free(u, "]")
  BY TextFree
<1>5. ASSUME NEW u \in Dbs
      PROVE  u \in Seq(Token) /\ Free(u, "&")
  BY TextFree
<1> HIDE DEF Users, Passes, Hosts, Dbs, Ports
<1>6. ASSUME NEW a \in Auths
      PROVE  AuthPart(a)
  <2>1. a.user \in Users /\ a.pass \in Passes /\ a = [user |-> a.user, pass |-> a.pass]
    OBVIOUS
  <2>2. /\ a.user \in Seq(Token) /\ a.pass \in Seq(Token)
        /\ Free(a.user, ":") /\ Free(a.user, "?") /\ Free(a.pass, "?")
    BY <1>2, <1>3, <2>1
  <2> QED  BY <2>1, <2>2 DEF AuthPart
<1> HIDE DEF Auths
<1>7. /\ p.scheme \in Schemes /\ p.auth \in {Absent} \union Auths /\ p.host \in Hosts \ {<< >>}
      /\ p.port \in Ports /\ p.db \in {Absent} \union Dbs
      /\ p = [scheme |-> p.scheme, auth |-> p.auth, host |-> p.host,
              port |-> p.port, db |-> p.db]
  BY <1>1
<1>8. AuthPart(p.auth)
  <2>1. CASE p.auth = Absent
    BY <2>1 DEF AuthPart
  <2>2. CASE p.auth \in Auths
    BY <1>6, <2>2
  <2> QED  BY <1>7, <2>1, <2>2
<1>9. HostPart(p.host)
  <2>1. p.host \in Hosts /\ p.host # << >>
    BY <1>7
  <2> QED  BY <1>4, <2>1 DEF HostPart
<1>10. DbPart(p.db)
  BY <1>5, <1>7 DEF DbPart
<1> QED  BY <1>7, <1>8, <1>9, <1>10 DEF Ports

\* The text of the userinfo, and of the query.
AuthText(auth) == IF auth = Absent THEN << >> ELSE auth.user \o <<":">> \o auth.pass \o <<"@">>
DbText(db) == IF db = Absent THEN << >> ELSE <<"?", "x", "&", "db=">> \o db

\* The host's text holds no token that the host does not hold but brackets.
LEMMA HostTexts ==
  ASSUME NEW h \in Seq(Token)
  PROVE  /\ HostText(h) \in Seq(Token)
         /\ \A tok : Free(h, tok) /\ tok # "[" /\ tok # "]" => Free(HostText(h), tok)
<1> DEFINE l == <<"[">>
           r == <<"]">>
<1>1. /\ l \in Seq(Token) /\ r \in Seq(Token)
      /\ (\A tok : tok # "[" => Free(l, tok)) /\ \A tok : tok # "]" => Free(r, tok)
  <2>1. "[" \in Token /\ "]" \in Token
    BY SeparatorTokens
  <2> QED  BY <2>1, OneWord
<1> HIDE DEF l, r
<1>2. HostText(h) = IF Contains(h, ":") THEN (l \o h) \o r ELSE h
  BY DEF HostText, l, r
<1>3. l \o h \in Seq(Token)
  BY <1>1
<1>4. (l \o h) \o r \in Seq(Token)
  BY <1>1, <1>3
<1>5. ASSUME NEW tok, Free(h, tok), tok # "[", tok # "]"
      PROVE  Free((l \o h) \o r, tok)
  <2>1. Free(l, tok) /\ Free(r, tok)
    BY <1>1, <1>5
  <2>2. Free(l \o h, tok)
    BY <1>1, <1>5, <2>1, FreeTogether
  <2> QED  BY <1>1, <1>3, <2>1, <2>2, FreeTogether
<1> QED  BY <1>2, <1>4, <1>5

\* The userinfo is a text, and holds no question mark.
LEMMA AuthTexts ==
  ASSUME NEW auth, AuthPart(auth)
  PROVE  /\ AuthText(auth) \in Seq(Token) /\ Free(AuthText(auth), "?")
         /\ auth = Absent => AuthText(auth) = << >>
         /\ auth # Absent =>
              \E u \in Seq(Token) : AuthText(auth) = u \o <<"@">> /\ Basic(u) = Ok(auth)
<1>1. CASE auth = Absent
  <2>1. AuthText(auth) = << >>
    BY <1>1 DEF AuthText
  <2>2. << >> \in Seq(Token) /\ Free(<< >>, "?")
    BY DEF Free
  <2> QED  BY <1>1, <2>1, <2>2
<1>2. CASE auth # Absent
  <2>1. PICK user \in Seq(Token), pass \in Seq(Token) :
          /\ auth = [user |-> user, pass |-> pass]
          /\ Free(user, ":") /\ Free(user, "?") /\ Free(pass, "?")
    BY <1>2 DEF AuthPart
  <2> DEFINE colon == <<":">>
             ends == <<"@">>
             u == (user \o colon) \o pass
  <2>2. ":" \in Token /\ "@" \in Token
    BY SeparatorTokens
  <2>3. /\ colon \in Seq(Token) /\ Free(colon, "?") /\ ends \in Seq(Token) /\ Free(ends, "?")
    BY <2>2, OneWord
  <2>4. Around(u, user, ":", pass)
    BY <2>2, AroundFacts
  <2>5. AuthText(auth) = u \o ends
    BY <1>2, <2>1 DEF AuthText
  <2> HIDE DEF colon, ends
  <2>6. user \o colon \in Seq(Token) /\ Free(user \o colon, "?")
    BY <2>1, <2>3, FreeTogether
  <2>7. Free(u, "?")
    BY <2>1, <2>6, FreeTogether
  <2>8. u \in Seq(Token)
    BY <2>4 DEF Around
  <2>9. FirstAt(u, ":") = Len(user) + 1
    BY <2>1, <2>4, FoundFirst
  <2>10. Before(u, Len(user) + 1) = user /\ After(u, Len(user) + 1) = pass
    BY <2>4, AroundParts
  <2>11. Len(user) + 1 # 0
    OBVIOUS
  <2> HIDE DEF u
  <2>12. Basic(u) = Ok(auth)
    BY <2>1, <2>9, <2>10, <2>11 DEF Basic
  <2>13. u \o ends \in Seq(Token) /\ Free(u \o ends, "?")
    BY <2>3, <2>7, <2>8, FreeTogether
  <2> QED  BY <1>2, <2>5, <2>8, <2>12, <2>13 DEF ends
<1> QED  BY <1>1, <1>2

\* The database is found in the query.
LEMMA DbRead ==
  ASSUME NEW db \in Seq(Token), Free(db, "&")
  PROVE  /\ (<<"x", "&">> \o <<"db=">>) \o db \in Seq(Token)
         /\ Db((<<"x", "&">> \o <<"db=">>) \o db) = db
<1> DEFINE a == <<"x", "&">>
           Q == (a \o <<"db=">>) \o db
           starts == {k \in DOMAIN Q : Q[k] = "db=" /\ (k = 1 \/ Q[k - 1] = "&")}
           from == CHOOSE k \in starts : \A j \in starts : k <= j
           value == After(Q, from)
           end == FirstAt(value, "&")
<1>1. "x" \in Token /\ "&" \in Token /\ "db=" \in Token
  BY SeparatorTokens
<1>2. a \in Seq(Token) /\ Len(a) = 2 /\ a[1] = "x" /\ a[2] = "&"
  BY <1>1
<1> HIDE DEF a
<1>3. Around(Q, a, "db=", db)
  BY <1>1, <1>2, AroundFacts
<1>4. Db(Q) = IF starts = {} THEN Absent ELSE IF end = 0 THEN value ELSE Before(value, end)
  BY DEF Db
<1> HIDE DEF Q
<1>5. /\ Q \in Seq(Token) /\ Len(db) \in Nat /\ Len(Q) = 3 + Len(db)
      /\ Q[1] = "x" /\ Q[2] = "&" /\ Q[3] = "db="
  <2>1. /\ Q \in Seq(Token) /\ Len(db) \in Nat /\ Len(Q) = Len(a) + 1 + Len(db)
        /\ (\A i \in 1 .. Len(a) : Q[i] = a[i]) /\ Q[Len(a) + 1] = "db="
    BY <1>3 DEF Around
  <2>2. 1 \in 1 .. Len(a) /\ 2 \in 1 .. Len(a) /\ Len(a) + 1 = 3
    BY <1>2
  <2> QED  BY <1>2, <2>1, <2>2
<1>6. After(Q, 3) = db
  <2>1. Len(a) + 1 = 3
    BY <1>2
  <2> QED  BY <1>3, <2>1, AroundParts
<1>7. DOMAIN Q = 1 .. Len(Q)
  BY <1>5
<1>8. 3 \in starts /\ \A j \in starts : 3 <= j
  <2>1. 3 \in DOMAIN Q
    BY <1>5, <1>7
  <2>2. 3 \in starts
    BY <1>5, <2>1
  <2>3. ASSUME NEW j \in starts
        PROVE  3 <= j
    <3>1. j \in 1 .. Len(Q) /\ Q[j] = "db="
      BY <1>7
    <3>2. j # 1 /\ j # 2
      BY <1>5, <3>1
    <3> QED  BY <1>5, <3>1, <3>2
  <2> QED  BY <2>2, <2>3
<1>9. \A k \in starts : k \in Nat
  BY <1>5, <1>7
<1> HIDE DEF starts
<1>10. from = 3
  <2>1. from \in starts /\ \A j \in starts : from <= j
    BY <1>8
  <2> HIDE DEF from
  <2> QED  BY <1>8, <1>9, <2>1
<1>11. value = db
  BY <1>6, <1>10
<1>12. end = 0
  BY <1>11, NotFound
<1>13. Db(Q) = db
  BY <1>4, <1>8, <1>11, <1>12
<1> QED  BY <1>5, <1>13 DEF Q, a

\* from_uri cuts the query off, and reads the database in it.
LEMMA QueryRead ==
  ASSUME NEW R \in Seq(Token), Free(R, "?"), NEW db, DbPart(db)
  PROVE  LET T == R \o DbText(db)
             q == FirstAt(T, "?")
         IN  /\ DbText(db) \in Seq(Token)
             /\ (IF q = 0 THEN T ELSE Before(T, q)) = R
             /\ (IF q = 0 THEN Absent ELSE Db(After(T, q))) = db
<1> DEFINE D == DbText(db)
           T == R \o D
           q == FirstAt(T, "?")
<1>1. CASE db = Absent
  <2>1. D = << >>
    BY <1>1 DEF DbText
  <2>2. T = R /\ << >> \in Seq(Token)
    BY <2>1
  <2>3. q = 0
    BY <2>2, NotFound
  <2> QED  BY <1>1, <2>1, <2>2, <2>3
<1>2. CASE db # Absent
  <2> DEFINE Q == (<<"x", "&">> \o <<"db=">>) \o db
  <2>1. db \in Seq(Token) /\ Free(db, "&")
    BY <1>2 DEF DbPart
  <2>2. Q \in Seq(Token) /\ Db(Q) = db
    BY <2>1, DbRead
  <2>3. "?" \in Token /\ "x" \in Token /\ "&" \in Token /\ "db=" \in Token
    BY SeparatorTokens
  <2>4. D = <<"?">> \o Q
    <3> DEFINE a == <<"x", "&">> \o <<"db=">>
               m == <<"?">>
    <3>1. <<"?", "x", "&", "db=">> = m \o a /\ m \in Seq(Token) /\ a \in Seq(Token)
      BY <2>3
    <3>2. D = <<"?", "x", "&", "db=">> \o db
      BY <1>2 DEF DbText
    <3> HIDE DEF m, a
    <3>3. (m \o a) \o db = m \o (a \o db)
      BY <2>1, <3>1, Regroup, Zenon
    <3>4. D = m \o (a \o db)
      BY <3>1, <3>2, <3>3
    <3> QED  BY <3>4 DEF m, a
  <2> HIDE DEF Q
  <2>5. Around((R \o <<"?">>) \o Q, R, "?", Q) /\ (R \o <<"?">>) \o Q = R \o (<<"?">> \o Q)
    BY <2>2, <2>3, AroundFacts
  <2>6. T = (R \o <<"?">>) \o Q /\ D \in Seq(Token)
    <3>1. <<"?">> \o Q \in Seq(Token)
      BY <2>2, <2>3, Led
    <3> QED  BY <2>4, <2>5, <3>1
  <2> HIDE DEF T, D
  <2>7. Around(T, R, "?", Q)
    BY <2>5, <2>6
  <2>8. q = Len(R) + 1 /\ Before(T, Len(R) + 1) = R /\ After(T, Len(R) + 1) = Q
    BY <2>7, FoundFirst, AroundParts
  <2>9. Len(R) + 1 # 0
    OBVIOUS
  <2> HIDE DEF q
  <2>10. /\ (IF q = 0 THEN T ELSE Before(T, q)) = R
         /\ (IF q = 0 THEN Absent ELSE Db(After(T, q))) = db
    BY <2>2, <2>8, <2>9
  <2> QED  BY <2>6, <2>10 DEF q, T, D
<1> QED  BY <1>1, <1>2

\* from_uri cuts the userinfo off, and splits it.
LEMMA UserRead ==
  ASSUME NEW auth, AuthPart(auth), NEW hp \in Seq(Token), Free(hp, "@")
  PROVE  LET R  == AuthText(auth) \o hp
             at == Userinfo(R)
         IN  /\ (IF at = 0 THEN Ok(Absent) ELSE Basic(Before(R, at))) = Ok(auth)
             /\ After(R, at) = hp
<1> DEFINE A  == AuthText(auth)
           R  == A \o hp
           at == Userinfo(R)
<1>1. at = LastAt(R, "@")
  BY DEF Userinfo
<1>2. CASE auth = Absent
  <2>1. A = << >>
    BY <1>2, AuthTexts
  <2>2. R = hp
    BY <2>1
  <2> HIDE DEF R
  <2>3. LastAt(R, "@") = 0
    BY <2>2, NotFound
  <2>4. After(hp, 0) = hp
    <3> DEFINE y == SubSeq(hp, 0 + 1, Len(hp))
    <3>1. y \in Seq(Token) /\ Len(y) = Len(hp) /\ \A i \in 1 .. Len(y) : y[i] = hp[i]
      OBVIOUS
    <3> HIDE DEF y
    <3>2. y = hp
      BY <3>1, SeqEqual
    <3> QED  BY <3>2 DEF y, After
  <2>5. at = 0
    BY <1>1, <2>3
  <2> HIDE DEF at
  <2>6. /\ (IF at = 0 THEN Ok(Absent) ELSE Basic(Before(R, at))) = Ok(auth)
        /\ After(R, at) = hp
    BY <1>2, <2>2, <2>4, <2>5
  <2> QED  BY <2>6 DEF at, R, A
<1>3. CASE auth # Absent
  <2>1. PICK u \in Seq(Token) : A = u \o <<"@">> /\ Basic(u) = Ok(auth)
    BY <1>3, AuthTexts
  <2>2. "@" \in Token
    BY SeparatorTokens
  <2>3. R = (u \o <<"@">>) \o hp
    BY <2>1
  <2> HIDE DEF R
  <2>4. Around(R, u, "@", hp)
    BY <2>2, <2>3, AroundFacts
  <2>5. LastAt(R, "@") = Len(u) + 1 /\ Before(R, Len(u) + 1) = u /\ After(R, Len(u) + 1) = hp
    BY <2>4, FoundLast, AroundParts
  <2>6. Len(u) + 1 # 0
    OBVIOUS
  <2>7. at = Len(u) + 1
    BY <1>1, <2>5
  <2> HIDE DEF at
  <2>8. /\ (IF at = 0 THEN Ok(Absent) ELSE Basic(Before(R, at))) = Ok(auth)
        /\ After(R, at) = hp
    BY <2>1, <2>5, <2>6, <2>7
  <2> QED  BY <2>8 DEF at, R, A
<1> QED  BY <1>2, <1>3

\* The text of a URI, in the order in which from_uri takes it apart.
LEMMA WrittenText ==
  ASSUME NEW p \in Parts
  PROVE  LET HP == HostText(p.host) \o PortText(p.port)
             R  == AuthText(p.auth) \o HP
             T  == R \o DbText(p.db)
         IN  /\ HP \in Seq(Token) /\ Free(HP, "@")
             /\ R \in Seq(Token) /\ Free(R, "?")
             /\ Around(Written(p), <<p.scheme, ":">>, "//", T)
<1> DEFINE A  == AuthText(p.auth)
           H  == HostText(p.host)
           N  == PortText(p.port)
           D  == DbText(p.db)
           HP == H \o N
           R  == A \o HP
           T  == R \o D
           x  == <<p.scheme, ":">>
           y  == <<"//">>
           X  == <<p.scheme, ":", "//">>
<1>1. /\ p.scheme \in Schemes /\ AuthPart(p.auth) /\ HostPart(p.host)
      /\ p.port \in {Absent} \union PortNumbers /\ DbPart(p.db)
  BY PartsAre
<1>2. A \in Seq(Token) /\ Free(A, "?")
  BY <1>1, AuthTexts
<1>3. H \in Seq(Token) /\ Free(H, "?") /\ Free(H, "@")
  <2>1. p.host \in Seq(Token) /\ Free(p.host, "?") /\ Free(p.host, "@")
    BY <1>1 DEF HostPart
  <2> QED  BY <2>1, HostTexts
<1>4. N \in Seq(Token) /\ Free(N, "?") /\ Free(N, "@")
  <2>1. "?" \in Separators /\ "@" \in Separators
    BY DEF Separators
  <2> QED  BY <1>1, <2>1, PortTexts
<1>5. p.scheme \in Token /\ ":" \in Token /\ "//" \in Token
  BY <1>1, SeparatorTokens
<1>6. Written(p) = (((X \o A) \o H) \o N) \o D
  BY DEF Written, AuthText, HostText, PortText, DbText
<1>7. X = x \o y /\ X \in Seq(Token)
  BY <1>5
<1> HIDE DEF A, H, N, X
<1>8. HP \in Seq(Token) /\ Free(HP, "?") /\ Free(HP, "@")
  BY <1>3, <1>4, FreeTogether
<1>9. R \in Seq(Token) /\ Free(R, "?")
  <2> HIDE DEF HP
  <2> QED  BY <1>2, <1>8, FreeTogether
<1>10. D \in Seq(Token)
  <2> HIDE DEF R
  <2> QED  BY <1>1, <1>9, QueryRead
<1> HIDE DEF D
<1>11. T \in Seq(Token)
  <2> HIDE DEF R
  <2> QED  BY <1>9, <1>10
<1>12. (((X \o A) \o H) \o N) \o D = X \o T
  <2>1. X \o A \in Seq(Token)
    BY <1>2, <1>7
  <2>2. ((X \o A) \o H) \o N = (X \o A) \o HP
    <3> DEFINE XA == X \o A
    <3> HIDE DEF XA
    <3>1. (XA \o H) \o N = XA \o (H \o N)
      BY <1>3, <1>4, <2>1, Regroup, Zenon DEF XA
    <3> QED  BY <3>1 DEF XA
  <2> HIDE DEF HP
  <2>3. (X \o A) \o HP = X \o R
    BY <1>2, <1>7, <1>8, Regroup, Zenon
  <2> HIDE DEF R
  <2>4. (X \o R) \o D = X \o T
    BY <1>7, <1>9, <1>10, Regroup, Zenon
  <2> QED  BY <2>2, <2>3, <2>4
<1> HIDE DEF T
<1>13. Around((x \o y) \o T, x, "//", T)
  <2>1. x \in Seq(Token)
    BY <1>5
  <2> HIDE DEF x
  <2> QED  BY <1>5, <1>11, <2>1, AroundFacts
<1>14. Around(Written(p), x, "//", T)
  BY <1>6, <1>7, <1>12, <1>13
<1> QED  BY <1>8, <1>9, <1>14 DEF T, R, HP, D, N, H, A

\* It is a text.
LEMMA WrittenIsText ==
  ASSUME NEW p \in Parts
  PROVE  Written(p) \in Seq(Token)
  BY WrittenText DEF Around

\* from_uri gives back the parts.
LEMMA ParseWritten ==
  ASSUME NEW p \in Parts
  PROVE  /\ Written(p) \in Seq(Token)
         /\ from_uri(Written(p)) = Ok([p EXCEPT !.port = IF @ = Absent THEN 7687 ELSE @])
<1> DEFINE W    == Written(p)
           HP   == HostText(p.host) \o PortText(p.port)
           R    == AuthText(p.auth) \o HP
           T    == R \o DbText(p.db)
           text == After(W, 3)
           q    == FirstAt(text, "?")
           rest == IF q = 0 THEN text ELSE Before(text, q)
           at   == Userinfo(rest)
           auth == IF at = 0 THEN Ok(Absent) ELSE Basic(Before(rest, at))
           hp   == split_host_port(After(rest, at))
           db   == IF q = 0 THEN Absent ELSE Db(After(text, q))
           n    == IF hp.v.port = Absent THEN 7687 ELSE hp.v.port
           c    == [scheme |-> W[1], auth |-> auth.v, host |-> hp.v.host, port |-> n, db |-> db]
           m    == IF p.port = Absent THEN 7687 ELSE p.port
<1>1. /\ p.scheme \in Schemes /\ AuthPart(p.auth) /\ HostPart(p.host)
      /\ p.port \in {Absent} \union PortNumbers /\ DbPart(p.db)
      /\ p = [scheme |-> p.scheme, auth |-> p.auth, host |-> p.host,
              port |-> p.port, db |-> p.db]
  BY PartsAre
<1>2. /\ HP \in Seq(Token) /\ Free(HP, "@")
      /\ R \in Seq(Token) /\ Free(R, "?")
      /\ Around(W, <<p.scheme, ":">>, "//", T)
  BY WrittenText
<1>3. from_uri(W) = IF ~HasScheme(W) \/ ~auth.ok \/ ~hp.ok THEN Err ELSE Ok(c)
  BY DEF from_uri
<1>4. /\ (IF FirstAt(T, "?") = 0 THEN T ELSE Before(T, FirstAt(T, "?"))) = R
      /\ (IF FirstAt(T, "?") = 0 THEN Absent ELSE Db(After(T, FirstAt(T, "?")))) = p.db
  <2> HIDE DEF R
  <2> QED  BY <1>1, <1>2, QueryRead
<1>5. /\ (IF Userinfo(R) = 0 THEN Ok(Absent) ELSE Basic(Before(R, Userinfo(R)))) = Ok(p.auth)
      /\ After(R, Userinfo(R)) = HP
  <2> HIDE DEF HP
  <2> QED  BY <1>1, <1>2, UserRead
<1>6. split_host_port(HP) = Ok([host |-> p.host, port |-> p.port])
  <2>1. /\ p.host \in Seq(Token) /\ p.host # << >> /\ Free(p.host, "]") /\ Free(p.host, "[")
    BY <1>1 DEF HostPart
  <2>2. p.host[1] # "["
    <3>1. 1 \in 1 .. Len(p.host)
      BY <2>1
    <3> QED  BY <2>1, <3>1 DEF Free
  <2> QED  BY <1>1, <2>1, <2>2, HostPortRead
<1> HIDE DEF W, HP, R, T
<1>7. W \in Seq(Token) /\ HasScheme(W) /\ W[1] = p.scheme /\ text = T
  <2> DEFINE x == <<p.scheme, ":">>
  <2>1. Len(x) = 2 /\ x[1] = p.scheme /\ x[2] = ":"
    OBVIOUS
  <2> HIDE DEF x
  <2>2. /\ W \in Seq(Token) /\ T \in Seq(Token) /\ Len(W) = Len(x) + 1 + Len(T)
        /\ W[Len(x) + 1] = "//" /\ \A i \in 1 .. Len(x) : W[i] = x[i]
    BY <1>2 DEF Around, x
  <2>3. 1 \in 1 .. Len(x) /\ 2 \in 1 .. Len(x) /\ Len(x) + 1 = 3 /\ Len(W) >= 3
    BY <2>1, <2>2
  <2>4. W[1] = p.scheme /\ W[2] = ":" /\ W[3] = "//"
    BY <2>1, <2>2, <2>3
  <2>5. After(W, 3) = T
    <3>1. Around(W, x, "//", T)
      BY <1>2 DEF x
    <3>2. After(W, Len(x) + 1) = T
      BY <3>1, AroundParts
    <3> QED  BY <2>3, <3>2
  <2> QED  BY <1>1, <2>2, <2>3, <2>4, <2>5 DEF HasScheme
<1> HIDE DEF text
<1>8. rest = R /\ db = p.db
  BY <1>4, <1>7
<1> HIDE DEF q, rest, db
<1>9. auth = Ok(p.auth) /\ After(rest, at) = HP
  BY <1>5, <1>8
<1> HIDE DEF at, auth
<1>10. hp = Ok([host |-> p.host, port |-> p.port])
  BY <1>6, <1>9
<1> HIDE DEF hp
<1>11. auth.ok /\ auth.v = p.auth
  BY <1>9 DEF Ok
<1>12. hp.ok /\ hp.v.host = p.host /\ hp.v.port = p.port
  BY <1>10 DEF Ok
<1>13. n = m
  BY <1>12
<1> HIDE DEF n, m
<1>14. from_uri(W) = Ok(c)
  BY <1>3, <1>7, <1>11, <1>12
<1>15. c = [scheme |-> p.scheme, auth |-> p.auth, host |-> p.host, port |-> m, db |-> p.db]
  BY <1>7, <1>8, <1>11, <1>12, <1>13
<1>16. [p EXCEPT !.port = m] =
         [scheme |-> p.scheme, auth |-> p.auth, host |-> p.host, port |-> m, db |-> p.db]
  BY <1>1
<1>17. from_uri(W) = Ok([p EXCEPT !.port = m])
  BY <1>14, <1>15, <1>16
<1>18. [p EXCEPT !.port = IF @ = Absent THEN 7687 ELSE @] = [p EXCEPT !.port = m]
  BY DEF m
<1> QED  BY <1>7, <1>17, <1>18 DEF W

-----------------------------------------------------------------------------
(* The behaviours *)

\* The configuration is from_uri's answer, and routed_pool's seed is dialled
\* at its address.
UriInv ==
  /\ (parts \in Parts /\ uri = Written(parts)) \/ (parts = Absent /\ uri \in Raw)
  /\ progress # "uri" => config = from_uri(uri)
  /\ progress = "routed" => config.ok /\ dialled = PoolDials(config.v, addr(config.v))

\* Every step keeps it.
LEMMA UriStep == UriInv /\ [UriNext]_uriVars => UriInv'
<1> SUFFICES ASSUME UriInv, [UriNext]_uriVars
             PROVE  UriInv'
  OBVIOUS
<1>1. CASE Parse
  <2>1. /\ config' = from_uri(uri) /\ progress' = "parsed"
        /\ parts' = parts /\ uri' = uri
    BY <1>1 DEF Parse
  <2> QED  BY <2>1 DEF UriInv
<1>2. CASE Connect
  <2>1. /\ progress = "parsed" /\ progress' = "connect"
        /\ parts' = parts /\ uri' = uri /\ config' = config
    BY <1>2 DEF Connect
  <2> QED  BY <2>1 DEF UriInv
<1>3. CASE DialSeed
  <2>1. /\ progress = "parsed" /\ config.ok /\ progress' = "routed"
        /\ dialled' = PoolDials(config.v, addr(config.v))
        /\ parts' = parts /\ uri' = uri /\ config' = config
    BY <1>3 DEF DialSeed
  <2> QED  BY <2>1 DEF UriInv
<1>4. CASE UNCHANGED uriVars
  BY <1>4 DEF UriInv, uriVars
<1> QED  BY <1>1, <1>2, <1>3, <1>4 DEF UriNext

\* It holds.
LEMMA UriAlways == UriSpec => []UriInv
<1>1. UriInit => UriInv
  BY DEF UriInit, UriInv
<1> QED  BY <1>1, UriStep, PTL DEF UriSpec

\* from_uri takes apart what was put together: for every choice of parts in
\* which no part holds what ends it, the URI written from them is read as them.
THEOREM WritesAreParsed == UriSpec => []WrittenIsParsed
<1>1. UriInv => WrittenIsParsed
  <2> SUFFICES ASSUME UriInv, progress = "parsed", parts # Absent
               PROVE  config = Ok([parts EXCEPT !.port = IF @ = Absent THEN 7687 ELSE @])
    BY DEF WrittenIsParsed
  <2>1. parts \in Parts /\ uri = Written(parts) /\ config = from_uri(uri)
    BY DEF UriInv
  <2> QED  BY <2>1, ParseWritten
<1> QED  BY <1>1, UriAlways, PTL

\* routed_pool's seed: the address of every accepted URI, whatever its text
\* was, is split back into the host connect would check the certificate for.
THEOREM SeedsAreDialled == UriSpec => []SeedIsDialled
<1>1. UriInv => SeedIsDialled
  <2> SUFFICES ASSUME UriInv, progress = "routed", ~Contains(config.v.host, "[")
               PROVE  dialled = dial(tls(config.v.scheme), addr(config.v), config.v.host,
                              config.v.auth)
    BY DEF SeedIsDialled
  <2>1. /\ config = from_uri(uri) /\ config.ok
        /\ dialled = PoolDials(config.v, addr(config.v))
    BY DEF UriInv
  <2>2. uri \in Seq(Token)
    <3>1. CASE parts \in Parts /\ uri = Written(parts)
      <4>1. Written(parts) \in Seq(Token)
        BY <3>1, WrittenIsText, Zenon
      <4> QED  BY <3>1, <4>1
    <3>2. CASE uri \in Raw
      BY <3>2, UriAssumption
    <3> QED  BY <3>1, <3>2 DEF UriInv
  <2>3. Host(config.v.host) /\ config.v.port \in PortNumbers
    BY <2>1, <2>2, Accepted
  <2> QED  BY <2>1, <2>3, SeedSplit
<1> QED  BY <1>1, UriAlways, PTL
=============================================================================
