------------------------------ MODULE TlsTrust ------------------------------
(***************************************************************************)
(* Server trust of the rustls backend (src/src/tls/rustls.rs): the builder *)
(* calls in any order, build, and a handshake.                             *)
(*                                                                         *)
(* rustls and webpki are external.  A PEM is malformed or holds a set of   *)
(* certificates; webpki accepts a server certificate that is no CA's and   *)
(* whose issuer is among the roots; the handshake also fails when the      *)
(* server cannot sign with the key of the certificate it presents, or the  *)
(* transport drops.                                                        *)
(***************************************************************************)
EXTENDS Naturals

CONSTANTS Cert,        \* certificates
          Issuer,      \* the certificate that signs each one
          Authority,   \* those marked as a CA
          Rootable,    \* those RootCertStore::add takes
          Webpki,      \* webpki_roots
          Native,      \* the operating system's trust store
          Pem,         \* PEM blobs: [valid |-> BOOLEAN, certs |-> a set]
          Stores,      \* root stores a caller may bring
          NoStore,
          MaxCalls     \* bound: builder calls

VARIABLES builder,   \* the fields of RustlsProviderBuilder
          calls,     \* how many calls have set them
          trust,     \* the verifier build has made of them
          phase,     \* "building", "built" or "failed" (build's error)
          session    \* a handshake: what the server presented and the outcome

trustVars == <<builder, calls, trust, phase, session>>

\* A Vec is the set of its members: the order decides only which of several
\* errors build reports.
TrustInit ==
  /\ builder = [root_store |-> NoStore, extra_roots_pem |-> {}, extra_roots_der |-> {},
                pins_pem |-> {}, pins_der |-> {}, accept_invalid |-> FALSE,
                native_roots |-> FALSE, identity |-> "none"]
  /\ calls = 0
  /\ trust = [mode |-> "none", certs |-> {}]
  /\ phase = "building"
  /\ session = [outcome |-> "none"]

-----------------------------------------------------------------------------
(* The builder *)

Set(field, x) ==
  /\ phase = "building" /\ calls < MaxCalls
  /\ builder' = [builder EXCEPT ![field] = x]
  /\ calls' = calls + 1
  /\ UNCHANGED <<trust, phase, session>>

Push(field, x) == Set(field, builder[field] \union {x})

add_root_pem        == \E pem \in Pem : Push("extra_roots_pem", pem)
add_root_der        == \E c \in Cert : Push("extra_roots_der", c)
with_root_store     == \E roots \in Stores : Set("root_store", roots)
pin_certificate_pem == \E pem \in Pem : Push("pins_pem", pem)
pin_certificate_der == \E c \in Cert : Push("pins_der", c)
use_native_roots    == Set("native_roots", TRUE)
client_identity     == \E i \in {"good", "bad"} : Set("identity", i)

danger_accept_invalid_certs == \E accept \in BOOLEAN : Set("accept_invalid", accept)

-----------------------------------------------------------------------------
(* build *)

\* pem_certs of each of a set of PEMs.
pem_certs(pems) == UNION {pem.certs : pem \in pems}

\* Mutant: a pinned PEM without a certificate is passed over.
PinsUsableAny == \A pem \in builder.pins_pem : pem.valid

\* Every pinned PEM parses and holds a certificate.
PinsUsable == \A pem \in builder.pins_pem : pem.valid /\ pem.certs # {}

pins == builder.pins_der \union pem_certs(builder.pins_pem)

extra == builder.extra_roots_der \union pem_certs(builder.extra_roots_pem)

\* The added roots parse, and the store takes every one.
ExtraUsable ==
  /\ \A pem \in builder.extra_roots_pem : pem.valid
  /\ extra \subseteq Rootable

\* webpki's roots or the caller's, the native ones that are usable, the added.
Roots ==
  (IF builder.root_store = NoStore THEN Webpki ELSE builder.root_store)
    \union (IF builder.native_roots THEN Native \cap Rootable ELSE {})
    \union extra

\* A custom verifier, or none: then the roots.
Trusted ==
  CASE builder.accept_invalid -> [mode |-> "any", certs |-> {}]
    [] ~builder.accept_invalid /\ pins # {} -> [mode |-> "pinned", certs |-> pins]
    [] OTHER -> [mode |-> "roots", certs |-> Roots]

\* The added roots are not looked at beside a custom verifier.
Builds ==
  /\ PinsUsable
  /\ Trusted.mode = "roots" => ExtraUsable
  /\ builder.identity # "bad"

BuildOk ==
  /\ phase = "building" /\ Builds
  /\ trust' = Trusted
  /\ phase' = "built"
  /\ UNCHANGED <<builder, calls, session>>

BuildErr ==
  /\ phase = "building" /\ ~Builds
  /\ phase' = "failed"
  /\ UNCHANGED <<builder, calls, trust, session>>

-----------------------------------------------------------------------------
(* A handshake with a server that presents c and has its key, or has not *)

\* verify_server_cert of the custom verifier, or webpki's (external).
verify_server_cert(c) ==
  CASE trust.mode = "any"    -> TRUE
    [] trust.mode = "pinned" -> c \in trust.certs
    [] OTHER -> c \notin Authority /\ Issuer[c] \in trust.certs

\* verify_tls12_signature, verify_tls13_signature: against c's key.
verify_signature(key) == key

\* connect: what TLS refuses is InvalidData, a permanent error.
connect ==
  /\ phase = "built" /\ session.outcome = "none"
  /\ \E c \in Cert, key \in BOOLEAN :
       session' = [cert |-> c, key |-> key,
                   outcome |-> IF verify_server_cert(c) /\ verify_signature(key)
                                 THEN "up" ELSE "Tls"]
  /\ UNCHANGED <<builder, calls, trust, phase>>

\* The transport drops during the handshake: a transient error.
Dropped ==
  /\ phase = "built" /\ session.outcome = "none"
  /\ session' = [outcome |-> "Io"]
  /\ UNCHANGED <<builder, calls, trust, phase>>

\* The name is no server name: an error before anything is sent.
InvalidName ==
  /\ phase = "built" /\ session.outcome = "none"
  /\ session' = [outcome |-> "name"]
  /\ UNCHANGED <<builder, calls, trust, phase>>

TrustNext ==
  \/ add_root_pem \/ add_root_der \/ with_root_store
  \/ pin_certificate_pem \/ pin_certificate_der
  \/ danger_accept_invalid_certs \/ use_native_roots \/ client_identity
  \/ BuildOk \/ BuildErr \/ connect \/ Dropped \/ InvalidName

TrustSpec == TrustInit /\ [][TrustNext]_trustVars

-----------------------------------------------------------------------------
(* Properties *)

\* The caller has pinned something, be it a PEM that holds no certificate.
Pinned == builder.pins_pem # {} \/ builder.pins_der # {}

\* The trust of the builder's calls, whatever their order: danger accepts any
\* certificate; or else, once something was pinned, only a pinned one; or else
\* one, not a CA's, issued by a root the caller brought or added, by webpki's unless they
\* were replaced, or by a native one.  And never without the key.
TrustAsAsked ==
  session.outcome \in {"up", "Tls"} =>
    LET root == Issuer[session.cert]
        asked ==
          \/ builder.accept_invalid
          \/ ~builder.accept_invalid /\ Pinned /\ session.cert \in pins
          \/ /\ ~builder.accept_invalid /\ ~Pinned
             /\ session.cert \notin Authority
             /\ \/ root \in extra
                \/ builder.root_store = NoStore /\ root \in Webpki
                \/ builder.root_store # NoStore /\ root \in builder.root_store
                \/ builder.native_roots /\ root \in Native /\ root \in Rootable
    IN  session.outcome = "up" <=> session.key /\ asked
=============================================================================
