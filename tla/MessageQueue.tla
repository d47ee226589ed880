---------------------------- MODULE MessageQueue ----------------------------
(***************************************************************************)
(* What framing promises the rest of the connection (src/src/connection.rs *)
(* read_message): the messages of the peer, whole, in the order they were  *)
(* sent, each once, until the connection breaks.  Framing implements it    *)
(* over a stream of bytes.                                                 *)
(***************************************************************************)
EXTENDS Sequences

CONSTANT Message

VARIABLES queue,  \* sent and not received
          taken,  \* received
          open    \* the connection is not broken

vars == <<queue, taken, open>>

Init == queue = << >> /\ taken = << >> /\ open = TRUE

Send == /\ \E m \in Message : queue' = Append(queue, m)
        /\ UNCHANGED <<taken, open>>

Receive == /\ open
           /\ queue # << >>
           /\ taken' = Append(taken, Head(queue))
           /\ queue' = Tail(queue)
           /\ UNCHANGED open

Break == open /\ open' = FALSE /\ UNCHANGED <<queue, taken>>

Next == Send \/ Receive \/ Break

Spec == Init /\ [][Next]_vars
=============================================================================
