---------------------------- MODULE ReadDeadline ----------------------------
(***************************************************************************)
(* Connection with the deadline of a read (src/src/connection.rs: fill and *)
(* the loop of read_message).  The deadline is that of one read of the     *)
(* socket: bytes that complete no message, a NOOP or a part of a message,  *)
(* end the fill, and the loop starts another one with a deadline of its    *)
(* own.  To Connection, which knows whole messages, that is no step.       *)
(***************************************************************************)
EXTENDS Connection

VARIABLE due   \* the fill under way has reached its deadline

liveVars == <<vars, due>>

LiveInit == Init /\ due = FALSE

\* The time of a fill passes and nothing arrives.
Tick ==
  /\ Reading
  /\ ~due
  /\ due' = TRUE
  /\ UNCHANGED vars

\* fill returns and take_message finds no whole message: the loop of
\* read_message calls fill again.
Trickle ==
  /\ Reading
  /\ up
  /\ due
  /\ due' = FALSE
  /\ UNCHANGED vars

\* A read ends with a message or an error, and the next fill has its own time.
LiveNext ==
  \/ Next /\ due' = FALSE
  \/ Tick
  \/ Trickle

(***************************************************************************)
(* A suspended future is polled again when its await is over.  Time        *)
(* passes, and a fill that is due ends, unless bytes arrive after all.     *)
(* Connecting, trickled at or not, ends by the connect timeout.  Nothing   *)
(* ends a write (write_bytes has no deadline), nobody has to cancel, and   *)
(* the server owes nothing.                                                *)
(***************************************************************************)
Fairness ==
  /\ WF_liveVars(Tick)
  /\ WF_liveVars(due /\ ReadEnds /\ due' = FALSE)
  /\ WF_liveVars((Handshake \/ ConnectFails) /\ due' = FALSE)

LiveSpec == LiveInit /\ [][LiveNext]_liveVars /\ Fairness

-----------------------------------------------------------------------------
(* Properties *)

\* Every operation ends, whether the server answers all it owes, a part of it
\* or nothing: by its replies or by a deadline.  Only two things hold one for
\* ever, for the code has no deadline for either: a server that goes on sending
\* bytes that complete no message, and one that never takes what is written.
OperationsEnd ==
  <>[](at \notin {"idle", "closed"}) =>
    []<><<Trickle>>_liveVars \/ <>[](out # << >>)
=============================================================================
