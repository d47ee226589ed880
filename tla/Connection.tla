----------------------------- MODULE Connection -----------------------------
(***************************************************************************)
(* One Bolt session of boltwire: BoltConnection, its Transaction and its   *)
(* RecordStream (src/src/connection.rs), against the Bolt server they talk *)
(* to (external).                                                          *)
(*                                                                         *)
(* An operation is an async fn that borrows the connection.  It runs       *)
(* without interruption from one await to the next, and at every await its *)
(* future may be dropped (Cancel).  `at' is the await the running operation*)
(* is suspended in; an action is what runs from one await to the next.     *)
(*                                                                         *)
(* `wire' is the session's two byte streams as one FIFO of exchanges: a    *)
(* request that was sent, with those of its replies the client has not yet *)
(* read.  The server answers the first unanswered exchange; the client     *)
(* reads the first exchange, its records first and then its summary.       *)
(***************************************************************************)
EXTENDS Integers, Sequences

CONSTANTS Batches,   \* the batch sizes callers stream with
          MaxRows,   \* bound: the records a statement has
          MaxOwed    \* bound: the owed replies a new operation may find

(***************************************************************************)
(* validate_batch refuses 0 and anything below -1 before it touches the    *)
(* connection.                                                             *)
(***************************************************************************)
ASSUME BatchesAssumption == Batches \subseteq {n \in Int : n = -1 \/ n >= 1}

ASSUME BoundsAssumption == MaxRows \in Nat /\ MaxOwed \in Nat

VARIABLES
  \* BoltConnection and the future that borrows it
  at,              \* the await the operation is suspended in
  op,              \* the operation
  out,             \* requests being written; << >> when no write is under way
  needs_reset,
  pending,
  broken,
  \* Transaction, and RecordStream (or the records of run_inner)
  tx,              \* "none", or whether the handle is "open" or "done"
  strm,            \* the same of the stream
  has_more,        \* RecordStream.summary is Some iff this is FALSE
  pull_in_flight,
  batch,
  buffer,
  \* the socket and the server
  wire,
  srv,
  up,              \* the server has not hung up
  cursor,          \* records the server has sent of its last statement
  \* history
  got,             \* the last record handed to the caller of next()
  stale,           \* the first `stale' exchanges belong to earlier operations
  lost             \* a stream of this transaction ended in a FAILURE

session == <<needs_reset, pending, broken>>
stream  == <<has_more, pull_in_flight, batch>>
server  == <<srv, up, cursor>>
vars    == <<at, op, out, session, tx, strm, stream, buffer, wire, server,
             got, stale, lost>>

-----------------------------------------------------------------------------
(* Requests, replies and the places an operation waits in. *)

Signatures == {"HELLO", "LOGON", "RUN", "PULL", "DISCARD", "BEGIN", "COMMIT",
               "ROLLBACK", "ROUTE", "RESET"}

\* A summary; MORE is a SUCCESS with has_more: true.  JUNK does not decode.
Successes == {"SUCCESS", "MORE"}
Summaries == Successes \union {"FAILURE", "IGNORED"}
Replies   == Summaries \union {"none", "JUNK"}

Request  == [sig : Signatures, n : Int]
Exchange == [sig : Signatures, n : Int, rows : Seq(Nat), reply : Replies]

Req(sig)          == [sig |-> sig, n |-> -1]
Sent(req)         == [sig |-> req.sig, n |-> req.n, rows |-> << >>,
                      reply |-> "none"]
AllSent(reqs)     == [i \in 1..Len(reqs) |-> Sent(reqs[i])]

Establishing == {"handshake", "hello", "logon"}
Draining     == {"clean", "reset", "fail_reset"}
Collecting   == {"pull", "batch"}
\* These take one message, and a record is "unexpected" to them.
Single       == {"hello", "logon", "run", "begin", "route", "commit", "rollback"}
Awaits       == Draining \union Collecting \union Single \union {"discard"}

ConnOps   == {"run", "run_stream", "begin", "route"}
TxOps     == {"tx_run", "tx_run_stream"}
StreamOps == {"run_stream", "tx_run_stream"}
Ops       == ConnOps \union TxOps \union {"none", "connect", "reset", "commit",
             "rollback", "next", "finish"}

-----------------------------------------------------------------------------
(* The connection before it is established, and after it is gone. *)

Init ==
  /\ at = "closed" /\ op = "none" /\ out = << >>
  /\ needs_reset = FALSE /\ pending = 0 /\ broken = FALSE
  /\ tx = "none" /\ strm = "none"
  /\ has_more = FALSE /\ pull_in_flight = FALSE /\ batch = -1 /\ buffer = << >>
  /\ wire = << >> /\ srv = "NEGOTIATION" /\ up = TRUE /\ cursor = 0
  /\ got = 0 /\ stale = 0 /\ lost = FALSE

\* The connection value is dropped.
Gone ==
  /\ at' = "closed" /\ op' = "none" /\ out' = << >>
  /\ needs_reset' = FALSE /\ pending' = 0 /\ broken' = FALSE
  /\ tx' = "none" /\ strm' = "none"
  /\ has_more' = FALSE /\ pull_in_flight' = FALSE /\ batch' = -1 /\ buffer' = << >>
  /\ wire' = << >> /\ srv' = "NEGOTIATION" /\ up' = TRUE /\ cursor' = 0
  /\ got' = 0 /\ stale' = 0 /\ lost' = FALSE

is_ready == ~broken /\ ~needs_reset /\ pending = 0

\* Nothing borrows the connection: the caller may use it.
Free == at = "idle" /\ tx = "none" /\ strm = "none"

-----------------------------------------------------------------------------
(* Steps that operations are made of. *)

\* write_messages up to write_bytes' await: broken until the write completes.
Send(reqs, a) ==
  /\ out' = reqs
  /\ broken' = TRUE
  /\ at' = a

(***************************************************************************)
(* The operation's future is gone: it returned Ok or Err, or was dropped.  *)
(* A tx statement that returns Err sets Transaction.done; a dropped one    *)
(* does not.  finish() consumes the stream, so the stream (in state s) is  *)
(* dropped with the future.  nr is needs_reset as the operation leaves it. *)
(***************************************************************************)
Leave(how, s, nr) ==
  /\ at' = "idle"
  /\ op' = "none"
  /\ tx' = IF how = "Err" /\ op \in TxOps THEN "done" ELSE tx
  /\ strm' = IF op = "finish" THEN "none" ELSE s
  /\ needs_reset' = (nr \/ (op = "finish" /\ s = "open"))

\* What is still owed when no handle is left to read it is stale.
Disown(reads) ==
  stale' = IF at' = "idle" /\ strm' = "none" THEN Len(wire')
           ELSE IF reads /\ stale > 0 THEN stale - 1 ELSE stale

\* run_inner, send_run_pull, begin_with and route, after their state checks.
FirstRequests(o, b) ==
  CASE o \in StreamOps        -> <<Req("RUN"), [sig |-> "PULL", n |-> b]>>
    [] o \in {"run", "tx_run"} -> <<Req("RUN"), Req("PULL")>>
    [] o = "begin"            -> <<Req("BEGIN")>>
    [] OTHER                  -> <<Req("ROUTE")>>

FirstAwait(o) == IF o \in {"begin", "route"} THEN o ELSE "run"

Start(o, b) ==
  /\ needs_reset' = TRUE
  /\ Send(FirstRequests(o, b), FirstAwait(o))

-----------------------------------------------------------------------------
(* connect, establish, close *)

Connect ==
  /\ at = "closed"
  /\ at' = "handshake"
  /\ op' = "connect"
  /\ UNCHANGED <<out, session, tx, strm, stream, buffer, wire, server, got,
                 stale, lost>>

\* The server agrees on a supported version: go on to HELLO.
Handshake ==
  /\ at = "handshake"
  /\ Send(<<Req("HELLO")>>, "hello")
  /\ UNCHANGED <<op, needs_reset, pending, tx, strm, stream, buffer, wire,
                 server, got, stale, lost>>

\* An error or the connect timeout drops the half-made connection.
ConnectFails ==
  /\ at \in Establishing
  /\ Gone

\* close() takes the connection by value; so does dropping it.
Close ==
  /\ Free
  /\ Gone

-----------------------------------------------------------------------------
(* Calls on the connection *)

\* Mutant: ensure_clean only drains when replies are owed, without a RESET.
CallDrainsOnly(o, b) ==
  /\ Free /\ ~broken /\ Len(wire) < MaxOwed
  /\ op' = o /\ batch' = b /\ buffer' = << >> /\ got' = 0
  /\ IF pending > 0 THEN at' = "clean" /\ UNCHANGED <<out, broken, needs_reset>>
     ELSE IF needs_reset
       THEN Send(<<Req("RESET")>>, "clean") /\ UNCHANGED needs_reset
       ELSE Start(o, b)
  /\ UNCHANGED <<pending, tx, strm, has_more, pull_in_flight, wire, server,
                 stale, lost>>

\* Mutant: ensure_clean looks at needs_reset and not at pending.
CallIgnoresOwed(o, b) ==
  /\ Free /\ ~broken /\ Len(wire) < MaxOwed
  /\ op' = o /\ batch' = b /\ buffer' = << >> /\ got' = 0
  /\ IF needs_reset
       THEN Send(<<Req("RESET")>>, "clean") /\ UNCHANGED needs_reset
       ELSE Start(o, b)
  /\ UNCHANGED <<pending, tx, strm, has_more, pull_in_flight, wire, server,
                 stale, lost>>

\* run_with, run_stream_with, begin_with, route: ensure_clean comes first.
\* (On a broken connection they return Err and change nothing.)
Call(o, b) ==
  /\ Free
  /\ ~broken
  /\ Len(wire) < MaxOwed
  /\ op' = o
  /\ batch' = b
  /\ buffer' = << >>
  /\ got' = 0
  /\ IF needs_reset \/ pending > 0
       THEN Send(<<Req("RESET")>>, "clean") /\ UNCHANGED needs_reset
       ELSE Start(o, b)
  /\ UNCHANGED <<pending, tx, strm, has_more, pull_in_flight, wire, server,
                 stale, lost>>

Reset ==
  /\ Free
  /\ ~broken
  /\ Len(wire) < MaxOwed
  /\ op' = "reset"
  /\ Send(<<Req("RESET")>>, "reset")
  /\ UNCHANGED <<needs_reset, pending, tx, strm, stream, buffer, wire, server,
                 got, stale, lost>>

-----------------------------------------------------------------------------
(* Calls on a Transaction *)

TxFree == at = "idle" /\ tx # "none" /\ strm = "none"

\* Mutant: only the handle's own flag is looked at.
guard_done_only == ~broken /\ tx = "open"

guard_open == ~broken /\ ~needs_reset /\ tx = "open"

\* Transaction::run and Transaction::run_stream.
TxCall(o, b) ==
  /\ TxFree
  /\ guard_open
  /\ op' = o
  /\ batch' = b
  /\ buffer' = << >>
  /\ got' = 0
  /\ Start(o, b)
  /\ UNCHANGED <<pending, tx, strm, has_more, pull_in_flight, wire, server,
                 stale, lost>>

\* guard_open notices the unfinished statement and closes the handle.
TxRefuse ==
  /\ TxFree
  /\ ~broken /\ needs_reset
  /\ tx' = "done"
  /\ UNCHANGED <<at, op, out, session, strm, stream, buffer, wire, server, got,
                 stale, lost>>

\* commit() takes the handle by value.
Commit ==
  /\ TxFree
  /\ tx' = "none"
  /\ IF guard_open
       THEN /\ op' = "commit"
            /\ needs_reset' = TRUE
            /\ Send(<<Req("COMMIT")>>, "commit")
       ELSE /\ needs_reset' = (needs_reset \/ (broken /\ tx = "open"))
            /\ UNCHANGED <<at, op, out, broken>>
  /\ UNCHANGED <<pending, strm, stream, buffer, wire, server, got, stale, lost>>

\* Mutant: rollback does not look at broken before it writes.
RollbackUnchecked ==
  /\ TxFree /\ Len(wire) < MaxOwed
  /\ tx' = "none"
  /\ needs_reset' = (needs_reset \/ tx = "open")
  /\ IF tx = "open"
       THEN op' = "rollback" /\ Send(<<Req("ROLLBACK")>>, "rollback")
       ELSE UNCHANGED <<at, op, out, broken>>
  /\ UNCHANGED <<pending, strm, stream, buffer, wire, server, got, stale, lost>>

\* rollback() takes the handle by value and does not ask guard_open.
Rollback ==
  /\ TxFree
  /\ Len(wire) < MaxOwed
  /\ tx' = "none"
  /\ needs_reset' = (needs_reset \/ tx = "open")
  /\ IF tx = "open" /\ ~broken
       THEN op' = "rollback" /\ Send(<<Req("ROLLBACK")>>, "rollback")
       ELSE UNCHANGED <<at, op, out, broken>>
  /\ UNCHANGED <<pending, strm, stream, buffer, wire, server, got, stale, lost>>

\* Mutant: no Drop for Transaction.
TxForget ==
  /\ TxFree
  /\ tx' = "none"
  /\ UNCHANGED <<at, op, out, session, strm, stream, buffer, wire, server, got,
                 stale, lost>>

\* Drop for Transaction.
TxDrop ==
  /\ TxFree
  /\ tx' = "none"
  /\ needs_reset' = (needs_reset \/ tx = "open")
  /\ UNCHANGED <<at, op, out, pending, broken, strm, stream, buffer, wire,
                 server, got, stale, lost>>

-----------------------------------------------------------------------------
(* Calls on a RecordStream *)

StreamFree == at = "idle" /\ strm # "none"

\* fetch_batch up to its first await.
Fetch(o) ==
  /\ op' = o
  /\ IF pull_in_flight
       THEN at' = "batch" /\ UNCHANGED <<out, broken>>
       ELSE Send(<<[sig |-> "PULL", n |-> batch]>>, "batch")

\* next() with a record in the buffer, or with nothing left to fetch.
NextBuffered ==
  /\ StreamFree
  /\ \/ /\ buffer # << >>
        /\ got' = Head(buffer)
        /\ buffer' = Tail(buffer)
        /\ UNCHANGED strm
     \/ /\ buffer = << >>
        /\ strm = "done" \/ ~has_more
        /\ strm' = "done"
        /\ UNCHANGED <<buffer, got>>
  /\ UNCHANGED <<at, op, out, session, tx, stream, wire, server, stale, lost>>

NextFetch ==
  /\ StreamFree
  /\ ~broken
  /\ buffer = << >> /\ strm = "open" /\ has_more
  /\ Fetch("next")
  /\ UNCHANGED <<needs_reset, pending, tx, strm, stream, buffer, wire, server,
                 got, stale, lost>>

\* finish() with the summary in hand, or on a stream that is over.
FinishDone ==
  /\ StreamFree
  /\ ~has_more \/ strm = "done"
  /\ strm' = "none"
  /\ stale' = Len(wire)
  /\ UNCHANGED <<at, op, out, session, tx, stream, buffer, wire, server, got,
                 lost>>

\* finish() otherwise: collect the batch in flight, or DISCARD at once.
Finish ==
  /\ StreamFree
  /\ ~broken
  /\ strm = "open" /\ has_more
  /\ op' = "finish"
  /\ IF pull_in_flight
       THEN at' = "batch" /\ UNCHANGED <<out, broken, strm>>
       ELSE strm' = "done" /\ Send(<<Req("DISCARD")>>, "discard")
  /\ UNCHANGED <<needs_reset, pending, tx, stream, buffer, wire, server, got,
                 stale, lost>>

\* Drop for RecordStream; finish() on a broken connection ends here too.
StreamDrop ==
  /\ StreamFree
  /\ strm' = "none"
  /\ needs_reset' = (needs_reset \/ strm = "open")
  /\ stale' = Len(wire)
  /\ UNCHANGED <<at, op, out, pending, broken, tx, stream, buffer, wire, server,
                 got, lost>>

-----------------------------------------------------------------------------
(* Writing *)

\* Mutant: a write counts as one request, however many it carries.
WriteCountsOnce ==
  /\ out # << >>
  /\ wire' = wire \o AllSent(out)
  /\ pending' = pending + 1
  /\ broken' = FALSE
  /\ out' = << >>
  /\ pull_in_flight' = (pull_in_flight \/ at = "batch")
  /\ UNCHANGED <<at, op, needs_reset, tx, strm, has_more, batch, buffer, server,
                 got, stale, lost>>

\* write_bytes completes; write_messages counts the replies it is now owed.
Write ==
  /\ out # << >>
  /\ wire' = wire \o AllSent(out)
  /\ pending' = pending + Len(out)
  /\ broken' = FALSE
  /\ out' = << >>
  /\ pull_in_flight' = (pull_in_flight \/ at = "batch")
  /\ UNCHANGED <<at, op, needs_reset, tx, strm, has_more, batch, buffer, server,
                 got, stale, lost>>

\* write_messages: the caller's parameters do not encode.  This comes before
\* write_bytes, so nothing is written and the framing is intact.
EncodeFails ==
  /\ out # << >> /\ out[1].sig \in {"RUN", "BEGIN", "ROUTE"}
  /\ out' = << >>
  /\ broken' = FALSE
  /\ Leave("Err", strm, needs_reset)
  /\ UNCHANGED <<pending, stream, buffer, wire, server, got, lost>>
  /\ Disown(FALSE)

\* The write is cut off: the future is dropped, or the transport fails.  The
\* server may have received any number of the requests; broken stays set.
Cut ==
  /\ out # << >> /\ at \notin Establishing
  /\ \E k \in 0..Len(out) : wire' = wire \o AllSent(SubSeq(out, 1, k))
  /\ out' = << >>
  /\ \/ Leave("dropped", strm, needs_reset)
     \/ ~up /\ Leave("Err", strm, needs_reset)
  /\ UNCHANGED <<pending, broken, stream, buffer, server, got, lost>>
  /\ Disown(FALSE)

-----------------------------------------------------------------------------
(* Reading *)

Reading == out = << >> /\ at \in Awaits

\* Mutant: the records of a batch live in the future, and go with it.
CancelLosesRecords ==
  /\ Reading /\ at \notin Establishing
  /\ Leave("dropped", strm, needs_reset)
  /\ buffer' = << >>
  /\ UNCHANGED <<out, pending, broken, stream, wire, server, got, lost>>
  /\ Disown(FALSE)

\* The future is dropped while it waits: what arrived stays buffered.
Cancel ==
  /\ Reading /\ at \notin Establishing
  /\ Leave("dropped", strm, needs_reset)
  /\ UNCHANGED <<out, pending, broken, stream, buffer, wire, server, got, lost>>
  /\ Disown(FALSE)

\* Mutant: fill waits on when the deadline passes.
ReadRetries ==
  /\ Reading /\ at \notin Establishing
  /\ UNCHANGED vars

\* fill: the deadline of one read of the socket passes.  The reply may still
\* come.  (ReadDeadline.tla is about what restarts the deadline.)
ReadTimeout ==
  /\ Reading /\ at \notin Establishing
  /\ Leave("Err", strm, needs_reset)
  /\ UNCHANGED <<out, pending, broken, stream, buffer, wire, server, got, lost>>
  /\ Disown(FALSE)

\* fill: end of stream or a transport error; decode: an undecodable message.
ReadBroken ==
  /\ Reading /\ at \notin Establishing
  /\ ~up \/ (wire # << >> /\ wire[1].rows = << >> /\ wire[1].reply = "JUNK")
  /\ broken' = TRUE
  /\ Leave("Err", strm, needs_reset)
  /\ UNCHANGED <<out, pending, stream, buffer, wire, server, got, lost>>
  /\ Disown(FALSE)

\* Mutant: every message read counts as a summary.
TakeRecordAsSummary ==
  /\ Reading
  /\ wire # << >> /\ wire[1].rows # << >>
  /\ wire' = [wire EXCEPT ![1].rows = Tail(@)]
  /\ pending' = pending - 1
  /\ UNCHANGED <<out, broken, stream, server, got, lost>>

\* read_message returns a RECORD: it is no summary, pending stays.
TakeRecord ==
  /\ Reading
  /\ wire # << >> /\ wire[1].rows # << >>
  /\ wire' = [wire EXCEPT ![1].rows = Tail(@)]
  /\ UNCHANGED <<out, pending, broken, stream, server, got, lost>>

\* run_inner and fetch_batch keep it; reset and finish's DISCARD skip it.
ReadRecord ==
  /\ at \in Collecting \union Draining \union {"discard"}
  /\ TakeRecord
  /\ buffer' = IF at \in Collecting THEN Append(buffer, Head(wire[1].rows))
               ELSE buffer
  /\ UNCHANGED <<at, op, needs_reset, tx, strm, stale>>

\* Where one summary was expected a record is a protocol error.
ReadUnexpected ==
  /\ at \in Single \ Establishing
  /\ TakeRecord
  /\ Leave("Err", strm, needs_reset)
  /\ UNCHANGED buffer
  /\ Disown(FALSE)

\* read_message returns a summary of one of the kinds in rs.
Take(rs) ==
  /\ Reading
  /\ wire # << >> /\ wire[1].rows = << >> /\ wire[1].reply \in rs
  /\ wire' = Tail(wire)
  /\ pending' = IF pending > 0 THEN pending - 1 ELSE 0

\* hello, and the rest of establish.
ReadHello ==
  /\ at = "hello" /\ Take(Successes)
  /\ Send(<<Req("LOGON")>>, "logon")
  /\ UNCHANGED <<op, needs_reset, tx, strm, stream, buffer, server, got, lost>>
  /\ Disown(TRUE)

ReadLogon ==
  /\ at = "logon" /\ Take(Successes)
  /\ Leave("Ok", strm, needs_reset)
  /\ UNCHANGED <<out, broken, stream, buffer, server, got, lost>>
  /\ Disown(TRUE)

\* reset: a reply that leaves others owed is an earlier request's.
ReadOwed ==
  /\ at \in Draining /\ Take(Summaries) /\ pending' > 0
  /\ UNCHANGED <<at, op, out, needs_reset, broken, tx, strm, stream, buffer,
                 server, got, lost>>
  /\ Disown(TRUE)

\* reset: the last reply owed is RESET's.  After ensure_clean the operation
\* goes on to its own requests; after fail_reset it returns the FAILURE.
ReadReset ==
  /\ at \in Draining /\ Take(Successes) /\ pending' = 0
  /\ \/ /\ at = "clean"
        /\ Start(op, batch)
        /\ UNCHANGED <<op, tx, strm>>
     \/ /\ at \in {"reset", "fail_reset"}
        /\ Leave(IF at = "reset" THEN "Ok" ELSE "Err", strm, FALSE)
        /\ UNCHANGED <<out, broken>>
  /\ UNCHANGED <<stream, buffer, server, got, lost>>
  /\ Disown(TRUE)

ReadResetRefused ==
  /\ at \in Draining /\ Take({"FAILURE", "IGNORED"}) /\ pending' = 0
  /\ Leave("Err", strm, needs_reset)
  /\ UNCHANGED <<out, broken, stream, buffer, server, got, lost>>
  /\ Disown(TRUE)

\* send_run_pull: RUN's SUCCESS.  run goes on to collect the records,
\* run_stream returns a RecordStream with its first PULL in flight.
ReadRun ==
  /\ at = "run" /\ Take(Successes)
  /\ IF op \in StreamOps
       THEN /\ Leave("Ok", "open", needs_reset)
            /\ has_more' = TRUE
            /\ pull_in_flight' = TRUE
       ELSE /\ at' = "pull"
            /\ UNCHANGED <<op, tx, strm, needs_reset, has_more, pull_in_flight>>
  /\ UNCHANGED <<out, broken, batch, buffer, server, got, lost>>
  /\ Disown(TRUE)

\* The SUCCESS that ends run_inner, route, commit and rollback.
ReadEnd ==
  /\ at \in {"pull", "route", "commit", "rollback"} /\ Take(Successes)
  /\ Leave("Ok", strm, FALSE)
  /\ UNCHANGED <<out, broken, stream, buffer, server, got, lost>>
  /\ Disown(TRUE)

ReadBegin ==
  /\ at = "begin" /\ Take(Successes)
  /\ at' = "idle"
  /\ op' = "none"
  /\ tx' = "open"
  /\ needs_reset' = FALSE
  /\ lost' = FALSE
  /\ UNCHANGED <<out, broken, strm, stream, buffer, server, got>>
  /\ Disown(TRUE)

\* fetch_batch's SUCCESS, then the rest of next()'s loop or of finish().
ReadBatch ==
  /\ at = "batch" /\ Take(Successes)
  /\ LET more == wire[1].reply = "MORE"
         nr   == needs_reset /\ more
     IN  /\ has_more' = more
         /\ pull_in_flight' = FALSE
         /\ \/ /\ op = "next" /\ buffer # << >>
               /\ got' = Head(buffer)
               /\ buffer' = Tail(buffer)
               /\ Leave("Ok", strm, nr)
               /\ UNCHANGED <<out, broken>>
            \/ /\ op = "next" /\ buffer = << >> /\ ~more
               /\ Leave("Ok", "done", nr)
               /\ UNCHANGED <<out, broken, buffer, got>>
            \/ /\ op = "next" /\ buffer = << >> /\ more
               /\ Send(<<[sig |-> "PULL", n |-> batch]>>, "batch")
               /\ UNCHANGED <<op, tx, strm, needs_reset, buffer, got>>
            \/ /\ op = "finish" /\ ~more
               /\ buffer' = << >>
               /\ Leave("Ok", "done", nr)
               /\ UNCHANGED <<out, broken, got>>
            \/ /\ op = "finish" /\ more
               /\ buffer' = << >>
               /\ strm' = "done"
               /\ Send(<<Req("DISCARD")>>, "discard")
               /\ UNCHANGED <<op, tx, needs_reset, got>>
  /\ UNCHANGED <<batch, server, lost>>
  /\ Disown(TRUE)

ReadDiscard ==
  /\ at = "discard" /\ Take(Successes)
  /\ Leave("Ok", strm, FALSE)
  /\ UNCHANGED <<out, broken, stream, buffer, server, got, lost>>
  /\ Disown(TRUE)

\* A FAILURE: fail_reset sends RESET before the error is returned.  A stream
\* is over at once; its Transaction is not told.
ReadFailure ==
  /\ at \in {"run", "route", "commit", "rollback", "discard"} \union Collecting
  /\ Take({"FAILURE"})
  /\ strm' = IF at = "batch" THEN "done" ELSE strm
  /\ lost' = (lost \/ (strm # "none" /\ tx = "open"))
  /\ Send(<<Req("RESET")>>, "fail_reset")
  /\ UNCHANGED <<op, needs_reset, tx, stream, buffer, server, got>>
  /\ Disown(TRUE)

\* begin_with only reports a FAILURE.
ReadBeginFailure ==
  /\ at = "begin" /\ Take({"FAILURE"})
  /\ Leave("Err", strm, needs_reset)
  /\ UNCHANGED <<out, broken, stream, buffer, server, got, lost>>
  /\ Disown(TRUE)

\* IGNORED is a protocol error; the session stays marked for RESET.
ReadIgnored ==
  /\ at \in Awaits \ (Draining \union Establishing)
  /\ Take({"IGNORED"})
  /\ Leave("Err", IF at = "batch" THEN "done" ELSE strm, needs_reset)
  /\ UNCHANGED <<out, broken, stream, buffer, server, got, lost>>
  /\ Disown(TRUE)

-----------------------------------------------------------------------------
(* The server (external): one answer per request, in order. *)

ServerStates == {"NEGOTIATION", "AUTHENTICATION", "READY", "STREAMING",
                 "TX_READY", "TX_STREAMING", "FAILED"}

\* <<request, state, reply, next state>> of the requests it carries out.
Transitions ==
  { <<"HELLO",    "NEGOTIATION",    "SUCCESS", "AUTHENTICATION">>,
    <<"LOGON",    "AUTHENTICATION", "SUCCESS", "READY">>,
    <<"RUN",      "READY",          "SUCCESS", "STREAMING">>,
    <<"PULL",     "STREAMING",      "SUCCESS", "READY">>,
    <<"PULL",     "STREAMING",      "MORE",    "STREAMING">>,
    <<"DISCARD",  "STREAMING",      "SUCCESS", "READY">>,
    <<"ROUTE",    "READY",          "SUCCESS", "READY">>,
    <<"BEGIN",    "READY",          "SUCCESS", "TX_READY">>,
    <<"RUN",      "TX_READY",       "SUCCESS", "TX_STREAMING">>,
    <<"PULL",     "TX_STREAMING",   "SUCCESS", "TX_READY">>,
    <<"PULL",     "TX_STREAMING",   "MORE",    "TX_STREAMING">>,
    <<"DISCARD",  "TX_STREAMING",   "SUCCESS", "TX_READY">>,
    <<"COMMIT",   "TX_READY",       "SUCCESS", "READY">>,
    <<"ROLLBACK", "TX_READY",       "SUCCESS", "READY">>,
    <<"ROLLBACK", "TX_STREAMING",   "SUCCESS", "READY">> }

\* The request the server is working on.
Serving(i) ==
  /\ up
  /\ i \in 1..Len(wire)
  /\ wire[i].reply = "none"
  /\ \A j \in 1..(i - 1) : wire[j].reply # "none"

Answer(i, reply, state) ==
  /\ Serving(i)
  /\ wire' = [wire EXCEPT ![i].reply = reply]
  /\ srv' = state
  /\ UNCHANGED <<at, op, out, session, tx, strm, stream, buffer, got, stale, lost>>

ServeRequest(i) ==
  \E t \in Transitions :
    /\ wire[i].sig = t[1] /\ srv = t[2]
    /\ t[3] = "MORE" => wire[i].n = 0
    /\ Answer(i, t[3], t[4])
    /\ cursor' = IF t[1] = "RUN" THEN 0 ELSE cursor
    /\ UNCHANGED up

\* Any request may be refused, one that does not fit the state is.
ServeFailure(i) ==
  /\ wire[i].sig # "RESET" /\ srv # "FAILED"
  /\ Answer(i, "FAILURE", "FAILED")
  /\ UNCHANGED <<up, cursor>>

\* After a failure, or once a RESET is in sight, requests are ignored.
ServeIgnored(i) ==
  /\ wire[i].sig # "RESET"
  /\ srv = "FAILED" \/ \E j \in i..Len(wire) : wire[j].sig = "RESET"
  /\ Answer(i, "IGNORED", "FAILED")
  /\ UNCHANGED <<up, cursor>>

\* RESET brings the session back to READY, or ends it.
ServeReset(i) ==
  /\ wire[i].sig = "RESET"
  /\ \/ Answer(i, "SUCCESS", "READY") /\ UNCHANGED up
     \/ Answer(i, "FAILURE", srv) /\ up' = FALSE
  /\ UNCHANGED cursor

ServeJunk(i) ==
  /\ Answer(i, "JUNK", srv)
  /\ UNCHANGED <<up, cursor>>

\* PULL {n}: a record, of the n that are left to send.
WithRecord(e, row) ==
  [sig |-> e.sig, n |-> IF e.n = -1 THEN -1 ELSE e.n - 1,
   rows |-> Append(e.rows, row), reply |-> e.reply]

ServeRecord(i) ==
  /\ Serving(i)
  /\ wire[i].sig = "PULL" /\ wire[i].n # 0
  /\ srv \in {"STREAMING", "TX_STREAMING"}
  /\ cursor < MaxRows
  /\ cursor' = cursor + 1
  /\ wire' = [wire EXCEPT ![i] = WithRecord(wire[i], cursor + 1)]
  /\ UNCHANGED <<at, op, out, session, tx, strm, stream, buffer, srv, up, got,
                 stale, lost>>

Serve(i) ==
  \/ ServeRequest(i) \/ ServeFailure(i) \/ ServeIgnored(i)
  \/ ServeReset(i) \/ ServeJunk(i) \/ ServeRecord(i)

Hangup ==
  /\ at # "closed" /\ up
  /\ up' = FALSE
  /\ UNCHANGED <<at, op, out, session, tx, strm, stream, buffer, wire, srv,
                 cursor, got, stale, lost>>

-----------------------------------------------------------------------------
Operation ==
  \/ Connect \/ Close \/ Reset
  \/ \E o \in {"run", "begin", "route"} : Call(o, -1)
  \/ \E b \in Batches : Call("run_stream", b)
  \/ TxCall("tx_run", -1)
  \/ \E b \in Batches : TxCall("tx_run_stream", b)
  \/ TxRefuse \/ Commit \/ Rollback \/ TxDrop
  \/ NextBuffered \/ NextFetch \/ FinishDone \/ Finish \/ StreamDrop

\* What an await may resume with.
WriteEnds == Write \/ EncodeFails \/ Cut
ReadEnds ==
  \/ ReadTimeout \/ ReadBroken \/ ReadRecord \/ ReadUnexpected
  \/ ReadHello \/ ReadLogon \/ ReadOwed \/ ReadReset \/ ReadResetRefused
  \/ ReadRun \/ ReadEnd \/ ReadBegin \/ ReadBatch \/ ReadDiscard
  \/ ReadFailure \/ ReadBeginFailure \/ ReadIgnored

Next ==
  \/ Operation \/ Cancel \/ WriteEnds \/ ReadEnds
  \/ Handshake \/ ConnectFails
  \/ \E i \in 1..Len(wire) : Serve(i)
  \/ Hangup

Spec == Init /\ [][Next]_vars

-----------------------------------------------------------------------------
(* Properties *)

\* Every variable stays in the type its field or its role in the code gives it.
TypeOK ==
  /\ at \in Awaits \union {"closed", "handshake", "idle"}
  /\ op \in Ops
  /\ out \in Seq(Request)
  /\ needs_reset \in BOOLEAN /\ pending \in Nat /\ broken \in BOOLEAN
  /\ tx \in {"none", "open", "done"} /\ strm \in {"none", "open", "done"}
  /\ has_more \in BOOLEAN /\ pull_in_flight \in BOOLEAN
  /\ batch \in Int /\ buffer \in Seq(Nat)
  /\ wire \in Seq(Exchange)
  /\ srv \in ServerStates /\ up \in BOOLEAN /\ cursor \in Nat
  /\ got \in Nat /\ stale \in Nat /\ lost \in BOOLEAN

\* `pending' counts exactly the requests whose summary is unread, whatever was
\* cancelled, failed or timed out, as long as the framing is intact; a write
\* under way has not been counted yet.
PendingCountsOwed ==
  ~broken \/ out # << >> => pending = Len(wire)

\* reset drains exactly the replies owed: while it reads there is one to read,
\* and the last one is RESET's own, so no other can end the drain and nothing
\* is left behind it.
DrainEndsAtReset ==
  Reading /\ at \in Draining =>
    wire # << >> /\ wire[Len(wire)].sig = "RESET" /\ pending = Len(wire)

\* The request whose reply is awaited at an await point.
Awaited ==
  [hello |-> "HELLO", logon |-> "LOGON", run |-> "RUN", pull |-> "PULL",
   batch |-> "PULL", discard |-> "DISCARD", begin |-> "BEGIN",
   route |-> "ROUTE", commit |-> "COMMIT", rollback |-> "ROLLBACK"]

TakesOwnReply ==
  wire # << >> /\ stale = 0 /\ wire[1].sig = Awaited[at]

\* An operation reads the reply of the request it has just sent, never one
\* owed to an earlier operation that was cancelled or timed out.  rollback(),
\* which does not go through guard_open, is the exception.
ReplyIsOwn ==
  Reading /\ at \in DOMAIN Awaited \ {"rollback"} => TakesOwnReply

\* The same of every operation, as the doc of BoltConnection promises: a
\* dropped future "never desynchronizes the session".
EveryReplyIsOwn ==
  Reading /\ at \in DOMAIN Awaited => TakesOwnReply

\* is_ready() on a connection nothing borrows: the server really is READY and
\* owes nothing, unless it hung up since.
ReadyMeansReady ==
  Free /\ is_ready /\ up => srv = "READY" /\ wire = << >>

\* guard_open lets a statement or a COMMIT through only while the server is in
\* the transaction, idle; a FAILURE in one of its streams is the exception.
TxIsLive ==
  TxFree /\ guard_open /\ ~lost => srv = "TX_READY" /\ wire = << >>

\* The same without exception: a FAILURE aborts the transaction, and "further
\* statements or commit then error client-side" (doc of Transaction::run).
TxAlwaysLive ==
  TxFree /\ guard_open => srv = "TX_READY"

\* The rows of the open statement that the caller has not been given, in the
\* buffer and behind it on the wire, are the ones after the last it was given:
\* none is lost, repeated or reordered when next() is cancelled or times out.
RowsInOrder ==
  (strm = "open" \/ at = "pull") /\ ~broken =>
    LET unread == buffer \o (IF wire = << >> THEN << >> ELSE wire[1].rows)
    IN  unread = [k \in 1..(cursor - got) |-> got + k]

\* A connection whose framing is lost never writes again and never becomes
\* usable again.
BrokenIsFinal ==
  [][broken /\ out = << >> => out' = << >> /\ (broken' \/ at' = "closed")]_vars
=============================================================================
