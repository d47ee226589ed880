---------------------------- MODULE SessionProofs ---------------------------
(***************************************************************************)
(* What Connection guarantees about the server's side of a session: where  *)
(* the server is when the client believes it ready or in a transaction, and*)
(* which rows of the open statement are still to come.                     *)
(***************************************************************************)
EXTENDS ConnectionProofs

-----------------------------------------------------------------------------
(* What the server's state is, and what the statement's rows are *)

\* The framing is intact: a write under way has sent nothing yet.
Intact == ~broken \/ out # << >>

\* Where the server is between statements, and while it has one open.
InTx == tx = "open" /\ ~lost
Base == IF InTx THEN "TX_READY" ELSE "READY"
Mid  == IF InTx THEN "TX_STREAMING" ELSE "STREAMING"

\* Replies come in order.
InvOrder ==
  \A i, j \in 1..Len(wire) :
    i < j /\ wire[j].reply # "none" => wire[i].reply # "none"

\* Requests whose SUCCESS leaves the server in READY, wherever it was.
Ending == {"LOGON", "ROUTE", "COMMIT", "ROLLBACK", "RESET"}

\* Where the answer to the last request has left the server.
Left(e) ==
  /\ e.sig \in Ending /\ e.reply \in Successes => srv = "READY"
  /\ e.sig = "BEGIN" /\ e.reply \in Successes => srv = "TX_READY"
  /\ e.sig = "RESET" /\ e.reply \in {"FAILURE", "IGNORED"} => ~up

InvLast == wire # << >> => Left(wire[Len(wire)])

\* Where a PULL (or a DISCARD) of an open statement leaves it.
Pulling(e) ==
  /\ e.reply = "none" => srv = Mid
  /\ e.reply = "SUCCESS" => srv = Base
  /\ e.reply = "MORE" => srv = Mid /\ e.n = 0 /\ e.sig = "PULL"

\* Between operations, with nothing to reset, the server is where the handles
\* say it is.
InvBetween ==
  at = "idle" /\ ~broken /\ ~needs_reset =>
    /\ InTx => srv = "TX_READY"
    /\ ~InTx /\ up /\ wire = << >> => srv = "READY"

\* A statement being started.
InvRunning ==
  at = "run" =>
    /\ out # << >> => (up => srv = Base)
    /\ out = << >> =>
         /\ wire[1].reply = "none" => (up => srv = Base)
         /\ wire[1].reply \in Successes => Pulling(wire[2])

\* A statement being read.
InvPulling ==
  /\ at = "pull" => Pulling(wire[1])
  /\ strm = "open" /\ has_more /\ Intact =>
       IF pull_in_flight THEN Pulling(wire[1]) ELSE srv = Mid
  /\ at = "discard" => IF out = << >> THEN Pulling(wire[1]) ELSE srv = Mid

\* run asks for everything at once.
InvWhole ==
  /\ at = "run" /\ op \in {"run", "tx_run"} =>
       IF out = << >> THEN wire[2].n = -1 ELSE out[2].n = -1
  /\ at = "pull" => wire[1].n = -1
  /\ at = "run" => op \in {"run", "tx_run"} \union StreamOps

\* What rollback waits for, and what fail_reset knows of its transaction.
InvEnding ==
  /\ at = "rollback" => IF out = << >>
       THEN wire # << >> /\ wire[Len(wire)].sig = "ROLLBACK"
       ELSE One(out, "ROLLBACK")
  /\ at = "fail_reset" /\ tx = "open" => lost \/ op \in TxOps
  /\ at \in {"run", "pull"} /\ op \notin TxOps => tx = "none"
  /\ at = "begin" => needs_reset

\* s holds the rows behind row g, in order.
Behind(s, g) == \A k \in 1..Len(s) : s[k] = g + k

Arrived == IF wire = << >> THEN << >> ELSE wire[1].rows

\* The rows of the open statement.
InvRows ==
  /\ at \in {"clean", "run"} => buffer = << >> /\ got = 0
  /\ at = "run" /\ out = << >> =>
       /\ wire[1].rows = << >>
       /\ wire[1].reply = "none" => wire[2].rows = << >>
       /\ wire[1].reply \in Successes =>
            Behind(wire[2].rows, 0) /\ cursor = Len(wire[2].rows)
  /\ (strm = "open" /\ Intact) \/ at = "pull" =>
       /\ Behind(buffer, got)
       /\ Behind(Arrived, got + Len(buffer))
       /\ cursor = got + Len(buffer) + Len(Arrived)

\* The second inductive invariant, on top of Inv.
Served ==
  /\ InvOrder /\ InvLast
  /\ InvBetween /\ InvRunning /\ InvPulling /\ InvWhole /\ InvEnding
  /\ InvRows

-----------------------------------------------------------------------------
(* The wire, exchange by exchange *)

\* A completed or partial write appends unanswered exchanges, and leaves those
\* already owed.
LEMMA ConcatSent ==
  ASSUME NEW w \in Seq(Exchange), NEW r \in Seq(Request)
  PROVE  \A i \in 1..Len(r) : (w \o AllSent(r))[Len(w) + i] = Sent(r[i])
<1> DEFINE a == AllSent(r)
<1>1. /\ a \in Seq(Exchange) /\ Len(a) = Len(r)
      /\ \A i \in 1..Len(r) : a[i] = Sent(r[i])
  <2>1. a \in Seq(Exchange) /\ Len(a) = Len(r)
    BY SentExchange
  <2> QED  BY <2>1 DEF AllSent
<1>2. Len(w) \in Nat /\ Len(r) \in Nat
  OBVIOUS
<1> HIDE DEF a
<1>3. \A i \in 1 .. Len(w) + Len(a) :
        (w \o a)[i] = IF i <= Len(w) THEN w[i] ELSE a[i - Len(w)]
  <2>1. \A T : \A u, v \in Seq(T) :
          \A i \in 1 .. Len(u) + Len(v) :
            (u \o v)[i] = IF i <= Len(u) THEN u[i] ELSE v[i - Len(u)]
    BY ConcatProperties
  <2>2. a \in Seq(Exchange)
    BY <1>1
  <2> QED  BY <2>1, <2>2, Zenon
<1>4. \A i \in 1..Len(r) : (w \o a)[Len(w) + i] = a[i]
  <2> TAKE i \in 1..Len(r)
  <2>1. /\ Len(w) + i \in 1..(Len(w) + Len(a)) /\ ~(Len(w) + i <= Len(w))
        /\ (Len(w) + i) - Len(w) = i
    BY <1>1, <1>2
  <2> QED  BY <1>3, <2>1
<1>5. \A i \in 1..Len(r) : (w \o a)[Len(w) + i] = Sent(r[i])
  BY <1>1, <1>4
<1> QED  BY <1>5 DEF a

\* write_messages put r behind what was owed, all of it unanswered.
Sends(r) ==
  /\ Len(wire') = Len(wire) + Len(r)
  /\ \A i \in 1..Len(wire) : wire'[i] = wire[i]
  /\ \A i \in 1..Len(r) : wire'[Len(wire) + i] = Sent(r[i])

\* read_message took the first summary.
Takes ==
  /\ Len(wire) >= 1 /\ Len(wire') = Len(wire) - 1
  /\ \A i \in 1..Len(wire') : wire'[i] = wire[i + 1]

\* read_message took the first record.
TakesRow ==
  /\ Len(wire) >= 1 /\ Len(wire') = Len(wire)
  /\ \A i \in 2..Len(wire) : wire'[i] = wire[i]
  /\ wire'[1].sig = wire[1].sig /\ wire'[1].n = wire[1].n
  /\ wire'[1].reply = wire[1].reply
  /\ wire[1].rows # << >> /\ wire'[1].rows = Tail(wire[1].rows)

\* Every write_messages appends.
LEMMA SendsFacts ==
  ASSUME TypeOK, NEW r \in Seq(Request), wire' = wire \o AllSent(r)
  PROVE  Sends(r)
  BY ConcatExchange, ConcatSent DEF TypeOK, Sends

\* Every summary comes off the front.
LEMMA TakesFacts ==
  ASSUME TypeOK, NEW rs, Take(rs)
  PROVE  Takes
<1>1. wire \in Seq(Exchange) /\ wire # << >> /\ wire' = Tail(wire)
  BY DEF TypeOK, Take
<1> QED  BY <1>1, TailExchange DEF Takes

\* Every record comes off the first exchange.
LEMMA TakesRowFacts ==
  ASSUME TypeOK, TakeRecord
  PROVE  TakesRow
<1>1. wire[1] \in Exchange /\ 1 \in 1..Len(wire) /\ wire \in Seq(Exchange)
  BY DEF TypeOK, TakeRecord
<1>2. wire' = [wire EXCEPT ![1] = [wire[1] EXCEPT !.rows = Tail(@)]]
  BY <1>1 DEF TakeRecord, Exchange
<1>3. /\ [wire[1] EXCEPT !.rows = Tail(@)].sig = wire[1].sig
      /\ [wire[1] EXCEPT !.rows = Tail(@)].n = wire[1].n
      /\ [wire[1] EXCEPT !.rows = Tail(@)].reply = wire[1].reply
      /\ [wire[1] EXCEPT !.rows = Tail(@)].rows = Tail(wire[1].rows)
  BY <1>1 DEF Exchange
<1>4. wire[1].rows # << >>
  BY DEF TakeRecord
<1> QED  BY <1>1, <1>2, <1>3, <1>4 DEF TakesRow

-----------------------------------------------------------------------------
(* The server *)

\* The server works on the exchanges in order and leaves the others alone.
OnlyAt(i) ==
  /\ i \in 1..Len(wire) /\ Len(wire') = Len(wire)
  /\ \A j \in 1..Len(wire) : j # i => wire'[j] = wire[j]
  /\ wire'[i].sig = wire[i].sig
  /\ wire[i].reply = "none"
  /\ \A j \in 1..(i - 1) : wire[j].reply # "none"
  /\ up

\* What a SUCCESS of the server means.
Carried(e, r) ==
  /\ e.sig \in Ending => srv' = "READY"
  /\ e.sig = "BEGIN" => srv' = "TX_READY"
  /\ e.sig = "RUN" => \/ srv = "READY" /\ srv' = "STREAMING"
                      \/ srv = "TX_READY" /\ srv' = "TX_STREAMING"
  /\ e.sig = "RUN" => cursor' = 0
  /\ e.sig # "RUN" => cursor' = cursor
  /\ e.sig \in {"PULL", "DISCARD"} /\ r = "SUCCESS" =>
       \/ srv = "STREAMING" /\ srv' = "READY"
       \/ srv = "TX_STREAMING" /\ srv' = "TX_READY"
  /\ r = "MORE" => e.sig = "PULL" /\ e.n = 0 /\ srv' = srv

\* A summary r for exchange i.
Summary(i, r) ==
  /\ r # "none" /\ wire'[i].reply = r
  /\ wire'[i].n = wire[i].n /\ wire'[i].rows = wire[i].rows
  /\ r \in Successes => Carried(wire[i], r)
  /\ r \notin Successes => cursor' = cursor
  /\ wire[i].sig = "RESET" /\ r \in {"FAILURE", "IGNORED"} => ~up'

\* One more record for exchange i.
Record(i) ==
  /\ wire[i].sig = "PULL" /\ wire'[i].reply = "none"
  /\ wire[i].n = -1 => wire'[i].n = -1
  /\ wire'[i].rows = Append(wire[i].rows, cursor + 1)
  /\ cursor' = cursor + 1 /\ srv' = srv /\ up' = up

\* Answer writes the reply and nothing else.
LEMMA AnswerFacts ==
  ASSUME TypeOK, NEW i, NEW reply, NEW state, Answer(i, reply, state)
  PROVE  /\ OnlyAt(i)
         /\ wire'[i].reply = reply
         /\ wire'[i].n = wire[i].n /\ wire'[i].rows = wire[i].rows
         /\ srv' = state
<1>1. wire[i] \in Exchange /\ i \in 1..Len(wire) /\ wire \in Seq(Exchange)
  BY DEF TypeOK, Answer, Serving
<1>2. /\ [wire[i] EXCEPT !.reply = reply].sig = wire[i].sig
      /\ [wire[i] EXCEPT !.reply = reply].n = wire[i].n
      /\ [wire[i] EXCEPT !.reply = reply].rows = wire[i].rows
      /\ [wire[i] EXCEPT !.reply = reply].reply = reply
  BY <1>1 DEF Exchange
<1>3. wire' = [wire EXCEPT ![i] = [wire[i] EXCEPT !.reply = reply]]
  BY <1>1 DEF Answer
<1> QED  BY <1>1, <1>2, <1>3 DEF OnlyAt, Answer, Serving

\* A step of the server is a summary or a record, for the first exchange it
\* has not answered, and what it may say depends on its state.
LEMMA ServeFacts ==
  ASSUME TypeOK, NEW i \in 1..Len(wire), Serve(i)
  PROVE  /\ OnlyAt(i)
         /\ Record(i) \/ \E r \in Replies : Summary(i, r)
         /\ up' => up
         /\ UNCHANGED <<at, op, out, session, tx, strm, stream, buffer, got,
                        stale, lost>>
<1>0. UNCHANGED <<at, op, out, session, tx, strm, stream, buffer, got, stale, lost>>
  BY ServeTypes
<1>1. CASE ServeRequest(i)
  <2>1. PICK t \in Transitions :
          /\ wire[i].sig = t[1] /\ srv = t[2]
          /\ t[3] = "MORE" => wire[i].n = 0
          /\ Answer(i, t[3], t[4])
          /\ cursor' = IF t[1] = "RUN" THEN 0 ELSE cursor
          /\ UNCHANGED up
    BY <1>1 DEF ServeRequest
  <2>2. /\ OnlyAt(i) /\ wire'[i].reply = t[3] /\ srv' = t[4]
        /\ wire'[i].n = wire[i].n /\ wire'[i].rows = wire[i].rows
    BY <2>1, AnswerFacts
  <2>3. Carried(wire[i], t[3]) /\ t[3] \in Successes /\ t[1] # "RESET"
    BY <2>1, <2>2 DEF Carried, Transitions, Ending, Successes
  <2>4. Summary(i, t[3]) /\ t[3] \in Replies
    BY <2>1, <2>2, <2>3 DEF Summary, Successes, Summaries, Replies
  <2> QED  BY <1>0, <2>1, <2>2, <2>4
<1>2. CASE ServeFailure(i)
  BY <1>0, <1>2, AnswerFacts
  DEF ServeFailure, Summary, Successes, Summaries, Replies
<1>3. CASE ServeIgnored(i)
  BY <1>0, <1>3, AnswerFacts
  DEF ServeIgnored, Summary, Successes, Summaries, Replies
<1>4. CASE ServeReset(i)
  <2>1. CASE Answer(i, "SUCCESS", "READY") /\ UNCHANGED up
    <3>1. Carried(wire[i], "SUCCESS")
      BY <1>4, <2>1 DEF ServeReset, Carried, Answer
    <3> QED  BY <1>0, <1>4, <2>1, <3>1, AnswerFacts
      DEF ServeReset, Summary, Successes, Summaries, Replies
  <2>2. CASE Answer(i, "FAILURE", srv) /\ up' = FALSE
    BY <1>0, <1>4, <2>2, AnswerFacts
    DEF ServeReset, Summary, Successes, Summaries, Replies
  <2> QED  BY <1>4, <2>1, <2>2 DEF ServeReset
<1>5. CASE ServeJunk(i)
  BY <1>0, <1>5, AnswerFacts
  DEF ServeJunk, Summary, Successes, Summaries, Replies
<1>6. CASE ServeRecord(i)
  <2>1. wire[i] \in Exchange /\ i \in 1..Len(wire) /\ wire \in Seq(Exchange)
    BY DEF TypeOK
  <2>2. wire' = [wire EXCEPT ![i] = WithRecord(wire[i], cursor + 1)]
    BY <1>6 DEF ServeRecord
  <2>3. /\ WithRecord(wire[i], cursor + 1).sig = wire[i].sig
        /\ WithRecord(wire[i], cursor + 1).reply = wire[i].reply
        /\ WithRecord(wire[i], cursor + 1).rows = Append(wire[i].rows, cursor + 1)
        /\ wire[i].n = -1 => WithRecord(wire[i], cursor + 1).n = -1
    BY DEF WithRecord
  <2>4. OnlyAt(i) /\ Record(i)
    BY <1>6, <2>1, <2>2, <2>3 DEF ServeRecord, Serving, OnlyAt, Record
  <2> QED  BY <1>0, <2>4 DEF Record
<1> QED  BY <1>1, <1>2, <1>3, <1>4, <1>5, <1>6 DEF Serve

-----------------------------------------------------------------------------
(* Replies in order *)

\* How a step may change the wire and the server.
Moves ==
  \/ UNCHANGED <<wire, srv>> /\ (up' => up)
  \/ wire' = << >>
  \/ UNCHANGED <<srv, up>> /\ \E r \in Seq(Request) : Sends(r)
  \/ UNCHANGED <<srv, up>> /\ (Takes \/ TakesRow)
  \/ \E i \in 1..Len(wire) : Serve(i)

\* Every step is one of these.
LEMMA StepMoves == TypeOK /\ [Next]_vars => Moves
<1> SUFFICES ASSUME TypeOK, [Next]_vars PROVE Moves
  OBVIOUS
<1>1. CASE UNCHANGED vars \/ Connect \/ Reset \/ Handshake \/ Hangup
  BY <1>1 DEF vars, Connect, Reset, Handshake, Hangup, server, Moves
<1>2. CASE Close \/ ConnectFails
  BY <1>2 DEF Close, ConnectFails, Gone, Moves
<1>3. CASE \/ \E o \in {"run", "begin", "route"} : Call(o, -1)
           \/ \E b \in Batches : Call("run_stream", b)
           \/ TxCall("tx_run", -1)
           \/ \E b \in Batches : TxCall("tx_run_stream", b)
  BY <1>3 DEF Call, TxCall, server, Moves
<1>4. CASE TxRefuse \/ Commit \/ Rollback \/ TxDrop
  BY <1>4 DEF TxRefuse, Commit, Rollback, TxDrop, server, Moves
<1>5. CASE NextBuffered \/ NextFetch \/ FinishDone \/ Finish \/ StreamDrop
  BY <1>5 DEF NextBuffered, NextFetch, FinishDone, Finish, StreamDrop, server, Moves
<1>6. CASE Cancel \/ EncodeFails \/ ReadTimeout \/ ReadBroken
  BY <1>6 DEF Cancel, EncodeFails, ReadTimeout, ReadBroken, server, Moves
<1>7. CASE Write
  BY <1>7, SendsFacts DEF Write, TypeOK, server, Moves
<1>8. CASE Cut
  <2>1. PICK k \in 0..Len(out) : wire' = wire \o AllSent(SubSeq(out, 1, k))
    BY <1>8 DEF Cut
  <2>2. SubSeq(out, 1, k) \in Seq(Request)
    BY DEF TypeOK
  <2>3. Sends(SubSeq(out, 1, k))
    BY <2>1, <2>2, SendsFacts
  <2>4. UNCHANGED <<srv, up>>
    BY <1>8 DEF Cut, server
  <2> QED  BY <2>2, <2>3, <2>4 DEF Moves
<1>9. CASE ReadRecord \/ ReadUnexpected
  BY <1>9, TakesRowFacts DEF ReadRecord, ReadUnexpected, TakeRecord, server, Moves
<1>10. ASSUME NEW rs, Take(rs), UNCHANGED server
       PROVE  Moves
  BY <1>10, TakesFacts DEF server, Moves
<1>11. CASE \/ ReadHello \/ ReadLogon \/ ReadOwed \/ ReadReset \/ ReadResetRefused
            \/ ReadRun \/ ReadEnd \/ ReadBegin
  BY <1>10, <1>11
  DEF ReadHello, ReadLogon, ReadOwed, ReadReset, ReadResetRefused, ReadRun,
      ReadEnd, ReadBegin
<1>12. CASE \/ ReadBatch \/ ReadDiscard \/ ReadFailure \/ ReadBeginFailure
            \/ ReadIgnored
  BY <1>10, <1>12
  DEF ReadBatch, ReadDiscard, ReadFailure, ReadBeginFailure, ReadIgnored
<1>13. CASE \E i \in 1..Len(wire) : Serve(i)
  BY <1>13 DEF Moves
<1> QED
  BY <1>1, <1>2, <1>3, <1>4, <1>5, <1>6, <1>7, <1>8, <1>9, <1>11, <1>12, <1>13
  DEF Next, Operation, WriteEnds, ReadEnds

\* The server answers in order, and the last answer says where it is.
LEMMA WireStep ==
  TypeOK /\ InvOrder /\ InvLast /\ [Next]_vars => InvOrder' /\ InvLast'
<1> SUFFICES ASSUME TypeOK, InvOrder, InvLast, [Next]_vars
             PROVE  InvOrder' /\ InvLast'
  OBVIOUS
<1>e. /\ TypeOK'
      /\ Len(wire) \in Nat /\ (wire = << >> <=> Len(wire) = 0)
      /\ Len(wire') \in Nat /\ (wire' = << >> <=> Len(wire') = 0)
  BY TypeStep, EmptyLen DEF TypeOK
<1>m. Moves
  BY StepMoves
<1>1. CASE UNCHANGED <<wire, srv>> /\ (up' => up)
  BY <1>1 DEF InvOrder, InvLast, Left
<1>2. CASE wire' = << >>
  BY <1>2, <1>e DEF InvOrder, InvLast
<1>3. CASE UNCHANGED <<srv, up>> /\ \E r \in Seq(Request) : Sends(r)
  <2>1. PICK r \in Seq(Request) : Sends(r)
    BY <1>3
  <2>2. Len(r) \in Nat
    OBVIOUS
  <2>3. \A i \in 1..Len(wire') :
          \/ i \in 1..Len(wire) /\ wire'[i] = wire[i]
          \/ i > Len(wire) /\ wire'[i].reply = "none"
    <3> TAKE i \in 1..Len(wire')
    <3>1. CASE i <= Len(wire)
      BY <1>e, <2>1, <3>1 DEF Sends
    <3>2. CASE i > Len(wire)
      <4>1. i - Len(wire) \in 1..Len(r) /\ Len(wire) + (i - Len(wire)) = i
        BY <1>e, <2>1, <2>2, <3>2 DEF Sends
      <4>2. wire'[i] = Sent(r[i - Len(wire)])
        BY <2>1, <4>1 DEF Sends
      <4> QED  BY <3>2, <4>2 DEF Sent
    <3> QED  BY <1>e, <3>1, <3>2
  <2>4. InvOrder'
    BY <1>e, <2>3 DEF InvOrder
  <2>5. InvLast'
    <3>1. CASE Len(r) = 0
      BY <1>3, <1>e, <2>1, <2>3, <3>1 DEF Sends, InvLast, Left
    <3>2. CASE Len(r) > 0
      BY <1>3, <1>e, <2>1, <2>2, <2>3, <3>2 DEF Sends, InvLast, Left, Successes
    <3> QED  BY <2>2, <3>1, <3>2
  <2> QED  BY <2>4, <2>5
<1>4. CASE UNCHANGED <<srv, up>> /\ Takes
  <2>1. InvOrder'
    <3>1. \A i \in 1..Len(wire') : i + 1 \in 1..Len(wire) /\ wire'[i] = wire[i + 1]
      BY <1>4, <1>e DEF Takes
    <3>2. SUFFICES ASSUME NEW i \in 1..Len(wire'), NEW j \in 1..Len(wire'), i < j,
                          wire'[j].reply # "none"
                   PROVE  wire'[i].reply # "none"
      BY DEF InvOrder
    <3>3. /\ i + 1 \in 1..Len(wire) /\ j + 1 \in 1..Len(wire) /\ i + 1 < j + 1
          /\ wire'[i] = wire[i + 1] /\ wire'[j] = wire[j + 1]
      BY <1>e, <3>1, <3>2
    <3> QED  BY <3>2, <3>3 DEF InvOrder
  <2>2. InvLast'
    <3>1. wire' # << >> => wire # << >> /\ wire'[Len(wire')] = wire[Len(wire)]
      BY <1>4, <1>e DEF Takes
    <3> QED  BY <1>4, <3>1 DEF InvLast, Left
  <2> QED  BY <2>1, <2>2
<1>5. CASE UNCHANGED <<srv, up>> /\ TakesRow
  <2>1. \A i \in 1..Len(wire) : /\ wire'[i].reply = wire[i].reply
                                /\ wire'[i].sig = wire[i].sig
    BY <1>5, <1>e DEF TakesRow
  <2>2. Len(wire') = Len(wire)
    BY <1>5 DEF TakesRow
  <2> QED  BY <1>5, <1>e, <2>1, <2>2 DEF InvOrder, InvLast, Left
<1>6. CASE \E i \in 1..Len(wire) : Serve(i)
  <2>1. PICK i \in 1..Len(wire) : Serve(i)
    BY <1>6
  <2>2. OnlyAt(i) /\ (Record(i) \/ \E r \in Replies : Summary(i, r)) /\ (up' => up)
    BY <2>1, ServeFacts
  <2>3. InvOrder'
    <3>1. \A j \in 1..Len(wire) :
            /\ j # i => wire'[j].reply = wire[j].reply
            /\ j < i => wire[j].reply # "none"
            /\ i < j => wire[j].reply = "none"
      BY <1>e, <2>2 DEF OnlyAt, InvOrder
    <3>2. Len(wire') = Len(wire)
      BY <2>2 DEF OnlyAt
    <3> QED  BY <1>e, <3>1, <3>2 DEF InvOrder
  <2>4. CASE i = Len(wire)
    <3>1. wire' # << >> /\ wire'[Len(wire')] = wire'[i]
      BY <1>e, <2>2, <2>4 DEF OnlyAt
    <3>2. Left(wire[i])'
      BY <2>2 DEF OnlyAt, Record, Summary, Carried, Left, Ending, Successes
    <3> QED  BY <2>3, <3>1, <3>2 DEF InvLast, Left
  <2>5. CASE i # Len(wire)
    <3>1. wire'[Len(wire')] = wire[Len(wire)] /\ wire[Len(wire)].reply = "none"
      BY <1>e, <2>2, <2>5 DEF OnlyAt, InvOrder
    <3> QED  BY <2>3, <3>1, <1>e DEF InvLast, Left, Successes
  <2> QED  BY <2>4, <2>5
<1> QED  BY <1>m, <1>1, <1>2, <1>3, <1>4, <1>5, <1>6 DEF Moves

-----------------------------------------------------------------------------
(* Where the server is *)

\* The parts of the invariant about the server's state.
Placed == InvBetween /\ InvRunning /\ InvPulling /\ InvWhole /\ InvEnding

\* run and Transaction::run pull every row at once.
LEMMA StartWhole ==
  ASSUME NEW o \in {"run", "tx_run"}, NEW b, Start(o, b)
  PROVE  out'[2].n = -1
<1>1. out' = <<Req("RUN"), Req("PULL")>>
  BY DEF Start, Send, FirstRequests, StreamOps
<1> QED  BY <1>1 DEF Req

\* A step of the client leaves the server where it was; a step of the server
\* is one that its state allows.
LEMMA PlacedStep ==
  Inv /\ InvOrder /\ InvLast /\ Placed /\ [Next]_vars => Placed'
<1> SUFFICES ASSUME Inv, InvOrder, InvLast, Placed, [Next]_vars PROVE Placed'
  OBVIOUS
<1>0. /\ TypeOK /\ TypeOK' /\ PendingCountsOwed
      /\ InvWriting /\ InvReading /\ InvIdle /\ InvHandles
      /\ InvBetween /\ InvRunning /\ InvPulling /\ InvWhole /\ InvEnding
  BY TypeStep DEF Inv, Placed
<1>e. /\ Len(wire) \in Nat /\ (wire = << >> <=> Len(wire) = 0)
      /\ Len(wire') \in Nat /\ (wire' = << >> <=> Len(wire') = 0)
      /\ Len(out) \in Nat /\ (out = << >> <=> Len(out) = 0)
      /\ Len(out') \in Nat /\ (out' = << >> <=> Len(out') = 0)
      /\ pending \in Nat
  BY <1>0, EmptyLen DEF TypeOK
<1>a. /\ Awaited["hello"] = "HELLO" /\ Awaited["logon"] = "LOGON"
      /\ Awaited["begin"] = "BEGIN" /\ Awaited["route"] = "ROUTE"
      /\ Awaited["commit"] = "COMMIT" /\ Awaited["discard"] = "DISCARD"
      /\ Awaited["pull"] = "PULL" /\ Awaited["batch"] = "PULL"
  BY DEF Awaited
<1>r. Reading => /\ out = << >> /\ ~broken /\ pending = Len(wire)
                 /\ at \in Draining => wire[Len(wire)].sig = "RESET" /\ wire # << >>
                 /\ at = "run" => RunPull(wire)
                 /\ at \in OneReply => Len(wire) = 1 /\ wire # << >>
                 /\ at = "logon" => wire[1].sig = "LOGON"
                 /\ at = "begin" => wire[1].sig = "BEGIN"
                 /\ at = "route" => wire[1].sig = "ROUTE"
                 /\ at = "commit" => wire[1].sig = "COMMIT"
                 /\ at = "discard" => wire[1].sig = "DISCARD"
                 /\ at \in Collecting => wire[1].sig = "PULL"
  BY <1>0, <1>a, <1>e
  DEF InvReading, PendingCountsOwed, Reading, One, OneReply, Collecting
<1>l. Len(wire) = 1 => Left(wire[1])
  BY <1>e DEF InvLast
<1> USE DEF session, stream, server, Reading, Awaits, Draining, Collecting, Single,
            OneReply, ConnOps, TxOps, One, RunPull, InvWriting, InvIdle,
            InvHandles, InvBetween, InvRunning, InvPulling, InvWhole, InvEnding,
            Intact, InTx, Base, Mid, Placed
<1>1. CASE Connect
  BY <1>1, <1>0, <1>e DEF Connect
<1>2. CASE Close
  BY <1>2, <1>0, <1>e DEF Close, Gone
<1>3. CASE Reset
  BY <1>3, <1>0, <1>e DEF Reset, Send, Free
<1>4. CASE \E o \in {"run", "begin", "route"} : Call(o, -1)
  <2>1. PICK o \in {"run", "begin", "route"} : Call(o, -1)
    BY <1>4
  <2>2. Start(o, -1) => Started(o)
    BY RequestTypes, StartFacts
  <2>3. Start(o, -1) /\ o = "run" => out'[2].n = -1
    BY StartWhole
  <2> QED  BY <1>0, <1>e, <2>1, <2>2, <2>3
    DEF Call, Send, Free, Started, StreamOps, PendingCountsOwed
<1>5. CASE \E b \in Batches : Call("run_stream", b)
  <2>1. PICK b \in Batches : Call("run_stream", b)
    BY <1>5
  <2>2. Start("run_stream", b) => Started("run_stream")
    BY RequestTypes, StartFacts
  <2> QED  BY <1>0, <1>e, <2>1, <2>2
    DEF Call, Send, Free, Started, StreamOps, PendingCountsOwed
<1>6. CASE TxCall("tx_run", -1)
  <2>1. Started("tx_run") /\ out'[2].n = -1
    BY <1>6, RequestTypes, StartFacts, StartWhole DEF TxCall
  <2> QED  BY <1>6, <1>0, <1>e, <2>1 DEF TxCall, TxFree, guard_open, Started, StreamOps
<1>7. CASE \E b \in Batches : TxCall("tx_run_stream", b)
  <2>1. PICK b \in Batches : TxCall("tx_run_stream", b)
    BY <1>7
  <2>2. Started("tx_run_stream")
    BY <2>1, RequestTypes, StartFacts DEF TxCall
  <2> QED  BY <1>0, <1>e, <2>1, <2>2 DEF TxCall, TxFree, guard_open, Started, StreamOps
<1>8. CASE TxRefuse
  BY <1>8, <1>0, <1>e DEF TxRefuse, TxFree
<1>9. CASE Commit
  BY <1>9, <1>0, <1>e DEF Commit, Send, TxFree, guard_open
<1>10. CASE Rollback
  <2>1. One(<<Req("ROLLBACK")>>, "ROLLBACK") /\ <<Req("ROLLBACK")>> # << >>
    BY WritesTypes DEF Signatures
  <2> QED  BY <1>10, <1>0, <1>e, <2>1 DEF Rollback, Send, TxFree
<1>11. CASE TxDrop
  BY <1>11, <1>0, <1>e DEF TxDrop, TxFree
<1>12. CASE NextBuffered
  BY <1>12, <1>0, <1>e DEF NextBuffered, StreamFree, Pulling
<1>13. CASE NextFetch
  <2>1. <<[sig |-> "PULL", n |-> batch]>> # << >>
    OBVIOUS
  <2>2. InvBetween'
    BY <1>13, <1>0, <1>e, <2>1
    DEF NextFetch, StreamFree, Fetch, Send, Pulling
  <2>3. InvRunning'
    BY <1>13, <1>0, <1>e, <2>1
    DEF NextFetch, StreamFree, Fetch, Send, Pulling
  <2>4. InvPulling'
    BY <1>13, <1>0, <1>e, <2>1
    DEF NextFetch, StreamFree, Fetch, Send, Pulling
  <2>5. InvWhole'
    BY <1>13, <1>0, <1>e, <2>1
    DEF NextFetch, StreamFree, Fetch, Send, Pulling
  <2>6. InvEnding'
    BY <1>13, <1>0, <1>e, <2>1
    DEF NextFetch, StreamFree, Fetch, Send, Pulling
  <2> QED  BY <2>2, <2>3, <2>4, <2>5, <2>6 DEF Placed
<1>14. CASE FinishDone
  BY <1>14, <1>0, <1>e DEF FinishDone, StreamFree
<1>15. CASE Finish
  <2>1. <<Req("DISCARD")>> # << >>
    OBVIOUS
  <2>2. InvBetween'
    BY <1>15, <1>0, <1>e, <2>1
    DEF Finish, StreamFree, Send, Pulling
  <2>3. InvRunning'
    BY <1>15, <1>0, <1>e, <2>1
    DEF Finish, StreamFree, Send, Pulling
  <2>4. InvPulling'
    BY <1>15, <1>0, <1>e, <2>1
    DEF Finish, StreamFree, Send, Pulling
  <2>5. InvWhole'
    BY <1>15, <1>0, <1>e, <2>1
    DEF Finish, StreamFree, Send, Pulling
  <2>6. InvEnding'
    BY <1>15, <1>0, <1>e, <2>1
    DEF Finish, StreamFree, Send, Pulling
  <2> QED  BY <2>2, <2>3, <2>4, <2>5, <2>6 DEF Placed
<1>16. CASE StreamDrop
  BY <1>16, <1>0, <1>e DEF StreamDrop, StreamFree
<1>17. CASE Cancel
  <2>1. InvBetween'
    BY <1>17, <1>0, <1>e, <1>r
    DEF Cancel, Leave, Pulling
  <2>2. InvRunning'
    BY <1>17, <1>0, <1>e, <1>r
    DEF Cancel, Leave, Pulling
  <2>3. InvPulling'
    BY <1>17, <1>0, <1>e, <1>r
    DEF Cancel, Leave, Pulling
  <2>4. InvWhole'
    BY <1>17, <1>0, <1>e, <1>r
    DEF Cancel, Leave, Pulling
  <2>5. InvEnding'
    BY <1>17, <1>0, <1>e, <1>r
    DEF Cancel, Leave, Pulling
  <2> QED  BY <2>1, <2>2, <2>3, <2>4, <2>5 DEF Placed
<1>18. CASE Write
  <2>1. Sends(out)
    BY <1>18, <1>0, SendsFacts DEF Write, TypeOK
  <2>2. \A q : Sent(q).sig = q.sig /\ Sent(q).n = q.n /\ Sent(q).reply = "none"
    BY DEF Sent
  <2>3. at = "run" => /\ Len(wire) = 0 /\ Len(out) = 2
                      /\ wire'[1] = Sent(out[1]) /\ wire'[2] = Sent(out[2])
    BY <1>18, <1>0, <1>e, <2>1 DEF Write, Sends
  <2>4. at \in {"batch", "discard"} => Len(wire) = 0 /\ wire'[1] = Sent(out[1])
    BY <1>18, <1>0, <1>e, <2>1 DEF Write, Sends
  <2>5. at = "rollback" => wire' # << >> /\ wire'[Len(wire')] = Sent(out[1])
    BY <1>18, <1>0, <1>e, <2>1 DEF Write, Sends
  <2>6. /\ out # << >> /\ out' = << >> /\ at # "pull"
        /\ UNCHANGED <<at, op>>
    BY <1>18, <1>0 DEF Write
  <2>7. InvWhole'
    BY <1>0, <2>2, <2>3, <2>6
  <2>8. InvBetween'
    BY <1>18, <1>0, <1>e, <2>2, <2>3, <2>4, <2>5
    DEF Write, Pulling, Successes
  <2>9. InvRunning'
    BY <1>18, <1>0, <1>e, <2>2, <2>3, <2>4, <2>5
    DEF Write, Pulling, Successes
  <2>10. InvPulling'
    BY <1>18, <1>0, <1>e, <2>2, <2>3, <2>4, <2>5
    DEF Write, Pulling, Successes
  <2>11. InvEnding'
    BY <1>18, <1>0, <1>e, <2>2, <2>3, <2>4, <2>5
    DEF Write, Pulling, Successes
  <2> QED  BY <2>7, <2>8, <2>9, <2>10, <2>11 DEF Placed
<1>19. CASE EncodeFails
  <2>1. at \in {"run", "begin", "route"}
    BY <1>19, <1>0, <1>a DEF EncodeFails
  <2>2. InvBetween'
    BY <1>19, <1>0, <1>e, <2>1
    DEF EncodeFails, Leave
  <2>3. InvRunning'
    BY <1>19, <1>0, <1>e, <2>1
    DEF EncodeFails, Leave
  <2>4. InvPulling'
    BY <1>19, <1>0, <1>e, <2>1
    DEF EncodeFails, Leave
  <2>5. InvWhole'
    BY <1>19, <1>0, <1>e, <2>1
    DEF EncodeFails, Leave
  <2>6. InvEnding'
    BY <1>19, <1>0, <1>e, <2>1
    DEF EncodeFails, Leave
  <2> QED  BY <2>2, <2>3, <2>4, <2>5, <2>6 DEF Placed
<1>20. CASE Cut
  BY <1>20, <1>0, <1>e DEF Cut, Leave
<1>21. CASE ReadTimeout
  <2>1. InvBetween'
    BY <1>21, <1>0, <1>e, <1>r
    DEF ReadTimeout, Leave, Pulling
  <2>2. InvRunning'
    BY <1>21, <1>0, <1>e, <1>r
    DEF ReadTimeout, Leave, Pulling
  <2>3. InvPulling'
    BY <1>21, <1>0, <1>e, <1>r
    DEF ReadTimeout, Leave, Pulling
  <2>4. InvWhole'
    BY <1>21, <1>0, <1>e, <1>r
    DEF ReadTimeout, Leave, Pulling
  <2>5. InvEnding'
    BY <1>21, <1>0, <1>e, <1>r
    DEF ReadTimeout, Leave, Pulling
  <2> QED  BY <2>1, <2>2, <2>3, <2>4, <2>5 DEF Placed
<1>22. CASE ReadBroken
  BY <1>22, <1>0, <1>e, <1>r DEF ReadBroken, Leave
<1>23. CASE ReadRecord
  <2>1. TakesRow
    BY <1>23, <1>0, TakesRowFacts DEF ReadRecord
  <2> QED  BY <1>23, <1>0, <1>e, <1>r, <2>1 DEF ReadRecord, TakeRecord, TakesRow, Pulling
<1>24. CASE ReadUnexpected
  <2>1. TakesRow
    BY <1>24, <1>0, TakesRowFacts DEF ReadUnexpected
  <2> QED  BY <1>24, <1>0, <1>e, <1>r, <2>1
    DEF ReadUnexpected, TakeRecord, TakesRow, Leave
<1>25. CASE ReadHello
  <2>1. Takes
    BY <1>25, <1>0, TakesFacts DEF ReadHello
  <2> QED  BY <1>25, <1>0, <1>e, <1>r, <1>l, <2>1
    DEF ReadHello, Take, Takes, Send
<1>26. CASE ReadLogon
  <2>1. Takes
    BY <1>26, <1>0, TakesFacts DEF ReadLogon
  <2> QED  BY <1>26, <1>0, <1>e, <1>r, <1>l, <2>1
    DEF ReadLogon, Take, Takes, Leave, Left, Ending
<1>27. CASE ReadOwed
  <2>1. Takes
    BY <1>27, <1>0, TakesFacts DEF ReadOwed
  <2> QED  BY <1>27, <1>0, <1>e, <1>r, <1>l, <2>1
    DEF ReadOwed, Take, Takes, Successes
<1>28. CASE ReadReset
  <2>1. Takes
    BY <1>28, <1>0, TakesFacts DEF ReadReset
  <2>2. wire' = << >> /\ srv = "READY" /\ UNCHANGED srv
    <3>1. /\ at \in Draining /\ wire[1].reply \in Successes
          /\ pending' = IF pending > 0 THEN pending - 1 ELSE 0
          /\ pending' = 0 /\ UNCHANGED srv /\ Reading
      BY <1>28 DEF ReadReset, Take
    <3>2. Len(wire) = 1 /\ wire[1].sig = "RESET"
      BY <1>e, <1>r, <2>1, <3>1 DEF Takes
    <3> QED  BY <1>e, <1>l, <2>1, <3>1, <3>2 DEF Takes, Left, Ending
  <2>3. CASE at = "clean" /\ Start(op, batch) /\ UNCHANGED <<op, tx, strm>>
    <3>1. Started(op) /\ (op = "run" => out'[2].n = -1)
      BY <1>0, <2>3, StartFacts, StartWhole DEF TypeOK
    <3>2. InvBetween'
      BY <1>28, <1>0, <1>e, <2>2, <2>3, <3>1
      DEF ReadReset, Started, StreamOps
    <3>3. InvRunning'
      BY <1>28, <1>0, <1>e, <2>2, <2>3, <3>1
      DEF ReadReset, Started, StreamOps
    <3>4. InvPulling'
      BY <1>28, <1>0, <1>e, <2>2, <2>3, <3>1
      DEF ReadReset, Started, StreamOps
    <3>5. InvWhole'
      BY <1>28, <1>0, <1>e, <2>2, <2>3, <3>1
      DEF ReadReset, Started, StreamOps
    <3>6. InvEnding'
      BY <1>28, <1>0, <1>e, <2>2, <2>3, <3>1
      DEF ReadReset, Started, StreamOps
    <3> QED  BY <3>2, <3>3, <3>4, <3>5, <3>6 DEF Placed
  <2>4. CASE /\ at \in {"reset", "fail_reset"}
             /\ Leave(IF at = "reset" THEN "Ok" ELSE "Err", strm, FALSE)
             /\ UNCHANGED <<out, broken>>
    BY <1>28, <1>0, <1>e, <2>2, <2>4 DEF ReadReset, Leave
  <2> QED  BY <1>28, <2>3, <2>4 DEF ReadReset
<1>29. CASE ReadResetRefused
  <2>1. Takes
    BY <1>29, <1>0, TakesFacts DEF ReadResetRefused
  <2>2. /\ at \in Draining /\ wire[1].reply \in {"FAILURE", "IGNORED"}
        /\ pending' = IF pending > 0 THEN pending - 1 ELSE 0
        /\ pending' = 0 /\ UNCHANGED <<srv, up>> /\ Reading
    BY <1>29 DEF ReadResetRefused, Take
  <2>3. Len(wire) = 1 /\ wire[1].sig = "RESET"
    BY <1>e, <1>r, <2>1, <2>2 DEF Takes
  <2>4. ~up'
    BY <1>l, <2>2, <2>3 DEF Left
  <2> QED  BY <1>29, <1>0, <1>e, <2>2, <2>4 DEF ReadResetRefused, Leave
<1>30. CASE ReadRun
  <2>1. Takes
    BY <1>30, <1>0, TakesFacts DEF ReadRun
  <2>2. /\ at = "run" /\ out = << >> /\ RunPull(wire)
        /\ wire[1].reply \in Successes /\ UNCHANGED <<out, srv>>
    BY <1>30, <1>0, <1>r DEF ReadRun, Take
  <2>3. Len(wire') = 1 /\ wire'[1] = wire[2]
    BY <2>1, <2>2 DEF Takes
  <2>4. Pulling(wire[2])
    BY <1>0, <2>2
  <2>5. tx' = tx /\ lost' = lost
    BY <1>30 DEF ReadRun, Leave
  <2>6. Pulling(wire[1])'
    BY <2>2, <2>3, <2>4, <2>5 DEF Pulling
  <2>7. op \notin StreamOps => wire'[1].n = -1
    BY <1>0, <2>2, <2>3
  <2>8. InvBetween'
    BY <1>30, <1>0, <1>e, <2>2, <2>3, <2>5, <2>6, <2>7
    DEF ReadRun, Leave, StreamOps
  <2>9. InvRunning'
    BY <1>30, <1>0, <1>e, <2>2, <2>3, <2>5, <2>6, <2>7
    DEF ReadRun, Leave, StreamOps
  <2>10. InvPulling'
    BY <1>30, <1>0, <1>e, <2>2, <2>3, <2>5, <2>6, <2>7
    DEF ReadRun, Leave, StreamOps
  <2>11. InvWhole'
    BY <1>30, <1>0, <1>e, <2>2, <2>3, <2>5, <2>6, <2>7
    DEF ReadRun, Leave, StreamOps
  <2>12. InvEnding'
    BY <1>30, <1>0, <1>e, <2>2, <2>3, <2>5, <2>6, <2>7
    DEF ReadRun, Leave, StreamOps
  <2> QED  BY <2>8, <2>9, <2>10, <2>11, <2>12 DEF Placed
<1>31. CASE ReadEnd
  <2>1. Takes
    BY <1>31, <1>0, TakesFacts DEF ReadEnd
  <2>2. /\ at \in {"pull", "route", "commit", "rollback"} /\ Reading
        /\ wire[1].reply \in Successes
        /\ Leave("Ok", strm, FALSE) /\ UNCHANGED <<out, broken, srv, up, lost>>
    BY <1>31 DEF ReadEnd, Take
  <2>3. at = "pull" => srv = Base
    BY <1>0, <2>2 DEF Pulling, Successes
  <2>4. at \in {"route", "commit"} => srv = "READY"
    BY <1>r, <1>l, <2>2 DEF Left, Ending
  <2>5. at = "rollback" /\ wire' = << >> => srv = "READY"
    <3>1. wire' = << >> => Len(wire) = 1
      BY <1>e, <2>1 DEF Takes
    <3>2. at = "rollback" => wire[Len(wire)].sig = "ROLLBACK"
      BY <1>0, <2>2
    <3> QED  BY <1>l, <2>2, <3>1, <3>2 DEF Left, Ending
  <2>6. InvBetween'
    BY <1>0, <1>e, <2>2, <2>3, <2>4, <2>5
    DEF Leave
  <2>7. InvRunning'
    BY <1>0, <1>e, <2>2, <2>3, <2>4, <2>5
    DEF Leave
  <2>8. InvPulling'
    BY <1>0, <1>e, <2>2, <2>3, <2>4, <2>5
    DEF Leave
  <2>9. InvWhole'
    BY <1>0, <1>e, <2>2, <2>3, <2>4, <2>5
    DEF Leave
  <2>10. InvEnding'
    BY <1>0, <1>e, <2>2, <2>3, <2>4, <2>5
    DEF Leave
  <2> QED  BY <2>6, <2>7, <2>8, <2>9, <2>10 DEF Placed
<1>32. CASE ReadBegin
  <2>1. Takes
    BY <1>32, <1>0, TakesFacts DEF ReadBegin
  <2> QED  BY <1>32, <1>0, <1>e, <1>r, <1>l, <2>1
    DEF ReadBegin, Take, Takes, Left
<1>33. CASE ReadBatch
  <2>1. Takes
    BY <1>33, <1>0, TakesFacts DEF ReadBatch
  <2> QED  BY <1>33, <1>0, <1>e, <1>r, <1>l, <2>1
    DEF ReadBatch, Take, Takes, Leave, Send, Pulling, Successes
<1>34. CASE ReadDiscard
  <2>1. Takes
    BY <1>34, <1>0, TakesFacts DEF ReadDiscard
  <2> QED  BY <1>34, <1>0, <1>e, <1>r, <1>l, <2>1
    DEF ReadDiscard, Take, Takes, Leave, Pulling, Successes
<1>35. CASE ReadFailure
  <2>1. Takes
    BY <1>35, <1>0, TakesFacts DEF ReadFailure
  <2> QED  BY <1>35, <1>0, <1>e, <1>r, <1>l, <2>1
    DEF ReadFailure, Take, Takes, Send
<1>36. CASE ReadBeginFailure
  <2>1. Takes
    BY <1>36, <1>0, TakesFacts DEF ReadBeginFailure
  <2> QED  BY <1>36, <1>0, <1>e, <1>r, <1>l, <2>1
    DEF ReadBeginFailure, Take, Takes, Leave
<1>37. CASE ReadIgnored
  <2>1. needs_reset
    BY <1>37, <1>0 DEF ReadIgnored, Establishing
  <2> QED  BY <1>37, <1>0, <1>e, <2>1 DEF ReadIgnored, Leave
<1>38. CASE Handshake
  BY <1>38, <1>0, <1>e DEF Handshake, Send
<1>39. CASE ConnectFails
  BY <1>39, <1>0, <1>e DEF ConnectFails, Gone
<1>40. CASE \E i \in 1..Len(wire) : Serve(i)
  <2>1. PICK i \in 1..Len(wire) : Serve(i)
    BY <1>40
  <2>2. /\ OnlyAt(i) /\ (up' => up)
        /\ Record(i) \/ \E r \in Replies : Summary(i, r)
        /\ UNCHANGED <<at, op, out, session, tx, strm, stream, lost>>
    BY <2>1, <1>0, ServeFacts
  <2>3. UNCHANGED <<at, op, out, needs_reset, pending, broken, tx, strm, has_more,
                    pull_in_flight, lost>>
    BY <2>2
  <2>4. ASSUME NEW j \in 1..Len(wire), wire[j].sig \in {"PULL", "DISCARD"}, Pulling(wire[j]),
               j # i => srv' = srv
        PROVE  Pulling(wire[j])'
    <3>1. CASE j # i
      BY <2>2, <2>3, <2>4, <3>1 DEF OnlyAt, Pulling
    <3>2. CASE j = i
      <4>1. wire[i].reply = "none" /\ wire[i].sig \in {"PULL", "DISCARD"} /\ srv = Mid
            /\ wire'[i].sig = wire[i].sig
        BY <2>2, <2>4, <3>2 DEF OnlyAt, Pulling
      <4>2. CASE Record(i)
        BY <2>3, <3>2, <4>1, <4>2 DEF Record, Pulling
      <4>3. CASE \E r \in Replies : Summary(i, r)
        <5>1. PICK r \in Replies : Summary(i, r)
          BY <4>3
        <5>2. wire'[i].reply = r /\ r # "none" /\ wire'[i].n = wire[i].n
          BY <5>1 DEF Summary
        <5>3. r \in Successes => Carried(wire[i], r)
          BY <5>1 DEF Summary
        <5>4. r = "SUCCESS" => srv' = Base
          BY <4>1, <5>3 DEF Carried, Successes
        <5>5. r = "MORE" => srv' = Mid /\ wire[i].n = 0 /\ wire[i].sig = "PULL"
          BY <4>1, <5>3 DEF Carried, Successes
        <5> QED  BY <2>3, <3>2, <4>1, <5>2, <5>4, <5>5 DEF Pulling
      <4> QED  BY <2>2, <4>2, <4>3
    <3> QED  BY <3>1, <3>2
  <2>5. \A j \in 1..Len(wire) : wire[j].n = -1 => wire'[j].n = -1
    BY <2>2 DEF OnlyAt, Record, Summary
  <2>6. \A j \in 1..Len(wire) : wire'[j].sig = wire[j].sig
    BY <2>2 DEF OnlyAt
  <2>7. InvBetween'
    BY <1>0, <1>e, <2>2, <2>3 DEF OnlyAt
  <2>8. InvRunning'
    <3>1. CASE at = "run" /\ out = << >>
      <4>1. RunPull(wire) /\ i \in {1, 2} /\ 1 \in 1..Len(wire) /\ 2 \in 1..Len(wire)
        BY <1>r, <2>2, <3>1 DEF OnlyAt
      <4>2. CASE i = 1
        <5>1. wire[1].reply = "none" /\ wire[2].reply = "none" /\ srv = Base
          BY <1>0, <1>e, <2>2, <3>1, <4>1, <4>2 DEF OnlyAt, InvOrder
        <5>2. wire'[2] = wire[2] /\ wire'[1].reply # "none"
          BY <2>2, <4>1, <4>2 DEF OnlyAt, Record, Summary
        <5>3. wire'[1].reply \in Successes => srv' = Mid
          BY <2>2, <4>1, <4>2, <5>1 DEF Record, Summary, Carried, Successes
        <5>4. wire'[1].reply \in Successes => Pulling(wire[2])'
          BY <2>3, <5>1, <5>2, <5>3 DEF Pulling
        <5> QED  BY <2>3, <3>1, <5>2, <5>4
      <4>3. CASE i = 2
        <5>1. wire'[1] = wire[1] /\ wire[1].reply # "none"
          BY <2>2, <4>1, <4>3 DEF OnlyAt
        <5>2. wire[1].reply \in Successes => Pulling(wire[2])'
          BY <1>0, <2>4, <3>1, <4>1, <4>3
        <5> QED  BY <2>3, <3>1, <5>1, <5>2
      <4> QED  BY <4>1, <4>2, <4>3
    <3>2. CASE ~(at = "run" /\ out = << >>)
      BY <1>0, <1>e, <2>2, <2>3, <3>2 DEF OnlyAt
    <3> QED  BY <3>1, <3>2
  <2>9. InvPulling'
    <3>1. wire # << >> /\ 1 \in 1..Len(wire)
      BY <1>e, <2>2 DEF OnlyAt
    <3>2. strm = "open" /\ has_more /\ Intact =>
            pull_in_flight /\ Len(wire) = 1 /\ wire[1].sig = "PULL"
      <4>1. strm = "open" => at \in {"idle", "batch"}
        BY <1>0 DEF TypeOK
      <4>2. CASE at = "idle"
        BY <1>0, <1>e, <3>1, <4>2
      <4>3. CASE at = "batch"
        BY <1>0, <1>e, <1>r, <3>1, <4>3
      <4> QED  BY <4>1, <4>2, <4>3
    <3>3. at \in {"pull", "discard"} => out = << >> /\ Len(wire) = 1
      BY <1>0, <1>e, <1>r, <3>1
    <3>4. at \in {"pull", "discard"} => wire[1].sig \in {"PULL", "DISCARD"}
      BY <1>r, <3>3
    <3>5. Len(wire) = 1 => i = 1
      BY <2>2 DEF OnlyAt
    <3> QED  BY <1>0, <2>3, <2>4, <3>1, <3>2, <3>3, <3>4, <3>5
  <2>10. InvWhole'
    BY <1>0, <1>r, <2>2, <2>3, <2>5
  <2>11. InvEnding'
    BY <1>0, <1>e, <2>2, <2>3, <2>6 DEF OnlyAt
  <2> QED  BY <2>7, <2>8, <2>9, <2>10, <2>11 DEF Placed
<1>41. CASE Hangup
  BY <1>41, <1>0, <1>e DEF Hangup, Pulling
<1>42. CASE UNCHANGED vars
  BY <1>42, <1>0 DEF vars, Pulling
<1> QED
  BY <1>1, <1>2, <1>3, <1>4, <1>5, <1>6, <1>7, <1>8, <1>9, <1>10, <1>11,
     <1>12, <1>13, <1>14, <1>15, <1>16, <1>17, <1>18, <1>19, <1>20, <1>21,
     <1>22, <1>23, <1>24, <1>25, <1>26, <1>27, <1>28, <1>29, <1>30, <1>31,
     <1>32, <1>33, <1>34, <1>35, <1>36, <1>37, <1>38, <1>39, <1>40, <1>41,
     <1>42
  DEF Next, Operation, WriteEnds, ReadEnds

-----------------------------------------------------------------------------
(* Which rows are still to come *)

\* The rows behind g, after the first of them is taken.
LEMMA BehindTail ==
  ASSUME NEW s \in Seq(Nat), NEW g \in Nat, s # << >>, Behind(s, g)
  PROVE  /\ Head(s) = g + 1 /\ Tail(s) \in Seq(Nat)
         /\ Len(s) \in Nat /\ Len(s) >= 1
         /\ Len(Tail(s)) = Len(s) - 1 /\ Behind(Tail(s), g + 1)
<1>1. /\ Len(s) \in Nat /\ Len(s) >= 1 /\ Head(s) = s[1] /\ Tail(s) \in Seq(Nat)
      /\ Len(Tail(s)) = Len(s) - 1
      /\ \A k \in 1..(Len(s) - 1) : Tail(s)[k] = s[k + 1]
  OBVIOUS
<1>2. \A k \in 1..(Len(s) - 1) : s[k + 1] = g + (k + 1)
  BY <1>1 DEF Behind
<1> QED  BY <1>1, <1>2 DEF Behind

\* The rows behind g, with the next one appended.
LEMMA BehindAppend ==
  ASSUME NEW s \in Seq(Nat), NEW g \in Nat, NEW r \in Nat, Behind(s, g),
         r = g + Len(s) + 1
  PROVE  /\ Append(s, r) \in Seq(Nat) /\ Len(s) \in Nat
         /\ Len(Append(s, r)) = Len(s) + 1 /\ Behind(Append(s, r), g)
  BY DEF Behind

\* No rows are the rows behind any.
LEMMA BehindNone ==
  << >> \in Seq(Nat) /\ Len(<< >>) = 0 /\ \A g : Behind(<< >>, g)
  BY DEF Behind

\* The rows of the open statement that are still to come.
Rows ==
  /\ Behind(buffer, got)
  /\ Behind(Arrived, got + Len(buffer))
  /\ cursor = got + Len(buffer) + Len(Arrived)

\* No step loses, repeats or reorders a row of the open statement.
LEMMA RowsStep ==
  Inv /\ InvOrder /\ Placed /\ InvRows /\ [Next]_vars => InvRows'
<1> SUFFICES ASSUME Inv, InvOrder, Placed, InvRows, [Next]_vars PROVE InvRows'
  OBVIOUS
<1>0. /\ TypeOK /\ TypeOK'
      /\ InvWriting /\ InvReading /\ InvIdle /\ InvHandles /\ InvWhole /\ InvRows
  BY TypeStep DEF Inv, Placed
<1>e. /\ Len(wire) \in Nat /\ (wire = << >> <=> Len(wire) = 0)
      /\ Len(wire') \in Nat /\ (wire' = << >> <=> Len(wire') = 0)
      /\ Len(out) \in Nat /\ (out = << >> <=> Len(out) = 0)
      /\ Len(out') \in Nat /\ (out' = << >> <=> Len(out') = 0)
      /\ buffer \in Seq(Nat) /\ got \in Nat /\ cursor \in Nat /\ Len(buffer) \in Nat
      /\ \A i \in 1..Len(wire) : wire[i].rows \in Seq(Nat)
  <2>1. \A e \in Exchange : e.rows \in Seq(Nat)
    BY DEF Exchange
  <2>2. \A i \in 1..Len(wire) : wire[i] \in Exchange
    BY <1>0 DEF TypeOK
  <2> QED  BY <1>0, <2>1, <2>2, EmptyLen DEF TypeOK
<1>r. Reading => /\ out = << >> /\ ~broken
                 /\ at = "run" => RunPull(wire)
                 /\ at \in OneReply => Len(wire) = 1 /\ wire # << >>
  BY <1>0, <1>e DEF InvReading, Reading, One, OneReply
<1>s. strm = "open" => at \in {"idle", "batch"}
  BY <1>0 DEF InvHandles, TypeOK, Awaits, Draining, Collecting, Single
<1>w. (strm = "open" /\ Intact) \/ at = "pull" =>
        Rows /\ (wire = << >> => Arrived = << >>) /\ (wire # << >> => Arrived = wire[1].rows)
  BY <1>0 DEF InvRows, Rows, Arrived
<1> USE DEF session, stream, server, Reading, Awaits, Draining, Collecting, Single,
            OneReply, ConnOps, TxOps, One, RunPull, InvWriting, InvIdle,
            InvHandles, InvRows, Intact, Arrived
<1>1. CASE Connect
  BY <1>1, <1>0, <1>e, <1>s DEF Connect
<1>2. CASE Close
  BY <1>2, <1>0, <1>e, <1>s DEF Close, Gone
<1>3. CASE Reset
  BY <1>3, <1>0, <1>e, <1>s DEF Reset, Send, Free
<1>4. CASE \E o \in {"run", "begin", "route"} : Call(o, -1)
  <2>1. PICK o \in {"run", "begin", "route"} : Call(o, -1)
    BY <1>4
  <2>2. Start(o, -1) => Started(o)
    BY RequestTypes, StartFacts
  <2> QED  BY <1>0, <1>e, <2>1, <2>2 DEF Call, Send, Free, Started
<1>5. CASE \E b \in Batches : Call("run_stream", b)
  <2>1. PICK b \in Batches : Call("run_stream", b)
    BY <1>5
  <2>2. Start("run_stream", b) => Started("run_stream")
    BY RequestTypes, StartFacts
  <2> QED  BY <1>0, <1>e, <2>1, <2>2 DEF Call, Send, Free, Started
<1>6. CASE TxCall("tx_run", -1)
  <2>1. Started("tx_run")
    BY <1>6, RequestTypes, StartFacts DEF TxCall
  <2> QED  BY <1>6, <1>0, <1>e, <2>1 DEF TxCall, TxFree, Started
<1>7. CASE \E b \in Batches : TxCall("tx_run_stream", b)
  <2>1. PICK b \in Batches : TxCall("tx_run_stream", b)
    BY <1>7
  <2>2. Started("tx_run_stream")
    BY <2>1, RequestTypes, StartFacts DEF TxCall
  <2> QED  BY <1>0, <1>e, <2>1, <2>2 DEF TxCall, TxFree, Started
<1>8. CASE TxRefuse
  BY <1>8, <1>0, <1>e, <1>s DEF TxRefuse, TxFree
<1>9. CASE Commit
  BY <1>9, <1>0, <1>e, <1>s DEF Commit, Send, TxFree
<1>10. CASE Rollback
  BY <1>10, <1>0, <1>e, <1>s DEF Rollback, Send, TxFree
<1>11. CASE TxDrop
  BY <1>11, <1>0, <1>e, <1>s DEF TxDrop, TxFree
<1>12. CASE NextBuffered
  <2>1. CASE buffer = << >>
    BY <1>12, <1>0, <1>e, <2>1 DEF NextBuffered, StreamFree, Behind
  <2>2. CASE buffer # << >>
    <3>1. /\ at = "idle" /\ got' = Head(buffer) /\ buffer' = Tail(buffer)
          /\ UNCHANGED <<at, out, broken, strm, wire, cursor>>
      BY <1>12, <2>2 DEF NextBuffered, StreamFree
    <3>2. CASE strm = "open" /\ Intact
      <4>1. Rows
        BY <1>w, <3>2
      <4>2. /\ Head(buffer) = got + 1
            /\ Len(Tail(buffer)) = Len(buffer) - 1 /\ Behind(Tail(buffer), got + 1)
        BY <1>e, <2>2, <4>1, BehindTail DEF Rows
      <4>3. got' + Len(buffer') = got + Len(buffer)
        BY <1>e, <3>1, <4>2
      <4>4. Arrived' = Arrived
        BY <3>1
      <4>5. Rows'
        BY <3>1, <4>1, <4>2, <4>3, <4>4 DEF Rows
      <4> QED  BY <3>1, <4>5 DEF Rows
    <3>3. CASE ~(strm = "open" /\ Intact)
      BY <3>1, <3>3
    <3> QED  BY <3>2, <3>3
  <2> QED  BY <2>1, <2>2
<1>13. CASE NextFetch
  BY <1>13, <1>0, <1>e, <1>s DEF NextFetch, StreamFree, Fetch, Send, Behind
<1>14. CASE FinishDone
  BY <1>14, <1>0, <1>e, <1>s DEF FinishDone, StreamFree
<1>15. CASE Finish
  BY <1>15, <1>0, <1>e, <1>s DEF Finish, StreamFree, Send, Behind
<1>16. CASE StreamDrop
  BY <1>16, <1>0, <1>e, <1>s DEF StreamDrop, StreamFree
<1>17. CASE Cancel
  BY <1>17, <1>0, <1>e, <1>s, <1>r DEF Cancel, Leave, Behind
<1>18. CASE Write
  <2>1. Sends(out)
    BY <1>18, <1>0, SendsFacts DEF Write, TypeOK
  <2>2. \A q : Sent(q).rows = << >> /\ Sent(q).reply = "none"
    BY DEF Sent
  <2>3. out # << >> /\ UNCHANGED <<at, strm, buffer, got, cursor>> /\ out' = << >>
    BY <1>18 DEF Write
  <2>4. at = "run" => /\ Len(wire) = 0 /\ Len(out) = 2
                      /\ wire'[1] = Sent(out[1]) /\ wire'[2] = Sent(out[2])
    <3>1. at = "run" => Len(wire) = 0 /\ Len(out) = 2
      BY <1>0, <1>e, <2>3
    <3>2. \A i \in 1..Len(out) : wire'[Len(wire) + i] = Sent(out[i])
      BY <2>1 DEF Sends
    <3>3. \A i \in 1..2 : at = "run" => wire'[0 + i] = Sent(out[i])
      BY <3>1, <3>2
    <3>4. 1 \in 1..2 /\ 2 \in 1..2 /\ 0 + 1 = 1 /\ 0 + 2 = 2
      OBVIOUS
    <3> QED  BY <3>1, <3>3, <3>4
  <2>5. at = "batch" => wire = << >> /\ wire' # << >> /\ wire'[1] = Sent(out[1])
    BY <1>0, <1>e, <2>1, <2>3 DEF Sends
  <2>6. at \notin {"idle", "pull"}
    BY <1>0, <2>3
  <2>7. strm = "open" => Rows /\ Arrived' = Arrived
    BY <1>s, <1>w, <2>2, <2>3, <2>5, <2>6
  <2>8. strm = "open" => Rows'
    BY <2>3, <2>7 DEF Rows
  <2> QED  BY <1>0, <2>2, <2>3, <2>4, <2>6, <2>8 DEF Successes, Rows
<1>19. CASE EncodeFails
  <2>1. at # "batch"
    BY <1>19, <1>0 DEF EncodeFails, Awaited
  <2> QED  BY <1>19, <1>0, <1>s, <2>1 DEF EncodeFails, Leave
<1>20. CASE Cut
  BY <1>20, <1>0, <1>e, <1>s DEF Cut, Leave
<1>21. CASE ReadTimeout
  BY <1>21, <1>0, <1>e, <1>s, <1>r DEF ReadTimeout, Leave, Behind
<1>22. CASE ReadBroken
  BY <1>22, <1>0, <1>e, <1>s, <1>r DEF ReadBroken, Leave
<1>23. CASE ReadRecord
  <2>1. TakesRow
    BY <1>23, <1>0, TakesRowFacts DEF ReadRecord
  <2>2. /\ UNCHANGED <<at, out, broken, strm, got, cursor>>
        /\ buffer' = IF at \in Collecting THEN Append(buffer, Head(wire[1].rows))
                     ELSE buffer
        /\ Reading /\ at # "run"
    BY <1>23 DEF ReadRecord, TakeRecord
  <2>3. CASE at \in Collecting
    <3>1. Rows /\ Arrived = wire[1].rows /\ Arrived \in Seq(Nat) /\ Arrived # << >>
      BY <1>0, <1>e, <1>r, <1>w, <2>1, <2>2, <2>3 DEF TakesRow
    <3>2. Arrived' = Tail(Arrived)
      BY <1>e, <2>1, <3>1 DEF TakesRow
    <3> DEFINE g == got + Len(buffer)
    <3>3. g \in Nat /\ g = got + Len(buffer)
      BY <1>e
    <3> HIDE DEF g
    <3>4. /\ Head(Arrived) = g + 1 /\ Len(Arrived) \in Nat
          /\ Len(Tail(Arrived)) = Len(Arrived) - 1 /\ Behind(Tail(Arrived), g + 1)
          /\ cursor = g + Len(Arrived)
      BY <3>1, <3>3, BehindTail DEF Rows
    <3>5. /\ Behind(Append(buffer, g + 1), got)
          /\ Len(Append(buffer, g + 1)) = Len(buffer) + 1
      BY <1>e, <3>1, <3>3, BehindAppend DEF Rows
    <3>6. buffer' = Append(buffer, g + 1)
      BY <2>2, <2>3, <3>1, <3>4
    <3>7. /\ got' = got /\ got' + Len(buffer') = g + 1 /\ cursor' = cursor
          /\ Behind(buffer', got')
      BY <1>e, <2>2, <3>3, <3>5, <3>6
    <3>8. cursor = (g + 1) + (Len(Arrived) - 1)
      BY <3>3, <3>4
    <3>9. Rows'
      BY <3>2, <3>4, <3>7, <3>8 DEF Rows
    <3> QED  BY <2>2, <2>3, <3>9 DEF Rows
  <2>4. CASE at \notin Collecting
    BY <1>0, <1>s, <2>2, <2>4
  <2> QED  BY <2>3, <2>4
<1>24. CASE ReadUnexpected
  BY <1>24, <1>0, <1>s, <1>r DEF ReadUnexpected, TakeRecord, Leave, Establishing
<1>25. CASE ReadHello
  BY <1>25, <1>0, <1>e, <1>s DEF ReadHello, Take, Send
<1>26. CASE ReadLogon
  BY <1>26, <1>0, <1>e, <1>s DEF ReadLogon, Take, Leave
<1>27. CASE ReadOwed
  BY <1>27, <1>0, <1>e, <1>s DEF ReadOwed, Take, Send
<1>28. CASE ReadReset
  <2>1. CASE at = "clean" /\ Start(op, batch) /\ UNCHANGED <<op, tx, strm>>
    <3>1. Started(op)
      BY <1>0, <2>1, StartFacts DEF TypeOK
    <3> QED  BY <1>28, <1>0, <1>e, <2>1, <3>1 DEF ReadReset, Started
  <2>2. CASE /\ at \in {"reset", "fail_reset"}
             /\ Leave(IF at = "reset" THEN "Ok" ELSE "Err", strm, FALSE)
             /\ UNCHANGED <<out, broken>>
    BY <1>28, <1>0, <1>e, <2>2 DEF ReadReset, Leave
  <2> QED  BY <1>28, <2>1, <2>2 DEF ReadReset
<1>29. CASE ReadResetRefused
  BY <1>29, <1>0, <1>e, <1>s DEF ReadResetRefused, Take, Leave
<1>30. CASE ReadRun
  <2>1. Takes
    BY <1>30, <1>0, TakesFacts DEF ReadRun
  <2>2. /\ at = "run" /\ out = << >> /\ RunPull(wire)
        /\ wire[1].reply \in Successes /\ UNCHANGED <<out, cursor, buffer, got>>
        /\ at' \in {"idle", "pull"}
    BY <1>30, <1>0, <1>r DEF ReadRun, Take, Leave
  <2>3. Len(wire') = 1 /\ wire'[1] = wire[2] /\ wire' # << >>
    BY <1>e, <2>1, <2>2 DEF Takes
  <2>4. /\ buffer = << >> /\ got = 0
        /\ Behind(wire[2].rows, 0) /\ cursor = Len(wire[2].rows)
    BY <1>0, <2>2
  <2>5. Rows'
    BY <1>e, <2>2, <2>3, <2>4, BehindNone DEF Rows
  <2> QED  BY <2>2, <2>5 DEF Rows
<1>31. CASE ReadEnd
  BY <1>31, <1>0, <1>e, <1>s DEF ReadEnd, Take, Leave
<1>32. CASE ReadBegin
  BY <1>32, <1>0, <1>e, <1>s DEF ReadBegin, Take, Leave
<1>33. CASE ReadBatch
  <2>1. Takes
    BY <1>33, <1>0, TakesFacts DEF ReadBatch
  <2>2. /\ at = "batch" /\ Reading /\ wire # << >> /\ wire[1].rows = << >>
        /\ UNCHANGED cursor /\ strm = "open" /\ Intact
    BY <1>33, <1>0, <1>r DEF ReadBatch, Take
  <2>3. wire' = << >>
    BY <1>e, <1>r, <2>1, <2>2 DEF Takes
  <2>4. Rows /\ Arrived = << >> /\ Arrived' = << >>
    BY <1>w, <2>2, <2>3
  <2>5. cursor = got + Len(buffer) /\ Behind(buffer, got)
    BY <1>e, <2>4 DEF Rows
  <2>6. CASE UNCHANGED <<buffer, got>>
    <3>1. Rows'
      BY <2>2, <2>4, <2>6, BehindNone DEF Rows
    <3> QED  BY <1>33, <2>2, <3>1 DEF ReadBatch, Leave, Send, Rows
  <2>7. CASE buffer # << >> /\ got' = Head(buffer) /\ buffer' = Tail(buffer)
    <3>1. /\ Head(buffer) = got + 1
          /\ Len(Tail(buffer)) = Len(buffer) - 1 /\ Behind(Tail(buffer), got + 1)
      BY <1>e, <2>5, <2>7, BehindTail
    <3>2. cursor' = got' + Len(buffer')
      BY <1>e, <2>2, <2>5, <2>7, <3>1
    <3>3. Rows'
      BY <1>e, <2>4, <2>7, <3>1, <3>2, BehindNone DEF Rows
    <3> QED  BY <1>33, <2>2, <3>3 DEF ReadBatch, Leave, Send, Rows
  <2>8. CASE strm' # "open"
    BY <1>33, <2>8 DEF ReadBatch, Leave, Send
  <2> QED  BY <1>33, <2>6, <2>7, <2>8 DEF ReadBatch, Leave
<1>34. CASE ReadDiscard
  BY <1>34, <1>0, <1>e, <1>s DEF ReadDiscard, Take, Leave
<1>35. CASE ReadFailure
  BY <1>35, <1>0, <1>e, <1>s DEF ReadFailure, Take, Send
<1>36. CASE ReadBeginFailure
  BY <1>36, <1>0, <1>e, <1>s DEF ReadBeginFailure, Take, Leave
<1>37. CASE ReadIgnored
  BY <1>37, <1>0, <1>e, <1>s DEF ReadIgnored, Take, Leave, Establishing
<1>38. CASE Handshake
  BY <1>38, <1>0, <1>e, <1>s DEF Handshake, Send
<1>39. CASE ConnectFails
  BY <1>39, <1>0, <1>e, <1>s DEF ConnectFails, Gone
<1>40. CASE \E i \in 1..Len(wire) : Serve(i)
  <2>1. PICK i \in 1..Len(wire) : Serve(i)
    BY <1>40
  <2>2. /\ OnlyAt(i)
        /\ Record(i) \/ \E r \in Replies : Summary(i, r)
        /\ UNCHANGED <<at, op, out, session, tx, strm, stream, buffer, got>>
    BY <2>1, <1>0, ServeFacts
  <2>3. UNCHANGED <<at, out, broken, strm, buffer, got>> /\ Len(wire') = Len(wire)
    BY <2>2 DEF OnlyAt
  <2>4. ASSUME i = 1, wire[1].sig = "PULL",
               (strm = "open" /\ Intact) \/ at = "pull"
        PROVE  Rows'
    <3>1. /\ Rows /\ wire # << >> /\ wire' # << >> /\ Arrived = wire[1].rows
          /\ Arrived \in Seq(Nat) /\ Arrived' = wire'[1].rows /\ Len(Arrived) \in Nat
      BY <1>e, <1>w, <2>2, <2>3, <2>4 DEF OnlyAt
    <3>2. CASE Record(i)
      <4> DEFINE g == got + Len(buffer)
      <4>1. g \in Nat /\ g = got + Len(buffer) /\ cursor = g + Len(Arrived)
        BY <1>e, <3>1 DEF Rows
      <4> HIDE DEF g, Arrived
      <4>2. cursor + 1 \in Nat /\ cursor + 1 = g + Len(Arrived) + 1
        <5>1. cursor \in Nat /\ Len(Arrived) \in Nat
          BY <1>e, <3>1
        <5> QED  BY <4>1, <5>1
      <4>3. Arrived' = Append(Arrived, cursor + 1) /\ cursor' = cursor + 1
        BY <2>4, <3>1, <3>2 DEF Record
      <4>4. /\ Behind(Append(Arrived, cursor + 1), g)
            /\ Len(Append(Arrived, cursor + 1)) = Len(Arrived) + 1
        <5>1. Behind(Arrived, g)
          BY <3>1, <4>1 DEF Rows
        <5> QED  BY <3>1, <4>1, <4>2, <5>1, BehindAppend
      <4>5. Behind(buffer', got') /\ got' + Len(buffer') = g
        BY <2>3, <3>1, <4>1 DEF Rows
      <4>6. cursor' = g + Len(Arrived')
        BY <3>1, <4>1, <4>2, <4>3, <4>4
      <4> QED  BY <4>3, <4>4, <4>5, <4>6 DEF Rows
    <3>3. CASE \E r \in Replies : Summary(i, r)
      <4>1. wire'[1].rows = wire[1].rows /\ cursor' = cursor
        BY <2>4, <3>3 DEF Summary, Carried
      <4> QED  BY <2>3, <3>1, <4>1 DEF Rows
    <3> QED  BY <2>2, <3>2, <3>3
  <2>5. (strm = "open" /\ Intact) \/ at = "pull" => i = 1 /\ wire[1].sig = "PULL"
    <3>1. wire # << >>
      BY <1>e, <2>2 DEF OnlyAt
    <3>2. CASE strm = "open" /\ Intact /\ at = "idle"
      BY <1>0, <1>e, <2>2, <3>1, <3>2 DEF OnlyAt
    <3>3. CASE strm = "open" /\ Intact /\ at = "batch"
      <4>1. Reading
        BY <1>0, <3>1, <3>3
      <4>2. One(wire, Awaited[at]) /\ Awaited["batch"] = "PULL"
        BY <1>0, <3>3, <4>1 DEF InvReading, Awaited
      <4> QED  BY <2>2, <3>3, <4>2 DEF OnlyAt
    <3>4. CASE at = "pull"
      <4>1. Reading
        BY <1>0, <3>4
      <4>2. One(wire, Awaited[at]) /\ Awaited["pull"] = "PULL"
        BY <1>0, <3>4, <4>1 DEF InvReading, Awaited
      <4> QED  BY <2>2, <3>4, <4>2 DEF OnlyAt
    <3> QED  BY <1>s, <3>2, <3>3, <3>4
  <2>6. CASE at = "run" /\ out = << >>
    <3>1. /\ RunPull(wire) /\ i \in {1, 2} /\ buffer = << >> /\ got = 0
          /\ wire[1].rows = << >>
          /\ wire[1].reply = "none" => wire[2].rows = << >>
          /\ wire[1].reply \in Successes =>
               Behind(wire[2].rows, 0) /\ cursor = Len(wire[2].rows)
      BY <1>0, <1>r, <2>2, <2>6 DEF OnlyAt
    <3>2. CASE i = 1
      <4>1. /\ wire'[2] = wire[2] /\ wire[1].reply = "none" /\ wire[1].sig = "RUN"
        BY <2>2, <3>1, <3>2 DEF OnlyAt
      <4>2. PICK r \in Replies : Summary(i, r)
        BY <2>2, <3>2, <4>1 DEF Record
      <4>3. /\ wire'[1].rows = << >> /\ wire'[1].reply # "none"
            /\ wire'[1].reply \in Successes => cursor' = 0
        BY <3>1, <3>2, <4>1, <4>2 DEF Summary, Carried
      <4> QED  BY <1>s, <2>3, <2>6, <3>1, <4>1, <4>3, BehindNone
    <3>3. CASE i = 2
      <4>1. /\ wire'[1] = wire[1] /\ wire[1].reply # "none" /\ wire[2].sig = "PULL"
            /\ wire[2].rows \in Seq(Nat)
        BY <1>e, <2>2, <3>1, <3>3 DEF OnlyAt
      <4>2. CASE Record(i) /\ wire[1].reply \in Successes
        <5>1. wire'[2].rows = Append(wire[2].rows, cursor + 1) /\ cursor' = cursor + 1
          BY <3>3, <4>2 DEF Record
        <5>2. 0 \in Nat /\ cursor + 1 \in Nat /\ cursor + 1 = 0 + Len(wire[2].rows) + 1
          BY <1>e, <3>1, <4>1, <4>2
        <5>3. /\ Behind(Append(wire[2].rows, cursor + 1), 0)
              /\ Len(Append(wire[2].rows, cursor + 1)) = Len(wire[2].rows) + 1
          BY <3>1, <4>1, <4>2, <5>2, BehindAppend
        <5> QED  BY <1>s, <2>3, <2>6, <3>1, <4>1, <4>2, <5>1, <5>3
      <4>3. CASE \E r \in Replies : Summary(i, r)
        <5>1. wire'[2].rows = wire[2].rows /\ cursor' = cursor
          BY <3>3, <4>1, <4>3 DEF Summary, Carried
        <5> QED  BY <1>s, <2>3, <2>6, <3>1, <4>1, <5>1
      <4>4. CASE wire[1].reply \notin Successes
        BY <1>s, <2>3, <2>6, <3>1, <4>1, <4>4
      <4> QED  BY <2>2, <4>2, <4>3, <4>4
    <3> QED  BY <3>1, <3>2, <3>3
  <2>7. CASE ~(at = "run" /\ out = << >>)
    BY <1>0, <2>3, <2>4, <2>5, <2>7 DEF Rows
  <2> QED  BY <2>6, <2>7
<1>41. CASE Hangup
  BY <1>41, <1>0, <1>e, <1>s DEF Hangup, Behind
<1>42. CASE UNCHANGED vars
  BY <1>42, <1>0 DEF vars, Behind
<1> QED
  BY <1>1, <1>2, <1>3, <1>4, <1>5, <1>6, <1>7, <1>8, <1>9, <1>10, <1>11,
     <1>12, <1>13, <1>14, <1>15, <1>16, <1>17, <1>18, <1>19, <1>20, <1>21,
     <1>22, <1>23, <1>24, <1>25, <1>26, <1>27, <1>28, <1>29, <1>30, <1>31,
     <1>32, <1>33, <1>34, <1>35, <1>36, <1>37, <1>38, <1>39, <1>40, <1>41,
     <1>42
  DEF Next, Operation, WriteEnds, ReadEnds

-----------------------------------------------------------------------------
(* What follows *)

\* Client and server agree throughout.
LEMMA ServedHolds == Spec => [](Inv /\ Served)
<1>1. Init => Served
  <2> SUFFICES ASSUME Init PROVE Served
    OBVIOUS
  <2>1. InvOrder /\ InvLast
    BY DEF Init, InvOrder, InvLast
  <2>2. InvBetween /\ InvRunning /\ InvPulling /\ InvWhole /\ InvEnding
    BY DEF Init, InvBetween, InvRunning, InvPulling, InvWhole, InvEnding
  <2>3. InvRows
    BY DEF Init, InvRows
  <2> QED  BY <2>1, <2>2, <2>3 DEF Served
<1>2. Inv /\ Served /\ [Next]_vars => Served'
  <2> SUFFICES ASSUME Inv, Served, [Next]_vars PROVE Served'
    OBVIOUS
  <2>1. TypeOK /\ InvOrder /\ InvLast /\ Placed /\ InvRows
    BY DEF Inv, Served, Placed
  <2>2. InvOrder' /\ InvLast' /\ Placed' /\ InvRows'
    BY <2>1, WireStep, PlacedStep, RowsStep
  <2> QED  BY <2>2 DEF Served, Placed
<1> QED  BY <1>1, <1>2, Invariance, PTL DEF Spec

\* is_ready() is true of a connection nothing borrows only when the server is
\* READY and owes nothing, for any number of cancelled, refused or failed
\* operations before: what the pool relies on when it keeps a connection.
THEOREM ReadyIsReady == Spec => []ReadyMeansReady
<1>1. Inv /\ Served => ReadyMeansReady
  <2> SUFFICES ASSUME Inv, Served, Free, is_ready, up
               PROVE  srv = "READY" /\ wire = << >>
    BY DEF ReadyMeansReady
  <2>1. wire = << >>
    BY EmptyLen DEF Inv, PendingCountsOwed, TypeOK, is_ready
  <2>2. srv = "READY"
    BY <2>1 DEF Served, InvBetween, InTx, Free, is_ready
  <2> QED  BY <2>1, <2>2
<1> QED  BY <1>1, ServedHolds, PTL

\* guard_open lets a statement or a COMMIT through only while the server is in
\* the transaction with nothing owed, unless one of its streams ended in a
\* FAILURE.
THEOREM TxStaysLive == Spec => []TxIsLive
<1>1. Inv /\ Served => TxIsLive
  BY DEF Inv, Served, InvBetween, InvIdle, InTx, TxIsLive, TxFree, guard_open
<1> QED  BY <1>1, ServedHolds, PTL

\* The rows that next() has yet to hand out are those behind the last one, in
\* order and without a gap, whatever was cancelled or timed out in between.
THEOREM RowsStayInOrder == Spec => []RowsInOrder
<1>1. Inv /\ Served => RowsInOrder
  <2> SUFFICES ASSUME Inv, Served, strm = "open" \/ at = "pull", ~broken
               PROVE  buffer \o Arrived = [k \in 1..(cursor - got) |-> got + k]
    BY DEF RowsInOrder, Arrived
  <2>1. Rows
    BY DEF Served, InvRows, Intact, Rows
  <2>2. /\ buffer \in Seq(Nat) /\ Len(buffer) \in Nat
        /\ got \in Nat /\ cursor \in Nat
    BY DEF Inv, TypeOK
  <2>3. Arrived \in Seq(Nat) /\ Len(Arrived) \in Nat
    <3>1. wire # << >> => wire[1] \in Exchange
      BY DEF Inv, TypeOK
    <3>2. \A e \in Exchange : e.rows \in Seq(Nat)
      BY DEF Exchange
    <3>3. Arrived \in Seq(Nat)
      BY <3>1, <3>2 DEF Arrived
    <3> QED  BY <3>3
  <2> HIDE DEF Arrived
  <2>4. cursor - got = Len(buffer) + Len(Arrived)
    BY <2>1, <2>2, <2>3 DEF Rows
  <2> DEFINE u == buffer \o Arrived
             v == [k \in 1..(cursor - got) |-> got + k]
  <2>5. /\ u \in Seq(Nat) /\ Len(u) = Len(buffer) + Len(Arrived)
        /\ \A k \in 1 .. Len(buffer) + Len(Arrived) :
             u[k] = IF k <= Len(buffer) THEN buffer[k] ELSE Arrived[k - Len(buffer)]
    <3>1. \A T : \A y, z \in Seq(T) :
            /\ y \o z \in Seq(T)
            /\ Len(y \o z) = Len(y) + Len(z)
            /\ \A k \in 1 .. Len(y) + Len(z) :
                 (y \o z)[k] = IF k <= Len(y) THEN y[k] ELSE z[k - Len(y)]
      BY ConcatProperties
    <3>2. buffer \in Seq(Nat) /\ Arrived \in Seq(Nat)
      BY <2>2, <2>3
    <3> QED  BY <3>1, <3>2, Zenon
  <2> HIDE DEF u
  <2>6. \A k \in 1 .. Len(buffer) + Len(Arrived) : u[k] = got + k
    <3> TAKE k \in 1 .. Len(buffer) + Len(Arrived)
    <3>1. CASE k <= Len(buffer)
      <4>1. k \in 1..Len(buffer)
        BY <2>2, <2>3, <3>1
      <4>2. u[k] = buffer[k]
        BY <2>5, <3>1
      <4> QED  BY <2>1, <4>1, <4>2 DEF Rows, Behind
    <3>2. CASE ~(k <= Len(buffer))
      <4>1. /\ k - Len(buffer) \in 1..Len(Arrived)
            /\ got + Len(buffer) + (k - Len(buffer)) = got + k
        BY <2>2, <2>3, <3>2
      <4>2. u[k] = Arrived[k - Len(buffer)]
        BY <2>5, <3>2
      <4> QED  BY <2>1, <4>1, <4>2 DEF Rows, Behind
    <3> QED  BY <3>1, <3>2
  <2>7. u = [k \in 1..Len(u) |-> u[k]]
    BY <2>5
  <2>8. u = v
    BY <2>4, <2>5, <2>6, <2>7
  <2> QED  BY <2>8 DEF u
<1> QED  BY <1>1, ServedHolds, PTL
=============================================================================
