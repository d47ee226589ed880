-------------------------- MODULE ConnectionProofs --------------------------
(***************************************************************************)
(* What Connection guarantees for every set of batch sizes and every bound *)
(* on records and owed replies.                                            *)
(***************************************************************************)
EXTENDS Connection, SequenceTheorems, TLAPS

\* s is one request (or one exchange) of signature x.
One(s, x) == Len(s) = 1 /\ s[1].sig = x

\* s is the RUN and the PULL that send_run_pull pipelines.
RunPull(s) == Len(s) = 2 /\ s[1].sig = "RUN" /\ s[2].sig = "PULL"

\* The awaits that take one reply to the one request their operation sent.
OneReply == {"hello", "logon", "begin", "route", "commit", "batch", "discard",
             "pull"}

\* What is being written, and behind what.
InvWriting ==
  out # << >> =>
    /\ broken
    /\ at \in Awaits \ {"pull"}
    /\ at \in Draining => One(out, "RESET")
    /\ at = "run" => RunPull(out)
    /\ at \in OneReply => One(out, Awaited[at])
    /\ at \in OneReply \union {"run"} => wire = << >>

\* What is owed at an await.
InvReading ==
  Reading =>
    /\ ~broken
    /\ at \in Draining => wire # << >> /\ wire[Len(wire)].sig = "RESET"
    /\ at = "run" => RunPull(wire)
    /\ at \in OneReply => One(wire, Awaited[at])

\* What is owed between operations, and to whom.
InvIdle ==
  at = "idle" /\ ~broken =>
    /\ ~needs_reset /\ (tx # "none" \/ strm # "none") => wire = << >>
    /\ strm = "open" => IF pull_in_flight THEN One(wire, "PULL")
                        ELSE wire = << >>

\* How many of the exchanges in front belong to operations that are over.
InvStale ==
  /\ stale <= Len(wire)
  /\ at = "idle" /\ strm = "none" => stale = Len(wire)
  /\ at = "idle" /\ strm = "open" => stale = 0
  /\ at \in OneReply \union {"run"} => stale = 0

\* Which handles an operation can find, and what it leaves marked.
InvHandles ==
  /\ at \in {"closed", "handshake"} => ~broken /\ wire = << >> /\ stale = 0
  /\ at \in {"closed", "handshake", "idle"} => out = << >>
  /\ at \in {"closed", "handshake", "hello", "logon", "clean", "reset", "begin",
             "route", "commit", "rollback"} => tx = "none" /\ strm = "none"
  /\ at \in {"run", "pull"} => strm = "none" /\ op \notin {"next", "finish"}
  /\ at = "clean" => op \in ConnOps
  /\ at \in {"closed", "idle"} => op = "none"
  /\ op \in TxOps => tx # "none"
  /\ at = "batch" => /\ strm = "open" /\ has_more /\ op \in {"next", "finish"}
                     /\ pull_in_flight <=> out = << >>
  /\ at = "discard" => strm = "done" /\ op = "finish"
  /\ at = "fail_reset" => strm # "open"
  /\ at \in {"run", "pull", "batch", "discard", "fail_reset", "route", "commit",
             "rollback"} => needs_reset
  /\ strm = "open" => (has_more => needs_reset) /\ (pull_in_flight => has_more)

\* The inductive invariant.
Inv ==
  /\ TypeOK /\ PendingCountsOwed
  /\ InvWriting /\ InvReading /\ InvIdle /\ InvStale /\ InvHandles

-----------------------------------------------------------------------------
(* Sequences of requests and exchanges *)

\* Reading a summary off the wire leaves the other exchanges as they were.
LEMMA TailExchange ==
  ASSUME NEW w \in Seq(Exchange), w # << >>
  PROVE  /\ Tail(w) \in Seq(Exchange)
         /\ Len(w) \in Nat /\ Len(w) >= 1
         /\ Len(Tail(w)) = Len(w) - 1
         /\ \A i \in 1..(Len(w) - 1) : Tail(w)[i] = w[i + 1]
  OBVIOUS

\* What write_messages puts on the wire is one exchange per request, in order.
LEMMA SentExchange ==
  ASSUME NEW r \in Seq(Request)
  PROVE  /\ AllSent(r) \in Seq(Exchange)
         /\ Len(AllSent(r)) = Len(r)
         /\ \A i \in 1..Len(r) : AllSent(r)[i].sig = r[i].sig
<1>1. \A q \in Request : Sent(q) \in Exchange /\ Sent(q).sig = q.sig
  <2>1. << >> \in Seq(Nat)
    OBVIOUS
  <2> QED  BY <2>1 DEF Sent, Exchange, Request, Replies
<1> QED  BY <1>1 DEF AllSent

\* A completed write appends its exchanges behind those already owed.
LEMMA ConcatExchange ==
  ASSUME NEW w \in Seq(Exchange), NEW r \in Seq(Request)
  PROVE  /\ w \o AllSent(r) \in Seq(Exchange)
         /\ Len(w \o AllSent(r)) = Len(w) + Len(r)
         /\ \A i \in 1..Len(w) : (w \o AllSent(r))[i] = w[i]
         /\ \A i \in 1..Len(r) : (w \o AllSent(r))[Len(w) + i].sig = r[i].sig
<1> DEFINE a == AllSent(r)
<1>1. /\ a \in Seq(Exchange) /\ Len(a) = Len(r)
      /\ \A i \in 1..Len(r) : a[i].sig = r[i].sig
  BY SentExchange
<1>2. Len(w) \in Nat /\ Len(r) \in Nat
  OBVIOUS
<1> HIDE DEF a
<1>3. /\ w \o a \in Seq(Exchange)
      /\ Len(w \o a) = Len(w) + Len(a)
      /\ \A i \in 1 .. Len(w) + Len(a) :
           (w \o a)[i] = IF i <= Len(w) THEN w[i] ELSE a[i - Len(w)]
  <2>1. \A T : \A u, v \in Seq(T) :
          /\ u \o v \in Seq(T)
          /\ Len(u \o v) = Len(u) + Len(v)
          /\ \A i \in 1 .. Len(u) + Len(v) :
               (u \o v)[i] = IF i <= Len(u) THEN u[i] ELSE v[i - Len(u)]
    BY ConcatProperties
  <2>2. a \in Seq(Exchange)
    BY <1>1
  <2> QED  BY <2>1, <2>2, Zenon
<1>4. \A i \in 1..Len(w) : (w \o a)[i] = w[i]
  BY <1>1, <1>2, <1>3
<1>5. \A i \in 1..Len(r) : (w \o a)[Len(w) + i] = a[i]
  <2> TAKE i \in 1..Len(r)
  <2>1. /\ Len(w) + i \in 1..(Len(w) + Len(a)) /\ ~(Len(w) + i <= Len(w))
        /\ (Len(w) + i) - Len(w) = i
    BY <1>1, <1>2
  <2> QED  BY <1>3, <2>1
<1>6. /\ w \o a \in Seq(Exchange) /\ Len(w \o a) = Len(w) + Len(r)
      /\ \A i \in 1..Len(w) : (w \o a)[i] = w[i]
      /\ \A i \in 1..Len(r) : (w \o a)[Len(w) + i].sig = r[i].sig
  BY <1>1, <1>3, <1>4, <1>5
<1> QED  BY <1>6 DEF a

\* Every message an operation builds is a request.
LEMMA RequestTypes ==
  /\ \A x \in Signatures : Req(x) \in Request /\ Req(x).sig = x
  /\ \A b \in Int : [sig |-> "PULL", n |-> b] \in Request
  /\ Batches \subseteq Int
  BY BatchesAssumption DEF Req, Request, Signatures

\* What operations write.
LEMMA WritesTypes ==
  /\ \A x \in Signatures : <<Req(x)>> \in Seq(Request) /\ One(<<Req(x)>>, x)
  /\ \A b \in Int : /\ <<[sig |-> "PULL", n |-> b]>> \in Seq(Request)
                    /\ One(<<[sig |-> "PULL", n |-> b]>>, "PULL")
  BY RequestTypes DEF One

\* No write under way, no buffered record and no reply owed are well typed.
LEMMA EmptyTypes ==
  << >> \in Seq(Request) /\ << >> \in Seq(Exchange) /\ << >> \in Seq(Nat)
  OBVIOUS

-----------------------------------------------------------------------------
(* Types *)

\* An operation that ends leaves its handles and flags well typed.
LEMMA LeaveTypes ==
  ASSUME TypeOK, NEW how, NEW s \in {"none", "open", "done"},
         NEW nr \in BOOLEAN, Leave(how, s, nr)
  PROVE  /\ at' = "idle" /\ op' = "none" /\ needs_reset' \in BOOLEAN
         /\ tx' \in {"none", "open", "done"} /\ strm' \in {"none", "open", "done"}
  BY DEF TypeOK, Leave

\* So does read_message when it returns a summary.
LEMMA TakeTypes ==
  ASSUME TypeOK, NEW rs, Take(rs)
  PROVE  wire' \in Seq(Exchange) /\ pending' \in Nat
  BY TailExchange DEF TypeOK, Take

\* The count of stale replies stays a number.
LEMMA DisownTypes ==
  ASSUME TypeOK, wire' \in Seq(Exchange), NEW reads, Disown(reads)
  PROVE  stale' \in Nat
  BY DEF TypeOK, Disown

\* An operation's first write is well typed, and marks the session.
LEMMA StartTypes ==
  ASSUME NEW o \in Ops, NEW b \in Int, Start(o, b)
  PROVE  /\ out' \in Seq(Request) /\ out' # << >>
         /\ at' \in {"run", "begin", "route"}
         /\ needs_reset' = TRUE /\ broken' = TRUE
  BY RequestTypes DEF Start, Send, FirstRequests, FirstAwait, Signatures

\* So is the wire after read_message returned a record.
LEMMA RecordTypes ==
  ASSUME TypeOK, TakeRecord
  PROVE  /\ wire' \in Seq(Exchange) /\ Len(wire') = Len(wire)
         /\ Head(wire[1].rows) \in Nat
         /\ wire # << >>
         /\ \A i \in 1..Len(wire) : wire'[i].sig = wire[i].sig
<1>1. wire[1] \in Exchange /\ 1 \in 1..Len(wire) /\ wire \in Seq(Exchange)
  BY DEF TypeOK, TakeRecord
<1>2. /\ Tail(wire[1].rows) \in Seq(Nat)
      /\ Head(wire[1].rows) \in Nat
  BY <1>1 DEF TakeRecord, Exchange
<1>3. [wire[1] EXCEPT !.rows = Tail(@)] \in Exchange
  BY <1>1, <1>2 DEF Exchange
<1>4. /\ wire' = [wire EXCEPT ![1] = [wire[1] EXCEPT !.rows = Tail(@)]]
      /\ [wire[1] EXCEPT !.rows = Tail(@)].sig = wire[1].sig
  BY <1>1 DEF TakeRecord, Exchange
<1>5. wire' \in Seq(Exchange) /\ Len(wire') = Len(wire)
  BY <1>1, <1>3, <1>4
<1> QED  BY <1>1, <1>2, <1>4, <1>5 DEF TakeRecord

\* The server's summary keeps the wire well typed.
LEMMA AnswerTypes ==
  ASSUME TypeOK, NEW i, NEW reply \in Replies, NEW state, Answer(i, reply, state)
  PROVE  /\ wire' \in Seq(Exchange) /\ Len(wire') = Len(wire)
         /\ \A j \in 1..Len(wire) : wire'[j].sig = wire[j].sig
<1>1. wire[i] \in Exchange /\ i \in 1..Len(wire) /\ wire \in Seq(Exchange)
  BY DEF TypeOK, Answer, Serving
<1>2. /\ [wire[i] EXCEPT !.reply = reply] \in Exchange
      /\ [wire[i] EXCEPT !.reply = reply].sig = wire[i].sig
  BY <1>1 DEF Exchange
<1>3. wire' = [wire EXCEPT ![i] = [wire[i] EXCEPT !.reply = reply]]
  BY <1>1 DEF Answer
<1> QED  BY <1>1, <1>2, <1>3

\* A PULL's exchange after one more record.
LEMMA RecordSent ==
  ASSUME NEW e \in Exchange, NEW r \in Nat
  PROVE  WithRecord(e, r) \in Exchange /\ WithRecord(e, r).sig = e.sig
<1>1. Append(e.rows, r) \in Seq(Nat)
  BY DEF Exchange
<1> QED  BY <1>1 DEF Exchange, WithRecord

\* So does a record it sends.
LEMMA ServeRecordTypes ==
  ASSUME TypeOK, NEW i, ServeRecord(i)
  PROVE  /\ wire' \in Seq(Exchange) /\ Len(wire') = Len(wire)
         /\ \A j \in 1..Len(wire) : wire'[j].sig = wire[j].sig
         /\ cursor' \in Nat
<1>1. wire[i] \in Exchange /\ i \in 1..Len(wire) /\ wire \in Seq(Exchange)
      /\ cursor' = cursor + 1 /\ cursor + 1 \in Nat
  BY DEF TypeOK, ServeRecord, Serving
<1>2. wire' = [wire EXCEPT ![i] = WithRecord(wire[i], cursor + 1)]
  BY DEF ServeRecord
<1>3. WithRecord(wire[i], cursor + 1) \in Exchange
      /\ WithRecord(wire[i], cursor + 1).sig = wire[i].sig
  BY <1>1, RecordSent
<1> QED  BY <1>1, <1>2, <1>3

\* The types are preserved by every step of the server.
LEMMA ServeTypes ==
  ASSUME TypeOK, NEW i \in 1..Len(wire), Serve(i)
  PROVE  /\ wire' \in Seq(Exchange) /\ Len(wire') = Len(wire)
         /\ \A j \in 1..Len(wire) : wire'[j].sig = wire[j].sig
         /\ cursor' \in Nat /\ srv' \in ServerStates /\ up' \in BOOLEAN
         /\ UNCHANGED <<at, op, out, session, tx, strm, stream, buffer, got,
                        stale, lost>>
<1> USE DEF TypeOK, Replies, Summaries, Successes, ServerStates
<1>1. CASE ServeRequest(i)
  <2>1. PICK t \in Transitions :
          /\ Answer(i, t[3], t[4])
          /\ cursor' = IF t[1] = "RUN" THEN 0 ELSE cursor
          /\ UNCHANGED up
    BY <1>1 DEF ServeRequest
  <2>2. t[3] \in Replies /\ t[4] \in ServerStates
    BY DEF Transitions
  <2> QED  BY <2>1, <2>2, AnswerTypes DEF Answer
<1>2. CASE ServeFailure(i)
  BY <1>2, AnswerTypes DEF ServeFailure, Answer
<1>3. CASE ServeIgnored(i)
  BY <1>3, AnswerTypes DEF ServeIgnored, Answer
<1>4. CASE ServeReset(i)
  BY <1>4, AnswerTypes DEF ServeReset, Answer
<1>5. CASE ServeJunk(i)
  BY <1>5, AnswerTypes DEF ServeJunk, Answer
<1>6. CASE ServeRecord(i)
  BY <1>6, ServeRecordTypes DEF ServeRecord
<1> QED  BY <1>1, <1>2, <1>3, <1>4, <1>5, <1>6 DEF Serve

\* A connection that is given up is a connection not yet made.
LEMMA GoneTypes ==
  ASSUME Gone
  PROVE  TypeOK'
<1>1. batch' \in Int
  BY DEF Gone
<1>2. /\ at' \in Awaits \union {"closed", "handshake", "idle"}
      /\ op' \in Ops /\ srv' \in ServerStates
  BY DEF Gone, Ops, ServerStates
<1>3. /\ needs_reset' \in BOOLEAN /\ pending' \in Nat /\ broken' \in BOOLEAN
      /\ tx' \in {"none", "open", "done"} /\ strm' \in {"none", "open", "done"}
      /\ has_more' \in BOOLEAN /\ pull_in_flight' \in BOOLEAN
      /\ up' \in BOOLEAN /\ cursor' \in Nat
      /\ got' \in Nat /\ stale' \in Nat /\ lost' \in BOOLEAN
  BY DEF Gone
<1>4. out' \in Seq(Request) /\ wire' \in Seq(Exchange) /\ buffer' \in Seq(Nat)
  BY EmptyTypes DEF Gone
<1> QED  BY <1>1, <1>2, <1>3, <1>4 DEF TypeOK

\* The types are preserved by every step.
LEMMA TypeStep == TypeOK /\ [Next]_vars => TypeOK'
<1> SUFFICES ASSUME TypeOK, [Next]_vars PROVE TypeOK'
  OBVIOUS
<1>1. CASE Connect
  BY <1>1 DEF Connect, Ops, TypeOK, session, stream, server
<1>2. CASE Close
  BY <1>2, GoneTypes DEF Close
<1>3. CASE Reset
  <2>1. out' \in Seq(Request)
    BY <1>3, WritesTypes DEF Reset, Send, Signatures, TypeOK
  <2>2. at' \in Awaits \union {"idle"} /\ op' \in Ops
    BY <1>3
    DEF Reset, Send, TypeOK, Awaits, Draining, Collecting, Single, Ops,
        ConnOps, TxOps
  <2> QED  BY <1>3, <2>1, <2>2
    DEF Reset, Send, TypeOK, session, stream, server
<1>4. CASE \E o \in {"run", "begin", "route"} : Call(o, -1)
  <2>1. PICK o \in {"run", "begin", "route"} : Call(o, -1)
    BY <1>4
  <2>2. o \in Ops /\ -1 \in Int
    BY RequestTypes DEF Ops, ConnOps
  <2>3. Start(o, -1) => /\ out' \in Seq(Request) /\ broken' = TRUE
                         /\ at' \in Awaits /\ needs_reset' = TRUE
    BY <2>1, <2>2, StartTypes DEF Awaits, Single
  <2>4. /\ out' \in Seq(Request) /\ broken' = TRUE
        /\ at' \in Awaits /\ needs_reset' \in BOOLEAN
    BY <2>1, <2>3, WritesTypes
    DEF Call, Send, Awaits, Draining, Signatures, TypeOK
  <2> QED  BY <2>1, <2>2, <2>4, EmptyTypes DEF Call, TypeOK, server
<1>5. CASE \E b \in Batches : Call("run_stream", b)
  <2>1. PICK b \in Batches : Call("run_stream", b)
    BY <1>5
  <2>2. "run_stream" \in Ops /\ b \in Int
    BY RequestTypes DEF Ops, ConnOps
  <2>3. Start("run_stream", b) => /\ out' \in Seq(Request) /\ broken' = TRUE
                         /\ at' \in Awaits /\ needs_reset' = TRUE
    BY <2>1, <2>2, StartTypes DEF Awaits, Single
  <2>4. /\ out' \in Seq(Request) /\ broken' = TRUE
        /\ at' \in Awaits /\ needs_reset' \in BOOLEAN
    BY <2>1, <2>3, WritesTypes
    DEF Call, Send, Awaits, Draining, Signatures, TypeOK
  <2> QED  BY <2>1, <2>2, <2>4, EmptyTypes DEF Call, TypeOK, server
<1>6. CASE TxCall("tx_run", -1)
  <2>1. TxCall("tx_run", -1)
    BY <1>6
  <2>2. "tx_run" \in Ops /\ -1 \in Int
    BY RequestTypes DEF Ops, TxOps
  <2>3. Start("tx_run", -1) => /\ out' \in Seq(Request) /\ broken' = TRUE
                         /\ at' \in Awaits /\ needs_reset' = TRUE
    BY <2>1, <2>2, StartTypes DEF Awaits, Single
  <2> QED  BY <2>1, <2>2, <2>3, EmptyTypes DEF TxCall, TypeOK, server
<1>7. CASE \E b \in Batches : TxCall("tx_run_stream", b)
  <2>1. PICK b \in Batches : TxCall("tx_run_stream", b)
    BY <1>7
  <2>2. "tx_run_stream" \in Ops /\ b \in Int
    BY RequestTypes DEF Ops, TxOps
  <2>3. Start("tx_run_stream", b) => /\ out' \in Seq(Request) /\ broken' = TRUE
                         /\ at' \in Awaits /\ needs_reset' = TRUE
    BY <2>1, <2>2, StartTypes DEF Awaits, Single
  <2> QED  BY <2>1, <2>2, <2>3, EmptyTypes DEF TxCall, TypeOK, server
<1>8. CASE TxRefuse
  BY <1>8 DEF TxRefuse, TypeOK, session, stream, server
<1>9. CASE Commit
  <2>1. out' \in Seq(Request)
    BY <1>9, WritesTypes DEF Commit, Send, Signatures, TypeOK
  <2>2. at' \in Awaits \union {"idle"} /\ op' \in Ops
    BY <1>9
    DEF Commit, Send, TypeOK, Awaits, Draining, Collecting, Single, Ops,
        ConnOps, TxOps, TxFree
  <2> QED  BY <1>9, <2>1, <2>2
    DEF Commit, Send, TypeOK, session, stream, server
<1>10. CASE Rollback
  <2>1. out' \in Seq(Request)
    BY <1>10, WritesTypes DEF Rollback, Send, Signatures, TypeOK
  <2>2. at' \in Awaits \union {"idle"} /\ op' \in Ops
    BY <1>10
    DEF Rollback, Send, TypeOK, Awaits, Draining, Collecting, Single, Ops,
        ConnOps, TxOps, TxFree
  <2> QED  BY <1>10, <2>1, <2>2
    DEF Rollback, Send, TypeOK, session, stream, server
<1>11. CASE TxDrop
  BY <1>11 DEF TxDrop, TypeOK, session, stream, server
<1>12. CASE NextBuffered
  <2>1. buffer # << >> => Head(buffer) \in Nat /\ Tail(buffer) \in Seq(Nat)
    BY <1>12 DEF TypeOK
  <2>2. got' \in Nat /\ buffer' \in Seq(Nat)
    BY <1>12, <2>1 DEF NextBuffered, TypeOK
  <2> QED  BY <1>12, <2>1, <2>2
    DEF NextBuffered, TypeOK, session, stream, server
<1>13. CASE NextFetch
  <2>1. out' \in Seq(Request)
    BY <1>13, WritesTypes DEF NextFetch, Send, Signatures, TypeOK, Fetch
  <2>2. at' \in Awaits \union {"idle"} /\ op' \in Ops
    BY <1>13
    DEF NextFetch, Send, TypeOK, Awaits, Draining, Collecting, Single, Ops,
        ConnOps, TxOps, Fetch
  <2> QED  BY <1>13, <2>1, <2>2
    DEF NextFetch, Fetch, Send, TypeOK, session, stream, server
<1>14. CASE FinishDone
  BY <1>14 DEF FinishDone, TypeOK, session, stream, server
<1>15. CASE Finish
  <2>1. out' \in Seq(Request)
    BY <1>15, WritesTypes DEF Finish, Send, Signatures, TypeOK
  <2>2. at' \in Awaits \union {"idle"} /\ op' \in Ops
    BY <1>15
    DEF Finish, Send, TypeOK, Awaits, Draining, Collecting, Single, Ops,
        ConnOps, TxOps
  <2> QED  BY <1>15, <2>1, <2>2
    DEF Finish, Send, TypeOK, session, stream, server
<1>16. CASE StreamDrop
  BY <1>16 DEF StreamDrop, TypeOK, session, stream, server
<1>17. CASE Cancel
  BY <1>17 DEF Cancel, Leave, Disown, Ops, TypeOK, session, stream, server
<1>18. CASE Write
  <2>1. wire' \in Seq(Exchange) /\ pending' \in Nat
    BY <1>18, ConcatExchange DEF Write, TypeOK
  <2> QED  BY <1>18, <2>1, EmptyTypes
    DEF Write, TypeOK, session, stream, server
<1>19. CASE EncodeFails
  <2>1. stale' \in Nat /\ out' \in Seq(Request)
    BY <1>19, EmptyTypes DEF EncodeFails, Disown, TypeOK
  <2>2. /\ at' = "idle" /\ op' = "none" /\ needs_reset' \in BOOLEAN
        /\ tx' \in {"none", "open", "done"} /\ strm' \in {"none", "open", "done"}
    BY <1>19 DEF EncodeFails, Leave, TypeOK
  <2> QED  BY <1>19, <2>1, <2>2 DEF EncodeFails, Ops, TypeOK, stream, server
<1>20. CASE Cut
  <2>1. PICK k \in 0..Len(out) : wire' = wire \o AllSent(SubSeq(out, 1, k))
    BY <1>20 DEF Cut
  <2>2. SubSeq(out, 1, k) \in Seq(Request)
    BY DEF TypeOK
  <2>3. wire' \in Seq(Exchange)
    BY <2>1, <2>2, ConcatExchange DEF TypeOK
  <2>4. stale' \in Nat /\ out' \in Seq(Request)
    BY <1>20, <2>3, EmptyTypes DEF Cut, Disown, TypeOK
  <2>5. /\ at' = "idle" /\ op' = "none" /\ needs_reset' \in BOOLEAN
        /\ tx' \in {"none", "open", "done"} /\ strm' \in {"none", "open", "done"}
    BY <1>20 DEF Cut, Leave, TypeOK
  <2> QED  BY <1>20, <2>3, <2>4, <2>5 DEF Cut, Ops, TypeOK, stream, server
<1>21. CASE ReadTimeout
  BY <1>21
  DEF ReadTimeout, Leave, Disown, Ops, TypeOK, session, stream, server
<1>22. CASE ReadBroken
  BY <1>22
  DEF ReadBroken, Leave, Disown, Ops, TypeOK, session, stream, server
<1>23. CASE ReadRecord
  <2>1. wire' \in Seq(Exchange) /\ Head(wire[1].rows) \in Nat
    BY <1>23, RecordTypes DEF ReadRecord
  <2>2. buffer' \in Seq(Nat)
    BY <1>23, <2>1 DEF ReadRecord, TypeOK
  <2> QED  BY <1>23, <2>1, <2>2
    DEF ReadRecord, TakeRecord, TypeOK, session, stream, server
<1>24. CASE ReadUnexpected
  <2>1. wire' \in Seq(Exchange)
    BY <1>24, RecordTypes DEF ReadUnexpected
  <2> QED  BY <1>24, <2>1
    DEF ReadUnexpected, TakeRecord, Leave, Disown, Ops, TypeOK, session,
        stream, server
<1>25. CASE ReadHello
  <2>1. wire' \in Seq(Exchange) /\ pending' \in Nat /\ stale' \in Nat
    BY <1>25, TakeTypes, DisownTypes DEF ReadHello
  <2>2. out' \in Seq(Request)
    BY <1>25, WritesTypes DEF ReadHello, Send, Signatures, TypeOK
  <2>3. at' \in Awaits \union {"idle"} /\ op' \in Ops
    BY <1>25
    DEF ReadHello, Send, TypeOK, Awaits, Draining, Collecting, Single, Ops,
        ConnOps, TxOps
  <2> QED  BY <1>25, <2>1, <2>2, <2>3
    DEF ReadHello, Send, TypeOK, session, stream, server
<1>26. CASE ReadLogon
  <2>1. wire' \in Seq(Exchange) /\ pending' \in Nat /\ stale' \in Nat
    BY <1>26, TakeTypes, DisownTypes DEF ReadLogon
  <2> QED  BY <1>26, <2>1
    DEF ReadLogon, Leave, Ops, TypeOK, session, stream, server
<1>27. CASE ReadOwed
  <2>1. wire' \in Seq(Exchange) /\ pending' \in Nat /\ stale' \in Nat
    BY <1>27, TakeTypes, DisownTypes DEF ReadOwed
  <2> QED  BY <1>27, <2>1 DEF ReadOwed, TypeOK, session, stream, server
<1>28. CASE ReadReset
  <2>1. wire' \in Seq(Exchange) /\ pending' \in Nat /\ stale' \in Nat
    BY <1>28, TakeTypes, DisownTypes DEF ReadReset
  <2>2. Start(op, batch) => /\ out' \in Seq(Request) /\ broken' = TRUE
                           /\ at' \in Awaits /\ needs_reset' = TRUE
    BY StartTypes DEF TypeOK, Awaits, Single
  <2> QED  BY <1>28, <2>1, <2>2 DEF ReadReset, Leave, Ops, TypeOK, session, stream, server
<1>29. CASE ReadResetRefused
  <2>1. wire' \in Seq(Exchange) /\ pending' \in Nat /\ stale' \in Nat
    BY <1>29, TakeTypes, DisownTypes DEF ReadResetRefused
  <2> QED  BY <1>29, <2>1
    DEF ReadResetRefused, Leave, Ops, TypeOK, session, stream, server
<1>30. CASE ReadRun
  <2>1. wire' \in Seq(Exchange) /\ pending' \in Nat /\ stale' \in Nat
    BY <1>30, TakeTypes, DisownTypes DEF ReadRun
  <2> QED  BY <1>30, <2>1
    DEF ReadRun, Leave, Ops, Awaits, Collecting, TypeOK, session, stream,
        server
<1>31. CASE ReadEnd
  <2>1. wire' \in Seq(Exchange) /\ pending' \in Nat /\ stale' \in Nat
    BY <1>31, TakeTypes, DisownTypes DEF ReadEnd
  <2> QED  BY <1>31, <2>1
    DEF ReadEnd, Leave, Ops, TypeOK, session, stream, server
<1>32. CASE ReadBegin
  <2>1. wire' \in Seq(Exchange) /\ pending' \in Nat /\ stale' \in Nat
    BY <1>32, TakeTypes, DisownTypes DEF ReadBegin
  <2> QED  BY <1>32, <2>1
    DEF ReadBegin, Ops, TypeOK, session, stream, server
<1>33. CASE ReadBatch
  <2>1. wire' \in Seq(Exchange) /\ pending' \in Nat /\ stale' \in Nat
    BY <1>33, TakeTypes, DisownTypes DEF ReadBatch
  <2>2. /\ <<[sig |-> "PULL", n |-> batch]>> \in Seq(Request)
        /\ <<Req("DISCARD")>> \in Seq(Request)
    BY WritesTypes DEF TypeOK, Signatures
  <2>3. buffer # << >> => Head(buffer) \in Nat /\ Tail(buffer) \in Seq(Nat)
    BY DEF TypeOK
  <2>4. /\ at' \in Awaits \union {"idle"} /\ op' \in Ops
        /\ out' \in Seq(Request) /\ broken' \in BOOLEAN
        /\ buffer' \in Seq(Nat) /\ got' \in Nat
    BY <1>33, <2>2, <2>3, EmptyTypes
    DEF ReadBatch, Send, Leave, TypeOK, Ops, Awaits, Collecting
  <2>5. /\ tx' \in {"none", "open", "done"} /\ strm' \in {"none", "open", "done"}
        /\ needs_reset' \in BOOLEAN /\ has_more' \in BOOLEAN
        /\ pull_in_flight' \in BOOLEAN
    BY <1>33 DEF ReadBatch, Leave, TypeOK
  <2> QED  BY <1>33, <2>1, <2>4, <2>5 DEF ReadBatch, TypeOK, server
<1>34. CASE ReadDiscard
  <2>1. wire' \in Seq(Exchange) /\ pending' \in Nat /\ stale' \in Nat
    BY <1>34, TakeTypes, DisownTypes DEF ReadDiscard
  <2> QED  BY <1>34, <2>1
    DEF ReadDiscard, Leave, Ops, TypeOK, session, stream, server
<1>35. CASE ReadFailure
  <2>1. wire' \in Seq(Exchange) /\ pending' \in Nat /\ stale' \in Nat
    BY <1>35, TakeTypes, DisownTypes DEF ReadFailure
  <2>2. out' \in Seq(Request)
    BY <1>35, WritesTypes DEF ReadFailure, Send, Signatures, TypeOK
  <2>3. at' \in Awaits \union {"idle"} /\ op' \in Ops
    BY <1>35
    DEF ReadFailure, Send, TypeOK, Awaits, Draining, Collecting, Single, Ops,
        ConnOps, TxOps
  <2> QED  BY <1>35, <2>1, <2>2, <2>3
    DEF ReadFailure, Send, TypeOK, session, stream, server
<1>36. CASE ReadBeginFailure
  <2>1. wire' \in Seq(Exchange) /\ pending' \in Nat /\ stale' \in Nat
    BY <1>36, TakeTypes, DisownTypes DEF ReadBeginFailure
  <2> QED  BY <1>36, <2>1
    DEF ReadBeginFailure, Leave, Ops, TypeOK, session, stream, server
<1>37. CASE ReadIgnored
  <2>1. wire' \in Seq(Exchange) /\ pending' \in Nat /\ stale' \in Nat
    BY <1>37, TakeTypes, DisownTypes DEF ReadIgnored
  <2> QED  BY <1>37, <2>1
    DEF ReadIgnored, Leave, Ops, TypeOK, session, stream, server
<1>38. CASE Handshake
  <2>1. out' \in Seq(Request)
    BY <1>38, WritesTypes DEF Handshake, Send, Signatures, TypeOK
  <2>2. at' \in Awaits \union {"idle"} /\ op' \in Ops
    BY <1>38
    DEF Handshake, Send, TypeOK, Awaits, Draining, Collecting, Single, Ops,
        ConnOps, TxOps
  <2> QED  BY <1>38, <2>1, <2>2
    DEF Handshake, Send, TypeOK, session, stream, server
<1>39. CASE ConnectFails
  BY <1>39, GoneTypes DEF ConnectFails
<1>40. CASE \E i \in 1..Len(wire) : Serve(i)
  BY <1>40, ServeTypes DEF TypeOK, session, stream, server
<1>41. CASE Hangup
  BY <1>41 DEF Hangup, TypeOK, session, stream, server
<1>42. CASE UNCHANGED vars
  BY <1>42 DEF vars, TypeOK, session, stream, server
<1> QED
  BY <1>1, <1>2, <1>3, <1>4, <1>5, <1>6, <1>7, <1>8, <1>9, <1>10, <1>11, <1>12,
     <1>13, <1>14, <1>15, <1>16, <1>17, <1>18, <1>19, <1>20, <1>21, <1>22,
     <1>23, <1>24, <1>25, <1>26, <1>27, <1>28, <1>29, <1>30, <1>31, <1>32,
     <1>33, <1>34, <1>35, <1>36, <1>37, <1>38, <1>39, <1>40, <1>41, <1>42
  DEF Next, Operation, WriteEnds, ReadEnds

\* The types hold before the connection is made.
LEMMA InitTypes == Init => TypeOK
<1> SUFFICES ASSUME Init PROVE TypeOK
  OBVIOUS
<1>1. batch \in Int
  BY DEF Init
<1>2. /\ at \in Awaits \union {"closed", "handshake", "idle"}
      /\ op \in Ops /\ srv \in ServerStates
  BY DEF Init, Ops, ServerStates
<1>3. /\ needs_reset \in BOOLEAN /\ pending \in Nat /\ broken \in BOOLEAN
      /\ tx \in {"none", "open", "done"} /\ strm \in {"none", "open", "done"}
      /\ has_more \in BOOLEAN /\ pull_in_flight \in BOOLEAN
      /\ up \in BOOLEAN /\ cursor \in Nat
      /\ got \in Nat /\ stale \in Nat /\ lost \in BOOLEAN
  BY DEF Init
<1>4. out \in Seq(Request) /\ wire \in Seq(Exchange) /\ buffer \in Seq(Nat)
  BY EmptyTypes DEF Init
<1> QED  BY <1>1, <1>2, <1>3, <1>4 DEF TypeOK

\* Every variable of a connection keeps its type, whatever is called,
\* cancelled, answered or lost.
THEOREM Typing == Spec => []TypeOK
<1> QED  BY InitTypes, TypeStep, PTL DEF Spec

-----------------------------------------------------------------------------
(* The inductive invariant *)

\* No reply is owed exactly when the wire is empty.
LEMMA EmptyLen ==
  ASSUME NEW S, NEW w \in Seq(S)
  PROVE  Len(w) \in Nat /\ (w = << >> <=> Len(w) = 0)
  OBVIOUS

\* What reading a summary does to what is owed.
TookOne ==
  /\ out = << >> /\ ~broken
  /\ Len(wire) \in Nat /\ Len(wire) >= 1 /\ pending' \in Nat
  /\ Len(wire') = Len(wire) - 1
  /\ pending' = Len(wire')
  /\ wire' = << >> <=> pending' = 0
  /\ \A i \in 1..Len(wire') : wire'[i].sig = wire[i + 1].sig
  /\ Len(wire') >= 1 => wire'[Len(wire')].sig = wire[Len(wire)].sig

\* What reading a summary does to the wire and to `pending'.
LEMMA TakeFacts ==
  ASSUME TypeOK, PendingCountsOwed, InvReading, NEW rs, Take(rs)
  PROVE  TookOne
<1>1. Reading /\ wire # << >> /\ wire' = Tail(wire) /\ wire \in Seq(Exchange)
  BY DEF Take, TypeOK
<1>2. out = << >> /\ ~broken /\ pending = Len(wire)
  BY <1>1 DEF InvReading, Reading, PendingCountsOwed
<1>3. /\ wire' \in Seq(Exchange)
      /\ Len(wire) \in Nat /\ Len(wire) >= 1
      /\ Len(wire') = Len(wire) - 1
      /\ \A i \in 1..(Len(wire) - 1) : wire'[i] = wire[i + 1]
  BY <1>1, TailExchange
<1>4. pending' = Len(wire) - 1
  BY <1>2, <1>3 DEF Take
<1>5. wire' = << >> <=> Len(wire') = 0
  BY <1>3, EmptyLen
<1> QED  BY <1>2, <1>3, <1>4, <1>5 DEF TookOne

\* What completing a write does to it.
LEMMA WriteFacts ==
  ASSUME TypeOK, Write
  PROVE  /\ Len(out) \in Nat /\ Len(out) >= 1 /\ Len(wire) \in Nat
         /\ Len(wire') = Len(wire) + Len(out)
         /\ wire' # << >>
         /\ \A i \in 1..Len(out) : wire'[Len(wire) + i].sig = out[i].sig
         /\ wire'[Len(wire')].sig = out[Len(out)].sig
<1>1. wire' = wire \o AllSent(out) /\ out # << >>
      /\ wire \in Seq(Exchange) /\ out \in Seq(Request)
  BY DEF Write, TypeOK
<1>2. Len(out) \in Nat /\ Len(out) >= 1 /\ Len(wire) \in Nat
  BY <1>1
<1>3. /\ wire' \in Seq(Exchange)
      /\ Len(wire') = Len(wire) + Len(out)
      /\ \A i \in 1..Len(out) : wire'[Len(wire) + i].sig = out[i].sig
  BY <1>1, ConcatExchange
<1>4. wire' # << >>
  BY <1>2, <1>3
<1> QED  BY <1>2, <1>3, <1>4

\* What the start of an operation's own exchange leaves.
Started(o) ==
  /\ out' # << >> /\ broken' = TRUE /\ needs_reset' = TRUE
  /\ \/ at' = "run" /\ RunPull(out') /\ o \notin {"begin", "route"}
     \/ at' = "begin" /\ One(out', "BEGIN") /\ o = "begin"
     \/ at' = "route" /\ One(out', "ROUTE") /\ o = "route"

\* What an operation writes first, and where it then waits.
LEMMA StartFacts ==
  ASSUME NEW o \in ConnOps \union TxOps, NEW b \in Int, Start(o, b)
  PROVE  Started(o)
<1> USE DEF Started
<1>1. /\ out' = FirstRequests(o, b) /\ at' = FirstAwait(o)
      /\ broken' = TRUE /\ needs_reset' = TRUE
  BY DEF Start, Send
<1>2. CASE o \in StreamOps
  <2>1. out' = <<Req("RUN"), [sig |-> "PULL", n |-> b]>> /\ at' = "run"
    BY <1>1, <1>2 DEF FirstRequests, FirstAwait, StreamOps
  <2> QED  BY <1>1, <1>2, <2>1 DEF RunPull, Req, StreamOps
<1>3. CASE o \in {"run", "tx_run"}
  <2>1. out' = <<Req("RUN"), Req("PULL")>> /\ at' = "run"
    BY <1>1, <1>3 DEF FirstRequests, FirstAwait, StreamOps
  <2> QED  BY <1>1, <1>3, <2>1 DEF RunPull, Req
<1>4. CASE o = "begin"
  <2>1. out' = <<Req("BEGIN")>> /\ at' = "begin"
    BY <1>1, <1>4 DEF FirstRequests, FirstAwait, StreamOps
  <2> QED  BY <1>1, <1>4, <2>1 DEF One, Req
<1>5. CASE o = "route"
  <2>1. out' = <<Req("ROUTE")>> /\ at' = "route"
    BY <1>1, <1>5 DEF FirstRequests, FirstAwait, StreamOps
  <2> QED  BY <1>1, <1>5, <2>1 DEF One, Req
<1> QED  BY <1>2, <1>3, <1>4, <1>5 DEF ConnOps, TxOps, StreamOps

\* The invariant is preserved by every step.  <1>0 to <1>b are the facts about
\* the state before the step that the cases share.
LEMMA InvStep == Inv /\ [Next]_vars => Inv'
<1> SUFFICES ASSUME Inv, [Next]_vars PROVE Inv'
  OBVIOUS
<1>0. /\ TypeOK /\ TypeOK' /\ PendingCountsOwed
      /\ InvWriting /\ InvReading /\ InvIdle /\ InvStale /\ InvHandles
  BY TypeStep DEF Inv
<1>e. /\ Len(wire) \in Nat /\ (wire = << >> <=> Len(wire) = 0)
      /\ Len(wire') \in Nat /\ (wire' = << >> <=> Len(wire') = 0)
      /\ Len(out) \in Nat /\ (out = << >> <=> Len(out) = 0)
      /\ Len(out') \in Nat /\ (out' = << >> <=> Len(out') = 0)
      /\ stale \in Nat /\ pending \in Nat
  BY <1>0, EmptyLen DEF TypeOK
<1>a. /\ Awaited["hello"] = "HELLO" /\ Awaited["logon"] = "LOGON"
      /\ Awaited["begin"] = "BEGIN" /\ Awaited["route"] = "ROUTE"
      /\ Awaited["commit"] = "COMMIT" /\ Awaited["discard"] = "DISCARD"
      /\ Awaited["pull"] = "PULL" /\ Awaited["batch"] = "PULL"
  BY DEF Awaited
<1>b. Reading => /\ tx # "none" \/ strm # "none" => needs_reset
                 /\ op \in TxOps => needs_reset
                 /\ strm = "open" => /\ at = "batch" /\ pull_in_flight
                                     /\ One(wire, "PULL")
  BY <1>0, <1>a DEF Reading, InvReading, InvHandles, Awaits, Draining, Collecting,
                    Single, OneReply
<1> USE DEF session, stream, Reading, Awaits, Draining, Collecting, Single,
            OneReply, ConnOps, TxOps, One, RunPull, TookOne, Started,
            PendingCountsOwed, InvWriting, InvReading, InvIdle, InvStale,
            InvHandles
<1>1. CASE Connect
  BY <1>1, <1>0, <1>e, <1>a DEF Inv, Connect
<1>2. CASE Close
  BY <1>2, <1>0, <1>e, <1>a DEF Inv, Close, Gone
<1>3. CASE Reset
  <2>1. One(<<Req("RESET")>>, "RESET") /\ <<Req("RESET")>> # << >>
    BY WritesTypes DEF Signatures
  <2> QED  BY <1>3, <1>0, <1>e, <1>a, <2>1 DEF Inv, Reset, Send, Free
<1>4. CASE \E o \in {"run", "begin", "route"} : Call(o, -1)
  <2>1. PICK o \in {"run", "begin", "route"} : Call(o, -1)
    BY <1>4
  <2>2. -1 \in Int
    BY RequestTypes
  <2>3. Start(o, -1) => Started(o)
    BY <2>2, StartFacts
  <2>4. One(<<Req("RESET")>>, "RESET") /\ <<Req("RESET")>> # << >>
    BY WritesTypes DEF Signatures
  <2>5. PendingCountsOwed'
    BY <1>0, <1>e, <1>a, <2>1, <2>2, <2>3, <2>4 DEF Call, Send, Free
  <2>6. InvWriting'
    BY <1>0, <1>e, <1>a, <2>1, <2>2, <2>3, <2>4 DEF Call, Send, Free
  <2>7. InvReading'
    BY <1>0, <1>e, <1>a, <2>1, <2>2, <2>3, <2>4 DEF Call, Send, Free
  <2>8. InvIdle'
    BY <1>0, <1>e, <1>a, <2>1, <2>2, <2>3, <2>4 DEF Call, Send, Free
  <2>9. InvStale'
    BY <1>0, <1>e, <1>a, <2>1, <2>2, <2>3, <2>4 DEF Call, Send, Free
  <2>10. InvHandles'
    BY <1>0, <1>e, <1>a, <2>1, <2>2, <2>3, <2>4 DEF Call, Send, Free
  <2> QED  BY <1>0, <2>5, <2>6, <2>7, <2>8, <2>9, <2>10 DEF Inv
<1>5. CASE \E b \in Batches : Call("run_stream", b)
  <2>1. PICK b \in Batches : Call("run_stream", b)
    BY <1>5
  <2>2. b \in Int
    BY RequestTypes
  <2>3. Start("run_stream", b) => Started("run_stream")
    BY <2>2, StartFacts
  <2>4. One(<<Req("RESET")>>, "RESET") /\ <<Req("RESET")>> # << >>
    BY WritesTypes DEF Signatures
  <2>5. PendingCountsOwed'
    BY <1>0, <1>e, <1>a, <2>1, <2>2, <2>3, <2>4 DEF Call, Send, Free
  <2>6. InvWriting'
    BY <1>0, <1>e, <1>a, <2>1, <2>2, <2>3, <2>4 DEF Call, Send, Free
  <2>7. InvReading'
    BY <1>0, <1>e, <1>a, <2>1, <2>2, <2>3, <2>4 DEF Call, Send, Free
  <2>8. InvIdle'
    BY <1>0, <1>e, <1>a, <2>1, <2>2, <2>3, <2>4 DEF Call, Send, Free
  <2>9. InvStale'
    BY <1>0, <1>e, <1>a, <2>1, <2>2, <2>3, <2>4 DEF Call, Send, Free
  <2>10. InvHandles'
    BY <1>0, <1>e, <1>a, <2>1, <2>2, <2>3, <2>4 DEF Call, Send, Free
  <2> QED  BY <1>0, <2>5, <2>6, <2>7, <2>8, <2>9, <2>10 DEF Inv
<1>6. CASE TxCall("tx_run", -1)
  <2>1. -1 \in Int
    BY RequestTypes
  <2>2. Start("tx_run", -1) => Started("tx_run")
    BY <2>1, StartFacts
  <2>3. PendingCountsOwed' /\ InvWriting' /\ InvReading'
    BY <1>6, <1>0, <1>e, <1>a, <2>1, <2>2 DEF TxCall, TxFree, guard_open
  <2>4. InvIdle'
    BY <1>6, <1>0, <1>e, <1>a, <2>1, <2>2 DEF TxCall, TxFree, guard_open
  <2>5. InvStale'
    BY <1>6, <1>0, <1>e, <1>a, <2>1, <2>2 DEF TxCall, TxFree, guard_open
  <2>6. InvHandles'
    BY <1>6, <1>0, <1>e, <1>a, <2>1, <2>2 DEF TxCall, TxFree, guard_open
  <2> QED  BY <1>0, <2>3, <2>4, <2>5, <2>6 DEF Inv
<1>7. CASE \E b \in Batches : TxCall("tx_run_stream", b)
  <2>1. PICK b \in Batches : TxCall("tx_run_stream", b)
    BY <1>7
  <2>2. b \in Int
    BY RequestTypes
  <2>3. Start("tx_run_stream", b) => Started("tx_run_stream")
    BY <2>2, StartFacts
  <2>4. PendingCountsOwed' /\ InvWriting' /\ InvReading'
    BY <1>0, <1>e, <1>a, <2>1, <2>2, <2>3 DEF TxCall, TxFree, guard_open
  <2>5. InvIdle'
    BY <1>0, <1>e, <1>a, <2>1, <2>2, <2>3 DEF TxCall, TxFree, guard_open
  <2>6. InvStale'
    BY <1>0, <1>e, <1>a, <2>1, <2>2, <2>3 DEF TxCall, TxFree, guard_open
  <2>7. InvHandles'
    BY <1>0, <1>e, <1>a, <2>1, <2>2, <2>3 DEF TxCall, TxFree, guard_open
  <2> QED  BY <1>0, <2>4, <2>5, <2>6, <2>7 DEF Inv
<1>8. CASE TxRefuse
  BY <1>8, <1>0, <1>e, <1>a DEF Inv, TxRefuse, TxFree
<1>9. CASE Commit
  <2>1. One(<<Req("COMMIT")>>, "COMMIT") /\ <<Req("COMMIT")>> # << >>
    BY WritesTypes DEF Signatures
  <2> QED  BY <1>9, <1>0, <1>e, <1>a, <2>1 DEF Inv, Commit, Send, TxFree, guard_open
<1>10. CASE Rollback
  <2>1. One(<<Req("ROLLBACK")>>, "ROLLBACK") /\ <<Req("ROLLBACK")>> # << >>
    BY WritesTypes DEF Signatures
  <2> QED  BY <1>10, <1>0, <1>e, <1>a, <2>1
    DEF Inv, Rollback, Send, TxFree, guard_open
<1>11. CASE TxDrop
  BY <1>11, <1>0, <1>e, <1>a DEF Inv, TxDrop, TxFree
<1>12. CASE NextBuffered
  BY <1>12, <1>0, <1>e, <1>a DEF Inv, NextBuffered, StreamFree
<1>13. CASE NextFetch
  <2>1. /\ One(<<[sig |-> "PULL", n |-> batch]>>, "PULL")
        /\ <<[sig |-> "PULL", n |-> batch]>> # << >>
    BY <1>0, WritesTypes DEF TypeOK
  <2> QED  BY <1>13, <1>0, <1>e, <1>a, <2>1
    DEF Inv, NextFetch, StreamFree, Fetch, Send
<1>14. CASE FinishDone
  BY <1>14, <1>0, <1>e, <1>a DEF Inv, FinishDone, StreamFree
<1>15. CASE Finish
  <2>1. One(<<Req("DISCARD")>>, "DISCARD") /\ <<Req("DISCARD")>> # << >>
    BY WritesTypes DEF Signatures
  <2> QED  BY <1>15, <1>0, <1>e, <1>a, <2>1 DEF Inv, Finish, StreamFree, Send
<1>16. CASE StreamDrop
  <2>1. PendingCountsOwed' /\ InvWriting' /\ InvReading'
    BY <1>16, <1>0, <1>e, <1>a DEF StreamDrop, StreamFree
  <2>2. InvIdle'
    BY <1>16, <1>0, <1>e, <1>a DEF StreamDrop, StreamFree
  <2>3. InvStale'
    BY <1>16, <1>0, <1>e, <1>a DEF StreamDrop, StreamFree
  <2>4. InvHandles'
    BY <1>16, <1>0, <1>e, <1>a DEF StreamDrop, StreamFree
  <2> QED  BY <1>0, <2>1, <2>2, <2>3, <2>4 DEF Inv
<1>17. CASE Cancel
  <2>1. PendingCountsOwed' /\ InvWriting' /\ InvReading'
    BY <1>17, <1>0, <1>e, <1>a, <1>b DEF Cancel, Leave, Disown
  <2>2. InvIdle'
    BY <1>17, <1>0, <1>e, <1>a, <1>b DEF Cancel, Leave, Disown
  <2>3. InvStale'
    BY <1>17, <1>0, <1>e, <1>a, <1>b DEF Cancel, Leave, Disown
  <2>4. InvHandles'
    BY <1>17, <1>0, <1>e, <1>a, <1>b DEF Cancel, Leave, Disown
  <2> QED  BY <1>0, <2>1, <2>2, <2>3, <2>4 DEF Inv
<1>18. CASE Write
  <2>1. /\ Len(out) >= 1 /\ Len(wire') = Len(wire) + Len(out)
        /\ \A i \in 1..Len(out) : wire'[Len(wire) + i].sig = out[i].sig
        /\ wire'[Len(wire')].sig = out[Len(out)].sig
    BY <1>18, <1>0, WriteFacts
  <2>2. PendingCountsOwed'
    BY <1>18, <1>0, <1>e, <1>a, <2>1 DEF Write
  <2>3. InvWriting'
    BY <1>18, <1>0, <1>e, <1>a, <2>1 DEF Write
  <2>4. InvReading'
    BY <1>18, <1>0, <1>e, <1>a, <2>1 DEF Write
  <2>5. InvIdle'
    BY <1>18, <1>0, <1>e, <1>a, <2>1 DEF Write
  <2>6. InvStale'
    BY <1>18, <1>0, <1>e, <1>a, <2>1 DEF Write
  <2>7. InvHandles'
    BY <1>18, <1>0, <1>e, <1>a, <2>1 DEF Write
  <2> QED  BY <1>0, <2>2, <2>3, <2>4, <2>5, <2>6, <2>7 DEF Inv
<1>19. CASE EncodeFails
  <2>1. at # "batch"
    BY <1>19, <1>0, <1>a DEF EncodeFails
  <2>2. PendingCountsOwed' /\ InvWriting' /\ InvReading'
    BY <1>19, <1>0, <1>e, <1>a, <2>1 DEF EncodeFails, Leave, Disown
  <2>3. InvIdle'
    BY <1>19, <1>0, <1>e, <1>a, <2>1 DEF EncodeFails, Leave, Disown
  <2>4. InvStale'
    BY <1>19, <1>0, <1>e, <1>a, <2>1 DEF EncodeFails, Leave, Disown
  <2>5. InvHandles'
    BY <1>19, <1>0, <1>e, <1>a, <2>1 DEF EncodeFails, Leave, Disown
  <2> QED  BY <1>0, <2>2, <2>3, <2>4, <2>5 DEF Inv
<1>20. CASE Cut
  <2>1. PendingCountsOwed' /\ InvWriting' /\ InvReading'
    BY <1>20, <1>0, <1>e, <1>a DEF Cut, Leave, Disown
  <2>2. InvIdle'
    BY <1>20, <1>0, <1>e, <1>a DEF Cut, Leave, Disown
  <2>3. InvStale'
    BY <1>20, <1>0, <1>e, <1>a DEF Cut, Leave, Disown
  <2>4. InvHandles'
    BY <1>20, <1>0, <1>e, <1>a DEF Cut, Leave, Disown
  <2> QED  BY <1>0, <2>1, <2>2, <2>3, <2>4 DEF Inv
<1>21. CASE ReadTimeout
  <2>1. PendingCountsOwed' /\ InvWriting' /\ InvReading'
    BY <1>21, <1>0, <1>e, <1>a, <1>b DEF ReadTimeout, Leave, Disown
  <2>2. InvIdle'
    BY <1>21, <1>0, <1>e, <1>a, <1>b DEF ReadTimeout, Leave, Disown
  <2>3. InvStale'
    BY <1>21, <1>0, <1>e, <1>a, <1>b DEF ReadTimeout, Leave, Disown
  <2>4. InvHandles'
    BY <1>21, <1>0, <1>e, <1>a, <1>b DEF ReadTimeout, Leave, Disown
  <2> QED  BY <1>0, <2>1, <2>2, <2>3, <2>4 DEF Inv
<1>22. CASE ReadBroken
  <2>1. PendingCountsOwed' /\ InvWriting' /\ InvReading'
    BY <1>22, <1>0, <1>e, <1>a, <1>b DEF ReadBroken, Leave, Disown
  <2>2. InvIdle'
    BY <1>22, <1>0, <1>e, <1>a, <1>b DEF ReadBroken, Leave, Disown
  <2>3. InvStale'
    BY <1>22, <1>0, <1>e, <1>a, <1>b DEF ReadBroken, Leave, Disown
  <2>4. InvHandles'
    BY <1>22, <1>0, <1>e, <1>a, <1>b DEF ReadBroken, Leave, Disown
  <2> QED  BY <1>0, <2>1, <2>2, <2>3, <2>4 DEF Inv
<1>23. CASE ReadRecord
  <2>1. /\ Len(wire') = Len(wire)
        /\ \A i \in 1..Len(wire) : wire'[i].sig = wire[i].sig
    BY <1>23, <1>0, RecordTypes DEF ReadRecord
  <2> QED  BY <1>23, <1>0, <1>e, <1>a, <2>1 DEF Inv, ReadRecord, TakeRecord
<1>24. CASE ReadUnexpected
  <2>1. /\ Len(wire') = Len(wire)
        /\ \A i \in 1..Len(wire) : wire'[i].sig = wire[i].sig
    BY <1>24, <1>0, RecordTypes DEF ReadUnexpected
  <2>2. PendingCountsOwed' /\ InvWriting' /\ InvReading'
    BY <1>24, <1>0, <1>e, <1>a, <1>b, <2>1
    DEF ReadUnexpected, TakeRecord, Leave, Disown
  <2>3. InvIdle'
    BY <1>24, <1>0, <1>e, <1>a, <1>b, <2>1
    DEF ReadUnexpected, TakeRecord, Leave, Disown
  <2>4. InvStale'
    BY <1>24, <1>0, <1>e, <1>a, <1>b, <2>1
    DEF ReadUnexpected, TakeRecord, Leave, Disown
  <2>5. InvHandles'
    BY <1>24, <1>0, <1>e, <1>a, <1>b, <2>1
    DEF ReadUnexpected, TakeRecord, Leave, Disown
  <2> QED  BY <1>0, <2>2, <2>3, <2>4, <2>5 DEF Inv
<1>25. CASE ReadHello
  <2>1. One(<<Req("LOGON")>>, "LOGON") /\ <<Req("LOGON")>> # << >>
    BY WritesTypes DEF Signatures
  <2>2. TookOne
    BY <1>25, <1>0, TakeFacts DEF ReadHello
  <2> QED  BY <1>25, <1>0, <1>e, <1>a, <2>1, <2>2 DEF Inv, ReadHello, Send, Disown
<1>26. CASE ReadLogon
  <2>1. TookOne
    BY <1>26, <1>0, TakeFacts DEF ReadLogon
  <2> QED  BY <1>26, <1>0, <1>e, <1>a, <2>1 DEF Inv, ReadLogon, Leave, Disown
<1>27. CASE ReadOwed
  <2>1. TookOne
    BY <1>27, <1>0, TakeFacts DEF ReadOwed
  <2> QED  BY <1>27, <1>0, <1>e, <1>a, <2>1 DEF Inv, ReadOwed, Disown
<1>28. CASE ReadReset
  <2>1. TookOne
    BY <1>28, <1>0, TakeFacts DEF ReadReset
  <2>2. op \in ConnOps /\ Start(op, batch) => Started(op)
    BY <1>0, StartFacts DEF TypeOK
  <2>3. PendingCountsOwed' /\ InvWriting' /\ InvReading'
    BY <1>28, <1>0, <1>e, <1>a, <2>1, <2>2 DEF ReadReset, Leave, Disown
  <2>4. InvIdle'
    BY <1>28, <1>0, <1>e, <1>a, <2>1, <2>2 DEF ReadReset, Leave, Disown
  <2>5. InvStale'
    BY <1>28, <1>0, <1>e, <1>a, <2>1, <2>2 DEF ReadReset, Leave, Disown
  <2>6. InvHandles'
    BY <1>28, <1>0, <1>e, <1>a, <2>1, <2>2 DEF ReadReset, Leave, Disown
  <2> QED  BY <1>0, <2>3, <2>4, <2>5, <2>6 DEF Inv
<1>29. CASE ReadResetRefused
  <2>1. TookOne
    BY <1>29, <1>0, TakeFacts DEF ReadResetRefused
  <2> QED  BY <1>29, <1>0, <1>e, <1>a, <2>1 DEF Inv, ReadResetRefused, Leave, Disown
<1>30. CASE ReadRun
  <2>1. TookOne
    BY <1>30, <1>0, TakeFacts DEF ReadRun
  <2>2. One(wire', "PULL")
    BY <1>30, <1>0, <2>1 DEF ReadRun, Take
  <2>3. PendingCountsOwed'
    BY <1>30, <1>0, <1>e, <1>a, <2>1, <2>2
    DEF ReadRun, Leave, Disown, StreamOps
  <2>4. InvWriting'
    BY <1>30, <1>0, <1>e, <1>a, <2>1, <2>2
    DEF ReadRun, Leave, Disown, StreamOps
  <2>5. InvReading'
    BY <1>30, <1>0, <1>e, <1>a, <2>1, <2>2
    DEF ReadRun, Leave, Disown, StreamOps
  <2>6. InvIdle'
    BY <1>30, <1>0, <1>e, <1>a, <2>1, <2>2
    DEF ReadRun, Leave, Disown, StreamOps
  <2>7. InvStale'
    BY <1>30, <1>0, <1>e, <1>a, <2>1, <2>2
    DEF ReadRun, Leave, Disown, StreamOps
  <2>8. InvHandles'
    BY <1>30, <1>0, <1>e, <1>a, <2>1, <2>2
    DEF ReadRun, Leave, Disown, StreamOps
  <2> QED  BY <1>0, <2>3, <2>4, <2>5, <2>6, <2>7, <2>8 DEF Inv
<1>31. CASE ReadEnd
  <2>1. TookOne
    BY <1>31, <1>0, TakeFacts DEF ReadEnd
  <2> QED  BY <1>31, <1>0, <1>e, <1>a, <2>1 DEF Inv, ReadEnd, Leave, Disown
<1>32. CASE ReadBegin
  <2>1. TookOne
    BY <1>32, <1>0, TakeFacts DEF ReadBegin
  <2> QED  BY <1>32, <1>0, <1>e, <1>a, <2>1 DEF Inv, ReadBegin, Disown
<1>33. CASE ReadBatch
  <2>1. One(<<Req("DISCARD")>>, "DISCARD") /\ <<Req("DISCARD")>> # << >>
    BY WritesTypes DEF Signatures
  <2>2. /\ One(<<[sig |-> "PULL", n |-> batch]>>, "PULL")
        /\ <<[sig |-> "PULL", n |-> batch]>> # << >>
    BY <1>0, WritesTypes DEF TypeOK
  <2>3. TookOne
    BY <1>33, <1>0, TakeFacts DEF ReadBatch
  <2>4. wire' = << >>
    BY <1>33, <1>0, <1>a, <2>3 DEF ReadBatch, Take
  <2>5. out' # << >> => /\ broken'
                         /\ \/ at' = "batch" /\ One(out', "PULL")
                            \/ at' = "discard" /\ One(out', "DISCARD")
    BY <1>33, <2>1, <2>2, <2>3 DEF ReadBatch, Send, Leave
  <2>6. PendingCountsOwed'
    BY <1>33, <1>0, <1>e, <1>a, <2>1, <2>2, <2>3, <2>4, <2>5
    DEF ReadBatch, Leave, Send, Disown
  <2>7. InvWriting'
    BY <1>a, <2>4, <2>5
  <2>8. InvReading'
    BY <1>33, <1>0, <1>e, <1>a, <2>1, <2>2, <2>3, <2>4, <2>5
    DEF ReadBatch, Leave, Send, Disown
  <2>9. InvIdle'
    BY <1>33, <1>0, <1>e, <1>a, <2>1, <2>2, <2>3, <2>4, <2>5
    DEF ReadBatch, Leave, Send, Disown
  <2>10. InvStale'
    BY <1>33, <1>0, <1>e, <1>a, <2>1, <2>2, <2>3, <2>4, <2>5
    DEF ReadBatch, Leave, Send, Disown
  <2>11. InvHandles'
    BY <1>33, <1>0, <1>e, <1>a, <2>1, <2>2, <2>3, <2>4, <2>5
    DEF ReadBatch, Leave, Send, Disown
  <2> QED  BY <1>0, <2>6, <2>7, <2>8, <2>9, <2>10, <2>11 DEF Inv
<1>34. CASE ReadDiscard
  <2>1. TookOne
    BY <1>34, <1>0, TakeFacts DEF ReadDiscard
  <2> QED  BY <1>34, <1>0, <1>e, <1>a, <2>1 DEF Inv, ReadDiscard, Leave, Disown
<1>35. CASE ReadFailure
  <2>1. One(<<Req("RESET")>>, "RESET") /\ <<Req("RESET")>> # << >>
    BY WritesTypes DEF Signatures
  <2>2. TookOne
    BY <1>35, <1>0, TakeFacts DEF ReadFailure
  <2>3. PendingCountsOwed' /\ InvWriting' /\ InvReading'
    BY <1>35, <1>0, <1>e, <1>a, <2>1, <2>2 DEF ReadFailure, Send, Disown
  <2>4. InvIdle'
    BY <1>35, <1>0, <1>e, <1>a, <2>1, <2>2 DEF ReadFailure, Send, Disown
  <2>5. InvStale'
    BY <1>35, <1>0, <1>e, <1>a, <2>1, <2>2 DEF ReadFailure, Send, Disown
  <2>6. InvHandles'
    BY <1>35, <1>0, <1>e, <1>a, <2>1, <2>2 DEF ReadFailure, Send, Disown
  <2> QED  BY <1>0, <2>3, <2>4, <2>5, <2>6 DEF Inv
<1>36. CASE ReadBeginFailure
  <2>1. TookOne
    BY <1>36, <1>0, TakeFacts DEF ReadBeginFailure
  <2> QED  BY <1>36, <1>0, <1>e, <1>a, <2>1 DEF Inv, ReadBeginFailure, Leave, Disown
<1>37. CASE ReadIgnored
  <2>1. TookOne
    BY <1>37, <1>0, TakeFacts DEF ReadIgnored
  <2>2. PendingCountsOwed' /\ InvWriting' /\ InvReading'
    BY <1>37, <1>0, <1>e, <1>a, <1>b, <2>1 DEF ReadIgnored, Leave, Disown
  <2>3. InvIdle'
    BY <1>37, <1>0, <1>e, <1>a, <1>b, <2>1 DEF ReadIgnored, Leave, Disown
  <2>4. InvStale'
    BY <1>37, <1>0, <1>e, <1>a, <1>b, <2>1 DEF ReadIgnored, Leave, Disown
  <2>5. InvHandles'
    BY <1>37, <1>0, <1>e, <1>a, <1>b, <2>1 DEF ReadIgnored, Leave, Disown
  <2> QED  BY <1>0, <2>2, <2>3, <2>4, <2>5 DEF Inv
<1>38. CASE Handshake
  <2>1. One(<<Req("HELLO")>>, "HELLO") /\ <<Req("HELLO")>> # << >>
    BY WritesTypes DEF Signatures
  <2> QED  BY <1>38, <1>0, <1>e, <1>a, <2>1 DEF Inv, Handshake, Send
<1>39. CASE ConnectFails
  BY <1>39, <1>0, <1>e, <1>a DEF Inv, ConnectFails, Gone
<1>40. CASE \E i \in 1..Len(wire) : Serve(i)
  <2>1. /\ Len(wire') = Len(wire)
        /\ \A i \in 1..Len(wire) : wire'[i].sig = wire[i].sig
        /\ UNCHANGED <<at, op, out, session, tx, strm, stream, stale>>
    BY <1>40, <1>0, ServeTypes
  <2> QED  BY <1>40, <1>0, <1>e, <1>a, <2>1 DEF Inv
<1>41. CASE Hangup
  BY <1>41, <1>0, <1>e, <1>a DEF Inv, Hangup
<1>42. CASE UNCHANGED vars
  BY <1>42, <1>0 DEF vars, server, Inv
<1> QED
  BY <1>1, <1>2, <1>3, <1>4, <1>5, <1>6, <1>7, <1>8, <1>9, <1>10, <1>11, <1>12,
     <1>13, <1>14, <1>15, <1>16, <1>17, <1>18, <1>19, <1>20, <1>21, <1>22,
     <1>23, <1>24, <1>25, <1>26, <1>27, <1>28, <1>29, <1>30, <1>31, <1>32,
     <1>33, <1>34, <1>35, <1>36, <1>37, <1>38, <1>39, <1>40, <1>41, <1>42
  DEF Next, Operation, WriteEnds, ReadEnds

\* The inductive invariant holds in every reachable state.
LEMMA Invariance == Spec => []Inv
<1>1. Init => Inv
  <2> SUFFICES ASSUME Init PROVE Inv
    OBVIOUS
  <2>1. TypeOK
    BY InitTypes
  <2>2. PendingCountsOwed /\ InvWriting /\ InvReading
    BY DEF Init, PendingCountsOwed, InvWriting, InvReading, Reading, Awaits,
           Draining, Collecting, Single
  <2>3. InvIdle /\ InvStale /\ InvHandles
    BY DEF Init, InvIdle, InvStale, InvHandles, OneReply, TxOps
  <2> QED  BY <2>1, <2>2, <2>3 DEF Inv
<1> QED  BY <1>1, InvStep, PTL DEF Spec

-----------------------------------------------------------------------------
(* What follows *)

\* read_message and write_messages keep `pending' equal to the number of
\* replies owed in every reachable state, cancellation and errors included.
THEOREM PendingIsExact == Spec => []PendingCountsOwed
<1>1. Inv => PendingCountsOwed
  BY DEF Inv
<1> QED  BY <1>1, Invariance, PTL

\* reset never waits for a reply nobody owes, never takes an earlier request's
\* reply for RESET's and never leaves one behind.
THEOREM ResetDrainsExactly == Spec => []DrainEndsAtReset
<1>1. Inv => DrainEndsAtReset
  BY DEF Inv, DrainEndsAtReset, InvReading, PendingCountsOwed
<1> QED  BY <1>1, Invariance, PTL

\* Every operation but rollback() reads the reply of its own request: one
\* query's replies are never handed to another.
THEOREM RepliesAreOwn == Spec => []ReplyIsOwn
<1>1. Inv => ReplyIsOwn
  <2> SUFFICES ASSUME Inv, Reading, at \in DOMAIN Awaited \ {"rollback"}
               PROVE  TakesOwnReply
    BY DEF ReplyIsOwn
  <2>1. at \in OneReply \union {"run"}
    BY DEF Awaited, OneReply
  <2>2. stale = 0
    BY <2>1 DEF Inv, InvStale
  <2>3. CASE at = "run"
    <3>1. RunPull(wire) /\ Awaited[at] = "RUN"
      BY <2>3 DEF Inv, InvReading, Awaited
    <3> QED  BY <2>2, <3>1 DEF TakesOwnReply, RunPull
  <2>4. CASE at \in OneReply
    <3>1. One(wire, Awaited[at])
      BY <2>4 DEF Inv, InvReading
    <3> QED  BY <2>2, <3>1 DEF TakesOwnReply, One
  <2> QED  BY <2>1, <2>3, <2>4
<1> QED  BY <1>1, Invariance, PTL

\* A write cut off or a transport error is final: nothing is written to the
\* connection afterwards, and `broken' is only cleared by giving it up.
THEOREM BrokenStays == Spec => BrokenIsFinal
<1> DEFINE A == broken /\ out = << >> => out' = << >> /\ (broken' \/ at' = "closed")
<1>1. Inv /\ [Next]_vars => [A]_vars
  <2> SUFFICES ASSUME Inv, Next, broken, out = << >>
               PROVE  out' = << >> /\ (broken' \/ at' = "closed")
    BY DEF vars, session
  <2>1. ~Reading /\ at # "handshake"
    BY DEF Inv, InvReading, InvHandles
  <2>2. at \notin Awaits
    BY <2>1 DEF Reading
  <2>3. CASE Operation
    BY <2>2, <2>3
    DEF Operation, Connect, Close, Gone, Reset, Call, TxCall, guard_open, TxRefuse,
        Commit, Rollback, TxDrop, NextBuffered, NextFetch, FinishDone, Finish,
        StreamDrop, session, Inv, InvHandles
  <2>4. CASE Cancel \/ WriteEnds \/ Handshake \/ ConnectFails
    BY <2>1, <2>2, <2>4
    DEF Cancel, WriteEnds, Write, EncodeFails, Cut, Handshake, ConnectFails, Gone
  <2>5. CASE ReadEnds
    BY <2>1, <2>2, <2>5
    DEF ReadEnds, ReadTimeout, ReadBroken, ReadRecord, ReadUnexpected, TakeRecord,
        ReadHello, ReadLogon, ReadOwed, ReadReset, ReadResetRefused, ReadRun,
        ReadEnd, ReadBegin, ReadBatch, ReadDiscard, ReadFailure,
        ReadBeginFailure, ReadIgnored, Take
  <2>6. CASE \E i \in 1..Len(wire) : Serve(i)
    BY <2>6, ServeTypes DEF Inv, session
  <2>7. CASE Hangup
    BY <2>7 DEF Hangup, session
  <2> QED  BY <2>3, <2>4, <2>5, <2>6, <2>7 DEF Next
<1> QED  BY <1>1, Invariance, PTL DEF Spec, BrokenIsFinal
=============================================================================
