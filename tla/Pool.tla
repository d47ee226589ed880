-------------------------------- MODULE Pool --------------------------------
(***************************************************************************)
(* The connection pool (src/src/pool.rs): tasks check connections out of a *)
(* Pool and drop them back while others wait, give up, and close it.       *)
(*                                                                         *)
(* Tasks run on several threads.  A step is what a task does under one     *)
(* lock or between two reads of shared state: PooledConnection::drop looks *)
(* at the semaphore, then pushes under the mutex, then frees its permit.   *)
(*                                                                         *)
(* A BoltConnection is what its predicates tell: "ready", "dirty" (to be   *)
(* RESET), "owed" (replies outstanding) or "broken"; Connection.tla is the *)
(* module about it.  The tokio semaphore is external: a FIFO of waiters,   *)
(* to whose head a freed permit goes.                                      *)
(***************************************************************************)
EXTENDS Integers, Sequences, FiniteSets, SequencesExt

CONSTANTS Task,
          MaxSize,          \* PoolConfig.max_size
          ConnectAttempts   \* PoolConfig.connect_attempts

ASSUME TaskAssumption == IsFiniteSet(Task)

ASSUME ConfigAssumption == MaxSize \in Nat /\ ConnectAttempts \in Nat

VARIABLES
  pc,        \* what each task is doing
  conn,      \* the connection it has, or "none"
  attempt,   \* mint's counter
  permits,   \* permits free
  queue,     \* tasks waiting for one
  closed,    \* the semaphore is closed
  idle,      \* PoolInner.idle
  closing,   \* close(): "no", "take", "goodbye" or "done"
  leaving    \* connections close() has taken and not yet closed

vars == <<pc, conn, attempt, permits, queue, closed, idle, closing, leaving>>

\* with_config: Semaphore::new(max_size.max(1)).
Slots == IF MaxSize > 1 THEN MaxSize ELSE 1

\* mint calls the factory at least once, then while attempts are left.
Attempts == IF ConnectAttempts > 1 THEN ConnectAttempts ELSE 1

ConnStates == {"ready", "dirty", "owed", "broken"}

is_reusable(c) == c \in {"ready", "dirty"}

(***************************************************************************)
(* "out": not using the pool; "waiting": queued; "granted": given a permit *)
(* and not yet polled; "popping": in checkout's loop; "probing": awaiting  *)
(* reset; "minting": awaiting the factory; "backoff": sleeping; "using":   *)
(* holds a PooledConnection; "pushing": in its drop, past the look at the  *)
(* semaphore; "freeing": its connection is gone and its permit is not.     *)
(***************************************************************************)
Holding == {"granted", "popping", "probing", "minting", "backoff", "using",
            "pushing", "freeing"}
Pcs     == Holding \union {"out", "waiting"}

Init ==
  /\ pc = [t \in Task |-> "out"]
  /\ conn = [t \in Task |-> "none"]
  /\ attempt = [t \in Task |-> 0]
  /\ permits = Slots
  /\ queue = << >>
  /\ closed = FALSE
  /\ idle = << >>
  /\ closing = "no"
  /\ leaving = 0

Goto(t, p) == pc' = [pc EXCEPT ![t] = p]

-----------------------------------------------------------------------------
(* The semaphore (external) *)

\* acquire_owned: a permit, a place in the queue, or the error of a closed one.
Acquire(t) ==
  /\ pc[t] = "out"
  /\ ~closed
  /\ IF permits > 0
       THEN permits' = permits - 1 /\ Goto(t, "popping") /\ UNCHANGED queue
       ELSE queue' = Append(queue, t) /\ Goto(t, "waiting") /\ UNCHANGED permits
  /\ UNCHANGED <<conn, attempt, closed, idle, closing, leaving>>

\* The task is polled with the permit it was given.
Granted(t) ==
  /\ pc[t] = "granted"
  /\ ~closed
  /\ Goto(t, "popping")
  /\ UNCHANGED <<conn, attempt, permits, queue, closed, idle, closing, leaving>>

\* A permit held by t comes free; the head of the queue, if any, has it now,
\* unless close has emptied the queue: its tasks only wait to be polled.
Release(t) ==
  IF queue = << >> \/ closed
    THEN permits' = permits + 1 /\ Goto(t, "out") /\ UNCHANGED queue
    ELSE /\ pc' = [pc EXCEPT ![t] = "out", ![Head(queue)] = "granted"]
         /\ queue' = Tail(queue)
         /\ UNCHANGED permits

\* The future that waits is dropped, or is polled after the semaphore closed:
\* it takes itself out of the queue.
LeaveQueue(t) ==
  /\ pc[t] = "waiting"
  /\ \E i \in 1..Len(queue) : queue[i] = t /\ queue' = RemoveAt(queue, i)
  /\ Goto(t, "out")
  /\ UNCHANGED permits

\* Mutant: close wakes nobody, and a waiter needs a permit to find out.
ClosedUnnoticed(t) ==
  /\ closed
  /\ pc[t] = "granted" /\ Release(t)
  /\ UNCHANGED <<conn, attempt, closed, idle, closing, leaving>>

ClosedError(t) ==
  /\ closed
  /\ \/ LeaveQueue(t)
     \/ pc[t] = "granted" /\ Release(t)
  /\ UNCHANGED <<conn, attempt, closed, idle, closing, leaving>>

-----------------------------------------------------------------------------
(* Pool::get *)

\* checkout's loop: pop the last idle connection.  It is dropped if it has
\* expired (idle or lifetime) or is not reusable, and probed otherwise.
Pop(t) ==
  /\ pc[t] = "popping"
  /\ idle # << >>
  /\ idle' = SubSeq(idle, 1, Len(idle) - 1)
  /\ \/ UNCHANGED <<pc, conn>>
     \/ /\ is_reusable(idle[Len(idle)])
        /\ Goto(t, "probing")
        /\ conn' = [conn EXCEPT ![t] = idle[Len(idle)]]
  /\ UNCHANGED <<attempt, permits, queue, closed, closing, leaving>>

\* The RESET probe answers (wrap), or fails and the connection is dropped.
Probe(t) ==
  /\ pc[t] = "probing"
  /\ \/ Goto(t, "using") /\ conn' = [conn EXCEPT ![t] = "ready"]
     \/ Goto(t, "popping") /\ conn' = [conn EXCEPT ![t] = "none"]
  /\ UNCHANGED <<attempt, permits, queue, closed, idle, closing, leaving>>

\* Mutant: mint starts whatever is idle.
MintAnyway(t) ==
  /\ pc[t] = "popping"
  /\ Goto(t, "minting")
  /\ attempt' = [attempt EXCEPT ![t] = 1]
  /\ UNCHANGED <<conn, permits, queue, closed, idle, closing, leaving>>

\* Nothing idle: mint.
StartMint(t) ==
  /\ pc[t] = "popping"
  /\ idle = << >>
  /\ Goto(t, "minting")
  /\ attempt' = [attempt EXCEPT ![t] = 1]
  /\ UNCHANGED <<conn, permits, queue, closed, idle, closing, leaving>>

\* The factory's future ends: a connection, an error that is not transient or
\* comes on the last attempt (checkout returns it, its permit is dropped), or
\* one to retry after a delay.
Minted(t) ==
  /\ pc[t] = "minting"
  /\ Goto(t, "using")
  /\ conn' = [conn EXCEPT ![t] = "ready"]
  /\ UNCHANGED <<attempt, permits, queue, closed, idle, closing, leaving>>

MintFails(t) ==
  /\ pc[t] = "minting"
  /\ Goto(t, "freeing")
  /\ UNCHANGED <<conn, attempt, permits, queue, closed, idle, closing, leaving>>

\* Mutant: the attempts are not counted.
RetryForever(t) ==
  /\ pc[t] = "minting"
  /\ Goto(t, "backoff")
  /\ UNCHANGED <<conn, attempt, permits, queue, closed, idle, closing, leaving>>

\* Mutant: one attempt too many.
RetryOnceMore(t) ==
  /\ pc[t] = "minting"
  /\ attempt[t] <= ConnectAttempts
  /\ attempt' = [attempt EXCEPT ![t] = @ + 1]
  /\ Goto(t, "backoff")
  /\ UNCHANGED <<conn, permits, queue, closed, idle, closing, leaving>>

MintRetries(t) ==
  /\ pc[t] = "minting"
  /\ attempt[t] < ConnectAttempts
  /\ attempt' = [attempt EXCEPT ![t] = @ + 1]
  /\ Goto(t, "backoff")
  /\ UNCHANGED <<conn, permits, queue, closed, idle, closing, leaving>>

BackoffOver(t) ==
  /\ pc[t] = "backoff"
  /\ Goto(t, "minting")
  /\ UNCHANGED <<conn, attempt, permits, queue, closed, idle, closing, leaving>>

\* get's future is dropped, or its acquire timeout passes, at one of its
\* awaits: a connection being probed or made goes with it.
GiveUp(t) ==
  /\ \/ LeaveQueue(t) /\ UNCHANGED conn
     \/ pc[t] = "granted" /\ Release(t) /\ UNCHANGED conn
     \/ /\ pc[t] \in {"probing", "minting", "backoff"}
        /\ Goto(t, "freeing")
        /\ conn' = [conn EXCEPT ![t] = "none"]
        /\ UNCHANGED <<permits, queue>>
  /\ UNCHANGED <<attempt, closed, idle, closing, leaving>>

-----------------------------------------------------------------------------
(* PooledConnection *)

\* What the caller's operations leave behind; a broken connection stays so.
Use(t) ==
  /\ pc[t] = "using"
  /\ conn[t] # "broken"
  /\ \E c \in ConnStates \ {conn[t]} : conn' = [conn EXCEPT ![t] = c]
  /\ UNCHANGED <<pc, attempt, permits, queue, closed, idle, closing, leaving>>

Detach(t) ==
  /\ pc[t] = "using"
  /\ Goto(t, "freeing")
  /\ conn' = [conn EXCEPT ![t] = "none"]
  /\ UNCHANGED <<attempt, permits, queue, closed, idle, closing, leaving>>

\* Mutant: a connection is kept unless its framing is lost.
DropKeepsOwed(t) ==
  /\ pc[t] = "using"
  /\ IF conn[t] # "broken" /\ ~closed
       THEN Goto(t, "pushing") /\ UNCHANGED conn
       ELSE Goto(t, "freeing") /\ conn' = [conn EXCEPT ![t] = "none"]
  /\ UNCHANGED <<attempt, permits, queue, closed, idle, closing, leaving>>

\* Mutant: a discarded connection leaks its permit.
DropLeaks(t) ==
  /\ pc[t] = "using"
  /\ IF is_reusable(conn[t]) /\ ~closed
       THEN Goto(t, "pushing") /\ UNCHANGED conn
       ELSE Goto(t, "out") /\ conn' = [conn EXCEPT ![t] = "none"]
  /\ UNCHANGED <<attempt, permits, queue, closed, idle, closing, leaving>>

\* Drop: a connection left mid-exchange, or returned to a closed pool, goes.
Drop(t) ==
  /\ pc[t] = "using"
  /\ IF is_reusable(conn[t]) /\ ~closed
       THEN Goto(t, "pushing") /\ UNCHANGED conn
       ELSE Goto(t, "freeing") /\ conn' = [conn EXCEPT ![t] = "none"]
  /\ UNCHANGED <<attempt, permits, queue, closed, idle, closing, leaving>>

Push(t) ==
  /\ pc[t] = "pushing"
  /\ idle' = Append(idle, conn[t])
  /\ conn' = [conn EXCEPT ![t] = "none"]
  /\ Goto(t, "freeing")
  /\ UNCHANGED <<attempt, permits, queue, closed, closing, leaving>>

\* The permit is dropped after the connection, or with a failed checkout.
Free(t) ==
  /\ pc[t] = "freeing"
  /\ Release(t)
  /\ UNCHANGED <<conn, attempt, closed, idle, closing, leaving>>

-----------------------------------------------------------------------------
(* Pool::close: close the semaphore, take what is idle, say GOODBYE to each.*)

Close ==
  /\ closing = "no"
  /\ closing' = "take"
  /\ closed' = TRUE
  /\ UNCHANGED <<pc, conn, attempt, permits, queue, idle, leaving>>

TakeIdle ==
  /\ closing = "take"
  /\ closing' = "goodbye"
  /\ leaving' = Len(idle)
  /\ idle' = << >>
  /\ UNCHANGED <<pc, conn, attempt, permits, queue, closed>>

Goodbye ==
  /\ closing = "goodbye"
  /\ IF leaving > 0
       THEN leaving' = leaving - 1 /\ UNCHANGED closing
       ELSE closing' = "done" /\ UNCHANGED leaving
  /\ UNCHANGED <<pc, conn, attempt, permits, queue, closed, idle>>

-----------------------------------------------------------------------------
Checkout(t) ==
  \/ Granted(t) \/ ClosedError(t) \/ Pop(t) \/ Probe(t) \/ StartMint(t)
  \/ Minted(t) \/ MintFails(t) \/ MintRetries(t) \/ BackoffOver(t)

Return(t) == Detach(t) \/ Drop(t) \/ Push(t) \/ Free(t)

Next ==
  \/ \E t \in Task : Acquire(t) \/ Checkout(t) \/ GiveUp(t) \/ Use(t) \/ Return(t)
  \/ Close \/ TakeIdle \/ Goodbye

Spec == Init /\ [][Next]_vars

(***************************************************************************)
(* Runnable tasks run: a checkout's awaits end (the probe by the read      *)
(* timeout, the factory by the connect timeout, the delay by itself), and a*)
(* drop that has begun goes on.  Nobody has to give up, to use its         *)
(* connection or to close the pool.                                        *)
(***************************************************************************)
TaskFairness == \A t \in Task : WF_vars(Checkout(t)) /\ WF_vars(Push(t) \/ Free(t))

\* Callers also give their connections back.
ReturnFairness == \A t \in Task : WF_vars(Return(t))

FairSpec == Spec /\ TaskFairness

-----------------------------------------------------------------------------
(* Properties *)

\* Every variable stays in the type its field or its role in the code gives it.
TypeOK ==
  /\ pc \in [Task -> Pcs]
  /\ conn \in [Task -> ConnStates \union {"none"}]
  /\ attempt \in [Task -> 0..Attempts]
  /\ permits \in 0..Slots
  /\ queue \in Seq(Task)
  /\ closed \in BOOLEAN
  /\ idle \in Seq(ConnStates)
  /\ closing \in {"no", "take", "goodbye", "done"}
  /\ leaving \in Nat

\* No permit is lost or made: cancelled, timed out, failed and closed checkouts
\* and every kind of drop give back exactly what they hold.
PermitsConserved ==
  permits + Cardinality({t \in Task : pc[t] \in Holding}) = Slots

\* The pool never has more than max_size connections, idle ones included: those
\* in the list and those a task has, is probing or is making.
SizeBound ==
  Len(idle) + Cardinality({t \in Task : pc[t] \in {"probing", "minting", "backoff",
                                                   "using", "pushing"}}) <= Slots

\* Only connections that owe no reply and whose framing is intact wait in the
\* pool, so that the probe's RESET answers at once.
IdleIsReusable == \A i \in 1..Len(idle) : is_reusable(idle[i])

\* close() leaves no connection in the pool: idle ones get a GOODBYE and those
\* "still checked out are closed when they come back" (doc of Pool::close).
ClosedIsEmpty == closing = "done" => idle = << >>

\* A checkout that waits when the pool is closed fails, even if no connection
\* ever comes back.
CloseFailsWaiters ==
  \A t \in Task : closed /\ pc[t] = "waiting" ~> pc[t] # "waiting"

\* A checkout that waits is served, if callers give their connections back.
WaitersServed ==
  ReturnFairness => \A t \in Task : pc[t] = "waiting" ~> pc[t] # "waiting"

\* A checkout that got its permit ends, with a connection or an error, once
\* others stop returning connections: its loop has no bound of its own while
\* they keep filling the idle list with ones it finds expired or dead.
CheckoutEnds ==
  \A t \in Task :
    <>[][\A u \in Task \ {t} : ~Push(u)]_vars =>
      (pc[t] \in {"popping", "probing", "minting", "backoff"}
         ~> pc[t] \in {"out", "freeing", "using"})
=============================================================================
