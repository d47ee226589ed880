------------------------------ MODULE ManagedTx -----------------------------
(***************************************************************************)
(* Managed transactions (src/src/routed.rs: execute, try_once): several    *)
(* tasks run BEGIN, their work and COMMIT over connections of the cluster  *)
(* pool, try again on transient failures, and thread bookmarks through one *)
(* shared list, so that a transaction sees those that ended before it.     *)
(*                                                                         *)
(* RoutedPool.tla is about acquire, Connection.tla about the messages;     *)
(* here each is its outcome.  The server is external: its database has one *)
(* log, a bookmark is a position in it, a transaction that sends bookmarks *)
(* sees at least the highest of them, and a COMMIT may take effect though  *)
(* its answer is lost.                                                     *)
(***************************************************************************)
EXTENDS Integers, Sequences, FiniteSetsExt, SequencesExt

CONSTANTS Task,
          Modes,          \* the access modes the tasks use: "Read", "Write"
          RETRY_ATTEMPTS,
          Cap,            \* bookmarks kept (16 in the code)
          MaxLog          \* bound on the commits of the server

ASSUME ManagedAssumption ==
  /\ Modes \subseteq {"Read", "Write"} /\ Modes # {}
  /\ RETRY_ATTEMPTS \in Nat /\ Cap \in Nat \ {0} /\ MaxLog \in Nat

VARIABLES
  pc,         \* what each task is doing
  mode,       \* the access mode of its execute
  attempt,
  sent,       \* the highest bookmark its BEGIN sends, 0 for none
  mark,       \* the bookmark COMMIT answered with
  bookmarks,  \* Inner.bookmarks
  log,        \* the server's commits, so far
  acked,      \* history: the highest bookmark an execute returned Ok with
  past,       \* history: acked when the task called execute
  committed,  \* history: commits the server made for this execute
  lost,       \* history: those whose answer did not arrive
  result      \* "none" while it runs, then "ok", "err" or "dropped"

shared  == <<bookmarks, log, acked>>
history == <<past, committed, lost>>
vars    == <<pc, mode, attempt, sent, mark, shared, history, result>>

Pcs    == {"out", "acquiring", "reading", "beginning", "working", "rollback",
           "committing", "merging", "refreshing", "sleeping"}

\* is_transient and cluster_moved sort the errors into three.
Errors == {"transient", "moved", "permanent"}

Highest(list) == Max(Range(list) \union {0})

Init ==
  /\ pc = [t \in Task |-> "out"]
  /\ mode = [t \in Task |-> CHOOSE m \in Modes : TRUE]
  /\ attempt = [t \in Task |-> 1]
  /\ sent = [t \in Task |-> 0]
  /\ mark = [t \in Task |-> 0]
  /\ bookmarks = << >>
  /\ log = 0
  /\ acked = 0
  /\ past = [t \in Task |-> 0]
  /\ committed = [t \in Task |-> 0]
  /\ lost = [t \in Task |-> 0]
  /\ result = [t \in Task |-> "none"]

Goto(t, p) == pc' = [pc EXCEPT ![t] = p]

\* execute returns, or is dropped: attempt and the locals of try_once go.
Return(t, r) ==
  /\ Goto(t, "out")
  /\ result' = [result EXCEPT ![t] = r]
  /\ attempt' = [attempt EXCEPT ![t] = 1]
  /\ sent' = [sent EXCEPT ![t] = 0]
  /\ mark' = [mark EXCEPT ![t] = 0]
  /\ UNCHANGED mode

-----------------------------------------------------------------------------
(* execute *)

Execute(t, m) ==
  /\ pc[t] = "out"
  /\ Goto(t, "acquiring")
  /\ mode' = [mode EXCEPT ![t] = m]
  /\ result' = [result EXCEPT ![t] = "none"]
  /\ past' = [past EXCEPT ![t] = acked]
  /\ committed' = [committed EXCEPT ![t] = 0]
  /\ lost' = [lost EXCEPT ![t] = 0]
  /\ UNCHANGED <<attempt, sent, mark, shared>>

\* The backoff gives a delay while attempts are left.
Backoff(t) ==
  \/ /\ attempt[t] < RETRY_ATTEMPTS
     /\ Goto(t, "sleeping")
     /\ UNCHANGED <<mode, attempt, sent, mark, result>>
  \/ attempt[t] >= RETRY_ATTEMPTS /\ Return(t, "err")

\* try_once fails with e: returned, or a refresh if the cluster moved, or slept on.
Failed(t, e) ==
  \/ e = "permanent" /\ Return(t, "err")
  \/ e = "moved" /\ Goto(t, "refreshing") /\ UNCHANGED <<mode, attempt, sent, mark, result>>
  \/ e = "transient" /\ Backoff(t)

\* The refresh ends; that it failed is ignored.
Refreshed(t) ==
  pc[t] = "refreshing" /\ Backoff(t) /\ UNCHANGED <<shared, history>>

\* Mutant: the attempts are not counted.
SleptUncounted(t) ==
  /\ pc[t] = "sleeping"
  /\ Goto(t, "acquiring")
  /\ sent' = [sent EXCEPT ![t] = 0]
  /\ UNCHANGED <<mode, attempt, mark, shared, history, result>>

Slept(t) ==
  /\ pc[t] = "sleeping"
  /\ Goto(t, "acquiring")
  /\ attempt' = [attempt EXCEPT ![t] = @ + 1]
  /\ sent' = [sent EXCEPT ![t] = 0]
  /\ UNCHANGED <<mode, mark, shared, history, result>>

-----------------------------------------------------------------------------
(* try_once *)

Acquired(t) ==
  /\ pc[t] = "acquiring"
  /\ Goto(t, "reading")
  /\ UNCHANGED <<mode, attempt, sent, mark, shared, history, result>>

AcquireFails(t, e) ==
  pc[t] = "acquiring" /\ Failed(t, e) /\ UNCHANGED <<shared, history>>

\* The list is cloned under its lock; BEGIN sends it.
ReadBookmarks(t) ==
  /\ pc[t] = "reading"
  /\ sent' = [sent EXCEPT ![t] = Highest(bookmarks)]
  /\ Goto(t, "beginning")
  /\ UNCHANGED <<mode, attempt, mark, shared, history, result>>

Begun(t) ==
  /\ pc[t] = "beginning"
  /\ Goto(t, "working")
  /\ UNCHANGED <<mode, attempt, sent, mark, shared, history, result>>

BeginFails(t, e) ==
  pc[t] = "beginning" /\ Failed(t, e) /\ UNCHANGED <<shared, history>>

Worked(t) ==
  /\ pc[t] = "working"
  /\ Goto(t, "committing")
  /\ UNCHANGED <<mode, attempt, sent, mark, shared, history, result>>

\* The work fails: ROLLBACK is sent before its error is looked at.
WorkFails(t) ==
  /\ pc[t] = "working"
  /\ Goto(t, "rollback")
  /\ UNCHANGED <<mode, attempt, sent, mark, shared, history, result>>

\* How the rollback ends is ignored; the error is the work's.
RolledBack(t, e) ==
  pc[t] = "rollback" /\ Failed(t, e) /\ UNCHANGED <<shared, history>>

\* The server commits: a write is a new position of the log, bookmark b.
Takes(t, b) ==
  IF mode[t] = "Write"
    THEN /\ log < MaxLog /\ b = log + 1 /\ log' = b
         /\ committed' = [committed EXCEPT ![t] = @ + 1]
    ELSE b \in sent[t] .. log /\ UNCHANGED <<log, committed>>

\* SUCCESS with a bookmark.
Committed(t, b) ==
  /\ pc[t] = "committing"
  /\ Takes(t, b)
  /\ mark' = [mark EXCEPT ![t] = b]
  /\ Goto(t, "merging")
  /\ UNCHANGED <<mode, attempt, sent, bookmarks, acked, past, lost, result>>

\* Mutant: no bookmark is taken for a failure, and the work is run again.
CommittedNoMarkRetried(t, b) ==
  /\ pc[t] = "committing"
  /\ Takes(t, b)
  /\ Failed(t, "transient")
  /\ UNCHANGED <<bookmarks, acked, past, lost>>

\* SUCCESS without one (a server that has none).
CommittedNoMark(t, b) ==
  /\ pc[t] = "committing"
  /\ Takes(t, b)
  /\ Return(t, "ok")
  /\ UNCHANGED <<bookmarks, acked, past, lost>>

\* The server commits and its answer is lost, late or unreadable.
CommitLost(t, b, e) ==
  /\ pc[t] = "committing"
  /\ mode[t] = "Write"
  /\ e # "moved"
  /\ Takes(t, b)
  /\ lost' = [lost EXCEPT ![t] = @ + 1]
  /\ Failed(t, e)
  /\ UNCHANGED <<bookmarks, acked, past>>

\* The server does not commit.
CommitFails(t, e) ==
  pc[t] = "committing" /\ Failed(t, e) /\ UNCHANGED <<shared, history>>

\* Mutant: the list is replaced by the bookmark.
PushedReplace(list, b) == IF b = 0 THEN list ELSE <<b>>

\* Mutant: drained before the push, so that one more than Cap is kept.
PushedLate(list, b) ==
  LET excess == Max({0, Len(list) - Cap})
  IN  IF b \in Range(list) THEN list ELSE Append(SubSeq(list, excess + 1, Len(list)), b)

\* The list with b pushed, unless it is there, and the oldest drained.
Pushed(list, b) ==
  LET more   == Append(list, b)
      excess == Max({0, Len(more) - Cap})
  IN  IF b \in Range(list) THEN list ELSE SubSeq(more, excess + 1, Len(more))

\* Under the lock of the list; execute returns Ok.
Merge(t) ==
  /\ pc[t] = "merging"
  /\ bookmarks' = Pushed(bookmarks, mark[t])
  /\ acked' = Max({acked, mark[t]})
  /\ Return(t, "ok")
  /\ UNCHANGED <<log, history>>

\* The caller drops execute's future at an await; a COMMIT in flight may take
\* effect all the same.
Dropped(t) ==
  /\ pc[t] # "out"
  /\ Return(t, "dropped")
  /\ \/ UNCHANGED <<shared, history>>
     \/ /\ pc[t] = "committing" /\ mode[t] = "Write"
        /\ \E b \in 0 .. MaxLog : Takes(t, b)
        /\ lost' = [lost EXCEPT ![t] = @ + 1]
        /\ UNCHANGED <<bookmarks, acked, past>>

-----------------------------------------------------------------------------
Fails(t) ==
  \E e \in Errors : \/ AcquireFails(t, e) \/ BeginFails(t, e) \/ RolledBack(t, e)
                    \/ CommitFails(t, e)
                    \/ \E b \in 0 .. MaxLog : CommitLost(t, b, e)

Progress(t) ==
  \/ Refreshed(t) \/ Slept(t) \/ Acquired(t) \/ ReadBookmarks(t) \/ Begun(t)
  \/ Worked(t) \/ WorkFails(t) \/ Merge(t) \/ Fails(t)
  \/ \E b \in 0 .. MaxLog : Committed(t, b) \/ CommittedNoMark(t, b)

Next == \E t \in Task : (\E m \in Modes : Execute(t, m)) \/ Progress(t) \/ Dropped(t)

Spec == Init /\ [][Next]_vars

\* The runtime polls a task that can go on, the awaits end (the connections
\* have timeouts), and the user's work ends.
FairSpec == Spec /\ \A t \in Task : WF_vars(Progress(t))

-----------------------------------------------------------------------------
(* Properties *)

\* Every variable has a value of its type; the list keeps Cap bookmarks at
\* most, no two the same.
TypeOK ==
  /\ pc \in [Task -> Pcs]
  /\ mode \in [Task -> {"Read", "Write"}]
  /\ attempt \in [Task -> Nat \ {0}]
  /\ sent \in [Task -> 0 .. MaxLog] /\ mark \in [Task -> 0 .. MaxLog]
  /\ bookmarks \in Seq(0 .. MaxLog)
  /\ Len(bookmarks) <= Cap /\ IsInjective(bookmarks)
  /\ log \in 0 .. MaxLog /\ acked \in 0 .. MaxLog
  /\ past \in [Task -> 0 .. MaxLog]
  /\ committed \in [Task -> Nat] /\ lost \in [Task -> Nat]
  /\ result \in [Task -> {"none", "ok", "err", "dropped"}]

\* The executes that hold a connection: from acquire to the end of try_once.
Holding == {t \in Task : pc[t] \in {"reading", "beginning", "working", "rollback",
                                    "committing", "merging"}}

\* Causal consistency: a managed transaction's BEGIN sends a bookmark as high
\* as every one an execute had returned Ok with before this one was called,
\* whatever order concurrent commits are merged in, retries included.  "Merge,
\* don't replace: concurrent commits must not regress each other" (try_once).
\* It holds while no more than Cap executes hold a connection; in a larger
\* burst those merged last may drain a higher bookmark than their own.
CausalRead == \A t \in Task : pc[t] \in {"beginning", "working"} => sent[t] >= past[t]

\* The work of an execute that returned Ok took effect once, and of one that
\* returned an error not at all, but for the commits whose answer was lost:
\* only those are repeated or unknown to the caller.
OnceUnlessLost ==
  \A t \in Task : mode[t] = "Write" =>
    /\ result[t] = "ok" => committed[t] = 1 + lost[t]
    /\ result[t] = "err" => committed[t] = lost[t]

\* Every execute ends: RETRY_ATTEMPTS bounds the attempts, cluster moves
\* included.
ExecuteEnds == \A t \in Task : pc[t] # "out" ~> pc[t] = "out"
=============================================================================
