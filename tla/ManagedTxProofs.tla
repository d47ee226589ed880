-------------------------- MODULE ManagedTxProofs ---------------------------
(***************************************************************************)
(* Proofs about managed transactions (ManagedTx), for every set of tasks,  *)
(* every number of attempts and every capacity of the list of bookmarks.   *)
(***************************************************************************)
EXTENDS ManagedTx, FiniteSetTheorems, SequenceTheorems, WellFoundedInduction, TLAPS

-----------------------------------------------------------------------------
(* The inductive invariants *)

\* What the commits of t's execute amount to: they differ from the lost ones
\* by one only from COMMIT's answer on, and no result is left from before.
Accounted(t) ==
  /\ pc[t] # "out" => result[t] = "none"
  /\ mode[t] = "Write" =>
       /\ pc[t] = "merging" \/ result[t] = "ok" => committed[t] = 1 + lost[t]
       /\ pc[t] \notin {"out", "merging"} \/ result[t] = "err" => committed[t] = lost[t]

\* The inductive invariant.
Inv == TypeOK /\ \A t \in Task : Accounted(t)

\* t may still merge a bookmark below the highest that was acknowledged.
Late(t) ==
  \/ pc[t] = "merging" /\ mark[t] < acked
  \/ pc[t] \in {"beginning", "working", "committing"} /\ mode[t] = "Read" /\ sent[t] < acked

Behind == {t \in Task : Late(t)}

\* The highest acknowledged bookmark is in the list, with room behind it for
\* what every task that is late may push.
Kept ==
  acked # 0 => \E p \in 1 .. Len(bookmarks) :
                 /\ bookmarks[p] = acked
                 /\ (Len(bookmarks) - p) + Cardinality(Behind) < Cap

\* How the bookmarks of t stand to those acknowledged and those given out.
Ordered(t) ==
  /\ past[t] <= acked
  /\ pc[t] \in {"beginning", "working"} => sent[t] >= past[t]
  /\ pc[t] = "merging" => mark[t] <= log

\* What makes CausalRead inductive, on top of Inv.
Causal ==
  /\ acked <= log
  /\ \A k \in 1 .. Len(bookmarks) : bookmarks[k] <= acked
  /\ \A t \in Task : Ordered(t)
  /\ Kept

-----------------------------------------------------------------------------
(* Numbers and lists *)

\* The larger of two numbers.
LEMMA MaxOfTwo ==
  ASSUME NEW a \in Int, NEW b \in Int
  PROVE  Max({a, b}) = IF a >= b THEN a ELSE b
<1> DEFINE m == IF a >= b THEN a ELSE b
<1>1. m \in {a, b} /\ \A y \in {a, b} : m >= y
  OBVIOUS
<1>2. \A x \in {a, b} : (\A y \in {a, b} : x >= y) => x = m
  OBVIOUS
<1> HIDE DEF m
<1>3. Max({a, b}) = m
  BY <1>1, <1>2 DEF Max
<1> QED  BY <1>3 DEF m

\* Highest is the highest bookmark of the list, or 0.
LEMMA HighestIs ==
  ASSUME NEW list \in Seq(0 .. MaxLog)
  PROVE  /\ Highest(list) \in 0 .. MaxLog
         /\ \A k \in 1 .. Len(list) : list[k] <= Highest(list)
<1>1. MaxLog \in Nat
  BY ManagedAssumption
<1> DEFINE S == Range(list) \union {0}
           T == {d \in Nat : \E x \in S : d = MaxLog - x}
<1>2. S \subseteq 0 .. MaxLog
  <2>1. 0 \in 0 .. MaxLog /\ \A k \in DOMAIN list : list[k] \in 0 .. MaxLog
    BY <1>1
  <2> QED  BY <2>1, Zenon DEF Range
<1>3. T \subseteq Nat /\ T # {}
  <2>1. 0 \in S /\ MaxLog - 0 \in Nat
    BY <1>1
  <2> QED  BY <2>1
<1>4. PICK d \in T : \A y \in T : ~(<<y, d>> \in OpToRel(<, Nat))
  BY <1>3, WFMin, NatLessThanWellFounded
<1>5. \A y \in T : d <= y
  <2> HIDE DEF T
  <2>1. \A y \in T : ~(y < d)
    BY <1>3, <1>4 DEF OpToRel
  <2> QED  BY <1>3, <2>1
<1>6. PICK m \in S : d = MaxLog - m
  BY <1>4
<1>7. \A x \in S : x <= m
  <2> SUFFICES ASSUME NEW x \in S
               PROVE  x <= m
    OBVIOUS
  <2>1. MaxLog - x \in T
    BY <1>1, <1>2
  <2>2. MaxLog - m <= MaxLog - x
    BY <1>5, <1>6, <2>1
  <2>3. m \in 0 .. MaxLog /\ x \in 0 .. MaxLog
    BY <1>2
  <2> QED  BY <1>1, <2>2, <2>3
<1>8. Highest(list) \in S /\ \A x \in S : Highest(list) >= x
  <2>1. \E x \in S : \A y \in S : x >= y
    BY <1>1, <1>2, <1>7
  <2> HIDE DEF S
  <2>2. Max(S) \in S /\ \A y \in S : Max(S) >= y
    BY <2>1 DEF Max
  <2> QED  BY <2>2 DEF Highest, S
<1>9. \A k \in 1 .. Len(list) : list[k] \in S
  BY DEF Range
<1> HIDE DEF S, T
<1>10. \A k \in 1 .. Len(list) : list[k] <= Highest(list)
  BY <1>1, <1>2, <1>8, <1>9
<1> QED  BY <1>2, <1>8, <1>10

\* A list of bookmarks as TypeOK has it.
Bookmarks(list) ==
  list \in Seq(0 .. MaxLog) /\ Len(list) <= Cap /\ IsInjective(list)

\* How many bookmarks a push drains.
Drained(list) == IF Len(list) = Cap THEN 1 ELSE 0

\* Pushing a bookmark that is not in the list appends it, and drains the first
\* if the list is full.
LEMMA PushedIs ==
  ASSUME NEW list, Bookmarks(list), NEW b \in 0 .. MaxLog, b \notin Range(list)
  PROVE  /\ Bookmarks(Pushed(list, b))
         /\ Len(Pushed(list, b)) = Len(list) + 1 - Drained(list)
         /\ \A k \in 1 .. Len(Pushed(list, b)) :
              Pushed(list, b)[k] = IF k + Drained(list) = Len(list) + 1 THEN b
                                   ELSE list[k + Drained(list)]
<1> DEFINE d   == Drained(list)
           n   == Len(list)
           new == Pushed(list, b)
<1>1. /\ list \in Seq(0 .. MaxLog) /\ n \in Nat /\ n <= Cap /\ Cap \in Nat \ {0}
      /\ \A j, k \in 1 .. n : list[j] = list[k] => j = k
      /\ \A k \in 1 .. n : list[k] # b
  BY ManagedAssumption DEF Bookmarks, IsInjective, Range
<1>2. Len(Append(list, b)) = n + 1
  BY <1>1
<1> DEFINE more == Append(list, b)
<1>3. Max({0, Len(more) - Cap}) = d
  <2>1. Len(more) - Cap \in Int
    BY <1>1, <1>2
  <2> HIDE DEF more
  <2>2. Max({0, Len(more) - Cap}) = IF 0 >= Len(more) - Cap THEN 0 ELSE Len(more) - Cap
    BY <2>1, MaxOfTwo
  <2> QED  BY <1>1, <1>2, <2>2 DEF more, Drained
<1> HIDE DEF d
<1>4. new = SubSeq(more, d + 1, n + 1)
  <2>1. new = SubSeq(more, Max({0, Len(more) - Cap}) + 1, Len(more))
    BY Zenon DEF Pushed
  <2>2. Len(more) = n + 1
    BY <1>2
  <2> HIDE DEF more, new, n
  <2> QED  BY <1>3, <2>1, <2>2
<1> HIDE DEF more
<1>5. d \in {0, 1}
  BY DEF d, Drained
<1> HIDE DEF new
<1>6. /\ new \in Seq(0 .. MaxLog) /\ Len(new) = n + 1 - d
      /\ \A k \in 1 .. Len(new) : new[k] = IF k + d = n + 1 THEN b ELSE list[k + d]
  <2> DEFINE S == 0 .. MaxLog
  <2>1. list \in Seq(S) /\ b \in S
    BY <1>1
  <2> HIDE DEF S
  <2>2. /\ more \in Seq(S) /\ Len(more) = n + 1
        /\ \A k \in 1 .. n : more[k] = list[k]
        /\ more[n + 1] = b
    BY <2>1, AppendProperties DEF more
  <2>3. n \in Nat
    BY <1>1
  <2> HIDE DEF n
  <2>4. \A k \in d + 1 .. n + 1 : more[k] \in S
    BY <1>5, <2>2, <2>3
  <2>5. /\ new \in Seq(S) /\ Len(new) = n + 1 - d
        /\ \A k \in 1 .. n + 1 - d : new[k] = more[k + d]
    BY <1>4, <1>5, <2>3, <2>4, SubSeqProperties
  <2>6. ASSUME NEW k \in 1 .. n + 1 - d
        PROVE  new[k] = IF k + d = n + 1 THEN b ELSE list[k + d]
    BY <1>5, <2>2, <2>3, <2>5
  <2> QED  BY <2>5, <2>6 DEF S
<1>7. \A j, k \in 1 .. Len(new) : new[j] = new[k] => j = k
  <2> HIDE DEF n
  <2> SUFFICES ASSUME NEW j \in 1 .. n + 1 - d, NEW k \in 1 .. n + 1 - d, new[j] = new[k]
               PROVE  j = k
    BY <1>6
  <2>1. /\ new[j] = IF j + d = n + 1 THEN b ELSE list[j + d]
        /\ new[k] = IF k + d = n + 1 THEN b ELSE list[k + d]
    BY <1>6
  <2>2. /\ j + d = n + 1 \/ j + d \in 1 .. n
        /\ k + d = n + 1 \/ k + d \in 1 .. n
    BY <1>1, <1>5
  <2>3. j + d = k + d
    BY <1>1, <2>1, <2>2
  <2> QED  BY <1>5, <2>3
<1>8. Bookmarks(new)
  <2>1. DOMAIN new = 1 .. Len(new)
    BY <1>6
  <2>2. Len(new) <= Cap
    BY <1>1, <1>6 DEF d, Drained
  <2> QED  BY <1>6, <1>7, <2>1, <2>2 DEF Bookmarks, IsInjective
<1> QED  BY <1>6, <1>8 DEF new, d

\* Pushing keeps the list one of bookmarks.
LEMMA PushedType ==
  ASSUME NEW list, Bookmarks(list), NEW b \in 0 .. MaxLog
  PROVE  Bookmarks(Pushed(list, b))
<1>1. CASE b \in Range(list)
  BY <1>1 DEF Pushed
<1>2. CASE b \notin Range(list)
  BY <1>2, PushedIs
<1> QED  BY <1>1, <1>2

-----------------------------------------------------------------------------
(* What the parts of the actions do *)

\* The types of what Return and Failed change.
LocalTypes ==
  /\ pc \in [Task -> Pcs]
  /\ mode \in [Task -> {"Read", "Write"}]
  /\ attempt \in [Task -> Nat \ {0}]
  /\ sent \in [Task -> 0 .. MaxLog] /\ mark \in [Task -> 0 .. MaxLog]
  /\ result \in [Task -> {"none", "ok", "err", "dropped"}]

HistoryTypes ==
  /\ past \in [Task -> 0 .. MaxLog]
  /\ committed \in [Task -> Nat] /\ lost \in [Task -> Nat]

SharedTypes == Bookmarks(bookmarks) /\ log \in 0 .. MaxLog /\ acked \in 0 .. MaxLog

\* The types, split by who may write the variables.
LEMMA TypesAre == TypeOK <=> LocalTypes /\ HistoryTypes /\ SharedTypes
  BY DEF TypeOK, LocalTypes, HistoryTypes, SharedTypes, Bookmarks

\* A step of t leaves what the others have.
LocalFrame(t) ==
  \A u \in Task \ {t} :
    /\ pc'[u] = pc[u] /\ mode'[u] = mode[u] /\ sent'[u] = sent[u] /\ mark'[u] = mark[u]
    /\ result'[u] = result[u]

HistoryFrame(t) ==
  \A u \in Task \ {t} :
    past'[u] = past[u] /\ committed'[u] = committed[u] /\ lost'[u] = lost[u]

\* execute returns r.
LEMMA Returns ==
  ASSUME LocalTypes, NEW t \in Task, NEW r \in {"ok", "err", "dropped"}, Return(t, r)
  PROVE  /\ LocalTypes' /\ LocalFrame(t)
         /\ pc'[t] = "out" /\ result'[t] = r /\ mode'[t] = mode[t]
<1>1. 0 \in 0 .. MaxLog /\ 1 \in Nat \ {0} /\ "out" \in Pcs
  BY ManagedAssumption DEF Pcs
<1> QED  BY <1>1 DEF Return, Goto, LocalTypes, LocalFrame

\* The backoff sleeps, or execute returns the error.
LEMMA BacksOff ==
  ASSUME LocalTypes, NEW t \in Task, Backoff(t)
  PROVE  /\ LocalTypes' /\ LocalFrame(t) /\ mode'[t] = mode[t]
         /\ \/ pc'[t] = "out" /\ result'[t] = "err"
            \/ pc'[t] = "sleeping" /\ result'[t] = result[t]
<1>1. CASE Return(t, "err")
  BY <1>1, Returns
<1>2. CASE Goto(t, "sleeping") /\ UNCHANGED <<mode, attempt, sent, mark, result>>
  BY <1>2 DEF Goto, LocalTypes, LocalFrame, Pcs
<1> QED  BY <1>1, <1>2 DEF Backoff

\* A failed try ends in a return, a refresh or a sleep.
LEMMA FailedEnds ==
  ASSUME LocalTypes, NEW t \in Task, NEW e, Failed(t, e)
  PROVE  /\ LocalTypes' /\ LocalFrame(t) /\ mode'[t] = mode[t]
         /\ \/ pc'[t] = "out" /\ result'[t] = "err"
            \/ pc'[t] \in {"refreshing", "sleeping"} /\ result'[t] = result[t]
<1>1. CASE Return(t, "err")
  BY <1>1, Returns
<1>2. CASE Goto(t, "refreshing") /\ UNCHANGED <<mode, attempt, sent, mark, result>>
  BY <1>2 DEF Goto, LocalTypes, LocalFrame, Pcs
<1>3. CASE Backoff(t)
  BY <1>3, BacksOff
<1> QED  BY <1>1, <1>2, <1>3 DEF Failed

\* A step that only moves t on.
LEMMA Moves ==
  ASSUME LocalTypes, NEW t \in Task, NEW p \in Pcs, Goto(t, p),
         sent' \in [Task -> 0 .. MaxLog], attempt' \in [Task -> Nat \ {0}],
         \A u \in Task \ {t} : sent'[u] = sent[u],
         UNCHANGED <<mode, mark, result>>
  PROVE  /\ LocalTypes' /\ LocalFrame(t)
         /\ pc'[t] = p /\ mode'[t] = mode[t] /\ result'[t] = result[t]
  BY DEF Goto, LocalTypes, LocalFrame

\* The server's commit: a write is counted, a read is not.
LEMMA TakesIs ==
  ASSUME HistoryTypes, SharedTypes, NEW t \in Task, NEW b \in 0 .. MaxLog, Takes(t, b)
  PROVE  /\ log' \in 0 .. MaxLog /\ log' >= log /\ b <= log'
         /\ committed' \in [Task -> Nat]
         /\ \A u \in Task \ {t} : committed'[u] = committed[u]
         /\ mode[t] = "Write" => committed'[t] = committed[t] + 1 /\ b > log
         /\ mode[t] # "Write" => committed'[t] = committed[t] /\ b >= sent[t]
<1>1. MaxLog \in Nat /\ log \in 0 .. MaxLog /\ committed \in [Task -> Nat]
  BY ManagedAssumption DEF SharedTypes, HistoryTypes
<1>2. CASE mode[t] = "Write"
  BY <1>1, <1>2 DEF Takes
<1>3. CASE mode[t] # "Write"
  <2>1. b \in sent[t] .. log /\ log' = log /\ committed' = committed
    BY <1>3 DEF Takes
  <2> QED  BY <1>1, <1>3, <2>1
<1> QED  BY <1>2, <1>3

-----------------------------------------------------------------------------
(* Typing and the count of commits *)

\* What a step of t leads to, whatever it is.
Goes(t) ==
  /\ LocalTypes' /\ HistoryTypes' /\ SharedTypes'
  /\ LocalFrame(t) /\ HistoryFrame(t)
  /\ Accounted(t)'

\* The shared list and the history stay as they were.
LEMMA StayTyped ==
  ASSUME SharedTypes, HistoryTypes, UNCHANGED <<shared, history>>, NEW t
  PROVE  SharedTypes' /\ HistoryTypes' /\ HistoryFrame(t)
  BY DEF SharedTypes, HistoryTypes, HistoryFrame, shared, history, Bookmarks, IsInjective

\* Moving on within try_once, short of the commit.
LEMMA MoveGoes ==
  ASSUME LocalTypes, HistoryTypes, SharedTypes, NEW t \in Task, Accounted(t),
         NEW p \in Pcs \ {"out", "merging"}, pc[t] \notin {"out", "merging"}, Goto(t, p),
         sent' \in [Task -> 0 .. MaxLog], attempt' \in [Task -> Nat \ {0}],
         \A u \in Task \ {t} : sent'[u] = sent[u],
         UNCHANGED <<mode, mark, shared, history, result>>
  PROVE  Goes(t)
<1>1. /\ LocalTypes' /\ LocalFrame(t)
      /\ pc'[t] = p /\ mode'[t] = mode[t] /\ result'[t] = result[t]
  BY Moves
<1>2. SharedTypes' /\ HistoryTypes' /\ HistoryFrame(t)
  BY StayTyped
<1>3. Accounted(t)'
  BY <1>1 DEF Accounted, history
<1> QED  BY <1>1, <1>2, <1>3 DEF Goes

\* A failure before the server has committed.
LEMMA FailGoes ==
  ASSUME LocalTypes, HistoryTypes, SharedTypes, NEW t \in Task, Accounted(t),
         pc[t] \notin {"out", "merging"}, UNCHANGED <<shared, history>>,
         Backoff(t) \/ \E e \in Errors : Failed(t, e)
  PROVE  Goes(t)
<1>1. /\ LocalTypes' /\ LocalFrame(t) /\ mode'[t] = mode[t]
      /\ \/ pc'[t] = "out" /\ result'[t] = "err"
         \/ pc'[t] \in {"refreshing", "sleeping"} /\ result'[t] = result[t]
  BY BacksOff, FailedEnds
<1>2. SharedTypes' /\ HistoryTypes' /\ HistoryFrame(t)
  BY StayTyped
<1>3. Accounted(t)'
  BY <1>1 DEF Accounted, history
<1> QED  BY <1>1, <1>2, <1>3 DEF Goes

\* The steps that move a task on or fail it.
LEMMA Plain ==
  ASSUME LocalTypes, HistoryTypes, SharedTypes, NEW t \in Task, Accounted(t),
         \/ Slept(t) \/ Acquired(t) \/ ReadBookmarks(t) \/ Begun(t) \/ Worked(t)
         \/ WorkFails(t) \/ Refreshed(t)
         \/ \E e \in Errors : \/ AcquireFails(t, e) \/ BeginFails(t, e) \/ RolledBack(t, e)
                              \/ CommitFails(t, e)
  PROVE  Goes(t)
<1>1. /\ sent \in [Task -> 0 .. MaxLog] /\ attempt \in [Task -> Nat \ {0}]
      /\ 0 \in 0 .. MaxLog
  BY ManagedAssumption DEF LocalTypes
<1>2. /\ pc[t] \notin {"out", "merging"} /\ Accounted(t)
      /\ UNCHANGED <<shared, history>>
  BY DEF Slept, Acquired, ReadBookmarks, Begun, Worked, WorkFails, Refreshed,
         AcquireFails, BeginFails, RolledBack, CommitFails
<1>3. CASE \/ Refreshed(t)
           \/ \E e \in Errors : \/ AcquireFails(t, e) \/ BeginFails(t, e) \/ RolledBack(t, e)
                                \/ CommitFails(t, e)
  <2>1. Backoff(t) \/ \E e \in Errors : Failed(t, e)
    BY <1>3 DEF Refreshed, AcquireFails, BeginFails, RolledBack, CommitFails
  <2> QED  BY <1>2, <2>1, FailGoes
<1>4. CASE Acquired(t) \/ Begun(t) \/ Worked(t) \/ WorkFails(t)
  <2>1. \E p \in Pcs \ {"out", "merging"} : Goto(t, p)
    BY <1>4 DEF Acquired, Begun, Worked, WorkFails, Pcs
  <2>2. UNCHANGED <<mode, attempt, sent, mark, shared, history, result>>
    BY <1>4 DEF Acquired, Begun, Worked, WorkFails
  <2> QED  BY <1>1, <1>2, <2>1, <2>2, MoveGoes
<1>5. CASE Slept(t)
  <2>1. Goto(t, "acquiring") /\ "acquiring" \in Pcs \ {"out", "merging"}
    BY <1>5 DEF Slept, Pcs
  <2>2. /\ sent' \in [Task -> 0 .. MaxLog] /\ attempt' \in [Task -> Nat \ {0}]
        /\ \A u \in Task \ {t} : sent'[u] = sent[u]
        /\ UNCHANGED <<mode, mark, shared, history, result>>
    BY <1>1, <1>5 DEF Slept
  <2> QED  BY <1>2, <2>1, <2>2, MoveGoes
<1>6. CASE ReadBookmarks(t)
  <2>1. Goto(t, "beginning") /\ "beginning" \in Pcs \ {"out", "merging"}
    BY <1>6 DEF ReadBookmarks, Pcs
  <2>2. Highest(bookmarks) \in 0 .. MaxLog
    BY HighestIs DEF SharedTypes, Bookmarks
  <2>3. /\ sent' \in [Task -> 0 .. MaxLog] /\ attempt' \in [Task -> Nat \ {0}]
        /\ \A u \in Task \ {t} : sent'[u] = sent[u]
        /\ UNCHANGED <<mode, mark, shared, history, result>>
    BY <1>1, <1>6, <2>2 DEF ReadBookmarks
  <2> QED  BY <1>2, <2>1, <2>3, MoveGoes
<1> QED  BY <1>3, <1>4, <1>5, <1>6

\* execute is called.
LEMMA ExecuteGoes ==
  ASSUME LocalTypes, HistoryTypes, SharedTypes, NEW t \in Task, NEW m \in Modes, Execute(t, m)
  PROVE  Goes(t)
<1>1. m \in {"Read", "Write"} /\ "acquiring" \in Pcs /\ 0 \in Nat
  BY ManagedAssumption DEF Pcs
<1>2. LocalTypes' /\ LocalFrame(t)
  BY <1>1 DEF Execute, Goto, LocalTypes, LocalFrame
<1>3. HistoryTypes' /\ HistoryFrame(t)
  BY DEF Execute, HistoryTypes, HistoryFrame, SharedTypes
<1>4. SharedTypes'
  BY DEF Execute, shared, SharedTypes, Bookmarks, IsInjective
<1>5. pc'[t] = "acquiring" /\ result'[t] = "none" /\ committed'[t] = 0 /\ lost'[t] = 0
  BY DEF Execute, Goto, LocalTypes, HistoryTypes
<1>6. Accounted(t)'
  BY <1>5 DEF Accounted
<1> QED  BY <1>2, <1>3, <1>4, <1>6 DEF Goes

\* The server commits: the answer comes with a bookmark or without, or is lost.
LEMMA CommitGoes ==
  ASSUME LocalTypes, HistoryTypes, SharedTypes, NEW t \in Task, Accounted(t),
         NEW b \in 0 .. MaxLog,
         \/ Committed(t, b) \/ CommittedNoMark(t, b)
         \/ \E e \in Errors : CommitLost(t, b, e)
  PROVE  Goes(t)
<1>1. pc[t] = "committing" /\ Takes(t, b) /\ past' = past /\ bookmarks' = bookmarks /\ acked' = acked
  BY DEF Committed, CommittedNoMark, CommitLost
<1>2. /\ log' \in 0 .. MaxLog /\ committed' \in [Task -> Nat]
      /\ \A u \in Task \ {t} : committed'[u] = committed[u]
      /\ mode[t] = "Write" => committed'[t] = committed[t] + 1
  BY <1>1, TakesIs
<1>3. SharedTypes'
  BY <1>1, <1>2 DEF SharedTypes, Bookmarks, IsInjective
<1>4. result[t] = "none" /\ (mode[t] = "Write" => committed[t] = lost[t])
  BY <1>1 DEF Accounted
<1>5. committed[t] \in Nat /\ lost[t] \in Nat
  BY DEF HistoryTypes
<1>6. CASE Committed(t, b)
  <2>1. HistoryTypes' /\ HistoryFrame(t) /\ lost' = lost
    BY <1>1, <1>2, <1>6 DEF Committed, HistoryTypes, HistoryFrame
  <2>2. LocalTypes' /\ LocalFrame(t) /\ pc'[t] = "merging" /\ result' = result /\ mode' = mode
    BY <1>6 DEF Committed, Goto, LocalTypes, LocalFrame, Pcs
  <2>3. Accounted(t)'
    BY <1>2, <1>4, <1>5, <2>1, <2>2 DEF Accounted
  <2> QED  BY <1>3, <2>1, <2>2, <2>3 DEF Goes
<1>7. CASE CommittedNoMark(t, b)
  <2>1. HistoryTypes' /\ HistoryFrame(t) /\ lost' = lost
    BY <1>1, <1>2, <1>7 DEF CommittedNoMark, HistoryTypes, HistoryFrame
  <2>2. Return(t, "ok")
    BY <1>7 DEF CommittedNoMark
  <2>3. /\ LocalTypes' /\ LocalFrame(t) /\ pc'[t] = "out" /\ result'[t] = "ok"
        /\ mode'[t] = mode[t]
    BY <2>2, Returns
  <2>4. Accounted(t)'
    BY <1>2, <1>4, <1>5, <2>1, <2>3 DEF Accounted
  <2> QED  BY <1>3, <2>1, <2>3, <2>4 DEF Goes
<1>8. ASSUME NEW e \in Errors, CommitLost(t, b, e)
      PROVE  Goes(t)
  <2>1. /\ HistoryTypes' /\ HistoryFrame(t) /\ lost'[t] = lost[t] + 1
        /\ mode[t] = "Write" /\ Failed(t, e)
    BY <1>1, <1>2, <1>8 DEF CommitLost, HistoryTypes, HistoryFrame
  <2>2. /\ LocalTypes' /\ LocalFrame(t) /\ mode'[t] = mode[t]
        /\ \/ pc'[t] = "out" /\ result'[t] = "err"
           \/ pc'[t] \in {"refreshing", "sleeping"} /\ result'[t] = result[t]
    BY <2>1, FailedEnds
  <2>3. Accounted(t)'
    BY <1>2, <1>4, <1>5, <2>1, <2>2 DEF Accounted
  <2> QED  BY <1>3, <2>1, <2>2, <2>3 DEF Goes
<1> QED  BY <1>6, <1>7, <1>8

\* The bookmark is merged, and execute returns Ok; or its future is dropped.
LEMMA EndGoes ==
  ASSUME LocalTypes, HistoryTypes, SharedTypes, NEW t \in Task, Accounted(t),
         Merge(t) \/ Dropped(t)
  PROVE  Goes(t)
<1>1. CASE Merge(t)
  <2>1. mark[t] \in 0 .. MaxLog /\ acked \in 0 .. MaxLog /\ MaxLog \in Nat
    BY ManagedAssumption DEF LocalTypes, SharedTypes
  <2>2. Max({acked, mark[t]}) \in 0 .. MaxLog
    BY <2>1, MaxOfTwo
  <2>3. SharedTypes'
    BY <1>1, <2>1, <2>2, PushedType DEF Merge, SharedTypes
  <2>4. HistoryTypes' /\ HistoryFrame(t)
    BY <1>1 DEF Merge, history, HistoryTypes, HistoryFrame
  <2>5. pc[t] = "merging" /\ Return(t, "ok") /\ UNCHANGED history
    BY <1>1 DEF Merge
  <2>6. /\ LocalTypes' /\ LocalFrame(t) /\ pc'[t] = "out" /\ result'[t] = "ok"
        /\ mode'[t] = mode[t]
    BY <2>5, Returns
  <2>7. Accounted(t)'
    BY <2>5, <2>6 DEF Accounted, history
  <2> QED  BY <2>3, <2>4, <2>6, <2>7 DEF Goes
<1>2. CASE Dropped(t)
  <2>1. Return(t, "dropped")
    BY <1>2 DEF Dropped
  <2>2. /\ LocalTypes' /\ LocalFrame(t) /\ pc'[t] = "out" /\ result'[t] = "dropped"
        /\ mode'[t] = mode[t]
    BY <2>1, Returns
  <2>3. Accounted(t)'
    BY <2>2 DEF Accounted
  <2>4. CASE UNCHANGED <<shared, history>>
    BY <2>2, <2>3, <2>4, StayTyped DEF Goes
  <2>5. CASE ~UNCHANGED <<shared, history>>
    <3>1. PICK b \in 0 .. MaxLog : Takes(t, b)
      BY <1>2, <2>5 DEF Dropped
    <3>2. /\ lost' = [lost EXCEPT ![t] = @ + 1]
          /\ past' = past /\ bookmarks' = bookmarks /\ acked' = acked
      BY <1>2, <2>5 DEF Dropped
    <3>3. /\ log' \in 0 .. MaxLog /\ committed' \in [Task -> Nat]
          /\ \A u \in Task \ {t} : committed'[u] = committed[u]
      BY <3>1, TakesIs
    <3>4. SharedTypes'
      BY <3>2, <3>3 DEF SharedTypes, Bookmarks, IsInjective
    <3>5. lost' \in [Task -> Nat] /\ \A u \in Task \ {t} : lost'[u] = lost[u]
      BY <3>2 DEF HistoryTypes
    <3>6. HistoryTypes' /\ HistoryFrame(t)
      BY <3>2, <3>3, <3>5 DEF HistoryTypes, HistoryFrame
    <3> QED  BY <2>2, <2>3, <3>4, <3>6 DEF Goes
  <2> QED  BY <2>4, <2>5
<1> QED  BY <1>1, <1>2

\* A step of a task goes somewhere typed and accounted for.
LEMMA StepGoes ==
  ASSUME Inv, NEW t \in Task,
         (\E m \in Modes : Execute(t, m)) \/ Progress(t) \/ Dropped(t)
  PROVE  Goes(t)
<1>1. LocalTypes /\ HistoryTypes /\ SharedTypes /\ Accounted(t)
  BY TypesAre DEF Inv
<1>2. CASE \E m \in Modes : Execute(t, m)
  BY <1>1, <1>2, ExecuteGoes
<1>3. CASE Dropped(t) \/ Merge(t)
  BY <1>1, <1>3, EndGoes
<1>4. CASE Fails(t)
  <2>1. PICK e \in Errors : \/ AcquireFails(t, e) \/ BeginFails(t, e) \/ RolledBack(t, e)
                            \/ CommitFails(t, e)
                            \/ \E b \in 0 .. MaxLog : CommitLost(t, b, e)
    BY <1>4 DEF Fails
  <2>2. CASE \E b \in 0 .. MaxLog : CommitLost(t, b, e)
    BY <1>1, <2>2, CommitGoes
  <2>3. CASE AcquireFails(t, e) \/ BeginFails(t, e) \/ RolledBack(t, e) \/ CommitFails(t, e)
    BY <1>1, <2>3, Plain
  <2> QED  BY <2>1, <2>2, <2>3
<1>5. CASE \E b \in 0 .. MaxLog : Committed(t, b) \/ CommittedNoMark(t, b)
  BY <1>1, <1>5, CommitGoes
<1>6. CASE \/ Slept(t) \/ Acquired(t) \/ ReadBookmarks(t) \/ Begun(t) \/ Worked(t)
           \/ WorkFails(t) \/ Refreshed(t)
  BY <1>1, <1>6, Plain
<1> QED  BY <1>2, <1>3, <1>4, <1>5, <1>6 DEF Progress

\* The step of one task keeps the invariant of all.
LEMMA InvStep == Inv /\ [Next]_vars => Inv'
<1> SUFFICES ASSUME Inv, [Next]_vars
             PROVE  Inv'
  OBVIOUS
<1>1. CASE Next
  <2>1. PICK t \in Task : (\E m \in Modes : Execute(t, m)) \/ Progress(t) \/ Dropped(t)
    BY <1>1 DEF Next
  <2>2. /\ LocalTypes' /\ HistoryTypes' /\ SharedTypes'
        /\ LocalFrame(t) /\ HistoryFrame(t) /\ Accounted(t)'
    BY <2>1, StepGoes DEF Goes
  <2>3. TypeOK'
    <3>1. TypeOK' <=> LocalTypes' /\ HistoryTypes' /\ SharedTypes'
      BY DEF TypeOK, LocalTypes, HistoryTypes, SharedTypes, Bookmarks
    <3> QED  BY <2>2, <3>1
  <2>4. ASSUME NEW u \in Task \ {t}
        PROVE  Accounted(u)'
    <3>1. Accounted(u)
      BY DEF Inv
    <3>2. /\ pc'[u] = pc[u] /\ mode'[u] = mode[u] /\ result'[u] = result[u]
          /\ committed'[u] = committed[u] /\ lost'[u] = lost[u]
      BY <2>2 DEF LocalFrame, HistoryFrame
    <3> QED  BY <3>1, <3>2 DEF Accounted
  <2> QED  BY <2>2, <2>3, <2>4 DEF Inv
<1>2. CASE UNCHANGED vars
  <2>1. UNCHANGED <<pc, mode, attempt, sent, mark, bookmarks, log, acked, past, committed,
                    lost, result>>
    BY <1>2 DEF vars, shared, history
  <2>2. TypeOK'
    BY <2>1 DEF Inv, TypeOK, IsInjective
  <2>3. \A t \in Task : Accounted(t)'
    BY <2>1 DEF Inv, Accounted
  <2> QED  BY <2>2, <2>3 DEF Inv
<1> QED  BY <1>1, <1>2

\* The invariant holds before any call of execute.
LEMMA InvInit == Init => Inv
<1> SUFFICES ASSUME Init
             PROVE  Inv
  OBVIOUS
<1>1. MaxLog \in Nat /\ Cap \in Nat /\ 0 \in 0 .. MaxLog
  BY ManagedAssumption
<1>2. (CHOOSE m \in Modes : TRUE) \in {"Read", "Write"}
  BY ManagedAssumption
<1>3. TypeOK
  BY <1>1, <1>2 DEF Init, TypeOK, Pcs, IsInjective
<1>4. \A t \in Task : Accounted(t)
  BY DEF Init, Accounted
<1> QED  BY <1>3, <1>4 DEF Inv

\* The types and the account of every call hold throughout.
LEMMA InvHolds == Spec => []Inv
  BY InvInit, InvStep, PTL DEF Spec

\* Whatever the tasks do, the attempts and the bookmarks are of their types,
\* and the shared list that try_once pushes to and drains keeps no bookmark
\* twice and at most Cap of them.
THEOREM Typing == Spec => []TypeOK
<1>1. Inv => TypeOK
  BY DEF Inv
<1> QED  BY <1>1, InvHolds, PTL

\* However often execute tries again, the server has made one commit for a
\* write that returned Ok and none for one that returned an error, besides
\* the commits whose answer did not arrive.
THEOREM CommitsOnce == Spec => []OnceUnlessLost
<1>1. Inv => OnceUnlessLost
  BY DEF Inv, Accounted, OnceUnlessLost
<1> QED  BY <1>1, InvHolds, PTL

-----------------------------------------------------------------------------
(* Causal consistency *)

\* A step of t other than Merge pushes nothing, and makes no task late that
\* was not.
Quiet(t) ==
  /\ bookmarks' = bookmarks /\ acked' = acked /\ log' >= log
  /\ Late(t)' => Late(t)
  /\ past'[t] <= acked
  /\ pc'[t] \in {"beginning", "working"} => sent'[t] >= past'[t]
  /\ pc'[t] = "merging" => mark'[t] <= log'

\* What the list, full or not, has as its highest is what was acknowledged.
LEMMA KeptHighest ==
  ASSUME TypeOK, Kept
  PROVE  Highest(bookmarks) >= acked
<1>1. bookmarks \in Seq(0 .. MaxLog) /\ acked \in Nat /\ MaxLog \in Nat
  BY ManagedAssumption DEF TypeOK
<1>2. Highest(bookmarks) \in 0 .. MaxLog /\ \A k \in 1 .. Len(bookmarks) : bookmarks[k] <= Highest(bookmarks)
  BY <1>1, HighestIs
<1>3. CASE acked = 0
  BY <1>1, <1>2, <1>3
<1>4. CASE acked # 0
  <2>1. PICK p \in 1 .. Len(bookmarks) : bookmarks[p] = acked
    BY <1>4 DEF Kept
  <2> QED  BY <1>1, <1>2, <2>1
<1> QED  BY <1>3, <1>4

\* Every step but Merge is quiet.
LEMMA StepQuiet ==
  ASSUME Inv, Causal, NEW t \in Task,
         (\E m \in Modes : Execute(t, m)) \/ Progress(t) \/ Dropped(t), ~Merge(t)
  PROVE  Quiet(t)
<1> DEFINE live == {"beginning", "working", "committing"}
<1>1. LocalTypes /\ HistoryTypes /\ SharedTypes
  BY TypesAre DEF Inv
<1>2. /\ acked \in 0 .. MaxLog /\ log \in 0 .. MaxLog /\ MaxLog \in Nat /\ acked <= log
      /\ sent[t] \in 0 .. MaxLog /\ past[t] \in 0 .. MaxLog /\ mark[t] \in 0 .. MaxLog
  BY <1>1, ManagedAssumption DEF LocalTypes, HistoryTypes, SharedTypes, Causal
<1>3. /\ past[t] <= acked
      /\ pc[t] \in {"beginning", "working"} => sent[t] >= past[t]
      /\ pc[t] = "merging" => mark[t] <= log
  BY DEF Causal, Ordered
<1>4. CASE \E m \in Modes : Execute(t, m)
  <2>1. /\ pc'[t] = "acquiring" /\ past'[t] = acked
        /\ bookmarks' = bookmarks /\ acked' = acked /\ log' = log
    BY <1>1, <1>4 DEF Execute, Goto, shared, LocalTypes, HistoryTypes
  <2> QED  BY <1>2, <2>1 DEF Quiet, Late
<1>5. CASE UNCHANGED <<shared, history>> /\ pc'[t] \in Pcs \ (live \union {"merging"})
  BY <1>2, <1>3, <1>5 DEF Quiet, Late, shared, history, Pcs
<1>6. CASE Dropped(t)
  <2>1. pc'[t] = "out"
    BY <1>1, <1>6, Returns DEF Dropped
  <2>2. CASE UNCHANGED <<shared, history>>
    BY <1>5, <2>1, <2>2 DEF Pcs
  <2>3. CASE ~UNCHANGED <<shared, history>>
    <3>1. PICK b \in 0 .. MaxLog : Takes(t, b)
      BY <1>6, <2>3 DEF Dropped
    <3>2. UNCHANGED <<bookmarks, acked, past>>
      BY <1>6, <2>3 DEF Dropped
    <3>3. log' >= log
      BY <1>1, <3>1, TakesIs
    <3> QED  BY <1>2, <1>3, <2>1, <3>2, <3>3 DEF Quiet, Late
  <2> QED  BY <2>2, <2>3
<1>7. CASE Refreshed(t) \/ \E e \in Errors : \/ AcquireFails(t, e) \/ BeginFails(t, e)
                                            \/ RolledBack(t, e) \/ CommitFails(t, e)
  <2>1. /\ UNCHANGED <<shared, history>>
        /\ Backoff(t) \/ \E e \in Errors : Failed(t, e)
    BY <1>7 DEF Refreshed, AcquireFails, BeginFails, RolledBack, CommitFails
  <2>2. pc'[t] \in {"out", "refreshing", "sleeping"}
    BY <1>1, <2>1, BacksOff, FailedEnds
  <2> QED  BY <1>5, <2>1, <2>2 DEF Pcs
<1>8. CASE Slept(t) \/ Acquired(t) \/ WorkFails(t)
  <2>1. pc'[t] \in {"acquiring", "reading", "rollback"} /\ UNCHANGED <<shared, history>>
    BY <1>1, <1>8 DEF Slept, Acquired, WorkFails, Goto, LocalTypes
  <2> QED  BY <1>5, <2>1 DEF Pcs
<1>9. CASE Begun(t) \/ Worked(t)
  <2>1. /\ pc[t] \in live /\ pc'[t] \in live /\ pc[t] # "committing"
        /\ UNCHANGED <<mode, sent, mark, shared, history>>
    BY <1>1, <1>9 DEF Begun, Worked, Goto, LocalTypes
  <2> QED  BY <1>2, <1>3, <2>1 DEF Quiet, Late, shared, history
<1>10. CASE ReadBookmarks(t)
  <2>1. /\ pc'[t] = "beginning" /\ sent'[t] = Highest(bookmarks)
        /\ UNCHANGED <<shared, history>>
    BY <1>1, <1>10 DEF ReadBookmarks, Goto, LocalTypes
  <2>2. Highest(bookmarks) >= acked /\ Highest(bookmarks) \in 0 .. MaxLog
    BY <1>1, KeptHighest, HighestIs DEF Inv, Causal, SharedTypes, Bookmarks
  <2> QED  BY <1>2, <1>3, <2>1, <2>2 DEF Quiet, Late, shared, history
<1>11. ASSUME NEW b \in 0 .. MaxLog, Committed(t, b)
       PROVE  Quiet(t)
  <2>1. /\ pc[t] = "committing" /\ Takes(t, b) /\ pc'[t] = "merging" /\ mark'[t] = b
        /\ UNCHANGED <<bookmarks, acked, past>>
    BY <1>1, <1>11 DEF Committed, Goto, LocalTypes
  <2>2. /\ log' \in 0 .. MaxLog /\ log' >= log /\ b <= log'
        /\ mode[t] = "Write" => b > log
        /\ mode[t] # "Write" => b >= sent[t]
    BY <1>1, <2>1, TakesIs
  <2>3. Late(t)' => Late(t)
    <3> SUFFICES ASSUME Late(t)'
                 PROVE  Late(t)
      OBVIOUS
    <3>1. b < acked
      BY <2>1 DEF Late
    <3>2. mode[t] # "Write" /\ sent[t] < acked
      BY <1>2, <2>2, <3>1
    <3>3. mode[t] = "Read"
      BY <1>1, <3>2 DEF LocalTypes
    <3> QED  BY <2>1, <3>2, <3>3 DEF Late
  <2> QED  BY <1>2, <1>3, <2>1, <2>2, <2>3 DEF Quiet
<1>12. ASSUME NEW b \in 0 .. MaxLog,
              CommittedNoMark(t, b) \/ \E e \in Errors : CommitLost(t, b, e)
       PROVE  Quiet(t)
  <2>1. /\ Takes(t, b) /\ UNCHANGED <<bookmarks, acked, past>>
        /\ Return(t, "ok") \/ \E e \in Errors : Failed(t, e)
    BY <1>12 DEF CommittedNoMark, CommitLost
  <2>2. log' >= log
    BY <1>1, <2>1, TakesIs
  <2>3. pc'[t] \in {"out", "refreshing", "sleeping"}
    BY <1>1, <2>1, Returns, FailedEnds
  <2> QED  BY <1>2, <1>3, <2>1, <2>2, <2>3 DEF Quiet, Late
<1> QED  BY <1>4, <1>6, <1>7, <1>8, <1>9, <1>10, <1>11, <1>12 DEF Progress, Fails

\* Fewer tasks are late once Behind has shrunk.
LEMMA FewerBehind ==
  ASSUME IsFiniteSet(Task), Behind' \subseteq Behind
  PROVE  /\ Cardinality(Behind) \in Nat /\ Cardinality(Behind') \in Nat
         /\ Cardinality(Behind') <= Cardinality(Behind)
         /\ \A t \in Behind \ Behind' : Cardinality(Behind') <= Cardinality(Behind) - 1
<1> DEFINE B == Behind
           C == Behind'
<1>1. B \subseteq Task
  BY DEF Behind
<1>2. C \subseteq B
  OBVIOUS
<1> HIDE DEF B, C
<1>3. IsFiniteSet(B)
  BY <1>1, FS_Subset
<1>4. IsFiniteSet(C) /\ Cardinality(C) <= Cardinality(B)
  BY <1>2, <1>3, FS_Subset
<1>5. Cardinality(B) \in Nat /\ Cardinality(C) \in Nat
  BY <1>3, <1>4, FS_CardinalityType
<1>6. ASSUME NEW t \in B \ C
      PROVE  Cardinality(C) <= Cardinality(B) - 1
  <2>1. IsFiniteSet(B \ {t}) /\ Cardinality(B \ {t}) = Cardinality(B) - 1
    BY <1>3, FS_RemoveElement
  <2>2. C \in SUBSET (B \ {t})
    BY <1>2
  <2> QED  BY <2>1, <2>2, FS_Subset
<1> QED  BY <1>4, <1>5, <1>6 DEF B, C

\* A quiet step keeps the bookmarks in order, and the highest in the list.
LEMMA QuietKeeps ==
  ASSUME Inv, Inv', Causal, IsFiniteSet(Task), NEW t \in Task,
         LocalFrame(t), HistoryFrame(t), Quiet(t)
  PROVE  Causal'
<1>1. bookmarks' = bookmarks /\ acked' = acked /\ log' >= log
  BY DEF Quiet
<1>2. /\ acked \in Nat /\ log \in Nat /\ log' \in Nat /\ Cap \in Nat
      /\ bookmarks \in Seq(0 .. MaxLog)
      /\ \A u \in Task : mark[u] \in Nat
  BY ManagedAssumption DEF Inv, TypeOK
<1>3. acked' <= log' /\ \A k \in 1 .. Len(bookmarks') : bookmarks'[k] <= acked'
  BY <1>1, <1>2 DEF Causal
<1>4. ASSUME NEW u \in Task
      PROVE  Ordered(u)'
  <2>1. CASE u = t
    BY <1>1, <2>1 DEF Quiet, Ordered
  <2>2. CASE u # t
    <3>1. /\ pc'[u] = pc[u] /\ sent'[u] = sent[u] /\ mark'[u] = mark[u]
          /\ past'[u] = past[u]
      BY <2>2 DEF LocalFrame, HistoryFrame
    <3>2. Ordered(u)
      BY DEF Causal
    <3> QED  BY <1>1, <1>2, <3>1, <3>2 DEF Ordered
  <2> QED  BY <2>1, <2>2
<1>5. Behind' \subseteq Behind
  <2> SUFFICES ASSUME NEW u \in Task, Late(u)'
               PROVE  Late(u)
    BY DEF Behind
  <2>1. CASE u = t
    BY <2>1 DEF Quiet
  <2>2. CASE u # t
    <3>1. /\ pc'[u] = pc[u] /\ sent'[u] = sent[u] /\ mark'[u] = mark[u]
          /\ mode'[u] = mode[u]
      BY <2>2 DEF LocalFrame
    <3> QED  BY <1>1, <3>1 DEF Late
  <2> QED  BY <2>1, <2>2
<1>6. Kept'
  <2> SUFFICES ASSUME acked # 0
               PROVE  \E p \in 1 .. Len(bookmarks) :
                        /\ bookmarks[p] = acked
                        /\ (Len(bookmarks) - p) + Cardinality(Behind') < Cap
    BY <1>1 DEF Kept
  <2>1. PICK p \in 1 .. Len(bookmarks) :
          /\ bookmarks[p] = acked
          /\ (Len(bookmarks) - p) + Cardinality(Behind) < Cap
    BY DEF Causal, Kept
  <2>2. /\ Cardinality(Behind) \in Nat /\ Cardinality(Behind') \in Nat
        /\ Cardinality(Behind') <= Cardinality(Behind)
    BY <1>5, FewerBehind
  <2>3. Len(bookmarks) \in Nat
    BY <1>2
  <2>4. (Len(bookmarks) - p) + Cardinality(Behind') < Cap
    BY <1>2, <2>1, <2>2, <2>3
  <2> QED  BY <2>1, <2>4
<1> QED  BY <1>3, <1>4, <1>6 DEF Causal

\* So does a merge: a bookmark that is the new highest is pushed last, and of
\* one that is not, the room was kept.
LEMMA MergeKeeps ==
  ASSUME Inv, Causal, IsFiniteSet(Task), Cardinality(Holding) <= Cap, NEW t \in Task,
         Merge(t), LocalFrame(t), HistoryFrame(t)
  PROVE  Causal'
<1> DEFINE b == mark[t]
           n == Len(bookmarks)
           d == Drained(bookmarks)
<1>1. LocalTypes /\ HistoryTypes /\ SharedTypes
  BY TypesAre DEF Inv
<1>2. /\ b \in 0 .. MaxLog /\ acked \in 0 .. MaxLog /\ log \in 0 .. MaxLog /\ MaxLog \in Nat
      /\ past[t] \in 0 .. MaxLog /\ Bookmarks(bookmarks) /\ Cap \in Nat \ {0}
      /\ \A u \in Task : mark[u] \in Nat /\ past[u] \in Nat
  BY <1>1, ManagedAssumption DEF LocalTypes, HistoryTypes, SharedTypes
<1>3. /\ pc[t] = "merging" /\ bookmarks' = Pushed(bookmarks, b)
      /\ acked' = Max({acked, b}) /\ Return(t, "ok") /\ log' = log /\ past' = past
  BY DEF Merge, history
<1>4. pc'[t] = "out"
  BY <1>1, <1>3, Returns
<1>5. acked' = IF acked >= b THEN acked ELSE b
  BY <1>2, <1>3, MaxOfTwo
<1>6. b <= log /\ acked <= log /\ \A k \in 1 .. n : bookmarks[k] <= acked
  BY <1>3 DEF Causal, Ordered
<1>7. n \in Nat /\ n <= Cap /\ \A k \in 1 .. n : bookmarks[k] \in 0 .. MaxLog
  BY <1>2 DEF Bookmarks
<1>8. b \in Range(bookmarks) => bookmarks' = bookmarks
  BY <1>3 DEF Pushed
<1>9. b \notin Range(bookmarks) =>
        /\ Len(bookmarks') = n + 1 - d
        /\ \A k \in 1 .. Len(bookmarks') :
             bookmarks'[k] = IF k + d = n + 1 THEN b ELSE bookmarks[k + d]
  <2>1. Bookmarks(bookmarks) /\ b \in 0 .. MaxLog
    BY <1>2
  <2> DEFINE s == Pushed(bookmarks, b)
  <2> HIDE DEF b, d
  <2>2. b \notin Range(bookmarks) =>
          /\ Len(s) = Len(bookmarks) + 1 - Drained(bookmarks)
          /\ \A k \in 1 .. Len(s) :
               s[k] = IF k + Drained(bookmarks) = Len(bookmarks) + 1 THEN b
                      ELSE bookmarks[k + Drained(bookmarks)]
    BY <2>1, PushedIs
  <2> HIDE DEF s, n
  <2>3. bookmarks' = s
    BY <1>3 DEF s
  <2> QED  BY <2>2, <2>3 DEF n, d
<1>10. \A k \in 1 .. n : bookmarks[k] \in Range(bookmarks)
  BY <1>2 DEF Range, Bookmarks
<1>11. \A k \in 1 .. Len(bookmarks') : bookmarks'[k] <= acked'
  <2>1. CASE b \in Range(bookmarks)
    BY <1>2, <1>5, <1>6, <1>7, <1>8, <2>1
  <2>2. CASE b \notin Range(bookmarks)
    <3> SUFFICES ASSUME NEW k \in 1 .. n + 1 - d
                 PROVE  bookmarks'[k] <= acked'
      BY <1>9, <2>2
    <3>1. bookmarks'[k] = IF k + d = n + 1 THEN b ELSE bookmarks[k + d]
      BY <1>9, <2>2
    <3>2. k + d = n + 1 \/ k + d \in 1 .. n
      BY <1>7 DEF Drained
    <3>3. CASE k + d = n + 1
      BY <1>2, <1>5, <3>1, <3>3
    <3>4. CASE k + d # n + 1
      BY <1>2, <1>5, <1>6, <1>7, <3>1, <3>2, <3>4
    <3> QED  BY <3>3, <3>4
  <2> QED  BY <2>1, <2>2
<1>12. ASSUME NEW u \in Task
       PROVE  Ordered(u)'
  <2>1. Ordered(u)
    BY DEF Causal
  <2>2. past'[u] = past[u] /\ past[u] <= acked /\ acked <= acked'
    BY <1>2, <1>3, <1>5, <2>1 DEF Ordered
  <2>3. past'[u] <= acked'
    BY <1>2, <1>5, <2>2
  <2>4. CASE u = t
    BY <1>4, <2>3, <2>4 DEF Ordered
  <2>5. CASE u # t
    <3>1. pc'[u] = pc[u] /\ sent'[u] = sent[u] /\ mark'[u] = mark[u]
      BY <2>5 DEF LocalFrame
    <3> QED  BY <1>3, <2>1, <2>2, <2>3, <3>1 DEF Ordered
  <2> QED  BY <2>4, <2>5
<1>13. t \notin Behind'
  BY <1>4 DEF Behind, Late
<1>14. acked' = acked => Behind' \subseteq Behind
  <2> SUFFICES ASSUME acked' = acked, NEW u \in Task \ {t}, Late(u)'
               PROVE  Late(u)
    BY <1>13 DEF Behind
  <2>1. /\ pc'[u] = pc[u] /\ sent'[u] = sent[u] /\ mark'[u] = mark[u]
        /\ mode'[u] = mode[u]
    BY DEF LocalFrame
  <2> QED  BY <2>1 DEF Late
<1> HIDE DEF b, n, d
<1>15. d \in {0, 1} /\ (d = 1 <=> n = Cap)
  BY <1>2, <1>7 DEF d, n, Drained
<1>16. Kept'
  <2>1. CASE b > acked
    <3>1. acked' = b
      BY <1>2, <1>5, <2>1
    <3>2. b \notin Range(bookmarks)
      <4> SUFFICES ASSUME NEW k \in 1 .. n, b = bookmarks[k]
                   PROVE  FALSE
        BY <1>2 DEF Range, Bookmarks, n
      <4> QED  BY <1>2, <1>6, <1>7, <2>1
    <3>3. Len(bookmarks') = n + 1 - d /\ bookmarks'[n + 1 - d] = b
      <4>1. n + 1 - d \in 1 .. n + 1 - d /\ (n + 1 - d) + d = n + 1
        BY <1>2, <1>7, <1>15
      <4> QED  BY <1>9, <3>2, <4>1
    <3>4. Cardinality(Behind') \in Nat /\ Cardinality(Behind') < Cap
      <4>1. Behind' \subseteq Holding \ {t}
        <5> SUFFICES ASSUME NEW u \in Task \ {t}, Late(u)'
                     PROVE  u \in Holding
          BY <1>13 DEF Behind
        <5>1. pc'[u] = pc[u]
          BY DEF LocalFrame
        <5> QED  BY <5>1 DEF Late, Holding
      <4>2. IsFiniteSet(Holding) /\ t \in Holding
        BY <1>3, FS_Subset DEF Holding
      <4>3. IsFiniteSet(Holding \ {t}) /\ Cardinality(Holding \ {t}) = Cardinality(Holding) - 1
        BY <4>2, FS_RemoveElement
      <4>4. IsFiniteSet(Behind') /\ Cardinality(Behind') <= Cardinality(Holding \ {t})
        BY <4>1, <4>3, FS_Subset
      <4>5. Cardinality(Behind') \in Nat /\ Cardinality(Holding) \in Nat
        BY <4>2, <4>4, FS_CardinalityType
      <4> QED  BY <1>2, <4>3, <4>4, <4>5
    <3>5. n + 1 - d \in 1 .. Len(bookmarks') /\ Len(bookmarks') - (n + 1 - d) = 0
      BY <1>2, <1>7, <1>15, <3>3
    <3>6. (Len(bookmarks') - (n + 1 - d)) + Cardinality(Behind') < Cap
      BY <1>2, <3>4, <3>5
    <3> QED  BY <3>1, <3>3, <3>5, <3>6 DEF Kept
  <2>2. CASE b <= acked /\ acked # 0
    <3>1. acked' = acked
      BY <1>2, <1>5, <2>2
    <3>2. PICK p \in 1 .. n : bookmarks[p] = acked /\ (n - p) + Cardinality(Behind) < Cap
      BY <2>2 DEF Causal, Kept, n
    <3>3. /\ Cardinality(Behind) \in Nat /\ Cardinality(Behind') \in Nat
          /\ Cardinality(Behind') <= Cardinality(Behind)
          /\ \A u \in Behind \ Behind' : Cardinality(Behind') <= Cardinality(Behind) - 1
      BY <1>14, <3>1, FewerBehind
    <3>4. CASE b \in Range(bookmarks)
      <4>1. bookmarks' = bookmarks
        BY <1>8, <3>4
      <4>2. (n - p) + Cardinality(Behind') < Cap
        BY <1>2, <1>7, <3>2, <3>3
      <4> QED  BY <3>1, <3>2, <4>1, <4>2 DEF Kept, n
    <3>5. CASE b \notin Range(bookmarks)
      <4>1. b < acked
        BY <1>2, <1>10, <2>2, <3>2, <3>5
      <4>2. t \in Behind
        BY <1>3, <4>1 DEF Behind, Late, b
      <4>3. Cardinality(Behind') <= Cardinality(Behind) - 1
        BY <1>13, <3>3, <4>2
      <4>4. /\ p - d \in 1 .. n + 1 - d /\ (p - d) + d = p /\ p # n + 1
            /\ (n + 1 - d) - (p - d) = (n - p) + 1
        BY <1>2, <1>7, <1>15, <3>2, <3>3, <4>3
      <4>5. Len(bookmarks') = n + 1 - d /\ bookmarks'[p - d] = acked
        BY <1>9, <3>2, <3>5, <4>4
      <4>6. (Len(bookmarks') - (p - d)) + Cardinality(Behind') < Cap
        BY <1>2, <1>7, <3>2, <3>3, <4>3, <4>4, <4>5
      <4> QED  BY <3>1, <4>4, <4>5, <4>6 DEF Kept
    <3> QED  BY <3>4, <3>5
  <2>3. CASE b <= acked /\ acked = 0
    <3>1. acked' = 0
      BY <1>2, <1>5, <2>3
    <3> QED  BY <3>1 DEF Kept
  <2> QED  BY <1>2, <2>1, <2>2, <2>3
<1>17. acked' <= log'
  BY <1>2, <1>3, <1>5, <1>6
<1> QED  BY <1>11, <1>12, <1>16, <1>17 DEF Causal

\* Whatever the number of tasks: in every behaviour in which at most Cap
\* executes hold a connection at a time (routed.rs checks out at most
\* max_per_host of each server's pool), a transaction's BEGIN sends a bookmark
\* as high as every one an execute had returned Ok with before this one was
\* called, though concurrent commits are merged into the list in any order and
\* the list drops its oldest.
THEOREM CausallyConsistent ==
  ASSUME IsFiniteSet(Task)
  PROVE  Spec => ([](Cardinality(Holding) <= Cap) => []CausalRead)
<1> DEFINE Few == Cardinality(Holding) <= Cap
<1>1. Init => Causal
  <2> SUFFICES ASSUME Init
               PROVE  Causal
    OBVIOUS
  <2>1. acked = 0 /\ log = 0 /\ bookmarks = << >> /\ Kept
    BY DEF Init, Kept
  <2>2. \A t \in Task : Ordered(t)
    BY DEF Init, Ordered
  <2> QED  BY <2>1, <2>2 DEF Causal
<1>2. Inv /\ Inv' /\ Few /\ Causal /\ [Next]_vars => Causal'
  <2> SUFFICES ASSUME Inv, Inv', Few, Causal, [Next]_vars
               PROVE  Causal'
    OBVIOUS
  <2>1. CASE Next
    <3>1. PICK t \in Task : (\E m \in Modes : Execute(t, m)) \/ Progress(t) \/ Dropped(t)
      BY <2>1 DEF Next
    <3>2. LocalFrame(t) /\ HistoryFrame(t)
      BY <3>1, StepGoes DEF Goes
    <3>3. CASE Merge(t)
      BY <3>2, <3>3, MergeKeeps
    <3>4. CASE ~Merge(t)
      BY <3>1, <3>2, <3>4, StepQuiet, QuietKeeps
    <3> QED  BY <3>3, <3>4
  <2>2. CASE UNCHANGED vars
    <3>1. UNCHANGED <<pc, mode, sent, mark, bookmarks, log, acked, past>>
      BY <2>2 DEF vars, shared, history
    <3>2. Behind' = Behind
      BY <3>1 DEF Behind, Late
    <3>3. Kept'
      BY <3>1, <3>2 DEF Causal, Kept
    <3> QED  BY <3>1, <3>3 DEF Causal, Ordered
  <2> QED  BY <2>1, <2>2
<1>3. Causal => CausalRead
  BY DEF Causal, Ordered, CausalRead
<1> HIDE DEF Few
<1>4. Spec => ([]Few => []CausalRead)
  BY <1>1, <1>2, <1>3, InvHolds, PTL DEF Spec
<1> QED  BY <1>4 DEF Few
=============================================================================
