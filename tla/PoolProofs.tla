----------------------------- MODULE PoolProofs -----------------------------
(***************************************************************************)
(* What Pool guarantees for every number of tasks, every max_size and      *)
(* every connect_attempts.                                                 *)
(***************************************************************************)
EXTENDS Pool, FiniteSetTheorems, SequenceTheorems, TLAPS

\* The tasks that have a connection, or are making one.
Owning == {"probing", "minting", "backoff", "using", "pushing"}

\* How many tasks f puts in one of the states S.
CountIn(f, S) == Cardinality({u \in Task : f[u] \in S})

\* The queue holds the waiting tasks, each of them once.
InvQueue ==
  /\ \A u \in Task : pc[u] = "waiting" => \E i \in 1..Len(queue) : queue[i] = u
  /\ \A i \in 1..Len(queue) : pc[queue[i]] = "waiting"
  /\ \A i, j \in 1..Len(queue) : queue[i] = queue[j] => i = j

\* A connection on its way back to the pool is one the pool may keep.
InvPushing == \A u \in Task : pc[u] = "pushing" => is_reusable(conn[u])

\* The inductive invariant.
Inv ==
  /\ TypeOK /\ InvQueue /\ InvPushing
  /\ PermitsConserved /\ SizeBound /\ IdleIsReusable

-----------------------------------------------------------------------------
(* Counting tasks *)

\* The sets counted are finite.
LEMMA CountType ==
  ASSUME NEW f, NEW S
  PROVE  /\ IsFiniteSet({u \in Task : f[u] \in S})
         /\ CountIn(f, S) \in Nat
<1>1. IsFiniteSet({u \in Task : f[u] \in S})
  <2>1. {u \in Task : f[u] \in S} \in SUBSET Task
    OBVIOUS
  <2> QED  BY <2>1, TaskAssumption, FS_Subset
<1> QED  BY <1>1, FS_CardinalityType DEF CountIn

\* A task that moves is counted where it goes and no longer where it was.
LEMMA CountMove ==
  ASSUME NEW f, NEW g, NEW S, NEW t \in Task,
         \A u \in Task \ {t} : g[u] = f[u]
  PROVE  CountIn(g, S) = CountIn(f, S) + (IF g[t] \in S THEN 1 ELSE 0)
                                       - (IF f[t] \in S THEN 1 ELSE 0)
<1> DEFINE A == {u \in Task : f[u] \in S}
           B == {u \in Task : g[u] \in S}
<1>1. IsFiniteSet(A) /\ Cardinality(A) \in Nat
  BY CountType DEF CountIn
<1>2. t \in A <=> f[t] \in S
  OBVIOUS
<1>3. CASE g[t] \in S
  <2>1. B = A \union {t}
    BY <1>3
  <2>2. Cardinality(B) = IF t \in A THEN Cardinality(A) ELSE Cardinality(A) + 1
    BY <1>1, <2>1, FS_AddElement, Zenon
  <2> QED  BY <1>1, <1>2, <1>3, <2>2 DEF CountIn
<1>4. CASE g[t] \notin S
  <2>1. B = A \ {t}
    BY <1>4
  <2>2. Cardinality(B) = IF t \in A THEN Cardinality(A) - 1 ELSE Cardinality(A)
    BY <1>1, <2>1, FS_RemoveElement, Zenon
  <2> QED  BY <1>1, <1>2, <1>4, <2>2 DEF CountIn
<1> QED  BY <1>3, <1>4

\* Tasks that are counted before and after, or neither, change no count.
LEMMA CountStay ==
  ASSUME NEW f, NEW g, NEW S, \A u \in Task : g[u] \in S <=> f[u] \in S
  PROVE  CountIn(g, S) = CountIn(f, S)
<1>1. {u \in Task : g[u] \in S} = {u \in Task : f[u] \in S}
  OBVIOUS
<1> QED  BY <1>1 DEF CountIn

\* Those who own a connection hold a permit.
LEMMA OwningHold ==
  ASSUME NEW f
  PROVE  CountIn(f, Owning) <= CountIn(f, Holding)
<1> DEFINE A == {u \in Task : f[u] \in Owning}
           B == {u \in Task : f[u] \in Holding}
<1>1. A \in SUBSET B
  BY DEF Owning, Holding
<1>2. IsFiniteSet(B)
  BY CountType
<1> QED  BY <1>1, <1>2, FS_Subset DEF CountIn

\* Slots is a positive number, and a permit count that adds up lies below it.
LEMMA SlotsType ==
  /\ Slots \in Nat /\ Slots >= 1
  /\ Attempts \in Nat /\ Attempts >= 1 /\ ConnectAttempts <= Attempts
  BY ConfigAssumption DEF Slots, Attempts

\* The two counting invariants, in terms of CountIn.
LEMMA Counting ==
  /\ PermitsConserved <=> permits + CountIn(pc, Holding) = Slots
  /\ SizeBound <=> Len(idle) + CountIn(pc, Owning) <= Slots
  BY DEF PermitsConserved, SizeBound, CountIn, Owning

\* The same of the next state.
LEMMA CountingNext ==
  /\ PermitsConserved' <=> permits' + CountIn(pc', Holding) = Slots
  /\ SizeBound' <=> Len(idle') + CountIn(pc', Owning) <= Slots
  BY DEF PermitsConserved, SizeBound, CountIn, Owning

\* What is left of a list when its last element is popped.
LEMMA FrontProperties ==
  ASSUME NEW s \in Seq(ConnStates), Len(s) >= 1
  PROVE  /\ SubSeq(s, 1, Len(s) - 1) \in Seq(ConnStates)
         /\ Len(SubSeq(s, 1, Len(s) - 1)) = Len(s) - 1
         /\ \A i \in 1..(Len(s) - 1) : SubSeq(s, 1, Len(s) - 1)[i] = s[i]
<1> DEFINE n == Len(s)
<1>1. n \in Nat /\ n >= 1
  OBVIOUS
<1>2. \A i \in 1..(n - 1) : s[i] \in ConnStates
  OBVIOUS
<1> HIDE DEF n
<1>3. /\ SubSeq(s, 1, n - 1) \in Seq(ConnStates)
      /\ Len(SubSeq(s, 1, n - 1)) = n - 1
      /\ \A i \in 1..(n - 1) : SubSeq(s, 1, n - 1)[i] = s[i]
  BY <1>1, <1>2
<1> QED  BY <1>3 DEF n

\* What is left of a sequence when one element is taken out of it.
LEMMA RemoveAtProperties ==
  ASSUME NEW T, NEW s \in Seq(T), NEW k \in 1..Len(s)
  PROVE  /\ RemoveAt(s, k) \in Seq(T)
         /\ Len(RemoveAt(s, k)) = Len(s) - 1
         /\ \A i \in 1..(Len(s) - 1) :
              RemoveAt(s, k)[i] = IF i < k THEN s[i] ELSE s[i + 1]
<1> DEFINE a == SubSeq(s, 1, k - 1)
           b == SubSeq(s, k + 1, Len(s))
<1>1. Len(s) \in Nat /\ k \in Int /\ 1 <= k /\ k <= Len(s)
  OBVIOUS
<1>2. a \in Seq(T) /\ Len(a) = k - 1 /\ \A i \in 1..(k - 1) : a[i] = s[i]
  BY <1>1
<1>3. /\ b \in Seq(T) /\ Len(b) = Len(s) - k
      /\ \A i \in 1..(Len(s) - k) : b[i] = s[i + k]
  BY <1>1
<1>4. RemoveAt(s, k) = a \o b
  BY DEF RemoveAt
<1> HIDE DEF a, b
<1>5. /\ a \o b \in Seq(T) /\ Len(a \o b) = Len(s) - 1
      /\ \A i \in 1..(Len(s) - 1) :
           (a \o b)[i] = IF i <= k - 1 THEN a[i] ELSE b[i - (k - 1)]
  <2>1. /\ a \o b \in Seq(T)
        /\ Len(a \o b) = Len(a) + Len(b)
        /\ \A i \in 1 .. Len(a) + Len(b) :
             (a \o b)[i] = IF i <= Len(a) THEN a[i] ELSE b[i - Len(a)]
    BY <1>2, <1>3, ConcatProperties, Zenon
  <2>2. Len(a) + Len(b) = Len(s) - 1
    BY <1>1, <1>2, <1>3
  <2> QED  BY <1>2, <2>1, <2>2
<1>6. ASSUME NEW i \in 1..(Len(s) - 1)
      PROVE  (a \o b)[i] = IF i < k THEN s[i] ELSE s[i + 1]
  <2>1. CASE i < k
    BY <1>1, <1>2, <1>5, <2>1
  <2>2. CASE ~(i < k)
    <3>1. i - (k - 1) \in 1..(Len(s) - k) /\ (i - (k - 1)) + k = i + 1
      BY <1>1, <2>2
    <3> QED  BY <1>1, <1>3, <1>5, <2>2, <3>1
  <2> QED  BY <2>1, <2>2
<1> QED  BY <1>4, <1>5, <1>6

-----------------------------------------------------------------------------
(* Moving from one place in the code to another *)

\* A task that neither enters nor leaves the queue.
LEMMA MoveKeeps ==
  ASSUME Inv, NEW t \in Task, pc[t] # "waiting",
         NEW p \in Pcs \ {"waiting"}, Goto(t, p), UNCHANGED queue
  PROVE  /\ pc' \in [Task -> Pcs] /\ pc'[t] = p
         /\ \A u \in Task \ {t} : pc'[u] = pc[u]
         /\ InvQueue'
         /\ CountIn(pc', Holding) = CountIn(pc, Holding)
              + (IF p \in Holding THEN 1 ELSE 0)
              - (IF pc[t] \in Holding THEN 1 ELSE 0)
         /\ CountIn(pc', Owning) = CountIn(pc, Owning)
              + (IF p \in Owning THEN 1 ELSE 0)
              - (IF pc[t] \in Owning THEN 1 ELSE 0)
<1>1. pc' = [pc EXCEPT ![t] = p] /\ pc \in [Task -> Pcs] /\ queue \in Seq(Task)
  BY DEF Inv, TypeOK, Goto
<1>2. /\ pc' \in [Task -> Pcs] /\ pc'[t] = p
      /\ \A u \in Task \ {t} : pc'[u] = pc[u]
  BY <1>1
<1>3. InvQueue'
  <2>1. \A i \in 1..Len(queue) : queue[i] \in Task /\ queue[i] # t
    BY <1>1 DEF Inv, InvQueue
  <2> QED  BY <1>1, <1>2, <2>1 DEF Inv, InvQueue
<1> QED  BY <1>2, <1>3, CountMove

\* A task that joins the queue.
LEMMA WaitKeeps ==
  ASSUME Inv, NEW t \in Task, pc[t] = "out",
         Goto(t, "waiting"), queue' = Append(queue, t)
  PROVE  /\ pc' \in [Task -> Pcs] /\ pc'[t] = "waiting"
         /\ \A u \in Task \ {t} : pc'[u] = pc[u]
         /\ queue' \in Seq(Task) /\ InvQueue'
         /\ CountIn(pc', Holding) = CountIn(pc, Holding)
         /\ CountIn(pc', Owning) = CountIn(pc, Owning)
<1>1. /\ pc' = [pc EXCEPT ![t] = "waiting"] /\ pc \in [Task -> Pcs]
      /\ queue \in Seq(Task) /\ DOMAIN pc = Task
  BY DEF Inv, TypeOK, Goto
<1>2. /\ pc' \in [Task -> Pcs] /\ pc'[t] = "waiting"
      /\ \A u \in Task \ {t} : pc'[u] = pc[u]
  BY <1>1 DEF Pcs
<1>3. /\ queue' \in Seq(Task) /\ Len(queue') = Len(queue) + 1
      /\ \A i \in 1..Len(queue) : queue'[i] = queue[i]
      /\ queue'[Len(queue) + 1] = t
      /\ Len(queue) \in Nat
  BY <1>1
<1>4. \A i \in 1..Len(queue) : queue[i] \in Task /\ queue[i] # t
  BY <1>1 DEF Inv, InvQueue
<1>5. InvQueue'
  <2>1. ASSUME NEW u \in Task, pc'[u] = "waiting"
        PROVE  \E i \in 1..Len(queue') : queue'[i] = u
    <3>1. CASE u = t
      BY <1>3, <3>1
    <3>2. CASE u # t
      <4>1. PICK i \in 1..Len(queue) : queue[i] = u
        BY <1>2, <2>1, <3>2 DEF Inv, InvQueue
      <4>2. i \in 1..Len(queue')
        BY <1>3
      <4> QED  BY <1>3, <4>1, <4>2
    <3> QED  BY <3>1, <3>2
  <2>2. ASSUME NEW i \in 1..Len(queue')
        PROVE  pc'[queue'[i]] = "waiting"
    BY <1>2, <1>3, <1>4 DEF Inv, InvQueue
  <2>3. ASSUME NEW i \in 1..Len(queue'), NEW j \in 1..Len(queue'),
               queue'[i] = queue'[j]
        PROVE  i = j
    BY <1>3, <1>4, <2>3 DEF Inv, InvQueue
  <2> QED  BY <2>1, <2>2, <2>3 DEF InvQueue
<1>6. \A u \in Task : /\ pc'[u] \in Holding <=> pc[u] \in Holding
                      /\ pc'[u] \in Owning <=> pc[u] \in Owning
  BY <1>1, <1>2 DEF Holding, Owning
<1>7. /\ CountIn(pc', Holding) = CountIn(pc, Holding)
      /\ CountIn(pc', Owning) = CountIn(pc, Owning)
  BY <1>6, CountStay
<1> QED  BY <1>2, <1>3, <1>5, <1>7

\* A task that takes itself out of the queue.
LEMMA LeaveKeeps ==
  ASSUME Inv, NEW t \in Task, LeaveQueue(t)
  PROVE  /\ pc' \in [Task -> Pcs] /\ pc'[t] = "out"
         /\ \A u \in Task \ {t} : pc'[u] = pc[u]
         /\ queue' \in Seq(Task) /\ InvQueue' /\ permits' = permits
         /\ CountIn(pc', Holding) = CountIn(pc, Holding)
         /\ CountIn(pc', Owning) = CountIn(pc, Owning)
<1>1. /\ pc' = [pc EXCEPT ![t] = "out"] /\ pc \in [Task -> Pcs]
      /\ queue \in Seq(Task) /\ DOMAIN pc = Task /\ pc[t] = "waiting"
      /\ permits' = permits
  BY DEF Inv, TypeOK, Goto, LeaveQueue
<1>2. /\ pc' \in [Task -> Pcs] /\ pc'[t] = "out"
      /\ \A u \in Task \ {t} : pc'[u] = pc[u]
  BY <1>1 DEF Pcs
<1>3. PICK k \in 1..Len(queue) : queue[k] = t /\ queue' = RemoveAt(queue, k)
  BY DEF LeaveQueue
<1>4. /\ queue' \in Seq(Task) /\ Len(queue') = Len(queue) - 1
      /\ \A i \in 1..(Len(queue) - 1) :
           queue'[i] = IF i < k THEN queue[i] ELSE queue[i + 1]
      /\ Len(queue) \in Nat
  <2>1. \A T : \A s \in Seq(T) : \A i \in 1..Len(s) :
          /\ RemoveAt(s, i) \in Seq(T)
          /\ Len(RemoveAt(s, i)) = Len(s) - 1
          /\ \A j \in 1..(Len(s) - 1) :
               RemoveAt(s, i)[j] = IF j < i THEN s[j] ELSE s[j + 1]
    BY RemoveAtProperties
  <2> QED  BY <1>1, <1>3, <2>1
<1>5. InvQueue'
  <2>1. ASSUME NEW u \in Task, pc'[u] = "waiting"
        PROVE  \E i \in 1..Len(queue') : queue'[i] = u
    <3>1. u # t /\ pc[u] = "waiting"
      BY <1>2, <2>1
    <3>2. PICK i \in 1..Len(queue) : queue[i] = u
      BY <3>1 DEF Inv, InvQueue
    <3>3. CASE i < k
      BY <1>3, <1>4, <3>2, <3>3
    <3>4. CASE i > k
      <4>1. i - 1 \in 1..Len(queue') /\ ~(i - 1 < k) /\ (i - 1) + 1 = i
        BY <1>4, <3>4
      <4> QED  BY <1>4, <3>2, <4>1
    <3> QED  BY <1>3, <3>1, <3>2, <3>3, <3>4
  <2>2. ASSUME NEW i \in 1..Len(queue')
        PROVE  pc'[queue'[i]] = "waiting"
    <3>1. PICK m \in 1..Len(queue) : m # k /\ queue'[i] = queue[m]
      BY <1>3, <1>4
    <3>2. queue[m] \in Task /\ queue[m] # t /\ pc[queue[m]] = "waiting"
      BY <1>1, <1>3, <3>1 DEF Inv, InvQueue
    <3> QED  BY <1>2, <3>1, <3>2
  <2>3. ASSUME NEW i \in 1..Len(queue'), NEW j \in 1..Len(queue'),
               queue'[i] = queue'[j]
        PROVE  i = j
    <3> DEFINE m == IF i < k THEN i ELSE i + 1
               n == IF j < k THEN j ELSE j + 1
    <3>1. /\ m \in 1..Len(queue) /\ n \in 1..Len(queue)
          /\ queue'[i] = queue[m] /\ queue'[j] = queue[n]
      BY <1>3, <1>4
    <3>2. i \in Int /\ j \in Int /\ k \in Int
      BY <1>4
    <3> HIDE DEF m, n
    <3>3. m = n
      BY <2>3, <3>1 DEF Inv, InvQueue
    <3> QED  BY <3>2, <3>3 DEF m, n
  <2> QED  BY <2>1, <2>2, <2>3 DEF InvQueue
<1>6. \A u \in Task : /\ pc'[u] \in Holding <=> pc[u] \in Holding
                      /\ pc'[u] \in Owning <=> pc[u] \in Owning
  BY <1>1, <1>2 DEF Holding, Owning
<1>7. /\ CountIn(pc', Holding) = CountIn(pc, Holding)
      /\ CountIn(pc', Owning) = CountIn(pc, Owning)
  BY <1>6, CountStay
<1> QED  BY <1>1, <1>2, <1>4, <1>5, <1>7

\* A permit that comes free is counted as free, or held by the head of the
\* queue; nobody else moves.
LEMMA ReleaseKeeps ==
  ASSUME Inv, NEW t \in Task, pc[t] \in {"granted", "freeing"}, Release(t)
  PROVE  /\ pc' \in [Task -> Pcs] /\ queue' \in Seq(Task) /\ InvQueue'
         /\ \A u \in Task : pc'[u] \in {pc[u], "out", "granted"}
         /\ permits' \in 0..Slots
         /\ permits' + CountIn(pc', Holding) = Slots
         /\ CountIn(pc', Owning) = CountIn(pc, Owning)
<1>1. /\ pc \in [Task -> Pcs] /\ queue \in Seq(Task) /\ permits \in 0..Slots
      /\ Slots \in Nat
      /\ permits + CountIn(pc, Holding) = Slots
      /\ CountIn(pc, Holding) \in Nat /\ CountIn(pc', Holding) \in Nat
  BY Counting, CountType, SlotsType DEF Inv, TypeOK
<1>2. pc[t] \in Holding /\ "out" \notin Holding /\ "granted" \in Holding
      /\ pc[t] # "waiting" /\ "out" \in Pcs \ {"waiting"} /\ "granted" \in Pcs
      /\ "waiting" \notin Holding
  BY DEF Holding, Pcs
<1>3. CASE queue = << >> \/ closed
  <2>1. permits' = permits + 1 /\ Goto(t, "out") /\ UNCHANGED queue
    BY <1>3 DEF Release
  <2>2. /\ pc' \in [Task -> Pcs] /\ pc'[t] = "out" /\ InvQueue'
        /\ \A u \in Task \ {t} : pc'[u] = pc[u]
        /\ CountIn(pc', Holding) = CountIn(pc, Holding)
              + (IF "out" \in Holding THEN 1 ELSE 0)
              - (IF pc[t] \in Holding THEN 1 ELSE 0)
    BY <1>2, <2>1, MoveKeeps
  <2>3. \A u \in Task : pc'[u] \in Owning <=> pc[u] \in Owning
    BY <2>2 DEF Owning
  <2>4. CountIn(pc', Owning) = CountIn(pc, Owning)
    BY <2>3, CountStay
  <2>5. CountIn(pc', Holding) = CountIn(pc, Holding) - 1
    BY <1>1, <1>2, <2>2
  <2> QED  BY <1>1, <2>1, <2>2, <2>4, <2>5
<1>4. CASE ~(queue = << >> \/ closed)
  <2> DEFINE h == queue[1]
             f == [pc EXCEPT ![t] = "out"]
  <2>1. /\ pc' = [pc EXCEPT ![t] = "out", ![Head(queue)] = "granted"]
        /\ queue' = Tail(queue) /\ permits' = permits
    BY <1>4 DEF Release
  <2>2. /\ Len(queue) \in Nat /\ Len(queue) >= 1 /\ Head(queue) = h
        /\ queue' \in Seq(Task) /\ Len(queue') = Len(queue) - 1
        /\ \A i \in 1..(Len(queue) - 1) : queue'[i] = queue[i + 1]
    BY <1>1, <1>4, <2>1
  <2>3. h \in Task /\ pc[h] = "waiting" /\ h # t
    BY <1>1, <1>2, <2>2 DEF Inv, InvQueue
  <2>4. /\ pc' \in [Task -> Pcs] /\ pc'[t] = "out" /\ pc'[h] = "granted"
        /\ \A u \in Task \ {t, h} : pc'[u] = pc[u]
    BY <1>1, <1>2, <2>1, <2>2, <2>3
  <2>5. f[h] = "waiting" /\ f[t] = "out" /\ \A u \in Task \ {t} : f[u] = pc[u]
    BY <1>1, <2>3
  <2> HIDE DEF f, h
  <2>6. CountIn(f, Holding) = CountIn(pc, Holding)
              + (IF f[t] \in Holding THEN 1 ELSE 0)
              - (IF pc[t] \in Holding THEN 1 ELSE 0)
    BY <2>5, CountMove
  <2>7. CountIn(pc', Holding) = CountIn(f, Holding)
              + (IF pc'[h] \in Holding THEN 1 ELSE 0)
              - (IF f[h] \in Holding THEN 1 ELSE 0)
    <3>1. \A u \in Task \ {h} : pc'[u] = f[u]
      BY <2>4, <2>5
    <3> QED  BY <2>3, <3>1, CountMove
  <2>8. CountIn(pc', Holding) = CountIn(pc, Holding)
    BY <1>1, <1>2, <2>4, <2>5, <2>6, <2>7
  <2>9. \A u \in Task : pc'[u] \in Owning <=> pc[u] \in Owning
    BY <2>3, <2>4 DEF Owning
  <2>10. CountIn(pc', Owning) = CountIn(pc, Owning)
    BY <2>9, CountStay
  <2>11. InvQueue'
    <3>1. ASSUME NEW u \in Task, pc'[u] = "waiting"
          PROVE  \E i \in 1..Len(queue') : queue'[i] = u
      <4>1. u # t /\ u # h /\ pc[u] = "waiting"
        BY <2>4, <3>1
      <4>2. PICK i \in 1..Len(queue) : queue[i] = u
        BY <4>1 DEF Inv, InvQueue
      <4>3. i - 1 \in 1..Len(queue') /\ (i - 1) + 1 = i
        BY <2>2, <4>1, <4>2 DEF h
      <4> QED  BY <2>2, <4>2, <4>3
    <3>2. ASSUME NEW i \in 1..Len(queue')
          PROVE  pc'[queue'[i]] = "waiting"
      <4>1. i + 1 \in 1..Len(queue) /\ 1 \in 1..Len(queue) /\ i + 1 # 1
            /\ queue'[i] = queue[i + 1]
        BY <2>2
      <4>2. pc[queue[i + 1]] = "waiting" /\ queue[i + 1] # h
            /\ queue[i + 1] # t /\ queue[i + 1] \in Task
        BY <1>1, <1>2, <4>1 DEF Inv, InvQueue, h
      <4> QED  BY <2>4, <4>1, <4>2
    <3>3. ASSUME NEW i \in 1..Len(queue'), NEW j \in 1..Len(queue'),
                 queue'[i] = queue'[j]
          PROVE  i = j
      <4>1. /\ i + 1 \in 1..Len(queue) /\ j + 1 \in 1..Len(queue)
            /\ queue[i + 1] = queue[j + 1]
        BY <2>2, <3>3
      <4>2. i + 1 = j + 1
        BY <4>1 DEF Inv, InvQueue
      <4> QED  BY <2>2, <4>2
    <3> QED  BY <3>1, <3>2, <3>3 DEF InvQueue
  <2>12. \A u \in Task : pc'[u] \in {pc[u], "out", "granted"}
    BY <2>3, <2>4
  <2> QED  BY <1>1, <2>1, <2>2, <2>4, <2>8, <2>10, <2>11, <2>12
<1> QED  BY <1>3, <1>4

-----------------------------------------------------------------------------
(* Steps *)

\* What the steps that leave the idle list and the other fields alone preserve,
\* once the semaphore's part of the invariant is known.
LEMMA SemaphoreStep ==
  ASSUME Inv,
         pc' \in [Task -> Pcs], queue' \in Seq(Task), InvQueue',
         permits' \in 0..Slots, permits' + CountIn(pc', Holding) = Slots,
         CountIn(pc', Owning) = CountIn(pc, Owning),
         \A u \in Task : pc'[u] = "pushing" => pc[u] = "pushing",
         UNCHANGED <<conn, attempt, idle>>,
         closed' \in BOOLEAN, UNCHANGED <<closing, leaving>>
  PROVE  Inv'
<1>1. TypeOK' /\ IdleIsReusable'
  BY DEF Inv, TypeOK, IdleIsReusable
<1>2. InvPushing'
  BY DEF Inv, InvPushing
<1>3. SizeBound'
  BY Counting, CountingNext DEF Inv
<1>4. PermitsConserved'
  BY CountingNext
<1> QED  BY <1>1, <1>2, <1>3, <1>4 DEF Inv

\* What the steps of a task that holds a permit and keeps it preserve.
LEMMA HolderStep ==
  ASSUME Inv, NEW t \in Task, pc[t] \in Holding, NEW p \in Holding,
         Goto(t, p), UNCHANGED <<permits, queue, closed, closing, leaving>>,
         conn' \in [Task -> ConnStates \union {"none"}],
         \A u \in Task \ {t} : conn'[u] = conn[u],
         attempt' \in [Task -> 0..Attempts],
         idle' \in Seq(ConnStates), IdleIsReusable',
         p = "pushing" => is_reusable(conn'[t]),
         Len(idle') + (IF p \in Owning THEN 1 ELSE 0)
             <= Len(idle) + (IF pc[t] \in Owning THEN 1 ELSE 0)
           \/ Len(idle') = 0
  PROVE  Inv'
<1>1. pc[t] # "waiting" /\ p \in Pcs \ {"waiting"}
  BY DEF Holding, Pcs
<1>2. /\ pc' \in [Task -> Pcs] /\ pc'[t] = p /\ InvQueue'
      /\ \A u \in Task \ {t} : pc'[u] = pc[u]
      /\ CountIn(pc', Holding) = CountIn(pc, Holding)
              + (IF p \in Holding THEN 1 ELSE 0)
              - (IF pc[t] \in Holding THEN 1 ELSE 0)
      /\ CountIn(pc', Owning) = CountIn(pc, Owning)
              + (IF p \in Owning THEN 1 ELSE 0)
              - (IF pc[t] \in Owning THEN 1 ELSE 0)
  BY <1>1, MoveKeeps
<1>3. /\ CountIn(pc, Holding) \in Nat /\ CountIn(pc', Owning) \in Nat
      /\ CountIn(pc, Owning) \in Nat
      /\ Slots \in Nat /\ permits \in 0..Slots /\ Len(idle) \in Nat
      /\ Len(idle') \in Nat
      /\ permits + CountIn(pc, Holding) = Slots
      /\ Len(idle) + CountIn(pc, Owning) <= Slots
  <2>1. /\ CountIn(pc, Holding) \in Nat /\ CountIn(pc', Owning) \in Nat
        /\ CountIn(pc, Owning) \in Nat
    BY CountType
  <2>2. /\ permits + CountIn(pc, Holding) = Slots
        /\ Len(idle) + CountIn(pc, Owning) <= Slots
    BY Counting DEF Inv
  <2>3. permits \in 0..Slots /\ Len(idle) \in Nat /\ Len(idle') \in Nat
    BY DEF Inv, TypeOK
  <2> QED  BY <2>1, <2>2, <2>3, SlotsType
<1>4. CountIn(pc', Holding) = CountIn(pc, Holding)
  BY <1>2, <1>3
<1>5. PermitsConserved'
  BY <1>3, <1>4, CountingNext
<1>6. SizeBound'
  <2>1. CASE Len(idle') = 0
    <3>1. CountIn(pc', Owning) <= CountIn(pc', Holding)
      BY OwningHold
    <3>2. Len(idle') + CountIn(pc', Owning) <= Slots
      BY <1>3, <1>4, <2>1, <3>1
    <3> QED  BY <3>2, CountingNext
  <2>2. CASE Len(idle') + (IF p \in Owning THEN 1 ELSE 0)
               <= Len(idle) + (IF pc[t] \in Owning THEN 1 ELSE 0)
    <3>1. Len(idle') + CountIn(pc', Owning) <= Slots
      BY <1>2, <1>3, <2>2
    <3> QED  BY <3>1, CountingNext
  <2> QED  BY <2>1, <2>2
<1>7. TypeOK'
  BY <1>2 DEF Inv, TypeOK
<1>8. InvPushing'
  BY <1>2 DEF Inv, InvPushing
<1> QED  BY <1>2, <1>5, <1>6, <1>7, <1>8 DEF Inv

\* A task that asks for a permit.
LEMMA AcquireStep ==
  ASSUME Inv, NEW t \in Task, Acquire(t)
  PROVE  Inv'
<1>1. /\ pc[t] = "out" /\ pc \in [Task -> Pcs] /\ queue \in Seq(Task)
      /\ permits \in 0..Slots /\ Slots \in Nat /\ closed' \in BOOLEAN
      /\ UNCHANGED <<conn, attempt, idle>> /\ UNCHANGED <<closing, leaving>>
  BY SlotsType DEF Inv, TypeOK, Acquire
<1>2. permits + CountIn(pc, Holding) = Slots /\ CountIn(pc, Holding) \in Nat
  BY Counting, CountType DEF Inv
<1>3. CASE permits > 0
  <2>1. permits' = permits - 1 /\ Goto(t, "popping") /\ UNCHANGED queue
    BY <1>3 DEF Acquire
  <2>2. "popping" \in Pcs \ {"waiting"} /\ "popping" \in Holding
        /\ "out" \notin Holding /\ "popping" \notin Owning /\ "out" \notin Owning
    BY DEF Pcs, Holding, Owning
  <2>3. /\ pc' \in [Task -> Pcs] /\ pc'[t] = "popping" /\ InvQueue'
        /\ \A u \in Task \ {t} : pc'[u] = pc[u]
        /\ CountIn(pc', Holding) = CountIn(pc, Holding)
              + (IF "popping" \in Holding THEN 1 ELSE 0)
              - (IF pc[t] \in Holding THEN 1 ELSE 0)
    BY <1>1, <2>1, <2>2, MoveKeeps
  <2>4. permits' \in 0..Slots /\ permits' + CountIn(pc', Holding) = Slots
    BY <1>1, <1>2, <1>3, <2>1, <2>2, <2>3
  <2>5. \A u \in Task : pc'[u] \in Owning <=> pc[u] \in Owning
    BY <1>1, <2>2, <2>3
  <2>6. CountIn(pc', Owning) = CountIn(pc, Owning)
    BY <2>5, CountStay
  <2>7. \A u \in Task : pc'[u] = "pushing" => pc[u] = "pushing"
    BY <2>3
  <2>8. queue' \in Seq(Task)
    BY <1>1, <2>1
  <2> QED  BY <1>1, <2>3, <2>4, <2>6, <2>7, <2>8, SemaphoreStep
<1>4. CASE ~(permits > 0)
  <2>1. queue' = Append(queue, t) /\ Goto(t, "waiting") /\ permits' = permits
    BY <1>4 DEF Acquire
  <2>2. /\ pc' \in [Task -> Pcs] /\ pc'[t] = "waiting"
        /\ \A u \in Task \ {t} : pc'[u] = pc[u]
        /\ queue' \in Seq(Task) /\ InvQueue'
        /\ CountIn(pc', Holding) = CountIn(pc, Holding)
        /\ CountIn(pc', Owning) = CountIn(pc, Owning)
    BY <1>1, <2>1, WaitKeeps
  <2>3. permits' \in 0..Slots /\ permits' + CountIn(pc', Holding) = Slots
    BY <1>1, <1>2, <2>1, <2>2
  <2>4. \A u \in Task : pc'[u] = "pushing" => pc[u] = "pushing"
    BY <2>2
  <2> QED  BY <1>1, <2>2, <2>3, <2>4, SemaphoreStep
<1> QED  BY <1>3, <1>4

\* A task that gives up its place in the queue.
LEMMA LeaveStep ==
  ASSUME Inv, NEW t \in Task, LeaveQueue(t),
         UNCHANGED <<conn, attempt, closed, idle, closing, leaving>>
  PROVE  Inv'
<1>1. /\ pc' \in [Task -> Pcs] /\ pc'[t] = "out"
      /\ \A u \in Task \ {t} : pc'[u] = pc[u]
      /\ queue' \in Seq(Task) /\ InvQueue' /\ permits' = permits
      /\ CountIn(pc', Holding) = CountIn(pc, Holding)
      /\ CountIn(pc', Owning) = CountIn(pc, Owning)
  BY LeaveKeeps
<1>2. permits' \in 0..Slots /\ permits' + CountIn(pc', Holding) = Slots
  <2>1. permits \in 0..Slots /\ permits + CountIn(pc, Holding) = Slots
    BY Counting DEF Inv, TypeOK
  <2> QED  BY <1>1, <2>1
<1>3. closed' \in BOOLEAN
  BY DEF Inv, TypeOK
<1>4. \A u \in Task : pc'[u] = "pushing" => pc[u] = "pushing"
  BY <1>1
<1> QED  BY <1>1, <1>2, <1>3, <1>4, SemaphoreStep

\* A task that gives up its permit.
LEMMA ReleaseStep ==
  ASSUME Inv, NEW t \in Task, pc[t] \in {"granted", "freeing"}, Release(t),
         UNCHANGED <<conn, attempt, closed, idle, closing, leaving>>
  PROVE  Inv'
<1>1. /\ pc' \in [Task -> Pcs] /\ queue' \in Seq(Task) /\ InvQueue'
      /\ \A u \in Task : pc'[u] \in {pc[u], "out", "granted"}
      /\ permits' \in 0..Slots
      /\ permits' + CountIn(pc', Holding) = Slots
      /\ CountIn(pc', Owning) = CountIn(pc, Owning)
  BY ReleaseKeeps
<1>2. closed' \in BOOLEAN
  BY DEF Inv, TypeOK
<1>3. \A u \in Task : pc'[u] = "pushing" => pc[u] = "pushing"
  BY <1>1
<1> QED  BY <1>1, <1>2, <1>3, SemaphoreStep

\* A task that moves on with its permit and leaves the idle list alone.
LEMMA WorkStep ==
  ASSUME Inv, NEW t \in Task, pc[t] \in Holding, NEW p \in Holding, Goto(t, p),
         UNCHANGED <<permits, queue, closed, idle, closing, leaving>>,
         conn' \in [Task -> ConnStates \union {"none"}],
         \A u \in Task \ {t} : conn'[u] = conn[u],
         attempt' \in [Task -> 0..Attempts],
         p = "pushing" => is_reusable(conn'[t]),
         p \in Owning => pc[t] \in Owning \/ idle = << >>
  PROVE  Inv'
<1>1. idle' \in Seq(ConnStates) /\ IdleIsReusable' /\ Len(idle) \in Nat
      /\ idle' = idle
  BY DEF Inv, TypeOK, IdleIsReusable
<1>2. \/ Len(idle') + (IF p \in Owning THEN 1 ELSE 0)
             <= Len(idle) + (IF pc[t] \in Owning THEN 1 ELSE 0)
      \/ Len(idle') = 0
  <2>1. CASE idle = << >>
    BY <1>1, <2>1
  <2>2. CASE idle # << >>
    BY <1>1, <2>2
  <2> QED  BY <2>1, <2>2
<1> QED  BY <1>1, <1>2, HolderStep

\* checkout and mint, from the permit to the connection.
LEMMA CheckoutStep ==
  ASSUME Inv, NEW t \in Task, Checkout(t)
  PROVE  Inv'
<1>1. /\ pc \in [Task -> Pcs] /\ conn \in [Task -> ConnStates \union {"none"}]
      /\ attempt \in [Task -> 0..Attempts] /\ idle \in Seq(ConnStates)
  BY DEF Inv, TypeOK
<1>2. {"granted", "popping", "probing", "minting", "backoff", "using", "freeing"}
        \subseteq Holding
  BY DEF Holding
<1>3. /\ {"probing", "minting", "backoff", "using"} \subseteq Owning
      /\ "popping" \notin Owning /\ "freeing" \notin Owning
  BY DEF Owning
<1>4. {"ready", "dirty", "owed", "broken"} \subseteq ConnStates
  BY DEF ConnStates
<1>5. CASE Granted(t)
  BY <1>1, <1>2, <1>3, <1>5, WorkStep DEF Granted
<1>6. CASE ClosedError(t)
  BY <1>6, LeaveStep, ReleaseStep DEF ClosedError
<1>7. CASE Pop(t)
  <2> DEFINE n == Len(idle)
  <2>1. /\ pc[t] = "popping" /\ n \in Nat /\ n >= 1
        /\ idle' = SubSeq(idle, 1, n - 1) /\ idle[n] \in ConnStates
        /\ attempt' = attempt
        /\ UNCHANGED <<permits, queue, closed, closing, leaving>>
    BY <1>1, <1>7 DEF Pop
  <2>2. /\ idle' \in Seq(ConnStates) /\ Len(idle') = n - 1
        /\ \A i \in 1..(n - 1) : idle'[i] = idle[i]
    BY <1>1, <2>1, FrontProperties
  <2>3. IdleIsReusable'
    BY <2>1, <2>2 DEF Inv, IdleIsReusable
  <2> HIDE DEF n
  <2>4. CASE UNCHANGED <<pc, conn>>
    <3>1. Goto(t, "popping")
      BY <1>1, <2>1, <2>4 DEF Goto
    <3>2. Len(idle') + (IF "popping" \in Owning THEN 1 ELSE 0)
             <= Len(idle) + (IF pc[t] \in Owning THEN 1 ELSE 0)
      BY <1>3, <2>1, <2>2 DEF n
    <3>3. conn' \in [Task -> ConnStates \union {"none"}]
      BY <1>1, <2>4
    <3>4. \A u \in Task \ {t} : conn'[u] = conn[u]
      BY <2>4
    <3> QED  BY <1>1, <1>2, <2>1, <2>2, <2>3, <3>1, <3>2, <3>3, <3>4, HolderStep
  <2>5. CASE /\ is_reusable(idle[Len(idle)])
             /\ Goto(t, "probing")
             /\ conn' = [conn EXCEPT ![t] = idle[Len(idle)]]
    <3>1. Len(idle') + (IF "probing" \in Owning THEN 1 ELSE 0)
             <= Len(idle) + (IF pc[t] \in Owning THEN 1 ELSE 0)
      BY <1>3, <2>1, <2>2 DEF n
    <3>2. conn' \in [Task -> ConnStates \union {"none"}]
      BY <1>1, <2>1, <2>5 DEF n
    <3>3. \A u \in Task \ {t} : conn'[u] = conn[u]
      BY <1>1, <2>5
    <3> QED  BY <1>1, <1>2, <2>1, <2>2, <2>3, <2>5, <3>1, <3>2, <3>3, HolderStep
  <2> QED  BY <1>7, <2>4, <2>5 DEF Pop
<1>8. CASE Probe(t)
  <2>1. /\ conn' \in [Task -> ConnStates \union {"none"}]
        /\ \A u \in Task \ {t} : conn'[u] = conn[u]
        /\ attempt' \in [Task -> 0..Attempts] /\ pc[t] = "probing"
        /\ UNCHANGED <<permits, queue, closed, idle, closing, leaving>>
        /\ Goto(t, "using") \/ Goto(t, "popping")
    BY <1>1, <1>4, <1>8 DEF Probe
  <2> QED  BY <1>2, <1>3, <2>1, WorkStep
<1>9. CASE StartMint(t)
  <2>1. attempt' \in [Task -> 0..Attempts]
    BY <1>1, <1>9, SlotsType DEF StartMint
  <2> QED  BY <1>1, <1>2, <1>9, <2>1, WorkStep DEF StartMint
<1>10. CASE Minted(t)
  <2>1. /\ conn' \in [Task -> ConnStates \union {"none"}]
        /\ \A u \in Task \ {t} : conn'[u] = conn[u]
    BY <1>1, <1>4, <1>10 DEF Minted
  <2> QED  BY <1>1, <1>2, <1>3, <1>10, <2>1, WorkStep DEF Minted
<1>11. CASE MintFails(t)
  BY <1>1, <1>2, <1>3, <1>11, WorkStep DEF MintFails
<1>12. CASE MintRetries(t)
  <2>1. attempt' \in [Task -> 0..Attempts]
    BY <1>1, <1>12, SlotsType, ConfigAssumption DEF MintRetries
  <2> QED  BY <1>1, <1>2, <1>3, <1>12, <2>1, WorkStep DEF MintRetries
<1>13. CASE BackoffOver(t)
  BY <1>1, <1>2, <1>3, <1>13, WorkStep DEF BackoffOver
<1> QED  BY <1>5, <1>6, <1>7, <1>8, <1>9, <1>10, <1>11, <1>12, <1>13 DEF Checkout

\* A checkout that is given up, wherever it is.
LEMMA GiveUpStep ==
  ASSUME Inv, NEW t \in Task, GiveUp(t)
  PROVE  Inv'
<1>1. CASE LeaveQueue(t) /\ UNCHANGED conn
  BY <1>1, LeaveStep DEF GiveUp
<1>2. CASE pc[t] = "granted" /\ Release(t) /\ UNCHANGED conn
  BY <1>2, ReleaseStep DEF GiveUp
<1>3. CASE /\ pc[t] \in {"probing", "minting", "backoff"}
           /\ Goto(t, "freeing")
           /\ conn' = [conn EXCEPT ![t] = "none"]
           /\ UNCHANGED <<permits, queue>>
  <2>1. /\ conn' \in [Task -> ConnStates \union {"none"}]
        /\ \A u \in Task \ {t} : conn'[u] = conn[u]
        /\ attempt' \in [Task -> 0..Attempts]
    BY <1>3 DEF GiveUp, Inv, TypeOK
  <2>2. pc[t] \in Holding /\ "freeing" \in Holding /\ "freeing" \notin Owning
    BY <1>3 DEF Holding, Owning
  <2> QED  BY <1>3, <2>1, <2>2, WorkStep DEF GiveUp
<1> QED  BY <1>1, <1>2, <1>3 DEF GiveUp

\* The connection is used.
LEMMA UseStep ==
  ASSUME Inv, NEW t \in Task, Use(t)
  PROVE  Inv'
<1>1. Goto(t, "using")
  BY DEF Use, Goto, Inv, TypeOK
<1>2. /\ conn' \in [Task -> ConnStates \union {"none"}]
      /\ \A u \in Task \ {t} : conn'[u] = conn[u]
      /\ attempt' \in [Task -> 0..Attempts]
  BY DEF Use, Inv, TypeOK
<1>3. "using" \in Holding /\ "using" \in Owning
  BY DEF Holding, Owning
<1> QED  BY <1>1, <1>2, <1>3, WorkStep DEF Use

\* It comes back, or goes.
LEMMA ReturnStep ==
  ASSUME Inv, NEW t \in Task, Return(t)
  PROVE  Inv'
<1>1. /\ pc \in [Task -> Pcs] /\ conn \in [Task -> ConnStates \union {"none"}]
      /\ attempt \in [Task -> 0..Attempts] /\ idle \in Seq(ConnStates)
  BY DEF Inv, TypeOK
<1>2. /\ {"using", "pushing", "freeing"} \subseteq Holding
      /\ "using" \in Owning /\ "pushing" \in Owning /\ "freeing" \notin Owning
  BY DEF Holding, Owning
<1>3. CASE Detach(t)
  <2>1. /\ conn' \in [Task -> ConnStates \union {"none"}]
        /\ \A u \in Task \ {t} : conn'[u] = conn[u]
    BY <1>1, <1>3 DEF Detach
  <2> QED  BY <1>1, <1>2, <1>3, <2>1, WorkStep DEF Detach
<1>4. CASE Drop(t)
  <2>1. CASE is_reusable(conn[t]) /\ ~closed
    <3>1. Goto(t, "pushing") /\ conn' = conn /\ is_reusable(conn'[t])
      BY <1>4, <2>1 DEF Drop
    <3> QED  BY <1>1, <1>2, <1>4, <3>1, WorkStep DEF Drop
  <2>2. CASE ~(is_reusable(conn[t]) /\ ~closed)
    <3>1. Goto(t, "freeing") /\ conn' = [conn EXCEPT ![t] = "none"]
      BY <1>4, <2>2 DEF Drop
    <3>2. /\ conn' \in [Task -> ConnStates \union {"none"}]
          /\ \A u \in Task \ {t} : conn'[u] = conn[u]
      BY <1>1, <3>1
    <3> QED  BY <1>1, <1>2, <1>4, <3>1, <3>2, WorkStep DEF Drop
  <2> QED  BY <2>1, <2>2
<1>5. CASE Push(t)
  <2>1. /\ pc[t] = "pushing" /\ Goto(t, "freeing")
        /\ idle' = Append(idle, conn[t]) /\ conn' = [conn EXCEPT ![t] = "none"]
        /\ attempt' \in [Task -> 0..Attempts]
        /\ UNCHANGED <<permits, queue, closed, closing, leaving>>
    BY <1>1, <1>5 DEF Push
  <2>2. is_reusable(conn[t]) /\ conn[t] \in ConnStates
    BY <1>1, <2>1 DEF Inv, InvPushing, is_reusable, ConnStates
  <2>3. /\ idle' \in Seq(ConnStates) /\ Len(idle') = Len(idle) + 1
        /\ Len(idle) \in Nat
        /\ \A i \in 1..Len(idle) : idle'[i] = idle[i]
        /\ idle'[Len(idle) + 1] = conn[t]
    BY <1>1, <2>1, <2>2
  <2>4. IdleIsReusable'
    BY <2>2, <2>3 DEF Inv, IdleIsReusable
  <2>5. /\ conn' \in [Task -> ConnStates \union {"none"}]
        /\ \A u \in Task \ {t} : conn'[u] = conn[u]
    BY <1>1, <2>1
  <2>6. Len(idle') + (IF "freeing" \in Owning THEN 1 ELSE 0)
             <= Len(idle) + (IF pc[t] \in Owning THEN 1 ELSE 0)
    BY <1>2, <2>1, <2>3
  <2>7. idle' \in Seq(ConnStates)
    BY <2>3
  <2> QED  BY <1>2, <2>1, <2>4, <2>5, <2>6, <2>7, HolderStep
<1>6. CASE Free(t)
  BY <1>6, ReleaseStep DEF Free
<1> QED  BY <1>3, <1>4, <1>5, <1>6 DEF Return

\* Pool::close.
LEMMA CloseStep ==
  ASSUME Inv, Close \/ TakeIdle \/ Goodbye
  PROVE  Inv'
<1>1. UNCHANGED <<pc, conn, attempt, permits, queue>>
  BY DEF Close, TakeIdle, Goodbye
<1>2. InvQueue' /\ InvPushing' /\ PermitsConserved'
  BY <1>1 DEF Inv, InvQueue, InvPushing, PermitsConserved
<1>3. << >> \in Seq(ConnStates) /\ Len(idle) \in Nat /\ idle \in Seq(ConnStates)
  BY DEF Inv, TypeOK
<1>4. TypeOK'
  <2>1. /\ closed' \in BOOLEAN /\ idle' \in Seq(ConnStates) /\ leaving' \in Nat
        /\ closing' \in {"no", "take", "goodbye", "done"}
    <3>1. CASE Close
      BY <1>3, <3>1 DEF Inv, TypeOK, Close
    <3>2. CASE TakeIdle
      BY <1>3, <3>2 DEF Inv, TypeOK, TakeIdle
    <3>3. CASE Goodbye
      BY <1>3, <3>3 DEF Inv, TypeOK, Goodbye
    <3> QED  BY <3>1, <3>2, <3>3
  <2> QED  BY <1>1, <2>1 DEF Inv, TypeOK
<1>5. idle' = idle \/ idle' = << >>
  BY DEF Close, TakeIdle, Goodbye
<1>6. IdleIsReusable' /\ Len(idle') <= Len(idle) /\ Len(idle') \in Nat
  BY <1>3, <1>5 DEF Inv, IdleIsReusable
<1>7. SizeBound'
  <2>1. /\ Len(idle) + CountIn(pc, Owning) <= Slots
        /\ CountIn(pc, Owning) \in Nat /\ Slots \in Nat
    BY Counting, CountType, SlotsType DEF Inv
  <2>2. Len(idle') + CountIn(pc', Owning) <= Slots
    BY <1>1, <1>3, <1>6, <2>1
  <2> QED  BY <2>2, CountingNext
<1> QED  BY <1>2, <1>4, <1>6, <1>7 DEF Inv

-----------------------------------------------------------------------------
(* Theorems *)

\* The invariant holds of a pool just built, which has every permit free.
LEMMA InvInit == Init => Inv
<1> SUFFICES ASSUME Init PROVE Inv
  OBVIOUS
<1>1. << >> \in Seq(Task) /\ << >> \in Seq(ConnStates)
  OBVIOUS
<1>2. TypeOK
  <2>1. "out" \in Pcs /\ 0 \in 0..Attempts /\ Slots \in 0..Slots
    BY SlotsType DEF Pcs
  <2> QED  BY <1>1, <2>1 DEF Init, TypeOK
<1>3. InvQueue /\ InvPushing /\ IdleIsReusable
  BY DEF Init, InvQueue, InvPushing, IdleIsReusable
<1>4. {u \in Task : pc[u] \in Holding} = {} /\ {u \in Task : pc[u] \in Owning} = {}
  BY DEF Init, Holding, Owning
<1>5. CountIn(pc, Holding) = 0 /\ CountIn(pc, Owning) = 0
  BY <1>4, FS_EmptySet DEF CountIn
<1>6. PermitsConserved /\ SizeBound
  BY <1>5, SlotsType, Counting DEF Init
<1> QED  BY <1>2, <1>3, <1>6 DEF Inv

\* It is preserved by every step.
LEMMA InvStep == Inv /\ [Next]_vars => Inv'
<1> SUFFICES ASSUME Inv, [Next]_vars PROVE Inv'
  OBVIOUS
<1>1. CASE \E t \in Task : Acquire(t) \/ Checkout(t) \/ GiveUp(t) \/ Use(t) \/ Return(t)
  BY <1>1, AcquireStep, CheckoutStep, GiveUpStep, UseStep, ReturnStep
<1>2. CASE Close \/ TakeIdle \/ Goodbye
  BY <1>2, CloseStep
<1>3. CASE UNCHANGED vars
  BY <1>3 DEF vars, Inv, TypeOK, InvQueue, InvPushing, PermitsConserved,
              SizeBound, IdleIsReusable
<1> QED  BY <1>1, <1>2, <1>3 DEF Next

\* The fields of PoolInner and the tasks' places in get and drop keep their
\* types: in particular the semaphore never has more than max_size permits.
THEOREM Typing == Spec => []TypeOK
<1>1. Inv => TypeOK
  BY DEF Inv
<1> QED  BY <1>1, InvInit, InvStep, PTL DEF Spec

\* Cancelled, timed out, failed and closed checkouts, and every kind of drop,
\* give back exactly the permits they hold, for any number of tasks.
THEOREM PermitsAreConserved == Spec => []PermitsConserved
<1>1. Inv => PermitsConserved
  BY DEF Inv
<1> QED  BY <1>1, InvInit, InvStep, PTL DEF Spec

\* Idle connections, and those a task has, is probing or is making, never exceed
\* max_size: mint starts only when nothing is idle, and a drop pushes its
\* connection while its permit is still taken.
THEOREM SizeIsBounded == Spec => []SizeBound
<1>1. Inv => SizeBound
  BY DEF Inv
<1> QED  BY <1>1, InvInit, InvStep, PTL DEF Spec

\* PooledConnection's drop puts no connection in the idle list that owes a reply
\* or has lost its framing.
THEOREM IdleStaysReusable == Spec => []IdleIsReusable
<1>1. Inv => IdleIsReusable
  BY DEF Inv
<1> QED  BY <1>1, InvInit, InvStep, PTL DEF Spec
=============================================================================
