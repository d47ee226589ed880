-------------------------- MODULE RoutedPoolProofs --------------------------
(***************************************************************************)
(* What RoutedPool guarantees for every cluster, every number of tasks and *)
(* every routing table the routers may answer with.                        *)
(***************************************************************************)
EXTENDS RoutedPool, FiniteSetTheorems, FunctionTheorems, WellFoundedInduction, TLAPS

\* Where a task is at a server of its list.
Trying == {"looking", "waiting", "minting", "evicting"}

\* The servers of its list a task has been at after n turns of the loop.
Turns(t, n) == {addrs[t][((start[t] + j) % Len(addrs[t])) + 1] : j \in 0 .. (n - 1)}

SharedTypes ==
  /\ closed \in BOOLEAN /\ fresh \in BOOLEAN
  /\ table \in RoutingTable
  /\ pools \in [Addr -> PoolId \union {NoPool}]
  /\ shut \subseteq PoolId /\ leaving \subseteq PoolId
  /\ rr \in [Mode -> 0 .. RRModulus - 1]
  /\ closing \in {"no", "drain", "each", "done", "cut"}

LocalTypes ==
  /\ pc \in [Task -> Pcs]
  /\ op \in [Task -> Mode \union {"table", "refresh"}]
  /\ lap \in [Task -> {0, 1}]
  /\ cand \in [Task -> Seq(Addr)]
  /\ ans \in [Task -> RoutingTable]
  /\ addrs \in [Task -> Seq(Addr)]
  /\ start \in [Task -> 0 .. RRModulus - 1]
  /\ i \in [Task -> Nat]
  /\ pool \in [Task -> PoolId \union {NoPool}]
  /\ tried \in [Task -> SUBSET Addr]

\* What the loops of refresh and of acquire rely on, one task at a time: the
\* list of routers is not used up, only acquire gets to the servers, the index
\* is in range, and what was tried is what the loop has passed.
InvLoop(t) ==
  /\ pc[t] = "asking" => cand[t] # << >>
  /\ pc[t] \in Trying \union {"picking"} => op[t] \in Mode
  /\ pc[t] \in Trying => i[t] < Len(addrs[t])
  /\ pc[t] = "looking" => tried[t] = Turns(t, i[t])
  /\ pc[t] \in Trying \ {"looking"} => tried[t] = Turns(t, i[t] + 1)

\* The inductive invariant.
Inv == SharedTypes /\ LocalTypes /\ \A t \in Task : InvLoop(t)

-----------------------------------------------------------------------------
(* Arithmetic of the round robin *)

\* Division with remainder.
LEMMA DivMod ==
  ASSUME NEW a \in Nat, NEW n \in Nat \ {0}
  PROVE  a = n * (a \div n) + (a % n) /\ a \div n \in Int /\ a % n \in 0 .. (n - 1)
  OBVIOUS

\* A positive multiple of n is at least n.
LEMMA Multiple ==
  ASSUME NEW n \in Nat \ {0}, NEW k \in Int, k >= 1
  PROVE  n * k >= n
<1>1. n * (k - 1) >= 0
  OBVIOUS
<1>2. n * k = n * (k - 1) + n
  OBVIOUS
<1> QED  BY <1>1, <1>2

\* The remainder is unique.
LEMMA Remainder ==
  ASSUME NEW n \in Nat \ {0}, NEW q \in Int, NEW p \in Int,
         NEW r \in 0 .. (n - 1), NEW s \in 0 .. (n - 1), n * q + r = n * p + s
  PROVE  r = s
<1>1. n * (q - p) = s - r
  OBVIOUS
<1>2. CASE q - p >= 1
  BY <1>1, <1>2, Multiple
<1>3. CASE p - q >= 1
  <2>1. n * (p - q) = r - s
    OBVIOUS
  <2> QED  BY <1>3, <2>1, Multiple
<1>4. CASE p = q
  BY <1>4
<1> QED  BY <1>2, <1>3, <1>4

\* The place in the list after j turns: ahead of the first, around the end once.
LEMMA Turn ==
  ASSUME NEW a \in Nat, NEW n \in Nat \ {0}, NEW j \in 0 .. (n - 1)
  PROVE  (a + j) % n = IF (a % n) + j < n THEN (a % n) + j ELSE (a % n) + j - n
<1> DEFINE q == a \div n
           r == a % n
           p == (a + j) \div n
           s == (a + j) % n
<1>1. a + j \in Nat
  OBVIOUS
<1>2. a = n * q + r /\ r \in 0 .. (n - 1) /\ q \in Int
  BY DivMod
<1>3. a + j = n * p + s /\ s \in 0 .. (n - 1) /\ p \in Int
  BY <1>1, DivMod
<1> HIDE DEF q, r, p, s
<1>4. CASE r + j < n
  <2>1. n * q + (r + j) = n * p + s
    BY <1>2, <1>3
  <2>2. r + j \in 0 .. (n - 1)
    BY <1>2, <1>4
  <2>3. r + j = s
    BY <1>2, <1>3, <2>1, <2>2, Remainder
  <2> QED  BY <1>4, <2>3 DEF s, r
<1>5. CASE ~(r + j < n)
  <2>1. n * (q + 1) + (r + j - n) = n * p + s
    BY <1>2, <1>3
  <2>2. r + j - n \in 0 .. (n - 1) /\ q + 1 \in Int
    BY <1>2, <1>5
  <2>3. r + j - n = s
    BY <1>2, <1>3, <2>1, <2>2, Remainder
  <2> QED  BY <1>5, <2>3 DEF s, r
<1> QED  BY <1>4, <1>5

\* As many turns as the list is long pass every place of it, wherever the shared
\* cursor made the loop start.
LEMMA FullTurn ==
  ASSUME NEW a \in Nat, NEW n \in Nat \ {0}, NEW k \in 1..n
  PROVE  \E j \in 0 .. (n - 1) : ((a + j) % n) + 1 = k
<1> DEFINE r == a % n
<1>1. r \in 0 .. (n - 1)
  BY DivMod
<1>2. CASE k - 1 >= r
  <2>1. k - 1 - r \in 0 .. (n - 1)
    BY <1>1, <1>2
  <2>2. (a + (k - 1 - r)) % n = IF r + (k - 1 - r) < n THEN r + (k - 1 - r)
                                ELSE r + (k - 1 - r) - n
    BY <2>1, Turn
  <2>3. r + (k - 1 - r) = k - 1 /\ k - 1 < n
    BY <1>1
  <2>4. ((a + (k - 1 - r)) % n) + 1 = k
    BY <2>2, <2>3
  <2> QED  BY <2>1, <2>4
<1>3. CASE k - 1 < r
  <2>1. k - 1 - r + n \in 0 .. (n - 1)
    BY <1>1, <1>3
  <2>2. (a + (k - 1 - r + n)) % n
          = IF r + (k - 1 - r + n) < n THEN r + (k - 1 - r + n)
            ELSE r + (k - 1 - r + n) - n
    BY <2>1, Turn
  <2>3. r + (k - 1 - r + n) = k - 1 + n /\ ~(k - 1 + n < n) /\ (k - 1 + n) - n = k - 1
    BY <1>1
  <2>4. ((a + (k - 1 - r + n)) % n) + 1 = k
    BY <2>2, <2>3
  <2> QED  BY <2>1, <2>4
<1> QED  BY <1>1, <1>2, <1>3

-----------------------------------------------------------------------------
(* Lists and names *)

\* A set of numbers that is not empty has a least one, which Min is.
LEMMA MinIn ==
  ASSUME NEW S \in SUBSET Nat, S # {}
  PROVE  Min(S) \in S
<1>1. PICK x \in S : \A y \in S : ~(<<y, x>> \in OpToRel(<, Nat))
  BY WFMin, NatLessThanWellFounded
<1>2. \A y \in S : ~(y < x)
  BY <1>1 DEF OpToRel
<1>3. \A y \in S : x <= y
  BY <1>2
<1> QED  BY <1>3 DEF Min

\* retain keeps a list of what it was a list of, and loses a.
LEMMA RetainType ==
  ASSUME NEW S, NEW s \in Seq(S), NEW a
  PROVE  /\ retain(s, a) \in Seq(S)
         /\ \A n \in 1..Len(retain(s, a)) : retain(s, a)[n] # a
<1> DEFINE kept    == {k \in 1..Len(s) : s[k] # a}
           upto(k) == {j \in kept : j <= k}
           c       == Cardinality(kept)
           rank    == [k \in kept |-> Cardinality(upto(k))]
           nth(n)  == CHOOSE k \in kept : Cardinality(upto(k)) = n
<1>1. IsFiniteSet(kept) /\ c \in Nat
  <2>1. IsFiniteSet(1..Len(s))
    BY FS_Interval
  <2>2. kept \in SUBSET (1..Len(s))
    OBVIOUS
  <2> QED  BY <2>1, <2>2, FS_Subset, FS_CardinalityType
<1>2. ASSUME NEW k \in kept
      PROVE  IsFiniteSet(upto(k)) /\ Cardinality(upto(k)) \in 1..c
  <2>1. upto(k) \in SUBSET kept /\ k \in upto(k)
    OBVIOUS
  <2> HIDE DEF kept, upto, c
  <2>2. IsFiniteSet(upto(k)) /\ Cardinality(upto(k)) <= Cardinality(kept)
    BY <1>1, <2>1, FS_Subset
  <2>3. Cardinality(upto(k)) \in Nat /\ Cardinality(upto(k)) # 0
    BY <2>1, <2>2, FS_CardinalityType, FS_EmptySet
  <2> QED  BY <1>1, <2>2, <2>3 DEF c
<1>3. ASSUME NEW k \in kept, NEW m \in kept, k < m
      PROVE  Cardinality(upto(k)) < Cardinality(upto(m))
  <2>1. upto(k) \union {m} \in SUBSET upto(m) /\ m \notin upto(k)
    BY <1>3
  <2> HIDE DEF kept, upto
  <2>2. /\ Cardinality(upto(k) \union {m}) = Cardinality(upto(k)) + 1
        /\ IsFiniteSet(upto(k) \union {m})
    BY <1>2, <2>1, FS_AddElement
  <2>3. Cardinality(upto(k) \union {m}) <= Cardinality(upto(m))
    BY <1>2, <2>1, FS_Subset
  <2>4. Cardinality(upto(k)) \in Nat /\ Cardinality(upto(m)) \in Nat
    BY <1>2
  <2> QED  BY <2>2, <2>3, <2>4
<1>4. rank \in Injection(kept, 1..c)
  <2>1. rank \in [kept -> 1..c]
    BY <1>2
  <2>2. ASSUME NEW k \in kept, NEW m \in kept, rank[k] = rank[m]
        PROVE  k = m
    <3>1. k \in Int /\ m \in Int
      OBVIOUS
    <3>2. Cardinality(upto(k)) = Cardinality(upto(m))
      BY <2>2
    <3> HIDE DEF kept, upto, rank, c
    <3>3. Cardinality(upto(k)) \in Nat
      BY <1>1, <1>2
    <3> QED  BY <1>3, <3>1, <3>2, <3>3
  <2> QED  BY <2>1, <2>2 DEF Injection, IsInjective
<1>5. rank \in Surjection(kept, 1..c)
  <2>1. IsFiniteSet(1..c) /\ Cardinality(1..c) = c
    BY <1>1, FS_Interval
  <2> HIDE DEF kept, rank
  <2> QED  BY <1>4, <2>1, FS_Injection DEF c
<1>6. ASSUME NEW n \in 1..c
      PROVE  nth(n) \in kept
  <2>1. PICK k \in kept : rank[k] = n
    BY <1>5 DEF Surjection
  <2>2. Cardinality(upto(k)) = n
    BY <2>1
  <2> HIDE DEF kept, upto
  <2> QED  BY <2>2
<1>7. \A k \in kept : s[k] \in S /\ s[k] # a
  OBVIOUS
<1>8. retain(s, a) = [n \in 1..c |-> s[nth(n)]]
  BY DEF retain
<1> HIDE DEF kept, upto, c, rank, nth
<1>9. [n \in 1..c |-> s[nth(n)]] \in Seq(S) /\ Len([n \in 1..c |-> s[nth(n)]]) = c
  BY <1>1, <1>6, <1>7
<1> QED  BY <1>1, <1>6, <1>7, <1>8, <1>9

\* A table without a server is a table.
LEMMA RemoveType ==
  ASSUME NEW tb \in RoutingTable, NEW a
  PROVE  remove(tb, a) \in RoutingTable
<1>1. /\ retain(tb.routers, a) \in Seq(Addr) /\ retain(tb.readers, a) \in Seq(Addr)
      /\ retain(tb.writers, a) \in Seq(Addr)
  BY RetainType DEF RoutingTable
<1> QED  BY <1>1 DEF remove, RoutingTable

\* The empty table is one, and so is every router's answer.
LEMMA TableTypes ==
  NoTable \in RoutingTable /\ \A rt \in Answers : from_meta(rt) \in RoutingTable
<1>1. << >> \in Seq(Addr)
  OBVIOUS
<1>2. NoTable \in RoutingTable
  BY <1>1 DEF NoTable, RoutingTable
<1>3. \A rt \in Answers : from_meta(rt) \in Tables
  BY DEF Tables
<1> QED  BY <1>2, <1>3, TableAssumption

\* The server the loop is at is one of its list.
LEMMA CurrentIn ==
  ASSUME Inv, NEW t \in Task, pc[t] \in Trying
  PROVE  Current(t) \in Addr
<1>1. /\ addrs[t] \in Seq(Addr) /\ start[t] \in 0 .. RRModulus - 1 /\ i[t] \in Nat
      /\ i[t] < Len(addrs[t]) /\ Len(addrs[t]) \in Nat
  BY DEF Inv, LocalTypes, InvLoop
<1>2. (start[t] + i[t]) \in Nat /\ Len(addrs[t]) \in Nat \ {0}
  BY <1>1, BoundAssumption
<1>3. (start[t] + i[t]) % Len(addrs[t]) \in 0 .. (Len(addrs[t]) - 1)
  BY <1>2, DivMod
<1>4. ((start[t] + i[t]) % Len(addrs[t])) + 1 \in 1 .. Len(addrs[t])
  BY <1>2, <1>3
<1> QED  BY <1>1, <1>4 DEF Current

-----------------------------------------------------------------------------
(* The tasks' side of a step *)

\* A task that moves and leaves the others as they are: what it has to show.
LEMMA LocalMove ==
  ASSUME Inv, NEW t \in Task, LocalTypes',
         \A u \in Task \ {t} : /\ pc'[u] = pc[u] /\ op'[u] = op[u]
                               /\ cand'[u] = cand[u] /\ addrs'[u] = addrs[u]
                               /\ start'[u] = start[u] /\ i'[u] = i[u]
                               /\ tried'[u] = tried[u],
         InvLoop(t)'
  PROVE  \A u \in Task : InvLoop(u)'
<1> SUFFICES ASSUME NEW u \in Task \ {t} PROVE InvLoop(u)'
  OBVIOUS
<1>1. InvLoop(u)
  BY DEF Inv
<1>2. \A n : Turns(u, n)' = Turns(u, n)
  BY DEF Turns
<1> QED  BY <1>1, <1>2 DEF InvLoop

\* A call that is over leaves nothing behind.
LEMMA OverKeeps ==
  ASSUME Inv, NEW t \in Task, Over(t)
  PROVE  LocalTypes' /\ \A u \in Task : InvLoop(u)'
<1>1. /\ << >> \in Seq(Addr) /\ NoTable \in RoutingTable
      /\ 0 \in 0 .. RRModulus - 1 /\ "out" \in Pcs /\ {} \in SUBSET Addr
      /\ NoPool \in PoolId \union {NoPool}
  BY TableTypes, BoundAssumption DEF Pcs
<1>2. LocalTypes'
  BY <1>1 DEF Inv, LocalTypes, Over, Goto
<1>3. \A u \in Task \ {t} :
        /\ pc'[u] = pc[u] /\ op'[u] = op[u] /\ cand'[u] = cand[u]
        /\ addrs'[u] = addrs[u] /\ start'[u] = start[u] /\ i'[u] = i[u]
        /\ tried'[u] = tried[u]
  BY DEF Inv, LocalTypes, Over, Goto
<1>4. pc'[t] = "out"
  BY DEF Inv, LocalTypes, Over, Goto
<1>5. InvLoop(t)'
  BY <1>4 DEF InvLoop, Trying
<1> QED  BY <1>2, <1>3, <1>5, LocalMove

\* A task that is not, after its step, at a server.
LEMMA OutsideKeeps ==
  ASSUME Inv, NEW t \in Task, LocalTypes',
         \A u \in Task \ {t} : /\ pc'[u] = pc[u] /\ op'[u] = op[u]
                               /\ cand'[u] = cand[u],
         UNCHANGED <<addrs, start, i, tried>>,
         pc'[t] \notin Trying,
         pc'[t] = "asking" => cand'[t] # << >>,
         pc'[t] = "picking" => op'[t] \in Mode
  PROVE  \A u \in Task : InvLoop(u)'
<1>1. InvLoop(t)'
  BY DEF InvLoop, Trying
<1> QED  BY <1>1, LocalMove

\* A task that stays at the server it tried.
LEMMA TryingKeeps ==
  ASSUME Inv, NEW t \in Task, pc[t] \in Trying \ {"looking"},
         NEW p \in Trying \ {"looking"}, Goto(t, p),
         UNCHANGED <<op, lap, cand, ans, addrs, start, i, tried>>,
         pool' \in [Task -> PoolId \union {NoPool}]
  PROVE  LocalTypes' /\ \A u \in Task : InvLoop(u)'
<1>1. p \in Pcs /\ pc \in [Task -> Pcs] /\ pc' = [pc EXCEPT ![t] = p]
  BY DEF Inv, LocalTypes, Trying, Pcs, Goto
<1>2. pc' \in [Task -> Pcs] /\ pc'[t] = p /\ \A u \in Task \ {t} : pc'[u] = pc[u]
  BY <1>1
<1>3. LocalTypes'
  BY <1>2 DEF Inv, LocalTypes
<1>4. InvLoop(t)'
  <2>1. InvLoop(t)
    BY DEF Inv
  <2>2. \A n : Turns(t, n)' = Turns(t, n)
    BY DEF Turns
  <2> QED  BY <1>2, <2>1, <2>2 DEF InvLoop, Trying
<1> QED  BY <1>2, <1>3, <1>4, LocalMove

\* The round: a list is read, and the loop is before its first server.
LEMMA PickKeeps ==
  ASSUME Inv, NEW t \in Task, Pick(t)
  PROVE  LocalTypes' /\ \A u \in Task : InvLoop(u)'
<1> DEFINE list == Servers(table, op[t])
<1>1. /\ pc[t] = "picking" /\ op[t] \in Mode /\ pc \in [Task -> Pcs]
      /\ addrs \in [Task -> Seq(Addr)] /\ start \in [Task -> 0 .. RRModulus - 1]
      /\ i \in [Task -> Nat] /\ tried \in [Task -> SUBSET Addr]
      /\ lap \in [Task -> {0, 1}]
      /\ rr[op[t]] \in 0 .. RRModulus - 1 /\ list \in Seq(Addr)
  BY DEF Pick, Inv, InvLoop, LocalTypes, SharedTypes, Servers, RoutingTable
<1>2. {"listing", "failed", "looking"} \subseteq Pcs
      /\ "listing" \notin Trying /\ "failed" \notin Trying /\ "looking" \in Trying
  BY DEF Pcs, Trying
<1> HIDE DEF list
<1>3. CASE list = << >>
  <2>1. /\ NextLap(t)
        /\ UNCHANGED <<op, cand, ans, pool, addrs, start, i, tried>>
    BY <1>3 DEF Pick, list
  <2>2. /\ pc' \in [Task -> Pcs] /\ lap' \in [Task -> {0, 1}]
        /\ pc'[t] \in {"listing", "failed"}
        /\ \A u \in Task \ {t} : pc'[u] = pc[u]
    BY <1>1, <1>2, <2>1 DEF NextLap, Goto
  <2>3. LocalTypes'
    BY <2>1, <2>2 DEF Inv, LocalTypes
  <2> QED  BY <1>2, <2>1, <2>2, <2>3, OutsideKeeps
<1>4. CASE list # << >>
  <2>1. /\ addrs' = [addrs EXCEPT ![t] = list]
        /\ start' = [start EXCEPT ![t] = rr[op[t]]]
        /\ i' = [i EXCEPT ![t] = 0]
        /\ tried' = [tried EXCEPT ![t] = {}]
        /\ pc' = [pc EXCEPT ![t] = "looking"]
        /\ UNCHANGED <<lap, op, cand, ans, pool>>
    BY <1>4 DEF Pick, list, Goto
  <2>2. LocalTypes'
    BY <1>1, <1>2, <2>1 DEF Inv, LocalTypes
  <2>3. \A u \in Task \ {t} :
          /\ pc'[u] = pc[u] /\ op'[u] = op[u] /\ cand'[u] = cand[u]
          /\ addrs'[u] = addrs[u] /\ start'[u] = start[u] /\ i'[u] = i[u]
          /\ tried'[u] = tried[u]
    BY <1>1, <2>1
  <2>4. /\ pc'[t] = "looking" /\ op'[t] \in Mode /\ i'[t] = 0 /\ addrs'[t] = list
        /\ tried'[t] = {}
    BY <1>1, <2>1
  <2>5. Len(list) \in Nat /\ Len(list) > 0
    BY <1>1, <1>4
  <2>6. Turns(t, 0)' = {}
    BY DEF Turns
  <2>7. InvLoop(t)'
    BY <2>4, <2>5, <2>6 DEF InvLoop, Trying
  <2> QED  BY <2>2, <2>3, <2>7, LocalMove
<1> QED  BY <1>3, <1>4

\* One more turn passes one more server.
LEMMA NextTurn ==
  ASSUME NEW t, NEW n \in Nat
  PROVE  Turns(t, n + 1)
           = Turns(t, n) \union {addrs[t][((start[t] + n) % Len(addrs[t])) + 1]}
<1>1. 0 .. ((n + 1) - 1) = (0 .. (n - 1)) \union {n}
  OBVIOUS
<1> QED  BY <1>1 DEF Turns

\* The server the loop is at is called.
LEMMA PoolForKeeps ==
  ASSUME Inv, NEW t \in Task, PoolFor(t)
  PROVE  LocalTypes' /\ \A u \in Task : InvLoop(u)'
<1> DEFINE a == Current(t)
           free == PoolId \ Alive
           p == IF pools[a] = NoPool THEN Min(free) ELSE pools[a]
<1>1. /\ pc[t] = "looking" /\ pc \in [Task -> Pcs] /\ tried \in [Task -> SUBSET Addr]
      /\ pool \in [Task -> PoolId \union {NoPool}]
      /\ pools \in [Addr -> PoolId \union {NoPool}]
      /\ "waiting" \in Pcs /\ "waiting" \in Trying /\ "looking" \in Trying
      /\ i[t] \in Nat
  BY DEF PoolFor, Inv, LocalTypes, SharedTypes, Pcs, Trying
<1>2. a \in Addr
  BY <1>1, CurrentIn
<1>3. /\ pools[a] = NoPool => free # {}
      /\ pool' = [pool EXCEPT ![t] = p]
      /\ tried' = [tried EXCEPT ![t] = @ \union {a}]
      /\ pc' = [pc EXCEPT ![t] = "waiting"]
      /\ UNCHANGED <<op, lap, cand, ans, addrs, start, i>>
  BY DEF PoolFor, Goto
<1>4. p \in PoolId \union {NoPool}
  <2>1. CASE pools[a] = NoPool
    <3>1. free # {} /\ free \in SUBSET Nat
      BY <1>3, <2>1, SetsAssumption DEF PoolId
    <3> HIDE DEF free
    <3>2. Min(free) \in free
      BY <3>1, MinIn
    <3> QED  BY <2>1, <3>2 DEF free
  <2>2. CASE pools[a] # NoPool
    BY <1>1, <1>2, <2>2
  <2> QED  BY <2>1, <2>2
<1> HIDE DEF p, free, a
<1>5. LocalTypes'
  BY <1>1, <1>2, <1>3, <1>4 DEF Inv, LocalTypes
<1>6. \A u \in Task \ {t} :
        /\ pc'[u] = pc[u] /\ op'[u] = op[u] /\ cand'[u] = cand[u]
        /\ addrs'[u] = addrs[u] /\ start'[u] = start[u] /\ i'[u] = i[u]
        /\ tried'[u] = tried[u]
  BY <1>1, <1>3
<1>7. InvLoop(t)'
  <2>1. InvLoop(t)
    BY DEF Inv
  <2>2. pc'[t] = "waiting" /\ tried'[t] = tried[t] \union {a}
    BY <1>1, <1>3
  <2>3. tried[t] = Turns(t, i[t])
    BY <1>1, <2>1 DEF InvLoop
  <2>4. Turns(t, i[t] + 1) = Turns(t, i[t]) \union {a}
    BY <1>1, NextTurn DEF a, Current
  <2>5. Turns(t, i[t] + 1)' = Turns(t, i[t] + 1)
    BY <1>3 DEF Turns
  <2>6. i[t] < Len(addrs[t]) /\ op[t] \in Mode
    BY <1>1, <2>1 DEF InvLoop
  <2> QED  BY <1>3, <2>2, <2>3, <2>4, <2>5, <2>6 DEF InvLoop, Trying
<1> QED  BY <1>5, <1>6, <1>7, LocalMove

\* The next server of the list, or the next lap.
LEMMA EvictKeeps ==
  ASSUME Inv, NEW t \in Task, Evict(t)
  PROVE  LocalTypes' /\ \A u \in Task : InvLoop(u)'
<1>1. /\ pc[t] = "evicting" /\ pc \in [Task -> Pcs] /\ i \in [Task -> Nat]
      /\ lap \in [Task -> {0, 1}] /\ InvLoop(t) /\ Len(addrs[t]) \in Nat
      /\ UNCHANGED <<op, cand, ans, addrs, start, pool, tried>>
  BY DEF Evict, Inv, LocalTypes
<1>2. {"listing", "failed", "looking"} \subseteq Pcs
      /\ "listing" \notin Trying /\ "failed" \notin Trying /\ "looking" \in Trying
      /\ "evicting" \in Trying \ {"looking"}
  BY DEF Pcs, Trying
<1>3. CASE i[t] + 1 < Len(addrs[t])
  <2>1. /\ i' = [i EXCEPT ![t] = @ + 1] /\ pc' = [pc EXCEPT ![t] = "looking"]
        /\ UNCHANGED lap
    BY <1>3 DEF Evict, Goto
  <2>2. LocalTypes'
    BY <1>1, <1>2, <2>1 DEF Inv, LocalTypes
  <2>3. \A u \in Task \ {t} :
          /\ pc'[u] = pc[u] /\ op'[u] = op[u] /\ cand'[u] = cand[u]
          /\ addrs'[u] = addrs[u] /\ start'[u] = start[u] /\ i'[u] = i[u]
          /\ tried'[u] = tried[u]
    BY <1>1, <2>1
  <2>4. pc'[t] = "looking" /\ i'[t] = i[t] + 1
    BY <1>1, <2>1
  <2>5. \A n : Turns(t, n)' = Turns(t, n)
    BY <1>1 DEF Turns
  <2>6. op[t] \in Mode /\ tried[t] = Turns(t, i[t] + 1)
    BY <1>1, <1>2 DEF InvLoop
  <2>7. InvLoop(t)'
    BY <1>1, <1>3, <2>4, <2>5, <2>6 DEF InvLoop, Trying
  <2> QED  BY <2>2, <2>3, <2>7, LocalMove
<1>4. CASE ~(i[t] + 1 < Len(addrs[t]))
  <2>1. NextLap(t) /\ UNCHANGED i
    BY <1>4 DEF Evict
  <2>2. /\ pc' \in [Task -> Pcs] /\ lap' \in [Task -> {0, 1}]
        /\ pc'[t] \in {"listing", "failed"}
        /\ \A u \in Task \ {t} : pc'[u] = pc[u]
    BY <1>1, <1>2, <2>1 DEF NextLap, Goto
  <2>3. LocalTypes'
    BY <1>1, <2>1, <2>2 DEF Inv, LocalTypes
  <2> QED  BY <1>1, <1>2, <2>1, <2>2, <2>3, OutsideKeeps
<1> QED  BY <1>3, <1>4

\* Before the servers: the look at the table and the routers' answers.
LEMMA TableKeeps ==
  ASSUME Inv, NEW t \in Task,
         \/ \E o \in Calls : Begin(t, o)
         \/ EnsureFresh(t) \/ ListRouters(t) \/ RouteFails(t) \/ Store(t)
         \/ \E rt \in Answers : RouteAnswers(t, rt)
  PROVE  LocalTypes' /\ \A u \in Task : InvLoop(u)'
<1>1. /\ pc \in [Task -> Pcs] /\ op \in [Task -> Mode \union {"table", "refresh"}]
      /\ cand \in [Task -> Seq(Addr)] /\ ans \in [Task -> RoutingTable]
  BY DEF Inv, LocalTypes
<1>2. /\ {"ensuring", "listing", "asking", "storing", "picking"} \subseteq Pcs
      /\ {"ensuring", "listing", "asking", "storing", "picking"} \cap Trying = {}
  BY DEF Pcs, Trying
<1>3. ASSUME NEW o \in Calls, Begin(t, o)
      PROVE  LocalTypes' /\ \A u \in Task : InvLoop(u)'
  <2>1. /\ op' = [op EXCEPT ![t] = o]
        /\ \/ pc' = [pc EXCEPT ![t] = "listing"]
           \/ pc' = [pc EXCEPT ![t] = "ensuring"]
        /\ UNCHANGED <<lap, cand, ans, addrs, start, i, pool, tried>>
        /\ o \in Mode \union {"table", "refresh"}
    BY <1>3, CallsAssumption DEF Begin, Goto, Mode
  <2>2. /\ op' \in [Task -> Mode \union {"table", "refresh"}] /\ pc' \in [Task -> Pcs]
        /\ pc'[t] \in {"listing", "ensuring"}
        /\ \A u \in Task \ {t} : pc'[u] = pc[u] /\ op'[u] = op[u] /\ cand'[u] = cand[u]
    BY <1>1, <1>2, <2>1
  <2>3. LocalTypes'
    BY <2>1, <2>2 DEF Inv, LocalTypes
  <2> QED  BY <1>2, <2>1, <2>2, <2>3, OutsideKeeps
<1>4. CASE EnsureFresh(t)
  <2>1. CASE Over(t)
    BY <2>1, OverKeeps
  <2>2. CASE ~Over(t)
    <3>1. /\ \/ fresh /\ op[t] \in Mode /\ pc' = [pc EXCEPT ![t] = "picking"]
             \/ pc' = [pc EXCEPT ![t] = "listing"]
          /\ UNCHANGED <<op, lap, cand, ans, addrs, start, i, pool, tried>>
      BY <1>4, <2>2 DEF EnsureFresh, Goto
    <3>2. /\ pc' \in [Task -> Pcs] /\ pc'[t] \in {"listing", "picking"}
          /\ pc'[t] = "picking" => op'[t] \in Mode
          /\ \A u \in Task \ {t} : pc'[u] = pc[u] /\ op'[u] = op[u] /\ cand'[u] = cand[u]
      BY <1>1, <1>2, <3>1
    <3>3. LocalTypes'
      BY <3>1, <3>2 DEF Inv, LocalTypes
    <3> QED  BY <1>2, <3>1, <3>2, <3>3, OutsideKeeps
  <2> QED  BY <2>1, <2>2
<1>5. CASE ListRouters(t)
  <2> DEFINE all == table.routers \o Seeds
  <2>1. CASE all = << >>
    BY <1>5, <2>1, OverKeeps DEF ListRouters
  <2>2. CASE all # << >>
    <3>1. all \in Seq(Addr)
      BY TableAssumption DEF Inv, SharedTypes, RoutingTable
    <3>2. /\ cand' = [cand EXCEPT ![t] = all] /\ pc' = [pc EXCEPT ![t] = "asking"]
          /\ UNCHANGED <<op, lap, ans, addrs, start, i, pool, tried>>
      BY <1>5, <2>2 DEF ListRouters, Goto
    <3> HIDE DEF all
    <3>3. /\ pc' \in [Task -> Pcs] /\ cand' \in [Task -> Seq(Addr)]
          /\ pc'[t] = "asking" /\ cand'[t] = all
          /\ \A u \in Task \ {t} : pc'[u] = pc[u] /\ op'[u] = op[u] /\ cand'[u] = cand[u]
      BY <1>1, <1>2, <3>1, <3>2
    <3>4. LocalTypes'
      BY <3>2, <3>3 DEF Inv, LocalTypes
    <3> QED  BY <1>2, <2>2, <3>2, <3>3, <3>4, OutsideKeeps
  <2> QED  BY <2>1, <2>2
<1>6. CASE RouteFails(t)
  <2>1. CASE Len(cand[t]) = 1
    BY <1>6, <2>1, OverKeeps DEF RouteFails
  <2>2. CASE Len(cand[t]) # 1
    <3>1. cand[t] \in Seq(Addr) /\ cand[t] # << >> /\ pc[t] = "asking"
      BY <1>1, <1>6 DEF RouteFails, Inv, InvLoop
    <3>2. Tail(cand[t]) \in Seq(Addr) /\ Tail(cand[t]) # << >>
      <4>1. Tail(cand[t]) \in Seq(Addr) /\ Len(Tail(cand[t])) = Len(cand[t]) - 1
        BY <3>1
      <4>2. Len(cand[t]) \in Nat /\ Len(cand[t]) # 0
        BY <3>1
      <4>3. Len(Tail(cand[t])) # 0
        BY <2>2, <4>1, <4>2
      <4>4. Len(<< >>) = 0
        OBVIOUS
      <4>5. Tail(cand[t]) # << >>
        BY <4>3, <4>4, Zenon
      <4> QED  BY <4>1, <4>5, Zenon
    <3>3. /\ cand' = [cand EXCEPT ![t] = Tail(@)]
          /\ UNCHANGED <<pc, op, lap, ans, addrs, start, i, pool, tried>>
      BY <1>6, <2>2 DEF RouteFails
    <3>4. /\ cand' \in [Task -> Seq(Addr)] /\ cand'[t] # << >>
          /\ \A u \in Task \ {t} : pc'[u] = pc[u] /\ op'[u] = op[u] /\ cand'[u] = cand[u]
      BY <1>1, <3>2, <3>3
    <3>5. LocalTypes'
      BY <3>3, <3>4 DEF Inv, LocalTypes
    <3> QED  BY <1>2, <3>1, <3>3, <3>4, <3>5, OutsideKeeps
  <2> QED  BY <2>1, <2>2
<1>7. ASSUME NEW rt \in Answers, RouteAnswers(t, rt)
      PROVE  LocalTypes' /\ \A u \in Task : InvLoop(u)'
  <2>1. /\ ans' = [ans EXCEPT ![t] = from_meta(rt)]
        /\ cand' = [cand EXCEPT ![t] = << >>]
        /\ pc' = [pc EXCEPT ![t] = "storing"]
        /\ UNCHANGED <<op, lap, addrs, start, i, pool, tried>>
    BY <1>7 DEF RouteAnswers, Goto
  <2>2. from_meta(rt) \in RoutingTable /\ << >> \in Seq(Addr)
    BY TableTypes
  <2>3. /\ pc' \in [Task -> Pcs] /\ cand' \in [Task -> Seq(Addr)]
        /\ ans' \in [Task -> RoutingTable] /\ pc'[t] = "storing"
        /\ \A u \in Task \ {t} : pc'[u] = pc[u] /\ op'[u] = op[u] /\ cand'[u] = cand[u]
    BY <1>1, <1>2, <2>1, <2>2
  <2>4. LocalTypes'
    BY <2>1, <2>3 DEF Inv, LocalTypes
  <2> QED  BY <1>2, <2>1, <2>3, <2>4, OutsideKeeps
<1>8. CASE Store(t)
  <2>1. CASE op[t] \in Mode
    <3>1. /\ ans' = [ans EXCEPT ![t] = NoTable] /\ pc' = [pc EXCEPT ![t] = "picking"]
          /\ UNCHANGED <<op, lap, cand, addrs, start, i, pool, tried>>
      BY <1>8, <2>1 DEF Store, Goto
    <3>2. /\ pc' \in [Task -> Pcs] /\ ans' \in [Task -> RoutingTable]
          /\ pc'[t] = "picking"
          /\ \A u \in Task \ {t} : pc'[u] = pc[u] /\ op'[u] = op[u] /\ cand'[u] = cand[u]
      BY <1>1, <1>2, <3>1, TableTypes
    <3>3. LocalTypes'
      BY <3>1, <3>2 DEF Inv, LocalTypes
    <3> QED  BY <1>2, <2>1, <3>1, <3>2, <3>3, OutsideKeeps
  <2>2. CASE op[t] \notin Mode
    BY <1>8, <2>2, OverKeeps DEF Store
  <2> QED  BY <2>1, <2>2
<1> QED  BY <1>3, <1>4, <1>5, <1>6, <1>7, <1>8

\* At a server: Pool::get's outcomes.
LEMMA GetKeeps ==
  ASSUME Inv, NEW t \in Task,
         GetPermit(t) \/ GetClosed(t) \/ GetTransient(t) \/ GetOk(t)
  PROVE  LocalTypes' /\ \A u \in Task : InvLoop(u)'
<1>1. pc \in [Task -> Pcs] /\ pool \in [Task -> PoolId \union {NoPool}]
  BY DEF Inv, LocalTypes
<1>2. {"waiting", "minting", "evicting"} \subseteq Trying \ {"looking"}
  BY DEF Trying
<1>3. CASE GetPermit(t)
  BY <1>1, <1>2, <1>3, TryingKeeps DEF GetPermit
<1>4. CASE GetClosed(t) \/ GetTransient(t)
  <2>1. pool' \in [Task -> PoolId \union {NoPool}]
    BY <1>1, <1>4 DEF GetClosed, GetTransient
  <2> QED  BY <1>2, <1>4, <2>1, TryingKeeps DEF GetClosed, GetTransient
<1>5. CASE GetOk(t)
  <2>1. "using" \in Pcs /\ << >> \in Seq(Addr) /\ 0 \in 0 .. RRModulus - 1
    BY BoundAssumption DEF Pcs
  <2>2. LocalTypes'
    BY <1>5, <2>1 DEF GetOk, Goto, Inv, LocalTypes
  <2>3. /\ pc'[t] = "using"
        /\ \A u \in Task \ {t} :
             /\ pc'[u] = pc[u] /\ op'[u] = op[u] /\ cand'[u] = cand[u]
             /\ addrs'[u] = addrs[u] /\ start'[u] = start[u] /\ i'[u] = i[u]
             /\ tried'[u] = tried[u]
    BY <1>5 DEF GetOk, Goto, Inv, LocalTypes
  <2>4. InvLoop(t)'
    BY <2>3 DEF InvLoop, Trying
  <2> QED  BY <2>2, <2>3, <2>4, LocalMove
<1> QED  BY <1>3, <1>4, <1>5

\* The tasks' part of the invariant is preserved by every step.
LEMMA LocalStep ==
  ASSUME Inv, [Next]_vars
  PROVE  LocalTypes' /\ \A u \in Task : InvLoop(u)'
<1>1. CASE UNCHANGED local
  <2>1. LocalTypes'
    BY <1>1 DEF local, Inv, LocalTypes
  <2>2. ASSUME NEW u \in Task PROVE InvLoop(u)'
    BY <1>1 DEF local, Inv, InvLoop, Turns
  <2> QED  BY <2>1, <2>2
<1>2. ASSUME NEW t \in Task,
             \/ \E o \in Calls : Begin(t, o)
             \/ Progress(t) \/ GetPermit(t) \/ Return(t) \/ GiveUp(t)
      PROVE  LocalTypes' /\ \A u \in Task : InvLoop(u)'
  <2>1. CASE \/ \E o \in Calls : Begin(t, o)
             \/ EnsureFresh(t) \/ ListRouters(t) \/ RouteFails(t) \/ Store(t)
             \/ \E rt \in Answers : RouteAnswers(t, rt)
    BY <2>1, TableKeeps
  <2>2. CASE Pick(t) \/ PoolFor(t) \/ Evict(t)
    BY <2>2, PickKeeps, PoolForKeeps, EvictKeeps
  <2>3. CASE GetPermit(t) \/ GetClosed(t) \/ GetTransient(t) \/ GetOk(t)
    BY <2>3, GetKeeps
  <2>4. CASE GetPermanent(t) \/ Fail(t) \/ Return(t) \/ GiveUp(t)
    BY <2>4, OverKeeps DEF GetPermanent, Fail, Return, GiveUp
  <2> QED  BY <1>2, <2>1, <2>2, <2>3, <2>4 DEF Progress
<1>3. CASE Expire \/ CloseBegin \/ CloseStep \/ CloseDropped
  BY <1>1, <1>3 DEF Expire, CloseBegin, CloseStep, CloseDrain, ClosePool, CloseDropped
<1>4. CASE UNCHANGED vars
  BY <1>1, <1>4 DEF vars
<1> QED  BY <1>2, <1>3, <1>4 DEF Next

-----------------------------------------------------------------------------
(* The shared side of a step *)

\* Only these steps touch what the tasks share.
LEMMA SharedUnchanged ==
  ASSUME NEW t \in Task,
         \/ \E o \in Calls : Begin(t, o)
         \/ EnsureFresh(t) \/ ListRouters(t) \/ RouteFails(t)
         \/ \E rt \in Answers : RouteAnswers(t, rt)
         \/ GetPermit(t) \/ GetClosed(t) \/ GetTransient(t) \/ GetOk(t)
         \/ GetPermanent(t) \/ Fail(t) \/ Return(t) \/ GiveUp(t)
  PROVE  UNCHANGED shared
  BY DEF Begin, EnsureFresh, ListRouters, RouteFails, RouteAnswers, GetPermit,
         GetClosed, GetTransient, GetOk, GetPermanent, Fail, Return, GiveUp

\* pool_for puts a pool in the map, its own or the one that was there.
LEMMA PoolForShared ==
  ASSUME Inv, NEW t \in Task, PoolFor(t)
  PROVE  SharedTypes'
<1> DEFINE a == Current(t)
           free == PoolId \ Alive
           p == IF pools[a] = NoPool THEN Min(free) ELSE pools[a]
<1>1. /\ pools \in [Addr -> PoolId \union {NoPool}] /\ shut \subseteq PoolId
      /\ leaving \subseteq PoolId /\ NoPool \notin PoolId
      /\ pc[t] \in Trying
  BY SetsAssumption DEF PoolFor, Trying, Inv, SharedTypes, PoolId, NoPool
<1>2. a \in Addr
  BY <1>1, CurrentIn
<1>3. /\ pools[a] = NoPool => free # {}
      /\ shut' = IF pools[a] = NoPool THEN shut \ {p} ELSE shut
      /\ pools' = [pools EXCEPT ![a] = p]
      /\ UNCHANGED <<closed, table, fresh, rr, closing, leaving>>
  BY DEF PoolFor
<1>4. p \in PoolId
  <2>1. CASE pools[a] = NoPool
    <3>1. free # {} /\ free \in SUBSET Nat
      BY <1>3, <2>1, SetsAssumption DEF PoolId
    <3> HIDE DEF free
    <3>2. Min(free) \in free
      BY <3>1, MinIn
    <3> QED  BY <2>1, <3>2 DEF free
  <2>2. CASE pools[a] # NoPool
    BY <1>1, <1>2, <2>2
  <2> QED  BY <2>1, <2>2
<1> HIDE DEF p, a
<1> QED  BY <1>1, <1>2, <1>3, <1>4 DEF Inv, SharedTypes

\* What is shared keeps its types in every step.
LEMMA SharedStep ==
  ASSUME Inv, [Next]_vars
  PROVE  SharedTypes'
<1>1. CASE UNCHANGED shared
  BY <1>1 DEF shared, Inv, SharedTypes
<1>2. ASSUME NEW t \in Task, Store(t)
      PROVE  SharedTypes'
  <2>1. ans[t] \in RoutingTable /\ (ans[t].ttl > 0) \in BOOLEAN
    BY DEF Inv, LocalTypes, RoutingTable
  <2> QED  BY <1>2, <2>1 DEF Store, Inv, SharedTypes
<1>3. ASSUME NEW t \in Task, Pick(t)
      PROVE  SharedTypes'
  <2>1. op[t] \in Mode /\ rr \in [Mode -> 0 .. RRModulus - 1]
    BY <1>3 DEF Pick, Inv, InvLoop, SharedTypes
  <2>2. (rr[op[t]] + 1) % RRModulus \in 0 .. RRModulus - 1
    <3>1. rr[op[t]] + 1 \in Nat /\ RRModulus \in Nat \ {0}
      BY <2>1, BoundAssumption
    <3> QED  BY <3>1, DivMod
  <2>3. rr' = rr \/ rr' = [rr EXCEPT ![op[t]] = (@ + 1) % RRModulus]
    BY <1>3 DEF Pick
  <2>4. rr' \in [Mode -> 0 .. RRModulus - 1]
    BY <2>1, <2>2, <2>3
  <2> QED  BY <1>3, <2>4 DEF Pick, Inv, SharedTypes
<1>4. ASSUME NEW t \in Task, Evict(t)
      PROVE  SharedTypes'
  <2> DEFINE a == Current(t)
  <2>1. /\ table' = remove(table, a) /\ pools' = [pools EXCEPT ![a] = NoPool]
        /\ UNCHANGED <<closed, fresh, shut, rr, closing, leaving>>
    BY <1>4 DEF Evict
  <2> HIDE DEF a
  <2>2. remove(table, a) \in RoutingTable
    BY RemoveType DEF Inv, SharedTypes
  <2> QED  BY <2>1, <2>2 DEF Inv, SharedTypes
<1>5. CASE Expire \/ CloseBegin \/ CloseDropped
  BY <1>5 DEF Expire, CloseBegin, CloseDropped, Inv, SharedTypes
<1>6. CASE CloseDrain
  <2>1. Mapped \subseteq PoolId
    BY DEF Mapped, Inv, SharedTypes
  <2> QED  BY <1>6, <2>1 DEF CloseDrain, Inv, SharedTypes
<1>7. ASSUME NEW p \in PoolId, ClosePool(p)
      PROVE  SharedTypes'
  BY <1>7 DEF ClosePool, Inv, SharedTypes
<1>8. CASE UNCHANGED vars
  BY <1>1, <1>8 DEF vars
<1>9. ASSUME NEW t \in Task,
             \/ \E o \in Calls : Begin(t, o)
             \/ Progress(t) \/ GetPermit(t) \/ Return(t) \/ GiveUp(t)
      PROVE  SharedTypes'
  BY <1>1, <1>2, <1>3, <1>4, <1>9, PoolForShared, SharedUnchanged DEF Progress
<1> QED  BY <1>5, <1>6, <1>7, <1>8, <1>9 DEF Next, CloseStep

-----------------------------------------------------------------------------
(* Theorems *)

\* The invariant holds of a cluster pool just made.
LEMMA InvInit == Init => Inv
<1> SUFFICES ASSUME Init PROVE Inv
  OBVIOUS
<1>1. /\ << >> \in Seq(Addr) /\ NoTable \in RoutingTable
      /\ 0 \in 0 .. RRModulus - 1 /\ "out" \in Pcs
  BY TableTypes, BoundAssumption DEF Pcs
<1>2. SharedTypes
  BY <1>1 DEF Init, SharedTypes
<1>3. LocalTypes
  BY <1>1 DEF Init, LocalTypes
<1>4. \A t \in Task : InvLoop(t)
  BY DEF Init, InvLoop, Trying
<1> QED  BY <1>2, <1>3, <1>4 DEF Inv

\* It is preserved by every step.
LEMMA InvStep == Inv /\ [Next]_vars => Inv'
  BY LocalStep, SharedStep DEF Inv

\* State, the tasks' locals and the loops' indices keep their types; acquire is
\* never past the end of the list it read, though evict shortens the shared one.
THEOREM Typing == Spec => []TypeOK
<1>1. Inv => TypeOK
  BY DEF Inv, SharedTypes, LocalTypes, InvLoop, Trying, TypeOK
<1> QED  BY <1>1, InvInit, InvStep, PTL DEF Spec

\* A lap of acquire tries every server of the list it read before it refreshes
\* or gives up, for lists of any length and wherever the cursor was.
THEOREM LapTriesAll == Spec => []TriedAll
<1>1. Inv => TriedAll
  <2> SUFFICES ASSUME Inv, NEW t \in Task, pc[t] = "evicting", i[t] + 1 = Len(addrs[t])
               PROVE  tried[t] = Range(addrs[t])
    BY DEF TriedAll
  <2> DEFINE n == Len(addrs[t])
  <2>1. /\ addrs[t] \in Seq(Addr) /\ start[t] \in Nat /\ n \in Nat \ {0} /\ i[t] \in Nat
    BY BoundAssumption DEF Inv, LocalTypes, InvLoop, Trying
  <2>2. tried[t] = Turns(t, n)
    BY DEF Inv, InvLoop, Trying
  <2>3. Range(addrs[t]) = {addrs[t][k] : k \in 1..n}
    BY <2>1 DEF Range
  <2> HIDE DEF n
  <2>4. \A j \in 0 .. (n - 1) : ((start[t] + j) % n) + 1 \in 1..n
    <3> SUFFICES ASSUME NEW j \in 0 .. (n - 1) PROVE ((start[t] + j) % n) + 1 \in 1..n
      OBVIOUS
    <3>1. start[t] + j \in Nat
      BY <2>1
    <3>2. (start[t] + j) % n \in 0 .. (n - 1)
      BY <2>1, <3>1, DivMod
    <3> QED  BY <2>1, <3>2
  <2>5. \A k \in 1..n : \E j \in 0 .. (n - 1) : ((start[t] + j) % n) + 1 = k
    BY <2>1, FullTurn
  <2>6. Turns(t, n) = {addrs[t][((start[t] + j) % n) + 1] : j \in 0 .. (n - 1)}
    BY DEF Turns, n
  <2>7. {addrs[t][((start[t] + j) % n) + 1] : j \in 0 .. (n - 1)}
          = {addrs[t][k] : k \in 1..n}
    BY <2>4, <2>5
  <2> QED  BY <2>2, <2>3, <2>6, <2>7
<1> QED  BY <1>1, InvInit, InvStep, PTL DEF Spec
=============================================================================
