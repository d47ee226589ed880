----------------------------- MODULE RoutedPool -----------------------------
(***************************************************************************)
(* The cluster pool (src/src/routed.rs, src/src/routing.rs): tasks check   *)
(* connections out by access mode over a cached routing table and one pool *)
(* per server address, evict servers that fail, and close it all.          *)
(*                                                                         *)
(* A step is what a task does under one lock of `state` or between two     *)
(* awaits: the list of candidate routers, each router's answer, the store  *)
(* of that answer, the list of servers, pool_for, Pool::get and evict are  *)
(* steps of their own, so the others run in between.  The per-server Pool  *)
(* is what Pool.tla shows of it: MaxPerHost permits, an error for whoever  *)
(* waits once it is closed, a connection or an error for who has a permit. *)
(* ManagedTx.tla is about the transactions run over these connections.     *)
(***************************************************************************)
EXTENDS Integers, Sequences, FiniteSets, SequencesExt

CONSTANTS Task,
          Addr,        \* server addresses
          Calls,       \* the calls the tasks make: "Read", "Write", "table", "refresh"
          MayClose,    \* whether somebody calls close()
          Seeds,       \* RoutedPool::new's seeds: a sequence of addresses
          Answers,     \* the rt maps a router may answer ROUTE with
          MaxPerHost,  \* permits of a per-server pool
          MaxPools,    \* a bound on the pools alive at once
          RRModulus    \* rr counts modulo this: any list's length divides it

RoutingTable == [routers : Seq(Addr), readers : Seq(Addr), writers : Seq(Addr),
                 ttl : Int]

\* RoutingTable::from_meta: the addresses of a role, over all entries that
\* have it; an entry of another role counts nowhere.
from_meta(rt) ==
  LET of(role) == FlattenSeq([k \in DOMAIN rt.servers |->
                    IF rt.servers[k].role = role THEN rt.servers[k].addresses ELSE << >>])
  IN  [routers |-> of("ROUTE"), readers |-> of("READ"), writers |-> of("WRITE"),
       ttl |-> rt.ttl]

Tables == {from_meta(rt) : rt \in Answers}

ASSUME SetsAssumption ==
  IsFiniteSet(Task) /\ MaxPools \in Nat

ASSUME CallsAssumption == Calls \subseteq {"Read", "Write", "table", "refresh"}

ASSUME TableAssumption == Seeds \in Seq(Addr) /\ Tables \subseteq RoutingTable

ASSUME BoundAssumption ==
  /\ MayClose \in BOOLEAN
  /\ MaxPerHost \in Nat \ {0} /\ RRModulus \in Nat \ {0}
  /\ \A r \in Tables : \A s \in {r.readers, r.writers} :
       s # << >> => RRModulus % Len(s) = 0

VARIABLES
  closed,   \* Inner.closed
  table,    \* State.table
  fresh,    \* fetched_at is set and the ttl has not run out
  pools,    \* State.pools: address -> pool, or NoPool
  shut,     \* the pools whose close() has been called
  rr,       \* the round-robin cursors
  closing,  \* close(): "no", "drain", "each", "done" or "cut"
  leaving,  \* the pools close() has drained and not yet closed
  pc,       \* what each task is doing
  op,       \* the call it is in: "Read", "Write", "table" or "refresh"
  lap,      \* acquire's lap
  cand,     \* refresh's routers still to be asked
  ans,      \* the table refresh was answered with, not yet stored
  addrs,    \* the servers of this lap
  start,    \* rr's value for this lap
  i,        \* the loop's index
  pool,     \* the pool the task has a handle to
  tried     \* history: the servers of addrs that get() was called on

shared == <<closed, table, fresh, pools, shut, rr, closing, leaving>>
local  == <<pc, op, lap, cand, ans, addrs, start, i, pool, tried>>
vars   == <<shared, local>>

PoolId   == 1 .. MaxPools
NoPool   == 0
Mode     == {"Read", "Write"}
NoTable  == [routers |-> << >>, readers |-> << >>, writers |-> << >>, ttl |-> 0]
Pcs      == {"out", "ensuring", "listing", "asking", "storing", "picking", "looking",
             "waiting", "minting", "evicting", "failed", "using"}

\* The servers of a table for an access mode.
Servers(tb, m) == IF m = "Read" THEN tb.readers ELSE tb.writers

\* The server the loop of acquire is at.
Current(t) == addrs[t][((start[t] + i[t]) % Len(addrs[t])) + 1]

\* Vec::retain: the elements of s that are not a, in their order.
retain(s, a) ==
  LET kept   == {k \in 1..Len(s) : s[k] # a}
      nth(n) == CHOOSE k \in kept : Cardinality({j \in kept : j <= k}) = n
  IN  [n \in 1..Cardinality(kept) |-> s[nth(n)]]

\* RoutingTable::remove, from every role.
remove(tb, a) ==
  [tb EXCEPT !.routers = retain(@, a), !.readers = retain(@, a), !.writers = retain(@, a)]

Init ==
  /\ closed = FALSE
  /\ table = NoTable
  /\ fresh = FALSE
  /\ pools = [a \in Addr |-> NoPool]
  /\ shut = {}
  /\ rr = [m \in Mode |-> 0]
  /\ closing = "no"
  /\ leaving = {}
  /\ pc = [t \in Task |-> "out"]
  /\ op = [t \in Task |-> "table"]
  /\ lap = [t \in Task |-> 0]
  /\ cand = [t \in Task |-> << >>]
  /\ ans = [t \in Task |-> NoTable]
  /\ addrs = [t \in Task |-> << >>]
  /\ start = [t \in Task |-> 0]
  /\ i = [t \in Task |-> 0]
  /\ pool = [t \in Task |-> NoPool]
  /\ tried = [t \in Task |-> {}]

Goto(t, p) == pc' = [pc EXCEPT ![t] = p]

\* The call is over, or its future is dropped: its locals go.
Over(t) ==
  /\ Goto(t, "out")
  /\ op' = [op EXCEPT ![t] = "table"]
  /\ lap' = [lap EXCEPT ![t] = 0]
  /\ cand' = [cand EXCEPT ![t] = << >>]
  /\ ans' = [ans EXCEPT ![t] = NoTable]
  /\ addrs' = [addrs EXCEPT ![t] = << >>]
  /\ start' = [start EXCEPT ![t] = 0]
  /\ i' = [i EXCEPT ![t] = 0]
  /\ pool' = [pool EXCEPT ![t] = NoPool]
  /\ tried' = [tried EXCEPT ![t] = {}]

-----------------------------------------------------------------------------
(* The calls *)

\* Mutant: acquire does not look at the flag.
BeginUnchecked(t, o) ==
  /\ pc[t] = "out"
  /\ op' = [op EXCEPT ![t] = o]
  /\ Goto(t, IF o = "refresh" THEN "listing" ELSE "ensuring")
  /\ UNCHANGED <<shared, lap, cand, ans, addrs, start, i, pool, tried>>

\* read, write, table and refresh; only acquire looks at the flag.
Begin(t, o) ==
  /\ pc[t] = "out"
  /\ o \in Mode => ~closed
  /\ op' = [op EXCEPT ![t] = o]
  /\ Goto(t, IF o = "refresh" THEN "listing" ELSE "ensuring")
  /\ UNCHANGED <<shared, lap, cand, ans, addrs, start, i, pool, tried>>

-----------------------------------------------------------------------------
(* The routing table *)

\* ensure_fresh's look; table() clones the table and is done.
EnsureFresh(t) ==
  /\ pc[t] = "ensuring"
  /\ \/ fresh /\ op[t] = "table" /\ Over(t)
     \/ /\ fresh => op[t] \in Mode
        /\ Goto(t, IF fresh THEN "picking" ELSE "listing")
        /\ UNCHANGED <<op, lap, cand, ans, addrs, start, i, pool, tried>>
  /\ UNCHANGED shared

\* refresh: known routers first, then the seeds; nobody to ask is an error.
ListRouters(t) ==
  LET all == table.routers \o Seeds IN
  /\ pc[t] = "listing"
  /\ IF all = << >>
       THEN Over(t)
       ELSE /\ cand' = [cand EXCEPT ![t] = all]
            /\ Goto(t, "asking")
            /\ UNCHANGED <<op, lap, ans, addrs, start, i, pool, tried>>
  /\ UNCHANGED shared

\* route_via fails (connect, ROUTE, or an answer without rt or servers).
RouteFails(t) ==
  /\ pc[t] = "asking"
  /\ IF Len(cand[t]) = 1
       THEN Over(t)
       ELSE cand' = [cand EXCEPT ![t] = Tail(@)]
            /\ UNCHANGED <<pc, op, lap, ans, addrs, start, i, pool, tried>>
  /\ UNCHANGED shared

\* route_via answers; the table is not stored before the lock is had.
RouteAnswers(t, rt) ==
  /\ pc[t] = "asking"
  /\ ans' = [ans EXCEPT ![t] = from_meta(rt)]
  /\ cand' = [cand EXCEPT ![t] = << >>]
  /\ Goto(t, "storing")
  /\ UNCHANGED <<shared, op, lap, addrs, start, i, pool, tried>>

\* fetched_at is now; a ttl that is not positive has run out at once.
Store(t) ==
  /\ pc[t] = "storing"
  /\ table' = ans[t]
  /\ fresh' = (ans[t].ttl > 0)
  /\ IF op[t] \in Mode
       THEN /\ ans' = [ans EXCEPT ![t] = NoTable]
            /\ Goto(t, "picking")
            /\ UNCHANGED <<op, lap, cand, addrs, start, i, pool, tried>>
       ELSE Over(t)
  /\ UNCHANGED <<closed, pools, shut, rr, closing, leaving>>

\* The ttl runs out.
Expire ==
  /\ fresh
  /\ fresh' = FALSE
  /\ UNCHANGED <<closed, table, pools, shut, rr, closing, leaving, local>>

-----------------------------------------------------------------------------
(* The laps of acquire *)

\* Mutant: the loop is not left after the second lap.
NextLapEndless(t) ==
  /\ lap' = [lap EXCEPT ![t] = 1]
  /\ Goto(t, "listing")

\* Out of servers: a forced refresh and the second lap, or the error.
NextLap(t) ==
  IF lap[t] = 0
    THEN lap' = [lap EXCEPT ![t] = 1] /\ Goto(t, "listing")
    ELSE Goto(t, "failed") /\ UNCHANGED lap

\* The list, then the cursor: rr is touched nowhere else, so that one step
\* stands for the lock and for fetch_add.
Pick(t) ==
  LET list == Servers(table, op[t]) IN
  /\ pc[t] = "picking"
  /\ \/ /\ list = << >>
        /\ NextLap(t)
        /\ UNCHANGED <<rr, addrs, start, i, tried>>
     \/ /\ list # << >>
        /\ addrs' = [addrs EXCEPT ![t] = list]
        /\ start' = [start EXCEPT ![t] = rr[op[t]]]
        /\ rr' = [rr EXCEPT ![op[t]] = (@ + 1) % RRModulus]
        /\ i' = [i EXCEPT ![t] = 0]
        /\ tried' = [tried EXCEPT ![t] = {}]
        /\ Goto(t, "looking")
        /\ UNCHANGED lap
  /\ UNCHANGED <<closed, table, fresh, pools, shut, closing, leaving, op, cand, ans, pool>>

\* Pools somebody can still reach; the others are dropped, their names free.
Alive == {pools[a] : a \in Addr} \union {pool[t] : t \in Task} \union leaving

\* pool_for: the address's pool, made if it has none; then get is called.
PoolFor(t) ==
  LET a    == Current(t)
      free == PoolId \ Alive
      p    == IF pools[a] = NoPool THEN Min(free) ELSE pools[a]
  IN
  /\ pc[t] = "looking"
  /\ pools[a] = NoPool => free # {}
  /\ shut' = IF pools[a] = NoPool THEN shut \ {p} ELSE shut
  /\ pools' = [pools EXCEPT ![a] = p]
  /\ pool' = [pool EXCEPT ![t] = p]
  /\ tried' = [tried EXCEPT ![t] = @ \union {a}]
  /\ Goto(t, "waiting")
  /\ UNCHANGED <<closed, table, fresh, rr, closing, leaving, op, lap, cand, ans, addrs,
                 start, i>>

\* Permits of pool p in use.
Permits(p) == Cardinality({u \in Task : pool[u] = p /\ pc[u] \in {"minting", "using"}})

\* Pool::get has a permit.
GetPermit(t) ==
  /\ pc[t] = "waiting"
  /\ pool[t] \notin shut
  /\ Permits(pool[t]) < MaxPerHost
  /\ Goto(t, "minting")
  /\ UNCHANGED <<shared, op, lap, cand, ans, addrs, start, i, pool, tried>>

\* Pool::get of a closed pool; Closed counts as transient.
GetClosed(t) ==
  /\ pc[t] = "waiting"
  /\ pool[t] \in shut
  /\ pool' = [pool EXCEPT ![t] = NoPool]
  /\ Goto(t, "evicting")
  /\ UNCHANGED <<shared, op, lap, cand, ans, addrs, start, i, tried>>

\* A connection, whether or not a pool was closed meanwhile.
GetOk(t) ==
  /\ pc[t] = "minting"
  /\ Goto(t, "using")
  /\ addrs' = [addrs EXCEPT ![t] = << >>]
  /\ start' = [start EXCEPT ![t] = 0]
  /\ i' = [i EXCEPT ![t] = 0]
  /\ tried' = [tried EXCEPT ![t] = {}]
  /\ lap' = [lap EXCEPT ![t] = 0]
  /\ UNCHANGED <<shared, op, cand, ans, pool>>

\* Credentials or TLS at fault: returned as it is.
GetPermanent(t) == pc[t] = "minting" /\ Over(t) /\ UNCHANGED shared

\* The server is at fault.
GetTransient(t) ==
  /\ pc[t] = "minting"
  /\ pool' = [pool EXCEPT ![t] = NoPool]
  /\ Goto(t, "evicting")
  /\ UNCHANGED <<shared, op, lap, cand, ans, addrs, start, i, tried>>

\* Mutant: every turn of the loop moves the shared cursor, and reads it.
EvictMovesCursor(t) ==
  /\ pc[t] = "evicting"
  /\ table' = remove(table, Current(t))
  /\ pools' = [pools EXCEPT ![Current(t)] = NoPool]
  /\ IF i[t] + 1 < Len(addrs[t])
       THEN /\ i' = [i EXCEPT ![t] = @ + 1]
            /\ start' = [start EXCEPT ![t] = rr[op[t]]]
            /\ Goto(t, "looking") /\ UNCHANGED lap
       ELSE NextLap(t) /\ UNCHANGED <<i, start>>
  /\ UNCHANGED <<closed, fresh, shut, rr, closing, leaving, op, cand, ans, addrs, pool, tried>>

\* Mutant: one turn more than the list has servers.
EvictOneMore(t) ==
  /\ pc[t] = "evicting"
  /\ table' = remove(table, Current(t))
  /\ pools' = [pools EXCEPT ![Current(t)] = NoPool]
  /\ IF i[t] < Len(addrs[t])
       THEN i' = [i EXCEPT ![t] = @ + 1] /\ Goto(t, "looking") /\ UNCHANGED lap
       ELSE NextLap(t) /\ UNCHANGED i
  /\ UNCHANGED <<closed, fresh, shut, rr, closing, leaving, op, cand, ans, addrs, start,
                 pool, tried>>

\* evict, by address, whatever is there now; then the loop goes on.
Evict(t) ==
  /\ pc[t] = "evicting"
  /\ table' = remove(table, Current(t))
  /\ pools' = [pools EXCEPT ![Current(t)] = NoPool]
  /\ IF i[t] + 1 < Len(addrs[t])
       THEN i' = [i EXCEPT ![t] = @ + 1] /\ Goto(t, "looking") /\ UNCHANGED lap
       ELSE NextLap(t) /\ UNCHANGED i
  /\ UNCHANGED <<closed, fresh, shut, rr, closing, leaving, op, cand, ans, addrs, start,
                 pool, tried>>

\* "no reachable server" is returned.
Fail(t) == pc[t] = "failed" /\ Over(t) /\ UNCHANGED shared

\* The PooledConnection is dropped, its permit freed.
Return(t) == pc[t] = "using" /\ Over(t) /\ UNCHANGED shared

\* The future is dropped at an await.
GiveUp(t) == pc[t] \notin {"out", "using"} /\ Over(t) /\ UNCHANGED shared

-----------------------------------------------------------------------------
(* close *)

\* Called for the first time, or again after a call that ended.
CloseBegin ==
  /\ MayClose
  /\ closing \in {"no", "done", "cut"}
  /\ closed' = TRUE
  /\ closing' = "drain"
  /\ UNCHANGED <<table, fresh, pools, shut, rr, leaving, local>>

\* The pools in the map.
Mapped == {pools[a] : a \in Addr} \ {NoPool}

CloseDrain ==
  /\ closing = "drain"
  /\ leaving' = Mapped
  /\ pools' = [a \in Addr |-> NoPool]
  /\ closing' = IF Mapped = {} THEN "done" ELSE "each"
  /\ UNCHANGED <<closed, table, fresh, shut, rr, local>>

\* pool.close().await of one of them; a pool no task has a handle to is gone.
ClosePool(p) ==
  /\ closing = "each"
  /\ p \in leaving
  /\ shut' = (shut \union {p}) \cap {pool[t] : t \in Task}
  /\ leaving' = leaving \ {p}
  /\ closing' = IF leaving = {p} THEN "done" ELSE "each"
  /\ UNCHANGED <<closed, table, fresh, pools, rr, local>>

\* close's future is dropped: the pools it has drained stay open.
CloseDropped ==
  /\ closing \in {"drain", "each"}
  /\ closing' = "cut"
  /\ leaving' = {}
  /\ UNCHANGED <<closed, table, fresh, pools, shut, rr, local>>

-----------------------------------------------------------------------------
\* What an acquire, a refresh or a table() does of itself.
Progress(t) ==
  \/ EnsureFresh(t) \/ ListRouters(t)
  \/ RouteFails(t) \/ \E rt \in Answers : RouteAnswers(t, rt)
  \/ Store(t) \/ Pick(t) \/ PoolFor(t)
  \/ GetClosed(t) \/ GetOk(t) \/ GetPermanent(t) \/ GetTransient(t)
  \/ Evict(t) \/ Fail(t)

CloseStep == CloseDrain \/ \E p \in PoolId : ClosePool(p)

Next ==
  \/ \E t \in Task :
       \/ \E o \in Calls : Begin(t, o)
       \/ Progress(t) \/ GetPermit(t) \/ Return(t) \/ GiveUp(t)
  \/ Expire \/ CloseBegin \/ CloseStep \/ CloseDropped

Spec == Init /\ [][Next]_vars

(***************************************************************************)
(* The runtime polls a task that can go on, and every await of a router or *)
(* of a server ends: connect and ROUTE have timeouts.  A permit goes to    *)
(* the tasks that wait in turn (Pool!WaitersServed): strong fairness.      *)
(* Callers drop, in the end, the connections they are given.  Nothing      *)
(* makes them begin or give up.                                            *)
(*                                                                         *)
(* That a Pool::get which has its permit ends is Pool!CheckoutEnds, whose  *)
(* condition (the others' returns to that pool come to an end) holds of    *)
(* itself when MaxPerHost is 1: nobody else has a connection to return.    *)
(* With more it is an assumption that the code alone does not give.        *)
(***************************************************************************)
FairSpec ==
  /\ Spec
  /\ \A t \in Task : WF_vars(Progress(t)) /\ WF_vars(Return(t)) /\ SF_vars(GetPermit(t))
  /\ WF_vars(CloseStep)

-----------------------------------------------------------------------------
(* Properties *)

\* Every variable has a value of its type, and the loop of acquire is at a
\* server of the list it read (its index is in range).
TypeOK ==
  /\ closed \in BOOLEAN /\ fresh \in BOOLEAN
  /\ table \in RoutingTable
  /\ pools \in [Addr -> PoolId \union {NoPool}]
  /\ shut \subseteq PoolId /\ leaving \subseteq PoolId
  /\ rr \in [Mode -> 0 .. RRModulus - 1]
  /\ closing \in {"no", "drain", "each", "done", "cut"}
  /\ pc \in [Task -> Pcs]
  /\ op \in [Task -> Mode \union {"table", "refresh"}]
  /\ lap \in [Task -> {0, 1}]
  /\ cand \in [Task -> Seq(Addr)]
  /\ ans \in [Task -> RoutingTable]
  /\ addrs \in [Task -> Seq(Addr)]
  /\ start \in [Task -> 0 .. RRModulus - 1]
  /\ i \in [Task -> Nat]
  /\ pool \in [Task -> PoolId \union {NoPool}]
  /\ tried \in [Task -> SUBSET Addr]
  /\ \A t \in Task : pc[t] \in {"looking", "waiting", "minting", "evicting"}
                       => i[t] < Len(addrs[t])

\* Once a call of close() has returned and every checkout is over, no pool in
\* the map is open: close() closes "every per-server pool" (doc of
\* RoutedPool::close), one that an acquire in flight makes included.
CloseClosesAll ==
  closing = "done" /\ (\A t \in Task : pc[t] = "out") => Mapped \subseteq shut

\* When the last server of a lap fails, every server of the list was tried:
\* round-robin starts anywhere, and the other tasks move the cursor, but no
\* server is skipped and none is tried twice in another's place.
TriedAll ==
  \A t \in Task : pc[t] = "evicting" /\ i[t] + 1 = Len(addrs[t])
                    => tried[t] = Range(addrs[t])

Acquiring(t) == op[t] \in Mode /\ pc[t] # "out"

\* Every read() and write() ends, with a connection or an error: two laps,
\* a list of routers and a list of servers are finite, an evicted pool goes
\* on serving who waits on it, and a closed one sends them away.
AcquireEnds == \A t \in Task : Acquiring(t) /\ pc[t] # "using" ~> ~Acquiring(t) \/ pc[t] = "using"

\* Once the flag of close() is set, the checkouts in flight end, those they
\* lead to are returned, and from then on there is none.
CloseQuiesces == <>[](~closed) \/ <>[](\A t \in Task : ~Acquiring(t))
=============================================================================
