---------------------------- MODULE FramingProofs ---------------------------
(***************************************************************************)
(* Framing implements MessageQueue, for every base, every limit and every  *)
(* set of messages, wherever a message is cut and wherever its bytes end   *)
(* when they arrive.                                                       *)
(***************************************************************************)
EXTENDS Framing, SequenceTheorems, WellFoundedInduction, TLAPS

-----------------------------------------------------------------------------
(* Numbers *)

\* A set of naturals that is not empty has a least one.
LEMMA LeastNat ==
  ASSUME NEW S \in SUBSET Nat, S # {}
  PROVE  \E x \in S : \A y \in S : x <= y
<1>1. PICK x \in S : \A y \in S : ~(<<y, x>> \in OpToRel(<, Nat))
  BY WFMin, NatLessThanWellFounded
<1>2. \A y \in S : ~(y < x)
  BY <1>1 DEF OpToRel
<1> QED  BY <1>2

\* Min takes it.
LEMMA MinFacts ==
  ASSUME NEW S \in SUBSET Nat, S # {}
  PROVE  Min(S) \in S /\ \A y \in S : Min(S) <= y
<1>1. \E x \in S : \A y \in S : x <= y
  BY LeastNat
<1> QED  BY <1>1 DEF Min

\* A bounded set of naturals has a greatest, which Max takes.
LEMMA MaxFacts ==
  ASSUME NEW n \in Nat, NEW S \in SUBSET (0 .. n), S # {}
  PROVE  Max(S) \in S /\ \A y \in S : y <= Max(S)
<1> DEFINE T == {d \in Nat : \E x \in S : d = n - x}
<1>1. T \in SUBSET Nat /\ T # {}
  <2>1. PICK x \in S : TRUE
    OBVIOUS
  <2>2. n - x \in T
    BY <2>1
  <2> QED  BY <2>2
<1>2. PICK d \in T : \A y \in T : d <= y
  BY <1>1, LeastNat
<1>3. PICK x \in S : d = n - x
  BY <1>2
<1>4. \A y \in S : x >= y
  <2> SUFFICES ASSUME NEW y \in S
               PROVE  x >= y
    OBVIOUS
  <2>1. n - y \in T
    OBVIOUS
  <2> QED  BY <1>2, <1>3, <2>1
<1>5. \E z \in S : \A y \in S : z >= y
  BY <1>4
<1>6. Max(S) \in S /\ \A y \in S : Max(S) >= y
  BY <1>5 DEF Max
<1> QED  BY <1>6

\* Two and three sequences, one after the other.
LEMMA TwoParts ==
  ASSUME NEW S, NEW a \in Seq(S), NEW u \in Seq(S)
  PROVE  /\ a \o u \in Seq(S) /\ Len(a \o u) = Len(a) + Len(u)
         /\ Len(a) \in Nat /\ Len(u) \in Nat
         /\ \A i \in 1 .. Len(a) : (a \o u)[i] = a[i]
         /\ \A i \in 1 .. Len(u) : (a \o u)[Len(a) + i] = u[i]
  OBVIOUS

\* t is h, x and u, one after the other.
Joined(t, h, x, u) ==
  /\ Len(t) = Len(h) + Len(x) + Len(u)
  /\ Len(h) \in Nat /\ Len(x) \in Nat /\ Len(u) \in Nat
  /\ \A i \in 1 .. Len(h) : t[i] = h[i]
  /\ \A i \in 1 .. Len(x) : t[Len(h) + i] = x[i]
  /\ \A i \in 1 .. Len(u) : t[Len(h) + Len(x) + i] = u[i]

\* So is their concatenation.
LEMMA ThreeParts ==
  ASSUME NEW S, NEW h \in Seq(S), NEW x \in Seq(S), NEW u \in Seq(S)
  PROVE  h \o x \o u \in Seq(S) /\ Joined(h \o x \o u, h, x, u)
<1> DEFINE a == h \o x
           t == a \o u
<1>1. /\ a \in Seq(S) /\ Len(a) = Len(h) + Len(x)
      /\ Len(h) \in Nat /\ Len(x) \in Nat /\ Len(u) \in Nat
      /\ \A i \in 1 .. Len(h) : a[i] = h[i]
      /\ \A i \in 1 .. Len(x) : a[Len(h) + i] = x[i]
  BY TwoParts
<1> HIDE DEF a
<1>2. /\ t \in Seq(S) /\ Len(t) = Len(a) + Len(u)
      /\ \A i \in 1 .. Len(a) : t[i] = a[i]
      /\ \A i \in 1 .. Len(u) : t[Len(a) + i] = u[i]
  <2>1. a \in Seq(S)
    BY <1>1
  <2> QED  BY <2>1
<1> HIDE DEF t
<1>3. \A i \in 1 .. Len(h) : t[i] = h[i]
  BY <1>1, <1>2
<1>4. \A i \in 1 .. Len(x) : t[Len(h) + i] = x[i]
  BY <1>1, <1>2
<1>5. \A i \in 1 .. Len(u) : t[Len(h) + Len(x) + i] = u[i]
  BY <1>1, <1>2
<1>6. t \in Seq(S) /\ Joined(t, h, x, u)
  BY <1>1, <1>2, <1>3, <1>4, <1>5 DEF Joined
<1> QED  BY <1>6 DEF t, a

\* A number is its quotient and its remainder.
LEMMA DivMod ==
  ASSUME NEW a \in Nat, NEW n \in Nat \ {0}
  PROVE  /\ a = (a \div n) * n + (a % n)
         /\ a \div n \in Nat /\ a % n \in 0 .. n - 1
  OBVIOUS

\* from_be_bytes undoes to_be_bytes.
LEMMA BigEndian ==
  ASSUME NEW n \in Nat
  PROVE  /\ from_be_bytes(to_be_bytes(n)[1], to_be_bytes(n)[2]) = n
         /\ Len(to_be_bytes(n)) = 2
         /\ n <= MAX_CHUNK => to_be_bytes(n) \in Seq(Byte)
<1>1. Base \in Nat \ {0}
  BY FramingAssumption
<1>2. n = (n \div Base) * Base + (n % Base) /\ n \div Base \in Nat /\ n % Base \in 0 .. Base - 1
  BY <1>1, DivMod
<1>3. ASSUME n <= MAX_CHUNK
      PROVE  n \div Base < Base
  <2> DEFINE q == n \div Base
             r == n % Base
  <2>1. q * Base <= Base * Base - 1
    BY <1>1, <1>2, <1>3 DEF MAX_CHUNK
  <2> HIDE DEF q, r
  <2>2. q \in Nat
    BY <1>2 DEF q
  <2>3. q >= Base => q * Base >= Base * Base
    BY <1>1, <2>2
  <2>4. q < Base
    BY <1>1, <2>1, <2>2, <2>3
  <2> QED  BY <2>4 DEF q
<1>4. from_be_bytes(to_be_bytes(n)[1], to_be_bytes(n)[2]) = n
  BY <1>2 DEF from_be_bytes, to_be_bytes
<1>5. Len(to_be_bytes(n)) = 2
  BY DEF to_be_bytes
<1>6. ASSUME n <= MAX_CHUNK
      PROVE  to_be_bytes(n) \in Seq(Byte)
  BY <1>1, <1>2, <1>3, <1>6 DEF to_be_bytes, Byte
<1> QED  BY <1>4, <1>5, <1>6

-----------------------------------------------------------------------------
(* The recursive functions satisfy their equations.  Each calls itself only *)
(* further on, and not past a bound: functions that satisfy the equation    *)
(* from the bound back to any place exist.                                  *)

\* Where the chunk that begins after k ends.
CutAfter(body, cuts, k) == Min({c \in cuts \union {Len(body)} : c > k})

\* The right-hand sides of Framed, Walk and Body.
FrameTurn(body, cuts, f, k) ==
  IF k >= Len(body) THEN to_be_bytes(0)
  ELSE to_be_bytes(CutAfter(body, cuts, k) - k)
         \o SubSeq(body, k + 1, CutAfter(body, cuts, k)) \o f[CutAfter(body, cuts, k)]

WalkTurn(buf, f, at) ==
  LET pos   == at[1]
      total == at[2] + SizeAt(buf, pos)
      next  == pos + 2 + SizeAt(buf, pos)
  IN  IF pos + 2 > Len(buf) THEN -1
      ELSE IF SizeAt(buf, pos) = 0 THEN pos
      ELSE IF TooLong(total) THEN -2
      ELSE IF Len(buf) < next THEN -1
      ELSE f[<<next, total>>]

BodyTurn(buf, pos, f, at) ==
  IF at >= pos THEN << >>
  ELSE LET next == at + 2 + SizeAt(buf, at)
       IN  SubSeq(buf, at + 3, next) \o f[next]

\* The functions, and the operators as their values.
Frames(body, cuts) == CHOOSE f : f = [k \in Nat |-> FrameTurn(body, cuts, f, k)]
Walks(buf)         == CHOOSE f : f = [at \in Nat \X Nat |-> WalkTurn(buf, f, at)]
Bodies(buf, pos)   == CHOOSE f : f = [at \in Nat |-> BodyTurn(buf, pos, f, at)]

\* Framed, Walk and Body are these functions at the beginning.
LEMMA AtTheStart ==
  /\ \A body, cuts : Framed(body, cuts) = Frames(body, cuts)[0]
  /\ \A buf : Walk(buf) = Walks(buf)[<<0, 0>>]
  /\ \A buf, pos : Body(buf, pos) = Bodies(buf, pos)[0]
<1>1. \A body, cuts : Framed(body, cuts) = Frames(body, cuts)[0]
  BY DEF Framed, Frames, FrameTurn, CutAfter
<1>2. \A buf : Walk(buf) = Walks(buf)[<<0, 0>>]
  BY DEF Walk, Walks, WalkTurn
<1>3. \A buf, pos : Body(buf, pos) = Bodies(buf, pos)[0]
  BY DEF Body, Bodies, BodyTurn
<1> QED  BY <1>1, <1>2, <1>3

\* A chunk ends after it begins, and not after the body.
LEMMA CutFacts ==
  ASSUME NEW body \in Seq(Byte), NEW cuts \in SUBSET (1 .. Len(body) - 1),
         NEW k \in Nat, k < Len(body)
  PROVE  /\ CutAfter(body, cuts, k) \in k + 1 .. Len(body)
         /\ CutAfter(body, cuts, k) \in cuts \union {Len(body)}
         /\ \A c \in cuts : c > k => CutAfter(body, cuts, k) <= c
<1> DEFINE S == {c \in cuts \union {Len(body)} : c > k}
<1>1. Len(body) \in Nat
  OBVIOUS
<1>2. Len(body) \in S /\ \A c \in cuts : c \in 1 .. Len(body) - 1
  BY <1>1
<1>3. \A c \in S : c \in Nat
  BY <1>1, <1>2
<1>4. Min(S) \in S /\ \A y \in S : Min(S) <= y
  BY <1>2, <1>3, MinFacts
<1>5. Min(S) <= Len(body) /\ Min(S) > k /\ Min(S) \in Nat
  BY <1>2, <1>3, <1>4
<1> QED  BY <1>1, <1>2, <1>4, <1>5 DEF CutAfter

\* Framed's chunks.
LEMMA FramesEquation ==
  ASSUME NEW body \in Seq(Byte), NEW cuts \in SUBSET (1 .. Len(body) - 1)
  PROVE  \A k \in Nat : Frames(body, cuts)[k] = FrameTurn(body, cuts, Frames(body, cuts), k)
<1> DEFINE N == Len(body)
           Turn(g, k) == FrameTurn(body, cuts, g, k)
           Good(g, j) == /\ g = [k \in Nat |-> g[k]]
                         /\ \A k \in Nat : k + j >= N => g[k] = Turn(g, k)
           P(j) == \E g : Good(g, j)
<1>0. N \in Nat
  OBVIOUS
<1>1. P(0)
  <2> DEFINE g == [k \in Nat |-> to_be_bytes(0)]
  <2>1. \A k \in Nat : k >= N => Turn(g, k) = to_be_bytes(0)
    BY DEF FrameTurn
  <2>2. Good(g, 0)
    BY <1>0, <2>1
  <2> QED  BY <2>2
<1>2. \A j \in Nat : P(j) => P(j + 1)
  <2> SUFFICES ASSUME NEW j \in Nat, NEW g, Good(g, j)
               PROVE  P(j + 1)
    OBVIOUS
  <2> DEFINE h == [k \in Nat |-> Turn(g, k)]
  <2>1. ASSUME NEW k \in Nat, k + (j + 1) >= N
        PROVE  Turn(h, k) = Turn(g, k)
    <3>1. CASE k >= N
      BY <3>1 DEF FrameTurn
    <3>2. CASE k < N
      <4>0. CutAfter(body, cuts, k) \in k + 1 .. N
        BY <3>2, CutFacts
      <4>1. CutAfter(body, cuts, k) \in Nat /\ CutAfter(body, cuts, k) + j >= N
        BY <1>0, <2>1, <4>0
      <4>2. h[CutAfter(body, cuts, k)] = g[CutAfter(body, cuts, k)]
        BY <4>1
      <4> QED  BY <4>2 DEF FrameTurn
    <3> QED  BY <1>0, <3>1, <3>2
  <2>2. Good(h, j + 1)
    BY <2>1
  <2> QED  BY <2>2
<1> HIDE DEF P
<1>3. \A j \in Nat : P(j)
  <2> SUFFICES ASSUME {j \in Nat : ~P(j)} # {}
               PROVE  FALSE
    OBVIOUS
  <2>1. PICK j \in {i \in Nat : ~P(i)} : \A i \in {i \in Nat : ~P(i)} : j <= i
    BY LeastNat
  <2>2. j # 0 /\ j - 1 \in Nat /\ ~(j <= j - 1)
    BY <1>1, <2>1
  <2>3. P(j - 1)
    BY <2>1, <2>2
  <2> QED  BY <1>2, <2>1, <2>2, <2>3
<1>4. PICK g : Good(g, N)
  BY <1>0, <1>3 DEF P
<1> DEFINE Q(f) == f = [k \in Nat |-> Turn(f, k)]
<1>5. Q(g)
  BY <1>0, <1>4
<1>6. Frames(body, cuts) = CHOOSE f : Q(f)
  BY DEF Frames
<1> HIDE DEF Q
<1>7. Q(Frames(body, cuts))
  BY <1>5, <1>6
<1> QED  BY <1>7 DEF Q

\* A header that is in the buffer says a length.
LEMMA SizeType ==
  ASSUME NEW buf \in Seq(Byte), NEW pos \in Nat, pos + 2 <= Len(buf)
  PROVE  SizeAt(buf, pos) \in Nat
<1>1. buf[pos + 1] \in Nat /\ buf[pos + 2] \in Nat /\ Base \in Nat
  BY FramingAssumption DEF Byte
<1>2. buf[pos + 1] * Base \in Nat
  BY <1>1
<1> QED  BY <1>1, <1>2 DEF SizeAt, from_be_bytes

\* Walk's loop.
LEMMA WalksEquation ==
  ASSUME NEW buf \in Seq(Byte)
  PROVE  \A at \in Nat \X Nat : Walks(buf)[at] = WalkTurn(buf, Walks(buf), at)
<1> DEFINE N == Len(buf)
           Turn(g, at) == WalkTurn(buf, g, at)
           Good(g, j) == /\ g = [at \in Nat \X Nat |-> g[at]]
                         /\ \A at \in Nat \X Nat : at[1] + j >= N => g[at] = Turn(g, at)
           P(j) == \E g : Good(g, j)
<1>0. N \in Nat
  OBVIOUS
<1>1. P(0)
  <2> DEFINE g == [at \in Nat \X Nat |-> -1]
  <2>1. \A at \in Nat \X Nat : at[1] >= N => Turn(g, at) = -1
    BY <1>0 DEF WalkTurn
  <2>2. Good(g, 0)
    BY <1>0, <2>1
  <2> QED  BY <2>2
<1>2. \A j \in Nat : P(j) => P(j + 1)
  <2> SUFFICES ASSUME NEW j \in Nat, NEW g, Good(g, j)
               PROVE  P(j + 1)
    OBVIOUS
  <2> DEFINE h == [at \in Nat \X Nat |-> Turn(g, at)]
  <2>1. ASSUME NEW at \in Nat \X Nat, at[1] + (j + 1) >= N
        PROVE  Turn(h, at) = Turn(g, at)
    <3> DEFINE size == SizeAt(buf, at[1])
               next == at[1] + 2 + size
    <3>0. at[1] \in Nat /\ at[2] \in Nat
      OBVIOUS
    <3>1. CASE at[1] + 2 > N
      BY <3>1 DEF WalkTurn
    <3>2. CASE at[1] + 2 <= N
      <4>1. size \in Nat
        BY <3>0, <3>2, SizeType
      <4>2. <<next, at[2] + size>> \in Nat \X Nat /\ next + j >= N
        BY <1>0, <2>1, <3>0, <4>1
      <4>3. h[<<next, at[2] + size>>] = g[<<next, at[2] + size>>]
        BY <4>2
      <4> QED  BY <4>3 DEF WalkTurn
    <3> QED  BY <1>0, <3>0, <3>1, <3>2
  <2>2. Good(h, j + 1)
    BY <2>1
  <2> QED  BY <2>2
<1> HIDE DEF P
<1>3. \A j \in Nat : P(j)
  <2> SUFFICES ASSUME {j \in Nat : ~P(j)} # {}
               PROVE  FALSE
    OBVIOUS
  <2>1. PICK j \in {i \in Nat : ~P(i)} : \A i \in {i \in Nat : ~P(i)} : j <= i
    BY LeastNat
  <2>2. j # 0 /\ j - 1 \in Nat /\ ~(j <= j - 1)
    BY <1>1, <2>1
  <2>3. P(j - 1)
    BY <2>1, <2>2
  <2> QED  BY <1>2, <2>1, <2>2, <2>3
<1>4. PICK g : Good(g, N)
  BY <1>0, <1>3 DEF P
<1> DEFINE Q(f) == f = [at \in Nat \X Nat |-> Turn(f, at)]
<1>5. Q(g)
  BY <1>0, <1>4
<1>6. Walks(buf) = CHOOSE f : Q(f)
  BY DEF Walks
<1> HIDE DEF Q
<1>7. Q(Walks(buf))
  BY <1>5, <1>6
<1> QED  BY <1>7 DEF Q

\* Body's loop, for a terminator that is in the buffer.
LEMMA BodiesEquation ==
  ASSUME NEW buf \in Seq(Byte), NEW pos \in Nat, pos + 2 <= Len(buf)
  PROVE  \A at \in Nat : Bodies(buf, pos)[at] = BodyTurn(buf, pos, Bodies(buf, pos), at)
<1> DEFINE N == pos
           Turn(g, at) == BodyTurn(buf, pos, g, at)
           Good(g, j) == /\ g = [at \in Nat |-> g[at]]
                         /\ \A at \in Nat : at + j >= N => g[at] = Turn(g, at)
           P(j) == \E g : Good(g, j)
<1>0. N \in Nat
  OBVIOUS
<1>1. P(0)
  <2> DEFINE g == [at \in Nat |-> << >>]
  <2>1. \A at \in Nat : at >= N => Turn(g, at) = << >>
    BY <1>0 DEF BodyTurn
  <2>2. Good(g, 0)
    BY <1>0, <2>1
  <2> QED  BY <2>2
<1>2. \A j \in Nat : P(j) => P(j + 1)
  <2> SUFFICES ASSUME NEW j \in Nat, NEW g, Good(g, j)
               PROVE  P(j + 1)
    OBVIOUS
  <2> DEFINE h == [at \in Nat |-> Turn(g, at)]
  <2>1. ASSUME NEW at \in Nat, at + (j + 1) >= N
        PROVE  Turn(h, at) = Turn(g, at)
    <3> DEFINE next == at + 2 + SizeAt(buf, at)
    <3>1. CASE at >= N
      BY <3>1 DEF BodyTurn
    <3>2. CASE at < N
      <4>1. SizeAt(buf, at) \in Nat
        BY <1>0, <3>2, SizeType
      <4>2. next \in Nat /\ next + j >= N
        BY <1>0, <2>1, <4>1
      <4>3. h[next] = g[next]
        BY <4>2
      <4> QED  BY <4>3 DEF BodyTurn
    <3> QED  BY <1>0, <3>1, <3>2
  <2>2. Good(h, j + 1)
    BY <2>1
  <2> QED  BY <2>2
<1> HIDE DEF P
<1>3. \A j \in Nat : P(j)
  <2> SUFFICES ASSUME {j \in Nat : ~P(j)} # {}
               PROVE  FALSE
    OBVIOUS
  <2>1. PICK j \in {i \in Nat : ~P(i)} : \A i \in {i \in Nat : ~P(i)} : j <= i
    BY LeastNat
  <2>2. j # 0 /\ j - 1 \in Nat /\ ~(j <= j - 1)
    BY <1>1, <2>1
  <2>3. P(j - 1)
    BY <2>1, <2>2
  <2> QED  BY <1>2, <2>1, <2>2, <2>3
<1>4. PICK g : Good(g, N)
  BY <1>0, <1>3 DEF P
<1> DEFINE Q(f) == f = [at \in Nat |-> Turn(f, at)]
<1>5. Q(g)
  BY <1>0, <1>4
<1>6. Bodies(buf, pos) = CHOOSE f : Q(f)
  BY DEF Bodies
<1> HIDE DEF Q
<1>7. Q(Bodies(buf, pos))
  BY <1>5, <1>6
<1> QED  BY <1>7 DEF Q

-----------------------------------------------------------------------------
(* A message, framed *)

\* No chunk is longer than its length can say.
LEMMA ChunkFits ==
  ASSUME NEW m \in Message, NEW cuts \in Cuts(m), NEW k \in Nat, k < Len(m)
  PROVE  /\ CutAfter(m, cuts, k) \in k + 1 .. Len(m)
         /\ CutAfter(m, cuts, k) - k <= MAX_CHUNK
<1> DEFINE e == CutAfter(m, cuts, k)
<1>1. m \in Seq(Byte) /\ cuts \in SUBSET (1 .. Len(m) - 1) /\ Len(m) \in Nat
  BY FramingAssumption DEF Cuts
<1>2. e \in k + 1 .. Len(m) /\ \A c \in cuts : c > k => e <= c
  BY <1>1, CutFacts
<1> HIDE DEF e
<1>3. MAX_CHUNK \in Int
  BY FramingAssumption DEF MAX_CHUNK
<1>4. ASSUME e - k > MAX_CHUNK
      PROVE  FALSE
  <2>1. k \in 0 .. Len(m) - MAX_CHUNK - 1
    BY <1>1, <1>2, <1>3, <1>4
  <2>2. PICK j \in 1 .. MAX_CHUNK : k + j \in cuts
    BY <2>1 DEF Cuts
  <2> QED  BY <1>2, <1>3, <1>4, <2>2
<1> QED  BY <1>1, <1>2, <1>3, <1>4 DEF e

\* What is left of a frame from a cut on: a chunk's length, the chunk and the
\* rest, or the terminator.
LEMMA FrameParts ==
  ASSUME NEW m \in Message, NEW cuts \in Cuts(m), NEW k \in 0 .. Len(m)
  PROVE  LET T == Frames(m, cuts)
             e == CutAfter(m, cuts, k)
         IN  /\ T[k] \in Seq(Byte) /\ Len(T[k]) >= 2
             /\ k = Len(m) => T[k] = to_be_bytes(0)
             /\ k < Len(m) =>
                  T[k] = to_be_bytes(e - k) \o SubSeq(m, k + 1, e) \o T[e]
<1> DEFINE T == Frames(m, cuts)
           N == Len(m)
           e(i) == CutAfter(m, cuts, i)
           P(i) == T[i] \in Seq(Byte) /\ Len(T[i]) >= 2
<1>1. m \in Seq(Byte) /\ cuts \in SUBSET (1 .. N - 1) /\ N \in Nat
  BY FramingAssumption DEF Cuts
<1>2. \A i \in Nat : T[i] = FrameTurn(m, cuts, T, i)
  BY <1>1, FramesEquation
<1>3. T[N] = to_be_bytes(0)
  BY <1>1, <1>2 DEF FrameTurn
<1>4. ASSUME NEW i \in 0 .. N, i < N
      PROVE  T[i] = to_be_bytes(e(i) - i) \o SubSeq(m, i + 1, e(i)) \o T[e(i)]
  <2>1. i \in Nat /\ ~(i >= Len(m))
    BY <1>1, <1>4
  <2>2. T[i] = FrameTurn(m, cuts, T, i)
    BY <1>2, <2>1
  <2> QED  BY <2>1, <2>2 DEF FrameTurn
<1>5. P(N)
  <2>1. 0 \in Nat /\ 0 <= MAX_CHUNK
    BY FramingAssumption DEF MAX_CHUNK
  <2> QED  BY <1>3, <2>1, BigEndian
<1>6. ASSUME NEW i \in 0 .. N, i < N, P(e(i))
      PROVE  P(i)
  <2>1. e(i) \in i + 1 .. N /\ e(i) - i <= MAX_CHUNK
    BY <1>1, <1>6, ChunkFits
  <2>2. e(i) - i \in Nat
    BY <2>1
  <2>3. to_be_bytes(e(i) - i) \in Seq(Byte) /\ Len(to_be_bytes(e(i) - i)) = 2
    BY <2>1, <2>2, BigEndian
  <2>4. SubSeq(m, i + 1, e(i)) \in Seq(Byte)
    BY <1>1, <2>1
  <2>5. T[i] = to_be_bytes(e(i) - i) \o SubSeq(m, i + 1, e(i)) \o T[e(i)]
    BY <1>4, <1>6
  <2> DEFINE h == to_be_bytes(e(i) - i)
             x == SubSeq(m, i + 1, e(i))
             u == T[e(i)]
  <2>6. u \in Seq(Byte) /\ Len(u) >= 2
    BY <1>6
  <2> HIDE DEF h, x, u
  <2>7. h \o x \o u \in Seq(Byte) /\ Joined(h \o x \o u, h, x, u)
    BY <2>3, <2>4, <2>6, ThreeParts DEF h, x
  <2>8. Len(h \o x \o u) >= 2
    BY <2>3, <2>6, <2>7 DEF h, Joined
  <2> QED  BY <2>5, <2>7, <2>8 DEF h, x, u
<1> HIDE DEF P
<1>7. \A i \in 0 .. N : P(i)
  <2> DEFINE S == {j \in Nat : j <= N /\ ~P(N - j)}
  <2> SUFFICES ASSUME S # {}
               PROVE  FALSE
    <3>1. ASSUME NEW i \in 0 .. N, ~P(i)
          PROVE  N - i \in S
      <4>1. N - i \in Nat /\ N - i <= N /\ N - (N - i) = i
        BY <1>1
      <4> QED  BY <3>1, <4>1
    <3> QED  BY <3>1
  <2>1. PICK j \in S : \A i \in S : j <= i
    BY LeastNat
  <2> DEFINE i == N - j
  <2>2. i \in 0 .. N /\ ~P(i) /\ j \in Nat
    BY <1>1, <2>1
  <2>3. i < N
    BY <1>1, <1>5, <2>2
  <2>4. e(i) \in i + 1 .. N
    BY <1>1, <2>2, <2>3, ChunkFits
  <2>5. N - e(i) \in Nat /\ N - e(i) <= N /\ ~(j <= N - e(i)) /\ N - (N - e(i)) = e(i)
    BY <1>1, <2>1, <2>2, <2>4
  <2>6. P(e(i))
    BY <2>1, <2>5
  <2> QED  BY <1>6, <2>2, <2>3, <2>6
<1> QED  BY <1>1, <1>3, <1>4, <1>7 DEF P

\* As far as both go, s continues with t after at.
Agrees(s, at, t) == \A i \in 1 .. Len(t) : at + i <= Len(s) => s[at + i] = t[i]

\* What follows from the parts of t.
LEMMA AgreesParts ==
  ASSUME NEW s \in Seq(Byte), NEW at \in Nat, NEW h \in Seq(Byte), Len(h) = 2,
         NEW x \in Seq(Byte), NEW u \in Seq(Byte), Agrees(s, at, h \o x \o u)
  PROVE  /\ at + 2 <= Len(s) => s[at + 1] = h[1] /\ s[at + 2] = h[2]
         /\ Agrees(s, at + 2, x)
         /\ Agrees(s, at + 2 + Len(x), u)
<1> DEFINE t == h \o x \o u
<1>0. Joined(t, h, x, u)
  BY ThreeParts
<1> HIDE DEF t
<1>1. /\ Len(t) = 2 + Len(x) + Len(u) /\ Len(x) \in Nat /\ Len(u) \in Nat /\ Len(s) \in Nat
      /\ t[1] = h[1] /\ t[2] = h[2]
  BY <1>0 DEF Joined
<1>2. \A i \in 1 .. Len(x) : t[2 + i] = x[i]
  BY <1>0 DEF Joined
<1>3. \A i \in 1 .. Len(u) : t[2 + Len(x) + i] = u[i]
  BY <1>0 DEF Joined
<1>4. \A i \in 1 .. Len(t) : at + i <= Len(s) => s[at + i] = t[i]
  BY DEF Agrees, t
<1>5. at + 2 <= Len(s) => s[at + 1] = h[1] /\ s[at + 2] = h[2]
  BY <1>1, <1>4
<1>6. Agrees(s, at + 2, x)
  <2> SUFFICES ASSUME NEW i \in 1 .. Len(x), at + 2 + i <= Len(s)
               PROVE  s[at + 2 + i] = x[i]
    BY DEF Agrees
  <2>1. 2 + i \in 1 .. Len(t) /\ at + (2 + i) = at + 2 + i
    BY <1>1
  <2> QED  BY <1>2, <1>4, <2>1
<1>7. Agrees(s, at + 2 + Len(x), u)
  <2> SUFFICES ASSUME NEW i \in 1 .. Len(u), at + 2 + Len(x) + i <= Len(s)
               PROVE  s[at + 2 + Len(x) + i] = u[i]
    BY DEF Agrees
  <2>1. 2 + Len(x) + i \in 1 .. Len(t) /\ at + (2 + Len(x) + i) = at + 2 + Len(x) + i
    BY <1>1
  <2> QED  BY <1>3, <1>4, <2>1
<1> QED  BY <1>5, <1>6, <1>7

\* A stretch of a sequence that agrees with x is x.
LEMMA Stretch ==
  ASSUME NEW s \in Seq(Byte), NEW at \in Nat, NEW x \in Seq(Byte), Agrees(s, at, x),
         at + Len(x) <= Len(s)
  PROVE  SubSeq(s, at + 1, at + Len(x)) = x
<1> DEFINE y == SubSeq(s, at + 1, at + Len(x))
<1>1. Len(x) \in Nat /\ Len(s) \in Nat
  OBVIOUS
<1>2. y \in Seq(Byte) /\ Len(y) = Len(x) /\ \A i \in 1 .. Len(x) : y[i] = s[at + i]
  BY <1>1
<1>3. \A i \in 1 .. Len(x) : s[at + i] = x[i]
  BY <1>1 DEF Agrees
<1> HIDE DEF y
<1>4. \A i \in 1 .. Len(y) : y[i] = x[i]
  BY <1>2, <1>3
<1>5. y = x
  BY <1>2, <1>4, SeqEqual
<1> QED  BY <1>5 DEF y

\* Two stretches of a sequence, one after the other, are one.
LEMMA Stretches ==
  ASSUME NEW m \in Seq(Byte), NEW k \in Nat, NEW e \in Nat, k <= e, e <= Len(m)
  PROVE  SubSeq(m, k + 1, e) \o SubSeq(m, e + 1, Len(m)) = SubSeq(m, k + 1, Len(m))
<1> DEFINE a == SubSeq(m, k + 1, e)
           b == SubSeq(m, e + 1, Len(m))
           c == SubSeq(m, k + 1, Len(m))
<1>0. Len(m) \in Nat
  OBVIOUS
<1>1. a \in Seq(Byte) /\ Len(a) = e - k /\ \A i \in 1 .. e - k : a[i] = m[k + i]
  BY <1>0
<1>2. b \in Seq(Byte) /\ Len(b) = Len(m) - e /\ \A i \in 1 .. Len(m) - e : b[i] = m[e + i]
  BY <1>0
<1>3. c \in Seq(Byte) /\ Len(c) = Len(m) - k /\ \A i \in 1 .. Len(m) - k : c[i] = m[k + i]
  BY <1>0
<1> HIDE DEF a, b, c
<1>4. /\ a \o b \in Seq(Byte) /\ Len(a \o b) = Len(c)
      /\ \A i \in 1 .. e - k : (a \o b)[i] = m[k + i]
  <2>0. a \in Seq(Byte) /\ b \in Seq(Byte)
    BY <1>1, <1>2
  <2>1. a \o b \in Seq(Byte) /\ Len(a \o b) = Len(a) + Len(b)
    BY <2>0
  <2>2. \A i \in 1 .. e - k : (a \o b)[i] = a[i]
    BY <1>1, <1>2
  <2> QED  BY <1>0, <1>1, <1>2, <1>3, <2>1, <2>2
<1>5. ASSUME NEW i \in 1 .. Len(m) - k, i > e - k
      PROVE  (a \o b)[i] = m[k + i]
  <2>1. (a \o b)[i] = b[i - (e - k)]
    BY <1>0, <1>1, <1>2, <1>5
  <2>2. i - (e - k) \in 1 .. Len(m) - e /\ e + (i - (e - k)) = k + i
    BY <1>0, <1>5
  <2> QED  BY <1>2, <2>1, <2>2
<1>6. \A i \in 1 .. Len(c) : (a \o b)[i] = c[i]
  BY <1>0, <1>3, <1>4, <1>5
<1>7. a \o b = c
  BY <1>3, <1>4, <1>6, SeqEqual
<1> QED  BY <1>7 DEF a, b, c

\* What the walk says at a chunk header, k bytes of the body m before it, when
\* the buffer goes on with t: that more must arrive, that m is too long, or
\* where t ends, and then Body reads the rest of m.
WalkSays(buf, m, t, pos, k) ==
  LET r == Walks(buf)[<<pos, k>>]
  IN  \/ r = -1
      \/ r = -2 /\ Len(m) > MAX_MESSAGE
      \/ /\ r \in Nat /\ r = pos + Len(t) - 2 /\ r + 2 <= Len(buf)
         /\ Bodies(buf, r)[pos] = SubSeq(m, k + 1, Len(m))

\* At the terminator.
LEMMA WalkLast ==
  ASSUME NEW buf \in Seq(Byte), NEW m \in Seq(Byte), NEW pos \in Nat,
         Agrees(buf, pos, to_be_bytes(0))
  PROVE  WalkSays(buf, m, to_be_bytes(0), pos, Len(m))
<1> DEFINE N == Len(m)
           r == Walks(buf)[<<pos, N>>]
<1>0. N \in Nat /\ Len(buf) \in Nat
  OBVIOUS
<1>1. r = WalkTurn(buf, Walks(buf), <<pos, N>>)
  BY <1>0, WalksEquation
<1>2. CASE pos + 2 > Len(buf)
  BY <1>1, <1>2 DEF WalkTurn, WalkSays
<1>3. CASE pos + 2 <= Len(buf)
  <2>1. 0 \in Nat
    OBVIOUS
  <2>2. Len(to_be_bytes(0)) = 2 /\ from_be_bytes(to_be_bytes(0)[1], to_be_bytes(0)[2]) = 0
    BY <2>1, BigEndian
  <2>3. buf[pos + 1] = to_be_bytes(0)[1] /\ buf[pos + 2] = to_be_bytes(0)[2]
    BY <1>0, <1>3, <2>2 DEF Agrees
  <2>4. SizeAt(buf, pos) = 0
    BY <2>2, <2>3 DEF SizeAt
  <2>5. r = pos
    BY <1>0, <1>1, <1>3, <2>4 DEF WalkTurn
  <2>6. Bodies(buf, pos)[pos] = << >>
    BY <1>3, BodiesEquation DEF BodyTurn
  <2>7. SubSeq(m, N + 1, N) = << >>
    BY <1>0
  <2>8. r \in Nat /\ r = pos + Len(to_be_bytes(0)) - 2 /\ r + 2 <= Len(buf)
    <3> HIDE DEF r
    <3>1. r \in Nat /\ r + 2 <= Len(buf) /\ pos + 2 - 2 = pos
      BY <1>3, <2>5
    <3>2. pos + Len(to_be_bytes(0)) - 2 = pos + 2 - 2
      BY <2>2
    <3> QED  BY <2>5, <3>1, <3>2
  <2>9. Bodies(buf, r)[pos] = SubSeq(m, N + 1, N)
    BY <2>5, <2>6, <2>7
  <2> HIDE DEF r
  <2> QED  BY <2>8, <2>9 DEF WalkSays, r
<1> QED  BY <1>0, <1>2, <1>3

\* The length of a frame, and a chunk's header as the walk sees it.
LEMMA ChunkSeen ==
  ASSUME NEW m \in Message, NEW cuts \in Cuts(m), NEW k \in 0 .. Len(m), k < Len(m),
         NEW buf \in Seq(Byte), NEW pos \in Nat, Agrees(buf, pos, Frames(m, cuts)[k])
  PROVE  LET T == Frames(m, cuts)
             e == CutAfter(m, cuts, k)
         IN  /\ e \in k + 1 .. Len(m)
             /\ T[e] \in Seq(Byte) /\ Len(T[e]) \in Nat /\ Len(T[e]) >= 2
             /\ Len(T[k]) = 2 + (e - k) + Len(T[e])
             /\ pos + 2 <= Len(buf) => SizeAt(buf, pos) = e - k
             /\ Agrees(buf, pos + 2, SubSeq(m, k + 1, e))
             /\ Len(SubSeq(m, k + 1, e)) = e - k
             /\ Agrees(buf, pos + 2 + (e - k), T[e])
<1> DEFINE T == Frames(m, cuts)
           e == CutAfter(m, cuts, k)
           h == to_be_bytes(e - k)
           x == SubSeq(m, k + 1, e)
           u == T[e]
<1>0. m \in Seq(Byte) /\ Len(m) \in Nat
  BY FramingAssumption
<1>1. e \in k + 1 .. Len(m) /\ e - k <= MAX_CHUNK
  BY <1>0, ChunkFits
<1>2. e \in 0 .. Len(m) /\ e - k \in Nat
  BY <1>0, <1>1
<1>3. T[k] = h \o x \o u
  BY FrameParts
<1>4. u \in Seq(Byte) /\ Len(u) >= 2 /\ Len(u) \in Nat
  BY <1>2, FrameParts
<1>5. h \in Seq(Byte) /\ Len(h) = 2 /\ from_be_bytes(h[1], h[2]) = e - k
  BY <1>1, <1>2, BigEndian
<1>6. x \in Seq(Byte) /\ Len(x) = e - k
  BY <1>0, <1>1
<1> HIDE DEF h, x, u, e, T
<1>7. Agrees(buf, pos, h \o x \o u)
  BY <1>3 DEF T
<1>8. /\ pos + 2 <= Len(buf) => buf[pos + 1] = h[1] /\ buf[pos + 2] = h[2]
      /\ Agrees(buf, pos + 2, x)
      /\ Agrees(buf, pos + 2 + Len(x), u)
  BY <1>4, <1>5, <1>6, <1>7, AgreesParts
<1>9. Len(h \o x \o u) = Len(h) + Len(x) + Len(u)
  <2>1. Joined(h \o x \o u, h, x, u)
    BY <1>4, <1>5, <1>6, ThreeParts
  <2> QED  BY <2>1 DEF Joined
<1>10. pos + 2 <= Len(buf) => SizeAt(buf, pos) = e - k
  BY <1>5, <1>8 DEF SizeAt
<1>11. Len(T[k]) = 2 + (e - k) + Len(u)
  BY <1>3, <1>5, <1>6, <1>9
<1>12. Agrees(buf, pos + 2 + (e - k), u)
  BY <1>6, <1>8
<1> QED  BY <1>1, <1>4, <1>6, <1>8, <1>10, <1>11, <1>12 DEF x, u, e, T

\* At a chunk, if it holds at the next one.
LEMMA WalkChunk ==
  ASSUME NEW m \in Message, NEW cuts \in Cuts(m), NEW k \in 0 .. Len(m), k < Len(m),
         NEW buf \in Seq(Byte), NEW pos \in Nat, Agrees(buf, pos, Frames(m, cuts)[k]),
         \A p \in Nat : Agrees(buf, p, Frames(m, cuts)[CutAfter(m, cuts, k)]) =>
           WalkSays(buf, m, Frames(m, cuts)[CutAfter(m, cuts, k)], p, CutAfter(m, cuts, k))
  PROVE  WalkSays(buf, m, Frames(m, cuts)[k], pos, k)
<1> DEFINE T == Frames(m, cuts)
           e == CutAfter(m, cuts, k)
           x == SubSeq(m, k + 1, e)
           r == Walks(buf)[<<pos, k>>]
           next == pos + 2 + (e - k)
<1>0. m \in Seq(Byte) /\ Len(m) \in Nat /\ Len(buf) \in Nat
  BY FramingAssumption
<1>1. /\ e \in k + 1 .. Len(m)
      /\ T[e] \in Seq(Byte) /\ Len(T[e]) \in Nat /\ Len(T[e]) >= 2
      /\ Len(T[k]) = 2 + (e - k) + Len(T[e])
      /\ pos + 2 <= Len(buf) => SizeAt(buf, pos) = e - k
      /\ Agrees(buf, pos + 2, x)
      /\ Len(x) = e - k
      /\ Agrees(buf, pos + 2 + (e - k), T[e])
  BY ChunkSeen
<1>2. r = WalkTurn(buf, Walks(buf), <<pos, k>>)
  BY <1>0, WalksEquation
<1>3. next \in Nat /\ e \in Nat /\ e <= Len(m)
  BY <1>0, <1>1
<1>4. Agrees(buf, next, T[e]) => WalkSays(buf, m, T[e], next, e)
  BY <1>3
<1>5. WalkSays(buf, m, T[e], next, e)
  BY <1>1, <1>4
<1>6. x \in Seq(Byte)
  BY <1>0, <1>1
<1> HIDE DEF T, e, x, r
<1>7. CASE pos + 2 > Len(buf)
  <2>1. r = -1
    BY <1>2, <1>7 DEF WalkTurn
  <2> QED  BY <2>1 DEF WalkSays, r
<1>8. CASE pos + 2 <= Len(buf)
  <2>0. SizeAt(buf, pos) = e - k /\ e - k # 0 /\ k + (e - k) = e
    BY <1>1, <1>3, <1>8
  <2>1. CASE TooLong(e)
    <3>1. r = -2
      BY <1>2, <1>8, <2>0, <2>1 DEF WalkTurn
    <3>2. Len(m) > MAX_MESSAGE
      BY <1>0, <1>3, <2>1, FramingAssumption DEF TooLong
    <3> QED  BY <3>1, <3>2 DEF WalkSays, r
  <2>2. CASE ~TooLong(e) /\ Len(buf) < next
    <3>1. r = -1
      BY <1>2, <1>8, <2>0, <2>2 DEF WalkTurn
    <3> QED  BY <3>1 DEF WalkSays, r
  <2>3. CASE ~TooLong(e) /\ ~(Len(buf) < next)
    <3> DEFINE q == Walks(buf)[<<next, e>>]
    <3>1. r = q
      BY <1>2, <1>8, <2>0, <2>3 DEF WalkTurn
    <3>2. CASE q = -1
      BY <3>1, <3>2 DEF WalkSays, r
    <3>3. CASE q = -2 /\ Len(m) > MAX_MESSAGE
      BY <3>1, <3>3 DEF WalkSays, r
    <3>4. CASE /\ q \in Nat /\ q = next + Len(T[e]) - 2 /\ q + 2 <= Len(buf)
               /\ Bodies(buf, q)[next] = SubSeq(m, e + 1, Len(m))
      <4> HIDE DEF q
      <4>1. r \in Nat /\ r = pos + Len(T[k]) - 2 /\ r + 2 <= Len(buf) /\ pos < r
        <5> DEFINE a == Len(T[e])
                   b == Len(T[k])
        <5>1. a \in Nat /\ a >= 2 /\ b = 2 + (e - k) + a /\ e \in k + 1 .. Len(m)
          BY <1>1
        <5>2. q \in Nat /\ q = pos + 2 + (e - k) + a - 2 /\ q + 2 <= Len(buf)
          BY <3>4
        <5> HIDE DEF a, b
        <5>3. q = pos + b - 2 /\ pos < q
          BY <1>0, <1>3, <5>1, <5>2
        <5> QED  BY <3>1, <5>2, <5>3 DEF b
      <4>2. Bodies(buf, r)[pos] = BodyTurn(buf, r, Bodies(buf, r), pos)
        BY <4>1, BodiesEquation
      <4>3. Bodies(buf, r)[pos] = SubSeq(buf, pos + 3, next) \o Bodies(buf, r)[next]
        <5>1. ~(pos >= r) /\ pos + 2 + SizeAt(buf, pos) = next
          BY <2>0, <4>1
        <5> QED  BY <4>2, <5>1 DEF BodyTurn
      <4>4. SubSeq(buf, pos + 3, next) = x
        <5>1. pos + 2 \in Nat /\ (pos + 2) + Len(x) = next /\ (pos + 2) + 1 = pos + 3
          BY <1>1, <1>3
        <5>2. next <= Len(buf)
          BY <1>0, <1>3, <2>3
        <5>3. SubSeq(buf, (pos + 2) + 1, (pos + 2) + Len(x)) = x
          <6> HIDE DEF next
          <6> QED  BY <1>1, <1>6, <5>1, <5>2, Stretch
        <5> QED  BY <5>1, <5>3
      <4>5. x \o SubSeq(m, e + 1, Len(m)) = SubSeq(m, k + 1, Len(m))
        <5>1. k \in Nat /\ k <= e
          BY <1>0, <1>1
        <5> QED  BY <1>0, <1>3, <5>1, Stretches DEF x
      <4>6. Bodies(buf, r)[pos] = SubSeq(m, k + 1, Len(m))
        BY <3>1, <3>4, <4>3, <4>4, <4>5
      <4> QED  BY <4>1, <4>6 DEF WalkSays, r, T
    <3> QED  BY <1>5, <3>2, <3>3, <3>4 DEF WalkSays
  <2> QED  BY <2>1, <2>2, <2>3
<1> QED  BY <1>0, <1>7, <1>8

\* The walk over a frame.
LEMMA WalkFramed ==
  ASSUME NEW m \in Message, NEW cuts \in Cuts(m), NEW buf \in Seq(Byte),
         Agrees(buf, 0, Framed(m, cuts))
  PROVE  \/ Walk(buf) = -1
         \/ Walk(buf) = -2 /\ Len(m) > MAX_MESSAGE
         \/ /\ Walk(buf) \in Nat /\ Walk(buf) = Len(Framed(m, cuts)) - 2
            /\ Walk(buf) + 2 <= Len(buf) /\ Body(buf, Walk(buf)) = m
<1> DEFINE T == Frames(m, cuts)
           N == Len(m)
           e(i) == CutAfter(m, cuts, i)
           P(i) == \A p \in Nat : Agrees(buf, p, T[i]) => WalkSays(buf, m, T[i], p, i)
<1>0. m \in Seq(Byte) /\ N \in Nat /\ Len(buf) \in Nat
  BY FramingAssumption
<1>1. P(N)
  <2>1. N \in 0 .. N
    BY <1>0
  <2>2. T[N] = to_be_bytes(0)
    BY <2>1, FrameParts
  <2> QED  BY <1>0, <2>2, WalkLast
<1>2. ASSUME NEW i \in 0 .. N, i < N, P(e(i))
      PROVE  P(i)
  BY <1>2, WalkChunk
<1> HIDE DEF P
<1>3. \A i \in 0 .. N : P(i)
  <2> DEFINE S == {j \in Nat : j <= N /\ ~P(N - j)}
  <2> SUFFICES ASSUME S # {}
               PROVE  FALSE
    <3>1. ASSUME NEW i \in 0 .. N, ~P(i)
          PROVE  N - i \in S
      <4>1. N - i \in Nat /\ N - i <= N /\ N - (N - i) = i
        BY <1>0
      <4> QED  BY <3>1, <4>1
    <3> QED  BY <3>1
  <2>1. PICK j \in S : \A i \in S : j <= i
    BY LeastNat
  <2> DEFINE i == N - j
  <2>2. i \in 0 .. N /\ ~P(i) /\ j \in Nat
    BY <1>0, <2>1
  <2>3. i < N
    BY <1>0, <1>1, <2>2
  <2>4. e(i) \in i + 1 .. N
    BY <1>0, <2>2, <2>3, ChunkFits
  <2>5. N - e(i) \in Nat /\ N - e(i) <= N /\ ~(j <= N - e(i)) /\ N - (N - e(i)) = e(i)
    BY <1>0, <2>1, <2>2, <2>4
  <2>6. P(e(i))
    BY <2>1, <2>5
  <2> QED  BY <1>2, <2>2, <2>3, <2>6
<1>4. P(0)
  BY <1>0, <1>3
<1>5. Agrees(buf, 0, T[0])
  BY AtTheStart
<1>6. WalkSays(buf, m, T[0], 0, 0)
  BY <1>4, <1>5 DEF P
<1> DEFINE r == Walks(buf)[<<0, 0>>]
<1>7. \/ r = -1
      \/ r = -2 /\ Len(m) > MAX_MESSAGE
      \/ /\ r \in Nat /\ r = 0 + Len(T[0]) - 2 /\ r + 2 <= Len(buf)
         /\ Bodies(buf, r)[0] = SubSeq(m, 0 + 1, Len(m))
  BY <1>6 DEF WalkSays
<1>8. SubSeq(m, 0 + 1, Len(m)) = m
  BY <1>0
<1>9. 0 \in 0 .. N
  BY <1>0
<1>10. T[0] \in Seq(Byte)
  BY <1>9, FrameParts
<1>11. 0 + Len(T[0]) - 2 = Len(T[0]) - 2
  BY <1>10
<1>12. r = Walk(buf) /\ T[0] = Framed(m, cuts) /\ Bodies(buf, r)[0] = Body(buf, r)
  BY AtTheStart
<1> HIDE DEF r, T
<1> QED  BY <1>7, <1>8, <1>11, <1>12

\* A frame is bytes, and does not begin as a NOOP does: its first chunk is not
\* empty.
LEMMA FrameHead ==
  ASSUME NEW m \in Message, NEW cuts \in Cuts(m)
  PROVE  LET t == Framed(m, cuts)
         IN  /\ t \in Seq(Byte) /\ Len(t) \in Nat /\ Len(t) >= 2
             /\ ~(t[1] = 0 /\ t[2] = 0)
<1> DEFINE T == Frames(m, cuts)
           e == CutAfter(m, cuts, 0)
           h == to_be_bytes(e - 0)
           x == SubSeq(m, 0 + 1, e)
           u == T[e]
           t == T[0]
<1>0. m \in Seq(Byte) /\ Len(m) \in Nat /\ m # << >>
  BY FramingAssumption
<1>1. 0 \in 0 .. Len(m) /\ 0 < Len(m)
  BY <1>0
<1>2. e \in 1 .. Len(m) /\ e - 0 <= MAX_CHUNK
  BY <1>1, ChunkFits
<1>3. e - 0 \in Nat /\ e - 0 # 0 /\ e \in 0 .. Len(m)
  BY <1>2
<1>4. h \in Seq(Byte) /\ Len(h) = 2 /\ from_be_bytes(h[1], h[2]) = e - 0
  BY <1>2, <1>3, BigEndian
<1>5. t \in Seq(Byte) /\ Len(t) >= 2 /\ t = h \o x \o u
  BY <1>1, FrameParts
<1>6. u \in Seq(Byte)
  BY <1>3, FrameParts
<1>7. x \in Seq(Byte)
  BY <1>0, <1>2
<1> HIDE DEF h, x, u, e, T, t
<1>8. Joined(t, h, x, u)
  BY <1>4, <1>5, <1>6, <1>7, ThreeParts
<1>9. t[1] = h[1] /\ t[2] = h[2]
  BY <1>4, <1>8 DEF Joined
<1>10. from_be_bytes(0, 0) = 0
  BY FramingAssumption DEF from_be_bytes
<1>11. ~(t[1] = 0 /\ t[2] = 0)
  BY <1>3, <1>4, <1>9, <1>10
<1>12. Framed(m, cuts) = t
  BY AtTheStart DEF t, T
<1> QED  BY <1>5, <1>11, <1>12

\* The next multiple of n after k.
LEMMA NextMultiple ==
  ASSUME NEW k \in Nat, NEW n \in Nat \ {0}
  PROVE  \E j \in 1 .. n : (k + j) % n = 0
<1> DEFINE q == k \div n
           r == k % n
           j == n - r
<1>1. k = q * n + r /\ q \in Nat /\ r \in 0 .. n - 1
  BY DivMod
<1> HIDE DEF q, r
<1>2. j \in 1 .. n
  BY <1>1
<1>3. k + j = (q + 1) * n
  BY <1>1
<1>4. ((q + 1) * n) % n = 0
  <2> DEFINE p == q + 1
             a == p * n
  <2>1. p \in Nat /\ a \in Nat
    BY <1>1
  <2>2. a = (a \div n) * n + (a % n) /\ a \div n \in Nat /\ a % n \in 0 .. n - 1
    BY <2>1, DivMod
  <2> DEFINE d == a \div n
             w == a % n
  <2>3. d \in Nat /\ w \in 0 .. n - 1 /\ p * n = d * n + w
    BY <2>2
  <2> HIDE DEF p, a, d, w
  <2>4. (p - d) * n = w
    BY <2>1, <2>3
  <2>5. p - d \in Int
    BY <2>1, <2>3
  <2>6. p - d >= 1 => (p - d) * n >= n
    BY <2>5
  <2>7. p - d <= -1 => (p - d) * n <= -n
    BY <2>5
  <2>8. p - d = 0
    BY <2>3, <2>4, <2>5, <2>6, <2>7
  <2>9. w = 0
    BY <2>4, <2>8
  <2> QED  BY <2>9 DEF w, a, p
<1> QED  BY <1>2, <1>3, <1>4

\* encode cuts as a peer may.
LEMMA EncodeCuts ==
  ASSUME NEW m \in Message
  PROVE  \E c \in Cuts(m) : encode(m) = Framed(m, c)
<1> DEFINE c == {k \in 1 .. Len(m) - 1 : k % MAX_CHUNK = 0}
<1>0. m \in Seq(Byte) /\ Len(m) \in Nat
  BY FramingAssumption
<1>1. MAX_CHUNK \in Nat \ {0}
  <2>1. Base \in Nat /\ Base >= 2
    BY FramingAssumption
  <2>2. Base * Base \in Nat /\ Base * Base >= 2 * Base
    BY <2>1
  <2> QED  BY <2>1, <2>2 DEF MAX_CHUNK
<1>2. ASSUME NEW k \in 0 .. Len(m) - MAX_CHUNK - 1
      PROVE  \E j \in 1 .. MAX_CHUNK : k + j \in c
  <2>1. k \in Nat
    BY <1>0, <1>1
  <2>2. PICK j \in 1 .. MAX_CHUNK : (k + j) % MAX_CHUNK = 0
    BY <1>1, <2>1, NextMultiple
  <2>3. k + j \in 1 .. Len(m) - 1
    BY <1>0, <1>1, <2>1
  <2> QED  BY <2>2, <2>3
<1>3. c \in SUBSET (1 .. Len(m) - 1)
  OBVIOUS
<1>4. c \in Cuts(m)
  <2> HIDE DEF c
  <2> QED  BY <1>2, <1>3 DEF Cuts
<1>5. encode(m) = Framed(m, c)
  BY DEF encode
<1> QED  BY <1>4, <1>5

\* SkipNoops drops an even number of zeros, and leaves no pair of them.
LEMMA SkipFacts ==
  ASSUME NEW buf \in Seq(Byte)
  PROVE  \E n \in Nat :
           /\ 2 * n <= Len(buf)
           /\ SkipNoops(buf) = SubSeq(buf, 2 * n + 1, Len(buf))
           /\ \A i \in 1 .. 2 * n : buf[i] = 0
           /\ 2 * n + 2 <= Len(buf) => ~(buf[2 * n + 1] = 0 /\ buf[2 * n + 2] = 0)
<1> DEFINE N == Len(buf)
           zero(n) == \A k \in 1 .. 2 * n : buf[k] = 0
           S == {n \in 0 .. N \div 2 : zero(n)}
           n == Max(S)
<1>0. N \in Nat /\ N \div 2 \in Nat /\ N = (N \div 2) * 2 + (N % 2) /\ N % 2 \in 0 .. 1
  <2>1. N \in Nat /\ 2 \in Nat \ {0}
    OBVIOUS
  <2>2. N = (N \div 2) * 2 + (N % 2) /\ N \div 2 \in Nat /\ N % 2 \in 0 .. 2 - 1
    BY <2>1, DivMod
  <2>3. 0 .. 2 - 1 = 0 .. 1
    OBVIOUS
  <2> HIDE DEF N
  <2> QED  BY <2>1, <2>2, <2>3
<1>1. 0 \in S
  BY <1>0
<1>2. \A y \in S : y \in 0 .. N \div 2
  OBVIOUS
<1>3. n \in S /\ \A y \in S : y <= n
  BY <1>0, <1>1, <1>2, MaxFacts
<1>4. SkipNoops(buf) = SubSeq(buf, 2 * n + 1, Len(buf))
  BY DEF SkipNoops
<1> HIDE DEF n
<1>5. n \in Nat /\ 2 * n <= N /\ zero(n)
  BY <1>0, <1>3
<1>6. ASSUME 2 * n + 2 <= N, buf[2 * n + 1] = 0, buf[2 * n + 2] = 0
      PROVE  FALSE
  <2>1. n + 1 \in 0 .. N \div 2
    BY <1>0, <1>5, <1>6
  <2>2. zero(n + 1)
    <3> SUFFICES ASSUME NEW k \in 1 .. 2 * (n + 1)
                 PROVE  buf[k] = 0
      OBVIOUS
    <3>1. k \in 1 .. 2 * n \/ k = 2 * n + 1 \/ k = 2 * n + 2
      BY <1>5
    <3> QED  BY <1>5, <1>6, <3>1
  <2>3. n + 1 \in S
    BY <2>1, <2>2
  <2> QED  BY <1>3, <1>5, <2>3
<1> QED  BY <1>4, <1>5, <1>6

-----------------------------------------------------------------------------
(* The stream: the bytes in the buffer and in flight *)

\* From a to b, as far as s goes, there are pairs of zeros.
Gap(s, a, b) ==
  /\ \E h \in Nat : b = a + 2 * h
  /\ \A i \in a + 1 .. b : i <= Len(s) => s[i] = 0

\* t is m, cut somewhere.
IsFrame(t, m) == \E c \in Cuts(m) : t = Framed(m, c)

\* After n of the messages of ms, s holds the others: the k-th begins at
\* start[k], framed as frame[k], and between two of them there are NOOPs.
\* start[Len(ms) + 1] is where the next message would begin.  Of a stream
\* that is cut off, s is a prefix.
Laid(s, cutOff, ms, n, start, frame) ==
  /\ start \in [Nat -> Int]
  /\ \A k \in n + 1 .. Len(ms) + 1 : start[k] >= 0
  /\ \A j, k \in n + 1 .. Len(ms) + 1 : j <= k => start[j] <= start[k]
  /\ Gap(s, 0, start[n + 1])
  /\ \A k \in n + 1 .. Len(ms) :
       /\ IsFrame(frame[k], ms[k])
       /\ Agrees(s, start[k], frame[k])
       /\ Gap(s, start[k] + Len(frame[k]), start[k + 1])
  /\ Len(s) <= start[Len(ms) + 1]
  /\ ~cutOff => Len(s) = start[Len(ms) + 1]

\* A message's place in the stream.
LEMMA Place ==
  ASSUME NEW s, NEW cutOff, NEW ms \in Seq(Message), NEW n \in Nat, n <= Len(ms),
         NEW start, NEW frame, Laid(s, cutOff, ms, n, start, frame),
         NEW k \in n + 1 .. Len(ms)
  PROVE  /\ ms[k] \in Message
         /\ IsFrame(frame[k], ms[k])
         /\ frame[k] \in Seq(Byte) /\ Len(frame[k]) \in Nat /\ Len(frame[k]) >= 2
         /\ ~(frame[k][1] = 0 /\ frame[k][2] = 0)
         /\ k \in Nat /\ k + 1 \in Nat /\ k + 1 \in n + 1 .. Len(ms) + 1
         /\ start[k] \in Nat /\ start[k + 1] \in Nat
         /\ start[k] + Len(frame[k]) <= start[k + 1]
         /\ start[k + 1] <= start[Len(ms) + 1]
         /\ Agrees(s, start[k], frame[k])
         /\ Gap(s, start[k] + Len(frame[k]), start[k + 1])
<1>0. /\ Len(ms) \in Nat /\ k \in Nat /\ k + 1 \in Nat /\ Len(ms) + 1 \in n + 1 .. Len(ms) + 1
      /\ k \in n + 1 .. Len(ms) + 1 /\ k + 1 \in n + 1 .. Len(ms) + 1 /\ k + 1 <= Len(ms) + 1
      /\ k \in 1 .. Len(ms)
  OBVIOUS
<1>1. ms[k] \in Message
  BY <1>0
<1>2. IsFrame(frame[k], ms[k])
  BY DEF Laid
<1>3. /\ frame[k] \in Seq(Byte) /\ Len(frame[k]) \in Nat /\ Len(frame[k]) >= 2
      /\ ~(frame[k][1] = 0 /\ frame[k][2] = 0)
  BY <1>1, <1>2, FrameHead DEF IsFrame
<1>4. start \in [Nat -> Int] /\ start[k] >= 0 /\ start[k + 1] >= 0
  BY <1>0 DEF Laid
<1>5. start[k] \in Nat /\ start[k + 1] \in Nat
  BY <1>0, <1>4
<1>6. start[k + 1] <= start[Len(ms) + 1]
  BY <1>0 DEF Laid
<1>7. Agrees(s, start[k], frame[k]) /\ Gap(s, start[k] + Len(frame[k]), start[k + 1])
  BY DEF Laid
<1>8. start[k] + Len(frame[k]) <= start[k + 1]
  <2>1. PICK h \in Nat : start[k + 1] = start[k] + Len(frame[k]) + 2 * h
    BY <1>7 DEF Gap
  <2> QED  BY <1>3, <1>5, <2>1
<1> QED  BY <1>0, <1>1, <1>2, <1>3, <1>5, <1>6, <1>7, <1>8

\* Where the next message begins, and where the stream ends.
LEMMA Ends ==
  ASSUME NEW s, NEW cutOff, NEW ms \in Seq(Message), NEW n \in Nat, n <= Len(ms),
         NEW start, NEW frame, Laid(s, cutOff, ms, n, start, frame)
  PROVE  /\ Len(ms) \in Nat /\ n + 1 \in Nat /\ Len(ms) + 1 \in Nat
         /\ start[n + 1] \in Nat /\ start[Len(ms) + 1] \in Nat
         /\ start[n + 1] <= start[Len(ms) + 1]
         /\ Gap(s, 0, start[n + 1])
<1>0. /\ Len(ms) \in Nat /\ n + 1 \in Nat /\ Len(ms) + 1 \in Nat
      /\ n + 1 \in n + 1 .. Len(ms) + 1 /\ Len(ms) + 1 \in n + 1 .. Len(ms) + 1
      /\ n + 1 <= Len(ms) + 1
  OBVIOUS
<1>1. start \in [Nat -> Int] /\ start[n + 1] >= 0 /\ start[Len(ms) + 1] >= 0
  BY <1>0 DEF Laid
<1>2. start[n + 1] <= start[Len(ms) + 1] /\ Gap(s, 0, start[n + 1])
  BY <1>0 DEF Laid
<1> QED  BY <1>0, <1>1, <1>2

\* The places are in order.
LEMMA Starts ==
  ASSUME NEW s, NEW cutOff, NEW ms \in Seq(Message), NEW n \in Nat, n <= Len(ms),
         NEW start, NEW frame, Laid(s, cutOff, ms, n, start, frame),
         NEW k \in n + 1 .. Len(ms) + 1
  PROVE  /\ k \in Nat /\ start[k] \in Nat
         /\ start[n + 1] <= start[k] /\ start[k] <= start[Len(ms) + 1]
         /\ \A j \in n + 1 .. k : start[j] <= start[k]
<1>0. /\ Len(ms) \in Nat /\ k \in Nat
      /\ n + 1 \in n + 1 .. Len(ms) + 1 /\ Len(ms) + 1 \in n + 1 .. Len(ms) + 1
      /\ n + 1 <= k /\ k <= Len(ms) + 1
      /\ \A j \in n + 1 .. k : j \in n + 1 .. Len(ms) + 1 /\ j <= k
  OBVIOUS
<1>1. start \in [Nat -> Int] /\ start[k] >= 0
  BY DEF Laid
<1>2. \A i, j \in n + 1 .. Len(ms) + 1 : i <= j => start[i] <= start[j]
  BY DEF Laid
<1>3. start[n + 1] <= start[k] /\ start[k] <= start[Len(ms) + 1]
  BY <1>0, <1>2
<1>4. \A j \in n + 1 .. k : start[j] <= start[k]
  BY <1>0, <1>2
<1> QED  BY <1>0, <1>1, <1>3, <1>4

\* More bytes leave what the stream already holds as it is.
LEMMA Longer ==
  ASSUME NEW s \in Seq(Byte), NEW t \in Seq(Byte), NEW a \in Nat
  PROVE  /\ \A b \in Nat : b <= Len(s) /\ Gap(s, a, b) => Gap(s \o t, a, b)
         /\ \A f \in Seq(Byte) : a + Len(f) <= Len(s) /\ Agrees(s, a, f) => Agrees(s \o t, a, f)
         /\ Agrees(s \o t, Len(s), t)
<1> DEFINE st == s \o t
<1>1. /\ st \in Seq(Byte) /\ Len(st) = Len(s) + Len(t) /\ Len(s) \in Nat /\ Len(t) \in Nat
      /\ \A i \in 1 .. Len(s) : st[i] = s[i]
      /\ \A i \in 1 .. Len(t) : st[Len(s) + i] = t[i]
  BY TwoParts
<1> HIDE DEF st
<1>2. ASSUME NEW b \in Nat, b <= Len(s), Gap(s, a, b)
      PROVE  Gap(st, a, b)
  <2>1. \A i \in a + 1 .. b : i \in 1 .. Len(s) /\ s[i] = 0
    BY <1>1, <1>2 DEF Gap
  <2>2. \A i \in a + 1 .. b : st[i] = 0
    BY <1>1, <2>1
  <2> QED  BY <1>2, <2>2 DEF Gap
<1>3. ASSUME NEW f \in Seq(Byte), a + Len(f) <= Len(s), Agrees(s, a, f)
      PROVE  Agrees(st, a, f)
  <2>1. Len(f) \in Nat
    OBVIOUS
  <2>2. \A i \in 1 .. Len(f) : a + i \in 1 .. Len(s) /\ s[a + i] = f[i]
    BY <1>1, <1>3, <2>1 DEF Agrees
  <2> QED  BY <1>1, <2>2 DEF Agrees
<1>4. Agrees(st, Len(s), t)
  BY <1>1 DEF Agrees
<1> QED  BY <1>2, <1>3, <1>4 DEF st

\* The peer sends a message.
LEMMA LaidPut ==
  ASSUME NEW s \in Seq(Byte), NEW ms \in Seq(Message), NEW n \in Nat, n <= Len(ms),
         NEW start, NEW frame, Laid(s, FALSE, ms, n, start, frame),
         NEW m \in Message, NEW c \in Cuts(m)
  PROVE  \E st, fr : Laid(s \o Framed(m, c), FALSE, Append(ms, m), n, st, fr)
<1> DEFINE t == Framed(m, c)
           N == Len(ms)
           s2 == s \o t
           ms2 == Append(ms, m)
           E == start[N + 1]
           L == Len(t)
           st == [k \in Nat |-> IF k = N + 2 THEN E + L ELSE start[k]]
           fr == [k \in Nat |-> IF k = N + 1 THEN t ELSE frame[k]]
<1>0. t \in Seq(Byte) /\ L \in Nat /\ L >= 2
  BY FrameHead
<1>1. /\ N \in Nat /\ start[n + 1] \in Nat /\ E \in Nat
      /\ start[n + 1] <= E /\ Gap(s, 0, start[n + 1])
  BY Ends
<1>2. Len(s) = E /\ start \in [Nat -> Int]
  BY DEF Laid
<1>3. Len(ms2) = N + 1 /\ ms2[N + 1] = m /\ \A k \in 1 .. N : ms2[k] = ms[k]
  BY <1>1
<1>4. s2 \in Seq(Byte) /\ Len(s2) = Len(s) + L
  BY <1>0
<1>a. \A k \in n + 1 .. N + 1 :
        k \in Nat /\ start[k] \in Nat /\ start[k] <= E
        /\ \A j \in n + 1 .. k : start[j] <= start[k]
  BY Starts
<1>b. \A k \in n + 1 .. N :
        /\ IsFrame(frame[k], ms[k])
        /\ frame[k] \in Seq(Byte) /\ Len(frame[k]) \in Nat
        /\ start[k] \in Nat /\ start[k + 1] \in Nat
        /\ start[k] + Len(frame[k]) <= start[k + 1]
        /\ start[k + 1] <= E
        /\ Agrees(s, start[k], frame[k])
        /\ Gap(s, start[k] + Len(frame[k]), start[k + 1])
  <2> SUFFICES ASSUME NEW k \in n + 1 .. N
               PROVE  /\ IsFrame(frame[k], ms[k])
                      /\ frame[k] \in Seq(Byte) /\ Len(frame[k]) \in Nat
                      /\ start[k] \in Nat /\ start[k + 1] \in Nat
                      /\ start[k] + Len(frame[k]) <= start[k + 1]
                      /\ start[k + 1] <= E
                      /\ Agrees(s, start[k], frame[k])
                      /\ Gap(s, start[k] + Len(frame[k]), start[k + 1])
    OBVIOUS
  <2> QED  BY Place
<1>c. n \in Nat /\ n <= N
  OBVIOUS
<1> HIDE DEF t, s2, ms2, N, E, L
<1>5. st \in [Nat -> Int] /\ st[N + 2] = E + L
      /\ \A k \in n + 1 .. N + 1 : st[k] = start[k]
  <2>1. E + L \in Int
    BY <1>0, <1>1
  <2>2. st \in [Nat -> Int]
    BY <1>2, <2>1
  <2>3. N + 2 \in Nat /\ \A k \in n + 1 .. N + 1 : k \in Nat /\ k # N + 2
    BY <1>1, <1>c
  <2> QED  BY <2>2, <2>3
<1>6. fr[N + 1] = t /\ \A k \in n + 1 .. N : fr[k] = frame[k]
  BY <1>1, <1>c
<1> HIDE DEF st, fr
<1>7. \A k \in n + 1 .. N + 2 : k \in n + 1 .. N + 1 \/ k = N + 2
  BY <1>1, <1>c
<1>8. \A k \in n + 1 .. N + 2 : st[k] >= 0
  <2>1. \A k \in n + 1 .. N + 1 : st[k] = start[k] /\ start[k] \in Nat
    BY <1>5, <1>a
  <2>2. st[N + 2] >= 0
    BY <1>0, <1>1, <1>5
  <2> QED  BY <1>7, <2>1, <2>2
<1>9. \A j, k \in n + 1 .. N + 2 : j <= k => st[j] <= st[k]
  <2> SUFFICES ASSUME NEW j \in n + 1 .. N + 2, NEW k \in n + 1 .. N + 2, j <= k
               PROVE  st[j] <= st[k]
    OBVIOUS
  <2>1. CASE k \in n + 1 .. N + 1
    <3>1. j \in n + 1 .. N + 1 /\ j \in n + 1 .. k
      BY <1>1, <1>c, <2>1
    <3>2. start[j] <= start[k]
      BY <2>1, <3>1, <1>a
    <3> QED  BY <1>5, <2>1, <3>1, <3>2
  <2>2. CASE k = N + 2 /\ j \in n + 1 .. N + 1
    <3>1. st[j] = start[j] /\ start[j] \in Nat /\ start[j] <= E
      BY <1>5, <1>a, <2>2
    <3>2. L \in Nat /\ E \in Nat
      BY <1>0, <1>1
    <3>3. st[k] = E + L
      BY <1>5, <2>2
    <3> QED  BY <3>1, <3>2, <3>3
  <2>3. CASE k = N + 2 /\ j = N + 2
    BY <1>0, <1>1, <1>5, <2>3
  <2>4. k \in n + 1 .. N + 1 \/ (k = N + 2 /\ (j \in n + 1 .. N + 1 \/ j = N + 2))
    BY <1>7
  <2> QED  BY <2>1, <2>2, <2>3, <2>4
<1>10. Gap(s2, 0, st[n + 1])
  <2>1. st[n + 1] = start[n + 1] /\ start[n + 1] <= Len(s)
    BY <1>1, <1>2, <1>5, <1>c
  <2>2. 0 \in Nat
    OBVIOUS
  <2> QED  BY <1>0, <1>1, <2>1, <2>2, Longer DEF s2
<1>11. ASSUME NEW k \in n + 1 .. N
       PROVE  /\ IsFrame(fr[k], ms2[k])
              /\ Agrees(s2, st[k], fr[k])
              /\ Gap(s2, st[k] + Len(fr[k]), st[k + 1])
  <2>1. /\ IsFrame(frame[k], ms[k])
        /\ frame[k] \in Seq(Byte) /\ Len(frame[k]) \in Nat
        /\ start[k] \in Nat /\ start[k + 1] \in Nat
        /\ start[k] + Len(frame[k]) <= start[k + 1]
        /\ start[k + 1] <= E
        /\ Agrees(s, start[k], frame[k])
        /\ Gap(s, start[k] + Len(frame[k]), start[k + 1])
    BY <1>b
  <2>2. k \in 1 .. N /\ k \in n + 1 .. N + 1 /\ k + 1 \in n + 1 .. N + 1
    BY <1>1, <1>c
  <2>3. ms2[k] = ms[k] /\ st[k] = start[k] /\ st[k + 1] = start[k + 1] /\ fr[k] = frame[k]
    BY <1>3, <1>5, <1>6, <2>2
  <2>4. /\ start[k] + Len(frame[k]) \in Nat /\ start[k] + Len(frame[k]) <= Len(s)
        /\ start[k + 1] <= Len(s)
    <3> DEFINE x == start[k]
               y == Len(frame[k])
               z == start[k + 1]
    <3>1. x \in Nat /\ y \in Nat /\ z \in Nat /\ x + y <= z /\ z <= E
      BY <2>1
    <3> HIDE DEF x, y, z
    <3>2. x + y \in Nat /\ x + y <= E /\ z <= E
      BY <1>1, <3>1
    <3> QED  BY <1>2, <3>2 DEF x, y, z
  <2>5. Agrees(s2, start[k], frame[k])
    BY <1>0, <2>1, <2>4, Longer DEF s2
  <2>6. Gap(s2, start[k] + Len(frame[k]), start[k + 1])
    BY <1>0, <2>1, <2>4, Longer DEF s2
  <2> QED  BY <2>1, <2>3, <2>5, <2>6
<1>12. /\ IsFrame(fr[N + 1], ms2[N + 1])
       /\ Agrees(s2, st[N + 1], fr[N + 1])
       /\ Gap(s2, st[N + 1] + Len(fr[N + 1]), st[N + 2])
  <2>1. IsFrame(fr[N + 1], ms2[N + 1])
    BY <1>3, <1>6 DEF t, IsFrame
  <2>2. N + 1 \in n + 1 .. N + 1
    BY <1>1, <1>c
  <2>3. st[N + 1] = Len(s)
    BY <1>2, <1>5, <2>2 DEF E
  <2>4. Agrees(s2, Len(s), t)
    <3>1. 0 \in Nat
      OBVIOUS
    <3> QED  BY <1>0, <3>1, Longer DEF s2
  <2>5. st[N + 2] = Len(s) + L /\ Len(s) + L \in Nat
    BY <1>0, <1>1, <1>2, <1>5, <1>c
  <2>6. \A x \in Nat : Gap(s2, x, x)
    <3> SUFFICES ASSUME NEW x \in Nat
                 PROVE  Gap(s2, x, x)
      OBVIOUS
    <3>1. x = x + 2 * 0 /\ 0 \in Nat /\ x + 1 .. x = {}
      OBVIOUS
    <3> QED  BY <3>1 DEF Gap
  <2> QED  BY <1>6, <2>1, <2>3, <2>4, <2>5, <2>6 DEF L
<1>13. ASSUME NEW k \in n + 1 .. N + 1
       PROVE  /\ IsFrame(fr[k], ms2[k])
              /\ Agrees(s2, st[k], fr[k])
              /\ Gap(s2, st[k] + Len(fr[k]), st[k + 1])
  <2>1. CASE k \in n + 1 .. N
    BY <1>11, <2>1
  <2>2. CASE k = N + 1
    <3>1. k + 1 = N + 2
      BY <1>1, <2>2
    <3> QED  BY <1>12, <2>2, <3>1
  <2>3. k \in n + 1 .. N \/ k = N + 1
    BY <1>1, <1>c
  <2> QED  BY <2>1, <2>2, <2>3
<1>14. Len(s2) = st[N + 2] /\ Len(s2) \in Nat
  BY <1>0, <1>1, <1>2, <1>4, <1>5
<1>15. N + 1 + 1 = N + 2
  BY <1>1
<1>16. Laid(s2, FALSE, ms2, n, st, fr)
  <2>1. \A k \in n + 1 .. Len(ms2) + 1 : st[k] >= 0
    BY <1>3, <1>8, <1>15
  <2>2. \A j, k \in n + 1 .. Len(ms2) + 1 : j <= k => st[j] <= st[k]
    BY <1>3, <1>9, <1>15
  <2>3. \A k \in n + 1 .. Len(ms2) :
          /\ IsFrame(fr[k], ms2[k])
          /\ Agrees(s2, st[k], fr[k])
          /\ Gap(s2, st[k] + Len(fr[k]), st[k + 1])
    BY <1>3, <1>13
  <2>4. Len(s2) <= st[Len(ms2) + 1] /\ Len(s2) = st[Len(ms2) + 1]
    BY <1>3, <1>14, <1>15
  <2> QED  BY <1>5, <1>10, <2>1, <2>2, <2>3, <2>4 DEF Laid
<1> QED  BY <1>16 DEF s2, ms2, t

\* A NOOP is two zeros.
LEMMA Zeros ==
  LET z == to_be_bytes(0)
  IN  z \in Seq(Byte) /\ Len(z) = 2 /\ z[1] = 0 /\ z[2] = 0
<1>1. Base \in Nat \ {0}
  BY FramingAssumption
<1>2. 0 = (0 \div Base) * Base + (0 % Base) /\ 0 \div Base \in Nat /\ 0 % Base \in 0 .. Base - 1
  BY <1>1, DivMod
<1> DEFINE q == 0 \div Base
           r == 0 % Base
<1>3. 0 = q * Base + r /\ q \in Nat /\ r \in 0 .. Base - 1
  BY <1>2
<1> HIDE DEF q, r
<1>4. q >= 1 => q * Base >= Base
  BY <1>1, <1>3
<1>5. q = 0 /\ r = 0
  <2>1. q * Base \in Nat
    BY <1>1, <1>3
  <2> QED  BY <1>1, <1>3, <1>4, <2>1
<1>6. to_be_bytes(0) = <<q, r>>
  BY DEF to_be_bytes, q, r
<1>7. 0 \in Byte
  BY FramingAssumption DEF Byte
<1>8. to_be_bytes(0) = <<0, 0>>
  BY <1>5, <1>6
<1>9. <<0, 0>> \in Seq(Byte) /\ Len(<<0, 0>>) = 2 /\ <<0, 0>>[1] = 0 /\ <<0, 0>>[2] = 0
  BY <1>7
<1> QED  BY <1>8, <1>9

\* Two zeros after a gap that reaches the end make it longer.
LEMMA GapGrows ==
  ASSUME NEW s \in Seq(Byte), NEW a \in Nat, Gap(s, a, Len(s))
  PROVE  Gap(s \o to_be_bytes(0), a, Len(s) + 2)
<1> DEFINE z == to_be_bytes(0)
           st == s \o z
           l == Len(s)
<1>1. z \in Seq(Byte) /\ Len(z) = 2 /\ z[1] = 0 /\ z[2] = 0
  BY Zeros
<1> HIDE DEF z
<1>2. /\ Len(s) \in Nat
      /\ \A i \in 1 .. Len(s) : st[i] = s[i]
      /\ \A i \in 1 .. Len(z) : st[Len(s) + i] = z[i]
  <2>1. z \in Seq(Byte)
    BY <1>1
  <2> QED  BY <2>1
<1> HIDE DEF st
<1>3. l \in Nat /\ (\A i \in 1 .. l : st[i] = s[i]) /\ st[l + 1] = 0 /\ st[l + 2] = 0
  <2>1. 1 \in 1 .. Len(z) /\ 2 \in 1 .. Len(z)
    BY <1>1
  <2>2. st[Len(s) + 1] = z[1] /\ st[Len(s) + 2] = z[2]
    BY <1>2, <2>1
  <2> QED  BY <1>1, <1>2, <2>2
<1>4. PICK h \in Nat : l = a + 2 * h
  BY DEF Gap
<1>5. \A i \in a + 1 .. l : s[i] = 0
  BY <1>2 DEF Gap
<1> HIDE DEF l
<1>6. l + 2 = a + 2 * (h + 1) /\ h + 1 \in Nat
  BY <1>3, <1>4
<1>7. \A i \in a + 1 .. l + 2 : st[i] = 0
  <2> SUFFICES ASSUME NEW i \in a + 1 .. l + 2
               PROVE  st[i] = 0
    OBVIOUS
  <2>1. (i \in a + 1 .. l /\ i \in 1 .. l) \/ i = l + 1 \/ i = l + 2
    BY <1>3
  <2> QED  BY <1>3, <1>5, <2>1
<1>8. Gap(st, a, l + 2)
  BY <1>6, <1>7 DEF Gap
<1> QED  BY <1>8 DEF st, l, z

\* What Laid says of each place, with the last one named.
LEMMA Places ==
  ASSUME NEW s, NEW cutOff, NEW ms \in Seq(Message), NEW n \in Nat, n <= Len(ms),
         NEW start, NEW frame, Laid(s, cutOff, ms, n, start, frame)
  PROVE  /\ \A k \in n + 1 .. Len(ms) + 1 :
              /\ k \in Nat /\ start[k] \in Nat
              /\ start[n + 1] <= start[k] /\ start[k] <= start[Len(ms) + 1]
              /\ \A j \in n + 1 .. k : start[j] <= start[k]
         /\ \A k \in n + 1 .. Len(ms) :
              /\ ms[k] \in Message /\ IsFrame(frame[k], ms[k])
              /\ frame[k] \in Seq(Byte) /\ Len(frame[k]) \in Nat
              /\ start[k] \in Nat /\ start[k + 1] \in Nat
              /\ start[k] + Len(frame[k]) <= start[k + 1]
              /\ start[k + 1] <= start[Len(ms) + 1]
              /\ Agrees(s, start[k], frame[k])
              /\ Gap(s, start[k] + Len(frame[k]), start[k + 1])
<1>1. \A k \in n + 1 .. Len(ms) + 1 :
        /\ k \in Nat /\ start[k] \in Nat
        /\ start[n + 1] <= start[k] /\ start[k] <= start[Len(ms) + 1]
        /\ \A j \in n + 1 .. k : start[j] <= start[k]
  BY Starts
<1>2. ASSUME NEW k \in n + 1 .. Len(ms)
      PROVE  /\ ms[k] \in Message /\ IsFrame(frame[k], ms[k])
             /\ frame[k] \in Seq(Byte) /\ Len(frame[k]) \in Nat
             /\ start[k] \in Nat /\ start[k + 1] \in Nat
             /\ start[k] + Len(frame[k]) <= start[k + 1]
             /\ start[k + 1] <= start[Len(ms) + 1]
             /\ Agrees(s, start[k], frame[k])
             /\ Gap(s, start[k] + Len(frame[k]), start[k + 1])
  BY Place
<1> QED  BY <1>1, <1>2

\* The peer sends a NOOP.
LEMMA LaidNoop ==
  ASSUME NEW s \in Seq(Byte), NEW ms \in Seq(Message), NEW n \in Nat, n <= Len(ms),
         NEW start, NEW frame, Laid(s, FALSE, ms, n, start, frame)
  PROVE  \E st, fr : Laid(s \o to_be_bytes(0), FALSE, ms, n, st, fr)
<1> DEFINE z == to_be_bytes(0)
           N == Len(ms)
           s2 == s \o z
           E == start[N + 1]
           st == [k \in Nat |-> IF k = N + 1 THEN E + 2 ELSE start[k]]
<1>0. z \in Seq(Byte) /\ Len(z) = 2
  BY Zeros
<1>1. /\ N \in Nat /\ start[n + 1] \in Nat /\ E \in Nat
      /\ start[n + 1] <= E /\ Gap(s, 0, start[n + 1])
  BY Ends
<1>2. Len(s) = E /\ start \in [Nat -> Int]
  BY DEF Laid
<1>3. s2 \in Seq(Byte) /\ Len(s2) = E + 2
  <2> HIDE DEF z
  <2>1. z \in Seq(Byte)
    BY <1>0
  <2>2. s2 \in Seq(Byte) /\ Len(s2) = Len(s) + Len(z)
    BY <2>1
  <2> QED  BY <1>0, <1>2, <2>2
<1>4. \A k \in n + 1 .. N + 1 :
        k \in Nat /\ start[k] \in Nat /\ start[k] <= E
        /\ \A j \in n + 1 .. k : start[j] <= start[k]
  BY Places
<1>5. \A k \in n + 1 .. N :
        /\ IsFrame(frame[k], ms[k])
        /\ frame[k] \in Seq(Byte) /\ Len(frame[k]) \in Nat
        /\ start[k] \in Nat /\ start[k + 1] \in Nat
        /\ start[k] + Len(frame[k]) <= start[k + 1]
        /\ start[k + 1] <= E
        /\ Agrees(s, start[k], frame[k])
        /\ Gap(s, start[k] + Len(frame[k]), start[k + 1])
  BY Places
<1>6. n \in Nat /\ n <= N /\ N = Len(ms)
  OBVIOUS
<1>7. \A a \in Nat : Gap(s, a, E) => Gap(s2, a, E + 2)
  BY <1>2, GapGrows
<1> HIDE DEF z, s2, N
<1>8. st \in [Nat -> Int] /\ st[N + 1] = E + 2 /\ \A k \in n + 1 .. N : st[k] = start[k]
  <2>1. E + 2 \in Int
    BY <1>1
  <2>2. st \in [Nat -> Int]
    BY <1>2, <2>1
  <2>3. N + 1 \in Nat /\ \A k \in n + 1 .. N : k \in Nat /\ k # N + 1
    BY <1>1, <1>6
  <2> HIDE DEF E
  <2> QED  BY <2>2, <2>3
<1>9. \A k \in n + 1 .. N + 1 : k \in n + 1 .. N \/ k = N + 1
  BY <1>1, <1>6
<1> HIDE DEF st, E
<1>10. \A k \in n + 1 .. N + 1 : st[k] >= 0
  <2>1. \A k \in n + 1 .. N : st[k] = start[k] /\ start[k] \in Nat
    BY <1>5, <1>8
  <2>2. st[N + 1] >= 0
    BY <1>1, <1>8
  <2> QED  BY <1>9, <2>1, <2>2
<1>11. \A j, k \in n + 1 .. N + 1 : j <= k => st[j] <= st[k]
  <2> SUFFICES ASSUME NEW j \in n + 1 .. N + 1, NEW k \in n + 1 .. N + 1, j <= k
               PROVE  st[j] <= st[k]
    OBVIOUS
  <2>1. CASE k \in n + 1 .. N
    <3>1. j \in n + 1 .. N /\ j \in n + 1 .. k
      BY <1>1, <1>6, <2>1
    <3>2. start[j] <= start[k]
      BY <1>4, <3>1
    <3> QED  BY <1>8, <2>1, <3>1, <3>2
  <2>2. CASE k = N + 1 /\ j \in n + 1 .. N
    <3>1. st[j] = start[j] /\ start[j] \in Nat /\ start[j] <= E
      BY <1>4, <1>8, <2>2
    <3>2. E \in Nat /\ st[k] = E + 2
      BY <1>1, <1>8, <2>2
    <3> QED  BY <3>1, <3>2
  <2>3. CASE k = N + 1 /\ j = N + 1
    BY <1>1, <1>8, <2>3
  <2> QED  BY <1>9, <2>1, <2>2, <2>3
<1>12. Gap(s2, 0, st[n + 1])
  <2>0. 0 \in Nat
    OBVIOUS
  <2>1. CASE n = N
    <3>1. st[n + 1] = E + 2
      BY <1>8, <2>1
    <3>2. Gap(s, 0, E)
      BY <1>1, <2>1 DEF E
    <3> QED  BY <1>7, <2>0, <3>1, <3>2
  <2>2. CASE n < N
    <3>1. n + 1 \in n + 1 .. N
      BY <1>1, <1>6, <2>2
    <3>2. st[n + 1] = start[n + 1] /\ start[n + 1] <= Len(s)
      BY <1>1, <1>2, <1>8, <3>1
    <3> QED  BY <1>0, <1>1, <2>0, <3>2, Longer DEF s2
  <2> QED  BY <1>1, <1>6, <2>1, <2>2
<1>13. ASSUME NEW k \in n + 1 .. N
       PROVE  /\ IsFrame(frame[k], ms[k])
              /\ Agrees(s2, st[k], frame[k])
              /\ Gap(s2, st[k] + Len(frame[k]), st[k + 1])
  <2> DEFINE x == start[k]
             y == Len(frame[k])
             w == start[k + 1]
  <2>1. x \in Nat /\ y \in Nat /\ w \in Nat /\ x + y <= w /\ w <= E /\ st[k] = x
    BY <1>5, <1>8
  <2>2. IsFrame(frame[k], ms[k]) /\ frame[k] \in Seq(Byte) /\ Agrees(s, x, frame[k])
        /\ Gap(s, x + y, w)
    BY <1>5
  <2> HIDE DEF x, w
  <2>3. x + y \in Nat /\ x + y <= Len(s) /\ w <= Len(s)
    <3> HIDE DEF y
    <3>1. x + y \in Nat /\ x + y <= E /\ w <= E
      BY <1>1, <2>1
    <3> QED  BY <1>2, <3>1
  <2>4. Agrees(s2, x, frame[k])
    BY <1>0, <2>1, <2>2, <2>3, Longer DEF s2
  <2>5. Gap(s2, x + y, st[k + 1])
    <3>1. CASE k = N
      <4>1. st[k + 1] = E + 2 /\ w = E
        BY <1>8, <3>1 DEF w, E
      <4> QED  BY <1>7, <2>2, <2>3, <4>1
    <3>2. CASE k < N
      <4>1. k + 1 \in n + 1 .. N
        BY <1>1, <1>6, <3>2
      <4>2. st[k + 1] = w
        BY <1>8, <4>1 DEF w
      <4> HIDE DEF y
      <4> QED  BY <1>0, <2>1, <2>2, <2>3, <4>2, Longer DEF s2
    <3>3. k = N \/ k < N
      BY <1>1, <1>6
    <3> QED  BY <3>1, <3>2, <3>3
  <2> QED  BY <2>1, <2>2, <2>4, <2>5
<1>14. Len(s2) <= st[N + 1] /\ Len(s2) = st[N + 1]
  BY <1>1, <1>3, <1>8
<1>15. Laid(s2, FALSE, ms, n, st, frame)
  BY <1>6, <1>8, <1>10, <1>11, <1>12, <1>13, <1>14 DEF Laid
<1> QED  BY <1>15 DEF s2, z

\* The peer goes away, and of the stream only the first bytes arrive.
LEMMA LaidCut ==
  ASSUME NEW s \in Seq(Byte), NEW cutOff, NEW ms \in Seq(Message), NEW n \in Nat,
         n <= Len(ms), NEW start, NEW frame, Laid(s, cutOff, ms, n, start, frame),
         NEW l \in 0 .. Len(s)
  PROVE  Laid(SubSeq(s, 1, l), TRUE, ms, n, start, frame)
<1> DEFINE p == SubSeq(s, 1, l)
           N == Len(ms)
           E == start[N + 1]
<1>1. N \in Nat /\ start[n + 1] \in Nat /\ E \in Nat /\ Gap(s, 0, start[n + 1])
  BY Ends
<1>2. Len(s) \in Nat /\ Len(s) <= E /\ start \in [Nat -> Int]
  <2>1. Len(s) \in Nat
    OBVIOUS
  <2>2. Len(s) <= E /\ start \in [Nat -> Int]
    BY Zenon DEF Laid
  <2> QED  BY <2>1, <2>2
<1>3. Len(p) = l /\ \A i \in 1 .. l : p[i] = s[i]
  BY <1>2
<1>4. \A k \in n + 1 .. N :
        /\ IsFrame(frame[k], ms[k]) /\ Len(frame[k]) \in Nat
        /\ start[k] \in Nat /\ start[k + 1] \in Nat
        /\ Agrees(s, start[k], frame[k])
        /\ Gap(s, start[k] + Len(frame[k]), start[k + 1])
  BY Places
<1> HIDE DEF p
<1>5. \A a, b \in Nat : Gap(s, a, b) => Gap(p, a, b)
  <2> SUFFICES ASSUME NEW a \in Nat, NEW b \in Nat, Gap(s, a, b)
               PROVE  Gap(p, a, b)
    OBVIOUS
  <2>1. ASSUME NEW i \in a + 1 .. b, i <= Len(p)
        PROVE  p[i] = 0
    <3>1. i \in 1 .. l /\ i <= Len(s)
      BY <1>2, <1>3, <2>1
    <3>2. s[i] = 0
      BY <3>1 DEF Gap
    <3> QED  BY <1>3, <3>1, <3>2
  <2> QED  BY <2>1 DEF Gap
<1>6. \A a \in Nat : \A f : Len(f) \in Nat /\ Agrees(s, a, f) => Agrees(p, a, f)
  <2> SUFFICES ASSUME NEW a \in Nat, NEW f, Len(f) \in Nat, Agrees(s, a, f)
               PROVE  Agrees(p, a, f)
    OBVIOUS
  <2>1. ASSUME NEW i \in 1 .. Len(f), a + i <= Len(p)
        PROVE  p[a + i] = f[i]
    <3>1. a + i \in 1 .. l /\ a + i <= Len(s)
      BY <1>2, <1>3, <2>1
    <3>2. s[a + i] = f[i]
      BY <3>1 DEF Agrees
    <3> QED  BY <1>3, <3>1, <3>2
  <2> QED  BY <2>1 DEF Agrees
<1>7. Gap(p, 0, start[n + 1])
  BY <1>1, <1>5
<1>8. ASSUME NEW k \in n + 1 .. N
      PROVE  IsFrame(frame[k], ms[k]) /\ Agrees(p, start[k], frame[k])
             /\ Gap(p, start[k] + Len(frame[k]), start[k + 1])
  <2>1. start[k] + Len(frame[k]) \in Nat
    BY <1>4
  <2> QED  BY <1>4, <1>5, <1>6, <2>1
<1>9. Len(p) <= E
  BY <1>1, <1>2, <1>3
<1>10. /\ \A k \in n + 1 .. N + 1 : start[k] >= 0
       /\ \A j, k \in n + 1 .. N + 1 : j <= k => start[j] <= start[k]
  BY DEF Laid
<1> HIDE DEF E
<1>11. Laid(p, TRUE, ms, n, start, frame)
  BY <1>2, <1>7, <1>8, <1>9, <1>10 DEF Laid, E
<1> QED  BY <1>11 DEF p

\* Without the first x bytes, the rest is x bytes earlier.
LEMMA Shorter ==
  ASSUME NEW s \in Seq(Byte), NEW x \in Nat, x <= Len(s), NEW a \in Nat, x <= a
  PROVE  LET d == SubSeq(s, x + 1, Len(s))
         IN  /\ d \in Seq(Byte) /\ Len(d) = Len(s) - x
             /\ \A b \in Nat : Gap(s, a, b) => Gap(d, a - x, b - x)
             /\ \A f : Len(f) \in Nat /\ Agrees(s, a, f) => Agrees(d, a - x, f)
<1> DEFINE d == SubSeq(s, x + 1, Len(s))
           l == Len(s)
<1>1. l \in Nat
  OBVIOUS
<1>2. d \in Seq(Byte) /\ Len(d) = l - x /\ \A i \in 1 .. l - x : d[i] = s[x + i]
  BY <1>1
<1> HIDE DEF d
<1>3. ASSUME NEW b \in Nat, Gap(s, a, b)
      PROVE  Gap(d, a - x, b - x)
  <2>1. PICK h \in Nat : b = a + 2 * h
    BY <1>3 DEF Gap
  <2>2. b - x = (a - x) + 2 * h
    BY <2>1
  <2>3. ASSUME NEW i \in (a - x) + 1 .. b - x, i <= Len(d)
        PROVE  d[i] = 0
    <3>1. x + i \in a + 1 .. b /\ x + i <= l /\ i \in 1 .. l - x
      BY <1>1, <1>2, <2>3
    <3>2. s[x + i] = 0
      BY <1>3, <3>1 DEF Gap
    <3> QED  BY <1>2, <3>1, <3>2
  <2> QED  BY <2>2, <2>3 DEF Gap
<1>4. ASSUME NEW f, Len(f) \in Nat, Agrees(s, a, f)
      PROVE  Agrees(d, a - x, f)
  <2>1. ASSUME NEW i \in 1 .. Len(f), (a - x) + i <= Len(d)
        PROVE  d[(a - x) + i] = f[i]
    <3>1. /\ a + i <= l /\ (a - x) + i \in 1 .. l - x /\ x + ((a - x) + i) = a + i
      BY <1>1, <1>2, <1>4, <2>1
    <3>2. s[a + i] = f[i]
      BY <1>4, <3>1 DEF Agrees
    <3> QED  BY <1>2, <3>1, <3>2
  <2> QED  BY <2>1 DEF Agrees
<1> QED  BY <1>2, <1>3, <1>4 DEF d

\* The reader drops x bytes: up to some place in the gap before the message
\* after the next n2.
LEMMA LaidDrop ==
  ASSUME NEW s \in Seq(Byte), NEW cutOff, NEW ms \in Seq(Message), NEW n \in Nat,
         n <= Len(ms), NEW start, NEW frame, Laid(s, cutOff, ms, n, start, frame),
         NEW n2 \in Nat, n <= n2, n2 <= Len(ms),
         NEW x \in Nat, x <= Len(s), Gap(s, x, start[n2 + 1])
  PROVE  \E st, fr : Laid(SubSeq(s, x + 1, Len(s)), cutOff, ms, n2, st, fr)
<1> DEFINE d == SubSeq(s, x + 1, Len(s))
           N == Len(ms)
           E == start[N + 1]
           F == start[n2 + 1]
           st == [k \in Nat |-> start[k] - x]
<1>0. /\ Len(s) \in Nat /\ Len(ms) \in Nat /\ n2 + 1 \in n + 1 .. N + 1
      /\ n2 + 1 \in n2 + 1 .. N + 1 /\ N + 1 \in n2 + 1 .. N + 1
      /\ \A k \in n2 + 1 .. N + 1 : k \in n + 1 .. N + 1 /\ n2 + 1 \in n + 1 .. k /\ k \in Nat
      /\ \A k \in n2 + 1 .. N : k \in n + 1 .. N /\ k \in n2 + 1 .. N + 1 /\ k + 1 \in n2 + 1 .. N + 1
  OBVIOUS
<1>1. \A k \in n + 1 .. N + 1 :
        k \in Nat /\ start[k] \in Nat /\ start[k] <= E
        /\ \A j \in n + 1 .. k : start[j] <= start[k]
  BY Places
<1>2. \A k \in n + 1 .. N :
        /\ IsFrame(frame[k], ms[k])
        /\ frame[k] \in Seq(Byte) /\ Len(frame[k]) \in Nat
        /\ start[k] \in Nat /\ start[k + 1] \in Nat
        /\ Agrees(s, start[k], frame[k])
        /\ Gap(s, start[k] + Len(frame[k]), start[k + 1])
  BY Places
<1>3. Len(s) <= E /\ (~cutOff => Len(s) = E) /\ start \in [Nat -> Int]
  BY DEF Laid
<1>4. F \in Nat /\ E \in Nat
  BY <1>0, <1>1
<1>5. x <= F
  <2>1. PICK h \in Nat : F = x + 2 * h
    BY DEF Gap
  <2> HIDE DEF F
  <2> QED  BY <1>4, <2>1
<1>6. \A k \in n2 + 1 .. N + 1 : start[k] \in Nat /\ F <= start[k]
  BY <1>0, <1>1
<1>7. \A k \in n2 + 1 .. N + 1 : start[k] \in Nat /\ x <= start[k]
  <2> SUFFICES ASSUME NEW k \in n2 + 1 .. N + 1
               PROVE  start[k] \in Nat /\ x <= start[k]
    OBVIOUS
  <2>1. start[k] \in Nat /\ F <= start[k]
    BY <1>6
  <2> HIDE DEF F
  <2> QED  BY <1>4, <1>5, <2>1
<1>8. st \in [Nat -> Int] /\ \A k \in n2 + 1 .. N + 1 : st[k] = start[k] - x
  <2>1. \A k \in Nat : start[k] - x \in Int
    BY <1>3
  <2>2. st \in [Nat -> Int]
    BY <2>1
  <2>3. \A k \in n2 + 1 .. N + 1 : k \in Nat
    BY <1>0
  <2> QED  BY <2>2, <2>3
<1> HIDE DEF st
<1>9. \A k \in n2 + 1 .. N + 1 : st[k] >= 0
  <2> SUFFICES ASSUME NEW k \in n2 + 1 .. N + 1
               PROVE  st[k] >= 0
    OBVIOUS
  <2>1. st[k] = start[k] - x /\ start[k] \in Nat /\ x <= start[k]
    BY <1>7, <1>8
  <2> QED  BY <2>1
<1>10. \A j, k \in n2 + 1 .. N + 1 : j <= k => st[j] <= st[k]
  <2> SUFFICES ASSUME NEW j \in n2 + 1 .. N + 1, NEW k \in n2 + 1 .. N + 1, j <= k
               PROVE  st[j] <= st[k]
    OBVIOUS
  <2>1. st[j] = start[j] - x /\ start[j] \in Nat /\ st[k] = start[k] - x /\ start[k] \in Nat
    BY <1>7, <1>8
  <2>2. start[j] <= start[k]
    BY <1>0 DEF Laid
  <2> QED  BY <2>1, <2>2
<1>11. d \in Seq(Byte) /\ Len(d) = Len(s) - x
  <2>1. x <= x
    OBVIOUS
  <2> QED  BY <2>1, Shorter
<1>12. Gap(d, 0, st[n2 + 1])
  <2>1. x <= x /\ x - x = 0
    OBVIOUS
  <2>2. st[n2 + 1] = F - x
    BY <1>0, <1>8
  <2>3. Gap(d, x - x, F - x)
    BY <1>4, <2>1, Shorter
  <2> QED  BY <2>1, <2>2, <2>3
<1>13. ASSUME NEW k \in n2 + 1 .. N
       PROVE  /\ IsFrame(frame[k], ms[k])
              /\ Agrees(d, st[k], frame[k])
              /\ Gap(d, st[k] + Len(frame[k]), st[k + 1])
  <2> DEFINE a == start[k]
             y == Len(frame[k])
             w == start[k + 1]
  <2>1. a \in Nat /\ y \in Nat /\ w \in Nat /\ Agrees(s, a, frame[k]) /\ Gap(s, a + y, w)
        /\ IsFrame(frame[k], ms[k])
    BY <1>0, <1>2
  <2>2. st[k] = a - x /\ st[k + 1] = w - x /\ x <= a
    BY <1>0, <1>7, <1>8
  <2> HIDE DEF a, w, d
  <2>3. Agrees(d, a - x, frame[k])
    BY <2>1, <2>2, Shorter DEF d
  <2> HIDE DEF y
  <2>4. a + y \in Nat /\ x <= a + y /\ (a + y) - x = (a - x) + y
    BY <2>1, <2>2
  <2>5. Gap(d, (a + y) - x, w - x)
    BY <2>1, <2>4, Shorter DEF d
  <2> QED  BY <2>1, <2>2, <2>3, <2>4, <2>5 DEF y
<1>14. st[N + 1] = E - x
  BY <1>0, <1>8
<1>15. Len(d) <= st[N + 1] /\ (~cutOff => Len(d) = st[N + 1])
  <2> HIDE DEF E, d
  <2> QED  BY <1>0, <1>3, <1>4, <1>11, <1>14
<1>16. Laid(d, cutOff, ms, n2, st, frame)
  <2> HIDE DEF d, E, F
  <2> QED  BY <1>8, <1>9, <1>10, <1>12, <1>13, <1>15 DEF Laid
<1> QED  BY <1>16

\* Dropping bytes of the buffer drops them of the stream.
LEMMA DropBuffer ==
  ASSUME NEW rb \in Seq(Byte), NEW pp \in Seq(Byte), NEW x \in Nat, x <= Len(rb)
  PROVE  SubSeq(rb, x + 1, Len(rb)) \o pp = SubSeq(rb \o pp, x + 1, Len(rb \o pp))
<1> DEFINE s == rb \o pp
           a == SubSeq(rb, x + 1, Len(rb))
           d == SubSeq(s, x + 1, Len(s))
           r == Len(rb)
           l == Len(pp)
<1>1. r \in Nat /\ l \in Nat
  OBVIOUS
<1>2. /\ s \in Seq(Byte) /\ Len(s) = r + l
      /\ (\A i \in 1 .. r : s[i] = rb[i]) /\ (\A i \in 1 .. l : s[r + i] = pp[i])
  BY TwoParts
<1>3. a \in Seq(Byte) /\ Len(a) = r - x /\ \A i \in 1 .. r - x : a[i] = rb[x + i]
  BY <1>1
<1> HIDE DEF s, a
<1>4. d \in Seq(Byte) /\ Len(d) = r + l - x /\ \A i \in 1 .. r + l - x : d[i] = s[x + i]
  BY <1>1, <1>2
<1>5. /\ a \o pp \in Seq(Byte) /\ Len(a \o pp) = Len(a) + Len(pp)
      /\ \A i \in 1 .. Len(a) : (a \o pp)[i] = a[i]
      /\ \A i \in 1 .. Len(pp) : (a \o pp)[Len(a) + i] = pp[i]
  <2>1. a \in Seq(Byte)
    BY <1>3
  <2> QED  BY <2>1
<1> DEFINE e == a \o pp
<1> HIDE DEF d, r, l, e
<1>6. /\ e \in Seq(Byte) /\ Len(e) = r - x + l
      /\ (\A i \in 1 .. r - x : e[i] = a[i]) /\ (\A i \in 1 .. l : e[(r - x) + i] = pp[i])
  BY <1>3, <1>5 DEF e, l
<1>7. ASSUME NEW i \in 1 .. r + l - x
      PROVE  e[i] = d[i]
  <2>1. CASE i <= r - x
    <3>1. i \in 1 .. r - x /\ x + i \in 1 .. r
      BY <1>1, <2>1
    <3>2. e[i] = rb[x + i]
      BY <1>3, <1>6, <3>1
    <3>3. d[i] = rb[x + i]
      BY <1>2, <1>4, <3>1
    <3> QED  BY <3>2, <3>3
  <2>2. CASE i > r - x
    <3> DEFINE j == i - (r - x)
    <3>1. j \in 1 .. l /\ (r - x) + j = i /\ r + j = x + i
      BY <1>1, <2>2
    <3> HIDE DEF j
    <3>2. e[i] = pp[j]
      BY <1>6, <3>1
    <3>3. d[i] = s[r + j]
      BY <1>4, <3>1
    <3>4. s[r + j] = pp[j]
      BY <1>2, <3>1
    <3> QED  BY <3>2, <3>3, <3>4
  <2>3. x <= r
    BY DEF r
  <2> QED  BY <1>1, <2>1, <2>2, <2>3
<1>8. Len(e) = Len(d) /\ Len(e) = r + l - x
  <2>1. x <= r
    BY DEF r
  <2> QED  BY <1>1, <1>4, <1>6, <2>1
<1>9. e = d
  BY <1>4, <1>6, <1>7, <1>8, SeqEqual
<1> QED  BY <1>9 DEF e, d, a, s

\* Dropping twice.
LEMMA DropTwice ==
  ASSUME NEW rb \in Seq(Byte), NEW x \in Nat, x <= Len(rb), NEW y \in Nat, x + y <= Len(rb)
  PROVE  LET b == SubSeq(rb, x + 1, Len(rb))
         IN  SubSeq(b, y + 1, Len(b)) = SubSeq(rb, (x + y) + 1, Len(rb))
<1> DEFINE b == SubSeq(rb, x + 1, Len(rb))
           c == SubSeq(b, y + 1, Len(b))
           d == SubSeq(rb, (x + y) + 1, Len(rb))
           r == Len(rb)
<1>1. r \in Nat
  OBVIOUS
<1>2. b \in Seq(Byte) /\ Len(b) = r - x /\ \A i \in 1 .. r - x : b[i] = rb[x + i]
  BY <1>1
<1> HIDE DEF b
<1>3. c \in Seq(Byte) /\ Len(c) = r - x - y /\ \A i \in 1 .. r - x - y : c[i] = b[y + i]
  BY <1>1, <1>2
<1>4. d \in Seq(Byte) /\ Len(d) = r - x - y /\ \A i \in 1 .. r - x - y : d[i] = rb[x + y + i]
  BY <1>1
<1> HIDE DEF c, d
<1>5. ASSUME NEW i \in 1 .. r - x - y
      PROVE  c[i] = d[i]
  <2>1. y + i \in 1 .. r - x /\ x + (y + i) = x + y + i
    BY <1>1
  <2>2. c[i] = b[y + i] /\ b[y + i] = rb[x + (y + i)]
    BY <1>2, <1>3, <2>1
  <2>3. d[i] = rb[x + y + i]
    BY <1>4
  <2> QED  BY <2>1, <2>2, <2>3
<1>6. c = d
  BY <1>3, <1>4, <1>5, SeqEqual
<1> QED  BY <1>6 DEF c, b, d

\* What take_message finds: less than a header, a part of the next message,
\* one over the limit, or the next message, whole.
LEMMA TakeFacts ==
  ASSUME NEW rb \in Seq(Byte), NEW pp \in Seq(Byte), NEW cutOff,
         NEW ms \in Seq(Message), NEW n \in Nat, n <= Len(ms),
         NEW start, NEW frame, Laid(rb \o pp, cutOff, ms, n, start, frame)
  PROVE  LET buf == SkipNoops(rb)
             pos == Walk(buf)
         IN  \E x \in Nat :
               /\ x <= Len(rb) /\ buf = SubSeq(rb, x + 1, Len(rb))
               /\ Gap(rb \o pp, x, start[n + 1])
               /\ \/ pos = -1
                  \/ pos = -2 /\ n < Len(ms) /\ Len(ms[n + 1]) > MAX_MESSAGE
                  \/ /\ pos \in Nat /\ n < Len(ms) /\ Body(buf, pos) = ms[n + 1]
                     /\ x = start[n + 1] /\ pos + 2 = Len(frame[n + 1])
                     /\ x + (pos + 2) <= Len(rb)
<1> DEFINE s == rb \o pp
           buf == SkipNoops(rb)
           pos == Walk(buf)
           F == start[n + 1]
           r == Len(rb)
<1>1. /\ s \in Seq(Byte) /\ Len(s) = r + Len(pp) /\ r \in Nat /\ Len(pp) \in Nat
      /\ \A i \in 1 .. r : s[i] = rb[i]
  BY TwoParts
<1> HIDE DEF s
<1>2. /\ Len(ms) \in Nat /\ F \in Nat /\ Gap(s, 0, F)
      /\ F <= start[Len(ms) + 1] /\ start[Len(ms) + 1] \in Nat
  BY Ends DEF s
<1>3. PICK j \in Nat :
        /\ 2 * j <= r
        /\ buf = SubSeq(rb, 2 * j + 1, r)
        /\ \A i \in 1 .. 2 * j : rb[i] = 0
        /\ 2 * j + 2 <= r => ~(rb[2 * j + 1] = 0 /\ rb[2 * j + 2] = 0)
  BY SkipFacts
<1> DEFINE x == 2 * j
<1>4. PICK h \in Nat : F = 0 + 2 * h
  BY <1>2 DEF Gap
<1>5. F = 2 * h
  <2> HIDE DEF F
  <2> QED  BY <1>2, <1>4
<1>6. \A i \in 1 .. F : i <= Len(s) => s[i] = 0
  <2> HIDE DEF F
  <2>1. 0 + 1 = 1
    OBVIOUS
  <2> QED  BY <1>2, <2>1 DEF Gap
<1> HIDE DEF F, r
<1>7. n < Len(ms) \/ (n = Len(ms) /\ Len(s) <= F)
  <2>1. n < Len(ms) \/ n = Len(ms)
    BY <1>2
  <2>2. Len(s) <= start[Len(ms) + 1]
    BY DEF Laid, s
  <2> QED  BY <2>1, <2>2 DEF F
<1>8. ASSUME n < Len(ms)
      PROVE  /\ ms[n + 1] \in Message /\ IsFrame(frame[n + 1], ms[n + 1])
             /\ Len(frame[n + 1]) \in Nat /\ Len(frame[n + 1]) >= 2
             /\ ~(frame[n + 1][1] = 0 /\ frame[n + 1][2] = 0)
             /\ Agrees(s, F, frame[n + 1])
  <2>1. n + 1 \in n + 1 .. Len(ms)
    BY <1>2, <1>8
  <2> QED  BY <2>1, Place DEF s, F
<1>9. x \in Nat /\ x <= r /\ buf = SubSeq(rb, x + 1, r)
  BY <1>3
<1>10. x <= F
  <2> SUFFICES ASSUME x > F
               PROVE  FALSE
    BY <1>2, <1>9
  <2>1. F + 2 <= x /\ F + 2 <= r /\ r <= Len(s)
    BY <1>1, <1>2, <1>3, <1>5
  <2>2. n < Len(ms)
    BY <1>1, <1>2, <1>7, <2>1
  <2>3. F + 1 \in 1 .. x /\ F + 2 \in 1 .. x /\ F + 1 \in 1 .. r /\ F + 2 \in 1 .. r
    BY <1>1, <1>2, <2>1
  <2>4. rb[F + 1] = 0 /\ rb[F + 2] = 0
    BY <1>3, <2>3
  <2>5. s[F + 1] = 0 /\ s[F + 2] = 0
    BY <1>1, <2>3, <2>4
  <2>6. s[F + 1] = frame[n + 1][1] /\ s[F + 2] = frame[n + 1][2]
    <3>1. /\ 1 \in 1 .. Len(frame[n + 1]) /\ 2 \in 1 .. Len(frame[n + 1])
          /\ F + 1 <= Len(s) /\ F + 2 <= Len(s)
      <4> DEFINE l == Len(frame[n + 1])
                 g == Len(s)
      <4>1. l \in Nat /\ l >= 2
        BY <1>8, <2>2
      <4>2. g \in Nat /\ F \in Nat /\ r \in Nat /\ F + 2 <= r /\ r <= g
        BY <1>1, <1>2, <2>1
      <4> HIDE DEF l, g
      <4>3. 1 \in 1 .. l /\ 2 \in 1 .. l
        BY <4>1
      <4>4. F + 1 <= g /\ F + 2 <= g
        BY <4>2
      <4> QED  BY <4>3, <4>4 DEF l, g
    <3> QED  BY <1>8, <2>2, <3>1 DEF Agrees
  <2> QED  BY <1>8, <2>2, <2>5, <2>6
<1>11. Gap(s, x, F)
  <2>1. F = x + 2 * (h - j) /\ h - j \in Nat
    BY <1>3, <1>5, <1>10
  <2>2. \A i \in x + 1 .. F : i \in 1 .. F
    BY <1>2, <1>9
  <2> QED  BY <1>6, <2>1, <2>2 DEF Gap
<1>12. buf \in Seq(Byte) /\ Len(buf) = r - x /\ \A i \in 1 .. r - x : buf[i] = rb[x + i]
  <2> HIDE DEF x, buf
  <2> DEFINE b == SubSeq(rb, x + 1, Len(rb))
  <2>1. Len(rb) \in Nat /\ x <= Len(rb)
    BY <1>1, <1>9 DEF r
  <2>2. b \in Seq(Byte) /\ Len(b) = Len(rb) - x /\ \A i \in 1 .. Len(rb) - x : b[i] = rb[x + i]
    BY <1>9, <2>1
  <2>3. b = buf
    BY <1>9 DEF r
  <2> HIDE DEF b
  <2> QED  BY <2>2, <2>3 DEF r
<1> HIDE DEF buf, x
<1>13. CASE Len(buf) < 2
  <2>1. <<0, 0>> \in Nat \X Nat
    OBVIOUS
  <2>2. Walks(buf)[<<0, 0>>] = WalkTurn(buf, Walks(buf), <<0, 0>>)
    BY <1>12, <2>1, WalksEquation
  <2>3. 0 + 2 > Len(buf)
    BY <1>12, <1>13
  <2>4. pos = -1
    BY <2>2, <2>3, AtTheStart DEF WalkTurn
  <2> HIDE DEF pos
  <2> QED  BY <1>9, <1>11, <2>4 DEF pos, buf, s, F, r
<1>14. CASE Len(buf) >= 2
  <2>1. x + 2 <= r
    BY <1>1, <1>9, <1>12, <1>14
  <2>2. ~(rb[x + 1] = 0 /\ rb[x + 2] = 0)
    BY <1>3, <2>1 DEF x
  <2>3. x = F
    <3> SUFFICES ASSUME x < F
                 PROVE  FALSE
      BY <1>2, <1>9, <1>10
    <3>1. x + 2 <= F
      BY <1>3, <1>5 DEF x
    <3>2. /\ x + 1 \in 1 .. F /\ x + 2 \in 1 .. F /\ x + 1 <= Len(s) /\ x + 2 <= Len(s)
          /\ x + 1 \in 1 .. r /\ x + 2 \in 1 .. r
      BY <1>1, <1>2, <1>9, <2>1, <3>1
    <3> QED  BY <1>1, <1>6, <2>2, <3>2
  <2>4. n < Len(ms)
    BY <1>1, <1>2, <1>7, <2>1, <2>3
  <2> DEFINE m == ms[n + 1]
             t == frame[n + 1]
  <2>5. m \in Message /\ IsFrame(t, m) /\ Len(t) \in Nat /\ Agrees(s, F, t)
    BY <1>8, <2>4
  <2> HIDE DEF m, t
  <2>6. Agrees(buf, 0, t)
    <3> SUFFICES ASSUME NEW i \in 1 .. Len(t), 0 + i <= Len(buf)
                 PROVE  buf[0 + i] = t[i]
      BY DEF Agrees
    <3>1. /\ 0 + i = i /\ i \in 1 .. r - x /\ F + i \in 1 .. r /\ F + i <= Len(s)
      BY <1>1, <1>2, <1>9, <1>12, <2>3, <2>5
    <3>2. buf[i] = rb[F + i] /\ s[F + i] = rb[F + i]
      BY <1>1, <1>12, <2>3, <3>1
    <3>3. s[F + i] = t[i]
      BY <2>5, <3>1 DEF Agrees
    <3> QED  BY <3>1, <3>2, <3>3
  <2>7. PICK c \in Cuts(m) : t = Framed(m, c)
    BY <2>5 DEF IsFrame
  <2>8. \/ pos = -1
        \/ pos = -2 /\ Len(m) > MAX_MESSAGE
        \/ /\ pos \in Nat /\ pos = Len(t) - 2
           /\ pos + 2 <= Len(buf) /\ Body(buf, pos) = m
    BY <1>12, <2>5, <2>6, <2>7, WalkFramed
  <2> HIDE DEF pos
  <2>9. \/ pos = -1
        \/ pos = -2 /\ Len(m) > MAX_MESSAGE
        \/ /\ pos \in Nat /\ Body(buf, pos) = m /\ pos + 2 = Len(t)
           /\ x + (pos + 2) <= r
    <3> DEFINE l == Len(t)
               g == Len(buf)
    <3>1. l \in Nat /\ x \in Nat /\ r \in Nat /\ g = r - x
      BY <1>1, <1>9, <1>12, <2>5
    <3> HIDE DEF l, g
    <3>2. ASSUME pos \in Nat, pos = l - 2, pos + 2 <= g
          PROVE  pos + 2 = l /\ x + (pos + 2) <= r
      BY <3>1, <3>2
    <3> QED  BY <2>8, <3>2 DEF l, g
  <2> QED  BY <1>9, <1>11, <2>3, <2>4, <2>9 DEF pos, buf, s, F, r, m, t
<1>15. Len(buf) \in Nat
  BY <1>12
<1> QED  BY <1>13, <1>14, <1>15

-----------------------------------------------------------------------------
(* The invariant *)

\* The stream holds the messages sent and not handed over, and a read that is
\* under way is on a connection that is intact.
Inv ==
  /\ TypeOK
  /\ Len(got) <= Len(sent)
  /\ pc # "idle" => ~broken
  /\ BrokenForCause
  /\ \E start, frame : Laid(rbuf \o pipe, ended, sent, Len(got), start, frame)

\* It holds at the beginning.
LEMMA InvInit == Init => Inv
<1> SUFFICES ASSUME Init
             PROVE  Inv
  OBVIOUS
<1>1. /\ pipe = << >> /\ rbuf = << >> /\ pc = "idle" /\ broken = FALSE /\ ended = FALSE
      /\ sent = << >> /\ got = << >>
  BY DEF Init
<1>2. TypeOK
  <2>1. << >> \in Seq(Byte) /\ << >> \in Seq(Message) /\ << >> \in Seq(Seq(Byte))
    OBVIOUS
  <2> QED  BY <1>1, <2>1 DEF TypeOK
<1>3. BrokenForCause /\ Len(got) <= Len(sent)
  BY <1>1 DEF BrokenForCause
<1> DEFINE start == [k \in Nat |-> 0]
           e == << >>
<1>4. Laid(e, FALSE, e, 0, start, start)
  <2>1. Len(e) = 0 /\ 0 + 1 = 1 /\ 1 \in Nat /\ 1 .. 0 = {} /\ 1 .. 1 = {1}
    OBVIOUS
  <2>2. start \in [Nat -> Int] /\ start[1] = 0
    BY <2>1
  <2>3. Gap(e, 0, 0)
    <3>1. 0 = 0 + 2 * 0 /\ 0 \in Nat /\ 0 + 1 .. 0 = {}
      OBVIOUS
    <3> QED  BY <3>1 DEF Gap
  <2> HIDE DEF start, e
  <2> QED  BY <2>1, <2>2, <2>3 DEF Laid
<1>5. rbuf \o pipe = e /\ Len(got) = 0
  BY <1>1
<1> HIDE DEF start, e
<1>6. Laid(rbuf \o pipe, ended, sent, Len(got), start, start)
  BY <1>1, <1>4, <1>5 DEF e
<1> QED  BY <1>1, <1>2, <1>3, <1>6 DEF Inv

\* What Inv says of the sequences.
LEMMA InvTypes ==
  ASSUME Inv
  PROVE  /\ pipe \in Seq(Byte) /\ rbuf \in Seq(Byte) /\ rbuf \o pipe \in Seq(Byte)
         /\ sent \in Seq(Message) /\ got \in Seq(Seq(Byte))
         /\ Len(got) \in Nat /\ Len(sent) \in Nat /\ Len(got) <= Len(sent)
  BY DEF Inv, TypeOK

\* Concatenation is associative.
LEMMA Together ==
  ASSUME NEW a \in Seq(Byte), NEW b \in Seq(Byte), NEW c \in Seq(Byte)
  PROVE  a \o (b \o c) = (a \o b) \o c
  OBVIOUS

\* A message goes out, cut somewhere.
LEMMA InvPut ==
  ASSUME Inv, NEW m \in Message, NEW c \in Cuts(m), Put(m, Framed(m, c))
  PROVE  Inv'
<1> DEFINE t == Framed(m, c)
           s == rbuf \o pipe
<1>1. /\ pipe \in Seq(Byte) /\ rbuf \in Seq(Byte) /\ s \in Seq(Byte)
      /\ sent \in Seq(Message) /\ got \in Seq(Seq(Byte))
      /\ Len(got) \in Nat /\ Len(sent) \in Nat /\ Len(got) <= Len(sent)
  BY InvTypes
<1>2. t \in Seq(Byte)
  BY FrameHead
<1>3. /\ ~ended /\ sent' = Append(sent, m) /\ pipe' = pipe \o t
      /\ rbuf' = rbuf /\ pc' = pc /\ broken' = broken /\ ended' = ended /\ got' = got
  BY DEF Put
<1>4. sent' \in Seq(Message) /\ Len(sent') = Len(sent) + 1 /\ pipe' \in Seq(Byte)
  <2> HIDE DEF t
  <2> QED  BY <1>1, <1>2, <1>3
<1>5. TypeOK'
  BY <1>1, <1>3, <1>4 DEF Inv, TypeOK
<1>6. BrokenForCause'
  <2>1. \A k \in DOMAIN sent : k \in DOMAIN sent' /\ sent'[k] = sent[k]
    BY <1>1, <1>3
  <2> QED  BY <1>3, <2>1 DEF Inv, BrokenForCause
<1>7. PICK start, frame : Laid(s, ended, sent, Len(got), start, frame)
  BY DEF Inv
<1>8. ended = FALSE
  BY <1>3 DEF Inv, TypeOK
<1>9. Laid(s, FALSE, sent, Len(got), start, frame)
  BY <1>7, <1>8
<1>10. \E st, fr : Laid(s \o t, FALSE, Append(sent, m), Len(got), st, fr)
  BY <1>1, <1>9, LaidPut
<1>11. rbuf' \o pipe' = s \o t
  BY <1>1, <1>2, <1>3, Together
<1>12. \E st, fr : Laid(rbuf' \o pipe', ended', sent', Len(got'), st, fr)
  BY <1>3, <1>8, <1>10, <1>11
<1>13. Len(got') <= Len(sent')
  BY <1>1, <1>3, <1>4
<1> QED  BY <1>3, <1>5, <1>6, <1>12, <1>13 DEF Inv

\* A NOOP.
LEMMA InvNoop ==
  ASSUME Inv, Noop
  PROVE  Inv'
<1> DEFINE t == to_be_bytes(0)
           s == rbuf \o pipe
<1>1. /\ pipe \in Seq(Byte) /\ rbuf \in Seq(Byte) /\ s \in Seq(Byte)
      /\ sent \in Seq(Message)
      /\ Len(got) \in Nat /\ Len(sent) \in Nat /\ Len(got) <= Len(sent)
  BY InvTypes
<1>2. t \in Seq(Byte)
  BY Zeros
<1>3. /\ ~ended /\ pipe' = pipe \o t /\ sent' = sent
      /\ rbuf' = rbuf /\ pc' = pc /\ broken' = broken /\ ended' = ended /\ got' = got
  BY DEF Noop
<1>4. pipe' \in Seq(Byte)
  <2> HIDE DEF t
  <2> QED  BY <1>1, <1>2, <1>3
<1>5. TypeOK' /\ BrokenForCause'
  BY <1>3, <1>4 DEF Inv, TypeOK, BrokenForCause
<1>6. PICK start, frame : Laid(s, ended, sent, Len(got), start, frame)
  BY DEF Inv
<1>7. ended = FALSE
  BY <1>3 DEF Inv, TypeOK
<1>8. Laid(s, FALSE, sent, Len(got), start, frame)
  BY <1>6, <1>7
<1>9. \E st, fr : Laid(s \o t, FALSE, sent, Len(got), st, fr)
  BY <1>1, <1>8, LaidNoop
<1>10. rbuf' \o pipe' = s \o t
  BY <1>1, <1>2, <1>3, Together
<1>11. \E st, fr : Laid(rbuf' \o pipe', ended', sent', Len(got'), st, fr)
  BY <1>3, <1>7, <1>9, <1>10
<1> QED  BY <1>1, <1>3, <1>5, <1>11 DEF Inv

\* The peer goes away.
LEMMA InvEnd ==
  ASSUME Inv, NEW l \in 0 .. Len(pipe), End(l)
  PROVE  Inv'
<1> DEFINE s == rbuf \o pipe
           n == Len(rbuf) + l
<1>1. /\ pipe \in Seq(Byte) /\ rbuf \in Seq(Byte) /\ s \in Seq(Byte)
      /\ sent \in Seq(Message)
      /\ Len(got) \in Nat /\ Len(sent) \in Nat /\ Len(got) <= Len(sent)
  BY InvTypes
<1>2. /\ ended' = TRUE /\ pipe' = SubSeq(pipe, 1, l) /\ sent' = sent
      /\ rbuf' = rbuf /\ pc' = pc /\ broken' = broken /\ got' = got
  BY DEF End
<1>3. /\ pipe' \in Seq(Byte) /\ Len(pipe') = l
      /\ \A i \in 1 .. l : pipe'[i] = pipe[i]
  BY <1>1, <1>2
<1>4. TypeOK' /\ BrokenForCause'
  BY <1>2, <1>3 DEF Inv, TypeOK, BrokenForCause
<1>5. PICK start, frame : Laid(s, ended, sent, Len(got), start, frame)
  BY DEF Inv
<1>6. /\ Len(s) = Len(rbuf) + Len(pipe) /\ Len(rbuf) \in Nat /\ Len(pipe) \in Nat
      /\ \A i \in 1 .. Len(rbuf) : s[i] = rbuf[i]
      /\ \A i \in 1 .. Len(pipe) : s[Len(rbuf) + i] = pipe[i]
  BY <1>1, TwoParts
<1> HIDE DEF s
<1>7. n \in 0 .. Len(s)
  BY <1>6
<1>8. Laid(SubSeq(s, 1, n), TRUE, sent, Len(got), start, frame)
  BY <1>1, <1>5, <1>7, LaidCut
<1>9. rbuf \o pipe' = SubSeq(s, 1, n)
  <2> DEFINE a == rbuf \o pipe'
             b == SubSeq(s, 1, n)
  <2>1. /\ a \in Seq(Byte) /\ Len(a) = Len(rbuf) + Len(pipe')
        /\ \A i \in 1 .. Len(rbuf) : a[i] = rbuf[i]
        /\ \A i \in 1 .. Len(pipe') : a[Len(rbuf) + i] = pipe'[i]
    <3>1. rbuf \in Seq(Byte) /\ pipe' \in Seq(Byte)
      BY <1>1, <1>3
    <3> QED  BY <3>1
  <2>2. b \in Seq(Byte) /\ Len(b) = n /\ \A i \in 1 .. n : b[i] = s[i]
    BY <1>1, <1>7
  <2> HIDE DEF a, b
  <2>3. ASSUME NEW i \in 1 .. n
        PROVE  a[i] = b[i]
    <3>1. CASE i <= Len(rbuf)
      BY <1>6, <2>1, <2>2, <3>1
    <3>2. CASE i > Len(rbuf)
      <4> DEFINE j == i - Len(rbuf)
      <4>1. j \in 1 .. l /\ j \in 1 .. Len(pipe) /\ Len(rbuf) + j = i
        BY <1>6, <3>2
      <4> HIDE DEF j
      <4>2. a[i] = pipe'[j]
        BY <1>3, <2>1, <4>1
      <4>3. b[i] = s[i] /\ s[i] = pipe[j]
        BY <1>6, <2>2, <4>1
      <4> QED  BY <1>3, <4>1, <4>2, <4>3
    <3> QED  BY <1>6, <3>1, <3>2
  <2>4. Len(a) = Len(b) /\ Len(a) = n
    BY <1>3, <2>1, <2>2
  <2>5. a = b
    BY <2>1, <2>2, <2>3, <2>4, SeqEqual
  <2> QED  BY <2>5 DEF a, b
<1>10. \E st, fr : Laid(rbuf' \o pipe', ended', sent', Len(got'), st, fr)
  BY <1>2, <1>8, <1>9
<1> QED  BY <1>1, <1>2, <1>4, <1>10 DEF Inv

\* Bytes move from the pipe to the buffer.
LEMMA InvFill ==
  ASSUME Inv, NEW l \in 1 .. Len(pipe), Fill(l)
  PROVE  Inv'
<1>1. /\ pipe \in Seq(Byte) /\ rbuf \in Seq(Byte)
      /\ Len(got) \in Nat /\ Len(sent) \in Nat /\ Len(got) <= Len(sent)
  BY InvTypes
<1> DEFINE a == SubSeq(pipe, 1, l)
           b == SubSeq(pipe, l + 1, Len(pipe))
<1>2. /\ pc = "filling" /\ rbuf' = rbuf \o a /\ pipe' = b
      /\ pc' = "taking" /\ broken' = broken /\ ended' = ended /\ sent' = sent /\ got' = got
  BY DEF Fill
<1>3. a \in Seq(Byte) /\ b \in Seq(Byte)
  BY <1>1
<1>4. a \o b = pipe
  <2>1. l \in Nat /\ 0 \in Nat /\ 0 <= l /\ l <= Len(pipe) /\ 0 + 1 = 1 /\ Len(pipe) \in Nat
    BY <1>1
  <2>2. SubSeq(pipe, 0 + 1, l) \o SubSeq(pipe, l + 1, Len(pipe)) = SubSeq(pipe, 0 + 1, Len(pipe))
    BY <1>1, <2>1, Stretches
  <2>3. SubSeq(pipe, 1, Len(pipe)) = pipe
    BY <1>1
  <2> QED  BY <2>1, <2>2, <2>3
<1> HIDE DEF a, b
<1>5. rbuf' \o pipe' = rbuf \o pipe
  BY <1>1, <1>2, <1>3, <1>4, Together
<1>6. rbuf' \in Seq(Byte) /\ pipe' \in Seq(Byte)
  BY <1>1, <1>2, <1>3
<1>7. TypeOK' /\ BrokenForCause'
  BY <1>2, <1>6 DEF Inv, TypeOK, BrokenForCause
<1>8. \E st, fr : Laid(rbuf' \o pipe', ended', sent', Len(got'), st, fr)
  BY <1>2, <1>5 DEF Inv
<1> QED  BY <1>1, <1>2, <1>7, <1>8 DEF Inv

\* take_message hands over the next message sent, or nothing; what it drops
\* leaves the rest in its place.
LEMMA InvTake ==
  ASSUME Inv, TakeMessage
  PROVE  /\ Inv'
         /\ ~broken /\ sent' = sent
         /\ \/ got' = got
            \/ /\ Len(got) < Len(sent) /\ got' = Append(got, sent[Len(got) + 1])
               /\ broken' = broken
<1> DEFINE s == rbuf \o pipe
           n == Len(got)
           buf == SkipNoops(rbuf)
           pos == Walk(buf)
<1>1. /\ pipe \in Seq(Byte) /\ rbuf \in Seq(Byte) /\ s \in Seq(Byte)
      /\ sent \in Seq(Message) /\ got \in Seq(Seq(Byte))
      /\ n \in Nat /\ Len(sent) \in Nat /\ n <= Len(sent) /\ Len(rbuf) \in Nat
  BY InvTypes
<1>2. PICK start, frame : Laid(s, ended, sent, n, start, frame)
  BY DEF Inv
<1>3. /\ pc = "taking" /\ pipe' = pipe /\ ended' = ended /\ sent' = sent
      /\ \/ /\ pos >= 0
            /\ got' = Append(got, Body(buf, pos))
            /\ rbuf' = SubSeq(buf, pos + 3, Len(buf))
            /\ pc' = "idle"
            /\ broken' = broken
         \/ pos = -1 /\ rbuf' = buf /\ pc' = "filling" /\ broken' = broken /\ got' = got
         \/ pos = -2 /\ rbuf' = buf /\ pc' = "idle" /\ broken' = TRUE /\ got' = got
  BY DEF TakeMessage
<1>4. ~broken
  BY <1>3 DEF Inv
<1> HIDE DEF pos
<1>5. PICK x \in Nat :
        /\ x <= Len(rbuf) /\ buf = SubSeq(rbuf, x + 1, Len(rbuf))
        /\ Gap(s, x, start[n + 1])
        /\ \/ pos = -1
           \/ pos = -2 /\ n < Len(sent) /\ Len(sent[n + 1]) > MAX_MESSAGE
           \/ /\ pos \in Nat /\ n < Len(sent) /\ Body(buf, pos) = sent[n + 1]
              /\ x = start[n + 1] /\ pos + 2 = Len(frame[n + 1])
              /\ x + (pos + 2) <= Len(rbuf)
  BY <1>1, <1>2, TakeFacts DEF pos
<1> HIDE DEF buf
<1>6. \A y \in Nat : y <= Len(rbuf) =>
        /\ SubSeq(rbuf, y + 1, Len(rbuf)) \in Seq(Byte)
        /\ SubSeq(rbuf, y + 1, Len(rbuf)) \o pipe = SubSeq(s, y + 1, Len(s))
        /\ y <= Len(s)
  <2> SUFFICES ASSUME NEW y \in Nat, y <= Len(rbuf)
               PROVE  /\ SubSeq(rbuf, y + 1, Len(rbuf)) \in Seq(Byte)
                      /\ SubSeq(rbuf, y + 1, Len(rbuf)) \o pipe = SubSeq(s, y + 1, Len(s))
                      /\ y <= Len(s)
    OBVIOUS
  <2>1. SubSeq(rbuf, y + 1, Len(rbuf)) \in Seq(Byte)
    BY <1>1
  <2>2. SubSeq(rbuf, y + 1, Len(rbuf)) \o pipe = SubSeq(s, y + 1, Len(s))
    BY <1>1, DropBuffer
  <2>3. Len(s) = Len(rbuf) + Len(pipe) /\ Len(pipe) \in Nat
    BY <1>1
  <2>4. y <= Len(s)
    <3> HIDE DEF s
    <3> QED  BY <1>1, <2>3
  <2> QED  BY <2>1, <2>2, <2>4
<1>7. ASSUME rbuf' = buf, got' = got
      PROVE  /\ rbuf' \in Seq(Byte)
             /\ \E st, fr : Laid(rbuf' \o pipe', ended', sent', Len(got'), st, fr)
  <2>1. buf \o pipe = SubSeq(s, x + 1, Len(s)) /\ x <= Len(s) /\ buf \in Seq(Byte)
    BY <1>5, <1>6
  <2>2. n <= n
    BY <1>1
  <2>3. \E st, fr : Laid(SubSeq(s, x + 1, Len(s)), ended, sent, n, st, fr)
    BY <1>1, <1>2, <1>5, <2>1, <2>2, LaidDrop
  <2> QED  BY <1>3, <1>7, <2>1, <2>3
<1>8. CASE pos = -1
  <2>1. rbuf' = buf /\ pc' = "filling" /\ broken' = broken /\ got' = got
    BY <1>3, <1>8
  <2>2. TypeOK' /\ BrokenForCause'
    BY <1>3, <1>7, <2>1 DEF Inv, TypeOK, BrokenForCause
  <2>3. Inv'
    BY <1>1, <1>3, <1>4, <1>7, <2>1, <2>2 DEF Inv
  <2> QED  BY <1>3, <1>4, <2>1, <2>3
<1>9. CASE pos = -2
  <2>1. rbuf' = buf /\ pc' = "idle" /\ broken' = TRUE /\ got' = got
    BY <1>3, <1>9
  <2>2. n < Len(sent) /\ Len(sent[n + 1]) > MAX_MESSAGE
    BY <1>5, <1>9
  <2>3. TypeOK'
    BY <1>3, <1>7, <2>1 DEF Inv, TypeOK
  <2>4. n + 1 \in DOMAIN sent
    BY <1>1, <2>2
  <2>5. BrokenForCause'
    BY <1>3, <2>2, <2>4 DEF BrokenForCause
  <2>6. Inv'
    BY <1>1, <1>3, <1>7, <2>1, <2>3, <2>5 DEF Inv
  <2> QED  BY <1>3, <1>4, <2>1, <2>6
<1>10. CASE pos \in Nat
  <2>1. /\ got' = Append(got, Body(buf, pos)) /\ rbuf' = SubSeq(buf, pos + 3, Len(buf))
        /\ pc' = "idle" /\ broken' = broken
    BY <1>3, <1>10
  <2>2. /\ n < Len(sent) /\ Body(buf, pos) = sent[n + 1]
        /\ x = start[n + 1] /\ pos + 2 = Len(frame[n + 1])
        /\ x + (pos + 2) <= Len(rbuf)
    BY <1>5, <1>10
  <2>3. n + 1 \in 1 .. Len(sent) /\ n + 1 \in n + 1 .. Len(sent) /\ n + 1 \in Nat
        /\ n <= n + 1 /\ n + 1 <= Len(sent)
    BY <1>1, <2>2
  <2>4. sent[n + 1] \in Seq(Byte)
    BY <1>1, <2>3, FramingAssumption
  <2>5. got' \in Seq(Seq(Byte)) /\ Len(got') = n + 1
    BY <1>1, <2>1, <2>2, <2>4
  <2> DEFINE y == pos + 2
             z == x + y
  <2>6. y \in Nat /\ z \in Nat /\ z <= Len(rbuf) /\ y + 1 = pos + 3
    <3> DEFINE q == Len(rbuf)
    <3>1. x \in Nat /\ pos \in Nat /\ q \in Nat /\ x + (pos + 2) <= q
      BY <1>1, <1>10, <2>2
    <3> HIDE DEF q
    <3>2. y \in Nat /\ z \in Nat /\ z <= q /\ y + 1 = pos + 3
      BY <3>1
    <3> QED  BY <3>2 DEF q
  <2>7. rbuf' = SubSeq(rbuf, z + 1, Len(rbuf))
    <3>1. rbuf' = SubSeq(buf, y + 1, Len(buf))
      BY <2>1, <2>6
    <3> HIDE DEF y
    <3>2. x <= Len(rbuf) /\ x + y <= Len(rbuf) /\ y \in Nat /\ rbuf \in Seq(Byte)
      BY <1>1, <1>5, <2>6
    <3> DEFINE b == SubSeq(rbuf, x + 1, Len(rbuf))
    <3>3. SubSeq(b, y + 1, Len(b)) = SubSeq(rbuf, (x + y) + 1, Len(rbuf))
      BY <3>2, DropTwice
    <3>4. buf = b
      BY <1>5
    <3> HIDE DEF b
    <3> QED  BY <3>1, <3>3, <3>4
  <2> HIDE DEF z
  <2>8. rbuf' \in Seq(Byte) /\ rbuf' \o pipe = SubSeq(s, z + 1, Len(s)) /\ z <= Len(s)
    BY <1>6, <2>6, <2>7
  <2>9. Gap(s, z, start[(n + 1) + 1])
    <3>1. Gap(s, start[n + 1] + Len(frame[n + 1]), start[n + 1 + 1])
      BY <1>1, <1>2, <2>3, Place
    <3> QED  BY <2>2, <3>1 DEF z
  <2>10. \E st, fr : Laid(SubSeq(s, z + 1, Len(s)), ended, sent, n + 1, st, fr)
    BY <1>1, <1>2, <2>3, <2>6, <2>8, <2>9, LaidDrop
  <2>11. \E st, fr : Laid(rbuf' \o pipe', ended', sent', Len(got'), st, fr)
    BY <1>3, <2>5, <2>8, <2>10
  <2>12. TypeOK' /\ BrokenForCause'
    BY <1>3, <2>1, <2>5, <2>8 DEF Inv, TypeOK, BrokenForCause
  <2>13. Inv'
    BY <1>3, <1>4, <2>1, <2>3, <2>5, <2>11, <2>12 DEF Inv
  <2> QED  BY <1>3, <1>4, <2>1, <2>2, <2>13
<1> QED  BY <1>5, <1>8, <1>9, <1>10

\* Every step keeps it.
LEMMA InvNext ==
  ASSUME Inv, [Next]_vars
  PROVE  Inv'
<1>1. ASSUME NEW m \in Message, SendEncoded(m)
      PROVE  Inv'
  BY <1>1, EncodeCuts, InvPut DEF SendEncoded
<1>2. ASSUME NEW m \in Message, SendChunked(m)
      PROVE  Inv'
  BY <1>2, InvPut DEF SendChunked
<1>3. CASE Noop
  BY <1>3, InvNoop
<1>4. ASSUME NEW l \in 0 .. Len(pipe), End(l)
      PROVE  Inv'
  BY <1>4, InvEnd
<1>5. CASE ReadMessage
  <2>1. /\ ~broken /\ pc' = "taking" /\ pipe' = pipe /\ rbuf' = rbuf /\ broken' = broken
        /\ ended' = ended /\ sent' = sent /\ got' = got
    BY <1>5 DEF ReadMessage
  <2> QED  BY <2>1 DEF Inv, TypeOK, BrokenForCause
<1>6. CASE TakeMessage
  BY <1>6, InvTake
<1>7. CASE FillSome
  BY <1>7, InvFill DEF FillSome
<1>8. CASE FillEnd
  <2>1. /\ ended /\ broken' = TRUE /\ pc' = "idle" /\ pipe' = pipe /\ rbuf' = rbuf
        /\ ended' = ended /\ sent' = sent /\ got' = got
    BY <1>8 DEF FillEnd
  <2> QED  BY <2>1 DEF Inv, TypeOK, BrokenForCause
<1>9. CASE Cancel
  <2>1. /\ pc' = "idle" /\ pipe' = pipe /\ rbuf' = rbuf /\ broken' = broken
        /\ ended' = ended /\ sent' = sent /\ got' = got
    BY <1>9 DEF Cancel
  <2> QED  BY <2>1 DEF Inv, TypeOK, BrokenForCause
<1>10. CASE UNCHANGED vars
  <2>1. /\ pc' = pc /\ pipe' = pipe /\ rbuf' = rbuf /\ broken' = broken
        /\ ended' = ended /\ sent' = sent /\ got' = got
    BY <1>10 DEF vars
  <2> QED  BY <2>1 DEF Inv, TypeOK, BrokenForCause
<1> QED  BY <1>1, <1>2, <1>3, <1>4, <1>5, <1>6, <1>7, <1>8, <1>9, <1>10 DEF Next

\* Every variable keeps its type: what goes over the wire, chunk lengths
\* included, is bytes, for every base and every set of messages.
THEOREM Typing == Spec => []TypeOK
<1>1. Inv => TypeOK
  BY DEF Inv
<1> QED  BY <1>1, InvInit, InvNext, PTL DEF Spec

\* A connection is broken by the end of the stream or by a message over the
\* limit, never by how a message within it is cut or where its bytes end.
THEOREM BrokenOnlyForCause == Spec => []BrokenForCause
<1>1. Inv => BrokenForCause
  BY DEF Inv
<1> QED  BY <1>1, InvInit, InvNext, PTL DEF Spec

-----------------------------------------------------------------------------
(* The queue *)

\* A step of framing is a step of the queue, or none.
LEMMA QueueStep ==
  ASSUME Inv, [Next]_vars
  PROVE  [Queue!Next]_(Queue!vars)
<1> DEFINE n == Len(got)
           queue == SubSeq(sent, n + 1, Len(sent))
<1>1. /\ sent \in Seq(Message) /\ got \in Seq(Seq(Byte))
      /\ n \in Nat /\ Len(sent) \in Nat /\ n <= Len(sent)
  BY InvTypes
<1>2. ASSUME NEW m \in Message, NEW bytes, Put(m, bytes)
      PROVE  Queue!Send
  <2>1. sent' = Append(sent, m) /\ got' = got /\ broken' = broken
    BY <1>2 DEF Put
  <2>2. queue' = Append(queue, m)
    <3> DEFINE a == SubSeq(Append(sent, m), n + 1, Len(sent) + 1)
               b == Append(queue, m)
    <3>1. Len(Append(sent, m)) = Len(sent) + 1 /\ Append(sent, m) \in Seq(Message)
          /\ (\A i \in 1 .. Len(sent) : Append(sent, m)[i] = sent[i])
          /\ Append(sent, m)[Len(sent) + 1] = m
      BY <1>1
    <3>2. queue' = a
      BY <2>1, <3>1
    <3>3. queue \in Seq(Message) /\ Len(queue) = Len(sent) - n
          /\ \A i \in 1 .. Len(sent) - n : queue[i] = sent[n + i]
      BY <1>1
    <3> DEFINE t == Append(sent, m)
    <3> HIDE DEF t
    <3>4. SubSeq(t, n + 1, Len(sent) + 1) \in Seq(Message)
          /\ Len(SubSeq(t, n + 1, Len(sent) + 1)) = Len(sent) + 1 - n
          /\ \A i \in 1 .. Len(sent) + 1 - n : SubSeq(t, n + 1, Len(sent) + 1)[i] = t[n + i]
      BY <1>1, <3>1 DEF t
    <3>5. a \in Seq(Message) /\ Len(a) = Len(sent) + 1 - n
          /\ \A i \in 1 .. Len(sent) + 1 - n : a[i] = t[n + i]
      BY <3>4 DEF t
    <3> HIDE DEF a, queue
    <3>6. b \in Seq(Message) /\ Len(b) = Len(queue) + 1 /\ b[Len(queue) + 1] = m
          /\ \A i \in 1 .. Len(queue) : b[i] = queue[i]
      BY <3>3
    <3> HIDE DEF b
    <3>7. ASSUME NEW i \in 1 .. Len(sent) + 1 - n
          PROVE  a[i] = b[i]
      <4>1. CASE i <= Len(sent) - n
        <5>1. i \in 1 .. Len(sent) - n /\ i \in 1 .. Len(queue) /\ n + i \in 1 .. Len(sent)
          BY <1>1, <3>3, <4>1
        <5> QED  BY <3>1, <3>3, <3>5, <3>6, <5>1 DEF t
      <4>2. CASE i = Len(sent) + 1 - n
        <5>1. n + i = Len(sent) + 1 /\ i = Len(queue) + 1
          BY <1>1, <3>3, <4>2
        <5> QED  BY <3>1, <3>5, <3>6, <5>1 DEF t
      <4>3. i <= Len(sent) - n \/ i = Len(sent) + 1 - n
        <5> HIDE DEF n
        <5> QED  BY <1>1
      <4> QED  BY <4>1, <4>2, <4>3
    <3>8. Len(a) = Len(b) /\ Len(a) = Len(sent) + 1 - n
      BY <1>1, <3>3, <3>5, <3>6
    <3>9. a = b
      BY <3>5, <3>6, <3>7, <3>8, SeqEqual
    <3> QED  BY <3>2, <3>9 DEF b
  <2> QED  BY <2>1, <2>2 DEF Queue!Send
<1>3. ASSUME sent' = sent, got' = got, broken' = broken
      PROVE  UNCHANGED Queue!vars
  BY <1>3 DEF Queue!vars
<1>4. ASSUME sent' = sent, got' = got, ~broken, broken' = TRUE
      PROVE  Queue!Break
  BY <1>4 DEF Queue!Break
<1>5. ASSUME sent' = sent, n < Len(sent), got' = Append(got, sent[n + 1]),
             ~broken, broken' = broken
      PROVE  Queue!Receive
  <2>1. queue \in Seq(Message) /\ Len(queue) = Len(sent) - n /\ Len(queue) >= 1
        /\ \A i \in 1 .. Len(sent) - n : queue[i] = sent[n + i]
    BY <1>1, <1>5
  <2>2. Len(got') = n + 1
    BY <1>1, <1>5
  <2>3. queue' = SubSeq(sent, (n + 1) + 1, Len(sent))
    BY <1>5, <2>2
  <2> HIDE DEF queue
  <2>4. queue # << >> /\ Head(queue) = sent[n + 1]
    BY <1>1, <2>1
  <2>5. Tail(queue) = SubSeq(sent, (n + 1) + 1, Len(sent))
    <3> DEFINE a == Tail(queue)
               b == SubSeq(sent, (n + 1) + 1, Len(sent))
    <3>1. a \in Seq(Message) /\ Len(a) = Len(sent) - n - 1
          /\ \A i \in 1 .. Len(sent) - n - 1 : a[i] = queue[i + 1]
      BY <1>1, <2>1
    <3>2. b \in Seq(Message) /\ Len(b) = Len(sent) - n - 1
          /\ \A i \in 1 .. Len(sent) - n - 1 : b[i] = sent[n + 1 + i]
      BY <1>1, <1>5
    <3> HIDE DEF a, b
    <3>3. ASSUME NEW i \in 1 .. Len(sent) - n - 1
          PROVE  a[i] = b[i]
      <4>1. i + 1 \in 1 .. Len(sent) - n /\ n + (i + 1) = n + 1 + i
        BY <1>1
      <4> QED  BY <2>1, <3>1, <3>2, <4>1
    <3>4. a = b
      BY <3>1, <3>2, <3>3, SeqEqual
    <3> QED  BY <3>4 DEF a, b
  <2> QED  BY <1>5, <2>3, <2>4, <2>5 DEF Queue!Receive, queue
<1>6. ASSUME NEW m \in Message, SendEncoded(m) \/ SendChunked(m)
      PROVE  Queue!Send
  BY <1>2, <1>6 DEF SendEncoded, SendChunked
<1>7. CASE Noop \/ (\E l \in 0 .. Len(pipe) : End(l)) \/ ReadMessage \/ FillSome \/ Cancel
  <2>1. sent' = sent /\ got' = got /\ broken' = broken
    BY <1>7 DEF Noop, End, ReadMessage, FillSome, Fill, Cancel
  <2> QED  BY <1>3, <2>1
<1>8. CASE TakeMessage
  <2>1. /\ ~broken /\ sent' = sent
        /\ \/ got' = got
           \/ n < Len(sent) /\ got' = Append(got, sent[n + 1]) /\ broken' = broken
    BY <1>8, InvTake
  <2>2. broken' = broken \/ broken' = TRUE
    BY <1>8 DEF TakeMessage
  <2> QED  BY <1>3, <1>4, <1>5, <2>1, <2>2 DEF Queue!Next
<1>9. CASE FillEnd
  <2>1. ~broken /\ broken' = TRUE /\ sent' = sent /\ got' = got
    BY <1>9 DEF FillEnd, Inv
  <2> QED  BY <1>4, <2>1 DEF Queue!Next
<1>10. CASE UNCHANGED vars
  BY <1>3, <1>10 DEF vars
<1> QED  BY <1>6, <1>7, <1>8, <1>9, <1>10 DEF Next, Queue!Next

\* read_message hands over the messages sent, whole, in order and each once,
\* until the connection breaks: framing implements the queue, for every base,
\* every limit and every set of messages, wherever chunks and arrivals end,
\* whatever is cancelled, and though the peer dies in the middle of one.
THEOREM Refinement == Spec => ImplementsQueue
<1>1. Init => Queue!Init
  <2> SUFFICES ASSUME Init
               PROVE  Queue!Init
    OBVIOUS
  <2>1. sent = << >> /\ got = << >> /\ broken = FALSE
    BY DEF Init
  <2>2. SubSeq(sent, Len(got) + 1, Len(sent)) = << >>
    BY <2>1
  <2> QED  BY <2>1, <2>2 DEF Queue!Init
<1> QED  BY <1>1, InvInit, InvNext, QueueStep, PTL DEF Spec, ImplementsQueue, Queue!Spec

=============================================================================
