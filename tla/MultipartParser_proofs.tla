------------------------ MODULE MultipartParser_proofs ------------------------
(***************************************************************************)
(* What the queue of the multipart parser promises, for every payload and  *)
(* every way to cut it into chunks: it is the sequence of the bytes that   *)
(* have arrived and have not been consumed, whatever the parser reads,     *)
(* remembers, consumes and compacts.                                       *)
(*                                                                         *)
(* The lemmas on BufferQueue relate a queue q to the bytes s it represents *)
(* (Represents), and say of each operation what it does to s.              *)
(*                                                                         *)
(* Then: what the parser decides on the bytes it has is what it would      *)
(* decide with more of them (the theorems called ...Stands), and what it   *)
(* gives out is within the limits of the payload.                          *)
(***************************************************************************)
EXTENDS MultipartParser, SequenceTheorems, WellFoundedInduction, TLAPS

-----------------------------------------------------------------------------
(* Numbers along an interval.                                              *)

\* A set of naturals has a least element.
LEMMA Least ==
    ASSUME NEW S \in SUBSET Nat, S # {}
    PROVE  \E m \in S : \A n \in S : m <= n
<1>1. PICK m \in S : \A n \in S : ~(<<n, m>> \in OpToRel(<, Nat))
  BY NatLessThanWellFounded, WFMin
<1>2. \A n \in S : ~(n < m)
  BY <1>1 DEF OpToRel
<1>. QED BY <1>2

\* Functions that grow by the same steps differ by a constant.
RiseAlike(a, b, c, f, g) ==
    /\ a \in Nat /\ b \in Nat /\ a <= b /\ c \in Int
    /\ \A k \in a..b : f[k] \in Int /\ g[k] \in Int
    /\ f[a] = g[a] + c
    /\ \A k \in a..b : k > a => f[k] - f[k - 1] = g[k] - g[k - 1]

LEMMA SameSteps ==
    ASSUME NEW a, NEW b, NEW c, NEW f, NEW g, RiseAlike(a, b, c, f, g)
    PROVE  \A k \in a..b : f[k] = g[k] + c
<1>0. /\ a \in Nat /\ b \in Nat /\ a <= b /\ c \in Int
      /\ \A k \in a..b : f[k] \in Int /\ g[k] \in Int
      /\ f[a] = g[a] + c
      /\ \A k \in a..b : k > a => f[k] - f[k - 1] = g[k] - g[k - 1]
  BY DEF RiseAlike
<1>1. ASSUME NEW m \in a..b, m > a, f[m - 1] = g[m - 1] + c
      PROVE  f[m] = g[m] + c
  <2>1. m - 1 \in a..b
    BY <1>0, <1>1
  <2>2. /\ f[m] \in Int /\ g[m] \in Int /\ f[m - 1] \in Int /\ g[m - 1] \in Int
        /\ f[m] - f[m - 1] = g[m] - g[m - 1]
    BY <1>0, <1>1, <2>1
  <2>. DEFINE p == f[m - 1]
  <2>. DEFINE q == g[m - 1]
  <2>. DEFINE v == f[m]
  <2>. DEFINE w == g[m]
  <2>3. /\ p \in Int /\ q \in Int /\ v \in Int /\ w \in Int
        /\ p = q + c /\ v - p = w - q
    BY <1>1, <2>2
  <2>. HIDE DEF p, q, v, w
  <2>4. v = w + c
    BY <1>0, <2>3
  <2>. QED BY <2>4 DEF v, w
<1>. DEFINE P(k) == f[k] = g[k] + c
<1>2. P(a) /\ \A m \in a..b : m > a /\ P(m - 1) => P(m)
  BY <1>0, <1>1
<1>. HIDE DEF P
<1>. DEFINE S == {k \in a..b : ~P(k)}
<1>3. ASSUME S # {}
      PROVE  FALSE
  <2>1. S \in SUBSET Nat
    BY <1>0
  <2>2. PICK m \in S : \A n \in S : m <= n
    <3>. HIDE DEF S
    <3>. QED BY <1>3, <2>1, Least
  <2>3. m > a /\ m - 1 \in a..b /\ m - 1 \notin S
    BY <1>0, <1>2, <2>2
  <2>. QED BY <1>2, <2>2, <2>3
<1>4. \A k \in a..b : P(k)
  BY <1>3
<1>. QED BY <1>4 DEF P

\* A function that grows with each step is increasing.
LEMMA Increasing ==
    ASSUME NEW a \in Nat, NEW b \in Nat, NEW f \in [a..b -> Int],
           \A k \in a..b : k > a => f[k - 1] < f[k]
    PROVE  \A k, l \in a..b : k < l => f[k] < f[l]
<1>. SUFFICES ASSUME NEW k \in a..b, NEW l \in a..b, k < l, f[l] <= f[k]
              PROVE  FALSE
  OBVIOUS
<1>. DEFINE S == {m \in a..b : k < m /\ f[m] <= f[k]}
<1>0. S \in SUBSET Nat /\ l \in S
  OBVIOUS
<1>1. PICK m \in S : \A n \in S : m <= n
  <2>. HIDE DEF S
  <2>. QED BY <1>0, Least
<1>2. m - 1 \in a..b /\ m - 1 \notin S /\ f[m - 1] < f[m]
  BY <1>1
<1>3. f[m - 1] \in Int /\ f[m] \in Int /\ f[k] \in Int /\ f[m] <= f[k] /\ k < m
  BY <1>1, <1>2
<1>4. ~(k < m - 1)
  BY <1>2, <1>3
<1>5. m - 1 = k
  BY <1>1, <1>3, <1>4
<1>. QED BY <1>2, <1>3, <1>5

\* A number between the first and the last value lies in one of the steps.
LEMMA Bracket ==
    ASSUME NEW a \in Nat, NEW b \in Nat, a <= b, NEW f \in [a..b -> Int],
           NEW n \in Int, f[a] <= n, n < f[b]
    PROVE  \E k \in a..b : k < b /\ f[k] <= n /\ n < f[k + 1]
<1>. DEFINE S == {m \in a..b : n < f[m]}
<1>0. S \in SUBSET Nat /\ b \in S
  OBVIOUS
<1>1. PICK m \in S : \A k \in S : m <= k
  <2>. HIDE DEF S
  <2>. QED BY <1>0, Least
<1>2. m > a /\ m - 1 \in a..b /\ m - 1 \notin S
  BY <1>1
<1>3. f[m - 1] <= n
  BY <1>2
<1>. QED BY <1>1, <1>2, <1>3

\* Steps can be added up.
LEMMA Adding ==
    ASSUME NEW a \in Nat, NEW b \in Nat, a <= b, NEW c \in Int, NEW d \in [a..b -> Int]
    PROVE  \E f \in [a..b -> Int] :
              f[a] = c /\ \A k \in a..b : k > a => f[k] = f[k - 1] + d[k - 1]
<1>. DEFINE Adds(n, f) == f[a] = c /\ \A k \in a..n : k > a => f[k] = f[k - 1] + d[k - 1]
<1>. DEFINE Sums(n) == \E f \in [a..n -> Int] : Adds(n, f)
<1>1. Sums(a)
  <2>. DEFINE f == [k \in a..a |-> c]
  <2>1. f \in [a..a -> Int] /\ Adds(a, f)
    OBVIOUS
  <2>. QED BY <2>1
<1>2. ASSUME NEW n \in a..b, n < b, Sums(n)
      PROVE  Sums(n + 1)
  <2>1. PICK g \in [a..n -> Int] : Adds(n, g)
    BY <1>2
  <2>. DEFINE f == [k \in a..(n + 1) |-> IF k = n + 1 THEN g[n] + d[n] ELSE g[k]]
  <2>2. f \in [a..(n + 1) -> Int]
    <3>1. g[n] + d[n] \in Int
      OBVIOUS
    <3>. QED BY <3>1
  <2>3. Adds(n + 1, f)
    <3>1. f[a] = c
      BY <2>1
    <3>2. ASSUME NEW k \in a..(n + 1), k > a
          PROVE  f[k] = f[k - 1] + d[k - 1]
      <4>1. CASE k = n + 1
        <5>1. n \in a..(n + 1) /\ n # n + 1 /\ k - 1 = n
          BY <4>1
        <5>2. f[k] = g[n] + d[n] /\ f[k - 1] = g[n]
          BY <4>1, <5>1
        <5>. QED BY <5>1, <5>2
      <4>2. CASE k # n + 1
        BY <2>1, <3>2, <4>2
      <4>. QED BY <4>1, <4>2
    <3>. QED BY <3>1, <3>2
  <2>. HIDE DEF f
  <2>. QED BY <2>2, <2>3
<1>3. Sums(b)
  <2>. HIDE DEF Sums
  <2>. DEFINE S == {n \in a..b : ~Sums(n)}
  <2>1. SUFFICES ASSUME S # {} PROVE FALSE
    OBVIOUS
  <2>2. PICK m \in S : \A n \in S : m <= n
    <3>1. S \in SUBSET Nat
      OBVIOUS
    <3>. HIDE DEF S
    <3>. QED BY <2>1, <3>1, Least
  <2>3. m \in a..b /\ m # a /\ ~Sums(m)
    BY <1>1, <2>2
  <2>4. m - 1 \in a..b /\ m - 1 < b /\ Sums(m - 1)
    BY <2>2, <2>3
  <2>5. Sums((m - 1) + 1)
    BY <1>2, <2>4
  <2>. QED BY <2>3, <2>5
<1>. QED BY <1>3

-----------------------------------------------------------------------------
(* Chunks and places.                                                      *)

\* Chunks are never empty; a place is a byte of one, or the end of all.
IsChunks(buffers) == buffers \in Seq(Seq(Word)) /\ \A k \in 1..Len(buffers) : Len(buffers[k]) > 0
IsPlace(buffers, p) ==
    /\ p \in [chunk : Nat, offset : Nat]
    /\ p.chunk \in 1..(Len(buffers) + 1)
    /\ IF p.chunk = Len(buffers) + 1 THEN p.offset = 0 ELSE p.offset < Len(buffers[p.chunk])

\* Chunks begin where those before them end.
Steps(buffers, from, f) ==
    /\ f[from.chunk] = 0 - from.offset
    /\ \A k \in from.chunk..(Len(buffers) + 1) :
          k > from.chunk => f[k] = f[k - 1] + Len(buffers[k - 1])

LEMMA StartsExist ==
    ASSUME NEW buffers, IsChunks(buffers), NEW from, IsPlace(buffers, from)
    PROVE  /\ ChunkStarts(buffers, from) \in [from.chunk..(Len(buffers) + 1) -> Int]
           /\ Steps(buffers, from, ChunkStarts(buffers, from))
<1>. DEFINE a == from.chunk
<1>. DEFINE b == Len(buffers) + 1
<1>. DEFINE d == [k \in a..b |-> IF k < b THEN Len(buffers[k]) ELSE 0]
<1>. DEFINE Fix(f) == f = [k \in a..b |-> IF k = a THEN 0 - from.offset
                                          ELSE f[k - 1] + Len(buffers[k - 1])]
<1>1. /\ a \in Nat /\ b \in Nat /\ 1 <= a /\ a <= b /\ 0 - from.offset \in Int
      /\ \A k \in 1..b : k < b => Len(buffers[k]) \in Nat
  BY DEF IsChunks, IsPlace
<1>2. d \in [a..b -> Int]
  BY <1>1
<1>3. PICK g \in [a..b -> Int] :
          /\ g[a] = 0 - from.offset
          /\ \A k \in a..b : k > a => g[k] = g[k - 1] + d[k - 1]
  <2>. HIDE DEF a, b, d
  <2>1. a \in Nat /\ b \in Nat /\ a <= b
    BY <1>1
  <2>2. \A c \in Int : \E g \in [a..b -> Int] :
            g[a] = c /\ \A k \in a..b : k > a => g[k] = g[k - 1] + d[k - 1]
    <3>1. d \in [a..b -> Int]
      BY <1>2
    <3>. QED BY <2>1, <3>1, Adding, ZenonT(30)
  <2>. QED BY <1>1, <2>2
<1>4. \A k \in a..b : k > a => d[k - 1] = Len(buffers[k - 1])
  BY <1>1
<1>5. Fix(g)
  <2>. HIDE DEF a, b, d
  <2>1. \A k \in a..b : g[k] = IF k = a THEN 0 - from.offset ELSE g[k - 1] + Len(buffers[k - 1])
    BY <1>1, <1>3, <1>4
  <2>2. g = [k \in a..b |-> g[k]]
    OBVIOUS
  <2>. QED BY <2>1, <2>2
<1>6. ChunkStarts(buffers, from) = CHOOSE f : Fix(f)
  BY DEF ChunkStarts
<1>7. Fix(ChunkStarts(buffers, from))
  BY <1>5, <1>6
<1>. DEFINE f == ChunkStarts(buffers, from)
<1>8. Steps(buffers, from, f) /\ f = [k \in a..b |-> f[k]]
  <2>. HIDE DEF f
  <2>. QED BY <1>1, <1>7 DEF Steps, f
<1>. HIDE DEF f
<1>9. f = g
  <2>1. \A k \in a..b : f[k] = g[k]
    <3>. HIDE DEF a, b, d
    <3>. DEFINE S == {k \in a..b : f[k] # g[k]}
    <3>1. SUFFICES ASSUME S # {} PROVE FALSE
      OBVIOUS
    <3>2. PICK m \in S : \A k \in S : m <= k
      <4>1. S \in SUBSET Nat
        BY <1>1
      <4>. HIDE DEF S
      <4>. QED BY <3>1, <4>1, Least
    <3>3. m \in a..b /\ f[m] # g[m]
      OBVIOUS
    <3>4. \A k \in a..b : f[k] = IF k = a THEN 0 - from.offset ELSE f[k - 1] + Len(buffers[k - 1])
      BY <1>7 DEF f
    <3>5. \A k \in a..b : g[k] = IF k = a THEN 0 - from.offset ELSE g[k - 1] + Len(buffers[k - 1])
      BY <1>5
    <3>6. m # a
      BY <3>3, <3>4, <3>5
    <3>7. m - 1 \in a..b /\ m - 1 \notin S
      BY <1>1, <3>2, <3>3, <3>6
    <3>. QED BY <3>3, <3>4, <3>5, <3>6, <3>7
  <2>. QED BY <1>8, <2>1
<1>. QED BY <1>8, <1>9 DEF f

\* A later chunk begins later.
LEMMA StartsGrow ==
    ASSUME NEW buffers, IsChunks(buffers), NEW from, IsPlace(buffers, from)
    PROVE  \A k, l \in from.chunk..(Len(buffers) + 1) :
               k < l => ChunkStarts(buffers, from)[k] < ChunkStarts(buffers, from)[l]
<1>. DEFINE a == from.chunk
<1>. DEFINE b == Len(buffers) + 1
<1>. DEFINE f == ChunkStarts(buffers, from)
<1>1. a \in Nat /\ b \in Nat /\ 1 <= a
      /\ \A k \in 1..b : k < b => Len(buffers[k]) \in Nat /\ Len(buffers[k]) > 0
  BY DEF IsChunks, IsPlace
<1>2. f \in [a..b -> Int] /\ \A k \in a..b : k > a => f[k] = f[k - 1] + Len(buffers[k - 1])
  BY StartsExist DEF Steps
<1>. HIDE DEF a, b, f
<1>3. ASSUME NEW k \in a..b, k > a
      PROVE  f[k - 1] < f[k]
  <2>1. k - 1 \in a..b /\ k - 1 \in 1..b /\ k - 1 < b
    BY <1>1, <1>3
  <2>2. f[k - 1] \in Int /\ f[k] = f[k - 1] + Len(buffers[k - 1])
        /\ Len(buffers[k - 1]) \in Nat /\ Len(buffers[k - 1]) > 0
    BY <1>1, <1>2, <1>3, <2>1
  <2>. QED BY <2>2
<1>4. \A k, l \in a..b : k < l => f[k] < f[l]
  BY <1>1, <1>2, <1>3, Increasing
<1>. QED BY <1>4 DEF a, b, f

\* The place n bytes on lies in the chunk that has begun by then and has not ended.
LEMMA WalkIs ==
    ASSUME NEW q, IsChunks(q.buffers), NEW from, IsPlace(q.buffers, from), NEW n \in Int,
           NEW k \in from.chunk..Len(q.buffers),
           ChunkStarts(q.buffers, from)[k] <= n, n < ChunkStarts(q.buffers, from)[k + 1]
    PROVE  Walk(q, from, n) = [chunk |-> k, offset |-> n - ChunkStarts(q.buffers, from)[k]]
<1>. DEFINE a == from.chunk
<1>. DEFINE b == Len(q.buffers) + 1
<1>. DEFINE f == ChunkStarts(q.buffers, from)
<1>. DEFINE Chunks == {m \in a..Len(q.buffers) : f[m] <= n /\ n < f[m + 1]}
<1>1. a \in Nat /\ Len(q.buffers) \in Nat /\ b \in Nat
  BY DEF IsChunks, IsPlace
<1>2. f \in [a..b -> Int] /\ \A m, l \in a..b : m < l => f[m] < f[l]
  BY StartsExist, StartsGrow
<1>3. ASSUME NEW m \in Chunks
      PROVE  m = k
  <2>1. /\ m \in a..b /\ m + 1 \in a..b /\ k \in a..b /\ k + 1 \in a..b
        /\ f[m] <= n /\ n < f[m + 1] /\ f[k] <= n /\ n < f[k + 1]
    BY <1>1
  <2>. HIDE DEF f
  <2>2. f[m] \in Int /\ f[m + 1] \in Int /\ f[k] \in Int /\ f[k + 1] \in Int
    BY <1>2, <2>1
  <2>3. CASE m < k
    <3>1. m + 1 = k \/ f[m + 1] < f[k]
      BY <1>2, <2>1, <2>3
    <3>. QED BY <2>1, <2>2, <3>1
  <2>4. CASE k < m
    <3>1. k + 1 = m \/ f[k + 1] < f[m]
      BY <1>2, <2>1, <2>4
    <3>. QED BY <2>1, <2>2, <3>1
  <2>. QED BY <2>1, <2>3, <2>4
<1>4. k \in Chunks
  OBVIOUS
<1>5. Chunks = {k}
  <2>. HIDE DEF Chunks
  <2>. QED BY <1>3, <1>4
<1>6. Walk(q, from, n) = IF Chunks = {} THEN NoPlace
                         ELSE [chunk |-> CHOOSE m \in Chunks : TRUE,
                               offset |-> n - f[CHOOSE m \in Chunks : TRUE]]
  BY DEF Walk
<1>7. (CHOOSE m \in Chunks : TRUE) = k
  <2>. HIDE DEF Chunks
  <2>. QED BY <1>5
<1>. HIDE DEF Chunks, f
<1>8. Walk(q, from, n) = [chunk |-> k, offset |-> n - f[k]]
  BY <1>5, <1>6, <1>7
<1>. QED BY <1>8 DEF f

\* There is such a chunk, and the place is a byte of it.
LEMMA WalkFinds ==
    ASSUME NEW q, IsChunks(q.buffers), NEW from, IsPlace(q.buffers, from), NEW n \in Nat,
           n < ChunkStarts(q.buffers, from)[Len(q.buffers) + 1]
    PROVE  LET w == Walk(q, from, n)
               f == ChunkStarts(q.buffers, from)
           IN  /\ IsPlace(q.buffers, w) /\ w # NoPlace
               /\ w.chunk \in from.chunk..Len(q.buffers)
               /\ f[w.chunk] <= n /\ n < f[w.chunk + 1] /\ w.offset = n - f[w.chunk]
<1>. DEFINE a == from.chunk
<1>. DEFINE b == Len(q.buffers) + 1
<1>. DEFINE f == ChunkStarts(q.buffers, from)
<1>1. /\ a \in Nat /\ Len(q.buffers) \in Nat /\ b \in Nat /\ 1 <= a /\ a <= b
      /\ from.offset \in Nat
      /\ \A m \in 1..Len(q.buffers) : Len(q.buffers[m]) \in Nat
  BY DEF IsChunks, IsPlace
<1>2. /\ f \in [a..b -> Int] /\ f[a] = 0 - from.offset
      /\ \A m \in a..b : m > a => f[m] = f[m - 1] + Len(q.buffers[m - 1])
  BY StartsExist DEF Steps
<1>3. PICK k \in a..b : k < b /\ f[k] <= n /\ n < f[k + 1]
  <2>. HIDE DEF a, b, f
  <2>1. f[a] <= n
    BY <1>1, <1>2
  <2>2. n < f[b]
    BY DEF f, b
  <2>3. a \in Nat /\ b \in Nat /\ a <= b /\ n \in Int /\ f \in [a..b -> Int]
    BY <1>1, <1>2
  <2>. QED BY <2>1, <2>2, <2>3, Bracket, ZenonT(30)
<1>4. k \in a..Len(q.buffers) /\ k \in 1..Len(q.buffers) /\ k + 1 \in a..b
  BY <1>1, <1>3
<1>5. Walk(q, from, n) = [chunk |-> k, offset |-> n - f[k]]
  BY <1>3, <1>4, WalkIs
<1>6. f[k] \in Int /\ f[k + 1] = f[k] + Len(q.buffers[k]) /\ Len(q.buffers[k]) \in Nat
  <2>. HIDE DEF f
  <2>1. k + 1 > a /\ (k + 1) - 1 = k
    BY <1>1, <1>4
  <2>. QED BY <1>1, <1>2, <1>3, <1>4, <2>1
<1>. HIDE DEF f
<1>7. n - f[k] \in Nat /\ n - f[k] < Len(q.buffers[k])
  BY <1>3, <1>6
<1>. DEFINE w == [chunk |-> k, offset |-> n - f[k]]
<1>8. IsPlace(q.buffers, w) /\ w # NoPlace /\ w.chunk = k /\ w.offset = n - f[k]
  BY <1>1, <1>4, <1>7 DEF IsPlace, NoPlace
<1>. QED BY <1>3, <1>4, <1>5, <1>8 DEF f

\* Seen from there, every chunk begins n bytes earlier.
LEMMA StartsFrom ==
    ASSUME NEW q, IsChunks(q.buffers), NEW from, IsPlace(q.buffers, from), NEW n \in Nat,
           n < ChunkStarts(q.buffers, from)[Len(q.buffers) + 1]
    PROVE  LET w == Walk(q, from, n)
           IN  \A k \in w.chunk..(Len(q.buffers) + 1) :
                   ChunkStarts(q.buffers, w)[k] = ChunkStarts(q.buffers, from)[k] - n
<1>. DEFINE w == Walk(q, from, n)
<1>. DEFINE a == w.chunk
<1>. DEFINE b == Len(q.buffers) + 1
<1>. DEFINE f == ChunkStarts(q.buffers, w)
<1>. DEFINE g == ChunkStarts(q.buffers, from)
<1>1. /\ IsPlace(q.buffers, w) /\ a \in from.chunk..Len(q.buffers)
      /\ w.offset = n - g[a]
  BY WalkFinds
<1>2. a \in Nat /\ b \in Nat /\ from.chunk \in Nat /\ a <= b /\ from.chunk <= a
  BY <1>1 DEF IsPlace, IsChunks
<1>3. /\ f \in [a..b -> Int] /\ f[a] = 0 - w.offset
      /\ \A m \in a..b : m > a => f[m] = f[m - 1] + Len(q.buffers[m - 1])
  BY <1>1, StartsExist DEF Steps
<1>4. /\ g \in [from.chunk..b -> Int]
      /\ \A m \in from.chunk..b : m > from.chunk => g[m] = g[m - 1] + Len(q.buffers[m - 1])
  BY StartsExist DEF Steps
<1>. HIDE DEF a, b, f, g, w
<1>5. \A k \in a..b : f[k] \in Int /\ g[k] \in Int
  <2>1. \A k \in a..b : k \in from.chunk..b
    BY <1>2
  <2>2. \A k \in from.chunk..b : g[k] \in Int
    BY <1>4
  <2>. QED BY <1>3, <2>1, <2>2
<1>6. f[a] = g[a] + (0 - n)
  <2>1. g[a] \in Int
    BY <1>2, <1>5
  <2>. QED BY <1>1, <1>3, <2>1
<1>7. ASSUME NEW k \in a..b, k > a
      PROVE  f[k] - f[k - 1] = g[k] - g[k - 1]
  <2>1. k - 1 \in a..b /\ k \in from.chunk..b /\ k > from.chunk /\ k - 1 \in 1..Len(q.buffers)
    BY <1>1, <1>2, <1>7 DEF b, IsPlace, a
  <2>2. /\ f[k] = f[k - 1] + Len(q.buffers[k - 1]) /\ g[k] = g[k - 1] + Len(q.buffers[k - 1])
        /\ Len(q.buffers[k - 1]) \in Nat
    BY <1>3, <1>4, <1>7, <2>1 DEF IsChunks
  <2>3. f[k - 1] \in Int /\ g[k - 1] \in Int
    BY <1>5, <2>1
  <2>. QED BY <2>2, <2>3
<1>8. \A k \in a..b : f[k] = g[k] + (0 - n)
  <2>1. 0 - n \in Int
    OBVIOUS
  <2>2. a \in Nat /\ b \in Nat /\ a <= b
    BY <1>2
  <2>. DEFINE c == 0 - n
  <2>3. /\ c \in Int /\ f[a] = g[a] + c
        /\ \A k \in a..b : k > a => f[k] - f[k - 1] = g[k] - g[k - 1]
    BY <1>6, <1>7, <2>1
  <2>. HIDE DEF c
  <2>4. \A k \in a..b : f[k] = g[k] + c
    <3>1. RiseAlike(a, b, c, f, g)
      BY <1>5, <2>2, <2>3 DEF RiseAlike
    <3>. QED BY <3>1, SameSteps
  <2>. QED BY <2>4 DEF c
<1>9. \A k \in a..b : f[k] = g[k] - n
  BY <1>5, <1>8
<1>. QED BY <1>9 DEF w, a, b, f, g

-----------------------------------------------------------------------------
(* What a queue represents.                                                *)

\* The bytes from a place on are s.
Holds(buffers, from, s) ==
    /\ ChunkStarts(buffers, from)[Len(buffers) + 1] = Len(s)
    /\ \A k \in from.chunk..Len(buffers) : \A j \in 1..Len(buffers[k]) :
          ChunkStarts(buffers, from)[k] + j >= 1 => buffers[k][j] = s[ChunkStarts(buffers, from)[k] + j]

Queue == [buffers : Seq(Seq(Word)), head : [chunk : Nat, offset : Nat], length : Nat,
          cache : [pos : Int, place : [chunk : Nat, offset : Nat]]]

\* The bytes from the head on, and a cache that saves a walk from there.
Represents(q, s) ==
    /\ q \in Queue /\ s \in Seq(Word)
    /\ IsChunks(q.buffers) /\ IsPlace(q.buffers, q.head)
    /\ q.length = Len(s)
    /\ Holds(q.buffers, q.head, s)
    /\ q.cache # Uncached =>
         /\ q.cache.pos \in 0..(Len(s) - 1)
         /\ q.cache.place = Walk(q, q.head, q.cache.pos)

\* The byte at the place n bytes on.
LEMMA WalkReads ==
    ASSUME NEW q, NEW s, Represents(q, s), NEW n \in 0..(Len(s) - 1)
    PROVE  /\ n < ChunkStarts(q.buffers, q.head)[Len(q.buffers) + 1]
           /\ At(q, Walk(q, q.head, n)) = s[n + 1]
<1>. DEFINE w == Walk(q, q.head, n)
<1>. DEFINE f == ChunkStarts(q.buffers, q.head)
<1>1. /\ IsChunks(q.buffers) /\ IsPlace(q.buffers, q.head) /\ Holds(q.buffers, q.head, s)
      /\ Len(s) \in Nat /\ n \in Nat
  BY DEF Represents
<1>2. n < f[Len(q.buffers) + 1]
  BY <1>1 DEF Holds
<1>3. /\ IsPlace(q.buffers, w) /\ w # NoPlace
      /\ w.chunk \in q.head.chunk..Len(q.buffers)
      /\ f[w.chunk] <= n /\ n < f[w.chunk + 1] /\ w.offset = n - f[w.chunk]
  BY <1>1, <1>2, WalkFinds
<1>4. /\ q.head.chunk \in Nat /\ Len(q.buffers) \in Nat
      /\ f \in [q.head.chunk..(Len(q.buffers) + 1) -> Int]
  <2>1. f \in [q.head.chunk..(Len(q.buffers) + 1) -> Int]
    BY <1>1, StartsExist
  <2>2. q.head.chunk \in Nat /\ Len(q.buffers) \in Nat
    BY <1>1 DEF IsPlace, IsChunks
  <2>. QED BY <2>1, <2>2
<1>. HIDE DEF w, f
<1>5. f[w.chunk] \in Int
  BY <1>3, <1>4
<1>6. w.offset \in Nat /\ w.offset + 1 \in 1..Len(q.buffers[w.chunk])
  <2>1. w.chunk # Len(q.buffers) + 1
    BY <1>3, <1>4
  <2>2. w.chunk \in 1..Len(q.buffers)
    BY <1>1, <1>3, <1>4 DEF IsPlace
  <2>3. w.offset \in Nat /\ w.offset < Len(q.buffers[w.chunk])
    BY <1>3, <2>1 DEF IsPlace
  <2>4. Len(q.buffers[w.chunk]) \in Nat
    BY <1>1, <2>2 DEF IsChunks
  <2>. QED BY <2>3, <2>4
<1>7. f[w.chunk] + (w.offset + 1) = n + 1
  BY <1>1, <1>3, <1>5, <1>6
<1>8. q.buffers[w.chunk][w.offset + 1] = s[f[w.chunk] + (w.offset + 1)]
  <2>1. \A k \in q.head.chunk..Len(q.buffers) : \A j \in 1..Len(q.buffers[k]) :
          f[k] + j >= 1 => q.buffers[k][j] = s[f[k] + j]
    BY <1>1 DEF Holds, f
  <2>2. f[w.chunk] + (w.offset + 1) >= 1
    BY <1>1, <1>7
  <2>. QED BY <1>3, <1>6, <2>1, <2>2
<1>9. At(q, w) = s[n + 1]
  BY <1>3, <1>7, <1>8 DEF At
<1>. QED BY <1>2, <1>9 DEF w, f

\* A place is found from the cached one as from the head.
LEMMA ResolveIsWalk ==
    ASSUME NEW q, NEW s, Represents(q, s), NEW n \in 0..(Len(s) - 1)
    PROVE  Resolve(q, n) = Walk(q, q.head, n)
<1>. DEFINE p == q.cache.pos
<1>. DEFINE v == Walk(q, q.head, p)
<1>. DEFINE w == Walk(q, q.head, n)
<1>. DEFINE f == ChunkStarts(q.buffers, q.head)
<1>1. /\ IsChunks(q.buffers) /\ IsPlace(q.buffers, q.head) /\ Len(s) \in Nat /\ n \in Nat
      /\ q.cache.pos \in Int
  BY DEF Represents, Queue
<1>2. SUFFICES ASSUME q.cache # Uncached, n >= p
               PROVE  Walk(q, q.cache.place, n - p) = w
  BY DEF Resolve
<1>3. p \in 0..(Len(s) - 1) /\ p \in Nat /\ q.cache.place = v
  BY <1>1, <1>2 DEF Represents
<1>4. p < f[Len(q.buffers) + 1] /\ n < f[Len(q.buffers) + 1]
  BY <1>3, WalkReads
<1>5. /\ IsPlace(q.buffers, w) /\ w.chunk \in q.head.chunk..Len(q.buffers)
      /\ f[w.chunk] <= n /\ n < f[w.chunk + 1] /\ w.offset = n - f[w.chunk]
  BY <1>1, <1>4, WalkFinds
<1>6. /\ IsPlace(q.buffers, v) /\ v.chunk \in q.head.chunk..Len(q.buffers)
      /\ f[v.chunk] <= p
  BY <1>1, <1>3, <1>4, WalkFinds
<1>7. \A k \in v.chunk..(Len(q.buffers) + 1) : ChunkStarts(q.buffers, v)[k] = f[k] - p
  BY <1>1, <1>3, <1>4, StartsFrom
<1>8. f \in [q.head.chunk..(Len(q.buffers) + 1) -> Int]
  BY <1>1, StartsExist
<1>9. \A k, l \in q.head.chunk..(Len(q.buffers) + 1) : k < l => f[k] < f[l]
  BY <1>1, StartsGrow
<1>10. /\ q.head.chunk \in Nat /\ Len(q.buffers) \in Nat
       /\ w = [chunk |-> w.chunk, offset |-> w.offset]
  BY <1>1, <1>5 DEF IsPlace, IsChunks
<1>. DEFINE h == q.head.chunk
<1>. DEFINE L == Len(q.buffers)
<1>. DEFINE i == v.chunk
<1>. DEFINE k == w.chunk
<1>11. /\ h \in Nat /\ L \in Nat /\ i \in h..L /\ k \in h..L /\ p \in Nat
       /\ f \in [h..(L + 1) -> Int] /\ \A m, l \in h..(L + 1) : m < l => f[m] < f[l]
       /\ f[i] <= p /\ f[k] <= n /\ n < f[k + 1] /\ w.offset = n - f[k] /\ n >= p
  BY <1>2, <1>3, <1>5, <1>6, <1>8, <1>9, <1>10
<1>12. /\ IsPlace(q.buffers, v)
       /\ \A m \in i..(L + 1) : ChunkStarts(q.buffers, v)[m] = f[m] - p
  BY <1>6, <1>7
<1>. HIDE DEF v, w, f, h, L, i, k, p
<1>13. k \in Nat /\ i \in Nat /\ k + 1 \in h..(L + 1) /\ k \in h..(L + 1) /\ i \in h..(L + 1)
  BY <1>11
<1>14. f[k] \in Int /\ f[i] \in Int /\ f[k + 1] \in Int
  BY <1>11, <1>13
<1>15. i <= k
  <2>1. SUFFICES ASSUME k < i PROVE FALSE
    BY <1>13
  <2>2. k + 1 = i \/ f[k + 1] < f[i]
    <3>1. k + 1 = i \/ k + 1 < i
      BY <1>13, <2>1
    <3>. QED BY <1>11, <1>13, <3>1
  <2>3. f[k + 1] <= f[i]
    BY <1>14, <2>2
  <2>. QED BY <1>1, <1>11, <1>14, <2>3
<1>16. k \in i..L /\ k \in i..(L + 1) /\ k + 1 \in i..(L + 1)
  BY <1>11, <1>13, <1>15
<1>17. /\ ChunkStarts(q.buffers, v)[k] = f[k] - p
       /\ ChunkStarts(q.buffers, v)[k + 1] = f[k + 1] - p
  BY <1>12, <1>16
<1>18. n - p \in Int /\ f[k] - p <= n - p /\ n - p < f[k + 1] - p
  BY <1>1, <1>11, <1>14
<1>19. Walk(q, v, n - p) = [chunk |-> k, offset |-> (n - p) - (f[k] - p)]
  <2>1. k \in v.chunk..Len(q.buffers)
    BY <1>16 DEF i, L
  <2>. QED BY <1>1, <1>12, <1>17, <1>18, <2>1, WalkIs
<1>20. (n - p) - (f[k] - p) = w.offset
  BY <1>1, <1>11, <1>14
<1>21. w = [chunk |-> k, offset |-> w.offset]
  BY <1>10 DEF k
<1>. QED BY <1>3, <1>19, <1>20, <1>21

\* byteAt
LEMMA ByteAtReads ==
    ASSUME NEW q, NEW s, Represents(q, s), NEW n \in 0..(Len(s) - 1)
    PROVE  ByteAt(q, n) = s[n + 1]
BY ResolveIsWalk, WalkReads DEF ByteAt

\* and what it remembers.
LEMMA RememberKeeps ==
    ASSUME NEW q, NEW s, Represents(q, s), NEW n \in 0..(Len(s) - 1)
    PROVE  Represents(Remember(q, n), s)
<1>. DEFINE w == Walk(q, q.head, n)
<1>. DEFINE r == Remember(q, n)
<1>1. r = [q EXCEPT !.cache = [pos |-> n, place |-> w]]
  BY ResolveIsWalk DEF Remember
<1>2. IsPlace(q.buffers, w)
  <2>1. /\ IsChunks(q.buffers) /\ IsPlace(q.buffers, q.head) /\ n \in Nat
    BY DEF Represents
  <2>. QED BY <2>1, WalkReads, WalkFinds
<1>3. q \in Queue /\ w \in [chunk : Nat, offset : Nat] /\ n \in Int
  BY <1>2 DEF Represents, IsPlace
<1>. HIDE DEF w, r
<1>4. /\ r \in Queue /\ r.buffers = q.buffers /\ r.head = q.head /\ r.length = q.length
      /\ r.cache.pos = n /\ r.cache.place = w
  BY <1>1, <1>3 DEF Queue
<1>5. w = Walk(r, r.head, n)
  BY <1>4 DEF w, Walk
<1>. QED BY <1>4, <1>5 DEF Represents, r

\* Every byte of a chunk that is not behind the place is one of the bytes held.
LEMMA BytesOfAChunk ==
    ASSUME NEW buffers, IsChunks(buffers), NEW from, IsPlace(buffers, from), NEW s,
           s \in Seq(Word), Holds(buffers, from, s)
    PROVE  \A k \in from.chunk..Len(buffers) : \A j \in 1..Len(buffers[k]) :
               /\ ChunkStarts(buffers, from)[k] \in Int
               /\ ChunkStarts(buffers, from)[k] + j <= Len(s)
<1>. DEFINE a == from.chunk
<1>. DEFINE L == Len(buffers)
<1>. DEFINE f == ChunkStarts(buffers, from)
<1>1. a \in Nat /\ 1 <= a /\ L \in Nat /\ \A k \in 1..L : Len(buffers[k]) \in Nat
  BY DEF IsChunks, IsPlace
<1>2. f \in [a..(L + 1) -> Int]
  BY StartsExist
<1>3. \A k \in a..(L + 1) : k > a => f[k] = f[k - 1] + Len(buffers[k - 1])
  BY StartsExist DEF Steps
<1>4. \A k, l \in a..(L + 1) : k < l => f[k] < f[l]
  BY StartsGrow
<1>5. f[L + 1] = Len(s) /\ Len(s) \in Nat
  BY DEF Holds
<1>. HIDE DEF a, L, f
<1>6. ASSUME NEW k \in a..L, NEW j \in 1..Len(buffers[k])
      PROVE  f[k] \in Int /\ f[k] + j <= Len(s)
  <2>1. /\ k \in a..(L + 1) /\ k + 1 \in a..(L + 1) /\ L + 1 \in a..(L + 1) /\ k \in 1..L
        /\ k + 1 > a /\ (k + 1) - 1 = k
    BY <1>1
  <2>2. f[k] \in Int /\ f[k + 1] \in Int
    BY <1>2, <2>1
  <2>3. f[k + 1] = f[k] + Len(buffers[k])
    BY <1>3, <2>1
  <2>4. k + 1 = L + 1 \/ f[k + 1] < f[L + 1]
    BY <1>1, <1>4, <2>1
  <2>5. f[k + 1] <= Len(s)
    BY <1>5, <2>2, <2>4
  <2>6. j <= Len(buffers[k]) /\ j \in Int /\ Len(buffers[k]) \in Nat
    BY <1>1, <2>1
  <2>. QED BY <1>5, <2>2, <2>3, <2>5, <2>6
<1>. QED BY <1>6 DEF a, L, f

\* From the place n bytes on, what is left is what follows the first n bytes.
LEMMA HoldsFrom ==
    ASSUME NEW q, NEW s, Represents(q, s), NEW n \in 0..(Len(s) - 1)
    PROVE  /\ IsPlace(q.buffers, Walk(q, q.head, n))
           /\ Holds(q.buffers, Walk(q, q.head, n), SubSeq(s, n + 1, Len(s)))
<1>. DEFINE w == Walk(q, q.head, n)
<1>. DEFINE h == q.head.chunk
<1>. DEFINE L == Len(q.buffers)
<1>. DEFINE f == ChunkStarts(q.buffers, q.head)
<1>. DEFINE g == ChunkStarts(q.buffers, w)
<1>. DEFINE t == SubSeq(s, n + 1, Len(s))
<1>1. /\ IsChunks(q.buffers) /\ IsPlace(q.buffers, q.head) /\ Holds(q.buffers, q.head, s)
      /\ s \in Seq(Word) /\ n \in Nat
  BY DEF Represents
<1>2. n < f[L + 1]
  BY WalkReads
<1>3. IsPlace(q.buffers, w) /\ w.chunk \in h..L
  BY <1>1, <1>2, WalkFinds
<1>4. \A k \in w.chunk..(L + 1) : g[k] = f[k] - n
  BY <1>1, <1>2, StartsFrom
<1>5. \A k \in h..L : \A j \in 1..Len(q.buffers[k]) : f[k] \in Int /\ f[k] + j <= Len(s)
  BY <1>1, BytesOfAChunk
<1>6. f[L + 1] = Len(s)
      /\ \A k \in h..L : \A j \in 1..Len(q.buffers[k]) :
            f[k] + j >= 1 => q.buffers[k][j] = s[f[k] + j]
  BY <1>1 DEF Holds
<1>7. /\ h \in Nat /\ L \in Nat /\ Len(s) \in Nat
      /\ t \in Seq(Word) /\ Len(t) = Len(s) - n
      /\ \A k \in 1..(Len(s) - n) : t[k] = s[n + k]
  BY <1>1 DEF IsPlace, IsChunks
<1>8. \A k \in w.chunk..L : \A j \in 1..Len(q.buffers[k]) : j \in Int
  OBVIOUS
<1>. HIDE DEF w, h, L, f, g, t
<1>9. w.chunk \in Nat /\ L + 1 \in w.chunk..(L + 1) /\ \A k \in w.chunk..L : k \in h..L /\ k \in w.chunk..(L + 1)
  BY <1>3, <1>7
<1>10. g[L + 1] = Len(t)
  BY <1>4, <1>6, <1>7, <1>9
<1>11. ASSUME NEW k \in w.chunk..L, NEW j \in 1..Len(q.buffers[k]), g[k] + j >= 1
       PROVE  q.buffers[k][j] = t[g[k] + j]
  <2>1. g[k] = f[k] - n /\ f[k] \in Int /\ f[k] + j <= Len(s) /\ j \in Int
    BY <1>4, <1>5, <1>8, <1>9
  <2>2. f[k] + j >= 1 /\ g[k] + j \in 1..(Len(s) - n) /\ n + (g[k] + j) = f[k] + j
    BY <1>1, <1>7, <1>11, <2>1
  <2>3. q.buffers[k][j] = s[f[k] + j]
    BY <1>6, <1>9, <2>2
  <2>4. t[g[k] + j] = s[n + (g[k] + j)]
    BY <1>7, <2>2
  <2>. QED BY <2>2, <2>3, <2>4
<1>12. Holds(q.buffers, w, t)
  BY <1>10, <1>11 DEF Holds, g, L
<1>. QED BY <1>3, <1>12 DEF w, t

LEMMA PartOfASeq ==
    ASSUME NEW S, NEW x \in Seq(S), NEW a \in Nat, NEW b \in Nat,
           1 <= a, a <= b + 1, b <= Len(x)
    PROVE  /\ SubSeq(x, a, b) \in Seq(S) /\ Len(SubSeq(x, a, b)) = b - a + 1
           /\ \A k \in 1..(b - a + 1) : SubSeq(x, a, b)[k] = x[a + k - 1]
<1>1. \A i \in a..b : x[i] \in S
  OBVIOUS
<1>. QED BY <1>1, SubSeqProperties

\* Dropping chunks in front of the head changes nothing but their numbers.
LEMMA CompactedKeeps ==
    ASSUME NEW q, NEW s, Represents(q, s), q.cache = Uncached
    PROVE  Represents(Compacted(q), s)
<1>. DEFINE h == q.head.chunk
<1>. DEFINE L == Len(q.buffers)
<1>. DEFINE buffers == SubSeq(q.buffers, h, L)
<1>. DEFINE head == [q.head EXCEPT !.chunk = 1]
<1>. DEFINE f == ChunkStarts(q.buffers, q.head)
<1>. DEFINE r == [q EXCEPT !.buffers = buffers, !.head = head]
<1>1. Compacted(q) = q \/ Compacted(q) = r
  BY DEF Compacted
<1>2. /\ IsChunks(q.buffers) /\ IsPlace(q.buffers, q.head) /\ Holds(q.buffers, q.head, s)
      /\ q \in Queue /\ s \in Seq(Word)
  BY DEF Represents
<1>3. /\ h \in Nat /\ L \in Nat /\ 1 <= h /\ h <= L + 1 /\ q.buffers \in Seq(Seq(Word))
      /\ q.head \in [chunk : Nat, offset : Nat]
  BY <1>2 DEF IsPlace, IsChunks
<1>4. /\ buffers \in Seq(Seq(Word)) /\ Len(buffers) = L - h + 1
      /\ \A k \in 1..(L - h + 1) : buffers[k] = q.buffers[h + k - 1]
  <2>1. L <= Len(q.buffers)
    BY <1>3
  <2>. HIDE DEF h, L
  <2>. QED BY <1>3, <2>1, PartOfASeq
<1>. HIDE DEF buffers, h, L
<1>5. IsChunks(buffers)
  <2>1. ASSUME NEW k \in 1..Len(buffers)
        PROVE  Len(buffers[k]) > 0
    <3>1. buffers[k] = q.buffers[h + k - 1] /\ h + k - 1 \in 1..L
      BY <1>3, <1>4
    <3>. QED BY <1>2, <3>1 DEF IsChunks, L
  <2>. QED BY <1>4, <2>1 DEF IsChunks
<1>6. head \in [chunk : Nat, offset : Nat] /\ head.chunk = 1 /\ head.offset = q.head.offset
  BY <1>3
<1>7. IsPlace(buffers, head)
  <2>1. CASE h = L + 1
    <3>1. q.head.offset = 0 /\ Len(buffers) = 0
      BY <1>2, <1>3, <1>4, <2>1 DEF IsPlace, h, L
    <3>. HIDE DEF head
    <3>. QED BY <1>6, <3>1 DEF IsPlace
  <2>2. CASE h # L + 1
    <3>1. buffers[1] = q.buffers[h] /\ Len(buffers) # 0 /\ Len(buffers) \in Nat
      BY <1>3, <1>4, <2>2
    <3>. HIDE DEF buffers, head
    <3>2. q.head.offset < Len(q.buffers[h])
      BY <1>2, <2>2 DEF IsPlace, h, L
    <3>. QED BY <1>6, <3>1, <3>2 DEF IsPlace
  <2>. QED BY <2>1, <2>2
<1>. DEFINE e == ChunkStarts(buffers, head)
<1>. DEFINE g == [k \in 1..(L - h + 2) |-> f[k + h - 1]]
<1>8. /\ f \in [h..(L + 1) -> Int] /\ f[h] = 0 - q.head.offset
      /\ \A k \in h..(L + 1) : k > h => f[k] = f[k - 1] + Len(q.buffers[k - 1])
  BY <1>2, StartsExist DEF Steps, h, L
<1>9. /\ e \in [1..(L - h + 2) -> Int] /\ e[1] = 0 - q.head.offset
      /\ \A k \in 1..(L - h + 2) : k > 1 => e[k] = e[k - 1] + Len(buffers[k - 1])
  <2>1. e \in [head.chunk..(Len(buffers) + 1) -> Int] /\ Steps(buffers, head, e)
    BY <1>5, <1>7, StartsExist
  <2>2. Len(buffers) + 1 = L - h + 2
    BY <1>3, <1>4
  <2>. HIDE DEF buffers, head, e
  <2>. QED BY <1>6, <2>1, <2>2 DEF Steps
<1>. HIDE DEF f, e, head
<1>10. \A k \in 1..(L - h + 2) : e[k] = f[k + h - 1]
  <2>1. \A k \in 1..(L - h + 2) : g[k] = f[k + h - 1] /\ g[k] \in Int /\ e[k] \in Int
    BY <1>3, <1>8, <1>9
  <2>2. ASSUME NEW k \in 1..(L - h + 2), k > 1
        PROVE  e[k] - e[k - 1] = g[k] - g[k - 1]
    <3>1. k - 1 \in 1..(L - h + 1) /\ k - 1 \in 1..(L - h + 2)
      BY <1>3, <2>2
    <3>2. k + h - 1 \in h..(L + 1) /\ k + h - 1 > h /\ (k + h - 1) - 1 = h + (k - 1) - 1
          /\ (k - 1) + h - 1 = h + (k - 1) - 1
      BY <1>3, <2>2
    <3>3. e[k] = e[k - 1] + Len(buffers[k - 1])
      BY <1>9, <2>2
    <3>4. f[k + h - 1] = f[h + (k - 1) - 1] + Len(q.buffers[h + (k - 1) - 1])
      BY <1>8, <3>2
    <3>5. buffers[k - 1] = q.buffers[h + (k - 1) - 1]
      BY <1>4, <3>1
    <3>6. g[k] = f[k + h - 1] /\ g[k - 1] = f[h + (k - 1) - 1]
      BY <2>1, <3>1, <3>2
    <3>7. g[k] = g[k - 1] + Len(buffers[k - 1])
      BY <3>4, <3>5, <3>6
    <3>8. Len(buffers[k - 1]) \in Nat
      BY <1>3, <1>4, <1>5, <3>1 DEF IsChunks
    <3>9. e[k - 1] \in Int /\ g[k - 1] \in Int
      BY <2>1, <3>1
    <3>. HIDE DEF g
    <3>. QED BY <3>3, <3>7, <3>8, <3>9
  <2>3. e[1] = g[1] + 0
    <3>1. 1 \in 1..(L - h + 2) /\ 1 + h - 1 = h
      BY <1>3
    <3>2. g[1] = f[h] /\ g[1] \in Int
      BY <2>1, <3>1
    <3>. QED BY <1>8, <1>9, <3>2
  <2>. DEFINE b == L - h + 2
  <2>4. b \in Nat /\ 1 <= b
    BY <1>3
  <2>. HIDE DEF g
  <2>5. RiseAlike(1, b, 0, e, g)
    BY <2>1, <2>2, <2>3, <2>4 DEF RiseAlike
  <2>6. \A k \in 1..b : e[k] = g[k] + 0
    BY <2>5, SameSteps
  <2>. QED BY <2>1, <2>6
<1>11. Holds(buffers, head, s)
  <2>1. f[L + 1] = Len(s)
        /\ \A k \in h..L : \A j \in 1..Len(q.buffers[k]) :
              f[k] + j >= 1 => q.buffers[k][j] = s[f[k] + j]
    BY <1>2 DEF Holds, f, L, h
  <2>2. e[Len(buffers) + 1] = Len(s)
    <3>1. Len(buffers) + 1 \in 1..(L - h + 2) /\ (Len(buffers) + 1) + h - 1 = L + 1
      BY <1>3, <1>4
    <3>. QED BY <1>10, <2>1, <3>1
  <2>3. ASSUME NEW k \in 1..Len(buffers), NEW j \in 1..Len(buffers[k]), e[k] + j >= 1
        PROVE  buffers[k][j] = s[e[k] + j]
    <3>1. k \in 1..(L - h + 1) /\ k \in 1..(L - h + 2) /\ h + k - 1 \in h..L /\ k + h - 1 = h + k - 1
      BY <1>3, <1>4
    <3>2. buffers[k] = q.buffers[h + k - 1] /\ e[k] = f[h + k - 1]
      BY <1>4, <1>10, <3>1
    <3>. QED BY <2>1, <2>3, <3>1, <3>2
  <2>. QED BY <1>6, <2>2, <2>3 DEF Holds, e
<1>12. /\ r \in Queue /\ r.buffers = buffers /\ r.head = head /\ r.length = q.length
       /\ r.cache = Uncached
  BY <1>2, <1>4, <1>6 DEF Queue
<1>13. Represents(r, s)
  <2>. HIDE DEF r
  <2>. QED BY <1>2, <1>5, <1>7, <1>11, <1>12 DEF Represents
<1>. QED BY <1>1, <1>13

LEMMA EmptyIsNothing ==
    ASSUME TRUE
    PROVE  Represents(EmptyQueue, <<>>)
<1>. DEFINE head == [chunk |-> 1, offset |-> 0]
<1>. DEFINE buffers == <<>>
<1>1. /\ EmptyQueue \in Queue /\ EmptyQueue.buffers = buffers /\ EmptyQueue.head = head
      /\ EmptyQueue.length = 0 /\ EmptyQueue.cache = Uncached
  BY DEF EmptyQueue, Queue, Uncached, NoPlace
<1>2. IsChunks(buffers) /\ IsPlace(buffers, head) /\ Len(buffers) = 0
  BY DEF IsChunks, IsPlace
<1>3. ChunkStarts(buffers, head)[1] = 0
  <2>. HIDE DEF buffers
  <2>1. Steps(buffers, head, ChunkStarts(buffers, head))
    BY <1>2, StartsExist
  <2>. QED BY <2>1 DEF Steps
<1>4. Holds(buffers, head, <<>>)
  <2>. HIDE DEF buffers
  <2>. QED BY <1>2, <1>3 DEF Holds
<1>. QED BY <1>1, <1>2, <1>4 DEF Represents

\* consume
LEMMA ConsumeDrops ==
    ASSUME NEW q, NEW s, Represents(q, s), NEW n \in 0..Len(s)
    PROVE  Represents(Consume(q, n), SubSeq(s, n + 1, Len(s)))
<1>. DEFINE t == SubSeq(s, n + 1, Len(s))
<1>1. q \in Queue /\ s \in Seq(Word) /\ q.length = Len(s) /\ Len(s) \in Nat /\ n \in Nat
      /\ IsChunks(q.buffers)
  BY DEF Represents
<1>2. t \in Seq(Word) /\ Len(t) = Len(s) - n
  <2>1. n + 1 \in Nat /\ 1 <= n + 1 /\ n + 1 <= Len(s) + 1 /\ Len(s) <= Len(s)
    BY <1>1
  <2>2. t \in Seq(Word) /\ Len(t) = Len(s) - (n + 1) + 1
    BY <1>1, <2>1, PartOfASeq
  <2>. QED BY <1>1, <2>2
<1>3. CASE n = 0
  <2>1. t = s
    BY <1>1, <1>3
  <2>2. Consume(q, n) = q
    BY <1>3 DEF Consume
  <2>. QED BY <2>1, <2>2
<1>4. CASE n # 0 /\ n = Len(s)
  <2>1. t = <<>>
    BY <1>1, <1>4
  <2>2. Consume(q, n) = EmptyQueue
    BY <1>1, <1>4 DEF Consume
  <2>. QED BY <2>1, <2>2, EmptyIsNothing
<1>5. CASE n # 0 /\ n # Len(s)
  <2>. DEFINE w == Walk(q, q.head, n)
  <2>. DEFINE r == [Advanced(q, n) EXCEPT !.cache = Uncached]
  <2>1. n \in 0..(Len(s) - 1)
    BY <1>1, <1>5
  <2>2. IsPlace(q.buffers, w) /\ Holds(q.buffers, w, t)
    BY <2>1, HoldsFrom
  <2>3. w \in [chunk : Nat, offset : Nat] /\ q.length - n \in Nat /\ q.length - n = Len(t)
    BY <1>1, <1>2, <2>1, <2>2 DEF IsPlace
  <2>4. Consume(q, n) = Compacted(r)
    BY <1>1, <1>5 DEF Consume
  <2>5. r = [q EXCEPT !.length = q.length - n, !.head = w, !.cache = Uncached]
    BY DEF Advanced
  <2>. HIDE DEF w, r, t
  <2>6. /\ r \in Queue /\ r.buffers = q.buffers /\ r.head = w /\ r.length = q.length - n
        /\ r.cache = Uncached
    <3>. DEFINE l == q.length - n
    <3>1. l \in Nat /\ r = [q EXCEPT !.length = l, !.head = w, !.cache = Uncached]
      BY <2>3, <2>5
    <3>2. Uncached \in [pos : Int, place : [chunk : Nat, offset : Nat]]
      BY DEF Uncached, NoPlace
    <3>. HIDE DEF l
    <3>3. /\ r \in Queue /\ r.buffers = q.buffers /\ r.head = w /\ r.length = l
          /\ r.cache = Uncached
      BY <1>1, <2>3, <3>1, <3>2 DEF Queue
    <3>. QED BY <3>3 DEF l
  <2>7. Represents(r, t)
    BY <1>1, <1>2, <2>2, <2>3, <2>6 DEF Represents
  <2>8. Represents(Compacted(r), t)
    BY <2>6, <2>7, CompactedKeeps
  <2>. QED BY <2>4, <2>8 DEF t
<1>. QED BY <1>3, <1>4, <1>5

\* push
LEMMA PushAppends ==
    ASSUME NEW q, NEW s, Represents(q, s), NEW c \in Seq(Word)
    PROVE  Represents(Push(q, c), s \o c)
<1>. DEFINE buffers == Append(q.buffers, c)
<1>. DEFINE L == Len(q.buffers)
<1>. DEFINE h == q.head.chunk
<1>. DEFINE f == ChunkStarts(q.buffers, q.head)
<1>. DEFINE e == ChunkStarts(buffers, q.head)
<1>. DEFINE t == s \o c
<1>. DEFINE r == [q EXCEPT !.buffers = buffers, !.length = q.length + Len(c)]
<1>1. /\ IsChunks(q.buffers) /\ IsPlace(q.buffers, q.head) /\ Holds(q.buffers, q.head, s)
      /\ q \in Queue /\ s \in Seq(Word) /\ q.length = Len(s) /\ Len(s) \in Nat
  BY DEF Represents
<1>2. /\ t \in Seq(Word) /\ Len(t) = Len(s) + Len(c) /\ Len(c) \in Nat
      /\ \A k \in 1..Len(s) : t[k] = s[k]
      /\ \A k \in 1..Len(c) : t[Len(s) + k] = c[k]
  BY <1>1
<1>3. CASE c = <<>>
  <2>1. t = s /\ Push(q, c) = q
    BY <1>1, <1>3 DEF Push
  <2>. QED BY <2>1
<1>4. CASE c # <<>>
  <2>1. Push(q, c) = r /\ Len(c) > 0
    BY <1>1, <1>2, <1>4 DEF Push
  <2>2. /\ L \in Nat /\ h \in Nat /\ 1 <= h /\ h <= L + 1
        /\ buffers \in Seq(Seq(Word)) /\ Len(buffers) = L + 1
        /\ buffers[L + 1] = c /\ \A k \in 1..L : buffers[k] = q.buffers[k]
        /\ \A k \in 1..L : Len(q.buffers[k]) \in Nat /\ Len(q.buffers[k]) > 0
    BY <1>1 DEF IsChunks, IsPlace
  <2>. HIDE DEF buffers, t, r
  <2>3. IsChunks(buffers)
    <3>1. ASSUME NEW k \in 1..Len(buffers)
          PROVE  Len(buffers[k]) > 0
      <4>1. k = L + 1 \/ k \in 1..L
        BY <2>2
      <4>. QED BY <2>1, <2>2, <4>1
    <3>. QED BY <2>2, <3>1 DEF IsChunks
  <2>4. IsPlace(buffers, q.head)
    <3>1. q.head \in [chunk : Nat, offset : Nat] /\ h \in 1..(Len(buffers) + 1) /\ h # Len(buffers) + 1
      BY <1>1, <2>2 DEF IsPlace
    <3>2. q.head.offset < Len(buffers[h])
      <4>1. CASE h = L + 1
        BY <1>1, <2>1, <2>2, <4>1 DEF IsPlace
      <4>2. CASE h # L + 1
        <5>1. h \in 1..L
          BY <2>2, <4>2
        <5>. QED BY <1>1, <2>2, <4>2, <5>1 DEF IsPlace
      <4>. QED BY <4>1, <4>2
    <3>. QED BY <3>1, <3>2 DEF IsPlace
  <2>5. f \in [h..(L + 1) -> Int] /\ Steps(q.buffers, q.head, f)
    BY <1>1, StartsExist
  <2>6. e \in [h..(L + 2) -> Int] /\ Steps(buffers, q.head, e)
    <3>1. e \in [h..(Len(buffers) + 1) -> Int] /\ Steps(buffers, q.head, e)
      BY <2>3, <2>4, StartsExist
    <3>2. Len(buffers) + 1 = L + 2
      BY <2>2
    <3>. QED BY <3>1, <3>2
  <2>7. f[h] = 0 - q.head.offset
        /\ \A k \in h..(L + 1) : k > h => f[k] = f[k - 1] + Len(q.buffers[k - 1])
    BY <2>5 DEF Steps
  <2>8. e[h] = 0 - q.head.offset
        /\ \A k \in h..(L + 2) : k > h => e[k] = e[k - 1] + Len(buffers[k - 1])
    <3>1. Len(buffers) + 1 = L + 2
      BY <2>2
    <3>. QED BY <2>6, <3>1 DEF Steps
  <2>. HIDE DEF f, e, L, h
  <2>9. \A k \in h..(L + 1) : e[k] = f[k]
    <3>. DEFINE b == L + 1
    <3>1. \A k \in h..b : e[k] \in Int /\ f[k] \in Int
      <4>1. \A k \in h..b : k \in h..(L + 2)
        BY <2>2
      <4>. QED BY <2>5, <2>6, <4>1
    <3>2. ASSUME NEW k \in h..b, k > h
          PROVE  e[k] - e[k - 1] = f[k] - f[k - 1]
      <4>1. k \in h..(L + 2) /\ k - 1 \in h..b /\ k - 1 \in 1..L
        BY <2>2, <3>2
      <4>2. e[k] = e[k - 1] + Len(q.buffers[k - 1]) /\ f[k] = f[k - 1] + Len(q.buffers[k - 1])
        BY <2>2, <2>7, <2>8, <3>2, <4>1
      <4>3. Len(q.buffers[k - 1]) \in Nat /\ e[k - 1] \in Int /\ f[k - 1] \in Int
        BY <2>2, <3>1, <4>1
      <4>. QED BY <4>2, <4>3
    <3>3. e[h] = f[h] + 0
      <4>1. f[h] \in Int
        BY <2>2, <3>1
      <4>. QED BY <2>7, <2>8, <4>1
    <3>4. b \in Nat /\ h <= b
      BY <2>2
    <3>5. RiseAlike(h, b, 0, e, f)
      BY <2>2, <3>1, <3>2, <3>3, <3>4 DEF RiseAlike
    <3>6. \A k \in h..b : e[k] = f[k] + 0
      BY <3>5, SameSteps
    <3>. QED BY <3>1, <3>6
  <2>10. /\ f[L + 1] = Len(s)
         /\ \A k \in h..L : \A j \in 1..Len(q.buffers[k]) :
               f[k] + j >= 1 => q.buffers[k][j] = s[f[k] + j]
    BY <1>1 DEF Holds, f, L, h
  <2>11. \A k \in h..L : \A j \in 1..Len(q.buffers[k]) : f[k] \in Int /\ f[k] + j <= Len(s)
    BY <1>1, BytesOfAChunk DEF f, L, h
  <2>12. e[L + 1] = Len(s) /\ e[L + 2] = Len(t)
    <3>1. L + 1 \in h..(L + 1) /\ L + 2 \in h..(L + 2) /\ L + 2 > h /\ (L + 2) - 1 = L + 1
      BY <2>2
    <3>2. e[L + 1] = Len(s)
      BY <2>9, <2>10, <3>1
    <3>3. e[L + 2] = e[L + 1] + Len(buffers[L + 1])
      BY <2>8, <3>1
    <3>. QED BY <1>2, <2>2, <3>2, <3>3
  <2>13. ASSUME NEW k \in h..(L + 1), NEW j \in 1..Len(buffers[k]), e[k] + j >= 1
         PROVE  buffers[k][j] = t[e[k] + j]
    <3>1. CASE k = L + 1
      BY <1>2, <2>2, <2>12, <3>1
    <3>2. CASE k # L + 1
      <4>1. k \in h..L /\ k \in 1..L
        BY <2>2, <3>2
      <4>2. buffers[k] = q.buffers[k] /\ e[k] = f[k]
        BY <2>2, <2>9, <4>1
      <4>3. q.buffers[k][j] = s[f[k] + j] /\ f[k] \in Int /\ f[k] + j <= Len(s)
        BY <2>10, <2>11, <2>13, <4>1, <4>2
      <4>4. f[k] + j \in 1..Len(s)
        BY <1>1, <2>13, <4>2, <4>3
      <4>. QED BY <1>2, <4>2, <4>3, <4>4
    <3>. QED BY <3>1, <3>2
  <2>14. Holds(buffers, q.head, t)
    <3>1. Len(buffers) = L + 1 /\ (L + 1) + 1 = L + 2
      BY <2>2
    <3>. QED BY <2>12, <2>13, <3>1 DEF Holds, e, h
  <2>15. /\ r \in Queue /\ r.buffers = buffers /\ r.head = q.head /\ r.length = Len(t)
         /\ r.cache = q.cache
    <3>. DEFINE l == q.length + Len(c)
    <3>1. l \in Nat /\ l = Len(t)
      BY <1>1, <1>2
    <3>2. r = [q EXCEPT !.buffers = buffers, !.length = l]
      BY DEF r
    <3>3. q.cache \in [pos : Int, place : [chunk : Nat, offset : Nat]]
      BY <1>1 DEF Queue
    <3>. HIDE DEF l
    <3>. QED BY <1>1, <2>2, <3>1, <3>2, <3>3 DEF Queue
  <2>16. ASSUME q.cache # Uncached
         PROVE  q.cache.pos \in 0..(Len(t) - 1) /\ q.cache.place = Walk(r, q.head, q.cache.pos)
    <3>. DEFINE p == q.cache.pos
    <3>. DEFINE w == Walk(q, q.head, p)
    <3>1. p \in 0..(Len(s) - 1) /\ q.cache.place = w /\ p \in Nat /\ p \in Int
      BY <1>1, <2>16 DEF Represents
    <3>2. p \in 0..(Len(t) - 1)
      BY <1>1, <1>2, <3>1
    <3>3. p < ChunkStarts(q.buffers, q.head)[Len(q.buffers) + 1]
      BY <3>1, WalkReads
    <3>. DEFINE k == w.chunk
    <3>4. /\ IsPlace(q.buffers, w) /\ k \in h..L
          /\ f[k] <= p /\ p < f[k + 1] /\ w.offset = p - f[k]
      BY <1>1, <3>1, <3>3, WalkFinds DEF f, L, h
    <3>5. w = [chunk |-> k, offset |-> p - f[k]]
      BY <3>4 DEF IsPlace
    <3>. HIDE DEF w, k
    <3>6. k \in h..(L + 1) /\ k + 1 \in h..(L + 1) /\ k \in h..Len(buffers)
      BY <2>2, <3>4
    <3>7. e[k] = f[k] /\ e[k + 1] = f[k + 1]
      BY <2>9, <3>6
    <3>8. Walk(r, q.head, p) = [chunk |-> k, offset |-> p - e[k]]
      BY <2>3, <2>4, <2>15, <3>1, <3>4, <3>6, <3>7, WalkIs DEF e, h
    <3>. QED BY <3>1, <3>2, <3>5, <3>7, <3>8
  <2>17. Represents(r, t)
    BY <1>2, <2>3, <2>4, <2>14, <2>15, <2>16 DEF Represents
  <2>. QED BY <2>1, <2>17 DEF t
<1>. QED BY <1>3, <1>4

\* What an operation that searches knows of the bytes.
LEMMA BytesAreThose ==
    ASSUME NEW q, NEW s, Represents(q, s)
    PROVE  Bytes(q) = s
<1>1. s \in Seq(Word) /\ q.length = Len(s) /\ Len(s) \in Nat
  BY DEF Represents
<1>2. ASSUME NEW k \in 1..Len(s)
      PROVE  ByteAt(q, k - 1) = s[k]
  <2>1. k - 1 \in 0..(Len(s) - 1) /\ (k - 1) + 1 = k
    BY <1>1
  <2>2. ByteAt(q, k - 1) = s[(k - 1) + 1]
    BY <2>1, ByteAtReads
  <2>. QED BY <2>1, <2>2
<1>3. s = [k \in 1..Len(s) |-> s[k]]
  BY <1>1
<1>. QED BY <1>1, <1>2, <1>3 DEF Bytes

\* slice
LEMMA SliceReads ==
    ASSUME NEW q, NEW s, Represents(q, s), NEW n \in 0..Len(s)
    PROVE  Slice(q, n) = SubSeq(s, 1, n)
<1>1. s \in Seq(Word) /\ Len(s) \in Nat /\ n \in Nat
  BY DEF Represents
<1>2. ASSUME NEW k \in 1..n
      PROVE  At(q, Walk(q, q.head, k - 1)) = s[k]
  <2>1. k - 1 \in 0..(Len(s) - 1) /\ (k - 1) + 1 = k
    BY <1>1
  <2>2. At(q, Walk(q, q.head, k - 1)) = s[(k - 1) + 1]
    BY <2>1, WalkReads
  <2>. QED BY <2>1, <2>2
<1>3. SubSeq(s, 1, n) \in Seq(Word) /\ Len(SubSeq(s, 1, n)) = n
      /\ \A k \in 1..n : SubSeq(s, 1, n)[k] = s[k]
  BY <1>1
<1>4. SubSeq(s, 1, n) = [k \in 1..n |-> s[k]]
  <2>. DEFINE t == SubSeq(s, 1, n)
  <2>1. t = [k \in 1..Len(t) |-> t[k]]
    BY <1>3
  <2>. HIDE DEF t
  <2>. QED BY <1>3, <2>1 DEF t
<1>. QED BY <1>2, <1>4 DEF Slice

\* startsWith
LEMMA StartsWithReads ==
    ASSUME NEW q, NEW s, Represents(q, s), NEW T, NEW x \in Seq(T), NEW n \in Nat
    PROVE  StartsWith(q, x, n) <=>
             n + Len(x) <= Len(s) /\ \A k \in 1..Len(x) : s[n + k] = x[k]
<1>1. q.length = Len(s) /\ Len(s) \in Nat /\ Len(x) \in Nat /\ DOMAIN x = 1..Len(x)
  BY DEF Represents
<1>2. ASSUME n + Len(x) <= Len(s), NEW k \in 1..Len(x)
      PROVE  ByteAt(q, n + k - 1) = s[n + k]
  <2>1. n + k - 1 \in 0..(Len(s) - 1) /\ (n + k - 1) + 1 = n + k
    BY <1>1, <1>2
  <2>2. ByteAt(q, n + k - 1) = s[(n + k - 1) + 1]
    BY <2>1, ByteAtReads
  <2>. QED BY <2>1, <2>2
<1>3. (Len(x) + n <= q.length) <=> (n + Len(x) <= Len(s))
  BY <1>1
<1>4. CASE n + Len(x) <= Len(s)
  BY <1>1, <1>2, <1>3, <1>4, Zenon DEF StartsWith
<1>5. CASE ~(n + Len(x) <= Len(s))
  BY <1>3, <1>5, Zenon DEF StartsWith
<1>. QED BY <1>4, <1>5

\* indexOf: where x stands first, if it does.
Stands(x, s, i) == \A k \in 1..Len(x) : s[i + k] = x[k]

LEMMA IndexOfFinds ==
    ASSUME NEW q, NEW s, Represents(q, s), NEW T, NEW x \in Seq(T)
    PROVE  LET i == IndexOf(q, x)
           IN \/ /\ i = NotFound
                 /\ \A j \in 0..(Len(s) - Len(x)) : ~Stands(x, s, j)
              \/ /\ i \in 0..(Len(s) - Len(x)) /\ Stands(x, s, i)
                 /\ \A j \in 0..(i - 1) : ~Stands(x, s, j)
<1>. DEFINE found == {i \in 0..(Len(s) - Len(x)) : Stands(x, s, i)}
<1>1. q.length = Len(s) /\ Len(s) \in Nat /\ Len(x) \in Nat /\ DOMAIN x = 1..Len(x)
  BY DEF Represents
<1>2. IndexOf(q, x) = IF found = {} THEN NotFound ELSE Min(found)
  <2>1. Bytes(q) = s
    BY BytesAreThose
  <2>. QED BY <1>1, <2>1, Zenon DEF IndexOf, Stands
<1>3. CASE found = {}
  BY <1>2, <1>3
<1>4. CASE found # {}
  <2>1. found \in SUBSET Nat
    BY <1>1
  <2>. HIDE DEF found
  <2>2. \E m \in found : \A n \in found : m <= n
    BY <1>4, <2>1, Least
  <2>3. Min(found) \in found /\ \A n \in found : Min(found) <= n
    BY <2>2 DEF Min
  <2>. DEFINE i == Min(found)
  <2>4. i \in 0..(Len(s) - Len(x)) /\ Stands(x, s, i)
    BY <2>3 DEF found
  <2>5. ASSUME NEW j \in 0..(i - 1), Stands(x, s, j)
        PROVE  FALSE
    <3>1. j \in found
      BY <1>1, <2>4, <2>5 DEF found
    <3>. QED BY <1>1, <2>3, <2>4, <3>1
  <2>. QED BY <1>2, <1>4, <2>4, <2>5
<1>. QED BY <1>3, <1>4

\* A search that fails ends where the last candidate disagrees, before the end.
LEMMA AgreeingEnds ==
    ASSUME NEW T, NEW x \in Seq(T), NEW s, Len(s) \in Nat, Len(x) <= Len(s),
           ~Stands(x, s, Len(s) - Len(x))
    PROVE  Len(s) - Len(x) + Agreeing(s, x, Len(s) - Len(x)) \in 0..(Len(s) - 1)
<1>. DEFINE last == Len(s) - Len(x)
<1>. DEFINE ns == {n \in 0..Len(x) : last + n <= Len(s) /\ \A k \in 1..n : s[last + k] = x[k]}
<1>1. Len(x) \in Nat /\ last \in Nat /\ last + Len(x) = Len(s) /\ last <= Len(s)
  OBVIOUS
<1>2. Agreeing(s, x, last) = Max(ns)
  BY Zenon DEF Agreeing
<1>3. 0 \in ns
  BY <1>1
<1>4. \A n \in ns : n \in 0..Len(x) /\ n # Len(x)
  <2>1. ~(\A k \in 1..Len(x) : s[last + k] = x[k])
    BY Zenon DEF Stands
  <2>. HIDE DEF last
  <2>. QED BY <2>1
<1>. HIDE DEF ns, last
<1>5. PICK m \in ns : \A n \in ns : m >= n
  <2>. DEFINE S == {Len(x) - n : n \in ns}
  <2>1. S \in SUBSET Nat /\ S # {}
    BY <1>1, <1>3, <1>4
  <2>. HIDE DEF S
  <2>2. PICK d \in S : \A e \in S : d <= e
    BY <2>1, Least
  <2>3. PICK n \in ns : d = Len(x) - n
    BY <2>2 DEF S
  <2>4. ASSUME NEW e \in ns
        PROVE  n >= e
    <3>1. Len(x) - e \in S
      BY DEF S
    <3>. QED BY <1>1, <1>4, <2>2, <2>3, <3>1
  <2>. QED BY <2>4
<1>6. Max(ns) \in ns
  BY <1>5 DEF Max
<1>7. Agreeing(s, x, last) \in 0..Len(x) /\ Agreeing(s, x, last) # Len(x)
  BY <1>2, <1>4, <1>6
<1>8. last + Agreeing(s, x, last) \in 0..(Len(s) - 1)
  BY <1>1, <1>7
<1>. QED BY <1>8 DEF last

\* What a search remembers is a place in the queue.
LEMMA SearchedKeeps ==
    ASSUME NEW q, NEW s, Represents(q, s), NEW T, NEW x \in Seq(T), Len(x) > 0
    PROVE  Represents(Searched(q, x), s)
<1>. DEFINE i == IndexOf(q, x)
<1>. DEFINE last == Len(s) - Len(x)
<1>1. q.length = Len(s) /\ Len(s) \in Nat /\ Len(x) \in Nat /\ last \in Int /\ Bytes(q) = s
  <2>1. Bytes(q) = s
    BY BytesAreThose
  <2>. QED BY <2>1 DEF Represents
<1>2. \/ i = NotFound /\ \A j \in 0..last : ~Stands(x, s, j)
      \/ i \in 0..last
  BY IndexOfFinds
<1>3. Searched(q, x) = IF last < 0 THEN q
                       ELSE IF i # NotFound THEN Remember(q, i + Len(x) - 1)
                       ELSE Remember(q, last + Agreeing(s, x, last))
  BY <1>1, Zenon DEF Searched
<1>4. CASE last < 0
  BY <1>3, <1>4
<1>5. CASE ~(last < 0) /\ i # NotFound
  <2>1. i \in 0..last
    BY <1>2, <1>5
  <2>. HIDE DEF i
  <2>2. i + Len(x) - 1 \in 0..(Len(s) - 1)
    BY <1>1, <2>1
  <2>3. Represents(Remember(q, i + Len(x) - 1), s)
    BY <2>2, RememberKeeps
  <2>. QED BY <1>3, <1>5, <2>3
<1>6. CASE ~(last < 0) /\ i = NotFound
  <2>1. last \in 0..last /\ Len(x) <= Len(s)
    BY <1>1, <1>6
  <2>2. ~Stands(x, s, last)
    <3>1. \A j \in 0..last : ~Stands(x, s, j)
      <4>. HIDE DEF i, last
      <4>1. i = -1
        BY <1>6 DEF NotFound
      <4>. QED BY <1>1, <1>2, <4>1
    <3>. QED BY <2>1, <3>1
  <2>3. last + Agreeing(s, x, last) \in 0..(Len(s) - 1)
    BY <1>1, <2>1, <2>2, AgreeingEnds
  <2>. HIDE DEF i, last
  <2>4. Represents(Remember(q, last + Agreeing(s, x, last)), s)
    BY <2>3, RememberKeeps
  <2>. QED BY <1>3, <1>6, <2>4
<1>. QED BY <1>4, <1>5, <1>6

-----------------------------------------------------------------------------
(* A queue that is behind in reading a text.                               *)

\* The queue holds the last of the first n bytes of x.
Unread(q, x, n) == q.length <= n /\ Represents(q, SubSeq(x, n - q.length + 1, n))

LEMMA UnreadPart ==
    ASSUME NEW x \in Seq(Word), NEW n \in 0..Len(x), NEW q, Unread(q, x, n)
    PROVE  LET s == SubSeq(x, n - q.length + 1, n)
           IN /\ q.length \in Nat /\ q.length <= n
              /\ s \in Seq(Word) /\ Len(s) = q.length
              /\ \A k \in 1..q.length : s[k] = x[n - q.length + k]
<1>1. q.length \in Nat /\ q.length <= n /\ n \in Nat
  BY DEF Unread, Represents, Queue
<1>2. n - q.length + 1 \in Nat /\ 1 <= n - q.length + 1 /\ n - q.length + 1 <= n + 1 /\ n <= Len(x)
      /\ n - (n - q.length + 1) + 1 = q.length
  BY <1>1
<1>. DEFINE a == n - q.length + 1
<1>3. \A k \in 1..q.length : a + k - 1 = n - q.length + k
  BY <1>1
<1>4. a \in Nat /\ 1 <= a /\ a <= n + 1 /\ n - a + 1 = q.length
  BY <1>2
<1>. HIDE DEF a
<1>5. /\ SubSeq(x, a, n) \in Seq(Word) /\ Len(SubSeq(x, a, n)) = n - a + 1
      /\ \A k \in 1..(n - a + 1) : SubSeq(x, a, n)[k] = x[a + k - 1]
  BY <1>1, <1>2, <1>4, PartOfASeq
<1>. QED BY <1>1, <1>3, <1>4, <1>5 DEF a

\* An operation that only remembers a place.
LEMMA UnreadKept ==
    ASSUME NEW x \in Seq(Word), NEW n \in 0..Len(x), NEW q, Unread(q, x, n), NEW r,
           \A s : Represents(q, s) => Represents(r, s)
    PROVE  Unread(r, x, n)
<1>. DEFINE s == SubSeq(x, n - q.length + 1, n)
<1>1. Represents(q, s) /\ Represents(r, s) /\ q.length <= n
  BY DEF Unread
<1>. HIDE DEF s
<1>2. r.length = q.length
  BY <1>1 DEF Represents
<1>. QED BY <1>1, <1>2 DEF Unread, s

LEMMA UnreadConsumed ==
    ASSUME NEW x \in Seq(Word), NEW n \in 0..Len(x), NEW q, Unread(q, x, n),
           NEW m \in 0..q.length
    PROVE  Unread(Consume(q, m), x, n) /\ Consume(q, m).length = q.length - m
<1>. DEFINE s == SubSeq(x, n - q.length + 1, n)
<1>. DEFINE t == SubSeq(s, m + 1, Len(s))
<1>. DEFINE u == SubSeq(x, n - (q.length - m) + 1, n)
<1>. DEFINE r == Consume(q, m)
<1>1. /\ q.length \in Nat /\ q.length <= n /\ s \in Seq(Word) /\ Len(s) = q.length
      /\ \A k \in 1..q.length : s[k] = x[n - q.length + k]
  BY UnreadPart
<1>2. Represents(q, s)
  BY DEF Unread
<1>. HIDE DEF s
<1>3. Represents(r, t)
  BY <1>1, <1>2, ConsumeDrops
<1>4. /\ t \in Seq(Word) /\ Len(t) = q.length - m
      /\ \A k \in 1..(q.length - m) : t[k] = x[n - q.length + (m + k)]
  <2>1. m + 1 \in Nat /\ 1 <= m + 1 /\ m + 1 <= Len(s) + 1 /\ Len(s) <= Len(s) /\ Len(s) \in Nat
    BY <1>1
  <2>2. t \in Seq(Word) /\ Len(t) = Len(s) - (m + 1) + 1
        /\ \A k \in 1..(Len(s) - (m + 1) + 1) : t[k] = s[(m + 1) + k - 1]
    BY <1>1, <2>1, PartOfASeq
  <2>3. Len(s) - (m + 1) + 1 = q.length - m
    BY <1>1
  <2>4. ASSUME NEW k \in 1..(q.length - m)
        PROVE  t[k] = x[n - q.length + (m + k)]
    <3>1. (m + 1) + k - 1 = m + k /\ m + k \in 1..q.length
      BY <1>1
    <3>. QED BY <1>1, <2>2, <2>3, <3>1
  <2>. QED BY <2>2, <2>3, <2>4
<1>5. /\ u \in Seq(Word) /\ Len(u) = q.length - m
      /\ \A k \in 1..(q.length - m) : u[k] = x[n - q.length + (m + k)]
  <2>. DEFINE a == n - (q.length - m) + 1
  <2>1. a \in Nat /\ 1 <= a /\ a <= n + 1 /\ n <= Len(x) /\ n \in Nat /\ n - a + 1 = q.length - m
        /\ \A k \in 1..(q.length - m) : a + k - 1 = n - q.length + (m + k)
    BY <1>1
  <2>. HIDE DEF a
  <2>2. SubSeq(x, a, n) \in Seq(Word) /\ Len(SubSeq(x, a, n)) = n - a + 1
        /\ \A k \in 1..(n - a + 1) : SubSeq(x, a, n)[k] = x[a + k - 1]
    BY <2>1, PartOfASeq
  <2>. QED BY <2>1, <2>2 DEF a
<1>. HIDE DEF t, u, r
<1>6. t = u
  <2>1. \A k \in 1..(q.length - m) : t[k] = u[k]
    BY <1>4, <1>5, Zenon
  <2>. DEFINE l == q.length - m
  <2>2. Len(t) = l /\ Len(u) = l /\ \A k \in 1..l : t[k] = u[k]
    BY <1>4, <1>5, <2>1
  <2>. HIDE DEF l
  <2>3. t = [k \in 1..Len(t) |-> t[k]] /\ u = [k \in 1..Len(u) |-> u[k]]
    BY <1>4, <1>5
  <2>. QED BY <2>2, <2>3
<1>7. r.length = q.length - m
  BY <1>3, <1>4 DEF Represents
<1>8. r.length <= n
  BY <1>1, <1>7
<1>9. u = SubSeq(x, n - r.length + 1, n)
  BY <1>7 DEF u
<1>. QED BY <1>3, <1>6, <1>7, <1>8, <1>9 DEF Unread, r

LEMMA UnreadPushed ==
    ASSUME NEW x \in Seq(Word), NEW n \in 0..Len(x), NEW q, Unread(q, x, n),
           NEW m \in n..Len(x)
    PROVE  Unread(Push(q, SubSeq(x, n + 1, m)), x, m)
<1>. DEFINE s == SubSeq(x, n - q.length + 1, n)
<1>. DEFINE c == SubSeq(x, n + 1, m)
<1>. DEFINE r == Push(q, c)
<1>. DEFINE l == q.length + (m - n)
<1>. DEFINE u == SubSeq(x, m - l + 1, m)
<1>1. /\ q.length \in Nat /\ q.length <= n /\ s \in Seq(Word) /\ Len(s) = q.length
      /\ \A k \in 1..q.length : s[k] = x[n - q.length + k]
  BY UnreadPart
<1>2. Represents(q, s)
  BY DEF Unread
<1>3. n \in Nat /\ m \in Nat /\ n <= m /\ m <= Len(x) /\ Len(x) \in Nat
  OBVIOUS
<1>. HIDE DEF s
<1>4. c \in Seq(Word) /\ Len(c) = m - n /\ \A k \in 1..(m - n) : c[k] = x[n + k]
  <2>1. n + 1 \in Nat /\ 1 <= n + 1 /\ n + 1 <= m + 1 /\ m - (n + 1) + 1 = m - n
        /\ \A k \in 1..(m - n) : (n + 1) + k - 1 = n + k
    BY <1>3
  <2>2. c \in Seq(Word) /\ Len(c) = m - (n + 1) + 1
        /\ \A k \in 1..(m - (n + 1) + 1) : c[k] = x[(n + 1) + k - 1]
    BY <1>3, <2>1, PartOfASeq
  <2>. QED BY <2>1, <2>2
<1>. HIDE DEF c
<1>5. Represents(r, s \o c)
  BY <1>2, <1>4, PushAppends
<1>. DEFINE t == s \o c
<1>6. /\ t \in Seq(Word) /\ Len(t) = l
      /\ \A k \in 1..Len(s) : t[k] = s[k]
      /\ \A k \in 1..Len(c) : t[Len(s) + k] = c[k]
  <2>0. s \in Seq(Word) /\ c \in Seq(Word)
    BY <1>1, <1>4
  <2>1. t \in Seq(Word) /\ Len(t) = Len(s) + Len(c)
    BY <2>0
  <2>2. Len(s) + Len(c) = l
    BY <1>1, <1>4
  <2>3. /\ \A k \in 1..Len(s) : t[k] = s[k]
        /\ \A k \in 1..Len(c) : t[Len(s) + k] = c[k]
    BY <2>0
  <2>. QED BY <2>1, <2>2, <2>3
<1>7. l \in Nat /\ l <= m
  BY <1>1, <1>3
<1>. HIDE DEF t
<1>8. ASSUME NEW k \in 1..l
      PROVE  t[k] = x[m - l + k]
  <2>1. CASE k \in 1..Len(s)
    <3>1. m - l + k = n - q.length + k
      BY <1>1, <1>3
    <3>. QED BY <1>1, <1>6, <2>1, <3>1
  <2>2. CASE k \notin 1..Len(s)
    <3>. DEFINE j == k - Len(s)
    <3>1. j \in 1..Len(c) /\ j \in 1..(m - n) /\ Len(s) + j = k /\ n + j = m - l + k
      BY <1>1, <1>3, <1>4, <2>2
    <3>. HIDE DEF j
    <3>2. t[Len(s) + j] = c[j] /\ c[j] = x[n + j]
      BY <1>4, <1>6, <3>1
    <3>. QED BY <3>1, <3>2
  <2>. QED BY <2>1, <2>2
<1>9. u \in Seq(Word) /\ Len(u) = l /\ \A k \in 1..l : u[k] = x[m - l + k]
  <2>. DEFINE a == m - l + 1
  <2>. HIDE DEF l
  <2>1. a \in Nat /\ 1 <= a /\ a <= m + 1 /\ m - a + 1 = l
        /\ \A k \in 1..l : a + k - 1 = m - l + k
    BY <1>3, <1>7
  <2>. HIDE DEF a
  <2>2. SubSeq(x, a, m) \in Seq(Word) /\ Len(SubSeq(x, a, m)) = m - a + 1
        /\ \A k \in 1..(m - a + 1) : SubSeq(x, a, m)[k] = x[a + k - 1]
    BY <1>3, <2>1, PartOfASeq
  <2>. QED BY <2>1, <2>2 DEF a
<1>. HIDE DEF u, l, r
<1>10. t = u
  <2>1. \A k \in 1..l : t[k] = u[k]
    BY <1>8, <1>9
  <2>2. t = [k \in 1..Len(t) |-> t[k]] /\ u = [k \in 1..Len(u) |-> u[k]]
    BY <1>6, <1>9
  <2>. QED BY <1>6, <1>9, <2>1, <2>2
<1>11. r.length = l
  BY <1>5, <1>6 DEF Represents, t
<1>12. u = SubSeq(x, m - r.length + 1, m)
  BY <1>11 DEF u
<1>. QED BY <1>5, <1>7, <1>10, <1>11, <1>12 DEF Unread, r, c, t

-----------------------------------------------------------------------------
(* What the parser does to its queue.                                      *)

LEMMA Lengths ==
    ASSUME NEW b
    PROVE  /\ Prefix(b) \in Seq({Dash, b}) /\ Len(Prefix(b)) = 3
           /\ Marker(b) \in Seq({Cr, Lf, Dash, b}) /\ Len(Marker(b)) = 5
           /\ Closing(b) \in Seq({Cr, Lf, Dash, b}) /\ Len(Closing(b)) = 7
<1>1. Prefix(b) \in Seq({Dash, b}) /\ Len(Prefix(b)) = 3
  BY DEF Prefix
<1>2. Prefix(b) \in Seq({Cr, Lf, Dash, b})
  BY DEF Prefix
<1>3. <<Cr, Lf>> \in Seq({Cr, Lf, Dash, b}) /\ Len(<<Cr, Lf>>) = 2
  OBVIOUS
<1>4. Marker(b) \in Seq({Cr, Lf, Dash, b}) /\ Len(Marker(b)) = 5
  <2>1. ASSUME NEW T, NEW u \in Seq(T), NEW v \in Seq(T), Len(u) = 2, Len(v) = 3
        PROVE  u \o v \in Seq(T) /\ Len(u \o v) = 5
    <3>1. u \o v \in Seq(T) /\ Len(u \o v) = Len(u) + Len(v)
      BY ConcatProperties, Zenon
    <3>. QED BY <2>1, <3>1
  <2>. QED BY <1>1, <1>2, <1>3, <2>1 DEF Marker
<1>5. <<Dash, Dash>> \in Seq({Cr, Lf, Dash, b}) /\ Len(<<Dash, Dash>>) = 2
  OBVIOUS
<1>6. Closing(b) \in Seq({Cr, Lf, Dash, b}) /\ Len(Closing(b)) = 7
  <2>1. ASSUME NEW T, NEW u \in Seq(T), NEW v \in Seq(T), Len(u) = 5, Len(v) = 2
        PROVE  u \o v \in Seq(T) /\ Len(u \o v) = 7
    <3>1. u \o v \in Seq(T) /\ Len(u \o v) = Len(u) + Len(v)
      BY ConcatProperties, Zenon
    <3>. QED BY <2>1, <3>1
  <2>. QED BY <1>4, <1>5, <2>1 DEF Closing
<1>. QED BY <1>1, <1>4, <1>6

\* A line break behind a boundary is passed over.
LEMMA UnreadSkipped ==
    ASSUME NEW x \in Seq(Word), NEW n \in 0..Len(x), NEW q, Unread(q, x, n)
    PROVE  Unread(AfterMarker(q), x, n)
<1>1. CASE StartsWith(q, <<Cr, Lf>>, 0)
  <2>1. q.length \in Nat
    BY UnreadPart
  <2>2. 2 \in 0..q.length
    BY <1>1, <2>1 DEF StartsWith
  <2>3. Unread(Consume(q, 2), x, n)
    BY <2>2, UnreadConsumed
  <2>. QED BY <1>1, <2>3 DEF AfterMarker, Skipping
<1>2. CASE ~StartsWith(q, <<Cr, Lf>>, 0)
  BY <1>2 DEF AfterMarker, Skipping
<1>. QED BY <1>1, <1>2

\* Looking for the first boundary reads the first byte or two.
LEMMA PeekedKeeps ==
    ASSUME NEW q, NEW s, Represents(q, s)
    PROVE  Represents(Peeked(q), s)
<1>1. q.length = Len(s) /\ Len(s) \in Nat
  BY DEF Represents
<1>2. CASE q.length < 2
  BY <1>2 DEF Peeked
<1>3. CASE ~(q.length < 2)
  <2>1. 0 \in 0..(Len(s) - 1) /\ 1 \in 0..(Len(s) - 1)
    BY <1>1, <1>3
  <2>2. Represents(Remember(q, 0), s) /\ Represents(Remember(q, 1), s)
    BY <2>1, RememberKeeps
  <2>. QED BY <1>3, <2>2 DEF Peeked
<1>. QED BY <1>2, <1>3

\* What has been found ends within the queue.
LEMMA FoundInside ==
    ASSUME NEW q, NEW s, Represents(q, s), NEW T, NEW x \in Seq(T), IndexOf(q, x) # NotFound
    PROVE  IndexOf(q, x) \in Nat /\ IndexOf(q, x) + Len(x) <= Len(s)
<1>1. IndexOf(q, x) \in 0..(Len(s) - Len(x))
  BY IndexOfFinds
<1>2. Len(s) \in Nat /\ Len(x) \in Nat
  BY DEF Represents
<1>. QED BY <1>1, <1>2

LEMMA SeparatorInside ==
    ASSUME NEW q, NEW s, Represents(q, s), FirstSeparator(q) # NoBreak
    PROVE  FirstSeparator(q).index + FirstSeparator(q).length \in 0..Len(s)
<1>. DEFINE c == <<Cr, Lf, Cr, Lf>>
<1>. DEFINE l == <<Lf, Lf>>
<1>1. c \in Seq({Cr, Lf}) /\ Len(c) = 4 /\ l \in Seq({Cr, Lf}) /\ Len(l) = 2 /\ Len(s) \in Nat
  BY DEF Represents
<1>2. /\ ~(IndexOf(q, c) = NotFound /\ IndexOf(q, l) = NotFound)
      /\ \/ /\ IndexOf(q, c) # NotFound
            /\ FirstSeparator(q) = [index |-> IndexOf(q, c), length |-> 4]
         \/ /\ IndexOf(q, l) # NotFound
            /\ FirstSeparator(q) = [index |-> IndexOf(q, l), length |-> 2]
  BY DEF FirstSeparator
<1>. HIDE DEF c, l
<1>3. CASE /\ IndexOf(q, c) # NotFound
           /\ FirstSeparator(q) = [index |-> IndexOf(q, c), length |-> 4]
  <2>1. IndexOf(q, c) \in Nat /\ IndexOf(q, c) + 4 <= Len(s)
    BY <1>1, <1>3, FoundInside
  <2>. QED BY <1>1, <1>3, <2>1
<1>4. CASE /\ IndexOf(q, l) # NotFound
           /\ FirstSeparator(q) = [index |-> IndexOf(q, l), length |-> 2]
  <2>1. IndexOf(q, l) \in Nat /\ IndexOf(q, l) + 2 <= Len(s)
    BY <1>1, <1>4, FoundInside
  <2>. QED BY <1>1, <1>4, <2>1
<1>. QED BY <1>2, <1>3, <1>4

-----------------------------------------------------------------------------
(* The inductive invariant.                                                *)

\* Frames one on the other, the payload's own first.
Stack(fs) == fs \in Seq(ToSet(fs)) /\ fs # <<>> /\ "queue" \in DOMAIN fs[1]

Shape == case \in Cases /\ sent.bytes \in 0..Len(text) /\ Stack(frames)

\* What has arrived and has not been consumed is what the payload's queue holds:
\* the parsers of changesets, which stand on the payload's own, leave it alone.
IInv == Shape /\ Unread(Root.queue, text, sent.bytes)

LEMMA TextIsWords ==
    ASSUME Shape
    PROVE  text \in Seq(Word) /\ Len(text) \in Nat
<1>1. text \in Seq(Word)
  BY CasesAssumption DEF Shape, text
<1>. QED BY <1>1

LEMMA StackIs ==
    ASSUME NEW fs, Stack(fs)
    PROVE  Len(fs) \in Nat /\ Len(fs) >= 1 /\ 1 \in 1..Len(fs) /\ Len(fs) \in 1..Len(fs)
           /\ DOMAIN fs = 1..Len(fs)
<1>1. Len(fs) \in Nat /\ Len(fs) # 0 /\ DOMAIN fs = 1..Len(fs)
  BY EmptySeq DEF Stack
<1>. QED BY <1>1

LEMMA SeqOfItsOwn ==
    ASSUME NEW S, NEW fs \in Seq(S)
    PROVE  fs \in Seq(ToSet(fs))
<1>1. \A i \in 1..Len(fs) : fs[i] \in ToSet(fs)
  BY DEF ToSet
<1>2. DOMAIN fs = 1..Len(fs) /\ Len(fs) \in Nat /\ fs = [i \in 1..Len(fs) |-> fs[i]]
  OBVIOUS
<1>. QED BY <1>1, <1>2, SeqDef

\* A frame is replaced.
LEMMA StackChanged ==
    ASSUME NEW fs, Stack(fs), NEW i \in 1..Len(fs), NEW p, i = 1 => "queue" \in DOMAIN p
    PROVE  LET g == [fs EXCEPT ![i] = p]
           IN Stack(g) /\ Len(g) = Len(fs) /\ g[1] = IF i = 1 THEN p ELSE fs[1]
<1>. DEFINE g == [fs EXCEPT ![i] = p]
<1>. DEFINE S == ToSet(fs) \cup {p}
<1>1. fs \in Seq(S) /\ p \in S
  <2>1. \A j \in 1..Len(fs) : fs[j] \in S
    BY StackIs DEF ToSet
  <2>2. fs \in Seq(ToSet(fs)) /\ ToSet(fs) \subseteq S
    BY DEF Stack
  <2>. HIDE DEF S
  <2>3. fs \in Seq(S)
    BY <2>1, <2>2
  <2>. QED BY <2>3 DEF S
<1>. HIDE DEF S
<1>2. g \in Seq(S) /\ Len(g) = Len(fs) /\ DOMAIN g = 1..Len(fs)
  BY <1>1, ExceptSeq
<1>3. g[1] = IF i = 1 THEN p ELSE fs[1]
  BY <1>1, StackIs
<1>4. g # <<>>
  BY <1>2, StackIs
<1>5. "queue" \in DOMAIN g[1]
  BY <1>3 DEF Stack
<1>. HIDE DEF g
<1>6. g \in Seq(ToSet(g))
  BY <1>2, SeqOfItsOwn
<1>. QED BY <1>2, <1>3, <1>4, <1>5, <1>6 DEF Stack, g

\* A frame is put on top, or the top one is taken away from under which there is another.
LEMMA StackPushed ==
    ASSUME NEW fs, Stack(fs), NEW p
    PROVE  Stack(Append(fs, p)) /\ Append(fs, p)[1] = fs[1]
<1>. DEFINE g == Append(fs, p)
<1>. DEFINE S == ToSet(fs) \cup {p}
<1>1. fs \in Seq(S) /\ p \in S
  <2>1. \A j \in 1..Len(fs) : fs[j] \in S
    BY StackIs DEF ToSet
  <2>2. fs \in Seq(ToSet(fs)) /\ ToSet(fs) \subseteq S
    BY DEF Stack
  <2>. HIDE DEF S
  <2>3. fs \in Seq(S)
    BY <2>1, <2>2
  <2>. QED BY <2>3 DEF S
<1>. HIDE DEF S
<1>2. g \in Seq(S) /\ Len(g) = Len(fs) + 1 /\ g[1] = fs[1]
  BY <1>1, StackIs
<1>3. g # <<>>
  BY <1>2, StackIs
<1>. HIDE DEF g
<1>4. g \in Seq(ToSet(g))
  BY <1>2, SeqOfItsOwn
<1>. QED BY <1>2, <1>3, <1>4 DEF Stack, g

LEMMA StackPopped ==
    ASSUME NEW fs, Stack(fs), Len(fs) > 1
    PROVE  Stack(Front(fs)) /\ Len(Front(fs)) = Len(fs) - 1 /\ Front(fs)[1] = fs[1]
<1>. DEFINE g == Front(fs)
<1>. DEFINE n == Len(fs) - 1
<1>1. n \in Nat /\ 1 <= n /\ 1 <= n + 1 /\ n <= Len(fs) /\ n - 1 + 1 = n /\ 1 \in Nat
  BY StackIs
<1>2. fs \in Seq(ToSet(fs)) /\ g = SubSeq(fs, 1, n)
  BY DEF Stack, Front
<1>. HIDE DEF n
<1>3. /\ SubSeq(fs, 1, n) \in Seq(ToSet(fs)) /\ Len(SubSeq(fs, 1, n)) = n - 1 + 1
      /\ \A k \in 1..(n - 1 + 1) : SubSeq(fs, 1, n)[k] = fs[1 + k - 1]
  BY <1>1, <1>2, PartOfASeq
<1>4. 1 \in 1..(n - 1 + 1) /\ 1 + 1 - 1 = 1
  BY <1>1
<1>. HIDE DEF g
<1>5. g \in Seq(ToSet(fs)) /\ Len(g) = n /\ g[1] = fs[1]
  <2>1. SubSeq(fs, 1, n)[1] = fs[1]
    BY <1>3, <1>4
  <2>. QED BY <1>1, <1>2, <1>3, <2>1
<1>6. g # <<>>
  BY <1>1, <1>5
<1>7. g \in Seq(ToSet(g))
  BY <1>5, SeqOfItsOwn
<1>. QED BY <1>5, <1>6, <1>7 DEF Stack, g, n

-----------------------------------------------------------------------------
(* The steps.                                                              *)

\* What holds of the payload's queue at every step.
LEMMA RootIs ==
    ASSUME IInv
    PROVE  /\ Stack(frames) /\ Len(frames) \in 1..Len(frames) /\ 1 \in 1..Len(frames)
           /\ text \in Seq(Word) /\ sent.bytes \in 0..Len(text)
           /\ Unread(Root.queue, text, sent.bytes)
           /\ Root = frames[1] /\ (Len(frames) = 1 => Top = Root)
BY TextIsWords, StackIs DEF IInv, Shape, Top, Root

\* A step that changes the top parser: when it is the payload's own, its queue must
\* still hold the rest.
LEMMA TopReplaced ==
    ASSUME IInv, UNCHANGED <<case, sent>>, NEW p, frames' = [frames EXCEPT ![Len(frames)] = p],
           Len(frames) = 1 => "queue" \in DOMAIN p /\ Unread(p.queue, text, sent.bytes)
    PROVE  IInv'
<1>1. Stack(frames) /\ Len(frames) \in 1..Len(frames)
  BY RootIs
<1>2. /\ Stack(frames')
      /\ frames'[1] = IF Len(frames) = 1 THEN p ELSE frames[1]
  BY <1>1, StackChanged
<1>3. Unread(frames'[1].queue, text, sent.bytes)
  BY <1>2, RootIs
<1>5. text' = text /\ sent' = sent /\ case' = case /\ Root' = frames'[1]
  BY DEF text, Root
<1>6. Shape'
  BY <1>2, <1>5 DEF Shape, IInv
<1>7. Unread(Root.queue, text, sent.bytes)'
  BY <1>3, <1>5 DEF Unread
<1>. QED BY <1>6, <1>7 DEF IInv

LEMMA TopQueueReplaced ==
    ASSUME IInv, UNCHANGED <<case, sent>>, NEW q,
           frames' = [frames EXCEPT ![Len(frames)].queue = q],
           Len(frames) = 1 => Unread(q, text, sent.bytes)
    PROVE  IInv'
<1>. DEFINE p == [Top EXCEPT !.queue = q]
<1>1. frames' = [frames EXCEPT ![Len(frames)] = p]
  BY DEF Top
<1>2. Len(frames) = 1 => "queue" \in DOMAIN p /\ p.queue = q
  BY RootIs DEF Stack
<1>. HIDE DEF p
<1>. QED BY <1>1, <1>2, TopReplaced

LEMMA AwaitKeeps ==
    ASSUME IInv, NEW q, \A s : Represents(Top.queue, s) => Represents(q, s), Await(q)
    PROVE  IInv'
<1>1. CASE Refuse
  BY <1>1 DEF Refuse, IInv, Shape, Stack, Root, text, Unread
<1>2. CASE frames' = [frames EXCEPT ![Len(frames)].queue = q] /\ UNCHANGED <<case, sent>>
  <2>1. ASSUME Len(frames) = 1
        PROVE  Unread(q, text, sent.bytes)
    BY <2>1, RootIs, UnreadKept
  <2>. QED BY <1>2, <2>1, TopQueueReplaced
<1>. QED BY <1>1, <1>2 DEF Await

LEMMA RefuseKeeps ==
    ASSUME IInv, Refuse
    PROVE  IInv'
BY DEF Refuse, IInv, Shape, Stack, Root, text, Unread

LEMMA ChunkKeeps ==
    ASSUME IInv, Chunk
    PROVE  IInv'
<1>1. PICK n \in (sent.bytes + 1)..Len(text) :
        /\ sent' = [chunks |-> sent.chunks + 1, bytes |-> n, torn |-> sent.torn \/ Tears(n)]
        /\ frames' = [frames EXCEPT ![1].queue = Push(@, SubSeq(text, sent.bytes + 1, n))]
  BY DEF Chunk
<1>2. case' = case
  BY DEF Chunk
<1>. DEFINE q == Push(Root.queue, SubSeq(text, sent.bytes + 1, n))
<1>. DEFINE p == [Root EXCEPT !.queue = q]
<1>3. Len(text) \in Nat /\ sent.bytes \in 0..Len(text) /\ n \in 0..Len(text) /\ n \in sent.bytes..Len(text)
  BY RootIs
<1>4. Unread(q, text, n)
  BY <1>3, RootIs, UnreadPushed
<1>5. frames' = [frames EXCEPT ![1] = p]
  BY <1>1, RootIs
<1>6. "queue" \in DOMAIN p /\ p.queue = q
  BY RootIs DEF Stack
<1>. HIDE DEF p, q
<1>7. Stack(frames') /\ frames'[1] = p
  BY <1>5, <1>6, RootIs, StackChanged
<1>8. text' = text /\ sent'.bytes = n /\ Root' = p
  BY <1>1, <1>2, <1>7 DEF text, Root
<1>9. Shape'
  BY <1>2, <1>3, <1>7, <1>8 DEF Shape, IInv
<1>. QED BY <1>4, <1>6, <1>8, <1>9 DEF IInv, Unread

LEMMA FirstBoundaryInside ==
    ASSUME NEW q, q.length \in Nat, FirstBoundary(q) > 0
    PROVE  FirstBoundary(q) \in 0..q.length
<1>. DEFINE b == Prefix(Top.boundary)
<1>1. Len(b) = 3
  BY Lengths
<1>. HIDE DEF b
<1>2. \/ FirstBoundary(q) = 3 /\ 3 + 0 <= q.length
      \/ FirstBoundary(q) = 5 /\ 3 + 2 <= q.length
  <2>1. FirstBoundary(q) = IF StartsWith(q, b, 0) THEN Len(b)
                           ELSE IF StartsWith(q, <<Cr, Lf>>, 0) /\ StartsWith(q, b, 2) THEN Len(b) + 2
                           ELSE 0
    BY DEF FirstBoundary, b
  <2>. QED BY <1>1, <2>1 DEF StartsWith
<1>. QED BY <1>2

LEMMA FirstBoundaryFoundKeeps ==
    ASSUME IInv, FirstBoundaryFound
    PROVE  IInv'
<1>. DEFINE behind == Consume(Top.queue, FirstBoundary(Top.queue))
<1>. DEFINE empty == StartsWith(behind, <<Dash, Dash>>, 0)
<1>. DEFINE q == IF empty THEN Consume(behind, 2) ELSE AfterMarker(behind)
<1>. DEFINE p == [Top EXCEPT !.state = IF empty THEN "ended" ELSE "headers", !.queue = q]
<1>1. frames' = [frames EXCEPT ![Len(frames)] = p] /\ UNCHANGED <<case, sent>>
  BY DEF FirstBoundaryFound, Top
<1>2. ASSUME Len(frames) = 1
      PROVE  "queue" \in DOMAIN p /\ p.queue = q /\ Unread(q, text, sent.bytes)
  <2>1. Top = Root /\ text \in Seq(Word) /\ sent.bytes \in 0..Len(text)
        /\ Unread(Top.queue, text, sent.bytes)
    BY <1>2, RootIs
  <2>2. Top.queue.length \in Nat
    BY <2>1, UnreadPart
  <2>3. FirstBoundary(Top.queue) \in 0..Top.queue.length
    BY <2>2, FirstBoundaryInside DEF FirstBoundaryFound
  <2>4. Unread(behind, text, sent.bytes)
    BY <2>1, <2>3, UnreadConsumed
  <2>. HIDE DEF behind
  <2>5. behind.length \in Nat
    BY <2>1, <2>4, UnreadPart
  <2>6. empty => 2 \in 0..behind.length
    BY <2>5 DEF StartsWith
  <2>. HIDE DEF empty
  <2>7. Unread(q, text, sent.bytes)
    <3>1. CASE empty
      BY <2>1, <2>4, <2>6, <3>1, UnreadConsumed
    <3>2. CASE ~empty
      BY <2>1, <2>4, <3>2, UnreadSkipped
    <3>. QED BY <3>1, <3>2
  <2>. HIDE DEF q
  <2>8. "queue" \in DOMAIN p /\ p.queue = q
    BY <2>1, RootIs DEF Stack
  <2>. QED BY <2>7, <2>8
<1>. HIDE DEF p
<1>. QED BY <1>1, <1>2, TopReplaced

LEMMA FirstBoundaryMissingKeeps ==
    ASSUME IInv, FirstBoundaryMissing
    PROVE  IInv'
<1>. DEFINE q == Peeked(Top.queue)
<1>1. \A s : Represents(Top.queue, s) => Represents(q, s)
  BY PeekedKeeps
<1>. HIDE DEF q
<1>2. Await(q) \/ Refuse
  BY DEF FirstBoundaryMissing, q
<1>. QED BY <1>1, <1>2, AwaitKeeps, RefuseKeeps

LEMMA HeadersReadKeeps ==
    ASSUME IInv, HeadersRead
    PROVE  IInv'
<1>. DEFINE h == FirstSeparator(Top.queue)
<1>1. CASE h = NoBreak
  <2>. DEFINE x == <<Cr, Lf, Cr, Lf>>
  <2>. DEFINE y == <<Lf, Lf>>
  <2>. DEFINE q == Searched(Searched(Top.queue, x), y)
  <2>1. x \in Seq({Cr, Lf}) /\ Len(x) > 0 /\ y \in Seq({Cr, Lf}) /\ Len(y) > 0
    OBVIOUS
  <2>2. Await(q)
    BY <1>1 DEF HeadersRead
  <2>. HIDE DEF x, y
  <2>3. ASSUME NEW s, Represents(Top.queue, s)
        PROVE  Represents(q, s)
    <3>1. Represents(Searched(Top.queue, x), s)
      BY <2>1, <2>3, SearchedKeeps
    <3>. QED BY <2>1, <3>1, SearchedKeeps
  <2>. HIDE DEF q
  <2>. QED BY <2>2, <2>3, AwaitKeeps
<1>2. CASE h # NoBreak
  <2>. DEFINE q == Consume(Top.queue, h.index + h.length)
  <2>. DEFINE p == [Top EXCEPT !.state = "body",
                               !.headers = parseHeaders(Slice(Top.queue, h.index)),
                               !.queue = q]
  <2>1. frames' = [frames EXCEPT ![Len(frames)] = p] /\ UNCHANGED <<case, sent>>
    BY <1>2 DEF HeadersRead, Top
  <2>2. ASSUME Len(frames) = 1
        PROVE  "queue" \in DOMAIN p /\ p.queue = q /\ Unread(q, text, sent.bytes)
    <3>1. Top = Root /\ text \in Seq(Word) /\ sent.bytes \in 0..Len(text)
          /\ Unread(Top.queue, text, sent.bytes)
      BY <2>2, RootIs
    <3>2. h.index + h.length \in 0..Top.queue.length
      <4>. DEFINE s == SubSeq(text, sent.bytes - Top.queue.length + 1, sent.bytes)
      <4>1. Represents(Top.queue, s) /\ Len(s) = Top.queue.length
        BY <3>1, UnreadPart DEF Unread
      <4>. HIDE DEF s
      <4>. QED BY <1>2, <4>1, SeparatorInside
    <3>3. Unread(q, text, sent.bytes)
      BY <3>1, <3>2, UnreadConsumed
    <3>. HIDE DEF q
    <3>4. "queue" \in DOMAIN p /\ p.queue = q
      BY <3>1, RootIs DEF Stack
    <3>. QED BY <3>3, <3>4
  <2>. HIDE DEF p
  <2>. QED BY <2>1, <2>2, TopReplaced
<1>. QED BY <1>1, <1>2

LEMMA BodyAwaitedKeeps ==
    ASSUME IInv, BodyAwaited
    PROVE  IInv'
<1>. DEFINE b == Top.boundary
<1>. DEFINE S == {Cr, Lf, Dash, b}
<1>. DEFINE q == Searched(Searched(Top.queue, Closing(b)), Marker(b))
<1>1. Closing(b) \in Seq(S) /\ Len(Closing(b)) > 0 /\ Marker(b) \in Seq(S) /\ Len(Marker(b)) > 0
  <2>. HIDE DEF b
  <2>1. /\ Closing(b) \in Seq(S) /\ Len(Closing(b)) = 7
        /\ Marker(b) \in Seq(S) /\ Len(Marker(b)) = 5
    BY Lengths
  <2>. QED BY <2>1
<1>2. Await(q) \/ Refuse
  BY DEF BodyAwaited
<1>. HIDE DEF b, S
<1>3. ASSUME NEW s, Represents(Top.queue, s)
      PROVE  Represents(q, s)
  <2>1. Represents(Searched(Top.queue, Closing(b)), s)
    BY <1>1, <1>3, SearchedKeeps
  <2>. QED BY <1>1, <2>1, SearchedKeeps
<1>. HIDE DEF q
<1>. QED BY <1>2, <1>3, AwaitKeeps, RefuseKeeps

\* The parser behind the boundary that ends a part, when it is the payload's own.
LEMMA BehindHolds ==
    ASSUME IInv, Len(frames) = 1, NEW next, next = NextBoundary(Top.queue), next.index # NotFound
    PROVE  "queue" \in DOMAIN Behind(Top, next) /\ Unread(Behind(Top, next).queue, text, sent.bytes)
<1>. DEFINE b == Top.boundary
<1>. DEFINE S == {Cr, Lf, Dash, b}
<1>. DEFINE length == Len(IF next.closing THEN Closing(b) ELSE Marker(b))
<1>. DEFINE behind == Consume(Top.queue, next.index + length)
<1>1. Top = Root /\ text \in Seq(Word) /\ sent.bytes \in 0..Len(text)
      /\ Unread(Top.queue, text, sent.bytes)
  BY RootIs
<1>2. /\ Closing(b) \in Seq(S) /\ Len(Closing(b)) = 7
      /\ Marker(b) \in Seq(S) /\ Len(Marker(b)) = 5
  BY Lengths
<1>3. \/ /\ next.index = IndexOf(Top.queue, Closing(b)) /\ length = Len(Closing(b))
      \/ /\ next.index = IndexOf(Top.queue, Marker(b)) /\ length = Len(Marker(b))
  BY DEF NextBoundary
<1>. HIDE DEF S, length
<1>4. next.index + length \in 0..Top.queue.length
  <2>. DEFINE s == SubSeq(text, sent.bytes - Top.queue.length + 1, sent.bytes)
  <2>1. Represents(Top.queue, s) /\ Len(s) = Top.queue.length /\ Top.queue.length \in Nat
    BY <1>1, UnreadPart DEF Unread
  <2>. HIDE DEF s, b
  <2>2. CASE next.index = IndexOf(Top.queue, Closing(b)) /\ length = Len(Closing(b))
    <3>1. next.index \in Nat /\ next.index + Len(Closing(b)) <= Len(s)
      BY <1>2, <2>1, <2>2, FoundInside
    <3>. QED BY <1>2, <2>1, <2>2, <3>1
  <2>3. CASE next.index = IndexOf(Top.queue, Marker(b)) /\ length = Len(Marker(b))
    <3>1. next.index \in Nat /\ next.index + Len(Marker(b)) <= Len(s)
      BY <1>2, <2>1, <2>3, FoundInside
    <3>. QED BY <1>2, <2>1, <2>3, <3>1
  <2>. QED BY <1>3, <2>2, <2>3
<1>5. Unread(behind, text, sent.bytes)
  BY <1>1, <1>4, UnreadConsumed
<1>6. Behind(Top, next) = [Top EXCEPT !.queue = AfterMarker(behind),
                                      !.state = IF next.closing THEN "ended" ELSE "headers",
                                      !.headers = {}]
  BY DEF Behind, length
<1>. HIDE DEF behind
<1>7. Unread(AfterMarker(behind), text, sent.bytes)
  BY <1>1, <1>5, UnreadSkipped
<1>8. "queue" \in DOMAIN Behind(Top, next) /\ Behind(Top, next).queue = AfterMarker(behind)
  BY <1>1, <1>6, RootIs DEF Stack
<1>. QED BY <1>7, <1>8

LEMMA PartReadKeeps ==
    ASSUME IInv, PartRead
    PROVE  IInv'
<1>. DEFINE next == NextBoundary(Top.queue)
<1>. DEFINE body == Slice(Top.queue, next.index)
<1>. DEFINE n == Len(frames)
<1>1. /\ next.index # NotFound
      /\ Refuse \/ BeginChangeset(body, next) \/ AddRequest(body, next)
  BY DEF PartRead
<1>2. Len(frames) = 1 => /\ "queue" \in DOMAIN Behind(Top, next)
                         /\ Unread(Behind(Top, next).queue, text, sent.bytes)
  BY <1>1, BehindHolds
<1>. HIDE DEF next, body
<1>3. CASE Refuse
  BY <1>3, RefuseKeeps
<1>4. CASE BeginChangeset(body, next)
  <2>. DEFINE g == [frames EXCEPT ![n] = Behind(Top, next)]
  <2>1. Refuse \/ \E p : frames' = Append(g, p) /\ UNCHANGED <<case, sent>>
    BY <1>4 DEF BeginChangeset, Top
  <2>2. CASE Refuse
    BY <2>2, RefuseKeeps
  <2>3. ASSUME NEW p, frames' = Append(g, p), UNCHANGED <<case, sent>>
        PROVE  IInv'
    <3>1. Stack(g) /\ g[1] = IF n = 1 THEN Behind(Top, next) ELSE frames[1]
      BY <1>2, RootIs, StackChanged
    <3>. HIDE DEF g
    <3>2. Stack(frames') /\ frames'[1] = g[1]
      BY <2>3, <3>1, StackPushed
    <3>3. Unread(frames'[1].queue, text, sent.bytes)
      BY <1>2, <3>1, <3>2, RootIs
    <3>4. text' = text /\ sent' = sent /\ case' = case /\ Root' = frames'[1]
      BY <2>3 DEF text, Root
    <3>5. Shape'
      BY <3>2, <3>4 DEF Shape, IInv
    <3>. QED BY <3>3, <3>4, <3>5 DEF IInv, Unread
  <2>. QED BY <2>1, <2>2, <2>3
<1>5. CASE AddRequest(body, next)
  <2>1. CASE Refuse
    BY <2>1, RefuseKeeps
  <2>2. CASE ~Refuse
    <3>. DEFINE r == parseHttpPart(Top.headers, body, Top.group)
    <3>. DEFINE v == Behind(Top, next)
    <3>. DEFINE p == [v EXCEPT !.ops = @ + 1, !.requests = Append(@, r)]
    <3>1. frames' = [frames EXCEPT ![Len(frames)] = p] /\ UNCHANGED <<case, sent>>
      <4>1. /\ frames' = [frames EXCEPT ![Len(frames)] =
                   [Behind(Top, next) EXCEPT !.ops = @ + 1, !.requests = Append(@, r)]]
            /\ UNCHANGED <<case, sent>>
        BY <1>5, <2>2, Zenon DEF AddRequest
      <4>. HIDE DEF r
      <4>. QED BY <4>1
    <3>2. Len(frames) = 1 => "queue" \in DOMAIN v /\ Unread(v.queue, text, sent.bytes)
      BY <1>2
    <3>. HIDE DEF v, r
    <3>3. Len(frames) = 1 => "queue" \in DOMAIN p /\ p.queue = v.queue
      BY <3>2
    <3>. HIDE DEF p
    <3>. QED BY <3>1, <3>2, <3>3, TopReplaced
  <2>. QED BY <2>1, <2>2
<1>. QED BY <1>1, <1>3, <1>4, <1>5

LEMMA ChangesetReadKeeps ==
    ASSUME IInv, ChangesetRead
    PROVE  IInv'
<1>1. CASE Refuse
  BY <1>1, RefuseKeeps
<1>2. CASE ~Refuse
  <2>. DEFINE fs == Front(frames)
  <2>. DEFINE i == Len(frames) - 1
  <2>. DEFINE p == [fs[i] EXCEPT !.requests = @ \o Top.requests]
  <2>1. frames' = [fs EXCEPT ![i] = p] /\ UNCHANGED <<case, sent>> /\ Len(frames) > 1
    BY <1>2 DEF ChangesetRead
  <2>2. Stack(fs) /\ Len(fs) = i /\ fs[1] = frames[1]
    BY <2>1, RootIs, StackPopped
  <2>3. i \in 1..Len(fs)
    BY <2>2, StackIs
  <2>4. i = 1 => "queue" \in DOMAIN p /\ p.queue = frames[1].queue
    BY <2>2 DEF Stack
  <2>. HIDE DEF fs, i, p
  <2>5. Stack(frames') /\ frames'[1] = IF i = 1 THEN p ELSE fs[1]
    <3>. DEFINE g == [fs EXCEPT ![i] = p]
    <3>1. Stack(g) /\ g[1] = IF i = 1 THEN p ELSE fs[1]
      <4>1. i = 1 => "queue" \in DOMAIN p
        BY <2>4
      <4>2. Stack(fs)
        BY <2>2
      <4>. QED BY <2>3, <4>1, <4>2, StackChanged
    <3>. QED BY <2>1, <3>1
  <2>6. frames'[1].queue = frames[1].queue
    BY <2>2, <2>4, <2>5
  <2>7. text' = text /\ sent' = sent /\ case' = case /\ Root'.queue = Root.queue
    BY <2>1, <2>6 DEF text, Root
  <2>8. Shape'
    BY <2>5, <2>7 DEF Shape, IInv
  <2>. QED BY <2>7, <2>8 DEF IInv, Unread
<1>. QED BY <1>1, <1>2

LEMMA NothingChanged ==
    ASSUME IInv, UNCHANGED <<case, sent, frames>>
    PROVE  IInv'
BY DEF IInv, Shape, Stack, Root, text, Unread

LEMMA InitHolds ==
    ASSUME ParserInit
    PROVE  IInv
<1>. DEFINE p == Parser(Boundary, NoChangeset, EmptyQueue)
<1>1. frames = <<p>> /\ case \in Cases /\ sent.bytes = 0
  BY DEF ParserInit
<1>2. p.queue = EmptyQueue /\ "queue" \in DOMAIN p
  BY DEF Parser
<1>. HIDE DEF p
<1>3. frames \in Seq({p}) /\ frames # <<>> /\ frames[1] = p
  BY <1>1
<1>4. Stack(frames)
  BY <1>2, <1>3, SeqOfItsOwn DEF Stack
<1>5. Len(text) \in Nat
  BY <1>1, CasesAssumption DEF text
<1>6. Shape
  BY <1>1, <1>4, <1>5 DEF Shape
<1>7. Unread(EmptyQueue, text, 0)
  <2>1. EmptyQueue.length = 0
    BY DEF EmptyQueue
  <2>2. SubSeq(text, 1, 0) = <<>>
    BY <1>6, TextIsWords
  <2>3. Represents(EmptyQueue, SubSeq(text, 0 - EmptyQueue.length + 1, 0))
    <3>1. 0 - EmptyQueue.length + 1 = 1
      BY <2>1
    <3>. QED BY <2>2, <3>1, EmptyIsNothing
  <2>. QED BY <2>1, <2>3 DEF Unread
<1>. QED BY <1>1, <1>2, <1>3, <1>6, <1>7 DEF IInv, Root

\* The queue of the payload holds exactly what has arrived and has not been consumed,
\* at every step of every parser, for every payload and every way to cut it.
THEOREM Invariance == ParserSpec => []IInv
<1>1. ParserInit => IInv
  BY InitHolds
<1>2. IInv /\ [ParserNext]_parserVars => IInv'
  <2>. SUFFICES ASSUME IInv, [ParserNext]_parserVars PROVE IInv'
    OBVIOUS
  <2>1. CASE Chunk
    BY <2>1, ChunkKeeps
  <2>2. CASE PayloadTooLarge
    BY <2>2, RefuseKeeps DEF PayloadTooLarge
  <2>3. CASE EndOfStream
    BY <2>3, NothingChanged DEF EndOfStream
  <2>4. CASE FirstBoundaryFound
    BY <2>4, FirstBoundaryFoundKeeps
  <2>5. CASE FirstBoundaryMissing
    BY <2>5, FirstBoundaryMissingKeeps
  <2>6. CASE HeadersRead
    BY <2>6, HeadersReadKeeps
  <2>7. CASE BodyAwaited
    BY <2>7, BodyAwaitedKeeps
  <2>8. CASE PartRead
    BY <2>8, PartReadKeeps
  <2>9. CASE ChangesetRead
    BY <2>9, ChangesetReadKeeps
  <2>10. CASE PayloadRead
    BY <2>10, NothingChanged DEF PayloadRead
  <2>11. CASE UNCHANGED parserVars
    BY <2>11, NothingChanged DEF parserVars
  <2>. QED BY <2>1, <2>2, <2>3, <2>4, <2>5, <2>6, <2>7, <2>8, <2>9, <2>10, <2>11 DEF ParserNext
<1>. QED BY <1>1, <1>2, PTL DEF ParserSpec

\* Every position of the queue gives the byte of the payload that stands there, found
\* from the cached place or from the head: consume, which drops the place and the
\* chunks before the head, and push lose no byte and repeat none.
THEOREM QueueIsTheRest == ParserSpec => []QueueHoldsTheRest
<1>1. IInv => QueueHoldsTheRest
  <2>. SUFFICES ASSUME IInv PROVE QueueHoldsTheRest
    OBVIOUS
  <2>. DEFINE q == Root.queue
  <2>. DEFINE s == SubSeq(text, sent.bytes - q.length + 1, sent.bytes)
  <2>1. Represents(q, s)
    BY DEF IInv, Unread
  <2>2. /\ q.length \in Nat /\ Len(s) = q.length /\ sent.bytes \in Nat
        /\ \A k \in 1..q.length : s[k] = text[sent.bytes - q.length + k]
    <3>1. text \in Seq(Word) /\ sent.bytes \in 0..Len(text) /\ Unread(q, text, sent.bytes)
      BY RootIs
    <3>2. sent.bytes \in Nat
      BY <3>1
    <3>. HIDE DEF q
    <3>. QED BY <3>1, <3>2, UnreadPart
  <2>. HIDE DEF q, s
  <2>3. ASSUME NEW pos \in 0..(q.length - 1)
        PROVE  ByteAt(q, pos) = text[sent.bytes - q.length + pos + 1]
    <3>1. pos \in 0..(Len(s) - 1) /\ pos + 1 \in 1..q.length
          /\ sent.bytes - q.length + (pos + 1) = sent.bytes - q.length + pos + 1
      <4>1. q.length \in Nat /\ Len(s) = q.length /\ sent.bytes \in Nat
        BY <2>2
      <4>. QED BY <4>1
    <3>2. ByteAt(q, pos) = s[pos + 1]
      BY <2>1, <3>1, ByteAtReads
    <3>. QED BY <2>2, <3>1, <3>2
  <2>. QED BY <2>3 DEF QueueHoldsTheRest, q
<1>. QED BY <1>1, Invariance, PTL

-----------------------------------------------------------------------------
\* The queue of chunks implements a sequence of bytes: a queue that represents s
\* reads, compares, searches and copies as s does, and consuming and pushing drop
\* the first bytes of s and append to it.
THEOREM QueueImplementsSequence ==
    ASSUME NEW q, NEW s, Represents(q, s)
    PROVE  /\ q.length = Len(s)
           /\ \A n \in 0..(Len(s) - 1) : ByteAt(q, n) = s[n + 1] /\ Represents(Remember(q, n), s)
           /\ \A n \in 0..Len(s) : Slice(q, n) = SubSeq(s, 1, n)
           /\ \A x \in Seq(Word), n \in Nat :
                 StartsWith(q, x, n) <=> n + Len(x) <= Len(s) /\ Stands(x, s, n)
           /\ \A x \in Seq(Word) :
                 IF \E j \in 0..(Len(s) - Len(x)) : Stands(x, s, j)
                 THEN /\ IndexOf(q, x) \in 0..(Len(s) - Len(x)) /\ Stands(x, s, IndexOf(q, x))
                      /\ \A j \in 0..(IndexOf(q, x) - 1) : ~Stands(x, s, j)
                 ELSE IndexOf(q, x) = NotFound
           /\ \A n \in 0..Len(s) : Represents(Consume(q, n), SubSeq(s, n + 1, Len(s)))
           /\ \A c \in Seq(Word) : Represents(Push(q, c), s \o c)
<1>1. q.length = Len(s) /\ Len(s) \in Nat
  BY DEF Represents
<1>2. \A n \in 0..(Len(s) - 1) : ByteAt(q, n) = s[n + 1] /\ Represents(Remember(q, n), s)
  BY ByteAtReads, RememberKeeps
<1>3. \A n \in 0..Len(s) : Slice(q, n) = SubSeq(s, 1, n)
  BY SliceReads
<1>4. ASSUME NEW x \in Seq(Word), NEW n \in Nat
      PROVE  StartsWith(q, x, n) <=> n + Len(x) <= Len(s) /\ Stands(x, s, n)
  <2>1. StartsWith(q, x, n) <=>
          n + Len(x) <= Len(s) /\ \A k \in 1..Len(x) : s[n + k] = x[k]
    BY StartsWithReads
  <2>. QED BY <2>1, Zenon DEF Stands
<1>5. ASSUME NEW x \in Seq(Word)
      PROVE  IF \E j \in 0..(Len(s) - Len(x)) : Stands(x, s, j)
             THEN /\ IndexOf(q, x) \in 0..(Len(s) - Len(x)) /\ Stands(x, s, IndexOf(q, x))
                  /\ \A j \in 0..(IndexOf(q, x) - 1) : ~Stands(x, s, j)
             ELSE IndexOf(q, x) = NotFound
  <2>. DEFINE i == IndexOf(q, x)
  <2>1. \/ i = NotFound /\ \A j \in 0..(Len(s) - Len(x)) : ~Stands(x, s, j)
        \/ /\ i \in 0..(Len(s) - Len(x)) /\ Stands(x, s, i)
           /\ \A j \in 0..(i - 1) : ~Stands(x, s, j)
    BY IndexOfFinds
  <2>. HIDE DEF i
  <2>2. IF \E j \in 0..(Len(s) - Len(x)) : Stands(x, s, j)
        THEN i \in 0..(Len(s) - Len(x)) /\ Stands(x, s, i) /\ \A j \in 0..(i - 1) : ~Stands(x, s, j)
        ELSE i = NotFound
    BY <2>1, Zenon
  <2>. QED BY <2>2 DEF i
<1>6. \A n \in 0..Len(s) : Represents(Consume(q, n), SubSeq(s, n + 1, Len(s)))
  BY ConsumeDrops
<1>7. \A c \in Seq(Word) : Represents(Push(q, c), s \o c)
  BY PushAppends
<1>. QED BY <1>1, <1>2, <1>3, <1>4, <1>5, <1>6, <1>7

-----------------------------------------------------------------------------
(* What a chunk decides, a later one does not undo.                        *)

\* Bytes that follow do not change where a text stands.
LEMMA StandsInFront ==
    ASSUME NEW s \in Seq(Word), NEW c \in Seq(Word), NEW T, NEW x \in Seq(T), NEW i \in Nat,
           i + Len(x) <= Len(s)
    PROVE  Stands(x, s \o c, i) <=> Stands(x, s, i)
<1>. DEFINE t == s \o c
<1>1. Len(s) \in Nat /\ Len(x) \in Nat
  OBVIOUS
<1>2. \A k \in 1..Len(s) : t[k] = s[k]
  OBVIOUS
<1>. HIDE DEF t
<1>3. ASSUME NEW k \in 1..Len(x)
      PROVE  t[i + k] = s[i + k]
  <2>1. i + k \in 1..Len(s)
    BY <1>1
  <2>. QED BY <1>2, <2>1
<1>4. Stands(x, t, i) <=> Stands(x, s, i)
  BY <1>3, Zenon DEF Stands
<1>. QED BY <1>4 DEF t

LEMMA LongerQueue ==
    ASSUME NEW q, NEW s, Represents(q, s), NEW c \in Seq(Word)
    PROVE  /\ s \in Seq(Word) /\ Len(s) \in Nat /\ q.length = Len(s)
           /\ Represents(Push(q, c), s \o c) /\ Push(q, c).length = Len(s \o c)
           /\ Len(s \o c) = Len(s) + Len(c) /\ Len(c) \in Nat
<1>1. s \in Seq(Word) /\ q.length = Len(s)
  BY DEF Represents
<1>2. Represents(Push(q, c), s \o c)
  BY PushAppends
<1>3. Push(q, c).length = Len(s \o c)
  BY <1>2 DEF Represents
<1>4. Len(s \o c) = Len(s) + Len(c) /\ Len(c) \in Nat /\ Len(s) \in Nat
  BY <1>1
<1>. QED BY <1>1, <1>2, <1>3, <1>4

LEMMA StartsWithStands ==
    ASSUME NEW q, NEW s, Represents(q, s), NEW T, NEW x \in Seq(T), NEW n \in Nat
    PROVE  StartsWith(q, x, n) <=> n + Len(x) <= Len(s) /\ Stands(x, s, n)
<1>1. StartsWith(q, x, n) <=>
        n + Len(x) <= Len(s) /\ \A k \in 1..Len(x) : s[n + k] = x[k]
  BY StartsWithReads
<1>. QED BY <1>1, Zenon DEF Stands

\* A text that the queue starts with, or that stands nowhere where it would fit, is as
\* it was when more bytes follow.
LEMMA StartsWithStable ==
    ASSUME NEW q, NEW s, Represents(q, s), NEW c \in Seq(Word), NEW T, NEW x \in Seq(T),
           NEW n \in Nat, n + Len(x) <= q.length
    PROVE  StartsWith(Push(q, c), x, n) <=> StartsWith(q, x, n)
<1>1. /\ s \in Seq(Word) /\ Len(s) \in Nat /\ q.length = Len(s)
      /\ Represents(Push(q, c), s \o c)
      /\ Len(s \o c) = Len(s) + Len(c) /\ Len(c) \in Nat /\ Len(x) \in Nat
  BY LongerQueue
<1>2. n + Len(x) <= Len(s) /\ n + Len(x) <= Len(s \o c)
  BY <1>1
<1>3. Stands(x, s \o c, n) <=> Stands(x, s, n)
  BY <1>1, <1>2, StandsInFront
<1>4. StartsWith(q, x, n) <=> Stands(x, s, n)
  BY <1>2, StartsWithStands
<1>5. StartsWith(Push(q, c), x, n) <=> Stands(x, s \o c, n)
  BY <1>1, <1>2, StartsWithStands
<1>. QED BY <1>3, <1>4, <1>5

LEMMA IndexOfStable ==
    ASSUME NEW q, NEW s, Represents(q, s), NEW c \in Seq(Word), NEW T, NEW x \in Seq(T),
           IndexOf(q, x) # NotFound
    PROVE  IndexOf(Push(q, c), x) = IndexOf(q, x)
<1>. DEFINE i == IndexOf(q, x)
<1>. DEFINE j == IndexOf(Push(q, c), x)
<1>. DEFINE t == s \o c
<1>1. /\ s \in Seq(Word) /\ Len(s) \in Nat /\ Represents(Push(q, c), t)
      /\ Len(t) = Len(s) + Len(c) /\ Len(c) \in Nat /\ Len(x) \in Nat
  BY LongerQueue
<1>2. /\ i \in 0..(Len(s) - Len(x)) /\ Stands(x, s, i)
      /\ \A k \in 0..(i - 1) : ~Stands(x, s, k)
  BY IndexOfFinds
<1>3. \/ j = NotFound /\ \A k \in 0..(Len(t) - Len(x)) : ~Stands(x, t, k)
      \/ /\ j \in 0..(Len(t) - Len(x)) /\ Stands(x, t, j)
         /\ \A k \in 0..(j - 1) : ~Stands(x, t, k)
  BY <1>1, IndexOfFinds
<1>4. \A k \in 0..i : Stands(x, t, k) <=> Stands(x, s, k)
  <2>1. ASSUME NEW k \in 0..i
        PROVE  Stands(x, t, k) <=> Stands(x, s, k)
    <3>1. k \in Nat /\ k + Len(x) <= Len(s)
      BY <1>1, <1>2
    <3>. QED BY <1>1, <3>1, StandsInFront
  <2>. QED BY <2>1
<1>. HIDE DEF i, j, t
<1>5. i \in Nat /\ i \in 0..i /\ i \in 0..(Len(t) - Len(x))
  BY <1>1, <1>2
<1>6. Stands(x, t, i)
  BY <1>2, <1>4, <1>5
<1>7. j \in 0..(Len(t) - Len(x)) /\ Stands(x, t, j) /\ \A k \in 0..(j - 1) : ~Stands(x, t, k)
  BY <1>3, <1>5, <1>6
<1>8. ~(i < j)
  <2>1. i < j => i \in 0..(j - 1)
    BY <1>5, <1>7
  <2>. QED BY <1>6, <1>7, <2>1
<1>9. ~(j < i)
  <2>1. j < i => j \in 0..(i - 1) /\ j \in 0..i
    BY <1>5, <1>7
  <2>. QED BY <1>2, <1>4, <1>7, <2>1
<1>10. j = i
  BY <1>5, <1>7, <1>8, <1>9
<1>. QED BY <1>10 DEF i, j

\* What has not been found where it would have fitted is found later only where it does
\* not fit yet.
LEMMA FoundLater ==
    ASSUME NEW q, NEW s, Represents(q, s), NEW c \in Seq(Word), NEW T, NEW x \in Seq(T),
           IndexOf(q, x) = NotFound, IndexOf(Push(q, c), x) # NotFound
    PROVE  /\ IndexOf(Push(q, c), x) \in Nat /\ IndexOf(Push(q, c), x) + Len(x) > Len(s)
           /\ Stands(x, s \o c, IndexOf(Push(q, c), x))
<1>. DEFINE j == IndexOf(Push(q, c), x)
<1>. DEFINE t == s \o c
<1>1. /\ s \in Seq(Word) /\ Len(s) \in Nat /\ Represents(Push(q, c), t)
      /\ Len(t) = Len(s) + Len(c) /\ Len(c) \in Nat /\ Len(x) \in Nat
  BY LongerQueue
<1>2. \A k \in 0..(Len(s) - Len(x)) : ~Stands(x, s, k)
  <2>. DEFINE i == IndexOf(q, x)
  <2>1. \/ i = NotFound /\ \A k \in 0..(Len(s) - Len(x)) : ~Stands(x, s, k)
        \/ i \in 0..(Len(s) - Len(x))
    BY IndexOfFinds
  <2>2. i = -1
    BY DEF NotFound
  <2>. HIDE DEF i
  <2>. QED BY <2>1, <2>2
<1>3. j \in 0..(Len(t) - Len(x)) /\ Stands(x, t, j)
  BY <1>1, IndexOfFinds
<1>. HIDE DEF j
<1>4. ASSUME j + Len(x) <= Len(s)
      PROVE  FALSE
  <2>1. j \in Nat /\ j \in 0..(Len(s) - Len(x))
    BY <1>1, <1>3, <1>4
  <2>2. Stands(x, t, j) <=> Stands(x, s, j)
    BY <1>1, <1>4, <2>1, StandsInFront
  <2>. QED BY <1>2, <1>3, <2>1, <2>2
<1>. HIDE DEF t
<1>5. j \in Nat /\ j + Len(x) > Len(s)
  BY <1>1, <1>3, <1>4
<1>. QED BY <1>3, <1>5 DEF j, t

\* findHeaderSeparatorInQueue: the end of the header lines is the first one.  No separator
\* that ends in bytes still to come lies before it, although the parser looks for two texts
\* of different lengths.
THEOREM SeparatorStands ==
    ASSUME NEW q, NEW s, Represents(q, s), NEW c \in Seq(Word), FirstSeparator(q) # NoBreak
    PROVE  FirstSeparator(Push(q, c)) = FirstSeparator(q)
<1>. DEFINE x == <<Cr, Lf, Cr, Lf>>
<1>. DEFINE y == <<Lf, Lf>>
<1>. DEFINE r == Push(q, c)
<1>. DEFINE t == s \o c
<1>. DEFINE xq == IndexOf(q, x)
<1>. DEFINE yq == IndexOf(q, y)
<1>. DEFINE xr == IndexOf(r, x)
<1>. DEFINE yr == IndexOf(r, y)
<1>1. /\ Len(s) \in Nat /\ Represents(r, t)
      /\ x \in Seq({Cr, Lf}) /\ Len(x) = 4 /\ y \in Seq({Cr, Lf}) /\ Len(y) = 2
  BY LongerQueue
<1>2. /\ FirstSeparator(q) = IF xq = NotFound /\ yq = NotFound THEN NoBreak
                             ELSE IF yq = NotFound \/ (xq # NotFound /\ xq <= yq)
                                  THEN [index |-> xq, length |-> 4]
                             ELSE [index |-> yq, length |-> 2]
      /\ FirstSeparator(r) = IF xr = NotFound /\ yr = NotFound THEN NoBreak
                             ELSE IF yr = NotFound \/ (xr # NotFound /\ xr <= yr)
                                  THEN [index |-> xr, length |-> 4]
                             ELSE [index |-> yr, length |-> 2]
  BY Zenon DEF FirstSeparator
<1>3. ASSUME NEW i, Stands(x, t, i)
      PROVE  t[i + 1] = Cr /\ t[i + 3] = Cr
  <2>1. 1 \in 1..Len(x) /\ 3 \in 1..Len(x) /\ x[1] = Cr /\ x[3] = Cr
    OBVIOUS
  <2>. HIDE DEF x, t
  <2>. QED BY <1>3, <2>1, Zenon DEF Stands
<1>4. ASSUME NEW i, Stands(y, t, i)
      PROVE  t[i + 1] = Lf /\ t[i + 2] = Lf
  <2>1. 1 \in 1..Len(y) /\ 2 \in 1..Len(y) /\ y[1] = Lf /\ y[2] = Lf
    OBVIOUS
  <2>. HIDE DEF y, t
  <2>. QED BY <1>4, <2>1, Zenon DEF Stands
<1>5. Cr # Lf
  BY DEF Cr, Lf
<1>. HIDE DEF x, y
<1>6. /\ xq # NotFound => xr = xq /\ xq \in Nat /\ xq + 4 <= Len(s)
      /\ yq # NotFound => yr = yq /\ yq \in Nat /\ yq + 2 <= Len(s) /\ Stands(y, t, yr)
  <2>1. xq # NotFound => xr = xq
    BY <1>1, IndexOfStable
  <2>2. yq # NotFound => yr = yq
    BY <1>1, IndexOfStable
  <2>3. xq # NotFound => xq \in Nat /\ xq + Len(x) <= Len(s)
    BY <1>1, FoundInside
  <2>4. yq # NotFound => yq \in Nat /\ yq + Len(y) <= Len(s)
    BY <1>1, FoundInside
  <2>5. yr # NotFound => Stands(y, t, yr)
    BY <1>1, IndexOfFinds
  <2>. HIDE DEF xq, yq, xr, yr
  <2>. QED BY <1>1, <2>1, <2>2, <2>3, <2>4, <2>5
<1>7. /\ xq = NotFound /\ xr # NotFound => xr \in Nat /\ xr + 4 > Len(s) /\ Stands(x, t, xr)
      /\ yq = NotFound /\ yr # NotFound => yr \in Nat /\ yr + 2 > Len(s)
  <2>1. xq = NotFound /\ xr # NotFound => xr \in Nat /\ xr + Len(x) > Len(s) /\ Stands(x, t, xr)
    BY <1>1, FoundLater
  <2>2. yq = NotFound /\ yr # NotFound => yr \in Nat /\ yr + Len(y) > Len(s)
    BY <1>1, FoundLater
  <2>. HIDE DEF xq, yq, xr, yr
  <2>. QED BY <1>1, <2>1, <2>2
<1>. HIDE DEF xq, yq, xr, yr, r, t
\* A blank line of CRLFs before its last LF is not a blank line of LFs.
<1>8. ASSUME yq # NotFound, xq = NotFound, xr # NotFound
      PROVE  xr > yr
  <2>1. /\ xr \in Nat /\ yr \in Nat /\ yr + 2 <= Len(s) /\ xr + 4 > Len(s)
        /\ Stands(x, t, xr) /\ Stands(y, t, yr)
    BY <1>6, <1>7, <1>8
  <2>2. t[xr + 1] = Cr /\ t[xr + 3] = Cr /\ t[yr + 1] = Lf /\ t[yr + 2] = Lf
    BY <1>3, <1>4, <2>1
  <2>3. xr + 1 # yr + 1 /\ xr + 3 # yr + 2
    BY <1>5, <2>2
  <2>. QED BY <1>1, <2>1, <2>3
<1>9. CASE xq = NotFound
  <2>1. yq # NotFound
    BY <1>2, <1>9
  <2>2. yr = yq /\ yr # NotFound /\ (xr = NotFound \/ xr > yr)
    BY <1>6, <1>8, <1>9, <2>1
  <2>3. xr = NotFound \/ (xr \in Nat /\ yr \in Nat)
    BY <1>6, <1>7, <1>9, <2>1
  <2>4. ~(xr # NotFound /\ xr <= yr)
    BY <2>2, <2>3
  <2>. QED BY <1>2, <1>9, <2>1, <2>2, <2>4 DEF r
<1>10. CASE xq # NotFound /\ yq # NotFound
  BY <1>2, <1>6, <1>10 DEF r
<1>11. CASE xq # NotFound /\ yq = NotFound
  <2>1. xr = xq /\ xq \in Nat /\ xq + 4 <= Len(s)
    BY <1>6, <1>11
  <2>2. yr = NotFound \/ xr <= yr
    BY <1>1, <1>7, <1>11, <2>1
  <2>. QED BY <1>2, <1>11, <2>1, <2>2 DEF r
<1>. QED BY <1>9, <1>10, <1>11

\* A boundary and its closing form, by the bytes: the closing one begins as the other does.
LEMMA ClosingIsMarker ==
    ASSUME NEW b, NEW s, NEW i
    PROVE  Stands(Closing(b), s, i) => Stands(Marker(b), s, i)
<1>. DEFINE m == Marker(b)
<1>. DEFINE d == <<Dash, Dash>>
<1>. DEFINE S == {Cr, Lf, Dash, b}
<1>1. m \in Seq(S) /\ Len(m) = 5 /\ Len(Closing(b)) = 7
  BY Lengths
<1>2. d \in Seq(S)
  OBVIOUS
<1>3. Closing(b) = m \o d
  BY DEF Closing
<1>. HIDE DEF m, d, S
<1>4. \A k \in 1..Len(m) : (m \o d)[k] = m[k]
  BY <1>1, <1>2
<1>5. \A k \in 1..5 : Closing(b)[k] = m[k] /\ k \in 1..7
  BY <1>1, <1>3, <1>4
<1>. HIDE DEF m
<1>6. (\A k \in 1..7 : s[i + k] = Closing(b)[k]) => \A k \in 1..5 : s[i + k] = m[k]
  BY <1>5, Zenon
<1>. QED BY <1>1, <1>6, Zenon DEF Stands, m

\* The next boundary is where the text of a boundary stands first; it is the closing one when
\* the dashes are there too.
LEMMA NextBoundaryIs ==
    ASSUME NEW q, NEW s, Represents(q, s)
    PROVE  LET b == Top.boundary
               i == IndexOf(q, Marker(b))
           IN /\ NextBoundary(q).index = i
              /\ NextBoundary(q).closing <=>
                   i # NotFound /\ i + 7 <= Len(s) /\ Stands(Closing(b), s, i)
              /\ NextBoundary(q) = [index |-> i, closing |-> NextBoundary(q).closing]
<1>. DEFINE b == Top.boundary
<1>. DEFINE S == {Cr, Lf, Dash, b}
<1>. DEFINE i == IndexOf(q, Marker(b))
<1>. DEFINE c == IndexOf(q, Closing(b))
<1>1. /\ Marker(b) \in Seq(S) /\ Len(Marker(b)) = 5
      /\ Closing(b) \in Seq(S) /\ Len(Closing(b)) = 7 /\ Len(s) \in Nat
  <2>1. Len(s) \in Nat
    BY DEF Represents
  <2>. HIDE DEF b
  <2>. QED BY <2>1, Lengths
<1>2. NextBoundary(q) = IF c # NotFound /\ c <= i THEN [index |-> c, closing |-> TRUE]
                        ELSE [index |-> i, closing |-> FALSE]
  BY Zenon DEF NextBoundary
<1>3. \/ c = NotFound /\ \A j \in 0..(Len(s) - 7) : ~Stands(Closing(b), s, j)
      \/ c \in 0..(Len(s) - 7) /\ Stands(Closing(b), s, c)
  <2>. HIDE DEF b, S
  <2>. QED BY <1>1, IndexOfFinds
<1>4. \/ i = NotFound /\ \A j \in 0..(Len(s) - 5) : ~Stands(Marker(b), s, j)
      \/ /\ i \in 0..(Len(s) - 5)
         /\ \A j \in 0..(i - 1) : ~Stands(Marker(b), s, j)
  <2>. HIDE DEF b, S
  <2>. QED BY <1>1, IndexOfFinds
<1>5. \A j : Stands(Closing(b), s, j) => Stands(Marker(b), s, j)
  BY ClosingIsMarker
<1>. HIDE DEF b, S, i, c
<1>6. NotFound = -1
  BY DEF NotFound
<1>7. CASE c = NotFound
  <2>1. NextBoundary(q) = [index |-> i, closing |-> FALSE]
    BY <1>2, <1>7
  <2>2. \A j \in 0..(Len(s) - 7) : ~Stands(Closing(b), s, j)
    BY <1>1, <1>3, <1>6, <1>7
  <2>3. ~(i # NotFound /\ i + 7 <= Len(s) /\ Stands(Closing(b), s, i))
    <3>1. i # NotFound /\ i + 7 <= Len(s) => i \in 0..(Len(s) - 7)
      BY <1>1, <1>4
    <3>. QED BY <2>2, <3>1
  <2>. QED BY <2>1, <2>3 DEF b, i
<1>8. CASE c # NotFound
  <2>1. c \in 0..(Len(s) - 7) /\ Stands(Closing(b), s, c) /\ Stands(Marker(b), s, c)
    BY <1>3, <1>5, <1>8
  <2>2. c \in 0..(Len(s) - 5)
    BY <1>1, <2>1
  <2>3. i # NotFound /\ i \in 0..(Len(s) - 5) /\ \A j \in 0..(i - 1) : ~Stands(Marker(b), s, j)
    BY <1>1, <1>4, <1>6, <2>1, <2>2
  <2>4. i <= c
    <3>1. c < i => c \in 0..(i - 1)
      BY <1>1, <2>1, <2>3
    <3>. QED BY <1>1, <2>1, <2>3, <3>1
  <2>5. CASE i = c
    <3>1. NextBoundary(q) = [index |-> i, closing |-> TRUE]
      BY <1>1, <1>2, <1>8, <2>1, <2>5
    <3>2. i + 7 <= Len(s) /\ Stands(Closing(b), s, i)
      BY <1>1, <2>1, <2>5
    <3>. QED BY <2>3, <3>1, <3>2 DEF b, i
  <2>6. CASE i < c
    <3>1. NextBoundary(q) = [index |-> i, closing |-> FALSE]
      <4>1. ~(c <= i)
        BY <1>1, <2>1, <2>3, <2>6
      <4>. QED BY <1>2, <4>1
    <3>2. ~(i + 7 <= Len(s) /\ Stands(Closing(b), s, i))
      <4>1. \A j \in 0..(c - 1) : ~Stands(Closing(b), s, j)
        <5>1. \/ c = NotFound
              \/ \A j \in 0..(c - 1) : ~Stands(Closing(b), s, j)
          BY <1>1, IndexOfFinds DEF c
        <5>. QED BY <1>8, <5>1
      <4>2. i \in 0..(c - 1)
        BY <1>1, <2>1, <2>3, <2>6
      <4>. QED BY <4>1, <4>2
    <3>. QED BY <3>1, <3>2 DEF b, i
  <2>7. i = c \/ i < c
    BY <1>1, <2>1, <2>3, <2>4
  <2>. QED BY <2>5, <2>6, <2>7
<1>. QED BY <1>7, <1>8

\* findNextBoundary: a boundary that has been found is the one a parser would find that
\* waited for more, unless it is the closing one and its dashes are cut off.
THEOREM NextBoundaryStands ==
    ASSUME NEW q, NEW s, Represents(q, s), NEW c \in Seq(Word),
           NextBoundary(q).index # NotFound,
           NextBoundary(q).index + Len(Closing(Top.boundary)) <= q.length
    PROVE  NextBoundary(Push(q, c)) = NextBoundary(q)
<1>. DEFINE b == Top.boundary
<1>. DEFINE S == {Cr, Lf, Dash, b}
<1>. DEFINE r == Push(q, c)
<1>. DEFINE t == s \o c
<1>. DEFINE i == IndexOf(q, Marker(b))
<1>. DEFINE j == IndexOf(r, Marker(b))
<1>1. /\ s \in Seq(Word) /\ Len(s) \in Nat /\ q.length = Len(s) /\ Represents(r, t)
      /\ Len(t) = Len(s) + Len(c) /\ Len(c) \in Nat
  BY LongerQueue
<1>2. /\ Marker(b) \in Seq(S) /\ Len(Marker(b)) = 5
      /\ Closing(b) \in Seq(S) /\ Len(Closing(b)) = 7
  <2>. HIDE DEF b
  <2>. QED BY Lengths
<1>3. /\ NextBoundary(q).index = i
      /\ NextBoundary(q).closing <=> i # NotFound /\ i + 7 <= Len(s) /\ Stands(Closing(b), s, i)
      /\ NextBoundary(q) = [index |-> i, closing |-> NextBoundary(q).closing]
  BY NextBoundaryIs
<1>4. /\ NextBoundary(r).index = j
      /\ NextBoundary(r).closing <=> j # NotFound /\ j + 7 <= Len(t) /\ Stands(Closing(b), t, j)
      /\ NextBoundary(r) = [index |-> j, closing |-> NextBoundary(r).closing]
  BY <1>1, NextBoundaryIs
<1>5. i # NotFound /\ i + 7 <= Len(s)
  BY <1>1, <1>2, <1>3
<1>6. j = i
  <2>. HIDE DEF b, S
  <2>. QED BY <1>2, <1>5, IndexOfStable
<1>7. i \in Nat
  <2>. HIDE DEF b, S
  <2>. QED BY <1>2, <1>5, FoundInside
<1>. HIDE DEF b, S, i, j, r, t
<1>8. Stands(Closing(b), t, i) <=> Stands(Closing(b), s, i)
  <2>1. i + Len(Closing(b)) <= Len(s)
    BY <1>2, <1>5
  <2>. QED BY <1>1, <1>2, <1>7, <2>1, StandsInFront DEF t
<1>9. j # NotFound /\ j + 7 <= Len(t)
  BY <1>1, <1>5, <1>6, <1>7
<1>10. NextBoundary(r).closing <=> NextBoundary(q).closing
  BY <1>3, <1>4, <1>5, <1>6, <1>8, <1>9, Zenon
<1>. DEFINE x == NextBoundary(q).closing
<1>. DEFINE y == NextBoundary(r).closing
<1>11. x \in BOOLEAN /\ y \in BOOLEAN
  BY DEF NextBoundary
<1>12. x = y
  <2>. HIDE DEF x, y
  <2>1. x <=> y
    BY <1>10 DEF x, y
  <2>. QED BY <1>11, <2>1
<1>. QED BY <1>3, <1>4, <1>6, <1>12 DEF r

\* Without its dashes the closing boundary is taken for another one: its place stands.
LEMMA NextBoundaryPlaceStands ==
    ASSUME NEW q, NEW s, Represents(q, s), NEW c \in Seq(Word), NextBoundary(q).index # NotFound
    PROVE  NextBoundary(Push(q, c)).index = NextBoundary(q).index
<1>. DEFINE b == Top.boundary
<1>. DEFINE S == {Cr, Lf, Dash, b}
<1>. DEFINE r == Push(q, c)
<1>1. Represents(r, s \o c)
  BY LongerQueue
<1>2. Marker(b) \in Seq(S)
  <2>. HIDE DEF b
  <2>. QED BY Lengths
<1>3. NextBoundary(q).index = IndexOf(q, Marker(b)) /\ NextBoundary(r).index = IndexOf(r, Marker(b))
  BY <1>1, NextBoundaryIs
<1>4. IndexOf(q, Marker(b)) # NotFound
  BY <1>3
<1>. HIDE DEF b, S
<1>5. IndexOf(Push(q, c), Marker(b)) = IndexOf(q, Marker(b))
  BY <1>2, <1>4, IndexOfStable
<1>. QED BY <1>3, <1>5 DEF r

\* enforceStreamingPartLimit: a part that is refused while it arrives, before its end is
\* there, is one that would be refused when it ends, because the bytes that may belong to
\* a boundary are left out of account.
THEOREM EarlyRefusalIsRight ==
    ASSUME NEW q, NEW s, Represents(q, s), NEW c \in Seq(Word), case \in Cases,
           NextBoundary(q).index = NotFound, PartTooLong(q),
           NextBoundary(Push(q, c)).index # NotFound
    PROVE  /\ NextBoundary(Push(q, c)).index \in 0..Len(s \o c)
           /\ Limited(case.limits.part, Len(Slice(Push(q, c), NextBoundary(Push(q, c)).index)))
<1>. DEFINE b == Top.boundary
<1>. DEFINE S == {Cr, Lf, Dash, b}
<1>. DEFINE r == Push(q, c)
<1>. DEFINE t == s \o c
<1>. DEFINE i == IndexOf(q, Marker(b))
<1>. DEFINE j == IndexOf(r, Marker(b))
<1>. DEFINE limit == case.limits.part
<1>1. /\ Len(s) \in Nat /\ q.length = Len(s) /\ Represents(r, t) /\ t \in Seq(Word)
      /\ Len(t) \in Nat
  <2>1. /\ Len(s) \in Nat /\ q.length = Len(s) /\ Represents(r, t)
    BY LongerQueue
  <2>. HIDE DEF t, r
  <2>. QED BY <2>1 DEF Represents
<1>2. /\ Marker(b) \in Seq(S) /\ Len(Marker(b)) = 5 /\ Len(Closing(b)) = 7
  <2>. HIDE DEF b
  <2>. QED BY Lengths
<1>3. NextBoundary(q).index = i /\ NextBoundary(r).index = j
  BY <1>1, NextBoundaryIs
<1>. HIDE DEF b, S, r, t
<1>4. j \in Nat /\ j + 5 > Len(s)
  <2>1. i = NotFound /\ j # NotFound
    BY <1>3 DEF r
  <2>2. j \in Nat /\ j + Len(Marker(b)) > Len(s)
    BY <1>2, <2>1, FoundLater DEF r
  <2>. HIDE DEF j
  <2>. QED BY <1>2, <2>2
<1>5. j + 5 <= Len(t)
  <2>1. j # NotFound
    BY <1>3 DEF r
  <2>2. j + Len(Marker(b)) <= Len(t)
    BY <1>1, <1>2, <2>1, FoundInside
  <2>. HIDE DEF j
  <2>. QED BY <1>2, <2>2
<1>. HIDE DEF j
<1>6. j \in 0..Len(t)
  BY <1>1, <1>4, <1>5
<1>7. Slice(r, j) = SubSeq(t, 1, j)
  BY <1>1, <1>6, SliceReads
<1>8. Len(Slice(r, j)) = j
  <2>1. 1 \in Nat /\ 1 <= 1 /\ 1 <= j + 1 /\ j <= Len(t) /\ j \in Nat /\ j - 1 + 1 = j
    BY <1>4, <1>6
  <2>2. Len(SubSeq(t, 1, j)) = j - 1 + 1
    BY <1>1, <2>1, PartOfASeq
  <2>. QED BY <1>7, <2>1, <2>2
<1>9. limit > 0 /\ Len(s) - 11 > limit
  <2>1. Headroom = 11
    BY <1>2 DEF Headroom, b
  <2>. QED BY <1>1, <2>1 DEF PartTooLong, Limited
<1>10. limit \in Nat
  BY CasesAssumption
<1>. HIDE DEF limit
<1>11. limit > 0 /\ j > limit
  BY <1>1, <1>4, <1>9, <1>10
<1>12. Limited(limit, Len(Slice(r, j)))
  BY <1>8, <1>11 DEF Limited
<1>. QED BY <1>3, <1>6, <1>12 DEF limit, r, t

LEMMA FirstBoundaryCases ==
    ASSUME NEW q
    PROVE  LET b == Prefix(Top.boundary)
           IN /\ FirstBoundary(q) = IF StartsWith(q, b, 0) THEN 3
                                    ELSE IF StartsWith(q, <<Cr, Lf>>, 0) /\ StartsWith(q, b, 2) THEN 5
                                    ELSE 0
              /\ b \in Seq({Dash, Top.boundary}) /\ Len(b) = 3 /\ b[1] = Dash
              /\ MayBeginWithBoundary(q) <=>
                   \/ q.length < 2
                   \/ StartsWith(q, <<Cr, Lf>>, 0) /\ q.length < 5
                   \/ q.length < 3 /\ ByteAt(q, 0) \in {Dash, Cr}
<1>. DEFINE b == Prefix(Top.boundary)
<1>1. b \in Seq({Dash, Top.boundary}) /\ Len(b) = 3
  BY Lengths
<1>2. b[1] = Dash
  BY DEF Prefix
<1>. HIDE DEF b
<1>3. FirstBoundary(q) = IF StartsWith(q, b, 0) THEN Len(b)
                         ELSE IF StartsWith(q, <<Cr, Lf>>, 0) /\ StartsWith(q, b, 2) THEN Len(b) + 2
                         ELSE 0
  BY DEF FirstBoundary, b
<1>4. MayBeginWithBoundary(q) <=>
        \/ q.length < 2
        \/ StartsWith(q, <<Cr, Lf>>, 0) /\ q.length < 2 + Len(b)
        \/ q.length < Len(b) /\ ByteAt(q, 0) \in {Dash, Cr}
  BY Zenon DEF MayBeginWithBoundary, b
<1>5. Len(b) + 2 = 5 /\ 2 + Len(b) = 5
  BY <1>1
<1>6. FirstBoundary(q) = IF StartsWith(q, b, 0) THEN 3
                         ELSE IF StartsWith(q, <<Cr, Lf>>, 0) /\ StartsWith(q, b, 2) THEN 5
                         ELSE 0
  BY <1>1, <1>3, <1>5
<1>7. MayBeginWithBoundary(q) <=>
        \/ q.length < 2
        \/ StartsWith(q, <<Cr, Lf>>, 0) /\ q.length < 5
        \/ q.length < 3 /\ ByteAt(q, 0) \in {Dash, Cr}
  BY <1>1, <1>4, <1>5, Zenon
<1>. QED BY <1>1, <1>2, <1>6, <1>7 DEF b

LEMMA StartsWithFirst ==
    ASSUME NEW q, NEW s, Represents(q, s), NEW T, NEW x \in Seq(T), Len(x) = 3,
           StartsWith(q, x, 0)
    PROVE  s[1] = x[1]
<1>1. PICK n \in Nat : n = 0
  OBVIOUS
<1>2. \A k \in 1..Len(x) : s[n + k] = x[k]
  <2>1. StartsWith(q, x, n)
    BY <1>1, Zenon
  <2>2. StartsWith(q, x, n) <=> n + Len(x) <= Len(s) /\ Stands(x, s, n)
    BY StartsWithStands, Zenon
  <2>. QED BY <2>1, <2>2, Zenon DEF Stands
<1>3. 1 \in 1..Len(x) /\ n + 1 = 1
  BY <1>1
<1>4. s[n + 1] = x[1]
  BY <1>2, <1>3, Zenon
<1>. QED BY <1>3, <1>4, Zenon

\* consumeAnchoredFirstBoundary: the first boundary is found, or a payload refused for
\* lack of one, only when no byte still to come would change that.
THEOREM FirstBoundaryStands ==
    ASSUME NEW q, NEW s, Represents(q, s), NEW c \in Seq(Word),
           FirstBoundary(q) > 0 \/ ~MayBeginWithBoundary(q)
    PROVE  FirstBoundary(Push(q, c)) = FirstBoundary(q)
<1>. DEFINE b == Prefix(Top.boundary)
<1>. DEFINE S == {Dash, Top.boundary}
<1>. DEFINE x == <<Cr, Lf>>
<1>. DEFINE r == Push(q, c)
<1>. DEFINE t == s \o c
<1>1. /\ s \in Seq(Word) /\ Len(s) \in Nat /\ q.length = Len(s) /\ Represents(r, t)
      /\ Len(t) = Len(s) + Len(c) /\ Len(c) \in Nat
  BY LongerQueue
<1>2. /\ FirstBoundary(q) = IF StartsWith(q, b, 0) THEN 3
                            ELSE IF StartsWith(q, x, 0) /\ StartsWith(q, b, 2) THEN 5 ELSE 0
      /\ FirstBoundary(r) = IF StartsWith(r, b, 0) THEN 3
                            ELSE IF StartsWith(r, x, 0) /\ StartsWith(r, b, 2) THEN 5 ELSE 0
      /\ b \in Seq(S) /\ Len(b) = 3 /\ b[1] = Dash
      /\ ~MayBeginWithBoundary(q) =>
            /\ ~(q.length < 2) /\ ~(StartsWith(q, x, 0) /\ q.length < 5)
            /\ ~(q.length < 3 /\ ByteAt(q, 0) \in {Dash, Cr})
  BY FirstBoundaryCases
<1>3. x \in Seq({Cr, Lf}) /\ Len(x) = 2
  OBVIOUS
<1>. HIDE DEF b, S, x
<1>4. /\ 3 <= q.length => (StartsWith(r, b, 0) <=> StartsWith(q, b, 0))
      /\ 5 <= q.length => (StartsWith(r, b, 2) <=> StartsWith(q, b, 2))
      /\ 2 <= q.length => (StartsWith(r, x, 0) <=> StartsWith(q, x, 0))
  <2>1. ASSUME 0 + Len(b) <= q.length PROVE StartsWith(r, b, 0) <=> StartsWith(q, b, 0)
    BY <1>2, <2>1, StartsWithStable
  <2>2. ASSUME 2 + Len(b) <= q.length PROVE StartsWith(r, b, 2) <=> StartsWith(q, b, 2)
    BY <1>2, <2>2, StartsWithStable
  <2>3. ASSUME 0 + Len(x) <= q.length PROVE StartsWith(r, x, 0) <=> StartsWith(q, x, 0)
    BY <1>3, <2>3, StartsWithStable
  <2>4. 0 + Len(b) = 3 /\ 2 + Len(b) = 5 /\ 0 + Len(x) = 2
    BY <1>2, <1>3
  <2>. QED BY <2>1, <2>2, <2>3, <2>4, Zenon
<1>5. CASE StartsWith(q, b, 0)
  <2>1. 3 <= q.length
    BY <1>2, <1>5 DEF StartsWith
  <2>. QED BY <1>2, <1>4, <1>5, <2>1 DEF r
<1>6. CASE ~StartsWith(q, b, 0) /\ StartsWith(q, x, 0) /\ StartsWith(q, b, 2)
  <2>1. 5 <= q.length
    BY <1>2, <1>6 DEF StartsWith
  <2>2. 3 <= q.length /\ 2 <= q.length
    BY <1>1, <2>1
  <2>. QED BY <1>2, <1>4, <1>6, <2>1, <2>2 DEF r
<1>7. CASE ~StartsWith(q, b, 0) /\ ~(StartsWith(q, x, 0) /\ StartsWith(q, b, 2))
  <2>1. FirstBoundary(q) = 0
    BY <1>2, <1>7
  <2>2. /\ ~(q.length < 2) /\ ~(StartsWith(q, x, 0) /\ q.length < 5)
        /\ ~(q.length < 3 /\ ByteAt(q, 0) \in {Dash, Cr})
    BY <1>2, <2>1
  <2>3. ~StartsWith(r, b, 0)
    <3>1. CASE 3 <= q.length
      BY <1>4, <1>7, <3>1
    <3>2. CASE ~(3 <= q.length)
      <4>1. q.length < 3 /\ 0 \in 0..(Len(s) - 1) /\ 1 \in 1..Len(s)
        BY <1>1, <2>2, <3>2
      <4>2. ByteAt(q, 0) = s[1]
        <5>1. ByteAt(q, 0) = s[0 + 1]
          BY <4>1, ByteAtReads
        <5>. QED BY <5>1
      <4>3. t[1] = s[1]
        BY <1>1, <4>1
      <4>4. ASSUME StartsWith(r, b, 0) PROVE FALSE
        <5>1. Represents(r, t)
          BY <1>1
        <5>2. b \in Seq(S) /\ Len(b) = 3
          BY <1>2
        <5>3. b[1] = Dash
          BY <1>2
        <5>4. t[1] = b[1]
          <6>. HIDE DEF r, t
          <6>. QED BY <4>4, <5>1, <5>2, StartsWithFirst
        <5>5. ByteAt(q, 0) = Dash
          <6>. HIDE DEF r, t
          <6>. QED BY <4>2, <4>3, <5>3, <5>4, Zenon
        <5>6. ~(q.length < 3 /\ ByteAt(q, 0) \in {Dash, Cr}) /\ q.length < 3
          BY <2>2, <4>1
        <5>. QED BY <5>5, <5>6, Zenon
      <4>. QED BY <4>4
    <3>. QED BY <3>1, <3>2
  <2>4. ~(StartsWith(r, x, 0) /\ StartsWith(r, b, 2))
    <3>1. 2 <= q.length
      BY <1>1, <2>2
    <3>2. CASE 5 <= q.length
      BY <1>4, <1>7, <3>1, <3>2
    <3>3. CASE ~(5 <= q.length)
      <4>1. q.length < 5
        BY <1>1, <3>3
      <4>. QED BY <1>4, <2>2, <3>1, <4>1
    <3>. QED BY <3>2, <3>3
  <2>. QED BY <1>2, <2>1, <2>3, <2>4 DEF r
<1>. QED BY <1>5, <1>6, <1>7

-----------------------------------------------------------------------------
(* A step of the parser and the arrival of a chunk commute.                *)

\* The queue r is the queue q after the chunk c, and perhaps laid out otherwise.
Ahead(q, r, c) == \E s : Represents(q, s) /\ Represents(r, s \o c)

\* What a queue answers depends on the bytes it stands for only.
LEMMA SameBytes ==
    ASSUME NEW q, NEW r, NEW s, Represents(q, s), Represents(r, s), NEW T, NEW x \in Seq(T)
    PROVE  IndexOf(q, x) = IndexOf(r, x)
<1>. DEFINE i == IndexOf(q, x)
<1>. DEFINE j == IndexOf(r, x)
<1>1. \/ i = NotFound /\ \A k \in 0..(Len(s) - Len(x)) : ~Stands(x, s, k)
      \/ i \in 0..(Len(s) - Len(x)) /\ Stands(x, s, i) /\ \A k \in 0..(i - 1) : ~Stands(x, s, k)
  BY IndexOfFinds
<1>2. \/ j = NotFound /\ \A k \in 0..(Len(s) - Len(x)) : ~Stands(x, s, k)
      \/ j \in 0..(Len(s) - Len(x)) /\ Stands(x, s, j) /\ \A k \in 0..(j - 1) : ~Stands(x, s, k)
  BY IndexOfFinds
<1>3. Len(s) \in Nat /\ Len(x) \in Nat
  BY DEF Represents
<1>. HIDE DEF i, j
<1>4. ASSUME i = NotFound \/ j = NotFound PROVE i = j
  <2>1. NotFound \notin 0..(Len(s) - Len(x))
    BY <1>3 DEF NotFound
  <2>. QED BY <1>1, <1>2, <1>4, <2>1, Zenon
<1>5. ASSUME i # NotFound, j # NotFound PROVE i = j
  <2>1. i \in 0..(Len(s) - Len(x)) /\ j \in 0..(Len(s) - Len(x))
    BY <1>1, <1>2, <1>5, Zenon
  <2>2. i < j => i \in 0..(j - 1)
    BY <1>3, <2>1
  <2>3. j < i => j \in 0..(i - 1)
    BY <1>3, <2>1
  <2>4. ~(i < j) /\ ~(j < i)
    BY <1>1, <1>2, <1>5, <2>2, <2>3, Zenon
  <2>. QED BY <1>3, <2>1, <2>4
<1>. QED BY <1>4, <1>5 DEF i, j

LEMMA SameStart ==
    ASSUME NEW q, NEW r, NEW s, Represents(q, s), Represents(r, s), NEW T, NEW x \in Seq(T),
           NEW n \in Nat
    PROVE  StartsWith(q, x, n) <=> StartsWith(r, x, n)
<1>1. StartsWith(q, x, n) <=> n + Len(x) <= Len(s) /\ Stands(x, s, n)
  BY StartsWithStands, Zenon
<1>2. StartsWith(r, x, n) <=> n + Len(x) <= Len(s) /\ Stands(x, s, n)
  BY StartsWithStands, Zenon
<1>. QED BY <1>1, <1>2, Zenon

LEMMA SameDecisions ==
    ASSUME NEW q, NEW r, NEW s, Represents(q, s), Represents(r, s)
    PROVE  /\ FirstBoundary(q) = FirstBoundary(r)
           /\ FirstSeparator(q) = FirstSeparator(r)
           /\ NextBoundary(q) = NextBoundary(r)
<1>. DEFINE b == Top.boundary
<1>. DEFINE x == <<Cr, Lf>>
<1>. DEFINE y == <<Cr, Lf, Cr, Lf>>
<1>. DEFINE z == <<Lf, Lf>>
<1>1. /\ Prefix(b) \in Seq({Dash, b}) /\ Marker(b) \in Seq({Cr, Lf, Dash, b})
      /\ Closing(b) \in Seq({Cr, Lf, Dash, b})
  BY Lengths
<1>2. x \in Seq({Cr, Lf}) /\ y \in Seq({Cr, Lf}) /\ z \in Seq({Cr, Lf}) /\ 0 \in Nat /\ 2 \in Nat
  OBVIOUS
<1>. HIDE DEF b, x, y, z
<1>3. /\ StartsWith(q, Prefix(b), 0) <=> StartsWith(r, Prefix(b), 0)
      /\ StartsWith(q, Prefix(b), 2) <=> StartsWith(r, Prefix(b), 2)
      /\ StartsWith(q, x, 0) <=> StartsWith(r, x, 0)
  BY <1>1, <1>2, SameStart
<1>4. FirstBoundary(q) = FirstBoundary(r)
  BY <1>3 DEF FirstBoundary, b, x
<1>5. IndexOf(q, y) = IndexOf(r, y) /\ IndexOf(q, z) = IndexOf(r, z)
  BY <1>2, SameBytes
<1>6. FirstSeparator(q) = FirstSeparator(r)
  BY <1>5, Zenon DEF FirstSeparator, y, z
<1>7. IndexOf(q, Closing(b)) = IndexOf(r, Closing(b)) /\ IndexOf(q, Marker(b)) = IndexOf(r, Marker(b))
  BY <1>1, SameBytes
<1>8. NextBoundary(q) = NextBoundary(r)
  BY <1>7, Zenon DEF NextBoundary, b
<1>. QED BY <1>4, <1>6, <1>8

\* The bytes that are read, and the bytes that are left, with a chunk behind them.
LEMMA FrontOfBoth ==
    ASSUME NEW s \in Seq(Word), NEW c \in Seq(Word), NEW n \in 0..Len(s)
    PROVE  SubSeq(s \o c, 1, n) = SubSeq(s, 1, n)
<1>. DEFINE t == s \o c
<1>1. t \in Seq(Word) /\ Len(t) = Len(s) + Len(c) /\ \A k \in 1..Len(s) : t[k] = s[k]
  OBVIOUS
<1>2. n \in Nat /\ 1 <= n + 1 /\ n <= Len(s) /\ n <= Len(t) /\ n - 1 + 1 = n /\ 1 \in Nat /\ 1 <= 1
      /\ Len(s) \in Nat
  BY <1>1
<1>. HIDE DEF t
<1>3. SubSeq(s, 1, n) \in Seq(Word) /\ Len(SubSeq(s, 1, n)) = n - 1 + 1
      /\ \A k \in 1..(n - 1 + 1) : SubSeq(s, 1, n)[k] = s[1 + k - 1]
  BY <1>2, PartOfASeq
<1>4. SubSeq(t, 1, n) \in Seq(Word) /\ Len(SubSeq(t, 1, n)) = n - 1 + 1
      /\ \A k \in 1..(n - 1 + 1) : SubSeq(t, 1, n)[k] = t[1 + k - 1]
  BY <1>1, <1>2, PartOfASeq
<1>5. \A k \in 1..n : 1 + k - 1 = k /\ k \in 1..Len(s)
  BY <1>2
<1>. DEFINE a == SubSeq(s, 1, n)
<1>. DEFINE e == SubSeq(t, 1, n)
<1>6. \A k \in 1..n : a[k] = e[k]
  BY <1>1, <1>2, <1>3, <1>4, <1>5
<1>7. a \in Seq(Word) /\ e \in Seq(Word) /\ Len(a) = n /\ Len(e) = n
  BY <1>2, <1>3, <1>4
<1>. HIDE DEF a, e
<1>8. a = e
  BY <1>6, <1>7, SeqEqual
<1>. QED BY <1>8 DEF a, e, t

LEMMA RestOfBoth ==
    ASSUME NEW s \in Seq(Word), NEW c \in Seq(Word), NEW n \in 0..Len(s)
    PROVE  SubSeq(s \o c, n + 1, Len(s \o c)) = SubSeq(s, n + 1, Len(s)) \o c
<1>. DEFINE t == s \o c
<1>. DEFINE l == Len(s)
<1>. DEFINE m == Len(t)
<1>. DEFINE d == Len(c)
<1>1. /\ t \in Seq(Word) /\ m = l + d /\ l \in Nat /\ d \in Nat /\ m \in Nat
      /\ \A k \in 1..l : t[k] = s[k]
      /\ \A k \in 1..d : t[l + k] = c[k]
  OBVIOUS
<1>2. n \in Nat /\ n + 1 \in Nat /\ 1 <= n + 1 /\ n + 1 <= l + 1 /\ n + 1 <= m + 1
      /\ l - (n + 1) + 1 = l - n /\ m - (n + 1) + 1 = m - n /\ l <= Len(s) /\ m <= Len(t)
  BY <1>1
<1>. DEFINE u == SubSeq(s, n + 1, l)
<1>. DEFINE v == SubSeq(t, n + 1, m)
<1>. HIDE DEF t, l, m, d
<1>3. u \in Seq(Word) /\ Len(u) = l - (n + 1) + 1
      /\ \A k \in 1..(l - (n + 1) + 1) : u[k] = s[(n + 1) + k - 1]
  BY <1>1, <1>2, PartOfASeq
<1>4. v \in Seq(Word) /\ Len(v) = m - (n + 1) + 1
      /\ \A k \in 1..(m - (n + 1) + 1) : v[k] = t[(n + 1) + k - 1]
  BY <1>1, <1>2, PartOfASeq
<1>5. u \in Seq(Word) /\ Len(u) = l - n /\ v \in Seq(Word) /\ Len(v) = m - n
  BY <1>2, <1>3, <1>4
<1>. HIDE DEF u, v
<1>. DEFINE w == u \o c
<1>6. w \in Seq(Word) /\ Len(w) = Len(u) + d /\ (\A k \in 1..Len(u) : w[k] = u[k])
      /\ \A k \in 1..d : w[Len(u) + k] = c[k]
  BY <1>5 DEF d
<1>7. Len(w) = m - n /\ n <= l
  BY <1>1, <1>2, <1>5, <1>6
<1>. HIDE DEF w
<1>8. ASSUME NEW k \in 1..(m - n)
      PROVE  v[k] = w[k]
  <2>1. k \in 1..(m - (n + 1) + 1) /\ (n + 1) + k - 1 = n + k
    BY <1>1, <1>2
  <2>2. v[k] = t[n + k]
    BY <1>4, <2>1
  <2>3. CASE k <= l - n
    <3>1. k \in 1..(l - (n + 1) + 1) /\ k \in 1..Len(u) /\ n + k \in 1..l
      BY <1>1, <1>2, <1>5, <2>3
    <3>2. u[k] = s[n + k]
      BY <1>3, <2>1, <3>1
    <3>3. w[k] = u[k] /\ t[n + k] = s[n + k]
      BY <1>1, <1>6, <3>1
    <3>. QED BY <2>2, <3>2, <3>3
  <2>4. CASE ~(k <= l - n)
    <3>. DEFINE i == k - (l - n)
    <3>1. i \in 1..d /\ l + i = n + k /\ Len(u) + i = k
      BY <1>1, <1>2, <1>5, <1>7, <2>4
    <3>. HIDE DEF i
    <3>2. t[l + i] = c[i] /\ w[Len(u) + i] = c[i]
      BY <1>1, <1>6, <3>1
    <3>. QED BY <2>2, <3>1, <3>2
  <2>. QED BY <2>3, <2>4
<1>9. v = w
  BY <1>5, <1>6, <1>7, <1>8, SeqEqual
<1>. QED BY <1>9 DEF v, w, u, t, l, m

LEMMA AheadConsumed ==
    ASSUME NEW q, NEW r, NEW s, NEW c \in Seq(Word), Represents(q, s), Represents(r, s \o c),
           NEW n \in 0..Len(s)
    PROVE  /\ Slice(r, n) = Slice(q, n)
           /\ \E u : /\ Represents(Consume(q, n), u) /\ Represents(Consume(r, n), u \o c)
                     /\ u \in Seq(Word) /\ Len(u) = Len(s) - n
<1>. DEFINE t == s \o c
<1>. DEFINE u == SubSeq(s, n + 1, Len(s))
<1>1. s \in Seq(Word) /\ Len(s) \in Nat /\ Len(t) = Len(s) + Len(c) /\ Len(c) \in Nat
  BY DEF Represents
<1>2. n \in 0..Len(t)
  BY <1>1
<1>3. Slice(r, n) = SubSeq(t, 1, n) /\ Slice(q, n) = SubSeq(s, 1, n)
  <2>. HIDE DEF t
  <2>1. Represents(r, t)
    BY DEF t
  <2>. QED BY <1>2, <2>1, SliceReads
<1>4. Slice(r, n) = Slice(q, n)
  BY <1>1, <1>3, FrontOfBoth
<1>5. Represents(Consume(q, n), u)
  BY ConsumeDrops
<1>6. Represents(Consume(r, n), SubSeq(t, n + 1, Len(t)))
  <2>. HIDE DEF t
  <2>1. Represents(r, t)
    BY DEF t
  <2>. QED BY <1>2, <2>1, ConsumeDrops
<1>7. SubSeq(t, n + 1, Len(t)) = u \o c
  BY <1>1, RestOfBoth
<1>8. u \in Seq(Word) /\ Len(u) = Len(s) - n
  <2>1. n + 1 \in Nat /\ 1 <= n + 1 /\ n + 1 <= Len(s) + 1 /\ Len(s) <= Len(s)
        /\ Len(s) - (n + 1) + 1 = Len(s) - n
    BY <1>1
  <2>2. u \in Seq(Word) /\ Len(u) = Len(s) - (n + 1) + 1
    BY <1>1, <2>1, PartOfASeq
  <2>. QED BY <2>1, <2>2
<1>. HIDE DEF t, u
<1>. QED BY <1>4, <1>5, <1>6, <1>7, <1>8

LEMMA AheadStarts ==
    ASSUME NEW q, NEW r, NEW s, NEW c \in Seq(Word), Represents(q, s), Represents(r, s \o c),
           NEW T, NEW x \in Seq(T), NEW n \in Nat, n + Len(x) <= Len(s)
    PROVE  StartsWith(r, x, n) <=> StartsWith(q, x, n)
<1>1. q.length = Len(s) /\ Represents(Push(q, c), s \o c)
  BY LongerQueue
<1>2. StartsWith(Push(q, c), x, n) <=> StartsWith(q, x, n)
  BY <1>1, StartsWithStable
<1>3. StartsWith(Push(q, c), x, n) <=> StartsWith(r, x, n)
  BY <1>1, SameStart
<1>. QED BY <1>2, <1>3

\* The line break behind a boundary, once it has arrived.
LEMMA AheadBehindMarker ==
    ASSUME NEW q, NEW r, NEW s, NEW c \in Seq(Word), Represents(q, s), Represents(r, s \o c),
           2 <= Len(s)
    PROVE  Ahead(AfterMarker(q), AfterMarker(r), c)
<1>. DEFINE x == <<Cr, Lf>>
<1>1. x \in Seq({Cr, Lf}) /\ Len(x) = 2
  OBVIOUS
<1>2. AfterMarker(q) = (IF StartsWith(q, x, 0) THEN Consume(q, 2) ELSE q)
      /\ AfterMarker(r) = (IF StartsWith(r, x, 0) THEN Consume(r, 2) ELSE r)
  BY DEF AfterMarker, Skipping
<1>. HIDE DEF x
<1>3. 2 \in 0..Len(s) /\ Len(s) \in Nat /\ 0 + Len(x) <= Len(s) /\ 0 \in Nat
  BY <1>1 DEF Represents
<1>4. StartsWith(r, x, 0) <=> StartsWith(q, x, 0)
  BY <1>1, <1>3, AheadStarts
<1>5. Ahead(Consume(q, 2), Consume(r, 2), c)
  BY <1>3, AheadConsumed DEF Ahead
<1>6. Ahead(q, r, c)
  BY DEF Ahead
<1>. QED BY <1>2, <1>4, <1>5, <1>6

\* FirstBoundaryFound: what is done on the bytes that have arrived, a chunk that follows
\* changes nothing of, provided it does not cut off the two bytes behind the boundary.
THEOREM StartCommutes ==
    ASSUME NEW q, NEW r, NEW c \in Seq(Word), Ahead(q, r, c),
           FirstBoundary(q) > 0, FirstBoundary(q) + 2 <= q.length
    PROVE  LET n == FirstBoundary(q)
               Empty(x) == StartsWith(Consume(x, n), <<Dash, Dash>>, 0)
           IN /\ FirstBoundary(r) = n
              /\ Empty(r) <=> Empty(q)
              /\ Ahead(Consume(Consume(q, n), 2), Consume(Consume(r, n), 2), c)
              /\ Ahead(AfterMarker(Consume(q, n)), AfterMarker(Consume(r, n)), c)
<1>. DEFINE n == FirstBoundary(q)
<1>. DEFINE y == <<Dash, Dash>>
<1>1. PICK s : Represents(q, s) /\ Represents(r, s \o c)
  BY DEF Ahead
<1>2. q.length = Len(s) /\ Len(s) \in Nat /\ Represents(Push(q, c), s \o c)
  BY <1>1, LongerQueue
<1>3. FirstBoundary(r) = n
  <2>1. FirstBoundary(Push(q, c)) = n
    BY <1>1, FirstBoundaryStands
  <2>2. FirstBoundary(Push(q, c)) = FirstBoundary(r)
    BY <1>1, <1>2, SameDecisions
  <2>. QED BY <2>1, <2>2
<1>4. n \in 0..Len(s) /\ n + 2 <= Len(s)
  BY <1>2, FirstBoundaryInside
<1>5. y \in Seq({Dash}) /\ Len(y) = 2
  OBVIOUS
<1>. HIDE DEF n, y
<1>6. PICK u : /\ Represents(Consume(q, n), u) /\ Represents(Consume(r, n), u \o c)
               /\ u \in Seq(Word) /\ Len(u) = Len(s) - n
  BY <1>1, <1>4, AheadConsumed
<1>7. Len(u) \in Nat /\ 2 <= Len(u) /\ 2 \in 0..Len(u) /\ 0 + Len(y) <= Len(u) /\ 0 \in Nat
  BY <1>2, <1>4, <1>5, <1>6
<1>8. StartsWith(Consume(r, n), y, 0) <=> StartsWith(Consume(q, n), y, 0)
  BY <1>5, <1>6, <1>7, AheadStarts
<1>9. Ahead(Consume(Consume(q, n), 2), Consume(Consume(r, n), 2), c)
  BY <1>6, <1>7, AheadConsumed DEF Ahead
<1>10. Ahead(AfterMarker(Consume(q, n)), AfterMarker(Consume(r, n)), c)
  BY <1>6, <1>7, AheadBehindMarker
<1>. QED BY <1>3, <1>8, <1>9, <1>10 DEF n, y

\* HeadersRead: the headers of a part are the same, and so is what is left, if the chunk
\* comes after they have been read or before.
THEOREM HeadersCommute ==
    ASSUME NEW q, NEW r, NEW c \in Seq(Word), Ahead(q, r, c), FirstSeparator(q) # NoBreak
    PROVE  LET h == FirstSeparator(q)
           IN /\ FirstSeparator(r) = h
              /\ Slice(r, h.index) = Slice(q, h.index)
              /\ Ahead(Consume(q, h.index + h.length), Consume(r, h.index + h.length), c)
<1>. DEFINE h == FirstSeparator(q)
<1>1. PICK s : Represents(q, s) /\ Represents(r, s \o c)
  BY DEF Ahead
<1>2. Len(s) \in Nat /\ Represents(Push(q, c), s \o c)
  BY <1>1, LongerQueue
<1>3. FirstSeparator(r) = h
  <2>1. FirstSeparator(Push(q, c)) = h
    BY <1>1, SeparatorStands
  <2>2. FirstSeparator(Push(q, c)) = FirstSeparator(r)
    BY <1>1, <1>2, SameDecisions
  <2>. QED BY <2>1, <2>2
<1>4. h.index + h.length \in 0..Len(s)
  BY <1>1, SeparatorInside
<1>5. h.index \in 0..Len(s)
  <2>. DEFINE x == <<Cr, Lf, Cr, Lf>>
  <2>. DEFINE y == <<Lf, Lf>>
  <2>1. \/ h = [index |-> IndexOf(q, x), length |-> 4] /\ IndexOf(q, x) # NotFound
        \/ h = [index |-> IndexOf(q, y), length |-> 2] /\ IndexOf(q, y) # NotFound
    BY Zenon DEF FirstSeparator
  <2>2. x \in Seq({Cr, Lf}) /\ y \in Seq({Cr, Lf})
    OBVIOUS
  <2>. HIDE DEF h, x, y
  <2>3. h.index \in Nat
    <3>1. IndexOf(q, x) # NotFound => IndexOf(q, x) \in Nat
      BY <1>1, <2>2, FoundInside
    <3>2. IndexOf(q, y) # NotFound => IndexOf(q, y) \in Nat
      BY <1>1, <2>2, FoundInside
    <3>. QED BY <2>1, <3>1, <3>2
  <2>4. h.length \in Nat
    BY <2>1
  <2>. QED BY <1>2, <1>4, <2>3, <2>4
<1>. HIDE DEF h
<1>6. Slice(r, h.index) = Slice(q, h.index)
  BY <1>1, <1>5, AheadConsumed
<1>7. Ahead(Consume(q, h.index + h.length), Consume(r, h.index + h.length), c)
  BY <1>1, <1>4, AheadConsumed DEF Ahead
<1>. QED BY <1>3, <1>6, <1>7 DEF h

\* PartRead: the part that ends at a boundary is the same, and so is what is left behind the
\* boundary, if the chunk comes after it has been read or before, provided the two bytes
\* behind the boundary have arrived.
THEOREM PartCommutes ==
    ASSUME NEW q, NEW r, NEW c \in Seq(Word), Ahead(q, r, c), NextBoundary(q).index # NotFound,
           NextBoundary(q).index + Len(Closing(Top.boundary)) <= q.length
    PROVE  LET next == NextBoundary(q)
               n    == next.index + Len(Marker(Top.boundary))
           IN /\ NextBoundary(r) = next
              /\ Slice(r, next.index) = Slice(q, next.index)
              /\ Ahead(AfterMarker(Consume(q, n)), AfterMarker(Consume(r, n)), c)
<1>. DEFINE next == NextBoundary(q)
<1>. DEFINE n == next.index + Len(Marker(Top.boundary))
<1>1. PICK s : Represents(q, s) /\ Represents(r, s \o c)
  BY DEF Ahead
<1>2. q.length = Len(s) /\ Len(s) \in Nat /\ Represents(Push(q, c), s \o c)
  BY <1>1, LongerQueue
<1>3. NextBoundary(r) = next
  <2>1. NextBoundary(Push(q, c)) = next
    BY <1>1, NextBoundaryStands
  <2>2. NextBoundary(Push(q, c)) = NextBoundary(r)
    BY <1>1, <1>2, SameDecisions
  <2>. QED BY <2>1, <2>2
<1>4. /\ Len(Closing(Top.boundary)) = 7 /\ Len(Marker(Top.boundary)) = 5
      /\ Marker(Top.boundary) \in Seq({Cr, Lf, Dash, Top.boundary})
  BY Lengths
<1>5. next.index = IndexOf(q, Marker(Top.boundary))
  BY <1>1, NextBoundaryIs
<1>6. next.index \in Nat
  BY <1>1, <1>4, <1>5, FoundInside
<1>. HIDE DEF next
<1>7. next.index + 7 <= Len(s)
  BY <1>2, <1>4 DEF next
<1>8. n = next.index + 5
  BY <1>4
<1>. HIDE DEF n
<1>9. next.index \in 0..Len(s) /\ n \in 0..Len(s) /\ 2 <= Len(s) - n
  BY <1>2, <1>6, <1>7, <1>8
<1>10. Slice(r, next.index) = Slice(q, next.index)
  BY <1>1, <1>9, AheadConsumed
<1>11. PICK u : /\ Represents(Consume(q, n), u) /\ Represents(Consume(r, n), u \o c)
                /\ Len(u) = Len(s) - n
  BY <1>1, <1>9, AheadConsumed
<1>12. Ahead(AfterMarker(Consume(q, n)), AfterMarker(Consume(r, n)), c)
  BY <1>9, <1>11, AheadBehindMarker
<1>. QED BY <1>3, <1>10, <1>12 DEF next, n

LEMMA TwoParts ==
    ASSUME NEW x \in Seq(Word), NEW a \in Nat, NEW n \in 0..Len(x), 1 <= a, a <= n + 1
    PROVE  /\ SubSeq(x, a, n) \in Seq(Word) /\ SubSeq(x, n + 1, Len(x)) \in Seq(Word)
           /\ SubSeq(x, a, n) \o SubSeq(x, n + 1, Len(x)) = SubSeq(x, a, Len(x))
<1>. DEFINE l == Len(x)
<1>1. n \in Nat /\ l \in Nat /\ n <= l /\ n + 1 \in Nat /\ 1 <= n + 1 /\ n + 1 <= l + 1 /\ a <= l + 1
      /\ l <= Len(x) /\ n <= Len(x)
  OBVIOUS
<1>. DEFINE u == SubSeq(x, a, n)
<1>. DEFINE v == SubSeq(x, n + 1, l)
<1>. DEFINE w == SubSeq(x, a, l)
<1>. HIDE DEF l
<1>2. u \in Seq(Word) /\ Len(u) = n - a + 1 /\ \A k \in 1..(n - a + 1) : u[k] = x[a + k - 1]
  BY <1>1, PartOfASeq
<1>3. v \in Seq(Word) /\ Len(v) = l - (n + 1) + 1
      /\ \A k \in 1..(l - (n + 1) + 1) : v[k] = x[(n + 1) + k - 1]
  BY <1>1, PartOfASeq
<1>4. w \in Seq(Word) /\ Len(w) = l - a + 1 /\ \A k \in 1..(l - a + 1) : w[k] = x[a + k - 1]
  BY <1>1, PartOfASeq
<1>. HIDE DEF u, v, w
<1>. DEFINE y == u \o v
<1>5. y \in Seq(Word) /\ Len(y) = Len(u) + Len(v) /\ (\A k \in 1..Len(u) : y[k] = u[k])
      /\ \A k \in 1..Len(v) : y[Len(u) + k] = v[k]
  <2>1. u \in Seq(Word)
    BY <1>2
  <2>2. v \in Seq(Word)
    BY <1>3
  <2>. QED BY <2>1, <2>2
<1>. HIDE DEF y
<1>6. Len(y) = l - a + 1 /\ Len(u) \in Nat /\ Len(v) \in Nat
  BY <1>1, <1>2, <1>3, <1>5
<1>7. ASSUME NEW k \in 1..(l - a + 1)
      PROVE  y[k] = w[k]
  <2>1. w[k] = x[a + k - 1]
    BY <1>4
  <2>2. CASE k <= Len(u)
    <3>1. k \in 1..Len(u) /\ k \in 1..(n - a + 1)
      BY <1>1, <1>2, <2>2
    <3>. QED BY <1>2, <1>5, <2>1, <3>1
  <2>3. CASE ~(k <= Len(u))
    <3>. DEFINE i == k - Len(u)
    <3>1. /\ i \in 1..Len(v) /\ i \in 1..(l - (n + 1) + 1) /\ Len(u) + i = k
          /\ (n + 1) + i - 1 = a + k - 1
      BY <1>1, <1>2, <1>3, <1>6, <2>3
    <3>. HIDE DEF i
    <3>2. y[Len(u) + i] = v[i] /\ v[i] = x[(n + 1) + i - 1]
      BY <1>3, <1>5, <3>1
    <3>. QED BY <2>1, <3>1, <3>2
  <2>. QED BY <2>2, <2>3
<1>8. y = w
  BY <1>4, <1>5, <1>6, <1>7, SeqEqual
<1>. QED BY <1>2, <1>3, <1>8 DEF l, u, v, w, y

\* The queue of a parser that has what is left of the payload in one piece.
Whole == Push(EmptyQueue, SubSeq(text, sent.bytes - Root.queue.length + 1, Len(text)))

LEMMA WholeIsAhead ==
    ASSUME IInv
    PROVE  \E s, c : /\ c \in Seq(Word) /\ Represents(Root.queue, s)
                     /\ Represents(Push(Root.queue, c), s \o c) /\ Represents(Whole, s \o c)
<1>. DEFINE n == sent.bytes
<1>. DEFINE a == n - Root.queue.length + 1
<1>. DEFINE s == SubSeq(text, a, n)
<1>. DEFINE c == SubSeq(text, n + 1, Len(text))
<1>1. text \in Seq(Word) /\ n \in 0..Len(text) /\ Unread(Root.queue, text, n)
  BY RootIs
<1>2. Represents(Root.queue, s)
  BY <1>1 DEF Unread
<1>3. Root.queue.length \in Nat /\ Root.queue.length <= n
  BY <1>1, UnreadPart
<1>4. a \in Nat /\ 1 <= a /\ a <= n + 1
  BY <1>1, <1>3
<1>5. Whole = Push(EmptyQueue, SubSeq(text, a, Len(text)))
  BY DEF Whole
<1>. HIDE DEF a, n
<1>6. s \in Seq(Word) /\ c \in Seq(Word) /\ s \o c = SubSeq(text, a, Len(text))
  BY <1>1, <1>4, TwoParts
<1>. HIDE DEF s, c
<1>7. Represents(Push(Root.queue, c), s \o c)
  BY <1>2, <1>6, PushAppends
<1>8. s \o c \in Seq(Word)
  <2>1. s \in Seq(Word)
    BY <1>6
  <2>2. c \in Seq(Word)
    BY <1>6
  <2>. QED BY <2>1, <2>2
<1>9. Represents(Push(EmptyQueue, s \o c), <<>> \o (s \o c))
  BY <1>8, EmptyIsNothing, PushAppends
<1>10. <<>> \o (s \o c) = s \o c
  BY <1>8
<1>. QED BY <1>2, <1>5, <1>6, <1>7, <1>9, <1>10

\* What the payload's own parser decides on the bytes that have arrived is what it would
\* decide had all of them arrived: the first boundary, the end of the headers and the
\* headers, the end of a part and the part.  A part is refused early only if it is too long.
DecidesAsOnTheWhole ==
    LET q == Root.queue
        next == NextBoundary(Whole)
    IN Len(frames) = 1 =>
         /\ FirstBoundary(q) > 0 \/ ~MayBeginWithBoundary(q) => FirstBoundary(Whole) = FirstBoundary(q)
         /\ FirstSeparator(q) # NoBreak =>
              /\ FirstSeparator(Whole) = FirstSeparator(q)
              /\ Slice(Whole, FirstSeparator(q).index) = Slice(q, FirstSeparator(q).index)
         /\ NextBoundary(q).index # NotFound =>
              /\ next.index = NextBoundary(q).index
              /\ Slice(Whole, next.index) = Slice(q, next.index)
              /\ NextBoundary(q).index + Len(Closing(Top.boundary)) <= q.length => next = NextBoundary(q)
         /\ NextBoundary(q).index = NotFound /\ PartTooLong(q) /\ next.index # NotFound =>
              Limited(case.limits.part, Len(Slice(Whole, next.index)))

\* processBuffer decides nothing too early: what it finds, reads or refuses while chunks
\* are still to come it would find, read or refuse if it had waited for all of them.
THEOREM DecisionsStand == ParserSpec => []DecidesAsOnTheWhole
<1>1. IInv => DecidesAsOnTheWhole
  <2>. SUFFICES ASSUME IInv, Len(frames) = 1
                PROVE  LET q == Root.queue
                           next == NextBoundary(Whole)
                       IN /\ FirstBoundary(q) > 0 \/ ~MayBeginWithBoundary(q) =>
                               FirstBoundary(Whole) = FirstBoundary(q)
                          /\ FirstSeparator(q) # NoBreak =>
                               /\ FirstSeparator(Whole) = FirstSeparator(q)
                               /\ Slice(Whole, FirstSeparator(q).index)
                                    = Slice(q, FirstSeparator(q).index)
                          /\ NextBoundary(q).index # NotFound =>
                               /\ next.index = NextBoundary(q).index
                               /\ Slice(Whole, next.index) = Slice(q, next.index)
                               /\ NextBoundary(q).index + Len(Closing(Top.boundary)) <= q.length
                                    => next = NextBoundary(q)
                          /\ NextBoundary(q).index = NotFound /\ PartTooLong(q)
                             /\ next.index # NotFound =>
                               Limited(case.limits.part, Len(Slice(Whole, next.index)))
    BY Zenon DEF DecidesAsOnTheWhole
  <2>. DEFINE q == Root.queue
  <2>1. PICK s, c : /\ c \in Seq(Word) /\ Represents(q, s)
                    /\ Represents(Push(q, c), s \o c) /\ Represents(Whole, s \o c)
    BY WholeIsAhead
  <2>2. case \in Cases
    BY DEF IInv, Shape
  <2>. HIDE DEF q
  <2>. DEFINE r == Push(q, c)
  <2>3. /\ FirstBoundary(r) = FirstBoundary(Whole)
        /\ FirstSeparator(r) = FirstSeparator(Whole)
        /\ NextBoundary(r) = NextBoundary(Whole)
    BY <2>1, SameDecisions
  <2>4. Ahead(q, Whole, c)
    BY <2>1 DEF Ahead
  <2>5. FirstBoundary(q) > 0 \/ ~MayBeginWithBoundary(q) => FirstBoundary(Whole) = FirstBoundary(q)
    BY <2>1, <2>3, FirstBoundaryStands
  <2>6. ASSUME FirstSeparator(q) # NoBreak
        PROVE  /\ FirstSeparator(Whole) = FirstSeparator(q)
               /\ Slice(Whole, FirstSeparator(q).index) = Slice(q, FirstSeparator(q).index)
    BY <2>1, <2>4, <2>6, HeadersCommute
  <2>7. ASSUME NextBoundary(q).index # NotFound
        PROVE  /\ NextBoundary(Whole).index = NextBoundary(q).index
               /\ Slice(Whole, NextBoundary(Whole).index) = Slice(q, NextBoundary(Whole).index)
    <3>1. NextBoundary(Whole).index = NextBoundary(q).index
      BY <2>1, <2>3, <2>7, NextBoundaryPlaceStands
    <3>2. NextBoundary(q).index \in 0..Len(s)
      <4>. DEFINE b == Top.boundary
      <4>1. Marker(b) \in Seq({Cr, Lf, Dash, b}) /\ Len(Marker(b)) = 5
        BY Lengths
      <4>2. NextBoundary(q).index = IndexOf(q, Marker(b))
        BY <2>1, NextBoundaryIs
      <4>. HIDE DEF b
      <4>3. IndexOf(q, Marker(b)) \in Nat /\ IndexOf(q, Marker(b)) + Len(Marker(b)) <= Len(s)
        BY <2>1, <2>7, <4>1, <4>2, FoundInside
      <4>4. Len(s) \in Nat
        BY <2>1 DEF Represents
      <4>. QED BY <4>1, <4>2, <4>3, <4>4
    <3>3. Slice(Whole, NextBoundary(q).index) = Slice(q, NextBoundary(q).index)
      BY <2>1, <3>2, AheadConsumed
    <3>. QED BY <3>1, <3>3
  <2>8. ASSUME NextBoundary(q).index # NotFound,
               NextBoundary(q).index + Len(Closing(Top.boundary)) <= q.length
        PROVE  NextBoundary(Whole) = NextBoundary(q)
    BY <2>1, <2>3, <2>8, NextBoundaryStands
  <2>9. ASSUME NextBoundary(q).index = NotFound, PartTooLong(q),
               NextBoundary(Whole).index # NotFound
        PROVE  Limited(case.limits.part, Len(Slice(Whole, NextBoundary(Whole).index)))
    <3>1. /\ NextBoundary(r).index \in 0..Len(s \o c)
          /\ Limited(case.limits.part, Len(Slice(r, NextBoundary(r).index)))
      BY <2>1, <2>2, <2>3, <2>9, EarlyRefusalIsRight
    <3>2. Slice(Whole, NextBoundary(r).index) = Slice(r, NextBoundary(r).index)
      <4>. DEFINE t == s \o c
      <4>. DEFINE i == NextBoundary(r).index
      <4>1. Represents(r, t) /\ Represents(Whole, t) /\ i \in 0..Len(t)
        BY <2>1, <3>1
      <4>. HIDE DEF t, i, r
      <4>2. Slice(Whole, i) = SubSeq(t, 1, i) /\ Slice(r, i) = SubSeq(t, 1, i)
        BY <4>1, SliceReads
      <4>. QED BY <4>2 DEF i
    <3>. HIDE DEF r
    <3>. QED BY <2>3, <3>1, <3>2
  <2>. QED BY <2>5, <2>6, <2>7, <2>8, <2>9, Zenon DEF q
<1>. QED BY <1>1, Invariance, PTL

-----------------------------------------------------------------------------
(* What is read is within the limits.                                      *)

IsParser(p) == "requests" \in DOMAIN p /\ p.requests \in Seq(ToSet(p.requests))
Parsers(fs) == \A k \in 1..Len(fs) : IsParser(fs[k])

\* How many requests the first frames hold, for each number of frames.
Tally(f, fs) ==
    /\ f \in [0..Len(fs) -> Nat] /\ f[0] = 0
    /\ \A k \in 1..Len(fs) : f[k] = f[k - 1] + Len(fs[k].requests)
Held(fs, n) == \E f : Tally(f, fs) /\ f[Len(fs)] = n

LEMMA RequestsCounted ==
    ASSUME NEW p, IsParser(p)
    PROVE  Len(p.requests) \in Nat
BY DEF IsParser

\* The top frame is replaced by one with d requests more.
LEMMA HeldOnTop ==
    ASSUME NEW fs, Stack(fs), Parsers(fs), NEW n, Held(fs, n), NEW p, IsParser(p), NEW d \in Nat,
           Len(p.requests) = Len(fs[Len(fs)].requests) + d
    PROVE  LET g == [fs EXCEPT ![Len(fs)] = p]
           IN Parsers(g) /\ Held(g, n + d) /\ Len(g) = Len(fs)
<1>. DEFINE m == Len(fs)
<1>. DEFINE g == [fs EXCEPT ![m] = p]
<1>1. m \in Nat /\ m >= 1 /\ m \in 1..m /\ DOMAIN fs = 1..m
  BY StackIs
<1>2. Len(g) = m
  BY <1>1
<1>3. g[m] = p /\ \A k \in 1..m : k # m => g[k] = fs[k]
  BY <1>1
<1>4. PICK f : Tally(f, fs) /\ f[m] = n
  BY DEF Held
<1>. DEFINE h == [k \in 0..m |-> IF k = m THEN n + d ELSE f[k]]
<1>. HIDE DEF g
<1>5. /\ f \in [0..m -> Nat] /\ f[0] = 0
      /\ \A k \in 1..m : f[k] = f[k - 1] + Len(fs[k].requests)
  BY <1>4 DEF Tally
<1>. HIDE DEF m
<1>6. n \in Nat /\ n = f[m - 1] + Len(fs[m].requests) /\ f[m - 1] \in Nat
  BY <1>1, <1>4, <1>5
<1>7. Parsers(g)
  <2>1. ASSUME NEW k \in 1..m PROVE IsParser(g[k])
    BY <1>3 DEF Parsers, m
  <2>. QED BY <1>2, <2>1 DEF Parsers
<1>8. h \in [0..m -> Nat] /\ h[0] = 0 /\ h[m] = n + d
  BY <1>1, <1>5, <1>6
<1>9. ASSUME NEW k \in 1..m
      PROVE  h[k] = h[k - 1] + Len(g[k].requests)
  <2>1. k - 1 \in 0..m /\ k - 1 # m /\ k \in 0..m
    BY <1>1
  <2>2. h[k - 1] = f[k - 1]
    BY <2>1
  <2>3. CASE k = m
    <3>1. Len(fs[m].requests) \in Nat
      BY <1>1, RequestsCounted DEF Parsers, m
    <3>2. Len(g[m].requests) = Len(fs[m].requests) + d
      BY <1>3 DEF m
    <3>3. h[m] = f[m - 1] + Len(g[m].requests)
      BY <1>6, <1>8, <3>1, <3>2
    <3>. HIDE DEF h
    <3>. QED BY <2>2, <2>3, <3>3
  <2>4. CASE k # m
    <3>1. h[k] = f[k] /\ g[k] = fs[k]
      BY <1>3, <2>1, <2>4
    <3>. HIDE DEF h
    <3>. QED BY <1>5, <2>2, <3>1
  <2>. QED BY <2>3, <2>4
<1>. HIDE DEF h
<1>10. Tally(h, g)
  BY <1>2, <1>8, <1>9 DEF Tally
<1>11. Held(g, n + d)
  BY <1>2, <1>8, <1>10 DEF Held
<1>. QED BY <1>2, <1>7, <1>11 DEF g, m

\* A frame is replaced by one with as many requests.
LEMMA HeldAsBefore ==
    ASSUME NEW fs, Stack(fs), Parsers(fs), NEW n, Held(fs, n), NEW i \in 1..Len(fs), NEW p,
           IsParser(p), Len(p.requests) = Len(fs[i].requests)
    PROVE  LET g == [fs EXCEPT ![i] = p]
           IN Parsers(g) /\ Held(g, n) /\ Len(g) = Len(fs)
<1>. DEFINE m == Len(fs)
<1>. DEFINE g == [fs EXCEPT ![i] = p]
<1>1. m \in Nat /\ m >= 1 /\ DOMAIN fs = 1..m
  BY StackIs
<1>2. Len(g) = m /\ g[i] = p /\ \A k \in 1..m : k # i => g[k] = fs[k]
  BY <1>1
<1>. HIDE DEF g
<1>3. Parsers(g)
  <2>1. ASSUME NEW k \in 1..m PROVE IsParser(g[k])
    BY <1>2 DEF Parsers
  <2>. QED BY <1>2, <2>1 DEF Parsers
<1>4. \A k \in 1..m : Len(g[k].requests) = Len(fs[k].requests)
  BY <1>2
<1>5. PICK f : Tally(f, fs) /\ f[m] = n
  BY DEF Held
<1>6. Tally(f, g)
  BY <1>2, <1>4, <1>5 DEF Tally
<1>7. Held(g, n)
  BY <1>2, <1>5, <1>6 DEF Held
<1>. QED BY <1>2, <1>3, <1>7 DEF g

\* A frame without requests is put on top.
LEMMA HeldWithOneMore ==
    ASSUME NEW fs, Stack(fs), Parsers(fs), NEW n, Held(fs, n), NEW p, IsParser(p),
           Len(p.requests) = 0
    PROVE  LET g == Append(fs, p)
           IN Parsers(g) /\ Held(g, n) /\ Len(g) = Len(fs) + 1
<1>. DEFINE m == Len(fs)
<1>. DEFINE g == Append(fs, p)
<1>1. m \in Nat /\ m >= 1 /\ DOMAIN fs = 1..m /\ fs \in Seq(ToSet(fs))
  BY StackIs DEF Stack
<1>2. Len(g) = m + 1 /\ g[m + 1] = p /\ \A k \in 1..m : g[k] = fs[k]
  BY <1>1
<1>. HIDE DEF g
<1>3. Parsers(g)
  <2>1. ASSUME NEW k \in 1..(m + 1) PROVE IsParser(g[k])
    <3>1. k = m + 1 \/ k \in 1..m
      BY <1>1
    <3>. QED BY <1>2, <3>1 DEF Parsers
  <2>. QED BY <1>2, <2>1 DEF Parsers
<1>4. PICK f : Tally(f, fs) /\ f[m] = n
  BY DEF Held
<1>. DEFINE h == [k \in 0..(m + 1) |-> IF k = m + 1 THEN n ELSE f[k]]
<1>5. /\ f \in [0..m -> Nat] /\ f[0] = 0
      /\ \A k \in 1..m : f[k] = f[k - 1] + Len(fs[k].requests)
  BY <1>4 DEF Tally
<1>. HIDE DEF m
<1>6. n \in Nat
  BY <1>1, <1>4, <1>5
<1>7. h \in [0..(m + 1) -> Nat] /\ h[0] = 0 /\ h[m + 1] = n
  <2>1. \A k \in 0..(m + 1) : k # m + 1 => k \in 0..m
    BY <1>1
  <2>. QED BY <1>1, <1>5, <1>6, <2>1
<1>8. ASSUME NEW k \in 1..(m + 1)
      PROVE  h[k] = h[k - 1] + Len(g[k].requests)
  <2>1. k - 1 \in 0..(m + 1) /\ k - 1 # m + 1 /\ k \in 0..(m + 1)
    BY <1>1
  <2>2. h[k - 1] = f[k - 1]
    BY <2>1
  <2>3. CASE k = m + 1
    <3>1. k - 1 = m
      BY <1>1, <2>3
    <3>2. h[k - 1] = n /\ h[k] = n
      BY <1>4, <1>7, <2>2, <2>3, <3>1 DEF m
    <3>3. Len(g[k].requests) = 0
      BY <1>2, <2>3
    <3>. HIDE DEF h
    <3>. QED BY <1>6, <3>2, <3>3
  <2>4. CASE k # m + 1
    <3>1. k \in 1..m
      BY <1>1, <2>4
    <3>2. h[k] = f[k] /\ g[k] = fs[k]
      BY <1>2, <2>1, <2>4, <3>1
    <3>. HIDE DEF h
    <3>. QED BY <1>5, <2>2, <3>1, <3>2
  <2>. QED BY <2>3, <2>4
<1>. HIDE DEF h
<1>9. Tally(h, g)
  BY <1>2, <1>7, <1>8 DEF Tally
<1>10. Held(g, n)
  BY <1>2, <1>7, <1>9 DEF Held
<1>. QED BY <1>2, <1>3, <1>10 DEF g, m

\* The top frame goes and the one under it takes over its requests.
LEMMA HeldUnderneath ==
    ASSUME NEW fs, Stack(fs), Len(fs) > 1, Parsers(fs), NEW n, Held(fs, n), NEW p, IsParser(p),
           Len(p.requests) = Len(fs[Len(fs) - 1].requests) + Len(fs[Len(fs)].requests)
    PROVE  LET g == [Front(fs) EXCEPT ![Len(fs) - 1] = p]
           IN Parsers(g) /\ Held(g, n) /\ Len(g) = Len(fs) - 1
<1>. DEFINE m == Len(fs)
<1>. DEFINE e == Front(fs)
<1>. DEFINE d == Len(fs[m].requests)
<1>1. /\ m \in Nat /\ m > 1 /\ m - 1 \in Nat /\ m - 1 >= 1 /\ m \in 1..m
      /\ m - 1 \in 1..(m - 1) /\ m - 1 \in 1..m /\ m - 1 # m
  BY StackIs
<1>2. Stack(e) /\ Len(e) = m - 1
  BY StackPopped
<1>3. \A k \in 1..(m - 1) : e[k] = fs[k]
  <2>1. e = SubSeq(fs, 1, m - 1)
    BY DEF Front
  <2>2. fs \in Seq(ToSet(fs)) /\ 1 \in Nat /\ 1 >= 1 /\ 1 <= (m - 1) + 1 /\ m - 1 <= Len(fs)
    BY <1>1 DEF Stack
  <2>3. \A k \in 1..((m - 1) - 1 + 1) : SubSeq(fs, 1, m - 1)[k] = fs[1 + k - 1]
    <3>. DEFINE l == m - 1
    <3>1. l \in Nat /\ l <= Len(fs) /\ 1 <= l + 1
      BY <1>1
    <3>. HIDE DEF l, m
    <3>2. \A k \in 1..(l - 1 + 1) : SubSeq(fs, 1, l)[k] = fs[1 + k - 1]
      BY <2>2, <3>1, PartOfASeq
    <3>. QED BY <3>2 DEF l
  <2>4. ASSUME NEW k \in 1..(m - 1) PROVE e[k] = fs[k]
    <3>1. k \in 1..((m - 1) - 1 + 1) /\ 1 + k - 1 = k
      BY <1>1
    <3>. HIDE DEF e, m
    <3>2. SubSeq(fs, 1, m - 1)[k] = fs[1 + k - 1]
      BY <2>3, <3>1
    <3>. QED BY <2>1, <3>1, <3>2
  <2>. QED BY <2>4
<1>. HIDE DEF e
<1>4. Parsers(e)
  <2>1. ASSUME NEW k \in 1..(m - 1) PROVE IsParser(e[k])
    <3>1. k \in 1..m /\ e[k] = fs[k]
      BY <1>1, <1>3
    <3>. QED BY <3>1 DEF Parsers
  <2>. QED BY <1>2, <2>1 DEF Parsers
<1>5. PICK f : Tally(f, fs) /\ f[m] = n
  BY DEF Held
<1>6. /\ f \in [0..m -> Nat] /\ f[0] = 0
      /\ \A k \in 1..m : f[k] = f[k - 1] + Len(fs[k].requests)
  BY <1>5 DEF Tally
<1>7. d \in Nat
  BY <1>1, RequestsCounted DEF Parsers
<1>8. n = f[m - 1] + d /\ f[m - 1] \in Nat
  BY <1>1, <1>5, <1>6
<1>9. Held(e, f[m - 1])
  <2>. DEFINE h == [k \in 0..(m - 1) |-> f[k]]
  <2>. HIDE DEF m
  <2>1. 0..(m - 1) \subseteq 0..m /\ 0 \in 0..(m - 1) /\ m - 1 \in 0..(m - 1)
    BY <1>1
  <2>2. h \in [0..(m - 1) -> Nat] /\ h[0] = 0 /\ h[m - 1] = f[m - 1]
    BY <1>6, <2>1
  <2>3. ASSUME NEW k \in 1..(m - 1)
        PROVE  h[k] = h[k - 1] + Len(e[k].requests)
    <3>1. k \in 0..(m - 1) /\ k - 1 \in 0..(m - 1) /\ k \in 1..m
      BY <1>1
    <3>2. h[k] = f[k] /\ h[k - 1] = f[k - 1] /\ e[k] = fs[k]
      BY <1>3, <3>1
    <3>. HIDE DEF h
    <3>. QED BY <1>6, <3>1, <3>2
  <2>. HIDE DEF h
  <2>4. Tally(h, e)
    BY <1>2, <2>2, <2>3 DEF Tally
  <2>. QED BY <1>2, <2>2, <2>4 DEF Held
<1>10. Len(p.requests) = Len(e[Len(e)].requests) + d
  BY <1>1, <1>2, <1>3
<1>. DEFINE x == f[m - 1]
<1>. HIDE DEF d, m, x
<1>11. LET g == [e EXCEPT ![Len(e)] = p]
       IN Parsers(g) /\ Held(g, x + d) /\ Len(g) = Len(e)
  <2>1. Held(e, x)
    BY <1>9 DEF x
  <2>. QED BY <1>2, <1>4, <1>7, <1>10, <2>1, HeldOnTop
<1>12. x + d = n
  BY <1>8 DEF x
<1>. QED BY <1>2, <1>11, <1>12 DEF e, m

\* The parsers hold as many requests as are counted; the limits are kept, and a parser
\* waits for a chunk only when it is the payload's own.
WithinLimits ==
    /\ ~Limited(case.limits.payload, sent.bytes)
    /\ ~Limited(case.limits.operations, counts.operations)
    /\ case.limits.depth > 0 => Len(frames) <= case.limits.depth
    /\ stage \in {"waiting", "done"} => Len(frames) = 1
    /\ final => sent.bytes = Len(text)
    /\ stage = "done" => final

LInv == Stack(frames) /\ Parsers(frames) /\ Held(frames, counts.operations) /\ WithinLimits

LEMMA RefuseStaysWithin ==
    ASSUME IInv, LInv, Refuse
    PROVE  LInv'
BY DEF Refuse, LInv, Stack, Parsers, Held, Tally, WithinLimits, text

\* A step that replaces the top parser by one with as many requests.
LEMMA TopStaysWithin ==
    ASSUME IInv, LInv, UNCHANGED <<case, sent, final, counts>>, NEW p, IsParser(p),
           Len(p.requests) = Len(Top.requests), Len(frames) = 1 => "queue" \in DOMAIN p,
           frames' = [frames EXCEPT ![Len(frames)] = p],
           stage' = stage \/ (stage' = "waiting" /\ Len(frames) = 1)
    PROVE  LInv'
<1>1. Stack(frames) /\ Len(frames) \in 1..Len(frames) /\ Parsers(frames)
      /\ Held(frames, counts.operations) /\ Top = frames[Len(frames)]
  BY StackIs DEF LInv, Top
<1>2. Stack(frames')
  BY <1>1, StackChanged
<1>3. Parsers(frames') /\ Held(frames', counts.operations) /\ Len(frames') = Len(frames)
  BY <1>1, HeldAsBefore
<1>4. text' = text /\ case' = case /\ sent' = sent /\ final' = final
      /\ counts'.operations = counts.operations
  BY DEF text
<1>5. WithinLimits'
  <2>1. stage' \in {"waiting", "done"} => Len(frames') = 1
    BY <1>3 DEF LInv, WithinLimits
  <2>2. stage' = "done" => final'
    BY <1>4 DEF LInv, WithinLimits
  <2>3. ~Limited(case.limits.payload, sent.bytes)'
    BY <1>4 DEF LInv, WithinLimits
  <2>4. ~Limited(case.limits.operations, counts.operations)'
    BY <1>4 DEF LInv, WithinLimits, Limited
  <2>5. (case.limits.depth > 0 => Len(frames) <= case.limits.depth)'
    BY <1>3, <1>4 DEF LInv, WithinLimits
  <2>6. (final => sent.bytes = Len(text))'
    BY <1>4 DEF LInv, WithinLimits
  <2>. QED BY <2>1, <2>2, <2>3, <2>4, <2>5, <2>6 DEF WithinLimits
<1>6. Parsers(frames)' /\ Held(frames, counts.operations)' /\ Stack(frames)'
  BY <1>2, <1>3, <1>4 DEF Parsers, Held, Tally, Stack
<1>. QED BY <1>5, <1>6 DEF LInv

LEMMA TopIsParser ==
    ASSUME LInv
    PROVE  /\ Stack(frames) /\ Len(frames) \in 1..Len(frames) /\ Len(frames) \in Nat
           /\ IsParser(Top) /\ Top = frames[Len(frames)]
           /\ (Len(frames) = 1 => "queue" \in DOMAIN Top)
BY StackIs DEF LInv, Parsers, Top, Stack

LEMMA SameRequests ==
    ASSUME NEW p, NEW r, IsParser(p), DOMAIN r = DOMAIN p, r.requests = p.requests
    PROVE  IsParser(r) /\ Len(r.requests) = Len(p.requests)
BY DEF IsParser

LEMMA AwaitStaysWithin ==
    ASSUME IInv, LInv, NEW q, Await(q)
    PROVE  LInv'
<1>1. CASE Refuse
  BY <1>1, RefuseStaysWithin
<1>2. CASE ~FinalPass /\ ~Refuse
  <2>. DEFINE p == [Top EXCEPT !.queue = q]
  <2>1. frames' = [frames EXCEPT ![Len(frames)] = p] /\ stage' = "waiting"
        /\ UNCHANGED <<case, sent, final, counts>>
    BY <1>2 DEF Await, Top
  <2>2. Len(frames) = 1
    BY <1>2, TopIsParser DEF FinalPass
  <2>3. DOMAIN p = DOMAIN Top /\ p.requests = Top.requests
    BY TopIsParser DEF IsParser
  <2>. HIDE DEF p
  <2>4. IsParser(p) /\ Len(p.requests) = Len(Top.requests)
    BY <2>3, TopIsParser, SameRequests
  <2>. QED BY <2>1, <2>2, <2>3, <2>4, TopIsParser, TopStaysWithin
<1>. QED BY <1>1, <1>2 DEF Await

LEMMA ChunkStaysWithin ==
    ASSUME IInv, LInv, Chunk
    PROVE  LInv'
<1>1. PICK n \in (sent.bytes + 1)..Len(text) :
        /\ ~Limited(case.limits.payload, n)
        /\ sent' = [chunks |-> sent.chunks + 1, bytes |-> n, torn |-> sent.torn \/ Tears(n)]
        /\ frames' = [frames EXCEPT ![1].queue = Push(@, SubSeq(text, sent.bytes + 1, n))]
  BY DEF Chunk
<1>2. /\ UNCHANGED <<case, final, counts>> /\ Len(frames) = 1
      /\ stage' \in {"waiting", "parsing"}
  BY DEF Chunk, LInv, WithinLimits
<1>. DEFINE q == Push(Top.queue, SubSeq(text, sent.bytes + 1, n))
<1>. DEFINE p == [Top EXCEPT !.queue = q]
<1>3. frames' = [frames EXCEPT ![Len(frames)] = p]
  BY <1>1, <1>2 DEF Top
<1>4. DOMAIN p = DOMAIN Top /\ p.requests = Top.requests
  BY TopIsParser DEF IsParser
<1>. HIDE DEF p
<1>5. IsParser(p) /\ Len(p.requests) = Len(Top.requests)
  BY <1>4, TopIsParser, SameRequests
<1>6. Stack(frames')
  BY <1>2, <1>3, <1>4, TopIsParser, StackChanged
<1>7. Parsers(frames') /\ Held(frames', counts.operations) /\ Len(frames') = Len(frames)
  BY <1>3, <1>5, TopIsParser, HeldAsBefore DEF LInv
<1>8. WithinLimits'
  <2>1. text' = text /\ case' = case /\ final' = final /\ counts' = counts /\ sent'.bytes = n
    BY <1>1, <1>2 DEF text
  <2>2. (stage \in {"waiting", "done"} => Len(frames) = 1)' /\ stage' # "done"
    BY <1>2, <1>7
  <2>3. ~Limited(case.limits.payload, sent.bytes)'
    BY <1>1, <2>1 DEF Limited
  <2>4. ~Limited(case.limits.operations, counts.operations)'
    BY <2>1 DEF LInv, WithinLimits, Limited
  <2>5. (case.limits.depth > 0 => Len(frames) <= case.limits.depth)'
    BY <1>7, <2>1 DEF LInv, WithinLimits
  <2>6. (final => sent.bytes = Len(text))'
    <3>1. final => sent.bytes = Len(text)
      BY DEF LInv, WithinLimits
    <3>2. sent.bytes # Len(text) /\ Len(text) \in Nat
      BY <1>1, RootIs
    <3>. QED BY <2>1, <3>1, <3>2
  <2>. QED BY <2>2, <2>3, <2>4, <2>5, <2>6 DEF WithinLimits
<1>9. Parsers(frames)' /\ Held(frames, counts.operations)' /\ Stack(frames)'
  BY <1>2, <1>6, <1>7 DEF Parsers, Held, Tally, Stack
<1>. QED BY <1>8, <1>9 DEF LInv

LEMMA FirstBoundaryFoundStaysWithin ==
    ASSUME IInv, LInv, FirstBoundaryFound
    PROVE  LInv'
<1>1. PICK x, q :
        /\ frames' = [frames EXCEPT ![Len(frames)].state = x, ![Len(frames)].queue = q]
        /\ UNCHANGED <<case, sent, stage, final, counts>>
  BY DEF FirstBoundaryFound
<1>. DEFINE p == [Top EXCEPT !.state = x, !.queue = q]
<1>2. frames' = [frames EXCEPT ![Len(frames)] = p]
  BY <1>1, TopIsParser DEF Top
<1>3. DOMAIN p = DOMAIN Top /\ p.requests = Top.requests
  BY TopIsParser DEF IsParser
<1>. HIDE DEF p
<1>4. IsParser(p) /\ Len(p.requests) = Len(Top.requests)
  BY <1>3, TopIsParser, SameRequests
<1>. QED BY <1>1, <1>2, <1>3, <1>4, TopIsParser, TopStaysWithin

LEMMA HeadersReadStaysWithin ==
    ASSUME IInv, LInv, HeadersRead
    PROVE  LInv'
<1>1. CASE \E q : Await(q)
  BY <1>1, AwaitStaysWithin
<1>2. ASSUME NEW x, NEW q,
             frames' = [frames EXCEPT ![Len(frames)] =
                           [Top EXCEPT !.state = "body", !.headers = x, !.queue = q]],
             UNCHANGED <<case, sent, stage, final, counts>>
      PROVE  LInv'
  <2>. DEFINE p == [Top EXCEPT !.state = "body", !.headers = x, !.queue = q]
  <2>1. DOMAIN p = DOMAIN Top /\ p.requests = Top.requests
    BY TopIsParser DEF IsParser
  <2>2. frames' = [frames EXCEPT ![Len(frames)] = p]
    BY <1>2
  <2>. HIDE DEF p
  <2>3. IsParser(p) /\ Len(p.requests) = Len(Top.requests)
    BY <2>1, TopIsParser, SameRequests
  <2>. QED BY <1>2, <2>1, <2>2, <2>3, TopIsParser, TopStaysWithin
<1>. DEFINE h == FirstSeparator(Top.queue)
<1>3. CASE h = NoBreak
  BY <1>1, <1>3 DEF HeadersRead
<1>4. CASE h # NoBreak
  <2>. DEFINE q == Consume(Top.queue, h.index + h.length)
  <2>. DEFINE x == parseHeaders(Slice(Top.queue, h.index))
  <2>1. /\ frames' = [frames EXCEPT ![Len(frames)] =
                         [Top EXCEPT !.state = "body", !.headers = x, !.queue = q]]
        /\ UNCHANGED <<case, sent, stage, final, counts>>
    BY <1>4 DEF HeadersRead, Top
  <2>. HIDE DEF q, x
  <2>. QED BY <1>2, <2>1
<1>. QED BY <1>3, <1>4

LEMMA NothingExceeds ==
    ASSUME IInv, LInv, EndOfStream \/ PayloadRead \/ UNCHANGED parserVars
    PROVE  LInv'
<1>1. UNCHANGED <<case, sent, frames, counts>>
  BY DEF EndOfStream, PayloadRead, parserVars
<1>2. Stack(frames)' /\ Parsers(frames)' /\ Held(frames, counts.operations)'
  BY <1>1 DEF LInv, Stack, Parsers, Held, Tally
<1>3. WithinLimits'
  <2>1. CASE EndOfStream
    BY <1>1, <2>1 DEF EndOfStream, LInv, WithinLimits, Limited, text
  <2>2. CASE PayloadRead
    BY <1>1, <2>2 DEF PayloadRead, LInv, WithinLimits, Limited, text
  <2>3. CASE UNCHANGED parserVars
    BY <2>3 DEF parserVars, LInv, WithinLimits, Limited, text
  <2>. QED BY <2>1, <2>2, <2>3
<1>. QED BY <1>2, <1>3 DEF LInv

LEMMA BehindIsParser ==
    ASSUME LInv, NEW next
    PROVE  LET v == Behind(Top, next)
           IN IsParser(v) /\ Len(v.requests) = Len(Top.requests) /\ DOMAIN v = DOMAIN Top
<1>. DEFINE length == Len(IF next.closing THEN Closing(Top.boundary) ELSE Marker(Top.boundary))
<1>. DEFINE q == AfterMarker(Consume(Top.queue, next.index + length))
<1>. DEFINE x == IF next.closing THEN "ended" ELSE "headers"
<1>. DEFINE v == Behind(Top, next)
<1>1. v = [Top EXCEPT !.queue = q, !.state = x, !.headers = {}]
  BY DEF Behind
<1>. HIDE DEF q, x, v
<1>2. DOMAIN v = DOMAIN Top /\ v.requests = Top.requests
  BY <1>1, TopIsParser DEF IsParser
<1>3. IsParser(v) /\ Len(v.requests) = Len(Top.requests)
  BY <1>2, TopIsParser, SameRequests
<1>. QED BY <1>2, <1>3 DEF v

LEMMA PartReadStaysWithin ==
    ASSUME IInv, LInv, PartRead
    PROVE  LInv'
<1>. DEFINE next == NextBoundary(Top.queue)
<1>. DEFINE body == Slice(Top.queue, next.index)
<1>. DEFINE n == Len(frames)
<1>. DEFINE v == Behind(Top, next)
<1>1. Refuse \/ BeginChangeset(body, next) \/ AddRequest(body, next)
  BY DEF PartRead
<1>2. stage = "parsing"
  BY DEF PartRead
<1>3. IsParser(v) /\ Len(v.requests) = Len(Top.requests) /\ DOMAIN v = DOMAIN Top
  BY BehindIsParser
<1>. HIDE DEF next, body
<1>4. CASE Refuse
  BY <1>4, RefuseStaysWithin
<1>5. CASE BeginChangeset(body, next)
  <2>. DEFINE g == [frames EXCEPT ![n] = v]
  <2>1. Refuse \/ \E b, i, q : /\ frames' = Append(g, Parser(b, i, q))
                               /\ UNCHANGED <<case, sent, stage, final, counts>>
                               /\ ~(case.limits.depth > 0 /\ n >= case.limits.depth)
    BY <1>5, Zenon DEF BeginChangeset, Top
  <2>2. CASE Refuse
    BY <2>2, RefuseStaysWithin
  <2>3. ASSUME NEW b, NEW i, NEW q, frames' = Append(g, Parser(b, i, q)),
               UNCHANGED <<case, sent, stage, final, counts>>,
               ~(case.limits.depth > 0 /\ n >= case.limits.depth)
        PROVE  LInv'
    <3>. DEFINE p == Parser(b, i, q)
    <3>1. IsParser(p) /\ Len(p.requests) = 0
      BY DEF Parser, IsParser
    <3>. HIDE DEF v, p
    <3>2. Stack(g)
      BY <1>3, TopIsParser, StackChanged
    <3>3. Parsers(g) /\ Held(g, counts.operations) /\ Len(g) = n
      BY <1>3, TopIsParser, HeldAsBefore DEF LInv
    <3>. HIDE DEF g
    <3>4. Stack(frames') /\ Parsers(frames') /\ Held(frames', counts.operations)
          /\ Len(frames') = n + 1
      BY <2>3, <3>1, <3>2, <3>3, StackPushed, HeldWithOneMore DEF p
    <3>5. text' = text /\ case' = case /\ sent' = sent /\ final' = final /\ stage' = "parsing"
          /\ counts' = counts
      BY <1>2, <2>3 DEF text
    <3>6. WithinLimits'
      <4>1. case.limits.depth \in Nat
        BY CasesAssumption DEF IInv, Shape
      <4>2. (case.limits.depth > 0 => Len(frames) <= case.limits.depth)'
        BY <2>3, <3>4, <3>5, <4>1, TopIsParser
      <4>3. /\ ~Limited(case.limits.payload, sent.bytes)'
            /\ ~Limited(case.limits.operations, counts.operations)'
            /\ (final => sent.bytes = Len(text))'
        BY <3>5 DEF LInv, WithinLimits, Limited
      <4>4. ~(stage' \in {"waiting", "done"}) /\ stage' # "done"
        BY <3>5
      <4>. QED BY <4>2, <4>3, <4>4 DEF WithinLimits
    <3>7. Stack(frames)' /\ Parsers(frames)' /\ Held(frames, counts.operations)'
      BY <3>4, <3>5 DEF Parsers, Held, Tally, Stack
    <3>. QED BY <3>6, <3>7 DEF LInv
  <2>. QED BY <2>1, <2>2, <2>3
<1>6. CASE AddRequest(body, next)
  <2>1. CASE Refuse
    BY <2>1, RefuseStaysWithin
  <2>2. CASE ~Refuse
    <3>. DEFINE r == parseHttpPart(Top.headers, body, Top.group)
    <3>. DEFINE p == [v EXCEPT !.ops = @ + 1, !.requests = Append(@, r)]
    <3>1. frames' = [frames EXCEPT ![n] = p]
      <4>1. frames' = [frames EXCEPT ![Len(frames)] =
                   [Behind(Top, next) EXCEPT !.ops = @ + 1, !.requests = Append(@, r)]]
        BY <1>6, <2>2, Zenon DEF AddRequest
      <4>. HIDE DEF r
      <4>. QED BY <4>1
    <3>2. /\ UNCHANGED <<case, sent, stage, final>> /\ ~TooManyOperations
          /\ counts'.operations = counts.operations + 1
      BY <1>6, <2>2 DEF AddRequest
    <3>3. (Len(frames) = 1 => "queue" \in DOMAIN v)
      BY <1>3, TopIsParser
    <3>. HIDE DEF v, r
    <3>4. DOMAIN p = DOMAIN v /\ p.requests = Append(v.requests, r)
      BY <1>3 DEF IsParser
    <3>. DEFINE S == ToSet(v.requests) \cup {r}
    <3>. HIDE DEF p
    <3>5. IsParser(p) /\ Len(p.requests) = Len(frames[n].requests) + 1
      <4>1. v.requests \in Seq(ToSet(v.requests)) /\ ToSet(v.requests) \subseteq S /\ r \in S
        BY <1>3 DEF IsParser
      <4>2. \A k \in 1..Len(v.requests) : v.requests[k] \in S
        BY <4>1
      <4>. HIDE DEF S
      <4>3. v.requests \in Seq(S)
        BY <4>1, <4>2
      <4>4. p.requests \in Seq(S) /\ Len(p.requests) = Len(v.requests) + 1
        BY <3>4, <4>1, <4>3
      <4>5. p.requests \in Seq(ToSet(p.requests))
        BY <4>4, SeqOfItsOwn
      <4>. QED BY <1>3, <3>4, <4>4, <4>5, TopIsParser DEF IsParser
    <3>6. Stack(frames')
      BY <3>1, <3>3, <3>4, TopIsParser, StackChanged
    <3>7. Parsers(frames') /\ Held(frames', counts.operations + 1) /\ Len(frames') = n
      BY <3>1, <3>5, TopIsParser, HeldOnTop DEF LInv
    <3>8. WithinLimits'
      <4>1. text' = text /\ case' = case /\ sent' = sent /\ final' = final
            /\ stage' = "parsing" /\ counts'.operations = counts.operations + 1
        BY <1>2, <3>2 DEF text
      <4>2. (case.limits.depth > 0 => Len(frames) <= case.limits.depth)'
        BY <3>7, <4>1 DEF LInv, WithinLimits
      <4>3. /\ ~Limited(case.limits.payload, sent.bytes)'
            /\ (final => sent.bytes = Len(text))'
        BY <4>1 DEF LInv, WithinLimits, Limited
      <4>4. ~Limited(case.limits.operations, counts.operations)'
        BY <3>2, <4>1 DEF TooManyOperations, Limited
      <4>5. ~(stage' \in {"waiting", "done"}) /\ stage' # "done"
        BY <4>1
      <4>. QED BY <4>2, <4>3, <4>4, <4>5 DEF WithinLimits
    <3>9. Stack(frames)' /\ Parsers(frames)' /\ Held(frames, counts.operations)'
      BY <3>2, <3>6, <3>7 DEF Parsers, Held, Tally, Stack
    <3>. QED BY <3>8, <3>9 DEF LInv
  <2>. QED BY <2>1, <2>2
<1>. QED BY <1>1, <1>4, <1>5, <1>6

LEMMA Joined ==
    ASSUME NEW a, a \in Seq(ToSet(a)), NEW b, b \in Seq(ToSet(b))
    PROVE  a \o b \in Seq(ToSet(a \o b)) /\ Len(a \o b) = Len(a) + Len(b)
<1>. DEFINE S == ToSet(a) \cup ToSet(b)
<1>1. (\A k \in 1..Len(a) : a[k] \in S) /\ (\A k \in 1..Len(b) : b[k] \in S)
  BY DEF ToSet
<1>. HIDE DEF S
<1>2. a \in Seq(S) /\ b \in Seq(S)
  BY <1>1
<1>3. a \o b \in Seq(S) /\ Len(a \o b) = Len(a) + Len(b)
  BY <1>2
<1>. QED BY <1>3, SeqOfItsOwn

LEMMA ChangesetReadStaysWithin ==
    ASSUME IInv, LInv, ChangesetRead
    PROVE  LInv'
<1>1. CASE Refuse
  BY <1>1, RefuseStaysWithin
<1>2. CASE ~Refuse
  <2>. DEFINE fs == Front(frames)
  <2>. DEFINE i == Len(frames) - 1
  <2>. DEFINE p == [fs[i] EXCEPT !.requests = @ \o Top.requests]
  <2>. DEFINE g == [fs EXCEPT ![i] = p]
  <2>1. frames' = g /\ UNCHANGED <<case, sent, stage, final, counts>>
        /\ Len(frames) > 1 /\ stage = "parsing"
    BY <1>2 DEF ChangesetRead
  <2>2. Stack(fs) /\ Len(fs) = i /\ fs[1] = frames[1] /\ i \in 1..Len(fs) /\ i \in 1..Len(frames)
    BY <2>1, TopIsParser, StackPopped, StackIs
  <2>3. fs[i] = frames[i]
    <3>1. fs = SubSeq(frames, 1, i)
      BY DEF Front
    <3>2. i \in Nat /\ 1 <= i + 1 /\ i <= Len(frames) /\ 1 \in Nat /\ 1 >= 1
          /\ frames \in Seq(ToSet(frames)) /\ i \in 1..(i - 1 + 1) /\ 1 + i - 1 = i
      BY <2>1, TopIsParser DEF Stack
    <3>. HIDE DEF fs, i
    <3>3. \A k \in 1..(i - 1 + 1) : SubSeq(frames, 1, i)[k] = frames[1 + k - 1]
      BY <3>2, PartOfASeq
    <3>4. SubSeq(frames, 1, i)[i] = frames[1 + i - 1]
      BY <3>2, <3>3, Zenon
    <3>. QED BY <3>1, <3>2, <3>4, Zenon
  <2>4. IsParser(fs[i])
    BY <2>2, <2>3 DEF LInv, Parsers
  <2>. HIDE DEF fs, i
  <2>5. DOMAIN p = DOMAIN fs[i] /\ p.requests = fs[i].requests \o Top.requests
    BY <2>4 DEF IsParser
  <2>. HIDE DEF p
  <2>6. IsParser(p) /\ Len(p.requests) = Len(fs[i].requests) + Len(Top.requests)
    <3>1. /\ fs[i].requests \in Seq(ToSet(fs[i].requests)) /\ "requests" \in DOMAIN fs[i]
          /\ Top.requests \in Seq(ToSet(Top.requests))
      BY <2>4, TopIsParser DEF IsParser
    <3>. QED BY <2>5, <3>1, Joined DEF IsParser
  <2>7. i = 1 => "queue" \in DOMAIN p
    BY <2>2, <2>5 DEF Stack
  <2>8. Stack(g)
    BY <2>2, <2>7, StackChanged
  <2>9. Parsers(g) /\ Held(g, counts.operations) /\ Len(g) = i
    <3>1. Len(p.requests) = Len(frames[Len(frames) - 1].requests)
                          + Len(frames[Len(frames)].requests)
      BY <2>3, <2>6 DEF i, Top
    <3>2. LET h == [Front(frames) EXCEPT ![Len(frames) - 1] = p]
          IN Parsers(h) /\ Held(h, counts.operations) /\ Len(h) = Len(frames) - 1
      BY <2>1, <2>6, <3>1, HeldUnderneath DEF LInv
    <3>. QED BY <3>2 DEF fs, i
  <2>10. WithinLimits'
    <3>1. text' = text /\ case' = case /\ sent' = sent /\ final' = final
          /\ stage' = "parsing" /\ counts' = counts
      BY <2>1 DEF text
    <3>2. (case.limits.depth > 0 => Len(frames) <= case.limits.depth)'
      <4>1. case.limits.depth \in Nat
        BY CasesAssumption DEF IInv, Shape
      <4>2. Len(frames') = Len(frames) - 1
        BY <2>1, <2>9 DEF i
      <4>. QED BY <3>1, <4>1, <4>2, TopIsParser DEF LInv, WithinLimits
    <3>3. /\ ~Limited(case.limits.payload, sent.bytes)'
          /\ ~Limited(case.limits.operations, counts.operations)'
          /\ (final => sent.bytes = Len(text))'
      BY <3>1 DEF LInv, WithinLimits, Limited
    <3>4. ~(stage' \in {"waiting", "done"}) /\ stage' # "done"
      BY <3>1
    <3>. QED BY <3>2, <3>3, <3>4 DEF WithinLimits
  <2>11. Stack(frames)' /\ Parsers(frames)' /\ Held(frames, counts.operations)'
    BY <2>1, <2>8, <2>9 DEF Parsers, Held, Tally, Stack
  <2>. QED BY <2>10, <2>11 DEF LInv
<1>. QED BY <1>1, <1>2

\* The limits of the payload (enforcePayloadLimit, recordOperation, ensureDepth) hold at
\* every step, whatever parsers are at work, and no request is lost or counted twice
\* between a changeset's parser and the one it gives its requests to.
THEOREM LimitsHold == ParserSpec => [](IInv /\ LInv)
<1>1. ParserInit => IInv /\ LInv
  <2>. SUFFICES ASSUME ParserInit PROVE IInv /\ LInv
    OBVIOUS
  <2>. DEFINE p == Parser(Boundary, NoChangeset, EmptyQueue)
  <2>1. IInv
    BY InitHolds
  <2>2. frames = <<p>> /\ IsParser(p) /\ Len(p.requests) = 0
    BY DEF ParserInit, Parser, IsParser
  <2>. HIDE DEF p
  <2>3. Len(frames) = 1 /\ frames[1] = p
    BY <2>2
  <2>4. Parsers(frames)
    BY <2>2, <2>3 DEF Parsers
  <2>5. Held(frames, 0)
    <3>. DEFINE f == [k \in 0..1 |-> 0]
    <3>1. f \in [0..1 -> Nat] /\ f[0] = 0 /\ f[1] = 0
      OBVIOUS
    <3>. HIDE DEF f
    <3>2. \A k \in 1..1 : f[k] = f[k - 1] + Len(frames[k].requests)
      BY <2>2, <2>3, <3>1
    <3>3. Tally(f, frames) /\ f[Len(frames)] = 0
      BY <2>3, <3>1, <3>2 DEF Tally
    <3>. QED BY <3>3 DEF Held
  <2>6. sent.bytes = 0 /\ counts.operations = 0 /\ stage = "waiting" /\ final = FALSE
    BY DEF ParserInit
  <2>7. case.limits \in [payload : Nat, part : Nat, operations : Nat, changeset : Nat, depth : Nat]
    BY <2>1, CasesAssumption DEF IInv, Shape
  <2>8. WithinLimits
    BY <2>3, <2>6, <2>7 DEF WithinLimits, Limited
  <2>9. Stack(frames)
    BY <2>1 DEF IInv, Shape
  <2>. QED BY <2>1, <2>4, <2>5, <2>6, <2>8, <2>9 DEF LInv
<1>2. IInv /\ LInv /\ [ParserNext]_parserVars => LInv'
  <2>. SUFFICES ASSUME IInv, LInv, [ParserNext]_parserVars PROVE LInv'
    OBVIOUS
  <2>1. CASE Chunk
    BY <2>1, ChunkStaysWithin
  <2>2. CASE PayloadTooLarge
    BY <2>2, RefuseStaysWithin DEF PayloadTooLarge
  <2>3. CASE FirstBoundaryFound
    BY <2>3, FirstBoundaryFoundStaysWithin
  <2>4. CASE FirstBoundaryMissing
    BY <2>4, AwaitStaysWithin, RefuseStaysWithin DEF FirstBoundaryMissing
  <2>5. CASE HeadersRead
    BY <2>5, HeadersReadStaysWithin
  <2>6. CASE BodyAwaited
    BY <2>6, AwaitStaysWithin, RefuseStaysWithin DEF BodyAwaited
  <2>7. CASE PartRead
    BY <2>7, PartReadStaysWithin
  <2>8. CASE ChangesetRead
    BY <2>8, ChangesetReadStaysWithin
  <2>9. CASE EndOfStream \/ PayloadRead \/ UNCHANGED parserVars
    BY <2>9, NothingExceeds
  <2>. QED BY <2>1, <2>2, <2>3, <2>4, <2>5, <2>6, <2>7, <2>8, <2>9 DEF ParserNext
<1>. QED BY <1>1, <1>2, Invariance, PTL DEF ParserSpec

\* A payload that is taken has arrived whole, and it is within its limits: as many
\* requests as were counted, no more of them and no more bytes than allowed, and never
\* more parsers at work than the depth of nesting allowed.
DoneWithinLimits ==
    /\ stage = "done" =>
         /\ sent.bytes = Len(text) /\ ~Limited(case.limits.payload, Len(text))
         /\ Len(Root.requests) = counts.operations
         /\ ~Limited(case.limits.operations, Len(Root.requests))
    /\ ~Limited(case.limits.depth, Len(frames))

\* What parseMultipartBatch gives out respects the limits it was called with, and leaves
\* out none of the requests its parsers have read, the nested ones included.
THEOREM ReadWithinLimits == ParserSpec => []DoneWithinLimits
<1>1. IInv /\ LInv => DoneWithinLimits
  <2>. SUFFICES ASSUME IInv, LInv PROVE DoneWithinLimits
    OBVIOUS
  <2>1. ~Limited(case.limits.depth, Len(frames))
    <3>1. case.limits.depth \in Nat
      BY CasesAssumption DEF IInv, Shape
    <3>. QED BY <3>1, TopIsParser DEF LInv, WithinLimits, Limited
  <2>2. ASSUME stage = "done"
        PROVE  /\ sent.bytes = Len(text) /\ ~Limited(case.limits.payload, Len(text))
               /\ Len(Root.requests) = counts.operations
               /\ ~Limited(case.limits.operations, Len(Root.requests))
    <3>1. Len(frames) = 1 /\ sent.bytes = Len(text)
      BY <2>2 DEF LInv, WithinLimits
    <3>2. PICK f : Tally(f, frames) /\ f[Len(frames)] = counts.operations
      BY DEF LInv, Held
    <3>3. f[0] = 0 /\ f[1] = f[1 - 1] + Len(frames[1].requests)
      <4>1. 1 \in 1..Len(frames)
        BY <3>1
      <4>. QED BY <3>2, <4>1 DEF Tally
    <3>4. Len(frames[1].requests) \in Nat
      BY <3>1, TopIsParser, RequestsCounted
    <3>5. Len(Root.requests) = counts.operations
      <4>1. f[1] = counts.operations /\ 1 - 1 = 0
        BY <3>1, <3>2
      <4>. QED BY <3>3, <3>4, <4>1 DEF Root
    <3>. QED BY <3>1, <3>5, Zenon DEF LInv, WithinLimits
  <2>. QED BY <2>1, <2>2, Zenon DEF DoneWithinLimits
<1>. QED BY <1>1, LimitsHold, PTL
===============================================================================
