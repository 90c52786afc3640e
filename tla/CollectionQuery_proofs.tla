------------------------ MODULE CollectionQuery_proofs ------------------------
(***************************************************************************)
(* What a list promises, for every table, every division of the filter     *)
(* between datasource, SQL and memory, and every page size: it answers     *)
(* matches only, its counts agree, and all of its pages together are the   *)
(* matches.                                                                *)
(*                                                                         *)
(* Sequences of rows are described by what they hold and by their order,   *)
(* never by how they were computed: an ordered sequence is determined by   *)
(* its set, so pages can be compared as sets.                              *)
(***************************************************************************)
EXTENDS CollectionQuery, FiniteSetTheorems, SequenceTheorems, TLAPS

-----------------------------------------------------------------------------
-----------------------------------------------------------------------------
(* The invariants.                                                         *)

\* What the handler has decided when it waits for a statement.
StageInv ==
    /\ phase = "counted" => ~Refused /\ InSql /\ query.count
    /\ phase = "selected" => ~Refused /\ InSql
    /\ phase = "found" => ~Refused /\ Path = "find"

\* What a statement has selected is in order, and when nothing is to tell whether
\* there is another page, it is no more than the page.
IdsInv ==
    phase \in {"selected", "found"} =>
        /\ Ordered(ids)
        /\ Manual \/ Path = "lambda_sql" => Len(ids) <= PageSize(Top)

BaseInv == TypeOK /\ StageInv /\ IdsInv

\* A client that sends $skip with a positive $top pages by itself, for ever.
ClientPages == query.skip # NotGiven /\ query.top > 0

\* What the last request of the client has to do with its first.
RequestInv ==
    /\ request.token # NoRow => request.skip = NotGiven /\ ~ClientPages
    /\ request.token = NoRow /\ ~ClientPages =>
           /\ request.skip = query.skip
           /\ phase # "answered" => seen = <<>>
    /\ ClientPages => request.skip # NotGiven /\ answer.link = NoRow
    /\ ClientPages /\ (cfg.maxSkip # NotGiven \/ seen = <<>>) => request.skip = query.skip
    /\ phase = "answered" /\ answer.rows # <<>> => seen # <<>>

\* Ids that a statement has selected match, whatever is deleted since.
MatchInv ==
    /\ ToSet(answer.rows) \subseteq AllMatches
    /\ phase \in {"selected", "found"} => ToSet(ids) \subseteq AllMatches

\* The count of a first page is taken before its rows are read.
TotalInv ==
    phase \in {"counted", "selected"} /\ query.count /\ request.token = NoRow /\ table = Row
        => answer.total = Cardinality(AllMatches)

-----------------------------------------------------------------------------
(* The feed.                                                               *)

Page == PageSize(Top)

\* What FeedIsComplete promises something about, at any time of the feed.
Promised ==
    /\ ~raced
    /\ ~query.lambda.on \/ ClientPages
    /\ Max2(query.skip, 0) > 0 \/ ClientPages => Path # "scan" /\ table = Row

Wanted == table \cap FromSkip

\* What was answered lies up to the token, and is all there is up to it.
Covered ==
    /\ Ordered(seen)
    /\ \A r \in ToSet(seen) : ~Behind(r)
    /\ \A r \in Wanted : ~Behind(r) => r \in ToSet(seen)

\* Rows begin right behind the token, and end the feed unless they fill the page.
NextRows(rows) ==
    /\ \A r \in ToSet(rows) : Behind(r)
    /\ \A r \in Wanted : Behind(r) =>
           r \in ToSet(rows) \/ (Len(rows) > Page /\ \A q \in ToSet(rows) : Before(q, r))

\* What was answered lies up to the link, and is all there is up to it.
Linked ==
    /\ Ordered(seen)
    /\ answer.link = NoRow => Wanted \subseteq ToSet(seen)
    /\ answer.link # NoRow =>
           /\ \A r \in ToSet(seen) : ~Before(answer.link, r)
           /\ \A r \in Wanted : ~Before(answer.link, r) => r \in ToSet(seen)

Serving == {"asked", "counted", "selected", "found"}

\* Pages that the server links.
ServerFeed ==
    Promised /\ ~ClientPages =>
        /\ phase \in Serving => Covered
        /\ phase \in {"selected", "found"} => NextRows(ids)
        /\ phase = "selected" => ToSet(ids) \subseteq Selected
        /\ phase = "answered" => Linked

\* The rows of a sequence from one position to another, and those of the matches.
Positions(seq, from, to) == {seq[k] : k \in {n \in 1..Len(seq) : from < n /\ n <= to}}
Span(from, to) == Positions(Sorted(AllMatches), from, to)

\* Where the first page begins.
Start == IF cfg.maxSkip = NotGiven \/ cfg.strict THEN Max2(query.skip, 0)
         ELSE Max2(Min2(query.skip, cfg.maxSkip), 0)

\* Pages that the client asks for: positions, as nothing is deleted meanwhile.
ClientFeed ==
    Promised /\ ClientPages =>
        /\ Start <= Skip
        /\ phase \in Serving => Ordered(seen) /\ ToSet(seen) = Span(Start, Skip)
        /\ phase \in {"selected", "found"} =>
               /\ ToSet(ids) = Span(Skip, Skip + Page)
               /\ Len(ids) = Max2(Min2(Page, Len(Sorted(AllMatches)) - Skip), 0)
        /\ phase = "answered" =>
               /\ Ordered(seen)
               /\ ToSet(seen) = Span(Start, Skip + Len(answer.rows))
               /\ answer.rows = <<>> => Len(Sorted(AllMatches)) <= Skip

-----------------------------------------------------------------------------
(* Ordered sequences.                                                      *)

\* Rows are compared by a strict total order, either way.
LEMMA Comparing ==
    /\ \A r, q \in Nat : r # q => Before(r, q) \/ Before(q, r)
    /\ \A r, q \in Nat : ~(Before(r, q) /\ Before(q, r))
    /\ \A r, q, s \in Nat : Before(r, q) /\ Before(q, s) => Before(r, s)
    /\ \A r, q, s \in Nat : Before(r, q) /\ ~Before(s, q) => Before(r, s)
<1>1. CASE query.desc
  BY <1>1 DEF Before
<1>2. CASE ~query.desc
  BY <1>2 DEF Before
<1>. QED BY <1>1, <1>2

LEMMA RowsAreFinite ==
    ASSUME NEW S \in SUBSET Row
    PROVE  /\ IsFiniteSet(S)
           /\ Cardinality(S) \in Nat
           /\ S \subseteq Nat
BY RowAssumption, FS_Subset, FS_CardinalityType

\* Each set of rows can be put into order: by how many rows come before a row.
LEMMA AnOrderExists ==
    ASSUME NEW S \in SUBSET Row
    PROVE  \E seq \in [1..Cardinality(S) -> S] : Ordered(seq)
<1>. DEFINE n == Cardinality(S)
<1>. DEFINE Earlier(r) == {q \in S : Before(q, r)}
<1>. DEFINE rank == [r \in S |-> Cardinality(Earlier(r)) + 1]
<1>1. IsFiniteSet(S) /\ n \in Nat /\ S \subseteq Nat
  BY RowsAreFinite
<1>2. \A r \in S : IsFiniteSet(Earlier(r)) /\ Cardinality(Earlier(r)) \in Nat
  BY <1>1, FS_Subset, FS_CardinalityType
<1>3. ASSUME NEW r \in S
      PROVE  Cardinality(Earlier(r)) < n
  <2>1. r \notin Earlier(r)
    BY <1>1, Comparing
  <2>2. Earlier(r) \in SUBSET S
    OBVIOUS
  <2>3. Earlier(r) # S
    BY <2>1
  <2>. HIDE DEF Earlier
  <2>. QED BY <1>1, <1>2, <2>2, <2>3, FS_Subset
<1>4. ASSUME NEW r \in S, NEW q \in S, Before(q, r)
      PROVE  Cardinality(Earlier(q)) < Cardinality(Earlier(r))
  <2>1. \A s \in Earlier(q) : Before(s, r)
    BY <1>1, <1>4, Comparing
  <2>2. Earlier(q) \in SUBSET Earlier(r)
    BY <2>1
  <2>3. q \in Earlier(r) /\ q \notin Earlier(q)
    BY <1>1, <1>4, Comparing
  <2>. HIDE DEF Earlier
  <2>4. IsFiniteSet(Earlier(r)) /\ Cardinality(Earlier(r)) \in Nat /\ Cardinality(Earlier(q)) \in Nat
    BY <1>2
  <2>. QED BY <2>2, <2>3, <2>4, FS_Subset
<1>. HIDE DEF Earlier
<1>5. rank \in [S -> 1..n]
  BY <1>1, <1>2, <1>3
<1>6. \A r, q \in S : Before(q, r) => rank[q] < rank[r]
  BY <1>2, <1>4
<1>. HIDE DEF rank, n
<1>7. \A r, q \in S : rank[r] = rank[q] => r = q
  <2>. SUFFICES ASSUME NEW r \in S, NEW q \in S, rank[r] = rank[q], r # q
                PROVE  FALSE
    OBVIOUS
  <2>1. Before(r, q) \/ Before(q, r)
    BY <1>1, Comparing
  <2>2. rank[r] \in Int /\ rank[q] \in Int
    BY <1>5
  <2>. QED BY <1>6, <2>1, <2>2
<1>8. rank \in Injection(S, 1..n)
  BY <1>5, <1>7 DEF Injection, IsInjective
<1>9. IsFiniteSet(1..n) /\ Cardinality(1..n) = n
  BY <1>1, FS_Interval DEF n
<1>10. rank \in Surjection(S, 1..n)
  BY <1>8, <1>9, FS_Injection DEF n
<1>11. \A i \in 1..n : \E r \in S : rank[r] = i
  BY <1>10 DEF Surjection
<1>. DEFINE seq == [i \in 1..n |-> CHOOSE r \in S : rank[r] = i]
<1>12. \A i \in 1..n : seq[i] \in S /\ rank[seq[i]] = i
  BY <1>11
<1>13. seq \in [1..n -> S]
  BY <1>12
<1>. HIDE DEF seq
<1>14. Len(seq) = n
  BY <1>1, <1>13 DEF n
<1>15. \A i, j \in 1..n : i < j => Before(seq[i], seq[j])
  <2>. SUFFICES ASSUME NEW i \in 1..n, NEW j \in 1..n, i < j, ~Before(seq[i], seq[j])
                PROVE  FALSE
    OBVIOUS
  <2>1. seq[i] \in S /\ seq[j] \in S /\ rank[seq[i]] = i /\ rank[seq[j]] = j
    BY <1>12
  <2>2. seq[i] = seq[j] \/ Before(seq[j], seq[i])
    BY <1>1, <2>1, Comparing
  <2>3. Before(seq[j], seq[i]) => j < i
    BY <1>6, <2>1
  <2>. QED BY <2>1, <2>2, <2>3
<1>16. Ordered(seq)
  BY <1>14, <1>15 DEF Ordered
<1>. QED BY <1>13, <1>16 DEF n

LEMMA SequencesAreFunctions ==
    ASSUME NEW S, NEW n \in Nat, NEW seq \in [1..n -> S]
    PROVE  seq \in Seq(S) /\ Len(seq) = n /\ DOMAIN seq = 1..n
OBVIOUS

LEMMA ToSetIsRange ==
    ASSUME NEW S, NEW seq \in Seq(S)
    PROVE  /\ Len(seq) \in Nat
           /\ ToSet(seq) = {seq[i] : i \in 1..Len(seq)}
           /\ ToSet(seq) \subseteq S
           /\ \A i \in 1..Len(seq) : seq[i] \in ToSet(seq)
           /\ \A x \in ToSet(seq) : \E i \in 1..Len(seq) : x = seq[i]
<1>1. Len(seq) \in Nat /\ DOMAIN seq = 1..Len(seq) /\ \A i \in 1..Len(seq) : seq[i] \in S
  OBVIOUS
<1>. QED BY <1>1 DEF ToSet

\* An ordered sequence has no row twice, so its length is the size of its set.
LEMMA OrderedHasNoDuplicates ==
    ASSUME NEW seq \in Seq(Row), Ordered(seq)
    PROVE  /\ Cardinality(ToSet(seq)) = Len(seq)
           /\ \A i, j \in 1..Len(seq) : seq[i] = seq[j] => i = j
           /\ Len(seq) <= Cardinality(Row)
<1>1. Len(seq) \in Nat /\ DOMAIN seq = 1..Len(seq) /\ seq \in [1..Len(seq) -> Row]
  OBVIOUS
<1>. DEFINE n == Len(seq)
<1>. HIDE DEF n
<1>2. \A i, j \in 1..n : seq[i] = seq[j] => i = j
  <2>. SUFFICES ASSUME NEW i \in 1..n, NEW j \in 1..n, seq[i] = seq[j], i < j
                PROVE  FALSE
    BY <1>1 DEF n
  <2>1. Before(seq[i], seq[j])
    BY DEF Ordered, n
  <2>2. seq[i] \in Nat /\ seq[j] \in Nat
    BY <1>1, RowAssumption DEF n
  <2>. QED BY <2>1, <2>2, Comparing
<1>3. ToSet(seq) = {seq[i] : i \in 1..n}
  BY <1>1 DEF ToSet, n
<1>4. seq \in Injection(1..n, Row)
  BY <1>1, <1>2 DEF Injection, IsInjective, n
<1>5. seq \in Bijection(1..n, ToSet(seq))
  BY <1>1, <1>2, <1>3 DEF Injection, IsInjective, Surjection, Bijection, n
<1>6. IsFiniteSet(1..n) /\ Cardinality(1..n) = n
  BY <1>1, FS_Interval DEF n
<1>7. Cardinality(ToSet(seq)) = n
  BY <1>5, <1>6, FS_Bijection DEF ExistsBijection
<1>8. n <= Cardinality(Row)
  BY <1>4, <1>6, FS_Injection, RowAssumption
<1>. QED BY <1>2, <1>7, <1>8 DEF n

\* What Sorted returns.
LEMMA SortedIsInOrder ==
    ASSUME NEW S \in SUBSET Row
    PROVE  /\ Sorted(S) \in Seq(S)
           /\ Ordered(Sorted(S))
           /\ Len(Sorted(S)) = Cardinality(S)
           /\ ToSet(Sorted(S)) = S
<1>1. Sorted(S) \in [1..Cardinality(S) -> S] /\ Ordered(Sorted(S))
  BY AnOrderExists DEF Sorted
<1>2. IsFiniteSet(S) /\ Cardinality(S) \in Nat
  BY RowsAreFinite
<1>3. Sorted(S) \in Seq(S) /\ Len(Sorted(S)) = Cardinality(S)
  BY <1>1, <1>2, SequencesAreFunctions
<1>4. Sorted(S) \in Seq(Row)
  BY <1>3, SeqMonotonic
<1>5. Cardinality(ToSet(Sorted(S))) = Cardinality(S)
  BY <1>1, <1>3, <1>4, OrderedHasNoDuplicates
<1>6. ToSet(Sorted(S)) \in SUBSET S
  BY <1>3, ToSetIsRange
<1>7. ToSet(Sorted(S)) = S
  BY <1>2, <1>5, <1>6, FS_Subset
<1>. QED BY <1>1, <1>3, <1>7

LEMMA AmongIsInOrder ==
    ASSUME NEW seq \in Seq(Row), NEW S
    PROVE  /\ Among(seq, S) \in Seq(Row)
           /\ Ordered(Among(seq, S))
           /\ ToSet(Among(seq, S)) = ToSet(seq) \cap S
           /\ Len(Among(seq, S)) = Cardinality(ToSet(seq) \cap S)
           /\ Ordered(seq) => Len(Among(seq, S)) <= Len(seq)
<1>. DEFINE T == ToSet(seq) \cap S
<1>1. ToSet(seq) \in SUBSET Row
  BY ToSetIsRange
<1>2. T \in SUBSET Row /\ T \in SUBSET ToSet(seq)
  BY <1>1
<1>3. Cardinality(T) <= Cardinality(ToSet(seq))
  BY <1>1, <1>2, RowsAreFinite, FS_Subset
<1>. HIDE DEF T
<1>4. Sorted(T) \in Seq(T) /\ Ordered(Sorted(T)) /\ Len(Sorted(T)) = Cardinality(T) /\ ToSet(Sorted(T)) = T
  BY <1>2, SortedIsInOrder
<1>5. Sorted(T) \in Seq(Row)
  BY <1>2, <1>4, SeqMonotonic
<1>6. Ordered(seq) => Cardinality(T) <= Len(seq)
  BY <1>3, OrderedHasNoDuplicates
<1>7. Among(seq, S) = Sorted(T)
  BY DEF Among, T
<1>. QED BY <1>4, <1>5, <1>6, <1>7 DEF T

LEMMA WindowIsAPart ==
    ASSUME NEW S, NEW seq \in Seq(S), NEW offset \in Nat, NEW limit \in Nat
    PROVE  /\ Window(seq, offset, limit) \in Seq(S)
           /\ Len(Window(seq, offset, limit)) = Max2(Min2(limit, Len(seq) - offset), 0)
           /\ Len(Window(seq, offset, limit)) <= limit
           /\ \A i \in 1..Len(Window(seq, offset, limit)) :
                  Window(seq, offset, limit)[i] = seq[offset + i]
           /\ ToSet(Window(seq, offset, limit)) = Positions(seq, offset, offset + limit)
           /\ Ordered(seq) => Ordered(Window(seq, offset, limit))
<1>. DEFINE W == Window(seq, offset, limit)
<1>. DEFINE to == Min2(offset + limit, Len(seq))
<1>1. Len(seq) \in Nat /\ to \in Int /\ to <= Len(seq) /\ to <= offset + limit
  BY DEF Min2
<1>2. \A i \in (offset + 1)..to : seq[i] \in S
  BY <1>1
<1>. HIDE DEF to
<1>3. /\ SubSeq(seq, offset + 1, to) \in Seq(S)
      /\ Len(SubSeq(seq, offset + 1, to)) = IF offset + 1 <= to THEN to - (offset + 1) + 1 ELSE 0
      /\ \A i \in 1..(to - (offset + 1) + 1) : SubSeq(seq, offset + 1, to)[i] = seq[offset + 1 + i - 1]
  BY <1>1, <1>2, SubSeqProperties
<1>4. W = SubSeq(seq, offset + 1, to)
  BY DEF Window, to
<1>. HIDE DEF W
<1>5. W \in Seq(S) /\ Len(W) = (IF offset + 1 <= to THEN to - offset ELSE 0) /\ Len(W) \in Nat
  BY <1>1, <1>3, <1>4
<1>6. \A i \in 1..Len(W) : W[i] = seq[offset + i] /\ offset + i \in 1..Len(seq)
  <2>. SUFFICES ASSUME NEW i \in 1..Len(W)
                PROVE  W[i] = seq[offset + i] /\ offset + i \in 1..Len(seq)
    OBVIOUS
  <2>1. i \in 1..(to - (offset + 1) + 1) /\ offset + 1 + i - 1 = offset + i /\ offset + i \in 1..Len(seq)
    BY <1>1, <1>5
  <2>. QED BY <1>3, <1>4, <2>1
<1>7. Len(W) = Max2(Min2(limit, Len(seq) - offset), 0) /\ Len(W) <= limit
  BY <1>1, <1>5 DEF Max2, Min2, to
<1>8. ToSet(W) = {W[i] : i \in 1..Len(W)}
  BY <1>5, ToSetIsRange
<1>9. ToSet(W) = Positions(seq, offset, offset + limit)
  <2>1. ASSUME NEW i \in 1..Len(W)
        PROVE  \E k \in 1..Len(seq) : offset < k /\ k <= offset + limit /\ W[i] = seq[k]
    <3>1. offset + i \in 1..Len(seq) /\ offset < offset + i /\ offset + i <= offset + limit
      BY <1>5, <1>6, <1>7
    <3>. QED BY <1>6, <3>1
  <2>2. ASSUME NEW k \in 1..Len(seq), offset < k, k <= offset + limit
        PROVE  \E i \in 1..Len(W) : W[i] = seq[k]
    <3>1. k - offset \in 1..Len(W) /\ offset + (k - offset) = k
      BY <1>1, <1>5, <2>2 DEF to, Min2
    <3>. QED BY <1>6, <3>1
  <2>. DEFINE part == {n \in 1..Len(seq) : offset < n /\ n <= offset + limit}
  <2>3. \A x \in ToSet(W) : \E k \in part : x = seq[k]
    BY <1>8, <2>1
  <2>4. \A k \in part : seq[k] \in ToSet(W)
    BY <1>8, <2>2
  <2>5. ToSet(W) = {seq[k] : k \in part}
    BY <2>3, <2>4
  <2>. QED BY <2>5 DEF Positions
<1>10. Ordered(seq) => Ordered(W)
  <2>. SUFFICES ASSUME Ordered(seq), NEW i \in 1..Len(W), NEW j \in 1..Len(W), i < j
                PROVE  Before(W[i], W[j])
    BY DEF Ordered
  <2>1. offset + i \in 1..Len(seq) /\ offset + j \in 1..Len(seq) /\ offset + i < offset + j
    BY <1>5, <1>6
  <2>2. Before(seq[offset + i], seq[offset + j])
    BY <2>1 DEF Ordered
  <2>. QED BY <1>6, <2>2
<1>. QED BY <1>5, <1>6, <1>7, <1>9, <1>10 DEF W

LEMMA PositionsAreOfTheSequence ==
    ASSUME NEW S, NEW seq \in Seq(S), NEW from, NEW to
    PROVE  Positions(seq, from, to) \subseteq ToSet(seq)
<1>1. \A k \in 1..Len(seq) : seq[k] \in ToSet(seq)
  BY ToSetIsRange
<1>. QED BY <1>1 DEF Positions

\* A row of an ordered sequence behind the offset is in the window, or behind it.
LEMMA BehindAWindow ==
    ASSUME NEW seq \in Seq(Row), Ordered(seq), NEW offset \in Nat, NEW limit \in Nat,
           NEW k \in 1..Len(seq), offset < k
    PROVE  \/ seq[k] \in ToSet(Window(seq, offset, limit))
           \/ /\ Len(Window(seq, offset, limit)) = limit
              /\ \A q \in ToSet(Window(seq, offset, limit)) : Before(q, seq[k])
<1>. DEFINE W == Window(seq, offset, limit)
<1>1. /\ Len(W) = Max2(Min2(limit, Len(seq) - offset), 0)
      /\ ToSet(W) = Positions(seq, offset, offset + limit)
  BY WindowIsAPart
<1>2. Len(seq) \in Nat
  OBVIOUS
<1>. HIDE DEF W
<1>3. CASE k <= offset + limit
  <2>1. k \in {n \in 1..Len(seq) : offset < n /\ n <= offset + limit}
    BY <1>3
  <2>2. seq[k] \in Positions(seq, offset, offset + limit)
    BY <2>1 DEF Positions
  <2>. QED BY <1>1, <2>2 DEF W
<1>4. CASE offset + limit < k
  <2>1. Len(W) = limit
    BY <1>1, <1>2, <1>4 DEF Max2, Min2
  <2>2. ASSUME NEW n \in 1..Len(seq), n <= offset + limit
        PROVE  Before(seq[n], seq[k])
    <3>1. n < k
      BY <1>2, <1>4, <2>2
    <3>. QED BY <3>1 DEF Ordered
  <2>3. \A q \in Positions(seq, offset, offset + limit) : Before(q, seq[k])
    BY <2>2 DEF Positions
  <2>. QED BY <1>1, <2>1, <2>3 DEF W
<1>. QED BY <1>2, <1>3, <1>4

LEMMA ConcatenationIsInOrder ==
    ASSUME NEW a \in Seq(Row), NEW b \in Seq(Row)
    PROVE  /\ a \o b \in Seq(Row)
           /\ ToSet(a \o b) = ToSet(a) \cup ToSet(b)
           /\ Ordered(a) /\ Ordered(b) /\ (\A x \in ToSet(a), y \in ToSet(b) : Before(x, y))
                  => Ordered(a \o b)
<1>1. /\ a \o b \in Seq(Row)
      /\ Len(a \o b) = Len(a) + Len(b)
      /\ \A i \in 1..(Len(a) + Len(b)) : (a \o b)[i] = IF i <= Len(a) THEN a[i] ELSE b[i - Len(a)]
  BY ConcatProperties
<1>. DEFINE c == a \o b
<1>2. c \in Seq(Row) /\ Len(c) = Len(a) + Len(b) /\ Len(a) \in Nat /\ Len(b) \in Nat
  BY <1>1
<1>3. \A i \in 1..Len(c) : c[i] = IF i <= Len(a) THEN a[i] ELSE b[i - Len(a)]
  BY <1>1
<1>. HIDE DEF c
<1>4. /\ ToSet(c) = {c[i] : i \in 1..Len(c)}
      /\ ToSet(a) = {a[i] : i \in 1..Len(a)}
      /\ ToSet(b) = {b[i] : i \in 1..Len(b)}
      /\ \A i \in 1..Len(c) : c[i] \in ToSet(c)
  BY <1>2, ToSetIsRange
<1>5. ToSet(c) = ToSet(a) \cup ToSet(b)
  <2>1. ASSUME NEW i \in 1..Len(c)
        PROVE  c[i] \in ToSet(a) \cup ToSet(b)
    <3>1. CASE i <= Len(a)
      <4>1. i \in 1..Len(a) /\ c[i] = a[i]
        BY <1>2, <1>3, <3>1
      <4>. QED BY <1>4, <4>1
    <3>2. CASE ~(i <= Len(a))
      <4>1. i - Len(a) \in 1..Len(b) /\ c[i] = b[i - Len(a)]
        BY <1>2, <1>3, <3>2
      <4>. QED BY <1>4, <4>1
    <3>. QED BY <3>1, <3>2
  <2>2. ASSUME NEW i \in 1..Len(a)
        PROVE  a[i] \in ToSet(c)
    <3>1. i \in 1..Len(c) /\ c[i] = a[i]
      BY <1>2, <1>3
    <3>2. c[i] \in ToSet(c)
      BY <1>4, <3>1
    <3>. QED BY <3>1, <3>2
  <2>3. ASSUME NEW i \in 1..Len(b)
        PROVE  b[i] \in ToSet(c)
    <3>. DEFINE n == Len(a) + i
    <3>1. n \in 1..Len(c) /\ c[n] = b[i]
      <4>1. n \in 1..Len(c) /\ ~(n <= Len(a)) /\ n - Len(a) = i
        BY <1>2
      <4>2. c[n] = b[n - Len(a)]
        BY <1>3, <4>1
      <4>. QED BY <4>1, <4>2
    <3>. HIDE DEF n
    <3>2. c[n] \in ToSet(c)
      BY <1>4, <3>1
    <3>. QED BY <3>1, <3>2
  <2>4. \A x \in ToSet(c) : x \in ToSet(a) \cup ToSet(b)
    BY <1>4, <2>1
  <2>5. \A x \in ToSet(a) : x \in ToSet(c)
    BY <1>4, <2>2
  <2>6. \A x \in ToSet(b) : x \in ToSet(c)
    BY <1>4, <2>3
  <2>. QED BY <2>4, <2>5, <2>6
<1>6. ASSUME Ordered(a), Ordered(b), \A x \in ToSet(a), y \in ToSet(b) : Before(x, y)
      PROVE  Ordered(c)
  <2>. SUFFICES ASSUME NEW i \in 1..Len(c), NEW j \in 1..Len(c), i < j
                PROVE  Before(c[i], c[j])
    BY DEF Ordered
  <2>1. CASE j <= Len(a)
    <3>1. i \in 1..Len(a) /\ j \in 1..Len(a) /\ c[i] = a[i] /\ c[j] = a[j]
      BY <1>2, <1>3, <2>1
    <3>2. Before(a[i], a[j])
      BY <1>6, <3>1 DEF Ordered
    <3>. QED BY <3>1, <3>2
  <2>2. CASE i <= Len(a) /\ ~(j <= Len(a))
    <3>1. i \in 1..Len(a) /\ j - Len(a) \in 1..Len(b) /\ c[i] = a[i] /\ c[j] = b[j - Len(a)]
      BY <1>2, <1>3, <2>2
    <3>2. Before(a[i], b[j - Len(a)])
      BY <1>4, <1>6, <3>1
    <3>. QED BY <3>1, <3>2
  <2>3. CASE ~(i <= Len(a))
    <3>1. /\ i - Len(a) \in 1..Len(b) /\ j - Len(a) \in 1..Len(b) /\ i - Len(a) < j - Len(a)
          /\ c[i] = b[i - Len(a)] /\ c[j] = b[j - Len(a)]
      BY <1>2, <1>3, <2>3
    <3>2. Before(b[i - Len(a)], b[j - Len(a)])
      BY <1>6, <3>1 DEF Ordered
    <3>. QED BY <3>1, <3>2
  <2>. QED BY <1>2, <2>1, <2>2, <2>3
<1>. QED BY <1>2, <1>5, <1>6 DEF c

-----------------------------------------------------------------------------
(* Sizes, and what a request leaves as it is.                              *)

LEMMA NoRowIsNone == NoRow \notin Row /\ NoRow \in Nat /\ NotGiven \notin Nat /\ NotGiven \in Int
BY RowAssumption DEF NoRow, NotGiven

LEMMA TypesOfTheCase ==
    ASSUME [cfg |-> cfg, query |-> query] \in Cases
    PROVE  cfg \in Setting /\ query \in Query
BY CasesAssumption

LEMMA Sizes ==
    ASSUME [cfg |-> cfg, query |-> query] \in Cases,
           request \in [skip : Nat \cup {NotGiven}, token : Row \cup {NoRow}]
    PROVE  /\ cfg.size \in Nat
           /\ Page \in Nat \ {0} /\ Page <= cfg.size
           /\ Skip \in Nat
           /\ Limit \in Nat /\ (Manual => Limit = Page) /\ (~Manual => Limit = Page + 1)
<1>1. cfg.size \in Nat \ {0} /\ cfg.maxTop \in Int /\ cfg.maxSkip \in Int
      /\ query.top \in Int /\ request.skip \in Int
  BY TypesOfTheCase, NoRowIsNone DEF Setting, Query
<1>2. Top \in Int
  BY <1>1 DEF Top, Min2
<1>3. Page \in Nat \ {0} /\ Page <= cfg.size
  BY <1>1, <1>2 DEF Page, PageSize
<1>4. Skip \in Nat
  BY <1>1 DEF Skip, Min2, Max2
<1>. QED BY <1>1, <1>3, <1>4 DEF Limit, Page

\* What applyServerDrivenPaging makes of rows that are in order.
LEMMA PagedIsAPage ==
    ASSUME Page \in Nat \ {0}, NEW seq \in Seq(Row), Ordered(seq)
    PROVE  /\ DOMAIN Paged(seq) = {"rows", "link"}
           /\ Paged(seq).rows \in Seq(Row)
           /\ Paged(seq).link \in Row \cup {NoRow}
           /\ Ordered(Paged(seq).rows)
           /\ ToSet(Paged(seq).rows) \subseteq ToSet(seq)
           /\ Manual => Paged(seq).rows = seq /\ Paged(seq).link = NoRow
           /\ ~Manual => Len(Paged(seq).rows) <= Page
           /\ Paged(seq).link = NoRow => Paged(seq).rows = seq
           /\ ~Manual /\ Len(seq) > Page => Paged(seq).link # NoRow
           /\ Paged(seq).link # NoRow =>
                  /\ Paged(seq).link \in ToSet(Paged(seq).rows)
                  /\ \A r \in ToSet(seq) : r \in ToSet(Paged(seq).rows) <=> ~Before(Paged(seq).link, r)
<1>0. Len(seq) \in Nat
  OBVIOUS
<1>1. CASE Manual \/ Len(seq) <= Page
  <2>1. Paged(seq) = [rows |-> seq, link |-> NoRow]
    BY <1>1 DEF Paged, Page
  <2>. QED BY <1>0, <1>1, <2>1, NoRowIsNone
<1>2. CASE ~Manual /\ Page < Len(seq)
  <2>. DEFINE page == SubSeq(seq, 1, Page)
  <2>1. \A i \in 1..Page : seq[i] \in Row
    BY <1>2
  <2>2. page \in Seq(Row) /\ Len(page) = Page /\ \A i \in 1..Page : page[i] = seq[i]
    <3>1. Page \in Int /\ 1 \in Int /\ 1 <= Page /\ Page - 1 + 1 = Page
      OBVIOUS
    <3>2. \A i \in 1..Page : 1 + i - 1 = i
      BY <3>1
    <3>3. /\ page \in Seq(Row)
          /\ Len(page) = IF 1 <= Page THEN Page - 1 + 1 ELSE 0
          /\ \A i \in 1..(Page - 1 + 1) : page[i] = seq[1 + i - 1]
      BY <2>1, <3>1, SubSeqProperties
    <3>. QED BY <3>1, <3>2, <3>3
  <2>. HIDE DEF page
  <2>3. Last(page) = seq[Page]
    BY <2>2 DEF Last
  <2>4. Paged(seq) = [rows |-> page, link |-> seq[Page]]
    <3>1. ~(Manual \/ Len(seq) <= PageSize(Top))
      BY <1>0, <1>2 DEF Page
    <3>. QED BY <2>3, <3>1 DEF Paged, Page, page
  <2>5. ToSet(page) = {page[i] : i \in 1..Page} /\ ToSet(seq) = {seq[i] : i \in 1..Len(seq)}
    BY <2>2, ToSetIsRange
  <2>6. \A i \in 1..Page : i \in 1..Len(seq)
    BY <1>0, <1>2
  <2>7. Ordered(page)
    BY <2>2, <2>6 DEF Ordered
  <2>8. ToSet(page) \subseteq ToSet(seq)
    BY <2>2, <2>5, <2>6
  <2>9. seq[Page] \in ToSet(page) /\ seq[Page] \in Row
    <3>1. Page \in 1..Page
      OBVIOUS
    <3>2. page[Page] = seq[Page] /\ seq[Page] \in Row
      BY <2>1, <2>2, <3>1
    <3>3. page[Page] \in ToSet(page)
      BY <2>2, <3>1, ToSetIsRange
    <3>. QED BY <3>2, <3>3
  <2>10. \A i \in 1..Len(seq) : seq[i] \in Nat
    BY ElementOfSeq, RowAssumption
  <2>11. ASSUME NEW i \in 1..Len(seq), i <= Page
         PROVE  seq[i] \in ToSet(page) /\ ~Before(seq[Page], seq[i])
    <3>1. i \in 1..Page /\ Page \in 1..Len(seq)
      BY <1>0, <1>2, <2>11
    <3>2. seq[i] \in ToSet(page)
      BY <2>2, <2>5, <3>1
    <3>3. i = Page \/ i < Page
      BY <2>11
    <3>4. i < Page => Before(seq[i], seq[Page])
      BY <3>1 DEF Ordered
    <3>. QED BY <2>10, <3>1, <3>2, <3>3, <3>4, Comparing
  <2>12. ASSUME NEW i \in 1..Len(seq), Page < i
         PROVE  seq[i] \notin ToSet(page) /\ Before(seq[Page], seq[i])
    <3>1. Page \in 1..Len(seq)
      BY <1>0, <1>2
    <3>2. Before(seq[Page], seq[i])
      BY <2>12, <3>1 DEF Ordered
    <3>3. ASSUME NEW k \in 1..Page, seq[i] = page[k]
          PROVE  FALSE
      <4>1. k \in 1..Len(seq) /\ seq[k] = seq[i] /\ k # i
        BY <2>2, <2>6, <2>12, <3>3
      <4>. QED BY <4>1, OrderedHasNoDuplicates
    <3>4. seq[i] \notin ToSet(page)
      BY <2>5, <3>3
    <3>. QED BY <3>2, <3>4
  <2>13. \A r \in ToSet(seq) : r \in ToSet(page) <=> ~Before(seq[Page], r)
    <3>1. \A i \in 1..Len(seq) : i <= Page \/ Page < i
      BY <1>0
    <3>2. \A i \in 1..Len(seq) : seq[i] \in ToSet(page) <=> ~Before(seq[Page], seq[i])
      BY <2>11, <2>12, <3>1
    <3>. QED BY <2>5, <3>2
  <2>. QED BY <1>0, <1>2, <2>2, <2>4, <2>7, <2>8, <2>9, <2>13, NoRowIsNone
<1>. QED BY <1>0, <1>1, <1>2

\* The order, and with it every sorted sequence, depends on the query alone.
LEMMA OrderStays ==
    ASSUME query' = query
    PROVE  /\ \A r, q : (Before(r, q))' <=> Before(r, q)
           /\ \A seq : (Ordered(seq))' <=> Ordered(seq)
           /\ \A S : (Sorted(S))' = Sorted(S)
<1>1. \A r, q : (Before(r, q))' <=> Before(r, q)
  BY DEF Before
<1>2. \A seq : (Ordered(seq))' <=> Ordered(seq)
  BY <1>1 DEF Ordered
<1>3. ASSUME NEW S
      PROVE  (Sorted(S))' = Sorted(S)
  BY <1>2 DEF Sorted
<1>. QED BY <1>1, <1>2, <1>3

LEMMA FilterStays ==
    ASSUME query' = query
    PROVE  /\ \A r : (Passes(r))' <=> Passes(r)
           /\ AllMatches' = AllMatches
           /\ FromSkip' = FromSkip
           /\ ClientPages' <=> ClientPages
<1>1. \A r : (Passes(r))' <=> Passes(r)
  BY DEF Passes, Of
<1>2. AllMatches' = AllMatches
  BY <1>1 DEF AllMatches
<1>3. (Sorted(AllMatches))' = Sorted(AllMatches)
  BY <1>2, OrderStays
<1>4. FromSkip' = FromSkip
  BY <1>3 DEF FromSkip, Window
<1>5. ClientPages' <=> ClientPages
  BY DEF ClientPages
<1>. QED BY <1>1, <1>2, <1>4, <1>5

\* While the client asks for the same page, the handler decides the same.
LEMMA DecisionsStay ==
    ASSUME cfg' = cfg, query' = query
    PROVE  /\ Path' = Path
           /\ InSql' <=> InSql
           /\ request' = request => /\ Refused' <=> Refused
                                    /\ Manual' <=> Manual
                                    /\ Skip' = Skip
                                    /\ \A r : (Behind(r))' <=> Behind(r)
           /\ Page' = Page
           /\ Start' = Start
<1>1. (Path' = Path) /\ (InSql' <=> InSql)
  BY DEF Path, InSql, MixedInSql, PostInSql, LambdaInSql, PostRemains, PostTried, LambdaTried,
         NavInMemory, NavHeld, NavGivenUp, NavRefused, MixedTranslated, Postgres
<1>2. Page' = Page
  BY DEF Page, PageSize, Top
<1>3. Start' = Start
  BY DEF Start
<1>4. ASSUME request' = request
      PROVE  /\ Manual' <=> Manual
             /\ Skip' = Skip
             /\ \A r : (Behind(r))' <=> Behind(r)
  BY <1>4, OrderStays DEF Manual, Skip, Behind
<1>5. ASSUME request' = request
      PROVE  Refused' <=> Refused
  <2>1. (NavRefused' <=> NavRefused) /\ (FunctionsRefused' <=> FunctionsRefused)
    BY DEF NavRefused, NavHeld, NavGivenUp, MixedTranslated, FunctionsRefused, Postgres
  <2>2. (PostRefused' <=> PostRefused) /\ (LambdaRefused' <=> LambdaRefused)
    BY DEF PostRefused, PostTried, PostInSql, PostRemains, LambdaRefused, LambdaInSql, LambdaTried,
           NavInMemory, NavHeld, NavGivenUp, NavRefused, MixedTranslated, Postgres
  <2>3. (RangeRefused' <=> RangeRefused) /\ (TokenRefused' <=> TokenRefused)
    BY <1>5 DEF RangeRefused, TokenRefused
  <2>. QED BY <2>1, <2>2, <2>3 DEF Refused
<1>. QED BY <1>1, <1>2, <1>3, <1>4, <1>5

-----------------------------------------------------------------------------
(* The base: types, stages and page sizes.                                 *)

LEMMA InitBase ==
    ASSUME Init
    PROVE  BaseInv
<1>1. PICK c \in Cases : cfg = c.cfg /\ query = c.query
  BY DEF Init
<1>2. [cfg |-> cfg, query |-> query] \in Cases
  <2>1. c = [cfg |-> c.cfg, query |-> c.query]
    BY CasesAssumption
  <2>. QED BY <1>1, <2>1
<1>3. query.skip \in Nat \cup {NotGiven}
  BY <1>2, TypesOfTheCase DEF Query
<1>4. cfg.size \in Nat
  BY <1>2, TypesOfTheCase DEF Setting
<1>5. TypeOK
  <2>1. answer = NoAnswer /\ NoAnswer.rows = <<>> /\ Len(<<>>) = 0
        /\ NoAnswer \in [rows : Seq(Row), link : Row \cup {NoRow}, total : Nat \cup {NotGiven}]
    BY DEF Init, NoAnswer
  <2>2. request \in [skip : Nat \cup {NotGiven}, token : Row \cup {NoRow}]
    BY <1>3 DEF Init
  <2>3. /\ table \subseteq Row /\ raced \in BOOLEAN
        /\ counted = NotCounted /\ first = NotCounted /\ phase = "asked"
    BY DEF Init
  <2>5. ids \in Seq(Row) /\ seen \in Seq(Row)
    BY EmptySeq DEF Init
  <2>4. Len(answer.rows) <= cfg.size
    BY <1>4, <2>1
  <2>. QED BY <1>2, <2>1, <2>2, <2>3, <2>4, <2>5 DEF TypeOK
<1>6. StageInv /\ IdsInv
  BY DEF Init, StageInv, IdsInv
<1>. QED BY <1>5, <1>6 DEF BaseInv

\* The rows a statement can see, and the rows that match, are rows.
LEMMA RowsThereAre ==
    ASSUME TypeOK
    PROVE  /\ Selected \in SUBSET Row /\ Matching \in SUBSET Row /\ AllMatches \in SUBSET Row
           /\ Cardinality(Selected) \in Nat /\ Cardinality(Matching) \in Nat
           /\ Cardinality(AllMatches) \in Nat
           /\ Sorted(Selected) \in Seq(Row) /\ Ordered(Sorted(Selected))
           /\ Sorted(Matching) \in Seq(Row) /\ Ordered(Sorted(Matching))
           /\ ToSet(Sorted(Selected)) = Selected /\ ToSet(Sorted(Matching)) = Matching
<1>1. Selected \in SUBSET Row
  BY DEF Selected, TypeOK
<1>2. Matching \in SUBSET Row
  BY <1>1 DEF Matching
<1>3. AllMatches \in SUBSET Row
  BY DEF AllMatches
<1>4. /\ Cardinality(Selected) \in Nat /\ Cardinality(Matching) \in Nat
      /\ Cardinality(AllMatches) \in Nat
  BY <1>1, <1>2, <1>3, RowsAreFinite
<1>5. /\ Sorted(Selected) \in Seq(Selected) /\ Ordered(Sorted(Selected))
      /\ ToSet(Sorted(Selected)) = Selected
  BY <1>1, SortedIsInOrder
<1>6. /\ Sorted(Matching) \in Seq(Matching) /\ Ordered(Sorted(Matching))
      /\ ToSet(Sorted(Matching)) = Matching
  BY <1>2, SortedIsInOrder
<1>7. Sorted(Selected) \in Seq(Row) /\ Sorted(Matching) \in Seq(Row)
  BY <1>1, <1>2, <1>5, <1>6, SeqMonotonic
<1>. QED BY <1>1, <1>2, <1>3, <1>4, <1>5, <1>6, <1>7

LEMMA TypedSizes ==
    ASSUME TypeOK
    PROVE  /\ Page \in Nat \ {0} /\ Page <= cfg.size /\ cfg.size \in Nat /\ Skip \in Nat
           /\ Limit \in Nat /\ (Manual => Limit = Page) /\ (~Manual => Limit = Page + 1)
BY Sizes DEF TypeOK

\* What a handler leaves alone while it serves a request.
Settled == UNCHANGED <<cfg, query, table, request, counted, raced>>

LEMMA RespondBase ==
    ASSUME BaseInv, Settled,
           NEW paged, paged.rows \in Seq(Row), paged.link \in Row \cup {NoRow},
           Len(paged.rows) <= cfg.size,
           NEW total \in Nat \cup {NotGiven}, Respond(paged, total)
    PROVE  BaseInv'
<1>1. answer' \in [rows : Seq(Row), link : Row \cup {NoRow}, total : Nat \cup {NotGiven}]
      /\ Len(answer'.rows) <= cfg.size
  BY DEF Respond
<1>2. seen' \in Seq(Row)
  <2>1. seen \in Seq(Row) /\ seen \o paged.rows \in Seq(Row)
    BY ConcatProperties DEF BaseInv, TypeOK
  <2>. QED BY <2>1 DEF Respond
<1>3. first' \in Nat \cup {NotCounted}
  BY DEF Respond, BaseInv, TypeOK, NotCounted, NotGiven
<1>4. TypeOK'
  BY <1>1, <1>2, <1>3 DEF TypeOK, BaseInv, Respond, Settled
<1>5. StageInv' /\ IdsInv'
  BY DEF StageInv, IdsInv, Respond
<1>. QED BY <1>4, <1>5 DEF BaseInv

LEMMA RefuseBase ==
    ASSUME BaseInv, Settled, Refuse
    PROVE  BaseInv'
<1>1. TypeOK'
  BY DEF TypeOK, BaseInv, Refuse, Settled
<1>2. StageInv' /\ IdsInv'
  BY DEF StageInv, IdsInv, Refuse
<1>. QED BY <1>1, <1>2 DEF BaseInv

\* What SelectIds and FindRows select.
LEMMA IdsBase ==
    ASSUME BaseInv, Settled, UNCHANGED <<answer, seen, first>>,
           ~Refused,
           \/ phase' = "selected" /\ InSql
           \/ phase' = "found" /\ Path = "find",
           ids' \in Seq(Row), Ordered(ids'),
           Manual \/ Path = "lambda_sql" => Len(ids') <= Page
    PROVE  BaseInv'
<1>1. TypeOK'
  BY DEF TypeOK, BaseInv, Settled
<1>2. cfg' = cfg /\ query' = query /\ request' = request
  BY DEF Settled
<1>3. /\ Path' = Path /\ (InSql' <=> InSql) /\ Page' = Page
      /\ (Refused' <=> Refused) /\ (Manual' <=> Manual)
  BY <1>2, DecisionsStay
<1>4. StageInv'
  BY <1>3 DEF StageInv
<1>5. (Ordered(ids))'
  <2>1. \A seq : (\A i, j \in 1..Len(seq) : i < j => Before(seq[i], seq[j])')
                 <=> (\A i, j \in 1..Len(seq) : i < j => Before(seq[i], seq[j]))
    BY <1>2, OrderStays
  <2>. QED BY <2>1 DEF Ordered
<1>6. IdsInv'
  BY <1>3, <1>5 DEF IdsInv, Page
<1>. QED BY <1>1, <1>4, <1>6 DEF BaseInv

\* The pages of SelectIds: at most one row more than the page size.
LEMMA SelectIdsBase ==
    ASSUME BaseInv, SelectIds
    PROVE  BaseInv'
<1>1. TypeOK
  BY DEF BaseInv
<1>. DEFINE offset == IF Path = "lambda_sql" /\ ~Manual THEN 0 ELSE Skip
<1>. DEFINE limit == IF Path = "lambda_sql" THEN Page ELSE Limit
<1>2. offset \in Nat /\ limit \in Nat /\ (Manual \/ Path = "lambda_sql" => limit = Page)
  BY <1>1, TypedSizes
<1>3. ids' = Window(Sorted(Matching), offset, limit)
  BY DEF SelectIds, Page
<1>. HIDE DEF offset, limit
<1>4. ids' \in Seq(Row) /\ Ordered(ids') /\ Len(ids') <= limit
  BY <1>1, <1>2, <1>3, RowsThereAre, WindowIsAPart
<1>5. Settled /\ UNCHANGED <<answer, seen, first>> /\ ~Refused /\ InSql /\ phase' = "selected"
  BY DEF SelectIds, Settled
<1>. QED BY <1>2, <1>4, <1>5, IdsBase

LEMMA FindRowsBase ==
    ASSUME BaseInv, FindRows
    PROVE  BaseInv'
<1>1. TypeOK
  BY DEF BaseInv
<1>2. Skip \in Nat /\ Limit \in Nat /\ (Manual => Limit = Page)
  BY <1>1, TypedSizes
<1>3. ids' = Window(Sorted(Selected), Skip, Limit)
  BY DEF FindRows
<1>4. ids' \in Seq(Row) /\ Ordered(ids') /\ Len(ids') <= Limit
  BY <1>1, <1>2, <1>3, RowsThereAre, WindowIsAPart
<1>5. /\ Settled /\ UNCHANGED <<answer, seen, first>> /\ ~Refused
      /\ Path = "find" /\ phase' = "found"
  BY DEF FindRows, Settled
<1>6. Path # "lambda_sql"
  BY <1>5
<1>. QED BY <1>2, <1>4, <1>5, <1>6, IdsBase

\* A page of Paged has no more rows than the page size when nothing longer goes in.
LEMMA PagedFits ==
    ASSUME TypeOK, NEW seq \in Seq(Row), Ordered(seq), Manual => Len(seq) <= Page
    PROVE  /\ Paged(seq).rows \in Seq(Row)
           /\ Paged(seq).link \in Row \cup {NoRow}
           /\ Len(Paged(seq).rows) <= cfg.size
<1>1. Page \in Nat \ {0} /\ Page <= cfg.size /\ cfg.size \in Nat
  BY TypedSizes
<1>2. /\ Paged(seq).rows \in Seq(Row) /\ Paged(seq).link \in Row \cup {NoRow}
      /\ Manual => Paged(seq).rows = seq
      /\ ~Manual => Len(Paged(seq).rows) <= Page
  BY <1>1, PagedIsAPage
<1>3. Len(Paged(seq).rows) \in Nat
  BY <1>2
<1>. QED BY <1>1, <1>2, <1>3

LEMMA FetchRowsBase ==
    ASSUME BaseInv, FetchRows
    PROVE  BaseInv'
<1>1. TypeOK /\ phase = "selected"
  BY DEF BaseInv, FetchRows
<1>2. ids \in Seq(Row) /\ Ordered(ids) /\ (Manual \/ Path = "lambda_sql" => Len(ids) <= Page)
  BY <1>1 DEF BaseInv, IdsInv, TypeOK, Page
<1>. DEFINE rows == Among(ids, Selected)
<1>3. rows \in Seq(Row) /\ Ordered(rows) /\ Len(rows) <= Len(ids)
  BY <1>2, AmongIsInOrder
<1>. HIDE DEF rows
<1>4. Manual \/ Path = "lambda_sql" => Len(rows) <= Page
  <2>1. Len(rows) \in Nat /\ Len(ids) \in Nat /\ Page \in Nat
    BY <1>1, <1>2, <1>3, TypedSizes
  <2>. QED BY <1>2, <1>3, <2>1
<1>. DEFINE paged == IF Path = "lambda_sql" THEN [rows |-> rows, link |-> NoRow] ELSE Paged(rows)
<1>. DEFINE total == IF query.count THEN answer.total ELSE NotGiven
<1>5. Settled /\ Respond(paged, total)
  BY DEF FetchRows, Settled, rows
<1>6. total \in Nat \cup {NotGiven}
  BY <1>1 DEF TypeOK
<1>7. paged.rows \in Seq(Row) /\ paged.link \in Row \cup {NoRow} /\ Len(paged.rows) <= cfg.size
  <2>1. CASE Path = "lambda_sql"
    <3>1. paged = [rows |-> rows, link |-> NoRow]
      BY <2>1
    <3>2. Len(rows) \in Nat /\ Page \in Nat /\ Page <= cfg.size /\ cfg.size \in Nat
      BY <1>1, <1>3, TypedSizes
    <3>. QED BY <1>3, <1>4, <2>1, <3>1, <3>2
  <2>2. CASE Path # "lambda_sql"
    <3>1. paged = Paged(rows)
      BY <2>2
    <3>. QED BY <1>1, <1>3, <1>4, <3>1, PagedFits
  <2>. QED BY <2>1, <2>2
<1>. HIDE DEF paged, total
<1>. QED BY <1>5, <1>6, <1>7, RespondBase

LEMMA ScanLambdasBase ==
    ASSUME BaseInv, ScanLambdas
    PROVE  BaseInv'
<1>1. TypeOK
  BY DEF BaseInv
<1>2. Settled
  BY DEF ScanLambdas, Settled
<1>3. CASE Cardinality(Selected) > MaxLambdaScan
  BY <1>2, <1>3, RefuseBase DEF ScanLambdas
<1>4. CASE ~(Cardinality(Selected) > MaxLambdaScan)
  <2>. DEFINE offset == IF Manual THEN Skip ELSE 0
  <2>. DEFINE paged == [rows |-> Window(Sorted(Matching), offset, PageSize(Top)), link |-> NoRow]
  <2>. DEFINE total == IF query.count THEN Cardinality(Matching) ELSE NotGiven
  <2>1. Respond(paged, total)
    BY <1>4 DEF ScanLambdas
  <2>2. offset \in Nat /\ Page \in Nat /\ Page <= cfg.size /\ cfg.size \in Nat
    BY <1>1, TypedSizes
  <2>3. total \in Nat \cup {NotGiven}
    BY <1>1, RowsThereAre
  <2>. HIDE DEF offset
  <2>4. /\ Window(Sorted(Matching), offset, Page) \in Seq(Row)
        /\ Len(Window(Sorted(Matching), offset, Page)) <= Page
        /\ Len(Window(Sorted(Matching), offset, Page)) \in Nat
    BY <1>1, <2>2, RowsThereAre, WindowIsAPart
  <2>5. paged.rows \in Seq(Row) /\ paged.link \in Row \cup {NoRow} /\ Len(paged.rows) <= cfg.size
    BY <2>2, <2>4 DEF Page
  <2>. HIDE DEF paged, total
  <2>. QED BY <1>2, <2>1, <2>3, <2>5, RespondBase
<1>. QED BY <1>3, <1>4

LEMMA ScanRowsBase ==
    ASSUME BaseInv, ScanRows
    PROVE  BaseInv'
<1>1. TypeOK
  BY DEF BaseInv
<1>2. Settled
  BY DEF ScanRows, Settled
<1>. DEFINE rows == Window(Sorted(Selected), Skip, MaxScan + 1)
<1>. DEFINE kept == Among(rows, {r \in Row : Passes(r)})
<1>. DEFINE turned == IF Manual THEN Window(kept, Skip, PageSize(Top)) ELSE kept
<1>. DEFINE total == IF query.count THEN Len(kept) ELSE NotGiven
<1>3. Refuse \/ Respond(Paged(turned), total)
  BY DEF ScanRows
<1>4. Skip \in Nat /\ Page \in Nat /\ MaxScan + 1 \in Nat
  BY <1>1, TypedSizes, BoundsAssumption
<1>5. rows \in Seq(Row)
  BY <1>1, <1>4, RowsThereAre, WindowIsAPart
<1>. HIDE DEF rows
<1>6. kept \in Seq(Row) /\ Ordered(kept)
  BY <1>5, AmongIsInOrder
<1>. HIDE DEF kept
<1>7. turned \in Seq(Row) /\ Ordered(turned) /\ (Manual => Len(turned) <= Page)
  <2>1. /\ Window(kept, Skip, Page) \in Seq(Row)
        /\ Ordered(Window(kept, Skip, Page))
        /\ Len(Window(kept, Skip, Page)) <= Page
    BY <1>4, <1>6, WindowIsAPart
  <2>. QED BY <1>6, <2>1 DEF Page
<1>8. total \in Nat \cup {NotGiven}
  BY <1>6
<1>. HIDE DEF turned, total
<1>9. /\ Paged(turned).rows \in Seq(Row)
      /\ Paged(turned).link \in Row \cup {NoRow}
      /\ Len(Paged(turned).rows) <= cfg.size
  BY <1>1, <1>7, PagedFits
<1>10. CASE Refuse
  BY <1>2, <1>10, RefuseBase
<1>11. CASE Respond(Paged(turned), total)
  BY <1>2, <1>8, <1>9, <1>11, RespondBase
<1>. QED BY <1>3, <1>10, <1>11

LEMMA CountFoundBase ==
    ASSUME BaseInv, CountFound
    PROVE  BaseInv'
<1>1. TypeOK /\ phase = "found"
  BY DEF BaseInv, CountFound
<1>2. ids \in Seq(Row) /\ Ordered(ids) /\ (Manual => Len(ids) <= Page)
  BY <1>1 DEF BaseInv, IdsInv, TypeOK, Page
<1>. DEFINE total == IF query.count THEN Cardinality(Selected) ELSE NotGiven
<1>3. Settled /\ Respond(Paged(ids), total)
  BY DEF CountFound, Settled
<1>4. total \in Nat \cup {NotGiven}
  BY <1>1, RowsThereAre
<1>. HIDE DEF total
<1>5. /\ Paged(ids).rows \in Seq(Row)
      /\ Paged(ids).link \in Row \cup {NoRow}
      /\ Len(Paged(ids).rows) <= cfg.size
  BY <1>1, <1>2, PagedFits
<1>. QED BY <1>3, <1>4, <1>5, RespondBase

LEMMA CountRowsBase ==
    ASSUME BaseInv, CountRows
    PROVE  BaseInv'
<1>1. TypeOK /\ Cardinality(Matching) \in Nat
  BY RowsThereAre DEF BaseInv
<1>2. answer' \in [rows : Seq(Row), link : Row \cup {NoRow}, total : Nat \cup {NotGiven}]
      /\ Len(answer'.rows) <= cfg.size
  <2>1. answer' = [rows |-> <<>>, link |-> NoRow, total |-> Cardinality(Matching)]
    BY DEF CountRows, NoAnswer
  <2>2. Len(<<>>) = 0 /\ <<>> \in Seq(Row) /\ cfg.size \in Nat
    BY <1>1, TypedSizes, EmptySeq
  <2>. QED BY <1>1, <2>1, <2>2
<1>3. TypeOK'
  BY <1>1, <1>2 DEF TypeOK, CountRows
<1>4. cfg' = cfg /\ query' = query /\ request' = request
  BY DEF CountRows
<1>5. (InSql' <=> InSql) /\ (Refused' <=> Refused)
  BY <1>4, DecisionsStay
<1>6. StageInv' /\ IdsInv'
  BY <1>5 DEF StageInv, IdsInv, CountRows
<1>. QED BY <1>3, <1>6 DEF BaseInv

LEMMA FollowBase ==
    ASSUME BaseInv, Follow
    PROVE  BaseInv'
<1>1. TypeOK'
  <2>1. request' \in [skip : Nat \cup {NotGiven}, token : Row \cup {NoRow}]
    BY DEF Follow, BaseInv, TypeOK
  <2>. QED BY <2>1 DEF Follow, BaseInv, TypeOK
<1>2. StageInv' /\ IdsInv'
  BY DEF StageInv, IdsInv, Follow
<1>. QED BY <1>1, <1>2 DEF BaseInv

LEMMA TurnBase ==
    ASSUME BaseInv, Turn
    PROVE  BaseInv'
<1>1. TypeOK'
  <2>1. request \in [skip : Nat \cup {NotGiven}, token : Row \cup {NoRow}] /\ request.skip # NotGiven
    BY DEF Turn, Manual, BaseInv, TypeOK
  <2>2. Len(answer.rows) \in Nat
    BY DEF BaseInv, TypeOK
  <2>3. request' = [request EXCEPT !.skip = request.skip + Len(answer.rows)]
    BY DEF Turn
  <2>4. request' \in [skip : Nat \cup {NotGiven}, token : Row \cup {NoRow}]
    BY <2>1, <2>2, <2>3
  <2>. QED BY <2>4 DEF Turn, BaseInv, TypeOK
<1>2. StageInv' /\ IdsInv'
  BY DEF StageInv, IdsInv, Turn
<1>. QED BY <1>1, <1>2 DEF BaseInv

\* Neither $count nor a deletion is a step of the handler.
LEMMA OthersBase ==
    ASSUME BaseInv, Count \/ \E r \in Row : Delete(r)
    PROVE  BaseInv'
<1>1. cfg' = cfg /\ query' = query /\ request' = request /\ phase' = phase /\ ids' = ids
  BY DEF Count, Delete
<1>2. /\ Path' = Path /\ (InSql' <=> InSql) /\ Page' = Page
      /\ (Refused' <=> Refused) /\ (Manual' <=> Manual)
  BY <1>1, DecisionsStay
<1>3. StageInv'
  BY <1>1, <1>2 DEF BaseInv, StageInv
<1>4. (Ordered(ids))' <=> Ordered(ids)
  BY <1>1, OrderStays DEF Ordered
<1>5. IdsInv'
  BY <1>1, <1>2, <1>4 DEF BaseInv, IdsInv, Page
<1>6. CASE Count
  <2>1. counted' \in Nat \cup {NotCounted, NoCount}
    <3>. DEFINE S == {r \in Countable : Passes(r)}
    <3>1. S \in SUBSET Row
      BY DEF Countable, BaseInv, TypeOK
    <3>. HIDE DEF S
    <3>2. Cardinality(S) \in Nat
      BY <3>1, RowsAreFinite
    <3>. QED BY <1>6, <3>2 DEF Count, S
  <2>2. TypeOK'
    BY <1>6, <2>1 DEF Count, BaseInv, TypeOK
  <2>. QED BY <1>3, <1>5, <2>2 DEF BaseInv
<1>7. CASE \E r \in Row : Delete(r)
  <2>1. TypeOK'
    BY <1>7 DEF Delete, BaseInv, TypeOK
  <2>. QED BY <1>3, <1>5, <2>1 DEF BaseInv
<1>. QED BY <1>6, <1>7

LEMMA StutterBase ==
    ASSUME BaseInv, UNCHANGED vars
    PROVE  BaseInv'
<1>1. cfg' = cfg /\ query' = query /\ request' = request /\ phase' = phase /\ ids' = ids
  BY DEF vars
<1>2. /\ Path' = Path /\ (InSql' <=> InSql) /\ Page' = Page
      /\ (Refused' <=> Refused) /\ (Manual' <=> Manual)
  BY <1>1, DecisionsStay
<1>3. (Ordered(ids))' <=> Ordered(ids)
  BY <1>1, OrderStays DEF Ordered
<1>4. StageInv' /\ IdsInv'
  BY <1>1, <1>2, <1>3 DEF BaseInv, StageInv, IdsInv, Page
<1>5. TypeOK'
  BY DEF BaseInv, TypeOK, vars
<1>. QED BY <1>4, <1>5 DEF BaseInv

LEMMA NextBase ==
    ASSUME BaseInv, [Next]_vars
    PROVE  BaseInv'
<1>1. CASE Refusal
  BY <1>1, RefuseBase DEF Refusal, Settled
<1>2. CASE UNCHANGED vars
  BY <1>2, StutterBase
<1>. QED BY <1>1, <1>2, CountRowsBase, SelectIdsBase, FetchRowsBase, ScanLambdasBase, ScanRowsBase,
            FindRowsBase, CountFoundBase, FollowBase, TurnBase, OthersBase
         DEF Next, Serve

THEOREM BaseIsInvariant == Spec => []BaseInv
<1>1. Init => BaseInv
  BY InitBase
<1>2. BaseInv /\ [Next]_vars => BaseInv'
  BY NextBase
<1>. QED BY <1>1, <1>2, PTL DEF Spec

\* The state is of its type, and on each of the five paths, whatever $top and
\* maxTop say, a page has no more rows than the page size of the server
\* (resolvePageSize, applyServerDrivenPaging).
THEOREM TypeCorrect == Spec => []TypeOK
<1>1. BaseInv => TypeOK
  BY DEF BaseInv
<1>. QED BY <1>1, BaseIsInvariant, PTL

-----------------------------------------------------------------------------
(* The answers: matches only, counted right.                               *)

\* A filter that the datasource evaluates alone has no other parts.
LEMMA FoundRowsPass ==
    ASSUME TypeOK, ~Refused, Path = "find"
    PROVE  \A r : Passes(r)
<1>1. ~query.post.on /\ ~NavInMemory /\ ~query.lambda.on /\ ~MixedInSql
  BY DEF Path, PostRemains
<1>2. ~NavRefused
  BY DEF Refused
<1>3. ~query.nav.on
  BY <1>1, <1>2 DEF NavInMemory, NavHeld, MixedInSql
<1>. QED BY <1>1, <1>3 DEF Passes, Of

LEMMA MatchesOfAPage ==
    ASSUME TypeOK
    PROVE  /\ Matching \subseteq AllMatches /\ Matching \subseteq Selected
           /\ Selected \cap {r \in Row : Passes(r)} = Matching
           /\ table = Row /\ request.token = NoRow => Matching = AllMatches
           /\ ~Refused /\ Path = "find" => Matching = Selected
<1>1. Selected \subseteq Row /\ Matching \subseteq Selected
  BY DEF Selected, Matching, TypeOK
<1>2. \A r \in Selected : r \in query.repo
  BY DEF Selected
<1>3. Matching \subseteq AllMatches
  BY <1>1, <1>2 DEF Matching, AllMatches
<1>4. Selected \cap {r \in Row : Passes(r)} = Matching
  BY <1>1 DEF Matching
<1>5. table = Row /\ request.token = NoRow => Matching = AllMatches
  BY DEF Matching, AllMatches, Selected, Behind
<1>6. ~Refused /\ Path = "find" => Matching = Selected
  BY FoundRowsPass DEF Matching
<1>. QED BY <1>1, <1>3, <1>4, <1>5, <1>6

\* What the steps that end a request have in common.
Answered ==
    /\ phase' = "answered"
    /\ answer'.rows \in Seq(Row)
    /\ seen' = IF Len(seen) > Cardinality(Row) THEN seen ELSE seen \o answer'.rows
    /\ first' = IF request.token = NoRow /\ seen = <<>> THEN answer'.total ELSE first
    /\ UNCHANGED ids
    /\ ToSet(answer'.rows) \subseteq AllMatches
    /\ Manual => answer'.link = NoRow
    /\ /\ answer'.total # NotGiven
       /\ table = Row /\ request.token = NoRow
       /\ Path = "scan" => Skip = 0
       => answer'.total = Cardinality(AllMatches)

LEMMA RespondAnswers ==
    ASSUME NEW paged, NEW total, Respond(paged, total),
           paged.rows \in Seq(Row), ToSet(paged.rows) \subseteq AllMatches,
           Manual => paged.link = NoRow,
           /\ total # NotGiven
           /\ table = Row /\ request.token = NoRow
           /\ Path = "scan" => Skip = 0
           => total = Cardinality(AllMatches)
    PROVE  Answered
<1>1. answer'.rows = paged.rows /\ answer'.link = paged.link /\ answer'.total = total
  BY DEF Respond
<1>. QED BY <1>1 DEF Respond, Answered

LEMMA FetchRowsAnswers ==
    ASSUME BaseInv, MatchInv, TotalInv, FetchRows
    PROVE  Answered
<1>1. TypeOK /\ phase = "selected" /\ ids \in Seq(Row) /\ ToSet(ids) \subseteq AllMatches
  BY DEF BaseInv, FetchRows, TypeOK, MatchInv
<1>. DEFINE rows == Among(ids, Selected)
<1>. DEFINE paged == IF Path = "lambda_sql" THEN [rows |-> rows, link |-> NoRow] ELSE Paged(rows)
<1>. DEFINE total == IF query.count THEN answer.total ELSE NotGiven
<1>2. Respond(paged, total)
  BY DEF FetchRows
<1>3. rows \in Seq(Row) /\ Ordered(rows) /\ ToSet(rows) = ToSet(ids) \cap Selected
  BY <1>1, AmongIsInOrder
<1>. HIDE DEF rows
<1>4. Page \in Nat \ {0}
  BY <1>1, TypedSizes
<1>5. /\ Paged(rows).rows \in Seq(Row) /\ ToSet(Paged(rows).rows) \subseteq ToSet(rows)
      /\ Manual => Paged(rows).link = NoRow
  BY <1>3, <1>4, PagedIsAPage
<1>6. /\ paged.rows \in Seq(Row) /\ ToSet(paged.rows) \subseteq ToSet(rows)
      /\ Manual => paged.link = NoRow
  BY <1>3, <1>5
<1>7. total # NotGiven /\ table = Row /\ request.token = NoRow => total = Cardinality(AllMatches)
  BY <1>1 DEF TotalInv
<1>. HIDE DEF paged, total
<1>. QED BY <1>1, <1>2, <1>3, <1>6, <1>7, RespondAnswers

LEMMA CountFoundAnswers ==
    ASSUME BaseInv, MatchInv, CountFound
    PROVE  Answered
<1>1. /\ TypeOK /\ phase = "found" /\ ids \in Seq(Row) /\ ToSet(ids) \subseteq AllMatches
      /\ Ordered(ids) /\ ~Refused /\ Path = "find"
  BY DEF BaseInv, CountFound, TypeOK, MatchInv, StageInv, IdsInv
<1>. DEFINE total == IF query.count THEN Cardinality(Selected) ELSE NotGiven
<1>2. Respond(Paged(ids), total)
  BY DEF CountFound
<1>3. Page \in Nat \ {0}
  BY <1>1, TypedSizes
<1>4. /\ Paged(ids).rows \in Seq(Row) /\ ToSet(Paged(ids).rows) \subseteq ToSet(ids)
      /\ Manual => Paged(ids).link = NoRow
  BY <1>1, <1>3, PagedIsAPage
<1>5. total # NotGiven /\ table = Row /\ request.token = NoRow => total = Cardinality(AllMatches)
  BY <1>1, MatchesOfAPage
<1>. HIDE DEF total
<1>. QED BY <1>1, <1>2, <1>4, <1>5, RespondAnswers

LEMMA ScanLambdasAnswers ==
    ASSUME BaseInv, ScanLambdas
    PROVE  Refuse \/ Answered
<1>1. TypeOK
  BY DEF BaseInv
<1>. SUFFICES ASSUME ~(Cardinality(Selected) > MaxLambdaScan)
              PROVE  Answered
  BY DEF ScanLambdas
<1>. DEFINE offset == IF Manual THEN Skip ELSE 0
<1>. DEFINE rows == Window(Sorted(Matching), offset, Page)
<1>. DEFINE paged == [rows |-> rows, link |-> NoRow]
<1>. DEFINE total == IF query.count THEN Cardinality(Matching) ELSE NotGiven
<1>2. Respond(paged, total)
  BY DEF ScanLambdas, Page
<1>3. offset \in Nat /\ Page \in Nat
  BY <1>1, TypedSizes
<1>. HIDE DEF offset
<1>4. /\ Sorted(Matching) \in Seq(Row) /\ ToSet(Sorted(Matching)) = Matching
      /\ Matching \subseteq AllMatches
  BY <1>1, RowsThereAre, MatchesOfAPage
<1>5. rows \in Seq(Row) /\ ToSet(rows) \subseteq ToSet(Sorted(Matching))
  <2>1. /\ rows \in Seq(Row)
        /\ ToSet(rows) = Positions(Sorted(Matching), offset, offset + Page)
    BY <1>3, <1>4, WindowIsAPart
  <2>2. Positions(Sorted(Matching), offset, offset + Page) \subseteq ToSet(Sorted(Matching))
    BY <1>4, PositionsAreOfTheSequence
  <2>. HIDE DEF rows
  <2>. QED BY <2>1, <2>2
<1>6. total # NotGiven /\ table = Row /\ request.token = NoRow => total = Cardinality(AllMatches)
  BY <1>1, MatchesOfAPage
<1>. HIDE DEF rows, total
<1>7. paged.rows = rows /\ paged.link = NoRow
  OBVIOUS
<1>. HIDE DEF paged
<1>. QED BY <1>2, <1>4, <1>5, <1>6, <1>7, RespondAnswers

\* The rows that a scan keeps are the matches among those from $skip on.
LEMMA ScanKeepsMatches ==
    ASSUME TypeOK, NEW rows, rows = Window(Sorted(Selected), Skip, MaxScan + 1)
    PROVE  /\ rows \in Seq(Row)
           /\ ToSet(rows) \subseteq Selected
           /\ Skip = 0 /\ ~(Len(rows) > MaxScan) => ToSet(rows) = Selected
<1>1. Skip \in Nat /\ MaxScan + 1 \in Nat /\ MaxScan \in Nat
  BY TypedSizes, BoundsAssumption
<1>2. Sorted(Selected) \in Seq(Row) /\ ToSet(Sorted(Selected)) = Selected
  BY RowsThereAre
<1>. DEFINE all == Sorted(Selected)
<1>3. /\ Len(all) \in Nat
      /\ ToSet(all) = {all[i] : i \in 1..Len(all)}
      /\ \A i \in 1..Len(all) : all[i] \in ToSet(all)
  BY <1>2, ToSetIsRange
<1>. HIDE DEF all
<1>4. /\ rows \in Seq(Row)
      /\ Len(rows) = Max2(Min2(MaxScan + 1, Len(all) - Skip), 0)
      /\ ToSet(rows) = Positions(all, Skip, Skip + (MaxScan + 1))
  BY <1>1, <1>2, WindowIsAPart DEF all
<1>5. ToSet(rows) \subseteq ToSet(all)
  BY <1>2, <1>4, PositionsAreOfTheSequence DEF all
<1>6. ASSUME Skip = 0, ~(Len(rows) > MaxScan)
      PROVE  ToSet(all) \subseteq ToSet(rows)
  <2>1. Len(all) <= MaxScan
    BY <1>1, <1>3, <1>4, <1>6 DEF Max2, Min2
  <2>2. \A i \in 1..Len(all) : i \in {n \in 1..Len(all) : Skip < n /\ n <= Skip + (MaxScan + 1)}
    BY <1>1, <1>3, <1>6, <2>1
  <2>3. \A i \in 1..Len(all) : all[i] \in Positions(all, Skip, Skip + (MaxScan + 1))
    BY <2>2 DEF Positions
  <2>. QED BY <1>3, <1>4, <2>3
<1>. QED BY <1>2, <1>4, <1>5, <1>6 DEF all

LEMMA ScanRowsAnswers ==
    ASSUME BaseInv, ScanRows
    PROVE  Refuse \/ Answered
<1>1. TypeOK /\ Path = "scan"
  BY DEF BaseInv, ScanRows
<1>. DEFINE rows == Window(Sorted(Selected), Skip, MaxScan + 1)
<1>. SUFFICES ASSUME ~(Len(rows) > MaxScan)
              PROVE  Answered
  BY DEF ScanRows
<1>. DEFINE kept == Among(rows, {r \in Row : Passes(r)})
<1>. DEFINE turned == IF Manual THEN Window(kept, Skip, Page) ELSE kept
<1>. DEFINE total == IF query.count THEN Len(kept) ELSE NotGiven
<1>2. Respond(Paged(turned), total)
  BY DEF ScanRows, Page
<1>3. /\ rows \in Seq(Row) /\ ToSet(rows) \subseteq Selected
      /\ Skip = 0 => ToSet(rows) = Selected
  BY <1>1, ScanKeepsMatches
<1>. HIDE DEF rows
<1>. DEFINE passing == {r \in Row : Passes(r)}
<1>4. /\ kept \in Seq(Row) /\ Ordered(kept)
      /\ ToSet(kept) = ToSet(rows) \cap passing
      /\ Len(kept) = Cardinality(ToSet(rows) \cap passing)
  BY <1>3, AmongIsInOrder
<1>5. Selected \cap passing = Matching /\ Matching \subseteq AllMatches
  BY <1>1, MatchesOfAPage
<1>. HIDE DEF kept, passing
<1>6. ToSet(kept) \subseteq AllMatches /\ (Skip = 0 => Len(kept) = Cardinality(Matching))
  BY <1>3, <1>4, <1>5
<1>7. Skip \in Nat /\ Page \in Nat \ {0}
  BY <1>1, TypedSizes
<1>8. turned \in Seq(Row) /\ Ordered(turned) /\ ToSet(turned) \subseteq ToSet(kept)
  <2>1. /\ Window(kept, Skip, Page) \in Seq(Row) /\ Ordered(Window(kept, Skip, Page))
        /\ ToSet(Window(kept, Skip, Page)) = Positions(kept, Skip, Skip + Page)
    BY <1>4, <1>7, WindowIsAPart
  <2>2. Positions(kept, Skip, Skip + Page) \subseteq ToSet(kept)
    BY <1>4, PositionsAreOfTheSequence
  <2>3. ToSet(Window(kept, Skip, Page)) \subseteq ToSet(kept)
    BY <2>1, <2>2
  <2>. QED BY <1>4, <2>1, <2>3
<1>. HIDE DEF turned
<1>9. /\ Paged(turned).rows \in Seq(Row) /\ ToSet(Paged(turned).rows) \subseteq ToSet(turned)
      /\ Manual => Paged(turned).link = NoRow
  BY <1>7, <1>8, PagedIsAPage
<1>10. /\ total # NotGiven /\ table = Row /\ request.token = NoRow /\ (Path = "scan" => Skip = 0)
       => total = Cardinality(AllMatches)
  BY <1>1, <1>6, MatchesOfAPage
<1>. HIDE DEF total
<1>11. ToSet(Paged(turned).rows) \subseteq AllMatches
  BY <1>6, <1>8, <1>9
<1>. QED BY <1>2, <1>9, <1>10, <1>11, RespondAnswers

\* The client pages by itself exactly when its request says so.
LEMMA OwnPages ==
    ASSUME RequestInv
    PROVE  Manual <=> ClientPages
BY DEF RequestInv, Manual, ClientPages

LEMMA InitRequest ==
    ASSUME Init
    PROVE  RequestInv
BY DEF Init, RequestInv, ClientPages, NoAnswer

LEMMA AnsweredRequest ==
    ASSUME BaseInv, RequestInv, Answered, Settled, phase # "answered"
    PROVE  RequestInv'
<1>1. cfg' = cfg /\ query' = query /\ request' = request /\ phase' = "answered"
  BY DEF Settled, Answered
<1>2. ClientPages' <=> ClientPages
  BY <1>1 DEF ClientPages
<1>3. ClientPages => answer'.link = NoRow
  BY OwnPages DEF Answered
<1>4. seen \in Seq(Row) /\ answer'.rows \in Seq(Row) /\ Cardinality(Row) \in Nat
  BY RowsAreFinite DEF BaseInv, TypeOK, Answered
<1>5. /\ seen' = <<>> => seen = <<>>
      /\ answer'.rows # <<>> => seen' # <<>>
  <2>1. Len(seen \o answer'.rows) = Len(seen) + Len(answer'.rows)
        /\ Len(seen) \in Nat /\ Len(answer'.rows) \in Nat
    BY <1>4, ConcatProperties
  <2>2. /\ seen # <<>> => Len(seen) # 0
        /\ answer'.rows # <<>> => Len(answer'.rows) # 0
        /\ Len(<<>>) = 0
    BY <1>4, EmptySeq
  <2>3. (seen' = seen /\ Len(seen) > Cardinality(Row)) \/ seen' = seen \o answer'.rows
    BY DEF Answered
  <2>. QED BY <1>4, <2>1, <2>2, <2>3
<1>. QED BY <1>1, <1>2, <1>3, <1>5 DEF RequestInv

LEMMA NextRequest ==
    ASSUME BaseInv, RequestInv, MatchInv, TotalInv, [Next]_vars
    PROVE  RequestInv'
<1>1. CASE FetchRows
  BY <1>1, FetchRowsAnswers, AnsweredRequest DEF FetchRows, Settled
<1>2. CASE CountFound
  BY <1>2, CountFoundAnswers, AnsweredRequest DEF CountFound, Settled
<1>3. ASSUME Settled, Refuse, phase # "answered"
      PROVE  RequestInv'
  BY <1>3 DEF RequestInv, ClientPages, Settled, Refuse
<1>4. CASE ScanLambdas
  <2>1. Settled /\ phase # "answered"
    BY <1>4 DEF ScanLambdas, Settled
  <2>. QED BY <1>3, <1>4, <2>1, ScanLambdasAnswers, AnsweredRequest
<1>5. CASE ScanRows
  <2>1. Settled /\ phase # "answered"
    BY <1>5 DEF ScanRows, Settled
  <2>. QED BY <1>3, <1>5, <2>1, ScanRowsAnswers, AnsweredRequest
<1>6. CASE Refusal
  BY <1>3, <1>6 DEF Refusal, Settled
<1>7. CASE CountRows
  BY <1>7 DEF CountRows, RequestInv, ClientPages, NoAnswer
<1>8. CASE SelectIds
  BY <1>8 DEF SelectIds, RequestInv, ClientPages
<1>9. CASE FindRows
  BY <1>9 DEF FindRows, RequestInv, ClientPages
<1>10. CASE Follow
  <2>1. ~ClientPages
    BY <1>10 DEF Follow, RequestInv
  <2>2. request'.skip = NotGiven /\ request'.token # NoRow /\ query' = query /\ phase' = "asked"
    BY <1>10 DEF Follow
  <2>3. ~ClientPages'
    BY <2>1, <2>2 DEF ClientPages
  <2>. QED BY <2>2, <2>3 DEF RequestInv
<1>11. CASE Turn
  <2>1. ClientPages /\ request.token = NoRow
    BY <1>11, OwnPages DEF Turn, Manual
  <2>2. request.skip \in Nat /\ Len(answer.rows) \in Nat
        /\ request \in [skip : Nat \cup {NotGiven}, token : Row \cup {NoRow}]
    BY <1>11 DEF Turn, Manual, BaseInv, TypeOK
  <2>3. request'.skip = request.skip + Len(answer.rows) /\ request'.token = request.token
    BY <1>11, <2>2 DEF Turn
  <2>4. request'.skip # NotGiven
    BY <2>2, <2>3 DEF NotGiven
  <2>5. seen' # <<>> /\ answer' = answer /\ cfg' = cfg /\ cfg.maxSkip = NotGiven
        /\ query' = query /\ phase' = "asked"
    BY <1>11 DEF Turn, RequestInv
  <2>6. ClientPages'
    BY <2>1, <2>5 DEF ClientPages
  <2>7. answer'.link = NoRow
    BY <2>1, <2>5 DEF RequestInv
  <2>. QED BY <2>1, <2>3, <2>4, <2>5, <2>6, <2>7 DEF RequestInv
<1>12. CASE Count
  BY <1>12 DEF Count, RequestInv, ClientPages
<1>13. CASE \E r \in Row : Delete(r)
  BY <1>13 DEF Delete, RequestInv, ClientPages
<1>14. CASE UNCHANGED vars
  BY <1>14 DEF vars, RequestInv, ClientPages
<1>. QED BY <1>1, <1>2, <1>4, <1>5, <1>6, <1>7, <1>8, <1>9, <1>10, <1>11, <1>12, <1>13, <1>14
         DEF Next, Serve

LEMMA InitMatches ==
    ASSUME Init
    PROVE  MatchInv /\ TotalInv /\ CountsAgree
<1>1. answer.rows = <<>> /\ phase = "asked" /\ counted = NotCounted /\ first = NotCounted
  BY DEF Init, NoAnswer
<1>2. ToSet(<<>>) = {}
  BY DEF ToSet
<1>. QED BY <1>1, <1>2 DEF MatchInv, TotalInv, CountsAgree

LEMMA AnsweredMatches ==
    ASSUME BaseInv, RequestInv, CountsAgree, Answered, Settled
    PROVE  MatchInv' /\ TotalInv' /\ CountsAgree'
<1>1. /\ cfg' = cfg /\ query' = query /\ request' = request /\ phase' = "answered"
      /\ counted' = counted /\ table' = table
  BY DEF Settled, Answered
<1>2. AllMatches' = AllMatches /\ Path' = Path
  BY <1>1, FilterStays, DecisionsStay
<1>3. MatchInv' /\ TotalInv'
  BY <1>1, <1>2 DEF Answered, MatchInv, TotalInv
<1>4. counted' \in {NotCounted, NoCount, Cardinality(AllMatches)} \/ table' # Row
  BY <1>1 DEF CountsAgree
<1>5. ASSUME table' = Row, first' # NotCounted, query.skip \in {NotGiven, 0} \/ Path # "scan"
      PROVE  first' = Cardinality(AllMatches)
  <2>1. CASE ~(request.token = NoRow /\ seen = <<>>)
    <3>1. first' = first
      BY <2>1 DEF Answered
    <3>. QED BY <1>1, <1>5, <3>1 DEF CountsAgree
  <2>2. CASE request.token = NoRow /\ seen = <<>>
    <3>1. first' = answer'.total
      BY <2>2 DEF Answered
    <3>2. request.skip = query.skip
      BY <2>2 DEF RequestInv
    <3>3. cfg.maxSkip \in Nat \cup {NotGiven}
      BY TypesOfTheCase DEF BaseInv, TypeOK, Setting
    <3>4. query.skip \in {NotGiven, 0} => Skip = 0
      BY <3>2, <3>3 DEF Skip, Max2, Min2, NotGiven
    <3>. QED BY <1>1, <1>5, <2>2, <3>1, <3>4 DEF Answered, NotCounted, NotGiven
  <2>. QED BY <2>1, <2>2
<1>6. CountsAgree'
  BY <1>1, <1>2, <1>4, <1>5 DEF CountsAgree
<1>. QED BY <1>3, <1>6

LEMMA NextMatches ==
    ASSUME BaseInv, RequestInv, MatchInv, TotalInv, CountsAgree, [Next]_vars
    PROVE  MatchInv' /\ TotalInv' /\ CountsAgree'
<1>1. CASE FetchRows
  BY <1>1, FetchRowsAnswers, AnsweredMatches DEF FetchRows, Settled
<1>2. CASE CountFound
  BY <1>2, CountFoundAnswers, AnsweredMatches DEF CountFound, Settled
<1>3. ASSUME cfg' = cfg, query' = query
      PROVE  AllMatches' = AllMatches /\ Path' = Path
  BY <1>3, FilterStays, DecisionsStay
<1>4. ASSUME Settled, Refuse
      PROVE  MatchInv' /\ TotalInv' /\ CountsAgree'
  BY <1>3, <1>4 DEF Settled, Refuse, MatchInv, TotalInv, CountsAgree
<1>5. CASE ScanLambdas
  BY <1>4, <1>5, ScanLambdasAnswers, AnsweredMatches DEF ScanLambdas, Settled
<1>6. CASE ScanRows
  BY <1>4, <1>6, ScanRowsAnswers, AnsweredMatches DEF ScanRows, Settled
<1>7. CASE Refusal
  BY <1>4, <1>7 DEF Refusal, Settled
<1>8. CASE CountRows
  <2>1. /\ cfg' = cfg /\ query' = query /\ request' = request /\ table' = table
        /\ phase' = "counted" /\ counted' = counted /\ first' = first
        /\ answer' = [rows |-> <<>>, link |-> NoRow, total |-> Cardinality(Matching)]
    BY <1>8 DEF CountRows, NoAnswer
  <2>2. ToSet(<<>>) = {}
    BY DEF ToSet
  <2>3. table = Row /\ request.token = NoRow => Matching = AllMatches
    BY MatchesOfAPage DEF BaseInv
  <2>4. MatchInv'
    BY <2>1, <2>2 DEF MatchInv
  <2>5. TotalInv'
    BY <1>3, <2>1, <2>3 DEF TotalInv
  <2>6. CountsAgree'
    BY <1>3, <2>1 DEF CountsAgree
  <2>. QED BY <2>4, <2>5, <2>6
<1>9. ASSUME NEW S \in SUBSET AllMatches, S \in SUBSET Row, NEW offset \in Nat, NEW limit \in Nat
      PROVE  ToSet(Window(Sorted(S), offset, limit)) \subseteq AllMatches
  <2>1. Sorted(S) \in Seq(S)
    BY <1>9, SortedIsInOrder
  <2>2. Window(Sorted(S), offset, limit) \in Seq(S)
    BY <2>1, WindowIsAPart
  <2>3. ToSet(Window(Sorted(S), offset, limit)) \subseteq S
    BY <2>2, ToSetIsRange
  <2>. QED BY <2>3
<1>10. /\ TypeOK /\ Matching \in SUBSET AllMatches /\ Matching \in SUBSET Row
       /\ Selected \in SUBSET Row /\ Skip \in Nat /\ Page \in Nat /\ Limit \in Nat
  BY RowsThereAre, MatchesOfAPage, TypedSizes DEF BaseInv
<1>11. CASE SelectIds
  <2>1. /\ cfg' = cfg /\ query' = query /\ request' = request /\ table' = table
        /\ phase' = "selected" /\ counted' = counted /\ first' = first /\ answer' = answer
        /\ query.count => phase = "counted"
    BY <1>11 DEF SelectIds
  <2>. DEFINE offset == IF Path = "lambda_sql" /\ ~Manual THEN 0 ELSE Skip
  <2>. DEFINE limit == IF Path = "lambda_sql" THEN Page ELSE Limit
  <2>2. offset \in Nat /\ limit \in Nat
    BY <1>10
  <2>3. ids' = Window(Sorted(Matching), offset, limit)
    BY <1>11 DEF SelectIds, Page
  <2>. HIDE DEF offset, limit
  <2>4. ToSet(ids') \subseteq AllMatches
    BY <1>9, <1>10, <2>2, <2>3
  <2>5. MatchInv'
    BY <1>3, <2>1, <2>4 DEF MatchInv
  <2>6. TotalInv'
    BY <1>3, <2>1 DEF TotalInv
  <2>7. CountsAgree'
    BY <1>3, <2>1 DEF CountsAgree
  <2>. QED BY <2>5, <2>6, <2>7
<1>12. CASE FindRows
  <2>1. /\ cfg' = cfg /\ query' = query /\ request' = request /\ table' = table
        /\ phase' = "found" /\ counted' = counted /\ first' = first /\ answer' = answer
        /\ ids' = Window(Sorted(Selected), Skip, Limit)
    BY <1>12 DEF FindRows
  <2>2. Selected = Matching
    BY <1>10, <1>12, MatchesOfAPage DEF FindRows
  <2>3. ToSet(ids') \subseteq AllMatches
    BY <1>9, <1>10, <2>1, <2>2
  <2>4. MatchInv'
    BY <1>3, <2>1, <2>3 DEF MatchInv
  <2>5. TotalInv' /\ CountsAgree'
    BY <1>3, <2>1 DEF TotalInv, CountsAgree
  <2>. QED BY <2>4, <2>5
<1>13. CASE Follow
  BY <1>3, <1>13 DEF Follow, MatchInv, TotalInv, CountsAgree
<1>14. CASE Turn
  BY <1>3, <1>14 DEF Turn, MatchInv, TotalInv, CountsAgree
<1>15. CASE Count
  <2>1. /\ cfg' = cfg /\ query' = query /\ request' = request /\ table' = table
        /\ phase' = phase /\ ids' = ids /\ first' = first /\ answer' = answer
    BY <1>15 DEF Count
  <2>2. table = Row => {r \in Countable : Passes(r)} = AllMatches
    BY DEF Countable, AllMatches
  <2>3. table = Row => counted' \in {NoCount, Cardinality(AllMatches)}
    BY <1>15, <2>2 DEF Count
  <2>4. MatchInv' /\ TotalInv'
    BY <1>3, <2>1 DEF MatchInv, TotalInv
  <2>5. CountsAgree'
    BY <1>3, <2>1, <2>3 DEF CountsAgree
  <2>. QED BY <2>4, <2>5
<1>16. CASE \E r \in Row : Delete(r)
  <2>1. /\ cfg' = cfg /\ query' = query /\ request' = request /\ counted' = counted
        /\ phase' = phase /\ ids' = ids /\ first' = first /\ answer' = answer
    BY <1>16 DEF Delete
  <2>2. table' # Row
    BY <1>10, <1>16 DEF Delete, TypeOK
  <2>. QED BY <1>3, <2>1, <2>2 DEF MatchInv, TotalInv, CountsAgree
<1>17. CASE UNCHANGED vars
  BY <1>3, <1>17 DEF vars, MatchInv, TotalInv, CountsAgree
<1>. QED BY <1>1, <1>2, <1>5, <1>6, <1>7, <1>8, <1>11, <1>12, <1>13, <1>14, <1>15, <1>16, <1>17
         DEF Next, Serve

AnswerInv == BaseInv /\ RequestInv /\ MatchInv /\ TotalInv /\ CountsAgree

THEOREM AnswersAreInvariant == Spec => []AnswerInv
<1>1. Init => AnswerInv
  BY InitBase, InitRequest, InitMatches DEF AnswerInv
<1>2. AnswerInv /\ [Next]_vars => AnswerInv'
  BY NextBase, NextRequest, NextMatches DEF AnswerInv
<1>. QED BY <1>1, <1>2, PTL DEF Spec

\* However the filter is divided between the datasource, two SQL builders and the
\* memory, every row answered satisfies the whole of it (splitWhereExpression,
\* splitLambdaExpressions, the paths of list).
THEOREM MatchesAreAnswered == Spec => []OnlyMatchesAreAnswered
<1>1. AnswerInv => OnlyMatchesAreAnswered
  BY DEF AnswerInv, MatchInv, OnlyMatchesAreAnswered, AllMatches
<1>. QED BY <1>1, AnswersAreInvariant, PTL

\* While nothing is deleted, the count of the first page and that of $count are the
\* number of matches, whichever way each was counted (list, count).
THEOREM CountsAreRight == Spec => []CountsAgree
<1>1. AnswerInv => CountsAgree
  BY DEF AnswerInv
<1>. QED BY <1>1, AnswersAreInvariant, PTL

-----------------------------------------------------------------------------
(* Feeds that the server links.                                            *)

\* The rows of a feed, by their positions among the matches.
LEMMA FeedByPosition ==
    ASSUME TypeOK
    PROVE  /\ Sorted(AllMatches) \in Seq(Row) /\ Ordered(Sorted(AllMatches))
           /\ ToSet(Sorted(AllMatches)) = AllMatches
           /\ Len(Sorted(AllMatches)) \in Nat
           /\ Max2(query.skip, 0) \in Nat
           /\ FromSkip = {Sorted(AllMatches)[k] :
                  k \in {n \in 1..Len(Sorted(AllMatches)) : Max2(query.skip, 0) < n}}
           /\ FromSkip \subseteq AllMatches
<1>. DEFINE all == Sorted(AllMatches)
<1>. DEFINE skip == Max2(query.skip, 0)
<1>1. AllMatches \in SUBSET Row
  BY RowsThereAre
<1>2. all \in Seq(AllMatches) /\ Ordered(all) /\ ToSet(all) = AllMatches
  BY <1>1, SortedIsInOrder
<1>3. all \in Seq(Row) /\ Len(all) \in Nat
  BY <1>1, <1>2, SeqMonotonic
<1>4. skip \in Nat
  BY TypesOfTheCase DEF TypeOK, Query, Max2, NotGiven
<1>5. FromSkip = ToSet(Window(all, skip, Len(all)))
  BY DEF FromSkip
<1>. HIDE DEF all, skip
<1>6. ToSet(Window(all, skip, Len(all))) = Positions(all, skip, skip + Len(all))
  BY <1>3, <1>4, WindowIsAPart
<1>7. \A n \in 1..Len(all) : n <= skip + Len(all)
  BY <1>3, <1>4
<1>8. FromSkip = {all[k] : k \in {n \in 1..Len(all) : skip < n}}
  <2>1. FromSkip = {all[k] : k \in {n \in 1..Len(all) : skip < n /\ n <= skip + Len(all)}}
    BY <1>5, <1>6 DEF Positions
  <2>2. {n \in 1..Len(all) : skip < n /\ n <= skip + Len(all)} = {n \in 1..Len(all) : skip < n}
    BY <1>7
  <2>. QED BY <2>1, <2>2
<1>9. \A k \in 1..Len(all) : all[k] \in ToSet(all)
  BY <1>3, ToSetIsRange
<1>10. FromSkip \subseteq AllMatches
  BY <1>2, <1>8, <1>9
<1>. QED BY <1>2, <1>3, <1>4, <1>8, <1>10 DEF all, skip

\* $skip is read on the first page only.
LEMMA SkipOfAPage ==
    ASSUME TypeOK, RequestInv, ~ClientPages, phase # "answered"
    PROVE  /\ Skip \in Nat /\ Skip <= Max2(query.skip, 0)
           /\ Skip > 0 => request.token = NoRow
<1>1. cfg.maxSkip \in Nat \cup {NotGiven} /\ query.skip \in Nat \cup {NotGiven}
  BY TypesOfTheCase DEF TypeOK, Setting, Query
<1>2. CASE request.token = NoRow
  <2>1. request.skip = query.skip
    BY <1>2 DEF RequestInv
  <2>. QED BY <1>1, <1>2, <2>1 DEF Skip, Max2, Min2, NotGiven
<1>3. CASE request.token # NoRow
  <2>1. request.skip = NotGiven
    BY <1>3 DEF RequestInv
  <2>2. Skip = 0
    BY <1>1, <2>1 DEF Skip, Max2, Min2, NotGiven
  <2>. QED BY <1>1, <2>2 DEF Max2, NotGiven
<1>. QED BY <1>2, <1>3

\* A row still to come is a match that the page can see, from $skip on.
LEMMA WantedIsSeen ==
    ASSUME TypeOK, RequestInv, Promised, ~ClientPages, phase # "answered",
           NEW r \in Wanted, Behind(r)
    PROVE  /\ r \in Matching
           /\ \E k \in 1..Len(Sorted(Matching)) : Skip < k /\ r = Sorted(Matching)[k]
<1>1. Skip \in Nat /\ Skip <= Max2(query.skip, 0) /\ (Skip > 0 => request.token = NoRow)
  BY SkipOfAPage
<1>2. r \in table /\ r \in FromSkip /\ r \in AllMatches
  BY FeedByPosition DEF Wanted
<1>3. r \in Matching
  BY <1>2 DEF AllMatches, Matching, Selected
<1>4. Sorted(Matching) \in Seq(Row) /\ ToSet(Sorted(Matching)) = Matching
  BY RowsThereAre
<1>5. CASE Skip = 0
  <2>1. \E k \in 1..Len(Sorted(Matching)) : r = Sorted(Matching)[k]
    BY <1>3, <1>4, ToSetIsRange
  <2>2. \A k \in 1..Len(Sorted(Matching)) : Skip < k
    BY <1>4, <1>5
  <2>. QED BY <1>3, <2>1, <2>2
<1>6. CASE Skip > 0
  <2>1. Max2(query.skip, 0) \in Nat
    BY FeedByPosition
  <2>2. Max2(query.skip, 0) > 0
    BY <1>1, <1>6, <2>1
  <2>3. table = Row /\ request.token = NoRow
    BY <1>1, <1>6, <2>2 DEF Promised
  <2>4. Matching = AllMatches
    BY <2>3, MatchesOfAPage
  <2>5. PICK k \in 1..Len(Sorted(AllMatches)) :
            Max2(query.skip, 0) < k /\ r = Sorted(AllMatches)[k]
    BY <1>2, FeedByPosition
  <2>6. Skip < k
    BY <1>1, <2>1, <2>5
  <2>. QED BY <1>3, <2>4, <2>5, <2>6
<1>. QED BY <1>1, <1>5, <1>6

\* The window of the matches that a statement selects, one row more than the page.
LEMMA SelectionComesNext ==
    ASSUME TypeOK, RequestInv, Promised, ~ClientPages, phase # "answered"
    PROVE  /\ NextRows(Window(Sorted(Matching), Skip, Limit))
           /\ ToSet(Window(Sorted(Matching), Skip, Limit)) \subseteq Matching
<1>. DEFINE all == Sorted(Matching)
<1>. DEFINE rows == Window(all, Skip, Limit)
<1>1. Skip \in Nat /\ Limit \in Nat /\ Limit = Page + 1 /\ Page \in Nat
  BY TypedSizes, OwnPages
<1>2. /\ all \in Seq(Row) /\ Ordered(all) /\ ToSet(all) = Matching
      /\ all \in Seq(Matching)
  BY RowsThereAre, SortedIsInOrder
<1>3. \A r \in Wanted : Behind(r) => \E k \in 1..Len(all) : Skip < k /\ r = all[k]
  BY WantedIsSeen
<1>. HIDE DEF all
<1>4. rows \in Seq(Matching)
  BY <1>1, <1>2, WindowIsAPart
<1>5. ToSet(rows) \subseteq Matching
  BY <1>4, ToSetIsRange
<1>6. \A r \in Matching : Behind(r)
  BY DEF Matching, Selected
<1>7. ASSUME NEW k \in 1..Len(all), Skip < k
      PROVE  \/ all[k] \in ToSet(rows)
             \/ Len(rows) = Limit /\ \A q \in ToSet(rows) : Before(q, all[k])
  BY <1>1, <1>2, <1>7, BehindAWindow
<1>. HIDE DEF rows
<1>8. ASSUME NEW r \in Wanted, Behind(r)
      PROVE  r \in ToSet(rows) \/ (Len(rows) > Page /\ \A q \in ToSet(rows) : Before(q, r))
  <2>1. PICK k \in 1..Len(all) : Skip < k /\ r = all[k]
    BY <1>3, <1>8
  <2>2. Limit > Page
    BY <1>1
  <2>. QED BY <1>7, <2>1, <2>2
<1>9. NextRows(rows)
  BY <1>5, <1>6, <1>8 DEF NextRows
<1>. QED BY <1>5, <1>9 DEF rows, all

\* What an unchanged query and settings leave of the feed's invariants.
LEMMA FeedStays ==
    ASSUME cfg' = cfg, query' = query
    PROVE  /\ Promised' /\ (table' = Row => table = Row) /\ (raced => raced') => Promised
           /\ ClientPages' <=> ClientPages
           /\ \A r, q : (Before(r, q))' <=> Before(r, q)
           /\ table' \subseteq table => Wanted' \subseteq Wanted
           /\ request' = request => \A r : (Behind(r))' <=> Behind(r)
           /\ Page' = Page
<1>1. Path' = Path /\ Page' = Page
  BY DecisionsStay
<1>2. (ClientPages' <=> ClientPages) /\ FromSkip' = FromSkip
  BY FilterStays
<1>3. \A r, q : (Before(r, q))' <=> Before(r, q)
  BY OrderStays
<1>4. request' = request => \A r : (Behind(r))' <=> Behind(r)
  BY DecisionsStay
<1>5. table' \subseteq table => Wanted' \subseteq Wanted
  BY <1>2 DEF Wanted
<1>6. Promised' /\ (table' = Row => table = Row) /\ (raced => raced') => Promised
  BY <1>1, <1>2 DEF Promised
<1>. QED BY <1>1, <1>2, <1>3, <1>4, <1>5, <1>6

\* The rows of the next page, linked or not, continue what was answered.
LEMMA ServerAnswers ==
    ASSUME BaseInv, RequestInv, ServerFeed, Settled, phase \in Serving,
           NEW rows \in Seq(Row), Ordered(rows),
           Promised /\ ~ClientPages => NextRows(rows),
           NEW total, Respond(Paged(rows), total)
    PROVE  ServerFeed'
<1>1. /\ cfg' = cfg /\ query' = query /\ request' = request /\ table' = table /\ raced' = raced
      /\ phase' = "answered"
  BY DEF Settled, Respond
<1>2. /\ Promised' => Promised
      /\ ClientPages' <=> ClientPages
      /\ Wanted' \subseteq Wanted
      /\ \A r, q : (Before(r, q))' <=> Before(r, q)
  BY <1>1, FeedStays
<1>. SUFFICES ASSUME Promised, ~ClientPages
              PROVE  Linked'
  BY <1>1, <1>2 DEF ServerFeed, Serving
<1>3. Covered /\ NextRows(rows)
  BY DEF ServerFeed
<1>4. ~Manual /\ TypeOK /\ Page \in Nat \ {0} /\ seen \in Seq(Row) /\ Len(rows) \in Nat
  BY OwnPages, TypedSizes DEF BaseInv, TypeOK
<1>. DEFINE page == Paged(rows).rows
<1>. DEFINE link == Paged(rows).link
<1>5. /\ page \in Seq(Row) /\ link \in Row \cup {NoRow} /\ Ordered(page)
      /\ ToSet(page) \subseteq ToSet(rows)
      /\ link = NoRow => page = rows
      /\ Len(rows) > Page => link # NoRow
      /\ link # NoRow =>
             /\ link \in ToSet(page)
             /\ \A r \in ToSet(rows) : r \in ToSet(page) <=> ~Before(link, r)
  BY <1>4, PagedIsAPage
<1>6. seen' = seen \o page /\ answer'.link = link
  <2>1. Len(seen) <= Cardinality(Row) /\ Len(seen) \in Nat /\ Cardinality(Row) \in Nat
    BY <1>3, <1>4, OrderedHasNoDuplicates, RowsAreFinite DEF Covered
  <2>2. ~(Len(seen) > Cardinality(Row))
    BY <2>1
  <2>. QED BY <2>2 DEF Respond
<1>. HIDE DEF page, link
<1>7. ToSet(seen) \subseteq Nat /\ ToSet(page) \subseteq Nat /\ ToSet(rows) \subseteq Nat
      /\ Wanted \subseteq Nat /\ request.token \in Nat /\ link \in Nat
  <2>1. Row \subseteq Nat /\ NoRow \in Nat
    BY RowAssumption, NoRowIsNone
  <2>2. ToSet(seen) \subseteq Row /\ ToSet(page) \subseteq Row /\ ToSet(rows) \subseteq Row
    BY <1>4, <1>5, ToSetIsRange
  <2>3. Wanted \subseteq Row /\ request.token \in Row \cup {NoRow}
    BY <1>4 DEF TypeOK, Wanted
  <2>. QED BY <1>5, <2>1, <2>2, <2>3
<1>8. \A x \in ToSet(seen), y \in ToSet(rows) : Before(x, y)
  <2>. SUFFICES ASSUME NEW x \in ToSet(seen), NEW y \in ToSet(rows)
                PROVE  Before(x, y)
    OBVIOUS
  <2>1. ~Before(request.token, x) /\ request.token # NoRow
    BY <1>3 DEF Covered, Behind
  <2>2. Before(request.token, y)
    BY <1>3, <2>1 DEF NextRows, Behind
  <2>3. x \in Nat /\ y \in Nat /\ request.token \in Nat
    BY <1>7
  <2>4. x = request.token \/ Before(x, request.token)
    BY <2>1, <2>3, Comparing
  <2>. QED BY <2>2, <2>3, <2>4, Comparing
<1>9. Ordered(seen') /\ ToSet(seen') = ToSet(seen) \cup ToSet(page)
  <2>1. \A x \in ToSet(seen), y \in ToSet(page) : Before(x, y)
    BY <1>5, <1>8
  <2>. QED BY <1>3, <1>4, <1>5, <1>6, <2>1, ConcatenationIsInOrder DEF Covered
<1>10. link = NoRow => Wanted \subseteq ToSet(seen')
  <2>. SUFFICES ASSUME link = NoRow, NEW r \in Wanted
                PROVE  r \in ToSet(seen')
    OBVIOUS
  <2>1. ~(Len(rows) > Page) /\ page = rows
    BY <1>5
  <2>2. r \in ToSet(seen) \/ r \in ToSet(rows)
    BY <1>3, <2>1 DEF Covered, NextRows
  <2>. QED BY <1>9, <2>1, <2>2
<1>11. ASSUME link # NoRow
       PROVE  \A r \in ToSet(seen') : ~Before(link, r)
  <2>1. link \in ToSet(page) /\ link \in ToSet(rows)
    BY <1>5, <1>11
  <2>2. \A r \in ToSet(page) : ~Before(link, r)
    BY <1>5, <1>11
  <2>3. \A r \in ToSet(seen) : ~Before(link, r)
    BY <1>7, <1>8, <2>1, Comparing
  <2>. QED BY <1>9, <2>2, <2>3
<1>12. ASSUME link # NoRow, NEW r \in Wanted, ~Before(link, r)
       PROVE  r \in ToSet(seen')
  <2>1. link \in ToSet(rows)
    BY <1>5, <1>12
  <2>2. CASE ~Behind(r)
    BY <1>3, <1>9, <2>2 DEF Covered
  <2>3. CASE Behind(r)
    <3>1. r \in ToSet(rows)
      BY <1>3, <1>12, <2>1, <2>3 DEF NextRows
    <3>2. r \in ToSet(page)
      BY <1>5, <1>12, <3>1
    <3>. QED BY <1>9, <3>2
  <2>. QED BY <2>2, <2>3
<1>13. (Ordered(seen))'
  BY <1>1, <1>9, OrderStays DEF Ordered
<1>. QED BY <1>2, <1>6, <1>10, <1>11, <1>12, <1>13 DEF Linked

LEMMA LambdaPaths ==
    ASSUME ~query.lambda.on
    PROVE  Path # "lambda_sql" /\ Path # "lambda_scan"
BY DEF Path, LambdaInSql, LambdaTried

LEMMA FetchRowsFeed ==
    ASSUME BaseInv, RequestInv, ServerFeed, FetchRows
    PROVE  ServerFeed'
<1>1. /\ cfg' = cfg /\ query' = query /\ table' = table /\ raced' = raced /\ phase = "selected"
      /\ Settled
  BY DEF FetchRows, Settled
<1>. SUFFICES ASSUME Promised, ~ClientPages
              PROVE  ServerFeed'
  BY <1>1, FeedStays DEF ServerFeed
<1>2. Path # "lambda_sql"
  BY LambdaPaths DEF Promised
<1>. DEFINE rows == Among(ids, Selected)
<1>. DEFINE total == IF query.count THEN answer.total ELSE NotGiven
<1>3. Respond(Paged(rows), total)
  BY <1>2 DEF FetchRows
<1>4. ids \in Seq(Row) /\ Ordered(ids)
  BY <1>1 DEF BaseInv, TypeOK, IdsInv
<1>5. ToSet(ids) \subseteq Selected /\ NextRows(ids)
  BY <1>1 DEF ServerFeed
<1>6. /\ rows \in Seq(Row) /\ Ordered(rows)
      /\ ToSet(rows) = ToSet(ids) \cap Selected /\ Len(rows) = Cardinality(ToSet(ids) \cap Selected)
  BY <1>4, AmongIsInOrder
<1>. HIDE DEF rows, total
<1>7. ToSet(ids) \cap Selected = ToSet(ids)
  BY <1>5
<1>8. ToSet(rows) = ToSet(ids) /\ Len(rows) = Len(ids)
  BY <1>4, <1>6, <1>7, OrderedHasNoDuplicates
<1>9. NextRows(rows)
  BY <1>5, <1>8 DEF NextRows
<1>10. phase \in Serving
  BY <1>1 DEF Serving
<1>. QED BY <1>1, <1>3, <1>6, <1>9, <1>10, ServerAnswers

LEMMA CountFoundFeed ==
    ASSUME BaseInv, RequestInv, ServerFeed, CountFound
    PROVE  ServerFeed'
<1>1. phase = "found" /\ Settled /\ phase \in Serving
  BY DEF CountFound, Settled, Serving
<1>. DEFINE total == IF query.count THEN Cardinality(Selected) ELSE NotGiven
<1>2. Respond(Paged(ids), total)
  BY DEF CountFound
<1>3. ids \in Seq(Row) /\ Ordered(ids)
  BY <1>1 DEF BaseInv, TypeOK, IdsInv
<1>4. Promised /\ ~ClientPages => NextRows(ids)
  BY <1>1 DEF ServerFeed
<1>. HIDE DEF total
<1>. QED BY <1>1, <1>2, <1>3, <1>4, ServerAnswers

LEMMA RefuseFeed ==
    ASSUME phase' = "refused"
    PROVE  ServerFeed'
BY DEF ServerFeed, Serving

LEMMA ScanLambdasFeed ==
    ASSUME ScanLambdas, RequestInv
    PROVE  ServerFeed'
<1>1. cfg' = cfg /\ query' = query /\ table' = table /\ raced' = raced
  BY DEF ScanLambdas
<1>2. query.lambda.on
  BY LambdaPaths DEF ScanLambdas
<1>3. ~(Promised /\ ~ClientPages)
  BY <1>2 DEF Promised
<1>. QED BY <1>1, <1>3, FeedStays DEF ServerFeed

LEMMA ScanRowsFeed ==
    ASSUME BaseInv, RequestInv, ServerFeed, ScanRows
    PROVE  ServerFeed'
<1>1. /\ cfg' = cfg /\ query' = query /\ table' = table /\ raced' = raced
      /\ phase = "asked" /\ phase \in Serving /\ Settled /\ Path = "scan" /\ TypeOK
  BY DEF ScanRows, Settled, Serving, BaseInv
<1>. SUFFICES ASSUME Promised, ~ClientPages
              PROVE  ServerFeed'
  BY <1>1, FeedStays DEF ServerFeed
<1>. DEFINE rows == Window(Sorted(Selected), Skip, MaxScan + 1)
<1>. DEFINE passing == {r \in Row : Passes(r)}
<1>. DEFINE kept == Among(rows, passing)
<1>. DEFINE total == IF query.count THEN Len(kept) ELSE NotGiven
<1>2. ~Manual
  BY OwnPages
<1>3. CASE Len(rows) > MaxScan
  BY <1>3, RefuseFeed DEF ScanRows, Refuse
<1>4. CASE ~(Len(rows) > MaxScan)
  <2>1. Respond(Paged(kept), total)
    BY <1>2, <1>4 DEF ScanRows
  <2>2. Max2(query.skip, 0) \in Nat /\ ~(Max2(query.skip, 0) > 0)
    BY <1>1, FeedByPosition DEF Promised
  <2>3. Skip = 0
    BY <1>1, <2>2, SkipOfAPage
  <2>4. rows \in Seq(Row) /\ ToSet(rows) = Selected
    BY <1>1, <1>4, <2>3, ScanKeepsMatches
  <2>. HIDE DEF rows
  <2>5. kept \in Seq(Row) /\ Ordered(kept) /\ ToSet(kept) = ToSet(rows) \cap passing
    BY <2>4, AmongIsInOrder
  <2>6. Selected \cap passing = Matching
    BY <1>1, MatchesOfAPage
  <2>. HIDE DEF kept, passing
  <2>7. ToSet(kept) = Matching
    BY <2>4, <2>5, <2>6
  <2>8. \A r \in Wanted : Behind(r) => r \in Matching
    BY <1>1, WantedIsSeen
  <2>9. \A r \in Matching : Behind(r)
    BY DEF Matching, Selected
  <2>10. NextRows(kept)
    BY <2>7, <2>8, <2>9 DEF NextRows
  <2>. HIDE DEF total
  <2>. QED BY <1>1, <2>1, <2>5, <2>10, ServerAnswers
<1>. QED BY <1>3, <1>4

\* A statement has selected rows, and the answers are as they were.
LEMMA SelectionFeed ==
    ASSUME BaseInv, RequestInv, ServerFeed, Settled, phase \in Serving,
           UNCHANGED <<answer, seen>>,
           phase' \in {"selected", "found"},
           Promised /\ ~ClientPages =>
               NextRows(ids') /\ (phase' = "selected" => ToSet(ids') \subseteq Selected)
    PROVE  ServerFeed'
<1>1. /\ cfg' = cfg /\ query' = query /\ request' = request /\ table' = table /\ raced' = raced
      /\ seen' = seen
  BY DEF Settled
<1>2. /\ Promised' => Promised
      /\ ClientPages' <=> ClientPages
      /\ Wanted' \subseteq Wanted
      /\ \A r, q : (Before(r, q))' <=> Before(r, q)
      /\ \A r : (Behind(r))' <=> Behind(r)
      /\ Page' = Page
  BY <1>1, FeedStays
<1>. SUFFICES ASSUME Promised, ~ClientPages
              PROVE  Covered' /\ (NextRows(ids))' /\ (phase' = "selected" => (ToSet(ids) \subseteq Selected)')
  BY <1>1, <1>2 DEF ServerFeed, Serving
<1>3. Covered /\ NextRows(ids') /\ (phase' = "selected" => ToSet(ids') \subseteq Selected)
  BY DEF ServerFeed
<1>4. (Ordered(seen))' <=> Ordered(seen)
  BY <1>1, OrderStays DEF Ordered
<1>5. Covered'
  BY <1>1, <1>2, <1>3, <1>4 DEF Covered
<1>6. (NextRows(ids))'
  BY <1>2, <1>3 DEF NextRows
<1>7. Selected' = Selected
  BY <1>1, <1>2 DEF Selected
<1>. QED BY <1>3, <1>5, <1>6, <1>7

LEMMA SelectIdsFeed ==
    ASSUME BaseInv, RequestInv, ServerFeed, SelectIds
    PROVE  ServerFeed'
<1>1. /\ Settled /\ phase \in Serving /\ UNCHANGED <<answer, seen>> /\ phase' = "selected"
      /\ phase # "answered" /\ TypeOK
  BY DEF SelectIds, Settled, Serving, BaseInv
<1>2. ASSUME Promised, ~ClientPages
      PROVE  NextRows(ids') /\ ToSet(ids') \subseteq Selected
  <2>1. Path # "lambda_sql"
    BY <1>2, LambdaPaths DEF Promised
  <2>2. ids' = Window(Sorted(Matching), Skip, Limit)
    BY <2>1 DEF SelectIds
  <2>3. NextRows(ids') /\ ToSet(ids') \subseteq Matching
    BY <1>1, <1>2, <2>2, SelectionComesNext
  <2>. QED BY <1>1, <2>3, MatchesOfAPage
<1>. QED BY <1>1, <1>2, SelectionFeed

LEMMA FindRowsFeed ==
    ASSUME BaseInv, RequestInv, ServerFeed, FindRows
    PROVE  ServerFeed'
<1>1. /\ Settled /\ phase \in Serving /\ UNCHANGED <<answer, seen>> /\ phase' = "found"
      /\ phase # "answered" /\ TypeOK
  BY DEF FindRows, Settled, Serving, BaseInv
<1>2. ASSUME Promised, ~ClientPages
      PROVE  NextRows(ids')
  <2>1. Selected = Matching
    BY <1>1, MatchesOfAPage DEF FindRows
  <2>2. ids' = Window(Sorted(Matching), Skip, Limit)
    BY <2>1 DEF FindRows
  <2>. QED BY <1>1, <1>2, <2>2, SelectionComesNext
<1>. QED BY <1>1, <1>2, SelectionFeed

LEMMA InitServerFeed ==
    ASSUME Init
    PROVE  ServerFeed
<1>1. seen = <<>> /\ request.token = NoRow /\ phase = "asked"
  BY DEF Init
<1>2. ToSet(<<>>) = {} /\ Len(<<>>) = 0
  BY DEF ToSet
<1>3. Ordered(<<>>)
  BY <1>2 DEF Ordered
<1>4. \A r : Behind(r)
  BY <1>1 DEF Behind
<1>5. Covered
  BY <1>1, <1>2, <1>3, <1>4 DEF Covered
<1>. QED BY <1>1, <1>5 DEF ServerFeed

LEMMA CountRowsFeed ==
    ASSUME ServerFeed, CountRows
    PROVE  ServerFeed'
<1>1. /\ cfg' = cfg /\ query' = query /\ request' = request /\ table' = table /\ raced' = raced
      /\ seen' = seen /\ phase = "asked" /\ phase' = "counted"
  BY DEF CountRows
<1>2. /\ Promised' => Promised
      /\ ClientPages' <=> ClientPages
      /\ Wanted' \subseteq Wanted
      /\ \A r : (Behind(r))' <=> Behind(r)
  BY <1>1, FeedStays
<1>3. (Ordered(seen))' <=> Ordered(seen)
  BY <1>1, OrderStays DEF Ordered
<1>4. Covered => Covered'
  BY <1>1, <1>2, <1>3 DEF Covered
<1>. QED BY <1>1, <1>2, <1>4 DEF ServerFeed, Serving

LEMMA FollowFeed ==
    ASSUME BaseInv, ServerFeed, Follow
    PROVE  ServerFeed'
<1>1. /\ cfg' = cfg /\ query' = query /\ table' = table /\ raced' = raced /\ seen' = seen
      /\ phase = "answered" /\ phase' = "asked" /\ answer.link # NoRow
      /\ request'.token = answer.link
  BY DEF Follow
<1>2. /\ Promised' => Promised
      /\ ClientPages' <=> ClientPages
      /\ Wanted' \subseteq Wanted
      /\ \A r, q : (Before(r, q))' <=> Before(r, q)
  BY <1>1, FeedStays
<1>3. (Ordered(seen))' <=> Ordered(seen)
  BY <1>1, OrderStays DEF Ordered
<1>4. \A r : (Behind(r))' <=> Before(answer.link, r)
  BY <1>1, <1>2 DEF Behind
<1>5. Linked => Covered'
  BY <1>1, <1>2, <1>3, <1>4 DEF Linked, Covered
<1>. QED BY <1>1, <1>2, <1>5 DEF ServerFeed, Serving

LEMMA TurnFeed ==
    ASSUME RequestInv, Turn
    PROVE  ServerFeed'
<1>1. ClientPages /\ query' = query
  BY OwnPages DEF Turn
<1>2. ClientPages'
  BY <1>1 DEF ClientPages
<1>. QED BY <1>2 DEF ServerFeed

\* A deletion takes away what is wanted, and no id that a statement has selected,
\* unless the read races with it.
LEMMA OthersFeed ==
    ASSUME ServerFeed, Count \/ (\E r \in Row : Delete(r)) \/ UNCHANGED vars
    PROVE  ServerFeed'
<1>1. /\ cfg' = cfg /\ query' = query /\ request' = request /\ seen' = seen /\ answer' = answer
      /\ phase' = phase /\ ids' = ids
  BY DEF Count, Delete, vars
<1>2. table' \subseteq table /\ (raced => raced') /\ (table' = Row => table = Row)
  <2>1. CASE Count \/ UNCHANGED vars
    BY <2>1 DEF Count, vars
  <2>2. CASE \E r \in Row : Delete(r)
    BY <2>2 DEF Delete
  <2>. QED BY <2>1, <2>2
<1>3. /\ Promised' => Promised
      /\ ClientPages' <=> ClientPages
      /\ Wanted' \subseteq Wanted
      /\ \A r, q : (Before(r, q))' <=> Before(r, q)
      /\ \A r : (Behind(r))' <=> Behind(r)
      /\ Page' = Page
  BY <1>1, <1>2, FeedStays
<1>4. (Ordered(seen))' <=> Ordered(seen)
  BY <1>1, OrderStays DEF Ordered
<1>5. Covered => Covered'
  BY <1>1, <1>3, <1>4 DEF Covered
<1>6. NextRows(ids) => (NextRows(ids))'
  BY <1>1, <1>3 DEF NextRows
<1>7. Linked => Linked'
  BY <1>1, <1>3, <1>4 DEF Linked
<1>8. ASSUME phase = "selected", ToSet(ids) \subseteq Selected, Promised'
      PROVE  (ToSet(ids) \subseteq Selected)'
  <2>1. ~raced'
    BY <1>8 DEF Promised
  <2>2. \A r \in ToSet(ids) : r \in table'
    <3>1. CASE Count \/ UNCHANGED vars
      BY <1>8, <3>1 DEF Count, vars, Selected
    <3>2. CASE \E r \in Row : Delete(r)
      BY <1>8, <2>1, <3>2 DEF Delete, Selected
    <3>. QED BY <3>1, <3>2
  <2>3. \A r \in ToSet(ids) : r \in query.repo /\ Behind(r)
    BY <1>8 DEF Selected
  <2>4. \A r \in ToSet(ids) : r \in Selected'
    BY <1>1, <1>3, <2>2, <2>3 DEF Selected
  <2>. QED BY <1>1, <2>4
<1>. QED BY <1>1, <1>3, <1>5, <1>6, <1>7, <1>8 DEF ServerFeed

LEMMA NextServerFeed ==
    ASSUME BaseInv, RequestInv, ServerFeed, [Next]_vars
    PROVE  ServerFeed'
<1>1. CASE Refusal
  BY <1>1, RefuseFeed DEF Refusal, Refuse
<1>. QED BY <1>1, CountRowsFeed, SelectIdsFeed, FetchRowsFeed, ScanLambdasFeed, ScanRowsFeed,
            FindRowsFeed, CountFoundFeed, FollowFeed, TurnFeed, OthersFeed
         DEF Next, Serve

-----------------------------------------------------------------------------
(* Feeds that the client pages through.                                    *)

LEMMA SpanStays ==
    ASSUME cfg' = cfg, query' = query
    PROVE  /\ \A from, to : (Span(from, to))' = Span(from, to)
           /\ (Sorted(AllMatches))' = Sorted(AllMatches)
           /\ Start' = Start
           /\ Page' = Page
           /\ request' = request => Skip' = Skip
<1>1. AllMatches' = AllMatches
  BY FilterStays
<1>2. (Sorted(AllMatches))' = Sorted(AllMatches)
  BY <1>1, OrderStays
<1>3. \A from, to : (Span(from, to))' = Span(from, to)
  BY <1>2 DEF Span
<1>. QED BY <1>2, <1>3, DecisionsStay

\* Positions: a window is a span, and spans that meet are one.
LEMMA Spans ==
    ASSUME TypeOK, NEW from \in Nat, NEW to \in Nat, from <= to, NEW limit \in Nat
    PROVE  /\ ToSet(Window(Sorted(AllMatches), to, limit)) = Span(to, to + limit)
           /\ Span(from, to) \cup Span(to, to + limit)
                  = Span(from, to + Max2(Min2(limit, Len(Sorted(AllMatches)) - to), 0))
           /\ \A x \in Span(from, to), y \in Span(to, to + limit) : Before(x, y)
<1>. DEFINE all == Sorted(AllMatches)
<1>1. all \in Seq(Row) /\ Ordered(all) /\ Len(all) \in Nat
  BY FeedByPosition
<1>2. \A a, b : Span(a, b) = {all[k] : k \in {n \in 1..Len(all) : a < n /\ n <= b}}
  BY DEF Span, Positions
<1>3. ToSet(Window(all, to, limit)) = Span(to, to + limit)
  BY <1>1, WindowIsAPart DEF Span
<1>. HIDE DEF all
<1>. DEFINE end == to + Max2(Min2(limit, Len(all) - to), 0)
<1>4. /\ end \in Nat
      /\ \A k \in 1..Len(all) : k <= to + limit /\ to < k => k <= end
      /\ \A k \in 1..Len(all) : k <= end => k <= to + limit
      /\ to <= end
  BY <1>1 DEF Max2, Min2
<1>. HIDE DEF end
<1>5. Span(from, to) \cup Span(to, to + limit) \subseteq Span(from, end)
  <2>1. \A k \in 1..Len(all) : from < k /\ k <= to => from < k /\ k <= end
    BY <1>1, <1>4
  <2>2. \A k \in 1..Len(all) : to < k /\ k <= to + limit => from < k /\ k <= end
    BY <1>1, <1>4
  <2>3. Span(from, to) \subseteq Span(from, end)
    BY <1>2, <2>1
  <2>4. Span(to, to + limit) \subseteq Span(from, end)
    BY <1>2, <2>2
  <2>. QED BY <2>3, <2>4
<1>6. Span(from, end) \subseteq Span(from, to) \cup Span(to, to + limit)
  <2>1. ASSUME NEW k \in 1..Len(all), from < k, k <= end
        PROVE  all[k] \in Span(from, to) \cup Span(to, to + limit)
    <3>1. CASE k <= to
      BY <1>2, <2>1, <3>1
    <3>2. CASE to < k
      BY <1>2, <1>4, <2>1, <3>2
    <3>. QED BY <3>1, <3>2
  <2>. QED BY <1>2, <2>1
<1>7. \A x \in Span(from, to), y \in Span(to, to + limit) : Before(x, y)
  <2>1. \A i, j \in 1..Len(all) : i <= to /\ to < j => Before(all[i], all[j])
    BY <1>1 DEF Ordered
  <2>. QED BY <1>2, <2>1
<1>. QED BY <1>3, <1>5, <1>6, <1>7 DEF all, end

\* What a page of such a feed holds.
OwnPage(rows) ==
    /\ ToSet(rows) = Span(Skip, Skip + Page)
    /\ Len(rows) = Max2(Min2(Page, Len(Sorted(AllMatches)) - Skip), 0)

LEMMA OwnWindow ==
    ASSUME TypeOK, RequestInv, Promised, ClientPages
    PROVE  /\ OwnPage(Window(Sorted(Matching), Skip, Page))
           /\ Matching = AllMatches /\ Manual /\ Limit = Page
           /\ AllMatches \subseteq Selected
<1>1. Manual
  BY OwnPages
<1>2. table = Row /\ request.token = NoRow
  BY <1>1 DEF Promised, Manual
<1>3. Matching = AllMatches /\ AllMatches \subseteq Selected
  BY <1>2, MatchesOfAPage
<1>4. Skip \in Nat /\ Page \in Nat /\ Limit = Page
  BY <1>1, TypedSizes
<1>5. Sorted(AllMatches) \in Seq(Row)
  BY FeedByPosition
<1>6. ToSet(Window(Sorted(AllMatches), Skip, Page)) = Span(Skip, Skip + Page)
  BY <1>4, Spans
<1>7. Len(Window(Sorted(AllMatches), Skip, Page)) = Max2(Min2(Page, Len(Sorted(AllMatches)) - Skip), 0)
  BY <1>4, <1>5, WindowIsAPart
<1>. QED BY <1>1, <1>3, <1>4, <1>6, <1>7 DEF OwnPage

LEMMA ClientAnswers ==
    ASSUME BaseInv, RequestInv, ClientFeed, Settled, phase \in Serving,
           NEW rows \in Seq(Row),
           Promised /\ ClientPages => Ordered(rows) /\ OwnPage(rows),
           NEW paged, Manual => paged.rows = rows,
           NEW total, Respond(paged, total)
    PROVE  ClientFeed'
<1>1. /\ cfg' = cfg /\ query' = query /\ request' = request /\ table' = table /\ raced' = raced
      /\ phase' = "answered"
  BY DEF Settled, Respond
<1>2. /\ Promised' => Promised
      /\ ClientPages' <=> ClientPages
      /\ \A from, to : (Span(from, to))' = Span(from, to)
      /\ (Sorted(AllMatches))' = Sorted(AllMatches)
      /\ Start' = Start /\ Skip' = Skip
  BY <1>1, FeedStays, SpanStays
<1>. DEFINE all == Sorted(AllMatches)
<1>. SUFFICES ASSUME Promised, ClientPages
              PROVE  /\ Start <= Skip
                     /\ Ordered(seen')
                     /\ ToSet(seen') = Span(Start, Skip + Len(rows))
                     /\ rows = <<>> => Len(all) <= Skip
                     /\ answer'.rows = rows
  <2>1. (Ordered(seen))' <=> Ordered(seen')
    BY <1>1, OrderStays DEF Ordered
  <2>2. phase' \notin Serving /\ phase' \notin {"selected", "found"}
    BY <1>1 DEF Serving
  <2>. QED BY <1>1, <1>2, <2>1, <2>2 DEF ClientFeed, Serving
<1>3. Start <= Skip /\ Ordered(seen) /\ ToSet(seen) = Span(Start, Skip)
  BY DEF ClientFeed
<1>4. Ordered(rows) /\ OwnPage(rows)
  OBVIOUS
<1>5. TypeOK /\ Skip \in Nat /\ Page \in Nat \ {0} /\ seen \in Seq(Row) /\ Len(all) \in Nat
  BY TypedSizes, FeedByPosition DEF BaseInv, TypeOK
<1>6. Start \in Nat
  <2>1. query.skip \in Nat \cup {NotGiven} /\ cfg.maxSkip \in Nat \cup {NotGiven}
    BY <1>5, TypesOfTheCase DEF TypeOK, Query, Setting
  <2>. QED BY <2>1 DEF Start, Max2, Min2, NotGiven
<1>. HIDE DEF all
<1>7. answer'.rows = rows /\ seen' = seen \o rows
  <2>1. Len(seen) <= Cardinality(Row) /\ Len(seen) \in Nat /\ Cardinality(Row) \in Nat
    BY <1>3, <1>5, OrderedHasNoDuplicates, RowsAreFinite
  <2>2. ~(Len(seen) > Cardinality(Row))
    BY <2>1
  <2>3. Manual
    BY OwnPages
  <2>. QED BY <2>2, <2>3 DEF Respond
<1>8. /\ Span(Start, Skip) \cup Span(Skip, Skip + Page) = Span(Start, Skip + Len(rows))
      /\ \A x \in Span(Start, Skip), y \in Span(Skip, Skip + Page) : Before(x, y)
  <2>. DEFINE n == Max2(Min2(Page, Len(Sorted(AllMatches)) - Skip), 0)
  <2>1. Len(rows) = n
    BY <1>4 DEF OwnPage
  <2>2. Page \in Nat
    BY <1>5
  <2>3. /\ Span(Start, Skip) \cup Span(Skip, Skip + Page) = Span(Start, Skip + n)
        /\ \A x \in Span(Start, Skip), y \in Span(Skip, Skip + Page) : Before(x, y)
    BY <1>3, <1>5, <1>6, <2>2, Spans
  <2>. HIDE DEF n
  <2>. QED BY <2>1, <2>3
<1>9. Ordered(seen') /\ ToSet(seen') = ToSet(seen) \cup ToSet(rows)
  BY <1>3, <1>4, <1>5, <1>7, <1>8, ConcatenationIsInOrder DEF OwnPage
<1>10. ToSet(seen') = Span(Start, Skip + Len(rows))
  BY <1>3, <1>4, <1>8, <1>9 DEF OwnPage
<1>11. rows = <<>> => Len(all) <= Skip
  <2>1. Len(<<>>) = 0
    OBVIOUS
  <2>2. Len(rows) = 0 => Len(all) <= Skip
    BY <1>4, <1>5 DEF OwnPage, Max2, Min2, all
  <2>. QED BY <2>1, <2>2
<1>. QED BY <1>3, <1>7, <1>9, <1>10, <1>11

LEMMA FetchRowsClient ==
    ASSUME BaseInv, RequestInv, ClientFeed, FetchRows
    PROVE  ClientFeed'
<1>1. /\ phase = "selected" /\ phase \in Serving /\ Settled /\ TypeOK
      /\ ids \in Seq(Row) /\ Ordered(ids) /\ Page \in Nat \ {0}
  BY TypedSizes DEF FetchRows, Settled, Serving, BaseInv, TypeOK, IdsInv
<1>. DEFINE rows == Among(ids, Selected)
<1>. DEFINE paged == IF Path = "lambda_sql" THEN [rows |-> rows, link |-> NoRow] ELSE Paged(rows)
<1>. DEFINE total == IF query.count THEN answer.total ELSE NotGiven
<1>2. Respond(paged, total)
  BY DEF FetchRows
<1>3. /\ rows \in Seq(Row) /\ Ordered(rows)
      /\ ToSet(rows) = ToSet(ids) \cap Selected /\ Len(rows) = Cardinality(ToSet(ids) \cap Selected)
  BY <1>1, AmongIsInOrder
<1>. HIDE DEF rows
<1>4. Manual => paged.rows = rows
  BY <1>1, <1>3, PagedIsAPage
<1>. HIDE DEF paged, total
<1>5. ASSUME Promised, ClientPages
      PROVE  OwnPage(rows)
  <2>1. OwnPage(ids)
    BY <1>1, <1>5 DEF ClientFeed, OwnPage
  <2>2. Span(Skip, Skip + Page) \subseteq AllMatches
    <3>1. ToSet(Sorted(AllMatches)) = AllMatches /\ Sorted(AllMatches) \in Seq(Row)
      BY <1>1, FeedByPosition
    <3>2. Positions(Sorted(AllMatches), Skip, Skip + Page) \subseteq ToSet(Sorted(AllMatches))
      BY <3>1, PositionsAreOfTheSequence
    <3>. QED BY <3>1, <3>2 DEF Span
  <2>3. AllMatches \subseteq Selected
    BY <1>1, <1>5, OwnWindow
  <2>4. ToSet(ids) \cap Selected = ToSet(ids)
    BY <2>1, <2>2, <2>3 DEF OwnPage
  <2>5. ToSet(rows) = ToSet(ids) /\ Len(rows) = Len(ids)
    BY <1>1, <1>3, <2>4, OrderedHasNoDuplicates
  <2>. QED BY <2>1, <2>5 DEF OwnPage
<1>. QED BY <1>1, <1>2, <1>3, <1>4, <1>5, ClientAnswers

LEMMA CountFoundClient ==
    ASSUME BaseInv, RequestInv, ClientFeed, CountFound
    PROVE  ClientFeed'
<1>1. /\ phase = "found" /\ phase \in Serving /\ Settled /\ TypeOK
      /\ ids \in Seq(Row) /\ Ordered(ids) /\ Page \in Nat \ {0}
  BY TypedSizes DEF CountFound, Settled, Serving, BaseInv, TypeOK, IdsInv
<1>. DEFINE total == IF query.count THEN Cardinality(Selected) ELSE NotGiven
<1>2. Respond(Paged(ids), total)
  BY DEF CountFound
<1>3. Manual => Paged(ids).rows = ids
  BY <1>1, PagedIsAPage
<1>4. Promised /\ ClientPages => OwnPage(ids)
  BY <1>1 DEF ClientFeed, OwnPage
<1>. HIDE DEF total
<1>. QED BY <1>1, <1>2, <1>3, <1>4, ClientAnswers

LEMMA RefuseClient ==
    ASSUME BaseInv, ClientFeed, Settled, Refuse
    PROVE  ClientFeed'
<1>1. /\ cfg' = cfg /\ query' = query /\ request' = request /\ table' = table /\ raced' = raced
      /\ phase' = "refused"
  BY DEF Settled, Refuse
<1>2. Promised' => Promised
  BY <1>1, FeedStays
<1>3. (ClientPages' <=> ClientPages) /\ Start' = Start /\ Skip' = Skip
  BY <1>1, FeedStays, SpanStays
<1>. QED BY <1>1, <1>2, <1>3 DEF ClientFeed, Serving

LEMMA ScanLambdasClient ==
    ASSUME BaseInv, RequestInv, ClientFeed, ScanLambdas
    PROVE  ClientFeed'
<1>1. phase \in Serving /\ Settled /\ TypeOK
  BY DEF ScanLambdas, Settled, Serving, BaseInv
<1>2. CASE Cardinality(Selected) > MaxLambdaScan
  BY <1>1, <1>2, RefuseClient DEF ScanLambdas
<1>3. CASE ~(Cardinality(Selected) > MaxLambdaScan)
  <2>. DEFINE offset == IF Manual THEN Skip ELSE 0
  <2>. DEFINE rows == Window(Sorted(Matching), offset, Page)
  <2>. DEFINE paged == [rows |-> rows, link |-> NoRow]
  <2>. DEFINE total == IF query.count THEN Cardinality(Matching) ELSE NotGiven
  <2>1. Respond(paged, total)
    BY <1>3 DEF ScanLambdas, Page
  <2>2. offset \in Nat /\ Page \in Nat
    BY <1>1, TypedSizes
  <2>3. Promised /\ ClientPages => OwnPage(rows)
    BY <1>1, OwnWindow
  <2>. HIDE DEF offset
  <2>4. rows \in Seq(Row) /\ Ordered(rows)
    BY <1>1, <2>2, RowsThereAre, WindowIsAPart
  <2>. HIDE DEF rows, total
  <2>5. paged.rows = rows
    OBVIOUS
  <2>. HIDE DEF paged
  <2>. QED BY <1>1, <2>1, <2>3, <2>4, <2>5, ClientAnswers
<1>. QED BY <1>2, <1>3

\* With a filter in memory the pages of such a client are not promised to be complete.
LEMMA ScanRowsClient ==
    ASSUME ScanRows
    PROVE  ClientFeed'
<1>1. /\ cfg' = cfg /\ query' = query /\ table' = table /\ raced' = raced /\ Path = "scan"
  BY DEF ScanRows
<1>2. (ClientPages' <=> ClientPages) /\ (Promised' => Promised)
  BY <1>1, FeedStays
<1>. QED BY <1>1, <1>2 DEF ClientFeed, Promised

LEMMA SelectionClient ==
    ASSUME ClientFeed, Settled, UNCHANGED <<answer, seen>>, phase \in Serving,
           phase' \in {"counted", "selected", "found"},
           Promised /\ ClientPages /\ phase' # "counted" => OwnPage(ids')
    PROVE  ClientFeed'
<1>1. /\ cfg' = cfg /\ query' = query /\ request' = request /\ table' = table /\ raced' = raced
      /\ seen' = seen
  BY DEF Settled
<1>2. Promised' => Promised
  BY <1>1, FeedStays
<1>3. /\ ClientPages' <=> ClientPages
      /\ \A from, to : (Span(from, to))' = Span(from, to)
      /\ (Sorted(AllMatches))' = Sorted(AllMatches)
      /\ Start' = Start /\ Skip' = Skip /\ Page' = Page
  BY <1>1, FeedStays, SpanStays
<1>4. (Ordered(seen))' <=> Ordered(seen)
  BY <1>1, OrderStays DEF Ordered
<1>. QED BY <1>1, <1>2, <1>3, <1>4 DEF ClientFeed, Serving, OwnPage

LEMMA SelectIdsClient ==
    ASSUME BaseInv, RequestInv, ClientFeed, SelectIds
    PROVE  ClientFeed'
<1>1. /\ Settled /\ phase \in Serving /\ UNCHANGED <<answer, seen>> /\ phase' = "selected" /\ TypeOK
  BY DEF SelectIds, Settled, Serving, BaseInv
<1>2. ASSUME Promised, ClientPages
      PROVE  OwnPage(ids')
  <2>1. Manual /\ Limit = Page /\ OwnPage(Window(Sorted(Matching), Skip, Page))
    BY <1>1, <1>2, OwnWindow
  <2>2. ids' = Window(Sorted(Matching), Skip, Page)
    BY <2>1 DEF SelectIds, Page
  <2>. QED BY <2>1, <2>2
<1>. QED BY <1>1, <1>2, SelectionClient

LEMMA FindRowsClient ==
    ASSUME BaseInv, RequestInv, ClientFeed, FindRows
    PROVE  ClientFeed'
<1>1. /\ Settled /\ phase \in Serving /\ UNCHANGED <<answer, seen>> /\ phase' = "found" /\ TypeOK
  BY DEF FindRows, Settled, Serving, BaseInv
<1>2. ASSUME Promised, ClientPages
      PROVE  OwnPage(ids')
  <2>1. Limit = Page /\ OwnPage(Window(Sorted(Matching), Skip, Page))
    BY <1>1, <1>2, OwnWindow
  <2>2. Selected = Matching
    BY <1>1, MatchesOfAPage DEF FindRows
  <2>3. ids' = Window(Sorted(Matching), Skip, Page)
    BY <2>1, <2>2 DEF FindRows
  <2>. QED BY <2>1, <2>3
<1>. QED BY <1>1, <1>2, SelectionClient

LEMMA CountRowsClient ==
    ASSUME ClientFeed, CountRows
    PROVE  ClientFeed'
<1>1. /\ cfg' = cfg /\ query' = query /\ request' = request /\ table' = table /\ raced' = raced
      /\ seen' = seen /\ phase = "asked" /\ phase' = "counted"
  BY DEF CountRows
<1>2. Promised' => Promised
  BY <1>1, FeedStays
<1>3. /\ ClientPages' <=> ClientPages
      /\ \A from, to : (Span(from, to))' = Span(from, to)
      /\ Start' = Start /\ Skip' = Skip
  BY <1>1, FeedStays, SpanStays
<1>4. (Ordered(seen))' <=> Ordered(seen)
  BY <1>1, OrderStays DEF Ordered
<1>. QED BY <1>1, <1>2, <1>3, <1>4 DEF ClientFeed, Serving

LEMMA TurnClient ==
    ASSUME BaseInv, RequestInv, ClientFeed, Turn
    PROVE  ClientFeed'
<1>1. /\ cfg' = cfg /\ query' = query /\ table' = table /\ raced' = raced
      /\ seen' = seen /\ phase = "answered" /\ phase' = "asked" /\ cfg.maxSkip = NotGiven
  BY DEF Turn
<1>2. Promised' => Promised
  BY <1>1, FeedStays
<1>3. /\ ClientPages' <=> ClientPages
      /\ \A from, to : (Span(from, to))' = Span(from, to)
      /\ Start' = Start
  BY <1>1, FeedStays, SpanStays
<1>4. (Ordered(seen))' <=> Ordered(seen)
  BY <1>1, OrderStays DEF Ordered
<1>5. request.skip \in Nat /\ Len(answer.rows) \in Nat
      /\ request \in [skip : Nat \cup {NotGiven}, token : Row \cup {NoRow}]
  BY DEF Turn, Manual, BaseInv, TypeOK
<1>6. request'.skip = request.skip + Len(answer.rows)
  BY <1>5 DEF Turn
<1>7. Skip = request.skip /\ Skip' = request'.skip
  BY <1>1, <1>5, <1>6 DEF Skip, Max2
<1>8. Skip' = Skip + Len(answer.rows) /\ Skip \in Nat
  BY <1>5, <1>6, <1>7
<1>. SUFFICES ASSUME Promised, ClientPages
              PROVE  Start <= Skip' /\ Ordered(seen) /\ ToSet(seen) = Span(Start, Skip')
  BY <1>1, <1>2, <1>3, <1>4 DEF ClientFeed, Serving
<1>9. Start <= Skip /\ Ordered(seen) /\ ToSet(seen) = Span(Start, Skip + Len(answer.rows))
  BY <1>1 DEF ClientFeed
<1>10. Start \in Int
  <2>1. query.skip \in Nat \cup {NotGiven}
    BY TypesOfTheCase DEF BaseInv, TypeOK, Query
  <2>. QED BY <1>1, <2>1 DEF Start, Max2, NotGiven
<1>. QED BY <1>5, <1>8, <1>9, <1>10

LEMMA InitClientFeed ==
    ASSUME Init
    PROVE  ClientFeed
<1>. SUFFICES ASSUME ClientPages
              PROVE  Start <= Skip /\ Ordered(seen) /\ ToSet(seen) = Span(Start, Skip)
  BY DEF Init, ClientFeed
<1>1. seen = <<>> /\ request.skip = query.skip /\ TypeOK
  BY InitBase DEF Init, BaseInv
<1>2. Start = Skip /\ Skip \in Nat
  BY <1>1, TypedSizes DEF Start, Skip
<1>3. ToSet(<<>>) = {} /\ Ordered(<<>>)
  BY DEF ToSet, Ordered
<1>4. Span(Skip, Skip) = {}
  <2>1. Len(Sorted(AllMatches)) \in Nat
    BY <1>1, FeedByPosition
  <2>2. \A n \in 1..Len(Sorted(AllMatches)) : ~(Skip < n /\ n <= Skip)
    BY <1>2, <2>1
  <2>. QED BY <2>2 DEF Span, Positions
<1>. QED BY <1>1, <1>2, <1>3, <1>4

LEMMA OthersClient ==
    ASSUME ClientFeed, Count \/ (\E r \in Row : Delete(r)) \/ UNCHANGED vars
    PROVE  ClientFeed'
<1>1. /\ cfg' = cfg /\ query' = query /\ request' = request /\ seen' = seen /\ answer' = answer
      /\ phase' = phase /\ ids' = ids
  BY DEF Count, Delete, vars
<1>2. table' \subseteq table /\ (raced => raced') /\ (table' = Row => table = Row)
  <2>1. CASE Count \/ UNCHANGED vars
    BY <2>1 DEF Count, vars
  <2>2. CASE \E r \in Row : Delete(r)
    BY <2>2 DEF Delete
  <2>. QED BY <2>1, <2>2
<1>3. Promised' => Promised
  BY <1>1, <1>2, FeedStays
<1>4. /\ ClientPages' <=> ClientPages
      /\ \A from, to : (Span(from, to))' = Span(from, to)
      /\ (Sorted(AllMatches))' = Sorted(AllMatches)
      /\ Start' = Start /\ Skip' = Skip /\ Page' = Page
  BY <1>1, FeedStays, SpanStays
<1>5. (Ordered(seen))' <=> Ordered(seen)
  BY <1>1, OrderStays DEF Ordered
<1>. QED BY <1>1, <1>3, <1>4, <1>5 DEF ClientFeed

LEMMA NextClientFeed ==
    ASSUME BaseInv, RequestInv, ClientFeed, [Next]_vars
    PROVE  ClientFeed'
<1>1. CASE Refusal
  BY <1>1, RefuseClient DEF Refusal, Settled
<1>2. CASE Follow
  <2>1. ~ClientPages /\ query' = query
    BY <1>2 DEF Follow, RequestInv
  <2>2. ~ClientPages'
    BY <2>1 DEF ClientPages
  <2>. QED BY <2>2 DEF ClientFeed
<1>3. CASE ScanRows
  BY <1>3, ScanRowsClient
<1>. QED BY <1>1, <1>2, <1>3, CountRowsClient, SelectIdsClient, FetchRowsClient, ScanLambdasClient,
            FindRowsClient, CountFoundClient, TurnClient, OthersClient
         DEF Next, Serve

-----------------------------------------------------------------------------

FeedInv == AnswerInv /\ ServerFeed /\ ClientFeed

THEOREM FeedIsInvariant == Spec => []FeedInv
<1>1. Init => FeedInv
  BY InitBase, InitRequest, InitMatches, InitServerFeed, InitClientFeed DEF FeedInv, AnswerInv
<1>2. FeedInv /\ [Next]_vars => FeedInv'
  BY NextBase, NextRequest, NextMatches, NextServerFeed, NextClientFeed DEF FeedInv, AnswerInv
<1>. QED BY <1>1, <1>2, PTL DEF Spec

LEMMA FeedsEnd ==
    ASSUME FeedInv
    PROVE  FeedIsComplete
<1>. SUFFICES ASSUME Done, ~raced,
                     ~query.lambda.on \/ Manual,
                     Max2(query.skip, 0) > 0 \/ Manual => Path # "scan" /\ table = Row
              PROVE  Ordered(seen) /\ table \cap FromSkip \subseteq ToSet(seen)
  BY DEF FeedIsComplete
<1>1. TypeOK /\ phase = "answered" /\ (Manual <=> ClientPages) /\ Promised
  BY OwnPages DEF FeedInv, AnswerInv, BaseInv, Done, Promised
<1>2. CASE ~Manual
  <2>1. Linked /\ answer.link = NoRow
    BY <1>1, <1>2 DEF FeedInv, ServerFeed, Done
  <2>. QED BY <2>1 DEF Linked, Wanted
<1>3. CASE Manual
  <2>. DEFINE all == Sorted(AllMatches)
  <2>1. answer.rows = <<>> /\ Len(<<>>) = 0 /\ Skip \in Nat
    BY <1>1, <1>3, TypedSizes DEF Done
  <2>2. /\ Start <= Skip /\ Ordered(seen) /\ Len(all) <= Skip
        /\ ToSet(seen) = Span(Start, Skip + Len(answer.rows))
    BY <1>1, <1>3, <2>1 DEF FeedInv, ClientFeed
  <2>3. ToSet(seen) = Span(Start, Skip)
    BY <2>1, <2>2
  <2>4. /\ Len(all) \in Nat /\ Max2(query.skip, 0) \in Nat
        /\ FromSkip = {all[k] : k \in {n \in 1..Len(all) : Max2(query.skip, 0) < n}}
    BY <1>1, FeedByPosition
  <2>5. Start \in Nat /\ Start <= Max2(query.skip, 0)
    <3>1. query.skip \in Nat \cup {NotGiven} /\ cfg.maxSkip \in Nat \cup {NotGiven}
      BY <1>1, TypesOfTheCase DEF TypeOK, Query, Setting
    <3>. QED BY <3>1 DEF Start, Max2, Min2, NotGiven
  <2>6. Span(Start, Skip) = {all[k] : k \in {n \in 1..Len(all) : Start < n /\ n <= Skip}}
    BY DEF Span, Positions
  <2>. HIDE DEF all
  <2>7. \A n \in 1..Len(all) : Max2(query.skip, 0) < n => Start < n /\ n <= Skip
    BY <2>1, <2>2, <2>4, <2>5
  <2>8. FromSkip \subseteq ToSet(seen)
    BY <2>3, <2>4, <2>6, <2>7
  <2>. QED BY <2>2, <2>8
<1>. QED BY <1>2, <1>3

\* A feed that ends has each match that was not deleted, once and in order, whether
\* the server links its pages or the client asks for them, and whichever statement
\* or scan its pages were read by (buildSkipTokenConstraint, applyServerDrivenPaging,
\* ensureManualSkipOrderDeterminism).
THEOREM FeedsAreComplete == Spec => []FeedIsComplete
<1>1. FeedInv => FeedIsComplete
  BY FeedsEnd
<1>. QED BY <1>1, FeedIsInvariant, PTL
================================================================================
