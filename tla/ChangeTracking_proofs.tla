------------------------ MODULE ChangeTracking_proofs ------------------------
(***************************************************************************)
(* What following the links of a collection promises, for every table,     *)
(* every page size, every order and any number of writers: that rows that  *)
(* stay are reported once, that a client with a delta link misses only     *)
(* what commits late, and that deletions of its page are reported.         *)
(*                                                                         *)
(* The place of a row in the order is the sequence of its values in the    *)
(* fields of the order.  A skip token is such a place, so places are       *)
(* compared with tokens as they are with each other.                       *)
(***************************************************************************)
EXTENDS ChangeTracking, FiniteSetTheorems, SequenceTheorems, WellFoundedInduction, TLAPS

-----------------------------------------------------------------------------
(* The invariants.                                                         *)

Fields == 1..Len(EffectiveOrder)

\* The place of row r with content c, and the order of places.
Place(r, c) == [i \in Fields |-> Field(r, c, EffectiveOrder[i].field)]
Before(v, w) ==
    \E i \in Fields :
        /\ \A j \in 1..i - 1 : v[j] = w[j]
        /\ IF EffectiveOrder[i].desc THEN Smaller(w[i], v[i]) ELSE Smaller(v[i], w[i])

Here(r) == Place(r, table[r])

Looking == request.stage = "look"

\* The rows the request has read, and where they were then.
Read     == ToSet(request.rows)
There(r) == Place(r, request.contents[r])

\* The rows read are in order, and are those asked for.
RequestInv ==
    /\ request = Idle \/ Looking
    /\ Looking =>
        /\ DOMAIN request = {"stage", "rows", "contents", "missing", "todo"}
        /\ Accepted
        /\ InOrder(request.rows, request.contents)
        /\ \A r \in Read :
              /\ Is(request.contents[r]) /\ Passes(request.contents[r])
              /\ link.skip = NoToken \/ Before(link.skip.values, There(r))
              /\ link.delta = NoDelta \/ AfterDeltaToken(link.delta, r, request.contents[r])

\* A skip token comes from a row; the delta token of a first page is kept until the
\* last page is read.
IsToken(token) == \E q \in Row, e \in Content : token = SkipToken(q, e)
LinkInv ==
    /\ link.skip = NoToken \/ IsToken(link.skip)
    /\ link.skip = NoToken => link.first = NoDelta
    /\ cfg.delta /\ link.skip # NoToken => link.first # NoDelta
    /\ \A t \in {link.delta, link.first} : t = NoDelta \/ t.last >= 0
    /\ cfg.delta => stable = {}
    /\ ~cfg.delta => /\ link.delta = NoDelta /\ link.first = NoDelta
                     /\ writes = {} /\ shown = {} /\ ghosts = {}

\* No other values are ever written.
ValuesInv ==
    /\ \A r \in Row : table[r].s \in cfg.values \cup {Absent}
    /\ \A w \in writes : w.content.s \in cfg.values

BaseInv == TypeOK /\ RequestInv /\ LinkInv /\ ValuesInv

\* Rows of the next pages, rows of pages after that of a request that has read its
\* rows, and rows no token with a value leads to.
More      == Len(request.rows) > cfg.page
Waits(r)  == link.skip = NoToken \/ Before(link.skip.values, Here(r))
After(r)  == More /\ \A q \in Read : Before(There(q), Here(r))
NullUp(r) == cfg.order = "asc" /\ table[r].s = Null

\* A row that stays is reported when its page is.
OnceReported(r) ==
    /\ r \in Present /\ Passes(table[r])
    /\ reported[r] <= 1
    /\ Complete => reported[r] = 1 \/ NullUp(r)
    /\ ~Complete => IF Waits(r) THEN reported[r] = 0 ELSE reported[r] = 1 \/ NullUp(r)
    /\ Looking /\ Waits(r) /\ ~NullUp(r) => r \in Read \/ After(r)
    /\ Looking /\ r \in Read => request.contents[r] = table[r] \/ cfg.order = "none"
PagingInv == \A r \in stable : OnceReported(r)

\* A row that was gone when the delta link was called is not read, and is among the
\* keys looked for unless the client has forgotten it.
GhostInv ==
    /\ ghosts \cap Present = {}
    /\ shown \subseteq IF link.skip = NoToken THEN link.delta.keys ELSE link.first.keys
    /\ request = Idle => \A r \in ghosts : ~Is(view[r])
    /\ Looking => \A r \in ghosts : r \notin Read /\ (r \in request.missing \cup request.todo \/ ~Is(view[r]))

\* Whatever was committed, read or put into a token lies up to the horizon: what
\* commits beyond it comes after every token.
Passed(d, id) == \/ d = 0
                 \/ d < horizon.d
                 \/ d = horizon.d /\ id <= horizon.id
TokenPassed(t) == IF t.key = NoKey THEN t.last < horizon.d ELSE Passed(t.last, t.key)
HorizonInv ==
    /\ horizon.d <= clock + 1
    /\ horizon.d = clock + 1 => horizon.id = NoKey
    /\ \A w \in writes : 1 <= w.content.d /\ w.content.d <= clock
    /\ \A r \in Row : Passed(table[r].d, r)
    /\ Looking => \A r \in Read : Passed(request.contents[r].d, r)
    /\ \A t \in {link.delta, link.first} : TokenPassed(t)

\* What the client knows, what a delta token leads to, and what the request in
\* progress will leave to the token it answers with.
Told(r)       == view[r] = table[r]
Due(token, r) == AfterDeltaToken(token, r, table[r])
Scope(r)      == link.delta = NoDelta \/ Due(link.delta, r)
Newer(r)      == \A q \in Read : \/ table[r].d > request.contents[q].d
                                 \/ table[r].d = request.contents[q].d /\ r > q
Later(r)      == IF link.skip = NoToken THEN Newer(r) /\ Scope(r) ELSE Due(link.first, r)

\* A row whose last write was not late is known, or a link still leads to it, or the
\* request in progress has it or leaves it to the next.
Followed(r) ==
    /\ Complete /\ link.delta # NoDelta => Told(r) \/ Due(link.delta, r)
    /\ request = Idle /\ link.skip # NoToken /\ Accepted =>
          \/ Told(r) \/ Due(link.first, r)
          \/ Before(link.skip.values, Here(r)) /\ Scope(r)
    /\ Looking => \/ Later(r)
                  \/ r \in Read /\ request.contents[r] = table[r] /\ r \notin request.missing
                  \/ After(r) /\ Scope(r)
                  \/ Told(r) /\ r \notin request.missing \cup Read
Current  == {r \in Present : Passes(table[r]) /\ r \notin late}
TrackInv == cfg.delta => \A r \in Current : Followed(r)

-----------------------------------------------------------------------------
(* Orders.                                                                 *)

LEMMA Comparing ==
    /\ \A v, w \in Int : v # w => Smaller(v, w) \/ Smaller(w, v)
    /\ \A v, w \in Int : ~(Smaller(v, w) /\ Smaller(w, v))
    /\ \A v, w, x \in Int : Smaller(v, w) /\ Smaller(w, x) => Smaller(v, x)
    /\ \A v \in Int : ~Smaller(v, v)
BY DEF Smaller, Null

LEMMA Prefixed ==
    ASSUME NEW S, NEW x \in S, NEW y \in S, NEW z \in S
    PROVE  <<x>> \o <<y>> = <<x, y>> /\ <<x>> \o <<y, z>> = <<x, y, z>>
<1>1. <<x>> \in Seq(S) /\ <<y>> \in Seq(S) /\ <<y, z>> \in Seq(S) /\ <<x, y>> \in Seq(S) /\ <<x, y, z>> \in Seq(S)
  OBVIOUS
<1>2. /\ <<x>> \o <<y>> \in Seq(S) /\ Len(<<x>> \o <<y>>) = 2
      /\ \A i \in 1..2 : (<<x>> \o <<y>>)[i] = <<x, y>>[i]
  BY <1>1, ConcatProperties
<1>3. /\ <<x>> \o <<y, z>> \in Seq(S) /\ Len(<<x>> \o <<y, z>>) = 3
      /\ \A i \in 1..3 : (<<x>> \o <<y, z>>)[i] = <<x, y, z>>[i]
  BY <1>1, ConcatProperties
<1>4. <<x>> \o <<y>> = <<x, y>>
  BY <1>1, <1>2, SeqEqual
<1>5. <<x>> \o <<y, z>> = <<x, y, z>>
  BY <1>1, <1>3, SeqEqual
<1>. QED BY <1>4, <1>5

\* The orders rows are read in.
LEMMA OrderIs ==
    ASSUME TypeOK
    PROVE  /\ cfg \in Config /\ cfg.order \in {"none", "asc", "desc", "stamp"} /\ cfg.delta \in BOOLEAN
           /\ cfg.order = "stamp" => EffectiveOrder = <<Desc("d"), Asc("id")>>
           /\ ~cfg.delta /\ cfg.order = "none" => EffectiveOrder = <<Asc("id")>>
           /\ ~cfg.delta /\ cfg.order = "asc"  => EffectiveOrder = <<Asc("s"), Asc("id")>>
           /\ ~cfg.delta /\ cfg.order = "desc" => EffectiveOrder = <<Desc("s"), Asc("id")>>
           /\ cfg.delta /\ cfg.order = "none" => EffectiveOrder = <<Desc("d"), Asc("id")>>
           /\ cfg.delta /\ cfg.order = "asc"  => EffectiveOrder = <<Desc("d"), Asc("s"), Asc("id")>>
           /\ cfg.delta /\ cfg.order = "desc" => EffectiveOrder = <<Desc("d"), Desc("s"), Asc("id")>>
<1>1. cfg \in Config
  BY ConfigsAssumption DEF TypeOK
<1>2. cfg.order \in {"none", "asc", "desc", "stamp"} /\ cfg.delta \in BOOLEAN
  BY <1>1 DEF Config
<1>3. \A x, y, z : <<x>> \o <<y>> = <<x, y>> /\ <<x>> \o <<y, z>> = <<x, y, z>>
  <2>. SUFFICES ASSUME NEW x, NEW y, NEW z
                PROVE  <<x>> \o <<y>> = <<x, y>> /\ <<x>> \o <<y, z>> = <<x, y, z>>
    OBVIOUS
  <2>1. x \in {x, y, z} /\ y \in {x, y, z} /\ z \in {x, y, z}
    OBVIOUS
  <2>. QED BY <2>1, Prefixed
<1>4. /\ cfg.order = "none"  => RequestedOrder = <<Asc("id")>>
      /\ cfg.order = "asc"   => RequestedOrder = <<Asc("s"), Asc("id")>>
      /\ cfg.order = "desc"  => RequestedOrder = <<Desc("s"), Asc("id")>>
      /\ cfg.order = "stamp" => RequestedOrder = <<Desc("d"), Asc("id")>>
  BY DEF RequestedOrder
<1>5. EffectiveOrder = IF cfg.delta /\ cfg.order # "stamp" THEN <<Desc("d")>> \o RequestedOrder ELSE RequestedOrder
  BY DEF EffectiveOrder
<1>6. CASE cfg.order = "none"
  BY <1>1, <1>2, <1>3, <1>4, <1>5, <1>6
<1>7. CASE cfg.order = "asc"
  BY <1>1, <1>2, <1>3, <1>4, <1>5, <1>7
<1>8. CASE cfg.order = "desc"
  BY <1>1, <1>2, <1>3, <1>4, <1>5, <1>8
<1>9. CASE cfg.order = "stamp"
  BY <1>1, <1>2, <1>3, <1>4, <1>5, <1>9
<1>. QED BY <1>2, <1>6, <1>7, <1>8, <1>9

LEMMA TheOrder ==
    ASSUME TypeOK
    PROVE  /\ Len(EffectiveOrder) \in 1..3
           /\ \A i \in Fields : /\ EffectiveOrder[i].field \in {"id", "s", "d"}
                                /\ EffectiveOrder[i].desc \in BOOLEAN
           /\ EffectiveOrder[Len(EffectiveOrder)].field = "id"
           /\ ~EffectiveOrder[Len(EffectiveOrder)].desc
           /\ EffectiveOrder # <<>>
<1>. DEFINE Direction == [field : {"id", "s", "d"}, desc : BOOLEAN]
<1>1. Asc("id") \in Direction /\ Asc("s") \in Direction /\ Desc("d") \in Direction /\ Desc("s") \in Direction
  BY DEF Asc, Desc
<1>2. Asc("id").field = "id" /\ ~Asc("id").desc
  BY DEF Asc
<1>3. /\ EffectiveOrder \in {<<Asc("id")>>, <<Desc("d"), Asc("id")>>, <<Asc("s"), Asc("id")>>, <<Desc("s"), Asc("id")>>,
                             <<Desc("d"), Asc("s"), Asc("id")>>, <<Desc("d"), Desc("s"), Asc("id")>>}
  BY OrderIs
<1>. HIDE DEF Direction
<1>4. \A x, y, z \in Direction :
         /\ Len(<<x>>) = 1 /\ Len(<<x, y>>) = 2 /\ Len(<<x, y, z>>) = 3
         /\ \A i \in 1..1 : <<x>>[i] \in Direction
         /\ \A i \in 1..2 : <<x, y>>[i] \in Direction
         /\ \A i \in 1..3 : <<x, y, z>>[i] \in Direction
         /\ <<x>>[1] = x /\ <<x, y>>[2] = y /\ <<x, y, z>>[3] = z
  OBVIOUS
<1>5. /\ Len(EffectiveOrder) \in 1..3
      /\ \A i \in 1..Len(EffectiveOrder) : EffectiveOrder[i] \in Direction
      /\ EffectiveOrder[Len(EffectiveOrder)] = Asc("id")
  BY <1>1, <1>3, <1>4
<1>. QED BY <1>2, <1>5 DEF Fields, Direction

\* Places are compared by a strict total order.
Places == [Fields -> Int]
LEMMA PlacesAreOrdered ==
    ASSUME TypeOK
    PROVE  /\ \A v, w \in Places : v # w => Before(v, w) \/ Before(w, v)
           /\ \A v, w \in Places : ~(Before(v, w) /\ Before(w, v))
           /\ \A v, w, x \in Places : Before(v, w) /\ Before(w, x) => Before(v, x)
<1>. DEFINE n == Len(EffectiveOrder)
<1>. DEFINE S(i, v, w) == IF EffectiveOrder[i].desc THEN Smaller(w[i], v[i]) ELSE Smaller(v[i], w[i])
<1>1. n \in 1..3 /\ Fields = 1..n
  BY TheOrder DEF Fields
<1>2. \A v, w \in Places : \A i \in Fields : v[i] \in Int /\ w[i] \in Int
  BY DEF Places
<1>3. \A v, w \in Places : \A i \in Fields : v[i] # w[i] => S(i, v, w) \/ S(i, w, v)
  BY <1>2, Comparing
<1>4. \A v, w \in Places : \A i \in Fields : ~(S(i, v, w) /\ S(i, w, v)) /\ (S(i, v, w) => v[i] # w[i])
  BY <1>2, Comparing
<1>5. \A v, w, x \in Places : \A i \in Fields : S(i, v, w) /\ S(i, w, x) => S(i, v, x)
  BY <1>2, Comparing
<1>6. \A v, w : Before(v, w) <=> \E i \in Fields : (\A j \in 1..i - 1 : v[j] = w[j]) /\ S(i, v, w)
  BY DEF Before
<1>7. \A v, w, x \in Places : \A i \in Fields : (S(i, v, w) /\ w[i] = x[i] => S(i, v, x))
                                            /\ (v[i] = w[i] /\ S(i, w, x) => S(i, v, x))
  OBVIOUS
<1>. HIDE DEF S, n
<1>8. ASSUME NEW v \in Places, NEW w \in Places, v # w
      PROVE  Before(v, w) \/ Before(w, v)
  <2>1. \E i \in Fields : v[i] # w[i]
    BY <1>8 DEF Places
  <2>2. \E i \in Fields : v[i] # w[i] /\ \A j \in 1..i - 1 : v[j] = w[j]
    BY <1>1, <2>1
  <2>3. PICK i \in Fields : v[i] # w[i] /\ \A j \in 1..i - 1 : v[j] = w[j]
    BY <2>2
  <2>4. S(i, v, w) \/ S(i, w, v)
    BY <1>3, <2>3
  <2>. QED BY <1>6, <2>3, <2>4
<1>9. ASSUME NEW v \in Places, NEW w \in Places, Before(v, w), Before(w, v)
      PROVE  FALSE
  <2>1. PICK i \in Fields : (\A j \in 1..i - 1 : v[j] = w[j]) /\ S(i, v, w)
    BY <1>6, <1>9
  <2>2. PICK k \in Fields : (\A j \in 1..k - 1 : w[j] = v[j]) /\ S(k, w, v)
    BY <1>6, <1>9
  <2>3. v[i] # w[i] /\ v[k] # w[k]
    BY <1>4, <2>1, <2>2
  <2>4. i = k
    BY <1>1, <2>1, <2>2, <2>3
  <2>. QED BY <1>4, <2>1, <2>2, <2>4
<1>10. ASSUME NEW v \in Places, NEW w \in Places, NEW x \in Places, Before(v, w), Before(w, x)
       PROVE  Before(v, x)
  <2>1. PICK i \in Fields : (\A j \in 1..i - 1 : v[j] = w[j]) /\ S(i, v, w)
    BY <1>6, <1>10
  <2>2. PICK k \in Fields : (\A j \in 1..k - 1 : w[j] = x[j]) /\ S(k, w, x)
    BY <1>6, <1>10
  <2>3. i \in Int /\ k \in Int
    BY <1>1
  <2>4. CASE i < k
    <3>1. i \in 1..k - 1
      BY <1>1, <2>4
    <3>2. \A j \in 1..i - 1 : v[j] = x[j]
      BY <1>1, <2>1, <2>2, <2>4
    <3>3. S(i, v, x)
      BY <1>7, <2>1, <2>2, <3>1
    <3>. QED BY <1>6, <3>2, <3>3
  <2>5. CASE k < i
    <3>1. k \in 1..i - 1
      BY <1>1, <2>5
    <3>2. \A j \in 1..k - 1 : v[j] = x[j]
      BY <1>1, <2>1, <2>2, <2>5
    <3>3. S(k, v, x)
      BY <1>7, <2>1, <2>2, <3>1
    <3>. QED BY <1>6, <3>2, <3>3
  <2>6. CASE i = k
    <3>1. \A j \in 1..i - 1 : v[j] = x[j]
      BY <2>1, <2>2, <2>6
    <3>2. S(i, v, x)
      BY <1>5, <2>1, <2>2, <2>6
    <3>. QED BY <1>6, <3>1, <3>2
  <2>. QED BY <2>3, <2>4, <2>5, <2>6
<1>. QED BY <1>8, <1>9, <1>10

\* Rows have places of their own, and Precedes compares them.
LEMMA RowsHavePlaces ==
    ASSUME TypeOK, NEW r \in Row, NEW c \in Content
    PROVE  /\ Place(r, c) \in Places
           /\ Place(r, c)[Len(EffectiveOrder)] = r
           /\ SkipToken(r, c) = [order |-> EffectiveOrder, values |-> Place(r, c)]
           /\ \A q, e : Precedes(EffectiveOrder, r, c, q, e) <=> Before(Place(r, c), Place(q, e))
           /\ \A q \in Row, e \in Content : q # r => Place(q, e) # Place(r, c)
<1>1. \A i \in Fields : EffectiveOrder[i].field \in {"id", "s", "d"}
  BY TheOrder
<1>2. \A q \in Row, e \in Content : \A f \in {"id", "s", "d"} : Field(q, e, f) \in Int
  <2>1. \A q \in Row : q \in Int
    BY RowAssumption
  <2>2. ASSUME NEW e \in Content
        PROVE  e.s \in Int /\ e.d \in Int
    <3>1. e.s \in SortValue \cup {Null, Absent} /\ e.d \in 0..MaxClock
      BY DEF Content
    <3>2. SortValue \subseteq Int /\ Null \in Int /\ Absent \in Int
      BY ValueAssumption DEF Null, Absent
    <3>3. MaxClock \in Int
      BY BoundsAssumption
    <3>4. e.s \in Int
      BY <3>1, <3>2
    <3>5. e.d \in Int
      BY <3>1, <3>3
    <3>. QED BY <3>4, <3>5
  <2>3. \A e \in Content : e["s"] = e.s /\ e["d"] = e.d
    OBVIOUS
  <2>. QED BY <2>1, <2>2, <2>3 DEF Field
<1>3. Place(r, c) \in Places
  BY <1>1, <1>2 DEF Place, Places
<1>4. Len(EffectiveOrder) \in Fields /\ EffectiveOrder[Len(EffectiveOrder)].field = "id"
  BY TheOrder DEF Fields
<1>5. \A q, e : Place(q, e)[Len(EffectiveOrder)] = q
  BY <1>4 DEF Place, Field
<1>6. SkipToken(r, c) = [order |-> EffectiveOrder, values |-> Place(r, c)]
  BY DEF SkipToken, Place, Fields
<1>7. ASSUME NEW q, NEW e
      PROVE  Precedes(EffectiveOrder, r, c, q, e) <=> Before(Place(r, c), Place(q, e))
  <2>1. Len(EffectiveOrder) \in Nat
    BY TheOrder
  <2>2. \A i \in Fields : /\ Place(r, c)[i] = Field(r, c, EffectiveOrder[i].field)
                          /\ Place(q, e)[i] = Field(q, e, EffectiveOrder[i].field)
    BY DEF Place
  <2>3. \A i \in Fields : \A j \in 1..i - 1 : j \in Fields
    BY <2>1 DEF Fields
  <2>. QED BY <2>2, <2>3 DEF Precedes, Before, Fields
<1>. QED BY <1>3, <1>5, <1>6, <1>7

-----------------------------------------------------------------------------
(* Sequences of rows in order.                                             *)

\* Contents that are known of all rows of a sequence.
Knows(contents, seq) == \A r \in ToSet(seq) : contents[r] \in Content

LEMMA ToSetIsRange ==
    ASSUME NEW S, NEW seq \in Seq(S)
    PROVE  /\ Len(seq) \in Nat
           /\ ToSet(seq) = {seq[i] : i \in 1..Len(seq)}
           /\ ToSet(seq) \subseteq S
           /\ \A i \in 1..Len(seq) : seq[i] \in ToSet(seq)
           /\ \A x \in ToSet(seq) : \E i \in 1..Len(seq) : x = seq[i]
<1>1. Len(seq) \in Nat /\ DOMAIN seq = 1..Len(seq) /\ \A i \in 1..Len(seq) : seq[i] \in S
  OBVIOUS
<1>. QED BY <1>1 DEF ToSet

LEMMA InOrderIs ==
    ASSUME TypeOK, NEW seq \in Seq(Row), NEW contents, Knows(contents, seq)
    PROVE  InOrder(seq, contents) <=>
               \A i, j \in 1..Len(seq) :
                   i < j => Before(Place(seq[i], contents[seq[i]]), Place(seq[j], contents[seq[j]]))
<1>1. \A i \in 1..Len(seq) : seq[i] \in Row /\ contents[seq[i]] \in Content
  BY ToSetIsRange DEF Knows
<1>2. ASSUME NEW i \in 1..Len(seq), NEW j \in 1..Len(seq)
      PROVE  Precedes(EffectiveOrder, seq[i], contents[seq[i]], seq[j], contents[seq[j]])
                 <=> Before(Place(seq[i], contents[seq[i]]), Place(seq[j], contents[seq[j]]))
  BY <1>1, RowsHavePlaces
<1>. QED BY <1>2 DEF InOrder

LEMMA RowsAreFinite ==
    ASSUME NEW S \in SUBSET Row
    PROVE  /\ IsFiniteSet(S)
           /\ Cardinality(S) \in Nat
           /\ S \subseteq Nat
BY RowAssumption, FS_Subset, FS_CardinalityType

LEMMA RowsHere ==
    ASSUME TypeOK
    PROVE  /\ \A r \in Row : table[r] \in Content /\ Here(r) \in Places
           /\ \A r, q \in Row : r # q => Before(Here(r), Here(q)) \/ Before(Here(q), Here(r))
<1>1. \A r \in Row : table[r] \in Content
  BY DEF TypeOK
<1>2. \A r \in Row : Here(r) \in Places
  BY <1>1, RowsHavePlaces DEF Here
<1>3. \A r, q \in Row : r # q => Here(r) # Here(q)
  BY <1>1, RowsHavePlaces DEF Here
<1>. QED BY <1>1, <1>2, <1>3, PlacesAreOrdered

\* Each set of rows can be put into order: by how many rows come before a row.
LEMMA AnOrderExists ==
    ASSUME TypeOK, NEW S \in SUBSET Row
    PROVE  \E seq \in [1..Cardinality(S) -> S] : InOrder(seq, table)
<1>. DEFINE n == Cardinality(S)
<1>. DEFINE Earlier(r) == {q \in S : Before(Here(q), Here(r))}
<1>. DEFINE rank == [r \in S |-> Cardinality(Earlier(r)) + 1]
<1>1. IsFiniteSet(S) /\ n \in Nat /\ S \subseteq Nat
  BY RowsAreFinite
<1>2. \A r \in S : IsFiniteSet(Earlier(r)) /\ Cardinality(Earlier(r)) \in Nat
  BY <1>1, FS_Subset, FS_CardinalityType
<1>0. \A r \in S : Here(r) \in Places
  BY RowsHere
<1>3. ASSUME NEW r \in S
      PROVE  Cardinality(Earlier(r)) < n
  <2>1. r \notin Earlier(r)
    BY <1>0, PlacesAreOrdered
  <2>2. Earlier(r) \in SUBSET S
    OBVIOUS
  <2>3. Earlier(r) # S
    BY <2>1
  <2>. HIDE DEF Earlier
  <2>. QED BY <1>1, <1>2, <2>2, <2>3, FS_Subset
<1>4. ASSUME NEW r \in S, NEW q \in S, Before(Here(q), Here(r))
      PROVE  Cardinality(Earlier(q)) < Cardinality(Earlier(r))
  <2>1. \A s \in Earlier(q) : Before(Here(s), Here(r))
    BY <1>0, <1>4, PlacesAreOrdered
  <2>2. Earlier(q) \in SUBSET Earlier(r)
    BY <2>1
  <2>3. q \in Earlier(r) /\ q \notin Earlier(q)
    BY <1>0, <1>4, PlacesAreOrdered
  <2>. HIDE DEF Earlier
  <2>4. IsFiniteSet(Earlier(r)) /\ Cardinality(Earlier(r)) \in Nat /\ Cardinality(Earlier(q)) \in Nat
    BY <1>2
  <2>. QED BY <2>2, <2>3, <2>4, FS_Subset
<1>. HIDE DEF Earlier
<1>5. rank \in [S -> 1..n]
  BY <1>1, <1>2, <1>3
<1>6. \A r, q \in S : Before(Here(q), Here(r)) => rank[q] < rank[r]
  BY <1>2, <1>4
<1>. HIDE DEF rank, n
<1>7. \A r, q \in S : rank[r] = rank[q] => r = q
  <2>. SUFFICES ASSUME NEW r \in S, NEW q \in S, rank[r] = rank[q], r # q
                PROVE  FALSE
    OBVIOUS
  <2>1. Before(Here(r), Here(q)) \/ Before(Here(q), Here(r))
    BY RowsHere
  <2>2. rank[r] \in Int /\ rank[q] \in Int
    BY <1>5
  <2>. QED BY <1>6, <2>1, <2>2
<1>8. rank \in Injection(S, 1..n)
  BY <1>5, <1>7 DEF Injection, IsInjective
<1>9. IsFiniteSet(1..n) /\ Cardinality(1..n) = n
  BY <1>1, FS_Interval DEF n
<1>10. rank \in Surjection(S, 1..n)
  BY <1>8, <1>9, FS_Injection DEF n
<1>11. \A i \in 1..n : \E r \in S : rank[r] = i
  BY <1>10 DEF Surjection
<1>. DEFINE seq == [i \in 1..n |-> CHOOSE r \in S : rank[r] = i]
<1>12. \A i \in 1..n : seq[i] \in S /\ rank[seq[i]] = i
  BY <1>11
<1>13. seq \in [1..n -> S]
  BY <1>12
<1>. HIDE DEF seq
<1>14. Len(seq) = n /\ seq \in Seq(S) /\ n \in Nat
  BY <1>1, <1>13 DEF n
<1>15. \A i, j \in 1..n : i < j => Before(Here(seq[i]), Here(seq[j]))
  <2>. SUFFICES ASSUME NEW i \in 1..n, NEW j \in 1..n, i < j, ~Before(Here(seq[i]), Here(seq[j]))
                PROVE  FALSE
    OBVIOUS
  <2>1. seq[i] \in S /\ seq[j] \in S /\ rank[seq[i]] = i /\ rank[seq[j]] = j
    BY <1>12
  <2>2. seq[i] = seq[j] \/ Before(Here(seq[j]), Here(seq[i]))
    BY <2>1, RowsHere
  <2>3. Before(Here(seq[j]), Here(seq[i])) => j < i
    BY <1>6, <2>1
  <2>. QED BY <2>1, <2>2, <2>3
<1>16. InOrder(seq, table)
  <2>1. seq \in Seq(Row)
    BY <1>14, SeqMonotonic
  <2>2. Knows(table, seq)
    BY <2>1, RowsHere, ToSetIsRange DEF Knows
  <2>. QED BY <1>14, <1>15, <2>1, <2>2, InOrderIs DEF Here
<1>. QED BY <1>13, <1>16 DEF n

\* A sequence in order has no row twice, so its length is the size of its set.
LEMMA InOrderHasNoDuplicates ==
    ASSUME TypeOK, NEW seq \in Seq(Row), NEW contents, Knows(contents, seq), InOrder(seq, contents)
    PROVE  /\ Cardinality(ToSet(seq)) = Len(seq)
           /\ \A i, j \in 1..Len(seq) : seq[i] = seq[j] => i = j
<1>1. Len(seq) \in Nat /\ DOMAIN seq = 1..Len(seq) /\ seq \in [1..Len(seq) -> Row]
  OBVIOUS
<1>. DEFINE n == Len(seq)
<1>. HIDE DEF n
<1>2. \A i, j \in 1..n : seq[i] = seq[j] => i = j
  <2>. SUFFICES ASSUME NEW i \in 1..n, NEW j \in 1..n, seq[i] = seq[j], i < j
                PROVE  FALSE
    BY <1>1 DEF n
  <2>1. Before(Place(seq[i], contents[seq[i]]), Place(seq[j], contents[seq[j]]))
    BY InOrderIs DEF n
  <2>2. Place(seq[i], contents[seq[i]]) \in Places
    BY ToSetIsRange, RowsHavePlaces DEF Knows, n
  <2>. QED BY <2>1, <2>2, PlacesAreOrdered
<1>3. ToSet(seq) = {seq[i] : i \in 1..n}
  BY <1>1 DEF ToSet, n
<1>4. seq \in Bijection(1..n, ToSet(seq))
  BY <1>1, <1>2, <1>3 DEF Injection, IsInjective, Surjection, Bijection, n
<1>5. IsFiniteSet(1..n) /\ Cardinality(1..n) = n
  BY <1>1, FS_Interval DEF n
<1>6. Cardinality(ToSet(seq)) = n
  BY <1>4, <1>5, FS_Bijection DEF ExistsBijection
<1>. QED BY <1>2, <1>6 DEF n

\* What Sorted returns.
LEMMA SortedIsInOrder ==
    ASSUME TypeOK, NEW S \in SUBSET Row
    PROVE  /\ Sorted(S) \in Seq(Row)
           /\ InOrder(Sorted(S), table)
           /\ Knows(table, Sorted(S))
           /\ Len(Sorted(S)) = Cardinality(S)
           /\ ToSet(Sorted(S)) = S
<1>1. Sorted(S) \in [1..Cardinality(S) -> S] /\ InOrder(Sorted(S), table)
  BY AnOrderExists DEF Sorted
<1>2. IsFiniteSet(S) /\ Cardinality(S) \in Nat
  BY RowsAreFinite
<1>3. Sorted(S) \in Seq(S) /\ Len(Sorted(S)) = Cardinality(S)
  BY <1>1, <1>2
<1>4. Sorted(S) \in Seq(Row)
  BY <1>3, SeqMonotonic
<1>5. Knows(table, Sorted(S))
  BY <1>4, RowsHere, ToSetIsRange DEF Knows
<1>6. Cardinality(ToSet(Sorted(S))) = Cardinality(S)
  BY <1>1, <1>3, <1>4, <1>5, InOrderHasNoDuplicates
<1>7. ToSet(Sorted(S)) \in SUBSET S
  BY <1>3, ToSetIsRange
<1>8. ToSet(Sorted(S)) = S
  BY <1>2, <1>6, <1>7, FS_Subset
<1>. QED BY <1>1, <1>3, <1>4, <1>5, <1>8

\* The first rows of a sequence in order.
LEMMA TakeIsTheFirst ==
    ASSUME TypeOK, NEW seq \in Seq(Row), NEW contents, Knows(contents, seq), InOrder(seq, contents),
           NEW n \in Nat
    PROVE  /\ Take(seq, n) \in Seq(Row)
           /\ Len(Take(seq, n)) = IF Len(seq) < n THEN Len(seq) ELSE n
           /\ ToSet(Take(seq, n)) \subseteq ToSet(seq)
           /\ Knows(contents, Take(seq, n))
           /\ InOrder(Take(seq, n), contents)
           /\ Len(seq) <= n => ToSet(Take(seq, n)) = ToSet(seq)
           /\ \A r \in ToSet(seq) \ ToSet(Take(seq, n)) : \A q \in ToSet(Take(seq, n)) :
                  Before(Place(q, contents[q]), Place(r, contents[r]))
<1>. DEFINE m == IF Len(seq) < n THEN Len(seq) ELSE n
<1>. DEFINE T == Take(seq, n)
<1>1. Len(seq) \in Nat /\ m \in Nat /\ m <= Len(seq) /\ m <= n
  OBVIOUS
<1>2. \A i \in 1..m : seq[i] \in Row
  BY <1>1
<1>3. /\ SubSeq(seq, 1, m) \in Seq(Row)
      /\ Len(SubSeq(seq, 1, m)) = IF 1 <= m THEN m - 1 + 1 ELSE 0
      /\ \A i \in 1..(m - 1 + 1) : SubSeq(seq, 1, m)[i] = seq[1 + i - 1]
  BY <1>1, <1>2, SubSeqProperties
<1>4. T = SubSeq(seq, 1, m)
  BY DEF Take
<1>. HIDE DEF T, m
<1>5. T \in Seq(Row) /\ Len(T) = m
  BY <1>1, <1>3, <1>4
<1>6. \A i \in 1..m : T[i] = seq[i] /\ i \in 1..Len(seq)
  <2>. SUFFICES ASSUME NEW i \in 1..m
                PROVE  T[i] = seq[i] /\ i \in 1..Len(seq)
    OBVIOUS
  <2>1. i \in 1..(m - 1 + 1) /\ 1 + i - 1 = i
    BY <1>1
  <2>. QED BY <1>1, <1>3, <1>4, <2>1
<1>7. ToSet(T) \subseteq ToSet(seq)
  BY <1>5, <1>6, ToSetIsRange
<1>8. Knows(contents, T)
  BY <1>7 DEF Knows
<1>9. InOrder(T, contents)
  BY <1>5, <1>6, <1>8, InOrderIs
<1>10. Len(seq) <= n => m = Len(seq)
  BY <1>1 DEF m
<1>11. ASSUME NEW i \in 1..Len(seq), seq[i] \notin ToSet(T)
       PROVE  m < i
  BY <1>1, <1>5, <1>6, <1>11, ToSetIsRange
<1>12. Len(seq) <= n => ToSet(seq) \subseteq ToSet(T)
  <2>. SUFFICES ASSUME Len(seq) <= n, NEW x \in ToSet(seq), x \notin ToSet(T)
                PROVE  FALSE
    OBVIOUS
  <2>1. PICK i \in 1..Len(seq) : x = seq[i]
    BY ToSetIsRange
  <2>. QED BY <1>1, <1>10, <1>11, <2>1
<1>13. ASSUME NEW r \in ToSet(seq) \ ToSet(T), NEW q \in ToSet(T)
       PROVE  Before(Place(q, contents[q]), Place(r, contents[r]))
  <2>1. PICK i \in 1..Len(seq) : r = seq[i]
    BY ToSetIsRange
  <2>2. PICK j \in 1..m : q = T[j]
    BY <1>5, ToSetIsRange
  <2>3. q = seq[j] /\ j \in 1..Len(seq) /\ j < i
    BY <1>1, <1>6, <1>11, <2>1, <2>2
  <2>. QED BY <2>1, <2>3, InOrderIs
<1>. QED BY <1>5, <1>7, <1>8, <1>9, <1>12, <1>13 DEF T, m

\* The last row of a page is one of it, and no row of it comes behind.
LEMMA LastIsLast ==
    ASSUME TypeOK, NEW seq \in Seq(Row), NEW contents, Knows(contents, seq), InOrder(seq, contents),
           seq # <<>>
    PROVE  /\ Last(seq) \in ToSet(seq)
           /\ \A r \in ToSet(seq) :
                  r = Last(seq) \/ Before(Place(r, contents[r]), Place(Last(seq), contents[Last(seq)]))
<1>1. Len(seq) \in Nat /\ Len(seq) # 0
  BY EmptySeq
<1>2. Last(seq) = seq[Len(seq)] /\ Len(seq) \in 1..Len(seq)
  BY <1>1 DEF Last
<1>3. ASSUME NEW r \in ToSet(seq), r # Last(seq)
      PROVE  Before(Place(r, contents[r]), Place(Last(seq), contents[Last(seq)]))
  <2>1. PICK i \in 1..Len(seq) : r = seq[i]
    BY ToSetIsRange
  <2>2. i < Len(seq)
    BY <1>1, <1>2, <1>3, <2>1
  <2>. QED BY <1>2, <2>1, <2>2, InOrderIs
<1>. QED BY <1>2, <1>3, ToSetIsRange

-----------------------------------------------------------------------------
(* What no step changes.                                                   *)

LEMMA PlacesStay ==
    ASSUME cfg' = cfg
    PROVE  /\ EffectiveOrder' = EffectiveOrder
           /\ RequestedOrder' = RequestedOrder
           /\ \A r, c : (Place(r, c))' = Place(r, c)
           /\ \A v, w : (Before(v, w))' <=> Before(v, w)
           /\ \A r, c : (SkipToken(r, c))' = SkipToken(r, c)
           /\ \A seq, contents : (InOrder(seq, contents))' <=> InOrder(seq, contents)
           /\ \A c : (Passes(c))' <=> Passes(c)
           /\ Filtered' <=> Filtered
           /\ \A token : (IsToken(token))' <=> IsToken(token)
<1>1. RequestedOrder' = RequestedOrder
  BY DEF RequestedOrder
<1>2. EffectiveOrder' = EffectiveOrder
  BY <1>1 DEF EffectiveOrder
<1>3. \A r, c : (Place(r, c))' = Place(r, c)
  BY <1>2 DEF Place, Fields
<1>4. \A v, w : (Before(v, w))' <=> Before(v, w)
  BY <1>2 DEF Before, Fields
<1>5. \A r, c : (SkipToken(r, c))' = SkipToken(r, c)
  BY <1>2 DEF SkipToken
<1>6. \A seq, contents : (InOrder(seq, contents))' <=> InOrder(seq, contents)
  BY <1>2 DEF InOrder
<1>7. (\A c : (Passes(c))' <=> Passes(c)) /\ (Filtered' <=> Filtered)
  BY DEF Passes, Filtered
<1>8. \A token : (IsToken(token))' <=> IsToken(token)
  BY <1>5 DEF IsToken
<1>. QED BY <1>1, <1>2, <1>3, <1>4, <1>5, <1>6, <1>7, <1>8

\* Where rows are after a step.
LEMMA HereAndThere ==
    ASSUME cfg' = cfg
    PROVE  /\ \A r : (Here(r))' = Place(r, table'[r])
           /\ \A r : (There(r))' = Place(r, request'.contents[r])
           /\ table' = table => \A r : (Here(r))' = Here(r)
           /\ request' = request => \A r : (There(r))' = There(r)
<1>1. \A r : (Here(r))' = Place(r, table'[r])
  BY PlacesStay DEF Here, Place, Fields
<1>2. \A r : (There(r))' = Place(r, request'.contents[r])
  BY PlacesStay DEF There, Place, Fields
<1>. QED BY <1>1, <1>2 DEF Here, There

-----------------------------------------------------------------------------
(* What the actions do.                                                    *)

\* The page answered, and the tokens that come with it.
Page    == Take(request.rows, cfg.page)
Cursor  == IF cfg.delta THEN DeltaToken(Page, request.contents, link.delta) ELSE NoDelta
Keeping == IF link.skip = NoToken THEN Cursor ELSE link.first

\* An empty first page: the cursor is the time of the server.
Fresh == cfg.delta /\ link.skip = NoToken /\ link.delta = NoDelta /\ Page = <<>>

LEMMA WhatAnswerDoes ==
    ASSUME Answer
    PROVE  /\ Looking /\ request.todo = {} /\ request' = Idle
           /\ link' = IF More
                      THEN [skip |-> SkipToken(Last(Page), request.contents[Last(Page)]),
                            delta |-> link.delta, first |-> Keeping]
                      ELSE [skip |-> NoToken, delta |-> Keeping, first |-> NoDelta]
           /\ view' = [r \in Row |->
                          CASE r \in request.missing -> Unknown
                            [] cfg.delta /\ r \in ToSet(Page) \ request.missing -> request.contents[r]
                            [] OTHER -> view[r]]
           /\ reported' = [r \in Row |-> IF r \in ToSet(Page) \cap stable /\ reported[r] < 2
                                         THEN reported[r] + 1 ELSE reported[r]]
           /\ Fresh => horizon' = [d |-> clock + 1, id |-> NoKey] /\ late' = late \cup Present
           /\ ~Fresh => UNCHANGED <<horizon, late>>
           /\ shown' = IF cfg.delta /\ link.skip = NoToken /\ Page # <<>> THEN ToSet(Page) ELSE shown
           /\ UNCHANGED <<cfg, table, writes, clock, stable, ghosts>>
BY DEF Answer, Looking, Page, More, Cursor, Keeping, Fresh

LEMMA WhatReadRowsDoes ==
    ASSUME ReadRows
    PROVE  /\ request = Idle /\ Accepted
           /\ Filtered => Len(Found) <= MaxScan
           /\ request' = [stage |-> "look", rows |-> Kept,
                          contents |-> [r \in ToSet(Kept) |-> table[r]], missing |-> {},
                          todo |-> IF cfg.delta THEN link.delta.keys ELSE {}]
           /\ link.skip = NoToken =>
                 /\ stable' = IF cfg.delta THEN {} ELSE {r \in Present : Passes(table[r])}
                 /\ reported' = [r \in Row |-> 0]
                 /\ ghosts' = shown \ Present
           /\ link.skip # NoToken => UNCHANGED <<stable, reported, ghosts>>
           /\ UNCHANGED <<cfg, table, writes, clock, link, view, horizon, late, shown>>
BY DEF ReadRows

LEMMA TypesOfTheConfig ==
    ASSUME TypeOK
    PROVE  /\ cfg.page \in Nat \ {0} /\ cfg.delta \in BOOLEAN
           /\ cfg.values \subseteq SortValue \cup {Null}
           /\ cfg.rows \subseteq Row /\ cfg.start \subseteq Row
BY OrderIs DEF Config

\* What a request reads: rows that match, in order, and when it leaves one out, more
\* than a page, all before it.
LEMMA WhatIsKept ==
    ASSUME TypeOK, ValuesInv, Filtered => Len(Found) <= MaxScan
    PROVE  /\ Kept \in Seq(Row) /\ Knows(table, Kept) /\ InOrder(Kept, table)
           /\ \A r \in ToSet(Kept) : r \in Selected /\ Passes(table[r])
           /\ \A r \in Selected : Passes(table[r]) =>
                  \/ r \in ToSet(Kept)
                  \/ Len(Kept) > cfg.page /\ \A q \in ToSet(Kept) : Before(Here(q), Here(r))
<1>. DEFINE all == Sorted(Selected)
<1>. DEFINE some == {r \in ToSet(Found) : Passes(table[r])}
<1>0. cfg.page \in Nat /\ MaxScan \in Nat
  BY TypesOfTheConfig, BoundsAssumption
<1>1. Selected \in SUBSET Row /\ Selected \subseteq Present
  BY DEF Selected, Present
<1>2. all \in Seq(Row) /\ InOrder(all, table) /\ Knows(table, all) /\ ToSet(all) = Selected
  BY <1>1, SortedIsInOrder
<1>3. Limit \in Nat /\ Limit = IF Filtered THEN MaxScan + 1 ELSE cfg.page + 1
  BY <1>0 DEF Limit
<1>4. Found = Take(all, Limit)
  BY DEF Found
<1>. HIDE DEF all
<1>5. /\ Found \in Seq(Row) /\ Len(Found) = (IF Len(all) < Limit THEN Len(all) ELSE Limit)
      /\ ToSet(Found) \subseteq Selected
      /\ Knows(table, Found) /\ InOrder(Found, table)
      /\ Len(all) <= Limit => ToSet(Found) = Selected
      /\ \A r \in Selected \ ToSet(Found) : \A q \in ToSet(Found) : Before(Here(q), Here(r))
  BY <1>2, <1>3, <1>4, TakeIsTheFirst DEF Here
<1>6. some \in SUBSET Row /\ Kept = Sorted(some)
  BY <1>1, <1>5 DEF Kept
<1>. HIDE DEF some
<1>7. /\ Kept \in Seq(Row) /\ Knows(table, Kept) /\ InOrder(Kept, table)
      /\ Len(Kept) = Cardinality(some) /\ ToSet(Kept) = some
  BY <1>6, SortedIsInOrder
<1>8. Len(all) \in Nat
  BY <1>2
<1>9. ASSUME NEW r \in Selected, Passes(table[r]), r \notin ToSet(Kept)
      PROVE  Len(Kept) > cfg.page /\ \A q \in ToSet(Kept) : Before(Here(q), Here(r))
  <2>1. r \notin ToSet(Found)
    BY <1>7, <1>9 DEF some
  <2>2. ~Filtered
    BY <1>0, <1>3, <1>5, <1>8, <2>1
  <2>3. \A q \in Selected : Passes(table[q])
    <3>1. cfg.values \subseteq cfg.keep
      BY <2>2 DEF Filtered
    <3>2. \A q \in Selected : q \in Row /\ table[q].s \in cfg.values
      BY <1>1 DEF ValuesInv, Present, Is
    <3>. QED BY <3>1, <3>2 DEF Passes
  <2>4. some = ToSet(Found)
    BY <1>5, <2>3 DEF some
  <2>5. Len(Kept) = Len(Found)
    BY <1>5, <1>7, <2>4, InOrderHasNoDuplicates
  <2>6. Len(Found) = cfg.page + 1
    BY <1>0, <1>3, <1>5, <1>8, <2>1, <2>2
  <2>. QED BY <1>0, <1>5, <1>7, <2>1, <2>4, <2>5, <2>6
<1>. QED BY <1>5, <1>7, <1>9 DEF some

-----------------------------------------------------------------------------
(* The base: types, requests, links and values.                            *)

LEMMA NoTokens ==
    /\ NoLink.skip = NoToken /\ NoLink.delta = NoDelta /\ NoLink.first = NoDelta
    /\ NoDelta.last = -1 /\ NoDelta.key = NoKey /\ NoDelta.keys = {}
    /\ Unknown \in Content /\ ~Is(Unknown)
    /\ \A r, c : TypeOK => SkipToken(r, c) # NoToken
    /\ \A r, c : TypeOK => Len(SkipToken(r, c).values) = Len(SkipToken(r, c).order)
<1>1. NoLink.skip = NoToken /\ NoLink.delta = NoDelta /\ NoLink.first = NoDelta
      /\ NoDelta.last = -1 /\ NoDelta.key = NoKey /\ NoDelta.keys = {}
  BY DEF NoLink, NoDelta
<1>2. Unknown \in Content /\ ~Is(Unknown)
  BY BoundsAssumption DEF Unknown, Content, Is, Absent
<1>3. ASSUME NEW r, NEW c, TypeOK
      PROVE  SkipToken(r, c) # NoToken
  <2>1. SkipToken(r, c).order = EffectiveOrder
    BY DEF SkipToken
  <2>2. NoToken.order = <<>>
    BY DEF NoToken
  <2>3. EffectiveOrder # <<>>
    BY <1>3, TheOrder
  <2>. QED BY <2>1, <2>2, <2>3
<1>4. ASSUME NEW r, NEW c, TypeOK
      PROVE  Len(SkipToken(r, c).values) = Len(SkipToken(r, c).order)
  <2>1. Len(EffectiveOrder) \in Nat
    BY <1>4, TheOrder
  <2>2. SkipToken(r, c) = [order |-> EffectiveOrder, values |-> Place(r, c)]
    BY DEF SkipToken, Place, Fields
  <2>3. DOMAIN Place(r, c) = 1..Len(EffectiveOrder)
    BY DEF Place, Fields
  <2>4. Len(Place(r, c)) = Len(EffectiveOrder)
    <3>. DEFINE n == Len(EffectiveOrder)
    <3>. DEFINE v(i) == Field(r, c, EffectiveOrder[i].field)
    <3>1. Place(r, c) = [i \in 1..n |-> v(i)]
      BY DEF Place, Fields
    <3>2. n \in Nat
      BY <2>1
    <3>. HIDE DEF n, v
    <3>3. Len([i \in 1..n |-> v(i)]) = n
      BY <3>2
    <3>. QED BY <3>1, <3>3 DEF n
  <2>. QED BY <2>2, <2>4
<1>. QED BY <1>1, <1>2, <1>3, <1>4

\* The page answered, and a delta token with its last stamp and its keys.
LEMMA CursorsAreTyped ==
    ASSUME BaseInv, Looking
    PROVE  /\ Page \in Seq(Row) /\ ToSet(Page) \subseteq Read /\ Read \subseteq Row
           /\ Knows(request.contents, Page) /\ InOrder(Page, request.contents)
           /\ Page # <<>> => Last(Page) \in ToSet(Page)
           /\ More => Page # <<>>
           /\ Cursor.last \in -1..MaxClock /\ Cursor.key \in Row \cup {NoKey} /\ Cursor.keys \subseteq Row
           /\ cfg.delta => Cursor # NoDelta /\ Cursor.last >= 0
           /\ ~cfg.delta => Cursor = NoDelta
           /\ cfg.delta /\ Page # <<>> =>
                  Cursor = [last |-> request.contents[Last(Page)].d, key |-> Last(Page), keys |-> ToSet(Page)]
           /\ cfg.delta /\ Page = <<>> /\ ~Fresh /\ link.skip = NoToken => Cursor = link.delta
<1>0. TypeOK /\ RequestInv /\ LinkInv
  BY DEF BaseInv
<1>1. cfg.page \in Nat \ {0}
  BY <1>0, TypesOfTheConfig
<1>2. request.rows \in Seq(Row) /\ request.contents \in [Read -> Content]
  BY <1>0 DEF TypeOK, Looking, Read
<1>3. Knows(request.contents, request.rows) /\ InOrder(request.rows, request.contents)
  BY <1>0, <1>2 DEF Knows, Read, RequestInv
<1>4. /\ Page \in Seq(Row) /\ ToSet(Page) \subseteq Read
      /\ Knows(request.contents, Page) /\ InOrder(Page, request.contents)
      /\ Len(Page) = IF Len(request.rows) < cfg.page THEN Len(request.rows) ELSE cfg.page
  BY <1>0, <1>1, <1>2, <1>3, TakeIsTheFirst DEF Page, Read
<1>5. Page # <<>> => Last(Page) \in ToSet(Page)
  BY <1>0, <1>4, LastIsLast
<1>6. More => Page # <<>>
  <2>1. Len(request.rows) \in Nat /\ Len(<<>>) = 0
    BY <1>2
  <2>. QED BY <1>1, <1>4, <2>1 DEF More
<1>7. Read \subseteq Row
  BY <1>2, ToSetIsRange DEF Read
<1>8. link.delta.last \in -1..MaxClock /\ link.delta.key \in Row \cup {NoKey} /\ link.delta.keys \subseteq Row
  BY <1>0 DEF TypeOK
<1>9. clock \in 0..MaxClock
  BY <1>0 DEF TypeOK
<1>10. CASE ~cfg.delta
  <2>1. Cursor = NoDelta
    BY <1>10 DEF Cursor
  <2>2. -1 \in -1..MaxClock
    BY BoundsAssumption
  <2>. QED BY <1>4, <1>5, <1>6, <1>7, <1>10, <2>1, <2>2, NoTokens
<1>11. CASE cfg.delta /\ Page = <<>> /\ link.delta # NoDelta
  <2>1. Cursor = link.delta
    BY <1>11 DEF Cursor, DeltaToken
  <2>2. link.delta.last >= 0
    BY <1>0, <1>11 DEF LinkInv
  <2>. QED BY <1>4, <1>5, <1>6, <1>7, <1>8, <1>11, <2>1, <2>2
<1>12. CASE cfg.delta /\ Page = <<>> /\ link.delta = NoDelta
  <2>1. Cursor = [last |-> clock, key |-> NoKey, keys |-> {}]
    BY <1>12 DEF Cursor, DeltaToken
  <2>2. Cursor.last = clock /\ Cursor.key = NoKey /\ Cursor.keys = {}
    BY <2>1
  <2>3. clock \in -1..MaxClock /\ clock >= 0 /\ clock # -1
    BY <1>9, BoundsAssumption
  <2>4. Cursor # NoDelta
    BY <2>2, <2>3, NoTokens
  <2>. QED BY <1>4, <1>5, <1>6, <1>7, <1>12, <2>2, <2>3, <2>4 DEF Fresh
<1>13. CASE cfg.delta /\ Page # <<>>
  <2>1. Cursor = [last |-> request.contents[Last(Page)].d, key |-> Last(Page), keys |-> ToSet(Page)]
    BY <1>13 DEF Cursor, DeltaToken
  <2>2. Last(Page) \in Row /\ request.contents[Last(Page)].d \in 0..MaxClock
    BY <1>2, <1>4, <1>5, <1>7, <1>13 DEF Content
  <2>3. Cursor.last \in 0..MaxClock /\ Cursor.key = Last(Page) /\ Cursor.keys = ToSet(Page)
    BY <2>1, <2>2
  <2>4. Cursor.last \in -1..MaxClock /\ Cursor.last >= 0 /\ Cursor.last # -1
    BY <2>3, BoundsAssumption
  <2>5. Cursor # NoDelta
    BY <2>4, NoTokens
  <2>. QED BY <1>4, <1>5, <1>6, <1>7, <1>13, <2>1, <2>2, <2>3, <2>4, <2>5
<1>. QED BY <1>10, <1>11, <1>12, <1>13

\* Only the key ascends, and the client's property if it asks for that.
LEMMA WhatAscends ==
    ASSUME TypeOK
    PROVE  \A i \in Fields :
              ~EffectiveOrder[i].desc =>
                  \/ EffectiveOrder[i].field = "id"
                  \/ /\ EffectiveOrder[i].field = "s" /\ cfg.order = "asc"
                     /\ EffectiveOrder = RequestedOrder => i = 1
<1>1. /\ Asc("id").field = "id" /\ Asc("s").field = "s"
      /\ Desc("d").desc /\ Desc("s").desc
  BY DEF Asc, Desc
<1>2. \A x, y, z :
         /\ Len(<<x>>) = 1 /\ Len(<<x, y>>) = 2 /\ Len(<<x, y, z>>) = 3
         /\ \A i \in 1..1 : <<x>>[i] = x
         /\ \A i \in 1..2 : (i = 1 /\ <<x, y>>[i] = x) \/ (i = 2 /\ <<x, y>>[i] = y)
         /\ \A i \in 1..3 : (i = 1 /\ <<x, y, z>>[i] = x) \/ (i = 2 /\ <<x, y, z>>[i] = y)
                            \/ (i = 3 /\ <<x, y, z>>[i] = z)
  OBVIOUS
<1>3. EffectiveOrder \in {<<Asc("id")>>, <<Desc("d"), Asc("id")>>, <<Desc("s"), Asc("id")>>,
                         <<Desc("d"), Desc("s"), Asc("id")>>}
      => \A i \in Fields : ~EffectiveOrder[i].desc => EffectiveOrder[i].field = "id"
  BY <1>1, <1>2 DEF Fields
<1>4. CASE cfg.order = "asc" /\ ~cfg.delta
  <2>1. EffectiveOrder = <<Asc("s"), Asc("id")>>
    BY <1>4, OrderIs
  <2>. QED BY <1>1, <1>2, <1>4, <2>1 DEF Fields
<1>5. CASE cfg.order = "asc" /\ cfg.delta
  <2>1. EffectiveOrder = <<Desc("d"), Asc("s"), Asc("id")>>
    BY <1>5, OrderIs
  <2>2. RequestedOrder = <<Asc("s"), Asc("id")>>
    BY <1>5 DEF RequestedOrder
  <2>3. EffectiveOrder # RequestedOrder
    BY <1>2, <2>1, <2>2
  <2>. QED BY <1>1, <1>2, <1>5, <2>1, <2>3 DEF Fields
<1>. QED BY <1>3, <1>4, <1>5, OrderIs

\* Skip tokens are followed as places are: a row the token leads to comes behind it,
\* and a row behind it is led to, unless its value is null and the order ascends.
LEMMA TokensLeadBehind ==
    ASSUME TypeOK, NEW q \in Row, NEW e \in Content, NEW r \in Row, NEW c \in Content
    PROVE  /\ EffectiveOrder = RequestedOrder /\ AfterSkipToken(SkipToken(q, e), r, c)
                  => Before(Place(q, e), Place(r, c))
           /\ Before(Place(q, e), Place(r, c))
                  => \/ AfterSkipToken(SkipToken(q, e), r, c)
                     \/ cfg.order = "asc" /\ c.s = Null
<1>. DEFINE t == SkipToken(q, e)
<1>. DEFINE f(i) == EffectiveOrder[i].field
<1>. DEFINE v == Place(r, c)
<1>. DEFINE w == Place(q, e)
<1>1. /\ Len(EffectiveOrder) \in 1..3
      /\ \A i \in Fields : f(i) \in {"id", "s", "d"} /\ EffectiveOrder[i].desc \in BOOLEAN
  BY TheOrder
<1>2. \A i \in Fields : ~EffectiveOrder[i].desc => f(i) = "id" \/ (f(i) = "s" /\ cfg.order = "asc")
  BY WhatAscends
<1>3. EffectiveOrder = RequestedOrder => \A i \in Fields : ~EffectiveOrder[i].desc /\ i > 1 => f(i) = "id"
  BY WhatAscends
<1>4. t.order = EffectiveOrder /\ t.values = w
  BY RowsHavePlaces
<1>5. v \in Places /\ w \in Places
  BY RowsHavePlaces
<1>6. \A i \in Fields : v[i] \in Int /\ w[i] \in Int
  BY <1>5 DEF Places
<1>7. \A i \in Fields : v[i] = Field(r, c, f(i))
  BY DEF Place
<1>8. \A i \in Fields : f(i) = "id" => v[i] # Null /\ w[i] # Null
  BY RowAssumption DEF Place, Field, Null
<1>9. \A i \in Fields : f(i) = "s" => v[i] = c.s
  BY <1>7 DEF Field
<1>10. \A i \in Fields : \A j \in 1..i - 1 : j \in Fields
  BY <1>1 DEF Fields
<1>11. AfterSkipToken(t, r, c) <=>
          \E i \in Fields :
              /\ \A j \in 1..i - 1 : v[j] = w[j]
              /\ IF w[i] = Null
                 THEN IF EffectiveOrder[i].desc THEN v[i] # Null ELSE i > 1
                 ELSE /\ v[i] # Null
                      /\ IF EffectiveOrder[i].desc THEN v[i] < w[i] ELSE v[i] > w[i]
  BY <1>4, <1>7, <1>10 DEF AfterSkipToken, Fields
<1>12. Before(w, v) <=>
          \E i \in Fields :
              /\ \A j \in 1..i - 1 : v[j] = w[j]
              /\ IF EffectiveOrder[i].desc THEN Smaller(v[i], w[i]) ELSE Smaller(w[i], v[i])
  BY DEF Before
<1>. HIDE DEF t, v, w, f
<1>13. ASSUME EffectiveOrder = RequestedOrder, AfterSkipToken(t, r, c)
       PROVE  Before(w, v)
  <2>1. PICK i \in Fields :
              /\ \A j \in 1..i - 1 : v[j] = w[j]
              /\ IF w[i] = Null
                 THEN IF EffectiveOrder[i].desc THEN v[i] # Null ELSE i > 1
                 ELSE /\ v[i] # Null
                      /\ IF EffectiveOrder[i].desc THEN v[i] < w[i] ELSE v[i] > w[i]
    BY <1>11, <1>13
  <2>2. w[i] = Null => EffectiveOrder[i].desc
    BY <1>1, <1>3, <1>8, <1>13, <2>1
  <2>3. IF EffectiveOrder[i].desc THEN Smaller(v[i], w[i]) ELSE Smaller(w[i], v[i])
    BY <1>6, <2>1, <2>2 DEF Smaller
  <2>. QED BY <1>12, <2>1, <2>3
<1>14. ASSUME Before(w, v), ~(cfg.order = "asc" /\ c.s = Null)
       PROVE  AfterSkipToken(t, r, c)
  <2>1. PICK i \in Fields :
              /\ \A j \in 1..i - 1 : v[j] = w[j]
              /\ IF EffectiveOrder[i].desc THEN Smaller(v[i], w[i]) ELSE Smaller(w[i], v[i])
    BY <1>12, <1>14
  <2>2. ~EffectiveOrder[i].desc => v[i] # Null /\ w[i] # Null
    BY <1>2, <1>8, <1>9, <1>14, <2>1 DEF Smaller
  <2>3. IF w[i] = Null
        THEN IF EffectiveOrder[i].desc THEN v[i] # Null ELSE i > 1
        ELSE /\ v[i] # Null
             /\ IF EffectiveOrder[i].desc THEN v[i] < w[i] ELSE v[i] > w[i]
    BY <1>6, <2>1, <2>2 DEF Smaller
  <2>. QED BY <1>11, <2>1, <2>3
<1>. QED BY <1>13, <1>14 DEF t, v, w

\* The same of the client's link, when it is accepted.
LEMMA LinksLeadBehind ==
    ASSUME TypeOK, link.skip # NoToken, IsToken(link.skip)
    PROVE  /\ link.skip.values \in Places
           /\ link.skip.order = EffectiveOrder
           /\ \A r \in Row, c \in Content :
                 /\ Accepted /\ AfterSkipToken(link.skip, r, c) => Before(link.skip.values, Place(r, c))
                 /\ Before(link.skip.values, Place(r, c))
                        => AfterSkipToken(link.skip, r, c) \/ (cfg.order = "asc" /\ c.s = Null)
<1>1. PICK q \in Row, e \in Content : link.skip = SkipToken(q, e)
  BY DEF IsToken
<1>2. link.skip.order = EffectiveOrder /\ link.skip.values = Place(q, e) /\ Place(q, e) \in Places
  BY <1>1, RowsHavePlaces
<1>3. Accepted => EffectiveOrder = RequestedOrder
  BY <1>2 DEF Accepted
<1>4. ASSUME NEW r \in Row, NEW c \in Content
      PROVE  /\ EffectiveOrder = RequestedOrder /\ AfterSkipToken(link.skip, r, c)
                    => Before(link.skip.values, Place(r, c))
             /\ Before(link.skip.values, Place(r, c))
                    => AfterSkipToken(link.skip, r, c) \/ (cfg.order = "asc" /\ c.s = Null)
  <2>1. /\ EffectiveOrder = RequestedOrder /\ AfterSkipToken(SkipToken(q, e), r, c)
               => Before(Place(q, e), Place(r, c))
        /\ Before(Place(q, e), Place(r, c))
               => AfterSkipToken(SkipToken(q, e), r, c) \/ (cfg.order = "asc" /\ c.s = Null)
    BY <1>1, TokensLeadBehind
  <2>. QED BY <1>1, <1>2, <2>1
<1>. QED BY <1>2, <1>3, <1>4

LEMMA BaseAtFirst ==
    ASSUME Init
    PROVE  BaseInv
<1>1. cfg \in Configs /\ cfg \in Config
  BY ConfigsAssumption DEF Init
<1>2. cfg.values \subseteq SortValue \cup {Null} /\ cfg.start \subseteq Row
  BY <1>1 DEF Config
<1>3. MaxClock \in Nat \ {0} /\ 0 \in 0..MaxClock
  BY BoundsAssumption
<1>4. PICK first \in [cfg.start -> cfg.values] :
         table = [r \in Row |-> IF r \in cfg.start THEN [s |-> first[r], d |-> 0] ELSE Unknown]
  BY DEF Init
<1>5. \A r \in Row : table[r] \in Content /\ table[r].s \in cfg.values \cup {Absent}
  <2>. SUFFICES ASSUME NEW r \in Row
                PROVE  table[r] \in Content /\ table[r].s \in cfg.values \cup {Absent}
    OBVIOUS
  <2>1. CASE r \in cfg.start
    <3>1. table[r] = [s |-> first[r], d |-> 0] /\ first[r] \in cfg.values
      BY <1>4, <2>1
    <3>. QED BY <1>2, <1>3, <3>1 DEF Content
  <2>2. CASE r \notin cfg.start
    <3>1. table[r] = Unknown
      BY <1>4, <2>2
    <3>. QED BY <3>1, NoTokens DEF Unknown
  <2>. QED BY <2>1, <2>2
<1>6. table \in [Row -> Content]
  BY <1>4, <1>5
<1>7. request = Idle /\ request.stage = "idle"
  BY DEF Init, Idle
<1>8. link = NoLink /\ link.skip = NoToken /\ link.delta = NoDelta /\ link.first = NoDelta
  BY NoTokens DEF Init
<1>9. TypeOK
  <2>1. writes \subseteq [row : Row, content : Content] /\ clock \in 0..MaxClock
    BY <1>3 DEF Init
  <2>2. view \in [Row -> Content] /\ reported \in [Row -> 0..2]
    BY NoTokens DEF Init
  <2>3. horizon \in [d : 0..MaxClock + 1, id : Row \cup {NoKey}]
    BY <1>3 DEF Init, NoKey
  <2>4. stable \cup late \cup shown \cup ghosts \subseteq Row
    BY DEF Init
  <2>5. \A t \in {link.delta, link.first} :
            t.last \in -1..MaxClock /\ t.key \in Row \cup {NoKey} /\ t.keys \subseteq Row
    BY <1>3, <1>8, NoTokens
  <2>. QED BY <1>1, <1>6, <1>7, <1>8, <2>1, <2>2, <2>3, <2>4, <2>5 DEF TypeOK
<1>10. RequestInv
  BY <1>7 DEF RequestInv, Looking
<1>11. LinkInv
  BY <1>8 DEF LinkInv, Init
<1>12. ValuesInv
  BY <1>5 DEF ValuesInv, Init
<1>. QED BY <1>9, <1>10, <1>11, <1>12 DEF BaseInv

LEMMA BaseOnRefuse ==
    ASSUME BaseInv, Refuse
    PROVE  BaseInv'
<1>1. TypeOK /\ RequestInv /\ LinkInv /\ ValuesInv
  BY DEF BaseInv
<1>2. /\ request' = Idle /\ request'.stage = "idle" /\ link' = NoLink
      /\ view' = [r \in Row |-> Unknown] /\ stable' = {} /\ shown' = {}
      /\ UNCHANGED <<cfg, table, writes, clock, reported, horizon, late, ghosts>>
  BY DEF Refuse, Idle
<1>3. link'.skip = NoToken /\ link'.delta = NoDelta /\ link'.first = NoDelta
  BY <1>2, NoTokens
<1>4. TypeOK'
  <2>1. view' \in [Row -> Content]
    BY <1>2, NoTokens
  <2>2. \A t \in {link'.delta, link'.first} :
            t.last \in -1..MaxClock /\ t.key \in Row \cup {NoKey} /\ t.keys \subseteq Row
    BY <1>3, NoTokens, BoundsAssumption
  <2>3. stable' \cup late' \cup shown' \cup ghosts' \subseteq Row
    BY <1>1, <1>2 DEF TypeOK
  <2>. QED BY <1>1, <1>2, <1>3, <2>1, <2>2, <2>3 DEF TypeOK
<1>5. RequestInv'
  BY <1>2 DEF RequestInv, Looking, Idle
<1>6. LinkInv'
  BY <1>1, <1>2, <1>3 DEF LinkInv
<1>7. ValuesInv'
  BY <1>1, <1>2 DEF ValuesInv
<1>. QED BY <1>4, <1>5, <1>6, <1>7 DEF BaseInv

\* What a request has read, just after it has.
LEMMA JustRead ==
    ASSUME BaseInv, ReadRows
    PROVE  /\ TypeOK /\ ValuesInv /\ Accepted
           /\ Looking' /\ Read' = ToSet(Kept) /\ Read' \subseteq Row /\ request'.rows = Kept
           /\ \A r \in Read' : /\ request'.contents[r] = table[r]
                               /\ r \in Selected /\ Passes(table[r])
           /\ request'.contents \in [Read' -> Content]
           /\ request'.todo = IF cfg.delta THEN link.delta.keys ELSE {}
           /\ request'.missing = {}
           /\ DOMAIN request' = {"stage", "rows", "contents", "missing", "todo"}
           /\ InOrder(Kept, table) /\ Kept \in Seq(Row)
<1>1. TypeOK /\ ValuesInv /\ Accepted
  BY WhatReadRowsDoes DEF BaseInv
<1>2. Filtered => Len(Found) <= MaxScan
  BY WhatReadRowsDoes
<1>3. /\ Kept \in Seq(Row) /\ Knows(table, Kept) /\ InOrder(Kept, table)
      /\ \A r \in ToSet(Kept) : r \in Selected /\ Passes(table[r])
  BY <1>1, <1>2, WhatIsKept
<1>4. /\ request'.stage = "look" /\ request'.rows = Kept
      /\ request'.contents = [r \in ToSet(Kept) |-> table[r]] /\ request'.missing = {}
      /\ request'.todo = IF cfg.delta THEN link.delta.keys ELSE {}
      /\ DOMAIN request' = {"stage", "rows", "contents", "missing", "todo"}
  BY WhatReadRowsDoes
<1>5. ToSet(Kept) \subseteq Row
  BY <1>3, ToSetIsRange
<1>6. request'.contents \in [ToSet(Kept) -> Content]
  BY <1>1, <1>4, <1>5 DEF TypeOK
<1>7. Looking' /\ Read' = ToSet(Kept)
  BY <1>4 DEF Looking, Read
<1>. QED BY <1>1, <1>3, <1>4, <1>5, <1>6, <1>7

LEMMA BaseOnReadRows ==
    ASSUME BaseInv, ReadRows
    PROVE  BaseInv'
<1>1. TypeOK /\ RequestInv /\ LinkInv /\ ValuesInv
  BY DEF BaseInv
<1>2. /\ UNCHANGED <<cfg, table, writes, clock, link, view, horizon, late, shown>>
      /\ link.skip = NoToken =>
            /\ stable' = IF cfg.delta THEN {} ELSE {r \in Present : Passes(table[r])}
            /\ reported' = [r \in Row |-> 0]
            /\ ghosts' = shown \ Present
      /\ link.skip # NoToken => UNCHANGED <<stable, reported, ghosts>>
  BY WhatReadRowsDoes
<1>3. /\ Looking' /\ Read' = ToSet(Kept) /\ Read' \subseteq Row /\ request'.rows = Kept
      /\ \A r \in Read' : /\ request'.contents[r] = table[r]
                          /\ r \in Selected /\ Passes(table[r])
      /\ request'.contents \in [Read' -> Content]
      /\ request'.todo = IF cfg.delta THEN link.delta.keys ELSE {}
      /\ request'.missing = {}
      /\ DOMAIN request' = {"stage", "rows", "contents", "missing", "todo"}
      /\ InOrder(Kept, table) /\ Kept \in Seq(Row) /\ Accepted
  BY JustRead
<1>4. TypeOK'
  <2>1. request'.todo \subseteq Row
    BY <1>1, <1>3 DEF TypeOK
  <2>2. stable' \cup late' \cup shown' \cup ghosts' \subseteq Row
    BY <1>1, <1>2 DEF TypeOK, Present
  <2>3. reported' \in [Row -> 0..2]
    BY <1>1, <1>2 DEF TypeOK
  <2>4. request'.stage = "look" /\ request'.contents \in [ToSet(request'.rows) -> Content]
    BY <1>3 DEF Looking
  <2>. QED BY <1>1, <1>2, <1>3, <2>1, <2>2, <2>3, <2>4 DEF TypeOK
<1>5. RequestInv'
  <2>1. Accepted'
    BY <1>2, <1>3 DEF Accepted, RequestedOrder
  <2>2. InOrder(Kept, request'.contents)
    BY <1>3, ToSetIsRange DEF InOrder
  <2>3. (InOrder(request.rows, request.contents))'
    BY <1>2, <1>3, <2>2, PlacesStay DEF InOrder, EffectiveOrder, RequestedOrder
  <2>4. ASSUME NEW r \in Read'
        PROVE  /\ Is(request'.contents[r]) /\ (Passes(request.contents[r]))'
               /\ link'.skip = NoToken \/ (Before(link.skip.values, There(r)))'
               /\ link'.delta = NoDelta \/ AfterDeltaToken(link'.delta, r, request'.contents[r])
    <3>1. r \in Row /\ request'.contents[r] = table[r] /\ r \in Selected /\ Passes(table[r])
      BY <1>3
    <3>2. r \in Present /\ (link.skip = NoToken \/ AfterSkipToken(link.skip, r, table[r]))
          /\ (link.delta = NoDelta \/ AfterDeltaToken(link.delta, r, table[r]))
      BY <3>1 DEF Selected
    <3>3. Is(table[r]) /\ table[r] \in Content
      BY <1>1, <3>1, <3>2 DEF Present, TypeOK
    <3>4. link.skip = NoToken \/ Before(link.skip.values, Place(r, table[r]))
      BY <1>1, <1>3, <3>1, <3>2, <3>3, LinksLeadBehind DEF LinkInv
    <3>5. (There(r))' = Place(r, table[r])
      BY <1>2, <3>1, HereAndThere
    <3>6. (Before(link.skip.values, There(r)))' <=> Before(link.skip.values, Place(r, table[r]))
      BY <1>2, <3>5, PlacesStay DEF Before, Fields
    <3>7. (Passes(request.contents[r]))'
      BY <1>2, <3>1 DEF Passes
    <3>. QED BY <1>2, <3>1, <3>2, <3>3, <3>4, <3>6, <3>7
  <2>. QED BY <1>3, <2>1, <2>3, <2>4 DEF RequestInv
<1>6. LinkInv'
  <2>1. \A token : (IsToken(token))' <=> IsToken(token)
    BY <1>2, PlacesStay
  <2>. QED BY <1>1, <1>2, <2>1 DEF LinkInv
<1>7. ValuesInv'
  BY <1>1, <1>2 DEF ValuesInv
<1>. QED BY <1>4, <1>5, <1>6, <1>7 DEF BaseInv

LEMMA WhatLookUpDoes ==
    ASSUME BaseInv, LookUp
    PROVE  /\ Looking /\ Looking'
           /\ request'.rows = request.rows /\ request'.contents = request.contents
           /\ DOMAIN request' = DOMAIN request
           /\ \E r \in request.todo \cap Row :
                 /\ request'.todo = request.todo \ {r}
                 /\ request'.missing = request.missing \cup ({r} \ Present)
           /\ UNCHANGED <<cfg, table, writes, clock, link, view,
                          stable, reported, horizon, late, shown, ghosts>>
<1>. DEFINE r == CHOOSE q \in request.todo : \A p \in request.todo : q <= p
<1>1. /\ request.stage = "look" /\ request.todo # {}
      /\ request' = [request EXCEPT !.todo = @ \ {r}, !.missing = @ \cup ({r} \ Present)]
      /\ UNCHANGED <<cfg, table, writes, clock, link, view,
                     stable, reported, horizon, late, shown, ghosts>>
  BY DEF LookUp
<1>2. TypeOK /\ DOMAIN request = {"stage", "rows", "contents", "missing", "todo"}
  BY <1>1 DEF BaseInv, RequestInv, Looking
<1>3. request.todo \subseteq Row /\ request.todo \subseteq Nat
  BY <1>1, <1>2, RowAssumption DEF TypeOK
<1>4. \E q \in request.todo : \A p \in request.todo : q <= p
  <2>1. PICK q \in request.todo : \A p \in request.todo : ~(<<p, q>> \in OpToRel(<, Nat))
    BY <1>1, <1>3, NatLessThanWellFounded, WFMin
  <2>2. \A p \in request.todo : ~(p < q)
    BY <1>3, <2>1 DEF OpToRel
  <2>3. ASSUME NEW p \in request.todo
        PROVE  q <= p
    <3>1. p \in Nat /\ q \in Nat
      BY <1>3, <2>1
    <3>2. ~(p < q)
      BY <2>2
    <3>. QED BY <3>1, <3>2
  <2>. QED BY <2>1, <2>3
<1>5. r \in request.todo /\ r \in Row
  BY <1>3, <1>4
<1>. HIDE DEF r
<1>6. /\ request'.stage = "look" /\ request'.rows = request.rows /\ request'.contents = request.contents
      /\ request'.todo = request.todo \ {r}
      /\ request'.missing = request.missing \cup ({r} \ Present)
      /\ DOMAIN request' = DOMAIN request
  BY <1>1, <1>2
<1>. QED BY <1>1, <1>5, <1>6 DEF Looking

\* A request that has read its rows keeps to them while others write.
LEMMA StillReading ==
    ASSUME BaseInv, cfg' = cfg, link' = link,
           \/ request' = request
           \/ /\ Looking /\ Looking' /\ DOMAIN request' = DOMAIN request
              /\ request'.rows = request.rows /\ request'.contents = request.contents
    PROVE  RequestInv'
<1>1. RequestInv
  BY DEF BaseInv
<1>2. CASE request = Idle /\ request' = request
  BY <1>2 DEF RequestInv, Looking, Idle
<1>3. CASE Looking
  <2>1. /\ Looking' /\ DOMAIN request' = DOMAIN request
        /\ request'.rows = request.rows /\ request'.contents = request.contents
    BY <1>3 DEF Looking
  <2>2. Read' = Read /\ \A r : (There(r))' = There(r)
    BY <2>1, HereAndThere DEF Read, There
  <2>3. Accepted' <=> Accepted
    BY DEF Accepted, RequestedOrder
  <2>4. (InOrder(request.rows, request.contents))' <=> InOrder(request.rows, request.contents)
    BY <2>1, PlacesStay DEF InOrder, EffectiveOrder, RequestedOrder
  <2>5. \A r : (Before(link.skip.values, There(r)))' <=> Before(link.skip.values, There(r))
    BY <2>2, PlacesStay DEF Before, Fields
  <2>6. \A r : (Passes(request.contents[r]))' <=> Passes(request.contents[r])
    BY <2>1 DEF Passes
  <2>. QED BY <1>1, <1>3, <2>1, <2>2, <2>3, <2>4, <2>5, <2>6 DEF RequestInv
<1>. QED BY <1>1, <1>2, <1>3 DEF RequestInv, Looking

LEMMA BaseOnLookUp ==
    ASSUME BaseInv, LookUp
    PROVE  BaseInv'
<1>1. TypeOK /\ RequestInv /\ LinkInv /\ ValuesInv
  BY DEF BaseInv
<1>2. /\ Looking /\ Looking'
      /\ request'.rows = request.rows /\ request'.contents = request.contents
      /\ DOMAIN request' = DOMAIN request
      /\ UNCHANGED <<cfg, table, writes, clock, link, view,
                     stable, reported, horizon, late, shown, ghosts>>
  BY WhatLookUpDoes
<1>3. PICK r \in request.todo \cap Row :
         /\ request'.todo = request.todo \ {r}
         /\ request'.missing = request.missing \cup ({r} \ Present)
  BY WhatLookUpDoes
<1>4. TypeOK'
  <2>1. request'.missing \cup request'.todo \subseteq Row
    BY <1>1, <1>2, <1>3 DEF TypeOK, Looking
  <2>. QED BY <1>1, <1>2, <2>1 DEF TypeOK, Looking
<1>5. RequestInv'
  BY <1>2, StillReading
<1>6. LinkInv'
  <2>1. \A token : (IsToken(token))' <=> IsToken(token)
    BY <1>2, PlacesStay
  <2>. QED BY <1>1, <1>2, <2>1 DEF LinkInv
<1>7. ValuesInv'
  BY <1>1, <1>2 DEF ValuesInv
<1>. QED BY <1>4, <1>5, <1>6, <1>7 DEF BaseInv

LEMMA BaseOnAnswer ==
    ASSUME BaseInv, Answer
    PROVE  BaseInv'
<1>1. TypeOK /\ RequestInv /\ LinkInv /\ ValuesInv
  BY DEF BaseInv
<1>2. /\ Looking /\ request.todo = {} /\ request' = Idle
      /\ link' = IF More
                 THEN [skip |-> SkipToken(Last(Page), request.contents[Last(Page)]),
                       delta |-> link.delta, first |-> Keeping]
                 ELSE [skip |-> NoToken, delta |-> Keeping, first |-> NoDelta]
      /\ view' = [r \in Row |->
                     CASE r \in request.missing -> Unknown
                       [] cfg.delta /\ r \in ToSet(Page) \ request.missing -> request.contents[r]
                       [] OTHER -> view[r]]
      /\ reported' = [r \in Row |-> IF r \in ToSet(Page) \cap stable /\ reported[r] < 2
                                    THEN reported[r] + 1 ELSE reported[r]]
      /\ Fresh => horizon' = [d |-> clock + 1, id |-> NoKey] /\ late' = late \cup Present
      /\ ~Fresh => UNCHANGED <<horizon, late>>
      /\ shown' = IF cfg.delta /\ link.skip = NoToken /\ Page # <<>> THEN ToSet(Page) ELSE shown
      /\ UNCHANGED <<cfg, table, writes, clock, stable, ghosts>>
  BY WhatAnswerDoes
<1>3. /\ ToSet(Page) \subseteq Row /\ Read \subseteq Row /\ Page \in Seq(Row) /\ ToSet(Page) \subseteq Read
      /\ Page # <<>> => Last(Page) \in ToSet(Page)
      /\ More => Page # <<>>
      /\ Cursor.last \in -1..MaxClock /\ Cursor.key \in Row \cup {NoKey} /\ Cursor.keys \subseteq Row
      /\ cfg.delta => Cursor # NoDelta /\ Cursor.last >= 0
      /\ ~cfg.delta => Cursor = NoDelta
  BY <1>2, CursorsAreTyped
<1>4. \A r \in Read : request.contents[r] \in Content
  BY <1>1, <1>2 DEF TypeOK, Looking, Read
<1>5. \A t \in {link.delta, link.first, Keeping, NoDelta} :
          t.last \in -1..MaxClock /\ t.key \in Row \cup {NoKey} /\ t.keys \subseteq Row
  BY <1>1, <1>3, NoTokens, BoundsAssumption DEF TypeOK, Keeping
<1>6. More => link'.skip = SkipToken(Last(Page), request.contents[Last(Page)])
              /\ link'.delta = link.delta /\ link'.first = Keeping
  BY <1>2
<1>7. ~More => link'.skip = NoToken /\ link'.delta = Keeping /\ link'.first = NoDelta
  BY <1>2
<1>8. TypeOK'
  <2>1. view' \in [Row -> Content]
    <3>1. \A r \in Row : view[r] \in Content
      BY <1>1 DEF TypeOK
    <3>. QED BY <1>2, <1>3, <1>4, <3>1, NoTokens
  <2>2. reported' \in [Row -> 0..2]
    <3>1. \A r \in Row : reported[r] \in 0..2
      BY <1>1 DEF TypeOK
    <3>. QED BY <1>2, <3>1
  <2>3. horizon' \in [d : 0..MaxClock + 1, id : Row \cup {NoKey}]
    <3>1. horizon \in [d : 0..MaxClock + 1, id : Row \cup {NoKey}] /\ clock \in 0..MaxClock
      BY <1>1 DEF TypeOK
    <3>2. clock + 1 \in 0..MaxClock + 1
      BY <3>1, BoundsAssumption
    <3>. QED BY <1>2, <3>1, <3>2
  <2>4. stable' \cup late' \cup shown' \cup ghosts' \subseteq Row
    BY <1>1, <1>2, <1>3 DEF TypeOK, Present
  <2>5. link'.skip # NoToken => Len(link'.skip.values) = Len(link'.skip.order)
    BY <1>1, <1>6, <1>7, NoTokens
  <2>6. \A t \in {link'.delta, link'.first} :
            t.last \in -1..MaxClock /\ t.key \in Row \cup {NoKey} /\ t.keys \subseteq Row
    BY <1>5, <1>6, <1>7
  <2>7. request'.stage = "idle"
    BY <1>2 DEF Idle
  <2>. QED BY <1>1, <1>2, <2>1, <2>2, <2>3, <2>4, <2>5, <2>6, <2>7 DEF TypeOK
<1>9. RequestInv'
  BY <1>2 DEF RequestInv, Looking, Idle
<1>10. LinkInv'
  <2>1. \A token : (IsToken(token))' <=> IsToken(token)
    BY <1>2, PlacesStay
  <2>2. link'.skip = NoToken \/ IsToken(link'.skip)
    BY <1>3, <1>4, <1>6, <1>7 DEF IsToken
  <2>3. Keeping = NoDelta \/ Keeping.last >= 0
    BY <1>1, <1>3 DEF LinkInv, Keeping
  <2>4. cfg.delta => Keeping # NoDelta
    BY <1>1, <1>3 DEF LinkInv, Keeping
  <2>5. ~cfg.delta => Keeping = NoDelta
    BY <1>1, <1>3 DEF LinkInv, Keeping
  <2>6. \A t \in {link'.delta, link'.first} : t = NoDelta \/ t.last >= 0
    BY <1>1, <1>6, <1>7, <2>3 DEF LinkInv
  <2>7. link'.skip = NoToken => link'.first = NoDelta
    BY <1>1, <1>6, <1>7, NoTokens
  <2>8. cfg.delta /\ link'.skip # NoToken => link'.first # NoDelta
    BY <1>6, <1>7, <2>4
  <2>9. ~cfg.delta => link'.delta = NoDelta /\ link'.first = NoDelta /\ shown' = {}
    BY <1>1, <1>2, <1>6, <1>7, <2>5 DEF LinkInv
  <2>. QED BY <1>1, <1>2, <2>1, <2>2, <2>6, <2>7, <2>8, <2>9 DEF LinkInv
<1>11. ValuesInv'
  BY <1>1, <1>2 DEF ValuesInv
<1>. QED BY <1>8, <1>9, <1>10, <1>11 DEF BaseInv

LEMMA BaseOnStartWrite ==
    ASSUME BaseInv, NEW r \in cfg.rows, NEW s \in cfg.values, StartWrite(r, s)
    PROVE  BaseInv'
<1>1. TypeOK /\ RequestInv /\ LinkInv /\ ValuesInv
  BY DEF BaseInv
<1>2. PICK d \in {clock, clock + 1} \cap (table[r].d + 1)..MaxClock :
         clock' = d /\ writes' = writes \cup {[row |-> r, content |-> [s |-> s, d |-> d]]}
  BY DEF StartWrite
<1>3. /\ cfg.delta
      /\ UNCHANGED <<cfg, table, request, link, view, stable, reported, horizon, late, shown, ghosts>>
  BY DEF StartWrite
<1>4. r \in Row /\ s \in SortValue \cup {Null}
  BY <1>1, TypesOfTheConfig
<1>5. d \in 0..MaxClock
  <2>1. clock \in 0..MaxClock /\ table[r] \in Content
    BY <1>1, <1>4 DEF TypeOK
  <2>2. table[r].d \in 0..MaxClock
    BY <2>1 DEF Content
  <2>3. d >= table[r].d + 1 /\ d <= MaxClock /\ d \in Int
    BY <1>2, <2>1
  <2>. QED BY <2>2, <2>3, BoundsAssumption
<1>6. [row |-> r, content |-> [s |-> s, d |-> d]] \in [row : Row, content : Content]
  BY <1>4, <1>5 DEF Content
<1>7. TypeOK'
  <2>1. writes' \subseteq [row : Row, content : Content]
    BY <1>1, <1>2, <1>6 DEF TypeOK
  <2>2. clock' \in 0..MaxClock
    BY <1>2, <1>5
  <2>. QED BY <1>1, <1>3, <2>1, <2>2 DEF TypeOK
<1>8. RequestInv'
  BY <1>3, StillReading
<1>9. LinkInv'
  <2>1. \A token : (IsToken(token))' <=> IsToken(token)
    BY <1>3, PlacesStay
  <2>. QED BY <1>1, <1>3, <2>1 DEF LinkInv
<1>10. ValuesInv'
  BY <1>1, <1>2, <1>3 DEF ValuesInv
<1>. QED BY <1>7, <1>8, <1>9, <1>10 DEF BaseInv

LEMMA BaseOnCommit ==
    ASSUME BaseInv, NEW w \in writes, Commit(w)
    PROVE  BaseInv' /\ w.row \in Row /\ w.content \in Content /\ w.content.s \in cfg.values
<1>1. TypeOK /\ RequestInv /\ LinkInv /\ ValuesInv
  BY DEF BaseInv
<1>2. w.row \in Row /\ w.content \in Content /\ w.content.s \in cfg.values
  BY <1>1 DEF TypeOK, ValuesInv
<1>3. /\ table' = [table EXCEPT ![w.row] = w.content]
      /\ writes' = writes \ {w}
      /\ stable' = stable \ {w.row}
      /\ ghosts' = ghosts \ {w.row}
      /\ UNCHANGED <<cfg, clock, request, link, view, reported, shown>>
  BY DEF Commit
<1>4. late' \subseteq Row /\ horizon' \in [d : 0..MaxClock + 1, id : Row \cup {NoKey}]
  <2>1. late \subseteq Row /\ horizon \in [d : 0..MaxClock + 1, id : Row \cup {NoKey}]
    BY <1>1 DEF TypeOK
  <2>2. w.content.d \in 0..MaxClock
    BY <1>2 DEF Content
  <2>3. w.content.d \in 0..MaxClock + 1
    BY <2>2, BoundsAssumption
  <2>. QED BY <1>2, <2>1, <2>3 DEF Commit
<1>5. \A r \in Row : table'[r] \in Content /\ table'[r].s \in cfg.values \cup {Absent}
  BY <1>1, <1>2, <1>3 DEF TypeOK, ValuesInv
<1>6. TypeOK'
  <2>1. table' \in [Row -> Content]
    BY <1>1, <1>3, <1>5 DEF TypeOK
  <2>. QED BY <1>1, <1>3, <1>4, <2>1 DEF TypeOK
<1>7. RequestInv'
  BY <1>3, StillReading
<1>8. LinkInv'
  <2>1. \A token : (IsToken(token))' <=> IsToken(token)
    BY <1>3, PlacesStay
  <2>. QED BY <1>1, <1>3, <2>1 DEF LinkInv
<1>9. ValuesInv'
  BY <1>1, <1>3, <1>5 DEF ValuesInv
<1>. QED BY <1>2, <1>6, <1>7, <1>8, <1>9 DEF BaseInv

LEMMA BaseOnWriteRow ==
    ASSUME BaseInv, NEW r \in cfg.rows, NEW s \in cfg.values, WriteRow(r, s)
    PROVE  BaseInv' /\ r \in Row
<1>1. TypeOK /\ RequestInv /\ LinkInv /\ ValuesInv
  BY DEF BaseInv
<1>2. /\ ~cfg.delta
      /\ table' = [table EXCEPT ![r] = [s |-> s, d |-> 0]]
      /\ stable' \subseteq stable
      /\ UNCHANGED <<cfg, writes, clock, request, link, view, reported, horizon, late, shown, ghosts>>
  BY DEF WriteRow
<1>3. r \in Row /\ s \in SortValue \cup {Null}
  BY <1>1, TypesOfTheConfig
<1>4. [s |-> s, d |-> 0] \in Content
  BY <1>3, BoundsAssumption DEF Content
<1>5. \A q \in Row : table'[q] \in Content /\ table'[q].s \in cfg.values \cup {Absent}
  BY <1>1, <1>2, <1>3, <1>4 DEF TypeOK, ValuesInv
<1>6. TypeOK'
  <2>1. table' \in [Row -> Content]
    BY <1>1, <1>2, <1>5 DEF TypeOK
  <2>2. stable' \cup late' \cup shown' \cup ghosts' \subseteq Row
    BY <1>1, <1>2 DEF TypeOK
  <2>. QED BY <1>1, <1>2, <2>1, <2>2 DEF TypeOK
<1>7. RequestInv'
  BY <1>2, StillReading
<1>8. LinkInv'
  <2>1. \A token : (IsToken(token))' <=> IsToken(token)
    BY <1>2, PlacesStay
  <2>. QED BY <1>1, <1>2, <2>1 DEF LinkInv
<1>9. ValuesInv'
  BY <1>1, <1>2, <1>5 DEF ValuesInv
<1>. QED BY <1>3, <1>6, <1>7, <1>8, <1>9 DEF BaseInv

LEMMA BaseOnDelete ==
    ASSUME BaseInv, NEW r \in Row, Delete(r)
    PROVE  BaseInv' /\ ~Is(table'[r]) /\ table'[r].d = table[r].d
<1>1. TypeOK /\ RequestInv /\ LinkInv /\ ValuesInv
  BY DEF BaseInv
<1>2. /\ table' = [table EXCEPT ![r].s = Absent]
      /\ stable' = stable \ {r}
      /\ late' = late \ {r}
      /\ UNCHANGED <<cfg, writes, clock, request, link, view, reported, horizon, shown, ghosts>>
  BY DEF Delete
<1>3. table[r] \in Content /\ table \in [Row -> Content]
  BY <1>1 DEF TypeOK
<1>4. table'[r] \in Content /\ table'[r].s = Absent /\ table'[r].d = table[r].d
  <2>1. table'[r] = [table[r] EXCEPT !.s = Absent]
    BY <1>2, <1>3
  <2>2. Absent \in SortValue \cup {Null, Absent}
    OBVIOUS
  <2>. QED BY <1>3, <2>1, <2>2 DEF Content
<1>5. \A q \in Row : table'[q] \in Content /\ table'[q].s \in cfg.values \cup {Absent}
  BY <1>1, <1>2, <1>3, <1>4 DEF ValuesInv
<1>6. TypeOK'
  <2>1. table' \in [Row -> Content]
    BY <1>2, <1>3, <1>5
  <2>2. stable' \cup late' \cup shown' \cup ghosts' \subseteq Row
    BY <1>1, <1>2 DEF TypeOK
  <2>. QED BY <1>1, <1>2, <2>1, <2>2 DEF TypeOK
<1>7. RequestInv'
  BY <1>2, StillReading
<1>8. LinkInv'
  <2>1. \A token : (IsToken(token))' <=> IsToken(token)
    BY <1>2, PlacesStay
  <2>. QED BY <1>1, <1>2, <2>1 DEF LinkInv
<1>9. ValuesInv'
  BY <1>1, <1>2, <1>5 DEF ValuesInv
<1>. QED BY <1>4, <1>6, <1>7, <1>8, <1>9 DEF BaseInv, Is

\* The actions, one by one.
LEMMA Steps ==
    ASSUME [Next]_vars
    PROVE  \/ Refuse \/ ReadRows \/ LookUp \/ Answer
           \/ \E r \in cfg.rows, s \in cfg.values : StartWrite(r, s) \/ WriteRow(r, s)
           \/ \E w \in writes : Commit(w)
           \/ \E r \in Row : Delete(r)
           \/ UNCHANGED vars
BY DEF Next, Serve, Write, ScanRefused, SkipTokenRefused, TokenExpired

LEMMA BaseStays ==
    ASSUME BaseInv, [Next]_vars
    PROVE  BaseInv'
<1>1. CASE Refuse
  BY <1>1, BaseOnRefuse
<1>2. CASE ReadRows
  BY <1>2, BaseOnReadRows
<1>3. CASE LookUp
  BY <1>3, BaseOnLookUp
<1>4. CASE Answer
  BY <1>4, BaseOnAnswer
<1>5. ASSUME NEW r \in cfg.rows, NEW s \in cfg.values, StartWrite(r, s) \/ WriteRow(r, s)
      PROVE  BaseInv'
  <2>1. CASE StartWrite(r, s)
    BY <2>1, BaseOnStartWrite
  <2>2. CASE WriteRow(r, s)
    BY <2>2, BaseOnWriteRow
  <2>. QED BY <1>5, <2>1, <2>2
<1>6. ASSUME NEW w \in writes, Commit(w)
      PROVE  BaseInv'
  BY <1>6, BaseOnCommit
<1>7. ASSUME NEW r \in Row, Delete(r)
      PROVE  BaseInv'
  BY <1>7, BaseOnDelete
<1>8. CASE UNCHANGED vars
  <2>1. /\ UNCHANGED <<cfg, table, writes, clock, request, link, view>>
        /\ UNCHANGED <<stable, reported, horizon, late, shown, ghosts>>
    BY <1>8 DEF vars
  <2>2. TypeOK /\ LinkInv /\ ValuesInv
    BY DEF BaseInv
  <2>3. TypeOK'
    BY <2>1, <2>2 DEF TypeOK
  <2>4. RequestInv'
    BY <2>1, StillReading
  <2>5. LinkInv'
    <3>1. \A token : (IsToken(token))' <=> IsToken(token)
      BY <2>1, PlacesStay
    <3>. QED BY <2>1, <2>2, <3>1 DEF LinkInv
  <2>6. ValuesInv'
    BY <2>1, <2>2 DEF ValuesInv
  <2>. QED BY <2>3, <2>4, <2>5, <2>6 DEF BaseInv
<1>. QED BY <1>1, <1>2, <1>3, <1>4, <1>5, <1>6, <1>7, <1>8, Steps

\* Types hold in every state: configurations, contents, stamps and tokens are what
\* the handlers take and give (TypeOK).
THEOREM TypeCorrect == Spec => []TypeOK
<1>1. Init => BaseInv
  BY BaseAtFirst
<1>2. BaseInv /\ [Next]_vars => BaseInv'
  BY BaseStays
<1>3. BaseInv => TypeOK
  BY DEF BaseInv
<1>. QED BY <1>1, <1>2, <1>3, PTL DEF Spec

-----------------------------------------------------------------------------
(* Deletions.                                                              *)

LEMMA GhostsOnReadRows ==
    ASSUME BaseInv, GhostInv, ReadRows
    PROVE  GhostInv'
<1>1. /\ request = Idle
      /\ UNCHANGED <<cfg, table, link, view, shown>>
      /\ link.skip = NoToken => ghosts' = shown \ Present
      /\ link.skip # NoToken => UNCHANGED ghosts
  BY WhatReadRowsDoes
<1>2. /\ Looking' /\ \A r \in Read' : r \in Selected
      /\ request'.todo = IF cfg.delta THEN link.delta.keys ELSE {}
  BY JustRead
<1>3. Present' = Present
  BY <1>1 DEF Present
<1>4. \A r \in Read' : r \in Present
  BY <1>2 DEF Selected
<1>5. ghosts' \cap Present = {}
  BY <1>1 DEF GhostInv
<1>6. shown' \subseteq IF link'.skip = NoToken THEN link'.delta.keys ELSE link'.first.keys
  BY <1>1 DEF GhostInv
<1>7. ASSUME NEW r \in ghosts'
      PROVE  r \in request'.todo \/ ~Is(view'[r])
  <2>1. CASE link.skip = NoToken
    <3>1. r \in shown /\ shown \subseteq link.delta.keys
      BY <1>1, <1>7, <2>1 DEF GhostInv
    <3>2. cfg.delta
      BY <3>1 DEF BaseInv, LinkInv
    <3>. QED BY <1>2, <3>1, <3>2
  <2>2. CASE link.skip # NoToken
    BY <1>1, <1>7, <2>2 DEF GhostInv
  <2>. QED BY <2>1, <2>2
<1>8. ~(request' = Idle)
  BY <1>2 DEF Looking, Idle
<1>. QED BY <1>2, <1>3, <1>4, <1>5, <1>6, <1>7, <1>8 DEF GhostInv

LEMMA GhostsOnAnswer ==
    ASSUME BaseInv, GhostInv, Answer
    PROVE  GhostInv'
<1>1. /\ Looking /\ request.todo = {} /\ request' = Idle
      /\ link' = IF More
                 THEN [skip |-> SkipToken(Last(Page), request.contents[Last(Page)]),
                       delta |-> link.delta, first |-> Keeping]
                 ELSE [skip |-> NoToken, delta |-> Keeping, first |-> NoDelta]
      /\ view' = [r \in Row |->
                     CASE r \in request.missing -> Unknown
                       [] cfg.delta /\ r \in ToSet(Page) \ request.missing -> request.contents[r]
                       [] OTHER -> view[r]]
      /\ shown' = IF cfg.delta /\ link.skip = NoToken /\ Page # <<>> THEN ToSet(Page) ELSE shown
      /\ UNCHANGED <<cfg, table, writes, clock, stable, ghosts>>
  BY WhatAnswerDoes
<1>2. TypeOK
  BY DEF BaseInv
<1>3. /\ ToSet(Page) \subseteq Read
      /\ More => Page # <<>>
      /\ cfg.delta /\ Page # <<>> =>
             Cursor = [last |-> request.contents[Last(Page)].d, key |-> Last(Page), keys |-> ToSet(Page)]
      /\ cfg.delta /\ Page = <<>> /\ ~Fresh /\ link.skip = NoToken => Cursor = link.delta
  BY <1>1, CursorsAreTyped
<1>4. ghosts' \cap Present' = {}
  BY <1>1 DEF GhostInv, Present
<1>5. \A r \in ghosts' : ~Is(view'[r])
  <2>. SUFFICES ASSUME NEW r \in ghosts
                PROVE  ~Is(view'[r])
    BY <1>1
  <2>1. r \in Row /\ r \notin ToSet(Page) /\ (r \in request.missing \/ ~Is(view[r]))
    BY <1>1, <1>2, <1>3 DEF GhostInv, TypeOK
  <2>. QED BY <1>1, <2>1, NoTokens
<1>6. shown' \subseteq Keeping.keys
  <2>1. CASE link.skip # NoToken
    BY <1>1, <2>1 DEF GhostInv, Keeping
  <2>2. CASE link.skip = NoToken /\ cfg.delta /\ Page # <<>>
    <3>1. Cursor.keys = ToSet(Page)
      BY <1>3, <2>2
    <3>. QED BY <1>1, <2>2, <3>1 DEF Keeping
  <2>3. CASE link.skip = NoToken /\ cfg.delta /\ Page = <<>>
    <3>1. shown' = shown /\ shown \subseteq link.delta.keys
      BY <1>1, <2>3 DEF GhostInv
    <3>2. CASE ~Fresh
      BY <1>3, <2>3, <3>1, <3>2 DEF Keeping
    <3>3. CASE Fresh
      BY <3>1, <3>3, NoTokens DEF Fresh
    <3>. QED BY <3>2, <3>3
  <2>4. CASE ~cfg.delta
    BY <1>1, <2>4 DEF BaseInv, LinkInv
  <2>. QED BY <2>1, <2>2, <2>3, <2>4
<1>7. link'.skip = NoToken => link'.delta = Keeping
  BY <1>1, <1>2, NoTokens
<1>8. link'.skip # NoToken => link'.first = Keeping
  BY <1>1, NoTokens
<1>9. ~Looking'
  BY <1>1 DEF Looking, Idle
<1>. QED BY <1>4, <1>5, <1>6, <1>7, <1>8, <1>9 DEF GhostInv

LEMMA GhostsStay ==
    ASSUME BaseInv, GhostInv, [Next]_vars
    PROVE  GhostInv'
<1>0. TypeOK /\ LinkInv
  BY DEF BaseInv
<1>1. CASE Refuse
  <2>1. /\ request' = Idle /\ link' = NoLink /\ view' = [r \in Row |-> Unknown] /\ shown' = {}
        /\ ghosts' = ghosts /\ table' = table
    BY <1>1 DEF Refuse
  <2>2. ~Looking' /\ ghosts \subseteq Row
    BY <1>0, <2>1 DEF Looking, Idle, TypeOK
  <2>. QED BY <2>1, <2>2, NoTokens DEF GhostInv, Present
<1>2. CASE ReadRows
  BY <1>2, GhostsOnReadRows
<1>3. CASE LookUp
  <2>1. /\ Looking /\ Looking' /\ request'.rows = request.rows
        /\ UNCHANGED <<table, link, view, shown, ghosts>>
    BY <1>3, WhatLookUpDoes
  <2>2. PICK r \in request.todo \cap Row :
           /\ request'.todo = request.todo \ {r}
           /\ request'.missing = request.missing \cup ({r} \ Present)
    BY <1>3, WhatLookUpDoes
  <2>3. Read' = Read /\ Present' = Present
    BY <2>1 DEF Read, Present
  <2>4. \A q \in ghosts : q \notin Present
    BY DEF GhostInv
  <2>5. ~(request' = Idle)
    BY <2>1 DEF Looking, Idle
  <2>. QED BY <2>1, <2>2, <2>3, <2>4, <2>5 DEF GhostInv
<1>4. CASE Answer
  BY <1>4, GhostsOnAnswer
<1>5. ASSUME NEW r \in cfg.rows, NEW s \in cfg.values, StartWrite(r, s) \/ WriteRow(r, s)
      PROVE  GhostInv'
  <2>1. CASE StartWrite(r, s)
    <3>1. UNCHANGED <<table, request, link, view, shown, ghosts>>
      BY <2>1 DEF StartWrite
    <3>. QED BY <3>1 DEF GhostInv, Present, Looking, Read
  <2>2. CASE WriteRow(r, s)
    <3>1. ~cfg.delta /\ UNCHANGED <<request, link, view, shown, ghosts>>
      BY <2>2 DEF WriteRow
    <3>2. ghosts = {}
      BY <1>0, <3>1 DEF LinkInv
    <3>. QED BY <3>1, <3>2 DEF GhostInv, Looking, Read
  <2>. QED BY <1>5, <2>1, <2>2
<1>6. ASSUME NEW w \in writes, Commit(w)
      PROVE  GhostInv'
  <2>1. /\ table' = [table EXCEPT ![w.row] = w.content] /\ ghosts' = ghosts \ {w.row}
        /\ UNCHANGED <<request, link, view, shown>>
    BY <1>6 DEF Commit
  <2>2. Present' \subseteq Present \cup {w.row}
    BY <1>0, <2>1 DEF Present, TypeOK
  <2>. QED BY <2>1, <2>2 DEF GhostInv, Looking, Read
<1>7. ASSUME NEW r \in Row, Delete(r)
      PROVE  GhostInv'
  <2>1. /\ table' = [table EXCEPT ![r].s = Absent]
        /\ UNCHANGED <<request, link, view, shown, ghosts>>
    BY <1>7 DEF Delete
  <2>2. ~Is(table'[r])
    BY <1>7, BaseOnDelete
  <2>3. Present' \subseteq Present
    BY <1>0, <2>1, <2>2 DEF Present, TypeOK
  <2>. QED BY <2>1, <2>3 DEF GhostInv, Looking, Read
<1>8. CASE UNCHANGED vars
  BY <1>8 DEF GhostInv, Looking, Read, Present, vars
<1>. QED BY <1>1, <1>2, <1>3, <1>4, <1>5, <1>6, <1>7, <1>8, Steps

\* An entity of the page a delta link was given with that is deleted before the link
\* is called is reported as removed, whoever writes it back or deletes others
\* meanwhile (computeTombstones, createDeltaTokenForRows).
THEOREM DeletionsAreReported == Spec => []DeletionsOfThePageAreReported
<1>1. Init => BaseInv /\ GhostInv
  <2>. SUFFICES ASSUME Init
                PROVE  BaseInv /\ GhostInv
    OBVIOUS
  <2>1. ghosts = {} /\ shown = {} /\ request = Idle
    BY DEF Init
  <2>. QED BY <2>1, BaseAtFirst DEF GhostInv, Looking, Idle
<1>2. BaseInv /\ GhostInv /\ [Next]_vars => BaseInv' /\ GhostInv'
  BY BaseStays, GhostsStay
<1>3. BaseInv /\ GhostInv => DeletionsOfThePageAreReported
  BY DEF GhostInv, DeletionsOfThePageAreReported, Complete
<1>. QED BY <1>1, <1>2, <1>3, PTL DEF Spec

-----------------------------------------------------------------------------
(* Pages.                                                                  *)

\* Without delta links and without an order, a row's place is its key.
LEMMA KeysArePlaces ==
    ASSUME TypeOK, ~cfg.delta, cfg.order = "none", NEW r, NEW c, NEW e
    PROVE  Place(r, c) = Place(r, e)
<1>1. EffectiveOrder = <<Asc("id")>>
  BY OrderIs
<1>2. \A i \in Fields : EffectiveOrder[i].field = "id"
  BY <1>1 DEF Fields, Asc
<1>. QED BY <1>2 DEF Place, Field

\* Where a row has not moved, a step that leaves the request and the link alone
\* changes nothing.
LEMMA OnceReportedStays ==
    ASSUME cfg' = cfg, link' = link, reported' = reported,
           request'.stage = request.stage, request'.rows = request.rows,
           request'.contents = request.contents, (request' = Idle) <=> (request = Idle),
           NEW r, OnceReported(r),
           r \in Present', (Passes(table[r]))', (Here(r))' = Here(r),
           table'[r] = table[r] \/ cfg.order = "none"
    PROVE  (OnceReported(r))'
<1>1. Read' = Read /\ \A q : (There(q))' = There(q)
  BY HereAndThere DEF Read, There
<1>2. (Looking' <=> Looking) /\ (Complete' <=> Complete) /\ (More' <=> More)
  BY DEF Looking, Complete, More
<1>3. (Waits(r))' <=> Waits(r)
  BY PlacesStay DEF Waits, Before, Fields
<1>4. (After(r))' <=> After(r)
  BY <1>1, <1>2, PlacesStay DEF After, Before, Fields
<1>5. (NullUp(r))' <=> NullUp(r)
  BY DEF NullUp
<1>. QED BY <1>1, <1>2, <1>3, <1>4, <1>5 DEF OnceReported

LEMMA PagingOnReadRows ==
    ASSUME BaseInv, PagingInv, ReadRows
    PROVE  PagingInv'
<1>. SUFFICES ASSUME NEW r \in stable'
              PROVE  (OnceReported(r))'
  BY DEF PagingInv
<1>0. TypeOK /\ LinkInv /\ ValuesInv
  BY DEF BaseInv
<1>1. /\ request = Idle /\ Accepted
      /\ Filtered => Len(Found) <= MaxScan
      /\ UNCHANGED <<cfg, table, writes, clock, link, view, horizon, late, shown>>
      /\ link.skip = NoToken =>
            /\ stable' = IF cfg.delta THEN {} ELSE {q \in Present : Passes(table[q])}
            /\ reported' = [q \in Row |-> 0]
      /\ link.skip # NoToken => UNCHANGED <<stable, reported>>
  BY WhatReadRowsDoes
<1>2. /\ Looking' /\ Read' = ToSet(Kept) /\ Read' \subseteq Row /\ request'.rows = Kept
      /\ \A q \in Read' : request'.contents[q] = table[q]
  BY JustRead
<1>3. ~cfg.delta /\ link.delta = NoDelta
  BY <1>0, <1>1 DEF LinkInv
<1>4. r \in Present /\ Passes(table[r]) /\ r \in Row /\ table[r] \in Content
  BY <1>0, <1>1, <1>3 DEF PagingInv, OnceReported, Present, TypeOK
<1>5. ~Complete'
  BY <1>2 DEF Complete, Looking, Idle
<1>6. \A q : (Here(q))' = Here(q)
  BY <1>1, HereAndThere
<1>7. \A q \in Read' : (There(q))' = Here(q)
  BY <1>1, <1>2, HereAndThere DEF Here
<1>8. ((Waits(r))' <=> Waits(r)) /\ ((NullUp(r))' <=> NullUp(r))
  BY <1>1, <1>6, PlacesStay DEF Waits, NullUp, Before, Fields
<1>9. IF Waits(r) THEN reported'[r] = 0 ELSE reported'[r] = 1 \/ NullUp(r)
  <2>1. CASE link.skip = NoToken
    BY <1>1, <1>4, <2>1 DEF Waits
  <2>2. CASE link.skip # NoToken
    BY <1>1, <2>2 DEF PagingInv, OnceReported, Complete
  <2>. QED BY <2>1, <2>2
<1>10. reported'[r] <= 1
  <2>1. CASE link.skip = NoToken
    BY <1>1, <1>4, <2>1
  <2>2. CASE link.skip # NoToken
    BY <1>1, <2>2 DEF PagingInv, OnceReported
  <2>. QED BY <2>1, <2>2
<1>11. ASSUME Waits(r), ~NullUp(r)
       PROVE  r \in Read' \/ (After(r))'
  <2>1. link.skip = NoToken \/ AfterSkipToken(link.skip, r, table[r])
    BY <1>0, <1>1, <1>4, <1>11, LinksLeadBehind DEF Waits, NullUp, Here, LinkInv
  <2>2. r \in Selected
    BY <1>3, <1>4, <2>1 DEF Selected
  <2>3. r \in ToSet(Kept) \/ (Len(Kept) > cfg.page /\ \A q \in ToSet(Kept) : Before(Here(q), Here(r)))
    BY <1>0, <1>1, <1>4, <2>2, WhatIsKept
  <2>4. \A q \in Read' : (Before(There(q), Here(r)))' <=> Before(Here(q), Here(r))
    BY <1>1, <1>6, <1>7, PlacesStay DEF Before, Fields
  <2>. QED BY <1>1, <1>2, <2>3, <2>4 DEF After, More
<1>12. r \in Present' /\ (Passes(table[r]))'
  BY <1>1, <1>4 DEF Present, Passes
<1>13. r \in Read' => request'.contents[r] = table'[r]
  BY <1>1, <1>2
<1>. QED BY <1>5, <1>8, <1>9, <1>10, <1>11, <1>12, <1>13 DEF OnceReported

\* How the rows of a page lie to the last of them, and so to the next page's token.
LEMMA TheNextToken ==
    ASSUME BaseInv, Looking
    PROVE  /\ \A q \in Read : There(q) \in Places
           /\ ToSet(Page) \subseteq Read
           /\ ~More => ToSet(Page) = Read
           /\ More => /\ Last(Page) \in ToSet(Page)
                      /\ SkipToken(Last(Page), request.contents[Last(Page)]).values = There(Last(Page))
                      /\ SkipToken(Last(Page), request.contents[Last(Page)]) # NoToken
                      /\ \A q \in ToSet(Page) : q = Last(Page) \/ Before(There(q), There(Last(Page)))
                      /\ \A q \in Read \ ToSet(Page) : Before(There(Last(Page)), There(q))
<1>0. TypeOK /\ RequestInv
  BY DEF BaseInv
<1>1. /\ request.rows \in Seq(Row) /\ request.contents \in [Read -> Content]
      /\ Knows(request.contents, request.rows) /\ InOrder(request.rows, request.contents)
  BY <1>0 DEF TypeOK, RequestInv, Looking, Read, Knows
<1>2. /\ Page \in Seq(Row) /\ ToSet(Page) \subseteq Read /\ Read \subseteq Row
      /\ Knows(request.contents, Page) /\ InOrder(Page, request.contents)
      /\ Page # <<>> => Last(Page) \in ToSet(Page)
      /\ More => Page # <<>>
  BY CursorsAreTyped
<1>3. cfg.page \in Nat /\ Len(request.rows) \in Nat
  BY <1>0, <1>1, TypesOfTheConfig
<1>4. /\ Len(request.rows) <= cfg.page => ToSet(Page) = Read
      /\ \A q \in Read \ ToSet(Page) : \A p \in ToSet(Page) : Before(There(p), There(q))
  BY <1>0, <1>1, <1>3, TakeIsTheFirst DEF Page, Read, There
<1>5. ~More => ToSet(Page) = Read
  BY <1>3, <1>4 DEF More
<1>6. \A q \in Read : q \in Row /\ request.contents[q] \in Content
  BY <1>1, <1>2
<1>7. \A q \in Read : There(q) \in Places
  BY <1>0, <1>6, RowsHavePlaces DEF There
<1>8. ASSUME More
      PROVE  /\ SkipToken(Last(Page), request.contents[Last(Page)]).values = There(Last(Page))
             /\ SkipToken(Last(Page), request.contents[Last(Page)]) # NoToken
             /\ \A q \in ToSet(Page) : q = Last(Page) \/ Before(There(q), There(Last(Page)))
  <2>1. Last(Page) \in Row /\ request.contents[Last(Page)] \in Content
    BY <1>2, <1>6, <1>8
  <2>2. SkipToken(Last(Page), request.contents[Last(Page)])
            = [order |-> EffectiveOrder, values |-> There(Last(Page))]
    BY <1>0, <2>1, RowsHavePlaces DEF There
  <2>3. \A q \in ToSet(Page) : q = Last(Page) \/ Before(There(q), There(Last(Page)))
    BY <1>0, <1>2, <1>8, LastIsLast DEF There
  <2>4. SkipToken(Last(Page), request.contents[Last(Page)]) # NoToken
    BY <1>0, NoTokens
  <2>. QED BY <2>2, <2>3, <2>4
<1>. QED BY <1>2, <1>4, <1>5, <1>7, <1>8

LEMMA PagingOnAnswer ==
    ASSUME BaseInv, PagingInv, Answer
    PROVE  PagingInv'
<1>. DEFINE last == Last(Page)
<1>1. /\ Looking /\ request' = Idle
      /\ link' = IF More
                 THEN [skip |-> SkipToken(Last(Page), request.contents[Last(Page)]),
                       delta |-> link.delta, first |-> Keeping]
                 ELSE [skip |-> NoToken, delta |-> Keeping, first |-> NoDelta]
      /\ reported' = [q \in Row |-> IF q \in ToSet(Page) \cap stable /\ reported[q] < 2
                                    THEN reported[q] + 1 ELSE reported[q]]
      /\ UNCHANGED <<cfg, table, writes, clock, stable, ghosts>>
  BY WhatAnswerDoes
<1>2. /\ \A q \in Read : There(q) \in Places
      /\ ToSet(Page) \subseteq Read
      /\ ~More => ToSet(Page) = Read
      /\ More => /\ last \in ToSet(Page)
                 /\ SkipToken(last, request.contents[last]).values = There(last)
                 /\ SkipToken(last, request.contents[last]) # NoToken
                 /\ \A q \in ToSet(Page) : q = last \/ Before(There(q), There(last))
                 /\ \A q \in Read \ ToSet(Page) : Before(There(last), There(q))
  BY <1>1, TheNextToken
<1>. HIDE DEF last
<1>. SUFFICES ASSUME NEW r \in stable
              PROVE  (OnceReported(r))'
  BY <1>1 DEF PagingInv
<1>0. TypeOK /\ RequestInv /\ LinkInv
  BY DEF BaseInv
<1>3. /\ OnceReported(r) /\ ~cfg.delta
      /\ r \in Row /\ r \in Present /\ table[r] \in Content /\ reported[r] \in 0..2
  BY <1>0 DEF PagingInv, OnceReported, Present, TypeOK, LinkInv
<1>4. ~Complete /\ ~Looking'
  BY <1>1 DEF Complete, Looking, Idle
<1>5. (Here(r))' = Here(r) /\ Here(r) \in Places
  BY <1>0, <1>1, <1>3, HereAndThere, RowsHere
<1>6. r \in Read => There(r) = Here(r)
  <2>. SUFFICES ASSUME r \in Read
                PROVE  There(r) = Here(r)
    OBVIOUS
  <2>1. request.contents[r] = table[r] \/ cfg.order = "none"
    BY <1>1, <1>3 DEF OnceReported
  <2>. QED BY <1>0, <1>3, <2>1, KeysArePlaces DEF There, Here
<1>7. More => link'.skip # NoToken /\ link'.skip.values = There(last)
  BY <1>1, <1>2 DEF last
<1>8. ~More => link'.skip = NoToken
  BY <1>1
<1>9. More => ((Waits(r))' <=> Before(There(last), Here(r)))
  <2>1. EffectiveOrder' = EffectiveOrder
    BY <1>1, PlacesStay
  <2>2. (Before(link.skip.values, Here(r)))' <=> Before(link'.skip.values, Here(r))
    BY <1>5, <2>1 DEF Before, Fields
  <2>. QED BY <1>7, <2>2 DEF Waits
<1>10. ((NullUp(r))' <=> NullUp(r)) /\ r \in Present' /\ (Passes(table[r]))'
  BY <1>1, <1>3 DEF NullUp, OnceReported, Present, Passes
<1>11. CASE r \in ToSet(Page)
  <2>1. r \in Read /\ There(r) = Here(r)
    BY <1>2, <1>6, <1>11
  <2>2. Waits(r)
    BY <1>0, <1>1, <2>1 DEF RequestInv, Waits
  <2>3. reported[r] = 0
    BY <1>3, <1>4, <2>2 DEF OnceReported
  <2>4. reported'[r] = 1
    BY <1>1, <1>3, <1>11, <2>3
  <2>5. More => ~(Waits(r))'
    BY <1>0, <1>2, <1>5, <1>9, <1>11, <2>1, PlacesAreOrdered
  <2>. QED BY <1>1, <1>4, <1>8, <1>10, <2>4, <2>5 DEF OnceReported, Complete
<1>12. CASE r \notin ToSet(Page)
  <2>1. reported'[r] = reported[r] /\ reported[r] <= 1
    BY <1>1, <1>3, <1>12 DEF OnceReported
  <2>2. CASE ~Waits(r)
    <3>1. reported[r] = 1 \/ NullUp(r)
      BY <1>3, <1>4, <2>2 DEF OnceReported
    <3>2. ASSUME More
          PROVE  ~(Waits(r))'
      <4>1. link.skip # NoToken /\ ~Before(link.skip.values, Here(r))
        BY <2>2 DEF Waits
      <4>2. Before(link.skip.values, There(last)) /\ There(last) \in Places
        BY <1>0, <1>1, <1>2, <3>2, <4>1 DEF RequestInv
      <4>3. link.skip.values \in Places
        BY <1>0, <4>1, LinksLeadBehind DEF LinkInv
      <4>. QED BY <1>0, <1>5, <1>9, <3>2, <4>1, <4>2, <4>3, PlacesAreOrdered
    <3>. QED BY <1>1, <1>4, <1>8, <1>10, <2>1, <3>1, <3>2 DEF OnceReported, Complete
  <2>3. CASE Waits(r) /\ NullUp(r)
    <3>1. reported[r] = 0
      BY <1>3, <1>4, <2>3 DEF OnceReported
    <3>. QED BY <1>1, <1>4, <1>8, <1>10, <2>1, <2>3, <3>1 DEF OnceReported, Complete
  <2>4. CASE Waits(r) /\ ~NullUp(r)
    <3>1. reported[r] = 0 /\ (r \in Read \/ After(r))
      BY <1>1, <1>3, <1>4, <2>4 DEF OnceReported
    <3>2. More
      BY <1>2, <1>12, <3>1 DEF After
    <3>3. Before(There(last), Here(r))
      BY <1>2, <1>6, <1>12, <3>1, <3>2 DEF After
    <3>4. (Waits(r))' /\ ~Complete'
      BY <1>7, <1>9, <3>2, <3>3 DEF Complete
    <3>. QED BY <1>4, <1>10, <2>1, <3>1, <3>4 DEF OnceReported
  <2>. QED BY <2>2, <2>3, <2>4
<1>. QED BY <1>11, <1>12

LEMMA PagingStays ==
    ASSUME BaseInv, PagingInv, [Next]_vars
    PROVE  PagingInv'
<1>0. TypeOK /\ LinkInv /\ RequestInv
  BY DEF BaseInv
<1>1. CASE Refuse
  BY <1>1 DEF Refuse, PagingInv
<1>2. CASE ReadRows
  BY <1>2, PagingOnReadRows
<1>3. CASE LookUp
  <2>1. /\ request'.stage = request.stage
        /\ request'.rows = request.rows /\ request'.contents = request.contents
        /\ (request' = Idle) <=> (request = Idle)
        /\ UNCHANGED <<cfg, table, link, stable, reported>>
    BY <1>3, WhatLookUpDoes DEF Looking, Idle
  <2>2. \A r : (Here(r))' = Here(r)
    BY <2>1, HereAndThere
  <2>3. ASSUME NEW r \in stable
        PROVE  (OnceReported(r))'
    <3>1. OnceReported(r)
      BY DEF PagingInv
    <3>2. r \in Present' /\ (Passes(table[r]))'
      BY <2>1, <3>1 DEF OnceReported, Present, Passes
    <3>. QED BY <2>1, <2>2, <3>1, <3>2, OnceReportedStays
  <2>. QED BY <2>1, <2>3 DEF PagingInv
<1>4. CASE Answer
  BY <1>4, PagingOnAnswer
<1>5. ASSUME NEW r \in cfg.rows, NEW s \in cfg.values, StartWrite(r, s)
      PROVE  PagingInv'
  BY <1>0, <1>5 DEF StartWrite, PagingInv, LinkInv
<1>6. ASSUME NEW r \in cfg.rows, NEW s \in cfg.values, WriteRow(r, s)
      PROVE  PagingInv'
  <2>1. /\ ~cfg.delta
        /\ table' = [table EXCEPT ![r] = [s |-> s, d |-> 0]]
        /\ stable' = IF cfg.order = "none" /\ r \in Present /\ s \in cfg.keep
                     THEN stable ELSE stable \ {r}
        /\ UNCHANGED <<cfg, writes, clock, request, link, view, reported, horizon, late, shown, ghosts>>
    BY <1>6 DEF WriteRow
  <2>2. r \in Row /\ s \in SortValue \cup {Null}
    BY <1>0, TypesOfTheConfig
  <2>3. ASSUME NEW q \in stable'
        PROVE  (OnceReported(q))'
    <3>1. q \in stable /\ OnceReported(q) /\ q \in Present /\ q \in Row
      BY <2>1, <2>3 DEF PagingInv, OnceReported, Present
    <3>2. CASE q # r
      <4>1. table'[q] = table[q]
        BY <1>0, <2>1, <3>1, <3>2 DEF TypeOK
      <4>2. q \in Present' /\ (Passes(table[q]))' /\ (Here(q))' = Here(q)
        BY <2>1, <3>1, <4>1, HereAndThere DEF OnceReported, Present, Passes, Here
      <4>. QED BY <2>1, <3>1, <4>1, <4>2, OnceReportedStays
    <3>3. CASE q = r
      <4>1. cfg.order = "none" /\ s \in cfg.keep
        BY <2>1, <2>3, <3>3
      <4>2. table'[q] = [s |-> s, d |-> 0]
        BY <1>0, <2>1, <3>1, <3>3 DEF TypeOK
      <4>3. q \in Present' /\ (Passes(table[q]))'
        BY <2>1, <2>2, <3>1, <4>1, <4>2, ValueAssumption DEF Present, Is, Passes, Absent, Null
      <4>4. (Here(q))' = Here(q)
        BY <1>0, <2>1, <4>1, HereAndThere, KeysArePlaces DEF Here
      <4>. QED BY <2>1, <3>1, <4>1, <4>3, <4>4, OnceReportedStays
    <3>. QED BY <3>2, <3>3
  <2>. QED BY <2>3 DEF PagingInv
<1>7. ASSUME NEW w \in writes, Commit(w)
      PROVE  PagingInv'
  <2>1. cfg.delta /\ stable = {}
    BY <1>0 DEF LinkInv
  <2>. QED BY <1>7, <2>1 DEF Commit, PagingInv
<1>8. ASSUME NEW r \in Row, Delete(r)
      PROVE  PagingInv'
  <2>1. /\ table' = [table EXCEPT ![r].s = Absent] /\ stable' = stable \ {r}
        /\ UNCHANGED <<cfg, request, link, reported>>
    BY <1>8 DEF Delete
  <2>2. ASSUME NEW q \in stable'
        PROVE  (OnceReported(q))'
    <3>1. q \in stable /\ OnceReported(q) /\ q \in Present /\ q \in Row /\ q # r
      BY <2>1, <2>2 DEF PagingInv, OnceReported, Present
    <3>2. table'[q] = table[q]
      BY <1>0, <2>1, <3>1 DEF TypeOK
    <3>3. q \in Present' /\ (Passes(table[q]))' /\ (Here(q))' = Here(q)
      BY <2>1, <3>1, <3>2, HereAndThere DEF OnceReported, Present, Passes, Here
    <3>. QED BY <2>1, <3>1, <3>2, <3>3, OnceReportedStays
  <2>. QED BY <2>2 DEF PagingInv
<1>9. CASE UNCHANGED vars
  <2>1. UNCHANGED <<cfg, table, request, link, stable, reported>>
    BY <1>9 DEF vars
  <2>2. ASSUME NEW r \in stable
        PROVE  (OnceReported(r))'
    <3>1. OnceReported(r)
      BY DEF PagingInv
    <3>2. r \in Present' /\ (Passes(table[r]))' /\ (Here(r))' = Here(r)
      BY <2>1, <3>1, HereAndThere DEF OnceReported, Present, Passes
    <3>. QED BY <2>1, <3>1, <3>2, OnceReportedStays
  <2>. QED BY <2>1, <2>2 DEF PagingInv
<1>. QED BY <1>1, <1>2, <1>3, <1>4, <1>5, <1>6, <1>7, <1>8, <1>9, Steps

\* A client that follows the nextLinks is given each entity that stays, at its place,
\* exactly once, whatever others insert, change or delete between two pages: only a
\* null of an ascending order is not reached (buildSkipTokenConstraint,
\* applyServerDrivenPaging).
THEOREM StableRowsAreCovered == Spec => []PagesCoverStableRows
<1>1. Init => BaseInv /\ PagingInv
  BY BaseAtFirst DEF Init, PagingInv
<1>2. BaseInv /\ PagingInv /\ [Next]_vars => BaseInv' /\ PagingInv'
  BY BaseStays, PagingStays
<1>3. BaseInv /\ PagingInv => PagesCoverStableRows
  BY DEF PagingInv, OnceReported, NullUp, PagesCoverStableRows
<1>. QED BY <1>1, <1>2, <1>3, PTL DEF Spec

-----------------------------------------------------------------------------
(* Changes.                                                                *)

LEMMA HorizonTypes ==
    ASSUME TypeOK
    PROVE  /\ horizon.d \in Nat /\ horizon.id \in Nat /\ clock \in Nat
           /\ \A r \in Row : r \in Nat /\ r # NoKey
           /\ \A r \in Row : table[r].d \in Nat
           /\ \A w \in writes : w.row \in Row /\ w.content.d \in Nat
           /\ Looking => \A r \in Read : r \in Row /\ request.contents[r] \in Content /\ request.contents[r].d \in Nat
           /\ \A t \in {link.delta, link.first} : t.last \in Int /\ t.key \in Nat
<1>1. MaxClock \in Nat
  BY BoundsAssumption
<1>2. \A r \in Row : r \in Nat /\ r # NoKey
  BY RowAssumption DEF NoKey
<1>3. \A c \in Content : c.d \in Nat
  BY <1>1 DEF Content
<1>4. horizon.d \in Nat /\ horizon.id \in Nat /\ clock \in Nat
  BY <1>1, <1>2 DEF TypeOK, NoKey
<1>5. Looking => \A r \in Read : r \in Row /\ request.contents[r] \in Content
  <2>. SUFFICES ASSUME Looking, NEW r \in Read
                PROVE  r \in Row /\ request.contents[r] \in Content
    OBVIOUS
  <2>1. request.rows \in Seq(Row) /\ request.contents \in [Read -> Content]
    BY DEF TypeOK, Looking, Read
  <2>. QED BY <2>1, ToSetIsRange DEF Read
<1>6. \A t \in {link.delta, link.first} : t.last \in Int /\ t.key \in Nat
  BY <1>1, <1>2 DEF TypeOK, NoKey
<1>7. (\A r \in Row : table[r].d \in Nat) /\ (\A w \in writes : w.row \in Row /\ w.content.d \in Nat)
  BY <1>3 DEF TypeOK
<1>. QED BY <1>2, <1>3, <1>4, <1>5, <1>6, <1>7

\* The horizon only grows.
LEMMA HorizonGrows ==
    ASSUME TypeOK, TypeOK',
           \/ horizon'.d > horizon.d
           \/ horizon'.d = horizon.d /\ horizon'.id >= horizon.id
    PROVE  /\ \A d \in Nat, id \in Nat : Passed(d, id) => (Passed(d, id))'
           /\ \A t \in {link.delta, link.first, NoDelta} : TokenPassed(t) => (TokenPassed(t))'
<1>1. horizon.d \in Nat /\ horizon.id \in Nat
  BY HorizonTypes
<1>2. horizon'.d \in Nat /\ horizon'.id \in Nat
  <2>1. horizon' \in [d : 0..MaxClock + 1, id : Row \cup {NoKey}]
    BY DEF TypeOK
  <2>2. MaxClock \in Nat /\ Row \subseteq Nat /\ NoKey \in Nat
    BY BoundsAssumption, RowAssumption DEF NoKey
  <2>3. horizon'.d \in 0..MaxClock + 1 /\ horizon'.id \in Row \cup {NoKey}
    BY <2>1
  <2>4. horizon'.d \in Nat
    BY <2>2, <2>3
  <2>5. horizon'.id \in Nat
    BY <2>2, <2>3
  <2>. QED BY <2>4, <2>5
<1>3. ASSUME NEW d \in Int, NEW id \in Nat, Passed(d, id)
      PROVE  (Passed(d, id))'
  BY <1>1, <1>2, <1>3 DEF Passed
<1>4. \A t \in {link.delta, link.first, NoDelta} : t.last \in Int /\ t.key \in Nat
  BY HorizonTypes, NoTokens DEF NoKey
<1>5. ASSUME NEW t \in {link.delta, link.first, NoDelta}, TokenPassed(t)
      PROVE  (TokenPassed(t))'
  <2>1. t.last \in Int /\ t.key \in Nat
    BY <1>4
  <2>2. CASE t.key = NoKey
    BY <1>1, <1>2, <1>5, <2>1, <2>2 DEF TokenPassed
  <2>3. CASE t.key # NoKey
    BY <1>3, <1>5, <2>1, <2>3 DEF TokenPassed
  <2>. QED BY <2>2, <2>3
<1>. QED BY <1>3, <1>5

LEMMA HorizonAtFirst ==
    ASSUME Init
    PROVE  HorizonInv
<1>1. BaseInv /\ TypeOK
  BY BaseAtFirst DEF BaseInv
<1>2. horizon.d = 0 /\ horizon.id = 0 /\ clock = 0 /\ writes = {} /\ ~Looking
  BY DEF Init, Looking, Idle
<1>3. \A r \in Row : table[r].d = 0
  <2>1. PICK first \in [cfg.start -> cfg.values] :
           table = [r \in Row |-> IF r \in cfg.start THEN [s |-> first[r], d |-> 0] ELSE Unknown]
    BY DEF Init
  <2>. QED BY <2>1 DEF Unknown
<1>4. link.delta = NoDelta /\ link.first = NoDelta
  BY NoTokens DEF Init
<1>. QED BY <1>2, <1>3, <1>4, NoTokens DEF HorizonInv, Passed, TokenPassed

LEMMA HorizonOnAnswer ==
    ASSUME BaseInv, HorizonInv, Answer
    PROVE  HorizonInv'
<1>0. TypeOK /\ TypeOK' /\ LinkInv
  BY BaseOnAnswer DEF BaseInv
<1>1. /\ Looking /\ request' = Idle
      /\ link' = IF More
                 THEN [skip |-> SkipToken(Last(Page), request.contents[Last(Page)]),
                       delta |-> link.delta, first |-> Keeping]
                 ELSE [skip |-> NoToken, delta |-> Keeping, first |-> NoDelta]
      /\ Fresh => horizon' = [d |-> clock + 1, id |-> NoKey]
      /\ ~Fresh => UNCHANGED horizon
      /\ UNCHANGED <<cfg, table, writes, clock>>
  BY WhatAnswerDoes
<1>2. /\ ToSet(Page) \subseteq Read
      /\ Page # <<>> => Last(Page) \in ToSet(Page)
      /\ ~cfg.delta => Cursor = NoDelta
      /\ cfg.delta /\ Page # <<>> =>
             Cursor = [last |-> request.contents[Last(Page)].d, key |-> Last(Page), keys |-> ToSet(Page)]
      /\ cfg.delta /\ Page = <<>> /\ ~Fresh /\ link.skip = NoToken => Cursor = link.delta
  BY <1>1, CursorsAreTyped
<1>3. /\ horizon.d \in Nat /\ horizon.id \in Nat /\ clock \in Nat
      /\ \A r \in Row : r \in Nat /\ r # NoKey /\ table[r].d \in Nat
      /\ \A r \in Read : r \in Row /\ request.contents[r].d \in Nat
  BY <1>0, <1>1, HorizonTypes
<1>4. Fresh => horizon'.d = clock + 1 /\ horizon'.id = NoKey
  BY <1>1
<1>5. \/ horizon'.d > horizon.d
      \/ horizon'.d = horizon.d /\ horizon'.id >= horizon.id
  BY <1>1, <1>3, <1>4 DEF HorizonInv, NoKey
<1>6. /\ \A d \in Nat, id \in Nat : Passed(d, id) => (Passed(d, id))'
      /\ \A t \in {link.delta, link.first, NoDelta} : TokenPassed(t) => (TokenPassed(t))'
  BY <1>0, <1>5, HorizonGrows
<1>7. TokenPassed(NoDelta)
  BY <1>3, NoTokens DEF TokenPassed
<1>9. ASSUME NEW t, t = Keeping
      PROVE  (TokenPassed(t))'
  <2>1. CASE link.skip # NoToken
    BY <1>6, <1>9, <2>1 DEF HorizonInv, Keeping
  <2>2. CASE link.skip = NoToken /\ ~cfg.delta
    BY <1>2, <1>6, <1>7, <1>9, <2>2 DEF Keeping
  <2>3. CASE link.skip = NoToken /\ cfg.delta /\ Page # <<>>
    <3>1. Last(Page) \in Read
      BY <1>2, <2>3
    <3>2. t.key = Last(Page) /\ t.last = request.contents[Last(Page)].d
      BY <1>2, <1>9, <2>3 DEF Keeping
    <3>3. Passed(request.contents[Last(Page)].d, Last(Page))
      BY <1>1, <3>1 DEF HorizonInv
    <3>4. (Passed(t.last, t.key))' /\ t.key # NoKey
      BY <1>3, <1>6, <3>1, <3>2, <3>3
    <3>. QED BY <3>4 DEF TokenPassed
  <2>4. CASE Fresh
    <3>1. t = [last |-> clock, key |-> NoKey, keys |-> {}]
      BY <1>9, <2>4 DEF Keeping, Cursor, DeltaToken, Fresh
    <3>2. t.last = clock /\ t.key = NoKey
      BY <3>1
    <3>. QED BY <1>3, <1>4, <2>4, <3>2 DEF TokenPassed
  <2>5. CASE link.skip = NoToken /\ cfg.delta /\ Page = <<>> /\ ~Fresh
    BY <1>2, <1>6, <1>9, <2>5 DEF HorizonInv, Keeping
  <2>. QED BY <2>1, <2>2, <2>3, <2>4, <2>5
<1>10. \A t \in {link'.delta, link'.first} : (TokenPassed(t))'
  <2>1. \A t \in {link.delta, NoDelta} : (TokenPassed(t))'
    BY <1>6, <1>7 DEF HorizonInv
  <2>2. \A t \in {link'.delta, link'.first} : t \in {link.delta, NoDelta, Keeping}
    BY <1>1
  <2>. QED BY <1>9, <2>1, <2>2
<1>11. \A r \in Row : (Passed(table[r].d, r))'
  BY <1>1, <1>3, <1>6 DEF HorizonInv, Passed
<1>12. horizon'.d <= clock' + 1 /\ (horizon'.d = clock' + 1 => horizon'.id = NoKey)
  BY <1>1, <1>3, <1>4 DEF HorizonInv
<1>13. ~Looking'
  BY <1>1 DEF Looking, Idle
<1>. QED BY <1>1, <1>10, <1>11, <1>12, <1>13 DEF HorizonInv, TokenPassed, Passed

LEMMA HorizonOnCommit ==
    ASSUME BaseInv, HorizonInv, NEW w \in writes, Commit(w)
    PROVE  HorizonInv'
<1>0. TypeOK /\ TypeOK' /\ w.row \in Row
  BY BaseOnCommit DEF BaseInv
<1>1. /\ table' = [table EXCEPT ![w.row] = w.content]
      /\ writes' \subseteq writes
      /\ UNCHANGED <<cfg, clock, request, link>>
      /\ IF Behind(w) THEN UNCHANGED horizon ELSE horizon' = [d |-> w.content.d, id |-> w.row]
  BY DEF Commit
<1>2. /\ horizon.d \in Nat /\ horizon.id \in Nat /\ clock \in Nat
      /\ \A r \in Row : r \in Nat /\ r # NoKey /\ table[r].d \in Nat
      /\ w.content.d \in Nat
      /\ Looking => \A r \in Read : r \in Row /\ request.contents[r].d \in Nat
  BY <1>0, HorizonTypes
<1>3. w.content.d <= clock /\ 1 <= w.content.d
  BY DEF HorizonInv
<1>4. \/ horizon'.d > horizon.d
      \/ horizon'.d = horizon.d /\ horizon'.id >= horizon.id
  <2>1. CASE Behind(w)
    BY <1>1, <1>2, <2>1
  <2>2. CASE ~Behind(w)
    <3>1. horizon'.d = w.content.d /\ horizon'.id = w.row
      BY <1>1, <2>2
    <3>. QED BY <1>0, <1>2, <2>2, <3>1 DEF Behind
  <2>. QED BY <2>1, <2>2
<1>5. /\ \A d \in Nat, id \in Nat : Passed(d, id) => (Passed(d, id))'
      /\ \A t \in {link.delta, link.first, NoDelta} : TokenPassed(t) => (TokenPassed(t))'
  BY <1>0, <1>4, HorizonGrows
<1>6. (Passed(w.content.d, w.row))'
  <2>1. CASE Behind(w)
    BY <1>1, <2>1 DEF Behind, Passed
  <2>2. CASE ~Behind(w)
    <3>1. horizon'.d = w.content.d /\ horizon'.id = w.row
      BY <1>1, <2>2
    <3>. QED BY <1>0, <1>2, <3>1 DEF Passed
  <2>. QED BY <2>1, <2>2
<1>7. \A r \in Row : (Passed(table[r].d, r))'
  <2>. SUFFICES ASSUME NEW r \in Row
                PROVE  (Passed(table[r].d, r))'
    OBVIOUS
  <2>1. CASE r = w.row
    <3>1. table'[r] = w.content
      BY <1>0, <1>1, <2>1 DEF TypeOK
    <3>. QED BY <1>6, <2>1, <3>1 DEF Passed
  <2>2. CASE r # w.row
    <3>1. table'[r] = table[r] /\ Passed(table[r].d, r)
      BY <1>0, <1>1, <2>2 DEF TypeOK, HorizonInv
    <3>. QED BY <1>2, <1>5, <3>1 DEF Passed
  <2>. QED BY <2>1, <2>2
<1>8. horizon'.d <= clock' + 1 /\ (horizon'.d = clock' + 1 => horizon'.id = NoKey)
  <2>1. CASE Behind(w)
    BY <1>1, <2>1 DEF HorizonInv
  <2>2. CASE ~Behind(w)
    <3>1. horizon'.d = w.content.d
      BY <1>1, <2>2
    <3>. QED BY <1>1, <1>2, <1>3, <3>1
  <2>. QED BY <2>1, <2>2
<1>9. Looking' => \A r \in Read' : (Passed(request.contents[r].d, r))'
  BY <1>1, <1>2, <1>5 DEF HorizonInv, Looking, Read, Passed
<1>10. \A t \in {link'.delta, link'.first} : (TokenPassed(t))'
  BY <1>1, <1>5 DEF HorizonInv
<1>11. \A v \in writes' : 1 <= v.content.d /\ v.content.d <= clock'
  BY <1>1 DEF HorizonInv
<1>. QED BY <1>7, <1>8, <1>9, <1>10, <1>11 DEF HorizonInv, TokenPassed, Passed

LEMMA HorizonOnStartWrite ==
    ASSUME BaseInv, HorizonInv, NEW r \in cfg.rows, NEW s \in cfg.values, StartWrite(r, s)
    PROVE  HorizonInv'
<1>0. TypeOK
  BY DEF BaseInv
<1>1. PICK d \in {clock, clock + 1} \cap (table[r].d + 1)..MaxClock :
         clock' = d /\ writes' = writes \cup {[row |-> r, content |-> [s |-> s, d |-> d]]}
  BY DEF StartWrite
<1>2. UNCHANGED <<table, request, link, horizon>>
  BY DEF StartWrite
<1>3. r \in Row
  BY <1>0, TypesOfTheConfig
<1>4. /\ horizon.d \in Nat /\ clock \in Nat /\ table[r].d \in Nat
      /\ \A w \in writes : w.content.d \in Nat
  BY <1>0, <1>3, HorizonTypes
<1>5. clock <= clock' /\ clock' \in Nat /\ 1 <= clock'
  <2>1. d = clock \/ d = clock + 1
    BY <1>1
  <2>2. d >= table[r].d + 1
    BY <1>1, <1>4
  <2>. QED BY <1>1, <1>4, <2>1, <2>2
<1>6. \A w \in writes' : 1 <= w.content.d /\ w.content.d <= clock'
  <2>. SUFFICES ASSUME NEW w \in writes'
                PROVE  1 <= w.content.d /\ w.content.d <= clock'
    OBVIOUS
  <2>1. CASE w \in writes
    <3>1. 1 <= w.content.d /\ w.content.d <= clock
      BY <2>1 DEF HorizonInv
    <3>. QED BY <1>4, <1>5, <2>1, <3>1
  <2>2. CASE w = [row |-> r, content |-> [s |-> s, d |-> d]]
    BY <1>1, <1>5, <2>2
  <2>. QED BY <1>1, <2>1, <2>2
<1>7. horizon'.d <= clock' + 1 /\ (horizon'.d = clock' + 1 => horizon'.id = NoKey)
  BY <1>2, <1>4, <1>5 DEF HorizonInv
<1>. QED BY <1>2, <1>6, <1>7 DEF HorizonInv, TokenPassed, Passed, Looking, Read

LEMMA HorizonStays ==
    ASSUME BaseInv, HorizonInv, [Next]_vars
    PROVE  HorizonInv'
<1>0. TypeOK
  BY DEF BaseInv
<1>1. CASE Refuse
  <2>1. /\ request' = Idle /\ UNCHANGED <<table, writes, clock, horizon>>
        /\ link'.delta = NoDelta /\ link'.first = NoDelta
    BY <1>1, NoTokens DEF Refuse
  <2>2. ~Looking' /\ horizon.d \in Nat
    BY <1>0, <2>1, HorizonTypes DEF Looking, Idle
  <2>. QED BY <2>1, <2>2, NoTokens DEF HorizonInv, TokenPassed, Passed
<1>2. CASE ReadRows
  <2>1. UNCHANGED <<table, writes, clock, link, horizon>>
    BY <1>2, WhatReadRowsDoes
  <2>2. \A r \in Read' : r \in Row /\ request'.contents[r] = table[r]
    BY <1>2, JustRead
  <2>. QED BY <2>1, <2>2 DEF HorizonInv, TokenPassed, Passed
<1>3. CASE LookUp
  <2>1. /\ Looking /\ Looking' /\ request'.rows = request.rows /\ request'.contents = request.contents
        /\ UNCHANGED <<table, writes, clock, link, horizon>>
    BY <1>3, WhatLookUpDoes
  <2>. QED BY <2>1 DEF HorizonInv, TokenPassed, Passed, Read
<1>4. CASE Answer
  BY <1>4, HorizonOnAnswer
<1>5. ASSUME NEW r \in cfg.rows, NEW s \in cfg.values, StartWrite(r, s)
      PROVE  HorizonInv'
  BY <1>5, HorizonOnStartWrite
<1>6. ASSUME NEW r \in cfg.rows, NEW s \in cfg.values, WriteRow(r, s)
      PROVE  HorizonInv'
  <2>1. /\ table' = [table EXCEPT ![r] = [s |-> s, d |-> 0]]
        /\ UNCHANGED <<writes, clock, request, link, horizon>>
    BY <1>6 DEF WriteRow
  <2>2. \A q \in Row : table'[q].d = 0 \/ table'[q] = table[q]
    BY <1>0, <2>1 DEF TypeOK
  <2>. QED BY <2>1, <2>2 DEF HorizonInv, TokenPassed, Passed, Looking, Read
<1>7. ASSUME NEW w \in writes, Commit(w)
      PROVE  HorizonInv'
  BY <1>7, HorizonOnCommit
<1>8. ASSUME NEW r \in Row, Delete(r)
      PROVE  HorizonInv'
  <2>1. /\ table' = [table EXCEPT ![r].s = Absent]
        /\ UNCHANGED <<writes, clock, request, link, horizon>>
    BY <1>8 DEF Delete
  <2>2. table'[r].d = table[r].d
    BY <1>8, BaseOnDelete
  <2>3. \A q \in Row : table'[q].d = table[q].d
    BY <1>0, <2>1, <2>2 DEF TypeOK
  <2>. QED BY <2>1, <2>3 DEF HorizonInv, TokenPassed, Passed, Looking, Read
<1>9. CASE UNCHANGED vars
  BY <1>9 DEF HorizonInv, TokenPassed, Passed, Looking, Read, vars
<1>. QED BY <1>1, <1>2, <1>3, <1>4, <1>5, <1>6, <1>7, <1>8, <1>9, Steps

\* For a row that stays as it is, a step that leaves the request, the link and what
\* the client knows alone changes nothing.
LEMMA FollowedStays ==
    ASSUME cfg' = cfg, link' = link,
           request'.stage = request.stage, request'.rows = request.rows,
           request'.contents = request.contents, (request' = Idle) <=> (request = Idle),
           NEW r, Followed(r), table'[r] = table[r], view'[r] = view[r],
           Looking => (r \in request'.missing <=> r \in request.missing)
    PROVE  (Followed(r))'
<1>1. Read' = Read /\ \A q : (There(q))' = There(q)
  BY HereAndThere DEF Read, There
<1>2. (Looking' <=> Looking) /\ (Complete' <=> Complete) /\ (More' <=> More) /\ (Accepted' <=> Accepted)
  BY DEF Looking, Complete, More, Accepted, RequestedOrder
<1>3. EffectiveOrder' = EffectiveOrder /\ (Here(r))' = Here(r)
  BY PlacesStay, HereAndThere DEF Here
<1>4. (After(r))' <=> After(r)
  BY <1>1, <1>2, <1>3 DEF After, Before, Fields
<1>5. (Before(link.skip.values, Here(r)))' <=> Before(link.skip.values, Here(r))
  BY <1>3 DEF Before, Fields
<1>6. /\ (Told(r))' <=> Told(r)
      /\ (Scope(r))' <=> Scope(r)
      /\ (Later(r))' <=> Later(r)
      /\ (Due(link.delta, r))' <=> Due(link.delta, r)
      /\ (Due(link.first, r))' <=> Due(link.first, r)
  BY <1>1 DEF Told, Scope, Later, Due, Newer, AfterDeltaToken
<1>7. Looking => (r \in request'.missing \cup Read' <=> r \in request.missing \cup Read)
  BY <1>1
<1>. QED BY <1>1, <1>2, <1>4, <1>5, <1>6, <1>7 DEF Followed

\* Pages can be followed with delta links only where the order asked for is the one
\* read in, and there nulls come first.
LEMMA AcceptedOrders ==
    ASSUME TypeOK, cfg.delta, link.skip # NoToken, IsToken(link.skip), Accepted
    PROVE  cfg.order = "stamp"
<1>1. EffectiveOrder = RequestedOrder
  BY LinksLeadBehind DEF Accepted
<1>2. cfg.order = "none" => Len(EffectiveOrder) = 2 /\ Len(RequestedOrder) = 1
  BY OrderIs DEF RequestedOrder
<1>3. cfg.order = "asc" => Len(EffectiveOrder) = 3 /\ Len(RequestedOrder) = 2
  BY OrderIs DEF RequestedOrder
<1>4. cfg.order = "desc" => Len(EffectiveOrder) = 3 /\ Len(RequestedOrder) = 2
  BY OrderIs DEF RequestedOrder
<1>. QED BY <1>1, <1>2, <1>3, <1>4, OrderIs

LEMMA TrackOnReadRows ==
    ASSUME BaseInv, TrackInv, ReadRows
    PROVE  TrackInv'
<1>0. TypeOK /\ LinkInv /\ ValuesInv
  BY DEF BaseInv
<1>1. /\ request = Idle /\ Accepted
      /\ Filtered => Len(Found) <= MaxScan
      /\ UNCHANGED <<cfg, table, writes, clock, link, view, horizon, late, shown>>
  BY WhatReadRowsDoes
<1>2. /\ Looking' /\ Read' = ToSet(Kept) /\ Read' \subseteq Row /\ request'.rows = Kept
      /\ request'.missing = {}
      /\ \A q \in Read' : request'.contents[q] = table[q]
  BY JustRead
<1>3. Current' = Current
  BY <1>1 DEF Current, Present, Passes
<1>. SUFFICES ASSUME cfg.delta, NEW r \in Current
              PROVE  (Followed(r))'
  BY <1>1, <1>3 DEF TrackInv
<1>4. /\ Followed(r) /\ r \in Present /\ Passes(table[r]) /\ r \in Row /\ table[r] \in Content
  BY <1>0 DEF TrackInv, Current, Present, TypeOK
<1>5. ~(request' = Idle) /\ ~Complete'
  BY <1>2 DEF Complete, Looking, Idle
<1>6. \A q : (Here(q))' = Here(q)
  BY <1>1, HereAndThere
<1>7. \A q \in Read' : (There(q))' = Here(q)
  BY <1>1, <1>2, HereAndThere DEF Here
<1>8. ((Scope(r))' <=> Scope(r)) /\ ((Told(r))' <=> Told(r))
  BY <1>1 DEF Scope, Told, Due, AfterDeltaToken
<1>9. r \in Read' => request'.contents[r] = table'[r] /\ r \notin request'.missing
  BY <1>1, <1>2
<1>10. ASSUME r \in Selected
       PROVE  r \in Read' \/ ((After(r))' /\ (Scope(r))')
  <2>1. r \in ToSet(Kept) \/ (Len(Kept) > cfg.page /\ \A q \in ToSet(Kept) : Before(Here(q), Here(r)))
    BY <1>0, <1>1, <1>4, <1>10, WhatIsKept
  <2>2. \A q \in Read' : (Before(There(q), Here(r)))' <=> Before(Here(q), Here(r))
    BY <1>1, <1>6, <1>7, PlacesStay DEF Before, Fields
  <2>3. Scope(r)
    BY <1>10 DEF Selected, Scope, Due
  <2>. QED BY <1>1, <1>2, <1>8, <2>1, <2>2, <2>3 DEF After, More
<1>11. Told(r) => r \in Read' \/ ((Told(r))' /\ r \notin request'.missing \cup Read')
  BY <1>2, <1>8
<1>12. CASE link.skip = NoToken
  <2>1. link.delta = NoDelta \/ Told(r) \/ Due(link.delta, r)
    BY <1>1, <1>4, <1>12 DEF Followed, Complete
  <2>2. Told(r) \/ r \in Selected
    BY <1>4, <1>12, <2>1 DEF Selected, Due
  <2>. QED BY <1>5, <1>9, <1>10, <1>11, <2>2 DEF Followed
<1>13. CASE link.skip # NoToken
  <2>1. \/ Told(r) \/ Due(link.first, r)
        \/ Before(link.skip.values, Here(r)) /\ Scope(r)
    BY <1>1, <1>4, <1>13 DEF Followed
  <2>2. Due(link.first, r) => (Later(r))'
    BY <1>1, <1>13 DEF Later, Due, AfterDeltaToken
  <2>3. cfg.order # "asc"
    BY <1>0, <1>1, <1>13, AcceptedOrders DEF LinkInv
  <2>4. Before(link.skip.values, Here(r)) => AfterSkipToken(link.skip, r, table[r])
    BY <1>0, <1>4, <1>13, <2>3, LinksLeadBehind DEF Here, LinkInv
  <2>5. Before(link.skip.values, Here(r)) /\ Scope(r) => r \in Selected
    BY <1>4, <2>4 DEF Selected, Scope, Due
  <2>. QED BY <1>5, <1>9, <1>10, <1>11, <2>1, <2>2, <2>5 DEF Followed
<1>. QED BY <1>12, <1>13

LEMMA TrackOnAnswer ==
    ASSUME BaseInv, TrackInv, Answer
    PROVE  TrackInv'
<1>. DEFINE last == Last(Page)
<1>0. TypeOK /\ RequestInv /\ LinkInv
  BY DEF BaseInv
<1>1. /\ Looking /\ request.todo = {} /\ request' = Idle
      /\ link' = IF More
                 THEN [skip |-> SkipToken(Last(Page), request.contents[Last(Page)]),
                       delta |-> link.delta, first |-> Keeping]
                 ELSE [skip |-> NoToken, delta |-> Keeping, first |-> NoDelta]
      /\ view' = [r \in Row |->
                     CASE r \in request.missing -> Unknown
                       [] cfg.delta /\ r \in ToSet(Page) \ request.missing -> request.contents[r]
                       [] OTHER -> view[r]]
      /\ Fresh => horizon' = [d |-> clock + 1, id |-> NoKey] /\ late' = late \cup Present
      /\ ~Fresh => UNCHANGED <<horizon, late>>
      /\ UNCHANGED <<cfg, table, writes, clock, stable, ghosts>>
  BY WhatAnswerDoes
<1>2. /\ \A q \in Read : There(q) \in Places
      /\ ToSet(Page) \subseteq Read
      /\ ~More => ToSet(Page) = Read
      /\ More => /\ last \in ToSet(Page)
                 /\ SkipToken(last, request.contents[last]).values = There(last)
                 /\ SkipToken(last, request.contents[last]) # NoToken
                 /\ \A q \in ToSet(Page) : q = last \/ Before(There(q), There(last))
                 /\ \A q \in Read \ ToSet(Page) : Before(There(last), There(q))
  BY <1>1, TheNextToken
<1>3. /\ Page # <<>> => last \in ToSet(Page)
      /\ cfg.delta /\ Page # <<>> =>
             Cursor = [last |-> request.contents[last].d, key |-> last, keys |-> ToSet(Page)]
      /\ cfg.delta /\ Page = <<>> /\ ~Fresh /\ link.skip = NoToken => Cursor = link.delta
  BY <1>1, CursorsAreTyped
<1>. HIDE DEF last
<1>. SUFFICES ASSUME cfg.delta, NEW r \in Current'
              PROVE  (Followed(r))'
  BY <1>1 DEF TrackInv
<1>4. ~Fresh /\ r \in Current
  BY <1>1 DEF Current, Present, Passes
<1>5. Followed(r) /\ r \in Present /\ r \in Row
  BY <1>4 DEF TrackInv, Current, Present
<1>6. More => /\ link'.skip # NoToken /\ link'.skip.values = There(last)
              /\ link'.delta = link.delta /\ link'.first = Keeping
  BY <1>1, <1>2 DEF last
<1>7. ~More => link'.skip = NoToken /\ link'.delta = Keeping
  BY <1>1
<1>8. ~Looking' /\ (Complete' <=> ~More) /\ request' = Idle
  BY <1>1, <1>6, <1>7 DEF Looking, Idle, Complete
<1>9. More => ((Scope(r))' <=> Scope(r))
  BY <1>1, <1>6 DEF Scope, Due, AfterDeltaToken
<1>10. More => ((Before(link.skip.values, Here(r)))' <=> Before(There(last), Here(r)))
  <2>1. EffectiveOrder' = EffectiveOrder /\ (Here(r))' = Here(r)
    BY <1>1, PlacesStay, HereAndThere
  <2>. QED BY <1>6, <2>1 DEF Before, Fields
<1>11. (Told(r))' <=> view'[r] = table[r]
  BY <1>1 DEF Told
<1>12. ASSUME Due(Keeping, r)
       PROVE  (Followed(r))'
  <2>1. More => (Due(link.first, r))'
    BY <1>1, <1>6, <1>12 DEF Due, AfterDeltaToken
  <2>2. ~More => (Due(link.delta, r))'
    BY <1>1, <1>7, <1>12 DEF Due, AfterDeltaToken
  <2>. QED BY <1>6, <1>7, <1>8, <2>1, <2>2 DEF Followed
<1>13. ASSUME (Told(r))'
       PROVE  (Followed(r))'
  BY <1>8, <1>13 DEF Followed
<1>14. ASSUME More, Before(There(last), Here(r)), Scope(r)
       PROVE  (Followed(r))'
  BY <1>8, <1>9, <1>10, <1>14 DEF Followed
<1>15. CASE Later(r)
  <2>1. CASE link.skip # NoToken
    BY <1>12, <1>15, <2>1 DEF Later, Keeping
  <2>2. CASE link.skip = NoToken /\ Page # <<>>
    <3>1. last \in Read /\ Newer(r)
      BY <1>2, <1>3, <1>15, <2>2 DEF Later
    <3>2. /\ Keeping.last = request.contents[last].d /\ Keeping.key = last
      BY <1>3, <2>2 DEF Keeping
    <3>3. last # NoKey
      BY <1>0, <1>1, <3>1, HorizonTypes
    <3>. QED BY <1>12, <3>1, <3>2, <3>3 DEF Newer, Due, AfterDeltaToken
  <2>3. CASE link.skip = NoToken /\ Page = <<>>
    <3>1. Keeping = link.delta
      BY <1>3, <1>4, <2>3 DEF Keeping
    <3>2. link.delta # NoDelta
      BY <1>4, <2>3 DEF Fresh
    <3>. QED BY <1>12, <1>15, <2>3, <3>1, <3>2 DEF Later, Scope
  <2>. QED BY <2>1, <2>2, <2>3
<1>16. CASE r \in Read /\ request.contents[r] = table[r] /\ r \notin request.missing
  <2>1. CASE r \in ToSet(Page)
    <3>1. view'[r] = request.contents[r]
      BY <1>1, <1>5, <1>16, <2>1
    <3>. QED BY <1>11, <1>13, <1>16, <3>1
  <2>2. CASE r \notin ToSet(Page)
    <3>1. More /\ There(r) = Here(r)
      BY <1>2, <1>16, <2>2 DEF There, Here
    <3>2. Before(There(last), Here(r))
      BY <1>2, <1>16, <2>2, <3>1
    <3>3. Scope(r)
      BY <1>0, <1>1, <1>16 DEF RequestInv, Scope, Due
    <3>. QED BY <1>14, <3>1, <3>2, <3>3
  <2>. QED BY <2>1, <2>2
<1>17. CASE After(r) /\ Scope(r)
  <2>1. More /\ Before(There(last), Here(r))
    BY <1>2, <1>17 DEF After
  <2>. QED BY <1>14, <1>17, <2>1
<1>18. CASE Told(r) /\ r \notin request.missing \cup Read
  <2>1. view'[r] = view[r]
    BY <1>1, <1>2, <1>5, <1>18
  <2>. QED BY <1>11, <1>13, <1>18, <2>1 DEF Told
<1>. QED BY <1>1, <1>5, <1>15, <1>16, <1>17, <1>18 DEF Followed

\* A row that commits beyond the horizon comes after every token and after every row
\* that has been read.
LEMMA TrackOnCommit ==
    ASSUME BaseInv, HorizonInv, TrackInv, NEW w \in writes, Commit(w)
    PROVE  TrackInv'
<1>0. TypeOK /\ w.row \in Row
  BY BaseOnCommit DEF BaseInv
<1>1. /\ table' = [table EXCEPT ![w.row] = w.content]
      /\ UNCHANGED <<cfg, request, link, view>>
      /\ late' = IF Behind(w) THEN late \cup {w.row} ELSE late \ {w.row}
  BY DEF Commit
<1>2. /\ horizon.d \in Nat /\ horizon.id \in Nat
      /\ \A r \in Row : r \in Nat /\ r # NoKey
      /\ w.content.d \in Nat
      /\ Looking => \A r \in Read : r \in Row /\ request.contents[r].d \in Nat
      /\ \A t \in {link.delta, link.first} : t.last \in Int /\ t.key \in Nat
  BY <1>0, HorizonTypes
<1>3. 1 <= w.content.d
  BY DEF HorizonInv
<1>. SUFFICES ASSUME cfg.delta, NEW r \in Current'
              PROVE  (Followed(r))'
  BY <1>1 DEF TrackInv
<1>4. CASE r # w.row
  <2>1. r \in Row
    BY DEF Current, Present
  <2>2. table'[r] = table[r] /\ (r \in late' <=> r \in late)
    BY <1>0, <1>1, <1>4, <2>1 DEF TypeOK
  <2>3. r \in Current
    BY <1>1, <2>2 DEF Current, Present, Passes
  <2>. QED BY <1>1, <2>2, <2>3, FollowedStays DEF TrackInv
<1>5. CASE r = w.row
  <2>1. ~Behind(w) /\ table'[r] = w.content
    BY <1>0, <1>1, <1>5 DEF Current, TypeOK
  <2>2. ASSUME NEW d \in Int, NEW id \in Nat, Passed(d, id)
        PROVE  w.content.d > d \/ (w.content.d = d /\ w.row > id)
    BY <1>0, <1>2, <1>3, <2>1, <2>2 DEF Passed, Behind
  <2>3. ASSUME NEW t \in {link.delta, link.first}
        PROVE  AfterDeltaToken(t, r, w.content)
    <3>1. TokenPassed(t) /\ t.last \in Int /\ t.key \in Nat
      BY <1>2 DEF HorizonInv
    <3>2. CASE t.key = NoKey
      <4>1. t.last < horizon.d /\ horizon.d <= w.content.d
        BY <1>2, <2>1, <3>1, <3>2 DEF TokenPassed, Behind
      <4>2. w.content.d > t.last
        BY <1>2, <3>1, <4>1
      <4>. QED BY <4>2 DEF AfterDeltaToken
    <3>3. CASE t.key # NoKey
      <4>1. Passed(t.last, t.key)
        BY <3>1, <3>3 DEF TokenPassed
      <4>2. w.content.d > t.last \/ (w.content.d = t.last /\ w.row > t.key)
        BY <2>2, <3>1, <4>1
      <4>. QED BY <1>5, <3>3, <4>2 DEF AfterDeltaToken
    <3>. QED BY <3>2, <3>3
  <2>4. (Due(link.delta, r))' /\ (Due(link.first, r))' /\ (Scope(r))'
    BY <1>1, <2>1, <2>3 DEF Due, Scope, AfterDeltaToken
  <2>5. Looking' => (Newer(r))'
    <3>. SUFFICES ASSUME Looking
                  PROVE  (Newer(r))'
      BY <1>1 DEF Looking
    <3>1. \A q \in Read : w.content.d > request.contents[q].d \/ (w.content.d = request.contents[q].d /\ r > q)
      <4>. SUFFICES ASSUME NEW q \in Read
                    PROVE  w.content.d > request.contents[q].d \/ (w.content.d = request.contents[q].d /\ r > q)
        OBVIOUS
      <4>1. q \in Nat /\ request.contents[q].d \in Nat /\ Passed(request.contents[q].d, q)
        BY <1>2 DEF HorizonInv
      <4>. QED BY <1>5, <2>2, <4>1
    <3>. QED BY <1>1, <2>1, <3>1 DEF Newer, Read
  <2>6. Looking' => (Later(r))'
    BY <2>4, <2>5 DEF Later
  <2>7. ~(Looking' /\ request' = Idle)
    BY DEF Looking, Idle
  <2>. QED BY <2>4, <2>6 DEF Followed
<1>. QED BY <1>4, <1>5

LEMMA TrackStays ==
    ASSUME BaseInv, HorizonInv, TrackInv, [Next]_vars
    PROVE  TrackInv'
<1>0. TypeOK
  BY DEF BaseInv
<1>1. CASE Refuse
  <2>1. /\ request' = Idle /\ link'.skip = NoToken /\ link'.delta = NoDelta /\ cfg' = cfg
    BY <1>1, NoTokens DEF Refuse
  <2>2. \A r : (Followed(r))'
    BY <2>1 DEF Followed, Looking, Idle
  <2>. QED BY <2>2 DEF TrackInv
<1>2. CASE ReadRows
  BY <1>2, TrackOnReadRows
<1>3. CASE LookUp
  <2>1. /\ Looking /\ Looking' /\ request'.rows = request.rows /\ request'.contents = request.contents
        /\ UNCHANGED <<cfg, table, link, view, late>>
    BY <1>3, WhatLookUpDoes
  <2>2. PICK q \in request.todo : request'.missing = request.missing \cup ({q} \ Present)
    BY <1>3, WhatLookUpDoes
  <2>3. request'.stage = request.stage /\ ((request' = Idle) <=> (request = Idle))
    BY <2>1 DEF Looking, Idle
  <2>4. ASSUME cfg.delta, NEW r \in Current
        PROVE  (Followed(r))'
    <3>1. Followed(r) /\ r \in Present
      BY <2>4 DEF TrackInv, Current
    <3>. QED BY <2>1, <2>2, <2>3, <3>1, FollowedStays
  <2>5. Current' = Current
    BY <2>1 DEF Current, Present, Passes
  <2>. QED BY <2>1, <2>4, <2>5 DEF TrackInv
<1>4. CASE Answer
  BY <1>4, TrackOnAnswer
<1>5. ASSUME NEW r \in cfg.rows, NEW s \in cfg.values, StartWrite(r, s)
      PROVE  TrackInv'
  <2>1. UNCHANGED <<cfg, table, request, link, view, late>>
    BY <1>5 DEF StartWrite
  <2>2. Current' = Current
    BY <2>1 DEF Current, Present, Passes
  <2>3. \A q \in Current : Followed(q) => (Followed(q))'
    BY <2>1, FollowedStays
  <2>. QED BY <2>1, <2>2, <2>3 DEF TrackInv
<1>6. ASSUME NEW r \in cfg.rows, NEW s \in cfg.values, WriteRow(r, s)
      PROVE  TrackInv'
  BY <1>6 DEF WriteRow, TrackInv
<1>7. ASSUME NEW w \in writes, Commit(w)
      PROVE  TrackInv'
  BY <1>7, TrackOnCommit
<1>8. ASSUME NEW r \in Row, Delete(r)
      PROVE  TrackInv'
  <2>1. /\ table' = [table EXCEPT ![r].s = Absent] /\ late' = late \ {r}
        /\ UNCHANGED <<cfg, request, link, view>>
    BY <1>8 DEF Delete
  <2>2. ~Is(table'[r])
    BY <1>8, BaseOnDelete
  <2>3. ASSUME cfg.delta, NEW q \in Current'
        PROVE  (Followed(q))'
    <3>1. q # r /\ q \in Row
      BY <2>2 DEF Current, Present
    <3>2. table'[q] = table[q]
      BY <1>0, <2>1, <3>1 DEF TypeOK
    <3>3. q \in Current
      BY <2>1, <3>1, <3>2 DEF Current, Present, Passes
    <3>. QED BY <2>1, <2>3, <3>2, <3>3, FollowedStays DEF TrackInv
  <2>. QED BY <2>1, <2>3 DEF TrackInv
<1>9. CASE UNCHANGED vars
  <2>1. UNCHANGED <<cfg, table, request, link, view, late>>
    BY <1>9 DEF vars
  <2>2. Current' = Current
    BY <2>1 DEF Current, Present, Passes
  <2>3. \A q \in Current : Followed(q) => (Followed(q))'
    BY <2>1, FollowedStays
  <2>. QED BY <2>1, <2>2, <2>3 DEF TrackInv
<1>. QED BY <1>1, <1>2, <1>3, <1>4, <1>5, <1>6, <1>7, <1>8, <1>9, Steps

\* A client that has followed its links knows each entity as it is, or its delta link
\* leads to it, unless the last write committed behind a stamp that could already be
\* read, or an empty first page was answered after it (buildDeltaPredicate,
\* createDeltaTokenForRows).
THEOREM OnlyLateIsMissed == Spec => []OnlyLateChangesAreMissed
<1>1. Init => BaseInv /\ HorizonInv /\ TrackInv
  <2>. SUFFICES ASSUME Init
                PROVE  BaseInv /\ HorizonInv /\ TrackInv
    OBVIOUS
  <2>1. request = Idle /\ link.skip = NoToken /\ link.delta = NoDelta
    BY NoTokens DEF Init
  <2>2. \A r : Followed(r)
    BY <2>1 DEF Followed, Looking, Idle
  <2>. QED BY <2>2, BaseAtFirst, HorizonAtFirst DEF TrackInv
<1>2. BaseInv /\ HorizonInv /\ TrackInv /\ [Next]_vars => BaseInv' /\ HorizonInv' /\ TrackInv'
  BY BaseStays, HorizonStays, TrackStays
<1>3. BaseInv /\ HorizonInv /\ TrackInv => OnlyLateChangesAreMissed
  <2>. SUFFICES ASSUME BaseInv, TrackInv, Complete, link.delta # NoDelta,
                       NEW r \in Present, Passes(table[r]), r \notin late
                PROVE  view[r] = table[r] \/ AfterDeltaToken(link.delta, r, table[r])
    BY DEF OnlyLateChangesAreMissed
  <2>1. cfg.delta
    BY DEF BaseInv, LinkInv
  <2>2. Followed(r)
    BY <2>1 DEF TrackInv, Current
  <2>. QED BY <2>2 DEF Followed, Told, Due
<1>. QED BY <1>1, <1>2, <1>3, PTL DEF Spec

==============================================================================
