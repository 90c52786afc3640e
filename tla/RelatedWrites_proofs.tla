------------------------- MODULE RelatedWrites_proofs -------------------------
(***************************************************************************)
(* What writes to related entities promise, for every set of entities,     *)
(* every payload and any number of requests: that a deep insert is whole   *)
(* and a failed write leaves nothing, that composed children stay below    *)
(* their parent, and that a link changes nothing but the link.             *)
(*                                                                         *)
(* BaseInv types the state and says what a transaction holds at each stage *)
(* of its request; it is inductive by itself.  Each promise has an         *)
(* invariant of its own on top of it.                                      *)
(***************************************************************************)
EXTENDS RelatedWrites, FiniteSetTheorems, SequenceTheorems, WellFoundedInduction, TLAPS

-----------------------------------------------------------------------------
(* The invariants.                                                         *)

\* Where a request stands: it writes once it is past its checks, and its rows
\* stay its own until it ends.
StageInv ==
    \A r \in Req :
        /\ handler[r].stage # "done" => handler[r].answer = "none"
        /\ handler[r].stage \in Kinds => handler[r].stage = Ask(r).kind
        /\ handler[r].stage = "replace" => Ask(r).kind \in {"link", "unlink"} /\ ~cfg.composed
        /\ handler[r].stage = "update" => Ask(r).kind = "patch"
        /\ handler[r].stage = "walk" => Ask(r).kind \in {"patch", "insert"}
        /\ handler[r].stage \notin {"walk", "commit"} \/ cfg.tx = "none" => DOMAIN dirty[r] = {}

LocksInv == \A q, r \in Req : q # r => DOMAIN dirty[q] \cap DOMAIN dirty[r] = {}

\* The ids in use: a fresh one is none of the first entities and none created.
UsedInv == DOMAIN cfg.rows \subseteq used /\ \A r \in Req : \A m \in made[r] : m.id \in used

BaseInv == TypeOK /\ StageInv /\ LocksInv /\ UsedInv

\* A parent that entity i may have: its own, or the one a PUT gives it.
MayBeBelow(i, parent) ==
    i \in DOMAIN cfg.rows =>
        \/ parent = cfg.rows[i]
        \/ \E q \in Req : Ask(q).kind = "put" /\ Ask(q).id = i /\ parent = Ask(q).parent

ComposedInv ==
    cfg.composed =>
        /\ \A i \in Id : MayBeBelow(i, table[i].parent)
        /\ \A r \in Req : \A i \in Id : MayBeBelow(i, snap[r][i].parent)
        /\ \A r \in Req : \A i \in DOMAIN dirty[r] : MayBeBelow(i, dirty[r][i].parent)
        /\ \A r \in Req : handler[r].stage = "update" => MayBeBelow(Ask(r).id, Ask(r).parent)

\* Before a transaction commits, nobody else has a row that its request wrote.
UncommittedInv ==
    cfg.tx # "none" =>
        \A r \in Req : handler[r].answer # "ok" =>
            /\ \A i \in Id : table[i].v # r
            /\ \A q \in Req : \A i \in Id : snap[q][i].v # r
            /\ \A q \in Req \ {r} : /\ handler[q].got.v # r
                                   /\ \A i \in DOMAIN dirty[q] : dirty[q][i].v # r

\* A snapshot is the present state of the rows nobody has touched since, and of
\* the rows written by this request; a link writes back what it has read there.
SnapshotInv ==
    cfg.tx = "snapshot" =>
        \A r \in Req :
            /\ Running(r) => \A i \in Id \ touched[r] : snap[r][i] = table[i]
            /\ DOMAIN dirty[r] \cap touched[r] = {}
            /\ handler[r].stage = "replace" =>
                  /\ handler[r].got.v = snap[r][handler[r].id].v
                  /\ Ask(r).kind = "unlink" => snap[r][handler[r].id].parent = Ask(r).parent
            /\ handler[r].stage = "commit" /\ Ask(r).kind \in {"link", "unlink"} =>
                  \A i \in DOMAIN dirty[r] :
                      /\ dirty[r][i].v = snap[r][i].v
                      /\ Ask(r).kind = "unlink" => snap[r][i].parent = Ask(r).parent

\* Count[s] is the number of nodes in the payloads s: it is one more than that of
\* what is left when the first node is replaced by its children.
Counting(Count) ==
    /\ Count \in [Seq(Nodes) -> Nat]
    /\ Count[<<>>] = 0
    /\ \A n \in Nodes, s \in Seq(Nodes) : Count[<<n>> \o s] = Count[n.nodes \o s] + 1

\* The size of a deep insert is that of its payload and its root.
Sized(Count) ==
    \A c \in Configs : \A r \in DOMAIN c.requests :
        c.requests[r].kind = "insert" => c.requests[r].size = Count[c.requests[r].nodes] + 1

\* The nodes a walk still has to visit, but for those below them.
NodesOf(todo) == [k \in 1..Len(todo) |-> todo[k].node]

\* A deep insert has created what it has visited, and its transaction holds it.
GraphInv(Count) ==
    \A r \in Req : Ask(r).kind = "insert" =>
        /\ IsFiniteSet(made[r])
        /\ handler[r].stage \in {"start", "insert"} => made[r] = {}
        /\ handler[r].stage = "walk" => Cardinality(made[r]) + Count[NodesOf(handler[r].todo)] = Ask(r).size
        /\ handler[r].stage = "commit" => Cardinality(made[r]) = Ask(r).size
        /\ handler[r].stage \in {"walk", "commit"} /\ cfg.tx # "none" =>
              \A m \in made[r] : /\ m.id \in DOMAIN dirty[r]
                                 /\ dirty[r][m.id] = [parent |-> m.parent, v |-> r]

-----------------------------------------------------------------------------
(* Configurations, payloads and ids.                                       *)

LEMMA ConfigType ==
    ASSUME cfg \in Configs
    PROVE  /\ cfg.tx \in {"none", "committed", "snapshot"} /\ cfg.composed \in BOOLEAN
           /\ DOMAIN cfg.rows \subseteq Id
           /\ \A i \in DOMAIN cfg.rows : cfg.rows[i] \in Id \cup {None}
           /\ Len(cfg.requests) \in Nat /\ Req = 1..Len(cfg.requests)
           /\ \A r \in Req : /\ Ask(r) \in Request
                             /\ Ask(r).kind \in {"link", "patch", "put"} => Ask(r).id \in Id
<1>1. cfg.requests \in Seq(Request)
  BY ConfigAssumption
<1>2. /\ Len(cfg.requests) \in Nat /\ Req = 1..Len(cfg.requests)
      /\ \A r \in Req : cfg.requests[r] \in Request
  BY <1>1, LenProperties DEF Req
<1> QED
  BY <1>2, ConfigAssumption DEF Req, Ask

LEMMA AskType ==
    ASSUME cfg \in Configs, NEW r \in Req
    PROVE  /\ r \in Nat \ {0} /\ r \in -1..Len(cfg.requests) /\ r \in Int
           /\ Ask(r).kind \in Kinds /\ Ask(r).nodes \in Seq(Nodes) /\ Ask(r).size \in Nat
           /\ Ask(r).id \in Id \cup {None} /\ Ask(r).parent \in Id \cup {None}
           /\ Ask(r).kind \in {"link", "patch", "put"} => Ask(r).id \in Id
BY ConfigType DEF Request

\* A row that is there is not the absent one.
LEMMA AbsentRow ==
    ASSUME cfg \in Configs
    PROVE  /\ Absent \in Row /\ None \notin Id /\ Absent.v = -1
           /\ \A i \in DOMAIN cfg.rows : [parent |-> cfg.rows[i], v |-> 0] \in Row
BY ConfigType, IdAssumption DEF Row, Absent, None

\* There is a next id as long as an id of the level is free.
LEMMA FreshIsFree ==
    ASSUME NEW level, {i \in Id : Level[i] = level} \ used # {}
    PROVE  Fresh(level) \in Id /\ Fresh(level) \notin used /\ Level[Fresh(level)] = level
<1> DEFINE free == {i \in Id : Level[i] = level} \ used
<1>1. free \subseteq Nat /\ free # {}
  BY IdAssumption
<1>2. PICK i \in free : \A j \in free : ~(<<j, i>> \in OpToRel(<, Nat))
  BY <1>1, NatLessThanWellFounded, WFMin
<1>5. ASSUME NEW j \in free PROVE i <= j
  <2>1. OpToRel(<, Nat) = {ss \in Nat \X Nat : ss[1] < ss[2]}
    BY DEF OpToRel
  <2>2. j < i => <<j, i>> \in {ss \in Nat \X Nat : ss[1] < ss[2]}
    BY <1>1
  <2>3. ~(j < i)
    BY <1>2, <2>1, <2>2
  <2> QED
    BY <1>1, <2>3
<1>3. \A j \in free : i <= j
  BY <1>5
<1>4. Fresh(level) \in free
  BY <1>3 DEF Fresh
<1> QED
  BY <1>4

\* The rows of a payload.
LEMMA TasksType ==
    ASSUME NEW nodes \in Seq(Nodes), NEW parent \in Id, NEW depth \in Nat
    PROVE  /\ Tasks(nodes, parent, depth) \in Seq(ToDo)
           /\ NodesOf(Tasks(nodes, parent, depth)) = nodes
<1>1. Len(nodes) \in Nat /\ nodes \in [1..Len(nodes) -> Nodes]
  BY LenProperties
<1> DEFINE tasks == Tasks(nodes, parent, depth)
<1>2. \A k \in 1..Len(nodes) : Task(nodes[k], parent, depth) \in ToDo
  BY <1>1 DEF Task, ToDo, None
<1>3. tasks \in [1..Len(nodes) -> ToDo]
  BY <1>2 DEF Tasks
<1>4. tasks \in Seq(ToDo)
  BY <1>1, <1>3, SeqDef
<1>5. Len(tasks) = Len(nodes)
  BY <1>1, <1>3, <1>4, LenProperties
<1>6. \A k \in 1..Len(nodes) : tasks[k].node = nodes[k]
  BY DEF Tasks, Task
<1> HIDE DEF tasks
<1>7. NodesOf(tasks) = [k \in 1..Len(nodes) |-> nodes[k]]
  BY <1>5, <1>6 DEF NodesOf
<1> QED
  BY <1>1, <1>4, <1>7 DEF tasks

\* The nodes of a list of tasks are a payload, and those of two lists their
\* concatenation.
LEMMA NodesOfType ==
    ASSUME NEW todo \in Seq(ToDo)
    PROVE  /\ NodesOf(todo) \in Seq(Nodes) /\ Len(NodesOf(todo)) = Len(todo)
           /\ \A k \in 1..Len(todo) : NodesOf(todo)[k] = todo[k].node
<1>1. Len(todo) \in Nat /\ todo \in [1..Len(todo) -> ToDo]
  BY LenProperties
<1>2. NodesOf(todo) \in [1..Len(todo) -> Nodes]
  BY <1>1 DEF NodesOf, ToDo
<1>3. NodesOf(todo) \in Seq(Nodes)
  BY <1>1, <1>2, SeqDef
<1> QED
  BY <1>1, <1>2, <1>3, LenProperties DEF NodesOf

LEMMA NodesOfConcat ==
    ASSUME NEW s \in Seq(ToDo), NEW t \in Seq(ToDo)
    PROVE  NodesOf(s \o t) = NodesOf(s) \o NodesOf(t)
<1>1. /\ s \o t \in Seq(ToDo) /\ Len(s) \in Nat /\ Len(t) \in Nat /\ Len(s \o t) = Len(s) + Len(t)
      /\ \A k \in 1..Len(s) + Len(t) : (s \o t)[k] = IF k <= Len(s) THEN s[k] ELSE t[k - Len(s)]
  BY ConcatProperties, LenProperties
<1>2. /\ NodesOf(s \o t) \in Seq(Nodes) /\ Len(NodesOf(s \o t)) = Len(s) + Len(t)
      /\ \A k \in 1..Len(s) + Len(t) : NodesOf(s \o t)[k] = (s \o t)[k].node
  BY <1>1, NodesOfType
<1>3. /\ NodesOf(s) \in Seq(Nodes) /\ Len(NodesOf(s)) = Len(s)
      /\ \A k \in 1..Len(s) : NodesOf(s)[k] = s[k].node
      /\ NodesOf(t) \in Seq(Nodes) /\ Len(NodesOf(t)) = Len(t)
      /\ \A k \in 1..Len(t) : NodesOf(t)[k] = t[k].node
  BY NodesOfType
<1>4. /\ NodesOf(s) \o NodesOf(t) \in Seq(Nodes)
      /\ Len(NodesOf(s) \o NodesOf(t)) = Len(s) + Len(t)
      /\ \A k \in 1..Len(s) + Len(t) :
            (NodesOf(s) \o NodesOf(t))[k] = IF k <= Len(s) THEN NodesOf(s)[k] ELSE NodesOf(t)[k - Len(s)]
  <2>1. PICK u \in Seq(Nodes), w \in Seq(Nodes) : u = NodesOf(s) /\ w = NodesOf(t)
    BY <1>3
  <2>2. /\ u \o w \in Seq(Nodes) /\ Len(u \o w) = Len(u) + Len(w)
        /\ \A k \in 1..Len(u) + Len(w) : (u \o w)[k] = IF k <= Len(u) THEN u[k] ELSE w[k - Len(u)]
    BY ConcatProperties
  <2> QED
    BY <1>3, <2>1, <2>2
<1>5. ASSUME NEW k \in 1..Len(s) + Len(t)
      PROVE  NodesOf(s \o t)[k] = (NodesOf(s) \o NodesOf(t))[k]
  <2>1. CASE k <= Len(s)
    <3>1. k \in 1..Len(s)
      BY <1>1, <2>1
    <3> QED
      BY <1>1, <1>2, <1>3, <1>4, <2>1, <3>1
  <2>2. CASE ~(k <= Len(s))
    <3>1. k - Len(s) \in 1..Len(t)
      BY <1>1, <2>2
    <3> QED
      BY <1>1, <1>2, <1>3, <1>4, <2>2, <3>1
  <2> QED
    BY <2>1, <2>2
<1> QED
  BY <1>2, <1>4, <1>5, SeqEqual

\* The first task and the others.
LEMMA FirstTask ==
    ASSUME NEW todo \in Seq(ToDo), todo # <<>>
    PROVE  /\ Head(todo) \in ToDo /\ Tail(todo) \in Seq(ToDo)
           /\ Head(todo).node \in Nodes /\ Head(todo).parent \in Id /\ Head(todo).depth \in Nat
           /\ Head(todo).found \in Id \cup {None}
           /\ Head(todo).step \in {"found", "patched"} => Head(todo).found \in Id
           /\ Head(todo).node.id \in Id \cup {New} /\ Head(todo).node.nodes \in Seq(Nodes)
           /\ NodesOf(todo) = <<Head(todo).node>> \o NodesOf(Tail(todo))
<1>1. Head(todo) \in ToDo /\ Tail(todo) \in Seq(ToDo)
  BY HeadTailProperties
<1>2. /\ Head(todo).node \in Nodes /\ Head(todo).parent \in Id /\ Head(todo).depth \in Nat
      /\ Head(todo).found \in Id \cup {None}
      /\ Head(todo).step \in {"found", "patched"} => Head(todo).found \in Id
  BY <1>1 DEF ToDo
<1>3. Head(todo).node.id \in Id \cup {New} /\ Head(todo).node.nodes \in Seq(Nodes)
  BY <1>2, PayloadAssumption
<1>4. todo = <<Head(todo)>> \o Tail(todo)
  BY HeadTailProperties
<1>5. <<Head(todo)>> \in Seq(ToDo)
  BY <1>1
<1>6. NodesOf(todo) = NodesOf(<<Head(todo)>>) \o NodesOf(Tail(todo))
  BY <1>1, <1>4, <1>5, NodesOfConcat
<1>7. NodesOf(<<Head(todo)>>) = <<Head(todo).node>>
  BY DEF NodesOf
<1> QED
  BY <1>1, <1>2, <1>3, <1>6, <1>7

-----------------------------------------------------------------------------
(* Statements.                                                             *)

LEMMA ViewType ==
    ASSUME TypeOK, NEW r \in Req, NEW i \in Id
    PROVE  /\ View(r)[i] \in Row
           /\ View(r)[i].parent \in Id \cup {None} /\ View(r)[i].v \in -1..Len(cfg.requests)
           /\ View(r)[i] = IF i \in DOMAIN dirty[r] THEN dirty[r][i]
                           ELSE IF cfg.tx = "snapshot" THEN snap[r][i] ELSE table[i]
<1>1. View(r)[i] = IF i \in DOMAIN dirty[r] THEN dirty[r][i]
                   ELSE IF cfg.tx = "snapshot" THEN snap[r][i] ELSE table[i]
  BY DEF View
<1>2. table[i] \in Row /\ snap[r][i] \in Row /\ (i \in DOMAIN dirty[r] => dirty[r][i] \in Row)
  BY DEF TypeOK
<1>3. View(r)[i] \in Row
  BY <1>1, <1>2
<1> QED
  BY <1>1, <1>3 DEF Row

\* The rows as a statement of r leaves them that writes row i.
Written(r, i, row) ==
    /\ i \in Id /\ row \in Row /\ cfg' = cfg
    /\ cfg.tx = "none" =>
          /\ \A j \in Id : table'[j] = IF j = i THEN row ELSE table[j]
          /\ dirty' = dirty
    /\ cfg.tx # "none" =>
          /\ table' = table /\ touched' = touched
          /\ \A q \in Req \ {r} : dirty'[q] = dirty[q]
          /\ DOMAIN dirty'[r] = DOMAIN dirty[r] \cup {i}
          /\ \A j \in DOMAIN dirty[r] \cup {i} : dirty'[r][j] = IF j = i THEN row ELSE dirty[r][j]
    /\ \A q \in Req \ {r} : i \notin DOMAIN dirty[q]
    /\ cfg.tx = "snapshot" => i \notin touched[r]
    /\ table' \in [Id -> Row] /\ touched' \in [Req -> SUBSET Id] /\ DOMAIN dirty' = Req
    /\ \A q \in Req : DOMAIN dirty'[q] \subseteq Id /\ dirty'[q] \in [DOMAIN dirty'[q] -> Row]

LEMMA WriteFacts ==
    ASSUME TypeOK, cfg' = cfg, NEW r \in Req, NEW i \in Id, NEW row \in Row, Write(r, i, row)
    PROVE  Written(r, i, row)
<1>1. /\ \A q \in Req \ {r} : i \notin DOMAIN dirty[q]
      /\ cfg.tx = "snapshot" => i \notin touched[r]
  BY DEF Write, MayWrite, Locked
<1>2. CASE cfg.tx = "none"
  <2>1. /\ table' = [table EXCEPT ![i] = row] /\ dirty' = dirty
        /\ touched' = [q \in Req |-> IF q = r THEN touched[q] ELSE touched[q] \cup {i}]
    BY <1>2 DEF Write
  <2>2. table' \in [Id -> Row] /\ \A j \in Id : table'[j] = IF j = i THEN row ELSE table[j]
    BY <2>1 DEF TypeOK
  <2>3. touched' \in [Req -> SUBSET Id]
    BY <2>1 DEF TypeOK
  <2> QED
    BY <1>1, <1>2, <2>1, <2>2, <2>3 DEF TypeOK, Written
<1>3. CASE cfg.tx # "none"
  <2>1. dirty' = [dirty EXCEPT ![r] = Put(dirty[r], i, row)] /\ table' = table /\ touched' = touched
    BY <1>3 DEF Write
  <2>2. /\ DOMAIN dirty' = Req /\ dirty'[r] = Put(dirty[r], i, row)
        /\ \A q \in Req \ {r} : dirty'[q] = dirty[q]
    BY <2>1 DEF TypeOK
  <2>3. /\ DOMAIN dirty'[r] = DOMAIN dirty[r] \cup {i}
        /\ \A j \in DOMAIN dirty[r] \cup {i} : dirty'[r][j] = IF j = i THEN row ELSE dirty[r][j]
        /\ dirty'[r] = [j \in DOMAIN dirty'[r] |-> dirty'[r][j]]
    BY <2>2 DEF Put
  <2>4. DOMAIN dirty[r] \subseteq Id /\ \A j \in DOMAIN dirty[r] : dirty[r][j] \in Row
    BY DEF TypeOK
  <2>5. \A q \in Req \ {r} : DOMAIN dirty'[q] \subseteq Id /\ dirty'[q] \in [DOMAIN dirty'[q] -> Row]
    BY <2>2 DEF TypeOK
  <2>6. \A j \in DOMAIN dirty'[r] : dirty'[r][j] \in Row
    BY <2>3, <2>4
  <2>7. DOMAIN dirty'[r] \subseteq Id /\ dirty'[r] \in [DOMAIN dirty'[r] -> Row]
    BY <2>3, <2>4, <2>6
  <2> QED
    BY <1>1, <1>3, <2>1, <2>2, <2>3, <2>5, <2>7 DEF TypeOK, Written
<1> QED
  BY <1>2, <1>3

-----------------------------------------------------------------------------
(* What each step does to its request.                                     *)

\* Only r moves, and its answer is still to come.
Moves(r) ==
    /\ cfg' = cfg /\ handler' \in [Req -> Handler]
    /\ \A q \in Req \ {r} : handler'[q] = handler[q]
    /\ handler'[r].answer = handler[r].answer

\* A step that only reads.
Reads(r) ==
    /\ Moves(r) /\ UNCHANGED <<table, used, dirty, touched, snap, made>>
    /\ \/ /\ handler[r].stage \in {"link", "unlink"} /\ ~cfg.composed
          /\ handler'[r].stage = "replace" /\ handler'[r].id \in Id
          /\ handler'[r].got.v = View(r)[handler'[r].id].v
          /\ handler[r].stage = "unlink" => View(r)[handler'[r].id].parent = Ask(r).parent
       \/ /\ handler'[r].got = handler[r].got
          /\ \/ /\ handler[r].stage = "patch" /\ handler'[r].stage = "update"
                /\ View(r)[Ask(r).id].parent = Ask(r).parent
             \/ /\ handler[r].stage \in {"patch", "update", "walk"} /\ handler'[r].stage = "walk"
                /\ Ask(r).kind = "patch"
             \/ /\ handler[r].stage = "walk" /\ handler'[r].stage = "commit"
                /\ handler[r].todo = <<>>

\* A step that writes a row that may be there already.
Updates(r, i, row) ==
    /\ Moves(r) /\ Written(r, i, row) /\ UNCHANGED <<used, snap, made>>
    /\ handler'[r].got = handler[r].got
    /\ \/ /\ handler[r].stage = "replace" /\ handler'[r].stage = "commit"
          /\ i = handler[r].id /\ row = handler[r].got
       \/ /\ handler[r].stage = "put" /\ handler'[r].stage = "commit"
          /\ i = Ask(r).id /\ row = [parent |-> Ask(r).parent, v |-> r]
       \/ /\ \/ handler[r].stage = "patch" /\ ~ForeignKeyGuarded(r)
             \/ handler[r].stage = "update"
          /\ handler'[r].stage = "walk" /\ i = Ask(r).id /\ row.v = r
          /\ row.parent = IF Ask(r).parent # None THEN Ask(r).parent ELSE View(r)[i].parent
       \/ /\ handler[r].stage = "walk" /\ handler'[r].stage = "walk" /\ Ask(r).kind = "patch"
          /\ row.v = r /\ row.parent = View(r)[i].parent

\* A step that creates entity i.
Creates(r, i, row) ==
    /\ Moves(r) /\ Written(r, i, row) /\ snap' = snap
    /\ handler'[r].got = handler[r].got /\ handler'[r].stage = "walk"
    /\ row.v = r /\ row = [parent |-> row.parent, v |-> r]
    /\ i \notin used /\ used' = used \cup {i}
    /\ made' = [made EXCEPT ![r] = made[r] \cup {[id |-> i, parent |-> row.parent]}]
    /\ \/ handler[r].stage = "insert" /\ NodesOf(handler'[r].todo) = Ask(r).nodes
       \/ /\ handler[r].stage = "walk"
          /\ \E n \in Nodes, s \in Seq(Nodes) :
                /\ NodesOf(handler[r].todo) = <<n>> \o s
                /\ NodesOf(handler'[r].todo) = n.nodes \o s

LEMMA HandlerChange ==
    ASSUME handler \in [Req -> Handler], cfg' = cfg, NEW r \in Req, NEW h \in Handler,
           handler' = [handler EXCEPT ![r] = h], h.answer = handler[r].answer
    PROVE  Moves(r) /\ handler'[r] = h
BY DEF Moves

\* The records a request goes through.
LEMMA HandlerFields ==
    ASSUME TypeOK, NEW r \in Req
    PROVE  /\ handler \in [Req -> Handler] /\ handler[r] \in Handler
           /\ handler[r] = [stage |-> handler[r].stage, answer |-> handler[r].answer,
                            id |-> handler[r].id, got |-> handler[r].got, todo |-> handler[r].todo]
           /\ handler[r].answer \in {"none", "ok", "error"} /\ handler[r].id \in Id \cup {None}
           /\ handler[r].got \in Row /\ handler[r].todo \in Seq(ToDo)
<1>1. handler \in [Req -> Handler] /\ handler[r] \in Handler
  BY DEF TypeOK
<1>2. PICK h \in Handler : h = handler[r]
  BY <1>1
<1>3. h = [stage |-> h.stage, answer |-> h.answer, id |-> h.id, got |-> h.got, todo |-> h.todo]
  BY DEF Handler
<1>4. /\ h.answer \in {"none", "ok", "error"} /\ h.id \in Id \cup {None}
      /\ h.got \in Row /\ h.todo \in Seq(ToDo)
  BY DEF Handler
<1> QED
  BY <1>1, <1>2, <1>3, <1>4

LEMMA RecordsChange ==
    ASSUME NEW S, NEW T, NEW f \in [S -> T], NEW r \in S, NEW x, NEW y, NEW z
    PROVE  /\ [f EXCEPT ![r].stage = x, ![r].todo = y]
                = [f EXCEPT ![r] = [[f[r] EXCEPT !.stage = x] EXCEPT !.todo = y]]
           /\ [f EXCEPT ![r].stage = x, ![r].answer = y]
                = [f EXCEPT ![r] = [[f[r] EXCEPT !.stage = x] EXCEPT !.answer = y]]
           /\ [f EXCEPT ![r].stage = x, ![r].id = y, ![r].got = z]
                = [f EXCEPT ![r] = [[[f[r] EXCEPT !.stage = x] EXCEPT !.id = y] EXCEPT !.got = z]]
OBVIOUS

\* A request goes to another stage, its walk to other tasks, or both.
LEMMA StageMoves ==
    ASSUME TypeOK, cfg' = cfg, NEW r \in Req,
           NEW stage \in Kinds \cup {"start", "replace", "update", "walk", "commit", "done"},
           handler' = [handler EXCEPT ![r].stage = stage]
    PROVE  /\ Moves(r) /\ handler'[r].stage = stage
           /\ handler'[r].todo = handler[r].todo /\ handler'[r].got = handler[r].got
<1>1. PICK h \in Handler : h = handler[r]
  BY HandlerFields
<1>2. [h EXCEPT !.stage = stage]
        = [stage |-> stage, answer |-> h.answer, id |-> h.id, got |-> h.got, todo |-> h.todo]
  BY DEF Handler
<1>3. [h EXCEPT !.stage = stage] \in Handler
  BY <1>2 DEF Handler
<1>4. handler' = [handler EXCEPT ![r] = [h EXCEPT !.stage = stage]]
  BY <1>1
<1>5. handler \in [Req -> Handler]
  BY HandlerFields
<1>6. Moves(r) /\ handler'[r] = [h EXCEPT !.stage = stage]
  BY <1>1, <1>2, <1>3, <1>4, <1>5, HandlerChange
<1> QED
  BY <1>1, <1>2, <1>6

LEMMA TodoMoves ==
    ASSUME TypeOK, cfg' = cfg, NEW r \in Req, NEW todo \in Seq(ToDo),
           handler' = [handler EXCEPT ![r].todo = todo]
    PROVE  /\ Moves(r) /\ handler'[r].stage = handler[r].stage
           /\ handler'[r].todo = todo /\ handler'[r].got = handler[r].got
<1>1. PICK h \in Handler : h = handler[r]
  BY HandlerFields
<1>2. [h EXCEPT !.todo = todo]
        = [stage |-> h.stage, answer |-> h.answer, id |-> h.id, got |-> h.got, todo |-> todo]
  BY DEF Handler
<1>3. [h EXCEPT !.todo = todo] \in Handler
  BY <1>2 DEF Handler
<1>4. handler' = [handler EXCEPT ![r] = [h EXCEPT !.todo = todo]]
  BY <1>1
<1>5. handler \in [Req -> Handler]
  BY HandlerFields
<1>6. Moves(r) /\ handler'[r] = [h EXCEPT !.todo = todo]
  BY <1>1, <1>2, <1>3, <1>4, <1>5, HandlerChange
<1> QED
  BY <1>1, <1>2, <1>6

WalksOn(r, stage, todo) == [handler EXCEPT ![r].stage = stage, ![r].todo = todo]

LEMMA StageTodoMoves ==
    ASSUME TypeOK, cfg' = cfg, NEW r \in Req,
           NEW stage \in Kinds \cup {"start", "replace", "update", "walk", "commit", "done"},
           NEW todo \in Seq(ToDo),
           handler' = WalksOn(r, stage, todo)
    PROVE  /\ Moves(r) /\ handler'[r].stage = stage
           /\ handler'[r].todo = todo /\ handler'[r].got = handler[r].got
<1>1. PICK h \in Handler : h = handler[r]
  BY HandlerFields
<1> DEFINE g == [stage |-> stage, answer |-> h.answer, id |-> h.id, got |-> h.got, todo |-> todo]
<1>2. h = [stage |-> h.stage, answer |-> h.answer, id |-> h.id, got |-> h.got, todo |-> h.todo]
  BY DEF Handler
<1>3. [[h EXCEPT !.stage = stage] EXCEPT !.todo = todo] = g
  <2>1. PICK k : k = [h EXCEPT !.stage = stage]
    OBVIOUS
  <2>2. k = [stage |-> stage, answer |-> h.answer, id |-> h.id, got |-> h.got, todo |-> h.todo]
    BY <1>2, <2>1
  <2>3. [k EXCEPT !.todo = todo] = g
    BY <2>2
  <2> QED
    BY Zenon, <2>1, <2>3
<1>4. g \in Handler
  BY DEF Handler
<1>5. handler \in [Req -> Handler]
  BY HandlerFields
<1>6. handler' = [handler EXCEPT ![r] = [[h EXCEPT !.stage = stage] EXCEPT !.todo = todo]]
  <2>1. [handler EXCEPT ![r].stage = stage, ![r].todo = todo]
          = [handler EXCEPT ![r] = [[handler[r] EXCEPT !.stage = stage] EXCEPT !.todo = todo]]
    BY Zenon, <1>5, RecordsChange
  <2> QED
    BY Zenon, <1>1, <2>1 DEF WalksOn
<1>7. handler' = [handler EXCEPT ![r] = g]
  BY <1>3, <1>6
<1>8. Moves(r) /\ handler'[r] = g
  BY <1>1, <1>4, <1>5, <1>7, HandlerChange
<1> QED
  BY <1>1, <1>8

\* linkNavigationRef and unlinkNavigationRef go on with the row they have read.
TargetRead(r, i, row) == [handler EXCEPT ![r].stage = "replace", ![r].id = i, ![r].got = row]

LEMMA TargetMoves ==
    ASSUME TypeOK, cfg' = cfg, NEW r \in Req, NEW i \in Id, NEW row \in Row,
           handler' = TargetRead(r, i, row)
    PROVE  /\ Moves(r) /\ handler'[r].stage = "replace"
           /\ handler'[r].id = i /\ handler'[r].got = row
<1>1. PICK h \in Handler : h = handler[r]
  BY HandlerFields
<1> DEFINE g == [stage |-> "replace", answer |-> h.answer, id |-> i, got |-> row, todo |-> h.todo]
<1>2. h = [stage |-> h.stage, answer |-> h.answer, id |-> h.id, got |-> h.got, todo |-> h.todo]
  BY DEF Handler
<1>3. [[[h EXCEPT !.stage = "replace"] EXCEPT !.id = i] EXCEPT !.got = row] = g
  <2>1. PICK k : k = [h EXCEPT !.stage = "replace"]
    OBVIOUS
  <2>2. k = [stage |-> "replace", answer |-> h.answer, id |-> h.id, got |-> h.got, todo |-> h.todo]
    BY <1>2, <2>1
  <2>3. PICK m : m = [k EXCEPT !.id = i]
    OBVIOUS
  <2>4. m = [stage |-> "replace", answer |-> h.answer, id |-> i, got |-> h.got, todo |-> h.todo]
    BY <2>2, <2>3
  <2>5. [m EXCEPT !.got = row] = g
    BY <2>4
  <2> QED
    BY Zenon, <2>1, <2>3, <2>5
<1>4. g \in Handler
  BY DEF Handler
<1>5. handler \in [Req -> Handler]
  BY HandlerFields
<1>6. handler' = [handler EXCEPT ![r] =
                    [[[h EXCEPT !.stage = "replace"] EXCEPT !.id = i] EXCEPT !.got = row]]
  <2>1. [handler EXCEPT ![r].stage = "replace", ![r].id = i, ![r].got = row]
          = [handler EXCEPT ![r] =
                    [[[handler[r] EXCEPT !.stage = "replace"] EXCEPT !.id = i] EXCEPT !.got = row]]
    BY Zenon, <1>5, RecordsChange
  <2> QED
    BY Zenon, <1>1, <2>1 DEF TargetRead
<1>7. handler' = [handler EXCEPT ![r] = g]
  BY <1>3, <1>6
<1>8. Moves(r) /\ handler'[r] = g
  BY <1>1, <1>4, <1>5, <1>7, HandlerChange
<1> QED
  BY <1>1, <1>8

\* A request ends: what its transaction wrote is forgotten.
Ends(r, answer) ==
    /\ cfg' = cfg /\ handler' \in [Req -> Handler] /\ handler'[r].got = handler[r].got
    /\ handler'[r].stage = "done" /\ handler'[r].answer = answer
    /\ \A q \in Req \ {r} : handler'[q] = handler[q]
    /\ DOMAIN dirty' = Req /\ DOMAIN dirty'[r] = {} /\ dirty'[r] \in [{} -> Row]
    /\ \A q \in Req \ {r} : dirty'[q] = dirty[q]
    /\ UNCHANGED <<used, snap, made>>

LEMMA EndFacts ==
    ASSUME TypeOK, cfg' = cfg, NEW r \in Req, NEW answer \in {"ok", "error"},
           handler' = [handler EXCEPT ![r].stage = "done", ![r].answer = answer],
           dirty' = [dirty EXCEPT ![r] = [i \in {} |-> Absent]], UNCHANGED <<used, snap, made>>
    PROVE  Ends(r, answer)
<1>1. PICK h \in Handler : h = handler[r]
  BY HandlerFields
<1> DEFINE g == [stage |-> "done", answer |-> answer, id |-> h.id, got |-> h.got, todo |-> h.todo]
<1>2. h = [stage |-> h.stage, answer |-> h.answer, id |-> h.id, got |-> h.got, todo |-> h.todo]
  BY DEF Handler
<1>3. [[h EXCEPT !.stage = "done"] EXCEPT !.answer = answer] = g
  <2>1. PICK k : k = [h EXCEPT !.stage = "done"]
    OBVIOUS
  <2>2. k = [stage |-> "done", answer |-> h.answer, id |-> h.id, got |-> h.got, todo |-> h.todo]
    BY <1>2, <2>1
  <2>3. [k EXCEPT !.answer = answer] = g
    BY <2>2
  <2> QED
    BY Zenon, <2>1, <2>3
<1>4. g \in Handler
  BY DEF Handler
<1>5. handler \in [Req -> Handler]
  BY HandlerFields
<1>6. handler' = [handler EXCEPT ![r] = [[h EXCEPT !.stage = "done"] EXCEPT !.answer = answer]]
  <2>1. [handler EXCEPT ![r].stage = "done", ![r].answer = answer]
          = [handler EXCEPT ![r] = [[handler[r] EXCEPT !.stage = "done"] EXCEPT !.answer = answer]]
    BY Zenon, <1>5, RecordsChange
  <2> QED
    BY Zenon, <1>1, <2>1 DEF WalksOn, TargetRead
<1>7. handler' = [handler EXCEPT ![r] = g]
  BY <1>3, <1>6
<1>8. /\ handler' \in [Req -> Handler] /\ handler'[r] = g
      /\ \A q \in Req \ {r} : handler'[q] = handler[q]
  BY <1>4, <1>5, <1>7
<1>9. /\ DOMAIN dirty' = Req /\ dirty'[r] = [i \in {} |-> Absent]
      /\ \A q \in Req \ {r} : dirty'[q] = dirty[q]
  BY DEF TypeOK
<1>10. DOMAIN dirty'[r] = {} /\ dirty'[r] \in [{} -> Row]
  BY <1>9
<1> QED
  BY <1>1, <1>8, <1>9, <1>10 DEF Ends

\* What a rollback leaves.
Fails(r) ==
    /\ handler[r].stage # "done" /\ Ends(r, "error") /\ table' = table /\ touched' = touched

LEMMA FailFacts ==
    ASSUME TypeOK, NEW r \in Req, Fail(r), handler[r].stage # "done"
    PROVE  Fails(r)
<1>1. /\ cfg' = cfg /\ handler' = [handler EXCEPT ![r].stage = "done", ![r].answer = "error"]
      /\ dirty' = [dirty EXCEPT ![r] = [i \in {} |-> Absent]]
      /\ UNCHANGED <<table, used, touched, snap, made>>
  BY DEF Fail
<1> QED
  BY <1>1, EndFacts DEF Fails

LEMMA DescendMoves ==
    ASSUME TypeOK, cfg' = cfg, NEW r \in Req, Walking(r), NEW i \in Id, handler' = Descended(r, i)
    PROVE  /\ Moves(r) /\ handler'[r].stage = "walk" /\ handler'[r].got = handler[r].got
           /\ \E n \in Nodes, s \in Seq(Nodes) :
                 /\ NodesOf(handler[r].todo) = <<n>> \o s
                 /\ NodesOf(handler'[r].todo) = n.nodes \o s
<1>1. PICK todo \in Seq(ToDo) : todo = handler[r].todo /\ todo # <<>>
  BY HandlerFields DEF Walking
<1>2. PICK n \in Nodes : n = Head(todo).node
  BY <1>1, FirstTask
<1>3. n.nodes \in Seq(Nodes) /\ Head(todo).depth + 1 \in Nat
  <2>1. Head(todo).depth \in Nat
    BY <1>1, FirstTask
  <2> QED
    BY <2>1, PayloadAssumption
<1>4. PICK rest \in Seq(ToDo) : rest = Tail(todo)
  BY <1>1, FirstTask
<1>5. PICK tasks \in Seq(ToDo) : /\ tasks = Tasks(n.nodes, i, Head(todo).depth + 1)
                                /\ NodesOf(tasks) = n.nodes
  BY <1>3, TasksType
<1>6. tasks \o rest \in Seq(ToDo) /\ NodesOf(tasks \o rest) = n.nodes \o NodesOf(rest)
  BY <1>5, ConcatProperties, NodesOfConcat
<1>7. handler' = [handler EXCEPT ![r].todo = tasks \o rest]
  BY <1>1, <1>2, <1>4, <1>5 DEF Descended, Current
<1>8. /\ Moves(r) /\ handler'[r].stage = handler[r].stage
      /\ handler'[r].todo = tasks \o rest /\ handler'[r].got = handler[r].got
  BY <1>6, <1>7, TodoMoves
<1>9. NodesOf(todo) = <<n>> \o NodesOf(rest) /\ NodesOf(rest) \in Seq(Nodes)
  BY <1>1, <1>2, <1>4, FirstTask, NodesOfType
<1> QED
  BY <1>1, <1>6, <1>8, <1>9 DEF Walking

LEMMA StepMoves ==
    ASSUME TypeOK, cfg' = cfg, NEW r \in Req, Walking(r),
           NEW step \in {"new", "none", "found", "patched"}, NEW found \in Id \cup {None},
           step \in {"found", "patched"} => found \in Id, handler' = Stepped(r, step, found)
    PROVE  Moves(r) /\ handler'[r].stage = "walk" /\ handler'[r].got = handler[r].got
<1>1. PICK todo \in Seq(ToDo) : todo = handler[r].todo /\ todo # <<>>
  BY HandlerFields DEF Walking
<1>2. Head(todo) \in ToDo /\ Tail(todo) \in Seq(ToDo)
  BY <1>1, FirstTask
<1>3. [Head(todo) EXCEPT !.step = step, !.found = found] \in ToDo
  <2>1. PICK t \in ToDo : t = Head(todo)
    BY <1>2
  <2>2. t = [node |-> t.node, parent |-> t.parent, depth |-> t.depth, found |-> t.found, step |-> t.step]
    BY DEF ToDo
  <2>3. PICK u : u = [t EXCEPT !.step = step]
    OBVIOUS
  <2>4. u = [node |-> t.node, parent |-> t.parent, depth |-> t.depth, found |-> t.found, step |-> step]
    BY <2>2, <2>3
  <2>5. [u EXCEPT !.found = found]
          = [node |-> t.node, parent |-> t.parent, depth |-> t.depth, found |-> found, step |-> step]
    BY <2>4
  <2>6. [u EXCEPT !.found = found] \in ToDo
    BY <2>5 DEF ToDo
  <2> QED
    BY Zenon, <2>1, <2>3, <2>6
<1>4. PICK t \in ToDo : t = [Head(todo) EXCEPT !.step = step, !.found = found]
  BY <1>3
<1>5. <<t>> \o Tail(todo) \in Seq(ToDo)
  BY <1>2, ConcatProperties
<1>6. handler' = [handler EXCEPT ![r].todo = <<t>> \o Tail(todo)]
  BY <1>1, <1>4 DEF Stepped
<1>7. Moves(r) /\ handler'[r].stage = handler[r].stage /\ handler'[r].got = handler[r].got
  BY <1>5, <1>6, TodoMoves
<1> QED
  BY <1>7 DEF Walking

LEMMA CreateFacts ==
    ASSUME TypeOK, cfg' = cfg, NEW r \in Req, NEW parent \in Id \cup {None}, NEW level,
           Create(r, parent, level)
    PROVE  /\ Fresh(level) \in Id \ used
           /\ Written(r, Fresh(level), [parent |-> parent, v |-> r])
           /\ used' = used \cup {Fresh(level)}
           /\ made' = [made EXCEPT ![r] = made[r] \cup {[id |-> Fresh(level), parent |-> parent]}]
<1>1. cfg \in Configs
  BY DEF TypeOK
<1>2. Fresh(level) \in Id \ used
  BY FreshIsFree DEF Create
<1>3. [parent |-> parent, v |-> r] \in Row
  BY <1>1, AskType DEF Row
<1>4. /\ Write(r, Fresh(level), [parent |-> parent, v |-> r]) /\ used' = used \cup {Fresh(level)}
      /\ made' = [made EXCEPT ![r] = made[r] \cup {[id |-> Fresh(level), parent |-> parent]}]
  BY DEF Create
<1> QED
  BY <1>2, <1>3, <1>4, WriteFacts

\* What the request of a step was about to do.
LEMMA AskedFor ==
    ASSUME TypeOK, StageInv, NEW r \in Req
    PROVE  /\ r \in -1..Len(cfg.requests) /\ Ask(r).parent \in Id \cup {None} /\ Ask(r).nodes \in Seq(Nodes)
           /\ Ask(r).kind \in Kinds
           /\ handler[r].stage \in {"link", "patch", "put", "update"} => Ask(r).id \in Id
           /\ handler[r].stage = "insert" => Ask(r).kind = "insert"
           /\ handler[r].stage = "unlink" => Ask(r).kind = "unlink"
<1>1. cfg \in Configs
  BY DEF TypeOK
<1>2. /\ handler[r].stage \in Kinds => handler[r].stage = Ask(r).kind
      /\ handler[r].stage = "update" => Ask(r).kind = "patch"
  BY DEF StageInv
<1> QED
  BY <1>1, <1>2, AskType DEF Kinds

-----------------------------------------------------------------------------
(* The actions.                                                            *)

LEMMA LinkSteps ==
    ASSUME TypeOK, StageInv, NEW r \in Req, Link(r)
    PROVE  Fails(r) \/ Reads(r) \/ (\E i \in Id, row \in Row : Updates(r, i, row))
<1>1. CASE RefuseComposition(r)
  BY <1>1, FailFacts DEF RefuseComposition
<1>2. CASE NotThere(r)
  BY <1>2, FailFacts DEF NotThere
<1>3. CASE ReadTarget(r)
  <2>1. /\ handler[r].stage = "link" /\ ~cfg.composed
        /\ UNCHANGED <<cfg, table, used, dirty, touched, snap, made>>
    BY <1>3 DEF ReadTarget
  <2>2. PICK i \in Id : i = Ask(r).id
    BY <2>1, AskedFor
  <2>3. PICK row \in Row : row = View(r)[i]
    BY ViewType
  <2>4. [row EXCEPT !.parent = Ask(r).parent] = [parent |-> Ask(r).parent, v |-> row.v]
    BY DEF Row
  <2>5. PICK new \in Row : new = [row EXCEPT !.parent = Ask(r).parent] /\ new.v = row.v
    BY <2>4, AskedFor DEF Row
  <2>6. handler' = TargetRead(r, i, new)
    <3>1. handler' = [handler EXCEPT ![r].stage = "replace", ![r].id = Ask(r).id,
                          ![r].got = [View(r)[Ask(r).id] EXCEPT !.parent = Ask(r).parent]]
      BY <1>3 DEF ReadTarget
    <3> QED
      BY Zenon, <2>2, <2>3, <2>5, <3>1 DEF TargetRead
  <2>7. /\ Moves(r) /\ handler'[r].stage = "replace"
        /\ handler'[r].id = i /\ handler'[r].got = new
    BY <2>1, <2>6, TargetMoves
  <2> QED
    BY <2>1, <2>3, <2>5, <2>7 DEF Reads
<1>4. CASE ReadLinked(r)
  <2>1. /\ handler[r].stage = "unlink" /\ ~cfg.composed
        /\ UNCHANGED <<cfg, table, used, dirty, touched, snap, made>>
    BY <1>4 DEF ReadLinked
  <2>2. PICK i \in Id :
            /\ View(r)[i].parent = Ask(r).parent
            /\ handler' = [handler EXCEPT ![r].stage = "replace", ![r].id = i,
                                          ![r].got = [View(r)[i] EXCEPT !.parent = None]]
    BY <1>4 DEF ReadLinked, Linked, Below
  <2>3. PICK row \in Row : row = View(r)[i]
    BY ViewType
  <2>4. [row EXCEPT !.parent = None] = [parent |-> None, v |-> row.v]
    BY DEF Row
  <2>5. PICK new \in Row : new = [row EXCEPT !.parent = None] /\ new.v = row.v
    BY <2>4 DEF Row
  <2>6. handler' = TargetRead(r, i, new)
    BY Zenon, <2>2, <2>3, <2>5 DEF TargetRead
  <2>7. /\ Moves(r) /\ handler'[r].stage = "replace"
        /\ handler'[r].id = i /\ handler'[r].got = new
    BY <2>1, <2>6, TargetMoves
  <2> QED
    BY <2>1, <2>2, <2>3, <2>5, <2>7 DEF Reads
<1>5. CASE Replace(r)
  <2>1. /\ handler[r].stage = "replace" /\ Write(r, handler[r].id, handler[r].got)
        /\ handler' = [handler EXCEPT ![r].stage = "commit"] /\ UNCHANGED <<cfg, used, snap, made>>
    BY <1>5 DEF Replace, Goes
  <2>2. handler[r].id \in Id /\ handler[r].got \in Row
    BY <2>1, HandlerFields DEF TypeOK
  <2>3. Written(r, handler[r].id, handler[r].got)
    BY <2>1, <2>2, WriteFacts
  <2>4. Moves(r) /\ handler'[r].stage = "commit" /\ handler'[r].got = handler[r].got
    BY <2>1, StageMoves
  <2>5. Updates(r, handler[r].id, handler[r].got)
    BY <2>1, <2>3, <2>4 DEF Updates
  <2> QED
    BY <2>2, <2>5
<1> QED
  BY <1>1, <1>2, <1>3, <1>4, <1>5 DEF Link

LEMMA EntitySteps ==
    ASSUME TypeOK, StageInv, NEW r \in Req, Entity(r)
    PROVE  \/ Fails(r) \/ Reads(r)
           \/ \E i \in Id, row \in Row : Updates(r, i, row) \/ Creates(r, i, row)
<1>1. CASE EntityGone(r)
  BY <1>1, FailFacts DEF EntityGone
<1>2. CASE PutEntity(r)
  <2>1. /\ handler[r].stage = "put" /\ Write(r, Ask(r).id, [parent |-> Ask(r).parent, v |-> r])
        /\ handler' = [handler EXCEPT ![r].stage = "commit"] /\ UNCHANGED <<cfg, used, snap, made>>
    BY <1>2 DEF PutEntity, Goes
  <2>2. PICK i \in Id : i = Ask(r).id
    BY <2>1, AskedFor
  <2>3. PICK row \in Row : row = [parent |-> Ask(r).parent, v |-> r]
    BY AskedFor DEF Row
  <2>4. Written(r, i, row)
    BY <2>1, <2>2, <2>3, WriteFacts
  <2>5. Moves(r) /\ handler'[r].stage = "commit" /\ handler'[r].got = handler[r].got
    BY <2>1, StageMoves
  <2>6. Updates(r, i, row)
    BY <2>1, <2>2, <2>3, <2>4, <2>5 DEF Updates
  <2> QED
    BY <2>6
<1>3. CASE CheckForeignKey(r)
  <2>1. handler[r].stage = "patch"
    BY <1>3 DEF CheckForeignKey
  <2>2. CASE Is(View(r)[Ask(r).id]) /\ View(r)[Ask(r).id].parent = Ask(r).parent
    <3>1. /\ handler' = [handler EXCEPT ![r].stage = "update"]
          /\ UNCHANGED <<cfg, table, used, dirty, touched, snap, made>>
      BY <1>3, <2>2 DEF CheckForeignKey, Goes
    <3>2. Moves(r) /\ handler'[r].stage = "update" /\ handler'[r].got = handler[r].got
      BY <3>1, StageMoves
    <3> QED
      BY <2>1, <2>2, <3>1, <3>2 DEF Reads
  <2>3. CASE ~(Is(View(r)[Ask(r).id]) /\ View(r)[Ask(r).id].parent = Ask(r).parent)
    <3>1. Fail(r)
      BY <1>3, <2>3 DEF CheckForeignKey
    <3> QED
      BY <2>1, <3>1, FailFacts
  <2> QED
    BY <2>2, <2>3
<1>4. CASE UpdateEntity(r)
  <2>1. /\ \/ handler[r].stage = "patch" /\ ~ForeignKeyGuarded(r)
           \/ handler[r].stage = "update"
        /\ \/ Nothing
           \/ Write(r, Ask(r).id, [parent |-> IF Ask(r).parent # None THEN Ask(r).parent
                                              ELSE View(r)[Ask(r).id].parent, v |-> r])
        /\ handler' = [handler EXCEPT ![r].stage = "walk",
                                      ![r].todo = Tasks(Ask(r).nodes, Ask(r).id, 0)]
        /\ UNCHANGED <<cfg, used, snap, made>>
    BY <1>4 DEF UpdateEntity
  <2>2. PICK i \in Id : i = Ask(r).id
    BY <2>1, AskedFor
  <2>3. PICK todo \in Seq(ToDo) : todo = Tasks(Ask(r).nodes, i, 0)
    BY AskedFor, TasksType
  <2>4. handler' = WalksOn(r, "walk", todo)
    BY <2>1, <2>2, <2>3 DEF WalksOn
  <2>5. Moves(r) /\ handler'[r].stage = "walk" /\ handler'[r].got = handler[r].got
    BY <2>1, <2>4, StageTodoMoves
  <2>6. CASE Nothing
    <3>1. Ask(r).kind = "patch"
      BY <2>1 DEF StageInv, Kinds
    <3>2. handler[r].stage \in {"patch", "update", "walk"}
      BY <2>1
    <3> QED
      BY <2>1, <2>5, <2>6, <3>1, <3>2 DEF Nothing, Reads
  <2>7. CASE Write(r, Ask(r).id, [parent |-> IF Ask(r).parent # None THEN Ask(r).parent
                                             ELSE View(r)[Ask(r).id].parent, v |-> r])
    <3>1. PICK parent \in Id \cup {None} :
              parent = IF Ask(r).parent # None THEN Ask(r).parent ELSE View(r)[i].parent
      BY AskedFor, ViewType
    <3>2. PICK row \in Row : row = [parent |-> parent, v |-> r]
      BY AskedFor DEF Row
    <3>3. Write(r, i, row)
      BY <2>2, <2>7, <3>1, <3>2
    <3>4. Written(r, i, row)
      BY <2>1, <3>3, WriteFacts
    <3>5. row.v = r /\ row.parent = IF Ask(r).parent # None THEN Ask(r).parent ELSE View(r)[i].parent
      BY <3>1, <3>2
    <3> QED
      BY <2>1, <2>2, <2>5, <3>4, <3>5 DEF Updates
  <2> QED
    BY <2>1, <2>6, <2>7
<1>5. CASE CreateRoot(r)
  <2>1. /\ handler[r].stage = "insert" /\ Create(r, Ask(r).parent, 0)
        /\ handler' = [handler EXCEPT ![r].stage = "walk",
                                      ![r].todo = Tasks(Ask(r).nodes, Fresh(0), 1)]
        /\ UNCHANGED <<cfg, snap>>
    BY <1>5 DEF CreateRoot
  <2>2. PICK parent \in Id \cup {None} : parent = Ask(r).parent
    BY AskedFor
  <2>3. /\ Fresh(0) \in Id \ used /\ Written(r, Fresh(0), [parent |-> parent, v |-> r])
        /\ used' = used \cup {Fresh(0)}
        /\ made' = [made EXCEPT ![r] = made[r] \cup {[id |-> Fresh(0), parent |-> parent]}]
    BY <2>1, <2>2, CreateFacts
  <2>4. PICK i \in Id \ used : i = Fresh(0)
    BY <2>3
  <2>5. PICK todo \in Seq(ToDo) : todo = Tasks(Ask(r).nodes, i, 1) /\ NodesOf(todo) = Ask(r).nodes
    BY AskedFor, TasksType
  <2>6. handler' = WalksOn(r, "walk", todo)
    BY <2>1, <2>4, <2>5 DEF WalksOn
  <2>7. /\ Moves(r) /\ handler'[r].stage = "walk" /\ handler'[r].todo = todo
        /\ handler'[r].got = handler[r].got
    <3>1. cfg' = cfg
      BY <2>1
    <3>2. "walk" \in Kinds \cup {"start", "replace", "update", "walk", "commit", "done"}
      OBVIOUS
    <3> QED
      BY <2>6, <3>1, <3>2, StageTodoMoves
  <2>8. PICK row \in Row : row = [parent |-> parent, v |-> r]
    BY AskedFor DEF Row
  <2>9. Written(r, i, row)
    BY <2>3, <2>4, <2>8
  <2>10. row.v = r /\ row.parent = parent
    BY <2>8
  <2>11. used' = used \cup {i} /\ made' = [made EXCEPT ![r] = made[r] \cup {[id |-> i, parent |-> row.parent]}]
    BY <2>3, <2>4, <2>10
  <2>12. row = [parent |-> row.parent, v |-> r] /\ snap' = snap /\ i \notin used
    BY <2>1, <2>4, <2>8, <2>10
  <2>13. NodesOf(handler'[r].todo) = Ask(r).nodes
    BY <2>5, <2>7
  <2>14. Creates(r, i, row)
    BY <2>1, <2>7, <2>9, <2>10, <2>11, <2>12, <2>13 DEF Creates
  <2> QED
    BY <2>14
<1> QED
  BY <1>1, <1>2, <1>3, <1>4, <1>5 DEF Entity

LEMMA WalkSteps ==
    ASSUME TypeOK, StageInv, NEW r \in Req, Walk(r)
    PROVE  \/ Fails(r) \/ Reads(r)
           \/ \E i \in Id, row \in Row : Updates(r, i, row) \/ Creates(r, i, row)
<1>1. CASE RefuseNode(r)
  BY <1>1, FailFacts DEF RefuseNode, Walking
<1>2. CASE CreateNode(r)
  <2> DEFINE level == ItsLevel(r)
  <2>1. /\ Walking(r) /\ Create(r, Current(r).parent, level)
        /\ handler' = Descended(r, Fresh(level)) /\ UNCHANGED <<cfg, snap>>
    BY <1>2 DEF CreateNode
  <2> HIDE DEF level
  <2>2. PICK parent \in Id : parent = Current(r).parent
    BY <2>1, HandlerFields, FirstTask DEF Walking, Current
  <2>3. /\ Fresh(level) \in Id \ used /\ Written(r, Fresh(level), [parent |-> parent, v |-> r])
        /\ used' = used \cup {Fresh(level)}
        /\ made' = [made EXCEPT ![r] = made[r] \cup {[id |-> Fresh(level), parent |-> parent]}]
    BY <2>1, <2>2, CreateFacts
  <2>4. PICK i \in Id \ used : i = Fresh(level)
    BY <2>3
  <2>5. /\ Moves(r) /\ handler'[r].stage = "walk" /\ handler'[r].got = handler[r].got
        /\ \E n \in Nodes, s \in Seq(Nodes) :
              /\ NodesOf(handler[r].todo) = <<n>> \o s
              /\ NodesOf(handler'[r].todo) = n.nodes \o s
    BY <2>1, <2>4, DescendMoves
  <2>6. PICK row \in Row : row = [parent |-> parent, v |-> r]
    BY AskedFor DEF Row
  <2>7. Written(r, i, row)
    BY <2>3, <2>4, <2>6
  <2>8. row.v = r /\ row.parent = parent
    BY <2>6
  <2>9. used' = used \cup {i} /\ made' = [made EXCEPT ![r] = made[r] \cup {[id |-> i, parent |-> row.parent]}]
    BY <2>3, <2>4, <2>8
  <2>10. Creates(r, i, row)
    BY <2>1, <2>4, <2>5, <2>6, <2>7, <2>8, <2>9 DEF Creates, Walking
  <2> QED
    BY <2>10
<1>3. CASE PatchNode(r)
  <2>1. /\ Walking(r) /\ Ask(r).kind = "patch" /\ Current(r).node.id # New
        /\ UNCHANGED <<cfg, used, snap, made>>
    BY <1>3 DEF PatchNode
  <2>2. PICK i \in Id : i = Current(r).node.id
    BY <2>1, HandlerFields, FirstTask DEF Walking, Current
  <2>3. handler' = Descended(r, i)
    BY <1>3, <2>2 DEF PatchNode
  <2>4. /\ Moves(r) /\ handler'[r].stage = "walk" /\ handler'[r].got = handler[r].got
    BY <2>1, <2>3, DescendMoves
  <2>5. CASE Write(r, i, [View(r)[i] EXCEPT !.v = r])
    <3>1. PICK old \in Row : old = View(r)[i]
      BY ViewType
    <3>2. [old EXCEPT !.v = r] = [parent |-> old.parent, v |-> r]
      BY DEF Row
    <3>3. PICK row \in Row : row = [old EXCEPT !.v = r] /\ row.v = r /\ row.parent = old.parent
      BY <3>2, AskedFor DEF Row
    <3>4. Written(r, i, row)
      BY <2>1, <2>5, <3>1, <3>3, WriteFacts
    <3>5. Updates(r, i, row)
      BY <2>1, <2>4, <3>1, <3>3, <3>4 DEF Updates, Walking
    <3> QED
      BY <3>5
  <2>6. CASE Nothing
    BY <2>1, <2>4, <2>6 DEF Nothing, Reads, Walking
  <2> QED
    BY <1>3, <2>2, <2>5, <2>6 DEF PatchNode
<1>4. CASE GetOnly(r)
  <2>1. /\ Walking(r) /\ Ask(r).kind = "patch"
        /\ UNCHANGED <<cfg, table, used, dirty, touched, snap, made>>
    BY <1>4 DEF GetOnly, HasOne
  <2>2. PICK there \in SUBSET Id : there = Below(r, Current(r).parent, ItsLevel(r))
    BY DEF Below
  <2>3. handler' = IF there = {} THEN Stepped(r, "none", None)
                   ELSE Stepped(r, "found", CHOOSE i \in there : TRUE)
    BY <1>4, <2>2 DEF GetOnly
  <2>4. there # {} => (CHOOSE i \in there : TRUE) \in Id
    OBVIOUS
  <2>5. Moves(r) /\ handler'[r].stage = "walk" /\ handler'[r].got = handler[r].got
    BY <2>1, <2>3, <2>4, StepMoves
  <2> QED
    BY <2>1, <2>5 DEF Reads, Walking
<1>5. CASE PatchOnly(r)
  <2>1. /\ Walking(r) /\ Ask(r).kind = "patch" /\ Current(r).step = "found"
        /\ handler' = Stepped(r, "patched", Current(r).found)
        /\ UNCHANGED <<cfg, used, snap, made>>
    BY <1>5 DEF PatchOnly, HasOne
  <2>2. Current(r).found \in Id
    BY <2>1, HandlerFields, FirstTask DEF Walking, Current
  <2>3. Moves(r) /\ handler'[r].stage = "walk" /\ handler'[r].got = handler[r].got
    BY <2>1, <2>2, StepMoves
  <2>4. CASE Nothing
    BY <2>1, <2>3, <2>4 DEF Nothing, Reads, Walking
  <2>5. ASSUME NEW i \in Id, Write(r, i, [View(r)[i] EXCEPT !.v = r])
        PROVE  \E row \in Row : Updates(r, i, row)
    <3>1. PICK old \in Row : old = View(r)[i]
      BY ViewType
    <3>2. [old EXCEPT !.v = r] = [parent |-> old.parent, v |-> r]
      BY DEF Row
    <3>3. PICK row \in Row : row = [old EXCEPT !.v = r] /\ row.v = r /\ row.parent = old.parent
      BY <3>2, AskedFor DEF Row
    <3>4. Written(r, i, row)
      BY <2>1, <2>5, <3>1, <3>3, WriteFacts
    <3>5. Updates(r, i, row)
      BY <2>1, <2>3, <3>1, <3>3, <3>4 DEF Updates, Walking
    <3> QED
      BY <3>5
  <2>6. Nothing \/ \E i \in Id : Write(r, i, [View(r)[i] EXCEPT !.v = r])
    BY <1>5 DEF PatchOnly, Below
  <2> QED
    BY <2>4, <2>5, <2>6
<1>6. CASE DescendOnly(r)
  <2>1. /\ Walking(r) /\ Ask(r).kind = "patch" /\ Current(r).step = "patched"
        /\ UNCHANGED <<cfg, table, used, dirty, touched, snap, made>>
    BY <1>6 DEF DescendOnly, HasOne
  <2>2. PICK there \in SUBSET Id : there = Below(r, Current(r).parent, ItsLevel(r))
    BY DEF Below
  <2>3. Current(r).found \in Id
    BY <2>1, HandlerFields, FirstTask DEF Walking, Current
  <2>4. PICK i \in Id : i = IF there = {} THEN Current(r).found ELSE CHOOSE j \in there : TRUE
    BY <2>3
  <2>5. handler' = Descended(r, i)
    BY <1>6, <2>2, <2>4 DEF DescendOnly
  <2>6. Moves(r) /\ handler'[r].stage = "walk" /\ handler'[r].got = handler[r].got
    BY <2>1, <2>5, DescendMoves
  <2> QED
    BY <2>1, <2>6 DEF Reads, Walking
<1>7. CASE WalkDone(r)
  <2>1. /\ handler[r].stage = "walk" /\ handler[r].todo = <<>>
        /\ handler' = [handler EXCEPT ![r].stage = "commit"]
        /\ UNCHANGED <<cfg, table, used, dirty, touched, snap, made>>
    BY <1>7 DEF WalkDone, Goes
  <2>2. Moves(r) /\ handler'[r].stage = "commit" /\ handler'[r].got = handler[r].got
    BY <2>1, StageMoves
  <2> QED
    BY <2>1, <2>2 DEF Reads
<1> QED
  BY <1>1, <1>2, <1>3, <1>4, <1>5, <1>6, <1>7 DEF Walk

\* withWriteTransaction begins and commits.
Begins(r) ==
    /\ Moves(r) /\ UNCHANGED <<table, used, dirty, made>>
    /\ handler[r].stage = "start" /\ handler'[r].stage = Ask(r).kind
    /\ handler'[r].got = handler[r].got
    /\ snap' \in [Req -> [Id -> Row]] /\ snap'[r] = table
    /\ \A q \in Req \ {r} : snap'[q] = snap[q]
    /\ touched' \in [Req -> SUBSET Id] /\ touched'[r] = {}
    /\ \A q \in Req \ {r} : touched'[q] = touched[q]

Concludes(r) ==
    /\ handler[r].stage = "commit" /\ Ends(r, "ok")
    /\ table' \in [Id -> Row]
    /\ \A i \in Id : table'[i] = IF i \in DOMAIN dirty[r] THEN dirty[r][i] ELSE table[i]
    /\ touched' \in [Req -> SUBSET Id]
    /\ touched'[r] = touched[r]
    /\ \A q \in Req \ {r} : touched'[q] = touched[q] \cup DOMAIN dirty[r]

LEMMA BeginFacts ==
    ASSUME TypeOK, NEW r \in Req, Begin(r)
    PROVE  Begins(r)
<1>1. /\ handler[r].stage = "start" /\ handler' = [handler EXCEPT ![r].stage = Ask(r).kind]
      /\ snap' = [snap EXCEPT ![r] = table] /\ touched' = [touched EXCEPT ![r] = {}]
      /\ UNCHANGED <<cfg, table, used, dirty, made>>
  BY DEF Begin, Goes
<1>2. PICK kind \in Kinds : kind = Ask(r).kind
  BY AskType DEF TypeOK
<1>3. handler' = [handler EXCEPT ![r].stage = kind]
  BY <1>1, <1>2
<1>4. Moves(r) /\ handler'[r].stage = kind /\ handler'[r].got = handler[r].got
  BY <1>1, <1>3, StageMoves
<1>5. /\ snap' \in [Req -> [Id -> Row]] /\ snap'[r] = table
      /\ \A q \in Req \ {r} : snap'[q] = snap[q]
  BY <1>1 DEF TypeOK
<1>6. /\ touched' \in [Req -> SUBSET Id] /\ touched'[r] = {}
      /\ \A q \in Req \ {r} : touched'[q] = touched[q]
  BY <1>1 DEF TypeOK
<1> QED
  BY <1>1, <1>2, <1>4, <1>5, <1>6 DEF Begins

LEMMA CommitFacts ==
    ASSUME TypeOK, NEW r \in Req, Commit(r)
    PROVE  Concludes(r)
<1>1. /\ handler[r].stage = "commit" /\ cfg' = cfg
      /\ handler' = [handler EXCEPT ![r].stage = "done", ![r].answer = "ok"]
      /\ dirty' = [dirty EXCEPT ![r] = [i \in {} |-> Absent]]
      /\ UNCHANGED <<used, snap, made>>
      /\ table' = [i \in Id |-> IF i \in DOMAIN dirty[r] THEN dirty[r][i] ELSE table[i]]
      /\ touched' = [q \in Req |-> IF q = r THEN touched[q] ELSE touched[q] \cup DOMAIN dirty[r]]
  BY DEF Commit
<1>2. Ends(r, "ok")
  BY <1>1, EndFacts
<1>3. \A i \in DOMAIN dirty[r] : dirty[r][i] \in Row
  BY DEF TypeOK
<1>4. \A i \in Id : table[i] \in Row
  BY DEF TypeOK
<1>5. table' \in [Id -> Row]
  BY <1>1, <1>3, <1>4
<1>6. touched' \in [Req -> SUBSET Id]
  BY <1>1 DEF TypeOK
<1> QED
  BY <1>1, <1>2, <1>5, <1>6 DEF Concludes

\* Every step is one of six kinds of one request.
LEMMA Steps ==
    ASSUME TypeOK, StageInv, Next
    PROVE  \E r \in Req :
              \/ Begins(r) \/ Fails(r) \/ Reads(r) \/ Concludes(r)
              \/ \E i \in Id, row \in Row : Updates(r, i, row) \/ Creates(r, i, row)
<1>1. PICK r \in Req : Begin(r) \/ Link(r) \/ Entity(r) \/ Walk(r) \/ Commit(r) \/ StepFails(r)
  BY DEF Next
<1>2. CASE Begin(r)
  BY <1>2, BeginFacts
<1>3. CASE Link(r)
  BY <1>3, LinkSteps
<1>4. CASE Entity(r)
  BY <1>4, EntitySteps
<1>5. CASE Walk(r)
  BY <1>5, WalkSteps
<1>6. CASE Commit(r)
  BY <1>6, CommitFacts
<1>7. CASE StepFails(r)
  BY <1>7, FailFacts DEF StepFails, Running
<1> QED
  BY <1>1, <1>2, <1>3, <1>4, <1>5, <1>6, <1>7

-----------------------------------------------------------------------------
(* The state is well-formed, and rows belong to one transaction.           *)

LEMMA BaseInit == Init => BaseInv
<1> SUFFICES ASSUME Init PROVE BaseInv
  OBVIOUS
<1>1. cfg \in Configs
  BY DEF Init
<1>2. Absent \in Row /\ Absent.v = -1 /\ None \notin Id
  BY <1>1, AbsentRow
<1>3. \A i \in Id : table[i] \in Row
  BY <1>1, <1>2, AbsentRow DEF Init
<1>4. table \in [Id -> Row]
  BY <1>3 DEF Init
<1>5. [stage |-> "start", answer |-> "none", id |-> None, got |-> Absent, todo |-> <<>>] \in Handler
  BY <1>2 DEF Handler
<1>6. handler \in [Req -> Handler] /\ \A r \in Req : handler[r].stage = "start" /\ handler[r].answer = "none"
  BY <1>5 DEF Init
<1>7. DOMAIN dirty = Req /\ \A r \in Req : DOMAIN dirty[r] = {} /\ dirty[r] \in [{} -> Row]
  BY DEF Init
<1>8. /\ snap \in [Req -> [Id -> Row]] /\ touched \in [Req -> SUBSET Id]
      /\ made \in [Req -> SUBSET [id : Id, parent : Id \cup {None}]] /\ \A r \in Req : made[r] = {}
  BY <1>4 DEF Init
<1>9. TypeOK
  BY <1>1, <1>4, <1>6, <1>7, <1>8 DEF TypeOK, Init
<1>10. StageInv
  BY <1>6, <1>7 DEF StageInv, Kinds
<1>11. LocksInv
  BY <1>7 DEF LocksInv
<1>12. DOMAIN cfg.rows \subseteq used
  <2> SUFFICES ASSUME NEW i \in DOMAIN cfg.rows PROVE i \in used
    OBVIOUS
  <2>1. i \in Id
    BY <1>1, ConfigType
  <2>2. table[i] = [parent |-> cfg.rows[i], v |-> 0]
    BY <2>1 DEF Init
  <2>3. table[i].v = 0
    BY <2>2
  <2>4. Is(table[i])
    BY <1>2, <2>3 DEF Is
  <2> QED
    BY <2>1, <2>4 DEF Init
<1> QED
  BY <1>8, <1>9, <1>10, <1>11, <1>12 DEF BaseInv, UsedInv

LEMMA SameRequests ==
    ASSUME cfg' = cfg
    PROVE  /\ Req' = Req /\ Row' = Row /\ Handler' = Handler
           /\ \A r : Ask(r)' = Ask(r)
BY DEF Req, Row, Handler, Ask

LEMMA TypeNext ==
    ASSUME TypeOK, StageInv, Next
    PROVE  TypeOK'
<1>1. PICK r \in Req :
            \/ Begins(r) \/ Fails(r) \/ Reads(r) \/ Concludes(r)
            \/ \E i \in Id, row \in Row : Updates(r, i, row) \/ Creates(r, i, row)
  BY Steps
<1>2. cfg' = cfg
  BY <1>1 DEF Begins, Fails, Reads, Concludes, Updates, Creates, Moves, Ends
<1>3. /\ Req' = Req /\ Row' = Row /\ Handler' = Handler
  BY <1>2, SameRequests
<1>4. handler' \in [Req -> Handler]
  BY <1>1 DEF Begins, Fails, Reads, Concludes, Updates, Creates, Moves, Ends
<1>5. \A q \in Req : handler'[q].stage = "replace" => handler'[q].id \in Id
  <2>1. \A q \in Req \ {r} : handler'[q] = handler[q]
    BY <1>1 DEF Begins, Fails, Reads, Concludes, Updates, Creates, Moves, Ends
  <2>2. handler'[r].stage = "replace" => handler'[r].id \in Id
    <3>1. CASE Begins(r)
      <4>1. Ask(r).kind \in Kinds
        BY AskedFor
      <4> QED
        BY <3>1, <4>1 DEF Begins, Kinds
    <3>2. CASE Fails(r) \/ Concludes(r)
      BY <3>2 DEF Fails, Concludes, Ends
    <3>3. CASE Reads(r)
      BY <3>3 DEF Reads
    <3>4. CASE \E i \in Id, row \in Row : Updates(r, i, row) \/ Creates(r, i, row)
      BY <3>4 DEF Updates, Creates
    <3> QED
      BY <1>1, <3>1, <3>2, <3>3, <3>4
  <2> QED
    BY <2>1, <2>2 DEF TypeOK
<1>6. /\ table' \in [Id -> Row] /\ touched' \in [Req -> SUBSET Id] /\ snap' \in [Req -> [Id -> Row]]
  BY <1>1 DEF Begins, Fails, Reads, Concludes, Updates, Creates, Ends, Written, TypeOK
<1>7. /\ DOMAIN dirty' = Req
      /\ \A q \in Req : DOMAIN dirty'[q] \subseteq Id /\ dirty'[q] \in [DOMAIN dirty'[q] -> Row]
  <2>1. CASE Begins(r) \/ Reads(r)
    BY <2>1 DEF Begins, Reads, TypeOK
  <2>2. CASE Fails(r) \/ Concludes(r)
    <3>1. Ends(r, "error") \/ Ends(r, "ok")
      BY <2>2 DEF Fails, Concludes
    <3>2. DOMAIN dirty' = Req /\ \A q \in Req \ {r} : dirty'[q] = dirty[q]
      BY <3>1 DEF Ends
    <3>3. DOMAIN dirty'[r] = {} /\ dirty'[r] \in [DOMAIN dirty'[r] -> Row]
      BY <3>1 DEF Ends
    <3> QED
      BY <3>2, <3>3 DEF TypeOK
  <2>3. CASE \E i \in Id, row \in Row : Updates(r, i, row) \/ Creates(r, i, row)
    BY <2>3 DEF Updates, Creates, Written
  <2> QED
    BY <1>1, <2>1, <2>2, <2>3
<1>8. used' \subseteq Id /\ made' \in [Req -> SUBSET [id : Id, parent : Id \cup {None}]]
  <2>1. CASE \E i \in Id, row \in Row : Creates(r, i, row)
    <3>1. PICK i \in Id, row \in Row : Creates(r, i, row)
      BY <2>1
    <3>2. [id |-> i, parent |-> row.parent] \in [id : Id, parent : Id \cup {None}]
      BY DEF Row
    <3>3. used' = used \cup {i} /\ made' = [made EXCEPT ![r] = made[r] \cup {[id |-> i, parent |-> row.parent]}]
      BY <3>1 DEF Creates
    <3> QED
      BY <3>2, <3>3 DEF TypeOK
  <2>2. CASE ~ \E i \in Id, row \in Row : Creates(r, i, row)
    <3>1. used' = used /\ made' = made
      BY <1>1, <2>2 DEF Begins, Fails, Reads, Concludes, Updates, Ends
    <3> QED
      BY <3>1 DEF TypeOK
  <2> QED
    BY <2>1, <2>2
<1>9. cfg' \in Configs
  BY <1>2 DEF TypeOK
<1> QED
  BY <1>3, <1>4, <1>5, <1>6, <1>7, <1>8, <1>9 DEF TypeOK

\* The six kinds of a step leave the other requests alone.
Other(r) ==
    /\ cfg' = cfg
    /\ \A q \in Req \ {r} : /\ handler'[q] = handler[q] /\ dirty'[q] = dirty[q] /\ made'[q] = made[q]
                           /\ snap'[q] = snap[q]

LEMMA OthersStay ==
    ASSUME TypeOK, NEW r \in Req,
           \/ Begins(r) \/ Fails(r) \/ Reads(r) \/ Concludes(r)
           \/ \E i \in Id, row \in Row : Updates(r, i, row) \/ Creates(r, i, row)
    PROVE  Other(r)
<1>1. CASE Begins(r)
  BY <1>1 DEF Begins, Moves, Other
<1>2. CASE Fails(r) \/ Concludes(r)
  BY <1>2 DEF Fails, Concludes, Ends, Other
<1>3. CASE Reads(r)
  BY <1>3 DEF Reads, Moves, Other
<1>4. ASSUME NEW i \in Id, NEW row \in Row, Updates(r, i, row) \/ Creates(r, i, row)
      PROVE  Other(r)
  <2>1. Moves(r) /\ Written(r, i, row) /\ snap' = snap
    BY <1>4 DEF Updates, Creates
  <2>2. \A q \in Req \ {r} : dirty'[q] = dirty[q]
    BY <2>1 DEF Written
  <2>3. \A q \in Req \ {r} : made'[q] = made[q]
    BY <1>4 DEF Updates, Creates, TypeOK
  <2> QED
    BY <2>1, <2>2, <2>3 DEF Moves, Other
<1> QED
  BY <1>1, <1>2, <1>3, <1>4

LEMMA StageNext ==
    ASSUME TypeOK, StageInv, Next
    PROVE  StageInv'
<1>1. PICK r \in Req :
            \/ Begins(r) \/ Fails(r) \/ Reads(r) \/ Concludes(r)
            \/ \E i \in Id, row \in Row : Updates(r, i, row) \/ Creates(r, i, row)
  BY Steps
<1>2. Other(r)
  BY <1>1, OthersStay
<1>3. Req' = Req /\ \A q : Ask(q)' = Ask(q)
  BY <1>2, SameRequests DEF Other
<1> DEFINE Good(q) ==
        /\ handler'[q].stage # "done" => handler'[q].answer = "none"
        /\ handler'[q].stage \in Kinds => handler'[q].stage = Ask(q).kind
        /\ handler'[q].stage = "replace" => Ask(q).kind \in {"link", "unlink"} /\ ~cfg.composed
        /\ handler'[q].stage = "update" => Ask(q).kind = "patch"
        /\ handler'[q].stage = "walk" => Ask(q).kind \in {"patch", "insert"}
        /\ handler'[q].stage \notin {"walk", "commit"} \/ cfg.tx = "none" => DOMAIN dirty'[q] = {}
<1>4. \A q \in Req \ {r} : Good(q)
  BY <1>2 DEF Other, StageInv
<1>5. Good(r)
  <2>1. CASE Begins(r)
    <3>1. Ask(r).kind \in Kinds
      BY AskedFor
    <3>2. handler'[r].answer = "none" /\ DOMAIN dirty'[r] = {} /\ handler'[r].stage = Ask(r).kind
      BY <2>1 DEF Begins, Moves, StageInv
    <3> QED
      BY <3>1, <3>2 DEF Kinds
  <2>2. CASE Fails(r) \/ Concludes(r)
    <3>1. handler'[r].stage = "done" /\ DOMAIN dirty'[r] = {}
      BY <2>2 DEF Fails, Concludes, Ends
    <3> QED
      BY <3>1 DEF Kinds
  <2>3. CASE Reads(r)
    <3>1. /\ handler'[r].answer = handler[r].answer /\ dirty' = dirty
          /\ handler[r].stage # "done"
      BY <2>3 DEF Reads, Moves
    <3>2. \/ /\ handler[r].stage \in {"link", "unlink"} /\ ~cfg.composed /\ handler'[r].stage = "replace"
          \/ handler[r].stage = "patch" /\ handler'[r].stage = "update"
          \/ handler[r].stage \in {"patch", "update", "walk"} /\ handler'[r].stage = "walk"
          \/ handler[r].stage = "walk" /\ handler'[r].stage = "commit"
      BY <2>3 DEF Reads
    <3> QED
      BY <3>1, <3>2 DEF StageInv, Kinds
  <2>4. ASSUME NEW i \in Id, NEW row \in Row, Updates(r, i, row) \/ Creates(r, i, row)
        PROVE  Good(r)
    <3>1. handler'[r].answer = handler[r].answer /\ (cfg.tx = "none" => dirty' = dirty)
      BY <2>4 DEF Updates, Creates, Moves, Written
    <3>2. \/ handler[r].stage \in {"replace", "put"} /\ handler'[r].stage = "commit"
          \/ handler[r].stage \in {"patch", "update", "insert", "walk"} /\ handler'[r].stage = "walk"
      BY <2>4 DEF Updates, Creates
    <3> QED
      BY <3>1, <3>2 DEF StageInv, Kinds
  <2> QED
    BY <1>1, <2>1, <2>2, <2>3, <2>4
<1>6. \A q \in Req : Good(q)
  BY <1>4, <1>5
<1> QED
  BY <1>2, <1>3, <1>6 DEF StageInv, Other

LEMMA LocksNext ==
    ASSUME TypeOK, StageInv, LocksInv, Next
    PROVE  LocksInv'
<1>1. PICK r \in Req :
            \/ Begins(r) \/ Fails(r) \/ Reads(r) \/ Concludes(r)
            \/ \E i \in Id, row \in Row : Updates(r, i, row) \/ Creates(r, i, row)
  BY Steps
<1>2. Other(r)
  BY <1>1, OthersStay
<1>3. \A q \in Req \ {r} : DOMAIN dirty'[q] \cap DOMAIN dirty'[r] = {}
  <2>1. CASE Begins(r) \/ Reads(r)
    BY <2>1 DEF Begins, Reads, LocksInv
  <2>2. CASE Fails(r) \/ Concludes(r)
    BY <2>2 DEF Fails, Concludes, Ends
  <2>3. ASSUME NEW i \in Id, NEW row \in Row, Updates(r, i, row) \/ Creates(r, i, row),
               NEW q \in Req \ {r}
        PROVE  DOMAIN dirty'[q] \cap DOMAIN dirty'[r] = {}
    <3>1. Written(r, i, row)
      BY <2>3 DEF Updates, Creates
    <3>2. dirty'[q] = dirty[q] /\ i \notin DOMAIN dirty[q]
      BY <1>2, <3>1 DEF Other, Written
    <3>3. DOMAIN dirty'[r] \subseteq DOMAIN dirty[r] \cup {i}
      BY <3>1 DEF Written
    <3> QED
      BY <3>2, <3>3 DEF LocksInv
  <2> QED
    BY <1>1, <2>1, <2>2, <2>3
<1>4. \A q, p \in Req \ {r} : q # p => DOMAIN dirty'[q] \cap DOMAIN dirty'[p] = {}
  BY <1>2 DEF Other, LocksInv
<1>5. Req' = Req
  BY <1>2, SameRequests DEF Other
<1>6. \A q, p \in Req : q # p => DOMAIN dirty'[q] \cap DOMAIN dirty'[p] = {}
  <2> SUFFICES ASSUME NEW q \in Req, NEW p \in Req, q # p
               PROVE  DOMAIN dirty'[q] \cap DOMAIN dirty'[p] = {}
    OBVIOUS
  <2>1. CASE q = r
    BY <1>3, <2>1
  <2>2. CASE p = r
    BY <1>3, <2>2
  <2> QED
    BY <1>4, <2>1, <2>2
<1> QED
  BY <1>5, <1>6 DEF LocksInv

LEMMA UsedNext ==
    ASSUME TypeOK, StageInv, UsedInv, Next
    PROVE  UsedInv'
<1>1. PICK r \in Req :
            \/ Begins(r) \/ Fails(r) \/ Reads(r) \/ Concludes(r)
            \/ \E i \in Id, row \in Row : Updates(r, i, row) \/ Creates(r, i, row)
  BY Steps
<1>2. Other(r)
  BY <1>1, OthersStay
<1>3. Req' = Req /\ cfg' = cfg
  BY <1>2, SameRequests DEF Other
<1>4. CASE \E i \in Id, row \in Row : Creates(r, i, row)
  <2>1. PICK i \in Id, row \in Row : Creates(r, i, row)
    BY <1>4
  <2>2. used' = used \cup {i} /\ made'[r] = made[r] \cup {[id |-> i, parent |-> row.parent]}
    BY <2>1 DEF Creates, TypeOK
  <2>3. \A m \in made'[r] : m.id \in used'
    BY <2>2 DEF UsedInv
  <2>4. \A q \in Req \ {r} : \A m \in made'[q] : m.id \in used'
    BY <1>2, <2>2 DEF UsedInv, Other
  <2> QED
    BY <1>3, <2>2, <2>3, <2>4 DEF UsedInv
<1>5. CASE ~ \E i \in Id, row \in Row : Creates(r, i, row)
  <2>1. used' = used /\ made' = made
    BY <1>1, <1>5 DEF Begins, Fails, Reads, Concludes, Updates, Ends
  <2> QED
    BY <1>3, <2>1 DEF UsedInv
<1> QED
  BY <1>4, <1>5

LEMMA BaseNext == BaseInv /\ [Next]_vars => BaseInv'
<1> SUFFICES ASSUME BaseInv, [Next]_vars PROVE BaseInv'
  OBVIOUS
<1>1. CASE Next
  BY <1>1, TypeNext, StageNext, LocksNext, UsedNext DEF BaseInv
<1>2. CASE UNCHANGED vars
  <2>1. TypeOK'
    BY <1>2 DEF BaseInv, TypeOK, vars, Req, Row, Handler
  <2>2. StageInv'
    BY <1>2 DEF BaseInv, StageInv, vars, Req, Ask
  <2>3. LocksInv' /\ UsedInv'
    BY <1>2 DEF BaseInv, LocksInv, UsedInv, vars, Req
  <2> QED
    BY <2>1, <2>2, <2>3 DEF BaseInv
<1> QED
  BY <1>1, <1>2

\* No step changes the configuration, and with it the requests.
LEMMA SameConfig ==
    ASSUME BaseInv, [Next]_vars
    PROVE  cfg' = cfg
<1>1. CASE UNCHANGED vars
  BY <1>1 DEF vars
<1>2. CASE Next
  <2>1. TypeOK /\ StageInv
    BY DEF BaseInv
  <2>2. PICK r \in Req :
            \/ Begins(r) \/ Fails(r) \/ Reads(r) \/ Concludes(r)
            \/ \E i \in Id, row \in Row : Updates(r, i, row) \/ Creates(r, i, row)
    BY <1>2, <2>1, Steps
  <2>3. Other(r)
    BY <2>1, <2>2, OthersStay
  <2> QED
    BY <2>3 DEF Other
<1> QED
  BY <1>1, <1>2

\* The state is as the type invariant says: the walk through a payload always has
\* a parent to put the next node below, and a link a row to replace.
THEOREM TypeCorrect == Spec => []TypeOK
<1>1. BaseInv => TypeOK
  BY DEF BaseInv
<1> QED
  BY <1>1, BaseInit, BaseNext, PTL DEF Spec

-----------------------------------------------------------------------------
(* Composed children stay below their parent.                              *)

LEMMA ComposedInit == Init => ComposedInv
<1> SUFFICES ASSUME Init PROVE ComposedInv
  OBVIOUS
<1>1. ASSUME NEW i \in Id PROVE MayBeBelow(i, table[i].parent)
  BY <1>1 DEF Init, MayBeBelow
<1>2. /\ \A r \in Req : snap[r] = table /\ DOMAIN dirty[r] = {} /\ handler[r].stage = "start"
  BY DEF Init
<1> QED
  BY <1>1, <1>2 DEF ComposedInv

LEMMA ComposedNext == BaseInv /\ ComposedInv /\ [Next]_vars => ComposedInv'
<1> SUFFICES ASSUME BaseInv, ComposedInv, [Next]_vars, cfg.composed, cfg' = cfg PROVE ComposedInv'
  <2> SUFFICES ASSUME BaseInv, ComposedInv, [Next]_vars PROVE ComposedInv'
    OBVIOUS
  <2>1. cfg' = cfg
    BY SameConfig
  <2>2. cfg.composed \in BOOLEAN
    BY ConfigType DEF BaseInv, TypeOK
  <2>3. CASE cfg.composed
    BY <2>1, <2>3
  <2>4. CASE ~cfg.composed
    <3>1. ~cfg'.composed
      BY <2>1, <2>4
    <3> QED
      BY <3>1 DEF ComposedInv
  <2> QED
    BY <2>3, <2>4
<1>1. TypeOK /\ StageInv /\ UsedInv
  BY DEF BaseInv
<1>2. /\ Req' = Req
      /\ \A q : Ask(q)' = Ask(q)
      /\ \A i, p : MayBeBelow(i, p)' <=> MayBeBelow(i, p)
  BY SameRequests DEF MayBeBelow
<1>3. /\ \A i \in Id : MayBeBelow(i, table[i].parent)
      /\ \A r \in Req : \A i \in Id : MayBeBelow(i, snap[r][i].parent)
      /\ \A r \in Req : \A i \in DOMAIN dirty[r] : MayBeBelow(i, dirty[r][i].parent)
      /\ \A r \in Req : handler[r].stage = "update" => MayBeBelow(Ask(r).id, Ask(r).parent)
  BY DEF ComposedInv
<1> HIDE DEF MayBeBelow
<1>4. SUFFICES /\ \A i \in Id : MayBeBelow(i, table'[i].parent)
               /\ \A q \in Req : \A i \in Id : MayBeBelow(i, snap'[q][i].parent)
               /\ \A q \in Req : \A i \in DOMAIN dirty'[q] : MayBeBelow(i, dirty'[q][i].parent)
               /\ \A q \in Req : handler'[q].stage = "update" => MayBeBelow(Ask(q).id, Ask(q).parent)
  BY <1>2 DEF ComposedInv
<1>5. CASE UNCHANGED vars
  BY <1>3, <1>5 DEF vars
<1>6. ASSUME NEW r \in Req, NEW i \in Id PROVE MayBeBelow(i, View(r)[i].parent)
  BY <1>1, <1>3, ViewType
<1>7. CASE Next
  <2>1. PICK r \in Req :
            \/ Begins(r) \/ Fails(r) \/ Reads(r) \/ Concludes(r)
            \/ \E i \in Id, row \in Row : Updates(r, i, row) \/ Creates(r, i, row)
    BY <1>1, <1>7, Steps
  <2>2. Other(r)
    BY <1>1, <2>1, OthersStay
  <2>3. CASE Begins(r)
    <3>1. /\ table' = table /\ dirty' = dirty /\ snap'[r] = table
          /\ handler'[r].stage = Ask(r).kind /\ Ask(r).kind \in Kinds
      BY <1>1, <2>3, AskedFor DEF Begins
    <3> QED
      BY <1>3, <2>2, <3>1 DEF Other, Kinds
  <2>4. CASE Fails(r) \/ Concludes(r)
    <3>1. /\ snap' = snap /\ handler'[r].stage = "done" /\ DOMAIN dirty'[r] = {}
      BY <2>4 DEF Fails, Concludes, Ends
    <3>2. \A i \in Id : \/ table'[i] = table[i]
                       \/ (i \in DOMAIN dirty[r] /\ table'[i] = dirty[r][i])
      <4>1. CASE Fails(r)
        BY <4>1 DEF Fails
      <4>2. CASE Concludes(r)
        BY <4>2 DEF Concludes
      <4> QED
        BY <2>4, <4>1, <4>2
    <3>3. \A i \in Id : MayBeBelow(i, table'[i].parent)
      BY <1>3, <3>2
    <3> QED
      BY <1>3, <2>2, <3>1, <3>3 DEF Other
  <2>5. CASE Reads(r)
    <3>1. UNCHANGED <<table, snap, dirty>>
      BY <2>5 DEF Reads
    <3>2. handler'[r].stage = "update" =>
             /\ handler[r].stage = "patch" /\ View(r)[Ask(r).id].parent = Ask(r).parent
      BY <2>5 DEF Reads
    <3>3. handler'[r].stage = "update" => MayBeBelow(Ask(r).id, Ask(r).parent)
      BY <1>1, <1>6, <3>2, AskedFor
    <3> QED
      BY <1>3, <2>2, <3>1, <3>3 DEF Other
  <2>6. ASSUME NEW i \in Id, NEW row \in Row, Updates(r, i, row) \/ Creates(r, i, row)
        PROVE  /\ MayBeBelow(i, row.parent)
               /\ handler'[r].stage \in {"walk", "commit"} /\ snap' = snap /\ Written(r, i, row)
    <3>1. handler'[r].stage \in {"walk", "commit"} /\ snap' = snap /\ Written(r, i, row)
      BY <2>6 DEF Updates, Creates
    <3>2. CASE Creates(r, i, row)
      <4>1. i \notin DOMAIN cfg.rows
        BY <1>1, <3>2 DEF Creates, UsedInv
      <4> QED
        BY <3>1, <4>1 DEF MayBeBelow
    <3>3. CASE Updates(r, i, row)
      <4>1. handler[r].stage # "replace"
        BY <1>1 DEF StageInv
      <4>2. CASE handler[r].stage = "put"
        <5>1. Ask(r).kind = "put" /\ i = Ask(r).id /\ row.parent = Ask(r).parent
          BY <1>1, <3>3, <4>2 DEF Updates, StageInv, Kinds
        <5> QED
          BY <3>1, <5>1 DEF MayBeBelow
      <4>3. CASE row.parent = View(r)[i].parent
        BY <1>6, <3>1, <4>3
      <4>4. CASE handler[r].stage = "patch" /\ ~ForeignKeyGuarded(r) /\ row.parent # View(r)[i].parent
        <5>1. row.parent = IF Ask(r).parent # None THEN Ask(r).parent ELSE View(r)[i].parent
          BY <3>3, <4>4 DEF Updates
        <5>2. Ask(r).parent = None
          BY <4>4 DEF ForeignKeyGuarded
        <5> QED
          BY <4>4, <5>1, <5>2
      <4>5. CASE handler[r].stage = "update" /\ row.parent # View(r)[i].parent
        <5>1. row.parent = Ask(r).parent /\ i = Ask(r).id
          BY <3>3, <4>5 DEF Updates
        <5> QED
          BY <1>3, <3>1, <4>5, <5>1
      <4> QED
        BY <3>3, <4>1, <4>2, <4>3, <4>4, <4>5 DEF Updates
    <3> QED
      BY <2>6, <3>2, <3>3
  <2>7. ASSUME NEW i \in Id, NEW row \in Row, Updates(r, i, row) \/ Creates(r, i, row)
        PROVE  /\ \A j \in Id : MayBeBelow(j, table'[j].parent)
               /\ \A q \in Req : \A j \in Id : MayBeBelow(j, snap'[q][j].parent)
               /\ \A q \in Req : \A j \in DOMAIN dirty'[q] : MayBeBelow(j, dirty'[q][j].parent)
               /\ \A q \in Req : handler'[q].stage = "update" => MayBeBelow(Ask(q).id, Ask(q).parent)
    <3>1. /\ MayBeBelow(i, row.parent)
          /\ handler'[r].stage \in {"walk", "commit"} /\ snap' = snap /\ Written(r, i, row)
      BY <2>6, <2>7
    <3>2. \A j \in Id : table'[j] = table[j] \/ (j = i /\ table'[j] = row)
      BY <3>1 DEF Written
    <3>3. \A j \in DOMAIN dirty'[r] :
             \/ j \in DOMAIN dirty[r] /\ dirty'[r][j] = dirty[r][j]
             \/ j = i /\ dirty'[r][j] = row
      BY <3>1 DEF Written
    <3>4. \A j \in Id : MayBeBelow(j, table'[j].parent)
      BY <1>3, <3>1, <3>2
    <3>5. \A j \in DOMAIN dirty'[r] : MayBeBelow(j, dirty'[r][j].parent)
      BY <1>3, <3>1, <3>3
    <3> QED
      BY <1>3, <2>2, <3>1, <3>4, <3>5 DEF Other
  <2> QED
    BY <2>1, <2>3, <2>4, <2>5, <2>7
<1> QED
  BY <1>5, <1>7

\* The child of a composition stays below its parent, whatever links, patches and
\* deep updates race: only a PUT, which compares nothing, gives it to another.
THEOREM ComposedChildrenStay == Spec => []ComposedChildStays
<1>1. BaseInv /\ ComposedInv => ComposedChildStays
  <2> SUFFICES ASSUME BaseInv, ComposedInv, cfg.composed, NEW i \in DOMAIN cfg.rows
               PROVE  \/ table[i].parent = cfg.rows[i]
                      \/ \E r \in Req : /\ Ask(r).kind = "put" /\ Ask(r).id = i
                                        /\ table[i].parent = Ask(r).parent
    BY DEF ComposedChildStays
  <2>1. i \in Id
    BY ConfigType DEF BaseInv, TypeOK
  <2> QED
    BY <2>1 DEF ComposedInv, MayBeBelow
<1> QED
  BY <1>1, BaseInit, BaseNext, ComposedInit, ComposedNext, PTL DEF Spec

-----------------------------------------------------------------------------
(* A transaction keeps its rows to itself until it commits.                *)

LEMMA UncommittedInit == Init => UncommittedInv
<1> SUFFICES ASSUME Init, NEW r \in Req
             PROVE  /\ \A i \in Id : table[i].v # r
                    /\ \A q \in Req : \A i \in Id : snap[q][i].v # r
                    /\ \A q \in Req \ {r} : /\ handler[q].got.v # r
                                           /\ \A i \in DOMAIN dirty[q] : dirty[q][i].v # r
  BY DEF UncommittedInv
<1>1. cfg \in Configs
  BY DEF Init
<1>2. r \in Nat \ {0}
  BY <1>1, ConfigType DEF Req
<1>3. ASSUME NEW i \in Id PROVE table[i].v \in {0, -1}
  <2>1. table[i] = IF i \in DOMAIN cfg.rows THEN [parent |-> cfg.rows[i], v |-> 0] ELSE Absent
    BY DEF Init
  <2> QED
    BY <2>1 DEF Absent
<1>4. \A i \in Id : table[i].v # r
  BY <1>2, <1>3
<1>5. \A q \in Req : snap[q] = table /\ handler[q].got = Absent /\ DOMAIN dirty[q] = {}
  BY DEF Init
<1>6. Absent.v # r
  BY <1>2 DEF Absent
<1> QED
  BY <1>4, <1>5, <1>6

\* Who is about to succeed has not succeeded before.
LEMMA Unanswered ==
    ASSUME TypeOK, StageInv, NEW p \in Req,
           \/ Begins(p) \/ Fails(p) \/ Reads(p) \/ Concludes(p)
           \/ \E i \in Id, row \in Row : Updates(p, i, row) \/ Creates(p, i, row)
    PROVE  \A r \in Req : handler'[r].answer # "ok" => handler[r].answer # "ok"
<1>1. handler[p].stage # "done"
  BY DEF Begins, Fails, Reads, Concludes, Updates, Creates
<1>2. handler[p].answer = "none"
  BY <1>1 DEF StageInv
<1>3. Other(p)
  BY OthersStay
<1> QED
  BY <1>2, <1>3 DEF Other

LEMMA UncommittedNext == BaseInv /\ UncommittedInv /\ [Next]_vars => UncommittedInv'
<1> SUFFICES ASSUME BaseInv, UncommittedInv, [Next]_vars PROVE UncommittedInv'
  OBVIOUS
<1>1. TypeOK /\ StageInv /\ cfg' = cfg
  BY SameConfig DEF BaseInv
<1>2. Req' = Req
  BY <1>1, SameRequests
<1>3. CASE cfg.tx = "none"
  BY <1>1, <1>3 DEF UncommittedInv
<1>4. CASE UNCHANGED vars
  BY <1>2, <1>4 DEF UncommittedInv, vars
<1>5. CASE cfg.tx # "none" /\ Next
  <2>1. PICK p \in Req :
            \/ Begins(p) \/ Fails(p) \/ Reads(p) \/ Concludes(p)
            \/ \E i \in Id, row \in Row : Updates(p, i, row) \/ Creates(p, i, row)
    BY <1>1, <1>5, Steps
  <2>2. Other(p)
    BY <1>1, <2>1, OthersStay
  <2> SUFFICES ASSUME NEW r \in Req, handler'[r].answer # "ok"
               PROVE  /\ \A i \in Id : table'[i].v # r
                      /\ \A q \in Req : \A i \in Id : snap'[q][i].v # r
                      /\ \A q \in Req \ {r} : /\ handler'[q].got.v # r
                                             /\ \A i \in DOMAIN dirty'[q] : dirty'[q][i].v # r
    BY <1>2 DEF UncommittedInv
  <2>3. /\ \A i \in Id : table[i].v # r
        /\ \A q \in Req : \A i \in Id : snap[q][i].v # r
        /\ \A q \in Req \ {r} : /\ handler[q].got.v # r
                               /\ \A i \in DOMAIN dirty[q] : dirty[q][i].v # r
    BY <1>1, <1>5, <2>1, Unanswered DEF UncommittedInv
  <2>4. CASE Begins(p)
    <3>1. table' = table /\ dirty' = dirty /\ snap'[p] = table /\ handler'[p].got = handler[p].got
      BY <2>4 DEF Begins
    <3> QED
      BY <2>2, <2>3, <3>1 DEF Other
  <2>5. CASE Fails(p)
    <3>1. /\ table' = table /\ snap' = snap /\ DOMAIN dirty'[p] = {}
          /\ handler'[p].got = handler[p].got
      BY <2>5 DEF Fails, Ends
    <3> QED
      BY <2>2, <2>3, <3>1 DEF Other
  <2>6. CASE Concludes(p)
    <3>1. /\ snap' = snap /\ DOMAIN dirty'[p] = {} /\ handler'[p].got = handler[p].got
          /\ handler'[p].answer = "ok"
          /\ \A i \in Id : table'[i] = IF i \in DOMAIN dirty[p] THEN dirty[p][i] ELSE table[i]
      BY <2>6 DEF Concludes, Ends
    <3>2. p # r
      BY <3>1
    <3>3. \A i \in Id : table'[i].v # r
      BY <2>3, <3>1, <3>2
    <3> QED
      BY <2>2, <2>3, <3>1, <3>3 DEF Other
  <2>7. CASE Reads(p)
    <3>1. UNCHANGED <<table, snap, dirty>>
      BY <2>7 DEF Reads
    <3>2. p # r => handler'[p].got.v # r
      <4>1. SUFFICES ASSUME p # r PROVE handler'[p].got.v # r
        OBVIOUS
      <4>2. CASE handler'[p].got = handler[p].got
        BY <2>3, <4>1, <4>2
      <4>3. CASE handler'[p].id \in Id /\ handler'[p].got.v = View(p)[handler'[p].id].v
        <5>1. PICK i \in Id : i = handler'[p].id
          BY <4>3
        <5>2. View(p)[i].v # r
          BY <1>1, <2>3, <4>1, ViewType
        <5> QED
          BY <4>3, <5>1, <5>2
      <4> QED
        BY <2>7, <4>2, <4>3 DEF Reads
    <3> QED
      BY <2>2, <2>3, <3>1, <3>2 DEF Other
  <2>8. ASSUME NEW i \in Id, NEW row \in Row, Updates(p, i, row) \/ Creates(p, i, row)
        PROVE  /\ \A j \in Id : table'[j].v # r
               /\ \A q \in Req : \A j \in Id : snap'[q][j].v # r
               /\ \A q \in Req \ {r} : /\ handler'[q].got.v # r
                                      /\ \A j \in DOMAIN dirty'[q] : dirty'[q][j].v # r
    <3>1. Written(p, i, row) /\ snap' = snap /\ handler'[p].got = handler[p].got
      BY <2>8 DEF Updates, Creates
    <3>2. row.v = p \/ row = handler[p].got
      <4>1. CASE Creates(p, i, row)
        BY <4>1 DEF Creates
      <4>2. CASE Updates(p, i, row)
        BY <4>2 DEF Updates
      <4> QED
        BY <2>8, <4>1, <4>2
    <3>3. p # r => row.v # r
      BY <2>3, <3>2
    <3>4. /\ table' = table /\ DOMAIN dirty'[p] = DOMAIN dirty[p] \cup {i}
          /\ \A j \in DOMAIN dirty[p] \cup {i} : dirty'[p][j] = IF j = i THEN row ELSE dirty[p][j]
      BY <1>5, <3>1 DEF Written
    <3>5. p # r => \A j \in DOMAIN dirty'[p] : dirty'[p][j].v # r
      BY <2>3, <3>3, <3>4
    <3> QED
      BY <2>2, <2>3, <3>1, <3>4, <3>5 DEF Other
  <2> QED
    BY <2>1, <2>4, <2>5, <2>6, <2>7, <2>8
<1> QED
  BY <1>3, <1>4, <1>5

-----------------------------------------------------------------------------
(* A link changes the link only.                                           *)

LEMMA SnapshotInit == Init => SnapshotInv
<1> SUFFICES ASSUME Init PROVE SnapshotInv
  OBVIOUS
<1>1. \A r \in Req : handler[r].stage = "start" /\ DOMAIN dirty[r] = {}
  BY DEF Init
<1> QED
  BY <1>1 DEF SnapshotInv, Running

\* What SnapshotInv says of one request.
Faithful(r) ==
    /\ Running(r) => \A i \in Id \ touched[r] : snap[r][i] = table[i]
    /\ DOMAIN dirty[r] \cap touched[r] = {}
    /\ handler[r].stage = "replace" =>
          /\ handler[r].got.v = snap[r][handler[r].id].v
          /\ Ask(r).kind = "unlink" => snap[r][handler[r].id].parent = Ask(r).parent
    /\ handler[r].stage = "commit" /\ Ask(r).kind \in {"link", "unlink"} =>
          \A i \in DOMAIN dirty[r] :
              /\ dirty[r][i].v = snap[r][i].v
              /\ Ask(r).kind = "unlink" => snap[r][i].parent = Ask(r).parent

LEMMA FaithfulNext ==
    ASSUME BaseInv, BaseInv', SnapshotInv, Next, cfg.tx = "snapshot", NEW r \in Req
    PROVE  Faithful(r)'
<1>1. TypeOK /\ StageInv /\ LocksInv /\ Faithful(r)
  BY DEF BaseInv, SnapshotInv, Faithful
<1>2. PICK p \in Req :
            \/ Begins(p) \/ Fails(p) \/ Reads(p) \/ Concludes(p)
            \/ \E i \in Id, row \in Row : Updates(p, i, row) \/ Creates(p, i, row)
  BY <1>1, Steps
<1>3. Other(p) /\ Req' = Req /\ Ask(r)' = Ask(r)
  BY <1>1, <1>2, OthersStay, SameRequests DEF Other
<1>4. SUFFICES /\ handler'[r].stage \notin {"start", "done"} =>
                      \A i \in Id \ touched'[r] : snap'[r][i] = table'[i]
               /\ DOMAIN dirty'[r] \cap touched'[r] = {}
               /\ handler'[r].stage = "replace" =>
                     /\ handler'[r].got.v = snap'[r][handler'[r].id].v
                     /\ Ask(r).kind = "unlink" => snap'[r][handler'[r].id].parent = Ask(r).parent
               /\ handler'[r].stage = "commit" /\ Ask(r).kind \in {"link", "unlink"} =>
                     \A i \in DOMAIN dirty'[r] :
                         /\ dirty'[r][i].v = snap'[r][i].v
                         /\ Ask(r).kind = "unlink" => snap'[r][i].parent = Ask(r).parent
  BY <1>3 DEF Faithful, Running
<1>5. /\ handler[r].stage \notin {"start", "done"} => \A i \in Id \ touched[r] : snap[r][i] = table[i]
      /\ DOMAIN dirty[r] \cap touched[r] = {}
      /\ handler[r].stage = "replace" =>
            /\ handler[r].got.v = snap[r][handler[r].id].v
            /\ Ask(r).kind = "unlink" => snap[r][handler[r].id].parent = Ask(r).parent
      /\ handler[r].stage = "commit" /\ Ask(r).kind \in {"link", "unlink"} =>
            \A i \in DOMAIN dirty[r] :
                /\ dirty[r][i].v = snap[r][i].v
                /\ Ask(r).kind = "unlink" => snap[r][i].parent = Ask(r).parent
  BY <1>1 DEF Faithful, Running
<1>6. CASE p # r
  <2>1. handler'[r] = handler[r] /\ dirty'[r] = dirty[r] /\ snap'[r] = snap[r]
    BY <1>3, <1>6 DEF Other
  <2>2. CASE Concludes(p)
    <3>1. /\ touched'[r] = touched[r] \cup DOMAIN dirty[p]
          /\ \A i \in Id : table'[i] = IF i \in DOMAIN dirty[p] THEN dirty[p][i] ELSE table[i]
      BY <1>6, <2>2 DEF Concludes
    <3>2. DOMAIN dirty[r] \cap DOMAIN dirty[p] = {}
      BY <1>1, <1>6 DEF LocksInv
    <3>3. DOMAIN dirty'[r] \cap touched'[r] = {}
      BY <1>5, <2>1, <3>1, <3>2
    <3>4. \A i \in Id \ touched'[r] : i \in Id \ touched[r] /\ table'[i] = table[i]
      BY <3>1
    <3>5. handler'[r].stage \notin {"start", "done"} =>
             \A i \in Id \ touched'[r] : snap'[r][i] = table'[i]
      BY <1>5, <2>1, <3>4
    <3> QED
      BY <1>5, <2>1, <3>3, <3>5
  <2>3. CASE ~Concludes(p)
    <3>1. table' = table /\ touched'[r] = touched[r]
      BY <1>2, <1>6, <2>3, <1>1 DEF Begins, Fails, Reads, Updates, Creates, Written, TypeOK
    <3> QED
      BY <1>5, <2>1, <3>1
  <2> QED
    BY <2>2, <2>3
<1>7. CASE p = r
  <2>1. CASE Begins(r)
    <3>1. /\ snap'[r] = table /\ table' = table /\ touched'[r] = {}
          /\ handler'[r].stage \in Kinds
      BY <2>1, AskedFor, <1>1 DEF Begins
    <3> QED
      BY <3>1 DEF Kinds
  <2>2. CASE Fails(r) \/ Concludes(r)
    <3>1. handler'[r].stage = "done" /\ DOMAIN dirty'[r] = {}
      BY <2>2 DEF Fails, Concludes, Ends
    <3> QED
      BY <3>1
  <2>3. CASE Reads(r)
    <3>1. UNCHANGED <<table, dirty, snap, touched>>
      BY <2>3 DEF Reads
    <3>2. handler[r].stage \notin {"start", "done"}
      BY <2>3 DEF Reads
    <3>3. handler'[r].stage = "replace" =>
             /\ handler'[r].got.v = snap'[r][handler'[r].id].v
             /\ Ask(r).kind = "unlink" => snap'[r][handler'[r].id].parent = Ask(r).parent
      <4> SUFFICES ASSUME handler'[r].stage = "replace"
                   PROVE  /\ handler'[r].got.v = snap'[r][handler'[r].id].v
                          /\ Ask(r).kind = "unlink" => snap'[r][handler'[r].id].parent = Ask(r).parent
        OBVIOUS
      <4>1. /\ handler[r].stage \in {"link", "unlink"} /\ handler'[r].id \in Id
            /\ handler'[r].got.v = View(r)[handler'[r].id].v
            /\ handler[r].stage = "unlink" => View(r)[handler'[r].id].parent = Ask(r).parent
        BY <2>3 DEF Reads
      <4>2. handler[r].stage = Ask(r).kind /\ DOMAIN dirty[r] = {}
        BY <1>1, <4>1 DEF StageInv, Kinds
      <4>3. PICK i \in Id : i = handler'[r].id
        BY <4>1
      <4>4. View(r)[i] = snap[r][i]
        BY <1>1, <4>2, ViewType
      <4> QED
        BY <3>1, <4>1, <4>2, <4>3, <4>4
    <3>4. handler'[r].stage = "commit" => Ask(r).kind \notin {"link", "unlink"}
      BY <2>3, <1>1 DEF Reads, StageInv
    <3> QED
      BY <1>5, <3>1, <3>2, <3>3, <3>4
  <2>4. ASSUME NEW i \in Id, NEW row \in Row, Updates(r, i, row) \/ Creates(r, i, row)
        PROVE  /\ handler'[r].stage \notin {"start", "done"} =>
                      \A j \in Id \ touched'[r] : snap'[r][j] = table'[j]
               /\ DOMAIN dirty'[r] \cap touched'[r] = {}
               /\ handler'[r].stage = "replace" =>
                     /\ handler'[r].got.v = snap'[r][handler'[r].id].v
                     /\ Ask(r).kind = "unlink" => snap'[r][handler'[r].id].parent = Ask(r).parent
               /\ handler'[r].stage = "commit" /\ Ask(r).kind \in {"link", "unlink"} =>
                     \A j \in DOMAIN dirty'[r] :
                         /\ dirty'[r][j].v = snap'[r][j].v
                         /\ Ask(r).kind = "unlink" => snap'[r][j].parent = Ask(r).parent
    <3>1. Written(r, i, row) /\ snap' = snap
      BY <2>4 DEF Updates, Creates
    <3>2. /\ table' = table /\ touched' = touched /\ i \notin touched[r]
          /\ DOMAIN dirty'[r] = DOMAIN dirty[r] \cup {i}
          /\ \A j \in DOMAIN dirty[r] \cup {i} : dirty'[r][j] = IF j = i THEN row ELSE dirty[r][j]
      BY <3>1 DEF Written
    <3>3. handler[r].stage \notin {"start", "done"} /\ handler'[r].stage \in {"walk", "commit"}
      BY <2>4 DEF Updates, Creates
    <3>4. DOMAIN dirty'[r] \cap touched'[r] = {}
      BY <1>5, <3>2
    <3>5. \A j \in Id \ touched'[r] : snap'[r][j] = table'[j]
      BY <1>5, <3>1, <3>2, <3>3
    <3>6. handler'[r].stage = "commit" /\ Ask(r).kind \in {"link", "unlink"} =>
             \A j \in DOMAIN dirty'[r] :
                 /\ dirty'[r][j].v = snap'[r][j].v
                 /\ Ask(r).kind = "unlink" => snap'[r][j].parent = Ask(r).parent
      <4> SUFFICES ASSUME handler'[r].stage = "commit", Ask(r).kind \in {"link", "unlink"}
                   PROVE  \A j \in DOMAIN dirty'[r] :
                             /\ dirty'[r][j].v = snap'[r][j].v
                             /\ Ask(r).kind = "unlink" => snap'[r][j].parent = Ask(r).parent
        OBVIOUS
      <4>1. ~Creates(r, i, row)
        BY DEF Creates
      <4>2. \/ handler[r].stage = "replace" /\ i = handler[r].id /\ row = handler[r].got
            \/ handler[r].stage = "put"
        BY <2>4, <4>1 DEF Updates
      <4>3. handler[r].stage = "replace" /\ i = handler[r].id /\ row = handler[r].got
        BY <1>1, <4>2 DEF StageInv, Kinds
      <4>4. DOMAIN dirty[r] = {}
        BY <1>1, <4>3 DEF StageInv
      <4>5. DOMAIN dirty'[r] = {i} /\ dirty'[r][i] = row
        BY <3>2, <4>4
      <4> QED
        BY <1>5, <3>1, <4>3, <4>5
    <3> QED
      BY <3>3, <3>4, <3>5, <3>6
  <2> QED
    BY <1>2, <1>7, <2>1, <2>2, <2>3, <2>4
<1> QED
  BY <1>6, <1>7

LEMMA SnapshotNext == BaseInv /\ BaseInv' /\ SnapshotInv /\ [Next]_vars => SnapshotInv'
<1> SUFFICES ASSUME BaseInv, BaseInv', SnapshotInv, [Next]_vars PROVE SnapshotInv'
  OBVIOUS
<1>1. cfg' = cfg /\ Req' = Req
  BY SameConfig, SameRequests
<1>2. CASE UNCHANGED vars
  BY <1>2 DEF SnapshotInv, vars, Running, Req, Ask
<1>3. CASE Next /\ cfg.tx = "snapshot"
  <2>1. \A r \in Req : Faithful(r)'
    BY <1>3, FaithfulNext
  <2> QED
    BY <1>1, <2>1 DEF SnapshotInv, Faithful
<1>4. CASE cfg.tx # "snapshot"
  BY <1>1, <1>4 DEF SnapshotInv
<1> QED
  BY <1>2, <1>3, <1>4

\* The step of LinksChangeOnlyTheLink.
LEMMA LinkCommits ==
    ASSUME BaseInv, SnapshotInv, Next, cfg.tx = "snapshot", NEW r \in Req,
           Commits(r), Ask(r).kind \in {"link", "unlink"}, NEW i \in Id
    PROVE  /\ table'[i].v = table[i].v
           /\ Ask(r).kind = "unlink" /\ table'[i] # table[i] => table[i].parent = Ask(r).parent
<1>1. TypeOK /\ StageInv
  BY DEF BaseInv
<1>2. handler[r].stage = "commit" /\ handler[r].answer = "none" /\ handler'[r].answer = "ok"
  BY <1>1 DEF Commits, StageInv
<1>3. PICK p \in Req :
            \/ Begins(p) \/ Fails(p) \/ Reads(p) \/ Concludes(p)
            \/ \E j \in Id, row \in Row : Updates(p, j, row) \/ Creates(p, j, row)
  BY <1>1, Steps
<1>4. p = r
  <2>1. Other(p)
    BY <1>1, <1>3, OthersStay
  <2> QED
    BY <1>2, <2>1 DEF Other
<1>5. Concludes(r)
  BY <1>2, <1>3, <1>4 DEF Begins, Fails, Reads, Updates, Creates, Ends
<1>6. table'[i] = IF i \in DOMAIN dirty[r] THEN dirty[r][i] ELSE table[i]
  BY <1>5 DEF Concludes
<1>7. CASE i \in DOMAIN dirty[r]
  <2>1. i \notin touched[r] /\ snap[r][i] = table[i]
    BY <1>2, <1>7 DEF SnapshotInv, Running
  <2>2. dirty[r][i].v = snap[r][i].v /\ (Ask(r).kind = "unlink" => snap[r][i].parent = Ask(r).parent)
    BY <1>2, <1>7 DEF SnapshotInv
  <2> QED
    BY <1>6, <1>7, <2>1, <2>2
<1> QED
  BY <1>6, <1>7

\* A link or unlink writes back the whole row that it read; at a snapshot
\* isolation level it still undoes no PATCH of the row and no link to another parent.
THEOREM LinksKeepTheRow == Spec => LinksChangeOnlyTheLink
<1> DEFINE Only ==
        cfg.tx = "snapshot" =>
            \A r \in Req : Commits(r) /\ Ask(r).kind \in {"link", "unlink"} =>
                \A i \in Id : /\ table'[i].v = table[i].v
                              /\ Ask(r).kind = "unlink" /\ table'[i] # table[i] =>
                                    table[i].parent = Ask(r).parent
<1>1. BaseInv /\ SnapshotInv /\ [Next]_vars => [Only]_vars
  <2> SUFFICES ASSUME BaseInv, SnapshotInv, Next, cfg.tx = "snapshot", NEW r \in Req,
                      Commits(r), Ask(r).kind \in {"link", "unlink"}, NEW i \in Id
               PROVE  /\ table'[i].v = table[i].v
                      /\ Ask(r).kind = "unlink" /\ table'[i] # table[i] =>
                            table[i].parent = Ask(r).parent
    BY Zenon
  <2> QED
    BY LinkCommits
<1>2. (Spec => [][Only]_vars) => (Spec => LinksChangeOnlyTheLink)
  BY DEF LinksChangeOnlyTheLink
<1> HIDE DEF Only
<1>3. Spec => [][Only]_vars
  BY <1>1, BaseInit, BaseNext, SnapshotInit, SnapshotNext, PTL DEF Spec
<1> QED
  BY <1>2, <1>3

-----------------------------------------------------------------------------
(* A deep insert creates its whole payload.                                *)

LEMMA GraphInit ==
    ASSUME NEW Count, Init
    PROVE  GraphInv(Count)
<1>1. \A r \in Req : handler[r].stage = "start" /\ made[r] = {} /\ IsFiniteSet(made[r])
  BY FS_EmptySet DEF Init
<1> QED
  BY <1>1 DEF GraphInv

\* What GraphInv says of one request.
Whole(r, Count) ==
    Ask(r).kind = "insert" =>
        /\ IsFiniteSet(made[r])
        /\ handler[r].stage \in {"start", "insert"} => made[r] = {}
        /\ handler[r].stage = "walk" => Cardinality(made[r]) + Count[NodesOf(handler[r].todo)] = Ask(r).size
        /\ handler[r].stage = "commit" => Cardinality(made[r]) = Ask(r).size
        /\ handler[r].stage \in {"walk", "commit"} /\ cfg.tx # "none" =>
              \A m \in made[r] : /\ m.id \in DOMAIN dirty[r]
                                 /\ dirty[r][m.id] = [parent |-> m.parent, v |-> r]

\* The step that visits a node: one more entity, one node less to come.
LEMMA CreateCounts ==
    ASSUME NEW Count, Counting(Count), Sized(Count), BaseInv, NEW r \in Req, Whole(r, Count),
           Ask(r).kind = "insert", NEW i \in Id, NEW row \in Row, Creates(r, i, row)
    PROVE  /\ IsFiniteSet(made'[r])
           /\ Cardinality(made'[r]) + Count[NodesOf(handler'[r].todo)] = Ask(r).size
           /\ cfg.tx # "none" =>
                 \A m \in made'[r] : /\ m.id \in DOMAIN dirty'[r]
                                     /\ dirty'[r][m.id] = [parent |-> m.parent, v |-> r]
<1> DEFINE new == [id |-> i, parent |-> row.parent]
<1>1. TypeOK /\ StageInv /\ UsedInv
  BY DEF BaseInv
<1>2. /\ i \notin used /\ made'[r] = made[r] \cup {new} /\ Written(r, i, row)
      /\ row = [parent |-> row.parent, v |-> r]
  BY <1>1 DEF Creates, TypeOK
<1>3. IsFiniteSet(made[r]) /\ \A m \in made[r] : m.id # i
  BY <1>1, <1>2 DEF Whole, UsedInv
<1>4. new \notin made[r]
  BY <1>3
<1>5. /\ IsFiniteSet(made'[r]) /\ Cardinality(made'[r]) = Cardinality(made[r]) + 1
      /\ Cardinality(made[r]) \in Nat
  <2>1. PICK S, x : S = made[r] /\ x = new
    OBVIOUS
  <2>2. IsFiniteSet(S) /\ x \notin S
    BY Zenon, <1>3, <1>4, <2>1
  <2>3. /\ IsFiniteSet(S \cup {x}) /\ Cardinality(S \cup {x}) = Cardinality(S) + 1
        /\ Cardinality(S) \in Nat
    BY <2>2, FS_AddElement, FS_CardinalityType
  <2>4. made'[r] = S \cup {x}
    BY Zenon, <1>2, <2>1
  <2> QED
    BY <2>1, <2>3, <2>4
<1>6. Cardinality(made'[r]) + Count[NodesOf(handler'[r].todo)] = Ask(r).size
  <2>1. CASE handler[r].stage = "insert" /\ NodesOf(handler'[r].todo) = Ask(r).nodes
    <3>1. made[r] = {} /\ Cardinality(made[r]) = 0
      BY <2>1, FS_EmptySet DEF Whole
    <3>2. Ask(r).size = Count[Ask(r).nodes] + 1
      BY <1>1 DEF Sized, TypeOK, Ask, Req
    <3>3. Count[Ask(r).nodes] \in Nat
      BY <1>1, AskType DEF Counting, TypeOK
    <3> QED
      BY <1>5, <2>1, <3>1, <3>2, <3>3
  <2>2. CASE /\ handler[r].stage = "walk"
             /\ \E n \in Nodes, s \in Seq(Nodes) :
                   /\ NodesOf(handler[r].todo) = <<n>> \o s
                   /\ NodesOf(handler'[r].todo) = n.nodes \o s
    <3>1. PICK n \in Nodes, s \in Seq(Nodes) :
                   /\ NodesOf(handler[r].todo) = <<n>> \o s
                   /\ NodesOf(handler'[r].todo) = n.nodes \o s
      BY <2>2
    <3>2. Count[<<n>> \o s] = Count[n.nodes \o s] + 1
      BY DEF Counting
    <3>3. n.nodes \o s \in Seq(Nodes)
      BY PayloadAssumption, ConcatProperties
    <3>4. Count[n.nodes \o s] \in Nat
      BY <3>3 DEF Counting
    <3>5. Cardinality(made[r]) + Count[<<n>> \o s] = Ask(r).size
      BY <2>2, <3>1 DEF Whole
    <3>6. PICK sofar, left \in Nat : sofar = Cardinality(made[r]) /\ left = Count[n.nodes \o s]
      BY <1>5, <3>4
    <3>7. /\ Cardinality(made'[r]) = sofar + 1 /\ sofar \in Nat
          /\ Count[NodesOf(handler'[r].todo)] = left
      BY <1>5, <3>1, <3>6
    <3>8. sofar + (left + 1) = Ask(r).size
      BY <3>2, <3>5, <3>6
    <3> QED
      BY <3>7, <3>8
  <2> QED
    BY <2>1, <2>2 DEF Creates
<1>7. ASSUME cfg.tx # "none", NEW m \in made'[r]
      PROVE  /\ m.id \in DOMAIN dirty'[r]
             /\ dirty'[r][m.id] = [parent |-> m.parent, v |-> r]
  <2>1. /\ DOMAIN dirty'[r] = DOMAIN dirty[r] \cup {i}
        /\ \A j \in DOMAIN dirty[r] \cup {i} : dirty'[r][j] = IF j = i THEN row ELSE dirty[r][j]
    BY <1>2, <1>7 DEF Written
  <2>2. CASE m = new
    <3>1. m.id = i /\ m.parent = row.parent
      BY <2>2
    <3> QED
      BY <1>2, <2>1, <3>1
  <2>3. CASE m \in made[r]
    <3>1. m.id \in DOMAIN dirty[r] /\ dirty[r][m.id] = [parent |-> m.parent, v |-> r]
      <4>1. CASE handler[r].stage = "insert"
        BY <2>3, <4>1 DEF Whole
      <4>2. CASE handler[r].stage = "walk"
        BY <1>7, <2>3, <4>2 DEF Whole
      <4> QED
        BY <4>1, <4>2 DEF Creates
    <3> QED
      BY <1>3, <2>1, <2>3, <3>1
  <2> QED
    BY <1>2, <2>2, <2>3
<1> QED
  BY <1>5, <1>6, <1>7

LEMMA WholeNext ==
    ASSUME NEW Count, Counting(Count), Sized(Count), BaseInv, GraphInv(Count), Next, NEW r \in Req
    PROVE  Whole(r, Count)'
<1>1. TypeOK /\ StageInv /\ UsedInv /\ Whole(r, Count)
  BY DEF BaseInv, GraphInv, Whole
<1>2. PICK p \in Req :
            \/ Begins(p) \/ Fails(p) \/ Reads(p) \/ Concludes(p)
            \/ \E i \in Id, row \in Row : Updates(p, i, row) \/ Creates(p, i, row)
  BY <1>1, Steps
<1>3. Other(p) /\ Req' = Req /\ Ask(r)' = Ask(r) /\ cfg' = cfg
  BY <1>1, <1>2, OthersStay, SameRequests DEF Other
<1> SUFFICES ASSUME Ask(r).kind = "insert"
             PROVE  /\ IsFiniteSet(made'[r])
                    /\ handler'[r].stage \in {"start", "insert"} => made'[r] = {}
                    /\ handler'[r].stage = "walk" =>
                          Cardinality(made'[r]) + Count[NodesOf(handler'[r].todo)] = Ask(r).size
                    /\ handler'[r].stage = "commit" => Cardinality(made'[r]) = Ask(r).size
                    /\ handler'[r].stage \in {"walk", "commit"} /\ cfg.tx # "none" =>
                          \A m \in made'[r] : /\ m.id \in DOMAIN dirty'[r]
                                              /\ dirty'[r][m.id] = [parent |-> m.parent, v |-> r]
  <2>1. NodesOf(handler[r].todo)' = NodesOf(handler'[r].todo)
    BY DEF NodesOf
  <2> QED
    BY <1>3, <2>1 DEF Whole
<1>4. /\ IsFiniteSet(made[r])
      /\ handler[r].stage \in {"start", "insert"} => made[r] = {}
      /\ handler[r].stage = "walk" => Cardinality(made[r]) + Count[NodesOf(handler[r].todo)] = Ask(r).size
      /\ handler[r].stage = "commit" => Cardinality(made[r]) = Ask(r).size
      /\ handler[r].stage \in {"walk", "commit"} /\ cfg.tx # "none" =>
            \A m \in made[r] : /\ m.id \in DOMAIN dirty[r]
                               /\ dirty[r][m.id] = [parent |-> m.parent, v |-> r]
  BY <1>1 DEF Whole
<1>5. CASE p # r
  <2>1. handler'[r] = handler[r] /\ dirty'[r] = dirty[r] /\ made'[r] = made[r]
    BY <1>3, <1>5 DEF Other
  <2> QED
    BY <1>4, <2>1
<1>6. CASE p = r
  <2>1. CASE Begins(r)
    <3>1. handler[r].stage = "start" /\ handler'[r].stage = "insert" /\ made' = made
      BY <2>1 DEF Begins
    <3> QED
      BY <1>4, <3>1
  <2>2. CASE Fails(r) \/ Concludes(r)
    <3>1. handler'[r].stage = "done" /\ made' = made
      BY <2>2 DEF Fails, Concludes, Ends
    <3> QED
      BY <1>4, <3>1
  <2>3. CASE Reads(r)
    <3>1. made' = made /\ dirty' = dirty
      BY <2>3 DEF Reads
    <3>2. handler[r].stage = "walk" /\ handler'[r].stage = "commit" /\ handler[r].todo = <<>>
      BY <1>1, <2>3 DEF Reads, StageInv, Kinds
    <3>3. NodesOf(handler[r].todo) = <<>>
      BY <3>2 DEF NodesOf
    <3>4. Cardinality(made[r]) = Ask(r).size
      <4>1. Cardinality(made[r]) + 0 = Ask(r).size
        BY <1>4, <3>2, <3>3 DEF Counting
      <4>2. PICK S : S = made[r]
        OBVIOUS
      <4>3. Cardinality(S) \in Nat
        BY <1>4, <4>2, FS_CardinalityType
      <4> QED
        BY <4>1, <4>2, <4>3
    <3> QED
      BY <1>4, <3>1, <3>2, <3>4
  <2>4. CASE \E i \in Id, row \in Row : Creates(r, i, row)
    <3>1. PICK i \in Id, row \in Row : Creates(r, i, row)
      BY <2>4
    <3>2. handler'[r].stage = "walk"
      BY <3>1 DEF Creates
    <3> QED
      BY <1>1, <3>1, <3>2, CreateCounts
  <2>5. ~ \E i \in Id, row \in Row : Updates(r, i, row)
    BY <1>1 DEF Updates, StageInv, Kinds
  <2> QED
    BY <1>2, <1>6, <2>1, <2>2, <2>3, <2>4, <2>5
<1> QED
  BY <1>5, <1>6

LEMMA GraphNext ==
    ASSUME NEW Count, Counting(Count), Sized(Count), BaseInv, GraphInv(Count), [Next]_vars
    PROVE  GraphInv(Count)'
<1>1. Req' = Req
  BY SameConfig, SameRequests
<1>2. CASE UNCHANGED vars
  <2>1. \A r : NodesOf(handler[r].todo)' = NodesOf(handler[r].todo)
    BY <1>2 DEF NodesOf, vars
  <2> QED
    BY <1>2, <2>1 DEF GraphInv, vars, Req, Ask
<1>3. CASE Next
  <2>1. \A r \in Req : Whole(r, Count)'
    BY <1>3, WholeNext
  <2> QED
    BY <1>1, <2>1 DEF GraphInv, Whole
<1> QED
  BY <1>2, <1>3

\* A deep insert that is about to succeed has created each entity of its payload
\* once, below the entity it is nested in, and a write that failed in a
\* transaction has left nothing.  Count is the size of a payload.
THEOREM GraphsAreWholeOrNothing ==
    ASSUME NEW CONSTANT Count, Counting(Count), Sized(Count)
    PROVE  Spec => []GraphWholeOrNothing
<1>1. BaseInv /\ GraphInv(Count) /\ UncommittedInv => GraphWholeOrNothing
  <2> SUFFICES ASSUME BaseInv, GraphInv(Count), UncommittedInv, NEW r \in Req
               PROVE  /\ Ask(r).kind = "insert" /\ handler[r].stage = "commit" =>
                            /\ Cardinality(made[r]) = Ask(r).size
                            /\ cfg.tx # "none" =>
                                  \A m \in made[r] : View(r)[m.id] = [parent |-> m.parent, v |-> r]
                      /\ handler[r].answer = "error" /\ cfg.tx # "none" =>
                            \A i \in Id : table[i].v # r
    BY DEF GraphWholeOrNothing
  <2>1. handler[r].answer = "error" /\ cfg.tx # "none" => \A i \in Id : table[i].v # r
    BY DEF UncommittedInv
  <2>2. ASSUME Ask(r).kind = "insert", handler[r].stage = "commit", cfg.tx # "none", NEW m \in made[r]
        PROVE  View(r)[m.id] = [parent |-> m.parent, v |-> r]
    <3>1. m.id \in DOMAIN dirty[r] /\ dirty[r][m.id] = [parent |-> m.parent, v |-> r]
      BY <2>2 DEF GraphInv
    <3>2. TypeOK /\ m.id \in Id
      BY <3>1 DEF BaseInv, TypeOK
    <3> QED
      BY <3>1, <3>2, ViewType
  <2> QED
    BY <2>1, <2>2 DEF GraphInv
<1>2. Init => GraphInv(Count)
  BY GraphInit
<1>3. BaseInv /\ GraphInv(Count) /\ [Next]_vars => GraphInv(Count)'
  BY GraphNext
<1> QED
  BY <1>1, <1>2, <1>3, BaseInit, BaseNext, UncommittedInit, UncommittedNext, PTL DEF Spec

=============================================================================
