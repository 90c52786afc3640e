----------------------------- MODULE RelatedWrites -----------------------------
(***************************************************************************)
(* Writes of ODataCrudController that reach related entities: $ref links   *)
(* and unlinks, deep inserts and deep updates, racing with each other and  *)
(* with a PATCH or a PUT of one of the entities.                           *)
(*                                                                         *)
(* A link reads the whole target, changes the foreign key and replaces the *)
(* target by its id.  A deep write walks its payload depth first, one      *)
(* statement after the other.  All of it happens in the write transaction  *)
(* of the request, when there is one.                                      *)
(*                                                                         *)
(* Entities are on levels: a relation leads from a level to the next one,  *)
(* by the foreign key in the row of the lower one.  The datasource locks   *)
(* rows until the end of the transaction that wrote them; at a snapshot    *)
(* isolation level it refuses to write a row that others have changed.     *)
(***************************************************************************)
EXTENDS Integers, FiniteSets, Sequences

CONSTANTS
    Id,         \* ids of all entities, as numbers
    Level,      \* [Id -> 0..2]
    MaxDepth,   \* maxDeepInsertDepth and maxDeepUpdateDepth
    Nodes,      \* the nodes of nested payloads
    Configs     \* requests, the rows they find, relations and transactions

None == 0   \* no entity
New  == -1  \* a payload without a key

Absent == [parent |-> None, v |-> -1]
Is(row) == row # Absent

\* A request has a kind, the entity it is sent to, the entity it links to or names
\* as parent, and a payload of nodes; sets tells whether the payload holds anything
\* else but its key and its nodes, and size counts the entities of a deep insert.
Kinds == {"link", "unlink", "patch", "put", "insert"}
Request == [kind : Kinds, id : Id \cup {None}, parent : Id \cup {None},
            sets : BOOLEAN, nodes : Seq(Nodes), size : Nat]

\* tx: no write transactions, or their isolation; one: the levels reached by a
\* hasOne relation; composed: whether the relations are compositions; rows: the
\* parent of each entity there is at first.
ASSUME IdAssumption ==
    Id \subseteq Nat \ {0} /\ IsFiniteSet(Id) /\ Level \in [Id -> Nat]
ASSUME DepthAssumption == MaxDepth \in Nat
ASSUME PayloadAssumption ==
    \A n \in Nodes :
        /\ n.id \in Id \cup {New} /\ n.parent \in Id \cup {None} /\ n.sets \in BOOLEAN
        /\ n.nodes \in Seq(Nodes)
ASSUME ConfigAssumption ==
    \A c \in Configs :
        /\ c.tx \in {"none", "committed", "snapshot"}
        /\ c.composed \in BOOLEAN
        /\ c.one \subseteq Nat
        /\ DOMAIN c.rows \subseteq Id
        /\ \A i \in DOMAIN c.rows : c.rows[i] \in Id \cup {None}
        /\ c.requests \in Seq(Request)
        /\ \A r \in DOMAIN c.requests :
              c.requests[r].kind \in {"link", "patch", "put"} => c.requests[r].id \in Id

VARIABLES
    cfg,     \* the configuration
    table,   \* the committed rows
    used,    \* ids given so far
    handler, \* per request: stage, what it has read, what it still has to do
    dirty,   \* per request: rows its transaction has written
    touched, \* per request: rows others have committed since its snapshot
    snap,    \* per request: the rows as they were when it began
    made     \* per request: entities it has created, and below which parent

vars == <<cfg, table, used, handler, dirty, touched, snap, made>>

Req == DOMAIN cfg.requests
Ask(r) == cfg.requests[r]
Running(r) == handler[r].stage \notin {"start", "done"}

Init ==
    /\ cfg \in Configs
    /\ table = [i \in Id |-> IF i \in DOMAIN cfg.rows THEN [parent |-> cfg.rows[i], v |-> 0]
                             ELSE Absent]
    /\ used = {i \in Id : Is(table[i])}
    /\ handler = [r \in Req |-> [stage |-> "start", answer |-> "none", id |-> None,
                                 got |-> Absent, todo |-> <<>>]]
    /\ dirty = [r \in Req |-> [i \in {} |-> Absent]]
    /\ touched = [r \in Req |-> {}]
    /\ snap = [r \in Req |-> table]
    /\ made = [r \in Req |-> {}]

-----------------------------------------------------------------------------
(* The datasource.                                                         *)

\* What a statement of r reads.
View(r) == [i \in Id |-> IF i \in DOMAIN dirty[r] THEN dirty[r][i]
                         ELSE IF cfg.tx = "snapshot" THEN snap[r][i] ELSE table[i]]

Below(r, parent, level) ==
    {i \in Id : Level[i] = level /\ Is(View(r)[i]) /\ View(r)[i].parent = parent}

Locked(r, i) == \E q \in Req \ {r} : i \in DOMAIN dirty[q]
\* The foreign key of a hasOne relation is unique.
Taken(r, i, parent) ==
    /\ Level[i] \in cfg.one /\ parent # None
    /\ \/ Below(r, parent, Level[i]) \ {i} # {}
       \/ \E j \in Id \ {i} : /\ Level[j] = Level[i]
                             /\ \/ j \notin DOMAIN dirty[r] /\ table[j].parent = parent
                                \/ \E q \in Req \ {r} : j \in DOMAIN dirty[q] /\ dirty[q][j].parent = parent
MayWrite(r, i, row) ==
    /\ ~Locked(r, i)
    /\ cfg.tx = "snapshot" => i \notin touched[r]
    /\ ~Taken(r, i, row.parent)

Put(f, i, row) == [j \in DOMAIN f \cup {i} |-> IF j = i THEN row ELSE f[j]]

\* A write with the options of the transaction, or without one.
WriteWithoutOptions(r, i, row) ==   \* mutant
    /\ MayWrite(r, i, row)
    /\ table' = [table EXCEPT ![i] = row]
    /\ touched' = [q \in Req |-> IF q = r THEN touched[q] ELSE touched[q] \cup {i}]
    /\ UNCHANGED dirty

Write(r, i, row) ==
    /\ MayWrite(r, i, row)
    /\ IF cfg.tx = "none"
       THEN /\ table' = [table EXCEPT ![i] = row]
            /\ touched' = [q \in Req |-> IF q = r THEN touched[q] ELSE touched[q] \cup {i}]
            /\ UNCHANGED dirty
       ELSE /\ dirty' = [dirty EXCEPT ![r] = Put(@, i, row)]
            /\ UNCHANGED <<table, touched>>

Nothing == UNCHANGED <<table, dirty, touched>>

\* Without its key and its related entities there is something left to write.
Sets(payload) == payload.sets \/ payload.parent # None

\* The next id of the sequence of a level: never given twice.
Fresh(level) == LET free == {i \in Id : Level[i] = level} \ used
                IN CHOOSE i \in free : \A j \in free : i <= j

Create(r, parent, level) ==
    /\ {i \in Id : Level[i] = level} \ used # {}
    /\ LET i == Fresh(level)
       IN /\ Write(r, i, [parent |-> parent, v |-> r])
          /\ used' = used \cup {i}
          /\ made' = [made EXCEPT ![r] = @ \cup {[id |-> i, parent |-> parent]}]

-----------------------------------------------------------------------------
(* The write transaction around a handler.                                 *)

Goes(r, stage) == handler' = [handler EXCEPT ![r].stage = stage]

\* An answer that is not a success: the transaction is rolled back.
Fail(r) ==
    /\ handler' = [handler EXCEPT ![r].stage = "done", ![r].answer = "error"]
    /\ dirty' = [dirty EXCEPT ![r] = [i \in {} |-> Absent]]
    /\ UNCHANGED <<cfg, table, used, touched, snap, made>>

Begin(r) ==
    /\ handler[r].stage = "start"
    /\ Goes(r, Ask(r).kind)
    /\ snap' = [snap EXCEPT ![r] = table]
    /\ touched' = [touched EXCEPT ![r] = {}]
    /\ UNCHANGED <<cfg, table, used, dirty, made>>

Commit(r) ==
    /\ handler[r].stage = "commit"
    /\ handler' = [handler EXCEPT ![r].stage = "done", ![r].answer = "ok"]
    /\ table' = [i \in Id |-> IF i \in DOMAIN dirty[r] THEN dirty[r][i] ELSE table[i]]
    /\ touched' = [q \in Req |-> IF q = r THEN touched[q] ELSE touched[q] \cup DOMAIN dirty[r]]
    /\ dirty' = [dirty EXCEPT ![r] = [i \in {} |-> Absent]]
    /\ UNCHANGED <<cfg, used, snap, made>>

\* A hook, a validation, a statement or the commit may fail.
StepFails(r) == Running(r) /\ Fail(r)

-----------------------------------------------------------------------------
(* Links.                                                                  *)

\* 409: a composed child is not linked and not unlinked.
RefuseComposition(r) ==
    /\ handler[r].stage \in {"link", "unlink"}
    /\ cfg.composed
    /\ Fail(r)

\* linkNavigationRef: the target as it is.
ReadTarget(r) ==
    /\ handler[r].stage = "link" /\ ~cfg.composed
    /\ Is(View(r)[Ask(r).id])
    /\ handler' = [handler EXCEPT ![r].stage = "replace", ![r].id = Ask(r).id,
                       ![r].got = [View(r)[Ask(r).id] EXCEPT !.parent = Ask(r).parent]]
    /\ UNCHANGED <<cfg, table, used, dirty, touched, snap, made>>

LinkedAtAll(r, i) == Is(View(r)[i])   \* mutant

\* unlinkNavigationRef: of a collection the named target, if it is linked to this
\* parent; of a hasOne relation the one that is.
Linked(r, i) == Is(View(r)[i]) /\ View(r)[i].parent = Ask(r).parent

ReadLinked(r) ==
    /\ handler[r].stage = "unlink" /\ ~cfg.composed
    /\ \E i \in Id :
          /\ IF Ask(r).id # None THEN i = Ask(r).id /\ Linked(r, i)
             ELSE i \in Below(r, Ask(r).parent, Level[Ask(r).parent] + 1)
          /\ handler' = [handler EXCEPT ![r].stage = "replace", ![r].id = i,
                             ![r].got = [View(r)[i] EXCEPT !.parent = None]]
    /\ UNCHANGED <<cfg, table, used, dirty, touched, snap, made>>

\* 404: there is no such entity or no such link.
NotThere(r) ==
    /\ ~cfg.composed
    /\ \/ handler[r].stage = "link" /\ ~Is(View(r)[Ask(r).id])
       \/ /\ handler[r].stage = "unlink"
          /\ IF Ask(r).id # None THEN ~Linked(r, Ask(r).id)
             ELSE Below(r, Ask(r).parent, Level[Ask(r).parent] + 1) = {}
    /\ Fail(r)

\* replaceById with the whole row.
Replace(r) ==
    /\ handler[r].stage = "replace"
    /\ Write(r, handler[r].id, handler[r].got)
    /\ Goes(r, "commit")
    /\ UNCHANGED <<cfg, used, snap, made>>

-----------------------------------------------------------------------------
(* PUT and PATCH of one entity, and the root of a deep write.              *)

\* PUT compares nothing: it may name another parent.
PutEntity(r) ==
    /\ handler[r].stage = "put"
    /\ Is(View(r)[Ask(r).id])
    /\ Write(r, Ask(r).id, [parent |-> Ask(r).parent, v |-> r])
    /\ Goes(r, "commit")
    /\ UNCHANGED <<cfg, used, snap, made>>

ForeignKeyNever(r) == FALSE   \* mutant

\* The payload of a PATCH holds the foreign key of a composition.
ForeignKeyGuarded(r) == cfg.composed /\ Ask(r).parent # None

\* 409: the child would change its parent.
CheckForeignKey(r) ==
    /\ handler[r].stage = "patch"
    /\ ForeignKeyGuarded(r)
    /\ LET row == View(r)[Ask(r).id]
       IN IF Is(row) /\ row.parent = Ask(r).parent
          THEN /\ Goes(r, "update")
               /\ UNCHANGED <<cfg, table, used, dirty, touched, snap, made>>
          ELSE Fail(r)

Task(node, parent, depth) ==
    [node |-> node, parent |-> parent, depth |-> depth, found |-> None, step |-> "new"]
Tasks(nodes, parent, depth) == [k \in 1..Len(nodes) |-> Task(nodes[k], parent, depth)]

\* updateById, if there is anything to write, then the related entities.
UpdateEntity(r) ==
    /\ \/ handler[r].stage = "patch" /\ ~ForeignKeyGuarded(r)
       \/ handler[r].stage = "update"
    /\ Is(View(r)[Ask(r).id])
    /\ IF Sets(Ask(r))
       THEN Write(r, Ask(r).id, [parent |-> IF Ask(r).parent # None THEN Ask(r).parent
                                            ELSE View(r)[Ask(r).id].parent, v |-> r])
       ELSE Nothing
    /\ handler' = [handler EXCEPT ![r].stage = "walk",
                                  ![r].todo = Tasks(Ask(r).nodes, Ask(r).id, 0)]
    /\ UNCHANGED <<cfg, used, snap, made>>

CreateRoot(r) ==
    /\ handler[r].stage = "insert"
    /\ Create(r, Ask(r).parent, 0)
    /\ handler' = [handler EXCEPT ![r].stage = "walk",
                                  ![r].todo = Tasks(Ask(r).nodes, Fresh(0), 1)]
    /\ UNCHANGED <<cfg, snap>>

EntityGone(r) ==
    /\ handler[r].stage \in {"put", "patch", "update"}
    /\ ~Is(View(r)[Ask(r).id])
    /\ Fail(r)

-----------------------------------------------------------------------------
(* The walk through a nested payload.                                      *)

Walking(r) == handler[r].stage = "walk" /\ handler[r].todo # <<>>
Current(r) == Head(handler[r].todo)
ItsLevel(r) == Level[Current(r).parent] + 1
HasOne(r)  == Ask(r).kind = "patch" /\ ItsLevel(r) \in cfg.one

TooDeep(r) == Current(r).depth > MaxDepth
\* A node that names another parent than the one it is below.
Elsewhere(r) == Current(r).node.parent \notin {None, Current(r).parent}

RefuseNode(r) == Walking(r) /\ (TooDeep(r) \/ Elsewhere(r)) /\ Fail(r)

\* The current node is done and has id i: its own children come next.
Descended(r, i) ==
    [handler EXCEPT ![r].todo = Tasks(Current(r).node.nodes, i, Current(r).depth + 1) \o Tail(@)]

\* A node of a deep insert, or one without a key of a deep update.
CreateNode(r) ==
    /\ Walking(r) /\ ~TooDeep(r) /\ ~Elsewhere(r)
    /\ IF HasOne(r) THEN Current(r).step = "none"
       ELSE Ask(r).kind = "insert" \/ Current(r).node.id = New
    /\ Create(r, Current(r).parent, ItsLevel(r))
    /\ handler' = Descended(r, Fresh(ItsLevel(r)))
    /\ UNCHANGED <<cfg, snap>>

\* A key in a collection: patched where it is below this parent; otherwise, or when
\* nothing but the key is given, nothing changes, and the walk goes on below the key
\* all the same.
PatchNode(r) ==
    /\ Walking(r) /\ ~TooDeep(r) /\ ~Elsewhere(r) /\ ~HasOne(r)
    /\ Ask(r).kind = "patch" /\ Current(r).node.id # New
    /\ LET i == Current(r).node.id
       IN /\ IF Sets(Current(r).node) /\ i \in Below(r, Current(r).parent, ItsLevel(r))
             THEN Write(r, i, [View(r)[i] EXCEPT !.v = r])
             ELSE Nothing
          /\ handler' = Descended(r, i)
    /\ UNCHANGED <<cfg, used, snap, made>>

\* The current node is the same, a step further.
Stepped(r, step, found) ==
    [handler EXCEPT ![r].todo = <<[Head(@) EXCEPT !.step = step, !.found = found]>> \o Tail(@)]

\* persistHasOneDeepUpdate asks for the entity first, whatever key the node has.
GetOnly(r) ==
    /\ Walking(r) /\ ~TooDeep(r) /\ ~Elsewhere(r) /\ HasOne(r)
    /\ Current(r).step = "new"
    /\ LET there == Below(r, Current(r).parent, ItsLevel(r))
       IN handler' = IF there = {} THEN Stepped(r, "none", None)
                     ELSE Stepped(r, "found", CHOOSE i \in there : TRUE)
    /\ UNCHANGED <<cfg, table, used, dirty, touched, snap, made>>

PatchOnly(r) ==
    /\ Walking(r) /\ HasOne(r) /\ Current(r).step = "found"
    /\ LET there == Below(r, Current(r).parent, ItsLevel(r))
       IN IF there = {} \/ ~Sets(Current(r).node) THEN Nothing
          ELSE \E i \in there : Write(r, i, [View(r)[i] EXCEPT !.v = r])
    /\ handler' = Stepped(r, "patched", Current(r).found)
    /\ UNCHANGED <<cfg, used, snap, made>>

\* It reads the entity once more for the key its children are put below.
DescendOnly(r) ==
    /\ Walking(r) /\ HasOne(r) /\ Current(r).step = "patched"
    /\ LET there == Below(r, Current(r).parent, ItsLevel(r))
       IN handler' = Descended(r, IF there = {} THEN Current(r).found
                                  ELSE CHOOSE i \in there : TRUE)
    /\ UNCHANGED <<cfg, table, used, dirty, touched, snap, made>>

WalkDone(r) ==
    /\ handler[r].stage = "walk" /\ handler[r].todo = <<>>
    /\ Goes(r, "commit")
    /\ UNCHANGED <<cfg, table, used, dirty, touched, snap, made>>

-----------------------------------------------------------------------------

Link(r) == RefuseComposition(r) \/ ReadTarget(r) \/ ReadLinked(r) \/ NotThere(r) \/ Replace(r)
Entity(r) == PutEntity(r) \/ CheckForeignKey(r) \/ UpdateEntity(r) \/ CreateRoot(r) \/ EntityGone(r)
Walk(r) == \/ RefuseNode(r) \/ CreateNode(r) \/ PatchNode(r)
           \/ GetOnly(r) \/ PatchOnly(r) \/ DescendOnly(r) \/ WalkDone(r)

Next == \E r \in Req : Begin(r) \/ Link(r) \/ Entity(r) \/ Walk(r) \/ Commit(r) \/ StepFails(r)

Spec == Init /\ [][Next]_vars

-----------------------------------------------------------------------------
(* Properties.                                                             *)

Row  == [parent : Id \cup {None}, v : -1..Len(cfg.requests)]
ToDo == {t \in [node : Nodes, parent : Id, depth : Nat, found : Id \cup {None},
                 step : {"new", "none", "found", "patched"}] :
            t.step \in {"found", "patched"} => t.found \in Id}
Handler == [stage : Kinds \cup {"start", "replace", "update", "walk", "commit", "done"},
            answer : {"none", "ok", "error"}, id : Id \cup {None}, got : Row, todo : Seq(ToDo)]

TypeOK ==
    /\ cfg \in Configs
    /\ table \in [Id -> Row]
    /\ used \subseteq Id
    /\ handler \in [Req -> Handler]
    /\ snap \in [Req -> [Id -> Row]]
    /\ touched \in [Req -> SUBSET Id]
    /\ made \in [Req -> SUBSET [id : Id, parent : Id \cup {None}]]
    /\ DOMAIN dirty = Req
    /\ \A r \in Req :
          /\ DOMAIN dirty[r] \subseteq Id /\ dirty[r] \in [DOMAIN dirty[r] -> Row]
          /\ handler[r].stage = "replace" => handler[r].id \in Id

\* A deep insert that is about to succeed has created each entity of its payload
\* once, below the entity it is nested in; a write that failed in a transaction
\* has left nothing (persistDeepInsertGraph, withWriteTransaction).
GraphWholeOrNothing ==
    \A r \in Req :
        /\ Ask(r).kind = "insert" /\ handler[r].stage = "commit" =>
              /\ Cardinality(made[r]) = Ask(r).size
              /\ cfg.tx # "none" =>
                    \A m \in made[r] : View(r)[m.id] = [parent |-> m.parent, v |-> r]
        /\ handler[r].answer = "error" /\ cfg.tx # "none" =>
              \A i \in Id : table[i].v # r

Commits(r) == handler[r].stage = "commit" /\ handler'[r].answer = "ok"

\* The child of a composition stays below its parent, whatever links, patches and
\* deep updates race; only a PUT, which compares nothing, gives it to another one
\* (assertCompositionForeignKeyUnchanged, assertCompositionForeignKeyMatchesParent).
ComposedChildStays ==
    cfg.composed =>
        \A i \in DOMAIN cfg.rows :
            \/ table[i].parent = cfg.rows[i]
            \/ \E r \in Req : Ask(r).kind = "put" /\ Ask(r).id = i /\ table[i].parent = Ask(r).parent

\* At a snapshot isolation level a link or unlink changes nothing but the link it
\* was asked to: it undoes no PATCH of another property, and no link to another
\* parent, although it writes back the whole row it read (linkNavigationRef,
\* unlinkNavigationRef).
LinksChangeOnlyTheLink ==
    [][cfg.tx = "snapshot" =>
          \A r \in Req : Commits(r) /\ Ask(r).kind \in {"link", "unlink"} =>
              \A i \in Id : /\ table'[i].v = table[i].v
                            /\ Ask(r).kind = "unlink" /\ table'[i] # table[i] =>
                                  table[i].parent = Ask(r).parent]_vars

==============================================================================
