----------------------- MODULE CompositionDelete_proofs -----------------------
(***************************************************************************)
(* What composition deletes promise, for every number of requests, every   *)
(* schema and instance, every page size and every limit: a cascade that    *)
(* fails in a transaction leaves nothing, one that succeeds has deleted    *)
(* all it planned, and no cascade leaves an orphan it could have seen.     *)
(*                                                                         *)
(* The invariant has two parts.  BaseInv says where each request stands    *)
(* and what it has deleted; it is inductive by itself.  CascadeInv says    *)
(* what a plan owes to the relations it has read, in the finished nodes    *)
(* and in the calls of planCascadeForEntity that are still open.           *)
(***************************************************************************)
EXTENDS CompositionDelete, FiniteSetTheorems, WellFoundedInduction, TLAPS

-----------------------------------------------------------------------------
(* Stacks, nodes and relations.                                            *)

\* The head of a stack of calls is its first element; the rest moves up by one.
LEMMA TopOfStack ==
    ASSUME NEW s \in Seq(Frame), s # <<>>
    PROVE  /\ Len(s) \in Nat \ {0} /\ 1 \in DOMAIN s /\ DOMAIN s = 1..Len(s)
           /\ Head(s) = s[1] /\ s[1] \in Frame
           /\ Tail(s) \in Seq(Frame) /\ Len(Tail(s)) = Len(s) - 1
           /\ \A i \in 1..(Len(s) - 1) : Tail(s)[i] = s[i + 1]
OBVIOUS

\* A change of the innermost call leaves the calls under it alone.
LEMMA ReplaceTop ==
    ASSUME NEW s \in Seq(Frame), s # <<>>, NEW f \in Frame
    PROVE  LET t == [s EXCEPT ![1] = f]
           IN  /\ t \in Seq(Frame) /\ Len(t) = Len(s) /\ t # <<>>
               /\ t[1] = f /\ \A i \in 2..Len(s) : t[i] = s[i]
OBVIOUS

\* A call on top of a changed innermost call moves the others down by one.
LEMMA PushFrame ==
    ASSUME NEW s \in Seq(Frame), s # <<>>, NEW f \in Frame, NEW g \in Frame
    PROVE  LET t == <<f, g>> \o Tail(s)
           IN  /\ t \in Seq(Frame) /\ Len(t) = Len(s) + 1 /\ t # <<>>
               /\ t[1] = f /\ t[2] = g /\ \A i \in 2..Len(s) : t[i + 1] = s[i]
OBVIOUS

\* A nonempty set of nodes has a least one.
LEMMA FirstIsOfPage ==
    ASSUME NEW S \in SUBSET Node, S # {}
    PROVE  First(S) \in S
<1> DEFINE less == {ss \in Nat \X Nat : ss[1] < ss[2]}
<1>1. S \subseteq Nat
  BY NodeAssumption
<1>2. IsWellFoundedOn(less, Nat)
  BY NatLessThanWellFounded, Zenon DEF OpToRel
<1>3. \A x, y \in Nat : <<x, y>> \in less <=> x < y
  OBVIOUS
<1> HIDE DEF less
<1>4. PICK c \in S : \A d \in S : <<d, c>> \notin less
  BY <1>1, <1>2, WFMin, Zenon
<1>5. \A d \in S : ~(d < c)
  BY <1>1, <1>3, <1>4
<1>6. \A d \in S : c <= d
  BY <1>1, <1>5
<1> QED
  BY <1>6 DEF First

\* A call that is entered is a frame: the scenarios give each node its relations.
LEMMA EnterFrameType ==
    ASSUME TypeOK, NEW n \in Node
    PROVE  EnterFrame(n) \in Frame
BY ScenariosAssumption DEF TypeOK, Scenario, Frame, EnterFrame

\* The relations of a node, and what the links join.
LEMMA KeptType ==
    ASSUME TypeOK, NEW n \in Node
    PROVE  /\ world.cascade[n] \in Seq(Relation)
           /\ world.restrict[n] \in SUBSET Relation
           /\ Kept(n) \subseteq Relation
           /\ world.links \subseteq Node \X Relation \X Node
BY ScenariosAssumption DEF TypeOK, Scenario, Kept

-----------------------------------------------------------------------------
(* What a step leaves alone, and what it does to the calls of the plan.    *)

PerRequest(r) == <<pc[r], tx[r], stack[r], planned[r], plan[r], next[r], dead[r],
                   erased[r], read[r], status[r]>>

\* A step of one request changes no other request and inserts nothing.
LEMMA HandleStays ==
    ASSUME TypeOK, NEW r \in Req, Handle(r)
    PROVE  /\ cfg' = cfg /\ world' = world /\ delete' = delete
           /\ fresh' = fresh /\ late' = late
           /\ \A q \in Req \ {r} : PerRequest(q)' = PerRequest(q)
<1> USE DEF TypeOK, PerRequest, request, store, planning, Go, Fail, Abandon
<1>1. CASE \/ Begin(r) \/ BeginUnprotected(r) \/ BeginRefused(r)
           \/ LoadRoot(r) \/ RootMissing(r) \/ PlainDelete(r)
  BY <1>1 DEF Begin, BeginUnprotected, BeginRefused, LoadRoot, RootMissing, PlainDelete
<1>2. CASE CheckRestrict(r) \/ PageRefused(r) \/ ReadPage(r)
  BY <1>2 DEF CheckRestrict, PageRefused, ReadPage
<1>3. CASE Descend(r) \/ FinishNode(r)
  BY <1>3 DEF Descend, FinishNode
<1>4. CASE \/ CrossesDatasource(r) \/ DeleteMisses(r) \/ DeleteApplies(r)
           \/ Deadlocked(r) \/ StepFails(r)
  BY <1>4 DEF CrossesDatasource, DeleteMisses, DeleteApplies, Remove, Deadlocked, StepFails
<1>5. CASE Answer(r) \/ Commit(r) \/ CommitFails(r) \/ Rollback(r)
  BY <1>5 DEF Answer, Commit, CommitFails, Rollback
<1> QED
  BY <1>1, <1>2, <1>3, <1>4, <1>5 DEF Handle, Progress

\* The steps that do not plan leave the plan and the calls that make it alone.
LEMMA PlanningStays ==
    ASSUME TypeOK, NEW r \in Req, Handle(r),
           ~LoadRoot(r), ~PlainDelete(r), ~CheckRestrict(r), ~ReadPage(r),
           ~Descend(r), ~FinishNode(r)
    PROVE  UNCHANGED planning /\ (pc'[r] # "plan" \/ pc' = pc)
<1> USE DEF TypeOK, planning, store, request, Go, Fail, Abandon
<1>1. CASE \/ Begin(r) \/ BeginUnprotected(r) \/ BeginRefused(r) \/ RootMissing(r)
           \/ PageRefused(r) \/ CrossesDatasource(r)
  BY <1>1 DEF Begin, BeginUnprotected, BeginRefused, RootMissing, PageRefused,
              CrossesDatasource
<1>2. CASE \/ DeleteMisses(r) \/ DeleteApplies(r) \/ Deadlocked(r) \/ StepFails(r)
           \/ Answer(r) \/ Commit(r) \/ CommitFails(r) \/ Rollback(r)
  BY <1>2 DEF DeleteMisses, DeleteApplies, Remove, Deadlocked, StepFails, Answer,
              Commit, CommitFails, Rollback
<1> QED
  BY <1>1, <1>2 DEF Handle, Progress

\* A page holds nodes.
LEMMA PageType ==
    ASSUME TypeOK, NEW r \in Req, NEW n, NEW rel, NEW skip
    PROVE  Page(r, n, rel, skip) \in SUBSET Node
BY DEF TypeOK, Page, Children, Visible

\* What each step of the plan does to the innermost calls.
LEMMA PlanShape ==
    ASSUME TypeOK, NEW r \in Req
    PROVE  /\ LoadRoot(r) => stack'[r] = <<EnterFrame(Target(r))>>
           /\ Planning(r) =>
                /\ Top(r) = stack[r][1] /\ Top(r) \in Frame
                /\ CheckRestrict(r) /\ stack' # stack =>
                     stack'[r] = [stack[r] EXCEPT ![1] = [Top(r) EXCEPT !.checked = TRUE]]
                /\ Descend(r) /\ stack' # stack =>
                     stack'[r] =
                         <<EnterFrame(First(Top(r).page)),
                           [Top(r) EXCEPT !.page = Top(r).page \ {First(Top(r).page)}]>>
                             \o Tail(stack[r])
                /\ FinishNode(r) => stack'[r] = Tail(stack[r])
<1>1. stack \in [Req -> Seq(Frame)]
  BY DEF TypeOK
<1>2. LoadRoot(r) => stack'[r] = <<EnterFrame(Target(r))>>
  BY <1>1 DEF LoadRoot
<1> SUFFICES ASSUME Planning(r)
    PROVE  /\ Top(r) = stack[r][1] /\ Top(r) \in Frame
           /\ CheckRestrict(r) /\ stack' # stack =>
                stack'[r] = [stack[r] EXCEPT ![1] = [Top(r) EXCEPT !.checked = TRUE]]
           /\ Descend(r) /\ stack' # stack =>
                stack'[r] =
                    <<EnterFrame(First(Top(r).page)),
                      [Top(r) EXCEPT !.page = Top(r).page \ {First(Top(r).page)}]>>
                        \o Tail(stack[r])
           /\ FinishNode(r) => stack'[r] = Tail(stack[r])
  BY <1>2
<1>3. stack[r] \in Seq(Frame) /\ stack[r] # <<>>
  BY <1>1 DEF Planning
<1>4. Top(r) = stack[r][1] /\ Top(r) \in Frame
  BY <1>3, TopOfStack DEF Top
<1>5. CheckRestrict(r) /\ stack' # stack =>
         stack'[r] = [stack[r] EXCEPT ![1] = [Top(r) EXCEPT !.checked = TRUE]]
  BY <1>1, <1>4, Zenon DEF CheckRestrict
<1>6. Descend(r) /\ stack' # stack =>
         stack'[r] =
           <<EnterFrame(First(Top(r).page)),
             [Top(r) EXCEPT !.page = Top(r).page \ {First(Top(r).page)}]>>
               \o Tail(stack[r])
  BY <1>1, <1>4, Zenon DEF Descend
<1>7. FinishNode(r) => stack'[r] = Tail(stack[r])
  BY <1>1 DEF FinishNode
<1> QED
  BY <1>4, <1>5, <1>6, <1>7

-----------------------------------------------------------------------------
(* Types.                                                                  *)

\* What a page adds to a call.
LEMMA ReadPageShape ==
    ASSUME TypeOK, NEW r \in Req, ReadPage(r)
    PROVE  LET f     == Top(r)
               rel   == Head(f.rels)
               found == Page(r, f.node, rel, f.skip)
           IN  /\ f \in Frame /\ f = stack[r][1] /\ f.rels # <<>> /\ rel \in Relation
               /\ Tail(f.rels) \in Seq(Relation)
               /\ IF Short(found, rel)
                  THEN /\ stack'[r] = [stack[r] EXCEPT ![1] =
                             [f EXCEPT !.page = found, !.skip = 0, !.rels = Tail(f.rels)]]
                       /\ read'[r] = read[r] \cup {<<f.node, rel>>}
                  ELSE /\ stack'[r] = [stack[r] EXCEPT ![1] =
                             [f EXCEPT !.page = found, !.skip = f.skip + PageSize]]
                       /\ read' = read
<1>1. /\ stack \in [Req -> Seq(Frame)] /\ read \in [Req -> SUBSET (Node \X Relation)]
      /\ stack[r] \in Seq(Frame) /\ stack[r] # <<>>
  BY DEF TypeOK, ReadPage, Querying, Planning
<1>2. Top(r) \in Frame /\ Top(r) = stack[r][1] /\ Top(r).rels # <<>>
  BY <1>1, TopOfStack DEF Top, ReadPage, Querying
<1>3. Head(Top(r).rels) \in Relation /\ Tail(Top(r).rels) \in Seq(Relation)
  BY <1>2 DEF Frame
<1> QED
  BY <1>1, <1>2, <1>3, Zenon DEF ReadPage

\* The calls keep their type.
LEMMA StackType ==
    ASSUME TypeOK, NEW r \in Req, Handle(r)
    PROVE  stack'[r] \in Seq(Frame)
<1>1. stack[r] \in Seq(Frame) /\ Target(r) \in Node
  BY DEF TypeOK, Target, Delete
<1>2. Planning(r) => stack[r] # <<>> /\ Top(r) \in Frame
  BY PlanShape DEF Planning
<1>3. CASE LoadRoot(r)
  <2> DEFINE f == EnterFrame(Target(r))
  <2>1. f \in Frame
    BY <1>1, EnterFrameType
  <2>2. stack'[r] = <<f>>
    BY <1>3, PlanShape
  <2> HIDE DEF f
  <2> QED
    BY <2>1, <2>2
<1>4. CASE CheckRestrict(r) /\ stack' # stack
  <2> DEFINE f == [Top(r) EXCEPT !.checked = TRUE]
  <2>1. Planning(r) /\ f \in Frame
    BY <1>2, <1>4 DEF CheckRestrict, Frame
  <2>2. stack'[r] = [stack[r] EXCEPT ![1] = f]
    BY <1>4, <2>1, PlanShape
  <2> HIDE DEF f
  <2> QED
    BY <1>1, <1>2, <2>1, <2>2, ReplaceTop
<1>5. CASE ReadPage(r)
  <2>1. Planning(r)
    BY <1>5 DEF ReadPage, Querying
  <2> DEFINE found == Page(r, Top(r).node, Head(Top(r).rels), Top(r).skip)
             short == [Top(r) EXCEPT !.page = found, !.skip = 0, !.rels = Tail(Top(r).rels)]
             long  == [Top(r) EXCEPT !.page = found, !.skip = Top(r).skip + PageSize]
  <2>2. found \in SUBSET Node /\ PageSize \in Nat
    BY PageType, LimitsAssumption
  <2>3. Tail(Top(r).rels) \in Seq(Relation) /\ Top(r) \in Frame
    BY <1>5, ReadPageShape
  <2> HIDE DEF found
  <2>4. short \in Frame
    BY <2>2, <2>3 DEF Frame
  <2>5. long \in Frame
    <3>1. Top(r).skip + PageSize \in Nat
      BY <2>2, <2>3 DEF Frame
    <3> QED
      BY <2>2, <2>3, <3>1 DEF Frame
  <2>6. \/ stack'[r] = [stack[r] EXCEPT ![1] = short]
        \/ stack'[r] = [stack[r] EXCEPT ![1] = long]
    BY <1>5, ReadPageShape DEF found
  <2> HIDE DEF short, long
  <2> QED
    BY <1>1, <1>2, <2>1, <2>4, <2>5, <2>6, ReplaceTop
<1>6. CASE Descend(r) /\ stack' # stack
  <2>1. Planning(r) /\ Top(r).page # {} /\ Top(r).page \in SUBSET Node
    BY <1>2, <1>6 DEF Descend, Frame
  <2>2. First(Top(r).page) \in Node
    BY <2>1, FirstIsOfPage
  <2> DEFINE f == EnterFrame(First(Top(r).page))
             g == [Top(r) EXCEPT !.page = Top(r).page \ {First(Top(r).page)}]
  <2>3. f \in Frame /\ g \in Frame
    BY <1>2, <2>1, <2>2, EnterFrameType DEF Frame
  <2>4. stack'[r] = <<f, g>> \o Tail(stack[r])
    BY <1>6, <2>1, PlanShape
  <2> HIDE DEF f, g
  <2> QED
    BY <1>1, <1>2, <2>1, <2>3, <2>4, PushFrame
<1>7. CASE FinishNode(r)
  BY <1>1, <1>2, <1>7, PlanShape, TopOfStack DEF FinishNode
<1>8. CASE stack' = stack
  BY <1>1, <1>8
<1>9. CASE PlainDelete(r)
  BY <1>1, <1>9 DEF PlainDelete
<1> QED
  BY <1>3, <1>4, <1>5, <1>6, <1>7, <1>8, <1>9, PlanningStays DEF planning

\* A step assigns the stack of its own request.
LEMMA StackIsFunction ==
    ASSUME TypeOK, NEW r \in Req, Handle(r)
    PROVE  stack' \in [Req -> Seq(Frame)]
<1>1. stack \in [Req -> Seq(Frame)]
  BY DEF TypeOK
<1>2. stack' = [stack EXCEPT ![r] = stack'[r]]
  <2>1. CASE LoadRoot(r) \/ PlainDelete(r) \/ CheckRestrict(r)
    BY <1>1, <2>1, Zenon DEF LoadRoot, PlainDelete, CheckRestrict
  <2>2. CASE ReadPage(r)
    BY <1>1, <2>2, Zenon DEF ReadPage
  <2>3. CASE Descend(r) \/ FinishNode(r)
    BY <1>1, <2>3, Zenon DEF Descend, FinishNode
  <2>4. CASE stack' = stack
    BY <1>1, <2>4
  <2> QED
    BY <2>1, <2>2, <2>3, <2>4, PlanningStays DEF planning
<1> QED
  BY <1>1, <1>2, StackType

\* Every step of a request keeps the types.
LEMMA TypeHandle ==
    ASSUME TypeOK, NEW r \in Req, Handle(r)
    PROVE  TypeOK'
<1>1. stack' \in [Req -> Seq(Frame)]
  BY StackIsFunction
<1>2. /\ cfg' \in Config /\ world' \in Scenario /\ delete' \in [Req -> Delete]
      /\ fresh' \subseteq Node /\ late' \in [Req -> SUBSET Node]
  BY HandleStays DEF TypeOK
<1>3. /\ pc' \in [Req -> {"new", "load", "plan", "execute", "finish", "rollback", "done"}]
      /\ status' \in [Req -> {"pending"} \cup Answers]
  <2> USE DEF TypeOK, Go, Fail, Abandon, Answers, request, store, planning
  <2>1. CASE \/ Begin(r) \/ BeginUnprotected(r) \/ BeginRefused(r)
             \/ LoadRoot(r) \/ RootMissing(r) \/ PlainDelete(r)
    BY <2>1 DEF Begin, BeginUnprotected, BeginRefused, LoadRoot, RootMissing, PlainDelete
  <2>2. CASE CheckRestrict(r) \/ PageRefused(r) \/ ReadPage(r)
    BY <2>2 DEF CheckRestrict, PageRefused, ReadPage
  <2>3. CASE Descend(r) \/ FinishNode(r)
    BY <2>3 DEF Descend, FinishNode
  <2>4. CASE \/ CrossesDatasource(r) \/ DeleteMisses(r) \/ DeleteApplies(r)
             \/ Deadlocked(r) \/ StepFails(r)
    BY <2>4 DEF CrossesDatasource, DeleteMisses, DeleteApplies, Deadlocked, StepFails
  <2>5. CASE Answer(r) \/ Commit(r) \/ CommitFails(r) \/ Rollback(r)
    BY <2>5 DEF Answer, Commit, CommitFails, Rollback
  <2> QED
    BY <2>1, <2>2, <2>3, <2>4, <2>5 DEF Handle, Progress
<1>4. tx' \in [Req -> {"none", "open", "committed", "rolledback"}]
  <2> USE DEF TypeOK, Abandon
  <2>1. CASE Begin(r) \/ Commit(r) \/ CommitFails(r) \/ Rollback(r)
    BY <2>1 DEF Begin, Commit, CommitFails, Rollback
  <2>2. CASE UNCHANGED tx
    BY <2>2
  <2> QED
    BY <2>1, <2>2 DEF Handle, Progress, BeginUnprotected, BeginRefused, LoadRoot,
       RootMissing, PlainDelete, CheckRestrict, PageRefused, ReadPage, Descend, FinishNode,
       CrossesDatasource, DeleteMisses, DeleteApplies, Deadlocked, StepFails, Answer
<1>5. /\ planned' \in [Req -> 0..MaxEntities] /\ plan' \in [Req -> Seq(Node)]
      /\ read' \in [Req -> SUBSET (Node \X Relation)]
  <2>1. /\ planned \in [Req -> 0..MaxEntities] /\ plan \in [Req -> Seq(Node)]
        /\ read \in [Req -> SUBSET (Node \X Relation)]
        /\ Target(r) \in Node /\ plan[r] \in Seq(Node)
        /\ MaxEntities \in Nat \ {0}
    BY LimitsAssumption DEF TypeOK, Target, Delete
  <2>2. Planning(r) => Top(r).node \in Node /\ world.restrict[Top(r).node] \in SUBSET Relation
    BY PlanShape, KeptType DEF Frame
  <2>3. CASE LoadRoot(r)
    <3>1. plan' = plan /\ read' = read
      BY <2>3 DEF LoadRoot
    <3>2. planned' = [planned EXCEPT ![r] = IF Cascading(Target(r)) THEN 1 ELSE 0]
      BY <2>3 DEF LoadRoot
    <3> QED
      BY <2>1, <3>1, <3>2
  <2>4. CASE PlainDelete(r)
    BY <2>1, <2>4 DEF PlainDelete
  <2>5. CASE CheckRestrict(r)
    <3>1. planned' = planned /\ plan' = plan /\ Planning(r)
      BY <2>5 DEF CheckRestrict
    <3> DEFINE more == {Top(r).node} \X world.restrict[Top(r).node]
    <3>2. more \in SUBSET (Node \X Relation)
      BY <2>2, <3>1
    <3>3. read' = read \/ read' = [read EXCEPT ![r] = @ \cup more]
      BY <2>5, Zenon DEF CheckRestrict
    <3> HIDE DEF more
    <3> QED
      BY <2>1, <3>1, <3>2, <3>3
  <2>6. CASE ReadPage(r)
    <3> DEFINE more == {<<Top(r).node, Head(Top(r).rels)>>}
    <3>1. more \in SUBSET (Node \X Relation)
      <4>1. Top(r) \in Frame /\ Head(Top(r).rels) \in Relation
        BY <2>6, ReadPageShape
      <4> QED
        BY <4>1 DEF Frame
    <3>2. planned' = planned /\ plan' = plan
      BY <2>6 DEF ReadPage
    <3>3. read' = read \/ read' = [read EXCEPT ![r] = @ \cup more]
      BY <2>6, Zenon DEF ReadPage
    <3> HIDE DEF more
    <3> QED
      BY <2>1, <3>1, <3>2, <3>3
  <2>7. CASE Descend(r)
    <3>1. plan' = plan /\ read' = read
      BY <2>7 DEF Descend
    <3>2. \/ planned' = planned
          \/ planned[r] + 1 <= MaxEntities /\ planned' = [planned EXCEPT ![r] = @ + 1]
      BY <2>1, <2>7 DEF Descend, TooMany
    <3>3. planned[r] \in Nat
      BY <2>1
    <3>4. CASE planned' = planned
      BY <2>1, <3>1, <3>4
    <3>5. CASE planned[r] + 1 <= MaxEntities /\ planned' = [planned EXCEPT ![r] = @ + 1]
      <4>1. planned[r] + 1 \in 0..MaxEntities
        BY <2>1, <3>3, <3>5
      <4> QED
        BY <2>1, <3>1, <3>5, <4>1
    <3> QED
      BY <3>2, <3>4, <3>5
  <2>8. CASE FinishNode(r)
    <3>1. planned' = planned /\ read' = read /\ Top(r).node \in Node
      BY <2>2, <2>8 DEF FinishNode
    <3>2. plan' = [plan EXCEPT ![r] = Append(@, Top(r).node)]
      BY <2>8 DEF FinishNode
    <3> QED
      BY <2>1, <3>1, <3>2
  <2>9. CASE UNCHANGED planning
    BY <2>1, <2>9 DEF planning
  <2> QED
    BY <2>3, <2>4, <2>5, <2>6, <2>7, <2>8, <2>9, PlanningStays
<1>6. /\ rows' \subseteq Node /\ dead' \in [Req -> SUBSET Node]
      /\ erased' \in [Req -> SUBSET Node] /\ next' \in [Req -> Nat \ {0}]
  <2>1. /\ rows \subseteq Node /\ dead \in [Req -> SUBSET Node]
        /\ erased \in [Req -> SUBSET Node] /\ next \in [Req -> Nat \ {0}]
    BY DEF TypeOK
  <2>2. CASE DeleteApplies(r)
    <3>1. Current(r) \in rows
      BY <2>2 DEF DeleteApplies, NothingDeleted, Visible
    <3>2. next' = [next EXCEPT ![r] = @ + 1] /\ Remove(r)
      BY <2>2 DEF DeleteApplies
    <3> QED
      BY <2>1, <3>1, <3>2 DEF Remove
  <2>3. CASE Commit(r) \/ CommitFails(r) \/ Rollback(r)
    BY <2>1, <2>3 DEF Commit, CommitFails, Rollback, Abandon
  <2>4. CASE UNCHANGED <<rows, dead, erased, next>>
    BY <2>1, <2>4
  <2> QED
    BY <2>2, <2>3, <2>4 DEF Handle, Progress, Begin, BeginUnprotected, BeginRefused, LoadRoot,
       RootMissing, PlainDelete, CheckRestrict, PageRefused, ReadPage, Descend, FinishNode,
       CrossesDatasource, DeleteMisses, Deadlocked, StepFails, Answer, store
<1> QED
  BY <1>1, <1>2, <1>3, <1>4, <1>5, <1>6 DEF TypeOK

\* An insert keeps the types.
LEMMA TypeInsert ==
    ASSUME TypeOK, NEW n \in Node, Insert(n)
    PROVE  TypeOK'
<1>1. late' \in [Req -> SUBSET Node]
  BY DEF TypeOK, Insert
<1> QED
  BY <1>1 DEF TypeOK, Insert, request, planning

\* The initial states have the types.
LEMMA TypeInit == Init => TypeOK
BY ScenariosAssumption, DeletesAssumption, ConfigsAssumption, LimitsAssumption
   DEF Init, TypeOK, Scenario, Delete, Config, Answers

\* Every step keeps the types.
LEMMA TypeStep == TypeOK /\ [Next]_vars => TypeOK'
<1>1. TypeOK /\ UNCHANGED vars => TypeOK'
  BY DEF TypeOK, vars, request, store, planning
<1> QED
  BY <1>1, TypeHandle, TypeInsert DEF Next

\* Type correctness, for every number of requests, instance and limit.
THEOREM TypeCorrect == Spec => []TypeOK
<1> QED
  BY TypeInit, TypeStep, PTL DEF Spec

-----------------------------------------------------------------------------
(* The inductive invariant: what is in store, where a request stands and   *)
(* what it has deleted.                                                    *)

\* What is in store.  Rows that are deleted and not committed are still there,
\* each locked by the one transaction that deleted it; a row is deleted for good
\* by one request and does not come back.
StoreInv ==
    /\ IsFiniteSet(rows)
    /\ rows \cap fresh = {}
    /\ AtMostOne(world, rows)
    /\ \A r \in Req :
        /\ dead[r] \subseteq rows
        /\ erased[r] \cap (rows \cup fresh) = {}
        /\ dead[r] # {} => tx[r] = "open"
        /\ tx[r] \in {"open", "rolledback"} => erased[r] = {}
        /\ \A q \in Req \ {r} : dead[r] \cap dead[q] = {} /\ erased[r] \cap erased[q] = {}

\* The plan is complete: its last node is the entity the request is for.
Complete(r) ==
    /\ plan[r] # <<>>
    /\ plan[r][Len(plan[r])] = Target(r)
    /\ Cascading(Target(r)) => planned[r] = Len(plan[r])

\* Where a request stands.
PlaceInv(r) ==
    /\ pc[r] = "new" => tx[r] = "none"
    /\ pc[r] = "rollback" => tx[r] = "open"
    /\ tx[r] \in {"committed", "rolledback"} => pc[r] = "done"
    /\ pc[r] \in {"new", "load"} => plan[r] = <<>>
    /\ pc[r] \in {"new", "load", "plan"} => next[r] = 1
    /\ pc[r] = "plan" =>
        /\ stack[r] # <<>>
        /\ stack[r][Len(stack[r])].node = Target(r)
        /\ Cascading(Target(r)) => planned[r] = Len(plan[r]) + Len(stack[r])
        /\ ~Cascading(Target(r)) =>
             Len(stack[r]) = 1 /\ stack[r][1].rels = <<>> /\ stack[r][1].page = {}
    /\ pc[r] \in {"execute", "finish"} => Complete(r)
    /\ pc[r] = "execute" => next[r] \in 1..Len(plan[r])
    /\ pc[r] = "finish" => next[r] = Len(plan[r]) + 1
    /\ status[r] = "success" =>
        /\ pc[r] = "done" /\ tx[r] \in {"none", "committed"}
        /\ Complete(r) /\ next[r] = Len(plan[r]) + 1

\* The first j nodes of a plan.
FirstOf(p, j) == {p[k] : k \in 1..j}

\* A request has deleted what stands in front of next, each of it once.
DeletedInv(r) ==
    /\ next[r] <= Len(plan[r]) + 1
    /\ tx[r] # "rolledback" =>
        /\ dead[r] \cup erased[r] = FirstOf(plan[r], next[r] - 1)
        /\ \A k, l \in 1..(next[r] - 1) : plan[r][k] = plan[r][l] => k = l

RequestInv == \A r \in Req : PlaceInv(r) /\ DeletedInv(r)

\* What a step does to the rows: nothing; a request deletes its current row; it
\* ends its transaction.
LEMMA RowSteps ==
    ASSUME TypeOK, NEW r \in Req, Handle(r)
    PROVE  \/ /\ UNCHANGED <<rows, dead, erased>>
              /\ tx' = tx \/ (pc[r] = "new" /\ tx' = [tx EXCEPT ![r] = "open"])
           \/ DeleteApplies(r)
           \/ Commit(r)
           \/ CommitFails(r) \/ Rollback(r)
BY DEF Handle, Progress, Begin, BeginUnprotected, BeginRefused, LoadRoot,
       RootMissing, PlainDelete, CheckRestrict, PageRefused, ReadPage, Descend, FinishNode,
       CrossesDatasource, DeleteMisses, Deadlocked, StepFails, Answer, store

\* What the service starts with satisfies the invariant of the store.
LEMMA StoreInit == Init => StoreInv
<1> SUFFICES ASSUME Init PROVE StoreInv
  OBVIOUS
<1>1. /\ IsFiniteSet(world.present) /\ world.present \cap world.fresh = {}
      /\ AtMostOne(world, world.present)
  BY ScenariosAssumption DEF Init
<1> QED
  BY <1>1 DEF Init, StoreInv

\* Deletes, commits and rollbacks keep it: a delete takes a row that nobody has locked.
LEMMA StoreHandle ==
    ASSUME TypeOK, StoreInv, RequestInv, NEW r \in Req, Handle(r)
    PROVE  StoreInv'
<1>0. /\ world' = world /\ fresh' = fresh
      /\ dead \in [Req -> SUBSET Node] /\ erased \in [Req -> SUBSET Node]
      /\ tx \in [Req -> {"none", "open", "committed", "rolledback"}]
  BY HandleStays DEF TypeOK
<1>1. CASE /\ UNCHANGED <<rows, dead, erased>>
           /\ tx' = tx \/ (pc[r] = "new" /\ tx' = [tx EXCEPT ![r] = "open"])
  <2>1. pc[r] = "new" => erased[r] = {}
    <3>1. pc[r] = "new" => next[r] = 1 /\ tx[r] = "none"
      BY DEF RequestInv, PlaceInv
    <3>2. 1 - 1 = 0 /\ FirstOf(plan[r], 0) = {}
      BY DEF FirstOf
    <3>3. tx[r] # "rolledback" => dead[r] \cup erased[r] = FirstOf(plan[r], next[r] - 1)
      BY DEF RequestInv, DeletedInv
    <3> QED
      BY <3>1, <3>2, <3>3
  <2> QED
    BY <1>0, <1>1, <2>1 DEF StoreInv
<1>2. CASE DeleteApplies(r)
  <2> DEFINE c == Current(r)
  <2>1. /\ c \in rows \ dead[r] /\ \A q \in Req \ {r} : c \notin dead[q]
        /\ tx' = tx /\ Remove(r) /\ tx[r] # "rolledback"
    <3>1. pc[r] = "execute"
      BY <1>2 DEF DeleteApplies, Deleting
    <3> QED
      BY <1>2, <3>1 DEF DeleteApplies, Locked, NothingDeleted, Visible, RequestInv, PlaceInv
  <2>2. IsFiniteSet(rows \ {c}) /\ AtMostOne(world, rows \ {c})
    BY FS_RemoveElement DEF StoreInv, AtMostOne
  <2>3. CASE tx[r] = "open"
    <3>1. /\ dead' = [dead EXCEPT ![r] = @ \cup {c}]
          /\ rows' = rows /\ erased' = erased
      BY <2>1, <2>3 DEF Remove
    <3> HIDE DEF c
    <3> QED
      BY <1>0, <2>1, <2>3, <3>1 DEF StoreInv
  <2>4. CASE tx[r] # "open"
    <3>1. /\ rows' = rows \ {c} /\ erased' = [erased EXCEPT ![r] = @ \cup {c}]
          /\ dead' = dead
      BY <2>1, <2>4 DEF Remove
    <3> HIDE DEF c
    <3> QED
      BY <1>0, <2>1, <2>2, <2>4, <3>1 DEF StoreInv
  <2> QED
    BY <2>3, <2>4
<1>3. CASE Commit(r)
  <2>1. /\ rows' = rows \ dead[r] /\ erased' = [erased EXCEPT ![r] = @ \cup dead[r]]
        /\ dead' = [dead EXCEPT ![r] = {}] /\ tx' = [tx EXCEPT ![r] = "committed"]
    BY <1>3 DEF Commit
  <2>2. IsFiniteSet(rows \ dead[r]) /\ AtMostOne(world, rows \ dead[r])
    BY FS_Difference DEF StoreInv, AtMostOne
  <2> QED
    BY <1>0, <2>1, <2>2 DEF StoreInv
<1>4. CASE CommitFails(r) \/ Rollback(r)
  <2>1. /\ rows' = rows /\ erased' = erased
        /\ dead' = [dead EXCEPT ![r] = {}] /\ tx' = [tx EXCEPT ![r] = "rolledback"]
    BY <1>4 DEF CommitFails, Rollback, Abandon
  <2>2. tx[r] = "open"
    BY <1>4 DEF CommitFails, Rollback, RequestInv, PlaceInv
  <2> QED
    BY <1>0, <2>1, <2>2 DEF StoreInv
<1> QED
  BY <1>1, <1>2, <1>3, <1>4, RowSteps

\* An insert keeps it: the row was never there.
LEMMA StoreInsert ==
    ASSUME TypeOK, StoreInv, NEW n \in Node, Insert(n)
    PROVE  StoreInv'
<1>1. /\ rows' = rows \cup {n} /\ fresh' = fresh \ {n} /\ n \in fresh
      /\ AtMostOne(world, rows \cup {n}) /\ world' = world
      /\ dead' = dead /\ erased' = erased /\ tx' = tx
  BY DEF Insert, request
<1>2. IsFiniteSet(rows \cup {n})
  BY FS_AddElement DEF StoreInv
<1> QED
  BY <1>1, <1>2 DEF StoreInv

\* What PlaceInv and DeletedInv say of a request depends on nothing else.
LEMMA RequestStays ==
    ASSUME NEW r \in Req, PlaceInv(r), DeletedInv(r), PerRequest(r)' = PerRequest(r),
           world' = world, delete' = delete
    PROVE  PlaceInv(r)' /\ DeletedInv(r)'
<1>1. /\ pc'[r] = pc[r] /\ tx'[r] = tx[r] /\ stack'[r] = stack[r] /\ planned'[r] = planned[r]
      /\ plan'[r] = plan[r] /\ next'[r] = next[r] /\ dead'[r] = dead[r]
      /\ erased'[r] = erased[r] /\ status'[r] = status[r]
  BY DEF PerRequest
<1>2. Target(r)' = Target(r) /\ Cascading(Target(r))' = Cascading(Target(r))
  BY DEF Target, Cascading
<1>3. Complete(r)' <=> Complete(r)
  BY <1>1, <1>2 DEF Complete, Cascading, Target
<1>4. PlaceInv(r)'
  BY <1>1, <1>2, <1>3 DEF PlaceInv, Cascading, Target
<1>5. DeletedInv(r)'
  BY <1>1 DEF DeletedInv
<1> QED
  BY <1>4, <1>5

\* A page changes the innermost call and keeps its node.
LEMMA ReadPageTop ==
    ASSUME TypeOK, NEW r \in Req, ReadPage(r)
    PROVE  \E f \in Frame : /\ stack'[r] = [stack[r] EXCEPT ![1] = f]
                            /\ f.node = Top(r).node
<1> DEFINE found == Page(r, Top(r).node, Head(Top(r).rels), Top(r).skip)
           short == [Top(r) EXCEPT !.page = found, !.skip = 0, !.rels = Tail(Top(r).rels)]
           long  == [Top(r) EXCEPT !.page = found, !.skip = Top(r).skip + PageSize]
<1>1. found \in SUBSET Node /\ PageSize \in Nat
  BY PageType, LimitsAssumption
<1>2. Tail(Top(r).rels) \in Seq(Relation) /\ Top(r) \in Frame
  BY ReadPageShape
<1>3. \/ stack'[r] = [stack[r] EXCEPT ![1] = short]
      \/ stack'[r] = [stack[r] EXCEPT ![1] = long]
  BY ReadPageShape
<1> HIDE DEF found
<1>4. short \in Frame /\ short.node = Top(r).node
  BY <1>1, <1>2 DEF Frame
<1>5. long \in Frame /\ long.node = Top(r).node
  <2>1. Top(r).skip + PageSize \in Nat
    BY <1>1, <1>2 DEF Frame
  <2> QED
    BY <1>1, <1>2, <2>1 DEF Frame
<1> QED
  BY <1>3, <1>4, <1>5

\* A row that is not entered is refused.
LEMMA DescendFails ==
    ASSUME TypeOK, NEW r \in Req, Descend(r), stack' = stack
    PROVE  Fail(r, "400") /\ planned' = planned
<1> DEFINE f == EnterFrame(First(Top(r).page))
           g == [Top(r) EXCEPT !.page = Top(r).page \ {First(Top(r).page)}]
<1>1. /\ stack \in [Req -> Seq(Frame)] /\ stack[r] \in Seq(Frame) /\ stack[r] # <<>>
      /\ Planning(r) /\ Top(r).page # {}
  BY DEF TypeOK, Descend, Planning
<1>2. Top(r) \in Frame
  BY <1>1, PlanShape
<1>3. First(Top(r).page) \in Node
  BY <1>1, <1>2, FirstIsOfPage DEF Frame
<1>4. f \in Frame /\ g \in Frame
  BY <1>2, <1>3, EnterFrameType DEF Frame
<1>5. \/ Fail(r, "400") /\ planned' = planned
      \/ stack' = [stack EXCEPT ![r] = <<f, g>> \o Tail(stack[r])]
  BY Zenon DEF Descend
<1> HIDE DEF f, g
<1>6. Len(<<f, g>> \o Tail(stack[r])) = Len(stack[r]) + 1 /\ Len(stack[r]) \in Nat
  BY <1>1, <1>4, PushFrame
<1>7. stack'[r] # <<f, g>> \o Tail(stack[r])
  BY <1>6
<1> QED
  BY <1>1, <1>5, <1>7

\* A step of a request takes it from one place of the handler to the next.
LEMMA PlaceHandle ==
    ASSUME TypeOK, NEW r \in Req, PlaceInv(r), Handle(r)
    PROVE  PlaceInv(r)'
<1>1. /\ world' = world /\ delete' = delete /\ Target(r)' = Target(r)
      /\ \A n : Cascading(n)' = Cascading(n)
  BY HandleStays DEF Target, Cascading
<1>2. /\ pc[r] \in {"new", "load", "plan", "execute", "finish", "rollback", "done"}
      /\ pc \in [Req -> {"new", "load", "plan", "execute", "finish", "rollback", "done"}]
      /\ tx \in [Req -> {"none", "open", "committed", "rolledback"}]
      /\ plan \in [Req -> Seq(Node)] /\ plan[r] \in Seq(Node) /\ stack[r] \in Seq(Frame)
      /\ planned \in [Req -> 0..MaxEntities] /\ next \in [Req -> Nat \ {0}]
      /\ status \in [Req -> {"pending"} \cup Answers]
      /\ Target(r) \in Node
  BY DEF TypeOK, Answers, Target, Delete
<1>3. CASE UNCHANGED planning /\ next' = next /\ tx' = tx /\ \E a \in Answers \ {"success"} : Fail(r, a)
           /\ pc[r] \in {"new", "load", "plan", "execute", "finish"}
  BY <1>1, <1>2, <1>3 DEF PlaceInv, Complete, planning, Fail, Go
<1>4. CASE Begin(r) \/ BeginUnprotected(r)
  BY <1>1, <1>2, <1>4 DEF Begin, BeginUnprotected, Go, PlaceInv, Complete, planning
<1>5. CASE Answer(r) \/ Commit(r) \/ CommitFails(r) \/ Rollback(r)
  BY <1>1, <1>2, <1>5
     DEF Answer, Commit, CommitFails, Rollback, Abandon, Go, PlaceInv, Complete, planning
<1>6. CASE LoadRoot(r)
  <2> DEFINE f == EnterFrame(Target(r))
  <2>1. stack'[r] = <<f>>
    BY <1>6, PlanShape
  <2>2. /\ f.node = Target(r) /\ f.page = {}
        /\ ~Cascading(Target(r)) => f.rels = <<>>
    BY DEF EnterFrame, Cascading
  <2>3. /\ pc' = [pc EXCEPT ![r] = "plan"] /\ pc[r] = "load"
        /\ planned' = [planned EXCEPT ![r] = IF Cascading(Target(r)) THEN 1 ELSE 0]
        /\ plan' = plan /\ tx' = tx /\ next' = next /\ status' = status
    BY <1>6 DEF LoadRoot, Go
  <2> HIDE DEF f
  <2>4. stack'[r] # <<>> /\ Len(stack'[r]) = 1 /\ stack'[r][1] = f
    BY <2>1
  <2>5. plan[r] = <<>> /\ Len(plan[r]) = 0 /\ next[r] = 1 /\ tx[r] \notin {"committed", "rolledback"}
        /\ status[r] # "success"
    BY <2>3 DEF PlaceInv
  <2> QED
    BY <1>1, <1>2, <2>2, <2>3, <2>4, <2>5 DEF PlaceInv, Complete
<1>7. CASE PlainDelete(r)
  <2>1. ~Cascading(Target(r))
    <3>1. world.cascade[Target(r)] \in Seq(Relation) /\ Kept(Target(r)) = {}
      BY <1>2, <1>7, KeptType DEF PlainDelete, Composed
    <3>2. \A i \in DOMAIN world.cascade[Target(r)] : world.cascade[Target(r)][i] \in Kept(Target(r))
      BY DEF Kept
    <3>3. \A p \in Seq(Relation) : DOMAIN p = {} => p = <<>>
      OBVIOUS
    <3>4. DOMAIN world.cascade[Target(r)] = {}
      BY <3>1, <3>2
    <3> QED
      BY <3>1, <3>3, <3>4, Zenon DEF Cascading
  <2>2. plan'[r] = <<Target(r)>> /\ pc[r] = "load" /\ pc'[r] = "execute"
        /\ next' = next /\ tx' = tx /\ status' = status
    BY <1>2, <1>7 DEF PlainDelete, Go
  <2> QED
    BY <1>1, <2>1, <2>2 DEF PlaceInv, Complete
<1>8. CASE Planning(r) /\ (CheckRestrict(r) \/ ReadPage(r)) /\ stack' # stack
  <2>1. stack[r] # <<>> /\ Top(r) = stack[r][1] /\ Top(r) \in Frame
    BY <1>8, PlanShape DEF Planning
  <2>2. PICK f \in Frame :
          /\ stack'[r] = [stack[r] EXCEPT ![1] = f] /\ f.node = Top(r).node
          /\ ~Cascading(Target(r)) => f.rels = <<>> /\ f.page = {}
    <3>1. CASE CheckRestrict(r)
      <4>1. stack'[r] = [stack[r] EXCEPT ![1] = [Top(r) EXCEPT !.checked = TRUE]]
        BY <1>8, <3>1, PlanShape
      <4>2. ~Cascading(Target(r)) => Top(r).rels = <<>> /\ Top(r).page = {}
        BY <1>8, <2>1 DEF PlaceInv, Planning
      <4>3. PICK f : f = [Top(r) EXCEPT !.checked = TRUE]
        OBVIOUS
      <4>4. f \in Frame /\ f.node = Top(r).node /\ f.rels = Top(r).rels /\ f.page = Top(r).page
        BY <2>1, <4>3 DEF Frame
      <4> QED
        BY <4>1, <4>2, <4>3, <4>4
    <3>2. CASE ReadPage(r)
      <4>1. Cascading(Target(r))
        BY <1>8, <2>1, <3>2 DEF PlaceInv, Planning, ReadPage, Querying
      <4> QED
        BY <3>2, <4>1, ReadPageTop
    <3> QED
      BY <1>8, <3>1, <3>2
  <2>3. /\ stack'[r] # <<>> /\ Len(stack'[r]) = Len(stack[r]) /\ stack'[r][1] = f
        /\ stack'[r][Len(stack'[r])].node = stack[r][Len(stack[r])].node
    <3>1. \A i \in 2..Len(stack[r]) : stack'[r][i] = stack[r][i]
      BY <1>2, <2>1, <2>2, ReplaceTop
    <3>2. stack'[r] # <<>> /\ Len(stack'[r]) = Len(stack[r]) /\ stack'[r][1] = f
      BY <1>2, <2>1, <2>2, ReplaceTop
    <3>3. Len(stack[r]) \in Nat \ {0}
      BY <1>2, <2>1
    <3> QED
      BY <2>1, <2>2, <3>1, <3>2, <3>3
  <2>4. /\ pc' = pc /\ pc[r] = "plan" /\ planned' = planned /\ plan' = plan
        /\ tx' = tx /\ next' = next /\ status' = status
    <3>1. CASE CheckRestrict(r)
      BY <1>8, <3>1 DEF CheckRestrict, Planning
    <3>2. CASE ReadPage(r)
      BY <1>8, <3>2 DEF ReadPage, Planning
    <3> QED
      BY <1>8, <3>1, <3>2
  <2> QED
    BY <1>1, <1>2, <2>2, <2>3, <2>4 DEF PlaceInv, Complete
<1>9. CASE Descend(r) /\ stack' # stack
  <2> DEFINE f == EnterFrame(First(Top(r).page))
             g == [Top(r) EXCEPT !.page = Top(r).page \ {First(Top(r).page)}]
  <2>1. /\ Planning(r) /\ stack[r] # <<>> /\ pc[r] = "plan"
        /\ Top(r) = stack[r][1] /\ Top(r) \in Frame /\ Top(r).page # {}
    BY <1>9, PlanShape DEF Descend, Planning
  <2>2. stack'[r] = <<f, g>> \o Tail(stack[r])
    BY <1>9, <2>1, PlanShape
  <2>3. g.node = stack[r][1].node /\ Cascading(Target(r))
    BY <2>1 DEF Frame, PlaceInv
  <2>4. f \in Frame /\ g \in Frame
    <3>1. Top(r).page \in SUBSET Node /\ First(Top(r).page) \in Node
      BY <2>1, FirstIsOfPage DEF Frame
    <3> QED
      BY <2>1, <3>1, EnterFrameType DEF Frame
  <2>5. /\ planned' = [planned EXCEPT ![r] = @ + 1] /\ pc' = pc /\ plan' = plan
        /\ tx' = tx /\ next' = next /\ status' = status
    BY <1>9 DEF Descend
  <2> HIDE DEF f, g
  <2>6. /\ stack'[r] # <<>> /\ Len(stack'[r]) = Len(stack[r]) + 1
        /\ stack'[r][Len(stack'[r])].node = stack[r][Len(stack[r])].node
    <3>1. /\ Len(stack'[r]) = Len(stack[r]) + 1 /\ stack'[r] # <<>> /\ stack'[r][2] = g
          /\ \A i \in 2..Len(stack[r]) : stack'[r][i + 1] = stack[r][i]
      BY <1>2, <2>1, <2>2, <2>4, PushFrame
    <3>2. Len(stack[r]) \in Nat \ {0}
      BY <1>2, <2>1
    <3> QED
      BY <2>3, <3>1, <3>2
  <2>7. planned'[r] = planned[r] + 1 /\ planned[r] \in Nat /\ Len(plan[r]) \in Nat
        /\ Len(stack[r]) \in Nat
    BY <1>2, <2>5
  <2>8. /\ pc'[r] = "plan" /\ plan'[r] = plan[r] /\ tx'[r] = tx[r] /\ next'[r] = next[r]
        /\ status'[r] = status[r]
    BY <2>1, <2>5
  <2>9. planned'[r] = Len(plan'[r]) + Len(stack'[r])
    <3>1. planned[r] = Len(plan[r]) + Len(stack[r])
      BY <2>1, <2>3 DEF PlaceInv
    <3> DEFINE a == Len(plan[r])
               b == Len(stack[r])
               b2 == Len(stack'[r])
    <3>2. a \in Nat /\ b \in Nat /\ b2 = b + 1 /\ planned'[r] = (a + b) + 1
      BY <2>6, <2>7, <3>1
    <3>3. plan'[r] = plan[r]
      BY <2>8
    <3> HIDE DEF a, b, b2
    <3>4. planned'[r] = a + b2
      BY <3>2
    <3> QED
      BY <3>3, <3>4 DEF a, b2
  <2>10. stack'[r][Len(stack'[r])].node = Target(r)
    BY <2>1, <2>6 DEF PlaceInv
  <2> QED
    BY <1>1, <2>1, <2>3, <2>6, <2>8, <2>9, <2>10 DEF PlaceInv
<1>10. CASE FinishNode(r)
  <2>1. /\ Planning(r) /\ pc[r] = "plan" /\ stack[r] # <<>> /\ stack'[r] = Tail(stack[r])
        /\ Top(r) = stack[r][1] /\ Top(r) \in Frame
    BY <1>10, PlanShape DEF FinishNode, Planning
  <2>2. /\ plan' = [plan EXCEPT ![r] = Append(@, Top(r).node)]
        /\ pc' = IF Len(stack[r]) = 1 THEN [pc EXCEPT ![r] = "execute"] ELSE pc
        /\ planned' = planned /\ tx' = tx /\ next' = next /\ status' = status
    BY <1>10 DEF FinishNode
  <2>3. /\ Len(stack'[r]) = Len(stack[r]) - 1 /\ Len(stack[r]) \in Nat \ {0}
        /\ \A i \in 1..(Len(stack[r]) - 1) : stack'[r][i] = stack[r][i + 1]
    BY <1>2, <2>1, TopOfStack
  <2>4. /\ Top(r).node \in Node /\ plan'[r] # <<>>
        /\ Len(plan'[r]) = Len(plan[r]) + 1 /\ plan'[r][Len(plan'[r])] = Top(r).node
        /\ Len(plan[r]) \in Nat
    <3> DEFINE n == Top(r).node
    <3>1. n \in Node /\ plan'[r] = Append(plan[r], n) /\ plan[r] \in Seq(Node)
      BY <1>2, <2>1, <2>2 DEF Frame
    <3> HIDE DEF n
    <3>2. plan'[r] # <<>> /\ Len(plan'[r]) = Len(plan[r]) + 1
          /\ plan'[r][Len(plan'[r])] = n /\ Len(plan[r]) \in Nat
      BY <3>1
    <3> QED
      BY <3>1, <3>2 DEF n
  <2>5. CASE Len(stack[r]) = 1
    <3>1. Complete(r)'
      BY <1>1, <2>1, <2>2, <2>4, <2>5 DEF PlaceInv, Complete
    <3> QED
      BY <1>1, <1>2, <2>1, <2>2, <2>4, <2>5, <3>1 DEF PlaceInv
  <2>6. CASE Len(stack[r]) # 1
    <3>1. /\ stack'[r] # <<>> /\ Cascading(Target(r))
          /\ stack'[r][Len(stack'[r])].node = stack[r][Len(stack[r])].node
      <4>1. /\ Len(stack[r]) - 1 \in 1..(Len(stack[r]) - 1)
            /\ (Len(stack[r]) - 1) + 1 = Len(stack[r])
        <5>1. Len(stack[r]) \in Nat /\ Len(stack[r]) >= 2
          <6>1. \A m \in Nat \ {0} : m # 1 => m \in Nat /\ m >= 2
            OBVIOUS
          <6>2. Len(stack[r]) \in Nat \ {0}
            BY <2>3
          <6> QED
            BY <2>6, <6>1, <6>2, Zenon
        <5> QED
          BY <5>1
      <4>2. stack'[r] # <<>> /\ Len(stack'[r]) = Len(stack[r]) - 1
        <5>1. stack'[r] \in Seq(Frame) /\ Len(stack'[r]) # 0
          BY <1>2, <2>1, <2>3, <2>6, TopOfStack
        <5>2. stack'[r] # <<>>
          BY <5>1
        <5> QED
          BY <2>3, <5>2, Zenon
      <4>3. stack'[r][Len(stack[r]) - 1] = stack[r][Len(stack[r])]
        BY <2>3, <4>1
      <4>4. Cascading(Target(r))
        BY <2>1, <2>6 DEF PlaceInv
      <4> QED
        BY <4>2, <4>3, <4>4, Zenon
    <3>2. /\ pc'[r] = "plan" /\ tx'[r] = tx[r] /\ next'[r] = next[r] /\ status'[r] = status[r]
          /\ planned'[r] = planned[r]
      BY <1>2, <2>1, <2>2, <2>6
    <3>3. planned'[r] = Len(plan'[r]) + Len(stack'[r])
      <4>1. planned[r] = Len(plan[r]) + Len(stack[r])
        BY <2>1, <3>1 DEF PlaceInv
      <4>2. /\ Len(plan'[r]) = Len(plan[r]) + 1 /\ Len(plan[r]) \in Nat
            /\ Len(stack'[r]) = Len(stack[r]) - 1 /\ Len(stack[r]) \in Nat
        BY <2>3, <2>4
      <4> DEFINE a == Len(plan[r])
                 b == Len(stack[r])
                 a2 == Len(plan'[r])
                 b2 == Len(stack'[r])
      <4>3. /\ a \in Nat /\ b \in Nat /\ a2 = a + 1 /\ b2 = b - 1
            /\ planned'[r] = a + b
        BY <3>2, <4>1, <4>2
      <4> HIDE DEF a, b, a2, b2
      <4>4. planned'[r] = a2 + b2
        BY <4>3
      <4> QED
        BY <4>4 DEF a2, b2
    <3>4. stack'[r][Len(stack'[r])].node = Target(r)
      BY <2>1, <3>1 DEF PlaceInv
    <3> QED
      BY <1>1, <2>1, <3>1, <3>2, <3>3, <3>4 DEF PlaceInv
  <2> QED
    BY <2>5, <2>6
<1>11. CASE DeleteApplies(r)
  <2>1. /\ UNCHANGED planning /\ tx' = tx /\ status' = status /\ pc[r] = "execute"
        /\ next' = [next EXCEPT ![r] = @ + 1]
        /\ pc' = IF next[r] = Len(plan[r]) THEN [pc EXCEPT ![r] = "finish"] ELSE pc
    BY <1>11 DEF DeleteApplies, Deleting, IsRoot
  <2>2. Len(plan[r]) \in Nat /\ next[r] \in 1..Len(plan[r]) /\ next'[r] = next[r] + 1
    BY <1>2, <2>1 DEF PlaceInv
  <2> QED
    BY <1>1, <1>2, <2>1, <2>2 DEF PlaceInv, Complete, planning
<1>12. CASE stack' = stack /\ (CheckRestrict(r) \/ Descend(r))
  <2>1. \/ UNCHANGED <<pc, planned, plan, tx, next, status>>
        \/ /\ \E a \in Answers \ {"success"} : Fail(r, a)
           /\ UNCHANGED <<planned, plan, tx, next>> /\ pc[r] = "plan"
    <3>1. CASE CheckRestrict(r)
      <4>1. pc[r] = "plan" /\ UNCHANGED <<planned, plan, tx, next>>
        BY <3>1 DEF CheckRestrict, Planning
      <4>2. Fail(r, "409") \/ UNCHANGED <<pc, status>>
        BY <3>1 DEF CheckRestrict
      <4> QED
        BY <4>1, <4>2 DEF Answers
    <3>2. CASE Descend(r)
      <4>1. pc[r] = "plan" /\ UNCHANGED <<plan, tx, next>>
        BY <3>2 DEF Descend, Planning
      <4>2. Fail(r, "400") /\ planned' = planned
        BY <1>12, <3>2, DescendFails
      <4> QED
        BY <4>1, <4>2 DEF Answers
    <3> QED
      BY <1>12, <3>1, <3>2
  <2> QED
    BY <1>1, <1>2, <1>12, <2>1 DEF PlaceInv, Complete, Fail, Go
<1>13. CASE \/ BeginRefused(r) \/ RootMissing(r) \/ PageRefused(r) \/ CrossesDatasource(r)
            \/ DeleteMisses(r) \/ Deadlocked(r) \/ StepFails(r)
  <2>1. pc[r] \in {"new", "load", "plan", "execute", "finish"}
    BY <1>13 DEF BeginRefused, RootMissing, PageRefused, Querying, Planning,
       CrossesDatasource, DeleteMisses, Deleting, Deadlocked, WaitsFor, StepFails
  <2>2. UNCHANGED planning /\ next' = next /\ tx' = tx
    BY <1>13 DEF BeginRefused, RootMissing, PageRefused, CrossesDatasource, DeleteMisses,
       Deadlocked, StepFails
  <2>3. \E a \in Answers \ {"success"} : Fail(r, a)
    BY <1>13 DEF BeginRefused, RootMissing, PageRefused, CrossesDatasource, DeleteMisses,
       Deadlocked, StepFails, Answers
  <2> QED
    BY <1>3, <2>1, <2>2, <2>3
<1> QED
  <2>1. ReadPage(r) /\ stack' = stack => UNCHANGED <<pc, planned, plan, tx, next, status>>
    BY DEF ReadPage
  <2>2. ReadPage(r) /\ stack' = stack => PlaceInv(r)'
    BY <1>1, <2>1 DEF PlaceInv, Complete
  <2>3. CheckRestrict(r) \/ ReadPage(r) => Planning(r)
    BY DEF CheckRestrict, ReadPage, Querying
  <2> QED
    BY <1>4, <1>5, <1>6, <1>7, <1>8, <1>9, <1>10, <1>11, <1>12, <1>13, <2>2, <2>3
       DEF Handle, Progress

\* A prefix of a plan is finite, and counts its positions when no node is twice in it.
LEMMA CountFirst ==
    ASSUME NEW p, NEW j \in Nat
    PROVE  /\ IsFiniteSet(FirstOf(p, j))
           /\ (\A k, l \in 1..j : p[k] = p[l] => k = l) => Cardinality(FirstOf(p, j)) = j
<1> DEFINE f == [k \in 1..j |-> p[k]]
<1>1. IsFiniteSet(1..j) /\ Cardinality(1..j) = j
  BY FS_Interval
<1>2. f \in Surjection(1..j, FirstOf(p, j))
  BY DEF Surjection, FirstOf
<1>3. IsFiniteSet(FirstOf(p, j))
  BY <1>1, <1>2, FS_Surjection
<1>4. ASSUME \A k, l \in 1..j : p[k] = p[l] => k = l
      PROVE  f \in Injection(1..j, FirstOf(p, j))
  <2>1. \A k \in 1..j : f[k] = p[k]
    OBVIOUS
  <2> HIDE DEF f
  <2> QED
    BY <1>2, <1>4, <2>1 DEF Injection, Surjection, IsInjective
<1> QED
  BY <1>1, <1>2, <1>3, <1>4, FS_Surjection

\* One more position adds its node.
LEMMA ExtendFirst ==
    ASSUME NEW p, NEW j \in Nat
    PROVE  FirstOf(p, j + 1) = FirstOf(p, j) \cup {p[j + 1]} /\ FirstOf(p, 0) = {}
<1>1. 1..(j + 1) = (1..j) \cup {j + 1} /\ 1..0 = {}
  OBVIOUS
<1> QED
  BY <1>1 DEF FirstOf

\* A request starts with nothing planned and nothing deleted.
LEMMA RequestInit == Init => RequestInv
<1> SUFFICES ASSUME Init, NEW r \in Req PROVE PlaceInv(r) /\ DeletedInv(r)
  BY DEF RequestInv
<1>1. PlaceInv(r)
  BY DEF Init, PlaceInv
<1>2. next[r] = 1 /\ dead[r] \cup erased[r] = {} /\ plan[r] = <<>> /\ Len(plan[r]) = 0
  BY DEF Init
<1>3. FirstOf(plan[r], next[r] - 1) = {} /\ 1..(next[r] - 1) = {}
  BY <1>2 DEF FirstOf
<1> QED
  BY <1>1, <1>2, <1>3 DEF DeletedInv

\* A delete moves next past the node it has deleted, which it had not deleted before.
LEMMA DeletedHandle ==
    ASSUME TypeOK, StoreInv, NEW r \in Req, PlaceInv(r), DeletedInv(r), Handle(r)
    PROVE  DeletedInv(r)'
<1>1. /\ plan[r] \in Seq(Node) /\ next[r] \in Nat \ {0} /\ Len(plan[r]) \in Nat
      /\ plan \in [Req -> Seq(Node)] /\ next \in [Req -> Nat \ {0}]
      /\ dead \in [Req -> SUBSET Node] /\ erased \in [Req -> SUBSET Node]
      /\ tx \in [Req -> {"none", "open", "committed", "rolledback"}]
  BY DEF TypeOK
<1>2. CASE next[r] = 1 /\ next' = next /\ UNCHANGED <<dead, erased>>
           /\ tx[r] # "rolledback" /\ plan'[r] \in Seq(Node)
  <2>1. FirstOf(plan[r], next[r] - 1) = {} /\ FirstOf(plan'[r], next[r] - 1) = {}
        /\ 1..(next[r] - 1) = {} /\ Len(plan'[r]) \in Nat
    BY <1>2 DEF FirstOf
  <2>2. dead[r] \cup erased[r] = {}
    BY <1>2, <2>1 DEF DeletedInv
  <2>3. next'[r] = next[r] /\ dead'[r] = dead[r] /\ erased'[r] = erased[r]
        /\ next'[r] <= Len(plan'[r]) + 1
    BY <1>2, <2>1
  <2> QED
    BY <2>1, <2>2, <2>3 DEF DeletedInv
<1>3. CASE UNCHANGED <<dead, erased, next, plan>> /\ (tx[r] = "rolledback" => tx' = tx)
  BY <1>3 DEF DeletedInv
<1>4. CASE DeleteApplies(r)
  <2> DEFINE c == Current(r)
  <2>1. /\ plan' = plan /\ next' = [next EXCEPT ![r] = @ + 1] /\ tx' = tx
        /\ c \in rows \ dead[r] /\ pc[r] = "execute" /\ Remove(r) /\ c = plan[r][next[r]]
    BY <1>4 DEF DeleteApplies, planning, Deleting, NothingDeleted, Visible, Current
  <2>2. dead'[r] \cup erased'[r] = (dead[r] \cup erased[r]) \cup {c}
    BY <1>1, <2>1 DEF Remove
  <2>3. c \notin dead[r] \cup erased[r]
    BY <2>1 DEF StoreInv
  <2>4. next[r] <= Len(plan[r]) /\ tx[r] # "rolledback"
    BY <2>1 DEF PlaceInv
  <2>5. PICK j \in Nat : next[r] = j + 1 /\ next[r] - 1 = j
    BY <1>1
  <2>6. next'[r] - 1 = j + 1 /\ next'[r] <= Len(plan'[r]) + 1
    BY <1>1, <2>1, <2>4, <2>5
  <2>7. dead'[r] \cup erased'[r] = FirstOf(plan'[r], next'[r] - 1)
    <3>1. dead[r] \cup erased[r] = FirstOf(plan[r], j) /\ c = plan[r][j + 1]
      BY <2>1, <2>4, <2>5 DEF DeletedInv
    <3>2. FirstOf(plan'[r], next'[r] - 1) = FirstOf(plan[r], j + 1)
      BY <2>1, <2>6
    <3> QED
      BY <2>2, <3>1, <3>2, ExtendFirst
  <2>8. \A k, l \in 1..(j + 1) : plan[r][k] = plan[r][l] => k = l
    <3>1. \A k \in 1..j : plan[r][k] # c
      BY <2>3, <2>4, <2>5 DEF DeletedInv, FirstOf
    <3>2. \A k, l \in 1..j : plan[r][k] = plan[r][l] => k = l
      BY <2>4, <2>5 DEF DeletedInv
    <3>3. \A k \in 1..(j + 1) : k \in 1..j \/ k = j + 1
      OBVIOUS
    <3> QED
      BY <2>1, <2>5, <3>1, <3>2, <3>3
  <2> QED
    BY <2>1, <2>6, <2>7, <2>8 DEF DeletedInv
<1>5. CASE Commit(r) \/ CommitFails(r) \/ Rollback(r)
  <2>1. /\ next' = next /\ plan' = plan
        /\ \/ /\ tx'[r] = "committed" /\ tx[r] = "open"
              /\ dead'[r] \cup erased'[r] = dead[r] \cup erased[r]
           \/ tx'[r] = "rolledback"
    BY <1>1, <1>5 DEF Commit, CommitFails, Rollback, Abandon, planning
  <2> QED
    BY <2>1 DEF DeletedInv
<1>6. CASE /\ UNCHANGED <<rows, dead, erased>>
           /\ tx' = tx \/ (pc[r] = "new" /\ tx' = [tx EXCEPT ![r] = "open"])
  <2>1. LoadRoot(r) \/ PlainDelete(r) \/ CheckRestrict(r) \/ ReadPage(r) \/ Descend(r)
          \/ FinishNode(r) => next' = next /\ next[r] = 1 /\ tx[r] # "rolledback"
    BY DEF LoadRoot, PlainDelete, CheckRestrict, ReadPage, Descend, FinishNode, Querying,
           Planning, PlaceInv
  <2>2. plan'[r] \in Seq(Node)
    BY TypeHandle DEF TypeOK
  <2>3. ~(LoadRoot(r) \/ PlainDelete(r) \/ CheckRestrict(r) \/ ReadPage(r) \/ Descend(r)
          \/ FinishNode(r)) => plan' = plan /\ (next' = next \/ DeleteApplies(r))
    <3>1. next' = next \/ DeleteApplies(r)
      BY DEF Handle, Progress, Begin, BeginUnprotected, BeginRefused, LoadRoot,
         RootMissing, PlainDelete, CheckRestrict, PageRefused, ReadPage, Descend, FinishNode,
         CrossesDatasource, DeleteMisses, Deadlocked, StepFails, Answer, Commit, CommitFails,
         Rollback
    <3> QED
      BY <3>1, PlanningStays DEF planning
  <2>4. pc[r] = "new" => tx[r] = "none"
    BY DEF PlaceInv
  <2> QED
    BY <1>2, <1>3, <1>4, <1>6, <2>1, <2>2, <2>3, <2>4
<1> QED
  BY <1>4, <1>5, <1>6, RowSteps

\* A step of one request keeps the invariant of all.
LEMMA RequestHandle ==
    ASSUME TypeOK, StoreInv, RequestInv, NEW r \in Req, Handle(r)
    PROVE  RequestInv'
<1> SUFFICES ASSUME NEW q \in Req PROVE (PlaceInv(q) /\ DeletedInv(q))'
  BY DEF RequestInv
<1>1. PlaceInv(q) /\ DeletedInv(q)
  BY DEF RequestInv
<1>2. CASE q = r
  BY <1>1, <1>2, PlaceHandle, DeletedHandle
<1>3. CASE q # r
  BY <1>1, <1>3, HandleStays, RequestStays
<1> QED
  BY <1>2, <1>3

\* An insert concerns no request.
LEMMA RequestInsert ==
    ASSUME RequestInv, NEW n \in Node, Insert(n)
    PROVE  RequestInv'
<1>1. /\ world' = world /\ delete' = delete
      /\ \A r \in Req : PerRequest(r)' = PerRequest(r)
  BY DEF Insert, request, planning, PerRequest
<1> QED
  BY <1>1, RequestStays DEF RequestInv

BaseInv == TypeOK /\ StoreInv /\ RequestInv

\* The first part of the invariant is inductive by itself.
LEMMA BaseStep == BaseInv /\ [Next]_vars => BaseInv'
<1> SUFFICES ASSUME BaseInv, [Next]_vars PROVE BaseInv'
  OBVIOUS
<1>1. CASE UNCHANGED vars
  BY <1>1 DEF BaseInv, TypeOK, StoreInv, RequestInv, PlaceInv, DeletedInv, Complete,
     Cascading, Target, vars, request, store, planning
<1>2. ASSUME NEW r \in Req, Handle(r) PROVE BaseInv'
  BY <1>2, TypeHandle, StoreHandle, RequestHandle DEF BaseInv
<1>3. ASSUME NEW n \in Node, Insert(n) PROVE BaseInv'
  BY <1>3, TypeInsert, StoreInsert, RequestInsert DEF BaseInv
<1> QED
  BY <1>1, <1>2, <1>3 DEF Next

\* And it holds initially.
LEMMA BaseInit == Init => BaseInv
BY TypeInit, StoreInit, RequestInit DEF BaseInv

-----------------------------------------------------------------------------
(* What the requests promise.                                              *)

\* A cascade that fails in a transaction has deleted nothing, whatever failed.
THEOREM FailuresLeaveNothing == Spec => []FailedCascadeLeavesNothing
<1>1. BaseInv => FailedCascadeLeavesNothing
  BY DEF BaseInv, StoreInv, FailedCascadeLeavesNothing
<1> QED
  BY <1>1, BaseInit, BaseStep, PTL DEF Spec

\* A success has deleted its entity and as many entities as it planned, none of
\* which another request has deleted.
THEOREM SuccessesAreComplete == Spec => []CascadeComplete
<1>1. BaseInv => CascadeComplete
  <2> SUFFICES ASSUME BaseInv, NEW r \in Req, status[r] = "success"
      PROVE  /\ Target(r) \in erased[r]
             /\ Cascading(Target(r)) => Cardinality(erased[r]) = planned[r]
             /\ \A q \in Req \ {r} : erased[r] \cap erased[q] = {}
    BY DEF CascadeComplete
  <2>1. PlaceInv(r) /\ DeletedInv(r) /\ plan[r] \in Seq(Node)
    BY DEF BaseInv, RequestInv, TypeOK
  <2> DEFINE j == Len(plan[r])
  <2>2. j \in Nat \ {0} /\ next[r] - 1 = j /\ plan[r][j] = Target(r)
    BY <2>1 DEF PlaceInv, Complete
  <2>3. tx[r] \in {"none", "committed"} /\ (Cascading(Target(r)) => planned[r] = j)
    BY <2>1 DEF PlaceInv, Complete
  <2>4. dead[r] = {}
    BY <2>3 DEF BaseInv, StoreInv
  <2>5. erased[r] = FirstOf(plan[r], j) /\ \A k, l \in 1..j : plan[r][k] = plan[r][l] => k = l
    BY <2>1, <2>2, <2>3, <2>4 DEF DeletedInv
  <2>6. Cardinality(erased[r]) = j
    BY <2>2, <2>5, CountFirst
  <2>7. Target(r) \in erased[r]
    BY <2>2, <2>5 DEF FirstOf
  <2> QED
    BY <2>3, <2>6, <2>7 DEF BaseInv, StoreInv
<1> QED
  BY <1>1, BaseInit, BaseStep, PTL DEF Spec

-----------------------------------------------------------------------------
(* The invariant of the plan: what a relation that was read has given it.  *)

\* The rows a delete of r may find, now or later, or has deleted.
Alive(r) == rows \cup fresh \cup erased[r]

\* The deletes of the first j nodes of a plan and of what is due after them can
\* all find their row.
Sound(p, j, due, alive) ==
    /\ \A k, l \in 1..j : p[k] = p[l] => k = l
    /\ FirstOf(p, j) \cap due = {}
    /\ FirstOf(p, j) \cup due \subseteq alive

Kids(n, rel) == {c \in rows : <<n, rel, c>> \in world.links}

\* A relation has been read to its end: the plan has every row of it, except the
\* rows that came later, or it is a plan that cannot be carried out.
Settled(r, n, rel, j, due) ==
    /\ <<n, rel>> \in read[r]
    /\ Sound(plan[r], j, due, Alive(r)) =>
        Kids(n, rel) \subseteq late[r] \cup FirstOf(plan[r], j) \cup due

\* What comes into the plan before the node of the frame i.
Due(r, i) == stack[r][i].page \cup {stack[r][j].node : j \in 1..(i - 1)}

\* The relations of a frame that it has not read to the end.
Unread(f) ==
    {f.rels[k] : k \in DOMAIN f.rels}
        \cup (IF f.checked THEN {} ELSE world.restrict[f.node])

\* The rows of the relation a frame is reading that have come so far.
Gathered(r, i) ==
    {c \in FirstOf(plan[r], Len(plan[r])) \cup Due(r, i) :
        c \notin fresh /\ <<stack[r][i].node, Head(stack[r][i].rels), c>> \in world.links}

\* A frame in the middle of a relation has skipped no more rows than have come.
FrameInv(r, i) ==
    LET f == stack[r][i]
    IN  /\ IsFiniteSet(f.page)
        /\ \A rel \in Kept(f.node) \ Unread(f) :
               Settled(r, f.node, rel, Len(plan[r]), Due(r, i))
        /\ f.skip > 0 =>
             /\ f.rels # <<>> /\ Head(f.rels) \notin world.single
             /\ Sound(plan[r], Len(plan[r]), Due(r, i), Alive(r)) =>
                  Cardinality(Gathered(r, i)) >= f.skip

PlanInv(r) ==
    \A j \in DOMAIN plan[r] : \A rel \in Kept(plan[r][j]) :
        Settled(r, plan[r][j], rel, j - 1, {})

FramesInv(r) == pc[r] = "plan" => \A i \in DOMAIN stack[r] : FrameInv(r, i)

CascadeInv == \A r \in Req : PlanInv(r) /\ FramesInv(r)

\* Rows stand at different ranks, and every rank below their number is taken.
LEMMA Ranks ==
    ASSUME NEW F \in SUBSET Nat, IsFiniteSet(F)
    PROVE  LET f == [c \in F |-> Rank(F, c)]
               n == Cardinality(F)
           IN  /\ n \in Nat
               /\ f \in Injection(F, 0..(n - 1)) /\ f \in Surjection(F, 0..(n - 1))
<1> DEFINE f == [c \in F |-> Rank(F, c)]
           n == Cardinality(F)
           below(c) == {d \in F : d < c}
<1>1. n \in Nat
  BY FS_CardinalityType
<1>2. /\ \A c \in F : IsFiniteSet(below(c)) /\ f[c] = Cardinality(below(c)) /\ f[c] \in Nat
      /\ f \in [F -> Nat]
  <2>1. \A c \in F : IsFiniteSet(below(c)) /\ Cardinality(below(c)) \in Nat
    BY FS_Subset, FS_CardinalityType
  <2>2. \A c \in F : Rank(F, c) = Cardinality(below(c))
    BY DEF Rank
  <2> QED
    BY <2>1, <2>2
<1> HIDE DEF f
<1>3. \A c \in F : f[c] < n
  <2> SUFFICES ASSUME NEW c \in F PROVE f[c] < n
    OBVIOUS
  <2>1. below(c) \in SUBSET F /\ below(c) # F
    OBVIOUS
  <2>2. Cardinality(below(c)) <= n /\ Cardinality(below(c)) # n
    BY <2>1, FS_Subset
  <2> QED
    BY <1>1, <1>2, <2>2
<1>4. \A c, d \in F : c < d => f[c] < f[d]
  <2>1. SUFFICES ASSUME NEW c \in F, NEW d \in F, c < d PROVE f[c] < f[d]
    OBVIOUS
  <2>2. c \in Nat /\ d \in Nat
    OBVIOUS
  <2>3. below(c) \in SUBSET below(d)
    <3>1. \A x \in F : x \in Nat /\ (x < c => x < d)
      BY <2>1, <2>2
    <3> QED
      BY <3>1
  <2>4. below(c) # below(d)
    <3>1. c \in below(d) /\ c \notin below(c)
      BY <2>1, <2>2
    <3> QED
      BY <3>1
  <2>5. Cardinality(below(c)) <= Cardinality(below(d))
        /\ Cardinality(below(c)) # Cardinality(below(d))
    BY <1>2, <2>3, <2>4, FS_Subset
  <2> HIDE DEF below
  <2> QED
    BY <1>2, <2>5
<1>5. f \in [F -> 0..(n - 1)]
  <2>1. \A c \in F : f[c] \in 0..(n - 1)
    BY <1>1, <1>2, <1>3
  <2> QED
    BY <1>2, <2>1
<1>6. \A c, d \in F : f[c] = f[d] => c = d
  <2>1. SUFFICES ASSUME NEW c \in F, NEW d \in F, f[c] = f[d] PROVE c = d
    OBVIOUS
  <2>2. ~(c < d) /\ ~(d < c) /\ c \in Nat /\ d \in Nat
    BY <1>2, <1>4, <2>1
  <2> QED
    BY <2>2
<1> HIDE DEF n, below
<1>7. f \in Injection(F, 0..(n - 1))
  BY <1>5, <1>6 DEF Injection, IsInjective
<1>8. IsFiniteSet(0..(n - 1)) /\ Cardinality(0..(n - 1)) = n
  BY <1>1, FS_Interval
<1>9. f \in Surjection(F, 0..(n - 1))
  <2>1. Cardinality(0..(n - 1)) = Cardinality(F)
    BY <1>8 DEF n
  <2> QED
    BY <1>7, <1>8, <2>1, FS_Injection
<1> QED
  BY <1>1, <1>7, <1>9 DEF f, n

\* Behind a page that is short there is nothing: all other rows of the relation
\* stand in front of it.
LEMMA ShortPageIsLast ==
    ASSUME NEW F \in SUBSET Nat, IsFiniteSet(F), NEW s \in Nat
    PROVE  LET page == {c \in F : Rank(F, c) \in s..(s + PageSize - 1)}
           IN  Cardinality(page) < PageSize => Cardinality(F \ page) <= s
<1> DEFINE page == {c \in F : Rank(F, c) \in s..(s + PageSize - 1)}
           f == [c \in F |-> Rank(F, c)]
           n == Cardinality(F)
           last == s + PageSize - 1
<1>1. PageSize \in Nat \ {0} /\ last \in Nat
  BY LimitsAssumption
<1>2. n \in Nat /\ f \in Injection(F, 0..(n - 1)) /\ f \in Surjection(F, 0..(n - 1))
  BY Ranks
<1>3. \A c \in F : f[c] = Rank(F, c) /\ f[c] \in 0..(n - 1)
  BY <1>2 DEF Injection
<1>4. page = {c \in F : f[c] \in s..last}
  BY <1>3
<1>5. /\ \A c, d \in F : f[c] = f[d] => c = d
      /\ \A k \in 0..(n - 1) : \E c \in F : f[c] = k
      /\ f \in [F -> 0..(n - 1)]
  BY <1>2 DEF Injection, IsInjective, Surjection
<1> HIDE DEF f, n, page
<1>6. IsFiniteSet(page) /\ IsFiniteSet(F \ page)
  BY <1>4, FS_Subset
<1> SUFFICES ASSUME Cardinality(page) < PageSize PROVE Cardinality(F \ page) <= s
  BY DEF page
<1>7. n <= last
  <2> SUFFICES ASSUME last < n PROVE FALSE
    BY <1>1, <1>2
  <2> DEFINE g == [c \in page |-> f[c]]
  <2>1. g \in [page -> s..last]
    BY <1>4
  <2>2. \A k \in s..last : \E c \in page : g[c] = k
    <3> SUFFICES ASSUME NEW k \in s..last PROVE \E c \in page : g[c] = k
      OBVIOUS
    <3>1. k \in 0..(n - 1)
      BY <1>1, <1>2
    <3>2. PICK c \in F : f[c] = k
      BY <1>5, <3>1
    <3> QED
      BY <1>4, <3>2
  <2> HIDE DEF g
  <2>3. g \in Surjection(page, s..last)
    BY <2>1, <2>2 DEF Surjection
  <2>4. Cardinality(s..last) = PageSize
    BY <1>1, FS_Interval
  <2>5. Cardinality(s..last) <= Cardinality(page)
    BY <1>6, <2>3, FS_Surjection
  <2>6. Cardinality(page) \in Nat
    BY <1>6, FS_CardinalityType
  <2> QED
    BY <1>1, <2>4, <2>5, <2>6
<1>8. \A c \in F \ page : f[c] \in 0..(s - 1)
  BY <1>1, <1>2, <1>3, <1>4, <1>7
<1> DEFINE h == [c \in F \ page |-> f[c]]
<1>9. h \in [F \ page -> 0..(s - 1)] /\ \A c, d \in F \ page : h[c] = h[d] => c = d
  BY <1>5, <1>8
<1> HIDE DEF h
<1>10. h \in Injection(F \ page, 0..(s - 1))
  BY <1>9 DEF Injection, IsInjective
<1>11. IsFiniteSet(0..(s - 1)) /\ Cardinality(0..(s - 1)) = s
  BY FS_Interval
<1> QED
  BY <1>10, <1>11, FS_Injection

-----------------------------------------------------------------------------
(* What every step keeps of it.                                            *)

\* What stood in a plan or was due stays when it grows.
LEMMA Ahead ==
    ASSUME NEW p, NEW j \in Nat, NEW due, NEW p2, NEW j2 \in Nat, NEW due2,
           j <= j2, \A k \in 1..j : p2[k] = p[k],
           \A c \in due \ due2 : \E k \in (j + 1)..j2 : p2[k] = c
    PROVE  /\ \A c \in FirstOf(p, j) : c \in FirstOf(p2, j2)
           /\ \A c \in due : c \in FirstOf(p2, j2) \/ c \in due2
<1>1. \A k \in 1..j : k \in 1..j2
  OBVIOUS
<1>2. \A k \in (j + 1)..j2 : k \in 1..j2
  OBVIOUS
<1> QED
  BY <1>1, <1>2 DEF FirstOf

\* A plan that can still be carried out could be carried out before it grew.
LEMMA Widen ==
    ASSUME NEW p, NEW j \in Nat, NEW due, NEW alive,
           NEW p2, NEW j2 \in Nat, NEW due2, NEW alive2,
           j <= j2, \A k \in 1..j : p2[k] = p[k], alive2 \subseteq alive,
           \A c \in due \ due2 : \E k \in (j + 1)..j2 : p2[k] = c
    PROVE  Sound(p2, j2, due2, alive2) => Sound(p, j, due, alive)
<1>1. \A k \in 1..j : k \in 1..j2
  OBVIOUS
<1>2. \A k \in (j + 1)..j2 : k \in 1..j2 /\ k \notin 1..j
  OBVIOUS
<1>3. FirstOf(p, j) \subseteq FirstOf(p2, j2) /\ due \subseteq FirstOf(p2, j2) \cup due2
  BY Ahead
<1>4. ASSUME Sound(p2, j2, due2, alive2) PROVE Sound(p, j, due, alive)
  <2>1. \A k, l \in 1..j2 : p2[k] = p2[l] => k = l
    BY <1>4 DEF Sound
  <2>2. \A k, l \in 1..j : p[k] = p[l] => k = l
    BY <1>1, <2>1
  <2>3. FirstOf(p, j) \cap due = {}
    <3>1. FirstOf(p, j) \cap due2 = {}
      BY <1>3, <1>4 DEF Sound
    <3>2. \A k \in 1..j, l \in (j + 1)..j2 : p2[k] # p2[l]
      BY <1>1, <1>2, <2>1
    <3>3. FirstOf(p, j) \cap (due \ due2) = {}
      BY <3>2 DEF FirstOf
    <3> QED
      BY <3>1, <3>3
  <2> QED
    BY <1>3, <1>4, <2>2, <2>3 DEF Sound
<1> QED
  BY <1>4

\* The rows a request can still delete only become fewer; a row that comes under
\* a relation it has read is late for it.
LEMMA RowsStay ==
    ASSUME BaseInv, [Next]_vars, NEW r \in Req
    PROVE  /\ Alive(r)' \subseteq Alive(r) /\ fresh' \subseteq fresh
           /\ late[r] \subseteq late'[r] /\ read[r] \subseteq read'[r]
           /\ \A n \in Node, rel \in Relation : <<n, rel>> \in read[r] =>
                  Kids(n, rel)' \subseteq Kids(n, rel) \cup late'[r]
           /\ world' = world
<1> USE DEF BaseInv
<1>1. CASE UNCHANGED vars
  BY <1>1 DEF vars, request, store, planning, Alive, Kids
<1>2. ASSUME NEW q \in Req, Handle(q)
      PROVE  /\ Alive(r)' \subseteq Alive(r) /\ fresh' \subseteq fresh
             /\ late[r] \subseteq late'[r] /\ read[r] \subseteq read'[r]
             /\ rows' \subseteq rows /\ world' = world
  <2>1. fresh' = fresh /\ late' = late /\ world' = world
    BY <1>2, HandleStays
  <2>2. dead \in [Req -> SUBSET Node] /\ erased \in [Req -> SUBSET Node] /\ dead[q] \subseteq rows
    BY DEF TypeOK, StoreInv
  <2>3. rows' \subseteq rows /\ rows' \cup erased'[r] \subseteq rows \cup erased[r]
    <3>1. CASE DeleteApplies(q)
      <4>1. Current(q) \in rows /\ Remove(q)
        BY <3>1 DEF DeleteApplies, NothingDeleted, Visible
      <4> QED
        BY <2>2, <4>1 DEF Remove
    <3>2. CASE Commit(q)
      BY <2>2, <3>2 DEF Commit
    <3>3. CASE CommitFails(q) \/ Rollback(q)
      BY <3>3 DEF CommitFails, Rollback
    <3> QED
      BY <1>2, <3>1, <3>2, <3>3, RowSteps
  <2>4. read[r] \subseteq read'[r]
    <3>1. read \in [Req -> SUBSET (Node \X Relation)]
      BY DEF TypeOK
    <3>2. CASE CheckRestrict(q)
      BY <3>1, <3>2 DEF CheckRestrict
    <3>3. CASE ReadPage(q)
      BY <3>1, <3>3 DEF ReadPage
    <3>4. CASE read' = read
      BY <3>4
    <3>5. LoadRoot(q) \/ PlainDelete(q) \/ Descend(q) \/ FinishNode(q) => read' = read
      BY DEF LoadRoot, PlainDelete, Descend, FinishNode
    <3> QED
      BY <1>2, <3>2, <3>3, <3>4, <3>5, PlanningStays DEF planning
  <2> QED
    BY <2>1, <2>3, <2>4 DEF Alive
<1>3. ASSUME NEW q \in Req, Handle(q)
      PROVE  \A n \in Node, rel \in Relation : Kids(n, rel)' \subseteq Kids(n, rel)
  BY <1>2, <1>3 DEF Kids
<1>4. ASSUME NEW n \in Node, Insert(n)
      PROVE  /\ Alive(r)' \subseteq Alive(r) /\ fresh' \subseteq fresh
             /\ late[r] \subseteq late'[r] /\ read[r] \subseteq read'[r]
             /\ world' = world
             /\ \A m \in Node, rel \in Relation : <<m, rel>> \in read[r] =>
                  Kids(m, rel)' \subseteq Kids(m, rel) \cup late'[r]
  <2>1. /\ n \in fresh /\ rows' = rows \cup {n} /\ fresh' = fresh \ {n} /\ world' = world
        /\ erased' = erased /\ read' = read
    BY <1>4 DEF Insert, request, planning
  <2>2. late'[r] = IF \E k \in read[r] : <<k[1], k[2], n>> \in world.links
                   THEN late[r] \cup {n} ELSE late[r]
    BY <1>4 DEF Insert
  <2>3. \A m \in Node, rel \in Relation :
           <<m, rel>> \in read[r] /\ <<m, rel, n>> \in world.links => n \in late'[r]
    <3> SUFFICES ASSUME NEW m \in Node, NEW rel \in Relation,
                        <<m, rel>> \in read[r], <<m, rel, n>> \in world.links
        PROVE  n \in late'[r]
      OBVIOUS
    <3>1. <<m, rel>>[1] = m /\ <<m, rel>>[2] = rel
      OBVIOUS
    <3> QED
      BY <2>2, <3>1
  <2>4. late[r] \subseteq late'[r]
    BY <2>2
  <2>5. Alive(r)' \subseteq Alive(r)
    BY <2>1 DEF Alive
  <2> QED
    BY <2>1, <2>3, <2>4, <2>5 DEF Kids
<1> QED
  BY <1>1, <1>2, <1>3, <1>4 DEF Next

\* What a relation has given a plan stays with it while the plan grows.
LEMMA SettledStays ==
    ASSUME BaseInv, [Next]_vars, NEW r \in Req, NEW n \in Node, NEW rel \in Relation,
           NEW j \in Nat, NEW due, Settled(r, n, rel, j, due),
           NEW j2 \in Nat, NEW due2, j <= j2, \A k \in 1..j : plan'[r][k] = plan[r][k],
           \A c \in due \ due2 : \E k \in (j + 1)..j2 : plan'[r][k] = c
    PROVE  Settled(r, n, rel, j2, due2)'
<1>1. /\ Alive(r)' \subseteq Alive(r) /\ late[r] \subseteq late'[r] /\ read[r] \subseteq read'[r]
      /\ <<n, rel>> \in read[r] => Kids(n, rel)' \subseteq Kids(n, rel) \cup late'[r]
  BY RowsStay
<1>2. /\ Sound(plan'[r], j2, due2, Alive(r)') => Sound(plan[r], j, due, Alive(r))
      /\ FirstOf(plan[r], j) \cup due \subseteq FirstOf(plan'[r], j2) \cup due2
  <2> DEFINE p     == plan[r]
             p2    == plan'[r]
             alive == Alive(r)
             later == Alive(r)'
  <2>1. /\ \A k \in 1..j : p2[k] = p[k]
        /\ later \subseteq alive
        /\ \A c \in due \ due2 : \E k \in (j + 1)..j2 : p2[k] = c
    BY <1>1
  <2> HIDE DEF p, p2, alive, later
  <2>2. /\ Sound(p2, j2, due2, later) => Sound(p, j, due, alive)
        /\ FirstOf(p, j) \cup due \subseteq FirstOf(p2, j2) \cup due2
    <3>1. Sound(p2, j2, due2, later) => Sound(p, j, due, alive)
      BY <2>1, Widen
    <3>2. /\ \A c \in FirstOf(p, j) : c \in FirstOf(p2, j2)
          /\ \A c \in due : c \in FirstOf(p2, j2) \/ c \in due2
      BY <2>1, Ahead
    <3> QED
      BY <3>1, <3>2
  <2> QED
    BY <2>2 DEF p, p2, alive, later
<1> QED
  BY <1>1, <1>2 DEF Settled

-----------------------------------------------------------------------------
(* The calls of the plan.                                                  *)

\* While a request plans, it has deleted nothing.
LEMMA NothingDeletedYet ==
    ASSUME BaseInv, NEW r \in Req, pc[r] = "plan"
    PROVE  dead[r] = {} /\ erased[r] = {}
<1>1. next[r] = 1 /\ tx[r] # "rolledback"
  BY DEF BaseInv, RequestInv, PlaceInv
<1>2. dead[r] \cup erased[r] = FirstOf(plan[r], next[r] - 1)
  BY <1>1 DEF BaseInv, RequestInv, DeletedInv
<1>3. FirstOf(plan[r], next[r] - 1) = {}
  BY <1>1 DEF FirstOf
<1> QED
  BY <1>2, <1>3

\* What is due before a call is finite, like its pages.
LEMMA DueIsFinite ==
    ASSUME NEW r \in Req, NEW i \in Nat \ {0}, IsFiniteSet(stack[r][i].page)
    PROVE  IsFiniteSet(Due(r, i))
<1> DEFINE s == [j \in 1..(i - 1) |-> stack[r][j].node]
<1>1. {stack[r][j].node : j \in 1..(i - 1)} = FirstOf(s, i - 1)
  BY DEF FirstOf
<1>2. IsFiniteSet(FirstOf(s, i - 1))
  BY CountFirst
<1> QED
  BY <1>1, <1>2, FS_Union DEF Due

\* So are the rows that have come.
LEMMA GatheredIsFinite ==
    ASSUME TypeOK, NEW r \in Req, NEW i \in Nat \ {0}, IsFiniteSet(stack[r][i].page)
    PROVE  /\ IsFiniteSet(Gathered(r, i))
           /\ Cardinality(Gathered(r, i)) \in Nat
<1>1. Len(plan[r]) \in Nat
  BY DEF TypeOK
<1>2. IsFiniteSet(FirstOf(plan[r], Len(plan[r]))) /\ IsFiniteSet(Due(r, i))
  BY <1>1, CountFirst, DueIsFinite
<1>3. IsFiniteSet(FirstOf(plan[r], Len(plan[r])) \cup Due(r, i))
  BY <1>2, FS_Union
<1>4. Gathered(r, i) \in SUBSET (FirstOf(plan[r], Len(plan[r])) \cup Due(r, i))
  BY DEF Gathered
<1>5. IsFiniteSet(Gathered(r, i))
  BY <1>3, <1>4, FS_Subset
<1> QED
  BY <1>5, FS_CardinalityType

\* A step that moves a call, or grows the plan by what is due before it, keeps what
\* the call has read.
LEMMA FrameStays ==
    ASSUME BaseInv, BaseInv', [Next]_vars, NEW r \in Req,
           NEW i \in DOMAIN stack[r], FrameInv(r, i),
           NEW i2 \in DOMAIN stack'[r],
           stack'[r][i2].node = stack[r][i].node, stack'[r][i2].checked = stack[r][i].checked,
           stack'[r][i2].rels = stack[r][i].rels, stack'[r][i2].skip = stack[r][i].skip,
           IsFiniteSet(stack'[r][i2].page),
           Len(plan[r]) <= Len(plan'[r]),
           \A k \in 1..Len(plan[r]) : plan'[r][k] = plan[r][k],
           \A c \in Due(r, i) \ Due(r, i2)' :
               \E k \in (Len(plan[r]) + 1)..Len(plan'[r]) : plan'[r][k] = c
    PROVE  FrameInv(r, i2)'
<1>1. /\ stack[r] \in Seq(Frame) /\ stack'[r] \in Seq(Frame)
      /\ plan[r] \in Seq(Node) /\ plan'[r] \in Seq(Node)
  BY DEF BaseInv, TypeOK
<1>2. /\ i \in Nat \ {0} /\ i2 \in Nat \ {0} /\ stack[r][i] \in Frame
      /\ Len(plan[r]) \in Nat /\ Len(plan'[r]) \in Nat
  BY <1>1
<1>3. PICK f : f = stack[r][i]
  OBVIOUS
<1>4. PICK f2 : f2 = stack'[r][i2]
  OBVIOUS
<1>5. PICK due : due = Due(r, i)
  OBVIOUS
<1>6. PICK due2 : due2 = Due(r, i2)'
  OBVIOUS
<1>7. PICK m \in Nat : m = Len(plan[r])
  BY <1>2
<1>8. PICK m2 \in Nat : m2 = Len(plan'[r])
  BY <1>2
<1>9. /\ f2.node = f.node /\ f2.checked = f.checked /\ f2.rels = f.rels /\ f2.skip = f.skip
      /\ m <= m2 /\ \A k \in 1..m : plan'[r][k] = plan[r][k]
  BY <1>3, <1>4, <1>7, <1>8
<1>10. \A c \in due \ due2 : \E k \in (m + 1)..m2 : plan'[r][k] = c
  BY <1>5, <1>6, <1>7, <1>8
<1>11. f.node \in Node /\ f.skip \in Nat /\ Kept(f.node) \subseteq Relation
  BY <1>2, <1>3, KeptType DEF Frame, BaseInv
<1>12. world' = world /\ fresh' \subseteq fresh /\ Alive(r)' \subseteq Alive(r)
  BY RowsStay
<1>13. Kept(f2.node)' = Kept(f.node) /\ Unread(f2)' = Unread(f)
  BY <1>9, <1>12 DEF Kept, Unread
<1>14. /\ \A rel \in Kept(f.node) \ Unread(f) : Settled(r, f.node, rel, m, due)
       /\ f.skip > 0 =>
            /\ f.rels # <<>> /\ Head(f.rels) \notin world.single
            /\ Sound(plan[r], m, due, Alive(r)) => Cardinality(Gathered(r, i)) >= f.skip
       /\ IsFiniteSet(stack[r][i].page)
  BY <1>3, <1>5, <1>7 DEF FrameInv
<1>15. ASSUME NEW rel \in Kept(f.node) \ Unread(f)
       PROVE  Settled(r, f.node, rel, m2, due2)'
  <2>1. Settled(r, f.node, rel, m, due) /\ rel \in Relation
    BY <1>11, <1>14
  <2> QED
    BY <1>9, <1>10, <1>11, <2>1, SettledStays
<1>16. ASSUME f.skip > 0, Sound(plan'[r], m2, due2, Alive(r)')
       PROVE  Cardinality(Gathered(r, i2)') >= f.skip
  <2>1. Sound(plan[r], m, due, Alive(r))
    <3> DEFINE p     == plan[r]
               p2    == plan'[r]
               alive == Alive(r)
               later == Alive(r)'
    <3>1. /\ m <= m2
          /\ \A k \in 1..m : p2[k] = p[k]
          /\ later \subseteq alive
          /\ \A c \in due \ due2 : \E k \in (m + 1)..m2 : p2[k] = c
      BY <1>9, <1>10, <1>12
    <3> HIDE DEF p, p2, alive, later
    <3>2. Sound(p2, m2, due2, later) => Sound(p, m, due, alive)
      BY <3>1, Widen
    <3> QED
      BY <1>16, <3>2 DEF p, p2, alive, later
  <2>2. Cardinality(Gathered(r, i)) >= f.skip
    BY <1>14, <1>16, <2>1
  <2>3. /\ \A c \in FirstOf(plan[r], m) : c \in FirstOf(plan'[r], m2)
        /\ \A c \in due : c \in FirstOf(plan'[r], m2) \/ c \in due2
    BY <1>9, <1>10, Ahead
  <2>4. Gathered(r, i) = {c \in FirstOf(plan[r], m) \cup due :
                             c \notin fresh /\ <<f.node, Head(f.rels), c>> \in world.links}
    BY <1>3, <1>5, <1>7 DEF Gathered
  <2>5. Gathered(r, i2)' = {c \in FirstOf(plan'[r], m2) \cup due2 :
                             c \notin fresh' /\ <<f2.node, Head(f2.rels), c>> \in world'.links}
    BY <1>4, <1>6, <1>8 DEF Gathered
  <2>6. Gathered(r, i) \subseteq Gathered(r, i2)'
    BY <1>9, <1>12, <2>3, <2>4, <2>5
  <2>7. IsFiniteSet(Gathered(r, i)) /\ Cardinality(Gathered(r, i)) \in Nat
    BY <1>2, <1>14, GatheredIsFinite DEF BaseInv
  <2>8. IsFiniteSet(Gathered(r, i2)') /\ Cardinality(Gathered(r, i2)') \in Nat
    <3>1. IsFiniteSet(FirstOf(plan'[r], m2))
      BY CountFirst
    <3>2. IsFiniteSet(due2)
      <4> DEFINE s == [j \in 1..(i2 - 1) |-> stack'[r][j].node]
      <4>1. due2 = stack'[r][i2].page \cup FirstOf(s, i2 - 1)
        BY <1>6 DEF Due, FirstOf
      <4>2. IsFiniteSet(FirstOf(s, i2 - 1))
        BY <1>2, CountFirst
      <4> QED
        BY <4>1, <4>2, FS_Union
    <3>3. IsFiniteSet(FirstOf(plan'[r], m2) \cup due2)
      BY <3>1, <3>2, FS_Union
    <3>4. Gathered(r, i2)' \in SUBSET (FirstOf(plan'[r], m2) \cup due2)
      BY <2>5
    <3> QED
      BY <3>3, <3>4, FS_Subset, FS_CardinalityType
  <2>9. Cardinality(Gathered(r, i)) <= Cardinality(Gathered(r, i2)')
    BY <2>6, <2>8, FS_Subset
  <2> QED
    BY <1>11, <2>2, <2>7, <2>8, <2>9
<1>17. ASSUME NEW rel \in Kept(f2.node)' \ Unread(f2)'
       PROVE  Settled(r, f2.node, rel, Len(plan[r]), Due(r, i2))'
  BY <1>6, <1>8, <1>9, <1>13, <1>15 DEF Settled
<1>18. f2.skip > 0 =>
          /\ f2.rels # <<>> /\ Head(f2.rels) \notin world'.single
          /\ Sound(plan'[r], Len(plan'[r]), Due(r, i2)', Alive(r)') =>
                Cardinality(Gathered(r, i2)') >= f2.skip
  BY <1>6, <1>8, <1>9, <1>12, <1>14, <1>16
<1> QED
  BY <1>4, <1>17, <1>18 DEF FrameInv

\* A node keeps its place in the plan, and with it what its relations have given.
LEMMA PlanStays ==
    ASSUME BaseInv, [Next]_vars, NEW r \in Req, PlanInv(r), NEW j \in DOMAIN plan[r],
           plan'[r][j] = plan[r][j], \A k \in 1..(j - 1) : plan'[r][k] = plan[r][k]
    PROVE  (\A rel \in Kept(plan[r][j]) : Settled(r, plan[r][j], rel, j - 1, {}))'
<1>1. PICK n : n = plan[r][j]
  OBVIOUS
<1>2. n \in Node /\ j - 1 \in Nat
  BY <1>1 DEF BaseInv, TypeOK
<1>3. Kept(n)' = Kept(n) /\ Kept(n) \subseteq Relation
  BY <1>2, RowsStay, KeptType DEF Kept, BaseInv
<1>4. PICK m \in Nat : m = j - 1
  BY <1>2
<1>5. ASSUME NEW rel \in Kept(n) PROVE Settled(r, n, rel, m, {})'
  <2>1. Settled(r, n, rel, m, {}) /\ rel \in Relation
    BY <1>1, <1>3, <1>4 DEF PlanInv
  <2>2. \A k \in 1..m : plan'[r][k] = plan[r][k]
    BY <1>4
  <2> QED
    BY <1>2, <2>1, <2>2, SettledStays
<1>6. \A rel \in Kept(n)' : Settled(r, n, rel, j - 1, {})'
  BY <1>3, <1>4, <1>5 DEF Settled
<1> QED
  BY <1>1, <1>6 DEF Settled, Kept

\* A step that leaves the calls of a request alone keeps what they have read.
LEMMA UntouchedFrames ==
    ASSUME BaseInv, BaseInv', [Next]_vars, NEW r \in Req, FramesInv(r),
           stack'[r] = stack[r], plan'[r] = plan[r], pc'[r] = "plan" => pc[r] = "plan"
    PROVE  FramesInv(r)'
<1> SUFFICES ASSUME pc'[r] = "plan", NEW i \in DOMAIN stack'[r] PROVE FrameInv(r, i)'
  BY DEF FramesInv
<1>1. i \in DOMAIN stack[r] /\ FrameInv(r, i)
  BY DEF FramesInv
<1>2. Due(r, i)' = Due(r, i)
  BY DEF Due
<1>3. IsFiniteSet(stack'[r][i].page)
  BY <1>1 DEF FrameInv
<1>4. Len(plan[r]) \in Nat
  BY DEF BaseInv, TypeOK
<1> QED
  BY <1>1, <1>2, <1>3, <1>4, FrameStays

\* A step that leaves the plan alone keeps its invariant.
LEMMA UntouchedPlan ==
    ASSUME BaseInv, [Next]_vars, NEW r \in Req, PlanInv(r), plan'[r] = plan[r]
    PROVE  PlanInv(r)'
<1> SUFFICES ASSUME NEW j \in DOMAIN plan'[r]
    PROVE  (\A rel \in Kept(plan[r][j]) : Settled(r, plan[r][j], rel, j - 1, {}))'
  BY DEF PlanInv
<1> QED
  BY PlanStays

\* A call that has just been entered has read nothing.
LEMMA FreshFrame ==
    ASSUME NEW r \in Req, NEW n, NEW i, (stack[r][i] = EnterFrame(n))'
    PROVE  FrameInv(r, i)'
<1>1. PICK f : f = stack'[r][i]
  OBVIOUS
<1>2. /\ f.node = n /\ f.checked = (world'.restrict[n] = {}) /\ f.rels = world'.cascade[n]
      /\ f.skip = 0 /\ f.page = {}
  BY <1>1 DEF EnterFrame
<1>3. (Kept(f.node) \ Unread(f))' = {}
  BY <1>2 DEF Kept, Unread
<1>4. IsFiniteSet(f.page) /\ ~(f.skip > 0)
  BY <1>2, FS_EmptySet
<1> QED
  BY <1>1, <1>3, <1>4 DEF FrameInv

\* The call of the root has read nothing.
LEMMA LoadRootFrames ==
    ASSUME BaseInv, NEW r \in Req, LoadRoot(r)
    PROVE  FramesInv(r)'
<1>1. PICK n : n = Target(r)
  OBVIOUS
<1>2. stack'[r] = <<EnterFrame(n)>> /\ world' = world
  BY <1>1, PlanShape DEF BaseInv, LoadRoot, request
<1>3. EnterFrame(n)' = EnterFrame(n)
  BY <1>2 DEF EnterFrame
<1> SUFFICES ASSUME NEW i \in DOMAIN stack'[r] PROVE FrameInv(r, i)'
  BY DEF FramesInv
<1>4. i = 1 /\ stack'[r][i] = EnterFrame(n)'
  BY <1>2, <1>3
<1> QED
  BY <1>4, FreshFrame

\* A plan of one entity without compositions owes nothing.
LEMMA PlainDeletePlan ==
    ASSUME BaseInv, NEW r \in Req, PlainDelete(r)
    PROVE  PlanInv(r)' /\ FramesInv(r)'
<1>1. plan'[r] = <<Target(r)>> /\ pc'[r] = "execute" /\ world' = world /\ delete' = delete
  BY DEF PlainDelete, BaseInv, TypeOK, Go, request
<1>2. PICK n : n = Target(r)
  OBVIOUS
<1>3. Kept(n)' = {}
  BY <1>1, <1>2 DEF PlainDelete, Composed, Kept
<1>4. \A j \in DOMAIN plan'[r] : plan'[r][j] = n
  BY <1>1, <1>2
<1> QED
  BY <1>1, <1>3, <1>4 DEF PlanInv, FramesInv, Kept

\* Where the innermost call stands.
LEMMA InnermostCall ==
    ASSUME BaseInv, NEW r \in Req, Planning(r)
    PROVE  /\ stack[r] \in Seq(Frame) /\ stack[r] # <<>> /\ 1 \in DOMAIN stack[r]
           /\ Len(stack[r]) \in Nat \ {0} /\ DOMAIN stack[r] = 1..Len(stack[r])
           /\ Top(r) = stack[r][1] /\ Top(r) \in Frame /\ Due(r, 1) = Top(r).page
           /\ pc[r] = "plan" /\ Top(r).node \in Node
<1>1. stack[r] \in Seq(Frame) /\ stack[r] # <<>>
  BY DEF BaseInv, TypeOK, Planning
<1>2. Top(r) = stack[r][1] /\ Top(r) \in Frame
  BY PlanShape DEF BaseInv
<1>3. Due(r, 1) = Top(r).page
  BY <1>2 DEF Due
<1> QED
  BY <1>1, <1>2, <1>3, TopOfStack DEF Planning, Frame

\* The calls under the innermost one wait for it.
LEMMA OuterFrames ==
    ASSUME BaseInv, BaseInv', [Next]_vars, NEW r \in Req, Planning(r), FramesInv(r),
           NEW f \in Frame, stack'[r] = [stack[r] EXCEPT ![1] = f], f.node = Top(r).node,
           plan'[r] = plan[r],
           NEW i \in DOMAIN stack'[r], i # 1
    PROVE  FrameInv(r, i)'
<1>1. /\ \A k \in 2..Len(stack[r]) : stack'[r][k] = stack[r][k]
      /\ Len(stack'[r]) = Len(stack[r]) /\ stack'[r][1] = f
  BY InnermostCall, ReplaceTop
<1>2. i \in 2..Len(stack[r]) /\ i \in DOMAIN stack[r]
  BY <1>1, InnermostCall DEF BaseInv, TypeOK
<1>3. FrameInv(r, i) /\ stack'[r][i] = stack[r][i]
  BY <1>1, <1>2, InnermostCall DEF FramesInv
<1>4. \A j \in 1..(i - 1) : stack'[r][j].node = stack[r][j].node
  BY <1>1, <1>2, InnermostCall
<1>5. Due(r, i)' = Due(r, i)
  BY <1>3, <1>4 DEF Due
<1>6. IsFiniteSet(stack'[r][i].page) /\ Len(plan[r]) \in Nat
  BY <1>3 DEF FrameInv, BaseInv, TypeOK
<1> QED
  BY <1>2, <1>3, <1>5, <1>6, FrameStays

\* The restrict relations of a node that passes the check are empty.
LEMMA CheckRestrictFrames ==
    ASSUME BaseInv, BaseInv', Next, NEW r \in Req, CheckRestrict(r), stack' # stack,
           FramesInv(r)
    PROVE  FramesInv(r)'
<1>1. Planning(r) /\ plan' = plan /\ rows' = rows /\ world' = world
  BY DEF CheckRestrict, store, request
<1>2. PICK f : f = Top(r)
  OBVIOUS
<1>3. PICK f2 : f2 = [f EXCEPT !.checked = TRUE]
  OBVIOUS
<1>4. /\ f \in Frame /\ f = stack[r][1] /\ f2 \in Frame
      /\ f2.node = f.node /\ f2.page = f.page /\ f2.rels = f.rels /\ f2.skip = f.skip
      /\ f2.checked = TRUE
  BY <1>1, <1>2, <1>3, InnermostCall DEF Frame
<1>5. stack'[r] = [stack[r] EXCEPT ![1] = f2] /\ stack'[r][1] = f2 /\ 1 \in DOMAIN stack'[r]
  <2>1. stack'[r] = [stack[r] EXCEPT ![1] = [Top(r) EXCEPT !.checked = TRUE]]
    BY <1>1, PlanShape DEF BaseInv
  <2>2. stack'[r] = [stack[r] EXCEPT ![1] = f2]
    BY <1>2, <1>3, <2>1
  <2>3. stack[r] \in Seq(Frame) /\ stack[r] # <<>> /\ 1 \in DOMAIN stack[r]
    BY <1>1, InnermostCall
  <2> QED
    BY <1>4, <2>2, <2>3
<1>6. PICK due : due = f.page
  OBVIOUS
<1>7. Due(r, 1) = due /\ Due(r, 1)' = due
  BY <1>4, <1>5, <1>6 DEF Due
<1>8. PICK m \in Nat : m = Len(plan[r])
  BY DEF BaseInv, TypeOK
<1>9. FrameInv(r, 1) /\ f.node \in Node /\ Kept(f.node) \subseteq Relation
  BY <1>1, <1>2, InnermostCall, KeptType DEF FramesInv, BaseInv
<1>10. ~Blocked(r, f.node) /\ read'[r] = read[r] \cup ({f.node} \X world.restrict[f.node])
  BY <1>2 DEF CheckRestrict, BaseInv, TypeOK
<1>11. ASSUME NEW rel \in Kept(f.node), rel \notin Unread(f2)
       PROVE  Settled(r, f.node, rel, m, due)'
  <2>1. CASE rel \notin Unread(f)
    <3>1. Settled(r, f.node, rel, m, due)
      BY <1>4, <1>7, <1>8, <1>9, <2>1 DEF FrameInv
    <3> QED
      BY <1>1, <1>9, <3>1, SettledStays
  <2>2. CASE rel \in Unread(f)
    <3>1. rel \in world.restrict[f.node]
      BY <1>4, <1>11, <2>2 DEF Unread
    <3>2. Children(r, f.node, rel) = {}
      BY <1>10, <3>1 DEF Blocked
    <3>3. dead[r] = {}
      BY <1>1, InnermostCall, NothingDeletedYet
    <3>4. Kids(f.node, rel)' = {}
      BY <1>1, <3>2, <3>3 DEF Kids, Children, Visible
    <3>5. <<f.node, rel>> \in read'[r]
      BY <1>10, <3>1
    <3> QED
      BY <3>4, <3>5 DEF Settled
  <2> QED
    BY <2>1, <2>2
<1>12. FrameInv(r, 1)'
  <2>1. Kept(f2.node)' = Kept(f.node) /\ Unread(f2)' = Unread(f2)
    BY <1>1, <1>4 DEF Kept, Unread
  <2>2. ASSUME NEW rel \in Kept(f2.node)' \ Unread(f2)'
        PROVE  Settled(r, f2.node, rel, Len(plan[r]), Due(r, 1))'
    BY <1>1, <1>4, <1>7, <1>8, <1>11, <2>1 DEF Settled
  <2>3. IsFiniteSet(f2.page)
    BY <1>4, <1>9 DEF FrameInv
  <2>4. f2.skip > 0 => f2.rels # <<>> /\ Head(f2.rels) \notin world'.single
    BY <1>1, <1>4, <1>9 DEF FrameInv
  <2>5. Alive(r)' = Alive(r) /\ Gathered(r, 1)' = Gathered(r, 1)
    <3>1. fresh' = fresh /\ erased' = erased
      BY DEF CheckRestrict, store
    <3> QED
      BY <1>1, <1>4, <1>5, <1>7, <3>1 DEF Alive, Gathered
  <2>6. f2.skip > 0 /\ Sound(plan'[r], Len(plan'[r]), Due(r, 1)', Alive(r)')
           => Cardinality(Gathered(r, 1)') >= f2.skip
    BY <1>1, <1>4, <1>7, <1>9, <2>5 DEF FrameInv
  <2> QED
    BY <1>5, <2>2, <2>3, <2>4, <2>6 DEF FrameInv
<1> SUFFICES ASSUME NEW i \in DOMAIN stack'[r], i # 1 PROVE FrameInv(r, i)'
  BY <1>12 DEF FramesInv
<1>13. plan'[r] = plan[r] /\ f2.node = Top(r).node
  BY <1>1, <1>2, <1>4
<1> QED
  BY <1>1, <1>4, <1>5, <1>13, OuterFrames

\* The rows that have come are all the rows in front of a page that is short.
LEMMA ShortPageCounts ==
    ASSUME NEW F \in SUBSET Nat, IsFiniteSet(F), NEW s \in Nat, NEW found,
           found = {c \in F : Rank(F, c) \in s..(s + PageSize - 1)},
           Cardinality(found) < PageSize,
           NEW K \in SUBSET (F \ found), Cardinality(K) >= s
    PROVE  \A c \in F : c \in found \/ c \in K
<1> DEFINE rest == F \ found
<1>1. Cardinality(rest) <= s
  BY ShortPageIsLast
<1>2. IsFiniteSet(rest)
  BY FS_Subset
<1>3. Cardinality(rest) \in Nat /\ Cardinality(K) \in Nat
  BY <1>2, FS_Subset, FS_CardinalityType
<1>4. Cardinality(K) <= Cardinality(rest) /\ (Cardinality(K) = Cardinality(rest) => K = rest)
  <2> HIDE DEF rest
  <2>1. K \in SUBSET rest
    BY DEF rest
  <2> QED
    BY <1>2, <2>1, FS_Subset
<1>5. K = rest
  BY <1>1, <1>3, <1>4
<1> QED
  BY <1>5

\* Behind a full page as many rows have come as are skipped.
LEMMA LongPageCounts ==
    ASSUME NEW K, NEW found, IsFiniteSet(K), IsFiniteSet(found), K \cap found = {},
           NEW s \in Nat, Cardinality(K) >= s, ~(Cardinality(found) < PageSize)
    PROVE  Cardinality(K \cup found) >= s + PageSize
<1>1. Cardinality(K \cup found) =
        Cardinality(K) + Cardinality(found) - Cardinality(K \cap found)
  BY FS_Union
<1>2. Cardinality(K \cap found) = 0
  BY FS_EmptySet
<1>3. Cardinality(K) \in Nat /\ Cardinality(found) \in Nat /\ PageSize \in Nat
  BY FS_CardinalityType, LimitsAssumption
<1> QED
  BY <1>1, <1>2, <1>3

\* What a query of the plan finds: the request has deleted nothing yet, so it reads
\* the committed rows of the relation.
LEMMA PageFinds ==
    ASSUME BaseInv, NEW r \in Req, ReadPage(r), FramesInv(r),
           NEW f, f = Top(r), NEW rel, rel = Head(f.rels),
           NEW found, found = Page(r, f.node, rel, f.skip),
           NEW F, F = Kids(f.node, rel)
    PROVE  /\ F \in SUBSET Nat /\ IsFiniteSet(F) /\ IsFiniteSet(found) /\ F \subseteq rows
           /\ found = {c \in F : Rank(F, c) \in f.skip..(f.skip + PageSize - 1)}
           /\ \A c \in F : <<f.node, rel, c>> \in world.links
           /\ f.skip \in Nat
           /\ f.skip > 0 => rel \notin world.single
<1>1. Planning(r)
  BY DEF ReadPage, Querying
<1>2. f \in Frame /\ FrameInv(r, 1) /\ f = stack[r][1] /\ pc[r] = "plan"
  BY <1>1, InnermostCall DEF FramesInv
<1>3. dead[r] = {}
  BY <1>2, NothingDeletedYet
<1>4. F = Children(r, f.node, rel) /\ F \in SUBSET Nat /\ F \subseteq rows
  BY <1>3, NodeAssumption DEF Kids, Children, Visible, BaseInv, TypeOK
<1>5. IsFiniteSet(F)
  BY <1>4, FS_Subset DEF BaseInv, StoreInv
<1>6. found = {c \in F : Rank(F, c) \in f.skip..(f.skip + PageSize - 1)}
  BY <1>4 DEF Page
<1>7. IsFiniteSet(found)
  <2>1. found \in SUBSET F
    BY <1>6
  <2> QED
    BY <1>5, <2>1, FS_Subset
<1>8. f.skip \in Nat /\ (f.skip > 0 => rel \notin world.single)
  BY <1>2 DEF FrameInv, Frame
<1> QED
  BY <1>4, <1>5, <1>6, <1>7, <1>8 DEF Kids

\* The rows of the relation that have come are other rows than those of the page, and
\* as many as are skipped, if the plan can be carried out at all.
LEMMA RowsThatCame ==
    ASSUME BaseInv, NEW r \in Req, ReadPage(r), FramesInv(r), NEW found,
           Sound(plan[r], Len(plan[r]), found, Alive(r))
    PROVE  /\ \A c \in Gathered(r, 1) :
                /\ c \in FirstOf(plan[r], Len(plan[r]))
                /\ c \in Kids(Top(r).node, Head(Top(r).rels)) /\ c \notin found
           /\ Cardinality(Gathered(r, 1)) >= Top(r).skip
<1>0. PICK f : f = Top(r)
  OBVIOUS
<1> DEFINE rel == Head(f.rels)
           F   == Kids(f.node, rel)
           m   == Len(plan[r])
<1>1. Planning(r) /\ f.page = {} /\ f.rels # <<>>
  BY <1>0 DEF ReadPage, Querying
<1>2. /\ f = stack[r][1] /\ f \in Frame /\ Due(r, 1) = {} /\ FrameInv(r, 1)
      /\ pc[r] = "plan"
  BY <1>0, <1>1, InnermostCall DEF FramesInv
<1>3. erased[r] = {}
  BY <1>2, NothingDeletedYet
<1>4. Gathered(r, 1) = {c \in FirstOf(plan[r], m) :
                          c \notin fresh /\ <<f.node, rel, c>> \in world.links}
  BY <1>2 DEF Gathered
<1>5. Sound(plan[r], m, {}, Alive(r)) /\ FirstOf(plan[r], m) \cap found = {}
      /\ FirstOf(plan[r], m) \subseteq Alive(r)
  BY DEF Sound
<1>6. \A c \in Gathered(r, 1) : c \in FirstOf(plan[r], m) /\ c \in F /\ c \notin found
  BY <1>3, <1>4, <1>5 DEF Alive, Kids
<1>7. f.skip > 0 => Cardinality(Gathered(r, 1)) >= f.skip
  BY <1>2, <1>5 DEF FrameInv
<1>8. Cardinality(Gathered(r, 1)) \in Nat
  <2>1. IsFiniteSet(stack[r][1].page)
    BY <1>2 DEF FrameInv
  <2> QED
    BY <2>1, GatheredIsFinite DEF BaseInv
<1> QED
  BY <1>0, <1>2, <1>6, <1>7, <1>8 DEF Frame

\* A page that is short is the last of its relation.
LEMMA ShortPageSettles ==
    ASSUME BaseInv, NEW r \in Req, ReadPage(r), FramesInv(r),
           NEW f, f = Top(r), NEW rel, rel = Head(f.rels),
           NEW found, found = Page(r, f.node, rel, f.skip), Short(found, rel),
           NEW F, F = Kids(f.node, rel), NEW m \in Nat, m = Len(plan[r]),
           Sound(plan[r], m, found, Alive(r))
    PROVE  \A c \in F : c \in found \/ c \in FirstOf(plan[r], m)
<1>1. /\ F \in SUBSET Nat /\ IsFiniteSet(F) /\ IsFiniteSet(found) /\ F \subseteq rows
      /\ found = {c \in F : Rank(F, c) \in f.skip..(f.skip + PageSize - 1)}
      /\ \A c \in F : <<f.node, rel, c>> \in world.links
      /\ f.skip \in Nat
      /\ f.skip > 0 => rel \notin world.single
  BY PageFinds
<1>2. PICK K : K = Gathered(r, 1)
  OBVIOUS
<1>3. /\ \A c \in K : c \in FirstOf(plan[r], m) /\ c \in F /\ c \notin found
      /\ Cardinality(K) >= f.skip
  BY <1>2, RowsThatCame
<1>4. CASE rel \notin world.single
  <2>1. Cardinality(found) < PageSize
    BY <1>4 DEF Short
  <2>2. K \in SUBSET (F \ found)
    BY <1>3
  <2>3. \A c \in F : c \in found \/ c \in K
    BY <1>1, <1>3, <2>1, <2>2, ShortPageCounts
  <2> QED
    BY <1>3, <2>3
<1>5. CASE rel \in world.single
  <2>1. f.skip = 0
    BY <1>1, <1>5
  <2>2. \A c, d \in F : c = d
    <3> SUFFICES ASSUME NEW c \in F, NEW d \in F PROVE c = d
      OBVIOUS
    <3>1. PICK link : link = <<f.node, rel, d>>
      OBVIOUS
    <3>2. link[1] = f.node /\ link[2] = rel /\ link[3] = d
      BY <3>1
    <3>3. link \in world.links /\ <<link[1], link[2], c>> \in world.links
      BY <1>1, <3>1, <3>2
    <3> QED
      BY <1>1, <1>5, <3>2, <3>3 DEF BaseInv, StoreInv, AtMostOne
  <2>3. \A c \in F : Rank(F, c) = 0
    <3> SUFFICES ASSUME NEW c \in F PROVE Rank(F, c) = 0
      OBVIOUS
    <3>1. {d \in F : d < c} = {}
      BY <1>1, <2>2
    <3> QED
      BY <3>1, FS_EmptySet DEF Rank
  <2>4. 0 \in 0..(0 + PageSize - 1)
    BY LimitsAssumption
  <2> QED
    BY <1>1, <2>1, <2>3, <2>4
<1> QED
  BY <1>4, <1>5

\* What is not the first element is in the tail.
LEMMA TailHasTheRest ==
    ASSUME NEW s \in Seq(Relation), s # <<>>, NEW k \in DOMAIN s, s[k] # Head(s)
    PROVE  k - 1 \in DOMAIN Tail(s) /\ Tail(s)[k - 1] = s[k]
OBVIOUS

\* A query of the plan settles its relation, or its page is one more page that comes.
LEMMA ReadPageFrames ==
    ASSUME BaseInv, BaseInv', Next, NEW r \in Req, ReadPage(r), FramesInv(r)
    PROVE  FramesInv(r)'
<1>1. /\ Planning(r) /\ plan' = plan /\ rows' = rows /\ world' = world /\ fresh' = fresh
      /\ erased' = erased
  BY DEF ReadPage, Querying, store, request
<1>2. PICK f : f = Top(r)
  OBVIOUS
<1>3. PICK rel : rel = Head(f.rels)
  OBVIOUS
<1>4. PICK found : found = Page(r, f.node, rel, f.skip)
  OBVIOUS
<1>5. PICK m \in Nat : m = Len(plan[r])
  BY DEF BaseInv, TypeOK
<1>6. PICK F : F = Kids(f.node, rel)
  OBVIOUS
<1>7. PICK short : short = [f EXCEPT !.page = found, !.skip = 0, !.rels = Tail(f.rels)]
  OBVIOUS
<1>8. PICK long : long = [f EXCEPT !.page = found, !.skip = f.skip + PageSize]
  OBVIOUS
<1>9. PICK f2 : f2 = IF Short(found, rel) THEN short ELSE long
  OBVIOUS
<1>10. /\ f \in Frame /\ f = stack[r][1] /\ f.rels # <<>> /\ f.checked /\ f.page = {}
       /\ rel \in Relation /\ Tail(f.rels) \in Seq(Relation) /\ f.node \in Node
       /\ Due(r, 1) = {} /\ FrameInv(r, 1)
  <2>1. f.checked /\ f.page = {}
    BY <1>2 DEF ReadPage, Querying
  <2> QED
    BY <1>1, <1>2, <1>3, <2>1, ReadPageShape, InnermostCall DEF FramesInv, BaseInv
<1>11. /\ stack'[r] = [stack[r] EXCEPT ![1] = f2]
       /\ Short(found, rel) => read'[r] = read[r] \cup {<<f.node, rel>>}
  BY <1>2, <1>3, <1>4, <1>7, <1>8, <1>9, ReadPageShape DEF BaseInv
<1>12. /\ F \in SUBSET Nat /\ IsFiniteSet(F) /\ IsFiniteSet(found) /\ F \subseteq rows
       /\ found = {c \in F : Rank(F, c) \in f.skip..(f.skip + PageSize - 1)}
       /\ \A c \in F : <<f.node, rel, c>> \in world.links
       /\ f.skip \in Nat
       /\ f.skip > 0 => rel \notin world.single
  BY <1>2, <1>3, <1>4, <1>6, PageFinds
<1>13. f2 \in Frame /\ f2.node = f.node /\ f2.page = found /\ f2.checked
  <2>1. found \in SUBSET Node
    BY <1>12 DEF BaseInv, TypeOK
  <2>2. f.skip + PageSize \in Nat
    BY <1>12, LimitsAssumption
  <2>3. short \in Frame /\ short.node = f.node /\ short.page = found /\ short.checked
    BY <1>7, <1>10, <2>1 DEF Frame
  <2>4. long \in Frame /\ long.node = f.node /\ long.page = found /\ long.checked
    BY <1>8, <1>10, <2>1, <2>2 DEF Frame
  <2> QED
    BY <1>9, <2>3, <2>4
<1>14. stack'[r][1] = f2
  BY <1>1, <1>11, <1>13, InnermostCall, ReplaceTop
<1>21. Due(r, 1)' = found
  BY <1>13, <1>14 DEF Due
<1>15. Kept(f2.node)' = Kept(f.node) /\ Kept(f.node) \subseteq Relation
  BY <1>1, <1>10, <1>13, KeptType DEF Kept, BaseInv
\* What the call had read before it keeps.
<1>16. ASSUME NEW k \in Kept(f.node), k \notin Unread(f)
       PROVE  Settled(r, f.node, k, m, found)'
  <2>1. Settled(r, f.node, k, m, {}) /\ k \in Relation
    BY <1>5, <1>10, <1>15, <1>16 DEF FrameInv
  <2> QED
    BY <1>1, <1>10, <2>1, SettledStays
<1>17. ASSUME Short(found, rel) PROVE FrameInv(r, 1)'
  <2>1. f2 = short /\ f2.skip = 0 /\ f2.rels = Tail(f.rels)
    BY <1>7, <1>9, <1>10, <1>17 DEF Frame
  <2>2. Settled(r, f.node, rel, m, found)'
    <3>1. Kids(f.node, rel)' = F /\ Alive(r)' = Alive(r) /\ plan'[r] = plan[r]
      BY <1>1, <1>6 DEF Kids, Alive
    <3>2. Sound(plan[r], m, found, Alive(r))
            => \A c \in F : c \in found \/ c \in FirstOf(plan[r], m)
      BY <1>2, <1>3, <1>4, <1>5, <1>6, <1>17, ShortPageSettles
    <3>3. <<f.node, rel>> \in read'[r]
      BY <1>11, <1>17
    <3> QED
      BY <3>1, <3>2, <3>3 DEF Settled
  <2>3. \A k \in DOMAIN f.rels : f.rels[k] = rel \/ \E j \in DOMAIN f2.rels : f2.rels[j] = f.rels[k]
    <3> SUFFICES ASSUME NEW k \in DOMAIN f.rels, f.rels[k] # rel
        PROVE  \E j \in DOMAIN f2.rels : f2.rels[j] = f.rels[k]
      OBVIOUS
    <3>1. f.rels \in Seq(Relation) /\ f.rels[1] = rel
      BY <1>3, <1>10 DEF Frame
    <3>2. k - 1 \in DOMAIN f2.rels /\ f2.rels[k - 1] = f.rels[k]
      BY <1>3, <1>10, <2>1, <3>1, TailHasTheRest
    <3> QED
      BY <3>2
  <2>4. ASSUME NEW k \in Kept(f.node), k \notin Unread(f2)'
        PROVE  Settled(r, f.node, k, m, found)'
    <3>1. k \notin Unread(f) \/ k = rel
      BY <1>10, <1>13, <2>3, <2>4 DEF Unread
    <3> QED
      BY <1>16, <2>2, <3>1
  <2>5. ~(f2.skip > 0) /\ IsFiniteSet(f2.page)
    BY <1>12, <1>13, <2>1
  <2>6. ASSUME NEW k \in Kept(f2.node)' \ Unread(f2)'
        PROVE  Settled(r, f2.node, k, Len(plan[r]), Due(r, 1))'
    BY <1>1, <1>5, <1>13, <1>15, <1>21, <2>4, <2>6 DEF Settled
  <2> QED
    BY <1>14, <2>5, <2>6 DEF FrameInv
<1>18. ASSUME ~Short(found, rel) PROVE FrameInv(r, 1)'
  <2>1. f2 = long /\ f2.skip = f.skip + PageSize /\ f2.rels = f.rels
    BY <1>8, <1>9, <1>10, <1>18 DEF Frame
  <2>2. rel \notin world.single /\ ~(Cardinality(found) < PageSize)
    BY <1>18 DEF Short
  <2>3. Unread(f2)' = Unread(f)
    BY <1>1, <1>10, <1>13, <2>1 DEF Unread
  <2>4. PICK K : K = Gathered(r, 1)
    OBVIOUS
  <2>5. ASSUME Sound(plan[r], m, found, Alive(r))
        PROVE  K \cap found = {} /\ Cardinality(K) >= f.skip
    <3>1. /\ \A c \in K : c \in FirstOf(plan[r], m) /\ c \in F /\ c \notin found
          /\ Cardinality(K) >= f.skip
      BY <1>2, <1>3, <1>5, <1>6, <2>4, <2>5, RowsThatCame
    <3> QED
      BY <3>1
  <2>6. IsFiniteSet(K)
    <3>1. IsFiniteSet(stack[r][1].page)
      BY <1>10 DEF FrameInv
    <3> QED
      BY <2>4, <3>1, GatheredIsFinite DEF BaseInv
  <2>7. Gathered(r, 1)' = K \cup found
    <3>1. Gathered(r, 1)' = {c \in FirstOf(plan[r], m) \cup found :
                               c \notin fresh /\ <<f.node, rel, c>> \in world.links}
      BY <1>1, <1>3, <1>5, <1>13, <1>14, <1>21, <2>1 DEF Gathered
    <3>2. K = {c \in FirstOf(plan[r], m) :
                  c \notin fresh /\ <<f.node, rel, c>> \in world.links}
      BY <1>3, <1>5, <1>10, <2>4 DEF Gathered
    <3>3. \A c \in found : c \notin fresh /\ <<f.node, rel, c>> \in world.links
      BY <1>12 DEF BaseInv, StoreInv
    <3> QED
      BY <3>1, <3>2, <3>3
  <2>8. Sound(plan[r], m, found, Alive(r)) => Cardinality(K \cup found) >= f.skip + PageSize
    <3> SUFFICES ASSUME Sound(plan[r], m, found, Alive(r))
        PROVE  Cardinality(K \cup found) >= f.skip + PageSize
      OBVIOUS
    <3>1. K \cap found = {} /\ Cardinality(K) >= f.skip
      BY <2>5
    <3> QED
      BY <1>12, <2>2, <2>6, <3>1, LongPageCounts
  <2>9. f2.rels # <<>> /\ Head(f2.rels) \notin world'.single /\ IsFiniteSet(f2.page)
    BY <1>1, <1>3, <1>10, <1>12, <1>13, <2>1, <2>2
  <2>10. Sound(plan'[r], Len(plan'[r]), Due(r, 1)', Alive(r)')
           => Cardinality(Gathered(r, 1)') >= f2.skip
    <3>1. Alive(r)' = Alive(r)
      BY <1>1 DEF Alive
    <3> QED
      BY <1>1, <1>5, <1>21, <2>1, <2>7, <2>8, <3>1
  <2>11. ASSUME NEW k \in Kept(f2.node)' \ Unread(f2)'
         PROVE  Settled(r, f2.node, k, Len(plan[r]), Due(r, 1))'
    BY <1>1, <1>5, <1>13, <1>15, <1>16, <1>21, <2>3, <2>11 DEF Settled
  <2> QED
    BY <1>14, <2>9, <2>10, <2>11 DEF FrameInv
<1>19. FrameInv(r, 1)'
  BY <1>17, <1>18
<1> SUFFICES ASSUME NEW i \in DOMAIN stack'[r], i # 1 PROVE FrameInv(r, i)'
  BY <1>19 DEF FramesInv
<1>20. plan'[r] = plan[r] /\ f2.node = Top(r).node
  BY <1>1, <1>2, <1>13
<1> QED
  BY <1>1, <1>11, <1>13, <1>20, OuterFrames

\* What is due before a call is in its page or is the node of a call above it.
LEMMA DueIs ==
    ASSUME NEW r, NEW i, NEW c \in Due(r, i)
    PROVE  c \in stack[r][i].page \/ \E j \in 1..(i - 1) : c = stack[r][j].node
BY DEF Due

\* The call of a child takes its place in front of the rest of its page.
LEMMA DescendFrames ==
    ASSUME BaseInv, BaseInv', Next, NEW r \in Req, Descend(r), stack' # stack, FramesInv(r)
    PROVE  FramesInv(r)'
<1>1. Planning(r) /\ plan' = plan /\ world' = world /\ Top(r).page # {}
  BY DEF Descend, request
<1>2. PICK s : s = stack[r]
  OBVIOUS
<1>3. PICK child : child = First(Top(r).page)
  OBVIOUS
<1>4. PICK f : f = EnterFrame(child)
  OBVIOUS
<1>5. PICK g : g = [Top(r) EXCEPT !.page = Top(r).page \ {child}]
  OBVIOUS
<1>6. /\ s \in Seq(Frame) /\ s # <<>> /\ Top(r) = s[1] /\ Top(r) \in Frame
      /\ DOMAIN s = 1..Len(s) /\ Len(s) \in Nat \ {0} /\ Due(r, 1) = Top(r).page
      /\ pc[r] = "plan"
  BY <1>1, <1>2, InnermostCall
<1>7. Top(r).page \in SUBSET Node /\ child \in Top(r).page
  BY <1>1, <1>3, <1>6, FirstIsOfPage DEF Frame
<1>8. f \in Frame /\ g \in Frame
  BY <1>4, <1>5, <1>6, <1>7, EnterFrameType DEF Frame, BaseInv
<1>9. /\ g.node = s[1].node /\ g.checked = s[1].checked /\ g.rels = s[1].rels
      /\ g.skip = s[1].skip /\ g.page = s[1].page \ {child} /\ f.node = child
  BY <1>4, <1>5, <1>6 DEF Frame, EnterFrame
<1>10. stack'[r] = <<f, g>> \o Tail(s)
  BY <1>1, <1>2, <1>3, <1>4, <1>5, PlanShape DEF BaseInv
<1>11. PICK t : t = stack'[r]
  OBVIOUS
<1>12. /\ Len(t) = Len(s) + 1 /\ DOMAIN t = 1..(Len(s) + 1)
       /\ t[1] = f /\ t[2] = g /\ \A i \in 2..Len(s) : t[i + 1] = s[i]
  BY <1>6, <1>8, <1>10, <1>11, PushFrame
<1>13. PICK m \in Nat : m = Len(plan[r])
  BY DEF BaseInv, TypeOK
<1>14. FrameInv(r, 1)'
  <2>1. f = EnterFrame(child)'
    BY <1>1, <1>4 DEF EnterFrame
  <2>2. (stack[r][1] = EnterFrame(child))'
    BY <1>11, <1>12, <2>1
  <2> QED
    BY <2>2, FreshFrame
<1>15. FrameInv(r, 2)'
  <2>1. 1 \in DOMAIN stack[r] /\ 2 \in DOMAIN stack'[r] /\ FrameInv(r, 1)
    BY <1>2, <1>6, <1>11, <1>12 DEF FramesInv
  <2>2. stack'[r][2] = g /\ stack[r][1] = s[1]
    BY <1>2, <1>11, <1>12
  <2>3. IsFiniteSet(g.page)
    <3>1. IsFiniteSet(s[1].page)
      BY <1>2, <2>1 DEF FrameInv
    <3>2. IsFiniteSet(s[1].page \ {child})
      BY <3>1, FS_Difference
    <3> QED
      BY <1>9, <3>2
  <2>4. \A c \in Due(r, 1) : c \in Due(r, 2)'
    <3>1. Due(r, 2)' = stack'[r][2].page \cup {stack'[r][j].node : j \in 1..(2 - 1)}
      BY DEF Due
    <3>2. child \in {stack'[r][j].node : j \in 1..(2 - 1)}
      BY <1>9, <1>11, <1>12
    <3> QED
      BY <1>6, <1>9, <2>2, <3>1, <3>2
  <2>5. /\ stack'[r][2].node = stack[r][1].node /\ stack'[r][2].checked = stack[r][1].checked
        /\ stack'[r][2].rels = stack[r][1].rels /\ stack'[r][2].skip = stack[r][1].skip
        /\ IsFiniteSet(stack'[r][2].page)
    BY <1>9, <2>2, <2>3
  <2>6. plan'[r] = plan[r] /\ Len(plan[r]) \in Nat
    BY <1>1, <1>13
  <2> QED
    BY <2>1, <2>4, <2>5, <2>6, FrameStays
<1>16. ASSUME NEW i \in 2..Len(s) PROVE FrameInv(r, i + 1)'
  <2>0. i \in DOMAIN s /\ i + 1 \in DOMAIN t /\ t[i + 1] = s[i]
    BY <1>6, <1>12
  <2>1. /\ i \in DOMAIN stack[r] /\ i + 1 \in DOMAIN stack'[r] /\ FrameInv(r, i)
        /\ stack'[r][i + 1] = stack[r][i]
    BY <1>2, <1>6, <1>11, <2>0 DEF FramesInv
  <2>2. IsFiniteSet(stack'[r][i + 1].page)
    BY <2>1 DEF FrameInv
  <2>3. \A c \in Due(r, i) : c \in Due(r, i + 1)'
    <3> SUFFICES ASSUME NEW c \in Due(r, i) PROVE c \in Due(r, i + 1)'
      OBVIOUS
    <3>1. Due(r, i + 1)' = stack'[r][i + 1].page \cup {stack'[r][j].node : j \in 1..(i + 1 - 1)}
      BY DEF Due
    <3>2. CASE c \in stack[r][i].page
      BY <2>1, <3>1, <3>2
    <3>3. CASE c \in {stack[r][j].node : j \in 1..(i - 1)}
      <4>1. PICK j \in 1..(i - 1) : c = stack[r][j].node
        BY <3>3
      <4>2. t[j + 1].node = s[j].node
        <5>1. CASE j = 1
          <6>1. t[1 + 1] = g
            BY <1>12
          <6> QED
            BY <1>9, <5>1, <6>1
        <5>2. CASE j # 1
          <6>1. j \in 2..Len(s)
            BY <1>6, <4>1, <5>2
          <6> QED
            BY <1>12, <6>1
        <5> QED
          BY <5>1, <5>2
      <4>3. j + 1 \in 1..(i + 1 - 1)
        BY <4>1
      <4>4. stack'[r][j + 1].node = c
        BY <1>2, <1>11, <4>1, <4>2
      <4> QED
        BY <3>1, <4>3, <4>4
    <3> QED
      BY <3>2, <3>3 DEF Due
  <2> QED
    BY <1>1, <1>13, <2>1, <2>2, <2>3, FrameStays
<1>17. ASSUME NEW i \in DOMAIN stack'[r] PROVE FrameInv(r, i)'
  <2>1. i \in 1..(Len(s) + 1) /\ Len(s) \in Nat
    BY <1>6, <1>11, <1>12
  <2>2. CASE i = 1
    BY <1>14, <2>2
  <2>3. CASE i = 2
    BY <1>15, <2>3
  <2>4. CASE i > 2
    <3>1. i - 1 \in 2..Len(s) /\ (i - 1) + 1 = i
      BY <2>1, <2>4
    <3>2. FrameInv(r, (i - 1) + 1)'
      BY <1>16, <3>1
    <3> QED
      BY <3>1, <3>2
  <2> QED
    BY <2>1, <2>2, <2>3, <2>4
<1> QED
  BY <1>17 DEF FramesInv

\* A node that is complete moves from the calls to the end of the plan.
LEMMA FinishNodeFrames ==
    ASSUME BaseInv, BaseInv', Next, NEW r \in Req, FinishNode(r), FramesInv(r)
    PROVE  FramesInv(r)'
<1>1. Planning(r) /\ plan' = [plan EXCEPT ![r] = Append(plan[r], Top(r).node)]
  BY DEF FinishNode, BaseInv, TypeOK
<1>2. PICK s : s = stack[r]
  OBVIOUS
<1>3. PICK t : t = stack'[r]
  OBVIOUS
<1>4. /\ s \in Seq(Frame) /\ s # <<>> /\ Top(r) = s[1] /\ Len(s) \in Nat \ {0}
      /\ DOMAIN s = 1..Len(s) /\ pc[r] = "plan"
  BY <1>1, <1>2, InnermostCall
<1>5. /\ t = Tail(s) /\ DOMAIN t = 1..(Len(s) - 1)
      /\ \A i \in 1..(Len(s) - 1) : t[i] = s[i + 1]
  <2>1. t = Tail(s)
    BY <1>1, <1>2, <1>3, PlanShape DEF BaseInv
  <2> QED
    BY <1>4, <2>1, TopOfStack
<1>6. PICK m \in Nat : m = Len(plan[r])
  BY DEF BaseInv, TypeOK
<1>7. /\ Len(plan'[r]) = m + 1 /\ plan'[r][m + 1] = s[1].node
      /\ \A k \in 1..m : plan'[r][k] = plan[r][k]
  BY <1>1, <1>4, <1>6 DEF BaseInv, TypeOK
<1> SUFFICES ASSUME NEW i \in DOMAIN stack'[r] PROVE FrameInv(r, i)'
  BY DEF FramesInv
<1>8. i \in 1..(Len(s) - 1)
  BY <1>3, <1>5
<1>9. /\ i + 1 \in DOMAIN stack[r] /\ FrameInv(r, i + 1)
      /\ stack'[r][i] = stack[r][i + 1]
  BY <1>2, <1>3, <1>4, <1>5, <1>8 DEF FramesInv
<1>10. IsFiniteSet(stack'[r][i].page)
  BY <1>9 DEF FrameInv
<1>11. \A c \in Due(r, i + 1) : c \in Due(r, i)' \/ c = s[1].node
  <2> SUFFICES ASSUME NEW c \in Due(r, i + 1), c # s[1].node PROVE c \in Due(r, i)'
    OBVIOUS
  <2>1. Due(r, i)' = stack'[r][i].page \cup {stack'[r][j].node : j \in 1..(i - 1)}
    BY DEF Due
  <2>2. c \in stack[r][i + 1].page \/ \E j \in 1..(i + 1 - 1) : c = stack[r][j].node
    <3>1. PICK k : k = i + 1
      OBVIOUS
    <3>2. c \in stack[r][k].page \/ \E j \in 1..(k - 1) : c = stack[r][j].node
      BY <3>1, DueIs
    <3> QED
      BY <1>4, <1>8, <3>1, <3>2
  <2>3. CASE c \in stack[r][i + 1].page
    BY <1>9, <2>1, <2>3
  <2>4. ASSUME NEW j \in 1..(i + 1 - 1), c = stack[r][j].node PROVE c \in Due(r, i)'
    <3>2. j # 1
      BY <1>2, <2>4
    <3>3. j - 1 \in 1..(i - 1) /\ (j - 1) + 1 = j
      BY <1>8, <2>4, <3>2
    <3>4. j - 1 \in 1..(Len(s) - 1)
      BY <1>4, <1>8, <3>3
    <3>5. t[j - 1] = s[(j - 1) + 1]
      BY <1>5, <3>4
    <3>6. stack'[r][j - 1].node = c
      BY <1>2, <1>3, <2>4, <3>3, <3>5
    <3> QED
      BY <2>1, <3>3, <3>6
  <2> QED
    BY <2>2, <2>3, <2>4
<1>12. m + 1 \in (m + 1)..Len(plan'[r]) /\ m <= Len(plan'[r])
  BY <1>7
<1>13. \A c \in Due(r, i + 1) \ Due(r, i)' : \E k \in (m + 1)..Len(plan'[r]) : plan'[r][k] = c
  BY <1>7, <1>11, <1>12
<1>14. /\ Len(plan[r]) <= Len(plan'[r])
       /\ \A k \in 1..Len(plan[r]) : plan'[r][k] = plan[r][k]
       /\ \A c \in Due(r, i + 1) \ Due(r, i)' :
            \E k \in (Len(plan[r]) + 1)..Len(plan'[r]) : plan'[r][k] = c
  BY <1>6, <1>7, <1>12, <1>13
<1> QED
  BY <1>9, <1>10, <1>14, FrameStays

\* A node that is complete has read all its relations: what they gave stands before it.
LEMMA FinishNodePlan ==
    ASSUME BaseInv, Next, NEW r \in Req, FinishNode(r), FramesInv(r), PlanInv(r)
    PROVE  PlanInv(r)'
<1>1. /\ Planning(r) /\ plan' = [plan EXCEPT ![r] = Append(plan[r], Top(r).node)]
      /\ Top(r).checked /\ Top(r).page = {} /\ Top(r).rels = <<>> /\ world' = world
  BY DEF FinishNode, BaseInv, TypeOK, request
<1>2. PICK n : n = Top(r).node
  OBVIOUS
<1>3. PICK m \in Nat : m = Len(plan[r])
  BY DEF BaseInv, TypeOK
<1>4. /\ plan[r] \in Seq(Node) /\ DOMAIN plan[r] = 1..m /\ n \in Node
      /\ DOMAIN plan'[r] = 1..(m + 1) /\ plan'[r][m + 1] = n
      /\ \A k \in 1..m : plan'[r][k] = plan[r][k]
  BY <1>1, <1>2, <1>3, InnermostCall DEF BaseInv, TypeOK
<1>5. Kept(n)' = Kept(n) /\ Kept(n) \subseteq Relation
  BY <1>1, <1>4, KeptType DEF Kept, BaseInv
<1>6. ASSUME NEW rel \in Kept(n) PROVE Settled(r, n, rel, m, {})'
  <2>1. Top(r) = stack[r][1] /\ Due(r, 1) = {} /\ FrameInv(r, 1)
    BY <1>1, InnermostCall DEF FramesInv
  <2>2. Unread(Top(r)) = {}
    BY <1>1 DEF Unread
  <2>3. Settled(r, n, rel, m, {}) /\ rel \in Relation
    BY <1>2, <1>3, <1>5, <2>1, <2>2 DEF FrameInv
  <2> QED
    BY <1>4, <2>3, SettledStays
<1> SUFFICES ASSUME NEW j \in DOMAIN plan'[r]
    PROVE  (\A rel \in Kept(plan[r][j]) : Settled(r, plan[r][j], rel, j - 1, {}))'
  BY DEF PlanInv
<1>7. CASE j \in 1..m
  <2>1. \A k \in 1..(j - 1) : k \in 1..m
    BY <1>7
  <2> QED
    BY <1>4, <1>7, <2>1, PlanStays
<1>8. CASE j = m + 1
  <2>1. plan'[r][j] = n /\ j - 1 = m
    BY <1>4, <1>8
  <2>2. \A rel \in Kept(n)' : Settled(r, n, rel, j - 1, {})'
    BY <1>5, <1>6, <2>1 DEF Settled
  <2> QED
    BY <2>1, <2>2 DEF Kept, Settled
<1> QED
  BY <1>4, <1>7, <1>8

\* No plan exists initially.
LEMMA CascadeInit == Init => CascadeInv
<1> SUFFICES ASSUME Init, NEW r \in Req PROVE PlanInv(r) /\ FramesInv(r)
  BY DEF CascadeInv
<1>1. plan[r] = <<>> /\ pc[r] = "new"
  BY DEF Init
<1>2. DOMAIN plan[r] = {}
  BY <1>1
<1> QED
  BY <1>1, <1>2 DEF PlanInv, FramesInv

\* Every step keeps the invariant of the plan, given the first part.
LEMMA CascadeStep ==
    ASSUME BaseInv, BaseInv', [Next]_vars, CascadeInv
    PROVE  CascadeInv'
<1> SUFFICES ASSUME NEW r \in Req PROVE PlanInv(r)' /\ FramesInv(r)'
  BY DEF CascadeInv
<1>1. PlanInv(r) /\ FramesInv(r)
  BY DEF CascadeInv
<1>2. CASE stack'[r] = stack[r] /\ plan'[r] = plan[r] /\ (pc'[r] = "plan" => pc[r] = "plan")
  BY <1>1, <1>2, UntouchedFrames, UntouchedPlan
<1>3. CASE UNCHANGED vars
  BY <1>2, <1>3 DEF vars, planning
<1>4. ASSUME NEW n \in Node, Insert(n) PROVE PlanInv(r)' /\ FramesInv(r)'
  BY <1>2, <1>4 DEF Insert, planning
<1>5. ASSUME NEW q \in Req, q # r, Handle(q) PROVE PlanInv(r)' /\ FramesInv(r)'
  <2>1. PerRequest(r)' = PerRequest(r)
    BY <1>5, HandleStays DEF BaseInv
  <2> QED
    BY <1>2, <2>1 DEF PerRequest
<1>6. ASSUME Handle(r) PROVE PlanInv(r)' /\ FramesInv(r)'
  <2>0. Next
    BY <1>6 DEF Next
  <2>1. plan'[r] = plan[r] => PlanInv(r)'
    BY <1>1, UntouchedPlan
  <2>2. CASE LoadRoot(r)
    BY <2>1, <2>2, LoadRootFrames DEF LoadRoot
  <2>3. CASE PlainDelete(r)
    BY <2>3, PlainDeletePlan
  <2>4. CASE CheckRestrict(r)
    <3>1. plan' = plan /\ pc[r] = "plan"
      BY <2>4 DEF CheckRestrict, Planning
    <3>2. CASE stack' = stack
      BY <1>2, <3>1, <3>2
    <3>3. CASE stack' # stack
      BY <1>1, <2>0, <2>1, <2>4, <3>1, <3>3, CheckRestrictFrames
    <3> QED
      BY <3>2, <3>3
  <2>5. CASE ReadPage(r)
    BY <1>1, <2>0, <2>1, <2>5, ReadPageFrames DEF ReadPage
  <2>6. CASE Descend(r)
    <3>1. plan' = plan /\ pc[r] = "plan"
      BY <2>6 DEF Descend, Planning
    <3>2. CASE stack' = stack
      BY <1>2, <3>1, <3>2
    <3>3. CASE stack' # stack
      BY <1>1, <2>0, <2>1, <2>6, <3>1, <3>3, DescendFrames
    <3> QED
      BY <3>2, <3>3
  <2>7. CASE FinishNode(r)
    BY <1>1, <2>0, <2>7, FinishNodeFrames, FinishNodePlan
  <2>8. CASE UNCHANGED planning /\ (pc'[r] # "plan" \/ pc' = pc)
    BY <1>2, <2>8 DEF planning
  <2> QED
    BY <1>6, <2>2, <2>3, <2>4, <2>5, <2>6, <2>7, <2>8, PlanningStays DEF BaseInv
<1> QED
  BY <1>3, <1>4, <1>5, <1>6 DEF Next

\* A deleted entity leaves no child behind but those that came after the cascade
\* had read their relation.  Deletes go on only while the plan is sound: each of
\* its nodes was there to delete, once.
THEOREM NoOrphansLeft == Spec => []NoOrphans
<1>1. BaseInv /\ CascadeInv => NoOrphans
  <2> SUFFICES ASSUME BaseInv, CascadeInv, NEW r \in Req, NEW link \in world.links,
                      link[1] \in erased[r], link[2] \in Kept(link[1]), link[3] \in rows
      PROVE  link[3] \in late[r]
    BY DEF NoOrphans
  <2>1. PICK n : n = link[1]
    OBVIOUS
  <2>2. PICK rel : rel = link[2]
    OBVIOUS
  <2>3. PICK c : c = link[3]
    OBVIOUS
  <2>4. <<n, rel, c>> \in world.links /\ n \in erased[r] /\ rel \in Kept(n) /\ c \in rows
    <3>1. world.links \subseteq Node \X Relation \X Node
      BY DEF BaseInv, TypeOK, Scenario
    <3>2. link = <<n, rel, c>>
      BY <2>1, <2>2, <2>3, <3>1
    <3> QED
      BY <2>1, <2>2, <2>3, <3>2
  <2>5. tx[r] # "rolledback" /\ tx[r] # "open"
    BY <2>4 DEF BaseInv, StoreInv
  <2>6. dead[r] = {}
    BY <2>5 DEF BaseInv, StoreInv
  <2>7. PICK d \in Nat : d = next[r] - 1
    BY DEF BaseInv, TypeOK
  <2>8. /\ erased[r] = FirstOf(plan[r], d)
        /\ \A k, l \in 1..d : plan[r][k] = plan[r][l] => k = l
    BY <2>5, <2>6, <2>7 DEF BaseInv, RequestInv, DeletedInv
  <2>9. PICK j \in 1..d : n = plan[r][j]
    BY <2>4, <2>8 DEF FirstOf
  <2>10. j \in DOMAIN plan[r]
    <3>1. next[r] <= Len(plan[r]) + 1 /\ plan[r] \in Seq(Node) /\ next[r] \in Nat
      BY DEF BaseInv, TypeOK, RequestInv, DeletedInv
    <3> QED
      BY <2>7, <2>9, <3>1
  <2>11. Settled(r, n, rel, j - 1, {})
    BY <2>4, <2>9, <2>10 DEF CascadeInv, PlanInv
  <2>12. \A k \in 1..(j - 1) : k \in 1..d
    BY <2>9
  <2>13. \A x \in FirstOf(plan[r], j - 1) : x \in erased[r]
    BY <2>8, <2>12 DEF FirstOf
  <2>14. Sound(plan[r], j - 1, {}, Alive(r))
    BY <2>8, <2>12, <2>13 DEF Sound, Alive
  <2>15. c \in Kids(n, rel)
    BY <2>4 DEF Kids
  <2>16. c \in late[r] \/ c \in FirstOf(plan[r], j - 1)
    BY <2>11, <2>14, <2>15 DEF Settled
  <2>17. c \notin erased[r]
    BY <2>4 DEF BaseInv, StoreInv
  <2> QED
    BY <2>3, <2>13, <2>16, <2>17
<1>2. Init => BaseInv /\ CascadeInv
  BY BaseInit, CascadeInit
<1>3. BaseInv /\ CascadeInv /\ [Next]_vars => (BaseInv /\ CascadeInv)'
  BY BaseStep, CascadeStep
<1> QED
  BY <1>1, <1>2, <1>3, PTL DEF Spec


=============================================================================
