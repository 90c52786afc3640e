------------------------ MODULE BatchController_proofs ------------------------
(***************************************************************************)
(* What holds of BatchController for every number of requests, every set   *)
(* of changesets and every payload: type correctness, the atomicity of     *)
(* changesets and the settling of their transactions, from one inductive   *)
(* invariant; and, from a second one on top of it, what a batch promises   *)
(* its client and the refinement of AtomicUnits.                           *)
(***************************************************************************)
EXTENDS BatchController, FiniteSetTheorems, TLAPS

\* executeAtomicGroup or, for a request on its own, executeGroup is running.
Running == phase \in {"exec", "await", "settle", "abort"}

\* Where the loop of handleBatch and the one of executeGroup stand.
PosInv ==
    /\ phase = "validate" => pos = 1
    /\ phase = "open" \/ Running => pos \in Req
    /\ phase = "open" => CurGroup \in Groups \ executed /\ cur = pos
    /\ Running =>
         IF CurGroup = NoGroup
         THEN cur = pos /\ phase \in {"exec", "await"}
         ELSE /\ CurGroup \notin executed
              /\ cur \in Members(CurGroup)
              /\ pos <= cur
              /\ tx[CurGroup] = "active"
    /\ phase \notin {"validate", "rejected"} =>
         /\ GroupsContiguous
         /\ \A i \in Req : i < pos /\ InGroup(i) => batch.grp[i] \in executed

\* A transaction is open only for the group that runs, and exists only for it
\* and for the groups executed before.
TxInv ==
    \A g \in Groups :
        /\ tx[g] = "active" => Running /\ CurGroup = g
        /\ tx[g] # "none" => g \in executed \/ (Running /\ CurGroup = g) \/ phase = "rejected"

\* The members of a group and its transaction.
MemberInv ==
    \A i \in Req : InGroup(i) =>
        /\ tx[batch.grp[i]] = "none" => entries[i] = NoEntry /\ handler[i] = "idle"
        /\ tx[batch.grp[i]] = "active" =>
             /\ batch.write[i]
             /\ entries[i] = "ok" => i \in txFx
             /\ handler[i] = "wrote" => i \in txFx
        /\ tx[batch.grp[i]] = "committed" => i \in durable /\ entries[i] = "ok"
        /\ tx[batch.grp[i]] # "committed" => i \notin durable

\* How far executeGroup has come in the running group.
ProgressInv ==
    Running /\ CurGroup # NoGroup =>
        /\ \A m \in Members(CurGroup) :
             /\ m < cur => entries[m] = "ok"
             /\ m > cur => entries[m] = NoEntry
        /\ phase # "settle" => entries[cur] = NoEntry
        /\ phase = "settle" =>
             entries[cur] \in Failed \/ (entries[cur] = "ok" /\ LastOfGroup(cur))

IInv == TypeOK /\ PosInv /\ TxInv /\ MemberInv /\ ProgressInv

-----------------------------------------------------------------------------
(* Lemmas on the groups of a payload.                                      *)

\* The requests of a payload are finitely many (validateContiguousAtomicityGroups
\* and executeGroup walk them by index).
LEMMA MembersFinite ==
    ASSUME TypeOK, NEW g
    PROVE  /\ Members(g) \subseteq Req
           /\ IsFiniteSet(Members(g))
           /\ Cardinality(Members(g)) \in Nat
<1>1. Members(g) \subseteq Req
    BY DEF Members
<1>2. IsFiniteSet(Req)
    BY NAssumption, FS_Interval DEF Req
<1>3. IsFiniteSet(Members(g))
    BY <1>1, <1>2, FS_Subset
<1> QED
    BY <1>1, <1>3, FS_CardinalityType

\* A contiguous group whose first member is the request the loop is at takes up
\* the positions from there on (GroupEntries relies on it).
LEMMA GroupIsInterval ==
    ASSUME TypeOK, GroupsContiguous, NEW g \in Groups, pos \in Members(g),
           \A m \in Members(g) : pos <= m,
           NEW k \in 1..Cardinality(Members(g))
    PROVE  pos + k - 1 \in Members(g)
<1> DEFINE M == Members(g)
<1>1. /\ M \subseteq Req
      /\ IsFiniteSet(M)
      /\ Cardinality(M) \in Nat
    BY MembersFinite
<1>2. SUFFICES ASSUME pos + k - 1 \notin M
               PROVE  FALSE
    OBVIOUS
<1>3. pos \in Int /\ N \in Nat /\ k \in Nat /\ k >= 1 /\ k <= Cardinality(M)
    BY <1>1, NAssumption DEF Req
<1>4. M \subseteq pos..(pos + k - 2)
  <2>1. SUFFICES ASSUME NEW m \in M, m > pos + k - 2
                 PROVE  FALSE
      BY <1>1, <1>3 DEF Req
  <2>2. m \in Int /\ m > pos + k - 1
      BY <1>1, <1>2, <1>3, <2>1 DEF Req
  <2>3. pos < pos + k - 1
      BY <1>2, <1>3
  <2>4. pos + k - 1 \in Req
      BY <1>1, <1>3, <2>2 DEF Req
  <2>5. batch.grp[pos + k - 1] = g
      BY <1>1, <2>2, <2>3, <2>4 DEF GroupsContiguous
  <2> QED
      BY <1>2, <2>4, <2>5 DEF Members
<1> DEFINE b == pos + k - 2
<1>5. b \in Int
    BY <1>3
<1> HIDE DEF b, M
<1>6. /\ IsFiniteSet(pos..b)
      /\ Cardinality(pos..b) = IF pos > b THEN 0 ELSE b - pos + 1
    BY <1>3, <1>5, FS_Interval
<1>7. Cardinality(M) <= Cardinality(pos..b)
    BY <1>4, <1>6, FS_Subset DEF b
<1>8. Cardinality(M) <= k - 1
    BY <1>1, <1>3, <1>6, <1>7 DEF b
<1> QED
    BY <1>1, <1>3, <1>8 DEF M

-----------------------------------------------------------------------------
(* The invariant holds initially and every action preserves it.            *)

LEMMA InitInv == Init => IInv
<1> SUFFICES ASSUME Init PROVE IInv
    OBVIOUS
<1>1. TypeOK
    BY NAssumption, BatchesAssumption DEF Init, Unstarted, TypeOK, Req, Status, Failed, NoEntry
<1>2. PosInv /\ ProgressInv
    BY DEF Init, Unstarted, PosInv, ProgressInv, Running
<1>3. TxInv /\ MemberInv
    BY <1>1 DEF Init, Unstarted, TxInv, MemberInv, TypeOK, Payload, InGroup
<1> QED
    BY <1>1, <1>2, <1>3 DEF IInv

LEMMA ValidateInv == ASSUME IInv, Validate PROVE IInv'
<1> USE DEF Validate, results, ids, store
<1>1. TypeOK'
    BY DEF IInv, TypeOK, Entry, Status
<1>2. PosInv' /\ ProgressInv'
    BY NAssumption DEF IInv, TypeOK, PosInv, ProgressInv, Running, GroupsContiguous, Members, InGroup, CurGroup, Req
<1>3. TxInv' /\ MemberInv'
    BY DEF IInv, TxInv, MemberInv, Running, InGroup, CurGroup
<1> QED
    BY <1>1, <1>2, <1>3 DEF IInv

LEMMA ShiftPendingInv == ASSUME IInv, ShiftPending PROVE IInv'
<1> USE DEF ShiftPending, ids, store
<1>1. CurGroup \in Groups /\ pos \in Req /\ pos + 1 \in 1..(N + 1)
    BY NAssumption DEF IInv, TypeOK, Req
<1>2. TypeOK'
  <2>1. pending[CurGroup] \in Seq(Entry) /\ responses \in Seq(Entry)
      BY <1>1 DEF IInv, TypeOK
  <2>2. pending[CurGroup] # <<>> =>
          /\ Tail(pending[CurGroup]) \in Seq(Entry)
          /\ Append(responses, Head(pending[CurGroup])) \in Seq(Entry)
      BY <2>1
  <2>3. pending' \in [Groups -> Seq(Entry)] /\ responses' \in Seq(Entry)
      BY <1>1, <2>2 DEF IInv, TypeOK
  <2> QED
      BY <1>1, <2>3 DEF IInv, TypeOK
<1>3. PosInv'
    BY <1>1 DEF IInv, PosInv, Running, GroupsContiguous, Members, InGroup, CurGroup, Req
<1>4. ProgressInv' /\ TxInv' /\ MemberInv'
    BY DEF IInv, ProgressInv, TxInv, MemberInv, Running, InGroup, CurGroup
<1> QED
    BY <1>2, <1>3, <1>4 DEF IInv

LEMMA EnterGroupInv == ASSUME IInv, EnterGroup PROVE IInv'
<1> USE DEF EnterGroup, results, ids, store
<1>1. pos \in Req
    BY NAssumption DEF IInv, TypeOK, Req
<1>2. TypeOK'
    BY <1>1 DEF IInv, TypeOK
<1>3. PosInv'
    BY <1>1 DEF IInv, PosInv, Running, GroupsContiguous, Members, InGroup, CurGroup
<1>4. ProgressInv' /\ TxInv' /\ MemberInv'
    BY DEF IInv, ProgressInv, TxInv, MemberInv, Running, InGroup, CurGroup
<1> QED
    BY <1>2, <1>3, <1>4 DEF IInv

LEMMA EnterSingleInv == ASSUME IInv, EnterSingle PROVE IInv'
<1> USE DEF EnterSingle, results, ids, store
<1>1. pos \in Req
    BY NAssumption DEF IInv, TypeOK, Req
<1>2. TypeOK'
    BY <1>1 DEF IInv, TypeOK
<1>3. PosInv'
    BY <1>1 DEF IInv, PosInv, Running, GroupsContiguous, Members, InGroup, CurGroup
<1>4. ProgressInv'
    BY DEF ProgressInv, CurGroup
<1>5. TxInv' /\ MemberInv'
    BY DEF IInv, TxInv, MemberInv, Running, InGroup, CurGroup
<1> QED
    BY <1>2, <1>3, <1>4, <1>5 DEF IInv

LEMMA AnswerInv == ASSUME IInv, Answer PROVE IInv'
<1> USE DEF Answer, results, ids, store
<1>1. TypeOK'
    BY DEF IInv, TypeOK
<1>2. PosInv' /\ ProgressInv'
    BY DEF IInv, PosInv, ProgressInv, Running, GroupsContiguous, Members, InGroup, CurGroup
<1>3. TxInv' /\ MemberInv'
    BY DEF IInv, TxInv, MemberInv, Running, InGroup, CurGroup
<1> QED
    BY <1>1, <1>2, <1>3 DEF IInv

LEMMA OpenInvalidInv == ASSUME IInv, OpenInvalid PROVE IInv'
<1> USE DEF OpenInvalid, results, ids, store
<1>1. TypeOK'
    BY DEF IInv, TypeOK
<1>2. PosInv' /\ ProgressInv'
    BY DEF IInv, PosInv, ProgressInv, Running, CurGroup
<1>3. TxInv' /\ MemberInv'
    BY DEF IInv, TxInv, MemberInv, Running, InGroup, CurGroup
<1> QED
    BY <1>1, <1>2, <1>3 DEF IInv

\* In a running group the request executeGroup is at belongs to the group.
LEMMA RunningFacts ==
    ASSUME IInv, Running
    PROVE  /\ pos \in Req /\ cur \in Req
           /\ InGroup(cur) <=> CurGroup # NoGroup
           /\ InGroup(cur) => CurGroup \in Groups /\ batch.grp[cur] = CurGroup
<1>1. pos \in Req /\ cur \in Req
    BY DEF IInv, TypeOK, PosInv
<1>2. CurGroup \in Groups \cup {NoGroup}
    BY <1>1 DEF IInv, TypeOK, Payload, CurGroup
<1>3. CASE CurGroup = NoGroup
    BY <1>1, <1>3 DEF IInv, PosInv, InGroup, CurGroup
<1>4. CASE CurGroup # NoGroup
    BY <1>1, <1>2, <1>4 DEF IInv, PosInv, InGroup, Members
<1> QED
    BY <1>1, <1>3, <1>4

\* The loop of handleBatch executes a group when it is at its first member.
LEMMA AtFirstMember ==
    ASSUME IInv, phase = "open" \/ (Running /\ CurGroup # NoGroup)
    PROVE  /\ pos \in Req
           /\ CurGroup \in Groups /\ CurGroup \notin executed
           /\ pos \in Members(CurGroup)
           /\ \A m \in Members(CurGroup) : pos <= m
           /\ GroupsContiguous
<1>1. pos \in Req /\ GroupsContiguous
    BY DEF IInv, PosInv, Running
<1>2. CurGroup \in Groups /\ CurGroup \notin executed
    BY RunningFacts DEF IInv, PosInv
<1>3. pos \in Members(CurGroup)
    BY <1>1 DEF Members, CurGroup
<1>4. ASSUME NEW m \in Members(CurGroup) PROVE pos <= m
  <2>1. m \in Req /\ batch.grp[m] = CurGroup /\ InGroup(m)
      BY <1>2, GroupsAssumption DEF Members, InGroup
  <2>2. ~(m < pos)
      BY <1>2, <2>1 DEF IInv, PosInv, Running
  <2> QED
      BY <1>1, <2>1, <2>2, NAssumption DEF Req
<1> QED
    BY <1>1, <1>2, <1>3, <1>4

\* The entries of a group form a response for each of its members.
LEMMA GroupEntriesType ==
    ASSUME IInv, phase = "open" \/ (Running /\ CurGroup # NoGroup),
           NEW f, \A i \in Members(CurGroup) : f[i] \in Status
    PROVE  GroupEntries(f) \in Seq(Entry)
<1> DEFINE n == Cardinality(Members(CurGroup))
<1>1. n \in Nat /\ Members(CurGroup) \subseteq Req
    BY MembersFinite DEF IInv
<1>2. ASSUME NEW k \in 1..n
      PROVE  [id |-> pos + k - 1, status |-> f[pos + k - 1]] \in Entry
  <2>1. pos + k - 1 \in Members(CurGroup)
      BY AtFirstMember, GroupIsInterval DEF IInv
  <2> QED
      BY <1>1, <2>1 DEF Entry
<1> QED
    BY <1>1, <1>2 DEF GroupEntries

LEMMA OpenRejectedInv == ASSUME IInv, OpenRejected PROVE IInv'
<1> USE DEF OpenRejected, ids, store
<1> DEFINE rejected == [i \in Req |-> IF i \in Members(CurGroup) THEN "unsupported" ELSE depRes[i]]
<1>1. CurGroup \in Groups
    BY AtFirstMember
<1>2. TypeOK'
  <2>1. rejected \in [Req -> Status \cup {NoEntry}]
      BY DEF IInv, TypeOK, Status, Failed
  <2>2. \A i \in Members(CurGroup) : rejected[i] \in Status
      BY DEF Members, Status, Failed
  <2>3. GroupEntries(rejected) \in Seq(Entry)
      BY <2>2, GroupEntriesType
  <2>4. tracked' \in Nat
      BY MembersFinite DEF IInv, TypeOK
  <2>5. depRes' \in [Req -> Status \cup {NoEntry}] /\ executed' \subseteq Groups
      BY <1>1, <2>1 DEF IInv, TypeOK
  <2>6. pending' \in [Groups -> Seq(Entry)]
      BY <1>1, <2>3 DEF IInv, TypeOK
  <2> QED
      BY <2>4, <2>5, <2>6 DEF IInv, TypeOK
<1>3. PosInv' /\ ProgressInv'
    BY DEF IInv, PosInv, ProgressInv, Running, GroupsContiguous, Members, InGroup, CurGroup
<1>4. TxInv' /\ MemberInv'
    BY DEF IInv, TxInv, MemberInv, Running, InGroup, CurGroup
<1> QED
    BY <1>2, <1>3, <1>4 DEF IInv

\* A group that ends as a whole in an error leaves no transaction open, and
\* touches its members nowhere but in the responses.
LEMMA FailGroupInv ==
    ASSUME IInv, phase = "open" \/ (Running /\ CurGroup # NoGroup), FailGroup,
           UNCHANGED <<batch, pos, cur, entries, depRes, responses, tracked, ids, handler>>,
           tx' \in [Groups -> {"none", "active", "committed", "rolledback", "leaked"}],
           txFx' \subseteq Req, durable' \subseteq Req,
           \A g \in Groups : tx'[g] # "active" /\ (g # CurGroup => tx'[g] = tx[g]),
           MemberInv'
    PROVE  IInv'
<1> USE DEF FailGroup, ids
<1>1. CurGroup \in Groups
    BY AtFirstMember
<1>2. TypeOK'
  <2> DEFINE f == [i \in Req |-> "error"]
  <2>1. \A i \in Members(CurGroup) : f[i] \in Status
      BY DEF Members, Status, Failed
  <2>2. GroupEntries(f) \in Seq(Entry)
      BY <2>1, GroupEntriesType
  <2>3. pending' \in [Groups -> Seq(Entry)] /\ executed' \subseteq Groups
      BY <1>1, <2>2 DEF IInv, TypeOK
  <2> QED
      BY <2>3 DEF IInv, TypeOK
<1>3. PosInv' /\ ProgressInv'
    BY DEF IInv, PosInv, ProgressInv, Running, GroupsContiguous, Members, InGroup, CurGroup
<1>4. TxInv'
    BY DEF IInv, TxInv, Running, CurGroup
<1> QED
    BY <1>2, <1>3, <1>4 DEF IInv

LEMMA OpenFailsInv == ASSUME IInv, OpenFails PROVE IInv'
<1>1. \A g \in Groups : tx[g] # "active"
    BY DEF IInv, TxInv, Running, OpenFails
<1>2. MemberInv'
    BY DEF IInv, MemberInv, OpenFails, store, InGroup
<1> QED
    BY <1>1, <1>2, FailGroupInv DEF IInv, TypeOK, OpenFails, store

LEMMA OpenGroupInv == ASSUME IInv, OpenGroup PROVE IInv'
<1> USE DEF OpenGroup, results
<1>1. /\ pos \in Req
      /\ CurGroup \in Groups /\ CurGroup \notin executed
      /\ pos \in Members(CurGroup)
      /\ \A m \in Members(CurGroup) : pos <= m
    BY AtFirstMember
<1>2. cur = pos
    BY DEF IInv, PosInv
<1>3. tx[CurGroup] = "none"
    BY <1>1 DEF IInv, TxInv, Running
<1>4. TypeOK'
    BY DEF IInv, TypeOK
<1>5. PosInv'
    BY <1>1, <1>2, GroupsAssumption DEF IInv, TypeOK, PosInv, Running, GroupsContiguous, Members, InGroup, CurGroup, Req
<1>6. TxInv'
    BY <1>1 DEF IInv, TypeOK, TxInv, Running, CurGroup
<1>7. MemberInv'
    BY <1>1, <1>3 DEF IInv, TypeOK, MemberInv, InGroup, GroupWouldOpen, OnlyWrites, Members, NoEntry
<1>8. ProgressInv'
  <2>1. \A m \in Members(CurGroup) : entries[m] = NoEntry
      BY <1>1, <1>3, GroupsAssumption DEF IInv, MemberInv, InGroup, Members
  <2> QED
      BY <1>1, <1>2, <2>1, NAssumption DEF ProgressInv, Members, CurGroup, Req
<1> QED
    BY <1>4, <1>5, <1>6, <1>7, <1>8 DEF IInv

LEMMA UnknownContentIdInv == ASSUME IInv, UnknownContentId PROVE IInv'
<1> USE DEF UnknownContentId, results, ids, store
<1>1. InGroup(cur) <=> CurGroup # NoGroup
    BY RunningFacts DEF Running
<1>2. TypeOK'
    BY DEF IInv, TypeOK
<1>3. PosInv' /\ ProgressInv'
    BY <1>1 DEF IInv, PosInv, ProgressInv, Running, GroupsContiguous, Members, InGroup, CurGroup
<1>4. TxInv' /\ MemberInv'
    BY <1>1, GroupsAssumption DEF IInv, PosInv, TxInv, MemberInv, Running, InGroup, CurGroup
<1> QED
    BY <1>2, <1>3, <1>4 DEF IInv

\* Recording an entry (executeGroup) preserves the invariant when a success
\* recorded inside a changeset belongs to a write its transaction performed.
LEMMA RecordInv ==
    ASSUME IInv, phase \in {"exec", "await"}, NEW s \in Status, Record(s),
           UNCHANGED <<batch, tx, txFx, durable>>,
           InGroup(cur) /\ s = "ok" => cur \in txFx,
           handler' \in [Req -> {"idle", "running", "wrote", "committed", "ended"}],
           \A i \in Req : /\ handler[i] = "idle" => handler'[i] = "idle"
                          /\ handler'[i] = "wrote" => handler[i] = "wrote"
    PROVE  IInv'
<1>1. /\ pos \in Req /\ cur \in Req
      /\ InGroup(cur) <=> CurGroup # NoGroup
      /\ InGroup(cur) => CurGroup \in Groups /\ batch.grp[cur] = CurGroup
    BY RunningFacts DEF Running
<1>2. CASE RecordOverflow
  <2> USE <1>2 DEF RecordOverflow, ids
  <2>1. TypeOK'
      BY DEF IInv, TypeOK
  <2>2. PosInv' /\ ProgressInv'
      BY <1>1 DEF IInv, PosInv, ProgressInv, Running, GroupsContiguous, Members, InGroup, CurGroup
  <2>3. TxInv' /\ MemberInv'
      BY <1>1, GroupsAssumption DEF IInv, PosInv, TxInv, MemberInv, Running, InGroup, CurGroup
  <2> QED
      BY <2>1, <2>2, <2>3 DEF IInv
<1>3. CASE RecordEntry(s) /\ ~InGroup(cur)
  <2> USE <1>3 DEF RecordEntry
  <2>1. cur = pos /\ CurGroup = NoGroup
      BY <1>1 DEF IInv, PosInv, Running
  <2>2. TypeOK'
    <3>1. [id |-> cur, status |-> s] \in Entry
        BY <1>1 DEF Entry
    <3>2. responses' = Append(responses, [id |-> cur, status |-> s])
        OBVIOUS
    <3>3. responses' \in Seq(Entry)
        BY <3>1, <3>2 DEF IInv, TypeOK
    <3>4. pos' \in 1..(N + 1) /\ tracked' \in Nat
        BY <1>1, NAssumption DEF IInv, TypeOK, Req
    <3> QED
        BY <1>1, <3>3, <3>4 DEF IInv, TypeOK, Registered
  <2>3. PosInv'
    <3>1. \A i \in Req : i < pos + 1 => i < pos \/ i = pos
        BY <1>1, NAssumption DEF Req
    <3> QED
        BY <1>1, <2>1, <3>1 DEF IInv, PosInv, Running, GroupsContiguous, Members, InGroup, CurGroup
  <2>4. ProgressInv'
      BY DEF ProgressInv, Running
  <2>5. TxInv'
      BY <2>1, GroupsAssumption DEF IInv, TxInv, Running, CurGroup
  <2>6. MemberInv'
      BY <1>1, <2>1 DEF IInv, TypeOK, MemberInv, InGroup
  <2> QED
      BY <2>2, <2>3, <2>4, <2>5, <2>6 DEF IInv
<1>4. CASE RecordEntry(s) /\ InGroup(cur)
  <2> USE <1>4 DEF RecordEntry
  <2>1. /\ tx[CurGroup] = "active" /\ CurGroup \notin executed
        /\ pos <= cur /\ cur \in Members(CurGroup)
      BY <1>1 DEF IInv, PosInv, Running
  <2>2. /\ cur' \in Req /\ pos <= cur' /\ cur' \in Members(CurGroup)
        /\ phase' = "exec" => cur' = cur + 1 /\ s = "ok"
        /\ phase' = "settle" => cur' = cur /\ (s # "ok" \/ LastOfGroup(cur))
        /\ phase' \in {"exec", "settle"}
      BY <1>1, <2>1, NAssumption DEF LastOfGroup, Members, Req
  <2>3. TypeOK'
      BY <1>1, <2>2 DEF IInv, TypeOK, Registered
  <2>4. PosInv'
      BY <1>1, <2>1, <2>2 DEF IInv, PosInv, Running, GroupsContiguous, Members, InGroup, CurGroup
  <2>5. TxInv'
      BY <2>2 DEF IInv, TxInv, Running, CurGroup
  <2>6. MemberInv'
      BY <1>1, <2>1 DEF IInv, TypeOK, MemberInv, InGroup
  <2>7. ProgressInv'
    <3>1. \A m \in Members(CurGroup) :
            /\ m < cur => entries[m] = "ok"
            /\ m > cur => entries[m] = NoEntry
        BY <1>1 DEF IInv, ProgressInv, Running
    <3>2. entries' = [entries EXCEPT ![cur] = s] /\ entries \in [Req -> Status \cup {NoEntry}]
        BY DEF IInv, TypeOK
    <3>3. \A m \in Members(CurGroup) :
            /\ m < cur' => entries'[m] = "ok"
            /\ m > cur' => entries'[m] = NoEntry
        BY <1>1, <2>2, <3>1, <3>2, NAssumption DEF Members, Req
    <3>4. phase' = "exec" => entries'[cur'] = NoEntry
        BY <1>1, <2>2, <3>1, <3>2, NAssumption DEF Req
    <3>5. phase' = "settle" =>
            entries'[cur'] \in Failed \/ (entries'[cur'] = "ok" /\ LastOfGroup(cur'))
        BY <1>1, <2>2, <3>2 DEF Status
    <3>6. (\A m \in Members(CurGroup) :
             /\ m < cur => entries[m] = "ok"
             /\ m > cur => entries[m] = NoEntry)'
        BY <3>3 DEF Members, CurGroup
    <3>7. (phase = "settle" =>
             entries[cur] \in Failed \/ (entries[cur] = "ok" /\ LastOfGroup(cur)))'
        BY <3>5 DEF LastOfGroup, Members
    <3> QED
        BY <2>2, <3>4, <3>6, <3>7 DEF ProgressInv, Running
  <2> QED
      BY <2>3, <2>4, <2>5, <2>6, <2>7 DEF IInv
<1> QED
    BY <1>2, <1>3, <1>4 DEF Record

LEMMA UnawaitedRecordsInv ==
    ASSUME IInv, SkipDependent \/ InvalidRequest \/ HandlerTimeout \/ ResponseTooLarge
    PROVE  IInv'
<1>1. PICK s \in Status \ {"ok"} :
        /\ phase \in {"exec", "await"}
        /\ Record(s)
        /\ UNCHANGED <<batch, tx, txFx, durable, handler>>
    BY DEF SkipDependent, InvalidRequest, HandlerTimeout, ResponseTooLarge, store, Status, Failed
<1> QED
    BY <1>1, RecordInv DEF IInv, TypeOK

LEMMA StartHandlerInv == ASSUME IInv, StartHandler PROVE IInv'
<1> USE DEF StartHandler, results, ids, store
<1>1. /\ cur \in Req
      /\ InGroup(cur) => CurGroup # NoGroup /\ batch.grp[cur] = CurGroup
    BY RunningFacts DEF Running
<1>2. InGroup(cur) => tx[batch.grp[cur]] = "active"
    BY <1>1 DEF IInv, PosInv, Running
<1>3. TypeOK'
    BY <1>1 DEF IInv, TypeOK
<1>4. PosInv' /\ ProgressInv'
    BY DEF IInv, PosInv, ProgressInv, Running, GroupsContiguous, Members, InGroup, CurGroup
<1>5. TxInv'
    BY DEF IInv, TxInv, Running, CurGroup
<1>6. MemberInv'
    BY <1>1, <1>2 DEF IInv, TypeOK, MemberInv, InGroup
<1> QED
    BY <1>3, <1>4, <1>5, <1>6 DEF IInv

LEMMA HandlerInv == ASSUME IInv, NEW i \in Req, Handler(i) PROVE IInv'
<1>1. CASE HandlerWrite(i)
  <2> USE <1>1 DEF HandlerWrite, control, results, ids
  <2>1. TypeOK'
      BY DEF IInv, TypeOK
  <2>2. PosInv' /\ ProgressInv'
      BY DEF IInv, PosInv, ProgressInv, Running, GroupsContiguous, Members, InGroup, CurGroup, LastOfGroup
  <2>3. TxInv'
      BY DEF IInv, TxInv, Running, CurGroup
  <2>4. MemberInv'
      BY DEF IInv, TypeOK, MemberInv, InGroup
  <2> QED
      BY <2>1, <2>2, <2>3, <2>4 DEF IInv
<1>2. CASE HandlerCommit(i)
  <2> USE <1>2 DEF HandlerCommit, control, results, ids
  <2>1. TypeOK'
      BY DEF IInv, TypeOK
  <2>2. PosInv' /\ ProgressInv'
      BY DEF IInv, PosInv, ProgressInv, Running, GroupsContiguous, Members, InGroup, CurGroup, LastOfGroup
  <2>3. TxInv'
      BY DEF IInv, TxInv, Running, CurGroup
  <2>4. MemberInv'
      BY DEF IInv, TypeOK, MemberInv, InGroup
  <2> QED
      BY <2>1, <2>2, <2>3, <2>4 DEF IInv
<1>3. CASE HandlerRespond(i)
  <2> USE <1>3 DEF HandlerRespond
  <2>1. /\ phase = "await" /\ cur = i
        /\ UNCHANGED <<batch, tx, txFx, durable>>
        /\ handler' = [handler EXCEPT ![i] = "ended"]
      BY DEF Awaited, store
  <2>2. PICK s \in {"ok", "fail"} : Record(s) /\ (s = "ok" => CanSucceed(i))
      OBVIOUS
  <2>3. s \in Status
      BY DEF Status, Failed
  <2>4. InGroup(i) => batch.grp[i] = CurGroup /\ tx[CurGroup] = "active" /\ batch.write[i]
      BY <2>1, RunningFacts DEF IInv, PosInv, MemberInv, Running
  <2>5. InGroup(cur) /\ s = "ok" => cur \in txFx
      BY <2>1, <2>2, <2>4 DEF CanSucceed, IInv, MemberInv
  <2>6. /\ handler' \in [Req -> {"idle", "running", "wrote", "committed", "ended"}]
        /\ \A j \in Req : /\ handler[j] = "idle" => handler'[j] = "idle"
                          /\ handler'[j] = "wrote" => handler[j] = "wrote"
    <3>1. handler[i] # "idle"
        BY <2>2 DEF CanSucceed, CanFail
    <3> QED
        BY <2>1, <3>1 DEF IInv, TypeOK
  <2> QED
      BY <2>1, <2>2, <2>3, <2>5, <2>6, RecordInv
<1>4. CASE HandlerEndUnheard(i)
  <2> USE <1>4 DEF HandlerEndUnheard, control, results, ids, store
  <2>1. handler[i] # "idle"
      BY DEF CanSucceed, CanFail
  <2>2. TypeOK'
      BY DEF IInv, TypeOK
  <2>3. PosInv' /\ ProgressInv'
      BY DEF IInv, PosInv, ProgressInv, Running, GroupsContiguous, Members, InGroup, CurGroup, LastOfGroup
  <2>4. TxInv' /\ MemberInv'
      BY <2>1 DEF IInv, TypeOK, TxInv, MemberInv, Running, CurGroup, InGroup
  <2> QED
      BY <2>2, <2>3, <2>4 DEF IInv
<1> QED
    BY <1>1, <1>2, <1>3, <1>4 DEF Handler

\* A changeset is settled only when its members all have an entry, or one failed.
LEMMA SettledMembers ==
    ASSUME IInv, phase = "settle"
    PROVE  /\ Running /\ CurGroup \in Groups
           /\ tx[CurGroup] = "active"
           /\ ~GroupFailed => \A i \in Members(CurGroup) : entries[i] = "ok" /\ i \in txFx
<1>1. /\ Running /\ CurGroup # NoGroup
      /\ cur \in Members(CurGroup) /\ tx[CurGroup] = "active"
    BY DEF IInv, PosInv, Running
<1>2. CurGroup \in Groups /\ batch.grp[cur] = CurGroup /\ cur \in Req /\ GroupsContiguous
    BY <1>1, RunningFacts, AtFirstMember DEF Members
<1>3. ASSUME ~GroupFailed, NEW i \in Members(CurGroup)
      PROVE  entries[i] = "ok" /\ i \in txFx
  <2>1. entries[cur] = "ok" /\ LastOfGroup(cur)
      BY <1>1, <1>3 DEF IInv, ProgressInv, GroupFailed
  <2>2. cur + 1 \notin Members(CurGroup) /\ i \in Req /\ batch.grp[i] = CurGroup
      BY <1>2, <2>1 DEF LastOfGroup, Members
  <2>3. ~(i > cur)
    <3>1. SUFFICES ASSUME i > cur PROVE FALSE
        OBVIOUS
    <3>2. cur + 1 \in Req /\ cur < cur + 1 /\ (cur + 1 < i \/ cur + 1 = i)
        BY <1>2, <2>2, <3>1, NAssumption DEF Req
    <3>3. batch.grp[cur + 1] = CurGroup
        BY <1>1, <1>2, <2>2, <3>2 DEF GroupsContiguous
    <3> QED
        BY <2>2, <3>2, <3>3 DEF Members
  <2>4. entries[i] = "ok"
    <3>1. i < cur \/ i = cur
        BY <1>2, <2>2, <2>3, NAssumption DEF Req
    <3> QED
        BY <1>1, <2>1, <3>1 DEF IInv, ProgressInv
  <2>5. i \in txFx
      BY <1>1, <2>2, <2>4 DEF IInv, MemberInv, InGroup
  <2> QED
      BY <2>4, <2>5
<1> QED
    BY <1>1, <1>2, <1>3

LEMMA RollbackGroupInv == ASSUME IInv, RollbackGroup PROVE IInv'
<1> USE DEF RollbackGroup, DropEffects, ids
<1> DEFINE filled(f) == [i \in Req |-> IF i \in Unexecuted THEN "failedDep" ELSE f[i]]
<1>1. /\ Running /\ CurGroup \in Groups /\ CurGroup # NoGroup
      /\ tx[CurGroup] = "active"
    BY SettledMembers, GroupsAssumption
<1>2. \A f \in [Req -> Status \cup {NoEntry}] : filled(f) \in [Req -> Status \cup {NoEntry}]
    BY DEF Status, Failed
<1>3. TypeOK'
  <2>1. tracked' \in Nat
    <3>1. Unexecuted \subseteq Members(CurGroup)
        BY DEF Unexecuted
    <3>2. Cardinality(Unexecuted) \in Nat
        BY <3>1, MembersFinite, FS_Subset, FS_CardinalityType DEF IInv
    <3> QED
        BY <3>2 DEF IInv, TypeOK
  <2>2. entries' \in [Req -> Status \cup {NoEntry}] /\ depRes' \in [Req -> Status \cup {NoEntry}]
      BY <1>2 DEF IInv, TypeOK
  <2>3. executed' \subseteq Groups /\ pending' \in [Groups -> Seq(Entry)]
    <3>1. CASE UNCHANGED <<executed, pending>>
        BY <3>1 DEF IInv, TypeOK
    <3>2. CASE /\ executed' = executed \cup {CurGroup}
               /\ entries' = filled(entries)
               /\ pending' = [pending EXCEPT ![CurGroup] = GroupEntries(entries')]
      <4>1. \A i \in Members(CurGroup) : entries'[i] \in Status
          BY <3>2 DEF IInv, TypeOK, Unexecuted, Members, Status, Failed
      <4>2. GroupEntries(entries') \in Seq(Entry)
          BY <1>1, <4>1, GroupEntriesType
      <4> QED
          BY <1>1, <3>2, <4>2 DEF IInv, TypeOK
    <3> QED
        BY <3>1, <3>2
  <2> QED
      BY <2>1, <2>2, <2>3 DEF IInv, TypeOK
<1>4. PosInv' /\ ProgressInv'
    BY <1>1 DEF IInv, PosInv, ProgressInv, Running, GroupsContiguous, Members, InGroup, CurGroup
<1>5. TxInv'
    BY <1>1 DEF IInv, TypeOK, TxInv, Running, CurGroup
<1>6. MemberInv'
  <2>1. SUFFICES ASSUME NEW i \in Req, InGroup(i)
                 PROVE  (/\ tx[batch.grp[i]] = "none" => entries[i] = NoEntry /\ handler[i] = "idle"
                         /\ tx[batch.grp[i]] = "active" =>
                              /\ batch.write[i]
                              /\ entries[i] = "ok" => i \in txFx
                              /\ handler[i] = "wrote" => i \in txFx
                         /\ tx[batch.grp[i]] = "committed" => i \in durable /\ entries[i] = "ok"
                         /\ tx[batch.grp[i]] # "committed" => i \notin durable)'
      BY DEF MemberInv, InGroup
  <2>2. CASE batch.grp[i] = CurGroup
      BY <1>1, <2>1, <2>2 DEF IInv, TypeOK, MemberInv, InGroup
  <2>3. CASE batch.grp[i] # CurGroup
    <3>1. i \notin Members(CurGroup) /\ i \notin Unexecuted
        BY <2>3 DEF Members, Unexecuted
    <3>2. entries'[i] = entries[i] /\ (i \in txFx' <=> i \in txFx)
        BY <3>1 DEF IInv, TypeOK
    <3>3. tx'[batch.grp[i]] = tx[batch.grp[i]]
        BY <2>3 DEF IInv, TypeOK
    <3> QED
        BY <2>1, <3>2, <3>3 DEF IInv, MemberInv
  <2> QED
      BY <2>2, <2>3
<1> QED
    BY <1>3, <1>4, <1>5, <1>6 DEF IInv

\* Closing the transaction of the running group without a commit preserves what
\* is known of the members.
LEMMA DroppedMembers ==
    ASSUME IInv, CurGroup \in Groups, tx[CurGroup] = "active",
           NEW t \in {"rolledback", "leaked"}, tx' = [tx EXCEPT ![CurGroup] = t],
           DropEffects, UNCHANGED <<batch, entries, durable, handler>>
    PROVE  MemberInv'
<1>1. SUFFICES ASSUME NEW i \in Req, InGroup(i)
               PROVE  (/\ tx[batch.grp[i]] = "none" => entries[i] = NoEntry /\ handler[i] = "idle"
                       /\ tx[batch.grp[i]] = "active" =>
                            /\ batch.write[i]
                            /\ entries[i] = "ok" => i \in txFx
                            /\ handler[i] = "wrote" => i \in txFx
                       /\ tx[batch.grp[i]] = "committed" => i \in durable /\ entries[i] = "ok"
                       /\ tx[batch.grp[i]] # "committed" => i \notin durable)'
    BY DEF MemberInv, InGroup
<1>2. CASE batch.grp[i] = CurGroup
    BY <1>1, <1>2 DEF IInv, TypeOK, MemberInv, InGroup
<1>3. CASE batch.grp[i] # CurGroup
  <2>1. i \in txFx' <=> i \in txFx
      BY <1>3 DEF DropEffects, Members
  <2>2. tx'[batch.grp[i]] = tx[batch.grp[i]]
      BY <1>3 DEF IInv, TypeOK
  <2> QED
      BY <1>1, <2>1, <2>2 DEF IInv, MemberInv
<1> QED
    BY <1>2, <1>3

LEMMA AbortGroupInv == ASSUME IInv, AbortGroup PROVE IInv'
<1> USE DEF AbortGroup, results, ids
<1>1. /\ CurGroup \in Groups /\ tx[CurGroup] = "active"
    BY RunningFacts DEF IInv, PosInv, Running
<1>2. TypeOK'
    BY DEF IInv, TypeOK, DropEffects
<1>3. PosInv' /\ ProgressInv'
    BY DEF IInv, PosInv, ProgressInv, Running, CurGroup
<1>4. TxInv'
    BY <1>1 DEF IInv, TypeOK, TxInv, Running, CurGroup
<1>5. MemberInv'
    BY <1>1, DroppedMembers
<1> QED
    BY <1>2, <1>3, <1>4, <1>5 DEF IInv

LEMMA RollbackFailsInv == ASSUME IInv, RollbackFails PROVE IInv'
<1> USE DEF RollbackFails
<1>1. /\ CurGroup \in Groups /\ tx[CurGroup] = "active"
      /\ Running /\ CurGroup # NoGroup
    BY RunningFacts DEF IInv, PosInv, Running
<1>2. MemberInv'
    BY <1>1, DroppedMembers
<1>3. /\ tx' \in [Groups -> {"none", "active", "committed", "rolledback", "leaked"}]
      /\ txFx' \subseteq Req /\ durable' \subseteq Req
    BY <1>1 DEF IInv, TypeOK, DropEffects
<1>4. \A g \in Groups : tx'[g] # "active" /\ (g # CurGroup => tx'[g] = tx[g])
    BY <1>1 DEF IInv, TypeOK, TxInv
<1> QED
    BY <1>1, <1>2, <1>3, <1>4, FailGroupInv

\* Committing the running group, none of whose members failed, makes exactly its
\* members durable.
LEMMA CommittedMembers ==
    ASSUME IInv, phase = "settle", ~GroupFailed,
           tx' = [tx EXCEPT ![CurGroup] = "committed"],
           durable' = durable \cup (txFx \cap Members(CurGroup)),
           DropEffects, UNCHANGED <<batch, entries, handler>>
    PROVE  MemberInv'
<1>1. /\ CurGroup \in Groups /\ tx[CurGroup] = "active"
      /\ \A i \in Members(CurGroup) : entries[i] = "ok" /\ i \in txFx
    BY SettledMembers
<1>2. SUFFICES ASSUME NEW i \in Req, InGroup(i)
               PROVE  (/\ tx[batch.grp[i]] = "none" => entries[i] = NoEntry /\ handler[i] = "idle"
                       /\ tx[batch.grp[i]] = "active" =>
                            /\ batch.write[i]
                            /\ entries[i] = "ok" => i \in txFx
                            /\ handler[i] = "wrote" => i \in txFx
                       /\ tx[batch.grp[i]] = "committed" => i \in durable /\ entries[i] = "ok"
                       /\ tx[batch.grp[i]] # "committed" => i \notin durable)'
    BY DEF MemberInv, InGroup
<1>3. CASE batch.grp[i] = CurGroup
  <2>1. i \in Members(CurGroup)
      BY <1>3 DEF Members
  <2> QED
      BY <1>1, <1>3, <2>1 DEF IInv, TypeOK
<1>4. CASE batch.grp[i] # CurGroup
  <2>1. (i \in txFx' <=> i \in txFx) /\ (i \in durable' <=> i \in durable)
      BY <1>4 DEF DropEffects, Members
  <2>2. tx'[batch.grp[i]] = tx[batch.grp[i]]
      BY <1>4 DEF IInv, TypeOK
  <2> QED
      BY <1>2, <2>1, <2>2 DEF IInv, MemberInv
<1> QED
    BY <1>3, <1>4

LEMMA CommitGroupInv == ASSUME IInv, CommitGroup PROVE IInv'
<1> USE DEF CommitGroup
<1>1. /\ Running /\ CurGroup \in Groups /\ CurGroup # NoGroup
      /\ tx[CurGroup] = "active"
      /\ \A i \in Members(CurGroup) : entries[i] = "ok"
    BY SettledMembers, GroupsAssumption
<1>2. TypeOK'
  <2>1. GroupEntries(entries) \in Seq(Entry)
      BY <1>1, GroupEntriesType DEF Status
  <2>2. pending' \in [Groups -> Seq(Entry)] /\ executed' \subseteq Groups
      BY <1>1, <2>1 DEF IInv, TypeOK
  <2> QED
      BY <2>2 DEF IInv, TypeOK, DropEffects
<1>3. PosInv' /\ ProgressInv'
    BY <1>1 DEF IInv, PosInv, ProgressInv, Running, GroupsContiguous, Members, InGroup, CurGroup
<1>4. TxInv'
    BY <1>1 DEF IInv, TypeOK, TxInv, Running, CurGroup
<1>5. MemberInv'
    BY CommittedMembers
<1> QED
    BY <1>2, <1>3, <1>4, <1>5 DEF IInv

LEMMA CommitFailsInv == ASSUME IInv, CommitFails PROVE IInv'
<1> USE DEF CommitFails
<1>1. /\ Running /\ CurGroup \in Groups /\ CurGroup # NoGroup
      /\ tx[CurGroup] = "active"
    BY SettledMembers, GroupsAssumption
<1>2. /\ tx' \in [Groups -> {"none", "active", "committed", "rolledback", "leaked"}]
      /\ txFx' \subseteq Req /\ durable' \subseteq Req
    BY <1>1 DEF IInv, TypeOK, DropEffects
<1>3. \A g \in Groups : tx'[g] # "active" /\ (g # CurGroup => tx'[g] = tx[g])
    BY <1>1 DEF IInv, TypeOK, TxInv
<1>4. MemberInv'
  <2>1. CASE /\ tx' = [tx EXCEPT ![CurGroup] = "committed"]
             /\ durable' = durable \cup (txFx \cap Members(CurGroup))
      BY <2>1, CommittedMembers
  <2>2. CASE /\ \E t \in {"rolledback", "leaked"} : tx' = [tx EXCEPT ![CurGroup] = t]
             /\ UNCHANGED durable
    <3>1. PICK t \in {"rolledback", "leaked"} : tx' = [tx EXCEPT ![CurGroup] = t]
        BY <2>2
    <3> QED
        BY <1>1, <2>2, <3>1, DroppedMembers
  <2> QED
      BY <2>1, <2>2
<1> QED
    BY <1>1, <1>2, <1>3, <1>4, FailGroupInv

-----------------------------------------------------------------------------
(* The theorems.                                                           *)

\* IInv is an inductive invariant of the whole batch: every step of handleBatch,
\* of the timer and of the handlers preserves it.
THEOREM Invariance == Spec => []IInv
<1>1. Init => IInv
    BY InitInv
<1>2. ASSUME IInv, [Next]_vars PROVE IInv'
  <2>1. CASE Controller
      BY <1>2, <2>1, ValidateInv, ShiftPendingInv, EnterGroupInv, EnterSingleInv, AnswerInv,
         OpenInvalidInv, OpenRejectedInv, OpenFailsInv, OpenGroupInv, UnknownContentIdInv,
         UnawaitedRecordsInv, StartHandlerInv, RollbackGroupInv, RollbackFailsInv,
         AbortGroupInv, CommitGroupInv, CommitFailsInv DEF Controller
  <2>2. CASE HandlerTimeout \/ ResponseTooLarge
      BY <1>2, <2>2, UnawaitedRecordsInv
  <2>3. CASE \E i \in Req : Handler(i)
      BY <1>2, <2>3, HandlerInv
  <2>4. CASE UNCHANGED vars
    <3> USE <2>4 DEF vars, control, results, ids, store
    <3>1. TypeOK'
        BY <1>2 DEF IInv, TypeOK
    <3>2. PosInv' /\ ProgressInv'
        BY <1>2 DEF IInv, PosInv, ProgressInv, Running, GroupsContiguous, Members, InGroup, CurGroup, LastOfGroup
    <3>3. TxInv' /\ MemberInv'
        BY <1>2 DEF IInv, TxInv, MemberInv, Running, CurGroup, InGroup
    <3> QED
        BY <3>1, <3>2, <3>3 DEF IInv
  <2> QED
      BY <1>2, <2>1, <2>2, <2>3, <2>4 DEF Next
<1> QED
    BY <1>1, <1>2, PTL DEF Spec

\* The variables keep their types: no loop of handleBatch or executeGroup leaves
\* the payload, and every entry produced is a complete response.
THEOREM TypeCorrect == Spec => []TypeOK
<1>1. IInv => TypeOK
    BY DEF IInv
<1> QED
    BY <1>1, Invariance, PTL

\* Whatever the datasource, the timer and late handlers do, a changeset is
\* committed whole or not at all.
THEOREM ChangesetAtomicity == Spec => []GroupAllOrNothing
<1>1. IInv => GroupAllOrNothing
  <2>1. SUFFICES ASSUME IInv, NEW g \in Groups
                 PROVE  Members(g) \cap durable \in {{}, Members(g)}
      BY DEF GroupAllOrNothing
  <2>2. \A i \in Members(g) : i \in durable <=> tx[g] = "committed"
      BY <2>1, GroupsAssumption DEF IInv, MemberInv, Members, InGroup
  <2> QED
      BY <2>2
<1> QED
    BY <1>1, Invariance, PTL

\* A changeset with a failed member, a 504 or 413 included, leaves nothing.
THEOREM FailureRollsBack == Spec => []FailedGroupLeavesNothing
<1>1. IInv => FailedGroupLeavesNothing
  <2>1. SUFFICES ASSUME IInv, NEW g \in Groups, NEW i \in Members(g), entries[i] \in Failed
                 PROVE  Members(g) \cap durable = {}
      BY DEF FailedGroupLeavesNothing
  <2>2. i \in Req /\ InGroup(i) /\ batch.grp[i] = g
      BY <2>1, GroupsAssumption DEF Members, InGroup
  <2>3. tx[g] # "committed"
      BY <2>1, <2>2 DEF IInv, MemberInv, Failed
  <2> QED
      BY <2>1, <2>3, GroupsAssumption DEF IInv, MemberInv, Members, InGroup
<1> QED
    BY <1>1, Invariance, PTL

\* No path through executeAtomicGroup leaves a transaction open behind it.
THEOREM TransactionsAreSettled == Spec => []NoDanglingTransaction
<1>1. IInv => NoDanglingTransaction
    BY DEF IInv, TxInv, Running, NoDanglingTransaction
<1> QED
    BY <1>1, Invariance, PTL

-----------------------------------------------------------------------------
(* What a batch promises its client: the order of the responses, the       *)
(* effects a sub-request may rely on when its handler starts, and the      *)
(* refinement of AtomicUnits, from a second invariant, OInv, inductive     *)
(* relative to IInv.                                                       *)

\* One response for each request the loop has passed, in payload order.  What an
\* executed group still holds back belongs to its members from pos on: the head
\* is the entry of the request the loop is at.
OrderInv ==
    /\ Len(responses) = pos - 1
    /\ \A k \in DOMAIN responses : responses[k].id = k
    /\ phase = "answered" => pos = N + 1
    /\ \A g \in executed :
         /\ \A k \in DOMAIN pending[g] :
              /\ pos + k - 1 \in Members(g)
              /\ pending[g][k].id = pos + k - 1
         /\ \A i \in Members(g) : i >= pos => i - pos + 1 \in DOMAIN pending[g]

\* A handler was started only for a request the loops have passed or are at.
StartInv ==
    phase # "rejected" => \A i \in Req : handler[i] # "idle" =>
        \/ i < pos
        \/ InGroup(i) /\ batch.grp[i] \in executed
        \/ /\ Running
           /\ batch.grp[i] = CurGroup
           /\ i < cur \/ (i = cur /\ phase # "exec")

\* A write on its own and its handler.
SingleInv ==
    \A i \in Req : ~InGroup(i) =>
        /\ handler[i] \in {"idle", "running"} => i \notin durable
        /\ handler[i] = "wrote" => (i \in durable <=> ~batch.transactions)
        /\ handler[i] = "committed" => i \in durable
        /\ depRes[i] = "ok" /\ batch.write[i] => i \in durable

\* A success was answered to request i, or waits among the entries of its group.
AnswerGiven(i) ==
    \/ AnsweredOk(i)
    \/ \E g \in executed : \E k \in DOMAIN pending[g] :
         pending[g][k] = [id |-> i, status |-> "ok"]

\* A write on its own is given a success only when it is committed, all members
\* of a changeset only when the changeset is.
AckInv ==
    /\ \A i \in Req : ~InGroup(i) /\ batch.write[i] /\ AnswerGiven(i) => i \in durable
    /\ \A g \in executed : tx[g] # "committed" => \E i \in Members(g) : ~AnswerGiven(i)

\* What the registered Content-IDs stand for, and the dependencies of a payload
\* that passed validation.
IdInv ==
    /\ \A i \in contentIds : batch.write[i] => i \in durable
    /\ Running /\ CurGroup # NoGroup =>
         \A i \in localIds : batch.write[i] =>
             i \in durable \/ (batch.grp[i] = CurGroup /\ i \in txFx)
    /\ phase \notin {"validate", "rejected"} => DependsOnValid

OInv == OrderInv /\ StartInv /\ SingleInv /\ AckInv /\ IdInv

-----------------------------------------------------------------------------
(* What a step may do to the responses.                                    *)

\* The request the loop is at was answered on its own.
SingleDone(s) ==
    /\ phase \in {"exec", "await"}
    /\ ~InGroup(cur)
    /\ RecordEntry(s)
    /\ UNCHANGED <<batch, store>>

\* The group the loop is at was executed, with the statuses f.  They are all
\* successes only when its transaction was committed.
GroupDone(f) ==
    /\ phase = "open" \/ (Running /\ CurGroup # NoGroup)
    /\ executed' = executed \cup {CurGroup}
    /\ pending' = [pending EXCEPT ![CurGroup] = GroupEntries(f)]
    /\ phase' = "loop"
    /\ tx'[CurGroup] # "committed" => \E i \in Members(CurGroup) : f[i] # "ok"
    /\ UNCHANGED <<batch, pos, responses>>

ResponsesStill ==
    /\ UNCHANGED <<batch, pos, executed, pending, responses>>
    /\ phase' = "answered" => phase = "answered" \/ pos = N + 1

LEMMA ResponseSteps ==
    ASSUME IInv, [Next]_vars
    PROVE  \/ ResponsesStill
           \/ ShiftPending
           \/ \E s \in Status : SingleDone(s)
           \/ \E f : GroupDone(f)
<1> USE DEF ResponsesStill, results
<1>1. CASE Validate \/ EnterGroup \/ EnterSingle \/ Answer \/ OpenInvalid \/ OpenGroup
           \/ UnknownContentId \/ StartHandler \/ AbortGroup
    BY <1>1 DEF Validate, EnterGroup, EnterSingle, Answer, OpenInvalid, OpenGroup,
                UnknownContentId, StartHandler, AbortGroup
<1>2. ASSUME NEW s \in Status, Record(s), phase \in {"exec", "await"}, UNCHANGED <<batch, store>>
      PROVE  ResponsesStill \/ SingleDone(s)
  <2>1. CASE RecordOverflow
      BY <1>2, <2>1 DEF RecordOverflow
  <2>2. CASE RecordEntry(s)
      BY <1>2, <2>2 DEF RecordEntry, SingleDone
  <2> QED
      BY <1>2, <2>1, <2>2 DEF Record
<1>3. CASE SkipDependent \/ InvalidRequest \/ HandlerTimeout \/ ResponseTooLarge
  <2>1. PICK s \in Status : Record(s) /\ phase \in {"exec", "await"} /\ UNCHANGED <<batch, store>>
      BY <1>3 DEF SkipDependent, InvalidRequest, HandlerTimeout, ResponseTooLarge, Status, Failed
  <2> QED
      BY <1>2, <2>1
<1>4. CASE \E i \in Req : Handler(i)
  <2>1. PICK i \in Req : Handler(i)
      BY <1>4
  <2>2. CASE HandlerWrite(i) \/ HandlerCommit(i) \/ HandlerEndUnheard(i)
      BY <2>2 DEF HandlerWrite, HandlerCommit, HandlerEndUnheard, control
  <2>3. CASE HandlerRespond(i)
    <3>1. PICK s \in Status : Record(s) /\ phase \in {"exec", "await"} /\ UNCHANGED <<batch, store>>
        BY <2>3 DEF HandlerRespond, Awaited, Status, Failed
    <3> QED
        BY <1>2, <3>1
  <2> QED
      BY <2>1, <2>2, <2>3 DEF Handler
<1>5. CASE OpenRejected \/ OpenFails \/ RollbackGroup \/ RollbackFails \/ CommitGroup \/ CommitFails
  <2>1. phase = "open" \/ (Running /\ CurGroup # NoGroup)
      BY <1>5 DEF IInv, PosInv, Running, OpenRejected, OpenFails, RollbackGroup, RollbackFails,
                  CommitGroup, CommitFails
  <2> /\ pos \in Members(CurGroup) /\ Members(CurGroup) \subseteq Req /\ CurGroup \in Groups
      BY <2>1, AtFirstMember DEF Members
  <2>2. CASE OpenRejected
    <3> DEFINE rejected == [i \in Req |-> IF i \in Members(CurGroup) THEN "unsupported" ELSE depRes[i]]
    <3>1. rejected[pos] # "ok"
        OBVIOUS
    <3> QED
        BY <2>1, <2>2, <3>1 DEF OpenRejected, GroupDone
  <2>3. CASE OpenFails \/ RollbackFails \/ CommitFails
    <3>1. [i \in Req |-> "error"][pos] # "ok"
        OBVIOUS
    <3> QED
        BY <2>1, <2>3, <3>1 DEF OpenFails, RollbackFails, CommitFails, FailGroup, GroupDone
  <2>4. CASE RollbackGroup
    <3>1. PICK i \in Members(CurGroup) : entries[i] \in Failed
        BY <2>4 DEF RollbackGroup, GroupFailed
    <3>2. i \notin Unexecuted
        BY <3>1 DEF Unexecuted, NoEntry, Failed
    <3>3. [j \in Req |-> IF j \in Unexecuted THEN "failedDep" ELSE entries[j]][i] # "ok"
        BY <3>1, <3>2 DEF Failed
    <3> QED
        BY <2>1, <2>4, <3>3 DEF RollbackGroup, GroupDone
  <2>5. CASE CommitGroup
    <3>1. tx'[CurGroup] = "committed"
        BY <2>5 DEF CommitGroup, IInv, TypeOK
    <3> QED
        BY <2>1, <2>5, <3>1 DEF CommitGroup, GroupDone
  <2> QED
      BY <1>5, <2>2, <2>3, <2>4, <2>5
<1>6. CASE UNCHANGED vars
    BY <1>6 DEF vars, control
<1> QED
    BY <1>1, <1>3, <1>4, <1>5, <1>6 DEF Next, Controller

\* A contiguous group whose first member is the request the loop is at has its
\* member i at place i - pos + 1.
LEMMA GroupSpans ==
    ASSUME TypeOK, GroupsContiguous, NEW g \in Groups, pos \in Members(g),
           \A m \in Members(g) : pos <= m,
           NEW i \in Members(g)
    PROVE  i - pos + 1 \in 1..Cardinality(Members(g))
<1> DEFINE M == Members(g)
<1>1. /\ M \subseteq Req
      /\ IsFiniteSet(M)
      /\ Cardinality(M) \in Nat
    BY MembersFinite
<1>2. pos \in Req /\ i \in Req /\ pos <= i
    BY <1>1
<1>3. pos..i \subseteq M
  <2>1. SUFFICES ASSUME NEW j \in pos..i PROVE j \in M
      OBVIOUS
  <2>2. j \in Req
      BY <1>2, <2>1, NAssumption DEF Req
  <2>3. j = pos \/ j = i \/ (pos < j /\ j < i)
      BY <1>2, <2>1, NAssumption DEF Req
  <2>4. pos < j /\ j < i => batch.grp[j] = g
      BY <2>2 DEF GroupsContiguous
  <2> QED
      BY <2>2, <2>3, <2>4 DEF Members
<1>4. pos \in Int /\ i \in Int
    BY <1>2, NAssumption DEF Req
<1>5. Cardinality(pos..i) = i - pos + 1
    BY <1>2, <1>4, FS_Interval
<1>6. Cardinality(pos..i) <= Cardinality(M)
    BY <1>1, <1>3, FS_Subset
<1> QED
    BY <1>1, <1>2, <1>4, <1>5, <1>6

\* The entries of a group: one for each member, at its place.
LEMMA GroupEntriesShape ==
    ASSUME IInv, phase = "open" \/ (Running /\ CurGroup # NoGroup), NEW f
    PROVE  /\ \A k \in DOMAIN GroupEntries(f) :
                /\ pos + k - 1 \in Members(CurGroup)
                /\ GroupEntries(f)[k] = [id |-> pos + k - 1, status |-> f[pos + k - 1]]
           /\ \A i \in Members(CurGroup) : i - pos + 1 \in DOMAIN GroupEntries(f)
<1>1. DOMAIN GroupEntries(f) = 1..Cardinality(Members(CurGroup))
    BY DEF GroupEntries
<1>2. \A k \in DOMAIN GroupEntries(f) : pos + k - 1 \in Members(CurGroup)
    BY <1>1, AtFirstMember, GroupIsInterval DEF IInv
<1>3. \A i \in Members(CurGroup) : i - pos + 1 \in DOMAIN GroupEntries(f)
    BY <1>1, AtFirstMember, GroupSpans DEF IInv
<1> QED
    BY <1>2, <1>3 DEF GroupEntries

-----------------------------------------------------------------------------
(* The order of the responses.                                             *)

\* Of the executed groups only the one the loop is at still holds entries.
LEMMA OthersAreEmpty ==
    ASSUME IInv, OrderInv, NEW g \in executed, ~(pos \in Req /\ CurGroup = g)
    PROVE  /\ pending[g] = <<>>
           /\ \A i \in Members(g) : i < pos
<1>1. g \in Groups /\ pending[g] \in Seq(Entry) /\ pos \in 1..(N + 1)
    BY DEF IInv, TypeOK
<1>2. pos \notin Members(g)
    BY DEF Members, CurGroup
<1>3. 1 \notin DOMAIN pending[g]
    BY <1>1, <1>2 DEF OrderInv
<1>4. pending[g] = <<>>
    BY <1>1, <1>3
<1>5. \A i \in Members(g) : i < pos
    BY <1>1, <1>4, NAssumption DEF OrderInv, Members, Req
<1> QED
    BY <1>4, <1>5

\* Appending the response of the request the loop is at keeps the order.
LEMMA AppendedInOrder ==
    ASSUME TypeOK, OrderInv, pos \in Req, NEW e \in Entry, e.id = pos,
           responses' = Append(responses, e), pos' = pos + 1
    PROVE  Len(responses') = pos' - 1 /\ \A k \in DOMAIN responses' : responses'[k].id = k
<1>1. responses \in Seq(Entry) /\ pos \in Nat /\ Len(responses) = pos - 1
    BY NAssumption DEF TypeOK, OrderInv, Req
<1>2. /\ Len(responses') = Len(responses) + 1
      /\ DOMAIN responses' = 1..(Len(responses) + 1)
      /\ DOMAIN responses = 1..Len(responses)
      /\ \A k \in 1..Len(responses) : responses'[k] = responses[k]
      /\ responses'[Len(responses) + 1] = e
    BY <1>1
<1>3. \A k \in 1..Len(responses) : responses[k].id = k
    BY <1>2 DEF OrderInv
<1> QED
    BY <1>1, <1>2, <1>3

LEMMA ShiftPendingOrder ==
    ASSUME IInv, OrderInv, ShiftPending
    PROVE  /\ OrderInv'
           /\ pending[CurGroup] # <<>> /\ Head(pending[CurGroup]).id = pos
<1> USE DEF ShiftPending
<1> DEFINE g == CurGroup
           p == pending[g]
<1>1. g \in Groups /\ g \in executed /\ pos \in Req /\ pos \in Members(g)
    BY NAssumption DEF IInv, TypeOK, Req, Members, CurGroup
<1>2. p \in Seq(Entry) /\ responses \in Seq(Entry)
    BY <1>1 DEF IInv, TypeOK
<1>3. 1 \in DOMAIN p /\ p[1].id = pos
  <2>1. pos \in Nat /\ pos - pos + 1 = 1 /\ pos + 1 - 1 = pos
      BY <1>1, NAssumption DEF Req
  <2>2. /\ \A i \in Members(g) : i >= pos => i - pos + 1 \in DOMAIN p
        /\ \A k \in DOMAIN p : p[k].id = pos + k - 1
      BY <1>1 DEF OrderInv
  <2> HIDE DEF p, g
  <2>3. pos - pos + 1 \in DOMAIN p
      BY <1>1, <2>1, <2>2
  <2>4. 1 \in DOMAIN p
      BY <2>1, <2>3
  <2> QED
      BY <2>1, <2>2, <2>4
<1>4. p # <<>> /\ Head(p) = p[1] /\ p[1] \in Entry
    BY <1>2, <1>3
<1>5. /\ responses' = Append(responses, p[1])
      /\ pending' = [pending EXCEPT ![g] = Tail(p)]
    BY <1>4
<1>6. Len(responses') = pos' - 1 /\ \A k \in DOMAIN responses' : responses'[k].id = k
    BY <1>1, <1>3, <1>4, <1>5, AppendedInOrder DEF IInv
<1>7. ASSUME NEW h \in executed
      PROVE  /\ \A k \in DOMAIN pending'[h] :
                  /\ pos' + k - 1 \in Members(h)
                  /\ pending'[h][k].id = pos' + k - 1
             /\ \A i \in Members(h) : i >= pos' => i - pos' + 1 \in DOMAIN pending'[h]
  <2>1. CASE h = g
    <3>1. pending'[h] = Tail(p)
        BY <1>1, <1>5, <2>1 DEF IInv, TypeOK
    <3>2. /\ DOMAIN Tail(p) = 1..(Len(p) - 1)
          /\ \A k \in 1..(Len(p) - 1) : Tail(p)[k] = p[k + 1]
          /\ DOMAIN p = 1..Len(p) /\ Len(p) \in Nat
        BY <1>2, <1>4
    <3>3. ASSUME NEW k \in DOMAIN pending'[h]
          PROVE  pos' + k - 1 \in Members(h) /\ pending'[h][k].id = pos' + k - 1
      <4>1. k + 1 \in DOMAIN p /\ pending'[h][k] = p[k + 1] /\ pos' = pos + 1 /\ pos \in Nat /\ k \in Nat
          BY <1>1, <3>1, <3>2, <3>3, NAssumption DEF Req
      <4>2. pos + (k + 1) - 1 \in Members(h) /\ p[k + 1].id = pos + (k + 1) - 1
          BY <2>1, <4>1 DEF OrderInv
      <4>3. pos' + k - 1 = pos + (k + 1) - 1
          BY <4>1
      <4> QED
          BY <4>1, <4>2, <4>3
    <3>4. ASSUME NEW i \in Members(h), i >= pos'
          PROVE  i - pos' + 1 \in DOMAIN pending'[h]
      <4>1. i \in Nat /\ pos \in Nat /\ i >= pos + 1 /\ pos' = pos + 1
          BY <1>1, <3>4, NAssumption DEF Members, Req
      <4>2. i - pos + 1 \in 1..Len(p)
          BY <2>1, <3>2, <4>1 DEF OrderInv
      <4> QED
          BY <3>1, <3>2, <4>1, <4>2
    <3> QED
        BY <3>3, <3>4
  <2>2. CASE h # g
    <3>1. pending[h] = <<>> /\ \A i \in Members(h) : i < pos
        BY <2>2, OthersAreEmpty
    <3>2. pending'[h] = <<>>
        BY <2>2, <3>1, <1>5 DEF IInv, TypeOK
    <3> QED
        BY <1>1, <3>1, <3>2, NAssumption DEF Members, Req
  <2> QED
      BY <2>1, <2>2
<1>8. \A h : Members(h)' = Members(h)
    BY DEF Members
<1> QED
    BY <1>3, <1>4, <1>6, <1>7, <1>8 DEF OrderInv

LEMMA SingleDoneOrder ==
    ASSUME IInv, OrderInv, NEW s \in Status, SingleDone(s)
    PROVE  OrderInv' /\ cur = pos /\ CurGroup = NoGroup /\ pos \in Req
<1> USE DEF SingleDone, RecordEntry
<1>1. cur = pos /\ CurGroup = NoGroup /\ pos \in Req
    BY RunningFacts DEF IInv, PosInv, Running
<1>2. responses \in Seq(Entry) /\ executed \subseteq Groups
    BY DEF IInv, TypeOK
<1>3. responses' = Append(responses, [id |-> pos, status |-> s]) /\ pos' = pos + 1
    BY <1>1
<1>4. Len(responses') = pos' - 1 /\ \A k \in DOMAIN responses' : responses'[k].id = k
  <2>1. [id |-> pos, status |-> s] \in Entry
      BY <1>1 DEF Entry
  <2> QED
      BY <1>1, <1>3, <2>1, AppendedInOrder DEF IInv
<1>5. ASSUME NEW g \in executed
      PROVE  /\ pending'[g] = <<>>
             /\ \A i \in Members(g)' : i < pos'
  <2>1. pending[g] = <<>> /\ \A i \in Members(g) : i < pos
      BY <1>1, <1>2, OthersAreEmpty, GroupsAssumption
  <2> QED
      BY <1>1, <2>1, NAssumption DEF Members, Req
<1>6. executed' = executed /\ pos' \in Nat
    BY <1>1, NAssumption DEF Req
<1>7. \A g \in executed' :
        /\ \A k \in DOMAIN pending'[g] :
             /\ pos' + k - 1 \in Members(g)'
             /\ pending'[g][k].id = pos' + k - 1
        /\ \A i \in Members(g)' : i >= pos' => i - pos' + 1 \in DOMAIN pending'[g]
    BY <1>5, <1>6, NAssumption DEF Members, Req
<1> QED
    BY <1>1, <1>4, <1>7 DEF OrderInv

LEMMA GroupDoneOrder ==
    ASSUME IInv, OrderInv, NEW f, GroupDone(f)
    PROVE  OrderInv'
<1> USE DEF GroupDone
<1>1. CurGroup \in Groups /\ CurGroup \notin executed /\ pos \in Req
    BY AtFirstMember
<1>2. ASSUME NEW g \in executed'
      PROVE  /\ \A k \in DOMAIN pending'[g] :
                  /\ pos + k - 1 \in Members(g)
                  /\ pending'[g][k].id = pos + k - 1
             /\ \A i \in Members(g) : i >= pos => i - pos + 1 \in DOMAIN pending'[g]
  <2>1. CASE g = CurGroup
    <3>1. pending'[g] = GroupEntries(f)
        BY <1>1, <2>1 DEF IInv, TypeOK
    <3> QED
        BY <2>1, <3>1, GroupEntriesShape
  <2>2. CASE g # CurGroup
    <3>1. g \in executed /\ pending'[g] = pending[g]
        BY <1>2, <2>2 DEF IInv, TypeOK
    <3> QED
        BY <3>1 DEF OrderInv
  <2> QED
      BY <2>1, <2>2
<1>3. \A g : Members(g)' = Members(g)
    BY DEF Members
<1> QED
    BY <1>2, <1>3 DEF OrderInv

LEMMA OrderStep == ASSUME IInv, OrderInv, [Next]_vars PROVE OrderInv'
<1>1. CASE ResponsesStill
    BY <1>1 DEF ResponsesStill, OrderInv, Members
<1> QED
    BY <1>1, ResponseSteps, ShiftPendingOrder, SingleDoneOrder, GroupDoneOrder

-----------------------------------------------------------------------------
(* Handlers, effects and acknowledgements.                                 *)

\* The payload never changes.  Only StartHandler makes a handler run; what is committed stays committed, and
\* the transaction of an executed group keeps its outcome.
LEMMA WhatStays ==
    ASSUME IInv, [Next]_vars
    PROVE  /\ batch' = batch
           /\ durable \subseteq durable'
           /\ \A g \in executed : tx'[g] = tx[g]
           /\ StartHandler \/ \A i \in Req : /\ handler'[i] # "idle" => handler[i] # "idle"
                                             /\ handler'[i] = "running" => handler[i] = "running"
<1>0. batch' = batch
    BY DEF Next, Controller, Validate, ShiftPending, EnterGroup, EnterSingle, Answer, OpenInvalid,
           OpenRejected, OpenFails, OpenGroup, UnknownContentId, SkipDependent, InvalidRequest,
           StartHandler, RollbackGroup, RollbackFails, AbortGroup, CommitGroup, CommitFails,
           HandlerTimeout, ResponseTooLarge, Handler, HandlerWrite, HandlerCommit, HandlerRespond,
           HandlerEndUnheard, vars
<1>1. CurGroup \in executed => ~Running /\ phase # "open"
    BY AtFirstMember, RunningFacts, GroupsAssumption DEF IInv, TypeOK
<1>2. CASE Controller
  <2>1. durable \subseteq durable'
      BY <1>2 DEF Controller, Validate, ShiftPending, EnterGroup, EnterSingle, Answer, OpenInvalid,
           OpenRejected, OpenFails, OpenGroup, UnknownContentId, SkipDependent, InvalidRequest,
           StartHandler, RollbackGroup, RollbackFails, AbortGroup, CommitGroup, CommitFails, store
  <2>2. \A g \in executed : tx'[g] = tx[g]
      BY <1>1, <1>2 DEF Controller, Validate, ShiftPending, EnterGroup, EnterSingle, Answer, OpenInvalid,
           OpenRejected, OpenFails, OpenGroup, UnknownContentId, SkipDependent, InvalidRequest,
           StartHandler, RollbackGroup, RollbackFails, AbortGroup, CommitGroup, CommitFails, store,
           Running, IInv, TypeOK
  <2>3. StartHandler \/ handler' = handler
      BY <1>2 DEF Controller, Validate, ShiftPending, EnterGroup, EnterSingle, Answer, OpenInvalid,
           OpenRejected, OpenFails, OpenGroup, UnknownContentId, SkipDependent, InvalidRequest,
           RollbackGroup, RollbackFails, AbortGroup, CommitGroup, CommitFails
  <2> QED
      BY <1>0, <2>1, <2>2, <2>3
<1>3. CASE HandlerTimeout \/ ResponseTooLarge \/ UNCHANGED vars
    BY <1>3 DEF HandlerTimeout, ResponseTooLarge, vars, store
<1>4. ASSUME NEW i \in Req, Handler(i)
      PROVE  /\ durable \subseteq durable' /\ tx' = tx
             /\ handler[i] # "idle" /\ handler'[i] # "running"
             /\ \A j \in Req : j # i => handler'[j] = handler[j]
    BY <1>4 DEF Handler, HandlerWrite, HandlerCommit, HandlerRespond, HandlerEndUnheard,
                CanSucceed, CanFail, store, IInv, TypeOK
<1> QED
    BY <1>0, <1>2, <1>3, <1>4 DEF Next

LEMMA StartStep == ASSUME IInv, StartInv, [Next]_vars PROVE StartInv'
<1> SUFFICES ASSUME phase' # "rejected", NEW i \in Req, handler'[i] # "idle"
             PROVE  (\/ i < pos
                     \/ InGroup(i) /\ batch.grp[i] \in executed
                     \/ /\ Running
                        /\ batch.grp[i] = CurGroup
                        /\ i < cur \/ (i = cur /\ phase # "exec"))'
    BY DEF StartInv, InGroup, Running, CurGroup
<1> USE DEF Running, CurGroup, InGroup
<1>1. CASE StartHandler
  <2> USE <1>1 DEF StartHandler, results
  <2>1. CASE i = cur
      BY <2>1, RunningFacts
  <2>2. CASE i # cur
    <3>1. handler[i] # "idle"
        BY <2>2 DEF IInv, TypeOK
    <3> QED
        BY <2>2, <3>1 DEF StartInv
  <2> QED
      BY <2>1, <2>2
<1>2. SUFFICES ASSUME ~StartHandler, handler[i] # "idle" PROVE
                    (\/ i < pos
                     \/ InGroup(i) /\ batch.grp[i] \in executed
                     \/ /\ Running
                        /\ batch.grp[i] = CurGroup
                        /\ i < cur \/ (i = cur /\ phase # "exec"))'
    BY <1>1, WhatStays
<1>3. CASE UNCHANGED vars
    BY <1>2, <1>3 DEF vars, control, results, StartInv
<1>4. ASSUME NEW s, Record(s), phase \in {"exec", "await"}, batch' = batch
      PROVE (\/ i < pos
             \/ InGroup(i) /\ batch.grp[i] \in executed
             \/ /\ Running
                /\ batch.grp[i] = CurGroup
                /\ i < cur \/ (i = cur /\ phase # "exec"))'
  <2>0. i \in Int /\ cur \in Int /\ pos \in Int
      BY NAssumption DEF IInv, TypeOK, Req
  <2>1. \/ i < pos
        \/ InGroup(i) /\ batch.grp[i] \in executed
        \/ batch.grp[i] = CurGroup /\ i <= cur
      BY <1>2, <1>4, <2>0 DEF StartInv
  <2>2. pos \in Req /\ cur \in Req /\ (InGroup(cur) <=> CurGroup # NoGroup)
      BY <1>4, RunningFacts
  <2>3. CASE RecordOverflow
      BY <1>4, <2>0, <2>1, <2>3 DEF RecordOverflow
  <2>4. CASE RecordEntry(s) /\ InGroup(cur)
      BY <1>4, <2>1, <2>2, <2>4, NAssumption DEF RecordEntry, Req
  <2>5. CASE RecordEntry(s) /\ ~InGroup(cur)
    <3>1. cur = pos
        BY <1>4, <2>2, <2>5 DEF IInv, PosInv
    <3> QED
        BY <1>4, <2>1, <2>2, <2>5, <3>1, NAssumption DEF RecordEntry, Req
  <2> QED
      BY <1>4, <2>3, <2>4, <2>5 DEF Record
<1>5. CASE HandlerTimeout \/ ResponseTooLarge \/ SkipDependent \/ InvalidRequest
    BY <1>4, <1>5 DEF HandlerTimeout, ResponseTooLarge, SkipDependent, InvalidRequest
<1>6. CASE \E j \in Req : Handler(j)
  <2>1. CASE \E j \in Req : HandlerRespond(j)
      BY <1>4, <2>1 DEF HandlerRespond, Awaited
  <2>2. CASE \E j \in Req : HandlerWrite(j) \/ HandlerCommit(j) \/ HandlerEndUnheard(j)
      BY <1>2, <2>2 DEF HandlerWrite, HandlerCommit, HandlerEndUnheard, control, results, StartInv
  <2> QED
      BY <1>6, <2>1, <2>2 DEF Handler
<1>7. CASE ShiftPending
  <2>1. pos \in Int /\ i \in Int
      BY NAssumption DEF IInv, TypeOK, Req
  <2> QED
      BY <1>2, <1>7, <2>1 DEF ShiftPending, StartInv
<1>8. CASE Validate \/ EnterGroup \/ EnterSingle \/ Answer \/ OpenInvalid \/ OpenGroup \/ UnknownContentId \/ AbortGroup
    BY <1>2, <1>8 DEF Validate, EnterGroup, EnterSingle, Answer, OpenInvalid, OpenGroup, UnknownContentId,
                      AbortGroup, results, StartInv
<1>9. CASE OpenRejected \/ OpenFails \/ RollbackGroup \/ RollbackFails \/ CommitGroup \/ CommitFails
  <2>1. /\ executed' = executed \cup {CurGroup} /\ CurGroup \in Groups
        /\ batch' = batch /\ pos' = pos
      BY <1>2, <1>9, AtFirstMember, RunningFacts, SettledMembers
         DEF OpenRejected, OpenFails, RollbackGroup, RollbackFails, CommitGroup, CommitFails, FailGroup,
             IInv, PosInv
  <2>2. phase # "rejected"
      BY <1>9 DEF OpenRejected, OpenFails, RollbackGroup, RollbackFails, CommitGroup, CommitFails
  <2> QED
      BY <1>2, <2>1, <2>2, GroupsAssumption DEF StartInv
<1> QED
    BY <1>2, <1>3, <1>5, <1>6, <1>7, <1>8, <1>9 DEF Next, Controller

\* A success recorded by executeGroup is the answer of a handler that got as far
\* as its write has to.
LEMMA RecordedSuccess ==
    ASSUME IInv, [Next]_vars, NEW i \in Req, depRes'[i] = "ok", depRes[i] # "ok"
    PROVE  /\ i = cur /\ phase = "await" /\ CanSucceed(i)
           /\ UNCHANGED <<batch, store>> /\ RecordEntry("ok")
<1>2. ASSUME NEW s \in Status, Record(s)
      PROVE  s = "ok" /\ i = cur /\ RecordEntry(s)
  <2>1. RecordEntry(s)
      BY <1>2 DEF Record, RecordOverflow
  <2> QED
      BY <2>1 DEF RecordEntry, IInv, TypeOK
<1>3. CASE SkipDependent \/ InvalidRequest \/ HandlerTimeout \/ ResponseTooLarge
    BY <1>2, <1>3 DEF SkipDependent, InvalidRequest, HandlerTimeout, ResponseTooLarge, Status, Failed
<1>4. ASSUME NEW j \in Req, HandlerRespond(j)
      PROVE  /\ i = cur /\ phase = "await" /\ CanSucceed(i)
             /\ UNCHANGED <<batch, store>> /\ RecordEntry("ok")
    BY <1>2, <1>4 DEF HandlerRespond, Awaited, Status, Failed
<1>5. CASE Validate \/ ShiftPending \/ EnterGroup \/ EnterSingle \/ Answer \/ OpenInvalid \/ OpenRejected
           \/ OpenFails \/ OpenGroup \/ UnknownContentId \/ StartHandler \/ RollbackGroup \/ RollbackFails
           \/ AbortGroup \/ CommitGroup \/ CommitFails \/ UNCHANGED vars
    BY <1>5 DEF Validate, ShiftPending, EnterGroup, EnterSingle, Answer, OpenInvalid,
           OpenRejected, OpenFails, OpenGroup, UnknownContentId,
           StartHandler, RollbackGroup, RollbackFails, AbortGroup, CommitGroup, CommitFails, results,
           vars, IInv, TypeOK
<1>6. CASE \E j \in Req : HandlerWrite(j) \/ HandlerCommit(j) \/ HandlerEndUnheard(j)
    BY <1>6 DEF HandlerWrite, HandlerCommit, HandlerEndUnheard, results
<1> QED
    BY <1>3, <1>4, <1>5, <1>6 DEF Next, Controller, Handler

LEMMA SingleStep == ASSUME IInv, StartInv, SingleInv, [Next]_vars PROVE SingleInv'
<1> USE DEF InGroup
<1> SUFFICES ASSUME NEW i \in Req, ~InGroup(i)'
             PROVE  (/\ handler[i] \in {"idle", "running"} => i \notin durable
                     /\ handler[i] = "wrote" => (i \in durable <=> ~batch.transactions)
                     /\ handler[i] = "committed" => i \in durable
                     /\ depRes[i] = "ok" /\ batch.write[i] => i \in durable)'
    BY DEF SingleInv
<1>1. batch' = batch
    BY WhatStays
<1>2. ~InGroup(i)
    BY <1>1
<1>3. (depRes[i] = "ok" /\ batch.write[i] => i \in durable)'
  <2>1. CASE depRes[i] = "ok"
      BY <1>1, <1>2, <2>1, WhatStays DEF SingleInv
  <2>2. CASE depRes[i] # "ok" /\ depRes'[i] = "ok"
    <3>1. CanSucceed(i) /\ UNCHANGED <<batch, store>>
        BY <2>2, RecordedSuccess
    <3> QED
        BY <1>2, <3>1 DEF CanSucceed, SingleInv, store
  <2> QED
      BY <2>1, <2>2
<1>4. CASE StartHandler
  <2> USE <1>4 DEF StartHandler, store
  <2>1. handler[cur] = "idle" \/ InGroup(cur)
    <3>1. pos \in Req /\ cur \in Req /\ (InGroup(cur) <=> CurGroup # NoGroup)
        BY RunningFacts DEF Running
    <3>2. ~InGroup(cur) => cur = pos
        BY <3>1 DEF IInv, PosInv, Running
    <3> QED
        BY <3>1, <3>2, NAssumption DEF StartInv, Req
  <2> QED
      BY <1>2, <1>3, <2>1 DEF SingleInv, IInv, TypeOK
<1>5. CASE \E j \in Req : Handler(j)
  <2>1. PICK j \in Req : Handler(j)
      BY <1>5
  <2>2. CASE j # i
    <3>1. handler'[i] = handler[i] /\ (i \in durable' <=> i \in durable)
        BY <2>1, <2>2 DEF Handler, HandlerWrite, HandlerCommit, HandlerRespond, HandlerEndUnheard, store,
                          IInv, TypeOK
    <3> QED
        BY <1>1, <1>2, <1>3, <3>1 DEF SingleInv
  <2>3. CASE HandlerWrite(i)
      BY <1>2, <1>3, <2>3 DEF HandlerWrite, SingleInv, IInv, TypeOK, Payload
  <2>4. CASE HandlerCommit(i)
      BY <1>2, <1>3, <2>4 DEF HandlerCommit, SingleInv, IInv, TypeOK
  <2>5. CASE HandlerRespond(i) \/ HandlerEndUnheard(i)
    <3>1. handler'[i] = "ended"
        BY <2>5 DEF HandlerRespond, HandlerEndUnheard, IInv, TypeOK
    <3> QED
        BY <1>3, <3>1
  <2> QED
      BY <2>1, <2>2, <2>3, <2>4, <2>5 DEF Handler
<1>6. CASE ~StartHandler /\ ~(\E j \in Req : Handler(j))
  <2>1. handler' = handler
      BY <1>6 DEF Next, Controller, Validate, ShiftPending, EnterGroup, EnterSingle, Answer, OpenInvalid,
           OpenRejected, OpenFails, OpenGroup, UnknownContentId, SkipDependent, InvalidRequest,
           RollbackGroup, RollbackFails, AbortGroup, CommitGroup, CommitFails,
           HandlerTimeout, ResponseTooLarge, vars
  <2>2. i \notin Members(CurGroup) \/ ~(phase = "settle")
      BY <1>2, SettledMembers, GroupsAssumption DEF Members
  <2>3. i \in durable' <=> i \in durable
      BY <1>6, <2>2 DEF Next, Controller, Validate, ShiftPending, EnterGroup, EnterSingle, Answer, OpenInvalid,
           OpenRejected, OpenFails, OpenGroup, UnknownContentId, SkipDependent, InvalidRequest,
           RollbackGroup, RollbackFails, AbortGroup, CommitGroup, CommitFails,
           HandlerTimeout, ResponseTooLarge, vars, store
  <2> QED
      BY <1>1, <1>2, <1>3, <2>1, <2>3 DEF SingleInv
<1> QED
    BY <1>4, <1>5, <1>6

\* What is given a success after a step was given it before, but for the request
\* answered on its own and the members of the group executed in the step.
LEMMA NewAnswers ==
    ASSUME IInv, OrderInv, NEW i \in Req, AnswerGiven(i)'
    PROVE  /\ ResponsesStill \/ ShiftPending => AnswerGiven(i)
           /\ \A s \in Status : SingleDone(s) => AnswerGiven(i) \/ (s = "ok" /\ i = cur)
           /\ \A f : GroupDone(f) =>
                AnswerGiven(i) \/ (i \in Members(CurGroup) /\ f[i] = "ok")
<1> USE DEF AnswerGiven, AnsweredOk
<1>1. responses \in Seq(Entry) /\ executed \subseteq Groups /\ pending \in [Groups -> Seq(Entry)]
    BY DEF IInv, TypeOK
<1>2. ASSUME ResponsesStill PROVE AnswerGiven(i)
    BY <1>2 DEF ResponsesStill
<1>3. ASSUME ShiftPending PROVE AnswerGiven(i)
  <2> USE <1>3 DEF ShiftPending
  <2> DEFINE p == pending[CurGroup]
  <2>1. p # <<>> /\ p \in Seq(Entry)
      BY <1>1, ShiftPendingOrder
  <2>2. CASE AnsweredOk(i)'
    <3>1. responses' = Append(responses, Head(p))
        BY <2>1
    <3>2. PICK k \in DOMAIN responses' : responses'[k] = [id |-> i, status |-> "ok"]
        BY <2>2
    <3>3. (k \in DOMAIN responses /\ responses'[k] = responses[k]) \/ responses'[k] = p[1]
        BY <1>1, <2>1, <3>1, <3>2
    <3>4. 1 \in DOMAIN p
        BY <2>1
    <3> QED
        BY <3>2, <3>3, <3>4
  <2>3. CASE \E g \in executed' : \E k \in DOMAIN pending'[g] : pending'[g][k] = [id |-> i, status |-> "ok"]
    <3>1. PICK g \in executed' : \E k \in DOMAIN pending'[g] : pending'[g][k] = [id |-> i, status |-> "ok"]
        BY <2>3
    <3>2. PICK k \in DOMAIN pending'[g] : pending'[g][k] = [id |-> i, status |-> "ok"]
        BY <3>1
    <3>3. CASE g # CurGroup
        BY <1>1, <3>2, <3>3
    <3>4. CASE g = CurGroup
      <4>1. pending'[g] = Tail(p)
          BY <1>1, <2>1, <3>4
      <4>2. k + 1 \in DOMAIN p /\ Tail(p)[k] = p[k + 1]
          BY <2>1, <3>2, <4>1
      <4> QED
          BY <3>2, <3>4, <4>1, <4>2
    <3> QED
        BY <3>3, <3>4
  <2> QED
      BY <2>2, <2>3
<1>4. ASSUME NEW s \in Status, SingleDone(s)
      PROVE  AnswerGiven(i) \/ (s = "ok" /\ i = cur)
  <2> USE <1>4 DEF SingleDone, RecordEntry
  <2>1. CASE AnsweredOk(i)'
    <3>1. PICK k \in DOMAIN responses' : responses'[k] = [id |-> i, status |-> "ok"]
        BY <2>1
    <3>2. responses' = Append(responses, [id |-> cur, status |-> s])
        OBVIOUS
    <3>3. \/ k \in DOMAIN responses /\ responses'[k] = responses[k]
          \/ responses'[k] = [id |-> cur, status |-> s]
        BY <1>1, <3>1, <3>2
    <3> QED
        BY <3>1, <3>3
  <2>2. CASE \E g \in executed' : \E k \in DOMAIN pending'[g] : pending'[g][k] = [id |-> i, status |-> "ok"]
      BY <2>2
  <2> QED
      BY <2>1, <2>2
<1>5. ASSUME NEW f, GroupDone(f)
      PROVE  AnswerGiven(i) \/ (i \in Members(CurGroup) /\ f[i] = "ok")
  <2> USE <1>5 DEF GroupDone
  <2>1. CASE AnsweredOk(i)'
      BY <2>1
  <2>2. CASE \E g \in executed' : \E k \in DOMAIN pending'[g] : pending'[g][k] = [id |-> i, status |-> "ok"]
    <3>1. PICK g \in executed' : \E k \in DOMAIN pending'[g] : pending'[g][k] = [id |-> i, status |-> "ok"]
        BY <2>2
    <3>2. PICK k \in DOMAIN pending'[g] : pending'[g][k] = [id |-> i, status |-> "ok"]
        BY <3>1
    <3>3. CASE g # CurGroup
        BY <1>1, <3>2, <3>3
    <3>4. CASE g = CurGroup
      <4>1. pending'[g] = GroupEntries(f)
          BY <1>1, <3>4, AtFirstMember
      <4>2. /\ pos + k - 1 \in Members(CurGroup)
            /\ pending'[g][k] = [id |-> pos + k - 1, status |-> f[pos + k - 1]]
          BY <3>2, <4>1, GroupEntriesShape
      <4> QED
          BY <3>2, <4>2
    <3> QED
        BY <3>3, <3>4
  <2> QED
      BY <2>1, <2>2
<1> QED
    BY <1>2, <1>3, <1>4, <1>5

LEMMA AckStep ==
    ASSUME IInv, OrderInv, StartInv, SingleInv, AckInv, [Next]_vars
    PROVE  AckInv'
<1>1. batch' = batch /\ durable \subseteq durable' /\ (\A g \in executed : tx'[g] = tx[g])
    BY WhatStays
<1>2. executed \subseteq Groups
    BY DEF IInv, TypeOK
<1>3. ASSUME NEW i \in Req, ~InGroup(i), batch.write[i], AnswerGiven(i)'
      PROVE  i \in durable'
  <2>1. CASE AnswerGiven(i)
      BY <1>1, <1>3, <2>1 DEF AckInv
  <2>2. CASE ~AnswerGiven(i)
    <3>1. PICK s \in Status : SingleDone(s) /\ s = "ok" /\ i = cur
      <4>1. ~ \E f : GroupDone(f)
        <5>1. SUFFICES ASSUME NEW f, GroupDone(f) PROVE FALSE
            OBVIOUS
        <5>2. i \in Members(CurGroup)
            BY <1>3, <2>2, <5>1, NewAnswers
        <5>3. CurGroup \in Groups
            BY <5>1, AtFirstMember DEF GroupDone
        <5> QED
            BY <1>3, <5>2, <5>3, GroupsAssumption DEF Members, InGroup
      <4> QED
          BY <1>3, <2>2, <4>1, NewAnswers, ResponseSteps
    <3>2. depRes'[i] = "ok"
        BY <3>1 DEF SingleDone, RecordEntry, IInv, TypeOK
    <3>3. SingleInv'
        BY SingleStep
    <3> QED
        BY <1>1, <1>3, <3>2, <3>3 DEF SingleInv, InGroup
  <2> QED
      BY <2>1, <2>2
<1>4. ASSUME NEW g \in executed', tx'[g] # "committed"
      PROVE  \E i \in Members(g) : ~AnswerGiven(i)'
  <2>1. CASE g \in executed
    <3>1. PICK i \in Members(g) : ~AnswerGiven(i)
        BY <1>1, <1>4, <2>1 DEF AckInv
    <3>2. i \in Req /\ InGroup(i) /\ batch.grp[i] = g
        BY <1>2, <2>1, <3>1, GroupsAssumption DEF Members, InGroup
    <3>3. ASSUME AnswerGiven(i)' PROVE FALSE
      <4>1. CASE ResponsesStill \/ ShiftPending
          BY <3>1, <3>2, <3>3, <4>1, NewAnswers
      <4>2. ASSUME NEW s \in Status, SingleDone(s) PROVE FALSE
        <5>1. i = cur
            BY <3>1, <3>2, <3>3, <4>2, NewAnswers
        <5> QED
            BY <3>2, <4>2, <5>1 DEF SingleDone
      <4>3. ASSUME NEW f, GroupDone(f) PROVE FALSE
        <5>1. i \in Members(CurGroup)
            BY <3>1, <3>2, <3>3, <4>3, NewAnswers
        <5>2. CurGroup \notin executed
            BY <4>3, AtFirstMember DEF GroupDone
        <5> QED
            BY <2>1, <3>2, <5>1, <5>2 DEF Members
      <4> QED
          BY <4>1, <4>2, <4>3, ResponseSteps
    <3> QED
        BY <3>1, <3>3
  <2>2. CASE g \notin executed
    <3>1. PICK f : GroupDone(f) /\ g = CurGroup
        BY <1>4, <2>2, ResponseSteps DEF ResponsesStill, ShiftPending, SingleDone, RecordEntry, GroupDone
    <3>2. PICK i \in Members(CurGroup) : f[i] # "ok"
        BY <1>4, <3>1 DEF GroupDone
    <3>3. /\ i \in Req /\ InGroup(i) /\ batch.grp[i] = CurGroup
          /\ pos <= i /\ CurGroup \notin executed
        BY <3>1, <3>2, AtFirstMember, GroupsAssumption DEF Members, InGroup, GroupDone
    <3>4. ~AnswerGiven(i)
      <4>1. ~AnsweredOk(i)
        <5>1. responses \in Seq(Entry) /\ pos \in Int
            BY NAssumption DEF IInv, TypeOK, Req
        <5>2. \A k \in DOMAIN responses : responses[k].id < pos
            BY <5>1 DEF OrderInv
        <5> QED
            BY <3>3, <5>1, <5>2, NAssumption DEF AnsweredOk, Req
      <4>2. ASSUME NEW h \in executed, NEW k \in DOMAIN pending[h],
                   pending[h][k] = [id |-> i, status |-> "ok"]
            PROVE  FALSE
        <5>1. i \in Members(h)
            BY <4>2 DEF OrderInv
        <5> QED
            BY <3>3, <5>1 DEF Members
      <4> QED
          BY <4>1, <4>2 DEF AnswerGiven
    <3> QED
        BY <3>1, <3>2, <3>3, <3>4, NewAnswers
  <2> QED
      BY <2>1, <2>2
<1>5. /\ \A i : InGroup(i)' <=> InGroup(i)
      /\ \A g : Members(g)' = Members(g)
    BY <1>1 DEF InGroup, Members
<1> QED
    BY <1>1, <1>3, <1>4, <1>5 DEF AckInv

LEMMA IdStep ==
    ASSUME IInv, IInv', SingleInv, SingleInv', IdInv, [Next]_vars
    PROVE  IdInv'
<1>1. batch' = batch /\ durable \subseteq durable'
    BY WhatStays
<1>2. (phase \notin {"validate", "rejected"} => DependsOnValid)'
  <2>1. CASE Validate
      BY <1>1, <2>1 DEF Validate, DependsOnValid
  <2>2. CASE ~Validate
    <3>1. phase' \notin {"validate", "rejected"} => phase \notin {"validate", "rejected"}
        BY <2>2 DEF Next, Controller, ShiftPending, EnterGroup, EnterSingle, Answer, OpenInvalid,
           OpenRejected, OpenFails, OpenGroup, UnknownContentId, SkipDependent, InvalidRequest,
           StartHandler, RollbackGroup, RollbackFails, AbortGroup, CommitGroup, CommitFails,
           HandlerTimeout, ResponseTooLarge, Handler, HandlerWrite, HandlerCommit, HandlerRespond,
           HandlerEndUnheard, Awaited, vars, control
    <3> QED
        BY <1>1, <3>1 DEF IdInv, DependsOnValid
  <2> QED
      BY <2>1, <2>2
<1>3. ASSUME NEW s \in Status, phase \in {"exec", "await"}, Record(s), UNCHANGED <<batch, store>>
      PROVE  IdInv'
  <2>1. /\ pos \in Req /\ cur \in Req
        /\ InGroup(cur) <=> CurGroup # NoGroup
        /\ InGroup(cur) => CurGroup \in Groups /\ batch.grp[cur] = CurGroup
      BY <1>3, RunningFacts DEF Running
  <2>2. CASE RecordOverflow
      BY <1>1, <1>2, <1>3, <2>2 DEF RecordOverflow, IdInv, ids, store, Running, CurGroup
  <2>3. CASE RecordEntry(s) /\ ~InGroup(cur)
    <3>1. contentIds' \subseteq contentIds \cup {cur} /\ (cur \in contentIds' => cur \in contentIds \/ s = "ok")
        BY <2>3 DEF RecordEntry, Registered
    <3>2. s = "ok" => depRes'[cur] = "ok"
        BY <2>1, <2>3 DEF RecordEntry, IInv, TypeOK
    <3>3. batch'.grp[cur] = NoGroup
        BY <1>1, <2>3 DEF InGroup
    <3>4. s = "ok" /\ batch.write[cur] => cur \in durable'
        BY <1>1, <2>1, <3>2, <3>3 DEF SingleInv, InGroup
    <3>5. \A i \in contentIds' : batch.write[i] => i \in durable'
        BY <1>1, <3>1, <3>4 DEF IdInv
    <3>6. ~Running'
        BY <2>3 DEF RecordEntry, Running
    <3> QED
        BY <1>1, <1>2, <3>5, <3>6 DEF IdInv
  <2>4. CASE RecordEntry(s) /\ InGroup(cur)
    <3>1. /\ localIds' \subseteq localIds \cup {cur} /\ (cur \in localIds' => cur \in localIds \/ s = "ok")
          /\ contentIds' = contentIds /\ pos' = pos
        BY <2>4 DEF RecordEntry, Registered
    <3>2. s = "ok" => entries'[cur] = "ok"
        BY <2>1, <2>4 DEF RecordEntry, IInv, TypeOK
    <3>3. batch'.grp[cur] # NoGroup /\ tx'[batch'.grp[cur]] = "active"
        BY <1>1, <1>3, <2>1, <2>4 DEF InGroup, IInv, PosInv, Running, store
    <3>4. s = "ok" => cur \in txFx'
        BY <2>1, <3>2, <3>3 DEF IInv, MemberInv, InGroup
    <3>5. \A i \in localIds' : batch.write[i] =>
             i \in durable' \/ (batch.grp[i] = CurGroup /\ i \in txFx')
        BY <1>3, <2>1, <2>4, <3>1, <3>4 DEF IdInv, Running, store
    <3>6. CurGroup' = CurGroup
        BY <1>1, <3>1 DEF CurGroup
    <3> QED
        BY <1>1, <1>2, <3>1, <3>5, <3>6 DEF IdInv
  <2> QED
      BY <1>3, <2>2, <2>3, <2>4 DEF Record
<1>4. CASE SkipDependent \/ InvalidRequest \/ HandlerTimeout \/ ResponseTooLarge
  <2>1. PICK s \in Status : Record(s) /\ phase \in {"exec", "await"} /\ UNCHANGED <<batch, store>>
      BY <1>4 DEF SkipDependent, InvalidRequest, HandlerTimeout, ResponseTooLarge, Status, Failed
  <2> QED
      BY <1>3, <2>1
<1>5. CASE \E i \in Req : Handler(i)
  <2>1. PICK i \in Req : Handler(i)
      BY <1>5
  <2>2. CASE HandlerWrite(i) \/ HandlerCommit(i) \/ HandlerEndUnheard(i)
    <3>1. UNCHANGED <<control, ids>> /\ txFx \subseteq txFx'
        BY <2>2 DEF HandlerWrite, HandlerCommit, HandlerEndUnheard, store
    <3> QED
        BY <1>1, <1>2, <3>1 DEF IdInv, control, ids, Running, CurGroup
  <2>3. CASE HandlerRespond(i)
    <3>1. PICK s \in Status : Record(s) /\ phase \in {"exec", "await"} /\ UNCHANGED <<batch, store>>
        BY <2>3 DEF HandlerRespond, Awaited, Status, Failed
    <3> QED
        BY <1>3, <3>1
  <2> QED
      BY <2>1, <2>2, <2>3 DEF Handler
<1>6. CASE Validate \/ ShiftPending \/ EnterGroup \/ Answer \/ OpenInvalid \/ OpenRejected \/ OpenFails
           \/ RollbackGroup \/ RollbackFails \/ AbortGroup \/ CommitFails
  <2>1. contentIds' = contentIds
      BY <1>6 DEF Validate, ShiftPending, EnterGroup, Answer, OpenInvalid, OpenRejected, OpenFails,
                  RollbackGroup, RollbackFails, AbortGroup, CommitFails, ids
  <2>2. ~Running'
      BY <1>6 DEF Validate, ShiftPending, EnterGroup, Answer, OpenInvalid, OpenRejected, OpenFails,
                  RollbackGroup, RollbackFails, AbortGroup, CommitFails, FailGroup, Running
  <2> QED
      BY <1>1, <1>2, <2>1, <2>2 DEF IdInv
<1>7. CASE EnterSingle
    BY <1>1, <1>2, <1>7 DEF EnterSingle, IdInv, ids, CurGroup
<1>8. CASE OpenGroup
    BY <1>1, <1>2, <1>8 DEF OpenGroup, IdInv
<1>9. CASE UnknownContentId \/ StartHandler \/ UNCHANGED vars
  <2>1. UNCHANGED <<pos, ids, store>> /\ (Running' => Running)
      BY <1>9 DEF UnknownContentId, StartHandler, vars, control, Running
  <2> QED
      BY <1>1, <1>2, <2>1 DEF IdInv, ids, store, CurGroup
<1>10. CASE CommitGroup
  <2>1. /\ contentIds' = contentIds \cup localIds
        /\ durable' = durable \cup (txFx \cap Members(CurGroup))
        /\ ~Running' /\ Running /\ localIds \subseteq Req
      BY <1>10 DEF CommitGroup, Running, IInv, TypeOK
  <2>2. CurGroup # NoGroup
      BY <1>10, SettledMembers, GroupsAssumption DEF CommitGroup
  <2>3. \A i \in localIds : batch.write[i] => i \in durable'
      BY <2>1, <2>2 DEF IdInv, Members
  <2> QED
      BY <1>1, <1>2, <2>1, <2>3 DEF IdInv
<1> QED
    BY <1>4, <1>5, <1>6, <1>7, <1>8, <1>9, <1>10 DEF Next, Controller

-----------------------------------------------------------------------------
(* The theorems.                                                           *)

\* OInv holds of every state, on top of IInv.
THEOREM PromisesInvariant == Spec => [](IInv /\ OInv)
<1>1. Init => OInv
  <2> SUFFICES ASSUME Init PROVE OInv
      OBVIOUS
  <2> USE DEF Init, Unstarted
  <2>1. OrderInv
      BY DEF OrderInv
  <2>2. StartInv /\ SingleInv
      BY BatchesAssumption DEF StartInv, SingleInv, NoEntry
  <2>3. AckInv
      BY DEF AckInv, AnswerGiven, AnsweredOk
  <2>4. IdInv
      BY DEF IdInv, Running
  <2> QED
      BY <2>1, <2>2, <2>3, <2>4 DEF OInv
<1>2. ASSUME IInv, IInv', OInv, [Next]_vars PROVE OInv'
  <2>1. OrderInv' /\ StartInv' /\ SingleInv' /\ AckInv'
      BY <1>2, OrderStep, StartStep, SingleStep, AckStep DEF OInv
  <2>2. IdInv'
      BY <1>2, <2>1, IdStep DEF OInv
  <2> QED
      BY <2>1, <2>2 DEF OInv
<1> QED
    BY <1>1, <1>2, Invariance, PTL DEF Spec

\* Whatever fails, the client gets one response for each request of the payload
\* the batch came to, in the order of the payload (handleBatch shifts the entries
\* of a changeset off executedGroups at its members).
THEOREM OrderOfResponses == Spec => []ResponsesInOrder
<1>1. IInv /\ OInv => ResponsesInOrder
    BY NAssumption DEF OInv, OrderInv, ResponsesInOrder
<1> QED
    BY <1>1, PromisesInvariant, PTL

\* The request a handler is started for is the one executeGroup is at; its group
\* is the running one, its dependencies are earlier requests that succeeded.
LEMMA Starting ==
    ASSUME IInv, OInv, [Next]_vars, NEW i \in Req, Starts(i)
    PROVE  /\ i = cur /\ Running
           /\ InGroup(i) <=> CurGroup # NoGroup
           /\ InGroup(i) => /\ batch.grp[i] = CurGroup
                            /\ tx[CurGroup] = "active"
           /\ ReferenceKnown /\ DependenciesOk /\ DependsOnValid
           /\ UNCHANGED <<batch, ids, store>>
<1>1. StartHandler
    BY WhatStays DEF Starts
<1>2. Running
    BY <1>1 DEF StartHandler, Running
<1>3. i = cur
    BY <1>1 DEF StartHandler, Starts, IInv, TypeOK
<1>4. DependsOnValid
    BY <1>1 DEF StartHandler, OInv, IdInv
<1> QED
    BY <1>1, <1>2, <1>3, <1>4, RunningFacts DEF StartHandler, IInv, PosInv

\* A changeset that was executed and whose members the loop has passed, but whose
\* transaction was not committed, has a failure among the responses.
LEMMA FailureIsTold ==
    ASSUME IInv, OInv, NEW g \in executed, tx[g] # "committed",
           ~(pos \in Req /\ CurGroup = g)
    PROVE  ToldFailed(g)
<1>1. PICK j \in Members(g) : ~AnswerGiven(j)
    BY DEF OInv, AckInv
<1>2. j < pos /\ j \in Req
    BY OthersAreEmpty DEF OInv, Members
<1>3. responses \in Seq(Entry) /\ pos \in Int
    BY NAssumption DEF IInv, TypeOK, Req
<1>4. j \in DOMAIN responses /\ responses[j].id = j
    BY <1>2, <1>3, NAssumption DEF OInv, OrderInv, Req
<1>5. responses[j] \in Entry
    BY <1>3, <1>4
<1>6. responses[j].status # "ok"
    BY <1>1, <1>4, <1>5 DEF AnswerGiven, AnsweredOk, Entry
<1> QED
    BY <1>1, <1>4, <1>5, <1>6 DEF ToldFailed, Entry, Status

\* An earlier request of another changeset than the one that runs was executed
\* with its changeset.
LEMMA EarlierChangeset ==
    ASSUME IInv, Running, NEW d \in Req, d < cur, InGroup(d), batch.grp[d] # batch.grp[cur]
    PROVE  batch.grp[d] \in executed /\ ~(pos \in Req /\ CurGroup = batch.grp[d])
<1>1. pos \in Req /\ cur \in Req /\ phase \notin {"validate", "rejected"}
    BY RunningFacts DEF Running
<1>2. CASE CurGroup = NoGroup
    BY <1>1, <1>2 DEF IInv, PosInv, InGroup
<1>3. CASE CurGroup # NoGroup
  <2>1. /\ pos <= cur /\ batch.grp[cur] = CurGroup /\ batch.grp[pos] = CurGroup
        /\ CurGroup \in Groups /\ GroupsContiguous
      BY <1>1, <1>3, RunningFacts DEF IInv, PosInv, Members, CurGroup
  <2>2. pos \in Members(CurGroup) /\ cur \in Members(CurGroup)
      BY <1>1, <2>1 DEF Members
  <2>3. pos # d
      BY <2>1
  <2>4. ~(pos < d)
      BY <2>1, <2>2 DEF GroupsContiguous
  <2>5. d < pos
      BY <1>1, <2>3, <2>4, NAssumption DEF Req
  <2> QED
      BY <1>1, <2>1, <2>5 DEF IInv, PosInv
<1> QED
    BY <1>2, <1>3

\* What evaluateDependsOn grants.  A dependent handler starts only when each write
\* it dependsOn was performed in the transaction it shares or is committed, or
\* when the changeset of that write failed since and the responses say so.
THEOREM DependenciesAreVisible == Spec => DependencyEffectVisible
<1>1. ASSUME IInv, OInv, [Next]_vars, NEW i \in Req, Starts(i),
             NEW d \in batch.deps[i], batch.write[d]
      PROVE  IF InGroup(d) /\ batch.grp[d] = batch.grp[i]
             THEN d \in txFx
             ELSE d \in durable \/ (InGroup(d) /\ ToldFailed(batch.grp[d]))
  <2>1. d \in Req /\ d < i /\ depRes[d] = "ok"
      BY <1>1, Starting DEF DependsOnValid, DependenciesOk
  <2>2. CASE ~InGroup(d)
      BY <1>1, <2>1, <2>2 DEF OInv, SingleInv
  <2>3. CASE InGroup(d) /\ batch.grp[d] = batch.grp[i]
    <3>1. InGroup(i)
        BY <2>3 DEF InGroup
    <3>2. /\ Running /\ CurGroup # NoGroup /\ i = cur
          /\ batch.grp[i] = CurGroup /\ tx[CurGroup] = "active"
        BY <1>1, <3>1, Starting
    <3>3. d \in Members(CurGroup) /\ d < cur
        BY <2>1, <2>3, <3>2 DEF Members
    <3>4. entries[d] = "ok"
        BY <1>1, <3>2, <3>3 DEF IInv, ProgressInv
    <3>5. d \in txFx
        BY <1>1, <2>1, <2>3, <3>2, <3>4 DEF IInv, MemberInv
    <3> QED
        BY <2>3, <3>5
  <2>4. CASE InGroup(d) /\ batch.grp[d] # batch.grp[i]
    <3>1. i = cur /\ Running
        BY <1>1, Starting
    <3>2. batch.grp[d] \in executed /\ ~(pos \in Req /\ CurGroup = batch.grp[d])
        BY <1>1, <2>1, <2>4, <3>1, EarlierChangeset
    <3>3. CASE tx[batch.grp[d]] = "committed"
      <4>1. d \in durable
          BY <1>1, <2>1, <2>4, <3>3 DEF IInv, MemberInv
      <4> QED
          BY <2>4, <4>1
    <3>4. CASE tx[batch.grp[d]] # "committed"
      <4>1. ToldFailed(batch.grp[d])
          BY <1>1, <3>2, <3>4, FailureIsTold
      <4> QED
          BY <2>4, <4>1
    <3> QED
        BY <3>3, <3>4
  <2> QED
      BY <2>2, <2>3, <2>4
<1>2. IInv /\ OInv /\ [Next]_vars =>
        [\A i \in Req : Starts(i) =>
           \A d \in batch.deps[i] : batch.write[d] =>
             IF InGroup(d) /\ batch.grp[d] = batch.grp[i]
             THEN d \in txFx
             ELSE d \in durable \/ (InGroup(d) /\ ToldFailed(batch.grp[d]))]_vars
    BY <1>1
<1> QED
    BY <1>2, PromisesInvariant, PTL DEF Spec, DependencyEffectVisible

\* A Content-ID is replaced only by the URL of an entity that exists for the
\* handler: neither a rolled back changeset nor one whose commit failed leaves
\* its ids behind in contentIdMap.
THEOREM ContentIdsExist == Spec => ContentIdTargetExists
<1>1. ASSUME IInv, OInv, [Next]_vars, NEW i \in Req, Starts(i),
             batch.ref[i] # 0, batch.write[batch.ref[i]]
      PROVE  \/ batch.ref[i] \in durable
             \/ /\ InGroup(i)
                /\ batch.grp[batch.ref[i]] = batch.grp[i]
                /\ batch.ref[i] \in txFx
  <2>1. batch.ref[i] \in VisibleIds /\ i = cur /\ Running
      BY <1>1, Starting DEF ReferenceKnown
  <2>2. CASE ~InGroup(i)
      BY <1>1, <2>1, <2>2 DEF VisibleIds, OInv, IdInv
  <2>3. CASE InGroup(i)
      BY <1>1, <2>1, <2>3, Starting DEF VisibleIds, OInv, IdInv
  <2> QED
      BY <2>2, <2>3
<1>2. IInv /\ OInv /\ [Next]_vars =>
        [\A i \in Req :
           Starts(i) /\ batch.ref[i] # 0 /\ batch.write[batch.ref[i]] =>
             \/ batch.ref[i] \in durable
             \/ /\ InGroup(i)
                /\ batch.grp[batch.ref[i]] = batch.grp[i]
                /\ batch.ref[i] \in txFx]_vars
    BY <1>1
<1> QED
    BY <1>2, PromisesInvariant, PTL DEF Spec, ContentIdTargetExists

-----------------------------------------------------------------------------
(* A batch implements AtomicUnits.                                         *)

\* Answering a request can complete the success of one unit only, the one the
\* request belongs to.
LEMMA AnsweredUnit ==
    ASSUME IInv, OInv, [Next]_vars, NEW i \in Req, ~(AnsweredOk(i)' <=> AnsweredOk(i))
    PROVE  /\ i = pos /\ AnsweredOk(i)' /\ phase' = "loop"
           /\ ShiftPending \/ \E s \in Status : SingleDone(s)
<1>1. ~ResponsesStill /\ ~(\E f : GroupDone(f))
    BY DEF ResponsesStill, GroupDone, AnsweredOk
<1>2. PICK e \in Entry : e.id = pos /\ responses' = Append(responses, e)
  <2>1. CASE ShiftPending
    <3>1. /\ pending[CurGroup] # <<>> /\ Head(pending[CurGroup]).id = pos
          /\ CurGroup \in Groups
        BY <2>1, ShiftPendingOrder DEF OInv, ShiftPending, IInv, TypeOK
    <3>2. pending[CurGroup] \in Seq(Entry)
        BY <3>1 DEF IInv, TypeOK
    <3>3. Head(pending[CurGroup]) \in Entry
        BY <3>1, <3>2
    <3> QED
        BY <2>1, <3>1, <3>3 DEF ShiftPending
  <2>2. ASSUME NEW s \in Status, SingleDone(s)
        PROVE  \E e \in Entry : e.id = pos /\ responses' = Append(responses, e)
    <3>1. [id |-> cur, status |-> s] \in Entry /\ cur = pos
        BY <2>2, SingleDoneOrder DEF Entry, OInv
    <3> QED
        BY <2>2, <3>1 DEF SingleDone, RecordEntry
  <2> QED
      BY <1>1, <2>1, <2>2, ResponseSteps
<1>3. responses \in Seq(Entry)
    BY DEF IInv, TypeOK
<1>4. AnsweredOk(i) => AnsweredOk(i)'
    BY <1>2, <1>3 DEF AnsweredOk
<1>5. ASSUME AnsweredOk(i)', ~AnsweredOk(i) PROVE i = pos
  <2>1. PICK k \in DOMAIN responses' : responses'[k] = [id |-> i, status |-> "ok"]
      BY <1>5 DEF AnsweredOk
  <2>2. (k \in DOMAIN responses /\ responses'[k] = responses[k]) \/ responses'[k] = e
      BY <1>2, <1>3
  <2> QED
      BY <1>2, <1>5, <2>1, <2>2 DEF AnsweredOk
<1>6. phase' = "loop"
    BY <1>1, ResponseSteps DEF ShiftPending, SingleDone, RecordEntry
<1> QED
    BY <1>1, <1>4, <1>5, <1>6, ResponseSteps

\* A request belongs to one unit, its changeset or itself.
LEMMA UnitsOfRequests ==
    /\ \A u \in Changesets \cup Singles : u \subseteq Req /\ u # {}
    /\ \A u, v \in Changesets \cup Singles, i \in Req : i \in u /\ i \in v => u = v
    /\ \A u \in Changesets \cup Singles : \A i \in u :
         IF InGroup(i) THEN u = Members(batch.grp[i]) /\ batch.grp[i] \in Groups ELSE u = {i}
BY GroupsAssumption DEF Changesets, Singles, Members, InGroup

LEMMA UnitsStay ==
    ASSUME IInv, [Next]_vars
    PROVE  /\ Changesets' = Changesets /\ Singles' = Singles
           /\ \A u : AllWrite(u)' <=> AllWrite(u)
           /\ Settled => Settled'
<1>1. batch' = batch
    BY WhatStays
<1>2. Settled => Settled'
    BY DEF Settled, Next, Controller, Validate, ShiftPending, EnterGroup, EnterSingle, Answer, OpenInvalid,
           OpenRejected, OpenFails, OpenGroup, UnknownContentId, SkipDependent, InvalidRequest,
           StartHandler, RollbackGroup, RollbackFails, AbortGroup, CommitGroup, CommitFails,
           HandlerTimeout, ResponseTooLarge, Handler, HandlerWrite, HandlerCommit, HandlerRespond,
           HandlerEndUnheard, Awaited, vars, control
<1> QED
    BY <1>1, <1>2 DEF Changesets, Singles, Members, InGroup, AllWrite

\* The requests with an answer are those the loop has passed.
LEMMA AnsweredBefore ==
    ASSUME IInv, OInv
    PROVE  Answered = {i \in Req : i < pos}
<1>1. responses \in Seq(Entry) /\ pos \in 1..(N + 1) /\ Len(responses) = pos - 1
    BY DEF IInv, TypeOK, OInv, OrderInv
<1>2. DOMAIN responses = 1..(pos - 1) /\ \A k \in DOMAIN responses : responses[k].id = k
    BY <1>1, NAssumption DEF OInv, OrderInv
<1> QED
    BY <1>1, <1>2, NAssumption DEF Answered, Req

LEMMA AnsweredBeforeNext ==
    ASSUME IInv', OInv'
    PROVE  Answered' = {i \in Req : i < pos'}
<1>1. responses' \in Seq(Entry) /\ pos' \in 1..(N + 1) /\ Len(responses') = pos' - 1
    BY DEF IInv, TypeOK, OInv, OrderInv
<1>2. DOMAIN responses' = 1..(pos' - 1) /\ \A k \in DOMAIN responses' : responses'[k].id = k
    BY <1>1, NAssumption DEF OInv, OrderInv
<1> QED
    BY <1>1, <1>2, NAssumption DEF Answered, Req

\* A step that answers a request on its own or shifts an entry moves the loop on.
LEMMA LoopMoves ==
    ASSUME IInv, OInv, ShiftPending \/ \E s \in Status : SingleDone(s)
    PROVE  pos \in Req /\ pos' = pos + 1 /\ pos' # pos
<1>1. pos \in Req /\ pos' = pos + 1
  <2>1. CASE ShiftPending
      BY <2>1, NAssumption DEF ShiftPending, IInv, TypeOK, Req
  <2>2. ASSUME NEW s \in Status, SingleDone(s)
        PROVE  pos \in Req /\ pos' = pos + 1
    <3>1. pos \in Req
        BY <2>2, RunningFacts DEF SingleDone, Running
    <3> QED
        BY <2>2, <3>1 DEF SingleDone, RecordEntry
  <2> QED
      BY <2>1, <2>2
<1> QED
    BY <1>1, NAssumption DEF Req

\* The loop passes a request only by answering it.
LEMMA AnsweredStep ==
    ASSUME IInv, OInv, IInv', OInv', [Next]_vars
    PROVE  \/ Answered' = Answered /\ pos' = pos
           \/ /\ ShiftPending \/ \E s \in Status : SingleDone(s)
              /\ pos' = pos + 1 /\ pos \in Req /\ pos \notin Answered
              /\ Answered' = Answered \cup {pos}
<1>1. Answered = {i \in Req : i < pos} /\ Answered' = {i \in Req : i < pos'}
    BY AnsweredBefore, AnsweredBeforeNext
<1>2. CASE ResponsesStill \/ \E f : GroupDone(f)
    BY <1>1, <1>2 DEF ResponsesStill, GroupDone
<1>3. CASE ShiftPending \/ \E s \in Status : SingleDone(s)
  <2>1. pos \in Req /\ pos' = pos + 1
      BY <1>3, LoopMoves
  <2>2. {i \in Req : i < pos'} = {i \in Req : i < pos} \cup {pos}
      BY <2>1, NAssumption DEF Req
  <2> QED
      BY <1>1, <1>3, <2>1, <2>2, NAssumption DEF Req
<1> QED
    BY <1>2, <1>3, ResponseSteps

\* How the wait for a write on its own ends without its handler having ended.
GivenUp ==
    /\ phase = "await"
    /\ ~InGroup(cur)
    /\ HandlerTimeout \/ ResponseTooLarge

\* A step leaves the abandoned writes alone, adds the one it gave up waiting for,
\* or takes one out whose handler went on to its end or its commit.
LEMMA AbandonedStep ==
    ASSUME IInv, OInv, [Next]_vars
    PROVE  \/ Abandoned' = Abandoned
           \/ GivenUp /\ Abandoned' = Abandoned \cup {{cur}}
           \/ \E i \in Req : /\ {i} \in Abandoned
                             /\ Abandoned' = Abandoned \ {{i}}
                             /\ UNCHANGED <<batch, control, results>>
                             /\ durable' # durable => HandlerCommit(i)
<1>1. batch' = batch
    BY WhatStays
<1>2. \A j : InGroup(j)' <=> InGroup(j)
    BY <1>1 DEF InGroup
<1>3. ASSUME \A j \in Req : Forsaken(j)' <=> Forsaken(j)
      PROVE  Abandoned' = Abandoned
    BY <1>3 DEF Abandoned
<1>4. ASSUME NEW i \in Req, Handler(i)
      PROVE  \/ Abandoned' = Abandoned
             \/ /\ {i} \in Abandoned
                /\ Abandoned' = Abandoned \ {{i}}
                /\ UNCHANGED <<batch, control, results>>
                /\ durable' # durable => HandlerCommit(i)
  <2>1. \A j \in Req : j # i => handler'[j] = handler[j]
      BY <1>4 DEF Handler, HandlerWrite, HandlerCommit, HandlerRespond, HandlerEndUnheard, IInv, TypeOK
  <2>2. CASE HandlerRespond(i)
    <3>1. Awaited(i) /\ handler'[i] = "ended" /\ phase' # "await"
        BY <2>2 DEF HandlerRespond, Awaited, Record, RecordEntry, RecordOverflow, IInv, TypeOK
    <3>2. \A j \in Req : Forsaken(j)' <=> Forsaken(j)
        BY <1>2, <2>1, <3>1 DEF Forsaken, Awaited
    <3> QED
        BY <1>3, <3>2
  <2>3. CASE HandlerWrite(i)
    <3>1. UNCHANGED control /\ handler[i] = "running" /\ handler'[i] = "wrote"
        BY <2>3 DEF HandlerWrite, IInv, TypeOK
    <3>2. \A j \in Req : Forsaken(j)' <=> Forsaken(j)
        BY <1>2, <2>1, <3>1 DEF Forsaken, Awaited, control
    <3> QED
        BY <1>3, <3>2
  <2>4. CASE HandlerCommit(i) \/ HandlerEndUnheard(i)
    <3>1. /\ UNCHANGED <<batch, control, results>> /\ handler'[i] \in {"committed", "ended"}
          /\ durable' # durable => HandlerCommit(i)
        BY <2>4 DEF HandlerCommit, HandlerEndUnheard, IInv, TypeOK, store
    <3>2. \A j \in Req : Forsaken(j)' <=> Forsaken(j) /\ j # i
        BY <1>2, <2>1, <3>1 DEF Forsaken, Awaited, control
    <3>3. Abandoned' = Abandoned \ {{i}}
        BY <3>2 DEF Abandoned
    <3> QED
        BY <3>1, <3>3
  <2> QED
      BY <1>4, <2>2, <2>3, <2>4 DEF Handler
<1>5. CASE HandlerTimeout \/ ResponseTooLarge
  <2>1. phase = "await" /\ phase' # "await" /\ handler' = handler /\ cur \in Req
    <3>1. PICK s : Record(s)
        BY <1>5 DEF HandlerTimeout, ResponseTooLarge
    <3>2. phase = "await" /\ handler' = handler /\ cur \in Req
        BY <1>5 DEF HandlerTimeout, ResponseTooLarge, IInv, TypeOK
    <3>3. phase' # "await"
        BY <3>1 DEF Record, RecordEntry, RecordOverflow
    <3> QED
        BY <3>2, <3>3
  <2>2. \A j \in Req : Forsaken(j)' <=>
            Forsaken(j) \/ (j = cur /\ ~InGroup(cur) /\ handler[cur] \in {"running", "wrote"})
      BY <1>2, <2>1 DEF Forsaken, Awaited
  <2>3. CASE ~InGroup(cur) /\ handler[cur] \in {"running", "wrote"}
    <3>1. Abandoned' = Abandoned \cup {{cur}}
        BY <2>1, <2>2, <2>3 DEF Abandoned
    <3> QED
        BY <1>5, <2>1, <2>3, <3>1 DEF GivenUp
  <2>4. CASE ~(~InGroup(cur) /\ handler[cur] \in {"running", "wrote"})
      BY <1>3, <2>2, <2>4
  <2> QED
      BY <2>3, <2>4
<1>6. CASE StartHandler
  <2>1. InGroup(cur) \/ handler[cur] = "idle"
    <3>1. pos \in Req /\ cur \in Req /\ (InGroup(cur) <=> CurGroup # NoGroup)
        BY <1>6, RunningFacts DEF StartHandler, Running
    <3>2. ~InGroup(cur) => cur = pos
        BY <1>6, <3>1 DEF StartHandler, IInv, PosInv, Running
    <3> QED
        BY <1>6, <3>1, <3>2, NAssumption DEF StartHandler, OInv, StartInv, Req
  <2>2. /\ phase = "exec" /\ phase' = "await" /\ cur' = cur /\ cur \in Req
        /\ \A j \in Req : j # cur => handler'[j] = handler[j]
      BY <1>6 DEF StartHandler, IInv, TypeOK
  <2>3. \A j \in Req : Forsaken(j)' <=> Forsaken(j)
      BY <1>2, <2>1, <2>2 DEF Forsaken, Awaited
  <2> QED
      BY <1>3, <2>3
<1>7. CASE (Controller /\ ~StartHandler) \/ UNCHANGED vars
  <2>1. handler' = handler
      BY <1>7 DEF Controller, Validate, ShiftPending, EnterGroup, EnterSingle, Answer, OpenInvalid,
           OpenRejected, OpenFails, OpenGroup, UnknownContentId, SkipDependent, InvalidRequest,
           RollbackGroup, RollbackFails, AbortGroup, CommitGroup, CommitFails, vars
  <2>2. (phase # "await" /\ phase' # "await") \/ UNCHANGED <<phase, cur>>
      BY <1>7 DEF Controller, Validate, ShiftPending, EnterGroup, EnterSingle, Answer, OpenInvalid,
           OpenRejected, OpenFails, OpenGroup, UnknownContentId, SkipDependent, InvalidRequest,
           RollbackGroup, RollbackFails, AbortGroup, CommitGroup, CommitFails, vars, control, FailGroup,
           Record, RecordEntry, RecordOverflow
  <2>3. \A j \in Req : Forsaken(j)' <=> Forsaken(j)
      BY <1>2, <2>1, <2>2 DEF Forsaken, Awaited
  <2> QED
      BY <1>3, <2>3
<1> QED
    BY <1>4, <1>5, <1>6, <1>7 DEF Next

\* What becomes durable in one step is one unit, none of it durable before, and
\* none of it answered unless it is abandoned.
LEMMA DurableUnit ==
    ASSUME IInv, OInv, [Next]_vars, durable' # durable
    PROVE  /\ UNCHANGED <<batch, responses>> /\ (Settled' <=> Settled)
           /\ \E u \in Changesets \cup Singles :
                /\ u \cap durable = {} /\ durable' = durable \cup u
                /\ (~Settled /\ u \cap Answered = {}) \/ u \in Abandoned
                /\ Abandoned' \in {Abandoned, Abandoned \ {u}}
<1>1. CASE \E i \in Req : Handler(i)
  <2>1. PICK i \in Req : HandlerWrite(i) \/ HandlerCommit(i)
      BY <1>1 DEF Handler, HandlerRespond, HandlerEndUnheard, store
  <2>2. ~InGroup(i) /\ durable' = durable \cup {i} /\ UNCHANGED <<batch, responses, phase, control>>
      BY <2>1 DEF HandlerWrite, HandlerCommit, control, results
  <2>3. {i} \in Singles
      BY <2>2 DEF Singles
  <2>4. i \notin durable
      BY <2>2
  <2>5. handler[i] \in {"running", "wrote"}
      BY <2>1 DEF HandlerWrite, HandlerCommit
  <2>6. CASE Awaited(i)
    <3>1. i = pos
        BY <2>2, <2>6, RunningFacts DEF Awaited, IInv, PosInv, Running
    <3>2. i \notin Answered
        BY <3>1, AnsweredBefore, NAssumption DEF Req
    <3>3. ~Settled
        BY <2>6 DEF Awaited, Settled
    <3>4. Abandoned' = Abandoned
      <4>1. \A j \in Req : Forsaken(j)' <=> Forsaken(j)
        <5>1. \A j \in Req : j # i => handler'[j] = handler[j]
            BY <2>1 DEF HandlerWrite, HandlerCommit, IInv, TypeOK
        <5> QED
            BY <2>2, <2>6, <5>1 DEF Forsaken, Awaited, InGroup, control
      <4> QED
          BY <4>1 DEF Abandoned
    <3> QED
        BY <2>2, <2>3, <2>4, <3>2, <3>3, <3>4 DEF Settled
  <2>7. CASE ~Awaited(i)
    <3>1. {i} \in Abandoned
        BY <2>2, <2>5, <2>7 DEF Abandoned, Forsaken
    <3>2. Abandoned' \in {Abandoned, Abandoned \ {{i}}}
      <4>1. CASE HandlerWrite(i)
        <5>1. handler'[i] = "wrote" /\ \A j \in Req : j # i => handler'[j] = handler[j]
            BY <4>1 DEF HandlerWrite, IInv, TypeOK
        <5>2. \A j \in Req : Forsaken(j)' <=> Forsaken(j)
            BY <2>2, <2>5, <5>1 DEF Forsaken, Awaited, InGroup, control
        <5> QED
            BY <5>2 DEF Abandoned
      <4>2. CASE HandlerCommit(i)
        <5>1. handler'[i] = "committed" /\ \A j \in Req : j # i => handler'[j] = handler[j]
            BY <4>2 DEF HandlerCommit, IInv, TypeOK
        <5>2. \A j \in Req : Forsaken(j)' <=> Forsaken(j) /\ j # i
            BY <2>2, <5>1 DEF Forsaken, Awaited, InGroup, control
        <5> QED
            BY <5>2 DEF Abandoned
      <4> QED
          BY <2>1, <4>1, <4>2
    <3> QED
        BY <2>2, <2>3, <2>4, <3>1, <3>2 DEF Settled
  <2> QED
      BY <2>6, <2>7
<1>2. CASE CommitGroup \/ CommitFails
  <2> DEFINE u == Members(CurGroup)
  <2>1. phase = "settle" /\ ~GroupFailed
      BY <1>2 DEF CommitGroup, CommitFails
  <2>2. /\ Running /\ CurGroup \in Groups /\ tx[CurGroup] = "active"
        /\ \A i \in u : i \in txFx
      BY <2>1, SettledMembers
  <2>3. /\ durable' = durable \cup u /\ phase' = "loop"
        /\ UNCHANGED <<batch, responses, handler>>
      BY <1>2, <2>2 DEF CommitGroup, CommitFails, FailGroup
  <2>4. /\ u # {} /\ u \in Changesets
        /\ \A m \in u : pos <= m
    <3>1. pos \in u /\ \A m \in u : pos <= m
        BY <2>2, AtFirstMember, GroupsAssumption
    <3> QED
        BY <2>2, <3>1 DEF Changesets
  <2>5. u \cap durable = {}
      BY <2>2, GroupsAssumption DEF IInv, MemberInv, Members, InGroup
  <2>6. u \cap Answered = {}
      BY <2>4, AnsweredBefore, NAssumption DEF IInv, TypeOK, Req
  <2>7. Abandoned' = Abandoned
    <3>1. \A j \in Req : Forsaken(j)' <=> Forsaken(j)
        BY <2>1, <2>3 DEF Forsaken, Awaited, InGroup
    <3> QED
        BY <3>1 DEF Abandoned
  <2> QED
      BY <2>1, <2>3, <2>4, <2>5, <2>6, <2>7 DEF Settled
<1>3. \/ \E i \in Req : Handler(i)
      \/ CommitGroup \/ CommitFails
    BY DEF Next, Controller, Validate, ShiftPending, EnterGroup, EnterSingle, Answer, OpenInvalid,
           OpenRejected, OpenFails, OpenGroup, UnknownContentId, SkipDependent, InvalidRequest,
           StartHandler, RollbackGroup, RollbackFails, AbortGroup,
           HandlerTimeout, ResponseTooLarge, vars, store
<1> QED
    BY <1>1, <1>2, <1>3

\* What is acknowledged in one step is one unit, and durable.
LEMMA AcknowledgedUnit ==
    ASSUME IInv, OInv, IInv', OInv', [Next]_vars, Acknowledged' # Acknowledged
    PROVE  /\ ~Settled /\ ~Settled' /\ durable' = durable
           /\ phase' = "loop" /\ \E i \in Req : i = pos /\ AnsweredOk(i)'
           /\ ShiftPending \/ \E s \in Status : SingleDone(s)
           /\ \E u \in Changesets \cup Singles :
                pos \in u /\ u \subseteq durable /\ Acknowledged' = Acknowledged \cup {u}
<1> DEFINE Units == Changesets \cup Singles
<1>1. PICK i \in Req : ~(AnsweredOk(i)' <=> AnsweredOk(i))
  <2> SUFFICES ASSUME \A i \in Req : AnsweredOk(i)' <=> AnsweredOk(i)
               PROVE  Acknowledged' = Acknowledged
      OBVIOUS
  <2>1. \A u \in Units : (\A i \in u : AnsweredOk(i))' <=> (\A i \in u : AnsweredOk(i))
      BY UnitsOfRequests
  <2> QED
      BY <2>1, UnitsStay DEF Acknowledged
<1>2. /\ i = pos /\ AnsweredOk(i)' /\ ~AnsweredOk(i) /\ phase' = "loop"
      /\ ShiftPending \/ \E s \in Status : SingleDone(s)
    BY <1>1, AnsweredUnit
<1>3. \A j \in Req : j # i => (AnsweredOk(j)' <=> AnsweredOk(j))
    BY <1>2, AnsweredUnit
<1>4. /\ ~Settled /\ ~Settled' /\ UNCHANGED <<batch, store>>
    BY <1>2 DEF ShiftPending, SingleDone, Settled
<1>5. PICK u \in Units : i \in u /\ AllWrite(u) /\ \A j \in u : AnsweredOk(j)'
  <2>1. Acknowledged \subseteq Acknowledged'
      BY <1>2, <1>3, UnitsStay, UnitsOfRequests DEF Acknowledged
  <2>2. PICK u \in Acknowledged' : u \notin Acknowledged
      BY <2>1
  <2>3. u \in Units /\ AllWrite(u) /\ (\A j \in u : AnsweredOk(j)') /\ ~(\A j \in u : AnsweredOk(j))
      BY <2>2, UnitsStay DEF Acknowledged
  <2>4. i \in u
      BY <1>3, <2>3, UnitsOfRequests
  <2> QED
      BY <2>3, <2>4
<1>6. Acknowledged' = Acknowledged \cup {u}
  <2>1. ASSUME NEW v \in Units, v # u
        PROVE  (\A j \in v : AnsweredOk(j)') <=> (\A j \in v : AnsweredOk(j))
    <3>1. i \notin v /\ v \subseteq Req
        BY <1>5, <2>1, UnitsOfRequests
    <3> QED
        BY <1>3, <3>1
  <2>2. u \in Acknowledged'
      BY <1>5, UnitsStay DEF Acknowledged
  <2>3. \A v \in Units : v # u => (v \in Acknowledged' <=> v \in Acknowledged)
      BY <2>1, UnitsStay DEF Acknowledged
  <2>4. Acknowledged \subseteq Units /\ Acknowledged' \subseteq Units
      BY UnitsStay DEF Acknowledged
  <2> QED
      BY <2>2, <2>3, <2>4
<1>7. u \subseteq durable
  <2>1. \A j \in u : AnswerGiven(j)'
      BY <1>5 DEF AnswerGiven
  <2>2. CASE ~InGroup(i)
    <3>1. u = {i} /\ batch.write[i]
        BY <1>5, <2>2, UnitsOfRequests DEF AllWrite
    <3>2. ~InGroup(i)' /\ batch'.write[i]
        BY <1>4, <2>2, <3>1 DEF InGroup
    <3>3. i \in durable'
        BY <2>1, <3>1, <3>2 DEF OInv, AckInv
    <3> QED
        BY <1>4, <3>1, <3>3 DEF store
  <2>3. CASE InGroup(i)
    <3>1. PICK g \in Groups : g = batch.grp[i] /\ u = Members(g)
        BY <1>5, <2>3, UnitsOfRequests
    <3>2. ShiftPending
      <4>1. ASSUME NEW s \in Status, SingleDone(s) PROVE FALSE
          BY <1>2, <2>3, <4>1, SingleDoneOrder DEF OInv, CurGroup, InGroup
      <4> QED
          BY <1>2, <4>1
    <3>3. g \in executed'
        BY <1>2, <3>1, <3>2 DEF ShiftPending, CurGroup
    <3>4. Members(g)' = Members(g) /\ tx' = tx
        BY <1>4 DEF Members, store
    <3>5. tx[g] = "committed"
      <4>1. ASSUME tx'[g] # "committed" PROVE FALSE
        <5>1. \E j \in Members(g)' : ~AnswerGiven(j)'
            BY <3>3, <4>1 DEF OInv, AckInv
        <5> QED
            BY <2>1, <3>1, <3>4, <5>1
      <4> QED
          BY <3>4, <4>1
    <3> QED
        BY <3>1, <3>5, GroupsAssumption DEF IInv, MemberInv, Members, InGroup
  <2> QED
      BY <2>2, <2>3
<1> QED
    BY <1>2, <1>4, <1>5, <1>6, <1>7 DEF store

\* A step that gives up waiting for a write answers its request with a failure,
\* or rejects the batch.
LEMMA GivenUpStep ==
    ASSUME IInv, OInv, IInv', OInv', [Next]_vars, GivenUp
    PROVE  /\ Acknowledged' = Acknowledged /\ durable' = durable
           /\ cur = pos /\ pos \notin Answered /\ {pos} \in Singles /\ ~Settled
           /\ \/ Answered' = Answered \cup {pos} /\ ~Settled'
              \/ Answered' = Answered /\ Settled'
<1>1. /\ pos \in Req /\ cur = pos /\ ~InGroup(pos)
    BY RunningFacts DEF GivenUp, IInv, PosInv, Running
<1>2. pos \notin Answered
    BY <1>1, AnsweredBefore, NAssumption DEF Req
<1>3. PICK s \in {"timeout", "tooLarge"} : Record(s) /\ UNCHANGED <<batch, store>>
    BY DEF GivenUp, HandlerTimeout, ResponseTooLarge
<1>4. CASE RecordOverflow
  <2>1. UNCHANGED <<batch, responses>> /\ phase' = "rejected"
      BY <1>1, <1>3, <1>4 DEF RecordOverflow
  <2>2. Acknowledged' = Acknowledged /\ Answered' = Answered
      BY <2>1, UnitsStay DEF Acknowledged, AnsweredOk, Answered
  <2> QED
      BY <1>1, <1>2, <1>3, <2>1, <2>2 DEF Singles, Settled, GivenUp, store
<1>5. CASE RecordEntry(s)
  <2>1. /\ responses' = Append(responses, [id |-> cur, status |-> s])
        /\ phase' = "loop" /\ pos' = pos + 1
      BY <1>1, <1>5 DEF RecordEntry
  <2>2. responses \in Seq(Entry) /\ Len(responses) = pos - 1
      BY DEF IInv, TypeOK, OInv, OrderInv
  <2>3. ASSUME NEW i \in Req, i = pos, AnsweredOk(i)'
        PROVE  FALSE
    <3>1. PICK k \in DOMAIN responses' : responses'[k] = [id |-> i, status |-> "ok"]
        BY <2>3 DEF AnsweredOk
    <3>2. k = pos
        BY <2>3, <3>1 DEF OInv, OrderInv
    <3>3. responses'[pos].status = s
        BY <1>1, <2>1, <2>2, NAssumption DEF Req
    <3> QED
        BY <2>3, <3>1, <3>2, <3>3
  <2>4. Acknowledged' = Acknowledged
      BY <2>3, AcknowledgedUnit
  <2>5. pos' # pos
      BY <1>1, <2>1, NAssumption DEF Req
  <2>6. Answered' = Answered \cup {pos}
      BY <2>5, AnsweredStep
  <2> QED
      BY <1>1, <1>2, <1>3, <2>1, <2>4, <2>6 DEF Singles, Settled, GivenUp, store
<1> QED
    BY <1>3, <1>4, <1>5 DEF Record

\* A batch makes its units durable whole and before it answers them, and
\* acknowledges a unit only when it is durable; only a write it gave up waiting for
\* may become durable later.
THEOREM ImplementsAtomicUnits == Spec => AtomicUnitsSpec
<1>1. Init => Abstract!Init
  <2> SUFFICES ASSUME Init PROVE Abstract!Init
      OBVIOUS
  <2>1. \A i \in Req : ~AnsweredOk(i)
      BY DEF Init, Unstarted, AnsweredOk
  <2>2. Acknowledged = {}
      BY <2>1, UnitsOfRequests DEF Acknowledged
  <2>3. Answered = {} /\ Abandoned = {}
      BY DEF Init, Unstarted, Answered, Abandoned, Forsaken
  <2> QED
      BY <2>2, <2>3 DEF Init, Unstarted, Abstract!Init, Settled
<1>2. ASSUME IInv, OInv, IInv', OInv', [Next]_vars
      PROVE  [Abstract!Next]_(Abstract!vars)
  <2>1. UNCHANGED <<Changesets, Singles>>
      BY <1>2, UnitsStay
  <2>2. CASE durable' # durable
    <3>1. Acknowledged' = Acknowledged
        BY <1>2, <2>2, AcknowledgedUnit
    <3>2. Answered' = Answered
        BY <1>2, <2>2, DurableUnit DEF Answered
    <3> QED
        BY <1>2, <2>1, <2>2, <3>1, <3>2, DurableUnit DEF Abstract!Next, Abstract!Units, Abstract!Apply
  <2>3. CASE Acknowledged' # Acknowledged
    <3>1. PICK u \in Changesets \cup Singles :
              pos \in u /\ u \subseteq durable /\ Acknowledged' = Acknowledged \cup {u}
        BY <1>2, <2>3, AcknowledgedUnit
    <3>2. ~Settled /\ ~Settled' /\ durable' = durable /\ (ShiftPending \/ \E s \in Status : SingleDone(s))
        BY <1>2, <2>3, AcknowledgedUnit
    <3>3. pos \notin Answered /\ Answered' = Answered \cup {pos}
      <4>1. pos' # pos
          BY <1>2, <3>2, LoopMoves
      <4> QED
          BY <1>2, <4>1, AnsweredStep
    <3>4. Abandoned' = Abandoned
      <4>1. ~GivenUp
          BY <1>2, <2>3, GivenUpStep
      <4>2. ~ UNCHANGED <<batch, control, results>>
          BY <3>3 DEF results, Answered
      <4> QED
          BY <1>2, <4>1, <4>2, AbandonedStep
    <3>5. Abstract!Answer(pos)
        BY <3>1, <3>2, <3>3, <3>4 DEF Abstract!Answer, Abstract!Units
    <3> QED
        BY <2>1, <3>1, <3>5 DEF Abstract!Next, Abstract!Units
  <2>4. CASE durable' = durable /\ Acknowledged' = Acknowledged /\ GivenUp
    <3>1. /\ cur = pos /\ pos \notin Answered /\ {pos} \in Singles /\ ~Settled
          /\ \/ Answered' = Answered \cup {pos} /\ ~Settled'
             \/ Answered' = Answered /\ Settled'
        BY <1>2, <2>4, GivenUpStep
    <3>2. Abandoned' = Abandoned \/ Abandoned' = Abandoned \cup {{pos}}
      <4>1. ~ UNCHANGED <<batch, control, results>>
          BY <3>1 DEF results, control, Answered, Settled
      <4> QED
          BY <1>2, <3>1, <4>1, AbandonedStep
    <3>3. CASE Answered' = Answered \cup {pos} /\ ~Settled'
      <4>1. Abstract!Answer(pos)
          BY <2>4, <3>1, <3>2, <3>3 DEF Abstract!Answer, Abstract!Abandon
      <4> QED
          BY <2>1, <3>1, <4>1 DEF Abstract!Next, Abstract!Units
    <3>4. CASE Answered' = Answered /\ Settled'
      <4>1. (\E u \in Singles : \E i \in u \ Answered : Abstract!Abandon(i)) \/ Abandoned' = Abandoned
        <5>1. CASE Abandoned' = Abandoned \cup {{pos}}
          <6>1. Abstract!Abandon(pos)
              BY <3>1, <5>1 DEF Abstract!Abandon
          <6> QED
              BY <3>1, <6>1
        <5> QED
            BY <3>2, <5>1
      <4> QED
          BY <2>1, <2>4, <3>1, <3>4, <4>1 DEF Abstract!Next, Abstract!Close
    <3> QED
        BY <3>1, <3>3, <3>4
  <2>5. CASE durable' = durable /\ Acknowledged' = Acknowledged /\ ~GivenUp
    <3>1. CASE Abandoned' # Abandoned
      <4>1. PICK i \in Req : /\ {i} \in Abandoned
                             /\ Abandoned' = Abandoned \ {{i}}
                             /\ UNCHANGED <<batch, control, results>>
          BY <1>2, <2>5, <3>1, AbandonedStep
      <4>2. Answered' = Answered /\ (Settled' <=> Settled)
          BY <4>1 DEF Answered, Settled, control, results
      <4>3. {i} \in Singles
          BY <4>1 DEF Abandoned, Forsaken, Singles
      <4> QED
          BY <2>1, <2>5, <4>1, <4>2, <4>3 DEF Abstract!Next, Abstract!Units, Abstract!Stop
    <3>2. CASE Abandoned' = Abandoned /\ Answered' # Answered
      <4>1. /\ pos \in Req /\ pos \notin Answered /\ Answered' = Answered \cup {pos}
            /\ ShiftPending \/ \E s \in Status : SingleDone(s)
          BY <1>2, <3>2, AnsweredStep
      <4>2. ~Settled /\ ~Settled'
          BY <1>2, <4>1, SingleDoneOrder DEF ShiftPending, SingleDone, RecordEntry, Settled
      <4>3. Abstract!Answer(pos)
          BY <2>5, <3>2, <4>1, <4>2 DEF Abstract!Answer
      <4>4. PICK u \in Changesets \cup Singles : pos \in u
        <5>1. CASE InGroup(pos)
          <6>1. batch.grp[pos] \in Groups
              BY <1>2, <4>1, <5>1 DEF IInv, TypeOK, Payload, InGroup
          <6>2. pos \in Members(batch.grp[pos])
              BY <4>1 DEF Members
          <6> QED
              BY <6>1, <6>2 DEF Changesets
        <5>2. CASE ~InGroup(pos)
            BY <4>1, <5>2 DEF Singles
        <5> QED
            BY <5>1, <5>2
      <4> QED
          BY <2>1, <4>3, <4>4 DEF Abstract!Next, Abstract!Units
    <3>3. CASE Abandoned' = Abandoned /\ Answered' = Answered
      <4>1. CASE Settled' <=> Settled
          BY <2>1, <2>5, <3>3, <4>1 DEF Abstract!vars
      <4>2. CASE ~Settled /\ Settled'
          BY <2>1, <2>5, <3>3, <4>2 DEF Abstract!Next, Abstract!Close
      <4> QED
          BY <1>2, <4>1, <4>2, UnitsStay
    <3> QED
        BY <3>1, <3>2, <3>3
  <2> QED
      BY <2>2, <2>3, <2>4, <2>5
<1>3. Init /\ [](IInv /\ OInv) /\ [][Next]_vars => Abstract!Init /\ [][Abstract!Next]_(Abstract!vars)
    BY <1>1, <1>2, PTL
<1> QED
    BY <1>3, PromisesInvariant, PTL DEF Spec, AtomicUnitsSpec, Abstract!Spec
===============================================================================
