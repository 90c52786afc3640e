------------------------- MODULE EntityWrites_proofs -------------------------
(***************************************************************************)
(* What holds of EntityWrites for every number of racing requests, every   *)
(* mix of their kinds and every configuration, from one inductive          *)
(* invariant.                                                              *)
(***************************************************************************)
EXTENDS EntityWrites, TLAPS

Wrote == {"read", "respond", "commit"}

\* Versions are fresh: an uncommitted one is new, or the row's own that an empty
\* PATCH has left as it was.
FreshInv ==
    /\ committed \subseteq 1..clock
    /\ row \in committed \cup {Absent}
    /\ work <= clock
    /\ lock = Nobody => work = Absent
    /\ work \in committed => work = row
    /\ \A r \in Req : tags[r] \subseteq committed

\* The holder of the row lock is a transaction that has written, and the row is
\* still the version its write was allowed to replace.
LockInv ==
    lock # Nobody =>
        /\ tx[lock] = "open"
        /\ pc[lock] \in Wrote \cup {"rollback"}
        /\ lock \notin wrote
        /\ work = ver[lock]
        /\ Guarded(lock) => row \in tags[lock]

\* Where a handler is, what it answered, and what became of its write.
PcOK(r) ==
    /\ pc[r] \in {"new", "check", "write"} \cup Wrote => status[r] = "pending"
    /\ pc[r] = "new" => tx[r] = "none"
    /\ pc[r] = "commit" => tx[r] = "open"
    /\ pc[r] = "rollback" => tx[r] = "open" /\ status[r] \notin {"pending", "success"}
    /\ pc[r] = "done" => tx[r] # "open" /\ status[r] # "pending"
    /\ tx[r] = "committed" => pc[r] = "done" /\ status[r] = "success"
    /\ tx[r] = "rolledback" => pc[r] = "done" /\ status[r] # "success"
    /\ tx[r] = "open" => pc[r] \notin {"new", "done"}
    /\ r \in wrote => /\ pc[r] \in {"read", "respond", "done"}
                      /\ tx[r] \in {"none", "committed"}
                      /\ status[r] \notin Refusals
    /\ pc[r] \in Wrote /\ ~NothingToWrite(r) =>
         IF tx[r] = "open" THEN lock = r ELSE r \in wrote
    /\ status[r] = "success" => r \in wrote \/ NothingToWrite(r)

PcInv == \A r \in Req : PcOK(r)

\* What the handler knows before it writes is what the write relies on.
CheckOK(r) ==
    pc[r] = "write" =>
        /\ shape[r].op = "PUT" /\ Guarded(r) => snap[r] \in tags[r]
        /\ shape[r].op = "DELETE" /\ shape[r].rep /\ Conditional(r) /\ row \in tags[r]
             => etag[r] = row

CheckInv == \A r \in Req : CheckOK(r)

\* The ETag of a response that may still be sent is committed, or is the version
\* its own transaction is about to commit.
EtagOK(r) ==
    /\ snap[r] \in committed \cup {Absent}
    /\ r \in wrote => ver[r] \in committed \cup {Absent}
    /\ status[r] \in {"pending", "success"} =>
         /\ etag[r] \in committed \cup {Absent} \/ (lock = r /\ etag[r] = ver[r])
         /\ pc[r] \in {"respond", "commit"} /\ lock = r /\ shape[r].op # "DELETE"
              => etag[r] = ver[r]
         /\ tx[r] = "committed" /\ r \in wrote /\ shape[r].op # "DELETE"
              => etag[r] = ver[r]

EtagInv == \A r \in Req : EtagOK(r)

IInv == TypeOK /\ FreshInv /\ LockInv /\ PcInv /\ CheckInv /\ EtagInv

-----------------------------------------------------------------------------
(* The initial states.                                                     *)

LEMMA InitInv == Init => IInv
  <1> SUFFICES ASSUME Init PROVE IInv
      OBVIOUS
  <1> USE NAssumption, ShapesAssumption, ConfigsAssumption, HistoryAssumption
  <1>1. TypeOK
    BY DEF Init, TypeOK, Req, Nobody, Absent
  <1>2. FreshInv
    BY DEF Init, FreshInv, Req, Absent
  <1>3. LockInv /\ PcInv /\ CheckInv
    BY DEF Init, LockInv, PcInv, PcOK, CheckInv, CheckOK, Wrote, Refusals
  <1>4. EtagInv
    BY DEF Init, EtagInv, EtagOK, Absent
  <1> QED BY <1>1, <1>2, <1>3, <1>4 DEF IInv

-----------------------------------------------------------------------------
(* Type correctness.                                                       *)

LEMMA TypeStep == TypeOK /\ [Next]_vars => TypeOK'
  <1> SUFFICES ASSUME TypeOK, [Next]_vars PROVE TypeOK'
      OBVIOUS
  <1> USE DEF store, request, Go
  <1>1. CASE UNCHANGED vars
    BY <1>1 DEF vars, TypeOK
  <1>2. ASSUME NEW r \in Req,
               BeginTransaction(r) \/ BeginUnprotected(r) \/ BeginRefused(r)
        PROVE  TypeOK'
    <2>1. Arrive(r)
      BY <1>2 DEF BeginTransaction, BeginUnprotected, BeginRefused
    <2>2. tags' \in [Req -> SUBSET Nat]
      <3>1. PICK T \in SUBSET committed : tags' = [tags EXCEPT ![r] = T]
        BY <2>1 DEF Arrive
      <3> QED BY <3>1 DEF TypeOK
    <2>3. CASE BeginTransaction(r) \/ BeginUnprotected(r)
      BY <2>2, <2>3 DEF TypeOK, BeginTransaction, BeginUnprotected
    <2>4. CASE BeginRefused(r)
      BY <2>2, <2>4 DEF TypeOK, BeginRefused, Fail, Answers, Refusals
    <2> QED BY <1>2, <2>3, <2>4
  <1>3. ASSUME NEW r \in Req, Handle(r) PROVE TypeOK'
    <2>1. CASE RefuseUnconditional(r) \/ HookFails(r) \/ WriteMisses(r)
               \/ WriteConflicts(r) \/ CommitFails(r)
      BY <2>1 DEF TypeOK, RefuseUnconditional, HookFails, WriteMisses, WriteConflicts,
                  CommitFails, Fail, Answers, Refusals
    <2>2. CASE ReplaceCheck(r) \/ ForeignKeyCheck(r)
      BY <2>2 DEF TypeOK, ReplaceCheck, ForeignKeyCheck, FirstStatement, Fail, Answers, Refusals
    <2>3. CASE RepresentationRead(r)
      BY <2>3 DEF TypeOK, RepresentationRead, FirstStatement, Fail, Answers, Absent
    <2>4. CASE SendWrite(r)
      BY <2>4 DEF TypeOK, SendWrite, FirstStatement
    <2>5. CASE WriteApplies(r)
      <3>1. NewVersion(r) \in Nat
        BY DEF NewVersion, TypeOK, Absent
      <3>2. clock' \in Nat
        BY <2>5 DEF TypeOK, WriteApplies, Tick
      <3>3. CASE tx[r] = "open"
        BY <2>5, <3>1, <3>2, <3>3 DEF TypeOK, WriteApplies
      <3>4. CASE tx[r] # "open"
        <4>1. /\ Publish(r, NewVersion(r)) /\ UNCHANGED <<lock, work>>
              /\ ver' = [ver EXCEPT ![r] = NewVersion(r)]
              /\ pc' = [pc EXCEPT ![r] = "read"]
              /\ UNCHANGED <<request, tx, snap, etag, status>>
          BY <2>5, <3>4 DEF WriteApplies
        <4> QED BY <3>1, <3>2, <4>1 DEF TypeOK, Publish
      <3> QED BY <3>3, <3>4
    <2>6. CASE ReadBack(r)
      BY <2>6 DEF TypeOK, ReadBack, Fail, Answers, View
    <2>7. CASE Respond(r)
      BY <2>7 DEF TypeOK, Respond, Answers
    <2>8. CASE Commit(r)
      BY <2>8 DEF TypeOK, Commit, Publish, Release, Answers, Absent
    <2>9. CASE Rollback(r)
      BY <2>9 DEF TypeOK, Rollback, Release, Absent
    <2> QED BY <1>3, <2>1, <2>2, <2>3, <2>4, <2>5, <2>6, <2>7, <2>8, <2>9 DEF Handle
  <1> QED BY <1>1, <1>2, <1>3 DEF Next

-----------------------------------------------------------------------------
(* Steps that neither start nor write nor end a transaction change nothing *)
(* but the place of one handler and what it is about to answer.            *)

Begins(r) == BeginTransaction(r) \/ BeginUnprotected(r) \/ BeginRefused(r)

Quiet(r) ==
    \/ RefuseUnconditional(r) \/ ReplaceCheck(r) \/ ForeignKeyCheck(r)
    \/ RepresentationRead(r) \/ SendWrite(r) \/ WriteMisses(r) \/ WriteConflicts(r)
    \/ ReadBack(r) \/ Respond(r) \/ HookFails(r) \/ CommitFails(r)

LEMMA StepCases ==
    ASSUME [Next]_vars
    PROVE  \/ UNCHANGED vars
           \/ \E r \in Req : Begins(r) \/ Quiet(r) \/ WriteApplies(r) \/ Commit(r) \/ Rollback(r)
  BY DEF Next, Handle, Begins, Quiet

LEMMA QuietKeeps ==
    ASSUME NEW r \in Req, Quiet(r) PROVE UNCHANGED <<store, request, tx>>
  BY DEF Quiet, RefuseUnconditional, ReplaceCheck, ForeignKeyCheck, RepresentationRead,
         SendWrite, WriteMisses, WriteConflicts, ReadBack, Respond, HookFails, CommitFails,
         FirstStatement, store, request

LEMMA BeginKeeps ==
    ASSUME TypeOK, NEW r \in Req, Begins(r)
    PROVE  /\ UNCHANGED <<store, cfg, shape, snap, etag>>
           /\ \A s \in Req : tags'[s] = tags[s] \/ tags'[s] \subseteq committed
           /\ \A s \in Req : pc[s] # "new" => tags'[s] = tags[s]
  <1>1. UNCHANGED <<store, cfg, shape, snap, etag>> /\ Arrive(r)
    BY DEF Begins, BeginTransaction, BeginUnprotected, BeginRefused
  <1>2. PICK T \in SUBSET committed : tags' = [tags EXCEPT ![r] = T]
    BY <1>1 DEF Arrive
  <1>3. pc[r] = "new"
    BY <1>1 DEF Arrive
  <1> QED BY <1>1, <1>2, <1>3 DEF TypeOK

-----------------------------------------------------------------------------
(* Versions are fresh.                                                     *)

LEMMA FreshStep == IInv /\ [Next]_vars => FreshInv'
  <1> SUFFICES ASSUME IInv, [Next]_vars PROVE FreshInv'
      OBVIOUS
  <1>1. CASE UNCHANGED vars
    BY <1>1 DEF IInv, FreshInv, vars, store, request
  <1>2. ASSUME NEW r \in Req, Begins(r) PROVE FreshInv'
    <2>1. TypeOK /\ FreshInv
      BY DEF IInv
    <2>2. UNCHANGED <<row, work, lock, clock, committed>>
      BY <1>2, <2>1, BeginKeeps DEF store
    <2>3. \A s \in Req : tags'[s] \subseteq committed
      BY <1>2, <2>1, BeginKeeps DEF FreshInv
    <2> QED BY <2>1, <2>2, <2>3 DEF FreshInv
  <1>3. ASSUME NEW r \in Req, Quiet(r) PROVE FreshInv'
    <2>1. UNCHANGED <<row, work, lock, clock, committed, tags>>
      BY <1>3, QuietKeeps DEF store, request
    <2> QED BY <2>1 DEF IInv, FreshInv
  <1>4. ASSUME NEW r \in Req, WriteApplies(r) PROVE FreshInv'
    <2>1. TypeOK /\ FreshInv /\ tags' = tags
      BY <1>4 DEF IInv, WriteApplies, request
    <2>2. /\ clock \in Nat /\ row \in Nat /\ row <= clock
          /\ committed \subseteq 1..clock /\ row \in committed \cup {Absent}
      BY <2>1 DEF TypeOK, FreshInv, Absent
    <2>3. lock = Nobody /\ work = Absent /\ Tick(r)
      BY <1>4, <2>1 DEF WriteApplies, FreshInv
    <2>4. \/ NewVersion(r) = Absent /\ clock' = clock
          \/ NewVersion(r) = row /\ clock' = clock
          \/ NewVersion(r) = clock + 1 /\ clock' = clock + 1
      BY <2>2, <2>3 DEF Tick, NewVersion, Absent
    <2>5. /\ committed \subseteq 1..clock' /\ NewVersion(r) <= clock'
          /\ NewVersion(r) \in 1..clock' \cup {Absent}
          /\ NewVersion(r) \in committed => NewVersion(r) = row
      BY <2>2, <2>4 DEF Absent
    <2>6. CASE tx[r] = "open"
      <3>1. work' = NewVersion(r) /\ lock' = r /\ UNCHANGED <<row, committed>>
        BY <1>4, <2>6 DEF WriteApplies
      <3>2. lock' # Nobody
        BY <3>1, NAssumption DEF Nobody, Req
      <3> QED BY <2>1, <2>5, <3>1, <3>2 DEF FreshInv
    <2>7. CASE tx[r] # "open"
      <3>1. Publish(r, NewVersion(r)) /\ work' = Absent /\ lock' = lock
        BY <1>4, <2>3, <2>7 DEF WriteApplies
      <3>2. row' = NewVersion(r) /\ committed' = committed \cup ({NewVersion(r)} \ {Absent})
        BY <3>1 DEF Publish
      <3>3. committed' \subseteq 1..clock' /\ row' \in committed' \cup {Absent}
        BY <2>5, <3>2
      <3>4. work' \notin committed' /\ work' <= clock'
        BY <2>2, <2>4, <3>1, <3>3 DEF Absent
      <3> QED BY <2>1, <3>1, <3>2, <3>3, <3>4 DEF FreshInv
    <2> QED BY <2>6, <2>7
  <1>5. ASSUME NEW r \in Req, Commit(r) PROVE FreshInv'
    <2>1. /\ TypeOK /\ FreshInv
          /\ tags' = tags /\ clock' = clock
      BY <1>5 DEF IInv, Commit, request
    <2>2. work \in Nat /\ clock \in Nat
      BY <2>1 DEF TypeOK
    <2>3. CASE lock = r
      <3>1. Publish(r, work) /\ work' = Absent
        BY <1>5, <2>3 DEF Commit, Release
      <3> QED BY <2>1, <2>2, <3>1 DEF FreshInv, Publish, Absent
    <2>4. CASE lock # r
      BY <1>5, <2>1, <2>4 DEF Commit, Release, FreshInv
    <2> QED BY <2>3, <2>4
  <1>6. ASSUME NEW r \in Req, Rollback(r) PROVE FreshInv'
    BY <1>6 DEF IInv, TypeOK, FreshInv, Rollback, Release, request, Absent
  <1> QED BY <1>1, <1>2, <1>3, <1>4, <1>5, <1>6, StepCases

-----------------------------------------------------------------------------
(* The row under a lock.                                                   *)

\* A handler that has written in a transaction goes forward or rolls back.
LEMMA QuietInTransaction ==
    ASSUME TypeOK, NEW r \in Req, Quiet(r), tx[r] = "open", pc[r] \in Wrote \cup {"rollback"}
    PROVE  /\ pc' \in [Req -> Wrote \cup {"rollback", "new", "check", "write", "done"}]
           /\ pc'[r] \in Wrote \cup {"rollback"}
           /\ \A s \in Req \ {r} : pc'[s] = pc[s]
  <1>1. ReadBack(r) \/ Respond(r) \/ HookFails(r) \/ CommitFails(r)
    BY DEF Quiet, RefuseUnconditional, ReplaceCheck, ForeignKeyCheck, RepresentationRead,
           SendWrite, WriteMisses, WriteConflicts, FirstStatement, Wrote
  <1>2. \E p \in {"respond", "commit", "rollback"} : pc' = [pc EXCEPT ![r] = p]
    BY <1>1 DEF ReadBack, Respond, HookFails, CommitFails, Fail, Go
  <1> QED BY <1>2 DEF TypeOK, Wrote

LEMMA QuietElsewhere ==
    ASSUME TypeOK, NEW r \in Req, Quiet(r) \/ Begins(r)
    PROVE  \A s \in Req \ {r} : pc'[s] = pc[s] /\ status'[s] = status[s]
                                /\ etag'[s] = etag[s] /\ snap'[s] = snap[s] /\ tx'[s] = tx[s]
  <1>1. CASE RefuseUnconditional(r) \/ WriteMisses(r) \/ WriteConflicts(r) \/ HookFails(r)
             \/ CommitFails(r)
    BY <1>1 DEF TypeOK, RefuseUnconditional, WriteMisses, WriteConflicts, HookFails,
                CommitFails, Fail, Go
  <1>2. CASE ReplaceCheck(r) \/ ForeignKeyCheck(r)
    BY <1>2 DEF TypeOK, ReplaceCheck, ForeignKeyCheck, FirstStatement, Fail, Go
  <1>3. CASE RepresentationRead(r)
    BY <1>3 DEF TypeOK, RepresentationRead, FirstStatement, Fail, Go
  <1>4. CASE SendWrite(r) \/ Respond(r)
    BY <1>4 DEF TypeOK, SendWrite, Respond, FirstStatement, Go
  <1>5. CASE ReadBack(r)
    BY <1>5 DEF TypeOK, ReadBack, Fail, Go
  <1>6. CASE Begins(r)
    BY <1>6 DEF TypeOK, Begins, BeginTransaction, BeginUnprotected, BeginRefused, Fail, Go
  <1> QED BY <1>1, <1>2, <1>3, <1>4, <1>5, <1>6 DEF Quiet

LEMMA GuardedWrite ==
    ASSUME IInv, NEW r \in Req, WriteApplies(r), Guarded(r)
    PROVE  row \in tags[r]
  <1>1. /\ pc[r] = "write" /\ ~Conflicting(r)
        /\ shape[r].op # "POST" => Matches(r, Target(r))
    BY DEF WriteApplies
  <1>2. CASE shape[r].op = "PUT"
    <2>1. Isolated(r) /\ snap[r] \in tags[r]
      BY <1>1, <1>2 DEF Guarded, IInv, CheckInv, CheckOK
    <2> QED BY <1>1, <1>2, <2>1 DEF Conflicting
  <1>3. CASE shape[r].op \in {"PATCH", "DELETE"}
    <2>1. Target(r) \in tags[r]
      BY <1>1, <1>3 DEF Guarded, Matches
    <2> QED BY <1>1, <1>3, <2>1 DEF Target, Conflicting
  <1> QED BY <1>2, <1>3 DEF Guarded

LEMMA LockStep == IInv /\ [Next]_vars => LockInv'
  <1> SUFFICES ASSUME IInv, [Next]_vars PROVE LockInv'
      OBVIOUS
  <1>t. TypeOK /\ LockInv /\ lock \in Req \cup {Nobody}
    BY DEF IInv, TypeOK
  <1>1. CASE UNCHANGED vars
    BY <1>1, <1>t DEF LockInv, Guarded, Conditional, Isolated, vars, store, request
  <1>2. ASSUME NEW r \in Req, Begins(r) PROVE LockInv'
    <2>1. UNCHANGED <<row, work, lock, wrote, ver, cfg, shape>>
      BY <1>2, <1>t, BeginKeeps DEF store
    <2>2. CASE lock = Nobody
      BY <2>1, <2>2 DEF LockInv
    <2>3. CASE lock # Nobody
      <3>1. pc[r] = "new"
        BY <1>2 DEF Begins, BeginTransaction, BeginUnprotected, BeginRefused, Arrive
      <3>2. lock \in Req \ {r}
        BY <1>t, <2>3, <3>1 DEF LockInv, Wrote
      <3>3. tx'[lock] = tx[lock] /\ pc'[lock] = pc[lock] /\ tags'[lock] = tags[lock]
        BY <1>2, <1>t, <2>3, <3>2, QuietElsewhere, BeginKeeps DEF LockInv, Wrote
      <3> QED BY <1>t, <2>1, <3>3 DEF LockInv, Guarded, Conditional, Isolated
    <2> QED BY <2>2, <2>3
  <1>3. ASSUME NEW r \in Req, Quiet(r) PROVE LockInv'
    <2>1. UNCHANGED <<row, work, lock, wrote, ver, cfg, shape, tags, tx>>
      BY <1>3, QuietKeeps DEF store, request
    <2>2. lock # Nobody => pc'[lock] \in Wrote \cup {"rollback"}
      <3>1. CASE lock = r
        BY <1>3, <1>t, <3>1, QuietInTransaction DEF LockInv
      <3>2. CASE lock # r
        BY <1>3, <1>t, <3>2, QuietElsewhere DEF LockInv
      <3> QED BY <3>1, <3>2
    <2> QED BY <1>t, <2>1, <2>2 DEF LockInv, Guarded, Conditional, Isolated
  <1>4. ASSUME NEW r \in Req, WriteApplies(r) PROVE LockInv'
    <2>1. /\ lock = Nobody
          /\ UNCHANGED <<cfg, shape, tags, tx>>
          /\ ver' = [ver EXCEPT ![r] = NewVersion(r)]
          /\ pc' = [pc EXCEPT ![r] = "read"]
      BY <1>4 DEF WriteApplies, request, Go
    <2>2. CASE tx[r] = "open"
      <3>1. lock' = r /\ work' = NewVersion(r) /\ UNCHANGED <<row, wrote>>
        BY <1>4, <2>2 DEF WriteApplies
      <3>2. r \notin wrote
        BY <2>2 DEF IInv, PcInv, PcOK
      <3>3. Guarded(r) => row \in tags[r]
        BY <1>4, GuardedWrite
      <3>4. ver'[r] = NewVersion(r) /\ pc'[r] = "read"
        BY <1>t, <2>1 DEF TypeOK
      <3> QED BY <2>1, <2>2, <3>1, <3>2, <3>3, <3>4
              DEF LockInv, Guarded, Conditional, Isolated, Wrote
    <2>3. CASE tx[r] # "open"
      <3>1. lock' = Nobody
        BY <1>4, <2>1, <2>3 DEF WriteApplies
      <3> QED BY <3>1 DEF LockInv
    <2> QED BY <2>2, <2>3
  <1>5. ASSUME NEW r \in Req, Commit(r) \/ Rollback(r) PROVE LockInv'
    <2>1. CASE lock = r
      <3>1. lock' = Nobody
        BY <1>5, <2>1 DEF Commit, Rollback, Release
      <3> QED BY <3>1 DEF LockInv
    <2>2. CASE lock # r
      <3>1. UNCHANGED <<row, work, lock, wrote, ver, cfg, shape, tags>>
        BY <1>5, <2>2 DEF Commit, Rollback, Release, request
      <3>2. lock # Nobody => tx'[lock] = tx[lock] /\ pc'[lock] = pc[lock]
        BY <1>5, <1>t, <2>2 DEF Commit, Rollback, Go, TypeOK
      <3> QED BY <1>t, <3>1, <3>2 DEF LockInv, Guarded, Conditional, Isolated
    <2> QED BY <2>1, <2>2
  <1> QED BY <1>1, <1>2, <1>3, <1>4, <1>5, StepCases

-----------------------------------------------------------------------------
(* Places, answers and effects.                                            *)

\* The store is untouched and so is every handler but that of r.
LEMMA PcElsewhere ==
    ASSUME IInv, NEW r \in Req, Quiet(r) \/ Begins(r), NEW s \in Req \ {r}
    PROVE  PcOK(s)'
  <1>1. TypeOK /\ PcOK(s)
    BY DEF IInv, PcInv
  <1>2. UNCHANGED <<lock, wrote, shape>>
    BY <1>1, QuietKeeps, BeginKeeps DEF store, request
  <1>3. pc'[s] = pc[s] /\ status'[s] = status[s] /\ tx'[s] = tx[s]
    BY <1>1, QuietElsewhere
  <1> QED BY <1>1, <1>2, <1>3 DEF PcOK, NothingToWrite, EmptyPatch, Conditional

LEMMA PcQuiet ==
    ASSUME IInv, NEW r \in Req, Quiet(r) PROVE PcOK(r)'
  <1>1. TypeOK /\ PcOK(r)
    BY DEF IInv, PcInv
  <1>2. UNCHANGED <<lock, wrote, shape, tx>>
    BY QuietKeeps DEF store, request
  <1>3. r \in wrote => pc[r] \in {"read", "respond", "done"}
    BY <1>1 DEF PcOK
  \* The handler throws.
  <1>4. ASSUME NEW a \in {"428", "404", "412", "409", "error"}, Fail(r, a),
               pc[r] \notin {"new", "done", "rollback"}, a \in Refusals => r \notin wrote
        PROVE  PcOK(r)'
    <2>1. /\ pc'[r] = IF tx[r] = "open" THEN "rollback" ELSE "done"
          /\ status'[r] = a
      BY <1>1, <1>4 DEF Fail, Go, TypeOK
    <2>2. tx[r] # "committed" /\ a \notin {"pending", "success"}
      BY <1>1, <1>4 DEF PcOK, TypeOK, Wrote
    <2>3. tx[r] = "open" => r \notin wrote
      BY <1>1 DEF PcOK
    <2>4. r \in wrote => tx[r] \in {"none", "committed"}
      BY <1>1 DEF PcOK
    <2> QED BY <1>2, <1>4, <2>1, <2>2, <2>3, <2>4 DEF PcOK, Wrote
  \* It goes on to its write.
  <1>5. ASSUME pc[r] = "check", Go(r, "write"), UNCHANGED status PROVE PcOK(r)'
    <2>1. pc'[r] = "write" /\ status'[r] = status[r]
      BY <1>1, <1>5 DEF Go, TypeOK
    <2> QED BY <1>1, <1>2, <1>5, <2>1 DEF PcOK, Wrote
  <1>6. CASE RefuseUnconditional(r)
    BY <1>3, <1>4, <1>6 DEF RefuseUnconditional
  <1>7. CASE ReplaceCheck(r)
    BY <1>3, <1>4, <1>5, <1>7 DEF ReplaceCheck, FirstStatement
  <1>8. CASE ForeignKeyCheck(r)
    BY <1>3, <1>4, <1>5, <1>8 DEF ForeignKeyCheck, FirstStatement
  <1>9. CASE RepresentationRead(r)
    BY <1>3, <1>4, <1>5, <1>9 DEF RepresentationRead, FirstStatement
  <1>10. CASE SendWrite(r)
    <2>1. pc[r] = "check" /\ UNCHANGED status
      BY <1>10 DEF SendWrite, FirstStatement
    <2>2. pc'[r] = "write" \/ (pc'[r] = "read" /\ NothingToWrite(r))
      BY <1>1, <1>10 DEF SendWrite, Go, TypeOK
    <2> QED BY <1>1, <1>2, <2>1, <2>2 DEF PcOK, NothingToWrite, EmptyPatch, Conditional, Wrote
  <1>11. CASE WriteMisses(r) \/ WriteConflicts(r) \/ CommitFails(r)
    BY <1>3, <1>4, <1>11 DEF WriteMisses, WriteConflicts, CommitFails
  <1>12. CASE HookFails(r)
    BY <1>4, <1>12 DEF HookFails, Refusals
  <1>13. CASE ReadBack(r)
    <2>1. CASE Fail(r, "404")
      BY <1>4, <1>13, <2>1 DEF ReadBack, Refusals
    <2>2. CASE ~Fail(r, "404")
      <3>1. pc[r] = "read" /\ pc'[r] = "respond" /\ status' = status
        BY <1>1, <1>13, <2>2 DEF ReadBack, Go, TypeOK
      <3> QED BY <1>1, <1>2, <3>1 DEF PcOK, NothingToWrite, EmptyPatch, Conditional, Wrote
    <2> QED BY <2>1, <2>2
  <1>14. CASE Respond(r)
    <2>1. pc[r] = "respond"
      BY <1>14 DEF Respond
    <2>2. CASE tx[r] = "open"
      <3>1. pc'[r] = "commit" /\ status' = status
        BY <1>1, <1>14, <2>2 DEF Respond, Go, TypeOK
      <3> QED BY <1>1, <1>2, <2>1, <2>2, <3>1 DEF PcOK, NothingToWrite, EmptyPatch, Conditional, Wrote
    <2>3. CASE tx[r] # "open"
      <3>1. pc'[r] = "done" /\ status'[r] = "success"
        BY <1>1, <1>14, <2>3 DEF Respond, Go, TypeOK
      <3>2. tx[r] # "rolledback"
        BY <1>1, <2>1 DEF PcOK, Wrote, TypeOK
      <3> QED BY <1>1, <1>2, <2>1, <2>3, <3>1, <3>2 DEF PcOK, NothingToWrite, EmptyPatch, Conditional, Wrote, Refusals
    <2> QED BY <2>2, <2>3
  <1> QED BY <1>6, <1>7, <1>8, <1>9, <1>10, <1>11, <1>12, <1>13, <1>14 DEF Quiet

LEMMA PcBegin ==
    ASSUME IInv, NEW r \in Req, Begins(r) PROVE PcOK(r)'
  <1>1. TypeOK /\ PcOK(r) /\ pc[r] = "new"
    BY DEF IInv, PcInv, Begins, BeginTransaction, BeginUnprotected, BeginRefused, Arrive
  <1>2. UNCHANGED <<lock, wrote, shape>> /\ r \notin wrote
    BY <1>1, BeginKeeps DEF store, PcOK
  <1>3. CASE BeginTransaction(r)
    <2>1. pc'[r] = "check" /\ tx'[r] = "open" /\ status' = status
      BY <1>1, <1>3 DEF BeginTransaction, Go, TypeOK
    <2> QED BY <1>1, <1>2, <2>1 DEF PcOK, Wrote
  <1>4. CASE BeginUnprotected(r)
    <2>1. pc'[r] = "check" /\ tx' = tx /\ status' = status
      BY <1>1, <1>4 DEF BeginUnprotected, Go, TypeOK
    <2> QED BY <1>1, <1>2, <2>1 DEF PcOK, Wrote
  <1>5. CASE BeginRefused(r)
    <2>1. tx[r] = "none"
      BY <1>1 DEF PcOK
    <2>2. pc'[r] = "done" /\ tx' = tx /\ status'[r] = "501"
      BY <1>1, <1>5, <2>1 DEF BeginRefused, Fail, Go, TypeOK
    <2> QED BY <1>1, <1>2, <2>1, <2>2 DEF PcOK, Wrote
  <1> QED BY <1>3, <1>4, <1>5 DEF Begins

LEMMA PcStep == IInv /\ [Next]_vars => PcInv'
  <1> SUFFICES ASSUME IInv, [Next]_vars, NEW s \in Req PROVE PcOK(s)'
      BY DEF PcInv
  <1>t. TypeOK /\ LockInv /\ PcOK(s)
    BY DEF IInv, PcInv
  <1>1. CASE UNCHANGED vars
    BY <1>1, <1>t DEF PcOK, NothingToWrite, EmptyPatch, Conditional, vars, store, request
  <1>2. ASSUME NEW r \in Req, Begins(r) PROVE PcOK(s)'
    BY <1>2, PcElsewhere, PcBegin
  <1>3. ASSUME NEW r \in Req, Quiet(r) PROVE PcOK(s)'
    BY <1>3, PcElsewhere, PcQuiet
  <1>4. ASSUME NEW r \in Req, WriteApplies(r) PROVE PcOK(s)'
    <2>1. /\ pc[r] = "write" /\ lock = Nobody
          /\ pc' = [pc EXCEPT ![r] = "read"]
          /\ UNCHANGED <<tx, status, shape>>
          /\ IF tx[r] = "open" THEN lock' = r /\ wrote' = wrote
                               ELSE lock' = lock /\ wrote' = wrote \cup {r}
      BY <1>4 DEF WriteApplies, Publish, request, Go
    <2>2. PcOK(r)
      BY DEF IInv, PcInv
    <2>3. CASE s = r
      <3>1. pc'[r] = "read" /\ status[r] = "pending" /\ r \notin wrote
        BY <1>t, <2>1, <2>2 DEF PcOK, TypeOK, Wrote
      <3>2. tx[r] \in {"none", "open"}
        BY <1>t, <2>1, <2>2 DEF PcOK, TypeOK
      <3> QED BY <2>1, <2>3, <3>1, <3>2 DEF PcOK, Wrote, Refusals
    <2>4. CASE s # r
      <3>1. pc'[s] = pc[s] /\ (s \in wrote' <=> s \in wrote)
        BY <1>t, <2>1, <2>4 DEF TypeOK
      <3>2. lock # s
        BY <2>1 DEF Nobody, Req
      <3> QED BY <1>t, <2>1, <3>1, <3>2 DEF PcOK, NothingToWrite, EmptyPatch, Conditional
    <2> QED BY <2>3, <2>4
  <1>5. ASSUME NEW r \in Req, Commit(r) PROVE PcOK(s)'
    <2>1. /\ pc[r] = "commit"
          /\ pc' = [pc EXCEPT ![r] = "done"]
          /\ tx' = [tx EXCEPT ![r] = "committed"]
          /\ status' = [status EXCEPT ![r] = "success"]
          /\ wrote' = IF lock = r THEN wrote \cup {r} ELSE wrote
          /\ lock' = IF lock = r THEN Nobody ELSE lock
          /\ shape' = shape
      BY <1>5 DEF Commit, Publish, Release, request, Go
    <2>2. CASE s = r
      <3>1. tx[r] = "open" /\ (~NothingToWrite(r) => lock = r)
        BY <1>t, <2>1, <2>2 DEF PcOK, Wrote
      <3>2. pc'[r] = "done" /\ tx'[r] = "committed" /\ status'[r] = "success"
        BY <1>t, <2>1 DEF TypeOK
      <3> QED BY <2>1, <2>2, <3>1, <3>2 DEF PcOK, NothingToWrite, EmptyPatch, Conditional, Wrote, Refusals
    <2>3. CASE s # r
      <3>1. pc'[s] = pc[s] /\ tx'[s] = tx[s] /\ status'[s] = status[s]
        BY <1>t, <2>1, <2>3 DEF TypeOK
      <3>2. (s \in wrote' <=> s \in wrote) /\ (lock = s => lock' = s)
        BY <2>1, <2>3
      <3> QED BY <1>t, <2>1, <3>1, <3>2 DEF PcOK, NothingToWrite, EmptyPatch, Conditional
    <2> QED BY <2>2, <2>3
  <1>6. ASSUME NEW r \in Req, Rollback(r) PROVE PcOK(s)'
    <2>1. /\ pc[r] = "rollback"
          /\ pc' = [pc EXCEPT ![r] = "done"]
          /\ tx' = [tx EXCEPT ![r] = "rolledback"]
          /\ lock' = IF lock = r THEN Nobody ELSE lock
          /\ UNCHANGED <<status, shape, wrote>>
      BY <1>6 DEF Rollback, Release, request, Go
    <2>2. CASE s = r
      <3>1. pc'[r] = "done" /\ tx'[r] = "rolledback"
        BY <1>t, <2>1 DEF TypeOK
      <3> QED BY <1>t, <2>1, <2>2, <3>1 DEF PcOK, Wrote
    <2>3. CASE s # r
      <3>1. pc'[s] = pc[s] /\ tx'[s] = tx[s] /\ (lock = s => lock' = s)
        BY <1>t, <2>1, <2>3 DEF TypeOK
      <3> QED BY <1>t, <2>1, <3>1 DEF PcOK, NothingToWrite, EmptyPatch, Conditional
    <2> QED BY <2>2, <2>3
  <1> QED BY <1>1, <1>2, <1>3, <1>4, <1>5, <1>6, StepCases

-----------------------------------------------------------------------------
(* Checks before the write.                                                *)

LEMMA CheckStep == IInv /\ [Next]_vars => CheckInv'
  <1> SUFFICES ASSUME IInv, [Next]_vars, NEW s \in Req PROVE CheckOK(s)'
      BY DEF CheckInv
  <1>t. TypeOK /\ FreshInv /\ CheckOK(s)
    BY DEF IInv, CheckInv
  <1> USE DEF Guarded, Conditional, Isolated
  <1>1. CASE UNCHANGED vars
    BY <1>1, <1>t DEF CheckOK, vars, store, request
  <1>2. ASSUME NEW r \in Req, Begins(r) PROVE CheckOK(s)'
    <2>1. UNCHANGED <<row, cfg, shape>>
      BY <1>2, <1>t, BeginKeeps DEF store
    <2>2. CASE s = r
      <3>1. pc'[r] # "write"
        BY <1>2, <1>t DEF Begins, BeginTransaction, BeginUnprotected, BeginRefused,
                          Fail, Go, TypeOK
      <3> QED BY <2>2, <3>1 DEF CheckOK
    <2>3. CASE s # r
      <3>1. /\ pc'[s] = pc[s] /\ snap'[s] = snap[s] /\ etag'[s] = etag[s] /\ tx'[s] = tx[s]
            /\ pc[s] = "write" => tags'[s] = tags[s]
        BY <1>2, <1>t, <2>3, QuietElsewhere, BeginKeeps
      <3> QED BY <1>t, <2>1, <3>1 DEF CheckOK
    <2> QED BY <2>2, <2>3
  <1>3. ASSUME NEW r \in Req, Quiet(r) PROVE CheckOK(s)'
    <2>1. UNCHANGED <<row, cfg, shape, tags, tx>>
      BY <1>3, QuietKeeps DEF store, request
    <2>2. CASE s # r
      <3>1. pc'[s] = pc[s] /\ snap'[s] = snap[s] /\ etag'[s] = etag[s]
        BY <1>3, <1>t, <2>2, QuietElsewhere
      <3> QED BY <1>t, <2>1, <3>1 DEF CheckOK
    <2>3. CASE s = r
      <3>1. CASE pc'[r] # "write"
        BY <2>3, <3>1 DEF CheckOK
      <3>2. CASE pc'[r] = "write"
        <4>1. ReplaceCheck(r) \/ ForeignKeyCheck(r) \/ RepresentationRead(r) \/ SendWrite(r)
          BY <1>3, <1>t, <3>2 DEF Quiet, RefuseUnconditional, WriteMisses, WriteConflicts,
             ReadBack, Respond, HookFails, CommitFails, Fail, Go, TypeOK
        <4>2. CASE ReplaceCheck(r)
          <5>1. shape[r].op = "PUT" /\ snap'[r] = row
            BY <1>t, <4>2 DEF ReplaceCheck, FirstStatement, TypeOK
          <5>2. row \in tags[r]
            BY <1>t, <3>2, <4>2 DEF ReplaceCheck, Fail, Go, TypeOK
          <5> QED BY <2>1, <2>3, <5>1, <5>2 DEF CheckOK
        <4>3. CASE ForeignKeyCheck(r)
          BY <2>1, <2>3, <4>3 DEF ForeignKeyCheck, CheckOK
        <4>4. CASE RepresentationRead(r)
          <5>1. shape[r].op = "DELETE"
            BY <4>4 DEF RepresentationRead
          <5>2. row \in tags[r] => etag'[r] = row
            BY <1>t, <3>2, <4>4 DEF RepresentationRead, Fail, Go, TypeOK
          <5> QED BY <2>1, <2>3, <5>1, <5>2 DEF CheckOK
        <4>5. CASE SendWrite(r)
          BY <2>1, <2>3, <4>5 DEF SendWrite, CheckOK
        <4> QED BY <4>1, <4>2, <4>3, <4>4, <4>5
      <3> QED BY <3>1, <3>2
    <2> QED BY <2>2, <2>3
  \* A new version is none that an If-Match header names.
  <1>4. ASSUME NEW r \in Req, WriteApplies(r) \/ Commit(r) \/ Rollback(r) PROVE CheckOK(s)'
    <2>1. UNCHANGED <<cfg, shape, tags, snap, etag>>
      BY <1>4 DEF WriteApplies, Commit, Rollback, request
    <2>2. CASE s = r
      <3>1. pc'[r] # "write"
        BY <1>4, <1>t DEF WriteApplies, Commit, Rollback, Go, TypeOK
      <3> QED BY <2>2, <3>1 DEF CheckOK
    <2>3. CASE s # r
      <3>1. pc'[s] = pc[s] /\ tx'[s] = tx[s]
        BY <1>4, <1>t, <2>3 DEF WriteApplies, Commit, Rollback, Go, TypeOK
      <3>2. tags[s] \subseteq committed /\ committed \subseteq 1..clock /\ clock \in Nat
        BY <1>t DEF FreshInv, TypeOK
      <3>3. row' = row \/ row' \notin tags[s]
        <4>1. CASE WriteApplies(r)
          <5>1. row' = row \/ row' = NewVersion(r)
            BY <4>1 DEF WriteApplies, Publish
          <5>2. NewVersion(r) = row \/ NewVersion(r) \notin 1..clock
            BY <3>2 DEF NewVersion, Absent
          <5> QED BY <3>2, <5>1, <5>2
        <4>2. CASE Commit(r)
          <5>1. row' = row \/ row' = work
            BY <4>2 DEF Commit, Publish
          <5>2. work \in committed => work = row
            BY <1>t DEF FreshInv
          <5> QED BY <3>2, <5>1, <5>2
        <4>3. CASE Rollback(r)
          BY <4>3 DEF Rollback
        <4> QED BY <1>4, <4>1, <4>2, <4>3
      <3> QED BY <1>t, <2>1, <3>1, <3>3 DEF CheckOK
    <2> QED BY <2>2, <2>3
  <1> QED BY <1>1, <1>2, <1>3, <1>4, StepCases

-----------------------------------------------------------------------------
(* ETags of responses.                                                     *)

\* The ETag a handler is about to send comes from the row, from its snapshot, or
\* from what it wrote itself.
LEMMA EtagQuiet ==
    ASSUME IInv, NEW r \in Req, Quiet(r) PROVE EtagOK(r)'
  <1>1. TypeOK /\ FreshInv /\ LockInv /\ PcOK(r) /\ EtagOK(r)
    BY DEF IInv, PcInv, EtagInv
  <1>2. UNCHANGED <<row, lock, committed, wrote, ver, shape, tx>>
    BY QuietKeeps DEF store, request
  <1>3. row \in committed \cup {Absent} /\ snap[r] \in committed \cup {Absent}
    BY <1>1 DEF FreshInv, EtagOK
  <1>4. pc[r] \notin {"new", "done", "rollback"} /\ tx[r] # "committed"
    <2>1. pc[r] \notin {"new", "done", "rollback"}
      BY DEF Quiet, RefuseUnconditional, ReplaceCheck, ForeignKeyCheck, RepresentationRead,
             SendWrite, WriteMisses, WriteConflicts, ReadBack, Respond, HookFails,
             CommitFails, FirstStatement
    <2> QED BY <1>1, <2>1 DEF PcOK
  <1>5. status[r] = "pending"
    BY <1>1, <1>4 DEF PcOK, TypeOK, Wrote
  <1>6. snap'[r] \in committed \cup {Absent}
    BY <1>1, <1>3 DEF Quiet, RefuseUnconditional, ReplaceCheck, ForeignKeyCheck,
       RepresentationRead, SendWrite, WriteMisses, WriteConflicts, ReadBack, Respond,
       HookFails, CommitFails, FirstStatement, TypeOK
  \* What remains to show of a step that does not make the handler fail.
  <1>7. ASSUME etag'[r] \in committed \cup {Absent} \/ (lock = r /\ etag'[r] = ver[r]),
               pc'[r] \in {"respond", "commit"} /\ lock = r /\ shape[r].op # "DELETE"
                 => etag'[r] = ver[r]
        PROVE  EtagOK(r)'
    BY <1>1, <1>2, <1>4, <1>6, <1>7 DEF EtagOK
  <1>8. ASSUME etag' = etag, pc'[r] = "respond" => FALSE, pc'[r] = "commit" => pc[r] = "respond"
        PROVE  EtagOK(r)'
    BY <1>1, <1>5, <1>7, <1>8 DEF EtagOK
  <1>9. CASE RefuseUnconditional(r) \/ WriteMisses(r) \/ WriteConflicts(r) \/ CommitFails(r)
             \/ HookFails(r)
    BY <1>1, <1>8, <1>9 DEF RefuseUnconditional, WriteMisses, WriteConflicts, CommitFails,
                            HookFails, Fail, Go, TypeOK
  <1>10. CASE ReplaceCheck(r) \/ ForeignKeyCheck(r)
    BY <1>1, <1>8, <1>10 DEF ReplaceCheck, ForeignKeyCheck, Fail, Go, TypeOK
  <1>11. CASE SendWrite(r)
    BY <1>1, <1>8, <1>11 DEF SendWrite, Go, TypeOK
  <1>12. CASE RepresentationRead(r)
    <2>1. etag'[r] \in committed \cup {Absent} \/ etag' = etag
      BY <1>1, <1>3, <1>12 DEF RepresentationRead, TypeOK
    <2>2. pc'[r] \in {"rollback", "done", "write"}
      BY <1>1, <1>12 DEF RepresentationRead, Fail, Go, TypeOK
    <2> QED BY <1>1, <1>5, <1>7, <2>1, <2>2 DEF EtagOK
  <1>13. CASE Respond(r)
    <2>1. pc[r] = "respond" /\ pc'[r] \in {"commit", "done"} /\ etag' = etag
      BY <1>1, <1>13 DEF Respond, Go, TypeOK
    <2> QED BY <1>1, <1>5, <1>7, <2>1 DEF EtagOK
  <1>14. CASE ReadBack(r)
    <2>1. CASE Fail(r, "404") /\ UNCHANGED etag
      BY <1>1, <1>8, <2>1 DEF Fail, Go, TypeOK
    <2>2. CASE ~(Fail(r, "404") /\ UNCHANGED etag)
      <3>1. pc[r] = "read" /\ pc'[r] = "respond"
        BY <1>1, <1>14, <2>2 DEF ReadBack, Go, TypeOK
      <3>2. etag'[r] = CASE shape[r].op = "POST"   -> ver[r]
                         [] shape[r].op = "DELETE" -> etag[r]
                         [] OTHER                  -> View(r)
        BY <1>1, <1>14, <2>2 DEF ReadBack, TypeOK
      <3>3. lock = r => work = ver[r]
        BY <1>1 DEF LockInv, Nobody, Req
      <3>4. CASE shape[r].op = "POST"
        <4>1. lock = r \/ r \in wrote
          BY <1>1, <3>1, <3>4 DEF PcOK, NothingToWrite, EmptyPatch, Wrote
        <4>2. r \in wrote => ver[r] \in committed \cup {Absent}
          BY <1>1 DEF EtagOK
        <4> QED BY <1>7, <3>2, <3>4, <4>1, <4>2
      <3>5. CASE shape[r].op = "DELETE"
        BY <1>1, <1>5, <1>7, <3>2, <3>5 DEF EtagOK
      <3>6. CASE shape[r].op \notin {"POST", "DELETE"}
        BY <1>3, <1>7, <3>2, <3>3, <3>6 DEF View
      <3> QED BY <3>4, <3>5, <3>6
    <2> QED BY <2>1, <2>2
  <1> QED BY <1>9, <1>10, <1>11, <1>12, <1>13, <1>14 DEF Quiet

LEMMA EtagStep == IInv /\ [Next]_vars => EtagInv'
  <1> SUFFICES ASSUME IInv, [Next]_vars, NEW s \in Req PROVE EtagOK(s)'
      BY DEF EtagInv
  <1>t. TypeOK /\ LockInv /\ PcOK(s) /\ EtagOK(s)
    BY DEF IInv, PcInv, EtagInv
  <1>1. CASE UNCHANGED vars
    BY <1>1, <1>t DEF EtagOK, vars, store, request
  <1>2. ASSUME NEW r \in Req, Quiet(r) \/ Begins(r), s # r PROVE EtagOK(s)'
    <2>1. UNCHANGED <<lock, committed, wrote, ver, shape>>
      BY <1>2, <1>t, QuietKeeps, BeginKeeps DEF store, request
    <2>2. /\ pc'[s] = pc[s] /\ status'[s] = status[s] /\ etag'[s] = etag[s]
          /\ snap'[s] = snap[s] /\ tx'[s] = tx[s]
      BY <1>2, <1>t, QuietElsewhere
    <2> QED BY <1>t, <2>1, <2>2 DEF EtagOK
  <1>3. ASSUME NEW r \in Req, Begins(r), s = r PROVE EtagOK(s)'
    <2>1. UNCHANGED <<lock, committed, wrote, ver, shape, snap, etag>>
      BY <1>3, <1>t, BeginKeeps DEF store
    <2>2. pc[r] = "new" /\ status[r] = "pending" /\ r \notin wrote /\ lock # r
      BY <1>3, <1>t DEF Begins, BeginTransaction, BeginUnprotected, BeginRefused, Arrive,
                        PcOK, LockInv, Wrote, Nobody, Req
    <2> QED BY <1>3, <1>t, <2>1, <2>2 DEF EtagOK
  <1>4. ASSUME NEW r \in Req, Quiet(r) PROVE EtagOK(s)'
    BY <1>2, <1>4, EtagQuiet
  <1>5. ASSUME NEW r \in Req, WriteApplies(r) PROVE EtagOK(s)'
    <2>1. /\ pc[r] = "write" /\ lock = Nobody
          /\ pc' = [pc EXCEPT ![r] = "read"]
          /\ ver' = [ver EXCEPT ![r] = NewVersion(r)]
          /\ UNCHANGED <<shape, tx, snap, etag, status>>
          /\ \/ tx[r] = "open" /\ lock' = r /\ wrote' = wrote /\ committed' = committed
             \/ /\ tx[r] # "open" /\ lock' = lock /\ wrote' = wrote \cup {r}
                /\ committed' = committed \cup ({NewVersion(r)} \ {Absent})
      BY <1>5 DEF WriteApplies, Publish, request, Go
    <2>2. lock # s /\ committed \subseteq committed'
      BY <2>1 DEF Nobody, Req
    <2>3. CASE s = r
      <3>1. status[r] = "pending" /\ r \notin wrote /\ tx[r] # "committed"
        BY <1>t, <2>1, <2>3 DEF PcOK
      <3>2. ver'[r] = NewVersion(r) /\ pc'[r] = "read"
        BY <1>t, <2>1 DEF TypeOK
      <3>3. r \in wrote' => ver'[r] \in committed' \cup {Absent}
        BY <2>1, <3>1, <3>2
      <3> QED BY <1>t, <2>1, <2>2, <2>3, <3>1, <3>2, <3>3 DEF EtagOK
    <2>4. CASE s # r
      <3>1. pc'[s] = pc[s] /\ ver'[s] = ver[s] /\ lock' # s /\ (s \in wrote' <=> s \in wrote)
        BY <1>t, <2>1, <2>2, <2>4 DEF TypeOK
      <3> QED BY <1>t, <2>1, <2>2, <3>1 DEF EtagOK
    <2> QED BY <2>3, <2>4
  <1>6. ASSUME NEW r \in Req, Commit(r) PROVE EtagOK(s)'
    <2>1. /\ pc[r] = "commit"
          /\ pc' = [pc EXCEPT ![r] = "done"]
          /\ tx' = [tx EXCEPT ![r] = "committed"]
          /\ status' = [status EXCEPT ![r] = "success"]
          /\ UNCHANGED <<shape, ver, snap, etag>>
          /\ wrote' = IF lock = r THEN wrote \cup {r} ELSE wrote
          /\ lock' = IF lock = r THEN Nobody ELSE lock
          /\ committed' = IF lock = r THEN committed \cup ({work} \ {Absent}) ELSE committed
      BY <1>6 DEF Commit, Publish, Release, request, Go
    <2>2. committed \subseteq committed' /\ (lock = r => ver[r] \in committed' \cup {Absent})
      BY <1>t, <2>1 DEF LockInv, Nobody, Req
    <2>3. CASE s = r
      <3>1. status[r] = "pending" /\ r \notin wrote
        BY <1>t, <2>1, <2>3 DEF PcOK, Wrote
      <3>2. etag[r] \in committed' \cup {Absent}
        BY <1>t, <2>2, <2>3, <3>1 DEF EtagOK
      <3>3. lock = r /\ shape[r].op # "DELETE" => etag[r] = ver[r]
        BY <1>t, <2>1, <2>3, <3>1 DEF EtagOK
      <3>4. pc'[r] = "done"
        BY <1>t, <2>1 DEF TypeOK
      <3>5. r \in wrote' => lock = r
        BY <2>1, <3>1
      <3> QED BY <1>t, <2>1, <2>2, <2>3, <3>2, <3>3, <3>4, <3>5 DEF EtagOK
    <2>4. CASE s # r
      <3>1. /\ pc'[s] = pc[s] /\ tx'[s] = tx[s] /\ status'[s] = status[s]
            /\ (s \in wrote' <=> s \in wrote) /\ (lock' = s <=> lock = s)
        BY <1>t, <2>1, <2>4 DEF TypeOK, Nobody, Req
      <3> QED BY <1>t, <2>1, <2>2, <3>1 DEF EtagOK
    <2> QED BY <2>3, <2>4
  <1>7. ASSUME NEW r \in Req, Rollback(r) PROVE EtagOK(s)'
    <2>1. /\ pc[r] = "rollback"
          /\ pc' = [pc EXCEPT ![r] = "done"]
          /\ tx' = [tx EXCEPT ![r] = "rolledback"]
          /\ lock' = IF lock = r THEN Nobody ELSE lock
          /\ UNCHANGED <<status, shape, wrote, committed, ver, snap, etag>>
      BY <1>7 DEF Rollback, Release, request, Go
    <2>2. CASE s = r
      <3>1. status[r] \notin {"pending", "success"}
        BY <1>t, <2>1, <2>2 DEF PcOK
      <3> QED BY <1>t, <2>1, <2>2, <3>1 DEF EtagOK
    <2>3. CASE s # r
      <3>1. pc'[s] = pc[s] /\ tx'[s] = tx[s] /\ (lock' = s <=> lock = s)
        BY <1>t, <2>1, <2>3 DEF TypeOK, Nobody, Req
      <3> QED BY <1>t, <2>1, <3>1 DEF EtagOK
    <2> QED BY <2>2, <2>3
  <1> QED BY <1>1, <1>2, <1>3, <1>4, <1>5, <1>6, <1>7, StepCases

-----------------------------------------------------------------------------
(* Theorems.                                                               *)

\* The inductive invariant: every reachable state of every instance satisfies it.
THEOREM Invariance == Spec => []IInv
  <1>1. Init => IInv
    BY InitInv
  <1>2. IInv /\ [Next]_vars => IInv'
    <2> SUFFICES ASSUME IInv, [Next]_vars PROVE IInv'
        OBVIOUS
    <2>1. TypeOK'
      BY TypeStep DEF IInv
    <2> QED BY <2>1, FreshStep, LockStep, PcStep, CheckStep, EtagStep DEF IInv
  <1> QED BY <1>1, <1>2, PTL DEF Spec

\* The variables of the model keep their types.
THEOREM TypeCorrect == Spec => []TypeOK
  <1>1. IInv => TypeOK
    BY DEF IInv
  <1> QED BY <1>1, Invariance, PTL

\* However many writers race and however withWriteTransaction leaves a handler,
\* an answer tells what became of the write.
THEOREM AnswersTellTheTruth == Spec => []AnswerMatchesEffect
  <1>1. IInv => AnswerMatchesEffect
    <2> SUFFICES ASSUME IInv, NEW r \in Req, pc[r] = "done"
                 PROVE  /\ status[r] = "success" => r \in wrote \/ NothingToWrite(r)
                        /\ status[r] \in Refusals => r \notin wrote
                        /\ status[r] # "success" /\ Protected(r) => r \notin wrote
        BY DEF AnswerMatchesEffect
    <2>1. PcOK(r)
      BY DEF IInv, PcInv
    <2> QED BY <2>1 DEF PcOK, Protected
  <1> QED BY <1>1, Invariance, PTL

\* The ETag of a successful answer is one the client may send back.
THEOREM EtagsAreOwn == Spec => []EtagIsOwn
  <1>1. IInv => EtagIsOwn
    <2> SUFFICES ASSUME IInv, NEW r \in Req, pc[r] = "done", status[r] = "success",
                        etag[r] # Absent
                 PROVE  /\ etag[r] \in committed
                        /\ Protected(r) /\ r \in wrote /\ shape[r].op # "DELETE"
                             => etag[r] = ver[r]
        BY DEF EtagIsOwn
    <2>1. TypeOK /\ LockInv /\ PcOK(r) /\ EtagOK(r)
      BY DEF IInv, PcInv, EtagInv
    <2>2. lock # r
      BY <2>1 DEF LockInv, Wrote, Nobody, Req
    <2>3. Protected(r) /\ r \in wrote => tx[r] = "committed"
      BY <2>1 DEF PcOK, Protected
    <2> QED BY <2>1, <2>2, <2>3 DEF EtagOK
  <1> QED BY <1>1, Invariance, PTL

\* A request publishes its write in the step that applies it, or in its commit.
LEMMA Publication ==
    ASSUME IInv, [Next]_vars, NEW r \in Req, Publishes(r)
    PROVE  \/ WriteApplies(r)
           \/ Commit(r) /\ lock = r
  <1>1. ~UNCHANGED vars
    BY DEF Publishes, vars, store
  <1>2. PICK s \in Req : Begins(s) \/ Quiet(s) \/ WriteApplies(s) \/ Commit(s) \/ Rollback(s)
    BY <1>1, StepCases
  <1>3. ~Begins(s) /\ ~Quiet(s)
    BY BeginKeeps, QuietKeeps DEF Publishes, store, IInv
  <1>4. ~Rollback(s)
    BY DEF Rollback, Publishes
  <1>5. s = r
    BY <1>2, <1>3, <1>4 DEF WriteApplies, Commit, Publish, Publishes
  <1> QED BY <1>2, <1>3, <1>4, <1>5 DEF Commit, Publishes

\* The optimistic concurrency of update and delete, and of replace at an isolation
\* level above READ_COMMITTED: no write replaces a version its If-Match did not name.
THEOREM LostUpdatesExcluded == Spec => NoLostUpdate
  <1>1. IInv /\ [Next]_vars => \A r \in Req : Publishes(r) /\ Guarded(r) => row \in tags[r]
    <2> SUFFICES ASSUME IInv, [Next]_vars, NEW r \in Req, Publishes(r), Guarded(r)
                 PROVE  row \in tags[r]
        OBVIOUS
    <2>1. CASE WriteApplies(r)
      BY <2>1, GuardedWrite
    <2>2. CASE Commit(r) /\ lock = r
      BY <2>2 DEF IInv, LockInv, Nobody, Req
    <2> QED BY <2>1, <2>2, Publication
  <1>2. IInv /\ [Next]_vars => [\A r \in Req : Publishes(r) /\ Guarded(r) => row \in tags[r]]_vars
    BY <1>1
  <1> QED BY <1>2, Invariance, PTL DEF Spec, NoLostUpdate

-----------------------------------------------------------------------------
(* What a conditional delete returns.                                      *)

Shows(r) == shape[r].op = "DELETE" /\ shape[r].rep /\ Conditional(r)

\* The version a delete is about to answer with is the row it holds.
ShowInv == lock # Nobody /\ Shows(lock) => etag[lock] = row

LEMMA ShownVersionIsReplaced ==
    ASSUME IInv, NEW r \in Req, WriteApplies(r), Shows(r)
    PROVE  etag[r] = row
  <1>1. pc[r] = "write" /\ ~Conflicting(r) /\ Matches(r, Target(r))
    BY DEF WriteApplies, Shows
  <1>2. row \in tags[r]
    BY <1>1 DEF Shows, Matches, Target, Conflicting
  <1> QED BY <1>1, <1>2 DEF IInv, CheckInv, CheckOK, Shows

LEMMA ShowStep == IInv /\ ShowInv /\ [Next]_vars => ShowInv'
  <1> SUFFICES ASSUME IInv, ShowInv, [Next]_vars PROVE ShowInv'
      OBVIOUS
  <1>t. TypeOK /\ LockInv /\ lock \in Req \cup {Nobody}
    BY DEF IInv, TypeOK
  <1>1. CASE UNCHANGED vars
    BY <1>1 DEF ShowInv, Shows, Conditional, vars, store, request
  <1>2. ASSUME NEW r \in Req, Begins(r) \/ Quiet(r) PROVE ShowInv'
    <2>1. UNCHANGED <<row, lock, shape>>
      BY <1>2, <1>t, BeginKeeps, QuietKeeps DEF store, request
    <2>2. CASE lock = Nobody
      BY <2>1, <2>2 DEF ShowInv
    <2>3. CASE lock \in Req \ {r}
      <3>1. etag'[lock] = etag[lock]
        BY <1>2, <1>t, <2>3, QuietElsewhere
      <3> QED BY <2>1, <3>1 DEF ShowInv, Shows, Conditional
    <2>4. CASE lock = r /\ Shows(r)
      <3>1. pc[r] \in Wrote \cup {"rollback"}
        BY <1>t, <2>4, NAssumption DEF LockInv, Nobody, Req
      <3>2. etag'[r] = etag[r]
        BY <1>2, <1>t, <2>4, <3>1
           DEF Begins, BeginTransaction, BeginUnprotected, BeginRefused, Arrive, Quiet,
               RefuseUnconditional, ReplaceCheck, ForeignKeyCheck, RepresentationRead,
               SendWrite, FirstStatement, WriteMisses, WriteConflicts, ReadBack, Respond,
               HookFails, CommitFails, Wrote, Shows, TypeOK
      <3> QED BY <2>1, <2>4, <3>2 DEF ShowInv, Shows, Conditional
    <2>5. CASE lock = r /\ ~Shows(r)
      BY <2>1, <2>5 DEF ShowInv, Shows, Conditional
    <2> QED BY <1>t, <2>2, <2>3, <2>4, <2>5
  <1>3. ASSUME NEW r \in Req, WriteApplies(r) PROVE ShowInv'
    <2>1. lock = Nobody /\ UNCHANGED <<shape, etag>>
      BY <1>3 DEF WriteApplies, request
    <2>2. CASE tx[r] = "open"
      <3>1. lock' = r /\ row' = row
        BY <1>3, <2>2 DEF WriteApplies
      <3>2. Shows(r) => etag[r] = row
        BY <1>3, ShownVersionIsReplaced
      <3> QED BY <2>1, <3>1, <3>2 DEF ShowInv, Shows, Conditional
    <2>3. CASE tx[r] # "open"
      <3>1. lock' = Nobody
        BY <1>3, <2>1, <2>3 DEF WriteApplies
      <3> QED BY <3>1 DEF ShowInv
    <2> QED BY <2>2, <2>3
  <1>4. ASSUME NEW r \in Req, Commit(r) \/ Rollback(r) PROVE ShowInv'
    <2>1. CASE lock = r
      <3>1. lock' = Nobody
        BY <1>4, <2>1 DEF Commit, Rollback, Release
      <3> QED BY <3>1 DEF ShowInv
    <2>2. CASE lock # r
      <3>1. UNCHANGED <<row, lock, shape, etag>>
        BY <1>4, <2>2 DEF Commit, Rollback, Release, request
      <3> QED BY <3>1 DEF ShowInv, Shows, Conditional
    <2> QED BY <2>1, <2>2
  <1> QED BY <1>1, <1>2, <1>3, <1>4, StepCases

\* A conditional delete with return=representation deletes the very version it read
\* and returns, in whatever order the other handlers write in between.
THEOREM DeletedIsShown == Spec => DeletesWhatItShows
  <1>1. Init => ShowInv
    BY DEF Init, ShowInv
  <1>2. IInv /\ ShowInv /\ [Next]_vars =>
          \A r \in Req : Publishes(r) /\ shape[r].op = "DELETE" /\ shape[r].rep /\ Conditional(r)
                           => etag[r] = row
    <2> SUFFICES ASSUME IInv, ShowInv, [Next]_vars, NEW r \in Req, Publishes(r), Shows(r)
                 PROVE  etag[r] = row
        BY DEF Shows
    <2>1. CASE WriteApplies(r)
      BY <2>1, ShownVersionIsReplaced
    <2>2. CASE Commit(r) /\ lock = r
      BY <2>2, NAssumption DEF ShowInv, Nobody, Req
    <2> QED BY <2>1, <2>2, Publication
  <1>3. IInv /\ ShowInv /\ [Next]_vars =>
          [\A r \in Req : Publishes(r) /\ shape[r].op = "DELETE" /\ shape[r].rep /\ Conditional(r)
                            => etag[r] = row]_vars
    BY <1>2
  <1> QED BY <1>1, <1>3, ShowStep, Invariance, PTL DEF Spec, DeletesWhatItShows

=============================================================================
