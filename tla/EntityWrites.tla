---------------------------- MODULE EntityWrites ----------------------------
(***************************************************************************)
(* The write handlers of the generated CRUD controller (create, replace,   *)
(* update and delete of ODataCrudController), racing on one entity, with   *)
(* their If-Match preconditions and the transaction withWriteTransaction   *)
(* puts around each of them.  Every await of a handler is a step of its    *)
(* own, so that the handlers interleave there.                             *)
(*                                                                         *)
(* The datasource is the one the code is written against: a row is locked  *)
(* by the transaction that wrote it until commit or rollback; a read sees  *)
(* the committed row, or the reader's own write; REPEATABLE_READ and       *)
(* SERIALIZABLE read from the snapshot of the first statement and refuse   *)
(* to write over a newer version.  The ETag property is kept fresh by the  *)
(* application: a version number that no two writes share.                 *)
(***************************************************************************)
EXTENDS Integers, FiniteSets

CONSTANTS
    N,           \* requests, numbered in the order they arrive
    Shapes,      \* what a request may look like
    Configs,     \* the configurations of the service
    History      \* versions the entity has had before the first request

Req    == 1..N
Nobody == 0
Absent == 0      \* no such row, and the version nobody wrote

\* A request: its handler, its If-Match header, whether a PATCH has an empty
\* payload or one with a composition foreign key, and whether a DELETE asks
\* for return=representation.
Shape == [op : {"POST", "PUT", "PATCH", "DELETE"}, match : {"absent", "any", "tags"},
          body : {"plain", "empty", "fk"}, rep : BOOLEAN]

\* writeTransactions.enabled, .requireTransactionSupport, whether the isolation
\* level is above READ_COMMITTED, and strict.
Config == [tx : BOOLEAN, require : BOOLEAN, snapshot : BOOLEAN, strict : BOOLEAN]

ASSUME NAssumption       == N \in Nat \ {0}
ASSUME ShapesAssumption  == Shapes \subseteq Shape
ASSUME ConfigsAssumption == Configs \subseteq Config
ASSUME HistoryAssumption == History \in Nat \ {0}

VARIABLES
    cfg,        \* the configuration
    row,        \* the committed version of the entity
    work,       \* the uncommitted version, while a transaction holds the lock
    lock,       \* the request whose transaction wrote the row
    clock,      \* the newest version
    committed,  \* versions that were ever committed
    wrote,      \* requests whose write was committed
    shape, tags,\* the request, and the versions its If-Match names
    pc,         \* where the handler of each request is
    tx,         \* the transaction of each request
    snap,       \* the row as the first statement of the handler saw it
    ver,        \* the version a request wrote
    etag,       \* the version in the ETag header of the response
    status      \* the answer

store   == <<row, work, lock, clock, committed, wrote, ver>>
request == <<cfg, shape, tags>>
vars    == <<store, request, pc, tx, snap, etag, status>>

Refusals == {"412", "428", "409", "501"}
Answers  == {"success", "404", "error"} \cup Refusals

TypeOK ==
    /\ cfg \in Config
    /\ row \in Nat /\ work \in Nat /\ clock \in Nat
    /\ lock \in Req \cup {Nobody}
    /\ committed \subseteq Nat
    /\ wrote \subseteq Req
    /\ shape \in [Req -> Shape]
    /\ tags \in [Req -> SUBSET Nat]
    /\ pc \in [Req -> {"new", "check", "write", "read", "respond", "commit",
                       "rollback", "done"}]
    /\ tx \in [Req -> {"none", "open", "committed", "rolledback"}]
    /\ snap \in [Req -> Nat] /\ ver \in [Req -> Nat] /\ etag \in [Req -> Nat]
    /\ status \in [Req -> {"pending"} \cup Answers]

Init ==
    /\ cfg \in Configs
    /\ row \in {History, Absent}
    /\ shape \in [Req -> Shapes]
    /\ work = Absent
    /\ lock = Nobody
    /\ clock = History
    /\ committed = 1..History
    /\ wrote = {}
    /\ tags = [r \in Req |-> {}]
    /\ pc = [r \in Req |-> "new"]
    /\ tx = [r \in Req |-> "none"]
    /\ snap = [r \in Req |-> Absent]
    /\ ver = [r \in Req |-> Absent]
    /\ etag = [r \in Req |-> Absent]
    /\ status = [r \in Req |-> "pending"]

-----------------------------------------------------------------------------

Conditional(r) == shape[r].match = "tags"
Isolated(r)    == tx[r] = "open" /\ cfg.snapshot

ViewWithoutOptions(r) == row  \* mutant

\* What a read of request r returns: its options carry its transaction.
View(r) == IF lock = r THEN work ELSE IF Isolated(r) THEN snap[r] ELSE row

Go(r, place) == pc' = [pc EXCEPT ![r] = place]

FailWithoutRollback(r, answer) ==  \* mutant
    /\ Go(r, "done")
    /\ status' = [status EXCEPT ![r] = answer]

\* The handler throws: withWriteTransaction rolls its transaction back before
\* the answer leaves.
Fail(r, answer) ==
    /\ Go(r, IF tx[r] = "open" THEN "rollback" ELSE "done")
    /\ status' = [status EXCEPT ![r] = answer]

-----------------------------------------------------------------------------
(* withWriteTransaction, before the handler.                               *)

\* The client names versions it has been shown, which have been committed.
Arrive(r) ==
    /\ pc[r] = "new"
    /\ \A s \in 1..(r - 1) : pc[s] # "new"
    /\ tags' \in { [tags EXCEPT ![r] = T] : T \in
                     IF Conditional(r) THEN (SUBSET committed) \ {{}} ELSE {{}} }

BeginTransaction(r) ==
    /\ Arrive(r)
    /\ cfg.tx
    /\ tx' = [tx EXCEPT ![r] = "open"]
    /\ Go(r, "check")
    /\ UNCHANGED <<store, cfg, shape, snap, etag, status>>

\* Transactions are off, or beginTransaction is unavailable and not required:
\* every statement of the handler commits by itself.
BeginUnprotected(r) ==
    /\ Arrive(r)
    /\ cfg.tx => ~cfg.require
    /\ Go(r, "check")
    /\ UNCHANGED <<store, cfg, shape, tx, snap, etag, status>>

BeginRefused(r) ==
    /\ Arrive(r)
    /\ cfg.tx /\ cfg.require
    /\ Fail(r, "501")
    /\ UNCHANGED <<store, cfg, shape, tx, snap, etag>>

-----------------------------------------------------------------------------
(* The handler, up to its write.                                           *)

NeedsIfMatch(r) ==
    cfg.strict /\ shape[r].op # "POST" /\ shape[r].match = "absent"

\* A before hook or the tenant limit throws, or an after hook does.
HookFails(r) ==
    /\ pc[r] \in {"check", "respond"}
    /\ Fail(r, "error")
    /\ UNCHANGED <<store, request, tx, snap, etag>>

RefuseUnconditional(r) ==
    /\ pc[r] = "check"
    /\ NeedsIfMatch(r)
    /\ Fail(r, "428")
    /\ UNCHANGED <<store, request, tx, snap, etag>>

FirstStatement(r) ==
    /\ pc[r] = "check"
    /\ ~NeedsIfMatch(r)
    /\ snap' = [snap EXCEPT ![r] = row]

\* replace: the ETag of the entity is compared in the process, before the write.
ReplaceCheck(r) ==
    /\ FirstStatement(r)
    /\ shape[r].op = "PUT" /\ Conditional(r)
    /\ \/ row = Absent /\ Fail(r, "404")
       \/ row # Absent /\ row \notin tags[r] /\ Fail(r, "412")
       \/ row \in tags[r] /\ Go(r, "write") /\ UNCHANGED status
    /\ UNCHANGED <<store, request, tx, etag>>

\* update: a payload with a composition foreign key is compared with the
\* entity; a new parent is refused.
ForeignKeyCheck(r) ==
    /\ FirstStatement(r)
    /\ shape[r].op = "PATCH" /\ shape[r].body = "fk"
    /\ \/ Conditional(r) /\ row \notin tags[r] /\ Fail(r, "412")
       \/ ~Conditional(r) /\ row = Absent /\ Fail(r, "404")
       \/ /\ row # Absent /\ (Conditional(r) => row \in tags[r])
          /\ Fail(r, "409") \/ (Go(r, "write") /\ UNCHANGED status)
    /\ UNCHANGED <<store, request, tx, etag>>

\* delete: the representation is read before the entity goes.
RepresentationRead(r) ==
    /\ FirstStatement(r)
    /\ shape[r].op = "DELETE" /\ shape[r].rep
    /\ IF ~Conditional(r) /\ row = Absent
       THEN Fail(r, "404") /\ UNCHANGED etag
       ELSE /\ Go(r, "write")
            /\ etag' = [etag EXCEPT ![r] =
                           IF Conditional(r) /\ row \notin tags[r] THEN Absent ELSE row]
            /\ UNCHANGED status
    /\ UNCHANGED <<store, request, tx>>

\* An unconditional PATCH with an empty payload has nothing to write; a conditional
\* one is sent all the same, to see whether its where clause finds the entity.
EmptyPatch(r)     == shape[r].op = "PATCH" /\ shape[r].body = "empty"
NothingToWrite(r) == EmptyPatch(r) /\ ~Conditional(r)

\* Nothing is read before the write.
SendWrite(r) ==
    /\ FirstStatement(r)
    /\ CASE shape[r].op = "PUT"    -> ~Conditional(r)
         [] shape[r].op = "PATCH"  -> shape[r].body # "fk"
         [] shape[r].op = "DELETE" -> ~shape[r].rep
         [] shape[r].op = "POST"   -> TRUE
    /\ Go(r, IF NothingToWrite(r) THEN "read" ELSE "write")
    /\ UNCHANGED <<store, request, tx, etag, status>>

-----------------------------------------------------------------------------
(* The write.                                                              *)

\* The version a write of r is aimed at, and whether its where clause finds
\* it: updateAll and deleteAll carry the ETag, replaceById only the id.
Target(r) == IF Isolated(r) THEN snap[r] ELSE row

MatchesById(r, v) == v # Absent  \* mutant

Matches(r, v) ==
    /\ v # Absent
    /\ Conditional(r) /\ shape[r].op \in {"PATCH", "DELETE"} => v \in tags[r]

\* A count of 0 is a failed precondition, a missing id a 404.
WriteMisses(r) ==
    /\ pc[r] = "write"
    /\ shape[r].op # "POST"
    /\ ~Matches(r, Target(r))
    /\ Fail(r, IF Conditional(r) /\ shape[r].op # "PUT" THEN "412" ELSE "404")
    /\ UNCHANGED <<store, request, tx, snap, etag>>

\* The datasource waits for the lock before it finds a duplicate key, or a
\* version newer than the snapshot.
Conflicting(r) ==
    IF shape[r].op = "POST" THEN row # Absent
                            ELSE Isolated(r) /\ row # snap[r]

WriteConflicts(r) ==
    /\ pc[r] = "write"
    /\ lock = Nobody
    /\ shape[r].op # "POST" => Matches(r, Target(r))
    /\ Conflicting(r)
    /\ Fail(r, "error")
    /\ UNCHANGED <<store, request, tx, snap, etag>>

\* The version a write of r leaves behind; an empty PATCH leaves the one it found.
NewVersion(r) == IF shape[r].op = "DELETE" THEN Absent
                 ELSE IF EmptyPatch(r) THEN row ELSE clock + 1

Tick(r) == clock' = IF NewVersion(r) = clock + 1 THEN clock + 1 ELSE clock

Publish(r, v) ==
    /\ row' = v
    /\ committed' = committed \cup ({v} \ {Absent})
    /\ wrote' = wrote \cup {r}

WriteWithoutOptions(r) ==  \* mutant
    /\ pc[r] = "write"
    /\ lock = Nobody
    /\ shape[r].op # "POST" => Matches(r, Target(r))
    /\ ~Conflicting(r)
    /\ ver' = [ver EXCEPT ![r] = NewVersion(r)]
    /\ Tick(r)
    /\ Publish(r, NewVersion(r))
    /\ Go(r, "read")
    /\ UNCHANGED <<lock, work, request, tx, snap, etag, status>>

WriteApplies(r) ==
    /\ pc[r] = "write"
    /\ lock = Nobody
    /\ shape[r].op # "POST" => Matches(r, Target(r))
    /\ ~Conflicting(r)
    /\ ver' = [ver EXCEPT ![r] = NewVersion(r)]
    /\ Tick(r)
    /\ IF tx[r] = "open"
       THEN /\ lock' = r /\ work' = NewVersion(r)
            /\ UNCHANGED <<row, committed, wrote>>
       ELSE /\ Publish(r, NewVersion(r))
            /\ UNCHANGED <<lock, work>>
    /\ Go(r, "read")
    /\ UNCHANGED <<request, tx, snap, etag, status>>

-----------------------------------------------------------------------------
(* After the write: the read-back, the after hooks, the commit.            *)

\* create answers with the entity it was given back, replace and update read
\* it again, delete has nothing left to read.
ReadBack(r) ==
    /\ pc[r] = "read"
    /\ IF shape[r].op \in {"PUT", "PATCH"} /\ View(r) = Absent
       THEN Fail(r, "404") /\ UNCHANGED etag
       ELSE /\ Go(r, "respond")
            /\ etag' = [etag EXCEPT ![r] = CASE shape[r].op = "POST"   -> ver[r]
                                             [] shape[r].op = "DELETE" -> etag[r]
                                             [] OTHER                  -> View(r)]
            /\ UNCHANGED status
    /\ UNCHANGED <<store, request, tx, snap>>

\* A DELETE that has no representation to return is an internal error.
Respond(r) ==
    /\ pc[r] = "respond"
    /\ shape[r].op = "DELETE" /\ shape[r].rep => etag[r] # Absent
    /\ IF tx[r] = "open"
       THEN Go(r, "commit") /\ UNCHANGED status
       ELSE /\ Go(r, "done")
            /\ status' = [status EXCEPT ![r] = "success"]
    /\ UNCHANGED <<store, request, tx, snap, etag>>

Release(r) ==
    /\ lock' = IF lock = r THEN Nobody ELSE lock
    /\ work' = IF lock = r THEN Absent ELSE work

Commit(r) ==
    /\ pc[r] = "commit"
    /\ IF lock = r THEN Publish(r, work) ELSE UNCHANGED <<row, committed, wrote>>
    /\ Release(r)
    /\ tx' = [tx EXCEPT ![r] = "committed"]
    /\ Go(r, "done")
    /\ status' = [status EXCEPT ![r] = "success"]
    /\ UNCHANGED <<request, clock, ver, snap, etag>>

CommitFails(r) ==
    /\ pc[r] = "commit"
    /\ Fail(r, "error")
    /\ UNCHANGED <<store, request, tx, snap, etag>>

\* The datasource drops the work of a transaction whether or not rollback()
\* itself resolves; the handler ignores its outcome.
Rollback(r) ==
    /\ pc[r] = "rollback"
    /\ Release(r)
    /\ tx' = [tx EXCEPT ![r] = "rolledback"]
    /\ Go(r, "done")
    /\ UNCHANGED <<request, row, clock, committed, wrote, ver, snap, etag, status>>

-----------------------------------------------------------------------------

Handle(r) ==
    \/ RefuseUnconditional(r) \/ ReplaceCheck(r) \/ ForeignKeyCheck(r)
    \/ RepresentationRead(r) \/ SendWrite(r)
    \/ WriteMisses(r) \/ WriteConflicts(r) \/ WriteApplies(r)
    \/ ReadBack(r) \/ Respond(r) \/ HookFails(r)
    \/ Commit(r) \/ CommitFails(r) \/ Rollback(r)

Next == \E r \in Req :
    BeginTransaction(r) \/ BeginUnprotected(r) \/ BeginRefused(r) \/ Handle(r)

\* The promises of the datasource settle and the event loop runs every handler
\* that can go on; a handler may wait for the lock of another one.
Spec == Init /\ [][Next]_vars /\ \A r \in Req : WF_vars(Handle(r))

-----------------------------------------------------------------------------
(* Properties.                                                             *)

Protected(r) == tx[r] # "none"
Publishes(r) == r \in wrote' \ wrote

\* A write that carries If-Match replaces one of the versions it names, however
\* the handlers interleave: update and delete put the ETag into the where
\* clause of the write itself, and replace, which compares it beforehand, is
\* saved by an isolation level that refuses to write over a newer version.
Guarded(r) ==
    /\ Conditional(r)
    /\ shape[r].op \in {"PATCH", "DELETE"} \/ (shape[r].op = "PUT" /\ Isolated(r))

NoLostUpdate == [][\A r \in Req : Publishes(r) /\ Guarded(r) => row \in tags[r]]_vars

\* What the answer says is what happened: a request that succeeded has its write
\* committed, unless it had nothing to write, and one that was refused, or that failed
\* inside a transaction, whichever step it failed at, has left nothing behind.
AnswerMatchesEffect ==
    \A r \in Req : pc[r] = "done" =>
        /\ status[r] = "success" => r \in wrote \/ NothingToWrite(r)
        /\ status[r] \in Refusals => r \notin wrote
        /\ status[r] # "success" /\ Protected(r) => r \notin wrote

\* The ETag of a successful answer can be sent back: it names a version that was
\* committed, and in a transaction the one this request wrote, not that of a
\* writer that came between the write and the read-back.
EtagIsOwn ==
    \A r \in Req : pc[r] = "done" /\ status[r] = "success" /\ etag[r] # Absent =>
        /\ etag[r] \in committed
        /\ Protected(r) /\ r \in wrote /\ shape[r].op # "DELETE" => etag[r] = ver[r]

\* A conditional DELETE that returns a representation deletes the version it
\* returns, though it reads it in one statement and deletes in the next.
DeletesWhatItShows ==
    [][\A r \in Req : Publishes(r) /\ shape[r].op = "DELETE" /\ shape[r].rep /\ Conditional(r)
                        => etag[r] = row]_vars

\* Every request that began is answered: each path out of a handler gives the
\* row lock back, so no other handler waits for it forever.
EventuallyAnswered == \A r \in Req : pc[r] # "new" ~> pc[r] = "done"

=============================================================================
