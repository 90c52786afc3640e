---------------------------- MODULE AtomicUnits ----------------------------
(***************************************************************************)
(* What a $batch promises about the data, without requests, transactions   *)
(* or handlers.  The writes of a payload fall into units: the changesets,  *)
(* and the writes that run on their own.  A unit becomes durable whole, at *)
(* most once, and only before its requests and the batch are answered; the *)
(* client is told that a unit succeeded only when it is durable.           *)
(*                                                                         *)
(* One exception is part of the promise: a write on its own whose answer   *)
(* was given up for it (a timeout, a response over a limit) is abandoned,  *)
(* not stopped, and may still become durable.                              *)
(***************************************************************************)
VARIABLES
    changesets,    \* sets of writes that share an atomicityGroup
    singles,       \* one-element sets: the writes on their own
    durable,       \* the committed writes
    answered,      \* the requests the client has an answer for
    acknowledged,  \* units whose every member was answered with a success
    abandoned,     \* singles nobody waits for any more that were not stopped
    open           \* the batch has not been answered

vars == <<changesets, singles, durable, answered, acknowledged, abandoned, open>>

Units == changesets \cup singles

Init ==
    /\ durable = {}
    /\ answered = {}
    /\ acknowledged = {}
    /\ abandoned = {}
    /\ open = TRUE

Apply(u) ==
    /\ u \cap durable = {}
    /\ (open /\ u \cap answered = {}) \/ u \in abandoned
    /\ durable' = durable \cup u
    /\ abandoned' \in {abandoned, abandoned \ {u}}
    /\ UNCHANGED <<answered, acknowledged, open>>

\* The unit stays in the hands of nobody: only an answer that is no success.
Abandon(i) == {i} \in singles /\ abandoned' = abandoned \cup {{i}}

Answer(i) ==
    /\ open
    /\ i \notin answered
    /\ answered' = answered \cup {i}
    /\ \/ \E u \in Units :
             /\ i \in u
             /\ u \subseteq durable
             /\ acknowledged' = acknowledged \cup {u}
             /\ UNCHANGED abandoned
       \/ UNCHANGED acknowledged /\ (Abandon(i) \/ UNCHANGED abandoned)
    /\ UNCHANGED <<durable, open>>

\* The end of the batch, for a request that is still running when the whole
\* batch is rejected also the end of the wait for it.
Close ==
    /\ open
    /\ open' = FALSE
    /\ (\E u \in singles : \E i \in u \ answered : Abandon(i)) \/ UNCHANGED abandoned
    /\ UNCHANGED <<durable, answered, acknowledged>>

\* The handler of an abandoned write has ended.
Stop(u) ==
    /\ u \in abandoned
    /\ abandoned' = abandoned \ {u}
    /\ UNCHANGED <<durable, answered, acknowledged, open>>

Next ==
    /\ UNCHANGED <<changesets, singles>>
    /\ \/ \E u \in Units : Apply(u) \/ Stop(u) \/ \E i \in u : Answer(i)
       \/ Close

Spec == Init /\ [][Next]_vars
=============================================================================
