-------------------------- MODULE MCBatchController --------------------------
(* Instances of BatchController for TLC: three requests, two changesets.   *)
EXTENDS BatchController, TLC

CONSTANTS g1, g2

MCGroups == {g1, g2}
MCReq    == 1..3

\* Every split of the payload into changesets, up to renaming them; the one
\* that is not contiguous is rejected by Validate.
MCGroupings ==
    { f \in [MCReq -> {g1, g2, NoGroup}] :
        \A i \in MCReq : f[i] = g2 => \E j \in 1..(i - 1) : f[j] = g1 }

NoDeps == [i \in MCReq |-> {}]
NoRef  == [i \in MCReq |-> 0]
NoUrl  == [i \in MCReq |-> FALSE]

\* At most one request reads, one of the first two.
MCWrites == { w \in [MCReq -> BOOLEAN] : w[3] /\ (w[1] \/ w[2]) }

\* Every success names an entity; everybody writes.
AllNamed  == [i \in MCReq |-> TRUE]
AllWrites == [i \in MCReq |-> TRUE]

\* Any dependsOn on earlier requests, and one on a later request.
MCDeps == { d \in [MCReq -> SUBSET MCReq] : \A i \in MCReq : \A k \in d[i] : k < i }
            \cup { [NoDeps EXCEPT ![1] = {2}] }

\* Any reference of a later request to an earlier one, or of the first request
\* to the second.
MCRefs == { r \in [MCReq -> 0..2] : r[1] \in {0, 2} /\ r[2] \in {0, 1} }
MCRefsToFirst == { r \in MCRefs : \E i \in MCReq : r[i] = 1 }

\* maxChangesetOperations and the transactions of single writes.
With(payloads, limit, transactions) ==
    { [changesetLimit |-> limit, transactions |-> transactions] @@ p : p \in payloads }

Chain == [i \in MCReq |-> IF i = 1 THEN {} ELSE {i - 1}]

\* A limit on the response meets dependencies that form a chain or are absent.
\* Content-ID references, which need no dependsOn, are explored apart from it,
\* and once more where the first request answers without naming an entity.
MCPayloads ==
    { [grp |-> g, deps |-> d, ref |-> NoRef, refUrl |-> NoUrl, write |-> w, entity |-> AllNamed, limit |-> 0] :
        g \in MCGroupings, d \in MCDeps, w \in MCWrites }
    \cup
    { [grp |-> g, deps |-> d, ref |-> NoRef, refUrl |-> NoUrl, write |-> w, entity |-> AllNamed, limit |-> 2] :
        g \in MCGroupings, d \in {NoDeps, Chain}, w \in MCWrites }
    \cup
    { [grp |-> g, deps |-> NoDeps, ref |-> r, refUrl |-> NoUrl, write |-> w, entity |-> AllNamed, limit |-> 0] :
        g \in MCGroupings, r \in MCRefs, w \in {AllWrites, [AllWrites EXCEPT ![1] = FALSE]} }
    \cup
    { [grp |-> g, deps |-> NoDeps, ref |-> r, refUrl |-> [i \in MCReq |-> TRUE],
       write |-> AllWrites, entity |-> AllNamed, limit |-> 0] :
        g \in MCGroupings, r \in MCRefs \ {NoRef} }
    \cup
    { [grp |-> g, deps |-> NoDeps, ref |-> r, refUrl |-> NoUrl, write |-> AllWrites,
       entity |-> [AllNamed EXCEPT ![1] = FALSE], limit |-> 0] :
        g \in MCGroupings, r \in MCRefsToFirst }

\* A smaller set for a datasource without transactions and changesets of two at
\* most: everybody writes, dependencies form a chain or are absent.
MCPlainPayloads ==
    { [grp |-> g, deps |-> d, ref |-> NoRef, refUrl |-> NoUrl, write |-> AllWrites, entity |-> AllNamed, limit |-> l] :
        g \in MCGroupings, d \in {NoDeps, Chain}, l \in {0, 2} }

MCBatches == With(MCPayloads, 0, TRUE) \cup With(MCPlainPayloads, 2, FALSE)
=============================================================================
