----------------------------- MODULE BatchRequest -----------------------------
(***************************************************************************)
(* POST $batch as a whole: handleBatch from the bytes of its payload to    *)
(* its responses.  A payload in JSON is there at once; one in multipart    *)
(* arrives in chunks, MultipartParser reads it, and what it has read is    *)
(* executed as BatchController says, or the batch is refused.              *)
(*                                                                         *)
(* The changesets a client means are those of batch from the start; those  *)
(* that are executed are the ones that were read, so that a request read   *)
(* into another changeset would change the units of AtomicUnits.  Only     *)
(* payloads of N requests are executed here.                               *)
(***************************************************************************)
EXTENDS BatchController, MultipartParser

CONSTANTS
    GroupToken(_),  \* the group a name in a multipart payload is
    Multiparts      \* pairs: a case of the parser, and the payload it means

ASSUME MultipartsAssumption ==
    \A m \in Multiparts : m.case \in Cases /\ m.batch \in Batches

-----------------------------------------------------------------------------

NoCase    == [text |-> <<>>, requests |-> <<>>, readable |-> TRUE]
NoChunk   == [chunks |-> 0, bytes |-> 0, torn |-> FALSE]
NoParsers == <<Parser(Boundary, NoChangeset, EmptyQueue)>>
NoCounts  == [operations |-> 0, auto |-> 0]

\* No payload is being read.
ParserIdle == /\ case = NoCase /\ stage = "idle" /\ final = FALSE
              /\ sent = NoChunk /\ frames = NoParsers /\ counts = NoCounts

RequestInit ==
    \/ Init /\ ParserIdle
    \/ /\ Unstarted /\ phase = "parse" /\ ParserInit
       /\ [case |-> case, batch |-> batch] \in Multiparts

\* The groups of the requests that were read.
GroupsRead == [i \in Req |-> GroupToken(Root.requests[i].group)]

\* parseMultipartBatch has returned, and the payload is validated and executed.
Execute ==
    /\ phase = "parse" /\ stage = "done" /\ Len(Root.requests) = N
    /\ phase' = "validate"
    /\ batch' = [batch EXCEPT !.grp = GroupsRead]
    /\ case' = NoCase /\ stage' = "idle" /\ final' = FALSE
    /\ sent' = NoChunk /\ frames' = NoParsers
    /\ UNCHANGED <<counts, pos, cur, results, ids, store, handler>>

\* It has thrown, or there is no request in the payload.
RefusePayload ==
    /\ phase = "parse"
    /\ stage = "refused" \/ (stage = "done" /\ Root.requests = <<>>)
    /\ phase' = "rejected"
    /\ UNCHANGED <<batch, pos, cur, results, ids, store, handler, parserVars>>

RequestNext ==
    \/ phase = "parse" /\ ParserNext /\ UNCHANGED vars
    \/ Execute
    \/ RefusePayload
    \/ phase # "parse" /\ Next /\ UNCHANGED parserVars

\* Nothing is asked of the network: a payload may never arrive whole.
RequestSpec == /\ RequestInit /\ [][RequestNext]_<<vars, parserVars>>
               /\ WF_vars(Controller) /\ WF_vars(HandlerTimeout)
=============================================================================
