--------------------------- MODULE MultipartParser ---------------------------
(***************************************************************************)
(* parseMultipartBatch: a multipart $batch payload arrives in chunks cut   *)
(* anywhere, and is parsed as far as it goes after each of them.  A        *)
(* changeset is a part whose body a parser of its own reads at once: the   *)
(* parsers at work are a stack of frames, the payload's own one first.     *)
(*                                                                         *)
(* Abstractions: the bytes of the line breaks and of the dashes are bytes  *)
(* here too; a word no operation looks into (a boundary's name, a header   *)
(* line, a request line, a piece of a body) is one byte.  A request is its *)
(* id, its changeset and its body.                                         *)
(***************************************************************************)
EXTENDS BufferQueue, SequencesExt

CONSTANTS
    Boundary,              \* the boundary of the payload
    MultipartBoundary(_),  \* the boundary a header line "multipart/mixed" names
    ContentId(_),          \* the id a header line "Content-ID" gives
    Headers,               \* words that are header lines
    Multipart,             \* those of changesets
    ContentIds,            \* those that give ids
    Http, Json,            \* "application/http" and "application/json"
    RequestLine,           \* a word with a method and a URL
    JsonBodies,            \* bodies JSON.parse takes
    NoId,
    Word,                  \* bytes, and words that count as one
    Cases                  \* payloads, their limits and what they mean

ASSUME CasesAssumption ==
    \A c \in Cases : /\ c.text \in Seq(Word)
                     /\ c.limits \in [payload : Nat, part : Nat, operations : Nat,
                                     changeset : Nat, depth : Nat]

VARIABLES
    case,      \* the payload that is sent
    sent,      \* the chunks that have arrived: how many, and their bytes
    stage,     \* "waiting", "parsing", "done" or "refused"
    final,     \* finalPass: the stream has ended
    frames,    \* the parsers at work, the innermost last
    counts     \* what all parsers share: operations and ids made up

parserVars == <<case, sent, stage, final, frames, counts>>

text == case.text
Limited(limit, n) == limit > 0 /\ n > limit

-----------------------------------------------------------------------------
(* Texts that are not in a queue.                                          *)

Cr == "cr"
Lf == "lf"
Dash == "-"
Prefix(b)  == <<Dash, Dash, b>>
Marker(b)  == <<Cr, Lf>> \o Prefix(b)
Closing(b) == Marker(b) \o <<Dash, Dash>>

Occurs(needle, s, i) == i + Len(needle) <= Len(s) /\ SubSeq(s, i + 1, i + Len(needle)) = needle
Occurrences(needle, s) == {i \in 0..Len(s) : Occurs(needle, s, i)}
From(s, i) == SubSeq(s, i + 1, Len(s))
Upto(s, i) == SubSeq(s, 1, i)

NoBreak == [index |-> -1, length |-> 0]

findLineBreak(s) ==
    LET breaks == {i \in 0..(Len(s) - 1) : s[i + 1] = Lf}
        first  == Min(breaks)
    IN IF breaks = {} THEN NoBreak
       ELSE IF first > 0 /\ s[first] = Cr THEN [index |-> first - 1, length |-> 2]
       ELSE [index |-> first, length |-> 1]

\* CRLF CRLF is looked for first, wherever LF LF may stand.
findHeaderSeparator(s) ==
    LET crlf == Occurrences(<<Cr, Lf, Cr, Lf>>, s)
        lf   == Occurrences(<<Lf, Lf>>, s)
    IN IF crlf # {} THEN [index |-> Min(crlf), length |-> 4]
       ELSE IF lf # {} THEN [index |-> Min(lf), length |-> 2]
       ELSE NoBreak

stripLeadingEmptyLine(s) ==
    IF Occurs(<<Cr, Lf>>, s, 0) THEN From(s, 2)
    ELSE IF Occurs(<<Lf>>, s, 0) THEN From(s, 1)
    ELSE s

\* The header lines of a text; what is not a header line is passed over.
parseHeaders(s) == ToSet(s) \cap Headers

-----------------------------------------------------------------------------
(* A part.                                                                 *)

HasRequestLine(body) ==
    LET s == stripLeadingEmptyLine(body)
    IN findLineBreak(s) # NoBreak /\ RequestLine \in ToSet(Upto(s, findLineBreak(s).index))

\* The text behind the request line.
Rest(body) ==
    LET s == stripLeadingEmptyLine(body)
        b == findLineBreak(s)
    IN From(s, b.index + b.length)

HeadersEnd(rest) ==
    LET h == findHeaderSeparator(rest)
    IN IF h = NoBreak THEN [index |-> Len(rest), length |-> 0] ELSE h

RawBody(rest) == From(rest, HeadersEnd(rest).index + HeadersEnd(rest).length)

WellFormed(body) ==
    /\ HasRequestLine(body)
    /\ LET rest == Rest(body)
       IN Json \in parseHeaders(Upto(rest, HeadersEnd(rest).index)) /\ RawBody(rest) # <<>>
          => RawBody(rest) \in JsonBodies

\* The id given with a part, or the one made up for it.
IdOf(headers, default) ==
    IF headers \cap ContentIds = {} THEN default
    ELSE ContentId(CHOOSE h \in headers \cap ContentIds : TRUE)

AutoId(n) == <<"auto", n>>

parseHttpPart(headers, body, group) ==
    [id |-> IdOf(headers, AutoId(counts.auto + 1)), group |-> group,
     body |-> RawBody(Rest(body))]

-----------------------------------------------------------------------------
(* Parsers.                                                                *)

Parser(boundary, group, queue) ==
    [boundary |-> boundary, group |-> group, queue |-> queue, state |-> "start",
     headers |-> {}, ops |-> 0, requests |-> <<>>]

NoChangeset == "none"
Top  == frames[Len(frames)]
Root == frames[1]
FinalPass == final \/ Len(frames) > 1

Refuse == stage' = "refused" /\ UNCHANGED <<case, sent, final, frames, counts>>

\* The loop needs more bytes: it waits for a chunk, or there are none left.
Await(queue) ==
    IF FinalPass THEN Refuse
    ELSE /\ stage' = "waiting"
         /\ frames' = [frames EXCEPT ![Len(frames)].queue = queue]
         /\ UNCHANGED <<case, sent, final, counts>>

Skipping(queue, two) == IF StartsWith(queue, two, 0) THEN Consume(queue, 2) ELSE queue
AfterMarker(queue) == Skipping(queue, <<Cr, Lf>>)

ParserInit ==
    /\ case \in Cases
    /\ sent = [chunks |-> 0, bytes |-> 0, torn |-> FALSE]
    /\ stage = "waiting" /\ final = FALSE
    /\ frames = <<Parser(Boundary, NoChangeset, EmptyQueue)>>
    /\ counts = [operations |-> 0, auto |-> 0]

\* The stream is cut behind a boundary whose closing dashes are still to come.
Tears(n) ==
    \E i \in Occurrences(Prefix(Boundary) \o <<Dash, Dash>>, text) :
        n - i - Len(Prefix(Boundary)) \in {0, 1}

\* The next chunk, cut anywhere (into case.chunks at most, a bound of the
\* instance); once the closing boundary has been read, what comes behind it is
\* only kept.
Chunk ==
    /\ stage = "waiting"
    /\ \E n \in (sent.bytes + 1)..Len(text) :
         /\ n = Len(text) \/ sent.chunks + 1 < case.chunks
         /\ ~Limited(case.limits.payload, n)
         /\ sent' = [chunks |-> sent.chunks + 1, bytes |-> n, torn |-> sent.torn \/ Tears(n)]
         /\ frames' = [frames EXCEPT ![1].queue = Push(@, SubSeq(text, sent.bytes + 1, n))]
    /\ stage' = IF Root.state = "ended" THEN "waiting" ELSE "parsing"
    /\ UNCHANGED <<case, final, counts>>

\* enforcePayloadLimit reads ahead of the parser, so it may refuse early.
PayloadTooLarge ==
    /\ stage = "waiting"
    /\ Limited(case.limits.payload, Len(text))
    /\ Refuse

EndOfStream ==
    /\ stage = "waiting"
    /\ sent.bytes = Len(text)
    /\ stage' = IF Root.state = "ended" THEN "done" ELSE "parsing"
    /\ final' = TRUE
    /\ UNCHANGED <<case, sent, frames, counts>>

FirstBoundary(queue) ==
    LET b == Prefix(Top.boundary)
    IN IF StartsWith(queue, b, 0) THEN Len(b)
       ELSE IF StartsWith(queue, <<Cr, Lf>>, 0) /\ StartsWith(queue, b, 2) THEN Len(b) + 2
       ELSE 0

\* The first boundary may still come: the text so far does not exclude it.
MayBeginWithBoundary(queue) ==
    LET b == Prefix(Top.boundary)
    IN \/ queue.length < 2
       \/ StartsWith(queue, <<Cr, Lf>>, 0) /\ queue.length < 2 + Len(b)
       \/ queue.length < Len(b) /\ ByteAt(queue, 0) \in {Dash, Cr}

\* Deciding that reads the first byte or two.
Peeked(queue) ==
    IF queue.length < 2 THEN queue
    ELSE Remember(queue, IF StartsWith(queue, <<Cr, Lf>>, 0) THEN 1 ELSE 0)

Starting == stage = "parsing" /\ Top.state = "start"

FirstBoundaryFound ==
    /\ Starting
    /\ FirstBoundary(Top.queue) > 0
    /\ LET behind == Consume(Top.queue, FirstBoundary(Top.queue))
           empty  == StartsWith(behind, <<Dash, Dash>>, 0)
       IN frames' = [frames EXCEPT ![Len(frames)].state = IF empty THEN "ended" ELSE "headers",
                                   ![Len(frames)].queue = IF empty THEN Consume(behind, 2)
                                                          ELSE AfterMarker(behind)]
    /\ UNCHANGED <<case, sent, stage, final, counts>>

FirstBoundaryMissing ==
    /\ Starting
    /\ FirstBoundary(Top.queue) = 0
    /\ IF MayBeginWithBoundary(Top.queue) THEN Await(Peeked(Top.queue)) ELSE Refuse

FirstSeparator(queue) ==
    LET crlf == IndexOf(queue, <<Cr, Lf, Cr, Lf>>)
        lf   == IndexOf(queue, <<Lf, Lf>>)
    IN IF crlf = NotFound /\ lf = NotFound THEN NoBreak
       ELSE IF lf = NotFound \/ (crlf # NotFound /\ crlf <= lf) THEN [index |-> crlf, length |-> 4]
       ELSE [index |-> lf, length |-> 2]

HeadersRead ==
    /\ stage = "parsing" /\ Top.state = "headers"
    /\ LET h == FirstSeparator(Top.queue)
       IN IF h = NoBreak
          THEN Await(Searched(Searched(Top.queue, <<Cr, Lf, Cr, Lf>>), <<Lf, Lf>>))
          ELSE /\ frames' = [frames EXCEPT
                    ![Len(frames)].state   = "body",
                    ![Len(frames)].headers = parseHeaders(Slice(Top.queue, h.index)),
                    ![Len(frames)].queue   = Consume(@, h.index + h.length)]
               /\ UNCHANGED <<case, sent, stage, final, counts>>

\* The next boundary, the closing one where both begin at the same byte.
NextBoundary(queue) ==
    LET closing == IndexOf(queue, Closing(Top.boundary))
        marker  == IndexOf(queue, Marker(Top.boundary))
    IN IF closing # NotFound /\ closing <= marker
       THEN [index |-> closing, closing |-> TRUE]
       ELSE [index |-> marker, closing |-> FALSE]

NoHeadroom == 0   \* mutant
Headroom == Len(Closing(Top.boundary)) + 4

\* What has arrived of a body may exceed the limit of a part before its end does.
PartTooLong(queue) == Limited(case.limits.part, queue.length - Headroom)

BodyAwaited ==
    /\ stage = "parsing" /\ Top.state = "body"
    /\ NextBoundary(Top.queue).index = NotFound
    /\ IF PartTooLong(Top.queue) THEN Refuse
       ELSE Await(Searched(Searched(Top.queue, Closing(Top.boundary)), Marker(Top.boundary)))

\* The parser behind the boundary that ends a part.
Behind(parser, next) ==
    LET length == Len(IF next.closing THEN Closing(parser.boundary) ELSE Marker(parser.boundary))
    IN [parser EXCEPT !.queue   = AfterMarker(Consume(@, next.index + length)),
                      !.state   = IF next.closing THEN "ended" ELSE "headers",
                      !.headers = {}]

\* handlePart of a changeset: its body is complete and is parsed at once.
BeginChangeset(body, next) ==
    LET line     == CHOOSE h \in Top.headers \cap Multipart : TRUE
        boundary == MultipartBoundary(line)
    IN IF boundary = NoId \/ (case.limits.depth > 0 /\ Len(frames) >= case.limits.depth)
       THEN Refuse
       ELSE /\ frames' = Append([frames EXCEPT ![Len(frames)] = Behind(@, next)],
                               Parser(boundary, IdOf(Top.headers, boundary),
                                      Push(EmptyQueue, body)))
            /\ UNCHANGED <<case, sent, stage, final, counts>>

TooManyOperations ==
    \/ Limited(case.limits.operations, counts.operations + 1)
    \/ Top.group # NoChangeset /\ Limited(case.limits.changeset, Top.ops + 1)

\* handlePart of a request.
AddRequest(body, next) ==
    IF ~WellFormed(body) \/ TooManyOperations THEN Refuse
    ELSE /\ frames' = [frames EXCEPT ![Len(frames)] =
                [Behind(Top, next) EXCEPT
                    !.ops = @ + 1,
                    !.requests = Append(@, parseHttpPart(Top.headers, body, Top.group))]]
         /\ counts' = [operations |-> counts.operations + 1,
                       auto |-> counts.auto + IF Top.headers \cap ContentIds = {} THEN 1 ELSE 0]
         /\ UNCHANGED <<case, sent, stage, final>>

PartRead ==
    /\ stage = "parsing" /\ Top.state = "body"
    /\ \E next \in {NextBoundary(Top.queue)} :
        /\ next.index # NotFound
        /\ LET body == Slice(Top.queue, next.index)
           IN IF Limited(case.limits.part, Len(body)) THEN Refuse
              ELSE IF Top.headers \cap Multipart # {} THEN BeginChangeset(body, next)
              ELSE IF Http \in Top.headers THEN AddRequest(body, next)
              ELSE Refuse

\* The changeset has been read: its requests become the payload's.
ChangesetRead ==
    /\ stage = "parsing" /\ Top.state = "ended" /\ Len(frames) > 1
    /\ IF Top.requests = <<>> THEN Refuse
       ELSE /\ frames' = [Front(frames) EXCEPT ![Len(frames) - 1].requests = @ \o Top.requests]
            /\ UNCHANGED <<case, sent, stage, final, counts>>

\* The closing boundary of the payload has been read.
PayloadRead ==
    /\ stage = "parsing" /\ Top.state = "ended" /\ Len(frames) = 1
    /\ stage' = IF final THEN "done" ELSE "waiting"
    /\ UNCHANGED <<case, sent, final, frames, counts>>

ParserNext ==
    \/ Chunk \/ PayloadTooLarge \/ EndOfStream
    \/ FirstBoundaryFound \/ FirstBoundaryMissing
    \/ HeadersRead \/ BodyAwaited \/ PartRead
    \/ ChangesetRead \/ PayloadRead

ParserSpec == ParserInit /\ [][ParserNext]_parserVars /\ WF_parserVars(ParserNext)

-----------------------------------------------------------------------------

(* What the parser promises.                                               *)

\* A payload is read as it was written however the stream is cut: the same
\* requests with the same ids and changesets, or a refusal where something is
\* malformed or beyond a limit.  Left out: a cut between the payload's boundary
\* and its closing dashes, after which the parser reads on for another part
\* and refuses the payload.
CutsDoNotMatter ==
    /\ stage = "done" => case.readable /\ Root.requests = case.requests
    /\ stage = "refused" => ~case.readable \/ sent.torn

\* The queue holds, chunk by chunk, what has arrived and has not been consumed,
\* and every byte is found from the cached place as from the head: consume drops
\* the place and the chunks before the head without losing a byte.
QueueHoldsTheRest ==
    LET q == Root.queue
    IN \A pos \in 0..(q.length - 1) : ByteAt(q, pos) = text[sent.bytes - q.length + pos + 1]

\* multipart-batch.parser.spec.ts:274, "detects boundaries split across chunks":
\* a payload that is read in one piece is read in several.
BoundariesAreDetected == stage = "refused" => ~case.readable
=============================================================================
