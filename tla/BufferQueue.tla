----------------------------- MODULE BufferQueue -----------------------------
(***************************************************************************)
(* BufferQueue: the chunks of a stream that the multipart parser has not   *)
(* consumed yet, kept as they came.  A place is a chunk and an offset in   *)
(* it; the place of the byte read last is remembered with its position, so *)
(* that reading onwards does not start at the head again.                  *)
(*                                                                         *)
(* Chunks and offsets count as in the code but from one for chunks; a byte *)
(* that cannot be resolved (the code throws a RangeError) is NoByte.       *)
(***************************************************************************)
EXTENDS Integers, Sequences, FiniteSetsExt

CONSTANT CompactAfter    \* chunks that may lie before the head, 64 in the code

NoByte  == "no byte"
NoPlace == [chunk |-> 0, offset |-> 0]
Uncached == [pos |-> -1, place |-> NoPlace]

EmptyQueue == [buffers |-> <<>>, head |-> [chunk |-> 1, offset |-> 0],
               length |-> 0, cache |-> Uncached]

Push(q, chunk) ==
    IF chunk = <<>> THEN q
    ELSE [q EXCEPT !.buffers = Append(@, chunk), !.length = @ + Len(chunk)]

\* Where each chunk begins, counted from a place on, and where the last one ends.
ChunkStarts(buffers, from) ==
    LET start[k \in from.chunk..(Len(buffers) + 1)] ==
            IF k = from.chunk THEN 0 - from.offset ELSE start[k - 1] + Len(buffers[k - 1])
    IN start

\* The place n bytes after another one.
Walk(q, from, n) ==
    LET start  == ChunkStarts(q.buffers, from)
        Chunks == {k \in from.chunk..Len(q.buffers) : start[k] <= n /\ n < start[k + 1]}
    IN IF Chunks = {} THEN NoPlace
       ELSE LET k == CHOOSE k \in Chunks : TRUE IN [chunk |-> k, offset |-> n - start[k]]

At(q, place) ==
    IF place = NoPlace THEN NoByte ELSE q.buffers[place.chunk][place.offset + 1]

\* Where byteAt finds a position: from the cached place on, or from the head.
Resolve(q, pos) ==
    IF q.cache # Uncached /\ pos >= q.cache.pos
    THEN Walk(q, q.cache.place, pos - q.cache.pos)
    ELSE Walk(q, q.head, pos)

\* Positions count from zero, as in the code.
ByteAt(q, pos) == At(q, Resolve(q, pos))
Remember(q, pos) == [q EXCEPT !.cache = [pos |-> pos, place |-> Resolve(q, pos)]]

Slice(q, end) == [k \in 1..end |-> At(q, Walk(q, q.head, k - 1))]

Advanced(q, n) == [q EXCEPT !.length = @ - n, !.head = Walk(q, @, n)]

Compacted(q) ==
    IF q.head.chunk - 1 > CompactAfter /\ q.head.offset = 0
    THEN [q EXCEPT !.buffers = SubSeq(@, q.head.chunk, Len(@)), !.head.chunk = 1]
    ELSE q

ConsumeKeepingCache(q, n) ==   \* mutant
    IF n <= 0 THEN q
    ELSE IF n = q.length THEN EmptyQueue
    ELSE Compacted(Advanced(q, n))

Consume(q, n) ==
    IF n <= 0 THEN q
    ELSE IF n = q.length THEN EmptyQueue
    ELSE Compacted([Advanced(q, n) EXCEPT !.cache = Uncached])

\* All of it, byte by byte.
Bytes(q) == [k \in 1..q.length |-> ByteAt(q, k - 1)]

\* How many bytes of a text agree with those from a position on.
Agreeing(bytes, text, pos) ==
    LET Same(n) == \A k \in 1..n : bytes[pos + k] = text[k]
    IN Max({n \in 0..Len(text) : pos + n <= Len(bytes) /\ Same(n)})

StartsWith(q, prefix, offset) ==
    /\ Len(prefix) + offset <= q.length
    /\ \A k \in DOMAIN prefix : ByteAt(q, offset + k - 1) = prefix[k]

NotFound == -1

IndexOf(q, needle) ==
    LET bytes == Bytes(q)
        found == {i \in 0..(q.length - Len(needle)) :
                    \A k \in DOMAIN needle : bytes[i + k] = needle[k]}
    IN IF found = {} THEN NotFound ELSE Min(found)

\* A search remembers the byte it read last: the end of what it found, or where
\* the last candidate disagreed.
Searched(q, needle) ==
    LET i    == IndexOf(q, needle)
        last == q.length - Len(needle)
    IN IF last < 0 THEN q
       ELSE IF i # NotFound THEN Remember(q, i + Len(needle) - 1)
       ELSE Remember(q, last + Agreeing(Bytes(q), needle, last))
=============================================================================
