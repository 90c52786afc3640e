-------------------------- MODULE MCMultipartParser --------------------------
(* Instances of MultipartParser for TLC: payloads written from the requests *)
(* they consist of.                                                        *)
EXTENDS MultipartParser

MCBoundary == "b"
MCMultipart == {"mixed c", "mixed d", "mixed"}
MCMultipartBoundary(h) == CASE h = "mixed c" -> "c" [] h = "mixed d" -> "d" [] OTHER -> NoId
MCContentIds == {"id 1", "id 2"}
MCContentId(h) == IF h = "id 1" THEN <<"id", 1>> ELSE <<"id", 2>>
MCHeaders == MCMultipart \cup MCContentIds \cup {"http", "json", "text"}

Nl == <<Cr, Lf>>
Object == <<"{}">>
MCJsonBodies == {Object}

\* A request: its id or none, the end of its header lines, its own header lines
\* and its body.
Get(id)        == [id |-> id, eol |-> Nl, lines |-> <<>>, body |-> <<>>]
Post(id, body) == [id |-> id, eol |-> Nl, lines |-> <<"json">>, body |-> body]
Put(id, body)  == [id |-> id, eol |-> Nl, lines |-> <<"text">>, body |-> body]
Lean(r)        == [r EXCEPT !.eol = <<Lf>>]

Lines(words, eol) == FlattenSeq([k \in DOMAIN words |-> <<words[k]>> \o eol])
IdLine(id) == IF id = NoId THEN <<>> ELSE <<id>>

Part(r) == Lines(<<"http">> \o IdLine(r.id), r.eol) \o r.eol
             \o Lines(<<"get">> \o r.lines, r.eol) \o r.eol \o r.body

Enclosed(b, parts) ==
    FlattenSeq([k \in DOMAIN parts |-> Prefix(b) \o Nl \o parts[k] \o Nl]) \o Prefix(b) \o <<Dash, Dash>>

Alone(r) == [line |-> NoId, id |-> NoId, requests |-> <<r>>]
Changeset(line, id, rs) == [line |-> line, id |-> id, requests |-> rs]

Body(u) ==
    IF u.line = NoId THEN Part(u.requests[1])
    ELSE Lines(<<u.line>> \o IdLine(u.id), Nl) \o Nl
           \o Enclosed(MCMultipartBoundary(u.line),
                       [k \in DOMAIN u.requests |-> Part(u.requests[k])])

Text(units) == Enclosed(MCBoundary, [k \in DOMAIN units |-> Body(units[k])])

GroupOf(u) == IF u.line = NoId THEN NoChangeset
              ELSE IF u.id = NoId THEN MCMultipartBoundary(u.line) ELSE MCContentId(u.id)

Written(units) ==
    LET all == FlattenSeq([k \in DOMAIN units |->
                   [i \in DOMAIN units[k].requests |->
                       [r |-> units[k].requests[i], group |-> GroupOf(units[k])]]])
        Auto(k) == AutoId(Cardinality({i \in 1..k : all[i].r.id = NoId}))
    IN [k \in DOMAIN all |->
          [id |-> IF all[k].r.id = NoId THEN Auto(k) ELSE MCContentId(all[k].r.id),
           group |-> all[k].group, body |-> all[k].r.body]]

NoLimits == [payload |-> 0, part |-> 0, operations |-> 0, changeset |-> 0, depth |-> 0]

Case(s, units, limits, readable, chunks) ==
    [text |-> s, requests |-> Written(units), limits |-> limits,
     readable |-> readable, chunks |-> chunks]

One     == <<Alone(Get(NoId))>>
Two     == <<Alone(Post("id 1", Object)), Alone(Get(NoId))>>
Atomic  == <<Changeset("mixed c", NoId, <<Post(NoId, Object), Get("id 2")>>)>>
Mixed   == <<Alone(Get("id 2")), Changeset("mixed d", "id 1", <<Get(NoId)>>)>>
Binary  == <<Alone(Put(NoId, <<"x", Dash, Dash, Cr, Lf, Dash, Dash, "x", Cr>>))>>
LfOnly  == <<Alone(Lean(Post(NoId, Object))), Alone(Lean(Get("id 1")))>>
Bad     == <<Alone(Post(NoId, <<"x">>))>>
Empty   == <<Changeset("mixed c", NoId, <<>>)>>
Unnamed == <<Changeset("mixed", NoId, <<Get(NoId)>>)>>

Readable ==
    { Case(Text(One), One, NoLimits, TRUE, 5), Case(Nl \o Text(One) \o Nl, One, NoLimits, TRUE, 4),
      Case(Text(One) \o Nl \o <<"x">>, One, NoLimits, TRUE, 3), Case(Text(<<>>), <<>>, NoLimits, TRUE, 9) }
    \cup { Case(Text(u), u, NoLimits, TRUE, 3) : u \in {Two, Atomic, Mixed, Binary, LfOnly} }

Malformed ==
    { Case(<<"x">> \o Nl \o Text(One), One, NoLimits, FALSE, 3),
      Case(Front(Text(One)), One, NoLimits, FALSE, 4),
      Case(Front(Text(Atomic)), Atomic, NoLimits, FALSE, 3),
      Case(Prefix("b") \o Nl \o <<"http">>, <<>>, NoLimits, FALSE, 9),
      Case(Enclosed("b", << <<"text">> \o Nl \o Nl \o <<"get">> \o Nl \o Nl >>), <<>>, NoLimits, FALSE, 3),
      Case(Enclosed("b", << <<"http">> \o Nl \o Nl \o <<"x">> \o Nl \o Nl >>), <<>>, NoLimits, FALSE, 3),
      Case(Enclosed("b", << <<"http">> \o Nl \o Nl >>), <<>>, NoLimits, FALSE, 3) }
    \cup { Case(Text(u), u, NoLimits, FALSE, 3) : u \in {Bad, Empty, Unnamed} }

\* Limits, one of them exceeded by the smallest amount or just kept.
Bound(units, limits, readable) == Case(Text(units), units, limits, readable, 3)

AtLimits ==
    { Bound(Two, [NoLimits EXCEPT !.operations = 1], FALSE),
      Bound(Two, [NoLimits EXCEPT !.operations = 2, !.changeset = 1, !.depth = 1], TRUE),
      Bound(Atomic, [NoLimits EXCEPT !.changeset = 1], FALSE),
      Bound(Atomic, [NoLimits EXCEPT !.changeset = 2, !.depth = 2], TRUE),
      Bound(Atomic, [NoLimits EXCEPT !.depth = 1], FALSE),
      Bound(Binary, [NoLimits EXCEPT !.part = Len(Part(Binary[1].requests[1])) - 6], FALSE),
      Bound(Binary, [NoLimits EXCEPT !.part = Len(Part(Binary[1].requests[1])) - 5], TRUE),
      Bound(One, [NoLimits EXCEPT !.payload = Len(Text(One)) - 1], FALSE),
      Bound(One, [NoLimits EXCEPT !.payload = Len(Text(One))], TRUE) }

\* A payload of one request, for the cuts at its closing boundary.
MCSingle == {Case(Text(One), One, NoLimits, TRUE, 2)}

MCCases == Readable \cup Malformed \cup AtLimits

MCWord == UNION {ToSet(c.text) : c \in MCCases}
=============================================================================
