---------------------------------- MODULE Fcgi ---------------------------------
(***************************************************************************)
(* The records by which the web server hands on the requests of a browser  *)
(* (src/waveserver/fcgi/fcgiprotocol.cpp, fcgirequest.cpp, fcgi.h), over a *)
(* TCP connection that delivers them in any pieces and carries the records *)
(* of several requests.  A unit of the stream is a part of a header, or of *)
(* what is behind it.                                                      *)
(*                                                                         *)
(* Left out: the padding of records, the version and the role, which are   *)
(* the same in all of them, what the parameters are (nobody reads them),   *)
(* and ABORT_REQUEST and the answers, which module LongPoll has.           *)
(***************************************************************************)
EXTENDS Sequences, Naturals

CONSTANT BodySize(_)    \* the number of units of a request in JSON

HeaderSize == 2         \* stands for the eight bytes of Header

Header(type, id, size) ==
    [n \in 1..HeaderSize |-> [part |-> "header", type |-> type, id |-> id, size |-> size, n |-> n]]

BodyOf(m) == [n \in 1..BodySize(m) |-> [part |-> "body", of |-> m, n |-> n]]

Filling == <<[part |-> "filling"]>>     \* the role, or parameters

Record(type, id, content) == Header(type, id, Len(content)) \o content

\* What the web server makes of an HTTP request.
RecordsOf(id, m) ==
    Record("begin", id, Filling) \o Record("params", id, Filling) \o Record("params", id, <<>>)
        \o Record("stdin", id, BodyOf(m)) \o Record("stdin", id, <<>>)

\* m_inputBuffer, m_reqMap with the m_stdinStream of each request, the requests
\* that are complete, and whether processInput goes on.
NoRecords == [buffer |-> <<>>, requests |-> <<>>, received |-> <<>>, ok |-> TRUE]

IsOpen(f, id) == id \in DOMAIN f.requests

Failed(f) == [f EXCEPT !.ok = FALSE]

\* terminateRequest.
Terminated(f, id) ==
    [f EXCEPT !.requests = [i \in DOMAIN @ \ {id} |-> @[i]]]

BeginRequest(f, id) ==
    IF IsOpen(f, id) THEN Failed(f)
    ELSE [f EXCEPT !.requests =
             [i \in DOMAIN @ \cup {id} |-> IF i = id THEN <<>> ELSE @[i]]]

Params(f, id) == IF IsOpen(f, id) THEN f ELSE Failed(f)

\* FCGIRequest::process, up to what becomes of a request.  An error is answered,
\* which ends the request.
Process(f, id) ==
    LET stdin == f.requests[id]
    IN  IF stdin # <<>> /\ stdin = BodyOf(Head(stdin).of)
        THEN [f EXCEPT !.received = Append(@, Head(stdin).of)]
        ELSE Terminated(f, id)

Stdin(f, id, content) ==
    IF ~IsOpen(f, id) THEN Failed(f)
    ELSE IF content = <<>> THEN Process(f, id)
    ELSE [f EXCEPT !.requests[id] = @ \o content]

\* A record of another type is answered with UNKNOWN_TYPE.
Dispatched(f, header, content) ==
    CASE header.type = "begin" -> BeginRequest(f, header.id)
      [] header.type = "params" -> Params(f, header.id)
      [] header.type = "stdin" -> Stdin(f, header.id, content)
      [] OTHER -> f

IsWhole(buffer) ==
    Len(buffer) >= HeaderSize /\ Len(buffer) >= HeaderSize + Head(buffer).size

\* A record that fails takes the request it is of with it.
ProcessRecord(f) ==
    LET header == Head(f.buffer)
        end == HeaderSize + header.size
        done == Dispatched(f, header, SubSeq(f.buffer, HeaderSize + 1, end))
        kept == IF done.ok THEN done ELSE Terminated(done, header.id)
    IN  [kept EXCEPT !.buffer = SubSeq(@, end + 1, Len(@))]

\* processInput: until no whole record is left, or one fails.
ProcessInput(f) ==
    LET records == Len(f.buffer) \div HeaderSize    \* at most
        after[i \in 0..records] ==
            IF i = 0 THEN f
            ELSE LET step(g) == IF g.ok /\ IsWhole(g.buffer) THEN ProcessRecord(g) ELSE g
                 IN  step(after[i - 1])
    IN  after[records]

\* readBytes: some more of the stream is there.
Arrived(f, units) ==
    ProcessInput([f EXCEPT !.buffer = @ \o units, !.received = <<>>, !.ok = TRUE])

\* The same in two pieces.
ArrivedCut(f, units, cut) ==
    LET first == Arrived(f, SubSeq(units, 1, cut))
        second == Arrived(first, SubSeq(units, cut + 1, Len(units)))
    IN  IF cut = Len(units) THEN first
        ELSE [second EXCEPT !.received = first.received \o @, !.ok = @ /\ first.ok]
=============================================================================
