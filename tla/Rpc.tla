---------------------------------- MODULE Rpc ----------------------------------
(***************************************************************************)
(* The framing of the client protocol (src/core/network/rpc.cpp): messages *)
(* with a length in front, sent over a stream that delivers them in any    *)
(* pieces.  A byte is a unit that says what it is: the n-th part of the    *)
(* length or of the body of a message.  Left out: the counter, the method  *)
(* name's and the payload's own lengths, which are inside the body.        *)
(***************************************************************************)
EXTENDS Sequences, Naturals, SequencesExt

CONSTANT BodySize(_)    \* the number of units a message has behind its length

HeaderSize == 2         \* stands for the four bytes of m_length

LengthOf(m) == [n \in 1..HeaderSize |-> [part |-> "length", of |-> m, n |-> n]]
BodyOf(m) == [n \in 1..BodySize(m) |-> [part |-> "body", of |-> m, n |-> n]]

\* send: the size goes in front when the rest has been put together.
Frame(m) == LengthOf(m) \o BodyOf(m)

\* The socket, the members of RPC, and what messageReceived has been told.
NoBytes ==
    [unread |-> <<>>, length |-> <<>>, buffer |-> <<>>, received |-> <<>>,
     closed |-> FALSE, more |-> FALSE]

AtMost(n, bytes) == SubSeq(bytes, 1, IF n <= Len(bytes) THEN n ELSE Len(bytes))

\* QTcpSocket::read with a limit, into one of the members.
ReadInto(rpc, member, limit) ==
    LET got == AtMost(limit, rpc.unread)
    IN  [rpc EXCEPT ![member] = @ \o got,
                    !.unread = SubSeq(@, Len(got) + 1, Len(@))]

\* m_length.i, and whether decoding finds a message.
Announced(rpc) == BodySize(Head(rpc.length).of)
Malformed(rpc) == rpc.buffer # BodyOf(Head(rpc.length).of)

Stops(rpc) == [rpc EXCEPT !.more = FALSE]

\* Mutated form: the length of the message that is complete stays.
DeliverKeeping(rpc) ==
    [rpc EXCEPT !.received = Append(@, Head(rpc.length).of), !.buffer = <<>>,
                !.more = TRUE]

Deliver(rpc) ==
    [rpc EXCEPT !.received = Append(@, Head(rpc.length).of), !.buffer = <<>>,
                !.length = <<>>, !.more = TRUE]

\* An empty answer of the socket ends the call, and so does a part of a body.
ReadBody(rpc) ==
    LET read(r) == IF Len(r.buffer) # Announced(r) THEN Stops(r)
                   ELSE IF Malformed(r) THEN [Stops(r) EXCEPT !.closed = TRUE]
                   ELSE Deliver(r)
        missing == Announced(rpc) - Len(rpc.buffer)
    IN  IF missing = 0 \/ rpc.unread = <<>> THEN Stops(rpc)
        ELSE read(ReadInto(rpc, "buffer", missing))

ReadBytesIntern(rpc) ==
    LET head == ReadInto(rpc, "length", HeaderSize - Len(rpc.length))
    IN  IF Len(head.length) # HeaderSize THEN Stops(head) ELSE ReadBody(head)

\* readBytes: until there is no message left.
ReadBytes(rpc) ==
    LET after[i \in 0..Len(rpc.unread)] ==
            IF i = 0 THEN [rpc EXCEPT !.more = TRUE]
            ELSE LET step(r) == IF r.more THEN ReadBytesIntern(r) ELSE r
                 IN  step(after[i - 1])
    IN  after[Len(rpc.unread)]

\* readyRead: some more bytes of the stream are there.
Arrived(rpc, bytes) == ReadBytes([rpc EXCEPT !.unread = @ \o bytes, !.received = <<>>])
=============================================================================
