---------------------------- MODULE Sessions_proofs ----------------------------
(***************************************************************************)
(* Proofs about module Sessions.                                           *)
(***************************************************************************)
EXTENDS Sessions, SequenceLemmas

-----------------------------------------------------------------------------
(* The bytes of requests. *)

Requests == {OpenIndex} \cup {OpenWavelet(w) : w \in Wavelets}

Bytes == [part : {"length", "body"}, of : Requests, n : Nat]

\* A request becomes two units of length and one or two of body.
LEMMA FrameTyped ==
    ASSUME NEW m \in Requests
    PROVE  /\ RequestSize(m) \in {1, 2}
           /\ LengthOf(m) \in Seq(Bytes) /\ Len(LengthOf(m)) = 2
           /\ Head(LengthOf(m)).of = m
           /\ BodyOf(m) \in Seq(Bytes) /\ Len(BodyOf(m)) = RequestSize(m)
           /\ Frame(m) \in Seq(Bytes)
           /\ Frame(m) = LengthOf(m) \o BodyOf(m)
  <1>1. RequestSize(m) \in {1, 2}
    BY DEF RequestSize
  <1>2. LengthOf(m) \in Seq(Bytes) /\ Len(LengthOf(m)) = 2 /\ LengthOf(m)[1].of = m
    BY DEF LengthOf, Bytes, HeaderSize
  <1>3. Head(LengthOf(m)).of = m
    BY <1>2
  <1>4. BodyOf(m) \in Seq(Bytes) /\ Len(BodyOf(m)) = RequestSize(m)
    <2> DEFINE k == RequestSize(m)
    <2>1. BodyOf(m) = [n \in 1..k |-> [part |-> "body", of |-> m, n |-> n]]
      BY DEF BodyOf
    <2>2. k \in Nat
      BY <1>1
    <2> HIDE DEF k
    <2>3. \A n \in 1..k : [part |-> "body", of |-> m, n |-> n] \in Bytes
      BY <2>2 DEF Bytes
    <2>4. BodyOf(m) \in [1..k -> Bytes]
      BY <2>1, <2>3
    <2>5. BodyOf(m) \in Seq(Bytes)
      BY <2>2, <2>4, SeqDef
    <2>6. Len(BodyOf(m)) = k
      BY <2>2, <2>4, <2>5, LenProperties
    <2> QED
      BY <2>5, <2>6 DEF k
  <1>5. Frame(m) = LengthOf(m) \o BodyOf(m)
    BY DEF Frame
  <1>6. LengthOf(m) \o BodyOf(m) \in Seq(Bytes)
    BY <1>2, <1>4, ConcatProperties
  <1> QED
    BY <1>1, <1>2, <1>3, <1>4, <1>5, <1>6

\* The bytes of several requests, one behind the other.
Frames(q) == [i \in DOMAIN q |-> Frame(q[i])]
Stream(q) == FlattenSeq(Frames(q))

\* The framed requests are sequences of bytes.
LEMMA FramesTyped ==
    ASSUME NEW q \in Seq(Requests)
    PROVE  /\ Frames(q) \in Seq(Seq(Bytes)) /\ Len(Frames(q)) = Len(q)
           /\ \A i \in 1..Len(q) : Frames(q)[i] = Frame(q[i])
  <1>1. DOMAIN q = 1..Len(q) /\ Len(q) \in Nat /\ \A i \in 1..Len(q) : q[i] \in Requests
    OBVIOUS
  <1>2. \A i \in 1..Len(q) : Frame(q[i]) \in Seq(Bytes)
    BY <1>1, FrameTyped
  <1>3. Frames(q) = [i \in 1..Len(q) |-> Frame(q[i])]
    BY <1>1 DEF Frames
  <1>4. Frames(q) \in [1..Len(q) -> Seq(Bytes)]
    BY <1>2, <1>3
  <1>5. Frames(q) \in Seq(Seq(Bytes)) /\ Len(Frames(q)) = Len(q)
    <2> DEFINE S == Seq(Bytes)
               f == Frames(q)
    <2> HIDE DEF S, f
    <2>1. f \in Seq(S)
      BY <1>1, <1>4, SeqDef DEF S, f
    <2>2. Len(f) = Len(q)
      BY <1>1, <1>4, <2>1, LenProperties DEF S, f
    <2> QED
      BY <2>1, <2>2 DEF S, f
  <1> QED
    BY <1>3, <1>5

\* The bytes of some requests, one behind the other.
LEMMA StreamTyped ==
    ASSUME NEW q \in Seq(Requests)
    PROVE  Stream(q) \in Seq(Bytes)
  <1>1. Frames(q) \in Seq(Seq(Bytes))
    BY FramesTyped
  <1>2. <<>> \in Seq(Bytes)
    BY EmptySeq
  <1> QED
    BY <1>1, <1>2, FlattenAppend DEF Stream

\* No requests are no bytes.
LEMMA StreamEmpty == Stream(<<>>) = <<>>
  <1>1. <<>> \in Seq(Requests) /\ Len(<<>>) = 0
    BY EmptySeq
  <1>2. Frames(<<>>) \in Seq(Seq(Bytes)) /\ Len(Frames(<<>>)) = 0
    BY <1>1, FramesTyped
  <1>3. Frames(<<>>) = <<>>
    BY <1>2
  <1> QED
    BY <1>2, <1>3 DEF Stream, FlattenSeq

\* The first request's bytes come first.
LEMMA StreamHead ==
    ASSUME NEW q \in Seq(Requests), q # <<>>
    PROVE  /\ q[1] \in Requests /\ Tail(q) \in Seq(Requests)
           /\ q = <<q[1]>> \o Tail(q)
           /\ Stream(q) = Frame(q[1]) \o Stream(Tail(q))
  <1>1. /\ Tail(q) \in Seq(Requests) /\ Len(Tail(q)) = Len(q) - 1 /\ q[1] \in Requests
        /\ Len(q) \in Nat \ {0}
        /\ \A i \in 1..Len(Tail(q)) : Tail(q)[i] = q[i + 1]
    BY HeadTailProperties
  <1>2. /\ Frames(q) \in Seq(Seq(Bytes)) /\ Len(Frames(q)) = Len(q)
        /\ \A i \in 1..Len(q) : Frames(q)[i] = Frame(q[i])
    BY FramesTyped
  <1>3. /\ Frames(Tail(q)) \in Seq(Seq(Bytes)) /\ Len(Frames(Tail(q))) = Len(q) - 1
        /\ \A i \in 1..(Len(q) - 1) : Frames(Tail(q))[i] = Frame(q[i + 1])
    <2> DEFINE t == Tail(q)
    <2>1. t \in Seq(Requests) /\ Len(t) = Len(q) - 1 /\ \A i \in 1..Len(t) : t[i] = q[i + 1]
      BY <1>1
    <2> HIDE DEF t
    <2>2. /\ Frames(t) \in Seq(Seq(Bytes)) /\ Len(Frames(t)) = Len(t)
          /\ \A i \in 1..Len(t) : Frames(t)[i] = Frame(t[i])
      BY <2>1, FramesTyped
    <2>3. \A i \in 1..Len(t) : Frames(t)[i] = Frame(q[i + 1])
      BY <2>1, <2>2
    <2> QED
      BY <2>1, <2>2, <2>3 DEF t
  <1>4. Tail(Frames(q)) = Frames(Tail(q))
    <2> DEFINE a == Frames(q)
               b == Frames(Tail(q))
               S == Seq(Bytes)
    <2>1. a \in Seq(S) /\ a # <<>> /\ b \in Seq(S) /\ Len(b) = Len(a) - 1
      BY <1>1, <1>2, <1>3
    <2>2. \A i \in 1..Len(b) : b[i] = a[i + 1]
      <3>1. \A i \in 1..(Len(q) - 1) : i + 1 \in 1..Len(q)
        BY <1>1
      <3>2. Len(b) = Len(q) - 1
        BY <1>3
      <3>3. \A i \in 1..(Len(q) - 1) : b[i] = Frame(q[i + 1])
        BY <1>3
      <3>4. \A i \in 1..(Len(q) - 1) : a[i + 1] = Frame(q[i + 1])
        BY <1>2, <3>1
      <3> HIDE DEF a, b
      <3> QED
        BY <3>2, <3>3, <3>4
    <2> HIDE DEF a, b, S
    <2>3. /\ Tail(a) \in Seq(S) /\ Len(Tail(a)) = Len(a) - 1
          /\ \A i \in 1..Len(Tail(a)) : Tail(a)[i] = a[i + 1]
      BY <2>1, HeadTailProperties
    <2>4. Tail(a) = b
      <3> DEFINE t == Tail(a)
      <3>1. t \in Seq(S) /\ Len(t) = Len(b) /\ \A i \in 1..Len(t) : t[i] = b[i]
        BY <2>1, <2>2, <2>3
      <3> HIDE DEF t
      <3>2. t = b
        BY <2>1, <3>1, SeqEqual
      <3> QED
        BY <3>2 DEF t
    <2> QED
      BY <2>4 DEF a, b
  <1>5. Frames(q) # <<>> /\ Frames(q)[1] = Frame(q[1])
    BY <1>1, <1>2
  <1>6. FlattenSeq(Frames(q)) = Frames(q)[1] \o FlattenSeq(Tail(Frames(q)))
    BY <1>2, <1>5, FlattenHead
  <1>7. q = <<q[1]>> \o Tail(q)
    <2>1. SubSeq(q, 1, Len(q)) = <<q[1]>> \o SubSeq(q, 1 + 1, Len(q))
      BY <1>1, SubSeqRecursiveFirst
    <2>2. Tail(q) = SubSeq(q, 2, Len(q)) /\ SubSeq(q, 1, Len(q)) = q
      BY TailIsSubSeq, SubSeqFull
    <2> QED
      BY <2>1, <2>2
  <1> QED
    BY <1>1, <1>4, <1>5, <1>6, <1>7 DEF Stream

\* A request that is sent puts its bytes behind the others.
LEMMA StreamAppend ==
    ASSUME NEW q \in Seq(Requests), NEW m \in Requests
    PROVE  Stream(Append(q, m)) = Stream(q) \o Frame(m)
  <1> DEFINE t == Append(q, m)
  <1>1. /\ t \in Seq(Requests) /\ Len(t) = Len(q) + 1 /\ t[Len(q) + 1] = m
        /\ Len(q) \in Nat
        /\ \A i \in 1..Len(q) : t[i] = q[i]
    BY AppendProperties
  <1> HIDE DEF t
  <1>2. /\ Frames(q) \in Seq(Seq(Bytes)) /\ Len(Frames(q)) = Len(q)
        /\ \A i \in 1..Len(q) : Frames(q)[i] = Frame(q[i])
    BY FramesTyped
  <1>3. /\ Frames(t) \in Seq(Seq(Bytes)) /\ Len(Frames(t)) = Len(t)
        /\ \A i \in 1..Len(t) : Frames(t)[i] = Frame(t[i])
    BY <1>1, FramesTyped
  <1>4. Frame(m) \in Seq(Bytes)
    BY FrameTyped
  <1>5. Frames(t) = Append(Frames(q), Frame(m))
    <2> DEFINE a == Frames(q)
               b == Frames(t)
               e == Frame(m)
               S == Seq(Bytes)
    <2>1. /\ a \in Seq(S) /\ b \in Seq(S) /\ e \in S /\ Len(b) = Len(a) + 1
          /\ \A i \in 1..Len(a) : b[i] = a[i]
          /\ b[Len(a) + 1] = e /\ Len(a) \in Nat
      <3>1. \A i \in 1..Len(q) : i \in 1..Len(t)
        BY <1>1
      <3>2. Len(q) + 1 \in 1..Len(t)
        BY <1>1
      <3> QED
        BY <1>1, <1>2, <1>3, <1>4, <3>1, <3>2
    <2> HIDE DEF a, b, e, S
    <2> DEFINE c == Append(a, e)
    <2>2. /\ c \in Seq(S) /\ Len(c) = Len(a) + 1 /\ c[Len(a) + 1] = e
          /\ \A i \in 1..Len(a) : c[i] = a[i]
      BY <2>1, AppendProperties
    <2> HIDE DEF c
    <2>3. \A i \in 1..Len(b) : b[i] = c[i]
      BY <2>1, <2>2
    <2>4. b = c
      BY <2>1, <2>2, <2>3, SeqEqual
    <2> QED
      BY <2>4 DEF a, b, c, e
  <1> QED
    BY <1>2, <1>4, <1>5, FlattenAppend DEF Stream, t

-----------------------------------------------------------------------------
(* Reading them in pieces. *)

RpcStates ==
    [unread : Seq(Bytes), length : Seq(Bytes), buffer : Seq(Bytes),
     received : Seq(Requests), closed : BOOLEAN, more : BOOLEAN]

\* What has been read of the requests p and what has not: all their bytes, of
\* which the last ones, rest, have not come.  The member m_length is filled first,
\* and the buffer never holds a whole body.
Reads(r, p, rest) ==
    /\ r \in RpcStates /\ ~r.closed
    /\ Len(r.length) <= 2
    /\ Len(r.length) < 2 => r.buffer = <<>>
    /\ Len(r.length) = 2 => p # <<>> /\ Len(r.buffer) < RequestSize(p[1])
    /\ r.length \o (r.buffer \o (r.unread \o rest)) = Stream(p)

\* Some of the bytes that are there are moved into a member.
LEMMA AtMostTakes ==
    ASSUME NEW n \in Nat, NEW s \in Seq(Bytes)
    PROVE  /\ AtMost(n, s) \in Seq(Bytes)
           /\ Len(AtMost(n, s)) = IF n <= Len(s) THEN n ELSE Len(s)
           /\ SubSeq(s, Len(AtMost(n, s)) + 1, Len(s)) \in Seq(Bytes)
           /\ Len(SubSeq(s, Len(AtMost(n, s)) + 1, Len(s))) = Len(s) - Len(AtMost(n, s))
           /\ s = AtMost(n, s) \o SubSeq(s, Len(AtMost(n, s)) + 1, Len(s))
  <1> DEFINE k == IF n <= Len(s) THEN n ELSE Len(s)
             a == SubSeq(s, 1, k)
             b == SubSeq(s, k + 1, Len(s))
  <1>1. AtMost(n, s) = a
    BY DEF AtMost
  <1>2. k \in 0..Len(s) /\ Len(s) \in Nat
    OBVIOUS
  <1> HIDE DEF k
  <1>3. a \in Seq(Bytes) /\ Len(a) = k /\ b \in Seq(Bytes) /\ Len(b) = Len(s) - k
    BY <1>2
  <1>4. IsPrefix(a, s)
    BY <1>2, <1>3 DEF IsPrefix
  <1>5. s = a \o b
    <2> HIDE DEF a
    <2>1. s = a \o SubSeq(s, Len(a) + 1, Len(s))
      BY <1>3, <1>4, PrefixSplits
    <2> QED
      BY <1>3, <2>1
  <1> QED
    BY <1>1, <1>3, <1>5 DEF k

\* Moving bytes keeps the stream.
Moves(a, b, u, v) == \A rest \in Seq(Bytes) : a \o (u \o rest) = b \o (v \o rest)

\* What a read moves from the stream is what the stream loses.
LEMMA MovesBytes ==
    ASSUME NEW a \in Seq(Bytes), NEW got \in Seq(Bytes), NEW left \in Seq(Bytes)
    PROVE  a \o got \in Seq(Bytes) /\ Moves(a, a \o got, got \o left, left)
  <1>1. a \o got \in Seq(Bytes)
    BY ConcatProperties
  <1>2. ASSUME NEW rest \in Seq(Bytes)
        PROVE  a \o ((got \o left) \o rest) = (a \o got) \o (left \o rest)
    <2>1. left \o rest \in Seq(Bytes)
      BY ConcatProperties
    <2>2. (got \o left) \o rest = got \o (left \o rest)
      BY ConcatAssociative
    <2>3. a \o (got \o (left \o rest)) = (a \o got) \o (left \o rest)
      <3> DEFINE x == left \o rest
      <3> HIDE DEF x
      <3>1. x \in Seq(Bytes)
        BY <2>1 DEF x
      <3>2. Associate(a, got, x)
        BY <3>1, Associates
      <3> QED
        BY <3>2 DEF x, Associate
    <2> QED
      BY <2>2, <2>3
  <1> QED
    BY <1>1, <1>2 DEF Moves

\* Reading into the member that holds the length.
LEMMA ReadIntoLength ==
    ASSUME NEW r \in RpcStates, NEW n \in Nat
    PROVE  LET t == ReadInto(r, "length", n)
               got == AtMost(n, r.unread)
           IN  /\ t \in RpcStates /\ t.length = r.length \o got
               /\ r.unread = got \o t.unread
               /\ t.buffer = r.buffer /\ t.received = r.received
               /\ t.closed = r.closed /\ t.more = r.more
  <1> DEFINE got == AtMost(n, r.unread)
             left == SubSeq(r.unread, Len(got) + 1, Len(r.unread))
             t == ReadInto(r, "length", n)
  <1>1. r.unread \in Seq(Bytes) /\ r.length \in Seq(Bytes)
    BY DEF RpcStates
  <1>2. got \in Seq(Bytes) /\ left \in Seq(Bytes) /\ r.unread = got \o left
    BY <1>1, AtMostTakes
  <1>3. r.length \o got \in Seq(Bytes)
    BY <1>1, <1>2, ConcatProperties
  <1>4. t = [r EXCEPT !.length = r.length \o got, !.unread = left]
    BY DEF ReadInto, RpcStates
  <1> HIDE DEF got, left, t
  <1>5. t \in RpcStates
    BY <1>2, <1>3, <1>4 DEF RpcStates
  <1>6. /\ t.length = r.length \o got /\ t.unread = left
        /\ t.buffer = r.buffer /\ t.received = r.received
        /\ t.closed = r.closed /\ t.more = r.more
    BY <1>4 DEF RpcStates
  <1> QED
    BY <1>2, <1>5, <1>6 DEF got, t

\* Reading into the member that holds the body.
LEMMA ReadIntoBuffer ==
    ASSUME NEW r \in RpcStates, NEW n \in Nat
    PROVE  LET t == ReadInto(r, "buffer", n)
               got == AtMost(n, r.unread)
           IN  /\ t \in RpcStates /\ t.buffer = r.buffer \o got
               /\ r.unread = got \o t.unread
               /\ t.length = r.length /\ t.received = r.received
               /\ t.closed = r.closed /\ t.more = r.more
  <1> DEFINE got == AtMost(n, r.unread)
             left == SubSeq(r.unread, Len(got) + 1, Len(r.unread))
             t == ReadInto(r, "buffer", n)
  <1>1. r.unread \in Seq(Bytes) /\ r.buffer \in Seq(Bytes)
    BY DEF RpcStates
  <1>2. got \in Seq(Bytes) /\ left \in Seq(Bytes) /\ r.unread = got \o left
    BY <1>1, AtMostTakes
  <1>3. r.buffer \o got \in Seq(Bytes)
    BY <1>1, <1>2, ConcatProperties
  <1>4. t = [r EXCEPT !.buffer = r.buffer \o got, !.unread = left]
    BY DEF ReadInto, RpcStates
  <1> HIDE DEF got, left, t
  <1>5. t \in RpcStates
    BY <1>2, <1>3, <1>4 DEF RpcStates
  <1>6. /\ t.buffer = r.buffer \o got /\ t.unread = left
        /\ t.length = r.length /\ t.received = r.received
        /\ t.closed = r.closed /\ t.more = r.more
    BY <1>4 DEF RpcStates
  <1> QED
    BY <1>2, <1>5, <1>6 DEF got, t

\* The call ends with the bytes: nothing is left in the socket.
Rests(r, t, p, rest) ==
    /\ ~t.more /\ t.unread = <<>> /\ t.received = r.received
    /\ Reads(t, p, rest)

\* A request is complete, and some bytes have been used up.
Delivers(r, t, p, rest) ==
    /\ p # <<>> /\ t.more /\ t.received = Append(r.received, p[1])
    /\ Reads(t, Tail(p), rest) /\ Len(t.unread) < Len(r.unread)

\* Where reading stops for want of bytes, what is missing is still to come.
LEMMA StopsRests ==
    ASSUME NEW r, NEW t, NEW p, NEW rest, Reads(t, p, rest), t.unread = <<>>,
           t.received = r.received
    PROVE  Rests(r, Stops(t), p, rest)
  <1> DEFINE z == Stops(t)
  <1>1. t \in RpcStates
    BY DEF Reads
  <1>2. /\ z \in RpcStates /\ z.unread = t.unread /\ z.length = t.length
        /\ z.buffer = t.buffer /\ z.received = t.received /\ z.closed = t.closed
        /\ z.more = FALSE
    BY <1>1 DEF Stops, RpcStates
  <1> HIDE DEF z
  <1>3. Reads(z, p, rest)
    BY <1>2 DEF Reads
  <1>4. Rests(r, z, p, rest)
    BY <1>2, <1>3 DEF Rests
  <1> QED
    BY <1>4 DEF z

\* What Reads says of the members.
LEMMA ReadsTyped ==
    ASSUME NEW r, NEW p, NEW rest, Reads(r, p, rest)
    PROVE  /\ r \in RpcStates /\ r.unread \in Seq(Bytes) /\ r.length \in Seq(Bytes)
           /\ r.buffer \in Seq(Bytes) /\ r.received \in Seq(Requests)
           /\ Len(r.length) \in 0..2 /\ Len(r.buffer) \in Nat /\ Len(r.unread) \in Nat
  <1>1. r \in RpcStates
    BY DEF Reads
  <1>2. /\ r.unread \in Seq(Bytes) /\ r.length \in Seq(Bytes)
        /\ r.buffer \in Seq(Bytes) /\ r.received \in Seq(Requests)
    BY <1>1 DEF RpcStates
  <1>3. Len(r.length) \in Nat /\ Len(r.buffer) \in Nat /\ Len(r.unread) \in Nat
    BY <1>2, LenProperties
  <1>4. Len(r.length) <= 2
    BY DEF Reads
  <1>5. Len(r.length) \in 0..2
    <2> DEFINE k == Len(r.length)
    <2>1. k \in Nat /\ k <= 2
      BY <1>3, <1>4
    <2> HIDE DEF k
    <2>2. k \in 0..2
      BY <2>1
    <2> QED
      BY <2>2 DEF k
  <1> QED
    BY <1>1, <1>2, <1>3, <1>5

\* The length of the next request.
LEMMA ReadLength ==
    ASSUME NEW r, NEW p \in Seq(Requests), NEW rest \in Seq(Bytes), Reads(r, p, rest)
    PROVE  LET t == ReadInto(r, "length", HeaderSize - Len(r.length))
           IN  /\ Reads(t, p, rest) /\ t.received = r.received
               /\ Len(t.unread) <= Len(r.unread)
               /\ Len(t.length) # 2 => t.unread = <<>>
  <1> DEFINE len == r.length
             old == r.unread
             a == Len(len)
             u == Len(old)
             n == 2 - a
             got == AtMost(n, old)
             g == Len(got)
             t == ReadInto(r, "length", HeaderSize - Len(r.length))
             x == t.unread
             v == Len(x)
  <1>1. /\ r \in RpcStates /\ old \in Seq(Bytes) /\ len \in Seq(Bytes)
        /\ r.buffer \in Seq(Bytes) /\ a \in 0..2 /\ u \in Nat
    BY ReadsTyped
  <1>2. t = ReadInto(r, "length", n)
    BY DEF HeaderSize
  <1> HIDE DEF a, u, len, old
  <1>3. n \in Nat
    BY <1>1
  <1> HIDE DEF n, t
  <1>4. /\ t \in RpcStates /\ t.length = len \o got
        /\ old = got \o x
        /\ t.buffer = r.buffer /\ t.received = r.received
        /\ t.closed = r.closed
    BY <1>1, <1>2, <1>3, ReadIntoLength DEF len, old
  <1>5. got \in Seq(Bytes) /\ g = IF n <= u THEN n ELSE u
    BY <1>1, <1>3, AtMostTakes DEF u
  <1> HIDE DEF got, x
  <1>6. x \in Seq(Bytes) /\ v \in Nat
    <2>1. x \in Seq(Bytes)
      BY <1>4 DEF RpcStates, x
    <2> QED
      BY <2>1, LenProperties
  <1>7. g \in Nat /\ u = g + v
    BY <1>4, <1>5, <1>6, ConcatProperties DEF u
  <1>8. Len(t.length) = a + g
    BY <1>1, <1>4, <1>5, ConcatProperties DEF a
  <1> HIDE DEF g, v
  <1>9. /\ a + g <= 2
        /\ a + g # 2 => v = 0
        /\ v <= u
        /\ a = 2 => g = 0
        /\ a + g < 2 => a < 2
        /\ a < 2 \/ a = 2
    BY <1>1, <1>3, <1>5, <1>6, <1>7 DEF n
  <1>10. Len(t.length) # 2 => x = <<>>
    <2>1. v = 0 => x = <<>>
      BY <1>6 DEF v
    <2> QED
      BY <1>8, <1>9, <2>1
  <1>11. /\ ~r.closed
         /\ a < 2 => r.buffer = <<>>
         /\ a = 2 => p # <<>> /\ Len(r.buffer) < RequestSize(p[1])
         /\ len \o (r.buffer \o (old \o rest)) = Stream(p)
    BY DEF Reads, len, old, a
  <1>12. t.length \o (t.buffer \o (x \o rest)) = Stream(p)
    <2>1. r.buffer = <<>> \/ got = <<>>
      <3>1. g = 0 => got = <<>>
        BY <1>5 DEF g
      <3> QED
        BY <1>9, <1>11, <3>1
    <2>2. x \o rest \in Seq(Bytes) /\ old \o rest \in Seq(Bytes)
      BY <1>1, <1>6, ConcatProperties
    <2>3. CASE r.buffer = <<>>
      <3>1. r.buffer \o (old \o rest) = old \o rest /\ r.buffer \o (x \o rest) = x \o rest
        BY <2>2, <2>3, ConcatEmptySeq
      <3>2. Moves(len, len \o got, got \o x, x)
        BY <1>1, <1>5, <1>6, MovesBytes
      <3>3. len \o (old \o rest) = (len \o got) \o (x \o rest)
        BY <1>4, <3>2 DEF Moves
      <3> QED
        BY <1>4, <1>11, <3>1, <3>3
    <2>4. CASE got = <<>>
      <3>1. t.length = len /\ old = x
        BY <1>1, <1>4, <1>6, <2>4, ConcatEmptySeq
      <3> QED
        BY <1>4, <1>11, <3>1
    <2> QED
      BY <2>1, <2>3, <2>4
  <1>13. a + g = 2 => p # <<>> /\ Len(t.buffer) < RequestSize(p[1])
    <2> SUFFICES ASSUME a + g = 2
                 PROVE  p # <<>> /\ Len(t.buffer) < RequestSize(p[1])
      OBVIOUS
    <2>1. CASE a = 2
      BY <1>4, <1>11, <2>1
    <2>2. CASE a < 2
      <3>1. t.buffer = <<>>
        BY <1>4, <1>11, <2>2
      <3>2. p # <<>>
        <4>1. SUFFICES ASSUME p = <<>>
                       PROVE  FALSE
          OBVIOUS
        <4> DEFINE y == t.buffer \o (x \o rest)
                   z == t.length
        <4>2. y \in Seq(Bytes) /\ z \in Seq(Bytes)
          <5>1. t.buffer \in Seq(Bytes) /\ z \in Seq(Bytes)
            BY <1>4 DEF RpcStates
          <5>2. x \o rest \in Seq(Bytes)
            BY <1>6, ConcatProperties
          <5> QED
            BY <5>1, <5>2, ConcatProperties
        <4>3. z \o y = <<>> /\ Len(z) = 2
          BY <1>8, <1>12, <4>1, StreamEmpty
        <4> HIDE DEF y, z
        <4>4. Len(z \o y) = Len(z) + Len(y) /\ Len(y) \in Nat
          BY <4>2, ConcatProperties
        <4> QED
          BY <4>3, <4>4
      <3>3. RequestSize(p[1]) \in {1, 2}
        <4>1. p[1] \in Requests
          BY <3>2
        <4> QED
          BY <4>1, FrameTyped
      <3>4. Len(t.buffer) = 0
        BY <3>1
      <3> HIDE DEF t
      <3> QED
        BY <3>2, <3>3, <3>4
    <2> QED
      BY <1>9, <2>1, <2>2
  <1>14. Reads(t, p, rest)
    <2>1. ~t.closed /\ (Len(t.length) < 2 => t.buffer = <<>>)
      BY <1>4, <1>8, <1>9, <1>11
    <2> QED
      BY <1>4, <1>8, <1>9, <1>12, <1>13, <2>1 DEF Reads, x
  <1> QED
    BY <1>4, <1>9, <1>10, <1>14 DEF t, x, v, u, old

\* The body of the next request, whose length has come.
LEMMA ReadBodyReads ==
    ASSUME NEW r, NEW p \in Seq(Requests), NEW rest \in Seq(Bytes), Reads(r, p, rest),
           Len(r.length) = 2
    PROVE  \/ Rests(r, ReadBody(r), p, rest)
           \/ Delivers(r, ReadBody(r), p, rest)
  <1> DEFINE m == p[1]
             q == Tail(p)
             size == RequestSize(m)
             old == r.unread
             u == Len(old)
             b == Len(r.buffer)
             missing == size - b
             got == AtMost(missing, old)
             g == Len(got)
             t == ReadInto(r, "buffer", missing)
             x == t.unread
             v == Len(x)
             body == t.buffer
  <1>1. /\ r \in RpcStates /\ old \in Seq(Bytes) /\ r.length \in Seq(Bytes)
        /\ r.buffer \in Seq(Bytes) /\ r.received \in Seq(Requests)
        /\ b \in Nat /\ u \in Nat
    BY ReadsTyped
  <1>2. /\ p # <<>> /\ b < size /\ ~r.closed
        /\ r.length \o (r.buffer \o (old \o rest)) = Stream(p)
    BY DEF Reads
  <1>3. /\ m \in Requests /\ q \in Seq(Requests) /\ Stream(p) = Frame(m) \o Stream(q)
    BY <1>2, StreamHead
  <1>4. /\ size \in {1, 2}
        /\ LengthOf(m) \in Seq(Bytes) /\ Len(LengthOf(m)) = 2 /\ Head(LengthOf(m)).of = m
        /\ BodyOf(m) \in Seq(Bytes) /\ Len(BodyOf(m)) = size
        /\ Frame(m) = LengthOf(m) \o BodyOf(m)
    BY <1>3, FrameTyped
  <1>5. Stream(q) \in Seq(Bytes)
    BY <1>3, StreamTyped
  <1>6. /\ r.length = LengthOf(m)
        /\ r.buffer \o (old \o rest) = BodyOf(m) \o Stream(q)
    <2> DEFINE y == r.buffer \o (old \o rest)
               z == BodyOf(m) \o Stream(q)
    <2>1. y \in Seq(Bytes) /\ z \in Seq(Bytes)
      <3>1. old \o rest \in Seq(Bytes)
        BY <1>1, ConcatProperties
      <3> QED
        BY <1>1, <1>4, <1>5, <3>1, ConcatProperties
    <2>2. Stream(p) = LengthOf(m) \o z
      <3>1. Associate(LengthOf(m), BodyOf(m), Stream(q))
        BY <1>4, <1>5, Associates
      <3> QED
        BY <1>3, <1>4, <3>1 DEF Associate
    <2>3. r.length \o y = LengthOf(m) \o z
      BY <1>2, <2>2
    <2> HIDE DEF y, z
    <2>4. r.length = LengthOf(m) /\ y = z
      BY <1>1, <1>4, <2>1, <2>3, ConcatCancels, ZenonT(60)
    <2> QED
      BY <2>4 DEF y, z
  <1>7. Announced(r) = size /\ missing \in Nat /\ missing # 0
    <2>1. Announced(r) = size
      BY <1>4, <1>6 DEF Announced
    <2> HIDE DEF size, b
    <2> QED
      BY <1>1, <1>2, <1>4, <2>1
  <1>8. CASE old = <<>>
    <2>1. ReadBody(r) = Stops(r)
      BY <1>7, <1>8 DEF ReadBody
    <2> QED
      BY <1>8, <2>1, StopsRests
  <1>9. CASE old # <<>>
    <2>1. ReadBody(r) = IF Len(t.buffer) # Announced(t) THEN Stops(t)
                        ELSE IF Malformed(t) THEN [Stops(t) EXCEPT !.closed = TRUE]
                        ELSE Deliver(t)
      BY <1>7, <1>9 DEF ReadBody
    <2> HIDE DEF t
    <2>2. /\ t \in RpcStates /\ body = r.buffer \o got
          /\ old = got \o x
          /\ t.length = r.length /\ t.received = r.received
          /\ t.closed = r.closed /\ t.more = r.more
      <3> HIDE DEF missing
      <3> QED
        BY <1>1, <1>7, ReadIntoBuffer DEF t
    <2>3. got \in Seq(Bytes) /\ g = IF missing <= u THEN missing ELSE u
      <3> HIDE DEF missing, old
      <3> QED
        BY <1>1, <1>7, AtMostTakes
    <2> HIDE DEF got, x, old, body
    <2>4. x \in Seq(Bytes) /\ v \in Nat /\ body \in Seq(Bytes)
      <3>1. x \in Seq(Bytes) /\ body \in Seq(Bytes)
        BY <2>2 DEF RpcStates, x, body
      <3> QED
        BY <3>1, LenProperties
    <2>5. g \in Nat /\ u = g + v /\ Len(body) = b + g
      <3> DEFINE c == r.buffer
      <3>1. /\ old \in Seq(Bytes) /\ c \in Seq(Bytes) /\ got \in Seq(Bytes)
            /\ x \in Seq(Bytes) /\ old = got \o x /\ body = c \o got
        BY <1>1, <2>2, <2>3, <2>4
      <3>2. Len(got) \in Nat
        BY <3>1, LenProperties
      <3> HIDE DEF c
      <3>3. Len(old) = Len(got) + Len(x) /\ Len(body) = Len(c) + Len(got)
        BY <3>1, ConcatProperties
      <3> QED
        BY <3>2, <3>3 DEF c
    <2>6. Announced(t) = size
      BY <1>4, <1>6, <2>2 DEF Announced
    <2>7. u # 0
      BY <1>1, <1>9
    <2> HIDE DEF u, v, g, b, size
    <2>8. /\ b + g <= size
          /\ b + g # size => v = 0 /\ b + g < size
          /\ v < u
      BY <1>1, <1>2, <1>4, <1>7, <2>3, <2>4, <2>5, <2>7
    <2>9. body \o (x \o rest) = BodyOf(m) \o Stream(q)
      <3>1. Moves(r.buffer, r.buffer \o got, got \o x, x)
        BY <1>1, <2>3, <2>4, MovesBytes
      <3>2. r.buffer \o (old \o rest) = (r.buffer \o got) \o (x \o rest)
        BY <2>2, <3>1 DEF Moves
      <3> QED
        BY <1>6, <2>2, <3>2
    <2>10. CASE Len(body) # size
      <3>1. ReadBody(r) = Stops(t)
        BY <2>1, <2>6, <2>10 DEF body
      <3>2. x = <<>>
        <4>1. v = 0 => x = <<>>
          BY <2>4 DEF v
        <4> QED
          BY <2>5, <2>8, <2>10, <4>1
      <3>3. Reads(t, p, rest)
        <4>1. t.length \o (body \o (x \o rest)) = Stream(p)
          <5>1. t.length \o (body \o (x \o rest)) = r.length \o (r.buffer \o (old \o rest))
            BY <1>6, <2>2, <2>9
          <5> QED
            BY <1>2, <5>1
        <4>2. Len(t.length) = 2 /\ Len(body) < RequestSize(p[1])
          BY <2>2, <2>5, <2>8, <2>10 DEF size
        <4>3. Len(t.length) <= 2 /\ ~(Len(t.length) < 2)
          BY <4>2
        <4>4. ~t.closed /\ t \in RpcStates /\ p # <<>>
          BY <1>2, <2>2
        <4> QED
          BY <4>1, <4>2, <4>3, <4>4 DEF Reads, x, body
      <3> QED
        BY <2>2, <3>1, <3>2, <3>3, StopsRests DEF x
    <2>11. CASE Len(body) = size
      <3>1. x \o rest \in Seq(Bytes)
        BY <2>4, ConcatProperties
      <3>2. body = BodyOf(m) /\ x \o rest = Stream(q)
        <4> DEFINE c == BodyOf(m)
                   d == Stream(q)
                   y == x \o rest
        <4>1. /\ body \in Seq(Bytes) /\ y \in Seq(Bytes) /\ c \in Seq(Bytes)
              /\ d \in Seq(Bytes) /\ body \o y = c \o d /\ Len(body) = Len(c)
          BY <1>4, <1>5, <2>4, <2>9, <2>11, <3>1
        <4> HIDE DEF c, d, y
        <4>2. body = c /\ y = d
          BY <4>1, ConcatCancels
        <4> QED
          BY <4>2 DEF c, d, y
      <3>3. Head(t.length).of = m
        BY <1>4, <1>6, <2>2
      <3>4. ~Malformed(t)
        BY <3>2, <3>3 DEF Malformed, body
      <3>5. ReadBody(r) = Deliver(t)
        BY <2>1, <2>6, <2>11, <3>4 DEF body
      <3> DEFINE d == Deliver(t)
      <3>6. d = [t EXCEPT !.received = Append(t.received, m), !.buffer = <<>>,
                          !.length = <<>>, !.more = TRUE]
        BY <2>2, <3>3 DEF Deliver, RpcStates
      <3> HIDE DEF d
      <3>7. Append(t.received, m) \in Seq(Requests) /\ <<>> \in Seq(Bytes)
        BY <1>1, <1>3, <2>2, EmptySeq
      <3>8. /\ d \in RpcStates /\ d.received = Append(r.received, m)
            /\ d.buffer = <<>> /\ d.length = <<>> /\ d.unread = x
            /\ d.closed = t.closed /\ d.more = TRUE
        BY <2>2, <3>6, <3>7 DEF RpcStates, x
      <3>9. Reads(d, q, rest)
        <4>1. d.length \o (d.buffer \o (d.unread \o rest)) = Stream(q)
          BY <3>1, <3>2, <3>8, ConcatEmptySeq
        <4>2. Len(d.length) = 0
          BY <3>8
        <4> QED
          BY <1>2, <2>2, <3>8, <4>1, <4>2 DEF Reads
      <3>10. Delivers(r, d, p, rest)
        BY <1>2, <2>8, <3>8, <3>9 DEF Delivers, u, v, old
      <3> QED
        BY <3>5, <3>10 DEF d
    <2> QED
      BY <2>10, <2>11
  <1> QED
    BY <1>8, <1>9

\* One pass of readBytesIntern: the length, then the body.
LEMMA ReadBytesInternReads ==
    ASSUME NEW r, NEW p \in Seq(Requests), NEW rest \in Seq(Bytes), Reads(r, p, rest)
    PROVE  \/ Rests(r, ReadBytesIntern(r), p, rest)
           \/ Delivers(r, ReadBytesIntern(r), p, rest)
  <1> DEFINE t == ReadInto(r, "length", HeaderSize - Len(r.length))
  <1>1. ReadBytesIntern(r) = IF Len(t.length) # 2 THEN Stops(t) ELSE ReadBody(t)
    BY DEF ReadBytesIntern, HeaderSize
  <1>2. /\ Reads(t, p, rest) /\ t.received = r.received
        /\ Len(t.unread) <= Len(r.unread)
        /\ Len(t.length) # 2 => t.unread = <<>>
    BY ReadLength
  <1> HIDE DEF t
  <1>3. CASE Len(t.length) # 2
    BY <1>1, <1>2, <1>3, StopsRests
  <1>4. CASE Len(t.length) = 2
    <2>1. \/ Rests(t, ReadBody(t), p, rest)
          \/ Delivers(t, ReadBody(t), p, rest)
      BY <1>2, <1>4, ReadBodyReads
    <2>2. ReadBytesIntern(r) = ReadBody(t)
      BY <1>1, <1>4
    <2>3. CASE Rests(t, ReadBody(t), p, rest)
      BY <1>2, <2>2, <2>3 DEF Rests
    <2>4. CASE Delivers(t, ReadBody(t), p, rest)
      <3> DEFINE d == ReadBody(t)
                 x == Len(d.unread)
                 y == Len(t.unread)
                 z == Len(r.unread)
      <3>1. /\ p # <<>> /\ d.more /\ d.received = Append(t.received, p[1])
            /\ Reads(d, Tail(p), rest) /\ x < y
        BY <2>4 DEF Delivers
      <3>2. x \in Nat /\ y \in Nat /\ z \in Nat
        BY <1>2, <3>1, ReadsTyped
      <3> HIDE DEF d, x, y, z
      <3>3. x < z
        <4>1. y <= z
          BY <1>2 DEF y, z
        <4> QED
          BY <3>1, <3>2, <4>1
      <3>4. Delivers(r, d, p, rest)
        BY <1>2, <3>1, <3>3 DEF Delivers, x, z
      <3> QED
        BY <2>2, <3>4 DEF d
    <2> QED
      BY <2>1, <2>3, <2>4
  <1> QED
    BY <1>3, <1>4

\* readBytes takes all there is, and the requests that are complete by then.
LEMMA ReadBytesReads ==
    ASSUME NEW r, NEW p \in Seq(Requests), NEW rest \in Seq(Bytes), Reads(r, p, rest),
           r.received = <<>>
    PROVE  \E q \in Seq(Requests) :
              LET t == ReadBytes(r)
              IN  /\ t.received \in Seq(Requests) /\ p = t.received \o q
                  /\ Reads(t, q, rest) /\ t.unread = <<>>
  <1> DEFINE n == Len(r.unread)
             first == [r EXCEPT !.more = TRUE]
             Then(s, i) == IF s.more THEN ReadBytesIntern(s) ELSE s
             IsRun(f, k) == f = [i \in 0..k |-> IF i = 0 THEN first ELSE Then(f[i - 1], i)]
             after == CHOOSE f : IsRun(f, n)
  <1>1. n \in Nat /\ r \in RpcStates
    BY ReadsTyped
  <1>2. ReadBytes(r) = after[n]
    BY DEF ReadBytes
  <1>3. /\ first.more /\ first.received = <<>> /\ first.unread = r.unread
        /\ Reads(first, p, rest)
    <2>1. /\ first \in RpcStates /\ first.unread = r.unread /\ first.length = r.length
          /\ first.buffer = r.buffer /\ first.received = r.received
          /\ first.closed = r.closed
      BY <1>1 DEF RpcStates
    <2>2. first.more
      BY <1>1 DEF RpcStates
    <2> HIDE DEF first
    <2>3. Reads(first, p, rest)
      BY <2>1 DEF Reads
    <2> QED
      BY <2>1, <2>2, <2>3
  <1>4. \A s, i : s.more => Then(s, i) = ReadBytesIntern(s)
    OBVIOUS
  <1>5. \A s, i : ~s.more => Then(s, i) = s
    OBVIOUS
  <1>6. Len(first.unread) = n
    BY <1>3
  <1> HIDE DEF n, first, Then
  <1>7. \E f : IsRun(f, n)
    <2> DEFINE T == {k \in Nat : \E f : IsRun(f, k)}
    <2>1. 0 \in T
      <3> DEFINE f == [i \in 0..0 |-> first]
      <3>1. IsRun(f, 0)
        OBVIOUS
      <3> QED
        BY <3>1
    <2>2. ASSUME NEW k \in Nat, k \in T
          PROVE  k + 1 \in T
      <3>1. PICK h : IsRun(h, k)
        BY <2>2
      <3> DEFINE g == [i \in 0..(k + 1) |-> IF i <= k THEN h[i] ELSE Then(h[k], k + 1)]
      <3>2. ASSUME NEW i \in 0..(k + 1)
            PROVE  g[i] = IF i = 0 THEN first ELSE Then(g[i - 1], i)
        <4>1. CASE i <= k
          <5>1. h[i] = IF i = 0 THEN first ELSE Then(h[i - 1], i)
            BY <3>1, <4>1
          <5>2. i # 0 => g[i - 1] = h[i - 1]
            BY <4>1
          <5> QED
            BY <4>1, <5>1, <5>2
        <4>2. CASE i = k + 1
          BY <4>2
        <4> QED
          BY <4>1, <4>2
      <3>3. g = [i \in 0..(k + 1) |-> g[i]]
        OBVIOUS
      <3>4. IsRun(g, k + 1)
        <4> HIDE DEF g
        <4> QED
          BY <3>2, <3>3
      <3>5. \E f : IsRun(f, k + 1)
        <4> HIDE DEF g, IsRun
        <4> QED
          BY <3>4
      <3> QED
        BY <3>5
    <2>3. n \in T
      <3> HIDE DEF T
      <3> QED
        BY <1>1, <2>1, <2>2, SetInduction
    <2> QED
      BY <2>3
  <1>8. IsRun(after, n)
    <2> HIDE DEF IsRun
    <2> QED
      BY <1>7
  <1> HIDE DEF after
  <1>9. \A i \in 0..n : after[i] = IF i = 0 THEN first ELSE Then(after[i - 1], i)
    BY <1>8
  <1> DEFINE State(s, q, k) == /\ s.received \in Seq(Requests) /\ p = s.received \o q
                               /\ Reads(s, q, rest)
                               /\ s.more => Len(s.unread) <= n - k
                               /\ ~s.more => s.unread = <<>>
             T == {k \in Nat : k <= n => \E q \in Seq(Requests) : State(after[k], q, k)}
  <1>10. 0 \in T
    <2>1. after[0] = first
      BY <1>1, <1>9
    <2>2. <<>> \o p = p /\ <<>> \in Seq(Requests)
      BY ConcatEmptySeq, EmptySeq
    <2>3. Len(first.unread) <= n - 0
      BY <1>1, <1>6
    <2>4. State(after[0], p, 0)
      BY <1>3, <2>1, <2>2, <2>3
    <2> HIDE DEF State
    <2> QED
      BY <2>4
  <1>11. ASSUME NEW k \in Nat, k \in T
         PROVE  k + 1 \in T
    <2> HIDE DEF State
    <2> SUFFICES ASSUME k + 1 <= n
                 PROVE  \E q \in Seq(Requests) : State(after[k + 1], q, k + 1)
      OBVIOUS
    <2>1. PICK q \in Seq(Requests) : State(after[k], q, k)
      BY <1>1, <1>11
    <2>2. k + 1 \in 0..n /\ k + 1 # 0 /\ (k + 1) - 1 = k
      BY <1>1
    <2> DEFINE s == after[k]
               t == after[k + 1]
    <2>3. t = Then(s, k + 1)
      BY <1>9, <2>2
    <2> HIDE DEF s, t
    <2>4. /\ s.received \in Seq(Requests) /\ p = s.received \o q /\ Reads(s, q, rest)
          /\ s.more => Len(s.unread) <= n - k
          /\ ~s.more => s.unread = <<>>
      BY <2>1 DEF State, s
    <2>5. CASE ~s.more
      <3>1. t = s
        BY <1>5, <2>3, <2>5
      <3>2. State(t, q, k + 1)
        BY <2>4, <2>5, <3>1 DEF State
      <3> QED
        BY <3>2 DEF t
    <2>6. CASE s.more
      <3>1. t = ReadBytesIntern(s)
        BY <1>4, <2>3, <2>6
      <3>2. CASE Rests(s, t, q, rest)
        <4>1. State(t, q, k + 1)
          BY <2>4, <3>2 DEF State, Rests
        <4> QED
          BY <4>1 DEF t
      <3>3. CASE Delivers(s, t, q, rest)
        <4>1. /\ q # <<>> /\ t.more /\ t.received = Append(s.received, q[1])
              /\ Reads(t, Tail(q), rest) /\ Len(t.unread) < Len(s.unread)
          BY <3>3 DEF Delivers
        <4>2. q[1] \in Requests /\ Tail(q) \in Seq(Requests) /\ q = <<q[1]>> \o Tail(q)
          BY <4>1, StreamHead
        <4>3. t.received \in Seq(Requests) /\ t.received = s.received \o <<q[1]>>
          <5> DEFINE a == s.received
                     e == q[1]
          <5>1. a \in Seq(Requests) /\ e \in Requests
            BY <2>4, <4>2
          <5> HIDE DEF a, e
          <5>2. Append(a, e) \in Seq(Requests) /\ Append(a, e) = a \o <<e>>
            BY <5>1, AppendProperties, AppendIsConcat
          <5> QED
            BY <4>1, <5>2 DEF a, e
        <4>4. p = t.received \o Tail(q)
          <5> DEFINE a == s.received
                     e == <<q[1]>>
                     z == Tail(q)
          <5>1. a \in Seq(Requests) /\ e \in Seq(Requests) /\ z \in Seq(Requests)
            BY <2>4, <4>2
          <5>2. p = a \o q /\ q = e \o z /\ t.received = a \o e
            BY <2>4, <4>2, <4>3
          <5> HIDE DEF a, e, z
          <5>3. Associate(a, e, z)
            BY <5>1, Associates
          <5>4. p = t.received \o z
            BY <5>2, <5>3 DEF Associate
          <5> QED
            BY <5>4 DEF z
        <4>5. Len(t.unread) <= n - (k + 1)
          <5> DEFINE x == Len(t.unread)
                     y == Len(s.unread)
          <5>1. x \in Nat /\ y \in Nat
            BY <2>4, <4>1, ReadsTyped
          <5>2. x < y /\ y <= n - k
            BY <2>4, <2>6, <4>1
          <5> HIDE DEF x, y
          <5>3. x <= n - (k + 1)
            BY <1>1, <5>1, <5>2
          <5> QED
            BY <5>3 DEF x
        <4>6. State(t, Tail(q), k + 1)
          BY <4>1, <4>3, <4>4, <4>5 DEF State
        <4> QED
          BY <4>2, <4>6 DEF t
      <3> QED
        BY <2>4, <3>1, <3>2, <3>3, ReadBytesInternReads
    <2> QED
      BY <2>5, <2>6
  <1>12. n \in T
    <2> HIDE DEF T
    <2> QED
      BY <1>1, <1>10, <1>11, SetInduction
  <1>13. PICK q \in Seq(Requests) : State(after[n], q, n)
    BY <1>1, <1>12
  <1> DEFINE t == after[n]
  <1>14. t.received \in Seq(Requests) /\ p = t.received \o q /\ Reads(t, q, rest)
    BY <1>13
  <1>15. t.unread = <<>>
    <2>1. ~t.more => t.unread = <<>>
      BY <1>13
    <2>2. ASSUME t.more
          PROVE  t.unread = <<>>
      <3>1. Len(t.unread) <= n - n
        BY <1>13, <2>2
      <3>2. t.unread \in Seq(Bytes) /\ Len(t.unread) \in Nat
        BY <1>14, ReadsTyped
      <3>3. Len(t.unread) = 0
        <4> DEFINE x == Len(t.unread)
        <4>1. x \in Nat /\ x <= n - n
          BY <3>1, <3>2
        <4> HIDE DEF x
        <4>2. x = 0
          BY <1>1, <4>1
        <4> QED
          BY <4>2 DEF x
      <3> QED
        BY <3>2, <3>3
    <2> QED
      BY <2>1, <2>2
  <1> HIDE DEF t
  <1> QED
    BY <1>2, <1>14, <1>15 DEF t

\* Some more bytes of the stream.
LEMMA ArrivedReads ==
    ASSUME NEW r, NEW p \in Seq(Requests), NEW bytes \in Seq(Bytes), NEW rest \in Seq(Bytes),
           Reads(r, p, bytes \o rest), r.unread = <<>>
    PROVE  \E q \in Seq(Requests) :
              LET t == Arrived(r, bytes)
              IN  /\ t.received \in Seq(Requests) /\ p = t.received \o q
                  /\ Reads(t, q, rest) /\ t.unread = <<>>
  <1> DEFINE s == [r EXCEPT !.unread = r.unread \o bytes, !.received = <<>>]
  <1>1. r \in RpcStates /\ r.unread \o bytes = bytes /\ <<>> \in Seq(Requests)
    BY ConcatEmptySeq, EmptySeq, ReadsTyped
  <1>2. Arrived(r, bytes) = ReadBytes(s)
    BY <1>1 DEF Arrived, RpcStates
  <1>3. /\ s \in RpcStates /\ s.unread = bytes /\ s.received = <<>>
        /\ s.length = r.length /\ s.buffer = r.buffer /\ s.closed = r.closed
    BY <1>1 DEF RpcStates
  <1> HIDE DEF s
  <1>4. r.unread \o (bytes \o rest) = bytes \o rest
    <2>1. bytes \o rest \in Seq(Bytes)
      BY ConcatProperties
    <2> QED
      BY <2>1, ConcatEmptySeq
  <1>5. Reads(s, p, rest)
    BY <1>3, <1>4 DEF Reads
  <1> DEFINE t == ReadBytes(s)
  <1>6. \E q \in Seq(Requests) :
              /\ t.received \in Seq(Requests) /\ p = t.received \o q
              /\ Reads(t, q, rest) /\ t.unread = <<>>
    BY <1>3, <1>5, ReadBytesReads
  <1> HIDE DEF t
  <1>7. Arrived(r, bytes) = t
    BY <1>2 DEF t
  <1> QED
    BY <1>6, <1>7

-----------------------------------------------------------------------------
(* The records of the web server. *)

Units ==
    [part : {"header"}, type : {"begin", "params", "stdin"}, id : Nat, size : Nat, n : Nat]
        \cup Bytes \cup [part : {"filling"}]

Contents == {<<>>, Web!Filling} \cup {BodyOf(m) : m \in Requests}

\* A record is two units of header and its content.
LEMMA RecordTyped ==
    ASSUME NEW type \in {"begin", "params", "stdin"}, NEW id \in Nat, NEW c \in Contents
    PROVE  /\ c \in Seq(Units) /\ Len(c) \in Nat
           /\ Web!Header(type, id, Len(c)) \in Seq(Units)
           /\ Len(Web!Header(type, id, Len(c))) = 2
           /\ Web!Header(type, id, Len(c))[1]
                 = [part |-> "header", type |-> type, id |-> id, size |-> Len(c), n |-> 1]
           /\ Web!Record(type, id, c) = Web!Header(type, id, Len(c)) \o c
           /\ Web!Record(type, id, c) \in Seq(Units)
           /\ Len(Web!Record(type, id, c)) = 2 + Len(c)
  <1>1. c \in Seq(Units)
    <2>1. CASE c = <<>>
      BY <2>1, EmptySeq
    <2>2. CASE c = Web!Filling
      <3>1. [part |-> "filling"] \in Units
        BY DEF Units
      <3> QED
        BY <2>2, <3>1 DEF Web!Filling
    <2>3. CASE c \in {BodyOf(m) : m \in Requests}
      <3>1. c \in Seq(Bytes)
        BY <2>3, FrameTyped
      <3>2. Bytes \subseteq Units
        BY DEF Units
      <3> QED
        BY <3>1, <3>2, SeqMonotonic
    <2> QED
      BY <2>1, <2>2, <2>3 DEF Contents
  <1> DEFINE k == Len(c)
             h == Web!Header(type, id, k)
  <1>2. k \in Nat
    BY <1>1, LenProperties
  <1> HIDE DEF k
  <1>3. /\ h \in Seq(Units) /\ Len(h) = 2
        /\ h[1] = [part |-> "header", type |-> type, id |-> id, size |-> k, n |-> 1]
    <2>1. h = [n \in 1..2 |-> [part |-> "header", type |-> type, id |-> id, size |-> k, n |-> n]]
      BY DEF Web!Header, Web!HeaderSize
    <2>2. \A n \in 1..2 :
             [part |-> "header", type |-> type, id |-> id, size |-> k, n |-> n] \in Units
      BY <1>2 DEF Units
    <2> HIDE DEF h
    <2>3. h \in [1..2 -> Units]
      BY <2>1, <2>2
    <2>4. h \in Seq(Units)
      <3>1. 2 \in Nat
        OBVIOUS
      <3>2. Seq(Units) = UNION {[1..n -> Units] : n \in Nat}
        BY SeqDef
      <3> QED
        BY <2>3, <3>1, <3>2
    <2>5. Len(h) = 2
      <3>1. DOMAIN h = 1..2
        BY <2>3
      <3>2. DOMAIN h = 1..Len(h) /\ Len(h) \in Nat
        BY <2>4, LenProperties
      <3> QED
        BY <3>1, <3>2
    <2> QED
      BY <2>1, <2>4, <2>5
  <1>4. Web!Record(type, id, c) = h \o c
    BY DEF Web!Record, k
  <1> HIDE DEF h
  <1>5. h \o c \in Seq(Units) /\ Len(h \o c) = Len(h) + k
    BY <1>1, <1>3, ConcatProperties DEF k
  <1> QED
    BY <1>1, <1>2, <1>3, <1>4, <1>5 DEF h, k

\* What is parsed of the first record of the buffer, when it is whole.
Parsed(type, id, c, b, rest, s) ==
    /\ Head(b).type = type /\ Head(b).id = id /\ Head(b).size = Len(c)
    /\ SubSeq(b, Web!HeaderSize + 1, Web!HeaderSize + Len(c)) = c
    /\ SubSeq(b, Web!HeaderSize + Len(c) + 1, Len(b)) \in Seq(Units)
    /\ Len(SubSeq(b, Web!HeaderSize + Len(c) + 1, Len(b))) = Len(b) - (2 + Len(c))
    /\ SubSeq(b, Web!HeaderSize + Len(c) + 1, Len(b)) \o rest = s
    /\ 2 + Len(c) <= Len(b)

\* Whatever there is of the records behind it, in the buffer or not.
LEMMA RecordParsed ==
    ASSUME NEW type \in {"begin", "params", "stdin"}, NEW id \in Nat, NEW c \in Contents,
           NEW b \in Seq(Units), NEW rest \in Seq(Units), NEW s \in Seq(Units),
           b \o rest = Web!Record(type, id, c) \o s, Web!IsWhole(b)
    PROVE  Parsed(type, id, c, b, rest, s)
  <1> DEFINE k == Len(c)
             h == Web!Header(type, id, k)
             r == Web!Record(type, id, c)
             l == Len(b)
             e == 2 + k
             a == SubSeq(b, 1, e)
             z == SubSeq(b, e + 1, l)
  <1>1. /\ c \in Seq(Units) /\ k \in Nat /\ h \in Seq(Units) /\ Len(h) = 2
        /\ h[1] = [part |-> "header", type |-> type, id |-> id, size |-> k, n |-> 1]
        /\ r = h \o c /\ r \in Seq(Units) /\ Len(r) = e
    BY RecordTyped
  <1>2. l \in Nat
    BY LenProperties
  <1>3. b \o rest = r \o s
    OBVIOUS
  <1>4. l >= 2 /\ l >= 2 + Head(b).size
    BY DEF Web!IsWhole, Web!HeaderSize
  <1> HIDE DEF h, r
  <1>5. b[1] = h[1]
    <2> DEFINE x == b \o rest
               y == r \o s
    <2>1. x[1] = b[1]
      <3>1. \A i \in 1..(l + Len(rest)) : x[i] = IF i <= l THEN b[i] ELSE rest[i - l]
        BY ConcatProperties
      <3>2. 1 <= l /\ 1 \in 1..(l + Len(rest))
        BY <1>2, <1>4
      <3> HIDE DEF x
      <3> QED
        BY <3>1, <3>2
    <2>2. y[1] = r[1]
      <3>1. \A i \in 1..(Len(r) + Len(s)) : y[i] = IF i <= Len(r) THEN r[i] ELSE s[i - Len(r)]
        BY <1>1, ConcatProperties
      <3>2. 1 <= Len(r) /\ 1 \in 1..(Len(r) + Len(s))
        BY <1>1
      <3> HIDE DEF y
      <3> QED
        BY <3>1, <3>2
    <2>3. r[1] = h[1]
      BY <1>1, ConcatProperties
    <2> QED
      BY <1>3, <2>1, <2>2, <2>3
  <1>6. Head(b) = [part |-> "header", type |-> type, id |-> id, size |-> k, n |-> 1]
    BY <1>1, <1>5
  <1> HIDE DEF k, l
  <1>7. e <= l /\ e \in 0..l
    BY <1>1, <1>2, <1>4, <1>6, SMTT(30)
  <1>8. /\ a \in Seq(Units) /\ Len(a) = e /\ z \in Seq(Units) /\ Len(z) = l - e
        /\ b = a \o z
    <2>1. a \in Seq(Units) /\ Len(a) = e
      BY <1>2, <1>7 DEF l
    <2>2. IsPrefix(a, b)
      BY <1>2, <1>7, <2>1 DEF IsPrefix, l
    <2> HIDE DEF a
    <2>3. b = a \o SubSeq(b, Len(a) + 1, Len(b)) /\ SubSeq(b, Len(a) + 1, Len(b)) \in Seq(Units)
      BY <2>1, <2>2, PrefixSplits
    <2>4. b = a \o z /\ z \in Seq(Units)
      BY <2>1, <2>3 DEF l
    <2> HIDE DEF z
    <2>5. l = Len(a) + Len(z) /\ Len(z) \in Nat
      BY <2>1, <2>4, ConcatProperties DEF l
    <2> QED
      BY <1>2, <1>7, <2>1, <2>4, <2>5
  <1> HIDE DEF e
  <1>9. a = r /\ z \o rest = s
    <2> HIDE DEF a, z
    <2>1. Associate(a, z, rest)
      BY <1>8, Associates
    <2>2. a \o (z \o rest) = r \o s
      BY <1>3, <1>8, <2>1 DEF Associate
    <2> DEFINE y == z \o rest
    <2>3. y \in Seq(Units)
      BY <1>8, ConcatProperties
    <2> HIDE DEF y
    <2>4. /\ a \in Seq(Units) /\ r \in Seq(Units) /\ s \in Seq(Units)
          /\ Len(a) = Len(r) /\ a \o y = r \o s
      BY <1>1, <1>8, <2>2 DEF y
    <2>5. a = r /\ y = s
      BY <2>3, <2>4, ConcatCancels
    <2> QED
      BY <2>5 DEF y
  <1>10. SubSeq(b, 3, e) = c
    <2> DEFINE d == SubSeq(b, 3, e)
    <2> HIDE DEF a, z
    <2>1. /\ d \in Seq(Units) /\ Len(d) = k
          /\ \A i \in 1..k : d[i] = b[i + 2]
      <3>1. \A i \in 3..e : b[i] \in Units
        BY <1>2, <1>7 DEF l
      <3>2. 3 \in Int /\ e \in Int /\ (3 <= e => e - 3 + 1 = k) /\ (~(3 <= e) => k = 0)
            /\ e - 3 + 1 = k
        BY <1>1 DEF e
      <3>3. /\ d \in Seq(Units)
            /\ Len(d) = IF 3 <= e THEN e - 3 + 1 ELSE 0
            /\ \A i \in 1..(e - 3 + 1) : d[i] = b[3 + i - 1]
        BY <3>1, <3>2, SubSeqProperties
      <3> HIDE DEF d
      <3>4. \A i \in 1..k : d[i] = b[3 + i - 1] /\ 3 + i - 1 = i + 2
        BY <1>1, <3>2, <3>3
      <3> QED
        BY <3>2, <3>3, <3>4
    <2>2. \A i \in 1..k : b[i + 2] = c[i]
      <3>1. \A i \in 1..k : r[i + 2] = c[i]
        <4>1. \A i \in 1..(Len(h) + Len(c)) :
                 (h \o c)[i] = IF i <= Len(h) THEN h[i] ELSE c[i - Len(h)]
          BY <1>1, ConcatProperties
        <4>2. \A i \in 1..k : i + 2 \in 1..(2 + k) /\ ~(i + 2 <= 2) /\ (i + 2) - 2 = i
          BY <1>1
        <4> QED
          BY <1>1, <4>1, <4>2 DEF k
      <3>2. \A i \in 1..e : b[i] = a[i]
        BY <1>8, ConcatProperties
      <3>3. \A i \in 1..k : i + 2 \in 1..e
        BY <1>1 DEF e
      <3> QED
        BY <1>9, <3>1, <3>2, <3>3
    <2> HIDE DEF d
    <2>3. d = c
      BY <1>1, <2>1, <2>2, SeqEqual DEF k
    <2> QED
      BY <2>3 DEF d
  <1>11. Web!HeaderSize + 1 = 3 /\ Web!HeaderSize + k = e /\ Web!HeaderSize + k + 1 = e + 1
    BY <1>1 DEF Web!HeaderSize, e
  <1>12. Head(b).type = type /\ Head(b).id = id /\ Head(b).size = k
    BY <1>6
  <1>13. 2 + k <= l /\ Len(z) = l - (2 + k)
    BY <1>7, <1>8 DEF e
  <1>14. z = SubSeq(b, Web!HeaderSize + k + 1, l)
    BY <1>11 DEF z
  <1>15. SubSeq(b, Web!HeaderSize + 1, Web!HeaderSize + k) = c
    BY <1>10, <1>11
  <1> HIDE DEF z
  <1>16. z \in Seq(Units) /\ z \o rest = s
    BY <1>8, <1>9
  <1> QED
    BY <1>12, <1>13, <1>14, <1>15, <1>16 DEF Parsed, k, l

\* What has become of the first k records of a request.
Types == <<"begin", "params", "params", "stdin", "stdin">>

Content(m, k) ==
    CASE k \in {1, 2} -> Web!Filling
      [] k = 4 -> BodyOf(m)
      [] OTHER -> <<>>

Rec(id, m, k) == Web!Record(Types[k], id, Content(m, k))

\* The records behind the first k.
Before(record, others) == record \o others

ToCome4(id, m) == Before(Rec(id, m, 5), <<>>)
ToCome3(id, m) == Before(Rec(id, m, 4), ToCome4(id, m))
ToCome2(id, m) == Before(Rec(id, m, 3), ToCome3(id, m))
ToCome1(id, m) == Before(Rec(id, m, 2), ToCome2(id, m))

ToCome(id, m, k) ==
    CASE k = 0 -> Before(Rec(id, m, 1), ToCome1(id, m))
      [] k = 1 -> ToCome1(id, m)
      [] k = 2 -> ToCome2(id, m)
      [] k = 3 -> ToCome3(id, m)
      [] k = 4 -> ToCome4(id, m)
      [] OTHER -> <<>>

\* The five records one by one.
LEMMA RecTyped ==
    ASSUME NEW id \in Nat, NEW m \in Requests, NEW k \in 1..5
    PROVE  /\ Types[k] \in {"begin", "params", "stdin"} /\ Content(m, k) \in Contents
           /\ Rec(id, m, k) \in Seq(Units)
  <1>1. Types[k] \in {"begin", "params", "stdin"}
    BY DEF Types
  <1>2. Content(m, k) \in Contents
    BY DEF Content, Contents
  <1> QED
    BY <1>1, <1>2, RecordTyped DEF Rec

\* What is still to come of the five records is a sequence of units.
LEMMA ToComeTyped ==
    ASSUME NEW id \in Nat, NEW m \in Requests
    PROVE  /\ \A k \in 0..5 : ToCome(id, m, k) \in Seq(Units)
           /\ \A k \in 0..4 : ToCome(id, m, k) = Rec(id, m, k + 1) \o ToCome(id, m, k + 1)
           /\ ToCome(id, m, 5) = <<>>
  <1>1. /\ Rec(id, m, 1) \in Seq(Units) /\ Rec(id, m, 2) \in Seq(Units)
        /\ Rec(id, m, 3) \in Seq(Units) /\ Rec(id, m, 4) \in Seq(Units)
        /\ Rec(id, m, 5) \in Seq(Units)
    BY RecTyped
  <1>2. /\ ToCome(id, m, 5) = <<>>
        /\ ToCome(id, m, 4) = Rec(id, m, 5) \o ToCome(id, m, 5)
        /\ ToCome(id, m, 3) = Rec(id, m, 4) \o ToCome(id, m, 4)
        /\ ToCome(id, m, 2) = Rec(id, m, 3) \o ToCome(id, m, 3)
        /\ ToCome(id, m, 1) = Rec(id, m, 2) \o ToCome(id, m, 2)
        /\ ToCome(id, m, 0) = Rec(id, m, 1) \o ToCome(id, m, 1)
    <2>1. /\ ToCome(id, m, 5) = <<>>
          /\ ToCome(id, m, 4) = Before(Rec(id, m, 5), ToCome(id, m, 5))
          /\ ToCome(id, m, 3) = Before(Rec(id, m, 4), ToCome(id, m, 4))
          /\ ToCome(id, m, 2) = Before(Rec(id, m, 3), ToCome(id, m, 3))
          /\ ToCome(id, m, 1) = Before(Rec(id, m, 2), ToCome(id, m, 2))
          /\ ToCome(id, m, 0) = Before(Rec(id, m, 1), ToCome(id, m, 1))
      BY DEF ToCome, ToCome1, ToCome2, ToCome3, ToCome4
    <2> QED
      BY <2>1 DEF Before
  <1>3. ToCome(id, m, 5) \in Seq(Units)
    BY <1>2, EmptySeq
  <1>4. ToCome(id, m, 4) \in Seq(Units)
    <2>1. Rec(id, m, 5) \o ToCome(id, m, 5) \in Seq(Units)
      BY <1>1, <1>3, ConcatProperties
    <2> QED
      BY <1>2, <2>1
  <1>5. ToCome(id, m, 3) \in Seq(Units)
    BY <1>1, <1>2, <1>4, ConcatProperties, ZenonT(60)
  <1>6. ToCome(id, m, 2) \in Seq(Units)
    BY <1>1, <1>2, <1>5, ConcatProperties, ZenonT(60)
  <1>7. ToCome(id, m, 1) \in Seq(Units)
    BY <1>1, <1>2, <1>6, ConcatProperties
  <1>8. ToCome(id, m, 0) \in Seq(Units)
    BY <1>1, <1>2, <1>7, ConcatProperties
  <1>9. \A k \in 0..5 : ToCome(id, m, k) \in Seq(Units)
    <2>1. \A k \in 0..5 : k = 0 \/ k = 1 \/ k = 2 \/ k = 3 \/ k = 4 \/ k = 5
      OBVIOUS
    <2> QED
      BY <2>1, <1>3, <1>4, <1>5, <1>6, <1>7, <1>8
  <1>10. \A k \in 0..4 : ToCome(id, m, k) = Rec(id, m, k + 1) \o ToCome(id, m, k + 1)
    <2>1. \A k \in 0..4 :
             \/ k = 0 /\ k + 1 = 1
             \/ k = 1 /\ k + 1 = 2
             \/ k = 2 /\ k + 1 = 3
             \/ k = 3 /\ k + 1 = 4
             \/ k = 4 /\ k + 1 = 5
      OBVIOUS
    <2> QED
      BY <2>1, <1>2
  <1> QED
    BY <1>2, <1>9, <1>10

\* The web server sends the five of them.
LEMMA RecordsAreToCome ==
    ASSUME NEW id \in Nat, NEW m \in Requests
    PROVE  Web!RecordsOf(id, m) = ToCome(id, m, 0)
  <1> DEFINE a == Rec(id, m, 1)
             b == Rec(id, m, 2)
             c == Rec(id, m, 3)
             d == Rec(id, m, 4)
             e == Rec(id, m, 5)
  <1>1. /\ a \in Seq(Units) /\ b \in Seq(Units) /\ c \in Seq(Units)
        /\ d \in Seq(Units) /\ e \in Seq(Units)
    BY RecTyped
  <1>2. /\ a = Web!Record("begin", id, Web!Filling)
        /\ b = Web!Record("params", id, Web!Filling)
        /\ c = Web!Record("params", id, <<>>)
        /\ d = Web!Record("stdin", id, BodyOf(m))
        /\ e = Web!Record("stdin", id, <<>>)
    BY DEF Rec, Types, Content
  <1>3. BodyOf(m) = Web!BodyOf(m)
    BY DEF BodyOf, Web!BodyOf
  <1>4. Web!RecordsOf(id, m) = (((a \o b) \o c) \o d) \o e
    BY <1>2, <1>3 DEF Web!RecordsOf
  <1>5. ToCome(id, m, 0) = a \o (b \o (c \o (d \o (e \o <<>>))))
    <2>1. ToCome(id, m, 0) = Before(a, Before(b, Before(c, Before(d, Before(e, <<>>)))))
      BY DEF ToCome, ToCome1, ToCome2, ToCome3, ToCome4
    <2> QED
      BY <2>1 DEF Before
  <1> HIDE DEF a, b, c, d, e
  <1>6. e \o <<>> = e
    BY <1>1, ConcatEmptySeq
  <1>7. /\ a \o b \in Seq(Units) /\ (a \o b) \o c \in Seq(Units)
        /\ d \o e \in Seq(Units) /\ c \o (d \o e) \in Seq(Units)
    BY <1>1, ConcatProperties
  <1> DEFINE ab == a \o b
             abc == ab \o c
             de == d \o e
             cde == c \o de
  <1>8. abc \in Seq(Units) /\ ab \in Seq(Units) /\ de \in Seq(Units) /\ cde \in Seq(Units)
    BY <1>7
  <1> HIDE DEF ab, abc, de, cde
  <1>9. (abc \o d) \o e = abc \o de
    <2>1. Associate(abc, d, e)
      BY <1>1, <1>8, Associates
    <2> QED
      BY <2>1 DEF Associate, de
  <1>10. abc \o de = ab \o cde
    <2>1. Associate(ab, c, de)
      BY <1>1, <1>8, Associates
    <2> QED
      BY <2>1 DEF Associate, abc, cde
  <1>11. ab \o cde = a \o (b \o cde)
    <2>1. Associate(a, b, cde)
      BY <1>1, <1>8, Associates
    <2> QED
      BY <2>1 DEF Associate, ab
  <1>12. Web!RecordsOf(id, m) = (abc \o d) \o e
    BY <1>4 DEF ab, abc
  <1>13. ToCome(id, m, 0) = a \o (b \o cde)
    BY <1>5, <1>6 DEF cde, de
  <1> QED
    BY <1>9, <1>10, <1>11, <1>12, <1>13

WebRequests == UNION {[D -> Seq(Units)] : D \in SUBSET Nat}

WebStates ==
    [buffer : Seq(Units), requests : WebRequests, received : Seq(Requests), ok : BOOLEAN]

\* What has become of request m, with this id, behind its k-th record; it is told
\* of behind the last one.  There were j records, and the requests D, before.
Kept(f, id, m, D, j, k) ==
    /\ f \in WebStates /\ f.ok
    /\ DOMAIN f.requests = IF k = 0 THEN D ELSE D \cup {id}
    /\ k \in 1..3 => f.requests[id] = <<>>
    /\ k = 4 => f.requests[id] = BodyOf(m)
    /\ f.received = IF k = 5 /\ j < 5 THEN <<m>> ELSE <<>>

Dispatches(f, header, id, m, D, j, k) ==
    LET g == Web!Dispatched(f, header, Content(m, k + 1))
    IN  Kept(g, id, m, D, j, k + 1) /\ g.buffer = f.buffer

\* The next record is dispatched.
LEMMA DispatchedKeeps ==
    ASSUME NEW f, NEW id \in Nat, NEW m \in Requests, NEW D \in SUBSET Nat, id \notin D,
           NEW k \in 0..4, NEW j \in 0..k, Kept(f, id, m, D, j, k), NEW header,
           header.type = Types[k + 1], header.id = id
    PROVE  Dispatches(f, header, id, m, D, j, k)
  <1> DEFINE g == Web!Dispatched(f, header, Content(m, k + 1))
  <1> SUFFICES Kept(g, id, m, D, j, k + 1) /\ g.buffer = f.buffer
    BY DEF Dispatches
  <1>1. f \in WebStates /\ f.ok /\ f.requests \in [DOMAIN f.requests -> Seq(Units)]
        /\ DOMAIN f.requests \in SUBSET Nat
    BY DEF Kept, WebStates, WebRequests
  <1>2. /\ k = 0 => header.type = "begin"
        /\ k \in 1..2 => header.type = "params"
        /\ k \in 3..4 => header.type = "stdin"
    BY DEF Types
  <1>3. BodyOf(m) \in Seq(Units) /\ BodyOf(m) # <<>> /\ Head(BodyOf(m)).of = m
    <2>1. BodyOf(m) \in Seq(Bytes) /\ Len(BodyOf(m)) \in {1, 2}
      BY FrameTyped
    <2>2. Bytes \subseteq Units
      BY DEF Units
    <2>3. BodyOf(m) \in Seq(Units)
      BY <2>1, <2>2, SeqMonotonic
    <2>4. BodyOf(m)[1].of = m
      <3>1. RequestSize(m) \in {1, 2}
        BY FrameTyped
      <3>2. 1 \in 1..RequestSize(m)
        BY <3>1
      <3> QED
        BY <3>2 DEF BodyOf
    <2> QED
      BY <2>1, <2>3, <2>4
  <1>4. BodyOf(m) = Web!BodyOf(m)
    BY DEF BodyOf, Web!BodyOf
  <1>5. CASE k = 0
    <2>1. g = Web!BeginRequest(f, id)
      BY <1>2, <1>5 DEF Web!Dispatched
    <2>2. DOMAIN f.requests = D /\ f.received = <<>>
      BY <1>5 DEF Kept
    <2> DEFINE h == [i \in D \cup {id} |-> IF i = id THEN <<>> ELSE f.requests[i]]
    <2>3. g = [f EXCEPT !.requests = h]
      BY <1>1, <2>1, <2>2 DEF Web!BeginRequest, Web!IsOpen, WebStates
    <2>4. h \in WebRequests /\ DOMAIN h = D \cup {id} /\ h[id] = <<>>
      <3>1. h \in [D \cup {id} -> Seq(Units)]
        BY <1>1, <2>2, EmptySeq
      <3>2. D \cup {id} \in SUBSET Nat
        OBVIOUS
      <3> QED
        BY <3>1, <3>2 DEF WebRequests
    <2> HIDE DEF g, h
    <2>5. /\ g \in WebStates /\ g.requests = h /\ g.ok /\ g.received = <<>>
          /\ g.buffer = f.buffer
      BY <1>1, <2>2, <2>3, <2>4 DEF WebStates
    <2>6. k + 1 = 1
      BY <1>5
    <2> QED
      BY <2>4, <2>5, <2>6 DEF Kept, g
  <1>6. CASE k \in 1..2
    <2>1. id \in DOMAIN f.requests /\ f.requests[id] = <<>> /\ DOMAIN f.requests = D \cup {id}
          /\ f.received = <<>>
      BY <1>6 DEF Kept
    <2>2. g = f
      BY <1>2, <1>6, <2>1 DEF Web!Dispatched, Web!Params, Web!IsOpen
    <2>3. k + 1 \in 1..3 /\ k + 1 # 4 /\ k + 1 # 5 /\ k + 1 # 0
      BY <1>6
    <2> QED
      BY <1>1, <2>1, <2>2, <2>3 DEF Kept
  <1>7. CASE k = 3
    <2>1. id \in DOMAIN f.requests /\ f.requests[id] = <<>> /\ DOMAIN f.requests = D \cup {id}
          /\ f.received = <<>>
      BY <1>7 DEF Kept
    <2>2. Content(m, k + 1) = BodyOf(m)
      BY <1>7 DEF Content
    <2> DEFINE b == BodyOf(m)
               h == [f.requests EXCEPT ![id] = <<>> \o b]
    <2>3. b \in Seq(Units) /\ b # <<>> /\ <<>> \o b = b
      BY <1>3, ConcatEmptySeq
    <2> HIDE DEF b
    <2>4. g = [f EXCEPT !.requests = h]
      <3>1. g = Web!Stdin(f, id, b)
        BY <1>2, <1>7, <2>2 DEF Web!Dispatched, b
      <3> HIDE DEF g
      <3>2. g = [f EXCEPT !.requests[id] = @ \o b]
        BY <2>1, <2>3, <3>1 DEF Web!Stdin, Web!IsOpen
      <3> DEFINE x == f.requests
                 y == <<>> \o b
      <3>3. x[id] \o b = y /\ h = [x EXCEPT ![id] = y]
        BY <2>1
      <3>4. g = [f EXCEPT !.requests = [x EXCEPT ![id] = x[id] \o b]]
        BY <1>1, <3>2 DEF WebStates
      <3> HIDE DEF x, y, h
      <3> QED
        BY <3>3, <3>4
    <2>5. h \in WebRequests /\ DOMAIN h = D \cup {id} /\ h[id] = b
      <3>1. h \in [D \cup {id} -> Seq(Units)] /\ h[id] = b
        BY <1>1, <2>1, <2>3
      <3>2. D \cup {id} \in SUBSET Nat
        OBVIOUS
      <3> QED
        BY <3>1, <3>2 DEF WebRequests
    <2> HIDE DEF g, h
    <2>6. /\ g \in WebStates /\ g.requests = h /\ g.ok /\ g.received = <<>>
          /\ g.buffer = f.buffer
      BY <1>1, <2>1, <2>4, <2>5 DEF WebStates
    <2>7. k + 1 = 4
      BY <1>7
    <2> QED
      BY <2>5, <2>6, <2>7 DEF Kept, g, b
  <1>8. CASE k = 4
    <2>1. id \in DOMAIN f.requests /\ f.requests[id] = BodyOf(m) /\ DOMAIN f.requests = D \cup {id}
          /\ f.received = <<>>
      BY <1>8 DEF Kept
    <2>2. Content(m, k + 1) = <<>>
      BY <1>8 DEF Content
    <2>3. g = Web!Process(f, id)
      BY <1>2, <1>8, <2>1, <2>2 DEF Web!Dispatched, Web!Stdin, Web!IsOpen
    <2>4. Web!Process(f, id) = [f EXCEPT !.received = Append(f.received, m)]
      BY <1>1, <1>3, <1>4, <2>1 DEF Web!Process, WebStates
    <2>5. Append(f.received, m) = <<m>> /\ <<m>> \in Seq(Requests)
      BY <2>1
    <2> HIDE DEF g
    <2>6. /\ g \in WebStates /\ g.requests = f.requests /\ g.ok /\ g.received = <<m>>
          /\ g.buffer = f.buffer
      BY <1>1, <2>3, <2>4, <2>5 DEF WebStates
    <2>7. k + 1 = 5 /\ j < 5
      BY <1>8
    <2> QED
      BY <2>1, <2>6, <2>7 DEF Kept, g
  <1> HIDE DEF g
  <1> QED
    BY <1>5, <1>6, <1>7, <1>8

\* Of the records of a request, the last units, rest, have not come.
WebReads(f, id, m, D, j, k, rest) ==
    Kept(f, id, m, D, j, k) /\ f.buffer \o rest = ToCome(id, m, k)

\* One record is taken off the buffer.
LEMMA ProcessRecordReads ==
    ASSUME NEW f, NEW id \in Nat, NEW m \in Requests, NEW D \in SUBSET Nat, id \notin D,
           NEW k \in 0..5, NEW j \in 0..k, NEW rest \in Seq(Units),
           WebReads(f, id, m, D, j, k, rest), Web!IsWhole(f.buffer)
    PROVE  /\ k < 5
           /\ WebReads(Web!ProcessRecord(f), id, m, D, j, k + 1, rest)
           /\ Len(Web!ProcessRecord(f).buffer) <= Len(f.buffer) - 2
  <1> DEFINE b == f.buffer
  <1>1. f \in WebStates /\ b \in Seq(Units) /\ Len(b) \in Nat /\ Len(b) >= 2
        /\ b \o rest = ToCome(id, m, k)
    BY LenProperties DEF WebReads, Kept, WebStates, Web!IsWhole, Web!HeaderSize
  <1>2. k < 5
    <2>1. ASSUME k = 5
          PROVE  FALSE
      <3>1. b \o rest = <<>>
        BY <1>1, <2>1, ToComeTyped
      <3> HIDE DEF b
      <3>2. Len(b \o rest) = Len(b) + Len(rest) /\ Len(rest) \in Nat /\ Len(<<>>) = 0
        BY <1>1, ConcatProperties
      <3> DEFINE x == Len(b)
                 y == Len(rest)
      <3>3. x + y = 0 /\ x >= 2 /\ x \in Nat /\ y \in Nat
        BY <1>1, <3>1, <3>2
      <3> HIDE DEF x, y
      <3> QED
        BY <3>3
    <2> QED
      BY <2>1
  <1> DEFINE type == Types[k + 1]
             c == Content(m, k + 1)
             s == ToCome(id, m, k + 1)
             head == Head(b)
             w == Web!HeaderSize
             end == w + head.size
             z == SubSeq(b, end + 1, Len(b))
             g == Web!Dispatched(f, head, c)
             t == Web!ProcessRecord(f)
  <1>3. /\ type \in {"begin", "params", "stdin"} /\ c \in Contents /\ s \in Seq(Units)
        /\ b \o rest = Web!Record(type, id, c) \o s
    <2>1. k \in 0..4 /\ k + 1 \in 1..5 /\ k + 1 \in 0..5
      BY <1>2
    <2> QED
      BY <1>1, <2>1, RecTyped, ToComeTyped DEF Rec
  <1>4. Web!IsWhole(b)
    OBVIOUS
  <1> HIDE DEF b, type, c, s
  <1>5. /\ head.type = type /\ head.id = id /\ head.size = Len(c)
        /\ SubSeq(b, w + 1, w + Len(c)) = c
        /\ SubSeq(b, w + Len(c) + 1, Len(b)) \in Seq(Units)
        /\ Len(SubSeq(b, w + Len(c) + 1, Len(b))) = Len(b) - (2 + Len(c))
        /\ SubSeq(b, w + Len(c) + 1, Len(b)) \o rest = s
        /\ 2 + Len(c) <= Len(b)
    <2> HIDE DEF z, g, t, head, w
    <2>1. b \in Seq(Units)
      BY <1>1
    <2>2. Parsed(type, id, c, b, rest, s)
      BY <1>3, <1>4, <2>1, RecordParsed
    <2> QED
      BY <2>2 DEF head, w, Parsed
  <1>6. Kept(g, id, m, D, j, k + 1) /\ g.buffer = b
    <2>1. k \in 0..4 /\ Kept(f, id, m, D, j, k) /\ head.type = Types[k + 1] /\ head.id = id
      BY <1>2, <1>5 DEF WebReads, type
    <2> HIDE DEF head
    <2>2. Dispatches(f, head, id, m, D, j, k)
      BY <2>1, DispatchedKeeps
    <2> QED
      BY <2>2 DEF Dispatches, b, c
  <1>7. t = [g EXCEPT !.buffer = z]
    <2>1. SubSeq(f.buffer, w + 1, end) = c
      BY <1>5 DEF b
    <2> HIDE DEF w, g
    <2>2. t = LET done == Web!Dispatched(f, head, SubSeq(f.buffer, w + 1, end))
                  kept == IF done.ok THEN done ELSE Web!Terminated(done, head.id)
              IN  [kept EXCEPT !.buffer = SubSeq(kept.buffer, end + 1, Len(kept.buffer))]
      BY DEF Web!ProcessRecord, w, b
    <2>3. g.ok /\ g = Web!Dispatched(f, head, c)
      BY <1>6 DEF Kept, g
    <2> QED
      BY <1>6, <2>1, <2>2, <2>3
  <1>8. z \in Seq(Units) /\ Len(z) = Len(b) - (2 + Len(c)) /\ z \o rest = s
    BY <1>5
  <1> HIDE DEF z, g, t
  <1>9. /\ t \in WebStates /\ t.buffer = z /\ t.requests = g.requests
        /\ t.received = g.received /\ t.ok = g.ok
    BY <1>6, <1>7, <1>8 DEF WebStates, Kept
  <1>10. Kept(t, id, m, D, j, k + 1)
    BY <1>6, <1>9 DEF Kept
  <1>11. Len(t.buffer) <= Len(b) - 2
    <2>1. Len(c) \in Nat
      BY <1>3, RecordTyped
    <2> DEFINE x == Len(c)
               y == Len(b)
    <2>2. x \in Nat /\ y \in Nat /\ Len(t.buffer) = y - (2 + x)
      BY <1>1, <1>8, <1>9, <2>1
    <2> HIDE DEF x, y
    <2>3. y - (2 + x) <= y - 2
      BY <2>2
    <2> QED
      BY <2>2, <2>3 DEF y
  <1> QED
    BY <1>2, <1>8, <1>9, <1>10, <1>11 DEF WebReads, b, s, t

\* processInput goes on until no record is whole.
LEMMA ProcessInputReads ==
    ASSUME NEW f, NEW id \in Nat, NEW m \in Requests, NEW D \in SUBSET Nat, id \notin D,
           NEW j \in 0..5, NEW rest \in Seq(Units),
           \E k \in j..5 : WebReads(f, id, m, D, j, k, rest)
    PROVE  LET t == Web!ProcessInput(f)
           IN  /\ \E k \in j..5 : WebReads(t, id, m, D, j, k, rest)
               /\ ~Web!IsWhole(t.buffer)
  <1> DEFINE l == Len(f.buffer)
             n == l \div 2
             first == f
             Then(g, i) == IF g.ok /\ Web!IsWhole(g.buffer) THEN Web!ProcessRecord(g) ELSE g
             IsRun(h, k) == h = [i \in 0..k |-> IF i = 0 THEN first ELSE Then(h[i - 1], i)]
             after == CHOOSE h : IsRun(h, n)
  <1>1. l \in Nat /\ n \in Nat /\ 2 * n <= l /\ l < 2 * n + 2
    <2>1. f.buffer \in Seq(Units)
      BY DEF WebReads, Kept, WebStates
    <2>2. l \in Nat
      BY <2>1, LenProperties
    <2> HIDE DEF l
    <2> QED
      BY <2>2
  <1>2. Web!ProcessInput(f) = after[n]
    BY DEF Web!ProcessInput, Web!HeaderSize
  <1>3. \E k \in j..5 : WebReads(first, id, m, D, j, k, rest)
    OBVIOUS
  <1>4. \A g, i : g.ok /\ Web!IsWhole(g.buffer) => Then(g, i) = Web!ProcessRecord(g)
    OBVIOUS
  <1>5. \A g, i : ~Web!IsWhole(g.buffer) => Then(g, i) = g
    OBVIOUS
  <1>6. Len(first.buffer) = l
    OBVIOUS
  <1> HIDE DEF l, n, first, Then
  <1>7. \E r : IsRun(r, n)
    <2> DEFINE T == {k \in Nat : \E r : IsRun(r, k)}
    <2>1. 0 \in T
      <3> DEFINE r == [i \in 0..0 |-> first]
      <3>1. IsRun(r, 0)
        OBVIOUS
      <3> QED
        BY <3>1
    <2>2. ASSUME NEW k \in Nat, k \in T
          PROVE  k + 1 \in T
      <3>1. PICK h : IsRun(h, k)
        BY <2>2
      <3> DEFINE g == [i \in 0..(k + 1) |-> IF i <= k THEN h[i] ELSE Then(h[k], k + 1)]
      <3>2. ASSUME NEW i \in 0..(k + 1)
            PROVE  g[i] = IF i = 0 THEN first ELSE Then(g[i - 1], i)
        <4>1. CASE i <= k
          <5>1. h[i] = IF i = 0 THEN first ELSE Then(h[i - 1], i)
            BY <3>1, <4>1
          <5>2. i # 0 => g[i - 1] = h[i - 1]
            BY <4>1
          <5> QED
            BY <4>1, <5>1, <5>2
        <4>2. CASE i = k + 1
          BY <4>2
        <4> QED
          BY <4>1, <4>2
      <3>3. g = [i \in 0..(k + 1) |-> g[i]]
        OBVIOUS
      <3>4. IsRun(g, k + 1)
        <4> HIDE DEF g
        <4> QED
          BY <3>2, <3>3
      <3>5. \E r : IsRun(r, k + 1)
        <4> HIDE DEF g, IsRun
        <4> QED
          BY <3>4
      <3> QED
        BY <3>5
    <2>3. n \in T
      <3> HIDE DEF T
      <3> QED
        BY <1>1, <2>1, <2>2, SetInduction
    <2> QED
      BY <2>3
  <1>8. IsRun(after, n)
    <2> HIDE DEF IsRun
    <2> QED
      BY <1>7
  <1> HIDE DEF after
  <1>9. \A i \in 0..n : after[i] = IF i = 0 THEN first ELSE Then(after[i - 1], i)
    BY <1>8
  <1> DEFINE State(g, k, i) == /\ WebReads(g, id, m, D, j, k, rest)
                               /\ Web!IsWhole(g.buffer) => Len(g.buffer) <= l - 2 * i
             T == {i \in Nat : i <= n => \E k \in j..5 : State(after[i], k, i)}
  <1>10. 0 \in T
    <2>1. after[0] = first
      BY <1>1, <1>9
    <2>2. PICK k \in j..5 : WebReads(first, id, m, D, j, k, rest)
      BY <1>3
    <2>3. Len(first.buffer) <= l - 2 * 0
      BY <1>1, <1>6
    <2>4. State(after[0], k, 0)
      BY <2>1, <2>2, <2>3
    <2> HIDE DEF State
    <2> QED
      BY <2>4
  <1>11. ASSUME NEW i \in Nat, i \in T
         PROVE  i + 1 \in T
    <2> HIDE DEF State
    <2> SUFFICES ASSUME i + 1 <= n
                 PROVE  \E k \in j..5 : State(after[i + 1], k, i + 1)
      OBVIOUS
    <2>1. PICK k \in j..5 : State(after[i], k, i)
      BY <1>1, <1>11
    <2>2. i + 1 \in 0..n /\ i + 1 # 0 /\ (i + 1) - 1 = i
      BY <1>1
    <2> DEFINE g == after[i]
               t == after[i + 1]
    <2>3. t = Then(g, i + 1)
      BY <1>9, <2>2
    <2> HIDE DEF g, t
    <2>4. /\ WebReads(g, id, m, D, j, k, rest)
          /\ Web!IsWhole(g.buffer) => Len(g.buffer) <= l - 2 * i
      BY <2>1 DEF State, g
    <2>5. CASE ~Web!IsWhole(g.buffer)
      <3>1. t = g
        BY <1>5, <2>3, <2>5
      <3>2. State(t, k, i + 1)
        BY <2>4, <2>5, <3>1 DEF State
      <3> QED
        BY <3>2 DEF t
    <2>6. CASE Web!IsWhole(g.buffer)
      <3>1. g.ok
        BY <2>4 DEF WebReads, Kept
      <3>2. t = Web!ProcessRecord(g)
        BY <1>4, <2>3, <2>6, <3>1
      <3>3. k \in 0..5 /\ j \in 0..k
        BY <2>1
      <3>4. /\ k < 5 /\ WebReads(t, id, m, D, j, k + 1, rest)
            /\ Len(t.buffer) <= Len(g.buffer) - 2
        BY <2>4, <2>6, <3>2, <3>3, ProcessRecordReads
      <3>5. Len(t.buffer) <= l - 2 * (i + 1)
        <4> DEFINE x == Len(t.buffer)
                   y == Len(g.buffer)
        <4>1. t.buffer \in Seq(Units) /\ g.buffer \in Seq(Units)
          BY <2>4, <3>4 DEF WebReads, Kept, WebStates
        <4>2. x \in Nat /\ y \in Nat
          BY <4>1, LenProperties
        <4>3. x <= y - 2 /\ y <= l - 2 * i
          BY <2>4, <2>6, <3>4
        <4> HIDE DEF x, y
        <4>4. x <= l - 2 * (i + 1)
          BY <1>1, <4>2, <4>3
        <4> QED
          BY <4>4 DEF x
      <3>6. k + 1 \in j..5 /\ State(t, k + 1, i + 1)
        BY <3>3, <3>4, <3>5 DEF State
      <3> QED
        BY <3>6 DEF t
    <2> QED
      BY <2>5, <2>6
  <1>12. n \in T
    <2> HIDE DEF T
    <2> QED
      BY <1>1, <1>10, <1>11, SetInduction
  <1>13. PICK k \in j..5 : State(after[n], k, n)
    <2> HIDE DEF State
    <2>1. n <= n
      BY <1>1
    <2> QED
      BY <2>1, <1>12
  <1> DEFINE t == after[n]
  <1>14. WebReads(t, id, m, D, j, k, rest)
    BY <1>13
  <1>15. ~Web!IsWhole(t.buffer)
    <2> SUFFICES ASSUME Web!IsWhole(t.buffer)
                 PROVE  FALSE
      OBVIOUS
    <2> DEFINE x == Len(t.buffer)
    <2>1. t.buffer \in Seq(Units)
      BY <1>14 DEF WebReads, Kept, WebStates
    <2>2. x \in Nat /\ x >= 2
      BY <2>1, LenProperties DEF Web!IsWhole, Web!HeaderSize
    <2>3. x <= l - 2 * n
      BY <1>13
    <2> HIDE DEF x
    <2> QED
      BY <1>1, <2>2, <2>3
  <1> HIDE DEF t
  <1>16. \E i \in j..5 : WebReads(t, id, m, D, j, i, rest)
    BY <1>14
  <1> QED
    BY <1>2, <1>15, <1>16 DEF t

\* When nothing is missing, all five have been processed.
LEMMA AllProcessed ==
    ASSUME NEW f, NEW id \in Nat, NEW m \in Requests, NEW D, NEW j, NEW k \in 0..5,
           WebReads(f, id, m, D, j, k, <<>>), ~Web!IsWhole(f.buffer)
    PROVE  k = 5 /\ f.buffer = <<>>
  <1> DEFINE b == f.buffer
  <1>1. b \in Seq(Units) /\ b \o <<>> = ToCome(id, m, k) /\ <<>> \in Seq(Units)
    BY EmptySeq DEF WebReads, Kept, WebStates
  <1>2. b = ToCome(id, m, k)
    BY <1>1, ConcatEmptySeq
  <1>3. k = 5
    <2> SUFFICES ASSUME k \in 0..4
                 PROVE  Web!IsWhole(b)
      OBVIOUS
    <2> DEFINE type == Types[k + 1]
               c == Content(m, k + 1)
               h == Web!Header(type, id, Len(c))
               s == ToCome(id, m, k + 1)
    <2>1. k + 1 \in 1..5 /\ k + 1 \in 0..5
      OBVIOUS
    <2>2. type \in {"begin", "params", "stdin"} /\ c \in Contents /\ s \in Seq(Units)
      BY <2>1, RecTyped, ToComeTyped
    <2>3. b = Web!Record(type, id, c) \o s
      BY <1>2, ToComeTyped DEF Rec
    <2> HIDE DEF b, type, c, s
    <2>4. /\ Len(c) \in Nat /\ h \in Seq(Units) /\ Len(h) = 2 /\ c \in Seq(Units)
          /\ h[1] = [part |-> "header", type |-> type, id |-> id, size |-> Len(c), n |-> 1]
          /\ Web!Record(type, id, c) = h \o c
          /\ Web!Record(type, id, c) \in Seq(Units)
          /\ Len(Web!Record(type, id, c)) = 2 + Len(c)
      BY <2>2, RecordTyped
    <2> HIDE DEF h
    <2> DEFINE r == Web!Record(type, id, c)
               x == Len(c)
    <2>5. r = h \o c /\ r \in Seq(Units) /\ Len(r) = 2 + x /\ x \in Nat /\ b = r \o s
      BY <2>3, <2>4
    <2>6. h[1].size = x
      BY <2>4
    <2> HIDE DEF r, x
    <2>7. r[1] = h[1]
      BY <2>4, <2>5, ConcatProperties
    <2>8. b[1] = r[1] /\ Len(b) = (2 + x) + Len(s) /\ Len(s) \in Nat
      <3>1. /\ Len(r \o s) = Len(r) + Len(s) /\ Len(s) \in Nat
            /\ \A i \in 1..(Len(r) + Len(s)) : (r \o s)[i] = IF i <= Len(r) THEN r[i] ELSE s[i - Len(r)]
        <4>1. r \in Seq(Units) /\ s \in Seq(Units)
          BY <2>2, <2>5
        <4>2. Len(s) \in Nat
          BY <4>1, LenProperties
        <4> QED
          BY <4>1, <4>2, ConcatProperties
      <3>2. 1 \in 1..(Len(r) + Len(s)) /\ 1 <= Len(r)
        BY <2>5, <3>1
      <3> QED
        BY <2>5, <3>1, <3>2
    <2>9. Head(b).size = x
      BY <2>6, <2>7, <2>8
    <2>10. Len(b) >= 2 /\ Len(b) >= 2 + x
      BY <2>5, <2>8
    <2> QED
      BY <2>9, <2>10 DEF Web!IsWhole, Web!HeaderSize
  <1> QED
    BY <1>2, <1>3, ToComeTyped

\* Some more of them come: those that are whole are processed.
ArrivesAs(f, units, id, m, D, j, rest) ==
    LET t == Web!Arrived(f, units)
    IN  /\ \E k \in j..5 : WebReads(t, id, m, D, j, k, rest)
        /\ ~Web!IsWhole(t.buffer)

\* What the buffer held, and what comes, is what was missing.
LEMMA ArrivedProcesses ==
    ASSUME NEW f \in WebStates, NEW id \in Nat, NEW m \in Requests, NEW D \in SUBSET Nat,
           id \notin D, NEW j \in 0..5, NEW units \in Seq(Units), NEW rest \in Seq(Units),
           Kept([f EXCEPT !.received = <<>>, !.ok = TRUE], id, m, D, j, j),
           (f.buffer \o units) \o rest = ToCome(id, m, j)
    PROVE  ArrivesAs(f, units, id, m, D, j, rest)
  <1> DEFINE b == f.buffer \o units
             s == [f EXCEPT !.buffer = f.buffer \o units, !.received = <<>>, !.ok = TRUE]
             r == [f EXCEPT !.received = <<>>, !.ok = TRUE]
  <1>1. b \in Seq(Units)
    <2>1. f.buffer \in Seq(Units)
      BY DEF WebStates
    <2> QED
      BY <2>1, ConcatProperties
  <1>2. Web!Arrived(f, units) = Web!ProcessInput(s)
    BY DEF Web!Arrived, WebStates
  <1> HIDE DEF b
  <1>3. /\ s \in WebStates /\ s.buffer = b /\ s.requests = r.requests
        /\ s.received = r.received /\ s.ok = r.ok
    <2>1. <<>> \in Seq(Requests)
      BY EmptySeq
    <2>2. s = [f EXCEPT !.buffer = b, !.received = <<>>, !.ok = TRUE]
      BY DEF b
    <2> HIDE DEF s
    <2> QED
      BY <1>1, <2>1, <2>2 DEF WebStates
  <1> HIDE DEF s
  <1>4. WebReads(s, id, m, D, j, j, rest)
    <2>1. Kept(r, id, m, D, j, j)
      OBVIOUS
    <2> HIDE DEF r
    <2>2. Kept(s, id, m, D, j, j)
      BY <1>3, <2>1 DEF Kept
    <2>3. s.buffer \o rest = ToCome(id, m, j)
      BY <1>3 DEF b
    <2> QED
      BY <2>2, <2>3 DEF WebReads
  <1>5. \E k \in j..5 : WebReads(s, id, m, D, j, k, rest)
    BY <1>4
  <1> DEFINE t == Web!ProcessInput(s)
  <1>6. (\E k \in j..5 : WebReads(t, id, m, D, j, k, rest)) /\ ~Web!IsWhole(t.buffer)
    BY <1>5, ProcessInputReads
  <1> HIDE DEF t
  <1> QED
    BY <1>2, <1>6 DEF ArrivesAs, t

\* The records of a request, in two pieces, are one request that is complete.
LEMMA ArrivedCutProcesses ==
    ASSUME NEW f \in WebStates, f.buffer = <<>>, NEW id \in Nat, id \notin DOMAIN f.requests,
           NEW m \in Requests, NEW cut \in 1..Len(Web!RecordsOf(id, m))
    PROVE  LET t == Web!ArrivedCut(f, Web!RecordsOf(id, m), cut)
           IN  /\ t \in WebStates /\ t.ok /\ t.buffer = <<>>
               /\ DOMAIN t.requests = DOMAIN f.requests \cup {id}
               /\ t.received = <<m>>
  <1> DEFINE D == DOMAIN f.requests
             u == Web!RecordsOf(id, m)
             x == SubSeq(u, 1, cut)
             y == SubSeq(u, cut + 1, Len(u))
             first == Web!Arrived(f, x)
             second == Web!Arrived(first, y)
             t == Web!ArrivedCut(f, u, cut)
  <1>1. D \in SUBSET Nat /\ id \notin D
    BY DEF WebStates, WebRequests
  <1>2. u = ToCome(id, m, 0) /\ u \in Seq(Units)
    <2>1. 0 \in 0..5
      OBVIOUS
    <2>2. ToCome(id, m, 0) \in Seq(Units)
      BY <2>1, ToComeTyped
    <2> QED
      BY <2>2, RecordsAreToCome
  <1>3. t = IF cut = Len(u) THEN first
            ELSE [second EXCEPT !.received = first.received \o second.received,
                                !.ok = second.ok /\ first.ok]
    BY DEF Web!ArrivedCut
  <1>4. cut \in 1..Len(u) /\ Len(u) \in Nat
    BY <1>2, LenProperties
  <1> HIDE DEF D, u
  <1>5. /\ x \in Seq(Units) /\ Len(x) = cut /\ y \in Seq(Units) /\ Len(y) = Len(u) - cut
        /\ u = x \o y
    <2>1. x \in Seq(Units) /\ Len(x) = cut
      BY <1>2, <1>4
    <2>2. IsPrefix(x, u)
      BY <1>2, <1>4, <2>1 DEF IsPrefix
    <2> HIDE DEF x
    <2>3. u = x \o SubSeq(u, Len(x) + 1, Len(u)) /\ SubSeq(u, Len(x) + 1, Len(u)) \in Seq(Units)
      BY <1>2, <2>1, <2>2, PrefixSplits
    <2>4. u = x \o y /\ y \in Seq(Units)
      BY <2>1, <2>3
    <2> HIDE DEF y
    <2>5. Len(u) = Len(x) + Len(y) /\ Len(y) \in Nat
      <3>1. Len(x \o y) = Len(x) + Len(y) /\ Len(y) \in Nat
        BY <2>1, <2>4, ConcatLength
      <3> QED
        BY <2>4, <3>1
    <2> QED
      BY <1>4, <2>1, <2>4, <2>5
  <1> HIDE DEF x, y
  <1>6. (f.buffer \o x) \o y = ToCome(id, m, 0)
    <2>1. f.buffer \o x = x
      BY <1>5, ConcatEmptySeq
    <2> QED
      BY <1>2, <1>5, <2>1
  <1>7. Kept([f EXCEPT !.received = <<>>, !.ok = TRUE], id, m, D, 0, 0)
    <2> DEFINE r == [f EXCEPT !.received = <<>>, !.ok = TRUE]
    <2>1. <<>> \in Seq(Requests)
      BY EmptySeq
    <2>2. r \in WebStates /\ r.requests = f.requests /\ r.ok /\ r.received = <<>>
      BY <2>1 DEF WebStates
    <2> HIDE DEF r
    <2>3. Kept(r, id, m, D, 0, 0)
      BY <2>2 DEF Kept, D
    <2> QED
      BY <2>3 DEF r
  <1>8. /\ \E k \in 0..5 : WebReads(first, id, m, D, 0, k, y)
        /\ ~Web!IsWhole(first.buffer)
    <2>1. ArrivesAs(f, x, id, m, D, 0, y)
      <3> HIDE DEF first, second, t
      <3>1. 0 \in 0..5 /\ x \in Seq(Units) /\ y \in Seq(Units)
        BY <1>5
      <3> QED
        BY <1>1, <1>6, <1>7, <3>1, ArrivedProcesses
    <2> QED
      BY <2>1 DEF ArrivesAs
  <1> HIDE DEF first
  <1>9. PICK k \in 0..5 : WebReads(first, id, m, D, 0, k, y)
    BY <1>8
  <1>10. first \in WebStates /\ first.buffer \in Seq(Units) /\ first.ok
    BY <1>9 DEF WebReads, Kept, WebStates
  <1>11. CASE cut = Len(u)
    <2>1. t = first
      BY <1>3, <1>11
    <2>2. y = <<>>
      BY <1>4, <1>5, <1>11
    <2>3. k = 5 /\ first.buffer = <<>>
      BY <1>8, <1>9, <2>2, AllProcessed
    <2>4. /\ DOMAIN first.requests = D \cup {id} /\ first.received = <<m>>
      BY <1>9, <2>3 DEF WebReads, Kept
    <2> HIDE DEF t
    <2> QED
      BY <1>10, <2>1, <2>3, <2>4 DEF t, D, u
  <1>12. CASE cut # Len(u)
    <2>1. y # <<>> /\ Len(y) > 0
      BY <1>4, <1>5, <1>12
    <2>2. k < 5
      <3> SUFFICES ASSUME k = 5
                   PROVE  FALSE
        OBVIOUS
      <3> DEFINE b == first.buffer
      <3>1. b \o y = <<>>
        BY <1>9, ToComeTyped DEF WebReads
      <3>2. b \in Seq(Units)
        BY <1>10
      <3> HIDE DEF b
      <3>3. Len(b \o y) = Len(b) + Len(y) /\ Len(b) \in Nat
        BY <1>5, <3>2, ConcatLength
      <3>4. Len(b) + Len(y) = 0
        BY <3>1, <3>3
      <3> DEFINE v == Len(b)
                 w == Len(y)
      <3>5. v \in Nat /\ w \in Nat /\ w > 0 /\ v + w = 0
        BY <1>4, <1>5, <2>1, <3>3, <3>4
      <3> HIDE DEF v, w
      <3> QED
        BY <3>5
    <2>3. first.received = <<>>
      BY <1>9, <2>2 DEF WebReads, Kept
    <2>4. Kept([first EXCEPT !.received = <<>>, !.ok = TRUE], id, m, D, k, k)
      <3>1. [first EXCEPT !.received = <<>>, !.ok = TRUE] = first
        BY <1>10, <2>3 DEF WebStates
      <3>2. Kept(first, id, m, D, k, k)
        BY <1>9, <2>2, <2>3 DEF WebReads, Kept
      <3> QED
        BY <3>1, <3>2
    <2>5. (first.buffer \o y) \o <<>> = ToCome(id, m, k)
      <3>1. first.buffer \o y = ToCome(id, m, k)
        BY <1>9 DEF WebReads
      <3>2. ToCome(id, m, k) \in Seq(Units)
        BY ToComeTyped
      <3> QED
        BY <3>1, <3>2, ConcatEmptySeq
    <2>6. /\ \E i \in k..5 : WebReads(second, id, m, D, k, i, <<>>)
          /\ ~Web!IsWhole(second.buffer)
      <3>1. <<>> \in Seq(Units)
        BY EmptySeq
      <3> QED
        <4>1. ArrivesAs(first, y, id, m, D, k, <<>>)
          BY <1>1, <1>5, <1>10, <2>4, <2>5, <3>1, ArrivedProcesses
        <4> QED
          BY <4>1 DEF ArrivesAs
    <2> HIDE DEF second
    <2>7. PICK i \in k..5 : WebReads(second, id, m, D, k, i, <<>>)
      BY <2>6
    <2>8. i = 5 /\ second.buffer = <<>>
      BY <2>6, <2>7, AllProcessed
    <2>9. /\ second \in WebStates /\ second.ok /\ second.received = <<m>>
          /\ DOMAIN second.requests = D \cup {id}
      BY <2>2, <2>7, <2>8 DEF WebReads, Kept
    <2>10. t = [second EXCEPT !.received = first.received \o second.received,
                              !.ok = second.ok /\ first.ok]
      BY <1>3, <1>12
    <2>11. first.received \o second.received = <<m>> /\ <<m>> \in Seq(Requests)
      BY <2>3, <2>9
    <2> HIDE DEF t
    <2>12. t = second
      BY <1>10, <2>9, <2>10, <2>11 DEF WebStates
    <2> QED
      BY <2>8, <2>9, <2>12 DEF t, D, u
  <1> QED
    BY <1>11, <1>12

-----------------------------------------------------------------------------
(* The requests that are complete are handled. *)

\* The states of server and connection while they are.
HandlesBy(f, u, conn, q) ==
    /\ f[0] = [server |-> Server, conn |-> conn]
    /\ \A i \in 1..Len(q) :
          f[i] = [server |-> Requested(f[i - 1].server, u, q[i]),
                  conn |-> OpenRequest(f[i - 1].conn, q[i])]
    /\ HandleAll(u, conn, q) = f[Len(q)]

\* The requests that have been read are handled one by one.
LEMMA HandleAllRuns ==
    ASSUME NEW u, NEW conn, NEW q \in Seq(Requests)
    PROVE  \E f : HandlesBy(f, u, conn, q)
  <1> DEFINE n == Len(q)
             first == [server |-> Server, conn |-> conn]
             Then(h, i) == [server |-> Requested(h.server, u, q[i]),
                            conn |-> OpenRequest(h.conn, q[i])]
             IsRun(h, k) == h = [i \in 0..k |-> IF i = 0 THEN first ELSE Then(h[i - 1], i)]
             after == CHOOSE h : IsRun(h, n)
  <1>1. n \in Nat
    BY LenProperties
  <1>2. HandleAll(u, conn, q) = after[n]
    BY DEF HandleAll
  <1>3. \A h, i : Then(h, i) = [server |-> Requested(h.server, u, q[i]),
                                conn |-> OpenRequest(h.conn, q[i])]
    OBVIOUS
  <1> HIDE DEF n, first, Then
  <1>7. \E f : IsRun(f, n)
    <2> DEFINE T == {k \in Nat : \E f : IsRun(f, k)}
    <2>1. 0 \in T
      <3> DEFINE f == [i \in 0..0 |-> first]
      <3>1. IsRun(f, 0)
        OBVIOUS
      <3> QED
        BY <3>1
    <2>2. ASSUME NEW k \in Nat, k \in T
          PROVE  k + 1 \in T
      <3>1. PICK h : IsRun(h, k)
        BY <2>2
      <3> DEFINE g == [i \in 0..(k + 1) |-> IF i <= k THEN h[i] ELSE Then(h[k], k + 1)]
      <3>2. ASSUME NEW i \in 0..(k + 1)
            PROVE  g[i] = IF i = 0 THEN first ELSE Then(g[i - 1], i)
        <4>1. CASE i <= k
          <5>1. h[i] = IF i = 0 THEN first ELSE Then(h[i - 1], i)
            BY <3>1, <4>1
          <5>2. i # 0 => g[i - 1] = h[i - 1]
            BY <4>1
          <5> QED
            BY <4>1, <5>1, <5>2
        <4>2. CASE i = k + 1
          BY <4>2
        <4> QED
          BY <4>1, <4>2
      <3>3. g = [i \in 0..(k + 1) |-> g[i]]
        OBVIOUS
      <3>4. IsRun(g, k + 1)
        <4> HIDE DEF g
        <4> QED
          BY <3>2, <3>3
      <3>5. \E f : IsRun(f, k + 1)
        <4> HIDE DEF g, IsRun
        <4> QED
          BY <3>4
      <3> QED
        BY <3>5
    <2>3. n \in T
      <3> HIDE DEF T
      <3> QED
        BY <1>1, <2>1, <2>2, SetInduction
    <2> QED
      BY <2>3
  <1>8. IsRun(after, n)
    <2> HIDE DEF IsRun
    <2> QED
      BY <1>7
  <1> HIDE DEF after
  <1>9. \A i \in 0..n : after[i] = IF i = 0 THEN first ELSE Then(after[i - 1], i)
    BY <1>8
  <1>10. after[0] = first
    BY <1>1, <1>9
  <1>11. \A i \in 1..n : after[i] = Then(after[i - 1], i)
    BY <1>1, <1>9
  <1>12. HandlesBy(after, u, conn, q)
    BY <1>2, <1>3, <1>10, <1>11 DEF HandlesBy, n, first
  <1> QED
    BY <1>12

\* A connection has its members.
IsConnection(c) ==
    c = [up |-> c.up, session |-> c.session, named |-> c.named, opened |-> c.opened,
         rpc |-> c.rpc, fcgi |-> c.fcgi, subscriptions |-> c.subscriptions,
         asked |-> c.asked, handled |-> c.handled]

\* An open request names the wavelet and changes no socket.
LEMMA OpenRequestHandles ==
    ASSUME NEW c, IsConnection(c), NEW m
    PROVE  LET t == OpenRequest(c, m)
           IN  /\ IsConnection(t) /\ t.handled = Append(c.handled, m)
               /\ t.asked = c.asked /\ t.up = c.up /\ t.session = c.session
               /\ t.rpc = c.rpc /\ t.fcgi = c.fcgi /\ t.subscriptions = c.subscriptions
               /\ t.named
  <1> DEFINE up == c.up
             session == c.session
             named == c.named
             opened == c.opened
             rpc == c.rpc
             fcgi == c.fcgi
             subscriptions == c.subscriptions
             asked == c.asked
             handled == c.handled
             a == Append(c.handled, m)
             b == c.opened \/ m.kind = "open"
             t == OpenRequest(c, m)
  <1>1. c = [up |-> up, session |-> session, named |-> named, opened |-> opened, rpc |-> rpc,
             fcgi |-> fcgi, subscriptions |-> subscriptions, asked |-> asked,
             handled |-> handled]
    BY DEF IsConnection
  <1>2. t = [c EXCEPT !.named = TRUE, !.handled = a, !.opened = b]
    BY DEF OpenRequest
  <1> HIDE DEF up, session, named, opened, rpc, fcgi, subscriptions, asked, handled, b, t
  <1>3. t = [up |-> up, session |-> session, named |-> TRUE, opened |-> b, rpc |-> rpc,
             fcgi |-> fcgi, subscriptions |-> subscriptions, asked |-> asked,
             handled |-> a]
    BY <1>1, <1>2
  <1> HIDE DEF a
  <1>4. IsConnection(t)
    BY <1>3 DEF IsConnection
  <1>5. /\ t.handled = a /\ t.asked = asked /\ t.up = up /\ t.session = session
        /\ t.rpc = rpc /\ t.fcgi = fcgi /\ t.subscriptions = subscriptions /\ t.named
    BY <1>3
  <1> QED
    BY <1>4, <1>5 DEF up, session, rpc, fcgi, subscriptions, asked, a, t

\* What becomes of the connection when q has been handled.
Handled(t, c, q) ==
    /\ IsConnection(t) /\ t.handled = c.handled \o q
    /\ t.asked = c.asked /\ t.up = c.up /\ t.session = c.session
    /\ t.rpc = c.rpc /\ t.fcgi = c.fcgi /\ t.subscriptions = c.subscriptions
    /\ q # <<>> => t.named
    /\ q = <<>> => t.named = c.named

\* Whatever is handled is named in its order, and no socket changes.
LEMMA HandleAllHandles ==
    ASSUME NEW u, NEW c, IsConnection(c), c.handled \in Seq(Requests),
           NEW q \in Seq(Requests)
    PROVE  Handled(HandleAll(u, c, q).conn, c, q)
  <1>1. PICK f : HandlesBy(f, u, c, q)
    BY HandleAllRuns
  <1> DEFINE n == Len(q)
             Done(k) == SubSeq(q, 1, k)
             T == {k \in Nat : k <= n => Handled(f[k].conn, c, Done(k))}
             h == c.handled
  <1>2. n \in Nat /\ h \in Seq(Requests) /\ <<>> \in Seq(Requests)
    BY LenProperties, EmptySeq
  <1>3. \A k \in 1..n : /\ Done(k) = Done(k - 1) \o <<q[k]>>
                        /\ Done(k - 1) \in Seq(Requests) /\ q[k] \in Requests
                        /\ Append(h \o Done(k - 1), q[k]) = h \o Done(k)
                        /\ Done(k) # <<>>
    <2> SUFFICES ASSUME NEW k \in 1..n
                 PROVE  /\ Done(k) = Done(k - 1) \o <<q[k]>>
                        /\ Done(k - 1) \in Seq(Requests) /\ q[k] \in Requests
                        /\ Append(h \o Done(k - 1), q[k]) = h \o Done(k)
                        /\ Done(k) # <<>>
      OBVIOUS
    <2>1. 1 \in 1..Len(q) /\ k \in 1..Len(q)
      BY <1>2
    <2>2. Done(k) = Done(k - 1) \o <<q[k]>>
      BY <2>1, SubSeqRecursiveSecond
    <2>3. q[k] \in Requests
      BY <2>1
    <2>4. Done(k - 1) \in Seq(Requests)
      BY <1>2
    <2> DEFINE d == Done(k - 1)
               e == q[k]
    <2> HIDE DEF Done, d, e, h
    <2>5. d \in Seq(Requests) /\ e \in Requests /\ <<e>> \in Seq(Requests)
      BY <2>3, <2>4 DEF d, e
    <2>6. h \o d \in Seq(Requests) /\ d \o <<e>> \in Seq(Requests)
      BY <1>2, <2>5, ConcatProperties
    <2>7. Append(h \o d, e) = (h \o d) \o <<e>>
      BY <2>5, <2>6, AppendIsConcat
    <2>8. Associate(h, d, <<e>>)
      BY <1>2, <2>5, Associates
    <2>9. Append(h \o d, e) = h \o Done(k)
      BY <2>2, <2>7, <2>8 DEF Associate, d, e
    <2>10. Done(k) # <<>>
      <3>1. Len(d \o <<e>>) = Len(d) + Len(<<e>>) /\ Len(d) \in Nat
        BY <2>5, ConcatLength
      <3>2. Len(<<e>>) = 1
        OBVIOUS
      <3>3. Len(d \o <<e>>) # 0
        BY <3>1, <3>2
      <3> QED
        BY <2>2, <3>3 DEF d, e
    <2> QED
      BY <2>2, <2>3, <2>4, <2>9, <2>10 DEF d, e
  <1>4. 0 \in T
    <2>1. Done(0) = <<>>
      OBVIOUS
    <2>2. h \o <<>> = h
      BY <1>2, ConcatEmptySeq
    <2>3. f[0].conn = c
      BY <1>1 DEF HandlesBy
    <2> HIDE DEF Done
    <2>4. Handled(f[0].conn, c, Done(0))
      BY <2>1, <2>2, <2>3 DEF Handled
    <2> QED
      BY <2>4
  <1>5. ASSUME NEW k \in Nat, k \in T
        PROVE  k + 1 \in T
    <2> SUFFICES ASSUME k + 1 <= n
                 PROVE  Handled(f[k + 1].conn, c, Done(k + 1))
      OBVIOUS
    <2>1. k + 1 \in 1..n /\ (k + 1) - 1 = k /\ k <= n
      BY <1>2
    <2> DEFINE s == f[k].conn
               t == f[k + 1].conn
               d == Done(k)
               e == Done(k + 1)
    <2>2. Handled(s, c, d)
      BY <1>5, <2>1
    <2>3. t = OpenRequest(s, q[k + 1])
      <3>1. f[k + 1] = [server |-> Requested(f[(k + 1) - 1].server, u, q[k + 1]),
                        conn |-> OpenRequest(f[(k + 1) - 1].conn, q[k + 1])]
        BY <1>1, <2>1 DEF HandlesBy
      <3>2. f[k + 1].conn = OpenRequest(f[(k + 1) - 1].conn, q[k + 1])
        BY <3>1
      <3> QED
        BY <2>1, <3>2
    <2>4. Append(h \o d, q[k + 1]) = h \o e /\ e # <<>>
      BY <1>3, <2>1
    <2> HIDE DEF Done, s, t, d, e
    <2>5. /\ IsConnection(t) /\ t.handled = Append(s.handled, q[k + 1])
          /\ t.asked = s.asked /\ t.up = s.up /\ t.session = s.session
          /\ t.rpc = s.rpc /\ t.fcgi = s.fcgi /\ t.subscriptions = s.subscriptions
          /\ t.named
      <3>1. IsConnection(s)
        BY <2>2 DEF Handled
      <3> DEFINE m == q[k + 1]
                 r == OpenRequest(s, m)
      <3> HIDE DEF m
      <3>2. /\ IsConnection(r) /\ r.handled = Append(s.handled, m)
            /\ r.asked = s.asked /\ r.up = s.up /\ r.session = s.session
            /\ r.rpc = s.rpc /\ r.fcgi = s.fcgi /\ r.subscriptions = s.subscriptions
            /\ r.named
        BY <3>1, OpenRequestHandles
      <3> QED
        BY <2>3, <3>2 DEF m
    <2>6. Handled(t, c, e)
      BY <2>2, <2>4, <2>5 DEF Handled
    <2> QED
      BY <2>6 DEF t, e
  <1>6. Handled(f[n].conn, c, Done(n))
    <2> HIDE DEF Done
    <2>1. \A k \in Nat : k \in T
      <3> HIDE DEF T
      <3> QED
        BY <1>4, <1>5, SetInduction
    <2> QED
      BY <1>2, <2>1
  <1>7. Done(n) = q
    BY SubSeqFull
  <1> HIDE DEF Done
  <1> QED
    BY <1>1, <1>6, <1>7 DEF HandlesBy

-----------------------------------------------------------------------------
(* Nothing is lost between a user and his connection. *)

\* The requests p under way to the web server's connection, behind those that have
\* been handled.
Numbered(wire, handled, p) ==
    /\ wire \in Seq([id : Nat, request : Requests])
    /\ Len(wire) = Len(p)
    /\ \A i \in 1..Len(p) : wire[i] = [id |-> Len(handled) + i, request |-> p[i]]

\* The requests p are those that have not been handled.
UnderWay(c, wire, u, p) ==
    /\ c.asked = c.handled \o p
    /\ IF u \in WebUsers THEN Numbered(wire, c.handled, p)
       ELSE wire \in Seq(Bytes) /\ Reads(c.rpc, p, wire)

\* What a connection and its wire are between two steps: no whole record and no
\* byte is left unread, and the requests of the web server have had all numbers.
Unbroken(c, wire, u) ==
    /\ IsConnection(c) /\ c.asked \in Seq(Requests) /\ c.handled \in Seq(Requests)
    /\ c.rpc \in RpcStates /\ c.rpc.unread = <<>>
    /\ c.fcgi \in WebStates /\ c.fcgi.ok /\ c.fcgi.buffer = <<>>
    /\ DOMAIN c.fcgi.requests \subseteq 1..Len(c.handled)
    /\ \E p \in Seq(Requests) : UnderWay(c, wire, u, p)
    /\ ~c.up => wire = <<>>

\* Another connection with the same members, as far as requests go.
LEMMA UnbrokenSame ==
    ASSUME NEW u, NEW c, NEW wire, Unbroken(c, wire, u), NEW t, IsConnection(t),
           t.asked = c.asked, t.handled = c.handled, t.rpc = c.rpc, t.fcgi = c.fcgi,
           ~t.up => wire = <<>>
    PROVE  Unbroken(t, wire, u)
  <1>1. PICK p \in Seq(Requests) : UnderWay(c, wire, u, p)
    BY DEF Unbroken
  <1>2. UnderWay(t, wire, u, p)
    BY <1>1 DEF UnderWay
  <1>3. \E q \in Seq(Requests) : UnderWay(t, wire, u, q)
    BY <1>2
  <1> QED
    BY <1>3 DEF Unbroken

\* A connection that is not there.
LEMMA UnbrokenStarts ==
    ASSUME NEW u, NEW n
    PROVE  LET c == NoConnection(n)
           IN  /\ Unbroken(c, <<>>, u) /\ c.asked = <<>> /\ c.handled = <<>>
               /\ ~c.up /\ c.session = n /\ ~c.named
  <1> DEFINE c == NoConnection(n)
  <1>1. /\ c.up = FALSE /\ c.session = n /\ c.named = FALSE /\ c.opened = FALSE
        /\ c.rpc = NoBytes /\ c.fcgi = Web!NoRecords /\ c.subscriptions = {}
        /\ c.asked = <<>> /\ c.handled = <<>>
    BY DEF NoConnection
  <1>2. IsConnection(c)
    BY DEF NoConnection, IsConnection
  <1> HIDE DEF c
  <1>3. /\ <<>> \in Seq(Requests) /\ <<>> \in Seq(Bytes) /\ <<>> \in Seq(Units)
        /\ <<>> \in Seq([id : Nat, request : Requests])
        /\ <<>> \o <<>> = <<>> /\ Len(<<>>) = 0
    BY EmptySeq, ConcatEmptySeq
  <1>4. /\ NoBytes \in RpcStates /\ NoBytes.unread = <<>> /\ NoBytes.length = <<>>
        /\ NoBytes.buffer = <<>> /\ ~NoBytes.closed
    BY <1>3 DEF NoBytes, RpcStates
  <1>5. /\ Web!NoRecords \in WebStates /\ Web!NoRecords.ok /\ Web!NoRecords.buffer = <<>>
        /\ DOMAIN Web!NoRecords.requests = {}
    <2>1. <<>> \in [{} -> Seq(Units)] /\ {} \in SUBSET Nat
      OBVIOUS
    <2>2. <<>> \in WebRequests /\ DOMAIN <<>> = {}
      BY <2>1 DEF WebRequests
    <2> QED
      BY <1>3, <2>2 DEF WebStates, Web!NoRecords
  <1>6. Reads(NoBytes, <<>>, <<>>)
    <2>1. <<>> \o (<<>> \o (<<>> \o <<>>)) = Stream(<<>>)
      BY <1>3, StreamEmpty
    <2>2. Len(<<>>) <= 2 /\ Len(<<>>) # 2
      BY <1>3
    <2> QED
      BY <1>4, <2>1, <2>2 DEF Reads
  <1>7. UnderWay(c, <<>>, u, <<>>)
    <2>1. Numbered(<<>>, <<>>, <<>>)
      BY <1>3 DEF Numbered
    <2> QED
      BY <1>1, <1>3, <1>6, <2>1 DEF UnderWay
  <1>8. \E p \in Seq(Requests) : UnderWay(c, <<>>, u, p)
    BY <1>3, <1>7
  <1> QED
    BY <1>1, <1>2, <1>3, <1>4, <1>5, <1>8 DEF Unbroken, c

\* Reading continues when there are more bytes to come.
LEMMA ReadsLonger ==
    ASSUME NEW r, NEW p \in Seq(Requests), NEW rest \in Seq(Bytes), NEW m \in Requests,
           Reads(r, p, rest)
    PROVE  Reads(r, Append(p, m), rest \o Frame(m))
  <1> DEFINE f == Frame(m)
             q == Append(p, m)
             a == r.length
             b == r.buffer
             x == r.unread
  <1>1. /\ r \in RpcStates /\ a \in Seq(Bytes) /\ b \in Seq(Bytes) /\ x \in Seq(Bytes)
        /\ f \in Seq(Bytes)
    BY FrameTyped DEF Reads, RpcStates
  <1>2. /\ q \in Seq(Requests) /\ Len(q) = Len(p) + 1 /\ Len(p) \in Nat
        /\ p # <<>> => q # <<>> /\ q[1] = p[1]
    <2>1. /\ q \in Seq(Requests) /\ Len(q) = Len(p) + 1 /\ Len(p) \in Nat
          /\ \A i \in 1..Len(p) : q[i] = p[i]
      BY AppendProperties
    <2> HIDE DEF q
    <2>2. p # <<>> => 1 \in 1..Len(p) /\ Len(q) # 0
      BY <2>1
    <2> QED
      BY <2>1, <2>2
  <1>3. Stream(q) = Stream(p) \o f
    BY StreamAppend
  <1>4. Stream(p) = a \o (b \o (x \o rest))
    BY DEF Reads
  <1> DEFINE y == x \o rest
             z == b \o y
  <1>5. y \in Seq(Bytes) /\ z \in Seq(Bytes)
    <2>1. y \in Seq(Bytes)
      BY <1>1, ConcatProperties
    <2> HIDE DEF y
    <2>2. z \in Seq(Bytes)
      BY <1>1, <2>1, ConcatProperties
    <2> QED
      BY <2>1, <2>2 DEF y
  <1> HIDE DEF a, b, x, f, q
  <1>6. y \o f = x \o (rest \o f)
    <2>1. Associate(x, rest, f)
      BY <1>1, Associates
    <2> QED
      BY <2>1 DEF Associate
  <1>7. Stream(p) = a \o z
    BY <1>4
  <1>8. z \o f = b \o (y \o f)
    <2> HIDE DEF y
    <2>1. Associate(b, y, f)
      BY <1>1, <1>5, Associates
    <2> QED
      BY <2>1 DEF Associate
  <1> HIDE DEF y, z
  <1>9. (a \o z) \o f = a \o (z \o f)
    <2>1. Associate(a, z, f)
      BY <1>1, <1>5, Associates
    <2> QED
      BY <2>1 DEF Associate
  <1>10. a \o (b \o (x \o (rest \o f))) = Stream(q)
    BY <1>3, <1>6, <1>7, <1>8, <1>9
  <1>11. /\ ~r.closed /\ Len(r.length) <= 2
         /\ Len(r.length) < 2 => r.buffer = <<>>
         /\ Len(r.length) = 2 => p # <<>> /\ Len(r.buffer) < RequestSize(p[1])
    BY DEF Reads
  <1>12. Reads(r, q, rest \o f)
    BY <1>1, <1>2, <1>10, <1>11 DEF Reads, a, b, x
  <1> QED
    BY <1>12 DEF f, q

\* A request is sent.
LEMMA AsksUnbroken ==
    ASSUME NEW u, NEW c, NEW wire, Unbroken(c, wire, u), c.up, NEW m \in Requests
    PROVE  Unbroken([c EXCEPT !.asked = Append(@, m)],
                    wire \o IF u \in WebUsers THEN <<[id |-> Len(c.asked) + 1, request |-> m]>>
                            ELSE Frame(m), u)
  <1> DEFINE a == c.asked
             h == c.handled
             t == [c EXCEPT !.asked = Append(a, m)]
             x == [id |-> Len(a) + 1, request |-> m]
             more == IF u \in WebUsers THEN <<x>> ELSE Frame(m)
  <1>1. PICK p \in Seq(Requests) : UnderWay(c, wire, u, p)
    BY DEF Unbroken
  <1> DEFINE q == Append(p, m)
  <1>2. a \in Seq(Requests) /\ h \in Seq(Requests) /\ a = h \o p
    BY <1>1 DEF Unbroken, UnderWay
  <1>3. /\ Append(a, m) \in Seq(Requests) /\ q \in Seq(Requests)
        /\ Len(q) = Len(p) + 1 /\ Len(p) \in Nat /\ q[Len(p) + 1] = m
        /\ \A i \in 1..Len(p) : q[i] = p[i]
    <2> HIDE DEF a, h
    <2> QED
      BY <1>2, AppendProperties
  <1>4. /\ IsConnection(t) /\ t.asked = Append(a, m) /\ t.handled = h /\ t.rpc = c.rpc
        /\ t.fcgi = c.fcgi /\ t.up = c.up
    <2>1. IsConnection(c)
      BY DEF Unbroken
    <2> DEFINE up == c.up
               session == c.session
               named == c.named
               opened == c.opened
               rpc == c.rpc
               fcgi == c.fcgi
               subscriptions == c.subscriptions
               b == Append(a, m)
    <2>2. c = [up |-> up, session |-> session, named |-> named, opened |-> opened, rpc |-> rpc,
               fcgi |-> fcgi, subscriptions |-> subscriptions, asked |-> a, handled |-> h]
      BY <2>1 DEF IsConnection
    <2>3. t = [c EXCEPT !.asked = b]
      OBVIOUS
    <2> HIDE DEF up, session, named, opened, rpc, fcgi, subscriptions, a, h, b, t
    <2>4. t = [up |-> up, session |-> session, named |-> named, opened |-> opened, rpc |-> rpc,
               fcgi |-> fcgi, subscriptions |-> subscriptions, asked |-> b, handled |-> h]
      BY <2>2, <2>3
    <2>5. IsConnection(t)
      BY <2>4 DEF IsConnection
    <2>6. t.asked = b /\ t.handled = h /\ t.rpc = rpc /\ t.fcgi = fcgi /\ t.up = up
      BY <2>4
    <2> QED
      BY <2>5, <2>6 DEF up, rpc, fcgi, b
  <1>5. Append(a, m) = h \o q
    <2> HIDE DEF a, h
    <2>1. <<m>> \in Seq(Requests)
      OBVIOUS
    <2>2. Append(a, m) = a \o <<m>> /\ q = p \o <<m>>
      BY <1>2, AppendIsConcat
    <2>3. Associate(h, p, <<m>>)
      BY <1>2, <2>1, Associates
    <2> QED
      BY <1>2, <2>2, <2>3 DEF Associate
  <1>6. UnderWay(t, wire \o more, u, q)
    <2>1. CASE u \in WebUsers
      <3> DEFINE S == [id : Nat, request : Requests]
                 new == wire \o <<x>>
      <3>1. Numbered(wire, h, p) /\ wire \in Seq(S) /\ Len(wire) = Len(p)
        BY <1>1, <2>1 DEF UnderWay, Numbered
      <3>2. Len(a) = Len(h) + Len(p) /\ Len(h) \in Nat
        <4> HIDE DEF a, h
        <4> QED
          BY <1>2, ConcatLength
      <3>3. x = [id |-> Len(h) + (Len(p) + 1), request |-> q[Len(p) + 1]] /\ x \in S
        <4> HIDE DEF h, q
        <4>1. Len(a) + 1 = Len(h) + (Len(p) + 1) /\ Len(a) + 1 \in Nat
          BY <1>3, <3>2
        <4> QED
          BY <1>3, <4>1
      <3> HIDE DEF x, S
      <3>4. /\ new \in Seq(S) /\ Len(new) = Len(p) + 1 /\ new[Len(p) + 1] = x
            /\ \A i \in 1..Len(p) : new[i] = wire[i]
        <4>1. new = Append(wire, x)
          BY <3>1, <3>3, AppendIsConcat
        <4>2. /\ Append(wire, x) \in Seq(S) /\ Len(Append(wire, x)) = Len(wire) + 1
              /\ Append(wire, x)[Len(wire) + 1] = x
              /\ \A i \in 1..Len(wire) : Append(wire, x)[i] = wire[i]
          BY <3>1, <3>3, AppendProperties
        <4> QED
          BY <3>1, <4>1, <4>2
      <3> HIDE DEF new, q, h
      <3>5. \A i \in 1..Len(q) : new[i] = [id |-> Len(h) + i, request |-> q[i]]
        <4> SUFFICES ASSUME NEW i \in 1..Len(q)
                     PROVE  new[i] = [id |-> Len(h) + i, request |-> q[i]]
          OBVIOUS
        <4>1. CASE i \in 1..Len(p)
          BY <1>3, <3>1, <3>4, <4>1 DEF Numbered
        <4>2. CASE i = Len(p) + 1
          BY <3>3, <3>4, <4>2
        <4> QED
          BY <1>3, <4>1, <4>2
      <3>6. Numbered(new, h, q)
        BY <1>3, <3>4, <3>5 DEF Numbered, S
      <3> QED
        BY <1>4, <1>5, <2>1, <3>6 DEF UnderWay, new
    <2>2. CASE u \notin WebUsers
      <3>1. wire \in Seq(Bytes) /\ Reads(c.rpc, p, wire)
        BY <1>1, <2>2 DEF UnderWay
      <3>2. Frame(m) \in Seq(Bytes)
        BY FrameTyped
      <3>3. wire \o Frame(m) \in Seq(Bytes)
        BY <3>1, <3>2, ConcatProperties
      <3>4. Reads(c.rpc, q, wire \o Frame(m))
        BY <3>1, ReadsLonger
      <3> HIDE DEF q, t, h
      <3> QED
        BY <1>4, <1>5, <2>2, <3>3, <3>4 DEF UnderWay
    <2> QED
      BY <2>1, <2>2
  <1> HIDE DEF a, q, t
  <1>7. \E y \in Seq(Requests) : UnderWay(t, wire \o more, u, y)
    BY <1>3, <1>6
  <1>8. Unbroken(t, wire \o more, u)
    BY <1>3, <1>4, <1>7 DEF Unbroken, h
  <1> QED
    BY <1>8 DEF t, a

\* A number of units, and the others.
LEMMA TakenUnits ==
    ASSUME NEW S, NEW s \in Seq(S), NEW n \in 1..Len(s)
    PROVE  /\ SubSeq(s, 1, n) \in Seq(S) /\ SubSeq(s, n + 1, Len(s)) \in Seq(S)
           /\ s = SubSeq(s, 1, n) \o SubSeq(s, n + 1, Len(s))
           /\ Len(SubSeq(s, n + 1, Len(s))) = Len(s) - n
           /\ \A i \in 1..(Len(s) - n) : SubSeq(s, n + 1, Len(s))[i] = s[i + n]
  <1> DEFINE a == SubSeq(s, 1, n)
             b == SubSeq(s, n + 1, Len(s))
             l == Len(s)
  <1>1. l \in Nat /\ n \in 1..l
    BY LenProperties
  <1>2. a \in Seq(S) /\ Len(a) = n
    BY <1>1
  <1>3. IsPrefix(a, s)
    BY <1>1, <1>2 DEF IsPrefix
  <1>4. s = a \o b
    <2> HIDE DEF a
    <2>1. s = a \o SubSeq(s, Len(a) + 1, Len(s))
      BY <1>2, <1>3, PrefixSplits
    <2> QED
      BY <1>2, <2>1
  <1>5. /\ b \in Seq(S) /\ Len(b) = l - n
        /\ \A i \in 1..(l - n) : b[i] = s[i + n]
    <2>1. \A i \in (n + 1)..l : s[i] \in S
      BY <1>1
    <2>2. n + 1 \in Int /\ l \in Int /\ l - (n + 1) + 1 = l - n /\ (~(n + 1 <= l) => l - n = 0)
      BY <1>1
    <2> HIDE DEF l
    <2>3. /\ SubSeq(s, n + 1, l) \in Seq(S)
          /\ Len(SubSeq(s, n + 1, l)) = IF n + 1 <= l THEN l - (n + 1) + 1 ELSE 0
          /\ \A i \in 1..(l - (n + 1) + 1) : SubSeq(s, n + 1, l)[i] = s[(n + 1) + i - 1]
      BY <2>1, <2>2, SubSeqProperties
    <2>4. \A i \in 1..(l - n) : (n + 1) + i - 1 = i + n
      BY <1>1
    <2> QED
      BY <2>2, <2>3, <2>4 DEF l
  <1> QED
    BY <1>2, <1>4, <1>5 DEF l

\* Only the socket of a connection changes.
LEMMA ConnectionWithRpc ==
    ASSUME NEW c, IsConnection(c), NEW x
    PROVE  LET t == [c EXCEPT !.rpc = x]
           IN  /\ IsConnection(t) /\ t.rpc = x
               /\ t.up = c.up /\ t.session = c.session /\ t.named = c.named /\ t.opened = c.opened
               /\ t.fcgi = c.fcgi /\ t.subscriptions = c.subscriptions /\ t.asked = c.asked /\ t.handled = c.handled
  <1> DEFINE up == c.up
             session == c.session
             named == c.named
             opened == c.opened
             rpc == c.rpc
             fcgi == c.fcgi
             subscriptions == c.subscriptions
             asked == c.asked
             handled == c.handled
             t == [c EXCEPT !.rpc = x]
  <1>1. c = [up |-> up, session |-> session, named |-> named, opened |-> opened, rpc |-> rpc,
             fcgi |-> fcgi, subscriptions |-> subscriptions, asked |-> asked,
             handled |-> handled]
    BY DEF IsConnection
  <1> HIDE DEF up, session, named, opened, rpc, fcgi, subscriptions, asked, handled, t
  <1>2. t = [up |-> up, session |-> session, named |-> named, opened |-> opened, rpc |-> x,
             fcgi |-> fcgi, subscriptions |-> subscriptions, asked |-> asked,
             handled |-> handled]
    BY <1>1 DEF t
  <1>3. IsConnection(t)
    BY <1>2 DEF IsConnection
  <1>4. /\ t.rpc = x
        /\ t.up = up /\ t.session = session /\ t.named = named /\ t.opened = opened
        /\ t.fcgi = fcgi /\ t.subscriptions = subscriptions /\ t.asked = asked /\ t.handled = handled
    BY <1>2
  <1> QED
    BY <1>3, <1>4 DEF up, session, named, opened, rpc, fcgi, subscriptions, asked, handled, t

\* Only the records of a connection change.
LEMMA ConnectionWithFcgi ==
    ASSUME NEW c, IsConnection(c), NEW x
    PROVE  LET t == [c EXCEPT !.fcgi = x]
           IN  /\ IsConnection(t) /\ t.fcgi = x
               /\ t.up = c.up /\ t.session = c.session /\ t.named = c.named /\ t.opened = c.opened
               /\ t.rpc = c.rpc /\ t.subscriptions = c.subscriptions /\ t.asked = c.asked /\ t.handled = c.handled
  <1> DEFINE up == c.up
             session == c.session
             named == c.named
             opened == c.opened
             rpc == c.rpc
             fcgi == c.fcgi
             subscriptions == c.subscriptions
             asked == c.asked
             handled == c.handled
             t == [c EXCEPT !.fcgi = x]
  <1>1. c = [up |-> up, session |-> session, named |-> named, opened |-> opened, rpc |-> rpc,
             fcgi |-> fcgi, subscriptions |-> subscriptions, asked |-> asked,
             handled |-> handled]
    BY DEF IsConnection
  <1> HIDE DEF up, session, named, opened, rpc, fcgi, subscriptions, asked, handled, t
  <1>2. t = [up |-> up, session |-> session, named |-> named, opened |-> opened, rpc |-> rpc,
             fcgi |-> x, subscriptions |-> subscriptions, asked |-> asked,
             handled |-> handled]
    BY <1>1 DEF t
  <1>3. IsConnection(t)
    BY <1>2 DEF IsConnection
  <1>4. /\ t.fcgi = x
        /\ t.up = up /\ t.session = session /\ t.named = named /\ t.opened = opened
        /\ t.rpc = rpc /\ t.subscriptions = subscriptions /\ t.asked = asked /\ t.handled = handled
    BY <1>2
  <1> QED
    BY <1>3, <1>4 DEF up, session, named, opened, rpc, fcgi, subscriptions, asked, handled, t

\* Only the subscriptions of a connection change.
LEMMA ConnectionWithSubscriptions ==
    ASSUME NEW c, IsConnection(c), NEW x
    PROVE  LET t == [c EXCEPT !.subscriptions = x]
           IN  /\ IsConnection(t) /\ t.subscriptions = x
               /\ t.up = c.up /\ t.session = c.session /\ t.named = c.named /\ t.opened = c.opened
               /\ t.rpc = c.rpc /\ t.fcgi = c.fcgi /\ t.asked = c.asked /\ t.handled = c.handled
  <1> DEFINE up == c.up
             session == c.session
             named == c.named
             opened == c.opened
             rpc == c.rpc
             fcgi == c.fcgi
             subscriptions == c.subscriptions
             asked == c.asked
             handled == c.handled
             t == [c EXCEPT !.subscriptions = x]
  <1>1. c = [up |-> up, session |-> session, named |-> named, opened |-> opened, rpc |-> rpc,
             fcgi |-> fcgi, subscriptions |-> subscriptions, asked |-> asked,
             handled |-> handled]
    BY DEF IsConnection
  <1> HIDE DEF up, session, named, opened, rpc, fcgi, subscriptions, asked, handled, t
  <1>2. t = [up |-> up, session |-> session, named |-> named, opened |-> opened, rpc |-> rpc,
             fcgi |-> fcgi, subscriptions |-> x, asked |-> asked,
             handled |-> handled]
    BY <1>1 DEF t
  <1>3. IsConnection(t)
    BY <1>2 DEF IsConnection
  <1>4. /\ t.subscriptions = x
        /\ t.up = up /\ t.session = session /\ t.named = named /\ t.opened = opened
        /\ t.rpc = rpc /\ t.fcgi = fcgi /\ t.asked = asked /\ t.handled = handled
    BY <1>2
  <1> QED
    BY <1>3, <1>4 DEF up, session, named, opened, rpc, fcgi, subscriptions, asked, handled, t

\* Some bytes of a desktop client arrive, and what is complete is handled.
LEMMA ServerReadsUnbroken ==
    ASSUME NEW u, u \notin WebUsers, NEW c, NEW wire, Unbroken(c, wire, u), c.up,
           NEW n \in 1..Len(wire)
    PROVE  LET rpc == Arrived(c.rpc, SubSeq(wire, 1, n))
               conn == [c EXCEPT !.rpc = rpc]
               t == HandleAll(u, conn, rpc.received).conn
           IN  /\ Unbroken(t, SubSeq(wire, n + 1, Len(wire)), u)
               /\ IsConnection(conn) /\ rpc.received \in Seq(Requests)
               /\ conn.up = c.up /\ conn.session = c.session /\ conn.named = c.named
               /\ conn.handled = c.handled
               /\ Handled(t, conn, rpc.received)
  <1> DEFINE a == SubSeq(wire, 1, n)
             b == SubSeq(wire, n + 1, Len(wire))
             rpc == Arrived(c.rpc, a)
             conn == [c EXCEPT !.rpc = rpc]
             r == rpc.received
             t == HandleAll(u, conn, r).conn
             h == c.handled
  <1>1. PICK p \in Seq(Requests) : UnderWay(c, wire, u, p)
    BY DEF Unbroken
  <1>2. /\ wire \in Seq(Bytes) /\ Reads(c.rpc, p, wire) /\ c.asked = h \o p
        /\ h \in Seq(Requests) /\ c.rpc.unread = <<>> /\ IsConnection(c)
    BY <1>1 DEF UnderWay, Unbroken
  <1>3. a \in Seq(Bytes) /\ b \in Seq(Bytes) /\ wire = a \o b
    BY <1>2, TakenUnits
  <1> HIDE DEF a, b
  <1>4. \E q \in Seq(Requests) : /\ rpc.received \in Seq(Requests) /\ p = rpc.received \o q
                                 /\ Reads(rpc, q, b) /\ rpc.unread = <<>>
    BY <1>2, <1>3, ArrivedReads
  <1> HIDE DEF rpc
  <1>5. PICK q \in Seq(Requests) : /\ rpc.received \in Seq(Requests) /\ p = rpc.received \o q
                                   /\ Reads(rpc, q, b) /\ rpc.unread = <<>>
    BY <1>4
  <1>6. /\ IsConnection(conn) /\ conn.asked = c.asked /\ conn.handled = h /\ conn.rpc = rpc
        /\ conn.fcgi = c.fcgi /\ conn.up = c.up /\ conn.session = c.session
        /\ conn.named = c.named
    <2>1. IsConnection(c)
      BY <1>2
    <2> HIDE DEF r, t
    <2> QED
      BY <2>1, ConnectionWithRpc
  <1> HIDE DEF conn, r
  <1>7. Handled(t, conn, r)
    BY <1>2, <1>5, <1>6, HandleAllHandles DEF r
  <1> HIDE DEF t
  <1>8. /\ IsConnection(t) /\ t.handled = h \o r /\ t.asked = c.asked /\ t.up = c.up
        /\ t.rpc = rpc /\ t.fcgi = c.fcgi
    BY <1>6, <1>7 DEF Handled
  <1>9. /\ h \o r \in Seq(Requests) /\ c.asked = (h \o r) \o q
        /\ Len(h) <= Len(h \o r) /\ Len(h) \in Nat /\ Len(h \o r) \in Nat
    <2>1. r \in Seq(Requests) /\ p = r \o q /\ h \in Seq(Requests) /\ c.asked = h \o p
      BY <1>2, <1>5 DEF r
    <2> HIDE DEF h
    <2>2. Associate(h, r, q)
      BY <2>1, Associates
    <2>3. /\ h \o r \in Seq(Requests) /\ Len(h \o r) = Len(h) + Len(r)
          /\ Len(h) \in Nat /\ Len(r) \in Nat
      BY <2>1, ConcatLength
    <2> QED
      BY <2>1, <2>2, <2>3 DEF Associate
  <1>10. UnderWay(t, b, u, q)
    BY <1>3, <1>5, <1>8, <1>9 DEF UnderWay
  <1>11. rpc \in RpcStates
    BY <1>5 DEF Reads
  <1>12. /\ c.fcgi \in WebStates /\ c.fcgi.ok /\ c.fcgi.buffer = <<>>
         /\ DOMAIN c.fcgi.requests \subseteq 1..Len(h) /\ c.asked \in Seq(Requests)
    BY DEF Unbroken
  <1>13. 1..Len(h) \subseteq 1..Len(t.handled)
    BY <1>8, <1>9
  <1>14. \E y \in Seq(Requests) : UnderWay(t, b, u, y)
    BY <1>10
  <1>15. Unbroken(t, b, u)
    <2>1. DOMAIN t.fcgi.requests \subseteq 1..Len(t.handled)
      BY <1>8, <1>12, <1>13
    <2> HIDE DEF h
    <2> QED
      BY <1>5, <1>8, <1>9, <1>11, <1>12, <1>14, <2>1 DEF Unbroken
  <1> QED
    BY <1>5, <1>6, <1>7, <1>15 DEF a, b, rpc, conn, r, t

\* The records of a browser's request arrive, and it is handled.
LEMMA ServerTakesUnbroken ==
    ASSUME NEW u, u \in WebUsers, NEW c, NEW wire, Unbroken(c, wire, u), c.up, wire # <<>>,
           NEW cut \in 1..Len(Web!RecordsOf(Head(wire).id, Head(wire).request))
    PROVE  LET fcgi == Web!ArrivedCut(c.fcgi, Web!RecordsOf(Head(wire).id, Head(wire).request), cut)
               conn == [c EXCEPT !.fcgi = fcgi]
               t == HandleAll(u, conn, fcgi.received).conn
           IN  /\ Unbroken(t, SubSeq(wire, 2, Len(wire)), u)
               /\ IsConnection(conn) /\ fcgi.received \in Seq(Requests)
               /\ conn.up = c.up /\ conn.session = c.session /\ conn.named = c.named
               /\ conn.handled = c.handled
               /\ Handled(t, conn, fcgi.received)
  <1> DEFINE S == [id : Nat, request : Requests]
             id == Head(wire).id
             m == Head(wire).request
             b == SubSeq(wire, 2, Len(wire))
             fcgi == Web!ArrivedCut(c.fcgi, Web!RecordsOf(id, m), cut)
             conn == [c EXCEPT !.fcgi = fcgi]
             r == fcgi.received
             t == HandleAll(u, conn, r).conn
             h == c.handled
  <1>1. PICK p \in Seq(Requests) : UnderWay(c, wire, u, p)
    BY DEF Unbroken
  <1>2. /\ Numbered(wire, h, p) /\ c.asked = h \o p /\ c.asked \in Seq(Requests)
        /\ h \in Seq(Requests) /\ IsConnection(c) /\ c.rpc \in RpcStates /\ c.rpc.unread = <<>>
        /\ c.fcgi \in WebStates /\ c.fcgi.buffer = <<>>
        /\ DOMAIN c.fcgi.requests \subseteq 1..Len(h)
    BY <1>1 DEF UnderWay, Unbroken
  <1>3. /\ wire \in Seq(S) /\ Len(wire) = Len(p) /\ Len(p) \in Nat /\ Len(h) \in Nat
        /\ \A i \in 1..Len(p) : wire[i] = [id |-> Len(h) + i, request |-> p[i]]
    <2>1. Len(p) \in Nat /\ Len(h) \in Nat
      <3> HIDE DEF h
      <3> QED
        BY <1>2, LenProperties
    <2> QED
      BY <1>2, <2>1 DEF Numbered
  <1>4. Len(p) >= 1 /\ 1 \in 1..Len(p) /\ p # <<>> /\ Head(wire) = wire[1]
    <2>1. Len(wire) # 0
      BY <1>3
    <2> QED
      BY <1>3, <2>1
  <1>5. id = Len(h) + 1 /\ m = p[1]
    <2> HIDE DEF h
    <2>1. wire[1] = [id |-> Len(h) + 1, request |-> p[1]]
      BY <1>3, <1>4
    <2>2. wire[1].id = Len(h) + 1 /\ wire[1].request = p[1]
      BY <2>1
    <2> QED
      BY <1>4, <2>2
  <1>6. m \in Requests /\ Tail(p) \in Seq(Requests) /\ p = <<m>> \o Tail(p) /\ <<m>> \in Seq(Requests)
    BY <1>4, <1>5, StreamHead
  <1>7. id \in Nat /\ id \notin DOMAIN c.fcgi.requests
    BY <1>2, <1>3, <1>5
  <1> HIDE DEF id, m
  <1>8. /\ fcgi \in WebStates /\ fcgi.ok /\ fcgi.buffer = <<>> /\ fcgi.received = <<m>>
        /\ DOMAIN fcgi.requests = DOMAIN c.fcgi.requests \cup {id}
    <2> DEFINE f == c.fcgi
    <2>1. f \in WebStates /\ f.buffer = <<>> /\ id \notin DOMAIN f.requests
      BY <1>2, <1>7
    <2>2. cut \in 1..Len(Web!RecordsOf(id, m))
      BY DEF id, m
    <2> HIDE DEF f
    <2> DEFINE g == Web!ArrivedCut(f, Web!RecordsOf(id, m), cut)
    <2>3. /\ g \in WebStates /\ g.ok /\ g.buffer = <<>>
          /\ DOMAIN g.requests = DOMAIN f.requests \cup {id}
          /\ g.received = <<m>>
      BY <1>6, <1>7, <2>1, <2>2, ArrivedCutProcesses
    <2> QED
      BY <2>3 DEF f
  <1> HIDE DEF fcgi
  <1>9. /\ IsConnection(conn) /\ conn.asked = c.asked /\ conn.handled = h /\ conn.rpc = c.rpc
        /\ conn.fcgi = fcgi /\ conn.up = c.up /\ conn.session = c.session
        /\ conn.named = c.named
    <2>1. IsConnection(c)
      BY <1>2
    <2> HIDE DEF r, t
    <2> QED
      BY <2>1, ConnectionWithFcgi, ZenonT(60)
  <1> HIDE DEF conn, r
  <1>10. Handled(t, conn, r)
    <2>1. r \in Seq(Requests)
      BY <1>6, <1>8 DEF r
    <2> QED
      BY <1>2, <1>9, <2>1, HandleAllHandles
  <1> HIDE DEF t
  <1>11. /\ IsConnection(t) /\ t.handled = h \o <<m>> /\ t.asked = c.asked /\ t.up = c.up
         /\ t.rpc = c.rpc /\ t.fcgi = fcgi
    BY <1>8, <1>9, <1>10 DEF Handled, r
  <1> DEFINE q == Tail(p)
             g == h \o <<m>>
  <1>12. /\ g \in Seq(Requests) /\ c.asked = g \o q /\ Len(g) = Len(h) + 1
         /\ q \in Seq(Requests)
    <2>1. q \in Seq(Requests) /\ p = <<m>> \o q /\ h \in Seq(Requests) /\ c.asked = h \o p
      BY <1>2, <1>6
    <2> HIDE DEF h, q
    <2>2. Associate(h, <<m>>, q)
      BY <1>6, <2>1, Associates
    <2>3. g \in Seq(Requests) /\ Len(g) = Len(h) + Len(<<m>>)
      BY <1>6, <2>1, ConcatLength
    <2>4. Len(<<m>>) = 1
      OBVIOUS
    <2> QED
      BY <2>1, <2>2, <2>3, <2>4 DEF Associate
  <1>13. /\ Len(q) = Len(p) - 1
         /\ \A i \in 1..Len(q) : q[i] = p[i + 1]
    BY <1>4, HeadTailProperties
  <1>14. /\ b \in Seq(S) /\ Len(b) = Len(p) - 1
         /\ \A i \in 1..(Len(p) - 1) : b[i] = wire[i + 1]
    <2> HIDE DEF S
    <2>1. 1 \in 1..Len(wire) /\ 1 + 1 = 2
      BY <1>3, <1>4
    <2> QED
      BY <1>3, <2>1, TakenUnits
  <1> HIDE DEF b, q, g, h, S
  <1>15. Numbered(b, g, q)
    <2>1. \A i \in 1..Len(q) : b[i] = [id |-> Len(g) + i, request |-> q[i]]
      <3> SUFFICES ASSUME NEW i \in 1..Len(q)
                   PROVE  b[i] = [id |-> Len(g) + i, request |-> q[i]]
        OBVIOUS
      <3>1. i + 1 \in 1..Len(p) /\ Len(g) + i = Len(h) + (i + 1) /\ i \in 1..(Len(p) - 1)
        BY <1>3, <1>12, <1>13
      <3> QED
        BY <1>3, <1>13, <1>14, <3>1
    <2> QED
      BY <1>13, <1>14, <2>1 DEF Numbered, S
  <1>16. UnderWay(t, b, u, q)
    <2>1. t.asked = t.handled \o q
      BY <1>11, <1>12 DEF g
    <2>2. Numbered(b, t.handled, q)
      BY <1>11, <1>15 DEF g
    <2> QED
      BY <2>1, <2>2 DEF UnderWay
  <1>17. DOMAIN t.fcgi.requests \subseteq 1..Len(t.handled)
    <2> DEFINE x == Len(h)
               d == DOMAIN c.fcgi.requests
    <2>1. d \subseteq 1..x /\ x \in Nat /\ id = x + 1
      BY <1>2, <1>3, <1>5
    <2>2. DOMAIN t.fcgi.requests = d \cup {id} /\ Len(t.handled) = x + 1
      BY <1>8, <1>11, <1>12 DEF g
    <2> HIDE DEF x, d
    <2>3. d \cup {id} \subseteq 1..(x + 1)
      BY <2>1
    <2> QED
      BY <2>2, <2>3
  <1>18. \E y \in Seq(Requests) : UnderWay(t, b, u, y)
    BY <1>12, <1>16
  <1>19. Unbroken(t, b, u)
    <2>1. t.handled \in Seq(Requests)
      BY <1>11, <1>12 DEF g
    <2>2. /\ t.asked \in Seq(Requests) /\ t.rpc \in RpcStates /\ t.rpc.unread = <<>>
          /\ t.fcgi \in WebStates /\ t.fcgi.ok /\ t.fcgi.buffer = <<>> /\ t.up
      BY <1>2, <1>8, <1>11
    <2> QED
      BY <1>11, <1>17, <1>18, <2>1, <2>2 DEF Unbroken
  <1>20. r \in Seq(Requests)
    BY <1>6, <1>8 DEF r
  <1> QED
    BY <1>9, <1>10, <1>19, <1>20 DEF b, id, m, fcgi, conn, r, t, h

\* The inductive invariant of the connections and the wires.
SocketsUnbroken ==
    /\ conns = [u \in Users |-> conns[u]]
    /\ wires = [u \in Users |-> wires[u]]
    /\ \A u \in Users : Unbroken(conns[u], wires[u], u)

\* What changes at one user's end.
LEMMA OneUserChanges ==
    ASSUME SocketsUnbroken, NEW u, NEW c, NEW wire, u \in Users => Unbroken(c, wire, u),
           conns' = [conns EXCEPT ![u] = c], wires' = [wires EXCEPT ![u] = wire]
    PROVE  SocketsUnbroken'
  <1>1. conns' = [v \in Users |-> conns'[v]] /\ wires' = [v \in Users |-> wires'[v]]
    BY DEF SocketsUnbroken
  <1>2. \A v \in Users : /\ conns'[v] = IF v = u THEN c ELSE conns[v]
                         /\ wires'[v] = IF v = u THEN wire ELSE wires[v]
    BY DEF SocketsUnbroken
  <1>3. \A v \in Users : Unbroken(conns'[v], wires'[v], v)
    BY <1>2 DEF SocketsUnbroken
  <1> QED
    BY <1>1, <1>3 DEF SocketsUnbroken

\* A connection remembers what it subscribed to.
LEMMA SubscriptionsChange ==
    ASSUME SocketsUnbroken, NEW u, NEW x,
           conns' = [conns EXCEPT ![u].subscriptions = x], wires' = wires
    PROVE  SocketsUnbroken'
  <1> DEFINE c == conns[u]
             t == [c EXCEPT !.subscriptions = x]
  <1>1. conns' = [conns EXCEPT ![u] = t]
    OBVIOUS
  <1>2. wires' = [wires EXCEPT ![u] = wires[u]]
    BY DEF SocketsUnbroken
  <1>3. ASSUME u \in Users
        PROVE  Unbroken(t, wires[u], u)
    <2>1. Unbroken(c, wires[u], u) /\ IsConnection(c)
      BY <1>3 DEF SocketsUnbroken, Unbroken
    <2> HIDE DEF c
    <2>2. /\ IsConnection(t) /\ t.up = c.up /\ t.asked = c.asked /\ t.handled = c.handled
          /\ t.rpc = c.rpc /\ t.fcgi = c.fcgi
      BY <2>1, ConnectionWithSubscriptions
    <2>3. ~t.up => wires[u] = <<>>
      BY <2>1, <2>2 DEF Unbroken
    <2> HIDE DEF t
    <2> QED
      BY <2>1, <2>2, <2>3, UnbrokenSame
  <1> DEFINE wire == wires[u]
  <1>4. u \in Users => Unbroken(t, wire, u)
    BY <1>3
  <1>5. wires' = [wires EXCEPT ![u] = wire]
    BY <1>2
  <1> HIDE DEF t, wire
  <1> QED
    BY <1>1, <1>4, <1>5, OneUserChanges

\* Everything is fine when the server starts.
LEMMA SocketsStart == Init => SocketsUnbroken
  <1> SUFFICES ASSUME Init
               PROVE  SocketsUnbroken
    OBVIOUS
  <1>1. conns = [u \in Users |-> NoConnection(0)] /\ wires = [u \in Users |-> <<>>]
    BY DEF Init
  <1>2. \A u \in Users : Unbroken(NoConnection(0), <<>>, u)
    BY UnbrokenStarts
  <1> QED
    BY <1>1, <1>2 DEF SocketsUnbroken

\* A connection that is made.
LEMMA FreshConnection ==
    ASSUME NEW n, NEW x
    PROVE  LET c == [NoConnection(n) EXCEPT !.up = TRUE, !.named = x]
           IN  /\ IsConnection(c) /\ c.asked = NoConnection(n).asked
               /\ c.handled = NoConnection(n).handled
               /\ c.rpc = NoConnection(n).rpc /\ c.fcgi = NoConnection(n).fcgi
               /\ c.up /\ c.session = n /\ c.named = x /\ c.subscriptions = {}
  <1> DEFINE none == Web!NoRecords
             c == [NoConnection(n) EXCEPT !.up = TRUE, !.named = x]
  <1>1. NoConnection(n) =
           [up |-> FALSE, session |-> n, named |-> FALSE, opened |-> FALSE,
            rpc |-> NoBytes, fcgi |-> none, subscriptions |-> {},
            asked |-> <<>>, handled |-> <<>>]
    BY DEF NoConnection
  <1>2. /\ NoConnection(n).asked = <<>> /\ NoConnection(n).handled = <<>>
        /\ NoConnection(n).rpc = NoBytes /\ NoConnection(n).fcgi = none
    BY <1>1
  <1> DEFINE d == NoConnection(n)
             no == FALSE
             nobytes == NoBytes
             nothing == {}
             empty == <<>>
  <1>6. d = [up |-> no, session |-> n, named |-> no, opened |-> no,
             rpc |-> nobytes, fcgi |-> none, subscriptions |-> nothing,
             asked |-> empty, handled |-> empty]
    BY <1>1
  <1> HIDE DEF none, d, no, nobytes, nothing, empty
  <1>7. c = [d EXCEPT !.up = TRUE, !.named = x]
    BY DEF d
  <1> HIDE DEF c
  <1>8. c = [up |-> TRUE, session |-> n, named |-> x, opened |-> no,
             rpc |-> nobytes, fcgi |-> none, subscriptions |-> nothing,
             asked |-> empty, handled |-> empty]
    BY <1>6, <1>7
  <1>3. c = [up |-> TRUE, session |-> n, named |-> x, opened |-> FALSE,
             rpc |-> NoBytes, fcgi |-> none, subscriptions |-> {},
             asked |-> <<>>, handled |-> <<>>]
    BY <1>8 DEF no, nobytes, nothing, empty
  <1> HIDE DEF c
  <1>4. IsConnection(c)
    BY <1>3 DEF IsConnection
  <1>5. /\ c.asked = <<>> /\ c.handled = <<>> /\ c.rpc = NoBytes /\ c.fcgi = none
        /\ c.up /\ c.session = n /\ c.named = x /\ c.subscriptions = {}
    BY <1>3
  <1> QED
    BY <1>2, <1>4, <1>5 DEF c

\* A user connects: his wire was empty.
LEMMA ConnectsUnbroken ==
    ASSUME SocketsUnbroken, NEW u \in Users, UserConnects(u)
    PROVE  SocketsUnbroken'
  <1> DEFINE n == conns[u].session + 1
             c == [NoConnection(n) EXCEPT !.up = TRUE, !.named = u \in WebUsers]
             t == [c EXCEPT !.asked = Append(@, OpenIndex)]
             more == IF u \in WebUsers THEN <<[id |-> Len(c.asked) + 1, request |-> OpenIndex]>>
                     ELSE Frame(OpenIndex)
  <1>1. /\ conns' = [conns EXCEPT ![u] = t]
        /\ wires' = [wires EXCEPT ![u] = wires[u] \o more]
    BY DEF UserConnects, Asks
  <1>2. wires[u] = <<>>
    BY DEF UserConnects, SocketsUnbroken, Unbroken
  <1>3. Unbroken(NoConnection(n), <<>>, u)
    BY UnbrokenStarts
  <1>4. /\ IsConnection(c) /\ c.asked = NoConnection(n).asked
        /\ c.handled = NoConnection(n).handled
        /\ c.rpc = NoConnection(n).rpc /\ c.fcgi = NoConnection(n).fcgi /\ c.up
    <2> DEFINE web == u \in WebUsers
               d == [NoConnection(n) EXCEPT !.up = TRUE, !.named = web]
    <2>1. c = d
      OBVIOUS
    <2> HIDE DEF web, c, n
    <2>2. /\ IsConnection(d) /\ d.asked = NoConnection(n).asked
          /\ d.handled = NoConnection(n).handled
          /\ d.rpc = NoConnection(n).rpc /\ d.fcgi = NoConnection(n).fcgi /\ d.up
      BY FreshConnection, ZenonT(60)
    <2> QED
      BY <2>1, <2>2
  <1> HIDE DEF c
  <1>5. Unbroken(c, <<>>, u)
    BY <1>3, <1>4, UnbrokenSame
  <1>6. OpenIndex \in Requests
    BY DEF Requests
  <1>7. Unbroken(t, <<>> \o more, u)
    BY <1>4, <1>5, <1>6, AsksUnbroken
  <1> HIDE DEF t, more
  <1> QED
    BY <1>1, <1>2, <1>7, OneUserChanges

\* A user opens a wavelet.
LEMMA OpensUnbroken ==
    ASSUME SocketsUnbroken, NEW u \in Users, NEW w \in Wavelets, UserOpens(u, w)
    PROVE  SocketsUnbroken'
  <1> DEFINE c == conns[u]
             m == OpenWavelet(w)
             t == [c EXCEPT !.asked = Append(@, m)]
             more == IF u \in WebUsers THEN <<[id |-> Len(c.asked) + 1, request |-> m]>>
                     ELSE Frame(m)
  <1>1. /\ conns' = [conns EXCEPT ![u] = t]
        /\ wires' = [wires EXCEPT ![u] = wires[u] \o more]
    BY DEF UserOpens, Asks
  <1>2. Unbroken(c, wires[u], u) /\ c.up
    BY DEF SocketsUnbroken, UserOpens
  <1>3. m \in Requests
    BY DEF Requests
  <1> HIDE DEF c, m
  <1>4. Unbroken(t, wires[u] \o more, u)
    BY <1>2, <1>3, AsksUnbroken
  <1> HIDE DEF t, more
  <1> QED
    BY <1>1, <1>4, OneUserChanges

\* The invariant is kept by every step.
LEMMA SocketsStep ==
    ASSUME SocketsUnbroken, [Next]_sessionVars
    PROVE  SocketsUnbroken'
  <1>1. ASSUME UNCHANGED <<conns, wires>>
        PROVE  SocketsUnbroken'
    <2>1. conns' = conns /\ wires' = wires
      BY <1>1
    <2> QED
      BY <2>1 DEF SocketsUnbroken
  <1>2. CASE WaveletGets \/ ActorStarts \/ ActorEnters \/ StoreGets \/ SubmitCommits
             \/ HistoryComes \/ ConnectionGets
    BY <1>1, <1>2 DEF WaveletGets, ActorStarts, ActorEnters, StoreGets, SubmitCommits,
                      HistoryComes, ConnectionGets
  <1>3. CASE ListingComes
    <2> DEFINE e == Head(events)
               u == e.conn[1]
               found == IF u \in WebUsers
                        THEN {w \in ToSet(e.wavelets) : wavelets[w].loaded} ELSE {}
    <2>1. wires' = wires
      BY <1>3 DEF ListingComes
    <2>2. \/ conns' = [conns EXCEPT ![u].subscriptions = conns[u].subscriptions \cup found]
          \/ conns' = conns
      BY <1>3 DEF ListingComes
    <2> HIDE DEF u, found
    <2> QED
      BY <1>1, <2>1, <2>2, SubscriptionsChange
  <1>4. CASE InvitationComes
    <2> DEFINE u == Head(events).user
               w == Head(events).wavelet
    <2>1. wires' = wires
      BY <1>4 DEF InvitationComes
    <2>2. \/ conns' = [conns EXCEPT ![u].subscriptions = conns[u].subscriptions \cup {w}]
          \/ conns' = conns
      BY <1>4 DEF InvitationComes
    <2> HIDE DEF u, w
    <2> QED
      BY <1>1, <2>1, <2>2, SubscriptionsChange
  <1>5. CASE Restart
    <2>1. /\ conns' = [u \in Users |-> NoConnection(conns[u].session)]
          /\ wires' = [u \in Users |-> <<>>]
      BY <1>5 DEF Restart
    <2>2. \A u \in Users : Unbroken(NoConnection(conns[u].session), <<>>, u)
      BY UnbrokenStarts
    <2> QED
      BY <2>1, <2>2 DEF SocketsUnbroken
  <1>6. CASE \E w \in Wavelets : AuthorSubmits(w)
    BY <1>1, <1>6 DEF AuthorSubmits
  <1>7. ASSUME NEW u \in Users, ServerReads(u)
        PROVE  SocketsUnbroken'
    <2>1. u \notin WebUsers /\ conns[u].up
      BY <1>7 DEF ServerReads
    <2> DEFINE wire == wires[u]
               c == conns[u]
               rpc(n) == Arrived(c.rpc, SubSeq(wire, 1, n))
               conn(n) == [c EXCEPT !.rpc = rpc(n)]
               t(n) == HandleAll(u, conn(n), rpc(n).received).conn
               left(n) == SubSeq(wire, n + 1, Len(wire))
    <2>2. PICK n \in 1..Len(wire) : Takes(u, n, conn(n), rpc(n).received)
      BY <1>7 DEF ServerReads
    <2>3. conns' = [conns EXCEPT ![u] = t(n)] /\ wires' = [wires EXCEPT ![u] = left(n)]
      BY <2>2 DEF Takes
    <2>4. Unbroken(c, wire, u)
      BY DEF SocketsUnbroken
    <2>5. Unbroken(t(n), left(n), u)
      <3> HIDE DEF c, wire
      <3>1. c.up
        BY <2>1 DEF c
      <3> QED
        BY <2>1, <2>4, <3>1, ServerReadsUnbroken
    <2> HIDE DEF t, left
    <2> QED
      BY <2>3, <2>5, OneUserChanges
  <1>8. ASSUME NEW u \in Users, ServerTakes(u)
        PROVE  SocketsUnbroken'
    <2>1. u \in WebUsers /\ conns[u].up /\ wires[u] # <<>>
      BY <1>8 DEF ServerTakes
    <2> DEFINE wire == wires[u]
               c == conns[u]
               records == Web!RecordsOf(Head(wire).id, Head(wire).request)
               fcgi(n) == Web!ArrivedCut(c.fcgi, records, n)
               conn(n) == [c EXCEPT !.fcgi = fcgi(n)]
               t(n) == HandleAll(u, conn(n), fcgi(n).received).conn
               left == SubSeq(wire, 2, Len(wire))
    <2>2. PICK n \in 1..Len(records) : Takes(u, 1, conn(n), fcgi(n).received)
      BY <1>8 DEF ServerTakes
    <2>3. conns' = [conns EXCEPT ![u] = t(n)] /\ wires' = [wires EXCEPT ![u] = left]
      BY <2>2 DEF Takes
    <2>4. Unbroken(c, wire, u)
      BY DEF SocketsUnbroken
    <2>5. Unbroken(t(n), left, u)
      <3> HIDE DEF c, wire
      <3>1. c.up /\ wire # <<>>
        BY <2>1 DEF c, wire
      <3> QED
        BY <2>1, <2>4, <3>1, ServerTakesUnbroken
    <2> HIDE DEF t, left
    <2> QED
      BY <2>3, <2>5, OneUserChanges
  <1>9. ASSUME NEW u \in Users, UserConnects(u)
        PROVE  SocketsUnbroken'
    BY <1>9, ConnectsUnbroken
  <1>10. ASSUME NEW u \in Users, UserLeaves(u)
         PROVE  SocketsUnbroken'
    <2> DEFINE c == NoConnection(conns[u].session)
    <2>1. conns' = [conns EXCEPT ![u] = c] /\ wires' = [wires EXCEPT ![u] = <<>>]
      BY <1>10 DEF UserLeaves
    <2>2. Unbroken(c, <<>>, u)
      BY UnbrokenStarts
    <2> HIDE DEF c
    <2> QED
      BY <2>1, <2>2, OneUserChanges
  <1>11. ASSUME NEW u \in Users, NEW w \in Wavelets, UserOpens(u, w)
         PROVE  SocketsUnbroken'
    BY <1>11, OpensUnbroken
  <1>12. CASE UNCHANGED sessionVars
    BY <1>1, <1>12 DEF sessionVars
  <1> QED
    BY <1>2, <1>3, <1>4, <1>5, <1>6, <1>7, <1>8, <1>9, <1>10, <1>11, <1>12 DEF Next

\* What the invariant says of the requests.
LEMMA SocketsShow == SocketsUnbroken => RequestsUnbroken
  <1> SUFFICES ASSUME SocketsUnbroken, NEW u \in Users
               PROVE  /\ IsPrefix(conns[u].handled, conns[u].asked)
                      /\ IF u \in WebUsers THEN UnbrokenRecords(u) ELSE UnbrokenBytes(u)
    BY DEF RequestsUnbroken
  <1> DEFINE c == conns[u]
             wire == wires[u]
             h == c.handled
             a == c.asked
  <1>1. Unbroken(c, wire, u)
    BY DEF SocketsUnbroken
  <1>2. PICK p \in Seq(Requests) : UnderWay(c, wire, u, p)
    BY <1>1 DEF Unbroken
  <1>3. h \in Seq(Requests) /\ a = h \o p
    BY <1>1, <1>2 DEF Unbroken, UnderWay
  <1>4. IsPrefix(h, a) /\ SubSeq(a, Len(h) + 1, Len(a)) = p
    <2> HIDE DEF a, h
    <2> QED
      BY <1>3, ConcatSplits
  <1>5. Left(u) = p
    BY <1>4 DEF Left
  <1>6. CASE u \in WebUsers
    <2>1. Numbered(wire, h, p)
      BY <1>2, <1>6 DEF UnderWay
    <2>2. [i \in DOMAIN wire |-> wire[i].request] = p
      <3> HIDE DEF wire, h
      <3>1. DOMAIN wire = 1..Len(p) /\ p = [i \in 1..Len(p) |-> p[i]]
        BY <2>1 DEF Numbered
      <3>2. ASSUME NEW i \in 1..Len(p)
            PROVE  wire[i].request = p[i]
        <4>1. wire[i] = [id |-> Len(h) + i, request |-> p[i]]
          BY <2>1 DEF Numbered
        <4> QED
          BY <4>1
      <3> QED
        BY <3>1, <3>2
    <2>3. UnbrokenRecords(u)
      BY <1>1, <1>5, <2>2 DEF UnbrokenRecords, Unbroken
    <2> QED
      BY <1>4, <1>6, <2>3
  <1>7. CASE u \notin WebUsers
    <2>1. wire \in Seq(Bytes) /\ Reads(c.rpc, p, wire) /\ c.rpc.unread = <<>>
      BY <1>1, <1>2, <1>7 DEF UnderWay, Unbroken
    <2> DEFINE x == c.rpc.length
               y == c.rpc.buffer
    <2>2. x \in Seq(Bytes) /\ y \in Seq(Bytes) /\ ~c.rpc.closed
      BY <2>1 DEF Reads, RpcStates
    <2>3. x \o (y \o wire) = Stream(p)
      <3>1. x \o (y \o (<<>> \o wire)) = Stream(p)
        BY <2>1 DEF Reads
      <3>2. <<>> \o wire = wire
        BY <2>1, ConcatEmptySeq
      <3> QED
        BY <3>1, <3>2
    <2> HIDE DEF x, y
    <2>4. (x \o y) \o wire = Stream(p)
      <3>1. Associate(x, y, wire)
        BY <2>1, <2>2, Associates
      <3> QED
        BY <2>3, <3>1 DEF Associate
    <2>5. UnbrokenBytes(u)
      <3>1. FlattenSeq([i \in DOMAIN p |-> Frame(p[i])]) = Stream(p)
        BY DEF Stream, Frames
      <3> QED
        BY <1>5, <2>1, <2>2, <2>4, <3>1 DEF UnbrokenBytes, x, y
    <2> QED
      BY <1>4, <1>7, <2>5
  <1> QED
    BY <1>6, <1>7

\* In whatever pieces bytes and records come, the requests handled are those that
\* were sent, in their order, and what is not handled has all its bytes: for any
\* number of users, wavelets and sessions (rpc.cpp, fcgiprotocol.cpp, fcgirequest.cpp).
THEOREM RequestsAreUnbroken == SessionsSpec => []RequestsUnbroken
  <1>1. SocketsUnbroken /\ [Next]_sessionVars => SocketsUnbroken'
    BY SocketsStep
  <1> QED
    BY SocketsStart, <1>1, SocketsShow, PTL DEF SessionsSpec

-----------------------------------------------------------------------------
(* What a log says of a user: the last delta about him adds him.              *)

Ops == {Add(u) : u \in Users} \cup {Expel(u) : u \in Users} \cup {Start, Type}
DeltaSet == Seq(Ops)
Logs == Seq(DeltaSet)

Adds(delta, u) == \E i \in DOMAIN delta : delta[i] = Add(u)
Expels(delta, u) == \E i \in DOMAIN delta : delta[i] = Expel(u)

\* The store removes last, whatever the order in the delta.
IndexSays(u, log) ==
    \E i \in DOMAIN log : /\ Adds(log[i], u) /\ ~Expels(log[i], u)
                          /\ \A j \in DOMAIN log : j > i => ~Expels(log[j], u)

SwappedLast(u, log) ==
    \E i \in DOMAIN log : Swaps(log[i], u) /\ \A j \in DOMAIN log : j > i => ~Touches(log[j], u)

\* The participants are those the log speaks of, but for a user that is removed
\* and added at once.
Agrees(participants, log) ==
    \A u \in Users : (u \in participants <=> IndexSays(u, log)) \/ SwappedLast(u, log)

\* Swapping and touching, by what is added and removed.
LEMMA SwapsAndTouches ==
    ASSUME NEW delta \in DeltaSet, NEW u
    PROVE  /\ Swaps(delta, u) <=> Adds(delta, u) /\ Expels(delta, u)
           /\ Touches(delta, u) <=> Adds(delta, u) \/ Expels(delta, u)
  <1>1. DOMAIN delta = 1..Len(delta)
    BY DEF DeltaSet
  <1>2. ToSet(delta) = {delta[i] : i \in DOMAIN delta}
    BY <1>1 DEF ToSet
  <1>3. Swaps(delta, u) <=> Adds(delta, u) /\ Expels(delta, u)
    BY <1>2 DEF Swaps, Adds, Expels
  <1>4. Touches(delta, u) <=> Adds(delta, u) \/ Expels(delta, u)
    BY DEF Touches, Adds, Expels
  <1> QED
    BY <1>3, <1>4

\* One more delta, and what the log says then.
LEMMA LogGrows ==
    ASSUME NEW log \in Logs, NEW delta \in DeltaSet, NEW u
    PROVE  LET longer == Append(log, delta)
           IN  /\ IndexSays(u, longer) <=> /\ ~Expels(delta, u)
                                           /\ Adds(delta, u) \/ IndexSays(u, log)
               /\ SwappedLast(u, longer) <=> \/ Swaps(delta, u)
                                             \/ ~Touches(delta, u) /\ SwappedLast(u, log)
  <1> DEFINE longer == Append(log, delta)
             n == Len(log)
  <1>1. /\ n \in Nat /\ DOMAIN log = 1..n /\ DOMAIN longer = 1..(n + 1)
        /\ longer[n + 1] = delta
        /\ \A i \in 1..n : longer[i] = log[i]
    BY AppendProperties DEF Logs
  <1> HIDE DEF longer, n
  <1>2. IndexSays(u, longer) <=> ~Expels(delta, u) /\ (Adds(delta, u) \/ IndexSays(u, log))
    <2>1. ASSUME IndexSays(u, longer)
          PROVE  ~Expels(delta, u) /\ (Adds(delta, u) \/ IndexSays(u, log))
      <3>1. PICK i \in DOMAIN longer : /\ Adds(longer[i], u) /\ ~Expels(longer[i], u)
                                       /\ \A j \in DOMAIN longer : j > i => ~Expels(longer[j], u)
        BY <2>1 DEF IndexSays
      <3>2. CASE i = n + 1
        BY <1>1, <3>1, <3>2
      <3>3. CASE i # n + 1
        <4>1. i \in 1..n /\ n + 1 > i
          BY <1>1, <3>1, <3>3
        <4>2. ~Expels(delta, u)
          BY <1>1, <3>1, <4>1
        <4>3. \A j \in 1..n : j > i => ~Expels(log[j], u)
          BY <1>1, <3>1
        <4>4. IndexSays(u, log)
          BY <1>1, <3>1, <4>1, <4>3 DEF IndexSays
        <4> QED
          BY <4>2, <4>4
      <3> QED
        BY <3>2, <3>3
    <2>2. ASSUME ~Expels(delta, u), Adds(delta, u)
          PROVE  IndexSays(u, longer)
      <3>1. n + 1 \in DOMAIN longer /\ \A j \in DOMAIN longer : ~(j > n + 1)
        BY <1>1
      <3> QED
        BY <1>1, <2>2, <3>1 DEF IndexSays
    <2>3. ASSUME ~Expels(delta, u), IndexSays(u, log)
          PROVE  IndexSays(u, longer)
      <3>1. PICK i \in DOMAIN log : /\ Adds(log[i], u) /\ ~Expels(log[i], u)
                                    /\ \A j \in DOMAIN log : j > i => ~Expels(log[j], u)
        BY <2>3 DEF IndexSays
      <3>2. i \in DOMAIN longer /\ longer[i] = log[i]
        BY <1>1, <3>1
      <3>3. \A j \in DOMAIN longer : j > i => ~Expels(longer[j], u)
        BY <1>1, <2>3, <3>1
      <3> QED
        BY <3>1, <3>2, <3>3 DEF IndexSays
    <2> QED
      BY <2>1, <2>2, <2>3
  <1>3. SwappedLast(u, longer) <=> Swaps(delta, u) \/ (~Touches(delta, u) /\ SwappedLast(u, log))
    <2>1. ASSUME SwappedLast(u, longer)
          PROVE  Swaps(delta, u) \/ (~Touches(delta, u) /\ SwappedLast(u, log))
      <3>1. PICK i \in DOMAIN longer : /\ Swaps(longer[i], u)
                                       /\ \A j \in DOMAIN longer : j > i => ~Touches(longer[j], u)
        BY <2>1 DEF SwappedLast
      <3>2. CASE i = n + 1
        BY <1>1, <3>1, <3>2
      <3>3. CASE i # n + 1
        <4>1. i \in 1..n /\ n + 1 > i
          BY <1>1, <3>1, <3>3
        <4>2. ~Touches(delta, u)
          BY <1>1, <3>1, <4>1
        <4>3. \A j \in 1..n : j > i => ~Touches(log[j], u)
          BY <1>1, <3>1
        <4>4. SwappedLast(u, log)
          BY <1>1, <3>1, <4>1, <4>3 DEF SwappedLast
        <4> QED
          BY <4>2, <4>4
      <3> QED
        BY <3>2, <3>3
    <2>2. ASSUME Swaps(delta, u)
          PROVE  SwappedLast(u, longer)
      <3>1. n + 1 \in DOMAIN longer /\ \A j \in DOMAIN longer : ~(j > n + 1)
        BY <1>1
      <3> QED
        BY <1>1, <2>2, <3>1 DEF SwappedLast
    <2>3. ASSUME ~Touches(delta, u), SwappedLast(u, log)
          PROVE  SwappedLast(u, longer)
      <3>1. PICK i \in DOMAIN log : /\ Swaps(log[i], u)
                                    /\ \A j \in DOMAIN log : j > i => ~Touches(log[j], u)
        BY <2>3 DEF SwappedLast
      <3>2. i \in DOMAIN longer /\ longer[i] = log[i]
        BY <1>1, <3>1
      <3>3. \A j \in DOMAIN longer : j > i => ~Touches(longer[j], u)
        BY <1>1, <2>3, <3>1
      <3> QED
        BY <3>1, <3>2, <3>3 DEF SwappedLast
    <2> QED
      BY <2>1, <2>2, <2>3
  <1> QED
    BY <1>2, <1>3 DEF longer

\* What a delta makes of the participants: those it does not touch stay as they
\* are, and who is only added or only removed is in or out.
Follows(after, before, delta) ==
    \A u \in Users :
        /\ ~Touches(delta, u) => (u \in after <=> u \in before)
        /\ Adds(delta, u) /\ ~Expels(delta, u) => u \in after
        /\ Expels(delta, u) /\ ~Adds(delta, u) => u \notin after

\* So the participants go on agreeing with the log.
LEMMA AgreesFurther ==
    ASSUME NEW P, NEW Q, NEW log \in Logs, NEW delta \in DeltaSet,
           Agrees(P, log), Follows(Q, P, delta)
    PROVE  Agrees(Q, Append(log, delta))
  <1> SUFFICES ASSUME NEW u \in Users
               PROVE  \/ u \in Q <=> IndexSays(u, Append(log, delta))
                      \/ SwappedLast(u, Append(log, delta))
    BY DEF Agrees
  <1> DEFINE longer == Append(log, delta)
             adds == Adds(delta, u)
             expels == Expels(delta, u)
  <1>1. /\ Swaps(delta, u) <=> adds /\ expels
        /\ Touches(delta, u) <=> adds \/ expels
    BY SwapsAndTouches
  <1>2. /\ IndexSays(u, longer) <=> ~expels /\ (adds \/ IndexSays(u, log))
        /\ SwappedLast(u, longer) <=> \/ Swaps(delta, u)
                                      \/ ~Touches(delta, u) /\ SwappedLast(u, log)
    BY LogGrows
  <1>3. (u \in P <=> IndexSays(u, log)) \/ SwappedLast(u, log)
    BY DEF Agrees
  <1>4. /\ ~Touches(delta, u) => (u \in Q <=> u \in P)
        /\ adds /\ ~expels => u \in Q
        /\ expels /\ ~adds => u \notin Q
    BY DEF Follows
  <1> HIDE DEF longer, adds, expels
  <1>5. (u \in Q <=> IndexSays(u, longer)) \/ SwappedLast(u, longer)
    BY <1>1, <1>2, <1>3, <1>4
  <1> QED
    BY <1>5 DEF longer

\* At the beginning nobody is a participant.
LEMMA AgreesAtFirst == Agrees({}, <<>>)
  BY DEF Agrees, IndexSays

-----------------------------------------------------------------------------
(* Jobs, messages and events.                                                *)

Connections == Users \X Nat

Submits == [kind : {"submit"}, wavelet : Wavelets, delta : DeltaSet]
Subscriptions ==
    [kind : {"subscribe"}, wavelet : Wavelets, conn : Connections, on : BOOLEAN,
     index : BOOLEAN, content : BOOLEAN]
Messages == Submits \cup Subscriptions
Inits == [kind : {"init"}, wavelet : Wavelets]
Listings == [kind : {"listing"}, conn : Connections]
Histories == [kind : {"history"}, wavelet : Wavelets]
Persists == [kind : {"persist"}, job : Submits]

IsEvent(e) ==
    \/ e \in [to : {"wavelet"}, message : Messages]
    \/ e \in [to : {"actor"}, job : Messages \cup Inits \cup Listings]
    \/ e \in [to : {"enter"}, job : Messages]
    \/ e \in [to : {"store"}, message : Persists \cup Histories \cup Listings]
    \/ e \in [to : {"ack"}, job : Submits]
    \/ e \in [to : {"replay"}, wavelet : Wavelets, deltas : Logs]
    \/ e \in [to : {"listed"}, conn : Connections, wavelets : Seq(Wavelets)]
    \/ e \in [to : {"participant"}, user : Users, wavelet : Wavelets]
    \/ e.to = "conn"

\* An actor of w is inside, or will be when this has come.
Working(e, w) ==
    \/ e.to = "enter" /\ e.job.wavelet = w
    \/ e.to = "store" /\ e.message.kind = "persist" /\ e.message.job.wavelet = w
    \/ e.to = "ack" /\ e.job.wavelet = w

\* The history of w is on its way.
Loading(e, w) ==
    \/ e.to = "actor" /\ e.job.kind = "init" /\ e.job.wavelet = w
    \/ e.to = "store" /\ e.message.kind = "history" /\ e.message.wavelet = w
    \/ e.to = "replay" /\ e.wavelet = w

Token(e, w) == Working(e, w) \/ Loading(e, w)

\* There is no such event, or this only.
Nothing(q, w) == \A i \in 1..Len(q) : ~Token(q[i], w)
Only(q, w, e) ==
    \E i \in 1..Len(q) : q[i] = e /\ \A j \in 1..Len(q) : Token(q[j], w) => j = i

\* What kind of event it is tells what is in it.
LEMMA EventFacts ==
    ASSUME NEW e, IsEvent(e)
    PROVE  /\ e.to = "wavelet" => e.message \in Messages
           /\ e.to = "actor" => e.job \in Messages \cup Inits \cup Listings
           /\ e.to = "enter" => e.job \in Messages
           /\ e.to = "store" => e.message \in Persists \cup Histories \cup Listings
           /\ e.to = "ack" => e.job \in Submits
           /\ e.to = "replay" => e.wavelet \in Wavelets /\ e.deltas \in Logs
           /\ e.to = "listed" => e.conn \in Connections /\ e.wavelets \in Seq(Wavelets)
           /\ e.to = "participant" => e.user \in Users /\ e.wavelet \in Wavelets
  <1> DEFINE M == Messages
             J == Messages \cup Inits \cup Listings
             S == Persists \cup Histories \cup Listings
  <1>1. \/ e \in [to : {"wavelet"}, message : M]
        \/ e \in [to : {"actor"}, job : J]
        \/ e \in [to : {"enter"}, job : M]
        \/ e \in [to : {"store"}, message : S]
        \/ e \in [to : {"ack"}, job : Submits]
        \/ e \in [to : {"replay"}, wavelet : Wavelets, deltas : Logs]
        \/ e \in [to : {"listed"}, conn : Connections, wavelets : Seq(Wavelets)]
        \/ e \in [to : {"participant"}, user : Users, wavelet : Wavelets]
        \/ e.to = "conn"
    BY DEF IsEvent
  <1> HIDE DEF M, J, S
  <1>2. /\ e.to = "wavelet" => e.message \in M
        /\ e.to = "actor" => e.job \in J
        /\ e.to = "enter" => e.job \in M
        /\ e.to = "store" => e.message \in S
        /\ e.to = "ack" => e.job \in Submits
        /\ e.to = "replay" => e.wavelet \in Wavelets /\ e.deltas \in Logs
        /\ e.to = "listed" => e.conn \in Connections /\ e.wavelets \in Seq(Wavelets)
        /\ e.to = "participant" => e.user \in Users /\ e.wavelet \in Wavelets
    BY <1>1
  <1> QED
    BY <1>2 DEF M, J, S

\* What kind of job, or of message to the store, it is.
LEMMA JobFacts ==
    /\ \A m \in Messages : /\ m.wavelet \in Wavelets
                           /\ m.kind = "submit" \/ m.kind = "subscribe"
                           /\ m.kind = "submit" => m \in Submits
                           /\ m.kind = "subscribe" => m \in Subscriptions
    /\ \A m \in Submits : m.kind = "submit" /\ m.wavelet \in Wavelets /\ m.delta \in DeltaSet
    /\ \A m \in Subscriptions : m.kind = "subscribe" /\ m.conn \in Connections
    /\ \A m \in Inits : m.kind = "init" /\ m.wavelet \in Wavelets
    /\ \A m \in Listings : m.kind = "listing" /\ m.conn \in Connections
    /\ \A m \in Histories : m.kind = "history" /\ m.wavelet \in Wavelets
    /\ \A m \in Persists : m.kind = "persist" /\ m.job \in Submits
  <1>1. /\ \A m \in Submits : m.kind = "submit" /\ m.wavelet \in Wavelets /\ m.delta \in DeltaSet
        /\ \A m \in Subscriptions : /\ m.kind = "subscribe" /\ m.conn \in Connections
                                    /\ m.wavelet \in Wavelets
        /\ \A m \in Inits : m.kind = "init" /\ m.wavelet \in Wavelets
        /\ \A m \in Listings : m.kind = "listing" /\ m.conn \in Connections
        /\ \A m \in Histories : m.kind = "history" /\ m.wavelet \in Wavelets
        /\ \A m \in Persists : m.kind = "persist" /\ m.job \in Submits
    BY DEF Submits, Subscriptions, Inits, Listings, Histories, Persists
  <1> QED
    BY <1>1 DEF Messages

-----------------------------------------------------------------------------
(* The queue of events.                                                      *)

IsQueue(q) == IsSequence(q) /\ \A i \in 1..Len(q) : IsEvent(q[i])

\* One more event, at the end.
LEMMA QueueAppend ==
    ASSUME NEW q, IsSequence(q), NEW e
    PROVE  /\ IsSequence(Append(q, e)) /\ Len(q) \in Nat /\ Len(Append(q, e)) = Len(q) + 1
           /\ \A i \in 1..Len(q) : Append(q, e)[i] = q[i]
           /\ Append(q, e)[Len(q) + 1] = e
  <1>1. q \in Seq(ToSet(q) \cup {e})
    BY DEF IsSequence
  <1> QED
    BY <1>1, AppendToSet, AppendProperties, LenProperties

\* The first event is taken.
LEMMA QueueTail ==
    ASSUME NEW q, IsSequence(q), q # <<>>
    PROVE  /\ IsSequence(Tail(q)) /\ Len(q) \in Nat \ {0} /\ Len(Tail(q)) = Len(q) - 1
           /\ \A i \in 1..Len(Tail(q)) : Tail(q)[i] = q[i + 1]
           /\ Head(q) = q[1]
  <1>1. q \in Seq(ToSet(q))
    BY DEF IsSequence
  <1> QED
    BY <1>1, TailToSet, HeadTailProperties, LenProperties, EmptySeq

\* More events, at the end.
LEMMA QueueConcat ==
    ASSUME NEW q, IsSequence(q), NEW r, IsSequence(r)
    PROVE  /\ IsSequence(q \o r) /\ Len(q) \in Nat /\ Len(r) \in Nat
           /\ Len(q \o r) = Len(q) + Len(r)
           /\ \A i \in 1..Len(q) : (q \o r)[i] = q[i]
           /\ \A i \in 1..Len(r) : (q \o r)[Len(q) + i] = r[i]
  <1> DEFINE S == ToSet(q) \cup ToSet(r)
  <1>1. q \in Seq(S) /\ r \in Seq(S)
    BY DEF IsSequence
  <1> HIDE DEF S
  <1>2. /\ q \o r \in Seq(S) /\ Len(q) \in Nat /\ Len(r) \in Nat
        /\ Len(q \o r) = Len(q) + Len(r)
        /\ \A i \in 1..(Len(q) + Len(r)) :
              (q \o r)[i] = IF i <= Len(q) THEN q[i] ELSE r[i - Len(q)]
    BY <1>1, ConcatProperties, LenProperties
  <1>3. IsSequence(q \o r)
    BY <1>2, SequenceOfItsElements
  <1>4. /\ \A i \in 1..Len(q) : (q \o r)[i] = q[i]
        /\ \A i \in 1..Len(r) : (q \o r)[Len(q) + i] = r[i]
    BY <1>2
  <1> QED
    BY <1>2, <1>3, <1>4

\* The queue has become longer, by events that let nobody of w in.
Quiet(q, r, w) ==
    /\ Nothing(q, w) => Nothing(r, w)
    /\ \A e : Only(q, w, e) /\ Token(e, w) => Only(r, w, e)

\* Some events are added that let nobody of w in.
LEMMA LongerIsQuiet ==
    ASSUME NEW q, NEW r, NEW w, Len(q) \in Nat, Len(r) \in Nat, Len(q) <= Len(r),
           \A i \in 1..Len(q) : r[i] = q[i],
           \A i \in 1..Len(r) : i > Len(q) => ~Token(r[i], w)
    PROVE  Quiet(q, r, w)
  <1>1. ASSUME Nothing(q, w)
        PROVE  Nothing(r, w)
    BY <1>1 DEF Nothing
  <1>2. ASSUME NEW e, Only(q, w, e)
        PROVE  Only(r, w, e)
    <2>1. PICK i \in 1..Len(q) : q[i] = e /\ \A j \in 1..Len(q) : Token(q[j], w) => j = i
      BY <1>2 DEF Only
    <2>2. i \in 1..Len(r) /\ r[i] = e
      BY <2>1
    <2>3. ASSUME NEW j \in 1..Len(r), Token(r[j], w)
          PROVE  j = i
      <3>1. j \in 1..Len(q)
        BY <2>3
      <3> QED
        BY <2>1, <2>3, <3>1
    <2> QED
      BY <2>2, <2>3 DEF Only
  <1> QED
    BY <1>1, <1>2 DEF Quiet

\* One of them.
LEMMA QuietAppend ==
    ASSUME NEW q, IsSequence(q), NEW e, NEW w, ~Token(e, w)
    PROVE  Quiet(q, Append(q, e), w)
  <1> DEFINE r == Append(q, e)
  <1>1. /\ Len(q) \in Nat /\ Len(r) = Len(q) + 1 /\ \A i \in 1..Len(q) : r[i] = q[i]
        /\ r[Len(q) + 1] = e
    BY QueueAppend
  <1> HIDE DEF r
  <1>2. \A i \in 1..Len(r) : i > Len(q) => i = Len(q) + 1
    BY <1>1
  <1>3. /\ Len(q) <= Len(r) /\ Len(r) \in Nat
        /\ \A i \in 1..Len(r) : i > Len(q) => ~Token(r[i], w)
    BY <1>1, <1>2
  <1>4. Quiet(q, r, w)
    BY <1>1, <1>3, LongerIsQuiet
  <1> QED
    BY <1>4 DEF r

\* Several of them.
LEMMA QuietConcat ==
    ASSUME NEW q, IsSequence(q), NEW p, IsSequence(p), NEW w,
           \A i \in 1..Len(p) : ~Token(p[i], w)
    PROVE  Quiet(q, q \o p, w)
  <1> DEFINE r == q \o p
  <1>1. /\ Len(q) \in Nat /\ Len(p) \in Nat /\ Len(r) = Len(q) + Len(p)
        /\ \A i \in 1..Len(q) : r[i] = q[i]
        /\ \A i \in 1..Len(p) : r[Len(q) + i] = p[i]
    BY QueueConcat
  <1> HIDE DEF r
  <1>2. ASSUME NEW i \in 1..Len(r), i > Len(q)
        PROVE  ~Token(r[i], w)
    <2>1. i - Len(q) \in 1..Len(p) /\ Len(q) + (i - Len(q)) = i
      BY <1>1, <1>2
    <2>2. r[i] = p[i - Len(q)]
      BY <1>1, <2>1
    <2> QED
      BY <2>1, <2>2
  <1>3. Len(q) <= Len(r) /\ Len(r) \in Nat
    BY <1>1
  <1>4. Quiet(q, r, w)
    BY <1>1, <1>2, <1>3, LongerIsQuiet
  <1> QED
    BY <1>4 DEF r

\* An event is added that is the only one.
LEMMA TokenAppended ==
    ASSUME NEW q, IsSequence(q), NEW e, NEW w, Nothing(q, w)
    PROVE  Only(Append(q, e), w, e)
  <1> DEFINE r == Append(q, e)
  <1>1. /\ Len(q) \in Nat /\ Len(r) = Len(q) + 1 /\ \A i \in 1..Len(q) : r[i] = q[i]
        /\ r[Len(q) + 1] = e
    BY QueueAppend
  <1> HIDE DEF r
  <1>2. \A i \in 1..Len(r) : i \in 1..Len(q) \/ i = Len(q) + 1
    BY <1>1
  <1>3. Len(q) + 1 \in 1..Len(r)
    BY <1>1
  <1>4. \A i \in 1..Len(r) : Token(r[i], w) => i = Len(q) + 1
    BY <1>1, <1>2 DEF Nothing
  <1>5. Only(r, w, e)
    BY <1>1, <1>3, <1>4 DEF Only
  <1> QED
    BY <1>5 DEF r

\* An event is taken that lets nobody of w in.
LEMMA QuietTail ==
    ASSUME NEW q, IsSequence(q), q # <<>>, NEW w, ~Token(Head(q), w)
    PROVE  Quiet(q, Tail(q), w)
  <1> DEFINE r == Tail(q)
  <1>1. /\ Len(q) \in Nat \ {0} /\ Len(r) = Len(q) - 1
        /\ \A i \in 1..Len(r) : r[i] = q[i + 1]
        /\ Head(q) = q[1]
    BY QueueTail
  <1> HIDE DEF r
  <1>2. \A i \in 1..Len(r) : i + 1 \in 1..Len(q)
    BY <1>1
  <1>3. ASSUME Nothing(q, w)
        PROVE  Nothing(r, w)
    BY <1>1, <1>2, <1>3 DEF Nothing
  <1>4. ASSUME NEW e, Only(q, w, e), Token(e, w)
        PROVE  Only(r, w, e)
    <2>1. PICK i \in 1..Len(q) : q[i] = e /\ \A j \in 1..Len(q) : Token(q[j], w) => j = i
      BY <1>4 DEF Only
    <2>2. i # 1
      BY <1>1, <1>4, <2>1
    <2>3. i - 1 \in 1..Len(r) /\ (i - 1) + 1 = i
      BY <1>1, <2>2
    <2>4. r[i - 1] = e
      BY <1>1, <2>1, <2>3
    <2>5. ASSUME NEW j \in 1..Len(r), Token(r[j], w)
          PROVE  j = i - 1
      <3>1. j + 1 \in 1..Len(q) /\ Token(q[j + 1], w)
        BY <1>1, <1>2, <2>5
      <3>2. j + 1 = i
        BY <2>1, <3>1
      <3> QED
        BY <3>2
    <2> QED
      BY <2>3, <2>4, <2>5 DEF Only
  <1> QED
    BY <1>3, <1>4 DEF Quiet, r

\* The only event is taken.
LEMMA TokenTaken ==
    ASSUME NEW q, IsSequence(q), q # <<>>, NEW w, Token(Head(q), w)
    PROVE  /\ ~Nothing(q, w)
           /\ \A e : Only(q, w, e) => e = Head(q) /\ Nothing(Tail(q), w)
  <1> DEFINE r == Tail(q)
  <1>1. /\ Len(q) \in Nat \ {0} /\ Len(r) = Len(q) - 1
        /\ \A i \in 1..Len(r) : r[i] = q[i + 1]
        /\ Head(q) = q[1]
    BY QueueTail
  <1> HIDE DEF r
  <1>2. \A i \in 1..Len(r) : i + 1 \in 1..Len(q) /\ i + 1 # 1
    BY <1>1
  <1>3. 1 \in 1..Len(q)
    BY <1>1
  <1>4. ~Nothing(q, w)
    BY <1>1, <1>3 DEF Nothing
  <1>5. ASSUME NEW e, Only(q, w, e)
        PROVE  e = Head(q) /\ Nothing(r, w)
    <2>1. PICK i \in 1..Len(q) : q[i] = e /\ \A j \in 1..Len(q) : Token(q[j], w) => j = i
      BY <1>5 DEF Only
    <2>2. i = 1
      BY <1>1, <1>3, <2>1
    <2>3. Nothing(r, w)
      BY <1>1, <1>2, <2>1, <2>2 DEF Nothing
    <2> QED
      BY <1>1, <2>1, <2>2, <2>3
  <1> QED
    BY <1>4, <1>5 DEF r

-----------------------------------------------------------------------------
(* The server.                                                               *)

WaveletFields ==
    {"loaded", "enabled", "busy", "queue", "version", "participants", "blip",
     "text", "digest", "index", "content"}

\* The jobs of a wavelet.
MessagesOf(w) == {m \in Messages : m.wavelet = w}

IsWavelet(wv, w) ==
    /\ DOMAIN wv = WaveletFields /\ wv = [f \in DOMAIN wv |-> wv[f]]
    /\ wv.loaded \in BOOLEAN /\ wv.enabled \in BOOLEAN /\ wv.busy \in BOOLEAN
    /\ wv.queue \in Seq(MessagesOf(w))
    /\ wv.index \in SUBSET Connections /\ IsFiniteSet(wv.index)
    /\ wv.content \in SUBSET Connections /\ IsFiniteSet(wv.content)

IsServer(s) ==
    /\ DOMAIN s = {"wavelets", "events"} /\ s = [f \in DOMAIN s |-> s[f]]
    /\ s.wavelets = [w \in Wavelets |-> s.wavelets[w]]
    /\ \A w \in Wavelets : IsWavelet(s.wavelets[w], w)
    /\ IsQueue(s.events)

\* A wavelet that is not there, one that waits for its history, one in which
\* nobody is, and one in which one actor is.  While that one's delta is in the log
\* and not yet applied, the participants are those from before it.
Absent(wv, q, w) == ~wv.loaded /\ ~wv.enabled /\ wv.participants = {} /\ Nothing(q, w)

Opening(wv, q, log, w) ==
    /\ wv.loaded /\ ~wv.enabled /\ wv.participants = {}
    /\ \E e : Only(q, w, e) /\ Loading(e, w) /\ (e.to = "replay" => e.deltas = log)

Resting(wv, q, log, w) ==
    /\ wv.loaded /\ wv.enabled /\ ~wv.busy
    /\ Nothing(q, w) /\ Agrees(wv.participants, log)

AgreesBut(P, log, e) ==
    IF e.to = "ack"
    THEN \E before \in Logs : log = Append(before, e.job.delta) /\ Agrees(P, before)
    ELSE Agrees(P, log)

Occupied(wv, q, log, w) ==
    /\ wv.loaded /\ wv.enabled /\ wv.busy
    /\ \E e : Only(q, w, e) /\ Working(e, w) /\ AgreesBut(wv.participants, log, e)

Steady(wv, q, log, w) ==
    \/ Absent(wv, q, w) \/ Opening(wv, q, log, w)
    \/ Resting(wv, q, log, w) \/ Occupied(wv, q, log, w)

ServerOK(s, logs) ==
    /\ IsServer(s)
    /\ \A w \in Wavelets : Steady(s.wavelets[w], s.events, logs[w], w)

\* An actor is inside, and is going to leave, or to post what it waits for.
Inside(s, logs, w) ==
    /\ IsServer(s)
    /\ \A v \in Wavelets : v # w => Steady(s.wavelets[v], s.events, logs[v], v)
    /\ s.wavelets[w].loaded /\ s.wavelets[w].enabled
    /\ Nothing(s.events, w) /\ Agrees(s.wavelets[w].participants, logs[w])

\* The same wavelet, as far as its phase goes.
Alike(wv, x) ==
    /\ x.loaded = wv.loaded /\ x.enabled = wv.enabled /\ x.busy = wv.busy
    /\ x.participants = wv.participants

\* A wavelet's phase is not changed by other events.
LEMMA SteadyQuiet ==
    ASSUME NEW wv, NEW x, NEW q, NEW r, NEW log, NEW w, Steady(wv, q, log, w),
           Alike(wv, x), Quiet(q, r, w)
    PROVE  Steady(x, r, log, w)
  <1>1. CASE Absent(wv, q, w)
    BY <1>1 DEF Absent, Alike, Quiet, Steady
  <1>2. CASE Opening(wv, q, log, w)
    <2>1. PICK e : Only(q, w, e) /\ Loading(e, w) /\ (e.to = "replay" => e.deltas = log)
      BY <1>2 DEF Opening
    <2>2. Only(r, w, e)
      BY <2>1 DEF Quiet, Token
    <2>3. x.loaded /\ ~x.enabled /\ x.participants = {}
      BY <1>2 DEF Opening, Alike
    <2>4. Opening(x, r, log, w)
      BY <2>1, <2>2, <2>3 DEF Opening
    <2> QED
      BY <2>4 DEF Steady
  <1>3. CASE Resting(wv, q, log, w)
    BY <1>3 DEF Resting, Alike, Quiet, Steady
  <1>4. CASE Occupied(wv, q, log, w)
    <2>1. PICK e : Only(q, w, e) /\ Working(e, w) /\ AgreesBut(wv.participants, log, e)
      BY <1>4 DEF Occupied
    <2>2. Only(r, w, e)
      BY <2>1 DEF Quiet, Token
    <2>3. x.loaded /\ x.enabled /\ x.busy /\ x.participants = wv.participants
      BY <1>4 DEF Occupied, Alike
    <2>4. Occupied(x, r, log, w)
      BY <2>1, <2>2, <2>3 DEF Occupied
    <2> QED
      BY <2>4 DEF Steady
  <1> QED
    BY <1>1, <1>2, <1>3, <1>4 DEF Steady

\* An event is posted.
LEMMA PostKeeps ==
    ASSUME NEW s, IsServer(s), NEW e, IsEvent(e)
    PROVE  LET t == Post(s, e)
           IN  /\ IsServer(t) /\ t.wavelets = s.wavelets /\ t.events = Append(s.events, e)
               /\ IsSequence(s.events)
  <1> DEFINE t == Post(s, e)
             q == s.events
             r == Append(q, e)
  <1>1. /\ DOMAIN t = {"wavelets", "events"} /\ t = [f \in DOMAIN t |-> t[f]]
        /\ t.wavelets = s.wavelets /\ t.events = r
    BY DEF Post, IsServer
  <1>2. IsSequence(q) /\ \A i \in 1..Len(q) : IsEvent(q[i])
    BY DEF IsServer, IsQueue
  <1> HIDE DEF t, q
  <1>3. /\ IsSequence(r) /\ Len(q) \in Nat /\ Len(r) = Len(q) + 1
        /\ \A i \in 1..Len(q) : r[i] = q[i]
        /\ r[Len(q) + 1] = e
    BY <1>2, QueueAppend
  <1> HIDE DEF r
  <1>4. \A i \in 1..Len(r) : i \in 1..Len(q) \/ i = Len(q) + 1
    BY <1>3
  <1>5. IsQueue(r)
    BY <1>2, <1>3, <1>4 DEF IsQueue
  <1>6. IsServer(t)
    BY <1>1, <1>5 DEF IsServer
  <1> QED
    BY <1>1, <1>2, <1>6 DEF t, r, q

\* An event is posted that lets nobody in.
LEMMA ServerPosts ==
    ASSUME NEW s, NEW logs, ServerOK(s, logs), NEW e, IsEvent(e),
           \A w \in Wavelets : ~Token(e, w)
    PROVE  ServerOK(Post(s, e), logs)
  <1> DEFINE t == Post(s, e)
  <1>1. /\ IsServer(t) /\ t.wavelets = s.wavelets /\ t.events = Append(s.events, e)
        /\ IsSequence(s.events)
    BY PostKeeps DEF ServerOK
  <1> HIDE DEF t
  <1>2. ASSUME NEW w \in Wavelets
        PROVE  Steady(t.wavelets[w], t.events, logs[w], w)
    <2>1. Quiet(s.events, t.events, w)
      BY <1>1, QuietAppend
    <2>2. Steady(s.wavelets[w], s.events, logs[w], w) /\ Alike(s.wavelets[w], t.wavelets[w])
      BY <1>1 DEF ServerOK, Alike
    <2> QED
      BY <2>1, <2>2, SteadyQuiet
  <1>3. ServerOK(t, logs)
    BY <1>1, <1>2 DEF ServerOK
  <1> QED
    BY <1>3 DEF t

-----------------------------------------------------------------------------
(* Looking up a wavelet, and the section.                                    *)

\* The phase of one wavelet changes, the others stay as they are.
LEMMA OneChanges ==
    ASSUME NEW s, NEW t, NEW logs, NEW w \in Wavelets, IsServer(t),
           \A v \in Wavelets : v # w => Steady(s.wavelets[v], s.events, logs[v], v),
           \A v \in Wavelets : v # w => /\ t.wavelets[v] = s.wavelets[v]
                                        /\ Quiet(s.events, t.events, v)
    PROVE  \A v \in Wavelets : v # w => Steady(t.wavelets[v], t.events, logs[v], v)
  <1> SUFFICES ASSUME NEW v \in Wavelets, v # w
               PROVE  Steady(t.wavelets[v], t.events, logs[v], v)
    OBVIOUS
  <1>1. Alike(s.wavelets[v], t.wavelets[v])
    BY DEF Alike
  <1> QED
    BY <1>1, SteadyQuiet

\* None of them.
LEMMA QuietSame == \A q, w : Quiet(q, q, w)
  BY DEF Quiet

\* Another state of one wavelet.
LEMMA WaveletBecomes ==
    ASSUME NEW s, IsServer(s), NEW w \in Wavelets, NEW wv, IsWavelet(wv, w)
    PROVE  LET t == [s EXCEPT !.wavelets[w] = wv]
           IN  /\ IsServer(t) /\ t.events = s.events /\ t.wavelets[w] = wv
               /\ \A v \in Wavelets : v # w => t.wavelets[v] = s.wavelets[v]
  <1> DEFINE t == [s EXCEPT !.wavelets[w] = wv]
  <1>1. /\ DOMAIN t = {"wavelets", "events"} /\ t = [f \in DOMAIN t |-> t[f]]
        /\ t.wavelets = [v \in Wavelets |-> t.wavelets[v]]
        /\ t.events = s.events /\ t.wavelets[w] = wv
        /\ \A v \in Wavelets : v # w => t.wavelets[v] = s.wavelets[v]
    BY DEF IsServer
  <1> HIDE DEF t
  <1>2. IsServer(t)
    BY <1>1 DEF IsServer
  <1> QED
    BY <1>1, <1>2 DEF t

\* The wavelet before it is there, and when it is made, is one without subscribers.
LEMMA FreshWavelets ==
    ASSUME NEW w
    PROVE  IsWavelet(Unloaded, w) /\ IsWavelet(Created, w)
  <1>1. IsFiniteSet({})
    BY FS_EmptySet
  <1>2. <<>> \in Seq(MessagesOf(w))
    BY EmptySeq
  <1>3. IsWavelet(Unloaded, w)
    BY <1>1, <1>2 DEF IsWavelet, Unloaded, WaveletFields
  <1>4. IsWavelet(Created, w)
    BY <1>1, <1>2 DEF IsWavelet, Unloaded, Created, WaveletFields
  <1> QED
    BY <1>3, <1>4

\* A wavelet that was not there is made, and will ask for its history.
LEMMA LookupKeeps ==
    ASSUME NEW s, NEW logs, ServerOK(s, logs), NEW w \in Wavelets
    PROVE  ServerOK(Lookup(s, w), logs)
  <1>1. CASE s.wavelets[w].loaded
    BY <1>1 DEF Lookup
  <1>2. CASE ~s.wavelets[w].loaded
    <2> DEFINE r == [s EXCEPT !.wavelets[w] = Created]
               e == ToActor([kind |-> "init", wavelet |-> w])
               t == Post(r, e)
    <2>1. Lookup(s, w) = t
      BY <1>2 DEF Lookup
    <2>2. /\ IsServer(r) /\ r.events = s.events /\ r.wavelets[w] = Created
          /\ \A v \in Wavelets : v # w => r.wavelets[v] = s.wavelets[v]
      <3>1. IsWavelet(Created, w)
        BY FreshWavelets
      <3> HIDE DEF r
      <3> QED
        BY <3>1, WaveletBecomes DEF ServerOK, r
    <2>3. /\ IsEvent(e) /\ Loading(e, w) /\ e.to # "replay"
          /\ \A v \in Wavelets : v # w => ~Token(e, v)
      BY DEF IsEvent, ToActor, Inits, Loading, Working, Token
    <2> HIDE DEF r, e
    <2>4. /\ IsServer(t) /\ t.wavelets = r.wavelets /\ t.events = Append(s.events, e)
          /\ IsSequence(s.events)
      BY <2>2, <2>3, PostKeeps
    <2> HIDE DEF t
    <2>5. Nothing(s.events, w)
      BY <1>2 DEF ServerOK, Steady, Absent, Opening, Resting, Occupied
    <2>6. Only(t.events, w, e)
      BY <2>4, <2>5, TokenAppended
    <2>7. Opening(t.wavelets[w], t.events, logs[w], w)
      BY <2>2, <2>3, <2>4, <2>6 DEF Opening, Created, Unloaded
    <2>8. \A v \in Wavelets : v # w => /\ t.wavelets[v] = s.wavelets[v]
                                       /\ Quiet(s.events, t.events, v)
      BY <2>2, <2>3, <2>4, QuietAppend
    <2>9. \A v \in Wavelets : v # w => Steady(t.wavelets[v], t.events, logs[v], v)
      BY <2>4, <2>8, OneChanges DEF ServerOK
    <2>10. ServerOK(t, logs)
      BY <2>4, <2>7, <2>9 DEF ServerOK, Steady
    <2> QED
      BY <2>1, <2>10
  <1> QED
    BY <1>1, <1>2

\* A message is posted to a wavelet, which is looked up, or it is dropped.
LEMMA PostToWaveletKeeps ==
    ASSUME NEW s, NEW logs, ServerOK(s, logs), NEW onDemand, NEW m \in Messages
    PROVE  ServerOK(PostToWavelet(s, onDemand, m), logs)
  <1> DEFINE w == m.wavelet
             r == Lookup(s, w)
             e == [to |-> "wavelet", message |-> m]
  <1>1. w \in Wavelets
    BY JobFacts
  <1>2. ServerOK(r, logs)
    BY <1>1, LookupKeeps
  <1>3. IsEvent(e) /\ \A v \in Wavelets : ~Token(e, v)
    BY DEF IsEvent, Token, Working, Loading
  <1> HIDE DEF e, r
  <1>4. ServerOK(Post(r, e), logs)
    BY <1>2, <1>3, ServerPosts
  <1>5. PostToWavelet(s, onDemand, m) = Post(r, e) \/ PostToWavelet(s, onDemand, m) = s
    BY DEF PostToWavelet, r, e
  <1> QED
    BY <1>4, <1>5

\* An actor leaves the section of w: nobody is inside, or the next one is let in.
LEMMA LeavesKeeps ==
    ASSUME NEW s, NEW logs, NEW w \in Wavelets, Inside(s, logs, w)
    PROVE  ServerOK(Leaves(s, w), logs)
  <1> DEFINE wv == s.wavelets[w]
             q == s.events
  <1>1. IsWavelet(wv, w) /\ IsServer(s) /\ IsSequence(q)
    BY DEF Inside, IsServer, IsQueue
  <1>2. CASE wv.queue = <<>>
    <2> DEFINE x == [wv EXCEPT !.busy = FALSE]
               t == [s EXCEPT !.wavelets[w] = x]
    <2>1. Leaves(s, w) = t
      BY <1>2 DEF Leaves
    <2>2. IsWavelet(x, w) /\ ~x.busy /\ x.loaded /\ x.enabled /\ x.participants = wv.participants
      BY <1>1 DEF IsWavelet, WaveletFields, Inside
    <2> HIDE DEF x
    <2>3. /\ IsServer(t) /\ t.events = q /\ t.wavelets[w] = x
          /\ \A v \in Wavelets : v # w => t.wavelets[v] = s.wavelets[v]
      BY <1>1, <2>2, WaveletBecomes
    <2> HIDE DEF t
    <2>4. Resting(t.wavelets[w], t.events, logs[w], w)
      BY <2>2, <2>3 DEF Resting, Inside
    <2>5. \A v \in Wavelets : v # w => /\ t.wavelets[v] = s.wavelets[v]
                                       /\ Quiet(s.events, t.events, v)
      BY <2>3, QuietSame
    <2>6. \A v \in Wavelets : v # w => Steady(t.wavelets[v], t.events, logs[v], v)
      BY <2>3, <2>5, OneChanges DEF Inside
    <2> QED
      BY <2>1, <2>3, <2>4, <2>6 DEF ServerOK, Steady
  <1>3. CASE wv.queue # <<>>
    <2> DEFINE x == [wv EXCEPT !.busy = TRUE, !.queue = Tail(@)]
               r == [s EXCEPT !.wavelets[w] = x]
               e == [to |-> "enter", job |-> Head(wv.queue)]
               t == Post(r, e)
    <2>1. Leaves(s, w) = t
      BY <1>3 DEF Leaves, Post, Inside, IsServer
    <2>2. wv.queue \in Seq(MessagesOf(w))
      BY <1>1 DEF IsWavelet
    <2>3. Tail(wv.queue) \in Seq(MessagesOf(w)) /\ Head(wv.queue) \in MessagesOf(w)
      BY <1>3, <2>2, HeadTailProperties
    <2>4. IsWavelet(x, w) /\ x.busy /\ x.loaded /\ x.enabled /\ x.participants = wv.participants
      BY <1>1, <2>3 DEF IsWavelet, WaveletFields, Inside
    <2> HIDE DEF x
    <2>5. /\ IsServer(r) /\ r.events = q /\ r.wavelets[w] = x
          /\ \A v \in Wavelets : v # w => r.wavelets[v] = s.wavelets[v]
      BY <1>1, <2>4, WaveletBecomes
    <2> HIDE DEF r
    <2>6. /\ IsEvent(e) /\ Working(e, w) /\ e.to # "ack"
          /\ \A v \in Wavelets : v # w => ~Token(e, v)
      BY <2>3 DEF IsEvent, MessagesOf, Token, Working, Loading
    <2> HIDE DEF e
    <2>7. IsServer(t) /\ t.wavelets = r.wavelets /\ t.events = Append(q, e)
      BY <2>5, <2>6, PostKeeps
    <2> HIDE DEF t
    <2>8. Only(t.events, w, e)
      BY <1>1, <2>7, TokenAppended DEF Inside
    <2>9. AgreesBut(x.participants, logs[w], e)
      BY <2>4, <2>6 DEF AgreesBut, Inside
    <2>10. Occupied(t.wavelets[w], t.events, logs[w], w)
      BY <2>4, <2>5, <2>6, <2>7, <2>8, <2>9 DEF Occupied
    <2>11. \A v \in Wavelets : v # w => /\ t.wavelets[v] = s.wavelets[v]
                                        /\ Quiet(s.events, t.events, v)
      BY <1>1, <2>5, <2>6, <2>7, QuietAppend
    <2>12. \A v \in Wavelets : v # w => Steady(t.wavelets[v], t.events, logs[v], v)
      BY <2>7, <2>11, OneChanges DEF Inside
    <2> QED
      BY <2>1, <2>7, <2>10, <2>12 DEF ServerOK, Steady
  <1> QED
    BY <1>2, <1>3

-----------------------------------------------------------------------------
(* Subscriptions.                                                            *)

\* What is sent to a connection lets nobody in.
LEMMA ToConnLetsNobodyIn ==
    ASSUME NEW c, NEW message
    PROVE  IsEvent(ToConn(c, message)) /\ \A w : ~Token(ToConn(c, message), w)
  BY DEF IsEvent, ToConn, Token, Working, Loading

\* The actor that is inside changes its wavelet, but not its phase.
LEMMA InsideChanges ==
    ASSUME NEW s, NEW logs, NEW w \in Wavelets, Inside(s, logs, w), NEW x, IsWavelet(x, w),
           Alike(s.wavelets[w], x)
    PROVE  LET t == [s EXCEPT !.wavelets[w] = x]
           IN  Inside(t, logs, w) /\ t.wavelets[w] = x
  <1> DEFINE t == [s EXCEPT !.wavelets[w] = x]
  <1>1. /\ IsServer(t) /\ t.events = s.events /\ t.wavelets[w] = x
        /\ \A v \in Wavelets : v # w => t.wavelets[v] = s.wavelets[v]
    BY WaveletBecomes DEF Inside
  <1> HIDE DEF t
  <1>2. \A v \in Wavelets : v # w => /\ t.wavelets[v] = s.wavelets[v]
                                     /\ Quiet(s.events, t.events, v)
    BY <1>1, QuietSame
  <1>3. \A v \in Wavelets : v # w => Steady(t.wavelets[v], t.events, logs[v], v)
    BY <1>1, <1>2, OneChanges DEF Inside
  <1>4. Inside(t, logs, w)
    BY <1>1, <1>3 DEF Inside, Alike
  <1> QED
    BY <1>1, <1>4 DEF t

\* The actor that is inside posts something that lets nobody in.
LEMMA InsidePosts ==
    ASSUME NEW s, NEW logs, NEW w \in Wavelets, Inside(s, logs, w), NEW e, IsEvent(e),
           \A v : ~Token(e, v)
    PROVE  Inside(Post(s, e), logs, w) /\ Post(s, e).wavelets = s.wavelets
  <1> DEFINE t == Post(s, e)
  <1>1. /\ IsServer(t) /\ t.wavelets = s.wavelets /\ t.events = Append(s.events, e)
        /\ IsSequence(s.events)
    BY PostKeeps DEF Inside
  <1> HIDE DEF t
  <1>2. \A v : Quiet(s.events, t.events, v)
    BY <1>1, QuietAppend
  <1>3. \A v \in Wavelets : v # w => /\ t.wavelets[v] = s.wavelets[v]
                                     /\ Quiet(s.events, t.events, v)
    BY <1>1, <1>2
  <1>4. \A v \in Wavelets : v # w => Steady(t.wavelets[v], t.events, logs[v], v)
    BY <1>1, <1>3, OneChanges DEF Inside
  <1>5. Inside(t, logs, w)
    BY <1>1, <1>2, <1>4 DEF Inside, Quiet
  <1> QED
    BY <1>1, <1>5 DEF t

\* A subscriber is added, and told what there is.
LEMMA SentKeeps ==
    ASSUME NEW s, NEW logs, NEW w \in Wavelets, Inside(s, logs, w), NEW c \in Connections,
           NEW member \in {"index", "content"}, NEW message
    PROVE  LET t == Sent(s, c, w, member, message)
           IN  Inside(t, logs, w) /\ Alike(s.wavelets[w], t.wavelets[w])
  <1> DEFINE wv == s.wavelets[w]
             x == [wv EXCEPT ![member] = @ \cup {c}]
             told == [s EXCEPT !.wavelets[w] = x]
             e == ToConn(c, message)
             t == Sent(s, c, w, member, message)
  <1>1. t = s \/ t = told \/ t = Post(told, e)
    BY DEF Sent
  <1>2. IsWavelet(wv, w)
    BY DEF Inside, IsServer
  <1>3. IsWavelet(x, w) /\ Alike(wv, x)
    <2>1. IsFiniteSet(wv.index \cup {c}) /\ IsFiniteSet(wv.content \cup {c})
      BY <1>2, FS_AddElement DEF IsWavelet
    <2>2. /\ DOMAIN x = WaveletFields /\ x = [f \in DOMAIN x |-> x[f]]
          /\ x.loaded = wv.loaded /\ x.enabled = wv.enabled /\ x.busy = wv.busy
          /\ x.queue = wv.queue /\ x.participants = wv.participants
          /\ x.index = wv.index \/ x.index = wv.index \cup {c}
          /\ x.content = wv.content \/ x.content = wv.content \cup {c}
      BY <1>2 DEF IsWavelet, WaveletFields
    <2> HIDE DEF x, wv
    <2> QED
      BY <1>2, <2>1, <2>2 DEF IsWavelet, Alike
  <1> HIDE DEF x, e, t
  <1>4. Inside(told, logs, w) /\ told.wavelets[w] = x
    BY <1>3, InsideChanges
  <1> HIDE DEF told
  <1>5. Inside(Post(told, e), logs, w) /\ Post(told, e).wavelets = told.wavelets
    BY <1>4, InsidePosts, ToConnLetsNobodyIn DEF e
  <1>6. Inside(t, logs, w) /\ Alike(wv, t.wavelets[w])
    BY <1>1, <1>3, <1>4, <1>5 DEF Alike
  <1> QED
    BY <1>6 DEF t

\* SubscribeActor, for content, index or both, changes nothing but subscribers.
LEMMA SubscribedKeeps ==
    ASSUME NEW s, NEW logs, NEW w \in Wavelets, Inside(s, logs, w), NEW m \in Subscriptions
    PROVE  LET t == Subscribed(s, w, m)
           IN  Inside(t, logs, w) /\ Alike(s.wavelets[w], t.wavelets[w])
  <1> DEFINE c == m.conn
             r == IF m.content THEN SubscribeContent(s, c, w) ELSE s
             t == IF m.index THEN SubscribeIndex(r, c, w) ELSE r
  <1>1. c \in Connections
    BY JobFacts
  <1>2. Subscribed(s, w, m) = t
    BY DEF Subscribed
  <1> HIDE DEF c
  <1>3. Inside(r, logs, w) /\ Alike(s.wavelets[w], r.wavelets[w])
    BY <1>1, SentKeeps DEF SubscribeContent, Alike
  <1> HIDE DEF r
  <1>4. Inside(t, logs, w) /\ Alike(r.wavelets[w], t.wavelets[w])
    BY <1>1, <1>3, SentKeeps DEF SubscribeIndex, Alike
  <1> HIDE DEF t
  <1> QED
    BY <1>2, <1>3, <1>4 DEF Alike

\* So it does when it unsubscribes.
LEMMA UnsubscribedKeeps ==
    ASSUME NEW s, NEW logs, NEW w \in Wavelets, Inside(s, logs, w), NEW m
    PROVE  LET t == Unsubscribed(s, w, m)
           IN  Inside(t, logs, w) /\ Alike(s.wavelets[w], t.wavelets[w])
  <1> DEFINE wv == s.wavelets[w]
             x == [wv EXCEPT !.content = IF m.content THEN @ \ {m.conn} ELSE @,
                             !.index = IF m.index THEN @ \ {m.conn} ELSE @]
             t == [s EXCEPT !.wavelets[w] = x]
  <1>1. IsWavelet(wv, w) /\ IsServer(s)
    BY DEF Inside, IsServer
  <1>2. Unsubscribed(s, w, m) = t
    BY <1>1 DEF Unsubscribed, IsServer
  <1>3. IsWavelet(x, w) /\ Alike(wv, x)
    <2>1. IsFiniteSet(wv.index \ {m.conn}) /\ IsFiniteSet(wv.content \ {m.conn})
      BY <1>1, FS_RemoveElement DEF IsWavelet
    <2>2. /\ DOMAIN x = WaveletFields /\ x = [f \in DOMAIN x |-> x[f]]
          /\ x.loaded = wv.loaded /\ x.enabled = wv.enabled /\ x.busy = wv.busy
          /\ x.queue = wv.queue /\ x.participants = wv.participants
          /\ x.index = wv.index \/ x.index = wv.index \ {m.conn}
          /\ x.content = wv.content \/ x.content = wv.content \ {m.conn}
      BY <1>1 DEF IsWavelet, WaveletFields
    <2> HIDE DEF x, wv
    <2> QED
      BY <1>1, <2>1, <2>2 DEF IsWavelet, Alike
  <1> HIDE DEF x
  <1>4. Inside(t, logs, w) /\ t.wavelets[w] = x
    BY <1>3, InsideChanges
  <1> HIDE DEF t
  <1> QED
    BY <1>2, <1>3, <1>4

-----------------------------------------------------------------------------
(* The actors of a wavelet.                                                  *)

\* Who is inside runs, and leaves or asks the store to persist.
LEMMA RunsKeeps ==
    ASSUME NEW s, NEW logs, NEW job \in Messages, Inside(s, logs, job.wavelet),
           s.wavelets[job.wavelet].busy
    PROVE  ServerOK(Runs(s, job), logs)
  <1> DEFINE w == job.wavelet
  <1>1. w \in Wavelets
    BY JobFacts
  <1>2. CASE job.kind = "subscribe"
    <2> DEFINE t == IF job.on THEN Subscribed(s, w, job) ELSE Unsubscribed(s, w, job)
    <2>1. job \in Subscriptions
      BY <1>2, JobFacts
    <2>2. Inside(t, logs, w)
      BY <1>1, <2>1, SubscribedKeeps, UnsubscribedKeeps
    <2>3. Runs(s, job) = Leaves(t, w)
      BY <1>2 DEF Runs, SubscribeRuns
    <2> HIDE DEF t
    <2> QED
      BY <1>1, <2>2, <2>3, LeavesKeeps
  <1>3. CASE job.kind = "submit"
    <2> DEFINE e == Persist(job)
               t == Post(s, e)
    <2>1. Runs(s, job) = t /\ job \in Submits
      BY <1>3, JobFacts DEF Runs
    <2>2. IsEvent(e)
      BY <2>1 DEF IsEvent, Persist, ToStore, Persists
    <2>3. /\ Working(e, w) /\ e.to # "ack"
          /\ \A v \in Wavelets : v # w => ~Token(e, v)
      BY DEF Persist, ToStore, Token, Working, Loading
    <2> HIDE DEF e
    <2>4. IsServer(t) /\ t.wavelets = s.wavelets /\ t.events = Append(s.events, e)
          /\ IsSequence(s.events)
      BY <2>2, PostKeeps DEF Inside
    <2> HIDE DEF t, w
    <2>5. Only(t.events, w, e)
      BY <2>4, TokenAppended DEF Inside, w
    <2>6. Occupied(t.wavelets[w], t.events, logs[w], w)
      BY <2>3, <2>4, <2>5 DEF Occupied, Inside, AgreesBut, w
    <2>7. \A v \in Wavelets : v # w => /\ t.wavelets[v] = s.wavelets[v]
                                       /\ Quiet(s.events, t.events, v)
      BY <2>3, <2>4, QuietAppend
    <2>8. \A v \in Wavelets : v # w => Steady(t.wavelets[v], t.events, logs[v], v)
      BY <1>1, <2>4, <2>7, OneChanges DEF Inside, w
    <2> QED
      BY <2>1, <2>4, <2>6, <2>8 DEF ServerOK, Steady
  <1> QED
    BY <1>2, <1>3, JobFacts

\* An actor comes: it enters, or waits.
LEMMA EntersKeeps ==
    ASSUME NEW s, NEW logs, ServerOK(s, logs), NEW job \in Messages
    PROVE  ServerOK(Enters(s, job), logs)
  <1> DEFINE w == job.wavelet
             wv == s.wavelets[w]
  <1>1. w \in Wavelets /\ job \in MessagesOf(w)
    BY JobFacts DEF MessagesOf
  <1>2. IsServer(s) /\ IsWavelet(wv, w) /\ Steady(wv, s.events, logs[w], w)
    BY <1>1 DEF ServerOK, IsServer
  <1>3. CASE Free(wv)
    <2> DEFINE x == [wv EXCEPT !.busy = TRUE]
               t == [s EXCEPT !.wavelets[w] = x]
    <2>1. Enters(s, job) = Runs(t, job)
      BY <1>2, <1>3 DEF Enters
    <2>2. IsWavelet(x, w) /\ x.busy /\ x.loaded = wv.loaded /\ x.enabled = wv.enabled
          /\ x.participants = wv.participants
      BY <1>2 DEF IsWavelet, WaveletFields
    <2> HIDE DEF x
    <2>3. /\ IsServer(t) /\ t.events = s.events /\ t.wavelets[w] = x
          /\ \A v \in Wavelets : v # w => t.wavelets[v] = s.wavelets[v]
      BY <1>1, <1>2, <2>2, WaveletBecomes
    <2> HIDE DEF t
    <2>4. Resting(wv, s.events, logs[w], w)
      BY <1>2, <1>3 DEF Steady, Absent, Opening, Occupied, Free
    <2>5. \A v \in Wavelets : v # w => /\ t.wavelets[v] = s.wavelets[v]
                                       /\ Quiet(s.events, t.events, v)
      BY <2>3, QuietSame
    <2>6. \A v \in Wavelets : v # w => Steady(t.wavelets[v], t.events, logs[v], v)
      BY <1>1, <2>3, <2>5, OneChanges DEF ServerOK
    <2>7. Inside(t, logs, w) /\ t.wavelets[w].busy
      BY <2>2, <2>3, <2>4, <2>6 DEF Inside, Resting
    <2> HIDE DEF w
    <2> QED
      BY <2>1, <2>7, RunsKeeps DEF w
  <1>4. CASE ~Free(wv)
    <2> DEFINE x == [wv EXCEPT !.queue = Append(@, job)]
               t == [s EXCEPT !.wavelets[w] = x]
    <2>1. Enters(s, job) = t
      BY <1>2, <1>4 DEF Enters
    <2>2. Append(wv.queue, job) \in Seq(MessagesOf(w))
      BY <1>1, <1>2, AppendProperties DEF IsWavelet
    <2>3. IsWavelet(x, w) /\ Alike(wv, x)
      BY <1>2, <2>2 DEF IsWavelet, WaveletFields, Alike
    <2> HIDE DEF x
    <2>4. /\ IsServer(t) /\ t.events = s.events /\ t.wavelets[w] = x
          /\ \A v \in Wavelets : v # w => t.wavelets[v] = s.wavelets[v]
      BY <1>1, <1>2, <2>3, WaveletBecomes
    <2> HIDE DEF t
    <2>5. Steady(t.wavelets[w], t.events, logs[w], w)
      BY <1>2, <2>3, <2>4, SteadyQuiet, QuietSame
    <2>6. \A v \in Wavelets : v # w => /\ t.wavelets[v] = s.wavelets[v]
                                       /\ Quiet(s.events, t.events, v)
      BY <2>4, QuietSame
    <2>7. \A v \in Wavelets : v # w => Steady(t.wavelets[v], t.events, logs[v], v)
      BY <1>1, <2>4, <2>6, OneChanges DEF ServerOK
    <2> QED
      BY <2>1, <2>4, <2>5, <2>7 DEF ServerOK
  <1> QED
    BY <1>3, <1>4

-----------------------------------------------------------------------------
(* A delta is applied.                                                       *)

\* Nobody else of w is under way, whether its history has come or not.
Around(s, logs, w) ==
    /\ IsServer(s)
    /\ \A v \in Wavelets : v # w => Steady(s.wavelets[v], s.events, logs[v], v)
    /\ s.wavelets[w].loaded /\ Nothing(s.events, w)

\* The wavelet changes, and stays in RAM.
LEMMA AroundChanges ==
    ASSUME NEW s, NEW logs, NEW w \in Wavelets, Around(s, logs, w), NEW x, IsWavelet(x, w),
           x.loaded
    PROVE  LET t == [s EXCEPT !.wavelets[w] = x]
           IN  Around(t, logs, w) /\ t.wavelets[w] = x
  <1> DEFINE t == [s EXCEPT !.wavelets[w] = x]
  <1>1. /\ IsServer(t) /\ t.events = s.events /\ t.wavelets[w] = x
        /\ \A v \in Wavelets : v # w => t.wavelets[v] = s.wavelets[v]
    BY WaveletBecomes DEF Around
  <1> HIDE DEF t
  <1>2. \A v \in Wavelets : v # w => /\ t.wavelets[v] = s.wavelets[v]
                                     /\ Quiet(s.events, t.events, v)
    BY <1>1, QuietSame
  <1>3. \A v \in Wavelets : v # w => Steady(t.wavelets[v], t.events, logs[v], v)
    BY <1>1, <1>2, OneChanges DEF Around
  <1>4. Around(t, logs, w)
    BY <1>1, <1>3 DEF Around
  <1> QED
    BY <1>1, <1>4 DEF t

\* Something is posted meanwhile that lets nobody in.
LEMMA AroundPosts ==
    ASSUME NEW s, NEW logs, NEW w \in Wavelets, Around(s, logs, w), NEW e, IsEvent(e),
           \A v : ~Token(e, v)
    PROVE  Around(Post(s, e), logs, w) /\ Post(s, e).wavelets = s.wavelets
  <1> DEFINE t == Post(s, e)
  <1>1. /\ IsServer(t) /\ t.wavelets = s.wavelets /\ t.events = Append(s.events, e)
        /\ IsSequence(s.events)
    BY PostKeeps DEF Around
  <1> HIDE DEF t
  <1>2. \A v : Quiet(s.events, t.events, v)
    BY <1>1, QuietAppend
  <1>3. \A v \in Wavelets : v # w => /\ t.wavelets[v] = s.wavelets[v]
                                     /\ Quiet(s.events, t.events, v)
    BY <1>1, <1>2
  <1>4. \A v \in Wavelets : v # w => Steady(t.wavelets[v], t.events, logs[v], v)
    BY <1>1, <1>3, OneChanges DEF Around
  <1>5. Around(t, logs, w)
    BY <1>1, <1>2, <1>4 DEF Around, Quiet
  <1> QED
    BY <1>1, <1>5 DEF t

\* What a finite set is mapped to.
LEMMA ImageIsFinite ==
    ASSUME NEW S, IsFiniteSet(S), NEW f
    PROVE  IsFiniteSet({f[x] : x \in S})
  <1> DEFINE T == {f[x] : x \in S}
             g == [x \in S |-> f[x]]
  <1>1. g \in Surjection(S, T)
    BY DEF Surjection
  <1> HIDE DEF g, T
  <1>2. IsFiniteSet(T)
    BY <1>1, FS_Surjection
  <1> QED
    BY <1>2 DEF T

\* Several messages are sent to connections.
LEMMA AroundPostsAll ==
    ASSUME NEW s, NEW logs, NEW w \in Wavelets, Around(s, logs, w),
           NEW S, IsFiniteSet(S), \A e \in S : e.to = "conn"
    PROVE  LET t == PostAll(s, SetToSeq(S))
           IN  Around(t, logs, w) /\ t.wavelets = s.wavelets
  <1> DEFINE p == SetToSeq(S)
             t == PostAll(s, p)
             q == s.events
             r == q \o p
  <1>1. p \in Seq(S)
    BY SetToSeqIsSequence
  <1> HIDE DEF p
  <1>2. IsSequence(p) /\ Len(p) \in Nat /\ \A i \in 1..Len(p) : p[i] \in S
    BY <1>1, SequenceOfItsElements, LenProperties
  <1>3. \A i \in 1..Len(p) : IsEvent(p[i]) /\ \A v : ~Token(p[i], v)
    BY <1>2 DEF IsEvent, Token, Working, Loading
  <1>4. IsServer(s) /\ IsSequence(q) /\ \A i \in 1..Len(q) : IsEvent(q[i])
    BY DEF Around, IsServer, IsQueue
  <1>5. /\ DOMAIN t = {"wavelets", "events"} /\ t = [f \in DOMAIN t |-> t[f]]
        /\ t.wavelets = s.wavelets /\ t.events = r
    BY <1>4 DEF PostAll, IsServer
  <1> HIDE DEF t, q
  <1>6. /\ IsSequence(r) /\ Len(q) \in Nat /\ Len(r) = Len(q) + Len(p)
        /\ \A i \in 1..Len(q) : r[i] = q[i]
        /\ \A i \in 1..Len(p) : r[Len(q) + i] = p[i]
    BY <1>2, <1>4, QueueConcat
  <1>7. \A v : Quiet(q, r, v)
    BY <1>2, <1>3, <1>4, QuietConcat
  <1> HIDE DEF r
  <1>8. IsQueue(r)
    <2>1. ASSUME NEW i \in 1..Len(r)
          PROVE  IsEvent(r[i])
      <3>1. CASE i \in 1..Len(q)
        BY <1>4, <1>6, <3>1
      <3>2. CASE i \notin 1..Len(q)
        <4>1. i - Len(q) \in 1..Len(p) /\ Len(q) + (i - Len(q)) = i
          BY <1>2, <1>6, <3>2
        <4>2. r[i] = p[i - Len(q)]
          BY <1>6, <4>1
        <4> QED
          BY <1>3, <4>1, <4>2
      <3> QED
        BY <3>1, <3>2
    <2> QED
      BY <1>6, <2>1 DEF IsQueue
  <1>9. IsServer(t)
    BY <1>4, <1>5, <1>8 DEF IsServer
  <1>10. \A v \in Wavelets : v # w => /\ t.wavelets[v] = s.wavelets[v]
                                      /\ Quiet(s.events, t.events, v)
    BY <1>5, <1>7 DEF q
  <1>11. \A v \in Wavelets : v # w => Steady(t.wavelets[v], t.events, logs[v], v)
    BY <1>9, <1>10, OneChanges DEF Around
  <1>12. Around(t, logs, w)
    BY <1>5, <1>7, <1>9, <1>11 DEF Around, Quiet, q
  <1> QED
    BY <1>5, <1>12 DEF t, p

\* What one operation makes of the participants.
Changed(P, op) ==
    CASE op.kind = "add" -> P \cup {op.user}
      [] op.kind = "remove" -> P \ {op.user}
      [] OTHER -> P

\* One operation changes the participants as it says, and tells who is new.
LEMMA OpAppliedKeeps ==
    ASSUME NEW s, NEW logs, NEW w \in Wavelets, Around(s, logs, w), NEW op \in Ops
    PROVE  LET t == OpApplied(s, w, op)
           IN  /\ Around(t, logs, w) /\ t.wavelets[w].enabled = s.wavelets[w].enabled
               /\ t.wavelets[w].participants = Changed(s.wavelets[w].participants, op)
  <1> DEFINE wv == s.wavelets[w]
             t == OpApplied(s, w, op)
  <1>1. IsServer(s) /\ IsWavelet(wv, w) /\ wv.loaded
    BY DEF Around, IsServer
  <1>2. CASE \E u \in Users : op = Add(u)
    <2>1. PICK u \in Users : op = Add(u)
      BY <1>2
    <2>2. t = ParticipantAdded(s, w, u) /\ op.kind = "add" /\ op.user = u
      BY <2>1 DEF OpApplied, Add
    <2>3. CASE u \in wv.participants
      <3>1. t = s /\ Changed(wv.participants, op) = wv.participants
        BY <2>2, <2>3 DEF ParticipantAdded, Changed
      <3> QED
        BY <3>1
    <2>4. CASE u \notin wv.participants
      <3> DEFINE x == [wv EXCEPT !.participants = @ \cup {u}]
                 r == [s EXCEPT !.wavelets[w] = x]
                 e == Notify(u, w)
      <3>1. t = Post(r, e)
        BY <2>2, <2>4 DEF ParticipantAdded
      <3>2. /\ IsWavelet(x, w) /\ x.loaded /\ x.enabled = wv.enabled
            /\ x.participants = Changed(wv.participants, op)
        BY <1>1, <2>2 DEF IsWavelet, WaveletFields, Changed
      <3>3. IsEvent(e) /\ \A v : ~Token(e, v)
        BY DEF IsEvent, Notify, Token, Working, Loading
      <3> HIDE DEF x, e
      <3>4. Around(r, logs, w) /\ r.wavelets[w] = x
        BY <3>2, AroundChanges
      <3> HIDE DEF r
      <3>5. Around(Post(r, e), logs, w) /\ Post(r, e).wavelets = r.wavelets
        BY <3>3, <3>4, AroundPosts
      <3> QED
        BY <3>1, <3>2, <3>4, <3>5
    <2> QED
      BY <2>3, <2>4
  <1>3. CASE \E u \in Users : op = Expel(u)
    <2>1. PICK u \in Users : op = Expel(u)
      BY <1>3
    <2> DEFINE x == [wv EXCEPT !.participants = @ \ {u},
                               !.index = UnsubscribeAllClients(@, u),
                               !.content = UnsubscribeAllClients(@, u)]
               r == [s EXCEPT !.wavelets[w] = x]
    <2>2. t = ParticipantRemoved(s, w, u) /\ op.kind = "remove" /\ op.user = u
      BY <2>1 DEF OpApplied, Expel
    <2>3. t = r
      <3> DEFINE P == wv.participants \ {u}
                 I == UnsubscribeAllClients(wv.index, u)
                 C == UnsubscribeAllClients(wv.content, u)
      <3>1. t = [s EXCEPT !.wavelets[w].participants = P, !.wavelets[w].index = I,
                          !.wavelets[w].content = C]
        BY <1>1, <2>2 DEF ParticipantRemoved, IsServer, IsWavelet, WaveletFields
      <3>2. x = [wv EXCEPT !.participants = P, !.index = I, !.content = C]
        OBVIOUS
      <3> HIDE DEF P, I, C, x
      <3>3. /\ DOMAIN t = {"wavelets", "events"} /\ t = [f \in DOMAIN t |-> t[f]]
            /\ t.events = s.events
            /\ t.wavelets = [v \in Wavelets |-> t.wavelets[v]]
            /\ \A v \in Wavelets : t.wavelets[v] = IF v = w THEN x ELSE s.wavelets[v]
        <4> HIDE DEF t
        <4> DEFINE W == s.wavelets
                   x1 == [wv EXCEPT !.participants = P]
                   x2 == [x1 EXCEPT !.index = I]
                   s1 == [s EXCEPT !.wavelets = [W EXCEPT ![w] = x1]]
                   s2 == [s EXCEPT !.wavelets = [W EXCEPT ![w] = x2]]
        <4>1. x = [x2 EXCEPT !.content = C]
          BY <3>2
        <4>2. s1.wavelets[w] = x1 /\ [s1 EXCEPT !.wavelets[w].index = I] = s2
          BY <1>1 DEF IsServer
        <4>3. s2.wavelets[w] = x2 /\ [s2 EXCEPT !.wavelets[w].content = C] = r
          BY <1>1, <4>1 DEF IsServer
        <4>4. t = [[s1 EXCEPT !.wavelets[w].index = I] EXCEPT !.wavelets[w].content = C]
          BY <3>1
        <4>5. t = r
          BY <4>2, <4>3, <4>4
        <4> QED
          BY <1>1, <4>5 DEF IsServer
      <3> QED
        BY <1>1, <3>3 DEF IsServer
    <2>4. /\ IsWavelet(x, w) /\ x.loaded /\ x.enabled = wv.enabled
          /\ x.participants = Changed(wv.participants, op)
      <3> DEFINE I == UnsubscribeAllClients(wv.index, u)
                 C == UnsubscribeAllClients(wv.content, u)
      <3>1. /\ I \subseteq wv.index /\ C \subseteq wv.content
            /\ wv.index \in SUBSET Connections /\ IsFiniteSet(wv.index)
            /\ wv.content \in SUBSET Connections /\ IsFiniteSet(wv.content)
        BY <1>1 DEF UnsubscribeAllClients, IsWavelet
      <3> HIDE DEF I, C
      <3>2. IsFiniteSet(I) /\ IsFiniteSet(C)
        BY <3>1, FS_Subset
      <3>3. /\ DOMAIN x = WaveletFields /\ x = [f \in DOMAIN x |-> x[f]]
            /\ x.loaded = wv.loaded /\ x.enabled = wv.enabled /\ x.busy = wv.busy
            /\ x.queue = wv.queue /\ x.index = I /\ x.content = C
            /\ x.participants = Changed(wv.participants, op)
        BY <1>1, <2>2 DEF IsWavelet, WaveletFields, Changed, I, C
      <3> HIDE DEF x, wv
      <3> QED
        BY <1>1, <3>1, <3>2, <3>3 DEF IsWavelet
    <2> HIDE DEF x
    <2>5. Around(r, logs, w) /\ r.wavelets[w] = x
      BY <2>4, AroundChanges
    <2> QED
      BY <2>3, <2>4, <2>5
  <1>4. CASE op = Start
    <2> DEFINE x == [wv EXCEPT !.blip = TRUE]
               r == [s EXCEPT !.wavelets[w] = x]
    <2>1. t = r /\ Changed(wv.participants, op) = wv.participants
      BY <1>4 DEF OpApplied, Start, Changed
    <2>2. /\ IsWavelet(x, w) /\ x.loaded /\ x.enabled = wv.enabled
          /\ x.participants = wv.participants
      BY <1>1 DEF IsWavelet, WaveletFields
    <2> HIDE DEF x
    <2>3. Around(r, logs, w) /\ r.wavelets[w] = x
      BY <2>2, AroundChanges
    <2> QED
      BY <2>1, <2>2, <2>3
  <1>5. CASE op = Type
    <2> DEFINE x == [wv EXCEPT !.text = Append(@, "x")]
               r == [s EXCEPT !.wavelets[w] = x]
    <2>1. t = r /\ Changed(wv.participants, op) = wv.participants
      BY <1>5 DEF OpApplied, Type, Changed
    <2>2. /\ IsWavelet(x, w) /\ x.loaded /\ x.enabled = wv.enabled
          /\ x.participants = wv.participants
      BY <1>1 DEF IsWavelet, WaveletFields
    <2> HIDE DEF x
    <2>3. Around(r, logs, w) /\ r.wavelets[w] = x
      BY <2>2, AroundChanges
    <2> QED
      BY <2>1, <2>2, <2>3
  <1> QED
    BY <1>2, <1>3, <1>4, <1>5 DEF Ops

\* The operations of a delta one by one, and the version.
OpsBy(f, s, w, delta) ==
    /\ f[0] = s
    /\ \A i \in 1..Len(delta) : f[i] = OpApplied(f[i - 1], w, delta[i])
    /\ OpsApplied(s, w, delta) = [f[Len(delta)] EXCEPT !.wavelets[w].version = @ + 1]

\* There is such a run over the operations.
LEMMA OpsRun ==
    ASSUME NEW s, NEW w, NEW delta \in DeltaSet
    PROVE  \E f : OpsBy(f, s, w, delta)
  <1> DEFINE n == Len(delta)
             first == s
             Then(h, i) == OpApplied(h, w, delta[i])
             IsRun(h, k) == h = [i \in 0..k |-> IF i = 0 THEN first ELSE Then(h[i - 1], i)]
             after == CHOOSE h : IsRun(h, n)
  <1>1. n \in Nat
    BY LenProperties DEF DeltaSet
  <1>2. OpsApplied(s, w, delta) = [after[n] EXCEPT !.wavelets[w].version = @ + 1]
    BY DEF OpsApplied
  <1>3. \A h, i : Then(h, i) = OpApplied(h, w, delta[i])
    OBVIOUS
  <1> HIDE DEF n, first, Then
  <1>4. \E r : IsRun(r, n)
    <2> DEFINE T == {k \in Nat : \E r : IsRun(r, k)}
    <2>1. 0 \in T
      <3> DEFINE r == [i \in 0..0 |-> first]
      <3>1. IsRun(r, 0)
        OBVIOUS
      <3> QED
        BY <3>1
    <2>2. ASSUME NEW k \in Nat, k \in T
          PROVE  k + 1 \in T
      <3>1. PICK h : IsRun(h, k)
        BY <2>2
      <3> DEFINE g == [i \in 0..(k + 1) |-> IF i <= k THEN h[i] ELSE Then(h[k], k + 1)]
      <3>2. ASSUME NEW i \in 0..(k + 1)
            PROVE  g[i] = IF i = 0 THEN first ELSE Then(g[i - 1], i)
        <4>1. CASE i <= k
          <5>1. h[i] = IF i = 0 THEN first ELSE Then(h[i - 1], i)
            BY <3>1, <4>1
          <5>2. i # 0 => g[i - 1] = h[i - 1]
            BY <4>1
          <5> QED
            BY <4>1, <5>1, <5>2
        <4>2. CASE i = k + 1
          BY <4>2
        <4> QED
          BY <4>1, <4>2
      <3>3. g = [i \in 0..(k + 1) |-> g[i]]
        OBVIOUS
      <3>4. IsRun(g, k + 1)
        <4> HIDE DEF g
        <4> QED
          BY <3>2, <3>3
      <3>5. \E r : IsRun(r, k + 1)
        <4> HIDE DEF g, IsRun
        <4> QED
          BY <3>4
      <3> QED
        BY <3>5
    <2>3. n \in T
      <3> HIDE DEF T
      <3> QED
        BY <1>1, <2>1, <2>2, SetInduction
    <2> QED
      BY <2>3
  <1>5. IsRun(after, n)
    <2> HIDE DEF IsRun
    <2> QED
      BY <1>4
  <1> HIDE DEF after
  <1>6. \A i \in 0..n : after[i] = IF i = 0 THEN first ELSE Then(after[i - 1], i)
    BY <1>5
  <1>7. after[0] = first
    BY <1>1, <1>6
  <1>8. \A i \in 1..n : after[i] = Then(after[i - 1], i)
    BY <1>1, <1>6
  <1>9. OpsBy(after, s, w, delta)
    BY <1>2, <1>3, <1>7, <1>8 DEF OpsBy, n, first
  <1> QED
    BY <1>9

\* What the first k operations of a delta make of the participants.
FollowsTo(Q, P, delta, k) ==
    \A u \in Users :
        LET in == \E j \in 1..k : delta[j] = Add(u)
            out == \E j \in 1..k : delta[j] = Expel(u)
        IN  /\ ~in /\ ~out => (u \in Q <=> u \in P)
            /\ in /\ ~out => u \in Q
            /\ out /\ ~in => u \notin Q

\* One operation more.
LEMMA FollowsOneMore ==
    ASSUME NEW P, NEW Q, NEW delta \in DeltaSet, NEW k \in Nat, k + 1 <= Len(delta),
           FollowsTo(Q, P, delta, k)
    PROVE  FollowsTo(Changed(Q, delta[k + 1]), P, delta, k + 1)
  <1> DEFINE op == delta[k + 1]
             R == Changed(Q, op)
  <1>1. op \in Ops
    BY LenProperties DEF DeltaSet
  <1> SUFFICES ASSUME NEW u \in Users
               PROVE  LET in == \E j \in 1..(k + 1) : delta[j] = Add(u)
                          out == \E j \in 1..(k + 1) : delta[j] = Expel(u)
                      IN  /\ ~in /\ ~out => (u \in R <=> u \in P)
                          /\ in /\ ~out => u \in R
                          /\ out /\ ~in => u \notin R
    BY DEF FollowsTo
  <1> DEFINE in(l) == \E j \in 1..l : delta[j] = Add(u)
             out(l) == \E j \in 1..l : delta[j] = Expel(u)
  <1>2. /\ in(k + 1) <=> in(k) \/ op = Add(u)
        /\ out(k + 1) <=> out(k) \/ op = Expel(u)
    <2>1. \A j \in 1..(k + 1) : j \in 1..k \/ j = k + 1
      OBVIOUS
    <2>2. k + 1 \in 1..(k + 1) /\ \A j \in 1..k : j \in 1..(k + 1)
      OBVIOUS
    <2> QED
      BY <2>1, <2>2
  <1>3. /\ ~in(k) /\ ~out(k) => (u \in Q <=> u \in P)
        /\ in(k) /\ ~out(k) => u \in Q
        /\ out(k) /\ ~in(k) => u \notin Q
    BY DEF FollowsTo
  <1>4. /\ op = Add(u) => u \in R
        /\ op = Expel(u) => u \notin R
        /\ op # Add(u) /\ op # Expel(u) => (u \in R <=> u \in Q)
    <2>1. CASE \E v \in Users : op = Add(v)
      <3>1. PICK v \in Users : op = Add(v)
        BY <2>1
      <3>2. /\ op.kind = "add" /\ op.user = v
            /\ op = Add(u) <=> v = u
            /\ op # Expel(u)
        BY <3>1 DEF Add, Expel
      <3> HIDE DEF op
      <3>3. R = Q \cup {v}
        BY <3>2 DEF Changed
      <3> HIDE DEF R
      <3> QED
        BY <3>2, <3>3
    <2>2. CASE \E v \in Users : op = Expel(v)
      <3>1. PICK v \in Users : op = Expel(v)
        BY <2>2
      <3>2. /\ op.kind = "remove" /\ op.user = v
            /\ op = Expel(u) <=> v = u
            /\ op # Add(u)
        BY <3>1 DEF Add, Expel
      <3> HIDE DEF op
      <3>3. R = Q \ {v}
        BY <3>2 DEF Changed
      <3> HIDE DEF R
      <3> QED
        BY <3>2, <3>3
    <2>3. CASE op \in {Start, Type}
      <3>1. /\ op.kind # "add" /\ op.kind # "remove"
            /\ op # Add(u) /\ op # Expel(u)
        BY <2>3 DEF Add, Expel, Start, Type
      <3> HIDE DEF op
      <3>2. R = Q
        BY <3>1 DEF Changed
      <3> HIDE DEF R
      <3> QED
        BY <3>1, <3>2
    <2> QED
      BY <1>1, <2>1, <2>2, <2>3 DEF Ops
  <1>5. ~(op = Add(u) /\ op = Expel(u))
    BY DEF Add, Expel
  <1> HIDE DEF op, in, out, R
  <1>6. /\ ~in(k + 1) /\ ~out(k + 1) => (u \in R <=> u \in P)
        /\ in(k + 1) /\ ~out(k + 1) => u \in R
        /\ out(k + 1) /\ ~in(k + 1) => u \notin R
    BY <1>2, <1>3, <1>4, <1>5
  <1> QED
    BY <1>6 DEF in, out

\* A delta is applied: the participants follow it, and nothing else changes that
\* matters.
LEMMA OpsAppliedKeeps ==
    ASSUME NEW s, NEW logs, NEW w \in Wavelets, Around(s, logs, w), NEW delta \in DeltaSet
    PROVE  LET t == OpsApplied(s, w, delta)
           IN  /\ Around(t, logs, w) /\ t.wavelets[w].enabled = s.wavelets[w].enabled
               /\ Follows(t.wavelets[w].participants, s.wavelets[w].participants, delta)
  <1>1. PICK f : OpsBy(f, s, w, delta)
    BY OpsRun
  <1> DEFINE n == Len(delta)
             P == s.wavelets[w].participants
             State(r, k) == /\ Around(r, logs, w)
                            /\ r.wavelets[w].enabled = s.wavelets[w].enabled
                            /\ FollowsTo(r.wavelets[w].participants, P, delta, k)
             T == {k \in Nat : k <= n => State(f[k], k)}
  <1>2. n \in Nat /\ DOMAIN delta = 1..n /\ \A k \in 1..n : delta[k] \in Ops
    BY LenProperties DEF DeltaSet
  <1>3. 0 \in T
    BY <1>1 DEF OpsBy, FollowsTo
  <1>4. ASSUME NEW k \in Nat, k \in T
        PROVE  k + 1 \in T
    <2> SUFFICES ASSUME k + 1 <= n
                 PROVE  State(f[k + 1], k + 1)
      OBVIOUS
    <2> DEFINE r == f[k]
               op == delta[k + 1]
               t == f[k + 1]
    <2>1. k + 1 \in 1..n /\ (k + 1) - 1 = k /\ k <= n
      BY <1>2
    <2>2. t = OpApplied(r, w, op) /\ op \in Ops
      BY <1>1, <1>2, <2>1 DEF OpsBy
    <2>3. /\ Around(r, logs, w)
          /\ r.wavelets[w].enabled = s.wavelets[w].enabled
          /\ FollowsTo(r.wavelets[w].participants, P, delta, k)
      BY <1>4, <2>1
    <2> DEFINE Q == r.wavelets[w].participants
    <2> HIDE DEF r, t, op
    <2>4. /\ Around(t, logs, w) /\ t.wavelets[w].enabled = r.wavelets[w].enabled
          /\ t.wavelets[w].participants = Changed(Q, op)
      BY <2>2, <2>3, OpAppliedKeeps
    <2> HIDE DEF Q, P
    <2>5. FollowsTo(Changed(Q, op), P, delta, k + 1)
      BY <2>3, FollowsOneMore DEF op, Q
    <2> QED
      BY <2>3, <2>4, <2>5 DEF t
  <1> HIDE DEF State
  <1>5. n \in T
    <2> HIDE DEF T, n
    <2> QED
      BY <1>2, <1>3, <1>4, SetInduction
  <1>6. State(f[n], n)
    BY <1>2, <1>5
  <1> DEFINE r == f[n]
             wv == r.wavelets[w]
             x == [wv EXCEPT !.version = @ + 1]
             t == [r EXCEPT !.wavelets[w] = x]
  <1>7. OpsApplied(s, w, delta) = t
    BY <1>1 DEF OpsBy
  <1>8. /\ Around(r, logs, w) /\ wv.enabled = s.wavelets[w].enabled
        /\ FollowsTo(wv.participants, P, delta, n)
    BY <1>6 DEF State
  <1> HIDE DEF r
  <1>9. IsWavelet(wv, w) /\ wv.loaded
    BY <1>8 DEF Around, IsServer
  <1>10. /\ IsWavelet(x, w) /\ x.loaded /\ x.enabled = wv.enabled
         /\ x.participants = wv.participants
    BY <1>9 DEF IsWavelet, WaveletFields
  <1> HIDE DEF x, wv
  <1>11. Around(t, logs, w) /\ t.wavelets[w] = x
    BY <1>8, <1>10, AroundChanges
  <1> HIDE DEF t, P
  <1>12. Follows(wv.participants, P, delta)
    <2> DEFINE Q == wv.participants
    <2>1. \A u : /\ Adds(delta, u) <=> \E j \in 1..n : delta[j] = Add(u)
                 /\ Expels(delta, u) <=> \E j \in 1..n : delta[j] = Expel(u)
                 /\ Touches(delta, u) <=> Adds(delta, u) \/ Expels(delta, u)
      BY <1>2, SwapsAndTouches DEF Adds, Expels
    <2>2. FollowsTo(Q, P, delta, n)
      BY <1>8
    <2> HIDE DEF n, Q
    <2>3. Follows(Q, P, delta)
      BY <2>1, <2>2 DEF FollowsTo, Follows
    <2> QED
      BY <2>3 DEF Q
  <1> QED
    BY <1>7, <1>8, <1>10, <1>11, <1>12 DEF P

\* A delta is applied, and what it changed is sent to the subscribers.
LEMMA ApplyKeeps ==
    ASSUME NEW s, NEW logs, NEW w \in Wavelets, Around(s, logs, w), NEW delta \in DeltaSet
    PROVE  LET t == Apply(s, w, delta)
           IN  /\ Around(t, logs, w) /\ t.wavelets[w].enabled = s.wavelets[w].enabled
               /\ Follows(t.wavelets[w].participants, s.wavelets[w].participants, delta)
  <1> DEFINE r == OpsApplied(s, w, delta)
             S == {ToConn(c, Update(w, r.wavelets[w])) : c \in r.wavelets[w].content}
             b == PostAll(r, SetToSeq(S))
             wv == b.wavelets[w]
             digest == NextDigest(w, wv, delta)
             x == [wv EXCEPT !.digest = digest.text]
             d == [b EXCEPT !.wavelets[w] = x]
             D == {ToConn(c, digest) : c \in d.wavelets[w].index}
             t == PostAll(d, SetToSeq(D))
  <1>1. /\ Around(r, logs, w) /\ r.wavelets[w].enabled = s.wavelets[w].enabled
        /\ Follows(r.wavelets[w].participants, s.wavelets[w].participants, delta)
    BY OpsAppliedKeeps
  <1>2. b = Broadcast(r, w)
    BY DEF Broadcast
  <1>3. Apply(s, w, delta) = BroadcastDigest(b, w, delta)
    BY <1>2 DEF Apply
  <1> HIDE DEF r
  <1>4. IsFiniteSet(S) /\ \A e \in S : e.to = "conn"
    <2>1. IsFiniteSet(r.wavelets[w].content)
      BY <1>1 DEF Around, IsServer, IsWavelet
    <2>2. \A e \in S : e.to = "conn"
      BY DEF ToConn
    <2> DEFINE C == r.wavelets[w].content
    <2>3. S = {ToConn(c, Update(w, r.wavelets[w])) : c \in C}
      OBVIOUS
    <2> DEFINE f == [c \in C |-> ToConn(c, Update(w, r.wavelets[w]))]
    <2>4. S = {f[c] : c \in C}
      BY <2>3
    <2> HIDE DEF f, C, S
    <2>5. IsFiniteSet(S)
      BY <2>1, <2>4, ImageIsFinite DEF C
    <2> QED
      BY <2>2, <2>5
  <1> HIDE DEF S
  <1>5. Around(b, logs, w) /\ b.wavelets = r.wavelets
    BY <1>1, <1>4, AroundPostsAll
  <1>6. BroadcastDigest(b, w, delta) = PostAll([b EXCEPT !.wavelets[w].digest = digest.text],
                          SetToSeq({ToConn(c, digest) : c \in b.wavelets[w].index}))
    BY DEF BroadcastDigest
  <1> HIDE DEF b
  <1>7. IsWavelet(wv, w) /\ wv.loaded
    BY <1>5 DEF Around, IsServer
  <1> HIDE DEF digest
  <1>8. /\ IsWavelet(x, w) /\ x.loaded /\ x.enabled = wv.enabled
        /\ x.participants = wv.participants /\ x.index = wv.index
    BY <1>7 DEF IsWavelet, WaveletFields
  <1>9. [b EXCEPT !.wavelets[w].digest = digest.text] = d
    OBVIOUS
  <1> HIDE DEF x
  <1>10. Around(d, logs, w) /\ d.wavelets[w] = x
    BY <1>5, <1>8, AroundChanges
  <1> HIDE DEF d
  <1>11. D = {ToConn(c, digest) : c \in b.wavelets[w].index}
    BY <1>8, <1>10
  <1>12. IsFiniteSet(D) /\ \A e \in D : e.to = "conn"
    <2>1. IsFiniteSet(d.wavelets[w].index)
      BY <1>10 DEF Around, IsServer, IsWavelet
    <2>2. \A e \in D : e.to = "conn"
      BY DEF ToConn
    <2> DEFINE C == d.wavelets[w].index
    <2>3. D = {ToConn(c, digest) : c \in C}
      OBVIOUS
    <2> DEFINE f == [c \in C |-> ToConn(c, digest)]
    <2>4. D = {f[c] : c \in C}
      BY <2>3
    <2> HIDE DEF f, C, D
    <2>5. IsFiniteSet(D)
      BY <2>1, <2>4, ImageIsFinite DEF C
    <2> QED
      BY <2>2, <2>5
  <1>13. t = Apply(s, w, delta)
    BY <1>3, <1>6, <1>9, <1>11
  <1> HIDE DEF D
  <1>14. Around(t, logs, w) /\ t.wavelets = d.wavelets
    BY <1>10, <1>12, AroundPostsAll
  <1> HIDE DEF t
  <1> QED
    BY <1>1, <1>5, <1>8, <1>10, <1>13, <1>14 DEF wv

-----------------------------------------------------------------------------
(* The history.                                                              *)

\* One more of the elements of a sequence.
LEMMA OneMoreOf ==
    ASSUME NEW S, NEW q \in Seq(S), NEW k \in Nat, k + 1 <= Len(q)
    PROVE  /\ SubSeq(q, 1, k) \in Seq(S) /\ q[k + 1] \in S
           /\ SubSeq(q, 1, k + 1) = Append(SubSeq(q, 1, k), q[k + 1])
  <1> DEFINE a == SubSeq(q, 1, k)
             b == SubSeq(q, 1, k + 1)
             n == Len(q)
             e == q[k + 1]
             c == Append(a, e)
  <1>1. n \in Nat
    BY LenProperties
  <1>2. /\ a \in Seq(S) /\ Len(a) = k /\ \A i \in 1..k : a[i] = q[i]
        /\ b \in Seq(S) /\ Len(b) = k + 1 /\ \A i \in 1..(k + 1) : b[i] = q[i]
    BY <1>1, SubSeqProperties
  <1>3. e \in S
    BY <1>1
  <1> HIDE DEF a, b, n, e
  <1>4. /\ c \in Seq(S) /\ Len(c) = k + 1 /\ \A i \in 1..k : c[i] = a[i]
        /\ c[k + 1] = e
    BY <1>2, <1>3, AppendProperties
  <1> HIDE DEF c
  <1>5. \A i \in 1..(k + 1) : c[i] = b[i]
    <2>1. \A i \in 1..(k + 1) : i \in 1..k \/ i = k + 1
      OBVIOUS
    <2>2. b[k + 1] = e
      BY <1>2 DEF e
    <2> QED
      BY <1>2, <1>4, <2>1, <2>2
  <1>6. b = c
    BY <1>2, <1>4, <1>5, SeqEqual
  <1> QED
    BY <1>2, <1>3, <1>6 DEF a, b, e, c

\* The deltas of the history are applied one by one, and then the section opens.
ReplayBy(f, s, w, deltas) ==
    /\ f[0] = s
    /\ \A i \in 1..Len(deltas) : f[i] = Apply(f[i - 1], w, deltas[i])
    /\ Replay(s, w, deltas) = Enables(f[Len(deltas)], w)

\* There is such a run over the history.
LEMMA HistoryRuns ==
    ASSUME NEW s, NEW w, NEW deltas \in Logs
    PROVE  \E f : ReplayBy(f, s, w, deltas)
  <1> DEFINE n == Len(deltas)
             first == s
             Then(h, i) == Apply(h, w, deltas[i])
             IsRun(h, k) == h = [i \in 0..k |-> IF i = 0 THEN first ELSE Then(h[i - 1], i)]
             after == CHOOSE h : IsRun(h, n)
  <1>1. n \in Nat
    BY LenProperties DEF Logs
  <1>2. Replay(s, w, deltas) = Enables(after[n], w)
    BY DEF Replay
  <1>3. \A h, i : Then(h, i) = Apply(h, w, deltas[i])
    OBVIOUS
  <1> HIDE DEF n, first, Then
  <1>4. \E r : IsRun(r, n)
    <2> DEFINE T == {k \in Nat : \E r : IsRun(r, k)}
    <2>1. 0 \in T
      <3> DEFINE r == [i \in 0..0 |-> first]
      <3>1. IsRun(r, 0)
        OBVIOUS
      <3> QED
        BY <3>1
    <2>2. ASSUME NEW k \in Nat, k \in T
          PROVE  k + 1 \in T
      <3>1. PICK h : IsRun(h, k)
        BY <2>2
      <3> DEFINE g == [i \in 0..(k + 1) |-> IF i <= k THEN h[i] ELSE Then(h[k], k + 1)]
      <3>2. ASSUME NEW i \in 0..(k + 1)
            PROVE  g[i] = IF i = 0 THEN first ELSE Then(g[i - 1], i)
        <4>1. CASE i <= k
          <5>1. h[i] = IF i = 0 THEN first ELSE Then(h[i - 1], i)
            BY <3>1, <4>1
          <5>2. i # 0 => g[i - 1] = h[i - 1]
            BY <4>1
          <5> QED
            BY <4>1, <5>1, <5>2
        <4>2. CASE i = k + 1
          BY <4>2
        <4> QED
          BY <4>1, <4>2
      <3>3. g = [i \in 0..(k + 1) |-> g[i]]
        OBVIOUS
      <3>4. IsRun(g, k + 1)
        <4> HIDE DEF g
        <4> QED
          BY <3>2, <3>3
      <3>5. \E r : IsRun(r, k + 1)
        <4> HIDE DEF g, IsRun
        <4> QED
          BY <3>4
      <3> QED
        BY <3>5
    <2>3. n \in T
      <3> HIDE DEF T
      <3> QED
        BY <1>1, <2>1, <2>2, SetInduction
    <2> QED
      BY <2>3
  <1>5. IsRun(after, n)
    <2> HIDE DEF IsRun
    <2> QED
      BY <1>4
  <1> HIDE DEF after
  <1>6. \A i \in 0..n : after[i] = IF i = 0 THEN first ELSE Then(after[i - 1], i)
    BY <1>5
  <1>7. after[0] = first
    BY <1>1, <1>6
  <1>8. \A i \in 1..n : after[i] = Then(after[i - 1], i)
    BY <1>1, <1>6
  <1>9. ReplayBy(after, s, w, deltas)
    BY <1>2, <1>3, <1>7, <1>8 DEF ReplayBy, n, first
  <1> QED
    BY <1>9

\* The wavelet has its history, and is like one that has never been away.
LEMMA ReplayKeeps ==
    ASSUME NEW s, NEW logs, NEW w \in Wavelets, Around(s, logs, w),
           s.wavelets[w].participants = {}, logs[w] \in Logs
    PROVE  ServerOK(Replay(s, w, logs[w]), logs)
  <1> DEFINE deltas == logs[w]
             n == Len(deltas)
             Done(k) == SubSeq(deltas, 1, k)
  <1>1. PICK f : ReplayBy(f, s, w, deltas)
    BY HistoryRuns
  <1>2. deltas \in Logs /\ n \in Nat
    BY LenProperties DEF Logs
  <1> DEFINE State(r, k) == Around(r, logs, w) /\ Agrees(r.wavelets[w].participants, Done(k))
             T == {k \in Nat : k <= n => State(f[k], k)}
  <1>3. Done(0) = <<>> /\ Done(n) = deltas
    <2> HIDE DEF deltas, n
    <2>1. deltas \in Seq(DeltaSet)
      BY <1>2 DEF Logs
    <2> QED
      BY <1>2, <2>1, SubSeqFull, SubSeqEmpty DEF n
  <1>4. 0 \in T
    <2>1. State(s, 0)
      BY <1>3, AgreesAtFirst
    <2> HIDE DEF State
    <2> QED
      BY <1>1, <2>1 DEF ReplayBy
  <1> HIDE DEF deltas
  <1>5. ASSUME NEW k \in Nat, k \in T
        PROVE  k + 1 \in T
    <2> SUFFICES ASSUME k + 1 <= n
                 PROVE  State(f[k + 1], k + 1)
      OBVIOUS
    <2> DEFINE r == f[k]
               delta == deltas[k + 1]
               t == f[k + 1]
    <2>1. k + 1 \in 1..n /\ (k + 1) - 1 = k /\ k <= n
      BY <1>2
    <2>2. t = Apply(r, w, delta)
      BY <1>1, <2>1 DEF ReplayBy
    <2>3. delta \in DeltaSet /\ Done(k) \in Logs /\ Done(k + 1) = Append(Done(k), delta)
      BY <1>2, OneMoreOf DEF Logs
    <2>4. Around(r, logs, w) /\ Agrees(r.wavelets[w].participants, Done(k))
      BY <1>5, <2>1
    <2> DEFINE P == r.wavelets[w].participants
               Q == t.wavelets[w].participants
    <2> HIDE DEF r, t, delta, Done
    <2>5. Around(t, logs, w) /\ Follows(Q, P, delta)
      BY <2>2, <2>3, <2>4, ApplyKeeps
    <2> HIDE DEF P, Q
    <2>6. Agrees(Q, Append(Done(k), delta))
      BY <2>3, <2>4, <2>5, AgreesFurther DEF P
    <2> QED
      BY <2>3, <2>5, <2>6 DEF t, Q
  <1> HIDE DEF State
  <1>6. n \in T
    <2> HIDE DEF T, n
    <2> QED
      BY <1>2, <1>4, <1>5, SetInduction
  <1>7. State(f[n], n)
    BY <1>2, <1>6
  <1> DEFINE r == f[n]
             wv == r.wavelets[w]
             x == [wv EXCEPT !.enabled = TRUE]
             t == [r EXCEPT !.wavelets[w] = x]
  <1>8. Replay(s, w, deltas) = Leaves(t, w)
    BY <1>1 DEF ReplayBy, Enables
  <1>9. Around(r, logs, w) /\ Agrees(wv.participants, deltas)
    BY <1>3, <1>7 DEF State
  <1> HIDE DEF r
  <1>10. IsWavelet(wv, w) /\ wv.loaded
    BY <1>9 DEF Around, IsServer
  <1>11. /\ IsWavelet(x, w) /\ x.loaded /\ x.enabled /\ x.participants = wv.participants
    BY <1>10 DEF IsWavelet, WaveletFields
  <1> HIDE DEF x
  <1>12. Around(t, logs, w) /\ t.wavelets[w] = x
    BY <1>9, <1>11, AroundChanges
  <1> HIDE DEF t
  <1>13. Inside(t, logs, w)
    BY <1>9, <1>11, <1>12 DEF Inside, Around, deltas
  <1>14. ServerOK(Leaves(t, w), logs)
    BY <1>13, LeavesKeeps
  <1> QED
    BY <1>8, <1>14 DEF deltas

-----------------------------------------------------------------------------
(* The store.                                                                *)

Indexes == [Users -> SUBSET Wavelets]

\* The users the store takes from a delta are those it adds or removes.
LEMMA UsersOfMeans ==
    ASSUME NEW delta \in DeltaSet, NEW u \in Users
    PROVE  /\ u \in UsersOf(delta, "add") <=> Adds(delta, u)
           /\ u \in UsersOf(delta, "remove") <=> Expels(delta, u)
  <1>1. /\ DOMAIN delta = 1..Len(delta) /\ \A i \in DOMAIN delta : delta[i] \in Ops
        /\ ToSet(delta) = {delta[i] : i \in DOMAIN delta}
    BY DEF DeltaSet, ToSet
  <1>2. \A op \in Ops : /\ op.kind = "add" /\ op.user = u <=> op = Add(u)
                        /\ op.kind = "remove" /\ op.user = u <=> op = Expel(u)
    BY DEF Ops, Add, Expel, Start, Type
  <1>3. u \in UsersOf(delta, "add") <=> \E i \in DOMAIN delta : delta[i].kind = "add" /\ delta[i].user = u
    BY <1>1 DEF UsersOf
  <1>4. u \in UsersOf(delta, "remove") <=> \E i \in DOMAIN delta : delta[i].kind = "remove" /\ delta[i].user = u
    BY <1>1 DEF UsersOf
  <1> QED
    BY <1>1, <1>2, <1>3, <1>4 DEF Adds, Expels

\* What a delta makes of the store's lists of wavelets.
LEMMA IndexedMeans ==
    ASSUME NEW index \in Indexes, NEW w \in Wavelets, NEW delta \in DeltaSet
    PROVE  LET next == Indexed(index, w, delta)
           IN  /\ next \in Indexes
               /\ \A u \in Users :
                     /\ w \in next[u] <=> ~Expels(delta, u) /\ (Adds(delta, u) \/ w \in index[u])
                     /\ \A v \in Wavelets : v # w => (v \in next[u] <=> v \in index[u])
                     /\ IsFiniteSet(index[u]) => IsFiniteSet(next[u])
  <1> DEFINE next == Indexed(index, w, delta)
             in(u) == u \in UsersOf(delta, "add")
             out(u) == u \in UsersOf(delta, "remove")
  <1>1. next = [u \in Users |-> IF out(u) THEN index[u] \ {w}
                                ELSE IF in(u) THEN index[u] \cup {w} ELSE index[u]]
    BY DEF Indexed
  <1>2. \A u \in Users : (in(u) <=> Adds(delta, u)) /\ (out(u) <=> Expels(delta, u))
    BY UsersOfMeans
  <1> HIDE DEF next, in, out
  <1>3. next \in Indexes
    BY <1>1 DEF Indexes
  <1>4. ASSUME NEW u \in Users
        PROVE  /\ w \in next[u] <=> ~Expels(delta, u) /\ (Adds(delta, u) \/ w \in index[u])
               /\ \A v \in Wavelets : v # w => (v \in next[u] <=> v \in index[u])
               /\ IsFiniteSet(index[u]) => IsFiniteSet(next[u])
    <2>1. next[u] = IF Expels(delta, u) THEN index[u] \ {w}
                    ELSE IF Adds(delta, u) THEN index[u] \cup {w} ELSE index[u]
      BY <1>1, <1>2
    <2>2. IsFiniteSet(index[u]) => IsFiniteSet(index[u] \ {w}) /\ IsFiniteSet(index[u] \cup {w})
      BY FS_RemoveElement, FS_AddElement
    <2> QED
      BY <2>1, <2>2
  <1> QED
    BY <1>3, <1>4 DEF next

StoreOK(st) ==
    /\ DOMAIN st = {"log", "index"} /\ st = [f \in DOMAIN st |-> st[f]]
    /\ st.log \in [Wavelets -> Logs]
    /\ st.index \in Indexes
    /\ \A u \in Users : /\ IsFiniteSet(st.index[u])
                        /\ \A w \in Wavelets : w \in st.index[u] <=> IndexSays(u, st.log[w])

\* A delta is persisted.
LEMMA PersistKeeps ==
    ASSUME NEW st, StoreOK(st), NEW w \in Wavelets, NEW delta \in DeltaSet
    PROVE  LET t == [log |-> [st.log EXCEPT ![w] = Append(@, delta)],
                     index |-> Indexed(st.index, w, delta)]
           IN  /\ StoreOK(t) /\ t.log[w] = Append(st.log[w], delta)
               /\ \A v \in Wavelets : v # w => t.log[v] = st.log[v]
  <1> DEFINE t == [log |-> [st.log EXCEPT ![w] = Append(@, delta)],
                   index |-> Indexed(st.index, w, delta)]
             longer == Append(st.log[w], delta)
             next == Indexed(st.index, w, delta)
  <1>1. /\ st.log \in [Wavelets -> Logs] /\ st.index \in Indexes /\ st.log[w] \in Logs
    BY DEF StoreOK
  <1>2. longer \in Logs
    BY <1>1, AppendProperties DEF Logs
  <1>3. /\ next \in Indexes
        /\ \A u \in Users :
              /\ w \in next[u] <=> ~Expels(delta, u) /\ (Adds(delta, u) \/ w \in st.index[u])
              /\ \A v \in Wavelets : v # w => (v \in next[u] <=> v \in st.index[u])
              /\ IsFiniteSet(st.index[u]) => IsFiniteSet(next[u])
    BY <1>1, IndexedMeans
  <1>4. /\ DOMAIN t = {"log", "index"} /\ t = [f \in DOMAIN t |-> t[f]]
        /\ t.log = [st.log EXCEPT ![w] = longer] /\ t.index = next
    OBVIOUS
  <1> HIDE DEF t, next
  <1>5. \A u \in Users : IndexSays(u, longer) <=>
                            ~Expels(delta, u) /\ (Adds(delta, u) \/ IndexSays(u, st.log[w]))
    <2> DEFINE l == st.log[w]
    <2>1. l \in Logs
      BY <1>1
    <2> HIDE DEF l
    <2>2. \A u \in Users : IndexSays(u, Append(l, delta)) <=>
                               ~Expels(delta, u) /\ (Adds(delta, u) \/ IndexSays(u, l))
      BY <2>1, LogGrows
    <2> QED
      BY <2>2 DEF l
  <1> HIDE DEF longer
  <1>6. /\ t.log \in [Wavelets -> Logs] /\ t.log[w] = longer
        /\ \A v \in Wavelets : v # w => t.log[v] = st.log[v]
    BY <1>1, <1>2, <1>4
  <1>7. ASSUME NEW u \in Users
        PROVE  /\ IsFiniteSet(next[u])
               /\ \A v \in Wavelets : v \in next[u] <=> IndexSays(u, t.log[v])
    <2>1. IsFiniteSet(st.index[u]) /\ \A v \in Wavelets : v \in st.index[u] <=> IndexSays(u, st.log[v])
      BY DEF StoreOK
    <2>2. w \in next[u] <=> IndexSays(u, t.log[w])
      BY <1>3, <1>5, <1>6, <2>1
    <2>3. \A v \in Wavelets : v # w => (v \in next[u] <=> IndexSays(u, t.log[v]))
      BY <1>3, <1>6, <2>1
    <2> QED
      BY <1>3, <2>1, <2>2, <2>3
  <1>8. StoreOK(t)
    BY <1>3, <1>4, <1>6, <1>7 DEF StoreOK
  <1> QED
    BY <1>6, <1>8 DEF t, longer

\* What is read from the log of a wavelet, delta by delta.
IndexBy(f, w, l) ==
    /\ f[0] = [u \in Users |-> {}]
    /\ \A i \in 1..Len(l) : f[i] = Indexed(f[i - 1], w, l[i])

IndexOf(w, l) ==
    LET after[i \in 0..Len(l)] ==
            IF i = 0 THEN [u \in Users |-> {}] ELSE Indexed(after[i - 1], w, l[i])
    IN  after[Len(l)]

\* There is such a run over the log.
LEMMA IndexRuns ==
    ASSUME NEW w \in Wavelets, NEW l \in Logs
    PROVE  \E f : IndexBy(f, w, l) /\ IndexOf(w, l) = f[Len(l)]
  <1> DEFINE n == Len(l)
             base == [u \in Users |-> {}]
             step == [i \in 1..n |-> [x \in Indexes |-> Indexed(x, w, l[i])]]
             IsRun(h) == h = [i \in 0..n |-> IF i = 0 THEN base ELSE Indexed(h[i - 1], w, l[i])]
             after == CHOOSE h : IsRun(h)
  <1>1. n \in Nat /\ \A i \in 1..n : l[i] \in DeltaSet
    BY LenProperties DEF Logs
  <1>2. base \in Indexes
    BY DEF Indexes
  <1>3. \A i \in 1..n : \A x \in Indexes : /\ step[i][x] = Indexed(x, w, l[i])
                                           /\ step[i][x] \in Indexes
    BY <1>1, IndexedMeans
  <1>4. IndexOf(w, l) = after[n]
    BY DEF IndexOf
  <1> HIDE DEF n, base, step
  <1>5. PICK g : IsRecursion(g, Indexes, base, step, n)
    BY <1>1, <1>2, <1>3, RecursionExists
  <1>6. IsRun(g)
    <2>1. /\ g \in [0..n -> Indexes]
          /\ g = [i \in 0..n |-> IF i = 0 THEN base ELSE step[i][g[i - 1]]]
      BY <1>5 DEF IsRecursion
    <2>2. ASSUME NEW i \in 0..n
          PROVE  g[i] = IF i = 0 THEN base ELSE Indexed(g[i - 1], w, l[i])
      <3>1. i # 0 => i - 1 \in 0..n /\ i \in 1..n
        BY <1>1
      <3>2. i # 0 => g[i - 1] \in Indexes
        BY <2>1, <3>1
      <3> QED
        BY <1>3, <2>1, <3>1, <3>2
    <2> QED
      BY <2>1, <2>2
  <1>7. IsRun(after)
    <2> HIDE DEF IsRun
    <2> QED
      BY <1>6
  <1> HIDE DEF after
  <1>8. \A i \in 0..n : after[i] = IF i = 0 THEN base ELSE Indexed(after[i - 1], w, l[i])
    BY <1>7
  <1>9. after[0] = base /\ \A i \in 1..n : after[i] = Indexed(after[i - 1], w, l[i])
    BY <1>1, <1>8
  <1> QED
    BY <1>4, <1>9 DEF IndexBy, n, base

\* What is read from a log is what the log says.
LEMMA IndexOfMeans ==
    ASSUME NEW w \in Wavelets, NEW l \in Logs
    PROVE  \A u \in Users : w \in IndexOf(w, l)[u] <=> IndexSays(u, l)
  <1>1. PICK f : IndexBy(f, w, l) /\ IndexOf(w, l) = f[Len(l)]
    BY IndexRuns
  <1> DEFINE n == Len(l)
             Done(k) == SubSeq(l, 1, k)
             State(x, k) == /\ x \in Indexes
                            /\ \A u \in Users : w \in x[u] <=> IndexSays(u, Done(k))
             T == {k \in Nat : k <= n => State(f[k], k)}
  <1>2. n \in Nat
    BY LenProperties DEF Logs
  <1>3. Done(0) = <<>> /\ Done(n) = l
    <2> HIDE DEF n
    <2>1. l \in Seq(DeltaSet)
      BY DEF Logs
    <2> QED
      BY <1>2, <2>1, SubSeqFull, SubSeqEmpty DEF n
  <1>4. 0 \in T
    <2>1. \A u : ~IndexSays(u, <<>>)
      BY DEF IndexSays
    <2>2. State([u \in Users |-> {}], 0)
      BY <1>3, <2>1 DEF Indexes
    <2> HIDE DEF State
    <2> QED
      BY <1>1, <2>2 DEF IndexBy
  <1>5. ASSUME NEW k \in Nat, k \in T
        PROVE  k + 1 \in T
    <2> SUFFICES ASSUME k + 1 <= n
                 PROVE  State(f[k + 1], k + 1)
      OBVIOUS
    <2> DEFINE x == f[k]
               delta == l[k + 1]
               y == f[k + 1]
    <2>1. k + 1 \in 1..n /\ (k + 1) - 1 = k /\ k <= n
      BY <1>2
    <2>2. y = Indexed(x, w, delta)
      BY <1>1, <2>1 DEF IndexBy
    <2>3. delta \in DeltaSet /\ Done(k) \in Logs /\ Done(k + 1) = Append(Done(k), delta)
      BY <1>2, OneMoreOf DEF Logs
    <2>4. x \in Indexes /\ \A u \in Users : w \in x[u] <=> IndexSays(u, Done(k))
      BY <1>5, <2>1
    <2> HIDE DEF x, y, delta, Done
    <2>5. /\ y \in Indexes
          /\ \A u \in Users : w \in y[u] <=> ~Expels(delta, u) /\ (Adds(delta, u) \/ w \in x[u])
      BY <2>2, <2>3, <2>4, IndexedMeans
    <2>6. \A u : IndexSays(u, Append(Done(k), delta)) <=>
                    ~Expels(delta, u) /\ (Adds(delta, u) \/ IndexSays(u, Done(k)))
      BY <2>3, LogGrows
    <2> QED
      BY <2>3, <2>4, <2>5, <2>6 DEF y
  <1> HIDE DEF State
  <1>6. n \in T
    <2> HIDE DEF T, n
    <2> QED
      BY <1>2, <1>4, <1>5, SetInduction
  <1>7. State(f[n], n)
    BY <1>2, <1>6
  <1> QED
    BY <1>1, <1>3, <1>7 DEF State

\* A restart reads from the log what the store remembered.
LEMMA RestartRemembers ==
    ASSUME NEW st, StoreOK(st)
    PROVE  [st EXCEPT !.index = IndexOfLog(st.log)] = st
  <1> DEFINE index == IndexOfLog(st.log)
  <1>1. index = [u \in Users |-> {w \in Wavelets : w \in IndexOf(w, st.log[w])[u]}]
    BY DEF IndexOfLog, IndexOf
  <1>2. \A w \in Wavelets : st.log[w] \in Logs
    BY DEF StoreOK
  <1>3. ASSUME NEW u \in Users
        PROVE  index[u] = st.index[u]
    <2>1. \A w \in Wavelets : w \in IndexOf(w, st.log[w])[u] <=> IndexSays(u, st.log[w])
      BY <1>2, IndexOfMeans
    <2>2. st.index[u] \subseteq Wavelets
      BY DEF StoreOK, Indexes
    <2>3. \A w \in Wavelets : w \in st.index[u] <=> IndexSays(u, st.log[w])
      BY DEF StoreOK
    <2>4. index[u] = {w \in Wavelets : w \in IndexOf(w, st.log[w])[u]}
      BY <1>1
    <2> HIDE DEF index
    <2> QED
      BY <2>1, <2>2, <2>3, <2>4
  <1>4. index = st.index
    <2>1. st.index = [u \in Users |-> st.index[u]]
      BY DEF StoreOK, Indexes
    <2>2. index = [u \in Users |-> index[u]]
      BY <1>1
    <2> HIDE DEF index
    <2> QED
      BY <1>3, <2>1, <2>2
  <1> HIDE DEF index
  <1>5. [st EXCEPT !.index = index] = st
    BY <1>4 DEF StoreOK
  <1> QED
    BY <1>5 DEF index

-----------------------------------------------------------------------------
(* An event is taken from the queue.                                         *)

\* The other events stay, and the wavelets the first one does not concern stay in their phase.
LEMMA HeadTaken ==
    ASSUME NEW logs, ServerOK(Server, logs), events # <<>>
    PROVE  /\ IsServer(Rest) /\ IsEvent(Head(events)) /\ Rest.wavelets = wavelets
           /\ \A w \in Wavelets :
                 ~Token(Head(events), w) => Steady(Rest.wavelets[w], Rest.events, logs[w], w)
  <1> DEFINE e == Head(events)
             s == Server
             t == Rest
             r == Tail(events)
  <1>1. /\ s.wavelets = wavelets /\ s.events = events
        /\ t.wavelets = wavelets /\ t.events = r
        /\ DOMAIN t = {"wavelets", "events"} /\ t = [f \in DOMAIN t |-> t[f]]
    BY DEF Server, Rest
  <1>2. IsServer(s) /\ \A w \in Wavelets : Steady(wavelets[w], events, logs[w], w)
    BY <1>1 DEF ServerOK
  <1> HIDE DEF s, t
  <1>3. IsSequence(events) /\ \A i \in 1..Len(events) : IsEvent(events[i])
    BY <1>1, <1>2 DEF IsServer, IsQueue
  <1>4. /\ IsSequence(r) /\ Len(events) \in Nat \ {0} /\ Len(r) = Len(events) - 1
        /\ \A i \in 1..Len(r) : r[i] = events[i + 1]
        /\ e = events[1]
    BY <1>3, QueueTail
  <1> HIDE DEF r, e
  <1>5. IsEvent(e) /\ IsQueue(r)
    <2>1. \A i \in 1..Len(r) : i + 1 \in 1..Len(events)
      BY <1>4
    <2>2. 1 \in 1..Len(events)
      BY <1>4
    <2> QED
      BY <1>3, <1>4, <2>1, <2>2 DEF IsQueue
  <1>6. IsServer(t)
    BY <1>1, <1>2, <1>5 DEF IsServer
  <1>7. ASSUME NEW w \in Wavelets, ~Token(e, w)
        PROVE  Steady(t.wavelets[w], t.events, logs[w], w)
    <2>1. Quiet(events, r, w)
      BY <1>3, <1>7, QuietTail DEF r, e
    <2>2. Alike(wavelets[w], t.wavelets[w])
      BY <1>1 DEF Alike
    <2> QED
      BY <1>1, <1>2, <2>1, <2>2, SteadyQuiet
  <1> QED
    BY <1>1, <1>5, <1>6, <1>7 DEF t, e

\* It concerns no wavelet's section.
LEMMA OtherTaken ==
    ASSUME NEW logs, ServerOK(Server, logs), events # <<>>,
           \A w \in Wavelets : ~Token(Head(events), w)
    PROVE  ServerOK(Rest, logs)
  BY HeadTaken DEF ServerOK

\* An event concerns the section of one wavelet only.
LEMMA OneToken ==
    ASSUME NEW e, NEW w, Token(e, w), NEW v, v # w
    PROVE  ~Token(e, v)
  BY DEF Token, Working, Loading

\* The only one of a wavelet is taken.
LEMMA TokenComes ==
    ASSUME NEW logs, ServerOK(Server, logs), events # <<>>, NEW w \in Wavelets,
           Token(Head(events), w)
    PROVE  LET e == Head(events)
               wv == Rest.wavelets[w]
           IN  /\ Around(Rest, logs, w)
               /\ Working(e, w) => /\ wv.enabled /\ wv.busy
                                   /\ AgreesBut(wv.participants, logs[w], e)
               /\ Loading(e, w) => /\ ~wv.enabled /\ wv.participants = {}
                                   /\ e.to = "replay" => e.deltas = logs[w]
  <1> DEFINE e == Head(events)
             wv == wavelets[w]
             r == Tail(events)
  <1>1. /\ IsServer(Rest) /\ IsEvent(e) /\ Rest.wavelets = wavelets /\ Rest.events = r
        /\ \A v \in Wavelets : v # w => Steady(Rest.wavelets[v], Rest.events, logs[v], v)
    BY HeadTaken, OneToken DEF Rest
  <1>2. IsSequence(events) /\ Steady(wv, events, logs[w], w)
    BY DEF ServerOK, Server, IsServer, IsQueue
  <1>3. /\ ~Nothing(events, w)
        /\ \A x : Only(events, w, x) => x = e /\ Nothing(r, w)
    BY <1>2, TokenTaken
  <1>4. ~(Working(e, w) /\ Loading(e, w))
    BY DEF Working, Loading
  <1>5. Opening(wv, events, logs[w], w) \/ Occupied(wv, events, logs[w], w)
    BY <1>2, <1>3 DEF Steady, Absent, Resting
  <1> HIDE DEF e, wv, r
  <1>6. CASE Opening(wv, events, logs[w], w)
    <2>1. PICK x : /\ Only(events, w, x) /\ Loading(x, w)
                   /\ x.to = "replay" => x.deltas = logs[w]
      BY <1>6 DEF Opening
    <2>2. x = e /\ Nothing(r, w)
      BY <1>3, <2>1
    <2>3. wv.loaded /\ ~wv.enabled /\ wv.participants = {}
      BY <1>6 DEF Opening
    <2>4. Around(Rest, logs, w)
      BY <1>1, <2>2, <2>3 DEF Around, wv
    <2> QED
      BY <1>1, <1>4, <2>1, <2>2, <2>3, <2>4 DEF wv, e
  <1>7. CASE Occupied(wv, events, logs[w], w)
    <2>1. PICK x : /\ Only(events, w, x) /\ Working(x, w)
                   /\ AgreesBut(wv.participants, logs[w], x)
      BY <1>7 DEF Occupied
    <2>2. x = e /\ Nothing(r, w)
      BY <1>3, <2>1
    <2>3. wv.loaded /\ wv.enabled /\ wv.busy
      BY <1>7 DEF Occupied
    <2>4. Around(Rest, logs, w)
      BY <1>1, <2>2, <2>3 DEF Around, wv
    <2> QED
      BY <1>1, <1>4, <2>1, <2>2, <2>3, <2>4 DEF wv, e
  <1> QED
    BY <1>5, <1>6, <1>7

\* A token is taken and another one posted: the wavelet stays in its phase.
LEMMA TokenPasses ==
    ASSUME NEW s, NEW logs, NEW w \in Wavelets, Around(s, logs, w), NEW e, IsEvent(e),
           Token(e, w), NEW log,
           \/ /\ Loading(e, w) /\ ~s.wavelets[w].enabled
              /\ s.wavelets[w].participants = {}
              /\ e.to = "replay" => e.deltas = log
           \/ /\ Working(e, w) /\ s.wavelets[w].enabled /\ s.wavelets[w].busy
              /\ AgreesBut(s.wavelets[w].participants, log, e)
    PROVE  LET t == Post(s, e)
           IN  /\ IsServer(t) /\ Steady(t.wavelets[w], t.events, log, w)
               /\ \A v \in Wavelets : v # w => Steady(t.wavelets[v], t.events, logs[v], v)
  <1> DEFINE t == Post(s, e)
             wv == s.wavelets[w]
  <1>1. /\ IsServer(t) /\ t.wavelets = s.wavelets /\ t.events = Append(s.events, e)
        /\ IsSequence(s.events)
    BY PostKeeps DEF Around
  <1> HIDE DEF t
  <1>2. Only(t.events, w, e) /\ wv.loaded
    BY <1>1, TokenAppended DEF Around
  <1>3. Steady(wv, t.events, log, w)
    <2>1. CASE /\ Loading(e, w) /\ ~wv.enabled /\ wv.participants = {}
               /\ e.to = "replay" => e.deltas = log
      <3>1. Opening(wv, t.events, log, w)
        BY <1>2, <2>1 DEF Opening
      <3> QED
        BY <3>1 DEF Steady
    <2>2. CASE /\ Working(e, w) /\ wv.enabled /\ wv.busy
               /\ AgreesBut(wv.participants, log, e)
      <3>1. Occupied(wv, t.events, log, w)
        BY <1>2, <2>2 DEF Occupied
      <3> QED
        BY <3>1 DEF Steady
    <2> QED
      BY <2>1, <2>2
  <1>4. \A v \in Wavelets : v # w => /\ t.wavelets[v] = s.wavelets[v]
                                     /\ Quiet(s.events, t.events, v)
    BY <1>1, OneToken, QuietAppend
  <1>5. \A v \in Wavelets : v # w => Steady(t.wavelets[v], t.events, logs[v], v)
    BY <1>1, <1>4, OneChanges DEF Around
  <1> QED
    BY <1>1, <1>3, <1>5 DEF t

-----------------------------------------------------------------------------
(* The invariant of the store and of the wavelets, and the steps.            *)

Subscribing(c) ==
    /\ c.session \in Nat
    /\ c.subscriptions \in SUBSET Wavelets /\ IsFiniteSet(c.subscriptions)

\* The store's lists are those of its log, every wavelet is in a phase that fits
\* its log, and what connections remember can be taken back.
ListsKept ==
    /\ StoreOK(store)
    /\ ServerOK(Server, store.log)
    /\ \A u \in Users : Subscribing(conns[u])

\* The server becomes what is said.
LEMMA ServerBecomes ==
    ASSUME NEW s, IsServer(s), Becomes(s)
    PROVE  Server' = s
  <1>1. s = [f \in {"wavelets", "events"} |-> s[f]]
    BY DEF IsServer
  <1> QED
    BY <1>1 DEF Becomes, Server

\* A step that leaves the store alone.
LEMMA ListsStay ==
    ASSUME ListsKept, NEW s, ServerOK(s, store.log), Becomes(s), store' = store,
           \A u \in Users : Subscribing(conns'[u])
    PROVE  ListsKept'
  <1>1. Server' = s
    BY ServerBecomes DEF ServerOK
  <1>2. ServerOK(Server', store.log)
    BY <1>1
  <1> QED
    BY <1>2 DEF ListsKept, Subscribing

\* What is at the head of the queue.
LEMMA HeadIs ==
    ASSUME ListsKept, events # <<>>
    PROVE  /\ IsEvent(Head(events))
           /\ (\A w \in Wavelets : ~Token(Head(events), w)) => ServerOK(Rest, store.log)
  <1> DEFINE logs == store.log
  <1>1. ServerOK(Server, logs)
    BY DEF ListsKept
  <1> HIDE DEF logs
  <1>2. IsEvent(Head(events))
    BY <1>1, HeadTaken
  <1>3. (\A w \in Wavelets : ~Token(Head(events), w)) => ServerOK(Rest, logs)
    BY <1>1, OtherTaken
  <1> QED
    BY <1>2, <1>3 DEF logs

\* A wavelet or a connection makes an actor.
LEMMA WaveletGetsKeeps ==
    ASSUME ListsKept, WaveletGets
    PROVE  ListsKept'
  <1> DEFINE e == Head(events)
             logs == store.log
             x == ToActor(e.message)
  <1>1. /\ events # <<>> /\ e.to = "wavelet" /\ Becomes(Post(Rest, x))
        /\ store' = store /\ conns' = conns
    BY DEF WaveletGets, Event
  <1>2. IsEvent(e)
    BY <1>1, HeadIs
  <1>3. e.message \in Messages
    <2> HIDE DEF e
    <2> QED
      BY <1>1, <1>2, EventFacts
  <1>4. \A w \in Wavelets : ~Token(e, w)
    BY <1>1 DEF Token, Working, Loading
  <1>5. ServerOK(Rest, logs)
    BY <1>1, <1>4, HeadIs
  <1>6. IsEvent(x) /\ \A w \in Wavelets : ~Token(x, w)
    <2> DEFINE m == e.message
    <2>1. m \in Messages /\ x = [to |-> "actor", job |-> m]
      BY <1>3 DEF ToActor
    <2>2. m.kind # "init"
      BY <2>1, JobFacts
    <2> HIDE DEF m, x
    <2> QED
      BY <2>1, <2>2 DEF IsEvent, Token, Working, Loading
  <1> HIDE DEF x, e, logs
  <1>7. ServerOK(Post(Rest, x), logs)
    BY <1>5, <1>6, ServerPosts
  <1> QED
    BY <1>1, <1>7, ListsStay DEF logs, ListsKept

\* An actor starts: it asks the store, or goes for the section of its wavelet.
LEMMA ActorStartsKeeps ==
    ASSUME ListsKept, ActorStarts
    PROVE  ListsKept'
  <1> DEFINE e == Head(events)
             logs == store.log
             job == e.job
  <1>1. /\ events # <<>> /\ e.to = "actor"
        /\ store' = store /\ conns' = conns
        /\ Becomes(IF job.kind = "listing" /\ ~Alive(job.conn) THEN Rest ELSE Started(Rest, job))
    BY DEF ActorStarts, Event
  <1>2. IsEvent(e) /\ ServerOK(Server, logs)
    BY <1>1, HeadIs DEF ListsKept
  <1>3. job \in Messages \cup Inits \cup Listings
    <2> HIDE DEF e
    <2> QED
      BY <1>1, <1>2, EventFacts
  <1>4. job.kind # "init" => ServerOK(Rest, logs)
    <2>1. job.kind # "init" => \A w \in Wavelets : ~Token(e, w)
      BY <1>1 DEF Token, Working, Loading
    <2> QED
      BY <1>1, <2>1, HeadIs
  <1>5. ASSUME job \in Listings
        PROVE  ServerOK(Post(Rest, ToStore(job)), logs) /\ ServerOK(Rest, logs)
    <2>1. job.kind = "listing"
      BY <1>5, JobFacts
    <2> DEFINE x == ToStore(job)
    <2>2. IsEvent(x) /\ \A w \in Wavelets : ~Token(x, w)
      <3>1. x = [to |-> "store", message |-> job]
        BY DEF ToStore
      <3> HIDE DEF job, x
      <3> QED
        BY <1>5, <2>1, <3>1 DEF IsEvent, Token, Working, Loading
    <2>3. ServerOK(Rest, logs)
      BY <1>4, <2>1
    <2> HIDE DEF x, logs
    <2>4. ServerOK(Post(Rest, x), logs)
      BY <2>2, <2>3, ServerPosts
    <2> QED
      BY <2>3, <2>4 DEF x
  <1>6. ASSUME job \in Inits
        PROVE  ServerOK(Post(Rest, ToStore([kind |-> "history", wavelet |-> job.wavelet])), logs)
    <2> DEFINE w == job.wavelet
               m == [kind |-> "history", wavelet |-> w]
               x == ToStore(m)
    <2>1. job.kind = "init" /\ w \in Wavelets
      BY <1>6, JobFacts
    <2>2. Loading(e, w) /\ Token(e, w)
      BY <1>1, <2>1 DEF Loading, Token
    <2>3. x = [to |-> "store", message |-> m]
      BY DEF ToStore
    <2>4. IsEvent(x) /\ Loading(x, w) /\ Token(x, w) /\ x.to # "replay"
      <3>1. m \in Histories
        BY <2>1 DEF Histories
      <3> HIDE DEF w, x
      <3> QED
        BY <2>3, <3>1 DEF IsEvent, Loading, Token
    <2> HIDE DEF w, x, e, logs
    <2>5. /\ Around(Rest, logs, w)
          /\ ~Rest.wavelets[w].enabled /\ Rest.wavelets[w].participants = {}
      BY <1>1, <1>2, <2>1, <2>2, TokenComes DEF e
    <2> DEFINE t == Post(Rest, x)
               log == logs[w]
    <2>6. /\ IsServer(t) /\ Steady(t.wavelets[w], t.events, log, w)
          /\ \A v \in Wavelets : v # w => Steady(t.wavelets[v], t.events, logs[v], v)
      <3> HIDE DEF t, log
      <3> QED
        BY <2>1, <2>4, <2>5, TokenPasses DEF t
    <2>7. ServerOK(t, logs)
      BY <2>6 DEF ServerOK
    <2> QED
      BY <2>7 DEF x, w
  <1>7. ASSUME job \in Messages
        PROVE  ServerOK(Enters(Rest, job), logs)
    <2>1. ServerOK(Rest, logs)
      BY <1>4, <1>7, JobFacts
    <2> HIDE DEF job, logs
    <2> QED
      BY <1>7, <2>1, EntersKeeps
  <1>8. PICK s : ServerOK(s, logs) /\ Becomes(s)
    <2>1. CASE job \in Listings
      <3>1. job.kind = "listing"
        BY <2>1, JobFacts
      <3>2. Becomes(Rest) \/ Becomes(Post(Rest, ToStore(job)))
        BY <1>1, <3>1 DEF Started
      <3> QED
        BY <1>5, <2>1, <3>2
    <2>2. CASE job \in Inits
      <3>1. job.kind = "init"
        BY <2>2, JobFacts
      <3>2. Becomes(Post(Rest, ToStore([kind |-> "history", wavelet |-> job.wavelet])))
        BY <1>1, <3>1 DEF Started
      <3> QED
        BY <1>6, <2>2, <3>2
    <2>3. CASE job \in Messages
      <3>1. job.kind \notin {"init", "listing"}
        BY <2>3, JobFacts
      <3>2. Becomes(Enters(Rest, job))
        BY <1>1, <3>1 DEF Started
      <3> QED
        BY <1>7, <2>3, <3>2
    <2> QED
      BY <1>3, <2>1, <2>2, <2>3
  <1> QED
    BY <1>1, <1>8, ListsStay DEF ListsKept

\* An actor that waited is let in.
LEMMA ActorEntersKeeps ==
    ASSUME ListsKept, ActorEnters
    PROVE  ListsKept'
  <1> DEFINE e == Head(events)
             logs == store.log
             job == e.job
             w == job.wavelet
  <1>1. /\ events # <<>> /\ e.to = "enter"
        /\ store' = store /\ conns' = conns /\ Becomes(Runs(Rest, job))
    BY DEF ActorEnters, Event
  <1>2. IsEvent(e) /\ ServerOK(Server, logs)
    BY <1>1, HeadIs DEF ListsKept
  <1>3. job \in Messages
    <2> HIDE DEF e
    <2> QED
      BY <1>1, <1>2, EventFacts
  <1>4. w \in Wavelets /\ Working(e, w) /\ Token(e, w)
    BY <1>1, <1>3, JobFacts DEF Working, Token
  <1> HIDE DEF w, logs
  <1>5. /\ Around(Rest, logs, w) /\ Rest.wavelets[w].enabled /\ Rest.wavelets[w].busy
        /\ AgreesBut(Rest.wavelets[w].participants, logs[w], e)
    BY <1>1, <1>2, <1>4, TokenComes
  <1>6. Inside(Rest, logs, w)
    BY <1>1, <1>5 DEF Inside, Around, AgreesBut
  <1>7. ServerOK(Runs(Rest, job), logs)
    <2>1. Inside(Rest, logs, job.wavelet) /\ Rest.wavelets[job.wavelet].busy
      BY <1>5, <1>6 DEF w
    <2> HIDE DEF job
    <2> QED
      BY <1>3, <2>1, RunsKeeps
  <1> HIDE DEF job
  <1> QED
    BY <1>1, <1>7, ListsStay DEF logs, ListsKept

\* What the store does with a message, and what it answers.
LEMMA StoreGetsKeeps ==
    ASSUME ListsKept, StoreGets
    PROVE  ListsKept'
  <1> DEFINE e == Head(events)
             logs == store.log
             m == e.message
             st == [log |-> [store.log EXCEPT ![m.job.wavelet] = Append(@, m.job.delta)],
                    index |-> Indexed(store.index, m.job.wavelet, m.job.delta)]
  <1>1. /\ events # <<>> /\ e.to = "store" /\ Becomes(Answered(Rest, m)) /\ conns' = conns
        /\ store' = IF m.kind # "persist" THEN store ELSE st
    BY DEF StoreGets, Event
  <1>2. IsEvent(e) /\ ServerOK(Server, logs) /\ StoreOK(store)
    BY <1>1, HeadIs DEF ListsKept
  <1>3. m \in Persists \cup Histories \cup Listings
    <2> HIDE DEF e
    <2> QED
      BY <1>1, <1>2, EventFacts
  <1>4. CASE m \in Persists
    <2> DEFINE job == m.job
               w == job.wavelet
               x == [to |-> "ack", job |-> job]
               t == Post(Rest, x)
               log == st.log[w]
    <2>1. m.kind = "persist" /\ job \in Submits /\ w \in Wavelets /\ job.delta \in DeltaSet
      BY <1>4, JobFacts
    <2>2. store' = st /\ Becomes(t)
      BY <1>1, <2>1 DEF Answered
    <2>3. /\ StoreOK(st) /\ log = Append(logs[w], job.delta)
          /\ \A v \in Wavelets : v # w => st.log[v] = logs[v]
      <3> DEFINE d == job.delta
      <3>1. st = [log |-> [store.log EXCEPT ![w] = Append(@, d)],
                  index |-> Indexed(store.index, w, d)]
        OBVIOUS
      <3> HIDE DEF w, d, st
      <3> QED
        BY <1>2, <2>1, <3>1, PersistKeeps DEF d
    <2>4. Working(e, w) /\ Token(e, w)
      BY <1>1, <2>1 DEF Working, Token
    <2>5. IsEvent(x) /\ Working(x, w) /\ Token(x, w)
      <3> HIDE DEF job
      <3> QED
        BY <2>1 DEF IsEvent, Working, Token
    <2>6. logs[w] \in Logs
      BY <1>2, <2>1 DEF StoreOK
    <2> HIDE DEF st, logs, w
    <2>7. /\ Around(Rest, logs, w) /\ Rest.wavelets[w].enabled /\ Rest.wavelets[w].busy
          /\ AgreesBut(Rest.wavelets[w].participants, logs[w], e)
      BY <1>1, <1>2, <2>1, <2>4, TokenComes
    <2>8. Agrees(Rest.wavelets[w].participants, logs[w])
      BY <1>1, <2>7 DEF AgreesBut
    <2>9. AgreesBut(Rest.wavelets[w].participants, log, x)
      <3>1. x.to = "ack" /\ x.job.delta = job.delta
        OBVIOUS
      <3> HIDE DEF x, job, log
      <3> QED
        BY <2>3, <2>6, <2>8, <3>1 DEF AgreesBut
    <2>10. /\ IsServer(t) /\ Steady(t.wavelets[w], t.events, log, w)
           /\ \A v \in Wavelets : v # w => Steady(t.wavelets[v], t.events, logs[v], v)
      <3> HIDE DEF t, log, x
      <3> QED
        BY <2>1, <2>5, <2>7, <2>9, TokenPasses DEF t
    <2> HIDE DEF t, job
    <2>11. ServerOK(t, st.log)
      BY <2>3, <2>10 DEF ServerOK
    <2>12. Server' = t
      BY <2>2, <2>10, ServerBecomes
    <2>13. ServerOK(Server', store'.log) /\ StoreOK(store')
      BY <2>2, <2>3, <2>11, <2>12
    <2> QED
      BY <1>1, <2>13 DEF ListsKept, Subscribing
  <1>5. CASE m \in Histories
    <2> DEFINE w == m.wavelet
               x == [to |-> "replay", wavelet |-> w, deltas |-> logs[w]]
               t == Post(Rest, x)
               log == logs[w]
    <2>1. m.kind = "history" /\ w \in Wavelets
      BY <1>5, JobFacts
    <2>2. store' = store /\ Becomes(t)
      BY <1>1, <2>1 DEF Answered
    <2>3. Loading(e, w) /\ Token(e, w)
      BY <1>1, <2>1 DEF Loading, Token
    <2>4. log \in Logs
      BY <1>2, <2>1 DEF StoreOK
    <2>5. IsEvent(x) /\ Loading(x, w) /\ Token(x, w) /\ x.deltas = log
      <3> HIDE DEF w, logs
      <3> QED
        BY <2>1, <2>4 DEF IsEvent, Loading, Token
    <2> HIDE DEF logs, w
    <2>6. /\ Around(Rest, logs, w)
          /\ ~Rest.wavelets[w].enabled /\ Rest.wavelets[w].participants = {}
      BY <1>1, <1>2, <2>1, <2>3, TokenComes
    <2>7. /\ IsServer(t) /\ Steady(t.wavelets[w], t.events, log, w)
          /\ \A v \in Wavelets : v # w => Steady(t.wavelets[v], t.events, logs[v], v)
      <3> HIDE DEF t, log, x
      <3> QED
        BY <2>1, <2>5, <2>6, TokenPasses DEF t
    <2> HIDE DEF t
    <2>8. ServerOK(t, logs)
      BY <2>7 DEF ServerOK
    <2> QED
      BY <1>1, <2>2, <2>8, ListsStay DEF logs, ListsKept
  <1>6. CASE m \in Listings
    <2> DEFINE u == m.conn[1]
               q == SetToSeq(store.index[u])
               x == [to |-> "listed", conn |-> m.conn, wavelets |-> q]
    <2>1. m.kind = "listing" /\ m.conn \in Connections /\ u \in Users
      <3>1. m.kind = "listing" /\ m.conn \in Connections
        BY <1>6, JobFacts
      <3> HIDE DEF m
      <3> QED
        BY <3>1 DEF Connections
    <2>2. store' = store /\ Becomes(Post(Rest, x))
      BY <1>1, <2>1 DEF Answered
    <2>3. q \in Seq(Wavelets)
      <3>1. store.index[u] \subseteq Wavelets /\ IsFiniteSet(store.index[u])
        BY <1>2, <2>1 DEF StoreOK, Indexes
      <3> DEFINE S == store.index[u]
      <3>2. SetToSeq(S) \in Seq(S)
        <4> HIDE DEF S
        <4> QED
          BY <3>1, SetToSeqIsSequence DEF S
      <3> HIDE DEF S, q
      <3> QED
        BY <3>1, <3>2, SeqMonotonic DEF S, q
    <2>4. IsEvent(x) /\ \A w \in Wavelets : ~Token(x, w)
      <3> HIDE DEF q, m
      <3> QED
        BY <2>1, <2>3 DEF IsEvent, Token, Working, Loading
    <2>5. ServerOK(Rest, logs)
      <3>1. \A w \in Wavelets : ~Token(e, w)
        BY <1>1, <2>1 DEF Token, Working, Loading
      <3> QED
        BY <1>1, <3>1, HeadIs
    <2> HIDE DEF x, logs
    <2>6. ServerOK(Post(Rest, x), logs)
      BY <2>4, <2>5, ServerPosts
    <2> QED
      BY <1>1, <2>2, <2>6, ListsStay DEF logs, ListsKept
  <1> QED
    BY <1>3, <1>4, <1>5, <1>6

\* The delta is in the log: it is applied, and the section left.
LEMMA SubmitCommitsKeeps ==
    ASSUME ListsKept, SubmitCommits
    PROVE  ListsKept'
  <1> DEFINE e == Head(events)
             logs == store.log
             job == e.job
             w == job.wavelet
             delta == job.delta
             t == Apply(Rest, w, delta)
  <1>1. /\ events # <<>> /\ e.to = "ack"
        /\ store' = store /\ conns' = conns /\ Becomes(Leaves(t, w))
    BY DEF SubmitCommits, Event
  <1>2. IsEvent(e) /\ ServerOK(Server, logs)
    BY <1>1, HeadIs DEF ListsKept
  <1>3. job \in Submits
    <2> HIDE DEF e
    <2> QED
      BY <1>1, <1>2, EventFacts
  <1>4. w \in Wavelets /\ Working(e, w) /\ Token(e, w) /\ delta \in DeltaSet
    BY <1>1, <1>3, JobFacts DEF Working, Token
  <1> HIDE DEF w, logs
  <1>5. /\ Around(Rest, logs, w) /\ Rest.wavelets[w].enabled /\ Rest.wavelets[w].busy
        /\ AgreesBut(Rest.wavelets[w].participants, logs[w], e)
    BY <1>1, <1>2, <1>4, TokenComes
  <1>6. PICK before \in Logs : /\ logs[w] = Append(before, delta)
                               /\ Agrees(Rest.wavelets[w].participants, before)
    BY <1>1, <1>5 DEF AgreesBut
  <1> HIDE DEF delta
  <1>7. /\ Around(t, logs, w) /\ t.wavelets[w].enabled = Rest.wavelets[w].enabled
        /\ Follows(t.wavelets[w].participants, Rest.wavelets[w].participants, delta)
    BY <1>4, <1>5, ApplyKeeps
  <1> HIDE DEF t
  <1>8. Agrees(t.wavelets[w].participants, logs[w])
    BY <1>4, <1>6, <1>7, AgreesFurther
  <1>9. Inside(t, logs, w)
    BY <1>5, <1>7, <1>8 DEF Inside, Around
  <1>10. ServerOK(Leaves(t, w), logs)
    BY <1>4, <1>9, LeavesKeeps
  <1> QED
    BY <1>1, <1>10, ListsStay DEF logs, ListsKept

\* The history comes: the wavelet can be used.
LEMMA HistoryComesKeeps ==
    ASSUME ListsKept, HistoryComes
    PROVE  ListsKept'
  <1> DEFINE e == Head(events)
             logs == store.log
             w == e.wavelet
  <1>1. /\ events # <<>> /\ e.to = "replay"
        /\ store' = store /\ conns' = conns /\ Becomes(Replay(Rest, w, e.deltas))
    BY DEF HistoryComes, Event
  <1>2. IsEvent(e) /\ ServerOK(Server, logs) /\ StoreOK(store)
    BY <1>1, HeadIs DEF ListsKept
  <1>3. w \in Wavelets
    <2> HIDE DEF e
    <2> QED
      BY <1>1, <1>2, EventFacts
  <1>4. Loading(e, w) /\ Token(e, w) /\ logs[w] \in Logs
    BY <1>1, <1>2, <1>3 DEF Loading, Token, StoreOK
  <1> HIDE DEF w, logs
  <1>5. /\ Around(Rest, logs, w) /\ Rest.wavelets[w].participants = {}
        /\ e.deltas = logs[w]
    BY <1>1, <1>2, <1>3, <1>4, TokenComes
  <1>6. ServerOK(Replay(Rest, w, logs[w]), logs)
    BY <1>3, <1>4, <1>5, ReplayKeeps
  <1> QED
    BY <1>1, <1>5, <1>6, ListsStay DEF logs, ListsKept

\* What a connection gets concerns nobody else.
LEMMA ConnectionGetsKeeps ==
    ASSUME ListsKept, ConnectionGets
    PROVE  ListsKept'
  <1> DEFINE e == Head(events)
             logs == store.log
  <1>1. /\ events # <<>> /\ e.to = "conn" /\ store' = store /\ conns' = conns /\ Becomes(Rest)
    BY DEF ConnectionGets, Event
  <1>2. \A w \in Wavelets : ~Token(e, w)
    BY <1>1 DEF Token, Working, Loading
  <1>3. ServerOK(Rest, logs)
    BY <1>1, <1>2, HeadIs
  <1> QED
    BY <1>1, <1>3, ListsStay DEF ListsKept

\* A connection's subscription, and how it is taken back.
LEMMA SubscribeTyped ==
    ASSUME NEW c \in Connections, NEW w \in Wavelets, NEW index \in BOOLEAN,
           NEW content \in BOOLEAN
    PROVE  Subscribe(c, w, index, content) \in Messages /\ Unsubscribe(c, w) \in Messages
  <1>1. Subscribe(c, w, index, content) \in Subscriptions
    BY DEF Subscribe, Subscriptions
  <1>2. Unsubscribe(c, w) \in Subscriptions
    BY DEF Subscribe, Unsubscribe, Subscriptions
  <1> QED
    BY <1>1, <1>2 DEF Messages

\* A connection subscribes to more, or to what it did.
LEMMA SubscribesToMore ==
    ASSUME SocketsUnbroken, \A u \in Users : Subscribing(conns[u]), NEW v \in Users,
           NEW more \in SUBSET Wavelets, IsFiniteSet(more),
           \/ conns' = conns
           \/ conns' = [conns EXCEPT ![v].subscriptions = conns[v].subscriptions \cup more]
    PROVE  \A u \in Users : Subscribing(conns'[u])
  <1> SUFFICES ASSUME NEW u \in Users
               PROVE  Subscribing(conns'[u])
    OBVIOUS
  <1>1. CASE conns' = conns
    BY <1>1
  <1>2. CASE conns' = [conns EXCEPT ![v].subscriptions = conns[v].subscriptions \cup more]
    <2> DEFINE c == conns[v]
               x == c.subscriptions \cup more
               t == [c EXCEPT !.subscriptions = x]
    <2>1. conns = [k \in Users |-> conns[k]] /\ IsConnection(c) /\ Subscribing(c)
      BY DEF SocketsUnbroken, Unbroken
    <2>2. conns'[u] = IF u = v THEN t ELSE conns[u]
      BY <1>2, <2>1
    <2>3. x \in SUBSET Wavelets /\ IsFiniteSet(x)
      BY <2>1, FS_Union DEF Subscribing
    <2> HIDE DEF c, x
    <2>4. t.session = c.session /\ t.subscriptions = x
      BY <2>1, ConnectionWithSubscriptions
    <2>5. Subscribing(t)
      BY <2>1, <2>3, <2>4 DEF Subscribing
    <2> QED
      BY <2>2, <2>5
  <1> QED
    BY <1>1, <1>2

\* A user who has become a participant is subscribed, if he is there.
LEMMA InvitationComesKeeps ==
    ASSUME SocketsUnbroken, ListsKept, InvitationComes
    PROVE  ListsKept'
  <1> DEFINE e == Head(events)
             logs == store.log
             u == e.user
             w == e.wavelet
             content == ~(u \in WebUsers) /\ conns[u].opened
             m == Subscribe(Conn(u), w, TRUE, content)
             s == PostToWavelet(Rest, FALSE, m)
  <1>1. /\ events # <<>> /\ e.to = "participant" /\ store' = store
        /\ Becomes(Rest) \/ Becomes(s)
        /\ \/ conns' = conns
           \/ conns' = [conns EXCEPT ![u].subscriptions = conns[u].subscriptions \cup {w}]
    BY DEF InvitationComes, Event
  <1>2. IsEvent(e) /\ ListsKept
    BY <1>1, HeadIs
  <1>3. u \in Users /\ w \in Wavelets
    <2> HIDE DEF e
    <2> QED
      BY <1>1, <1>2, EventFacts
  <1>4. \A v \in Wavelets : ~Token(e, v)
    BY <1>1 DEF Token, Working, Loading
  <1>5. ServerOK(Rest, logs)
    BY <1>1, <1>4, HeadIs
  <1>6. m \in Messages
    <2>1. Conn(u) \in Connections
      BY <1>3 DEF ListsKept, Subscribing, Conn, Connections
    <2>2. content \in BOOLEAN
      OBVIOUS
    <2> HIDE DEF u, w, content
    <2> QED
      BY <1>3, <2>1, <2>2, SubscribeTyped
  <1>7. ServerOK(s, logs)
    <2> HIDE DEF m, logs
    <2> QED
      BY <1>5, <1>6, PostToWaveletKeeps
  <1>8. \A v \in Users : Subscribing(conns'[v])
    <2>1. {w} \in SUBSET Wavelets /\ IsFiniteSet({w})
      BY <1>3, FS_Singleton
    <2> HIDE DEF u, w
    <2> QED
      BY <1>1, <1>3, <2>1, SubscribesToMore DEF ListsKept
  <1> HIDE DEF s
  <1> QED
    BY <1>1, <1>5, <1>7, <1>8, ListsStay

\* Messages are posted one by one.
PostsBy(f, s, onDemand, m, n) ==
    /\ f[0] = s
    /\ \A i \in 1..n : m[i] \in Messages /\ f[i] = PostToWavelet(f[i - 1], onDemand, m[i])

\* No message posted lets anybody in.
LEMMA PostsKeep ==
    ASSUME NEW s, NEW logs, ServerOK(s, logs), NEW onDemand, NEW n \in Nat, NEW m, NEW f,
           PostsBy(f, s, onDemand, m, n)
    PROVE  ServerOK(f[n], logs)
  <1> DEFINE T == {k \in Nat : k <= n => ServerOK(f[k], logs)}
  <1>1. 0 \in T
    BY DEF PostsBy
  <1>2. ASSUME NEW k \in Nat, k \in T
        PROVE  k + 1 \in T
    <2>1. CASE k + 1 <= n
      <3>1. k + 1 \in 1..n /\ k <= n /\ (k + 1) - 1 = k
        BY <2>1
      <3>2. /\ ServerOK(f[k], logs) /\ m[k + 1] \in Messages
            /\ f[k + 1] = PostToWavelet(f[k], onDemand, m[k + 1])
        BY <1>2, <3>1 DEF PostsBy
      <3>3. ServerOK(f[k + 1], logs)
        BY <3>2, PostToWaveletKeeps
      <3> QED
        BY <3>3
    <2>2. CASE ~(k + 1 <= n)
      BY <2>2
    <2> QED
      BY <2>1, <2>2
  <1>3. n \in T
    <2> HIDE DEF T
    <2> QED
      BY <1>1, <1>2, SetInduction
  <1> QED
    BY <1>3

\* The wavelets of the list are subscribed to one by one.
ListingBy(f, e) ==
    /\ f[0] = Rest
    /\ \A i \in 1..Len(e.wavelets) :
          f[i] = PostToWavelet(f[i - 1], e.conn[1] \notin WebUsers,
                               Subscribe(e.conn, e.wavelets[i], TRUE, FALSE))
    /\ Becomes(f[Len(e.wavelets)])

\* There is such a run over the list.
LEMMA ListingRuns ==
    ASSUME ListingComes, Alive(Head(events).conn), Head(events).wavelets \in Seq(Wavelets)
    PROVE  \E f : ListingBy(f, Head(events))
  <1> DEFINE e == Head(events)
             q == e.wavelets
             n == Len(q)
             first == Rest
             Then(h, i) == PostToWavelet(h, e.conn[1] \notin WebUsers,
                                         Subscribe(e.conn, q[i], TRUE, FALSE))
             IsRun(h, k) == h = [i \in 0..k |-> IF i = 0 THEN first ELSE Then(h[i - 1], i)]
             after == CHOOSE h : IsRun(h, n)
  <1>1. n \in Nat
    BY LenProperties
  <1>2. Becomes(after[n])
    BY DEF ListingComes
  <1>3. \A h, i : Then(h, i) = PostToWavelet(h, e.conn[1] \notin WebUsers,
                                            Subscribe(e.conn, q[i], TRUE, FALSE))
    OBVIOUS
  <1> HIDE DEF n, first, Then
  <1>4. \E r : IsRun(r, n)
    <2> DEFINE T == {k \in Nat : \E r : IsRun(r, k)}
    <2>1. 0 \in T
      <3> DEFINE r == [i \in 0..0 |-> first]
      <3>1. IsRun(r, 0)
        OBVIOUS
      <3> QED
        BY <3>1
    <2>2. ASSUME NEW k \in Nat, k \in T
          PROVE  k + 1 \in T
      <3>1. PICK h : IsRun(h, k)
        BY <2>2
      <3> DEFINE g == [i \in 0..(k + 1) |-> IF i <= k THEN h[i] ELSE Then(h[k], k + 1)]
      <3>2. ASSUME NEW i \in 0..(k + 1)
            PROVE  g[i] = IF i = 0 THEN first ELSE Then(g[i - 1], i)
        <4>1. CASE i <= k
          <5>1. h[i] = IF i = 0 THEN first ELSE Then(h[i - 1], i)
            BY <3>1, <4>1
          <5>2. i # 0 => g[i - 1] = h[i - 1]
            BY <4>1
          <5> QED
            BY <4>1, <5>1, <5>2
        <4>2. CASE i = k + 1
          BY <4>2
        <4> QED
          BY <4>1, <4>2
      <3>3. g = [i \in 0..(k + 1) |-> g[i]]
        OBVIOUS
      <3>4. IsRun(g, k + 1)
        <4> HIDE DEF g
        <4> QED
          BY <3>2, <3>3
      <3>5. \E r : IsRun(r, k + 1)
        <4> HIDE DEF g, IsRun
        <4> QED
          BY <3>4
      <3> QED
        BY <3>5, SMTT(30)
    <2>3. n \in T
      <3> HIDE DEF T
      <3> QED
        BY <1>1, <2>1, <2>2, SetInduction
    <2> QED
      BY <2>3
  <1>5. IsRun(after, n)
    <2> HIDE DEF IsRun
    <2> QED
      BY <1>4
  <1> HIDE DEF after
  <1>6. \A i \in 0..n : after[i] = IF i = 0 THEN first ELSE Then(after[i - 1], i)
    BY <1>5
  <1>7. after[0] = first
    BY <1>1, <1>6
  <1>8. \A i \in 1..n : after[i] = Then(after[i - 1], i)
    BY <1>1, <1>6
  <1>9. ListingBy(after, e)
    BY <1>2, <1>3, <1>7, <1>8 DEF ListingBy, n, first
  <1> QED
    BY <1>9

\* What a connection subscribed to is taken back one by one.
LeavingBy(f, u, left) ==
    /\ f[0] = Server
    /\ \A i \in 1..Len(left) : f[i] = PostToWavelet(f[i - 1], FALSE, Unsubscribe(Conn(u), left[i]))
    /\ Becomes(f[Len(left)])

\* There is such a run over the subscriptions.
LEMMA LeavingRuns ==
    ASSUME NEW u, UserLeaves(u), SetToSeq(conns[u].subscriptions) \in Seq(Wavelets)
    PROVE  \E f : LeavingBy(f, u, SetToSeq(conns[u].subscriptions))
  <1> DEFINE left == SetToSeq(conns[u].subscriptions)
             n == Len(left)
             first == Server
             Then(h, i) == PostToWavelet(h, FALSE, Unsubscribe(Conn(u), left[i]))
             IsRun(h, k) == h = [i \in 0..k |-> IF i = 0 THEN first ELSE Then(h[i - 1], i)]
             after == CHOOSE h : IsRun(h, n)
  <1>1. n \in Nat
    BY LenProperties
  <1>2. Becomes(after[n])
    BY DEF UserLeaves
  <1>3. \A h, i : Then(h, i) = PostToWavelet(h, FALSE, Unsubscribe(Conn(u), left[i]))
    OBVIOUS
  <1> HIDE DEF n, first, Then
  <1>4. \E r : IsRun(r, n)
    <2> DEFINE T == {k \in Nat : \E r : IsRun(r, k)}
    <2>1. 0 \in T
      <3> DEFINE r == [i \in 0..0 |-> first]
      <3>1. IsRun(r, 0)
        OBVIOUS
      <3> QED
        BY <3>1
    <2>2. ASSUME NEW k \in Nat, k \in T
          PROVE  k + 1 \in T
      <3>1. PICK h : IsRun(h, k)
        BY <2>2
      <3> DEFINE g == [i \in 0..(k + 1) |-> IF i <= k THEN h[i] ELSE Then(h[k], k + 1)]
      <3>2. ASSUME NEW i \in 0..(k + 1)
            PROVE  g[i] = IF i = 0 THEN first ELSE Then(g[i - 1], i)
        <4>1. CASE i <= k
          <5>1. h[i] = IF i = 0 THEN first ELSE Then(h[i - 1], i)
            BY <3>1, <4>1
          <5>2. i # 0 => g[i - 1] = h[i - 1]
            BY <4>1
          <5> QED
            BY <4>1, <5>1, <5>2
        <4>2. CASE i = k + 1
          BY <4>2
        <4> QED
          BY <4>1, <4>2
      <3>3. g = [i \in 0..(k + 1) |-> g[i]]
        OBVIOUS
      <3>4. IsRun(g, k + 1)
        <4> HIDE DEF g
        <4> QED
          BY <3>2, <3>3
      <3>5. \E r : IsRun(r, k + 1)
        <4> HIDE DEF g, IsRun
        <4> QED
          BY <3>4
      <3> QED
        BY <3>5
    <2>3. n \in T
      <3> HIDE DEF T
      <3> QED
        BY <1>1, <2>1, <2>2, SetInduction
    <2> QED
      BY <2>3
  <1>5. IsRun(after, n)
    <2> HIDE DEF IsRun
    <2> QED
      BY <1>4
  <1> HIDE DEF after
  <1>6. \A i \in 0..n : after[i] = IF i = 0 THEN first ELSE Then(after[i - 1], i)
    BY <1>5
  <1>7. after[0] = first
    BY <1>1, <1>6
  <1>8. \A i \in 1..n : after[i] = Then(after[i - 1], i)
    BY <1>1, <1>6
  <1>9. LeavingBy(after, u, left)
    BY <1>2, <1>3, <1>7, <1>8 DEF LeavingBy, n, first
  <1> QED
    BY <1>9

\* The list of the wavelets of a user comes.
LEMMA ListingComesKeeps ==
    ASSUME SocketsUnbroken, ListsKept, ListingComes
    PROVE  ListsKept'
  <1> DEFINE e == Head(events)
             logs == store.log
             u == e.conn[1]
             q == e.wavelets
             found == IF u \in WebUsers THEN {w \in ToSet(q) : wavelets[w].loaded} ELSE {}
  <1>1. /\ events # <<>> /\ e.to = "listed" /\ store' = store
        /\ \/ conns' = conns
           \/ conns' = [conns EXCEPT ![u].subscriptions = conns[u].subscriptions \cup found]
    BY DEF ListingComes, Event
  <1>2. IsEvent(e) /\ ListsKept
    BY <1>1, HeadIs
  <1>3. e.conn \in Connections /\ q \in Seq(Wavelets)
    <2> HIDE DEF e
    <2> QED
      BY <1>1, <1>2, EventFacts
  <1>4. u \in Users
    <2> HIDE DEF e
    <2> QED
      BY <1>3 DEF Connections
  <1>5. \A v \in Wavelets : ~Token(e, v)
    BY <1>1 DEF Token, Working, Loading
  <1>6. ServerOK(Rest, logs)
    BY <1>1, <1>5, HeadIs
  <1>7. PICK s : ServerOK(s, logs) /\ Becomes(s)
    <2>1. CASE Alive(e.conn)
      <3>1. PICK f : ListingBy(f, e)
        BY <1>3, <2>1, ListingRuns
      <3> DEFINE onDemand == u \notin WebUsers
                 n == Len(q)
                 m == [i \in 1..n |-> Subscribe(e.conn, q[i], TRUE, FALSE)]
      <3>2. n \in Nat /\ \A i \in 1..n : q[i] \in Wavelets
        BY <1>3, LenProperties
      <3>3. ASSUME NEW i \in 1..n
            PROVE  m[i] \in Messages /\ f[i] = PostToWavelet(f[i - 1], onDemand, m[i])
        <4>1. m[i] = Subscribe(e.conn, q[i], TRUE, FALSE)
          OBVIOUS
        <4>2. f[i] = PostToWavelet(f[i - 1], onDemand, m[i])
          BY <3>1, <4>1 DEF ListingBy
        <4> HIDE DEF m, e
        <4> QED
          BY <1>3, <3>2, <4>1, <4>2, SubscribeTyped
      <3>4. f[0] = Rest /\ Becomes(f[n])
        BY <3>1 DEF ListingBy
      <3> HIDE DEF onDemand, n, m, logs
      <3>5. PostsBy(f, Rest, onDemand, m, n)
        BY <3>3, <3>4 DEF PostsBy
      <3>6. ServerOK(f[n], logs)
        BY <1>6, <3>2, <3>5, PostsKeep
      <3> QED
        BY <3>4, <3>6
    <2>2. CASE ~Alive(e.conn)
      <3>1. Becomes(Rest)
        BY <2>2 DEF ListingComes
      <3> QED
        BY <1>6, <3>1
    <2> QED
      BY <2>1, <2>2
  <1>8. \A v \in Users : Subscribing(conns'[v])
    <2>1. found \in SUBSET Wavelets /\ IsFiniteSet(found)
      <3>1. q \in Seq(Wavelets)
        BY <1>3
      <3> HIDE DEF q
      <3>2. ToSet(q) \subseteq Wavelets /\ IsFiniteSet(ToSet(q))
        <4> DEFINE n == Len(q)
                   T == 1..n
        <4>1. n \in Nat /\ DOMAIN q = T /\ \A i \in T : q[i] \in Wavelets
          BY <3>1, LenProperties
        <4>2. ToSet(q) = {q[i] : i \in T}
          BY <4>1 DEF ToSet
        <4>3. IsFiniteSet(T)
          BY <4>1, FS_Interval
        <4> HIDE DEF T
        <4>4. IsFiniteSet({q[i] : i \in T})
          BY <4>3, ImageIsFinite
        <4> QED
          BY <4>1, <4>2, <4>4
      <3>3. found \subseteq ToSet(q)
        OBVIOUS
      <3> HIDE DEF found
      <3> QED
        BY <3>2, <3>3, FS_Subset
    <2> HIDE DEF u, found
    <2> QED
      BY <1>1, <1>4, <2>1, SubscribesToMore DEF ListsKept
  <1> QED
    BY <1>1, <1>7, <1>8, ListsStay

\* A connection goes, and takes back what it subscribed to.
LEMMA UserLeavesKeeps ==
    ASSUME SocketsUnbroken, ListsKept, NEW u \in Users, UserLeaves(u)
    PROVE  ListsKept'
  <1> DEFINE logs == store.log
             S == conns[u].subscriptions
             left == SetToSeq(S)
             c == Conn(u)
  <1>1. store' = store /\ conns' = [conns EXCEPT ![u] = NoConnection(conns[u].session)]
    BY DEF UserLeaves
  <1>2. S \in SUBSET Wavelets /\ IsFiniteSet(S) /\ c \in Connections /\ ServerOK(Server, logs)
    BY DEF ListsKept, Subscribing, Conn, Connections
  <1>3. left \in Seq(Wavelets)
    <2> HIDE DEF S
    <2>1. left \in Seq(S)
      BY <1>2, SetToSeqIsSequence
    <2> HIDE DEF left
    <2> QED
      BY <1>2, <2>1, SeqMonotonic
  <1>4. PICK f : LeavingBy(f, u, left)
    BY <1>3, LeavingRuns
  <1> DEFINE n == Len(left)
             m == [i \in 1..n |-> Unsubscribe(c, left[i])]
  <1>5. n \in Nat /\ \A i \in 1..n : left[i] \in Wavelets
    BY <1>3, LenProperties
  <1>6. ASSUME NEW i \in 1..n
        PROVE  m[i] \in Messages /\ f[i] = PostToWavelet(f[i - 1], FALSE, m[i])
    <2>1. m[i] = Unsubscribe(c, left[i])
      OBVIOUS
    <2>2. f[i] = PostToWavelet(f[i - 1], FALSE, m[i])
      BY <1>4, <2>1 DEF LeavingBy
    <2> HIDE DEF m, c, left
    <2> QED
      BY <1>2, <1>5, <2>1, <2>2, SubscribeTyped
  <1>7. f[0] = Server /\ Becomes(f[n])
    BY <1>4 DEF LeavingBy
  <1>8. ServerOK(f[n], logs)
    <2> HIDE DEF n, m, logs
    <2>1. PostsBy(f, Server, FALSE, m, n)
      BY <1>6, <1>7 DEF PostsBy
    <2> QED
      BY <1>2, <1>5, <2>1, PostsKeep
  <1>9. \A v \in Users : Subscribing(conns'[v])
    <2> SUFFICES ASSUME NEW v \in Users
                 PROVE  Subscribing(conns'[v])
      OBVIOUS
    <2> DEFINE none == NoConnection(conns[u].session)
    <2>1. conns'[v] = IF v = u THEN none ELSE conns[v]
      BY <1>1 DEF SocketsUnbroken
    <2>2. none.session = conns[u].session /\ none.subscriptions = {}
      BY DEF NoConnection
    <2>3. Subscribing(none)
      BY <2>2, FS_EmptySet DEF ListsKept, Subscribing
    <2> HIDE DEF none
    <2> QED
      BY <2>1, <2>3 DEF ListsKept
  <1> HIDE DEF n
  <1> QED
    BY <1>1, <1>7, <1>8, <1>9, ListsStay

\* A request is handled: the index is asked for, or a wavelet subscribed to.
LEMMA RequestedKeeps ==
    ASSUME NEW s, NEW logs, ServerOK(s, logs), NEW u, Conn(u) \in Connections,
           NEW m \in Requests
    PROVE  ServerOK(Requested(s, u, m), logs)
  <1> DEFINE c == Conn(u)
  <1>1. CASE m = OpenIndex
    <2> DEFINE job == [kind |-> "listing", conn |-> c]
               x == ToActor(job)
    <2>1. Requested(s, u, m) = Post(s, x)
      BY <1>1 DEF Requested, OpenIndex
    <2>2. job \in Listings /\ job.kind = "listing"
      BY DEF Listings
    <2>3. x = [to |-> "actor", job |-> job]
      BY DEF ToActor
    <2>4. IsEvent(x) /\ \A w \in Wavelets : ~Token(x, w)
      <3> HIDE DEF job, x
      <3> QED
        BY <2>2, <2>3 DEF IsEvent, Token, Working, Loading
    <2> HIDE DEF x
    <2> QED
      BY <2>1, <2>4, ServerPosts
  <1>2. ASSUME NEW w \in Wavelets, m = OpenWavelet(w)
        PROVE  ServerOK(Requested(s, u, m), logs)
    <2> DEFINE x == Subscribe(c, w, TRUE, TRUE)
    <2>1. Requested(s, u, m) = PostToWavelet(s, TRUE, x)
      BY <1>2 DEF Requested, OpenWavelet
    <2> HIDE DEF c
    <2>2. x \in Messages
      BY SubscribeTyped DEF c
    <2> HIDE DEF x
    <2> QED
      BY <2>1, <2>2, PostToWaveletKeeps
  <1> QED
    BY <1>1, <1>2 DEF Requests

\* All the requests that are complete are handled.
LEMMA TakesKeeps ==
    ASSUME SocketsUnbroken, ListsKept, NEW u \in Users, NEW n, NEW conn,
           NEW q \in Seq(Requests), Takes(u, n, conn, q),
           conn.session = conns[u].session, conn.subscriptions = conns[u].subscriptions,
           Handled(HandleAll(u, conn, q).conn, conn, q)
    PROVE  ListsKept'
  <1> DEFINE logs == store.log
             end == HandleAll(u, conn, q)
             k == Len(q)
  <1>1. /\ store' = store /\ conns' = [conns EXCEPT ![u] = end.conn]
        /\ Becomes(end.server)
    BY DEF Takes
  <1>2. PICK f : HandlesBy(f, u, conn, q)
    BY HandleAllRuns
  <1>3. /\ Conn(u) \in Connections /\ ServerOK(Server, logs)
        /\ k \in Nat /\ \A i \in 1..k : q[i] \in Requests
    BY LenProperties DEF ListsKept, Subscribing, Conn, Connections
  <1>4. /\ f[0].server = Server
        /\ \A i \in 1..k : f[i].server = Requested(f[i - 1].server, u, q[i])
        /\ end = f[k]
    <2>1. f[0].server = Server /\ end = f[k]
      BY <1>2 DEF HandlesBy
    <2>2. ASSUME NEW i \in 1..k
          PROVE  f[i].server = Requested(f[i - 1].server, u, q[i])
      <3> DEFINE x == Requested(f[i - 1].server, u, q[i])
                 y == OpenRequest(f[i - 1].conn, q[i])
      <3>1. f[i] = [server |-> x, conn |-> y]
        BY <1>2 DEF HandlesBy
      <3> HIDE DEF x, y
      <3>2. f[i].server = x
        BY <3>1
      <3> QED
        BY <3>2 DEF x
    <2> QED
      BY <2>1, <2>2
  <1>5. ServerOK(end.server, logs)
    <2> DEFINE T == {i \in Nat : i <= k => ServerOK(f[i].server, logs)}
    <2> HIDE DEF logs, end, k
    <2>1. 0 \in T
      BY <1>3, <1>4
    <2>2. ASSUME NEW i \in Nat, i \in T
          PROVE  i + 1 \in T
      <3>1. CASE i + 1 <= k
        <4>1. i + 1 \in 1..k /\ i <= k /\ (i + 1) - 1 = i
          BY <1>3, <3>1
        <4>2. /\ ServerOK(f[i].server, logs) /\ q[i + 1] \in Requests
              /\ f[i + 1].server = Requested(f[i].server, u, q[i + 1])
          BY <1>3, <1>4, <2>2, <4>1
        <4> DEFINE s == f[i].server
                   m == q[i + 1]
        <4>3. ServerOK(Requested(s, u, m), logs)
          <5>1. ServerOK(s, logs) /\ m \in Requests
            BY <4>2
          <5> HIDE DEF s, m
          <5> QED
            BY <1>3, <5>1, RequestedKeeps
        <4> QED
          BY <4>2, <4>3
      <3>2. CASE ~(i + 1 <= k)
        BY <3>2
      <3> QED
        BY <3>1, <3>2
    <2>3. k \in T
      <3> HIDE DEF T
      <3> QED
        BY <1>3, <2>1, <2>2, SetInduction
    <2> QED
      BY <1>4, <2>3
  <1>6. \A v \in Users : Subscribing(conns'[v])
    <2> SUFFICES ASSUME NEW v \in Users
                 PROVE  Subscribing(conns'[v])
      OBVIOUS
    <2> DEFINE t == end.conn
    <2>1. t.session = conns[u].session /\ t.subscriptions = conns[u].subscriptions
      BY DEF Handled
    <2> HIDE DEF end, t
    <2>2. conns'[v] = IF v = u THEN t ELSE conns[v]
      BY <1>1 DEF SocketsUnbroken, t
    <2>3. Subscribing(t)
      BY <2>1 DEF ListsKept, Subscribing
    <2> QED
      BY <2>2, <2>3 DEF ListsKept
  <1> HIDE DEF end
  <1> QED
    BY <1>1, <1>5, <1>6, ListsStay DEF logs

\* A part of a desktop client's bytes arrives.
LEMMA ServerReadsKeeps ==
    ASSUME SocketsUnbroken, ListsKept, NEW u \in Users, ServerReads(u)
    PROVE  ListsKept'
  <1> DEFINE wire == wires[u]
             c == conns[u]
             rpc(n) == Arrived(c.rpc, SubSeq(wire, 1, n))
             conn(n) == [c EXCEPT !.rpc = rpc(n)]
  <1>1. u \notin WebUsers /\ c.up /\ Unbroken(c, wire, u)
    BY DEF ServerReads, SocketsUnbroken
  <1>2. PICK n \in 1..Len(wire) : Takes(u, n, conn(n), rpc(n).received)
    BY DEF ServerReads
  <1> HIDE DEF c, wire
  <1>3. /\ rpc(n).received \in Seq(Requests)
        /\ conn(n).session = c.session
        /\ Handled(HandleAll(u, conn(n), rpc(n).received).conn, conn(n), rpc(n).received)
    BY <1>1, ServerReadsUnbroken
  <1>4. conn(n).subscriptions = c.subscriptions
    <2> DEFINE x == rpc(n)
    <2>1. IsConnection(c)
      BY <1>1 DEF Unbroken
    <2> HIDE DEF x
    <2>2. [c EXCEPT !.rpc = x].subscriptions = c.subscriptions
      BY <2>1, ConnectionWithRpc
    <2> QED
      BY <2>2 DEF x
  <1> DEFINE d == conn(n)
             q == rpc(n).received
  <1>5. /\ q \in Seq(Requests) /\ Takes(u, n, d, q)
        /\ d.session = conns[u].session /\ d.subscriptions = conns[u].subscriptions
        /\ Handled(HandleAll(u, d, q).conn, d, q)
    BY <1>2, <1>3, <1>4 DEF c
  <1> HIDE DEF d, q
  <1> QED
    BY <1>5, TakesKeeps

\* The records of a browser's request arrive.
LEMMA ServerTakesKeeps ==
    ASSUME SocketsUnbroken, ListsKept, NEW u \in Users, ServerTakes(u)
    PROVE  ListsKept'
  <1> DEFINE wire == wires[u]
             c == conns[u]
             records == Web!RecordsOf(Head(wire).id, Head(wire).request)
             fcgi(n) == Web!ArrivedCut(c.fcgi, records, n)
             conn(n) == [c EXCEPT !.fcgi = fcgi(n)]
  <1>1. u \in WebUsers /\ c.up /\ wire # <<>> /\ Unbroken(c, wire, u)
    BY DEF ServerTakes, SocketsUnbroken
  <1>2. PICK n \in 1..Len(records) : Takes(u, 1, conn(n), fcgi(n).received)
    BY DEF ServerTakes
  <1> HIDE DEF c, wire
  <1>3. /\ fcgi(n).received \in Seq(Requests)
        /\ conn(n).session = c.session
        /\ Handled(HandleAll(u, conn(n), fcgi(n).received).conn, conn(n), fcgi(n).received)
    BY <1>1, ServerTakesUnbroken
  <1>4. conn(n).subscriptions = c.subscriptions
    <2> DEFINE x == fcgi(n)
    <2>1. IsConnection(c)
      BY <1>1 DEF Unbroken
    <2> HIDE DEF x
    <2>2. [c EXCEPT !.fcgi = x].subscriptions = c.subscriptions
      BY <2>1, ConnectionWithFcgi
    <2> QED
      BY <2>2 DEF x
  <1> DEFINE d == conn(n)
             q == fcgi(n).received
  <1>5. /\ q \in Seq(Requests) /\ Takes(u, 1, d, q)
        /\ d.session = conns[u].session /\ d.subscriptions = conns[u].subscriptions
        /\ Handled(HandleAll(u, d, q).conn, d, q)
    BY <1>2, <1>3, <1>4 DEF c
  <1> HIDE DEF d, q
  <1> QED
    BY <1>5, TakesKeeps

\* What an author may send.
LEMMA DeltasTyped ==
    ASSUME NEW w \in Wavelets, NEW delta \in Deltas(w)
    PROVE  delta \in DeltaSet
  <1>1. /\ \A u \in Users : Add(u) \in Ops /\ Expel(u) \in Ops
        /\ Start \in Ops /\ Type \in Ops
    BY DEF Ops
  <1> HIDE DEF Ops
  <1>2. ASSUME NEW u \in Users
        PROVE  /\ <<Add(u)>> \in DeltaSet /\ <<Start, Type>> \o <<Add(u)>> \in DeltaSet
               /\ <<Expel(u)>> \in DeltaSet /\ <<Expel(u), Add(u)>> \in DeltaSet
    <2> DEFINE a == Add(u)
               x == Expel(u)
    <2>1. a \in Ops /\ x \in Ops
      BY <1>1
    <2>2. <<a>> \in Seq(Ops) /\ <<Start, Type>> \in Seq(Ops)
      BY <1>1, <2>1
    <2>3. <<Start, Type>> \o <<a>> \in Seq(Ops)
      <3> HIDE DEF a
      <3> QED
        BY <2>2, ConcatProperties
    <2> HIDE DEF a, x
    <2>4. <<x>> \in Seq(Ops) /\ <<x, a>> \in Seq(Ops)
      BY <2>1
    <2> QED
      BY <2>2, <2>3, <2>4 DEF a, x, DeltaSet
  <1>3. <<Start>> \in DeltaSet /\ <<Type>> \in DeltaSet
    BY <1>1 DEF DeltaSet
  <1>4. \/ delta \in {<<Start>>, <<Type>>}
        \/ \E u \in Users : delta \in {<<Add(u)>>, <<Start, Type>> \o <<Add(u)>>, <<Expel(u)>>,
                                       <<Expel(u), Add(u)>>}
    BY DEF Deltas
  <1> QED
    BY <1>2, <1>3, <1>4

\* The author sends a delta.
LEMMA AuthorSubmitsKeeps ==
    ASSUME ListsKept, NEW w \in Wavelets, AuthorSubmits(w)
    PROVE  ListsKept'
  <1> DEFINE logs == store.log
             m(d) == [kind |-> "submit", wavelet |-> w, delta |-> d]
  <1>1. store' = store /\ conns' = conns
    BY DEF AuthorSubmits
  <1>2. PICK delta \in Deltas(w) : Becomes(PostToWavelet(Server, TRUE, m(delta)))
    BY DEF AuthorSubmits
  <1>3. delta \in DeltaSet
    BY DeltasTyped
  <1> DEFINE x == m(delta)
             s == PostToWavelet(Server, TRUE, x)
  <1>4. x \in Messages
    BY <1>3 DEF Messages, Submits
  <1>5. ServerOK(Server, logs)
    BY DEF ListsKept
  <1>6. ServerOK(s, logs)
    <2> HIDE DEF x, logs
    <2> QED
      BY <1>4, <1>5, PostToWaveletKeeps
  <1>7. Becomes(s)
    BY <1>2
  <1> HIDE DEF s
  <1> QED
    BY <1>1, <1>6, <1>7, ListsStay DEF ListsKept

\* Only what is asked changes.
LEMMA AskedSubscribing ==
    ASSUME NEW c, IsConnection(c), Subscribing(c), NEW y
    PROVE  Subscribing([c EXCEPT !.asked = y])
  <1> DEFINE up == c.up
             session == c.session
             named == c.named
             opened == c.opened
             rpc == c.rpc
             fcgi == c.fcgi
             subscriptions == c.subscriptions
             asked == c.asked
             handled == c.handled
             t == [c EXCEPT !.asked = y]
  <1>1. c = [up |-> up, session |-> session, named |-> named, opened |-> opened, rpc |-> rpc,
             fcgi |-> fcgi, subscriptions |-> subscriptions, asked |-> asked, handled |-> handled]
    BY DEF IsConnection
  <1>2. t = [c EXCEPT !.asked = y]
    OBVIOUS
  <1> HIDE DEF up, session, named, opened, rpc, fcgi, subscriptions, asked, handled, t
  <1>3. t = [up |-> up, session |-> session, named |-> named, opened |-> opened, rpc |-> rpc,
             fcgi |-> fcgi, subscriptions |-> subscriptions, asked |-> y, handled |-> handled]
    BY <1>1, <1>2
  <1>4. t.session = session /\ t.subscriptions = subscriptions
    BY <1>3
  <1>5. Subscribing(t)
    BY <1>4 DEF Subscribing, session, subscriptions
  <1> QED
    BY <1>5 DEF t

\* The server's state is not touched.
LEMMA ServerStays ==
    ASSUME ListsKept, UNCHANGED <<wavelets, store, events>>,
           \A u \in Users : Subscribing(conns'[u])
    PROVE  ListsKept'
  <1>1. Becomes(Server)
    BY DEF Becomes, Server
  <1>2. ServerOK(Server, store.log) /\ store' = store
    BY DEF ListsKept
  <1> QED
    BY <1>1, <1>2, ListsStay

\* One connection becomes another one.
LEMMA OneSubscribing ==
    ASSUME SocketsUnbroken, ListsKept, NEW v \in Users, NEW t, Subscribing(t),
           conns' = [conns EXCEPT ![v] = t]
    PROVE  \A u \in Users : Subscribing(conns'[u])
  <1> SUFFICES ASSUME NEW u \in Users
               PROVE  Subscribing(conns'[u])
    OBVIOUS
  <1>1. conns'[u] = IF u = v THEN t ELSE conns[u]
    BY DEF SocketsUnbroken
  <1> QED
    BY <1>1 DEF ListsKept

\* A user connects.
LEMMA UserConnectsKeeps ==
    ASSUME SocketsUnbroken, ListsKept, NEW u \in Users, UserConnects(u)
    PROVE  ListsKept'
  <1> DEFINE n == conns[u].session + 1
             web == u \in WebUsers
             c == [NoConnection(n) EXCEPT !.up = TRUE, !.named = web]
             y == Append(c.asked, OpenIndex)
             t == [c EXCEPT !.asked = y]
  <1>1. conns' = [conns EXCEPT ![u] = t] /\ UNCHANGED <<wavelets, store, events>>
    BY DEF UserConnects, Asks
  <1>2. n \in Nat
    BY DEF ListsKept, Subscribing
  <1> HIDE DEF n, web
  <1>3. IsConnection(c) /\ c.session = n /\ c.subscriptions = {}
    BY FreshConnection
  <1> HIDE DEF c
  <1>4. Subscribing(c)
    BY <1>2, <1>3, FS_EmptySet DEF Subscribing
  <1> HIDE DEF y
  <1>5. Subscribing(t)
    BY <1>3, <1>4, AskedSubscribing
  <1> HIDE DEF t
  <1> QED
    BY <1>1, <1>5, OneSubscribing, ServerStays

\* A user opens a wavelet.
LEMMA UserOpensKeeps ==
    ASSUME SocketsUnbroken, ListsKept, NEW u \in Users, NEW w \in Wavelets, UserOpens(u, w)
    PROVE  ListsKept'
  <1> DEFINE c == conns[u]
             y == Append(c.asked, OpenWavelet(w))
             t == [c EXCEPT !.asked = y]
  <1>1. conns' = [conns EXCEPT ![u] = t] /\ UNCHANGED <<wavelets, store, events>>
    BY DEF UserOpens, Asks
  <1>2. IsConnection(c) /\ Subscribing(c)
    BY DEF SocketsUnbroken, Unbroken, ListsKept
  <1> HIDE DEF c, y
  <1>3. Subscribing(t)
    BY <1>2, AskedSubscribing
  <1> HIDE DEF t
  <1> QED
    BY <1>1, <1>3, OneSubscribing, ServerStays

\* A server that has just been started.
LEMMA FreshServer ==
    ASSUME NEW logs
    PROVE  ServerOK([wavelets |-> [w \in Wavelets |-> Unloaded], events |-> <<>>], logs)
  <1> DEFINE all == [w \in Wavelets |-> Unloaded]
             none == <<>>
             s == [wavelets |-> all, events |-> none]
  <1>1. s.wavelets = all /\ s.events = none
    OBVIOUS
  <1>2. IsQueue(none) /\ \A w : Nothing(none, w)
    BY EmptySeq DEF IsQueue, IsSequence, Nothing
  <1>3. all = [w \in Wavelets |-> all[w]] /\ \A w \in Wavelets : all[w] = Unloaded
    OBVIOUS
  <1>4. DOMAIN s = {"wavelets", "events"} /\ s = [f \in DOMAIN s |-> s[f]]
    OBVIOUS
  <1> HIDE DEF all, none, s
  <1>5. IsServer(s)
    BY <1>1, <1>2, <1>3, <1>4, FreshWavelets DEF IsServer
  <1>6. \A w \in Wavelets : Steady(s.wavelets[w], s.events, logs[w], w)
    BY <1>1, <1>2, <1>3 DEF Steady, Absent, Unloaded
  <1>7. ServerOK(s, logs)
    BY <1>5, <1>6 DEF ServerOK
  <1> QED
    BY <1>7 DEF s, all, none

\* The server starts again: nobody is there, and the log is what it was.
LEMMA RestartKeeps ==
    ASSUME ListsKept, Restart
    PROVE  ListsKept'
  <1> DEFINE logs == store.log
             s == [wavelets |-> [w \in Wavelets |-> Unloaded], events |-> <<>>]
  <1>1. ServerOK(s, logs)
    BY FreshServer
  <1>2. Becomes(s)
    BY DEF Restart, Becomes
  <1>3. store' = store
    <2>1. store' = [store EXCEPT !.index = IndexOfLog(store.log)]
      BY DEF Restart
    <2> QED
      BY <2>1, RestartRemembers DEF ListsKept
  <1>4. \A u \in Users : Subscribing(conns'[u])
    <2> SUFFICES ASSUME NEW u \in Users
                 PROVE  Subscribing(conns'[u])
      OBVIOUS
    <2> DEFINE t == NoConnection(conns[u].session)
    <2>1. conns'[u] = t
      BY DEF Restart
    <2>2. t.session = conns[u].session /\ t.subscriptions = {}
      BY DEF NoConnection
    <2>3. Subscribing(t)
      BY <2>2, FS_EmptySet DEF ListsKept, Subscribing
    <2> HIDE DEF t
    <2> QED
      BY <2>1, <2>3
  <1> HIDE DEF s
  <1> QED
    BY <1>1, <1>2, <1>3, <1>4, ListsStay

\* At the beginning.
LEMMA ListsStart == Init => ListsKept
  <1> SUFFICES ASSUME Init
               PROVE  ListsKept
    OBVIOUS
  <1>1. ServerOK(Server, store.log)
    <2> DEFINE logs == store.log
               s == [wavelets |-> [w \in Wavelets |-> Unloaded], events |-> <<>>]
    <2>1. Server = s
      BY DEF Init, Server
    <2> HIDE DEF logs
    <2>2. ServerOK(s, logs)
      BY FreshServer
    <2> QED
      BY <2>1, <2>2 DEF logs
  <1>2. StoreOK(store)
    <2> DEFINE none == <<>>
               log == [w \in Wavelets |-> none]
               index == [u \in Users |-> {}]
    <2>1. store = [log |-> log, index |-> index]
      BY DEF Init
    <2>2. none \in Logs /\ \A u : ~IndexSays(u, none)
      BY EmptySeq DEF Logs, IndexSays
    <2> HIDE DEF none
    <2>3. log \in [Wavelets -> Logs] /\ index \in Indexes
      BY <2>2 DEF Indexes
    <2>4. ASSUME NEW u \in Users
          PROVE  /\ index[u] = {}
                 /\ \A w \in Wavelets : w \in index[u] <=> IndexSays(u, log[w])
      BY <2>2
    <2>5. DOMAIN store = {"log", "index"} /\ store = [f \in DOMAIN store |-> store[f]]
      BY <2>1
    <2>6. store.log = log /\ store.index = index
      BY <2>1
    <2> HIDE DEF log, index
    <2> QED
      BY <2>3, <2>4, <2>5, <2>6, FS_EmptySet DEF StoreOK
  <1>3. ASSUME NEW u \in Users
        PROVE  Subscribing(conns[u])
    <2> DEFINE t == NoConnection(0)
    <2>1. conns[u] = t
      BY DEF Init
    <2>2. t.session = 0 /\ t.subscriptions = {}
      BY DEF NoConnection
    <2>3. Subscribing(t)
      BY <2>2, FS_EmptySet DEF Subscribing
    <2> HIDE DEF t
    <2> QED
      BY <2>1, <2>3
  <1> QED
    BY <1>1, <1>2, <1>3 DEF ListsKept

\* Every step keeps what the store and the wavelets say.
LEMMA ListsStep ==
    ASSUME SocketsUnbroken, ListsKept, [Next]_sessionVars
    PROVE  ListsKept'
  <1>1. CASE WaveletGets
    BY <1>1, WaveletGetsKeeps
  <1>2. CASE ActorStarts
    BY <1>2, ActorStartsKeeps
  <1>3. CASE ActorEnters
    BY <1>3, ActorEntersKeeps
  <1>4. CASE StoreGets
    BY <1>4, StoreGetsKeeps
  <1>5. CASE SubmitCommits
    BY <1>5, SubmitCommitsKeeps
  <1>6. CASE HistoryComes
    BY <1>6, HistoryComesKeeps
  <1>7. CASE ListingComes
    BY <1>7, ListingComesKeeps
  <1>8. CASE InvitationComes
    BY <1>8, InvitationComesKeeps
  <1>9. CASE ConnectionGets
    BY <1>9, ConnectionGetsKeeps
  <1>10. CASE Restart
    BY <1>10, RestartKeeps
  <1>11. ASSUME NEW w \in Wavelets, AuthorSubmits(w)
         PROVE  ListsKept'
    BY <1>11, AuthorSubmitsKeeps
  <1>12. ASSUME NEW u \in Users, ServerReads(u)
         PROVE  ListsKept'
    BY <1>12, ServerReadsKeeps
  <1>13. ASSUME NEW u \in Users, ServerTakes(u)
         PROVE  ListsKept'
    BY <1>13, ServerTakesKeeps
  <1>14. ASSUME NEW u \in Users, UserConnects(u)
         PROVE  ListsKept'
    BY <1>14, UserConnectsKeeps
  <1>15. ASSUME NEW u \in Users, UserLeaves(u)
         PROVE  ListsKept'
    BY <1>15, UserLeavesKeeps
  <1>16. ASSUME NEW u \in Users, NEW w \in Wavelets, UserOpens(u, w)
         PROVE  ListsKept'
    BY <1>16, UserOpensKeeps
  <1>17. CASE UNCHANGED sessionVars
    <2>1. UNCHANGED <<wavelets, store, events>> /\ conns' = conns
      BY <1>17 DEF sessionVars
    <2> QED
      BY <2>1, ServerStays DEF ListsKept
  <1> QED
    BY <1>1, <1>2, <1>3, <1>4, <1>5, <1>6, <1>7, <1>8, <1>9, <1>10, <1>11, <1>12, <1>13,
       <1>14, <1>15, <1>16, <1>17 DEF Next

\* What it says when the server is idle.
LEMMA ListsShow == ListsKept => StoreIndexAgrees
  <1> SUFFICES ASSUME ListsKept, NEW u \in Users, NEW w \in Wavelets, Idle(w)
               PROVE  \/ u \in wavelets[w].participants <=> w \in store.index[u]
                      \/ LastSwapped(u, w)
    BY DEF StoreIndexAgrees
  <1> DEFINE logs == store.log
             wv == wavelets[w]
  <1>1. Steady(wv, events, logs[w], w)
    BY DEF ListsKept, ServerOK, Server
  <1>2. events = <<>> /\ wv.enabled
    BY DEF Idle
  <1>3. Len(events) = 0
    BY <1>2
  <1>4. Agrees(wv.participants, logs[w])
    <2>1. \A e : ~Only(events, w, e)
      BY <1>3 DEF Only
    <2> QED
      BY <1>1, <1>2, <2>1 DEF Steady, Absent, Opening, Resting, Occupied
  <1>5. w \in store.index[u] <=> IndexSays(u, logs[w])
    BY DEF ListsKept, StoreOK
  <1>6. LastSwapped(u, w) <=> SwappedLast(u, logs[w])
    BY DEF LastSwapped, SwappedLast
  <1> QED
    BY <1>4, <1>5, <1>6 DEF Agrees

\* The store's list of a user's wavelets is that of the wavelets he is a participant
\* of whenever the server is idle, also after restarts: for any users, wavelets,
\* deltas and subscriptions (store.cpp, wavelet.cpp, localwavelet.cpp).
THEOREM StoreIndexIsRight == SessionsSpec => []StoreIndexAgrees
  <1>1. Init => SocketsUnbroken /\ ListsKept
    BY SocketsStart, ListsStart
  <1>2. SocketsUnbroken /\ ListsKept /\ [Next]_sessionVars => (SocketsUnbroken /\ ListsKept)'
    BY SocketsStep, ListsStep
  <1>3. SocketsUnbroken /\ ListsKept => StoreIndexAgrees
    BY ListsShow
  <1> QED
    BY <1>1, <1>2, <1>3, PTL DEF SessionsSpec
=============================================================================
