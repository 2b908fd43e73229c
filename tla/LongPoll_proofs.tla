----------------------------- MODULE LongPoll_proofs -----------------------------
(***************************************************************************)
(* What holds of the session of a web browser for any number of updates,   *)
(* submits, broken requests and cleanups: its responses leave in order, no *)
(* request hangs, and the session of a browser that pulls is not deleted.  *)
(*                                                                         *)
(* The first rests on the queue of the connection being empty while it has *)
(* a request to answer.  The second rests on a request's death being       *)
(* noticed only when it is dead, and so on a request arriving once.  The   *)
(* third is about time: between the cleanup that suspects the session and  *)
(* the next, either a request that was under way at the first comes in, or *)
(* the answers that were under way have the browser send one.              *)
(***************************************************************************)
EXTENDS LongPoll, SequenceLemmas

-----------------------------------------------------------------------------
(* The event queue. *)

\* r is q without the elements of S, and in the order of q.
IsRest(r, q, S) ==
    /\ ToSet(r) = ToSet(q) \ S
    /\ \A j \in DOMAIN r : \A i \in 1..(j - 1) :
          \E l \in DOMAIN q : \E k \in 1..(l - 1) : r[i] = q[k] /\ r[j] = q[l]

LEMMA RestOfNothing ==
    ASSUME NEW S
    PROVE  IsRest(<<>>, <<>>, S)
  BY DEF IsRest, ToSet

LEMMA RestOfAppend ==
    ASSUME NEW E, NEW q \in Seq(E), NEW r \in Seq(E), NEW S, NEW e \in E,
           IsRest(r, q, S)
    PROVE  /\ e \in S => IsRest(r, Append(q, e), S)
           /\ e \notin S => IsRest(Append(r, e), Append(q, e), S)
  <1> DEFINE qe == Append(q, e)
             re == Append(r, e)
  <1>1. /\ qe \in Seq(E) /\ Len(qe) = Len(q) + 1
        /\ \A i \in 1..Len(q) : qe[i] = q[i]
        /\ qe[Len(q) + 1] = e
    BY AppendProperties
  <1>2. /\ re \in Seq(E) /\ Len(re) = Len(r) + 1
        /\ \A i \in 1..Len(r) : re[i] = r[i]
        /\ re[Len(r) + 1] = e
    BY AppendProperties
  <1>3. ToSet(qe) = ToSet(q) \cup {e} /\ ToSet(re) = ToSet(r) \cup {e}
    BY SequenceOfItsElements, AppendToSet
  <1> HIDE DEF qe, re
  <1>4. Len(q) \in Nat /\ Len(r) \in Nat /\ DOMAIN q = 1..Len(q) /\ DOMAIN r = 1..Len(r)
    BY LenProperties
  <1>5. DOMAIN qe = 1..(Len(q) + 1) /\ DOMAIN re = 1..(Len(r) + 1)
    BY <1>1, <1>2, LenProperties
  <1>6. ASSUME NEW j \in DOMAIN r, NEW i \in 1..(j - 1)
        PROVE  \E l \in DOMAIN qe : \E k \in 1..(l - 1) : r[i] = qe[k] /\ r[j] = qe[l]
    <2>1. PICK l \in DOMAIN q : \E k \in 1..(l - 1) : r[i] = q[k] /\ r[j] = q[l]
      BY DEF IsRest
    <2>2. PICK k \in 1..(l - 1) : r[i] = q[k] /\ r[j] = q[l]
      BY <2>1
    <2>3. k \in 1..Len(q) /\ l \in 1..Len(q) /\ l \in DOMAIN qe
      BY <1>4, <1>5, <2>1, <2>2
    <2> QED
      BY <1>1, <2>2, <2>3
  <1>7. ASSUME e \in S
        PROVE  IsRest(r, qe, S)
    <2>1. ToSet(r) = ToSet(qe) \ S
      BY <1>3, <1>7 DEF IsRest
    <2> QED
      BY <1>6, <2>1 DEF IsRest
  <1>8. ASSUME e \notin S
        PROVE  IsRest(re, qe, S)
    <2>1. ToSet(re) = ToSet(qe) \ S
      BY <1>3, <1>8 DEF IsRest
    <2>2. ASSUME NEW j \in DOMAIN re, NEW i \in 1..(j - 1)
          PROVE  \E l \in DOMAIN qe : \E k \in 1..(l - 1) : re[i] = qe[k] /\ re[j] = qe[l]
      <3>1. i \in 1..Len(r) /\ re[i] = r[i] /\ i \in DOMAIN r
        BY <1>2, <1>4, <1>5
      <3>2. CASE j \in 1..Len(r)
        <4>1. re[j] = r[j] /\ j \in DOMAIN r
          BY <1>2, <1>4, <3>2
        <4> QED
          BY <1>6, <3>1, <4>1
      <3>3. CASE j = Len(r) + 1
        <4>1. r[i] \in ToSet(r)
          BY <3>1 DEF ToSet
        <4>2. r[i] \in ToSet(q)
          BY <4>1 DEF IsRest
        <4>3. PICK k \in DOMAIN q : q[k] = r[i]
          BY <4>2 DEF ToSet
        <4>4. /\ k \in 1..((Len(q) + 1) - 1) /\ qe[k] = q[k]
              /\ Len(q) + 1 \in DOMAIN qe
          BY <1>1, <1>4, <1>5
        <4>5. re[j] = qe[Len(q) + 1]
          BY <1>1, <1>2, <3>3
        <4> QED
          BY <3>1, <4>3, <4>4, <4>5
      <3> QED
        BY <1>4, <1>5, <3>2, <3>3
    <2> QED
      BY <2>1, <2>2 DEF IsRest
  <1> QED
    BY <1>7, <1>8 DEF qe, re

LEMMA WithoutIsRest ==
    ASSUME NEW E, NEW q \in Seq(E), NEW S
    PROVE  Without(q, S) \in Seq(E) /\ IsRest(Without(q, S), q, S)
  <1> DEFINE n == Len(q)
             base == <<>>
             step == [i \in 1..n |-> [r \in Seq(E) |->
                        IF q[i] \in S THEN r ELSE Append(r, q[i])]]
             kept[i \in 0..n] ==
                IF i = 0 THEN base
                ELSE IF q[i] \in S THEN kept[i - 1] ELSE Append(kept[i - 1], q[i])
  <1>1. n \in Nat /\ \A i \in 1..n : q[i] \in E
    BY LenProperties, ElementOfSeq
  <1>2. base \in Seq(E)
    BY EmptySeq
  <1>3. \A r \in Seq(E), i \in 1..n :
           step[i][r] = IF q[i] \in S THEN r ELSE Append(r, q[i])
    OBVIOUS
  <1>4. \A i \in 1..n : \A r \in Seq(E) : step[i][r] \in Seq(E)
    <2> HIDE DEF step, n
    <2>1. \A i \in 1..n : \A r \in Seq(E) : Append(r, q[i]) \in Seq(E)
      BY <1>1, AppendProperties
    <2> QED
      BY <1>3, <2>1
  <1>5. Without(q, S) = kept[n]
    BY DEF Without
  <1> HIDE DEF n, step, base
  <1>6. PICK f : IsRecursion(f, Seq(E), base, step, n)
    BY <1>1, <1>2, <1>4, RecursionExists
  <1>7. f = [i \in 0..n |-> IF i = 0 THEN base
                            ELSE IF q[i] \in S THEN f[i - 1] ELSE Append(f[i - 1], q[i])]
    <2>1. ASSUME NEW i \in 0..n, i # 0
          PROVE  step[i][f[i - 1]] =
                    IF q[i] \in S THEN f[i - 1] ELSE Append(f[i - 1], q[i])
      <3>1. i \in 1..n /\ i - 1 \in 0..n
        BY <1>1, <2>1
      <3>2. f[i - 1] \in Seq(E)
        BY <1>6, <3>1 DEF IsRecursion
      <3> QED
        BY <1>3, <3>1, <3>2
    <2> QED
      BY <1>6, <2>1 DEF IsRecursion
  <1>8. kept = [i \in 0..n |-> IF i = 0 THEN base
                    ELSE IF q[i] \in S THEN kept[i - 1] ELSE Append(kept[i - 1], q[i])]
    BY <1>7
  <1> HIDE DEF kept
  <1>9. kept[0] = base
    BY <1>1, <1>8
  <1>10. ASSUME NEW i \in 1..n
         PROVE  kept[i] = IF q[i] \in S THEN kept[i - 1] ELSE Append(kept[i - 1], q[i])
    <2>1. i \in 0..n /\ i # 0
      BY <1>1
    <2> QED
      BY <1>8, <2>1
  <1> DEFINE T == {k \in Nat : k <= n =>
                      kept[k] \in Seq(E) /\ IsRest(kept[k], SubSeq(q, 1, k), S)}
  <1>11. 0 \in T
    <2>1. SubSeq(q, 1, 0) = <<>>
      BY SubSeqEmpty
    <2> QED
      BY <1>2, <1>9, <2>1, RestOfNothing DEF base
  <1>12. ASSUME NEW k \in Nat, k \in T
         PROVE  k + 1 \in T
    <2> SUFFICES ASSUME k + 1 <= n
                 PROVE  /\ kept[k + 1] \in Seq(E)
                        /\ IsRest(kept[k + 1], SubSeq(q, 1, k + 1), S)
      OBVIOUS
    <2> DEFINE p == SubSeq(q, 1, k)
               e == q[k + 1]
    <2>1. k + 1 \in 1..n /\ (k + 1) - 1 = k /\ k <= n
      BY <1>1
    <2>2. p \in Seq(E) /\ e \in E /\ SubSeq(q, 1, k + 1) = Append(p, e)
      <3>1. /\ p \in Seq(E) /\ Len(p) = k
            /\ \A i \in 1..k : p[i] = q[i]
        BY <2>1, SubSeqProperties DEF n
      <3>2. e \in E
        BY <1>1, <2>1
      <3>3. /\ SubSeq(q, 1, k + 1) \in Seq(E) /\ Len(SubSeq(q, 1, k + 1)) = k + 1
            /\ \A i \in 1..(k + 1) : SubSeq(q, 1, k + 1)[i] = q[i]
        BY <2>1, SubSeqProperties DEF n
      <3> HIDE DEF p, e
      <3>4. /\ Append(p, e) \in Seq(E) /\ Len(Append(p, e)) = k + 1
            /\ \A i \in 1..k : Append(p, e)[i] = p[i]
            /\ Append(p, e)[k + 1] = e
        BY <3>1, <3>2, AppendProperties
      <3>5. \A i \in 1..(k + 1) : SubSeq(q, 1, k + 1)[i] = Append(p, e)[i]
        BY <3>1, <3>3, <3>4 DEF e
      <3> QED
        BY <3>1, <3>2, <3>3, <3>4, <3>5, SeqEqual
    <2>3. kept[k] \in Seq(E) /\ IsRest(kept[k], p, S)
      BY <1>12, <2>1
    <2>4. kept[k + 1] = IF e \in S THEN kept[k] ELSE Append(kept[k], e)
      BY <1>10, <2>1
    <2> HIDE DEF p, e
    <2>5. Append(kept[k], e) \in Seq(E)
      BY <2>2, <2>3, AppendProperties
    <2> QED
      BY <2>2, <2>3, <2>4, <2>5, RestOfAppend
  <1>13. n \in T
    <2> HIDE DEF T
    <2> QED
      BY <1>1, <1>11, <1>12, SetInduction
  <1>14. SubSeq(q, 1, n) = q
    BY SubSeqFull DEF n
  <1>15. kept[n] \in Seq(E) /\ IsRest(kept[n], SubSeq(q, 1, n), S)
    BY <1>1, <1>13
  <1> QED
    BY <1>5, <1>14, <1>15

-----------------------------------------------------------------------------
(* The inductive invariant. *)

ResponseTypes ==
    {"empty", "unparsable", "update", "huge", "echo", "applied", "failed"}

Responses == [number : Nat, type : ResponseTypes]

ResponseEvents ==
    [to : {"request"}, type : {"response"}, request : Nat, response : Responses,
     old : BOOLEAN]

Asks == [submit : BOOLEAN, open : {"none", "index", "wavelet", "undefined"}]

RequestEvents ==
    [to : {"connection"}, type : {"request"}, request : Nat, asks : Asks, old : BOOLEAN]

DeathNotices ==
    [to : {"connection"}, type : {"death"}, request : Nat, old : BOOLEAN]

Events == ResponseEvents \cup RequestEvents \cup DeathNotices \cup {DeferredDelete}

SubmitStates == {"none", "submitted", "late", "applied"}

Connections ==
    [alive : BOOLEAN, isDead : BOOLEAN, pendingRequest : Nat \cup {None},
     outQueue : Seq(Responses), sequenceNumber : Nat, submit : SubmitStates]

Browsers ==
    [open : SUBSET Nat, lastRequest : Nat, processed : Seq(Nat), outgoing : Int,
     submitPending : BOOLEAN, updateMissing : BOOLEAN, responseMissing : BOOLEAN,
     openWavelet : BOOLEAN, thrown : BOOLEAN]

PollTypeOK ==
    /\ browser \in Browsers
    /\ connection \in Connections
    /\ requests \subseteq Nat /\ aborted \subseteq requests
    /\ events \in Seq(Events)
    /\ up \subseteq [request : Nat, asks : Asks, old : BOOLEAN]
    /\ down \subseteq [request : Nat, old : BOOLEAN, response : Responses]

Happening == ToSet(events)
Underway == {m.request : m \in up}

\* What the server knows of.
Arrived ==
    requests \cup ({connection.pendingRequest} \ {None})
        \cup {e.request : e \in Happening \ {DeferredDelete}}

\* A request is sent once, and arrives once.
SentOnce ==
    /\ browser.open \subseteq 1..browser.lastRequest
    /\ Underway \subseteq 1..browser.lastRequest
    /\ Arrived \subseteq 1..browser.lastRequest
    /\ Underway \cap Arrived = {}
    /\ \A m, n \in up : m.request = n.request => m = n

Stopping == browser.thrown \/ \E m \in down : Throws(m.response)

\* A request is broken when its death is noticed, and the browser is told.
DeathsAreReal ==
    \A e \in Happening : e.type = "death" =>
        e.request \notin requests \ aborted /\ Stopping

IsCarried(r) ==
    \E e \in Happening : e.type \in {"request", "response"} /\ e.request = r

RequestsKept ==
    connection.alive =>
        \A r \in requests \ aborted : connection.pendingRequest = r \/ IsCarried(r)

\* The browser has an open request, and each is somewhere.
OpenIsSomewhere ==
    Stopping \/ /\ browser.open # {}
                /\ browser.open \subseteq Underway \cup (requests \ aborted)
                                             \cup {m.request : m \in down}

\* What is under way and carries the request r, as request or answer.
Carrying(r) ==
    {m \in up \cup down : m.request = r}
        \cup {e \in Happening : e.type \in {"request", "response"} /\ e.request = r}

\* Between the cleanup that suspects the session and the next, a request under
\* way since then comes in, or the answers under way since then bring one about.
SuspectIsSaved ==
    connection.alive /\ connection.isDead /\ connection.pendingRequest = None =>
        \/ Stopping
        \/ \E m \in up \cup {e \in Happening : e.type = "request"} : m.old
        \/ /\ \A m \in down \cup Posted : m.old
           /\ \A r \in browser.open : \E m \in Carrying(r) : m.old

DeletedIsStopping ==
    ~connection.alive \/ DeferredDelete \in Happening => Stopping

\* The numbered responses of an event queue have growing numbers.
Ordered(q) ==
    \A j \in DOMAIN q : \A i \in 1..(j - 1) :
        q[i].type = "response" /\ q[j].type = "response" /\ q[j].response.number # 0
            => q[i].response.number < q[j].response.number

QueueOrdered(q) ==
    \A j \in DOMAIN q : \A i \in 1..(j - 1) : q[i].number < q[j].number

\* What is queued is numbered behind what has been sent, and is only queued while
\* there is no request to send it on.
NumbersGrow ==
    /\ Ordered(events) /\ QueueOrdered(connection.outQueue)
    /\ \A n \in Sent, m \in Queued : n < m
    /\ Sent \cup Queued \subseteq 0..connection.sequenceNumber
    /\ connection.pendingRequest # None => connection.outQueue = <<>>

PollInv ==
    /\ PollTypeOK
    /\ SentOnce
    /\ DeathsAreReal
    /\ RequestsKept
    /\ OpenIsSomewhere
    /\ SuspectIsSaved
    /\ DeletedIsStopping
    /\ NumbersGrow

-----------------------------------------------------------------------------
(* The order of the numbers. *)

LEMMA OrderByParts ==
    ASSUME events \in Seq(Events), connection \in Connections
    PROVE  LeaveInOrder <=> /\ \A n \in Sent, m \in Queued : n < m
                            /\ Ordered(events)
                            /\ QueueOrdered(connection.outQueue)
  <1>1. DOMAIN events = 1..Len(events) /\ Len(events) \in Nat
    BY LenProperties
  <1>2. DOMAIN connection.outQueue = 1..Len(connection.outQueue)
            /\ Len(connection.outQueue) \in Nat
    BY LenProperties DEF Connections
  <1>3. \A i \in DOMAIN events : events[i] \in Posted <=> events[i].type = "response"
    BY DEF Posted, ToSet
  <1>4. (\A i, j \in DOMAIN events :
            i < j /\ {events[i], events[j]} \subseteq Posted
                  /\ events[j].response.number # 0
               => events[i].response.number < events[j].response.number)
          <=> Ordered(events)
    <2>1. \A j \in DOMAIN events : \A i : i \in DOMAIN events /\ i < j <=> i \in 1..(j - 1)
      BY <1>1
    <2> QED
      BY <1>3, <2>1 DEF Ordered
  <1>5. (\A i, j \in DOMAIN connection.outQueue :
            i < j => connection.outQueue[i].number < connection.outQueue[j].number)
          <=> QueueOrdered(connection.outQueue)
    <2>1. \A j \in DOMAIN connection.outQueue : \A i :
             i \in DOMAIN connection.outQueue /\ i < j <=> i \in 1..(j - 1)
      BY <1>2
    <2> QED
      BY <2>1 DEF QueueOrdered
  <1> QED
    BY <1>4, <1>5 DEF LeaveInOrder

LEMMA OrderedAppend ==
    ASSUME NEW q \in Seq(Events), Ordered(q), NEW e \in Events,
           e.type = "response" /\ e.response.number # 0 =>
              \A f \in ToSet(q) :
                 f.type = "response" => f.response.number < e.response.number
    PROVE  Ordered(Append(q, e))
  <1> DEFINE qe == Append(q, e)
  <1>1. /\ qe \in Seq(Events) /\ Len(qe) = Len(q) + 1
        /\ \A i \in 1..Len(q) : qe[i] = q[i]
        /\ qe[Len(q) + 1] = e
    BY AppendProperties
  <1>2. Len(q) \in Nat /\ DOMAIN q = 1..Len(q) /\ DOMAIN qe = 1..(Len(q) + 1)
    BY <1>1, LenProperties
  <1>3. \A i \in 1..Len(q) : q[i] \in ToSet(q)
    BY <1>2 DEF ToSet
  <1> HIDE DEF qe
  <1>4. ASSUME NEW j \in DOMAIN qe, NEW i \in 1..(j - 1), qe[i].type = "response",
               qe[j].type = "response", qe[j].response.number # 0
        PROVE  qe[i].response.number < qe[j].response.number
    <2>1. i \in 1..Len(q) /\ qe[i] = q[i]
      BY <1>1, <1>2
    <2>2. CASE j \in 1..Len(q)
      <3>1. j \in DOMAIN q /\ qe[j] = q[j]
        BY <1>1, <1>2, <2>2
      <3> QED
        BY <1>4, <2>1, <3>1 DEF Ordered
    <2>3. CASE j = Len(q) + 1
      <3>1. qe[j] = e
        BY <1>1, <2>3
      <3> QED
        BY <1>3, <1>4, <2>1, <3>1
    <2> QED
      BY <1>2, <2>2, <2>3
  <1> QED
    BY <1>4 DEF Ordered, qe

\* A response with the next number, at the end of the connection's queue.
LEMMA QueueAppend ==
    ASSUME NEW q \in Seq(Responses), QueueOrdered(q), NEW x \in Responses,
           \A i \in DOMAIN q : q[i].number < x.number
    PROVE  LET p == Append(q, x)
           IN  /\ QueueOrdered(p)
               /\ {p[i].number : i \in DOMAIN p} =
                     {q[i].number : i \in DOMAIN q} \cup {x.number}
  <1> DEFINE p == Append(q, x)
  <1>1. /\ p \in Seq(Responses) /\ Len(p) = Len(q) + 1
        /\ \A i \in 1..Len(q) : p[i] = q[i]
        /\ p[Len(q) + 1] = x
    BY AppendProperties
  <1>2. Len(q) \in Nat /\ DOMAIN q = 1..Len(q) /\ DOMAIN p = 1..(Len(q) + 1)
    BY <1>1, LenProperties
  <1> HIDE DEF p
  <1>3. QueueOrdered(p)
    BY <1>1, <1>2 DEF QueueOrdered
  <1>4. {p[i].number : i \in DOMAIN p} = {q[i].number : i \in DOMAIN q} \cup {x.number}
    BY <1>1, <1>2
  <1> QED
    BY <1>3, <1>4 DEF p

\* The front of the queue leaves it.
LEMMA QueueTail ==
    ASSUME NEW q \in Seq(Responses), QueueOrdered(q), q # <<>>
    PROVE  /\ QueueOrdered(Tail(q))
           /\ \E i \in DOMAIN q : Head(q) = q[i]
           /\ \A j \in DOMAIN Tail(q) :
                 Head(q).number < Tail(q)[j].number /\ \E i \in DOMAIN q : q[i] = Tail(q)[j]
  <1> DEFINE t == Tail(q)
  <1>1. /\ t \in Seq(Responses) /\ Len(t) = Len(q) - 1
        /\ \A i \in 1..Len(t) : t[i] = q[i + 1]
    BY HeadTailProperties
  <1>2. /\ Len(q) \in Nat \ {0} /\ DOMAIN q = 1..Len(q) /\ DOMAIN t = 1..(Len(q) - 1)
        /\ Head(q) = q[1]
    BY <1>1, LenProperties, EmptySeq
  <1> HIDE DEF t
  <1>3. ASSUME NEW j \in DOMAIN t
        PROVE  /\ j + 1 \in DOMAIN q /\ t[j] = q[j + 1] /\ 1 \in 1..((j + 1) - 1)
               /\ \A i \in 1..(j - 1) : i + 1 \in 1..((j + 1) - 1) /\ t[i] = q[i + 1]
    BY <1>1, <1>2
  <1> QED
    BY <1>2, <1>3 DEF QueueOrdered, t

LEMMA OrderedTail ==
    ASSUME NEW q \in Seq(Events), Ordered(q), q # <<>>
    PROVE  Ordered(Tail(q))
  <1> DEFINE t == Tail(q)
  <1>1. /\ t \in Seq(Events) /\ Len(t) = Len(q) - 1
        /\ \A i \in 1..Len(t) : t[i] = q[i + 1]
    BY HeadTailProperties
  <1>2. Len(q) \in Nat /\ DOMAIN q = 1..Len(q) /\ DOMAIN t = 1..(Len(q) - 1)
    BY <1>1, LenProperties
  <1> HIDE DEF t
  <1>3. ASSUME NEW j \in DOMAIN t, NEW i \in 1..(j - 1)
        PROVE  /\ j + 1 \in DOMAIN q /\ i + 1 \in 1..((j + 1) - 1)
               /\ t[j] = q[j + 1] /\ t[i] = q[i + 1]
    BY <1>1, <1>2
  <1> QED
    BY <1>3 DEF Ordered, t

LEMMA OrderedWithout ==
    ASSUME NEW q \in Seq(Events), Ordered(q), NEW S
    PROVE  /\ Without(q, S) \in Seq(Events)
           /\ ToSet(Without(q, S)) = ToSet(q) \ S
           /\ Ordered(Without(q, S))
  <1> DEFINE r == Without(q, S)
  <1>1. r \in Seq(Events) /\ IsRest(r, q, S)
    BY WithoutIsRest
  <1> HIDE DEF r
  <1>2. ASSUME NEW j \in DOMAIN r, NEW i \in 1..(j - 1)
        PROVE  \E l \in DOMAIN q : \E k \in 1..(l - 1) : r[i] = q[k] /\ r[j] = q[l]
    BY <1>1 DEF IsRest
  <1>3. Ordered(r)
    BY <1>2 DEF Ordered
  <1> QED
    BY <1>1, <1>3 DEF IsRest, r

-----------------------------------------------------------------------------
(* The methods of the connection. *)

LEMMA PostingResult ==
    ASSUME NEW r, NEW response
    PROVE  /\ r \in requests =>
                 PostedTo(r, response) = <<ResponseEvent(r, response)>>
           /\ r \notin requests => PostedTo(r, response) = <<>>
  BY DEF PostedTo

LEMMA PostingEffect ==
    ASSUME NEW q \in Seq(Events), Ordered(q), requests \subseteq Nat,
           NEW r, NEW response \in Responses,
           response.number # 0 =>
              \A f \in ToSet(q) :
                 f.type = "response" => f.response.number < response.number
    PROVE  LET p == q \o PostedTo(r, response)
           IN  /\ p \in Seq(Events) /\ Ordered(p)
               /\ ToSet(p) = ToSet(q) \cup
                     (IF r \in requests THEN {ResponseEvent(r, response)} ELSE {})
  <1> DEFINE e == ResponseEvent(r, response)
  <1>1. CASE r \in requests
    <2>1. e \in Events /\ e.type = "response" /\ e.response = response
      BY <1>1 DEF ResponseEvent, Events, ResponseEvents
    <2>5. PostedTo(r, response) = <<e>>
      BY <1>1, PostingResult
    <2> HIDE DEF e
    <2>2. q \o PostedTo(r, response) = Append(q, e)
      BY <2>1, <2>5, ConcatToSet
    <2>3. Append(q, e) \in Seq(Events) /\ Ordered(Append(q, e))
      BY <2>1, OrderedAppend, AppendProperties
    <2>4. ToSet(Append(q, e)) = ToSet(q) \cup {e}
      BY SequenceOfItsElements, AppendToSet
    <2> QED
      BY <1>1, <2>2, <2>3, <2>4 DEF e
  <1>2. CASE r \notin requests
    <2>1. q \o PostedTo(r, response) = q
      BY <1>2, PostingResult, ConcatEmptySeq
    <2> QED
      BY <1>2, <2>1
  <1> QED
    BY <1>1, <1>2

LEMMA ReplyResult ==
    ASSUME NEW con \in Connections, NEW type \in ResponseTypes
    PROVE  LET r == Reply(con, type)
               response == [number |-> con.sequenceNumber + 1, type |-> type]
           IN  /\ response \in Responses
               /\ r.con \in Connections
               /\ r.con.alive = con.alive /\ r.con.pendingRequest = None
               /\ r.con.sequenceNumber = con.sequenceNumber + 1
               /\ r.con.isDead => con.isDead /\ con.pendingRequest = None
               /\ con.pendingRequest \in requests =>
                     /\ r.post = PostedTo(con.pendingRequest, response)
                     /\ r.con.outQueue = con.outQueue
               /\ con.pendingRequest \notin requests =>
                     /\ r.post = <<>>
                     /\ r.con.outQueue = Append(con.outQueue, response)
  <1> DEFINE response == [number |-> con.sequenceNumber + 1, type |-> type]
             posted == PostedTo(con.pendingRequest, response)
             dead == con.isDead /\ con.pendingRequest = None
             n == con.sequenceNumber + 1
             numbered == [con EXCEPT !.sequenceNumber = n, !.isDead = dead,
                                     !.pendingRequest = None]
             queued == [numbered EXCEPT !.outQueue = Append(@, response)]
  <1>1. response \in Responses
    BY DEF Responses, Connections
  <1>9. dead \in BOOLEAN /\ n \in Nat
    BY DEF Connections
  <1>10. dead => con.isDead /\ con.pendingRequest = None
    OBVIOUS
  <1> HIDE DEF response, dead, n
  <1>2. /\ numbered \in Connections
        /\ numbered.alive = con.alive /\ numbered.pendingRequest = None
        /\ numbered.sequenceNumber = n
        /\ numbered.outQueue = con.outQueue
        /\ numbered.isDead = dead
    BY <1>9 DEF Connections
  <1>3. numbered.isDead => con.isDead /\ con.pendingRequest = None
    BY <1>2, <1>10
  <1>4. Append(con.outQueue, response) \in Seq(Responses)
    BY <1>1, AppendProperties DEF Connections
  <1> HIDE DEF numbered
  <1>5. /\ queued \in Connections
        /\ queued.alive = con.alive /\ queued.pendingRequest = None
        /\ queued.sequenceNumber = n
        /\ queued.outQueue = Append(con.outQueue, response)
        /\ queued.isDead = numbered.isDead
    BY <1>2, <1>4 DEF Connections
  <1> HIDE DEF queued
  <1>6. Reply(con, type) = IF posted # <<>> THEN [con |-> numbered, post |-> posted]
                           ELSE [con |-> queued, post |-> <<>>]
    BY DEF Reply, response, dead, n, numbered, queued
  <1>7. CASE con.pendingRequest \in requests
    <2>3. posted = <<ResponseEvent(con.pendingRequest, response)>>
      BY <1>7, PostingResult
    <2>1. posted # <<>>
      <3> HIDE DEF posted
      <3> QED
        BY <2>3
    <2>2. Reply(con, type) = [con |-> numbered, post |-> posted]
      BY <1>6, <2>1
    <2> QED
      BY <1>1, <1>2, <1>3, <1>7, <2>2 DEF response, n
  <1>8. CASE con.pendingRequest \notin requests
    <2>1. posted = <<>>
      BY <1>8, PostingResult
    <2>2. Reply(con, type) = [con |-> queued, post |-> <<>>]
      BY <1>6, <2>1
    <2> QED
      BY <1>1, <1>3, <1>5, <1>8, <2>2 DEF response, n
  <1> QED
    BY <1>7, <1>8

LEMMA EmptyReplyResult ==
    ASSUME NEW con \in Connections
    PROVE  LET r == EmptyReply(con)
           IN  /\ r.con = [con EXCEPT !.pendingRequest = None]
               /\ r.con \in Connections
               /\ r.con.alive = con.alive /\ r.con.isDead = con.isDead
               /\ r.con.pendingRequest = None
               /\ r.con.sequenceNumber = con.sequenceNumber
               /\ r.con.outQueue = con.outQueue
               /\ r.post = PostedTo(con.pendingRequest, EmptyResponse)
  BY DEF EmptyReply, Connections

LEMMA HandleRequestResult ==
    ASSUME NEW con \in Connections, NEW e \in RequestEvents
    PROVE  LET r == HandleRequest(con, e)
           IN  /\ r.con \in Connections
               /\ r.con.alive = con.alive /\ ~r.con.isDead
               /\ r.con.sequenceNumber = con.sequenceNumber
               /\ con.outQueue = <<>> =>
                     /\ r.con.pendingRequest = e.request
                     /\ r.con.outQueue = <<>>
                     /\ r.post = PostedTo(con.pendingRequest, EmptyResponse)
               /\ con.outQueue # <<>> =>
                     /\ r.con.pendingRequest = con.pendingRequest
                     /\ r.con.outQueue = Tail(con.outQueue)
                     /\ r.post = PostedTo(e.request, Head(con.outQueue))
  <1> DEFINE submit == IF e.asks.submit THEN "submitted" ELSE con.submit
             rest == Tail(con.outQueue)
             awake == [con EXCEPT !.isDead = FALSE, !.submit = submit]
             released == EmptyReply(awake)
  <1>6. submit \in SubmitStates
    BY DEF Connections, SubmitStates
  <1>1. /\ awake \in Connections
        /\ awake.alive = con.alive /\ ~awake.isDead
        /\ awake.submit = submit
        /\ awake.sequenceNumber = con.sequenceNumber
        /\ awake.outQueue = con.outQueue
        /\ awake.pendingRequest = con.pendingRequest
    <2> HIDE DEF submit
    <2> QED
      BY <1>6 DEF Connections
  <1>2. HandleRequest(con, e) =
            IF con.outQueue = <<>>
            THEN [con |-> [released.con EXCEPT !.pendingRequest = e.request],
                  post |-> released.post]
            ELSE [con |-> [awake EXCEPT !.outQueue = rest],
                  post |-> PostedTo(e.request, Head(con.outQueue))]
    BY DEF HandleRequest
  <1> HIDE DEF awake, rest
  <1>3. /\ released.con \in Connections
        /\ released.con.alive = con.alive /\ released.con.isDead = awake.isDead
        /\ released.con.sequenceNumber = con.sequenceNumber
        /\ released.con.outQueue = con.outQueue
        /\ released.post = PostedTo(con.pendingRequest, EmptyResponse)
    BY <1>1, EmptyReplyResult
  <1> HIDE DEF released
  <1>4. CASE con.outQueue = <<>>
    BY <1>1, <1>2, <1>3, <1>4 DEF Connections, RequestEvents
  <1>5. CASE con.outQueue # <<>>
    <2>1. rest \in Seq(Responses)
      BY <1>5, HeadTailProperties DEF Connections, rest
    <2> DEFINE next == [awake EXCEPT !.outQueue = rest]
    <2>2. /\ next \in Connections
          /\ next.alive = con.alive /\ ~next.isDead /\ next.outQueue = rest
          /\ next.sequenceNumber = con.sequenceNumber
          /\ next.pendingRequest = con.pendingRequest
      BY <1>1, <2>1 DEF Connections
    <2> HIDE DEF next
    <2>3. HandleRequest(con, e) =
             [con |-> next, post |-> PostedTo(e.request, Head(con.outQueue))]
      BY <1>2, <1>5 DEF next
    <2> QED
      BY <1>5, <2>2, <2>3 DEF rest
  <1> QED
    BY <1>4, <1>5

LEMMA CleanedUpResult ==
    ASSUME NEW con \in Connections
    PROVE  LET r == CleanedUp(con)
           IN  /\ r.con \in Connections
               /\ r.con.alive = con.alive /\ r.con.isDead
               /\ r.con.sequenceNumber = con.sequenceNumber
               /\ r.con.outQueue = con.outQueue
               /\ ~con.isDead =>
                     r.con.pendingRequest = con.pendingRequest /\ r.post = <<>>
               /\ con.isDead /\ con.pendingRequest # None =>
                     /\ r.con.pendingRequest = None
                     /\ r.post = PostedTo(con.pendingRequest, EmptyResponse)
               /\ con.isDead /\ con.pendingRequest = None =>
                     r.con.pendingRequest = None /\ r.post = <<DeferredDelete>>
  <1>1. CASE ~con.isDead
    BY <1>1 DEF CleanedUp, Connections
  <1>2. CASE con.isDead /\ con.pendingRequest # None
    BY <1>2, EmptyReplyResult DEF CleanedUp
  <1>3. CASE con.isDead /\ con.pendingRequest = None
    BY <1>3 DEF CleanedUp
  <1> QED
    BY <1>1, <1>2, <1>3

-----------------------------------------------------------------------------
(* The steps. *)

LEMMA ResponseFields ==
    ASSUME NEW r, NEW x
    PROVE  LET e == ResponseEvent(r, x)
           IN  /\ e.type = "response" /\ e.request = r /\ e.response = x
               /\ e # DeferredDelete
  BY DEF ResponseEvent, DeferredDelete

LEMMA HappeningTyped ==
    ASSUME PollTypeOK
    PROVE  /\ \A e \in Happening : e \in Events
           /\ \A e \in Posted : e \in ResponseEvents
           /\ \A e \in Happening : e.type = "request" => e \in RequestEvents
           /\ \A e \in Happening : e.type = "death" => e \in DeathNotices
           /\ \A e \in Happening : e.type = "delete" <=> e = DeferredDelete
           /\ \A e \in Happening : e # DeferredDelete => e.request \in Nat
  <1>1. \A e \in Happening : e \in Events
    BY DEF Happening, ToSet, PollTypeOK
  <1> QED
    BY <1>1 DEF Events, ResponseEvents, RequestEvents, DeathNotices, DeferredDelete,
                Posted, Happening

\* What has been sent is numbered 0, or up to the number of the connection.
LEMMA SentNumbers ==
    ASSUME PollInv
    PROVE  /\ \A e \in Happening : e.type = "response" =>
                 e.response.number \in 0..connection.sequenceNumber
           /\ \A m \in down : m.response.number \in 0..connection.sequenceNumber
  <1>1. connection.sequenceNumber \in Nat
    BY DEF PollInv, PollTypeOK, Connections
  <1>2. \A n \in Told(Posted) \cup Told(down) : n \in 0..connection.sequenceNumber
    BY DEF PollInv, NumbersGrow, Sent
  <1> QED
    BY <1>1, <1>2 DEF Told, Posted, Happening

LEMMA ReplyStep ==
    ASSUME PollInv, NEW con \in Connections, NEW type \in ResponseTypes,
           con.alive = connection.alive, con.isDead => connection.isDead,
           con.pendingRequest = connection.pendingRequest,
           con.outQueue = connection.outQueue,
           con.sequenceNumber = connection.sequenceNumber,
           Become(Reply(con, type), events),
           UNCHANGED <<browser, requests, aborted, up, down>>
    PROVE  PollInv'
  <1> DEFINE n == connection.sequenceNumber + 1
             response == [number |-> n, type |-> type]
             pending == connection.pendingRequest
             e == ResponseEvent(pending, response)
  <1>1. /\ response \in Responses
        /\ connection' \in Connections
        /\ connection'.alive = connection.alive /\ connection'.pendingRequest = None
        /\ connection'.sequenceNumber = n
        /\ connection'.isDead => connection.isDead /\ pending = None
        /\ pending \in requests => connection'.outQueue = connection.outQueue
        /\ pending \notin requests =>
              connection'.outQueue = Append(connection.outQueue, response)
        /\ events' = events \o PostedTo(pending, response)
    <2>1. pending \notin requests => PostedTo(pending, response) = <<>>
      BY PostingResult
    <2> DEFINE r == Reply(con, type)
    <2>2. /\ response \in Responses
          /\ r.con \in Connections
          /\ r.con.alive = con.alive /\ r.con.pendingRequest = None
          /\ r.con.sequenceNumber = n
          /\ r.con.isDead => con.isDead /\ pending = None
          /\ pending \in requests =>
                r.post = PostedTo(pending, response) /\ r.con.outQueue = con.outQueue
          /\ pending \notin requests =>
                r.post = <<>> /\ r.con.outQueue = Append(con.outQueue, response)
      BY ReplyResult
    <2>3. connection' = r.con /\ events' = events \o r.post
      BY DEF Become
    <2> HIDE DEF r, response, n
    <2> QED
      BY <2>1, <2>2, <2>3
  <1> HIDE DEF response
  <1>2. /\ PollTypeOK /\ requests \subseteq Nat /\ None \notin requests
        /\ n \in Nat /\ connection.outQueue \in Seq(Responses)
    <2>1. PollTypeOK /\ requests \subseteq Nat /\ connection \in Connections
      BY DEF PollInv, PollTypeOK
    <2>2. None \notin requests
      BY <2>1, PollAssumption
    <2>3. connection.sequenceNumber \in Nat /\ connection.outQueue \in Seq(Responses)
      BY <2>1 DEF Connections
    <2> QED
      BY <2>1, <2>2, <2>3
  <1>14. \A k \in 0..connection.sequenceNumber : k \in Nat /\ k < n /\ k \in 0..n
    BY <1>2 DEF PollInv, PollTypeOK, Connections
  <1> HIDE DEF n
  <1>3. response.number = n
    BY DEF response
  <1>4. /\ events' \in Seq(Events) /\ Ordered(events')
        /\ Happening' = Happening \cup (IF pending \in requests THEN {e} ELSE {})
    <2>1. \A f \in ToSet(events) :
              f.type = "response" => f.response.number < response.number
      BY <1>3, <1>14, SentNumbers DEF Happening
    <2>2. events \in Seq(Events) /\ Ordered(events)
      BY DEF PollInv, PollTypeOK, NumbersGrow
    <2> QED
      BY <1>1, <1>2, <2>1, <2>2, PostingEffect DEF Happening
  <1>5. pending \in requests =>
            /\ e.type = "response" /\ e.request = pending /\ e.response = response
            /\ e # DeferredDelete
    BY ResponseFields
  <1> HIDE DEF e
  <1>6. PollTypeOK'
    BY <1>1, <1>2, <1>4 DEF PollTypeOK
  <1>7. SentOnce'
    <2>1. Arrived' \subseteq Arrived
      <3>1. pending \in requests => pending \in Arrived
        BY DEF Arrived
      <3>2. {f.request : f \in Happening' \ {DeferredDelete}} \subseteq Arrived
        BY <1>4, <1>5, <3>1 DEF Arrived
      <3> QED
        BY <1>1, <3>2 DEF Arrived
    <2> QED
      BY <2>1 DEF PollInv, SentOnce, Underway
  <1>8. DeathsAreReal' /\ Stopping' = Stopping
    BY <1>4, <1>5 DEF PollInv, DeathsAreReal, Stopping
  <1>9. RequestsKept'
    BY <1>1, <1>4, <1>5 DEF PollInv, RequestsKept, IsCarried
  <1>10. OpenIsSomewhere'
    BY <1>8 DEF PollInv, OpenIsSomewhere, Underway
  <1>11. SuspectIsSaved'
    <2> SUFFICES ASSUME connection'.alive, connection'.isDead, ~Stopping
                 PROVE  SuspectIsSaved'
      BY <1>8 DEF SuspectIsSaved
    <2>1. pending = None /\ connection.isDead /\ connection.alive
      BY <1>1
    <2>2. Happening' = Happening
      BY <1>2, <1>4, <2>1
    <2>3. Posted' = Posted
      BY <2>2 DEF Posted, Happening
    <2> QED
      BY <2>1, <2>2, <2>3 DEF PollInv, SuspectIsSaved, Carrying
  <1>12. DeletedIsStopping'
    BY <1>1, <1>4, <1>5, <1>8 DEF PollInv, DeletedIsStopping
  <1>13. NumbersGrow'
    <2>1. Sent' \subseteq Sent \cup (IF pending \in requests THEN {n} ELSE {})
      BY <1>3, <1>4, <1>5 DEF Sent, Told, Posted, Happening
    <2>2. /\ Sent \cup Queued \subseteq 0..connection.sequenceNumber
          /\ \A m \in Sent, k \in Queued : m < k
          /\ QueueOrdered(connection.outQueue)
          /\ connection.pendingRequest # None => connection.outQueue = <<>>
      BY DEF PollInv, NumbersGrow
    <2>3. CASE pending \in requests
      <3>1. connection.outQueue = <<>> /\ connection'.outQueue = <<>>
        BY <1>1, <1>2, <2>2, <2>3
      <3>2. Queued' = {}
        BY <3>1 DEF Queued
      <3>3. QueueOrdered(connection'.outQueue)
        BY <3>1 DEF QueueOrdered
      <3> QED
        BY <1>1, <1>2, <1>4, <1>14, <2>1, <2>2, <2>3, <3>1, <3>2, <3>3 DEF NumbersGrow
    <2>4. CASE pending \notin requests
      <3>1. connection'.outQueue = Append(connection.outQueue, response)
        BY <1>1, <2>4
      <3>2. \A m \in Queued : m < n
        BY <1>14, <2>2
      <3> DEFINE q == connection.outQueue
                 p == Append(q, response)
      <3>4. \A i \in DOMAIN q : q[i].number < response.number
        BY <1>3, <3>2 DEF Queued
      <3>5. QueueOrdered(p) /\ {p[i].number : i \in DOMAIN p} =
               {q[i].number : i \in DOMAIN q} \cup {response.number}
        <4> HIDE DEF q
        <4> QED
          BY <1>1, <1>2, <2>2, <3>4, QueueAppend DEF q
      <3>3. QueueOrdered(connection'.outQueue) /\ Queued' = Queued \cup {n}
        BY <1>3, <3>1, <3>5 DEF Queued
      <3> QED
        BY <1>1, <1>2, <1>4, <1>14, <2>1, <2>2, <2>4, <3>3 DEF NumbersGrow
    <2> QED
      BY <2>3, <2>4
  <1> QED
    BY <1>6, <1>7, <1>8, <1>9, <1>10, <1>11, <1>12, <1>13 DEF PollInv

LEMMA HeadEvent ==
    ASSUME PollInv, events # <<>>
    PROVE  /\ Tail(events) \in Seq(Events) /\ Ordered(Tail(events))
           /\ Happening = {Head(events)} \cup ToSet(Tail(events))
  <1>1. events \in Seq(Events) /\ Ordered(events)
    BY DEF PollInv, PollTypeOK, NumbersGrow
  <1>2. Tail(events) \in Seq(Events) /\ Ordered(Tail(events))
    BY <1>1, OrderedTail, HeadTailProperties
  <1>3. IsSequence(events)
    BY <1>1, SequenceOfItsElements
  <1>4. Head(events) \in Happening /\ ToSet(Tail(events)) \subseteq Happening
    BY <1>3, TailToSet DEF Happening
  <1>5. \A i \in DOMAIN events : events[i] \in {Head(events)} \cup ToSet(Tail(events))
    <2> DEFINE t == Tail(events)
    <2>1. /\ Len(t) = Len(events) - 1
          /\ \A i \in 1..Len(t) : t[i] = events[i + 1]
          /\ t \in Seq(Events)
      BY <1>1, HeadTailProperties
    <2>2. /\ Len(events) \in Nat \ {0} /\ DOMAIN events = 1..Len(events)
          /\ DOMAIN t = 1..(Len(events) - 1) /\ Head(events) = events[1]
      BY <1>1, <2>1, LenProperties, EmptySeq
    <2> HIDE DEF t
    <2>3. ASSUME NEW i \in DOMAIN events, i # 1
          PROVE  i - 1 \in DOMAIN t /\ t[i - 1] = events[i]
      BY <2>1, <2>2, <2>3
    <2> QED
      BY <2>2, <2>3 DEF ToSet, t
  <1> QED
    BY <1>2, <1>4, <1>5 DEF Happening, ToSet

\* The facts about the state that the proofs below keep using.
LEMMA PollFacts ==
    ASSUME PollInv
    PROVE  /\ PollTypeOK /\ requests \subseteq Nat /\ None \notin requests
           /\ connection \in Connections
           /\ connection.outQueue \in Seq(Responses)
           /\ connection.sequenceNumber \in Nat
  <1>1. PollTypeOK /\ requests \subseteq Nat /\ connection \in Connections
    BY DEF PollInv, PollTypeOK
  <1>2. None \notin requests
    BY <1>1, PollAssumption
  <1>3. connection.sequenceNumber \in Nat /\ connection.outQueue \in Seq(Responses)
    BY <1>1 DEF Connections
  <1> QED
    BY <1>1, <1>2, <1>3

LEMMA EmptyResponseFields ==
    EmptyResponse \in Responses /\ EmptyResponse.number = 0
  BY DEF EmptyResponse, Responses, ResponseTypes

\* A response to the request t takes the place of the event that the connection
\* has handled.
LEMMA HandlingStep ==
    ASSUME PollInv, events # <<>>, Head(events).type = "request",
           NEW t, NEW x \in Responses,
           events' = Tail(events) \o PostedTo(t, x),
           x.number # 0 => \A n \in Sent : n < x.number,
           connection' \in Connections,
           connection'.alive = connection.alive, ~connection'.isDead,
           t \in {connection.pendingRequest, Head(events).request},
           connection'.pendingRequest \in
               {connection.pendingRequest, Head(events).request, None},
           \A r \in requests :
               /\ connection.pendingRequest = r => r \in {connection'.pendingRequest, t}
               /\ Head(events).request = r => r \in {connection'.pendingRequest, t},
           UNCHANGED <<browser, requests, aborted, up, down>>
    PROVE  /\ PollTypeOK' /\ SentOnce' /\ DeathsAreReal' /\ RequestsKept'
           /\ OpenIsSomewhere' /\ SuspectIsSaved' /\ DeletedIsStopping'
           /\ Ordered(events')
           /\ Sent' \subseteq Sent \cup ({x.number} \ {0})
  <1> DEFINE rest == ToSet(Tail(events))
             h == Head(events)
             e == ResponseEvent(t, x)
             pending == connection.pendingRequest
  <1>1. /\ Tail(events) \in Seq(Events) /\ Ordered(Tail(events))
        /\ Happening = {h} \cup rest /\ requests \subseteq Nat /\ PollTypeOK
    BY HeadEvent, PollFacts
  <1>2. h \in Events /\ h.type = "request" /\ h # DeferredDelete
    BY <1>1, HappeningTyped DEF DeferredDelete
  <1>3. /\ events' \in Seq(Events) /\ Ordered(events')
        /\ Happening' = rest \cup (IF t \in requests THEN {e} ELSE {})
    <2>1. ASSUME x.number # 0, NEW f \in rest, f.type = "response"
          PROVE  f.response.number < x.number
      <3>1. f \in Posted
        BY <1>1, <2>1 DEF Posted, Happening
      <3>2. f.response.number = 0 \/ f.response.number \in Sent
        BY <3>1 DEF Sent, Told
      <3> QED
        BY <2>1, <3>2 DEF Responses
    <2> QED
      BY <1>1, <2>1, PostingEffect DEF Happening
  <1>4. /\ e.type = "response" /\ e.request = t /\ e.response = x
        /\ e # DeferredDelete
    BY ResponseFields
  <1> HIDE DEF e, rest, h
  <1>5. PollTypeOK'
    BY <1>1, <1>3 DEF PollTypeOK
  <1>6. SentOnce'
    <2>1. h.request \in Arrived
      BY <1>1, <1>2 DEF Arrived
    <2>2. pending # None => pending \in Arrived
      BY DEF Arrived
    <2>3. t \in requests => t \in Arrived
      BY DEF Arrived
    <2>4. {f.request : f \in Happening' \ {DeferredDelete}} \subseteq Arrived
      BY <1>1, <1>3, <1>4, <2>3 DEF Arrived
    <2>5. Arrived' \subseteq Arrived
      BY <2>1, <2>2, <2>4 DEF Arrived, h
    <2> QED
      BY <2>5 DEF PollInv, SentOnce, Underway
  <1>7. DeathsAreReal' /\ Stopping' = Stopping
    BY <1>1, <1>3, <1>4 DEF PollInv, DeathsAreReal, Stopping
  <1>8. RequestsKept'
    <2> SUFFICES ASSUME connection.alive, NEW r \in requests \ aborted
                 PROVE  (connection.pendingRequest = r \/ IsCarried(r))'
      BY DEF RequestsKept
    <2>1. CASE pending = r \/ h.request = r
      BY <1>3, <1>4, <2>1 DEF IsCarried, h
    <2>2. CASE ~(pending = r \/ h.request = r)
      <3>1. PICK f \in Happening : f.type \in {"request", "response"} /\ f.request = r
        BY <2>2 DEF PollInv, RequestsKept, IsCarried
      <3>2. f \in Happening'
        BY <1>1, <1>3, <2>2, <3>1
      <3> QED
        BY <3>1, <3>2 DEF IsCarried
    <2> QED
      BY <2>1, <2>2
  <1>9. OpenIsSomewhere'
    BY <1>7 DEF PollInv, OpenIsSomewhere, Underway
  <1>10. SuspectIsSaved'
    BY DEF SuspectIsSaved
  <1>11. DeletedIsStopping'
    BY <1>1, <1>3, <1>4, <1>7 DEF PollInv, DeletedIsStopping
  <1>12. Sent' \subseteq Sent \cup ({x.number} \ {0})
    BY <1>1, <1>3, <1>4 DEF Sent, Told, Posted, Happening
  <1> QED
    BY <1>3, <1>5, <1>6, <1>7, <1>8, <1>9, <1>10, <1>11, <1>12

LEMMA RequestHandled ==
    ASSUME PollInv, ConnectionHandles, Head(events).type = "request"
    PROVE  PollInv'
  <1> DEFINE h == Head(events)
             q == connection.outQueue
             x == Head(connection.outQueue)
             pending == connection.pendingRequest
             r == HandleRequest(connection, h)
  <1>1. /\ events # <<>> /\ connection' = r.con /\ events' = Tail(events) \o r.post
        /\ UNCHANGED <<browser, requests, aborted, up, down>>
    BY DEF ConnectionHandles, Become
  <1>2. h \in RequestEvents
    BY <1>1, HeadEvent, PollFacts, HappeningTyped
  <1>3. /\ r.con \in Connections
        /\ r.con.alive = connection.alive /\ ~r.con.isDead
        /\ r.con.sequenceNumber = connection.sequenceNumber
        /\ q = <<>> =>
              /\ r.con.pendingRequest = h.request
              /\ r.con.outQueue = <<>>
              /\ r.post = PostedTo(pending, EmptyResponse)
        /\ q # <<>> =>
              /\ r.con.pendingRequest = pending
              /\ r.con.outQueue = Tail(q)
              /\ r.post = PostedTo(h.request, x)
    BY <1>2, PollFacts, HandleRequestResult
  <1> HIDE DEF r, h
  <1>4. /\ Sent \cup Queued \subseteq 0..connection.sequenceNumber
        /\ \A n \in Sent, m \in Queued : n < m
        /\ QueueOrdered(q) /\ (pending # None => q = <<>>)
        /\ q \in Seq(Responses)
    BY PollFacts DEF PollInv, NumbersGrow
  <1>5. CASE q = <<>>
    <2>1. /\ PollTypeOK' /\ SentOnce' /\ DeathsAreReal' /\ RequestsKept'
          /\ OpenIsSomewhere' /\ SuspectIsSaved' /\ DeletedIsStopping'
          /\ Ordered(events')
          /\ Sent' \subseteq Sent \cup ({EmptyResponse.number} \ {0})
      BY <1>1, <1>3, <1>5, EmptyResponseFields, HandlingStep DEF h
    <2>2. Queued' = {} /\ QueueOrdered(connection'.outQueue)
      BY <1>1, <1>3, <1>5 DEF Queued, QueueOrdered
    <2>3. NumbersGrow'
      BY <1>1, <1>3, <1>4, <1>5, <2>1, <2>2, EmptyResponseFields DEF NumbersGrow
    <2> QED
      BY <2>1, <2>3 DEF PollInv
  <1>6. CASE q # <<>>
    <2>1. /\ x \in Responses /\ x.number \in Queued /\ QueueOrdered(Tail(q))
          /\ \A j \in DOMAIN Tail(q) :
                x.number < Tail(q)[j].number /\ Tail(q)[j].number \in Queued
      <3>1. /\ QueueOrdered(Tail(q))
            /\ \E i \in DOMAIN q : x = q[i]
            /\ \A j \in DOMAIN Tail(q) :
                  x.number < Tail(q)[j].number /\ \E i \in DOMAIN q : q[i] = Tail(q)[j]
        BY <1>4, <1>6, QueueTail
      <3>2. x \in Responses
        BY <1>4, <1>6, HeadTailProperties
      <3> QED
        BY <3>1, <3>2 DEF Queued
    <2> HIDE DEF x
    <2>2. \A n \in Sent : n < x.number
      BY <1>4, <2>1
    <2>3. pending = None /\ None \notin requests
      BY <1>4, <1>6, PollFacts
    <2>4. /\ PollTypeOK' /\ SentOnce' /\ DeathsAreReal' /\ RequestsKept'
          /\ OpenIsSomewhere' /\ SuspectIsSaved' /\ DeletedIsStopping'
          /\ Ordered(events')
          /\ Sent' \subseteq Sent \cup ({x.number} \ {0})
      BY <1>1, <1>3, <1>6, <2>1, <2>2, <2>3, HandlingStep DEF h
    <2>5. \A m \in Queued' : m \in Queued /\ x.number < m
      BY <1>1, <1>3, <1>6, <2>1 DEF Queued
    <2>6. NumbersGrow'
      BY <1>1, <1>3, <1>4, <1>6, <2>1, <2>3, <2>4, <2>5 DEF NumbersGrow
    <2> QED
      BY <2>4, <2>6 DEF PollInv
  <1> QED
    BY <1>5, <1>6

LEMMA DeathHandled ==
    ASSUME PollInv, ConnectionHandles, Head(events).type = "death"
    PROVE  PollInv'
  <1> DEFINE h == Head(events)
             rest == ToSet(Tail(events))
             pending == connection.pendingRequest
  <1>1. /\ events # <<>> /\ connection' = HandleDeath(connection, h)
        /\ events' = Tail(events)
        /\ UNCHANGED <<browser, requests, aborted, up, down>>
    BY DEF ConnectionHandles
  <1>2. /\ Tail(events) \in Seq(Events) /\ Ordered(Tail(events))
        /\ Happening = {h} \cup rest /\ Happening' = rest
        /\ PollTypeOK /\ connection \in Connections
    BY <1>1, HeadEvent, PollFacts DEF Happening
  <1>3. /\ connection' \in Connections
        /\ connection'.alive = connection.alive
        /\ connection'.isDead = connection.isDead
        /\ connection'.sequenceNumber = connection.sequenceNumber
        /\ connection'.outQueue = connection.outQueue
        /\ connection'.pendingRequest =
              IF h.request = pending THEN None ELSE pending
    <2> HIDE DEF h
    <2> QED
      BY <1>1, <1>2 DEF HandleDeath, Connections
  <1>4. h.request \notin requests \ aborted /\ Stopping
    BY <1>2 DEF PollInv, DeathsAreReal
  <1> HIDE DEF h, rest
  <1>5. Stopping'
    BY <1>1, <1>4 DEF Stopping
  <1>6. PollTypeOK'
    BY <1>1, <1>2, <1>3 DEF PollTypeOK
  <1>7. SentOnce'
    <2>1. Arrived' \subseteq Arrived
      BY <1>1, <1>2, <1>3 DEF Arrived
    <2> QED
      BY <1>1, <2>1 DEF PollInv, SentOnce, Underway
  <1>8. DeathsAreReal'
    BY <1>1, <1>2, <1>5 DEF PollInv, DeathsAreReal
  <1>9. RequestsKept'
    BY <1>1, <1>2, <1>3, <1>4 DEF PollInv, RequestsKept, IsCarried, h
  <1>10. OpenIsSomewhere' /\ SuspectIsSaved' /\ DeletedIsStopping'
    BY <1>5 DEF OpenIsSomewhere, SuspectIsSaved, DeletedIsStopping
  <1>11. NumbersGrow'
    <2>1. Sent' \subseteq Sent /\ Queued' = Queued
      BY <1>1, <1>2, <1>3 DEF Sent, Told, Posted, Happening, Queued
    <2> QED
      BY <1>1, <1>2, <1>3, <2>1 DEF PollInv, NumbersGrow
  <1> QED
    BY <1>6, <1>7, <1>8, <1>9, <1>10, <1>11 DEF PollInv

LEMMA DeletionStep ==
    ASSUME PollInv, ConnectionDeleted
    PROVE  PollInv'
  <1> DEFINE S == {e \in ToSet(events) : e.to = "connection"}
  <1>1. /\ events # <<>> /\ Head(events).type = "delete"
        /\ connection' = [connection EXCEPT !.alive = FALSE, !.submit = "none",
                                        !.outQueue = <<>>, !.pendingRequest = None]
        /\ events' = Without(events, S)
        /\ UNCHANGED <<browser, requests, aborted, up, down>>
    BY DEF ConnectionDeleted
  <1>2. /\ events' \in Seq(Events) /\ Ordered(events') /\ Happening' \subseteq Happening
    <2> HIDE DEF S
    <2>1. events \in Seq(Events) /\ Ordered(events)
      BY DEF PollInv, PollTypeOK, NumbersGrow
    <2> QED
      BY <1>1, <2>1, OrderedWithout DEF Happening
  <1>3. /\ connection' \in Connections /\ ~connection'.alive
        /\ connection'.pendingRequest = None /\ connection'.outQueue = <<>>
        /\ connection'.sequenceNumber = connection.sequenceNumber
    <2>1. connection \in Connections /\ <<>> \in Seq(Responses)
      BY PollFacts, EmptySeq
    <2> QED
      BY <1>1, <2>1 DEF Connections, SubmitStates
  <1>4. Stopping
    <2>1. Head(events) \in Happening
      BY <1>1, HeadEvent
    <2>2. Head(events) = DeferredDelete
      BY <1>1, <2>1, PollFacts, HappeningTyped
    <2> QED
      BY <2>1, <2>2 DEF PollInv, DeletedIsStopping
  <1>5. Stopping'
    BY <1>1, <1>4 DEF Stopping
  <1>6. PollTypeOK'
    BY <1>1, <1>2, <1>3, PollFacts DEF PollTypeOK
  <1>7. SentOnce'
    <2>1. Arrived' \subseteq Arrived
      BY <1>1, <1>2, <1>3 DEF Arrived
    <2> QED
      BY <1>1, <2>1 DEF PollInv, SentOnce, Underway
  <1>8. DeathsAreReal'
    BY <1>1, <1>2, <1>5 DEF PollInv, DeathsAreReal
  <1>9. RequestsKept'
    BY <1>3 DEF RequestsKept
  <1>10. OpenIsSomewhere' /\ SuspectIsSaved' /\ DeletedIsStopping'
    BY <1>5 DEF OpenIsSomewhere, SuspectIsSaved, DeletedIsStopping
  <1>11. NumbersGrow'
    <2>1. Sent' \subseteq Sent /\ Queued' = {} /\ QueueOrdered(connection'.outQueue)
      BY <1>1, <1>2, <1>3 DEF Sent, Told, Posted, Happening, Queued, QueueOrdered
    <2> QED
      BY <1>1, <1>2, <1>3, <2>1 DEF PollInv, NumbersGrow
  <1> QED
    BY <1>6, <1>7, <1>8, <1>9, <1>10, <1>11 DEF PollInv

LEMMA RequestRepliesStep ==
    ASSUME PollInv, RequestReplies
    PROVE  PollInv'
  <1> DEFINE e == Head(events)
             r == Head(events).request
             rest == ToSet(Tail(events))
             response == Written(Head(events).response)
             answer == [request |-> r, old |-> e.old, response |-> response]
  <1>1. /\ events # <<>> /\ e.type = "response" /\ events' = Tail(events)
        /\ requests' = requests \ {r} /\ aborted' = aborted \ {r}
        /\ down' = IF r \in aborted THEN down ELSE down \cup {answer}
        /\ UNCHANGED <<browser, connection, up>>
    BY DEF RequestReplies, EndRequest
  <1>2. /\ Tail(events) \in Seq(Events) /\ Ordered(Tail(events))
        /\ Happening = {e} \cup rest /\ Happening' = rest
        /\ PollTypeOK /\ connection \in Connections
    BY <1>1, HeadEvent, PollFacts DEF Happening
  <1>3. e \in Posted /\ e \in ResponseEvents
    BY <1>1, <1>2, HappeningTyped DEF Posted, Happening
  <1>4. /\ response \in Responses
        /\ response.number = 0 \/ response.number = e.response.number
    BY <1>3 DEF Written, Unparsable, Responses, ResponseEvents, ResponseTypes
  <1>5. /\ answer.request = r /\ answer.old = e.old /\ answer.response = response
        /\ answer \in [request : Nat, old : BOOLEAN, response : Responses]
    <2> HIDE DEF response
    <2> QED
      BY <1>3, <1>4 DEF ResponseEvents
  <1> HIDE DEF e, rest, response, answer
  <1>6. Stopping => Stopping'
    BY <1>1 DEF Stopping
  <1>7. PollTypeOK'
    BY <1>1, <1>2, <1>5 DEF PollTypeOK
  <1>8. SentOnce'
    <2>1. Arrived' \subseteq Arrived
      BY <1>1, <1>2 DEF Arrived
    <2> QED
      BY <1>1, <2>1 DEF PollInv, SentOnce, Underway
  <1>9. DeathsAreReal'
    BY <1>1, <1>2, <1>6 DEF PollInv, DeathsAreReal
  <1>10. RequestsKept'
    <2> SUFFICES ASSUME connection.alive, NEW s \in requests' \ aborted',
                        connection.pendingRequest # s
                 PROVE  IsCarried(s)'
      BY <1>1 DEF RequestsKept
    <2>1. s \in requests \ aborted /\ s # r
      BY <1>1
    <2>2. PICK f \in Happening : f.type \in {"request", "response"} /\ f.request = s
      BY <2>1 DEF PollInv, RequestsKept, IsCarried
    <2>3. f \in Happening'
      BY <1>2, <2>1, <2>2 DEF e
    <2> QED
      BY <2>2, <2>3 DEF IsCarried
  <1>11. OpenIsSomewhere'
    BY <1>1, <1>5, <1>6 DEF PollInv, OpenIsSomewhere, Underway
  <1>12. SuspectIsSaved'
    <2> SUFFICES ASSUME connection.alive, connection.isDead,
                        connection.pendingRequest = None, ~Stopping'
                 PROVE  \/ \E m \in up \cup {f \in Happening' : f.type = "request"} : m.old
                        \/ /\ \A m \in down' \cup Posted' : m.old
                           /\ \A s \in browser.open : \E m \in Carrying(s)' : m.old
      BY <1>1 DEF SuspectIsSaved
    <2>1. ~Stopping
      BY <1>6
    <2>2. CASE \E m \in up \cup {f \in Happening : f.type = "request"} : m.old
      BY <1>1, <1>2, <2>2
    <2>3. CASE ~ \E m \in up \cup {f \in Happening : f.type = "request"} : m.old
      <3>1. /\ \A m \in down \cup Posted : m.old
            /\ \A s \in browser.open : \E m \in Carrying(s) : m.old
        BY <2>1, <2>3 DEF PollInv, SuspectIsSaved
      <3>2. answer.old
        BY <1>3, <1>5, <3>1
      <3>3. \A m \in down' \cup Posted' : m.old
        BY <1>1, <1>2, <3>1, <3>2 DEF Posted, Happening
      <3>4. ASSUME NEW s \in browser.open
            PROVE  \E m \in Carrying(s)' : m.old
        <4>1. PICK m \in Carrying(s) : m.old
          BY <3>1
        <4>2. CASE m # e
          <5>1. m \in Carrying(s)'
            BY <1>1, <1>2, <4>1, <4>2 DEF Carrying
          <5> QED
            BY <4>1, <5>1
        <4>3. CASE s = r /\ r \notin aborted
          <5>1. answer \in Carrying(s)'
            BY <1>1, <1>5, <4>3 DEF Carrying
          <5> QED
            BY <3>2, <5>1
        <4>4. CASE s = r /\ r \in aborted
          <5>1. r \notin Underway
            <6>1. r \in requests
              BY <1>2, <4>4 DEF PollTypeOK
            <6> QED
              BY <6>1 DEF PollInv, SentOnce, Arrived
          <5>2. PICK n \in down : n.request = s
            BY <2>1, <4>4, <5>1 DEF PollInv, OpenIsSomewhere
          <5>3. n \in Carrying(s)' /\ n.old
            BY <1>1, <3>1, <5>2 DEF Carrying
          <5> QED
            BY <5>3
        <4>5. m = e /\ s # r => FALSE
          <5>1. ASSUME m = e
                PROVE  s = r
            <6>1. m.request = s
              BY <4>1 DEF Carrying
            <6> QED
              BY <5>1, <6>1 DEF e
          <5> QED
            BY <5>1
        <4> QED
          BY <4>2, <4>3, <4>4, <4>5
      <3> QED
        BY <3>3, <3>4
    <2> QED
      BY <2>2, <2>3
  <1>13. DeletedIsStopping'
    BY <1>1, <1>2, <1>6 DEF PollInv, DeletedIsStopping
  <1>14. NumbersGrow'
    <2>1. Queued' = Queued
      BY <1>1 DEF Queued
    <2>2. Sent' \subseteq Sent
      BY <1>1, <1>2, <1>3, <1>4, <1>5 DEF Sent, Told, Posted, Happening
    <2> QED
      BY <1>1, <1>2, <2>1, <2>2 DEF PollInv, NumbersGrow
  <1> QED
    BY <1>7, <1>8, <1>9, <1>10, <1>11, <1>12, <1>13, <1>14 DEF PollInv

LEMMA RequestArrivesStep ==
    ASSUME PollInv, RequestArrives
    PROVE  PollInv'
  <1>1. PICK m \in up :
          /\ up' = up \ {m}
          /\ IF connection.alive
             THEN /\ requests' = requests \cup {m.request}
                  /\ events' = Append(events, RequestEvent(m.request, m.asks, m.old))
                  /\ UNCHANGED down
             ELSE /\ down' = down \cup {[request |-> m.request, old |-> m.old,
                                         response |-> Unparsable]}
                  /\ UNCHANGED <<requests, events>>
    BY DEF RequestArrives
  <1>2. UNCHANGED <<browser, connection, aborted>>
    BY DEF RequestArrives
  <1> DEFINE r == m.request
             e == RequestEvent(m.request, m.asks, m.old)
             answer == [request |-> m.request, old |-> m.old, response |-> Unparsable]
  <1>3. /\ PollTypeOK /\ events \in Seq(Events) /\ Ordered(events) /\ requests \subseteq Nat
        /\ m \in [request : Nat, asks : Asks, old : BOOLEAN]
        /\ aborted \subseteq requests
    BY PollFacts DEF PollInv, PollTypeOK, NumbersGrow
  <1>4. r \in Nat /\ r \in Underway /\ r \notin Arrived /\ r \in 1..browser.lastRequest
    BY <1>3 DEF PollInv, SentOnce, Underway
  <1>5. /\ e \in Events /\ e.type = "request" /\ e.request = r /\ e.old = m.old
        /\ e # DeferredDelete
    BY <1>3 DEF RequestEvent, Events, RequestEvents, DeferredDelete
  <1>6. /\ answer \in [request : Nat, old : BOOLEAN, response : Responses]
        /\ answer.response.number = 0 /\ answer.request = r
    BY <1>3 DEF Unparsable, Responses, ResponseTypes
  <1> HIDE DEF e, answer
  <1>7. /\ events' \in Seq(Events) /\ Ordered(events')
        /\ Happening' = Happening \cup (IF connection.alive THEN {e} ELSE {})
    <2>1. CASE connection.alive
      <3>1. events' = Append(events, e)
        BY <1>1, <2>1 DEF e
      <3>2. Append(events, e) \in Seq(Events) /\ Ordered(Append(events, e))
        BY <1>3, <1>5, OrderedAppend, AppendProperties
      <3>3. ToSet(Append(events, e)) = ToSet(events) \cup {e}
        BY <1>3, SequenceOfItsElements, AppendToSet
      <3> QED
        BY <2>1, <3>1, <3>2, <3>3 DEF Happening
    <2>2. CASE ~connection.alive
      BY <1>1, <1>3, <2>2 DEF Happening
    <2> QED
      BY <2>1, <2>2
  <1>8. /\ down' = IF connection.alive THEN down ELSE down \cup {answer}
        /\ requests' = IF connection.alive THEN requests \cup {r} ELSE requests
    BY <1>1 DEF answer
  <1>9. Stopping => Stopping'
    BY <1>2, <1>8 DEF Stopping
  <1>10. PollTypeOK'
    BY <1>1, <1>2, <1>3, <1>4, <1>6, <1>7, <1>8 DEF PollTypeOK
  <1>11. SentOnce'
    <2>1. Arrived' \subseteq Arrived \cup {r}
      BY <1>2, <1>5, <1>7, <1>8 DEF Arrived
    <2>2. Underway' \subseteq Underway \ {r}
      BY <1>1 DEF PollInv, SentOnce, Underway
    <2> QED
      BY <1>1, <1>2, <1>4, <2>1, <2>2 DEF PollInv, SentOnce
  <1>12. DeathsAreReal'
    <2>1. ASSUME NEW f \in Happening, f.type = "death"
          PROVE  f.request # r
      <3>1. f.request \in Arrived
        BY <1>3, <2>1, HappeningTyped DEF Arrived, DeferredDelete
      <3> QED
        BY <1>4, <3>1
    <2> QED
      BY <1>2, <1>5, <1>7, <1>8, <1>9, <2>1 DEF PollInv, DeathsAreReal
  <1>13. RequestsKept'
    <2> SUFFICES ASSUME connection.alive, NEW s \in requests' \ aborted
                 PROVE  (connection.pendingRequest = s \/ IsCarried(s))'
      BY <1>2 DEF RequestsKept
    <2>1. CASE s = r
      BY <1>5, <1>7, <2>1 DEF IsCarried
    <2>2. CASE s # r
      BY <1>2, <1>7, <1>8, <2>2 DEF PollInv, RequestsKept, IsCarried
    <2> QED
      BY <2>1, <2>2
  <1>14. OpenIsSomewhere'
    <2> SUFFICES ASSUME ~Stopping
                 PROVE  OpenIsSomewhere'
      BY <1>9 DEF OpenIsSomewhere
    <2>1. connection.alive
      BY DEF PollInv, DeletedIsStopping
    <2>2. r \notin aborted
      BY <1>3, <1>4 DEF Arrived
    <2>3. Underway \subseteq Underway' \cup {r}
      BY <1>1 DEF Underway
    <2> QED
      BY <1>2, <1>8, <2>1, <2>2, <2>3 DEF PollInv, OpenIsSomewhere
  <1>15. SuspectIsSaved'
    <2> SUFFICES ASSUME connection.alive, connection.isDead,
                        connection.pendingRequest = None, ~Stopping
                 PROVE  \/ \E n \in up' \cup {f \in Happening' : f.type = "request"} : n.old
                        \/ /\ \A n \in down' \cup Posted' : n.old
                           /\ \A s \in browser.open : \E n \in Carrying(s)' : n.old
      BY <1>2, <1>9 DEF SuspectIsSaved
    <2>1. CASE \E n \in up \cup {f \in Happening : f.type = "request"} : n.old
      <3>1. CASE m.old
        BY <1>5, <1>7, <3>1
      <3>2. CASE ~m.old
        BY <1>1, <1>7, <2>1, <3>2
      <3> QED
        BY <3>1, <3>2
    <2>2. CASE ~ \E n \in up \cup {f \in Happening : f.type = "request"} : n.old
      <3>1. /\ \A n \in down \cup Posted : n.old
            /\ \A s \in browser.open : \E n \in Carrying(s) : n.old
        BY <2>2 DEF PollInv, SuspectIsSaved
      <3>2. Posted' = Posted
        BY <1>5, <1>7 DEF Posted, Happening
      <3>3. ASSUME NEW s \in browser.open
            PROVE  \E n \in Carrying(s)' : n.old
        <4>1. PICK n \in Carrying(s) : n.old
          BY <3>1
        <4>2. n # m
          BY <2>2, <4>1
        <4>3. n \in Carrying(s)'
          BY <1>1, <1>7, <1>8, <4>1, <4>2 DEF Carrying
        <4> QED
          BY <4>1, <4>3
      <3> QED
        BY <1>8, <3>1, <3>2, <3>3
    <2> QED
      BY <2>1, <2>2
  <1>16. DeletedIsStopping'
    BY <1>2, <1>5, <1>7, <1>9 DEF PollInv, DeletedIsStopping
  <1>17. NumbersGrow'
    <2>1. Queued' = Queued
      BY <1>2 DEF Queued
    <2>2. Sent' \subseteq Sent
      BY <1>2, <1>5, <1>6, <1>7, <1>8 DEF Sent, Told, Posted, Happening
    <2> QED
      BY <1>2, <1>7, <2>1, <2>2 DEF PollInv, NumbersGrow
  <1> QED
    BY <1>10, <1>11, <1>12, <1>13, <1>14, <1>15, <1>16, <1>17 DEF PollInv

\* f is the event e, grown old unless it deletes the connection.
IsAgedFrom(f, e) ==
    /\ f.type = e.type
    /\ e.type = "delete" => f = e
    /\ e.type # "delete" => f.request = e.request /\ f.old
    /\ e.type = "response" => f.response = e.response

LEMMA AgedEvents ==
    ASSUME NEW q \in Seq(Events), Ordered(q)
    PROVE  LET aged == [i \in DOMAIN q |->
                            IF q[i].type = "delete" THEN q[i]
                            ELSE [q[i] EXCEPT !.old = TRUE]]
           IN  /\ aged \in Seq(Events) /\ Ordered(aged)
               /\ \A f \in ToSet(aged) : \E e \in ToSet(q) : IsAgedFrom(f, e)
               /\ \A e \in ToSet(q) : \E f \in ToSet(aged) : IsAgedFrom(f, e)
  <1> DEFINE aged == [i \in DOMAIN q |->
                          IF q[i].type = "delete" THEN q[i]
                          ELSE [q[i] EXCEPT !.old = TRUE]]
  <1>1. DOMAIN q = 1..Len(q) /\ Len(q) \in Nat
    BY LenProperties
  <1>2. ASSUME NEW i \in DOMAIN q
        PROVE  aged[i] \in Events /\ IsAgedFrom(aged[i], q[i])
    <2>1. q[i] \in Events
      BY <1>1, ElementOfSeq
    <2> DEFINE e == q[i]
               f == IF e.type = "delete" THEN e ELSE [e EXCEPT !.old = TRUE]
    <2>2. f \in Events /\ IsAgedFrom(f, e)
      <3> HIDE DEF e
      <3>1. CASE e \in ResponseEvents
        BY <3>1 DEF ResponseEvents, Events, IsAgedFrom
      <3>2. CASE e \in RequestEvents
        BY <3>2 DEF RequestEvents, Events, IsAgedFrom
      <3>3. CASE e \in DeathNotices
        BY <3>3 DEF DeathNotices, Events, IsAgedFrom
      <3>4. CASE e = DeferredDelete
        BY <3>4 DEF DeferredDelete, Events, IsAgedFrom
      <3> QED
        BY <2>1, <3>1, <3>2, <3>3, <3>4 DEF Events, e
    <2> QED
      BY <2>2
  <1>3. DOMAIN aged = DOMAIN q
    OBVIOUS
  <1> HIDE DEF aged
  <1>4. aged \in Seq(Events)
    <2>1. aged = [i \in 1..Len(q) |-> aged[i]]
      BY <1>1, <1>3 DEF aged
    <2>2. \A i \in 1..Len(q) : aged[i] \in Events
      BY <1>1, <1>2
    <2>3. aged \in [1..Len(q) -> Events]
      BY <2>1, <2>2
    <2> QED
      BY <1>1, <2>3, SeqDef
  <1>5. Ordered(aged)
    <2>1. ASSUME NEW j \in DOMAIN aged, NEW i \in 1..(j - 1)
          PROVE  j \in DOMAIN q /\ i \in DOMAIN q
      BY <1>1, <1>3
    <2> QED
      BY <1>2, <2>1 DEF Ordered, IsAgedFrom
  <1>6. \A f \in ToSet(aged) : \E e \in ToSet(q) : IsAgedFrom(f, e)
    BY <1>2, <1>3 DEF ToSet
  <1>7. \A e \in ToSet(q) : \E f \in ToSet(aged) : IsAgedFrom(f, e)
    BY <1>2, <1>3 DEF ToSet
  <1> QED
    BY <1>4, <1>5, <1>6, <1>7 DEF aged

LEMMA CleanupStep ==
    ASSUME PollInv, Cleanup
    PROVE  PollInv'
  <1> DEFINE result == CleanedUp(connection)
             posted == events \o result.post
             pending == connection.pendingRequest
             e == ResponseEvent(pending, EmptyResponse)
             releases == connection.isDead /\ pending \in requests
             deletes == connection.isDead /\ pending = None
  <1>1. /\ connection.alive
        /\ \A m \in InFlight : ~m.old
        /\ connection' = result.con
        /\ events' = [i \in DOMAIN posted |->
                         IF posted[i].type = "delete" THEN posted[i]
                         ELSE [posted[i] EXCEPT !.old = TRUE]]
        /\ up' = Aged(up) /\ down' = Aged(down)
        /\ UNCHANGED <<browser, requests, aborted>>
    BY DEF Cleanup
  <1>2. /\ PollTypeOK /\ connection \in Connections /\ None \notin requests
        /\ events \in Seq(Events) /\ Ordered(events)
        /\ up \subseteq [request : Nat, asks : Asks, old : BOOLEAN]
        /\ down \subseteq [request : Nat, old : BOOLEAN, response : Responses]
    BY PollFacts DEF PollInv, PollTypeOK, NumbersGrow
  <1>3. /\ result.con \in Connections
        /\ result.con.alive = connection.alive /\ result.con.isDead
        /\ result.con.sequenceNumber = connection.sequenceNumber
        /\ result.con.outQueue = connection.outQueue
        /\ ~connection.isDead =>
              result.con.pendingRequest = pending /\ result.post = <<>>
        /\ connection.isDead /\ pending # None =>
              /\ result.con.pendingRequest = None
              /\ result.post = PostedTo(pending, EmptyResponse)
        /\ connection.isDead /\ pending = None =>
              result.con.pendingRequest = None /\ result.post = <<DeferredDelete>>
    BY <1>2, CleanedUpResult
  <1>4. /\ e.type = "response" /\ e.request = pending /\ e.response = EmptyResponse
        /\ e # DeferredDelete
    BY ResponseFields
  <1>5. /\ posted \in Seq(Events) /\ Ordered(posted)
        /\ ToSet(posted) = Happening \cup (IF releases THEN {e} ELSE {})
                                     \cup (IF deletes THEN {DeferredDelete} ELSE {})
    <2> HIDE DEF result, e
    <2>1. CASE ~connection.isDead
      <3>1. posted = events
        BY <1>2, <1>3, <2>1, ConcatEmptySeq
      <3> QED
        BY <1>2, <2>1, <3>1 DEF Happening
    <2>2. CASE connection.isDead /\ pending # None
      <3>1. requests \subseteq Nat
        BY <1>2 DEF PollTypeOK
      <3> QED
        BY <1>2, <1>3, <2>2, <3>1, PostingEffect, EmptyResponseFields DEF Happening, e
    <2>3. CASE connection.isDead /\ pending = None
      <3>1. DeferredDelete \in Events /\ DeferredDelete.type = "delete"
        BY DEF Events, DeferredDelete
      <3>5. result.post = <<DeferredDelete>>
        BY <1>3, <2>3
      <3>6. events \o <<DeferredDelete>> = Append(events, DeferredDelete)
        BY <1>2, <3>1, ConcatToSet
      <3>2. posted = Append(events, DeferredDelete)
        BY <3>5, <3>6
      <3>3. /\ Append(events, DeferredDelete) \in Seq(Events)
            /\ Ordered(Append(events, DeferredDelete))
        BY <1>2, <3>1, OrderedAppend, AppendProperties
      <3>4. ToSet(Append(events, DeferredDelete)) = ToSet(events) \cup {DeferredDelete}
        BY <1>2, SequenceOfItsElements, AppendToSet
      <3> QED
        BY <1>2, <2>3, <3>2, <3>3, <3>4 DEF Happening
    <2> QED
      BY <2>1, <2>2, <2>3
  <1> HIDE DEF posted
  <1>6. /\ events' \in Seq(Events) /\ Ordered(events')
        /\ \A f \in Happening' : \E g \in ToSet(posted) : IsAgedFrom(f, g)
        /\ \A g \in ToSet(posted) : \E f \in Happening' : IsAgedFrom(f, g)
    BY <1>1, <1>5, AgedEvents DEF Happening
  <1>7. /\ connection' \in Connections /\ connection'.alive = connection.alive
        /\ connection'.sequenceNumber = connection.sequenceNumber
        /\ connection'.outQueue = connection.outQueue
        /\ connection'.pendingRequest \in {pending, None}
        /\ pending \in requests => connection'.pendingRequest = pending \/ releases
    BY <1>1, <1>2, <1>3
  <1> HIDE DEF result, e
  <1>8. /\ up' \subseteq [request : Nat, asks : Asks, old : BOOLEAN]
        /\ \A m \in up' : m.old
        /\ \A m \in up' : \E n \in up : m = [n EXCEPT !.old = TRUE]
        /\ \A n \in up : \E m \in up' : m.request = n.request /\ m.old
    <2> DEFINE Old(n) == [n EXCEPT !.old = TRUE]
    <2>1. \A n \in up : /\ Old(n) \in [request : Nat, asks : Asks, old : BOOLEAN]
                        /\ Old(n).request = n.request /\ Old(n).old
      BY <1>2
    <2>2. up' = {Old(n) : n \in up}
      BY <1>1 DEF Aged
    <2>3. \A m \in up' : \E n \in up : m = Old(n)
      BY <2>2
    <2>4. \A m \in up' : \E n \in up : m = [n EXCEPT !.old = TRUE]
      BY <2>3
    <2> HIDE DEF Old
    <2> QED
      BY <2>1, <2>2, <2>4
  <1>9. /\ down' \subseteq [request : Nat, old : BOOLEAN, response : Responses]
        /\ \A m \in down' : m.old /\ \E n \in down : m.response = n.response
        /\ \A n \in down : \E m \in down' : /\ m.request = n.request
                                            /\ m.response = n.response /\ m.old
    <2> DEFINE Old(n) == [n EXCEPT !.old = TRUE]
    <2>1. \A n \in down :
             /\ Old(n) \in [request : Nat, old : BOOLEAN, response : Responses]
             /\ Old(n).request = n.request /\ Old(n).response = n.response
             /\ Old(n).old
      BY <1>2
    <2>2. down' = {Old(n) : n \in down}
      BY <1>1 DEF Aged
    <2> HIDE DEF Old
    <2> QED
      BY <2>1, <2>2
  <1>10. PollTypeOK'
    BY <1>1, <1>2, <1>6, <1>7, <1>8, <1>9 DEF PollTypeOK
  <1>11. Stopping' = Stopping
    BY <1>1, <1>9 DEF Stopping
  <1>12. Underway' = Underway
    <2>1. \A m \in up' : \E n \in up : m.request = n.request
      BY <1>2, <1>8
    <2> QED
      BY <1>8, <2>1 DEF Underway
  <1>13. ASSUME NEW f \in Happening', f.type # "delete"
         PROVE  /\ f.old
                /\ \/ \E g \in Happening : IsAgedFrom(f, g) /\ g.type # "delete"
                   \/ releases /\ IsAgedFrom(f, e)
    <2>1. PICK g \in ToSet(posted) : IsAgedFrom(f, g)
      BY <1>6
    <2>2. g.type # "delete" /\ f.old
      BY <1>13, <2>1 DEF IsAgedFrom
    <2>3. g # DeferredDelete
      BY <2>2 DEF DeferredDelete
    <2>4. g \in Happening \/ (releases /\ g = e)
      <3>1. g \in Happening \cup (IF releases THEN {e} ELSE {})
                           \cup (IF deletes THEN {DeferredDelete} ELSE {})
        <4> HIDE DEF releases, deletes
        <4> QED
          BY <1>5, <2>1
      <3> HIDE DEF releases, deletes
      <3> QED
        BY <2>3, <3>1
    <2> QED
      BY <2>1, <2>2, <2>4
  <1>14. SentOnce'
    <2>1. \A m, n \in up' : m.request = n.request => m = n
      <3>1. ASSUME NEW m \in up', NEW n \in up', m.request = n.request
            PROVE  m = n
        <4>1. PICK m0 \in up : m = [m0 EXCEPT !.old = TRUE]
          BY <1>8
        <4>2. PICK n0 \in up : n = [n0 EXCEPT !.old = TRUE]
          BY <1>8
        <4>3. m0.request = n0.request
          BY <1>2, <3>1, <4>1, <4>2
        <4> QED
          BY <4>1, <4>2, <4>3 DEF PollInv, SentOnce
      <3> QED
        BY <3>1
    <2>2. ASSUME NEW f \in Happening' \ {DeferredDelete}
          PROVE  f.request \in Arrived
      <3>1. f.type # "delete"
        <4>1. PICK g \in ToSet(posted) : IsAgedFrom(f, g)
          BY <1>6
        <4>2. g \in Events
          BY <1>5, <4>1 DEF ToSet
        <4>3. g.type = "delete" => g = DeferredDelete
          BY <4>2 DEF Events, ResponseEvents, RequestEvents, DeathNotices
        <4> QED
          BY <2>2, <4>1, <4>3 DEF IsAgedFrom
      <3>2. CASE \E g \in Happening : IsAgedFrom(f, g) /\ g.type # "delete"
        BY <3>2 DEF IsAgedFrom, Arrived, DeferredDelete
      <3>3. CASE releases /\ IsAgedFrom(f, e)
        BY <1>4, <3>3 DEF IsAgedFrom, Arrived
      <3> QED
        BY <1>13, <3>1, <3>2, <3>3
    <2>3. Arrived' \subseteq Arrived
      BY <1>1, <1>7, <2>2 DEF Arrived
    <2> QED
      BY <1>1, <1>12, <2>1, <2>3 DEF PollInv, SentOnce
  <1>15. DeathsAreReal'
    BY <1>1, <1>4, <1>11, <1>13 DEF PollInv, DeathsAreReal, IsAgedFrom
  <1>16. ASSUME NEW g \in Happening \cup (IF releases THEN {e} ELSE {}),
                g.type \in {"request", "response"}
         PROVE  \E f \in Happening' : f.type = g.type /\ f.request = g.request /\ f.old
    BY <1>5, <1>6, <1>16 DEF IsAgedFrom
  <1>17. RequestsKept'
    <2> SUFFICES ASSUME NEW s \in requests \ aborted,
                        connection'.pendingRequest # s
                 PROVE  IsCarried(s)'
      BY <1>1 DEF RequestsKept
    <2>1. CASE pending = s
      BY <1>4, <1>7, <1>16, <2>1 DEF IsCarried
    <2>2. CASE pending # s
      BY <1>1, <1>16, <2>2 DEF PollInv, RequestsKept, IsCarried
    <2> QED
      BY <2>1, <2>2
  <1>18. OpenIsSomewhere'
    BY <1>1, <1>9, <1>11, <1>12 DEF PollInv, OpenIsSomewhere
  <1>19. SuspectIsSaved'
    <2> SUFFICES ASSUME connection'.pendingRequest = None, ~Stopping
                 PROVE  /\ \A m \in down' \cup Posted' : m.old
                        /\ \A s \in browser.open : \E m \in Carrying(s)' : m.old
      BY <1>1, <1>11 DEF SuspectIsSaved
    <2>1. \A m \in down' \cup Posted' : m.old
      BY <1>9, <1>13 DEF Posted, Happening
    <2>2. ASSUME NEW s \in browser.open
          PROVE  \E m \in Carrying(s)' : m.old
      <3>1. s \in Underway \cup (requests \ aborted) \cup {m.request : m \in down}
        BY DEF PollInv, OpenIsSomewhere
      <3>2. CASE s \in Underway
        BY <1>8, <3>2 DEF Underway, Carrying
      <3>3. CASE s \in {m.request : m \in down}
        BY <1>9, <3>3 DEF Carrying
      <3>4. CASE s \in requests \ aborted
        <4>1. IsCarried(s)'
          BY <1>1, <1>2, <1>7, <1>17, <3>4 DEF RequestsKept
        <4>2. PICK f \in Happening' : f.type \in {"request", "response"} /\ f.request = s
          BY <4>1 DEF IsCarried
        <4>3. f.old /\ f \in Carrying(s)'
          BY <1>13, <4>2 DEF Carrying
        <4> QED
          BY <4>3
      <3> QED
        BY <3>1, <3>2, <3>3, <3>4
    <2> QED
      BY <2>1, <2>2
  <1>20. DeletedIsStopping'
    <2>1. CASE deletes
      <3>1. ASSUME ~Stopping
            PROVE  FALSE
        <4>1. CASE \E m \in up \cup {f \in Happening : f.type = "request"} : m.old
          BY <1>1, <4>1 DEF InFlight, Happening
        <4>2. CASE \A s \in browser.open : \E m \in Carrying(s) : m.old
          <5>1. PICK s : s \in browser.open
            BY <3>1 DEF PollInv, OpenIsSomewhere
          <5>2. PICK m \in Carrying(s) : m.old
            BY <4>2, <5>1
          <5> QED
            BY <1>1, <5>2 DEF Carrying, InFlight, Happening
        <4> QED
          BY <1>1, <2>1, <3>1, <4>1, <4>2 DEF PollInv, SuspectIsSaved
      <3> QED
        BY <1>11, <3>1 DEF DeletedIsStopping
    <2>2. CASE ~deletes
      <3>1. ASSUME DeferredDelete \in Happening'
            PROVE  DeferredDelete \in Happening
        <4>1. PICK g \in ToSet(posted) : IsAgedFrom(DeferredDelete, g)
          BY <1>6, <3>1
        <4>2. g.type = "delete" /\ g = DeferredDelete
          BY <4>1 DEF IsAgedFrom, DeferredDelete
        <4> QED
          BY <1>4, <1>5, <2>2, <4>1, <4>2
      <3> QED
        BY <1>1, <1>7, <1>11, <3>1 DEF PollInv, DeletedIsStopping
    <2> QED
      BY <2>1, <2>2
  <1>21. NumbersGrow'
    <2>1. Queued' = Queued
      BY <1>7 DEF Queued
    <2>2. Sent' \subseteq Sent
      <3>1. Told(down') \subseteq Told(down)
        BY <1>9 DEF Told
      <3>2. Told(Posted') \subseteq Told(Posted)
        BY <1>4, <1>13, EmptyResponseFields DEF Told, Posted, Happening, IsAgedFrom
      <3> QED
        BY <1>1, <3>1, <3>2 DEF Sent, Told
    <2> QED
      BY <1>6, <1>7, <2>1, <2>2 DEF PollInv, NumbersGrow
  <1> QED
    BY <1>10, <1>14, <1>15, <1>17, <1>18, <1>19, <1>20, <1>21 DEF PollInv

LEMMA BreakStep ==
    ASSUME PollInv, Break
    PROVE  PollInv'
  <1> DEFINE S(r) == {e \in ToSet(events) : e.to = "request" /\ e.request = r}
  <1>1. PICK r \in requests \ aborted :
          LET notice == IF connection.alive THEN <<DeathNotice(r)>> ELSE <<>>
          IN  /\ \/ /\ aborted' = aborted \cup {r}
                    /\ events' = events \o notice
                    /\ UNCHANGED requests
                 \/ /\ requests' = requests \ {r}
                    /\ events' = Without(events, S(r)) \o notice
                    /\ UNCHANGED aborted
              /\ down' = down \cup {[request |-> r, old |-> FALSE,
                                     response |-> Unparsable]}
    BY DEF Break
  <1>2. UNCHANGED <<browser, connection, up>>
    BY DEF Break
  <1> DEFINE notice == IF connection.alive THEN <<DeathNotice(r)>> ELSE <<>>
             e == DeathNotice(r)
             answer == [request |-> r, old |-> FALSE, response |-> Unparsable]
  <1>3. /\ PollTypeOK /\ events \in Seq(Events) /\ Ordered(events) /\ requests \subseteq Nat
        /\ aborted \subseteq requests /\ r \in Nat
    BY PollFacts DEF PollInv, PollTypeOK, NumbersGrow
  <1>4. e \in Events /\ e.type = "death" /\ e.request = r /\ e # DeferredDelete
    BY <1>3 DEF DeathNotice, Events, DeathNotices, DeferredDelete
  <1>5. /\ answer \in [request : Nat, old : BOOLEAN, response : Responses]
        /\ answer.response.number = 0 /\ Throws(answer.response)
    BY <1>3 DEF Unparsable, Responses, ResponseTypes, Throws
  <1> HIDE DEF e, answer
  <1>6. ASSUME NEW q \in Seq(Events), Ordered(q), events' = q \o notice
        PROVE  /\ events' \in Seq(Events) /\ Ordered(events')
               /\ Happening' = ToSet(q) \cup (IF connection.alive THEN {e} ELSE {})
    <2>1. CASE connection.alive
      <3>1. notice = <<e>>
        BY <2>1 DEF e
      <3> HIDE DEF notice
      <3>2. events' = Append(q, e)
        BY <1>4, <1>6, <3>1, ConcatToSet
      <3>3. Append(q, e) \in Seq(Events) /\ Ordered(Append(q, e))
        BY <1>4, <1>6, OrderedAppend, AppendProperties
      <3>4. ToSet(Append(q, e)) = ToSet(q) \cup {e}
        BY SequenceOfItsElements, AppendToSet
      <3> QED
        BY <2>1, <3>2, <3>3, <3>4 DEF Happening
    <2>2. CASE ~connection.alive
      <3>1. events' = q
        BY <1>6, <2>2, ConcatEmptySeq
      <3> QED
        BY <1>6, <2>2, <3>1 DEF Happening
    <2> QED
      BY <2>1, <2>2
  <1>7. Stopping'
    BY <1>1, <1>5 DEF Stopping, answer
  <1>8. /\ events' \in Seq(Events) /\ Ordered(events')
        /\ Happening' \subseteq Happening \cup {e}
        /\ \A f \in Happening : f \in Happening' \/ f.request = r
        /\ requests' \subseteq requests /\ aborted' \subseteq requests'
        /\ requests' \ aborted' = (requests \ aborted) \ {r}
    <2>1. CASE /\ aborted' = aborted \cup {r}
               /\ events' = events \o notice
               /\ UNCHANGED requests
      BY <1>3, <1>6, <2>1 DEF Happening
    <2>2. CASE /\ requests' = requests \ {r}
               /\ events' = Without(events, S(r)) \o notice
               /\ UNCHANGED aborted
      <3> DEFINE q == Without(events, S(r))
      <3>1. q \in Seq(Events) /\ Ordered(q) /\ ToSet(q) = ToSet(events) \ S(r)
        <4> HIDE DEF S
        <4> QED
          BY <1>3, OrderedWithout
      <3> HIDE DEF q
      <3>2. /\ events' \in Seq(Events) /\ Ordered(events')
            /\ Happening' = ToSet(q) \cup (IF connection.alive THEN {e} ELSE {})
        BY <1>6, <2>2, <3>1 DEF q
      <3> QED
        BY <1>3, <2>2, <3>1, <3>2 DEF Happening
    <2> QED
      BY <1>1, <2>1, <2>2
  <1>9. down' = down \cup {answer}
    BY <1>1 DEF answer
  <1> HIDE DEF notice
  <1>10. PollTypeOK'
    BY <1>2, <1>3, <1>5, <1>8, <1>9 DEF PollTypeOK
  <1>11. SentOnce'
    <2>1. r \in Arrived
      BY DEF Arrived
    <2>2. Arrived' \subseteq Arrived
      BY <1>2, <1>4, <1>8, <2>1 DEF Arrived
    <2> QED
      BY <1>2, <2>2 DEF PollInv, SentOnce, Underway
  <1>12. DeathsAreReal'
    BY <1>4, <1>7, <1>8 DEF PollInv, DeathsAreReal
  <1>13. RequestsKept'
    BY <1>2, <1>8 DEF PollInv, RequestsKept, IsCarried
  <1>14. OpenIsSomewhere' /\ SuspectIsSaved' /\ DeletedIsStopping'
    BY <1>7 DEF OpenIsSomewhere, SuspectIsSaved, DeletedIsStopping
  <1>15. NumbersGrow'
    <2>1. Queued' = Queued
      BY <1>2 DEF Queued
    <2>2. Sent' \subseteq Sent
      BY <1>2, <1>4, <1>5, <1>8, <1>9 DEF Sent, Told, Posted, Happening
    <2> QED
      BY <1>2, <1>8, <2>1, <2>2 DEF PollInv, NumbersGrow
  <1> QED
    BY <1>10, <1>11, <1>12, <1>13, <1>14, <1>15 DEF PollInv

-----------------------------------------------------------------------------
(* The browser. *)

\* What a handler of the browser that is not about requests leaves as it was.
SameRequests(b, c) ==
    /\ b \in Browsers
    /\ b.open = c.open /\ b.lastRequest = c.lastRequest
    /\ b.processed = c.processed /\ b.thrown = c.thrown

LEMMA ProcessSame ==
    ASSUME NEW b \in Browsers, NEW response \in Responses
    PROVE  SameRequests(Process(b, response), b)
  <1>1. ASSUME NEW c \in Browsers
        PROVE  SameRequests(SubmitDone(c), c)
    <2> DEFINE n == c.outgoing - 1
               d == [c EXCEPT !.outgoing = n, !.submitPending = FALSE]
    <2>1. n \in Int
      BY DEF Browsers
    <2>2. SubmitDone(c) = d
      BY DEF SubmitDone
    <2> HIDE DEF n
    <2>3. /\ d \in Browsers
          /\ d.open = c.open /\ d.lastRequest = c.lastRequest
          /\ d.processed = c.processed /\ d.thrown = c.thrown
      BY <2>1 DEF Browsers
    <2> QED
      BY <2>2, <2>3 DEF SameRequests
  <1>2. ASSUME NEW f \in {"updateMissing", "responseMissing"}
        PROVE  SameRequests([b EXCEPT ![f] = FALSE], b)
    BY DEF SameRequests, Browsers
  <1>3. SameRequests(ProcessEcho(b), b)
    BY <1>1, <1>2 DEF ProcessEcho, SameRequests
  <1>4. SameRequests(ProcessSubmitResponse(b), b)
    BY <1>1, <1>2 DEF ProcessSubmitResponse, SameRequests
  <1>5. SameRequests(b, b)
    BY DEF SameRequests
  <1> QED
    BY <1>3, <1>4, <1>5 DEF Process

\* What a handler sends: nothing, or one request.
Sendings == {<<>>} \cup {<<x>> : x \in Asks}

LEMMA SendNextSubmitSame ==
    ASSUME NEW b \in Browsers
    PROVE  /\ SameRequests(SendNextSubmit(b).b, b)
           /\ SendNextSubmit(b).toSend \in Sendings
  <1> DEFINE ask == Asking(TRUE, IF b.openWavelet THEN WaveletOpened ELSE "none")
             c == [b EXCEPT !.submitPending = TRUE, !.updateMissing = TRUE,
                            !.responseMissing = TRUE, !.openWavelet = FALSE]
  <1>1. ask \in Asks
    BY DEF Asking, Asks, WaveletOpened
  <1>2. SendNextSubmit(b) = IF b.outgoing = 0 \/ b.submitPending
                            THEN [b |-> b, toSend |-> <<>>]
                            ELSE [b |-> c, toSend |-> <<ask>>]
    BY DEF SendNextSubmit
  <1>3. SameRequests(b, b) /\ SameRequests(c, b)
    BY DEF SameRequests, Browsers
  <1> HIDE DEF ask, c
  <1> QED
    BY <1>1, <1>2, <1>3 DEF Sendings

\* The requests that are sent.
SentNow(msgs, b, old) ==
    /\ msgs \subseteq [request : {b.lastRequest + 1}, asks : Asks, old : {old}]
    /\ up' = up \cup msgs
    /\ \A m, n \in msgs : m = n
    /\ browser' \in Browsers
    /\ browser'.open = b.open \cup {m.request : m \in msgs}
    /\ msgs # {} => browser'.lastRequest = b.lastRequest + 1
    /\ msgs = {} => browser'.lastRequest = b.lastRequest
    /\ browser'.processed = b.processed /\ browser'.thrown = b.thrown

LEMMA SendEffect ==
    ASSUME NEW result, result.b \in Browsers, NEW old \in BOOLEAN,
           result.toSend \in Sendings, Send(result, old)
    PROVE  \E msgs : /\ SentNow(msgs, result.b, old)
                     /\ msgs = {} => result.toSend = <<>>
  <1> DEFINE b == result.b
             first == result.b.lastRequest
  <1>1. first \in Nat /\ b.open \subseteq Nat
    BY DEF Browsers
  <1>2. CASE result.toSend = <<>>
    <2>1. Len(result.toSend) = 0
      BY <1>2
    <2>2. browser' = [b EXCEPT !.lastRequest = first + 0,
                               !.open = @ \cup (first + 1)..(first + 0)]
      BY <2>1 DEF Send
    <2>3. (first + 1)..(first + 0) = {} /\ first + 0 = first
      BY <1>1
    <2>4. up' = up
      BY <2>1 DEF Send
    <2>5. /\ browser' \in Browsers /\ browser'.open = b.open
          /\ browser'.lastRequest = first
          /\ browser'.processed = b.processed /\ browser'.thrown = b.thrown
      BY <2>2, <2>3 DEF Browsers
    <2>6. SentNow({}, b, old)
      <3> HIDE DEF b
      <3> QED
        BY <2>4, <2>5 DEF SentNow, b
    <2> QED
      BY <1>2, <2>6
  <1>3. CASE result.toSend # <<>>
    <2>1. Len(result.toSend) = 1 /\ result.toSend[1] \in Asks
      <3>1. PICK x \in Asks : result.toSend = <<x>>
        BY <1>3 DEF Sendings
      <3> QED
        BY <3>1
    <2> DEFINE r == first + 1
               m == [request |-> r, asks |-> result.toSend[1], old |-> old]
    <2>2. browser' = [b EXCEPT !.lastRequest = r, !.open = @ \cup r..r]
      BY <2>1 DEF Send
    <2>3. r \in Nat /\ r..r = {r}
      BY <1>1
    <2>4. up' = up \cup {m}
      <3>1. 1..1 = {1}
        OBVIOUS
      <3> QED
        BY <2>1, <3>1 DEF Send
    <2> HIDE DEF r
    <2>5. /\ browser' \in Browsers /\ browser'.open = b.open \cup {r}
          /\ browser'.lastRequest = r
          /\ browser'.processed = b.processed /\ browser'.thrown = b.thrown
      BY <1>1, <2>2, <2>3 DEF Browsers
    <2>6. m \in [request : {r}, asks : Asks, old : {old}] /\ m.request = r
      BY <2>1
    <2>7. SentNow({m}, b, old)
      <3> HIDE DEF m, b
      <3> QED
        BY <2>4, <2>5, <2>6 DEF SentNow, r, b
    <2> QED
      BY <2>7
  <1> QED
    BY <1>2, <1>3

\* A handler of the browser ends with the answers to the requests in gone
\* received, and sends a request if no other is open.
LEMMA SendStep ==
    ASSUME PollInv, NEW b \in Browsers, NEW msgs, NEW old \in BOOLEAN, NEW gone,
           SentNow(msgs, b, old),
           b.open = browser.open \ gone, b.lastRequest = browser.lastRequest,
           msgs = {} => b.open # {} \/ Stopping,
           \A n \in down \cup Posted : (\A m \in down \cup Posted : m.old) => old,
           down' \subseteq down,
           \A n \in down : n \in down' \/ n.request \in gone,
           Stopping' = Stopping, Sent' \subseteq Sent,
           UNCHANGED <<connection, requests, aborted, events>>
    PROVE  PollInv'
  <1>1. /\ PollTypeOK /\ browser \in Browsers /\ requests \subseteq Nat
        /\ up \subseteq [request : Nat, asks : Asks, old : BOOLEAN]
        /\ events' = events /\ Happening' = Happening /\ Posted' = Posted
    BY PollFacts DEF PollTypeOK, Happening, Posted
  <1> DEFINE r == browser.lastRequest + 1
  <1>2. /\ browser.lastRequest \in Nat /\ r \in Nat
        /\ 1..r = 1..browser.lastRequest \cup {r} /\ r \notin 1..browser.lastRequest
    BY <1>1 DEF Browsers
  <1>3. /\ msgs \subseteq [request : {r}, asks : Asks, old : {old}]
        /\ up' = up \cup msgs
        /\ \A m, n \in msgs : m = n
        /\ browser' \in Browsers
        /\ browser'.open = b.open \cup {m.request : m \in msgs}
        /\ msgs # {} => browser'.lastRequest = r
        /\ msgs = {} => browser'.lastRequest = browser.lastRequest
    BY DEF SentNow
  <1> HIDE DEF r
  <1>4. \A m \in msgs : m.request = r /\ m.old = old
    BY <1>3
  <1>5. PollTypeOK'
    BY <1>1, <1>2, <1>3 DEF PollTypeOK
  <1>6. SentOnce'
    <2>1. Arrived' = Arrived
      BY <1>1 DEF Arrived
    <2>2. /\ Arrived \subseteq 1..browser.lastRequest
          /\ Underway \subseteq 1..browser.lastRequest
          /\ browser.open \subseteq 1..browser.lastRequest
          /\ Underway \cap Arrived = {}
          /\ \A m, n \in up : m.request = n.request => m = n
      BY DEF PollInv, SentOnce
    <2>3. \A m \in up : m.request \in 1..browser.lastRequest
      BY <2>2 DEF Underway
    <2>4. CASE msgs = {}
      BY <1>3, <2>1, <2>2, <2>4 DEF SentOnce, Underway
    <2>5. CASE msgs # {}
      <3>1. Underway' = Underway \cup {r}
        BY <1>3, <1>4, <2>5 DEF Underway
      <3>2. browser'.open \subseteq browser.open \cup {r}
        BY <1>3, <1>4
      <3>3. \A m, n \in up' : m.request = n.request => m = n
        BY <1>2, <1>3, <1>4, <2>2, <2>3
      <3>4. browser'.lastRequest = r
        BY <1>3, <2>5
      <3>5. /\ browser'.open \subseteq 1..browser'.lastRequest
            /\ Underway' \subseteq 1..browser'.lastRequest
            /\ Arrived' \subseteq 1..browser'.lastRequest
        BY <1>2, <2>1, <2>2, <3>1, <3>2, <3>4
      <3>6. Underway' \cap Arrived' = {}
        BY <1>2, <2>1, <2>2, <3>1
      <3> QED
        BY <3>3, <3>5, <3>6 DEF SentOnce
    <2> QED
      BY <2>4, <2>5
  <1>7. DeathsAreReal' /\ RequestsKept' /\ DeletedIsStopping'
    BY <1>1 DEF PollInv, DeathsAreReal, RequestsKept, IsCarried, DeletedIsStopping
  <1>8. OpenIsSomewhere'
    <2> SUFFICES ASSUME ~Stopping
                 PROVE  /\ browser'.open # {}
                        /\ browser'.open \subseteq Underway' \cup (requests \ aborted)
                                                       \cup {m.request : m \in down'}
      BY DEF OpenIsSomewhere
    <2>1. browser'.open # {}
      BY <1>3
    <2>2. {m.request : m \in msgs} \subseteq Underway'
      BY <1>3 DEF Underway
    <2>3. Underway \subseteq Underway'
      BY <1>3 DEF Underway
    <2>4. browser.open \subseteq Underway \cup (requests \ aborted)
                                    \cup {m.request : m \in down}
      BY DEF PollInv, OpenIsSomewhere
    <2>5. \A s \in b.open : s \in {m.request : m \in down} => s \in {m.request : m \in down'}
      OBVIOUS
    <2> QED
      BY <1>3, <2>1, <2>2, <2>3, <2>4, <2>5
  <1>9. SuspectIsSaved'
    <2> SUFFICES ASSUME connection.alive, connection.isDead,
                        connection.pendingRequest = None, ~Stopping
                 PROVE  \/ \E m \in up' \cup {f \in Happening : f.type = "request"} : m.old
                        \/ /\ \A m \in down' \cup Posted : m.old
                           /\ \A s \in browser'.open : \E m \in Carrying(s)' : m.old
      BY <1>1 DEF SuspectIsSaved
    <2>1. CASE \E m \in up \cup {f \in Happening : f.type = "request"} : m.old
      BY <1>3, <2>1
    <2>2. CASE ~ \E m \in up \cup {f \in Happening : f.type = "request"} : m.old
      <3>1. /\ \A m \in down \cup Posted : m.old
            /\ \A s \in browser.open : \E m \in Carrying(s) : m.old
        BY <2>2 DEF PollInv, SuspectIsSaved
      <3>2. old
        <4>1. PICK s : s \in browser.open
          BY DEF PollInv, OpenIsSomewhere
        <4>2. PICK m \in Carrying(s) : m.old
          BY <3>1, <4>1
        <4>3. m \in down \cup Posted
          BY <2>2, <4>2 DEF Carrying, Posted, Happening
        <4> QED
          BY <3>1, <4>3
      <3>3. ASSUME NEW s \in browser'.open
            PROVE  \E m \in Carrying(s)' : m.old
        <4>1. CASE s \in {m.request : m \in msgs}
          <5>1. PICK m \in msgs : m.request = s
            BY <4>1
          <5>2. m \in Carrying(s)' /\ m.old
            BY <1>3, <1>4, <3>2, <5>1 DEF Carrying
          <5> QED
            BY <5>2
        <4>2. CASE s \in b.open
          <5>1. PICK m \in Carrying(s) : m.old
            BY <3>1, <4>2
          <5>2. m \in Carrying(s)'
            BY <1>1, <1>3, <4>2, <5>1 DEF Carrying
          <5> QED
            BY <5>1, <5>2
        <4> QED
          BY <1>3, <4>1, <4>2
      <3> QED
        BY <3>1, <3>3
    <2> QED
      BY <2>1, <2>2
  <1>10. NumbersGrow'
    <2>1. Queued' = Queued
      BY DEF Queued
    <2> QED
      BY <1>1, <2>1 DEF PollInv, NumbersGrow
  <1> QED
    BY <1>5, <1>6, <1>7, <1>8, <1>9, <1>10 DEF PollInv

LEMMA UserStep ==
    ASSUME PollInv, UserSubmits \/ UserOpens
    PROVE  PollInv'
  <1>1. browser \in Browsers
    BY PollFacts DEF PollTypeOK
  <1>2. SameRequests(browser, browser)
    BY <1>1 DEF SameRequests
  <1>3. ASSUME NEW open \in BOOLEAN
        PROVE  LET submits == SendNextSubmit([browser EXCEPT
                                  !.outgoing = @ + 1, !.openWavelet = @ \/ open])
               IN  SameRequests(submits.b, browser) /\ submits.toSend \in Sendings
    <2> DEFINE n == browser.outgoing + 1
               opens == browser.openWavelet \/ open
               c == [browser EXCEPT !.outgoing = n, !.openWavelet = opens]
               b == [browser EXCEPT !.outgoing = @ + 1, !.openWavelet = @ \/ open]
    <2>1. n \in Int /\ opens \in BOOLEAN
      BY <1>1 DEF Browsers
    <2>3. c = b
      OBVIOUS
    <2> HIDE DEF n, opens
    <2>2. SameRequests(c, browser)
      BY <1>1, <2>1 DEF Browsers, SameRequests
    <2> HIDE DEF c
    <2> QED
      BY <2>2, <2>3, SendNextSubmitSame DEF SameRequests
  <1>4. \E result : /\ SameRequests(result.b, browser)
                    /\ result.toSend \in Sendings
                    /\ Send(result, OldAnswer)
    <2>1. CASE UserSubmits
      BY <1>3, <2>1 DEF UserSubmits
    <2>2. CASE UserOpens
      <3> DEFINE opens == [b |-> browser, toSend |-> <<Asking(FALSE, "wavelet")>>]
      <3>1. opens.b = browser /\ opens.toSend \in Sendings
        BY DEF Asking, Asks, Sendings
      <3>2. Send(opens, OldAnswer)
        BY <2>2 DEF UserOpens
      <3> QED
        BY <1>2, <3>1, <3>2
    <2> QED
      BY <2>1, <2>2
  <1>5. PICK result : /\ SameRequests(result.b, browser)
                      /\ result.toSend \in Sendings
                      /\ Send(result, OldAnswer)
    BY <1>4
  <1>6. OldAnswer \in BOOLEAN
    BY DEF OldAnswer
  <1>7. PICK msgs : SentNow(msgs, result.b, OldAnswer)
    BY <1>5, <1>6, SendEffect DEF SameRequests
  <1>8. UNCHANGED <<connection, requests, aborted, events, down>>
    BY DEF UserSubmits, UserOpens
  <1>9. browser'.thrown = browser.thrown /\ browser'.processed = browser.processed
    BY <1>5, <1>7 DEF SentNow, SameRequests
  <1>10. Stopping' = Stopping /\ Sent' = Sent
    BY <1>8, <1>9 DEF Stopping, Sent, Told, Posted
  <1>11. \A n \in down \cup Posted : (\A m \in down \cup Posted : m.old) => OldAnswer
    BY DEF OldAnswer
  <1>12. browser.open # {} \/ Stopping
    BY DEF PollInv, OpenIsSomewhere
  <1> DEFINE old == OldAnswer
             gone == {}
  <1> HIDE DEF old
  <1>13. /\ result.b \in Browsers /\ result.b.open = browser.open \ gone
         /\ result.b.lastRequest = browser.lastRequest
    BY <1>5 DEF SameRequests
  <1>14. old \in BOOLEAN /\ SentNow(msgs, result.b, old)
         /\ \A n \in down \cup Posted : (\A m \in down \cup Posted : m.old) => old
    BY <1>6, <1>7, <1>11 DEF old
  <1> QED
    BY <1>8, <1>10, <1>12, <1>13, <1>14, SendStep

LEMMA ReceiveStep ==
    ASSUME PollInv, BrowserReceives
    PROVE  PollInv'
  <1> DEFINE next(m) == SendNextSubmit(Process(Received(browser, m), m.response))
             result(m) == IF next(m).toSend = <<>> /\ Pulls(next(m).b, m.response)
                          THEN [next(m) EXCEPT !.toSend = <<Asking(FALSE, "none")>>]
                          ELSE next(m)
  <1>1. PICK m \in down : /\ ~Throws(m.response)
                          /\ down' = down \ {m}
                          /\ Send(result(m), m.old)
    BY DEF BrowserReceives
  <1>2. UNCHANGED <<connection, requests, aborted, events>>
    BY DEF BrowserReceives
  <1>3. /\ m \in [request : Nat, old : BOOLEAN, response : Responses]
        /\ browser \in Browsers
    BY PollFacts DEF PollTypeOK
  <1> DEFINE b == Received(browser, m)
             n == SendNextSubmit(Process(b, m.response))
  <1>4. /\ b \in Browsers /\ b.open = browser.open \ {m.request}
        /\ b.lastRequest = browser.lastRequest /\ b.thrown = browser.thrown
        /\ b.processed = IF m.response.number = 0 THEN browser.processed
                         ELSE Append(browser.processed, m.response.number)
    <2> DEFINE processed == IF m.response.number = 0 THEN browser.processed
                            ELSE Append(browser.processed, m.response.number)
               open == browser.open \ {m.request}
               c == [browser EXCEPT !.open = open, !.processed = processed]
    <2>1. processed \in Seq(Nat) /\ open \in SUBSET Nat
      BY <1>3, AppendProperties DEF Browsers, Responses
    <2>2. b = c
      BY DEF Received
    <2> HIDE DEF processed, open
    <2>3. /\ c \in Browsers /\ c.open = open /\ c.processed = processed
          /\ c.lastRequest = browser.lastRequest /\ c.thrown = browser.thrown
      BY <1>3, <2>1 DEF Browsers
    <2> QED
      BY <2>2, <2>3 DEF processed, open
  <1> HIDE DEF b
  <1>5. SameRequests(n.b, b) /\ n.toSend \in Sendings
    <2> DEFINE p == Process(b, m.response)
    <2>1. SameRequests(p, b)
      BY <1>3, <1>4, ProcessSame
    <2> HIDE DEF p
    <2>2. SameRequests(SendNextSubmit(p).b, p) /\ SendNextSubmit(p).toSend \in Sendings
      BY <2>1, SendNextSubmitSame DEF SameRequests
    <2> QED
      BY <2>1, <2>2 DEF SameRequests, p
  <1>6. /\ result(m).b = n.b
        /\ result(m).toSend \in Sendings
        /\ result(m).toSend = <<>> => n.b.open # {}
    <2> DEFINE pulls == [n EXCEPT !.toSend = <<Asking(FALSE, "none")>>]
    <2>1. result(m) = IF n.toSend = <<>> /\ n.b.open = {} THEN pulls ELSE n
      BY DEF Pulls, b
    <2>2. pulls.b = n.b /\ pulls.toSend = <<Asking(FALSE, "none")>>
      BY DEF SendNextSubmit
    <2>3. <<Asking(FALSE, "none")>> # <<>> /\ <<Asking(FALSE, "none")>> \in Sendings
      BY DEF Asking, Asks, Sendings
    <2> HIDE DEF pulls, n, result
    <2> QED
      BY <1>5, <2>1, <2>2, <2>3
  <1> HIDE DEF n
  <1> DEFINE res == result(m)
             old == m.old
             gone == {m.request}
  <1> HIDE DEF result
  <1>7. PICK msgs : SentNow(msgs, res.b, old) /\ (msgs = {} => res.toSend = <<>>)
    BY <1>1, <1>3, <1>5, <1>6, SendEffect DEF SameRequests
  <1>8. /\ n.b \in Browsers /\ n.b.open = browser.open \ gone
        /\ n.b.lastRequest = browser.lastRequest
        /\ n.b.thrown = browser.thrown /\ n.b.processed = b.processed
    BY <1>4, <1>5 DEF SameRequests
  <1>9. SentNow(msgs, n.b, old) /\ (msgs = {} => n.b.open # {})
    BY <1>6, <1>7
  <1>10. browser'.thrown = browser.thrown /\ browser'.processed = b.processed
    BY <1>8, <1>9 DEF SentNow
  <1>11. Stopping' = Stopping
    BY <1>1, <1>10 DEF Stopping
  <1>12. Sent' \subseteq Sent
    <2>1. Told(down') \subseteq Told(down) /\ Told(Posted') = Told(Posted)
      BY <1>1, <1>2 DEF Told, Posted
    <2>2. m.response.number # 0 => m.response.number \in Told(down)
      BY DEF Told
    <2>3. ToSet(b.processed) \subseteq ToSet(browser.processed) \cup ({m.response.number} \ {0})
      <3>1. CASE m.response.number = 0
        BY <1>4, <3>1
      <3>2. CASE m.response.number # 0
        <4>1. IsSequence(browser.processed)
          BY <1>3, SequenceOfItsElements DEF Browsers
        <4> QED
          BY <1>4, <3>2, <4>1, AppendToSet
      <3> QED
        BY <3>1, <3>2
    <2> QED
      BY <1>10, <2>1, <2>2, <2>3 DEF Sent
  <1>13. old \in BOOLEAN
    BY <1>3
  <1>14. \A k \in down \cup Posted : (\A j \in down \cup Posted : j.old) => old
    BY <1>1
  <1>15. down' \subseteq down /\ \A k \in down : k \in down' \/ k.request \in gone
    BY <1>1
  <1> HIDE DEF old, gone
  <1> QED
    BY <1>2, <1>8, <1>9, <1>11, <1>12, <1>13, <1>14, <1>15, SendStep

LEMMA ThrowStep ==
    ASSUME PollInv, BrowserThrows
    PROVE  PollInv'
  <1>1. PICK m \in down :
           /\ down' = down \ {m}
           /\ browser' = [Received(browser, m) EXCEPT
                             !.thrown = TRUE,
                             !.responseMissing = @ /\ m.response.type # "failed"]
    BY DEF BrowserThrows
  <1>2. UNCHANGED <<connection, requests, aborted, events, up>>
    BY DEF BrowserThrows
  <1>3. /\ m \in [request : Nat, old : BOOLEAN, response : Responses]
        /\ browser \in Browsers /\ PollTypeOK
    BY PollFacts DEF PollTypeOK
  <1> DEFINE processed == IF m.response.number = 0 THEN browser.processed
                          ELSE Append(browser.processed, m.response.number)
             open == browser.open \ {m.request}
             missing == browser.responseMissing /\ m.response.type # "failed"
             c == [browser EXCEPT !.open = open, !.processed = processed,
                                  !.thrown = TRUE, !.responseMissing = missing]
  <1>4. processed \in Seq(Nat) /\ open \in SUBSET Nat /\ missing \in BOOLEAN
    BY <1>3, AppendProperties DEF Browsers, Responses
  <1>5. browser' = c
    BY <1>1, <1>3 DEF Received, Browsers
  <1>6. ToSet(processed) \subseteq ToSet(browser.processed) \cup ({m.response.number} \ {0})
    <2>1. IsSequence(browser.processed)
      BY <1>3, SequenceOfItsElements DEF Browsers
    <2> QED
      BY <2>1, AppendToSet
  <1> HIDE DEF processed, open, missing
  <1>7. /\ browser' \in Browsers /\ browser'.open = open /\ browser'.processed = processed
        /\ browser'.lastRequest = browser.lastRequest /\ browser'.thrown
    BY <1>3, <1>4, <1>5 DEF Browsers
  <1>8. /\ Stopping' /\ Happening' = Happening /\ Posted' = Posted
        /\ Underway' = Underway /\ Arrived' = Arrived /\ Queued' = Queued
    BY <1>2, <1>7 DEF Stopping, Happening, Posted, Underway, Arrived, Queued
  <1>9. PollTypeOK'
    BY <1>1, <1>2, <1>3, <1>7 DEF PollTypeOK
  <1>10. SentOnce'
    BY <1>2, <1>7, <1>8 DEF PollInv, SentOnce, open
  <1>11. DeathsAreReal' /\ RequestsKept'
    BY <1>2, <1>8 DEF PollInv, DeathsAreReal, RequestsKept, IsCarried
  <1>12. OpenIsSomewhere' /\ SuspectIsSaved' /\ DeletedIsStopping'
    BY <1>8 DEF OpenIsSomewhere, SuspectIsSaved, DeletedIsStopping
  <1>13. NumbersGrow'
    <2>1. Sent' \subseteq Sent
      <3>1. Told(down') \subseteq Told(down) /\ Told(Posted') = Told(Posted)
        BY <1>1, <1>8 DEF Told
      <3>2. m.response.number # 0 => m.response.number \in Told(down)
        BY DEF Told
      <3> QED
        BY <1>6, <1>7, <3>1, <3>2 DEF Sent
    <2> QED
      BY <1>2, <1>8, <2>1 DEF PollInv, NumbersGrow
  <1> QED
    BY <1>9, <1>10, <1>11, <1>12, <1>13 DEF PollInv

-----------------------------------------------------------------------------
(* The theorems. *)

LEMMA PollInitInv ==
    ASSUME PollInit
    PROVE  PollInv
  <1> DEFINE m == [request |-> 1, asks |-> Asking(FALSE, "index"), old |-> FALSE]
  <1>1. /\ <<>> \in Seq(Nat) /\ <<>> \in Seq(Responses) /\ <<>> \in Seq(Events)
        /\ DOMAIN <<>> = {}
    BY EmptySeq
  <1>2. /\ browser \in Browsers /\ browser.open = {1} /\ browser.lastRequest = 1
        /\ browser.processed = <<>>
    BY <1>1 DEF PollInit, Browsers
  <1>3. /\ connection \in Connections /\ connection.alive /\ ~connection.isDead
        /\ connection.pendingRequest = None /\ connection.outQueue = <<>>
        /\ connection.sequenceNumber = 0
    BY <1>1 DEF PollInit, Connections, SubmitStates
  <1>4. /\ requests = {} /\ aborted = {} /\ events = <<>> /\ up = {m} /\ down = {}
        /\ m \in [request : Nat, asks : Asks, old : BOOLEAN] /\ m.request = 1
    BY DEF PollInit, Asking, Asks
  <1> HIDE DEF m
  <1>5. Happening = {} /\ Posted = {} /\ Queued = {} /\ Sent = {}
    BY <1>1, <1>2, <1>3, <1>4 DEF Happening, Posted, Queued, Sent, Told, ToSet
  <1>6. PollTypeOK
    BY <1>1, <1>2, <1>3, <1>4 DEF PollTypeOK
  <1>7. Underway = {1} /\ Arrived = {} /\ 1..1 = {1}
    BY <1>3, <1>4, <1>5 DEF Underway, Arrived
  <1>8. SentOnce
    BY <1>2, <1>4, <1>7 DEF SentOnce
  <1>9. DeathsAreReal /\ RequestsKept
    BY <1>4, <1>5 DEF DeathsAreReal, RequestsKept
  <1>10. OpenIsSomewhere
    BY <1>2, <1>7 DEF OpenIsSomewhere
  <1>11. SuspectIsSaved /\ DeletedIsStopping
    BY <1>3, <1>5 DEF SuspectIsSaved, DeletedIsStopping
  <1>12. NumbersGrow
    <2>1. Ordered(<<>>) /\ QueueOrdered(<<>>)
      BY <1>1 DEF Ordered, QueueOrdered
    <2> QED
      BY <1>3, <1>4, <1>5, <2>1 DEF NumbersGrow
  <1> QED
    BY <1>6, <1>8, <1>9, <1>10, <1>11, <1>12 DEF PollInv

\* The submit of the connection goes on, and nothing is told.
LEMMA QuietStep ==
    ASSUME PollInv, NEW con \in Connections, con.alive = connection.alive,
           con.isDead = connection.isDead,
           con.pendingRequest = connection.pendingRequest,
           con.outQueue = connection.outQueue,
           con.sequenceNumber = connection.sequenceNumber,
           Become(Silently(con), events),
           UNCHANGED <<browser, requests, aborted, up, down>>
    PROVE  PollInv'
  <1>1. connection' = con /\ events' = events
    <2>1. events \in Seq(Events)
      BY PollFacts DEF PollTypeOK
    <2> QED
      BY <2>1, ConcatEmptySeq DEF Become, Silently
  <1>2. /\ Stopping' = Stopping /\ Underway' = Underway /\ Arrived' = Arrived
        /\ Happening' = Happening /\ Posted' = Posted /\ Sent' = Sent
        /\ Queued' = Queued
    BY <1>1 DEF Stopping, Underway, Arrived, Happening, Posted, Sent, Told, Queued
  <1>3. PollTypeOK' /\ SentOnce' /\ DeathsAreReal'
    BY <1>1, <1>2 DEF PollInv, PollTypeOK, SentOnce, DeathsAreReal
  <1>4. RequestsKept' /\ OpenIsSomewhere' /\ DeletedIsStopping'
    BY <1>1, <1>2 DEF PollInv, RequestsKept, IsCarried, OpenIsSomewhere,
                      DeletedIsStopping
  <1>5. SuspectIsSaved'
    BY <1>1, <1>2 DEF PollInv, SuspectIsSaved, Carrying
  <1>6. NumbersGrow'
    BY <1>1, <1>2 DEF PollInv, NumbersGrow
  <1> QED
    BY <1>3, <1>4, <1>5, <1>6 DEF PollInv

LEMMA PollStep ==
    ASSUME PollInv, [PollNext]_pollVars
    PROVE  PollInv'
  <1>1. CASE RequestArrives
    BY <1>1, RequestArrivesStep
  <1>2. CASE ConnectionHandles
    <2>1. Head(events).type \in {"request", "death"}
      BY <1>2 DEF ConnectionHandles
    <2> QED
      BY <1>2, <2>1, RequestHandled, DeathHandled
  <1>3. CASE ConnectionDeleted
    BY <1>3, DeletionStep
  <1>4. CASE RequestReplies
    BY <1>4, RequestRepliesStep
  <1>5. CASE BrowserReceives
    BY <1>5, ReceiveStep
  <1>6. CASE BrowserThrows
    BY <1>6, ThrowStep
  <1>7. CASE \/ UpdateComes \/ WaveletSubscribes \/ DeltaApplied
             \/ SubmitSucceeds \/ SubmitFails
    <2> DEFINE Con(next) == [connection EXCEPT !.submit = next]
    <2>1. \A next \in SubmitStates :
             /\ Con(next) \in Connections
             /\ Con(next).alive = connection.alive
             /\ Con(next).isDead => connection.isDead
             /\ Con(next).pendingRequest = connection.pendingRequest
             /\ Con(next).outQueue = connection.outQueue
             /\ Con(next).sequenceNumber = connection.sequenceNumber
      BY PollFacts DEF Connections
    <2>7. \A next \in SubmitStates : Con(next).isDead = connection.isDead
      BY PollFacts DEF Connections
    <2>2. UNCHANGED <<browser, requests, aborted, up, down>>
      BY <1>7 DEF UpdateComes, WaveletSubscribes, DeltaApplied, SubmitSucceeds, SubmitFails
    <2>6. connection.submit \in SubmitStates /\ connection = Con(connection.submit)
      BY PollFacts DEF Connections
    <2>3. \E next \in SubmitStates :
             \/ Become(Silently(Con(next)), events)
             \/ \E type \in ResponseTypes : Become(Reply(Con(next), type), events)
      <3>1. CASE UpdateComes
        <4>1. \E type \in ResponseTypes : Become(Reply(connection, type), events)
          BY <3>1 DEF UpdateComes, ResponseTypes
        <4> HIDE DEF Con
        <4> QED
          BY <2>6, <4>1
      <3>2. CASE WaveletSubscribes
        <4>1. \/ Become(Silently(connection), events)
              \/ \E type \in ResponseTypes : Become(Reply(connection, type), events)
          BY <3>2 DEF WaveletSubscribes, ResponseTypes
        <4> HIDE DEF Con
        <4> QED
          BY <2>6, <4>1
      <3>5. CASE DeltaApplied
        <4> DEFINE next == IF connection.submit = "late" THEN "none" ELSE "applied"
        <4>1. next \in SubmitStates /\ "echo" \in ResponseTypes
          BY DEF SubmitStates, ResponseTypes
        <4>2. Become(IF wavelet.content = "subscribed" THEN Reply(Con(next), "echo")
                     ELSE Silently(Con(next)), events)
          BY <3>5 DEF DeltaApplied
        <4> HIDE DEF Con, next
        <4> QED
          BY <4>1, <4>2
      <3>3. CASE SubmitSucceeds
        BY <3>3 DEF SubmitSucceeds, SubmitStates, ResponseTypes
      <3>4. CASE SubmitFails
        BY <3>4 DEF SubmitFails, SubmitStates, ResponseTypes
      <3> QED
        BY <1>7, <3>1, <3>2, <3>3, <3>4, <3>5
    <2> HIDE DEF Con
    <2>4. CASE \E next \in SubmitStates : Become(Silently(Con(next)), events)
      BY <2>1, <2>2, <2>4, <2>7, QuietStep
    <2>5. CASE \E next \in SubmitStates, type \in ResponseTypes :
                  Become(Reply(Con(next), type), events)
      BY <2>1, <2>2, <2>5, ReplyStep
    <2> QED
      BY <2>3, <2>4, <2>5
  <1>8. CASE UserSubmits \/ UserOpens
    BY <1>8, UserStep
  <1>9. CASE Cleanup
    BY <1>9, CleanupStep
  <1>10. CASE Break
    BY <1>10, BreakStep
  <1>11. CASE UNCHANGED pollVars
    <2>1. UNCHANGED <<browser, connection, requests, aborted, events, up, down>>
      BY <1>11 DEF pollVars
    <2> QED
      BY <2>1 DEF PollInv, PollTypeOK, SentOnce, DeathsAreReal, RequestsKept,
                  OpenIsSomewhere, SuspectIsSaved, DeletedIsStopping, NumbersGrow,
                  Stopping, Underway, Arrived, Happening, Posted, IsCarried, Carrying,
                  Sent, Told, Queued
  <1> QED
    BY <1>1, <1>2, <1>3, <1>4, <1>5, <1>6, <1>7, <1>8, <1>9, <1>10, <1>11
       DEF PollNext, Serve

LEMMA PollInvariant == PollSpec => []PollInv
  BY PollInitInv, PollStep, PTL DEF PollSpec

\* FCGIClientConnection::reply and handleRequest: the responses of a session leave
\* the server in the order of their numbers, whatever requests come, break, are
\* replaced, or are released by the cleanup in between.
THEOREM PollLeaveInOrder == PollSpec => []LeaveInOrder
  <1>1. PollInv => LeaveInOrder
    BY OrderByParts DEF PollInv, PollTypeOK, NumbersGrow
  <1> QED
    BY <1>1, PollInvariant, PTL

\* FCGIClientConnection::handleRequest, onDeath and isDead: while the session lives,
\* each of its HTTP requests is the pending one or is about to be handled or answered.
THEOREM PollNoRequestForgotten == PollSpec => []NoRequestForgotten
  <1>1. PollInv => NoRequestForgotten
    BY DEF PollInv, RequestsKept, IsCarried, Happening, ToSet, NoRequestForgotten
  <1> QED
    BY <1>1, PollInvariant, PTL

\* ClientActorFolk::periodicCleanup: only the session of a browser whose handler
\* threw, or is about to, is deleted.
THEOREM PollLiveSessionKept == PollSpec => []LiveSessionKept
  <1>1. PollInv => LiveSessionKept
    BY DEF PollInv, DeletedIsStopping, Stopping, LiveSessionKept
  <1> QED
    BY <1>1, PollInvariant, PTL
==============================================================================
