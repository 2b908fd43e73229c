---------------------------- MODULE OTSystem_proofs ----------------------------
(***************************************************************************)
(* Nothing a user does is lost on the way to the server's history, or gets *)
(* there twice.                                                            *)
(*                                                                         *)
(* The proofs do not look into the transformation: they follow the number  *)
(* of operations of each delta through the client's queue, its submit, the *)
(* history and the acknowledgement.                                        *)
(***************************************************************************)
EXTENDS OTSystem, SequenceLemmas

\* The client tells acknowledgements by their author, so that two sessions of
\* one user would take each other's.
OneSessionEach == \A c, d \in Clients : AuthorOf[c] = AuthorOf[d] => c = d

\* The null entries of m_deltas are no deltas.
NoDeltaIsNone ==
    \A author, sender, ops :
        NoDelta # [author |-> author, sender |-> sender, ops |-> ops]

-----------------------------------------------------------------------------
(* The lists of operations. *)

\* A delta keeps its number of operations when it is moved past others.
LEMMA MovedLength ==
    ASSUME NEW theirs, NEW ops, IsSequence(ops)
    PROVE  /\ IsSequence(MoveAllPast(theirs, ops).ops)
           /\ Len(MoveAllPast(theirs, ops).ops) = Len(ops)
  <1> DEFINE n == Len(ops)
             first == [ok |-> TRUE, theirs |-> theirs, ops |-> <<>>]
             Next(moved, i) == AllCrossed(moved, MovePast(moved.theirs, ops[i]))
             Runs(f, k) == f = [i \in 0..k |-> IF i = 0 THEN first ELSE Next(f[i - 1], i)]
             after == CHOOSE f : Runs(f, n)
  <1>1. n \in Nat
    BY DEF IsSequence
  <1>2. MoveAllPast(theirs, ops) = after[n]
    BY DEF MoveAllPast
  <1>3. \A moved : \A i : Next(moved, i).ops
                             = Append(moved.ops, MovePast(moved.theirs, ops[i]).op)
    BY DEF AllCrossed
  <1>4. first.ops = <<>>
    OBVIOUS
  <1> HIDE DEF n, first, Next
  <1>5. \E f : Runs(f, n)
    <2> DEFINE T == {k \in Nat : \E f : Runs(f, k)}
    <2>1. 0 \in T
      <3> DEFINE f == [i \in 0..0 |-> first]
      <3>1. Runs(f, 0)
        OBVIOUS
      <3> QED
        BY <3>1
    <2>2. ASSUME NEW k \in Nat, k \in T
          PROVE  k + 1 \in T
      <3>1. PICK h : Runs(h, k)
        BY <2>2
      <3> DEFINE g == [i \in 0..(k + 1) |-> IF i <= k THEN h[i] ELSE Next(h[k], k + 1)]
      <3>2. ASSUME NEW i \in 0..(k + 1)
            PROVE  g[i] = IF i = 0 THEN first ELSE Next(g[i - 1], i)
        <4>1. CASE i <= k
          <5>1. h[i] = IF i = 0 THEN first ELSE Next(h[i - 1], i)
            BY <3>1, <4>1
          <5>2. i # 0 => g[i - 1] = h[i - 1]
            BY <4>1
          <5> QED
            BY <4>1, <5>1, <5>2
        <4>2. CASE i = k + 1
          BY <4>2
        <4> QED
          BY <4>1, <4>2
      <3>3. g = [i \in 0..(k + 1) |-> g[i]]
        OBVIOUS
      <3>4. Runs(g, k + 1)
        <4> HIDE DEF g
        <4> QED
          BY <3>2, <3>3
      <3>5. \E f : Runs(f, k + 1)
        <4> HIDE DEF g, Runs
        <4> QED
          BY <3>4
      <3> QED
        BY <3>5
    <2>3. n \in T
      <3> HIDE DEF T
      <3> QED
        BY <1>1, <2>1, <2>2, SetInduction
    <2> QED
      BY <2>3
  <1>6. Runs(after, n)
    <2> HIDE DEF Runs
    <2> QED
      BY <1>5
  <1> HIDE DEF after
  <1>7. \A i \in 0..n : after[i] = IF i = 0 THEN first ELSE Next(after[i - 1], i)
    BY <1>6
  <1> DEFINE T == {k \in Nat : k <= n => /\ IsSequence(after[k].ops)
                                         /\ Len(after[k].ops) = k}
  <1>8. 0 \in T
    <2>1. IsSequence(<<>>) /\ Len(<<>>) = 0
      BY EmptySeq, SequenceOfItsElements
    <2> QED
      BY <1>1, <1>4, <1>7, <2>1
  <1>9. ASSUME NEW k \in Nat, k \in T
        PROVE  k + 1 \in T
    <2> SUFFICES ASSUME k + 1 <= n
                 PROVE  IsSequence(after[k + 1].ops) /\ Len(after[k + 1].ops) = k + 1
      OBVIOUS
    <2>1. IsSequence(after[k].ops) /\ Len(after[k].ops) = k
      BY <1>1, <1>9
    <2>2. k + 1 \in 0..n /\ k + 1 # 0 /\ (k + 1) - 1 = k
      BY <1>1
    <2>3. after[k + 1] = Next(after[k], k + 1)
      BY <1>7, <2>2
    <2> DEFINE e == MovePast(after[k].theirs, ops[k + 1]).op
    <2>10. after[k + 1].ops = Append(after[k].ops, e)
      BY <1>3, <2>3
    <2> HIDE DEF e
    <2>4. IsSequence(Append(after[k].ops, e))
      BY <2>1, AppendToSet
    <2>5. Len(Append(after[k].ops, e)) = Len(after[k].ops) + 1
      <3>1. after[k].ops \in Seq(ToSet(after[k].ops) \cup {e})
        BY <2>1, SeqMonotonic DEF IsSequence
      <3> QED
        BY <3>1, AppendProperties
    <2> QED
      BY <2>1, <2>4, <2>5, <2>10
  <1>10. n \in T
    <2> HIDE DEF T
    <2> QED
      BY <1>1, <1>8, <1>9, SetInduction
  <1> QED
    BY <1>1, <1>2, <1>10 DEF n

\* Regrouping gives every delta as many operations as it had.
LEMMA RegroupedLengths ==
    ASSUME NEW queue, IsLists(queue), NEW ops
    PROVE  SameLengths(Regrouped(queue, ops), queue)
  <1> DEFINE n == Len(queue)
             before(i) == Len(FlattenSeq(SubSeq(queue, 1, i - 1)))
             part(i) == SubSeq(ops, before(i) + 1, before(i) + Len(queue[i]))
             r == Regrouped(queue, ops)
  <1>1. PICK U : queue \in Seq(Seq(U))
    BY ListsAreTyped
  <1>2. n \in Nat /\ DOMAIN queue = 1..n /\ \A i \in 1..n : Len(queue[i]) \in Nat
    BY <1>1, ListsAreTyped
  <1>3. r = [i \in 1..n |-> part(i)]
    BY <1>2 DEF Regrouped
  <1>4. ASSUME NEW i \in 1..n
        PROVE  IsSequence(part(i)) /\ Len(part(i)) = Len(queue[i])
    <2>1. SubSeq(queue, 1, i - 1) \in Seq(Seq(U))
      <3>1. 1 \in Int /\ i - 1 \in Int /\ \A j \in 1..(i - 1) : queue[j] \in Seq(U)
        BY <1>1, <1>2
      <3> DEFINE S == Seq(U)
                 k == i - 1
      <3> HIDE DEF S, k
      <3>2. SubSeq(queue, 1, k) \in Seq(S)
        BY <3>1, SubSeqProperties DEF S, k
      <3> QED
        BY <3>2 DEF S, k
    <2>2. before(i) \in Nat
      BY <2>1, ListsOf, FlattenIsSequence DEF Total
    <2> DEFINE b == before(i)
               k == Len(queue[i])
               S == {ops[j] : j \in (b + 1)..(b + k)}
    <2>3. b \in Nat /\ k \in Nat
      BY <1>2, <2>2
    <2> HIDE DEF b, k
    <2> DEFINE lo == b + 1
               hi == b + k
               s == SubSeq(ops, lo, hi)
    <2>4. lo \in Int /\ hi \in Int /\ \A j \in lo..hi : ops[j] \in S
      BY <2>3
    <2>5. (IF lo <= hi THEN hi - lo + 1 ELSE 0) = k
      BY <2>3
    <2> HIDE DEF S, lo, hi
    <2>6. s \in Seq(S) /\ Len(s) = IF lo <= hi THEN hi - lo + 1 ELSE 0
      BY <2>4, SubSeqProperties
    <2>7. Len(s) = k /\ IsSequence(s)
      BY <2>5, <2>6, SequenceOfItsElements
    <2>8. part(i) = s
      BY DEF lo, hi, b, k
    <2> HIDE DEF s, part
    <2> QED
      BY <2>7, <2>8 DEF k
  <1>5. r \in Seq({part(i) : i \in 1..n}) /\ Len(r) = n
    <2> DEFINE S == {part(i) : i \in 1..n}
    <2>1. r \in [1..n -> S]
      <3> HIDE DEF part, r, n
      <3> QED
        BY <1>3
    <2> HIDE DEF S, r, n
    <2>2. r \in Seq(S) /\ Len(r) = n
      BY <1>2, <2>1
    <2> QED
      BY <2>2 DEF S
  <1>6. IsSequence(r)
    BY <1>5, SequenceOfItsElements
  <1>7. \A i \in 1..n : IsSequence(r[i]) /\ Len(r[i]) = Len(queue[i])
    <2> HIDE DEF part, r
    <2> QED
      BY <1>3, <1>4
  <1> QED
    BY <1>5, <1>6, <1>7 DEF SameLengths, IsLists

\* Gathering moves operations from one delta into another; a delta that has been
\* submitted is left alone.
LEMMA GatheredTotal ==
    ASSUME NEW queue, IsLists(queue), NEW pending
    PROVE  LET gathered == GatherOutgoing(queue, pending)
           IN  /\ IsLists(gathered) /\ Total(gathered) = Total(queue)
               /\ queue # <<>> => gathered # <<>>
               /\ pending /\ Len(queue) >= 2 => Head(gathered) = Head(queue)
  <1> DEFINE f == Front(queue)
             ff == Front(f)
             l == Last(f) \o Last(queue)
             g == Append(ff, l)
  <1>1. Len(queue) \in Nat
    BY ListsAreTyped
  <1>2. CASE GatherOutgoing(queue, pending) = queue
    BY <1>2
  <1>3. CASE GatherOutgoing(queue, pending) # queue
    <2>1. /\ Len(queue) >= 2 /\ (pending => Len(queue) >= 3)
          /\ GatherOutgoing(queue, pending) = g
      BY <1>1, <1>3 DEF GatherOutgoing
    <2>2. queue # <<>>
      BY <2>1
    <2>3. /\ IsLists(f) /\ IsSequence(Last(queue)) /\ Len(f) = Len(queue) - 1
          /\ \A i \in 1..(Len(queue) - 1) : f[i] = queue[i]
          /\ Total(queue) = Total(f) + Len(Last(queue))
      BY <2>2, FrontAndLast
    <2>4. f # <<>>
      BY <1>1, <2>1, <2>3
    <2> HIDE DEF f
    <2>5. /\ IsLists(ff) /\ IsSequence(Last(f)) /\ Len(ff) = Len(f) - 1
          /\ \A i \in 1..(Len(f) - 1) : ff[i] = f[i]
          /\ Total(f) = Total(ff) + Len(Last(f))
      BY <2>3, <2>4, FrontAndLast
    <2>6. IsSequence(l) /\ Len(l) = Len(Last(f)) + Len(Last(queue))
      <3> DEFINE a == Last(f)
                 b == Last(queue)
                 S == ToSet(a) \cup ToSet(b)
      <3>1. a \in Seq(ToSet(a)) /\ b \in Seq(ToSet(b))
        BY <2>3, <2>5 DEF IsSequence
      <3>2. ToSet(a) \subseteq S /\ ToSet(b) \subseteq S
        OBVIOUS
      <3> HIDE DEF a, b, S
      <3>3. a \in Seq(S) /\ b \in Seq(S)
        BY <3>1, <3>2, SeqMonotonic
      <3>4. a \o b \in Seq(S) /\ Len(a \o b) = Len(a) + Len(b)
        BY <3>3, ConcatProperties
      <3> QED
        BY <3>4, SequenceOfItsElements DEF a, b
    <2> HIDE DEF ff, l
    <2>7. IsLists(g) /\ Total(g) = Total(ff) + Len(l) /\ Len(g) = Len(ff) + 1
      BY <2>5, <2>6, TotalOfAppend
    <2>8. /\ Total(ff) \in Nat /\ Len(Last(f)) \in Nat /\ Len(Last(queue)) \in Nat
          /\ Len(ff) \in Nat
      BY <2>3, <2>5, FlattenIsSequence DEF IsSequence, IsLists
    <2>9. Total(g) = Total(queue)
      <3> HIDE DEF g
      <3> QED
        BY <2>3, <2>5, <2>6, <2>7, <2>8
    <2>10. g # <<>>
      BY <2>7, <2>8
    <2>11. ASSUME pending
           PROVE  Head(g) = Head(queue)
      <3>1. 1 \in 1..Len(ff) /\ 1 \in 1..(Len(f) - 1) /\ 1 \in 1..(Len(queue) - 1)
        BY <1>1, <2>1, <2>3, <2>5, <2>11
      <3>2. ff[1] = queue[1]
        BY <2>3, <2>5, <3>1
      <3>3. ff \in Seq(ToSet(ff) \cup {l})
        BY <2>5, SeqMonotonic DEF IsLists, IsSequence
      <3>4. g[1] = ff[1]
        BY <3>1, <3>3, AppendProperties
      <3>5. Head(g) = g[1]
        BY <2>7, <2>10, TotalOfTail
      <3>6. Head(queue) = queue[1]
        BY <2>2, TotalOfTail
      <3> QED
        BY <3>2, <3>4, <3>5, <3>6
    <2> QED
      BY <2>1, <2>7, <2>9, <2>10, <2>11
  <1> QED
    BY <1>2, <1>3

-----------------------------------------------------------------------------
(* What is known of a client and its connection. *)

ClientFields ==
    {"view", "outgoing", "pending", "suspended", "serverVersion", "opened", "online",
     "blown", "toServer", "inbox", "made"}

ClientTyped(cl) ==
    /\ ClientFields \subseteq DOMAIN cl
    /\ cl.made \in Nat
    /\ IsLists(cl.outgoing)
    /\ cl.pending => cl.outgoing # <<>>

\* Nothing is in the document, so nothing can be edited.
Fresh(cl) == cl.view = <<>> /\ cl.outgoing = <<>> /\ ~cl.pending

\* n operations of the client are in the history: all that are not in its queue,
\* or all that are not behind the delta it has submitted.
Unacked(cl, n) == cl.made = n + Total(cl.outgoing)
Acked(cl, n) == cl.outgoing # <<>> /\ cl.made = n + Total(Tail(cl.outgoing))

IsSubmit(m) ==
    {"type", "base", "ops"} \subseteq DOMAIN m /\ m.type = "submit" /\ IsSequence(m.ops)

Opening == [type |-> "open"]

Submitting(ts) == \E m : IsSubmit(m) /\ (ts = <<m>> \/ ts = <<m, Opening>>)
Opens(ts) == ts = <<Opening>> \/ \E m : IsSubmit(m) /\ ts = <<m, Opening>>

\* One submit at a time, and one open request behind it.
RequestsTyped(ts) == ts = <<>> \/ Submitting(ts) \/ Opens(ts)

IsBroadcast(u) ==
    \E s \in Clients : \E ops :
        u.deltas = <<[author |-> AuthorOf[s], sender |-> s, ops |-> ops]>>

IsSnapshot(u) ==
    \E author, ops, more :
        u.deltas = <<[author |-> author, sender |-> Nobody, ops |-> ops],
                     [author |-> author, sender |-> Nobody, ops |-> more]>>

IsUpdate(u) == {"deltas", "version"} \subseteq DOMAIN u /\ (IsBroadcast(u) \/ IsSnapshot(u))

FromMe(c, u) == u.deltas[1].author = AuthorOf[c]

\* A submit is under way while its delta is not in the history; from then on an
\* update by the client's own user is its acknowledgement.
SubmitCounted(c, cl, n) ==
    Submitting(cl.toServer) =>
        /\ cl.pending /\ Unacked(cl, n)
        /\ Len(cl.toServer[1].ops) = Len(Head(cl.outgoing))
        /\ \A i \in 1..Len(cl.inbox) : ~FromMe(c, cl.inbox[i])

InboxCounted(c, cl, n) ==
    \A i \in 1..Len(cl.inbox) :
        /\ IsUpdate(cl.inbox[i])
        /\ FromMe(c, cl.inbox[i]) =>
              /\ cl.pending => Acked(cl, n)
              /\ ~cl.pending => i = 1 /\ Fresh(cl)
              /\ \A j \in 1..Len(cl.inbox) : FromMe(c, cl.inbox[j]) => i = j
        /\ InitialDoc # <<>> /\ ~IsBroadcast(cl.inbox[i]) => i = 1 /\ Fresh(cl)

ClientCounted(c, cl, n) ==
    /\ n \in Nat
    /\ ClientTyped(cl) /\ RequestsTyped(cl.toServer) /\ IsSequence(cl.inbox)
    /\ Unacked(cl, n) \/ (cl.pending /\ Acked(cl, n))
    /\ SubmitCounted(c, cl, n)
    /\ InboxCounted(c, cl, n)

\* A client is subscribed once its open request has been served; the snapshot it
\* gets then only is its acknowledgement if it has made the wave itself.
Subscribed(c, cl, n, srv) ==
    /\ c \notin srv.subscribers => cl.inbox = <<>>
    /\ ~cl.opened => cl.toServer = <<>> /\ Fresh(cl) /\ c \notin srv.subscribers
    /\ Opens(cl.toServer) =>
          /\ c \notin srv.subscribers /\ cl.opened
          /\ ~cl.pending => Fresh(cl)
          /\ InitialDoc # <<>> => ~cl.pending
          /\ cl.pending /\ srv.version > 0 /\ srv.creator = AuthorOf[c] =>
                Acked(cl, n) /\ ~Submitting(cl.toServer)

ServerTyped ==
    /\ {"version", "deltas", "doc", "creator", "subscribers"} \subseteq DOMAIN server
    /\ server.version \in Nat
    /\ IsSequence(server.deltas)
    /\ \A i \in 1..Len(server.deltas) :
          server.deltas[i] # NoDelta => IsSequence(server.deltas[i].ops)
    /\ InitialDoc # <<>> => server.version > 0

SystemInv ==
    /\ ServerTyped
    /\ client = [c \in Clients |-> client[c]]
    /\ \A c \in Clients : /\ ClientCounted(c, client[c], Committed(c))
                          /\ Subscribed(c, client[c], Committed(c), server)

-----------------------------------------------------------------------------
(* The methods of the OTProcessor. *)

\* From cl to new the user has made k operations and, at most, the next delta has
\* been submitted.
Worked(cl, new, k) ==
    /\ ClientFields \subseteq DOMAIN new /\ IsLists(new.outgoing)
    /\ new.inbox = cl.inbox /\ new.opened = cl.opened /\ new.online = cl.online
    /\ new.made = cl.made + k
    /\ Total(new.outgoing) = Total(cl.outgoing) + k
    /\ cl.pending =>
          /\ new.pending /\ new.toServer = cl.toServer
          /\ new.outgoing # <<>> /\ Len(Head(new.outgoing)) = Len(Head(cl.outgoing))
    /\ ~cl.pending =>
          \/ ~new.pending /\ new.toServer = cl.toServer
          \/ /\ new.pending /\ new.outgoing # <<>>
             /\ \E m : /\ IsSubmit(m) /\ Len(m.ops) = Len(Head(new.outgoing))
                       /\ new.toServer = Append(cl.toServer, m)

\* The client stays typed.
LEMMA WorkedTyped ==
    ASSUME NEW cl, ClientTyped(cl), NEW new, NEW k \in Nat, Worked(cl, new, k)
    PROVE  ClientTyped(new)
  BY DEF ClientTyped, Worked

\* Two methods, one after the other, are like one that makes both their operations.
LEMMA WorkedTwice ==
    ASSUME NEW a, ClientTyped(a), NEW k \in Nat, NEW l \in Nat,
           NEW b, Worked(a, b, k), NEW d, Worked(b, d, l)
    PROVE  Worked(a, d, k + l)
  <1>1. Total(a.outgoing) \in Nat /\ a.made \in Nat
    BY FlattenIsSequence DEF ClientTyped
  <1>2. d.made = a.made + (k + l) /\ Total(d.outgoing) = Total(a.outgoing) + (k + l)
    BY <1>1 DEF Worked
  <1>3. CASE a.pending
    BY <1>2, <1>3 DEF Worked
  <1>4. CASE ~a.pending /\ ~b.pending
    BY <1>2, <1>4 DEF Worked
  <1>5. CASE ~a.pending /\ b.pending
    <2>1. PICK m : /\ IsSubmit(m) /\ Len(m.ops) = Len(Head(b.outgoing))
                   /\ b.toServer = Append(a.toServer, m)
      BY <1>5 DEF Worked
    <2>2. Len(m.ops) = Len(Head(d.outgoing)) /\ d.toServer = Append(a.toServer, m)
      BY <1>5, <2>1 DEF Worked
    <2> QED
      BY <1>2, <1>5, <2>1, <2>2 DEF Worked
  <1> QED
    BY <1>3, <1>4, <1>5

\* submitNext sends the head of the queue, if nothing keeps it from it.
LEMMA SubmitNextWorks ==
    ASSUME NEW cl, ClientTyped(cl), ~cl.pending
    PROVE  /\ Worked(cl, SubmitNext(cl), 0)
           /\ cl.online /\ cl.outgoing # <<>> /\ ~cl.suspended => SubmitNext(cl).pending
  <1> DEFINE new == SubmitNext(cl)
             m == [type |-> "submit", base |-> cl.serverVersion, ops |-> Head(cl.outgoing)]
  <1>1. Total(cl.outgoing) \in Nat
    BY FlattenIsSequence DEF ClientTyped
  <1>2. CASE ~cl.online \/ cl.outgoing = <<>> \/ cl.suspended
    <2>1. new = cl
      BY <1>2 DEF SubmitNext
    <2> HIDE DEF new
    <2>2. Worked(cl, new, 0)
      BY <1>1, <2>1 DEF Worked, ClientTyped
    <2> QED
      BY <1>2, <2>2 DEF new
  <1>3. CASE cl.online /\ cl.outgoing # <<>> /\ ~cl.suspended
    <2>1. new = [cl EXCEPT !.pending = TRUE, !.toServer = Append(@, m)]
      BY <1>3 DEF SubmitNext
    <2>2. IsSubmit(m) /\ Len(m.ops) = Len(Head(cl.outgoing))
      BY <1>3, TotalOfTail DEF IsSubmit, ClientTyped
    <2> HIDE DEF new, m
    <2>3. /\ new.pending /\ new.toServer = Append(cl.toServer, m)
          /\ new.outgoing = cl.outgoing /\ new.inbox = cl.inbox /\ new.made = cl.made
          /\ new.opened = cl.opened /\ new.online = cl.online
          /\ ClientFields \subseteq DOMAIN new
      BY <2>1 DEF ClientTyped, ClientFields
    <2>4. Worked(cl, new, 0)
      BY <1>1, <1>3, <2>2, <2>3 DEF Worked, ClientTyped
    <2> QED
      BY <2>3, <2>4 DEF new
  <1> QED
    BY <1>2, <1>3

\* handleSend puts one operation into the queue, gathered or not.
LEMMA HandleSendWorks ==
    ASSUME NEW cl, ClientTyped(cl), NEW op
    PROVE  /\ Worked(cl, HandleSend(cl, op), 1)
           /\ HandleSend(cl, op).outgoing # <<>>
           /\ cl.suspended /\ ~cl.pending =>
                 HandleSend(cl, op).suspended /\ ~HandleSend(cl, op).pending
  <1> DEFINE applied == [cl EXCEPT !.view = ApplyMutation(@, op).doc,
                                   !.outgoing = Append(@, <<op>>),
                                   !.made = @ + 1]
             q == Append(cl.outgoing, <<op>>)
             gathered == [applied EXCEPT !.outgoing = GatherOutgoing(@, cl.pending)]
             g == GatherOutgoing(q, cl.pending)
             new == HandleSend(cl, op)
  <1>1. IsSequence(<<op>>) /\ Len(<<op>>) = 1
    <2>1. <<op>> \in Seq({op}) /\ Len(<<op>>) = 1
      OBVIOUS
    <2> QED
      BY <2>1, SequenceOfItsElements
  <1>2. /\ IsLists(q) /\ Total(q) = Total(cl.outgoing) + 1
        /\ Len(q) = Len(cl.outgoing) + 1
    <2>1. IsLists(cl.outgoing)
      BY DEF ClientTyped
    <2> QED
      BY <1>1, <2>1, TotalOfAppend
  <1>3. /\ ClientFields \subseteq DOMAIN applied /\ applied.outgoing = q
        /\ applied.made = cl.made + 1 /\ applied.pending = cl.pending
        /\ applied.suspended = cl.suspended /\ applied.inbox = cl.inbox
        /\ applied.toServer = cl.toServer /\ applied.opened = cl.opened
        /\ applied.online = cl.online
    BY DEF ClientTyped, ClientFields
  <1>4. cl.made \in Nat /\ Total(cl.outgoing) \in Nat /\ Len(cl.outgoing) \in Nat
    BY FlattenIsSequence, ListsAreTyped DEF ClientTyped
  <1>5. /\ q # <<>>
        /\ cl.outgoing # <<>> => Len(q) >= 2 /\ Head(q) = Head(cl.outgoing)
    <2>1. PICK U : cl.outgoing \in Seq(Seq(U))
      BY ListsAreTyped DEF ClientTyped
    <2> DEFINE S == Seq(U) \cup {<<op>>}
    <2>2. cl.outgoing \in Seq(S) /\ <<op>> \in S
      BY <2>1, SeqMonotonic
    <2> HIDE DEF S
    <2>3. /\ Append(cl.outgoing, <<op>>) # <<>>
          /\ Head(Append(cl.outgoing, <<op>>)) = IF cl.outgoing = <<>> THEN <<op>>
                                                  ELSE Head(cl.outgoing)
      BY <2>2, AppendProperties, HeadTailAppend
    <2>4. cl.outgoing # <<>> => Len(cl.outgoing) # 0
      BY <2>1, EmptySeq
    <2> QED
      BY <1>2, <1>4, <2>3, <2>4
  <1>6. /\ IsLists(g) /\ Total(g) = Total(q) /\ g # <<>>
        /\ cl.pending /\ Len(q) >= 2 => Head(g) = Head(q)
    <2> HIDE DEF q
    <2> QED
      BY <1>2, <1>5, GatheredTotal
  <1>7. /\ ClientFields \subseteq DOMAIN gathered /\ gathered.outgoing = g
        /\ gathered.made = cl.made + 1 /\ gathered.pending = cl.pending
        /\ gathered.suspended = cl.suspended /\ gathered.inbox = cl.inbox
        /\ gathered.toServer = cl.toServer /\ gathered.opened = cl.opened
        /\ gathered.online = cl.online
    <2> HIDE DEF applied, q
    <2> QED
      BY <1>3 DEF ClientFields
  <1>8. /\ ~cl.pending /\ ~cl.suspended => new = SubmitNext(applied)
        /\ cl.pending \/ cl.suspended => new = applied \/ new = gathered
    BY DEF HandleSend
  <1> HIDE DEF applied, gathered, new, q, g
  <1>9. Worked(cl, applied, 1)
    <2>1. cl.pending => Head(q) = Head(cl.outgoing)
      BY <1>5 DEF ClientTyped
    <2> QED
      BY <1>2, <1>3, <1>4, <1>5, <2>1 DEF Worked
  <1>10. Worked(cl, gathered, 1)
    <2>1. cl.pending => Head(g) = Head(cl.outgoing)
      BY <1>5, <1>6 DEF ClientTyped
    <2> QED
      BY <1>2, <1>4, <1>6, <1>7, <2>1 DEF Worked
  <1>11. CASE ~cl.pending /\ ~cl.suspended
    <2>1. ClientTyped(applied)
      BY <1>9, WorkedTyped
    <2>2. Worked(applied, new, 0)
      BY <1>3, <1>8, <1>11, <2>1, SubmitNextWorks
    <2>3. Worked(cl, new, 1 + 0)
      BY <1>9, <2>2, WorkedTwice
    <2>4. new.outgoing = q
      BY <1>3, <1>8, <1>11, <2>1 DEF SubmitNext, ClientTyped, ClientFields
    <2> QED
      BY <1>5, <1>11, <2>3, <2>4 DEF new
  <1>12. CASE cl.pending \/ cl.suspended
    BY <1>3, <1>5, <1>6, <1>7, <1>8, <1>9, <1>10, <1>12 DEF new
  <1> QED
    BY <1>11, <1>12

\* Suspending changes neither queue nor connection.
LEMMA SuspendWorks ==
    ASSUME NEW cl, ClientTyped(cl)
    PROVE  /\ Worked(cl, SuspendSending(cl), 0)
           /\ SuspendSending(cl).suspended /\ SuspendSending(cl).pending = cl.pending
           /\ SuspendSending(cl).view = cl.view
  <1> DEFINE new == SuspendSending(cl)
  <1>1. Total(cl.outgoing) \in Nat
    BY FlattenIsSequence DEF ClientTyped
  <1>2. /\ ClientFields \subseteq DOMAIN new /\ new.outgoing = cl.outgoing
        /\ new.made = cl.made /\ new.pending = cl.pending /\ new.inbox = cl.inbox
        /\ new.toServer = cl.toServer /\ new.opened = cl.opened
        /\ new.online = cl.online /\ new.suspended /\ new.view = cl.view
    BY DEF SuspendSending, ClientTyped, ClientFields
  <1> HIDE DEF new
  <1>3. Worked(cl, new, 0)
    BY <1>1, <1>2 DEF Worked, ClientTyped
  <1> QED
    BY <1>2, <1>3 DEF new

\* Resuming sends what has piled up, if the client is online.
LEMMA ResumeWorks ==
    ASSUME NEW cl, ClientTyped(cl)
    PROVE  /\ Worked(cl, ResumeSending(cl), 0)
           /\ cl.online /\ cl.outgoing # <<>> => ResumeSending(cl).pending
  <1> DEFINE resumed == [cl EXCEPT !.suspended = FALSE]
             new == ResumeSending(cl)
  <1>1. Total(cl.outgoing) \in Nat
    BY FlattenIsSequence DEF ClientTyped
  <1>2. /\ ClientFields \subseteq DOMAIN resumed /\ resumed.outgoing = cl.outgoing
        /\ resumed.made = cl.made /\ resumed.pending = cl.pending
        /\ resumed.inbox = cl.inbox /\ resumed.toServer = cl.toServer
        /\ resumed.opened = cl.opened /\ resumed.online = cl.online
        /\ ~resumed.suspended
    BY DEF ClientTyped, ClientFields
  <1>3. new = IF cl.pending THEN resumed ELSE SubmitNext(resumed)
    BY DEF ResumeSending
  <1> HIDE DEF new, resumed
  <1>4. Worked(cl, resumed, 0) /\ ClientTyped(resumed)
    BY <1>1, <1>2 DEF Worked, ClientTyped
  <1>5. CASE cl.pending
    BY <1>2, <1>3, <1>4, <1>5 DEF new
  <1>6. CASE ~cl.pending
    <2>1. /\ Worked(resumed, new, 0)
          /\ cl.online /\ cl.outgoing # <<>> => new.pending
      BY <1>2, <1>3, <1>4, <1>6, SubmitNextWorks
    <2>2. Worked(cl, new, 0 + 0)
      BY <1>4, <2>1, WorkedTwice
    <2> QED
      BY <2>1, <2>2 DEF new
  <1> QED
    BY <1>5, <1>6

\* A delta that is not the acknowledgement is moved past what is queued.
LEMMA HandleReceiveWorks ==
    ASSUME NEW c, NEW cl, ClientTyped(cl), NEW d, ~TakesAsAck(c, cl, d)
    PROVE  /\ Worked(cl, HandleReceive(c, cl, d), 0)
           /\ HandleReceive(c, cl, d).pending = cl.pending
  <1> DEFINE new == HandleReceive(c, cl, d)
             x == MoveAllPast(d.ops, FlattenSeq(cl.outgoing))
             r == Regrouped(cl.outgoing, x.ops)
  <1>1. Total(cl.outgoing) \in Nat
    BY FlattenIsSequence DEF ClientTyped
  <1>2. SameLengths(r, cl.outgoing)
    BY RegroupedLengths DEF ClientTyped
  <1>3. /\ IsLists(r) /\ Total(r) = Total(cl.outgoing)
        /\ r = <<>> <=> cl.outgoing = <<>>
        /\ cl.outgoing # <<>> => Len(Head(r)) = Len(Head(cl.outgoing))
    <2> HIDE DEF r
    <2> QED
      BY <1>2, SameLengthsSameTotals DEF SameLengths
  <1>4. new = cl \/ new = ApplyReceived(cl, x)
    BY DEF HandleReceive
  <1>5. CASE new = cl
    <2> HIDE DEF new
    <2>1. Worked(cl, new, 0)
      BY <1>1, <1>5 DEF Worked, ClientTyped
    <2> QED
      BY <1>5, <2>1 DEF new
  <1>6. CASE new = ApplyReceived(cl, x)
    <2>1. /\ ClientFields \subseteq DOMAIN new /\ new.outgoing \in {cl.outgoing, r}
          /\ new.made = cl.made /\ new.pending = cl.pending /\ new.inbox = cl.inbox
          /\ new.toServer = cl.toServer /\ new.opened = cl.opened
          /\ new.online = cl.online
      <3> HIDE DEF new, x
      <3> QED
        BY <1>6 DEF ApplyReceived, ClientTyped, ClientFields
    <2> HIDE DEF new, x, r
    <2>2. Worked(cl, new, 0)
      BY <1>1, <1>3, <2>1 DEF Worked, ClientTyped
    <2> QED
      BY <2>1, <2>2 DEF new
  <1> QED
    BY <1>4, <1>5, <1>6

\* A new server version lets the next delta go.
LEMMA SetResultingVersionWorks ==
    ASSUME NEW cl, ClientTyped(cl), NEW version
    PROVE  Worked(cl, SetResultingVersion(cl, version), 0)
  <1> DEFINE told == [cl EXCEPT !.serverVersion = version]
             new == SetResultingVersion(cl, version)
  <1>1. Total(cl.outgoing) \in Nat
    BY FlattenIsSequence DEF ClientTyped
  <1>2. /\ ClientFields \subseteq DOMAIN told /\ told.outgoing = cl.outgoing
        /\ told.made = cl.made /\ told.pending = cl.pending /\ told.inbox = cl.inbox
        /\ told.toServer = cl.toServer /\ told.opened = cl.opened
        /\ told.online = cl.online
    BY DEF ClientTyped, ClientFields
  <1>3. \/ new = cl
        \/ cl.pending /\ new = told
        \/ ~cl.pending /\ new = SubmitNext(told)
    BY DEF SetResultingVersion
  <1> HIDE DEF new, told
  <1>4. Worked(cl, told, 0) /\ ClientTyped(told) /\ Worked(cl, cl, 0)
    BY <1>1, <1>2 DEF Worked, ClientTyped
  <1>5. CASE ~cl.pending /\ new = SubmitNext(told)
    <2>1. Worked(told, new, 0)
      BY <1>2, <1>4, <1>5, SubmitNextWorks
    <2>2. Worked(cl, new, 0 + 0)
      BY <1>4, <2>1, WorkedTwice
    <2> QED
      BY <2>2 DEF new
  <1> QED
    BY <1>3, <1>4, <1>5 DEF new

\* The deltas of an update are handled one after the other.
LEMMA ReceiveRuns ==
    ASSUME NEW c, NEW cl, NEW u, NEW d, NEW e
    PROVE  /\ u.deltas = <<d>> =>
                 ReceiveUpdate(c, cl, u) =
                    SetResultingVersion(HandleReceive(c, cl, d), u.version)
           /\ u.deltas = <<d, e>> =>
                 ReceiveUpdate(c, cl, u) =
                    SetResultingVersion(
                        HandleReceive(c, HandleReceive(c, cl, d), e), u.version)
  <1> DEFINE Handled(x, y) == HandleReceive(c, x, y)
             Runs(f) == f = [i \in 0..Len(u.deltas) |->
                                IF i = 0 THEN cl ELSE Handled(f[i - 1], u.deltas[i])]
             after == CHOOSE f : Runs(f)
  <1>1. ReceiveUpdate(c, cl, u) = SetResultingVersion(after[Len(u.deltas)], u.version)
    BY DEF ReceiveUpdate
  <1> HIDE DEF Handled
  <1>2. ASSUME u.deltas = <<d>>
        PROVE  after[Len(u.deltas)] = Handled(cl, d)
    <2> DEFINE f == [i \in 0..1 |-> IF i = 0 THEN cl ELSE Handled(cl, d)]
    <2>1. Len(u.deltas) = 1 /\ u.deltas[1] = d
      BY <1>2
    <2>2. Runs(f)
      <3>1. \A i \in 0..1 : f[i] = IF i = 0 THEN cl ELSE Handled(f[i - 1], u.deltas[i])
        <4>1. f[0] = cl /\ f[1] = Handled(cl, d)
          OBVIOUS
        <4> HIDE DEF f
        <4> QED
          BY <2>1, <4>1
      <3>2. f = [i \in 0..1 |-> f[i]]
        OBVIOUS
      <3> HIDE DEF f
      <3> QED
        BY <2>1, <3>1, <3>2
    <2>3. Runs(after)
      <3> HIDE DEF Runs, f
      <3> QED
        BY <2>2
    <2> HIDE DEF after, f
    <2>4. after[0] = cl
      BY <2>1, <2>3
    <2>5. after[1] = Handled(after[0], d)
      BY <2>1, <2>3
    <2> QED
      BY <2>1, <2>4, <2>5
  <1>3. ASSUME u.deltas = <<d, e>>
        PROVE  after[Len(u.deltas)] = Handled(Handled(cl, d), e)
    <2> DEFINE f == [i \in 0..2 |-> IF i = 0 THEN cl
                                    ELSE IF i = 1 THEN Handled(cl, d)
                                    ELSE Handled(Handled(cl, d), e)]
    <2>1. Len(u.deltas) = 2 /\ u.deltas[1] = d /\ u.deltas[2] = e
      BY <1>3
    <2>2. Runs(f)
      <3>1. \A i \in 0..2 : f[i] = IF i = 0 THEN cl ELSE Handled(f[i - 1], u.deltas[i])
        <4>1. f[0] = cl /\ f[1] = Handled(cl, d) /\ f[2] = Handled(Handled(cl, d), e)
          OBVIOUS
        <4> HIDE DEF f
        <4> QED
          BY <2>1, <4>1
      <3>2. f = [i \in 0..2 |-> f[i]]
        OBVIOUS
      <3> HIDE DEF f
      <3> QED
        BY <2>1, <3>1, <3>2
    <2>3. Runs(after)
      <3> HIDE DEF Runs, f
      <3> QED
        BY <2>2
    <2> HIDE DEF after, f
    <2>4. after[0] = cl
      BY <2>1, <2>3
    <2>5. after[1] = Handled(after[0], d)
      BY <2>1, <2>3
    <2>6. after[2] = Handled(after[1], e)
      BY <2>1, <2>3
    <2> QED
      BY <2>1, <2>4, <2>5, <2>6
  <1> QED
    BY <1>1, <1>2, <1>3 DEF Handled

\* An update that acknowledges nothing leaves the number of queued operations alone.
LEMMA ReceiveWorks ==
    ASSUME NEW c, NEW cl, ClientTyped(cl), NEW u, IsUpdate(u),
           ~(cl.pending /\ FromMe(c, u))
    PROVE  Worked(cl, ReceiveUpdate(c, cl, u), 0)
  <1>1. ASSUME NEW d, u.deltas = <<d>>
        PROVE  Worked(cl, ReceiveUpdate(c, cl, u), 0)
    <2> DEFINE one == HandleReceive(c, cl, d)
               new == SetResultingVersion(one, u.version)
    <2>1. ReceiveUpdate(c, cl, u) = new
      BY <1>1, ReceiveRuns
    <2>2. ~TakesAsAck(c, cl, d)
      BY <1>1 DEF TakesAsAck, FromMe
    <2>3. Worked(cl, one, 0)
      BY <2>2, HandleReceiveWorks
    <2> HIDE DEF one
    <2>4. ClientTyped(one)
      BY <2>3, WorkedTyped
    <2>5. Worked(one, new, 0)
      BY <2>4, SetResultingVersionWorks
    <2> HIDE DEF new
    <2>6. Worked(cl, new, 0 + 0)
      BY <2>3, <2>5, WorkedTwice
    <2> QED
      BY <2>1, <2>6
  <1>2. ASSUME NEW d, NEW e, u.deltas = <<d, e>>, e.author = d.author
        PROVE  Worked(cl, ReceiveUpdate(c, cl, u), 0)
    <2> DEFINE one == HandleReceive(c, cl, d)
               two == HandleReceive(c, one, e)
               new == SetResultingVersion(two, u.version)
    <2>1. ReceiveUpdate(c, cl, u) = new
      BY <1>2, ReceiveRuns
    <2>2. ~TakesAsAck(c, cl, d)
      BY <1>2 DEF TakesAsAck, FromMe
    <2>3. Worked(cl, one, 0) /\ one.pending = cl.pending
      BY <2>2, HandleReceiveWorks
    <2> HIDE DEF one
    <2>4. ClientTyped(one)
      BY <2>3, WorkedTyped
    <2>5. ~TakesAsAck(c, one, e)
      BY <1>2, <2>3 DEF TakesAsAck, FromMe
    <2>6. Worked(one, two, 0)
      BY <2>4, <2>5, HandleReceiveWorks
    <2> HIDE DEF two
    <2>7. ClientTyped(two)
      BY <2>4, <2>6, WorkedTyped
    <2>8. Worked(two, new, 0)
      BY <2>7, SetResultingVersionWorks
    <2> HIDE DEF new
    <2>9. Worked(cl, two, 0 + 0)
      BY <2>3, <2>6, WorkedTwice
    <2>10. Worked(cl, new, 0 + 0 + 0)
      BY <2>8, <2>9, WorkedTwice
    <2> QED
      BY <2>1, <2>10
  <1>3. CASE IsBroadcast(u)
    BY <1>1, <1>3 DEF IsBroadcast
  <1>4. CASE IsSnapshot(u)
    <2>1. PICK author, ops, more :
             u.deltas = <<[author |-> author, sender |-> Nobody, ops |-> ops],
                          [author |-> author, sender |-> Nobody, ops |-> more]>>
      BY <1>4 DEF IsSnapshot
    <2> QED
      BY <1>2, <2>1
  <1> QED
    BY <1>3, <1>4 DEF IsUpdate

\* The first delta is the acknowledgement; what is behind it is not.
LEMMA ReceiveAcks ==
    ASSUME NEW c, NEW cl, ClientTyped(cl), ~cl.blown, NEW u, IsUpdate(u),
           cl.pending, FromMe(c, u)
    PROVE  \E mid :
              /\ ClientTyped(mid) /\ mid.outgoing = Tail(cl.outgoing) /\ ~mid.pending
              /\ mid.made = cl.made /\ mid.toServer = cl.toServer
              /\ mid.inbox = cl.inbox /\ mid.opened = cl.opened
              /\ mid.online = cl.online
              /\ Worked(mid, ReceiveUpdate(c, cl, u), 0)
  <1> DEFINE mid == [cl EXCEPT !.outgoing = Tail(@), !.pending = FALSE]
  <1>1. /\ ClientTyped(mid) /\ mid.outgoing = Tail(cl.outgoing) /\ ~mid.pending
        /\ mid.made = cl.made /\ mid.toServer = cl.toServer
        /\ mid.inbox = cl.inbox /\ mid.opened = cl.opened
        /\ mid.online = cl.online
    <2>1. IsLists(Tail(cl.outgoing))
      BY TotalOfTail DEF ClientTyped
    <2>2. /\ ClientFields \subseteq DOMAIN mid
          /\ mid.outgoing = Tail(cl.outgoing) /\ ~mid.pending
          /\ mid.made = cl.made /\ mid.toServer = cl.toServer
          /\ mid.inbox = cl.inbox /\ mid.opened = cl.opened
          /\ mid.online = cl.online
      BY DEF ClientTyped, ClientFields
    <2> HIDE DEF mid
    <2> QED
      BY <2>1, <2>2 DEF ClientTyped
  <1>2. \A d : d.author = AuthorOf[c] => HandleReceive(c, cl, d) = mid
    BY DEF HandleReceive, TakesAsAck
  <1> HIDE DEF mid
  <1>3. ASSUME NEW d, u.deltas = <<d>>
        PROVE  Worked(mid, ReceiveUpdate(c, cl, u), 0)
    <2>1. HandleReceive(c, cl, d) = mid
      BY <1>2, <1>3 DEF FromMe
    <2>2. ReceiveUpdate(c, cl, u) = SetResultingVersion(mid, u.version)
      BY <1>3, <2>1, ReceiveRuns
    <2> QED
      BY <1>1, <2>2, SetResultingVersionWorks
  <1>4. ASSUME NEW d, NEW e, u.deltas = <<d, e>>
        PROVE  Worked(mid, ReceiveUpdate(c, cl, u), 0)
    <2> DEFINE two == HandleReceive(c, mid, e)
               new == SetResultingVersion(two, u.version)
    <2>1. HandleReceive(c, cl, d) = mid
      BY <1>2, <1>4 DEF FromMe
    <2>2. ReceiveUpdate(c, cl, u) = new
      BY <1>4, <2>1, ReceiveRuns
    <2>3. ~TakesAsAck(c, mid, e)
      BY <1>1 DEF TakesAsAck
    <2>4. Worked(mid, two, 0)
      BY <1>1, <2>3, HandleReceiveWorks
    <2> HIDE DEF two
    <2>5. ClientTyped(two)
      BY <1>1, <2>4, WorkedTyped
    <2>6. Worked(two, new, 0)
      BY <2>5, SetResultingVersionWorks
    <2> HIDE DEF new
    <2>7. Worked(mid, new, 0 + 0)
      BY <1>1, <2>4, <2>6, WorkedTwice
    <2> QED
      BY <2>2, <2>7
  <1>5. Worked(mid, ReceiveUpdate(c, cl, u), 0)
    <2>1. CASE IsBroadcast(u)
      BY <1>3, <2>1 DEF IsBroadcast
    <2>2. CASE IsSnapshot(u)
      BY <1>4, <2>2 DEF IsSnapshot
    <2> QED
      BY <2>1, <2>2 DEF IsUpdate
  <1> QED
    BY <1>1, <1>5

-----------------------------------------------------------------------------
(* What a client's own steps keep. *)

\* The forms the connection to the server takes: at most a submit and an open request.
LEMMA RequestShapes ==
    /\ ~Submitting(<<>>) /\ ~Opens(<<>>)
    /\ ~Submitting(<<Opening>>) /\ Opens(<<Opening>>)
    /\ \A m : IsSubmit(m) => /\ Submitting(<<m>>) /\ ~Opens(<<m>>)
                             /\ Submitting(<<m, Opening>>) /\ Opens(<<m, Opening>>)
                             /\ Append(<<>>, m) = <<m>>
                             /\ Append(<<m>>, Opening) = <<m, Opening>>
    /\ \A ts : Submitting(ts) => /\ ts # <<>> /\ IsSubmit(ts[1]) /\ Head(ts) = ts[1]
                                 /\ Tail(ts) = <<>> \/ Tail(ts) = <<Opening>>
                                 /\ Opens(ts) <=> Tail(ts) = <<Opening>>
  <1>1. Opening.type # "submit"
    BY DEF Opening
  <1> HIDE DEF Opening
  <1>2. \A m : IsSubmit(m) => m # Opening /\ m.type = "submit"
    BY <1>1 DEF IsSubmit
  <1>3. ~Submitting(<<>>) /\ ~Opens(<<>>)
    BY DEF Submitting, Opens
  <1>4. ~Submitting(<<Opening>>) /\ Opens(<<Opening>>)
    BY <1>2 DEF Submitting, Opens
  <1>5. ASSUME NEW m, IsSubmit(m)
        PROVE  /\ Submitting(<<m>>) /\ ~Opens(<<m>>)
               /\ Submitting(<<m, Opening>>) /\ Opens(<<m, Opening>>)
               /\ Append(<<>>, m) = <<m>>
               /\ Append(<<m>>, Opening) = <<m, Opening>>
               /\ Tail(<<m>>) = <<>> /\ Tail(<<m, Opening>>) = <<Opening>>
    <2>1. /\ Append(<<>>, m) = <<m>> /\ Append(<<m>>, Opening) = <<m, Opening>>
          /\ Tail(<<m>>) = <<>> /\ Tail(<<m, Opening>>) = <<Opening>>
      BY PairByAppend
    <2> QED
      BY <1>2, <1>5, <2>1 DEF Submitting, Opens
  <1>6. ASSUME NEW ts, Submitting(ts)
        PROVE  /\ ts # <<>> /\ IsSubmit(ts[1]) /\ Head(ts) = ts[1]
               /\ Tail(ts) = <<>> \/ Tail(ts) = <<Opening>>
               /\ Opens(ts) <=> Tail(ts) = <<Opening>>
    <2>1. PICK m : IsSubmit(m) /\ (ts = <<m>> \/ ts = <<m, Opening>>)
      BY <1>6 DEF Submitting
    <2>2. ts # <<>> /\ ts[1] = m /\ Head(ts) = m
      BY <2>1
    <2>3. <<>> # <<Opening>>
      OBVIOUS
    <2> QED
      BY <1>5, <2>1, <2>2, <2>3
  <1> QED
    BY <1>3, <1>4, <1>5, <1>6

\* A method keeps the account of the operations that are in the history.
LEMMA WorkedCounts ==
    ASSUME NEW cl, ClientTyped(cl), NEW k \in Nat, NEW new, Worked(cl, new, k),
           NEW n \in Nat
    PROVE  /\ Unacked(cl, n) => Unacked(new, n)
           /\ cl.pending /\ Acked(cl, n) => Acked(new, n)
  <1>1. /\ Total(cl.outgoing) \in Nat /\ cl.made \in Nat
        /\ new.made = cl.made + k /\ Total(new.outgoing) = Total(cl.outgoing) + k
    BY FlattenIsSequence DEF ClientTyped, Worked
  <1>2. Unacked(cl, n) => Unacked(new, n)
    BY <1>1 DEF Unacked
  <1>3. ASSUME cl.pending, Acked(cl, n)
        PROVE  Acked(new, n)
    <2> DEFINE h == Len(Head(cl.outgoing))
               t == Total(Tail(cl.outgoing))
               r == Total(Tail(new.outgoing))
    <2>1. h \in Nat /\ t \in Nat /\ Total(cl.outgoing) = h + t
      BY <1>3, TotalOfTail DEF ClientTyped
    <2>2. r \in Nat /\ Total(new.outgoing) = h + r /\ new.outgoing # <<>>
      BY <1>3, TotalOfTail DEF Worked
    <2>3. cl.made = n + t
      BY <1>3 DEF Acked
    <2> HIDE DEF h, t, r
    <2>4. new.made = n + r
      BY <1>1, <2>1, <2>2, <2>3
    <2> QED
      BY <2>2, <2>4 DEF Acked, r
  <1> QED
    BY <1>2, <1>3

\* The client has the document, and nothing that is under way will be taken for
\* the acknowledgement of a delta submitted now.
Engaged(c, cl) ==
    /\ cl.opened
    /\ ~cl.pending => /\ ~Opens(cl.toServer)
                      /\ \A i \in 1..Len(cl.inbox) : ~FromMe(c, cl.inbox[i])
    /\ InitialDoc # <<>> => \A i \in 1..Len(cl.inbox) : IsBroadcast(cl.inbox[i])

\* A client that has the document keeps its invariant, whichever method runs.
LEMMA WorkedKeeps ==
    ASSUME NEW c, NEW cl, NEW n, NEW srv, ClientCounted(c, cl, n),
           Subscribed(c, cl, n, srv), Engaged(c, cl),
           NEW k \in Nat, NEW new, Worked(cl, new, k)
    PROVE  ClientCounted(c, new, n) /\ Subscribed(c, new, n, srv)
  <1>1. n \in Nat /\ ClientTyped(cl)
    BY DEF ClientCounted
  <1>2. ClientTyped(new)
    BY <1>1, WorkedTyped
  <1>3. /\ Unacked(cl, n) => Unacked(new, n)
        /\ cl.pending /\ Acked(cl, n) => Acked(new, n)
    BY <1>1, WorkedCounts
  <1>4. /\ new.inbox = cl.inbox /\ new.opened = cl.opened
        /\ cl.pending => /\ new.pending /\ new.toServer = cl.toServer
                         /\ Len(Head(new.outgoing)) = Len(Head(cl.outgoing))
        /\ ~cl.pending =>
              \/ ~new.pending /\ new.toServer = cl.toServer
              \/ /\ new.pending
                 /\ \E m : /\ IsSubmit(m) /\ Len(m.ops) = Len(Head(new.outgoing))
                           /\ new.toServer = Append(cl.toServer, m)
    BY DEF Worked
  <1>5. CASE cl.pending
    <2>1. SubmitCounted(c, new, n)
      BY <1>3, <1>4, <1>5 DEF ClientCounted, SubmitCounted
    <2>2. InboxCounted(c, new, n)
      BY <1>3, <1>4, <1>5 DEF ClientCounted, InboxCounted, Engaged
    <2>3. Subscribed(c, new, n, srv)
      BY <1>3, <1>4, <1>5 DEF Subscribed, Engaged
    <2> QED
      BY <1>1, <1>2, <1>3, <1>4, <1>5, <2>1, <2>2, <2>3 DEF ClientCounted
  <1>6. CASE ~cl.pending
    <2>1. Unacked(new, n)
      BY <1>3, <1>6 DEF ClientCounted
    <2>2. cl.toServer = <<>>
      BY <1>6 DEF ClientCounted, SubmitCounted, RequestsTyped, Engaged
    <2>3. InboxCounted(c, new, n)
      BY <1>4, <1>6 DEF ClientCounted, InboxCounted, Engaged
    <2>4. CASE new.toServer = <<>>
      <3>1. SubmitCounted(c, new, n) /\ Subscribed(c, new, n, srv)
        BY <1>4, <2>4, RequestShapes DEF SubmitCounted, Subscribed, Engaged
      <3> QED
        BY <1>1, <1>2, <1>4, <2>1, <2>3, <2>4, <3>1 DEF ClientCounted, RequestsTyped
    <2>5. ASSUME NEW m, new.pending, IsSubmit(m), Len(m.ops) = Len(Head(new.outgoing)),
                 new.toServer = <<m>>
          PROVE  ClientCounted(c, new, n) /\ Subscribed(c, new, n, srv)
      <3>1. Submitting(new.toServer) /\ ~Opens(new.toServer) /\ new.toServer[1] = m
        BY <2>5, RequestShapes
      <3>2. SubmitCounted(c, new, n)
        BY <1>4, <1>6, <2>1, <2>5, <3>1 DEF SubmitCounted, Engaged
      <3>3. Subscribed(c, new, n, srv)
        BY <1>4, <3>1 DEF Subscribed, Engaged
      <3> QED
        BY <1>1, <1>2, <1>4, <2>1, <2>3, <3>1, <3>2, <3>3
           DEF ClientCounted, RequestsTyped
    <2> QED
      BY <1>4, <1>6, <2>2, <2>4, <2>5, RequestShapes
  <1> QED
    BY <1>5, <1>6

\* A step of one client.
LEMMA ClientStep ==
    ASSUME SystemInv, NEW c \in Clients, NEW new,
           client' = [client EXCEPT ![c] = new], UNCHANGED server,
           ClientCounted(c, new, Committed(c)), Subscribed(c, new, Committed(c), server)
    PROVE  SystemInv'
  <1>1. \A d \in Clients : Committed(d)' = Committed(d)
    BY DEF Committed
  <1>2. ServerTyped'
    BY DEF SystemInv, ServerTyped
  <1>3. /\ client' = [d \in Clients |-> client'[d]]
        /\ client'[c] = new /\ \A d \in Clients \ {c} : client'[d] = client[d]
    BY DEF SystemInv
  <1>4. ASSUME NEW d \in Clients
        PROVE  /\ ClientCounted(d, client[d], Committed(d))'
               /\ Subscribed(d, client[d], Committed(d), server)'
    <2>1. /\ ClientCounted(d, client'[d], Committed(d))
          /\ Subscribed(d, client'[d], Committed(d), server)
      BY <1>3 DEF SystemInv
    <2> QED
      BY <1>1, <2>1
  <1> QED
    BY <1>2, <1>3, <1>4 DEF SystemInv

\* Who sees a document has been served, so nothing stale will acknowledge his edits.
LEMMA HasDocument ==
    ASSUME NEW c, NEW cl, NEW n, NEW srv, ClientCounted(c, cl, n),
           Subscribed(c, cl, n, srv), cl.view # <<>>
    PROVE  Engaged(c, cl)
  BY DEF ClientCounted, Subscribed, InboxCounted, Fresh, Engaged

\* There is nothing to edit in an empty document.
LEMMA NothingToEdit ==
    ASSUME NEW c
    PROVE  EditsOf(c, <<>>) = {}
  <1>1. Len(<<>>) = 0 /\ DOMAIN <<>> = {}
    OBVIOUS
  <1> QED
    BY <1>1 DEF EditsOf

\* One operation by the user.
LEMMA EditStep ==
    ASSUME SystemInv, NEW c \in Clients, Edit(c)
    PROVE  SystemInv'
  <1> DEFINE cl == client[c]
  <1>1. PICK op \in EditsOf(c, cl.view) : client' = [client EXCEPT ![c] = HandleSend(@, op)]
    BY DEF Edit
  <1>2. cl.view # <<>>
    BY <1>1, NothingToEdit
  <1>3. ClientCounted(c, cl, Committed(c)) /\ Subscribed(c, cl, Committed(c), server)
    BY DEF SystemInv
  <1> DEFINE new == HandleSend(cl, op)
  <1>4. client' = [client EXCEPT ![c] = new]
    BY <1>1 DEF SystemInv
  <1> HIDE DEF cl
  <1>5. Worked(cl, new, 1)
    BY <1>3, HandleSendWorks DEF ClientCounted
  <1> HIDE DEF new
  <1>6. ClientCounted(c, new, Committed(c)) /\ Subscribed(c, new, Committed(c), server)
    BY <1>2, <1>3, <1>5, HasDocument, WorkedKeeps
  <1> QED
    BY <1>4, <1>6, ClientStep DEF Edit

\* Two operations between suspend and resume.
LEMMA EditTwiceStep ==
    ASSUME SystemInv, NEW c \in Clients, EditTwice(c)
    PROVE  SystemInv'
  <1> DEFINE cl == client[c]
             suspended == SuspendSending(cl)
  <1>1. PICK op \in EditsOf(c, suspended.view) :
           \E op2 \in EditsOf(c, HandleSend(suspended, op).view) :
               client' = [client EXCEPT ![c] =
                             ResumeSending(HandleSend(HandleSend(suspended, op), op2))]
    BY DEF EditTwice
  <1> DEFINE first == HandleSend(suspended, op)
  <1>2. PICK op2 \in EditsOf(c, first.view) :
           client' = [client EXCEPT ![c] = ResumeSending(HandleSend(first, op2))]
    BY <1>1
  <1> DEFINE second == HandleSend(first, op2)
             new == ResumeSending(second)
  <1>3. client' = [client EXCEPT ![c] = new]
    BY <1>2
  <1>4. ClientCounted(c, cl, Committed(c)) /\ Subscribed(c, cl, Committed(c), server)
    BY DEF SystemInv
  <1> HIDE DEF cl
  <1>5. ClientTyped(cl)
    BY <1>4 DEF ClientCounted
  <1>6. Worked(cl, suspended, 0) /\ suspended.view = cl.view
    BY <1>5, SuspendWorks
  <1>7. cl.view # <<>>
    BY <1>1, <1>6, NothingToEdit
  <1> HIDE DEF suspended
  <1>8. ClientTyped(suspended)
    BY <1>5, <1>6, WorkedTyped
  <1>9. Worked(suspended, first, 1)
    BY <1>8, HandleSendWorks
  <1> HIDE DEF first
  <1>10. ClientTyped(first)
    BY <1>8, <1>9, WorkedTyped
  <1>11. Worked(first, second, 1)
    BY <1>10, HandleSendWorks
  <1> HIDE DEF second
  <1>12. ClientTyped(second)
    BY <1>10, <1>11, WorkedTyped
  <1>13. Worked(second, new, 0)
    BY <1>12, ResumeWorks
  <1> HIDE DEF new
  <1>14. Worked(cl, first, 0 + 1)
    BY <1>5, <1>6, <1>9, WorkedTwice
  <1>15. Worked(cl, second, 1 + 1)
    BY <1>5, <1>11, <1>14, WorkedTwice
  <1>16. Worked(cl, new, 2 + 0)
    BY <1>5, <1>13, <1>15, WorkedTwice
  <1>17. ClientCounted(c, new, Committed(c)) /\ Subscribed(c, new, Committed(c), server)
    BY <1>4, <1>7, <1>16, HasDocument, WorkedKeeps
  <1> QED
    BY <1>3, <1>17, ClientStep DEF EditTwice

\* Taking the first element of a queue.
LEMMA TailByIndex ==
    ASSUME NEW q, IsSequence(q), q # <<>>
    PROVE  /\ Head(q) = q[1] /\ 1 \in 1..Len(q) /\ IsSequence(Tail(q))
           /\ \A i \in 1..Len(Tail(q)) :
                 Tail(q)[i] = q[i + 1] /\ i + 1 \in 1..Len(q) /\ i + 1 # 1 /\ i \in Nat
  <1> DEFINE S == ToSet(q)
  <1>1. q \in Seq(S)
    BY DEF IsSequence
  <1> HIDE DEF S
  <1>2. Len(q) \in Nat /\ Len(q) # 0
    BY <1>1, EmptySeq
  <1>3. /\ Head(q) = q[1] /\ Tail(q) \in Seq(S) /\ Len(Tail(q)) = Len(q) - 1
        /\ \A i \in 1..Len(Tail(q)) : Tail(q)[i] = q[i + 1]
    BY <1>1, HeadTailProperties
  <1>4. IsSequence(Tail(q))
    BY <1>3, SequenceOfItsElements
  <1> QED
    BY <1>2, <1>3, <1>4

\* An update is the acknowledgement and takes the head off the queue, or is neither.
LEMMA ReceivesStep ==
    ASSUME SystemInv, NEW c \in Clients, ClientReceives(c)
    PROVE  SystemInv'
  <1> DEFINE old == client[c]
             cl == [old EXCEPT !.inbox = Tail(@)]
             u == Head(old.inbox)
             n == Committed(c)
             new == ReceiveUpdate(c, cl, u)
  <1>1. client' = [client EXCEPT ![c] = new] /\ UNCHANGED server
    BY DEF ClientReceives
  <1>2. old.inbox # <<>> /\ ~old.blown
    BY DEF ClientReceives, Alive
  <1>3. ClientCounted(c, old, n) /\ Subscribed(c, old, n, server)
    BY DEF SystemInv
  <1> HIDE DEF old, new, n
  <1>4. /\ ClientTyped(old) /\ RequestsTyped(old.toServer) /\ IsSequence(old.inbox)
        /\ n \in Nat
    BY <1>3 DEF ClientCounted
  <1>5. /\ ClientTyped(cl) /\ cl.inbox = Tail(old.inbox) /\ cl.blown = old.blown
        /\ cl.view = old.view /\ cl.outgoing = old.outgoing /\ cl.pending = old.pending
        /\ cl.made = old.made /\ cl.toServer = old.toServer /\ cl.opened = old.opened
        /\ cl.online = old.online
    <2>1. /\ ClientFields \subseteq DOMAIN cl
          /\ cl.inbox = Tail(old.inbox) /\ cl.blown = old.blown
          /\ cl.view = old.view /\ cl.outgoing = old.outgoing /\ cl.pending = old.pending
          /\ cl.made = old.made /\ cl.toServer = old.toServer /\ cl.opened = old.opened
          /\ cl.online = old.online
      BY <1>4 DEF ClientTyped, ClientFields
    <2> HIDE DEF cl
    <2> QED
      BY <1>4, <2>1 DEF ClientTyped
  <1>6. /\ u = old.inbox[1] /\ 1 \in 1..Len(old.inbox)
        /\ IsSequence(cl.inbox)
        /\ \A i \in 1..Len(cl.inbox) :
              /\ cl.inbox[i] = old.inbox[i + 1]
              /\ i + 1 \in 1..Len(old.inbox) /\ i + 1 # 1 /\ i \in Nat
    <2> HIDE DEF cl
    <2> QED
      BY <1>2, <1>4, <1>5, TailByIndex
  <1>7. c \in server.subscribers /\ old.opened /\ ~Opens(old.toServer)
    BY <1>2, <1>3 DEF Subscribed
  <1>8. IsUpdate(u)
    BY <1>3, <1>6 DEF ClientCounted, InboxCounted
  <1> HIDE DEF cl, u
  <1>9. \A i \in 1..Len(cl.inbox) :
           /\ IsUpdate(cl.inbox[i])
           /\ InitialDoc # <<>> => IsBroadcast(cl.inbox[i])
           /\ FromMe(c, cl.inbox[i]) => cl.pending /\ ~FromMe(c, u)
    BY <1>3, <1>5, <1>6 DEF ClientCounted, InboxCounted
  <1>10. CASE cl.pending /\ FromMe(c, u)
    <2>1. PICK mid : /\ ClientTyped(mid) /\ mid.outgoing = Tail(cl.outgoing)
                     /\ ~mid.pending
                     /\ mid.made = cl.made /\ mid.toServer = cl.toServer
                     /\ mid.inbox = cl.inbox /\ mid.opened = cl.opened
                     /\ mid.online = cl.online
                     /\ Worked(mid, new, 0)
      BY <1>2, <1>5, <1>8, <1>10, ReceiveAcks DEF new
    <2>2. Acked(old, n) /\ ~Submitting(old.toServer)
      BY <1>3, <1>5, <1>6, <1>10 DEF ClientCounted, InboxCounted, SubmitCounted
    <2>3. mid.toServer = <<>>
      BY <1>4, <1>5, <1>7, <2>1, <2>2 DEF RequestsTyped
    <2>4. Unacked(mid, n)
      BY <1>5, <2>1, <2>2 DEF Acked, Unacked
    <2>5. \A i \in 1..Len(mid.inbox) : ~FromMe(c, mid.inbox[i])
      BY <1>9, <1>10, <2>1
    <2>6. ClientCounted(c, mid, n)
      <3>1. InboxCounted(c, mid, n)
        BY <1>9, <2>1, <2>5 DEF InboxCounted
      <3>2. SubmitCounted(c, mid, n)
        BY <2>3, RequestShapes DEF SubmitCounted
      <3> QED
        BY <1>4, <1>6, <2>1, <2>3, <2>4, <3>1, <3>2 DEF ClientCounted, RequestsTyped
    <2>7. Subscribed(c, mid, n, server)
      BY <1>5, <1>7, <2>1, <2>3, RequestShapes DEF Subscribed
    <2>8. Engaged(c, mid)
      BY <1>5, <1>7, <1>9, <2>1, <2>3, <2>5, RequestShapes DEF Engaged
    <2>9. ClientCounted(c, new, n) /\ Subscribed(c, new, n, server)
      BY <2>1, <2>6, <2>7, <2>8, WorkedKeeps
    <2> QED
      BY <1>1, <2>9, ClientStep DEF n
  <1>11. CASE ~(cl.pending /\ FromMe(c, u))
    <2>1. Worked(cl, new, 0)
      BY <1>5, <1>8, <1>11, ReceiveWorks DEF new
    <2>2. InboxCounted(c, cl, n)
      <3> SUFFICES ASSUME NEW i \in 1..Len(cl.inbox), FromMe(c, cl.inbox[i])
                   PROVE  /\ Acked(cl, n)
                          /\ \A j \in 1..Len(cl.inbox) : FromMe(c, cl.inbox[j]) => i = j
        BY <1>9 DEF InboxCounted
      <3>1. /\ cl.pending => Acked(old, n)
            /\ \A j \in 1..Len(old.inbox) : FromMe(c, old.inbox[j]) => i + 1 = j
        BY <1>3, <1>5, <1>6 DEF ClientCounted, InboxCounted
      <3>2. Acked(cl, n)
        BY <1>5, <1>9, <3>1 DEF Acked
      <3>3. ASSUME NEW j \in 1..Len(cl.inbox), FromMe(c, cl.inbox[j])
            PROVE  i = j
        <4>1. i + 1 = j + 1 /\ i \in Nat /\ j \in Nat
          BY <1>6, <3>1, <3>3
        <4> QED
          BY <4>1
      <3> QED
        BY <3>2, <3>3
    <2>3. SubmitCounted(c, cl, n)
      BY <1>3, <1>5, <1>6 DEF ClientCounted, SubmitCounted, Unacked
    <2>4. ClientCounted(c, cl, n)
      BY <1>3, <1>4, <1>5, <1>6, <2>2, <2>3 DEF ClientCounted, Unacked, Acked
    <2>5. Subscribed(c, cl, n, server)
      BY <1>5, <1>7 DEF Subscribed
    <2>6. Engaged(c, cl)
      BY <1>5, <1>7, <1>9 DEF Engaged
    <2>7. ClientCounted(c, new, n) /\ Subscribed(c, new, n, server)
      BY <2>1, <2>4, <2>5, <2>6, WorkedKeeps
    <2> QED
      BY <1>1, <2>7, ClientStep DEF n
  <1> QED
    BY <1>10, <1>11

-----------------------------------------------------------------------------
(* What the other steps of a client and of the network keep. *)

\* openWavelet adds the open request and nothing else.
LEMMA SendOpenWorks ==
    ASSUME NEW cl, ClientTyped(cl)
    PROVE  LET new == SendOpen(cl)
           IN  /\ ClientTyped(new) /\ new.opened
               /\ new.toServer = Append(cl.toServer, Opening)
               /\ new.outgoing = cl.outgoing /\ new.pending = cl.pending
               /\ new.made = cl.made /\ new.inbox = cl.inbox /\ new.view = cl.view
  <1> DEFINE new == SendOpen(cl)
  <1>1. /\ ClientFields \subseteq DOMAIN new /\ new.opened
        /\ new.toServer = Append(cl.toServer, Opening)
        /\ new.outgoing = cl.outgoing /\ new.pending = cl.pending
        /\ new.made = cl.made /\ new.inbox = cl.inbox /\ new.view = cl.view
    BY DEF SendOpen, Opening, ClientTyped, ClientFields
  <1> HIDE DEF new
  <1>2. ClientTyped(new)
    BY <1>1 DEF ClientTyped
  <1> QED
    BY <1>1, <1>2 DEF new

\* Before it has opened the wave a client has nothing.
LEMMA NotOpened ==
    ASSUME NEW c, NEW cl, NEW n, NEW srv, ClientCounted(c, cl, n),
           Subscribed(c, cl, n, srv), ~cl.opened
    PROVE  /\ cl.toServer = <<>> /\ cl.inbox = <<>> /\ Fresh(cl)
           /\ c \notin srv.subscribers /\ Unacked(cl, n)
           /\ IsSequence(<<>>) /\ Len(<<>>) = 0
  <1>1. /\ cl.toServer = <<>> /\ Fresh(cl) /\ c \notin srv.subscribers
        /\ cl.inbox = <<>>
    BY DEF Subscribed
  <1>2. Unacked(cl, n)
    BY <1>1 DEF ClientCounted, Fresh
  <1>3. Len(<<>>) = 0
    OBVIOUS
  <1>4. IsSequence(<<>>)
    BY <1>1 DEF ClientCounted
  <1> QED
    BY <1>1, <1>2, <1>3, <1>4

\* A client opens a wave that exists.
LEMMA OpenStep ==
    ASSUME SystemInv, NEW c \in Clients, Open(c)
    PROVE  SystemInv'
  <1> DEFINE cl == client[c]
             new == SendOpen(cl)
             n == Committed(c)
  <1>1. client' = [client EXCEPT ![c] = new] /\ UNCHANGED server /\ ~cl.opened
    BY DEF Open, SystemInv
  <1>2. ClientCounted(c, cl, n) /\ Subscribed(c, cl, n, server)
    BY DEF SystemInv
  <1> HIDE DEF cl, n
  <1>3. /\ ClientTyped(new) /\ new.opened /\ new.toServer = Append(cl.toServer, Opening)
        /\ new.outgoing = cl.outgoing /\ new.pending = cl.pending
        /\ new.made = cl.made /\ new.inbox = cl.inbox /\ new.view = cl.view
    BY <1>2, SendOpenWorks DEF ClientCounted
  <1> HIDE DEF new
  <1>4. /\ cl.toServer = <<>> /\ cl.inbox = <<>> /\ Fresh(cl)
        /\ c \notin server.subscribers /\ Unacked(cl, n)
        /\ IsSequence(<<>>) /\ Len(<<>>) = 0
    BY <1>1, <1>2, NotOpened
  <1>5. new.toServer = <<Opening>>
    <2>1. \A x : Append(<<>>, x) = <<x>>
      OBVIOUS
    <2> QED
      BY <1>3, <1>4, <2>1
  <1>6. ~Submitting(new.toServer) /\ Opens(new.toServer)
    BY <1>5, RequestShapes
  <1>7. Fresh(new) /\ Unacked(new, n)
    BY <1>3, <1>4 DEF Fresh, Unacked
  <1>8. ClientCounted(c, new, n)
    BY <1>2, <1>3, <1>4, <1>6, <1>7
       DEF ClientCounted, RequestsTyped, SubmitCounted, InboxCounted
  <1>9. Subscribed(c, new, n, server)
    BY <1>3, <1>4, <1>7 DEF Subscribed, Fresh
  <1> QED
    BY <1>1, <1>8, <1>9, ClientStep DEF n

\* A client makes the wave: its submit goes ahead of its open request.
LEMMA NewWaveStep ==
    ASSUME SystemInv, NEW c \in Clients, NewWave(c)
    PROVE  SystemInv'
  <1> DEFINE old == client[c]
             suspended == SuspendSending(old)
             joined == HandleSend(suspended, NoMutation)
             filled == HandleSend(joined, InsertAll(NewDoc))
             cl == ResumeSending(filled)
             new == SendOpen(cl)
             n == Committed(c)
  <1>1. /\ client' = [client EXCEPT ![c] = new] /\ UNCHANGED server
        /\ ~old.opened /\ old.online /\ server.version = 0
    BY DEF NewWave, SystemInv
  <1>2. ClientCounted(c, old, n) /\ Subscribed(c, old, n, server)
    BY DEF SystemInv
  <1>3. InitialDoc = <<>>
    BY <1>1 DEF SystemInv, ServerTyped
  <1> HIDE DEF old, n
  <1>4. /\ old.toServer = <<>> /\ old.inbox = <<>> /\ Fresh(old)
        /\ c \notin server.subscribers /\ Unacked(old, n)
        /\ IsSequence(<<>>) /\ Len(<<>>) = 0
    BY <1>1, <1>2, NotOpened
  <1>5. ClientTyped(old) /\ n \in Nat
    BY <1>2 DEF ClientCounted
  <1>6. Worked(old, suspended, 0)
    BY <1>5, SuspendWorks
  <1> HIDE DEF suspended
  <1>7. ClientTyped(suspended)
    BY <1>5, <1>6, WorkedTyped
  <1>8. Worked(suspended, joined, 1)
    BY <1>7, HandleSendWorks
  <1> HIDE DEF joined
  <1>9. ClientTyped(joined)
    BY <1>7, <1>8, WorkedTyped
  <1>10. Worked(joined, filled, 1) /\ filled.outgoing # <<>>
    BY <1>9, HandleSendWorks
  <1> HIDE DEF filled
  <1>11. ClientTyped(filled)
    BY <1>9, <1>10, WorkedTyped
  <1>12. filled.online
    BY <1>1, <1>6, <1>8, <1>10 DEF Worked
  <1>13. Worked(filled, cl, 0) /\ cl.pending
    BY <1>10, <1>11, <1>12, ResumeWorks
  <1> HIDE DEF cl
  <1>14. ClientTyped(cl)
    BY <1>11, <1>13, WorkedTyped
  <1>15. Worked(old, joined, 0 + 1)
    BY <1>5, <1>6, <1>8, WorkedTwice
  <1>16. Worked(old, filled, 1 + 1)
    BY <1>5, <1>10, <1>15, WorkedTwice
  <1>17. Worked(old, cl, 2 + 0)
    BY <1>5, <1>13, <1>16, WorkedTwice
  <1>18. PICK m : /\ IsSubmit(m) /\ Len(m.ops) = Len(Head(cl.outgoing))
                  /\ cl.toServer = Append(<<>>, m)
    BY <1>4, <1>13, <1>17 DEF Worked, Fresh
  <1>19. Unacked(cl, n) /\ cl.inbox = <<>>
    <2>1. Unacked(cl, n)
      BY <1>4, <1>5, <1>17, WorkedCounts
    <2>2. cl.inbox = <<>>
      BY <1>4, <1>17 DEF Worked
    <2> QED
      BY <2>1, <2>2
  <1>20. /\ ClientTyped(new) /\ new.opened /\ new.toServer = Append(cl.toServer, Opening)
         /\ new.outgoing = cl.outgoing /\ new.pending = cl.pending
         /\ new.made = cl.made /\ new.inbox = cl.inbox
    BY <1>14, SendOpenWorks
  <1> HIDE DEF new
  <1>21. /\ new.toServer = <<m, Opening>> /\ Submitting(new.toServer)
         /\ Opens(new.toServer) /\ new.toServer[1] = m
    <2>1. cl.toServer = <<m>> /\ new.toServer = <<m, Opening>>
      BY <1>18, <1>20, RequestShapes
    <2>2. Submitting(<<m, Opening>>) /\ Opens(<<m, Opening>>)
      BY <1>18, RequestShapes
    <2>3. \A x, y : <<x, y>>[1] = x
      OBVIOUS
    <2> QED
      BY <2>1, <2>2, <2>3
  <1>22. Unacked(new, n)
    BY <1>19, <1>20 DEF Unacked
  <1>23. ClientCounted(c, new, n)
    BY <1>4, <1>5, <1>13, <1>18, <1>19, <1>20, <1>21, <1>22
       DEF ClientCounted, RequestsTyped, SubmitCounted, InboxCounted
  <1>24. Subscribed(c, new, n, server)
    BY <1>1, <1>3, <1>4, <1>13, <1>19, <1>20 DEF Subscribed
  <1> QED
    BY <1>1, <1>23, <1>24, ClientStep DEF n

\* Coming online again sends nothing.
LEMMA ReconnectStep ==
    ASSUME SystemInv, NEW c \in Clients, Reconnect(c)
    PROVE  SystemInv'
  <1> DEFINE cl == client[c]
             new == [cl EXCEPT !.online = TRUE]
             n == Committed(c)
  <1>1. client' = [client EXCEPT ![c] = new] /\ UNCHANGED server
    BY DEF Reconnect, SystemInv
  <1>2. ClientCounted(c, cl, n) /\ Subscribed(c, cl, n, server)
    BY DEF SystemInv
  <1> HIDE DEF cl, n
  <1>3. /\ ClientFields \subseteq DOMAIN new /\ new.opened = cl.opened
        /\ new.toServer = cl.toServer /\ new.outgoing = cl.outgoing
        /\ new.pending = cl.pending /\ new.made = cl.made /\ new.inbox = cl.inbox
        /\ new.view = cl.view
    BY <1>2 DEF ClientCounted, ClientTyped, ClientFields
  <1> HIDE DEF new
  <1>4. ClientCounted(c, new, n) /\ Subscribed(c, new, n, server)
    BY <1>2, <1>3 DEF ClientCounted, ClientTyped, Unacked, Acked, SubmitCounted,
                      InboxCounted, Subscribed, Fresh
  <1> QED
    BY <1>1, <1>4, ClientStep DEF n

-----------------------------------------------------------------------------
(* What the connections and the server keep. *)

\* A step of one client and the server that does not add to the history.
LEMMA ServerStep ==
    ASSUME SystemInv, NEW c \in Clients, NEW new, client' = [client EXCEPT ![c] = new],
           DOMAIN server' = DOMAIN server, server'.version = server.version,
           server'.deltas = server.deltas, server'.creator = server.creator,
           \A d \in Clients \ {c} : d \in server'.subscribers <=> d \in server.subscribers,
           ClientCounted(c, new, Committed(c)), Subscribed(c, new, Committed(c), server')
    PROVE  SystemInv'
  <1>1. \A d \in Clients : Committed(d)' = Committed(d)
    BY DEF Committed
  <1>2. ServerTyped'
    BY DEF SystemInv, ServerTyped
  <1>3. /\ client' = [d \in Clients |-> client'[d]]
        /\ client'[c] = new /\ \A d \in Clients \ {c} : client'[d] = client[d]
    BY DEF SystemInv
  <1>4. ASSUME NEW d \in Clients \ {c}
        PROVE  /\ ClientCounted(d, client'[d], Committed(d))
               /\ Subscribed(d, client'[d], Committed(d), server')
    BY <1>3 DEF SystemInv, Subscribed
  <1>5. ASSUME NEW d \in Clients
        PROVE  /\ ClientCounted(d, client[d], Committed(d))'
               /\ Subscribed(d, client[d], Committed(d), server)'
    <2>1. /\ ClientCounted(d, client'[d], Committed(d))
          /\ Subscribed(d, client'[d], Committed(d), server')
      BY <1>3, <1>4
    <2> QED
      BY <1>1, <2>1
  <1> QED
    BY <1>2, <1>3, <1>5 DEF SystemInv

\* What is on the wires is lost; the queue is not.
LEMMA DisconnectStep ==
    ASSUME SystemInv, NEW c \in Clients, Disconnect(c)
    PROVE  SystemInv'
  <1> DEFINE cl == client[c]
             new == [cl EXCEPT !.online = FALSE, !.toServer = <<>>, !.inbox = <<>>]
             n == Committed(c)
  <1>1. client' = [client EXCEPT ![c] = new]
    BY DEF Disconnect, SystemInv
  <1>2. /\ DOMAIN server' = DOMAIN server /\ server'.version = server.version
        /\ server'.deltas = server.deltas /\ server'.creator = server.creator
        /\ server'.subscribers = server.subscribers \ {c}
    BY DEF Disconnect, SystemInv, ServerTyped
  <1>3. ClientCounted(c, cl, n) /\ Subscribed(c, cl, n, server)
    BY DEF SystemInv
  <1> HIDE DEF cl, n
  <1>4. /\ ClientFields \subseteq DOMAIN new /\ new.opened = cl.opened
        /\ new.toServer = <<>> /\ new.outgoing = cl.outgoing
        /\ new.pending = cl.pending /\ new.made = cl.made /\ new.inbox = <<>>
        /\ new.view = cl.view
    BY <1>3 DEF ClientCounted, ClientTyped, ClientFields
  <1> HIDE DEF new
  <1>5. Len(<<>>) = 0 /\ IsSequence(<<>>)
    <2>1. <<>> \in Seq({}) /\ Len(<<>>) = 0
      OBVIOUS
    <2> QED
      BY <2>1, SequenceOfItsElements
  <1>6. ~Submitting(new.toServer) /\ ~Opens(new.toServer)
    BY <1>4, RequestShapes
  <1>7. ClientCounted(c, new, n)
    BY <1>3, <1>4, <1>5, <1>6 DEF ClientCounted, ClientTyped, RequestsTyped,
       SubmitCounted, InboxCounted, Unacked, Acked
  <1>8. Subscribed(c, new, n, server')
    BY <1>2, <1>3, <1>4, <1>6 DEF Subscribed, Fresh
  <1> QED
    BY <1>1, <1>2, <1>7, <1>8, ServerStep DEF n

\* The server takes a submit from the connection.
LEMMA TakenWorks ==
    ASSUME SystemInv, NEW c \in Clients, HasSubmitted(c)
    PROVE  LET cl == client[c]
               new == [cl EXCEPT !.toServer = Tail(@)]
           IN  /\ Taken(c) = [client EXCEPT ![c] = new]
               /\ Submitting(cl.toServer) /\ NextSubmit(c) = cl.toServer[1]
               /\ IsSequence(NextSubmit(c).ops)
               /\ cl.opened = new.opened /\ cl.outgoing = new.outgoing
               /\ cl.pending = new.pending /\ cl.made = new.made
               /\ cl.inbox = new.inbox /\ cl.view = new.view
               /\ ClientTyped(new) /\ RequestsTyped(new.toServer)
               /\ ~Submitting(new.toServer)
               /\ Opens(new.toServer) <=> Opens(cl.toServer)
  <1> DEFINE cl == client[c]
             new == [cl EXCEPT !.toServer = Tail(@)]
             n == Committed(c)
  <1>1. Taken(c) = [client EXCEPT ![c] = new]
    BY DEF Taken, SystemInv
  <1>2. ClientCounted(c, cl, n)
    BY DEF SystemInv
  <1>3. /\ cl.toServer # <<>> /\ Head(cl.toServer).type = "submit"
        /\ NextSubmit(c) = Head(cl.toServer)
    BY DEF HasSubmitted, NextSubmit
  <1> HIDE DEF cl, n
  <1>4. Submitting(cl.toServer)
    <2>1. CASE cl.toServer = <<Opening>>
      BY <1>3, <2>1 DEF Opening
    <2>2. ASSUME NEW m, IsSubmit(m), cl.toServer = <<m, Opening>>
          PROVE  Submitting(cl.toServer)
      BY <2>2 DEF Submitting
    <2> QED
      BY <1>2, <1>3, <2>1, <2>2 DEF ClientCounted, RequestsTyped, Opens
  <1>5. /\ IsSubmit(cl.toServer[1]) /\ Head(cl.toServer) = cl.toServer[1]
        /\ Tail(cl.toServer) = <<>> \/ Tail(cl.toServer) = <<Opening>>
        /\ Opens(cl.toServer) <=> Tail(cl.toServer) = <<Opening>>
    BY <1>4, RequestShapes
  <1>6. /\ ClientFields \subseteq DOMAIN new /\ new.opened = cl.opened
        /\ new.toServer = Tail(cl.toServer) /\ new.outgoing = cl.outgoing
        /\ new.pending = cl.pending /\ new.made = cl.made /\ new.inbox = cl.inbox
        /\ new.view = cl.view
    BY <1>2 DEF ClientCounted, ClientTyped, ClientFields
  <1> HIDE DEF new
  <1>7. ClientTyped(new)
    BY <1>2, <1>6 DEF ClientCounted, ClientTyped
  <1>8. <<>> # <<Opening>>
    OBVIOUS
  <1>9. /\ RequestsTyped(new.toServer) /\ ~Submitting(new.toServer)
        /\ Opens(new.toServer) <=> Opens(cl.toServer)
    BY <1>5, <1>6, <1>8, RequestShapes DEF RequestsTyped
  <1>10. IsSequence(NextSubmit(c).ops) /\ NextSubmit(c) = cl.toServer[1]
    BY <1>3, <1>5 DEF IsSubmit
  <1> QED
    BY <1>1, <1>4, <1>6, <1>7, <1>9, <1>10 DEF new, cl

\* A submit that comes to nothing, whatever is left in the document.
LEMMA LostSubmitStep ==
    ASSUME SystemInv, NEW c \in Clients, HasSubmitted(c), client' = Taken(c),
           DOMAIN server' = DOMAIN server, server'.version = server.version,
           server'.deltas = server.deltas, server'.creator = server.creator,
           server'.subscribers = server.subscribers
    PROVE  SystemInv'
  <1> DEFINE cl == client[c]
             new == [cl EXCEPT !.toServer = Tail(@)]
             n == Committed(c)
  <1>1. ClientCounted(c, cl, n) /\ Subscribed(c, cl, n, server)
    BY DEF SystemInv
  <1>2. /\ Taken(c) = [client EXCEPT ![c] = new] /\ Submitting(cl.toServer)
        /\ cl.opened = new.opened /\ cl.outgoing = new.outgoing
        /\ cl.pending = new.pending /\ cl.made = new.made
        /\ cl.inbox = new.inbox /\ cl.view = new.view
        /\ ClientTyped(new) /\ RequestsTyped(new.toServer)
        /\ ~Submitting(new.toServer)
        /\ Opens(new.toServer) <=> Opens(cl.toServer)
    BY TakenWorks
  <1> HIDE DEF cl, new, n
  <1>3. cl.toServer # <<>>
    BY <1>2, RequestShapes
  <1>4. ClientCounted(c, new, n)
    BY <1>1, <1>2 DEF ClientCounted, SubmitCounted, InboxCounted, Unacked, Acked, Fresh
  <1>5. Subscribed(c, new, n, server')
    BY <1>1, <1>2, <1>3 DEF Subscribed, Fresh
  <1> QED
    BY <1>2, <1>4, <1>5, ServerStep DEF n

\* A submit that cannot be transformed.
LEMMA RefuseStep ==
    ASSUME SystemInv, NEW c \in Clients, ServerRefuses(c)
    PROVE  SystemInv'
  BY LostSubmitStep DEF ServerRefuses

\* A submit that cannot be applied.
LEMMA MisapplyStep ==
    ASSUME SystemInv, NEW c \in Clients, ServerMisapplies(c)
    PROVE  SystemInv'
  <1>1. HasSubmitted(c) /\ client' = Taken(c)
    BY DEF ServerMisapplies
  <1> DEFINE doc == Outcome(c).doc
  <1>2. server' = [server EXCEPT !.doc = doc]
    BY DEF ServerMisapplies
  <1> HIDE DEF doc
  <1>3. /\ DOMAIN server' = DOMAIN server /\ server'.version = server.version
        /\ server'.deltas = server.deltas /\ server'.creator = server.creator
        /\ server'.subscribers = server.subscribers
    BY <1>2 DEF SystemInv, ServerTyped
  <1> QED
    BY <1>1, <1>3, LostSubmitStep

\* The snapshot speaks in the creator's name, and nobody has sent it.
LEMMA SnapshotIsOne ==
    /\ IsSnapshot(Snapshot) /\ IsUpdate(Snapshot)
    /\ \A c : FromMe(c, Snapshot) => server.creator = AuthorOf[c]
  <1> DEFINE a == <<NoMutation>>
             b == <<InsertAll(server.doc)>>
             ds == << [author |-> server.creator, sender |-> Nobody, ops |-> a],
                      [author |-> server.creator, sender |-> Nobody, ops |-> b] >>
  <1>1. /\ Snapshot.deltas = ds /\ {"deltas", "version"} \subseteq DOMAIN Snapshot
    BY DEF Snapshot
  <1>2. ds[1].author = server.creator
    OBVIOUS
  <1>3. IsSnapshot(Snapshot)
    <2> HIDE DEF a, b
    <2> QED
      BY <1>1 DEF IsSnapshot
  <1> HIDE DEF ds
  <1> QED
    BY <1>1, <1>2, <1>3 DEF IsUpdate, FromMe

\* The snapshot is the first update of the client, and its acknowledgement if the
\* client has made the wave.
LEMMA SubscribesStep ==
    ASSUME SystemInv, NEW c \in Clients, ServerSubscribes(c)
    PROVE  SystemInv'
  <1> DEFINE cl == client[c]
             n == Committed(c)
  <1>1. PICK i \in DOMAIN cl.toServer :
           /\ cl.toServer[i].type = "open"
           /\ client' = [client EXCEPT
                 ![c].toServer = RemoveAt(@, i),
                 ![c].inbox = IF server.version > 0 THEN Append(@, Snapshot) ELSE @]
    BY DEF ServerSubscribes
  <1> DEFINE sent == IF server.version > 0 THEN Append(cl.inbox, Snapshot) ELSE cl.inbox
             new == [cl EXCEPT !.toServer = RemoveAt(@, i), !.inbox = sent]
  <1>2. client' = [client EXCEPT ![c] = new]
    BY <1>1 DEF SystemInv
  <1>3. /\ DOMAIN server' = DOMAIN server /\ server'.version = server.version
        /\ server'.deltas = server.deltas /\ server'.creator = server.creator
        /\ server'.subscribers = server.subscribers \cup {c}
    BY DEF ServerSubscribes, SystemInv, ServerTyped
  <1>4. ClientCounted(c, cl, n) /\ Subscribed(c, cl, n, server)
    BY DEF SystemInv
  <1> HIDE DEF cl, n, sent
  <1>5. /\ ClientFields \subseteq DOMAIN new /\ new.opened = cl.opened
        /\ new.toServer = RemoveAt(cl.toServer, i) /\ new.outgoing = cl.outgoing
        /\ new.pending = cl.pending /\ new.made = cl.made /\ new.inbox = sent
        /\ new.view = cl.view
    BY <1>4 DEF ClientCounted, ClientTyped, ClientFields
  <1> HIDE DEF new
  <1>6. /\ Opens(cl.toServer) /\ RequestsTyped(new.toServer) /\ ~Opens(new.toServer)
        /\ Submitting(new.toServer) =>
              Submitting(cl.toServer) /\ new.toServer[1] = cl.toServer[1]
    <2>1. CASE cl.toServer = <<>>
      <3>1. DOMAIN cl.toServer = {}
        BY <2>1
      <3> QED
        BY <3>1
    <2>2. CASE cl.toServer = <<Opening>>
      <3>1. i = 1
        BY <2>2
      <3>2. new.toServer = <<>>
        BY <1>5, <2>2, <3>1, RemoveOnly
      <3> QED
        BY <2>2, <3>2, RequestShapes DEF RequestsTyped
    <2>3. ASSUME NEW m, IsSubmit(m), cl.toServer = <<m>>
          PROVE  FALSE
      <3>1. i = 1 /\ cl.toServer[1] = m
        BY <2>3
      <3> QED
        BY <1>1, <2>3, <3>1 DEF IsSubmit
    <2>4. ASSUME NEW m, IsSubmit(m), cl.toServer = <<m, Opening>>
          PROVE  /\ Opens(cl.toServer) /\ RequestsTyped(new.toServer)
                 /\ ~Opens(new.toServer) /\ Submitting(cl.toServer)
                 /\ new.toServer[1] = cl.toServer[1]
      <3>1. i \in {1, 2} /\ cl.toServer[1] = m
        BY <2>4
      <3>2. i = 2
        BY <1>1, <2>4, <3>1 DEF IsSubmit
      <3>3. new.toServer = <<m>>
        BY <1>5, <2>4, <3>2, RemoveSecond
      <3>4. new.toServer[1] = m
        BY <3>3
      <3> QED
        BY <2>4, <3>1, <3>3, <3>4, RequestShapes DEF RequestsTyped
    <2> QED
      BY <1>4, <2>1, <2>2, <2>3, <2>4 DEF ClientCounted, RequestsTyped, Submitting, Opens
  <1>7. /\ c \notin server.subscribers /\ cl.opened /\ cl.inbox = <<>>
        /\ ~cl.pending => Fresh(cl)
        /\ InitialDoc # <<>> => ~cl.pending
        /\ cl.pending /\ server.version > 0 /\ server.creator = AuthorOf[c] =>
              Acked(cl, n) /\ ~Submitting(cl.toServer)
    BY <1>4, <1>6 DEF Subscribed
  <1>8. /\ IsSequence(sent)
        /\ \A j \in 1..Len(sent) :
              /\ j = 1 /\ IsUpdate(sent[j])
              /\ FromMe(c, sent[j]) => server.version > 0 /\ server.creator = AuthorOf[c]
    <2>1. CASE server.version > 0
      <3>1. sent = <<Snapshot>>
        <4>1. \A x : Append(<<>>, x) = <<x>>
          OBVIOUS
        <4> QED
          BY <1>7, <2>1, <4>1 DEF sent
      <3>2. \A x : /\ <<x>> \in Seq({x}) /\ Len(<<x>>) = 1 /\ <<x>>[1] = x
                   /\ \A j \in 1..1 : j = 1
        OBVIOUS
      <3>3. IsSequence(sent) /\ Len(sent) = 1 /\ sent[1] = Snapshot
        BY <3>1, <3>2, SequenceOfItsElements
      <3> QED
        BY <2>1, <3>2, <3>3, SnapshotIsOne
    <2>2. CASE ~(server.version > 0)
      <3>1. sent = <<>>
        BY <1>7, <2>2 DEF sent
      <3>2. Len(<<>>) = 0
        OBVIOUS
      <3> QED
        BY <1>4, <1>7, <3>1, <3>2 DEF ClientCounted
    <2> QED
      BY <2>1, <2>2
  <1>9. ClientTyped(new)
    BY <1>4, <1>5 DEF ClientCounted, ClientTyped
  <1>10. Fresh(new) <=> Fresh(cl)
    BY <1>5 DEF Fresh
  <1>11. SubmitCounted(c, new, n)
    BY <1>4, <1>5, <1>6, <1>7, <1>8 DEF ClientCounted, SubmitCounted, Unacked
  <1>12. InboxCounted(c, new, n)
    BY <1>5, <1>7, <1>8, <1>10 DEF InboxCounted, Acked
  <1>13. ClientCounted(c, new, n)
    BY <1>4, <1>5, <1>6, <1>8, <1>9, <1>11, <1>12 DEF ClientCounted, Unacked, Acked
  <1>14. Subscribed(c, new, n, server')
    BY <1>3, <1>5, <1>6, <1>7 DEF Subscribed
  <1> QED
    BY <1>2, <1>3, <1>13, <1>14, ServerStep DEF n

-----------------------------------------------------------------------------
(* A submit gets into the history. *)

OwnPart(delta, c) ==
    IF delta # NoDelta /\ delta.sender = c THEN delta.ops ELSE <<>>

HistoryTyped(deltas) ==
    /\ IsSequence(deltas)
    /\ \A i \in 1..Len(deltas) : deltas[i] # NoDelta => IsSequence(deltas[i].ops)

\* The share of one client in the history, delta by delta.
LEMMA OwnOpsAreLists ==
    ASSUME NEW deltas, HistoryTyped(deltas), NEW c
    PROVE  /\ IsLists(OwnOps(deltas, c)) /\ Len(OwnOps(deltas, c)) = Len(deltas)
           /\ \A i \in 1..Len(deltas) : OwnOps(deltas, c)[i] = OwnPart(deltas[i], c)
  <1> DEFINE o == OwnOps(deltas, c)
             n == Len(deltas)
             S == {OwnPart(deltas[i], c) : i \in 1..n}
  <1>1. n \in Nat /\ DOMAIN deltas = 1..n
    <2> DEFINE T == ToSet(deltas)
    <2>1. deltas \in Seq(T)
      BY DEF HistoryTyped, IsSequence
    <2> HIDE DEF T
    <2> QED
      BY <2>1
  <1>2. o = [i \in 1..n |-> OwnPart(deltas[i], c)]
    BY <1>1 DEF OwnOps, OwnPart
  <1>3. o \in [1..n -> S]
    <2> HIDE DEF o, n
    <2> QED
      BY <1>2
  <1> HIDE DEF o, S
  <1>4. o \in Seq(S) /\ Len(o) = n
    BY <1>1, <1>3
  <1>5. \A i \in 1..n : o[i] = OwnPart(deltas[i], c)
    BY <1>2
  <1>6. IsSequence(<<>>)
    <2>1. <<>> \in Seq({})
      OBVIOUS
    <2> QED
      BY <2>1, SequenceOfItsElements
  <1>7. \A i \in 1..n : IsSequence(o[i])
    BY <1>5, <1>6 DEF OwnPart, HistoryTyped
  <1>8. IsLists(o)
    BY <1>4, <1>7, SequenceOfItsElements DEF IsLists
  <1> QED
    BY <1>4, <1>5, <1>8 DEF o

Extended(deltas, author, c, ops) ==
    deltas \o [i \in 1..(Len(ops) - 1) |-> NoDelta]
           \o <<[author |-> author, sender |-> c, ops |-> ops]>>

\* Only the author's share of the history grows, by the operations of the delta.
LEMMA HistoryGrows ==
    ASSUME NoDeltaIsNone, NEW deltas, HistoryTyped(deltas), NEW c, NEW author,
           NEW ops, IsSequence(ops), NEW new, new = Extended(deltas, author, c, ops)
    PROVE  /\ HistoryTyped(new)
           /\ Total(OwnOps(new, c)) = Total(OwnOps(deltas, c)) + Len(ops)
           /\ \A d : d # c => Total(OwnOps(new, d)) = Total(OwnOps(deltas, d))
  <1> DEFINE k == IF Len(ops) = 0 THEN 0 ELSE Len(ops) - 1
             delta == [author |-> author, sender |-> c, ops |-> ops]
             m == Len(deltas)
             l == Len(ops)
  <1>1. l \in Nat
    <2> DEFINE T == ToSet(ops)
    <2>1. ops \in Seq(T)
      BY DEF IsSequence
    <2> HIDE DEF T
    <2> QED
      BY <2>1
  <1>2. k \in Nat /\ 1..(Len(ops) - 1) = 1..k
    BY <1>1
  <1>3. delta # NoDelta
    BY DEF NoDeltaIsNone
  <1>4. delta.ops = ops /\ delta.sender = c
    OBVIOUS
  <1> HIDE DEF k, delta
  <1>5. new = deltas \o [i \in 1..k |-> NoDelta] \o <<delta>>
    BY <1>2 DEF Extended, delta
  <1>6. IsSequence(deltas)
    BY DEF HistoryTyped
  <1>7. /\ IsSequence(new) /\ m \in Nat /\ Len(new) = m + k + 1
        /\ \A i \in 1..Len(new) : new[i] = IF i <= m THEN deltas[i]
                                           ELSE IF i <= m + k THEN NoDelta ELSE delta
    <2> DEFINE t == Lengthened(deltas, k, NoDelta, delta)
    <2>1. /\ IsSequence(t) /\ Len(deltas) \in Nat /\ Len(t) = Len(deltas) + k + 1
          /\ \A i \in 1..Len(t) : t[i] = IF i <= Len(deltas) THEN deltas[i]
                                         ELSE IF i <= Len(deltas) + k THEN NoDelta
                                         ELSE delta
      BY <1>2, <1>6, LengthenedByIndex
    <2>2. new = t
      BY <1>5 DEF Lengthened
    <2> HIDE DEF t
    <2> QED
      BY <2>1, <2>2 DEF m
  <1> HIDE DEF m, l
  <1> DEFINE z == m + k + 1
  <1>8. /\ m \in Nat /\ k \in Nat /\ z \in Nat /\ Len(new) = z
        /\ \A i \in 1..m : i \in 1..z /\ i <= m
        /\ \A i \in (m + 1)..(m + k) : i \in 1..z /\ ~(i <= m) /\ i <= m + k
        /\ z \in 1..z /\ ~(z <= m) /\ ~(z <= m + k)
        /\ \A i \in 1..z : i <= m => i \in 1..m
    <2>1. m \in Nat /\ k \in Nat /\ Len(new) = z
      BY <1>2, <1>7
    <2> HIDE DEF m, k
    <2>2. /\ z \in Nat
          /\ \A i \in 1..m : i \in 1..z /\ i <= m
          /\ z \in 1..z /\ ~(z <= m) /\ ~(z <= m + k)
      BY <2>1
    <2>3. \A i \in (m + 1)..(m + k) : i \in 1..z /\ ~(i <= m) /\ i <= m + k
      BY <2>1
    <2>4. \A i \in 1..z : i <= m => i \in 1..m
      BY <2>1
    <2> HIDE DEF z
    <2> QED
      BY <2>1, <2>2, <2>3, <2>4
  <1>9. \A i \in 1..z : new[i] = IF i <= m THEN deltas[i]
                                 ELSE IF i <= m + k THEN NoDelta ELSE delta
    BY <1>7, <1>8
  <1> HIDE DEF z
  <1>10. /\ \A i \in 1..m : i \in 1..Len(new) /\ new[i] = deltas[i]
         /\ \A i \in (m + 1)..(m + k) : i \in 1..Len(new) /\ new[i] = NoDelta
         /\ m + k + 1 \in 1..Len(new) /\ new[m + k + 1] = delta
    <2>1. \A i \in 1..m : i \in 1..Len(new) /\ new[i] = deltas[i]
      BY <1>8, <1>9
    <2>2. ASSUME NEW i \in (m + 1)..(m + k)
          PROVE  i \in 1..Len(new) /\ new[i] = NoDelta
      BY <1>8, <1>9
    <2>3. z \in 1..Len(new) /\ new[z] = delta
      BY <1>8, <1>9
    <2> QED
      BY <2>1, <2>2, <2>3 DEF z
  <1>11. HistoryTyped(new)
    <2> SUFFICES ASSUME NEW i \in 1..Len(new), new[i] # NoDelta
                 PROVE  IsSequence(new[i].ops)
      BY <1>7 DEF HistoryTyped
    <2>1. i <= m \/ new[i] = delta
      BY <1>8, <1>9
    <2>2. i <= m => i \in 1..m /\ new[i] = deltas[i]
      BY <1>8, <1>9
    <2> QED
      BY <1>4, <2>1, <2>2 DEF HistoryTyped, m
  <1>12. ASSUME NEW d
         PROVE  Total(OwnOps(new, d)) = Total(OwnOps(deltas, d)) + Len(OwnPart(delta, d))
    <2> DEFINE p == OwnOps(deltas, d)
               q == OwnOps(new, d)
    <2>1. /\ IsLists(p) /\ Len(p) = m
          /\ \A i \in 1..m : p[i] = OwnPart(deltas[i], d)
      BY OwnOpsAreLists DEF m
    <2>2. /\ IsLists(q) /\ Len(q) = m + k + 1
          /\ \A i \in 1..Len(new) : q[i] = OwnPart(new[i], d)
      BY <1>7, <1>11, OwnOpsAreLists
    <2>3. Len(OwnPart(NoDelta, d)) = 0
      BY DEF OwnPart
    <2> HIDE DEF p, q
    <2>4. /\ \A i \in 1..Len(p) : Len(q[i]) = Len(p[i])
          /\ \A i \in (Len(p) + 1)..(Len(p) + k) : Len(q[i]) = 0
      <3>1. \A i \in 1..m : Len(q[i]) = Len(p[i])
        BY <1>10, <2>1, <2>2
      <3>2. \A i \in (m + 1)..(m + k) : Len(q[i]) = 0
        BY <1>10, <2>2, <2>3
      <3> QED
        BY <2>1, <3>1, <3>2
    <2>5. Total(q) = Total(p) + Len(q[Len(p) + k + 1])
      BY <1>2, <2>1, <2>2, <2>4, TotalOfLengthened
    <2>6. q[Len(p) + k + 1] = OwnPart(delta, d)
      BY <1>10, <2>1, <2>2
    <2> QED
      BY <2>5, <2>6 DEF p, q
  <1>13. OwnPart(delta, c) = ops
    BY <1>3, <1>4 DEF OwnPart
  <1>14. ASSUME NEW d, d # c
         PROVE  Total(OwnOps(new, d)) = Total(OwnOps(deltas, d))
    <2>1. Len(OwnPart(delta, d)) = 0
      BY <1>4, <1>14 DEF OwnPart
    <2>2. Total(OwnOps(deltas, d)) \in Nat
      BY OwnOpsAreLists, FlattenIsSequence
    <2>3. Total(OwnOps(new, d)) = Total(OwnOps(deltas, d)) + Len(OwnPart(delta, d))
      BY <1>12
    <2> QED
      BY <2>1, <2>2, <2>3
  <1> QED
    BY <1>11, <1>12, <1>13, <1>14

\* An update comes behind what is in the inbox.
LEMMA InboxGrows ==
    ASSUME NEW inbox, IsSequence(inbox), NEW u
    PROVE  /\ IsSequence(Append(inbox, u)) /\ Len(inbox) \in Nat
           /\ Len(Append(inbox, u)) = Len(inbox) + 1
           /\ \A i \in 1..(Len(inbox) + 1) :
                 Append(inbox, u)[i] = IF i <= Len(inbox) THEN inbox[i] ELSE u
  <1> DEFINE S == ToSet(inbox) \cup {u}
  <1>1. inbox \in Seq(S)
    BY SeqMonotonic DEF IsSequence
  <1> HIDE DEF S
  <1>2. S \cup {u} = S
    BY DEF S
  <1>3. Len(inbox) \in Nat /\ u \in S
    BY <1>1, <1>2
  <1>4. /\ Append(inbox, u) \in Seq(S) /\ Len(Append(inbox, u)) = Len(inbox) + 1
        /\ \A i \in 1..Len(inbox) : Append(inbox, u)[i] = inbox[i]
        /\ Append(inbox, u)[Len(inbox) + 1] = u
    BY <1>1, <1>3, AppendProperties
  <1>5. IsSequence(Append(inbox, u))
    BY <1>4, SequenceOfItsElements
  <1> QED
    BY <1>3, <1>4, <1>5

\* What an update does to the client it is sent to, if it is subscribed.
Reached(d, cl, new, u) ==
    new = IF d \in server.subscribers THEN [cl EXCEPT !.inbox = Append(@, u)] ELSE cl

Receiving(d, cl, new, u) ==
    /\ ClientTyped(new) /\ new.opened = cl.opened /\ new.outgoing = cl.outgoing
    /\ new.pending = cl.pending /\ new.made = cl.made /\ new.view = cl.view
    /\ new.toServer = cl.toServer /\ IsSequence(new.inbox)
    /\ d \notin server.subscribers => new.inbox = <<>>
    /\ \A i \in 1..Len(new.inbox) :
          \/ i \in 1..Len(cl.inbox) /\ new.inbox[i] = cl.inbox[i]
          \/ i = Len(cl.inbox) + 1 /\ new.inbox[i] = u

\* An update only changes the inbox.
LEMMA ReachedKeeps ==
    ASSUME NEW d, NEW cl, ClientTyped(cl), IsSequence(cl.inbox), NEW u,
           d \notin server.subscribers => cl.inbox = <<>>,
           NEW new, Reached(d, cl, new, u)
    PROVE  Receiving(d, cl, new, u)
  <1> DEFINE e == [cl EXCEPT !.inbox = Append(@, u)]
  <1>1. /\ ClientFields \subseteq DOMAIN e /\ e.opened = cl.opened
        /\ e.outgoing = cl.outgoing /\ e.pending = cl.pending /\ e.made = cl.made
        /\ e.view = cl.view /\ e.toServer = cl.toServer
        /\ e.inbox = Append(cl.inbox, u)
    BY DEF ClientTyped, ClientFields
  <1>2. CASE d \notin server.subscribers
    BY <1>2 DEF Reached, Receiving
  <1>3. CASE d \in server.subscribers
    <2>1. new = e
      BY <1>3 DEF Reached
    <2> HIDE DEF e
    <2>2. ClientTyped(new)
      BY <1>1, <2>1 DEF ClientTyped
    <2>3. /\ IsSequence(new.inbox) /\ Len(cl.inbox) \in Nat
          /\ Len(new.inbox) = Len(cl.inbox) + 1
          /\ \A i \in 1..(Len(cl.inbox) + 1) :
                new.inbox[i] = IF i <= Len(cl.inbox) THEN cl.inbox[i] ELSE u
      <3> DEFINE a == Append(cl.inbox, u)
      <3>1. /\ IsSequence(a) /\ Len(cl.inbox) \in Nat /\ Len(a) = Len(cl.inbox) + 1
            /\ \A i \in 1..(Len(cl.inbox) + 1) :
                  a[i] = IF i <= Len(cl.inbox) THEN cl.inbox[i] ELSE u
        BY InboxGrows
      <3>2. new.inbox = a
        BY <1>1, <2>1
      <3> HIDE DEF a
      <3> QED
        BY <3>1, <3>2
    <2> QED
      BY <1>1, <1>3, <2>1, <2>2, <2>3 DEF Receiving
  <1> QED
    BY <1>2, <1>3

\* The author: all of its delta is in the history, and what comes behind its inbox
\* is the only acknowledgement.
LEMMA AuthorCommits ==
    ASSUME NEW c, NEW cl, NEW n, NEW k, ClientCounted(c, cl, n),
           Subscribed(c, cl, n, server), Submitting(cl.toServer),
           k = Len(cl.toServer[1].ops),
           NEW taken, ClientTyped(taken), RequestsTyped(taken.toServer),
           ~Submitting(taken.toServer), Opens(taken.toServer) <=> Opens(cl.toServer),
           cl.opened = taken.opened, cl.outgoing = taken.outgoing,
           cl.pending = taken.pending, cl.made = taken.made,
           cl.inbox = taken.inbox, cl.view = taken.view,
           NEW u, IsUpdate(u), IsBroadcast(u), NEW new, Reached(c, taken, new, u),
           NEW srv, srv.subscribers = server.subscribers
    PROVE  ClientCounted(c, new, n + k) /\ Subscribed(c, new, n + k, srv)
  <1>1. /\ cl.pending /\ Unacked(cl, n) /\ k = Len(Head(cl.outgoing))
        /\ \A i \in 1..Len(cl.inbox) : ~FromMe(c, cl.inbox[i])
        /\ cl.outgoing # <<>> /\ n \in Nat
    BY DEF ClientCounted, SubmitCounted, ClientTyped
  <1>2. /\ k \in Nat /\ Total(Tail(cl.outgoing)) \in Nat
        /\ Total(cl.outgoing) = k + Total(Tail(cl.outgoing))
    BY <1>1, TotalOfTail DEF ClientCounted, ClientTyped
  <1>3. cl.toServer # <<>> /\ cl.opened
    BY RequestShapes DEF Subscribed
  <1>4. c \notin server.subscribers => taken.inbox = <<>>
    BY DEF Subscribed
  <1>5. IsSequence(taken.inbox)
    BY DEF ClientCounted
  <1>6. /\ ClientTyped(new) /\ new.opened = cl.opened /\ new.outgoing = cl.outgoing
        /\ new.pending = cl.pending /\ new.made = cl.made /\ new.view = cl.view
        /\ new.toServer = taken.toServer /\ IsSequence(new.inbox)
        /\ c \notin server.subscribers => new.inbox = <<>>
        /\ \A i \in 1..Len(new.inbox) :
              \/ i \in 1..Len(cl.inbox) /\ new.inbox[i] = cl.inbox[i]
              \/ i = Len(cl.inbox) + 1 /\ new.inbox[i] = u
    BY <1>4, <1>5, ReachedKeeps DEF Receiving
  <1>7. Acked(new, n + k)
    <2> DEFINE t == Total(Tail(cl.outgoing))
    <2>1. cl.made = n + (k + t)
      BY <1>1, <1>2 DEF Unacked
    <2> HIDE DEF t
    <2>2. cl.made = (n + k) + t
      BY <1>1, <1>2, <2>1 DEF t
    <2> QED
      BY <1>1, <1>6, <2>2 DEF Acked, t
  <1>8. InboxCounted(c, new, n + k)
    <2> SUFFICES ASSUME NEW i \in 1..Len(new.inbox)
                 PROVE  /\ IsUpdate(new.inbox[i])
                        /\ FromMe(c, new.inbox[i]) =>
                              \A j \in 1..Len(new.inbox) :
                                  FromMe(c, new.inbox[j]) => i = j
                        /\ InitialDoc # <<>> /\ ~IsBroadcast(new.inbox[i]) =>
                              i = 1 /\ Fresh(new)
      BY <1>1, <1>6, <1>7 DEF InboxCounted
    <2>1. \A j \in 1..Len(new.inbox) : FromMe(c, new.inbox[j]) => j = Len(cl.inbox) + 1
      BY <1>1, <1>6
    <2>2. /\ IsUpdate(new.inbox[i])
          /\ InitialDoc # <<>> /\ ~IsBroadcast(new.inbox[i]) => i = 1 /\ Fresh(new)
      BY <1>6 DEF ClientCounted, InboxCounted, Fresh
    <2> QED
      BY <2>1, <2>2
  <1>9. ClientCounted(c, new, n + k)
    BY <1>1, <1>2, <1>6, <1>7, <1>8 DEF ClientCounted, SubmitCounted
  <1>10. Subscribed(c, new, n + k, srv)
    BY <1>1, <1>3, <1>6, <1>7 DEF Subscribed
  <1> QED
    BY <1>9, <1>10

\* The others: the update is by another user.
LEMMA OtherCommits ==
    ASSUME NEW d, NEW cl, NEW n, ClientCounted(d, cl, n), Subscribed(d, cl, n, server),
           NEW u, IsUpdate(u), IsBroadcast(u), ~FromMe(d, u),
           NEW new, Reached(d, cl, new, u),
           NEW srv, srv.subscribers = server.subscribers,
           srv.creator = AuthorOf[d] => server.version > 0 /\ server.creator = AuthorOf[d]
    PROVE  ClientCounted(d, new, n) /\ Subscribed(d, new, n, srv)
  <1>1. ClientTyped(cl) /\ IsSequence(cl.inbox) /\ n \in Nat
    BY DEF ClientCounted
  <1>2. d \notin server.subscribers => cl.inbox = <<>>
    BY DEF Subscribed
  <1>3. Receiving(d, cl, new, u)
    BY <1>1, <1>2, ReachedKeeps
  <1>4. /\ ClientTyped(new) /\ new.opened = cl.opened /\ new.outgoing = cl.outgoing
        /\ new.pending = cl.pending /\ new.made = cl.made /\ new.view = cl.view
        /\ new.toServer = cl.toServer /\ IsSequence(new.inbox)
        /\ d \notin server.subscribers => new.inbox = <<>>
        /\ \A i \in 1..Len(new.inbox) :
              \/ i \in 1..Len(cl.inbox) /\ new.inbox[i] = cl.inbox[i]
              \/ i = Len(cl.inbox) + 1 /\ new.inbox[i] = u
    BY <1>3 DEF Receiving
  <1>5. InboxCounted(d, new, n)
    <2> SUFFICES ASSUME NEW i \in 1..Len(new.inbox)
                 PROVE  /\ IsUpdate(new.inbox[i])
                        /\ FromMe(d, new.inbox[i]) =>
                              /\ new.pending => Acked(new, n)
                              /\ ~new.pending => i = 1 /\ Fresh(new)
                              /\ \A j \in 1..Len(new.inbox) :
                                    FromMe(d, new.inbox[j]) => i = j
                        /\ InitialDoc # <<>> /\ ~IsBroadcast(new.inbox[i]) =>
                              i = 1 /\ Fresh(new)
      BY DEF InboxCounted
    <2>1. CASE i \in 1..Len(cl.inbox) /\ new.inbox[i] = cl.inbox[i]
      <3>1. \A j \in 1..Len(new.inbox) : FromMe(d, new.inbox[j]) =>
               j \in 1..Len(cl.inbox) /\ FromMe(d, cl.inbox[j])
        BY <1>4
      <3> QED
        BY <1>4, <2>1, <3>1 DEF ClientCounted, InboxCounted, Fresh, Acked
    <2>2. CASE new.inbox[i] = u
      BY <2>2
    <2> QED
      BY <1>4, <2>1, <2>2
  <1>6. SubmitCounted(d, new, n)
    BY <1>4 DEF ClientCounted, SubmitCounted, Unacked
  <1>7. ClientCounted(d, new, n)
    BY <1>1, <1>4, <1>5, <1>6 DEF ClientCounted, Unacked, Acked
  <1>8. Subscribed(d, new, n, srv)
    BY <1>4 DEF Subscribed, Fresh, Acked
  <1> QED
    BY <1>7, <1>8

\* A submit is committed and broadcast.
LEMMA CommitStep ==
    ASSUME SystemInv, OneSessionEach, NoDeltaIsNone, NEW c \in Clients, ServerCommits(c)
    PROVE  SystemInv'
  <1> DEFINE cl == client[c]
             taken == [cl EXCEPT !.toServer = Tail(@)]
             ops == Rebased(c).ops
             k == Len(ops)
             version == server.version + k
             delta == [author |-> AuthorOf[c], sender |-> c, ops |-> ops]
             u == [deltas |-> <<delta>>, version |-> version]
             doc == Outcome(c).doc
             deltas == server.deltas \o [i \in 1..(Len(ops) - 1) |-> NoDelta] \o <<delta>>
  <1>1. /\ server' = [server EXCEPT
              !.version = version, !.deltas = deltas, !.doc = doc,
              !.creator = IF server.version = 0 THEN AuthorOf[c] ELSE @]
        /\ client' = Broadcast(Taken(c), u)
        /\ HasSubmitted(c)
    BY DEF ServerCommits
  <1>2. /\ Taken(c) = [client EXCEPT ![c] = taken]
        /\ Submitting(cl.toServer) /\ NextSubmit(c) = cl.toServer[1]
        /\ IsSequence(NextSubmit(c).ops)
        /\ cl.opened = taken.opened /\ cl.outgoing = taken.outgoing
        /\ cl.pending = taken.pending /\ cl.made = taken.made
        /\ cl.inbox = taken.inbox /\ cl.view = taken.view
        /\ ClientTyped(taken) /\ RequestsTyped(taken.toServer)
        /\ ~Submitting(taken.toServer)
        /\ Opens(taken.toServer) <=> Opens(cl.toServer)
    BY <1>1, TakenWorks
  <1>3. IsSequence(ops) /\ k = Len(cl.toServer[1].ops)
    BY <1>2, MovedLength DEF Rebased
  <1>4. k \in Nat
    <2> DEFINE T == ToSet(ops)
    <2>1. ops \in Seq(T)
      BY <1>3 DEF IsSequence
    <2> HIDE DEF T
    <2> QED
      BY <2>1
  <1>5. IsUpdate(u) /\ IsBroadcast(u) /\ \A d : FromMe(d, u) => AuthorOf[c] = AuthorOf[d]
    <2>1. u.deltas = <<delta>> /\ {"deltas", "version"} \subseteq DOMAIN u
      OBVIOUS
    <2>2. <<delta>>[1].author = AuthorOf[c]
      OBVIOUS
    <2> HIDE DEF u, ops
    <2> QED
      BY <2>1, <2>2 DEF IsUpdate, IsBroadcast, FromMe
  <1>6. HistoryTyped(server.deltas) /\ server.version \in Nat
    BY DEF SystemInv, ServerTyped, HistoryTyped
  <1> HIDE DEF cl, taken, ops, u, doc
  <1>7. /\ HistoryTyped(deltas)
        /\ Total(OwnOps(deltas, c)) = Total(OwnOps(server.deltas, c)) + k
        /\ \A d : d # c => Total(OwnOps(deltas, d)) = Total(OwnOps(server.deltas, d))
    <2>1. deltas = Extended(server.deltas, AuthorOf[c], c, ops)
      BY DEF Extended
    <2> HIDE DEF deltas, delta, k, version
    <2> QED
      BY <1>3, <1>6, <2>1, HistoryGrows DEF k
  <1> HIDE DEF k, delta, deltas, version
  <1>8. /\ DOMAIN server' = DOMAIN server /\ server'.version = version
        /\ server'.deltas = deltas /\ server'.subscribers = server.subscribers
        /\ server'.creator = IF server.version = 0 THEN AuthorOf[c] ELSE server.creator
    BY <1>1 DEF SystemInv, ServerTyped
  <1>9. /\ version \in Nat /\ version >= server.version
    BY <1>4, <1>6 DEF version
  <1>10. ServerTyped'
    BY <1>6, <1>7, <1>8, <1>9 DEF SystemInv, ServerTyped, HistoryTyped
  <1>11. /\ Committed(c)' = Committed(c) + k
         /\ \A d : d # c => Committed(d)' = Committed(d)
    BY <1>7, <1>8 DEF Committed, Total
  <1>12. /\ client' = [d \in Clients |-> client'[d]]
         /\ Reached(c, taken, client'[c], u)
         /\ \A d \in Clients \ {c} : Reached(d, client[d], client'[d], u)
    <2>1. client' = [d \in Clients |->
                       IF d \in server.subscribers
                       THEN [Taken(c)[d] EXCEPT !.inbox = Append(@, u)]
                       ELSE Taken(c)[d]]
      BY <1>1 DEF Broadcast
    <2>2. Taken(c)[c] = taken /\ \A d \in Clients \ {c} : Taken(c)[d] = client[d]
      BY <1>2 DEF SystemInv
    <2> QED
      BY <2>1, <2>2 DEF Reached
  <1>13. /\ ClientCounted(c, cl, Committed(c)) /\ Subscribed(c, cl, Committed(c), server)
         /\ \A d \in Clients : /\ ClientCounted(d, client[d], Committed(d))
                               /\ Subscribed(d, client[d], Committed(d), server)
    BY DEF SystemInv, cl
  <1>14. /\ ClientCounted(c, client'[c], Committed(c) + k)
         /\ Subscribed(c, client'[c], Committed(c) + k, server')
    BY <1>2, <1>3, <1>5, <1>8, <1>12, <1>13, AuthorCommits
  <1>15. ASSUME NEW d \in Clients \ {c}
         PROVE  /\ ClientCounted(d, client'[d], Committed(d))
                /\ Subscribed(d, client'[d], Committed(d), server')
    <2>1. AuthorOf[c] # AuthorOf[d]
      BY DEF OneSessionEach
    <2>2. ~FromMe(d, u)
      BY <1>5, <2>1
    <2>3. server'.creator = AuthorOf[d] =>
             server.version > 0 /\ server.creator = AuthorOf[d]
      BY <1>6, <1>8, <2>1
    <2> QED
      BY <1>5, <1>8, <1>12, <1>13, <2>2, <2>3, OtherCommits
  <1>16. ASSUME NEW d \in Clients
         PROVE  /\ ClientCounted(d, client[d], Committed(d))'
                /\ Subscribed(d, client[d], Committed(d), server)'
    <2>1. CASE d = c
      BY <1>11, <1>14, <2>1
    <2>2. CASE d # c
      BY <1>11, <1>15, <2>2
    <2> QED
      BY <2>1, <2>2
  <1> QED
    BY <1>10, <1>12, <1>16 DEF SystemInv

-----------------------------------------------------------------------------
(* The invariant and what follows from it. *)

\* At first nothing has been made or sent.
LEMMA InitEstablishes ==
    ASSUME SystemInit, NoDeltaIsNone
    PROVE  SystemInv
  <1>1. Len(<<>>) = 0 /\ IsSequence(<<>>) /\ \A x : Len(<<x>>) = 1 /\ <<x>>[1] = x
    <2>1. <<>> \in Seq({}) /\ Len(<<>>) = 0 /\ \A x : Len(<<x>>) = 1 /\ <<x>>[1] = x
      OBVIOUS
    <2> QED
      BY <2>1, SequenceOfItsElements
  <1>2. \A x : IsSequence(<<x>>)
    <2>1. \A x : <<x>> \in Seq({x})
      OBVIOUS
    <2> QED
      BY <2>1, SequenceOfItsElements
  <1>3. IsLists(<<>>) /\ Total(<<>>) = 0
    <2>1. IsLists(<<>>)
      BY <1>1 DEF IsLists
    <2>2. \A f : f = [i \in 0..0 |-> 0] => IsSum(f, <<>>)
      BY <1>1 DEF IsSum
    <2>3. PICK f : f = [i \in 0..0 |-> 0]
      OBVIOUS
    <2>4. Total(<<>>) = f[0]
      BY <1>1, <2>1, <2>2, <2>3, FlattenSum
    <2> QED
      BY <2>1, <2>3, <2>4
  <1> DEFINE ops == <<InsertAll(InitialDoc)>>
             delta == [author |-> Creator, sender |-> Nobody, ops |-> ops]
  <1>4. IsSequence(ops) /\ delta.ops = ops /\ delta.sender = Nobody
    BY <1>2
  <1>5. /\ {"version", "deltas", "doc", "creator", "subscribers"} \subseteq DOMAIN server
        /\ server.subscribers = {}
        /\ InitialDoc = <<>> => server.version = 0 /\ server.deltas = <<>>
        /\ InitialDoc # <<>> => server.version = 1 /\ server.deltas = <<delta>>
    BY DEF SystemInit, ServerInit
  <1> HIDE DEF ops, delta
  <1>6. HistoryTyped(server.deltas)
    BY <1>1, <1>2, <1>4, <1>5 DEF HistoryTyped
  <1>7. ServerTyped
    BY <1>5, <1>6 DEF ServerTyped, HistoryTyped
  <1>8. ASSUME NEW c \in Clients
        PROVE  Committed(c) = 0
    <2> DEFINE o == OwnOps(server.deltas, c)
    <2>1. /\ IsLists(o) /\ Len(o) = Len(server.deltas)
          /\ \A i \in 1..Len(server.deltas) : o[i] = OwnPart(server.deltas[i], c)
      BY <1>6, OwnOpsAreLists
    <2>2. \A i \in 1..Len(server.deltas) : Len(o[i]) = 0
      BY <1>1, <1>4, <1>5, <2>1, SystemAssumption DEF OwnPart
    <2>3. Len(o) \in Nat
      BY <1>1, <1>5, <2>1
    <2> HIDE DEF o
    <2> DEFINE f == [i \in 0..Len(o) |-> 0]
    <2>4. IsSum(f, o)
      BY <2>1, <2>2, <2>3 DEF IsSum
    <2>5. f[Len(o)] = 0
      BY <2>3
    <2> HIDE DEF f
    <2>6. Total(o) = 0
      BY <2>1, <2>4, <2>5, FlattenSum
    <2> QED
      BY <2>6 DEF Committed, Total, o
  <1>9. client = [c \in Clients |-> client[c]] /\ \A c \in Clients : client[c] = ClientInit
    BY DEF SystemInit
  <1>10. /\ ClientTyped(ClientInit) /\ Fresh(ClientInit) /\ Unacked(ClientInit, 0)
         /\ ClientInit.toServer = <<>> /\ ClientInit.inbox = <<>>
    <2>1. /\ ClientFields \subseteq DOMAIN ClientInit /\ ClientInit.made = 0
          /\ ClientInit.outgoing = <<>> /\ ~ClientInit.pending /\ ClientInit.view = <<>>
          /\ ClientInit.toServer = <<>> /\ ClientInit.inbox = <<>>
      BY DEF ClientInit, ClientFields
    <2> QED
      BY <1>3, <2>1 DEF ClientTyped, Fresh, Unacked
  <1> HIDE DEF ClientInit
  <1>11. ASSUME NEW c \in Clients
         PROVE  /\ ClientCounted(c, ClientInit, 0)
                /\ Subscribed(c, ClientInit, 0, server)
    BY <1>1, <1>5, <1>10, RequestShapes
       DEF ClientCounted, RequestsTyped, SubmitCounted, InboxCounted, Subscribed
  <1> QED
    BY <1>7, <1>8, <1>9, <1>11 DEF SystemInv

\* Every step of a client, the network or the server keeps the invariant.
LEMMA NextKeeps ==
    ASSUME SystemInv, OneSessionEach, NoDeltaIsNone, [SystemNext]_systemVars
    PROVE  SystemInv'
  <1>1. CASE UNCHANGED systemVars
    <2>1. client' = client /\ server' = server
      BY <1>1 DEF systemVars
    <2>2. \A c \in Clients : Committed(c)' = Committed(c)
      BY <2>1 DEF Committed
    <2>3. ASSUME NEW c \in Clients
          PROVE  /\ ClientCounted(c, client[c], Committed(c))'
                 /\ Subscribed(c, client[c], Committed(c), server)'
      <3>1. /\ ClientCounted(c, client'[c], Committed(c))
            /\ Subscribed(c, client'[c], Committed(c), server')
        BY <2>1 DEF SystemInv
      <3> QED
        BY <2>2, <3>1
    <2>4. ServerTyped'
      BY <2>1 DEF SystemInv, ServerTyped
    <2> QED
      BY <2>1, <2>3, <2>4 DEF SystemInv
  <1>2. ASSUME NEW c \in Clients, DeliverTo(c)
        PROVE  SystemInv'
    BY <1>2, ReceivesStep, RefuseStep, MisapplyStep, CommitStep, SubscribesStep
       DEF DeliverTo
  <1>3. ASSUME NEW c \in Clients, UserOf(c)
        PROVE  SystemInv'
    BY <1>3, EditStep, EditTwiceStep, OpenStep, NewWaveStep DEF UserOf
  <1>4. ASSUME NEW c \in Clients, NetworkOf(c)
        PROVE  SystemInv'
    BY <1>4, DisconnectStep, ReconnectStep DEF NetworkOf
  <1> QED
    BY <1>1, <1>2, <1>3, <1>4 DEF SystemNext

\* The account of the operations holds in every state.
LEMMA SystemInvariant ==
    ASSUME OneSessionEach, NoDeltaIsNone
    PROVE  SystemSpec => []SystemInv
  <1>1. SystemInit => SystemInv
    BY InitEstablishes
  <1>2. SystemInv /\ [SystemNext]_systemVars => SystemInv'
    BY NextKeeps
  <1> QED
    BY <1>1, <1>2, PTL DEF SystemSpec

\* Every operation a user makes gets into the history at most once, and is in his
\* client's queue until then, whatever connections break and whatever the server
\* refuses, as long as no user has two sessions.
THEOREM NothingIsLostOrRepeated ==
    ASSUME OneSessionEach, NoDeltaIsNone
    PROVE  SystemSpec => []NoEditLostOrRepeated
  <1>1. ASSUME SystemInv
        PROVE  NoEditLostOrRepeated
    <2> SUFFICES ASSUME NEW c \in Clients
                 PROVE  /\ Committed(c) <= client[c].made
                        /\ client[c].made <= Committed(c) + Total(client[c].outgoing)
      BY DEF NoEditLostOrRepeated, Total
    <2> DEFINE n == Committed(c)
               q == client[c].outgoing
    <2>1. n \in Nat /\ IsLists(q) /\ client[c].made \in Nat
      BY <1>1 DEF SystemInv, ClientCounted, ClientTyped
    <2>2. Unacked(client[c], n) \/ Acked(client[c], n)
      BY <1>1 DEF SystemInv, ClientCounted
    <2> HIDE DEF n
    <2>3. CASE Unacked(client[c], n)
      <3>1. client[c].made = n + Total(q) /\ Total(q) \in Nat
        BY <2>1, <2>3, FlattenIsSequence DEF Unacked
      <3> QED
        BY <2>1, <3>1 DEF n
    <2>4. CASE Acked(client[c], n)
      <3> DEFINE t == Total(Tail(q))
                 h == Len(Head(q))
      <3>1. /\ client[c].made = n + t /\ t \in Nat /\ h \in Nat
            /\ Total(q) = h + t
        BY <2>1, <2>4, TotalOfTail DEF Acked
      <3> HIDE DEF t, h
      <3> QED
        BY <2>1, <3>1 DEF n
    <2> QED
      BY <2>2, <2>3, <2>4
  <1>2. SystemSpec => []SystemInv
    BY SystemInvariant
  <1> QED
    BY <1>1, <1>2, PTL
================================================================================
