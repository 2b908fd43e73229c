------------------------------- MODULE OTSystem -------------------------------
(***************************************************************************)
(* Clients that edit one document of one wavelet together: per client the  *)
(* OTProcessor (src/waveclient/model/otprocessor.cpp) with the part of the *)
(* NetworkAdapter that feeds it, the connections, and the wavelet of the   *)
(* server, which transforms, applies and broadcasts                        *)
(* (src/waveserver/model/wavelet.cpp).                                     *)
(*                                                                         *)
(* A client action is one event of the client's event loop.  A submit is   *)
(* one step of the server: module LocalWavelet shows that the critical     *)
(* section makes it one.  No server crashes here, so a hashed version is   *)
(* named by its version alone.  What the operations do to participants is  *)
(* left out; an operation without a mutation is NoMutation.                *)
(***************************************************************************)
EXTENDS DocumentMutation

CONSTANTS
    Clients,        \* the sessions
    AuthorOf,       \* the user of each of them
    Creator,        \* the user who has created the wavelet, if InitialDoc # <<>>
    InitialDoc,     \* what is in the document already, or <<>>: no such wavelet
    NewDoc,         \* what MainWindow::newWave puts into it
    Letter,         \* per client, the character it types
    Gathering,      \* m_gatherDeltas
    NoDelta, Nobody,
    MaxEdits,       \* per client, how many operations its user makes
    MaxOutages      \* how many connections break

ASSUME SystemAssumption ==
    /\ Gathering \in BOOLEAN /\ Nobody \notin Clients
    /\ MaxEdits \in [Clients -> Nat] /\ MaxOutages \in Nat

VARIABLES
    client,     \* per client, the records of ClientInit
    server,     \* version, m_deltas, document, m_creator, m_contentSubscribers
    outages

systemVars == <<client, server, outages>>

\* An operation of a delta that does not touch the document.
NoMutation == <<>>

-----------------------------------------------------------------------------
(* Lists of operations.                                                     *)

ApplyOps(doc, ops) ==
    LET after[i \in 0..Len(ops)] ==
            IF i = 0 THEN [ok |-> TRUE, doc |-> doc]
            ELSE LET last == after[i - 1]
                 IN  IF last.ok THEN ApplyMutation(last.doc, ops[i]) ELSE last
    IN  after[Len(ops)]

\* One operation is moved behind all of theirs, and theirs behind it.
Crossed(moved, x) ==
    [ok |-> moved.ok /\ x.ok, theirs |-> Append(moved.theirs, x.r1), op |-> x.r2]

MovePast(theirs, op) ==
    LET after[i \in 0..Len(theirs)] ==
            IF i = 0 THEN [ok |-> TRUE, theirs |-> <<>>, op |-> op]
            ELSE LET step(moved) == Crossed(moved, Xform(theirs[i], moved.op))
                 IN  step(after[i - 1])
    IN  after[Len(theirs)]

\* The same for all operations of a delta.
AllCrossed(moved, x) ==
    [ok |-> moved.ok /\ x.ok, theirs |-> x.theirs, ops |-> Append(moved.ops, x.op)]

MoveAllPast(theirs, ops) ==
    LET after[i \in 0..Len(ops)] ==
            IF i = 0 THEN [ok |-> TRUE, theirs |-> theirs, ops |-> <<>>]
            ELSE LET step(moved) == AllCrossed(moved, MovePast(moved.theirs, ops[i]))
                 IN  step(after[i - 1])
    IN  after[Len(ops)]

\* The deltas of a queue, made of ops again.
Regrouped(queue, ops) ==
    LET before(i) == Len(FlattenSeq(SubSeq(queue, 1, i - 1)))
    IN  [i \in DOMAIN queue |->
            SubSeq(ops, before(i) + 1, before(i) + Len(queue[i]))]

InsertAll(doc) ==
    LET component(item) ==
            CASE item.kind = "char" -> InsertChars(<<item.text>>)
              [] item.kind = "start" -> ElementStart(item.text, item.attributes)
              [] OTHER -> ElementEnd
        after[i \in 0..Len(doc)] ==
            IF i = 0 THEN <<>> ELSE Add(after[i - 1], component(doc[i]))
    IN  after[Len(doc)]

-----------------------------------------------------------------------------
(* OTProcessor.  The operators give the client's record after the method.   *)

SubmitNext(cl) ==
    IF ~cl.online \/ cl.outgoing = <<>> \/ cl.suspended THEN cl
    ELSE [cl EXCEPT !.pending = TRUE,
                    !.toServer = Append(@, [type |-> "submit",
                                            base |-> cl.serverVersion,
                                            ops  |-> Head(cl.outgoing)])]

\* Mutated form: may append to the delta that has been submitted.
GatherAlways(queue, pending) ==
    IF Len(queue) <= 1 THEN queue
    ELSE Append(Front(Front(queue)), Last(Front(queue)) \o Last(queue))

GatherOutgoing(queue, pending) ==
    IF Len(queue) <= 1 \/ (Len(queue) <= 2 /\ pending) THEN queue
    ELSE Append(Front(Front(queue)), Last(Front(queue)) \o Last(queue))

HandleSend(cl, op) ==
    LET applied == [cl EXCEPT !.view = ApplyMutation(@, op).doc,
                              !.outgoing = Append(@, <<op>>),
                              !.made = @ + 1]
    IN  IF ~cl.pending /\ ~cl.suspended THEN SubmitNext(applied)
        ELSE IF Gathering
        THEN [applied EXCEPT !.outgoing = GatherOutgoing(@, cl.pending)]
        ELSE applied

SuspendSending(cl) == [cl EXCEPT !.suspended = TRUE]

ResumeSending(cl) ==
    LET resumed == [cl EXCEPT !.suspended = FALSE]
    IN  IF cl.pending THEN resumed ELSE SubmitNext(resumed)

TakesAsAck(c, cl, d) == cl.pending /\ d.author = AuthorOf[c]

\* Mutated form: the deltas in the queue are left as they were.
ApplyReceivedOnly(cl, x) ==
    IF ~x.ok THEN [cl EXCEPT !.blown = TRUE]
    ELSE [cl EXCEPT !.view = ApplyOps(@, x.theirs).doc]

\* Where the transformation fails, "This wave is blown up": Q_ASSERT( false ).
\* What the client does after that is not modelled.
ApplyReceived(cl, x) ==
    IF ~x.ok THEN [cl EXCEPT !.blown = TRUE]
    ELSE [cl EXCEPT !.outgoing = Regrouped(@, x.ops),
                    !.view = ApplyOps(@, x.theirs).doc]

HandleReceive(c, cl, d) ==
    IF cl.blown THEN cl
    ELSE IF TakesAsAck(c, cl, d)
    THEN [cl EXCEPT !.outgoing = Tail(@), !.pending = FALSE]
    ELSE ApplyReceived(cl, MoveAllPast(d.ops, FlattenSeq(cl.outgoing)))

\* Mutated form: the next delta waits for the next edit.
SetResultingVersionOnly(cl, version) ==
    IF version <= cl.serverVersion THEN cl
    ELSE [cl EXCEPT !.serverVersion = version]

SetResultingVersion(cl, version) ==
    IF version <= cl.serverVersion THEN cl
    ELSE LET told == [cl EXCEPT !.serverVersion = version]
         IN  IF cl.pending THEN told ELSE SubmitNext(told)

\* NetworkAdapter::messageReceived.
ReceiveUpdate(c, cl, update) ==
    LET after[i \in 0..Len(update.deltas)] ==
            IF i = 0 THEN cl ELSE HandleReceive(c, after[i - 1], update.deltas[i])
    IN  SetResultingVersion(after[Len(update.deltas)], update.version)

-----------------------------------------------------------------------------
(* The user and the network of a client. *)

\* What the user may do to the text inside the outermost element.
EditsOf(c, doc) ==
    LET walk(i) == IF i <= 0 THEN <<>> ELSE <<Retain(i)>>
    IN  {walk(i - 1) \o <<InsertChars(<<Letter[c]>>)>> \o walk(Len(doc) - i + 1) :
            i \in 2..Len(doc)} \cup
        {walk(i - 1) \o <<DeleteChars(<<doc[i].text>>)>> \o walk(Len(doc) - i) :
            i \in {j \in DOMAIN doc : doc[j].kind = "char"}}

Alive(c) == ~client[c].blown

\* One handleSend, in the event of a key press.
Edit(c) ==
    /\ Alive(c) /\ client[c].made < MaxEdits[c]
    /\ \E op \in EditsOf(c, client[c].view) :
          client' = [client EXCEPT ![c] = HandleSend(@, op)]
    /\ UNCHANGED <<server, outages>>

\* Two of them between suspend and resume, in one event: Blip::createReplyBlip.
EditTwice(c) ==
    /\ Alive(c) /\ client[c].made + 1 < MaxEdits[c]
    /\ LET suspended == SuspendSending(client[c])
       IN  \E op \in EditsOf(c, suspended.view) :
             LET first == HandleSend(suspended, op)
             IN  \E op2 \in EditsOf(c, first.view) :
                    client' = [client EXCEPT ![c] = ResumeSending(HandleSend(first, op2))]
    /\ UNCHANGED <<server, outages>>

SendOpen(cl) ==
    [cl EXCEPT !.opened = TRUE, !.toServer = Append(@, [type |-> "open"])]

\* The user selects a wave: openWavelet sends the request once and for all.
Open(c) ==
    /\ Alive(c) /\ client[c].online /\ ~client[c].opened
    /\ server.version > 0
    /\ client' = [client EXCEPT ![c] = SendOpen(@)]
    /\ UNCHANGED <<server, outages>>

\* MainWindow::newWave: the user creates the wave, adds himself, fills in the
\* document, and opens the wave.
NewWave(c) ==
    /\ server.version = 0 /\ \A d \in Clients : ~client[d].opened
    /\ client[c].online /\ client[c].made + 1 < MaxEdits[c]
    /\ LET joined == HandleSend(SuspendSending(client[c]), NoMutation)
           filled == HandleSend(joined, InsertAll(NewDoc))
       IN  client' = [client EXCEPT ![c] = SendOpen(ResumeSending(filled))]
    /\ UNCHANGED <<server, outages>>

ClientReceives(c) ==
    /\ Alive(c) /\ client[c].inbox # <<>>
    /\ LET cl == [client[c] EXCEPT !.inbox = Tail(@)]
       IN  client' = [client EXCEPT ![c] =
                        ReceiveUpdate(c, cl, Head(client[c].inbox))]
    /\ UNCHANGED <<server, outages>>

\* The connection breaks.  The server's ClientConnection dies without
\* unsubscribing; what is posted to it from then on is lost.
Disconnect(c) ==
    /\ client[c].online /\ outages < MaxOutages
    /\ outages' = outages + 1
    /\ client' = [client EXCEPT ![c].online = FALSE,
                                ![c].toServer = <<>>, ![c].inbox = <<>>]
    /\ server' = [server EXCEPT !.subscribers = @ \ {c}]

\* getOnline: nothing is opened or submitted again.
Reconnect(c) ==
    /\ ~client[c].online
    /\ client' = [client EXCEPT ![c].online = TRUE]
    /\ UNCHANGED <<server, outages>>

-----------------------------------------------------------------------------
(* The server. *)

\* m_deltas[v], and the operations a delta based on version v has not seen.
Slot(v) == server.deltas[v + 1]

\* Mutated form: starts behind the delta at the base version.
OpsBehind(base) ==
    FlattenSeq([v \in 1..server.version |->
                    IF v <= base + 1 \/ Slot(v - 1) = NoDelta THEN <<>>
                    ELSE Slot(v - 1).ops])

OpsSince(base) ==
    FlattenSeq([i \in 1..(server.version - base) |->
                    IF Slot(base + i - 1) = NoDelta THEN <<>>
                    ELSE Slot(base + i - 1).ops])

KnowsVersion(base) ==
    base \notin {0, server.version} => Slot(base) # NoDelta

\* The submit that the server sees next, moved past what its author has not seen.
NextSubmit(c) == Head(client[c].toServer)
HasSubmitted(c) ==
    client[c].toServer # <<>> /\ NextSubmit(c).type = "submit"
Rebased(c) == MoveAllPast(OpsSince(NextSubmit(c).base), NextSubmit(c).ops)
Outcome(c) == ApplyOps(server.doc, Rebased(c).ops)

Taken(c) == [client EXCEPT ![c].toServer = Tail(@)]

\* process() fails: the client is told, but does not care (NetworkAdapter).
ServerRefuses(c) ==
    /\ HasSubmitted(c)
    /\ KnowsVersion(NextSubmit(c).base) => ~Rebased(c).ok
    /\ client' = Taken(c)
    /\ UNCHANGED <<server, outages>>

\* apply() fails: the operations before the misfit stay in the document.
ServerMisapplies(c) ==
    /\ HasSubmitted(c) /\ KnowsVersion(NextSubmit(c).base)
    /\ Rebased(c).ok /\ ~Outcome(c).ok
    /\ client' = Taken(c)
    /\ server' = [server EXCEPT !.doc = Outcome(c).doc]
    /\ UNCHANGED outages

Broadcast(clients, update) ==
    [d \in Clients |-> IF d \in server.subscribers
                       THEN [clients[d] EXCEPT !.inbox = Append(@, update)]
                       ELSE clients[d]]

ServerCommits(c) ==
    /\ HasSubmitted(c) /\ KnowsVersion(NextSubmit(c).base)
    /\ Rebased(c).ok /\ Outcome(c).ok
    /\ LET ops == Rebased(c).ops
           version == server.version + Len(ops)
           delta == [author |-> AuthorOf[c], sender |-> c, ops |-> ops]
       IN  /\ server' = [server EXCEPT
                !.version = version,
                !.deltas = @ \o [i \in 1..(Len(ops) - 1) |-> NoDelta] \o <<delta>>,
                !.doc = Outcome(c).doc,
                !.creator = IF server.version = 0 THEN AuthorOf[c] ELSE @]
           /\ client' = Broadcast(Taken(c),
                            [deltas |-> <<delta>>, version |-> version])
    /\ UNCHANGED outages

\* toWaveletUpdate: one delta for the participants and one for the document.
Snapshot ==
    [deltas |-> << [author |-> server.creator, sender |-> Nobody,
                    ops |-> <<NoMutation>>],
                   [author |-> server.creator, sender |-> Nobody,
                    ops |-> <<InsertAll(server.doc)>>] >>,
     version |-> server.version]

\* SubscribeActor.  A submit takes one event more to reach the wavelet than the
\* open request behind it, which may overtake it.
ServerSubscribes(c) ==
    /\ \E i \in DOMAIN client[c].toServer :
          /\ client[c].toServer[i].type = "open"
          /\ client' = [client EXCEPT
                ![c].toServer = RemoveAt(@, i),
                ![c].inbox = IF server.version > 0 THEN Append(@, Snapshot) ELSE @]
    /\ server' = [server EXCEPT !.subscribers = @ \cup {c}]
    /\ UNCHANGED outages

-----------------------------------------------------------------------------
ClientInit ==
    [view |-> <<>>, outgoing |-> <<>>, pending |-> FALSE, suspended |-> FALSE,
     serverVersion |-> 0, opened |-> FALSE, online |-> TRUE, blown |-> FALSE,
     toServer |-> <<>>, inbox |-> <<>>, made |-> 0]

ServerInit ==
    IF InitialDoc = <<>>
    THEN [version |-> 0, deltas |-> <<>>, doc |-> <<>>, creator |-> Nobody,
          subscribers |-> {}]
    ELSE [version |-> 1, doc |-> InitialDoc, creator |-> Creator,
          deltas |-> <<[author |-> Creator, sender |-> Nobody,
                        ops |-> <<InsertAll(InitialDoc)>>]>>,
          subscribers |-> {}]

SystemInit ==
    /\ client = [c \in Clients |-> ClientInit]
    /\ server = ServerInit
    /\ outages = 0

\* What the event loops and the connections owe.
DeliverTo(c) ==
    \/ ClientReceives(c)
    \/ ServerRefuses(c)
    \/ ServerMisapplies(c)
    \/ ServerCommits(c)
    \/ ServerSubscribes(c)

UserOf(c) == Edit(c) \/ EditTwice(c) \/ Open(c) \/ NewWave(c)

NetworkOf(c) == Disconnect(c) \/ Reconnect(c)

SystemNext == \E c \in Clients : DeliverTo(c) \/ UserOf(c) \/ NetworkOf(c)

SystemSpec == SystemInit /\ [][SystemNext]_systemVars

\* Something is on its way to the client or to the server: exactly then one of
\* the actions of DeliverTo(c) is enabled.
Owed(c) == client[c].toServer # <<>> \/ (Alive(c) /\ client[c].inbox # <<>>)

\* Weak fairness of \E c \in Clients : DeliverTo(c), with its ENABLED spelled out.
EventLoopsDeliver ==
    \/ []<>(\A c \in Clients : ~Owed(c))
    \/ []<><<\E c \in Clients : DeliverTo(c)>>_systemVars

FairSystemSpec == SystemSpec /\ EventLoopsDeliver

-----------------------------------------------------------------------------
(* Properties. *)

DocAt(version) ==
    ApplyOps(<<>>, FlattenSeq([v \in 1..version |->
        IF Slot(v - 1) = NoDelta THEN <<>> ELSE Slot(v - 1).ops])).doc

\* What a user sees is the server's document at the version his client has been
\* told, with the operations the server has not acknowledged applied to it, no
\* matter what has been transformed on both sides, gathered, or lost since.  So
\* clients that are told the same version and have nothing queued see the same.
ViewIsServerPlusOutgoing ==
    \A c \in Clients :
        Alive(c) => client[c].view =
            ApplyOps(DocAt(client[c].serverVersion),
                     FlattenSeq(client[c].outgoing)).doc

\* handleReceive: Q_ASSERT(false) behind "This wave is blown up" is never
\* reached: whatever the server sends can be transformed against the queue.
NeverBlownUp == \A c \in Clients : ~client[c].blown

Submits(c) == SelectSeq(client[c].toServer, LAMBDA m : m.type = "submit")
OwnAcks(c) ==
    SelectSeq(client[c].inbox, LAMBDA u : Head(u.deltas).sender = c)

OwnOps(deltas, c) ==
    [i \in DOMAIN deltas |->
        IF deltas[i] # NoDelta /\ deltas[i].sender = c THEN deltas[i].ops ELSE <<>>]
Committed(c) == Len(FlattenSeq(OwnOps(server.deltas, c)))

\* Every operation a user makes gets into the history at most once, and is in
\* his client's queue until then, across broken connections and refusals.
NoEditLostOrRepeated ==
    \A c \in Clients :
        /\ Committed(c) <= client[c].made
        /\ client[c].made <= Committed(c) + Len(FlattenSeq(client[c].outgoing))

\* His submit is gone and no acknowledgement is on its way: the server has refused
\* it, and NetworkAdapter ignores the response.
Refused(c) == client[c].pending /\ Submits(c) = <<>> /\ OwnAcks(c) = <<>>

\* Everything a user types is acknowledged some time, whatever the others type,
\* unless a submit has been refused.
EveryEditIsAcknowledged ==
    \A c \in Clients :
        client[c].outgoing # <<>> ~> (client[c].outgoing = <<>> \/ Refused(c))
=============================================================================
