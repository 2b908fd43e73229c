------------------------------ MODULE Federation ------------------------------
(***************************************************************************)
(* Two federated servers: the host of a wavelet and a server that keeps a  *)
(* copy of it, because participants of the wavelet are its users.          *)
(*                                                                         *)
(* Per server: the component's handshake with its XMPP server              *)
(* (XmppComponentConnection), the virtual connections to the peer with     *)
(* discovery and readiness (XmppVirtualConnection, XmppDiscoActor), and    *)
(* the actors that send and answer stanzas (the xmpp files there).         *)
(* Of the wavelet: the subscribed domains (LocalWavelet) and the copy that *)
(* applies what it receives (RemoteWavelet).                               *)
(*                                                                         *)
(* An action is one event.  The events that run actors, posted when an     *)
(* actor is created and when the signal it waits for is emitted, are       *)
(* handled in the order they were posted.  Reading a stanza and the event  *)
(* that hands it to its virtual connection are one step.  A commit at the  *)
(* host and the application of one delta to the copy are one step each:    *)
(* module LocalWavelet shows that the critical section makes them one.     *)
(* Every delta has one operation.  The XMPP servers in between are         *)
(* external: they keep the order of stanzas, answer disco#items for their  *)
(* domain, and answer with an error for a component that is not there and  *)
(* for what else is sent to the domain.                                    *)
(***************************************************************************)
EXTENDS Integers, FiniteSets, WaveletHistory

CONSTANTS
    Users,          \* the copy's users who may take part in the wavelet
    Nobody,         \* a delta that changes no participants
    NoConnection,
    MaxDeltas,      \* deltas submitted, on either server
    MaxSubmits,     \* those among them that the copy's clients submit
    StartsUp,       \* the components are not connected yet
    MaxFailures,    \* component connections that break, answers that are late
    MaxRestarts     \* of a server

ASSUME FederationAssumption ==
    /\ Nobody \notin Users /\ IsFiniteSet(Users)
    /\ NoConnection \notin {"domain", "component"}
    /\ StartsUp \in BOOLEAN
    /\ MaxDeltas \in Nat /\ MaxSubmits \in Nat
    /\ MaxFailures \in Nat /\ MaxRestarts \in Nat

Servers == {"host", "copy"}
Peer(s) == IF s = "host" THEN "copy" ELSE "host"

\* The two JIDs of a server: "mycompany.com" and "wave.mycompany.com".  A
\* virtual connection is named by the JID it was created for.
Names == {"domain", "component"}

VARIABLES
    component,  \* per server, m_state and m_connected
    con,        \* per server and name, the XmppVirtualConnection created for it
    route,      \* per server, m_virtualConnections: from names to connections
    actors,     \* the XmppActors
    events,     \* per server, the events that run actors, in order
    wire,       \* per server, the stanzas on their way from it to its peer
    wavelet, stored,            \* at the host, in RAM and in the store
    participants, subscribers,  \* at the host: m_participants of the other
                                \* domain, and its count in m_remoteSubscribers
    certified,  \* the host's certificate store has the peer's certificate
    copy,       \* the copy, as it is in RAM or, after a restart, in the store
    loaded,     \* the copy has been replayed
    updates,    \* RemoteWaveletUpdate messages on their way to the copy
    submitted,  \* per delta made by a client of the copy, what its
                \* ClientSubmitRequestActor was answered; that stops waiting
                \* after ten seconds and tells the client "Timeout"
    made,       \* how many deltas have been made
    failures, restarts,
    causes      \* history: what may have made the copy differ from the wavelet,
                \* a submit be refused ("forgotten") or discovery fail ("early",
                \* "absent")

linkVars == <<component, con, route>>
hostVars == <<wavelet, stored, participants, subscribers, certified>>
copyVars == <<copy, loaded, updates>>
countVars == <<made, failures, restarts>>
fedVars == <<linkVars, actors, events, wire, hostVars, copyVars, submitted, countVars,
             causes>>

-----------------------------------------------------------------------------
(* Virtual connections. *)

NotThere == [exists |-> FALSE, address |-> NoConnection, ready |-> FALSE,
             postedSigner |-> FALSE]

NewConnection(name, resolve) ==
    [exists |-> TRUE, address |-> name, ready |-> ~resolve, postedSigner |-> FALSE]

\* virtualConnection(), the part that finds: "wave." + domain is an alias.
Lookup(s, name) ==
    IF route[s][name] # NoConnection THEN route[s][name]
    ELSE IF name = "domain" THEN route[s]["component"]
    ELSE NoConnection

\* virtualConnection(), the part that creates: the connection and the route to
\* it, for a message to the peer (resolve) or a stanza from it (not resolve).
Found(s, name) == IF Lookup(s, name) # NoConnection THEN Lookup(s, name) ELSE name

ConsWith(s, name, resolve) ==
    IF Lookup(s, name) # NoConnection THEN con
    ELSE [con EXCEPT ![s][name] = NewConnection(name, resolve)]

RoutesWith(s, name) ==
    IF Lookup(s, name) # NoConnection THEN route
    ELSE [route EXCEPT ![s][name] = name]

\* Mutated form: an existing connection of the new name is replaced.
RenamedOver(s, n) == [route EXCEPT ![s]["component"] = n]

\* Mutated form: the existing connection is found, but not routed to.
RenamedKeeping(s, n) ==
    IF route[s]["component"] # NoConnection THEN route
    ELSE [route EXCEPT ![s]["component"] = n]

\* renameVirtualConnection, for a connection n that was created for the domain.
Renamed(s, n) ==
    IF route[s]["component"] # NoConnection
    THEN [route EXCEPT ![s][con[s][n].address] = route[s]["component"]]
    ELSE [route EXCEPT ![s]["component"] = n]

-----------------------------------------------------------------------------
(* Actors and stanzas. *)

\* An answer to a submit: the hashed version after the delta.
NotTold == [ok |-> FALSE, version |-> 0, hash |-> <<>>]

\* A stanza asks for something ("items", "info", "update", "history", "signer",
\* "submit"), or is the result of it or an error.  `key` is its id attribute.
NoStanza == [kind |-> "none", reply |-> "none", from |-> "component",
             to |-> "component", key |-> <<>>, deltas |-> <<>>,
             start |-> 0, end |-> 0, told |-> NotTold]

\* step: "new" until its first event, "wait" for the signal ready(), or what it
\* has asked for and waits for.
NewActor(kind, s, n, id, deltas) ==
    [kind |-> kind, at |-> s, con |-> n, id |-> id, step |-> "new",
     deltas |-> deltas, request |-> NoStanza]

\* nextId(): an actor has one stanza under way.
Key(a) == <<a.kind, a.at, a.id>>

Request(kind, a) ==
    [NoStanza EXCEPT !.kind = kind, !.key = Key(a), !.deltas = a.deltas,
                     !.to = con[a.at][a.con].address]

Result(a) ==
    [a.request EXCEPT !.reply = "result", !.deltas = <<>>,
                      !.to = con[a.at][a.con].address]

\* XmppComponentConnection::send.  What is written to a socket that is broken,
\* or before the handshake is over, is lost.
Established == [state |-> "Established", connected |-> TRUE]

Sent(s, w, stanza) ==
    IF component[s] = Established THEN [w EXCEPT ![s] = Append(@, stanza)] ELSE w

Send(s, stanza) == wire' = Sent(s, wire, stanza)

Ready(a) == con[a.at][a.con].ready

\* XmppVirtualConnection::xmppError.
XmppError(s, n) == con' = [con EXCEPT ![s][n].ready = FALSE]

\* Actor::Actor posts the Create event.
Create(a) ==
    /\ actors' = actors \cup {a}
    /\ events' = [events EXCEPT ![a.at] = Append(@, Key(a))]

Become(a, b) == actors' = (actors \ {a}) \cup {b}
End(a) == actors' = actors \ {a}

\* RecvSignalImpl::trigger posts an event to each actor that waits for the
\* signal, in the order they began to wait.
Signals(s, waiting) ==
    \E order \in SetToSeqs(waiting) :
        /\ \A i, j \in DOMAIN order : i < j => order[i].id <= order[j].id
        /\ events' = [events EXCEPT ![s] = @ \o [i \in DOMAIN order |-> Key(order[i])]]

\* Actor::run: an event runs the actor it was posted to.
Runs(a) ==
    /\ a \in actors /\ events[a.at] # <<>> /\ Key(a) = Head(events[a.at])
    /\ events' = [events EXCEPT ![a.at] = Tail(@)]

\* The first event: on, or wait for the connection to be ready.
Waits(a) ==
    /\ a.kind # "Disco" /\ a.step = "new" /\ ~Ready(a)
    /\ a.kind # "SubmitResponse"
    /\ Runs(a)
    /\ Become(a, [a EXCEPT !.step = "wait"])
    /\ certified' = (certified \/ a.kind = "PostSignerResponse")
    /\ UNCHANGED <<linkVars, wire, wavelet, stored, participants, subscribers,
                   copyVars, submitted, countVars, causes>>

Goes(a, kind) ==
    /\ a.kind = kind /\ (a.step = "new" => Ready(a))
    /\ Runs(a)

-----------------------------------------------------------------------------
(* The component. *)

\* start(): the TCP connection is there.
ComponentConnects(s) ==
    /\ component[s] = [state |-> "Init", connected |-> FALSE]
    /\ component' = [component EXCEPT ![s].connected = TRUE]
    /\ UNCHANGED <<con, route, actors, events, wire, hostVars, copyVars,
                   submitted, countVars, causes>>

\* readBytes(): the tokens of the handshake, one after the other.
NextState ==
    [Init |-> "HandshakeStart", HandshakeStart |-> "HandshakeEnd",
     HandshakeEnd |-> "Established"]

Discovering(s) == {a \in actors : a.at = s /\ a.kind = "Disco"}

\* `emit ready()` comes with the last of them.
ComponentReads(s) ==
    /\ component[s].connected /\ component[s].state \in DOMAIN NextState
    /\ component' = [component EXCEPT ![s].state = NextState[@]]
    /\ IF component[s].state # "HandshakeEnd" THEN UNCHANGED events
       ELSE Signals(s, {a \in Discovering(s) : a.step = "wait"})
    /\ UNCHANGED <<con, route, actors, wire, hostVars, copyVars, submitted,
                   countVars, causes>>

\* stopOnError(), or a token that is not expected: m_connected stays as it is,
\* and nothing connects again.
ComponentFails(s) ==
    /\ component[s].state # "Delete" /\ failures < MaxFailures
    /\ component' = [component EXCEPT ![s].state = "Delete"]
    /\ failures' = failures + 1
    /\ UNCHANGED <<con, route, actors, events, wire, hostVars, copyVars,
                   submitted, made, restarts, causes>>

\* stop(): the other end has closed the stream.
ComponentStops(s) ==
    /\ component[s] = Established /\ failures < MaxFailures
    /\ component' = [component EXCEPT ![s].connected = FALSE]
    /\ failures' = failures + 1
    /\ UNCHANGED <<con, route, actors, events, wire, hostVars, copyVars,
                   submitted, made, restarts, causes>>

-----------------------------------------------------------------------------
(* Discovery. *)

\* Asks for the peer's items, once the component is connected: that can be before
\* the handshake is over, since isReady() is m_connected.
DiscoStarts(a) ==
    /\ a.kind = "Disco" /\ a.step \in {"new", "wait"} /\ Runs(a)
    /\ IF a.step = "new" /\ ~component[a.at].connected
       THEN Become(a, [a EXCEPT !.step = "wait"]) /\ UNCHANGED wire
       ELSE Become(a, [a EXCEPT !.step = "items"]) /\ Send(a.at, Request("items", a))
    /\ causes' = IF component[a.at].connected /\ component[a.at] # Established
                 THEN causes \cup {"early"} ELSE causes
    /\ UNCHANGED <<linkVars, hostVars, copyVars, submitted, countVars>>

\* What server t reads next.
CanRead(t) ==
    /\ component[t] = Established
    /\ wire[Peer(t)] # <<>> /\ Head(wire[Peer(t)]).to = "component"
Incoming(t) == Head(wire[Peer(t)])
Rest(t) == [wire EXCEPT ![Peer(t)] = Tail(@)]

\* A stanza is handed to the connection of its sender.  If that is ready, a
\* request gets an actor; otherwise it is lost.
Handler(t) == Found(t, Incoming(t).from)

Responder ==
    [items |-> "DiscoResponse", info |-> "DiscoResponse",
     update |-> "UpdateResponse", history |-> "HistoryResponse",
     signer |-> "PostSignerResponse", submit |-> "SubmitResponse"]

\* What may be about to be applied to the copy while another update comes.
Applying == updates # <<>> \/ \E a \in actors : a.kind = "UpdateResponse"

RequestArrives(t) ==
    /\ CanRead(t) /\ Incoming(t).reply = "none"
    /\ con' = ConsWith(t, Incoming(t).from, FALSE)
    /\ route' = RoutesWith(t, Incoming(t).from)
    /\ wire' = Rest(t)
    /\ IF con'[t][Handler(t)].ready
       THEN Create([NewActor(Responder[Incoming(t).kind], t, Handler(t),
                             Incoming(t).key[3], Incoming(t).deltas)
                       EXCEPT !.request = Incoming(t)])
       ELSE UNCHANGED <<actors, events>>
    /\ causes' = causes \cup
            (IF Incoming(t).kind = "update" /\ Applying THEN {"overlap"} ELSE {})
    /\ UNCHANGED <<component, hostVars, copyVars, submitted, countVars>>

\* A reply is for the actor of that connection that waits for its id.
IsFor(t, a) ==
    /\ a \in actors /\ a.at = t /\ a.con = Handler(t)
    /\ a.step = Incoming(t).kind /\ Key(a) = Incoming(t).key

\* A history without a delta is not recognised as one.
Recognised(stanza) == stanza.kind = "history" => stanza.deltas # <<>>

Answers(t, kind, a) ==
    /\ CanRead(t) /\ Incoming(t).reply = "result" /\ Incoming(t).kind = kind
    /\ Recognised(Incoming(t)) /\ IsFor(t, a)

ReplyIgnored(t) ==
    /\ CanRead(t) /\ Incoming(t).reply # "none"
    /\ \/ \A a \in actors : ~IsFor(t, a)
       \/ Incoming(t).reply = "result" /\ ~Recognised(Incoming(t))
    /\ con' = ConsWith(t, Incoming(t).from, FALSE)
    /\ route' = RoutesWith(t, Incoming(t).from)
    /\ wire' = Rest(t)
    /\ UNCHANGED <<component, actors, events, hostVars, copyVars, submitted,
                   countVars, causes>>

\* XmppDiscoResponseActor; the items are sent from the domain's JID.
DiscoAnswers(a) ==
    /\ Goes(a, "DiscoResponse")
    /\ End(a)
    /\ Send(a.at, [Result(a) EXCEPT !.from =
                    IF a.request.kind = "items" THEN "domain" ELSE "component"])
    /\ UNCHANGED <<linkVars, hostVars, copyVars, submitted, countVars, causes>>

\* The items name the component: setDomain, then ask for its features.
DiscoGetsItems(t, a) ==
    /\ Answers(t, "items", a)
    /\ route' = Renamed(t, a.con)
    /\ con' = [con EXCEPT ![t][a.con].address = "component"]
    /\ Become(a, [a EXCEPT !.step = "info"])
    /\ wire' = Sent(t, Rest(t), [Request("info", a) EXCEPT !.to = "component"])
    /\ UNCHANGED <<component, events, hostVars, copyVars, submitted, countVars,
                   causes>>

\* The peer supports wave: setReady.
DiscoGetsInfo(t, a) ==
    /\ Answers(t, "info", a)
    /\ con' = [con EXCEPT ![t][a.con].ready = TRUE]
    /\ End(a)
    /\ Signals(t, {b \in actors : b.at = t /\ b.con = a.con /\ b.step = "wait"})
    /\ wire' = Rest(t)
    /\ UNCHANGED <<component, route, hostVars, copyVars, submitted, countVars,
                   causes>>

-----------------------------------------------------------------------------
(* The wavelet at the host, and its updates. *)

\* Posting to the actor group "federation/<domain>": it may have to be created,
\* and discovers the peer; then the actor of the message is created.
Posts(s, kind, d, set) ==
    LET n == Found(s, "domain")
        a == NewActor(kind, s, n, d.id, <<d>>)
        disco == NewActor("Disco", s, n, 0, <<>>)
        created == IF Lookup(s, "domain") # NoConnection THEN <<a>> ELSE <<disco, a>>
    IN  /\ con' = ConsWith(s, "domain", TRUE)
        /\ route' = RoutesWith(s, "domain")
        /\ actors' = set \cup {created[i] : i \in DOMAIN created}
        /\ events' = [events EXCEPT ![s] = @ \o [i \in DOMAIN created |-> Key(created[i])]]

\* onAddParticipant and onRemoveParticipant, which apply() calls if the set of
\* participants changes.
SubscribersAfter(d) ==
    subscribers + (IF d.adds \in Users \ participants THEN 1 ELSE 0)
                - (IF d.removes \in participants THEN 1 ELSE 0)

ParticipantsAfter(d) ==
    (participants \cup ({d.adds} \ {Nobody})) \ {d.removes}

\* Apply the delta and send it to the other domain, if that is subscribed; `set`
\* are the actors.
Commit(d, set) ==
    /\ wavelet' = Applied(wavelet, d)
    /\ stored' = Append(stored, d)
    /\ participants' = ParticipantsAfter(d)
    /\ subscribers' = SubscribersAfter(d)
    /\ causes' = causes \cup (IF d.base # HashedVersion(wavelet) THEN {"rebased"} ELSE {})
    /\ IF SubscribersAfter(d) = 0
       THEN actors' = set /\ UNCHANGED <<con, route, events>>
       ELSE Posts("host", "WaveletUpdate", d, set)
    /\ UNCHANGED certified

\* A hashed version that clients of the host have been told.
Version(v) == [version |-> v, hash |-> SubSeq(wavelet.hash, 1, v)]

Delta(base, adds, removes) ==
    [id |-> made + 1, base |-> base, ops |-> 1, fits |-> TRUE,
     adds |-> adds, removes |-> removes]

\* A client of the host submits a delta; participants are added and removed by
\* deltas of their own.
HostClientSubmits(base, adds, removes) ==
    /\ made < MaxDeltas
    /\ made' = made + 1
    /\ Commit(Delta(base, adds, removes), actors)
    /\ UNCHANGED <<component, wire, copyVars, submitted, failures, restarts>>

\* XmppWaveletUpdateActor.
UpdateSent(a) ==
    /\ Goes(a, "WaveletUpdate")
    /\ Become(a, [a EXCEPT !.step = "update"])
    /\ Send(a.at, Request("update", a))
    /\ UNCHANGED <<linkVars, hostVars, copyVars, submitted, countVars, causes>>

UpdateReceipted(t, a) ==
    /\ Answers(t, "update", a)
    /\ End(a) /\ wire' = Rest(t)
    /\ UNCHANGED <<linkVars, events, hostVars, copyVars, submitted, countVars,
                   causes>>

-----------------------------------------------------------------------------
(* The copy. *)

\* m_wavelet->version(): 0 as long as InitActor has not replayed the store.
VersionRead == IF loaded THEN copy.version ELSE 0

\* Mutated form: one delta is missing and is not asked for.
MissesSeveral(d) == d.base.version > VersionRead + 1

\* "We are missing some deltas?"
Misses(d) == d.base.version > VersionRead

\* XmppWaveletUpdateResponseActor: a receipt, and then either the delta is posted
\* to the wavelet, or the deltas before it are asked for.
UpdateAnswers(a) ==
    /\ Goes(a, "UpdateResponse")
    /\ LET d == a.deltas[1]
           receipted == Sent("copy", wire, Result(a))
       IN  IF Misses(d)
           THEN /\ Become(a, [a EXCEPT !.step = "history"])
                /\ wire' = Sent("copy", receipted,
                        [Request("history", a) EXCEPT !.deltas = <<>>,
                            !.start = VersionRead, !.end = d.base.version])
                /\ UNCHANGED updates
           ELSE /\ End(a)
                /\ updates' = Append(updates, d)
                /\ wire' = receipted
    /\ causes' = causes \cup (IF loaded \/ copy.version = 0 THEN {} ELSE {"unloaded"})
    /\ UNCHANGED <<linkVars, hostVars, copy, loaded, submitted, countVars>>

\* XmppHistoryResponseActor asks the store.
HistoryAsks(a) ==
    /\ Goes(a, "HistoryResponse")
    /\ Become(a, [a EXCEPT !.step = "query"])
    /\ UNCHANGED <<linkVars, wire, hostVars, copyVars, submitted, countVars, causes>>

\* Mutated form: the store's answer includes the delta at the end version.
QueryRangeClosed(start, end) == SubSeq(stored, start + 1, end + 1)

\* Store: the updates applied at a version in [start, end).
QueryRange(start, end) == SubSeq(stored, start + 1, end)

HistoryAnswers(a) ==
    /\ a \in actors /\ a.step = "query"
    /\ End(a)
    /\ Send("host", [Result(a) EXCEPT !.deltas =
                        QueryRange(a.request.start, a.request.end)])
    /\ UNCHANGED <<linkVars, events, hostVars, copyVars, submitted, countVars,
                   causes>>

HistoryArrives(a) ==
    /\ Answers("copy", "history", a)
    /\ updates' = updates \o Incoming("copy").deltas \o a.deltas
    /\ End(a) /\ wire' = Rest("copy")
    /\ UNCHANGED <<linkVars, events, hostVars, copy, loaded, submitted,
                   countVars, causes>>

\* InitActor has replayed the store.
CopyLoads ==
    /\ ~loaded
    /\ loaded' = TRUE
    /\ UNCHANGED <<linkVars, actors, events, wire, hostVars, copy, updates, submitted,
                   countVars, causes>>

\* RemoteWavelet::WaveletUpdateActor: one update, from entering the critical
\* section to leaving it.  One that does not fit the history is dropped.
CopyUpdates ==
    /\ loaded /\ updates # <<>>
    /\ updates' = Tail(updates)
    /\ copy' = IF CheckHashedVersion(copy, Head(updates).base)
               THEN Applied(copy, Head(updates)) ELSE copy
    /\ UNCHANGED <<linkVars, actors, events, wire, hostVars, loaded, submitted,
                   countVars, causes>>

-----------------------------------------------------------------------------
(* Submits from the copy's clients. *)

Submits == {a \in actors : a.kind = "SubmitRequest"}

\* ClientSubmitRequestActor posts the delta to the federation.
CopyClientSubmits ==
    /\ loaded /\ copy.version > 0
    /\ made < MaxDeltas
    /\ Cardinality({i \in DOMAIN submitted : submitted[i] # "host"}) < MaxSubmits
    /\ made' = made + 1
    /\ submitted' = [submitted EXCEPT ![made + 1] = "posted"]
    /\ Posts("copy", "SubmitRequest", Delta(HashedVersion(copy), Nobody, Nobody), actors)
    /\ UNCHANGED <<component, wire, hostVars, copyVars, failures, restarts, causes>>

\* XmppSubmitRequestActor: what it sends first.
SubmitAsks(a) == IF con[a.at][a.con].postedSigner THEN "submit" ELSE "signer"

SubmitSends(a) ==
    /\ Goes(a, "SubmitRequest")
    /\ Become(a, [a EXCEPT !.step = SubmitAsks(a)])
    /\ Send(a.at, Request(SubmitAsks(a), a))
    /\ UNCHANGED <<linkVars, hostVars, copyVars, submitted, countVars, causes>>

\* XmppPostSignerResponseActor stores the certificate before anything else.
SignerAnswers(a) ==
    /\ Goes(a, "PostSignerResponse")
    /\ certified' = TRUE
    /\ End(a)
    /\ Send(a.at, Result(a))
    /\ UNCHANGED <<linkVars, wavelet, stored, participants, subscribers,
                   copyVars, submitted, countVars, causes>>

SignerAccepted(a) ==
    /\ Answers("copy", "signer", a)
    /\ con' = [con EXCEPT !["copy"][a.con].postedSigner = TRUE]
    /\ Become(a, [a EXCEPT !.step = "submit"])
    /\ wire' = Sent("copy", Rest("copy"), Request("submit", a))
    /\ UNCHANGED <<component, route, events, hostVars, copyVars, submitted,
                   countVars, causes>>

\* XmppSubmitResponseActor does not wait for the connection.  Its signer must be
\* known, and the wavelet be in RAM: since a restart it may not have been loaded.
SubmitGoesOn(a) ==
    /\ a.kind = "SubmitResponse" /\ certified /\ Runs(a)
    /\ Become(a, [a EXCEPT !.step = "commit"])
    /\ UNCHANGED <<linkVars, wire, hostVars, copyVars, submitted, countVars, causes>>

SubmitRefused(a) ==
    /\ a.kind = "SubmitResponse" /\ Runs(a)
    /\ ~certified \/ "forgotten" \in causes
    /\ End(a)
    /\ XmppError(a.at, a.con)
    /\ UNCHANGED <<component, route, wire, hostVars, copyVars, submitted,
                   countVars, causes>>

\* The wavelet commits the delta or refuses it, and answers; the actor may be
\* gone by then.  The answer is handled right away.
SubmitCommits(a) ==
    /\ a \in actors /\ a.step \in {"commit", "late"}
    /\ LET d == a.deltas[1]
           fits == CheckHashedVersion(wavelet, d.base)
           told == IF fits THEN [ok |-> TRUE, version |-> wavelet.version + 1,
                                 hash |-> Append(wavelet.hash, d.id)]
                   ELSE NotTold
       IN  /\ IF fits THEN Commit(d, actors \ {a})
              ELSE End(a) /\ UNCHANGED <<con, route, events, hostVars, causes>>
           /\ IF a.step = "late" THEN UNCHANGED wire
              ELSE Send("host", [Result(a) EXCEPT !.told = told])
    /\ UNCHANGED <<component, copyVars, submitted, countVars>>

Answered(id, told) == submitted' = [submitted EXCEPT ![id] = IF told.ok THEN "ok" ELSE "failed"]

SubmitAnswered(a) ==
    /\ Answers("copy", "submit", a)
    /\ Answered(a.id, Incoming("copy").told)
    /\ End(a) /\ wire' = Rest("copy")
    /\ UNCHANGED <<linkVars, events, hostVars, copyVars, countVars, causes>>


-----------------------------------------------------------------------------
(* Errors, timeouts and restarts. *)

Asked == {"items", "info", "update", "history", "signer", "submit"}

\* Mutated form: the client is not told.
AfterErrorSilent(a) == submitted

\* Mutated form: the answer does not say that no operations were applied.
AfterErrorSucceeds(a) ==
    IF a.kind = "SubmitRequest" THEN [submitted EXCEPT ![a.id] = "ok"]
    ELSE submitted

\* XmppSubmitRequestActor::sendErrorResponse.
AfterError(a) ==
    IF a.kind = "SubmitRequest" THEN [submitted EXCEPT ![a.id] = "failed"]
    ELSE submitted

\* XMPPERROR: xmppError() and TERMINATE.
Terminates(a) ==
    /\ End(a)
    /\ XmppError(a.at, a.con)
    /\ submitted' = AfterError(a)

ErrorArrives(t, a) ==
    /\ CanRead(t) /\ Incoming(t).reply = "error" /\ IsFor(t, a)
    /\ Terminates(a)
    /\ wire' = Rest(t)
    /\ UNCHANGED <<component, route, events, hostVars, copyVars, countVars,
                   causes>>

\* An answer may still come.
Pending(a) ==
    \/ \E s \in Servers : \E i \in DOMAIN wire[s] : wire[s][i].key = Key(a)
    \/ \E b \in actors : b.request.key = Key(a) /\ b.step # "wait"

\* Timeout(10000); an answer that is late counts as a failure.
TimesOut(a) ==
    /\ a \in actors /\ a.step \in Asked
    /\ IF Pending(a) THEN failures < MaxFailures /\ failures' = failures + 1
                     ELSE UNCHANGED failures
    /\ Terminates(a)
    /\ UNCHANGED <<component, route, events, wire, hostVars, copyVars, made,
                   restarts, causes>>

\* The wavelet is slow to answer; it commits the delta all the same.
CommitTimesOut(a) ==
    /\ a \in actors /\ a.step = "commit" /\ failures < MaxFailures
    /\ failures' = failures + 1
    /\ Become(a, [a EXCEPT !.step = "late"])
    /\ XmppError(a.at, a.con)
    /\ UNCHANGED <<component, route, events, wire, hostVars, copyVars,
                   submitted, made, restarts, causes>>

\* External: the XMPP server of a domain lists its component, and answers with
\* an error what else is sent to the domain, or to a component that is not there.
Bounced(stanza) ==
    [stanza EXCEPT !.deltas = <<>>, !.from = stanza.to, !.to = "component",
                   !.reply = IF stanza.to = "domain" /\ stanza.kind = "items"
                             THEN "result" ELSE "error"]

ServerAnswers(s) ==
    /\ wire[s] # <<>>
    /\ Head(wire[s]).to = "domain" \/ component[Peer(s)] # Established
    /\ LET stanza == Head(wire[s])
           rest == [wire EXCEPT ![s] = Tail(@)]
       IN  /\ wire' = IF stanza.reply # "none" THEN rest
                      ELSE [rest EXCEPT ![Peer(s)] = Append(@, Bounced(stanza))]
           /\ causes' = IF stanza.to = "domain" THEN causes
                        ELSE causes \cup {"absent"}
    /\ UNCHANGED <<linkVars, actors, events, hostVars, copyVars, submitted,
                   countVars>>

\* Mutated form: the subscriptions are not taken up again.
SubscribersForgotten == 0

\* InitActor applies the deltas of the store, which subscribes the participants.
SubscribersReplayed == Cardinality(participants)

\* A server restarts.  What its clients had under way is lost, and so are the
\* certificates, which CertificateStore keeps in RAM.
Restarts(s) ==
    /\ restarts < MaxRestarts
    /\ restarts' = restarts + 1
    /\ component' = [component EXCEPT ![s] = [state |-> "Init", connected |-> FALSE]]
    /\ con' = [con EXCEPT ![s] = [n \in Names |-> NotThere]]
    /\ route' = [route EXCEPT ![s] = [n \in Names |-> NoConnection]]
    /\ actors' = {a \in actors : a.at # s}
    /\ events' = [events EXCEPT ![s] = <<>>]
    /\ UNCHANGED <<wire, wavelet, stored, participants, copy, made, failures>>

HostRestarts ==
    /\ Restarts("host")
    /\ certified' = FALSE
    /\ subscribers' = SubscribersReplayed
    /\ causes' = causes \cup {"forgotten"}
    /\ UNCHANGED <<loaded, updates, submitted>>

CopyRestarts ==
    /\ Restarts("copy")
    /\ updates' = <<>>
    /\ loaded' = FALSE
    /\ submitted' = [i \in DOMAIN submitted |->
                        IF submitted[i] = "posted" THEN "lost" ELSE submitted[i]]
    /\ UNCHANGED <<subscribers, certified, causes>>

-----------------------------------------------------------------------------
FedInit ==
    /\ component = [s \in Servers |->
            IF StartsUp THEN [state |-> "Init", connected |-> FALSE]
                        ELSE Established]
    /\ con = [s \in Servers |-> [n \in Names |-> NotThere]]
    /\ route = [s \in Servers |-> [n \in Names |-> NoConnection]]
    /\ actors = {}
    /\ events = [s \in Servers |-> <<>>]
    /\ wire = [s \in Servers |-> <<>>]
    /\ wavelet = NewWavelet /\ stored = <<>>
    /\ participants = {} /\ subscribers = 0
    /\ certified = FALSE
    /\ copy = NewWavelet /\ loaded = TRUE /\ updates = <<>>
    /\ submitted = [i \in 1..MaxDeltas |-> "host"]
    /\ made = 0 /\ failures = 0 /\ restarts = 0
    /\ causes = {}

ComponentNext(s) == ComponentConnects(s) \/ ComponentReads(s)

ComponentBreaks(s) == ComponentFails(s) \/ ComponentStops(s)

ReadNext(t) ==
    \/ RequestArrives(t) \/ ReplyIgnored(t)
    \/ \E a \in actors :
          \/ DiscoGetsItems(t, a) \/ DiscoGetsInfo(t, a)
          \/ UpdateReceipted(t, a)
          \/ ErrorArrives(t, a)

CopyReads ==
    \E a \in actors : HistoryArrives(a) \/ SignerAccepted(a) \/ SubmitAnswered(a)

ActorNext ==
    \E a \in actors :
        \/ Waits(a) \/ DiscoStarts(a) \/ DiscoAnswers(a)
        \/ UpdateSent(a) \/ UpdateAnswers(a)
        \/ HistoryAsks(a) \/ HistoryAnswers(a)
        \/ SubmitSends(a) \/ SignerAnswers(a)
        \/ SubmitGoesOn(a) \/ SubmitRefused(a) \/ SubmitCommits(a)

ActorFails == \E a \in actors : TimesOut(a) \/ CommitTimesOut(a)

HostClientNext ==
    \E v \in 0..wavelet.version, adds, removes \in Users \cup {Nobody} :
        /\ adds = Nobody \/ removes = Nobody
        /\ HostClientSubmits(Version(v), adds, removes)

FedNext ==
    \/ \E s \in Servers : ComponentNext(s) \/ ComponentBreaks(s) \/ ReadNext(s) \/ ServerAnswers(s)
    \/ CopyReads \/ ActorNext \/ ActorFails
    \/ CopyLoads \/ CopyUpdates
    \/ HostRestarts \/ CopyRestarts
    \/ HostClientNext \/ CopyClientSubmits

FedSpec == FedInit /\ [][FedNext]_fedVars

\* The event loop comes to every event, a timer fires, the network delivers.
FedProgress ==
    \/ \E s \in Servers : ComponentNext(s) \/ ReadNext(s) \/ ServerAnswers(s)
    \/ CopyReads \/ ActorNext \/ ActorFails
    \/ CopyLoads \/ CopyUpdates

FairFedSpec == FedSpec /\ WF_fedVars(FedProgress)

-----------------------------------------------------------------------------
(* What holds. *)

Stanzas(s) == {wire[s][i] : i \in DOMAIN wire[s]}

FedTypeOK ==
    /\ component \in [Servers -> [state : DOMAIN NextState \cup {"Established", "Delete"},
                                  connected : BOOLEAN]]
    /\ con \in [Servers -> [Names -> [exists : BOOLEAN, address : Names \cup {NoConnection},
                                      ready : BOOLEAN, postedSigner : BOOLEAN]]]
    /\ route \in [Servers -> [Names -> Names \cup {NoConnection}]]
    /\ participants \subseteq Users /\ subscribers \in 0..Cardinality(Users)
    /\ certified \in BOOLEAN /\ loaded \in BOOLEAN
    /\ submitted \in [1..MaxDeltas -> {"host", "posted", "ok", "failed", "lost"}]

\* Whatever discovery and the peer's own stanzas do in whatever order: once a
\* connection has been given the component's JID, messages to the domain and
\* stanzas from the component find the same connection.
RoutesAgree ==
    \A s \in Servers : route[s]["domain"] # NoConnection =>
        \/ con[s]["domain"].address = "domain"
        \/ route[s]["domain"] = route[s]["component"]

\* A connection that is ready is one that stanzas from the peer's component
\* reach, so an answer to what is sent over it finds the actor that waits.
ReadyIsReachable ==
    \A s \in Servers, n \in Names :
        con[s][n].ready /\ con[s][n].address = "component" => route[s]["component"] = n

\* The host counts a domain's subscriptions up and down; the count says whether
\* a user of that domain takes part, in whatever order they come and go.
SubscribersCounted == subscribers = Cardinality(participants)

\* What a client of the copy is told about his delta is in the host's history.
AnsweredIsCommitted ==
    \A i \in 1..MaxDeltas :
        submitted[i] = "ok" => \E j \in DOMAIN stored : stored[j].id = i

\* The copy is a prefix of the wavelet, unless a gap is being asked for when
\* the next update comes, an update comes before the copy has been replayed, or
\* the gap test is misled by a delta that was transformed.
CopyIsPrefixUnless ==
    causes \cap {"overlap", "unloaded", "rebased"} = {} => IsPrefix(copy.hash, wavelet.hash)

\* Discovery has not failed, and its component may yet connect.
StillDiscovers(s, n) ==
    \E b \in Discovering(s) :
        /\ b.con = n
        /\ b.step = "wait" => component[s].state \in DOMAIN NextState \/ events[s] # <<>>

\* An actor that waits for a connection to be ready which nobody makes ready:
\* xmppError() resets m_ready, and discovery does not run again.
Stranded(i) ==
    \E a \in Submits : a.id = i /\ a.step = "wait" /\ ~Ready(a)
                       /\ ~StillDiscovers("copy", a.con)

\* The federation answers every submit of a client of the copy, unless the
\* connection has got stranded.
EverySubmitIsAnswered ==
    \A i \in 1..MaxDeltas :
        submitted[i] = "posted" ~> (submitted[i] # "posted" \/ Stranded(i))

\* As long as users of its domain take part, nothing fails and no update comes
\* in the way of another, the copy catches up with the wavelet.
Undisturbed == failures = 0 /\ restarts = 0 /\ causes = {} /\ subscribers > 0

CopyCatchesUp ==
    <>[]Undisturbed => []<>(copy.hash = wavelet.hash)
=============================================================================
