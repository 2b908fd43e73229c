------------------------------- MODULE Sessions -------------------------------
(***************************************************************************)
(* Who is told what: users whose connections come and go, the index wave,  *)
(* invitations, and the subscriptions by which a hosted wavelet sends      *)
(* digests and contents (src/waveserver/model/wavelet.cpp, localwavelet.cpp*)
(* src/waveserver/network/client*.cpp, src/waveserver/fcgi, the dispatch   *)
(* of src/waveserver/actor, and the participant index of the store).       *)
(*                                                                         *)
(* The server is one thread: everything it posts is in one queue of        *)
(* events, in order, and requests are read between any two of them.  The   *)
(* deltas come from the author, whose own client is left out, as are       *)
(* failures and timeouts of the store (module LocalWavelet), remote users  *)
(* (module Federation) and what is in a delta but for participants and the *)
(* text of the first blip.  A delta counts as one version.                 *)
(***************************************************************************)
EXTENDS SequencesExt, FiniteSets, Naturals

CONSTANTS
    Users,          \* local users
    WebUsers,       \* those of them who use a browser
    Wavelets,
    MaxDeltas,      \* bounds: of all wavelets together
    MaxSessions,    \* of all users
    MaxOpens,       \* of all users
    MaxRestarts,
    MaxEvents       \* that are waiting when something comes from outside

ASSUME SessionsAssumption ==
    /\ WebUsers \subseteq Users
    /\ MaxDeltas \in Nat /\ MaxSessions \in Nat /\ MaxOpens \in Nat /\ MaxRestarts \in Nat
    /\ MaxEvents \in Nat

\* Nobody has the name of a connection.
ASSUME UsersAreNoConnections == \A u \in Users : u \notin Users \X Nat

VARIABLES
    wavelets,   \* the wavelets in RAM
    store,      \* the log of each wavelet, and the wavelets of each user
    events,     \* what has been posted
    conns,      \* the current connection of each user
    wires,      \* what is under way from each user: bytes, or requests
    views,      \* what each user's client knows of each wavelet
    budget

sessionVars == <<wavelets, store, events, conns, wires, views, budget>>

-----------------------------------------------------------------------------
(* Requests and their frames. *)

OpenIndex == [kind |-> "index"]
OpenWavelet(w) == [kind |-> "open", wavelet |-> w]

\* The index wave's request is the shorter one.
RequestSize(m) == IF m.kind = "index" THEN 1 ELSE 2

INSTANCE Rpc WITH BodySize <- RequestSize
Web == INSTANCE Fcgi WITH BodySize <- RequestSize

-----------------------------------------------------------------------------
(* Deltas, and a wavelet.  The text of a digest is that of the first blip,   *)
(* or a dash.                                                                *)

Add(u) == [kind |-> "add", user |-> u]
Expel(u) == [kind |-> "remove", user |-> u]
Start == [kind |-> "start"]
Type == [kind |-> "type"]

Unloaded ==
    [loaded |-> FALSE, enabled |-> FALSE, busy |-> FALSE, queue |-> <<>>,
     version |-> 0, participants |-> {}, blip |-> FALSE, text |-> <<>>,
     digest |-> <<>>, index |-> {}, content |-> {}]

\* The constructor disables the critical section.
Created == [Unloaded EXCEPT !.loaded = TRUE]

DigestText(wv) == IF wv.blip THEN wv.text ELSE <<"-">>

Participating(delta) == SelectSeq(delta, LAMBDA op : op.kind \in {"add", "remove"})

\* initialDigest and the digest of broadcastDigest, which removes as many
\* characters as the last one had.
InitialDigest(w, wv) ==
    [kind |-> "digest", wavelet |-> w, deletes |-> 0, text |-> wv.digest,
     ops |-> SetToSeq({Add(u) : u \in wv.participants})]

\* Mutated form: does not remember the digest.
NextDigestAnew(w, wv, delta) ==
    [kind |-> "digest", wavelet |-> w, deletes |-> 0, text |-> DigestText(wv),
     ops |-> Participating(delta)]

NextDigest(w, wv, delta) ==
    [kind |-> "digest", wavelet |-> w, deletes |-> Len(wv.digest),
     text |-> DigestText(wv), ops |-> Participating(delta)]

Snapshot(w, wv) == [kind |-> "snapshot", wavelet |-> w, version |-> wv.version]
Update(w, wv) == [kind |-> "update", wavelet |-> w, version |-> wv.version]

\* A connection is the user and the number of his session.
Conn(u) == <<u, conns[u].session>>

\* The group of a connection is named for its session, not for its user: nobody
\* is found.
UnsubscribeAllClients(subscribers, user) == {c \in subscribers : c # user}

-----------------------------------------------------------------------------
(* What is posted.  A state s of the server: wavelets and events.            *)

Post(s, e) == [s EXCEPT !.events = Append(@, e)]

PostAll(s, es) == [s EXCEPT !.events = @ \o es]

ToConn(c, message) == [to |-> "conn", conn |-> c, message |-> message]
ToActor(job) == [to |-> "actor", job |-> job]
ToStore(message) == [to |-> "store", message |-> message]

\* ActorDispatcher::post finds its receiver first.  A wavelet that is not there
\* is made, with its InitActor, or the message is not posted.
Found(s, w, onDemand) == s.wavelets[w].loaded \/ onDemand

Lookup(s, w) ==
    IF s.wavelets[w].loaded THEN s
    ELSE Post([s EXCEPT !.wavelets[w] = Created],
              ToActor([kind |-> "init", wavelet |-> w]))

PostToWavelet(s, onDemand, message) ==
    IF Found(s, message.wavelet, onDemand)
    THEN Post(Lookup(s, message.wavelet), [to |-> "wavelet", message |-> message])
    ELSE s

Subscribe(c, w, index, content) ==
    [kind |-> "subscribe", wavelet |-> w, conn |-> c, on |-> TRUE,
     index |-> index, content |-> content]
Unsubscribe(c, w) == [Subscribe(c, w, TRUE, TRUE) EXCEPT !.on = FALSE]

-----------------------------------------------------------------------------
(* The critical section of a wavelet, as in module CriticalSection: an actor  *)
(* enters, or waits for the event that lets it in.                            *)

Free(wv) == wv.enabled /\ ~wv.busy /\ wv.queue = <<>>

Leaves(s, w) ==
    IF s.wavelets[w].queue = <<>> THEN [s EXCEPT !.wavelets[w].busy = FALSE]
    ELSE Post([s EXCEPT !.wavelets[w].busy = TRUE, !.wavelets[w].queue = Tail(@)],
              [to |-> "enter", job |-> Head(s.wavelets[w].queue)])

Enables(s, w) == Leaves([s EXCEPT !.wavelets[w].enabled = TRUE], w)

-----------------------------------------------------------------------------
(* SubscribeActor. *)

\* Mutated form: looks for the subscriber among those of the index.
SentUnlessIndexed(s, c, w, member, message) ==
    LET wv == s.wavelets[w]
        told == [s EXCEPT !.wavelets[w][member] = @ \cup {c}]
    IN  IF c \in wv.index THEN s
        ELSE IF wv.version > 0 THEN Post(told, ToConn(c, message)) ELSE told

Sent(s, c, w, member, message) ==
    LET wv == s.wavelets[w]
        told == [s EXCEPT !.wavelets[w][member] = @ \cup {c}]
    IN  IF c \in wv[member] THEN s
        ELSE IF wv.version > 0 THEN Post(told, ToConn(c, message)) ELSE told

SubscribeContent(s, c, w) == Sent(s, c, w, "content", Snapshot(w, s.wavelets[w]))
SubscribeIndex(s, c, w) == Sent(s, c, w, "index", InitialDigest(w, s.wavelets[w]))

Subscribed(s, w, m) ==
    LET contents == IF m.content THEN SubscribeContent(s, m.conn, w) ELSE s
    IN  IF m.index THEN SubscribeIndex(contents, m.conn, w) ELSE contents

Unsubscribed(s, w, m) ==
    [s EXCEPT !.wavelets[w].content = IF m.content THEN @ \ {m.conn} ELSE @,
              !.wavelets[w].index = IF m.index THEN @ \ {m.conn} ELSE @]

SubscribeRuns(s, w, m) ==
    Leaves(IF m.on THEN Subscribed(s, w, m) ELSE Unsubscribed(s, w, m), w)

-----------------------------------------------------------------------------
(* Wavelet::apply. *)

Notify(u, w) == [to |-> "participant", user |-> u, wavelet |-> w]

\* onAddParticipant of LocalWavelet, for a user who is new.
ParticipantAdded(s, w, u) ==
    IF u \in s.wavelets[w].participants THEN s
    ELSE Post([s EXCEPT !.wavelets[w].participants = @ \cup {u}], Notify(u, w))

ParticipantRemoved(s, w, u) ==
    [s EXCEPT !.wavelets[w].participants = @ \ {u},
              !.wavelets[w].index = UnsubscribeAllClients(@, u),
              !.wavelets[w].content = UnsubscribeAllClients(@, u)]

OpApplied(s, w, op) ==
    CASE op.kind = "add" -> ParticipantAdded(s, w, op.user)
      [] op.kind = "remove" -> ParticipantRemoved(s, w, op.user)
      [] op.kind = "start" -> [s EXCEPT !.wavelets[w].blip = TRUE]
      [] OTHER -> [s EXCEPT !.wavelets[w].text = Append(@, "x")]

OpsApplied(s, w, delta) ==
    LET after[i \in 0..Len(delta)] ==
            IF i = 0 THEN s ELSE OpApplied(after[i - 1], w, delta[i])
    IN  [after[Len(delta)] EXCEPT !.wavelets[w].version = @ + 1]

Broadcast(s, w) ==
    PostAll(s, SetToSeq({ToConn(c, Update(w, s.wavelets[w])) : c \in s.wavelets[w].content}))

BroadcastDigest(s, w, delta) ==
    LET digest == NextDigest(w, s.wavelets[w], delta)
    IN  PostAll([s EXCEPT !.wavelets[w].digest = digest.text],
                SetToSeq({ToConn(c, digest) : c \in s.wavelets[w].index}))

Apply(s, w, delta) == BroadcastDigest(Broadcast(OpsApplied(s, w, delta), w), w, delta)

\* InitActor: the history is applied like new deltas.
Replay(s, w, deltas) ==
    LET after[i \in 0..Len(deltas)] ==
            IF i = 0 THEN s ELSE Apply(after[i - 1], w, deltas[i])
    IN  Enables(after[Len(deltas)], w)

-----------------------------------------------------------------------------
(* The store: what the log and the participants become. *)

UsersOf(delta, kind) ==
    {op.user : op \in {o \in ToSet(delta) : o.kind = kind}}

\* Mutated form: a user who is removed stays.
IndexedAdding(index, w, delta) ==
    [u \in Users |-> IF u \in UsersOf(delta, "add") THEN index[u] \cup {w} ELSE index[u]]

\* writeToMemory: those that are added first, then those that are removed.
Indexed(index, w, delta) ==
    [u \in Users |-> IF u \in UsersOf(delta, "remove") THEN index[u] \ {w}
                     ELSE IF u \in UsersOf(delta, "add") THEN index[u] \cup {w}
                     ELSE index[u]]

IndexOfLog(log) ==
    LET of(w) ==
            LET after[i \in 0..Len(log[w])] ==
                    IF i = 0 THEN [u \in Users |-> {}]
                    ELSE Indexed(after[i - 1], w, log[w][i])
            IN  after[Len(log[w])]
    IN  [u \in Users |-> {w \in Wavelets : w \in of(w)[u]}]

Answered(s, m) ==
    CASE m.kind = "persist" -> Post(s, [to |-> "ack", job |-> m.job])
      [] m.kind = "history" ->
            Post(s, [to |-> "replay", wavelet |-> m.wavelet, deltas |-> store.log[m.wavelet]])
      [] OTHER -> Post(s, [to |-> "listed", conn |-> m.conn,
                           wavelets |-> SetToSeq(store.index[m.conn[1]])])

-----------------------------------------------------------------------------
(* What an actor does when its event comes, and lets it into the section. *)

Persist(job) == ToStore([kind |-> "persist", job |-> job])

Runs(s, job) ==
    IF job.kind = "subscribe" THEN SubscribeRuns(s, job.wavelet, job)
    ELSE Post(s, Persist(job))

Enters(s, job) ==
    IF Free(s.wavelets[job.wavelet])
    THEN Runs([s EXCEPT !.wavelets[job.wavelet].busy = TRUE], job)
    ELSE [s EXCEPT !.wavelets[job.wavelet].queue = Append(@, job)]

Started(s, job) ==
    CASE job.kind = "init" -> Post(s, ToStore([kind |-> "history", wavelet |-> job.wavelet]))
      [] job.kind = "listing" -> Post(s, ToStore(job))
      [] OTHER -> Enters(s, job)

-----------------------------------------------------------------------------
(* The events. *)

Server == [wavelets |-> wavelets, events |-> events]
Rest == [wavelets |-> wavelets, events |-> Tail(events)]

Becomes(s) == wavelets' = s.wavelets /\ events' = s.events

HasTime == Len(events) <= MaxEvents

Event(receiver) == events # <<>> /\ Head(events).to = receiver

Alive(c) == conns[c[1]].up /\ Conn(c[1]) = c

\* Wavelet::customEvent and ClientConnection's: an actor is made.
WaveletGets ==
    /\ Event("wavelet")
    /\ Becomes(Post(Rest, ToActor(Head(events).message)))
    /\ UNCHANGED <<store, conns, wires, views, budget>>

\* The actor of a connection goes with it.
ActorStarts ==
    /\ Event("actor")
    /\ LET job == Head(events).job
       IN  Becomes(IF job.kind = "listing" /\ ~Alive(job.conn) THEN Rest
                   ELSE Started(Rest, job))
    /\ UNCHANGED <<store, conns, wires, views, budget>>

ActorEnters ==
    /\ Event("enter")
    /\ Becomes(Runs(Rest, Head(events).job))
    /\ UNCHANGED <<store, conns, wires, views, budget>>

StoreGets ==
    /\ Event("store")
    /\ LET m == Head(events).message
       IN  /\ store' = IF m.kind # "persist" THEN store
                       ELSE [log |-> [store.log EXCEPT ![m.job.wavelet] = Append(@, m.job.delta)],
                             index |-> Indexed(store.index, m.job.wavelet, m.job.delta)]
           /\ Becomes(Answered(Rest, m))
    /\ UNCHANGED <<conns, wires, views, budget>>

SubmitCommits ==
    /\ Event("ack")
    /\ LET job == Head(events).job
       IN  /\ Becomes(Leaves(Apply(Rest, job.wavelet, job.delta), job.wavelet))
           /\ budget' = [budget EXCEPT !.waiting = @ \ {job.wavelet}]
    /\ UNCHANGED <<store, conns, wires, views>>

HistoryComes ==
    /\ Event("replay")
    /\ Becomes(Replay(Rest, Head(events).wavelet, Head(events).deltas))
    /\ UNCHANGED <<store, conns, wires, views, budget>>

\* ClientIndexWaveActor.  For a browser a wavelet that is not in RAM is left out.
ListingComes ==
    /\ Event("listed")
    /\ LET e == Head(events)
           u == e.conn[1]
           found == IF u \in WebUsers
                    THEN {w \in ToSet(e.wavelets) : wavelets[w].loaded} ELSE {}
           after[i \in 0..Len(e.wavelets)] ==
               IF i = 0 THEN Rest
               ELSE PostToWavelet(after[i - 1], u \notin WebUsers,
                                  Subscribe(e.conn, e.wavelets[i], TRUE, FALSE))
       IN  IF Alive(e.conn)
           THEN /\ Becomes(after[Len(e.wavelets)])
                /\ conns' = [conns EXCEPT ![u].subscriptions = @ \cup found]
           ELSE Becomes(Rest) /\ UNCHANGED conns
    /\ UNCHANGED <<store, wires, views, budget>>

\* ClientParticipant hands it to the connections of the user.  A browser's
\* subscribes to the digest, the desktop's to the content as well, if it has
\* opened a wavelet before.
InvitationComes ==
    /\ Event("participant")
    /\ LET u == Head(events).user
           w == Head(events).wavelet
           web == u \in WebUsers
       IN  IF conns[u].up /\ conns[u].named
           THEN /\ Becomes(PostToWavelet(Rest, FALSE,
                        Subscribe(Conn(u), w, TRUE, ~web /\ conns[u].opened)))
                /\ conns' = IF web THEN [conns EXCEPT ![u].subscriptions = @ \cup {w}]
                            ELSE conns
           ELSE Becomes(Rest) /\ UNCHANGED conns
    /\ UNCHANGED <<store, wires, views, budget>>

\* The operations of a digest's delta, and its text in front of what is left.
Digested(view, m) ==
    LET after[i \in 0..Len(m.ops)] ==
            IF i = 0 THEN view.participants
            ELSE IF m.ops[i].kind = "add" THEN after[i - 1] \cup {m.ops[i].user}
            ELSE after[i - 1] \ {m.ops[i].user}
    IN  [view EXCEPT !.known = TRUE, !.participants = after[Len(m.ops)],
                     !.text = m.text \o SubSeq(@, m.deletes + 1, Len(@))]

\* messageReceived of the client.  The desktop takes no content of a wave it
\* has no digest of.
Viewed(view, u, m) ==
    CASE m.kind = "digest" -> Digested(view, m)
      [] ~view.known /\ u \notin WebUsers -> [view EXCEPT !.early = TRUE]
      [] m.kind = "snapshot" -> [view EXCEPT !.version = m.version]
      [] OTHER -> [view EXCEPT !.version = @ + 1]

\* The connection sends it, and the client takes it; when it does is the
\* client's affair.  Nobody is there any more for the events of a connection
\* that is gone.
ConnectionGets ==
    /\ Event("conn")
    /\ LET u == Head(events).conn[1]
           m == Head(events).message
       IN  views' = IF Alive(Head(events).conn)
                    THEN [views EXCEPT ![u].of[m.wavelet] = Viewed(@, u, m)]
                    ELSE views
    /\ Becomes(Rest)
    /\ UNCHANGED <<store, conns, wires, budget>>

-----------------------------------------------------------------------------
(* Requests. *)

\* Mutated form: who asks for his index is not known by name.
OpenRequestUnnamed(c, m) ==
    [c EXCEPT !.named = @ \/ m.kind = "open", !.handled = Append(@, m),
              !.opened = @ \/ m.kind = "open"]

\* openRequest of ClientConnection and FCGIClientConnection: new state of the
\* connection, and what is posted.
OpenRequest(c, m) ==
    [c EXCEPT !.named = TRUE, !.handled = Append(@, m),
              !.opened = @ \/ m.kind = "open"]

Requested(s, u, m) ==
    IF m.kind = "index" THEN Post(s, ToActor([kind |-> "listing", conn |-> Conn(u)]))
    ELSE PostToWavelet(s, TRUE, Subscribe(Conn(u), m.wavelet, TRUE, TRUE))

HandleAll(u, conn, received) ==
    LET after[i \in 0..Len(received)] ==
            IF i = 0 THEN [server |-> Server, conn |-> conn]
            ELSE LET step(h) == [server |-> Requested(h.server, u, received[i]),
                                 conn |-> OpenRequest(h.conn, received[i])]
                 IN  step(after[i - 1])
    IN  after[Len(received)]

\* The connection has become conn with n units, and these requests are complete.
Takes(u, n, conn, received) ==
    LET handled == HandleAll(u, conn, received)
    IN  /\ Becomes(handled.server)
        /\ conns' = [conns EXCEPT ![u] = handled.conn]
        /\ wires' = [wires EXCEPT ![u] = SubSeq(@, n + 1, Len(@))]
        /\ UNCHANGED <<store, views, budget>>

\* A part of a desktop client's bytes arrives.
ServerReads(u) ==
    /\ u \notin WebUsers
    /\ HasTime
    /\ conns[u].up /\ wires[u] # <<>>
    /\ \E n \in 1..Len(wires[u]) :
          LET rpc == Arrived(conns[u].rpc, SubSeq(wires[u], 1, n))
          IN  Takes(u, n, [conns[u] EXCEPT !.rpc = rpc], rpc.received)

\* The records of a browser's request arrive, cut in two anywhere.  (Nothing else
\* happens between the two: a bound.)
ServerTakes(u) ==
    /\ u \in WebUsers
    /\ HasTime
    /\ conns[u].up /\ wires[u] # <<>>
    /\ LET records == Web!RecordsOf(Head(wires[u]).id, Head(wires[u]).request)
       IN  \E fcgi \in {Web!ArrivedCut(conns[u].fcgi, records, cut) : cut \in 1..Len(records)} :
              Takes(u, 1, [conns[u] EXCEPT !.fcgi = fcgi], fcgi.received)

-----------------------------------------------------------------------------
(* The author. *)

\* One delta of a wavelet at a time.  A wavelet begins with participants, with a
\* blip or without, and gets its blip once.
Deltas(w) ==
    LET invites == {<<Add(u)>> : u \in Users}
    IN  CASE w \notin budget.known -> invites \cup {<<Start, Type>> \o i : i \in invites}
          [] w \notin budget.started -> {<<Start>>}
          [] OTHER -> {<<Type>>} \cup invites
                      \cup {<<Expel(u)>> : u \in Users}
                      \cup {<<Expel(u), Add(u)>> : u \in Users}

AuthorSubmits(w) ==
    /\ HasTime
    /\ budget.deltas < MaxDeltas /\ w \notin budget.waiting
    /\ \E delta \in Deltas(w) :
          /\ Becomes(PostToWavelet(Server, TRUE,
                        [kind |-> "submit", wavelet |-> w, delta |-> delta]))
          /\ budget' = [budget EXCEPT !.deltas = @ + 1,
                            !.known = @ \cup {w}, !.waiting = @ \cup {w},
                            !.started = IF Head(delta) = Start THEN @ \cup {w} ELSE @]
    /\ UNCHANGED <<store, conns, wires, views>>

-----------------------------------------------------------------------------
(* The users' clients. *)

NoConnection(n) ==
    [up |-> FALSE, session |-> n, named |-> FALSE, opened |-> FALSE,
     rpc |-> NoBytes, fcgi |-> Web!NoRecords,
     subscriptions |-> {}, asked |-> <<>>, handled |-> <<>>]

Unseen == [known |-> FALSE, text |-> <<>>, participants |-> {}, version |-> 0, early |-> FALSE]

NoView == [open |-> {}, of |-> [w \in Wavelets |-> Unseen]]

\* A request goes out: as bytes, or to the web server, which gives it an id.
Asks(u, conn, m) ==
    /\ conns' = [conns EXCEPT ![u] = [conn EXCEPT !.asked = Append(@, m)]]
    /\ wires' = [wires EXCEPT ![u] = @ \o IF u \in WebUsers
                                        THEN <<[id |-> Len(conn.asked) + 1, request |-> m]>>
                                        ELSE Frame(m)]

\* The desktop keeps what it has, and which wavelets it has opened; a browser
\* logs in, and starts anew.
UserConnects(u) ==
    /\ ~conns[u].up
    /\ budget.sessions < MaxSessions
    /\ budget' = [budget EXCEPT !.sessions = @ + 1]
    /\ Asks(u, [NoConnection(conns[u].session + 1) EXCEPT
                  !.up = TRUE, !.named = u \in WebUsers], OpenIndex)
    /\ views' = IF u \in WebUsers THEN [views EXCEPT ![u] = NoView] ELSE views
    /\ UNCHANGED <<wavelets, store, events>>

UserOpens(u, w) ==
    /\ conns[u].up
    /\ views[u].of[w].known /\ w \notin views[u].open
    /\ budget.opens < MaxOpens
    /\ budget' = [budget EXCEPT !.opens = @ + 1]
    /\ Asks(u, conns[u], OpenWavelet(w))
    /\ views' = [views EXCEPT ![u].open = @ \cup {w}]
    /\ UNCHANGED <<wavelets, store, events>>

\* The socket breaks, or a browser has been silent for too long: its connection
\* takes back what it subscribed to.
UserLeaves(u) ==
    /\ HasTime
    /\ conns[u].up
    /\ LET left == SetToSeq(conns[u].subscriptions)
           after[i \in 0..Len(left)] ==
               IF i = 0 THEN Server
               ELSE PostToWavelet(after[i - 1], FALSE, Unsubscribe(Conn(u), left[i]))
       IN  Becomes(after[Len(left)])
    /\ conns' = [conns EXCEPT ![u] = NoConnection(@.session)]
    /\ wires' = [wires EXCEPT ![u] = <<>>]
    /\ UNCHANGED <<store, views, budget>>

\* The server crashes and starts again.  The log is read.
Restart ==
    /\ budget.restarts < MaxRestarts
    /\ budget' = [budget EXCEPT !.restarts = @ + 1, !.waiting = {}]
    /\ wavelets' = [w \in Wavelets |-> Unloaded]
    /\ store' = [store EXCEPT !.index = IndexOfLog(store.log)]
    /\ events' = <<>>
    /\ conns' = [u \in Users |-> NoConnection(conns[u].session)]
    /\ wires' = [u \in Users |-> <<>>]
    /\ UNCHANGED views

-----------------------------------------------------------------------------

Init ==
    /\ wavelets = [w \in Wavelets |-> Unloaded]
    /\ store = [log |-> [w \in Wavelets |-> <<>>], index |-> [u \in Users |-> {}]]
    /\ events = <<>>
    /\ conns = [u \in Users |-> NoConnection(0)]
    /\ wires = [u \in Users |-> <<>>]
    /\ views = [u \in Users |-> NoView]
    /\ budget = [deltas |-> 0, known |-> {}, started |-> {}, waiting |-> {}, sessions |-> 0,
                 opens |-> 0, restarts |-> 0]

Next ==
    \/ WaveletGets \/ ActorStarts \/ ActorEnters \/ StoreGets \/ SubmitCommits
    \/ HistoryComes \/ ListingComes \/ InvitationComes \/ ConnectionGets
    \/ Restart
    \/ \E w \in Wavelets : AuthorSubmits(w)
    \/ \E u \in Users :
          \/ ServerReads(u) \/ ServerTakes(u)
          \/ UserConnects(u) \/ UserLeaves(u)
          \/ \E w \in Wavelets : UserOpens(u, w)

SessionsSpec == Init /\ [][Next]_sessionVars

-----------------------------------------------------------------------------
(* Properties. *)

\* What the client of u will know of w when it has got what has been posted.
ToBeSeen(u, w) ==
    LET coming == SelectSeq(events, LAMBDA e :
                      e.to = "conn" /\ e.conn = Conn(u) /\ e.message.wavelet = w)
        after[i \in 0..Len(coming)] ==
            IF i = 0 THEN views[u].of[w] ELSE Viewed(after[i - 1], u, coming[i].message)
    IN  after[Len(coming)]

\* A client that was not there before.  The desktop client, which keeps what it
\* has seen, is given all of it again when it comes back.
IsFresh(u) == conns[u].up /\ (u \in WebUsers \/ conns[u].session = 1)

\* Who subscribes to the index of a wavelet will see the digest the wavelet has,
\* text and participants, whenever he subscribed: the changes sent one by one
\* continue the first digest, and each other.
DigestFollows ==
    \A u \in Users : \A w \in Wavelets :
        IsFresh(u) /\ Conn(u) \in wavelets[w].index /\ wavelets[w].version > 0 =>
            /\ ToBeSeen(u, w).text = DigestText(wavelets[w])
            /\ ToBeSeen(u, w).participants = wavelets[w].participants

Touches(delta, u) == \E i \in DOMAIN delta : delta[i] \in {Add(u), Expel(u)}

\* A delta removes and adds the user: some delta, or the last one about him.
Swaps(delta, u) == {Add(u), Expel(u)} \subseteq ToSet(delta)
EverSwapped(u, w) == \E i \in DOMAIN store.log[w] : Swaps(store.log[w][i], u)
LastSwapped(u, w) ==
    LET log == store.log[w]
    IN  \E i \in DOMAIN log :
            Swaps(log[i], u) /\ \A j \in DOMAIN log : j > i => ~Touches(log[j], u)

Idle(w) == events = <<>> /\ wavelets[w].enabled

\* When the server is idle, who has opened a wavelet in this session is at its
\* version, with each delta once, unless content came to the desktop client
\* before the first digest.
ContentFollows ==
    \A u \in Users : \A w \in Wavelets :
        Idle(w) /\ IsFresh(u) /\ OpenWavelet(w) \in ToSet(conns[u].handled) =>
            views[u].of[w].early \/ views[u].of[w].version = wavelets[w].version

\* The index query and the invitation do not miss each other: when the server is
\* idle, who has asked for his index is subscribed to every wavelet in RAM that
\* he is a participant of; unless one delta removed him and added him again.
NobodyIsForgotten ==
    \A u \in Users : \A w \in Wavelets :
        Idle(w) /\ conns[u].up /\ conns[u].handled # <<>>
                /\ u \in wavelets[w].participants =>
            Conn(u) \in wavelets[w].index \/ EverSwapped(u, w)

\* The store's list of a user's wavelets, which the next session starts from, is
\* that of the wavelets he is a participant of, also after a restart; unless one
\* delta removes him and adds him again.
StoreIndexAgrees ==
    \A u \in Users : \A w \in Wavelets :
        Idle(w) => (u \in wavelets[w].participants <=> w \in store.index[u])
                   \/ LastSwapped(u, w)

\* The requests u has sent that have not been handled.
Left(u) == SubSeq(conns[u].asked, Len(conns[u].handled) + 1, Len(conns[u].asked))

UnbrokenBytes(u) ==
    LET rpc == conns[u].rpc
        left == Left(u)
    IN  /\ ~rpc.closed /\ rpc.unread = <<>>
        /\ rpc.length \o rpc.buffer \o wires[u]
              = FlattenSeq([i \in DOMAIN left |-> Frame(left[i])])

UnbrokenRecords(u) ==
    LET fcgi == conns[u].fcgi
    IN  /\ fcgi.ok /\ fcgi.buffer = <<>>
        /\ [i \in DOMAIN wires[u] |-> wires[u][i].request] = Left(u)

\* In whatever pieces the bytes come, or the records of the web server, the
\* requests handled are those that were sent, in their order, and what is not
\* handled yet has all its bytes.
RequestsUnbroken ==
    \A u \in Users :
        /\ IsPrefix(conns[u].handled, conns[u].asked)
        /\ IF u \in WebUsers THEN UnbrokenRecords(u) ELSE UnbrokenBytes(u)
=============================================================================
