------------------------------- MODULE LongPoll -------------------------------
(***************************************************************************)
(* The session of one web browser: FCGIClientConnection and FCGIRequest    *)
(* (src/waveserver/fcgi), ClientActorFolk::periodicCleanup, and the        *)
(* browser's end in src/webclient/javascript/rpc.js.                       *)
(*                                                                         *)
(* The server answers an HTTP request only when it has something to tell.  *)
(* The browser keeps one request open to be told, and sends another one    *)
(* for every submit and every wave it opens.  Each request is a connection *)
(* of its own: requests, and the answers to them, overtake each other.     *)
(* A submit ends when its answer and the update with its delta have come;  *)
(* the update only comes if the wavelet has the session for a subscriber.  *)
(* Inside the server messages are events, delivered in the order of their  *)
(* posting; those for an object that has been deleted are dropped.         *)
(*                                                                         *)
(* A request breaks when the web server aborts it or closes the socket it  *)
(* came on; the browser then gets an answer it cannot parse.  A message    *)
(* takes less than half of the 30 s between two cleanups: one that was     *)
(* under way at a cleanup (old) arrives before the next, and so does a     *)
(* request sent by the time an old answer has arrived.  Bounds: Budgets.   *)
(***************************************************************************)
EXTENDS Naturals, Sequences, SequencesExt, FiniteSets

CONSTANTS
    None,       \* the null ActorId, and a text that is not a Response
    Budgets     \* how often may happen together: updates of other users and snapshots,
                \* deltas of this user and waves he opens (acts), requests that
                \* break, and ticks of the 30 s timer

Bounded == {"updates", "acts", "breaks", "cleanups"}

ASSUME PollAssumption ==
    /\ Budgets \subseteq [Bounded -> Nat] /\ IsFiniteSet(Budgets)
    /\ None \notin Nat

VARIABLES
    browser,    \* the variables of JSOT.Rpc
    connection, \* the FCGIClientConnection with its ClientSubmitRequestActor
    requests,   \* the FCGIRequest objects
    aborted,    \* those of them with m_aborted
    events,     \* the event queue of the server
    up, down,   \* HTTP requests and answers under way
    wavelet,    \* the wavelet the user writes to: whether its version is 0, whether
                \* it has the session among its m_contentSubscribers, and whether it
                \* had when it applied the last delta of this user
    count       \* how often has happened what is bounded

pollVars == <<browser, connection, requests, aborted, events, up, down, wavelet, count>>

-----------------------------------------------------------------------------
(* Messages.  A response has its server_sequence_number, 0 if it carries      *)
(* nothing.                                                                   *)

EmptyResponse == [number |-> 0, type |-> "empty"]
Unparsable == [number |-> 0, type |-> "unparsable"]

\* What is bounded happens once more, if that is in one of the budgets.
Happens(what) ==
    /\ count' = [count EXCEPT ![what] = @ + 1]
    /\ \E b \in Budgets : \A w \in Bounded : count'[w] <= b[w]

\* What a request holds: a submit or not, and the name of what it opens.
Asking(submit, open) == [submit |-> submit, open |-> open]

RequestEvent(r, asks, old) ==
    [to |-> "connection", type |-> "request", request |-> r, asks |-> asks,
     old |-> old]
DeathNotice(r) ==
    [to |-> "connection", type |-> "death", request |-> r, old |-> FALSE]
DeferredDelete == [to |-> "connection", type |-> "delete", old |-> FALSE]
ResponseEvent(r, response) ==
    [to |-> "request", type |-> "response", request |-> r, response |-> response,
     old |-> FALSE]

\* QCoreApplication::removePostedEvents, when the object they are for is deleted:
\* the events that stay, in their order.
Without(q, S) ==
    LET kept[n \in 0..Len(q)] ==
            IF n = 0 THEN <<>>
            ELSE IF q[n] \in S THEN kept[n - 1] ELSE Append(kept[n - 1], q[n])
    IN  kept[Len(q)]

\* ActorDispatcher::post: nothing is posted to an object that does not exist.
PostedTo(r, response) ==
    IF r \in requests THEN <<ResponseEvent(r, response)>> ELSE <<>>

-----------------------------------------------------------------------------
(* FCGIClientConnection.  The operators give the connection after the method  *)
(* and the events it posts.                                                   *)

\* Mutated form: a queue that is served from the wrong end.
NumberedFirst(con, type) ==
    LET response == [number |-> con.sequenceNumber + 1, type |-> type]
    IN  IF con.pendingRequest = None
        THEN [con |-> [con EXCEPT !.sequenceNumber = @ + 1,
                                  !.outQueue = <<response>> \o @],
              post |-> <<>>]
        ELSE [con |-> [con EXCEPT !.sequenceNumber = @ + 1, !.isDead = FALSE,
                                  !.pendingRequest = None],
              post |-> PostedTo(con.pendingRequest, response)]

\* reply(): number the response; send it to the pending request, or queue it,
\* as it is if the pending request is no more.
Reply(con, type) ==
    LET response == [number |-> con.sequenceNumber + 1, type |-> type]
        posted == PostedTo(con.pendingRequest, response)
        numbered == [con EXCEPT !.sequenceNumber = @ + 1,
                                !.isDead = @ /\ con.pendingRequest = None,
                                !.pendingRequest = None]
    IN  IF posted # <<>> THEN [con |-> numbered, post |-> posted]
        ELSE [con |-> [numbered EXCEPT !.outQueue = Append(@, response)],
              post |-> <<>>]

EmptyReply(con) ==
    [con |-> [con EXCEPT !.pendingRequest = None],
     post |-> PostedTo(con.pendingRequest, EmptyResponse)]

\* Mutated form: an older request is forgotten, not answered.
HandleRequestForgetful(con, event) ==
    LET awake == [con EXCEPT !.isDead = FALSE,
                             !.submit = IF event.asks.submit THEN "submitted" ELSE @]
    IN  IF con.outQueue = <<>>
        THEN [con |-> [awake EXCEPT !.pendingRequest = event.request], post |-> <<>>]
        ELSE [con |-> [awake EXCEPT !.outQueue = Tail(@)],
              post |-> PostedTo(event.request, Head(con.outQueue))]

\* handleRequest(): with nothing to tell, keep the request and release the one
\* kept so far; otherwise answer it at once.  A response that cannot be posted
\* any more has been dequeued all the same.
HandleRequest(con, event) ==
    LET awake == [con EXCEPT !.isDead = FALSE,
                             !.submit = IF event.asks.submit THEN "submitted" ELSE @]
        released == EmptyReply(awake)
    IN  IF con.outQueue = <<>>
        THEN [con |-> [released.con EXCEPT !.pendingRequest = event.request],
              post |-> released.post]
        ELSE [con |-> [awake EXCEPT !.outQueue = Tail(@)],
              post |-> PostedTo(event.request, Head(con.outQueue))]

\* openRequest(): a SubscribeActor of the wavelet that is named.
OpenRequest(open) ==
    IF open = "wavelet" /\ wavelet.content = "not"
    THEN [wavelet EXCEPT !.content = "asked"] ELSE wavelet

HandleDeath(con, event) ==
    IF event.request = con.pendingRequest
    THEN [con EXCEPT !.pendingRequest = None] ELSE con

\* Mutated form: no second chance for a connection with an open request.
CleanedUpAtOnce(con) ==
    IF con.isDead THEN [con |-> con, post |-> <<DeferredDelete>>]
    ELSE [con |-> [con EXCEPT !.isDead = TRUE], post |-> <<>>]

\* isDead(), and periodicCleanup's deleteLater if it is.
CleanedUp(con) ==
    IF ~con.isDead THEN [con |-> [con EXCEPT !.isDead = TRUE], post |-> <<>>]
    ELSE IF con.pendingRequest # None THEN EmptyReply(con)
    ELSE [con |-> con, post |-> <<DeferredDelete>>]

Become(result, rest) ==
    /\ connection' = result.con
    /\ events' = rest \o result.post

-----------------------------------------------------------------------------
(* Events of the server. *)

\* FCGIRequest::process: a request is complete.  Without its session it is
\* answered with an error text.
RequestArrives ==
    /\ \E m \in up :
          /\ up' = up \ {m}
          /\ IF connection.alive
             THEN /\ requests' = requests \cup {m.request}
                  /\ events' = Append(events, RequestEvent(m.request, m.asks, m.old))
                  /\ UNCHANGED down
             ELSE /\ down' = down \cup {[request |-> m.request, old |-> m.old,
                                         response |-> Unparsable]}
                  /\ UNCHANGED <<requests, events>>
    /\ UNCHANGED <<browser, connection, aborted, wavelet, count>>

\* FCGIClientConnection::customEvent.
ConnectionHandles ==
    /\ events # <<>> /\ Head(events).type \in {"request", "death"}
    /\ IF Head(events).type = "request"
       THEN /\ Become(HandleRequest(connection, Head(events)), Tail(events))
            /\ wavelet' = OpenRequest(Head(events).asks.open)
       ELSE /\ connection' = HandleDeath(connection, Head(events))
            /\ events' = Tail(events)
            /\ UNCHANGED wavelet
    /\ UNCHANGED <<browser, requests, aborted, up, down, count>>

\* Its destructor: the queue is deleted, and whatever is posted to it dropped.
ConnectionDeleted ==
    /\ events # <<>> /\ Head(events).type = "delete"
    /\ connection' = [connection EXCEPT !.alive = FALSE, !.submit = "none",
                                        !.outQueue = <<>>, !.pendingRequest = None]
    /\ events' = Without(events, {e \in ToSet(events) : e.to = "connection"})
    /\ UNCHANGED <<browser, requests, aborted, up, down, wavelet, count>>

\* What is written of a response: more than 65535 bytes are not, and the answer
\* stays empty.
Written(response) == IF response.type = "huge" THEN Unparsable ELSE response

\* The web server drops what is written for a request that it has aborted.
EndRequest(r, answer) ==
    /\ requests' = requests \ {r}
    /\ aborted' = aborted \ {r}
    /\ down' = IF r \in aborted THEN down ELSE down \cup {answer}

\* FCGIRequest::reply.
RequestReplies ==
    /\ events # <<>> /\ Head(events).type = "response"
    /\ LET e == Head(events)
       IN  EndRequest(e.request, [request |-> e.request, old |-> e.old,
                                  response |-> Written(e.response)])
    /\ events' = Tail(events)
    /\ UNCHANGED <<browser, connection, up, wavelet, count>>

\* A delta of another user is applied, or there is a snapshot of a wavelet.
UpdateComes ==
    /\ connection.alive /\ Happens("updates")
    /\ \E type \in {"update", "huge"} : Become(Reply(connection, type), events)
    /\ UNCHANGED <<browser, requests, aborted, up, down, wavelet>>

Silently(con) == [con |-> con, post |-> <<>>]

\* The wavelet's SubscribeActor.  If there is something in the wavelet the session
\* gets it, as deltas of its creator and of the authors of its documents.
WaveletSubscribes ==
    /\ connection.alive /\ wavelet.content = "asked"
    /\ wavelet' = [wavelet EXCEPT !.content = "subscribed"]
    /\ \/ wavelet.empty /\ Become(Silently(connection), events)
       \/ ~wavelet.empty /\ \E type \in {"update", "huge", "echo"} :
                                Become(Reply(connection, type), events)
    /\ UNCHANGED <<browser, requests, aborted, up, down, count>>

\* The delta of this user is applied, and broadcast to the subscribers.  The actor
\* may have given up waiting for the answer by then.
DeltaApplied ==
    /\ connection.submit \in {"submitted", "late"}
    /\ wavelet' = [wavelet EXCEPT !.empty = FALSE,
                                  !.unheard = wavelet.content # "subscribed"]
    /\ LET next == IF connection.submit = "late" THEN "none" ELSE "applied"
           told == [connection EXCEPT !.submit = next]
       IN  Become(IF wavelet.content = "subscribed" THEN Reply(told, "echo")
                  ELSE Silently(told), events)
    /\ UNCHANGED <<browser, requests, aborted, up, down, count>>

\* ClientSubmitRequestActor gets its answer.
SubmitSucceeds ==
    /\ connection.submit = "applied"
    /\ Become(Reply([connection EXCEPT !.submit = "none"], "applied"), events)
    /\ UNCHANGED <<browser, requests, aborted, up, down, wavelet, count>>

\* The delta is refused, or its actor gets tired of waiting.
SubmitFails ==
    /\ connection.submit = "submitted"
    /\ \E next \in {"none", "late"} :
          Become(Reply([connection EXCEPT !.submit = next], "failed"), events)
    /\ UNCHANGED <<browser, requests, aborted, up, down, wavelet, count>>

InFlight == up \cup down \cup ToSet(events)

Aged(S) == {[m EXCEPT !.old = TRUE] : m \in S}

\* The 30 s timer.  What has been under way since its last tick is through.
Cleanup ==
    /\ connection.alive /\ Happens("cleanups")
    /\ DeferredDelete \notin ToSet(events)
    /\ \A m \in InFlight : ~m.old
    /\ LET result == CleanedUp(connection)
           posted == events \o result.post
       IN  /\ connection' = result.con
           /\ events' = [i \in DOMAIN posted |->
                            IF posted[i].type = "delete" THEN posted[i]
                            ELSE [posted[i] EXCEPT !.old = TRUE]]
    /\ up' = Aged(up) /\ down' = Aged(down)
    /\ UNCHANGED <<browser, requests, aborted, wavelet>>

\* FCGIRequest::onAbort, for a request that the web server aborts, and for all
\* those on a socket that closes, which are deleted as well.
Break ==
    /\ Happens("breaks")
    /\ \E r \in requests \ aborted :
          /\ LET notice == IF connection.alive THEN <<DeathNotice(r)>> ELSE <<>>
             IN  \/ /\ aborted' = aborted \cup {r}
                    /\ events' = events \o notice
                    /\ UNCHANGED requests
                 \/ /\ requests' = requests \ {r}
                    /\ events' = Without(events, {e \in ToSet(events) :
                                    e.to = "request" /\ e.request = r}) \o notice
                    /\ UNCHANGED aborted
          /\ down' = down \cup {[request |-> r, old |-> FALSE,
                                 response |-> Unparsable]}
    /\ UNCHANGED <<browser, connection, up, wavelet>>

-----------------------------------------------------------------------------
(* JSOT.Rpc.  `toSend` is what the requests ask that a handler has sent.       *)

\* A submit opens a wavelet of the domain `url.wavletDomain`, which is undefined:
\* it is not the one that is written to.
WaveletOpened == "undefined"

\* sendNextSubmitRequest.
SendNextSubmit(b) ==
    IF b.outgoing = 0 \/ b.submitPending THEN [b |-> b, toSend |-> <<>>]
    ELSE [b |-> [b EXCEPT !.submitPending = TRUE, !.updateMissing = TRUE,
                          !.responseMissing = TRUE, !.openWavelet = FALSE],
          toSend |-> <<Asking(TRUE, IF b.openWavelet THEN WaveletOpened ELSE "none")>>]

\* callServer.
Send(result, old) ==
    LET first == result.b.lastRequest
        n == Len(result.toSend)
    IN  /\ browser' = [result.b EXCEPT !.lastRequest = @ + n,
                                       !.open = @ \cup (first + 1)..(first + n)]
        /\ up' = up \cup {[request |-> first + i, asks |-> result.toSend[i],
                           old |-> old] : i \in 1..n}

Posted == {e \in ToSet(events) : e.type = "response"}

OldAnswer == \E m \in down \cup Posted : m.old

SubmitDone(b) ==
    [b EXCEPT !.outgoing = @ - 1, !.submitPending = FALSE]

\* processUpdate, for an update that holds a delta of this user.
ProcessEcho(b) ==
    IF ~(b.submitPending /\ b.updateMissing) THEN b
    ELSE IF b.responseMissing THEN [b EXCEPT !.updateMissing = FALSE]
    ELSE SubmitDone([b EXCEPT !.updateMissing = FALSE])

\* Mutated form: leaves it to the update to finish the submit.
ProcessResponseOnly(b) == [b EXCEPT !.responseMissing = FALSE]

\* processSubmitResponse, of a delta that has been applied.
ProcessSubmitResponse(b) ==
    IF b.updateMissing THEN [b EXCEPT !.responseMissing = FALSE]
    ELSE SubmitDone([b EXCEPT !.responseMissing = FALSE])

Process(b, response) ==
    CASE response.type = "echo" -> ProcessEcho(b)
      [] response.type = "applied" -> ProcessSubmitResponse(b)
      [] OTHER -> b

Received(b, m) ==
    [b EXCEPT !.open = @ \ {m.request},
              !.processed = IF m.response.number = 0 THEN @
                            ELSE Append(@, m.response.number)]

\* onMessage throws: an answer that is not a Response, or "Submit failed".  The
\* handler goes no further: nothing is sent, not even the next pull.
Throws(response) == response.type \in {"unparsable", "failed"}

BrowserThrows ==
    /\ \E m \in down :
          /\ Throws(m.response)
          /\ down' = down \ {m}
          /\ browser' = [Received(browser, m) EXCEPT
                             !.thrown = TRUE,
                             !.responseMissing = @ /\ m.response.type # "failed"]
    /\ UNCHANGED <<connection, requests, aborted, events, up, wavelet, count>>

\* Mutated form: pulls only behind a response that carries something.
PullsIfTold(b, response) == b.open = {} /\ response.number > 0

Pulls(b, response) == b.open = {}

\* onMessage: process the response, send the next submit, or else pull if no
\* other request is open.
BrowserReceives ==
    /\ \E m \in down :
          /\ ~Throws(m.response)
          /\ down' = down \ {m}
          /\ LET next == SendNextSubmit(Process(Received(browser, m), m.response))
             IN  Send(IF next.toSend = <<>> /\ Pulls(next.b, m.response)
                      THEN [next EXCEPT !.toSend = <<Asking(FALSE, "none")>>]
                      ELSE next, m.old)
    /\ UNCHANGED <<connection, requests, aborted, events, wavelet, count>>

\* submitOperations, which may be told to open the wavelet.
UserSubmits ==
    /\ Happens("acts")
    /\ \E open \in BOOLEAN :
          Send(SendNextSubmit([browser EXCEPT !.outgoing = @ + 1,
                                              !.openWavelet = @ \/ open]), OldAnswer)
    /\ UNCHANGED <<connection, requests, aborted, events, down, wavelet>>

\* openWavelet.
UserOpens ==
    /\ Happens("acts")
    /\ Send([b |-> browser, toSend |-> <<Asking(FALSE, "wavelet")>>], OldAnswer)
    /\ UNCHANGED <<connection, requests, aborted, events, down, wavelet>>

-----------------------------------------------------------------------------
\* The user has logged in, and the browser has sent the request that opens the
\* index wave.
PollInit ==
    /\ browser = [open |-> {1}, lastRequest |-> 1, processed |-> <<>>,
                  outgoing |-> 0, submitPending |-> FALSE, updateMissing |-> FALSE,
                  responseMissing |-> FALSE, openWavelet |-> FALSE, thrown |-> FALSE]
    /\ connection = [alive |-> TRUE, isDead |-> FALSE, pendingRequest |-> None,
                     outQueue |-> <<>>, sequenceNumber |-> 0, submit |-> "none"]
    /\ requests = {} /\ aborted = {} /\ events = <<>>
    /\ up = {[request |-> 1, asks |-> Asking(FALSE, "index"), old |-> FALSE]}
    /\ down = {}
    /\ wavelet \in [empty : BOOLEAN, content : {"not"}, unheard : {FALSE}]
    /\ count = [what \in Bounded |-> 0]

\* What the event loops, the network and the wavelet owe.
Serve ==
    \/ RequestArrives \/ ConnectionHandles \/ ConnectionDeleted \/ RequestReplies
    \/ BrowserReceives \/ BrowserThrows
    \/ WaveletSubscribes \/ DeltaApplied \/ SubmitSucceeds \/ SubmitFails

PollNext ==
    \/ Serve
    \/ UpdateComes \/ UserSubmits \/ UserOpens
    \/ Cleanup \/ Break

PollSpec == PollInit /\ [][PollNext]_pollVars /\ WF_pollVars(Serve)

-----------------------------------------------------------------------------
(* Properties. *)

Told(S) == {m.response.number : m \in S} \ {0}

Sent == Told(Posted) \cup Told(down) \cup ToSet(browser.processed)
Queued == {connection.outQueue[i].number : i \in DOMAIN connection.outQueue}

\* The responses leave the server in the order of their numbers, although they
\* go out on requests that come, break and are replaced in the meantime.  (They
\* may arrive in another order, and the browser does not look at the numbers.)
LeaveInOrder ==
    /\ \A n \in Sent, m \in Queued : n < m
    /\ \A i, j \in DOMAIN events :
          i < j /\ {events[i], events[j]} \subseteq Posted
                /\ events[j].response.number # 0
             => events[i].response.number < events[j].response.number
    /\ \A i, j \in DOMAIN connection.outQueue :
          i < j => connection.outQueue[i].number < connection.outQueue[j].number

\* While the session lives, no HTTP request is left hanging: it is the pending
\* one, or its way through the event queue, one way or the other, is not over.
NoRequestForgotten ==
    connection.alive =>
        \A r \in requests \ aborted :
            \/ connection.pendingRequest = r
            \/ \E i \in DOMAIN events :
                  events[i].type \in {"request", "response"} /\ events[i].request = r

\* periodicCleanup only deletes the session of a browser that has stopped pulling
\* because its handler threw, or is about to.
LiveSessionKept ==
    ~connection.alive => browser.thrown \/ \E m \in down : Throws(m.response)

\* Whatever the server has numbered gets to a browser that goes on pulling; what
\* cannot be written stops the browser, which does not miss it unawares.
EveryResponseArrives ==
    []<>(\/ 1..connection.sequenceNumber \subseteq ToSet(browser.processed)
         \/ browser.thrown)

\* A submit ends, and the next one may follow, although its update and its
\* response come in either order, if the session was a subscriber of the wavelet
\* when the delta was applied.
SubmitsEnd ==
    browser.submitPending ~> ~browser.submitPending \/ browser.thrown \/ wavelet.unheard
=============================================================================
