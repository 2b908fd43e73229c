# QWave, specified

QWave is a federated Google-Wave server with a Qt client, a web client and a
robot framework. This directory holds TLA+ models of the parts of it that are
hard to get right, the TLC configurations that check them on small instances,
and theorems about them that TLAPS has checked for every value of the
constants. Paths below are relative to the repository (`src/...`).

    tlc -workers 2 -config LocalWavelet_faults.cfg LocalWavelet   # one run
    tlapm LocalWavelet_proofs.tla                                 # its proofs

`PROJECT.json` lists components, runs, mutants (the plausible bug that each
property was seen to catch), hazards, findings and theorems, and maps every
definition to the lines it models.

## 1. The system

The server is one process with one Qt event loop. Its actors are coroutines
(`waveserver/actor`): an actor runs until its next `yield`, and goes on when one
of the events it waits for arrives. So nothing runs in parallel; what
interleaves are events, and everything an actor knew before a `yield` may be
stale after it.

    Qt client ── length-prefixed protobuf ──┐
    robot     ── (the same) ────────────────┤          ┌─ LocalWavelet ──┐
    web client ─ HTTP long poll ─ FCGI ─────┼─ client ─┤                 ├─ Store ─ CommitLog
                                            │ folk     └─ RemoteWavelet ─┘
                                            └─ XMPP component ── other servers

| component | state | operations | what makes it correct |
|---|---|---|---|
| critical section (`actor/recvcriticalsection.*`) and coroutine runtime (`actor/actor.*`) | owner, queue, enabled; events posted but not delivered | tryEnter, enterIntern, leave, enable, delivery | one actor inside; FIFO; no lost wake-up; closed until the history is replayed |
| hosted wavelet (`model/wavelet.cpp`, `localwavelet.cpp`) | version, rolling hash, `m_deltas`, documents, participants, subscribers | submit, transform, persist, apply, broadcast, subscribe, snapshot, replay | one delta at a time; nothing that was told to a client is taken back; versions never fork |
| store and commit log (`persistence`) | chain of updates per wavelet, index of participants, the log file | persist, query, read the log at start | a record is in the log before its client hears "ok"; what is read back is what was told |
| document OT (`core/model/documentmutation.cpp`, `structureddocument.cpp`) | none | xform, apply | TP1: both orders give one document; the transformation is total |
| client OT processor (`waveclient/model/otprocessor.cpp`) and network adapter | queue, pending, suspended, server's hashed version, local documents | handleSend, gather, submitNext, handleReceive, setResultingHash, go on- and offline | view = server's document + what is queued; one delta in flight; no edit lost or repeated; all are acknowledged |
| conversation model of the desktop client and of the robots (`model/wavelet.cpp`, `blip.cpp`, `blipthread.cpp`) | blips and threads, the order of roots, documents not listed yet | rebuild from the conversation document, new blip, reply, type | shows what the documents say, in whatever order they change |
| robot framework (`robots/`) | as the client, but local operations are applied when they are submitted | answer from within a signal | every new blip is answered, on top of what has been committed |
| text field of a blip (`waveclient/view/otadapter.cpp`) | QTextDocument with carets, cursors | changes of the view, mutations of the document, carets | field and document hold the same text in the same formats |
| client connections (`network/clientconnection.cpp`, ...) and index wave (`clientindexwaveactor.cpp`) | participant, subscriptions | open, submit, notify, die | order of requests; everybody is told of his wavelets, and only once |
| long-poll connections (`fcgi`) | response queue, pending request, sequence numbers, idle time; records and requests read so far | request, reply, acknowledge, death notice, records | every response once, in order; a live client is not declared dead; requests whole |
| remote wavelets (`model/remotewavelet.cpp`, `network/xmpp*actor.cpp`) | as a hosted one, but fed by another server | update, history request, submit | applies the host's deltas in the host's order, and fills gaps |
| XMPP connections | state of the component handshake; per server, discovery and readiness | connect, handshake, disco, error | actors waiting for readiness get an answer |
| RPC framing (`core/network/rpc.cpp`) | bytes collected so far | read, send | every message once, whole, however the bytes are cut |
| actor dispatch, wave folk | a tree of named actors | look up, create | a message finds its receiver, in the order of posting |
| certificates and signatures | tables filled at start | look up, verify, post the signer | a submit is not refused for a signer that was posted |
| web client (`webclient/javascript`) | its own port of the OT and of the client | | a second implementation of the same contract |
| gadgets, inbox, settings of the Qt client | widgets | | no protocol of their own |
| tools | | generate code and documentation | not part of the running system |

Interactions. A client's submit reaches `ClientConnection`, which starts a
`ClientSubmitRequestActor`, which sends a `LocalSubmitRequest` to the wavelet,
which starts a `SubmitRequestActor`. That actor enters the critical section,
checks the delta's base version against `m_deltas`, transforms the delta, posts
it to the `Store`, and *yields* until the `PersistAck` or a 10 s timeout; then it
applies the delta, notifies the subscribers, answers and leaves. `InitActor`
keeps the section closed until it has replayed what the store has. The client
recognises its own delta in the stream of updates as the acknowledgement, and
transforms everything else against its queue. A wavelet whose participants have
another server sends its deltas there as XMPP stanzas, over a connection that is
first made by discovery; that server applies them to its copy, and asks for the
history if it finds a gap. A new participant gets a notification, on which his
connection subscribes to the wavelet's digest, and its content if the wave is
open.

Hard behaviours: the check and the application of a delta are separated by a
yield; the lock is handed over by a posted event; timeouts do not revoke what
has been posted; a crash may fall between log, RAM and answer; a delta may fail
halfway through its operations; both sides transform concurrently and must
agree; the client's acknowledgement is inferred, not sent; connections break and
nothing is resent; subscribing, asking the store and being invited race each
other; stanzas from a peer arrive before and after discovery has named its
connection; listeners of a signal send from within it. The list, with lines, is `hazards` in `PROJECT.json`.

## 2. The modules

| module | models | uses |
|---|---|---|
| `CriticalSection` | the lock, the posted events, `InitActor`'s two ends, restart | |
| `WaveletHistory` | `checkHashedVersion`, `apply` (whole and partial) and replay as functions of the in-memory history | |
| `DurableHistory` | abstract: what a hosted wavelet promises its submitters | |
| `LocalWavelet` | submit from arrival to answer, store, log, crash, replay | extends `CriticalSection`, `WaveletHistory`; implements `DurableHistory` and `CriticalSection` |
| `DocumentMutation` | mutations, `xform`, `StructuredDocument::apply` | |
| `MutationXform` (`MCMutationXform`) | the loop of `xform`, a round per step, over the pairs `tests/randomot` draws | extends `DocumentMutation` |
| `OTSystem` (`MCOTSystem`) | clients, connections, and the wavelet that transforms, applies and broadcasts | extends `DocumentMutation` |
| `Editor` (`MCEditor`) | the text field of a blip, its carets and formats, and the `OTAdapter` between it and the document | extends `DocumentMutation` |
| `ConversationView` | blips and threads out of the conversation document, in the client and in the robots | extends `DocumentMutation` |
| `Robot` (`MCRobot`) | a robot that answers blips, a user's client, somebody else's, and their host | extends `ConversationView` |
| `LongPoll` (`MCLongPoll`) | a browser's session: `FCGIClientConnection`, `FCGIRequest`, the cleanup timer, `rpc.js` | |
| `Rpc` | the framing of the client protocol | |
| `Fcgi` | the records in which the web server hands on requests | |
| `Sessions` | connections that come and go, index wave, invitations, digests, subscriptions, participant index, restart | instance of `Rpc` and of `Fcgi` |
| `Federation` | host and copy of a wavelet: handshake, discovery, updates, history, submits, restarts | extends `WaveletHistory` |
| `CriticalSection_proofs`, `LocalWavelet_proofs`, `Federation_proofs`, `LongPoll_proofs`, `OTSystem_proofs`, `Sessions_proofs` | theorems | each extends the module it is about |
| `Invitations_proofs` | the last theorem about `Sessions` | extends `Sessions_proofs` |
| `SequenceLemmas` | lemmas about sequences and induction | used by the proofs |

### CriticalSection
`m_actor`, `m_queue`, `m_enabled` are the class's members; `posted` are the
actors with an undelivered `EnterCriticalSection` event; `inside` those that
execute behind `tryEnter` or the yield. `Arrive` is an actor's first event,
`Resume` the delivery of its event, `Depart` an event that ends in `leave()`.
`InitSucceeds` and `InitFails` are the ends of `Wavelet::InitActor`; the second
one leaves the section closed for good, as the TODO at `wavelet.cpp:515` says.

### LocalWavelet
One action per event: `SubmitRequest` (up to the first yield), `SubmitEnters`
(the section is handed over), `SubmitApplies`, `SubmitMisapplies` and
`SubmitTimesOut` (the three ends of the second yield), `StorePersists` (the
store handles one message), `ReplaySucceeds`, `ReplayFails`, `ReplayTimesOut`,
and `Crash`. Abstractions:

- A delta is `[id, base, ops, fits]`. Its operations matter only by their number
  (each advances the version by one) and by whether they fit the documents.
- The rolling SHA-256 is the sequence of the ids that went into it: equal hashes
  mean equal histories.
- A wavelet answers for its own deltas only. All wavelets share one log in the
  code; the model's log holds one wavelet's records. What a foreign record can
  do (one that is refused stops the replay for all) is listed as a hazard.
- `announced` is a history variable: the hashed versions somebody has been told.
  Bases of new deltas are taken from it, so every client acts on what it knows.

`DurableHistory` is the promise without locks, stores and crashes. Its `Commit`
is refined by the write to the log, and `history` by *what a restart would read
back*, so the refinement itself says that no crash takes a commit back.

### DocumentMutation, MutationXform
Documents are sequences of characters, start tags with attributes, and end tags.
`XformStep` is one round of the loop. The code has ten `xform...` functions that
each switch over the other component; by type they fall into: an insertion
(`InsertFirst`, and the mirror image), an annotation boundary (`AnnotateFirst`,
and `AnnotateSecond`, the function called with its arguments exchanged and
`twisted` set), two components that consume what they stand on (`Consume`, after
both have been cut to the shorter one), and sixteen meetings of attribute
changes and deletions (`Meet`). `anno1` and `anno2` are the annotations either
mutation is changing at the place the loop has come to. The annotations of a
document are a list of their own (`AnnotationsAfter`), one function from keys to
values per item; an empty value is none, as `value()` returns it. Of a boundary
the old values are left out: nobody compares them with the document.

`Converges` holds for the annotations of items both mutations have seen. If both
give an item the same style the code drops the end of that change on one side,
and the style runs on there (`documentmutation.cpp:349-356`); such pairs are
excepted by name (`SameRestyling`). An inserted item takes the annotations of
its neighbour in the code, and that may differ with the order; it is excepted too.

### OTSystem
A client is a record: `view` (the document), `outgoing` (`m_outgoingDeltas`),
`pending` (`m_submitPending`), `suspended`, `serverVersion`, `opened`
(`m_openWaves`), `online`, `blown` (the Q_ASSERT behind "This wave is blown up"
was reached), and the two directions of its connection. A submit is one step of
the server (`ServerCommits`, `ServerRefuses`, `ServerMisapplies`), which
`OneDeltaInProgress` and `LockSpec` of `LocalWavelet` justify. The server here does not
crash, so the version alone names a hashed version. `ServerSubscribes` may
overtake a submit sent before it: `ClientConnection` hands a submit to an actor
of its own, one event more than an open takes.

### LongPoll
`connection` is the `FCGIClientConnection` (`pendingRequest`, `outQueue`,
`sequenceNumber`, `isDead`) together with its `ClientSubmitRequestActor`,
`requests` the `FCGIRequest` objects, `events` the server's event queue. Its
methods are operators that give the connection and the events it posts (`Reply`,
`HandleRequest`, `CleanedUp`), and an action applies one of them to an event.
`browser` is `JSOT.Rpc`: `open` is `pendingRequestCount` with names, `outgoing`
the queue of one wavelet. Requests and answers are sets (`up`, `down`): they go
over connections of their own and overtake each other. What an update contains
is left out, as is login (`Sessions` has it). Of the subscriptions one matters here:
a submit ends when its answer *and* the update with its delta have come, and the
update only comes if the session is among the wavelet's `m_contentSubscribers`.
`wavelet` is what of it this needs: whether the session subscribes (not, asked,
subscribed), whether anything has been written, and `unheard`, that it was no
subscriber when its last delta was applied. A request `Asking` to open names
the wavelet, or, if a submit carries it, a wavelet of the domain `undefined`
(`WaveletOpened`, `rpc.js:216`). An update
may be too long for `FCGIRequest::write`, which then writes nothing. The one
assumption on time is that a message takes less than half of the cleanup's 30 s
(`old`).

### Editor
`document` is the `BlipDocument`, `view` the `QTextDocument` as a sequence of
glyphs, of which the carets of other users are some, with the positions of
`m_cursors`. What the user does in the view becomes a mutation by the loops of
`onContentsChange` and `onStyleChange`; a mutation from elsewhere is applied item
by item, and every signal `StructuredDocument::apply` emits changes the view.
`QTextCursor` is external: it moves with the text in front of it.

Carets are taken away (`HideCarets`) by what stands before their cursors. The code
asserts that this is the cursor's own caret (`otadapter.cpp:673`, `:870`); the
assertion fails once text is typed at a caret's place, or two carets share one.
A debug build stops there. The model goes on as a release build does, which
takes away what is there, and `taken` records what that was: another caret, or text.

`misled` records the steps of which the outcome differs: "caret", an edit whose place is
not the one without carets (`Mistaken` maps it both ways), or a deletion of which
more or fewer carets are taken off than it held; "image", somebody else's
deletion of an image; "format", text put next to bold text, which
`QTextCursor` and the document format differently, and a styled selection that
is mapped wrong or held a caret. `TextInSync` and `FormatsInSync` say that these, and
text taken away for a caret, are all; an edit behind a caret that is mapped right
is no exception, nor is a caret taken for another (section 4).

### ConversationView, Robot
`UpdateConversation` is the loop that rebuilds blips and threads from the manifest, with its
stack of objects; blips that are listed no more are deleted with their threads, a new blip
takes over the document that came before it. `status` is "undefined" once the
code uses a deleted thread; nothing is said about the view from then on. The robot's
`OTProcessor` differs from the client's: an operation is applied to the view when it
is submitted, not when it is made (`SubmitNext`). `AnswerEach` answers the signal
of a new blip, in the middle of the update that brought it. `rushed` records
that the robot has made a blip while a submit was pending, or while the rest of a
delta with changes of the manifest was still to be applied: then its operation
counts on a view that is not the one the server takes it for.
A delta counts as one version, and the robot's restart and Echoey's `blipChanged`
are left out.

### Sessions, Rpc, Fcgi
The server's state is `wavelets` (loaded, critical section enabled or not,
participants, digest, the two sets of subscribers), `store` (logs and the index
of participants) and `events`, one queue for all that is posted; an action takes
the first of them, or reads from a connection. A connection is `rpc` or `fcgi`,
the bytes read so far, and the user's session. `Rpc` is a record of the socket and
the members of `RPC`, and `Deliver` one `readyRead`; `Fcgi` the same for records.
Bounds beyond the constants: one delta is on its way at a time; what the server sends
to a client arrives when the connection has handled it; the client of the author of
the deltas is left out; the bytes of a browser's request come cut in two, at any
place, and no other request's between. `views` is what the client makes of
digests and snapshots; of the desktop client, only the first session is looked at,
since `getOnline` adds the digests it is sent again to those it has.

### Federation
`component`, `con` and `route` are the two servers' `XmppComponentConnection`,
`XmppVirtualConnection`s and the hash from names to those. `actors` are the
coroutines, a record with `step` for the `yield` they are at; an action is one
event. `wire` is what lies between the XMPP servers, which are external: they keep the
order, answer for their domain, and answer with an error for what is not there.
`causes` is a history variable, used only to except, by name, the ways in which the copy goes
wrong: an update that comes while a gap is being asked for ("overlap"), before the
copy has been replayed ("unloaded"), or with a base that is older than it is
because the host transformed the delta ("rebased").

## 3. The runs

| run | instance | shows |
|---|---|---|
| `lock` | 4 actors, restarts | `MutualExclusion`, `FifoHandover`, `NoLostWakeup`, `EveryWaiterEnters` |
| `host_faults` | 3 submits of 1 or 2 operations, misfits, one timeout, one torn record, one crash | under all faults together: `OneDeltaInProgress`, `AppliedBehindItsBase`, `AnsweredAsLogged`, and the wavelet implements `CriticalSection` (`LockSpec`) |
| `host_crash` | 3 submits of 1 or 2 operations, 2 crashes | without timeouts, misfits and torn records: the wavelet implements `DurableHistory` (`KeepsPromise`), and `EveryRequestEnds` |
| `host_misfit` | as `host_faults`, misfits only | *violation* of `AnsweredIsRecoverable` |
| `xform` | an element, two texts of 2 and 3 characters, 2 shorter documents; all pairs of mutations with up to one insertion per place, and in the texts every change of style | `Converges` (TP1), `TransformableUnlessAppending` |
| `edit` | 2 users, 2 operations each, gathering on | `ViewIsServerPlusOutgoing`, `NeverBlownUp`, `EveryEditIsAcknowledged` |
| `outage` | a new wave, 2 users, one broken connection at any point | `NoEditLostOrRepeated` |
| `poll` | one update of any length, one submit or opened wave, one broken request, 3 cleanups; or three submits and opened waves in any mixture, and nothing else | `LeaveInOrder`, `NoRequestForgotten`, `LiveSessionKept`, `EveryResponseArrives`, `SubmitsEnd` |
| `sessions` | a desktop and a browser user, 2 wavelets, 2 deltas, 2 sessions, 1 restart, bytes in any pieces | `DigestFollows`, `ContentFollows`, `NobodyIsForgotten`, `StoreIndexAgrees`, `RequestsUnbroken` |
| `federation` | host and copy, 2 deltas of which one may be the copy's, one failure or late answer, one restart | `RoutesAgree`, `ReadyIsReachable`, `SubscribersCounted`, `AnsweredIsCommitted`, `CopyIsPrefixUnless`, `EverySubmitIsAnswered`, `CopyCatchesUp` |
| `editor` | a line with a letter and an empty line, 2 other users, 3 changes | `TextInSync`, `FormatsInSync` |
| `robot` | a user with two blips and a character, a client that removes one, a robot | `ViewShowsManifest`, `UserSeesHistory`, `RobotSeesHistory`, `EveryBlipIsAnswered` |

Bounds, and why they are enough. The lock needs one owner, one waiter, and two
more to see an order and an overtaking. Three submits let one be persisted while
a second one waits and a third is based on either; two operations per delta are
enough for a gap in `m_deltas`; two crashes let the second one fall on what the first
recovered. One torn record is enough, since the replay stops there: everything
behind it is the same to the reader. A round of `xform` looks at one component
of each mutation; documents with an element around a character and with two
characters let every pair of component types meet and let lengths differ on
both sides. A change of style needs three characters to begin inside
another one and end behind it. Two clients are enough for every pairing of a local and a remote
operation, and two operations each for one in flight and one queued behind it;
`outage` gives one user three, so that an in-flight delta, a gathered one and a
broken connection meet. In `poll` one submit makes two responses and two
requests, which with an update and the pull are enough for a queue of
two and for a request that replaces another; it takes three cleanups to delete
a session that was pulling. In its other budget (`MCBudgets`) one act opens the wavelet, one is a submit,
and one a submit that is queued behind it. In `federation` one delta makes the connection and the
first update, the second one finds a gap, crosses the first or is a submit; more
of either only repeats them. In `sessions` a user is invited by one delta
and removed, or told of a change, by the other; one session is old and one new; a second event that waits is
reached through what the first one posts. Three changes in `editor` let a caret
come, be moved and be edited around. `CHECK_DEADLOCK FALSE` stands in the configurations in
which the system comes to rest: all submits have been made, or all edits.

Fairness. In `CriticalSection`, posted events are delivered and an actor that is
inside leaves: all paths through the `execute()` methods end in `leave()`, the
10 s timeouts included. In `LocalWavelet`, `HostFairness` is weak fairness of
`Deliver`: Qt's event loop delivers what has been posted. No timeout, crash or
new submit is fair; a submit that waits behind a failed replay waits for ever,
and `EveryRequestEnds` says so. In `OTSystem`, `EventLoopsDeliver` says the same
of the two ends of a connection; it is weak fairness with its ENABLED spelled out
(`Owed`), which TLC evaluates much faster, and so is `Robot`'s. There are no outages in
that run, since the code makes no promise there (below), and a refused submit is
excepted. In `LongPoll` it is weak fairness of `Serve`: the event loops, the
network and the wavelet go on with what is under way. In `Federation`,
`FedProgress` adds the timers of waiting actors, which do fire; failures,
restarts and clients are not fair. Every other action is bounded, so nothing
can be put off for ever.

## 4. What the checks found

A violation that contradicts a sentence of the repository (`findings`):

- **`host_misfit`** A delta with an operation that does not fit is persisted
  before it is applied. RAM stays at the old version, the store's chain moves on,
  and the next delta is refused by `Store::writeToMemory`, which only logs; the
  sender is still told "accepted and committed". After a restart the delta, whose
  client got an ok, is gone.

Met while modelling, and stated here without a run of their own:

- `OTProcessor::handleReceive` tells acknowledgements by the author
  (`otprocessor.cpp:146`). A user with two sessions has both send deltas under his name; the
  session that has a submit pending takes the other's delta for its own, drops the pending one
  from its queue, and from then on shows a document nobody else has. The runs and the theorem
  about `OTSystem` are for users with one session each.
- A submit of the web client that is to open its wavelet names it by
  `url.wavletDomain` (`rpc.js:216`), which does not exist. The server
  subscribes the session to a wavelet of the domain `undefined`; the update the submit
  waits for never comes, `pendingSubmitUrl` stays set and nothing is submitted any more.
  `jsot.js:479` describes exactly this use. `SubmitsEnd` excepts it: it holds
  of a delta that was applied when the session was a subscriber (`unheard`).
- `mapToBlip` skips a caret whose cursor is in front of it (`otadapter.cpp:564`);
  `mutationEnd` leaves the cursor behind it. The caret is counted as a character, and
  an edit behind it changes the document one item too far (`misled`, "caret").
- Text typed at the place of another user's caret comes between the caret and its
  cursor. Two seconds later, or at the next mutation, the assertion
  `caretOwner(c->m_textCursor) == c->m_participant->address()` fails
  (`otadapter.cpp:673`, `:870`); so it does when two carets share a place. A release build deletes the
  typed character from the view, or another user's caret (`taken`). With `taken = {}` for an
  invariant TLC shows it in the instance of run `editor`.
- A rejected submit, and one lost with its connection, leaves `m_submitPending`
  set for ever (`networkadapter.cpp:149` ignores the response; `getOnline` opens
  and submits nothing): `EveryEditIsAcknowledged` excepts it.
- A delta of two operations at version v leaves a null entry at v.
  `checkHashedVersion` refuses bases that fall on a null entry, so v, which has
  been announced, is no longer a base: whoever edited at v is refused.
- `MainWindow::newWave` submits and then opens the wave. If the subscription is
  handled behind the submit, the client takes the first delta of the snapshot
  for its acknowledgement and runs into `Q_ASSERT(false)`, or applies the
  document a second time.
- After a timeout or a misfit, RAM and the store differ; a later delta may be stored behind
  a history that its author has never seen. The replay of such a chain fails,
  and a wavelet whose replay fails is closed for good (`ReplayFails`).
- `wavelet.h:219` says positions in `m_deltas` reflect version numbers; with
  several operations per delta they do not.
- Offline, `handleSend` never gathers, so the queue outgrows the three deltas
  the comment at `otprocessor.cpp:127` promises.
- The web client throws on a submit that failed and on an answer that is no
  response, such as the one of a broken request, and never pulls again; its session is then
  deleted, together with what is queued for it. `LiveSessionKept` and the liveness properties except it.
- `client_ack` and `server_ack` are exchanged and never used: a response lost with its
  request is not sent again, and
  the browser does not look at the order of the numbers it gets.
- A request that arrives while its session is being deleted is never answered.
- A response of more than 65535 bytes is not written, and the browser throws on
  the empty answer. An aborted request stays in `m_reqMap` until it is answered;
  one that is aborted before it is complete posts no death notice.
- A mutation that appends behind the last item, or changes an annotation up to
  it, cannot be transformed against any other (`TransformableUnlessAppending`);
  `tests/randomot` never draws one, and never an annotation.
- Two users who give one character the same style leave the two documents
  different behind it (`SameRestyling`).
- Federation. `isReady()` is true before the handshake is over, and a discovery
  that starts then is lost; a peer whose component is not there when discovery
  asks is never ready; after an error actors wait for a readiness nobody restores.
  Their clients hear "Timeout" from `ClientSubmitRequestActor`. An update is
  receipted before it is applied. A late answer from the domain's JID makes a
  ready connection that was not discovered. Certificates are only in RAM: a host that
  has restarted silently refuses a peer that has posted its signer.
- Sessions. A desktop client that reconnects adds digests and contents it has
  to themselves; content that comes before the first digest is ignored and lost
  (`clientconnection.cpp:236`, `networkadapter.cpp:129`). `unsubscribeAllClients`
  compares a connection's group with a user's address, so a removed user stays
  subscribed. A replay notifies users who were removed later. `writeToMemory`
  adds, then removes, whatever the order in the delta. An FCGI subscription does not
  load a wavelet, and an `openRequest` is not among `m_subscriptions`; a
  connection that is destroyed leaves its subscriptions behind. A query for the
  updates of an empty wavelet is answered twice.

## 5. What is proved

For any set of actors, any operation counts, any users and clients, and any number
of deltas, edits, requests, updates, faults and restarts:

| theorem | says |
|---|---|
| `LockTyping`, `LockMutex`, `LockNoLostWakeup`, `LockNoEarlyEntry`, `LockFifo` | `LockSpec` implies the lock's type invariant, its three safety invariants, and the action property `FifoHandover` |
| `HostImplementsLock` | `HostSpec => LockSpec`: every step of the wavelet is a step of the lock or leaves it alone |
| `HostOneDelta` | `[]OneDeltaInProgress` |
| `HostAnsweredAsLogged` | `[]AnsweredAsLogged` |
| `HostAppliedBehindItsBase` | `[]AppliedBehindItsBase`, with every fault there is |
| `HostTyping` | `[]HostTypeOK`; with it `m_deltas` has one entry per version |
| `HostAnsweredIsRecoverable` (`OnlyCrashes`) | `[]AnsweredIsRecoverable`, which run `host_misfit` refutes in general |
| `HostKeepsPromise` (`OnlyCrashes`) | the wavelet implements `DurableHistory` |
| `FedRoutesAgree`, `FedReadyIsReachable` | `[]RoutesAgree`, `[]ReadyIsReachable` |
| `FedSubscribersCounted` | `[]SubscribersCounted` |
| `FedAnsweredIsCommitted` | `[]AnsweredIsCommitted` |
| `FedCopyIsPrefix` | `[]CopyIsPrefixUnless`: late and lost stanzas, gaps, restarts |
| `PollLeaveInOrder`, `PollNoRequestForgotten`, `PollLiveSessionKept` | the three safety invariants of `LongPoll` |
| `NothingIsLostOrRepeated` (`OneSessionEach`) | `[]NoEditLostOrRepeated`, with any outages and refusals |
| `RequestsAreUnbroken` | `[]RequestsUnbroken`: bytes and records in any pieces |
| `StoreIndexIsRight` | `[]StoreIndexAgrees`: any deltas, loading on demand, restarts at any moment |
| `NobodyIsLeftOut` | `[]NobodyIsForgotten`: listings, invitations and removals under way at once, reconnects, restarts |

Assumptions: `NoActor` is not an actor; operation counts are positive; the fault
bounds are naturals (their values do not matter); a torn record is not a delta.
For the federation, there are finitely many users, `Nobody` is none of them, and
`NoConnection` is not the name of a connection. For the long poll, `None` is not
the number of a request; for the sessions, those with
a browser are users, the bounds are naturals, and no user has the name of a
connection (a pair of a user and a number; `unsubscribeAllClients` compares the two); for the clients, `NoDelta` is not a delta and `Nobody` not a
client. Two theorems are about a host on which nothing fails but
the process itself: `OnlyCrashes` says that no record is torn, no submit times out
and every delta fits its document. Run `host_crash` has exactly these faults; run
`host_misfit` shows that a delta that does not fit is enough to break the promise.
The theorem about `OTSystem` supposes that no user has two sessions
(`OneSessionEach`), since the client tells acknowledgements by their author
(section 4). Who makes a wave may take the snapshot for the
acknowledgement (section 4), which has no effect on it, as his delta is then in the snapshot.

**The lock.** `MutualExclusion` is not inductive: an actor in `posted`
will be inside after `Resume`. `LockIInv` therefore says that
whoever is inside or has an event on the way is the recorded owner, that an
enabled section without an owner has an empty queue (so that every waiter has
an owner ahead of it), and that a section is disabled, and has no owner, until the
replay has succeeded.

**The hosted wavelet.** `Phases` ties `pc` to the lock: an idle actor is
outside, a persisting one inside. That makes every `SubmitRequest` a legal
`Arrive`, hence `HostImplementsLock`, and mutual exclusion gives
`HostOneDelta`. `Records` then says of every record of a persisting actor, in the mailbox or in
the log, that it carries the version the wavelet still has, and of every
answered one that the answer is its end version; `SubmitApplies` moves an actor
from the first to the second. Crashes and timeouts only remove actors from
"persisting" or records from the mailbox, never records from the log.

`AppliedBehindItsBase` needs to know what a check against the history is worth
when the delta is applied, one store's answer later. `Behind` says that the base
of a persisting actor is a beginning of the history (it was when it was checked,
and the section has kept everybody else out since), that every hashed version
remembered in `m_deltas` is that of a beginning of it (`Remembers`), and that the
same is true of what a replay makes of the store's memory: `ReplayRuns` is an
induction over the stored deltas, each of which either fits behind its base or ends
the replay.

For recovery, `Synced` follows one delta through its three places: in the mailbox,
with log, store and wavelet equal (`Sent`); in the log, with the wavelet one delta
behind and the ack on its way (`Acked`); applied, and equal again. `Chained` says
that each record of the log begins where the previous one ends, so that
`ReadLog`, which stops at the first that does not, returns the whole log
(`ChainedIsRead`, by induction over it), and `ReplayIsLog` that the replay does so
too. Then `committed` of `DurableHistory` is `IdsOf(commitLog)`: `StorePersists` is
its `Commit`, the answer its answer, and every other step, crashes included, a
stutter.

**The federation.** A discovery renames the connection it was created
with, and reports it ready only later, so `LinkInv` has to know what a discovery may
assume when its answers come: it is the only one of its server
(`OneDiscovery`, since an actor group is created with its connection and a
connection is created only where none is routed to); until the items have come
its connection still has the domain's name, is not ready and is routed to as
the domain; and actors and routes lead to connections that exist
(`LeadsSomewhere`). Every other step leaves the routes alone and makes no
connection ready (`KeepsLinks`), or only adds one (`ActorsCreated`). For the
count, `ChangesOne` says of every delta that is on a wire or held by an actor
that it does not add and remove at once; without it a delta that adds and removes the same
user would be counted and leave nobody.

`AnsweredIsCommitted` is carried by `AnswersHonest`: a message that says "ok",
wherever it is, has as its key the number of a delta the host has
stored; a submit names its delta in its key; and an actor that waits for an answer
knows the number it asked for, so that a late answer to an earlier actor, or
one that a broken connection bounces, is never taken for its own. Commits only add to
what is stored, and a restart of the host keeps it.

`CopyIsPrefixUnless` is carried by `ExchangeInv`. Deltas are numbered once, when
they are made (`Numbered`). While none of the exceptions has happened (`Clean`), an update
is to be sent, on the wire, or being looked at, and only one of these (`Once`); no more than
one is looked at (`Alone`); what the copy holds and has queued is how the host's
history begins (`CopyFits`), and what may still reach it lies beyond that (`Ahead`).
Updates can overtake each other, since each waits for a discovery of its own
accord: `SentOrder` says that the ones overtaken still have their event, and
`HistoryOrder` that they are sent before the deltas that the copy asks
for to close the gap, so that each either comes while the gap is open, which is
the exception "overlap", or never. The deltas asked for are then the next of the host's
history.

**The long poll.** A number is given when a response is made, and the response
travels as an event; updates that find no pending request wait in `outQueue`.
`NumbersGrow` therefore orders what has left, what is in the event queue and what is in
`outQueue`, one behind the other, and says that nothing waits while a request
is pending. `RequestsKept` is inductive once a request is known to be
sent, and to arrive, once only (`SentOnce`), and a death notice only to speak of a
request that is over (`DeathsAreReal`). `LiveSessionKept` is the hard one, since
the cleanup deletes a session that was suspected a round ago: `SuspectIsSaved` says that
between the two rounds something from before the first (`old`) is still under way and will
reset `m_isDead`, or brings about a request that does; `OpenIsSomewhere` supplies the
first of them, the browser always having an open request unless it has stopped.

**The clients.** The proofs do not look into the transformation; they count. `MovedLength`
says that a delta has as many operations after it was moved past others,
`RegroupedLengths` and `GatheredTotal` that a queue has, and that the delta that has
been submitted is left alone. So every operation a client has made is in the history
or in its queue (`Unacked`), or else its submit is committed and the
head of the queue is counted twice until the acknowledgement comes (`Acked`).
`SubmitCounted` says that while a submit is on the wire the first of these holds, the
submit has the operations of the head of the queue, and nothing in the inbox
is by the client's own user; `InboxCounted` that otherwise there is at most one such update, and
that a pending client that gets it is in the second state. A broken connection
empties both wires, which makes these hold of nothing. The snapshot is the hard
case: `Subscribed` says that an open request under way belongs to a client that
has nothing, or to the maker of the wave, whose submit either is still ahead of it
or is committed.

**The connections.** `RequestsUnbroken` speaks of what has been handled and of what
is held back; neither is known without the other. `SocketsUnbroken` says of a desktop client that
what `RpcConnection` has read of a length, of a body, what is unread, and what is
still on the wire are, one behind the other, the bytes of exactly those of the sent requests
that have not been received (`Reads`), and that `readBytes` only rests
where something is missing. `ReadLength` and `ReadBodyReads` are the two halves
of `readBytesIntern`, `ReadBytesReads` the loop, by induction over the bytes. Of a browser it says
that no request is open between two, or that its record parser has handled the
first k of five records and still has to come by the others (`ToCome`);
`RecordParsed` says that a record is parsed for as long as it is whole, whatever comes behind
it, `DispatchedKeeps` what each of the five does to the request, and `AllProcessed`
that after the fifth one the request is complete. `HandleAllHandles` is the
induction over the requests that one arrival may complete.

**The index.** `StoreIndexAgrees` compares two things that different code computes from the same
deltas: the store, which enters a delta's users when it is written and again when
the log is read, and the wavelet, which changes its participants one operation after
the other, later, and anew when it is loaded. Both are compared with the log.
`IndexSays` is what the log says of a user: some delta adds him and does not remove
him, and no later one removes him. `StoreOK` says that the store's lists are that,
before and after a restart (`PersistKeeps`, `RestartRemembers`). A wavelet
`Agrees` with its log but for users whom the last delta about them removes and
adds (`AgreesFurther`; `Follows` is what one delta does to the participants, by
induction over its operations). When it does so depends on where it is: not
there, waiting for its history, empty, or occupied by one actor, whose delta may be
in the log and not yet applied (`Steady`). That it is in one of these four is the
hard part, for posting never waits: a wavelet is occupied exactly while one
event, an entry, a message to the store or its answer, is in the queue that lets its actor
go on, and waits for its history exactly while the request or the answer is (`Token`, `Only`).
So no operation may post a second such event, which takes a lemma for each
(`LeavesKeeps`, `EntersKeeps`, `ReplayKeeps`, ...), and any number of
other events must not matter (`Quiet`). An idle server has an empty queue, so a
wavelet that is enabled is empty, and agrees.

**The invitations.** `NobodyIsForgotten` is about two ways of being told: the list the
store is asked for once, and the notification of who becomes a participant. Each may miss a
user, and the other must not then. `Owes` names the events that will see to a
subscription: the listing on its way to the actor, to the store, and back; the
notification; the subscribing message on its way to the wavelet, to its actor, and into
its section; and the delta that is in the log, not yet applied, and
will make the user no participant. `Due` adds the actor that waits in the
critical section. `PromisesKept` says that every participant who has been heard is
subscribed, or it is due to him. Where the store answers, `StoreIndexAgrees` is
needed, in the middle of things: a participant who is not in the store's list is one whom the
delta about to be applied removes, or one whom some delta has removed and added
(`ListingSays`). Most steps
deal with another user, or another wavelet, and must not undo what is due: `Grows` says
that a step loses no event but the one it deals with, no subscriber but one whose
connection is gone, and nobody who waits, and that it notifies whom it makes a participant; there
is one lemma for each operation (`GrowsLeaves`, `GrowsOps`, `GrowsReplay`, ...).
That needs `Tidy`: who unsubscribes is gone for good (sessions are numbered), and a
message in the queue finds its wavelet in RAM. An idle server has no events, and nobody waits in a
section that is free (`Stuck`), so that of all this only the subscription is left.

Induction. The library's induction theorems take an operator as a parameter and
cannot be instantiated here. `SetInduction` states induction for a set of
numbers, `RecursionExists` the existence of a run of a
step function; both come from `WFMin`, which speaks about sets, and
with them `SequenceLemmas` reaches the recursive functions of `ReadLog`, the replay
and the removal of events from a queue, and what `FlattenSeq` does to lengths
(`FlattenSum`).

Only model-checked, and why:

- liveness: fairness and ENABLED are out of reach of the prover;
- `DocumentMutation`, `MutationXform`, `Editor`, `ConversationView`, `Robot`, and
  of `OTSystem` `ViewIsServerPlusOutgoing` and `NeverBlownUp`: they rest on the
  convergence of the transformation, an induction over
  pairs of mutations of any length;
- `DigestFollows`, `ContentFollows` of `Sessions`: they speak of what a client
  has seen together with all that is posted to it (`SelectSeq`, recursive through an
  operator, for which the provers have no facts).

## 6. Not modelled, and the plan

Next, in this order:

1. **Shared log**: several wavelets on one store; a record that one of them
   refuses stops the replay for all (`store.cpp:20`).
2. **Web client's OT**: `jsot.js` as a second implementation of
   `DocumentMutation`, and what updates that overtake each other do to it
   (`rpc.js:344`).
3. **Robots**: restart, several robots, the other handlers of the sample robots;
   participants and attachments in the conversation.
4. **XML streams** of the XMPP component, cut into any pieces, as `Rpc` has it
   for the client protocol.
5. **Proofs**: `DigestFollows` and `ContentFollows`; the federation with several
   peers.

Left out for good: cryptography (library calls); the JSON and protobuf
converters (field by field copies); gadgets, images' pixels, inbox and settings
of the user interfaces; the web client's editor, which is tied to the browser's
DOM; the code generators; the deployment scripts.
