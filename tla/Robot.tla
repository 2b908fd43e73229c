-------------------------------- MODULE Robot --------------------------------
(***************************************************************************)
(* A robot in a conversation: the robots' OTProcessor, which applies its   *)
(* own operations only when it submits them, the NetworkAdapter that feeds *)
(* it, and the signal of a new blip, which a robot such as Echoey answers  *)
(* with a follow-up blip before the signal returns                         *)
(* (src/robots/model, src/robots/network, src/robots/echoey).  With it,    *)
(* the wavelet's host, a user of the desktop client (module                *)
(* ConversationView), and somebody else's client that removes a blip.      *)
(*                                                                         *)
(* The user acts when his client has seen everything: what two clients do  *)
(* at once is the subject of module OTSystem.  A delta counts as one       *)
(* version.  After an operation that does not fit the host stops: what it  *)
(* does then is shown by module LocalWavelet.                              *)
(***************************************************************************)
EXTENDS ConversationView

CONSTANTS
    UserBlips,      \* the ids the user's client draws, in order
    RobotBlips,     \* the ids the robot draws, in order
    MaxTyped,       \* how many characters the user types
    MaxRemovals     \* how many blips the other client removes

ASSUME RobotAssumption ==
    /\ MaxTyped \in Nat /\ MaxRemovals \in Nat
    /\ ToSet(UserBlips) \cap ToSet(RobotBlips) = {}

VARIABLES
    host,       \* deltas, the documents as a view has them, whether one misfitted
    user,       \* the user's client: its view, how much of host.log it has seen
    robot,      \* the robot's OTProcessor and view
    inbox,      \* updates on their way to the robot
    submits,    \* submits on their way to the host
    budget      \* what the user and the other client have done

robotVars == <<host, user, robot, inbox, submits, budget>>

-----------------------------------------------------------------------------
(* Operations of deltas: WaveletDeltaOperation::xform and its loops.        *)

OfDoc(doc, x) == [ok |-> x.ok, theirs |-> Op(doc, x.r1), own |-> Op(doc, x.r2)]

OpXform(theirs, own) ==
    IF theirs.doc # own.doc THEN [ok |-> TRUE, theirs |-> theirs, own |-> own]
    ELSE OfDoc(own.doc, Xform(theirs.mutation, own.mutation))

Crossed(moved, x) ==
    [ok |-> moved.ok /\ x.ok, theirs |-> Append(moved.theirs, x.theirs), own |-> x.own]

OpPast(theirs, own) ==
    LET after[i \in 0..Len(theirs)] ==
            IF i = 0 THEN [ok |-> TRUE, theirs |-> <<>>, own |-> own]
            ELSE LET step(moved) == Crossed(moved, OpXform(theirs[i], moved.own))
                 IN  step(after[i - 1])
    IN  after[Len(theirs)]

AllCrossed(moved, x) ==
    [ok |-> moved.ok /\ x.ok, theirs |-> x.theirs, own |-> Append(moved.own, x.own)]

OpsPast(theirs, own) ==
    LET after[i \in 0..Len(own)] ==
            IF i = 0 THEN [ok |-> TRUE, theirs |-> theirs, own |-> <<>>]
            ELSE LET step(moved) == AllCrossed(moved, OpPast(moved.theirs, own[i]))
                 IN  step(after[i - 1])
    IN  after[Len(own)]

Concat(queue) ==
    LET after[i \in 0..Len(queue)] ==
            IF i = 0 THEN <<>> ELSE after[i - 1] \o queue[i]
    IN  after[Len(queue)]

\* The deltas of a queue, made of ops again.
Regrouped(queue, ops) ==
    LET before(i) == Len(Concat(SubSeq(queue, 1, i - 1)))
    IN  [i \in DOMAIN queue |-> SubSeq(ops, before(i) + 1, before(i) + Len(queue[i]))]

-----------------------------------------------------------------------------
(* The robot's OTProcessor: the record after the method.  "rushed" records   *)
(* that the robot has made a blip while a submit was pending, or while the   *)
(* rest of a delta with changes of the manifest was still to be applied.     *)

SubmitNext(cl) ==
    IF cl.out = <<>> \/ cl.suspended THEN cl
    ELSE [cl EXCEPT !.view = MutateAll(@, Head(cl.out)),
                    !.pending = TRUE,
                    !.sent = Append(@, [base |-> cl.version, ops |-> Head(cl.out)])]

GatherOutgoing(queue, pending) ==
    IF Len(queue) <= 1 \/ (Len(queue) <= 2 /\ pending) THEN queue
    ELSE Append(Front(Front(queue)), Last(Front(queue)) \o Last(queue))

HandleSend(cl, op) ==
    LET queued == [cl EXCEPT !.out = Append(@, <<op>>)]
    IN  IF ~cl.pending /\ ~cl.suspended THEN SubmitNext(queued)
        ELSE [queued EXCEPT !.out = GatherOutgoing(@, cl.pending)]

SuspendSending(cl) == [cl EXCEPT !.suspended = TRUE]

\* Mutated form: what has been queued meanwhile stays there.
ResumeSendingOnly(cl) == [cl EXCEPT !.suspended = FALSE]

ResumeSending(cl) ==
    LET resumed == [cl EXCEPT !.suspended = FALSE]
    IN  IF cl.suspended /\ ~cl.pending THEN SubmitNext(resumed) ELSE resumed

\* createFollowUpBlip of a robot: its manifest operation counts on a view that
\* does not have what is queued.
SendPlace(cl, blip, id) == HandleSend(cl, PlaceFollowUp(cl.view, blip, id))

\* While a submit is pending the new blip is not in the view at the end, and
\* Q_ASSERT(b) stops a debug build; this is the release build, and `rushed`.
CreateFollowUpBlip(cl, blip) ==
    LET begun == [SuspendSending(cl) EXCEPT !.ids = Tail(@), !.rushed = @ \/ cl.pending]
        id == Head(cl.ids)
    IN  ResumeSending(SendPlace(HandleSend(begun, Op(id, NewBody)), blip, id))

\* newBlipAdded, once for each new blip that is not the robot's own.
AnswerEach(cl, new) ==
    LET after[i \in 0..Len(new)] ==
            IF i = 0 THEN cl
            ELSE LET answer(c) == IF c.view.status = "undefined" \/ c.ids = <<>> THEN c
                                  ELSE CreateFollowUpBlip(c, new[i])
                 IN  answer(after[i - 1])
    IN  after[Len(new)]

\* One operation of a delta, with the slots its signals call; rest is what
\* comes behind it.
Signalled(cl, m, rest) ==
    LET early == m.new # <<>> /\ \E i \in DOMAIN rest : rest[i].doc = Manifest
    IN  AnswerEach([cl EXCEPT !.view = m.view, !.rushed = @ \/ early], m.new)

ApplyReceived(cl, op, rest) == Signalled(cl, MutateDocument(cl.view, op), rest)

ApplyAll(cl, ops) ==
    LET after[i \in 0..Len(ops)] ==
            IF i = 0 THEN cl
            ELSE ApplyReceived(after[i - 1], ops[i], SubSeq(ops, i + 1, Len(ops)))
    IN  after[Len(ops)]

ApplyTransformed(cl, x) ==
    IF ~x.ok THEN [cl EXCEPT !.blown = TRUE]
    ELSE ApplyAll([cl EXCEPT !.out = Regrouped(@, x.own)], x.theirs)

\* Everything in the queue is transformed, what the view does not have as well.
HandleReceive(cl, d) ==
    IF cl.blown THEN cl
    ELSE IF cl.pending /\ d.author = "robot"
    THEN ResumeSending([cl EXCEPT !.out = Tail(@), !.pending = FALSE])
    ELSE ApplyTransformed(cl, OpsPast(d.ops, Concat(cl.out)))

SetResultingVersion(cl, version) ==
    IF version <= cl.version THEN cl ELSE [cl EXCEPT !.version = version]

\* NetworkAdapter::messageReceived: the version of the update first.
ReceiveUpdate(cl, update) ==
    LET told == SetResultingVersion(SuspendSending(cl), update.version)
        after[i \in 0..Len(update.deltas)] ==
            IF i = 0 THEN told ELSE HandleReceive(after[i - 1], update.deltas[i])
    IN  ResumeSending(after[Len(update.deltas)])

-----------------------------------------------------------------------------
(* The host. *)

\* The host has every document as it is, like a client that knows no blip yet.
SetDoc(docs, doc, applied) ==
    [ok |-> applied.ok,
     docs |-> IF doc = Manifest THEN [docs EXCEPT !.doc = applied.doc]
              ELSE [docs EXCEPT !.unknown = Put(@, doc, applied.doc)]]

Applied(s, op) ==
    IF ~s.ok THEN s
    ELSE SetDoc(s.docs, op.doc, ApplyMutation(Text(s.docs, op.doc), op.mutation))

ApplyOps(docs, ops) ==
    LET after[i \in 0..Len(ops)] ==
            IF i = 0 THEN [ok |-> TRUE, docs |-> docs] ELSE Applied(after[i - 1], ops[i])
    IN  after[Len(ops)]

Committed(h, author, ops) ==
    [h EXCEPT !.log = Append(@, [author |-> author, ops |-> ops]),
              !.docs = ApplyOps(h.docs, ops).docs]

ToRobot(author, ops) ==
    IF robot.opened
    THEN Append(inbox, [deltas |-> <<[author |-> author, ops |-> ops]>>,
                        version |-> Len(host.log) + 1])
    ELSE inbox

\* Mutated form: starts behind the first delta the robot has not seen.
OpsBehind(base) ==
    Concat([i \in 1..(Len(host.log) - base) |->
                IF i = 1 THEN <<>> ELSE host.log[base + i].ops])

OpsSince(base) ==
    Concat([i \in 1..(Len(host.log) - base) |-> host.log[base + i].ops])

Fits(moved) == moved.ok /\ ApplyOps(host.docs, moved.own).ok

TakeMoved(moved) ==
    IF Fits(moved)
    THEN /\ host' = Committed(host, "robot", moved.own)
         /\ inbox' = ToRobot("robot", moved.own)
    ELSE /\ host' = [host EXCEPT !.status = "misfit"]
         /\ inbox' = inbox

HostTakesSubmit ==
    /\ submits # <<>> /\ host.status = "ok"
    /\ TakeMoved(OpsPast(OpsSince(Head(submits).base), Head(submits).ops))
    /\ submits' = Tail(submits)
    /\ UNCHANGED <<user, robot, budget>>

InsertAll(doc) ==
    [i \in DOMAIN doc |-> IF doc[i].kind = "start"
                          THEN ElementStart(doc[i].text, doc[i].attributes)
                          ELSE IF doc[i].kind = "end" THEN ElementEnd
                          ELSE InsertChars(<<doc[i].text>>)]

\* toWaveletUpdate: a delta for each document, in the order of a hash table.
Snapshots(h) ==
    LET docs == {Manifest} \cup DOMAIN h.docs.unknown
    IN  {[deltas |-> [i \in DOMAIN order |->
                        [author |-> "user",
                         ops |-> <<Op(order[i], InsertAll(Text(h.docs, order[i])))>>]],
          version |-> Len(h.log)] :
            order \in SetToSeqs(docs)}

-----------------------------------------------------------------------------
(* The robot. *)

Sends(cl) ==
    /\ robot' = [cl EXCEPT !.sent = <<>>]
    /\ submits' = submits \o cl.sent

\* waveAdded: the robot is told of the wave, and opens it.
RobotOpens ==
    /\ ~robot.opened /\ host.status = "ok"
    /\ robot' = [robot EXCEPT !.opened = TRUE]
    /\ \E snapshot \in Snapshots(host) : inbox' = <<snapshot>>
    /\ UNCHANGED <<host, user, submits, budget>>

RobotReceives ==
    /\ inbox # <<>> /\ ~robot.blown /\ robot.view.status = "ok"
    /\ Sends(ReceiveUpdate(robot, Head(inbox)))
    /\ inbox' = Tail(inbox)
    /\ UNCHANGED <<host, user, budget>>

-----------------------------------------------------------------------------
(* The user, and somebody else. *)

UpToDate == user.seen = Len(host.log) /\ host.status = "ok" /\ user.view.status = "ok"

\* The user's client applies what it sends, and the host commits it.
UserSends(ops) ==
    /\ host' = Committed(host, "user", ops)
    /\ user' = [view |-> MutateAll(user.view, ops), seen |-> user.seen + 1]
    /\ inbox' = ToRobot("user", ops)

NewUserBlips(view, id) ==
    {RootBlip(view, id)} \cup
    UNION {{FollowUpBlip(view, b, id), ReplyBlip(view, b, id)} : b \in DOMAIN view.blips}

\* A click on one of the buttons of BlipGraphicsItem, or the first blip.
UserCreates ==
    /\ UpToDate /\ budget.created < Len(UserBlips)
    /\ \E ops \in NewUserBlips(user.view, UserBlips[budget.created + 1]) : UserSends(ops)
    /\ budget' = [budget EXCEPT !.created = @ + 1]
    /\ UNCHANGED <<robot, submits>>

\* Two blips in one delta: gathered, while an earlier submit was under way.
UserCreatesTwo ==
    /\ UpToDate /\ budget.created + 1 < Len(UserBlips)
    /\ \E one \in NewUserBlips(user.view, UserBlips[budget.created + 1]) :
          \E two \in NewUserBlips(MutateAll(user.view, one), UserBlips[budget.created + 2]) :
             UserSends(one \o two)
    /\ budget' = [budget EXCEPT !.created = @ + 2]
    /\ UNCHANGED <<robot, submits>>

\* A character at the end of a blip.
UserTypes ==
    /\ UpToDate /\ budget.typed < MaxTyped
    /\ \E b \in DOMAIN user.view.blips :
          LET text == user.view.blips[b].text
          IN  /\ text # <<>>
              /\ UserSends(<<Op(b, InsertInto(text, Len(text) - 1, <<InsertChars(<<"x">>)>>))>>)
    /\ budget' = [budget EXCEPT !.typed = @ + 1]
    /\ UNCHANGED <<robot, submits>>

UserReceives ==
    /\ user.seen < Len(host.log) /\ user.view.status = "ok"
    /\ user' = [view |-> MutateAll(user.view, host.log[user.seen + 1].ops),
                seen |-> user.seen + 1]
    /\ UNCHANGED <<host, robot, inbox, submits, budget>>

DeleteElement(doc, i) ==
    LET deletes == [n \in 1..(EndOf(doc, i) - i + 1) |->
                        IF IsStart(doc, i + n - 1) THEN DeleteStart ELSE DeleteEnd]
    IN  Walk(i - 1) \o deletes \o Walk(Len(doc) - EndOf(doc, i))

\* A blip goes with everything in it.  The clients of the repository do not do
\* it, but provide for it.
OtherRemoves ==
    /\ host.status = "ok" /\ budget.removed < MaxRemovals
    /\ \E i \in Tagged(host.docs.doc, "blip") :
          LET ops == <<Op(Manifest, DeleteElement(host.docs.doc, i))>>
          IN  host' = Committed(host, "other", ops) /\ inbox' = ToRobot("other", ops)
    /\ budget' = [budget EXCEPT !.removed = @ + 1]
    /\ UNCHANGED <<user, robot, submits>>

-----------------------------------------------------------------------------
NewConversation ==
    Op(Manifest, <<StartOf("conversation", NoOne), ElementEnd>>)

\* MainWindow::newWave has been here.
RobotInit ==
    LET wave == MutateAll(NoConversation, <<NewConversation>>)
    IN  /\ host = [log |-> <<[author |-> "user", ops |-> <<NewConversation>>]>>,
                   docs |-> wave, status |-> "ok"]
        /\ user = [view |-> wave, seen |-> 1]
        /\ robot = [view |-> NoConversation, out |-> <<>>, pending |-> FALSE,
                    suspended |-> FALSE, version |-> 0, ids |-> RobotBlips,
                    sent |-> <<>>, opened |-> FALSE, rushed |-> FALSE, blown |-> FALSE]
        /\ inbox = <<>> /\ submits = <<>>
        /\ budget = [created |-> 0, typed |-> 0, removed |-> 0]

Delivered == HostTakesSubmit \/ RobotOpens \/ RobotReceives \/ UserReceives

RobotNext ==
    \/ Delivered
    \/ UserCreates \/ UserCreatesTwo \/ UserTypes \/ OtherRemoves

RobotSpec == RobotInit /\ [][RobotNext]_robotVars

HostRuns == host.status = "ok"
RobotRuns == ~robot.blown /\ robot.view.status = "ok"
UserRuns == user.view.status = "ok"

\* Exactly then one of the actions of Delivered is enabled.
Owed ==
    \/ HostRuns /\ (submits # <<>> \/ ~robot.opened)
    \/ RobotRuns /\ inbox # <<>>
    \/ UserRuns /\ user.seen < Len(host.log)

\* The event loops and connections go on; nobody has to type.  It is weak
\* fairness of Delivered with its ENABLED spelled out.
FairRobotSpec ==
    RobotSpec /\ ([]<>~Owed \/ []<><<Delivered>>_robotVars)

-----------------------------------------------------------------------------
(* Properties. *)

ClientViews == {user.view, robot.view}

\* updateConversation, "Keep all blips which already exist": whatever has come
\* and gone, in whatever order, the blips and threads, their order, their parents
\* and the positions that the next operation is made with are those of the
\* manifest, if that is well formed.
ViewShowsManifest ==
    \A view \in ClientViews :
        view.status = "ok" /\ WellFormed(view.doc) => ShowsManifest(view)

DocsOf(view) ==
    {<<id, view.blips[id].text>> : id \in DOMAIN view.blips} \cup
    {<<id, view.unknown[id]>> : id \in DOMAIN view.unknown}

\* What a view shows is in the documents, the text of what is removed is not.
Shows(view, docs) ==
    /\ view.doc = docs.doc
    /\ DocsOf(view) \subseteq {<<id, docs.unknown[id]>> : id \in DOMAIN docs.unknown}

ShowsAll(view, applied) == applied.ok /\ Shows(view, applied.docs)

Replayed(n) == ApplyOps(NoConversation, Concat([i \in 1..n |-> host.log[i].ops])).docs

\* Text that comes before its blip is in the manifest, or with it, or after it, is
\* in the blip: the user's client shows the documents of the host at the version
\* it has seen.
UserSeesHistory == UserRuns => Shows(user.view, Replayed(user.seen))

\* The same of a robot, with what it has submitted on top, although it answers
\* in the middle of an update: as long as it has made no blip while an answer was
\* under way, and has not been told of two blips in one delta.  Then the host is
\* never made to apply what does not fit, either.
RobotSeesHistory ==
    ~robot.rushed =>
        /\ ~robot.blown /\ HostRuns
        /\ RobotRuns => ShowsAll(robot.view,
                ApplyOps(Replayed(robot.version),
                         IF robot.pending THEN Head(robot.out) ELSE <<>>))

Answers == Len(SelectSeq(host.log, LAMBDA d : d.author = "robot"))
UserBlipsPlaced ==
    Cardinality({i \in Tagged(host.docs.doc, "blip") :
                    IdAt(host.docs.doc, i) \in ToSet(UserBlips)})

\* Every blip of the user gets its answer, unless it is removed, or the robot is
\* rushed or has lost its memory.
EveryBlipIsAnswered ==
    \A n \in 1..Len(UserBlips) :
        UserBlipsPlaced >= n ~>
            (Answers >= n \/ UserBlipsPlaced < n \/ robot.rushed \/ ~RobotRuns)
=============================================================================
