-------------------------- MODULE ConversationView --------------------------
(***************************************************************************)
(* What a client makes of a wavelet's documents: the blips and threads of  *)
(* the conversation, rebuilt from the manifest whenever it changes, and    *)
(* the documents of blips the manifest does not name yet                   *)
(* (src/waveclient/model/wavelet.cpp, blip.cpp, blipthread.cpp; the robots *)
(* have a copy of the same code).                                          *)
(*                                                                         *)
(* A Blip or BlipThread is a record named by its id, and a thread has the  *)
(* id of the blip it was made for.  Left out: participants, attachments,   *)
(* the read flags, and what only a digest shows.                           *)
(***************************************************************************)
EXTENDS DocumentMutation, FiniteSets

CONSTANT NoOne      \* the id of what has none

-----------------------------------------------------------------------------
(* Documents. *)

StartOf(tag, id) == ElementStart(tag, "id" :> id)
Manifest == "conversation"

Walk(n) == IF n = 0 THEN <<>> ELSE <<Retain(n)>>
InsertInto(doc, at, components) ==
    Walk(at) \o components \o Walk(Len(doc) - at)

\* An operation of a delta: a mutation of one document.
Op(doc, mutation) == [doc |-> doc, mutation |-> mutation]

NewBody == <<StartOf("body", NoOne), ElementEnd>>

-----------------------------------------------------------------------------
(* The view: m_doc, m_blips, m_blipThreads, m_rootBlips, m_unknownDocs.  Its *)
(* status is "undefined" once memory has been used that was given back.     *)

NoConversation ==
    [doc |-> <<>>, blips |-> <<>>, threads |-> <<>>, roots |-> <<>>,
     unknown |-> <<>>, status |-> "ok"]

Put(f, key, value) == (key :> value) @@ f

TheWavelet == [kind |-> "wavelet", id |-> NoOne]

NewBlip(parent, text) ==
    [parent |-> parent, threads |-> <<>>, text |-> text, first |-> 0, last |-> 0]

(* The loop of updateConversation.  Its state: the view under construction,  *)
(* the blips and threads there were, currentParent, objectStack, the blips   *)
(* that are new, and whether it has returned.                                *)

Returned(s) == [s EXCEPT !.returned = TRUE]

\* m_rootBlips.append, or addBlip of the thread.
Listed(view, parent, id) ==
    CASE parent.kind = "wavelet" -> [view EXCEPT !.roots = Append(@, id)]
      [] parent.kind = "thread" ->
            [view EXCEPT !.threads[parent.id].blips = Append(@, id)]
      [] OTHER -> view

UnknownText(view, id) ==
    IF id \in DOMAIN view.unknown THEN view.unknown[id] ELSE <<>>

\* Mutated form: a new blip does not take over the document.
TextForEmpty(view, id) == <<>>

\* The document of a new blip: a copy of the unknown document, if there is one.
TextFor(view, id) == UnknownText(view, id)

\* Mutated form: a blip that stays keeps its list of threads.
KeptBlipListed(blip, parent) == [blip EXCEPT !.parent = parent]

KeptBlip(blip, parent) == [blip EXCEPT !.parent = parent, !.threads = <<>>]

BlipStarts(s, i, id) ==
    LET known == id \in DOMAIN s.old.blips
        blip == IF known THEN KeptBlip(s.old.blips[id], s.parent)
                ELSE NewBlip(s.parent, TextFor(s.view, id))
        placed == [s.view EXCEPT
                      !.blips = Put(@, id, [blip EXCEPT !.first = i]),
                      !.unknown = IF known THEN @ ELSE Without(@, {id})]
    IN  IF ~known /\ s.parent.kind = "blip" THEN Returned(s)
        ELSE [s EXCEPT !.view = Listed(placed, s.parent, id),
                       !.new = IF known THEN @ ELSE Append(@, id),
                       !.stack = Append(@, s.parent),
                       !.parent = [kind |-> "blip", id |-> id]]

\* A thread that is known is added to currentParent without a look at what
\* that is.
ThreadStarts(s, id) ==
    LET inBlip == s.parent.kind = "blip"
    IN  IF ~inBlip
        THEN IF id \in DOMAIN s.old.threads
             THEN [Returned(s) EXCEPT !.view.status = "undefined"]
             ELSE Returned(s)
        ELSE [s EXCEPT
                !.view.blips[s.parent.id].threads = Append(@, id),
                !.view.threads = Put(@, id, [parent |-> s.parent.id, blips |-> <<>>]),
                !.stack = Append(@, s.parent),
                !.parent = [kind |-> "thread", id |-> id]]

OtherStarts(s) == [s EXCEPT !.stack = Append(@, s.parent)]

ElementEnds(s, i) ==
    IF s.stack = <<>> THEN Returned(s)
    ELSE [s EXCEPT !.view = IF s.parent.kind = "blip"
                            THEN [@ EXCEPT !.blips[s.parent.id].last = i] ELSE @,
                   !.parent = Last(s.stack), !.stack = Front(@)]

Scanned(s, i, item) ==
    IF s.returned THEN s
    ELSE CASE item.kind = "start" /\ item.text = "blip" ->
                    BlipStarts(s, i, item.attributes["id"])
           [] item.kind = "start" /\ item.text = "thread" ->
                    ThreadStarts(s, item.attributes["id"])
           [] item.kind = "start" -> OtherStarts(s)
           [] item.kind = "end" -> ElementEnds(s, i)
           [] OTHER -> s

\* What is not used any more is deleted: the blips, each with the threads and
\* blips that are its children, and then the threads, the same ones again.
DeletesTwice(old, view) ==
    \E t \in DOMAIN old.threads \ DOMAIN view.threads :
        old.threads[t].parent \notin DOMAIN view.blips

Rebuilt(old, s) ==
    IF s.returned THEN [view |-> s.view, new |-> <<>>]
    ELSE [view |-> [s.view EXCEPT
                       !.status = IF DeletesTwice(old, s.view) THEN "undefined" ELSE @],
          new |-> s.new]

\* Positions in the document count from 0.
UpdateConversation(view) ==
    LET start == [view EXCEPT !.blips = <<>>, !.threads = <<>>, !.roots = <<>>]
        after[i \in 0..Len(view.doc)] ==
            IF i = 0
            THEN [view |-> start, old |-> view, parent |-> TheWavelet,
                  stack |-> <<>>, new |-> <<>>, returned |-> FALSE]
            ELSE Scanned(after[i - 1], i - 1, view.doc[i])
    IN  Rebuilt(view, after[Len(view.doc)])

-----------------------------------------------------------------------------
Text(view, doc) ==
    IF doc = Manifest THEN view.doc
    ELSE IF doc \in DOMAIN view.blips THEN view.blips[doc].text
    ELSE UnknownText(view, doc)

Changed(view, doc, text) ==
    IF doc = Manifest THEN UpdateConversation([view EXCEPT !.doc = text])
    ELSE [new |-> <<>>,
          view |-> IF doc \in DOMAIN view.blips
                   THEN [view EXCEPT !.blips[doc].text = text]
                   ELSE [view EXCEPT !.unknown = Put(@, doc, text)]]

\* What does not fit has been applied up to there; nobody asks.  What the client
\* does once its status is "undefined" is not modelled.
MutateDocument(view, op) ==
    IF view.status = "undefined" THEN [view |-> view, new |-> <<>>]
    ELSE Changed(view, op.doc, ApplyMutation(Text(view, op.doc), op.mutation).doc)

\* The operations of a delta, one after the other.
MutateAll(view, ops) ==
    LET after[i \in 0..Len(ops)] ==
            IF i = 0 THEN view ELSE MutateDocument(after[i - 1], ops[i]).view
    IN  after[Len(ops)]

-----------------------------------------------------------------------------
(* The operations that make a blip: its document, then its place.  The second *)
(* one counts on the view of the moment.                                      *)

BlipElement(id) == <<StartOf("blip", id), ElementEnd>>

PlaceRoot(view, id) == Op(Manifest, InsertInto(view.doc, 1, BlipElement(id)))

PlaceFollowUp(view, blip, id) ==
    Op(Manifest, InsertInto(view.doc, view.blips[blip].last + 1, BlipElement(id)))

PlaceReply(view, blip, id) ==
    Op(Manifest, InsertInto(view.doc, view.blips[blip].first + 1,
            <<StartOf("thread", id)>> \o BlipElement(id) \o <<ElementEnd>>))

\* createRootBlip, which makes a follow-up if there is a root blip;
\* createFollowUpBlip; createReplyBlip.
RootBlip(view, id) ==
    <<Op(id, NewBody),
      IF view.roots = <<>> THEN PlaceRoot(view, id)
      ELSE PlaceFollowUp(view, Last(view.roots), id)>>
FollowUpBlip(view, blip, id) == <<Op(id, NewBody), PlaceFollowUp(view, blip, id)>>
ReplyBlip(view, blip, id) == <<Op(id, NewBody), PlaceReply(view, blip, id)>>

-----------------------------------------------------------------------------
(* What the manifest says, by its brackets. *)

IsStart(doc, i) == doc[i].kind = "start"
Depth(doc, i) ==
    LET at(kind) == Cardinality({j \in 1..i : doc[j].kind = kind})
    IN  at("start") - at("end")

\* The end tag of the start tag at i, and the start tag of the element around it.
EndOf(doc, i) == Min({k \in (i + 1)..Len(doc) : Depth(doc, k) < Depth(doc, i)})
Encloser(doc, i) ==
    Max({j \in 1..(i - 1) : IsStart(doc, j) /\ Depth(doc, j) = Depth(doc, i) - 1})

Tagged(doc, tag) == {i \in DOMAIN doc : IsStart(doc, i) /\ doc[i].text = tag}
IdAt(doc, i) == doc[i].attributes["id"]
EnclosedBy(doc, tag, i) == doc[Encloser(doc, i)].text = tag

Balanced(doc) == \A i \in DOMAIN doc : (Depth(doc, i) = 0) <=> (i = Len(doc))

\* Blips stand in threads or at the top, threads in blips, and no id twice.
WellFormed(doc) ==
    /\ Balanced(doc)
    /\ \A i \in Tagged(doc, "blip") :
          EnclosedBy(doc, "conversation", i) \/ EnclosedBy(doc, "thread", i)
    /\ \A i \in Tagged(doc, "thread") : EnclosedBy(doc, "blip", i)
    /\ \A tag \in {"blip", "thread"} : \A i, j \in Tagged(doc, tag) :
          IdAt(doc, i) = IdAt(doc, j) => i = j

\* The ids of the elements directly below the element at i, in order.
Below(doc, tag, i) ==
    LET inside == {j \in Tagged(doc, tag) : Encloser(doc, j) = i}
    IN  [n \in 1..Cardinality(inside) |->
            IdAt(doc, CHOOSE j \in inside :
                        Cardinality({k \in inside : k <= j}) = n)]

ParentIn(doc, i) ==
    IF EnclosedBy(doc, "thread", i)
    THEN [kind |-> "thread", id |-> IdAt(doc, Encloser(doc, i))] ELSE TheWavelet

\* Blips, threads, order and positions are those of the manifest.
ShowsManifest(view) ==
    LET doc == view.doc
    IN  /\ DOMAIN view.blips = {IdAt(doc, i) : i \in Tagged(doc, "blip")}
        /\ DOMAIN view.threads = {IdAt(doc, i) : i \in Tagged(doc, "thread")}
        /\ \A i \in Tagged(doc, "blip") :
              LET blip == view.blips[IdAt(doc, i)]
              IN  /\ blip.first = i - 1 /\ blip.last = EndOf(doc, i) - 1
                  /\ blip.parent = ParentIn(doc, i)
                  /\ blip.threads = Below(doc, "thread", i)
        /\ \A i \in Tagged(doc, "thread") :
              view.threads[IdAt(doc, i)].blips = Below(doc, "blip", i)
        /\ \A i \in Tagged(doc, "conversation") :
              view.roots = Below(doc, "blip", i)
=============================================================================
