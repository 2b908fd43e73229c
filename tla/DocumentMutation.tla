-------------------------- MODULE DocumentMutation --------------------------
(***************************************************************************)
(* The operational transformation of document mutations                    *)
(* (src/core/model/documentmutation.cpp) and their application             *)
(* (StructuredDocument::apply, src/core/model/structureddocument.cpp).     *)
(*                                                                         *)
(* A document is a sequence of characters, start tags and end tags; a      *)
(* start tag has attributes.  A mutation is a sequence of components that  *)
(* walks over the whole document.  The annotations of the items are a list *)
(* of their own.  The tag and the attributes a DeleteStart repeats are     *)
(* left out, and so are the old values of an AnnotationBoundary: nobody    *)
(* compares them with the document.                                        *)
(***************************************************************************)
EXTENDS Integers, Sequences, SequencesExt, TLC

CONSTANT Null       \* QString::null as the value of an attribute

-----------------------------------------------------------------------------
(* Components of a mutation.                                                *)

Retain(n) == [type |-> "retain", count |-> n]
InsertChars(text) == [type |-> "insertChars", text |-> text]
ElementStart(tag, attributes) ==
    [type |-> "elementStart", tag |-> tag, attributes |-> attributes]
ElementEnd == [type |-> "elementEnd"]
DeleteChars(text) == [type |-> "deleteChars", text |-> text]
DeleteStart == [type |-> "deleteStart"]
DeleteEnd == [type |-> "deleteEnd"]

\* The attribute list of the code holds "-key" for an old value, key for a new.
UpdateAttributes(old, new) ==
    [type |-> "updateAttributes", old |-> old, new |-> new]
ReplaceAttributes(old, new) ==
    [type |-> "replaceAttributes", old |-> old, new |-> new]

\* The annotations whose change ends here, and those that are changed from here
\* on, to Null if they are taken away.
AnnotationBoundary(ends, changes) ==
    [type |-> "annotationBoundary", ends |-> ends, changes |-> changes]

Inserts == {"insertChars", "elementStart", "elementEnd"}
Deletes == {"deleteChars", "deleteStart", "deleteEnd"}

\* item.count: how many items of a document the component stands for.
Count(item) ==
    CASE item.type = "retain" -> item.count
      [] item.type \in {"insertChars", "deleteChars"} -> Len(item.text)
      [] OTHER -> 1

\* The first n of them, and what shorten(n) leaves: nothing or a component.
Cut(item, n) ==
    CASE item.type = "retain" -> Retain(n)
      [] item.type = "deleteChars" -> DeleteChars(SubSeq(item.text, 1, n))
      [] OTHER -> item

Shortened(item, n) ==
    IF Count(item) = n THEN <<>>
    ELSE IF item.type = "retain" THEN <<Retain(item.count - n)>>
    ELSE <<DeleteChars(SubSeq(item.text, n + 1, Len(item.text)))>>

Without(f, S) == [k \in DOMAIN f \ S |-> f[k]]
Only(f, S) == [k \in DOMAIN f \cap S |-> f[k]]

\* The builder methods extend a last component of the same type.
Joined(last, item) ==
    CASE item.type = "retain" -> Retain(last.count + item.count)
      [] item.type = "annotationBoundary" ->
            AnnotationBoundary(last.ends \cup item.ends,
                               item.changes @@ Without(last.changes, item.ends))
      [] OTHER -> [item EXCEPT !.text = last.text \o @]

Add(m, item) ==
    IF m # <<>> /\ Last(m).type = item.type
                /\ item.type \in {"retain", "insertChars", "deleteChars", "annotationBoundary"}
    THEN Front(m) \o <<Joined(Last(m), item)>>
    ELSE Append(m, item)

-----------------------------------------------------------------------------
(* One round of the loop of xform.  The state of the loop: what is left of   *)
(* the two mutations, what has been built of the results, the annotations    *)
(* that either is changing, and *ok.                                         *)

NoAttributes == [k \in {} |-> Null]

XformStart(m1, m2) ==
    [rest1 |-> m1, rest2 |-> m2, r1 |-> <<>>, r2 |-> <<>>,
     anno1 |-> NoAttributes, anno2 |-> NoAttributes, ok |-> TRUE]

Running(s) == s.ok /\ s.rest1 # <<>> /\ s.rest2 # <<>>

Twisted(s) ==
    [rest1 |-> s.rest2, rest2 |-> s.rest1, r1 |-> s.r2, r2 |-> s.r1,
     anno1 |-> s.anno2, anno2 |-> s.anno1, ok |-> s.ok]

\* An insertion of the first mutation; the second one has to step over it.
InsertFirst(s) ==
    LET item == Head(s.rest1)
    IN  [s EXCEPT !.rest1 = Tail(@),
                  !.r1 = Add(@, item),
                  !.r2 = Add(@, Retain(Count(item)))]

InsertSecond(s) == Twisted(InsertFirst(Twisted(s)))

AddBoundary(m, ends, changes) ==
    IF ends = {} /\ DOMAIN changes = {} THEN m
    ELSE Add(m, AnnotationBoundary(ends, changes))

\* xformAnnotationBoundary for the head of the first mutation: the annotations
\* it changes that the other one is changing too, to the same or another value;
\* and what becomes of it, own in its result and other in the other one's.
NextBoundary(s) == Head(s.rest1)
Shared(s) == DOMAIN NextBoundary(s).changes \cap DOMAIN s.anno2
Agreed(s) == {k \in Shared(s) : s.anno2[k] = NextBoundary(s).changes[k]}

Bounded(s, own, other) ==
    [s EXCEPT !.rest1 = Tail(@),
              !.anno1 = NextBoundary(s).changes @@ Without(@, NextBoundary(s).ends),
              !.r1 = AddBoundary(@, own.ends, own.changes),
              !.r2 = AddBoundary(@, other.ends, other.changes)]

\* Mutated form: the first mutation makes its change where the second one does.
AnnotateFirstToo(s) ==
    LET b == NextBoundary(s)
    IN  Bounded(s,
            [ends |-> b.ends \ DOMAIN s.anno2, changes |-> b.changes],
            [ends |-> Agreed(s),
             changes |-> Only(s.anno2, b.ends \cup (Shared(s) \ Agreed(s)))])

\* The second mutation wins, and gets its change back when the first one's ends.
AnnotateFirst(s) ==
    LET b == NextBoundary(s)
    IN  Bounded(s,
            [ends |-> b.ends \ DOMAIN s.anno2, changes |-> Without(b.changes, Shared(s))],
            [ends |-> Agreed(s),
             changes |-> Only(s.anno2, b.ends \cup (Shared(s) \ Agreed(s)))])

AnnotateTwisted(s) ==
    LET b == NextBoundary(s)
    IN  Bounded(s,
            [ends |-> b.ends, changes |-> Without(b.changes, Agreed(s))],
            [ends |-> Shared(s) \ Agreed(s), changes |-> Only(s.anno2, b.ends)])

AnnotateSecond(s) == Twisted(AnnotateTwisted(Twisted(s)))

\* What a component stands on.
Ground(item) ==
    CASE item.type = "deleteChars" -> "char"
      [] item.type = "deleteEnd" -> "end"
      [] OTHER -> "start"

\* Mutated form: forgets that a changed tag may be deleted.
CompatibleSameType(item1, item2) ==
    \/ item1.type = "retain" \/ item2.type = "retain"
    \/ item1.type = item2.type

Compatible(item1, item2) ==
    \/ item1.type = "retain" \/ item2.type = "retain"
    \/ Ground(item1) = Ground(item2)

\* xformUpdateAttributes, xformReplaceAttributes: both mutations change the
\* attributes of one start tag; the second one wins.
UpdateUpdate(i1, i2) ==
    LET both == DOMAIN i1.new \cap DOMAIN i2.old
    IN  << UpdateAttributes(Without(i1.old, both), Without(i1.new, both)),
           [i2 EXCEPT !.old = [k \in both |-> i1.new[k]] @@ @] >>

UpdateReplace(i1, i2) ==
    LET gone == {k \in DOMAIN i1.new : i1.new[k] = Null}
        old  == Without(i2.old, gone \cap DOMAIN i2.new)
    IN  << Retain(1), [i2 EXCEPT !.old = Without(i1.new, gone) @@ old] >>

ReplaceUpdate(i1, i2) ==
    << ReplaceAttributes(i2.new @@ i1.old, i2.new @@ i1.new),
       [i2 EXCEPT !.old =
           [k \in DOMAIN i2.new |->
               IF k \in DOMAIN i1.new THEN i1.new[k] ELSE Null] @@ @] >>

ReplaceReplace(i1, i2) == << Retain(1), [i2 EXCEPT !.old = i1.new] >>

\* Both components stand on the same items of the document, and neither inserts.
\* A deletion leaves nothing of what it meets.
Meet(i1, i2) ==
    CASE i1.type = "updateAttributes" /\ i2.type = "updateAttributes" ->
            UpdateUpdate(i1, i2)
      [] i1.type = "updateAttributes" /\ i2.type = "replaceAttributes" ->
            UpdateReplace(i1, i2)
      [] i1.type = "replaceAttributes" /\ i2.type = "updateAttributes" ->
            ReplaceUpdate(i1, i2)
      [] i1.type = "replaceAttributes" /\ i2.type = "replaceAttributes" ->
            ReplaceReplace(i1, i2)
      [] OTHER -> <<i1, i2>>

AddUnless(gone, m, item) == IF gone THEN m ELSE Add(m, item)

Consume(s) ==
    LET i1 == Head(s.rest1)
        i2 == Head(s.rest2)
        n == IF Count(i1) < Count(i2) THEN Count(i1) ELSE Count(i2)
        met == Meet(Cut(i1, n), Cut(i2, n))
    IN  [s EXCEPT !.rest1 = Shortened(i1, n) \o Tail(@),
                  !.rest2 = Shortened(i2, n) \o Tail(@),
                  !.r1 = AddUnless(i2.type \in Deletes, @, met[1]),
                  !.r2 = AddUnless(i1.type \in Deletes, @, met[2])]

Annotates(m) == Head(m).type = "annotationBoundary"

XformStep(s) ==
    IF Head(s.rest1).type \in Inserts THEN InsertFirst(s)
    ELSE IF Annotates(s.rest1) THEN AnnotateFirst(s)
    ELSE IF Head(s.rest2).type \in Inserts THEN InsertSecond(s)
    ELSE IF Annotates(s.rest2) THEN AnnotateSecond(s)
    ELSE IF Compatible(Head(s.rest1), Head(s.rest2)) THEN Consume(s)
    ELSE [s EXCEPT !.ok = FALSE]

\* After the loop: what one of them has left is a length mismatch.
XformEnd(s) ==
    [ok |-> s.ok /\ s.rest1 = <<>> /\ s.rest2 = <<>>, r1 |-> s.r1, r2 |-> s.r2]

LengthOf(m) ==
    LET upTo[i \in 0..Len(m)] == IF i = 0 THEN 0 ELSE upTo[i - 1] + Count(m[i])
    IN  upTo[Len(m)]

Xform(m1, m2) ==
    LET rounds == LengthOf(m1) + LengthOf(m2)
        after[n \in 0..rounds] ==
            IF n = 0 THEN XformStart(m1, m2)
            ELSE LET last == after[n - 1]
                 IN  IF Running(last) THEN XformStep(last) ELSE last
    IN  IF m1 = <<>> \/ m2 = <<>>
        THEN [ok |-> TRUE, r1 |-> m1, r2 |-> m2]
        ELSE XformEnd(after[rounds])

-----------------------------------------------------------------------------
(* StructuredDocument::apply.                                               *)

Char(c) == [kind |-> "char", text |-> c, attributes |-> NoAttributes]
Start(tag, attributes) ==
    [kind |-> "start", text |-> tag, attributes |-> attributes]
End == [kind |-> "end", text |-> Null, attributes |-> NoAttributes]

NonNull(f) == Without(f, {k \in DOMAIN f : f[k] = Null})

\* The state of apply(): the items before and behind pos, and stackCount.
ApplyStart(doc) == [ok |-> TRUE, before |-> <<>>, behind |-> doc, stack |-> 0]

Inserted(s, items) == [s EXCEPT !.before = @ \o items]

\* stackCount is not decremented by an inserted end tag.
ApplyInsert(s, item) ==
    CASE item.type = "insertChars" ->
            Inserted(s, [i \in DOMAIN item.text |-> Char(item.text[i])])
      [] item.type = "elementStart" ->
            [Inserted(s, <<Start(item.tag, item.attributes)>>)
                EXCEPT !.stack = @ + 1]
      [] OTHER ->
            [Inserted(s, <<End>>) EXCEPT !.ok = @ /\ s.stack # 0]

StackChange(item) ==
    CASE item.type = "deleteStart" -> 1
      [] item.type = "deleteEnd" -> -1
      [] OTHER -> 0

ApplyDelete(s, item) ==
    [s EXCEPT !.behind = SubSeq(@, Count(item) + 1, Len(@)),
              !.stack = @ + StackChange(item),
              !.ok = @ /\ (item.type = "deleteEnd" => s.stack # 0)]

\* Behind the last item the code reads m_attributes out of range; ApplyItem
\* makes that a failure, as it is for the components that are checked.
ApplyAttributes(s, item) ==
    LET tag == Head(s.behind)
        kept == IF item.type = "replaceAttributes" THEN NoAttributes
                ELSE tag.attributes
    IN  [s EXCEPT !.before = Append(@, [tag EXCEPT
                                !.attributes = NonNull(item.new @@ kept)]),
                  !.behind = Tail(@)]

ApplyItem(s, item) ==
    IF ~s.ok \/ item.type = "annotationBoundary" THEN s
    ELSE IF item.type \in Inserts THEN ApplyInsert(s, item)
    ELSE IF Count(item) > Len(s.behind) THEN [s EXCEPT !.ok = FALSE]
    ELSE CASE item.type = "retain" ->
                [s EXCEPT !.before = @ \o SubSeq(s.behind, 1, item.count),
                          !.behind = SubSeq(@, item.count + 1, Len(@))]
           [] item.type \in Deletes -> ApplyDelete(s, item)
           [] OTHER -> ApplyAttributes(s, item)

ApplyMutation(doc, m) ==
    LET after[i \in 0..Len(m)] ==
            IF i = 0 THEN ApplyStart(doc) ELSE ApplyItem(after[i - 1], m[i])
        s == after[Len(m)]
    IN  [ok |-> s.ok, doc |-> s.before \o s.behind]

\* apply() again, and what it makes of m_annotations: annoUpdates and oldAnno,
\* with which currentAnno is always oldAnno with the updates made.
Merge(annotation, updates) == NonNull(updates @@ annotation)

AnnotateItem(s, item) ==
    LET n == Count(item)
        walked == SubSeq(s.behind, 1, n)
        passed == [s EXCEPT !.behind = SubSeq(@, n + 1, Len(@)), !.old = walked[n]]
    IN  CASE item.type = "annotationBoundary" ->
                [s EXCEPT !.updates = item.changes @@ Without(@, item.ends)]
          [] item.type \in Inserts ->
                [s EXCEPT !.before = @ \o [i \in 1..n |-> Merge(s.old, s.updates)]]
          [] item.type \in Deletes -> passed
          [] item.type = "retain" ->
                [passed EXCEPT !.before =
                    @ \o [i \in 1..n |-> Merge(walked[i], s.updates)]]
          [] OTHER -> [s EXCEPT !.before = @ \o walked, !.behind = Tail(@)]

AnnotationsAfter(annotations, m) ==
    LET after[i \in 0..Len(m)] ==
            IF i = 0 THEN [before |-> <<>>, behind |-> annotations,
                           old |-> NoAttributes, updates |-> NoAttributes]
            ELSE AnnotateItem(after[i - 1], m[i])
        s == after[Len(m)]
    IN  s.before \o s.behind
=============================================================================
