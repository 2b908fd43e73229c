---------------------------- MODULE MutationXform ----------------------------
(***************************************************************************)
(* DocumentMutation::xform as the loop it is: one action per kind of       *)
(* round, over every pair of mutations of a document that                  *)
(* waveclient/tests/randomot draws at random.                              *)
(***************************************************************************)
EXTENDS DocumentMutation

CONSTANTS
    Docs,           \* the documents to mutate
    InsertionsOf(_), \* component sequences a mutation may insert in one place
    TagChanges,     \* attribute changes it may make to a start tag
    OpenEnded,      \* the documents where it may insert behind the last item
    StylesOf(_),    \* the annotations a document may have: nothing for most
    Restyles,       \* what a mutation may change the style of an item to
    style, Kept     \* the annotation's key, and no change

ASSUME XformAssumption == OpenEnded \subseteq Docs /\ \A d \in Docs : <<>> \in InsertionsOf(d)

VARIABLES doc, styles, m1, m2, restyled, loop

xformVars == <<doc, styles, m1, m2, restyled, loop>>

-----------------------------------------------------------------------------
\* The end tag that matches the start tag at i.
MatchingEnd(d, i) ==
    LET depth[j \in i..Len(d)] ==
            IF j = i THEN 1
            ELSE depth[j - 1] + (CASE d[j].kind = "start" -> 1
                                   [] d[j].kind = "end" -> -1
                                   [] OTHER -> 0)
    IN  CHOOSE j \in i..Len(d) : depth[j] = 0 /\ \A k \in i..(j - 1) : depth[k] > 0

\* What a mutation may do to one item; a deleted element loses both its tags
\* and all that is in it.
Components(item) ==
    {Retain(1)} \cup
    (CASE item.kind = "char" -> {DeleteChars(<<item.text>>)}
       [] item.kind = "start" -> {DeleteStart} \cup
            {UpdateAttributes([k \in DOMAIN c |->
                IF k \in DOMAIN item.attributes THEN item.attributes[k] ELSE Null], c)
                : c \in TagChanges} \cup
            {ReplaceAttributes(item.attributes, c) : c \in TagChanges}
       [] OTHER -> {DeleteEnd})

DeletesWhole(d, walk) ==
    \A i \in DOMAIN d : d[i].kind = "start" =>
        IF walk[i] = DeleteStart
        THEN \A j \in (i + 1)..MatchingEnd(d, i) : walk[j].type \in Deletes
        ELSE walk[MatchingEnd(d, i)] = Retain(1)

Walks(d) ==
    {walk \in [DOMAIN d -> UNION {Components(d[i]) : i \in DOMAIN d}] :
        /\ \A i \in DOMAIN d : walk[i] \in Components(d[i])
        /\ DeletesWhole(d, walk)}

AddAll(m, items) ==
    LET upTo[i \in 0..Len(items)] ==
            IF i = 0 THEN m ELSE Add(upTo[i - 1], items[i])
    IN  upTo[Len(items)]

\* The boundary before item i of a mutation that changes the styles to restyle.
BoundaryAt(restyle, i) ==
    LET before == IF i = 1 THEN Kept ELSE restyle[i - 1]
        behind == IF i > Len(restyle) THEN Kept ELSE restyle[i]
    IN  CASE before = behind -> <<>>
          [] before # behind /\ behind = Kept -> <<AnnotationBoundary({style}, NoAttributes)>>
          [] OTHER -> <<AnnotationBoundary({}, style :> behind)>>

\* The mutation that inserts ins[i] before item i and then makes walk[i] of it.
Assemble(d, ins, walk, restyle) ==
    LET before(m, i) == AddAll(AddAll(m, BoundaryAt(restyle, i)), ins[i])
        upTo[i \in 0..Len(d)] ==
            IF i = 0 THEN <<>> ELSE Add(before(upTo[i - 1], i), walk[i])
    IN  before(upTo[Len(d)], Len(d) + 1)

Restylings(d) ==
    IF \A annotations \in StylesOf(d) : annotations = <<>> THEN {[i \in DOMAIN d |-> Kept]}
    ELSE [DOMAIN d -> Restyles \cup {Kept}]

MutationsOf(d) ==
    {[mutation |-> Assemble(d, ins, walk, restyle), restyle |-> restyle] :
        walk \in Walks(d), restyle \in Restylings(d),
        ins \in {f \in [1..(Len(d) + 1) -> InsertionsOf(d)] : d \in OpenEnded \/ f[Len(d) + 1] = <<>>}}

-----------------------------------------------------------------------------
XformInit ==
    /\ doc \in Docs
    /\ styles \in StylesOf(doc)
    /\ \E first, second \in {m \in MutationsOf(doc) : m.mutation # <<>>} :
          /\ m1 = first.mutation /\ m2 = second.mutation
          /\ restyled = <<first.restyle, second.restyle>>
          /\ loop = XformStart(first.mutation, second.mutation)

FirstInserts == Head(loop.rest1).type \in Inserts
SecondInserts == Head(loop.rest2).type \in Inserts
FirstLeads == FirstInserts \/ Annotates(loop.rest1)
SecondLeads == SecondInserts \/ Annotates(loop.rest2)

Same == UNCHANGED <<doc, styles, m1, m2, restyled>>

RoundInsertsFirst ==
    /\ Running(loop) /\ FirstInserts
    /\ loop' = InsertFirst(loop)
    /\ Same

RoundAnnotatesFirst ==
    /\ Running(loop) /\ Annotates(loop.rest1)
    /\ loop' = AnnotateFirst(loop)
    /\ Same

RoundInsertsSecond ==
    /\ Running(loop) /\ ~FirstLeads /\ SecondInserts
    /\ loop' = InsertSecond(loop)
    /\ Same

RoundAnnotatesSecond ==
    /\ Running(loop) /\ ~FirstLeads /\ Annotates(loop.rest2)
    /\ loop' = AnnotateSecond(loop)
    /\ Same

RoundConsumes ==
    /\ Running(loop) /\ ~FirstLeads /\ ~SecondLeads
    /\ loop' = XformStep(loop)
    /\ Same

XformNext ==
    \/ RoundInsertsFirst \/ RoundAnnotatesFirst
    \/ RoundInsertsSecond \/ RoundAnnotatesSecond
    \/ RoundConsumes

XformSpec == XformInit /\ [][XformNext]_xformVars

-----------------------------------------------------------------------------
(* Properties. *)

Finished == ~Running(loop)

Appends(m) == Last(m).type \in Inserts \cup {"annotationBoundary"}

\* randomot expects QVERIFY2( ok == true ) of any two mutations of one document.
\* The code keeps that for all but those of which one appends to the document,
\* or changes an annotation up to its end: then the loop ends with a component
\* left over, a "Length mismatch".
TransformableUnlessAppending ==
    Finished => (XformEnd(loop).ok <=> ~Appends(m1) /\ ~Appends(m2))

\* Both mutations change the style of one item to the same.
SameRestyling ==
    \E i \in DOMAIN doc : restyled[1][i] = restyled[2][i] /\ restyled[1][i] # Kept

StylesConverge(result) ==
    LET firstThenSecond == AnnotationsAfter(AnnotationsAfter(styles, m1), loop.r2)
        secondThenFirst == AnnotationsAfter(AnnotationsAfter(styles, m2), loop.r1)
    IN  \A i \in DOMAIN result :
            result[i] \in ToSet(doc) => firstThenSecond[i] = secondThenFirst[i]

\* randomot: whichever mutation is applied first, with the other one transformed
\* behind it, the document comes out the same (TP1).  So do the annotations of
\* the items that both mutations have seen, unless both give an item the same
\* style; those of an item one of them inserts need not.
Converges ==
    Finished /\ XformEnd(loop).ok =>
        LET first == ApplyMutation(doc, m1)
            second == ApplyMutation(doc, m2)
            firstThenSecond == ApplyMutation(first.doc, loop.r2)
            secondThenFirst == ApplyMutation(second.doc, loop.r1)
        IN  /\ first.ok /\ second.ok /\ firstThenSecond.ok /\ secondThenFirst.ok
            /\ firstThenSecond.doc = secondThenFirst.doc
            /\ styles # <<>> => SameRestyling \/ StylesConverge(firstThenSecond.doc)
=============================================================================
