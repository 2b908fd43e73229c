------------------------------- MODULE Editor -------------------------------
(***************************************************************************)
(* What a user sees of a blip and what the blip's document holds: the      *)
(* OTAdapter between a QTextDocument (the view) and a BlipDocument         *)
(* (src/waveclient/view/otadapter.cpp, model/blipdocument.cpp).            *)
(*                                                                         *)
(* A view is a sequence of glyphs; other users' carets are glyphs in it.   *)
(* What the user types or deletes in the view comes back as a mutation of  *)
(* the document; a mutation of the document that comes from elsewhere      *)
(* comes back as changes of the view.  Positions count from 0, as in the   *)
(* code: the glyph at position p is glyphs[p + 1].                         *)
(*                                                                         *)
(* Left out: the author names in front of the text (a constant offset),    *)
(* the state of gadgets, and every style but one, which is on or off.      *)
(* External, and modelled from how the adapter uses it: QTextDocument and  *)
(* QTextCursor, which moves with the text in front of it.                  *)
(***************************************************************************)
EXTENDS DocumentMutation, FiniteSets

CONSTANTS
    Authors,        \* remote users
    Texts,          \* what a user types or pastes: sequences of glyphs
    Captions,       \* captions of images
    MaxSelected,    \* how much a user selects at most
    Documents,      \* blips that are opened
    MaxChanges      \* bounds the changes made by anybody

ASSUME EditorBounds == MaxSelected \in Nat /\ MaxChanges \in Nat

VARIABLES
    document,   \* m_items, m_annotations of the BlipDocument
    view,       \* the QTextDocument and the positions of m_cursors in it
    misled,     \* what has been done that the adapter maps to the wrong place
    taken,      \* the kinds of glyph taken away where a cursor's caret was meant
    changes

editorVars == <<document, view, misled, taken, changes>>

-----------------------------------------------------------------------------
(* Documents and views.                                                     *)

Normal == "normal"
Bold == "bold"

Item(kind, text, style) == [kind |-> kind, text |-> text, style |-> style]
LineStart == Item("start", "line", Normal)
BodyStart == Item("start", "body", Normal)
EndTag == Item("end", Null, Normal)

Glyph(kind, text, style) == [kind |-> kind, text |-> text, style |-> style]
Letter(c) == Glyph("char", c, Normal)
Break == Glyph("break", Null, Normal)
Object == Glyph("object", Null, Normal)
Caret(a) == Glyph("caret", a, Normal)

\* op applied to the elements of seq in turn.
InTurn(op(_, _), base, seq) ==
    LET after[i \in 0..Len(seq)] ==
            IF i = 0 THEN base ELSE op(after[i - 1], seq[i])
    IN  after[Len(seq)]

Is(item, kind, text) == item.kind = kind /\ item.text = text

\* How many elements are open in front of each item, and behind the last.
Depths(doc) ==
    InTurn(LAMBDA depths, item :
                Append(depths, Last(depths) + (CASE item.kind = "start" -> 1
                                                 [] item.kind = "end" -> -1
                                                 [] OTHER -> 0)),
             <<0>>, doc)

\* The end of the element that starts at item i.
Closing(doc, i) ==
    LET depths == Depths(doc)
    IN  Min({j \in (i + 1)..Len(doc) : depths[j + 1] = depths[i]})

\* The characters of the body, not those of a caption.
BodyChars(doc) ==
    LET depths == Depths(doc)
    IN  {i \in DOMAIN doc : doc[i].kind = "char" /\ depths[i] = 1}

\* A line element has no contents.
LineStarts(doc) == {i \in DOMAIN doc : Is(doc[i], "start", "line")}
LineEnds(doc) == {i + 1 : i \in LineStarts(doc)}
Images(doc) == {i \in DOMAIN doc : Is(doc[i], "start", "image")}

\* setGraphicsText.  The first line
\* starts no block of its own; a caption is drawn with its image.
SetGraphicsText(doc) ==
    LET chars == BodyChars(doc)
        lines == LineStarts(doc)
        Shown(i) ==
            CASE i \in chars -> <<Glyph("char", doc[i].text, doc[i].style)>>
              [] i \in lines /\ i # Min(lines) -> <<Break>>
              [] i \in Images(doc) -> <<Object>>
              [] OTHER -> <<>>
    IN  InTurn(\o, <<>>, [i \in DOMAIN doc |-> Shown(i)])

-----------------------------------------------------------------------------
(* QTextDocument and QTextCursor.  A view is [glyphs, cursors]; a cursor at *)
(* the place of an insertion moves with what is inserted.                   *)

CharFormat(glyphs, p) ==
    IF p > 0 /\ glyphs[p].kind # "break" THEN glyphs[p].style
    ELSE IF p < Len(glyphs) /\ glyphs[p + 1].kind # "break" THEN glyphs[p + 1].style
    ELSE Normal

InsertedAt(v, p, text) ==
    [glyphs  |-> SubSeq(v.glyphs, 1, p) \o text
                    \o SubSeq(v.glyphs, p + 1, Len(v.glyphs)),
     cursors |-> [a \in DOMAIN v.cursors |->
                    IF v.cursors[a] >= p THEN v.cursors[a] + Len(text)
                    ELSE v.cursors[a]]]

RemovedAt(v, p, n) ==
    [glyphs  |-> SubSeq(v.glyphs, 1, p) \o SubSeq(v.glyphs, p + n + 1, Len(v.glyphs)),
     cursors |-> [a \in DOMAIN v.cursors |->
                    IF v.cursors[a] >= p + n THEN v.cursors[a] - n
                    ELSE IF v.cursors[a] > p THEN p ELSE v.cursors[a]]]

InFormat(v, p, text) ==
    [i \in DOMAIN text |-> IF text[i].kind = "char"
                           THEN [text[i] EXCEPT !.style = CharFormat(v.glyphs, p)]
                           ELSE text[i]]

WithStyle(v, from, to, style) ==
    [v EXCEPT !.glyphs = [i \in DOMAIN @ |->
        IF i > from /\ i <= to /\ @[i].kind = "char"
        THEN [@[i] EXCEPT !.style = style] ELSE @[i]]]

CaretOwner(v, a) ==
    LET p == v.cursors[a]
    IN  IF p > 0 /\ v.glyphs[p].kind = "caret" THEN v.glyphs[p].text ELSE Null

-----------------------------------------------------------------------------
(* mapToBlip: the item of the document (from 0) for a position in the view. *)

\* A caret is recognised by a cursor in front of it, although it stands
\* behind it.
CountsAsChar(v, i) ==
    /\ v.glyphs[i + 1].kind # "break"
    /\ v.glyphs[i + 1].kind \in {"object", "caret"} =>
           \A a \in DOMAIN v.cursors : v.cursors[a] # i

CharIndex(v, p) == Cardinality({i \in 0..(p - 1) : CountsAsChar(v, i)})
BlockCount(v, p) ==
    Cardinality({i \in 0..(p - 1) : v.glyphs[i + 1].kind = "break"})

MapToBlip(v, doc, p) ==
    LET counted == BodyChars(doc) \union Images(doc)
        lineEnds == LineEnds(doc)
        CharsSeen(i) == Cardinality({j \in counted : j < i})
        LinesSeen(i) == Cardinality({j \in lineEnds : j < i})
        charIndex == CharIndex(v, p)
        blockCount == BlockCount(v, p)
        starts == {i - 1 : i \in {j \in counted \union LineStarts(doc) :
                      CharsSeen(j) = charIndex /\ LinesSeen(j) - 1 = blockCount}}
        behindLines == {i \in lineEnds :
                      CharsSeen(i) = charIndex /\ LinesSeen(i) = blockCount}
        bodyEnd == {Len(doc) - 1}
    IN  Min(starts \union behindLines \union bodyEnd)

-----------------------------------------------------------------------------
(* onContentsChange: the mutation for an edit at a position of the view.    *)

\* deleteChars, deleteStart, deleteEnd for items i to j.
DeletedItems(doc, m, i, j) ==
    LET upTo[k \in (i - 1)..j] ==
            IF k = i - 1 THEN m
            ELSE Add(upTo[k - 1],
                     CASE doc[k].kind = "char" -> DeleteChars(<<doc[k].text>>)
                       [] doc[k].kind = "start" -> DeleteStart
                       [] OTHER -> DeleteEnd)
    IN  upTo[j]

\* One turn of the loop over what the user has removed.  Behind the last
\* item the code reads out of range; here nothing is removed.
RemoveOne(doc, s) ==
    IF s.pos >= Len(doc) \/ doc[s.pos + 1].kind = "end"
    THEN [s EXCEPT !.pos = @ + 1]
    ELSE LET last == IF doc[s.pos + 1].kind = "char" THEN s.pos + 1
                     ELSE Closing(doc, s.pos + 1)
         IN  [pos |-> last, removed |-> s.removed + last - s.pos,
              m |-> DeletedItems(doc, s.m, s.pos + 1, last)]

InsertedGlyphs(m, text) ==
    InTurn(LAMBDA built, g :
                IF g.kind = "break"
                THEN built \o <<ElementStart("line", NoAttributes), ElementEnd>>
                ELSE Add(built, InsertChars(<<g.text>>)),
             m, text)

Retained(m, n) == IF n > 0 THEN Add(m, Retain(n)) ELSE m

Removal(doc, index, charsRemoved) ==
    LET after[i \in 0..charsRemoved] ==
            IF i = 0 THEN [pos |-> index, removed |-> 0, m |-> Retained(<<>>, index)]
            ELSE RemoveOne(doc, after[i - 1])
    IN  after[charsRemoved]

ContentsMutation(doc, index, charsRemoved, text) ==
    LET s == Removal(doc, index, charsRemoved)
    IN  Retained(InsertedGlyphs(s.m, text), Len(doc) - index - s.removed)

\* Blip::insertImage.
ImageMutation(doc, index, caption) ==
    LET open == Retained(<<>>, index) \o <<ElementStart("image", NoAttributes),
                                           ElementStart("caption", NoAttributes)>>
        named == IF caption = <<>> THEN open ELSE Append(open, InsertChars(caption))
    IN  Retained(named \o <<ElementEnd, ElementEnd>>, Len(doc) - index)

-----------------------------------------------------------------------------
(* onStyleChange: the mutation for a change of style.                       *)

Keep == "keep"          \* no update for the style
Unset == "unset"        \* "$$$$$$$"

\* annotationBoundary with an update of the style, or with its end.
Boundary(update) == [type |-> "annotationBoundary", update |-> update]

\* One turn: a boundary where the document's style changes, then the item, or
\* the whole element that starts here.
StyleOne(doc, value, s) ==
    IF s.pos >= Len(doc) THEN s
    ELSE
    LET item == doc[s.pos + 1]
        width == CASE item.kind = "char" -> 1
                   [] item.kind = "start" -> Closing(doc, s.pos + 1) - s.pos
                   [] OTHER -> 0
        bounded ==
            IF item.style = s.old THEN s
            ELSE IF item.style = value /\ s.old = Unset THEN [s EXCEPT !.old = item.style]
            ELSE [s EXCEPT !.old = item.style, !.changeStart = s.formatted,
                    !.m = Append(Retained(@, s.formatted - s.changeStart),
                                 Boundary(IF item.style = value THEN Keep ELSE value))]
    IN  [bounded EXCEPT !.pos = @ + (IF width = 0 THEN 1 ELSE width),
                        !.formatted = @ + width]

StyleMutation(doc, index, charsFormatted, value) ==
    LET start == [pos |-> index, formatted |-> 0, changeStart |-> 0,
                  old |-> Unset, m |-> Retained(<<>>, index)]
        after[i \in 0..charsFormatted] ==
            IF i = 0 THEN start ELSE StyleOne(doc, value, after[i - 1])
        s == after[charsFormatted]
    IN  IF s.old # value
        THEN Retained(Append(Retained(s.m, s.formatted - s.changeStart),
                             Boundary(Keep)),
                      Len(doc) - index - s.formatted)
        ELSE Retained(s.m, Len(doc) - index - s.changeStart)

-----------------------------------------------------------------------------
(* StructuredDocument::apply for a BlipDocument: the items and annotations  *)
(* it changes, and the signals its hooks emit.  A component is taken item   *)
(* by item.                                                                 *)

Units(m) ==
    InTurn(\o, <<>>, [i \in DOMAIN m |->
        CASE m[i].type = "retain" -> [n \in 1..m[i].count |-> Retain(1)]
          [] m[i].type = "insertChars" ->
                [n \in DOMAIN m[i].text |-> InsertChars(<<m[i].text[n]>>)]
          [] m[i].type = "deleteChars" ->
                [n \in DOMAIN m[i].text |-> DeleteChars(<<m[i].text[n]>>)]
          [] OTHER -> <<m[i]>>])

NoPos == -1
NoPending == [from |-> NoPos, style |-> Keep]

\* onMutationStart.  pos, cursor, afterLine, ... are m_pos, m_cursorpos, ...
MutationStart(doc) ==
    [before |-> <<>>, behind |-> doc, update |-> Keep, old |-> Normal,
     tags |-> <<>>, inBody |-> FALSE, afterLine |-> FALSE, inCaption |-> FALSE,
     pos |-> NoPos, cursor |-> NoPos, pending |-> NoPending, signals |-> <<>>]

Merged(s) == IF s.update = Keep THEN s.old ELSE s.update

Emit(s, signal) == [s EXCEPT !.signals = Append(@, signal)]
InText(s) == s.inBody /\ s.afterLine /\ ~s.inCaption

EnterElement(s, tag) ==
    [s EXCEPT !.tags = Append(@, tag), !.inBody = @ \/ tag = "body",
              !.inCaption = @ \/ tag = "caption"]

\* The characters of a caption are counted too.
RetainCharAnywhere(s) ==
    IF s.inBody /\ s.afterLine THEN [s EXCEPT !.pos = @ + 1] ELSE s

RetainChar(s) == IF InText(s) THEN [s EXCEPT !.pos = @ + 1] ELSE s

RetainElementEnd(s) ==
    LET tag == Last(s.tags)
        left == [s EXCEPT !.tags = Front(@)]
    IN  CASE ~s.inBody -> left
          [] tag = "line" -> [left EXCEPT !.afterLine = TRUE, !.pos = @ + 1]
          [] tag = "image" -> [left EXCEPT !.pos = @ + 1]
          [] tag = "caption" -> [left EXCEPT !.inCaption = FALSE]
          [] tag = "body" -> [left EXCEPT !.inBody = FALSE]

RetainItem(s) ==
    LET item == Head(s.behind)
        at == [s EXCEPT !.old = item.style]
        kept == [at EXCEPT !.before = Append(@, [item EXCEPT !.style = Merged(at)]),
                           !.behind = Tail(@)]
    IN  CASE item.kind = "char" -> RetainChar(kept)
          [] item.kind = "start" -> EnterElement(kept, item.text)
          [] item.kind = "end" -> RetainElementEnd(kept)

\* A caption's text is deleted from the view like any other text.
DeleteItem(s) ==
    LET item == Head(s.behind)
        gone == [s EXCEPT !.old = item.style, !.behind = Tail(@)]
        there == [gone EXCEPT !.cursor = s.pos]
    IN  CASE item.kind = "char" ->
                IF s.inBody /\ s.afterLine
                THEN Emit(there, [type |-> "deletedText", pos |-> s.pos])
                ELSE there
          [] Is(item, "start", "line") /\ s.inBody ->
                Emit(there, [type |-> "deletedLineBreak", pos |-> s.pos])
          [] OTHER -> gone

InsertItem(s, item) == [s EXCEPT !.before = Append(@, item)]

InsertedChars(s, c) ==
    LET there == InsertItem(s, Item("char", c, Merged(s)))
    IN  IF ~InText(s) THEN there
        ELSE Emit([there EXCEPT !.pos = @ + 1, !.cursor = s.pos + 1],
                  [type |-> "insertedText", pos |-> s.pos, text |-> c])

InsertedElementStart(s, tag) ==
    LET inside == EnterElement(InsertItem(s, Item("start", tag, Merged(s))), tag)
    IN  IF tag = "line" THEN [inside EXCEPT !.afterLine = FALSE] ELSE inside

\* The place behind an inserted image is not counted.
InsertedElementEnd(s) ==
    LET tag == Last(s.tags)
        left == InsertItem([s EXCEPT !.tags = Front(@)], Item("end", Null, Merged(s)))
        line == [left EXCEPT !.afterLine = TRUE, !.pos = @ + 1, !.cursor = s.pos + 1]
    IN  CASE tag = "line" /\ s.inBody ->
                IF s.pos = NoPos THEN line
                ELSE Emit(line, [type |-> "insertedLineBreak", pos |-> s.pos])
          [] tag = "caption" -> [left EXCEPT !.inCaption = FALSE]
          [] tag = "image" -> Emit(left, [type |-> "insertImage", pos |-> s.pos])
          [] OTHER -> left

\* A style that ends is forgotten before the view has been told.
PendingDropped(s) == [s EXCEPT !.pending = NoPending]

\* applyPendingStyleChange, onAnnotationUpdate.
PendingApplied(s) ==
    IF s.pending = NoPending THEN s
    ELSE [Emit(s, [type |-> "setStyle", pos |-> s.pending.from, to |-> s.pos,
                   style |-> s.pending.style]) EXCEPT !.pending = NoPending]

AnnotationUpdate(s, update) ==
    LET at == [s EXCEPT !.update = update]
    IN  CASE update = Keep -> PendingApplied(at)
          [] update # Keep /\ s.pending.style = update -> at
          [] OTHER -> [PendingApplied(at) EXCEPT !.pending =
                            [from |-> s.pos, style |-> update]]

ApplyUnit(s, u) ==
    CASE u.type = "retain" -> RetainItem(s)
      [] u.type \in Deletes -> DeleteItem(s)
      [] u.type = "insertChars" -> InsertedChars(s, u.text[1])
      [] u.type = "elementStart" -> InsertedElementStart(s, u.tag)
      [] u.type = "elementEnd" -> InsertedElementEnd(s)
      [] u.type = "annotationBoundary" -> AnnotationUpdate(s, u.update)

\* onMutationEnd.
MutationEnd(s) ==
    PendingApplied(IF s.cursor = NoPos THEN s
                   ELSE Emit(s, [type |-> "setCursor", pos |-> s.cursor]))

Applied(doc, m) ==
    LET s == MutationEnd(InTurn(ApplyUnit, MutationStart(doc), Units(m)))
    IN  [document |-> s.before \o s.behind, signals |-> s.signals]

-----------------------------------------------------------------------------
(* The slots of the OTAdapter.                                              *)

\* deletePreviousChar at each of the cursors.  The assertion that the caret is
\* the cursor's own stops a debug build; a release build takes away what is there.
HideCarets(v, authors) ==
    FoldSet(LAMBDA a, hidden :
                LET p == hidden.view.cursors[a]
                IN  [view  |-> IF p = 0 THEN hidden.view
                               ELSE RemovedAt(hidden.view, p - 1, 1),
                     taken |-> IF CaretOwner(hidden.view, a) = a THEN hidden.taken
                               ELSE hidden.taken \union
                                    (IF p = 0 THEN {"nothing"}
                                     ELSE {hidden.view.glyphs[p].kind})],
            [view |-> v, taken |-> taken], authors)

\* mutationEnd.
ShowCarets(v) ==
    FoldSet(LAMBDA a, shown : InsertedAt(shown, shown.cursors[a], <<Caret(a)>>),
            v, DOMAIN v.cursors)

\* setPosition: out of range it leaves the cursor where it is, at the start.
Position(v, p) == IF p \in 0..Len(v.glyphs) THEN p ELSE 0

Slot(v, signal, author) ==
    LET p == Position(v, signal.pos)
    IN  CASE signal.type = "insertedText" ->
                InsertedAt(v, p, InFormat(v, p, <<Letter(signal.text)>>))
          [] signal.type = "insertedLineBreak" -> InsertedAt(v, p, <<Break>>)
          [] signal.type = "insertImage" -> InsertedAt(v, p, <<Object>>)
          [] signal.type \in {"deletedText", "deletedLineBreak"} ->
                IF p < Len(v.glyphs) THEN RemovedAt(v, p, 1) ELSE v
          [] signal.type = "setStyle" ->
                WithStyle(v, p, p + signal.to - signal.pos, signal.style)
          [] signal.type = "setCursor" ->
                IF author = Null THEN v
                ELSE [v EXCEPT !.cursors = (author :> p) @@ @]

\* A mutation that does not come from this view: mutationStart, its signals,
\* mutationEnd.
Display(signals, author) ==
    LET hidden == HideCarets(view, DOMAIN view.cursors)
    IN  /\ view' = ShowCarets(InTurn(LAMBDA shown, signal : Slot(shown, signal, author),
                                     hidden.view, signals))
        /\ taken' = hidden.taken

-----------------------------------------------------------------------------
(* What the adapter maps to the wrong place, noted for the properties.       *)

Displaced(v) == {a \in DOMAIN v.cursors : CaretOwner(v, a) # a}
CaretsIn(v, p, n) == {i \in (p + 1)..(p + n) : v.glyphs[i].kind = "caret"}
WithoutCarets(glyphs) == SelectSeq(glyphs, LAMBDA g : g.kind # "caret")

\* The carets in front of the place change what it is mapped to.
Mistaken(v, p) ==
    LET bare == [glyphs |-> WithoutCarets(v.glyphs), cursors |-> [a \in {} |-> 0]]
    IN  MapToBlip(v, document, p)
            # MapToBlip(bare, document, p - Cardinality(CaretsIn(v, 0, p)))

\* Text put next to, or in the place of, bold text.
NearBold(index, n) ==
    \E i \in index..(Removal(document, index, n).pos + 1) :
        i \in DOMAIN document /\ document[i].style = Bold

Misled(caret, image, format) ==
    misled' = misled \union (IF caret THEN {"caret"} ELSE {})
                     \union (IF image THEN {"image"} ELSE {})
                     \union (IF format THEN {"format"} ELSE {})

-----------------------------------------------------------------------------
(* The user at this view.                                                   *)

Selections(glyphs) ==
    {<<p, n>> \in (0..Len(glyphs)) \X (0..MaxSelected) : p + n <= Len(glyphs)}

Change == changes < MaxChanges /\ changes' = changes + 1

\* A caret whose cursor does not stand behind it counts as deleted.
DeletedCarets(edited, n) == IF n > 0 THEN Displaced(edited) ELSE {}

\* onContentsChange, after the view has changed.
UserEdits(p, n, text) ==
    LET edited == InsertedAt(RemovedAt(view, p, n), p,
                             InFormat(RemovedAt(view, p, n), p, text))
        gone == DeletedCarets(edited, n)
        known == [edited EXCEPT !.cursors = Without(@, gone)]
        index == MapToBlip(known, document, p)
        charsRemoved == Max({0, n - Cardinality(gone)})
        m == ContentsMutation(document, index, charsRemoved, text)
    IN  /\ n > 0 \/ text # <<>>
        /\ Change
        /\ view' = known
        /\ document' = Applied(document, m).document
        /\ Misled(\/ Mistaken(known, p)
                  \/ Cardinality(gone) # Cardinality(CaretsIn(view, p, n)),
                  FALSE, text # <<>> /\ NearBold(index, charsRemoved))
        /\ UNCHANGED taken

\* toggleBold and onStyleChange; the view changes with onContentsChange
\* suspended.  Carets are taken off the length only if displaced.
UserStyles(p, n, value) ==
    LET formatted == n - Cardinality(Displaced(view))
        m == StyleMutation(document, MapToBlip(view, document, p),
                           Max({0, formatted}), value)
    IN  /\ n > 0
        /\ Change
        /\ view' = WithStyle(view, p, p + n, value)
        /\ document' = IF formatted = 0 THEN document
                       ELSE Applied(document, m).document
        /\ Misled(FALSE, FALSE,
                  \/ Mistaken(view, p)
                  \/ Cardinality(Displaced(view)) # Cardinality(CaretsIn(view, p, n)))
        /\ UNCHANGED taken

\* GraphicsTextItem::insertImage: the view learns of it from the document.
UserInsertsImage(p, caption) ==
    LET m == ImageMutation(document, MapToBlip(view, document, p), caption)
        applied == Applied(document, m)
    IN  /\ Change
        /\ document' = applied.document
        /\ Display(applied.signals, Null)
        /\ UNCHANGED misled

-----------------------------------------------------------------------------
(* Other users, each with a view and an adapter of his own.                 *)

Clean == [glyphs |-> SetGraphicsText(document), cursors |-> [a \in {} |-> 0]]

RemoteChange(author, m) ==
    LET applied == Applied(document, m)
    IN  /\ Change
        /\ document' = applied.document
        /\ Display(applied.signals, author)

\* An image does not tell the view that it is deleted; its caption's text does.
DeletesImages(p, n) ==
    \E i \in (p + 1)..(p + n) : Clean.glyphs[i].kind = "object"

RemoteEdits(author, p, n, text) ==
    LET index == MapToBlip(Clean, document, p)
    IN  /\ n > 0 \/ text # <<>>
        /\ RemoteChange(author, ContentsMutation(document, index, n, text))
        /\ Misled(FALSE, DeletesImages(p, n), text # <<>> /\ NearBold(index, n))

RemoteStyles(author, p, n, value) ==
    /\ n > 0
    /\ RemoteChange(author,
                    StyleMutation(document, MapToBlip(Clean, document, p), n, value))
    /\ UNCHANGED misled

RemoteInsertsImage(author, p, caption) ==
    /\ RemoteChange(author,
                    ImageMutation(document, MapToBlip(Clean, document, p), caption))
    /\ UNCHANGED misled

\* removeOldCursors: deletePreviousChar for the carets that have become old.
CaretsGrowOld(old) ==
    /\ old # {} /\ old \subseteq DOMAIN view.cursors
    /\ LET hidden == HideCarets(view, old)
       IN  /\ view' = [hidden.view EXCEPT !.cursors = Without(@, old)]
           /\ taken' = hidden.taken
    /\ UNCHANGED <<document, misled, changes>>

-----------------------------------------------------------------------------
EditorInit ==
    /\ document \in Documents
    /\ view = [glyphs |-> SetGraphicsText(document), cursors |-> [a \in {} |-> 0]]
    /\ misled = {}
    /\ taken = {}
    /\ changes = 0

ByTheUser ==
    \/ \E s \in Selections(view.glyphs), text \in Texts \union {<<>>} :
           UserEdits(s[1], s[2], text)
    \/ \E s \in Selections(view.glyphs), value \in {Normal, Bold} :
           UserStyles(s[1], s[2], value)
    \/ \E p \in 0..Len(view.glyphs), caption \in Captions :
           UserInsertsImage(p, caption)

ByOthers ==
    \E author \in Authors :
        \/ \E s \in Selections(Clean.glyphs), text \in Texts \union {<<>>} :
               RemoteEdits(author, s[1], s[2], text)
        \/ \E s \in Selections(Clean.glyphs), value \in {Normal, Bold} :
               RemoteStyles(author, s[1], s[2], value)
        \/ \E p \in 0..Len(Clean.glyphs), caption \in Captions :
               RemoteInsertsImage(author, p, caption)

EditorNext ==
    \/ ByTheUser
    \/ ByOthers
    \/ \E old \in SUBSET Authors : CaretsGrowOld(old)

EditorSpec == EditorInit /\ [][EditorNext]_editorVars

-----------------------------------------------------------------------------
Plain(glyphs) == [i \in DOMAIN glyphs |-> [glyphs[i] EXCEPT !.style = Normal]]

SameText == Plain(WithoutCarets(view.glyphs)) = Plain(SetGraphicsText(document))

OneCaretPerCursor ==
    Cardinality({i \in DOMAIN view.glyphs : view.glyphs[i].kind = "caret"})
        = Cardinality(DOMAIN view.cursors)

\* OTAdapter: "The task of this adapter is to keep these two synchronized."
\* Whatever users do here and elsewhere, the view shows the characters, line
\* breaks and images of the document, in its order, until an edit is mapped to
\* the wrong place (a caret in front of it is counted, carets that share a
\* place are taken off the length of a deletion that holds none, somebody else
\* deletes an image) or text is taken away in the place of a caret.  Carets come
\* and go by hiding, moving and showing them around mutations, by a timer, and
\* with text the user deletes: none is left behind as text, even if a release
\* build has taken away another user's.
TextInSync ==
    misled \intersect {"caret", "image"} = {} /\ taken \subseteq {"caret"} =>
        SameText /\ OneCaretPerCursor

\* Styles set here or elsewhere, over text that has them in part, show on the
\* same characters in the document and in the view, until text is put next to
\* bold text (QTextCursor and the document inherit styles differently), the
\* user styles a selection that is mapped to the wrong place or held a caret, or
\* one of the exceptions of TextInSync has happened.
FormatsInSync ==
    misled = {} /\ taken \subseteq {"caret"} =>
        WithoutCarets(view.glyphs) = SetGraphicsText(document)
=============================================================================
