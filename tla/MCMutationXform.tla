--------------------------- MODULE MCMutationXform ---------------------------
(***************************************************************************)
(* Small documents and mutations for MutationXform: an element around a    *)
(* character, texts of one to three characters, and the empty document.    *)
(***************************************************************************)
EXTENDS MutationXform

CONSTANTS key, v1, v2, para, x, y, z

With(v) == [k \in {key} |-> v]

\* Small enough to try the insertions at their end, too.
MCOpenEnded == { <<>>, <<Char(x)>> }

\* Long enough for two changes of style that overlap, and are over.
Styled == <<Char(x), Char(y), Char(x)>>

MCDocs ==
    { <<Start(para, With(v1)), Char(x), End>>, <<Char(x), Char(y)>>, Styled } \cup MCOpenEnded

MCInsertionsOf(d) ==
    IF d = Styled THEN { <<>> }
    ELSE { <<>>, <<InsertChars(<<z>>)>>, <<ElementStart(para, NoAttributes), ElementEnd>> }

MCTagChanges == { With(v2), With(Null) }

\* The texts have styles, and the first character may have one from the start.
MCStylesOf(d) ==
    LET plain == [i \in DOMAIN d |-> NoAttributes]
    IN  IF d \in {<<Char(x), Char(y)>>, Styled}
        THEN { plain, [plain EXCEPT ![1] = style :> v1] }
        ELSE { <<>> }

MCRestyles == { v2, Null }
=============================================================================
