------------------------------ MODULE MCEditor ------------------------------
(***************************************************************************)
(* A small instance of Editor: a line with a letter and an empty one; a    *)
(* user types a letter or pastes a line; images have a caption or none.    *)
(***************************************************************************)
EXTENDS Editor

MCTexts == {<<Letter("x")>>, <<Break, Letter("x")>>}
MCDocuments == {<<BodyStart, LineStart, EndTag, Item("char", "a", Normal),
                  LineStart, EndTag, EndTag>>}
MCCaptions == {<<>>, <<"y", "y">>}
=============================================================================
