------------------------------ MODULE MCOTSystem ------------------------------
(***************************************************************************)
(* Small instances of OTSystem: a body element, with or without a          *)
(* character in it, edited by users who type one letter each.              *)
(***************************************************************************)
EXTENDS OTSystem

CONSTANTS body, x, u1, u2, l1, l2

MCBody == <<Start(body, NoAttributes), End>>
MCText == <<Start(body, NoAttributes), Char(x), End>>
MCNoDoc == <<>>

First == CHOOSE c \in Clients : TRUE

MCTwoUsers == [c \in Clients |-> IF c = First THEN u1 ELSE u2]
MCLetters == [c \in Clients |-> IF c = First THEN l1 ELSE l2]

MCTwoEach == [c \in Clients |-> 2]
MCThreeAndTwo == [c \in Clients |-> IF c = First THEN 3 ELSE 2]
=============================================================================
