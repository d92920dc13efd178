------------------------------ MODULE MCTextLobby ------------------------------
(***************************************************************************)
(* Instances of TextLobby for TLC.                                         *)
(***************************************************************************)
EXTENDS TextLobby, TLC

CONSTANTS u1, u2, u3

ThreeUsers == {u1, u2, u3}
First == {u1}
ThirdIsLate == {<<u1, u2>>, <<u2, u1>>, <<u3, u1>>}
FirstTwice == [u \in User |-> IF u = u1 THEN 2 ELSE 1]

===============================================================================
