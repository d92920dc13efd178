--------------------------- MODULE MCConversations ----------------------------
(***************************************************************************)
(* Instances of Conversations for TLC.                                     *)
(***************************************************************************)
EXTENDS Conversations, TLC

CONSTANTS u1, u2, u3, c1, c2

ThreeUsers == {u1, u2, u3}
TwoChats == {c1, c2}
BothAsked == c1 :> <<u1, u2>> @@ c2 :> <<u1, u3>>
FirstWrites == {<<u1, c1>>, <<u1, c2>>}
OneAnswers == FirstWrites \cup {<<u2, c1>>}
Once == [u \in User |-> 1]
SecondReturns == [u \in User |-> IF u = u2 THEN 2 ELSE 1]

\* Bound: u3, once he has connected, keeps his websocket.
ThirdStays == opened[u3] = 0 \/ u3 \in attached

===============================================================================
