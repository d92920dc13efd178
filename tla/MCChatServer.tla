----------------------------- MODULE MCChatServer -----------------------------
(***************************************************************************)
(* Instances of ChatServer for TLC.                                        *)
(***************************************************************************)
EXTENDS ChatServer, TLC

CONSTANTS u1, u2, p1, p2

TwoUsers == {u1, u2}
OnePlace == {p1}
TwoPlaces == {p1, p2}
SameHome == [u \in User |-> p1]
First == {u1}
Second == {u2}
Nobody == {}
Returning == u1 :> 2 @@ u2 :> 1
Absent == u1 :> 2 @@ u2 :> 0
Once == [u \in User |-> 1]

===============================================================================
