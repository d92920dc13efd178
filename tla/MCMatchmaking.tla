----------------------------- MODULE MCMatchmaking -----------------------------
(***************************************************************************)
(* Instances of Matchmaking for TLC.                                       *)
(***************************************************************************)
EXTENDS Matchmaking, TLC

CONSTANTS u1, u2, u3, m, f

TwoUsers == {u1, u2}
ThreeUsers == {u1, u2, u3}

SameAge == [u \in User |-> 20]
OneGender == [u \in User |-> m]
Symmetry == Permutations(User)
DeclinesAndDrops == {"decline", "drop"}
CallsAndDrops == {"accept", "end call", "drop"}
Stay == {"accept", "decline", "end call"}
AllFilters == {m, f, AnyGender}
NoFilter == [u \in User |-> {AnyGender}]
NoChats == [u \in User |-> {}]

===============================================================================
