----------------------------- MODULE MCFetchUsers -----------------------------
(***************************************************************************)
(* Instances of FetchUsers for TLC.                                        *)
(***************************************************************************)
EXTENDS FetchUsers, TLC

CONSTANTS u1, u2, u3, s1, s2, p1, p2, p3

Users == {u1, u2, u3}

\* Two of one age, and one at the upper end that the missing younger ages move up.
Ages3 == u1 :> 19 @@ u2 :> 19 @@ u3 :> 22
Processes == {p1, p2, p3}
Third == {p3}
Sessions == {s1, s2}
Symmetry == Permutations(Process \ Disconnects)

===============================================================================
