----------------------------- MODULE MCMatchmaker -----------------------------
(***************************************************************************)
(* Instances of Matchmaker for TLC.                                        *)
(***************************************************************************)
EXTENDS Matchmaker, TLC

CONSTANTS u1, u2, u3, m, f

MCUser == {u1, u2, u3}

\* u3 is out of the others' reach until somebody's age window has widened.
MCAge == u1 :> 20 @@ u2 :> 20 @@ u3 :> 25
MCGender == u1 :> m @@ u2 :> f @@ u3 :> f

MCFilterValue == {m, f, AnyGender}

\* u2 may want to meet women only, which leaves u1 with an edge of its own to u2.
MCFilters == u1 :> {AnyGender} @@ u2 :> {AnyGender, f} @@ u3 :> {AnyGender}

Joins(u) ==
  {[NoRound EXCEPT !.new_users = u :> [gender_filter |-> g, disallowed |-> {}]] :
     g \in MCFilters[u]}
Leaves(u) == [NoRound EXCEPT !.disconnected_users = {u}]
Returns(d) == [NoRound EXCEPT !.returning_users = d]
Declined(u, v) == [NoRound EXCEPT !.decline_pairs = <<<<u, v>>>>]
OtherPairs == {p \in User \X User : p[1] # p[2]}

\* Pairs come back from a call or decline each other; one of them may leave
\* before the matchmaker hears of it.
CallInputs ==
  UNION {Joins(u) : u \in User}
  \cup {Leaves(u) : u \in User}
  \cup {Returns(p[1] :> p[2] @@ p[2] :> p[1]) : p \in OtherPairs}
  \cup {Declined(p[1], p[2]) : p \in OtherPairs}

===============================================================================
