------------------------------ MODULE MCMainServer ------------------------------
(***************************************************************************)
(* Instances of MainServer for TLC.                                        *)
(***************************************************************************)
EXTENDS MainServer, TLC

CONSTANTS i1, i2, i3, i4, i5, l1, l2, l3, r1, r2, all

People == {i1, i2, i3, i4, i5}
WithAccount == {i1, i3, i4}
Impatient == {i1, i5}
Last == {i4}
ThreeLogins == {l1, l2, l3}
MostlyTwo == [i \in Person |-> IF i = i5 THEN ThreeLogins ELSE {l1, l2}]
TwoRequests == {r1, r2}
OneList == {all}

\* The lists are of the users whose profiles change while the updater is at work.
Listed == [k \in Key |-> {i3, i4}]

Sessions == ({i1} \X {"login", "check", "delete"}) \cup {<<i2, "login">>}
Doubles == {<<i5, "login">>}
Balances == ({i1, i2} \X {"swipe", "reap", "feedback"}) \cup {<<i2, "login">>}
Crossings == {i1} \X {"show", "patch", "delete"}
Profiles == ({i4} \X {"show", "patch", "delete"}) \cup {<<Updater, "job">>}
Ranks == {<<i3, "bonus">>, <<i3, "delete">>, <<i4, "patch">>, <<Updater, "job">>}
AllScenarios == {Sessions, Doubles, Balances, Crossings, Profiles, Ranks}
===============================================================================
