----------------------------- MODULE PairingLobby -----------------------------
(***************************************************************************)
(* What the matchmaker promises about its lobby: a user waits in it or is  *)
(* engaged with somebody, only two different users who both wait are       *)
(* paired, and an engaged user waits again only when he is set free.       *)
(***************************************************************************)
CONSTANT User

VARIABLES
  lobby,    \* users waiting for a match
  engaged   \* users who were given a match and have not come back yet

Init == lobby = {} /\ engaged = {}

Join(u) ==
  /\ u \notin lobby \cup engaged
  /\ lobby' = lobby \cup {u}
  /\ UNCHANGED engaged

Leave(u) ==
  /\ u \in lobby \cup engaged
  /\ lobby' = lobby \ {u}
  /\ engaged' = engaged \ {u}

Pair(u, v) ==
  /\ u # v
  /\ {u, v} \subseteq lobby
  /\ lobby' = lobby \ {u, v}
  /\ engaged' = engaged \cup {u, v}

Free(S) ==
  /\ S \subseteq engaged
  /\ lobby' = lobby \cup S
  /\ engaged' = engaged \ S

Next ==
  \/ \E u \in User : Join(u) \/ Leave(u)
  \/ \E u, v \in User : Pair(u, v)
  \/ \E S \in SUBSET User : Free(S)

Spec == Init /\ [][Next]_<<lobby, engaged>>

===============================================================================
