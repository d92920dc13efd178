-------------------------- MODULE Matchmaker_proofs --------------------------
(***************************************************************************)
(* Proofs about Matchmaker, for every set of users, every age, gender and  *)
(* setting, and every round the server may send.                           *)
(***************************************************************************)
EXTENDS Matchmaker, TLAPS

-------------------------------------------------------------------------------
(* Lemmas about the operators *)

\* Dropping a key of a dictionary leaves a dictionary over the same keys.
LEMMA WithoutType ==
  ASSUME NEW K, NEW V, NEW d \in Dict(K, V), NEW k
  PROVE  Without(d, k) \in Dict(K, V)
<1>1. PICK D \in SUBSET K : d \in [D -> V]
  BY DEF Dict
<1>2. Without(d, k) \in [D \ {k} -> V] /\ D \ {k} \in SUBSET K
  BY <1>1 DEF Without
<1>3. QED
  BY <1>2 DEF Dict

\* A dictionary maps each of its keys, which are among K, into V.
LEMMA DictValue ==
  ASSUME NEW K, NEW V, NEW d \in Dict(K, V), NEW k \in DOMAIN d
  PROVE  d[k] \in V /\ k \in K
<1>1. PICK D \in SUBSET K : d \in [D -> V]
  BY DEF Dict
<1>2. QED
  BY <1>1

\* An empty round is round data: a process that starts has nothing to work off.
LEMMA NoRoundType == NoRound \in RoundData
<1>1. EmptyDict \in [{} -> Newcomer] /\ EmptyDict \in [{} -> User \cup {NoUser}]
  BY DEF EmptyDict
<1>2. EmptyDict \in Dict(User, Newcomer) /\ EmptyDict \in Dict(User, User \cup {NoUser})
  BY <1>1 DEF Dict
<1>3. QED
  BY <1>2 DEF NoRound, RoundData

\* Working off a part of the round's data leaves round data.
LEMMA InboxType ==
  ASSUME NEW d \in RoundData, NEW u
  PROVE  /\ [d EXCEPT !.returning_users = Without(@, u)] \in RoundData
         /\ [d EXCEPT !.new_users = Without(@, u)] \in RoundData
         /\ [d EXCEPT !.disconnected_users = @ \ {u}, !.new_users = Without(@, u)]
              \in RoundData
         /\ d.decline_pairs # <<>> =>
              /\ [d EXCEPT !.decline_pairs = Tail(@)] \in RoundData
              /\ Head(d.decline_pairs) \in User \X User
<1>1. /\ d.new_users \in Dict(User, Newcomer)
      /\ d.returning_users \in Dict(User, User \cup {NoUser})
      /\ d.disconnected_users \in SUBSET User
      /\ d.decline_pairs \in Seq(User \X User)
  BY DEF RoundData
<1>2. /\ Without(d.new_users, u) \in Dict(User, Newcomer)
      /\ Without(d.returning_users, u) \in Dict(User, User \cup {NoUser})
  BY <1>1, WithoutType
<1>3. d.decline_pairs # <<>> => /\ Tail(d.decline_pairs) \in Seq(User \X User)
                               /\ Head(d.decline_pairs) \in User \X User
  BY <1>1
<1>4. QED
  BY <1>1, <1>2, <1>3 DEF RoundData

\* Settings stay settings, and the age window of a user only ever widens.
LEMMA SettingsType ==
  /\ \A g \in FilterValue : NewSettings(g) \in MMSettings
  /\ \A s \in MMSettings :
       /\ ResetWeight(s) \in MMSettings
       /\ ResetWeight(s).age_diff = s.age_diff
       /\ ResetWeight(s).gender_filter = s.gender_filter
       /\ SearchWider(s) \in MMSettings
       /\ SearchWider(s).age_diff >= s.age_diff
       /\ SearchWider(s).gender_filter = s.gender_filter
<1>1. ASSUME NEW g \in FilterValue PROVE NewSettings(g) \in MMSettings
  <2>1. DefaultAgeDiff \in 0..MaxAgeDiff /\ 0 \in 0..WeightCap
    BY ParamAssumption
  <2>2. QED
    BY <2>1 DEF NewSettings, MMSettings
<1>2. ASSUME NEW s \in MMSettings
      PROVE  /\ ResetWeight(s) \in MMSettings
             /\ ResetWeight(s).age_diff = s.age_diff
             /\ ResetWeight(s).gender_filter = s.gender_filter
  <2>1. 0 \in 0..WeightCap
    BY ParamAssumption
  <2>2. QED
    BY <2>1 DEF ResetWeight, MMSettings
<1>3. ASSUME NEW s \in MMSettings
      PROVE  /\ SearchWider(s) \in MMSettings
             /\ SearchWider(s).age_diff >= s.age_diff
             /\ SearchWider(s).gender_filter = s.gender_filter
  <2>1. s.current_weight \in 0..WeightCap /\ s.age_diff \in 0..MaxAgeDiff
    BY DEF MMSettings
  <2>2. /\ Capped(s.current_weight + 1, WeightCap) \in 0..WeightCap
        /\ Capped(s.age_diff + AgeDiffStep, MaxAgeDiff) \in 0..MaxAgeDiff
        /\ Capped(s.age_diff + AgeDiffStep, MaxAgeDiff) >= s.age_diff
    BY <2>1, ParamAssumption DEF Capped
  <2>3. QED
    BY <2>2 DEF SearchWider, MMSettings
<1>4. QED
  BY <1>1, <1>2, <1>3

\* Connecting vertices changes nothing but flags.
LEMMA ConnectType ==
  ASSUME NEW e \in [User -> [User -> EdgeFlag]], NEW m, NEW d, NEW u, NEW S
  PROVE  ConnectWith(e, m, d, u, S) \in [User -> [User -> EdgeFlag]]
BY DEF ConnectWith, EdgeFlag

-------------------------------------------------------------------------------
(* Type correctness *)

\* The matchmaker starts with well-typed, empty state.
LEMMA TypeInit == Init => TypeOK /\ PhaseInv
<1> SUFFICES ASSUME Init PROVE TypeOK /\ PhaseInv
  OBVIOUS
<1>1. [u \in User |-> NewSettings(AnyGender)] \in [User -> MMSettings]
  BY SettingsType, ParamAssumption
<1>2. 0 \in 0..MaxCandidates
  BY ParamAssumption
<1>3. QED
  BY <1>1, <1>2, NoRoundType DEF Init, TypeOK, PhaseInv, NoEdges, EdgeFlag

\* Every step of the matchmaker keeps its state well typed, the steps that end a
\* round with an exception included.
LEMMA TypeStep == TypeOK /\ PhaseInv /\ [Next]_vars => TypeOK' /\ PhaseInv'
<1> SUFFICES ASSUME TypeOK, PhaseInv, [Next]_vars PROVE TypeOK' /\ PhaseInv'
  OBVIOUS
<1> USE DEF TypeOK, PhaseInv
<1>z. 0 \in 0..MaxCandidates
  BY ParamAssumption
<1>1. ASSUME NEW data \in RoundInputs, FetchRound(data) PROVE TypeOK' /\ PhaseInv'
  BY <1>1, ParamAssumption, InputsAssumption DEF FetchRound, graphVars
<1>2. ASSUME NEW u \in User, ReturnUser(u) PROVE TypeOK' /\ PhaseInv'
  <2>1. inbox' \in RoundData
    BY <1>2, InboxType DEF ReturnUser
  <2>2. inbox.returning_users[u] \in User \cup {NoUser}
    BY <1>2, DictValue DEF ReturnUser, Returning, RoundData
  <2>3. disallowed' \in [User -> SUBSET User]
    BY <1>2, <2>2, ParamAssumption DEF ReturnUser
  <2>4. QED
    BY <1>2, <2>1, <2>3 DEF ReturnUser
<1>3. ASSUME NEW u \in User, ReturnFails(u) PROVE TypeOK' /\ PhaseInv'
  BY <1>3, <1>z, NoRoundType DEF ReturnFails, AbandonRound, graphVars
<1>4. CASE DeclinePair
  <2>1. /\ inbox' \in RoundData
        /\ Head(Declines) \in User \X User
    BY <1>4, InboxType DEF DeclinePair, Declines
  <2>2. PICK a \in User, b \in User : Head(Declines) = <<a, b>>
    BY <2>1
  <2>3. edges' \in [User -> [User -> EdgeFlag]] /\ disallowed' \in [User -> SUBSET User]
    BY <1>4, <2>2 DEF DeclinePair, Disconnected, Disallowing, EdgeFlag
  <2>4. QED
    BY <1>4, <2>1, <2>3 DEF DeclinePair
<1>5. CASE DeclineFails
  <2>1. Head(Declines) \in User \X User
    BY <1>5, InboxType DEF DeclineFails, Declines
  <2>2. PICK a \in User, b \in User : Head(Declines) = <<a, b>>
    BY <2>1
  <2>3. edges' \in [User -> [User -> EdgeFlag]]
    BY <1>5, <2>2 DEF DeclineFails, EdgeFlag
  <2>4. QED
    BY <1>5, <2>3, <1>z, NoRoundType DEF DeclineFails, AbandonRound
<1>6. ASSUME NEW u \in User, LeaveUnknown(u) PROVE TypeOK' /\ PhaseInv'
  <2>1. inbox' \in RoundData
    BY <1>6, InboxType DEF LeaveUnknown, DropLeaver
  <2>2. QED
    BY <1>6, <2>1 DEF LeaveUnknown, LeaverTurn
<1>7. ASSUME NEW u \in User, LeaveGraph(u) PROVE TypeOK' /\ PhaseInv'
  <2>1. inbox' \in RoundData
    BY <1>7, InboxType DEF LeaveGraph, DropLeaver
  <2>2. edges' \in [User -> [User -> EdgeFlag]]
    BY <1>7 DEF LeaveGraph, CutFrom, NoEdges, EdgeFlag
  <2>3. mm' \in [User -> MMSettings]
    BY <1>7, SettingsType, ParamAssumption DEF LeaveGraph
  <2>4. QED
    BY <1>7, <2>1, <2>2, <2>3 DEF LeaveGraph, LeaverTurn
<1>8. ASSUME NEW u \in User, LeaveFails(u) PROVE TypeOK' /\ PhaseInv'
  <2>1. edges' \in [User -> [User -> EdgeFlag]]
    BY <1>8 DEF LeaveFails, CutFrom, EdgeFlag
  <2>2. QED
    BY <1>8, <2>1, <1>z, NoRoundType DEF LeaveFails, LeaverTurn, AbandonRound
<1>9. ASSUME NEW u \in User, JoinGraph(u) PROVE TypeOK' /\ PhaseInv'
  <2>1. inbox' \in RoundData
    BY <1>9, InboxType DEF JoinGraph, JoinerTurn
  <2>2. inbox.new_users[u] \in Newcomer
    BY <1>9, DictValue DEF JoinGraph, JoinerTurn, Joining, RoundData
  <2>3. mm' \in [User -> MMSettings] /\ disallowed' \in [User -> SUBSET User]
    BY <1>9, <2>2, SettingsType DEF JoinGraph, Newcomer
  <2>4. edges' \in [User -> [User -> EdgeFlag]]
    BY <1>9, ConnectType DEF JoinGraph
  <2>5. QED
    BY <1>9, <2>1, <2>3, <2>4 DEF JoinGraph, JoinerTurn
<1>10. ASSUME NEW u \in User, JoinKnown(u) PROVE TypeOK' /\ PhaseInv'
  <2>1. inbox' \in RoundData
    BY <1>10, InboxType DEF JoinKnown, JoinerTurn
  <2>2. QED
    BY <1>10, <2>1 DEF JoinKnown, JoinerTurn
<1>11. ASSUME NEW u \in User, NEW conns \in SUBSET User, FetchCandidates(u, conns)
       PROVE  TypeOK' /\ PhaseInv'
  <2>1. edges' \in [User -> [User -> EdgeFlag]]
    BY <1>11, ConnectType DEF FetchCandidates
  <2>2. fetches' \in 0..MaxCandidates
    BY <1>11, ParamAssumption DEF FetchCandidates
  <2>3. QED
    BY <1>11, <2>1, <2>2 DEF FetchCandidates
<1>12. CASE StartMatching
  BY <1>12, <1>z DEF StartMatching, graphVars
<1>13. ASSUME NEW u \in User, SkipProcessed(u) PROVE TypeOK' /\ PhaseInv'
  BY <1>13 DEF SkipProcessed, graphVars
<1>14. ASSUME NEW u \in User, NEW v \in User, Match(u, v) PROVE TypeOK' /\ PhaseInv'
  <2>1. edges' \in [User -> [User -> EdgeFlag]]
    BY <1>14 DEF Match, HeapHead, PrunedEdges, EdgeFlag
  <2>2. mm' \in [User -> MMSettings]
    BY <1>14, SettingsType DEF Match
  <2>3. {u, v} \subseteq graph
    BY <1>14 DEF Match, HeapHead, Heaviest, Candidates
  <2>4. QED
    BY <1>14, <2>1, <2>2, <2>3 DEF Match
<1>15. ASSUME NEW u \in User, NoMatch(u) PROVE TypeOK' /\ PhaseInv'
  <2>1. edges' \in [User -> [User -> EdgeFlag]]
    BY <1>15 DEF NoMatch, HeapHead, PrunedEdges, EdgeFlag
  <2>2. mm' \in [User -> MMSettings]
    BY <1>15, SettingsType DEF NoMatch
  <2>3. u \in graph
    BY <1>15 DEF NoMatch, HeapHead, Heaviest
  <2>4. QED
    BY <1>15, <2>1, <2>2, <2>3 DEF NoMatch
<1>16. CASE FinishRound
  BY <1>16, <1>z, NoRoundType DEF FinishRound, AbandonRound
<1>17. CASE MatchPosted
  BY <1>17 DEF MatchPosted, graphVars
<1>18. CASE PostFails
  BY <1>18, <1>z, NoRoundType DEF PostFails, AbandonRound, graphVars
<1>19. CASE UNCHANGED vars
  BY <1>19 DEF vars
<1>20. QED
  BY <1>1, <1>2, <1>3, <1>4, <1>5, <1>6, <1>7, <1>8, <1>9, <1>10, <1>11, <1>12, <1>13,
     <1>14, <1>15, <1>16, <1>17, <1>18, <1>19 DEF Next, Prepare, Generate

\* The matchmaker never leaves its types, whatever round data it is given and
\* wherever an exception ends the round.
THEOREM TypeCorrect == Spec => [](TypeOK /\ PhaseInv)
BY TypeInit, TypeStep, PTL DEF Spec

-------------------------------------------------------------------------------
(* A pair that is posted fits both users *)

\* A wider age window admits whom the narrower one admitted.
LEMMA FitsWider ==
  ASSUME NEW s \in MMSettings, NEW t \in MMSettings, NEW u \in User, NEW v \in User,
         t.age_diff >= s.age_diff, t.gender_filter = s.gender_filter, Fits(s, u, v)
  PROVE  Fits(t, u, v)
<1>1. Age[u] \in Nat /\ Age[v] \in Nat /\ s.age_diff \in Nat /\ t.age_diff \in Nat
  BY ParamAssumption DEF MMSettings
<1>2. QED
  BY <1>1 DEF Fits

\* What ConnectWith writes: a flag is new only between u and a member of S, and
\* then "both" means that each end may connect to the other.
LEMMA ConnectFlag ==
  ASSUME NEW e \in [User -> [User -> EdgeFlag]], NEW m, NEW d, NEW u, NEW S,
         NEW x \in User, NEW y \in User
  PROVE  LET c == ConnectWith(e, m, d, u, S)[x][y]
         IN \/ /\ c = e[x][y]
               /\ ~((x = u /\ y \in S) \/ (y = u /\ x \in S)) \/ ~CanConnect(m, d, x, y)
            \/ c = "oneway" /\ ((x = u /\ y \in S) \/ (y = u /\ x \in S))
            \/ /\ (x = u /\ y \in S) \/ (y = u /\ x \in S)
               /\ c = "both" /\ CanConnect(m, d, x, y) /\ CanConnect(m, d, y, x)
BY DEF ConnectWith

\* A matchmaker without vertices has no edges.
LEMMA EdgeInit == Init => EdgeInv
BY DEF Init, EdgeInv

\* No step gives an edge a flag it does not deserve: edges appear only when both
\* vertices are in the graph, and age windows never shrink.
LEMMA EdgeStep ==
  TypeOK /\ PhaseInv /\ EdgeInv /\ [Next]_vars => EdgeInv'
<1> SUFFICES ASSUME TypeOK, PhaseInv, EdgeInv, [Next]_vars PROVE EdgeInv'
  OBVIOUS
<1> USE DEF TypeOK
<1>1. ASSUME NEW u \in User, ReturnUser(u) PROVE EdgeInv'
  BY <1>1 DEF ReturnUser, EdgeInv
<1>2. ASSUME graph' = graph, mm' = mm,
             \A x \in User : disallowed[x] \subseteq disallowed'[x],
             \A x, y \in User : edges'[x][y] = edges[x][y] \/ edges'[x][y] = "none",
             \A x \in User \ graph : edges'[x] = edges[x]
      PROVE  EdgeInv'
  <2>1. \A x \in User \ graph' : edges'[x] = NoEdges
    BY <1>2 DEF EdgeInv
  <2>2. \A x \in graph' : edges'[x][x] = "none"
    BY <1>2 DEF EdgeInv
  <2>3. ASSUME NEW x \in graph', NEW y \in User, edges'[x][y] = "both"
        PROVE  /\ Fits(mm'[x], x, y)
               /\ y \in disallowed'[x] \/ y \notin graph' \/ Fits(mm'[y], y, x)
    <3>1. x \in graph /\ edges[x][y] = "both"
      BY <1>2, <2>3
    <3>2. QED
      BY <1>2, <3>1 DEF EdgeInv
  <2>4. QED
    BY <2>1, <2>2, <2>3 DEF EdgeInv
<1>3. CASE DeclinePair \/ DeclineFails
  <2>0. Head(Declines) \in User \X User
    BY <1>3, InboxType DEF DeclinePair, DeclineFails, Declines
  <2>1. PICK a \in User, b \in User : Head(Declines) = <<a, b>>
    BY <2>0
  <2>2. \A x, y \in User : edges'[x][y] = edges[x][y] \/ edges'[x][y] = "none"
    BY <1>3, <2>1 DEF DeclinePair, DeclineFails, Disconnected
  <2>3. \A x \in User \ graph : edges'[x] = edges[x]
    BY <1>3, <2>1 DEF DeclinePair, DeclineFails, Disconnected
  <2>4. \A x \in User : disallowed[x] \subseteq disallowed'[x]
    BY <1>3, <2>1 DEF DeclinePair, DeclineFails, Disallowing
  <2>5. graph' = graph /\ mm' = mm
    BY <1>3 DEF DeclinePair, DeclineFails
  <2>6. QED
    BY <1>2, <2>2, <2>3, <2>4, <2>5
<1>4. ASSUME NEW u \in User, LeaveGraph(u) PROVE EdgeInv'
  <2>1. \A x, y \in User : edges'[x][y] # edges[x][y] => edges'[x][y] = "none"
    BY <1>4 DEF LeaveGraph, CutFrom, NoEdges
  <2>2. \A x \in User \ graph' : edges'[x] = NoEdges
    <3>1. \A x \in User \ graph : edges[x] = NoEdges
      BY DEF EdgeInv
    <3>2. \A x \in User \ graph : x # u /\ x \notin Neighbours(u)
      BY <1>4 DEF LeaveGraph
    <3>3. QED
      BY <1>4, <3>1, <3>2 DEF LeaveGraph, CutFrom
  <2>3. \A x \in graph' : x \in graph /\ mm'[x] = mm[x] /\ disallowed'[x] = disallowed[x]
    BY <1>4 DEF LeaveGraph
  <2>4. QED
    BY <2>1, <2>2, <2>3 DEF EdgeInv
<1>5. ASSUME NEW u \in User, LeaveFails(u) PROVE EdgeInv'
  <2>1. PICK S \in SUBSET (Neighbours(u) \cap graph) : edges' = CutFrom(S, u)
    BY <1>5 DEF LeaveFails
  <2>2. \A x, y \in User : edges'[x][y] # edges[x][y] => edges'[x][y] = "none"
    BY <2>1 DEF CutFrom
  <2>3. \A x \in User \ graph : edges'[x] = edges[x]
    BY <2>1 DEF CutFrom
  <2>4. graph' = graph /\ mm' = mm /\ disallowed' = disallowed
    BY <1>5 DEF LeaveFails
  <2>5. QED
    BY <1>2, <2>2, <2>3, <2>4
<1>6. ASSUME NEW u \in User, JoinGraph(u) PROVE EdgeInv'
  <2> DEFINE Fresh(x, y) == (x = u /\ y \in graph) \/ (y = u /\ x \in graph)
  <2>1. /\ u \notin graph /\ graph' = graph \cup {u}
        /\ edges' = ConnectWith(edges, mm', disallowed', u, graph)
        /\ \A x \in User \ {u} : mm'[x] = mm[x] /\ disallowed'[x] = disallowed[x]
    BY <1>6 DEF JoinGraph
  <2>2. \A x, y \in User :
          \/ /\ edges'[x][y] = edges[x][y]
             /\ ~Fresh(x, y) \/ ~CanConnect(mm', disallowed', x, y)
          \/ edges'[x][y] = "oneway" /\ Fresh(x, y)
          \/ /\ Fresh(x, y) /\ edges'[x][y] = "both"
             /\ CanConnect(mm', disallowed', x, y) /\ CanConnect(mm', disallowed', y, x)
    BY <2>1, ConnectFlag
  <2>3. \A x \in User \ graph' : edges'[x] = NoEdges
    BY <2>1 DEF EdgeInv, ConnectWith, NoEdges
  <2>4. \A x \in graph' : edges'[x][x] = "none"
    BY <2>1, <2>2 DEF EdgeInv, NoEdges
  <2>5. ASSUME NEW x \in graph', NEW y \in User, edges'[x][y] = "both"
        PROVE  /\ Fits(mm'[x], x, y)
               /\ y \in disallowed'[x] \/ y \notin graph' \/ Fits(mm'[y], y, x)
    <3>1. CASE Fresh(x, y) /\ CanConnect(mm', disallowed', x, y)
                           /\ CanConnect(mm', disallowed', y, x)
      BY <3>1 DEF CanConnect
    <3>2. CASE /\ edges'[x][y] = edges[x][y]
               /\ ~Fresh(x, y) \/ ~CanConnect(mm', disallowed', x, y)
      <4>1. x # u /\ x \in graph
        BY <2>1, <2>5, <3>2 DEF EdgeInv, NoEdges
      <4>2. /\ Fits(mm[x], x, y)
            /\ y \in disallowed[x] \/ y \notin graph \/ Fits(mm[y], y, x)
        BY <2>5, <3>2, <4>1 DEF EdgeInv
      <4>3. CASE y = u
        BY <2>1, <3>2, <4>1, <4>2, <4>3 DEF CanConnect
      <4>4. CASE y # u
        BY <2>1, <4>1, <4>2, <4>4
      <4>5. QED
        BY <4>3, <4>4
    <3>3. QED
      BY <2>1, <2>2, <2>5, <3>1, <3>2
  <2>6. QED
    BY <2>3, <2>4, <2>5 DEF EdgeInv
<1>7. ASSUME NEW u \in User, NEW conns \in SUBSET User, FetchCandidates(u, conns)
      PROVE  EdgeInv'
  <2>0. graph' = graph /\ mm' = mm /\ disallowed' = disallowed
    BY <1>7 DEF FetchCandidates
  <2>1. CASE u \notin graph
    BY <1>7, <2>0, <2>1 DEF FetchCandidates, EdgeInv
  <2>2. CASE u \in graph
    <3> DEFINE S == conns \cap graph
               Fresh(x, y) == (x = u /\ y \in S) \/ (y = u /\ x \in S)
    <3>1. edges' = ConnectWith(edges, mm, disallowed, u, S) /\ u \notin S
      BY <1>7, <2>2 DEF FetchCandidates
    <3>2. \A x, y \in User :
            \/ edges'[x][y] = edges[x][y]
            \/ edges'[x][y] = "oneway" /\ Fresh(x, y)
            \/ /\ Fresh(x, y) /\ edges'[x][y] = "both"
               /\ CanConnect(mm, disallowed, x, y) /\ CanConnect(mm, disallowed, y, x)
      BY <3>1, ConnectFlag
    <3>3. \A x \in User \ graph : edges'[x] = NoEdges
      BY <3>1, <2>2 DEF EdgeInv, ConnectWith, NoEdges
    <3>4. \A x \in graph : edges'[x][x] = "none"
      <4>1. \A x \in User : ~Fresh(x, x)
        BY <3>1
      <4>2. \A x \in User : edges'[x][x] = edges[x][x]
        BY <3>2, <4>1
      <4>3. QED
        BY <4>2 DEF EdgeInv
    <3>5. ASSUME NEW x \in graph, NEW y \in User, edges'[x][y] = "both"
          PROVE  /\ Fits(mm[x], x, y)
                 /\ y \in disallowed[x] \/ y \notin graph \/ Fits(mm[y], y, x)
      <4>1. CASE edges'[x][y] = edges[x][y]
        BY <3>5, <4>1 DEF EdgeInv
      <4>2. CASE CanConnect(mm, disallowed, x, y) /\ CanConnect(mm, disallowed, y, x)
        BY <4>2 DEF CanConnect
      <4>3. QED
        BY <3>2, <3>5, <4>1, <4>2
    <3>6. QED
      BY <2>0, <3>3, <3>4, <3>5 DEF EdgeInv
  <2>3. QED
    BY <2>1, <2>2
<1>8. ASSUME NEW u \in User, HeapHead(u), graph' = graph, disallowed' = disallowed,
             \A x \in User : /\ mm'[x] \in MMSettings
                             /\ mm'[x].age_diff >= mm[x].age_diff
                             /\ mm'[x].gender_filter = mm[x].gender_filter
      PROVE  EdgeInv'
  <2>1. \A x, y \in User : edges'[x][y] # edges[x][y] => edges'[x][y] = "none"
    BY <1>8 DEF HeapHead, PrunedEdges
  <2>2. \A x \in User \ graph : edges'[x] = edges[x]
    BY <1>8 DEF HeapHead, PrunedEdges, Heaviest
  <2>3. \A x, y \in User : Fits(mm[x], x, y) => Fits(mm'[x], x, y)
    BY <1>8, FitsWider
  <2>4. QED
    BY <1>8, <2>1, <2>2, <2>3 DEF EdgeInv
<1>9. ASSUME NEW u \in User, NEW v \in User, Match(u, v) PROVE EdgeInv'
  <2>1. \A x \in User : /\ mm'[x] \in MMSettings
                        /\ mm'[x].age_diff >= mm[x].age_diff
                        /\ mm'[x].gender_filter = mm[x].gender_filter
    <3>1. ASSUME NEW x \in User
          PROVE  /\ mm'[x] \in MMSettings
                 /\ mm'[x].age_diff = mm[x].age_diff
                 /\ mm'[x].gender_filter = mm[x].gender_filter
      BY <1>9, SettingsType DEF Match
    <3>2. \A x \in User : mm[x].age_diff \in Int
      BY DEF MMSettings
    <3>3. QED
      BY <3>1, <3>2
  <2>2. QED
    BY <1>8, <1>9, <2>1 DEF Match
<1>10. ASSUME NEW u \in User, NoMatch(u) PROVE EdgeInv'
  <2>1. \A x \in User : /\ mm'[x] \in MMSettings
                        /\ mm'[x].age_diff >= mm[x].age_diff
                        /\ mm'[x].gender_filter = mm[x].gender_filter
    <3>1. \A x \in User \ {u} : mm'[x] = mm[x] /\ mm[x].age_diff \in Int
      BY <1>10 DEF NoMatch, MMSettings
    <3>2. mm'[u] = SearchWider(mm[u])
      BY <1>10 DEF NoMatch
    <3>3. QED
      BY <3>1, <3>2, SettingsType
  <2>2. QED
    BY <1>8, <1>10, <2>1 DEF NoMatch
<1>11. CASE UNCHANGED <<graph, edges, mm, disallowed>>
  BY <1>11 DEF EdgeInv
<1>12. QED
  <2>1. ASSUME NEW data \in RoundInputs, FetchRound(data)
        PROVE  UNCHANGED <<graph, edges, mm, disallowed>>
    BY <2>1 DEF FetchRound, graphVars
  <2>2. ASSUME NEW u \in User, ReturnFails(u) \/ LeaveUnknown(u) \/ JoinKnown(u)
                                \/ SkipProcessed(u)
        PROVE  UNCHANGED <<graph, edges, mm, disallowed>>
    BY <2>2 DEF ReturnFails, LeaveUnknown, JoinKnown, SkipProcessed, graphVars
  <2>3. ASSUME StartMatching \/ FinishRound \/ MatchPosted \/ PostFails \/ UNCHANGED vars
        PROVE  UNCHANGED <<graph, edges, mm, disallowed>>
    BY <2>3 DEF StartMatching, FinishRound, MatchPosted, PostFails, graphVars, vars
  <2>4. QED
    BY <1>1, <1>2, <1>3, <1>4, <1>5, <1>6, <1>7, <1>9, <1>10, <1>11, <2>1, <2>2, <2>3
    DEF Next, Prepare, Generate

\* A pair that is posted fits both of its users as they are at that moment, and
\* the one who was served has not been told to avoid the other.
THEOREM MatchesFit == Spec => []MutualMatch
<1> DEFINE IInv == TypeOK /\ PhaseInv /\ EdgeInv /\ MutualMatch
<1>1. Init => IInv
  BY TypeInit, EdgeInit DEF Init, MutualMatch
<1>2. IInv /\ [Next]_vars => IInv'
  <2> SUFFICES ASSUME IInv, [Next]_vars PROVE MutualMatch'
    BY TypeStep, EdgeStep
  <2>1. ASSUME NEW u \in User, NEW v \in User, Match(u, v) PROVE MutualMatch'
    <3>1. /\ u \in graph /\ v \in graph /\ edges[u][v] = "both"
          /\ v \notin disallowed[u] /\ found' = <<u, v>>
          /\ graph' = graph /\ disallowed' = disallowed
      BY <2>1 DEF Match, HeapHead, Heaviest, Candidates, TypeOK
    <3>2. u # v /\ Fits(mm[u], u, v) /\ Fits(mm[v], v, u)
      BY <3>1 DEF EdgeInv, TypeOK
    <3>3. \A x \in User : /\ mm[x] \in MMSettings
                          /\ mm'[x].age_diff = mm[x].age_diff
                          /\ mm'[x].gender_filter = mm[x].gender_filter
      BY <2>1, SettingsType DEF Match, TypeOK
    <3>4. Fits(mm'[u], u, v) /\ Fits(mm'[v], v, u)
      BY <3>2, <3>3 DEF Fits
    <3>5. QED
      BY <3>1, <3>2, <3>4 DEF MutualMatch
  <2>2. CASE UNCHANGED vars
    BY <2>2 DEF vars, MutualMatch
  <2>3. CASE pc' # "post"
    BY <2>3 DEF MutualMatch
  <2>4. QED
    BY <2>1, <2>2, <2>3
    DEF Next, Prepare, Generate, FetchRound, ReturnUser, ReturnFails, DeclinePair,
        DeclineFails, LeaverTurn, LeaveUnknown, LeaveGraph, LeaveFails, JoinerTurn,
        JoinGraph, JoinKnown, FetchCandidates, StartMatching, SkipProcessed, HeapHead,
        NoMatch, FinishRound, MatchPosted, PostFails, AbandonRound
<1>3. QED
  BY <1>1, <1>2, PTL DEF Spec

-------------------------------------------------------------------------------
(* The users waiting for candidates *)

\* No exception leaves a user among the empty candidates who is out of the graph.
THEOREM EmptyStaysInGraph == Spec => []EmptyInGraph
<1>1. Init => EmptyInGraph
  BY DEF Init, EmptyInGraph
<1>2. TypeOK /\ EmptyInGraph /\ [Next]_vars => EmptyInGraph'
  <2> SUFFICES ASSUME TypeOK, EmptyInGraph, [Next]_vars PROVE EmptyInGraph'
    OBVIOUS
  <2>1. CASE UNCHANGED <<graph, empty>>
    BY <2>1 DEF EmptyInGraph
  <2>2. ASSUME NEW u \in User, LeaveUnknown(u) \/ LeaveGraph(u) \/ LeaveFails(u)
        PROVE  EmptyInGraph'
    BY <2>2 DEF LeaveUnknown, LeaveGraph, LeaveFails, LeaverTurn, EmptyInGraph
  <2>3. ASSUME NEW u \in User, JoinGraph(u) PROVE EmptyInGraph'
    BY <2>3 DEF JoinGraph, JoinerTurn, EmptyInGraph
  <2>4. ASSUME NEW u \in User, NEW conns \in SUBSET User, FetchCandidates(u, conns)
        PROVE  EmptyInGraph'
    BY <2>4 DEF FetchCandidates, EmptyInGraph
  <2>5. ASSUME NEW u \in User, NoMatch(u) PROVE EmptyInGraph'
    BY <2>5 DEF NoMatch, HeapHead, Heaviest, EmptyInGraph, TypeOK
  <2>6. QED
    BY <2>1, <2>2, <2>3, <2>4, <2>5
    DEF Next, Prepare, Generate, FetchRound, ReturnUser, ReturnFails, DeclinePair,
        DeclineFails, JoinerTurn, JoinKnown, StartMatching, SkipProcessed, Match,
        FinishRound, MatchPosted, PostFails, graphVars, vars
<1>3. QED
  BY <1>1, <1>2, TypeCorrect, PTL DEF Spec

-------------------------------------------------------------------------------
(* Nobody is given two matches: the abstract lobby *)

\* Whoever is matched while still on the heap has been processed, so the heap
\* never serves him again.
LEMMA HeapStep == TypeOK /\ PhaseInv /\ HeapInv /\ [Next]_vars => HeapInv'
<1> SUFFICES ASSUME TypeOK, PhaseInv, HeapInv, [Next]_vars PROVE HeapInv'
  OBVIOUS
<1>1. CASE heap' = {}
  BY <1>1 DEF HeapInv
<1>2. CASE StartMatching
  BY <1>2 DEF StartMatching, graphVars, HeapInv
<1>3. ASSUME NEW u \in User, NEW v \in User, SkipProcessed(u) \/ Match(u, v) \/ NoMatch(u)
      PROVE  HeapInv'
  BY <1>3 DEF SkipProcessed, Match, NoMatch, HeapHead, graphVars, HeapInv
<1>4. CASE MatchPosted \/ UNCHANGED vars
  BY <1>4 DEF MatchPosted, graphVars, vars, HeapInv
<1>5. ASSUME pc \in {"sleep", "prepare"}, heap' = heap PROVE HeapInv'
  BY <1>1, <1>5 DEF PhaseInv
<1>6. QED
  BY <1>1, <1>2, <1>3, <1>4, <1>5
  DEF Next, Prepare, Generate, FetchRound, ReturnUser, ReturnFails, DeclinePair,
      DeclineFails, LeaverTurn, LeaveUnknown, LeaveGraph, LeaveFails, JoinerTurn,
      JoinGraph, JoinKnown, FetchCandidates, FinishRound, PostFails, AbandonRound

\* The matchmaker implements the abstract lobby: whatever it is told and whichever
\* round is cut short, it only ever pairs two different users who both wait.
THEOREM ImplementsLobby == Spec => PairsFromLobby
<1> DEFINE l == graph \ matched
           IInv == TypeOK /\ PhaseInv /\ EdgeInv /\ HeapInv
<1>1. Init => IInv /\ Lobby!Init
  BY TypeInit, EdgeInit DEF Init, HeapInv, Lobby!Init
<1>2. IInv /\ [Next]_vars => IInv'
  BY TypeStep, EdgeStep, HeapStep
<1>3. IInv /\ IInv' /\ [Next]_vars => [Lobby!Next]_<<l, matched>>
  <2> SUFFICES ASSUME IInv, IInv', [Next]_vars PROVE [Lobby!Next]_<<l, matched>>
    OBVIOUS
  <2>1. CASE UNCHANGED <<graph, matched>>
    BY <2>1
  <2>2. ASSUME graph' = graph, matched' \subseteq matched
        PROVE  [Lobby!Next]_<<l, matched>>
    <3>1. Lobby!Free(matched \ matched')
      BY <2>2 DEF Lobby!Free, TypeOK
    <3>2. QED
      BY <3>1 DEF Lobby!Next, TypeOK
  <2>3. ASSUME NEW u \in User, LeaveGraph(u) PROVE [Lobby!Next]_<<l, matched>>
    <3>1. Lobby!Leave(u)
      BY <2>3 DEF Lobby!Leave, LeaveGraph, TypeOK
    <3>2. QED
      BY <3>1 DEF Lobby!Next
  <2>4. ASSUME NEW u \in User, JoinGraph(u) PROVE [Lobby!Next]_<<l, matched>>
    <3>1. Lobby!Join(u)
      BY <2>4 DEF Lobby!Join, JoinGraph, JoinerTurn, TypeOK
    <3>2. QED
      BY <3>1 DEF Lobby!Next
  <2>5. ASSUME NEW u \in User, NEW v \in User, Match(u, v)
        PROVE  [Lobby!Next]_<<l, matched>>
    <3>1. u \in graph \ matched /\ v \in graph \ matched
      BY <2>5 DEF Match, HeapHead, Heaviest, Candidates, HeapInv, TypeOK
    <3>2. u # v
      BY <2>5 DEF Match, HeapHead, Heaviest, Candidates, EdgeInv, TypeOK
    <3>3. Lobby!Pair(u, v)
      BY <2>5, <3>1, <3>2 DEF Lobby!Pair, Match
    <3>4. QED
      BY <3>3 DEF Lobby!Next
  <2>6. QED
    BY <2>1, <2>2, <2>3, <2>4, <2>5
    DEF Next, Prepare, Generate, FetchRound, ReturnUser, ReturnFails, DeclinePair,
        DeclineFails, LeaverTurn, LeaveUnknown, LeaveFails, JoinerTurn, JoinKnown,
        FetchCandidates, StartMatching, SkipProcessed, NoMatch, FinishRound,
        MatchPosted, PostFails, graphVars, vars
<1>4. QED
  BY <1>1, <1>2, <1>3, PTL DEF Spec, PairsFromLobby, Lobby!Spec

-------------------------------------------------------------------------------
(* A round makes every pair it can *)

\* A user who was looked up in vain gets no candidate for the rest of the round, and
\* a round that runs to its end leaves no flags behind.
LEMMA LookupStep ==
  TypeOK /\ PhaseInv /\ LookupInv /\ [Next]_vars => LookupInv'
<1> SUFFICES ASSUME TypeOK, PhaseInv, LookupInv, [Next]_vars, ~cutShort'
             PROVE  LookupInv'
  BY DEF LookupInv
<1> USE DEF TypeOK
<1>1. CASE pc' \in {"sleep", "prepare"} /\ processed' = {}
  BY <1>1 DEF LookupInv
<1>2. CASE StartMatching
  <2>1. processed = {} /\ processed' = {} /\ matched' = matched
    BY <1>2 DEF StartMatching, graphVars, LookupInv
  <2>2. pc' = "match" /\ graph' = graph /\ heap' = graph \ matched
    BY <1>2 DEF StartMatching, graphVars
  <2>3. \A u \in processed' \ matched' : Candidates(u)' = {}
    BY <2>1
  <2>4. graph' \subseteq heap' \cup matched' \cup processed'
    BY <2>1, <2>2
  <2>5. pc' \notin {"sleep", "prepare"}
    BY <2>2
  <2>6. QED
    BY <2>3, <2>4, <2>5 DEF LookupInv
<1>3. ASSUME NEW u \in User, SkipProcessed(u) PROVE LookupInv'
  BY <1>3 DEF SkipProcessed, graphVars, LookupInv, Candidates
<1>4. ASSUME NEW u \in User, HeapHead(u)
      PROVE  \A x, y \in graph : edges'[x][y] = edges[x][y]
  BY <1>4 DEF HeapHead, PrunedEdges
<1>5. ASSUME NEW u \in User, NEW v \in User, Match(u, v) PROVE LookupInv'
  <2>1. \A x \in graph : Candidates(x)' \subseteq Candidates(x)
    BY <1>4, <1>5 DEF Match, Candidates
  <2>2. QED
    BY <1>5, <2>1 DEF Match, HeapHead, LookupInv
<1>6. ASSUME NEW u \in User, NoMatch(u) PROVE LookupInv'
  <2>1. \A x \in graph : Candidates(x)' \subseteq Candidates(x)
    BY <1>4, <1>6 DEF NoMatch, Candidates
  <2>2. QED
    BY <1>6, <2>1 DEF NoMatch, HeapHead, Heaviest, LookupInv
<1>7. CASE MatchPosted \/ UNCHANGED vars
  BY <1>7 DEF MatchPosted, graphVars, vars, LookupInv, Candidates
<1>8. QED
  BY <1>1, <1>2, <1>3, <1>5, <1>6, <1>7
  DEF Next, Prepare, Generate, FetchRound, ReturnUser, ReturnFails, DeclinePair,
      DeclineFails, LeaverTurn, LeaveUnknown, LeaveGraph, LeaveFails, JoinerTurn,
      JoinGraph, JoinKnown, FetchCandidates, FinishRound, PostFails, AbandonRound,
      graphVars, LookupInv

\* A round that ends has left no user unmatched who could have been matched, unless
\* it was the first to do so after a post has failed.
THEOREM RoundIsMaximal == Spec => []MaximalRound
<1> DEFINE IInv == TypeOK /\ PhaseInv /\ LookupInv
<1>1. Init => IInv
  BY TypeInit DEF Init, LookupInv
<1>2. IInv /\ [Next]_vars => IInv'
  BY TypeStep, LookupStep
<1>3. IInv => MaximalRound
  BY DEF TypeOK, LookupInv, MaximalRound
<1>4. QED
  BY <1>1, <1>2, <1>3, PTL DEF Spec

===============================================================================
