-------------------------- MODULE Matchmaking_proofs --------------------------
(***************************************************************************)
(* Proofs about the matchmaking subsystem, the server with the matchmaker  *)
(* and the clients: what the server's books hold, whatever order users,    *)
(* rounds, lost answers and restarts come in.                              *)
(***************************************************************************)
EXTENDS Matchmaking, TLAPS

-------------------------------------------------------------------------------
(* Dictionaries and round data *)

\* A dictionary with an entry more is a dictionary.
LEMMA PutType ==
  ASSUME NEW K, NEW V, NEW d \in Dict(K, V), NEW k \in K, NEW v \in V
  PROVE  Put(d, k, v) \in Dict(K, V)
<1>1. PICK D \in SUBSET K : d \in [D -> V]
  BY DEF Dict
<1>2. Put(d, k, v) \in [D \cup {k} -> V] /\ D \cup {k} \in SUBSET K
  BY <1>1 DEF Put
<1>3. QED
  BY <1>2 DEF Dict

\* A dictionary with some entries less is a dictionary.
LEMMA RemovedType ==
  ASSUME NEW K, NEW V, NEW d \in Dict(K, V), NEW S
  PROVE  Removed(d, S) \in Dict(K, V)
<1>1. PICK D \in SUBSET K : d \in [D -> V]
  BY DEF Dict
<1>2. Removed(d, S) \in [D \ S -> V] /\ D \ S \in SUBSET K
  BY <1>1 DEF Removed
<1>3. QED
  BY <1>2 DEF Dict

\* A dictionary maps each of its keys, which are among K, into V.
LEMMA DictValue ==
  ASSUME NEW K, NEW V, NEW d \in Dict(K, V), NEW k \in DOMAIN d
  PROVE  d[k] \in V /\ k \in K
<1>1. PICK D \in SUBSET K : d \in [D -> V]
  BY DEF Dict
<1>2. QED
  BY <1>1

\* An entry that is replaced leaves a dictionary.
LEMMA ReplaceType ==
  ASSUME NEW K, NEW V, NEW d \in Dict(K, V), NEW k \in DOMAIN d, NEW v \in V
  PROVE  [d EXCEPT ![k] = v] \in Dict(K, V)
<1>1. PICK D \in SUBSET K : d \in [D -> V]
  BY DEF Dict
<1>2. [d EXCEPT ![k] = v] \in [D -> V]
  BY <1>1
<1>3. QED
  BY <1>1, <1>2 DEF Dict

\* An empty dictionary is one over any keys.
LEMMA EmptyType ==
  ASSUME NEW K, NEW V
  PROVE  EmptyDict \in Dict(K, V)
<1>1. EmptyDict \in [{} -> V]
  BY DEF EmptyDict
<1>2. QED
  BY <1>1 DEF Dict

\* Cleared data are round data.
LEMMA NoRoundType == NoRound \in RoundData
BY EmptyType DEF NoRound, RoundData

\* What a handler adds to the round data leaves them round data.
LEMMA DataType ==
  ASSUME NEW d \in RoundData, NEW u \in User
  PROVE  /\ [d EXCEPT !.disconnected_users = @ \cup {u}] \in RoundData
         /\ \A x \in Newcomer : [d EXCEPT !.new_users = Put(@, u, x)] \in RoundData
         /\ \A v \in User \cup {NoUser} : Reconnect(d, u, v) \in RoundData
         /\ \A v \in User : [d EXCEPT !.decline_pairs = Append(@, <<u, v>>)] \in RoundData
<1>1. /\ d.new_users \in Dict(User, Newcomer)
      /\ d.returning_users \in Dict(User, User \cup {NoUser})
      /\ d.disconnected_users \in SUBSET User
      /\ d.decline_pairs \in Seq(User \X User)
  BY DEF RoundData
<1>2. [d EXCEPT !.disconnected_users = @ \cup {u}] \in RoundData
  BY <1>1 DEF RoundData
<1>3. ASSUME NEW x \in Newcomer
      PROVE  [d EXCEPT !.new_users = Put(@, u, x)] \in RoundData
  <2>1. Put(d.new_users, u, x) \in Dict(User, Newcomer)
    BY <1>1, PutType
  <2>2. QED
    BY <1>1, <2>1 DEF RoundData
<1>4. ASSUME NEW v \in User \cup {NoUser}
      PROVE  Reconnect(d, u, v) \in RoundData
  <2>1. Put(d.returning_users, u, v) \in Dict(User, User \cup {NoUser})
    BY <1>1, PutType
  <2>2. QED
    BY <1>1, <2>1 DEF RoundData, Reconnect
<1>5. ASSUME NEW v \in User
      PROVE  [d EXCEPT !.decline_pairs = Append(@, <<u, v>>)] \in RoundData
  <2>1. Append(d.decline_pairs, <<u, v>>) \in Seq(User \X User)
    BY <1>1
  <2>2. QED
    BY <1>1, <2>1 DEF RoundData
<1>6. QED
  BY <1>2, <1>3, <1>4, <1>5

\* What is written to a websocket are messages.
LEMMA WrittenType ==
  ASSUME NEW w \in [User -> Seq(Message)], NEW to, NEW from \in User,
         NEW type \in {"match", "accept", "decline", "reconnect", "ack", "ack_failed"}
  PROVE  Written(w, to, type, from) \in [User -> Seq(Message)]
<1>1. [type |-> type, from |-> from] \in Message
  BY DEF Message
<1>2. CASE to \in User
  <2>1. Append(w[to], [type |-> type, from |-> from]) \in Seq(Message)
    BY <1>1, <1>2
  <2>2. QED
    BY <1>2, <2>1 DEF Written
<1>3. CASE to \notin User
  <2>1. Written(w, to, type, from) \in {w, [w EXCEPT ![to] = Append(@, [type |-> type, from |-> from])]}
    BY DEF Written
  <2>2. [w EXCEPT ![to] = Append(@, [type |-> type, from |-> from])] = w
    BY <1>3
  <2>3. QED
    BY <2>1, <2>2
<1>4. QED
  BY <1>2, <1>3

\* An acknowledgement is a message as well.
LEMMA AckedType ==
  ASSUME NEW w \in [User -> Seq(Message)], NEW u \in User, NEW success
  PROVE  Acked(w, u, success) \in [User -> Seq(Message)]
<1>1. AckType(success) \in {"match", "accept", "decline", "reconnect", "ack", "ack_failed"}
  BY DEF AckType
<1>2. Written(w, u, AckType(success), u) \in [User -> Seq(Message)]
  BY <1>1, WrittenType
<1>3. QED
  BY <1>2 DEF Acked

-------------------------------------------------------------------------------
(* Types: the server *)

\* The types of the websockets and of what waits for redis.
SocketsOK ==
  /\ newest \in [User -> 0..MaxConnects]
  /\ attached \in SUBSET User
  /\ handlers \in SUBSET (User \X (1..MaxConnects))
  /\ active \in SUBSET User
  /\ joining \in SUBSET [handler : User \X (1..MaxConnects), vertex : Newcomer]
  /\ declining \in SUBSET [handler : User \X (1..MaxConnects), to : User]

\* The types of the server's books and of what it sends.
BooksOK ==
  /\ wire \in [User -> Seq(Message)]
  /\ online \in SUBSET User
  /\ sent \in Dict(User, [user : User, accepted : BOOLEAN])
  /\ data \in RoundData
  /\ blacklist \in SUBSET (User \X User)

\* The types of the clients.
ClientsOK ==
  /\ screen \in [User -> Screens]
  /\ partner \in [User -> User \cup {NoUser}]

LEMMA TypeSplit == TypeOK <=> SocketsOK /\ BooksOK /\ ClientsOK
BY DEF TypeOK, SocketsOK, BooksOK, ClientsOK

\* The numbers of the websockets a user may open.
LEMMA ConnectsNat == MaxConnects \in Nat /\ NoUser \notin User
BY ServerAssumption

\* A match is with a user.
LEMMA SentType ==
  ASSUME BooksOK, NEW u \in DOMAIN sent
  PROVE  /\ u \in User /\ sent[u].user \in User
         /\ sent[u] \in [user : User, accepted : BOOLEAN]
<1> DEFINE M == [user : User, accepted : BOOLEAN]
<1>1. sent \in Dict(User, M)
  BY DEF BooksOK
<1>2. u \in User /\ sent[u] \in M
  <2> HIDE DEF M
  <2>1. QED
    BY <1>1, DictValue
<1>3. QED
  BY <1>2

\* Opening and losing a websocket keep the types of the server.
LEMMA SocketTypes ==
  ASSUME SocketsOK, BooksOK, NEW u \in User, Connect(u) \/ Drop(u)
  PROVE  SocketsOK' /\ BooksOK'
<1>1. <<>> \in Seq(Message)
  OBVIOUS
<1>2. CASE Connect(u)
  <2>1. newest[u] + 1 \in 1..MaxConnects /\ newest[u] + 1 \in 0..MaxConnects
    BY <1>2, ConnectsNat DEF SocketsOK, Connect
  <2>2. SocketsOK'
    BY <1>2, <2>1 DEF SocketsOK, Connect, pending
  <2>3. BooksOK'
    BY <1>1, <1>2 DEF BooksOK, Connect, dataVars
  <2>4. QED
    BY <2>2, <2>3
<1>3. CASE Drop(u)
  <2>1. SocketsOK'
    BY <1>3 DEF SocketsOK, Drop, pending
  <2>2. BooksOK'
    BY <1>1, <1>3 DEF BooksOK, Drop, dataVars
  <2>3. QED
    BY <2>1, <2>2
<1>4. QED
  BY <1>2, <1>3

\* Noticing that a websocket has been closed keeps the types of the server.
LEMMA CloseTypes ==
  ASSUME SocketsOK, BooksOK, NEW u \in User, NEW k,
         CloseUnknown(u, k) \/ CloseAlone(u, k) \/ CloseOnCall(u, k) \/ CloseOnMatch(u, k)
  PROVE  SocketsOK' /\ BooksOK'
<1>1. Told(data, u) \in RoundData
  BY DataType DEF Told, BooksOK
<1>2. SocketsOK'
  BY DEF SocketsOK, CloseUnknown, CloseAlone, CloseOnCall, CloseOnMatch, ClosingOnline, Closing, pending
<1>3. UNCHANGED blacklist
  BY DEF CloseUnknown, CloseAlone, CloseOnCall, CloseOnMatch, ClosingOnline, Closing
<1>4. online' \in SUBSET User
  BY DEF CloseUnknown, CloseAlone, CloseOnCall, CloseOnMatch, ClosingOnline, BooksOK
<1>5. CASE CloseUnknown(u, k)
  BY <1>1, <1>2, <1>3, <1>4, <1>5 DEF CloseUnknown, BooksOK, Told
<1>6. CASE CloseAlone(u, k)
  BY <1>1, <1>2, <1>3, <1>4, <1>6 DEF CloseAlone, BooksOK
<1>7. ASSUME CloseOnCall(u, k) \/ CloseOnMatch(u, k)
      PROVE  sent[u].user \in User
  BY <1>7, SentType DEF CloseOnCall, CloseOnMatch
<1>8. \A S : Removed(sent, S) \in Dict(User, [user : User, accepted : BOOLEAN])
  BY RemovedType DEF BooksOK
<1>9. CASE CloseOnCall(u, k)
  <2>1. wire' \in [User -> Seq(Message)]
    BY <1>9, WrittenType DEF CloseOnCall, BooksOK
  <2>2. QED
    BY <1>1, <1>2, <1>3, <1>4, <1>8, <1>9, <2>1 DEF CloseOnCall, BooksOK
<1>10. CASE CloseOnMatch(u, k)
  <2>1. wire' \in [User -> Seq(Message)]
    BY <1>10, WrittenType DEF CloseOnMatch, BooksOK
  <2>2. data' \in RoundData
    BY <1>1, <1>7, <1>10, DataType DEF CloseOnMatch
  <2>3. QED
    BY <1>2, <1>3, <1>4, <1>8, <1>10, <2>1, <2>2 DEF CloseOnMatch, BooksOK
<1>11. QED
  BY <1>2, <1>5, <1>6, <1>9, <1>10

\* A handler that has been answered keeps the types of the server.
LEMMA ContinueTypes ==
  ASSUME SocketsOK, BooksOK,
         (\E j \in joining : LobbyJoined(j)) \/ (\E d \in declining : DeclineForwarded(d))
  PROVE  SocketsOK' /\ BooksOK'
<1>1. ASSUME NEW j \in joining, LobbyJoined(j)
      PROVE  SocketsOK' /\ BooksOK'
  <2>1. j.handler[1] \in User /\ j.vertex \in Newcomer
    BY DEF SocketsOK
  <2>2. SocketsOK'
    BY <1>1 DEF SocketsOK, LobbyJoined, socketVars
  <2>3. wire' \in [User -> Seq(Message)]
    BY <1>1, <2>1, AckedType DEF LobbyJoined, BooksOK
  <2>4. data' \in RoundData
    BY <1>1, <2>1, DataType DEF LobbyJoined, BooksOK
  <2>5. QED
    BY <1>1, <2>1, <2>2, <2>3, <2>4 DEF LobbyJoined, BooksOK
<1>2. ASSUME NEW d \in declining, DeclineForwarded(d)
      PROVE  SocketsOK' /\ BooksOK'
  <2>1. d.handler[1] \in User /\ d.to \in User
    BY DEF SocketsOK
  <2>2. SocketsOK'
    BY <1>2 DEF SocketsOK, DeclineForwarded, socketVars
  <2>3. wire' \in [User -> Seq(Message)]
    BY <1>2, <2>1, AckedType, WrittenType DEF DeclineForwarded, BooksOK
  <2>4. blacklist' \in SUBSET (User \X User)
    BY <1>2, <2>1 DEF DeclineForwarded, BooksOK
  <2>5. QED
    BY <1>2, <2>2, <2>3, <2>4 DEF DeclineForwarded, BooksOK, dataVars
<1>3. QED
  BY <1>1, <1>2

\* Handling a message of a client keeps the types of the server.
LEMMA PayloadTypes ==
  ASSUME SocketsOK, BooksOK, NEW u \in User, NEW v \in User,
         \/ \E filter \in FilterValue : JoinLobby(u, filter)
         \/ AcceptMatch(u, v) \/ DeclineMatch(u, v) \/ ReconnectAfterCall(u, v)
  PROVE  SocketsOK' /\ BooksOK'
<1>1. ASSUME Handles(u)
      PROVE  <<u, newest[u]>> \in User \X (1..MaxConnects)
  BY <1>1 DEF Handles, Idle, SocketsOK
<1>2. ASSUME NEW filter \in FilterValue, JoinLobby(u, filter)
      PROVE  SocketsOK' /\ BooksOK'
  <2>1. [gender_filter |-> filter, disallowed |-> ChatPartner[u] \cup Avoids(u)] \in Newcomer
    BY ServerAssumption DEF Newcomer, Avoids
  <2>2. joining' \in SUBSET [handler : User \X (1..MaxConnects), vertex : Newcomer]
    <3>1. Handles(u)
      BY <1>2 DEF JoinLobby
    <3>2. [handler |-> <<u, newest[u]>>, vertex |->
             [gender_filter |-> filter, disallowed |-> ChatPartner[u] \cup Avoids(u)]]
            \in [handler : User \X (1..MaxConnects), vertex : Newcomer]
      BY <1>1, <2>1, <3>1
    <3>3. QED
      BY <1>2, <3>2 DEF JoinLobby, SocketsOK
  <2>3. SocketsOK'
    BY <1>2, <2>2 DEF SocketsOK, JoinLobby, socketVars
  <2>4. wire' \in [User -> Seq(Message)]
    BY <1>2, AckedType DEF JoinLobby, BooksOK
  <2>5. QED
    BY <1>2, <2>3, <2>4 DEF BooksOK, JoinLobby, dataVars
<1>3. CASE AcceptMatch(u, v)
  <2>1. SocketsOK'
    BY <1>3 DEF SocketsOK, AcceptMatch, socketVars, pending
  <2>2. wire' \in [User -> Seq(Message)]
    <3>1. Acked(wire, u, TRUE) \in [User -> Seq(Message)] /\ Acked(wire, u, FALSE) \in [User -> Seq(Message)]
      BY AckedType DEF BooksOK
    <3>2. QED
      BY <1>3, <3>1, WrittenType DEF AcceptMatch
  <2>3. sent' \in Dict(User, [user : User, accepted : BOOLEAN])
    <3>1. sent \in Dict(User, [user : User, accepted : BOOLEAN])
      BY DEF BooksOK
    <3>2. CASE u \in DOMAIN sent
      <4>1. sent[u] \in [user : User, accepted : BOOLEAN]
        BY <3>2, SentType
      <4>2. [sent[u] EXCEPT !.accepted = TRUE] \in [user : User, accepted : BOOLEAN]
        BY <4>1
      <4>3. [sent EXCEPT ![u] = [sent[u] EXCEPT !.accepted = TRUE]] \in Dict(User, [user : User, accepted : BOOLEAN])
        BY <3>1, <3>2, <4>2, ReplaceType
      <4>4. sent' = [sent EXCEPT ![u] = [sent[u] EXCEPT !.accepted = TRUE]]
        BY <1>3, <3>2 DEF AcceptMatch
      <4>5. QED
        BY <4>3, <4>4
    <3>3. CASE u \notin DOMAIN sent
      BY <1>3, <3>1, <3>3 DEF AcceptMatch
    <3>4. QED
      BY <3>2, <3>3
  <2>4. QED
    BY <1>3, <2>1, <2>2, <2>3 DEF BooksOK, AcceptMatch
<1>4. CASE DeclineMatch(u, v)
  <2>1. declining' \in SUBSET [handler : User \X (1..MaxConnects), to : User]
    <3>1. Handles(u)
      BY <1>4 DEF DeclineMatch
    <3>2. [handler |-> <<u, newest[u]>>, to |-> v] \in [handler : User \X (1..MaxConnects), to : User]
      BY <1>1, <3>1
    <3>3. QED
      BY <1>4, <3>2 DEF DeclineMatch, SocketsOK
  <2>2. SocketsOK'
    BY <1>4, <2>1 DEF SocketsOK, DeclineMatch, socketVars
  <2>3. wire' \in [User -> Seq(Message)]
    <3>1. Acked(wire, u, TRUE) \in [User -> Seq(Message)]
      BY AckedType DEF BooksOK
    <3>2. Written(Acked(wire, u, TRUE), v, "decline", u) \in [User -> Seq(Message)]
      BY <3>1, WrittenType
    <3>3. QED
      BY <1>4, <3>2 DEF DeclineMatch, BooksOK
  <2>4. sent' \in Dict(User, [user : User, accepted : BOOLEAN])
    BY <1>4, RemovedType DEF DeclineMatch, BooksOK
  <2>5. data' \in RoundData
    BY <1>4, DataType DEF DeclineMatch, BooksOK
  <2>6. QED
    BY <1>4, <2>2, <2>3, <2>4, <2>5 DEF BooksOK, DeclineMatch
<1>5. CASE ReconnectAfterCall(u, v)
  <2>1. SocketsOK'
    BY <1>5 DEF SocketsOK, ReconnectAfterCall, socketVars, pending
  <2>2. wire' \in [User -> Seq(Message)]
    <3>1. Acked(wire, u, TRUE) \in [User -> Seq(Message)]
      BY AckedType DEF BooksOK
    <3>2. QED
      BY <1>5, <3>1, WrittenType DEF ReconnectAfterCall
  <2>3. data' \in RoundData
    <3>1. Reconnect(data, u, v) \in RoundData
      BY DataType DEF BooksOK
    <3>2. Reconnect(Reconnect(data, u, v), v, u) \in RoundData
      BY <3>1, DataType
    <3>3. QED
      BY <1>5, <3>2 DEF ReconnectAfterCall
  <2>4. QED
    BY <1>5, <2>1, <2>2, <2>3 DEF BooksOK, ReconnectAfterCall
<1>6. QED
  BY <1>2, <1>3, <1>4, <1>5

\* A request of the matchmaker keeps the types of the server.
LEMMA RequestTypes ==
  ASSUME SocketsOK, BooksOK,
         TakeRoundData \/ \E u, v \in User : SendMatch(u, v)
  PROVE  SocketsOK' /\ BooksOK'
<1>1. CASE TakeRoundData
  <2>1. SocketsOK'
    BY <1>1 DEF TakeRoundData, SocketsOK, socketVars, pending
  <2>2. BooksOK'
    BY <1>1, NoRoundType DEF TakeRoundData, BooksOK
  <2>3. QED
    BY <2>1, <2>2
<1>2. ASSUME NEW u \in User, NEW v \in User, SendMatch(u, v)
      PROVE  SocketsOK' /\ BooksOK'
  <2>1. SocketsOK'
    BY <1>2 DEF SendMatch, SocketsOK, socketVars, pending
  <2>2. wire' \in [User -> Seq(Message)]
    <3>1. Written(wire, v, "match", u) \in [User -> Seq(Message)]
      BY WrittenType DEF BooksOK
    <3>2. Written(Written(wire, v, "match", u), u, "match", v) \in [User -> Seq(Message)]
      BY <3>1, WrittenType
    <3>3. QED
      BY <1>2, <3>2 DEF SendMatch, BooksOK
  <2>3. sent' \in Dict(User, [user : User, accepted : BOOLEAN])
    <3>1. Put(sent, u, [user |-> v, accepted |-> FALSE]) \in Dict(User, [user : User, accepted : BOOLEAN])
      BY PutType DEF BooksOK
    <3>2. Put(Put(sent, u, [user |-> v, accepted |-> FALSE]), v, [user |-> u, accepted |-> FALSE])
            \in Dict(User, [user : User, accepted : BOOLEAN])
      BY <3>1, PutType
    <3>3. QED
      BY <1>2, <3>2 DEF SendMatch, BooksOK
  <2>4. QED
    BY <1>2, <2>1, <2>2, <2>3 DEF BooksOK, SendMatch
<1>3. QED
  BY <1>1, <1>2

-------------------------------------------------------------------------------
(* Types: the clients and the steps of the subsystem *)

\* The matchmaker's own steps, on their way through the inbox and the heap, choose a
\* pair only among the users.
LEMMA FoundUsers ==
  ASSUME MM!Prepare \/ MM!Generate, pc = "post" => found \in User \X User
  PROVE  pc' = "post" => found' \in User \X User
<1>1. CASE MM!Prepare
  BY <1>1 DEF MM!Prepare, MM!ReturnUser, MM!ReturnFails, MM!DeclinePair, MM!DeclineFails,
              MM!LeaveUnknown, MM!LeaveGraph, MM!LeaveFails, MM!LeaverTurn, MM!JoinGraph,
              MM!JoinKnown, MM!JoinerTurn, MM!FetchCandidates, MM!AbandonRound
<1>2. CASE MM!Generate
  BY <1>2 DEF MM!Generate, MM!StartMatching, MM!SkipProcessed, MM!Match, MM!NoMatch,
              MM!HeapHead, MM!FinishRound, MM!AbandonRound
<1>3. QED
  BY <1>1, <1>2

\* What a client shows next.
LEMMA ShowTypes ==
  ASSUME ClientsOK, ShownInv, NEW u \in User, NEW s \in Screens, NEW v \in User \cup {NoUser},
         s \notin {"away", "lobby"} => v \in User,
         Show(u, s, v), UNCHANGED <<pc, found>>
  PROVE  ClientsOK' /\ ShownInv'
<1>1. ClientsOK'
  BY DEF ClientsOK, Show
<1>2. \A x \in User : /\ x = u => screen'[x] = s /\ partner'[x] = v
                      /\ x # u => screen'[x] = screen[x] /\ partner'[x] = partner[x]
  BY DEF ClientsOK, Show
<1>3. QED
  BY <1>1, <1>2 DEF ShownInv

\* The clients keep to their screens, and answer whom they show.
LEMMA ClientTypes ==
  ASSUME SocketsOK, BooksOK, ClientsOK, ShownInv, ClientStep, UNCHANGED <<pc, found>>
  PROVE  SocketsOK' /\ BooksOK' /\ ClientsOK' /\ ShownInv'
<1> PICK u \in User : \/ ClientConnect(u) \/ ClientDrop(u) \/ ClientJoin(u)
                      \/ ClientAccept(u) \/ ClientDecline(u) \/ ClientEndCall(u)
                      \/ ClientRead(u)
  BY DEF ClientStep
<1>1. screen[u] \in Screens /\ partner[u] \in User \cup {NoUser}
  BY DEF ClientsOK
<1>2. screen[u] \in {"match", "invited", "accepted", "call"} => partner[u] \in User
  BY DEF ShownInv
<1>3. CASE ClientConnect(u)
  <2>1. ClientsOK' /\ ShownInv'
    BY <1>3 DEF ClientConnect, ClientsOK, ShownInv, clientVars
  <2>2. QED
    BY <1>3, <2>1, SocketTypes DEF ClientConnect
<1>4. CASE ClientDrop(u)
  <2>1. ClientsOK' /\ ShownInv'
    BY <1>4, ShowTypes DEF ClientDrop, Screens
  <2>2. QED
    BY <1>4, <2>1, SocketTypes DEF ClientDrop
<1>5. CASE ClientJoin(u)
  <2>1. ClientsOK' /\ ShownInv'
    BY <1>5, ShowTypes DEF ClientJoin, Screens
  <2>2. PICK filter \in FilterChoice[u] : JoinLobby(u, filter)
    BY <1>5 DEF ClientJoin
  <2>3. filter \in FilterValue
    BY <2>2, MatchmakingAssumption
  <2>4. QED
    BY <2>1, <2>2, <2>3, PayloadTypes
<1>6. CASE ClientAccept(u)
  <2>1. partner[u] \in User
    BY <1>2, <1>6 DEF ClientAccept
  <2>2. ClientsOK' /\ ShownInv'
    BY <1>6, <2>1, ShowTypes DEF ClientAccept, Screens
  <2>3. QED
    BY <1>6, <2>1, <2>2, PayloadTypes DEF ClientAccept
<1>7. CASE ClientDecline(u)
  <2>1. partner[u] \in User
    BY <1>2, <1>7 DEF ClientDecline
  <2>2. ClientsOK' /\ ShownInv'
    BY <1>7, ShowTypes DEF ClientDecline, Screens
  <2>3. QED
    BY <1>7, <2>1, <2>2, PayloadTypes DEF ClientDecline
<1>8. CASE ClientEndCall(u)
  <2>1. partner[u] \in User
    BY <1>2, <1>8 DEF ClientEndCall
  <2>2. ClientsOK' /\ ShownInv'
    BY <1>8, ShowTypes DEF ClientEndCall, Screens
  <2>3. QED
    BY <1>8, <2>1, <2>2, PayloadTypes DEF ClientEndCall
<1>9. CASE ClientRead(u)
  <2>1. wire[u] \in Seq(Message) /\ wire[u] # <<>>
    BY <1>9 DEF ClientRead, BooksOK
  <2>2. Head(wire[u]) \in Message /\ Tail(wire[u]) \in Seq(Message)
    BY <2>1
  <2>3. Head(wire[u]).from \in User
    BY <2>2 DEF Message
  <2>4. SocketsOK'
    BY <1>9 DEF ClientRead, SocketsOK, socketVars, pending
  <2>5. BooksOK'
    BY <1>9, <2>2 DEF ClientRead, BooksOK, dataVars
  <2>6. ClientsOK' /\ ShownInv'
    <3> DEFINE from == Head(wire[u]).from
    <3>1. \/ \E s \in {"match", "invited", "call"} : Show(u, s, from)
          \/ Show(u, "lobby", NoUser) \/ UNCHANGED clientVars
      BY <1>9 DEF ClientRead
    <3>2. CASE \E s \in {"match", "invited", "call"} : Show(u, s, from)
      BY <2>3, <3>2, ShowTypes DEF Screens
    <3>3. CASE Show(u, "lobby", NoUser)
      BY <3>3, ShowTypes DEF Screens
    <3>4. CASE UNCHANGED clientVars
      BY <3>4 DEF ClientsOK, ShownInv, clientVars
    <3>5. QED
      BY <3>1, <3>2, <3>3, <3>4
  <2>7. QED
    BY <2>4, <2>5, <2>6
<1>10. QED
  BY <1>3, <1>4, <1>5, <1>6, <1>7, <1>8, <1>9

TypeInv == SocketsOK /\ BooksOK /\ ClientsOK /\ ShownInv

LEMMA TypeInit == Init => TypeInv
<1> SUFFICES ASSUME Init PROVE TypeInv
  OBVIOUS
<1>1. SocketsOK
  BY ConnectsNat DEF Init, ServerInit, SocketsOK
<1>2. BooksOK
  BY NoRoundType, EmptyType DEF Init, ServerInit, BooksOK
<1>3. ClientsOK
  BY DEF Init, ClientsOK, Screens
<1>4. ShownInv
  BY DEF Init, MM!Init, ShownInv
<1>5. QED
  BY <1>1, <1>2, <1>3, <1>4 DEF TypeInv

LEMMA TypeStep == TypeInv /\ [Next]_systemVars => TypeInv'
<1> SUFFICES ASSUME TypeInv, [Next]_systemVars PROVE TypeInv'
  OBVIOUS
<1> USE DEF TypeInv
<1>1. ASSUME UNCHANGED serverVars
      PROVE  SocketsOK' /\ BooksOK'
  BY <1>1 DEF SocketsOK, BooksOK, serverVars
<1>2. ASSUME UNCHANGED clientVars, pc' = "post" => found' \in User \X User
      PROVE  ClientsOK' /\ ShownInv'
  BY <1>2 DEF ClientsOK, ShownInv, clientVars
<1>3. CASE UNCHANGED systemVars
  BY <1>1, <1>2, <1>3 DEF systemVars, matchmakerVars, ShownInv
<1>4. CASE OthersStep
  <2>1. UNCHANGED <<pc, found>> /\ (ClientStep \/ ServerStep)
    BY <1>4 DEF OthersStep, Meanwhile, matchmakerVars
  <2>2. CASE ClientStep
    BY <2>1, <2>2, ClientTypes
  <2>3. CASE ServerStep
    <3>1. PICK u \in User, k \in 1..MaxConnects : ServerClose(u, k) \/ ServerContinue(<<u, k>>)
      BY <2>3 DEF ServerStep
    <3>2. ClientsOK' /\ ShownInv'
      BY <1>2, <2>1, <3>1 DEF ServerClose, ServerContinue, ShownInv
    <3>3. SocketsOK' /\ BooksOK'
      BY <3>1, CloseTypes, ContinueTypes DEF ServerClose, ServerContinue
    <3>4. QED
      BY <3>2, <3>3
  <2>4. QED
    BY <2>1, <2>2, <2>3
<1>5. CASE PrivateStep
  <2>1. pc' = "post" => found' \in User \X User
    BY <1>5, FoundUsers DEF PrivateStep, ShownInv
  <2>2. QED
    BY <1>1, <1>2, <1>5, <2>1 DEF PrivateStep
<1>6. CASE FetchRound
  <2>1. pc' = "prepare" /\ TakeRoundData /\ UNCHANGED clientVars
    BY <1>6 DEF FetchRound, MM!FetchRound
  <2>2. QED
    BY <1>2, <2>1, RequestTypes
<1>7. CASE FetchTimesOut
  <2>1. pc' = pc /\ found' = found /\ TakeRoundData /\ UNCHANGED clientVars
    BY <1>7 DEF FetchTimesOut, matchmakerVars
  <2>2. QED
    BY <1>2, <2>1, RequestTypes DEF ShownInv
<1>8. CASE PostMatch
  <2>1. /\ pc = "post" /\ pc' = "match" /\ SendMatch(found[1], found[2]) /\ UNCHANGED clientVars
    BY <1>8 DEF PostMatch, MM!MatchPosted
  <2>2. found[1] \in User /\ found[2] \in User
    BY <2>1 DEF ShownInv
  <2>3. QED
    BY <1>2, <2>1, <2>2, RequestTypes
<1>9. CASE PostFails
  <2>1. pc' = "sleep" /\ UNCHANGED serverVars /\ UNCHANGED clientVars
    BY <1>9 DEF PostFails, MM!PostFails, MM!AbandonRound
  <2>2. QED
    BY <1>1, <1>2, <2>1
<1>10. CASE MatchmakerRestart
  <2>1. pc' = "sleep" /\ UNCHANGED serverVars /\ UNCHANGED clientVars
    BY <1>10 DEF MatchmakerRestart
  <2>2. QED
    BY <1>1, <1>2, <2>1
<1>11. QED
  BY <1>3, <1>4, <1>5, <1>6, <1>7, <1>8, <1>9, <1>10 DEF Next

LEMMA AlwaysTyped == Spec => []TypeInv
BY TypeInit, TypeStep, PTL DEF Spec

\* The server's books name users and matches of users, and a client that answers names
\* somebody, whatever order messages, rounds, lost answers and restarts come in.
THEOREM TypeCorrect == Spec => []TypeOK
<1>1. TypeInv => TypeOK
  BY TypeSplit DEF TypeInv
<1>2. QED
  BY <1>1, AlwaysTyped, PTL

-------------------------------------------------------------------------------
(* Who is in the lobby is registered *)

LEMMA RegisteredInit == Init => RegisteredInv
BY DEF Init, ServerInit, RegisteredInv, OnlineRegistered

\* A handler that begins to wait for redis is one the server has.
LEMMA HandlerHere ==
  ASSUME NEW u, Handles(u)
  PROVE  <<u, newest[u]>> \in handlers
BY DEF Handles, Idle

\* Nothing happens to who is registered and to who is in the lobby.
LEMMA RegisteredSame ==
  ASSUME RegisteredInv, UNCHANGED <<handlers, active, online>>,
         \A w \in joining' \cup declining' : w.handler \in handlers
  PROVE  RegisteredInv'
BY DEF RegisteredInv, OnlineRegistered

LEMMA RegisteredStep ==
  ASSUME ~LateClose, TypeInv, RegisteredInv, [Next]_systemVars
  PROVE  RegisteredInv'
<1>0. /\ handlers \in SUBSET (User \X (1..MaxConnects))
      /\ \A w \in joining \cup declining : w.handler \in handlers
  BY DEF TypeInv, SocketsOK, RegisteredInv
<1>1. ASSUME UNCHANGED <<socketVars, pending>>, UNCHANGED online
      PROVE  RegisteredInv'
  BY <1>0, <1>1, RegisteredSame DEF socketVars, pending
<1>2. ASSUME NEW u \in User, Connect(u)
      PROVE  RegisteredInv'
  <2>1. Sockets(u) = {} /\ handlers' = handlers \cup {<<u, newest[u] + 1>>} /\ active' = active \cup {u}
    BY <1>2 DEF Connect
  <2>2. \A h \in handlers : h[1] # u
    BY <2>1 DEF Sockets
  <2>3. UNCHANGED <<joining, declining, online>>
    BY <1>2 DEF Connect, dataVars, pending
  <2>4. \A h, k \in handlers' : h[1] = k[1] => h = k
    BY <2>1, <2>2 DEF RegisteredInv
  <2>5. \A h \in handlers' : h[1] \in active'
    BY <2>1 DEF RegisteredInv
  <2>6. QED
    BY <1>0, <2>1, <2>3, <2>4, <2>5 DEF RegisteredInv, OnlineRegistered
<1>3. ASSUME NEW u \in User, Drop(u)
      PROVE  RegisteredInv'
  BY <1>0, <1>3, RegisteredSame DEF Drop, dataVars, pending
<1>4. ASSUME NEW u \in User, NEW k, ServerClose(u, k)
      PROVE  RegisteredInv'
  <2>1. Closing(u, k)
    BY <1>4 DEF ServerClose, CloseUnknown, CloseAlone, CloseOnCall, CloseOnMatch, ClosingOnline
  <2>2. /\ handlers' = handlers \ {<<u, k>>} /\ UNCHANGED <<joining, declining>>
        /\ <<u, k>> \in handlers /\ \A w \in joining \cup declining : w.handler # <<u, k>>
    BY <2>1 DEF Closing, Idle, pending
  <2>3. \A w \in joining' \cup declining' : w.handler \in handlers'
    BY <1>0, <2>2
  <2>4. \A h \in handlers' : h[1] # u
    BY <2>2 DEF RegisteredInv
  <2>5. \/ active' = active /\ online' = online
        \/ active' = active \ {u} /\ online' = online \ {u}
    BY <1>4 DEF ServerClose, CloseUnknown, CloseAlone, CloseOnCall, CloseOnMatch, ClosingOnline
  <2>6. QED
    BY <2>2, <2>3, <2>4, <2>5 DEF RegisteredInv, OnlineRegistered
<1>5. ASSUME NEW h, ServerContinue(h)
      PROVE  RegisteredInv'
  <2>1. CASE \E j \in joining : LobbyJoined(j)
    <3>1. PICK j \in joining : LobbyJoined(j)
      BY <2>1
    <3>2. j.handler \in handlers
      BY <1>0
    <3>3. j.handler[1] \in active
      BY <3>2 DEF RegisteredInv
    <3>4. /\ online' = online \cup {j.handler[1]} /\ joining' \subseteq joining
          /\ UNCHANGED <<handlers, active, declining>>
      BY <3>1 DEF LobbyJoined, socketVars
    <3>5. QED
      BY <1>0, <3>3, <3>4 DEF RegisteredInv, OnlineRegistered
  <2>2. CASE \E d \in declining : DeclineForwarded(d)
    BY <1>0, <2>2, RegisteredSame DEF DeclineForwarded, socketVars, dataVars
  <2>3. QED
    BY <1>5, <2>1, <2>2 DEF ServerContinue
<1>6. ASSUME NEW u \in User, NEW v,
             \/ \E filter : JoinLobby(u, filter)
             \/ AcceptMatch(u, v) \/ DeclineMatch(u, v) \/ ReconnectAfterCall(u, v)
      PROVE  RegisteredInv'
  <2>1. <<u, newest[u]>> \in handlers /\ UNCHANGED <<handlers, active, online>>
    BY <1>6, HandlerHere DEF JoinLobby, AcceptMatch, DeclineMatch, ReconnectAfterCall, socketVars, dataVars
  <2> DEFINE h == <<u, newest[u]>>
  <2>2. \A w \in joining' : w \in joining \/ w.handler = h
    <3>1. joining' = joining \/ \E x : joining' = joining \cup {[handler |-> h, vertex |-> x]}
      BY <1>6 DEF JoinLobby, AcceptMatch, DeclineMatch, ReconnectAfterCall, pending
    <3> HIDE DEF h
    <3>2. QED
      BY <3>1
  <2>3. \A w \in declining' : w \in declining \/ w.handler = h
    <3>1. declining' = declining \/ declining' = declining \cup {[handler |-> h, to |-> v]}
      BY <1>6 DEF JoinLobby, AcceptMatch, DeclineMatch, ReconnectAfterCall, pending
    <3> HIDE DEF h
    <3>2. QED
      BY <3>1
  <2>4. QED
    BY <1>0, <2>1, <2>2, <2>3, RegisteredSame
<1>7. CASE ClientStep
  <2>1. PICK u \in User : \/ ClientConnect(u) \/ ClientDrop(u) \/ ClientJoin(u)
                          \/ ClientAccept(u) \/ ClientDecline(u) \/ ClientEndCall(u)
                          \/ ClientRead(u)
    BY <1>7 DEF ClientStep
  <2>2. CASE ClientConnect(u)
    BY <1>2, <2>2 DEF ClientConnect
  <2>3. CASE ClientDrop(u)
    BY <1>3, <2>3 DEF ClientDrop
  <2>4. CASE ClientJoin(u)
    BY <1>6, <2>4 DEF ClientJoin
  <2>5. CASE ClientAccept(u) \/ ClientDecline(u) \/ ClientEndCall(u)
    BY <1>6, <2>5 DEF ClientAccept, ClientDecline, ClientEndCall
  <2>6. CASE ClientRead(u)
    BY <1>1, <2>6 DEF ClientRead, dataVars
  <2>7. QED
    BY <2>1, <2>2, <2>3, <2>4, <2>5, <2>6
<1>8. CASE OthersStep
  BY <1>4, <1>5, <1>7, <1>8 DEF OthersStep, Meanwhile, ServerStep
<1>9. CASE PrivateStep \/ PostFails \/ MatchmakerRestart \/ UNCHANGED systemVars
  <2>1. UNCHANGED serverVars
    BY <1>9 DEF PrivateStep, PostFails, MatchmakerRestart, systemVars
  <2>2. QED
    BY <1>1, <2>1 DEF serverVars, socketVars, pending
<1>10. CASE FetchRound \/ FetchTimesOut \/ PostMatch
  <2>1. UNCHANGED <<socketVars, pending>> /\ UNCHANGED online
    BY <1>10 DEF FetchRound, FetchTimesOut, PostMatch, TakeRoundData, SendMatch
  <2>2. QED
    BY <1>1, <2>1
<1>11. QED
  BY <1>8, <1>9, <1>10 DEF Next

\* Where a close is noticed before the user is back, whom the round data believe to be
\* in the lobby is registered: connect_lobby and _process_disconnect change the two
\* books in different steps, and a CONNECT may be waiting for redis in between.
THEOREM OnlineReachable ==
  ASSUME ~LateClose
  PROVE  Spec => []OnlineRegistered
<1>1. TypeInv /\ RegisteredInv /\ [Next]_systemVars => RegisteredInv'
  BY RegisteredStep
<1>2. RegisteredInv => OnlineRegistered
  BY DEF RegisteredInv
<1>3. QED
  BY <1>1, <1>2, RegisteredInit, AlwaysTyped, PTL DEF Spec

-------------------------------------------------------------------------------
(* The matchmaker among the others *)

\* What the server, the clients and lost answers do is no step of the matchmaker, and
\* what it fetches is round data, so it takes no step its own module does not allow,
\* but for a restart, which begins it anew.
THEOREM RunsMatchmaker == Spec => IsMatchmaker
<1>1. Init => MM!Init
  BY DEF Init
<1>2. TypeInv /\ [Next]_systemVars => [MM!Next \/ MM!Init']_matchmakerVars
  <2> SUFFICES ASSUME TypeInv, [Next]_systemVars, ~UNCHANGED matchmakerVars
               PROVE  MM!Next \/ MM!Init'
    OBVIOUS
  <2>1. CASE OthersStep \/ FetchTimesOut
    BY <2>1 DEF OthersStep, Meanwhile, FetchTimesOut
  <2>2. CASE PrivateStep
    BY <2>2 DEF PrivateStep, MM!Next
  <2>3. CASE FetchRound
    <3>1. data \in RoundData
      BY DEF TypeInv, BooksOK
    <3>2. QED
      BY <2>3, <3>1 DEF FetchRound, MM!Next
  <2>4. CASE PostMatch \/ PostFails
    BY <2>4 DEF PostMatch, PostFails, MM!Next
  <2>5. CASE MatchmakerRestart
    BY <2>5 DEF MatchmakerRestart, MM!Init, NoRound, EmptyDict, MM!NoRound, MM!EmptyDict
  <2>6. CASE UNCHANGED systemVars
    BY <2>6 DEF systemVars
  <2>7. QED
    BY <2>1, <2>2, <2>3, <2>4, <2>5, <2>6 DEF Next
<1>3. QED
  BY <1>1, <1>2, AlwaysTyped, PTL DEF Spec, IsMatchmaker
===============================================================================
