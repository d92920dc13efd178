------------------------------ MODULE Matchmaking ------------------------------
(***************************************************************************)
(* The matchmaking subsystem: the server, the matchmaker that polls it,    *)
(* and the clients.  The two processes share nothing; they meet when the   *)
(* matchmaker fetches the round data and when it posts a match.            *)
(*                                                                         *)
(* The clients are not part of the repository.  They follow the protocol   *)
(* the server's comments describe (matchmaking_server.py:165-210, 281-286):*)
(* join the lobby, accept or decline the match on the screen, end a call,  *)
(* and return to the lobby when the partner declines or ends the call.     *)
(***************************************************************************)
EXTENDS MatchmakingServer

CONSTANTS
  Age, Gender, AnyGender, DefaultAgeDiff, AgeDiffStep, MaxAgeDiff,
  MaxCandidates, WeightCap,  \* as in Matchmaker
  FilterChoice,      \* FilterChoice[u]: the filters u may connect with
  MaxWire,           \* bound: messages on their way to one client
  Moves,             \* what the users of the run do, out of UserMoves
  MayTimeOut,        \* whether the answer to /new_round_data may come too late
  PostMayFail,       \* whether posting a match may raise
  MayRestart         \* whether the matchmaker process may be restarted

UserMoves == {"accept", "decline", "end call", "drop"}

VARIABLES
  graph, edges, disallowed, mm, matched, processed, empty,  \* of Matchmaker
  pc, inbox, fetches, heap, found, cutShort,                \* of Matchmaker
  screen,    \* screen[u]: what the client of u shows
  partner    \* partner[u]: whom the match or the call is with

matchmakerVars == <<graph, edges, disallowed, mm, matched, processed, empty,
                    pc, inbox, fetches, heap, found, cutShort>>
clientVars == <<screen, partner>>
systemVars == <<serverVars, matchmakerVars, clientVars>>

MM == INSTANCE Matchmaker WITH RoundInputs <- RoundData

ASSUME MatchmakingAssumption ==
  /\ MM!ParamAssumption
  /\ Moves \subseteq UserMoves
  /\ MaxWire \in Nat
  /\ \A u \in User : FilterChoice[u] \subseteq FilterValue
  /\ {MayTimeOut, MayRestart} \subseteq BOOLEAN

Init ==
  /\ ServerInit
  /\ MM!Init
  /\ screen = [u \in User |-> "away"]
  /\ partner = [u \in User |-> NoUser]

-------------------------------------------------------------------------------
(* Clients *)

Show(u, s, v) ==
  /\ screen' = [screen EXCEPT ![u] = s]
  /\ partner' = [partner EXCEPT ![u] = v]

ClientConnect(u) == Connect(u) /\ UNCHANGED clientVars

ClientDrop(u) ==
  /\ "drop" \in Moves
  /\ Drop(u)
  /\ Show(u, "away", NoUser)

ClientJoin(u) ==
  /\ screen[u] = "away"
  /\ \E filter \in FilterChoice[u] : JoinLobby(u, filter)
  /\ Show(u, "lobby", NoUser)

ClientAccept(u) ==
  /\ "accept" \in Moves
  /\ screen[u] \in {"match", "invited"}
  /\ AcceptMatch(u, partner[u])
  /\ Show(u, IF screen[u] = "invited" THEN "call" ELSE "accepted", partner[u])

ClientDecline(u) ==
  /\ "decline" \in Moves
  /\ screen[u] \in {"match", "invited"}
  /\ DeclineMatch(u, partner[u])
  /\ Show(u, "lobby", NoUser)

ClientEndCall(u) ==
  /\ "end call" \in Moves
  /\ screen[u] = "call"
  /\ ReconnectAfterCall(u, partner[u])
  /\ Show(u, "lobby", NoUser)

ClientRead(u) ==
  /\ u \in attached
  /\ wire[u] # <<>>
  /\ wire' = [wire EXCEPT ![u] = Tail(@)]
  /\ LET type == Head(wire[u]).type
         from == Head(wire[u]).from
         mine == from = partner[u]
     IN CASE type = "match" -> Show(u, "match", from)
          [] type = "accept" /\ mine /\ screen[u] = "match" -> Show(u, "invited", from)
          [] type = "accept" /\ mine /\ screen[u] = "accepted" -> Show(u, "call", from)
          [] type \in {"decline", "reconnect"} /\ mine -> Show(u, "lobby", NoUser)
          [] OTHER -> UNCHANGED clientVars
  /\ UNCHANGED <<socketVars, dataVars, pending, blacklist>>

-------------------------------------------------------------------------------
(* Steps of the subsystem *)

ClientStep ==
  \E u \in User : \/ ClientConnect(u) \/ ClientDrop(u) \/ ClientJoin(u)
                  \/ ClientAccept(u) \/ ClientDecline(u) \/ ClientEndCall(u)
                  \/ ClientRead(u)

ServerClose(u, k) ==
  /\ \/ CloseUnknown(u, k) \/ CloseAlone(u, k)
     \/ CloseOnCall(u, k) \/ CloseOnMatch(u, k)
  /\ UNCHANGED clientVars

ServerContinue(h) ==
  /\ \/ \E j \in joining : j.handler = h /\ LobbyJoined(j)
     \/ \E d \in declining : d.handler = h /\ DeclineForwarded(d)
  /\ UNCHANGED clientVars

\* Bound: no step writes to a websocket with MaxWire unread messages.
WireBound == \A u \in User : Len(wire'[u]) <= MaxWire

ServerStep == \E u \in User, k \in 1..MaxConnects : ServerClose(u, k) \/ ServerContinue(<<u, k>>)

\* The matchmaker's own steps are invisible to the others: they are taken as soon
\* as they can be, and the others move while it sleeps or posts a match.
Meanwhile(step) ==
  /\ pc \in {"sleep", "post"}
  /\ step
  /\ UNCHANGED matchmakerVars

OthersStep == Meanwhile(ClientStep \/ ServerStep) /\ WireBound

PrivateStep == (MM!Prepare \/ MM!Generate) /\ UNCHANGED <<serverVars, clientVars>>

FetchRound == MM!FetchRound(data) /\ TakeRoundData /\ UNCHANGED clientVars

\* The server has cleared the data, the matchmaker has given up waiting for them.
FetchTimesOut ==
  /\ MayTimeOut
  /\ pc = "sleep"
  /\ TakeRoundData
  /\ UNCHANGED <<matchmakerVars, clientVars>>

PostMatch ==
  /\ MM!MatchPosted
  /\ SendMatch(found[1], found[2])
  /\ WireBound
  /\ UNCHANGED clientVars

PostFails == MM!PostFails /\ UNCHANGED <<serverVars, clientVars>>

\* The process dies and is started again with an empty graph.
MatchmakerRestart ==
  /\ MayRestart
  /\ pc \in {"sleep", "post"}
  /\ graph' = {}
  /\ edges' = [u \in User |-> MM!NoEdges]
  /\ disallowed' = [u \in User |-> {}]
  /\ mm' = [u \in User |-> MM!NewSettings(AnyGender)]
  /\ matched' = {} /\ processed' = {} /\ empty' = {} /\ heap' = {}
  /\ pc' = "sleep" /\ fetches' = 0 /\ inbox' = NoRound /\ found' = MM!NoPair
  /\ cutShort' = FALSE
  /\ UNCHANGED <<serverVars, clientVars>>

Next ==
  \/ OthersStep
  \/ PrivateStep
  \/ FetchRound
  \/ FetchTimesOut
  \/ PostMatch
  \/ PostFails
  \/ MatchmakerRestart

Spec == Init /\ [][Next]_systemVars

\* The matchmaker polls for ever and clients read what they are sent.  A client
\* is not slowed down by the matchmaker, so reading is strongly fair: Meanwhile
\* disables it while the matchmaker computes, which the system does not.
Fairness ==
  /\ WF_systemVars(PrivateStep)
  /\ WF_systemVars(FetchRound)
  /\ WF_systemVars(PostMatch)
  /\ \A u \in User : SF_systemVars(Meanwhile(ClientRead(u)))

FairSpec == Spec /\ Fairness

\* The event loop also runs every handler that can run.  What users do is up to
\* them; nothing here makes anybody accept, decline, end a call or leave.
LiveSpec ==
  /\ FairSpec
  /\ \A u \in User, k \in 1..MaxConnects :
       /\ SF_systemVars(Meanwhile(ServerClose(u, k)) /\ WireBound)
       /\ SF_systemVars(Meanwhile(ServerContinue(<<u, k>>)) /\ WireBound)

-------------------------------------------------------------------------------
(* Properties *)

Screens == {"away", "lobby", "match", "invited", "accepted", "call"}
Message == [type : {"match", "accept", "decline", "reconnect", "ack", "ack_failed"},
            from : User]

\* Type correctness of the server and the clients.
TypeOK ==
  /\ newest \in [User -> 0..MaxConnects]
  /\ attached \in SUBSET User
  /\ handlers \in SUBSET (User \X (1..MaxConnects))
  /\ active \in SUBSET User
  /\ wire \in [User -> Seq(Message)]
  /\ online \in SUBSET User
  /\ sent \in Dict(User, [user : User, accepted : BOOLEAN])
  /\ data \in RoundData
  /\ joining \in SUBSET [handler : User \X (1..MaxConnects), vertex : Newcomer]
  /\ declining \in SUBSET [handler : User \X (1..MaxConnects), to : User]
  /\ blacklist \in SUBSET (User \X User)
  /\ screen \in [User -> Screens]
  /\ partner \in [User -> User \cup {NoUser}]

\* "add to temporary blacklist so that if a user reconnects again he won't be
\* offered" (matchmaker.py:307-308): whom the blacklist keeps apart when the
\* matchmaker chooses a pair is not chosen, whatever became of the decline.
DeclinedApart ==
  [][pc' = "post" /\ found' # found =>
       found'[2] \notin Avoids(found'[1])]_systemVars

\* The users the round data believe to be in the lobby can be reached: the two
\* books the server keeps are changed by different steps.
OnlineRegistered == online \subseteq active

\* "we need to keep track of sent matches so that we could send decline/reconnect
\* events if one of the users disconnects" (matchmaking_server.py:169-170): whom a
\* disconnect is announced to has been matched with the user who left, and with
\* nobody else since.
LeaverTellsPartner ==
  [][\A u, v \in User :
       u \in online \ online' /\ Len(wire'[v]) > Len(wire[v]) => sent[v].user = u]_systemVars

\* "got a match previous round in call or waiting for accept" (matchmaker.py:25):
\* nobody whose client waits in the lobby is held as matched for ever.
NobodyStranded == \A u \in User : []<>~(screen[u] = "lobby" /\ u \in matched)

\* "user joined the lobby" (matchmaking_server.py:244): whoever stays in the lobby
\* gets into the matchmaker's graph.
LobbyServed == \A u \in User : []<>~(screen[u] = "lobby" /\ u \notin graph)

\* "B receives reconnect and sends it back" (matchmaking_server.py:285): who is
\* sent back to the lobby from a call becomes available again, or has been given
\* a new match already.
PartnerReturns ==
  \A u \in User :
    screen[u] = "call" /\ wire[u] # <<>> /\ Head(wire[u]).type = "reconnect" ~>
      u \notin matched \/ screen[u] \notin {"call", "lobby"}

\* A round ends also when the server is slow or gone and users come and go: the
\* matchmaker never stays with a pair it cannot deliver.
RoundsEnd == MM!RoundEnds

\* Beside the server the matchmaker is still the process of its module: it only ever
\* gets round data of the form it is made for, and a restart begins it anew.
IsMatchmaker == MM!Init /\ [][MM!Next \/ MM!Init']_matchmakerVars

-------------------------------------------------------------------------------
(* What makes the properties inductive *)

\* A client that shows somebody shows a user, and a pair is posted for two users.
ShownInv ==
  /\ \A u \in User : screen[u] \notin {"away", "lobby"} => partner[u] \in User
  /\ pc = "post" => found \in User \X User

\* Where a close is noticed before the user is back, he has one websocket at most,
\* which is the registered one, and a handler that waits for redis is one of his.
RegisteredInv ==
  /\ \A h, k \in handlers : h[1] = k[1] => h = k
  /\ \A h \in handlers : h[1] \in active
  /\ \A w \in joining \cup declining : w.handler \in handlers
  /\ OnlineRegistered

===============================================================================
