-------------------------- MODULE MatchmakingServer --------------------------
(***************************************************************************)
(* The matchmaking server (swipe/matchmaking/matchmaking_server.py), the   *)
(* round data it collects (MMRoundData) and the websockets it serves       *)
(* (WSConnectionManager).  Users connect, join the lobby, answer matches   *)
(* and end calls over their websocket; what the matchmaker has to know is  *)
(* gathered in the round data until it fetches and clears them; a match of *)
(* the matchmaker is sent to both of its users.                            *)
(*                                                                         *)
(* The server is one asyncio event loop.  A handler runs to its next await *)
(* that really waits, so every action below is the handler from its        *)
(* message to such an await.  A client's message is taken off the wire and *)
(* handled in one step: the delay between the two is indistinguishable     *)
(* from a delay of the client.                                             *)
(***************************************************************************)
EXTENDS Integers, FiniteSets, Sequences

CONSTANTS
  User,                   \* user ids
  NoUser,                 \* None, where a user id is optional
  FilterValue,            \* the values of gender_filter
  ChatPartner,            \* ChatPartner[u]: the cached chat partners of u
  BlacklistEnabled,       \* settings.MATCHMAKING_BLACKLIST_ENABLED
  SwipeBlacklistEnabled,  \* settings.SWIPE_BLACKLIST_ENABLED
  AckRequested,           \* whether clients put a request_id into their messages
  LateClose,              \* whether a client may be back before its close is noticed
  MaxConnects             \* bound: websockets a user opens

ASSUME ServerAssumption ==
  /\ NoUser \notin User
  /\ ChatPartner \in [User -> SUBSET User]
  /\ {BlacklistEnabled, SwipeBlacklistEnabled, AckRequested, LateClose} \subseteq BOOLEAN
  /\ MaxConnects \in Nat

VARIABLES
  newest,     \* newest[u]: number of the last websocket u has opened
  attached,   \* users whose newest websocket is open at their own end
  handlers,   \* <<u, k>>: matchmaker_endpoint serves the k-th websocket of u
  active,     \* keys of connection_manager.active_connections; the value is
              \* always the newest websocket of the user
  wire,       \* wire[u]: sent to u's newest websocket, not yet read
  online,     \* MMRoundData.online_users
  sent,       \* MMRoundData.sent_matches
  data,       \* the rest of MMRoundData: what the next round is told
  joining,    \* handlers waiting for redis while they handle a lobby CONNECT
  declining,  \* handlers waiting for the blacklist while they handle a decline
  blacklist   \* <<a, b>>: a has blocked b

socketVars == <<newest, attached, handlers, active>>
dataVars == <<online, sent, data>>
pending == <<joining, declining>>
serverVars == <<newest, attached, handlers, active, wire, online, sent, data,
                joining, declining, blacklist>>

Dict(K, V) == UNION {[D -> V] : D \in SUBSET K}
Newcomer == [gender_filter : FilterValue, disallowed : SUBSET User]
RoundData == [new_users          : Dict(User, Newcomer),
              returning_users    : Dict(User, User \cup {NoUser}),
              disconnected_users : SUBSET User,
              decline_pairs      : Seq(User \X User)]
EmptyDict == [k \in {} |-> NoUser]
NoRound == [new_users |-> EmptyDict, returning_users |-> EmptyDict,
            disconnected_users |-> {}, decline_pairs |-> <<>>]

ServerInit ==
  /\ newest = [u \in User |-> 0]
  /\ attached = {}
  /\ handlers = {}
  /\ active = {}
  /\ wire = [u \in User |-> <<>>]
  /\ online = {}
  /\ sent = EmptyDict
  /\ data = NoRound
  /\ joining = {}
  /\ declining = {}
  /\ blacklist = {}

-------------------------------------------------------------------------------
Put(d, k, v) == [x \in DOMAIN d \cup {k} |-> IF x = k THEN v ELSE d[x]]
Removed(d, S) == [x \in DOMAIN d \ S |-> d[x]]

Reconnect_Swapped(d, u, v) == [d EXCEPT !.returning_users = Put(@, v, u)]

\* MMRoundData.reconnect and reconnect_after_call.
Reconnect(d, u, v) == [d EXCEPT !.returning_users = Put(@, u, v)]

\* WSConnectionManager.send: nothing happens if the user is not registered, and
\* what is written to a websocket whose other end is gone is lost.
Written(w, to, type, from) ==
  IF to \in active \cap attached
  THEN [w EXCEPT ![to] = Append(@, [type |-> type, from |-> from])] ELSE w

\* _send_ack.  The code answers "ack" when the payload was not processed.
AckType(success) == IF ~success THEN "ack" ELSE "ack_failed"
Acked(w, u, success) ==
  IF AckRequested THEN Written(w, u, AckType(success), u) ELSE w

Sockets(u) == {h \in handlers : h[1] = u}
Idle(h) == h \in handlers /\ \A w \in joining \cup declining : w.handler # h
Handles(u) == u \in attached /\ Idle(<<u, newest[u]>>)

-------------------------------------------------------------------------------
(* Websockets *)

\* _init_user: the last of its steps registers the websocket.
Connect(u) ==
  /\ u \notin attached
  /\ newest[u] < MaxConnects
  /\ LateClose \/ Sockets(u) = {}
  /\ newest' = [newest EXCEPT ![u] = @ + 1]
  /\ attached' = attached \cup {u}
  /\ active' = active \cup {u}
  /\ handlers' = handlers \cup {<<u, newest[u] + 1>>}
  /\ wire' = [wire EXCEPT ![u] = <<>>]
  /\ UNCHANGED <<dataVars, pending, blacklist>>

\* The client closes its websocket or loses it.  The server does not know yet.
Drop(u) ==
  /\ u \in attached
  /\ attached' = attached \ {u}
  /\ wire' = [wire EXCEPT ![u] = <<>>]
  /\ UNCHANGED <<newest, handlers, active, dataVars, pending, blacklist>>

Closing(u, k) ==
  /\ Idle(<<u, k>>)
  /\ ~(u \in attached /\ k = newest[u])
  /\ handlers' = handlers \ {<<u, k>>}
  /\ UNCHANGED <<newest, attached, pending, blacklist>>

\* _process_disconnect for a user who never joined the lobby, or whose other
\* websocket was closed before: online_users.remove raises KeyError, and the
\* handler ends without touching his registration and his match.
CloseUnknown(u, k) ==
  /\ Closing(u, k)
  /\ u \notin online
  /\ data' = [data EXCEPT !.disconnected_users = @ \cup {u}]
  /\ UNCHANGED <<active, wire, online, sent>>

ClosingOnline_StaysOnline(u, k) ==
  /\ Closing(u, k)
  /\ u \in online
  /\ active' = active \ {u}
  /\ UNCHANGED online

\* The rest of _process_disconnect removes whatever websocket is registered.
ClosingOnline(u, k) ==
  /\ Closing(u, k)
  /\ u \in online
  /\ online' = online \ {u}
  /\ active' = active \ {u}

Told(d, u) == [d EXCEPT !.disconnected_users = @ \cup {u}]

\* No match was sent to him, or the partner's entry is gone: then reading its
\* accepted flag raises AttributeError and the match stays.
CloseAlone(u, k) ==
  /\ ClosingOnline(u, k)
  /\ u \in DOMAIN sent => sent[u].user \notin DOMAIN sent
  /\ data' = Told(data, u)
  /\ UNCHANGED <<wire, sent>>

OnCall(u) == sent[u].accepted /\ sent[sent[u].user].accepted

\* A disconnects on call: B is sent a reconnect, for B to react to.
CloseOnCall(u, k) ==
  /\ ClosingOnline(u, k)
  /\ u \in DOMAIN sent /\ sent[u].user \in DOMAIN sent
  /\ OnCall(u)
  /\ data' = Told(data, u)
  /\ wire' = Written(wire, sent[u].user, "reconnect", u)
  /\ sent' = Removed(sent, {u, sent[u].user})

\* A disconnects on the match screen: B is sent a decline and put back.
CloseOnMatch(u, k) ==
  /\ ClosingOnline(u, k)
  /\ u \in DOMAIN sent /\ sent[u].user \in DOMAIN sent
  /\ ~OnCall(u)
  /\ data' = Reconnect(Told(data, u), sent[u].user, NoUser)
  /\ wire' = Written(wire, sent[u].user, "decline", u)
  /\ sent' = Removed(sent, {u, sent[u].user})

-------------------------------------------------------------------------------
(* _process_payload, the acknowledgement, and forwarding to the recipient *)

Avoids(u) == {v \in User : {<<u, v>>, <<v, u>>} \cap blacklist # {}}

\* Lobby CONNECT, up to the answers of redis.  The user data are gone if an older
\* websocket of his has just been closed: user_data.age raises AttributeError.
JoinLobby(u, filter) ==
  /\ Handles(u)
  /\ IF u \in active
     THEN /\ joining' = joining \cup {[handler |-> <<u, newest[u]>>, vertex |->
                        [gender_filter |-> filter, disallowed |-> ChatPartner[u] \cup Avoids(u)]]}
          /\ UNCHANGED wire
     ELSE /\ wire' = Acked(wire, u, FALSE)
          /\ UNCHANGED joining
  /\ UNCHANGED <<socketVars, dataVars, declining, blacklist>>

LobbyJoined_NotTold(j) ==
  /\ j \in joining
  /\ joining' = joining \ {j}
  /\ online' = online \cup {j.handler[1]}
  /\ wire' = Acked(wire, j.handler[1], TRUE)
  /\ UNCHANGED <<socketVars, data, sent, declining, blacklist>>

\* MMRoundData.connect, and the acknowledgement.
LobbyJoined(j) ==
  LET u == j.handler[1]
  IN /\ j \in joining
     /\ joining' = joining \ {j}
     /\ online' = online \cup {u}
     /\ data' = [data EXCEPT !.new_users = Put(@, u, j.vertex)]
     /\ wire' = Acked(wire, u, TRUE)
     /\ UNCHANGED <<socketVars, sent, declining, blacklist>>

\* Match ACCEPT.  KeyError if there is no match any more: not forwarded then.
AcceptMatch(u, v) ==
  /\ Handles(u)
  /\ sent' = IF u \in DOMAIN sent THEN [sent EXCEPT ![u].accepted = TRUE] ELSE sent
  /\ wire' = IF u \in DOMAIN sent
             THEN Written(Acked(wire, u, TRUE), v, "accept", u)
             ELSE Acked(wire, u, FALSE)
  /\ UNCHANGED <<socketVars, online, data, pending, blacklist>>

\* Match DECLINE.  With both blacklist settings on, the handler waits for the
\* database and redis before the decline is acknowledged and forwarded.
DeclineMatch(u, v) ==
  /\ Handles(u)
  /\ data' = [data EXCEPT !.decline_pairs = Append(@, <<u, v>>)]
  /\ sent' = Removed(sent, {u, v})
  /\ IF BlacklistEnabled /\ SwipeBlacklistEnabled
     THEN /\ declining' = declining \cup {[handler |-> <<u, newest[u]>>, to |-> v]}
          /\ UNCHANGED wire
     ELSE /\ wire' = Written(Acked(wire, u, TRUE), v, "decline", u)
          /\ UNCHANGED declining
  /\ UNCHANGED <<socketVars, online, joining, blacklist>>

\* update_blacklist has returned, or has raised because u had blocked v before.
DeclineForwarded(d) ==
  LET u == d.handler[1]
      pair == <<u, d.to>>
  IN /\ d \in declining
     /\ declining' = declining \ {d}
     /\ blacklist' = blacklist \cup {pair}
     /\ wire' = IF pair \in blacklist THEN Acked(wire, u, FALSE)
                ELSE Written(Acked(wire, u, TRUE), d.to, "decline", u)
     /\ UNCHANGED <<socketVars, dataVars, joining>>

ReconnectAfterCall_Alone(u, v) ==
  /\ Handles(u)
  /\ data' = Reconnect(data, u, v)
  /\ wire' = Written(Acked(wire, u, TRUE), v, "reconnect", u)
  /\ UNCHANGED <<socketVars, online, sent, pending, blacklist>>

\* Lobby RECONNECT with a recipient: u has ended the call.  The recipient answers
\* with a RECONNECT without recipient, which changes nothing here.
ReconnectAfterCall(u, v) ==
  /\ Handles(u)
  /\ data' = Reconnect(Reconnect(data, u, v), v, u)
  /\ wire' = Written(Acked(wire, u, TRUE), v, "reconnect", u)
  /\ UNCHANGED <<socketVars, online, sent, pending, blacklist>>

-------------------------------------------------------------------------------
(* Requests of the matchmaker *)

\* /send_match: dropped without a word unless both users are registered.
SendMatch(u, v) ==
  /\ IF {u, v} \subseteq active
     THEN /\ sent' = Put(Put(sent, u, [user |-> v, accepted |-> FALSE]),
                         v, [user |-> u, accepted |-> FALSE])
          /\ wire' = Written(Written(wire, v, "match", u), u, "match", v)
     ELSE UNCHANGED <<sent, wire>>
  /\ UNCHANGED <<socketVars, online, data, pending, blacklist>>

\* /new_round_data: the answer is data as it was.
TakeRoundData ==
  /\ data' = NoRound
  /\ UNCHANGED <<socketVars, wire, online, sent, pending, blacklist>>

===============================================================================
