----------------------------- MODULE Conversations -----------------------------
(***************************************************************************)
(* Lasting chats between users: the payloads of the chat server that work  *)
(* on chats and messages (swipe/chat_server/services.py), what it passes   *)
(* on or pushes to the other user (swipe/chat_server/server.py), the two   *)
(* tables behind them (swipe/swipe_server/chats/services.py), and the      *)
(* fetch a client makes when it is back (GET /chats?only_unread=true).     *)
(*                                                                         *)
(* A handler works on the database without an await, so each payload is    *)
(* one step up to its first redis command; what comes after the command is *)
(* a step of its own.  A client reads what it is sent in order and keeps   *)
(* what it has got when it is closed.  Likes, acknowledgements and the     *)
(* payloads that only redraw a screen (status, open, like) are left out.   *)
(***************************************************************************)
EXTENDS Integers, FiniteSets, Sequences

CONSTANTS
  User,         \* user ids
  Chat,         \* chat ids
  Members,      \* Members[c]: <<initiator_id, the_other_person_id>>
  Writers,      \* <<u, c>>: u writes to the other member of c
  MaxConnects,  \* bound: MaxConnects[u] websockets are opened by u
  MaxMessages   \* bound: messages of all users

ASSUME ConversationsAssumption ==
  /\ Members \in [Chat -> {p \in User \X User : p[1] # p[2]}]
  /\ Writers \subseteq User \X Chat
  /\ MaxConnects \in [User -> Nat]
  /\ MaxMessages \in Nat

VARIABLES
  opened,     \* opened[u]: number of websockets u has opened
  attached,   \* users whose websocket is open at their own end
  handler,    \* handler[u]: what websocket_endpoint does for u
  active,     \* keys of connection_manager.active_connections
  tokens,     \* keys of the redis hash firebase_tokens
  cooldown,   \* <<s, r>>: the key firebase_cooldown:s:r is there
  chats,      \* table chats: status by id
  blacklist,  \* table blacklist: <<blocked_by, blocked>>
  said,       \* every message sent, in the order of their timestamps
  status,     \* table chat_messages: status by id, the message's index in said
  wire,       \* wire[u]: sent to u's websocket, not yet read
  fetched,    \* users whose client has fetched its chats since it connected
  shown,      \* shown[u]: chats the client of u has
  known,      \* known[u]: messages of others the client of u has
  seen,       \* seen[u]: messages u has read
  declined    \* <<u, c>>: u has declined c

socketVars == <<opened, attached, active>>
pushVars == <<tokens, cooldown>>
database == <<chats, blacklist, status>>
clientVars == <<fetched, shown, known, seen, declined>>
vars == <<opened, attached, handler, active, tokens, cooldown, chats, blacklist,
          said, status, wire, fetched, shown, known, seen, declined>>

NoChat == [c \in {} |-> "requested"]
Does(phase, c) == [phase |-> phase, chat |-> c]
Phases == {"away", "joining", "joined", "serving", "creating", "declining",
           "cooldown?", "token?", "pushed", "leaving"}

Init ==
  /\ opened = [u \in User |-> 0]
  /\ attached = {}
  /\ handler = [u \in User |-> Does("away", {})]
  /\ active = {}
  /\ tokens = {}
  /\ cooldown = {}
  /\ chats = NoChat
  /\ blacklist = {}
  /\ said = <<>>
  /\ status = [m \in {} |-> "sent"]
  /\ wire = [u \in User |-> <<>>]
  /\ fetched = {}
  /\ shown = [u \in User |-> {}]
  /\ known = [u \in User |-> {}]
  /\ seen = [u \in User |-> {}]
  /\ declined = {}

-------------------------------------------------------------------------------
Other(u, c) == IF Members[c][1] = u THEN Members[c][2] ELSE Members[c][1]
ChatsOf(u) == {c \in Chat : u \in {Members[c][1], Members[c][2]}}
Put(d, k, x) == [y \in DOMAIN d \cup {k} |-> IF y = k THEN x ELSE d[y]]
Stored == DOMAIN status
For(u) == {m \in Stored : said[m].chat \in ChatsOf(u) /\ said[m].from # u}

\* fetch_chat_by_members, which raises if there are two.
Between(table, c) ==
  {d \in DOMAIN table : {Members[d][1], Members[d][2]} = {Members[c][1], Members[c][2]}}

MarkedRead_Newer(m) ==
  [x \in Stored |-> IF said[x].from = said[m].from THEN "read" ELSE status[x]]

MarkedRead_BothSides(m) ==
  [x \in Stored |-> IF x <= m THEN "read" ELSE status[x]]

\* set_read_status: what the sender of m had sent up to then, to whomever.
MarkedRead(m) ==
  [x \in Stored |-> IF said[x].from = said[m].from /\ x <= m THEN "read" ELSE status[x]]

WithoutChat_KeepsMessages(c) ==
  /\ chats' = [d \in DOMAIN chats \ {c} |-> chats[d]]
  /\ status' = status

\* delete_chat; the database deletes the messages of the chat.
WithoutChat(c) ==
  /\ chats' = [d \in DOMAIN chats \ {c} |-> chats[d]]
  /\ status' = [m \in {x \in Stored : said[x].chat # c} |-> status[m]]

Event(type, c, m) == [type |-> type, chat |-> c, id |-> m]

\* connection_manager.send: what is written to a websocket whose other end is
\* gone is lost.
Written(r, event) ==
  IF r \in active \cap attached THEN [wire EXCEPT ![r] = Append(@, event)] ELSE wire

\* _send_response_to_recipient for a payload that is pushed to who is offline.
Forward(u, c, event) ==
  /\ wire' = Written(Other(u, c), event)
  /\ handler' = [handler EXCEPT ![u] =
                   IF Other(u, c) \in active THEN Does("serving", {})
                   ELSE Does("cooldown?", {c})]

Serves(u) == u \in attached /\ handler[u].phase = "serving"
Pending(phase) == UNION {handler[u].chat : u \in {v \in User : handler[v].phase = phase}}

-------------------------------------------------------------------------------
(* Websockets *)

\* _init_user, up to its first redis command.
Connect(u) ==
  /\ handler[u].phase = "away"
  /\ opened[u] < MaxConnects[u]
  /\ opened' = [opened EXCEPT ![u] = @ + 1]
  /\ attached' = attached \cup {u}
  /\ handler' = [handler EXCEPT ![u] = Does("joining", {})]
  /\ UNCHANGED <<active, pushVars, database, said, wire, clientVars>>

\* "we're online so we don't need a token in cache"
DropToken(u) ==
  /\ handler[u].phase = "joining"
  /\ tokens' = tokens \ {u}
  /\ handler' = [handler EXCEPT ![u] = Does("joined", {})]
  /\ UNCHANGED <<socketVars, cooldown, database, said, wire, clientVars>>

\* The end of _init_user, after the commands on the other caches.
Register(u) ==
  /\ handler[u].phase = "joined"
  /\ active' = active \cup {u}
  /\ handler' = [handler EXCEPT ![u] = Does("serving", {})]
  /\ UNCHANGED <<opened, attached, pushVars, database, said, wire, clientVars>>

Drop(u) ==
  /\ u \in attached
  /\ attached' = attached \ {u}
  /\ wire' = [wire EXCEPT ![u] = <<>>]
  /\ fetched' = fetched \ {u}
  /\ UNCHANGED <<opened, handler, active, pushVars, database, said,
                 shown, known, seen, declined>>

\* _process_disconnect, up to its first redis command.
Disconnect(u) ==
  /\ handler[u].phase = "serving"
  /\ u \notin attached
  /\ active' = active \ {u}
  /\ handler' = [handler EXCEPT ![u] = Does("leaving", {})]
  /\ UNCHANGED <<opened, attached, pushVars, database, said, wire, clientVars>>

\* "going offline, gotta save the token to cache"
KeepToken(u) ==
  /\ handler[u].phase = "leaving"
  /\ tokens' = tokens \cup {u}
  /\ handler' = [handler EXCEPT ![u] = Does("away", {})]
  /\ UNCHANGED <<socketVars, cooldown, database, said, wire, clientVars>>

-------------------------------------------------------------------------------
(* Payloads, and the commands a handler issues after them *)

Say(u, c) == said' = Append(said, [from |-> u, chat |-> c])
NextMessage == Len(said) + 1

\* CreateChatPayload with its first message.  What cannot be stored is rolled back
\* and swallowed; the message is missing if there is a chat the other way round.
CreateChat(u, c) ==
  /\ Serves(u)
  /\ u = Members[c][1]
  /\ <<u, c>> \in Writers
  /\ \A m \in DOMAIN said : said[m].chat # c
  /\ Len(said) < MaxMessages
  /\ Say(u, c)
  /\ chats' = IF \E d \in DOMAIN chats : Members[d] = Members[c] THEN chats
              ELSE Put(chats, c, "requested")
  /\ status' = IF chats' # chats /\ Between(chats', c) = {c}
               THEN Put(status, NextMessage, "sent") ELSE status
  /\ shown' = [shown EXCEPT ![u] = @ \cup {c}]
  /\ handler' = [handler EXCEPT ![u] = Does("creating", {c})]
  /\ UNCHANGED <<socketVars, pushVars, blacklist, wire, fetched, known, seen, declined>>

\* The partners are cached, then the payload goes to the other one.
ChatCreated(u, c) ==
  /\ handler[u] = Does("creating", {c})
  /\ Forward(u, c, Event("create", c, CHOOSE m \in DOMAIN said : said[m] = [from |-> u, chat |-> c]))
  /\ UNCHANGED <<socketVars, pushVars, database, said, clientVars>>

\* MessagePayload.  It goes to the chat of the two, and is refused if there is
\* none, or two.
PostMessage(u, c) ==
  /\ Serves(u)
  /\ <<u, c>> \in Writers
  /\ c \in shown[u]
  /\ Len(said) < MaxMessages
  /\ LET rooms == Between(chats, c)
     IN IF Cardinality(rooms) = 1
        THEN /\ \E d \in rooms : Say(u, d)
             /\ status' = Put(status, NextMessage, "sent")
             /\ Forward(u, c, Event("message", c, NextMessage))
        ELSE /\ Say(u, c)
             /\ UNCHANGED <<status, wire, handler>>
  /\ UNCHANGED <<socketVars, pushVars, chats, blacklist, clientVars>>

\* AcceptChatPayload and OpenChatPayload, from the one who was asked.  Nobody is
\* pushed that his request has been opened.
AcceptChat(u, c) ==
  /\ Serves(u)
  /\ u = Members[c][2]
  /\ c \in shown[u] \cap DOMAIN chats
  /\ chats[c] # "accepted"
  /\ chats' = [chats EXCEPT ![c] = "accepted"]
  /\ Forward(u, c, Event("accept", c, 0))
  /\ UNCHANGED <<socketVars, pushVars, blacklist, said, status, clientVars>>

OpenChat(u, c) ==
  /\ Serves(u)
  /\ u = Members[c][2]
  /\ c \in shown[u] \cap DOMAIN chats
  /\ chats[c] = "requested"
  /\ chats' = [chats EXCEPT ![c] = "opened"]
  /\ UNCHANGED <<socketVars, handler, pushVars, blacklist, said, status, wire, clientVars>>

\* DeclineChatPayload.  A chat that is gone is refused; one whose members are on
\* the blacklist already is deleted, but then nobody is told.
DeclineChat(u, c) ==
  LET pair == <<u, Other(u, c)>>
  IN /\ Serves(u)
     /\ c \in shown[u]
     /\ shown' = [shown EXCEPT ![u] = @ \ {c}]
     /\ declined' = declined \cup {<<u, c>>}
     /\ IF c \in DOMAIN chats
        THEN /\ WithoutChat(c)
             /\ blacklist' = blacklist \cup {pair}
             /\ handler' = [handler EXCEPT ![u] =
                              IF pair \in blacklist THEN @ ELSE Does("declining", {c})]
        ELSE UNCHANGED <<chats, status, blacklist, handler>>
     /\ UNCHANGED <<socketVars, pushVars, said, wire, fetched, known, seen>>

ChatDeclined_NotTold(u, c) ==
  /\ handler[u] = Does("declining", {c})
  /\ handler' = [handler EXCEPT ![u] = Does("serving", {})]
  /\ UNCHANGED <<socketVars, pushVars, database, said, wire, clientVars>>

\* The caches are up to date.  A decline is not pushed to who is offline.
ChatDeclined(u, c) ==
  /\ handler[u] = Does("declining", {c})
  /\ handler' = [handler EXCEPT ![u] = Does("serving", {})]
  /\ wire' = Written(Other(u, c), Event("decline", c, 0))
  /\ UNCHANGED <<socketVars, pushVars, database, said, clientVars>>

\* MessageStatusPayload "received", before the message is read.
Receive(u, m) ==
  /\ Serves(u)
  /\ m \in known[u] \ seen[u]
  /\ m \in Stored
  /\ status' = [status EXCEPT ![m] = "received"]
  /\ UNCHANGED <<socketVars, handler, pushVars, chats, blacklist, said, wire, clientVars>>

\* MessageStatusPayload "read".  A user reads a chat once his client has fetched,
\* and has then read whatever came before.  A message that is gone raises.
ReadMessage(u, m) ==
  /\ Serves(u)
  /\ u \in fetched
  /\ m \in known[u] \ seen[u]
  /\ said[m].chat \in shown[u]
  /\ seen' = [seen EXCEPT ![u] =
               @ \cup {x \in known[u] : x <= m /\ said[x].chat = said[m].chat}]
  /\ status' = IF m \in Stored THEN MarkedRead(m) ELSE status
  /\ UNCHANGED <<socketVars, handler, pushVars, chats, blacklist, said, wire,
                 fetched, shown, known, declined>>

-------------------------------------------------------------------------------
(* _send_firebase_notification *)

AskCooldown(u) ==
  \E c \in Chat :
    /\ handler[u] = Does("cooldown?", {c})
    /\ handler' = [handler EXCEPT ![u] =
                     IF <<u, Other(u, c)>> \in cooldown THEN Does("serving", {})
                     ELSE Does("token?", {c})]
    /\ UNCHANGED <<socketVars, pushVars, database, said, wire, clientVars>>

\* "User does not have a firebase token which is weird", or he is notified.
AskToken(u) ==
  \E c \in Chat :
    /\ handler[u] = Does("token?", {c})
    /\ handler' = [handler EXCEPT ![u] =
                     IF Other(u, c) \in tokens THEN Does("pushed", {c})
                     ELSE Does("serving", {})]
    /\ UNCHANGED <<socketVars, pushVars, database, said, wire, clientVars>>

StartCooldown(u) ==
  \E c \in Chat :
    /\ handler[u] = Does("pushed", {c})
    /\ cooldown' = cooldown \cup {<<u, Other(u, c)>>}
    /\ handler' = [handler EXCEPT ![u] = Does("serving", {})]
    /\ UNCHANGED <<socketVars, tokens, database, said, wire, clientVars>>

CooldownEnds(u, v) ==
  /\ <<u, v>> \in cooldown
  /\ cooldown' = cooldown \ {<<u, v>>}
  /\ UNCHANGED <<socketVars, handler, tokens, database, said, wire, clientVars>>

-------------------------------------------------------------------------------
(* Clients *)

\* GET /chats?only_unread=true, by a client whose websocket has been accepted:
\* the unread messages, and the ids of the chats that have any message.  The
\* query takes the chats of all users; a client shows its own.
Fetch(u) ==
  /\ u \in active \cap attached
  /\ u \notin fetched
  /\ fetched' = fetched \cup {u}
  /\ known' = [known EXCEPT ![u] = @ \cup {m \in For(u) : status[m] # "read"}]
  /\ shown' = [shown EXCEPT ![u] = {said[m].chat : m \in Stored} \cap ChatsOf(u)]
  /\ UNCHANGED <<socketVars, handler, pushVars, database, said, wire, seen, declined>>

ReadWire(u) ==
  /\ u \in attached
  /\ wire[u] # <<>>
  /\ wire' = [wire EXCEPT ![u] = Tail(@)]
  /\ LET event == Head(wire[u])
     IN /\ known' = IF event.type \in {"message", "create"}
                    THEN [known EXCEPT ![u] = @ \cup {event.id}] ELSE known
        /\ shown' = CASE event.type = "create" -> [shown EXCEPT ![u] = @ \cup {event.chat}]
                      [] event.type = "decline" -> [shown EXCEPT ![u] = @ \ {event.chat}]
                      [] OTHER -> shown
  /\ UNCHANGED <<socketVars, handler, pushVars, database, said, fetched, seen, declined>>

-------------------------------------------------------------------------------
Next ==
  \/ \E u \in User : \/ Connect(u) \/ DropToken(u) \/ Register(u)
                     \/ Drop(u) \/ Disconnect(u) \/ KeepToken(u)
  \/ \E u \in User, c \in Chat :
       \/ CreateChat(u, c) \/ ChatCreated(u, c) \/ PostMessage(u, c)
       \/ AcceptChat(u, c) \/ OpenChat(u, c)
       \/ DeclineChat(u, c) \/ ChatDeclined(u, c)
  \/ \E u \in User, m \in 1..MaxMessages : Receive(u, m) \/ ReadMessage(u, m)
  \/ \E u \in User : AskCooldown(u) \/ AskToken(u) \/ StartCooldown(u)
  \/ \E u, v \in User : CooldownEnds(u, v)
  \/ \E u \in User : Fetch(u) \/ ReadWire(u)

Spec == Init /\ [][Next]_vars

-------------------------------------------------------------------------------
(* Properties *)

Message == [from : User, chat : Chat]
HandlerState == [phase : Phases, chat : SUBSET Chat]
WireEvent == [type : {"message", "create", "accept", "decline"}, chat : Chat, id : 0..MaxMessages]

\* Type correctness of the tables, whose messages belong to a chat each, of the
\* caches, the connections and the clients.
TypeOK ==
  /\ opened \in [User -> Nat] /\ \A u \in User : opened[u] <= MaxConnects[u]
  /\ attached \in SUBSET User
  /\ handler \in [User -> HandlerState]
  /\ active \in SUBSET User
  /\ tokens \in SUBSET User
  /\ cooldown \in SUBSET (User \X User)
  /\ DOMAIN chats \in SUBSET Chat
  /\ \A c \in DOMAIN chats : chats[c] \in {"requested", "opened", "accepted"}
  /\ blacklist \in SUBSET (User \X User)
  /\ said \in Seq(Message) /\ Len(said) <= MaxMessages
  /\ Stored \subseteq {m \in DOMAIN said : said[m].chat \in DOMAIN chats}
  /\ \A m \in Stored : status[m] \in {"sent", "received", "read"}
  /\ wire \in [User -> Seq(WireEvent)]
  /\ fetched \in SUBSET attached
  /\ shown \in [User -> SUBSET Chat]
  /\ known \in [User -> SUBSET (DOMAIN said)]
  /\ seen \in [User -> SUBSET (DOMAIN said)]
  /\ declined \in SUBSET (User \X Chat)

\* Its sender has written to somebody else since, who has read that.
Overtaken(m) ==
  \E n \in DOMAIN said :
    /\ n > m
    /\ said[n].from = said[m].from /\ said[n].chat # said[m].chat
    /\ n \in seen[Other(said[n].from, said[n].chat)]

\* "Set status of all messages before and including the one with message_id to
\* MessageStatus.READ" (chats/services.py:128-129), whatever chat they are in: a
\* sender who sees his message as read is not deceived, the user it was meant for
\* has read it, unless it has been overtaken.
ReadByPartner ==
  \A m \in Stored : status[m] = "read" =>
    m \in seen[Other(said[m].from, said[m].chat)] \/ Overtaken(m)

OnItsWay(u, m) ==
  \/ \E i \in 1..Len(wire[u]) : wire[u][i].id = m
  \/ said[m].chat \in Pending("creating")

\* "When 'only_unread' is set to true, returns only chats with unread messages"
\* (chats/endpoints.py:71): that should be enough for a client to keep up.  Whatever
\* was lost with earlier websockets, once it has connected and then fetched, it has
\* every message meant for it, or is about to be sent it.
NothingMissed ==
  \A u \in fetched : \A m \in For(u) : m \in known[u] \/ OnItsWay(u, m)

\* It is not: what has been overtaken may be missing, and nothing else is.
FetchKeepsUp ==
  \A u \in fetched : \A m \in For(u) : m \in known[u] \/ OnItsWay(u, m) \/ Overtaken(m)

\* "user needs to know the list of all chats in case some were deleted while he's
\* offline" (chats/endpoints.py:82-83): a chat the other one has deleted does not
\* stay with a client that has fetched.
DeclineReaches ==
  \A u \in fetched : \A c \in shown[u] \ DOMAIN chats :
    \/ <<u, c>> \in declined
    \/ c \in Pending("declining")
    \/ \E i \in 1..Len(wire[u]) : wire[u][i].type = "decline" /\ wire[u][i].chat = c

-------------------------------------------------------------------------------
(* What makes the properties inductive, where a pair has one chat.                 *)

OneChatPerPair ==
  \A c, d \in Chat :
    {Members[c][1], Members[c][2]} = {Members[d][1], Members[d][2]} => c = d

\* A handler is about a chat of its user's, or none; it is registered while it
\* serves a websocket, and is not over before that is closed.
HandlersInv ==
  \A u \in User :
    /\ IF handler[u].phase \in {"away", "joining", "joined", "serving", "leaving"}
       THEN handler[u].chat = {}
       ELSE \E c \in ChatsOf(u) : handler[u].chat = {c}
    /\ u \in active <=> handler[u].phase \notin {"away", "joining", "joined", "leaving"}
    /\ handler[u].phase \in {"away", "leaving"} => u \notin attached

Meant(u) == {m \in DOMAIN said : said[m].chat \in ChatsOf(u) /\ said[m].from # u}
Carries(event) == event.type \in {"message", "create"}

\* A client gets what is meant for its user, and only through an open websocket.
ClientsInv ==
  /\ fetched \subseteq active
  /\ \A u \in User :
       /\ shown[u] \subseteq ChatsOf(u)
       /\ seen[u] \subseteq known[u] /\ known[u] \subseteq Meant(u)
       /\ wire[u] # <<>> => u \in active \cap attached
       /\ \A i \in 1..Len(wire[u]) : /\ wire[u][i].chat \in ChatsOf(u)
                                     /\ Carries(wire[u][i]) => wire[u][i].id \in Meant(u)
                                     /\ ~Carries(wire[u][i]) => wire[u][i].id = 0

\* Users write in their own chats, and only for their first message in a chat they
\* create, of which there is one, is a handler busy creating it.
MessagesInv ==
  /\ \A m \in DOMAIN said : said[m].chat \in ChatsOf(said[m].from)
  /\ \A c \in DOMAIN chats : \E m \in DOMAIN said : said[m].chat = c
  /\ \A u \in User, c \in Chat : handler[u] = Does("creating", {c}) =>
       \E m \in DOMAIN said : {n \in DOMAIN said : said[n] = [from |-> u, chat |-> c]} = {m}

Telling(c) == \E v \in User : handler[v] = Does("declining", {c})

\* A chat that is gone has been declined, and whoever has not done so is told so
\* after he was told that it is there.
DeclinesInv ==
  /\ \A u \in User : \A c \in ChatsOf(u) :
       <<u, Other(u, c)>> \in blacklist => /\ c \notin DOMAIN chats
                                          /\ \E m \in DOMAIN said : said[m].chat = c
  /\ \A u \in User, c \in Chat :
       /\ handler[u] = Does("declining", {c}) => <<u, c>> \in declined
       /\ handler[u] = Does("creating", {c}) => c \in DOMAIN chats \/ <<Other(u, c), c>> \in declined
  /\ \A u \in User : \A i \in 1..Len(wire[u]) :
       LET c == wire[u][i].chat
       IN wire[u][i].type = "create" =>
            \/ c \in DOMAIN chats \/ <<u, c>> \in declined \/ Telling(c)
            \/ \E j \in (i + 1)..Len(wire[u]) : wire[u][j].type = "decline" /\ wire[u][j].chat = c

Waiting(u, m) ==
  \/ \E i \in 1..Len(wire[u]) : Carries(wire[u][i]) /\ wire[u][i].id = m
  \/ handler[said[m].from] = Does("creating", {said[m].chat})

\* The messages of a chat reach a client in the order they were sent in.
OrderInv ==
  /\ \A u \in User : \A i, j \in 1..Len(wire[u]) :
       LET m == wire[u][i].id
           n == wire[u][j].id
       IN i < j /\ Carries(wire[u][i]) /\ Carries(wire[u][j]) /\ said[m].chat = said[n].chat => m < n
  /\ \A u \in User : \A i \in 1..Len(wire[u]) :
       Carries(wire[u][i]) =>
         LET m == wire[u][i].id IN handler[said[m].from] # Does("creating", {said[m].chat})
  /\ \A u \in fetched : \A m \in For(u) \ known[u] :
       \/ Overtaken(m)
       \/ /\ Waiting(u, m)
          /\ \A n \in known[u] : said[n].chat = said[m].chat => n < m

===============================================================================
