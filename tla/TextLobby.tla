------------------------------- MODULE TextLobby -------------------------------
(***************************************************************************)
(* The text lobby (swipe/mm_chat_server/server.py) and the chats it leaves *)
(* in the database.  Two users who were matched meet in a temporary chat;  *)
(* when one of them accepts, the lobby has the chat server create a chat   *)
(* with what has been said, and passes on what is said from then on.       *)
(*                                                                         *)
(* A handler of the lobby has no await between its first and its last      *)
(* change of state: the requests to the chat server block its event loop,  *)
(* and the chat server works a payload off without an await as far as the  *)
(* database is concerned.  So every payload is one step, the transaction   *)
(* it causes included.  A temporary chat is named after the websocket that *)
(* opened it, where the code takes a fresh uuid.                           *)
(***************************************************************************)
EXTENDS Integers, FiniteSets, Sequences

CONSTANTS
  User,         \* user ids
  Direct,       \* stands for the chats that do not come from the lobby
  Meets,        \* bound: pairs <<u, v>> of users such that u may join the lobby for v
  Writers,      \* users who may write to somebody without meeting him first
  MaxOpens,     \* bound: MaxOpens[u] websockets are opened by u
  MaxMessages,  \* bound: messages of all users
  MaxFailures   \* bound: requests to the chat server that raise

ASSUME TextLobbyAssumption ==
  /\ Direct \notin User \cup (User \X Nat)
  /\ Meets \subseteq {p \in User \X User : p[1] # p[2]}
  /\ Writers \subseteq User
  /\ MaxOpens \in [User -> Nat]
  /\ MaxMessages \in Nat
  /\ MaxFailures \in Nat

VARIABLES
  newest,    \* newest[u]: number of the last websocket u has opened
  attached,  \* users whose newest websocket is open at their own end
  sockets,   \* sockets[<<u, k>>]: matchmaker_endpoint for u's k-th websocket
  active,    \* active_connections of the connection manager: the number of u's websocket
  clients,   \* current_clients
  temp,      \* current_chats: whether saved, and the messages kept
  said,      \* every message that was handled, in order; ids are its indices
  chats,     \* table chats: initiator_id and the_other_person_id by id
  stored,    \* table chat_messages: the chat of a message by the message's id
  blocked,   \* pairs one of whom is on the blacklist of the other
  refused,   \* history: ids of the chats that were not created
  failures   \* requests that have raised so far

lobbyVars == <<newest, attached, sockets, active, clients, temp>>
database == <<chats, stored, blocked, refused>>
vars == <<newest, attached, sockets, active, clients, temp, said, chats, stored,
          blocked, refused, failures>>

Init ==
  /\ newest = [u \in User |-> 0]
  /\ attached = {}
  /\ sockets = <<>>
  /\ active = <<>>
  /\ clients = <<>>
  /\ temp = <<>>
  /\ said = <<>>
  /\ chats = <<>>
  /\ stored = <<>>
  /\ blocked = {}
  /\ refused = {}
  /\ failures = 0

Put(d, S, x) == [k \in DOMAIN d \cup S |-> IF k \in S THEN x ELSE d[k]]
Removed(d, S) == [k \in DOMAIN d \ S |-> d[k]]

-------------------------------------------------------------------------------
(* The tables, as ChatService changes them *)

Between_AnyOf(table, pair) == {c \in DOMAIN table : table[c].initiator \in pair}

\* fetch_chat_by_members, which raises if there are two.
Between(table, pair) == {c \in DOMAIN table : {table[c].initiator, table[c].other} = pair}

\* create_chat is refused if the id is taken, or by the constraint of the table,
\* which is twice the same and says nothing of a chat the other way round.
Creatable(c, row) == c \notin DOMAIN chats /\ \A d \in DOMAIN chats : chats[d] # row

\* What post_message leaves behind for the messages in S, posted one by one until
\* one of them raises.
Posted(table, S) ==
  LET Home(m) == Between(table, {said'[m].from, said'[m].to})
      Fine == {m \in S : \A n \in S : n <= m => /\ Cardinality(Home(n)) = 1
                                                /\ n \notin DOMAIN stored}
  IN [m \in DOMAIN stored \cup Fine |->
        IF m \in Fine THEN CHOOSE c \in Home(m) : TRUE ELSE stored[m]]

\* CreateChatPayload: what raises is swallowed, a chat without its messages stays. The
\* second accept of a chat finds it there, which raises too, and changes nothing.
Create(c, a, b, S) ==
  LET row == [initiator |-> a, other |-> b]
  IN IF Creatable(c, row)
     THEN /\ chats' = Put(chats, {c}, row)
          /\ stored' = Posted(chats', S)
          /\ UNCHANGED refused
     ELSE /\ refused' = refused \cup ({c} \ DOMAIN chats)
          /\ UNCHANGED <<chats, stored>>

-------------------------------------------------------------------------------
(* Websockets of the lobby *)

Open(h) == h[1] \in attached /\ h[2] = newest[h[1]]
Speaks(h) == h \in DOMAIN sockets /\ Open(h) /\ sockets[h].chat \in DOMAIN temp

\* connection_manager.connect comes first, whether he may join or not.
Opens(u, v) ==
  /\ <<u, v>> \in Meets
  /\ u \notin attached
  /\ newest[u] < MaxOpens[u]
  /\ newest' = [newest EXCEPT ![u] = @ + 1]
  /\ active' = Put(active, {u}, newest[u] + 1)
  /\ UNCHANGED <<said, database, failures>>

\* "host comes in first": he registers both.
HostChat(u, v) ==
  LET h == <<u, newest[u] + 1>>
  IN /\ Opens(u, v)
     /\ v \notin DOMAIN clients
     /\ attached' = attached \cup {u}
     /\ clients' = [Put(clients, {u, v}, [other |-> v, chat |-> h]) EXCEPT ![v].other = u]
     /\ temp' = Put(temp, {h}, [saved |-> FALSE, messages |-> {}])
     /\ sockets' = Put(sockets, {h}, [other |-> v, chat |-> h])

\* "the other dude joins" the chat he is registered for.
JoinChat(u, v) ==
  /\ Opens(u, v)
  /\ {u, v} \subseteq DOMAIN clients
  /\ attached' = attached \cup {u}
  /\ sockets' = Put(sockets, {<<u, newest[u] + 1>>}, [other |-> v, chat |-> clients[u].chat])
  /\ UNCHANGED <<clients, temp>>

\* KeyError: v is registered, with somebody else, and u is not.
JoinFails(u, v) ==
  /\ Opens(u, v)
  /\ v \in DOMAIN clients
  /\ u \notin DOMAIN clients
  /\ UNCHANGED <<attached, clients, temp, sockets>>

Leave(u) ==
  /\ u \in attached
  /\ attached' = attached \ {u}
  /\ UNCHANGED <<newest, sockets, active, clients, temp, said, database, failures>>

Disconnect_OwnEntry(h) ==
  /\ h \in DOMAIN sockets
  /\ ~Open(h)
  /\ clients' = Removed(clients, {h[1]})
  /\ temp' = Removed(temp, {sockets[h].chat})
  /\ sockets' = Removed(sockets, {h})
  /\ UNCHANGED <<newest, attached, active, said, database, failures>>

Disconnect_Unregisters(h) ==
  /\ h \in DOMAIN sockets
  /\ ~Open(h)
  /\ active' = Removed(active, {h[1]})
  /\ clients' = Removed(clients, {h[1], sockets[h].other})
  /\ temp' = Removed(temp, {sockets[h].chat})
  /\ sockets' = Removed(sockets, {h})
  /\ UNCHANGED <<newest, attached, said, database, failures>>

\* The websocket is seen to be closed: both users and the chat are dropped, but not
\* the websocket the connection manager has of the user.
Disconnect(h) ==
  /\ h \in DOMAIN sockets
  /\ ~Open(h)
  /\ clients' = Removed(clients, {h[1], sockets[h].other})
  /\ temp' = Removed(temp, {sockets[h].chat})
  /\ sockets' = Removed(sockets, {h})
  /\ UNCHANGED <<newest, attached, active, said, database, failures>>

-------------------------------------------------------------------------------
(* Payloads of the lobby; without the temporary chat they raise *)

Uttered(u, v, c) ==
  /\ Len(said) < MaxMessages
  /\ said' = Append(said, [from |-> u, to |-> v, chat |-> c])

Say_PostsToo(h) ==
  LET m == Len(said) + 1
      c == sockets[h].chat
  IN /\ Speaks(h)
     /\ Uttered(h[1], sockets[h].other, c)
     /\ stored' = Posted(chats, {m})
     /\ temp' = IF temp[c].saved THEN temp ELSE [temp EXCEPT ![c].messages = @ \cup {m}]
     /\ UNCHANGED <<newest, attached, sockets, active, clients, chats, blocked, refused,
                    failures>>

\* A message is kept with the chat, or posted to the chat server once the chat is
\* saved; that the chat server refuses it is not noticed.
Say(h) ==
  LET m == Len(said) + 1
      c == sockets[h].chat
  IN /\ Speaks(h)
     /\ Uttered(h[1], sockets[h].other, c)
     /\ IF temp[c].saved
        THEN stored' = Posted(chats, {m}) /\ UNCHANGED temp
        ELSE temp' = [temp EXCEPT ![c].messages = @ \cup {m}] /\ UNCHANGED stored
     /\ UNCHANGED <<newest, attached, sockets, active, clients, chats, blocked, refused,
                    failures>>

Saved_NotSet(c) == c \in DOMAIN temp /\ UNCHANGED temp

Saved(c) == temp' = [temp EXCEPT ![c].saved = TRUE]

\* The partner becomes the initiator.
Accept(h) ==
  LET c == sockets[h].chat
  IN /\ Speaks(h)
     /\ Saved(c)
     /\ temp[c].messages # {}
     /\ UNCHANGED <<newest, attached, sockets, active, clients, said, blocked, failures>>
     /\ Create(c, sockets[h].other, h[1], temp[c].messages)

\* A chat without messages is refused.
AcceptEmpty(h) ==
  LET c == sockets[h].chat
  IN /\ Speaks(h)
     /\ Saved(c)
     /\ temp[c].messages = {}
     /\ UNCHANGED <<newest, attached, sockets, active, clients, said, database, failures>>

\* The request does not reach the chat server.
AcceptLost(h) ==
  /\ Speaks(h)
  /\ failures < MaxFailures
  /\ failures' = failures + 1
  /\ Saved(sockets[h].chat)
  /\ UNCHANGED <<newest, attached, sockets, active, clients, said, database>>

-------------------------------------------------------------------------------
(* Payloads the chat server gets from its own clients *)

\* CreateChatPayload from a user's card.
WriteFirst(u, v) ==
  /\ u \in Writers /\ u # v
  /\ Uttered(u, v, Direct)
  /\ Create(<<Direct, Len(said')>>, u, v, {Len(said')})
  /\ UNCHANGED <<lobbyVars, blocked, failures>>

\* MessagePayload.
Write(u, v) ==
  /\ Cardinality(Between(chats, {u, v})) = 1
  /\ u # v
  /\ Uttered(u, v, Direct)
  /\ stored' = Posted(chats, {Len(said')})
  /\ UNCHANGED <<lobbyVars, chats, blocked, refused, failures>>

Decline_KeepsMessages(u, c) ==
  /\ c \in DOMAIN chats
  /\ u \in {chats[c].initiator, chats[c].other}
  /\ chats' = Removed(chats, {c})
  /\ blocked' = blocked \cup {{chats[c].initiator, chats[c].other}}
  /\ UNCHANGED <<lobbyVars, said, stored, refused, failures>>

\* DeclineChatPayload: the messages go with the chat.
Decline(u, c) ==
  /\ c \in DOMAIN chats
  /\ u \in {chats[c].initiator, chats[c].other}
  /\ chats' = Removed(chats, {c})
  /\ stored' = Removed(stored, {m \in DOMAIN stored : stored[m] = c})
  /\ blocked' = blocked \cup {{chats[c].initiator, chats[c].other}}
  /\ UNCHANGED <<lobbyVars, said, refused, failures>>

-------------------------------------------------------------------------------
Sockets == UNION {{u} \X (1..MaxOpens[u]) : u \in User}
ChatIds == Sockets \cup ({Direct} \X (1..MaxMessages))

Next ==
  \/ \E u, v \in User : HostChat(u, v) \/ JoinChat(u, v) \/ JoinFails(u, v)
  \/ \E u \in User : Leave(u)
  \/ \E h \in Sockets : Disconnect(h) \/ Say(h)
  \/ \E h \in Sockets : Accept(h) \/ AcceptEmpty(h) \/ AcceptLost(h)
  \/ \E u, v \in User : WriteFirst(u, v) \/ Write(u, v)
  \/ \E u \in User, c \in ChatIds : Decline(u, c)

Spec == Init /\ [][Next]_vars

-------------------------------------------------------------------------------
(* Properties *)

Registration == [other : User, chat : Sockets]
Utterance == [from : User, to : User, chat : Sockets \cup {Direct}]

LobbyOK ==
  /\ newest \in [User -> Nat]
  /\ \A u \in User : newest[u] <= MaxOpens[u]
  /\ attached \in SUBSET User
  /\ DOMAIN sockets \subseteq Sockets
  /\ \A h \in DOMAIN sockets : sockets[h] \in Registration
  /\ DOMAIN active \subseteq User
  /\ \A u \in DOMAIN active : active[u] \in 1..newest[u]
  /\ DOMAIN clients \subseteq User
  /\ \A u \in DOMAIN clients : clients[u] \in Registration
  /\ DOMAIN temp \subseteq Sockets
  /\ \A c \in DOMAIN temp : temp[c] \in [saved : BOOLEAN, messages : SUBSET (1..Len(said))]

TablesOK ==
  /\ DOMAIN chats \subseteq ChatIds
  /\ \A c \in DOMAIN chats : chats[c] \in [initiator : User, other : User]
  /\ DOMAIN stored \subseteq 1..Len(said)
  /\ \A m \in DOMAIN stored : stored[m] \in DOMAIN chats
  /\ blocked \in SUBSET (SUBSET User)
  /\ refused \subseteq ChatIds

\* Type correctness: what the lobby and the tables refer to is there or has been.
TypeOK ==
  /\ LobbyOK
  /\ said \in Seq(Utterance)
  /\ Len(said) <= MaxMessages
  /\ TablesOK
  /\ failures \in 0..MaxFailures

\* The registrations of a pair and its temporary chat go with the websockets they are
\* about: each lasts no longer than the websocket that made it.  (This is said of
\* current_clients and current_chats alone: nothing ever takes a user out of
\* active_connections.)
RegistrationsGo ==
  /\ DOMAIN temp \subseteq DOMAIN sockets
  /\ \A u \in DOMAIN clients :
       LET h == clients[u].chat
       IN h \in DOMAIN sockets /\ {h[1], sockets[h].other} = {u, clients[u].other}

\* What is sent to somebody whose websocket is open goes to that websocket, although
\* the handler of an earlier one may only then see that its own is closed.
OpenIsReached == \A u \in attached : u \in DOMAIN active /\ active[u] = newest[u]

\* A message is only ever stored in a chat of its sender and its recipient,
\* whatever temporary chat the lobby has filed it under.
StoredAtHome ==
  \A m \in DOMAIN stored :
    LET c == chats[stored[m]]
    IN {c.initiator, c.other} = {said[m].from, said[m].to}

\* What was said in the lobby becomes lasting only if somebody accepts: a message
\* that is stored did not come from a temporary chat still waiting for that.
OnlyAccepted ==
  \A m \in DOMAIN stored : said[m].chat \in DOMAIN temp => temp[said[m].chat].saved

\* What has been said in temporary chat c.
Heard(c) == {m \in 1..Len(said) : said[m].chat = c}

\* "Chat is already saved to db" (mm_chat_server/server.py:138): when the chat of
\* a pair is there, everything the two have said in the lobby before and after the
\* accept is in it, unless the pair had another chat, somebody has declined one, a
\* request was lost, or the chat was there only at the second accept: the first may
\* come from a websocket that was let in for another partner than the chat's, and be
\* refused.
Transcript ==
  failures = 0 /\ blocked = {} =>
    \A c \in (DOMAIN chats \cap Sockets) \ refused :
      LET pair == {chats[c].initiator, chats[c].other}
      IN /\ Between(chats, pair) = {c}
         /\ \A m \in Heard(c) : {said[m].from, said[m].to} = pair
         => \A m \in Heard(c) : m \in DOMAIN stored /\ stored[m] = c

-------------------------------------------------------------------------------
(* What makes RegistrationsGo, OnlyAccepted and Transcript inductive *)

\* Nothing is known of a websocket before it is opened.
NumbersInv ==
  /\ \A h \in DOMAIN sockets : h[2] <= newest[h[1]]
  /\ \A m \in 1..Len(said) :
       LET c == said[m].chat IN c # Direct => c[2] <= newest[c[1]]
  /\ \A c \in (DOMAIN chats \cup refused) \cap Sockets : c[2] <= newest[c[1]]

\* A temporary chat is that of the websocket it is named after.
HostsInv == \A c \in DOMAIN temp : c \in DOMAIN sockets /\ sockets[c].chat = c

\* A temporary chat keeps all that has been said in it until it is accepted.
KeptInv ==
  \A c \in DOMAIN temp :
    /\ temp[c].messages \subseteq Heard(c)
    /\ ~temp[c].saved => temp[c].messages = Heard(c)

\* It is created, or refused, when it is first accepted, and not before.
SavedInv ==
  \A c \in DOMAIN temp :
    /\ ~temp[c].saved => c \notin DOMAIN chats \cup refused
    /\ temp[c].saved /\ temp[c].messages # {} =>
         c \in DOMAIN chats \cup refused \/ failures # 0 \/ blocked # {}

===============================================================================
