------------------------------ MODULE ChatServer ------------------------------
(***************************************************************************)
(* The chat server's connections (swipe/chat_server/server.py) and the     *)
(* redis caches it shares with the main server and the cache updater: who  *)
(* is online where, who has been online recently, whom a user avoids, whom *)
(* he has a chat with, and the firebase tokens of those who are not        *)
(* connected.  The database is the truth for all but the first two; the    *)
(* caches are filled when a user connects and dropped when he leaves, and  *)
(* the other way round for the tokens.                                     *)
(*                                                                         *)
(* Every redis command is an await, at which anything else may run.  So a  *)
(* coroutine is the sequence of commands it has still to issue: its start  *)
(* is one action, which does what the code does before its first await,    *)
(* and every command is one more step.                                     *)
(***************************************************************************)
EXTENDS Integers, FiniteSets, Sequences

CONSTANTS
  User,         \* user ids
  Place,        \* cities
  Home,         \* Home[u]: where u lives at first
  Anywhere,     \* stands for the keys of the online sets that name no city
  Hasty,        \* users who may be back before their last close is noticed
  Movers,       \* users who send patches of their profile
  MaxConnects,  \* bound: MaxConnects[u] websockets are opened by u
  MaxRequests   \* bound: chats, declines, blocks and patches of all users

ASSUME ChatServerAssumption ==
  /\ Anywhere \notin Place
  /\ Home \in [User -> Place]
  /\ Hasty \subseteq User
  /\ Movers \subseteq User
  /\ MaxConnects \in [User -> Nat]
  /\ MaxRequests \in Nat

VARIABLES
  newest,    \* newest[u]: number of the last websocket u has opened
  attached,  \* users whose newest websocket is open at their own end
  place,     \* place[u]: users.location in the database
  blocked,   \* table blacklist: <<a, b>>, a has blocked b
  chats,     \* table chats: <<initiator_id, the_other_person_id>>
  handler,   \* handler[<<u, k>>]: websocket_endpoint for u's k-th websocket
  active,    \* keys of connection_manager.active_connections
  redis,     \* redis[key]: the members of the set, or the value as a singleton
  aged,      \* users whose recently-online record has passed its TTL
  request,   \* request[u]: commands left of u's request to the main server
  requests,  \* number of chats, declines, blocks and patches so far
  sweep      \* update_recently_online_cache: keys not visited, commands left

socketVars == <<newest, attached>>
database == <<place, blocked, chats>>
vars == <<newest, attached, place, blocked, chats, handler, active, redis, aged,
          request, requests, sweep>>

Keys == ({"online"} \X (Place \cup {Anywhere}))
        \cup ({"recent", "blacklist", "partners", "token"} \X User)
Value == User \cup Place
Command == [key : Keys, minus : SUBSET Value, plus : SUBSET Value]

Sadd(key, S) == [key |-> key, minus |-> {}, plus |-> S]
Srem(key, S) == [key |-> key, minus |-> S, plus |-> {}]
Store(key, x) == [key |-> key, minus |-> Value, plus |-> {x}]
Delete(key) == [key |-> key, minus |-> Value, plus |-> {}]

Idle == [keys |-> {}, todo |-> <<>>]

Init ==
  /\ newest = [u \in User |-> 0]
  /\ attached = {}
  /\ place = Home
  /\ blocked = {}
  /\ chats = {}
  /\ handler = <<>>
  /\ active = {}
  /\ redis = [key \in Keys |-> {}]
  /\ aged = {}
  /\ request = [u \in User |-> <<>>]
  /\ requests = 0
  /\ sweep = Idle

-------------------------------------------------------------------------------
Avoids(u) == {v \in User : {<<u, v>>, <<v, u>>} \cap blocked # {}}
Partners(u) == {v \in User : {<<u, v>>, <<v, u>>} \cap chats # {}}

\* add_to_online_caches and remove_from_online_caches: one set per city, others
\* for the country and for everybody.
PlaceKeys(p) == {p, Anywhere}
GoOnline(u, p) == <<Sadd(<<"online", p>>, {u}), Sadd(<<"online", Anywhere>>, {u})>>
GoOffline(u, p) == <<Srem(<<"online", p>>, {u}), Srem(<<"online", Anywhere>>, {u})>>

JoinCommands_DropFirst(u) ==
  <<Delete(<<"token", u>>)>> \o GoOnline(u, place[u]) \o
  <<Delete(<<"recent", u>>), Delete(<<"blacklist", u>>),
    Sadd(<<"blacklist", u>>, Avoids(u)),
    Delete(<<"partners", u>>), Sadd(<<"partners", u>>, Partners(u))>>

\* _init_user reads the database once, then fills the caches one by one.
JoinCommands(u) ==
  <<Delete(<<"token", u>>)>> \o GoOnline(u, place[u]) \o
  <<Delete(<<"recent", u>>), Sadd(<<"blacklist", u>>, Avoids(u)),
    Delete(<<"partners", u>>), Sadd(<<"partners", u>>, Partners(u))>>

LeaveCommands_StoreId(u, p) ==
  <<Store(<<"token", u>>, u), Store(<<"recent", u>>, u),
    Delete(<<"blacklist", u>>), Delete(<<"partners", u>>)>>
LeaveCommands_NoRecord(u, p) ==
  <<Store(<<"token", u>>, u), Delete(<<"blacklist", u>>), Delete(<<"partners", u>>)>>
LeaveCommands_NoToken(u, p) ==
  <<Store(<<"recent", u>>, p), Delete(<<"blacklist", u>>), Delete(<<"partners", u>>)>>

\* _process_disconnect puts back the firebase token, here the user's own name:
\* every user has one.
LeaveCommands(u, p) ==
  <<Store(<<"token", u>>, u), Store(<<"recent", u>>, p),
    Delete(<<"blacklist", u>>), Delete(<<"partners", u>>)>>

\* update_blacklist names the blocked user first.
BlockCommands(u, v) == <<Sadd(<<"blacklist", v>>, {u}), Sadd(<<"blacklist", u>>, {v})>>
PartnerCommands(u, v) == <<Sadd(<<"partners", v>>, {u}), Sadd(<<"partners", u>>, {v})>>
PartCommands(u, v) == <<Srem(<<"partners", u>>, {v}), Srem(<<"partners", v>>, {u})>>

\* One command: it replaces the record of a user it stores or deletes.
Issue(c) ==
  /\ redis' = [redis EXCEPT ![c.key] = (@ \ c.minus) \cup c.plus]
  /\ aged' = IF c.key[1] = "recent" THEN aged \ {c.key[2]} ELSE aged

-------------------------------------------------------------------------------
(* Connections *)

Handlers(u) == {h \in DOMAIN handler : h[1] = u}
Open(h) == h[1] \in attached /\ h[2] = newest[h[1]]
Serving(h) == h \in DOMAIN handler /\ handler[h].phase = "serving" /\ handler[h].todo = <<>>
With(h, phase, p, todo) ==
  [x \in DOMAIN handler \cup {h} |->
     IF x = h THEN [phase |-> phase, place |-> p, todo |-> todo] ELSE handler[x]]
WithoutHandler(h) == [x \in DOMAIN handler \ {h} |-> handler[x]]

\* _init_user, up to the first command.  The user object lives as long as the
\* connection does, with the location he had then.
Connect(u) ==
  /\ u \notin attached
  /\ newest[u] < MaxConnects[u]
  /\ u \in Hasty \/ Handlers(u) = {}
  /\ newest' = [newest EXCEPT ![u] = @ + 1]
  /\ attached' = attached \cup {u}
  /\ handler' = With(<<u, newest[u] + 1>>, "joining", place[u], JoinCommands(u))
  /\ UNCHANGED <<database, active, redis, aged, request, requests, sweep>>

\* The end of _init_user: the websocket is accepted and registered.
Register(h) ==
  /\ h \in DOMAIN handler
  /\ handler[h].phase = "joining"
  /\ handler[h].todo = <<>>
  /\ active' = active \cup {h[1]}
  /\ handler' = With(h, "serving", handler[h].place, <<>>)
  /\ UNCHANGED <<socketVars, database, redis, aged, request, requests, sweep>>

Drop(u) ==
  /\ u \in attached
  /\ attached' = attached \ {u}
  /\ UNCHANGED <<newest, database, handler, active, redis, aged, request, requests, sweep>>

\* _process_disconnect, up to its first command.  It takes the user's entry out
\* of the connection manager, whichever websocket that is of.
Disconnect(h) ==
  /\ Serving(h)
  /\ ~Open(h)
  /\ active' = active \ {h[1]}
  /\ handler' = With(h, "leaving", handler[h].place, LeaveCommands(h[1], handler[h].place))
  /\ UNCHANGED <<socketVars, database, redis, aged, request, requests, sweep>>

\* The next command of a websocket's coroutine; the last one of a disconnect
\* ends it.
HandlerRuns(h) ==
  /\ h \in DOMAIN handler
  /\ handler[h].todo # <<>>
  /\ Issue(Head(handler[h].todo))
  /\ handler' = IF handler[h].phase = "leaving" /\ Len(handler[h].todo) = 1
                THEN WithoutHandler(h)
                ELSE [handler EXCEPT ![h].todo = Tail(@)]
  /\ UNCHANGED <<socketVars, database, active, request, requests, sweep>>

-------------------------------------------------------------------------------
(* Payloads that change the caches *)

Counted == requests < MaxRequests /\ requests' = requests + 1

\* CreateChatPayload.  A chat that cannot be created is swallowed, and the
\* partners are cached all the same.
CreateChat(h, v) ==
  /\ Counted
  /\ Serving(h) /\ Open(h) /\ v # h[1]
  /\ chats' = chats \cup {<<h[1], v>>}
  /\ handler' = [handler EXCEPT ![h].todo = PartnerCommands(h[1], v)]
  /\ UNCHANGED <<socketVars, place, blocked, active, redis, aged, request, sweep>>

\* DeclineChatPayload: the chat is gone for good before the blacklist is updated,
\* which raises if u has blocked v already.
DeclineChat(h, v) ==
  LET u == h[1]
  IN /\ Counted
     /\ Serving(h) /\ Open(h)
     /\ \E chat \in chats \cap {<<u, v>>, <<v, u>>} : chats' = chats \ {chat}
     /\ blocked' = blocked \cup {<<u, v>>}
     /\ handler' = [handler EXCEPT ![h].todo =
                      IF <<u, v>> \in blocked THEN <<>>
                      ELSE BlockCommands(u, v) \o PartCommands(u, v)]
     /\ UNCHANGED <<socketVars, place, active, redis, aged, request, sweep>>

-------------------------------------------------------------------------------
(* The main server and the cache updater *)

\* POST /users/{v}/block.
Block(u, v) ==
  /\ Counted
  /\ request[u] = <<>>
  /\ v # u
  /\ <<u, v>> \notin blocked
  /\ blocked' = blocked \cup {<<u, v>>}
  /\ request' = [request EXCEPT ![u] = BlockCommands(u, v)]
  /\ UNCHANGED <<socketVars, place, chats, handler, active, redis, aged, sweep>>

\* PATCH /me with a location, or with the account status every login sends.
PatchUser(u, p) ==
  /\ Counted
  /\ u \in Movers
  /\ request[u] = <<>>
  /\ place' = [place EXCEPT ![u] = p]
  /\ request' = [request EXCEPT ![u] = GoOffline(u, place[u]) \o GoOnline(u, p)]
  /\ UNCHANGED <<socketVars, blocked, chats, handler, active, redis, aged, sweep>>

RequestRuns(u) ==
  /\ request[u] # <<>>
  /\ Issue(Head(request[u]))
  /\ request' = [request EXCEPT ![u] = Tail(@)]
  /\ UNCHANGED <<socketVars, database, handler, active, requests, sweep>>

\* A record gets older than RECENTLY_ONLINE_TTL_SEC.
RecordAges(u) ==
  /\ redis[<<"recent", u>>] # {}
  /\ u \notin aged
  /\ aged' = aged \cup {u}
  /\ UNCHANGED <<socketVars, database, handler, active, redis, request, requests, sweep>>

SweepStarts ==
  /\ sweep = Idle
  /\ sweep' = [keys |-> {u \in User : redis[<<"recent", u>>] # {}}, todo |-> <<>>]
  /\ sweep' # Idle
  /\ UNCHANGED <<socketVars, database, handler, active, redis, aged, request, requests>>

SweepCommands_KeepOnline(u) == <<Delete(<<"recent", u>>)>>

SweepCommands(u) ==
  LET p == CHOOSE x \in redis[<<"recent", u>>] : TRUE
  IN <<Delete(<<"recent", u>>)>> \o GoOffline(u, p)

\* The next of the keys the job has listed.  A record that is gone meanwhile
\* raises TypeError, which ends the process; it is started again.
SweepVisits(u) ==
  /\ sweep.todo = <<>>
  /\ u \in sweep.keys
  /\ sweep' = IF redis[<<"recent", u>>] = {} THEN Idle
              ELSE [keys |-> sweep.keys \ {u},
                    todo |-> IF u \in aged THEN SweepCommands(u) ELSE <<>>]
  /\ UNCHANGED <<socketVars, database, handler, active, redis, aged, request, requests>>

SweepRuns ==
  /\ sweep.todo # <<>>
  /\ Issue(Head(sweep.todo))
  /\ sweep' = [sweep EXCEPT !.todo = Tail(@)]
  /\ UNCHANGED <<socketVars, database, handler, active, request, requests>>

-------------------------------------------------------------------------------
Sockets == UNION {{u} \X (1..MaxConnects[u]) : u \in User}

Next ==
  \/ \E u \in User : Connect(u) \/ Drop(u)
  \/ \E h \in Sockets : Register(h) \/ Disconnect(h) \/ HandlerRuns(h)
  \/ \E h \in Sockets, v \in User : CreateChat(h, v) \/ DeclineChat(h, v)
  \/ \E u, v \in User : Block(u, v)
  \/ \E u \in User, p \in Place : PatchUser(u, p)
  \/ \E u \in User : RequestRuns(u) \/ RecordAges(u) \/ SweepVisits(u)
  \/ SweepStarts
  \/ SweepRuns

Spec == Init /\ [][Next]_vars

\* The event loops run every coroutine that can run, time passes, and the cache
\* updater works for ever and gets to every key it has listed.
Fairness ==
  /\ \A h \in Sockets : WF_vars(Register(h)) /\ WF_vars(Disconnect(h)) /\ WF_vars(HandlerRuns(h))
  /\ \A u \in User : WF_vars(RequestRuns(u)) /\ WF_vars(RecordAges(u)) /\ WF_vars(SweepVisits(u))
  /\ WF_vars(SweepStarts)
  /\ WF_vars(SweepRuns)

FairSpec == Spec /\ Fairness

-------------------------------------------------------------------------------
(* Properties *)

Todos == {handler[h].todo : h \in DOMAIN handler} \cup {request[u] : u \in User} \cup {sweep.todo}
Issues(todo, key, x) == \E i \in 1..Len(todo) : todo[i].key = key /\ x \in todo[i].plus
Withdraws(todo, key, x) == \E i \in 1..Len(todo) : todo[i].key = key /\ x \in todo[i].minus

\* Type correctness: what each key of redis holds, and what is still to be done.
TypeOK ==
  /\ newest \in [User -> Nat]
  /\ \A u \in User : newest[u] <= MaxConnects[u]
  /\ attached \in SUBSET User
  /\ place \in [User -> Place]
  /\ blocked \in SUBSET (User \X User)
  /\ chats \in SUBSET (User \X User)
  /\ DOMAIN handler \subseteq Sockets
  /\ handler \in [DOMAIN handler -> [phase : {"joining", "serving", "leaving"},
                                    place : Place, todo : Seq(Command)]]
  /\ active \in SUBSET User
  /\ redis \in [Keys -> SUBSET Value]
  /\ \A key \in Keys : redis[key] \subseteq IF key[1] = "recent" THEN Place ELSE User
  /\ \A u \in User : \A p, q \in redis[<<"recent", u>>] : p = q
  /\ aged \subseteq {u \in User : redis[<<"recent", u>>] # {}}
  /\ request \in [User -> Seq(Command)]
  /\ requests \in 0..MaxRequests
  /\ sweep \in [keys : SUBSET User, todo : Seq(Command)]

\* "populating blacklist cache only for online users" (server.py:201): once u is
\* registered, everybody the database keeps him apart from is in his cache, or
\* about to be put there.  /fetch and the matchmaking lobby read the cache only.
BlacklistCached ==
  \A u \in active \ Hasty : \A v \in Avoids(u) :
    \/ v \in redis[<<"blacklist", u>>]
    \/ \E todo \in Todos : Issues(todo, <<"blacklist", u>>, v)

\* "The second cache is used to remove users from the main cache after they have
\* been offline for a certain time" (online_cache.py:144-145): whoever is in an
\* online set is connected, or has a record that will take him out of that set, or
\* is being taken out.  It is stated of users whose profile stays as it is, reconnecting
\* in haste included: a patch fills the sets of a place that no record will name.
SettledAccounted ==
  \A u \in User \ Movers, k \in Place \cup {Anywhere} : u \in redis[<<"online", k>>] =>
    \/ \E h \in Handlers(u) : \/ handler[h].phase # "leaving"
                              \/ \E p \in Place : Issues(handler[h].todo, <<"recent", u>>, p)
    \/ \E p \in redis[<<"recent", u>>] : k \in PlaceKeys(p)
    \/ Withdraws(sweep.todo, <<"online", k>>, u)

\* And so the users who have gone leave the online sets in the end, although the
\* job reads a record and acts on it several commands later.
GoneAreSwept ==
  \A u \in User \ Movers :
    []<>(u \in attached \/ Handlers(u) # {} \/
         \A k \in Place \cup {Anywhere} : u \notin redis[<<"online", k>>])

\* "offline users receive a notification instead" (server.py:143), which takes a
\* token from the cache and gives up without one (server.py:279-284).  So whoever has
\* ever connected must be registered by a coroutine that serves him, or his token be
\* cached, or else one of his coroutines be between the two.  The first command of
\* a new coroutine takes the token away while the last one of his is still to be put
\* back, and the end of any of them takes the user's entry from the manager.
Notifiable ==
  \A u \in User : newest[u] > 0 =>
    \/ u \in active /\ \E h \in Handlers(u) : handler[h].phase = "serving"
    \/ redis[<<"token", u>>] # {}
    \/ \E h \in Handlers(u) : \/ handler[h].phase = "joining"
                              \/ Issues(handler[h].todo, <<"token", u>>, u)

-------------------------------------------------------------------------------
(* What makes TypeOK, BlacklistCached, SettledAccounted and Notifiable inductive *)

\* What the coroutine of a user u who was at p when he connected may still issue:
\* it adds him to the online sets of that place while he joins, it stores the record
\* of that place and drops his blacklist while he leaves, and never otherwise; and
\* it puts his token back while he leaves, and takes it away only before.
HandlerCommand(u, phase, p) ==
  {c \in Command :
     /\ c.key[1] = "recent" =>
          /\ c.key[2] = u /\ c.minus = Value
          /\ c.plus = IF phase = "leaving" THEN {p} ELSE {}
     /\ c.key[1] # "recent" => c.plus \subseteq User
     /\ c.key[1] = "token" =>
          /\ c.key[2] = u /\ phase # "serving"
          /\ c.plus = IF phase = "leaving" THEN {u} ELSE {}
     /\ c.key[1] = "online" => c.plus = {u} /\ c.key[2] \in PlaceKeys(p) /\ phase = "joining"
     /\ c.key[1] = "blacklist" /\ c.minus # {} => c.key[2] = u /\ phase = "leaving"}

\* A request adds nobody but its user to online sets, and him only if he moves.
RequestCommand(u) ==
  {c \in Command :
     /\ c.key[1] \notin {"recent", "token"}
     /\ c.plus \subseteq User
     /\ c.key[1] = "online" => u \in Movers /\ c.plus \subseteq {u}
     /\ c.key[1] = "blacklist" => c.minus = {}}

\* The cache updater deletes records and takes users out.
SweepCommand ==
  {c \in Command : c.key[1] \in {"recent", "online"} /\ c.plus = {}
                   /\ (c.key[1] = "recent" => c.minus = Value)}

CommandsInv ==
  /\ \A h \in DOMAIN handler :
       handler[h].todo \in Seq(HandlerCommand(h[1], handler[h].phase, handler[h].place))
  /\ \A u \in User : request[u] \in Seq(RequestCommand(u))
  /\ sweep.todo \in Seq(SweepCommand)

\* Every websocket has a number of its own.
NumbersInv == \A h \in DOMAIN handler : h[2] <= newest[h[1]]

\* Who waits for his last close to be noticed has one coroutine; and whoever is
\* registered has one that serves him.
SocketsInv ==
  /\ \A u \in User \ Hasty : \A g, h \in Handlers(u) : g = h
  /\ \A u \in active : \E h \in Handlers(u) : handler[h].phase = "serving"

Cached(key, x) == x \in redis[key] \/ \E todo \in Todos : Issues(todo, key, x)

\* From the moment the database is read, before he is registered.
AvoidedInv ==
  \A u \in User \ Hasty : \A h \in Handlers(u) :
    handler[h].phase # "leaving" => \A v \in Avoids(u) : Cached(<<"blacklist", u>>, v)

\* Who does not move is known at one place: by his coroutines, his record and the
\* online sets; and a record is not deleted without his being taken out there.
PlaceInv ==
  \A u \in User \ Movers :
    /\ \A h \in Handlers(u) : handler[h].place = place[u]
    /\ redis[<<"recent", u>>] \subseteq {place[u]}
    /\ \A k \in Place \cup {Anywhere} : u \in redis[<<"online", k>>] => k \in PlaceKeys(place[u])
    /\ \A i \in 1..Len(sweep.todo) : sweep.todo[i].key = <<"recent", u>> =>
         /\ i = 1
         /\ \A k \in PlaceKeys(place[u]) : Withdraws(Tail(sweep.todo), <<"online", k>>, u)

===============================================================================
