--------------------------- MODULE ChatServer_proofs --------------------------
(***************************************************************************)
(* Proofs about ChatServer, for every set of users and places, any number  *)
(* of websockets, chats, blocks and patches, whoever is hasty or moves.    *)
(* Coroutines interleave at every command, so what a coroutine may still   *)
(* issue (CommandsInv) is part of each inductive invariant.                *)
(***************************************************************************)
EXTENDS ChatServer, TLAPS

-------------------------------------------------------------------------------
(* Lemmas about commands and sequences of them *)

\* The keys of redis.
LEMMA KeyNames ==
  /\ \A k \in Place \cup {Anywhere} : <<"online", k>> \in Keys
  /\ \A u \in User : /\ <<"recent", u>> \in Keys
                     /\ <<"blacklist", u>> \in Keys
                     /\ <<"partners", u>> \in Keys
                     /\ <<"token", u>> \in Keys
BY DEF Keys

\* Each key is of one of the five kinds.
LEMMA KeyKinds ==
  ASSUME NEW key \in Keys
  PROVE  \/ key[1] = "online" /\ key[2] \in Place \cup {Anywhere} /\ key = <<"online", key[2]>>
         \/ key[1] \in {"recent", "blacklist", "partners", "token"} /\ key[2] \in User /\ key = <<key[1], key[2]>>
BY DEF Keys

\* What is issued by a sequence is issued by its first command or by the rest.
LEMMA IssuesHead ==
  ASSUME NEW S, NEW todo \in Seq(S), todo # <<>>, NEW key, NEW x, Issues(todo, key, x)
  PROVE  (Head(todo).key = key /\ x \in Head(todo).plus) \/ Issues(Tail(todo), key, x)
<1>1. PICK i \in 1..Len(todo) : todo[i].key = key /\ x \in todo[i].plus
  BY DEF Issues
<1>2. CASE i = 1
  BY <1>1, <1>2
<1>3. CASE i # 1
  <2>1. i - 1 \in 1..Len(Tail(todo)) /\ Tail(todo)[i - 1] = todo[i]
    BY <1>3
  <2>2. QED
    BY <1>1, <2>1 DEF Issues
<1>4. QED
  BY <1>2, <1>3

\* A sequence that issues something is not empty.
LEMMA IssuesNonempty ==
  ASSUME NEW key, NEW x
  PROVE  ~Issues(<<>>, key, x)
BY DEF Issues

\* Joining is made of commands of that phase.
LEMMA JoinType ==
  ASSUME NEW u \in User, TypeOK
  PROVE  JoinCommands(u) \in Seq(HandlerCommand(u, "joining", place[u]))
<1> DEFINE S == HandlerCommand(u, "joining", place[u])
<1>0. place[u] \in Place
  BY DEF TypeOK
<1>1. Sadd(<<"online", place[u]>>, {u}) \in S /\ Sadd(<<"online", Anywhere>>, {u}) \in S
  BY <1>0, KeyNames DEF Sadd, HandlerCommand, Command, Value, PlaceKeys
<1>2. /\ Delete(<<"recent", u>>) \in S /\ Delete(<<"partners", u>>) \in S
      /\ Delete(<<"token", u>>) \in S
  BY KeyNames DEF Delete, HandlerCommand, Command, Value, PlaceKeys
<1>3. Sadd(<<"blacklist", u>>, Avoids(u)) \in S /\ Sadd(<<"partners", u>>, Partners(u)) \in S
  BY KeyNames DEF Sadd, HandlerCommand, Command, Value, PlaceKeys, Avoids, Partners
<1>4. QED
  BY <1>1, <1>2, <1>3 DEF JoinCommands, GoOnline

\* It puts everybody the user avoids into his cache.
LEMMA JoinIssues ==
  ASSUME NEW u \in User, NEW v \in Avoids(u)
  PROVE  Issues(JoinCommands(u), <<"blacklist", u>>, v)
<1>1. Len(JoinCommands(u)) = 7 /\ JoinCommands(u)[5] = Sadd(<<"blacklist", u>>, Avoids(u))
  BY DEF JoinCommands, GoOnline
<1>2. QED
  BY <1>1 DEF Issues, Sadd

\* Leaving is made of commands of that phase; and it stores the record and the token.
LEMMA LeaveType ==
  ASSUME NEW u \in User, NEW p \in Place
  PROVE  /\ LeaveCommands(u, p) \in Seq(HandlerCommand(u, "leaving", p))
         /\ Issues(LeaveCommands(u, p), <<"recent", u>>, p)
         /\ Issues(LeaveCommands(u, p), <<"token", u>>, u)
<1> DEFINE S == HandlerCommand(u, "leaving", p)
<1>1. Store(<<"recent", u>>, p) \in S /\ Store(<<"token", u>>, u) \in S
  BY KeyNames DEF Store, HandlerCommand, Command, Value
<1>2. Delete(<<"blacklist", u>>) \in S /\ Delete(<<"partners", u>>) \in S
  BY KeyNames DEF Delete, HandlerCommand, Command, Value
<1>3. LeaveCommands(u, p) \in Seq(S)
  BY <1>1, <1>2 DEF LeaveCommands
<1>4. /\ Len(LeaveCommands(u, p)) = 4
      /\ LeaveCommands(u, p)[1] = Store(<<"token", u>>, u)
      /\ LeaveCommands(u, p)[2] = Store(<<"recent", u>>, p)
  BY DEF LeaveCommands
<1>5. QED
  BY <1>3, <1>4 DEF Issues, Store

\* What a block adds is added to both blacklists, by a handler or by a request.
LEMMA BlockType ==
  ASSUME NEW u \in User, NEW v \in User, NEW w \in User, NEW p \in Place
  PROVE  /\ BlockCommands(u, v) \in Seq(HandlerCommand(w, "serving", p))
         /\ BlockCommands(u, v) \in Seq(RequestCommand(w))
         /\ Issues(BlockCommands(u, v), <<"blacklist", u>>, v)
         /\ Issues(BlockCommands(u, v), <<"blacklist", v>>, u)
<1> DEFINE a == Sadd(<<"blacklist", u>>, {v})
           b == Sadd(<<"blacklist", v>>, {u})
<1>1. BlockCommands(u, v) = <<b, a>>
  BY DEF BlockCommands
<1>2. /\ a \in HandlerCommand(w, "serving", p) \cap RequestCommand(w)
      /\ b \in HandlerCommand(w, "serving", p) \cap RequestCommand(w)
  BY KeyNames DEF Sadd, HandlerCommand, RequestCommand, Command, Value
<1>3. a.key = <<"blacklist", u>> /\ a.plus = {v} /\ b.key = <<"blacklist", v>> /\ b.plus = {u}
  BY DEF Sadd
<1> HIDE DEF a, b
<1>4. QED
  BY <1>1, <1>2, <1>3 DEF Issues

\* The commands about the chat partners.
LEMMA PartnerType ==
  ASSUME NEW u \in User, NEW v \in User, NEW p \in Place
  PROVE  /\ PartnerCommands(u, v) \in Seq(HandlerCommand(u, "serving", p))
         /\ PartCommands(u, v) \in Seq(HandlerCommand(u, "serving", p))
<1> DEFINE S == HandlerCommand(u, "serving", p)
<1>1. /\ Sadd(<<"partners", v>>, {u}) \in S /\ Sadd(<<"partners", u>>, {v}) \in S
      /\ Srem(<<"partners", v>>, {u}) \in S /\ Srem(<<"partners", u>>, {v}) \in S
  BY KeyNames DEF Sadd, Srem, HandlerCommand, Command, Value
<1>2. QED
  BY <1>1 DEF PartnerCommands, PartCommands

\* A patch moves the user from one place to another.
LEMMA PatchType ==
  ASSUME NEW u \in Movers, NEW p \in Place, NEW q \in Place
  PROVE  GoOffline(u, p) \o GoOnline(u, q) \in Seq(RequestCommand(u))
<1> DEFINE S == RequestCommand(u)
<1>0. u \in User
  BY ChatServerAssumption
<1>1. \A k \in Place \cup {Anywhere} : /\ Sadd(<<"online", k>>, {u}) \in S
                                      /\ Srem(<<"online", k>>, {u}) \in S
  BY <1>0, KeyNames DEF Sadd, Srem, RequestCommand, Command, Value
<1>2. QED
  BY <1>1 DEF GoOffline, GoOnline

\* The cache updater deletes a record and takes its user out.
LEMMA SweepType ==
  ASSUME TypeOK, NEW u \in User, redis[<<"recent", u>>] # {}
  PROVE  SweepCommands(u) \in Seq(SweepCommand)
<1> DEFINE p == CHOOSE x \in redis[<<"recent", u>>] : TRUE
<1>1. p \in Place
  <2>1. \A key \in Keys : redis[key] \subseteq IF key[1] = "recent" THEN Place ELSE User
    BY DEF TypeOK
  <2>2. redis[<<"recent", u>>] \subseteq Place
    BY <2>1, KeyNames
  <2>3. QED
    BY <2>2
<1>2. /\ Delete(<<"recent", u>>) \in SweepCommand
      /\ Srem(<<"online", p>>, {u}) \in SweepCommand
      /\ Srem(<<"online", Anywhere>>, {u}) \in SweepCommand
  BY <1>1, KeyNames DEF Delete, Srem, SweepCommand, Command, Value
<1>3. SweepCommands(u) = <<Delete(<<"recent", u>>)>> \o GoOffline(u, p)
  BY Zenon DEF SweepCommands
<1> HIDE DEF p
<1>4. GoOffline(u, p) \in Seq(SweepCommand)
  BY <1>2 DEF GoOffline
<1>5. QED
  BY <1>2, <1>3, <1>4

\* A socket is a user and a number.
LEMMA SocketType ==
  /\ \A h \in Sockets : h[1] \in User /\ h[2] \in 1..MaxConnects[h[1]] /\ h = <<h[1], h[2]>>
  /\ \A u \in User : \A k \in 1..MaxConnects[u] : <<u, k>> \in Sockets
BY ChatServerAssumption DEF Sockets

-------------------------------------------------------------------------------
(* Type correctness *)

\* The handlers, the caches and the coroutines of the other processes, each part
\* of TypeOK with what the commands still to be issued may be.
HandlersOK ==
  /\ DOMAIN handler \subseteq Sockets
  /\ handler \in [DOMAIN handler -> [phase : {"joining", "serving", "leaving"},
                                    place : Place, todo : Seq(Command)]]
  /\ \A h \in DOMAIN handler :
       handler[h].todo \in Seq(HandlerCommand(h[1], handler[h].phase, handler[h].place))

RedisOK ==
  /\ redis \in [Keys -> SUBSET Value]
  /\ \A key \in Keys : redis[key] \subseteq IF key[1] = "recent" THEN Place ELSE User
  /\ \A u \in User : \A p, q \in redis[<<"recent", u>>] : p = q
  /\ aged \subseteq {u \in User : redis[<<"recent", u>>] # {}}

OthersOK ==
  /\ request \in [User -> Seq(Command)]
  /\ \A u \in User : request[u] \in Seq(RequestCommand(u))
  /\ sweep \in [keys : SUBSET User, todo : Seq(Command)]
  /\ sweep.todo \in Seq(SweepCommand)

ScalarsOK ==
  /\ newest \in [User -> Nat]
  /\ \A u \in User : newest[u] <= MaxConnects[u]
  /\ attached \in SUBSET User
  /\ place \in [User -> Place]
  /\ blocked \in SUBSET (User \X User)
  /\ chats \in SUBSET (User \X User)
  /\ active \in SUBSET User
  /\ requests \in 0..MaxRequests

\* The parts are the whole.
LEMMA TypeParts == TypeOK /\ CommandsInv <=> HandlersOK /\ RedisOK /\ OthersOK /\ ScalarsOK
BY DEF TypeOK, CommandsInv, HandlersOK, RedisOK, OthersOK, ScalarsOK

\* A sequence over a set is one over any larger set.
LEMMA SeqWider ==
  ASSUME NEW S, NEW T, S \subseteq T, NEW s \in Seq(S)
  PROVE  s \in Seq(T)
OBVIOUS

\* The first element of a sequence and the rest of it.
LEMMA HeadTail ==
  ASSUME NEW S, NEW s \in Seq(S), s # <<>>
  PROVE  Head(s) \in S /\ Tail(s) \in Seq(S) /\ Len(Tail(s)) = Len(s) - 1
OBVIOUS

\* Whatever is issued is a command.
LEMMA CommandSets ==
  /\ \A u, phase, p : HandlerCommand(u, phase, p) \subseteq Command
  /\ \A u : RequestCommand(u) \subseteq Command
  /\ SweepCommand \subseteq Command
BY DEF HandlerCommand, RequestCommand, SweepCommand

\* A handler that starts, or goes to another phase, or gets other commands.
LEMMA WithType ==
  ASSUME HandlersOK, NEW h \in Sockets, NEW phase \in {"joining", "serving", "leaving"},
         NEW p \in Place, NEW todo \in Seq(HandlerCommand(h[1], phase, p)),
         handler' = With(h, phase, p, todo)
  PROVE  HandlersOK'
<1>1. DOMAIN handler' = DOMAIN handler \cup {h}
  BY DEF With
<1>2. handler'[h] = [phase |-> phase, place |-> p, todo |-> todo]
  BY DEF With
<1>3. \A x \in DOMAIN handler : x # h => handler'[x] = handler[x]
  BY DEF With
<1>4. todo \in Seq(Command)
  BY CommandSets, SeqWider
<1>5. handler' = [x \in DOMAIN handler' |-> handler'[x]]
  BY DEF With
<1>6. QED
  BY <1>1, <1>2, <1>3, <1>4, <1>5 DEF HandlersOK

\* Other commands in the same phase.
LEMMA ExceptWith ==
  ASSUME HandlersOK, NEW h \in DOMAIN handler, NEW todo
  PROVE  [handler EXCEPT ![h].todo = todo] = With(h, handler[h].phase, handler[h].place, todo)
<1>1. [handler[h] EXCEPT !.todo = todo]
        = [phase |-> handler[h].phase, place |-> handler[h].place, todo |-> todo]
  BY DEF HandlersOK
<1>2. DOMAIN handler \cup {h} = DOMAIN handler
  OBVIOUS
<1>3. QED
  BY <1>1, <1>2 DEF With

\* A command of any of the coroutines keeps the caches as they should be.
LEMMA IssueType ==
  ASSUME RedisOK, NEW c \in Command, Issue(c),
         c.key[1] = "recent" => c.minus = Value /\ (c.plus = {} \/ \E p \in Place : c.plus = {p}),
         c.key[1] # "recent" => c.plus \subseteq User
  PROVE  RedisOK'
<1>0. c.key \in Keys /\ c.minus \subseteq Value /\ c.plus \subseteq Value
  BY DEF Command
<1>1. redis' = [redis EXCEPT ![c.key] = (redis[c.key] \ c.minus) \cup c.plus]
  BY DEF Issue
<1>2. redis' \in [Keys -> SUBSET Value]
  BY <1>0, <1>1 DEF RedisOK
<1>3. /\ redis'[c.key] = (redis[c.key] \ c.minus) \cup c.plus
      /\ \A key \in Keys : key # c.key => redis'[key] = redis[key]
  BY <1>0, <1>1 DEF RedisOK
<1>4. c.key[1] = "recent" => redis'[c.key] = c.plus
  BY <1>0, <1>2, <1>3 DEF RedisOK
<1>5. \A key \in Keys : redis'[key] \subseteq IF key[1] = "recent" THEN Place ELSE User
  BY <1>0, <1>3, <1>4 DEF RedisOK
<1>6. ASSUME NEW u \in User
      PROVE  \A p, q \in redis'[<<"recent", u>>] : p = q
  <2>1. CASE c.key = <<"recent", u>>
    <3>1. redis'[<<"recent", u>>] = c.plus /\ (c.plus = {} \/ \E p \in Place : c.plus = {p})
      BY <1>4, <2>1
    <3>2. QED
      BY <3>1
  <2>2. CASE c.key # <<"recent", u>>
    BY <1>3, <2>2, KeyNames DEF RedisOK
  <2>3. QED
    BY <2>1, <2>2
<1>7. ASSUME NEW u \in aged'
      PROVE  u \in User /\ redis'[<<"recent", u>>] # {}
  <2>1. u \in aged /\ c.key # <<"recent", u>>
    BY <1>7 DEF Issue
  <2>2. u \in User /\ redis[<<"recent", u>>] # {}
    BY <2>1 DEF RedisOK
  <2>3. QED
    BY <1>3, <2>1, <2>2, KeyNames
<1>8. QED
  BY <1>2, <1>5, <1>6, <1>7 DEF RedisOK

\* A handler's next command, issued, leaves the types as they are.
LEMMA HandlerRunsType ==
  ASSUME HandlersOK, RedisOK, NEW h \in DOMAIN handler, HandlerRuns(h)
  PROVE  HandlersOK' /\ RedisOK'
<1> DEFINE r == handler[h]
           S == HandlerCommand(h[1], r.phase, r.place)
<1>1. r.todo \in Seq(S) /\ r.todo # <<>>
  BY DEF HandlersOK, HandlerRuns
<1>2. Head(r.todo) \in S /\ Tail(r.todo) \in Seq(S)
  BY <1>1, HeadTail
<1>3. RedisOK'
  <2>1. r.place \in Place /\ Issue(Head(r.todo))
    BY DEF HandlersOK, HandlerRuns
  <2>2. /\ Head(r.todo) \in Command
        /\ LET c == Head(r.todo)
           IN /\ c.key[1] = "recent" => c.minus = Value /\ (c.plus = {} \/ \E p \in Place : c.plus = {p})
              /\ c.key[1] # "recent" => c.plus \subseteq User
    BY <1>2, <2>1 DEF HandlerCommand
  <2>3. QED
    BY <2>1, <2>2, IssueType
<1>4. HandlersOK'
  <2>1. CASE handler' = WithoutHandler(h)
    BY <2>1 DEF HandlersOK, WithoutHandler
  <2>2. CASE handler' = [handler EXCEPT ![h].todo = Tail(@)]
    <3>1. handler' = [handler EXCEPT ![h].todo = Tail(r.todo)]
      BY <2>2
    <3>2. /\ handler' = With(h, r.phase, r.place, Tail(r.todo))
          /\ h \in Sockets /\ r.phase \in {"joining", "serving", "leaving"} /\ r.place \in Place
      BY <3>1, ExceptWith DEF HandlersOK
    <3>3. QED
      BY <1>2, <3>2, WithType
  <2>3. QED
    BY <2>1, <2>2 DEF HandlerRuns
<1>5. QED
  BY <1>3, <1>4

\* A request's next command.
LEMMA RequestRunsType ==
  ASSUME OthersOK, RedisOK, NEW u \in User, RequestRuns(u)
  PROVE  OthersOK' /\ RedisOK'
<1>1. request[u] \in Seq(RequestCommand(u)) /\ request[u] # <<>>
  BY DEF OthersOK, RequestRuns
<1>2. Head(request[u]) \in RequestCommand(u) /\ Tail(request[u]) \in Seq(RequestCommand(u))
  BY <1>1
<1>3. RedisOK'
  <2>1. /\ Head(request[u]) \in Command
        /\ Head(request[u]).key[1] # "recent" /\ Head(request[u]).plus \subseteq User
    BY <1>2 DEF RequestCommand
  <2>2. QED
    BY <2>1, IssueType DEF RequestRuns
<1>4. OthersOK'
  <2>1. /\ request' = [request EXCEPT ![u] = Tail(request[u])]
        /\ UNCHANGED sweep
    BY DEF RequestRuns
  <2>2. Tail(request[u]) \in Seq(Command)
    BY <1>2, CommandSets, SeqWider
  <2>3. QED
    BY <1>2, <2>1, <2>2 DEF OthersOK
<1>5. QED
  BY <1>3, <1>4

\* The cache updater's next command.
LEMMA SweepRunsType ==
  ASSUME OthersOK, RedisOK, SweepRuns
  PROVE  OthersOK' /\ RedisOK'
<1>1. sweep.todo \in Seq(SweepCommand) /\ sweep.todo # <<>>
  BY DEF OthersOK, SweepRuns
<1>2. Head(sweep.todo) \in SweepCommand /\ Tail(sweep.todo) \in Seq(SweepCommand)
  BY <1>1
<1>3. RedisOK'
  <2>1. /\ Head(sweep.todo) \in Command /\ Head(sweep.todo).plus = {}
        /\ Head(sweep.todo).key[1] = "recent" => Head(sweep.todo).minus = Value
    BY <1>2 DEF SweepCommand
  <2>2. QED
    BY <2>1, IssueType DEF SweepRuns
<1>4. OthersOK'
  <2>1. /\ sweep' = [sweep EXCEPT !.todo = Tail(sweep.todo)]
        /\ UNCHANGED request
    BY DEF SweepRuns
  <2>2. Tail(sweep.todo) \in Seq(Command)
    BY <1>2, CommandSets, SeqWider
  <2>3. QED
    BY <1>2, <2>1, <2>2 DEF OthersOK
<1>5. QED
  BY <1>3, <1>4

\* At first nobody is connected and nothing is cached.
LEMMA TypeInit == Init => TypeOK /\ CommandsInv
<1> SUFFICES ASSUME Init PROVE TypeOK /\ CommandsInv
  OBVIOUS
<1>1. HandlersOK
  BY DEF Init, HandlersOK
<1>2. RedisOK
  <2>1. redis \in [Keys -> SUBSET Value] /\ \A key \in Keys : redis[key] = {}
    BY DEF Init
  <2>2. \A u \in User : redis[<<"recent", u>>] = {}
    BY <2>1, KeyNames
  <2>3. aged = {}
    BY DEF Init
  <2>4. QED
    BY <2>1, <2>2, <2>3 DEF RedisOK
<1>3. OthersOK
  BY DEF Init, OthersOK, Idle
<1>4. ScalarsOK
  BY ChatServerAssumption DEF Init, ScalarsOK
<1>5. QED
  BY <1>1, <1>2, <1>3, <1>4, TypeParts

\* Every step keeps the types, and the commands each coroutine may still issue.
LEMMA TypeStep ==
  ASSUME TypeOK, CommandsInv, [Next]_vars
  PROVE  TypeOK' /\ CommandsInv'
<1>0. HandlersOK /\ RedisOK /\ OthersOK /\ ScalarsOK
  BY TypeParts
<1> SUFFICES HandlersOK' /\ RedisOK' /\ OthersOK' /\ ScalarsOK'
  BY TypeParts, PTL
<1>1. ASSUME NEW u \in User, Connect(u)
      PROVE  HandlersOK' /\ RedisOK' /\ OthersOK' /\ ScalarsOK'
  <2>1. newest[u] + 1 \in 1..MaxConnects[u] /\ <<u, newest[u] + 1>> \in Sockets
    <3>1. newest[u] \in Nat /\ MaxConnects[u] \in Nat /\ newest[u] < MaxConnects[u]
      BY <1>0, <1>1, ChatServerAssumption DEF Connect, ScalarsOK
    <3>2. newest[u] + 1 \in 1..MaxConnects[u]
      BY <3>1
    <3>3. QED
      BY <3>2, SocketType
  <2>2. HandlersOK'
    <3>1. /\ place[u] \in Place
          /\ handler' = With(<<u, newest[u] + 1>>, "joining", place[u], JoinCommands(u))
      BY <1>0, <1>1 DEF Connect, ScalarsOK
    <3>2. JoinCommands(u) \in Seq(HandlerCommand(<<u, newest[u] + 1>>[1], "joining", place[u]))
      BY JoinType
    <3>3. QED
      BY <1>0, <2>1, <3>1, <3>2, WithType
  <2>3. ScalarsOK'
    BY <1>0, <1>1, <2>1, ChatServerAssumption DEF Connect, ScalarsOK, database
  <2>4. QED
    BY <1>0, <1>1, <2>2, <2>3 DEF Connect, RedisOK, OthersOK
<1>2. ASSUME NEW u \in User, Drop(u)
      PROVE  HandlersOK' /\ RedisOK' /\ OthersOK' /\ ScalarsOK'
  BY <1>0, <1>2 DEF Drop, HandlersOK, RedisOK, OthersOK, ScalarsOK, database
<1>3. ASSUME NEW h \in Sockets, Register(h)
      PROVE  HandlersOK' /\ RedisOK' /\ OthersOK' /\ ScalarsOK'
  <2>1. HandlersOK'
    BY <1>0, <1>3, WithType DEF Register, HandlersOK
  <2>2. ScalarsOK'
    BY <1>0, <1>3, SocketType DEF Register, ScalarsOK, socketVars, database
  <2>3. QED
    BY <1>0, <1>3, <2>1, <2>2 DEF Register, RedisOK, OthersOK
<1>4. ASSUME NEW h \in Sockets, Disconnect(h)
      PROVE  HandlersOK' /\ RedisOK' /\ OthersOK' /\ ScalarsOK'
  <2>1. HandlersOK'
    <3>1. /\ handler[h].place \in Place /\ h[1] \in User
          /\ handler' = With(h, "leaving", handler[h].place, LeaveCommands(h[1], handler[h].place))
      BY <1>0, <1>4, SocketType DEF Disconnect, HandlersOK, Serving
    <3>2. QED
      BY <1>0, <3>1, LeaveType, WithType
  <2>2. ScalarsOK'
    BY <1>0, <1>4 DEF Disconnect, ScalarsOK, socketVars, database
  <2>3. QED
    BY <1>0, <1>4, <2>1, <2>2 DEF Disconnect, RedisOK, OthersOK
<1>5. ASSUME NEW h \in Sockets, HandlerRuns(h)
      PROVE  HandlersOK' /\ RedisOK' /\ OthersOK' /\ ScalarsOK'
  <2>1. HandlersOK' /\ RedisOK'
    BY <1>0, <1>5, HandlerRunsType DEF HandlerRuns
  <2>2. QED
    BY <1>0, <1>5, <2>1 DEF HandlerRuns, OthersOK, ScalarsOK, socketVars, database
<1>6. ASSUME NEW h \in Sockets, NEW v \in User, CreateChat(h, v)
      PROVE  HandlersOK' /\ RedisOK' /\ OthersOK' /\ ScalarsOK'
  <2>1. h[1] \in User /\ h \in DOMAIN handler /\ handler[h].phase = "serving" /\ handler[h].place \in Place
    BY <1>0, <1>6, SocketType DEF CreateChat, Serving, HandlersOK
  <2>2. HandlersOK'
    <3>1. handler' = With(h, "serving", handler[h].place, PartnerCommands(h[1], v))
      BY <1>0, <1>6, <2>1, ExceptWith DEF CreateChat
    <3>2. QED
      BY <1>0, <2>1, <3>1, PartnerType, WithType
  <2>3. ScalarsOK'
    BY <1>0, <1>6, <2>1, ChatServerAssumption DEF CreateChat, ScalarsOK, Counted, socketVars
  <2>4. QED
    BY <1>0, <1>6, <2>2, <2>3 DEF CreateChat, RedisOK, OthersOK
<1>7. ASSUME NEW h \in Sockets, NEW v \in User, DeclineChat(h, v)
      PROVE  HandlersOK' /\ RedisOK' /\ OthersOK' /\ ScalarsOK'
  <2>1. h[1] \in User /\ h \in DOMAIN handler /\ handler[h].phase = "serving" /\ handler[h].place \in Place
    BY <1>0, <1>7, SocketType DEF DeclineChat, Serving, HandlersOK
  <2>2. HandlersOK'
    <3> DEFINE S == HandlerCommand(h[1], "serving", handler[h].place)
               todo == IF <<h[1], v>> \in blocked THEN <<>>
                       ELSE BlockCommands(h[1], v) \o PartCommands(h[1], v)
    <3>1. BlockCommands(h[1], v) \in Seq(S) /\ PartCommands(h[1], v) \in Seq(S)
      BY <2>1, BlockType, PartnerType
    <3> HIDE DEF S
    <3>2. todo \in Seq(S)
      BY <3>1
    <3>3. handler' = [handler EXCEPT ![h].todo = todo]
      BY <1>7 DEF DeclineChat
    <3> HIDE DEF todo
    <3>4. handler' = With(h, "serving", handler[h].place, todo)
      BY <1>0, <2>1, <3>3, ExceptWith
    <3>5. QED
      BY <1>0, <2>1, <3>2, <3>4, WithType DEF S
  <2>3. ScalarsOK'
    BY <1>0, <1>7, <2>1, ChatServerAssumption DEF DeclineChat, ScalarsOK, Counted, socketVars
  <2>4. QED
    BY <1>0, <1>7, <2>2, <2>3 DEF DeclineChat, RedisOK, OthersOK
<1>8. ASSUME NEW u \in User, NEW v \in User, Block(u, v)
      PROVE  HandlersOK' /\ RedisOK' /\ OthersOK' /\ ScalarsOK'
  <2>1. OthersOK'
    <3>1. BlockCommands(u, v) \in Seq(RequestCommand(u)) /\ BlockCommands(u, v) \in Seq(Command)
      <4>1. place[u] \in Place
        BY <1>0 DEF ScalarsOK
      <4>2. BlockCommands(u, v) \in Seq(RequestCommand(u))
        BY <4>1, BlockType
      <4>3. QED
        BY <4>2, CommandSets, SeqWider
    <3>2. QED
      BY <1>0, <1>8, <3>1 DEF Block, OthersOK
  <2>2. ScalarsOK'
    BY <1>0, <1>8, ChatServerAssumption DEF Block, ScalarsOK, Counted, socketVars
  <2>3. QED
    BY <1>0, <1>8, <2>1, <2>2 DEF Block, HandlersOK, RedisOK
<1>9. ASSUME NEW u \in User, NEW p \in Place, PatchUser(u, p)
      PROVE  HandlersOK' /\ RedisOK' /\ OthersOK' /\ ScalarsOK'
  <2>1. OthersOK'
    <3> DEFINE todo == GoOffline(u, place[u]) \o GoOnline(u, p)
    <3>1. todo \in Seq(RequestCommand(u))
      BY <1>0, <1>9, PatchType DEF PatchUser, ScalarsOK
    <3>2. request' = [request EXCEPT ![u] = todo]
      BY <1>9 DEF PatchUser
    <3> HIDE DEF todo
    <3>3. todo \in Seq(Command)
      BY <3>1, CommandSets, SeqWider
    <3>4. QED
      BY <1>0, <1>9, <3>1, <3>2, <3>3 DEF PatchUser, OthersOK
  <2>2. ScalarsOK'
    BY <1>0, <1>9, ChatServerAssumption DEF PatchUser, ScalarsOK, Counted, socketVars
  <2>3. QED
    BY <1>0, <1>9, <2>1, <2>2 DEF PatchUser, HandlersOK, RedisOK
<1>10. ASSUME NEW u \in User, RequestRuns(u)
       PROVE  HandlersOK' /\ RedisOK' /\ OthersOK' /\ ScalarsOK'
  BY <1>0, <1>10, RequestRunsType DEF RequestRuns, HandlersOK, ScalarsOK, socketVars, database
<1>11. ASSUME NEW u \in User, RecordAges(u)
       PROVE  HandlersOK' /\ RedisOK' /\ OthersOK' /\ ScalarsOK'
  BY <1>0, <1>11 DEF RecordAges, HandlersOK, RedisOK, OthersOK, ScalarsOK, socketVars, database
<1>12. ASSUME NEW u \in User, SweepVisits(u)
       PROVE  HandlersOK' /\ RedisOK' /\ OthersOK' /\ ScalarsOK'
  <2>1. OthersOK'
    <3>1. CASE redis[<<"recent", u>>] = {}
      BY <1>0, <1>12, <3>1 DEF SweepVisits, OthersOK, Idle
    <3>2. CASE redis[<<"recent", u>>] # {}
      <4>1. SweepCommands(u) \in Seq(SweepCommand) /\ SweepCommands(u) \in Seq(Command)
        BY <3>2, SweepType, CommandSets, SeqWider
      <4>2. sweep' = [keys |-> sweep.keys \ {u},
                      todo |-> IF u \in aged THEN SweepCommands(u) ELSE <<>>]
        BY <1>12, <3>2 DEF SweepVisits
      <4>3. QED
        <5>1. sweep'.keys \subseteq User /\ sweep'.todo \in {SweepCommands(u), <<>>}
          BY <1>0, <4>2 DEF OthersOK
        <5>2. sweep'.todo \in Seq(SweepCommand) /\ sweep'.todo \in Seq(Command)
          <6>1. <<>> \in Seq(SweepCommand) /\ <<>> \in Seq(Command)
            OBVIOUS
          <6>2. QED
            BY <4>1, <5>1, <6>1
        <5>3. sweep' = [keys |-> sweep'.keys, todo |-> sweep'.todo]
          BY <4>2
        <5>4. QED
          BY <1>0, <1>12, <5>1, <5>2, <5>3 DEF SweepVisits, OthersOK
    <3>3. QED
      BY <3>1, <3>2
  <2>2. QED
    BY <1>0, <1>12, <2>1 DEF SweepVisits, HandlersOK, RedisOK, ScalarsOK, socketVars, database
<1>13. ASSUME SweepStarts
       PROVE  HandlersOK' /\ RedisOK' /\ OthersOK' /\ ScalarsOK'
  <2>1. OthersOK'
    <3>1. /\ sweep' = [keys |-> {u \in User : redis[<<"recent", u>>] # {}}, todo |-> <<>>]
          /\ UNCHANGED request
      BY <1>13 DEF SweepStarts
    <3>2. sweep'.todo = <<>> /\ sweep' \in [keys : SUBSET User, todo : Seq(Command)]
      BY <3>1
    <3>3. QED
      BY <1>0, <3>1, <3>2 DEF OthersOK
  <2>2. QED
    BY <1>0, <1>13, <2>1 DEF SweepStarts, HandlersOK, RedisOK, ScalarsOK, socketVars, database
<1>14. ASSUME SweepRuns
       PROVE  HandlersOK' /\ RedisOK' /\ OthersOK' /\ ScalarsOK'
  BY <1>0, <1>14, SweepRunsType DEF SweepRuns, HandlersOK, ScalarsOK, socketVars, database
<1>15. CASE UNCHANGED vars
  BY <1>0, <1>15 DEF vars, HandlersOK, RedisOK, OthersOK, ScalarsOK
<1>16. QED
  BY <1>1, <1>2, <1>3, <1>4, <1>5, <1>6, <1>7, <1>8, <1>9, <1>10, <1>11, <1>12, <1>13, <1>14,
     <1>15 DEF Next

\* Type correctness.  The caches hold what their readers take them to hold, and
\* there is at most one recently-online record per user, whatever order the
\* coroutines' commands run in.
THEOREM TypeCorrect == Spec => [](TypeOK /\ CommandsInv)
<1>1. Init => TypeOK /\ CommandsInv
  BY TypeInit
<1>2. TypeOK /\ CommandsInv /\ [Next]_vars => TypeOK' /\ CommandsInv'
  BY TypeStep
<1>3. QED
  BY <1>1, <1>2, PTL DEF Spec

-------------------------------------------------------------------------------
(* The blacklist caches *)

\* What a command leaves in a cache, and what it puts there.
LEMMA IssueKeeps ==
  ASSUME RedisOK, NEW c \in Command, Issue(c), NEW key \in Keys, NEW x, x \in redis[key],
         c.key = key => x \notin c.minus
  PROVE  x \in redis'[key]
BY DEF RedisOK, Issue

LEMMA IssuePuts ==
  ASSUME RedisOK, NEW c \in Command, Issue(c), NEW x \in c.plus
  PROVE  x \in redis'[c.key]
BY DEF RedisOK, Issue, Command

\* And what it does to every cache.
LEMMA IssueValue ==
  ASSUME RedisOK, NEW c \in Command, Issue(c), NEW key \in Keys
  PROVE  redis'[key] = IF key = c.key THEN (redis[key] \ c.minus) \cup c.plus ELSE redis[key]
BY DEF RedisOK, Issue

\* What is about to be issued is issued by a handler, a request or the cache updater.
LEMMA CachedMeans ==
  ASSUME NEW key, NEW x
  PROVE  /\ Cached(key, x) <=> \/ x \in redis[key]
                               \/ \E h \in DOMAIN handler : Issues(handler[h].todo, key, x)
                               \/ \E u \in User : Issues(request[u], key, x)
                               \/ Issues(sweep.todo, key, x)
         /\ Cached(key, x)' <=> \/ x \in redis'[key]
                                \/ \E h \in DOMAIN handler' : Issues(handler'[h].todo, key, x)
                                \/ \E u \in User : Issues(request'[u], key, x)
                                \/ Issues(sweep'.todo, key, x)
BY DEF Cached, Todos

\* A coroutine that has nothing left to issue may be given other commands.
LEMMA WithCached ==
  ASSUME NEW h, h \in DOMAIN handler => handler[h].todo = <<>>,
         NEW phase, NEW p, NEW todo, handler' = With(h, phase, p, todo),
         UNCHANGED <<redis, request, sweep>>,
         NEW key, NEW x, Cached(key, x)
  PROVE  Cached(key, x)'
<1>1. \A g \in DOMAIN handler : g # h => g \in DOMAIN handler' /\ handler'[g] = handler[g]
  BY DEF With
<1>2. CASE \E g \in DOMAIN handler : Issues(handler[g].todo, key, x)
  <2>1. PICK g \in DOMAIN handler : Issues(handler[g].todo, key, x)
    BY <1>2
  <2>2. g # h
    BY <2>1, IssuesNonempty
  <2>3. QED
    BY <1>1, <2>1, <2>2, CachedMeans
<1>3. CASE x \in redis[key] \/ (\E u \in User : Issues(request[u], key, x)) \/ Issues(sweep.todo, key, x)
  BY <1>3, CachedMeans
<1>4. QED
  BY <1>2, <1>3, CachedMeans

\* The next command of a handler keeps what is cached or about to be, unless it
\* withdraws it.
LEMMA HandlerRunsCached ==
  ASSUME HandlersOK, RedisOK, NEW h \in Sockets, HandlerRuns(h), NEW key \in Keys, NEW x,
         Head(handler[h].todo).key = key => x \notin Head(handler[h].todo).minus,
         Cached(key, x)
  PROVE  Cached(key, x)'
<1> DEFINE s == handler[h].todo
           S == HandlerCommand(h[1], handler[h].phase, handler[h].place)
<1>1. h \in DOMAIN handler /\ s \in Seq(S) /\ s # <<>> /\ Issue(Head(s))
  BY DEF HandlersOK, HandlerRuns
<1>2. Head(s) \in Command
  BY <1>1, HeadTail, CommandSets
<1>3. \A g \in DOMAIN handler : g # h => g \in DOMAIN handler' /\ handler'[g] = handler[g]
  BY DEF HandlerRuns, WithoutHandler
<1>4. UNCHANGED <<request, sweep>>
  BY DEF HandlerRuns
<1>5. CASE x \in redis[key]
  BY <1>1, <1>2, <1>5, IssueKeeps, CachedMeans
<1>6. CASE \E g \in DOMAIN handler : Issues(handler[g].todo, key, x)
  <2>1. PICK g \in DOMAIN handler : Issues(handler[g].todo, key, x)
    BY <1>6
  <2>2. CASE g # h
    BY <1>3, <2>1, <2>2, CachedMeans
  <2>3. CASE g = h
    <3>0. \/ Head(s).key = key /\ x \in Head(s).plus
          \/ Issues(Tail(s), key, x)
      BY <1>1, <2>1, <2>3, IssuesHead
    <3>1. CASE Head(s).key = key /\ x \in Head(s).plus
      BY <1>1, <1>2, <3>1, IssuePuts, CachedMeans
    <3>2. CASE Issues(Tail(s), key, x)
      <4>1. Len(s) # 1
        BY <1>1, <3>2, HeadTail DEF Issues
      <4>2. handler' = [handler EXCEPT ![h].todo = Tail(s)]
        BY <4>1 DEF HandlerRuns
      <4>3. h \in DOMAIN handler' /\ handler'[h].todo = Tail(s)
        BY <1>1, <4>2 DEF HandlersOK
      <4>4. QED
        BY <3>2, <4>3, CachedMeans
    <3>3. QED
      BY <3>0, <3>1, <3>2
  <2>4. QED
    BY <2>2, <2>3
<1>7. CASE (\E u \in User : Issues(request[u], key, x)) \/ Issues(sweep.todo, key, x)
  BY <1>4, <1>7, CachedMeans
<1>8. QED
  BY <1>5, <1>6, <1>7, CachedMeans

\* So does that of a request.
LEMMA RequestRunsCached ==
  ASSUME OthersOK, RedisOK, NEW u \in User, RequestRuns(u), NEW key \in Keys, NEW x,
         Head(request[u]).key = key => x \notin Head(request[u]).minus,
         Cached(key, x)
  PROVE  Cached(key, x)'
<1> DEFINE s == request[u]
           S == RequestCommand(u)
<1>1. s \in Seq(S) /\ s # <<>> /\ Issue(Head(s))
  BY DEF OthersOK, RequestRuns
<1>2. Head(s) \in Command
  BY <1>1, HeadTail, CommandSets
<1>3. /\ \A w \in User : w # u => request'[w] = request[w]
      /\ request'[u] = Tail(s)
      /\ UNCHANGED <<handler, sweep>>
  BY DEF OthersOK, RequestRuns
<1>4. CASE x \in redis[key]
  BY <1>1, <1>2, <1>4, IssueKeeps, CachedMeans
<1>5. CASE \E w \in User : Issues(request[w], key, x)
  <2>1. PICK w \in User : Issues(request[w], key, x)
    BY <1>5
  <2>2. CASE w # u
    BY <1>3, <2>1, <2>2, CachedMeans
  <2>3. CASE w = u
    <3>0. \/ Head(s).key = key /\ x \in Head(s).plus
          \/ Issues(Tail(s), key, x)
      BY <1>1, <2>1, <2>3, IssuesHead
    <3>1. CASE Head(s).key = key /\ x \in Head(s).plus
      BY <1>1, <1>2, <3>1, IssuePuts, CachedMeans
    <3>2. CASE Issues(Tail(s), key, x)
      BY <1>3, <3>2, CachedMeans
    <3>3. QED
      BY <3>0, <3>1, <3>2
  <2>4. QED
    BY <2>2, <2>3
<1>6. CASE (\E h \in DOMAIN handler : Issues(handler[h].todo, key, x)) \/ Issues(sweep.todo, key, x)
  BY <1>3, <1>6, CachedMeans
<1>7. QED
  BY <1>4, <1>5, <1>6, CachedMeans

\* The cache updater leaves the blacklists alone.
LEMMA SweepRunsCached ==
  ASSUME OthersOK, RedisOK, SweepRuns, NEW u \in User, NEW x, Cached(<<"blacklist", u>>, x)
  PROVE  Cached(<<"blacklist", u>>, x)'
<1> DEFINE s == sweep.todo
           key == <<"blacklist", u>>
<1>1. s \in Seq(SweepCommand) /\ s # <<>> /\ Issue(Head(s))
  BY DEF OthersOK, SweepRuns
<1>2. Head(s) \in Command /\ Head(s).key # key /\ key \in Keys
  <2>1. Head(s) \in SweepCommand
    BY <1>1, HeadTail
  <2>2. Head(s) \in Command /\ Head(s).key[1] \in {"recent", "online"}
    BY <2>1 DEF SweepCommand
  <2>3. key[1] = "blacklist" /\ key \in Keys
    BY KeyNames
  <2> HIDE DEF s, key
  <2>4. QED
    BY <2>2, <2>3
<1>3. sweep'.todo = Tail(s) /\ UNCHANGED <<handler, request>>
  BY DEF OthersOK, SweepRuns
<1>4. CASE x \in redis[key]
  BY <1>1, <1>2, <1>4, IssueKeeps, CachedMeans
<1>5. CASE Issues(s, key, x)
  BY <1>1, <1>2, <1>3, <1>5, IssuesHead, CachedMeans
<1>6. CASE \/ \E h \in DOMAIN handler : Issues(handler[h].todo, key, x)
           \/ \E w \in User : Issues(request[w], key, x)
  BY <1>3, <1>6, CachedMeans
<1>7. QED
  BY <1>4, <1>5, <1>6, CachedMeans

\* A new websocket's number is above those before it.
LEMMA NumbersStep ==
  ASSUME TypeOK, CommandsInv, NumbersInv, [Next]_vars
  PROVE  NumbersInv'
<1>0. HandlersOK /\ RedisOK /\ OthersOK /\ ScalarsOK
  BY TypeParts
<1>1. ASSUME NEW u \in User, Connect(u)
      PROVE  NumbersInv'
  <2>1. /\ DOMAIN handler' = DOMAIN handler \cup {<<u, newest[u] + 1>>}
        /\ newest[u] \in Nat
        /\ newest' = [newest EXCEPT ![u] = newest[u] + 1]
    BY <1>0, <1>1 DEF Connect, ScalarsOK, With
  <2>2. \A h \in DOMAIN handler : h[1] \in User /\ h[2] \in Nat
    BY <1>0, SocketType, ChatServerAssumption DEF HandlersOK
  <2>3. \A w \in User : newest'[w] = IF w = u THEN newest[u] + 1 ELSE newest[w]
    BY <1>0, <2>1 DEF ScalarsOK
  <2>4. \A w \in User : newest[w] \in Nat
    BY <1>0 DEF ScalarsOK
  <2>5. QED
    BY <2>1, <2>2, <2>3, <2>4 DEF NumbersInv
<1>2. ASSUME NEW h \in Sockets, Register(h) \/ Disconnect(h) \/ HandlerRuns(h)
      PROVE  NumbersInv'
  <2>1. DOMAIN handler' \subseteq DOMAIN handler /\ UNCHANGED newest
    BY <1>2 DEF Register, Disconnect, Serving, HandlerRuns, With, WithoutHandler, socketVars
  <2>2. QED
    BY <2>1 DEF NumbersInv
<1>3. ASSUME NEW h \in Sockets, NEW v \in User, CreateChat(h, v) \/ DeclineChat(h, v)
      PROVE  NumbersInv'
  <2>1. DOMAIN handler' = DOMAIN handler /\ UNCHANGED newest
    BY <1>3 DEF CreateChat, DeclineChat, socketVars
  <2>2. QED
    BY <2>1 DEF NumbersInv
<1>4. CASE UNCHANGED <<handler, newest>>
  BY <1>4 DEF NumbersInv
<1>5. QED
  BY <1>1, <1>2, <1>3, <1>4
     DEF Next, vars, Drop, Block, PatchUser, RequestRuns, RecordAges, SweepVisits, SweepStarts,
         SweepRuns, socketVars

\* A user who is never hasty has one coroutine, and whoever is registered has one
\* that serves him: Disconnect takes him out of the connection manager first.
LEMMA SocketsStep ==
  ASSUME TypeOK, CommandsInv, NumbersInv, SocketsInv, [Next]_vars
  PROVE  SocketsInv'
<1>0. HandlersOK /\ RedisOK /\ OthersOK /\ ScalarsOK
  BY TypeParts
<1> SUFFICES ASSUME NEW u \in User
             PROVE  /\ u \notin Hasty => \A g, h \in Handlers(u)' : g = h
                    /\ u \in active' => \E h \in Handlers(u)' : handler'[h].phase = "serving"
  BY <1>0, TypeStep DEF SocketsInv, TypeOK
<1>a. /\ u \notin Hasty => \A g, h \in Handlers(u) : g = h
      /\ u \in active => \E h \in Handlers(u) : handler[h].phase = "serving"
  BY DEF SocketsInv
<1>b. \A h \in Handlers(u) : h \in DOMAIN handler /\ h[1] = u
  BY DEF Handlers
<1>1. ASSUME NEW w \in User, Connect(w)
      PROVE  /\ u \notin Hasty => \A g, h \in Handlers(u)' : g = h
             /\ u \in active' => \E h \in Handlers(u)' : handler'[h].phase = "serving"
  <2> DEFINE n == <<w, newest[w] + 1>>
  <2>1. handler' = With(n, "joining", place[w], JoinCommands(w)) /\ active' = active
    BY <1>1 DEF Connect
  <2>2. CASE w = u
    <3>1. u \notin Hasty => Handlers(u) = {}
      BY <1>1, <2>2 DEF Connect
    <3>2. Handlers(u)' = Handlers(u) \cup {n}
      BY <2>1, <2>2 DEF Handlers, With
    <3>3. n \notin DOMAIN handler
      BY <1>0, <1>1 DEF NumbersInv, ScalarsOK
    <3>4. \A h \in Handlers(u) : handler'[h] = handler[h]
      BY <1>b, <2>1, <3>3 DEF With
    <3>5. QED
      BY <1>a, <2>1, <3>1, <3>2, <3>4
  <2>3. CASE w # u
    <3>1. /\ Handlers(u)' = Handlers(u) /\ n \notin Handlers(u)
          /\ \A h \in DOMAIN handler : h # n => handler'[h] = handler[h]
      BY <1>b, <2>1, <2>3 DEF Handlers, With
    <3>2. QED
      BY <1>a, <1>b, <2>1, <3>1
  <2>4. QED
    BY <2>2, <2>3
<1>2. ASSUME NEW h \in Sockets, Register(h)
      PROVE  /\ u \notin Hasty => \A g, f \in Handlers(u)' : g = f
             /\ u \in active' => \E g \in Handlers(u)' : handler'[g].phase = "serving"
  <2>1. /\ handler' = With(h, "serving", handler[h].place, <<>>) /\ h \in DOMAIN handler
        /\ active' = active \cup {h[1]}
    BY <1>2 DEF Register
  <2>2. /\ Handlers(u)' = Handlers(u)
        /\ handler'[h].phase = "serving"
        /\ \A g \in DOMAIN handler : g # h => handler'[g] = handler[g]
    BY <2>1 DEF Handlers, With
  <2>3. h[1] = u => h \in Handlers(u)
    BY <2>1 DEF Handlers
  <2>4. QED
    BY <1>a, <1>b, <2>1, <2>2, <2>3
<1>3. ASSUME NEW h \in Sockets, Disconnect(h)
      PROVE  /\ u \notin Hasty => \A g, f \in Handlers(u)' : g = f
             /\ u \in active' => \E g \in Handlers(u)' : handler'[g].phase = "serving"
  <2>1. /\ handler' = With(h, "leaving", handler[h].place, LeaveCommands(h[1], handler[h].place))
        /\ h \in DOMAIN handler
        /\ active' = active \ {h[1]}
    BY <1>3 DEF Disconnect, Serving
  <2>2. /\ Handlers(u)' = Handlers(u)
        /\ \A g \in DOMAIN handler : g # h => handler'[g] = handler[g]
    BY <2>1 DEF Handlers, With
  <2>3. QED
    BY <1>a, <1>b, <2>1, <2>2
<1>4. ASSUME NEW h \in Sockets, HandlerRuns(h)
      PROVE  /\ u \notin Hasty => \A g, f \in Handlers(u)' : g = f
             /\ u \in active' => \E g \in Handlers(u)' : handler'[g].phase = "serving"
  <2>1. active' = active /\ h \in DOMAIN handler
    BY <1>4 DEF HandlerRuns
  <2>2. CASE handler' = WithoutHandler(h) /\ handler[h].phase = "leaving"
    <3>1. /\ Handlers(u)' = Handlers(u) \ {h}
          /\ \A g \in DOMAIN handler : g # h => handler'[g] = handler[g]
      BY <2>2 DEF WithoutHandler, Handlers
    <3>2. QED
      BY <1>a, <1>b, <2>1, <2>2, <3>1
  <2>3. CASE handler' = [handler EXCEPT ![h].todo = Tail(@)]
    <3>1. /\ Handlers(u)' = Handlers(u)
          /\ \A g \in DOMAIN handler : handler'[g].phase = handler[g].phase
      BY <1>0, <2>3 DEF Handlers, HandlersOK
    <3>2. QED
      BY <1>a, <1>b, <2>1, <3>1
  <2>4. QED
    BY <1>4, <2>2, <2>3 DEF HandlerRuns
<1>5. ASSUME NEW h \in Sockets, NEW v \in User, CreateChat(h, v) \/ DeclineChat(h, v)
      PROVE  /\ u \notin Hasty => \A g, f \in Handlers(u)' : g = f
             /\ u \in active' => \E g \in Handlers(u)' : handler'[g].phase = "serving"
  <2>1. /\ active' = active /\ h \in DOMAIN handler
        /\ \E todo : handler' = [handler EXCEPT ![h].todo = todo]
    BY <1>5 DEF CreateChat, DeclineChat, Serving
  <2>2. /\ Handlers(u)' = Handlers(u)
        /\ \A g \in DOMAIN handler : handler'[g].phase = handler[g].phase
    BY <1>0, <2>1 DEF Handlers, HandlersOK
  <2>3. QED
    BY <1>a, <1>b, <2>1, <2>2
<1>6. CASE UNCHANGED <<handler, active>>
  BY <1>a, <1>6 DEF Handlers
<1>7. QED
  BY <1>1, <1>2, <1>3, <1>4, <1>5, <1>6
     DEF Next, vars, Drop, Block, PatchUser, RequestRuns, RecordAges, SweepVisits, SweepStarts, SweepRuns

\* Whom somebody avoids once one user has blocked another.
LEMMA AvoidsMore ==
  ASSUME NEW a \in User, NEW b \in User, blocked' = blocked \cup {<<a, b>>},
         NEW u \in User, NEW v \in Avoids(u)'
  PROVE  v \in User /\ (v \in Avoids(u) \/ (u = a /\ v = b) \/ (u = b /\ v = a))
BY DEF Avoids

\* Everybody a user is kept apart from is in his cache, or about to be, from the
\* moment his coroutine has read the database until it leaves.
LEMMA AvoidedStep ==
  ASSUME TypeOK, CommandsInv, NumbersInv, SocketsInv, AvoidedInv, [Next]_vars
  PROVE  AvoidedInv'
<1>0. HandlersOK /\ RedisOK /\ OthersOK /\ ScalarsOK
  BY TypeParts
<1> SUFFICES ASSUME NEW u \in User, u \notin Hasty, NEW g \in Handlers(u)',
                    handler'[g].phase # "leaving", NEW v \in Avoids(u)'
             PROVE  Cached(<<"blacklist", u>>, v)'
  BY DEF AvoidedInv
<1> DEFINE key == <<"blacklist", u>>
<1>a. /\ \A f, h \in Handlers(u) : f = h
      /\ \A h \in Handlers(u) : handler[h].phase # "leaving" => \A x \in Avoids(u) : Cached(key, x)
  BY DEF SocketsInv, AvoidedInv
<1>b. key \in Keys /\ v \in User
  BY KeyNames DEF Avoids
<1>c. g \in DOMAIN handler' /\ g[1] = u
  BY DEF Handlers
<1>1. ASSUME NEW w \in User, Connect(w)
      PROVE  Cached(key, v)'
  <2> DEFINE n == <<w, newest[w] + 1>>
  <2>1. /\ handler' = With(n, "joining", place[w], JoinCommands(w))
        /\ UNCHANGED <<redis, request, sweep, blocked>>
    BY <1>1 DEF Connect, database
  <2>2. v \in Avoids(u)
    BY <2>1 DEF Avoids
  <2>3. CASE w = u
    <3>1. n \in DOMAIN handler' /\ handler'[n].todo = JoinCommands(u)
      BY <2>1, <2>3 DEF With
    <3>2. Issues(JoinCommands(u), key, v)
      BY <2>2, JoinIssues
    <3>3. QED
      BY <3>1, <3>2, CachedMeans
  <2>4. CASE w # u
    <3>1. g \in Handlers(u) /\ handler[g].phase # "leaving"
      BY <1>c, <2>1, <2>4 DEF Handlers, With
    <3>2. Cached(key, v)
      BY <1>a, <2>2, <3>1
    <3>3. n \notin DOMAIN handler
      BY <1>0, <1>1 DEF NumbersInv, ScalarsOK
    <3>4. QED
      BY <2>1, <3>2, <3>3, WithCached
  <2>5. QED
    BY <2>3, <2>4
<1>2. ASSUME NEW h \in Sockets, Register(h)
      PROVE  Cached(key, v)'
  <2>1. /\ handler' = With(h, "serving", handler[h].place, <<>>)
        /\ h \in DOMAIN handler /\ handler[h].todo = <<>> /\ handler[h].phase = "joining"
        /\ UNCHANGED <<redis, request, sweep, blocked>>
    BY <1>2 DEF Register, database
  <2>2. v \in Avoids(u)
    BY <2>1 DEF Avoids
  <2>3. g \in Handlers(u) /\ handler[g].phase # "leaving"
    BY <1>c, <2>1 DEF Handlers, With
  <2>4. Cached(key, v)
    BY <1>a, <2>2, <2>3
  <2>5. QED
    BY <2>1, <2>4, WithCached
<1>3. ASSUME NEW h \in Sockets, Disconnect(h)
      PROVE  Cached(key, v)'
  <2>1. /\ handler' = With(h, "leaving", handler[h].place, LeaveCommands(h[1], handler[h].place))
        /\ h \in DOMAIN handler /\ handler[h].todo = <<>>
        /\ UNCHANGED <<redis, request, sweep, blocked>>
    BY <1>3 DEF Disconnect, Serving, database
  <2>2. v \in Avoids(u)
    BY <2>1 DEF Avoids
  <2>3. g \in Handlers(u) /\ g # h /\ handler[g].phase # "leaving"
    BY <1>c, <2>1 DEF Handlers, With
  <2>4. Cached(key, v)
    BY <1>a, <2>2, <2>3
  <2>5. QED
    BY <2>1, <2>4, WithCached
<1>4. ASSUME NEW h \in Sockets, HandlerRuns(h)
      PROVE  Cached(key, v)'
  <2> DEFINE c == Head(handler[h].todo)
             S == HandlerCommand(h[1], handler[h].phase, handler[h].place)
  <2>1. h \in DOMAIN handler /\ c \in S /\ UNCHANGED blocked
    BY <1>0, <1>4, HeadTail DEF HandlerRuns, HandlersOK, database
  <2>2. v \in Avoids(u)
    BY <2>1 DEF Avoids
  <2>3. g \in DOMAIN handler /\ handler[g].phase = handler'[g].phase
    BY <1>0, <1>4, <1>c DEF HandlerRuns, WithoutHandler, HandlersOK
  <2>4. g \in Handlers(u) /\ handler[g].phase # "leaving"
    BY <1>c, <2>3 DEF Handlers
  <2>5. Cached(key, v)
    BY <1>a, <2>2, <2>4
  <2>6. ASSUME c.key = key
        PROVE  c.minus = {}
    <3>1. c.key[1] = "blacklist" /\ c.key[2] = u
      BY <2>6
    <3>2. SUFFICES ASSUME c.minus # {} PROVE FALSE
      OBVIOUS
    <3>3. h[1] = u /\ handler[h].phase = "leaving"
      BY <2>1, <3>1, <3>2 DEF HandlerCommand
    <3>4. h = g
      BY <1>a, <2>1, <2>4, <3>3 DEF Handlers
    <3>5. QED
      BY <2>4, <3>3, <3>4
  <2> HIDE DEF S, key
  <2>7. c.key = key => v \notin c.minus
    BY <2>6
  <2>8. QED
    BY <1>0, <1>4, <1>b, <2>5, <2>7, HandlerRunsCached
<1>5. ASSUME NEW h \in Sockets, NEW w \in User, CreateChat(h, w)
      PROVE  Cached(key, v)'
  <2>1. /\ handler' = [handler EXCEPT ![h].todo = PartnerCommands(h[1], w)]
        /\ h \in DOMAIN handler /\ handler[h].todo = <<>>
        /\ UNCHANGED <<redis, request, sweep, blocked>>
    BY <1>5 DEF CreateChat, Serving
  <2>2. handler' = With(h, handler[h].phase, handler[h].place, PartnerCommands(h[1], w))
    BY <1>0, <2>1, ExceptWith
  <2>3. v \in Avoids(u)
    BY <2>1 DEF Avoids
  <2>4. g \in Handlers(u) /\ handler[g].phase # "leaving"
    BY <1>c, <2>1, <2>2 DEF Handlers, With
  <2>5. Cached(key, v)
    BY <1>a, <2>3, <2>4
  <2>6. QED
    BY <2>1, <2>2, <2>5, WithCached
<1>6. ASSUME NEW h \in Sockets, NEW w \in User, DeclineChat(h, w)
      PROVE  Cached(key, v)'
  <2> DEFINE todo == IF <<h[1], w>> \in blocked THEN <<>>
                     ELSE BlockCommands(h[1], w) \o PartCommands(h[1], w)
  <2>1. /\ handler' = [handler EXCEPT ![h].todo = todo]
        /\ h \in DOMAIN handler /\ handler[h].todo = <<>>
        /\ UNCHANGED <<redis, request, sweep>>
        /\ blocked' = blocked \cup {<<h[1], w>>}
        /\ h[1] \in User
    BY <1>6, SocketType DEF DeclineChat, Serving
  <2> HIDE DEF todo
  <2>2. handler' = With(h, handler[h].phase, handler[h].place, todo)
    BY <1>0, <2>1, ExceptWith
  <2>3. g \in Handlers(u) /\ handler[g].phase # "leaving"
    BY <1>c, <2>1, <2>2 DEF Handlers, With
  <2>4. CASE v \in Avoids(u)
    <3>1. Cached(key, v)
      BY <1>a, <2>3, <2>4
    <3>2. QED
      BY <2>1, <2>2, <3>1, WithCached
  <2>5. CASE v \notin Avoids(u)
    <3>1. (u = h[1] /\ v = w) \/ (u = w /\ v = h[1])
      BY <2>1, <2>5, AvoidsMore
    <3>2. <<h[1], w>> \notin blocked
      BY <2>5, <3>1, <1>b DEF Avoids
    <3>3. todo = BlockCommands(h[1], w) \o PartCommands(h[1], w)
      BY <3>2 DEF todo
    <3>4. Issues(todo, key, v)
      <4>1. /\ Len(todo) = 4
            /\ todo[1] = Sadd(<<"blacklist", w>>, {h[1]})
            /\ todo[2] = Sadd(<<"blacklist", h[1]>>, {w})
        BY <3>3 DEF BlockCommands, PartCommands
      <4>2. QED
        BY <3>1, <4>1 DEF Issues, Sadd
    <3>5. h \in DOMAIN handler' /\ handler'[h].todo = todo
      BY <2>2 DEF With
    <3>6. QED
      BY <3>4, <3>5, CachedMeans
  <2>6. QED
    BY <2>4, <2>5
<1>7. ASSUME NEW a \in User, NEW w \in User, Block(a, w)
      PROVE  Cached(key, v)'
  <2>1. /\ request[a] = <<>> /\ UNCHANGED <<redis, handler, sweep>>
        /\ blocked' = blocked \cup {<<a, w>>}
        /\ request' = [request EXCEPT ![a] = BlockCommands(a, w)]
    BY <1>7 DEF Block
  <2>2. /\ request'[a] = BlockCommands(a, w)
        /\ \A b \in User : b # a => request'[b] = request[b]
    BY <1>0, <2>1 DEF OthersOK
  <2>3. g \in Handlers(u) /\ handler[g].phase # "leaving"
    BY <1>c, <2>1 DEF Handlers
  <2>4. CASE v \in Avoids(u)
    <3>1. Cached(key, v)
      BY <1>a, <2>3, <2>4
    <3>2. QED
      BY <2>1, <2>2, <3>1, CachedMeans, IssuesNonempty
  <2>5. CASE v \notin Avoids(u)
    <3>1. (u = a /\ v = w) \/ (u = w /\ v = a)
      BY <2>1, <2>5, AvoidsMore
    <3>2. place[a] \in Place
      BY <1>0 DEF ScalarsOK
    <3>3. Issues(BlockCommands(a, w), key, v)
      BY <3>1, <3>2, BlockType
    <3>4. QED
      BY <2>2, <3>3, CachedMeans
  <2>6. QED
    BY <2>4, <2>5
<1>8. ASSUME NEW a \in User, NEW p \in Place, PatchUser(a, p)
      PROVE  Cached(key, v)'
  <2>1. /\ request[a] = <<>> /\ UNCHANGED <<redis, handler, sweep, blocked>>
        /\ \A b \in User : b # a => request'[b] = request[b]
    BY <1>0, <1>8 DEF PatchUser, OthersOK
  <2>2. v \in Avoids(u)
    BY <2>1 DEF Avoids
  <2>3. g \in Handlers(u) /\ handler[g].phase # "leaving"
    BY <1>c, <2>1 DEF Handlers
  <2>4. Cached(key, v)
    BY <1>a, <2>2, <2>3
  <2>5. QED
    BY <2>1, <2>4, CachedMeans, IssuesNonempty
<1>9. ASSUME UNCHANGED <<handler, blocked>>
      PROVE  Cached(key, v)
  <2>1. g \in Handlers(u) /\ handler[g].phase # "leaving" /\ v \in Avoids(u)
    BY <1>9, <1>c DEF Handlers, Avoids
  <2>2. QED
    BY <1>a, <2>1
<1>10. ASSUME NEW a \in User, RequestRuns(a)
       PROVE  Cached(key, v)'
  <2>1. Cached(key, v) /\ request[a] \in Seq(RequestCommand(a)) /\ request[a] # <<>>
    BY <1>0, <1>9, <1>10 DEF RequestRuns, OthersOK, database
  <2>2. Head(request[a]).key[1] = "blacklist" => Head(request[a]).minus = {}
    BY <2>1, HeadTail DEF RequestCommand
  <2>3. Head(request[a]).key = key => v \notin Head(request[a]).minus
    BY <2>2
  <2>4. QED
    BY <1>0, <1>10, <1>b, <2>1, <2>3, RequestRunsCached
<1>11. ASSUME SweepRuns
       PROVE  Cached(key, v)'
  <2>1. Cached(key, v)
    BY <1>9, <1>11 DEF SweepRuns, database
  <2>2. QED
    BY <1>0, <1>11, <2>1, SweepRunsCached
<1>12. ASSUME NEW a \in User, SweepVisits(a)
       PROVE  Cached(key, v)'
  <2>1. Cached(key, v) /\ sweep.todo = <<>> /\ UNCHANGED <<redis, handler, request>>
    BY <1>9, <1>12 DEF SweepVisits, database
  <2>2. QED
    BY <2>1, CachedMeans, IssuesNonempty
<1>13. ASSUME SweepStarts
       PROVE  Cached(key, v)'
  <2>1. Cached(key, v) /\ sweep.todo = <<>> /\ UNCHANGED <<redis, handler, request>>
    BY <1>9, <1>13 DEF SweepStarts, database, Idle
  <2>2. QED
    BY <2>1, CachedMeans, IssuesNonempty
<1>14. CASE UNCHANGED <<handler, blocked, redis, request, sweep>>
  BY <1>9, <1>14, CachedMeans
<1>15. QED
  BY <1>1, <1>2, <1>3, <1>4, <1>5, <1>6, <1>7, <1>8, <1>10, <1>11, <1>12, <1>13, <1>14
     DEF Next, vars, Drop, RecordAges, database

\* The safety of the cached blacklists, for any number of users and websockets,
\* reconnections, blocks and declines: nobody who is registered, and is never in
\* haste, is served from a cache that lacks one he is kept apart from and will
\* not get him.  _init_user reads the database before it fills the cache, and a
\* block that commits in between adds to the cache itself.
THEOREM Blacklists == Spec => []BlacklistCached
<1> DEFINE Inv == TypeOK /\ CommandsInv /\ NumbersInv /\ SocketsInv /\ AvoidedInv
<1>1. Init => Inv
  <2>1. Init => NumbersInv /\ SocketsInv /\ AvoidedInv
    BY DEF Init, NumbersInv, SocketsInv, AvoidedInv, Handlers
  <2>2. QED
    BY <2>1, TypeInit
<1>2. Inv /\ [Next]_vars => Inv'
  BY TypeStep, NumbersStep, SocketsStep, AvoidedStep
<1>3. Inv => BlacklistCached
  <2> SUFFICES ASSUME SocketsInv, AvoidedInv, NEW u \in active \ Hasty, u \in User, NEW v \in Avoids(u)
               PROVE  Cached(<<"blacklist", u>>, v)
    BY DEF BlacklistCached, Cached, TypeOK
  <2>1. PICK h \in Handlers(u) : handler[h].phase = "serving"
    BY DEF SocketsInv
  <2>2. QED
    BY <2>1 DEF AvoidedInv
<1>4. QED
  BY <1>1, <1>2, <1>3, PTL DEF Spec

-------------------------------------------------------------------------------
(* The online caches *)

\* What is withdrawn by a sequence is withdrawn by its first command or by the rest.
LEMMA WithdrawsHead ==
  ASSUME NEW S, NEW todo \in Seq(S), todo # <<>>, NEW key, NEW x, Withdraws(todo, key, x)
  PROVE  (Head(todo).key = key /\ x \in Head(todo).minus) \/ Withdraws(Tail(todo), key, x)
<1>1. PICK i \in 1..Len(todo) : todo[i].key = key /\ x \in todo[i].minus
  BY DEF Withdraws
<1>2. CASE i = 1
  BY <1>1, <1>2
<1>3. CASE i # 1
  <2>1. i - 1 \in 1..Len(Tail(todo)) /\ Tail(todo)[i - 1] = todo[i]
    BY <1>3
  <2>2. QED
    BY <1>1, <2>1 DEF Withdraws
<1>4. QED
  BY <1>2, <1>3

\* The first command of the rest is the second.
LEMMA TailAt ==
  ASSUME NEW S, NEW s \in Seq(S), s # <<>>, NEW i \in 1..Len(Tail(s))
  PROVE  i + 1 \in 1..Len(s) /\ Tail(s)[i] = s[i + 1]
OBVIOUS

\* The cache updater deletes the record it visits, and nothing else it knows of.
LEMMA SweepDeletes ==
  ASSUME NEW u \in User, NEW i \in 1..Len(SweepCommands(u)), SweepCommands(u)[i].key[1] = "recent"
  PROVE  i = 1 /\ SweepCommands(u)[i].key = <<"recent", u>>
<1> DEFINE p == CHOOSE x \in redis[<<"recent", u>>] : TRUE
<1>1. SweepCommands(u) = <<Delete(<<"recent", u>>)>> \o GoOffline(u, p)
  BY Zenon DEF SweepCommands
<1> HIDE DEF p
<1>2. /\ Len(SweepCommands(u)) = 3
      /\ SweepCommands(u)[1] = Delete(<<"recent", u>>)
      /\ SweepCommands(u)[2] = Srem(<<"online", p>>, {u})
      /\ SweepCommands(u)[3] = Srem(<<"online", Anywhere>>, {u})
  BY <1>1 DEF GoOffline
<1>3. QED
  BY <1>2 DEF Delete, Srem

\* It takes the user of that record out where the record says he is.
LEMMA SweepWithdraws ==
  ASSUME NEW u \in User, NEW p, redis[<<"recent", u>>] = {p}, NEW k \in PlaceKeys(p)
  PROVE  Withdraws(Tail(SweepCommands(u)), <<"online", k>>, u)
<1>1. SweepCommands(u) = <<Delete(<<"recent", u>>)>> \o GoOffline(u, p)
  <2>1. (CHOOSE x \in {p} : TRUE) = p
    OBVIOUS
  <2>2. QED
    BY <2>1, Zenon DEF SweepCommands
<1>2. /\ Len(Tail(SweepCommands(u))) = 2
      /\ Tail(SweepCommands(u))[1] = Srem(<<"online", p>>, {u})
      /\ Tail(SweepCommands(u))[2] = Srem(<<"online", Anywhere>>, {u})
  BY <1>1 DEF GoOffline
<1>3. k = p \/ k = Anywhere
  BY DEF PlaceKeys
<1> DEFINE t == Tail(SweepCommands(u))
<1>4. 1 \in 1..Len(t) /\ 2 \in 1..Len(t)
  BY <1>2
<1>5. /\ t[1].key = <<"online", p>> /\ u \in t[1].minus
      /\ t[2].key = <<"online", Anywhere>> /\ u \in t[2].minus
  BY <1>2 DEF Srem
<1> HIDE DEF t
<1>6. Withdraws(t, <<"online", k>>, u)
  BY <1>3, <1>4, <1>5 DEF Withdraws
<1>7. QED
  BY <1>6 DEF t

\* What PlaceInv says of one user.
PlaceOK(u) ==
  /\ \A h \in Handlers(u) : handler[h].place = place[u]
  /\ redis[<<"recent", u>>] \subseteq {place[u]}
  /\ \A k \in Place \cup {Anywhere} : u \in redis[<<"online", k>>] => k \in PlaceKeys(place[u])

SweepOK(u) ==
  \A i \in 1..Len(sweep.todo) : sweep.todo[i].key = <<"recent", u>> =>
    /\ i = 1
    /\ \A k \in PlaceKeys(place[u]) : Withdraws(Tail(sweep.todo), <<"online", k>>, u)

\* One command, and where a user who does not move is known to be.
LEMMA IssuePlace ==
  ASSUME RedisOK, NEW c \in Command, Issue(c), NEW u \in User, NEW p,
         redis[<<"recent", u>>] \subseteq {p},
         \A k \in Place \cup {Anywhere} : u \in redis[<<"online", k>>] => k \in PlaceKeys(p),
         c.key = <<"recent", u>> => c.plus \subseteq {p},
         \A k : c.key = <<"online", k>> /\ u \in c.plus => k \in PlaceKeys(p)
  PROVE  /\ redis'[<<"recent", u>>] \subseteq {p}
         /\ \A k \in Place \cup {Anywhere} : u \in redis'[<<"online", k>>] => k \in PlaceKeys(p)
<1>1. redis'[<<"recent", u>>] \subseteq {p}
  BY IssueValue, KeyNames
<1>2. ASSUME NEW k \in Place \cup {Anywhere}, u \in redis'[<<"online", k>>]
      PROVE  k \in PlaceKeys(p)
  <2>1. u \in redis[<<"online", k>>] \/ (c.key = <<"online", k>> /\ u \in c.plus)
    BY <1>2, IssueValue, KeyNames
  <2>2. QED
    BY <2>1
<1>3. QED
  BY <1>1, <1>2

\* Who does not move is known at one place only.
LEMMA PlaceStep ==
  ASSUME TypeOK, CommandsInv, PlaceInv, [Next]_vars
  PROVE  PlaceInv'
<1>0. HandlersOK /\ RedisOK /\ OthersOK /\ ScalarsOK
  BY TypeParts
<1> SUFFICES ASSUME NEW u \in User, u \notin Movers
             PROVE  PlaceOK(u)' /\ SweepOK(u)'
  BY DEF PlaceInv, PlaceOK, SweepOK
<1>a. PlaceOK(u) /\ SweepOK(u)
  BY DEF PlaceInv, PlaceOK, SweepOK
<1>1. ASSUME NEW w \in User, Connect(w)
      PROVE  PlaceOK(u)' /\ SweepOK(u)'
  BY <1>a, <1>1 DEF Connect, PlaceOK, SweepOK, Handlers, With, database
<1>2. ASSUME NEW h \in Sockets, Register(h)
      PROVE  PlaceOK(u)' /\ SweepOK(u)'
  BY <1>a, <1>2 DEF Register, PlaceOK, SweepOK, Handlers, With, database
<1>3. ASSUME NEW h \in Sockets, Disconnect(h)
      PROVE  PlaceOK(u)' /\ SweepOK(u)'
  BY <1>a, <1>3 DEF Disconnect, Serving, PlaceOK, SweepOK, Handlers, With, database
<1>4. ASSUME NEW h \in Sockets, HandlerRuns(h)
      PROVE  PlaceOK(u)' /\ SweepOK(u)'
  <2> DEFINE c == Head(handler[h].todo)
  <2>1. /\ h \in DOMAIN handler /\ Issue(c) /\ c \in Command
        /\ c \in HandlerCommand(h[1], handler[h].phase, handler[h].place)
        /\ UNCHANGED <<place, sweep>>
    BY <1>0, <1>4, HeadTail, CommandSets DEF HandlerRuns, HandlersOK, database
  <2>2. h[1] = u => handler[h].place = place[u]
    BY <1>a, <2>1 DEF PlaceOK, Handlers
  <2>3. /\ c.key = <<"recent", u>> => c.plus \subseteq {place[u]}
        /\ \A k : c.key = <<"online", k>> /\ u \in c.plus => k \in PlaceKeys(place[u])
    <3>1. c.key[1] = "recent" => c.key[2] = h[1] /\ c.plus \subseteq {handler[h].place}
      BY <2>1 DEF HandlerCommand
    <3>2. c.key[1] = "online" => c.plus = {h[1]} /\ c.key[2] \in PlaceKeys(handler[h].place)
      BY <2>1 DEF HandlerCommand
    <3> HIDE DEF c
    <3>3. QED
      BY <2>2, <3>1, <3>2
  <2> HIDE DEF c
  <2>4. /\ redis'[<<"recent", u>>] \subseteq {place[u]}
        /\ \A k \in Place \cup {Anywhere} : u \in redis'[<<"online", k>>] => k \in PlaceKeys(place[u])
    BY <1>0, <1>a, <2>1, <2>3, IssuePlace DEF PlaceOK
  <2>5. \A g \in Handlers(u)' : g \in Handlers(u) /\ handler'[g].place = handler[g].place
    BY <1>0, <1>4 DEF HandlerRuns, WithoutHandler, HandlersOK, Handlers
  <2>6. QED
    BY <1>a, <2>1, <2>4, <2>5 DEF PlaceOK, SweepOK
<1>5. ASSUME NEW h \in Sockets, NEW v \in User, CreateChat(h, v) \/ DeclineChat(h, v)
      PROVE  PlaceOK(u)' /\ SweepOK(u)'
  <2>1. /\ h \in DOMAIN handler
        /\ \E todo : handler' = [handler EXCEPT ![h].todo = todo]
        /\ UNCHANGED <<place, redis, sweep>>
    BY <1>5 DEF CreateChat, DeclineChat, Serving
  <2>2. \A g \in Handlers(u)' : g \in Handlers(u) /\ handler'[g].place = handler[g].place
    BY <1>0, <2>1 DEF HandlersOK, Handlers
  <2>3. QED
    BY <1>a, <2>1, <2>2 DEF PlaceOK, SweepOK
<1>6. ASSUME NEW w \in User, NEW p \in Place, PatchUser(w, p)
      PROVE  PlaceOK(u)' /\ SweepOK(u)'
  <2>1. place'[u] = place[u] /\ UNCHANGED <<handler, redis, sweep>>
    BY <1>0, <1>6 DEF PatchUser, ScalarsOK
  <2>2. QED
    BY <1>a, <2>1 DEF PlaceOK, SweepOK, Handlers
<1>7. ASSUME NEW w \in User, RequestRuns(w)
      PROVE  PlaceOK(u)' /\ SweepOK(u)'
  <2> DEFINE c == Head(request[w])
  <2>1. Issue(c) /\ c \in Command /\ c \in RequestCommand(w) /\ UNCHANGED <<place, sweep, handler>>
    BY <1>0, <1>7, HeadTail, CommandSets DEF RequestRuns, OthersOK, database
  <2>2. c.key[1] # "recent" /\ (c.key[1] = "online" => u \notin c.plus)
    BY <2>1 DEF RequestCommand
  <2> HIDE DEF c
  <2>3. /\ redis'[<<"recent", u>>] \subseteq {place[u]}
        /\ \A k \in Place \cup {Anywhere} : u \in redis'[<<"online", k>>] => k \in PlaceKeys(place[u])
    BY <1>0, <1>a, <2>1, <2>2, IssuePlace DEF PlaceOK
  <2>4. QED
    BY <1>a, <2>1, <2>3 DEF PlaceOK, SweepOK, Handlers
<1>8. ASSUME SweepRuns
      PROVE  PlaceOK(u)' /\ SweepOK(u)'
  <2> DEFINE c == Head(sweep.todo)
  <2>0. sweep.todo \in Seq(SweepCommand) /\ sweep.todo # <<>>
    BY <1>0, <1>8 DEF SweepRuns, OthersOK
  <2>1. Issue(c) /\ c \in Command /\ c \in SweepCommand /\ UNCHANGED <<place, handler>>
    BY <1>8, <2>0, HeadTail, CommandSets DEF SweepRuns, database
  <2>2. c.plus = {}
    BY <2>1 DEF SweepCommand
  <2> HIDE DEF c
  <2>3. /\ redis'[<<"recent", u>>] \subseteq {place[u]}
        /\ \A k \in Place \cup {Anywhere} : u \in redis'[<<"online", k>>] => k \in PlaceKeys(place[u])
    BY <1>0, <1>a, <2>1, <2>2, IssuePlace DEF PlaceOK
  <2>4. SweepOK(u)'
    <3>1. sweep'.todo = Tail(sweep.todo)
      BY <1>0, <1>8 DEF SweepRuns, OthersOK
    <3>2. ASSUME NEW i \in 1..Len(Tail(sweep.todo)), Tail(sweep.todo)[i].key = <<"recent", u>>
          PROVE  FALSE
      <4>1. i + 1 \in 1..Len(sweep.todo) /\ sweep.todo[i + 1].key = <<"recent", u>>
        BY <2>0, <3>2, TailAt
      <4>2. i + 1 = 1
        BY <1>a, <4>1 DEF SweepOK
      <4>3. QED
        BY <4>2
    <3>3. QED
      BY <3>1, <3>2 DEF SweepOK
  <2>5. QED
    BY <1>a, <2>1, <2>3, <2>4 DEF PlaceOK, Handlers
<1>9. ASSUME NEW w \in User, SweepVisits(w)
      PROVE  PlaceOK(u)' /\ SweepOK(u)'
  <2>1. UNCHANGED <<place, handler, redis>>
    BY <1>9 DEF SweepVisits, database
  <2>2. sweep'.todo = <<>> \/ (sweep'.todo = SweepCommands(w) /\ redis[<<"recent", w>>] # {})
    BY <1>9 DEF SweepVisits, Idle
  <2>3. CASE sweep'.todo = <<>>
    BY <1>a, <2>1, <2>3 DEF PlaceOK, SweepOK, Handlers
  <2>4. CASE sweep'.todo = SweepCommands(w) /\ redis[<<"recent", w>>] # {}
    <3> SUFFICES ASSUME NEW i \in 1..Len(SweepCommands(w)), SweepCommands(w)[i].key = <<"recent", u>>
                 PROVE  i = 1 /\ \A k \in PlaceKeys(place[u]) :
                                   Withdraws(Tail(SweepCommands(w)), <<"online", k>>, u)
      BY <1>a, <2>1, <2>4 DEF PlaceOK, SweepOK, Handlers
    <3>1. i = 1 /\ w = u
      <4>1. SweepCommands(w)[i].key[1] = "recent" /\ SweepCommands(w)[i].key[2] = u
        OBVIOUS
      <4>2. i = 1 /\ SweepCommands(w)[i].key = <<"recent", w>>
        BY <4>1, SweepDeletes
      <4>3. QED
        BY <4>1, <4>2
    <3>2. redis[<<"recent", u>>] = {place[u]}
      BY <1>a, <2>4, <3>1 DEF PlaceOK
    <3>3. QED
      BY <3>1, <3>2, SweepWithdraws
  <2>5. QED
    BY <2>2, <2>3, <2>4
<1>10. CASE SweepStarts
  <2>1. UNCHANGED <<handler, place, redis>> /\ sweep'.todo = <<>>
    BY <1>10 DEF SweepStarts, database
  <2>2. QED
    BY <1>a, <2>1 DEF PlaceOK, SweepOK, Handlers
<1>11. CASE UNCHANGED <<handler, place, redis, sweep>>
  BY <1>a, <1>11 DEF PlaceOK, SweepOK, Handlers
<1>12. QED
  BY <1>1, <1>2, <1>3, <1>4, <1>5, <1>6, <1>7, <1>8, <1>9, <1>10, <1>11
     DEF Next, vars, Drop, Block, RecordAges, database

\* What SettledAccounted says of one user and one set.
Accounted(u, k) ==
  \/ \E h \in Handlers(u) : \/ handler[h].phase # "leaving"
                            \/ \E p \in Place : Issues(handler[h].todo, <<"recent", u>>, p)
  \/ \E p \in redis[<<"recent", u>>] : k \in PlaceKeys(p)
  \/ Withdraws(sweep.todo, <<"online", k>>, u)

\* A sequence without commands withdraws nothing.
LEMMA WithdrawsNonempty ==
  ASSUME NEW key, NEW x
  PROVE  ~Withdraws(<<>>, key, x)
BY DEF Withdraws

\* Whoever is in an online set stays accounted for.
LEMMA SettledStep ==
  ASSUME TypeOK, CommandsInv, PlaceInv, SettledAccounted, [Next]_vars
  PROVE  SettledAccounted'
<1>0. HandlersOK /\ RedisOK /\ OthersOK /\ ScalarsOK
  BY TypeParts
<1> SUFFICES ASSUME NEW u \in User, u \notin Movers, NEW k \in Place \cup {Anywhere},
                    u \in redis'[<<"online", k>>]
             PROVE  Accounted(u, k)'
  BY DEF SettledAccounted, Accounted
<1>a. u \in redis[<<"online", k>>] => Accounted(u, k) /\ k \in PlaceKeys(place[u])
  BY DEF SettledAccounted, PlaceInv, Accounted
<1>b. /\ redis[<<"recent", u>>] \subseteq {place[u]}
      /\ \A h \in Handlers(u) : handler[h].place = place[u]
      /\ place[u] \in Place
  BY <1>0 DEF PlaceInv, ScalarsOK
<1>1. ASSUME NEW w \in User, Connect(w)
      PROVE  Accounted(u, k)'
  BY <1>a, <1>1 DEF Connect, Accounted, Handlers, With
<1>2. ASSUME NEW h \in Sockets, Register(h)
      PROVE  Accounted(u, k)'
  BY <1>a, <1>2 DEF Register, Accounted, Handlers, With
<1>3. ASSUME NEW h \in Sockets, Disconnect(h)
      PROVE  Accounted(u, k)'
  <2> DEFINE todo == LeaveCommands(h[1], handler[h].place)
  <2>1. /\ handler' = With(h, "leaving", handler[h].place, todo)
        /\ h \in DOMAIN handler /\ UNCHANGED <<redis, sweep>>
        /\ handler[h].place \in Place /\ h[1] \in User
    BY <1>0, <1>3, SocketType DEF Disconnect, Serving, HandlersOK
  <2>2. Issues(todo, <<"recent", h[1]>>, handler[h].place)
    BY <2>1, LeaveType
  <2>3. Accounted(u, k)
    BY <1>a, <2>1
  <2> HIDE DEF todo
  <2>4. CASE h[1] = u
    <3>1. h \in Handlers(u)' /\ handler'[h].todo = todo
      BY <2>1, <2>4 DEF Handlers, With
    <3>2. QED
      BY <2>1, <2>2, <2>4, <3>1 DEF Accounted
  <2>5. CASE h[1] # u
    <3>1. \A g \in Handlers(u) : g \in Handlers(u)' /\ handler'[g] = handler[g]
      BY <2>1, <2>5 DEF Handlers, With
    <3>2. QED
      BY <2>1, <2>3, <3>1 DEF Accounted
  <2>6. QED
    BY <2>4, <2>5
<1>4. ASSUME NEW h \in Sockets, HandlerRuns(h)
      PROVE  Accounted(u, k)'
  <2> DEFINE s == handler[h].todo
             c == Head(s)
             p == handler[h].place
  <2>1. /\ h \in DOMAIN handler /\ Issue(c) /\ c \in Command
        /\ c \in HandlerCommand(h[1], handler[h].phase, p)
        /\ s \in Seq(HandlerCommand(h[1], handler[h].phase, p)) /\ s # <<>>
        /\ UNCHANGED <<place, sweep>>
    BY <1>0, <1>4, HeadTail, CommandSets DEF HandlerRuns, HandlersOK, database
  <2>2. \A g \in Handlers(u) : g # h => g \in Handlers(u)' /\ handler'[g] = handler[g]
    BY <1>4 DEF HandlerRuns, WithoutHandler, Handlers
  <2>3. handler[h].phase # "leaving" \/ Len(s) # 1 =>
          h \in DOMAIN handler' /\ handler'[h].phase = handler[h].phase /\ handler'[h].todo = Tail(s)
    BY <1>0, <1>4, <2>1 DEF HandlerRuns, HandlersOK
  <2>4. h[1] = u /\ handler[h].phase # "leaving" => Accounted(u, k)'
    BY <2>1, <2>3 DEF Accounted, Handlers
  <2>5. CASE u \notin redis[<<"online", k>>]
    <3>1. c.key = <<"online", k>> /\ u \in c.plus
      BY <1>0, <2>1, <2>5, IssueValue, KeyNames
    <3>2. c.key[1] = "online"
      BY <3>1
    <3>3. h[1] = u /\ handler[h].phase # "leaving"
      BY <2>1, <3>1, <3>2 DEF HandlerCommand
    <3>4. QED
      BY <2>4, <3>3
  <2>6. CASE u \in redis[<<"online", k>>]
    <3>0. Accounted(u, k) /\ k \in PlaceKeys(place[u])
      BY <1>a, <2>6
    <3>1. ASSUME c.key = <<"recent", u>>
          PROVE  Accounted(u, k)'
      <4>1. c.key[1] = "recent" /\ c.key[2] = u
        BY <3>1
      <4>2. h[1] = u /\ (handler[h].phase = "leaving" => c.plus = {p})
        BY <2>1, <4>1 DEF HandlerCommand
      <4>3. CASE handler[h].phase = "leaving"
        <5>1. p = place[u]
          BY <1>b, <2>1, <4>2 DEF Handlers
        <5> HIDE DEF c, p
        <5>2. place[u] \in redis'[<<"recent", u>>]
          BY <1>0, <2>1, <3>1, <4>2, <4>3, <5>1, IssuePuts
        <5>3. QED
          BY <3>0, <5>2 DEF Accounted, PlaceKeys
      <4>4. QED
        BY <2>4, <4>2, <4>3
    <3>2. CASE \E q \in redis[<<"recent", u>>] : k \in PlaceKeys(q)
      <4>1. CASE c.key # <<"recent", u>>
        <5>1. redis'[<<"recent", u>>] = redis[<<"recent", u>>]
          BY <1>0, <2>1, <4>1, IssueValue, KeyNames
        <5>2. QED
          BY <3>2, <5>1 DEF Accounted, PlaceKeys
      <4>2. QED
        BY <3>1, <4>1
    <3>3. CASE \E g \in Handlers(u) : \/ handler[g].phase # "leaving"
                                      \/ \E q \in Place : Issues(handler[g].todo, <<"recent", u>>, q)
      <4>1. PICK g \in Handlers(u) : \/ handler[g].phase # "leaving"
                                     \/ \E q \in Place : Issues(handler[g].todo, <<"recent", u>>, q)
        BY <3>3
      <4>2. CASE g # h
        BY <2>2, <4>1, <4>2 DEF Accounted
      <4>3. CASE g = h /\ handler[h].phase # "leaving"
        BY <2>4, <4>3 DEF Handlers
      <4>4. CASE g = h /\ handler[h].phase = "leaving"
        <5>1. PICK q \in Place : Issues(s, <<"recent", u>>, q)
          BY <4>1, <4>4
        <5>2. c.key = <<"recent", u>> \/ Issues(Tail(s), <<"recent", u>>, q)
          BY <2>1, <5>1, IssuesHead
        <5>3. CASE Issues(Tail(s), <<"recent", u>>, q)
          <6>1. Len(s) # 1
            BY <2>1, <5>3, HeadTail DEF Issues
          <6>2. h \in Handlers(u)' /\ handler'[h].todo = Tail(s)
            BY <2>3, <4>4, <6>1 DEF Handlers
          <6>3. QED
            BY <5>3, <6>2 DEF Accounted
        <5>4. QED
          BY <3>1, <5>2, <5>3
      <4>5. QED
        BY <4>2, <4>3, <4>4
    <3>4. CASE Withdraws(sweep.todo, <<"online", k>>, u)
      BY <2>1, <3>4 DEF Accounted
    <3>5. QED
      BY <3>0, <3>2, <3>3, <3>4 DEF Accounted
  <2>7. QED
    BY <2>5, <2>6
<1>5. ASSUME NEW h \in Sockets, NEW v \in User, CreateChat(h, v) \/ DeclineChat(h, v)
      PROVE  Accounted(u, k)'
  <2>1. /\ h \in DOMAIN handler /\ handler[h].phase = "serving"
        /\ \E todo : handler' = [handler EXCEPT ![h].todo = todo]
        /\ UNCHANGED <<redis, sweep>>
    BY <1>5 DEF CreateChat, DeclineChat, Serving
  <2>2. \A g \in Handlers(u) : g \in Handlers(u)' /\ (g # h => handler'[g] = handler[g])
    BY <1>0, <2>1 DEF HandlersOK, Handlers
  <2>3. handler'[h].phase = "serving"
    BY <1>0, <2>1 DEF HandlersOK
  <2>4. QED
    BY <1>a, <2>1, <2>2, <2>3 DEF Accounted
<1>6. ASSUME NEW w \in User, RequestRuns(w)
      PROVE  Accounted(u, k)'
  <2> DEFINE c == Head(request[w])
  <2>1. Issue(c) /\ c \in Command /\ c \in RequestCommand(w) /\ UNCHANGED <<sweep, handler>>
    BY <1>0, <1>6, HeadTail, CommandSets DEF RequestRuns, OthersOK
  <2>2. c.key[1] # "recent" /\ (c.key[1] = "online" => u \notin c.plus)
    BY <2>1 DEF RequestCommand
  <2> HIDE DEF c
  <2>3. redis'[<<"recent", u>>] = redis[<<"recent", u>>] /\ u \in redis[<<"online", k>>]
    <3>1. c.key # <<"recent", u>> /\ (c.key = <<"online", k>> => u \notin c.plus)
      BY <2>2
    <3>2. QED
      BY <1>0, <2>1, <3>1, IssueValue, KeyNames
  <2>4. QED
    BY <1>a, <2>1, <2>3 DEF Accounted, Handlers
<1>7. ASSUME SweepRuns
      PROVE  Accounted(u, k)'
  <2> DEFINE c == Head(sweep.todo)
  <2>0. sweep.todo \in Seq(SweepCommand) /\ sweep.todo # <<>>
    BY <1>0, <1>7 DEF SweepRuns, OthersOK
  <2>1. Issue(c) /\ c \in Command /\ c \in SweepCommand /\ UNCHANGED <<place, handler>>
    BY <1>7, <2>0, HeadTail, CommandSets DEF SweepRuns, database
  <2>2. c.plus = {}
    BY <2>1 DEF SweepCommand
  <2>3. sweep'.todo = Tail(sweep.todo)
    BY <1>0, <1>7 DEF SweepRuns, OthersOK
  <2>4. u \in redis[<<"online", k>>] /\ ~(c.key = <<"online", k>> /\ u \in c.minus)
    BY <1>0, <2>1, <2>2, IssueValue, KeyNames
  <2>5. Accounted(u, k) /\ k \in PlaceKeys(place[u])
    BY <1>a, <2>4
  <2>6. CASE Withdraws(sweep.todo, <<"online", k>>, u)
    <3>1. Withdraws(Tail(sweep.todo), <<"online", k>>, u)
      BY <2>0, <2>4, <2>6, WithdrawsHead
    <3>2. QED
      BY <2>3, <3>1 DEF Accounted
  <2>7. CASE c.key = <<"recent", u>>
    <3>1. 1 \in 1..Len(sweep.todo) /\ sweep.todo[1] = c
      BY <2>0
    <3>2. Withdraws(Tail(sweep.todo), <<"online", k>>, u)
      BY <2>5, <2>7, <3>1 DEF PlaceInv
    <3>3. QED
      BY <2>3, <3>2 DEF Accounted
  <2>8. CASE c.key # <<"recent", u>>
    <3>1. redis'[<<"recent", u>>] = redis[<<"recent", u>>]
      BY <1>0, <2>1, <2>8, IssueValue, KeyNames
    <3>2. QED
      BY <2>1, <2>5, <2>6, <3>1 DEF Accounted, Handlers
  <2>9. QED
    BY <2>7, <2>8
<1>8. ASSUME NEW w \in User, SweepVisits(w) \/ SweepStarts
      PROVE  Accounted(u, k)'
  <2>1. sweep.todo = <<>> /\ UNCHANGED <<handler, redis>>
    BY <1>8 DEF SweepVisits, SweepStarts, Idle
  <2>2. ~Withdraws(sweep.todo, <<"online", k>>, u)
    BY <2>1, WithdrawsNonempty
  <2>3. QED
    BY <1>a, <2>1, <2>2 DEF Accounted, Handlers
<1>9. CASE UNCHANGED <<handler, redis, sweep>>
  BY <1>a, <1>9 DEF Accounted, Handlers
<1>10. QED
  BY <1>1, <1>2, <1>3, <1>4, <1>5, <1>6, <1>7, <1>8, <1>9
     DEF Next, vars, Drop, Block, PatchUser, RecordAges

\* Nobody is left behind in an online set, for any number of users, places and
\* websockets, hasty reconnections included, as long as he does not move: the
\* cache updater deletes a record first and takes its user out afterwards, and a
\* user who has come back in between is one who has a coroutine.
THEOREM OnlineAccounted == Spec => []SettledAccounted
<1> DEFINE Inv == TypeOK /\ CommandsInv /\ PlaceInv /\ SettledAccounted
<1>1. Init => Inv
  <2>1. Init => PlaceInv
    <3> SUFFICES ASSUME Init PROVE PlaceInv
      OBVIOUS
    <3>1. /\ \A key \in Keys : redis[key] = {}
          /\ \A u \in User : Handlers(u) = {}
          /\ Len(sweep.todo) = 0
      BY DEF Init, Handlers, Idle
    <3>2. /\ \A u \in User : redis[<<"recent", u>>] = {}
          /\ \A k \in Place \cup {Anywhere} : redis[<<"online", k>>] = {}
      BY <3>1, KeyNames
    <3>3. 1..Len(sweep.todo) = {}
      BY <3>1
    <3>4. QED
      BY <3>1, <3>2, <3>3 DEF PlaceInv
  <2>2. Init => SettledAccounted
    BY KeyNames DEF Init, SettledAccounted
  <2>3. QED
    BY <2>1, <2>2, TypeInit
<1>2. Inv /\ [Next]_vars => Inv'
  BY TypeStep, PlaceStep, SettledStep
<1>3. QED
  BY <1>1, <1>2, PTL DEF Spec

-------------------------------------------------------------------------------
(* The firebase tokens *)

\* What Notifiable says of one user.
Reached(u) ==
  \/ u \in active /\ \E h \in Handlers(u) : handler[h].phase = "serving"
  \/ redis[<<"token", u>>] # {}
  \/ \E h \in Handlers(u) : \/ handler[h].phase = "joining"
                            \/ Issues(handler[h].todo, <<"token", u>>, u)

\* Only the coroutines of a user touch his token.
LEMMA TokenKeys ==
  ASSUME NEW u \in User
  PROVE  /\ <<"token", u>> \in Keys
         /\ \A w, phase, p : \A c \in HandlerCommand(w, phase, p) : c.key = <<"token", u>> => w = u
         /\ \A w : \A c \in RequestCommand(w) : c.key # <<"token", u>>
         /\ \A c \in SweepCommand : c.key # <<"token", u>>
<1>1. <<"token", u>>[1] = "token" /\ <<"token", u>>[2] = u
  OBVIOUS
<1>2. QED
  BY <1>1, KeyNames DEF HandlerCommand, RequestCommand, SweepCommand

\* Whoever has ever connected stays in reach.
LEMMA ReachedStep ==
  ASSUME TypeOK, CommandsInv, NumbersInv, SocketsInv, Notifiable, [Next]_vars
  PROVE  Notifiable'
<1>0. HandlersOK /\ RedisOK /\ OthersOK /\ ScalarsOK
  BY TypeParts
<1> SUFFICES ASSUME NEW u \in User, newest'[u] > 0
             PROVE  Reached(u)'
  BY DEF Notifiable, Reached
<1> DEFINE key == <<"token", u>>
<1>a. newest[u] > 0 => Reached(u)
  BY DEF Notifiable, Reached
<1>b. \A h \in Handlers(u) : h \in DOMAIN handler /\ h[1] = u
  BY DEF Handlers
<1>c. key \in Keys
  BY TokenKeys
<1>1. ASSUME NEW w \in User, Connect(w)
      PROVE  Reached(u)'
  <2> DEFINE n == <<w, newest[w] + 1>>
  <2>1. /\ handler' = With(n, "joining", place[w], JoinCommands(w))
        /\ UNCHANGED <<redis, active>>
        /\ newest' = [newest EXCEPT ![w] = newest[w] + 1]
    BY <1>1 DEF Connect
  <2>2. CASE w = u
    <3>1. n \in Handlers(u)' /\ handler'[n].phase = "joining"
      BY <2>1, <2>2 DEF Handlers, With
    <3>2. QED
      BY <3>1 DEF Reached
  <2>3. CASE w # u
    <3>1. Handlers(u)' = Handlers(u) /\ \A h \in Handlers(u) : handler'[h] = handler[h]
      BY <1>b, <2>1, <2>3 DEF Handlers, With
    <3>2. newest'[u] = newest[u]
      BY <1>0, <2>1, <2>3 DEF ScalarsOK
    <3>3. QED
      BY <1>a, <2>1, <3>1, <3>2 DEF Reached
  <2>4. QED
    BY <2>2, <2>3
<1>2. ASSUME NEW h \in Sockets, Register(h)
      PROVE  Reached(u)'
  <2>1. /\ handler' = With(h, "serving", handler[h].place, <<>>)
        /\ h \in DOMAIN handler /\ handler[h].todo = <<>>
        /\ active' = active \cup {h[1]}
        /\ UNCHANGED <<redis, newest>>
    BY <1>2 DEF Register, socketVars
  <2>2. CASE h[1] = u
    <3>1. h \in Handlers(u)' /\ handler'[h].phase = "serving"
      BY <2>1, <2>2 DEF Handlers, With
    <3>2. QED
      BY <2>1, <2>2, <3>1 DEF Reached
  <2>3. CASE h[1] # u
    <3>1. Handlers(u)' = Handlers(u) /\ \A g \in Handlers(u) : handler'[g] = handler[g]
      BY <1>b, <2>1, <2>3 DEF Handlers, With
    <3>2. QED
      BY <1>a, <2>1, <3>1 DEF Reached
  <2>4. QED
    BY <2>2, <2>3
<1>3. ASSUME NEW h \in Sockets, Disconnect(h)
      PROVE  Reached(u)'
  <2> DEFINE todo == LeaveCommands(h[1], handler[h].place)
  <2>1. /\ handler' = With(h, "leaving", handler[h].place, todo)
        /\ h \in DOMAIN handler /\ h[1] \in User /\ handler[h].place \in Place
        /\ active' = active \ {h[1]}
        /\ UNCHANGED <<redis, newest>>
    BY <1>0, <1>3, SocketType DEF Disconnect, Serving, socketVars, HandlersOK
  <2>2. Issues(todo, <<"token", h[1]>>, h[1])
    BY <2>1, LeaveType
  <2> HIDE DEF todo
  <2>3. CASE h[1] = u
    <3>1. h \in Handlers(u)' /\ handler'[h].todo = todo
      BY <2>1, <2>3 DEF Handlers, With
    <3>2. QED
      BY <2>2, <2>3, <3>1 DEF Reached
  <2>4. CASE h[1] # u
    <3>1. Handlers(u)' = Handlers(u) /\ \A g \in Handlers(u) : handler'[g] = handler[g]
      BY <1>b, <2>1, <2>4 DEF Handlers, With
    <3>2. QED
      BY <1>a, <2>1, <2>4, <3>1 DEF Reached
  <2>5. QED
    BY <2>3, <2>4
<1>4. ASSUME NEW h \in Sockets, HandlerRuns(h)
      PROVE  Reached(u)'
  <2> DEFINE s == handler[h].todo
             c == Head(s)
             S == HandlerCommand(h[1], handler[h].phase, handler[h].place)
  <2>1. /\ h \in DOMAIN handler /\ s \in Seq(S) /\ s # <<>> /\ c \in S /\ c \in Command
        /\ Issue(c)
        /\ UNCHANGED <<newest, active>>
    BY <1>0, <1>4, HeadTail, CommandSets DEF HandlerRuns, HandlersOK, socketVars
  <2>2. /\ \A g \in Handlers(u) : g # h => g \in Handlers(u)' /\ handler'[g] = handler[g]
        /\ handler[h].phase # "leaving" \/ Len(s) # 1 =>
             h \in DOMAIN handler' /\ handler'[h].phase = handler[h].phase /\ handler'[h].todo = Tail(s)
    BY <1>0, <1>4, <2>1 DEF HandlerRuns, WithoutHandler, Handlers, HandlersOK
  <2>3. redis'[key] = IF key = c.key THEN (redis[key] \ c.minus) \cup c.plus ELSE redis[key]
    BY <1>0, <1>c, <2>1, IssueValue
  <2>4. c.key = key => h[1] = u /\ handler[h].phase # "serving" /\ c.plus = IF handler[h].phase = "leaving" THEN {u} ELSE {}
    <3>1. key[1] = "token" /\ key[2] = u
      OBVIOUS
    <3> HIDE DEF key
    <3>2. QED
      BY <2>1, <3>1 DEF HandlerCommand
  <2>5. Reached(u)
    BY <1>a, <2>1
  <2> HIDE DEF c, S, key
  <2>6. CASE u \in active /\ \E g \in Handlers(u) : handler[g].phase = "serving"
    <3>1. PICK g \in Handlers(u) : handler[g].phase = "serving"
      BY <2>6
    <3>2. g \in Handlers(u)' /\ handler'[g].phase = "serving"
      BY <1>b, <2>2, <3>1 DEF Handlers
    <3>3. QED
      BY <2>1, <2>6, <3>2 DEF Reached
  <2>7. CASE \E g \in Handlers(u) : handler[g].phase = "joining"
    <3>1. PICK g \in Handlers(u) : handler[g].phase = "joining"
      BY <2>7
    <3>2. g \in Handlers(u)' /\ handler'[g].phase = "joining"
      BY <1>b, <2>2, <3>1 DEF Handlers
    <3>3. QED
      BY <3>2 DEF Reached
  <2>8. CASE c.key = key
    <3>1. h \in Handlers(u) /\ handler[h].phase \in {"joining", "serving", "leaving"}
      BY <1>0, <2>1, <2>4, <2>8 DEF Handlers, HandlersOK
    <3>2. CASE handler[h].phase = "leaving"
      BY <2>3, <2>4, <2>8, <3>2 DEF Reached, key
    <3>3. CASE handler[h].phase = "joining"
      BY <2>7, <3>1, <3>3
    <3>4. QED
      BY <2>4, <2>8, <3>1, <3>2, <3>3
  <2>9. CASE redis[key] # {} /\ c.key # key
    BY <2>3, <2>9 DEF Reached, key
  <2>10. CASE c.key # key /\ \E g \in Handlers(u) : Issues(handler[g].todo, key, u)
    <3>1. PICK g \in Handlers(u) : Issues(handler[g].todo, key, u)
      BY <2>10
    <3>2. CASE g # h
      BY <2>2, <3>1, <3>2 DEF Reached, key
    <3>3. CASE g = h
      <4>1. Issues(Tail(s), key, u)
        BY <2>1, <2>10, <3>1, <3>3, IssuesHead DEF c
      <4>2. Len(s) # 1
        BY <2>1, <4>1, HeadTail DEF Issues
      <4>3. h \in Handlers(u)' /\ handler'[h].todo = Tail(s)
        BY <1>b, <2>2, <3>3, <4>2 DEF Handlers
      <4>4. QED
        BY <4>1, <4>3 DEF Reached, key
    <3>4. QED
      BY <3>2, <3>3
  <2>11. QED
    BY <2>5, <2>6, <2>7, <2>8, <2>9, <2>10 DEF Reached, key
<1>5. ASSUME NEW h \in Sockets, NEW v \in User, CreateChat(h, v) \/ DeclineChat(h, v)
      PROVE  Reached(u)'
  <2>1. /\ h \in DOMAIN handler /\ handler[h].todo = <<>>
        /\ \E todo : handler' = [handler EXCEPT ![h].todo = todo]
        /\ UNCHANGED <<newest, active, redis>>
    BY <1>5 DEF CreateChat, DeclineChat, Serving, socketVars
  <2>2. \A g \in Handlers(u) : /\ g \in Handlers(u)' /\ handler'[g].phase = handler[g].phase
                               /\ g # h => handler'[g] = handler[g]
    BY <1>0, <2>1 DEF Handlers, HandlersOK
  <2>3. \A g \in Handlers(u) : Issues(handler[g].todo, key, u) => g # h
    BY <2>1, IssuesNonempty
  <2>4. QED
    BY <1>a, <2>1, <2>2, <2>3 DEF Reached
<1>6. ASSUME NEW w \in User, RequestRuns(w)
      PROVE  Reached(u)'
  <2> DEFINE c == Head(request[w])
  <2>1. /\ Issue(c) /\ c \in Command /\ c \in RequestCommand(w)
        /\ UNCHANGED <<handler, active, newest>>
    BY <1>0, <1>6, HeadTail, CommandSets DEF RequestRuns, OthersOK, socketVars
  <2> HIDE DEF c
  <2>2. redis'[key] = redis[key]
    BY <1>0, <1>c, <2>1, IssueValue, TokenKeys
  <2>3. QED
    BY <1>a, <2>1, <2>2 DEF Reached, Handlers
<1>7. ASSUME SweepRuns
      PROVE  Reached(u)'
  <2> DEFINE c == Head(sweep.todo)
  <2>1. /\ Issue(c) /\ c \in Command /\ c \in SweepCommand
        /\ UNCHANGED <<handler, active, newest>>
    BY <1>0, <1>7, HeadTail, CommandSets DEF SweepRuns, OthersOK, socketVars
  <2> HIDE DEF c
  <2>2. redis'[key] = redis[key]
    BY <1>0, <1>c, <2>1, IssueValue, TokenKeys
  <2>3. QED
    BY <1>a, <2>1, <2>2 DEF Reached, Handlers
<1>8. CASE UNCHANGED <<handler, active, newest, redis>>
  BY <1>a, <1>8 DEF Reached, Handlers
<1>9. QED
  BY <1>1, <1>2, <1>3, <1>4, <1>5, <1>6, <1>7, <1>8
     DEF Next, vars, Drop, Block, PatchUser, RecordAges, SweepVisits, SweepStarts, socketVars

\* A user who is not connected can be notified, for any number of users, websockets
\* and reconnections, those before the last close is noticed included: whichever
\* coroutine takes the token away goes on to register the user, and whichever takes
\* him from the connection manager goes on to put the token back, so that whatever
\* order they run in he is registered, or has a token, or one of them has not ended.
THEOREM Notified == Spec => []Notifiable
<1> DEFINE Inv == TypeOK /\ CommandsInv /\ NumbersInv /\ SocketsInv /\ Notifiable
<1>1. Init => Inv
  <2>1. Init => NumbersInv /\ SocketsInv /\ Notifiable
    BY DEF Init, NumbersInv, SocketsInv, Notifiable, Handlers
  <2>2. QED
    BY <2>1, TypeInit
<1>2. Inv /\ [Next]_vars => Inv'
  BY TypeStep, NumbersStep, SocketsStep, ReachedStep
<1>3. QED
  BY <1>1, <1>2, PTL DEF Spec

===============================================================================
