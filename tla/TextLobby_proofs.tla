---------------------------- MODULE TextLobby_proofs ----------------------------
(***************************************************************************)
(* Proofs about TextLobby: type correctness, that registrations go with    *)
(* their websockets, that whoever is there is reached, that messages are   *)
(* stored where they belong and only after an accept, and that what has    *)
(* been said in a chat is in it, for any number of users, websockets,      *)
(* messages and failures.                                                  *)
(***************************************************************************)
EXTENDS TextLobby, FiniteSetTheorems, TLAPS

-------------------------------------------------------------------------------
(* Data *)

\* Put changes the keys of a set, Removed takes them away, and both leave the rest alone.
LEMMA PutRemoved ==
  ASSUME NEW d, NEW S, NEW x
  PROVE  /\ DOMAIN Put(d, S, x) = DOMAIN d \cup S
         /\ \A k \in S : Put(d, S, x)[k] = x
         /\ \A k \in DOMAIN d \ S : Put(d, S, x)[k] = d[k]
         /\ DOMAIN Removed(d, S) = DOMAIN d \ S
         /\ \A k \in DOMAIN d \ S : Removed(d, S)[k] = d[k]
BY DEF Put, Removed

\* A websocket is named by its user and a number.
LEMMA SocketNames ==
  /\ \A u, k : <<u, k>> \in Sockets <=> u \in User /\ k \in 1..MaxOpens[u]
  /\ \A h \in Sockets : h = <<h[1], h[2]>> /\ h[1] \in User /\ h[2] \in 1..MaxOpens[h[1]] /\ h[2] \in Nat
  /\ Direct \notin Sockets
  /\ \A k : <<Direct, k>> \notin Sockets
  /\ Sockets \subseteq ChatIds
  /\ \A k \in 1..MaxMessages : <<Direct, k>> \in ChatIds
<1>1. \A u \in User : MaxOpens[u] \in Nat
  BY TextLobbyAssumption
<1>2. \A h : h \in Sockets <=> \E u \in User : \E k \in 1..MaxOpens[u] : h = <<u, k>>
  BY DEF Sockets
<1>3. \A u \in User : \A k \in 1..MaxOpens[u] : k \in Nat
  BY <1>1
<1>4. QED
  BY <1>1, <1>2, <1>3, TextLobbyAssumption DEF ChatIds

\* What is said is added at the end, and what was said before stays.
LEMMA Says ==
  ASSUME NEW e \in Utterance, said \in Seq(Utterance), said' = Append(said, e)
  PROVE  /\ said' \in Seq(Utterance)
         /\ Len(said) \in Nat /\ Len(said') = Len(said) + 1
         /\ 1..Len(said') = (1..Len(said)) \cup {Len(said) + 1}
         /\ Len(said) + 1 \notin 1..Len(said)
         /\ \A m \in 1..Len(said) : said'[m] = said[m]
         /\ said'[Len(said) + 1] = e
OBVIOUS

\* A message is posted to the chat of its pair, and no other message is touched.
LEMMA PostedHome ==
  ASSUME NEW table, NEW S, S \subseteq Nat
  PROVE  /\ DOMAIN stored \subseteq DOMAIN Posted(table, S)
         /\ \A m \in DOMAIN stored : Posted(table, S)[m] = stored[m]
         /\ \A m \in DOMAIN Posted(table, S) \ DOMAIN stored :
              m \in S /\ Posted(table, S)[m] \in Between(table, {said'[m].from, said'[m].to})
<1> DEFINE Home(m) == Between(table, {said'[m].from, said'[m].to})
           Fine == {m \in S : \A n \in S : n <= m => /\ Cardinality(Home(n)) = 1
                                                     /\ n \notin DOMAIN stored}
<1>1. Posted(table, S) = [m \in DOMAIN stored \cup Fine |->
                            IF m \in Fine THEN CHOOSE c \in Home(m) : TRUE ELSE stored[m]]
  BY DEF Posted
<1>2. \A m \in Fine : m \in S /\ Cardinality(Home(m)) = 1 /\ m \notin DOMAIN stored
  <2> HIDE DEF Home
  <2>1. \A m \in S : m <= m
    OBVIOUS
  <2>2. QED
    BY <2>1
<1> HIDE DEF Fine
<1>3. \A m \in Fine : (CHOOSE c \in Home(m) : TRUE) \in Home(m)
  <2>1. \A m \in Fine : Home(m) # {}
    BY <1>2, FS_EmptySet
  <2> HIDE DEF Home
  <2>2. QED
    BY <2>1
<1>4. QED
  BY <1>1, <1>2, <1>3

\* Messages whose pair has one chat all go there.
LEMMA PostedAll ==
  ASSUME NEW table, NEW S, S \subseteq Nat, S \cap DOMAIN stored = {}, NEW c,
         \A m \in S : Between(table, {said'[m].from, said'[m].to}) = {c}
  PROVE  S \subseteq DOMAIN Posted(table, S) /\ \A m \in S : Posted(table, S)[m] = c
<1> DEFINE Home(m) == Between(table, {said'[m].from, said'[m].to})
           Fine == {m \in S : \A n \in S : n <= m => /\ Cardinality(Home(n)) = 1
                                                     /\ n \notin DOMAIN stored}
<1>1. Posted(table, S) = [m \in DOMAIN stored \cup Fine |->
                            IF m \in Fine THEN CHOOSE x \in Home(m) : TRUE ELSE stored[m]]
  BY DEF Posted
<1>2. \A m \in S : Home(m) = {c}
  OBVIOUS
<1>3. Fine = S
  <2>1. Cardinality({c}) = 1
    BY FS_Singleton
  <2>2. QED
    BY <1>2, <2>1
<1>4. (CHOOSE x \in {c} : TRUE) = c
  OBVIOUS
<1> HIDE DEF Fine, Home
<1>5. QED
  BY <1>1, <1>2, <1>3, <1>4

-------------------------------------------------------------------------------
(* What the steps do to the tables *)

\* The tables grow, by messages of S and by chat c.
Grows(S, c) ==
  /\ DOMAIN chats \subseteq DOMAIN chats' /\ DOMAIN chats' \subseteq DOMAIN chats \cup {c}
  /\ \A d \in DOMAIN chats : chats'[d] = chats[d]
  /\ DOMAIN stored \subseteq DOMAIN stored'
  /\ \A m \in DOMAIN stored : stored'[m] = stored[m]
  /\ \A m \in DOMAIN stored' \ DOMAIN stored :
       m \in S /\ stored'[m] \in Between(chats', {said'[m].from, said'[m].to})

\* Creating a chat does that; if it is not there afterwards it has been refused.
LEMMA Creates ==
  ASSUME NEW c, NEW a, NEW b, NEW S, S \subseteq Nat, Create(c, a, b, S)
  PROVE  /\ Grows(S, c)
         /\ c \in DOMAIN chats' \ DOMAIN chats =>
              chats'[c] = [initiator |-> a, other |-> b] /\ stored' = Posted(chats', S)
         /\ refused' \in {refused, refused \cup {c}}
         /\ c \in DOMAIN chats' \cup refused'
         /\ c \notin DOMAIN chats' => refused' = refused \cup {c}
<1> DEFINE row == [initiator |-> a, other |-> b]
<1>1. CASE Creatable(c, row)
  <2>1. chats' = Put(chats, {c}, row) /\ stored' = Posted(chats', S) /\ refused' = refused
    BY <1>1 DEF Create
  <2>2. c \notin DOMAIN chats
    BY <1>1 DEF Creatable
  <2>3. /\ DOMAIN chats' = DOMAIN chats \cup {c}
        /\ \A d \in DOMAIN chats : chats'[d] = chats[d]
        /\ chats'[c] = row
    BY <2>1, <2>2 DEF Put
  <2>4. /\ DOMAIN stored \subseteq DOMAIN stored'
        /\ \A m \in DOMAIN stored : stored'[m] = stored[m]
        /\ \A m \in DOMAIN stored' \ DOMAIN stored :
             m \in S /\ stored'[m] \in Between(chats', {said'[m].from, said'[m].to})
    <3>1. /\ DOMAIN stored \subseteq DOMAIN Posted(chats', S)
          /\ \A m \in DOMAIN stored : Posted(chats', S)[m] = stored[m]
          /\ \A m \in DOMAIN Posted(chats', S) \ DOMAIN stored :
               m \in S /\ Posted(chats', S)[m] \in Between(chats', {said'[m].from, said'[m].to})
      BY PostedHome
    <3>2. QED
      BY <2>1, <3>1
  <2>5. QED
    BY <2>1, <2>2, <2>3, <2>4 DEF Grows
<1>2. CASE ~Creatable(c, row)
  BY <1>2 DEF Create, Grows
<1>3. QED
  BY <1>1, <1>2

\* So does posting a message, or keeping it in the lobby.
LEMMA Posts ==
  ASSUME NEW m \in Nat, NEW c, chats' = chats, stored' \in {stored, Posted(chats, {m})}
  PROVE  Grows({m}, c)
<1>1. /\ DOMAIN stored \subseteq DOMAIN stored'
      /\ \A n \in DOMAIN stored : stored'[n] = stored[n]
      /\ \A n \in DOMAIN stored' \ DOMAIN stored :
           n \in {m} /\ stored'[n] \in Between(chats, {said'[n].from, said'[n].to})
  <2>1. CASE stored' = stored
    BY <2>1
  <2>2. CASE stored' = Posted(chats, {m})
    BY <2>2, PostedHome
  <2>3. QED
    BY <2>1, <2>2
<1>2. QED
  BY <1>1 DEF Grows

\* What becomes of the tables in every step: nothing; a message is said and posted
\* or kept; a chat is created; a chat is declined.
Quiet == UNCHANGED <<said, chats, stored, blocked, refused>>
Spoken(e) ==
  /\ e \in Utterance /\ Len(said) < MaxMessages /\ said' = Append(said, e)
  /\ chats' = chats /\ stored' \in {stored, Posted(chats, {Len(said) + 1})}
  /\ UNCHANGED <<blocked, refused>>

LEMMA TableSteps ==
  ASSUME TypeOK, [Next]_vars
  PROVE  \/ Quiet
         \/ \E h \in DOMAIN sockets : Say(h) /\ Spoken([from |-> h[1], to |-> sockets[h].other, chat |-> sockets[h].chat])
         \/ \E u, v \in User : Write(u, v) /\ Spoken([from |-> u, to |-> v, chat |-> Direct])
         \/ \E h \in DOMAIN sockets : Accept(h)
         \/ \E u, v \in User : WriteFirst(u, v)
         \/ \E u \in User, c \in ChatIds : Decline(u, c)
<1>1. ASSUME NEW h \in Sockets, Say(h)
      PROVE  h \in DOMAIN sockets /\ Spoken([from |-> h[1], to |-> sockets[h].other, chat |-> sockets[h].chat])
  <2>1. h \in DOMAIN sockets
    BY <1>1 DEF Say, Speaks
  <2>2. [from |-> h[1], to |-> sockets[h].other, chat |-> sockets[h].chat] \in Utterance
    <3>1. sockets[h] \in Registration /\ h[1] \in User
      BY <2>1, SocketNames DEF TypeOK, LobbyOK
    <3>2. QED
      BY <3>1 DEF Registration, Utterance
  <2>3. stored' \in {stored, Posted(chats, {Len(said) + 1})}
    BY <1>1 DEF Say
  <2>4. QED
    BY <1>1, <2>1, <2>2, <2>3 DEF Say, Uttered, Spoken
<1>2. ASSUME NEW u \in User, NEW v \in User, Write(u, v)
      PROVE  Spoken([from |-> u, to |-> v, chat |-> Direct])
  <2>1. [from |-> u, to |-> v, chat |-> Direct] \in Utterance
    BY DEF Utterance
  <2>2. said' = Append(said, [from |-> u, to |-> v, chat |-> Direct]) /\ Len(said) < MaxMessages
    BY <1>2 DEF Write, Uttered
  <2>3. Len(said') = Len(said) + 1
    BY <2>1, <2>2, Says DEF TypeOK
  <2>4. QED
    BY <1>2, <2>1, <2>2, <2>3 DEF Write, Spoken
<1>3. \A h \in Sockets : Accept(h) => h \in DOMAIN sockets
  BY DEF Accept, Speaks
<1>4. \A u, v \in User : HostChat(u, v) \/ JoinChat(u, v) \/ JoinFails(u, v) => Quiet
  BY DEF HostChat, JoinChat, JoinFails, Opens, Quiet, database
<1>5. \A u \in User : Leave(u) => Quiet
  BY DEF Leave, Quiet, database
<1>6. \A h \in Sockets : Disconnect(h) \/ AcceptEmpty(h) \/ AcceptLost(h) => Quiet
  BY DEF Disconnect, AcceptEmpty, AcceptLost, Quiet, database
<1>7. UNCHANGED vars => Quiet
  BY DEF vars, Quiet
<1>8. QED
  BY <1>1, <1>2, <1>3, <1>4, <1>5, <1>6, <1>7 DEF Next

-------------------------------------------------------------------------------
(* Types *)

\* At the start nothing is there.
LEMMA TypeInit == Init => TypeOK
<1> SUFFICES ASSUME Init PROVE TypeOK
  OBVIOUS
<1>1. /\ newest \in [User -> Nat] /\ \A u \in User : newest[u] <= MaxOpens[u]
  BY TextLobbyAssumption DEF Init
<1>2. LobbyOK
  BY <1>1 DEF Init, LobbyOK
<1>3. TablesOK
  BY DEF Init, TablesOK
<1>4. said \in Seq(Utterance) /\ Len(said) <= MaxMessages /\ failures \in 0..MaxFailures
  BY TextLobbyAssumption DEF Init
<1>5. QED
  BY <1>2, <1>3, <1>4 DEF TypeOK

\* What grows stays well-typed.
LEMMA GrowsType ==
  ASSUME TypeOK, NEW S, NEW c \in ChatIds, Grows(S, c),
         1..Len(said) \subseteq 1..Len(said'), S \subseteq 1..Len(said'),
         c \in DOMAIN chats' \ DOMAIN chats => chats'[c] \in [initiator : User, other : User],
         blocked' = blocked, refused' \subseteq refused \cup {c}
  PROVE  TablesOK'
<1>1. DOMAIN chats' \subseteq ChatIds /\ \A d \in DOMAIN chats' : chats'[d] \in [initiator : User, other : User]
  BY DEF TypeOK, TablesOK, Grows
<1>2. DOMAIN stored' \subseteq 1..Len(said')
  BY DEF TypeOK, TablesOK, Grows
<1>3. \A m \in DOMAIN stored' : stored'[m] \in DOMAIN chats'
  BY DEF TypeOK, TablesOK, Grows, Between
<1>4. QED
  BY <1>1, <1>2, <1>3 DEF TypeOK, TablesOK

\* What is said is kept in order, as far as the bound allows.
LEMMA SaidType ==
  ASSUME TypeOK, NEW e \in Utterance, Len(said) < MaxMessages, said' = Append(said, e)
  PROVE  /\ said' \in Seq(Utterance) /\ Len(said') <= MaxMessages
         /\ Len(said') = Len(said) + 1 /\ Len(said) \in Nat
         /\ 1..Len(said) \subseteq 1..Len(said')
         /\ Len(said) + 1 \in 1..Len(said') /\ Len(said) + 1 \in 1..MaxMessages
         /\ Len(said) + 1 \notin 1..Len(said)
         /\ \A m \in 1..Len(said) : said'[m] = said[m]
         /\ said'[Len(said) + 1] = e
         /\ 1..Len(said') = (1..Len(said)) \cup {Len(said) + 1}
<1>1. said \in Seq(Utterance) /\ MaxMessages \in Nat
  BY TextLobbyAssumption DEF TypeOK
<1>2. QED
  BY <1>1, Says

\* The chat that is accepted, and the messages it is created with.
LEMMA Accepts ==
  ASSUME TypeOK, NEW h \in DOMAIN sockets, Accept(h)
  PROVE  /\ sockets[h].chat \in DOMAIN temp /\ sockets[h].chat \in Sockets
         /\ h[1] \in User /\ sockets[h].other \in User
         /\ temp[sockets[h].chat].messages \subseteq 1..Len(said)
         /\ temp[sockets[h].chat].messages \subseteq Nat
         /\ Create(sockets[h].chat, sockets[h].other, h[1], temp[sockets[h].chat].messages)
         /\ said' = said /\ blocked' = blocked
<1>1. sockets[h] \in Registration /\ h \in Sockets
  BY DEF TypeOK, LobbyOK
<1>2. sockets[h].chat \in DOMAIN temp
  BY DEF Accept, Speaks
<1>3. temp[sockets[h].chat].messages \subseteq 1..Len(said)
  BY <1>2 DEF TypeOK, LobbyOK
<1>4. h[1] \in User
  BY <1>1, SocketNames
<1>5. QED
  BY <1>1, <1>2, <1>3, <1>4 DEF Accept, Registration

\* The chat somebody opens with a message.
LEMMA WritesFirst ==
  ASSUME TypeOK, NEW u \in User, NEW v \in User, WriteFirst(u, v)
  PROVE  /\ [from |-> u, to |-> v, chat |-> Direct] \in Utterance
         /\ said' = Append(said, [from |-> u, to |-> v, chat |-> Direct])
         /\ Len(said) < MaxMessages
         /\ <<Direct, Len(said')>> \in ChatIds /\ <<Direct, Len(said')>> \notin Sockets
         /\ Len(said') \in Nat
         /\ Create(<<Direct, Len(said')>>, u, v, {Len(said')})
         /\ blocked' = blocked
<1>1. [from |-> u, to |-> v, chat |-> Direct] \in Utterance
  BY DEF Utterance
<1>2. said' = Append(said, [from |-> u, to |-> v, chat |-> Direct]) /\ Len(said) < MaxMessages
  BY DEF WriteFirst, Uttered
<1>3. Len(said') \in 1..MaxMessages /\ Len(said') \in Nat
  BY <1>1, <1>2, SaidType
<1>4. QED
  BY <1>1, <1>2, <1>3, SocketNames DEF WriteFirst

\* A chat that is declined goes with its messages.
LEMMA Declines ==
  ASSUME NEW u, NEW c, Decline(u, c)
  PROVE  /\ DOMAIN chats' = DOMAIN chats \ {c}
         /\ \A d \in DOMAIN chats' : chats'[d] = chats[d]
         /\ DOMAIN stored' = DOMAIN stored \ {m \in DOMAIN stored : stored[m] = c}
         /\ \A m \in DOMAIN stored' : stored'[m] = stored[m]
         /\ said' = said /\ refused' = refused
         /\ blocked' = blocked \cup {{chats[c].initiator, chats[c].other}}
         /\ UNCHANGED lobbyVars
BY DEF Decline, Removed

\* Every step keeps the tables well-typed.
LEMMA TablesType ==
  ASSUME TypeOK, [Next]_vars
  PROVE  said' \in Seq(Utterance) /\ Len(said') <= MaxMessages /\ TablesOK'
         /\ 1..Len(said) \subseteq 1..Len(said')
         /\ \A m \in 1..Len(said) : said'[m] = said[m]
<1>1. CASE Quiet
  BY <1>1 DEF TypeOK, TablesOK, Quiet
<1>2. ASSUME NEW e, Spoken(e)
      PROVE  said' \in Seq(Utterance) /\ Len(said') <= MaxMessages /\ TablesOK'
             /\ 1..Len(said) \subseteq 1..Len(said')
             /\ \A m \in 1..Len(said) : said'[m] = said[m]
  <2> DEFINE m == Len(said) + 1
  <2>1. said' \in Seq(Utterance) /\ Len(said') <= MaxMessages /\ m \in Nat
        /\ 1..Len(said) \subseteq 1..Len(said') /\ m \in 1..Len(said')
        /\ \A n \in 1..Len(said) : said'[n] = said[n]
    BY <1>2, SaidType DEF Spoken
  <2>2. CASE stored' = stored
    BY <1>2, <2>1, <2>2 DEF TypeOK, TablesOK, Spoken
  <2>3. CASE stored' = Posted(chats, {m})
    <3>1. Grows({m}, m)
      BY <1>2, <2>1, <2>3, Posts DEF Spoken
    <3>2. chats' = chats /\ blocked' = blocked /\ refused' = refused
      BY <1>2 DEF Spoken
    <3>3. DOMAIN stored' \subseteq 1..Len(said') /\ \A n \in DOMAIN stored' : stored'[n] \in DOMAIN chats
      BY <2>1, <3>1, <3>2 DEF TypeOK, TablesOK, Grows, Between
    <3>4. QED
      BY <2>1, <3>2, <3>3 DEF TypeOK, TablesOK
  <2>4. QED
    BY <1>2, <2>2, <2>3 DEF Spoken
<1>3. ASSUME NEW h \in DOMAIN sockets, Accept(h)
      PROVE  said' = said /\ TablesOK'
  <2> DEFINE c == sockets[h].chat
             S == temp[c].messages
  <2>1. /\ Create(c, sockets[h].other, h[1], S) /\ S \subseteq Nat /\ S \subseteq 1..Len(said)
        /\ c \in Sockets /\ h[1] \in User /\ sockets[h].other \in User
        /\ said' = said /\ blocked' = blocked
    BY <1>3, Accepts
  <2>2. c \in ChatIds
    BY <2>1, SocketNames
  <2> DEFINE a == sockets[h].other
             b == h[1]
  <2> HIDE DEF c, S, a, b
  <2>3. /\ Grows(S, c) /\ refused' \in {refused, refused \cup {c}}
        /\ c \in DOMAIN chats' \ DOMAIN chats => chats'[c] = [initiator |-> a, other |-> b]
    <3>1. Create(c, a, b, S) /\ S \subseteq Nat
      BY <2>1 DEF a, b
    <3>2. QED
      BY <3>1, Creates
  <2>4. [initiator |-> a, other |-> b] \in [initiator : User, other : User]
    BY <2>1 DEF a, b
  <2>5. QED
    BY <2>1, <2>2, <2>3, <2>4, GrowsType
<1>4. ASSUME NEW u \in User, NEW v \in User, WriteFirst(u, v)
      PROVE  said' \in Seq(Utterance) /\ Len(said') <= MaxMessages /\ TablesOK'
             /\ 1..Len(said) \subseteq 1..Len(said')
             /\ \A n \in 1..Len(said) : said'[n] = said[n]
  <2> DEFINE c == <<Direct, Len(said')>>
             S == {Len(said')}
  <2>1. /\ Create(c, u, v, S) /\ S \subseteq Nat
        /\ c \in ChatIds /\ blocked' = blocked
    BY <1>4, WritesFirst
  <2>2. said' \in Seq(Utterance) /\ Len(said') <= MaxMessages
        /\ 1..Len(said) \subseteq 1..Len(said') /\ S \subseteq 1..Len(said')
        /\ \A n \in 1..Len(said) : said'[n] = said[n]
    BY <1>4, WritesFirst, SaidType
  <2> DEFINE row == [initiator |-> u, other |-> v]
  <2>3. row \in [initiator : User, other : User]
    OBVIOUS
  <2> HIDE DEF c, S, row
  <2>4. /\ Grows(S, c) /\ refused' \subseteq refused \cup {c}
        /\ c \in DOMAIN chats' \ DOMAIN chats => chats'[c] = row
    BY <2>1, Creates DEF row
  <2>5. QED
    BY <2>1, <2>2, <2>3, <2>4, GrowsType
<1>5. ASSUME NEW u \in User, NEW c \in ChatIds, Decline(u, c)
      PROVE  said' = said /\ TablesOK'
  <2>1. /\ DOMAIN chats' = DOMAIN chats \ {c}
        /\ \A d \in DOMAIN chats' : chats'[d] = chats[d]
        /\ said' = said /\ refused' = refused
    BY <1>5, Declines
  <2>2. /\ DOMAIN stored' = DOMAIN stored \ {m \in DOMAIN stored : stored[m] = c}
        /\ \A m \in DOMAIN stored' : stored'[m] = stored[m]
    BY <1>5 DEF Decline, Removed
  <2>3. blocked' \in SUBSET (SUBSET User)
    <3>1. chats[c] \in [initiator : User, other : User]
      BY <1>5 DEF Decline, TypeOK, TablesOK
    <3>2. {chats[c].initiator, chats[c].other} \subseteq User
      BY <3>1
    <3>3. QED
      BY <1>5, <3>2 DEF Decline, TypeOK, TablesOK
  <2>4. QED
    BY <2>1, <2>2, <2>3 DEF TypeOK, TablesOK
<1>6. QED
  BY <1>1, <1>2, <1>3, <1>4, <1>5, TableSteps DEF TypeOK, Spoken

\* A websocket that is opened gets the next number of its user.
LEMMA OpensSocket ==
  ASSUME TypeOK, NEW u \in User, NEW v \in User, Opens(u, v)
  PROVE  /\ <<u, newest[u] + 1>> \in Sockets
         /\ newest' \in [User -> Nat]
         /\ \A w \in User : newest'[w] <= MaxOpens[w] /\ newest[w] <= newest'[w]
         /\ newest'[u] = newest[u] + 1 /\ newest[u] \in Nat
         /\ \A w \in User \ {u} : newest'[w] = newest[w]
         /\ DOMAIN active' = DOMAIN active \cup {u}
         /\ active'[u] = newest'[u]
         /\ \A w \in DOMAIN active \ {u} : active'[w] = active[w]
         /\ DOMAIN active' \subseteq User
         /\ \A w \in DOMAIN active' : active'[w] \in 1..newest'[w]
         /\ said' = said /\ failures' = failures /\ u # v
<1>1. newest \in [User -> Nat] /\ newest[u] < MaxOpens[u] /\ MaxOpens[u] \in Nat
  BY TextLobbyAssumption DEF Opens, TypeOK, LobbyOK
<1>2. newest[u] + 1 \in 1..MaxOpens[u]
  BY <1>1
<1>3. u # v
  BY TextLobbyAssumption DEF Opens
<1>4. newest' \in [User -> Nat] /\ newest'[u] = newest[u] + 1 /\ \A w \in User \ {u} : newest'[w] = newest[w]
  BY <1>1 DEF Opens
<1>5. \A w \in User : newest[w] \in Nat /\ newest[w] <= MaxOpens[w]
  BY <1>1 DEF TypeOK, LobbyOK
<1>6. \A w \in User : newest'[w] <= MaxOpens[w] /\ newest[w] <= newest'[w]
  BY <1>1, <1>4, <1>5
<1>7. /\ DOMAIN active' = DOMAIN active \cup {u} /\ active'[u] = newest'[u]
      /\ \A w \in DOMAIN active \ {u} : active'[w] = active[w]
  BY <1>4 DEF Opens, Put
<1>8. /\ DOMAIN active' \subseteq User
      /\ \A w \in DOMAIN active' : active'[w] \in 1..newest'[w]
  <2>1. DOMAIN active \subseteq User /\ \A w \in DOMAIN active : active[w] \in 1..newest[w]
    BY DEF TypeOK, LobbyOK
  <2>2. newest[u] \in Nat
    BY <1>1
  <2>3. QED
    BY <1>4, <1>7, <2>1, <2>2
<1>9. QED
  BY <1>1, <1>2, <1>3, <1>4, <1>6, <1>7, <1>8, SocketNames DEF Opens

\* What the two who meet are registered with, and the temporary chat.
LEMMA Hosts ==
  ASSUME TypeOK, NEW u \in User, NEW v \in User, HostChat(u, v)
  PROVE  LET h == <<u, newest[u] + 1>>
         IN /\ DOMAIN clients' = DOMAIN clients \cup {u, v}
            /\ clients'[u] = [other |-> v, chat |-> h]
            /\ clients'[v] = [other |-> u, chat |-> h]
            /\ \A w \in DOMAIN clients \ {u, v} : clients'[w] = clients[w]
            /\ DOMAIN temp' = DOMAIN temp \cup {h}
            /\ temp'[h] = [saved |-> FALSE, messages |-> {}]
            /\ \A c \in DOMAIN temp \ {h} : temp'[c] = temp[c]
            /\ DOMAIN sockets' = DOMAIN sockets \cup {h}
            /\ sockets'[h] = [other |-> v, chat |-> h]
            /\ \A g \in DOMAIN sockets \ {h} : sockets'[g] = sockets[g]
<1> DEFINE h == <<u, newest[u] + 1>>
<1> HIDE DEF h
<1>1. u # v
  BY OpensSocket DEF HostChat
<1>2. /\ clients' = [Put(clients, {u, v}, [other |-> v, chat |-> h]) EXCEPT ![v].other = u]
      /\ temp' = Put(temp, {h}, [saved |-> FALSE, messages |-> {}])
      /\ sockets' = Put(sockets, {h}, [other |-> v, chat |-> h])
  BY DEF HostChat, h
<1>3. /\ DOMAIN clients' = DOMAIN clients \cup {u, v}
      /\ clients'[u] = [other |-> v, chat |-> h]
      /\ clients'[v] = [other |-> u, chat |-> h]
      /\ \A w \in DOMAIN clients \ {u, v} : clients'[w] = clients[w]
  BY <1>1, <1>2 DEF Put
<1>4. /\ DOMAIN temp' = DOMAIN temp \cup {h}
      /\ temp'[h] = [saved |-> FALSE, messages |-> {}]
      /\ \A c \in DOMAIN temp \ {h} : temp'[c] = temp[c]
  BY <1>2 DEF Put
<1>5. /\ DOMAIN sockets' = DOMAIN sockets \cup {h}
      /\ sockets'[h] = [other |-> v, chat |-> h]
      /\ \A g \in DOMAIN sockets \ {h} : sockets'[g] = sockets[g]
  BY <1>2 DEF Put
<1>6. QED
  BY <1>3, <1>4, <1>5 DEF h

\* What goes with a websocket.
LEMMA Disconnects ==
  ASSUME NEW h, Disconnect(h)
  PROVE  /\ h \in DOMAIN sockets
         /\ DOMAIN clients' = DOMAIN clients \ {h[1], sockets[h].other}
         /\ \A w \in DOMAIN clients' : clients'[w] = clients[w]
         /\ DOMAIN temp' = DOMAIN temp \ {sockets[h].chat}
         /\ \A c \in DOMAIN temp' : temp'[c] = temp[c]
         /\ DOMAIN sockets' = DOMAIN sockets \ {h}
         /\ \A g \in DOMAIN sockets' : sockets'[g] = sockets[g]
         /\ UNCHANGED <<newest, attached, active, said, database, failures>>
BY DEF Disconnect, Removed

\* Of the lobby's state, all but the temporary chat stays as it is in a payload, and
\* of that, the others.
LEMMA Payloads ==
  ASSUME TypeOK, NEW h, Say(h) \/ Accept(h) \/ AcceptEmpty(h) \/ AcceptLost(h)
  PROVE  /\ UNCHANGED <<newest, attached, sockets, active, clients>>
         /\ h \in DOMAIN sockets /\ sockets[h].chat \in DOMAIN temp
         /\ DOMAIN temp' = DOMAIN temp
         /\ \A c \in DOMAIN temp \ {sockets[h].chat} : temp'[c] = temp[c]
         /\ \/ temp'[sockets[h].chat] = temp[sockets[h].chat]
            \/ temp'[sockets[h].chat] =
                 [saved |-> TRUE, messages |-> temp[sockets[h].chat].messages]
            \/ /\ ~temp[sockets[h].chat].saved
               /\ temp'[sockets[h].chat] =
                    [saved |-> FALSE, messages |-> temp[sockets[h].chat].messages \cup {Len(said) + 1}]
<1> DEFINE c == sockets[h].chat
<1>1. h \in DOMAIN sockets /\ c \in DOMAIN temp
  BY DEF Say, Accept, AcceptEmpty, AcceptLost, Speaks
<1>2. temp[c] \in [saved : BOOLEAN, messages : SUBSET (1..Len(said))]
  BY <1>1 DEF TypeOK, LobbyOK
<1>3. CASE Accept(h) \/ AcceptEmpty(h) \/ AcceptLost(h)
  <2>1. temp' = [temp EXCEPT ![c].saved = TRUE] /\ UNCHANGED <<newest, attached, sockets, active, clients>>
    BY <1>3 DEF Accept, AcceptEmpty, AcceptLost, Saved
  <2> HIDE DEF c
  <2>2. /\ DOMAIN temp' = DOMAIN temp
        /\ \A d \in DOMAIN temp \ {c} : temp'[d] = temp[d]
        /\ temp'[c] = [saved |-> TRUE, messages |-> temp[c].messages]
    BY <1>1, <1>2, <2>1
  <2>3. QED
    BY <1>1, <2>1, <2>2 DEF c
<1>4. CASE Say(h)
  <2>1. UNCHANGED <<newest, attached, sockets, active, clients>>
    BY <1>4 DEF Say
  <2>2. \/ temp' = temp
        \/ ~temp[c].saved /\ temp' = [temp EXCEPT ![c].messages = @ \cup {Len(said) + 1}]
    BY <1>4 DEF Say
  <2> HIDE DEF c
  <2>3. /\ DOMAIN temp' = DOMAIN temp
        /\ \A d \in DOMAIN temp \ {c} : temp'[d] = temp[d]
        /\ \/ temp'[c] = temp[c]
           \/ /\ ~temp[c].saved
              /\ temp'[c] = [saved |-> FALSE, messages |-> temp[c].messages \cup {Len(said) + 1}]
    BY <1>1, <1>2, <2>2
  <2>4. QED
    BY <1>1, <2>1, <2>3 DEF c
<1>5. QED
  BY <1>3, <1>4

\* What a step does in the lobby.
LEMMA LobbySteps ==
  ASSUME [Next]_vars
  PROVE  \/ \E u, v \in User : HostChat(u, v) \/ JoinChat(u, v) \/ JoinFails(u, v)
         \/ \E u \in User : Leave(u)
         \/ \E h \in Sockets : Disconnect(h)
         \/ \E h \in Sockets : Say(h) \/ Accept(h) \/ AcceptEmpty(h) \/ AcceptLost(h)
         \/ UNCHANGED lobbyVars
BY DEF Next, WriteFirst, Write, Decline, vars, lobbyVars

\* Every step keeps the lobby well-typed.
LEMMA LobbyType ==
  ASSUME TypeOK, [Next]_vars
  PROVE  LobbyOK'
<1>s. 1..Len(said) \subseteq 1..Len(said')
  BY TablesType
<1> DEFINE Kept(S) == [saved : BOOLEAN, messages : SUBSET (1..S)]
<1>k. Kept(Len(said)) \subseteq Kept(Len(said'))
  BY <1>s
<1>1. ASSUME NEW u \in User, NEW v \in User, HostChat(u, v) PROVE LobbyOK'
  <2> DEFINE h == <<u, newest[u] + 1>>
  <2>1. /\ h \in Sockets /\ newest' \in [User -> Nat] /\ said' = said
        /\ \A w \in User : newest'[w] <= MaxOpens[w]
        /\ DOMAIN active' \subseteq User /\ \A w \in DOMAIN active' : active'[w] \in 1..newest'[w]
    BY <1>1, OpensSocket DEF HostChat
  <2>2. attached' \in SUBSET User
    BY <1>1 DEF HostChat, TypeOK, LobbyOK
  <2> HIDE DEF h
  <2>3. /\ [other |-> v, chat |-> h] \in Registration /\ [other |-> u, chat |-> h] \in Registration
        /\ [saved |-> FALSE, messages |-> {}] \in [saved : BOOLEAN, messages : SUBSET (1..Len(said'))]
    BY <2>1 DEF Registration
  <2>4. /\ DOMAIN clients' = DOMAIN clients \cup {u, v}
        /\ clients'[u] = [other |-> v, chat |-> h]
        /\ clients'[v] = [other |-> u, chat |-> h]
        /\ \A w \in DOMAIN clients \ {u, v} : clients'[w] = clients[w]
        /\ DOMAIN temp' = DOMAIN temp \cup {h}
        /\ temp'[h] = [saved |-> FALSE, messages |-> {}]
        /\ \A c \in DOMAIN temp \ {h} : temp'[c] = temp[c]
        /\ DOMAIN sockets' = DOMAIN sockets \cup {h}
        /\ sockets'[h] = [other |-> v, chat |-> h]
        /\ \A g \in DOMAIN sockets \ {h} : sockets'[g] = sockets[g]
    BY <1>1, Hosts DEF h
  <2>5. DOMAIN clients' \subseteq User /\ \A w \in DOMAIN clients' : clients'[w] \in Registration
    BY <2>3, <2>4 DEF TypeOK, LobbyOK
  <2>6. /\ DOMAIN temp' \subseteq Sockets
        /\ \A c \in DOMAIN temp' : temp'[c] \in [saved : BOOLEAN, messages : SUBSET (1..Len(said'))]
    BY <2>1, <2>3, <2>4 DEF TypeOK, LobbyOK
  <2>7. DOMAIN sockets' \subseteq Sockets /\ \A g \in DOMAIN sockets' : sockets'[g] \in Registration
    BY <2>1, <2>3, <2>4 DEF TypeOK, LobbyOK
  <2>8. QED
    BY <2>1, <2>2, <2>5, <2>6, <2>7 DEF LobbyOK
<1>2. ASSUME NEW u \in User, NEW v \in User, JoinChat(u, v) PROVE LobbyOK'
  <2> DEFINE h == <<u, newest[u] + 1>>
  <2>1. /\ h \in Sockets /\ newest' \in [User -> Nat] /\ said' = said
        /\ \A w \in User : newest'[w] <= MaxOpens[w]
        /\ DOMAIN active' \subseteq User /\ \A w \in DOMAIN active' : active'[w] \in 1..newest'[w]
    BY <1>2, OpensSocket DEF JoinChat
  <2>2. attached' \in SUBSET User /\ clients' = clients /\ temp' = temp
    BY <1>2 DEF JoinChat, TypeOK, LobbyOK
  <2>3. u \in DOMAIN clients /\ sockets' = Put(sockets, {h}, [other |-> v, chat |-> clients[u].chat])
    BY <1>2 DEF JoinChat
  <2>4. [other |-> v, chat |-> clients[u].chat] \in Registration
    BY <2>3 DEF Registration, TypeOK, LobbyOK
  <2> HIDE DEF h
  <2>5. DOMAIN sockets' \subseteq Sockets /\ \A g \in DOMAIN sockets' : sockets'[g] \in Registration
    BY <2>1, <2>3, <2>4 DEF Put, TypeOK, LobbyOK
  <2>6. QED
    BY <2>1, <2>2, <2>5 DEF LobbyOK, TypeOK
<1>3. ASSUME NEW u \in User, NEW v \in User, JoinFails(u, v) PROVE LobbyOK'
  <2>1. /\ newest' \in [User -> Nat] /\ said' = said /\ \A w \in User : newest'[w] <= MaxOpens[w]
        /\ DOMAIN active' \subseteq User /\ \A w \in DOMAIN active' : active'[w] \in 1..newest'[w]
    BY <1>3, OpensSocket DEF JoinFails
  <2>2. QED
    BY <1>3, <2>1 DEF JoinFails, LobbyOK, TypeOK
<1>4. ASSUME NEW u \in User, Leave(u) PROVE LobbyOK'
  BY <1>4 DEF Leave, LobbyOK, TypeOK
<1>5. ASSUME NEW h \in Sockets, Disconnect(h) PROVE LobbyOK'
  BY <1>5, Disconnects DEF LobbyOK, TypeOK
<1>6. ASSUME NEW h \in Sockets, Say(h) \/ Accept(h) \/ AcceptEmpty(h) \/ AcceptLost(h) PROVE LobbyOK'
  <2> DEFINE c == sockets[h].chat
  <2>1. /\ UNCHANGED <<newest, attached, sockets, active, clients>> /\ DOMAIN temp' = DOMAIN temp
        /\ c \in DOMAIN temp /\ \A d \in DOMAIN temp \ {c} : temp'[d] = temp[d]
    BY <1>6, Payloads
  <2>2. temp[c] \in Kept(Len(said)) /\ \A d \in DOMAIN temp : temp[d] \in Kept(Len(said))
    BY <2>1 DEF TypeOK, LobbyOK
  <2>3. temp'[c] \in Kept(Len(said'))
    <3>1. CASE temp'[c] = temp[c]
      BY <1>k, <2>2, <3>1
    <3>2. CASE temp'[c] = [saved |-> TRUE, messages |-> temp[c].messages]
      BY <1>s, <2>2, <3>2
    <3>3. CASE /\ ~temp[c].saved
               /\ temp'[c] = [saved |-> FALSE, messages |-> temp[c].messages \cup {Len(said) + 1}]
      <4>1. Say(h)
        <5>1. temp[c].messages \subseteq 1..Len(said) /\ Len(said) \in Nat
          BY <2>2 DEF TypeOK
        <5>2. temp'[c].saved = FALSE
          BY <3>3
        <5>3. CASE Accept(h) \/ AcceptEmpty(h) \/ AcceptLost(h)
          <6>1. temp' = [temp EXCEPT ![c].saved = TRUE]
            BY <5>3 DEF Accept, AcceptEmpty, AcceptLost, Saved
          <6>2. temp'[c].saved = TRUE
            BY <2>1, <2>2, <6>1
          <6>3. QED
            BY <5>2, <6>2
        <5>4. QED
          BY <1>6, <5>3
      <4>2. Len(said) + 1 \in 1..Len(said')
        <5>1. [from |-> h[1], to |-> sockets[h].other, chat |-> c] \in Utterance
          <6>1. sockets[h] \in Registration /\ h[1] \in User
            BY <4>1, SocketNames DEF Say, Speaks, TypeOK, LobbyOK
          <6>2. QED
            BY <6>1 DEF Registration, Utterance
        <5>2. QED
          BY <4>1, <5>1, SaidType DEF Say, Uttered
      <4>3. temp[c].messages \cup {Len(said) + 1} \subseteq 1..Len(said')
        BY <1>s, <2>2, <4>2
      <4>4. QED
        BY <3>3, <4>3
    <3>4. QED
      BY <1>6, <3>1, <3>2, <3>3, Payloads
  <2>4. \A d \in DOMAIN temp' : temp'[d] \in Kept(Len(said'))
    BY <1>k, <2>1, <2>2, <2>3
  <2>5. QED
    BY <2>1, <2>4 DEF LobbyOK, TypeOK
<1>7. CASE UNCHANGED lobbyVars
  <2>1. \A d \in DOMAIN temp' : temp'[d] \in Kept(Len(said'))
    BY <1>k, <1>7 DEF lobbyVars, LobbyOK, TypeOK
  <2>2. QED
    BY <1>7, <2>1 DEF lobbyVars, LobbyOK, TypeOK
<1>8. QED
  BY <1>1, <1>2, <1>3, <1>4, <1>5, <1>6, <1>7, LobbySteps

\* Every step keeps the types.
LEMMA TypeStep == TypeOK /\ [Next]_vars => TypeOK'
<1> SUFFICES ASSUME TypeOK, [Next]_vars PROVE TypeOK'
  OBVIOUS
<1>1. failures' = failures \/ (failures < MaxFailures /\ failures' = failures + 1)
  BY DEF Next, vars, HostChat, JoinChat, JoinFails, Opens, Leave, Disconnect, Say, Accept, AcceptEmpty,
         AcceptLost, WriteFirst, Write, Decline
<1>2. failures' \in 0..MaxFailures
  BY <1>1, TextLobbyAssumption DEF TypeOK
<1>3. QED
  BY <1>2, TablesType, LobbyType DEF TypeOK

\* Type correctness for any number of users, websockets and messages.
THEOREM TypeCorrect == Spec => []TypeOK
<1>1. QED
  BY TypeInit, TypeStep, PTL DEF Spec

-------------------------------------------------------------------------------
(* Names: nothing is known of a websocket before it is opened *)

\* Numbers only grow.
LEMMA NewestGrows ==
  ASSUME TypeOK, [Next]_vars
  PROVE  \A u \in User : newest[u] \in Nat /\ newest'[u] \in Nat /\ newest[u] <= newest'[u]
<1>1. newest \in [User -> Nat] /\ newest' \in [User -> Nat]
  BY TypeStep DEF TypeOK, LobbyOK
<1>2. CASE \E u, v \in User : HostChat(u, v) \/ JoinChat(u, v) \/ JoinFails(u, v)
  <2>1. PICK u \in User, v \in User : Opens(u, v)
    BY <1>2 DEF HostChat, JoinChat, JoinFails
  <2>2. QED
    BY <1>1, <2>1, OpensSocket
<1>3. CASE newest' = newest
  BY <1>1, <1>3
<1>4. QED
  BY <1>2, <1>3, LobbySteps, Payloads DEF Leave, Disconnect, lobbyVars

\* A message that is new comes from somebody in a temporary chat, or from none.
LEMMA NewMessage ==
  ASSUME TypeOK, [Next]_vars, NEW m \in 1..Len(said')
  PROVE  \/ m \in 1..Len(said) /\ said'[m] = said[m]
         \/ /\ m = Len(said) + 1
            /\ \/ said'[m].chat = Direct
               \/ \E h \in DOMAIN sockets : /\ Say(h)
                                            /\ sockets[h].chat \in DOMAIN temp
                                            /\ said'[m].chat = sockets[h].chat
<1>1. CASE said' = said
  BY <1>1
<1>2. ASSUME NEW h \in DOMAIN sockets, Say(h),
             Spoken([from |-> h[1], to |-> sockets[h].other, chat |-> sockets[h].chat])
      PROVE  \/ m \in 1..Len(said) /\ said'[m] = said[m]
             \/ m = Len(said) + 1 /\ sockets[h].chat \in DOMAIN temp /\ said'[m].chat = sockets[h].chat
  <2> DEFINE e == [from |-> h[1], to |-> sockets[h].other, chat |-> sockets[h].chat]
  <2>1. e.chat = sockets[h].chat /\ sockets[h].chat \in DOMAIN temp
    BY <1>2 DEF Say, Speaks
  <2>2. Spoken(e)
    BY <1>2
  <2> HIDE DEF e
  <2>3. QED
    BY <2>1, <2>2, SaidType DEF Spoken
<1>3. ASSUME NEW u \in User, NEW v \in User,
             said' = Append(said, [from |-> u, to |-> v, chat |-> Direct]), Len(said) < MaxMessages
      PROVE  \/ m \in 1..Len(said) /\ said'[m] = said[m]
             \/ m = Len(said) + 1 /\ said'[m].chat = Direct
  <2> DEFINE e == [from |-> u, to |-> v, chat |-> Direct]
  <2>1. e \in Utterance /\ e.chat = Direct /\ said' = Append(said, e)
    BY <1>3 DEF Utterance
  <2> HIDE DEF e
  <2>2. QED
    BY <1>3, <2>1, SaidType
<1>4. \A h \in DOMAIN sockets : Accept(h) => said' = said
  BY Accepts
<1>5. \A u \in User, c \in ChatIds : Decline(u, c) => said' = said
  BY Declines
<1>6. \A u, v \in User : WriteFirst(u, v) =>
        said' = Append(said, [from |-> u, to |-> v, chat |-> Direct]) /\ Len(said) < MaxMessages
  BY WritesFirst
<1>7. QED
  BY <1>1, <1>2, <1>3, <1>4, <1>5, <1>6, TableSteps DEF Quiet, Spoken

\* A chat with the name of a websocket that is new, or newly refused, is one that was
\* accepted.
LEMMA NewChat ==
  ASSUME TypeOK, [Next]_vars, NEW c \in Sockets, c \in DOMAIN chats' \cup refused'
  PROVE  \/ c \in DOMAIN chats /\ c \in DOMAIN chats'
         \/ c \in refused
         \/ \E h \in DOMAIN sockets : Accept(h) /\ c = sockets[h].chat /\ c \in DOMAIN temp
<1>1. CASE chats' = chats /\ refused' = refused
  BY <1>1
<1>2. ASSUME NEW h \in DOMAIN sockets, Accept(h)
      PROVE  /\ DOMAIN chats' \subseteq DOMAIN chats \cup {sockets[h].chat}
             /\ DOMAIN chats \subseteq DOMAIN chats'
             /\ refused' \subseteq refused \cup {sockets[h].chat}
             /\ sockets[h].chat \in DOMAIN temp
  <2> DEFINE d == sockets[h].chat
             S == temp[d].messages
             a == sockets[h].other
             b == h[1]
  <2>1. Create(d, a, b, S) /\ S \subseteq Nat /\ d \in DOMAIN temp
    BY <1>2, Accepts
  <2> HIDE DEF d, S, a, b
  <2>2. Grows(S, d) /\ refused' \in {refused, refused \cup {d}}
    BY <2>1, Creates
  <2>3. QED
    BY <2>1, <2>2 DEF Grows, d
<1>3. ASSUME NEW u \in User, NEW v \in User, WriteFirst(u, v)
      PROVE  (c \in DOMAIN chats /\ c \in DOMAIN chats') \/ c \in refused
  <2> DEFINE d == <<Direct, Len(said')>>
             S == {Len(said')}
  <2>1. Create(d, u, v, S) /\ S \subseteq Nat /\ d \notin Sockets
    BY <1>3, WritesFirst
  <2> HIDE DEF d, S
  <2>2. Grows(S, d) /\ refused' \in {refused, refused \cup {d}}
    BY <2>1, Creates
  <2>3. QED
    BY <2>1, <2>2 DEF Grows
<1>4. ASSUME NEW u \in User, NEW d \in ChatIds, Decline(u, d)
      PROVE  (c \in DOMAIN chats /\ c \in DOMAIN chats') \/ c \in refused
  BY <1>4, Declines
<1>5. QED
  BY <1>1, <1>2, <1>3, <1>4, TableSteps DEF Quiet, Spoken

\* A temporary chat that is kept is that of an open websocket.
LEMMA HostsStep ==
  ASSUME TypeOK, NumbersInv, HostsInv, [Next]_vars
  PROVE  HostsInv'
<1>1. ASSUME NEW u \in User, NEW v \in User, HostChat(u, v) PROVE HostsInv'
  <2> DEFINE h == <<u, newest[u] + 1>>
  <2>1. h \notin DOMAIN sockets
    <3>1. newest[u] \in Nat /\ h[1] = u /\ h[2] = newest[u] + 1
      BY DEF TypeOK, LobbyOK
    <3>2. h \in DOMAIN sockets => h[2] <= newest[h[1]]
      BY DEF NumbersInv
    <3>3. QED
      BY <3>1, <3>2
  <2> HIDE DEF h
  <2>2. /\ DOMAIN temp' = DOMAIN temp \cup {h}
        /\ DOMAIN sockets' = DOMAIN sockets \cup {h}
        /\ sockets'[h] = [other |-> v, chat |-> h]
        /\ \A g \in DOMAIN sockets \ {h} : sockets'[g] = sockets[g]
    BY <1>1, Hosts DEF h
  <2>3. QED
    BY <2>1, <2>2 DEF HostsInv
<1>2. ASSUME NEW u \in User, NEW v \in User, JoinChat(u, v) PROVE HostsInv'
  <2> DEFINE h == <<u, newest[u] + 1>>
  <2>1. h \notin DOMAIN sockets
    <3>1. newest[u] \in Nat /\ h[1] = u /\ h[2] = newest[u] + 1
      BY DEF TypeOK, LobbyOK
    <3>2. h \in DOMAIN sockets => h[2] <= newest[h[1]]
      BY DEF NumbersInv
    <3>3. QED
      BY <3>1, <3>2
  <2>2. temp' = temp /\ sockets' = Put(sockets, {h}, [other |-> v, chat |-> clients[u].chat])
    BY <1>2 DEF JoinChat
  <2> HIDE DEF h
  <2>3. QED
    BY <2>1, <2>2 DEF HostsInv, Put
<1>3. ASSUME NEW h \in Sockets, Disconnect(h) PROVE HostsInv'
  BY <1>3, Disconnects DEF HostsInv
<1>4. ASSUME NEW h \in Sockets, Say(h) \/ Accept(h) \/ AcceptEmpty(h) \/ AcceptLost(h) PROVE HostsInv'
  BY <1>4, Payloads DEF HostsInv
<1>5. CASE UNCHANGED <<sockets, temp>>
  BY <1>5 DEF HostsInv
<1>6. QED
  BY <1>1, <1>2, <1>3, <1>4, <1>5, LobbySteps DEF JoinFails, Leave, lobbyVars

\* Numbers stay below the newest.
LEMMA NumbersStep ==
  ASSUME TypeOK, NumbersInv, HostsInv, [Next]_vars
  PROVE  NumbersInv'
<1>1. \A u \in User : newest[u] \in Nat /\ newest'[u] \in Nat /\ newest[u] <= newest'[u]
  BY NewestGrows
<1>2. ASSUME NEW c \in Sockets, c[2] <= newest[c[1]] PROVE c[2] <= newest'[c[1]]
  BY <1>1, <1>2, SocketNames
<1>3. \A h \in DOMAIN temp : h \in Sockets /\ h[2] <= newest[h[1]]
  BY DEF HostsInv, NumbersInv, TypeOK, LobbyOK
<1>4. \A h \in DOMAIN sockets' : h[2] <= newest'[h[1]]
  <2>1. ASSUME NEW u \in User, NEW v \in User, HostChat(u, v) \/ JoinChat(u, v)
        PROVE  \A h \in DOMAIN sockets' : h[2] <= newest'[h[1]]
    <3> DEFINE g == <<u, newest[u] + 1>>
    <3>1. DOMAIN sockets' = DOMAIN sockets \cup {g}
      <4>1. \/ sockets' = Put(sockets, {g}, [other |-> v, chat |-> g])
            \/ sockets' = Put(sockets, {g}, [other |-> v, chat |-> clients[u].chat])
        BY <2>1 DEF HostChat, JoinChat
      <4> HIDE DEF g
      <4>2. QED
        BY <4>1 DEF Put
    <3>2. g[1] = u /\ g[2] <= newest'[u]
      <4>1. Opens(u, v)
        BY <2>1 DEF HostChat, JoinChat
      <4>2. newest'[u] = newest[u] + 1 /\ newest[u] \in Nat
        BY <4>1, OpensSocket
      <4>3. QED
        BY <4>2
    <3> HIDE DEF g
    <3>3. QED
      BY <1>2, <3>1, <3>2 DEF NumbersInv, TypeOK, LobbyOK
  <2>2. CASE DOMAIN sockets' \subseteq DOMAIN sockets
    BY <1>2, <2>2 DEF NumbersInv, TypeOK, LobbyOK
  <2>3. QED
    BY <2>1, <2>2, LobbySteps, Disconnects, Payloads DEF JoinFails, Leave, lobbyVars
<1>5. \A m \in 1..Len(said') : said'[m].chat # Direct => said'[m].chat[2] <= newest'[said'[m].chat[1]]
  <2> SUFFICES ASSUME NEW m \in 1..Len(said'), said'[m].chat # Direct
               PROVE  said'[m].chat[2] <= newest'[said'[m].chat[1]]
    OBVIOUS
  <2>1. CASE m \in 1..Len(said) /\ said'[m] = said[m]
    <3>1. said[m] \in Utterance
      BY <2>1 DEF TypeOK
    <3>2. said[m].chat \in Sockets
      BY <2>1, <3>1 DEF Utterance
    <3>3. QED
      BY <1>2, <2>1, <3>2 DEF NumbersInv
  <2>2. CASE said'[m].chat \in DOMAIN temp
    BY <1>2, <1>3, <2>2
  <2>3. QED
    BY <2>1, <2>2, NewMessage
<1>6. \A c \in (DOMAIN chats' \cup refused') \cap Sockets : c[2] <= newest'[c[1]]
  <2>1. \A c \in (DOMAIN chats' \cup refused') \cap Sockets : c \in DOMAIN chats \cup refused \/ c \in DOMAIN temp
    BY NewChat
  <2>2. QED
    BY <1>2, <1>3, <2>1 DEF NumbersInv
<1>7. QED
  BY <1>4, <1>5, <1>6 DEF NumbersInv

-------------------------------------------------------------------------------
(* Registrations *)

\* A registration lasts as long as the websocket it was made by.
LEMMA RegistrationsStep ==
  ASSUME TypeOK, NumbersInv, HostsInv, RegistrationsGo, [Next]_vars
  PROVE  RegistrationsGo'
<1> DEFINE Held(w) == /\ clients[w].chat \in DOMAIN sockets
                      /\ {clients[w].chat[1], sockets[clients[w].chat].other} = {w, clients[w].other}
           Holds(w) == /\ clients'[w].chat \in DOMAIN sockets'
                       /\ {clients'[w].chat[1], sockets'[clients'[w].chat].other} = {w, clients'[w].other}
<1>1. \A w \in DOMAIN clients : Held(w)
  BY DEF RegistrationsGo
<1>2. \A u \in User : <<u, newest[u] + 1>> \notin DOMAIN sockets
  <2> SUFFICES ASSUME NEW u \in User, <<u, newest[u] + 1>> \in DOMAIN sockets PROVE FALSE
    OBVIOUS
  <2>1. newest[u] \in Nat /\ <<u, newest[u] + 1>>[1] = u /\ <<u, newest[u] + 1>>[2] = newest[u] + 1
    BY DEF TypeOK, LobbyOK
  <2>2. <<u, newest[u] + 1>>[2] <= newest[<<u, newest[u] + 1>>[1]]
    BY DEF NumbersInv
  <2>3. QED
    BY <2>1, <2>2
<1>3. ASSUME NEW u \in User, NEW v \in User, HostChat(u, v)
      PROVE  \A w \in DOMAIN clients' : Holds(w)
  <2> DEFINE h == <<u, newest[u] + 1>>
  <2>1. h \notin DOMAIN sockets /\ h[1] = u
    BY <1>2
  <2> HIDE DEF h
  <2>2. /\ DOMAIN clients' = DOMAIN clients \cup {u, v}
        /\ clients'[u] = [other |-> v, chat |-> h]
        /\ clients'[v] = [other |-> u, chat |-> h]
        /\ \A w \in DOMAIN clients \ {u, v} : clients'[w] = clients[w]
        /\ DOMAIN sockets' = DOMAIN sockets \cup {h}
        /\ sockets'[h] = [other |-> v, chat |-> h]
        /\ \A g \in DOMAIN sockets \ {h} : sockets'[g] = sockets[g]
    BY <1>3, Hosts DEF h
  <2>3. Holds(u) /\ Holds(v)
    BY <2>1, <2>2
  <2>4. ASSUME NEW w \in DOMAIN clients \ {u, v} PROVE Holds(w)
    BY <1>1, <2>1, <2>2
  <2>5. QED
    BY <2>2, <2>3, <2>4
<1>4. ASSUME NEW u \in User, NEW v \in User, JoinChat(u, v)
      PROVE  \A w \in DOMAIN clients' : Holds(w)
  <2> DEFINE h == <<u, newest[u] + 1>>
  <2>1. clients' = clients /\ sockets' = Put(sockets, {h}, [other |-> v, chat |-> clients[u].chat])
    BY <1>4 DEF JoinChat
  <2>2. h \notin DOMAIN sockets
    BY <1>2
  <2> HIDE DEF h
  <2>3. /\ DOMAIN sockets \subseteq DOMAIN sockets'
        /\ \A g \in DOMAIN sockets : sockets'[g] = sockets[g]
    BY <2>1, <2>2 DEF Put
  <2>4. QED
    BY <1>1, <2>1, <2>3
<1>5. ASSUME NEW h \in Sockets, Disconnect(h)
      PROVE  \A w \in DOMAIN clients' : Holds(w)
  <2>1. /\ DOMAIN clients' = DOMAIN clients \ {h[1], sockets[h].other}
        /\ \A w \in DOMAIN clients' : clients'[w] = clients[w]
        /\ DOMAIN sockets' = DOMAIN sockets \ {h}
        /\ \A g \in DOMAIN sockets' : sockets'[g] = sockets[g]
    BY <1>5, Disconnects
  <2>2. \A w \in DOMAIN clients' : clients[w].chat # h
    BY <1>1, <2>1
  <2>3. QED
    BY <1>1, <2>1, <2>2
<1>6. ASSUME UNCHANGED <<clients, sockets>>
      PROVE  \A w \in DOMAIN clients' : Holds(w)
  BY <1>1, <1>6
<1>7. \A w \in DOMAIN clients' : Holds(w)
  <2>1. CASE \E u, v \in User : HostChat(u, v) \/ JoinChat(u, v)
    BY <1>3, <1>4, <2>1
  <2>2. CASE \E h \in Sockets : Disconnect(h)
    BY <1>5, <2>2
  <2>3. CASE UNCHANGED <<clients, sockets>>
    BY <1>6, <2>3
  <2>4. QED
    BY <2>1, <2>2, <2>3, LobbySteps, Payloads DEF JoinFails, Leave, lobbyVars
<1>8. QED
  BY <1>7, HostsStep DEF RegistrationsGo, HostsInv

\* A registration, and a temporary chat, go with the websockets they are about, whoever
\* connects in whatever order and whoever is let into somebody else's chat.
THEOREM RegistrationsWent == Spec => []RegistrationsGo
<1> DEFINE Inv == TypeOK /\ NumbersInv /\ HostsInv /\ RegistrationsGo
<1>1. Init => Inv
  <2>1. Init => NumbersInv /\ HostsInv /\ RegistrationsGo
    BY DEF Init, NumbersInv, HostsInv, RegistrationsGo
  <2>2. QED
    BY <2>1, TypeInit
<1>2. Inv /\ [Next]_vars => Inv'
  BY TypeStep, NumbersStep, HostsStep, RegistrationsStep
<1>3. Inv => RegistrationsGo
  OBVIOUS
<1>4. QED
  BY <1>1, <1>2, <1>3, PTL DEF Spec

-------------------------------------------------------------------------------
(* Who is reached *)

\* A websocket is registered before it is used, and no handler takes it back.
LEMMA OpenStep ==
  ASSUME TypeOK, OpenIsReached, [Next]_vars
  PROVE  OpenIsReached'
<1>1. ASSUME NEW u \in User, NEW v \in User, HostChat(u, v) \/ JoinChat(u, v) \/ JoinFails(u, v)
      PROVE  OpenIsReached'
  <2>1. Opens(u, v) /\ u \notin attached
    BY <1>1 DEF HostChat, JoinChat, JoinFails, Opens
  <2>2. attached' \subseteq attached \cup {u} /\ attached \subseteq User
    BY <1>1 DEF HostChat, JoinChat, JoinFails, TypeOK, LobbyOK
  <2>3. /\ DOMAIN active' = DOMAIN active \cup {u} /\ active'[u] = newest'[u]
        /\ \A w \in DOMAIN active \ {u} : active'[w] = active[w]
        /\ \A w \in User \ {u} : newest'[w] = newest[w]
    BY <2>1, OpensSocket
  <2>4. QED
    BY <2>2, <2>3 DEF OpenIsReached
<1>2. ASSUME NEW u \in User, Leave(u) PROVE OpenIsReached'
  BY <1>2 DEF Leave, OpenIsReached
<1>3. ASSUME NEW h \in Sockets, Disconnect(h) PROVE OpenIsReached'
  BY <1>3, Disconnects DEF OpenIsReached
<1>4. ASSUME NEW h \in Sockets, Say(h) \/ Accept(h) \/ AcceptEmpty(h) \/ AcceptLost(h)
      PROVE  OpenIsReached'
  BY <1>4, Payloads DEF OpenIsReached
<1>5. CASE UNCHANGED lobbyVars
  BY <1>5 DEF lobbyVars, OpenIsReached
<1>6. QED
  BY <1>1, <1>2, <1>3, <1>4, <1>5, LobbySteps

\* Whoever has a websocket open is reached by it, however the end of an earlier one of
\* his is noticed.
THEOREM OpenReached == Spec => []OpenIsReached
<1>1. Init => OpenIsReached
  BY DEF Init, OpenIsReached
<1>2. TypeOK /\ OpenIsReached /\ [Next]_vars => OpenIsReached'
  BY OpenStep
<1>3. QED
  BY <1>1, <1>2, TypeCorrect, PTL DEF Spec

-------------------------------------------------------------------------------
(* What is stored *)

\* A message that is stored was there with its chat, or it goes to a chat of its pair:
\* as one of those the chat is created with, as one that is said in a chat that is
\* saved, or as one that is said in none.
LEMMA NewStored ==
  ASSUME TypeOK, [Next]_vars, NEW m \in DOMAIN stored'
  PROVE  \/ /\ m \in DOMAIN stored /\ stored'[m] = stored[m]
            /\ chats'[stored[m]] = chats[stored[m]]
            /\ m \in 1..Len(said) /\ said'[m] = said[m]
         \/ /\ m \notin DOMAIN stored
            /\ stored'[m] \in Between(chats', {said'[m].from, said'[m].to})
            /\ \/ \E h \in DOMAIN sockets :
                    Accept(h) /\ sockets[h].chat \in DOMAIN temp /\ m \in temp[sockets[h].chat].messages
               \/ \E h \in DOMAIN sockets :
                    /\ Say(h) /\ sockets[h].chat \in DOMAIN temp /\ temp[sockets[h].chat].saved
                    /\ m = Len(said) + 1
               \/ said'[m].chat = Direct
<1> DEFINE Old == /\ m \in DOMAIN stored /\ stored'[m] = stored[m]
                  /\ chats'[stored[m]] = chats[stored[m]]
                  /\ m \in 1..Len(said) /\ said'[m] = said[m]
           New(S) == /\ m \notin DOMAIN stored
                     /\ stored'[m] \in Between(chats', {said'[m].from, said'[m].to})
                     /\ m \in S
<1>1. \A n \in DOMAIN stored : n \in 1..Len(said) /\ stored[n] \in DOMAIN chats /\ said'[n] = said[n]
  BY TablesType DEF TypeOK, TablesOK
<1>2. ASSUME NEW S, NEW c, Grows(S, c) PROVE Old \/ New(S)
  BY <1>1, <1>2 DEF Grows
<1>3. CASE Quiet
  BY <1>1, <1>3 DEF Quiet
<1>4. ASSUME NEW e, Spoken(e) PROVE (Old \/ New({Len(said) + 1})) /\ said'[Len(said) + 1] = e
  <2>1. Len(said) + 1 \in Nat /\ said'[Len(said) + 1] = e
    BY <1>4, SaidType DEF Spoken
  <2>2. Grows({Len(said) + 1}, 0)
    BY <1>4, <2>1, Posts DEF Spoken
  <2>3. QED
    BY <1>2, <2>1, <2>2
<1>5. ASSUME NEW h \in DOMAIN sockets, Say(h),
             Spoken([from |-> h[1], to |-> sockets[h].other, chat |-> sockets[h].chat])
      PROVE  \/ Old
             \/ /\ New({Len(said) + 1})
                /\ sockets[h].chat \in DOMAIN temp /\ temp[sockets[h].chat].saved
  <2>1. Old \/ New({Len(said) + 1})
    BY <1>4, <1>5
  <2>2. sockets[h].chat \in DOMAIN temp /\ (temp[sockets[h].chat].saved \/ stored' = stored)
    BY <1>5 DEF Say, Speaks
  <2>3. QED
    BY <2>1, <2>2
<1>6. ASSUME NEW u \in User, NEW v \in User,
             Spoken([from |-> u, to |-> v, chat |-> Direct])
      PROVE  Old \/ (New({Len(said) + 1}) /\ said'[m].chat = Direct)
  <2> DEFINE e == [from |-> u, to |-> v, chat |-> Direct]
  <2>1. e.chat = Direct /\ Spoken(e)
    BY <1>6
  <2> HIDE DEF e
  <2>2. QED
    BY <1>4, <2>1
<1>7. ASSUME NEW h \in DOMAIN sockets, Accept(h)
      PROVE  Old \/ (New(temp[sockets[h].chat].messages) /\ sockets[h].chat \in DOMAIN temp)
  <2> DEFINE c == sockets[h].chat
             S == temp[c].messages
             a == sockets[h].other
             b == h[1]
  <2>1. Create(c, a, b, S) /\ S \subseteq Nat /\ c \in DOMAIN temp
    BY <1>7, Accepts
  <2> HIDE DEF c, S, a, b
  <2>2. Grows(S, c)
    BY <2>1, Creates
  <2>3. Old \/ New(S)
    BY <1>2, <2>2
  <2>4. QED
    BY <2>1, <2>3 DEF c, S
<1>8. ASSUME NEW u \in User, NEW v \in User, WriteFirst(u, v)
      PROVE  Old \/ (New({Len(said')}) /\ said'[m].chat = Direct)
  <2> DEFINE c == <<Direct, Len(said')>>
             S == {Len(said')}
             e == [from |-> u, to |-> v, chat |-> Direct]
  <2>1. /\ Create(c, u, v, S) /\ S \subseteq Nat
        /\ e \in Utterance /\ e.chat = Direct /\ Len(said) < MaxMessages /\ said' = Append(said, e)
    BY <1>8, WritesFirst
  <2> HIDE DEF c, e
  <2>2. said'[Len(said')] = e
    BY <2>1, SaidType
  <2> HIDE DEF S
  <2>3. Grows(S, c)
    BY <2>1, Creates
  <2>4. Old \/ New(S)
    BY <1>2, <2>3
  <2>5. QED
    BY <2>1, <2>2, <2>4 DEF S
<1>9. ASSUME NEW u \in User, NEW c \in ChatIds, Decline(u, c) PROVE Old
  <2>1. /\ DOMAIN chats' = DOMAIN chats \ {c} /\ \A d \in DOMAIN chats' : chats'[d] = chats[d]
    BY <1>9, Declines
  <2>2. m \in DOMAIN stored /\ stored[m] # c /\ stored'[m] = stored[m]
    <3>1. stored' = [k \in DOMAIN stored \ {n \in DOMAIN stored : stored[n] = c} |-> stored[k]]
      BY <1>9 DEF Decline, Removed
    <3>2. QED
      BY <3>1
  <2>3. m \in 1..Len(said) /\ said'[m] = said[m] /\ stored[m] \in DOMAIN chats'
    BY <1>1, <2>1, <2>2
  <2>4. QED
    BY <2>1, <2>2, <2>3
<1>10. QED
  <2> HIDE DEF Old
  <2>1. Old \/ ~Old
    OBVIOUS
  <2>2. CASE ~Old
    BY <1>3, <1>5, <1>6, <1>7, <1>8, <1>9, <2>2, TableSteps
  <2>3. QED
    BY <2>1, <2>2 DEF Old

\* A message that is stored is at home.
LEMMA HomeStep ==
  ASSUME TypeOK, StoredAtHome, [Next]_vars
  PROVE  StoredAtHome'
<1> SUFFICES ASSUME NEW m \in DOMAIN stored'
             PROVE  {chats'[stored'[m]].initiator, chats'[stored'[m]].other} = {said'[m].from, said'[m].to}
  BY DEF StoredAtHome
<1>1. CASE m \in DOMAIN stored /\ stored'[m] = stored[m]
           /\ chats'[stored[m]] = chats[stored[m]] /\ said'[m] = said[m]
  BY <1>1 DEF StoredAtHome
<1>2. CASE stored'[m] \in Between(chats', {said'[m].from, said'[m].to})
  BY <1>2 DEF Between
<1>3. QED
  BY <1>1, <1>2, NewStored

\* No message is stored but in a chat of its sender and its recipient.
THEOREM Home == Spec => []StoredAtHome
<1> DEFINE Inv == TypeOK /\ StoredAtHome
<1>1. Init => Inv
  <2>1. Init => StoredAtHome
    BY DEF Init, StoredAtHome
  <2>2. QED
    BY <2>1, TypeInit
<1>2. Inv /\ [Next]_vars => Inv'
  BY TypeStep, HomeStep
<1>3. QED
  BY <1>1, <1>2, PTL DEF Spec

-------------------------------------------------------------------------------
(* What is said in a temporary chat, and what becomes of it *)

\* In a step nothing is said in a chat, or one message.
LEMMA HeardSteps ==
  ASSUME TypeOK, [Next]_vars, NEW c \in Sockets
  PROVE  LET Hears == {m \in 1..Len(said') : said'[m].chat = c}
         IN /\ Heard(c) \subseteq Hears
            /\ \A h \in DOMAIN sockets : Say(h) /\ sockets[h].chat = c => Hears = Heard(c) \cup {Len(said) + 1}
            /\ (\A h \in DOMAIN sockets : Say(h) => sockets[h].chat # c) => Hears = Heard(c)
<1> DEFINE Hears == {m \in 1..Len(said') : said'[m].chat = c}
<1>1. /\ 1..Len(said) \subseteq 1..Len(said') /\ \A m \in 1..Len(said) : said'[m] = said[m]
  BY TablesType
<1>2. Heard(c) \subseteq Hears
  BY <1>1 DEF Heard
<1>3. \A m \in Hears \ Heard(c) :
        m = Len(said) + 1 /\ \E h \in DOMAIN sockets : Say(h) /\ sockets[h].chat = c
  <2> SUFFICES ASSUME NEW m \in Hears \ Heard(c)
               PROVE  m = Len(said) + 1 /\ \E h \in DOMAIN sockets : Say(h) /\ sockets[h].chat = c
    OBVIOUS
  <2>1. m \in 1..Len(said') /\ said'[m].chat = c /\ c # Direct
    BY SocketNames
  <2>2. ~(m \in 1..Len(said) /\ said'[m] = said[m])
    BY <2>1 DEF Heard
  <2>3. QED
    BY <2>1, <2>2, NewMessage
<1>4. ASSUME NEW h \in DOMAIN sockets, Say(h), sockets[h].chat = c
      PROVE  Len(said) + 1 \in Hears
  <2> DEFINE e == [from |-> h[1], to |-> sockets[h].other, chat |-> sockets[h].chat]
  <2>1. sockets[h] \in Registration /\ h[1] \in User
    BY SocketNames DEF TypeOK, LobbyOK
  <2>2. e \in Utterance /\ e.chat = c
    BY <1>4, <2>1 DEF Registration, Utterance
  <2>3. said' = Append(said, e) /\ Len(said) < MaxMessages
    BY <1>4 DEF Say, Uttered
  <2> HIDE DEF e
  <2>4. QED
    BY <2>2, <2>3, SaidType
<1> HIDE DEF Hears
<1>5. ASSUME NEW h \in DOMAIN sockets, Say(h), sockets[h].chat = c
      PROVE  Hears = Heard(c) \cup {Len(said) + 1}
  BY <1>2, <1>3, <1>4, <1>5
<1>6. (\A h \in DOMAIN sockets : Say(h) => sockets[h].chat # c) => Hears = Heard(c)
  BY <1>2, <1>3
<1>7. QED
  BY <1>2, <1>5, <1>6 DEF Hears

\* A temporary chat is new, stays as it is, gets a message, or is accepted.
LEMMA TempSteps ==
  ASSUME TypeOK, [Next]_vars, NEW c \in DOMAIN temp'
  PROVE  \/ \E u, v \in User : /\ HostChat(u, v) /\ c = <<u, newest[u] + 1>>
                               /\ temp'[c] = [saved |-> FALSE, messages |-> {}]
         \/ c \in DOMAIN temp /\ temp'[c] = temp[c]
         \/ /\ c \in DOMAIN temp /\ ~temp[c].saved
            /\ temp'[c] = [saved |-> FALSE, messages |-> temp[c].messages \cup {Len(said) + 1}]
            /\ \E h \in DOMAIN sockets : Say(h) /\ sockets[h].chat = c
         \/ /\ c \in DOMAIN temp
            /\ temp'[c] = [saved |-> TRUE, messages |-> temp[c].messages]
            /\ \E h \in DOMAIN sockets : /\ Accept(h) \/ AcceptEmpty(h) \/ AcceptLost(h)
                                         /\ sockets[h].chat = c
<1>1. ASSUME NEW u \in User, NEW v \in User, HostChat(u, v)
      PROVE  \/ c = <<u, newest[u] + 1>> /\ temp'[c] = [saved |-> FALSE, messages |-> {}]
             \/ c \in DOMAIN temp /\ temp'[c] = temp[c]
  BY <1>1, Hosts
<1>2. ASSUME NEW h \in Sockets, Disconnect(h)
      PROVE  c \in DOMAIN temp /\ temp'[c] = temp[c]
  BY <1>2, Disconnects
<1>3. ASSUME NEW h \in DOMAIN sockets, Say(h)
      PROVE  \/ c \in DOMAIN temp /\ temp'[c] = temp[c]
             \/ /\ c \in DOMAIN temp /\ ~temp[c].saved
                /\ temp'[c] = [saved |-> FALSE, messages |-> temp[c].messages \cup {Len(said) + 1}]
                /\ sockets[h].chat = c
  <2> DEFINE d == sockets[h].chat
  <2>1. /\ d \in DOMAIN temp
        /\ \/ temp' = temp
           \/ ~temp[d].saved /\ temp' = [temp EXCEPT ![d].messages = @ \cup {Len(said) + 1}]
    BY <1>3 DEF Say, Speaks
  <2>2. temp[d] \in [saved : BOOLEAN, messages : SUBSET (1..Len(said))]
    BY <2>1 DEF TypeOK, LobbyOK
  <2> HIDE DEF d
  <2>3. \/ c \in DOMAIN temp /\ temp'[c] = temp[c]
        \/ /\ c \in DOMAIN temp /\ ~temp[c].saved /\ c = d
           /\ temp'[c] = [saved |-> FALSE, messages |-> temp[c].messages \cup {Len(said) + 1}]
    BY <2>1, <2>2
  <2>4. QED
    BY <2>3 DEF d
<1>4. ASSUME NEW h \in DOMAIN sockets, Accept(h) \/ AcceptEmpty(h) \/ AcceptLost(h)
      PROVE  \/ c \in DOMAIN temp /\ temp'[c] = temp[c]
             \/ /\ c \in DOMAIN temp /\ sockets[h].chat = c
                /\ temp'[c] = [saved |-> TRUE, messages |-> temp[c].messages]
  <2> DEFINE d == sockets[h].chat
  <2>1. d \in DOMAIN temp /\ temp' = [temp EXCEPT ![d].saved = TRUE]
    BY <1>4 DEF Accept, AcceptEmpty, AcceptLost, Speaks, Saved
  <2>2. temp[d] \in [saved : BOOLEAN, messages : SUBSET (1..Len(said))]
    BY <2>1 DEF TypeOK, LobbyOK
  <2> HIDE DEF d
  <2>3. \/ c \in DOMAIN temp /\ temp'[c] = temp[c]
        \/ /\ c \in DOMAIN temp /\ c = d
           /\ temp'[c] = [saved |-> TRUE, messages |-> temp[c].messages]
    BY <2>1, <2>2
  <2>4. QED
    BY <2>3 DEF d
<1>5. \A h \in Sockets : Say(h) \/ Accept(h) \/ AcceptEmpty(h) \/ AcceptLost(h) => h \in DOMAIN sockets
  BY Payloads
<1>6. CASE temp' = temp
  BY <1>6
<1>7. QED
  BY <1>1, <1>2, <1>3, <1>4, <1>5, <1>6, LobbySteps DEF JoinChat, JoinFails, Leave, lobbyVars

\* Of a websocket that is about to be opened nothing is known.
LEMMA Unknown ==
  ASSUME TypeOK, NumbersInv, HostsInv, NEW u \in User
  PROVE  LET h == <<u, newest[u] + 1>>
         IN /\ h \notin DOMAIN sockets /\ h \notin DOMAIN temp
            /\ h \in Sockets => h \notin DOMAIN chats \cup refused /\ Heard(h) = {}
<1> DEFINE h == <<u, newest[u] + 1>>
<1>1. newest[u] \in Nat /\ h[1] = u /\ h[2] = newest[u] + 1
  BY DEF TypeOK, LobbyOK
<1>2. ~(h[2] <= newest[h[1]])
  BY <1>1
<1> HIDE DEF h
<1>3. h \notin DOMAIN sockets /\ h \notin DOMAIN temp
  BY <1>2 DEF NumbersInv, HostsInv
<1>4. ASSUME h \in Sockets PROVE h \notin DOMAIN chats \cup refused /\ Heard(h) = {}
  BY <1>2, <1>4, SocketNames DEF NumbersInv, Heard
<1>5. QED
  BY <1>3, <1>4 DEF h

\* A temporary chat keeps what is said in it.
LEMMA KeptStep ==
  ASSUME TypeOK, NumbersInv, HostsInv, KeptInv, [Next]_vars
  PROVE  KeptInv'
<1> DEFINE Hears(c) == {m \in 1..Len(said') : said'[m].chat = c}
<1>1. SUFFICES ASSUME NEW c \in DOMAIN temp'
               PROVE  /\ temp'[c].messages \subseteq Hears(c)
                      /\ ~temp'[c].saved => temp'[c].messages = Hears(c)
  BY DEF KeptInv, Heard
<1>2. c \in Sockets
  BY LobbyType DEF LobbyOK
<1>3. /\ Heard(c) \subseteq Hears(c)
      /\ \A h \in DOMAIN sockets : Say(h) /\ sockets[h].chat = c => Hears(c) = Heard(c) \cup {Len(said) + 1}
      /\ (\A h \in DOMAIN sockets : Say(h) => sockets[h].chat # c) => Hears(c) = Heard(c)
  BY <1>2, HeardSteps
<1> HIDE DEF Hears
<1>4. ASSUME NEW u \in User, NEW v \in User, HostChat(u, v), c = <<u, newest[u] + 1>>,
             temp'[c] = [saved |-> FALSE, messages |-> {}]
      PROVE  temp'[c].messages = Hears(c)
  <2>1. Heard(c) = {}
    BY <1>2, <1>4, Unknown
  <2>2. \A h \in DOMAIN sockets : Say(h) => sockets[h].chat # c
    <3>1. c \notin DOMAIN temp
      BY <1>4, Unknown
    <3>2. QED
      BY <3>1 DEF Say, Speaks
  <2>3. QED
    BY <1>3, <1>4, <2>1, <2>2
<1>5. ASSUME c \in DOMAIN temp, temp'[c] = temp[c]
      PROVE  /\ temp'[c].messages \subseteq Hears(c)
             /\ ~temp'[c].saved => temp'[c].messages = Hears(c)
  <2>1. ASSUME NEW h \in DOMAIN sockets, Say(h), sockets[h].chat = c PROVE temp[c].saved
    <3>1. temp[c] \in [saved : BOOLEAN, messages : SUBSET (1..Len(said))] /\ Len(said) \in Nat
      BY <1>5 DEF TypeOK, LobbyOK
    <3>2. ~temp[c].saved => temp' = [temp EXCEPT ![c].messages = @ \cup {Len(said) + 1}]
      BY <2>1 DEF Say
    <3>3. ~temp[c].saved => temp'[c].messages = temp[c].messages \cup {Len(said) + 1}
      BY <1>5, <3>1, <3>2
    <3>4. Len(said) + 1 \notin 1..Len(said)
      BY <3>1
    <3>5. QED
      BY <1>5, <3>1, <3>3, <3>4
  <2>2. QED
    BY <1>3, <1>5, <2>1 DEF KeptInv
<1>6. ASSUME c \in DOMAIN temp, ~temp[c].saved,
             temp'[c] = [saved |-> FALSE, messages |-> temp[c].messages \cup {Len(said) + 1}],
             NEW h \in DOMAIN sockets, Say(h), sockets[h].chat = c
      PROVE  temp'[c].messages = Hears(c)
  BY <1>3, <1>6 DEF KeptInv
<1>7. ASSUME c \in DOMAIN temp, temp'[c] = [saved |-> TRUE, messages |-> temp[c].messages]
      PROVE  temp'[c].messages \subseteq Hears(c) /\ temp'[c].saved
  BY <1>3, <1>7 DEF KeptInv
<1>8. QED
  BY <1>4, <1>5, <1>6, <1>7, TempSteps

\* Only messages of chats that have been accepted are stored.
LEMMA AcceptedStep ==
  ASSUME TypeOK, NumbersInv, HostsInv, KeptInv, OnlyAccepted, [Next]_vars
  PROVE  OnlyAccepted'
<1> SUFFICES ASSUME NEW m \in DOMAIN stored', NEW c \in DOMAIN temp', said'[m].chat = c
             PROVE  temp'[c].saved
  BY DEF OnlyAccepted
<1>1. c \in Sockets /\ c # Direct
  BY LobbyType, SocketNames DEF LobbyOK
<1>2. ASSUME m \in DOMAIN stored, m \in 1..Len(said), said'[m] = said[m] PROVE temp'[c].saved
  <2>1. m \in Heard(c) /\ (c \in DOMAIN temp => temp[c].saved)
    BY <1>2 DEF Heard, OnlyAccepted
  <2>2. \A u \in User : c # <<u, newest[u] + 1>>
    BY <1>1, <2>1, Unknown
  <2>3. QED
    BY <2>1, <2>2, TempSteps
<1>3. ASSUME NEW h \in DOMAIN sockets, Accept(h), sockets[h].chat \in DOMAIN temp,
             m \in temp[sockets[h].chat].messages
      PROVE  temp'[c].saved
  <2> DEFINE d == sockets[h].chat
  <2>1. d \in DOMAIN temp /\ temp' = [temp EXCEPT ![d].saved = TRUE] /\ said' = said
    BY <1>3 DEF Accept, Speaks, Saved
  <2>2. m \in Heard(d) /\ temp[d] \in [saved : BOOLEAN, messages : SUBSET (1..Len(said))]
    BY <1>3 DEF KeptInv, TypeOK, LobbyOK
  <2> HIDE DEF d
  <2>3. c = d
    BY <2>1, <2>2 DEF Heard
  <2>4. QED
    BY <2>1, <2>2, <2>3
<1>4. ASSUME NEW h \in DOMAIN sockets, Say(h), sockets[h].chat \in DOMAIN temp,
             temp[sockets[h].chat].saved, m = Len(said) + 1
      PROVE  temp'[c].saved
  <2>1. temp' = temp
    BY <1>4 DEF Say
  <2>2. m \in {k \in 1..Len(said') : said'[k].chat = sockets[h].chat}
    <3>1. sockets[h].chat \in Sockets
      BY <1>4 DEF TypeOK, LobbyOK
    <3>2. QED
      BY <1>4, <3>1, HeardSteps
  <2>3. QED
    BY <1>4, <2>1, <2>2
<1>5. QED
  BY <1>1, <1>2, <1>3, <1>4, NewStored

\* No message is stored while the chat it was said in is waiting to be accepted.
THEOREM Accepted == Spec => []OnlyAccepted
<1> DEFINE Inv == TypeOK /\ NumbersInv /\ HostsInv /\ KeptInv /\ OnlyAccepted
<1>1. Init => Inv
  <2>1. Init => NumbersInv /\ HostsInv /\ KeptInv /\ OnlyAccepted
    BY DEF Init, NumbersInv, HostsInv, KeptInv, OnlyAccepted
  <2>2. QED
    BY <2>1, TypeInit
<1>2. Inv /\ [Next]_vars => Inv'
  BY TypeStep, NumbersStep, HostsStep, KeptStep, AcceptedStep
<1>3. Inv => OnlyAccepted
  OBVIOUS
<1>4. QED
  BY <1>1, <1>2, <1>3, PTL DEF Spec

-------------------------------------------------------------------------------
(* What has been said in a chat is in it *)

\* What accepting a chat does to the tables.
LEMMA AcceptCreates ==
  ASSUME TypeOK, NEW h \in DOMAIN sockets, Accept(h)
  PROVE  LET c == sockets[h].chat
             S == temp[c].messages
         IN /\ Grows(S, c)
            /\ c \in DOMAIN chats' \ DOMAIN chats => stored' = Posted(chats', S)
            /\ c \in DOMAIN chats' \cup refused'
            /\ refused \subseteq refused'
            /\ said' = said
<1> DEFINE c == sockets[h].chat
           S == temp[c].messages
           a == sockets[h].other
           b == h[1]
<1>1. Create(c, a, b, S) /\ S \subseteq Nat /\ said' = said
  BY Accepts
<1> HIDE DEF c, S, a, b
<1>2. /\ Grows(S, c)
      /\ c \in DOMAIN chats' \ DOMAIN chats => stored' = Posted(chats', S)
      /\ refused' \in {refused, refused \cup {c}}
      /\ c \in DOMAIN chats' \cup refused'
  BY <1>1, Creates
<1>3. QED
  BY <1>1, <1>2 DEF c, S

\* As long as no chat is declined, chats stay and those stored in them too; what was
\* refused or lost stays refused or lost.
LEMMA Lasting ==
  ASSUME TypeOK, [Next]_vars
  PROVE  /\ failures # 0 => failures' # 0
         /\ blocked # {} => blocked' # {}
         /\ refused \subseteq refused'
         /\ \/ blocked' # {}
            \/ /\ DOMAIN chats \subseteq DOMAIN chats'
               /\ \A d \in DOMAIN chats : chats'[d] = chats[d]
               /\ \A m \in DOMAIN stored : m \in DOMAIN stored' /\ stored'[m] = stored[m]
<1> DEFINE Kept == /\ DOMAIN chats \subseteq DOMAIN chats'
                   /\ \A d \in DOMAIN chats : chats'[d] = chats[d]
                   /\ \A m \in DOMAIN stored : m \in DOMAIN stored' /\ stored'[m] = stored[m]
<1>1. failures \in Nat /\ (failures' = failures \/ failures' = failures + 1)
  <2>1. failures \in Nat
    BY TextLobbyAssumption DEF TypeOK
  <2>2. QED
    BY <2>1 DEF Next, vars, HostChat, JoinChat, JoinFails, Opens, Leave, Disconnect, Say, Accept, AcceptEmpty,
                AcceptLost, WriteFirst, Write, Decline
<1>2. failures # 0 => failures' # 0
  BY <1>1
<1>3. ASSUME NEW e, Spoken(e) PROVE Kept /\ blocked' = blocked /\ refused' = refused
  <2>1. Len(said) + 1 \in Nat
    BY <1>3, SaidType DEF Spoken
  <2>2. Grows({Len(said) + 1}, 0)
    BY <1>3, <2>1, Posts DEF Spoken
  <2>3. QED
    BY <1>3, <2>2 DEF Grows, Spoken
<1>4. ASSUME NEW h \in DOMAIN sockets, Accept(h)
      PROVE  Kept /\ blocked' = blocked /\ refused \subseteq refused'
  BY <1>4, AcceptCreates DEF Grows, Accept
<1>5. ASSUME NEW u \in User, NEW v \in User, WriteFirst(u, v)
      PROVE  Kept /\ blocked' = blocked /\ refused \subseteq refused'
  <2> DEFINE c == <<Direct, Len(said')>>
             S == {Len(said')}
  <2>1. Create(c, u, v, S) /\ S \subseteq Nat /\ blocked' = blocked
    BY <1>5, WritesFirst
  <2> HIDE DEF c, S
  <2>2. Grows(S, c) /\ refused' \in {refused, refused \cup {c}}
    BY <2>1, Creates
  <2>3. QED
    BY <2>1, <2>2 DEF Grows
<1>6. ASSUME NEW u \in User, NEW c \in ChatIds, Decline(u, c)
      PROVE  blocked' # {} /\ refused' = refused
  BY <1>6, Declines
<1>7. CASE Quiet
  BY <1>2, <1>7 DEF Quiet
<1>8. /\ blocked # {} => blocked' # {}
      /\ refused \subseteq refused'
      /\ blocked' # {} \/ Kept
  <2> HIDE DEF Kept
  <2>1. Quiet => Kept /\ blocked' = blocked /\ refused' = refused
    BY DEF Quiet, Kept
  <2>2. QED
    BY <1>3, <1>4, <1>5, <1>6, <2>1, TableSteps
<1>9. QED
  BY <1>2, <1>8

\* A chat is in the table, or refused, from the first time it is accepted.
LEMMA SavedStep ==
  ASSUME TypeOK, NumbersInv, HostsInv, SavedInv, [Next]_vars
  PROVE  SavedInv'
<1> SUFFICES ASSUME NEW c \in DOMAIN temp'
             PROVE  /\ ~temp'[c].saved => c \notin DOMAIN chats' \cup refused'
                    /\ temp'[c].saved /\ temp'[c].messages # {} =>
                         c \in DOMAIN chats' \cup refused' \/ failures' # 0 \/ blocked' # {}
  BY DEF SavedInv
<1>1. c \in Sockets
  BY LobbyType DEF LobbyOK
<1>2. c \in DOMAIN chats' \cup refused' =>
        \/ c \in DOMAIN chats \cup refused
        \/ \E h \in DOMAIN sockets : Accept(h) /\ c = sockets[h].chat /\ c \in DOMAIN temp
  BY <1>1, NewChat
<1>3. ASSUME NEW h \in DOMAIN sockets, Accept(h), c = sockets[h].chat, c \in DOMAIN temp
      PROVE  temp'[c].saved
  <2>1. temp' = [temp EXCEPT ![c].saved = TRUE]
    BY <1>3 DEF Accept, Saved
  <2>2. temp[c] \in [saved : BOOLEAN, messages : SUBSET (1..Len(said))]
    BY <1>3 DEF TypeOK, LobbyOK
  <2>3. QED
    BY <1>3, <2>1, <2>2
<1>4. c \in DOMAIN chats \cup refused => c \in DOMAIN chats' \cup refused' \/ blocked' # {}
  BY Lasting
<1>5. (failures # 0 => failures' # 0) /\ (blocked # {} => blocked' # {})
  BY Lasting
<1>6. ASSUME NEW u \in User, NEW v \in User, HostChat(u, v), c = <<u, newest[u] + 1>>,
             temp'[c] = [saved |-> FALSE, messages |-> {}]
      PROVE  ~temp'[c].saved /\ c \notin DOMAIN chats' \cup refused'
  <2>1. c \notin DOMAIN chats \cup refused /\ c \notin DOMAIN temp
    BY <1>1, <1>6, Unknown
  <2>2. QED
    BY <1>2, <1>6, <2>1
<1>7. ASSUME c \in DOMAIN temp, temp'[c] = temp[c]
      PROVE  /\ ~temp'[c].saved => c \notin DOMAIN chats' \cup refused'
             /\ temp'[c].saved /\ temp'[c].messages # {} =>
                  c \in DOMAIN chats' \cup refused' \/ failures' # 0 \/ blocked' # {}
  BY <1>2, <1>3, <1>4, <1>5, <1>7 DEF SavedInv
<1>8. ASSUME c \in DOMAIN temp, ~temp[c].saved,
             temp'[c] = [saved |-> FALSE, messages |-> temp[c].messages \cup {Len(said) + 1}]
      PROVE  ~temp'[c].saved /\ c \notin DOMAIN chats' \cup refused'
  <2>1. ~temp'[c].saved
    BY <1>8
  <2>2. c \notin DOMAIN chats \cup refused
    BY <1>8 DEF SavedInv
  <2>3. QED
    BY <1>2, <1>3, <2>1, <2>2
<1>9. ASSUME c \in DOMAIN temp, temp'[c] = [saved |-> TRUE, messages |-> temp[c].messages],
             NEW h \in DOMAIN sockets, Accept(h) \/ AcceptEmpty(h) \/ AcceptLost(h), sockets[h].chat = c
      PROVE  /\ temp'[c].saved
             /\ temp'[c].messages # {} => c \in DOMAIN chats' \cup refused' \/ failures' # 0
  <2>1. temp'[c].saved /\ temp'[c].messages = temp[c].messages
    BY <1>9
  <2>2. Accept(h) => c \in DOMAIN chats' \cup refused'
    BY <1>9, AcceptCreates
  <2>3. AcceptEmpty(h) => temp[c].messages = {}
    BY <1>9 DEF AcceptEmpty
  <2>4. AcceptLost(h) => failures' # 0
    <3>1. failures \in Nat
      BY TextLobbyAssumption DEF TypeOK
    <3>2. QED
      BY <3>1 DEF AcceptLost
  <2>5. QED
    BY <1>9, <2>1, <2>2, <2>3, <2>4
<1>10. QED
  BY <1>6, <1>7, <1>8, <1>9, TempSteps

\* The chat of a pair has all that was said in it, before and after it was accepted.
LEMMA TranscriptStep ==
  ASSUME TypeOK, NumbersInv, HostsInv, KeptInv, OnlyAccepted, SavedInv, Transcript, [Next]_vars
  PROVE  Transcript'
<1> DEFINE Hears(c) == {m \in 1..Len(said') : said'[m].chat = c}
           Members(c) == {chats'[c].initiator, chats'[c].other}
<1>1. SUFFICES ASSUME failures' = 0, blocked' = {},
                      NEW c \in (DOMAIN chats' \cap Sockets) \ refused',
                      Between(chats', Members(c)) = {c},
                      \A m \in Hears(c) : {said'[m].from, said'[m].to} = Members(c)
               PROVE  \A m \in Hears(c) : m \in DOMAIN stored' /\ stored'[m] = c
  BY DEF Transcript, Heard
<1>2. /\ failures = 0 /\ blocked = {} /\ c \notin refused
      /\ DOMAIN chats \subseteq DOMAIN chats' /\ \A d \in DOMAIN chats : chats'[d] = chats[d]
      /\ \A m \in DOMAIN stored : m \in DOMAIN stored' /\ stored'[m] = stored[m]
  BY <1>1, Lasting
<1>3. /\ Heard(c) \subseteq Hears(c)
      /\ \A h \in DOMAIN sockets : Say(h) /\ sockets[h].chat = c => Hears(c) = Heard(c) \cup {Len(said) + 1}
      /\ (\A h \in DOMAIN sockets : Say(h) => sockets[h].chat # c) => Hears(c) = Heard(c)
  BY HeardSteps
<1>4. /\ 1..Len(said) \subseteq 1..Len(said') /\ \A m \in 1..Len(said) : said'[m] = said[m]
      /\ Len(said) \in Nat
  BY TablesType DEF TypeOK
<1>5. Heard(c) \subseteq 1..Len(said)
  BY DEF Heard
<1>6. ASSUME c \in DOMAIN chats PROVE \A m \in Hears(c) : m \in DOMAIN stored' /\ stored'[m] = c
  <2>1. chats'[c] = chats[c]
    BY <1>2, <1>6
  <2>2. Between(chats, Members(c)) = {c}
    <3>1. \A d \in DOMAIN chats : d \in Between(chats, Members(c)) <=> d \in Between(chats', Members(c))
      BY <1>2 DEF Between
    <3>2. Between(chats, Members(c)) \subseteq DOMAIN chats
      BY DEF Between
    <3>3. QED
      BY <1>1, <1>6, <3>1, <3>2
  <2>3. \A m \in Heard(c) : {said[m].from, said[m].to} = Members(c)
    BY <1>1, <1>3, <1>4, <1>5
  <2>4. \A m \in Heard(c) : m \in DOMAIN stored /\ stored[m] = c
    <3>1. {chats[c].initiator, chats[c].other} = Members(c)
      BY <2>1
    <3>2. QED
      BY <1>1, <1>2, <1>6, <2>2, <2>3, <3>1 DEF Transcript
  <2>5. ASSUME NEW h \in DOMAIN sockets, Say(h), sockets[h].chat = c
        PROVE  Len(said) + 1 \in DOMAIN stored' /\ stored'[Len(said) + 1] = c
    <3> DEFINE n == Len(said) + 1
    <3>1. c \in DOMAIN temp
      BY <2>5 DEF Say, Speaks
    <3>2. temp[c].saved
      BY <1>6, <3>1 DEF SavedInv
    <3>3. stored' = Posted(chats, {n})
      BY <2>5, <3>2 DEF Say
    <3>4. {said'[n].from, said'[n].to} = Members(c)
      BY <1>1, <1>3, <2>5
    <3>5. n \notin DOMAIN stored /\ n \in Nat
      BY <1>4 DEF TypeOK, TablesOK
    <3> HIDE DEF n, Members
    <3>6. {n} \cap DOMAIN stored = {} /\ {n} \subseteq Nat
          /\ \A m \in {n} : Between(chats, {said'[m].from, said'[m].to}) = {c}
      BY <2>2, <3>4, <3>5
    <3>7. {n} \subseteq DOMAIN Posted(chats, {n}) /\ \A m \in {n} : Posted(chats, {n})[m] = c
      BY <3>6, PostedAll
    <3>8. QED
      BY <3>3, <3>7 DEF n
  <2> HIDE DEF Hears, Members
  <2>6. QED
    BY <1>2, <1>3, <2>4, <2>5
<1>7. ASSUME c \notin DOMAIN chats PROVE \A m \in Hears(c) : m \in DOMAIN stored' /\ stored'[m] = c
  <2>1. PICK h \in DOMAIN sockets : Accept(h) /\ c = sockets[h].chat /\ c \in DOMAIN temp
    BY <1>1, <1>2, <1>7, NewChat
  <2> DEFINE S == temp[c].messages
  <2>2. said' = said /\ S # {}
    BY <2>1 DEF Accept
  <2>3. stored' = Posted(chats', S)
    BY <1>1, <1>7, <2>1, AcceptCreates
  <2>4. ~temp[c].saved
    BY <1>2, <1>7, <2>1, <2>2 DEF SavedInv
  <2>5. S = Heard(c) /\ S = Hears(c) /\ S \subseteq Nat
    <3>1. S = Heard(c)
      BY <2>1, <2>4 DEF KeptInv
    <3>2. Hears(c) = Heard(c)
      BY <2>2 DEF Heard
    <3>3. QED
      BY <1>4, <1>5, <3>1, <3>2
  <2>6. S \cap DOMAIN stored = {}
    BY <2>1, <2>4, <2>5 DEF OnlyAccepted, Heard
  <2> HIDE DEF S, Hears, Members
  <2>7. \A m \in S : Between(chats', {said'[m].from, said'[m].to}) = {c}
    BY <1>1, <2>5
  <2>8. S \subseteq DOMAIN Posted(chats', S) /\ \A m \in S : Posted(chats', S)[m] = c
    <3>1. ASSUME NEW T, T \subseteq Nat, T \cap DOMAIN stored = {},
                 \A m \in T : Between(chats', {said'[m].from, said'[m].to}) = {c}
          PROVE  T \subseteq DOMAIN Posted(chats', T) /\ \A m \in T : Posted(chats', T)[m] = c
      BY <3>1, PostedAll
    <3>2. QED
      BY <2>5, <2>6, <2>7, <3>1
  <2>9. QED
    BY <2>3, <2>5, <2>8
<1>8. QED
  BY <1>6, <1>7

\* The transcript of a pair is complete, whichever of the two accepts, with whatever
\* others say, meet, accept and write in between.
THEOREM CompleteTranscript == Spec => []Transcript
<1> DEFINE Inv == TypeOK /\ NumbersInv /\ HostsInv /\ KeptInv /\ OnlyAccepted /\ SavedInv /\ Transcript
<1>1. Init => Inv
  <2>1. Init => NumbersInv /\ HostsInv /\ KeptInv /\ OnlyAccepted /\ SavedInv /\ Transcript
    BY DEF Init, NumbersInv, HostsInv, KeptInv, OnlyAccepted, SavedInv, Transcript
  <2>2. QED
    BY <2>1, TypeInit
<1>2. Inv /\ [Next]_vars => Inv'
  BY TypeStep, NumbersStep, HostsStep, KeptStep, AcceptedStep, SavedStep, TranscriptStep
<1>3. Inv => Transcript
  OBVIOUS
<1>4. QED
  BY <1>1, <1>2, <1>3, PTL DEF Spec
===============================================================================
