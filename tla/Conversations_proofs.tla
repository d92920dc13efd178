------------------------- MODULE Conversations_proofs -------------------------
(***************************************************************************)
(* Proofs about Conversations: type correctness, and, where a pair has one *)
(* chat, that a chat which is declined goes with both, that read marks are *)
(* true and that a client which fetches keeps up, what has been overtaken  *)
(* apart.                                                                  *)
(***************************************************************************)
EXTENDS Conversations, TLAPS

-------------------------------------------------------------------------------
(* Data *)

\* A chat has two members, and each is the other one's other.
LEMMA Pairs ==
  /\ \A c \in Chat : /\ Members[c][1] \in User /\ Members[c][2] \in User
                     /\ Members[c][1] # Members[c][2]
                     /\ Other(Members[c][1], c) = Members[c][2]
                     /\ Other(Members[c][2], c) = Members[c][1]
                     /\ c \in ChatsOf(Members[c][1]) /\ c \in ChatsOf(Members[c][2])
  /\ \A u \in User, c \in Chat : Other(u, c) \in User
  /\ \A u \in User : \A c \in ChatsOf(u) :
       /\ c \in Chat /\ Other(u, c) # u /\ c \in ChatsOf(Other(u, c)) /\ Other(Other(u, c), c) = u
       /\ {u, Other(u, c)} = {Members[c][1], Members[c][2]}
       /\ \A v \in User : c \in ChatsOf(v) => v = u \/ v = Other(u, c)
<1>1. \A c \in Chat : /\ Members[c][1] \in User /\ Members[c][2] \in User
                      /\ Members[c][1] # Members[c][2]
  BY ConversationsAssumption
<1>2. QED
  BY <1>1 DEF Other, ChatsOf

\* What is said is added at the end, and what was said before stays.
LEMMA Says ==
  ASSUME said \in Seq(Message), NEW u \in User, NEW c \in Chat, Say(u, c)
  PROVE  /\ said' \in Seq(Message)
         /\ Len(said) \in Nat /\ Len(said') = Len(said) + 1 /\ NextMessage = Len(said) + 1
         /\ DOMAIN said' = DOMAIN said \cup {NextMessage} /\ NextMessage \notin DOMAIN said
         /\ \A m \in DOMAIN said : said'[m] = said[m] /\ m \in Nat /\ m < NextMessage
         /\ said'[NextMessage] = [from |-> u, chat |-> c]
         /\ DOMAIN said = 1..Len(said)
<1> DEFINE e == [from |-> u, chat |-> c]
<1>1. e \in Message /\ said' = Append(said, e)
  BY DEF Say, Message
<1> HIDE DEF e
<1>2. /\ said' \in Seq(Message)
      /\ Len(said) \in Nat /\ Len(said') = Len(said) + 1
      /\ DOMAIN said' = 1..(Len(said) + 1) /\ DOMAIN said = 1..Len(said)
      /\ \A m \in 1..Len(said) : said'[m] = said[m]
      /\ said'[Len(said) + 1] = e
  BY <1>1
<1>3. QED
  BY <1>2 DEF e, NextMessage

\* What is written to a websocket comes last, if its other end is there.
Appended(r, e) ==
  /\ wire' \in [User -> Seq(WireEvent)]
  /\ \A u \in User \ {r} : wire'[u] = wire[u]
  /\ \/ wire'[r] = wire[r] /\ r \notin active \cap attached
     \/ /\ r \in active \cap attached
        /\ Len(wire'[r]) = Len(wire[r]) + 1 /\ wire'[r] # <<>>
        /\ \A i \in 1..Len(wire[r]) : wire'[r][i] = wire[r][i]
        /\ wire'[r][Len(wire[r]) + 1] = e
  /\ \A u \in User : Len(wire[u]) \in Nat

\* That is what Written does.
LEMMA Writes ==
  ASSUME wire \in [User -> Seq(WireEvent)], NEW r \in User, NEW e \in WireEvent,
         wire' = Written(r, e)
  PROVE  Appended(r, e)
<1>1. wire[r] \in Seq(WireEvent) /\ Append(wire[r], e) \in Seq(WireEvent)
  OBVIOUS
<1>2. /\ Len(Append(wire[r], e)) = Len(wire[r]) + 1 /\ Append(wire[r], e) # <<>>
      /\ \A i \in 1..Len(wire[r]) : Append(wire[r], e)[i] = wire[r][i]
      /\ Append(wire[r], e)[Len(wire[r]) + 1] = e
  BY <1>1
<1>3. \A u \in User : Len(wire[u]) \in Nat
  OBVIOUS
<1>4. CASE r \in active \cap attached
  <2>1. wire' = [wire EXCEPT ![r] = Append(wire[r], e)]
    BY <1>4 DEF Written
  <2>2. wire'[r] = Append(wire[r], e) /\ \A u \in User \ {r} : wire'[u] = wire[u]
    BY <2>1
  <2>3. QED
    BY <1>1, <1>2, <1>3, <1>4, <2>1, <2>2 DEF Appended
<1>5. CASE r \notin active \cap attached
  BY <1>3, <1>5 DEF Written, Appended
<1>6. QED
  BY <1>4, <1>5

\* The event goes to the other member; if he is not registered a push follows.
LEMMA Forwards ==
  ASSUME TypeOK, NEW u \in User, NEW c \in Chat, NEW e \in WireEvent, Forward(u, c, e)
  PROVE  /\ Appended(Other(u, c), e)
         /\ handler' = [handler EXCEPT ![u] = handler'[u]]
         /\ handler'[u] \in {Does("serving", {}), Does("cooldown?", {c})}
<1>1. wire' = Written(Other(u, c), e) /\ Other(u, c) \in User /\ wire \in [User -> Seq(WireEvent)]
  BY Pairs DEF Forward, TypeOK
<1>2. /\ handler' = [handler EXCEPT ![u] = handler'[u]]
      /\ handler'[u] \in {Does("serving", {}), Does("cooldown?", {c})}
  BY DEF Forward, TypeOK
<1>3. QED
  BY <1>1, <1>2, Writes

\* A message or another event on a wire.
LEMMA Events ==
  /\ \A c \in Chat, m \in 0..MaxMessages, type \in {"message", "create", "accept", "decline"} :
       /\ Event(type, c, m) \in WireEvent
       /\ Event(type, c, m).type = type /\ Event(type, c, m).chat = c /\ Event(type, c, m).id = m
       /\ Carries(Event(type, c, m)) <=> type \in {"message", "create"}
  /\ 0 \in 0..MaxMessages
BY ConversationsAssumption DEF Event, WireEvent, Carries

\* What a handler does.
LEMMA DoesWhat ==
  \A phase, S : /\ Does(phase, S).phase = phase /\ Does(phase, S).chat = S
                /\ phase \in Phases /\ S \subseteq Chat => Does(phase, S) \in HandlerState
BY DEF Does, HandlerState

-------------------------------------------------------------------------------
(* What the steps do *)

\* A first message: its chat is created unless the pair has one the same way round,
\* and the message stored unless the pair has two.
LEMMA Creates ==
  ASSUME TypeOK, NEW u \in User, NEW c \in Chat, CreateChat(u, c)
  PROVE  /\ u = Members[c][1] /\ c \in ChatsOf(u) /\ <<u, c>> \in Writers
         /\ u \in attached /\ handler[u].phase = "serving"
         /\ \A m \in DOMAIN said : said[m].chat # c
         /\ Say(u, c) /\ Len(said) < MaxMessages
         /\ DOMAIN chats \subseteq DOMAIN chats' /\ DOMAIN chats' \subseteq DOMAIN chats \cup {c}
         /\ \A d \in DOMAIN chats' : chats'[d] \in {"requested", "opened", "accepted"}
         /\ c \in DOMAIN chats' \/ \E d \in DOMAIN chats : Members[d] = Members[c]
         /\ DOMAIN status \subseteq DOMAIN status' /\ DOMAIN status' \subseteq DOMAIN status \cup {NextMessage}
         /\ NextMessage \in DOMAIN status' => c \in DOMAIN chats' /\ status'[NextMessage] = "sent"
         /\ \A m \in DOMAIN status : status'[m] = status[m]
         /\ shown' = [shown EXCEPT ![u] = @ \cup {c}]
         /\ handler' = [handler EXCEPT ![u] = Does("creating", {c})]
         /\ UNCHANGED <<opened, attached, active, tokens, cooldown, blacklist, wire, fetched, known, seen, declined>>
<1>1. /\ u = Members[c][1] /\ c \in ChatsOf(u) /\ <<u, c>> \in Writers
      /\ u \in attached /\ handler[u].phase = "serving"
      /\ \A m \in DOMAIN said : said[m].chat # c
      /\ Say(u, c) /\ Len(said) < MaxMessages
      /\ shown' = [shown EXCEPT ![u] = @ \cup {c}]
      /\ handler' = [handler EXCEPT ![u] = Does("creating", {c})]
      /\ UNCHANGED <<opened, attached, active, tokens, cooldown, blacklist, wire, fetched, known, seen, declined>>
  BY Pairs DEF CreateChat, Serves, socketVars, pushVars
<1>2. NextMessage \notin DOMAIN status
  BY <1>1, Says DEF TypeOK, Stored
<1>3. CASE \E d \in DOMAIN chats : Members[d] = Members[c]
  <2>1. chats' = chats /\ status' = status
    BY <1>3 DEF CreateChat
  <2>2. QED
    BY <1>1, <1>2, <1>3, <2>1 DEF TypeOK
<1>4. CASE ~ \E d \in DOMAIN chats : Members[d] = Members[c]
  <2>1. chats' = Put(chats, c, "requested") /\ status' \in {status, Put(status, NextMessage, "sent")}
    BY <1>4 DEF CreateChat
  <2>2. /\ DOMAIN chats' = DOMAIN chats \cup {c}
        /\ chats'[c] = "requested" /\ \A d \in DOMAIN chats \ {c} : chats'[d] = chats[d]
    BY <2>1 DEF Put
  <2>3. /\ DOMAIN status \subseteq DOMAIN status' /\ DOMAIN status' \subseteq DOMAIN status \cup {NextMessage}
        /\ NextMessage \in DOMAIN status' => status'[NextMessage] = "sent"
        /\ \A m \in DOMAIN status : status'[m] = status[m]
    BY <1>2, <2>1 DEF Put
  <2>4. \A d \in DOMAIN chats' : chats'[d] \in {"requested", "opened", "accepted"}
    BY <2>2 DEF TypeOK
  <2>5. QED
    BY <1>1, <2>2, <2>3, <2>4
<1>5. QED
  BY <1>3, <1>4

\* The event of a chat that has been created carries the one message of its creator.
LEMMA CreatedEvent ==
  ASSUME TypeOK, MessagesInv, NEW u \in User, NEW c \in Chat, ChatCreated(u, c)
  PROVE  /\ handler[u] = Does("creating", {c})
         /\ \E m \in DOMAIN said :
              /\ {n \in DOMAIN said : said[n] = [from |-> u, chat |-> c]} = {m}
              /\ said[m].from = u /\ said[m].chat = c /\ m \in 0..MaxMessages
              /\ Event("create", c, m) \in WireEvent
              /\ Appended(Other(u, c), Event("create", c, m))
         /\ handler' = [handler EXCEPT ![u] = handler'[u]]
         /\ handler'[u] \in {Does("serving", {}), Does("cooldown?", {c})}
         /\ UNCHANGED <<socketVars, pushVars, database, said, clientVars>>
<1>1. handler[u] = Does("creating", {c}) /\ UNCHANGED <<socketVars, pushVars, database, said, clientVars>>
  BY DEF ChatCreated
<1>2. PICK m \in DOMAIN said : {n \in DOMAIN said : said[n] = [from |-> u, chat |-> c]} = {m}
  BY <1>1 DEF MessagesInv
<1>3. (CHOOSE n \in DOMAIN said : said[n] = [from |-> u, chat |-> c]) = m
  BY <1>2
<1>4. said[m].from = u /\ said[m].chat = c
  <2>1. said[m] = [from |-> u, chat |-> c]
    BY <1>2
  <2>2. QED
    BY <2>1
<1>5. m \in 0..MaxMessages
  <2>1. said \in Seq(Message) /\ Len(said) <= MaxMessages /\ MaxMessages \in Nat
    BY ConversationsAssumption DEF TypeOK
  <2>2. QED
    BY <2>1
<1>6. Event("create", c, m) \in WireEvent
  BY <1>5, Events
<1>7. Forward(u, c, Event("create", c, m))
  BY <1>3 DEF ChatCreated
<1>8. QED
  BY <1>1, <1>2, <1>4, <1>5, <1>6, <1>7, Forwards

\* A message goes to a chat of the pair, or is refused.
LEMMA Posts ==
  ASSUME TypeOK, NEW u \in User, NEW c \in Chat, PostMessage(u, c)
  PROVE  /\ u \in attached /\ handler[u].phase = "serving"
         /\ <<u, c>> \in Writers /\ c \in shown[u] /\ Len(said) < MaxMessages
         /\ \E d \in Chat :
              /\ {Members[d][1], Members[d][2]} = {Members[c][1], Members[c][2]}
              /\ Say(u, d)
              /\ \/ /\ d \in DOMAIN chats
                    /\ Event("message", c, NextMessage) \in WireEvent
                    /\ status' = Put(status, NextMessage, "sent")
                    /\ Appended(Other(u, c), Event("message", c, NextMessage))
                    /\ handler' = [handler EXCEPT ![u] = handler'[u]]
                    /\ handler'[u] \in {Does("serving", {}), Does("cooldown?", {c})}
                 \/ UNCHANGED <<status, wire, handler>>
         /\ UNCHANGED <<socketVars, pushVars, chats, blacklist, clientVars>>
<1>1. /\ u \in attached /\ handler[u].phase = "serving"
      /\ <<u, c>> \in Writers /\ c \in shown[u] /\ Len(said) < MaxMessages
      /\ UNCHANGED <<socketVars, pushVars, chats, blacklist, clientVars>>
  BY DEF PostMessage, Serves
<1>2. CASE Cardinality(Between(chats, c)) = 1
  <2>1. PICK d \in Between(chats, c) : Say(u, d)
    BY <1>2 DEF PostMessage
  <2>2. /\ d \in DOMAIN chats /\ d \in Chat
        /\ {Members[d][1], Members[d][2]} = {Members[c][1], Members[c][2]}
    BY <2>1 DEF Between, TypeOK
  <2>3. status' = Put(status, NextMessage, "sent") /\ Forward(u, c, Event("message", c, NextMessage))
    BY <1>2 DEF PostMessage
  <2>4. Event("message", c, NextMessage) \in WireEvent
    <3>1. said \in Seq(Message) /\ MaxMessages \in Nat
      BY ConversationsAssumption DEF TypeOK
    <3>2. NextMessage \in 0..MaxMessages
      BY <1>1, <3>1 DEF NextMessage
    <3>3. QED
      BY <3>2, Events
  <2>5. QED
    BY <1>1, <2>1, <2>2, <2>3, <2>4, Forwards
<1>3. CASE Cardinality(Between(chats, c)) # 1
  <2>1. Say(u, c) /\ UNCHANGED <<status, wire, handler>>
    BY <1>3 DEF PostMessage
  <2>2. QED
    BY <1>1, <2>1
<1>4. QED
  BY <1>2, <1>3

\* A chat that is accepted.
LEMMA AcceptsChat ==
  ASSUME TypeOK, NEW u \in User, NEW c \in Chat, AcceptChat(u, c)
  PROVE  /\ u \in attached /\ handler[u].phase = "serving" /\ c \in shown[u]
         /\ DOMAIN chats' = DOMAIN chats
         /\ \A d \in DOMAIN chats' : chats'[d] \in {"requested", "opened", "accepted"}
         /\ Event("accept", c, 0) \in WireEvent
         /\ Appended(Other(u, c), Event("accept", c, 0))
         /\ handler' = [handler EXCEPT ![u] = handler'[u]]
         /\ handler'[u] \in {Does("serving", {}), Does("cooldown?", {c})}
         /\ UNCHANGED <<socketVars, pushVars, blacklist, said, status, clientVars>>
<1>1. Event("accept", c, 0) \in WireEvent
  BY Events
<1>2. Forward(u, c, Event("accept", c, 0))
  BY DEF AcceptChat
<1>3. \A d \in DOMAIN chats' : chats'[d] \in {"requested", "opened", "accepted"}
  BY DEF AcceptChat, TypeOK
<1>4. QED
  BY <1>1, <1>2, <1>3, Forwards DEF AcceptChat, Serves

\* A chat that is declined goes with its messages.
LEMMA DeclinesChat ==
  ASSUME TypeOK, NEW u \in User, NEW c \in Chat, DeclineChat(u, c)
  PROVE  /\ u \in attached /\ handler[u].phase = "serving" /\ c \in shown[u]
         /\ shown' = [shown EXCEPT ![u] = @ \ {c}]
         /\ declined' = declined \cup {<<u, c>>}
         /\ \/ /\ c \in DOMAIN chats
               /\ DOMAIN chats' = DOMAIN chats \ {c} /\ \A d \in DOMAIN chats' : chats'[d] = chats[d]
               /\ DOMAIN status' = {m \in Stored : said[m].chat # c}
               /\ \A m \in DOMAIN status' : status'[m] = status[m]
               /\ blacklist' = blacklist \cup {<<u, Other(u, c)>>}
               /\ handler' = [handler EXCEPT ![u] = handler'[u]]
               /\ IF <<u, Other(u, c)>> \in blacklist THEN handler'[u] = handler[u]
                  ELSE handler'[u] = Does("declining", {c})
            \/ c \notin DOMAIN chats /\ UNCHANGED <<chats, status, blacklist, handler>>
         /\ UNCHANGED <<socketVars, pushVars, said, wire, fetched, known, seen>>
<1>1. /\ u \in attached /\ handler[u].phase = "serving" /\ c \in shown[u]
      /\ shown' = [shown EXCEPT ![u] = @ \ {c}]
      /\ declined' = declined \cup {<<u, c>>}
      /\ UNCHANGED <<socketVars, pushVars, said, wire, fetched, known, seen>>
  BY DEF DeclineChat, Serves
<1>2. CASE c \in DOMAIN chats
  <2>1. /\ WithoutChat(c) /\ blacklist' = blacklist \cup {<<u, Other(u, c)>>}
        /\ handler' = [handler EXCEPT ![u] = IF <<u, Other(u, c)>> \in blacklist THEN @ ELSE Does("declining", {c})]
    BY <1>2 DEF DeclineChat
  <2>2. /\ DOMAIN chats' = DOMAIN chats \ {c} /\ \A d \in DOMAIN chats' : chats'[d] = chats[d]
        /\ DOMAIN status' = {m \in Stored : said[m].chat # c}
        /\ \A m \in DOMAIN status' : status'[m] = status[m]
    BY <2>1 DEF WithoutChat
  <2>3. /\ handler' = [handler EXCEPT ![u] = handler'[u]]
        /\ IF <<u, Other(u, c)>> \in blacklist THEN handler'[u] = handler[u]
           ELSE handler'[u] = Does("declining", {c})
    BY <2>1 DEF TypeOK
  <2>4. QED
    BY <1>1, <1>2, <2>1, <2>2, <2>3
<1>3. CASE c \notin DOMAIN chats
  BY <1>1, <1>3 DEF DeclineChat
<1>4. QED
  BY <1>2, <1>3

\* The other member is told so.
LEMMA TellsDecline ==
  ASSUME TypeOK, NEW u \in User, NEW c \in Chat, ChatDeclined(u, c)
  PROVE  /\ handler[u] = Does("declining", {c})
         /\ handler' = [handler EXCEPT ![u] = Does("serving", {})]
         /\ Event("decline", c, 0) \in WireEvent
         /\ Appended(Other(u, c), Event("decline", c, 0))
         /\ UNCHANGED <<socketVars, pushVars, database, said, clientVars>>
<1>1. Event("decline", c, 0) \in WireEvent /\ Other(u, c) \in User
  BY Events, Pairs
<1>2. wire' = Written(Other(u, c), Event("decline", c, 0)) /\ wire \in [User -> Seq(WireEvent)]
  BY DEF ChatDeclined, TypeOK
<1>3. QED
  BY <1>1, <1>2, Writes DEF ChatDeclined

\* What a client reads is the first of what it was sent.
LEMMA ReadsWire ==
  ASSUME TypeOK, NEW u \in User, ReadWire(u)
  PROVE  /\ u \in attached /\ wire[u] # <<>> /\ 1 \in 1..Len(wire[u]) /\ wire[u][1] \in WireEvent
         /\ Len(wire[u]) \in Nat /\ Len(wire'[u]) = Len(wire[u]) - 1
         /\ wire' \in [User -> Seq(WireEvent)]
         /\ \A v \in User \ {u} : wire'[v] = wire[v]
         /\ \A i \in 1..Len(wire'[u]) : i + 1 \in 1..Len(wire[u]) /\ wire'[u][i] = wire[u][i + 1]
         /\ \A i \in 2..Len(wire[u]) : i - 1 \in 1..Len(wire'[u]) /\ wire'[u][i - 1] = wire[u][i]
         /\ known' = IF Carries(wire[u][1]) THEN [known EXCEPT ![u] = @ \cup {wire[u][1].id}] ELSE known
         /\ shown' = CASE wire[u][1].type = "create" -> [shown EXCEPT ![u] = @ \cup {wire[u][1].chat}]
                       [] wire[u][1].type = "decline" -> [shown EXCEPT ![u] = @ \ {wire[u][1].chat}]
                       [] OTHER -> shown
         /\ UNCHANGED <<socketVars, handler, pushVars, database, said, fetched, seen, declined>>
<1>1. wire[u] \in Seq(WireEvent) /\ wire[u] # <<>> /\ wire' = [wire EXCEPT ![u] = Tail(@)]
  BY DEF ReadWire, TypeOK
<1>2. Head(wire[u]) = wire[u][1]
  BY <1>1
<1>3. /\ Len(wire[u]) \in Nat /\ 1 \in 1..Len(wire[u]) /\ wire[u][1] \in WireEvent
      /\ Tail(wire[u]) \in Seq(WireEvent) /\ Len(Tail(wire[u])) = Len(wire[u]) - 1
      /\ \A i \in 1..Len(Tail(wire[u])) : i + 1 \in 1..Len(wire[u]) /\ Tail(wire[u])[i] = wire[u][i + 1]
  BY <1>1
<1>4. \A i \in 2..Len(wire[u]) : i - 1 \in 1..Len(Tail(wire[u])) /\ Tail(wire[u])[i - 1] = wire[u][i]
  BY <1>3
<1>5. wire' \in [User -> Seq(WireEvent)] /\ wire'[u] = Tail(wire[u]) /\ \A v \in User \ {u} : wire'[v] = wire[v]
  BY <1>1, <1>3 DEF TypeOK
<1>6. /\ known' = IF Carries(wire[u][1]) THEN [known EXCEPT ![u] = @ \cup {wire[u][1].id}] ELSE known
      /\ shown' = CASE wire[u][1].type = "create" -> [shown EXCEPT ![u] = @ \cup {wire[u][1].chat}]
                    [] wire[u][1].type = "decline" -> [shown EXCEPT ![u] = @ \ {wire[u][1].chat}]
                    [] OTHER -> shown
      /\ UNCHANGED <<socketVars, handler, pushVars, database, said, fetched, seen, declined>>
      /\ u \in attached
  BY <1>2 DEF ReadWire, Carries
<1>7. QED
  BY <1>1, <1>3, <1>4, <1>5, <1>6

-------------------------------------------------------------------------------
(* Types *)

\* At the start nothing is there.
LEMMA TypeInit == Init => TypeOK /\ HandlersInv /\ ClientsInv /\ MessagesInv
<1> SUFFICES ASSUME Init PROVE TypeOK /\ HandlersInv /\ ClientsInv /\ MessagesInv
  OBVIOUS
<1>1. \A u \in User : handler[u] = Does("away", {}) /\ handler[u].phase = "away" /\ handler[u].chat = {}
  BY DoesWhat DEF Init
<1>2. handler \in [User -> HandlerState]
  BY <1>1, DoesWhat DEF Init, Phases
<1>3. said \in Seq(Message) /\ Len(said) = 0 /\ <<>> \in Seq(WireEvent) /\ DOMAIN said = {}
  BY DEF Init
<1>4. TypeOK
  BY <1>2, <1>3, ConversationsAssumption DEF Init, TypeOK, NoChat, Stored
<1>5. HandlersInv
  BY <1>1 DEF Init, HandlersInv
<1>6. ClientsInv
  BY <1>3 DEF Init, ClientsInv, Meant
<1>7. MessagesInv
  BY <1>1, <1>3, DoesWhat DEF Init, MessagesInv, NoChat
<1>8. QED
  BY <1>4, <1>5, <1>6, <1>7

\* What stays as it is in the tables, the wires and the clients stays well-typed.
LEMMA QuietType ==
  ASSUME TypeOK, UNCHANGED <<said, wire, shown, known, seen, declined>>, fetched' \subseteq attached',
         opened' \in [User -> Nat], \A u \in User : opened'[u] <= MaxConnects[u],
         attached' \in SUBSET User, handler' \in [User -> HandlerState],
         active' \in SUBSET User, tokens' \in SUBSET User, cooldown' \in SUBSET (User \X User),
         UNCHANGED database
  PROVE  TypeOK'
BY DEF TypeOK, Stored, database

\* Handlers stay well-typed.
LEMMA HandlerType ==
  ASSUME TypeOK, NEW u \in User, NEW x \in HandlerState, handler' = [handler EXCEPT ![u] = x]
  PROVE  handler' \in [User -> HandlerState]
BY DEF TypeOK

\* Every step keeps the types.
LEMMA TypeStep ==
  ASSUME TypeOK, HandlersInv, ClientsInv, MessagesInv, [Next]_vars
  PROVE  TypeOK'
<1>p. \A p \in {"away", "joining", "joined", "serving", "creating", "declining",
                  "cooldown?", "token?", "pushed", "leaving"} :
        Does(p, {}) \in HandlerState /\ \A c \in Chat : Does(p, {c}) \in HandlerState
  BY DoesWhat DEF Phases
<1>h. ASSUME NEW u \in User, NEW x \in HandlerState, handler' = [handler EXCEPT ![u] = x]
      PROVE  handler' \in [User -> HandlerState]
  BY <1>h, HandlerType
<1>f. ASSUME NEW u \in User, NEW c \in Chat,
             handler' = [handler EXCEPT ![u] = handler'[u]],
             handler'[u] \in {Does("serving", {}), Does("cooldown?", {c})}
      PROVE  handler' \in [User -> HandlerState]
  <2>1. handler'[u] \in HandlerState
    BY <1>p, <1>f
  <2>2. PICK x \in HandlerState : x = handler'[u]
    BY <2>1
  <2>3. QED
    BY <1>f, <1>h, <2>2
<1>1. ASSUME NEW u \in User, Connect(u) PROVE TypeOK'
  <2>1. handler' \in [User -> HandlerState]
    BY <1>p, <1>h, <1>1 DEF Connect
  <2>2. opened' \in [User -> Nat] /\ \A v \in User : opened'[v] <= MaxConnects[v]
    <3>1. opened[u] \in Nat /\ MaxConnects[u] \in Nat /\ opened[u] < MaxConnects[u] /\ opened \in [User -> Nat]
      BY <1>1, ConversationsAssumption DEF Connect, TypeOK
    <3>2. opened' = [opened EXCEPT ![u] = opened[u] + 1]
      BY <1>1 DEF Connect
    <3>3. opened[u] + 1 <= MaxConnects[u] /\ opened[u] + 1 \in Nat
      BY <3>1
    <3>4. QED
      BY <3>1, <3>2, <3>3 DEF TypeOK
  <2>3. QED
    BY <1>1, <2>1, <2>2, QuietType DEF Connect, TypeOK, pushVars, clientVars
<1>2. ASSUME NEW u \in User, DropToken(u) PROVE TypeOK'
  <2>1. handler' \in [User -> HandlerState]
    BY <1>p, <1>h, <1>2 DEF DropToken
  <2>2. QED
    BY <1>2, <2>1, QuietType DEF DropToken, TypeOK, socketVars, clientVars
<1>3. ASSUME NEW u \in User, Register(u) PROVE TypeOK'
  <2>1. handler' \in [User -> HandlerState]
    BY <1>p, <1>h, <1>3 DEF Register
  <2>2. QED
    BY <1>3, <2>1, QuietType DEF Register, TypeOK, pushVars, clientVars
<1>4. ASSUME NEW u \in User, Drop(u) PROVE TypeOK'
  <2>1. wire' \in [User -> Seq(WireEvent)]
    <3>1. <<>> \in Seq(WireEvent)
      OBVIOUS
    <3>2. QED
      BY <1>4, <3>1 DEF Drop, TypeOK
  <2>2. QED
    BY <1>4, <2>1 DEF Drop, TypeOK, Stored, pushVars, database
<1>5. ASSUME NEW u \in User, Disconnect(u) PROVE TypeOK'
  <2>1. handler' \in [User -> HandlerState]
    BY <1>p, <1>h, <1>5 DEF Disconnect
  <2>2. QED
    BY <1>5, <2>1, QuietType DEF Disconnect, TypeOK, pushVars, clientVars
<1>6. ASSUME NEW u \in User, KeepToken(u) PROVE TypeOK'
  <2>1. handler' \in [User -> HandlerState]
    BY <1>p, <1>h, <1>6 DEF KeepToken
  <2>2. QED
    BY <1>6, <2>1, QuietType DEF KeepToken, TypeOK, socketVars, clientVars
<1>7. ASSUME NEW u \in User, NEW c \in Chat, CreateChat(u, c) PROVE TypeOK'
  <2>1. handler' \in [User -> HandlerState]
    <3>1. handler' = [handler EXCEPT ![u] = Does("creating", {c})] /\ Does("creating", {c}) \in HandlerState
      BY <1>p, <1>7, Creates
    <3>2. QED
      BY <1>h, <3>1
  <2>2. /\ said' \in Seq(Message) /\ Len(said') <= MaxMessages
        /\ DOMAIN said' = DOMAIN said \cup {NextMessage}
        /\ \A m \in DOMAIN said : said'[m] = said[m]
        /\ said'[NextMessage].chat = c
    <3>1. Say(u, c) /\ Len(said) < MaxMessages /\ said \in Seq(Message) /\ MaxMessages \in Nat
      BY <1>7, Creates, ConversationsAssumption DEF TypeOK
    <3>2. /\ said' \in Seq(Message) /\ Len(said') = Len(said) + 1 /\ Len(said) \in Nat
          /\ DOMAIN said' = DOMAIN said \cup {NextMessage}
          /\ \A m \in DOMAIN said : said'[m] = said[m]
          /\ said'[NextMessage] = [from |-> u, chat |-> c]
      BY <3>1, Says
    <3>3. Len(said') <= MaxMessages
      BY <3>1, <3>2
    <3>4. QED
      BY <3>2, <3>3
  <2>3. /\ DOMAIN chats \subseteq DOMAIN chats' /\ DOMAIN chats' \subseteq DOMAIN chats \cup {c}
        /\ \A d \in DOMAIN chats' : chats'[d] \in {"requested", "opened", "accepted"}
        /\ DOMAIN status \subseteq DOMAIN status' /\ DOMAIN status' \subseteq DOMAIN status \cup {NextMessage}
        /\ NextMessage \in DOMAIN status' => c \in DOMAIN chats' /\ status'[NextMessage] = "sent"
        /\ \A m \in DOMAIN status : status'[m] = status[m]
        /\ shown' = [shown EXCEPT ![u] = @ \cup {c}]
        /\ UNCHANGED <<opened, attached, active, tokens, cooldown, blacklist, wire, fetched, known, seen, declined>>
    BY <1>7, Creates
  <2>4. /\ DOMAIN status' \subseteq {m \in DOMAIN said' : said'[m].chat \in DOMAIN chats'}
        /\ \A m \in DOMAIN status' : status'[m] \in {"sent", "received", "read"}
    BY <2>2, <2>3 DEF TypeOK, Stored
  <2>5. shown' \in [User -> SUBSET Chat]
    BY <2>3 DEF TypeOK
  <2>6. known' \in [User -> SUBSET (DOMAIN said')] /\ seen' \in [User -> SUBSET (DOMAIN said')]
    BY <2>2, <2>3 DEF TypeOK
  <2>7. QED
    BY <2>1, <2>2, <2>3, <2>4, <2>5, <2>6 DEF TypeOK, Stored
<1>8. ASSUME NEW u \in User, NEW c \in Chat, ChatCreated(u, c) PROVE TypeOK'
  <2>1. handler' \in [User -> HandlerState] /\ wire' \in [User -> Seq(WireEvent)]
    BY <1>f, <1>8, CreatedEvent DEF Appended
  <2>2. UNCHANGED <<socketVars, pushVars, database, said, clientVars>>
    BY <1>8 DEF ChatCreated
  <2>3. QED
    BY <2>1, <2>2 DEF TypeOK, Stored, socketVars, pushVars, database, clientVars
<1>9. ASSUME NEW u \in User, NEW c \in Chat, PostMessage(u, c) PROVE TypeOK'
  <2>1. /\ Len(said) < MaxMessages /\ UNCHANGED <<socketVars, pushVars, chats, blacklist, clientVars>>
    BY <1>9, Posts
  <2>2. PICK d \in Chat :
          /\ Say(u, d)
          /\ \/ /\ d \in DOMAIN chats
                /\ status' = Put(status, NextMessage, "sent")
                /\ wire' \in [User -> Seq(WireEvent)]
                /\ handler' = [handler EXCEPT ![u] = handler'[u]]
                /\ handler'[u] \in {Does("serving", {}), Does("cooldown?", {c})}
             \/ UNCHANGED <<status, wire, handler>>
    BY <1>9, Posts DEF Appended
  <2>3. handler' \in [User -> HandlerState] /\ wire' \in [User -> Seq(WireEvent)]
    BY <1>f, <2>2 DEF TypeOK
  <2>4. /\ said' \in Seq(Message) /\ Len(said') <= MaxMessages
        /\ DOMAIN said' = DOMAIN said \cup {NextMessage}
        /\ \A m \in DOMAIN said : said'[m] = said[m]
        /\ said'[NextMessage].chat = d
    <3>1. Say(u, d) /\ Len(said) < MaxMessages /\ said \in Seq(Message) /\ MaxMessages \in Nat
      BY <2>1, <2>2, ConversationsAssumption DEF TypeOK
    <3>2. /\ said' \in Seq(Message) /\ Len(said') = Len(said) + 1 /\ Len(said) \in Nat
          /\ DOMAIN said' = DOMAIN said \cup {NextMessage}
          /\ \A m \in DOMAIN said : said'[m] = said[m]
          /\ said'[NextMessage] = [from |-> u, chat |-> d]
      BY <3>1, Says
    <3>3. Len(said') <= MaxMessages
      BY <3>1, <3>2
    <3>4. QED
      BY <3>2, <3>3
  <2>5. /\ DOMAIN status' \subseteq {m \in DOMAIN said' : said'[m].chat \in DOMAIN chats}
        /\ \A m \in DOMAIN status' : status'[m] \in {"sent", "received", "read"}
    BY <2>2, <2>4 DEF Put, TypeOK, Stored
  <2>6. known' \in [User -> SUBSET (DOMAIN said')] /\ seen' \in [User -> SUBSET (DOMAIN said')]
    BY <2>1, <2>4 DEF TypeOK, clientVars
  <2>7. QED
    BY <2>1, <2>3, <2>4, <2>5, <2>6 DEF TypeOK, Stored, socketVars, pushVars, clientVars
<1>10. ASSUME NEW u \in User, NEW c \in Chat, AcceptChat(u, c) PROVE TypeOK'
  <2>1. handler' \in [User -> HandlerState] /\ wire' \in [User -> Seq(WireEvent)]
    BY <1>f, <1>10, AcceptsChat DEF Appended
  <2>2. /\ DOMAIN chats' = DOMAIN chats
        /\ \A d \in DOMAIN chats' : chats'[d] \in {"requested", "opened", "accepted"}
        /\ UNCHANGED <<socketVars, pushVars, blacklist, said, status, clientVars>>
    BY <1>10, AcceptsChat
  <2>3. QED
    BY <2>1, <2>2 DEF TypeOK, Stored, socketVars, pushVars, clientVars
<1>11. ASSUME NEW u \in User, NEW c \in Chat, OpenChat(u, c) PROVE TypeOK'
  <2>1. DOMAIN chats' = DOMAIN chats /\ \A d \in DOMAIN chats' : chats'[d] \in {"requested", "opened", "accepted"}
    BY <1>11 DEF OpenChat, TypeOK
  <2>2. QED
    BY <1>11, <2>1 DEF OpenChat, TypeOK, Stored, socketVars, pushVars, clientVars
<1>12. ASSUME NEW u \in User, NEW c \in Chat, DeclineChat(u, c) PROVE TypeOK'
  <2>1. /\ shown' = [shown EXCEPT ![u] = @ \ {c}]
        /\ declined' = declined \cup {<<u, c>>}
        /\ UNCHANGED <<socketVars, pushVars, said, wire, fetched, known, seen>>
    BY <1>12, DeclinesChat
  <2>2. CASE /\ DOMAIN chats' = DOMAIN chats \ {c} /\ \A d \in DOMAIN chats' : chats'[d] = chats[d]
             /\ DOMAIN status' = {m \in Stored : said[m].chat # c}
             /\ \A m \in DOMAIN status' : status'[m] = status[m]
             /\ blacklist' = blacklist \cup {<<u, Other(u, c)>>}
             /\ handler' = [handler EXCEPT ![u] = handler'[u]]
             /\ IF <<u, Other(u, c)>> \in blacklist THEN handler'[u] = handler[u]
                ELSE handler'[u] = Does("declining", {c})
    <3>1. handler' \in [User -> HandlerState]
      <4>1. handler'[u] \in HandlerState
        BY <1>p, <2>2 DEF TypeOK
      <4>2. PICK x \in HandlerState : x = handler'[u]
        BY <4>1
      <4>3. QED
        BY <1>h, <2>2, <4>2
    <3>2. blacklist' \in SUBSET (User \X User)
      BY <2>2, Pairs DEF TypeOK
    <3>3. /\ DOMAIN status' \subseteq {m \in DOMAIN said : said[m].chat \in DOMAIN chats'}
          /\ \A m \in DOMAIN status' : status'[m] \in {"sent", "received", "read"}
      BY <2>2 DEF TypeOK, Stored
    <3>4. shown' \in [User -> SUBSET Chat] /\ declined' \in SUBSET (User \X Chat)
      BY <2>1 DEF TypeOK
    <3>5. QED
      BY <2>1, <2>2, <3>1, <3>2, <3>3, <3>4 DEF TypeOK, Stored, socketVars, pushVars
  <2>3. CASE UNCHANGED <<chats, status, blacklist, handler>>
    <3>1. shown' \in [User -> SUBSET Chat] /\ declined' \in SUBSET (User \X Chat)
      BY <2>1 DEF TypeOK
    <3>2. QED
      BY <2>1, <2>3, <3>1 DEF TypeOK, Stored, socketVars, pushVars
  <2>4. QED
    BY <1>12, <2>2, <2>3, DeclinesChat
<1>13. ASSUME NEW u \in User, NEW c \in Chat, ChatDeclined(u, c) PROVE TypeOK'
  <2>1. handler' \in [User -> HandlerState] /\ wire' \in [User -> Seq(WireEvent)]
    BY <1>p, <1>h, <1>13, TellsDecline DEF Appended
  <2>2. UNCHANGED <<socketVars, pushVars, database, said, clientVars>>
    BY <1>13, TellsDecline
  <2>3. QED
    BY <2>1, <2>2 DEF TypeOK, Stored, socketVars, pushVars, database, clientVars
<1>14. ASSUME NEW u \in User, NEW m \in 1..MaxMessages, Receive(u, m) PROVE TypeOK'
  <2>1. DOMAIN status' = DOMAIN status /\ \A x \in DOMAIN status' : status'[x] \in {"sent", "received", "read"}
    BY <1>14 DEF Receive, TypeOK, Stored
  <2>2. QED
    BY <1>14, <2>1 DEF Receive, TypeOK, Stored, socketVars, pushVars, clientVars
<1>15. ASSUME NEW u \in User, NEW m \in 1..MaxMessages, ReadMessage(u, m) PROVE TypeOK'
  <2>1. DOMAIN status' = DOMAIN status /\ \A x \in DOMAIN status' : status'[x] \in {"sent", "received", "read"}
    BY <1>15 DEF ReadMessage, MarkedRead, TypeOK, Stored
  <2>2. seen' \in [User -> SUBSET (DOMAIN said)]
    BY <1>15 DEF ReadMessage, TypeOK
  <2>3. QED
    BY <1>15, <2>1, <2>2 DEF ReadMessage, TypeOK, Stored, socketVars, pushVars
<1>16. ASSUME NEW u \in User, AskCooldown(u) \/ AskToken(u) \/ StartCooldown(u) PROVE TypeOK'
  <2>1. PICK c \in Chat : \E p \in {"serving", "token?", "pushed"}, S \in {{}, {c}} :
                             handler' = [handler EXCEPT ![u] = Does(p, S)]
    BY <1>16 DEF AskCooldown, AskToken, StartCooldown
  <2>2. handler' \in [User -> HandlerState]
    BY <1>p, <1>h, <2>1
  <2>3. cooldown' \in SUBSET (User \X User)
    <3>1. PICK d \in Chat : cooldown' = cooldown \/ cooldown' = cooldown \cup {<<u, Other(u, d)>>}
      BY <1>16 DEF AskCooldown, AskToken, StartCooldown, pushVars
    <3>2. Other(u, d) \in User
      BY Pairs
    <3>3. QED
      BY <3>1, <3>2 DEF TypeOK
  <2>4. UNCHANGED <<socketVars, tokens, database, said, wire, clientVars>>
    BY <1>16 DEF AskCooldown, AskToken, StartCooldown, pushVars
  <2>5. QED
    BY <2>2, <2>3, <2>4, QuietType DEF TypeOK, socketVars, clientVars
<1>17. ASSUME NEW u \in User, NEW v \in User, CooldownEnds(u, v) PROVE TypeOK'
  BY <1>17, QuietType DEF CooldownEnds, TypeOK, socketVars, clientVars
<1>18. ASSUME NEW u \in User, Fetch(u) PROVE TypeOK'
  <2>1. known' \in [User -> SUBSET (DOMAIN said)]
    BY <1>18 DEF Fetch, For, TypeOK
  <2>2. shown' \in [User -> SUBSET Chat]
    BY <1>18 DEF Fetch, ChatsOf, TypeOK
  <2>3. QED
    BY <1>18, <2>1, <2>2 DEF Fetch, TypeOK, Stored, socketVars, pushVars, database
<1>19. ASSUME NEW u \in User, ReadWire(u) PROVE TypeOK'
  <2> DEFINE e == wire[u][1]
  <2>1. /\ e \in WireEvent /\ 1 \in 1..Len(wire[u])
        /\ wire' \in [User -> Seq(WireEvent)]
        /\ known' = IF Carries(e) THEN [known EXCEPT ![u] = @ \cup {e.id}] ELSE known
        /\ shown' = CASE e.type = "create" -> [shown EXCEPT ![u] = @ \cup {e.chat}]
                      [] e.type = "decline" -> [shown EXCEPT ![u] = @ \ {e.chat}]
                      [] OTHER -> shown
        /\ UNCHANGED <<socketVars, handler, pushVars, database, said, fetched, seen, declined>>
    BY <1>19, ReadsWire
  <2>2. Carries(e) => e.id \in DOMAIN said
    BY <2>1 DEF ClientsInv, Meant
  <2>3. e.chat \in Chat
    BY <2>1 DEF WireEvent
  <2> HIDE DEF e
  <2>4. known' \in [User -> SUBSET (DOMAIN said)]
    BY <2>1, <2>2 DEF TypeOK
  <2>5. shown' \in [User -> SUBSET Chat]
    <3>1. shown' \in {[shown EXCEPT ![u] = @ \cup {e.chat}], [shown EXCEPT ![u] = @ \ {e.chat}], shown}
      BY <2>1
    <3>2. shown \in [User -> SUBSET Chat]
      BY DEF TypeOK
    <3>3. /\ [shown EXCEPT ![u] = @ \cup {e.chat}] \in [User -> SUBSET Chat]
          /\ [shown EXCEPT ![u] = @ \ {e.chat}] \in [User -> SUBSET Chat]
      BY <2>3, <3>2
    <3>4. QED
      BY <3>1, <3>2, <3>3
  <2>6. QED
    BY <2>1, <2>4, <2>5 DEF TypeOK, Stored, socketVars, pushVars, database
<1>20. CASE UNCHANGED vars
  BY <1>20 DEF vars, TypeOK, Stored
<1>21. QED
  BY <1>1, <1>2, <1>3, <1>4, <1>5, <1>6, <1>7, <1>8, <1>9, <1>10, <1>11, <1>12, <1>13, <1>14, <1>15,
     <1>16, <1>17, <1>18, <1>19, <1>20 DEF Next

-------------------------------------------------------------------------------
(* Handlers *)

Idle == {"away", "joining", "joined", "serving", "leaving"}
Unregistered == {"away", "joining", "joined", "leaving"}

\* A handler that goes on to phase p, for a chat or none.
LEMMA HandlerMoves ==
  ASSUME TypeOK, HandlersInv, NEW u \in User, NEW p \in Phases, NEW S,
         handler' = [handler EXCEPT ![u] = Does(p, S)],
         \A v \in User \ {u} : (v \in active' <=> v \in active) /\ (v \in attached' => v \in attached),
         IF p \in Idle THEN S = {} ELSE \E c \in ChatsOf(u) : S = {c},
         u \in active' <=> p \notin Unregistered,
         p \in {"away", "leaving"} => u \notin attached'
  PROVE  HandlersInv'
<1>1. /\ handler'[u].phase = p /\ handler'[u].chat = S
      /\ \A v \in User \ {u} : handler'[v] = handler[v]
  BY DoesWhat DEF TypeOK
<1>2. ASSUME NEW v \in User \ {u}
      PROVE  /\ IF handler'[v].phase \in Idle THEN handler'[v].chat = {}
                ELSE \E c \in ChatsOf(v) : handler'[v].chat = {c}
             /\ v \in active' <=> handler'[v].phase \notin Unregistered
             /\ handler'[v].phase \in {"away", "leaving"} => v \notin attached'
  BY <1>1 DEF HandlersInv, Idle, Unregistered
<1>3. \A v \in User :
        /\ IF handler'[v].phase \in Idle THEN handler'[v].chat = {}
           ELSE \E c \in ChatsOf(v) : handler'[v].chat = {c}
        /\ v \in active' <=> handler'[v].phase \notin Unregistered
        /\ handler'[v].phase \in {"away", "leaving"} => v \notin attached'
  BY <1>1, <1>2
<1>4. QED
  BY <1>3 DEF HandlersInv, Idle, Unregistered

\* The chat a busy handler is about is one of its user's.
LEMMA BusyWith ==
  ASSUME HandlersInv, NEW u \in User, NEW c, NEW p \in Phases \ Idle, handler[u] = Does(p, {c})
  PROVE  c \in ChatsOf(u) /\ u \in active
<1>1. handler[u].phase = p /\ handler[u].chat = {c} /\ p \notin Unregistered
  BY DoesWhat DEF Idle, Unregistered
<1>2. \E d \in ChatsOf(u) : handler[u].chat = {d}
  BY <1>1 DEF HandlersInv, Idle
<1>3. QED
  BY <1>1, <1>2 DEF HandlersInv, Unregistered

\* Handlers stay in line with the registered websockets.
LEMMA HandlersStep ==
  ASSUME TypeOK, HandlersInv, ClientsInv, MessagesInv, [Next]_vars
  PROVE  HandlersInv'
<1>1. ASSUME NEW u \in User, Connect(u) PROVE HandlersInv'
  <2>1. u \notin active
    BY <1>1 DEF Connect, HandlersInv
  <2>2. QED
    BY <1>1, <2>1, HandlerMoves DEF Connect, Phases, Idle, Unregistered
<1>2. ASSUME NEW u \in User, DropToken(u) PROVE HandlersInv'
  <2>1. u \notin active
    BY <1>2 DEF DropToken, HandlersInv
  <2>2. QED
    BY <1>2, <2>1, HandlerMoves DEF DropToken, Phases, Idle, Unregistered, socketVars
<1>3. ASSUME NEW u \in User, Register(u) PROVE HandlersInv'
  BY <1>3, HandlerMoves DEF Register, Phases, Idle, Unregistered
<1>4. ASSUME NEW u \in User, Drop(u) PROVE HandlersInv'
  BY <1>4 DEF Drop, HandlersInv
<1>5. ASSUME NEW u \in User, Disconnect(u) PROVE HandlersInv'
  BY <1>5, HandlerMoves DEF Disconnect, Phases, Idle, Unregistered
<1>6. ASSUME NEW u \in User, KeepToken(u) PROVE HandlersInv'
  <2>1. u \notin active /\ u \notin attached
    BY <1>6 DEF KeepToken, HandlersInv
  <2>2. QED
    BY <1>6, <2>1, HandlerMoves DEF KeepToken, Phases, Idle, Unregistered, socketVars
<1>s. ASSUME NEW u \in User, u \in active, UNCHANGED <<active, attached>>, NEW c \in ChatsOf(u),
             handler' = [handler EXCEPT ![u] = handler'[u]],
             handler'[u] \in {Does("serving", {}), Does("cooldown?", {c}), Does("creating", {c}),
                              Does("declining", {c}), Does("token?", {c}), Does("pushed", {c})}
      PROVE  HandlersInv'
  <2>1. CASE handler'[u] = Does("serving", {})
    <3>1. handler' = [handler EXCEPT ![u] = Does("serving", {})]
      BY <1>s, <2>1
    <3>2. QED
      BY <1>s, <3>1, HandlerMoves DEF Phases, Idle, Unregistered
  <2>2. ASSUME NEW p \in {"cooldown?", "creating", "declining", "token?", "pushed"}, handler'[u] = Does(p, {c})
        PROVE  HandlersInv'
    <3>1. handler' = [handler EXCEPT ![u] = Does(p, {c})]
      BY <1>s, <2>2
    <3>2. p \in Phases /\ p \notin Idle /\ p \notin Unregistered /\ p \notin {"away", "leaving"}
      BY DEF Phases, Idle, Unregistered
    <3>3. QED
      BY <1>s, <3>1, <3>2, HandlerMoves
  <2>3. QED
    BY <1>s, <2>1, <2>2
<1>a. \A u \in User : handler[u].phase = "serving" => u \in active
  BY DEF HandlersInv
<1>b. \A u \in User, c \in Chat, p \in {"cooldown?", "creating", "declining", "token?", "pushed"} :
        handler[u] = Does(p, {c}) => c \in ChatsOf(u) /\ u \in active
  BY BusyWith DEF Phases, Idle
<1>c. \A u \in User : \A c \in shown[u] : c \in ChatsOf(u)
  BY DEF ClientsInv
<1>7. ASSUME NEW u \in User, NEW c \in Chat, CreateChat(u, c) PROVE HandlersInv'
  <2>1. /\ c \in ChatsOf(u) /\ handler[u].phase = "serving" /\ UNCHANGED <<active, attached>>
        /\ handler' = [handler EXCEPT ![u] = Does("creating", {c})]
    BY <1>7, Creates
  <2>2. handler'[u] = Does("creating", {c})
    BY <2>1 DEF TypeOK
  <2>3. QED
    BY <1>a, <1>s, <2>1, <2>2
<1>8. ASSUME NEW u \in User, NEW c \in Chat, ChatCreated(u, c) PROVE HandlersInv'
  <2>1. /\ handler[u] = Does("creating", {c}) /\ UNCHANGED <<active, attached>>
        /\ handler' = [handler EXCEPT ![u] = handler'[u]]
        /\ handler'[u] \in {Does("serving", {}), Does("cooldown?", {c})}
    BY <1>8, CreatedEvent DEF socketVars
  <2>2. QED
    BY <1>b, <1>s, <2>1
<1>9. ASSUME NEW u \in User, NEW c \in Chat, PostMessage(u, c) PROVE HandlersInv'
  <2>1. /\ handler[u].phase = "serving" /\ c \in shown[u] /\ UNCHANGED <<active, attached>>
        /\ \/ /\ handler' = [handler EXCEPT ![u] = handler'[u]]
              /\ handler'[u] \in {Does("serving", {}), Does("cooldown?", {c})}
           \/ handler' = handler
    BY <1>9, Posts DEF socketVars
  <2>2. CASE handler' = handler
    BY <2>1, <2>2 DEF HandlersInv
  <2>3. QED
    BY <1>a, <1>c, <1>s, <2>1, <2>2
<1>10. ASSUME NEW u \in User, NEW c \in Chat, AcceptChat(u, c) PROVE HandlersInv'
  <2>1. /\ handler[u].phase = "serving" /\ c \in shown[u] /\ UNCHANGED <<active, attached>>
        /\ handler' = [handler EXCEPT ![u] = handler'[u]]
        /\ handler'[u] \in {Does("serving", {}), Does("cooldown?", {c})}
    BY <1>10, AcceptsChat DEF socketVars
  <2>2. QED
    BY <1>a, <1>c, <1>s, <2>1
<1>11. ASSUME NEW u \in User, NEW c \in Chat, OpenChat(u, c) PROVE HandlersInv'
  BY <1>11 DEF OpenChat, HandlersInv, socketVars
<1>12. ASSUME NEW u \in User, NEW c \in Chat, DeclineChat(u, c) PROVE HandlersInv'
  <2>1. /\ handler[u].phase = "serving" /\ c \in shown[u] /\ UNCHANGED <<active, attached>>
        /\ \/ /\ handler' = [handler EXCEPT ![u] = handler'[u]]
              /\ handler'[u] = handler[u] \/ handler'[u] = Does("declining", {c})
           \/ handler' = handler
    BY <1>12, DeclinesChat DEF socketVars
  <2>2. CASE handler' = handler
    BY <2>1, <2>2 DEF HandlersInv
  <2>3. CASE handler' = [handler EXCEPT ![u] = handler'[u]] /\ handler'[u] = handler[u]
    <3>1. handler' = handler
      BY <2>3 DEF TypeOK
    <3>2. QED
      BY <2>2, <3>1
  <2>4. QED
    BY <1>a, <1>c, <1>s, <2>1, <2>2, <2>3
<1>13. ASSUME NEW u \in User, NEW c \in Chat, ChatDeclined(u, c) PROVE HandlersInv'
  <2>1. /\ handler[u] = Does("declining", {c}) /\ UNCHANGED <<active, attached>>
        /\ handler' = [handler EXCEPT ![u] = Does("serving", {})]
    BY <1>13, TellsDecline DEF socketVars
  <2>2. handler'[u] = Does("serving", {})
    BY <2>1 DEF TypeOK
  <2>3. QED
    BY <1>b, <1>s, <2>1, <2>2
<1>14. ASSUME NEW u \in User, AskCooldown(u) \/ AskToken(u) \/ StartCooldown(u) PROVE HandlersInv'
  <2>1. PICK c \in Chat :
          /\ handler[u] \in {Does("cooldown?", {c}), Does("token?", {c}), Does("pushed", {c})}
          /\ \/ handler' = [handler EXCEPT ![u] = Does("serving", {})]
             \/ handler' = [handler EXCEPT ![u] = Does("token?", {c})]
             \/ handler' = [handler EXCEPT ![u] = Does("pushed", {c})]
    BY <1>14 DEF AskCooldown, AskToken, StartCooldown
  <2>2. /\ handler' = [handler EXCEPT ![u] = handler'[u]]
        /\ handler'[u] \in {Does("serving", {}), Does("token?", {c}), Does("pushed", {c})}
    BY <2>1 DEF TypeOK
  <2>3. UNCHANGED <<active, attached>>
    BY <1>14 DEF AskCooldown, AskToken, StartCooldown, socketVars
  <2>4. c \in ChatsOf(u) /\ u \in active
    BY <1>b, <2>1
  <2>5. QED
    BY <1>s, <2>2, <2>3, <2>4
<1>15. CASE UNCHANGED <<handler, active, attached>>
  BY <1>15 DEF HandlersInv
<1>16. QED
  BY <1>1, <1>2, <1>3, <1>4, <1>5, <1>6, <1>7, <1>8, <1>9, <1>10, <1>11, <1>12, <1>13, <1>14, <1>15
     DEF Next, Receive, ReadMessage, CooldownEnds, Fetch, ReadWire, vars, socketVars

-------------------------------------------------------------------------------
(* Clients and messages *)

\* What is meant for a user after a step.
MeantNext(u) == {m \in DOMAIN said' : said'[m].chat \in ChatsOf(u) /\ said'[m].from # u}

\* In a step nothing is said, or a message by a user who serves and is a member.
Spoke(u, d) ==
  /\ Say(u, d) /\ u \in User /\ d \in ChatsOf(u) /\ handler[u].phase = "serving"
  /\ NextMessage \notin DOMAIN said /\ DOMAIN said' = DOMAIN said \cup {NextMessage}
  /\ \A m \in DOMAIN said : said'[m] = said[m]
  /\ said'[NextMessage] = [from |-> u, chat |-> d]
  /\ said'[NextMessage].from = u /\ said'[NextMessage].chat = d

\* A message is said in a chat of its sender's pair.
LEMMA PostedIn ==
  ASSUME TypeOK, ClientsInv, NEW u \in User, NEW c \in Chat, PostMessage(u, c)
  PROVE  /\ c \in ChatsOf(u)
         /\ \E d \in Chat :
              /\ {Members[d][1], Members[d][2]} = {Members[c][1], Members[c][2]}
              /\ Spoke(u, d) /\ d \in ChatsOf(Other(u, c))
              /\ \/ /\ d \in DOMAIN chats
                    /\ Event("message", c, NextMessage) \in WireEvent
                    /\ status' = Put(status, NextMessage, "sent")
                    /\ Appended(Other(u, c), Event("message", c, NextMessage))
                    /\ handler' = [handler EXCEPT ![u] = handler'[u]]
                    /\ handler'[u] \in {Does("serving", {}), Does("cooldown?", {c})}
                 \/ UNCHANGED <<status, wire, handler>>
<1>1. c \in ChatsOf(u) /\ handler[u].phase = "serving"
  BY Posts DEF ClientsInv
<1>2. PICK d \in Chat :
         /\ {Members[d][1], Members[d][2]} = {Members[c][1], Members[c][2]}
         /\ Say(u, d)
         /\ \/ /\ d \in DOMAIN chats
               /\ Event("message", c, NextMessage) \in WireEvent
               /\ status' = Put(status, NextMessage, "sent")
               /\ Appended(Other(u, c), Event("message", c, NextMessage))
               /\ handler' = [handler EXCEPT ![u] = handler'[u]]
               /\ handler'[u] \in {Does("serving", {}), Does("cooldown?", {c})}
            \/ UNCHANGED <<status, wire, handler>>
  BY Posts
<1>3. d \in ChatsOf(u) /\ d \in ChatsOf(Other(u, c))
  <2>1. {u, Other(u, c)} = {Members[d][1], Members[d][2]}
    <3>1. {u, Other(u, c)} = {Members[c][1], Members[c][2]}
      BY <1>1, Pairs
    <3>2. QED
      BY <1>2, <3>1
  <2>2. QED
    BY <2>1 DEF ChatsOf
<1>4. Spoke(u, d)
  <2>1. Say(u, d) /\ said \in Seq(Message)
    BY <1>2 DEF TypeOK
  <2>2. /\ DOMAIN said' = DOMAIN said \cup {NextMessage} /\ NextMessage \notin DOMAIN said
        /\ \A m \in DOMAIN said : said'[m] = said[m]
        /\ said'[NextMessage] = [from |-> u, chat |-> d]
    BY <2>1, Says
  <2>3. QED
    BY <1>1, <1>3, <2>1, <2>2 DEF Spoke
<1>5. QED
  BY <1>1, <1>2, <1>3, <1>4

\* So is a first message.
LEMMA CreatedIn ==
  ASSUME TypeOK, NEW u \in User, NEW c \in Chat, CreateChat(u, c)
  PROVE  Spoke(u, c)
<1>1. Say(u, c) /\ said \in Seq(Message) /\ c \in ChatsOf(u) /\ handler[u].phase = "serving"
  BY Creates DEF TypeOK
<1>2. /\ DOMAIN said' = DOMAIN said \cup {NextMessage} /\ NextMessage \notin DOMAIN said
      /\ \A m \in DOMAIN said : said'[m] = said[m]
      /\ said'[NextMessage] = [from |-> u, chat |-> c]
  BY <1>1, Says
<1>3. QED
  BY <1>1, <1>2 DEF Spoke

\* In a step somebody says something, or nobody.
LEMMA SaidSteps ==
  ASSUME TypeOK, ClientsInv, [Next]_vars
  PROVE  \/ said' = said
         \/ \E u, d : Spoke(u, d)
<1>1. CASE \E u \in User, c \in Chat : CreateChat(u, c)
  BY <1>1, CreatedIn
<1>2. CASE \E u \in User, c \in Chat : PostMessage(u, c)
  BY <1>2, PostedIn
<1>3. CASE said' = said
  BY <1>3
<1>4. QED
  BY <1>1, <1>2, <1>3 DEF Next, vars, Connect, DropToken, Register, Drop, Disconnect, KeepToken, ChatCreated,
     AcceptChat, OpenChat, DeclineChat, ChatDeclined, Receive, ReadMessage, AskCooldown, AskToken,
     StartCooldown, CooldownEnds, Fetch, ReadWire

\* What is said stays, and is meant for the same users.
LEMMA SaidStays ==
  ASSUME TypeOK, ClientsInv, [Next]_vars
  PROVE  /\ DOMAIN said \subseteq DOMAIN said' /\ \A m \in DOMAIN said : said'[m] = said[m]
         /\ \A u \in User : Meant(u) \subseteq MeantNext(u)
BY SaidSteps DEF Spoke, Meant, MeantNext

\* What is on a wire after a step is meant for its user.
Delivers ==
  \A u \in User :
    /\ wire'[u] # <<>> => u \in active' \cap attached'
    /\ \A i \in 1..Len(wire'[u]) : /\ wire'[u][i].chat \in ChatsOf(u)
                                   /\ Carries(wire'[u][i]) => wire'[u][i].id \in MeantNext(u)
                                   /\ ~Carries(wire'[u][i]) => wire'[u][i].id = 0

\* One that is appended does, and the others still do.
LEMMA AppendsWell ==
  ASSUME TypeOK, ClientsInv, [Next]_vars, NEW r \in User, NEW e, Appended(r, e), UNCHANGED <<active, attached>>,
         e.chat \in ChatsOf(r), Carries(e) => e.id \in MeantNext(r), ~Carries(e) => e.id = 0
  PROVE  Delivers
<1>1. ASSUME NEW u \in User, wire'[u] = wire[u]
      PROVE  /\ wire'[u] # <<>> => u \in active' \cap attached'
             /\ \A i \in 1..Len(wire'[u]) : /\ wire'[u][i].chat \in ChatsOf(u)
                                            /\ Carries(wire'[u][i]) => wire'[u][i].id \in MeantNext(u)
                                            /\ ~Carries(wire'[u][i]) => wire'[u][i].id = 0
  BY <1>1, SaidStays DEF ClientsInv
<1>2. CASE wire'[r] = wire[r]
  BY <1>1, <1>2 DEF Delivers, Appended
<1>3. ASSUME r \in active \cap attached, Len(wire'[r]) = Len(wire[r]) + 1, Len(wire[r]) \in Nat,
             \A i \in 1..Len(wire[r]) : wire'[r][i] = wire[r][i],
             wire'[r][Len(wire[r]) + 1] = e
      PROVE  /\ wire'[r] # <<>> => r \in active' \cap attached'
             /\ \A i \in 1..Len(wire'[r]) : /\ wire'[r][i].chat \in ChatsOf(r)
                                            /\ Carries(wire'[r][i]) => wire'[r][i].id \in MeantNext(r)
                                            /\ ~Carries(wire'[r][i]) => wire'[r][i].id = 0
  <2>1. 1..Len(wire'[r]) = (1..Len(wire[r])) \cup {Len(wire[r]) + 1}
    BY <1>3
  <2>2. \A i \in 1..Len(wire[r]) : /\ wire'[r][i].chat \in ChatsOf(r)
                                   /\ Carries(wire'[r][i]) => wire'[r][i].id \in MeantNext(r)
                                   /\ ~Carries(wire'[r][i]) => wire'[r][i].id = 0
    BY <1>3, SaidStays DEF ClientsInv
  <2>3. QED
    BY <1>3, <2>1, <2>2
<1>4. QED
  BY <1>1, <1>2, <1>3 DEF Delivers, Appended

\* Clients get what is meant for them.
LEMMA ClientsStep ==
  ASSUME TypeOK, HandlersInv, ClientsInv, MessagesInv, [Next]_vars
  PROVE  ClientsInv'
<1>1. /\ DOMAIN said \subseteq DOMAIN said' /\ \A m \in DOMAIN said : said'[m] = said[m]
      /\ \A u \in User : Meant(u) \subseteq MeantNext(u)
  BY SaidStays
<1>q. ASSUME fetched' \subseteq active', Delivers,
             \A u \in User : shown'[u] \subseteq ChatsOf(u) /\ seen'[u] \subseteq known'[u] /\ known'[u] \subseteq MeantNext(u)
      PROVE  ClientsInv'
  BY <1>q DEF ClientsInv, Delivers, Meant, MeantNext
<1>w. ASSUME wire' = wire, \A u \in User : wire[u] # <<>> => u \in active' \cap attached'
      PROVE  Delivers
  BY <1>1, <1>w DEF ClientsInv, Delivers
<1>c. ASSUME UNCHANGED <<shown, seen, known>>
      PROVE  \A u \in User : shown'[u] \subseteq ChatsOf(u) /\ seen'[u] \subseteq known'[u] /\ known'[u] \subseteq MeantNext(u)
  BY <1>1, <1>c DEF ClientsInv
<1>2. ASSUME UNCHANGED <<wire, fetched, shown, seen, known>>, active \subseteq active', attached \subseteq attached'
      PROVE  ClientsInv'
  <2>1. Delivers /\ fetched' \subseteq active'
    BY <1>w, <1>2 DEF ClientsInv
  <2>2. QED
    BY <1>c, <1>q, <1>2, <2>1
<1>3. ASSUME NEW u \in User, Connect(u) \/ DropToken(u) \/ Register(u) \/ KeepToken(u) PROVE ClientsInv'
  BY <1>2, <1>3 DEF Connect, DropToken, Register, KeepToken, socketVars, clientVars
<1>4. ASSUME NEW u \in User, Drop(u) PROVE ClientsInv'
  <2>1. /\ attached' = attached \ {u} /\ active' = active /\ fetched' = fetched \ {u} /\ said' = said
        /\ wire'[u] = <<>> /\ \A v \in User \ {u} : wire'[v] = wire[v]
        /\ UNCHANGED <<shown, known, seen>>
    BY <1>4 DEF Drop, TypeOK
  <2>2. 1..Len(<<>>) = {}
    OBVIOUS
  <2>3. Delivers
    BY <1>1, <2>1, <2>2 DEF ClientsInv, Delivers
  <2>4. QED
    BY <1>c, <1>q, <2>1, <2>3 DEF ClientsInv
<1>5. ASSUME NEW u \in User, Disconnect(u) PROVE ClientsInv'
  <2>1. /\ u \notin attached /\ active' = active \ {u}
        /\ UNCHANGED <<attached, wire, fetched, shown, known, seen>>
    BY <1>5 DEF Disconnect, clientVars
  <2>2. Delivers /\ fetched' \subseteq active'
    BY <1>w, <2>1 DEF ClientsInv, TypeOK
  <2>3. QED
    BY <1>c, <1>q, <2>1, <2>2
<1>6. ASSUME NEW u \in User, NEW c \in Chat, CreateChat(u, c) PROVE ClientsInv'
  <2>1. /\ c \in ChatsOf(u) /\ shown' = [shown EXCEPT ![u] = @ \cup {c}]
        /\ UNCHANGED <<active, attached, wire, fetched, known, seen>>
    BY <1>6, Creates
  <2>2. Delivers /\ fetched' \subseteq active'
    BY <1>w, <2>1 DEF ClientsInv
  <2>3. \A v \in User : shown'[v] \subseteq ChatsOf(v)
    BY <2>1 DEF ClientsInv, TypeOK
  <2>4. QED
    BY <1>1, <1>q, <2>1, <2>2, <2>3 DEF ClientsInv
<1>a. ASSUME NEW r \in User, NEW e, Appended(r, e), e.chat \in ChatsOf(r),
             Carries(e) => e.id \in MeantNext(r), ~Carries(e) => e.id = 0,
             UNCHANGED <<active, attached, fetched, shown, known, seen>>
      PROVE  ClientsInv'
  <2>1. Delivers
    BY <1>a, AppendsWell
  <2>2. QED
    BY <1>a, <1>c, <1>q, <2>1 DEF ClientsInv
<1>7. ASSUME NEW u \in User, NEW c \in Chat, ChatCreated(u, c) PROVE ClientsInv'
  <2>1. handler[u] = Does("creating", {c}) /\ UNCHANGED <<active, attached, said, fetched, shown, known, seen>>
    BY <1>7, CreatedEvent DEF socketVars, clientVars
  <2>2. PICK m \in DOMAIN said : /\ said[m].from = u /\ said[m].chat = c /\ m \in 0..MaxMessages
                                 /\ Appended(Other(u, c), Event("create", c, m))
    BY <1>7, CreatedEvent
  <2>3. c \in ChatsOf(u) /\ c \in ChatsOf(Other(u, c)) /\ Other(u, c) # u /\ Other(u, c) \in User
    BY <2>1, BusyWith, Pairs DEF Phases, Idle
  <2> DEFINE e == Event("create", c, m)
  <2>4. e.chat = c /\ Carries(e) /\ e.id = m
    BY <2>2, Events
  <2>5. m \in MeantNext(Other(u, c))
    BY <2>1, <2>2, <2>3 DEF MeantNext
  <2> HIDE DEF e
  <2>6. QED
    BY <1>a, <2>1, <2>2, <2>3, <2>4, <2>5 DEF e
<1>8. ASSUME NEW u \in User, NEW c \in Chat, PostMessage(u, c) PROVE ClientsInv'
  <2>1. c \in ChatsOf(u) /\ c \in ChatsOf(Other(u, c)) /\ Other(u, c) # u /\ Other(u, c) \in User
        /\ UNCHANGED <<active, attached, fetched, shown, known, seen>>
    BY <1>8, PostedIn, Posts, Pairs DEF socketVars, clientVars
  <2>2. PICK d \in Chat : /\ Spoke(u, d) /\ d \in ChatsOf(Other(u, c))
                          /\ \/ /\ Event("message", c, NextMessage) \in WireEvent
                                /\ Appended(Other(u, c), Event("message", c, NextMessage))
                             \/ wire' = wire
    BY <1>8, PostedIn
  <2>3. CASE wire' = wire
    BY <1>2, <2>1, <2>3
  <2>4. CASE /\ Event("message", c, NextMessage) \in WireEvent
             /\ Appended(Other(u, c), Event("message", c, NextMessage))
    <3> DEFINE e == Event("message", c, NextMessage)
    <3>1. e.chat = c /\ Carries(e) /\ e.id = NextMessage
      BY DEF Event, Carries
    <3>2. NextMessage \in MeantNext(Other(u, c))
      BY <2>1, <2>2 DEF MeantNext, Spoke
    <3> HIDE DEF e
    <3>3. QED
      BY <1>a, <2>1, <2>4, <3>1, <3>2 DEF e
  <2>5. QED
    BY <2>2, <2>3, <2>4
<1>9. ASSUME NEW u \in User, NEW c \in Chat, AcceptChat(u, c) PROVE ClientsInv'
  <2>1. /\ c \in shown[u] /\ Appended(Other(u, c), Event("accept", c, 0))
        /\ UNCHANGED <<active, attached, fetched, shown, known, seen>>
    BY <1>9, AcceptsChat DEF socketVars, clientVars
  <2>2. c \in ChatsOf(u) /\ c \in ChatsOf(Other(u, c)) /\ Other(u, c) \in User
    BY <2>1, Pairs DEF ClientsInv
  <2>3. LET e == Event("accept", c, 0) IN e.chat = c /\ ~Carries(e) /\ e.id = 0
    BY DEF Event, Carries
  <2>4. QED
    BY <1>a, <2>1, <2>2, <2>3
<1>10. ASSUME NEW u \in User, NEW c \in Chat, OpenChat(u, c) PROVE ClientsInv'
  BY <1>2, <1>10 DEF OpenChat, socketVars, clientVars
<1>11. ASSUME NEW u \in User, NEW c \in Chat, DeclineChat(u, c) PROVE ClientsInv'
  <2>1. /\ shown' = [shown EXCEPT ![u] = @ \ {c}]
        /\ UNCHANGED <<active, attached, wire, fetched, known, seen>>
    BY <1>11, DeclinesChat DEF socketVars
  <2>2. Delivers /\ fetched' \subseteq active'
    BY <1>w, <2>1 DEF ClientsInv
  <2>3. \A v \in User : shown'[v] \subseteq ChatsOf(v)
    BY <2>1 DEF ClientsInv, TypeOK
  <2>4. QED
    BY <1>1, <1>q, <2>1, <2>2, <2>3 DEF ClientsInv
<1>12. ASSUME NEW u \in User, NEW c \in Chat, ChatDeclined(u, c) PROVE ClientsInv'
  <2>1. /\ handler[u] = Does("declining", {c}) /\ Appended(Other(u, c), Event("decline", c, 0))
        /\ UNCHANGED <<active, attached, fetched, shown, known, seen>>
    BY <1>12, TellsDecline DEF socketVars, clientVars
  <2>2. c \in ChatsOf(u) /\ c \in ChatsOf(Other(u, c)) /\ Other(u, c) \in User
    BY <2>1, BusyWith, Pairs DEF Phases, Idle
  <2>3. LET e == Event("decline", c, 0) IN e.chat = c /\ ~Carries(e) /\ e.id = 0
    BY DEF Event, Carries
  <2>4. QED
    BY <1>a, <2>1, <2>2, <2>3
<1>13. ASSUME NEW u \in User, NEW m \in 1..MaxMessages, Receive(u, m) PROVE ClientsInv'
  BY <1>2, <1>13 DEF Receive, socketVars, clientVars
<1>14. ASSUME NEW u \in User, NEW m \in 1..MaxMessages, ReadMessage(u, m) PROVE ClientsInv'
  <2>1. /\ UNCHANGED <<active, attached, wire, fetched, shown, known>>
        /\ \A v \in User : seen'[v] \subseteq known[v]
    BY <1>14 DEF ReadMessage, socketVars, ClientsInv, TypeOK
  <2>2. Delivers /\ fetched' \subseteq active'
    BY <1>w, <2>1 DEF ClientsInv
  <2>3. QED
    BY <1>1, <1>q, <2>1, <2>2 DEF ClientsInv
<1>15. ASSUME NEW u \in User, AskCooldown(u) \/ AskToken(u) \/ StartCooldown(u) PROVE ClientsInv'
  BY <1>2, <1>15 DEF AskCooldown, AskToken, StartCooldown, socketVars, clientVars
<1>16. ASSUME NEW u \in User, NEW v \in User, CooldownEnds(u, v) PROVE ClientsInv'
  BY <1>2, <1>16 DEF CooldownEnds, socketVars, clientVars
<1>17. ASSUME NEW u \in User, Fetch(u) PROVE ClientsInv'
  <2>1. /\ u \in active /\ fetched' = fetched \cup {u} /\ said' = said
        /\ known' = [known EXCEPT ![u] = @ \cup {m \in For(u) : status[m] # "read"}]
        /\ shown' = [shown EXCEPT ![u] = {said[m].chat : m \in Stored} \cap ChatsOf(u)]
        /\ UNCHANGED <<active, attached, wire, seen>>
    BY <1>17 DEF Fetch, socketVars
  <2>2. For(u) \subseteq Meant(u)
    BY DEF For, Meant, TypeOK
  <2>3. \A v \in User : shown'[v] \subseteq ChatsOf(v)
    BY <2>1 DEF ClientsInv, TypeOK
  <2>4. \A v \in User : seen'[v] \subseteq known'[v] /\ known'[v] \subseteq MeantNext(v)
    BY <1>1, <2>1, <2>2 DEF ClientsInv, TypeOK
  <2>5. Delivers /\ fetched' \subseteq active'
    BY <1>w, <2>1 DEF ClientsInv
  <2>6. QED
    BY <1>q, <2>3, <2>4, <2>5
<1>18. ASSUME NEW u \in User, ReadWire(u) PROVE ClientsInv'
  <2> DEFINE e == wire[u][1]
  <2>1. /\ wire[u] # <<>> /\ 1 \in 1..Len(wire[u])
        /\ \A v \in User \ {u} : wire'[v] = wire[v]
        /\ \A i \in 1..Len(wire'[u]) : i + 1 \in 1..Len(wire[u]) /\ wire'[u][i] = wire[u][i + 1]
        /\ UNCHANGED <<active, attached, fetched, seen>>
    BY <1>18, ReadsWire DEF socketVars
  <2>2. e.chat \in ChatsOf(u) /\ (Carries(e) => e.id \in Meant(u))
    BY <2>1 DEF ClientsInv
  <2>3. known' \in {known, [known EXCEPT ![u] = @ \cup {e.id}]} /\ (Carries(e) \/ known' = known)
    BY <1>18, ReadsWire
  <2>4. shown' \in {[shown EXCEPT ![u] = @ \cup {e.chat}], [shown EXCEPT ![u] = @ \ {e.chat}], shown}
    BY <1>18, ReadsWire
  <2> HIDE DEF e
  <2>5. \A v \in User : shown'[v] \subseteq ChatsOf(v)
    <3>1. \A v \in User : shown'[v] \in {shown[v] \cup {e.chat}, shown[v] \ {e.chat}, shown[v]}
                           /\ (v # u => shown'[v] = shown[v])
      BY <2>4 DEF TypeOK
    <3>2. QED
      BY <2>2, <3>1 DEF ClientsInv
  <2>6. \A v \in User : seen'[v] \subseteq known'[v] /\ known'[v] \subseteq MeantNext(v)
    <3>1. \A v \in User : /\ seen'[v] = seen[v]
                           /\ \/ known'[v] = known[v]
                              \/ v = u /\ Carries(e) /\ known'[v] = known[v] \cup {e.id}
      BY <2>1, <2>3 DEF TypeOK
    <3>2. \A v \in User : seen[v] \subseteq known[v] /\ known[v] \subseteq MeantNext(v)
      BY <1>1 DEF ClientsInv
    <3>3. Carries(e) => e.id \in MeantNext(u)
      BY <1>1, <2>2
    <3>4. QED
      BY <3>1, <3>2, <3>3
  <2>7. Delivers
    <3>1. \A v \in User : wire[v] # <<>> => v \in active' \cap attached'
      BY <2>1 DEF ClientsInv
    <3>2. \A v \in User : \A i \in 1..Len(wire[v]) :
             /\ wire[v][i].chat \in ChatsOf(v)
             /\ Carries(wire[v][i]) => wire[v][i].id \in MeantNext(v)
             /\ ~Carries(wire[v][i]) => wire[v][i].id = 0
      BY <1>1 DEF ClientsInv
    <3>3. QED
      BY <2>1, <3>1, <3>2 DEF Delivers
  <2>8. QED
    BY <1>q, <2>1, <2>5, <2>6, <2>7 DEF ClientsInv
<1>19. CASE UNCHANGED vars
  BY <1>2, <1>19 DEF vars
<1>20. QED
  BY <1>3, <1>4, <1>5, <1>6, <1>7, <1>8, <1>9, <1>10, <1>11, <1>12, <1>13, <1>14, <1>15, <1>16, <1>17,
     <1>18, <1>19 DEF Next

\* Users write in their own chats, and a chat is created with one message.
LEMMA MessagesStep ==
  ASSUME TypeOK, HandlersInv, ClientsInv, MessagesInv, [Next]_vars
  PROVE  MessagesInv'
<1> DEFINE First(u, c) == {n \in DOMAIN said : said[n] = [from |-> u, chat |-> c]}
           FirstNext(u, c) == {n \in DOMAIN said' : said'[n] = [from |-> u, chat |-> c]}
<1>1. \A m \in DOMAIN said' : said'[m].chat \in ChatsOf(said'[m].from)
  <2>1. CASE said' = said
    BY <2>1 DEF MessagesInv
  <2>2. ASSUME NEW u, NEW d, Spoke(u, d) PROVE \A m \in DOMAIN said' : said'[m].chat \in ChatsOf(said'[m].from)
    BY <2>2 DEF MessagesInv, Spoke
  <2>3. QED
    BY <2>1, <2>2, SaidSteps
<1>2. \A c \in DOMAIN chats' : \E m \in DOMAIN said' : said'[m].chat = c
  <2>1. \A c \in DOMAIN chats : \E m \in DOMAIN said' : said'[m].chat = c
    BY SaidStays DEF MessagesInv
  <2>2. ASSUME NEW u \in User, NEW c \in Chat, CreateChat(u, c)
        PROVE  DOMAIN chats' \subseteq DOMAIN chats \cup {c} /\ \E m \in DOMAIN said' : said'[m].chat = c
    BY <2>2, Creates, CreatedIn DEF Spoke
  <2>3. \A u \in User, c \in Chat : AcceptChat(u, c) \/ OpenChat(u, c) => DOMAIN chats' = DOMAIN chats
    BY AcceptsChat DEF OpenChat
  <2>4. \A u \in User, c \in Chat : DeclineChat(u, c) => DOMAIN chats' \subseteq DOMAIN chats
    BY DeclinesChat
  <2>5. (\E u \in User, c \in Chat : CreateChat(u, c)) \/ DOMAIN chats' \subseteq DOMAIN chats
    BY <2>3, <2>4 DEF Next, vars, database, Connect, DropToken, Register, Drop, Disconnect, KeepToken, ChatCreated,
       PostMessage, ChatDeclined, Receive, ReadMessage, AskCooldown, AskToken, StartCooldown, CooldownEnds, Fetch,
       ReadWire
  <2>6. QED
    BY <2>1, <2>2, <2>5
<1>3. ASSUME NEW v \in User, NEW c \in Chat, handler[v] = Does("creating", {c}), handler'[v] = Does("creating", {c})
      PROVE  \E m \in DOMAIN said' : FirstNext(v, c) = {m}
  <2>1. PICK m \in DOMAIN said : First(v, c) = {m}
    BY <1>3 DEF MessagesInv
  <2>2. CASE said' = said
    BY <2>1, <2>2
  <2>3. ASSUME NEW u, NEW d, Spoke(u, d) PROVE FirstNext(v, c) = {m} /\ m \in DOMAIN said'
    <3>1. u # v
      BY <1>3, <2>3, DoesWhat DEF Spoke
    <3>2. said'[NextMessage] # [from |-> v, chat |-> c]
      BY <2>3, <3>1 DEF Spoke
    <3>3. QED
      BY <2>1, <2>3, <3>2 DEF Spoke
  <2>4. QED
    BY <2>1, <2>2, <2>3, SaidSteps
<1>4. ASSUME NEW u \in User, NEW c \in Chat, CreateChat(u, c)
      PROVE  /\ \A v \in User \ {u} : handler'[v] = handler[v]
             /\ handler'[u] = Does("creating", {c}) /\ FirstNext(u, c) = {NextMessage} /\ NextMessage \in DOMAIN said'
  <2>1. handler' = [handler EXCEPT ![u] = Does("creating", {c})] /\ \A m \in DOMAIN said : said[m].chat # c
    BY <1>4, Creates
  <2>2. Spoke(u, c)
    BY <1>4, CreatedIn
  <2>3. \A m \in DOMAIN said : said[m] # [from |-> u, chat |-> c]
    BY <2>1
  <2>4. FirstNext(u, c) = {NextMessage} /\ NextMessage \in DOMAIN said'
    BY <2>2, <2>3 DEF Spoke
  <2>5. QED
    BY <2>1, <2>4 DEF TypeOK
<1>5. ASSUME NEW v \in User, NEW c \in Chat, handler'[v] = Does("creating", {c}), handler[v] # handler'[v]
      PROVE  \E u \in User, d \in Chat : CreateChat(u, d)
  <2>1. handler'[v].phase = "creating" /\ \A S : Does("serving", S).phase # "creating"
    BY <1>5, DoesWhat
  <2>2. ASSUME NEW u \in User, NEW x, handler' = [handler EXCEPT ![u] = x] PROVE handler'[v] = x
    BY <1>5, <2>2 DEF TypeOK
  <2>3. ASSUME NEW u \in User, NEW p, NEW S, handler' = [handler EXCEPT ![u] = Does(p, S)] PROVE p = "creating"
    BY <2>1, <2>2, <2>3, DoesWhat
  <2>4. ASSUME NEW u \in User, NEW c2, handler' = [handler EXCEPT ![u] = handler'[u]]
        PROVE  handler'[u] \notin {Does("serving", {}), Does("cooldown?", {c2}), Does("declining", {c2})}
    <3>1. handler'[v] = handler'[u]
      BY <2>2, <2>4
    <3>2. QED
      BY <2>1, <3>1, DoesWhat
  <2>5. \A u \in User : ~(Connect(u) \/ DropToken(u) \/ Register(u) \/ Disconnect(u) \/ KeepToken(u))
    BY <2>3 DEF Connect, DropToken, Register, Disconnect, KeepToken
  <2>6. \A u \in User : ~(AskCooldown(u) \/ AskToken(u) \/ StartCooldown(u))
    <3>1. ASSUME NEW u \in User, AskCooldown(u) \/ AskToken(u) \/ StartCooldown(u) PROVE FALSE
      <4>1. PICK c2 \in Chat : \/ handler' = [handler EXCEPT ![u] = Does("serving", {})]
                               \/ handler' = [handler EXCEPT ![u] = Does("token?", {c2})]
                               \/ handler' = [handler EXCEPT ![u] = Does("pushed", {c2})]
        BY <3>1 DEF AskCooldown, AskToken, StartCooldown
      <4>2. QED
        BY <2>3, <4>1
    <3>2. QED
      BY <3>1
  <2>7. \A u \in User, d \in Chat : ~(ChatCreated(u, d) \/ AcceptChat(u, d))
    <3>1. ASSUME NEW u \in User, NEW d \in Chat, ChatCreated(u, d) \/ AcceptChat(u, d) PROVE FALSE
      <4>1. /\ handler' = [handler EXCEPT ![u] = handler'[u]]
            /\ handler'[u] \in {Does("serving", {}), Does("cooldown?", {d})}
        BY <3>1, CreatedEvent, AcceptsChat
      <4>2. QED
        BY <2>4, <4>1
    <3>2. QED
      BY <3>1
  <2>8. \A u \in User, d \in Chat : ~PostMessage(u, d)
    <3>1. ASSUME NEW u \in User, NEW d \in Chat, PostMessage(u, d) PROVE FALSE
      <4>1. \/ /\ handler' = [handler EXCEPT ![u] = handler'[u]]
               /\ handler'[u] \in {Does("serving", {}), Does("cooldown?", {d})}
            \/ handler' = handler
        BY <3>1, Posts
      <4>2. QED
        BY <1>5, <2>4, <4>1
    <3>2. QED
      BY <3>1
  <2>9. \A u \in User, d \in Chat : ~(DeclineChat(u, d) \/ ChatDeclined(u, d))
    <3>1. ASSUME NEW u \in User, NEW d \in Chat, DeclineChat(u, d) PROVE FALSE
      <4>1. \/ /\ handler' = [handler EXCEPT ![u] = handler'[u]]
               /\ handler'[u] = Does("declining", {d}) \/ handler'[u] = handler[u]
            \/ handler' = handler
        BY <3>1, DeclinesChat
      <4>2. handler' = [handler EXCEPT ![u] = handler'[u]] /\ handler'[u] = handler[u] => handler' = handler
        BY DEF TypeOK
      <4>3. QED
        BY <1>5, <2>4, <4>1, <4>2
    <3>2. \A u \in User, d \in Chat : ~ChatDeclined(u, d)
      BY <2>3, TellsDecline
    <3>3. QED
      BY <3>1, <3>2
  <2>10. handler' # handler
    BY <1>5
  <2>11. QED
    BY <2>5, <2>6, <2>7, <2>8, <2>9, <2>10 DEF Next, vars, Drop, OpenChat, Receive, ReadMessage, CooldownEnds,
       Fetch, ReadWire
<1>6. ASSUME NEW v \in User, NEW c \in Chat, handler'[v] = Does("creating", {c})
      PROVE  \E m \in DOMAIN said' : FirstNext(v, c) = {m}
  <2>1. CASE handler[v] = handler'[v]
    BY <1>3, <1>6, <2>1
  <2>2. CASE handler[v] # handler'[v]
    <3>1. PICK u \in User, d \in Chat : CreateChat(u, d)
      BY <1>5, <1>6, <2>2
    <3>2. v = u /\ {c} = {d}
      <4>1. v = u /\ handler'[u] = Does("creating", {d})
        BY <1>4, <2>2, <3>1
      <4>2. Does("creating", {c}).chat = Does("creating", {d}).chat
        BY <1>6, <4>1
      <4>3. QED
        BY <4>1, <4>2, DoesWhat
    <3>3. v = u /\ c = d
      BY <3>2
    <3>4. QED
      BY <1>4, <3>1, <3>3
  <2>3. QED
    BY <2>1, <2>2
<1>7. QED
  BY <1>1, <1>2, <1>6 DEF MessagesInv

\* Type correctness for any number of users, chats, websockets and messages.
THEOREM TypeCorrect == Spec => []TypeOK
<1> DEFINE Inv == TypeOK /\ HandlersInv /\ ClientsInv /\ MessagesInv
<1>1. Init => Inv
  BY TypeInit
<1>2. Inv /\ [Next]_vars => Inv'
  BY TypeStep, HandlersStep, ClientsStep, MessagesStep
<1>3. Inv => TypeOK
  OBVIOUS
<1>4. QED
  BY <1>1, <1>2, <1>3, PTL DEF Spec

-------------------------------------------------------------------------------
(* Declined chats *)

\* The user has declined the chat, or is being told that it is gone, by an event
\* that comes after the first n - 1 on his wire.
DeclineSent(u, c, n) == \E j \in n..Len(wire[u]) : wire[u][j].type = "decline" /\ wire[u][j].chat = c
ToldOff(u, c, n) == <<u, c>> \in declined \/ Telling(c) \/ DeclineSent(u, c, n)

\* The same after a step.
DeclineSentNext(u, c, n) == \E j \in n..Len(wire'[u]) : wire'[u][j].type = "decline" /\ wire'[u][j].chat = c
TellingNext(c) == \E v \in User : handler'[v] = Does("declining", {c})
ToldOffNext(u, c, n) == <<u, c>> \in declined' \/ TellingNext(c) \/ DeclineSentNext(u, c, n)

\* DeclinesInv and DeclineReaches in these words.
LEMMA ToldOffs ==
  ASSUME TypeOK, HandlersInv, ClientsInv, DeclinesInv, DeclineReaches
  PROVE  /\ \A u \in User : \A i \in 1..Len(wire[u]) :
              wire[u][i].type = "create" =>
                wire[u][i].chat \in DOMAIN chats \/ ToldOff(u, wire[u][i].chat, i + 1)
         /\ \A u \in fetched : \A c \in shown[u] \ DOMAIN chats : ToldOff(u, c, 1)
<1>1. ASSUME NEW c, c \in Pending("declining") PROVE Telling(c)
  <2>1. PICK v \in User : handler[v].phase = "declining" /\ c \in handler[v].chat
    BY <1>1 DEF Pending
  <2>2. PICK d \in ChatsOf(v) : handler[v].chat = {d}
    BY <2>1 DEF HandlersInv
  <2>3. handler[v] = Does("declining", {c})
    BY <2>1, <2>2 DEF TypeOK, HandlerState, Does
  <2>4. QED
    BY <2>3 DEF Telling
<1>2. \A u \in fetched : \A c \in shown[u] \ DOMAIN chats : ToldOff(u, c, 1)
  BY <1>1 DEF DeclineReaches, ToldOff, DeclineSent
<1>3. QED
  BY <1>2 DEF DeclinesInv, ToldOff, DeclineSent

\* And back, after a step.
LEMMA ToldOffsNext ==
  ASSUME \A u \in User : \A i \in 1..Len(wire'[u]) :
           wire'[u][i].type = "create" =>
             wire'[u][i].chat \in DOMAIN chats' \/ ToldOffNext(u, wire'[u][i].chat, i + 1),
         \A u \in fetched' : \A c \in shown'[u] \ DOMAIN chats' : ToldOffNext(u, c, 1),
         \A u \in User : \A c \in ChatsOf(u) :
           <<u, Other(u, c)>> \in blacklist' => c \notin DOMAIN chats' /\ \E m \in DOMAIN said' : said'[m].chat = c,
         \A u \in User, c \in Chat :
           /\ handler'[u] = Does("declining", {c}) => <<u, c>> \in declined'
           /\ handler'[u] = Does("creating", {c}) => c \in DOMAIN chats' \/ <<Other(u, c), c>> \in declined'
  PROVE  DeclinesInv' /\ DeclineReaches'
<1>1. DeclinesInv'
  BY DEF DeclinesInv, ToldOffNext, TellingNext, Telling, DeclineSentNext
<1>2. ASSUME NEW c, TellingNext(c) PROVE c \in Pending("declining")'
  <2>1. PICK v \in User : handler'[v] = Does("declining", {c})
    BY <1>2 DEF TellingNext
  <2>2. handler'[v].phase = "declining" /\ c \in handler'[v].chat
    BY <2>1, DoesWhat
  <2>3. QED
    BY <2>2 DEF Pending
<1>3. DeclineReaches'
  BY <1>2 DEF DeclineReaches, ToldOffNext, DeclineSentNext
<1>4. QED
  BY <1>1, <1>3

\* One more event on a wire.
Grown(r, e) ==
  /\ Len(wire[r]) \in Nat /\ Len(wire'[r]) = Len(wire[r]) + 1
  /\ \A i \in 1..Len(wire[r]) : wire'[r][i] = wire[r][i]
  /\ wire'[r][Len(wire[r]) + 1] = e

\* Who is told stays told while the wire grows and nobody is done with telling.
LEMMA StaysTold ==
  ASSUME NEW u \in User, NEW c, NEW n \in Nat, ToldOff(u, c, n), n >= 1,
         declined \subseteq declined', Telling(c) => ToldOffNext(u, c, n),
         wire'[u] = wire[u] \/ \E e : Grown(u, e)
  PROVE  ToldOffNext(u, c, n)
<1>1. CASE <<u, c>> \in declined \/ Telling(c)
  BY <1>1 DEF ToldOffNext
<1>2. CASE DeclineSent(u, c, n)
  <2>1. CASE wire'[u] = wire[u]
    BY <1>2, <2>1 DEF DeclineSent, DeclineSentNext, ToldOffNext
  <2>2. ASSUME NEW e, Grown(u, e) PROVE ToldOffNext(u, c, n)
    <3>1. PICK j \in n..Len(wire[u]) : wire[u][j].type = "decline" /\ wire[u][j].chat = c
      BY <1>2 DEF DeclineSent
    <3>2. j \in n..Len(wire'[u]) /\ j \in 1..Len(wire[u])
      BY <2>2, <3>1 DEF Grown
    <3>3. wire'[u][j] = wire[u][j]
      BY <2>2, <3>2 DEF Grown
    <3>4. QED
      BY <3>1, <3>2, <3>3 DEF DeclineSentNext, ToldOffNext
  <2>3. QED
    BY <2>1, <2>2
<1>3. QED
  BY <1>1, <1>2 DEF ToldOff

\* A step in which no chat goes: wires may be lost or grow, and clients may be shown
\* chats that are there.
LEMMA DeclinesQuiet ==
  ASSUME TypeOK, HandlersInv, ClientsInv, MessagesInv, DeclinesInv, DeclineReaches, [Next]_vars,
         declined' = declined, blacklist' = blacklist, DOMAIN chats \subseteq DOMAIN chats',
         \A c \in DOMAIN chats' \ DOMAIN chats : \A m \in DOMAIN said : said[m].chat # c,
         \A v \in User, c \in Chat : handler'[v] = Does("declining", {c}) <=> handler[v] = Does("declining", {c}),
         \A v \in User, c \in Chat :
           handler'[v] = Does("creating", {c}) => c \in DOMAIN chats' \/ handler[v] = Does("creating", {c}),
         \A v \in fetched' : \/ shown'[v] \subseteq DOMAIN chats'
                             \/ v \in fetched /\ shown'[v] \subseteq shown[v] \cup DOMAIN chats',
         \A v \in User : \/ wire'[v] = wire[v]
                         \/ wire'[v] = <<>> /\ v \notin fetched'
                         \/ \E e : Grown(v, e) /\ (e.type = "create" => e.chat \in DOMAIN chats' \/ <<v, e.chat>> \in declined)
  PROVE  DeclinesInv' /\ DeclineReaches'
<1>1. \A u \in User : \A c \in ChatsOf(u) :
        <<u, Other(u, c)>> \in blacklist' => c \notin DOMAIN chats' /\ \E m \in DOMAIN said' : said'[m].chat = c
  <2>1. \A u \in User : \A c \in ChatsOf(u) :
          <<u, Other(u, c)>> \in blacklist => c \notin DOMAIN chats /\ \E m \in DOMAIN said : said[m].chat = c
    BY DEF DeclinesInv
  <2>2. QED
    BY <2>1, SaidStays
<1>2. \A u \in User, c \in Chat :
        /\ handler'[u] = Does("declining", {c}) => <<u, c>> \in declined'
        /\ handler'[u] = Does("creating", {c}) => c \in DOMAIN chats' \/ <<Other(u, c), c>> \in declined'
  <2>1. \A u \in User, c \in Chat :
          /\ handler[u] = Does("declining", {c}) => <<u, c>> \in declined
          /\ handler[u] = Does("creating", {c}) => c \in DOMAIN chats \/ <<Other(u, c), c>> \in declined
    BY DEF DeclinesInv
  <2>2. QED
    BY <2>1
<1>t. ASSUME NEW u \in User, NEW c \in Chat, NEW n \in Nat, n >= 1, ToldOff(u, c, n),
             wire'[u] = wire[u] \/ \E e : Grown(u, e)
      PROVE  ToldOffNext(u, c, n)
  <2>1. Telling(c) => ToldOffNext(u, c, n)
    BY DEF Telling, TellingNext, ToldOffNext
  <2>2. QED
    BY <1>t, <2>1, StaysTold
<1>3. \A u \in User : \A i \in 1..Len(wire'[u]) :
        wire'[u][i].type = "create" =>
          wire'[u][i].chat \in DOMAIN chats' \/ ToldOffNext(u, wire'[u][i].chat, i + 1)
  <2> SUFFICES ASSUME NEW u \in User, NEW i \in 1..Len(wire'[u]), wire'[u][i].type = "create",
                      wire'[u][i].chat \notin DOMAIN chats'
               PROVE  ToldOffNext(u, wire'[u][i].chat, i + 1)
    OBVIOUS
  <2>1. ASSUME i \in 1..Len(wire[u]), wire'[u][i] = wire[u][i], wire'[u] = wire[u] \/ \E e : Grown(u, e)
        PROVE  ToldOffNext(u, wire'[u][i].chat, i + 1)
    <3>1. ToldOff(u, wire[u][i].chat, i + 1)
      BY <2>1, ToldOffs
    <3>2. wire[u][i].chat \in Chat
      BY <2>1, Pairs DEF ClientsInv
    <3>3. i + 1 \in Nat /\ i + 1 >= 1
      OBVIOUS
    <3>4. QED
      BY <1>t, <2>1, <3>1, <3>2, <3>3
  <2>2. CASE wire'[u] = wire[u]
    BY <2>1, <2>2
  <2>3. wire'[u] # <<>>
    OBVIOUS
  <2>4. ASSUME NEW e, Grown(u, e), e.type = "create" => e.chat \in DOMAIN chats' \/ <<u, e.chat>> \in declined
        PROVE  ToldOffNext(u, wire'[u][i].chat, i + 1)
    <3>1. CASE i \in 1..Len(wire[u])
      BY <2>1, <2>4, <3>1 DEF Grown
    <3>2. CASE i = Len(wire[u]) + 1
      BY <2>4, <3>2 DEF Grown, ToldOffNext
    <3>3. QED
      BY <2>4, <3>1, <3>2 DEF Grown
  <2>5. QED
    BY <2>2, <2>3, <2>4
<1>4. \A u \in fetched' : \A c \in shown'[u] \ DOMAIN chats' : ToldOffNext(u, c, 1)
  <2> SUFFICES ASSUME NEW u \in fetched', NEW c \in shown'[u] \ DOMAIN chats' PROVE ToldOffNext(u, c, 1)
    OBVIOUS
  <2>1. u \in fetched /\ c \in shown[u] \ DOMAIN chats
    OBVIOUS
  <2>2. u \in User /\ c \in Chat
    BY <2>1 DEF TypeOK
  <2>3. ToldOff(u, c, 1)
    BY <2>1, ToldOffs
  <2>4. wire'[u] = wire[u] \/ \E e : Grown(u, e)
    BY <2>2
  <2>5. QED
    BY <1>t, <2>2, <2>3, <2>4
<1>5. QED
  BY <1>1, <1>2, <1>3, <1>4, ToldOffsNext

\* A chat that is deleted has been declined, and its other member will be told.
LEMMA DeclineStep ==
  ASSUME OneChatPerPair, TypeOK, HandlersInv, ClientsInv, MessagesInv, DeclinesInv, DeclineReaches, [Next]_vars,
         NEW u \in User, NEW c \in Chat, DeclineChat(u, c)
  PROVE  DeclinesInv' /\ DeclineReaches'
<1>1. /\ handler[u].phase = "serving" /\ c \in ChatsOf(u)
      /\ shown' = [shown EXCEPT ![u] = @ \ {c}]
      /\ declined' = declined \cup {<<u, c>>}
      /\ UNCHANGED <<said, wire, fetched>>
  BY DeclinesChat DEF ClientsInv
<1>2. \A v \in User, d \in Chat : handler[v] = Does("declining", {d}) \/ handler[v] = Does("creating", {d}) => v # u
  BY <1>1, DoesWhat
<1>t. ASSUME NEW v \in User, NEW d \in Chat, NEW n \in Nat, n >= 1, ToldOff(v, d, n), Telling(d) => TellingNext(d)
      PROVE  ToldOffNext(v, d, n)
  <2>1. Telling(d) => ToldOffNext(v, d, n)
    BY <1>t DEF ToldOffNext
  <2>2. QED
    BY <1>1, <1>t, <2>1, StaysTold
<1>3. CASE c \in DOMAIN chats
  <2>1. <<u, Other(u, c)>> \notin blacklist
    BY <1>1, <1>3 DEF DeclinesInv
  <2>2. /\ DOMAIN chats' = DOMAIN chats \ {c}
        /\ blacklist' = blacklist \cup {<<u, Other(u, c)>>}
        /\ handler' = [handler EXCEPT ![u] = handler'[u]] /\ handler'[u] = Does("declining", {c})
    BY <1>3, <2>1, DeclinesChat
  <2>3. \A v \in User \ {u} : handler'[v] = handler[v]
    BY <2>2 DEF TypeOK
  <2>4. \A d \in Chat : Telling(d) => TellingNext(d)
    BY <1>2, <2>3 DEF Telling, TellingNext
  <2>5. TellingNext(c)
    BY <2>2 DEF TellingNext
  <2>6. \A v \in User : \A d \in ChatsOf(v) :
          <<v, Other(v, d)>> \in blacklist' => d \notin DOMAIN chats' /\ \E m \in DOMAIN said' : said'[m].chat = d
    <3> SUFFICES ASSUME NEW v \in User, NEW d \in ChatsOf(v), <<v, Other(v, d)>> \in blacklist'
                 PROVE  d \notin DOMAIN chats' /\ \E m \in DOMAIN said' : said'[m].chat = d
      OBVIOUS
    <3>1. CASE <<v, Other(v, d)>> \in blacklist
      BY <1>1, <2>2, <3>1 DEF DeclinesInv
    <3>2. CASE <<v, Other(v, d)>> = <<u, Other(u, c)>>
      <4>1. v = u /\ Other(v, d) = Other(u, c)
        BY <3>2
      <4>2. {Members[c][1], Members[c][2]} = {Members[d][1], Members[d][2]} /\ d \in Chat
        BY <1>1, <4>1, Pairs
      <4>3. d = c
        BY <4>2 DEF OneChatPerPair
      <4>4. QED
        BY <1>1, <1>3, <2>2, <4>3 DEF MessagesInv
    <3>3. QED
      BY <2>2, <3>1, <3>2
  <2>7. \A v \in User, d \in Chat :
          /\ handler'[v] = Does("declining", {d}) => <<v, d>> \in declined'
          /\ handler'[v] = Does("creating", {d}) => d \in DOMAIN chats' \/ <<Other(v, d), d>> \in declined'
    <3> SUFFICES ASSUME NEW v \in User, NEW d \in Chat
                 PROVE  /\ handler'[v] = Does("declining", {d}) => <<v, d>> \in declined'
                        /\ handler'[v] = Does("creating", {d}) => d \in DOMAIN chats' \/ <<Other(v, d), d>> \in declined'
      OBVIOUS
    <3>1. CASE v = u
      <4>1. handler'[v].phase = "declining" /\ handler'[v].chat = {c}
        BY <2>2, <3>1, DoesWhat
      <4>2. \A e \in Chat : Does("creating", {e}).phase # "declining" /\ Does("declining", {e}).chat = {e}
        BY DoesWhat
      <4>3. handler'[v] = Does("declining", {d}) => d = c
        BY <4>1, <4>2
      <4>4. QED
        BY <1>1, <3>1, <4>1, <4>2, <4>3
    <3>2. CASE v # u
      <4>1. handler'[v] = handler[v]
        BY <2>3, <3>2
      <4>2. /\ handler[v] = Does("declining", {d}) => <<v, d>> \in declined
            /\ handler[v] = Does("creating", {d}) => d \in DOMAIN chats \/ <<Other(v, d), d>> \in declined
        BY DEF DeclinesInv
      <4>3. ASSUME handler[v] = Does("creating", {d}), d = c PROVE Other(v, d) = u
        <5>1. d \in ChatsOf(v)
          BY <4>3, BusyWith DEF Phases, Idle
        <5>2. QED
          BY <1>1, <3>2, <4>3, <5>1, Pairs
      <4>4. QED
        BY <1>1, <2>2, <4>1, <4>2, <4>3
    <3>3. QED
      BY <3>1, <3>2
  <2>8. \A v \in User : \A i \in 1..Len(wire'[v]) :
          wire'[v][i].type = "create" =>
            wire'[v][i].chat \in DOMAIN chats' \/ ToldOffNext(v, wire'[v][i].chat, i + 1)
    <3> SUFFICES ASSUME NEW v \in User, NEW i \in 1..Len(wire[v]), wire[v][i].type = "create",
                        wire[v][i].chat \notin DOMAIN chats'
                 PROVE  ToldOffNext(v, wire[v][i].chat, i + 1)
      BY <1>1
    <3>1. wire[v][i].chat \in Chat
      BY Pairs DEF ClientsInv
    <3>2. CASE wire[v][i].chat = c
      BY <2>5, <3>2 DEF ToldOffNext
    <3>3. CASE wire[v][i].chat # c
      <4>1. ToldOff(v, wire[v][i].chat, i + 1)
        BY <2>2, <3>3, ToldOffs
      <4>2. i + 1 \in Nat /\ i + 1 >= 1
        OBVIOUS
      <4>3. QED
        BY <1>t, <2>4, <3>1, <4>1, <4>2
    <3>4. QED
      BY <3>2, <3>3
  <2>9. \A v \in fetched' : \A d \in shown'[v] \ DOMAIN chats' : ToldOffNext(v, d, 1)
    <3> SUFFICES ASSUME NEW v \in fetched, NEW d \in shown'[v] \ DOMAIN chats' PROVE ToldOffNext(v, d, 1)
      BY <1>1
    <3>1. v \in User /\ d \in shown[v] /\ d \in Chat
      BY <1>1 DEF TypeOK
    <3>2. CASE d = c
      BY <2>5, <3>2 DEF ToldOffNext
    <3>3. CASE d # c
      <4>1. ToldOff(v, d, 1)
        BY <2>2, <3>1, <3>3, ToldOffs
      <4>2. QED
        BY <1>t, <2>4, <3>1, <4>1
    <3>4. QED
      BY <3>2, <3>3
  <2>10. QED
    BY <2>6, <2>7, <2>8, <2>9, ToldOffsNext
<1>4. CASE c \notin DOMAIN chats
  <2>1. UNCHANGED <<chats, status, blacklist, handler>>
    BY <1>4, DeclinesChat
  <2>2. \A d \in Chat : Telling(d) => TellingNext(d)
    BY <2>1 DEF Telling, TellingNext
  <2>3. \A v \in User : \A i \in 1..Len(wire'[v]) :
          wire'[v][i].type = "create" =>
            wire'[v][i].chat \in DOMAIN chats' \/ ToldOffNext(v, wire'[v][i].chat, i + 1)
    <3> SUFFICES ASSUME NEW v \in User, NEW i \in 1..Len(wire[v]), wire[v][i].type = "create",
                        wire[v][i].chat \notin DOMAIN chats
                 PROVE  ToldOffNext(v, wire[v][i].chat, i + 1)
      BY <1>1, <2>1
    <3>1. wire[v][i].chat \in Chat /\ ToldOff(v, wire[v][i].chat, i + 1)
      BY Pairs, ToldOffs DEF ClientsInv
    <3>2. i + 1 \in Nat /\ i + 1 >= 1
      OBVIOUS
    <3>3. QED
      BY <1>t, <2>2, <3>1, <3>2
  <2>4. \A v \in fetched' : \A d \in shown'[v] \ DOMAIN chats' : ToldOffNext(v, d, 1)
    <3> SUFFICES ASSUME NEW v \in fetched, NEW d \in shown'[v] \ DOMAIN chats PROVE ToldOffNext(v, d, 1)
      BY <1>1, <2>1
    <3>1. v \in User /\ d \in shown[v] /\ d \in Chat
      BY <1>1 DEF TypeOK
    <3>2. ToldOff(v, d, 1)
      BY <3>1, ToldOffs
    <3>3. QED
      BY <1>t, <2>2, <3>1, <3>2
  <2>5. QED
    BY <1>1, <2>1, <2>3, <2>4, ToldOffsNext DEF DeclinesInv
<1>5. QED
  BY <1>3, <1>4

\* Whoever is told of a decline has it on his wire, or his client will fetch anew.
LEMMA ToldStep ==
  ASSUME TypeOK, HandlersInv, ClientsInv, MessagesInv, DeclinesInv, DeclineReaches, [Next]_vars,
         NEW u \in User, NEW c \in Chat, ChatDeclined(u, c)
  PROVE  DeclinesInv' /\ DeclineReaches'
<1> DEFINE r == Other(u, c)
           e == Event("decline", c, 0)
<1>1. /\ handler[u] = Does("declining", {c})
      /\ handler' = [handler EXCEPT ![u] = Does("serving", {})]
      /\ Appended(r, e)
      /\ UNCHANGED <<chats, blacklist, said, fetched, shown, declined>>
  BY TellsDecline DEF database, clientVars
<1>2. c \in ChatsOf(u) /\ r \in User /\ r # u /\ <<u, c>> \in declined
  BY <1>1, BusyWith, Pairs DEF Phases, Idle, DeclinesInv
<1>3. e.type = "decline" /\ e.chat = c
  BY DEF Event
<1>4. \A d \in Chat : d # c /\ Telling(d) => TellingNext(d)
  <2>1. \A d \in Chat : handler[u] = Does("declining", {d}) => d = c
    <3>1. \A d \in Chat : Does("declining", {d}).chat = {d}
      BY DoesWhat
    <3>2. QED
      BY <1>1, <3>1
  <2>2. \A v \in User \ {u} : handler'[v] = handler[v]
    BY <1>1 DEF TypeOK
  <2>3. QED
    BY <2>1, <2>2 DEF Telling, TellingNext
<1> HIDE DEF r, e
<1>5. \A v \in User : wire'[v] = wire[v] \/ (v = r /\ Grown(v, e))
  BY <1>1, <1>2 DEF Appended, Grown
<1>6. ASSUME NEW v \in User, NEW n \in Nat, n >= 1, c \in ChatsOf(v),
             v \in active \cap attached, n <= Len(wire[v]) + 1
      PROVE  ToldOffNext(v, c, n)
  <2>1. CASE v = u
    BY <1>1, <1>2, <2>1 DEF ToldOffNext
  <2>2. CASE v = r
    <3>1. Grown(v, e)
      BY <1>1, <1>6, <2>2 DEF Appended, Grown
    <3>2. Len(wire[v]) + 1 \in n..Len(wire'[v])
      BY <1>6, <3>1 DEF Grown
    <3>3. QED
      BY <1>3, <3>1, <3>2 DEF Grown, DeclineSentNext, ToldOffNext
  <2>3. QED
    BY <1>2, <1>6, <2>1, <2>2, Pairs DEF r
<1>t. ASSUME NEW v \in User, NEW d \in Chat, NEW n \in Nat, n >= 1, d # c, ToldOff(v, d, n)
      PROVE  ToldOffNext(v, d, n)
  <2>1. Telling(d) => ToldOffNext(v, d, n)
    BY <1>4, <1>t DEF ToldOffNext
  <2>2. wire'[v] = wire[v] \/ \E x : Grown(v, x)
    BY <1>5
  <2>3. QED
    BY <1>1, <1>t, <2>1, <2>2, StaysTold
<1>7. \A v \in User : \A i \in 1..Len(wire'[v]) :
        wire'[v][i].type = "create" =>
          wire'[v][i].chat \in DOMAIN chats' \/ ToldOffNext(v, wire'[v][i].chat, i + 1)
  <2> SUFFICES ASSUME NEW v \in User, NEW i \in 1..Len(wire'[v]), wire'[v][i].type = "create",
                      wire'[v][i].chat \notin DOMAIN chats
               PROVE  ToldOffNext(v, wire'[v][i].chat, i + 1)
    BY <1>1
  <2>1. i \in 1..Len(wire[v]) /\ wire'[v][i] = wire[v][i] /\ Len(wire[v]) \in Nat
    <3>1. Len(wire[v]) \in Nat
      BY <1>1 DEF Appended
    <3>2. QED
      BY <1>3, <1>5, <3>1 DEF Grown
  <2>2. /\ wire[v][i].chat \in Chat /\ wire[v][i].chat \in ChatsOf(v) /\ ToldOff(v, wire[v][i].chat, i + 1)
    BY <2>1, Pairs, ToldOffs DEF ClientsInv
  <2>3. i + 1 \in Nat /\ i + 1 >= 1 /\ i + 1 <= Len(wire[v]) + 1
    BY <2>1
  <2>4. wire[v] # <<>>
    BY <2>1
  <2>5. v \in active \cap attached
    BY <2>4 DEF ClientsInv
  <2>6. QED
    BY <1>6, <1>t, <2>1, <2>2, <2>3, <2>5
<1>8. \A v \in fetched' : \A d \in shown'[v] \ DOMAIN chats' : ToldOffNext(v, d, 1)
  <2> SUFFICES ASSUME NEW v \in fetched, NEW d \in shown[v] \ DOMAIN chats PROVE ToldOffNext(v, d, 1)
    BY <1>1
  <2>1. v \in User /\ v \in active \cap attached /\ d \in ChatsOf(v) /\ d \in Chat /\ ToldOff(v, d, 1)
    BY Pairs, ToldOffs DEF ClientsInv, TypeOK
  <2>2. Len(wire[v]) \in Nat
    BY <1>1, <2>1 DEF Appended
  <2>3. 1 \in Nat /\ 1 >= 1 /\ 1 <= Len(wire[v]) + 1
    BY <2>2
  <2>4. QED
    BY <1>6, <1>t, <2>1, <2>3
<1>9. \A v \in User, d \in Chat :
        /\ handler'[v] = Does("declining", {d}) => <<v, d>> \in declined'
        /\ handler'[v] = Does("creating", {d}) => d \in DOMAIN chats' \/ <<Other(v, d), d>> \in declined'
  <2>1. \A v \in User : handler'[v] = handler[v] \/ handler'[v] = Does("serving", {})
    BY <1>1 DEF TypeOK
  <2>2. \A S : Does("serving", {}) # Does("declining", S) /\ Does("serving", {}) # Does("creating", S)
    <3>1. \A S : Does("serving", {}).phase # Does("declining", S).phase /\ Does("serving", {}).phase # Does("creating", S).phase
      BY DoesWhat
    <3>2. QED
      BY <3>1
  <2>3. QED
    BY <1>1, <2>1, <2>2 DEF DeclinesInv
<1>10. QED
  BY <1>1, <1>7, <1>8, <1>9, ToldOffsNext DEF DeclinesInv

\* What a client reads of a chat that is gone is followed by its decline.
LEMMA ReadStep ==
  ASSUME TypeOK, HandlersInv, ClientsInv, MessagesInv, DeclinesInv, DeclineReaches, [Next]_vars,
         NEW u \in User, ReadWire(u)
  PROVE  DeclinesInv' /\ DeclineReaches'
<1> DEFINE e == wire[u][1]
<1>1. /\ 1 \in 1..Len(wire[u]) /\ e \in WireEvent
      /\ Len(wire[u]) \in Nat /\ Len(wire'[u]) = Len(wire[u]) - 1
      /\ \A v \in User \ {u} : wire'[v] = wire[v]
      /\ \A i \in 1..Len(wire'[u]) : i + 1 \in 1..Len(wire[u]) /\ wire'[u][i] = wire[u][i + 1]
      /\ \A i \in 2..Len(wire[u]) : i - 1 \in 1..Len(wire'[u]) /\ wire'[u][i - 1] = wire[u][i]
      /\ UNCHANGED <<handler, chats, blacklist, said, fetched, declined>>
  BY ReadsWire DEF database
<1>2. shown' = CASE e.type = "create" -> [shown EXCEPT ![u] = @ \cup {e.chat}]
                 [] e.type = "decline" -> [shown EXCEPT ![u] = @ \ {e.chat}]
                 [] OTHER -> shown
  BY ReadsWire
<1> HIDE DEF e
<1>3. /\ \A v \in User \ {u} : shown'[v] = shown[v]
      /\ \/ e.type = "create" /\ shown'[u] = shown[u] \cup {e.chat}
         \/ e.type = "decline" /\ shown'[u] = shown[u] \ {e.chat}
         \/ e.type \notin {"create", "decline"} /\ shown'[u] = shown[u]
  BY <1>2 DEF TypeOK
<1>4. \A d : Telling(d) => TellingNext(d)
  BY <1>1 DEF Telling, TellingNext
<1>t. ASSUME NEW v \in User \ {u}, NEW d \in Chat, NEW n \in Nat, n >= 1, ToldOff(v, d, n)
      PROVE  ToldOffNext(v, d, n)
  <2>1. Telling(d) => ToldOffNext(v, d, n)
    BY <1>4 DEF ToldOffNext
  <2>2. wire'[v] = wire[v]
    BY <1>1
  <2>3. QED
    BY <1>1, <1>t, <2>1, <2>2, StaysTold
<1>5. ASSUME NEW d, NEW n \in Nat, n >= 2, ToldOff(u, d, n) PROVE ToldOffNext(u, d, n - 1)
  <2>1. CASE <<u, d>> \in declined \/ Telling(d)
    BY <1>1, <1>4, <2>1 DEF ToldOffNext
  <2>2. CASE DeclineSent(u, d, n)
    <3>1. PICK j \in n..Len(wire[u]) : wire[u][j].type = "decline" /\ wire[u][j].chat = d
      BY <2>2 DEF DeclineSent
    <3>2. j \in 2..Len(wire[u]) /\ n - 1 <= j - 1 /\ j - 1 \in Int
      BY <1>1, <1>5, <3>1
    <3>3. j - 1 \in 1..Len(wire'[u]) /\ wire'[u][j - 1] = wire[u][j]
      BY <1>1, <3>2
    <3>4. j - 1 \in (n - 1)..Len(wire'[u])
      BY <1>1, <1>5, <3>2, <3>3
    <3>5. QED
      BY <3>1, <3>3, <3>4 DEF DeclineSentNext, ToldOffNext
  <2>3. QED
    BY <1>5, <2>1, <2>2 DEF ToldOff
<1>6. \A v \in User : \A i \in 1..Len(wire'[v]) :
        wire'[v][i].type = "create" =>
          wire'[v][i].chat \in DOMAIN chats' \/ ToldOffNext(v, wire'[v][i].chat, i + 1)
  <2> SUFFICES ASSUME NEW v \in User, NEW i \in 1..Len(wire'[v]), wire'[v][i].type = "create",
                      wire'[v][i].chat \notin DOMAIN chats
               PROVE  ToldOffNext(v, wire'[v][i].chat, i + 1)
    BY <1>1
  <2>1. CASE v = u
    <3>1. i + 1 \in 1..Len(wire[u]) /\ wire'[u][i] = wire[u][i + 1]
      BY <1>1, <2>1
    <3>2. ToldOff(u, wire[u][i + 1].chat, (i + 1) + 1)
      BY <2>1, <3>1, ToldOffs
    <3>3. (i + 1) + 1 \in Nat /\ (i + 1) + 1 >= 2 /\ ((i + 1) + 1) - 1 = i + 1
      OBVIOUS
    <3>4. QED
      BY <1>5, <2>1, <3>1, <3>2, <3>3
  <2>2. CASE v # u
    <3>1. wire'[v] = wire[v]
      BY <1>1, <2>2
    <3>2. wire[v][i].chat \in Chat /\ ToldOff(v, wire[v][i].chat, i + 1)
      BY <3>1, Pairs, ToldOffs DEF ClientsInv
    <3>3. i + 1 \in Nat /\ i + 1 >= 1
      OBVIOUS
    <3>4. QED
      BY <1>t, <2>2, <3>1, <3>2, <3>3
  <2>3. QED
    BY <2>1, <2>2
<1>7. \A v \in fetched' : \A d \in shown'[v] \ DOMAIN chats' : ToldOffNext(v, d, 1)
  <2> SUFFICES ASSUME NEW v \in fetched, NEW d \in shown'[v] \ DOMAIN chats PROVE ToldOffNext(v, d, 1)
    BY <1>1
  <2>1. v \in User
    BY DEF TypeOK
  <2>2. CASE v # u
    <3>1. d \in shown[v] /\ d \in Chat
      BY <1>3, <2>1, <2>2 DEF TypeOK
    <3>2. ToldOff(v, d, 1)
      BY <3>1, ToldOffs
    <3>3. QED
      BY <1>t, <2>1, <2>2, <3>1, <3>2
  <2>3. CASE v = u /\ d \in shown[u]
    <3>1. ToldOff(u, d, 1) /\ ~(e.type = "decline" /\ e.chat = d)
      BY <1>3, <2>3, ToldOffs
    <3>2. DeclineSent(u, d, 1) => DeclineSent(u, d, 2)
      <4>1. ASSUME NEW j \in 1..Len(wire[u]), wire[u][j].type = "decline" /\ wire[u][j].chat = d
            PROVE  j \in 2..Len(wire[u])
        <5>1. j # 1
          BY <3>1, <4>1 DEF e
        <5>2. QED
          BY <1>1, <4>1, <5>1
      <4>2. QED
        BY <4>1 DEF DeclineSent
    <3>3. ToldOff(u, d, 2)
      BY <3>1, <3>2 DEF ToldOff
    <3>4. QED
      BY <1>5, <2>3, <3>3
  <2>4. CASE v = u /\ d \notin shown[u]
    <3>1. e.type = "create" /\ d = e.chat
      BY <1>3, <2>4
    <3>2. ToldOff(u, d, 1 + 1)
      BY <1>1, <3>1, ToldOffs DEF e
    <3>3. 1 + 1 \in Nat /\ 1 + 1 >= 2 /\ (1 + 1) - 1 = 1
      OBVIOUS
    <3>4. QED
      BY <1>5, <2>4, <3>2, <3>3
  <2>5. QED
    BY <2>2, <2>3, <2>4
<1>8. QED
  BY <1>1, <1>6, <1>7, ToldOffsNext DEF DeclinesInv

\* Every step keeps what is known of declined chats.
LEMMA DeclinesStep ==
  ASSUME OneChatPerPair, TypeOK, HandlersInv, ClientsInv, MessagesInv, DeclinesInv, DeclineReaches, [Next]_vars
  PROVE  DeclinesInv' /\ DeclineReaches'
<1> DEFINE Quiet(phase) == phase \notin {"creating", "declining"}
           Same == \A v \in User, c \in Chat :
                     /\ handler'[v] = Does("declining", {c}) <=> handler[v] = Does("declining", {c})
                     /\ handler'[v] = Does("creating", {c}) => handler[v] = Does("creating", {c})
<1>d. \A p, q, S, T : Does(p, S) = Does(q, T) => p = q
  <2>1. \A p, S : Does(p, S).phase = p
    BY DoesWhat
  <2>2. QED
    BY <2>1
<1>h. ASSUME NEW u \in User, handler' = [handler EXCEPT ![u] = handler'[u]],
             handler[u].phase # "declining", Quiet(handler'[u].phase)
      PROVE  Same
  <2>1. \A c : Does("declining", {c}).phase = "declining" /\ Does("creating", {c}).phase = "creating"
    BY DoesWhat
  <2>2. \A v \in User \ {u} : handler'[v] = handler[v]
    BY <1>h DEF TypeOK
  <2>3. \A c : handler[u] # Does("declining", {c}) /\ handler'[u] # Does("declining", {c}) /\ handler'[u] # Does("creating", {c})
    BY <1>h, <2>1
  <2>4. QED
    BY <2>2, <2>3
<1>i. ASSUME NEW u \in User, NEW x, handler' = [handler EXCEPT ![u] = x], handler[u].phase # "declining", Quiet(x.phase)
      PROVE  Same
  <2>1. handler'[u] = x
    BY <1>i DEF TypeOK
  <2>2. QED
    BY <1>h, <1>i, <2>1
<1>q. \A S : Quiet(Does("away", S).phase) /\ Quiet(Does("joining", S).phase) /\ Quiet(Does("joined", S).phase)
             /\ Quiet(Does("serving", S).phase) /\ Quiet(Does("leaving", S).phase) /\ Quiet(Does("cooldown?", S).phase)
             /\ Quiet(Does("token?", S).phase) /\ Quiet(Does("pushed", S).phase)
  BY DoesWhat
<1>s. handler' = handler => Same
  OBVIOUS
<1> HIDE DEF Same, Quiet
<1>b. ASSUME Same, UNCHANGED <<blacklist, wire, fetched, shown, declined>>, DOMAIN chats' = DOMAIN chats
      PROVE  DeclinesInv' /\ DeclineReaches'
  BY <1>b, DeclinesQuiet DEF Same
<1>g. ASSUME NEW r \in User, NEW e, Appended(r, e), e.type = "create" => e.chat \in DOMAIN chats \/ <<r, e.chat>> \in declined
      PROVE  \A v \in User : \/ wire'[v] = wire[v]
                             \/ \E x : Grown(v, x) /\ (x.type = "create" => x.chat \in DOMAIN chats \/ <<v, x.chat>> \in declined)
  BY <1>g DEF Appended, Grown
<1>w. ASSUME Same, NEW r \in User, NEW e, Appended(r, e),
             e.type = "create" => e.chat \in DOMAIN chats \/ <<r, e.chat>> \in declined,
             UNCHANGED <<blacklist, fetched, shown, declined>>, DOMAIN chats' = DOMAIN chats
      PROVE  DeclinesInv' /\ DeclineReaches'
  BY <1>g, <1>w, DeclinesQuiet DEF Same
<1>1. ASSUME NEW u \in User, Connect(u) PROVE DeclinesInv' /\ DeclineReaches'
  <2>1. Same
    BY <1>1, <1>i, <1>q DEF Connect
  <2>2. QED
    BY <1>1, <1>b, <2>1 DEF Connect, database, clientVars
<1>2. ASSUME NEW u \in User, DropToken(u) PROVE DeclinesInv' /\ DeclineReaches'
  <2>1. Same
    BY <1>2, <1>i, <1>q DEF DropToken
  <2>2. QED
    BY <1>2, <1>b, <2>1 DEF DropToken, database, clientVars
<1>3. ASSUME NEW u \in User, Register(u) PROVE DeclinesInv' /\ DeclineReaches'
  <2>1. Same
    BY <1>3, <1>i, <1>q DEF Register
  <2>2. QED
    BY <1>3, <1>b, <2>1 DEF Register, database, clientVars
<1>4. ASSUME NEW u \in User, Drop(u) PROVE DeclinesInv' /\ DeclineReaches'
  <2>1. /\ Same /\ fetched' = fetched \ {u} /\ UNCHANGED <<chats, blacklist, shown, declined>>
        /\ wire'[u] = <<>> /\ \A v \in User \ {u} : wire'[v] = wire[v]
    BY <1>4, <1>s DEF Drop, TypeOK, database
  <2>2. QED
    BY <2>1, DeclinesQuiet DEF Same
<1>5. ASSUME NEW u \in User, Disconnect(u) PROVE DeclinesInv' /\ DeclineReaches'
  <2>1. Same
    BY <1>5, <1>i, <1>q DEF Disconnect
  <2>2. QED
    BY <1>5, <1>b, <2>1 DEF Disconnect, database, clientVars
<1>6. ASSUME NEW u \in User, KeepToken(u) PROVE DeclinesInv' /\ DeclineReaches'
  <2>1. Same
    BY <1>6, <1>i, <1>q DEF KeepToken
  <2>2. QED
    BY <1>6, <1>b, <2>1 DEF KeepToken, database, clientVars
<1>7. ASSUME NEW u \in User, NEW c \in Chat, CreateChat(u, c) PROVE DeclinesInv' /\ DeclineReaches'
  <2>1. /\ handler[u].phase = "serving" /\ \A m \in DOMAIN said : said[m].chat # c
        /\ DOMAIN chats \subseteq DOMAIN chats' /\ DOMAIN chats' \subseteq DOMAIN chats \cup {c}
        /\ c \in DOMAIN chats' \/ \E d \in DOMAIN chats : Members[d] = Members[c]
        /\ shown' = [shown EXCEPT ![u] = @ \cup {c}]
        /\ handler' = [handler EXCEPT ![u] = Does("creating", {c})]
        /\ UNCHANGED <<blacklist, wire, fetched, declined>>
    BY <1>7, Creates
  <2>2. c \in DOMAIN chats'
    <3>1. ASSUME NEW d \in DOMAIN chats, Members[d] = Members[c] PROVE FALSE
      <4>1. d \in Chat /\ \E m \in DOMAIN said : said[m].chat = d
        BY DEF TypeOK, MessagesInv
      <4>2. d = c
        BY <3>1, <4>1 DEF OneChatPerPair
      <4>3. QED
        BY <2>1, <4>1, <4>2
    <3>2. QED
      BY <2>1, <3>1
  <2>3. \A v \in User, d \in Chat :
          /\ handler'[v] = Does("declining", {d}) <=> handler[v] = Does("declining", {d})
          /\ handler'[v] = Does("creating", {d}) => d \in DOMAIN chats' \/ handler[v] = Does("creating", {d})
    <3>1. \A v \in User \ {u} : handler'[v] = handler[v]
      BY <2>1 DEF TypeOK
    <3>2. handler'[u] = Does("creating", {c})
      BY <2>1 DEF TypeOK
    <3>3. \A d : handler[u] # Does("declining", {d})
      BY <2>1, DoesWhat
    <3>4. \A d : Does("creating", {c}) # Does("declining", {d})
      BY <1>d
    <3>5. \A d : Does("creating", {c}) = Does("creating", {d}) => d = c
      <4>1. \A d : Does("creating", {d}).chat = {d}
        BY DoesWhat
      <4>2. ASSUME NEW d, Does("creating", {c}) = Does("creating", {d}) PROVE {c} = {d}
        BY <4>1, <4>2
      <4>3. QED
        BY <4>2
    <3>6. QED
      BY <2>2, <3>1, <3>2, <3>3, <3>4, <3>5
  <2>4. \A v \in fetched' : v \in fetched /\ shown'[v] \subseteq shown[v] \cup DOMAIN chats'
    BY <2>1, <2>2 DEF TypeOK
  <2>5. QED
    BY <2>1, <2>3, <2>4, DeclinesQuiet
<1>8. ASSUME NEW u \in User, NEW c \in Chat, ChatCreated(u, c) PROVE DeclinesInv' /\ DeclineReaches'
  <2>1. PICK m \in DOMAIN said : Appended(Other(u, c), Event("create", c, m))
    BY <1>8, CreatedEvent
  <2>2. /\ handler[u] = Does("creating", {c}) /\ UNCHANGED <<chats, blacklist, fetched, shown, declined>>
        /\ handler' = [handler EXCEPT ![u] = handler'[u]]
        /\ handler'[u] \in {Does("serving", {}), Does("cooldown?", {c})}
    BY <1>8, CreatedEvent DEF database, clientVars
  <2>3. handler[u].phase # "declining"
    BY <2>2, DoesWhat
  <2>4. Same
    BY <1>h, <1>q, <2>2, <2>3
  <2>5. Event("create", c, m).chat = c /\ (c \in DOMAIN chats \/ <<Other(u, c), c>> \in declined)
    BY <2>2 DEF Event, DeclinesInv
  <2>6. Other(u, c) \in User
    BY Pairs
  <2>7. QED
    BY <1>w, <2>1, <2>2, <2>4, <2>5, <2>6
<1>9. ASSUME NEW u \in User, NEW c \in Chat, PostMessage(u, c) PROVE DeclinesInv' /\ DeclineReaches'
  <2>1. /\ handler[u].phase = "serving" /\ UNCHANGED <<chats, blacklist, fetched, shown, declined>>
    BY <1>9, Posts DEF clientVars
  <2>2. \/ /\ Appended(Other(u, c), Event("message", c, NextMessage))
           /\ handler' = [handler EXCEPT ![u] = handler'[u]]
           /\ handler'[u] \in {Does("serving", {}), Does("cooldown?", {c})}
        \/ UNCHANGED <<wire, handler>>
    BY <1>9, Posts
  <2>3. Same
    BY <1>h, <1>q, <1>s, <2>1, <2>2
  <2>4. Event("message", c, NextMessage).type # "create" /\ Other(u, c) \in User
    BY Pairs DEF Event
  <2>5. QED
    BY <1>b, <1>w, <2>1, <2>2, <2>3, <2>4
<1>10. ASSUME NEW u \in User, NEW c \in Chat, AcceptChat(u, c) PROVE DeclinesInv' /\ DeclineReaches'
  <2>1. /\ handler[u].phase = "serving" /\ UNCHANGED <<blacklist, fetched, shown, declined>>
        /\ DOMAIN chats' = DOMAIN chats
        /\ Appended(Other(u, c), Event("accept", c, 0))
        /\ handler' = [handler EXCEPT ![u] = handler'[u]]
        /\ handler'[u] \in {Does("serving", {}), Does("cooldown?", {c})}
    BY <1>10, AcceptsChat DEF clientVars
  <2>2. Same
    BY <1>h, <1>q, <2>1
  <2>3. Event("accept", c, 0).type # "create" /\ Other(u, c) \in User
    BY Pairs DEF Event
  <2>4. QED
    BY <1>w, <2>1, <2>2, <2>3
<1>11. ASSUME NEW u \in User, NEW c \in Chat, OpenChat(u, c) PROVE DeclinesInv' /\ DeclineReaches'
  <2>1. DOMAIN chats' = DOMAIN chats
    BY <1>11 DEF OpenChat
  <2>2. QED
    BY <1>11, <1>b, <1>s, <2>1 DEF OpenChat, clientVars
<1>12. ASSUME NEW u \in User, AskCooldown(u) \/ AskToken(u) \/ StartCooldown(u) PROVE DeclinesInv' /\ DeclineReaches'
  <2>1. PICK c \in Chat :
          /\ handler[u] \in {Does("cooldown?", {c}), Does("token?", {c}), Does("pushed", {c})}
          /\ \/ handler' = [handler EXCEPT ![u] = Does("serving", {})]
             \/ handler' = [handler EXCEPT ![u] = Does("token?", {c})]
             \/ handler' = [handler EXCEPT ![u] = Does("pushed", {c})]
    BY <1>12 DEF AskCooldown, AskToken, StartCooldown
  <2>2. handler[u].phase # "declining"
    BY <2>1, DoesWhat
  <2>3. Same
    BY <1>i, <1>q, <2>1, <2>2
  <2>4. QED
    BY <1>12, <1>b, <2>3 DEF AskCooldown, AskToken, StartCooldown, database, clientVars
<1>13. ASSUME NEW u \in User, Fetch(u) PROVE DeclinesInv' /\ DeclineReaches'
  <2>1. /\ Same /\ fetched' = fetched \cup {u} /\ UNCHANGED <<chats, blacklist, wire, declined>>
        /\ shown' = [shown EXCEPT ![u] = {said[m].chat : m \in Stored} \cap ChatsOf(u)]
    BY <1>13, <1>s DEF Fetch, database
  <2>2. {said[m].chat : m \in Stored} \subseteq DOMAIN chats
    BY DEF TypeOK
  <2>3. \A v \in fetched' : \/ shown'[v] \subseteq DOMAIN chats'
                            \/ v \in fetched /\ shown'[v] \subseteq shown[v] \cup DOMAIN chats'
    BY <2>1, <2>2 DEF TypeOK
  <2>4. QED
    BY <2>1, <2>3, DeclinesQuiet DEF Same
<1>14. CASE \E u \in User, m \in 1..MaxMessages : Receive(u, m) \/ ReadMessage(u, m)
  BY <1>14, <1>b, <1>s DEF Receive, ReadMessage, clientVars
<1>15. CASE \E u, v \in User : CooldownEnds(u, v)
  BY <1>15, <1>b, <1>s DEF CooldownEnds, database, clientVars
<1>16. CASE UNCHANGED vars
  BY <1>16, <1>b, <1>s DEF vars
<1>17. QED
  BY <1>1, <1>2, <1>3, <1>4, <1>5, <1>6, <1>7, <1>8, <1>9, <1>10, <1>11, <1>12, <1>13, <1>14, <1>15, <1>16,
     DeclineStep, ToldStep, ReadStep DEF Next

\* A chat the other one has deleted does not stay with a client that has fetched
\* (chats/endpoints.py): it is gone, or its decline is on the way.  This is about one
\* chat for each pair of users: with two, the second deletion finds the pair on the
\* blacklist and tells nobody.
THEOREM DeclinesReach ==
  ASSUME OneChatPerPair
  PROVE  Spec => []DeclineReaches
<1> DEFINE Inv == TypeOK /\ HandlersInv /\ ClientsInv /\ MessagesInv /\ DeclinesInv /\ DeclineReaches
<1>1. Init => Inv
  <2> SUFFICES ASSUME Init PROVE Inv
    OBVIOUS
  <2>1. 1..Len(<<>>) = {} /\ \A u \in User, c \in Chat : handler[u] # Does("declining", {c}) /\ handler[u] # Does("creating", {c})
    BY DoesWhat DEF Init
  <2>2. DeclinesInv /\ DeclineReaches
    BY <2>1 DEF Init, DeclinesInv, DeclineReaches
  <2>3. QED
    BY <2>2, TypeInit
<1>2. Inv /\ [Next]_vars => Inv'
  BY OneChatPerPair, TypeStep, HandlersStep, ClientsStep, MessagesStep, DeclinesStep
<1>3. Inv => DeclineReaches
  OBVIOUS
<1>4. QED
  BY <1>1, <1>2, <1>3, PTL DEF Spec

-------------------------------------------------------------------------------
(* Messages in order *)

\* What is stored for a user, what is on his wire, and whose first message is not
\* passed on yet, now and after a step.
Sent(u, m) == \E i \in 1..Len(wire[u]) : Carries(wire[u][i]) /\ wire[u][i].id = m
Creating(m) == handler[said[m].from] = Does("creating", {said[m].chat})
ForNext(u) == {m \in DOMAIN status' : said'[m].chat \in ChatsOf(u) /\ said'[m].from # u}
SentNext(u, m) == \E i \in 1..Len(wire'[u]) : Carries(wire'[u][i]) /\ wire'[u][i].id = m
CreatingNext(m) == handler'[said'[m].from] = Does("creating", {said'[m].chat})
OvertakenNext(m) ==
  \E n \in DOMAIN said' :
    /\ n > m
    /\ said'[n].from = said'[m].from /\ said'[n].chat # said'[m].chat
    /\ n \in seen'[Other(said'[n].from, said'[n].chat)]

\* What has been overtaken stays so.
StaysOvertaken == \A m \in DOMAIN said : Overtaken(m) => OvertakenNext(m)

\* On a wire the messages of a chat are in order, and none is a first message that
\* has still to be passed on.
Ordered(u) ==
  /\ \A i, j \in 1..Len(wire[u]) :
       i < j /\ Carries(wire[u][i]) /\ Carries(wire[u][j])
             /\ said[wire[u][i].id].chat = said[wire[u][j].id].chat => wire[u][i].id < wire[u][j].id
  /\ \A i \in 1..Len(wire[u]) : Carries(wire[u][i]) => ~Creating(wire[u][i].id)
OrderedNext(u) ==
  /\ \A i, j \in 1..Len(wire'[u]) :
       i < j /\ Carries(wire'[u][i]) /\ Carries(wire'[u][j])
             /\ said'[wire'[u][i].id].chat = said'[wire'[u][j].id].chat => wire'[u][i].id < wire'[u][j].id
  /\ \A i \in 1..Len(wire'[u]) : Carries(wire'[u][i]) => ~CreatingNext(wire'[u][i].id)

\* A client that has fetched lacks only what has been overtaken, or is under way and
\* newer than all it has of that chat.
Complete(u) ==
  \A m \in For(u) \ known[u] :
    \/ Overtaken(m)
    \/ /\ Sent(u, m) \/ Creating(m)
       /\ \A n \in known[u] : said[n].chat = said[m].chat => n < m
CompleteNext(u) ==
  \A m \in ForNext(u) \ known'[u] :
    \/ OvertakenNext(m)
    \/ /\ SentNext(u, m) \/ CreatingNext(m)
       /\ \A n \in known'[u] : said'[n].chat = said'[m].chat => n < m

\* OrderInv in these words.
LEMMA Orders ==
  ASSUME OrderInv
  PROVE  /\ \A u \in User : Ordered(u)
         /\ \A u \in fetched : Complete(u)
BY DEF OrderInv, Ordered, Complete, Waiting, Sent, Creating

\* And back, after a step.
LEMMA OrdersNext ==
  ASSUME \A u \in User : OrderedNext(u),
         \A u \in fetched' : CompleteNext(u)
  PROVE  OrderInv'
<1>1. \A u \in fetched' : \A m \in ForNext(u) \ known'[u] :
        \/ OvertakenNext(m)
        \/ /\ SentNext(u, m) \/ CreatingNext(m)
           /\ \A n \in known'[u] : said'[n].chat = said'[m].chat => n < m
  BY DEF CompleteNext
<1>2. QED
  BY <1>1 DEF OrderInv, OrderedNext, Waiting, For, Stored, ForNext, SentNext, CreatingNext, Overtaken, OvertakenNext

\* What is meant for a user in a chat comes from its other member.
LEMMA OneSender ==
  ASSUME TypeOK, MessagesInv
  PROVE  /\ \A u \in User : \A m, n \in Meant(u) :
              said[m].chat = said[n].chat => said[m].from = said[n].from
         /\ \A m \in DOMAIN said : said[m].from \in User /\ said[m].chat \in Chat
         /\ \A u \in User : \A m \in Meant(u) : Other(said[m].from, said[m].chat) = u
         /\ \A u \in User : For(u) \subseteq Meant(u)
         /\ \A m \in DOMAIN said : m \in Nat /\ m < NextMessage
<1>1. \A m \in DOMAIN said : said[m].from \in User /\ said[m].chat \in Chat
  <2>1. \A m \in DOMAIN said : said[m] \in Message
    <3>1. said \in Seq(Message)
      BY DEF TypeOK
    <3>2. QED
      BY <3>1
  <2>2. QED
    BY <2>1 DEF Message
<1>3. \A u \in User : \A m, n \in Meant(u) :
        said[m].chat = said[n].chat => said[m].from = said[n].from
  <2> SUFFICES ASSUME NEW u \in User, NEW m \in Meant(u), NEW n \in Meant(u), said[m].chat = said[n].chat
               PROVE  said[m].from = said[n].from
    OBVIOUS
  <2>1. /\ m \in DOMAIN said /\ said[m].chat \in ChatsOf(u) /\ said[m].from # u
        /\ n \in DOMAIN said /\ said[n].from # u
    BY DEF Meant
  <2>2. /\ said[m].chat \in ChatsOf(said[m].from) /\ said[m].from \in User
        /\ said[m].chat \in ChatsOf(said[n].from) /\ said[n].from \in User
    BY <1>1, <2>1 DEF MessagesInv
  <2>3. QED
    BY <2>1, <2>2, Pairs
<1>4. \A u \in User : \A m \in Meant(u) : Other(said[m].from, said[m].chat) = u
  <2> SUFFICES ASSUME NEW u \in User, NEW m \in Meant(u) PROVE Other(said[m].from, said[m].chat) = u
    OBVIOUS
  <2>1. m \in DOMAIN said /\ said[m].chat \in ChatsOf(u) /\ said[m].from # u
    BY DEF Meant
  <2>2. said[m].chat \in ChatsOf(said[m].from) /\ said[m].from \in User
    BY <1>1, <2>1 DEF MessagesInv
  <2>3. QED
    BY <2>1, <2>2, Pairs
<1>5. \A m \in DOMAIN said : m \in Nat /\ m < NextMessage
  <2>1. said \in Seq(Message)
    BY DEF TypeOK
  <2>2. QED
    BY <2>1 DEF NextMessage
<1>6. \A u \in User : For(u) \subseteq Meant(u)
  BY DEF For, Meant, TypeOK
<1>7. QED
  BY <1>1, <1>3, <1>4, <1>5, <1>6

\* Nothing is written but what carries no message.
LEMMA OrderedStays ==
  ASSUME TypeOK, ClientsInv, MessagesInv, OrderInv, NEW u \in User,
         DOMAIN said \subseteq DOMAIN said', \A m \in DOMAIN said : said'[m] = said[m] /\ (CreatingNext(m) => Creating(m)),
         \/ wire'[u] = wire[u]
         \/ wire'[u] = <<>>
         \/ \E e : Grown(u, e) /\ ~Carries(e)
  PROVE  OrderedNext(u)
<1>1. \A i \in 1..Len(wire[u]) : Carries(wire[u][i]) => wire[u][i].id \in DOMAIN said
  BY DEF ClientsInv, Meant
<1>2. Ordered(u)
  BY Orders
<1>3. CASE wire'[u] = wire[u]
  BY <1>1, <1>2, <1>3 DEF Ordered, OrderedNext
<1>4. CASE wire'[u] = <<>>
  BY <1>4 DEF OrderedNext
<1>5. ASSUME NEW e, Grown(u, e), ~Carries(e) PROVE OrderedNext(u)
  <2>1. \A i \in 1..Len(wire'[u]) : Carries(wire'[u][i]) => i \in 1..Len(wire[u]) /\ wire'[u][i] = wire[u][i]
    BY <1>5 DEF Grown
  <2>2. QED
    BY <1>1, <1>2, <2>1 DEF Ordered, OrderedNext
<1>6. QED
  BY <1>3, <1>4, <1>5

\* Whatever was sent stays so while the wire grows.
LEMMA SentStays ==
  ASSUME NEW u \in User, NEW m, Sent(u, m), wire'[u] = wire[u] \/ \E e : Grown(u, e)
  PROVE  SentNext(u, m)
<1>1. CASE wire'[u] = wire[u]
  BY <1>1 DEF Sent, SentNext
<1>2. ASSUME NEW e, Grown(u, e) PROVE SentNext(u, m)
  <2>1. PICK i \in 1..Len(wire[u]) : Carries(wire[u][i]) /\ wire[u][i].id = m
    BY DEF Sent
  <2>2. i \in 1..Len(wire'[u]) /\ wire'[u][i] = wire[u][i]
    BY <1>2 DEF Grown
  <2>3. QED
    BY <2>1, <2>2 DEF SentNext
<1>3. QED
  BY <1>1, <1>2

\* A step in which nothing is said, stored or learnt, and no first message passed on.
LEMMA OrderQuiet ==
  ASSUME TypeOK, HandlersInv, ClientsInv, MessagesInv, OrderInv, StaysOvertaken,
         said' = said, known' = known, DOMAIN status' \subseteq DOMAIN status, fetched' \subseteq fetched,
         \A v \in User, c \in Chat : handler'[v] = Does("creating", {c}) <=> handler[v] = Does("creating", {c}),
         \A v \in User : \/ wire'[v] = wire[v]
                         \/ wire'[v] = <<>> /\ v \notin fetched'
                         \/ \E e : Grown(v, e) /\ ~Carries(e)
  PROVE  OrderInv'
<1>1. \A m \in DOMAIN said : CreatingNext(m) <=> Creating(m)
  BY OneSender DEF Creating, CreatingNext
<1>2. \A u \in User : OrderedNext(u)
  BY <1>1, OrderedStays
<1>3. \A u \in fetched' : CompleteNext(u)
  <2> SUFFICES ASSUME NEW u \in fetched', NEW m \in ForNext(u) \ known[u]
               PROVE  \/ OvertakenNext(m)
                      \/ /\ SentNext(u, m) \/ CreatingNext(m)
                         /\ \A n \in known[u] : said[n].chat = said[m].chat => n < m
    BY DEF CompleteNext
  <2>1. u \in fetched /\ u \in User /\ m \in For(u)
    BY DEF TypeOK, For, ForNext, Stored
  <2>2. Complete(u) /\ m \in DOMAIN said
    BY <2>1, Orders, OneSender DEF Meant
  <2>3. Sent(u, m) => SentNext(u, m)
    BY <2>1, SentStays
  <2>4. QED
    BY <1>1, <2>1, <2>2, <2>3 DEF Complete, StaysOvertaken
<1>4. QED
  BY <1>2, <1>3, OrdersNext

\* A message that is said is the last of its sender's, and whoever it is stored for is
\* sent it at once, or as a first message when it is passed on.
LEMMA OrderSaid ==
  ASSUME TypeOK, HandlersInv, ClientsInv, MessagesInv, OrderInv, StaysOvertaken,
         NEW u, NEW c, Spoke(u, c), UNCHANGED <<known, fetched>>,
         DOMAIN status' \subseteq DOMAIN status \cup {NextMessage},
         \A m \in DOMAIN said : CreatingNext(m) <=> Creating(m),
         \A v \in User : \/ wire'[v] = wire[v]
                         \/ /\ \E e : Grown(v, e) /\ Carries(e) /\ e.id = NextMessage
                            /\ ~CreatingNext(NextMessage),
         \A v \in fetched : NextMessage \in ForNext(v) => SentNext(v, NextMessage) \/ CreatingNext(NextMessage)
  PROVE  OrderInv'
<1>1. /\ DOMAIN said' = DOMAIN said \cup {NextMessage} /\ NextMessage \notin DOMAIN said
      /\ \A m \in DOMAIN said : said'[m] = said[m] /\ m < NextMessage
      /\ said'[NextMessage].from = u /\ said'[NextMessage].chat = c
  BY OneSender DEF Spoke
<1>2. \A v \in User : \A i \in 1..Len(wire[v]) : Carries(wire[v][i]) => wire[v][i].id \in DOMAIN said
  BY DEF ClientsInv, Meant
<1>3. \A v \in User : OrderedNext(v)
  <2> SUFFICES ASSUME NEW v \in User PROVE OrderedNext(v)
    OBVIOUS
  <2>1. CASE wire'[v] = wire[v]
    BY <1>1, <2>1, OrderedStays
  <2>2. ASSUME NEW e, Grown(v, e), Carries(e), e.id = NextMessage, ~CreatingNext(NextMessage)
        PROVE  OrderedNext(v)
    <3>1. Ordered(v)
      BY Orders
    <3>2. \A i \in 1..Len(wire'[v]) :
             \/ i \in 1..Len(wire[v]) /\ wire'[v][i] = wire[v][i]
             \/ i = Len(wire[v]) + 1 /\ wire'[v][i] = e
      BY <2>2 DEF Grown
    <3>3. Len(wire[v]) \in Nat
      BY <2>2 DEF Grown
    <3>4. ASSUME NEW i \in 1..Len(wire'[v]), NEW j \in 1..Len(wire'[v]),
                 i < j, Carries(wire'[v][i]), Carries(wire'[v][j]),
                 said'[wire'[v][i].id].chat = said'[wire'[v][j].id].chat
          PROVE  wire'[v][i].id < wire'[v][j].id
      <4>1. i \in 1..Len(wire[v]) /\ wire'[v][i] = wire[v][i]
        BY <2>2, <3>2, <3>3, <3>4 DEF Grown
      <4>2. CASE j \in 1..Len(wire[v]) /\ wire'[v][j] = wire[v][j]
        BY <1>1, <1>2, <3>1, <3>4, <4>1, <4>2 DEF Ordered
      <4>3. CASE wire'[v][j] = e
        BY <1>1, <1>2, <2>2, <3>4, <4>1, <4>3
      <4>4. QED
        BY <3>2, <4>2, <4>3
    <3>5. \A i \in 1..Len(wire'[v]) : Carries(wire'[v][i]) => ~CreatingNext(wire'[v][i].id)
      BY <1>2, <2>2, <3>1, <3>2 DEF Ordered
    <3>6. QED
      BY <3>4, <3>5 DEF OrderedNext
  <2>3. QED
    BY <2>1, <2>2
<1>4. \A v \in fetched' : CompleteNext(v)
  <2> SUFFICES ASSUME NEW v \in fetched, NEW m \in ForNext(v) \ known[v]
               PROVE  \/ OvertakenNext(m)
                      \/ /\ SentNext(v, m) \/ CreatingNext(m)
                         /\ \A n \in known[v] : said'[n].chat = said'[m].chat => n < m
    BY DEF CompleteNext
  <2>1. v \in User /\ known[v] \subseteq DOMAIN said
    BY DEF TypeOK
  <2>2. CASE m = NextMessage
    BY <1>1, <2>1, <2>2
  <2>3. CASE m # NextMessage
    <3>1. m \in For(v) /\ m \in DOMAIN said
      BY <1>1, <2>3 DEF ForNext, For, Stored, TypeOK
    <3>2. Complete(v)
      BY Orders
    <3>3. Sent(v, m) => SentNext(v, m)
      BY <2>1, SentStays
    <3>4. QED
      BY <1>1, <2>1, <3>1, <3>2, <3>3 DEF Complete, StaysOvertaken
  <2>4. QED
    BY <2>2, <2>3
<1>5. QED
  BY <1>3, <1>4, OrdersNext

\* The first message of a chat waits for its creation to be passed on.
LEMMA OrderCreates ==
  ASSUME TypeOK, HandlersInv, ClientsInv, MessagesInv, OrderInv, StaysOvertaken,
         NEW u \in User, NEW c \in Chat, CreateChat(u, c)
  PROVE  OrderInv'
<1>1. /\ handler[u].phase = "serving" /\ \A m \in DOMAIN said : said[m].chat # c
      /\ DOMAIN status' \subseteq DOMAIN status \cup {NextMessage}
      /\ handler' = [handler EXCEPT ![u] = Does("creating", {c})]
      /\ UNCHANGED <<known, fetched, wire>>
  BY Creates
<1>2. Spoke(u, c)
  BY CreatedIn
<1>3. handler'[u] = Does("creating", {c}) /\ \A v \in User \ {u} : handler'[v] = handler[v]
  BY <1>1 DEF TypeOK
<1>4. \A d : /\ handler[u] # Does("creating", {d})
             /\ Does("creating", {c}) = Does("creating", {d}) => c = d
  <2>1. \A d : Does("creating", {d}).phase = "creating" /\ Does("creating", {d}).chat = {d}
    BY DoesWhat
  <2>2. ASSUME NEW d, Does("creating", {c}) = Does("creating", {d}) PROVE {c} = {d}
    BY <2>1, <2>2
  <2>3. QED
    BY <1>1, <2>1, <2>2
<1>5. \A m \in DOMAIN said : CreatingNext(m) <=> Creating(m)
  <2> SUFFICES ASSUME NEW m \in DOMAIN said PROVE CreatingNext(m) <=> Creating(m)
    OBVIOUS
  <2>1. said'[m] = said[m] /\ said[m].from \in User /\ said[m].chat # c
    BY <1>1, <1>2, OneSender DEF Spoke
  <2>2. CASE said[m].from = u
    BY <1>3, <1>4, <2>1, <2>2 DEF Creating, CreatingNext
  <2>3. CASE said[m].from # u
    BY <1>3, <2>1, <2>3 DEF Creating, CreatingNext
  <2>4. QED
    BY <2>2, <2>3
<1>6. CreatingNext(NextMessage)
  BY <1>2, <1>3 DEF CreatingNext, Spoke
<1>7. QED
  BY <1>1, <1>2, <1>5, <1>6, OrderSaid

\* A later message goes out to the other member at once, if it is stored.
LEMMA OrderPosts ==
  ASSUME OneChatPerPair, TypeOK, HandlersInv, ClientsInv, MessagesInv, OrderInv, StaysOvertaken,
         NEW u \in User, NEW c \in Chat, PostMessage(u, c)
  PROVE  OrderInv'
<1>1. /\ handler[u].phase = "serving" /\ c \in ChatsOf(u)
      /\ UNCHANGED <<known, fetched>>
  BY Posts, PostedIn DEF clientVars
<1>2. PICK d \in Chat :
         /\ {Members[d][1], Members[d][2]} = {Members[c][1], Members[c][2]}
         /\ Spoke(u, d) /\ d \in ChatsOf(Other(u, c))
         /\ \/ /\ d \in DOMAIN chats
               /\ Event("message", c, NextMessage) \in WireEvent
               /\ status' = Put(status, NextMessage, "sent")
               /\ Appended(Other(u, c), Event("message", c, NextMessage))
               /\ handler' = [handler EXCEPT ![u] = handler'[u]]
               /\ handler'[u] \in {Does("serving", {}), Does("cooldown?", {c})}
            \/ UNCHANGED <<status, wire, handler>>
  BY PostedIn
<1>3. d = c
  BY <1>2 DEF OneChatPerPair
<1>4. Spoke(u, c)
  BY <1>2, <1>3
<1>5. /\ \A m \in DOMAIN said : said'[m] = said[m] /\ said[m].from \in User
      /\ said'[NextMessage].from = u /\ said'[NextMessage].chat = c /\ NextMessage \notin DOMAIN said
  BY <1>4, OneSender DEF Spoke
<1>6. /\ \A v \in User \ {u} : handler'[v] = handler[v]
      /\ \A e : handler[u] # Does("creating", {e}) /\ handler'[u] # Does("creating", {e})
  <2>1. \A e, S : /\ Does("creating", {e}).phase = "creating"
                  /\ Does("serving", S).phase = "serving" /\ Does("cooldown?", S).phase = "cooldown?"
    BY DoesWhat
  <2>2. handler'[u].phase # "creating"
    BY <1>1, <1>2, <2>1
  <2>3. QED
    BY <1>1, <1>2, <2>1, <2>2 DEF TypeOK
<1>7. \A m \in DOMAIN said : CreatingNext(m) <=> Creating(m)
  BY <1>5, <1>6 DEF Creating, CreatingNext
<1>8. ~CreatingNext(NextMessage)
  BY <1>5, <1>6 DEF CreatingNext
<1>9. CASE UNCHANGED <<status, wire, handler>>
  <2>1. \A v : NextMessage \notin ForNext(v)
    BY <1>5, <1>9 DEF ForNext, TypeOK, Stored
  <2>2. QED
    BY <1>1, <1>4, <1>7, <1>9, <2>1, OrderSaid
<1>10. CASE /\ status' = Put(status, NextMessage, "sent")
            /\ Appended(Other(u, c), Event("message", c, NextMessage))
  <2> DEFINE e == Event("message", c, NextMessage)
             r == Other(u, c)
  <2>1. Carries(e) /\ e.id = NextMessage /\ r \in User
    BY Pairs DEF Event, Carries
  <2>2. DOMAIN status' \subseteq DOMAIN status \cup {NextMessage}
    BY <1>10 DEF Put
  <2> HIDE DEF e, r
  <2>3. Appended(r, e)
    BY <1>10 DEF e, r
  <2>4. \A v \in User : wire'[v] = wire[v] \/ Grown(v, e)
    BY <2>1, <2>3 DEF Appended, Grown
  <2>5. ASSUME NEW v \in fetched, NextMessage \in ForNext(v) PROVE SentNext(v, NextMessage)
    <3>1. v \in User /\ c \in ChatsOf(v) /\ v # u
      BY <1>5, <2>5 DEF ForNext, TypeOK
    <3>2. v = r
      BY <1>1, <3>1, Pairs DEF r
    <3>3. v \in active \cap attached
      BY DEF ClientsInv, TypeOK
    <3>4. Grown(r, e)
      BY <2>1, <2>3, <3>2, <3>3 DEF Appended, Grown
    <3>5. Len(wire[r]) + 1 \in 1..Len(wire'[r]) /\ wire'[r][Len(wire[r]) + 1] = e
      BY <3>4 DEF Grown
    <3>6. QED
      BY <2>1, <3>2, <3>5 DEF SentNext
  <2>6. QED
    BY <1>1, <1>4, <1>7, <1>8, <2>1, <2>2, <2>4, <2>5, OrderSaid
<1>11. QED
  BY <1>2, <1>9, <1>10

\* A first message is passed on before its sender writes another.
LEMMA OrderPassed ==
  ASSUME TypeOK, HandlersInv, ClientsInv, MessagesInv, OrderInv, StaysOvertaken,
         NEW u \in User, NEW c \in Chat, ChatCreated(u, c)
  PROVE  OrderInv'
<1> DEFINE r == Other(u, c)
<1>1. /\ handler[u] = Does("creating", {c})
      /\ handler' = [handler EXCEPT ![u] = handler'[u]]
      /\ handler'[u] \in {Does("serving", {}), Does("cooldown?", {c})}
      /\ UNCHANGED <<said, known, fetched, status>>
  BY CreatedEvent DEF database, clientVars
<1>2. PICK m \in DOMAIN said :
         /\ {n \in DOMAIN said : said[n] = [from |-> u, chat |-> c]} = {m}
         /\ said[m].from = u /\ said[m].chat = c
         /\ Appended(r, Event("create", c, m))
  BY CreatedEvent
<1> DEFINE e == Event("create", c, m)
<1>3. Carries(e) /\ e.id = m
  BY DEF Event, Carries
<1>4. c \in ChatsOf(u) /\ r \in User
  BY <1>1, BusyWith, Pairs DEF Phases, Idle
<1> HIDE DEF r, e
<1>5. \A v \in User : wire'[v] = wire[v] \/ (v = r /\ Grown(v, e))
  BY <1>2, <1>4 DEF Appended, Grown, e
<1>6. /\ \A v \in User \ {u} : handler'[v] = handler[v]
      /\ \A d : handler'[u] # Does("creating", {d})
      /\ \A d : handler[u] = Does("creating", {d}) => d = c
  <2>1. \A d, S : /\ Does("creating", {d}).phase = "creating" /\ Does("creating", {d}).chat = {d}
                  /\ Does("serving", S).phase = "serving" /\ Does("cooldown?", S).phase = "cooldown?"
    BY DoesWhat
  <2>2. handler'[u].phase # "creating" /\ handler[u].chat = {c}
    BY <1>1, <2>1
  <2>3. ASSUME NEW d, handler[u] = Does("creating", {d}) PROVE d = c
    <3>1. {d} = {c}
      BY <2>1, <2>2, <2>3
    <3>2. QED
      BY <3>1
  <2>4. \A d : handler'[u] # Does("creating", {d})
    BY <2>1, <2>2
  <2>5. \A v \in User \ {u} : handler'[v] = handler[v]
    BY <1>1 DEF TypeOK
  <2>6. QED
    BY <2>3, <2>4, <2>5
<1>7. \A n \in DOMAIN said : /\ CreatingNext(n) => Creating(n)
                             /\ Creating(n) => CreatingNext(n) \/ n = m
  <2> SUFFICES ASSUME NEW n \in DOMAIN said
               PROVE  /\ CreatingNext(n) => Creating(n)
                      /\ Creating(n) => CreatingNext(n) \/ n = m
    OBVIOUS
  <2>1. said[n].from \in User
    BY OneSender
  <2>2. CASE said[n].from # u
    BY <1>1, <1>6, <2>1, <2>2 DEF Creating, CreatingNext
  <2>3. CASE said[n].from = u
    <3>1. ~CreatingNext(n)
      BY <1>1, <1>6, <2>3 DEF CreatingNext
    <3>2. ASSUME Creating(n) PROVE n = m
      <4>1. said[n].chat = c
        BY <1>6, <2>3, <3>2 DEF Creating
      <4>2. said[n] = [from |-> u, chat |-> c]
        <5>1. said \in Seq(Message)
          BY DEF TypeOK
        <5>2. said[n] \in Message
          BY <5>1
        <5>3. QED
          BY <2>3, <4>1, <5>2 DEF Message
      <4>3. QED
        BY <1>2, <4>2
    <3>3. QED
      BY <3>1, <3>2
  <2>4. QED
    BY <2>2, <2>3
<1>8. ~CreatingNext(m)
  BY <1>1, <1>2, <1>6 DEF CreatingNext
<1>9. \A v \in User : OrderedNext(v)
  <2> SUFFICES ASSUME NEW v \in User PROVE OrderedNext(v)
    OBVIOUS
  <2>1. CASE wire'[v] = wire[v]
    BY <1>1, <1>7, <2>1, OrderedStays
  <2>2. CASE Grown(v, e)
    <3>1. Ordered(v)
      BY Orders
    <3>2. Len(wire[v]) \in Nat
          /\ \A i \in 1..Len(wire'[v]) : \/ i \in 1..Len(wire[v]) /\ wire'[v][i] = wire[v][i]
                                         \/ i = Len(wire[v]) + 1 /\ wire'[v][i] = e
      BY <2>2 DEF Grown
    <3>3. \A i \in 1..Len(wire[v]) : Carries(wire[v][i]) => wire[v][i].id \in DOMAIN said
      BY DEF ClientsInv, Meant
    <3>4. \A i \in 1..Len(wire[v]) : Carries(wire[v][i]) => said[wire[v][i].id].chat # c
      <4>1. ASSUME NEW i \in 1..Len(wire[v]), Carries(wire[v][i]), said[wire[v][i].id].chat = c
            PROVE  FALSE
        <5>1. wire[v][i].id \in Meant(v) /\ said[wire[v][i].id].from # v
          BY <4>1 DEF ClientsInv, Meant
        <5>2. v = r \/ wire'[v] = wire[v]
          BY <1>5
        <5>3. v = r
          BY <2>2, <5>2 DEF Grown
        <5>4. m \in Meant(v)
          BY <1>2, <1>4, <5>3, Pairs DEF Meant, r
        <5>5. said[wire[v][i].id].from = u
          BY <1>2, <4>1, <5>1, <5>4, OneSender
        <5>6. Creating(wire[v][i].id)
          BY <1>1, <4>1, <5>5 DEF Creating
        <5>7. QED
          BY <3>1, <4>1, <5>6 DEF Ordered
      <4>2. QED
        BY <4>1
    <3>5. ASSUME NEW i \in 1..Len(wire'[v]), NEW j \in 1..Len(wire'[v]),
                 i < j, Carries(wire'[v][i]), Carries(wire'[v][j]),
                 said'[wire'[v][i].id].chat = said'[wire'[v][j].id].chat
          PROVE  wire'[v][i].id < wire'[v][j].id
      <4>1. i \in 1..Len(wire[v]) /\ wire'[v][i] = wire[v][i]
        BY <2>2, <3>2, <3>5 DEF Grown
      <4>2. wire'[v][j] # e
        BY <1>1, <1>2, <1>3, <3>4, <3>5, <4>1
      <4>3. j \in 1..Len(wire[v]) /\ wire'[v][j] = wire[v][j]
        BY <3>2, <4>2
      <4>4. QED
        BY <1>1, <3>1, <3>5, <4>1, <4>3 DEF Ordered
    <3>6. \A i \in 1..Len(wire'[v]) : Carries(wire'[v][i]) => ~CreatingNext(wire'[v][i].id)
      BY <1>3, <1>7, <1>8, <3>1, <3>2, <3>3 DEF Ordered
    <3>7. QED
      BY <3>5, <3>6 DEF OrderedNext
  <2>3. QED
    BY <1>5, <2>1, <2>2
<1>10. \A v \in fetched' : CompleteNext(v)
  <2> SUFFICES ASSUME NEW v \in fetched, NEW n \in For(v) \ known[v]
               PROVE  \/ OvertakenNext(n)
                      \/ /\ SentNext(v, n) \/ CreatingNext(n)
                         /\ \A x \in known[v] : said[x].chat = said[n].chat => x < n
    BY <1>1 DEF CompleteNext, ForNext, For, Stored
  <2>1. v \in User /\ v \in active \cap attached /\ n \in Meant(v) /\ n \in DOMAIN said
    BY OneSender DEF ClientsInv, TypeOK, Meant
  <2>2. \/ Overtaken(n)
        \/ /\ Sent(v, n) \/ Creating(n)
           /\ \A x \in known[v] : said[x].chat = said[n].chat => x < n
    BY Orders DEF Complete
  <2>3. Sent(v, n) => SentNext(v, n)
    BY <1>5, <2>1, SentStays
  <2>4. ASSUME n = m PROVE SentNext(v, n)
    <3>1. v = r
      BY <1>2, <2>1, <2>4, OneSender DEF r
    <3>2. Grown(r, e)
      BY <1>2, <2>1, <3>1 DEF Appended, Grown, e
    <3>3. Len(wire[r]) + 1 \in 1..Len(wire'[r]) /\ wire'[r][Len(wire[r]) + 1] = e
      BY <3>2 DEF Grown
    <3>4. QED
      BY <1>3, <2>4, <3>1, <3>3 DEF SentNext
  <2>5. QED
    BY <1>7, <2>1, <2>2, <2>3, <2>4 DEF StaysOvertaken
<1>11. QED
  BY <1>9, <1>10, OrdersNext

\* A client that fetches has whatever is stored for it and not read, and whatever is
\* read it has already, or it has been overtaken.
LEMMA OrderFetched ==
  ASSUME TypeOK, HandlersInv, ClientsInv, MessagesInv, OrderInv, StaysOvertaken, ReadByPartner,
         NEW u \in User, Fetch(u)
  PROVE  OrderInv'
<1>1. /\ fetched' = fetched \cup {u}
      /\ known' = [known EXCEPT ![u] = @ \cup {m \in For(u) : status[m] # "read"}]
      /\ UNCHANGED <<said, handler, status, wire>>
  BY DEF Fetch, database
<1>2. /\ known'[u] = known[u] \cup {m \in For(u) : status[m] # "read"}
      /\ \A v \in User \ {u} : known'[v] = known[v]
  BY <1>1 DEF TypeOK
<1>3. \A m \in DOMAIN said : CreatingNext(m) <=> Creating(m)
  BY <1>1 DEF Creating, CreatingNext
<1>4. \A v \in User : OrderedNext(v)
  BY <1>1, <1>3, OrderedStays
<1>5. \A m \in For(u) : m \in known'[u] \/ Overtaken(m)
  <2> SUFFICES ASSUME NEW m \in For(u), status[m] = "read", ~Overtaken(m) PROVE m \in known[u]
    BY <1>2
  <2>1. m \in seen[Other(said[m].from, said[m].chat)]
    BY DEF ReadByPartner, For
  <2>2. Other(said[m].from, said[m].chat) = u
    BY OneSender
  <2>3. QED
    BY <2>1, <2>2 DEF ClientsInv
<1>6. \A v \in fetched' : CompleteNext(v)
  <2> SUFFICES ASSUME NEW v \in fetched', NEW m \in For(v) \ known'[v]
               PROVE  \/ OvertakenNext(m)
                      \/ /\ SentNext(v, m) \/ CreatingNext(m)
                         /\ \A n \in known'[v] : said[n].chat = said[m].chat => n < m
    BY <1>1 DEF CompleteNext, ForNext, For, Stored
  <2>1. v \in User /\ m \in DOMAIN said
    BY <1>1, OneSender DEF TypeOK, Meant
  <2>2. CASE v = u
    BY <1>5, <2>1, <2>2 DEF StaysOvertaken
  <2>3. CASE v # u
    <3>1. Complete(v) /\ known'[v] = known[v]
      BY <1>1, <1>2, <2>1, <2>3, Orders
    <3>2. Sent(v, m) => SentNext(v, m)
      BY <1>1 DEF Sent, SentNext
    <3>3. QED
      BY <1>3, <2>1, <3>1, <3>2 DEF Complete, StaysOvertaken
  <2>4. QED
    BY <2>2, <2>3
<1>7. QED
  BY <1>4, <1>6, OrdersNext

\* A client that reads its wire gets the messages of a chat in their order.
LEMMA OrderRead ==
  ASSUME TypeOK, HandlersInv, ClientsInv, MessagesInv, OrderInv, StaysOvertaken,
         NEW u \in User, ReadWire(u)
  PROVE  OrderInv'
<1> DEFINE e == wire[u][1]
<1>1. /\ 1 \in 1..Len(wire[u]) /\ Len(wire[u]) \in Nat
      /\ \A v \in User \ {u} : wire'[v] = wire[v]
      /\ \A i \in 1..Len(wire'[u]) : i + 1 \in 1..Len(wire[u]) /\ wire'[u][i] = wire[u][i + 1]
      /\ \A i \in 2..Len(wire[u]) : i - 1 \in 1..Len(wire'[u]) /\ wire'[u][i - 1] = wire[u][i]
      /\ UNCHANGED <<handler, status, said, fetched>>
  BY ReadsWire DEF database
<1>2. known' = IF Carries(e) THEN [known EXCEPT ![u] = @ \cup {e.id}] ELSE known
  BY ReadsWire
<1>3. Carries(e) => e.id \in DOMAIN said
  BY <1>1 DEF ClientsInv, Meant
<1>4. \A m \in DOMAIN said : CreatingNext(m) <=> Creating(m)
  BY <1>1 DEF Creating, CreatingNext
<1>5. \A v \in User : Ordered(v)
  BY Orders
<1>6. \A i \in 1..Len(wire[u]) : Carries(wire[u][i]) => wire[u][i].id \in DOMAIN said
  BY DEF ClientsInv, Meant
<1>7. \A v \in User : OrderedNext(v)
  <2> SUFFICES ASSUME NEW v \in User PROVE OrderedNext(v)
    OBVIOUS
  <2>1. CASE v # u
    BY <1>1, <1>4, <2>1, OrderedStays
  <2>2. CASE v = u
    <3>1. ASSUME NEW i \in 1..Len(wire'[u]), NEW j \in 1..Len(wire'[u]),
                 i < j, Carries(wire'[u][i]), Carries(wire'[u][j]),
                 said'[wire'[u][i].id].chat = said'[wire'[u][j].id].chat
          PROVE  wire'[u][i].id < wire'[u][j].id
      <4>1. /\ i + 1 \in 1..Len(wire[u]) /\ wire'[u][i] = wire[u][i + 1]
            /\ j + 1 \in 1..Len(wire[u]) /\ wire'[u][j] = wire[u][j + 1]
            /\ i + 1 < j + 1
        BY <1>1, <3>1
      <4>2. QED
        BY <1>1, <1>5, <3>1, <4>1 DEF Ordered
    <3>2. \A i \in 1..Len(wire'[u]) : Carries(wire'[u][i]) => ~CreatingNext(wire'[u][i].id)
      BY <1>1, <1>4, <1>5, <1>6 DEF Ordered
    <3>3. QED
      BY <2>2, <3>1, <3>2 DEF OrderedNext
  <2>3. QED
    BY <2>1, <2>2
<1>8. \A v \in fetched' : CompleteNext(v)
  <2> SUFFICES ASSUME NEW v \in fetched, NEW m \in For(v) \ known'[v]
               PROVE  \/ OvertakenNext(m)
                      \/ /\ SentNext(v, m) \/ CreatingNext(m)
                         /\ \A n \in known'[v] : said[n].chat = said[m].chat => n < m
    BY <1>1 DEF CompleteNext, ForNext, For, Stored
  <2>1. v \in User /\ m \in DOMAIN said
    BY OneSender DEF TypeOK, Meant
  <2>2. CASE v # u
    <3>1. known'[v] = known[v] /\ wire'[v] = wire[v]
      BY <1>1, <1>2, <2>1, <2>2 DEF TypeOK
    <3>2. Complete(v)
      BY Orders
    <3>3. Sent(v, m) => SentNext(v, m)
      BY <3>1 DEF Sent, SentNext
    <3>4. QED
      BY <1>4, <2>1, <3>1, <3>2, <3>3 DEF Complete, StaysOvertaken
  <2>3. CASE v = u
    <3>1. \/ known'[u] = known[u] /\ ~Carries(e)
          \/ known'[u] = known[u] \cup {e.id} /\ Carries(e)
      BY <1>2 DEF TypeOK
    <3>2. m \notin known[u] /\ (Carries(e) => m # e.id)
      BY <2>3, <3>1
    <3>3. \/ Overtaken(m)
          \/ /\ Sent(u, m) \/ Creating(m)
             /\ \A n \in known[u] : said[n].chat = said[m].chat => n < m
      BY <2>3, <3>2, Orders DEF Complete
    <3>4. ASSUME Sent(u, m)
          PROVE  \E i \in 2..Len(wire[u]) : Carries(wire[u][i]) /\ wire[u][i].id = m
      <4>1. PICK i \in 1..Len(wire[u]) : Carries(wire[u][i]) /\ wire[u][i].id = m
        BY <3>4 DEF Sent
      <4>2. i # 1
        BY <3>2, <4>1
      <4>3. i \in 2..Len(wire[u])
        BY <1>1, <4>1, <4>2
      <4>4. QED
        BY <4>1, <4>3
    <3>5. Sent(u, m) => SentNext(u, m)
      <4>1. ASSUME NEW i \in 2..Len(wire[u]), Carries(wire[u][i]), wire[u][i].id = m PROVE SentNext(u, m)
        <5>1. i - 1 \in 1..Len(wire'[u]) /\ wire'[u][i - 1] = wire[u][i]
          BY <1>1
        <5>2. QED
          BY <4>1, <5>1 DEF SentNext
      <4>2. QED
        BY <3>4, <4>1
    <3>6. ASSUME Carries(e), said[e.id].chat = said[m].chat, Sent(u, m) \/ Creating(m) PROVE e.id < m
      <4>1. CASE Sent(u, m)
        <5>1. PICK i \in 2..Len(wire[u]) : Carries(wire[u][i]) /\ wire[u][i].id = m
          BY <3>4, <4>1
        <5>2. i \in 1..Len(wire[u]) /\ 1 < i
          BY <1>1, <5>1
        <5>3. QED
          BY <1>1, <1>5, <3>6, <5>1, <5>2 DEF Ordered
      <4>2. CASE Creating(m)
        <5>1. said[e.id].from = said[m].from
          <6>1. e.id \in Meant(u) /\ m \in Meant(u)
            BY <1>1, <2>1, <2>3, <3>6, OneSender DEF ClientsInv
          <6>2. QED
            BY <3>6, <6>1, OneSender
        <5>2. Creating(e.id)
          BY <3>6, <4>2, <5>1 DEF Creating
        <5>3. QED
          BY <1>1, <1>5, <3>6, <5>2 DEF Ordered
      <4>3. QED
        BY <3>6, <4>1, <4>2
    <3> HIDE DEF e
    <3>7. \/ Overtaken(m)
          \/ \A n \in known'[u] : said[n].chat = said[m].chat => n < m
      BY <3>1, <3>3, <3>6
    <3>8. QED
      BY <1>4, <2>1, <2>3, <3>3, <3>5, <3>7 DEF StaysOvertaken
  <2>4. QED
    BY <2>2, <2>3
<1>9. QED
  BY <1>7, <1>8, OrdersNext

\* Nobody forgets what he has read, and what is said stays.
LEMMA OvertakenStays ==
  ASSUME TypeOK, ClientsInv, MessagesInv, [Next]_vars
  PROVE  StaysOvertaken
<1>1. \A v \in User : seen[v] \subseteq seen'[v]
  <2>1. ASSUME NEW u \in User, NEW m, ReadMessage(u, m) PROVE \A v \in User : seen[v] \subseteq seen'[v]
    BY <2>1 DEF ReadMessage, TypeOK
  <2>2. CASE UNCHANGED seen
    BY <2>2
  <2>3. QED
    BY <2>1, <2>2, AcceptsChat, Creates, Posts, DeclinesChat
       DEF Next, vars, database, clientVars, Connect, DropToken, Register, Drop, Disconnect, KeepToken, ChatCreated,
           CreateChat, PostMessage, AcceptChat, OpenChat, DeclineChat, ChatDeclined, Receive,
           AskCooldown, AskToken, StartCooldown, CooldownEnds, Fetch, ReadWire
<1>2. DOMAIN said \subseteq DOMAIN said' /\ \A n \in DOMAIN said : said'[n] = said[n]
  BY SaidStays
<1>3. \A n \in DOMAIN said : Other(said[n].from, said[n].chat) \in User
  BY OneSender, Pairs
<1>4. QED
  BY <1>1, <1>2, <1>3 DEF StaysOvertaken, Overtaken, OvertakenNext

\* Every step keeps the messages in order.
LEMMA OrderStep ==
  ASSUME OneChatPerPair, TypeOK, HandlersInv, ClientsInv, MessagesInv, OrderInv, ReadByPartner,
         [Next]_vars
  PROVE  OrderInv'
<1>o. StaysOvertaken
  BY OvertakenStays
<1> DEFINE Same == \A v \in User, c \in Chat :
                     handler'[v] = Does("creating", {c}) <=> handler[v] = Does("creating", {c})
<1>h. ASSUME NEW u \in User, handler' = [handler EXCEPT ![u] = handler'[u]],
             handler[u].phase # "creating", handler'[u].phase # "creating"
      PROVE  Same
  <2>1. \A c : Does("creating", {c}).phase = "creating"
    BY DoesWhat
  <2>2. \A v \in User \ {u} : handler'[v] = handler[v]
    BY <1>h DEF TypeOK
  <2>3. QED
    BY <1>h, <2>1, <2>2
<1>i. ASSUME NEW u \in User, NEW x, handler' = [handler EXCEPT ![u] = x],
             handler[u].phase # "creating", x.phase # "creating"
      PROVE  Same
  <2>1. handler'[u] = x
    BY <1>i DEF TypeOK
  <2>2. QED
    BY <1>h, <1>i, <2>1
<1>q. \A S : /\ Does("away", S).phase # "creating" /\ Does("joining", S).phase # "creating"
             /\ Does("joined", S).phase # "creating" /\ Does("serving", S).phase # "creating"
             /\ Does("leaving", S).phase # "creating" /\ Does("cooldown?", S).phase # "creating"
             /\ Does("token?", S).phase # "creating" /\ Does("pushed", S).phase # "creating"
             /\ Does("declining", S).phase # "creating"
  BY DoesWhat
<1>s. handler' = handler => Same
  OBVIOUS
<1> HIDE DEF Same
<1>b. ASSUME Same, UNCHANGED <<said, wire, known>>, DOMAIN status' \subseteq DOMAIN status, fetched' \subseteq fetched
      PROVE  OrderInv'
  BY <1>b, <1>o, OrderQuiet DEF Same
<1>g. ASSUME NEW r \in User, NEW e, Appended(r, e), ~Carries(e)
      PROVE  \A v \in User : \/ wire'[v] = wire[v]
                             \/ \E x : Grown(v, x) /\ ~Carries(x)
  BY <1>g DEF Appended, Grown
<1>w. ASSUME Same, NEW r \in User, NEW e, Appended(r, e), ~Carries(e), UNCHANGED <<said, known, status, fetched>>
      PROVE  OrderInv'
  BY <1>g, <1>o, <1>w, OrderQuiet DEF Same
<1>1. ASSUME NEW u \in User, Connect(u) PROVE OrderInv'
  <2>1. Same
    BY <1>1, <1>i, <1>q DEF Connect
  <2>2. QED
    BY <1>1, <1>b, <2>1 DEF Connect, database, clientVars
<1>2. ASSUME NEW u \in User, DropToken(u) PROVE OrderInv'
  <2>1. Same
    BY <1>2, <1>i, <1>q DEF DropToken
  <2>2. QED
    BY <1>2, <1>b, <2>1 DEF DropToken, database, clientVars
<1>3. ASSUME NEW u \in User, Register(u) PROVE OrderInv'
  <2>1. Same
    BY <1>3, <1>i, <1>q DEF Register
  <2>2. QED
    BY <1>3, <1>b, <2>1 DEF Register, database, clientVars
<1>4. ASSUME NEW u \in User, Drop(u) PROVE OrderInv'
  <2>1. /\ Same /\ fetched' = fetched \ {u} /\ UNCHANGED <<status, said, known>>
        /\ wire'[u] = <<>> /\ \A v \in User \ {u} : wire'[v] = wire[v]
    BY <1>4, <1>s DEF Drop, TypeOK, database
  <2>2. QED
    BY <1>o, <2>1, OrderQuiet DEF Same
<1>5. ASSUME NEW u \in User, Disconnect(u) PROVE OrderInv'
  <2>1. Same
    BY <1>5, <1>i, <1>q DEF Disconnect
  <2>2. QED
    BY <1>5, <1>b, <2>1 DEF Disconnect, database, clientVars
<1>6. ASSUME NEW u \in User, KeepToken(u) PROVE OrderInv'
  <2>1. Same
    BY <1>6, <1>i, <1>q DEF KeepToken
  <2>2. QED
    BY <1>6, <1>b, <2>1 DEF KeepToken, database, clientVars
<1>7. ASSUME NEW u \in User, NEW c \in Chat, AcceptChat(u, c) PROVE OrderInv'
  <2>1. /\ handler[u].phase = "serving" /\ UNCHANGED <<said, status, fetched, known>>
        /\ Appended(Other(u, c), Event("accept", c, 0))
        /\ handler' = [handler EXCEPT ![u] = handler'[u]]
        /\ handler'[u] \in {Does("serving", {}), Does("cooldown?", {c})}
    BY <1>7, AcceptsChat DEF clientVars
  <2>2. Same
    BY <1>h, <1>q, <2>1
  <2>3. ~Carries(Event("accept", c, 0)) /\ Other(u, c) \in User
    BY Pairs DEF Event, Carries
  <2>4. QED
    BY <1>w, <2>1, <2>2, <2>3
<1>8. ASSUME NEW u \in User, NEW c \in Chat, OpenChat(u, c) PROVE OrderInv'
  BY <1>8, <1>b, <1>s DEF OpenChat, clientVars
<1>9. ASSUME NEW u \in User, NEW c \in Chat, DeclineChat(u, c) PROVE OrderInv'
  <2>1. handler[u].phase = "serving" /\ UNCHANGED <<said, wire, known, fetched>>
    BY <1>9, DeclinesChat
  <2>2. \/ /\ DOMAIN status' = {m \in Stored : said[m].chat # c}
           /\ handler' = [handler EXCEPT ![u] = handler'[u]]
           /\ handler'[u] = handler[u] \/ handler'[u] = Does("declining", {c})
        \/ UNCHANGED <<status, handler>>
    BY <1>9, DeclinesChat
  <2>3. DOMAIN status' \subseteq DOMAIN status
    BY <2>2 DEF Stored
  <2>4. Same
    BY <1>h, <1>q, <1>s, <2>1, <2>2
  <2>5. QED
    BY <1>b, <2>1, <2>3, <2>4
<1>10. ASSUME NEW u \in User, NEW c \in Chat, ChatDeclined(u, c) PROVE OrderInv'
  <2>1. /\ handler[u] = Does("declining", {c}) /\ UNCHANGED <<said, status, fetched, known>>
        /\ Appended(Other(u, c), Event("decline", c, 0))
        /\ handler' = [handler EXCEPT ![u] = Does("serving", {})]
    BY <1>10, TellsDecline DEF database, clientVars
  <2>2. Same
    BY <1>i, <1>q, <2>1
  <2>3. ~Carries(Event("decline", c, 0)) /\ Other(u, c) \in User
    BY Pairs DEF Event, Carries
  <2>4. QED
    BY <1>w, <2>1, <2>2, <2>3
<1>11. ASSUME NEW u \in User, AskCooldown(u) \/ AskToken(u) \/ StartCooldown(u) PROVE OrderInv'
  <2>1. PICK c \in Chat :
          /\ handler[u] \in {Does("cooldown?", {c}), Does("token?", {c}), Does("pushed", {c})}
          /\ \/ handler' = [handler EXCEPT ![u] = Does("serving", {})]
             \/ handler' = [handler EXCEPT ![u] = Does("token?", {c})]
             \/ handler' = [handler EXCEPT ![u] = Does("pushed", {c})]
    BY <1>11 DEF AskCooldown, AskToken, StartCooldown
  <2>2. handler[u].phase # "creating"
    BY <1>q, <2>1
  <2>3. Same
    BY <1>i, <1>q, <2>1, <2>2
  <2>4. QED
    BY <1>11, <1>b, <2>3 DEF AskCooldown, AskToken, StartCooldown, database, clientVars
<1>12. ASSUME NEW u \in User, NEW m \in 1..MaxMessages, Receive(u, m) \/ ReadMessage(u, m) PROVE OrderInv'
  <2>1. DOMAIN status' \subseteq DOMAIN status
    BY <1>12 DEF Receive, ReadMessage, MarkedRead, Stored
  <2>2. QED
    BY <1>12, <1>b, <1>s, <2>1 DEF Receive, ReadMessage, clientVars
<1>13. CASE \E u, v \in User : CooldownEnds(u, v)
  BY <1>13, <1>b, <1>s DEF CooldownEnds, database, clientVars
<1>14. CASE UNCHANGED vars
  BY <1>14, <1>b, <1>s DEF vars
<1>15. QED
  BY <1>1, <1>2, <1>3, <1>4, <1>5, <1>6, <1>7, <1>8, <1>9, <1>10, <1>11, <1>12, <1>13, <1>14, <1>o,
     OrderCreates, OrderPassed, OrderPosts, OrderFetched, OrderRead DEF Next

\* A user who reads a message has read what its sender said before in that chat, unless
\* it has been overtaken: a client that has fetched knows it all; and what the sender
\* said in other chats is overtaken by this.
LEMMA MarksRead ==
  ASSUME TypeOK, HandlersInv, ClientsInv, MessagesInv, OrderInv, StaysOvertaken, ReadByPartner,
         NEW u \in User, NEW m, ReadMessage(u, m)
  PROVE  ReadByPartner'
<1>1. /\ u \in fetched /\ m \in known[u] /\ m \in DOMAIN said /\ said' = said
      /\ seen' = [seen EXCEPT ![u] = @ \cup {x \in known[u] : x <= m /\ said[x].chat = said[m].chat}]
      /\ status' = IF m \in Stored THEN MarkedRead(m) ELSE status
  BY DEF ReadMessage, TypeOK
<1>2. /\ seen'[u] = seen[u] \cup {x \in known[u] : x <= m /\ said[x].chat = said[m].chat}
      /\ \A v \in User : seen[v] \subseteq seen'[v]
  BY <1>1 DEF TypeOK
<1>3. m \in Meant(u)
  BY <1>1 DEF ClientsInv
<1> SUFFICES ASSUME NEW x \in DOMAIN status', status'[x] = "read"
             PROVE  x \in seen'[Other(said[x].from, said[x].chat)] \/ OvertakenNext(x)
  BY <1>1 DEF ReadByPartner, Stored, Overtaken, OvertakenNext
<1>4. x \in Stored /\ x \in DOMAIN said
  BY <1>1 DEF MarkedRead, Stored, TypeOK
<1>5. Other(said[x].from, said[x].chat) \in User
  BY <1>4, OneSender, Pairs
<1>6. CASE status[x] = "read"
  BY <1>2, <1>4, <1>5, <1>6 DEF ReadByPartner, StaysOvertaken
<1>n. m \in Nat /\ x \in Nat
  BY <1>1, <1>4, OneSender
<1>7. CASE said[x].from = said[m].from /\ x <= m
  <2>1. CASE said[x].chat # said[m].chat
    <3>1. m > x
      BY <1>7, <1>n, <2>1
    <3>2. m \in seen'[u] /\ Other(said[m].from, said[m].chat) = u
      BY <1>1, <1>2, <1>3, <1>n, OneSender
    <3>3. QED
      BY <1>1, <1>7, <2>1, <3>1, <3>2 DEF OvertakenNext
  <2>2. CASE said[x].chat = said[m].chat /\ ~Overtaken(x)
    <3>1. x \in For(u)
      BY <1>3, <1>4, <1>7, <2>2 DEF For, Meant
    <3>2. x \in known[u]
      <4>1. ASSUME x \notin known[u] PROVE FALSE
        <5>1. m < x
          BY <1>1, <2>2, <3>1, <4>1, Orders DEF Complete
        <5>2. QED
          BY <1>7, <1>n, <5>1
      <4>2. QED
        BY <4>1
    <3>3. Other(said[x].from, said[x].chat) = u
      BY <3>1, OneSender
    <3>4. QED
      BY <1>2, <1>7, <2>2, <3>2, <3>3
  <2>3. CASE Overtaken(x)
    BY <1>4, <2>3 DEF StaysOvertaken
  <2>4. QED
    BY <2>1, <2>2, <2>3
<1>8. QED
  BY <1>1, <1>4, <1>6, <1>7 DEF MarkedRead

\* Every step keeps the read marks true.
LEMMA MarksStep ==
  ASSUME TypeOK, HandlersInv, ClientsInv, MessagesInv, OrderInv, ReadByPartner, [Next]_vars
  PROVE  ReadByPartner'
<1>o. StaysOvertaken
  BY OvertakenStays
<1>a. ASSUME seen' = seen,
             \A m \in DOMAIN status' : status'[m] = "read" => m \in DOMAIN status /\ status[m] = "read"
      PROVE  ReadByPartner'
  <2>1. \A m \in DOMAIN said : said'[m] = said[m]
    BY SaidStays
  <2>2. DOMAIN status \subseteq DOMAIN said
    BY DEF TypeOK, Stored
  <2>3. QED
    BY <1>a, <1>o, <2>1, <2>2 DEF ReadByPartner, Stored, StaysOvertaken, Overtaken, OvertakenNext
<1>1. CASE UNCHANGED <<seen, status>>
  BY <1>1, <1>a
<1>2. ASSUME NEW u \in User, NEW c \in Chat, CreateChat(u, c) PROVE ReadByPartner'
  <2>1. /\ DOMAIN status' \subseteq DOMAIN status \cup {NextMessage} /\ seen' = seen
        /\ NextMessage \in DOMAIN status' => status'[NextMessage] = "sent"
        /\ \A m \in DOMAIN status : status'[m] = status[m]
    BY <1>2, Creates
  <2>2. QED
    BY <1>a, <2>1
<1>3. ASSUME NEW u \in User, NEW c \in Chat, PostMessage(u, c) PROVE ReadByPartner'
  <2>1. status' \in {status, Put(status, NextMessage, "sent")} /\ seen' = seen
    BY <1>3, Posts DEF clientVars
  <2>2. QED
    BY <1>a, <2>1 DEF Put
<1>4. ASSUME NEW u \in User, NEW c \in Chat, DeclineChat(u, c) PROVE ReadByPartner'
  <2>1. \/ /\ DOMAIN status' = {m \in Stored : said[m].chat # c}
           /\ \A m \in DOMAIN status' : status'[m] = status[m]
        \/ status' = status
    BY <1>4, DeclinesChat
  <2>2. seen' = seen
    BY <1>4, DeclinesChat
  <2>3. QED
    BY <1>a, <2>1, <2>2 DEF Stored
<1>5. ASSUME NEW u \in User, NEW m \in 1..MaxMessages, Receive(u, m) PROVE ReadByPartner'
  BY <1>5, <1>a DEF Receive, clientVars
<1>6. QED
  BY <1>1, <1>2, <1>3, <1>4, <1>5, <1>o, MarksRead, AcceptsChat
     DEF Next, vars, database, clientVars, Connect, DropToken, Register, Drop, Disconnect, KeepToken, ChatCreated,
     AcceptChat, OpenChat, ChatDeclined, AskCooldown, AskToken, StartCooldown, CooldownEnds, Fetch, ReadWire

\* At the start nothing has been said.
LEMMA OrderInit == Init => OrderInv /\ ReadByPartner
<1> SUFFICES ASSUME Init PROVE OrderInv /\ ReadByPartner
  OBVIOUS
<1>1. 1..Len(<<>>) = {} /\ DOMAIN said = {} /\ fetched = {} /\ Stored = {}
  BY DEF Init, Stored
<1>2. \A u \in User : 1..Len(wire[u]) = {}
  BY <1>1 DEF Init
<1>3. QED
  BY <1>1, <1>2 DEF OrderInv, ReadByPartner

\* Whatever is stored for a client that has fetched is known to it, or on its way, or
\* has been overtaken.
LEMMA OrderComplete ==
  ASSUME TypeOK, OrderInv
  PROVE  FetchKeepsUp
<1> SUFFICES ASSUME NEW u \in fetched, NEW m \in For(u), m \notin known[u], ~Overtaken(m)
             PROVE  OnItsWay(u, m)
  BY DEF FetchKeepsUp
<1>1. CASE Sent(u, m)
  BY <1>1 DEF Sent, OnItsWay
<1>2. CASE Creating(m)
  <2>1. said[m] \in Message
    <3>1. said \in Seq(Message) /\ m \in DOMAIN said
      BY DEF TypeOK, For
    <3>2. QED
      BY <3>1
  <2>2. said[m].from \in User
    BY <2>1 DEF Message
  <2>3. handler[said[m].from].phase = "creating" /\ said[m].chat \in handler[said[m].from].chat
    BY <1>2, DoesWhat DEF Creating
  <2>4. QED
    BY <2>2, <2>3 DEF OnItsWay, Pending
<1>3. QED
  BY <1>1, <1>2, Orders DEF Complete

\* A message that is marked as read has been read by the user it was meant for, or its
\* sender has written to somebody else since, who has read that (set_read_status,
\* chats/services.py).  Nothing is assumed of who writes where: users may write in as
\* many chats as they like, one to a pair.
THEOREM ReadMarks ==
  ASSUME OneChatPerPair
  PROVE  Spec => []ReadByPartner
<1> DEFINE Inv == TypeOK /\ HandlersInv /\ ClientsInv /\ MessagesInv /\ OrderInv /\ ReadByPartner
<1>1. Init => Inv
  BY TypeInit, OrderInit
<1>2. Inv /\ [Next]_vars => Inv'
  BY OneChatPerPair, TypeStep, HandlersStep, ClientsStep, MessagesStep, OrderStep, MarksStep
<1>3. Inv => ReadByPartner
  OBVIOUS
<1>4. QED
  BY <1>1, <1>2, <1>3, PTL DEF Spec

\* A client that has connected and then fetched the unread messages misses none that has
\* not been overtaken (GET /chats?only_unread=true, chats/endpoints.py).
THEOREM FetchesAll ==
  ASSUME OneChatPerPair
  PROVE  Spec => []FetchKeepsUp
<1> DEFINE Inv == TypeOK /\ HandlersInv /\ ClientsInv /\ MessagesInv /\ OrderInv /\ ReadByPartner
<1>1. Init => Inv
  BY TypeInit, OrderInit
<1>2. Inv /\ [Next]_vars => Inv'
  BY OneChatPerPair, TypeStep, HandlersStep, ClientsStep, MessagesStep, OrderStep, MarksStep
<1>3. Inv => FetchKeepsUp
  BY OrderComplete
<1>4. QED
  BY <1>1, <1>2, <1>3, PTL DEF Spec

===============================================================================
