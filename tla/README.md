# A verification project for swipe-backend

swipe-backend is the server side of a dating app: five Python processes that
share a PostgreSQL database and a redis instance. This directory holds TLA+
modules that model the parts of it in which the order of events matters, TLC
configurations that check them on small instances, and proofs for TLAPS. Paths
below are relative to `src/swipe/` unless they start with another directory.

## 1. The system

### 1.1 Components

| Component | Code | State it keeps | Operations |
|---|---|---|---|
| Matchmaking server | `matchmaking/matchmaking_server.py`, `matchmaking/schemas.py`, `ws_connection.py` | websockets (`active_connections`), `MMRoundData`: `online_users`, `new_users`, `returning_users`, `disconnected_users`, `decline_pairs`, `sent_matches` | websocket connect and disconnect; payloads: lobby CONNECT, lobby RECONNECT, match ACCEPT, match DECLINE, chat ACCEPT, SDP, ICE; requests of the matchmaker: `/new_round_data`, `/fetch_candidates`, `/send_match` |
| Matchmaker | `matchmaking/matchmaker.py` | connection graph: a `Vertex` per lobby user with edges, disallowed users, age window, weight, `matched`, `processed`; users without candidates | fetch the round data, bring the graph up to date, look for further candidates, pair users, post the pairs |
| Text lobby server | `mm_chat_server/server.py` | `current_clients`, `current_chats` (temporary chats with their messages) | connect, disconnect, message, like, accept |
| Chat server | `chat_server/server.py`, `chat_server/services.py` | websockets; writes chats, messages, the blacklist, and the redis caches of online users | connect, disconnect, nine payload types, events from the main server, push notifications with a cooldown |
| Chats in the database | `swipe_server/chats/` | `chats`, `chat_messages`, `global_chat_messages` | create, post, status, like, accept, open, decline, fetch |
| Online caches | `swipe_server/users/services/online_cache.py`, `swipe_bg_tasks.py`, `bin/cache_updater.py` | redis sets of online users by age, place and gender; recently-online records | add, remove, periodic expiry |
| Blacklist | `services/blacklist_service.py`, `services/redis_services.py` | table `blacklist`, one redis set per user | block, fetch, populate, drop |
| Swipes and ratings | `endpoints/swipes.py`, `endpoints/users.py`, `services/user_service.py` | `users.swipes`, `users.rating`, cooldown key in redis | reap free swipes, use a swipe, feedback, rewards |
| Cards | `services/fetch_service.py` | response cache per user and session | `/fetch`, `/fetch_candidates` |
| Popular users, locations | `services/popular_cache.py` | redis lists rewritten from the database | populate, fetch |
| Authentication | `endpoints.py`, `misc/security.py` | table `auth_info`, token cache with a TTL | log in, check a token |
| Profile, photos, deletion | `endpoints/me.py`, `endpoints/users.py`, `services/user_service.py`, `users/models.py` | table `users`, image storage, profile cache with a TTL | show, patch, photos, delete or deactivate |
| Events | `events.py` | none | POSTs from the main server to the chat server |
| Set-up | `settings.py`, `config.py`, `bin/*` | none | start-up |

### 1.2 How they interact

- **Clients** hold one websocket to the chat server as long as the app is open,
  one to the matchmaking server while they are in the audio or video lobby, and
  one to the text lobby server while they are in a temporary text chat. They
  call the main server over HTTP.
- **Matchmaker and matchmaking server** talk over HTTP, the matchmaker always
  asking: it takes the round data, asks for candidates, posts matches. The
  server never waits for the matchmaker.
- **Text lobby server** posts `create_chat`, messages and likes to the chat
  server (`/matchmaking/chat`), with a blocking call.
- **Main server** posts events (blacklisted, deleted, rating changed) to the
  chat server and writes the same redis caches as the chat server does.
- **Redis** is shared by all: the chat server fills the blacklist and partner
  caches when a user connects and drops them when he leaves, the main server and
  the matchmaking server read them, blocks and declines update them, the cache
  updater removes users from the online sets.
- **PostgreSQL** is the truth about chats, messages and the blacklist. Nothing
  spans the database and redis in one transaction.

### 1.3 What is hard, and what makes each component correct

Every server is one asyncio event loop: a handler is atomic between two awaits
that really wait (redis, an HTTP request), and anything may happen at those.
The database is used synchronously, so it never adds an interleaving of its own
inside one process. The main server is the exception: it runs in several workers
(`settings.py:39`), so two of its requests interleave at every transaction too.

| Component | Hard because | Correct if |
|---|---|---|
| Matchmaker | an exception anywhere ends the round in the middle and drops the rest of its data; flags on edges are computed once and outlive changes of either end | pairs fit both users; nobody is given to two others; a finished round leaves nobody out; every round ends |
| Matchmaking server | five dictionaries describe the same users, changed by different handlers, a disconnect can arrive at any of their stages | who is in the lobby can be reached; a disconnect is told to the partner and to nobody else (refuted); whoever returns to the lobby is served again |
| Both together | the matchmaker works with data that are one round old; answers get lost | rounds end whatever the other side does; nobody is held as matched for ever; who declined whom, or has just had a call with whom, is not offered again (both refuted) |
| Chat server, caches | caches are filled and dropped command by command, by three processes | who is to be avoided is in the cache of whoever is connected; who has gone leaves the online sets and can be notified |
| Text lobby | two websockets own one temporary chat; a late close removes both | what was said is stored once accepted, only then, and only in the chat of the two; who is back is reached |
| Conversations | a message may find its recipient connecting, leaving or on a dead websocket; read marks are set in bulk | nothing is missed and read marks are true (both refuted across chats of one sender, and hold but for that); declines reach both sides |
| Cards | what was offered is read at the start of a search and written at its end | nobody is offered again whom the session had been answered before; a short answer leaves few out |
| Accounts | nothing in the table keeps two first logins of one person apart; the token is in a table and in a cache, which are written one after the other | a person has one account; the cache ends up with the token of the last login |
| Swipes | counters are read into a session and written back by another worker; the cooldown is read before and written after what it guards | nobody is paid out more than the code gives him, and each cooldown at most once |
| Profiles, deletion, popular users | three caches of the same rows, filled and dropped by requests that cross; a deletion is cut short anywhere | each cache ends up with what the database says |

## 2. Plan

Done, in this order: `Matchmaker` with the abstract `PairingLobby` and its
proofs; `MatchmakingServer`, and `Matchmaking`, which composes the two with the
clients; `ChatServer`; `TextLobby`; `FetchUsers`; `Conversations`; `Accounts`,
`Swipes` and `Popular`, which `MainServer` puts together with profiles and the
deletion of a user, and the proofs about them.

Every safety property the passing runs check is by now a theorem too, with the
inductive invariant it needs (section 6).

Next, in this order:

1. An abstract specification of a conversation (a log both members read a prefix
   of), which `Conversations` with one chat per sender should implement, and of
   the token cache, which `Accounts` should.
2. The action properties of the chat server's and the main server's steps that
   no run states yet (what a coroutine that is leaving may never write).
3. Events of the main server as messages of their own, and the chat server's
   restart (online sets and tokens of those who were connected).
4. Photos: an array that is read and written back by two requests, beside an
   object store that takes part in no transaction.

## 3. The modules

### 3.1 PairingLobby and Matchmaker

`PairingLobby` is the promise: users wait or are engaged, only two different
waiting users are paired, and an engaged user waits again only when he is freed.

`Matchmaker` is `matchmaking/matchmaker.py`. `graph`, `edges`, `disallowed`,
`mm`, `matched`, `processed` are the connection graph with the fields of a
`Vertex`; `empty` is `_empty_candidates`; `pc`, `inbox`, `fetches`, `heap` and
`found` are where the loop is and its locals. `cutShort`, whether a post has
failed since a round last ran to its end, is history and steers nothing.

| Action | Code |
|---|---|
| `FetchRound` | `_fetch_new_round_data` |
| `ReturnUser`, `ReturnFails` | `_process_returning_users`, one user |
| `DeclinePair`, `DeclineFails` | `_process_decline_pairs`, one pair |
| `LeaveUnknown`, `LeaveGraph`, `LeaveFails` | `_process_disconnected_users`, one user |
| `JoinGraph`, `JoinKnown` | `_merge_graphs`, one user |
| `FetchCandidates` | `_process_empty_candidates`, one user |
| `StartMatching`, `SkipProcessed`, `Match`, `NoMatch`, `FinishRound`, `MatchPosted` | `run_matchmaking_round`, `_generate_matches`, `find_match`, posting |
| `PostFails` | the `except` of `start_matchmaker` |

A loop body is one action, so that an exception leaves exactly what the code
has done by then. A vertex not in the graph is kept blank. Of the heap only the
set of users matters: the order within one weight is arbitrary. The round data
are any value of `RoundInputs`, a constant: the proofs hold for all of them, TLC
uses the sets in `MCMatchmaker`. A filter may name a gender nobody in the lobby
has (`FilterValue`).

### 3.2 MatchmakingServer and Matchmaking

`MatchmakingServer` is `matchmaking_server.py`, `MMRoundData` and the
connection manager: `active`, `online`, `sent` and `data` are the dictionaries
of the code, `handlers` the running endpoint coroutines, `joining` and
`declining` the handlers that wait for redis or the database in the middle of a
payload. A `KeyError` or `AttributeError` the code runs into is an action or a
branch of its own (`CloseUnknown`, `CloseAlone`, `AcceptMatch` without a match).

`Matchmaking` composes it with the matchmaker and the clients. The processes
meet in `FetchRound` and `PostMatch`; `FetchTimesOut`, `PostFails` and
`MatchmakerRestart` are the failures. `MM` is `Matchmaker` with all round data as
its `RoundInputs`; that the composed system never shows it anything else is a
theorem (`RunsMatchmaker`, 6.3). Clients are not in the repository; they
follow the protocol in the comments of the server
(`matchmaking_server.py:165-210`, `281-286`).

*Reduction.* While the matchmaker computes (`pc` is `prepare` or `match`) the
others do not move (`Meanwhile`). Its steps then read and write only its own
variables, and the others' steps never touch those, so each commutes with each
and every behaviour has an equivalent one in this order. `FetchCandidates`
is not such a step in the code, it asks the server; the model lets it answer any
set of users, which does not depend on the others' state.

*Blacklist.* A lobby CONNECT reads redis; the model reads the relation in the
database. For users connected to the chat server the two agree, which is
`BlacklistCached` of `ChatServer`, a theorem (6.4).

### 3.3 ChatServer

Connections and caches. A coroutine is the list of redis commands it still has
to issue, each of them a step: `Connect`, `Register`, `Disconnect`,
`HandlerRuns` for websockets, `CreateChat` and `DeclineChat` for the payloads
that change the caches, `Block`, `PatchUser`, `RequestRuns` for the main server,
`SweepStarts`, `SweepVisits`, `SweepRuns` for `bin/cache_updater.py`. The
online sets are keyed by place only: age and gender do not change while a user
is connected, and the country and the global set are one key, `Anywhere`. The
firebase token of a user, which is in the cache while he is away, is his own name.
Users in `Hasty` connect again while the disconnect before is still being worked
off.

Two things are simpler than the code. The error path of `_init_user`
(`chat_server/server.py:90-93`) is left out: once begun, a connection is made
(observation 24). And the commit of a block or a decline is one step with the
beginning of its commands, which are then all issued: the request is never cut
short between them.

### 3.4 TextLobby

`clients` and `temp` are `current_clients` and `current_chats`; `chats` and
`stored` are the tables. A payload is one step, including the transaction in the
chat server: `requests.post` blocks the event loop of the lobby, and the chat
server works on the database without an await. Direct chats and declines are
there because they meet the same tables.

`active` is `active_connections`. A user is put there when he connects and never
taken out (observation 23), so it says nothing about who is there; it has to be
right for who is (`OpenIsReached`).

`refused` is history: the ids the chat server has refused to make a chat for. A
second accept of a chat that exists is not among them. It is in `Transcript` because
of a case the third user brings in. `server.py:69-71`
lets the second websocket of a chat in by the registration of the user it names,
whomever that one is waiting for. So `v`'s websocket may sit in the chat `u` has
opened for `w` and be the first to accept: the request names a pair for which
there is a chat already, the chat server refuses it, and `saved` is set all the
same. What `u` says from then on is posted to a chat that does not exist. Then
`w` accepts, the same id is created, and the messages in between are missing
from it. `Transcript` says nothing of such a chat, nor of one in which somebody else
has spoken, of a pair with two chats, or of anything after a request was lost or
a chat declined. An ordinary chat that both accept, in either order, is within it.

### 3.5 Conversations

The payloads on lasting chats and messages. `handler[u]` is where the endpoint
coroutine of `u` is: connecting in two commands, serving, waiting for the
partner caches (`creating`) or for the blacklist (`declining`), asking redis for
the cooldown and the token before a push, leaving. `chats`, `status` and
`blacklist` are the tables; `said` is every message in the order of timestamps,
which are the sender's and only ever compared within one sender. Clients keep
what they have (`known`, `shown`), lose what was on the wire when they are
closed, fetch `GET /chats?only_unread=true` once their websocket has been
accepted, read a chat only after that, and acknowledge a message before reading
it. A client connects again when its last close has been worked off; the other
case is `Hasty` in `ChatServer`, which also has the tokens that `AskToken` finds
there (`Notifiable`). Every user has a firebase token. `Fetch` is one step: the
response is what the database held when it was read, and the client has it at
once, so no receipt, message or decline falls between the two.

`Overtaken(m)` says that the sender of `m` has written to somebody else since, who
has read that. Finding 3 is that such a message may be marked as read and be
left out of a fetch without having been read; `ReadByPartner` and `FetchKeepsUp`
say that nothing else is.

### 3.6 FetchUsers

`FetchUserService.collect` with the two redis keys it remembers a session by.
`Fill` reads one set of online users, `Pass` looks at one user of every age and
widens the range, `SaveResponse` and `SaveDiff` write back; a disconnect and
`drop_obsolete_caches` delete the same keys one by one. It serves `/fetch` and
`/fetch_candidates`. The range of a pass is in closed form (`Ages`): the loop of
the code moves each end by a step and stops it at `MinAge`. The users of one age
have no order that matters, so of each age `NextOfEach` takes any. `User` is
finite: the code reads sets.

`given` and `known` are history: whom the answers of a session have held since
it was last forgotten, and which of them when a request came in. A session is
forgotten by the TTL, a disconnect, and a request that found no answers of its
own session when it came in and drops those of all (`drop_obsolete_caches`);
what a request has not read by then is taken out of its `known` as well
(`Forgotten`). `NeverRepeated` is about that, and not about what the request
itself has read: if a request of the same session dropped or overwrote the
answers between its arrival and its read, it would fail. Two requests that
overlap may both offer somebody (observation 27).

### 3.7 Accounts, Swipes, Popular, MainServer

The main server in four layers, each of which extends the one before. A process
is a request in progress, in whichever worker it runs, or the cache updater;
`work[p]` is what it has to do next, with the locals it has read. A step is a
redis command or a transaction. Between the two a request may be overtaken by
any other or be cut short (`Fails`), and nothing is undone: no code does.

| Layer | State | Actions | Code |
|---|---|---|---|
| `Accounts` | tables `users` (its status), `auth_info` (`owner`, `current`), keys `user_token:<id>` | `FindUser`, `CreateUser`, `CreateAccessToken`, `AnswerLogin` | `POST /auth` |
| | | `Authorize`, `CheckToken`, `SaveToken`, `ExpireToken` | `auth_user_id` |
| `Swipes` | `users.swipes`, `users.rating`, keys `free_swipes_cooldown:<id>` | `Reap`, `AddSwipes`, `ResetCooldown`, `ExpireCooldown` | `POST /me/swipes/reap` |
| | | `SwipeLeft`, `UseSwipe` | `POST /users/{id}/swipe_left` |
| | | `CallFeedback`, `SaveRating`; `AddRating` | `POST /users/{id}/call_feedback`; `POST /me/rating` |
| `Popular` | the redis lists | `PopularJob`; `FetchPopular`, `ClearPopular`, `PushPopular` | the job of `bin/cache_updater.py`; `populate_cache`, for all its callers |
| `MainServer` | the profile (`version`), keys `swipe_user:<id>` | `FetchProfile`, `LoadProfile`, `KeepProfile`, `ExpireProfile` | `GET /users/{id}`, `cache_user` |
| | | `PatchUser`, `SavePatch`, `AfterPatch` | `PATCH /me`, `update_location_caches` |
| | | `DeleteUser`, `DropProfile`, `RemoveUser` | `DELETE /me` |

A profile is the number of its patches: all the properties ask is which state of
the row a cache has. Accounts and tokens are named after the login that makes
them, where the code takes a uuid and the time. What follows a step is kept with
it (`then`), since the lists are written by three callers and a profile by four.
Every request but a login starts with `auth_user_id`, and may then wait for any
time: `Admitted` is that a token of the account has been handed out, and the
check itself, with what it does to the cache, is a request of its own.

`AfterPatch` adds one background task where one patch may add two
(`me.py:95`, `:107`): the second writes the same keys once more, from the
same rows.

`swipes`, `used`, `reaped` and `expired` relate a balance to what happened to it;
the last three are history and steer nothing.

## 4. The runs

A run is a `.cfg` file with the MC module it belongs to, for example
`tlc -workers 2 -config pair_drops.cfg MCMatchmaking`.

| Run | Module | Properties | What it shows |
|---|---|---|---|
| `matchmaker_rounds` | `MCMatchmaker` | `TypeOK`, `MutualMatch`, `EmptyInGraph`, `MaximalRound`, `PairsFromLobby` | Three users join with and without a filter, leave, decline and come back from calls in every order the round data can report, while posting a match may raise; whatever a round does to the graph, its pairs fit, nobody is given away twice, and a round that runs to its end leaves nobody out |
| `pair_drops` | `MCMatchmaking` | `TypeOK`, `OnlineRegistered`, `RoundsEnd` | Matchmaker, server and two clients with lost websockets, lost answers, failing posts and restarts of the matchmaker: who is in the lobby can be reached, and rounds end, those an exception cuts short too |
| `pair_served` | `MCMatchmaking` | `LobbyServed`, `NobodyStranded`, `PartnerReturns` | Two users who stay connected are served again and again |
| `declined_offered` | `MCMatchmaking` | `DeclinedApart` (violated) | Finding 1 |
| `stale_match` | `MCMatchmaking` | `LeaverTellsPartner` (violated) | Finding 2 |
| `chat_caches` | `MCChatServer` | `TypeOK`, `BlacklistCached` | Whoever is connected has everybody he must avoid in his cache, command by command |
| `presence_sweep` | `MCChatServer` | `SettledAccounted`, `Notifiable`, `GoneAreSwept` | The online sets do not keep users who have gone, and a user who reconnects before his disconnect has been worked off is registered or has a token in the end |
| `text_lobby` | `MCTextLobby` | `TypeOK`, `RegistrationsGo`, `OpenIsReached`, `StoredAtHome`, `OnlyAccepted`, `Transcript` | Registrations and temporary chats go with their websockets, who is back is reached, and chats become lasting as they are accepted, once or twice |
| `card_fetch` | `MCFetchUsers` | `TypeOK`, `NeverRepeated`, `ShortLeavesFew` | Searches that overlap with each other and with a disconnect repeat nobody whom their session had been answered when they came in, and how much a short answer may leave out |
| `conversations` | `MCConversations` | `TypeOK`, `ReadByPartner`, `FetchKeepsUp`, `DeclineReaches` | One user writes to two others, one of whom answers and returns: fetches bring everything and read marks are true, but for what finding 3 overtakes, and declines reach both |
| `main_server` | `MCMainServer` | `TypeOK`, `OneAccount`, `SwipesAccounted`, `ReapOncePerPeriod`, `TokensSettle`, `ProfilesSettle`, `PopularSettles` | Requests of the same users cross in two workers and with the cache updater, are cut short at any step, and delete their users under each other: who waits for his answers has one account and the swipes the code gave him, and the three caches settle on what the database says |
| `read_elsewhere` | `MCConversations` | `NothingMissed` (violated) | Finding 3 |

### 4.1 Bounds

- *Users.* Two users are enough for a handshake, a decline or a disconnect to
  race with the matchmaker. The third is there where somebody has to be taken by
  somebody else: rounds of the matchmaker, matches that outlive a call, the text
  lobby. In
  `matchmaker_rounds` they differ in age and gender, and `u2` may filter: there
  are edges in one direction, and windows that have to widen before users meet.
- *`MaxConnects`.* Connecting twice is one disconnect and one return; what is
  wrong after a return is wrong after the first one. In `chat_caches` one of the
  two returns, in `presence_sweep` the other user never connects and only
  changes his profile.
- *`WeightCap`.* The weight only orders the heap; weights at the cap are not
  told apart, and any of the heaviest users may come first.
- *`MaxCandidates`.* The code asks for the candidates of at most ten users a
  round (`matchmaker.py:356`); one is enough for the rest to be left over.
- *`MaxAgeDiff`, `AgeDiffStep`.* In `matchmaker_rounds` one widening brings the
  third user into reach. In `card_fetch` three ranges are passed, with one empty
  age at each side.
- *`MaxWire`.* Messages to one client which he has not read; a step that would
  need room for another one waits (`WireBound`). Nothing waits for room in the
  code: the bound only limits how far a client may lag behind.
- *`MaxMessages`.* Two, in two chats: two of one sender in one chat or in two,
  between which a receipt can fall, or one and an answer. In the two chats the
  one user who writes to both is the sender a read mark can reach across; one of
  the others loses his connection and returns, the other stays (`ThirdStays`, a
  state constraint). A third message would be beyond what a run finishes in
  minutes.
- *`Scenarios`* of `main_server`. Which requests a run has is chosen at the start,
  so that its states are the sum of six cases and not their product: a session
  (log in, check, delete) beside somebody else's first login; two first logins of
  one person, who goes on to be locked out; swipes, reaps and feedback of two
  users, one of whom does not wait; a profile that is shown, patched and deleted
  at the same time, without and with the updater at work; a ranking that changes
  while two writers push it. Requests that share no state but a row nobody
  changes are the ones kept apart. Two requests at a time are enough for all the
  races above: each is between two writers, the updater being a third process.
- *`Attempts`, `Login`.* Two logins of a person are a first one that is cut short
  and a second that finds what it has left, or two that cross; the impatient one
  has a third, which finds two accounts.
- *`MaxRequests`* of `main_server` is two requests that change something; logins,
  checks and reads are beside them. With `SwipesDefault = 1` and
  `SwipesPerPeriod = 2` a balance is 0, 1, 2 or 3, so that the last swipe is
  refused, and lost updates of each kind show.
- *`PopularLimit`, `OneList`.* Two users on a list of two: a list can hold one
  twice, miss one or have them in either order. Lists share nothing but the rows
  they are read from, so one is enough.
- Elsewhere *`MaxRequests`, `MaxMoves`, `MaxFailures`, `MaxOpens`* count blocks and
  patches, changes of the online sets, lost requests, and websockets.
- *Settings.* `pair_served` has the match blacklist off: with it on, two users
  who have declined each other are done, and there is nothing left to serve.
  It is off in `stale_match` too, where nobody declines, and on in the other runs
  of `MCMatchmaking`. In all of them a close is noticed
  before the user is back (`LateClose` is off).
- *Moves.* The two violations need few kinds of moves and are found in seconds
  with those (`DeclinesAndDrops`, `CallsAndDrops`); more would not make them go
  away.
- *Symmetry* is used in `declined_offered`, `stale_match` and `card_fetch`, which
  check safety only and whose instances treat the permuted values alike.
- *`CHECK_DEADLOCK FALSE`* where the bounded clients may all have finished: the
  websockets are used up, and the servers wait for requests.

### 4.2 Clients

Clients are environment. They follow the protocol which the comments describe
and do not invent payloads: a match is accepted by who was sent one, a message
is read by who has it. What a handler does with a payload nobody should have
sent is in the models only where the order of legal steps leads there.

## 5. Fairness

Nothing in any module makes a user do something: he may stay away, never answer
a match, never leave a call.

- `Matchmaking!FairSpec`: the matchmaker goes on. It is one loop that never
  waits for an event in the middle of a round, and every exception is caught
  (`start_matchmaker`). Posting a match has no timeout (`matchmaker.py:434`): the
  assumption is that the server answers or closes the connection. A client
  reads what it was sent. Reading is strongly fair because `Meanwhile` (3.2)
  disables the others while the matchmaker computes, an artefact of the
  reduction: in the system they go on. `pair_drops` checks `RoundsEnd` under it.
- `Matchmaking!LiveSpec` adds that the event loop of the server finishes every
  handler that can go on; strongly, for the same reason. Neither a lost answer
  nor a failing post nor a restart occurs there (`MayTimeOut`, `PostMayFail`,
  `MayRestart` are off): each of them loses round data for good, and with them
  the user the data were about.
- `ChatServer!FairSpec`: every coroutine goes on to its end, websockets that are
  lost are noticed, time passes (`RecordAges`), and the cache updater starts
  again and again (`SweepStarts`) and visits every key it has listed. It may die
  with an exception; `docker-compose-prod.yml` restarts it
  (`restart: unless-stopped`).
- `MainServer!FairSpec`: every request goes on until it ends or is cut short
  (`Goes_On`), the job of the updater starts again after it has ended, and the
  TTLs of tokens and profiles run out. Nobody has to send anything, and no
  cooldown has to end.

## 6. The proofs

### 6.1 The matchmaker

`Matchmaker_proofs` holds theorems about `Matchmaker` for all values of its
constants: any set of users, finite or not, any ages, genders and settings, any
`RoundInputs`. `ParamAssumption` is what they assume of the settings: the constants have the
types the settings have, and the window a user starts with is not wider than the
largest. TLC evaluates it in the runs of `MCMatchmaker`. `InputsAssumption` says that the server answers with round
data.

| Theorem | States | Rests on |
|---|---|---|
| `TypeCorrect` | `[](TypeOK /\ PhaseInv)` | `TypeInit`, `TypeStep` |
| `MatchesFit` | `[]MutualMatch` | `EdgeInit`, `EdgeStep`, `FitsWider`, `TypeStep` |
| `EmptyStaysInGraph` | `[]EmptyInGraph` | `TypeCorrect` |
| `ImplementsLobby` | `PairsFromLobby`, that is `PairingLobby!Spec` under `lobby <- graph \ matched`, `engaged <- matched` | `HeapStep`, `EdgeStep`, `TypeStep` |
| `RoundIsMaximal` | `[]MaximalRound` | `LookupStep`, `TypeStep` |

None of the properties is inductive as it stands (`EmptyInGraph` needs only
`TypeOK` beside it); the strengthenings are in `Matchmaker`.

- `PhaseInv`: the heap is empty outside the matching phase, and a pair is pending
  while it is posted. Without it a vertex could leave the graph and stay on the
  heap.
- `EdgeInv` is why `MutualMatch` holds although `find_match` reads one flag. An
  edge marked as mutual fits its owner as he is now, and fits the other end
  unless the owner has been told to avoid that one or he has left the graph.
  It survives windows that widen (`FitsWider`, they never shrink), leavers whose
  edges stay behind, and newcomers with another filter, because `_merge_graphs`
  computes the flags towards a newcomer anew (`ConnectFlag`). A vertex outside
  the graph has no edges, and none has an edge to itself.
- `HeapInv`: who is matched and still on the heap is processed, so the heap will
  skip him. Without it a user given to another one could be served a second
  time, which the abstract lobby forbids.
- `LookupInv`, unless a post has failed since a round last ran to its end
  (`cutShort`): nobody starts a round as processed; who has been looked up in
  vain has no candidate, which stays so because candidates only get fewer during
  the matching phase; and everybody in the graph is on the heap, matched or
  processed. With an empty heap this is `MaximalRound`. A failing post leaves the
  flags set (observation 4 below), so the theorem, which holds for failing posts
  too, leaves out the first round that runs to its end after one, and only that.

The refinement is a step simulation: `Match` is `Pair`, `ReturnUser`
and `DeclinePair` free the users they name or change nothing, `JoinGraph` is
`Join`, `LeaveGraph` is `Leave`, everything else stutters. The induction needs
`TypeOK`, `PhaseInv`, `EdgeInv` (a user is never his own candidate) and `HeapInv`.

### 6.2 The main server

`MainServer_proofs` holds theorems about `MainServer` for all values of its
constants: any finite sets of people and logins, any number of requests in
progress at the same time, any scenario, any number of failures, any lists. The
assumptions are those on the constants (`AccountsAssumption`,
`SwipesAssumption`, `PopularAssumption`), which TLC evaluates in `main_server`;
that the sets are finite only matters for the length of a list.

| Theorem | States | Rests on |
|---|---|---|
| `TypeCorrect` | `[]TypeOK` | one lemma for each layer's steps, `WorkStep`, `RankingType` |
| `OneAccountEach` | `[]OneAccount` | `LoginsStep`, `Steps`, `TypeCorrect` |
| `BalancesExact` | `[]SwipesAccounted` | `BalancesStep`, `MadeStep`, `MadeGrows`, `TypeCorrect` |
| `ReapsBounded` | `[]ReapOncePerPeriod` | `PeriodsStep`, `OwnersStep`, `FirstStep`, `SendersStep`, and the steps above |

- `LoginsInv` makes `OneAccount` inductive. A person who waits has one login
  under way at most, and the one that is about to make an account has found that
  he has none; nobody else's login can have made him one since. A login that is
  cut short after `create_user` leaves an account without a token, which the
  next one finds, because `find_user_by_auth` asks for nothing but the owner.
- `MadeInv`: the balances of accounts not made yet are untouched, and whoever can
  send a request has an account that has been made. Without it a login could
  make an account with a history.
- `ReadsInv` is why lost updates never pay out: what a request to swipe has read
  was within the range of the history when it was read, and both ends of the
  range only move apart. Of a user who waits it is the balance as it still is,
  because no other request of his is between its read and its write, and reaps
  of one user are the only other thing that changes a balance.

Most steps touch neither logins nor balances. `Steps` says so once: every step is
`Plain`, or one of nine, and each invariant is shown for plain steps
(`LoginsQuiet`, `BalancesQuiet`) and then for the nine.

- `PeriodsInv` counts for `ReapOncePerPeriod`. Of a user who waits, an account whose
  cooldown neither runs nor is about to be set (`Owes`) has one that has run out,
  or a failure, to its credit: that is what the next reap uses up. The cooldown
  is set after the swipes are added, so the step between the two is counted as
  owing it. `OwnersInv`, `FirstInv` and `SendersInv` say whom a login or a request
  in progress is about: that a new account is not used before the login that
  makes it has been answered, and that one who waits reaps once at a time.

### 6.3 The matchmaking subsystem

`Matchmaking_proofs`, about `Matchmaking`: any set of users, any number of
websockets each, any moves, lost answers, failing posts and restarts.

| Theorem | States | Rests on |
|---|---|---|
| `TypeCorrect` | `[]TypeOK` | `TypeInit`, `TypeStep`, one lemma for each handler |
| `OnlineReachable` | `~LateClose` implies `[]OnlineRegistered` | `RegisteredStep`, `TypeStep` |
| `RunsMatchmaker` | `IsMatchmaker`: the matchmaker in the system takes steps of `Matchmaker!Next` with round data, or begins anew | `AlwaysTyped` |

- `ShownInv`: a client that shows a match or a call shows a user, and what is
  posted is a pair of users. It is what types the messages.
- `RegisteredInv` relates the books with the coroutines: a user has one handler at
  most, which is registered, and a handler that waits for redis is one the server
  still has. A CONNECT that is slow can then not put a user into the lobby after
  his disconnect has been worked off.

`LateClose` is a hypothesis because without it the property is false: a close that
is noticed after the user is back takes the new websocket out of the connection
manager and not the old one, while the lobby entry may be put back by the new
one. The code has nothing against that, and no run claims the contrary.

`RunsMatchmaker` ties the two levels together. The theorems of 6.1 are about any
`RoundInputs` made of round data; the composed system gives the matchmaker
exactly such, since `data` is `RoundData` (`TypeCorrect`), and no step of the
server or the clients touches its variables. Their invariants are true in its
initial state, so they survive a restart as well. `MatchmakingAssumption` contains
`ParamAssumption`.

### 6.4 The chat server

`ChatServer_proofs`, about `ChatServer`: any users, places, numbers of websockets
and of requests, in any interleaving of single redis commands.

| Theorem | States | Rests on |
|---|---|---|
| `TypeCorrect` | `[](TypeOK /\ CommandsInv)` | `TypeInit`, `TypeStep` |
| `Blacklists` | `[]BlacklistCached` | `SocketsInv`, `AvoidedInv`, `TypeCorrect` |
| `OnlineAccounted` | `[]SettledAccounted` | `PlaceInv`, `TypeCorrect` |
| `Notified` | `[]Notifiable` | `NumbersInv`, `SocketsInv`, `CommandsInv`, `TypeCorrect` |

- `CommandsInv` is about what is still to be issued: which keys the rest of a
  coroutine, a request or the job may touch and what it may write there. A
  recently-online record, for instance, is only written by the leaving coroutine
  of its own user. Without it no key could be said to keep its type.
- `AvoidedInv` strengthens `BlacklistCached` from registered users to all whose
  coroutine is not leaving: whom such a user is to avoid is in his cache, or a
  command that puts him there is on its way. `_init_user` reads the database first
  and writes the cache later, and a block in between adds to the cache itself.
  `SocketsInv` says that a user who does not hurry has one coroutine, so that
  nothing deletes his key in the meantime.
- `PlaceInv`: records, online sets and coroutines of a user who does not move name
  one place, and when the job is about to delete his record it is the first of
  its commands, and those that take him out of the online sets follow.
- `Notifiable` needs, of all a user's coroutines, that whichever takes the token
  away has yet to register him, and whichever takes his registration away has yet
  to put the token back (`CommandsInv` says who may do either). With one
  coroutine per user that would be a matter of reading the code; `Hasty` users have
  several, and nothing is assumed of their order.

### 6.5 The text lobby

`TextLobby_proofs`, about `TextLobby`: any users, any number of websockets,
messages and lost requests, and any choice of who joins whom.

| Theorem | States | Rests on |
|---|---|---|
| `TypeCorrect` | `[]TypeOK` | `TypeInit`, `TypeStep` |
| `RegistrationsWent` | `[]RegistrationsGo` | `HostsInv`, `NumbersInv` |
| `OpenReached` | `[]OpenIsReached` | |
| `Home` | `[]StoredAtHome` | `TypeCorrect`, `NewStored` |
| `Accepted` | `[]OnlyAccepted` | `KeptInv`, `HostsInv`, `NumbersInv` |
| `CompleteTranscript` | `[]Transcript` | `SavedInv`, `KeptInv`, `OnlyAccepted` and those before |

- `NumbersInv`: websockets are numbered as they are opened, so nothing that has
  been said or made names one that is still to come.
- `HostsInv`: a temporary chat is that of the websocket it is named after.
- `KeptInv`: until it is accepted, a temporary chat holds exactly what has been
  said in it.
- `SavedInv`: when a chat with messages is saved it has been created, or refused,
  unless a request was lost or somebody has declined. It was the attempt to prove
  this which showed that `Transcript` needs `refused` (3.4): an earlier form of the
  property, without it, is false as soon as the third user may join anybody, which
  the run with one late third user does not show.

### 6.6 Conversations

`Conversations_proofs`, about `Conversations`: any users and chats, any number of
connections and messages.

| Theorem | States | Assumes |
|---|---|---|
| `TypeCorrect` | `[]TypeOK` | |
| `DeclinesReach` | `[]DeclineReaches` | `OneChatPerPair` |
| `ReadMarks` | `[]ReadByPartner` | `OneChatPerPair` |
| `FetchesAll` | `[]FetchKeepsUp` | `OneChatPerPair` |

The hypothesis is what the rest of the code takes for granted
(`scalar_one_or_none` in `fetch_chat_by_members`), and `DeclineReaches` is false
without it: with two chats of one pair, the second deletion finds the pair on the
blacklist, `update_blacklist` raises, and the other user is never told
(observation 19). Nothing is assumed of who writes where: a user may write in any
number of chats. What finding 3 refutes is in the properties themselves, as
`Overtaken`, so that the two theorems say that it is the only way to miss a
message or to see one wrongly marked.

- `HandlersInv`: where a user's coroutine is tells whether he is registered and
  which chat it is busy with.
- `ClientsInv`: clients get what is meant for their user, through an open
  websocket; `MessagesInv`: a chat has a message, and its creator is busy with
  the first.
- `DeclinesInv`: a chat that is gone has been declined by somebody, and who has
  not done so himself is about to be told, or has the decline behind the creation
  on his wire. The order on the wire is what makes it inductive.
- `OrderInv`: the messages of one chat are on a wire in the order they were said,
  and for one who has fetched, what he does not have yet is overtaken, or on its
  way and later than all he has of that chat. A read mark covers everything the
  sender has said up to some message: in that chat the reader had it all, and in
  the others it is overtaken by that very message.

### 6.7 Cards

`FetchUsers_proofs`, about `FetchUsers`: any finite set of users, any sessions and
requests, any age window, step and limit.

| Theorem | States | Rests on |
|---|---|---|
| `TypeCorrect` | `[]TypeOK`: what a request collects it has from its pool, and never more than the limit | `InitInv`, `NextInv` |
| `NotRepeated` | `[]NeverRepeated` | `HistoryInv`, `CachedInv` |
| `ShortAnswers` | `[]ShortLeavesFew` | `PassesInv` |

- `StagesInv` says what the coroutine has at each place, `CachedInv` that nothing it
  collects is in the cache it has read. `HistoryInv` is what the theorem is about:
  what a session has been answered is in redis, and what a request knew when it
  came in is still there when it reads, although other requests, disconnects
  and the TTL delete and extend the same keys between any two of its commands.
- `PassesInv` is a count. After `n` passes over the pool one user of every age at a
  time, for each user who is left at least as many of his age are not left as
  passes have gone over that age; and who is not left has been collected, or may
  not be offered. At the end of the search this is `ShortLeavesFew`, with the
  number of passes as the bound. The lemmas under it are about cardinalities of
  the sets one pass takes away (`NextOfEach`) and about the first `n` of a set in
  an order without ties (`Nearest`).

### 6.8 Only model-checked, and refuted

`RoundsEnd`, `LobbyServed`, `NobodyStranded`, `PartnerReturns`, `GoneAreSwept`,
`TokensSettle`, `ProfilesSettle` and `PopularSettles` are liveness properties, and
liveness under fairness is out of the prover's reach: TLC checks them on the
instances of section 4. Every other property of the passing runs is a theorem.
`DeclinedApart`, `LeaverTellsPartner` and `NothingMissed` are refuted (7.1). Trying
to prove them is how the first two were found to be false: TLC had not refuted
them, or an earlier form of them, in instances where nobody leaves and in those
without a third user.
No module declares a RECURSIVE operator: all of them can be reasoned about.

## 7. Findings and observations

### 7.1 Findings

1. `matchmaking/matchmaker.py:306`, run `declined_offered`. A decline is to keep two
   users apart in two ways: each vertex gets the other one as disallowed, and
   the blacklist in redis is read when a user joins ("so that if a user
   reconnects again he won't be offered", `matchmaker.py:307-308`). Neither
   reaches a user who is between leaving and joining. In the counterexample two
   users have been matched and `u1` drops, comes back and sends CONNECT, which
   reads his blacklist; `u2`, whose screen still shows the match, declines it. The
   next round has the decline but no vertex of `u1` yet: `KeyError`, and the
   decline is gone. Then the CONNECT goes on with the blacklist it has read, and
   the two are offered to each other at once.
2. `matchmaking/matchmaking_server.py:172`, run `stale_match`. A lobby RECONNECT
   ends a call but leaves both entries in `sent_matches` (`:280-292`). After a call
   of `u1` and `u2`, `u2` is matched with `u3`, which overwrites the entry of `u2`
   only. When `u1` leaves, `_process_disconnect` takes his old entry for a match
   under way: it tells `u2` that his partner has gone, puts him back to the
   matchmaker and removes his match with `u3`. If `u3` then leaves, nobody is told,
   although these entries are kept "so that we could send decline/reconnect events
   if one of the users disconnects" (`:169-170`).
3. `swipe_server/chats/services.py:135`, run `read_elsewhere`. `set_read_status`
   marks all earlier messages of the same sender as read, in every chat. A
   message to `u3` which `u3` has never had is taken for read when `u2` reads a
   later one of the same sender, and the fetch of unread chats
   (`chats/endpoints.py:71`) leaves it out.

### 7.2 Observations

What the code does and no run is needed to show; where a comment says otherwise, it
is named. Where a property does not hold
because of one of these, it is stated for the cases without it, and the hazard
list of `PROJECT.json` says so.

Matchmaking:

1. A leaver is removed from the vertices he has an edge to, not from those that
   have an edge to him (`matchmaker.py:278-287`). When the owner of such an edge
   leaves, `self._connection_graph[connection_user_id]` raises `KeyError`
   (`LeaveFails`): the rest of the round's data is lost and he stays in the graph,
   where he is paired with others. The comment at `:270-271` says he is removed.
2. A disconnect before the lobby CONNECT, or a second one of the same user,
   raises in `schemas.py:162`; `connection_manager.disconnect` is not reached
   and the user stays among the active connections.
3. `_send_ack` has its two types the wrong way round: a payload that was sent on
   is acknowledged as failed, one that was not as done
   (`matchmaking_server.py:135`).
4. When posting a match raises, the `processed` flags stay set and the users
   concerned are skipped in the next round (`matchmaker.py:434`).
5. A match one of whose users is no longer connected is dropped
   (`matchmaking_server.py:319`), the other one stays matched in the graph.
6. After a disconnect on a call the partner's RECONNECT finds no entry in
   `sent_matches` and is ignored (`matchmaking_server.py:182`).
7. A user who leaves and joins between two rounds is taken for one who came and
   went (`matchmaker.py:272`).
8. A decline or a return that names a user who has left raises
   (`matchmaker.py:293`, `:306`), and everything else the round had to tell is lost
   with it.
9. A decline names no match: the second of two that cross may release a user
   from a match made in between (`matchmaking_server.py:228`).
10. `returning_users` holds one partner per user (`schemas.py:167`): of two calls
   ended between two rounds the first is forgotten on one side. `find_match` asks
   only the user it serves (`matchmaker.py:233`), so with three users that pair is
   offered again, against the comment at `matchmaker.py:296-297`.

Caches and presence:

11. A record deleted between the two reads of the cache updater raises
    `TypeError`, which ends the process; a user who comes back while it works is
    taken out of the online sets although he is connected (`online_cache.py:215`).
12. Who reconnects before his disconnect has been worked off loses the blacklist
    and partner caches that the new connection has just filled
    (`chat_server/server.py:226`).
13. The partner cache is deleted before it is filled (`redis_services.py:194`): a
    chat created meanwhile is in neither.
14. A patch fills the online sets of the new place also for users who are not
    connected, and no record ever takes them out (`swipe_bg_tasks.py:37`).
15. The age difference of a session is written without a TTL
    (`redis_services.py:260`), and `drop_obsolete_caches` looks at the other key.

Chats:

16. The table allows two chats of one pair, created one from each side
    (`chats/models.py:42-45`, `services.py:252`); after that, posting to the pair
    raises (`services.py:55`).
17. In the text lobby the second user joins whatever chat the named user is
    registered for (`mm_chat_server/server.py:70`).
18. `saved` is set before the chat server has answered: after a lost request, or
    one for an empty chat, later messages go to a chat that does not exist
    (`mm_chat_server/server.py:174`). A second accept recreates a chat that was
    declined (`:192`).
19. The decline of a second chat of a pair, or of a blocked user's, is not told
    to the other one: `update_blacklist` raises (`chat_server/services.py:129`).
20. A message that arrives while its recipient connects or leaves is neither sent
    nor pushed (`chat_server/server.py:232`); his next fetch brings it.
21. A RECEIVED receipt overwrites READ (`chats/services.py:118`). Clients that
    acknowledge first and read then never do that.
22. A chat declined while its creation is still on the wire to the other user
    appears there after all, if he had fetched before it.
23. Nothing takes a user of the text lobby out of `active_connections`
    (`mm_chat_server/server.py:57`, `:87-102`): it keeps the last websocket of
    everybody for as long as the process runs, and what is sent to one who has
    gone is written to a closed websocket.
24. An exception in `_init_user` is logged and ends the handler
    (`chat_server/server.py:90-93`): the user may stay in the online sets with no
    record to take him out, and without a token.

Cards:

25. The docstring of `/fetch` takes a short answer for the end of the list
    (`users/endpoints/users.py:104`). The search looks at one user of every age
    in each range and stops after the widest (`fetch_service.py:111`), so an age
    with more users online than passes is cut short. `ShortLeavesFew` is what
    does hold.
26. Below the lowest age the range is filled up with older ones, so somebody of
    that age is offered users up to twice the age difference older
    (`fetch_service.py:68`).
27. Two requests of a session that overlap both read the answers before either
    writes its own (`fetch_service.py:51`, `:118`), and may offer the same user.

Accounts, swipes and profiles:

28. Two first logins of one person at the same time make two accounts: `auth_info`
    has no unique constraint (`models.py:186`). From then on
    `scalar_one_or_none` raises in `find_user_by_auth` and the person is locked
    out. `OneAccount` is about people who wait; the scenario `Doubles` has the
    other case.
29. The comment at `endpoints.py:136-137` says a login invalidates the old token.
    A check that has read the table before it caches the old token after it
    (`security.py:64`), and then the old phone is let in and the new one refused
    until the key expires, at most an hour later. A deletion leaves the key
    alone: a deleted user passes the check for as long.
30. Two requests of one user to reap both find no cooldown, and both add swipes;
    so does one whose connection to redis is lost between the two
    (`swipes.py:78-81`).
31. `use_swipes` and `add_call_feedback` write back what they have read
    (`user_service.py:318`, `:328`): of two at the same time one is lost, and a
    swipe can undo a reap.
32. A swipe is spent even if `update_blacklist` raises after it, as it does for a
    user who is blocked already (`users.py:221-226`).
33. `DELETE /me` reads `current_user.location.country` (`me.py:144`) before it asks
    whether there is a location (`:150`), so the case its comment names, a user
    who deletes his account during registration, raises `AttributeError`.
34. The task of the first patch with a location is given no previous one:
    `update_location_caches` raises at `swipe_bg_tasks.py:54`, after the global
    lists. It never rewrites the lists of a place without a gender.
35. Two writers of one list that overlap leave users on it twice, and users who
    are gone, until the next job (`redis_services.py:110`).
36. Rating events leave after the transaction they belong to
    (`users.py:194`, `me.py:64`), so two of them may arrive in the wrong order.
37. The cards behind the lists (`popular_user:<id>`) have no TTL and are dropped by
    nobody (`redis_services.py:127`).

## 8. Not modelled

| Part | Why |
|---|---|
| Who a person is | the identity provider is external: provider and id are taken as given, and so is the signature of a token |
| Photos | the object store is outside every transaction, and each photo belongs to one user; planned |
| What a deletion does to chats | the deletion of chats and messages in `me.py:157-165` changes tables of `Conversations`; `MainServer` has the steps around it |
| Events of the main server | planned with the restart of the chat server; today `Block` and `PatchUser` change the shared state themselves |
| Cards of popular users, countries and cities | copies which no other state depends on; the lists the cards belong to are modelled |
| Likes, global chat, offers, SDP and ICE | a like decorates one message, the global chat is an append-only table, the rest is forwarded without a state change |
| Acknowledgements in conversations | answers to the sender himself, which change nothing on the server |
| Set-up, settings, logging, images | no state a property could be about |
| Random data, migrations | development data, history of the schema |

Redis and PostgreSQL are taken as linearizable; a redis command is one step, a
database transaction is one step. Push notifications are taken as delivered to
the push service. A crash of the chat, text lobby or matchmaking server is not
modelled; the first of them is in the plan.
