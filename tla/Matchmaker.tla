------------------------------ MODULE Matchmaker ------------------------------
(***************************************************************************)
(* The matchmaker process (swipe/matchmaking/matchmaker.py).  It keeps a   *)
(* graph of the users in the lobby and works in rounds: it fetches what    *)
(* happened since the previous round from the matchmaking server, brings   *)
(* the graph up to date, asks the server for further candidates for the    *)
(* users it could not serve, and then pairs users off a heap ordered by    *)
(* how long they have been waiting, posting every pair to the server.      *)
(*                                                                         *)
(* Every loop body is an action, so that an exception leaves exactly the   *)
(* part of the round done that the code has done by then: start_matchmaker *)
(* catches it, the rest of the fetched data is gone, and the graph keeps   *)
(* its half-made state.                                                    *)
(***************************************************************************)
EXTENDS Integers, FiniteSets, Sequences

CONSTANTS
  User,              \* user ids
  NoUser,            \* Python's None where a user id is optional
  Age,               \* Age[u]: years, as the server puts them in MMSettings
  Gender,            \* Gender[u]
  AnyGender,         \* gender_filter = None
  FilterValue,       \* the values of gender_filter
  DefaultAgeDiff,    \* settings.MATCHMAKING_DEFAULT_AGE_DIFF
  AgeDiffStep,       \* settings.MATCHMAKING_AGE_DIFF_STEP
  MaxAgeDiff,        \* settings.MATCHMAKING_MAX_AGE_DIFF
  BlacklistEnabled,  \* settings.MATCHMAKING_BLACKLIST_ENABLED
  MaxCandidates,     \* users served by _process_empty_candidates in a round
  WeightCap,         \* bound: weights at or above it are not told apart
  PostMayFail,       \* whether posting a match to the server can raise
  RoundInputs        \* what the server may answer to /new_round_data

Dict(K, V) == UNION {[D -> V] : D \in SUBSET K}
Newcomer == [gender_filter : FilterValue, disallowed : SUBSET User]

\* MMRoundData as it travels to the matchmaker.  VertexData.edges is left out:
\* _merge_graphs filters it and then builds the Vertex without it.
RoundData == [new_users          : Dict(User, Newcomer),
              returning_users    : Dict(User, User \cup {NoUser}),
              disconnected_users : SUBSET User,
              decline_pairs      : Seq(User \X User)]

ASSUME ParamAssumption ==
  /\ NoUser \notin User
  /\ Age \in [User -> Nat]
  /\ DOMAIN Gender = User
  /\ AnyGender \in FilterValue \ {Gender[u] : u \in User}
  /\ DefaultAgeDiff \in Nat
  /\ AgeDiffStep \in Nat
  /\ MaxAgeDiff \in Nat
  /\ DefaultAgeDiff <= MaxAgeDiff
  /\ BlacklistEnabled \in BOOLEAN
  /\ MaxCandidates \in Nat
  /\ WeightCap \in Nat
  /\ PostMayFail \in BOOLEAN

ASSUME InputsAssumption == RoundInputs \subseteq RoundData

VARIABLES
  graph,       \* keys of _connection_graph
  edges,       \* edges[u][v]: "none" if v is no key of Vertex.edges, else the flag
  disallowed,  \* Vertex.disallowed_users
  mm,          \* Vertex.mm_settings, the fields that change or differ
  matched,     \* users whose vertex has matched = True
  processed,   \* users whose vertex has processed = True
  empty,       \* _empty_candidates
  pc,          \* where start_matchmaker is in its loop
  inbox,       \* the part of the round's data not yet worked off
  fetches,     \* iterations of _process_empty_candidates made in this round
  heap,        \* users still on the round's heap
  found,       \* the pair being posted to the server
  cutShort     \* whether a post has failed since a round last ran to its end

graphVars == <<graph, edges, disallowed, mm, matched, processed, empty, cutShort>>
roundVars == <<pc, inbox, fetches, heap, found>>
vars == <<graph, edges, disallowed, mm, matched, processed, empty,
          pc, inbox, fetches, heap, found, cutShort>>

EdgeFlag == {"none", "oneway", "both"}
MMSettings == [age_diff : 0..MaxAgeDiff, current_weight : 0..WeightCap,
               gender_filter : FilterValue]
NewSettings(filter) ==
  [age_diff |-> DefaultAgeDiff, current_weight |-> 0, gender_filter |-> filter]

NoEdges == [v \in User |-> "none"]
NoPair == <<NoUser, NoUser>>
EmptyDict == [k \in {} |-> NoUser]
NoRound == [new_users |-> EmptyDict, returning_users |-> EmptyDict,
            disconnected_users |-> {}, decline_pairs |-> <<>>]

\* The vertex of a user that is not in the graph is kept blank.  Vertex.waiting
\* is left out: the two lines that would set it are commented out.
Init ==
  /\ graph = {}
  /\ edges = [u \in User |-> NoEdges]
  /\ disallowed = [u \in User |-> {}]
  /\ mm = [u \in User |-> NewSettings(AnyGender)]
  /\ matched = {}
  /\ processed = {}
  /\ empty = {}
  /\ pc = "sleep"
  /\ inbox = NoRound
  /\ fetches = 0
  /\ heap = {}
  /\ found = NoPair
  /\ cutShort = FALSE

-------------------------------------------------------------------------------
Without(d, k) == [x \in DOMAIN d \ {k} |-> d[x]]

\* Vertex.can_connect_to without the disallowed users: the age window and the
\* gender filter of u, with settings s, admit v.
Fits(s, u, v) ==
  /\ Age[v] \in (Age[u] - s.age_diff)..(Age[u] + s.age_diff)
  /\ s.gender_filter \in {AnyGender, Gender[v]}

CanConnect(m, d, u, v) == v \notin d[u] /\ Fits(m[u], u, v)

ConnectWith_OneSided(e, m, d, u, S) ==
  [x \in User |-> [y \in User |->
     IF ~((x = u /\ y \in S) \/ (y = u /\ x \in S)) \/ ~CanConnect(m, d, x, y)
     THEN e[x][y] ELSE "both"]]

\* _connect_vertices for u and every member of S.  An edge that neither end may
\* have any more is left as it was.
ConnectWith(e, m, d, u, S) ==
  [x \in User |-> [y \in User |->
     IF ~((x = u /\ y \in S) \/ (y = u /\ x \in S)) \/ ~CanConnect(m, d, x, y)
     THEN e[x][y]
     ELSE IF CanConnect(m, d, y, x) THEN "both" ELSE "oneway"]]

\* The exception ends the round: whatever was not yet worked off is dropped.
AbandonRound ==
  /\ pc' = "sleep"
  /\ inbox' = NoRound
  /\ fetches' = 0
  /\ heap' = {}
  /\ found' = NoPair

FetchRound(data) ==
  /\ pc = "sleep"
  /\ pc' = "prepare"
  /\ inbox' = data
  /\ UNCHANGED <<graphVars, fetches, heap, found>>

-------------------------------------------------------------------------------
(* prepare_round: returning users, declines, disconnected users, new users *)

Returning == DOMAIN inbox.returning_users
Declines == inbox.decline_pairs
Leaving == inbox.disconnected_users
Joining == DOMAIN inbox.new_users

ReturnUser(u) ==
  /\ pc = "prepare"
  /\ u \in Returning
  /\ u \in graph
  /\ matched' = matched \ {u}
  /\ disallowed' = [disallowed EXCEPT ![u] = @ \cup ({inbox.returning_users[u]} \ {NoUser})]
  /\ inbox' = [inbox EXCEPT !.returning_users = Without(@, u)]
  /\ UNCHANGED <<graph, edges, mm, processed, cutShort, empty, pc, fetches, heap, found>>

\* KeyError: the returning user has no vertex.
ReturnFails(u) ==
  /\ pc = "prepare"
  /\ u \in Returning
  /\ u \notin graph
  /\ AbandonRound
  /\ UNCHANGED graphVars

Disconnected(e, a, b) == [e EXCEPT ![a][b] = "none", ![b][a] = "none"]
Disallowing(d, a, b) == [d EXCEPT ![a] = @ \cup {b}, ![b] = @ \cup {a}]

DeclinePair_FirstOnly ==
  /\ pc = "prepare"
  /\ Returning = {}
  /\ Declines # <<>>
  /\ {Head(Declines)[1], Head(Declines)[2]} \subseteq graph
  /\ matched' = matched \ {Head(Declines)[1]}
  /\ inbox' = [inbox EXCEPT !.decline_pairs = Tail(@)]
  /\ UNCHANGED <<graph, edges, disallowed, mm, processed, cutShort, empty, pc, fetches, heap, found>>

DeclinePair ==
  /\ pc = "prepare"
  /\ Returning = {}
  /\ Declines # <<>>
  /\ LET a == Head(Declines)[1]
         b == Head(Declines)[2]
     IN /\ {a, b} \subseteq graph
        /\ edges' = IF BlacklistEnabled THEN Disconnected(edges, a, b) ELSE edges
        /\ disallowed' = IF BlacklistEnabled THEN Disallowing(disallowed, a, b)
                         ELSE disallowed
        /\ matched' = matched \ {a, b}
  /\ inbox' = [inbox EXCEPT !.decline_pairs = Tail(@)]
  /\ UNCHANGED <<graph, mm, processed, cutShort, empty, pc, fetches, heap, found>>

\* KeyError: one of the pair is gone.  What was done for the first one stays:
\* its edge when the blacklist is on, its matched flag when it is off.
DeclineFails ==
  /\ pc = "prepare"
  /\ Returning = {}
  /\ Declines # <<>>
  /\ LET a == Head(Declines)[1]
         b == Head(Declines)[2]
     IN /\ ~({a, b} \subseteq graph)
        /\ edges' = IF BlacklistEnabled /\ a \in graph
                    THEN [edges EXCEPT ![a][b] = "none"] ELSE edges
        /\ matched' = IF BlacklistEnabled THEN matched ELSE matched \ {a}
  /\ AbandonRound
  /\ UNCHANGED <<graph, disallowed, mm, processed, cutShort, empty>>

Neighbours(u) == {v \in User : edges[u][v] # "none"}
CutFrom(S, u) ==
  [x \in User |-> IF x \in S THEN [edges[x] EXCEPT ![u] = "none"] ELSE edges[x]]
DropLeaver(u) ==
  inbox' = [inbox EXCEPT !.disconnected_users = @ \ {u}, !.new_users = Without(@, u)]

LeaverTurn_KeepsWaiting(u) ==
  /\ pc = "prepare"
  /\ Returning = {}
  /\ Declines = <<>>
  /\ u \in Leaving
  /\ empty' = empty

LeaverTurn(u) ==
  /\ pc = "prepare"
  /\ Returning = {}
  /\ Declines = <<>>
  /\ u \in Leaving
  /\ empty' = empty \ {u}

\* He came and went between two rounds.
LeaveUnknown(u) ==
  /\ LeaverTurn(u)
  /\ u \notin graph
  /\ DropLeaver(u)
  /\ UNCHANGED <<graph, edges, disallowed, mm, matched, processed, cutShort,
                 pc, fetches, heap, found>>

\* Only the users he has an edge to lose theirs; an edge towards him alone stays.
LeaveGraph(u) ==
  /\ LeaverTurn(u)
  /\ u \in graph
  /\ Neighbours(u) \subseteq graph
  /\ DropLeaver(u)
  /\ graph' = graph \ {u}
  /\ edges' = [CutFrom(Neighbours(u), u) EXCEPT ![u] = NoEdges]
  /\ disallowed' = [disallowed EXCEPT ![u] = {}]
  /\ mm' = [mm EXCEPT ![u] = NewSettings(AnyGender)]
  /\ matched' = matched \ {u}
  /\ processed' = processed \ {u}
  /\ UNCHANGED <<pc, fetches, heap, found, cutShort>>

\* KeyError: he still has an edge to a user who left before him.  The edges to
\* him that come earlier in his dict are gone, he himself stays in the graph.
LeaveFails(u) ==
  /\ LeaverTurn(u)
  /\ u \in graph
  /\ ~(Neighbours(u) \subseteq graph)
  /\ \E S \in SUBSET (Neighbours(u) \cap graph) : edges' = CutFrom(S, u)
  /\ AbandonRound
  /\ UNCHANGED <<graph, disallowed, mm, matched, processed, cutShort>>

JoinerTurn(u) ==
  /\ pc = "prepare"
  /\ Returning = {}
  /\ Declines = <<>>
  /\ Leaving = {}
  /\ u \in Joining
  /\ inbox' = [inbox EXCEPT !.new_users = Without(@, u)]
  /\ UNCHANGED <<matched, processed, cutShort, empty, pc, fetches, heap, found>>

JoinGraph(u) ==
  /\ JoinerTurn(u)
  /\ u \notin graph
  /\ graph' = graph \cup {u}
  /\ mm' = [mm EXCEPT ![u] = NewSettings(inbox.new_users[u].gender_filter)]
  /\ disallowed' = [disallowed EXCEPT ![u] = inbox.new_users[u].disallowed]
  /\ edges' = ConnectWith(edges, mm', disallowed', u, graph)

\* Logged as an error and skipped: the old vertex stays as it is.
JoinKnown(u) ==
  /\ JoinerTurn(u)
  /\ u \in graph
  /\ UNCHANGED <<graph, edges, disallowed, mm>>

Prepared == Returning = {} /\ Declines = <<>> /\ Leaving = {} /\ Joining = {}

\* One iteration of _process_empty_candidates.  conns is what /fetch_candidates
\* answers, which never contains u itself (FetchUserService.collect); it is {}
\* when the request fails, too.  The session_id the code resets when there is no
\* answer only selects what the server answers next time.
FetchCandidates(u, conns) ==
  /\ pc = "prepare"
  /\ Prepared
  /\ fetches < MaxCandidates
  /\ u \in empty
  /\ u \notin conns
  /\ empty' = empty \ {u}
  /\ fetches' = fetches + 1
  /\ edges' = IF u \in graph
              THEN ConnectWith(edges, mm, disallowed, u, conns \cap graph) ELSE edges
  /\ UNCHANGED <<graph, disallowed, mm, matched, processed, cutShort, pc, inbox, heap, found>>

-------------------------------------------------------------------------------
(* run_matchmaking_round, _generate_matches, find_match *)

StartMatching ==
  /\ pc = "prepare"
  /\ Prepared
  /\ empty = {} \/ fetches = MaxCandidates
  /\ pc' = "match"
  /\ heap' = graph \ matched
  /\ fetches' = 0
  /\ UNCHANGED <<graphVars, inbox, found>>

\* Ties are broken by the layout of the heap: any of the heaviest may come first.
Heaviest(S) ==
  {u \in S : \A v \in S : mm[v].current_weight <= mm[u].current_weight}

SkipProcessed_NotPopped(u) ==
  /\ pc = "match"
  /\ u \in heap \cap processed
  /\ UNCHANGED vars

\* A user whose vertex is processed when popped is skipped.  Popping him changes
\* nothing else, so he may be popped whatever his weight was when the heap was
\* built; the others keep their weight until they are popped.
SkipProcessed(u) ==
  /\ pc = "match"
  /\ u \in heap \cap processed
  /\ heap' = heap \ {u}
  /\ UNCHANGED <<graphVars, pc, inbox, fetches, found>>

Candidates_EvenMatched(u) ==
  {v \in graph : edges[u][v] = "both" /\ v \notin disallowed[u]}

Candidates(u) ==
  {v \in graph : edges[u][v] = "both" /\ v \notin matched /\ v \notin disallowed[u]}
PrunedEdges(u) ==
  [edges EXCEPT ![u] = [v \in User |-> IF v \in graph THEN edges[u][v] ELSE "none"]]
ResetWeight(s) == [s EXCEPT !.current_weight = 0]
Capped_NoMax(n, max) == n
Capped(n, max) == IF n > max THEN max ELSE n
SearchWider(s) ==
  [s EXCEPT !.current_weight = Capped(@ + 1, WeightCap),
            !.age_diff = Capped(@ + AgeDiffStep, MaxAgeDiff)]

HeapHead(u) ==
  /\ pc = "match"
  /\ u \in Heaviest(heap \ processed)
  /\ edges' = PrunedEdges(u)

Match(u, v) ==
  /\ HeapHead(u)
  /\ v \in Heaviest(Candidates(u))
  /\ mm' = [x \in User |-> IF x \in {u, v} THEN ResetWeight(mm[x]) ELSE mm[x]]
  /\ matched' = matched \cup {u, v}
  /\ processed' = processed \cup {u, v}
  /\ heap' = heap \ {u}
  /\ found' = <<u, v>>
  /\ pc' = "post"
  /\ UNCHANGED <<graph, disallowed, empty, inbox, fetches, cutShort>>

NoMatch(u) ==
  /\ HeapHead(u)
  /\ Candidates(u) = {}
  /\ mm' = [mm EXCEPT ![u] = SearchWider(@)]
  /\ processed' = processed \cup {u}
  /\ empty' = empty \cup {u}
  /\ heap' = heap \ {u}
  /\ UNCHANGED <<graph, disallowed, matched, pc, inbox, fetches, found, cutShort>>

MatchPosted ==
  /\ pc = "post"
  /\ pc' = "match"
  /\ found' = NoPair
  /\ UNCHANGED <<graphVars, inbox, fetches, heap>>

\* requests.post raises: the generator is dropped, so nothing resets the
\* processed flags, and the pair stays matched.
PostFails ==
  /\ PostMayFail
  /\ pc = "post"
  /\ AbandonRound
  /\ cutShort' = TRUE
  /\ UNCHANGED <<graph, edges, disallowed, mm, matched, processed, empty>>

FinishRound_KeepsProcessed ==
  /\ pc = "match"
  /\ heap = {}
  /\ AbandonRound
  /\ cutShort' = FALSE
  /\ UNCHANGED <<graph, edges, disallowed, mm, matched, processed, empty>>

FinishRound ==
  /\ pc = "match"
  /\ heap = {}
  /\ processed' = {}
  /\ AbandonRound
  /\ cutShort' = FALSE
  /\ UNCHANGED <<graph, edges, disallowed, mm, matched, empty>>

-------------------------------------------------------------------------------
\* The steps that touch nothing outside the matchmaker's own memory.
Prepare ==
  \/ \E u \in User : ReturnUser(u) \/ ReturnFails(u)
  \/ DeclinePair
  \/ DeclineFails
  \/ \E u \in User : LeaveUnknown(u) \/ LeaveGraph(u) \/ LeaveFails(u)
  \/ \E u \in User : JoinGraph(u) \/ JoinKnown(u)
  \/ \E u \in User, conns \in SUBSET User : FetchCandidates(u, conns)

Generate ==
  \/ StartMatching
  \/ \E u \in User : SkipProcessed(u)
  \/ \E u, v \in User : Match(u, v)
  \/ \E u \in User : NoMatch(u)
  \/ FinishRound

Next ==
  \/ \E data \in RoundInputs : FetchRound(data)
  \/ Prepare
  \/ Generate
  \/ MatchPosted
  \/ PostFails

Spec == Init /\ [][Next]_vars

-------------------------------------------------------------------------------
(* Properties *)

\* Type correctness.
TypeOK ==
  /\ graph \in SUBSET User
  /\ edges \in [User -> [User -> EdgeFlag]]
  /\ disallowed \in [User -> SUBSET User]
  /\ mm \in [User -> MMSettings]
  /\ matched \in SUBSET graph
  /\ processed \in SUBSET graph
  /\ empty \in SUBSET User
  /\ pc \in {"sleep", "prepare", "match", "post"}
  /\ inbox \in RoundData
  /\ fetches \in 0..MaxCandidates
  /\ heap \in SUBSET graph
  /\ found \in {NoPair} \cup (User \X User)
  /\ cutShort \in BOOLEAN

\* The strengthening the proofs use: the heap is empty outside the matching
\* phase, and a pair is pending only while it is being posted.
PhaseInv ==
  /\ pc \in {"sleep", "prepare"} => heap = {}
  /\ pc = "post" => found \in User \X User

\* What the edges of the graph are worth.  An edge of u that says "both" fits u;
\* it also fits v, unless u has been told to avoid v since, or v is gone.
EdgeInv ==
  /\ \A u \in User \ graph : edges[u] = NoEdges
  /\ \A u \in graph : edges[u][u] = "none"
  /\ \A u \in graph, v \in User : edges[u][v] = "both" =>
       /\ Fits(mm[u], u, v)
       /\ v \in disallowed[u] \/ v \notin graph \/ Fits(mm[v], v, u)

\* A user on the heap who was given to somebody else meanwhile will be skipped.
HeapInv == heap \cap matched \subseteq processed

\* Unless a failing post has left flags behind, nobody starts a round as processed,
\* and every user looked up in vain still has no candidate.
LookupInv ==
  ~cutShort =>
    /\ pc \in {"sleep", "prepare"} => processed = {}
    /\ \A u \in processed \ matched : Candidates(u) = {}
    /\ pc \in {"match", "post"} => graph \subseteq heap \cup matched \cup processed

\* find_match looks at the flag of one edge, on one side.  A pair that is posted
\* nevertheless fits both users' age windows and gender filters as they are now,
\* and the one who was served has not been told to avoid the other: no edge
\* survives a departure and a return under another filter with a wrong flag.
MutualMatch ==
  pc = "post" =>
    LET u == found[1]
        v == found[2]
    IN /\ u # v
       /\ {u, v} \subseteq graph
       /\ Fits(mm[u], u, v) /\ Fits(mm[v], v, u)
       /\ v \notin disallowed[u]

\* "this should not be possible, as I'm removing disconnected users from the
\* empty candidates set before that" (matchmaker.py:364-365): a user who is waiting
\* for candidates is in the graph, whatever exception ended which round.
EmptyInGraph == empty \subseteq graph

\* A round that runs to its end leaves no pair behind that it could have made:
\* when the heap is empty no unmatched user has a candidate.  Users are looked up
\* one after the other, so the candidates of an early one may lose theirs later.
\* The round after one whose post has failed skips those it finds processed; the
\* next makes up for it.
MaximalRound ==
  ~cutShort /\ pc = "match" /\ heap = {} =>
    \A u \in graph \ matched : Candidates(u) = {}

\* The matchmaker pairs users the way the abstract lobby allows: it takes two
\* different users who both wait, never one who is already engaged.
Lobby == INSTANCE PairingLobby WITH lobby <- graph \ matched, engaged <- matched
PairsFromLobby == Lobby!Spec

\* Every round comes to an end, with or without an exception.
RoundEnds == []<>(pc = "sleep")

===============================================================================
