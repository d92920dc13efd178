------------------------------ MODULE FetchUsers ------------------------------
(***************************************************************************)
(* Looking for users to offer (FetchUserService.collect), on behalf of one *)
(* user: the endpoint /fetch and the matchmaker's /fetch_candidates both   *)
(* answer with what it collects.  The search goes through the sets of      *)
(* online users by age, nearest ages first, one user of every age at a     *)
(* time, and widens the range of ages after each such pass.  What has been *)
(* answered and how wide the range is are remembered per session in redis, *)
(* to which every command is an await.                                     *)
(***************************************************************************)
EXTENDS Integers, FiniteSets

CONSTANTS
  User,            \* the users who may be offered
  Age,             \* Age[u]: in which of the sets by age u is, when online
  MyAge,           \* the age of the user the search is for
  Session,         \* session ids of his client, or of his vertex
  Process,         \* coroutines: each serves one request ...
  Disconnects,     \* ... or, these ones, one disconnect from the chat server
  Limit,           \* how many users a request asks for
  MinAge,          \* USER_FETCH_MINIMUM_AGE
  DefaultAgeDiff,  \* USER_FETCH_DEFAULT_AGE_DIFF
  AgeDiffStep,     \* USER_FETCH_AGE_DIFF_STEP
  MaxAgeDiff,      \* USER_FETCH_MAX_AGE_DIFF
  Unset,           \* stands for a key that does not exist
  MaxMoves         \* bound: users coming online or leaving, and blocks

ASSUME FetchUsersAssumption ==
  /\ IsFiniteSet(User)
  /\ MinAge \in Nat /\ MyAge \in Nat /\ MinAge <= MyAge
  /\ Age \in [User -> Nat]
  /\ Disconnects \subseteq Process
  /\ Limit \in Nat \ {0}
  /\ DefaultAgeDiff \in Nat /\ MaxAgeDiff \in Nat
  /\ AgeDiffStep \in Nat \ {0}
  /\ Unset \notin Nat /\ Unset \notin Session
  /\ MaxMoves \in Nat

VARIABLES
  online,    \* the sets online:...:<age>:... together
  avoided,   \* his blacklist and chat partners in redis
  response,  \* response[s]: set fetch_request:<me>:<s>, {} if there is no such key
  ageDiff,   \* ageDiff[s]: value of fetch_request_age_diff:<me>:<s>
  process,   \* process[p]: where coroutine p is in its code, and its locals
  moves,     \* number of changes to online and avoided
  given,     \* history: given[s], whom the answers in s have held since s was last forgotten
  known      \* history: known[p], whom they had held when p came in

caches == <<response, ageDiff>>
history == <<given, known>>
vars == <<online, avoided, response, ageDiff, process, moves, given, known>>

Idle == [at |-> "start", session |-> Unset, disallowed |-> {}, keys |-> {},
         cached |-> {}, diff |-> 0, first |-> 0, filled |-> {}, pool |-> {},
         left |-> {}, result |-> {}]

Init ==
  /\ online \in SUBSET User
  /\ avoided = {}
  /\ response = [s \in Session |-> {}]
  /\ ageDiff = [s \in Session |-> Unset]
  /\ process = [p \in Process |-> Idle]
  /\ moves = 0
  /\ given = [s \in Session |-> {}]
  /\ known = [p \in Process |-> {}]

-------------------------------------------------------------------------------
(* The range of ages: age+0,-1,1,-2,2 and so on, until it has 2*diff+1 of them. *)

Smaller(a, b) == IF a < b THEN a ELSE b

\* Where there is no younger age any more the range grows upwards instead.
Ages(diff) ==
  LET younger == Smaller(diff, MyAge - MinAge)
  IN (MyAge - younger)..(MyAge + 2 * diff - younger)

Distance(a) == IF a < MyAge THEN MyAge - a ELSE a - MyAge
Nearer(a, b) == Distance(a) < Distance(b) \/ (Distance(a) = Distance(b) /\ a < b)

NextOfEach_OneAge(pool) ==
  IF pool = {} THEN {{}}
  ELSE {{u} : u \in {v \in pool : \A w \in pool : ~Nearer(Age[w], Age[v])}}

\* The next user of every age; the order within a redis set is arbitrary.
NextOfEach(pool) ==
  {S \in SUBSET pool : \A u \in pool : Cardinality({v \in S : Age[v] = Age[u]}) = 1}

Nearest_All(S, n) == IF n = 0 THEN {} ELSE S

\* The n users of S that come first in the range.
Nearest(S, n) == {u \in S : Cardinality({v \in S : Nearer(Age[v], Age[u])}) < n}

\* Whom of S request r may offer.
Fresh(r, S) == S \ (r.cached \cup r.disallowed)

-------------------------------------------------------------------------------
At(p, place) == process[p].at = place
Goes(p, place) == process' = [process EXCEPT ![p].at = place]
Others == <<online, avoided, moves>>

\* Where a request has yet to read the answers of its session.
Unread == {"key", "older", "list responses", "drop responses", "drop diffs", "read response"}

\* The answers of session s are lost, but for users in kept, to whoever is yet to read them.
Forgotten(s, kept) ==
  /\ given' = [given EXCEPT ![s] = @ \cap kept]
  /\ known' = [q \in Process |-> IF process[q].session = s /\ process[q].at \in Unread
                                 THEN known[q] \cap kept ELSE known[q]]

\* A request: the endpoint reads the blacklist and the chat partners.
Request(p, s) ==
  /\ At(p, "start") /\ p \notin Disconnects
  /\ process' = [process EXCEPT ![p].at = "key", ![p].session = s, ![p].disallowed = avoided]
  /\ known' = [known EXCEPT ![p] = given[s]]
  /\ UNCHANGED <<Others, caches, given>>

\* _process_disconnect of the chat server drops the caches.
Disconnect(p) ==
  /\ At(p, "start") /\ p \in Disconnects
  /\ Goes(p, "list responses")
  /\ UNCHANGED <<Others, caches, history>>

LookForKey_Skipped(p) ==
  /\ At(p, "key")
  /\ Goes(p, "older")
  /\ UNCHANGED <<Others, caches, history>>

\* drop_obsolete_caches: "no key with current session but there is an older one"
LookForKey(p) ==
  /\ At(p, "key")
  /\ Goes(p, IF response[process[p].session] # {} THEN "read response" ELSE "older")
  /\ UNCHANGED <<Others, caches, history>>

LookForOlder(p) ==
  /\ At(p, "older")
  /\ Goes(p, IF \E s \in Session : response[s] # {} THEN "list responses" ELSE "read response")
  /\ UNCHANGED <<Others, caches, history>>

\* drop_response_cache: both kinds of keys are listed and then deleted one by one. A
\* request is not to lose what its own session remembered when it came in.
ListResponses(p) ==
  /\ At(p, "list responses")
  /\ process' = [process EXCEPT ![p].at = "drop responses",
                                ![p].keys = {s \in Session : response[s] # {}}]
  /\ UNCHANGED <<Others, caches, history>>

DropResponse(p, s) ==
  /\ At(p, "drop responses")
  /\ s \in process[p].keys
  /\ process' = [process EXCEPT ![p].keys = @ \ {s}]
  /\ response' = [response EXCEPT ![s] = {}]
  /\ Forgotten(s, IF process[p].session = s THEN known[p] ELSE {})
  /\ UNCHANGED <<Others, ageDiff>>

ListDiffs(p) ==
  /\ At(p, "drop responses")
  /\ process[p].keys = {}
  /\ process' = [process EXCEPT ![p].at = "drop diffs",
                                ![p].keys = {s \in Session : ageDiff[s] # Unset}]
  /\ UNCHANGED <<Others, caches, history>>

DropDiff(p, s) ==
  /\ At(p, "drop diffs")
  /\ s \in process[p].keys
  /\ process' = [process EXCEPT ![p].keys = @ \ {s}]
  /\ ageDiff' = [ageDiff EXCEPT ![s] = Unset]
  /\ UNCHANGED <<Others, response, history>>

Dropped(p) ==
  /\ At(p, "drop diffs")
  /\ process[p].keys = {}
  /\ Goes(p, IF process[p].session = Unset THEN "end" ELSE "read response")
  /\ UNCHANGED <<Others, caches, history>>

ReadResponse(p) ==
  LET s == process[p].session
  IN /\ At(p, "read response")
     /\ process' = [process EXCEPT ![p].at = "read diff", ![p].cached = response[s]]
     /\ UNCHANGED <<Others, caches, history>>

ReadDiff(p) ==
  LET d == ageDiff[process[p].session]
      diff == IF d = Unset THEN DefaultAgeDiff ELSE d
  IN /\ At(p, "read diff")
     /\ process' = [process EXCEPT ![p].at = IF diff > MaxAgeDiff THEN "save response" ELSE "fill",
                                   ![p].diff = diff, ![p].first = diff]
     /\ UNCHANGED <<Others, caches, history>>

\* The next age of the range that is not in the pool: its set is read.
Fill(p) ==
  LET missing == Ages(process[p].diff) \ process[p].filled
  IN /\ At(p, "fill")
     /\ missing # {}
     /\ LET a == CHOOSE x \in missing : \A y \in missing \ {x} : Nearer(x, y)
            found == {u \in online : Age[u] = a}
        IN process' = [process EXCEPT ![p].filled = @ \cup {a}, ![p].pool = @ \cup found,
                                      ![p].left = @ \cup found]
     /\ UNCHANGED <<Others, caches, history>>

\* One pass over the range; without an await.
Pass(p) ==
  LET r == process[p]
  IN /\ At(p, "fill")
     /\ Ages(r.diff) \subseteq r.filled
     /\ \E S \in NextOfEach(r.left) :
          LET fresh == Fresh(r, S)
              room == Limit - Cardinality(r.result)
              wider == r.diff + AgeDiffStep
          IN process' = [process EXCEPT ![p] =
               IF Cardinality(fresh) >= room
               THEN [r EXCEPT !.at = "save response", !.result = @ \cup Nearest(fresh, room)]
               ELSE [r EXCEPT !.at = IF wider > MaxAgeDiff THEN "save response" ELSE "fill",
                              !.diff = wider, !.left = @ \ S, !.result = @ \cup fresh]]
     /\ UNCHANGED <<Others, caches, history>>

\* add_to_response_cache, which leaves the key as it is for an empty answer.
SaveResponse(p) ==
  LET s == process[p].session
  IN /\ At(p, "save response")
     /\ Goes(p, "save diff")
     /\ response' = [response EXCEPT ![s] = @ \cup process[p].result]
     /\ given' = [given EXCEPT ![s] = @ \cup process[p].result]
     /\ UNCHANGED <<Others, ageDiff, known>>

\* save_age_difference_cache, which prolongs the life of the other key.
SaveDiff(p) ==
  /\ At(p, "save diff")
  /\ process' = [process EXCEPT ![p] = [Idle EXCEPT !.at = "end"]]
  /\ ageDiff' = [ageDiff EXCEPT ![process[p].session] = process[p].diff]
  /\ known' = [known EXCEPT ![p] = {}]
  /\ UNCHANGED <<Others, response, given>>

\* ONLINE_USER_RESPONSE_CACHE_TTL.
Expire(s) ==
  /\ response[s] # {}
  /\ response' = [response EXCEPT ![s] = {}]
  /\ Forgotten(s, {})
  /\ UNCHANGED <<Others, ageDiff, process>>

\* Other processes: somebody comes online or leaves, or has been blocked.
Moves == moves < MaxMoves /\ moves' = moves + 1

Come(u) == Moves /\ u \notin online /\ online' = online \cup {u}
           /\ UNCHANGED <<avoided, caches, process, history>>
Leave(u) == Moves /\ u \in online /\ online' = online \ {u}
            /\ UNCHANGED <<avoided, caches, process, history>>
Avoid(u) == Moves /\ u \notin avoided /\ avoided' = avoided \cup {u}
            /\ UNCHANGED <<online, caches, process, history>>

-------------------------------------------------------------------------------
Works(p) ==
  \/ LookForKey(p) \/ LookForOlder(p)
  \/ ListResponses(p) \/ ListDiffs(p) \/ Dropped(p)
  \/ \E s \in Session : DropResponse(p, s) \/ DropDiff(p, s)
  \/ ReadResponse(p) \/ ReadDiff(p) \/ Fill(p) \/ Pass(p)
  \/ SaveResponse(p) \/ SaveDiff(p)

Next ==
  \/ \E p \in Process : Works(p) \/ Disconnect(p) \/ \E s \in Session : Request(p, s)
  \/ \E s \in Session : Expire(s)
  \/ \E u \in User : Come(u) \/ Leave(u) \/ Avoid(u)

Spec == Init /\ [][Next]_vars

-------------------------------------------------------------------------------
(* Properties *)

Places == {"start", "key", "older", "list responses", "drop responses", "drop diffs",
           "read response", "read diff", "fill", "save response", "save diff", "end"}
Coroutine ==
  [at : Places, session : Session \cup {Unset}, disallowed : SUBSET User, keys : SUBSET Session,
   cached : SUBSET User, diff : Nat, first : Nat, filled : SUBSET Int, pool : SUBSET User,
   left : SUBSET User, result : SUBSET User]

\* Type correctness of the caches and of what a request knows: it collects users from
\* its pool, and never more than it was asked for.
TypeOK ==
  /\ online \in SUBSET User /\ avoided \in SUBSET User
  /\ response \in [Session -> SUBSET User]
  /\ given \in [Session -> SUBSET User] /\ known \in [Process -> SUBSET User]
  /\ ageDiff \in [Session -> Nat \cup {Unset}]
  /\ moves \in 0..MaxMoves
  /\ process \in [Process -> Coroutine]
  /\ \A p \in Process :
       /\ process[p].left \subseteq process[p].pool
       /\ process[p].result \subseteq process[p].pool
       /\ Cardinality(process[p].result) <= Limit

Answered(p) == process[p].at = "save response"

\* "Caches responses for /fetch endpoint for each user" (redis_services.py:231): a
\* request offers nobody whom the answers of its session had held when it came in,
\* unless that was lost before it read it: to the TTL, to a disconnect, to another
\* session, or to a request that had found nothing.  It never drops it itself.  (Two
\* requests at the same time may well offer the same user.)
NeverRepeated == \A p \in Process : process[p].result \cap known[p] = {}

\* The range of ages after request r has widened it n times.
Widened(r, n) == Ages(r.first + n * AgeDiffStep)

\* The number of passes in which p looked at users of age a.
Passes(p, a) ==
  Cardinality({n \in 0..MaxAgeDiff : /\ process[p].first + n * AgeDiffStep <= MaxAgeDiff
                                     /\ a \in Widened(process[p], n)})

\* What is true of "if the size of the returned list is smaller than limit, it means
\* there are no more users" (users.py:104): an answer that falls short leaves somebody
\* out only if more users of his age were online than passes went over that age.
ShortLeavesFew ==
  \A p \in Process :
    Answered(p) /\ Cardinality(process[p].result) < Limit =>
      LET r == process[p]
      IN \A u \in r.pool \ (r.cached \cup r.disallowed \cup r.result) :
           Cardinality({v \in r.pool : Age[v] = Age[u]}) > Passes(p, Age[u])

-------------------------------------------------------------------------------
(* What makes the properties inductive.                                            *)

Searching == {"fill", "save response"}

\* A coroutine serves a session unless it is a disconnect, or only starts or has
\* ended; what it has collected it has only from its search.
Staged(r) ==
  /\ r.session \in Session \/ r.at \in {"start", "list responses", "drop responses", "drop diffs", "end"}
  /\ r.at \notin Searching \cup {"save diff"} =>
       r.pool = {} /\ r.left = {} /\ r.filled = {} /\ r.result = {}

StagesInv == \A p \in Process : Staged(process[p])

\* Nobody is collected whom the cache held when it was read.
Unrepeated(r) == r.result \cap r.cached = {}

CachedInv == \A p \in Process : Unrepeated(process[p])

\* Where a request has found its session's cache, or need not drop it, and has yet to
\* read it; and where it has read it.
Reads == {"key", "read response"}
HasRead == {"read diff", "fill", "save response", "save diff"}

\* Whom p knows of has been answered in its session and is still in the cache, until p
\* has read it from there; if p drops caches the session had held nobody.
Remembered(p) ==
  /\ known[p] # {} => process[p].at \in Reads \cup HasRead
  /\ process[p].at \in Reads => known[p] \subseteq given[process[p].session]
  /\ process[p].at \in HasRead => known[p] \subseteq process[p].cached

HistoryInv ==
  /\ \A s \in Session : given[s] \subseteq response[s]
  /\ \A p \in Process : Remembered(p)

\* After n passes over users one of every age at a time, of whoever is left at least as
\* many of his age are not as there were passes over that age; those who are not left
\* have been collected, or may not be offered.
Passed(r) ==
  r.at \in Searching /\ Cardinality(r.result) < Limit =>
    /\ IF r.at = "fill" THEN r.diff <= MaxAgeDiff ELSE r.diff > MaxAgeDiff
    /\ \A u \in r.pool : Age[u] \in r.filled
    /\ r.result \cap r.left = {}
    /\ r.pool \ r.left \subseteq r.cached \cup r.disallowed \cup r.result
    /\ \E n \in 0..(MaxAgeDiff + AgeDiffStep) :
         /\ r.diff = r.first + n * AgeDiffStep
         /\ \A k \in 0..(n - 1) : Widened(r, k) \subseteq r.filled
         /\ \A u \in r.left :
              Cardinality({v \in r.pool \ r.left : Age[v] = Age[u]})
                >= Cardinality({k \in 0..(n - 1) : Age[u] \in Widened(r, k)})

\* A search goes on until it has all it was asked for.
PassesInv ==
  \A p \in Process : /\ Passed(process[p])
                     /\ process[p].at = "fill" => Cardinality(process[p].result) < Limit

===============================================================================
