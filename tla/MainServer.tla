------------------------------- MODULE MainServer -------------------------------
(***************************************************************************)
(* The main server (swipe/swipe_server): accounts, swipes and ratings, the *)
(* lists of popular users, and what connects them: profiles, which         *)
(* requests read through a cache and patch (users.py, me.py), and the      *)
(* deletion of a user, which goes through all of them without a            *)
(* transaction around it.  Photos, chats and the online sets are left out. *)
(***************************************************************************)
EXTENDS Popular

VARIABLES
  version,  \* version[a]: how often the profile of a has been patched
  profile   \* redis: the version in swipe_user:<id>, by id

profiles == <<version, profile>>
vars == <<users, owner, current, tokens, phones, logins, work, failures, scenario, swipes, rating,
          cooldown, requests, reaped, used, expired, popular, version, profile>>

Init ==
  /\ AccountsInit
  /\ SwipesInit
  /\ PopularInit
  /\ version = [a \in Account |-> 0]
  /\ profile = <<>>

Kept == <<tokens, phones, logins, fixed, swipes, rating, cooldown, reaped, used, expired>>
Lists(a) == {k \in Key : a \in Filter[k]}

-------------------------------------------------------------------------------
(* GET /users/{id} *)

Shown_Anybody(a) == a \in DOMAIN users
Shown(a) == Present(a)

\* The profile is not in the cache; if it is, that is the answer.
FetchProfile(p, a) ==
  /\ Free(p)
  /\ a \in Made /\ <<Whose(a), "show">> \in scenario
  /\ a \notin DOMAIN profile
  /\ Goes(p, [step |-> "load", of |-> a])
  /\ UNCHANGED <<tables, Kept, requests, popular, profiles>>

Keep(a, n, then) == [step |-> "keep", of |-> a, version |-> n, then |-> then]

LoadProfile(p) ==
  LET a == work[p].of
  IN /\ At(p, "load")
     /\ Goes(p, IF Shown(a) THEN Keep(a, version[a], Idle) ELSE Idle)
     /\ UNCHANGED <<tables, Kept, requests, popular, profiles>>

\* cache_user
KeepProfile(p) ==
  LET r == work[p]
  IN /\ At(p, "keep")
     /\ profile' = Put(profile, r.of, r.version)
     /\ Goes(p, r.then)
     /\ UNCHANGED <<tables, Kept, requests, popular, version>>

\* USER_MODEL_CACHE_TTL_SEC have passed.
ExpireProfile(a) ==
  /\ a \in DOMAIN profile
  /\ profile' = Without(profile, a)
  /\ UNCHANGED <<tables, Kept, work, requests, popular, version>>

-------------------------------------------------------------------------------
(* PATCH /me *)

\* A patch may end the registration.  Which lists it has rewritten depends on its
\* fields and on the place the user has had so far, if any.
PatchUser(p, a) ==
  /\ Sends(p, a, "patch")
  /\ Present(a)
  /\ \E status \in {users[a], "active"}, placed \in BOOLEAN, keys \in SUBSET Lists(a) :
       /\ users[a] = "active" => placed
       /\ Goes(p, [step |-> "patch", me |-> a, status |-> status, placed |-> placed, keys |-> keys])
  /\ UNCHANGED <<tables, Kept, popular, profiles>>

\* update_location_caches: the profile is cached, and the lists are rewritten.
RewriteTask(a, n, keys) == IF keys = {} THEN Idle ELSE Keep(a, n, Writing(keys, Idle))

\* The request caches the profile of a user who has had a place; the task follows.
AfterPatch(a, n, r) ==
  IF r.placed THEN Keep(a, n, RewriteTask(a, n, r.keys)) ELSE RewriteTask(a, n, r.keys)

\* update_user raises if the row is gone.
SavePatch(p) ==
  LET r == work[p]
  IN /\ At(p, "patch")
     /\ \/ /\ r.me \in DOMAIN users
           /\ version' = [version EXCEPT ![r.me] = @ + 1]
           /\ users' = IF r.status = "active" /\ users[r.me] = "registration"
                       THEN [users EXCEPT ![r.me] = "active"] ELSE users
           /\ Goes(p, AfterPatch(r.me, version'[r.me], r))
        \/ /\ r.me \notin DOMAIN users
           /\ Goes(p, Idle)
           /\ UNCHANGED <<version, users>>
     /\ UNCHANGED <<owner, current, Kept, requests, popular, profile>>

-------------------------------------------------------------------------------
(* DELETE /me *)

\* A user who has set no place yet is answered with an error instead.
DeleteUser(p, a) ==
  /\ Sends(p, a, "delete")
  /\ Present(a)
  /\ \E delete \in BOOLEAN : Goes(p, [step |-> "drop", me |-> a, delete |-> delete])
  /\ UNCHANGED <<tables, Kept, popular, profiles>>

\* drop_user; chats and messages follow.
DropProfile(p) ==
  LET r == work[p]
  IN /\ At(p, "drop")
     /\ profile' = Without(profile, r.me)
     /\ Goes(p, [step |-> "remove", me |-> r.me, delete |-> r.delete])
     /\ UNCHANGED <<tables, Kept, requests, popular, version>>

\* delete_user or deactivate_user, which raise if the row is gone; then the lists
\* he may be on are written anew.
RemoveUser(p) ==
  LET a == work[p].me
  IN /\ At(p, "remove")
     /\ \/ /\ a \in DOMAIN users
           /\ users' = IF work[p].delete THEN Without(users, a)
                       ELSE [users EXCEPT ![a] = "deactivated"]
           /\ Revoke(a)
           /\ Goes(p, Writing(Lists(a), Idle))
        \/ /\ a \notin DOMAIN users
           /\ Goes(p, Idle)
           /\ UNCHANGED tables
     /\ UNCHANGED <<Kept, requests, popular, profiles>>

-------------------------------------------------------------------------------
\* What a request in progress, or the cache updater, does next.
AccountStep(p) == CreateUser(p) \/ CreateAccessToken(p) \/ AnswerLogin(p) \/ CheckToken(p) \/ SaveToken(p)
SwipeStep(p) == AddSwipes(p) \/ ResetCooldown(p) \/ UseSwipe(p) \/ SaveRating(p)
ListStep(p) == (\E k \in Key : FetchPopular(p, k)) \/ ClearPopular(p) \/ PushPopular(p)
ProfileStep(p) == LoadProfile(p) \/ KeepProfile(p) \/ SavePatch(p) \/ DropProfile(p) \/ RemoveUser(p)

Goes_On(p) ==
  \/ AccountStep(p) /\ UNCHANGED <<swipeVars, popular, profiles>>
  \/ SwipeStep(p) /\ UNCHANGED <<popular, profiles>>
  \/ ListStep(p) /\ UNCHANGED profiles
  \/ ProfileStep(p)

JobStarts == PopularJob /\ UNCHANGED profiles
TokenExpires(a) == ExpireToken(a) /\ UNCHANGED <<swipeVars, popular, profiles>>
CooldownExpires(a) == ExpireCooldown(a) /\ UNCHANGED <<popular, profiles>>

LogsIn(p) ==
  /\ \E l \in Login, i \in Person : FindUser(p, l, i)
  /\ UNCHANGED <<swipeVars, popular, profiles>>

IsAuthorized(p) ==
  /\ \E a \in Account, t \in Token : Authorize(p, a, t)
  /\ UNCHANGED <<swipeVars, popular, profiles>>

AsksSwipes(p, a) ==
  /\ Reap(p, a) \/ SwipeLeft(p, a) \/ AddRating(p, a) \/ \E b \in Account : CallFeedback(p, a, b)
  /\ UNCHANGED <<popular, profiles>>

IsCutShort(p) == Fails(p) /\ UNCHANGED <<swipeVars, popular, profiles>>

Next ==
  \/ \E p \in Process : Goes_On(p) \/ IsCutShort(p)
  \/ \E p \in Request : LogsIn(p) \/ IsAuthorized(p)
  \/ \E p \in Request, a \in Account :
       AsksSwipes(p, a) \/ FetchProfile(p, a) \/ PatchUser(p, a) \/ DeleteUser(p, a)
  \/ \E a \in Account : TokenExpires(a) \/ CooldownExpires(a) \/ ExpireProfile(a)
  \/ JobStarts

Spec == Init /\ [][Next]_vars

\* Every request and every job goes on, time passes, and the cache updater runs
\* its job again and again (it is restarted when it dies).
Fairness ==
  /\ \A p \in Process : WF_vars(Goes_On(p))
  /\ WF_vars(JobStarts)
  /\ \A a \in Account : WF_vars(TokenExpires(a)) /\ WF_vars(ExpireProfile(a))

FairSpec == Spec /\ Fairness

-------------------------------------------------------------------------------
(* Properties *)

Answers == [step : {"answer"}, login : Login, owner : Person, of : Account]
Rewrites == {Idle} \cup [step : {"rank"}, keys : SUBSET Key, then : {Idle}]
Keeps(then) == [step : {"keep"}, of : Account, version : Nat, then : then]

Working(r) ==
  \/ r \in Answers \cup Rewrites
  \/ r \in [step : {"create"}, login : Login, owner : Person]
  \/ r \in [step : {"token"}, login : Login, owner : Person, of : Account, new : BOOLEAN]
  \/ \E next \in Answers :
       r = [step |-> "cooldown", owner |-> next.owner, of |-> next.of, then |-> next]
  \/ r \in [step : {"cooldown"}, me : Account, of : Account, then : {Idle}]
  \/ r \in [step : {"check", "save"}, me : Account, token : Token]
  \/ r \in [step : {"reap"}, me : Account]
  \/ r \in [step : {"swipe"}, me : Account, left : Nat]
  \/ r \in [step : {"rate"}, me : Account, of : Account, rating : Nat]
  \/ r \in [step : {"load"}, of : Account]
  \/ r \in Keeps(Rewrites) \cup Keeps(Keeps(Rewrites))
  \/ r \in [step : {"patch"}, me : Account, status : {"registration", "active"},
            placed : BOOLEAN, keys : SUBSET Key]
  \/ r \in [step : {"drop", "remove"}, me : Account, delete : BOOLEAN]
  \/ r \in [step : {"clear"}, key : Key, list : Seq(Account), then : Rewrites]
  \/ r \in [step : {"push"}, key : Key, list : Seq(Account) \ {<<>>}, then : Rewrites]

TablesOK ==
  /\ users \in [DOMAIN users -> {"registration", "active", "deactivated"}]
  /\ DOMAIN users \subseteq Account
  /\ DOMAIN owner \subseteq DOMAIN users
  /\ owner \in [DOMAIN owner -> Person]
  /\ DOMAIN current \subseteq DOMAIN owner
  /\ current \in [DOMAIN current -> Token]

SessionsOK ==
  /\ DOMAIN tokens \subseteq Account
  /\ tokens \in [DOMAIN tokens -> Token]
  /\ phones \subseteq Account \X Token
  /\ DOMAIN logins \subseteq Login
  /\ logins \in [DOMAIN logins -> Person]

WorkOK == DOMAIN work = Process /\ \A p \in Process : Working(work[p])

BalancesOK ==
  /\ {swipes, rating, reaped, used, expired, version} \subseteq [Account -> Nat]
  /\ cooldown \subseteq Account
  /\ requests \in 0..MaxRequests
  /\ failures \in 0..MaxFailures

CachesOK ==
  /\ popular \in [Key -> Seq(Account)]
  /\ DOMAIN profile \subseteq Account
  /\ profile \in [DOMAIN profile -> Nat]

\* Type correctness: tables and caches are about accounts that have been made, and
\* what a request has still to do is well-formed, whatever follows it included.
TypeOK == TablesOK /\ SessionsOK /\ WorkOK /\ BalancesOK /\ CachesOK

\* A person who waits until his login has been answered has one account at most,
\* although nothing in the table says so (models.py:186): find_user_by_auth finds
\* the account he has, in whatever state his registration is, also if his last
\* login was cut short, and it never finds two, which would lock him out for ever.
OneAccount ==
  \A a, b \in DOMAIN owner : owner[a] = owner[b] /\ owner[a] \notin Hasty => a = b

Most(a) == SwipesDefault + SwipesPerPeriod * reaped[a]

\* The balance of swipes never leaves the range its history allows, although
\* use_swipes (user_service.py:328) writes back a number it has read before: an
\* update may be lost, but nothing is paid out twice.  Of a user who sends one
\* request at a time nothing is lost at all.
SwipesAccounted ==
  \A a \in Account :
    /\ swipes[a] \in (SwipesDefault - used[a])..Most(a)
    /\ a \in Made /\ Whose(a) \notin Hasty => swipes[a] = Most(a) - used[a]

\* "Free swipes will be available in ... seconds" (swipes.py:75): the time is asked
\* for before the swipes are added and set after it.  Whoever waits for his answers
\* reaps once for every cooldown that has run out, the first of which starts before
\* he can use his account; a request that is cut short may give away one more.
ReapOncePerPeriod ==
  \A a \in Made : Whose(a) \notin Hasty => reaped[a] <= expired[a] + failures

\* "create new token and invalidate the old one" (endpoints.py:137): the cache may
\* go on with an old token, and a check that is under way may put it back, but it
\* does not stay: in the end the cache knows the token of the last login or none,
\* and none of an account that is gone, although the deletion leaves the key alone.
TokensSettle ==
  \A a \in Account : <>[](a \in DOMAIN tokens => a \in DOMAIN current /\ tokens[a] = current[a])

\* The cached profile of a user becomes the one in the database, and that of a user
\* who is gone disappears, although reads, patches and the deletion fill and drop
\* the key in any order.
ProfilesSettle ==
  \A a \in Account : <>[](a \in DOMAIN profile => Present(a) /\ profile[a] = version[a])

\* When nothing changes any more, the lists name each user once and nobody who is
\* gone, whatever the writers that overlapped have left there, and are the ranking
\* again and again; in between the job rewrites them.
PopularSettles ==
  \A k \in Key :
    /\ <>[](\A i, j \in DOMAIN popular[k] :
              popular[k][i] \in Listable(k) /\ (popular[k][i] = popular[k][j] => i = j))
    /\ []<>(popular[k] \in Rankings(k))

-------------------------------------------------------------------------------
(* What makes OneAccount and SwipesAccounted inductive *)

\* A person who waits has one login under way at most, and it makes an account only
\* while he has none.
LoginsInv ==
  /\ \A p, q \in Process :
       /\ "owner" \in DOMAIN work[p] /\ "owner" \in DOMAIN work[q]
       /\ work[p].owner = work[q].owner /\ work[p].owner \notin Hasty
       => p = q
  /\ \A p \in Process :
       At(p, "create") /\ work[p].owner \notin Hasty => Found(work[p].owner) = {}

\* Whoever may send a request has an account that has been made, and the balance
\* of the others is untouched.
MadeInv ==
  /\ DOMAIN owner \subseteq Made
  /\ \A x \in phones : x[1] \in Made
  /\ \A p \in Process :
       /\ At(p, "create") => work[p].login \in Made
       /\ "owner" \in DOMAIN work[p] /\ ~At(p, "create") => work[p].of \in Made
       /\ work[p].step \in {"reap", "swipe"} => work[p].me \in Made
  /\ \A a \in Account \ Made : swipes[a] = SwipesDefault /\ reaped[a] = 0 /\ used[a] = 0

\* What a request to swipe has read was right when it was read, and still is if its
\* user waits: he has no other request that would change it.
ReadsInv ==
  /\ \A p \in Process : At(p, "swipe") =>
       LET a == work[p].me
       IN /\ work[p].left + 1 \in (SwipesDefault - used[a])..Most(a)
          /\ Whose(a) \notin Hasty => work[p].left + 1 = swipes[a]
  /\ \A p, q \in Process :
       /\ At(p, "swipe") /\ work[q].step \in {"swipe", "reap"}
       /\ work[p].me = work[q].me /\ Whose(work[p].me) \notin Hasty
       => p = q

-------------------------------------------------------------------------------
(* What makes ReapOncePerPeriod inductive *)

LogsInTo(p, a) == "owner" \in DOMAIN work[p] /\ ~At(p, "create") /\ work[p].of = a
SendsFor(p, a) == "me" \in DOMAIN work[p] /\ work[p].me = a

\* Logins are of the people who own the accounts they are about.
OwnersInv ==
  /\ \A a \in DOMAIN owner : owner[a] = Whose(a)
  /\ \A p \in Process : At(p, "create") => work[p].owner = Whose(work[p].login)
  /\ \A p \in Process, a \in Account : LogsInTo(p, a) => work[p].owner = Whose(a)

\* An account is new until the login that makes it is answered, and nothing can be
\* asked for it before.
FirstInv ==
  \A p \in Process : "owner" \in DOMAIN work[p] /\ work[p].owner \notin Hasty =>
    /\ At(p, "create") => ~Admitted(work[p].login)
    /\ At(p, "token") /\ work[p].new => ~Admitted(work[p].of) /\ work[p].of \in DOMAIN owner
    /\ At(p, "cooldown") => ~Admitted(work[p].of)

\* Requests are of users who have been answered; one who waits reaps once at a time.
SendersInv ==
  /\ \A p \in Process : "me" \in DOMAIN work[p] =>
       Admitted(work[p].me) /\ (At(p, "cooldown") => work[p].of = work[p].me)
  /\ \A p, q \in Process, a \in Made :
       /\ Whose(a) \notin Hasty /\ SendsFor(p, a) /\ SendsFor(q, a)
       /\ work[p].step \in {"reap", "cooldown"} /\ work[q].step \in {"reap", "cooldown"}
       => p = q

\* The cooldown of an account runs, or is about to be started.
Starting(p, a) == (At(p, "cooldown") \/ (At(p, "token") /\ work[p].new)) /\ work[p].of = a
Owes(a) == a \in cooldown \/ \E p \in Process : Starting(p, a)

\* Somebody may be about to use the account.
Known(a) == a \in DOMAIN owner \/ Admitted(a) \/ \E p \in Process : LogsInTo(p, a)

\* Whenever the cooldown is over, one that has run out, or a failure, has not been
\* made use of yet; and nobody is adding swipes before it is.
PeriodsInv ==
  \A a \in Made : Whose(a) \notin Hasty =>
    /\ reaped[a] <= expired[a] + failures
    /\ Known(a) /\ ~Owes(a) => reaped[a] < expired[a] + failures
    /\ \A p \in Process : At(p, "reap") /\ work[p].me = a => ~Owes(a)

===============================================================================
