--------------------------- MODULE MainServer_proofs ---------------------------
(***************************************************************************)
(* Proofs about MainServer, for every set of people, logins and lists, any *)
(* number of requests in progress and of failures, and every scenario.     *)
(***************************************************************************)
EXTENDS MainServer, FiniteSetTheorems, TLAPS

-------------------------------------------------------------------------------
(* Lemmas about the operators *)

\* Setting a key of a dictionary adds it to the keys and its value to the values.
LEMMA PutType ==
  ASSUME NEW D, NEW V, NEW d \in [D -> V], NEW k, NEW x \in V
  PROVE  Put(d, k, x) \in [D \cup {k} -> V]
BY DEF Put

\* Dropping a key leaves the others as they are.
LEMMA WithoutType ==
  ASSUME NEW D, NEW V, NEW d \in [D -> V], NEW k
  PROVE  Without(d, k) \in [D \ {k} -> V]
BY DEF Without

\* What a request carries while it is at a step.
LEMMA Carries ==
  ASSUME NEW r, Working(r)
  PROVE  /\ r.step = "create" => r.login \in Login /\ r.owner \in Person
         /\ r.step = "token" => /\ r.login \in Login /\ r.owner \in Person
                                /\ r.of \in Account /\ r.new \in BOOLEAN
         /\ r.step = "cooldown" => r.of \in Account /\ r.then \in Answers \cup {Idle}
         /\ r.step = "answer" => r \in Answers
         /\ r.step \in {"check", "save"} => r.me \in Account /\ r.token \in Token
         /\ r.step = "reap" => r.me \in Account
         /\ r.step = "swipe" => r.me \in Account /\ r.left \in Nat
         /\ r.step = "rate" => r.me \in Account /\ r.of \in Account /\ r.rating \in Nat
         /\ r.step = "load" => r.of \in Account
         /\ r.step = "keep" => /\ r.of \in Account /\ r.version \in Nat
                               /\ r.then \in Rewrites \cup Keeps(Rewrites)
         /\ r.step = "patch" => /\ r.me \in Account /\ r.status \in {"registration", "active"}
                                /\ r.placed \in BOOLEAN /\ r.keys \in SUBSET Key
         /\ r.step \in {"drop", "remove"} => r.me \in Account /\ r.delete \in BOOLEAN
         /\ r.step = "rank" => r.keys \in SUBSET Key /\ r.then = Idle
         /\ r.step = "clear" => r.key \in Key /\ r.list \in Seq(Account) /\ r.then \in Rewrites
         /\ r.step = "push" => /\ r.key \in Key /\ r.list \in Seq(Account) /\ r.list # <<>>
                               /\ r.then \in Rewrites
BY DEF Working, Answers, Rewrites, Keeps, Idle

\* Whatever may follow a step is work of its own.
LEMMA Follows ==
  ASSUME NEW r, r \in Answers \cup Rewrites \cup Keeps(Rewrites)
  PROVE  Working(r)
BY DEF Working

\* Rewriting some lists, and then nothing, is work.
LEMMA WritingType ==
  ASSUME NEW keys \in SUBSET Key
  PROVE  Writing(keys, Idle) \in Rewrites
BY DEF Writing, Rewrites

\* The users still to be pushed, and then whatever follows, are work.
LEMMA PushingType ==
  ASSUME NEW k \in Key, NEW s \in Seq(Account), NEW then \in Rewrites
  PROVE  Working(Pushing(k, s, then))
BY Follows DEF Working, Pushing

\* Accounts are those from the start and those the logins make.
LEMMA Names == Registered \subseteq Account /\ Login \subseteq Account /\ Login \subseteq Token
BY DEF Account, Token, Name

\* A ranking is a list of accounts.
LEMMA RankingType ==
  ASSUME TablesOK, NEW k \in Key
  PROVE  Rankings(k) \subseteq Seq(Account)
<1>1. IsFiniteSet(Account)
  <2>1. IsFiniteSet(Registered)
    BY AccountsAssumption, FS_Subset
  <2>2. QED
    BY <2>1, AccountsAssumption, FS_Union DEF Account, Name
<1>2. Listable(k) \subseteq Account
  BY DEF TablesOK, Listable
<1>3. Cardinality(Listable(k)) \in Nat
  BY <1>1, <1>2, FS_Subset, FS_CardinalityType
<1>4. PopularLimit \in Nat
  BY PopularAssumption
<1>5. \A n \in Nat : [1..n -> Listable(k)] \subseteq Seq(Account)
  BY <1>2
<1>6. QED
  BY <1>3, <1>4, <1>5 DEF Rankings

\* A process that goes on to work leaves the others at theirs.
LEMMA WorkStep ==
  ASSUME WorkOK, NEW p \in Process, NEW next, Working(next), Goes(p, next)
  PROVE  WorkOK'
BY DEF WorkOK, Goes

-------------------------------------------------------------------------------
(* Type correctness *)

\* The server starts with tables and caches of the accounts there are.
LEMMA TypeInit == Init => TypeOK
<1> SUFFICES ASSUME Init PROVE TypeOK
  OBVIOUS
<1>1. TablesOK
  BY Names, AccountsAssumption DEF Init, AccountsInit, TablesOK, Token, Account
<1>2. SessionsOK
  BY Names, AccountsAssumption DEF Init, AccountsInit, SessionsOK, Token, Account
<1>3. WorkOK
  <2>1. Working(Idle)
    BY Follows DEF Rewrites
  <2>2. QED
    BY <2>1 DEF Init, AccountsInit, WorkOK
<1>4. BalancesOK
  BY AccountsAssumption, SwipesAssumption DEF Init, AccountsInit, SwipesInit, BalancesOK
<1>5. CachesOK
  <2>1. \A k \in Key : Rankings(k) \subseteq Seq(Account)
    BY <1>1, RankingType
  <2>2. QED
    BY <2>1 DEF Init, PopularInit, CachesOK
<1>6. QED
  BY <1>1, <1>2, <1>3, <1>4, <1>5 DEF TypeOK

\* The steps of logins and of the check keep the types.
LEMMA AccountStepType ==
  ASSUME TypeOK, NEW p \in Process, AccountStep(p), UNCHANGED <<swipeVars, popular, profiles>>
  PROVE  TypeOK'
<1> DEFINE r == work[p]
<1>w. Working(r)
  BY DEF TypeOK, WorkOK
<1>1. BalancesOK' /\ CachesOK'
  <2>1. failures' = failures
    BY DEF AccountStep, CreateUser, CreateAccessToken, AnswerLogin, CheckToken, SaveToken, fixed
  <2>2. QED
    BY <2>1 DEF TypeOK, BalancesOK, CachesOK, swipeVars, profiles
<1>2. CASE CreateUser(p)
  <2>1. r.login \in Login /\ r.owner \in Person
    BY <1>w, <1>2, Carries DEF CreateUser, At
  <2>2. TablesOK'
    <3>1. users' \in [DOMAIN users \cup {r.login} -> {"registration", "active", "deactivated"}]
      BY <1>2, PutType DEF TypeOK, TablesOK, CreateUser
    <3>2. owner' \in [DOMAIN owner \cup {r.login} -> Person]
      BY <1>2, <2>1, PutType DEF TypeOK, TablesOK, CreateUser
    <3>3. QED
      BY <1>2, <2>1, <3>1, <3>2, Names DEF TypeOK, TablesOK, CreateUser
  <2>3. SessionsOK'
    BY <1>2 DEF TypeOK, SessionsOK, CreateUser, sessions
  <2>4. WorkOK'
    <3>1. Working([step |-> "token", login |-> r.login, owner |-> r.owner, of |-> r.login,
                   new |-> TRUE])
      BY <2>1, Names DEF Working
    <3>2. QED
      BY <1>2, <3>1, WorkStep DEF TypeOK, CreateUser
  <2>5. QED
    BY <1>1, <2>2, <2>3, <2>4 DEF TypeOK
<1>3. CASE CreateAccessToken(p)
  <2>1. r.login \in Login /\ r.owner \in Person /\ r.of \in Account /\ r.new \in BOOLEAN
    BY <1>w, <1>3, Carries DEF CreateAccessToken, At
  <2>2. TablesOK'
    <3>1. Put(current, r.of, r.login) \in [DOMAIN current \cup {r.of} -> Token]
      BY <2>1, PutType, Names DEF TypeOK, TablesOK
    <3>2. QED
      BY <1>3, <3>1 DEF TypeOK, TablesOK, CreateAccessToken
  <2>3. SessionsOK'
    BY <1>3 DEF TypeOK, SessionsOK, CreateAccessToken, sessions
  <2>4. WorkOK'
    <3>1. [step |-> "answer", login |-> r.login, owner |-> r.owner, of |-> r.of] \in Answers
      BY <2>1 DEF Answers
    <3>2. Working(AfterToken(r))
      BY <3>1, Follows DEF AfterToken, Working
    <3>3. Working(Idle)
      BY Follows DEF Rewrites
    <3>4. QED
      BY <1>3, <3>2, <3>3, WorkStep DEF TypeOK, CreateAccessToken
  <2>5. QED
    BY <1>1, <2>2, <2>3, <2>4 DEF TypeOK
<1>4. CASE AnswerLogin(p)
  <2>1. r.login \in Login /\ r.of \in Account
    BY <1>w, <1>4, Carries DEF AnswerLogin, At, Answers
  <2>2. TablesOK'
    BY <1>4 DEF TypeOK, TablesOK, AnswerLogin, tables
  <2>3. SessionsOK'
    <3>1. tokens' \in [DOMAIN tokens \cup {r.of} -> Token]
      BY <1>4, <2>1, PutType, Names DEF TypeOK, SessionsOK, AnswerLogin
    <3>2. QED
      BY <1>4, <2>1, <3>1, Names DEF TypeOK, SessionsOK, AnswerLogin
  <2>4. WorkOK'
    BY <1>4, Follows, WorkStep DEF TypeOK, AnswerLogin, Rewrites
  <2>5. QED
    BY <1>1, <2>2, <2>3, <2>4 DEF TypeOK
<1>5. CASE CheckToken(p)
  <2>1. r.me \in Account /\ r.token \in Token
    BY <1>w, <1>5, Carries DEF CheckToken, At
  <2>2. WorkOK'
    <3>1. Working(Idle)
      BY Follows DEF Rewrites
    <3>2. Working([step |-> "save", me |-> r.me, token |-> r.token])
      BY <2>1 DEF Working
    <3>3. QED
      BY <1>5, <3>1, <3>2, WorkStep DEF TypeOK, CheckToken
  <2>3. TablesOK' /\ SessionsOK'
    BY <1>5 DEF TypeOK, TablesOK, SessionsOK, CheckToken, tables, sessions
  <2>4. QED
    BY <1>1, <2>2, <2>3 DEF TypeOK
<1>6. CASE SaveToken(p)
  <2>1. r.me \in Account /\ r.token \in Token
    BY <1>w, <1>6, Carries DEF SaveToken, At
  <2>2. TablesOK'
    BY <1>6 DEF TypeOK, TablesOK, SaveToken, tables
  <2>3. SessionsOK'
    <3>1. tokens' = Put(tokens, r.me, r.token)
      BY <1>6 DEF SaveToken
    <3>2. tokens' \in [DOMAIN tokens \cup {r.me} -> Token]
      BY <2>1, <3>1, PutType DEF TypeOK, SessionsOK
    <3>3. QED
      BY <1>6, <2>1, <3>2 DEF TypeOK, SessionsOK, SaveToken
  <2>4. WorkOK'
    BY <1>6, Follows, WorkStep DEF TypeOK, SaveToken, Rewrites
  <2>5. QED
    BY <1>1, <2>2, <2>3, <2>4 DEF TypeOK
<1>7. QED
  BY <1>2, <1>3, <1>4, <1>5, <1>6 DEF AccountStep

\* The steps of swipes and ratings keep the types.
LEMMA SwipeStepType ==
  ASSUME TypeOK, NEW p \in Process, SwipeStep(p), UNCHANGED <<popular, profiles>>
  PROVE  TypeOK'
<1> DEFINE r == work[p]
<1>w. Working(r)
  BY DEF TypeOK, WorkOK
<1>1. TablesOK' /\ SessionsOK' /\ CachesOK'
  BY DEF TypeOK, TablesOK, SessionsOK, CachesOK, SwipeStep, AddSwipes, ResetCooldown, UseSwipe,
         SaveRating, tables, sessions, profiles
<1>2. failures' = failures /\ version' = version
  BY DEF SwipeStep, AddSwipes, ResetCooldown, UseSwipe, SaveRating, fixed, profiles
<1>i. Working(Idle)
  BY Follows DEF Rewrites
<1>3. CASE AddSwipes(p)
  <2>1. r.me \in Account
    BY <1>w, <1>3, Carries DEF AddSwipes, At
  <2>2. Working(AfterReap(r.me))
    BY <2>1 DEF AfterReap, Working
  <2>3. WorkOK'
    BY <1>3, <1>i, <2>2, WorkStep DEF TypeOK, AddSwipes
  <2>4. BalancesOK'
    BY <1>2, <1>3, <2>1, SwipesAssumption DEF TypeOK, BalancesOK, AddSwipes
  <2>5. QED
    BY <1>1, <2>3, <2>4 DEF TypeOK
<1>4. CASE ResetCooldown(p)
  <2>1. r.of \in Account /\ r.then \in Answers \cup {Idle}
    BY <1>w, <1>4, Carries DEF ResetCooldown, At
  <2>2. WorkOK'
    BY <1>4, <2>1, Follows, WorkStep DEF TypeOK, ResetCooldown, Rewrites
  <2>3. BalancesOK'
    BY <1>2, <1>4, <2>1 DEF TypeOK, BalancesOK, ResetCooldown, balances, history
  <2>4. QED
    BY <1>1, <2>2, <2>3 DEF TypeOK
<1>5. CASE UseSwipe(p)
  <2>1. r.me \in Account /\ r.left \in Nat
    BY <1>w, <1>5, Carries DEF UseSwipe, At
  <2>2. WorkOK'
    BY <1>5, <1>i, WorkStep DEF TypeOK, UseSwipe
  <2>3. BalancesOK'
    BY <1>2, <1>5, <2>1 DEF TypeOK, BalancesOK, UseSwipe
  <2>4. QED
    BY <1>1, <2>2, <2>3 DEF TypeOK
<1>6. CASE SaveRating(p)
  <2>1. r.of \in Account /\ r.rating \in Nat
    BY <1>w, <1>6, Carries DEF SaveRating, At
  <2>2. WorkOK'
    BY <1>6, <1>i, WorkStep DEF TypeOK, SaveRating
  <2>3. BalancesOK'
    BY <1>2, <1>6, <2>1 DEF TypeOK, BalancesOK, SaveRating, history
  <2>4. QED
    BY <1>1, <2>2, <2>3 DEF TypeOK
<1>7. QED
  BY <1>3, <1>4, <1>5, <1>6 DEF SwipeStep

\* The steps of the writers of the lists keep the types.
LEMMA ListStepType ==
  ASSUME TypeOK, NEW p \in Process, ListStep(p), UNCHANGED profiles
  PROVE  TypeOK'
<1> DEFINE r == work[p]
<1>w. Working(r)
  BY DEF TypeOK, WorkOK
<1>1. TablesOK' /\ SessionsOK' /\ BalancesOK'
  BY DEF TypeOK, TablesOK, SessionsOK, BalancesOK, ListStep, FetchPopular, ClearPopular,
         PushPopular, tables, sessions, fixed, swipeVars, profiles
<1>2. profile' = profile
  BY DEF profiles
<1>3. ASSUME NEW k \in Key, FetchPopular(p, k) PROVE TypeOK'
  <2>1. r.keys \in SUBSET Key /\ r.then = Idle
    BY <1>w, <1>3, Carries DEF FetchPopular, At
  <2>2. WorkOK'
    <3>1. PICK s \in Rankings(k) :
            Goes(p, [step |-> "clear", key |-> k, list |-> s,
                     then |-> Writing(r.keys \ {k}, r.then)])
      BY <1>3 DEF FetchPopular
    <3>2. s \in Seq(Account)
      BY RankingType DEF TypeOK
    <3>3. Writing(r.keys \ {k}, r.then) \in Rewrites
      BY <2>1, WritingType
    <3>4. Working([step |-> "clear", key |-> k, list |-> s, then |-> Writing(r.keys \ {k}, r.then)])
      BY <3>2, <3>3 DEF Working
    <3>5. QED
      BY <3>1, <3>4, WorkStep DEF TypeOK
  <2>3. QED
    BY <1>1, <1>2, <1>3, <2>2 DEF TypeOK, CachesOK, FetchPopular
<1>4. CASE ClearPopular(p)
  <2>1. r.key \in Key /\ r.list \in Seq(Account) /\ r.then \in Rewrites
    BY <1>w, <1>4, Carries DEF ClearPopular, At
  <2>2. WorkOK'
    BY <1>4, <2>1, PushingType, WorkStep DEF TypeOK, ClearPopular
  <2>3. CachesOK'
    BY <1>2, <1>4, <2>1 DEF TypeOK, CachesOK, ClearPopular, Cleared
  <2>4. QED
    BY <1>1, <2>2, <2>3 DEF TypeOK
<1>5. CASE PushPopular(p)
  <2>1. r.key \in Key /\ r.list \in Seq(Account) /\ r.list # <<>> /\ r.then \in Rewrites
    BY <1>w, <1>5, Carries DEF PushPopular, At
  <2>2. Head(r.list) \in Account /\ Tail(r.list) \in Seq(Account)
    BY <2>1
  <2>3. WorkOK'
    BY <1>5, <2>1, <2>2, PushingType, WorkStep DEF TypeOK, PushPopular
  <2>4. CachesOK'
    BY <1>2, <1>5, <2>1, <2>2 DEF TypeOK, CachesOK, PushPopular
  <2>5. QED
    BY <1>1, <2>3, <2>4 DEF TypeOK
<1>6. QED
  BY <1>3, <1>4, <1>5 DEF ListStep

\* The steps of profiles, patches and deletions keep the types.
LEMMA ProfileStepType ==
  ASSUME TypeOK, NEW p \in Process, ProfileStep(p)
  PROVE  TypeOK'
<1> DEFINE r == work[p]
<1>w. Working(r)
  BY DEF TypeOK, WorkOK
<1>1. SessionsOK'
  BY DEF TypeOK, SessionsOK, ProfileStep, LoadProfile, KeepProfile, SavePatch, DropProfile,
         RemoveUser, Kept
<1>2. version \in [Account -> Nat] /\ (version' \in [Account -> Nat] => BalancesOK')
  BY DEF TypeOK, BalancesOK, ProfileStep, LoadProfile, KeepProfile, SavePatch, DropProfile,
         RemoveUser, Kept, fixed
<1>i. Working(Idle)
  BY Follows DEF Rewrites
<1>3. CASE LoadProfile(p)
  <2>1. r.of \in Account
    BY <1>w, <1>3, Carries DEF LoadProfile, At
  <2>2. Working(Keep(r.of, version[r.of], Idle))
    BY <1>2, <2>1, Follows DEF Keep, Keeps, Rewrites
  <2>3. WorkOK'
    BY <1>3, <1>i, <2>2, WorkStep DEF TypeOK, LoadProfile
  <2>4. QED
    BY <1>1, <1>2, <1>3, <2>3 DEF TypeOK, TablesOK, CachesOK, LoadProfile, tables, profiles
<1>4. CASE KeepProfile(p)
  <2>1. r.of \in Account /\ r.version \in Nat /\ r.then \in Rewrites \cup Keeps(Rewrites)
    BY <1>w, <1>4, Carries DEF KeepProfile, At
  <2>2. WorkOK'
    BY <1>4, <2>1, Follows, WorkStep DEF TypeOK, KeepProfile
  <2>3. CachesOK'
    <3>1. Put(profile, r.of, r.version) \in [DOMAIN profile \cup {r.of} -> Nat]
      BY <2>1, PutType DEF TypeOK, CachesOK
    <3>2. QED
      BY <1>4, <2>1, <3>1 DEF TypeOK, CachesOK, KeepProfile
  <2>4. QED
    BY <1>1, <1>2, <1>4, <2>2, <2>3 DEF TypeOK, TablesOK, KeepProfile, tables
<1>5. CASE SavePatch(p)
  <2>1. /\ r.me \in Account /\ r.status \in {"registration", "active"}
        /\ r.placed \in BOOLEAN /\ r.keys \in SUBSET Key
    BY <1>w, <1>5, Carries DEF SavePatch, At
  <2>2. version' \in [Account -> Nat]
    BY <1>2, <1>5, <2>1 DEF SavePatch
  <2>3. Working(AfterPatch(r.me, version'[r.me], r))
    <3>1. version'[r.me] \in Nat /\ Writing(r.keys, Idle) \in Rewrites /\ Idle \in Rewrites
      BY <2>1, <2>2, WritingType DEF Rewrites
    <3>2. Keep(r.me, version'[r.me], Idle) \in Keeps(Rewrites)
      BY <2>1, <3>1 DEF Keep, Keeps
    <3>3. Keep(r.me, version'[r.me], Writing(r.keys, Idle)) \in Keeps(Rewrites)
      BY <2>1, <3>1 DEF Keep, Keeps
    <3>4. Keep(r.me, version'[r.me], Keep(r.me, version'[r.me], Writing(r.keys, Idle)))
            \in Keeps(Keeps(Rewrites))
      BY <2>1, <3>1, <3>3 DEF Keep, Keeps
    <3>5. QED
      BY <3>1, <3>2, <3>3, <3>4 DEF AfterPatch, RewriteTask, Working
  <2>4. WorkOK'
    BY <1>5, <1>i, <2>3, WorkStep DEF TypeOK, SavePatch
  <2>5. TablesOK'
    BY <1>5 DEF TypeOK, TablesOK, SavePatch
  <2>6. QED
    BY <1>1, <1>2, <1>5, <2>2, <2>4, <2>5 DEF TypeOK, CachesOK, SavePatch
<1>6. CASE DropProfile(p)
  <2>1. r.me \in Account /\ r.delete \in BOOLEAN
    BY <1>w, <1>6, Carries DEF DropProfile, At
  <2>2. Working([step |-> "remove", me |-> r.me, delete |-> r.delete])
    BY <2>1 DEF Working
  <2>3. WorkOK'
    BY <1>6, <2>2, WorkStep DEF TypeOK, DropProfile
  <2>4. CachesOK'
    <3>1. Without(profile, r.me) \in [DOMAIN profile \ {r.me} -> Nat]
      BY WithoutType DEF TypeOK, CachesOK
    <3>2. QED
      BY <1>6, <3>1 DEF TypeOK, CachesOK, DropProfile
  <2>5. QED
    BY <1>1, <1>2, <1>6, <2>3, <2>4 DEF TypeOK, TablesOK, DropProfile, tables
<1>7. CASE RemoveUser(p)
  <2>1. WorkOK'
    <3>1. Lists(r.me) \in SUBSET Key
      BY DEF Lists
    <3>2. Working(Writing(Lists(r.me), Idle))
      BY <3>1, WritingType, Follows
    <3>3. QED
      BY <1>7, <1>i, <3>2, WorkStep DEF TypeOK, RemoveUser
  <2>2. TablesOK'
    <3>1. r.me \in DOMAIN users => TablesOK'
      <4>1. Without(owner, r.me) \in [DOMAIN owner \ {r.me} -> Person]
        BY WithoutType DEF TypeOK, TablesOK
      <4>2. Without(current, r.me) \in [DOMAIN current \ {r.me} -> Token]
        BY WithoutType DEF TypeOK, TablesOK
      <4>3. Without(users, r.me) \in
              [DOMAIN users \ {r.me} -> {"registration", "active", "deactivated"}]
        BY WithoutType DEF TypeOK, TablesOK
      <4>4. QED
        BY <1>7, <4>1, <4>2, <4>3 DEF TypeOK, TablesOK, RemoveUser, Revoke
    <3>2. QED
      BY <1>7, <3>1 DEF TypeOK, TablesOK, RemoveUser, tables
  <2>3. QED
    BY <1>1, <1>2, <1>7, <2>1, <2>2 DEF TypeOK, CachesOK, RemoveUser, profiles
<1>8. QED
  BY <1>3, <1>4, <1>5, <1>6, <1>7 DEF ProfileStep

\* Requests that begin, failures and the passing of time keep the types.
LEMMA BeginType ==
  ASSUME TypeOK, NEW p \in Process, LogsIn(p) \/ IsAuthorized(p) \/ IsCutShort(p)
  PROVE  TypeOK'
<1> DEFINE r == work[p]
<1>i. Working(Idle)
  BY Follows DEF Rewrites
<1>1. TablesOK' /\ CachesOK'
  BY DEF TypeOK, TablesOK, CachesOK, LogsIn, IsAuthorized, IsCutShort, FindUser, Authorize, Fails,
         tables, profiles
<1>2. ASSUME NEW l \in Login, NEW i \in Person, FindUser(p, l, i),
             UNCHANGED <<swipeVars, popular, profiles>>
      PROVE  TypeOK'
  <2>1. SessionsOK'
    <3>1. Put(logins, l, i) \in [DOMAIN logins \cup {l} -> Person]
      BY PutType DEF TypeOK, SessionsOK
    <3>2. QED
      BY <1>2, <3>1 DEF TypeOK, SessionsOK, FindUser
  <2>2. WorkOK'
    <3>1. Working([step |-> "create", login |-> l, owner |-> i])
      BY DEF Working
    <3>2. \A a \in Found(i) :
            Working([step |-> "token", login |-> l, owner |-> i, of |-> a, new |-> FALSE])
      BY DEF TypeOK, TablesOK, Found, Working
    <3>3. CASE UNCHANGED work
      BY <3>3 DEF TypeOK, WorkOK
    <3>4. CASE Goes(p, [step |-> "create", login |-> l, owner |-> i])
      BY <3>1, <3>4, WorkStep DEF TypeOK
    <3>5. ASSUME NEW a \in Found(i),
                 Goes(p, [step |-> "token", login |-> l, owner |-> i, of |-> a, new |-> FALSE])
          PROVE  WorkOK'
      BY <3>2, <3>5, WorkStep DEF TypeOK
    <3>6. QED
      BY <1>2, <3>3, <3>4, <3>5 DEF FindUser
  <2>3. BalancesOK'
    BY <1>2 DEF TypeOK, BalancesOK, FindUser, swipeVars, fixed, profiles
  <2>4. QED
    BY <1>1, <2>1, <2>2, <2>3 DEF TypeOK
<1>3. ASSUME NEW a \in Account, NEW t \in Token, Authorize(p, a, t),
             UNCHANGED <<swipeVars, popular, profiles>>
      PROVE  TypeOK'
  <2>1. Working([step |-> "check", me |-> a, token |-> t])
    BY DEF Working
  <2>2. WorkOK'
    BY <1>3, <2>1, WorkStep DEF TypeOK, Authorize
  <2>3. SessionsOK' /\ BalancesOK'
    BY <1>3 DEF TypeOK, SessionsOK, BalancesOK, Authorize, sessions, swipeVars, fixed, profiles
  <2>4. QED
    BY <1>1, <2>2, <2>3 DEF TypeOK
<1>4. CASE IsCutShort(p)
  <2>1. WorkOK'
    <3>1. At(p, "keep") => r.then \in Rewrites \cup Keeps(Rewrites)
      BY Carries DEF TypeOK, WorkOK, At
    <3>2. QED
      BY <1>4, <1>i, <3>1, Follows, WorkStep DEF TypeOK, IsCutShort, Fails
  <2>2. SessionsOK'
    BY <1>4 DEF TypeOK, SessionsOK, IsCutShort, Fails, sessions
  <2>3. BalancesOK'
    BY <1>4, AccountsAssumption DEF TypeOK, BalancesOK, IsCutShort, Fails, swipeVars, profiles
  <2>4. QED
    BY <1>1, <2>1, <2>2, <2>3 DEF TypeOK
<1>5. QED
  BY <1>2, <1>3, <1>4 DEF LogsIn, IsAuthorized

\* So do the requests that change something.
LEMMA RequestType ==
  ASSUME TypeOK, NEW p \in Request, NEW a \in Account,
         AsksSwipes(p, a) \/ FetchProfile(p, a) \/ PatchUser(p, a) \/ DeleteUser(p, a)
  PROVE  TypeOK'
<1>1. p \in Process
  BY DEF Process
<1>2. TablesOK' /\ SessionsOK' /\ CachesOK'
  BY DEF TypeOK, TablesOK, SessionsOK, CachesOK, AsksSwipes, FetchProfile, PatchUser, DeleteUser,
         Reap, SwipeLeft, AddRating, CallFeedback, tables, sessions, Kept, accountVars, profiles
<1>3. CASE Reap(p, a) /\ UNCHANGED <<popular, profiles>>
  <2>1. Working([step |-> "reap", me |-> a])
    BY DEF Working
  <2>2. WorkOK'
    BY <1>1, <1>3, <2>1, WorkStep DEF TypeOK, Reap
  <2>3. BalancesOK'
    BY <1>3, SwipesAssumption DEF TypeOK, BalancesOK, Reap, Sends, balances, history, fixed, profiles
  <2>4. QED
    BY <1>2, <2>2, <2>3 DEF TypeOK
<1>4. CASE SwipeLeft(p, a) /\ UNCHANGED <<popular, profiles>>
  <2>1. swipes[a] \in Nat /\ swipes[a] >= 1
    BY <1>4 DEF TypeOK, BalancesOK, SwipeLeft, Left
  <2>2. Working([step |-> "swipe", me |-> a, left |-> swipes[a] - 1])
    BY <2>1 DEF Working
  <2>3. WorkOK'
    BY <1>1, <1>4, <2>2, WorkStep DEF TypeOK, SwipeLeft
  <2>4. BalancesOK'
    BY <1>4, SwipesAssumption DEF TypeOK, BalancesOK, SwipeLeft, Sends, balances, history, fixed, profiles
  <2>5. QED
    BY <1>2, <2>3, <2>4 DEF TypeOK
<1>5. CASE AddRating(p, a) /\ UNCHANGED <<popular, profiles>>
  <2>1. WorkOK'
    BY <1>5 DEF TypeOK, WorkOK, AddRating, accountVars
  <2>2. BalancesOK'
    <3>1. requests' = requests + 1 /\ requests < MaxRequests
      BY <1>5 DEF AddRating, Sends
    <3>2. rating' \in [Account -> Nat]
      BY <1>5, SwipesAssumption DEF TypeOK, BalancesOK, AddRating
    <3>3. QED
      BY <1>5, <3>1, <3>2, SwipesAssumption
      DEF TypeOK, BalancesOK, AddRating, accountVars, history, profiles
  <2>3. QED
    BY <1>2, <2>1, <2>2 DEF TypeOK
<1>6. ASSUME NEW b \in Account, CallFeedback(p, a, b), UNCHANGED <<popular, profiles>>
      PROVE  TypeOK'
  <2>1. rating[b] + FeedbackDiff \in Nat /\ Lowered(rating[b]) \in Nat
    BY SwipesAssumption DEF TypeOK, BalancesOK, Lowered
  <2>2. \A n \in Nat : Working([step |-> "rate", me |-> a, of |-> b, rating |-> n])
    BY DEF Working
  <2>3. WorkOK'
    BY <1>1, <1>6, <2>1, <2>2, WorkStep DEF TypeOK, CallFeedback
  <2>4. BalancesOK'
    BY <1>6, SwipesAssumption DEF TypeOK, BalancesOK, CallFeedback, Sends, balances, history, fixed, profiles
  <2>5. QED
    BY <1>2, <2>3, <2>4 DEF TypeOK
<1>7. CASE FetchProfile(p, a)
  <2>1. Working([step |-> "load", of |-> a])
    BY DEF Working
  <2>2. WorkOK'
    BY <1>1, <1>7, <2>1, WorkStep DEF TypeOK, FetchProfile
  <2>3. BalancesOK'
    BY <1>7 DEF TypeOK, BalancesOK, FetchProfile, Kept, fixed, profiles
  <2>4. QED
    BY <1>2, <2>2, <2>3 DEF TypeOK
<1>8. CASE PatchUser(p, a)
  <2>1. PICK status \in {users[a], "active"}, placed \in BOOLEAN, keys \in SUBSET Lists(a) :
          Goes(p, [step |-> "patch", me |-> a, status |-> status, placed |-> placed, keys |-> keys])
    BY <1>8 DEF PatchUser
  <2>2. users[a] \in {"registration", "active"} /\ keys \in SUBSET Key
    BY <1>8, <2>1 DEF TypeOK, TablesOK, PatchUser, Present, Lists
  <2>3. Working([step |-> "patch", me |-> a, status |-> status, placed |-> placed, keys |-> keys])
    BY <2>1, <2>2 DEF Working
  <2>4. WorkOK'
    BY <1>1, <2>1, <2>3, WorkStep DEF TypeOK
  <2>5. BalancesOK'
    BY <1>8, SwipesAssumption DEF TypeOK, BalancesOK, PatchUser, Sends, Kept, fixed, profiles
  <2>6. QED
    BY <1>2, <2>4, <2>5 DEF TypeOK
<1>9. CASE DeleteUser(p, a)
  <2>1. \A delete \in BOOLEAN : Working([step |-> "drop", me |-> a, delete |-> delete])
    BY DEF Working
  <2>2. WorkOK'
    BY <1>1, <1>9, <2>1, WorkStep DEF TypeOK, DeleteUser
  <2>3. BalancesOK'
    BY <1>9, SwipesAssumption DEF TypeOK, BalancesOK, DeleteUser, Sends, Kept, fixed, profiles
  <2>4. QED
    BY <1>2, <2>2, <2>3 DEF TypeOK
<1>10. QED
  BY <1>3, <1>4, <1>5, <1>6, <1>7, <1>8, <1>9 DEF AsksSwipes

\* Every step, of whichever process, keeps the types.
LEMMA TypeStep == TypeOK /\ [Next]_vars => TypeOK'
<1> SUFFICES ASSUME TypeOK, [Next]_vars PROVE TypeOK'
  OBVIOUS
<1>1. ASSUME NEW p \in Process, Goes_On(p) PROVE TypeOK'
  BY <1>1, AccountStepType, SwipeStepType, ListStepType, ProfileStepType DEF Goes_On
<1>2. ASSUME NEW p \in Process, IsCutShort(p) \/ LogsIn(p) \/ IsAuthorized(p) PROVE TypeOK'
  BY <1>2, BeginType
<1>3. ASSUME NEW p \in Request, NEW a \in Account,
             AsksSwipes(p, a) \/ FetchProfile(p, a) \/ PatchUser(p, a) \/ DeleteUser(p, a)
      PROVE  TypeOK'
  BY <1>3, RequestType
<1>4. ASSUME NEW a \in Account, TokenExpires(a) PROVE TypeOK'
  <2>1. Without(tokens, a) \in [DOMAIN tokens \ {a} -> Token]
    BY WithoutType DEF TypeOK, SessionsOK
  <2>2. SessionsOK'
    BY <1>4, <2>1 DEF TypeOK, SessionsOK, TokenExpires, ExpireToken
  <2>3. QED
    BY <1>4, <2>2 DEF TypeOK, TablesOK, WorkOK, BalancesOK, CachesOK, TokenExpires, ExpireToken,
                      tables, fixed, swipeVars, profiles
<1>5. ASSUME NEW a \in Account, CooldownExpires(a) PROVE TypeOK'
  <2>1. BalancesOK'
    BY <1>5 DEF TypeOK, BalancesOK, CooldownExpires, ExpireCooldown, accountVars, balances, profiles
  <2>2. QED
    BY <1>5, <2>1 DEF TypeOK, TablesOK, SessionsOK, WorkOK, CachesOK, CooldownExpires,
                      ExpireCooldown, accountVars, profiles
<1>6. ASSUME NEW a \in Account, ExpireProfile(a) PROVE TypeOK'
  <2>1. Without(profile, a) \in [DOMAIN profile \ {a} -> Nat]
    BY WithoutType DEF TypeOK, CachesOK
  <2>2. CachesOK'
    BY <1>6, <2>1 DEF TypeOK, CachesOK, ExpireProfile
  <2>3. QED
    BY <1>6, <2>2 DEF TypeOK, TablesOK, SessionsOK, WorkOK, BalancesOK, ExpireProfile, tables, Kept,
                      fixed
<1>7. CASE JobStarts
  <2>1. Working(Writing(Key, Idle)) /\ Updater \in Process
    BY WritingType, Follows DEF Process
  <2>2. WorkOK'
    BY <1>7, <2>1, WorkStep DEF TypeOK, JobStarts, PopularJob
  <2>3. QED
    BY <1>7, <2>2 DEF TypeOK, TablesOK, SessionsOK, BalancesOK, CachesOK, JobStarts, PopularJob,
                      tables, sessions, fixed, swipeVars, profiles
<1>8. CASE UNCHANGED vars
  BY <1>8 DEF vars, TypeOK, TablesOK, SessionsOK, WorkOK, BalancesOK, CachesOK
<1>9. QED
  BY <1>1, <1>2, <1>3, <1>4, <1>5, <1>6, <1>7, <1>8 DEF Next, Process

\* Whatever requests do between each other's steps, and wherever they are cut short,
\* tables, caches and requests keep their types; a token is only ever set for an
\* account somebody owns, and an account that is owned exists.
THEOREM TypeCorrect == Spec => []TypeOK
<1>1. Init => TypeOK
  BY TypeInit
<1>2. TypeOK /\ [Next]_vars => TypeOK'
  BY TypeStep
<1>3. QED
  BY <1>1, <1>2, PTL DEF Spec

-------------------------------------------------------------------------------
(* Steps that matter to accounts and balances, and those that do not *)

\* Work that is no part of a login and does not touch a balance.
Other(r) == "owner" \notin DOMAIN r /\ r.step \notin {"reap", "swipe"}

\* A step that makes no account, starts no login and leaves the balances alone.
Plain ==
  /\ UNCHANGED <<phones, logins, swipes, reaped, used>>
  /\ DOMAIN owner' \subseteq DOMAIN owner
  /\ \A a \in DOMAIN owner' : owner'[a] = owner[a]
  /\ \A q \in Process : work'[q] = work[q] \/ Other(work'[q])

\* A process that goes on to work that is no login leaves the others as they are.
LEMMA OtherGoes ==
  ASSUME WorkOK, NEW p \in Process, NEW next, Goes(p, next), Other(next)
  PROVE  \A q \in Process : work'[q] = work[q] \/ Other(work'[q])
BY DEF WorkOK, Goes

\* What is rewritten or cached belongs to no login.
LEMMA OtherWork ==
  /\ \A r \in Rewrites \cup Keeps(Rewrites) : Other(r)
  /\ \A k, s, then : then \in Rewrites => Other(Pushing(k, s, then))
  /\ \A a, n, then : Other(Keep(a, n, then))
<1>1. \A r \in Rewrites \cup Keeps(Rewrites) : Other(r)
  BY DEF Rewrites, Keeps, Idle, Other
<1>2. \A a, n, then : Other(Keep(a, n, then))
  BY DEF Keep, Other
<1>3. \A k, s, then : Other([step |-> "push", key |-> k, list |-> s, then |-> then])
  BY DEF Other
<1>4. QED
  BY <1>1, <1>2, <1>3 DEF Pushing

\* Which work of a login carries its owner.
LEMMA Owners ==
  ASSUME NEW r, Working(r)
  PROVE  /\ "owner" \in DOMAIN r => r.step \in {"create", "token", "cooldown", "answer"}
         /\ r.step \in {"create", "token", "answer"} => "owner" \in DOMAIN r
         /\ r.step = "cooldown" =>
              \/ Other(r) /\ r.then = Idle
              \/ /\ "owner" \in DOMAIN r
                 /\ r.then \in Answers /\ r.owner = r.then.owner /\ r.of = r.then.of
BY DEF Working, Answers, Rewrites, Keeps, Idle, Other

\* The steps of the lists and of the profiles are plain.
LEMMA PlainWork ==
  ASSUME TypeOK, NEW p \in Process,
         \/ CheckToken(p) /\ UNCHANGED swipeVars
         \/ SaveToken(p) /\ UNCHANGED swipeVars
         \/ SaveRating(p)
         \/ ListStep(p)
         \/ ProfileStep(p)
         \/ IsCutShort(p)
  PROVE  Plain
<1> DEFINE r == work[p]
<1>w. Working(r)
  BY DEF TypeOK, WorkOK
<1>i. Other(Idle)
  BY OtherWork DEF Rewrites
<1>1. CASE CheckToken(p) /\ UNCHANGED swipeVars
  <2>1. Other([step |-> "save", me |-> r.me, token |-> r.token])
    BY DEF Other
  <2>2. QED
    BY <1>1, <1>i, <2>1, OtherGoes DEF TypeOK, CheckToken, Plain, tables, sessions, swipeVars
<1>2. CASE SaveToken(p) /\ UNCHANGED swipeVars
  BY <1>2, <1>i, OtherGoes DEF TypeOK, SaveToken, Plain, tables, swipeVars
<1>3. CASE SaveRating(p)
  BY <1>3, <1>i, OtherGoes DEF TypeOK, SaveRating, Plain, tables, sessions, history
<1>4. ASSUME NEW k \in Key, FetchPopular(p, k) PROVE Plain
  <2>1. \A s : Other([step |-> "clear", key |-> k, list |-> s, then |-> Writing(r.keys \ {k}, r.then)])
    BY DEF Other
  <2>2. QED
    BY <1>4, <2>1, OtherGoes DEF TypeOK, FetchPopular, Plain, tables, sessions, swipeVars
<1>5. CASE ClearPopular(p) \/ PushPopular(p)
  <2>1. r.then \in Rewrites
    BY <1>w, <1>5, Carries DEF ClearPopular, PushPopular, At
  <2>2. QED
    BY <1>5, <2>1, OtherWork, OtherGoes
    DEF TypeOK, ClearPopular, PushPopular, Plain, tables, sessions, swipeVars
<1>6. CASE LoadProfile(p)
  BY <1>6, <1>i, OtherWork, OtherGoes DEF TypeOK, LoadProfile, Plain, tables, Kept
<1>7. CASE KeepProfile(p)
  <2>1. r.then \in Rewrites \cup Keeps(Rewrites)
    BY <1>w, <1>7, Carries DEF KeepProfile, At
  <2>2. QED
    BY <1>7, <2>1, OtherWork, OtherGoes DEF TypeOK, KeepProfile, Plain, tables, Kept
<1>8. CASE SavePatch(p)
  <2>1. \A n : Other(AfterPatch(r.me, n, r))
    BY <1>i, OtherWork DEF AfterPatch, RewriteTask
  <2>2. QED
    BY <1>8, <1>i, <2>1, OtherGoes DEF TypeOK, SavePatch, Plain, Kept
<1>9. CASE DropProfile(p)
  <2>1. Other([step |-> "remove", me |-> r.me, delete |-> r.delete])
    BY DEF Other
  <2>2. QED
    BY <1>9, <2>1, OtherGoes DEF TypeOK, DropProfile, Plain, tables, Kept
<1>10. CASE RemoveUser(p)
  <2>1. Other(Writing(Lists(r.me), Idle))
    BY WritingType, OtherWork DEF Lists
  <2>2. DOMAIN owner' \subseteq DOMAIN owner /\ \A a \in DOMAIN owner' : owner'[a] = owner[a]
    BY <1>10 DEF RemoveUser, Revoke, Without, tables
  <2>3. QED
    BY <1>10, <1>i, <2>1, <2>2, OtherGoes DEF TypeOK, RemoveUser, Plain, Kept
<1>11. CASE IsCutShort(p)
  <2>1. At(p, "keep") => Other(r.then)
    BY <1>w, Carries, OtherWork DEF At
  <2>2. QED
    BY <1>11, <1>i, <2>1, OtherGoes
    DEF TypeOK, IsCutShort, Fails, Plain, tables, sessions, swipeVars
<1>12. QED
  BY <1>1, <1>2, <1>3, <1>4, <1>5, <1>6, <1>7, <1>8, <1>9, <1>10, <1>11
  DEF ListStep, ProfileStep

\* So are most requests that begin.
LEMMA PlainRequest ==
  ASSUME TypeOK, NEW p \in Request, NEW a \in Account,
         \/ \E t \in Token : Authorize(p, a, t) /\ UNCHANGED swipeVars
         \/ AddRating(p, a)
         \/ \E b \in Account : CallFeedback(p, a, b)
         \/ FetchProfile(p, a)
         \/ PatchUser(p, a)
         \/ DeleteUser(p, a)
  PROVE  Plain
<1>p. p \in Process
  BY DEF Process
<1>1. ASSUME NEW t \in Token, Authorize(p, a, t), UNCHANGED swipeVars PROVE Plain
  <2>1. Other([step |-> "check", me |-> a, token |-> t])
    BY DEF Other
  <2>2. QED
    BY <1>p, <1>1, <2>1, OtherGoes DEF TypeOK, Authorize, Plain, tables, sessions, swipeVars
<1>2. CASE AddRating(p, a)
  BY <1>2 DEF AddRating, Plain, accountVars, history
<1>3. ASSUME NEW b \in Account, CallFeedback(p, a, b) PROVE Plain
  <2>1. \A n : Other([step |-> "rate", me |-> a, of |-> b, rating |-> n])
    BY DEF Other
  <2>2. QED
    BY <1>p, <1>3, <2>1, OtherGoes
    DEF TypeOK, CallFeedback, Plain, tables, sessions, balances, history
<1>4. CASE FetchProfile(p, a)
  <2>1. Other([step |-> "load", of |-> a])
    BY DEF Other
  <2>2. QED
    BY <1>p, <1>4, <2>1, OtherGoes DEF TypeOK, FetchProfile, Plain, tables, Kept
<1>5. CASE PatchUser(p, a)
  <2>1. \A s, b, keys :
          Other([step |-> "patch", me |-> a, status |-> s, placed |-> b, keys |-> keys])
    BY DEF Other
  <2>2. QED
    BY <1>p, <1>5, <2>1, OtherGoes DEF TypeOK, PatchUser, Plain, tables, Kept
<1>6. CASE DeleteUser(p, a)
  <2>1. \A b : Other([step |-> "drop", me |-> a, delete |-> b])
    BY DEF Other
  <2>2. QED
    BY <1>p, <1>6, <2>1, OtherGoes DEF TypeOK, DeleteUser, Plain, tables, Kept
<1>7. QED
  BY <1>1, <1>2, <1>3, <1>4, <1>5, <1>6

\* Every step is plain or one of nine.
LEMMA Steps ==
  ASSUME TypeOK, [Next]_vars
  PROVE  \/ Plain
         \/ \E p \in Request, l \in Login, i \in Person :
              FindUser(p, l, i) /\ UNCHANGED swipeVars
         \/ \E p \in Process :
              (CreateUser(p) \/ CreateAccessToken(p) \/ AnswerLogin(p)) /\ UNCHANGED swipeVars
         \/ \E p \in Process : AddSwipes(p) \/ ResetCooldown(p) \/ UseSwipe(p)
         \/ \E p \in Request, a \in Account : Reap(p, a) \/ SwipeLeft(p, a)
<1>1. CASE \E p \in Process : Goes_On(p) \/ IsCutShort(p)
  BY <1>1, PlainWork DEF Goes_On, AccountStep, SwipeStep
<1>2. CASE \E p \in Request : LogsIn(p) \/ IsAuthorized(p)
  BY <1>2, PlainRequest DEF LogsIn, IsAuthorized
<1>3. CASE \E p \in Request, a \in Account :
             AsksSwipes(p, a) \/ FetchProfile(p, a) \/ PatchUser(p, a) \/ DeleteUser(p, a)
  BY <1>3, PlainRequest DEF AsksSwipes
<1>4. CASE \E a \in Account : TokenExpires(a) \/ CooldownExpires(a) \/ ExpireProfile(a)
  BY <1>4 DEF TokenExpires, ExpireToken, CooldownExpires, ExpireCooldown, ExpireProfile, Plain,
              tables, swipeVars, accountVars, balances, Kept
<1>5. CASE JobStarts
  <2>1. Updater \in Process /\ Other(Writing(Key, Idle))
    BY WritingType, OtherWork DEF Process
  <2>2. QED
    BY <1>5, <2>1, OtherGoes DEF TypeOK, JobStarts, PopularJob, Plain, tables, sessions, swipeVars
<1>6. CASE UNCHANGED vars
  BY <1>6 DEF vars, Plain
<1>7. QED
  BY <1>1, <1>2, <1>3, <1>4, <1>5, <1>6 DEF Next

-------------------------------------------------------------------------------
(* One account for everybody who waits *)

\* At the start everybody owns one account at most, and no login is under way.
LEMMA LoginsInit == Init => LoginsInv /\ OneAccount
<1> SUFFICES ASSUME Init PROVE LoginsInv /\ OneAccount
  OBVIOUS
<1>1. \A p \in Process : work[p] = Idle
  BY DEF Init, AccountsInit
<1>2. QED
  BY <1>1 DEF Init, AccountsInit, LoginsInv, OneAccount, Idle, At

\* A step that starts no login and makes no account can only end a login or take
\* an account away.
LEMMA LoginsQuiet ==
  ASSUME LoginsInv, OneAccount,
         DOMAIN owner' \subseteq DOMAIN owner,
         \A a \in DOMAIN owner' : owner'[a] = owner[a],
         \A q \in Process :
           \/ work'[q] = work[q]
           \/ "owner" \notin DOMAIN work'[q]
           \/ /\ "owner" \in DOMAIN work[q] /\ work'[q].owner = work[q].owner
              /\ work'[q].step # "create",
         \A q \in Process : work'[q].step = "create" => "owner" \in DOMAIN work'[q]
  PROVE  LoginsInv' /\ OneAccount'
<1>1. OneAccount'
  BY DEF OneAccount
<1>2. \A q \in Process : "owner" \in DOMAIN work'[q] =>
        "owner" \in DOMAIN work[q] /\ work'[q].owner = work[q].owner
  OBVIOUS
<1>3. \A q \in Process : work'[q].step = "create" => work'[q] = work[q]
  OBVIOUS
<1>4. \A i : Found(i) = {} => Found(i)' = {}
  BY DEF Found
<1>5. LoginsInv'
  BY <1>2, <1>3, <1>4 DEF LoginsInv, At
<1>6. QED
  BY <1>1, <1>5

\* Every step keeps one login under way, and one account, of each person who waits.
LEMMA LoginsStep == TypeOK /\ LoginsInv /\ OneAccount /\ [Next]_vars => LoginsInv' /\ OneAccount'
<1> SUFFICES ASSUME TypeOK, LoginsInv, OneAccount, [Next]_vars PROVE LoginsInv' /\ OneAccount'
  OBVIOUS
<1>w. \A q \in Process : Working(work[q]) /\ Working(work'[q])
  BY TypeStep DEF TypeOK, WorkOK
<1>c. \A q \in Process : work'[q].step = "create" => "owner" \in DOMAIN work'[q]
  BY <1>w, Owners
<1>d. DOMAIN work = Process
  BY DEF TypeOK, WorkOK
<1>1. CASE Plain
  BY <1>1, <1>c, LoginsQuiet DEF Plain, Other
<1>2. ASSUME NEW p \in Request, NEW l \in Login, NEW i \in Person, FindUser(p, l, i)
      PROVE  LoginsInv' /\ OneAccount'
  <2>1. p \in Process
    BY DEF Process
  <2>2. owner' = owner
    BY <1>2 DEF FindUser, tables
  <2>3. OneAccount'
    BY <2>2 DEF OneAccount
  <2>4. \A q \in Process \ {p} : work'[q] = work[q]
    BY <1>2, <1>d, <2>1 DEF FindUser, Goes
  <2>5. \/ work'[p] = work[p]
        \/ /\ "owner" \in DOMAIN work'[p] /\ work'[p].owner = i
           /\ work'[p].step = "create" => Found(i) = {}
    BY <1>2, <1>d, <2>1 DEF FindUser, Goes
  <2>6. i \notin Hasty => \A q \in Process : "owner" \in DOMAIN work[q] => work[q].owner # i
    BY <1>2 DEF FindUser, LoggingIn, LoginsInv
  <2>7. LoginsInv'
    <3>1. ASSUME NEW q1 \in Process, NEW q2 \in Process,
                 "owner" \in DOMAIN work'[q1], "owner" \in DOMAIN work'[q2],
                 work'[q1].owner = work'[q2].owner, work'[q1].owner \notin Hasty
          PROVE  q1 = q2
      BY <2>4, <2>5, <2>6, <3>1 DEF LoginsInv
    <3>2. ASSUME NEW q \in Process, work'[q].step = "create", work'[q].owner \notin Hasty
          PROVE  {a \in DOMAIN owner' : owner'[a] = work'[q].owner} = {}
      BY <2>2, <2>4, <2>5, <3>2 DEF LoginsInv, At, Found
    <3>3. QED
      BY <3>1, <3>2 DEF LoginsInv, At, Found
  <2>8. QED
    BY <2>3, <2>7
<1>3. ASSUME NEW p \in Process, CreateUser(p) PROVE LoginsInv' /\ OneAccount'
  <2> DEFINE r == work[p]
  <2>1. "owner" \in DOMAIN r /\ r.step = "create"
    BY <1>3, <1>w, Owners DEF CreateUser, At
  <2>2. \A q \in Process \ {p} : work'[q] = work[q]
    BY <1>3, <1>d DEF CreateUser, Goes
  <2>3. "owner" \in DOMAIN work'[p] /\ work'[p].owner = r.owner /\ work'[p].step = "token"
    BY <1>3, <1>d DEF CreateUser, Goes
  <2>4. /\ DOMAIN owner' = DOMAIN owner \cup {r.login}
        /\ \A a \in DOMAIN owner' : owner'[a] = IF a = r.login THEN r.owner ELSE owner[a]
    BY <1>3 DEF CreateUser, Put
  <2>5. r.owner \notin Hasty => \A a \in DOMAIN owner : owner[a] # r.owner
    BY <2>1 DEF LoginsInv, At, Found
  <2>6. OneAccount'
    BY <2>4, <2>5 DEF OneAccount
  <2>7. LoginsInv'
    <3>1. \A q \in Process : "owner" \in DOMAIN work'[q] =>
            "owner" \in DOMAIN work[q] /\ work'[q].owner = work[q].owner
      BY <2>1, <2>2, <2>3
    <3>2. ASSUME NEW q \in Process, work'[q].step = "create", work'[q].owner \notin Hasty
          PROVE  {a \in DOMAIN owner' : owner'[a] = work'[q].owner} = {}
      <4>1. q # p /\ work'[q] = work[q] /\ "owner" \in DOMAIN work[q]
        BY <1>w, <2>2, <2>3, <3>2, Owners
      <4>2. work[q].owner # r.owner
        BY <2>1, <3>2, <4>1 DEF LoginsInv
      <4>3. \A a \in DOMAIN owner : owner[a] # work[q].owner
        BY <3>2, <4>1 DEF LoginsInv, At, Found
      <4>4. QED
        BY <2>4, <4>1, <4>2, <4>3
    <3>3. QED
      BY <3>1, <3>2 DEF LoginsInv, At, Found
  <2>8. QED
    BY <2>6, <2>7
<1>4. ASSUME NEW p \in Process, CreateAccessToken(p) \/ AnswerLogin(p)
      PROVE  LoginsInv' /\ OneAccount'
  <2>1. owner' = owner
    BY <1>4 DEF CreateAccessToken, AnswerLogin, tables
  <2>2. \A q \in Process \ {p} : work'[q] = work[q]
    BY <1>4, <1>d DEF CreateAccessToken, AnswerLogin, Goes
  <2>3. \/ "owner" \notin DOMAIN work'[p]
        \/ /\ "owner" \in DOMAIN work[p] /\ work'[p].owner = work[p].owner
           /\ work'[p].step # "create"
    BY <1>4, <1>d, <1>w, Owners DEF CreateAccessToken, AnswerLogin, At, Goes, AfterToken, Idle
  <2>4. QED
    BY <1>c, <2>1, <2>2, <2>3, LoginsQuiet
<1>5. ASSUME NEW p \in Process, AddSwipes(p) \/ ResetCooldown(p) \/ UseSwipe(p)
      PROVE  LoginsInv' /\ OneAccount'
  <2>1. owner' = owner
    BY <1>5 DEF AddSwipes, ResetCooldown, UseSwipe, tables
  <2>2. \A q \in Process \ {p} : work'[q] = work[q]
    BY <1>5, <1>d DEF AddSwipes, ResetCooldown, UseSwipe, Goes
  <2>3. \/ "owner" \notin DOMAIN work'[p]
        \/ /\ "owner" \in DOMAIN work[p] /\ work'[p].owner = work[p].owner
           /\ work'[p].step # "create"
    <3>1. CASE AddSwipes(p) \/ UseSwipe(p)
      BY <1>d, <3>1 DEF AddSwipes, UseSwipe, Goes, AfterReap, Idle
    <3>2. CASE ResetCooldown(p)
      BY <1>d, <1>w, <3>2, Owners DEF ResetCooldown, At, Goes, Idle, Answers
    <3>3. QED
      BY <1>5, <3>1, <3>2
  <2>4. QED
    BY <1>c, <2>1, <2>2, <2>3, LoginsQuiet
<1>6. ASSUME NEW p \in Request, NEW a \in Account, Reap(p, a) \/ SwipeLeft(p, a)
      PROVE  LoginsInv' /\ OneAccount'
  <2>1. owner' = owner
    BY <1>6 DEF Reap, SwipeLeft, tables
  <2>2. \A q \in Process : work'[q] = work[q] \/ "owner" \notin DOMAIN work'[q]
    BY <1>6, <1>d DEF Reap, SwipeLeft, Goes
  <2>3. QED
    BY <1>c, <2>1, <2>2, LoginsQuiet
<1>7. QED
  BY <1>1, <1>2, <1>3, <1>4, <1>5, <1>6, Steps

\* Two logins of one person never make him two accounts, unless he sends the second
\* before the first is answered, wherever earlier logins have been cut short.
THEOREM OneAccountEach == Spec => []OneAccount
<1>1. Init => TypeOK /\ LoginsInv /\ OneAccount
  BY TypeInit, LoginsInit
<1>2. TypeOK /\ LoginsInv /\ OneAccount /\ [Next]_vars => (TypeOK /\ LoginsInv /\ OneAccount)'
  BY TypeStep, LoginsStep
<1>3. QED
  BY <1>1, <1>2, PTL DEF Spec

-------------------------------------------------------------------------------
(* Balances *)

\* An account that has been made stays made, and its person's.
LEMMA MadeGrows ==
  ASSUME TypeOK, [Next]_vars
  PROVE  Made \subseteq Made' /\ \A a \in Made : Whose(a)' = Whose(a)
<1>1. \/ logins' = logins
      \/ \E p \in Request, l \in Login, i \in Person : FindUser(p, l, i)
  BY Steps DEF Plain, CreateUser, CreateAccessToken, AnswerLogin, AddSwipes, ResetCooldown, UseSwipe,
               Reap, SwipeLeft, sessions
<1>2. ASSUME NEW p \in Request, NEW l \in Login, NEW i \in Person, FindUser(p, l, i)
      PROVE  Made \subseteq Made' /\ \A a \in Made : Whose(a)' = Whose(a)
  <2>1. l \notin DOMAIN logins /\ logins' = Put(logins, l, i)
    BY <1>2 DEF FindUser
  <2>2. QED
    BY <2>1 DEF Made, Whose, Put
<1>3. QED
  BY <1>1, <1>2 DEF Made, Whose

\* Every step keeps the balances of accounts that have not been made untouched, and
\* lets nobody send a request for one of them.
LEMMA MadeStep == TypeOK /\ MadeInv /\ [Next]_vars => MadeInv'
<1> SUFFICES ASSUME TypeOK, MadeInv, [Next]_vars PROVE MadeInv'
  OBVIOUS
<1>w. \A q \in Process : Working(work[q]) /\ Working(work'[q])
  BY TypeStep DEF TypeOK, WorkOK
<1>d. DOMAIN work = Process
  BY DEF TypeOK, WorkOK
<1>g. Made \subseteq Made'
  BY MadeGrows
<1>t. TypeOK'
  BY TypeStep
<1> DEFINE
  Right(q) ==
    /\ work'[q].step = "create" => work'[q].login \in Made'
    /\ "owner" \in DOMAIN work'[q] /\ work'[q].step # "create" => work'[q].of \in Made'
    /\ work'[q].step \in {"reap", "swipe"} => work'[q].me \in Made'
<1>k. \A q \in Process : work'[q] = work[q] => Right(q)
  BY <1>g DEF MadeInv, At
<1>o. \A q \in Process : Other(work'[q]) => Right(q)
  BY <1>w, Owners DEF Other
<1>b. ASSUME UNCHANGED <<swipes, reaped, used>>
      PROVE  \A a \in Account \ Made' : swipes'[a] = SwipesDefault /\ reaped'[a] = 0 /\ used'[a] = 0
  BY <1>g, <1>b DEF MadeInv
<1>f. ASSUME DOMAIN owner' \subseteq Made', \A x \in phones' : x[1] \in Made',
             \A q \in Process : Right(q),
             \A a \in Account \ Made' : swipes'[a] = SwipesDefault /\ reaped'[a] = 0 /\ used'[a] = 0
      PROVE  MadeInv'
  BY <1>f DEF MadeInv, At
<1> HIDE DEF Right
<1>1. CASE Plain
  BY <1>1, <1>g, <1>k, <1>o, <1>b, <1>f DEF Plain, MadeInv
<1>2. ASSUME NEW p \in Request, NEW l \in Login, NEW i \in Person,
             FindUser(p, l, i), UNCHANGED swipeVars
      PROVE  MadeInv'
  <2>1. p \in Process
    BY DEF Process
  <2>2. l \in Made'
    BY <1>2 DEF FindUser, Put, Made
  <2>3. Right(p)
    BY <1>2, <1>d, <1>g, <1>k, <2>1, <2>2 DEF FindUser, Goes, Found, MadeInv, Right
  <2>4. \A q \in Process \ {p} : work'[q] = work[q]
    BY <1>2, <1>d DEF FindUser, Goes
  <2>5. QED
    BY <1>2, <1>g, <1>k, <1>b, <1>f, <2>3, <2>4 DEF FindUser, MadeInv, tables, swipeVars
<1>3. ASSUME NEW p \in Process, CreateUser(p), UNCHANGED swipeVars PROVE MadeInv'
  <2>1. work[p].login \in Made
    BY <1>3 DEF CreateUser, MadeInv
  <2>2. Right(p)
    BY <1>3, <1>d, <1>g, <2>1 DEF CreateUser, Goes, Right
  <2>3. \A q \in Process \ {p} : work'[q] = work[q]
    BY <1>3, <1>d DEF CreateUser, Goes
  <2>4. DOMAIN owner' = DOMAIN owner \cup {work[p].login}
    BY <1>3 DEF CreateUser, Put
  <2>5. QED
    BY <1>3, <1>g, <1>k, <1>b, <1>f, <2>1, <2>2, <2>3, <2>4
    DEF CreateUser, MadeInv, sessions, swipeVars
<1>4. ASSUME NEW p \in Process, CreateAccessToken(p) \/ AnswerLogin(p), UNCHANGED swipeVars
      PROVE  MadeInv'
  <2>1. work[p].of \in Made
    BY <1>4, <1>w, Owners DEF CreateAccessToken, AnswerLogin, At, MadeInv
  <2>2. Right(p)
    BY <1>4, <1>d, <1>g, <2>1 DEF CreateAccessToken, AnswerLogin, Goes, AfterToken, Idle, Right
  <2>3. \A q \in Process \ {p} : work'[q] = work[q]
    BY <1>4, <1>d DEF CreateAccessToken, AnswerLogin, Goes
  <2>4. \A x \in phones' : x[1] \in Made'
    BY <1>4, <1>g, <2>1 DEF CreateAccessToken, AnswerLogin, MadeInv, sessions
  <2>5. QED
    BY <1>4, <1>g, <1>k, <1>b, <1>f, <2>2, <2>3, <2>4
    DEF CreateAccessToken, AnswerLogin, MadeInv, tables, swipeVars
<1>5. ASSUME NEW p \in Process, AddSwipes(p) \/ UseSwipe(p) PROVE MadeInv'
  <2>1. work[p].me \in Made
    BY <1>5 DEF AddSwipes, UseSwipe, At, MadeInv
  <2>2. Right(p)
    BY <1>5, <1>d DEF AddSwipes, UseSwipe, Goes, AfterReap, Idle, Right
  <2>3. \A q \in Process \ {p} : work'[q] = work[q]
    BY <1>5, <1>d DEF AddSwipes, UseSwipe, Goes
  <2>4. \A a \in Account \ Made' : swipes'[a] = SwipesDefault /\ reaped'[a] = 0 /\ used'[a] = 0
    <3>1. \A a \in Account \ {work[p].me} :
            swipes'[a] = swipes[a] /\ reaped'[a] = reaped[a] /\ used'[a] = used[a]
      BY <1>5 DEF TypeOK, BalancesOK, AddSwipes, UseSwipe
    <3>2. QED
      BY <1>g, <2>1, <3>1 DEF MadeInv
  <2>5. QED
    BY <1>5, <1>g, <1>k, <1>f, <2>2, <2>3, <2>4 DEF AddSwipes, UseSwipe, MadeInv, tables, sessions
<1>6. ASSUME NEW p \in Process, ResetCooldown(p) PROVE MadeInv'
  <2>1. Right(p)
    <3>1. work'[p] = work[p].then
      BY <1>6, <1>d DEF ResetCooldown, Goes
    <3>2. CASE Other(work[p]) /\ work[p].then = Idle
      BY <3>1, <3>2 DEF Idle, Right
    <3>3. CASE /\ "owner" \in DOMAIN work[p]
               /\ work[p].then \in Answers /\ work[p].of = work[p].then.of
      BY <1>6, <1>g, <3>1, <3>3 DEF ResetCooldown, At, MadeInv, Answers, Right
    <3>4. QED
      BY <1>6, <1>w, <3>2, <3>3, Owners DEF ResetCooldown, At
  <2>2. \A q \in Process \ {p} : work'[q] = work[q]
    BY <1>6, <1>d DEF ResetCooldown, Goes
  <2>3. QED
    BY <1>6, <1>g, <1>k, <1>b, <1>f, <2>1, <2>2
    DEF ResetCooldown, MadeInv, tables, sessions, balances, history
<1>7. ASSUME NEW p \in Request, NEW a \in Account, Reap(p, a) \/ SwipeLeft(p, a)
      PROVE  MadeInv'
  <2>1. p \in Process
    BY DEF Process
  <2>2. a \in Made
    BY <1>7 DEF Reap, SwipeLeft, Sends, Admitted, MadeInv
  <2>3. Right(p)
    BY <1>7, <1>d, <1>g, <2>1, <2>2 DEF Reap, SwipeLeft, Goes, Right
  <2>4. \A q \in Process \ {p} : work'[q] = work[q]
    BY <1>7, <1>d DEF Reap, SwipeLeft, Goes
  <2>5. QED
    BY <1>7, <1>g, <1>k, <1>b, <1>f, <2>3, <2>4
    DEF Reap, SwipeLeft, MadeInv, tables, sessions, balances, history
<1>8. QED
  BY <1>1, <1>2, <1>3, <1>4, <1>5, <1>6, <1>7, Steps

\* What has been paid out is a number, and one more period adds its swipes.
LEMMA Periods ==
  ASSUME NEW n \in Nat
  PROVE  /\ SwipesPerPeriod * n \in Nat
         /\ SwipesPerPeriod * (n + 1) = SwipesPerPeriod * n + SwipesPerPeriod
<1>1. SwipesPerPeriod \in Nat
  BY SwipesAssumption
<1>2. QED
  BY <1>1

\* At the start every balance is the default, and nothing has been read.
LEMMA BalancesInit == Init => MadeInv /\ ReadsInv /\ SwipesAccounted
<1> SUFFICES ASSUME Init PROVE MadeInv /\ ReadsInv /\ SwipesAccounted
  OBVIOUS
<1>1. \A p \in Process : work[p] = Idle
  BY DEF Init, AccountsInit
<1>2. MadeInv
  BY <1>1 DEF Init, AccountsInit, SwipesInit, MadeInv, Made, Idle, At
<1>3. ReadsInv
  BY <1>1 DEF ReadsInv, Idle, At
<1>4. SwipesAccounted
  BY SwipesAssumption DEF Init, SwipesInit, SwipesAccounted, Most
<1>5. QED
  BY <1>2, <1>3, <1>4

\* A step that leaves the balances alone, and begins none of the requests that
\* change them, keeps what is known about them.
LEMMA BalancesQuiet ==
  ASSUME TypeOK, MadeInv, ReadsInv, SwipesAccounted, [Next]_vars,
         UNCHANGED <<swipes, reaped, used>>,
         \A q \in Process : work'[q] = work[q] \/ work'[q].step \notin {"reap", "swipe"}
  PROVE  ReadsInv' /\ SwipesAccounted'
<1>1. Made \subseteq Made' /\ \A a \in Made : Whose(a)' = Whose(a)
  BY MadeGrows
<1>2. \A a \in Account \ Made : swipes[a] = Most(a) - used[a]
  BY SwipesAssumption DEF MadeInv, Most
<1>3. \A a : Most(a)' = Most(a)
  BY DEF Most
<1>4. SwipesAccounted'
  BY <1>1, <1>2, <1>3 DEF SwipesAccounted
<1>5. \A q \in Process : work'[q].step \in {"reap", "swipe"} =>
        work'[q] = work[q] /\ work[q].me \in Made
  BY DEF MadeInv
<1>6. ReadsInv'
  BY <1>1, <1>3, <1>5 DEF ReadsInv, At
<1>7. QED
  BY <1>4, <1>6

\* Every step keeps the balances within their history, and what has been read right.
LEMMA BalancesStep ==
  TypeOK /\ MadeInv /\ ReadsInv /\ SwipesAccounted /\ [Next]_vars => ReadsInv' /\ SwipesAccounted'
<1> SUFFICES ASSUME TypeOK, MadeInv, ReadsInv, SwipesAccounted, [Next]_vars
             PROVE  ReadsInv' /\ SwipesAccounted'
  OBVIOUS
<1>w. DOMAIN work = Process /\ \A q \in Process : Working(work[q])
  BY DEF TypeOK, WorkOK
<1>n. /\ swipes \in [Account -> Nat] /\ reaped \in [Account -> Nat] /\ used \in [Account -> Nat]
      /\ SwipesDefault \in Nat /\ SwipesPerPeriod \in Nat
  BY SwipesAssumption DEF TypeOK, BalancesOK
<1>m. Made \subseteq Made' /\ \A a \in Made : Whose(a)' = Whose(a)
  BY MadeGrows
<1>1. CASE Plain
  BY <1>1, BalancesQuiet DEF Plain, Other
<1>2. ASSUME NEW p \in Process,
             \/ \E l \in Login, i \in Person : FindUser(p, l, i) /\ UNCHANGED swipeVars
             \/ /\ CreateUser(p) \/ CreateAccessToken(p) \/ AnswerLogin(p)
                /\ UNCHANGED swipeVars
             \/ ResetCooldown(p)
      PROVE  ReadsInv' /\ SwipesAccounted'
  <2>1. work'[p] = work[p] \/ work'[p].step \notin {"reap", "swipe"}
    <3>1. At(p, "cooldown") => work[p].then.step \notin {"reap", "swipe"}
      BY <1>w, Carries DEF At, Answers, Idle
    <3>2. CASE \E l \in Login, i \in Person : FindUser(p, l, i)
      BY <1>w, <3>2 DEF FindUser, Goes
    <3>3. CASE CreateUser(p) \/ CreateAccessToken(p) \/ AnswerLogin(p)
      BY <1>w, <3>3 DEF CreateUser, CreateAccessToken, AnswerLogin, Goes, AfterToken, Idle
    <3>4. CASE ResetCooldown(p)
      BY <1>w, <3>1, <3>4 DEF ResetCooldown, Goes
    <3>5. QED
      BY <1>2, <3>2, <3>3, <3>4
  <2>2. \A q \in Process \ {p} : work'[q] = work[q]
    BY <1>2, <1>w
    DEF FindUser, CreateUser, CreateAccessToken, AnswerLogin, ResetCooldown, Goes
  <2>3. UNCHANGED <<swipes, reaped, used>>
    BY <1>2 DEF swipeVars, ResetCooldown, balances, history
  <2>4. QED
    BY <2>1, <2>2, <2>3, BalancesQuiet
<1>3. ASSUME NEW p \in Request, NEW a \in Account, Reap(p, a) \/ SwipeLeft(p, a)
      PROVE  ReadsInv' /\ SwipesAccounted'
  <2>1. p \in Process /\ a \in Made
    BY <1>3 DEF Process, Reap, SwipeLeft, Sends, Admitted, MadeInv
  <2>2. /\ UNCHANGED <<swipes, reaped, used, logins>>
        /\ \A b : Most(b)' = Most(b)
        /\ \A b : Whose(b)' = Whose(b)
        /\ Made' = Made
    BY <1>3 DEF Reap, SwipeLeft, balances, history, sessions, Most, Whose, Made
  <2>3. SwipesAccounted'
    BY <2>2 DEF SwipesAccounted
  <2>4. /\ \A q \in Process \ {p} : work'[q] = work[q]
        /\ work'[p].me = a
        /\ work'[p].step \in {"reap", "swipe"}
        /\ work'[p].step = "swipe" => work'[p].left + 1 = swipes[a]
    BY <1>3, <1>n, <1>w, <2>1 DEF Reap, SwipeLeft, Goes
  <2>5. Whose(a) \notin Hasty => \A q \in Process \ {p} :
          work[q].step \in {"reap", "swipe"} => work[q].me # a
    <3>1. \A q \in Process : work[q].step \in {"reap", "swipe"} => "me" \in DOMAIN work[q]
      BY <1>w DEF Working, Answers, Rewrites, Keeps, Idle
    <3>2. QED
      BY <1>3, <3>1 DEF Reap, SwipeLeft, Sends, Busy
  <2>6. ReadsInv'
    <3>1. ASSUME NEW q \in Process, work'[q].step = "swipe"
          PROVE  LET b == work'[q].me
                 IN /\ work'[q].left + 1 \in (SwipesDefault - used[b])..Most(b)
                    /\ Whose(b) \notin Hasty => work'[q].left + 1 = swipes[b]
      BY <2>4, <3>1 DEF ReadsInv, At, SwipesAccounted
    <3>2. ASSUME NEW q1 \in Process, NEW q2 \in Process, work'[q1].step = "swipe",
                 work'[q2].step \in {"swipe", "reap"}, work'[q1].me = work'[q2].me,
                 Whose(work'[q1].me) \notin Hasty
          PROVE  q1 = q2
      BY <2>4, <2>5, <3>2 DEF ReadsInv, At
    <3>3. QED
      BY <2>2, <3>1, <3>2 DEF ReadsInv, At
  <2>7. QED
    BY <2>3, <2>6
<1>4. ASSUME NEW p \in Process, AddSwipes(p) \/ UseSwipe(p)
      PROVE  ReadsInv' /\ SwipesAccounted'
  <2>1. /\ \A q \in Process \ {p} : work'[q] = work[q]
        /\ work'[p].step \notin {"reap", "swipe"}
    BY <1>4, <1>w DEF AddSwipes, UseSwipe, Goes, AfterReap, Idle
  <2>2. CASE work[p].me \notin DOMAIN users
    BY <1>4, <2>1, <2>2, BalancesQuiet DEF AddSwipes, UseSwipe
  <2>3. ASSUME NEW a \in Account, a = work[p].me, a \in DOMAIN users
        PROVE  ReadsInv' /\ SwipesAccounted'
    <3>1. a \in Made
      BY <1>4, <2>3 DEF AddSwipes, UseSwipe, At, MadeInv
    <3>2. Made' = Made /\ \A b : Whose(b)' = Whose(b)
      BY <1>4 DEF AddSwipes, UseSwipe, sessions, Made, Whose
    <3>3. \A b \in Account \ {a} : /\ swipes'[b] = swipes[b] /\ used'[b] = used[b]
                                   /\ Most(b)' = Most(b)
      BY <1>4, <1>n, <2>3 DEF AddSwipes, UseSwipe, Most
    <3>4. \A q \in Process : work'[q].step \in {"reap", "swipe"} =>
            q # p /\ work'[q] = work[q] /\ work[q].me \in Account
      BY <1>w, <2>1, Carries
    <3>5. CASE AddSwipes(p)
      <4>1. Most(a) \in Nat /\ Most(a)' = Most(a) + SwipesPerPeriod
        <5>1. reaped[a] \in Nat /\ reaped'[a] = reaped[a] + 1
          BY <1>n, <2>3, <3>1, <3>5 DEF AddSwipes
        <5>2. /\ SwipesPerPeriod * reaped[a] \in Nat
              /\ SwipesPerPeriod * (reaped[a] + 1) = SwipesPerPeriod * reaped[a] + SwipesPerPeriod
          BY <5>1, Periods
        <5>3. Most(a)' = SwipesDefault + SwipesPerPeriod * (reaped[a] + 1)
          BY <5>1 DEF Most
        <5>4. Most(a) = SwipesDefault + SwipesPerPeriod * reaped[a]
          BY DEF Most
        <5>5. QED
          BY <1>n, <5>2, <5>3, <5>4
      <4>2. swipes'[a] = swipes[a] + SwipesPerPeriod /\ used'[a] = used[a]
        BY <1>n, <2>3, <3>1, <3>5 DEF AddSwipes
      <4>3. SwipesAccounted'
        <5>1. /\ swipes[a] \in (SwipesDefault - used[a])..Most(a)
              /\ Whose(a) \notin Hasty => swipes[a] = Most(a) - used[a]
          BY <3>1 DEF SwipesAccounted
        <5>2. /\ swipes'[a] \in (SwipesDefault - used'[a])..Most(a)'
              /\ Whose(a) \notin Hasty => swipes'[a] = Most(a)' - used'[a]
          BY <1>n, <3>1, <4>1, <4>2, <5>1
        <5>3. \A b \in Account \ {a} :
                /\ swipes'[b] \in (SwipesDefault - used'[b])..Most(b)'
                /\ b \in Made /\ Whose(b) \notin Hasty => swipes'[b] = Most(b)' - used'[b]
          BY <3>3 DEF SwipesAccounted
        <5>4. QED
          BY <3>2, <5>2, <5>3 DEF SwipesAccounted
      <4>4. \A q \in Process : work'[q].step = "swipe" /\ work[q].me = a => Whose(a) \in Hasty
        BY <1>4, <2>3, <3>4, <3>5 DEF AddSwipes, ReadsInv, At
      <4>5. ReadsInv'
        <5>1. ASSUME NEW q \in Process, NEW b \in Account, work'[q].step = "swipe", work'[q].me = b
              PROVE  /\ work'[q].left + 1 \in (SwipesDefault - used'[b])..Most(b)'
                     /\ Whose(b) \notin Hasty => work'[q].left + 1 = swipes'[b]
          <6>1. /\ work'[q] = work[q] /\ work[q].me = b /\ work[q].left \in Nat
                /\ work[q].left + 1 \in (SwipesDefault - used[b])..Most(b)
                /\ Whose(b) \notin Hasty => work[q].left + 1 = swipes[b]
            BY <1>w, <3>4, <5>1, Carries DEF ReadsInv, At
          <6>2. CASE b = a
            BY <1>n, <3>1, <4>1, <4>2, <4>4, <5>1, <6>1, <6>2
          <6>3. CASE b # a
            BY <3>3, <6>1, <6>3
          <6>4. QED
            BY <6>2, <6>3
        <5>2. \A q1, q2 \in Process :
                /\ work'[q1].step = "swipe" /\ work'[q2].step \in {"swipe", "reap"}
                /\ work'[q1].me = work'[q2].me /\ Whose(work'[q1].me) \notin Hasty
                => q1 = q2
          BY <3>4 DEF ReadsInv, At
        <5>3. \A q \in Process : work'[q].step = "swipe" => work'[q].me \in Account
          BY <3>4
        <5>4. QED
          BY <3>2, <5>1, <5>2, <5>3 DEF ReadsInv, At
      <4>6. QED
        BY <4>3, <4>5
    <3>6. CASE UseSwipe(p)
      <4>1. Most(a)' = Most(a) /\ Most(a) \in Nat
        <5>1. reaped[a] \in Nat /\ reaped' = reaped
          BY <1>n, <3>1, <3>6 DEF UseSwipe
        <5>2. SwipesPerPeriod * reaped[a] \in Nat
          BY <5>1, Periods
        <5>3. QED
          BY <1>n, <5>1, <5>2 DEF Most
      <4>2. /\ swipes'[a] = work[p].left /\ used'[a] = used[a] + 1 /\ work[p].left \in Nat
        BY <1>n, <1>w, <2>3, <3>1, <3>6, Carries DEF UseSwipe, At
      <4>3. /\ work[p].left + 1 \in (SwipesDefault - used[a])..Most(a)
            /\ Whose(a) \notin Hasty => work[p].left + 1 = swipes[a]
        BY <2>3, <3>6 DEF UseSwipe, ReadsInv
      <4>4. SwipesAccounted'
        <5>1. /\ swipes'[a] \in (SwipesDefault - used'[a])..Most(a)'
              /\ Whose(a) \notin Hasty => swipes'[a] = Most(a)' - used'[a]
          BY <1>n, <3>1, <4>1, <4>2, <4>3 DEF SwipesAccounted
        <5>2. \A b \in Account \ {a} :
                /\ swipes'[b] \in (SwipesDefault - used'[b])..Most(b)'
                /\ b \in Made /\ Whose(b) \notin Hasty => swipes'[b] = Most(b)' - used'[b]
          BY <3>3 DEF SwipesAccounted
        <5>3. QED
          BY <3>2, <5>1, <5>2 DEF SwipesAccounted
      <4>5. \A q \in Process : work'[q].step = "swipe" /\ work[q].me = a => Whose(a) \in Hasty
        BY <2>3, <3>4, <3>6 DEF UseSwipe, ReadsInv, At
      <4>6. ReadsInv'
        <5>1. ASSUME NEW q \in Process, NEW b \in Account, work'[q].step = "swipe", work'[q].me = b
              PROVE  /\ work'[q].left + 1 \in (SwipesDefault - used'[b])..Most(b)'
                     /\ Whose(b) \notin Hasty => work'[q].left + 1 = swipes'[b]
          <6>1. /\ work'[q] = work[q] /\ work[q].me = b /\ work[q].left \in Nat
                /\ work[q].left + 1 \in (SwipesDefault - used[b])..Most(b)
                /\ Whose(b) \notin Hasty => work[q].left + 1 = swipes[b]
            BY <1>w, <3>4, <5>1, Carries DEF ReadsInv, At
          <6>2. CASE b = a
            BY <1>n, <3>1, <4>1, <4>2, <4>5, <5>1, <6>1, <6>2
          <6>3. CASE b # a
            BY <3>3, <6>1, <6>3
          <6>4. QED
            BY <6>2, <6>3
        <5>2. \A q1, q2 \in Process :
                /\ work'[q1].step = "swipe" /\ work'[q2].step \in {"swipe", "reap"}
                /\ work'[q1].me = work'[q2].me /\ Whose(work'[q1].me) \notin Hasty
                => q1 = q2
          BY <3>4 DEF ReadsInv, At
        <5>3. \A q \in Process : work'[q].step = "swipe" => work'[q].me \in Account
          BY <3>4
        <5>4. QED
          BY <3>2, <5>1, <5>2, <5>3 DEF ReadsInv, At
      <4>7. QED
        BY <4>4, <4>6
    <3>7. QED
      BY <1>4, <3>5, <3>6
  <2>4. work[p].me \in Account
    BY <1>4, <1>w, Carries DEF AddSwipes, UseSwipe, At
  <2>5. QED
    BY <2>2, <2>3, <2>4
<1>5. QED
  BY <1>1, <1>2, <1>3, <1>4, Steps DEF Process

\* Whatever happens at the same time, a balance stays within what has been paid out
\* and used, and that of a person who waits for his answers is exact.
THEOREM BalancesExact == Spec => []SwipesAccounted
<1>1. Init => TypeOK /\ MadeInv /\ ReadsInv /\ SwipesAccounted
  BY TypeInit, BalancesInit
<1>2. TypeOK /\ MadeInv /\ ReadsInv /\ SwipesAccounted /\ [Next]_vars
        => (TypeOK /\ MadeInv /\ ReadsInv /\ SwipesAccounted)'
  BY TypeStep, MadeStep, BalancesStep
<1>3. QED
  BY <1>1, <1>2, PTL DEF Spec

-------------------------------------------------------------------------------
(* Free swipes *)

\* Work that is no part of a login, a reap or a cooldown.
Uninvolved(r) == "owner" \notin DOMAIN r /\ r.step \notin {"reap", "cooldown"}

\* A step that adds no swipes, moves no cooldown and takes no account away but one
\* whose owner has asked for it.
Aside ==
  /\ UNCHANGED <<phones, logins, reaped, cooldown, expired, failures>>
  /\ DOMAIN owner' \subseteq DOMAIN owner
  /\ \A a \in DOMAIN owner' : owner'[a] = owner[a]
  /\ \A a \in DOMAIN owner \ DOMAIN owner' : Admitted(a)
  /\ \A q \in Process :
       \/ work'[q] = work[q]
       \/ /\ Uninvolved(work[q]) /\ Uninvolved(work'[q])
          /\ "me" \in DOMAIN work'[q] => Admitted(work'[q].me)

\* Which work carries the user who asked for it.
LEMMA Senders ==
  ASSUME NEW r, Working(r)
  PROVE  /\ r.step \in {"reap", "check", "save", "swipe", "rate", "patch", "drop", "remove"} =>
              "me" \in DOMAIN r /\ "owner" \notin DOMAIN r
         /\ r.step \in {"idle", "load", "keep", "rank", "clear", "push"} =>
              "me" \notin DOMAIN r /\ "owner" \notin DOMAIN r
         /\ r.step \in {"create", "token", "answer"} => "me" \notin DOMAIN r
         /\ r.step = "cooldown" => ("me" \in DOMAIN r \/ "owner" \in DOMAIN r)
         /\ r.step = "cooldown" /\ "owner" \in DOMAIN r => "me" \notin DOMAIN r
BY DEF Working, Answers, Rewrites, Keeps, Idle

\* What is rewritten, cached or pushed is none of the work that matters here.
LEMMA AsideNext ==
  /\ \A r \in Rewrites \cup Keeps(Rewrites) : Uninvolved(r) /\ "me" \notin DOMAIN r
  /\ \A k, s, then : then \in Rewrites => Uninvolved(Pushing(k, s, then)) /\ "me" \notin DOMAIN Pushing(k, s, then)
  /\ \A a, n, then : Uninvolved(Keep(a, n, then)) /\ "me" \notin DOMAIN Keep(a, n, then)
<1>1. \A r \in Rewrites \cup Keeps(Rewrites) : Uninvolved(r) /\ "me" \notin DOMAIN r
  BY DEF Rewrites, Keeps, Idle, Uninvolved
<1>2. \A a, n, then : Uninvolved(Keep(a, n, then)) /\ "me" \notin DOMAIN Keep(a, n, then)
  BY DEF Keep, Uninvolved
<1>3. \A k, s, then : LET r == [step |-> "push", key |-> k, list |-> s, then |-> then]
                      IN Uninvolved(r) /\ "me" \notin DOMAIN r
  BY DEF Uninvolved
<1>4. QED
  BY <1>1, <1>2, <1>3 DEF Pushing

\* A process that goes from such work to such work.
LEMMA AsideGoes ==
  ASSUME WorkOK, NEW p \in Process, NEW next, Goes(p, next), Uninvolved(work[p]), Uninvolved(next),
         "me" \in DOMAIN next => Admitted(next.me)
  PROVE  \A q \in Process :
           \/ work'[q] = work[q]
           \/ /\ Uninvolved(work[q]) /\ Uninvolved(work'[q])
              /\ "me" \in DOMAIN work'[q] => Admitted(work'[q].me)
BY DEF WorkOK, Goes

\* The steps of the lists, the profiles and the other swipes and ratings are aside.
LEMMA AsideWork ==
  ASSUME TypeOK, SendersInv, NEW p \in Process,
         \/ CheckToken(p) /\ UNCHANGED swipeVars
         \/ SaveToken(p) /\ UNCHANGED swipeVars
         \/ UseSwipe(p)
         \/ SaveRating(p)
         \/ ListStep(p)
         \/ ProfileStep(p)
  PROVE  Aside
<1> DEFINE r == work[p]
<1>w. WorkOK /\ Working(r)
  BY DEF TypeOK, WorkOK
<1>i. Uninvolved(Idle) /\ "me" \notin DOMAIN Idle
  BY AsideNext DEF Rewrites
<1>u. r.step \notin {"create", "token", "answer", "cooldown", "reap"} => Uninvolved(r)
  BY <1>w, Owners DEF Uninvolved
<1>m. r.step \in {"check", "drop", "remove"} => Admitted(r.me)
  BY <1>w, Senders DEF SendersInv
<1>1. CASE CheckToken(p) /\ UNCHANGED swipeVars
  <2>1. Uninvolved([step |-> "save", me |-> r.me, token |-> r.token])
    BY DEF Uninvolved
  <2>2. Uninvolved(r) /\ Admitted(r.me)
    BY <1>1, <1>u, <1>m DEF CheckToken, At
  <2>3. \A q \in Process :
           \/ work'[q] = work[q]
           \/ /\ Uninvolved(work[q]) /\ Uninvolved(work'[q])
              /\ "me" \in DOMAIN work'[q] => Admitted(work'[q].me)
    BY <1>1, <1>w, <1>i, <2>1, <2>2, AsideGoes DEF CheckToken
  <2>4. QED
    BY <1>1, <2>3 DEF CheckToken, Aside, tables, sessions, swipeVars, fixed
<1>2. CASE SaveToken(p) /\ UNCHANGED swipeVars
  BY <1>2, <1>w, <1>i, <1>u, AsideGoes DEF SaveToken, At, Aside, tables, swipeVars, fixed
<1>3. CASE SaveRating(p) \/ UseSwipe(p)
  BY <1>3, <1>w, <1>i, <1>u, AsideGoes
  DEF SaveRating, UseSwipe, At, Aside, tables, sessions, history, fixed
<1>4. ASSUME NEW k \in Key, FetchPopular(p, k) PROVE Aside
  <2>1. \A s : LET next == [step |-> "clear", key |-> k, list |-> s, then |-> Writing(r.keys \ {k}, r.then)]
               IN Uninvolved(next) /\ "me" \notin DOMAIN next
    BY DEF Uninvolved
  <2>2. PICK s : Goes(p, [step |-> "clear", key |-> k, list |-> s, then |-> Writing(r.keys \ {k}, r.then)])
    BY <1>4 DEF FetchPopular
  <2>3. QED
    BY <1>4, <1>w, <1>u, <2>1, <2>2, AsideGoes
    DEF FetchPopular, At, Aside, tables, sessions, swipeVars, fixed
<1>5. CASE ClearPopular(p) \/ PushPopular(p)
  <2>1. r.then \in Rewrites
    BY <1>w, <1>5, Carries DEF ClearPopular, PushPopular, At
  <2>2. QED
    BY <1>5, <1>w, <1>u, <2>1, AsideNext, AsideGoes
    DEF ClearPopular, PushPopular, At, Aside, tables, sessions, swipeVars, fixed
<1>6. CASE LoadProfile(p)
  BY <1>6, <1>w, <1>i, <1>u, AsideNext, AsideGoes DEF LoadProfile, At, Aside, tables, Kept, fixed
<1>7. CASE KeepProfile(p)
  <2>1. r.then \in Rewrites \cup Keeps(Rewrites)
    BY <1>w, <1>7, Carries DEF KeepProfile, At
  <2>2. QED
    BY <1>7, <1>w, <1>u, <2>1, AsideNext, AsideGoes DEF KeepProfile, At, Aside, tables, Kept, fixed
<1>8. CASE SavePatch(p)
  <2>1. \A n : Uninvolved(AfterPatch(r.me, n, r)) /\ "me" \notin DOMAIN AfterPatch(r.me, n, r)
    BY <1>i, AsideNext DEF AfterPatch, RewriteTask
  <2>2. QED
    BY <1>8, <1>w, <1>i, <1>u, <2>1, AsideGoes DEF SavePatch, At, Aside, Kept, fixed
<1>9. CASE DropProfile(p)
  <2>1. Uninvolved([step |-> "remove", me |-> r.me, delete |-> r.delete])
    BY DEF Uninvolved
  <2>2. QED
    BY <1>9, <1>w, <1>u, <1>m, <2>1, AsideGoes DEF DropProfile, At, Aside, tables, Kept, fixed
<1>10. CASE RemoveUser(p)
  <2>1. Uninvolved(Writing(Lists(r.me), Idle)) /\ "me" \notin DOMAIN Writing(Lists(r.me), Idle)
    BY WritingType, AsideNext DEF Lists
  <2>2. /\ DOMAIN owner' \subseteq DOMAIN owner /\ \A a \in DOMAIN owner' : owner'[a] = owner[a]
        /\ \A a \in DOMAIN owner \ DOMAIN owner' : a = r.me
    BY <1>10 DEF RemoveUser, Revoke, Without, tables
  <2>3. r.step = "remove"
    BY <1>10 DEF RemoveUser, At
  <2>4. QED
    BY <1>10, <1>w, <1>i, <1>u, <1>m, <2>1, <2>2, <2>3, AsideGoes DEF RemoveUser, Aside, Kept, fixed
<1>11. QED
  BY <1>1, <1>2, <1>3, <1>4, <1>5, <1>6, <1>7, <1>8, <1>9, <1>10 DEF ListStep, ProfileStep

\* So are the requests that begin, but for a reap.
LEMMA AsideRequest ==
  ASSUME TypeOK, NEW p \in Request, NEW a \in Account,
         \/ \E t \in Token : Authorize(p, a, t) /\ UNCHANGED swipeVars
         \/ SwipeLeft(p, a)
         \/ AddRating(p, a)
         \/ \E b \in Account : CallFeedback(p, a, b)
         \/ FetchProfile(p, a)
         \/ PatchUser(p, a)
         \/ DeleteUser(p, a)
  PROVE  Aside
<1>p. p \in Process /\ WorkOK /\ Working(work[p])
  BY DEF Process, TypeOK, WorkOK
<1>u. Free(p) => Uninvolved(work[p])
  BY <1>p, Owners DEF Uninvolved, Free, At
<1>1. ASSUME NEW t \in Token, Authorize(p, a, t), UNCHANGED swipeVars PROVE Aside
  <2>1. Uninvolved([step |-> "check", me |-> a, token |-> t])
    BY DEF Uninvolved
  <2>2. Admitted(a)
    BY <1>1 DEF Authorize, Admitted
  <2>3. QED
    BY <1>p, <1>u, <1>1, <2>1, <2>2, AsideGoes
    DEF Authorize, Aside, tables, sessions, swipeVars, fixed
<1>2. CASE AddRating(p, a)
  BY <1>2 DEF AddRating, Aside, accountVars, history
<1>3. ASSUME NEW b \in Account, CallFeedback(p, a, b) PROVE Aside
  <2>1. PICK n : Goes(p, [step |-> "rate", me |-> a, of |-> b, rating |-> n])
    BY <1>3 DEF CallFeedback
  <2>2. Uninvolved([step |-> "rate", me |-> a, of |-> b, rating |-> n])
    BY DEF Uninvolved
  <2>3. Free(p) /\ Admitted(a)
    BY <1>3 DEF CallFeedback, Sends
  <2>4. QED
    BY <1>p, <1>u, <1>3, <2>1, <2>2, <2>3, AsideGoes
    DEF CallFeedback, Aside, tables, sessions, balances, history, fixed
<1>4. CASE FetchProfile(p, a)
  <2>1. Uninvolved([step |-> "load", of |-> a]) /\ "me" \notin DOMAIN [step |-> "load", of |-> a]
    BY DEF Uninvolved
  <2>2. QED
    BY <1>p, <1>u, <1>4, <2>1, AsideGoes DEF FetchProfile, Aside, tables, Kept, fixed
<1>5. CASE PatchUser(p, a)
  <2>1. PICK status, placed, keys :
          Goes(p, [step |-> "patch", me |-> a, status |-> status, placed |-> placed, keys |-> keys])
    BY <1>5 DEF PatchUser
  <2>2. Uninvolved([step |-> "patch", me |-> a, status |-> status, placed |-> placed, keys |-> keys])
    BY DEF Uninvolved
  <2>3. Free(p) /\ Admitted(a)
    BY <1>5 DEF PatchUser, Sends
  <2>4. QED
    BY <1>p, <1>u, <1>5, <2>1, <2>2, <2>3, AsideGoes DEF PatchUser, Aside, tables, Kept, fixed
<1>6. CASE DeleteUser(p, a)
  <2>1. PICK delete : Goes(p, [step |-> "drop", me |-> a, delete |-> delete])
    BY <1>6 DEF DeleteUser
  <2>2. Uninvolved([step |-> "drop", me |-> a, delete |-> delete])
    BY DEF Uninvolved
  <2>3. Free(p) /\ Admitted(a)
    BY <1>6 DEF DeleteUser, Sends
  <2>4. QED
    BY <1>p, <1>u, <1>6, <2>1, <2>2, <2>3, AsideGoes DEF DeleteUser, Aside, tables, Kept, fixed
<1>7. CASE SwipeLeft(p, a)
  <2>1. Goes(p, [step |-> "swipe", me |-> a, left |-> swipes[a] - 1])
    BY <1>7 DEF SwipeLeft
  <2>2. Uninvolved([step |-> "swipe", me |-> a, left |-> swipes[a] - 1])
    BY DEF Uninvolved
  <2>3. Free(p) /\ Admitted(a)
    BY <1>7 DEF SwipeLeft, Sends
  <2>4. QED
    BY <1>p, <1>u, <1>7, <2>1, <2>2, <2>3, AsideGoes
    DEF SwipeLeft, Aside, tables, sessions, balances, history, fixed
<1>8. QED
  BY <1>1, <1>2, <1>3, <1>4, <1>5, <1>6, <1>7

\* Every step is aside or one of nine.
LEMMA Turns ==
  ASSUME TypeOK, SendersInv, [Next]_vars
  PROVE  \/ Aside
         \/ \E p \in Request, l \in Login, i \in Person : FindUser(p, l, i) /\ UNCHANGED swipeVars
         \/ \E p \in Process :
              (CreateUser(p) \/ CreateAccessToken(p) \/ AnswerLogin(p)) /\ UNCHANGED swipeVars
         \/ \E p \in Process : AddSwipes(p) \/ ResetCooldown(p) \/ IsCutShort(p)
         \/ \E p \in Request, a \in Account : Reap(p, a)
         \/ \E a \in Account : ExpireCooldown(a)
<1>1. CASE \E p \in Process : Goes_On(p) \/ IsCutShort(p)
  BY <1>1, AsideWork DEF Goes_On, AccountStep, SwipeStep
<1>2. CASE \E p \in Request : LogsIn(p) \/ IsAuthorized(p)
  BY <1>2, AsideRequest DEF LogsIn, IsAuthorized
<1>3. CASE \E p \in Request, a \in Account :
             AsksSwipes(p, a) \/ FetchProfile(p, a) \/ PatchUser(p, a) \/ DeleteUser(p, a)
  BY <1>3, AsideRequest DEF AsksSwipes
<1>4. CASE \E a \in Account : TokenExpires(a) \/ CooldownExpires(a) \/ ExpireProfile(a)
  BY <1>4 DEF TokenExpires, ExpireToken, CooldownExpires, ExpireProfile, Aside,
              tables, swipeVars, Kept, fixed
<1>5. CASE JobStarts
  <2>1. Updater \in Process /\ WorkOK /\ Working(work[Updater])
    BY DEF Process, TypeOK, WorkOK
  <2>2. Uninvolved(work[Updater])
    BY <1>5, <2>1, Owners DEF JobStarts, PopularJob, At, Uninvolved
  <2>3. Uninvolved(Writing(Key, Idle)) /\ "me" \notin DOMAIN Writing(Key, Idle)
    BY WritingType, AsideNext
  <2>4. QED
    BY <1>5, <2>1, <2>2, <2>3, AsideGoes
    DEF JobStarts, PopularJob, Aside, tables, sessions, swipeVars, fixed
<1>6. CASE UNCHANGED vars
  BY <1>6 DEF vars, Aside
<1>7. QED
  BY <1>1, <1>2, <1>3, <1>4, <1>5, <1>6 DEF Next

\* What the other steps leave a process with, and that they leave the others alone.
LEMMA TurnWork ==
  ASSUME TypeOK, NEW p \in Process
  PROVE  /\ CreateUser(p) \/ CreateAccessToken(p) \/ AnswerLogin(p) \/ AddSwipes(p)
            \/ ResetCooldown(p) \/ IsCutShort(p) \/ (\E l, i : FindUser(p, l, i)) \/ (\E a : Reap(p, a))
              => \A q \in Process \ {p} : work'[q] = work[q]
         /\ AnswerLogin(p) => work'[p] = Idle
         /\ ResetCooldown(p) => work'[p] = work[p].then
         /\ IsCutShort(p) => Uninvolved(work'[p]) /\ "me" \notin DOMAIN work'[p]
         /\ AddSwipes(p) => work'[p] \in {AfterReap(work[p].me), Idle}
<1>d. DOMAIN work = Process /\ Working(work[p])
  BY DEF TypeOK, WorkOK
<1>1. CreateUser(p) \/ CreateAccessToken(p) \/ AnswerLogin(p) \/ AddSwipes(p)
      \/ ResetCooldown(p) \/ IsCutShort(p) \/ (\E l, i : FindUser(p, l, i)) \/ (\E a : Reap(p, a))
        => \A q \in Process \ {p} : work'[q] = work[q]
  BY <1>d DEF CreateUser, CreateAccessToken, AnswerLogin, AddSwipes, ResetCooldown, IsCutShort, Fails,
              FindUser, Reap, Goes
<1>2. AnswerLogin(p) => work'[p] = Idle
  BY <1>d DEF AnswerLogin, Goes
<1>3. ResetCooldown(p) => work'[p] = work[p].then
  BY <1>d DEF ResetCooldown, Goes
<1>4. IsCutShort(p) => Uninvolved(work'[p]) /\ "me" \notin DOMAIN work'[p]
  <2>1. IsCutShort(p) => work'[p] = Idle \/ (At(p, "keep") /\ work'[p] = work[p].then)
    BY <1>d DEF IsCutShort, Fails, Goes
  <2>2. At(p, "keep") => work[p].then \in Rewrites \cup Keeps(Rewrites)
    BY <1>d, Carries DEF At
  <2>3. Idle \in Rewrites
    BY DEF Rewrites
  <2>4. QED
    BY <2>1, <2>2, <2>3, AsideNext
<1>5. AddSwipes(p) => work'[p] \in {AfterReap(work[p].me), Idle}
  BY <1>d DEF AddSwipes, Goes
<1>6. QED
  BY <1>1, <1>2, <1>3, <1>4, <1>5

\* A step that starts no login keeps whose the logins and the accounts are.
LEMMA OwnersQuiet ==
  ASSUME TypeOK, OwnersInv, [Next]_vars,
         UNCHANGED logins,
         DOMAIN owner' \subseteq DOMAIN owner,
         \A a \in DOMAIN owner' : owner'[a] = owner[a],
         \A q \in Process :
           \/ work'[q] = work[q]
           \/ "owner" \notin DOMAIN work'[q]
           \/ /\ "owner" \in DOMAIN work[q] /\ work'[q].owner = work[q].owner
              /\ work[q].step # "create" /\ work'[q].step # "create" /\ work'[q].of = work[q].of
  PROVE  OwnersInv'
<1>1. \A a : Whose(a)' = Whose(a)
  BY DEF Whose
<1>2. \A q \in Process : work'[q].step = "create" => "owner" \in DOMAIN work'[q]
  BY TypeStep, Owners DEF TypeOK, WorkOK
<1>3. \A a \in DOMAIN owner' : owner'[a] = Whose(a)
  BY DEF OwnersInv
<1>4. \A q \in Process : work'[q].step = "create" => work'[q].owner = Whose(work'[q].login)
  BY <1>2 DEF OwnersInv, At
<1>5. \A q \in Process : "owner" \in DOMAIN work'[q] /\ work'[q].step # "create" =>
        \A a \in Account : work'[q].of = a => work'[q].owner = Whose(a)
  BY DEF OwnersInv, At, LogsInTo
<1>6. QED
  BY <1>1, <1>3, <1>4, <1>5 DEF OwnersInv, At, LogsInTo

\* Every step does.
LEMMA OwnersStep ==
  ASSUME TypeOK, MadeInv, OwnersInv, SendersInv, [Next]_vars
  PROVE  OwnersInv'
<1>w. \A q \in Process : Working(work[q]) /\ Working(work'[q])
  BY TypeStep DEF TypeOK, WorkOK
<1>d. DOMAIN work = Process
  BY DEF TypeOK, WorkOK
<1>1. CASE Aside
  BY <1>1, OwnersQuiet DEF Aside, Uninvolved
<1>2. ASSUME NEW p \in Request, NEW l \in Login, NEW i \in Person, FindUser(p, l, i)
      PROVE  OwnersInv'
  <2> DEFINE Whom(a) == IF a \in Registered THEN a ELSE logins'[a]
  <2>1. p \in Process /\ owner' = owner
    BY <1>2 DEF Process, FindUser, tables
  <2>2. \A q \in Process \ {p} : work'[q] = work[q]
    BY <1>2, <2>1, TurnWork
  <2>3. \A a \in Made : Whom(a) = Whose(a)
    BY MadeGrows DEF Whose
  <2>4. Whom(l) = i
    BY <1>2, AccountsAssumption DEF FindUser, Put
  <2>5. \/ work'[p] = work[p]
        \/ work'[p] = [step |-> "create", login |-> l, owner |-> i]
        \/ \E a \in Found(i) :
             work'[p] = [step |-> "token", login |-> l, owner |-> i, of |-> a, new |-> FALSE]
    BY <1>2, <1>d, <2>1 DEF FindUser, Goes
  <2>6. \A a \in Found(i) : a \in Made /\ Whose(a) = i
    BY DEF Found, OwnersInv, MadeInv
  <2>7. work[p].step = "idle" /\ "owner" \notin DOMAIN work[p]
    <3>1. At(p, "idle")
      BY <1>2 DEF FindUser, Free
    <3>2. QED
      BY <1>w, <2>1, <3>1, Senders DEF At
  <2> HIDE DEF Whom
  <2>8. \A a \in DOMAIN owner' : owner'[a] = Whom(a)
    BY <2>1, <2>3 DEF OwnersInv, MadeInv
  <2>9. ASSUME NEW q \in Process, work'[q].step = "create"
        PROVE  work'[q].owner = Whom(work'[q].login)
    <3>1. CASE q = p
      <4>1. \A a : [step |-> "token", login |-> l, owner |-> i, of |-> a, new |-> FALSE].step = "token"
        OBVIOUS
      <4>2. work'[p] = [step |-> "create", login |-> l, owner |-> i]
        BY <2>5, <2>7, <2>9, <3>1, <4>1, Zenon
      <4>3. work'[q].owner = i /\ work'[q].login = l
        BY <3>1, <4>2
      <4>4. QED
        BY <2>4, <4>3
    <3>2. CASE q # p
      BY <2>2, <2>3, <2>9, <3>2 DEF OwnersInv, MadeInv, At
    <3>3. QED
      BY <3>1, <3>2
  <2>10. ASSUME NEW q \in Process, "owner" \in DOMAIN work'[q], work'[q].step # "create"
         PROVE  work'[q].owner = Whom(work'[q].of)
    <3>1. CASE q = p
      <4>1. PICK a \in Found(i) :
              work'[p] = [step |-> "token", login |-> l, owner |-> i, of |-> a, new |-> FALSE]
        BY <2>5, <2>7, <2>10, <3>1
      <4>2. work'[q].owner = i /\ work'[q].of = a
        BY <3>1, <4>1
      <4>3. QED
        BY <2>3, <2>6, <4>2
    <3>2. CASE q # p
      <4>1. work'[q] = work[q] /\ work[q].of \in Made
        BY <2>2, <2>10, <3>2 DEF MadeInv, At
      <4>2. work[q].of \in Account
        BY <4>1, Names DEF Made, TypeOK, SessionsOK
      <4>3. work[q].owner = Whose(work[q].of)
        BY <2>10, <4>1, <4>2 DEF OwnersInv, LogsInTo, At
      <4>4. QED
        BY <2>3, <4>1, <4>3
    <3>3. QED
      BY <3>1, <3>2
  <2>11. \A q \in Process : "owner" \in DOMAIN work'[q] /\ work'[q].step # "create" =>
           \A a \in Account : work'[q].of = a => work'[q].owner = Whom(a)
    BY <2>10
  <2>12. QED
    BY <2>8, <2>9, <2>11 DEF OwnersInv, At, LogsInTo, Whose, Whom
<1>3. ASSUME NEW p \in Process, CreateUser(p)
      PROVE  OwnersInv'
  <2> DEFINE r == work[p]
  <2>1. r.step = "create" /\ r.owner = Whose(r.login)
    BY <1>3 DEF CreateUser, At, OwnersInv
  <2>2. \A q \in Process \ {p} : work'[q] = work[q]
    BY <1>3, TurnWork
  <2>3. work'[p] = [step |-> "token", login |-> r.login, owner |-> r.owner, of |-> r.login, new |-> TRUE]
    BY <1>3, <1>d DEF CreateUser, Goes
  <2>4. /\ DOMAIN owner' = DOMAIN owner \cup {r.login}
        /\ \A a \in DOMAIN owner' : owner'[a] = IF a = r.login THEN r.owner ELSE owner[a]
    BY <1>3 DEF CreateUser, Put
  <2>5. \A a : Whose(a)' = Whose(a)
    BY <1>3 DEF CreateUser, Whose, sessions
  <2>6. \A a \in DOMAIN owner' : owner'[a] = Whose(a)
    BY <2>1, <2>4 DEF OwnersInv
  <2>7. \A q \in Process : work'[q].step = "create" => work'[q].owner = Whose(work'[q].login)
    BY <2>2, <2>3 DEF OwnersInv, At
  <2>8. \A q \in Process : "owner" \in DOMAIN work'[q] /\ work'[q].step # "create" =>
          \A a \in Account : work'[q].of = a => work'[q].owner = Whose(a)
    BY <2>1, <2>2, <2>3 DEF OwnersInv, At, LogsInTo
  <2>9. QED
    BY <2>5, <2>6, <2>7, <2>8 DEF OwnersInv, At, LogsInTo
<1>4. ASSUME NEW p \in Process, CreateAccessToken(p) \/ AnswerLogin(p)
      PROVE  OwnersInv'
  <2>1. UNCHANGED <<logins, owner>> /\ \A q \in Process \ {p} : work'[q] = work[q]
    BY <1>4, TurnWork DEF CreateAccessToken, AnswerLogin, tables, sessions
  <2>2. \/ "owner" \notin DOMAIN work'[p]
        \/ /\ "owner" \in DOMAIN work[p] /\ work'[p].owner = work[p].owner
           /\ work[p].step # "create" /\ work'[p].step # "create" /\ work'[p].of = work[p].of
    BY <1>4, <1>d, <1>w, Owners DEF CreateAccessToken, AnswerLogin, At, Goes, AfterToken, Idle
  <2>3. QED
    BY <2>1, <2>2, OwnersQuiet
<1>5. ASSUME NEW p \in Process, ResetCooldown(p)
      PROVE  OwnersInv'
  <2>1. UNCHANGED <<logins, owner>> /\ \A q \in Process \ {p} : work'[q] = work[q]
    BY <1>5, TurnWork DEF ResetCooldown, tables, sessions
  <2>2. work'[p] = work[p].then /\ work[p].step = "cooldown"
    BY <1>5, TurnWork DEF ResetCooldown, At
  <2>3. \/ "owner" \notin DOMAIN work'[p]
        \/ /\ "owner" \in DOMAIN work[p] /\ work'[p].owner = work[p].owner
           /\ work[p].step # "create" /\ work'[p].step # "create" /\ work'[p].of = work[p].of
    <3>1. CASE work[p].then = Idle
      BY <2>2, <3>1 DEF Idle
    <3>2. CASE /\ "owner" \in DOMAIN work[p]
               /\ work[p].then \in Answers /\ work[p].owner = work[p].then.owner
               /\ work[p].of = work[p].then.of
      BY <2>2, <3>2 DEF Answers
    <3>3. QED
      BY <1>w, <2>2, <3>1, <3>2, Owners
  <2>4. QED
    BY <2>1, <2>3, OwnersQuiet
<1>6. ASSUME NEW p \in Process, AddSwipes(p) \/ IsCutShort(p)
      PROVE  OwnersInv'
  <2>1. UNCHANGED <<logins, owner>> /\ \A q \in Process \ {p} : work'[q] = work[q]
    BY <1>6, TurnWork DEF AddSwipes, IsCutShort, Fails, tables, sessions
  <2>2. "owner" \notin DOMAIN work'[p]
    BY <1>6, TurnWork DEF AfterReap, Idle, Uninvolved
  <2>3. QED
    BY <2>1, <2>2, OwnersQuiet
<1>7. ASSUME NEW p \in Request, NEW a \in Account, Reap(p, a)
      PROVE  OwnersInv'
  <2>1. UNCHANGED <<logins, owner>> /\ \A q \in Process \ {p} : work'[q] = work[q]
    BY <1>7, TurnWork DEF Process, Reap, tables, sessions
  <2>2. "owner" \notin DOMAIN work'[p]
    BY <1>7, <1>d DEF Process, Reap, Goes
  <2>3. QED
    BY <2>1, <2>2, OwnersQuiet
<1>8. ASSUME NEW a \in Account, ExpireCooldown(a)
      PROVE  OwnersInv'
  BY <1>8, OwnersQuiet DEF ExpireCooldown, accountVars
<1>9. QED
  BY <1>1, <1>2, <1>3, <1>4, <1>5, <1>6, <1>7, <1>8, Turns

\* The first login of an account stays its only one until it is answered.
LEMMA FirstStep ==
  ASSUME TypeOK, LoginsInv, MadeInv, OwnersInv, FirstInv, SendersInv, [Next]_vars
  PROVE  FirstInv'
<1>w. \A q \in Process : Working(work[q]) /\ Working(work'[q])
  BY TypeStep DEF TypeOK, WorkOK
<1>d. DOMAIN work = Process
  BY DEF TypeOK, WorkOK
<1> DEFINE
  Let(a) == \E t \in Token : <<a, t>> \in phones'
  Right(q) ==
    "owner" \in DOMAIN work'[q] /\ work'[q].owner \notin Hasty =>
      /\ work'[q].step = "create" => ~Let(work'[q].login)
      /\ work'[q].step = "token" /\ work'[q].new => ~Let(work'[q].of) /\ work'[q].of \in DOMAIN owner'
      /\ work'[q].step = "cooldown" => ~Let(work'[q].of)
<1>f. (\A q \in Process : Right(q)) => FirstInv'
  BY DEF FirstInv, At, Admitted
<1>a. phones' = phones => \A a : Let(a) <=> Admitted(a)
  BY DEF Admitted
<1>k. ASSUME phones' = phones, \A a \in DOMAIN owner \ DOMAIN owner' : Admitted(a)
      PROVE  \A q \in Process : work'[q] = work[q] => Right(q)
  BY <1>k, <1>a DEF FirstInv, At
<1>o. \A q \in Process : "owner" \notin DOMAIN work'[q] => Right(q)
  OBVIOUS
<1> HIDE DEF Let
<1>1. CASE Aside
  BY <1>1, <1>f, <1>k, <1>o DEF Aside, Uninvolved
<1>2. ASSUME NEW p \in Request, NEW l \in Login, NEW i \in Person, FindUser(p, l, i)
      PROVE  FirstInv'
  <2>1. p \in Process /\ owner' = owner /\ phones' = phones
    BY <1>2 DEF Process, FindUser, tables
  <2>2. \A q \in Process \ {p} : work'[q] = work[q]
    BY <1>2, <2>1, TurnWork
  <2>3. ~Admitted(l)
    <3>1. l \notin Made
      BY <1>2, AccountsAssumption DEF FindUser, Made
    <3>2. \A t : <<l, t>> \in phones => <<l, t>>[1] \in Made
      BY DEF MadeInv
    <3>3. QED
      BY <3>1, <3>2 DEF Admitted
  <2>4. \/ work'[p] = work[p]
        \/ work'[p] = [step |-> "create", login |-> l, owner |-> i]
        \/ \E a : work'[p] = [step |-> "token", login |-> l, owner |-> i, of |-> a, new |-> FALSE]
    BY <1>2, <1>d, <2>1 DEF FindUser, Goes
  <2>5. Right(p)
    <3>1. CASE work'[p] = work[p]
      BY <1>k, <2>1, <3>1
    <3>2. CASE work'[p] = [step |-> "create", login |-> l, owner |-> i]
      BY <1>a, <2>1, <2>3, <3>2
    <3>3. ASSUME NEW a, work'[p] = [step |-> "token", login |-> l, owner |-> i, of |-> a, new |-> FALSE]
          PROVE  Right(p)
      BY <3>3
    <3>4. QED
      BY <2>4, <3>1, <3>2, <3>3
  <2>6. QED
    BY <1>f, <1>k, <2>1, <2>2, <2>5
<1>3. ASSUME NEW p \in Process, CreateUser(p)
      PROVE  FirstInv'
  <2> DEFINE r == work[p]
  <2>1. "owner" \in DOMAIN r /\ r.step = "create" /\ phones' = phones
    BY <1>3, <1>w, Owners DEF CreateUser, At, sessions
  <2>2. \A q \in Process \ {p} : work'[q] = work[q]
    BY <1>3, TurnWork
  <2>3. work'[p] = [step |-> "token", login |-> r.login, owner |-> r.owner, of |-> r.login, new |-> TRUE]
    BY <1>3, <1>d DEF CreateUser, Goes
  <2>4. DOMAIN owner' = DOMAIN owner \cup {r.login}
    BY <1>3 DEF CreateUser, Put
  <2>5. r.owner \notin Hasty => ~Admitted(r.login)
    BY <2>1 DEF FirstInv, At
  <2>6. Right(p)
    BY <1>a, <2>1, <2>3, <2>4, <2>5
  <2>7. QED
    BY <1>f, <1>k, <2>1, <2>2, <2>4, <2>6
<1>4. ASSUME NEW p \in Process, CreateAccessToken(p)
      PROVE  FirstInv'
  <2> DEFINE r == work[p]
  <2>1. "owner" \in DOMAIN r /\ r.step = "token" /\ phones' = phones /\ owner' = owner
    BY <1>4, <1>w, Owners DEF CreateAccessToken, At, sessions
  <2>2. \A q \in Process \ {p} : work'[q] = work[q]
    BY <1>4, TurnWork
  <2>3. work'[p] = AfterToken(r) \/ work'[p] = Idle
    BY <1>4, <1>d DEF CreateAccessToken, Goes
  <2>4. r.owner \notin Hasty /\ r.new => ~Admitted(r.of)
    BY <2>1 DEF FirstInv, At
  <2>5. Right(p)
    <3>1. CASE work'[p] = Idle
      BY <1>o, <3>1 DEF Idle
    <3>2. CASE work'[p] = AfterToken(r)
      BY <1>a, <2>1, <2>4, <3>2 DEF AfterToken
    <3>3. QED
      BY <2>3, <3>1, <3>2
  <2>6. QED
    BY <1>f, <1>k, <2>1, <2>2, <2>5
<1>5. ASSUME NEW p \in Process, AnswerLogin(p)
      PROVE  FirstInv'
  <2> DEFINE r == work[p]
  <2>1. /\ "owner" \in DOMAIN r /\ r.step = "answer"
        /\ phones' = phones \cup {<<r.of, r.login>>} /\ owner' = owner
    BY <1>5, <1>w, Owners DEF AnswerLogin, At, tables
  <2>2. \A q \in Process \ {p} : work'[q] = work[q]
    BY <1>5, TurnWork
  <2>3. Right(p)
    BY <1>5, <1>o, TurnWork DEF Idle
  <2>4. \A a : a # r.of => (Let(a) <=> Admitted(a))
    BY <2>1 DEF Let, Admitted
  <2>5. LogsInTo(p, r.of) /\ r.of \in Account
    <3>1. r.of \in Made
      BY <2>1 DEF MadeInv, At
    <3>2. QED
      BY <2>1, <3>1, Names DEF LogsInTo, At, Made, TypeOK, SessionsOK
  <2>6. r.owner = Whose(r.of)
    BY <2>5 DEF OwnersInv
  <2>7. ASSUME NEW q \in Process, "owner" \in DOMAIN work[q], work[q].owner \notin Hasty, q # p
        PROVE  /\ work[q].step = "create" => work[q].login # r.of
               /\ work[q].step # "create" => work[q].of # r.of
    <3>1. work[q].owner # r.owner
      BY <2>1, <2>7 DEF LoginsInv
    <3>2. work[q].step = "create" => work[q].owner = Whose(work[q].login)
      BY DEF OwnersInv, At
    <3>3. work[q].step # "create" /\ work[q].of = r.of => work[q].owner = Whose(r.of)
      BY <2>5, <2>7 DEF OwnersInv, LogsInTo, At
    <3>4. QED
      BY <2>6, <3>1, <3>2, <3>3
  <2>8. ASSUME NEW q \in Process, q # p
        PROVE  Right(q)
    <3>1. work'[q] = work[q]
      BY <2>2, <2>8
    <3>2. QED
      BY <2>1, <2>4, <2>7, <2>8, <3>1 DEF FirstInv, At
  <2>9. QED
    BY <1>f, <2>3, <2>8
<1>6. ASSUME NEW p \in Process, ResetCooldown(p)
      PROVE  FirstInv'
  <2>1. phones' = phones /\ owner' = owner /\ \A q \in Process \ {p} : work'[q] = work[q]
    BY <1>6, TurnWork DEF ResetCooldown, tables, sessions
  <2>2. work'[p] = work[p].then /\ work[p].step = "cooldown"
    BY <1>6, TurnWork DEF ResetCooldown, At
  <2>3. work'[p].step \notin {"create", "token", "cooldown"}
    BY <1>w, <2>2, Owners DEF Idle, Answers
  <2>4. Right(p)
    BY <2>3
  <2>5. QED
    BY <1>f, <1>k, <2>1, <2>4
<1>7. ASSUME NEW p \in Process, AddSwipes(p) \/ IsCutShort(p)
      PROVE  FirstInv'
  <2>1. phones' = phones /\ owner' = owner /\ \A q \in Process \ {p} : work'[q] = work[q]
    BY <1>7, TurnWork DEF AddSwipes, IsCutShort, Fails, tables, sessions
  <2>2. "owner" \notin DOMAIN work'[p]
    BY <1>7, TurnWork DEF AfterReap, Idle, Uninvolved
  <2>3. QED
    BY <1>f, <1>k, <1>o, <2>1, <2>2
<1>8. ASSUME NEW p \in Request, NEW a \in Account, Reap(p, a)
      PROVE  FirstInv'
  <2>1. phones' = phones /\ owner' = owner /\ \A q \in Process \ {p} : work'[q] = work[q]
    BY <1>8, TurnWork DEF Process, Reap, tables, sessions
  <2>2. "owner" \notin DOMAIN work'[p]
    BY <1>8, <1>d DEF Process, Reap, Goes
  <2>3. QED
    BY <1>f, <1>k, <1>o, <2>1, <2>2
<1>9. ASSUME NEW a \in Account, ExpireCooldown(a)
      PROVE  FirstInv'
  BY <1>9, <1>f, <1>k DEF ExpireCooldown, accountVars
<1>10. QED
  BY <1>1, <1>2, <1>3, <1>4, <1>5, <1>6, <1>7, <1>8, <1>9, Turns

\* Every step keeps requests to those who have been answered, and one who waits to
\* one reap.
LEMMA SendersStep ==
  ASSUME TypeOK, MadeInv, SendersInv, [Next]_vars
  PROVE  SendersInv'
<1>w. \A q \in Process : Working(work[q]) /\ Working(work'[q])
  BY TypeStep DEF TypeOK, WorkOK
<1>d. DOMAIN work = Process
  BY DEF TypeOK, WorkOK
<1> DEFINE
  Let(a) == \E t \in Token : <<a, t>> \in phones'
  Whom(a) == IF a \in Registered THEN a ELSE logins'[a]
  Right(q) ==
    "me" \in DOMAIN work'[q] =>
      Let(work'[q].me) /\ (work'[q].step = "cooldown" => work'[q].of = work'[q].me)
  Reaps(q, a) ==
    "me" \in DOMAIN work'[q] /\ work'[q].me = a /\ work'[q].step \in {"reap", "cooldown"}
<1>m. \A a : Admitted(a) => a \in Made
  BY DEF Admitted, MadeInv
<1>h. \A a \in Made : Whom(a) = Whose(a)
  BY MadeGrows DEF Whose
<1>a. phones \subseteq phones' => \A a : Admitted(a) => Let(a)
  BY DEF Admitted
<1>f. ASSUME phones \subseteq phones',
             \A q \in Process : Right(q),
             \A q \in Process, a \in Made :
               Reaps(q, a) /\ Whose(a) \notin Hasty =>
                 \/ "me" \in DOMAIN work[q] /\ work[q].me = a /\ work[q].step \in {"reap", "cooldown"}
                 \/ \A p \in Process \ {q} :
                      ~("me" \in DOMAIN work[p] /\ work[p].me = a) /\ work'[p] = work[p],
             \A q \in Process : Reaps(q, work'[q].me) => work'[q].me \in Made
      PROVE  SendersInv'
  <2>1. \A q \in Process : Right(q)
    BY <1>f
  <2>2. ASSUME NEW p \in Process, NEW q \in Process, NEW a \in Made',
               Reaps(p, a), Reaps(q, a), Whom(a) \notin Hasty
        PROVE  p = q
    <3>1. a \in Made /\ Whose(a) \notin Hasty
      BY <1>f, <1>h, <2>2
    <3>2. QED
      BY <1>f, <2>2, <3>1 DEF SendersInv, SendsFor
  <2> HIDE DEF Let
  <2>3. \A q \in Process : "me" \in DOMAIN work'[q] =>
          Let(work'[q].me) /\ (work'[q].step = "cooldown" => work'[q].of = work'[q].me)
    BY <2>1
  <2>4. \A p, q \in Process, a \in Made' :
          /\ Whom(a) \notin Hasty
          /\ "me" \in DOMAIN work'[p] /\ work'[p].me = a
          /\ "me" \in DOMAIN work'[q] /\ work'[q].me = a
          /\ work'[p].step \in {"reap", "cooldown"} /\ work'[q].step \in {"reap", "cooldown"}
          => p = q
    BY <2>2
  <2>5. QED
    BY <2>3, <2>4 DEF SendersInv, SendsFor, At, Admitted, Whose, Let
<1>q. ASSUME phones \subseteq phones',
             \A q \in Process :
               \/ work'[q] = work[q]
               \/ "me" \notin DOMAIN work'[q]
               \/ /\ "me" \in DOMAIN work[q] /\ work'[q].me = work[q].me /\ work[q].step = "reap"
                  /\ work'[q].step = "cooldown" => work'[q].of = work'[q].me
               \/ Admitted(work'[q].me) /\ work'[q].step \notin {"reap", "cooldown"}
      PROVE  SendersInv'
  <2>1. \A q \in Process : Right(q)
    BY <1>a, <1>q DEF SendersInv, At
  <2>2. \A q \in Process : \A a : Reaps(q, a) =>
          "me" \in DOMAIN work[q] /\ work[q].me = a /\ work[q].step \in {"reap", "cooldown"}
    BY <1>q
  <2>3. \A q \in Process : Reaps(q, work'[q].me) => work'[q].me \in Made
    BY <1>m, <2>2 DEF SendersInv
  <2>4. QED
    BY <1>f, <1>q, <2>1, <2>2, <2>3
<1>1. CASE Aside
  BY <1>1, <1>q DEF Aside, Uninvolved
<1>2. ASSUME NEW p \in Request, NEW l \in Login, NEW i \in Person, FindUser(p, l, i)
      PROVE  SendersInv'
  <2>1. p \in Process /\ phones' = phones
    BY <1>2 DEF Process, FindUser
  <2>2. \A q \in Process \ {p} : work'[q] = work[q]
    BY <1>2, <2>1, TurnWork
  <2>3. work'[p] = work[p] \/ "me" \notin DOMAIN work'[p]
    BY <1>2, <1>d, <2>1 DEF FindUser, Goes
  <2>4. QED
    BY <1>q, <2>1, <2>2, <2>3
<1>3. ASSUME NEW p \in Process, CreateUser(p) \/ CreateAccessToken(p) \/ AnswerLogin(p) \/ ResetCooldown(p)
      PROVE  SendersInv'
  <2>1. phones \subseteq phones' /\ \A q \in Process \ {p} : work'[q] = work[q]
    BY <1>3, TurnWork DEF CreateUser, CreateAccessToken, AnswerLogin, ResetCooldown, sessions
  <2>2. "me" \notin DOMAIN work'[p]
    <3>1. CASE CreateUser(p) \/ CreateAccessToken(p)
      BY <3>1, <1>d DEF CreateUser, CreateAccessToken, Goes, AfterToken, Idle
    <3>2. CASE AnswerLogin(p)
      BY <3>2, TurnWork DEF Idle
    <3>3. CASE ResetCooldown(p)
      BY <3>3, <1>w, TurnWork, Owners DEF ResetCooldown, At, Idle, Answers
    <3>4. QED
      BY <1>3, <3>1, <3>2, <3>3
  <2>3. QED
    BY <1>q, <2>1, <2>2
<1>4. ASSUME NEW p \in Process, AddSwipes(p) \/ IsCutShort(p)
      PROVE  SendersInv'
  <2>1. phones' = phones /\ \A q \in Process \ {p} : work'[q] = work[q]
    BY <1>4, TurnWork DEF AddSwipes, IsCutShort, Fails, sessions
  <2>2. CASE IsCutShort(p)
    BY <1>q, <2>1, <2>2, TurnWork
  <2>3. CASE AddSwipes(p)
    <3>1. work[p].step = "reap" /\ "me" \in DOMAIN work[p]
      BY <1>w, <2>3, Senders DEF AddSwipes, At
    <3>2. work'[p] = AfterReap(work[p].me) \/ work'[p] = Idle
      BY <2>3, TurnWork
    <3>3. \/ "me" \notin DOMAIN work'[p]
          \/ work'[p].me = work[p].me /\ work'[p].of = work'[p].me
      BY <3>2 DEF AfterReap, Idle
    <3>4. QED
      BY <1>q, <2>1, <3>1, <3>3
  <2>4. QED
    BY <1>4, <2>2, <2>3
<1>5. ASSUME NEW p \in Request, NEW a \in Account, Reap(p, a)
      PROVE  SendersInv'
  <2>1. p \in Process /\ phones' = phones /\ \A q \in Process \ {p} : work'[q] = work[q]
    BY <1>5, TurnWork DEF Process, Reap, sessions
  <2>2. work'[p] = [step |-> "reap", me |-> a]
    BY <1>5, <1>d, <2>1 DEF Reap, Goes
  <2>3. Admitted(a) /\ (Whose(a) \in Hasty \/ ~Busy(a))
    BY <1>5 DEF Reap, Sends
  <2>4. \A q \in Process : Right(q)
    <3>1. \A q \in Process \ {p} : Right(q)
      BY <1>a, <2>1 DEF SendersInv, At
    <3>2. Right(p)
      BY <1>a, <2>1, <2>2, <2>3
    <3>3. QED
      BY <3>1, <3>2
  <2>5. \A q \in Process, b \in Made :
          Reaps(q, b) /\ Whose(b) \notin Hasty =>
            \/ "me" \in DOMAIN work[q] /\ work[q].me = b /\ work[q].step \in {"reap", "cooldown"}
            \/ \A o \in Process \ {q} :
                 ~("me" \in DOMAIN work[o] /\ work[o].me = b) /\ work'[o] = work[o]
    BY <2>1, <2>2, <2>3 DEF Busy
  <2>6. \A q \in Process : Reaps(q, work'[q].me) => work'[q].me \in Made
    BY <1>m, <2>1, <2>2, <2>3 DEF SendersInv
  <2>7. QED
    BY <1>f, <2>1, <2>4, <2>5, <2>6
<1>6. ASSUME NEW a \in Account, ExpireCooldown(a)
      PROVE  SendersInv'
  BY <1>6, <1>q DEF ExpireCooldown, accountVars
<1>7. QED
  BY <1>1, <1>2, <1>3, <1>4, <1>5, <1>6, Turns

\* At the start nobody is logging in, and everybody who has an account has waited for
\* one period.
LEMMA PeriodsInit == Init => OwnersInv /\ FirstInv /\ SendersInv /\ PeriodsInv
<1> SUFFICES ASSUME Init PROVE OwnersInv /\ FirstInv /\ SendersInv /\ PeriodsInv
  OBVIOUS
<1>1. \A p \in Process : work[p].step = "idle" /\ "owner" \notin DOMAIN work[p] /\ "me" \notin DOMAIN work[p]
  BY DEF Init, AccountsInit, Idle
<1>2. Made = Registered /\ DOMAIN owner = Registered
  BY DEF Init, AccountsInit, Made
<1>3. OwnersInv /\ FirstInv /\ SendersInv
  BY <1>1, <1>2 DEF OwnersInv, FirstInv, SendersInv, LogsInTo, SendsFor, At, Whose, Init, AccountsInit
<1>4. \A a \in Registered : reaped[a] = 0 /\ expired[a] = 1 /\ failures = 0
  BY Names DEF Init, AccountsInit, SwipesInit
<1>5. PeriodsInv
  BY <1>1, <1>2, <1>4 DEF PeriodsInv, At
<1>6. QED
  BY <1>3, <1>5

\* Every step lets a user who waits reap again only when another cooldown has run out,
\* or something has failed.
LEMMA PeriodsStep ==
  ASSUME TypeOK, LoginsInv, MadeInv, OwnersInv, FirstInv, SendersInv, PeriodsInv, [Next]_vars
  PROVE  PeriodsInv'
<1>w. \A q \in Process : Working(work[q]) /\ Working(work'[q])
  BY TypeStep DEF TypeOK, WorkOK
<1>d. DOMAIN work = Process
  BY DEF TypeOK, WorkOK
<1>n. /\ Made \subseteq Account /\ failures \in Nat
      /\ \A a \in Account : reaped[a] \in Nat /\ expired[a] \in Nat
      /\ DOMAIN reaped = Account /\ DOMAIN expired = Account
  <2>1. reaped \in [Account -> Nat] /\ expired \in [Account -> Nat] /\ failures \in Nat
    BY AccountsAssumption DEF TypeOK, BalancesOK
  <2>2. Made \subseteq Account
    BY Names DEF Made, TypeOK, SessionsOK
  <2>3. QED
    BY <2>1, <2>2
<1> DEFINE
  Let(a) == \E t \in Token : <<a, t>> \in phones'
  Whom(a) == IF a \in Registered THEN a ELSE logins'[a]
  Into(q, a) == "owner" \in DOMAIN work'[q] /\ work'[q].step # "create" /\ work'[q].of = a
  Starts(q, a) ==
    (work'[q].step = "cooldown" \/ (work'[q].step = "token" /\ work'[q].new)) /\ work'[q].of = a
  Owe(a) == a \in cooldown' \/ \E q \in Process : Starts(q, a)
  Know(a) == a \in DOMAIN owner' \/ Let(a) \/ \E q \in Process : Into(q, a)
  Right(a) ==
    /\ reaped'[a] <= expired'[a] + failures'
    /\ Know(a) /\ ~Owe(a) => reaped'[a] < expired'[a] + failures'
    /\ \A q \in Process : work'[q].step = "reap" /\ work'[q].me = a => ~Owe(a)
<1>f. (\A a \in Made' : Whom(a) \notin Hasty => Right(a)) => PeriodsInv'
  BY DEF PeriodsInv, Known, Owes, Starting, LogsInTo, Admitted, At, Whose
<1>h. \A a \in Made : Whom(a) = Whose(a)
  BY MadeGrows DEF Whose
<1>a. phones' = phones => \A a : Let(a) <=> Admitted(a)
  BY DEF Admitted
<1>s. \A q \in Process : \A a :
        work'[q] = work[q] => (Into(q, a) <=> LogsInTo(q, a)) /\ (Starts(q, a) <=> Starting(q, a))
  BY DEF LogsInTo, Starting, At
<1>u. \A q \in Process : \A a :
        /\ Uninvolved(work[q]) => ~Starting(q, a) /\ ~LogsInTo(q, a)
        /\ Uninvolved(work'[q]) => ~Starts(q, a) /\ ~Into(q, a) /\ work'[q].step # "reap"
  BY <1>w, Owners DEF Uninvolved, Starting, LogsInTo, At
<1>m. Made' = Made \/ \E p \in Request, l \in Login, i \in Person : FindUser(p, l, i)
  BY Turns DEF Aside, Made, CreateUser, CreateAccessToken, AnswerLogin, AddSwipes, ResetCooldown,
               IsCutShort, Fails, Reap, ExpireCooldown, sessions, accountVars
<1>q. ASSUME NEW a \in Made, Whose(a) \notin Hasty,
             reaped'[a] = reaped[a], expired'[a] = expired[a], failures' = failures,
             Owe(a) <=> Owes(a), Know(a) => Known(a),
             \A q \in Process : work'[q].step = "reap" /\ work'[q].me = a =>
               work[q].step = "reap" /\ work[q].me = a
      PROVE  Right(a)
  BY <1>q DEF PeriodsInv, At
<1> HIDE DEF Let, Whom, Into, Starts
<1>1. CASE Aside
  <2>1. ASSUME NEW a \in Made, Whose(a) \notin Hasty PROVE Right(a)
    <3>1. \A q \in Process : (Into(q, a) <=> LogsInTo(q, a)) /\ (Starts(q, a) <=> Starting(q, a))
      BY <1>1, <1>s, <1>u DEF Aside
    <3>2. (Owe(a) <=> Owes(a)) /\ (Know(a) => Known(a))
      BY <1>1, <1>a, <3>1 DEF Aside, Owes, Known
    <3>3. \A q \in Process : work'[q].step = "reap" /\ work'[q].me = a =>
            work[q].step = "reap" /\ work[q].me = a
      BY <1>1, <1>u DEF Aside
    <3>4. QED
      BY <1>1, <1>q, <2>1, <3>2, <3>3 DEF Aside
  <2>2. Made' = Made
    BY <1>1 DEF Aside, Made
  <2>3. QED
    BY <1>f, <1>h, <2>1, <2>2
<1>2. ASSUME NEW p \in Request, NEW l \in Login, NEW i \in Person, FindUser(p, l, i), UNCHANGED swipeVars
      PROVE  PeriodsInv'
  <2>1. /\ p \in Process /\ owner' = owner /\ phones' = phones /\ failures' = failures
        /\ reaped' = reaped /\ expired' = expired /\ cooldown' = cooldown
    BY <1>2 DEF Process, FindUser, tables, fixed, swipeVars
  <2>2. \A q \in Process \ {p} : work'[q] = work[q]
    BY <1>2, <2>1, TurnWork
  <2>3. l \notin Made /\ Made' = Made \cup {l} /\ l \in Account
    BY <1>2, AccountsAssumption, Names DEF FindUser, Made, Put
  <2>4. work[p].step = "idle" /\ "owner" \notin DOMAIN work[p]
    <3>1. At(p, "idle")
      BY <1>2 DEF FindUser, Free
    <3>2. QED
      BY <1>w, <2>1, <3>1, Senders DEF At
  <2>5. \/ work'[p] = work[p]
        \/ work'[p] = [step |-> "create", login |-> l, owner |-> i]
        \/ \E a \in Found(i) :
             work'[p] = [step |-> "token", login |-> l, owner |-> i, of |-> a, new |-> FALSE]
    BY <1>2, <1>d, <2>1 DEF FindUser, Goes
  <2>6. /\ work'[p].step # "reap"
        /\ \A a : ~Starts(p, a)
        /\ \A a : Into(p, a) => a \in DOMAIN owner
    <3>1. CASE work'[p] = work[p]
      BY <2>4, <3>1 DEF Starts, Into
    <3>2. CASE work'[p] = [step |-> "create", login |-> l, owner |-> i]
      BY <3>2 DEF Starts, Into
    <3>3. ASSUME NEW a \in Found(i),
                 work'[p] = [step |-> "token", login |-> l, owner |-> i, of |-> a, new |-> FALSE]
          PROVE  /\ work'[p].step # "reap"
                 /\ \A b : ~Starts(p, b)
                 /\ \A b : Into(p, b) => b \in DOMAIN owner
      BY <3>3 DEF Starts, Into, Found
    <3>4. QED
      BY <2>5, <3>1, <3>2, <3>3
  <2>7. ASSUME NEW a \in Made, Whose(a) \notin Hasty PROVE Right(a)
    <3>1. ~Starting(p, a)
      BY <2>4 DEF Starting, At
    <3>2. Owe(a) <=> Owes(a)
      BY <1>s, <2>1, <2>2, <2>6, <3>1 DEF Owes
    <3>3. Know(a) => Known(a)
      BY <1>a, <1>s, <2>1, <2>2, <2>6 DEF Known
    <3>4. \A q \in Process : work'[q].step = "reap" => work'[q] = work[q]
      BY <2>2, <2>6
    <3>5. QED
      BY <1>q, <2>1, <2>7, <3>2, <3>3, <3>4
  <2>8. Right(l)
    <3>1. reaped[l] = 0
      BY <2>3 DEF MadeInv
    <3>2. l \notin DOMAIN owner /\ ~Admitted(l)
      <4>1. \A t : <<l, t>> \in phones => <<l, t>>[1] \in Made
        BY DEF MadeInv
      <4>2. QED
        BY <2>3, <4>1 DEF MadeInv, Admitted
    <3>3. \A q \in Process : ~LogsInTo(q, l)
      BY <2>3 DEF MadeInv, LogsInTo, At
    <3>4. ~Know(l)
      BY <1>a, <1>s, <2>1, <2>2, <2>6, <3>2, <3>3
    <3>5. \A q \in Process : work'[q].step = "reap" => work'[q].me # l
      BY <2>2, <2>3, <2>6 DEF MadeInv
    <3>6. reaped'[l] <= expired'[l] + failures'
      BY <1>n, <2>1, <2>3, <3>1
    <3>7. QED
      BY <3>4, <3>5, <3>6
  <2>9. QED
    BY <1>f, <1>h, <2>3, <2>7, <2>8
<1>3. ASSUME NEW p \in Process, CreateUser(p), UNCHANGED swipeVars
      PROVE  PeriodsInv'
  <2> DEFINE r == work[p]
  <2>1. /\ logins' = logins /\ phones' = phones /\ failures' = failures
        /\ reaped' = reaped /\ expired' = expired /\ cooldown' = cooldown
    BY <1>3 DEF CreateUser, sessions, fixed, swipeVars
  <2>2. \A q \in Process \ {p} : work'[q] = work[q]
    BY <1>3, TurnWork
  <2>3. work'[p] = [step |-> "token", login |-> r.login, owner |-> r.owner, of |-> r.login, new |-> TRUE]
    BY <1>3, <1>d DEF CreateUser, Goes
  <2>4. r.step = "create" /\ "owner" \in DOMAIN r /\ r.owner = Whose(r.login) /\ r.login \in Made
    BY <1>3, <1>w, Owners DEF CreateUser, OwnersInv, MadeInv, At
  <2>5. DOMAIN owner' = DOMAIN owner \cup {r.login}
    BY <1>3 DEF CreateUser, Put
  <2>6. /\ work'[p].step = "token" /\ work'[p].of = r.login /\ work'[p].new
    BY <2>3
  <2>7. \A a : a # r.login => ~Starts(p, a) /\ ~Into(p, a)
    BY <2>6 DEF Starts, Into
  <2>8. \A a : ~Starting(p, a) /\ ~LogsInTo(p, a)
    BY <2>4 DEF Starting, LogsInTo, At
  <2>9. \A q \in Process : work'[q].step = "reap" => work'[q] = work[q]
    BY <2>2, <2>6
  <2>10. ASSUME NEW a \in Made, Whose(a) \notin Hasty, a # r.login PROVE Right(a)
    <3>1. Owe(a) <=> Owes(a)
      BY <1>s, <2>1, <2>2, <2>7, <2>8, <2>10 DEF Owes
    <3>2. Know(a) => Known(a)
      BY <1>a, <1>s, <2>1, <2>2, <2>5, <2>7, <2>10 DEF Known
    <3>3. QED
      BY <1>q, <2>1, <2>9, <2>10, <3>1, <3>2
  <2>11. ASSUME NEW a \in Made, Whose(a) \notin Hasty, a = r.login PROVE Right(a)
    <3>1. Starts(p, a)
      BY <2>6, <2>11 DEF Starts
    <3>2. ~Admitted(a)
      BY <2>4, <2>11 DEF FirstInv, At
    <3>3. \A q \in Process : work'[q].step = "reap" => work'[q].me # a
      <4>1. \A q \in Process : work[q].step = "reap" => Admitted(work[q].me)
        BY <1>w, Senders DEF SendersInv
      <4>2. QED
        BY <2>9, <3>2, <4>1
    <3>4. reaped'[a] <= expired'[a] + failures'
      BY <2>1, <2>11 DEF PeriodsInv
    <3>5. QED
      BY <3>1, <3>3, <3>4
  <2>12. Made' = Made
    BY <2>1 DEF Made
  <2>13. QED
    BY <1>f, <1>h, <2>10, <2>11, <2>12
<1>4. ASSUME NEW p \in Process, CreateAccessToken(p), UNCHANGED swipeVars
      PROVE  PeriodsInv'
  <2> DEFINE r == work[p]
  <2>1. /\ logins' = logins /\ phones' = phones /\ failures' = failures /\ owner' = owner
        /\ reaped' = reaped /\ expired' = expired /\ cooldown' = cooldown
    BY <1>4 DEF CreateAccessToken, sessions, fixed, swipeVars
  <2>2. \A q \in Process \ {p} : work'[q] = work[q]
    BY <1>4, TurnWork
  <2>3. r.step = "token" /\ "owner" \in DOMAIN r
    BY <1>4, <1>w, Owners DEF CreateAccessToken, At
  <2>4. \/ work'[p] = AfterToken(r)
        \/ r.of \notin DOMAIN owner /\ work'[p] = Idle
    BY <1>4, <1>d DEF CreateAccessToken, Goes
  <2>5. work'[p].step # "reap" /\ \A a : Into(p, a) => LogsInTo(p, a)
    BY <2>3, <2>4 DEF AfterToken, Idle, Into, LogsInTo, At
  <2>6. ASSUME NEW a \in Made, Whose(a) \notin Hasty PROVE Right(a)
    <3>1. Starts(p, a) <=> Starting(p, a)
      <4>1. CASE work'[p] = AfterToken(r)
        BY <2>3, <4>1 DEF AfterToken, Starts, Starting, At
      <4>2. CASE r.of \notin DOMAIN owner /\ work'[p] = Idle
        <5>1. ~Starts(p, a)
          BY <4>2 DEF Idle, Starts
        <5>2. ASSUME r.of = a, r.new PROVE FALSE
          <6>1. r.owner = Whose(a)
            BY <1>n, <2>3, <5>2 DEF OwnersInv, LogsInTo, At
          <6>2. QED
            BY <2>3, <2>6, <4>2, <5>2, <6>1 DEF FirstInv, At
        <5>3. QED
          BY <2>3, <5>1, <5>2 DEF Starting, At
      <4>3. QED
        BY <2>4, <4>1, <4>2
    <3>2. Owe(a) <=> Owes(a)
      BY <1>s, <2>1, <2>2, <3>1 DEF Owes
    <3>3. Know(a) => Known(a)
      BY <1>a, <1>s, <2>1, <2>2, <2>5 DEF Known
    <3>4. \A q \in Process : work'[q].step = "reap" => work'[q] = work[q]
      BY <2>2, <2>5
    <3>5. QED
      BY <1>q, <2>1, <2>6, <3>2, <3>3, <3>4
  <2>7. Made' = Made
    BY <2>1 DEF Made
  <2>8. QED
    BY <1>f, <1>h, <2>6, <2>7
<1>5. ASSUME NEW p \in Process, AnswerLogin(p), UNCHANGED swipeVars
      PROVE  PeriodsInv'
  <2> DEFINE r == work[p]
  <2>1. /\ logins' = logins /\ failures' = failures /\ owner' = owner
        /\ phones' = phones \cup {<<r.of, r.login>>}
        /\ reaped' = reaped /\ expired' = expired /\ cooldown' = cooldown
    BY <1>5 DEF AnswerLogin, tables, fixed, swipeVars
  <2>2. \A q \in Process \ {p} : work'[q] = work[q]
    BY <1>5, TurnWork
  <2>3. r.step = "answer" /\ LogsInTo(p, r.of)
    BY <1>5, <1>w, Owners DEF AnswerLogin, LogsInTo, At
  <2>4. work'[p].step = "idle" /\ "owner" \notin DOMAIN work'[p]
    BY <1>5, TurnWork DEF Idle
  <2>5. ASSUME NEW a \in Made, Whose(a) \notin Hasty PROVE Right(a)
    <3>1. ~Starts(p, a) /\ ~Starting(p, a) /\ ~Into(p, a)
      BY <2>3, <2>4 DEF Starts, Starting, Into, At
    <3>2. Owe(a) <=> Owes(a)
      BY <1>s, <2>1, <2>2, <3>1 DEF Owes
    <3>3. Let(a) => Admitted(a) \/ LogsInTo(p, a)
      BY <2>1, <2>3 DEF Let, Admitted
    <3>4. Know(a) => Known(a)
      BY <1>s, <2>1, <2>2, <3>1, <3>3 DEF Known
    <3>5. \A q \in Process : work'[q].step = "reap" => work'[q] = work[q]
      BY <2>2, <2>4
    <3>6. QED
      BY <1>q, <2>1, <2>5, <3>2, <3>4, <3>5
  <2>6. Made' = Made
    BY <2>1 DEF Made
  <2>7. QED
    BY <1>f, <1>h, <2>5, <2>6
<1>6. ASSUME NEW p \in Process, ResetCooldown(p)
      PROVE  PeriodsInv'
  <2> DEFINE r == work[p]
  <2>1. /\ logins' = logins /\ failures' = failures /\ owner' = owner /\ phones' = phones
        /\ reaped' = reaped /\ expired' = expired /\ cooldown' = cooldown \cup {r.of}
    BY <1>6 DEF ResetCooldown, tables, sessions, fixed, history
  <2>2. \A q \in Process \ {p} : work'[q] = work[q]
    BY <1>6, TurnWork
  <2>3. r.step = "cooldown" /\ work'[p] = r.then
    BY <1>6, TurnWork DEF ResetCooldown, At
  <2>4. /\ work'[p].step \in {"idle", "answer"}
        /\ "owner" \in DOMAIN work'[p] => "owner" \in DOMAIN r /\ work'[p].of = r.of
    BY <1>w, <2>3, Owners DEF Idle, Answers
  <2>5. ASSUME NEW a \in Made, Whose(a) \notin Hasty PROVE Right(a)
    <3>1. ~Starts(p, a) /\ (Starting(p, a) <=> a = r.of)
      BY <2>3, <2>4 DEF Starts, Starting, At
    <3>2. Owe(a) <=> Owes(a)
      BY <1>s, <2>1, <2>2, <3>1 DEF Owes
    <3>3. Into(p, a) => LogsInTo(p, a)
      BY <2>3, <2>4 DEF Into, LogsInTo, At
    <3>4. Know(a) => Known(a)
      BY <1>a, <1>s, <2>1, <2>2, <3>3 DEF Known
    <3>5. \A q \in Process : work'[q].step = "reap" => work'[q] = work[q]
      BY <2>2, <2>4
    <3>6. QED
      BY <1>q, <2>1, <2>5, <3>2, <3>4, <3>5
  <2>6. Made' = Made
    BY <2>1 DEF Made
  <2>7. QED
    BY <1>f, <1>h, <2>5, <2>6
<1>7. ASSUME NEW p \in Process, AddSwipes(p)
      PROVE  PeriodsInv'
  <2> DEFINE r == work[p]
  <2>1. /\ logins' = logins /\ failures' = failures /\ owner' = owner /\ phones' = phones
        /\ expired' = expired /\ cooldown' = cooldown
    BY <1>7 DEF AddSwipes, tables, sessions, fixed
  <2>2. \A q \in Process \ {p} : work'[q] = work[q]
    BY <1>7, TurnWork
  <2>3. /\ r.step = "reap" /\ "me" \in DOMAIN r /\ "owner" \notin DOMAIN r
        /\ r.me \in Made /\ Admitted(r.me)
    BY <1>7, <1>w, Senders DEF AddSwipes, At, MadeInv, SendersInv
  <2>4. \/ work'[p] = AfterReap(r.me) /\ reaped' = [reaped EXCEPT ![r.me] = @ + 1]
        \/ work'[p] = Idle /\ reaped' = reaped
    BY <1>7, <1>d DEF AddSwipes, Goes
  <2>5. /\ work'[p].step \in {"cooldown", "idle"} /\ "owner" \notin DOMAIN work'[p]
        /\ work'[p].step = "cooldown" => work'[p].of = r.me
    BY <2>4 DEF AfterReap, Idle
  <2>6. \A a : ~Into(p, a) /\ ~Starting(p, a) /\ (Starts(p, a) => a = r.me)
    BY <2>3, <2>5 DEF Into, Starts, Starting, At
  <2>7. \A q \in Process : work'[q].step = "reap" => q # p /\ work'[q] = work[q]
    BY <2>2, <2>5
  <2>8. \A a : Know(a) => Known(a)
    BY <1>a, <1>s, <2>1, <2>2, <2>6 DEF Known
  <2>9. ASSUME NEW a \in Made, Whose(a) \notin Hasty, a # r.me \/ reaped' = reaped PROVE Right(a)
    <3>1. ~Starts(p, a)
      <4>1. CASE a # r.me
        BY <2>6, <4>1
      <4>2. CASE reaped' = reaped
        <5>1. reaped'[r.me] = reaped[r.me] /\ reaped[r.me] \in Nat
          BY <1>n, <2>3, <4>2
        <5>2. work'[p] = Idle
          BY <1>n, <2>3, <2>4, <5>1
        <5>3. QED
          BY <5>2 DEF Idle, Starts
      <4>3. QED
        BY <2>9, <4>1, <4>2
    <3>2. Owe(a) <=> Owes(a)
      BY <1>s, <2>1, <2>2, <2>6, <3>1 DEF Owes
    <3>3. reaped'[a] = reaped[a]
      BY <1>n, <2>4, <2>9
    <3>4. QED
      BY <1>q, <2>1, <2>7, <2>8, <2>9, <3>2, <3>3
  <2>10. ASSUME NEW a \in Made, Whose(a) \notin Hasty, a = r.me, work'[p] = AfterReap(r.me),
                reaped' = [reaped EXCEPT ![r.me] = @ + 1]
         PROVE  Right(a)
    <3>1. Known(a) /\ ~Owes(a)
      BY <2>3, <2>10 DEF Known, PeriodsInv, At
    <3>2. reaped[a] < expired[a] + failures
      BY <2>10, <3>1 DEF PeriodsInv
    <3>3. reaped'[a] <= expired'[a] + failures'
      BY <1>n, <2>1, <2>10, <3>2
    <3>4. Starts(p, a)
      BY <2>10 DEF AfterReap, Starts
    <3>5. ASSUME NEW q \in Process, work'[q].step = "reap", work'[q].me = a PROVE FALSE
      <4>1. q # p /\ work[q].step = "reap" /\ work[q].me = a
        BY <2>7, <3>5
      <4>2. SendsFor(p, a) /\ SendsFor(q, a)
        BY <1>w, <2>3, <2>10, <4>1, Senders DEF SendsFor
      <4>3. QED
        BY <2>3, <2>10, <4>1, <4>2 DEF SendersInv
    <3>6. QED
      BY <3>3, <3>4, <3>5
  <2>11. Made' = Made
    BY <2>1 DEF Made
  <2>12. QED
    BY <1>f, <1>h, <2>4, <2>9, <2>10, <2>11
<1>8. ASSUME NEW p \in Process, IsCutShort(p)
      PROVE  PeriodsInv'
  <2>1. /\ logins' = logins /\ failures' = failures + 1 /\ owner' = owner /\ phones' = phones
        /\ reaped' = reaped /\ expired' = expired /\ cooldown' = cooldown
    BY <1>8 DEF IsCutShort, Fails, tables, sessions, swipeVars
  <2>2. \A q \in Process \ {p} : work'[q] = work[q]
    BY <1>8, TurnWork
  <2>3. Uninvolved(work'[p])
    BY <1>8, TurnWork
  <2>4. \A a : ~Into(p, a) /\ ~Starts(p, a) /\ work'[p].step # "reap"
    BY <1>u, <2>3
  <2>5. ASSUME NEW a \in Made, Whose(a) \notin Hasty PROVE Right(a)
    <3>1. Owe(a) => Owes(a)
      BY <1>s, <2>1, <2>2, <2>4 DEF Owes
    <3>2. reaped'[a] < expired'[a] + failures'
      <4>1. reaped[a] <= expired[a] + failures
        BY <2>5 DEF PeriodsInv
      <4>2. QED
        BY <1>n, <2>1, <4>1
    <3>3. \A q \in Process : work'[q].step = "reap" /\ work'[q].me = a => ~Owe(a)
      BY <2>2, <2>4, <2>5, <3>1 DEF PeriodsInv, At
    <3>4. reaped'[a] <= expired'[a] + failures'
      BY <1>n, <2>1, <3>2
    <3>5. QED
      BY <3>2, <3>3, <3>4
  <2>6. Made' = Made
    BY <2>1 DEF Made
  <2>7. QED
    BY <1>f, <1>h, <2>5, <2>6
<1>9. ASSUME NEW p \in Request, NEW b \in Account, Reap(p, b)
      PROVE  PeriodsInv'
  <2>1. /\ p \in Process /\ logins' = logins /\ failures' = failures /\ owner' = owner
        /\ phones' = phones /\ reaped' = reaped /\ expired' = expired /\ cooldown' = cooldown
    BY <1>9 DEF Process, Reap, tables, sessions, fixed, history
  <2>2. \A q \in Process \ {p} : work'[q] = work[q]
    BY <1>9, <2>1, TurnWork
  <2>3. work'[p] = [step |-> "reap", me |-> b]
    BY <1>9, <1>d, <2>1 DEF Reap, Goes
  <2>4. work[p].step = "idle"
    BY <1>9 DEF Reap, Sends, Free, At
  <2>5. b \notin cooldown /\ Admitted(b) /\ (Whose(b) \in Hasty \/ ~Busy(b))
    BY <1>9 DEF Reap, Sends
  <2>6. \A a : ~Into(p, a) /\ ~Starts(p, a) /\ ~Starting(p, a)
    BY <2>3, <2>4 DEF Into, Starts, Starting, At
  <2>7. ASSUME NEW a \in Made, Whose(a) \notin Hasty PROVE Right(a)
    <3>1. Owe(a) <=> Owes(a)
      BY <1>s, <2>1, <2>2, <2>6 DEF Owes
    <3>2. Know(a) => Known(a)
      BY <1>a, <1>s, <2>1, <2>2, <2>6 DEF Known
    <3>3. ASSUME a = b, NEW q \in Process, Starting(q, a) PROVE FALSE
      <4>1. ~Busy(a) /\ Admitted(a)
        BY <2>5, <2>7, <3>3
      <4>2. CASE "owner" \in DOMAIN work[q]
        <5>1. LogsInTo(q, a)
          BY <3>3, <4>2 DEF Starting, LogsInTo, At
        <5>2. work[q].owner = Whose(a)
          BY <1>n, <5>1 DEF OwnersInv
        <5>3. QED
          BY <2>7, <3>3, <4>1, <4>2, <5>2 DEF FirstInv, Starting
      <4>3. CASE "owner" \notin DOMAIN work[q]
        <5>1. work[q].step = "cooldown" /\ work[q].of = a /\ "me" \in DOMAIN work[q]
          BY <1>w, <3>3, <4>3, Owners, Senders DEF Starting, At
        <5>2. work[q].me = a
          BY <5>1 DEF SendersInv, At
        <5>3. QED
          BY <4>1, <5>1, <5>2 DEF Busy
      <4>4. QED
        BY <4>2, <4>3
    <3>4. a = b => ~Owe(a)
      BY <2>5, <3>1, <3>3 DEF Owes
    <3>5. \A q \in Process : work'[q].step = "reap" /\ work'[q].me = a => ~Owe(a)
      BY <2>2, <2>3, <2>7, <3>1, <3>4 DEF PeriodsInv, At
    <3>6. QED
      BY <2>1, <2>7, <3>1, <3>2, <3>5 DEF PeriodsInv
  <2>8. Made' = Made
    BY <2>1 DEF Made
  <2>9. QED
    BY <1>f, <1>h, <2>7, <2>8
<1>10. ASSUME NEW b \in Account, ExpireCooldown(b)
       PROVE  PeriodsInv'
  <2>1. /\ logins' = logins /\ failures' = failures /\ owner' = owner /\ phones' = phones
        /\ work' = work /\ reaped' = reaped /\ b \in cooldown /\ cooldown' = cooldown \ {b}
        /\ expired' = [expired EXCEPT ![b] = @ + 1]
    BY <1>10 DEF ExpireCooldown, accountVars
  <2>2. \A a : Know(a) => Known(a)
    BY <1>a, <1>s, <2>1 DEF Known
  <2>3. ASSUME NEW a \in Made, Whose(a) \notin Hasty, a # b PROVE Right(a)
    <3>1. Owe(a) <=> Owes(a)
      BY <1>s, <2>1, <2>3 DEF Owes
    <3>2. expired'[a] = expired[a]
      BY <1>n, <2>1, <2>3
    <3>3. QED
      BY <1>q, <2>1, <2>2, <2>3, <3>1, <3>2
  <2>4. ASSUME NEW a \in Made, Whose(a) \notin Hasty, a = b PROVE Right(a)
    <3>1. \A q \in Process : ~(work[q].step = "reap" /\ work[q].me = a)
      BY <2>1, <2>4 DEF PeriodsInv, Owes, At
    <3>2. reaped[a] <= expired[a] + failures
      BY <2>4 DEF PeriodsInv
    <3>3. reaped'[a] < expired'[a] + failures'
      BY <1>n, <2>1, <2>4, <3>2
    <3>4. reaped'[a] <= expired'[a] + failures'
      BY <1>n, <2>1, <2>4, <3>2
    <3>5. QED
      BY <2>1, <3>1, <3>3, <3>4
  <2>5. Made' = Made
    BY <2>1 DEF Made
  <2>6. QED
    BY <1>f, <1>h, <2>3, <2>4, <2>5
<1>11. QED
  BY <1>1, <1>2, <1>3, <1>4, <1>5, <1>6, <1>7, <1>8, <1>9, <1>10, Turns

\* Of a user who waits for his answers, free swipes are added once for every cooldown
\* that has run out, but for what a failure has given away.
THEOREM ReapsBounded == Spec => []ReapOncePerPeriod
<1> DEFINE Inv == /\ TypeOK /\ LoginsInv /\ OneAccount /\ MadeInv
                  /\ OwnersInv /\ FirstInv /\ SendersInv /\ PeriodsInv
<1>1. Init => Inv
  BY TypeInit, LoginsInit, BalancesInit, PeriodsInit
<1>2. Inv /\ [Next]_vars => Inv'
  BY TypeStep, LoginsStep, MadeStep, OwnersStep, FirstStep, SendersStep, PeriodsStep
<1>3. Inv => ReapOncePerPeriod
  BY DEF PeriodsInv, ReapOncePerPeriod
<1>4. QED
  BY <1>1, <1>2, <1>3, PTL DEF Spec
===============================================================================
