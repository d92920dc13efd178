-------------------------------- MODULE Accounts --------------------------------
(***************************************************************************)
(* Accounts of the main server and who may use them: the login             *)
(* (swipe/swipe_server/endpoints.py), the check every other request starts *)
(* with (swipe/swipe_server/misc/security.py), the tables users and        *)
(* auth_info behind them, and the redis keys user_token:<id>.              *)
(*                                                                         *)
(* The server runs in several processes (settings.py:39), so requests      *)
(* interleave at every await and at every transaction; a redis command is  *)
(* one step, a transaction is one step.  A process of the model is a       *)
(* request in progress, whichever worker it is in.  An account and a token *)
(* are named after the login that makes them, where the code takes a fresh *)
(* uuid and the time; the account somebody has from the start is named     *)
(* after him, and so is the token he was given then.                       *)
(***************************************************************************)
EXTENDS Integers, FiniteSets

CONSTANTS
  Person,       \* who can log in: an auth provider with the id it knows him by
  Registered,   \* people who have an account from the start
  Fresh,        \* those of them who have not ended their registration
  Login,        \* bound: the logins of a run
  Attempts,     \* bound: Attempts[i] are those that may be of i
  Request,      \* bound: requests in progress at the same time
  Updater,      \* the process of bin/cache_updater.py
  Hasty,        \* people who do not wait for the answer to their last request
  Scenarios,    \* bound: who does what; one of them is chosen at the start
  MaxFailures   \* bound: requests and jobs that are cut short

Name == Registered \cup Login
Account == Name
Token == Name
Process == Request \cup {Updater}

ASSUME AccountsAssumption ==
  /\ Registered \subseteq Person
  /\ Fresh \subseteq Registered
  /\ IsFiniteSet(Person)
  /\ IsFiniteSet(Login)
  /\ Person \cap Login = {}
  /\ Attempts \in [Person -> SUBSET Login]
  /\ Updater \notin Request
  /\ Hasty \subseteq Person
  /\ MaxFailures \in Nat

VARIABLES
  users,     \* table users: the status of an account by its id
  owner,     \* table auth_info: whose account it is, by user_id
  current,   \* table auth_info: access_token by user_id, where it is set
  tokens,    \* redis: the token in user_token:<id>, by id
  phones,    \* <<account, token>>: what the logins have answered
  logins,    \* logins[l]: who has begun l
  work,      \* work[p]: what p has to do next
  failures,  \* requests and jobs cut short so far
  scenario   \* who does what, as <<person, kind of request>>; it never changes

tables == <<users, owner, current>>
sessions == <<tokens, phones, logins>>
fixed == <<failures, scenario>>
accountVars == <<users, owner, current, tokens, phones, logins, work, failures, scenario>>

Idle == [step |-> "idle"]

AccountsInit ==
  /\ users = [a \in Registered |-> IF a \in Fresh THEN "registration" ELSE "active"]
  /\ owner = [a \in Registered |-> a]
  /\ current = [a \in Registered |-> a]
  /\ tokens = <<>>
  /\ phones = {<<a, a>> : a \in Registered}
  /\ logins = <<>>
  /\ work = [p \in Process |-> Idle]
  /\ failures = 0
  /\ scenario \in Scenarios

Put(d, k, x) == [j \in DOMAIN d \cup {k} |-> IF j = k THEN x ELSE d[j]]
Without(d, k) == [j \in DOMAIN d \ {k} |-> d[j]]

At(p, step) == work[p].step = step
Goes(p, next) == work' = [work EXCEPT ![p] = next]
Free(p) == p \in Request /\ At(p, "idle")

\* get_user raises if he is deactivated, and so do those who are given None by it.
Present(a) == a \in DOMAIN users /\ users[a] # "deactivated"

Made == Registered \cup DOMAIN logins
Whose(a) == IF a \in Registered THEN a ELSE logins[a]

\* A request that has passed the check may wait for any time before it goes on.
Admitted(a) == \E t \in Token : <<a, t>> \in phones

-------------------------------------------------------------------------------
(* POST /auth *)

LoggingIn(i) == \E p \in Process : "owner" \in DOMAIN work[p] /\ work[p].owner = i

\* find_user_by_auth
Found_Active(i) == {a \in DOMAIN owner : owner[a] = i /\ users[a] = "active"}
Found(i) == {a \in DOMAIN owner : owner[a] = i}

\* It raises if there are several.
FindUser(p, l, i) ==
  /\ Free(p)
  /\ <<i, "login">> \in scenario
  /\ l \in Attempts[i] \ DOMAIN logins
  /\ i \in Hasty \/ ~LoggingIn(i)
  /\ logins' = Put(logins, l, i)
  /\ \/ /\ Found(i) = {}
        /\ Goes(p, [step |-> "create", login |-> l, owner |-> i])
     \/ \E a \in Found(i) :
          /\ Found(i) = {a}
          /\ Goes(p, [step |-> "token", login |-> l, owner |-> i, of |-> a, new |-> FALSE])
     \/ /\ \E a, b \in Found(i) : a # b
        /\ UNCHANGED work
  /\ UNCHANGED <<tables, tokens, phones, fixed>>

CreateUser(p) ==
  LET r == work[p]
  IN /\ At(p, "create")
     /\ users' = Put(users, r.login, "registration")
     /\ owner' = Put(owner, r.login, r.owner)
     /\ Goes(p, [step |-> "token", login |-> r.login, owner |-> r.owner,
                 of |-> r.login, new |-> TRUE])
     /\ UNCHANGED <<current, sessions, fixed>>

\* The cooldown of the free swipes of a new user is set before he is answered.
AfterToken(r) ==
  LET answer == [step |-> "answer", login |-> r.login, owner |-> r.owner, of |-> r.of]
  IN IF r.new THEN [step |-> "cooldown", owner |-> r.owner, of |-> r.of, then |-> answer]
     ELSE answer

\* create_access_token raises if the row has been deleted since it was found.
CreateAccessToken(p) ==
  LET r == work[p]
  IN /\ At(p, "token")
     /\ \/ /\ r.of \in DOMAIN owner
           /\ current' = Put(current, r.of, r.login)
           /\ Goes(p, AfterToken(r))
        \/ /\ r.of \notin DOMAIN owner
           /\ Goes(p, Idle)
           /\ UNCHANGED current
     /\ UNCHANGED <<users, owner, sessions, fixed>>

\* save_auth_token, and the answer.
AnswerLogin(p) ==
  LET r == work[p]
  IN /\ At(p, "answer")
     /\ tokens' = Put(tokens, r.of, r.login)
     /\ phones' = phones \cup {<<r.of, r.login>>}
     /\ Goes(p, Idle)
     /\ UNCHANGED <<tables, logins, fixed>>

-------------------------------------------------------------------------------
(* auth_user_id *)

Valid_AnyToken(a, t) == a \in DOMAIN current
Valid(a, t) == a \in DOMAIN current /\ current[a] = t /\ Present(a)

\* A token in the cache decides at once, for or against, and nothing changes.
Authorize(p, a, t) ==
  /\ Free(p)
  /\ <<a, t>> \in phones
  /\ <<Whose(a), "check">> \in scenario
  /\ a \notin DOMAIN tokens
  /\ Goes(p, [step |-> "check", me |-> a, token |-> t])
  /\ UNCHANGED <<tables, sessions, fixed>>

\* check_token
CheckToken(p) ==
  LET r == work[p]
  IN /\ At(p, "check")
     /\ Goes(p, IF Valid(r.me, r.token) THEN [step |-> "save", me |-> r.me, token |-> r.token]
                ELSE Idle)
     /\ UNCHANGED <<tables, sessions, fixed>>

SaveToken(p) ==
  LET r == work[p]
  IN /\ At(p, "save")
     /\ tokens' = Put(tokens, r.me, r.token)
     /\ Goes(p, Idle)
     /\ UNCHANGED <<tables, phones, logins, fixed>>

\* USER_AUTH_TOKEN_TTL_SEC have passed since the token was saved.
ExpireToken(a) ==
  /\ a \in DOMAIN tokens
  /\ tokens' = Without(tokens, a)
  /\ UNCHANGED <<tables, phones, logins, work, fixed>>

-------------------------------------------------------------------------------
\* The connection to redis or to the database raises, or the process is stopped:
\* what has been done stays done, the rest is not.  Only where a profile is cached
\* an error of redis is caught.
Fails(p) ==
  /\ ~At(p, "idle")
  /\ failures < MaxFailures
  /\ failures' = failures + 1
  /\ Goes(p, Idle) \/ (At(p, "keep") /\ Goes(p, work[p].then))
  /\ UNCHANGED <<tables, sessions, scenario>>

\* The tables forget who may log in to an account: deactivate_user deletes
\* auth_info, delete_user the row it depends on.
Revoke(a) == owner' = Without(owner, a) /\ current' = Without(current, a)

===============================================================================
