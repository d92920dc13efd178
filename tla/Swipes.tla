--------------------------------- MODULE Swipes ---------------------------------
(***************************************************************************)
(* Swipes and ratings (swipe/swipe_server/users/endpoints/swipes.py,       *)
(* users.py, me.py and the methods of UserService they call).  Half an     *)
(* hour after the last time a user may reap free swipes; a swipe to the    *)
(* left costs one.  Some of the updates are arithmetic in the database,    *)
(* the others read a value into the session and write the result back.     *)
(***************************************************************************)
EXTENDS Accounts

CONSTANTS
  SwipesDefault, SwipesPerPeriod,     \* settings.py:11, 9
  FeedbackDiff, RatingBonus,          \* settings.py:13, 15-18
  MaxRequests   \* bound: requests that change something, of all users

ASSUME SwipesAssumption ==
  /\ SwipesDefault \in Nat
  /\ SwipesPerPeriod \in Nat
  /\ FeedbackDiff \in Nat
  /\ RatingBonus \in Nat
  /\ MaxRequests \in Nat

VARIABLES
  swipes,    \* users.swipes by id
  rating,    \* users.rating by id
  cooldown,  \* ids for which redis has the key free_swipes_cooldown:<id>
  requests,  \* requests so far
  reaped,    \* reaped[a]: how often swipes have been added
  used,      \* used[a]: how often swipes have been taken
  expired    \* expired[a]: how often a cooldown has run out

balances == <<swipes, rating>>
history == <<reaped, used, expired>>
swipeVars == <<swipes, rating, cooldown, requests, reaped, used, expired>>

SwipesInit ==
  /\ swipes = [a \in Account |-> SwipesDefault]
  /\ rating = [a \in Account |-> 0]
  /\ cooldown = {}
  /\ requests = 0
  /\ reaped = [a \in Account |-> 0]
  /\ used = [a \in Account |-> 0]
  /\ expired = [a \in Account |-> IF a \in Registered THEN 1 ELSE 0]

Busy(a) == \E p \in Process : "me" \in DOMAIN work[p] /\ work[p].me = a
Sends(p, a, kind) ==
  /\ Free(p)
  /\ Admitted(a)
  /\ <<Whose(a), kind>> \in scenario
  /\ Whose(a) \in Hasty \/ ~Busy(a)
  /\ requests < MaxRequests
  /\ requests' = requests + 1

-------------------------------------------------------------------------------
(* POST /me/swipes/reap *)

\* While the key is there, the answer is 409.
Reap(p, a) ==
  /\ Sends(p, a, "reap")
  /\ a \notin cooldown
  /\ Goes(p, [step |-> "reap", me |-> a])
  /\ UNCHANGED <<tables, sessions, fixed, balances, cooldown, history>>

AfterReap_NoCooldown(a) == Idle
AfterReap(a) == [step |-> "cooldown", me |-> a, of |-> a, then |-> Idle]

\* add_swipes is one update; it raises if the row is gone.
AddSwipes(p) ==
  LET a == work[p].me
  IN /\ At(p, "reap")
     /\ \/ /\ a \in DOMAIN users
           /\ swipes' = [swipes EXCEPT ![a] = @ + SwipesPerPeriod]
           /\ reaped' = [reaped EXCEPT ![a] = @ + 1]
           /\ Goes(p, AfterReap(a))
        \/ /\ a \notin DOMAIN users
           /\ Goes(p, Idle)
           /\ UNCHANGED <<swipes, reaped>>
     /\ UNCHANGED <<tables, sessions, fixed, rating, cooldown, requests, used, expired>>

\* reset_swipe_reap_timestamp, after a reap and when an account is made.
ResetCooldown(p) ==
  /\ At(p, "cooldown")
  /\ cooldown' = cooldown \cup {work[p].of}
  /\ Goes(p, work[p].then)
  /\ UNCHANGED <<tables, sessions, fixed, balances, requests, history>>

\* SWIPES_REAP_TIMEOUT_SEC have passed.
ExpireCooldown(a) ==
  /\ a \in cooldown
  /\ cooldown' = cooldown \ {a}
  /\ expired' = [expired EXCEPT ![a] = @ + 1]
  /\ UNCHANGED <<accountVars, balances, requests, reaped, used>>

-------------------------------------------------------------------------------
(* POST /users/{id}/swipe_left *)

Left_OneMore(n) == n >= 0
Left(n) == n >= 1

SwipeLeft(p, a) ==
  /\ Sends(p, a, "swipe")
  /\ Present(a)
  /\ Left(swipes[a])
  /\ Goes(p, [step |-> "swipe", me |-> a, left |-> swipes[a] - 1])
  /\ UNCHANGED <<tables, sessions, fixed, balances, cooldown, history>>

UseSwipe_Uncommitted(p) ==
  /\ At(p, "swipe")
  /\ used' = [used EXCEPT ![work[p].me] = @ + 1]
  /\ Goes(p, Idle)
  /\ UNCHANGED <<tables, sessions, fixed, balances, cooldown, requests, reaped, expired>>

\* use_swipes writes what is left of the number it has read, or raises.  The card
\* is put on the blacklist after that: the commands are ChatServer's, and if they
\* raise the swipe is spent all the same.
UseSwipe(p) ==
  LET a == work[p].me
  IN /\ At(p, "swipe")
     /\ \/ /\ a \in DOMAIN users
           /\ swipes' = [swipes EXCEPT ![a] = work[p].left]
           /\ used' = [used EXCEPT ![a] = @ + 1]
        \/ /\ a \notin DOMAIN users
           /\ UNCHANGED <<swipes, used>>
     /\ Goes(p, Idle)
     /\ UNCHANGED <<tables, sessions, fixed, rating, cooldown, requests, reaped, expired>>

-------------------------------------------------------------------------------
(* Ratings *)

Lowered(n) == IF n < FeedbackDiff THEN 0 ELSE n - FeedbackDiff

\* POST /users/{id}/call_feedback: the rating of b is read.
CallFeedback(p, a, b) ==
  /\ Sends(p, a, "feedback")
  /\ Present(b)
  /\ \E n \in {rating[b] + FeedbackDiff, Lowered(rating[b])} :
       Goes(p, [step |-> "rate", me |-> a, of |-> b, rating |-> n])
  /\ UNCHANGED <<tables, sessions, fixed, balances, cooldown, history>>

\* add_call_feedback writes it back, or raises.
SaveRating(p) ==
  LET r == work[p]
  IN /\ At(p, "rate")
     /\ rating' = IF r.of \in DOMAIN users THEN [rating EXCEPT ![r.of] = r.rating] ELSE rating
     /\ Goes(p, Idle)
     /\ UNCHANGED <<tables, sessions, fixed, swipes, cooldown, requests, history>>

\* POST /me/rating is one update.
AddRating(p, a) ==
  /\ Sends(p, a, "bonus")
  /\ a \in DOMAIN users
  /\ rating' = [rating EXCEPT ![a] = @ + RatingBonus]
  /\ UNCHANGED <<accountVars, swipes, cooldown, history>>

===============================================================================
