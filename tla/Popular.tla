-------------------------------- MODULE Popular --------------------------------
(***************************************************************************)
(* The lists of popular users in redis                                     *)
(* (swipe/swipe_server/users/services/popular_cache.py).  The cache        *)
(* updater writes all of them anew every hour; a request that registers,   *)
(* moves or deletes a user writes those he belongs to.  Each writer reads  *)
(* the ranking from the database, deletes the list and pushes the users    *)
(* one by one; nothing keeps two writers of one list apart.  The order of  *)
(* the lists is left open, and so are the places, which are one more       *)
(* filter beside the gender.  The cards of popular users are left out.     *)
(***************************************************************************)
EXTENDS Swipes, Sequences

CONSTANTS
  Key,          \* the lists: one for each filter
  Filter,       \* Filter[k]: the accounts that pass the filter of k
  PopularLimit  \* limit of fetch_popular

ASSUME PopularAssumption ==
  /\ Filter \in [Key -> SUBSET Account]
  /\ PopularLimit \in Nat \ {0}

VARIABLE popular   \* popular[k]: redis list

Listable(k) == {a \in Filter[k] \cap DOMAIN users : users[a] = "active"}

\* fetch_popular: the best by rating; equal ratings in any order.
Ranking(k, s) ==
  /\ \A i, j \in DOMAIN s : i < j => s[i] # s[j] /\ rating[s[i]] >= rating[s[j]]
  /\ \A a \in Listable(k) : a \in {s[i] : i \in DOMAIN s} \/
       \A i \in DOMAIN s : rating[a] <= rating[s[i]]
Rankings(k) ==
  LET size == IF Cardinality(Listable(k)) < PopularLimit THEN Cardinality(Listable(k))
              ELSE PopularLimit
  IN {s \in [1..size -> Listable(k)] : Ranking(k, s)}

\* The server fills the lists before it takes requests (bin/swipe_server.py).
PopularInit ==
  popular \in {f \in [Key -> UNION {Rankings(k) : k \in Key}] : \A k \in Key : f[k] \in Rankings(k)}

Writing(keys, then) ==
  IF keys = {} THEN then ELSE [step |-> "rank", keys |-> keys, then |-> then]

\* populate_popular_cache, as a job of the cache updater.
PopularJob ==
  /\ At(Updater, "idle")
  /\ <<Updater, "job">> \in scenario
  /\ Goes(Updater, Writing(Key, Idle))
  /\ UNCHANGED <<tables, sessions, fixed, swipeVars, popular>>

FetchPopular(p, k) ==
  LET r == work[p]
  IN /\ At(p, "rank")
     /\ k \in r.keys
     /\ \E s \in Rankings(k) :
          Goes(p, [step |-> "clear", key |-> k, list |-> s, then |-> Writing(r.keys \ {k}, r.then)])
     /\ UNCHANGED <<tables, sessions, fixed, swipeVars, popular>>

Cleared_UnlessEmpty(old, new) == IF new = <<>> THEN old ELSE <<>>
Cleared(old, new) == <<>>

Pushing(k, list, then) ==
  IF list = <<>> THEN then ELSE [step |-> "push", key |-> k, list |-> list, then |-> then]

\* save_popular_users
ClearPopular(p) ==
  LET r == work[p]
  IN /\ At(p, "clear")
     /\ popular' = [popular EXCEPT ![r.key] = Cleared(@, r.list)]
     /\ Goes(p, Pushing(r.key, r.list, r.then))
     /\ UNCHANGED <<tables, sessions, fixed, swipeVars>>

PushPopular(p) ==
  LET r == work[p]
  IN /\ At(p, "push")
     /\ popular' = [popular EXCEPT ![r.key] = Append(@, Head(r.list))]
     /\ Goes(p, Pushing(r.key, Tail(r.list), r.then))
     /\ UNCHANGED <<tables, sessions, fixed, swipeVars>>

===============================================================================
