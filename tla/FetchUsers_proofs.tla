--------------------------- MODULE FetchUsers_proofs ---------------------------
(***************************************************************************)
(* Proofs about FetchUsers: that a request collects what it was asked for  *)
(* and no more, that it repeats nobody its session had been answered when  *)
(* it came in, and that a short answer leaves out only whom the search had *)
(* no pass left for.                                                       *)
(***************************************************************************)
EXTENDS FetchUsers, FiniteSetTheorems, WellFoundedInduction, TLAPS

-------------------------------------------------------------------------------
(* Ages *)

\* The ages of the range are ordered by how near they are, and by themselves.
LEMMA NearerOrder ==
  ASSUME NEW a \in Int, NEW b \in Int, NEW c \in Int
  PROVE  /\ ~Nearer(a, a)
         /\ Nearer(a, b) /\ Nearer(b, c) => Nearer(a, c)
         /\ a = b \/ Nearer(a, b) \/ Nearer(b, a)
         /\ ~(Nearer(a, b) /\ Nearer(b, a))
<1>1. MyAge \in Int
  BY FetchUsersAssumption
<1>2. QED
  BY <1>1 DEF Nearer, Distance

\* The ages of a range are whole numbers.
LEMMA AgesInt ==
  ASSUME NEW d \in Nat
  PROVE  Ages(d) \subseteq Int
BY DEF Ages

\* A set of ages that is not empty has a nearest one.
LEMMA NearestAge ==
  ASSUME NEW S \in SUBSET Int, S # {}
  PROVE  \E x \in S : \A y \in S \ {x} : Nearer(x, y)
<1> DEFINE D == {Distance(a) : a \in S}
<1>0. \A a \in Int : Distance(a) \in Nat
  BY FetchUsersAssumption DEF Distance
<1>1. D \subseteq Nat /\ D # {}
  <2>1. D \subseteq Nat
    BY <1>0
  <2>2. D # {}
    OBVIOUS
  <2>3. QED
    BY <2>1, <2>2
<1>2. \E x \in D : \A y \in D : ~(<<y, x>> \in OpToRel(<, Nat))
  BY <1>1, NatLessThanWellFounded, WFMin
<1>3. PICK d \in D : \A y \in D : ~(y < d)
  BY <1>1, <1>2 DEF OpToRel
<1>4. PICK x \in S : Distance(x) = d
  BY <1>3
<1>5. \A y \in S : ~(Distance(y) < Distance(x)) /\ Distance(y) \in Nat
  BY <1>1, <1>3, <1>4
<1> HIDE DEF D
<1>6. CASE \A y \in S \ {x} : Nearer(x, y)
  BY <1>6
<1>7. CASE \E y \in S \ {x} : ~Nearer(x, y)
  <2>1. PICK y \in S \ {x} : ~Nearer(x, y)
    BY <1>7
  <2>2. Nearer(y, x) /\ Distance(y) = Distance(x) /\ y < x
    BY <1>5, <2>1 DEF Nearer
  <2>3. ASSUME NEW z \in S \ {y} PROVE Nearer(y, z)
    <3>1. ~(Distance(z) < Distance(y)) /\ MyAge \in Int /\ z # y /\ z \in Int /\ x \in Int /\ y \in Int
      BY <1>5, <2>2, <2>3, FetchUsersAssumption
    <3>2. QED
      BY <2>2, <3>1 DEF Nearer, Distance
  <2>4. QED
    BY <2>1, <2>3
<1>8. QED
  BY <1>6, <1>7

-------------------------------------------------------------------------------
(* The nearest users *)

\* The first n users of a set of at least n, all of different ages, are n.
LEMMA NearestCount ==
  ASSUME NEW S \in SUBSET User, \A u, v \in S : Age[u] = Age[v] => u = v,
         NEW n \in Nat, n <= Cardinality(S)
  PROVE  Nearest(S, n) \subseteq S /\ Cardinality(Nearest(S, n)) = n
<1> DEFINE Before(u) == {v \in S : Nearer(Age[v], Age[u])}
           T == Nearest(S, n)
<1>1. \A u \in User : Age[u] \in Int
  BY FetchUsersAssumption
<1>2. IsFiniteSet(S) /\ Cardinality(S) \in Nat
  BY FetchUsersAssumption, FS_Subset, FS_CardinalityType
<1>3. \A R \in SUBSET S : IsFiniteSet(R) /\ Cardinality(R) \in Nat /\ Cardinality(R) <= Cardinality(S)
  BY <1>2, FS_Subset, FS_CardinalityType
<1>4. T \in SUBSET S /\ \A u \in S : u \in T <=> Cardinality(Before(u)) < n
  BY DEF Nearest
<1>5. \A u \in S : Before(u) \in SUBSET S /\ u \notin Before(u)
  BY <1>1, NearerOrder
<1>6. \A u, v \in S : u # v => u \in Before(v) \/ v \in Before(u)
  BY <1>1, NearerOrder
<1>7. \A u, v \in S : u \in Before(v) => Before(u) \subseteq Before(v) /\ Before(u) # Before(v)
  <2> SUFFICES ASSUME NEW u \in S, NEW v \in S, u \in Before(v)
               PROVE  Before(u) \subseteq Before(v) /\ Before(u) # Before(v)
    OBVIOUS
  <2>1. \A w \in S : w \in Before(u) => w \in Before(v)
    BY <1>1, NearerOrder
  <2>2. QED
    BY <1>5, <2>1
<1>8. FiniteSubsetsOf(S) = SUBSET S
  BY <1>2, FS_FiniteSubsetsOfFinite
<1>w. IsWellFoundedOn(StrictSubsetOrdering(S), SUBSET S)
  BY <1>8, FS_StrictSubsetOrderingWellFounded
<1> HIDE DEF T, Before
<1>9. Cardinality(T) <= n
  <2>1. CASE T = {}
    BY <2>1, FS_EmptySet
  <2>2. CASE T # {}
    <3> DEFINE F == {S \ Before(u) : u \in T}
    <3>1. F \subseteq SUBSET S /\ F # {}
      <4>1. F \subseteq SUBSET S
        OBVIOUS
      <4>2. F # {}
        BY <2>2
      <4>3. QED
        BY <4>1, <4>2
    <3>2. PICK X \in F : \A Y \in F : ~(<<Y, X>> \in StrictSubsetOrdering(S))
      <4> HIDE DEF F
      <4>1. QED
        BY <1>w, <3>1, WFMin
    <3>3. PICK t \in T : X = S \ Before(t)
      BY <3>2
    <3>4. \A v \in T : v # t => v \in Before(t)
      <4> SUFFICES ASSUME NEW v \in T, v # t, v \notin Before(t) PROVE FALSE
        OBVIOUS
      <4>1. t \in Before(v)
        BY <1>4, <1>6
      <4>2. Before(t) \subseteq Before(v) /\ t \notin Before(t)
        BY <1>4, <1>5, <1>7, <4>1
      <4>3. S \ Before(v) \subseteq S \ Before(t) /\ S \ Before(v) # S \ Before(t)
        BY <1>4, <4>1, <4>2
      <4>4. <<S \ Before(v), S \ Before(t)>> \in StrictSubsetOrdering(S)
        BY <4>3 DEF StrictSubsetOrdering
      <4>5. QED
        BY <3>2, <3>3, <4>4
    <3>5. T \subseteq Before(t) \cup {t}
      BY <3>4
    <3>6. /\ IsFiniteSet(Before(t)) /\ Cardinality(Before(t)) \in Nat /\ Cardinality(Before(t)) < n
          /\ t \notin Before(t)
      BY <1>3, <1>4, <1>5
    <3>7. /\ IsFiniteSet(Before(t) \cup {t})
          /\ Cardinality(Before(t) \cup {t}) = Cardinality(Before(t)) + 1
      BY <3>6, FS_AddElement
    <3>8. Cardinality(T) <= Cardinality(Before(t) \cup {t})
      BY <3>5, <3>7, FS_Subset
    <3>9. Cardinality(T) \in Nat
      BY <1>3, <1>4
    <3>10. QED
      BY <3>6, <3>7, <3>8, <3>9
  <2>3. QED
    BY <2>1, <2>2
<1>10. Cardinality(T) >= n
  <2>1. CASE S \ T = {}
    <3>1. S = T
      BY <1>4, <2>1
    <3>2. QED
      BY <1>2, <3>1
  <2>2. CASE S \ T # {}
    <3> DEFINE F == {Before(u) : u \in S \ T}
    <3>1. F \subseteq SUBSET S /\ F # {}
      BY <1>5, <2>2
    <3>2. PICK X \in F : \A Y \in F : ~(<<Y, X>> \in StrictSubsetOrdering(S))
      <4> HIDE DEF F
      <4>1. QED
        BY <1>w, <3>1, WFMin
    <3>3. PICK v \in S \ T : X = Before(v)
      BY <3>2
    <3>4. Before(v) \subseteq T
      <4> SUFFICES ASSUME NEW w \in Before(v), w \notin T PROVE FALSE
        OBVIOUS
      <4>1. w \in S
        BY <1>5
      <4>2. Before(w) \subseteq Before(v) /\ Before(w) # Before(v)
        BY <1>7, <4>1
      <4>3. <<Before(w), Before(v)>> \in StrictSubsetOrdering(S)
        BY <1>5, <4>1, <4>2 DEF StrictSubsetOrdering
      <4>4. QED
        BY <3>2, <3>3, <4>1, <4>3
    <3>5. Cardinality(Before(v)) \in Nat /\ ~(Cardinality(Before(v)) < n)
      BY <1>3, <1>4, <1>5
    <3>6. IsFiniteSet(T) /\ Cardinality(T) \in Nat
      BY <1>3, <1>4
    <3>7. Cardinality(Before(v)) <= Cardinality(T)
      BY <3>4, <3>6, FS_Subset
    <3>8. QED
      BY <3>5, <3>6, <3>7
  <2>3. QED
    BY <2>1, <2>2
<1>11. Cardinality(T) \in Nat
  BY <1>3, <1>4
<1>12. QED
  BY <1>4, <1>9, <1>10, <1>11 DEF T

-------------------------------------------------------------------------------
(* The inductive invariant                                                     *)

\* What is collected comes from the pool, and is no more than was asked for.
Collected(r) ==
  /\ r.left \subseteq r.pool
  /\ r.result \subseteq r.pool
  /\ Cardinality(r.result) <= Limit

\* All that the invariant says of one coroutine.
Local(r) ==
  /\ Collected(r) /\ Staged(r) /\ Unrepeated(r) /\ Passed(r)
  /\ r.at = "fill" => Cardinality(r.result) < Limit

\* The types of what the coroutines share.
SharedOK ==
  /\ online \in SUBSET User /\ avoided \in SUBSET User
  /\ response \in [Session -> SUBSET User]
  /\ ageDiff \in [Session -> Nat \cup {Unset}]
  /\ moves \in 0..MaxMoves

\* The invariant is one fact about what is shared and one about every coroutine ...
Inv ==
  /\ SharedOK
  /\ process \in [Process -> Coroutine]
  /\ \A p \in Process : Local(process[p])

\* ... and, apart from that, what is known of earlier answers.
HistoryOK ==
  /\ given \in [Session -> SUBSET User]
  /\ known \in [Process -> SUBSET User]
  /\ HistoryInv

\* Together they are the invariants of the specification.
LEMMA InvSplit ==
  Inv /\ HistoryOK <=> TypeOK /\ StagesInv /\ CachedInv /\ PassesInv /\ HistoryInv
BY DEF Inv, HistoryOK, TypeOK, StagesInv, CachedInv, PassesInv, SharedOK, Local, Collected

\* A step of one coroutine keeps the invariant if it does of what it changes.
LEMMA OneMoves ==
  ASSUME Inv, NEW p \in Process, NEW q \in Coroutine, Local(q),
         process' = [process EXCEPT ![p] = q], SharedOK'
  PROVE  Inv'
<1>1. process \in [Process -> Coroutine] /\ \A o \in Process : Local(process[o])
  BY DEF Inv
<1>2. process' \in [Process -> Coroutine]
  BY <1>1
<1>3. \A o \in Process : process'[o] = q \/ process'[o] = process[o]
  BY <1>1
<1>4. \A o \in Process : Local(process'[o])
  BY <1>1, <1>3
<1>5. (\A o \in Process : Local(process[o]))'
  BY <1>4 DEF Local, Collected, Staged, Unrepeated, Passed, Widened
<1>6. QED
  BY <1>2, <1>5 DEF Inv

\* A step in which no coroutine moves keeps the invariant if what is shared stays sound.
LEMMA NobodyMoves ==
  ASSUME Inv, process' = process, SharedOK'
  PROVE  Inv'
<1>1. process \in [Process -> Coroutine] /\ \A o \in Process : Local(process[o])
  BY DEF Inv
<1>2. process' \in [Process -> Coroutine] /\ \A o \in Process : Local(process'[o])
  BY <1>1
<1>3. QED
  BY <1>2 DEF Inv, Local, Collected, Staged, Unrepeated, Passed, Widened

\* Nothing is collected at the beginning.
LEMMA IdleLocal ==
  ASSUME NEW a \in {"start", "end"}
  PROVE  [Idle EXCEPT !.at = a] \in Coroutine /\ Local([Idle EXCEPT !.at = a])
<1>1. [Idle EXCEPT !.at = a] \in Coroutine
  BY DEF Idle, Coroutine, Places
<1>2. Cardinality({}) = 0 /\ Limit \in Nat
  BY FS_EmptySet, FetchUsersAssumption
<1> DEFINE q == [Idle EXCEPT !.at = a]
<1>3. /\ q.at = a /\ q.pool = {} /\ q.left = {} /\ q.filled = {} /\ q.result = {}
      /\ q.cached = {}
  BY DEF Idle
<1>4. Local(q)
  <2> HIDE DEF q
  <2>1. QED
    <3>1. q.at \notin Searching /\ q.at # "fill"
      BY <1>3 DEF Searching
    <3>2. Collected(q)
      BY <1>2, <1>3 DEF Collected
    <3>3. Staged(q)
      BY <1>3 DEF Staged
    <3>4. Unrepeated(q)
      BY <1>3 DEF Unrepeated
    <3>5. Passed(q)
      BY <3>1 DEF Passed
    <3>6. QED
      BY <3>1, <3>2, <3>3, <3>4, <3>5 DEF Local
<1>5. QED
  BY <1>1, <1>4

LEMMA InitInv == Init => Inv
<1> SUFFICES ASSUME Init PROVE Inv
  OBVIOUS
<1>1. [Idle EXCEPT !.at = "start"] = Idle
  BY DEF Idle
<1>2. Idle \in Coroutine /\ Local(Idle)
  BY <1>1, IdleLocal
<1>3. SharedOK
  BY FetchUsersAssumption DEF Init, SharedOK
<1>4. process \in [Process -> Coroutine] /\ \A p \in Process : process[p] = Idle
  BY <1>2 DEF Init
<1>5. QED
  BY <1>2, <1>3, <1>4 DEF Inv

-------------------------------------------------------------------------------
(* Steps outside the search *)

\* q knows of its search what r does, and neither of them is at it.
Keeps(r, q) ==
  /\ {r.at, q.at} \cap (Searching \cup {"save diff"}) = {}
  /\ q.pool = r.pool /\ q.left = r.left /\ q.filled = r.filled /\ q.result = r.result
  /\ q.cached = r.cached

\* What a coroutine's local part of the invariant needs is kept outside the search.
LEMMA KeepsLocal ==
  ASSUME NEW r, NEW q, Local(r), Keeps(r, q),
         q.session \in Session \/ q.at \in {"start", "list responses", "drop responses", "drop diffs", "end"}
  PROVE  Local(q)
<1>1. q.at \notin Searching /\ q.at # "save diff" /\ r.at \notin Searching /\ r.at # "save diff" /\ q.at # "fill"
  BY DEF Keeps, Searching
<1>2. Collected(q) /\ Unrepeated(q)
  BY DEF Keeps, Local, Collected, Unrepeated
<1>3. Staged(q)
  BY <1>1 DEF Keeps, Local, Staged
<1>4. Passed(q)
  BY <1>1 DEF Passed
<1>5. QED
  BY <1>1, <1>2, <1>3, <1>4 DEF Local

\* Before the search starts, steps of a request or of a disconnect leave the invariant true.
LEMMA ControlSteps ==
  ASSUME Inv, NEW p \in Process,
         \/ Disconnect(p) \/ LookForKey(p) \/ LookForOlder(p) \/ ListResponses(p) \/ ListDiffs(p)
         \/ Dropped(p) \/ \E s \in Session : DropResponse(p, s) \/ DropDiff(p, s) \/ Request(p, s)
  PROVE  Inv'
<1> DEFINE r == process[p]
<1>1. SharedOK /\ process \in [Process -> Coroutine] /\ r \in Coroutine /\ Local(r)
  BY DEF Inv
<1>2. /\ r.session \in Session \/ r.at \in {"start", "list responses", "drop responses", "drop diffs", "end"}
  BY <1>1 DEF Local, Staged
<1>3. ASSUME NEW q \in Coroutine, Keeps(r, q), process' = [process EXCEPT ![p] = q], SharedOK',
             q.session \in Session \/ q.at \in {"start", "list responses", "drop responses", "drop diffs", "end"}
      PROVE  Inv'
  <2>1. Local(q)
    BY <1>1, <1>3, KeepsLocal
  <2>2. QED
    BY <1>3, <2>1, OneMoves
<1>4. CASE Disconnect(p)
  <2>1. process' = [process EXCEPT ![p] = [r EXCEPT !.at = "list responses"]] /\ r.at = "start" /\ SharedOK'
    BY <1>1, <1>4 DEF Disconnect, At, Goes, Others, caches, SharedOK
  <2> DEFINE q == [r EXCEPT !.at = "list responses"]
  <2>2. q \in Coroutine /\ Keeps(r, q) /\ q.session = r.session /\ q.at = "list responses"
    BY <1>1, <1>2, <2>1 DEF Coroutine, Places, Keeps, Searching
  <2>e. process' = [process EXCEPT ![p] = q]
    BY <2>1
  <2> HIDE DEF q
  <2>3. QED
    BY <1>2, <1>3, <2>1, <2>2, <2>e
<1>5. CASE LookForKey(p)
  <2>1. PICK a \in {"read response", "older"} :
          process' = [process EXCEPT ![p] = [r EXCEPT !.at = a]] /\ r.at = "key" /\ SharedOK'
    BY <1>1, <1>5 DEF LookForKey, At, Goes, Others, caches, SharedOK
  <2> DEFINE q == [r EXCEPT !.at = a]
  <2>2. q \in Coroutine /\ Keeps(r, q) /\ q.session = r.session /\ q.at = a
    BY <1>1, <1>2, <2>1 DEF Coroutine, Places, Keeps, Searching
  <2>3. r.session \in Session
    BY <1>2, <2>1
  <2>e. process' = [process EXCEPT ![p] = q]
    BY <2>1
  <2> HIDE DEF q
  <2>4. QED
    BY <1>2, <1>3, <2>1, <2>2, <2>3, <2>e
<1>6. CASE LookForOlder(p)
  <2>1. PICK a \in {"list responses", "read response"} :
          process' = [process EXCEPT ![p] = [r EXCEPT !.at = a]] /\ r.at = "older" /\ SharedOK'
    BY <1>1, <1>6 DEF LookForOlder, At, Goes, Others, caches, SharedOK
  <2> DEFINE q == [r EXCEPT !.at = a]
  <2>2. q \in Coroutine /\ Keeps(r, q) /\ q.session = r.session /\ q.at = a
    BY <1>1, <1>2, <2>1 DEF Coroutine, Places, Keeps, Searching
  <2>3. r.session \in Session
    BY <1>2, <2>1
  <2>e. process' = [process EXCEPT ![p] = q]
    BY <2>1
  <2> HIDE DEF q
  <2>4. QED
    BY <1>2, <1>3, <2>1, <2>2, <2>3, <2>e
<1>7. CASE ListResponses(p)
  <2> DEFINE K == {s \in Session : response[s] # {}}
  <2>1. /\ process' = [process EXCEPT ![p] = [r EXCEPT !.at = "drop responses", !.keys = K]]
        /\ r.at = "list responses" /\ SharedOK'
    BY <1>1, <1>7 DEF ListResponses, At, Others, caches, SharedOK
  <2>2. K \in SUBSET Session
    OBVIOUS
  <2> HIDE DEF K
  <2> DEFINE q == [r EXCEPT !.at = "drop responses", !.keys = K]
  <2>3. q \in Coroutine /\ Keeps(r, q) /\ q.session = r.session /\ q.at = "drop responses"
    BY <1>1, <1>2, <2>1, <2>2 DEF Coroutine, Places, Keeps, Searching
  <2>e. process' = [process EXCEPT ![p] = q]
    BY <2>1
  <2> HIDE DEF q
  <2>4. QED
    BY <1>2, <1>3, <2>1, <2>2, <2>3, <2>e
<1>8. CASE ListDiffs(p)
  <2> DEFINE K == {s \in Session : ageDiff[s] # Unset}
  <2>1. /\ process' = [process EXCEPT ![p] = [r EXCEPT !.at = "drop diffs", !.keys = K]]
        /\ r.at = "drop responses" /\ SharedOK'
    BY <1>1, <1>8 DEF ListDiffs, At, Others, caches, SharedOK
  <2>2. K \in SUBSET Session
    OBVIOUS
  <2> HIDE DEF K
  <2> DEFINE q == [r EXCEPT !.at = "drop diffs", !.keys = K]
  <2>3. q \in Coroutine /\ Keeps(r, q) /\ q.session = r.session /\ q.at = "drop diffs"
    BY <1>1, <1>2, <2>1, <2>2 DEF Coroutine, Places, Keeps, Searching
  <2>e. process' = [process EXCEPT ![p] = q]
    BY <2>1
  <2> HIDE DEF q
  <2>4. QED
    BY <1>2, <1>3, <2>1, <2>2, <2>3, <2>e
<1>9. CASE Dropped(p)
  <2>1. PICK a \in {"end", "read response"} :
          /\ process' = [process EXCEPT ![p] = [r EXCEPT !.at = a]] /\ r.at = "drop diffs" /\ SharedOK'
          /\ r.session = Unset => a = "end"
    BY <1>1, <1>9 DEF Dropped, At, Goes, Others, caches, SharedOK
  <2> DEFINE q == [r EXCEPT !.at = a]
  <2>2. q \in Coroutine /\ Keeps(r, q) /\ q.session = r.session /\ q.at = a
    BY <1>1, <1>2, <2>1 DEF Coroutine, Places, Keeps, Searching
  <2>3. r.session \in Session \/ a = "end"
    BY <1>1, <2>1 DEF Coroutine
  <2>e. process' = [process EXCEPT ![p] = q]
    BY <2>1
  <2> HIDE DEF q
  <2>4. QED
    BY <1>2, <1>3, <2>1, <2>2, <2>3, <2>e
<1>10. CASE \E s \in Session : DropResponse(p, s)
  <2>1. PICK s \in Session : DropResponse(p, s)
    BY <1>10
  <2>2. process' = [process EXCEPT ![p] = [r EXCEPT !.keys = @ \ {s}]] /\ r.at = "drop responses"
    BY <1>1, <2>1 DEF DropResponse, At
  <2>3. SharedOK'
    BY <1>1, <2>1 DEF DropResponse, Others, SharedOK
  <2> DEFINE q == [r EXCEPT !.keys = @ \ {s}]
  <2>4. q \in Coroutine /\ Keeps(r, q) /\ q.session = r.session /\ q.at = r.at
    BY <1>1, <1>2, <2>1, <2>2, <2>3 DEF Coroutine, Places, Keeps, Searching
  <2>e. process' = [process EXCEPT ![p] = q]
    BY <2>2
  <2> HIDE DEF q
  <2>5. QED
    BY <1>2, <1>3, <2>1, <2>2, <2>3, <2>4, <2>e
<1>11. CASE \E s \in Session : DropDiff(p, s)
  <2>1. PICK s \in Session : DropDiff(p, s)
    BY <1>11
  <2>2. process' = [process EXCEPT ![p] = [r EXCEPT !.keys = @ \ {s}]] /\ r.at = "drop diffs"
    BY <1>1, <2>1 DEF DropDiff, At
  <2>3. SharedOK'
    BY <1>1, <2>1 DEF DropDiff, Others, SharedOK
  <2> DEFINE q == [r EXCEPT !.keys = @ \ {s}]
  <2>4. q \in Coroutine /\ Keeps(r, q) /\ q.session = r.session /\ q.at = r.at
    BY <1>1, <1>2, <2>1, <2>2, <2>3 DEF Coroutine, Places, Keeps, Searching
  <2>e. process' = [process EXCEPT ![p] = q]
    BY <2>2
  <2> HIDE DEF q
  <2>5. QED
    BY <1>2, <1>3, <2>1, <2>2, <2>3, <2>4, <2>e
<1>12. CASE \E s \in Session : Request(p, s)
  <2>1. PICK s \in Session : Request(p, s)
    BY <1>12
  <2>2. /\ process' = [process EXCEPT ![p] = [r EXCEPT !.at = "key", !.session = s, !.disallowed = avoided]]
        /\ r.at = "start" /\ SharedOK'
    BY <1>1, <2>1 DEF Request, At, Others, caches, SharedOK
  <2>3. avoided \in SUBSET User
    BY <1>1 DEF SharedOK
  <2> DEFINE q == [r EXCEPT !.at = "key", !.session = s, !.disallowed = avoided]
  <2>4. q \in Coroutine /\ Keeps(r, q) /\ q.session = s /\ q.at = "key"
    BY <1>1, <1>2, <2>2, <2>3 DEF Coroutine, Places, Keeps, Searching
  <2>e. process' = [process EXCEPT ![p] = q]
    BY <2>2
  <2> HIDE DEF q
  <2>5. QED
    BY <1>2, <1>3, <2>1, <2>2, <2>3, <2>4, <2>e
<1>13. QED
  BY <1>4, <1>5, <1>6, <1>7, <1>8, <1>9, <1>10, <1>11, <1>12

-------------------------------------------------------------------------------
(* Steps of the search *)

\* A coroutine has collected a finite number of users.
LEMMA FinitePool ==
  ASSUME NEW S \in SUBSET User
  PROVE  IsFiniteSet(S) /\ Cardinality(S) \in Nat /\ \A T \in SUBSET S : Cardinality(T) <= Cardinality(S)
BY FetchUsersAssumption, FS_Subset, FS_CardinalityType

\* Reading the cache of the session, a search remembers all who are in it.
LEMMA ReadResponseStep ==
  ASSUME Inv, NEW p \in Process, ReadResponse(p)
  PROVE  Inv'
<1> DEFINE r == process[p]
           s == r.session
           q == [r EXCEPT !.at = "read diff", !.cached = response[s]]
<1>1. SharedOK /\ process \in [Process -> Coroutine] /\ r \in Coroutine /\ Local(r)
  BY DEF Inv
<1>2. /\ process' = [process EXCEPT ![p] = q] /\ r.at = "read response"
      /\ UNCHANGED <<online, avoided, moves, response, ageDiff>>
  BY <1>1 DEF ReadResponse, At, Others, caches
<1>3. SharedOK'
  BY <1>1, <1>2 DEF SharedOK
<1>4. /\ s \in Session
      /\ r.pool = {} /\ r.left = {} /\ r.filled = {} /\ r.result = {}
  BY <1>1, <1>2 DEF Local, Staged, Searching
<1>5. response[s] \in SUBSET User
  BY <1>1, <1>4 DEF SharedOK
<1>6. q \in Coroutine
  BY <1>1, <1>5 DEF Coroutine, Places
<1>7. /\ q.at = "read diff" /\ q.session = s /\ q.cached = response[s]
      /\ q.pool = {} /\ q.left = {} /\ q.filled = {} /\ q.result = {}
  BY <1>1, <1>4 DEF Coroutine
<1> HIDE DEF q
<1>8. Local(q)
  <2>1. q.at \notin Searching /\ q.at # "fill"
    BY <1>7 DEF Searching
  <2>2. Cardinality({}) = 0 /\ Limit \in Nat
    BY FS_EmptySet, FetchUsersAssumption
  <2>3. Collected(q)
    <3>1. q.left \subseteq q.pool /\ q.result \subseteq q.pool
      BY <1>7
    <3>2. q.result = {}
      BY <1>7
    <3> HIDE DEF q
    <3>4. Cardinality(q.result) <= Limit
      BY <2>2, <3>2
    <3>3. QED
      BY <3>1, <3>4 DEF Collected
  <2>4. Unrepeated(q)
    BY <1>7 DEF Unrepeated
  <2>5. Staged(q)
    BY <1>4, <1>7 DEF Staged
  <2>6. Passed(q)
    BY <2>1 DEF Passed
  <2>7. QED
    BY <2>1, <2>3, <2>4, <2>5, <2>6 DEF Local
<1>9. QED
  BY <1>2, <1>3, <1>6, <1>8, OneMoves

\* No pass has been made when the search starts.
LEMMA ReadDiffStep ==
  ASSUME Inv, NEW p \in Process, ReadDiff(p)
  PROVE  Inv'
<1> DEFINE r == process[p]
           d == ageDiff[r.session]
           diff == IF d = Unset THEN DefaultAgeDiff ELSE d
           a == IF diff > MaxAgeDiff THEN "save response" ELSE "fill"
           q == [r EXCEPT !.at = a, !.diff = diff, !.first = diff]
<1>1. SharedOK /\ process \in [Process -> Coroutine] /\ r \in Coroutine /\ Local(r)
  BY DEF Inv
<1>2. /\ process' = [process EXCEPT ![p] = q] /\ r.at = "read diff"
      /\ UNCHANGED <<online, avoided, moves, response, ageDiff>>
  BY <1>1 DEF ReadDiff, At, Others, caches
<1>3. SharedOK'
  BY <1>1, <1>2 DEF SharedOK
<1>4. /\ r.session \in Session
      /\ r.pool = {} /\ r.left = {} /\ r.filled = {} /\ r.result = {}
  BY <1>1, <1>2 DEF Local, Staged, Searching
<1>5. diff \in Nat /\ MaxAgeDiff \in Nat
  BY <1>1, <1>4, FetchUsersAssumption DEF SharedOK
<1>6. a \in {"fill", "save response"} /\ IF a = "fill" THEN diff <= MaxAgeDiff ELSE diff > MaxAgeDiff
  BY <1>5
<1> HIDE DEF diff, a
<1>7. q \in Coroutine
  BY <1>1, <1>5, <1>6 DEF Coroutine, Places
<1>8. /\ q.at = a /\ q.session = r.session /\ q.diff = diff /\ q.first = diff
      /\ q.pool = {} /\ q.left = {} /\ q.filled = {} /\ q.result = {}
      /\ q.cached = r.cached
  BY <1>1, <1>4 DEF Coroutine
<1> HIDE DEF q
<1>9. Local(q)
  <2>1. Cardinality({}) = 0 /\ Limit \in Nat \ {0}
    BY FS_EmptySet, FetchUsersAssumption
  <2>2. Collected(q)
    BY <1>8, <2>1 DEF Collected
  <2>3. Unrepeated(q)
    BY <1>1, <1>8 DEF Local, Unrepeated
  <2>4. Staged(q)
    BY <1>4, <1>6, <1>8 DEF Staged, Searching
  <2>5. Passed(q)
    <3>1. 0 \in 0..(MaxAgeDiff + AgeDiffStep) /\ q.diff = q.first + 0 * AgeDiffStep
      BY <1>5, <1>8, FetchUsersAssumption
    <3>2. 0..(0 - 1) = {}
      OBVIOUS
    <3>3. /\ \A k \in 0..(0 - 1) : Widened(q, k) \subseteq q.filled
          /\ \A u \in q.left :
               Cardinality({v \in q.pool \ q.left : Age[v] = Age[u]})
                 >= Cardinality({k \in 0..(0 - 1) : Age[u] \in Widened(q, k)})
      BY <1>8, <3>2
    <3>4. IF q.at = "fill" THEN q.diff <= MaxAgeDiff ELSE q.diff > MaxAgeDiff
      BY <1>6, <1>8
    <3>5. QED
      BY <1>8, <3>1, <3>3, <3>4 DEF Passed
  <2>6. q.at = "fill" => Cardinality(q.result) < Limit
    BY <1>8, <2>1
  <2>7. QED
    BY <2>2, <2>3, <2>4, <2>5, <2>6 DEF Local
<1>10. QED
  BY <1>2, <1>3, <1>7, <1>9, OneMoves

\* What is saved has been collected before; nothing else changes of the coroutine.
LEMMA SaveResponseStep ==
  ASSUME Inv, NEW p \in Process, SaveResponse(p)
  PROVE  Inv'
<1> DEFINE r == process[p]
           q == [r EXCEPT !.at = "save diff"]
<1>1. SharedOK /\ process \in [Process -> Coroutine] /\ r \in Coroutine /\ Local(r)
  BY DEF Inv
<1>2. /\ process' = [process EXCEPT ![p] = q] /\ r.at = "save response"
      /\ response' = [response EXCEPT ![r.session] = @ \cup r.result]
      /\ UNCHANGED <<online, avoided, moves, ageDiff>>
  BY <1>1 DEF SaveResponse, At, Goes, Others
<1>3. r.session \in Session
  BY <1>1, <1>2 DEF Local, Staged
<1>4. r.result \in SUBSET User
  BY <1>1 DEF Coroutine
<1>5. SharedOK'
  BY <1>1, <1>2, <1>3, <1>4 DEF SharedOK
<1>6. q \in Coroutine
  BY <1>1 DEF Coroutine, Places
<1>7. /\ q.at = "save diff" /\ q.session = r.session /\ q.result = r.result
      /\ q.pool = r.pool /\ q.left = r.left /\ q.cached = r.cached
  BY <1>1 DEF Coroutine
<1> HIDE DEF q
<1>8. Local(q)
  <2>1. q.at \notin Searching /\ q.at # "fill"
    BY <1>7 DEF Searching
  <2>2. Collected(q) /\ Unrepeated(q)
    BY <1>1, <1>7 DEF Local, Collected, Unrepeated
  <2>3. Staged(q)
    BY <1>3, <1>7 DEF Staged
  <2>4. Passed(q)
    BY <2>1 DEF Passed
  <2>5. QED
    BY <2>1, <2>2, <2>3, <2>4 DEF Local
<1>9. QED
  BY <1>2, <1>5, <1>6, <1>8, OneMoves

\* At the end a coroutine forgets its search.
LEMMA SaveDiffStep ==
  ASSUME Inv, NEW p \in Process, SaveDiff(p)
  PROVE  Inv'
<1> DEFINE r == process[p]
<1>1. SharedOK /\ process \in [Process -> Coroutine] /\ r \in Coroutine /\ Local(r)
  BY DEF Inv
<1>2. /\ process' = [process EXCEPT ![p] = [Idle EXCEPT !.at = "end"]]
      /\ ageDiff' = [ageDiff EXCEPT ![r.session] = r.diff]
      /\ UNCHANGED <<online, avoided, moves, response>>
  BY DEF SaveDiff, Others
<1>3. SharedOK'
  <2>1. r.diff \in Nat
    BY <1>1 DEF Coroutine
  <2>2. QED
    BY <1>1, <1>2, <2>1 DEF SharedOK
<1>4. QED
  BY <1>2, <1>3, IdleLocal, OneMoves

\* Whom a search finds of an age has not been in its pool, for the age has not.
LEMMA FillStep ==
  ASSUME Inv, NEW p \in Process, Fill(p)
  PROVE  Inv'
<1> DEFINE r == process[p]
           missing == Ages(r.diff) \ r.filled
           a == CHOOSE x \in missing : \A y \in missing \ {x} : Nearer(x, y)
           found == {u \in online : Age[u] = a}
           q == [r EXCEPT !.filled = @ \cup {a}, !.pool = @ \cup found, !.left = @ \cup found]
<1>1. SharedOK /\ process \in [Process -> Coroutine] /\ r \in Coroutine /\ Local(r)
  BY DEF Inv
<1>2. /\ process' = [process EXCEPT ![p] = q] /\ r.at = "fill" /\ missing # {}
      /\ UNCHANGED <<online, avoided, moves, response, ageDiff>>
  BY <1>1 DEF Fill, At, Others, caches
<1>3. SharedOK'
  BY <1>1, <1>2 DEF SharedOK
<1>4. a \in missing /\ a \in Int
  <2>1. missing \subseteq Int
    BY <1>1, AgesInt DEF Coroutine
  <2>2. \E x \in missing : \A y \in missing \ {x} : Nearer(x, y)
    BY <1>2, <2>1, NearestAge
  <2>3. QED
    BY <2>1, <2>2
<1>5. a \notin r.filled
  BY <1>4
<1> HIDE DEF missing, a
<1>6. found \in SUBSET User /\ \A u \in found : Age[u] = a
  BY <1>1 DEF SharedOK
<1> HIDE DEF found
<1>7. q \in Coroutine
  BY <1>1, <1>4, <1>6 DEF Coroutine
<1>8. /\ q.at = "fill" /\ q.session = r.session /\ q.diff = r.diff /\ q.first = r.first
      /\ q.pool = r.pool \cup found /\ q.left = r.left \cup found /\ q.filled = r.filled \cup {a}
      /\ q.result = r.result /\ q.cached = r.cached
      /\ q.disallowed = r.disallowed
  BY <1>1, <1>2 DEF Coroutine
<1> HIDE DEF q
<1>9. /\ Collected(r) /\ Staged(r) /\ Unrepeated(r) /\ Passed(r) /\ Cardinality(r.result) < Limit
      /\ r.pool \in SUBSET User /\ r.left \in SUBSET User /\ r.result \in SUBSET User
  BY <1>1, <1>2 DEF Local, Coroutine
<1>10. PICK n \in 0..(MaxAgeDiff + AgeDiffStep) :
         /\ r.diff = r.first + n * AgeDiffStep
         /\ \A k \in 0..(n - 1) : Widened(r, k) \subseteq r.filled
         /\ \A u \in r.left :
              Cardinality({v \in r.pool \ r.left : Age[v] = Age[u]})
                >= Cardinality({k \in 0..(n - 1) : Age[u] \in Widened(r, k)})
  BY <1>2, <1>9 DEF Passed, Searching
<1>11. /\ r.diff <= MaxAgeDiff /\ \A u \in r.pool : Age[u] \in r.filled
       /\ r.result \cap r.left = {}
       /\ r.pool \ r.left \subseteq r.cached \cup r.disallowed \cup r.result
  BY <1>2, <1>9 DEF Passed, Searching
<1>12. found \cap r.pool = {} /\ r.left \subseteq r.pool /\ r.result \subseteq r.pool
  <2>1. \A u \in found : u \notin r.pool
    BY <1>5, <1>6, <1>11
  <2>2. QED
    BY <1>9, <2>1 DEF Collected
<1>13. q.pool \ q.left = r.pool \ r.left
  BY <1>8, <1>12
<1>14. \A k : Widened(q, k) = Widened(r, k)
  BY <1>8 DEF Widened
<1>15. Passed(q)
  <2>1. IF q.at = "fill" THEN q.diff <= MaxAgeDiff ELSE q.diff > MaxAgeDiff
    BY <1>8, <1>11
  <2>2. \A u \in q.pool : Age[u] \in q.filled
    BY <1>6, <1>8, <1>11
  <2>3. q.result \cap q.left = {}
    BY <1>8, <1>11, <1>12
  <2>4. q.pool \ q.left \subseteq q.cached \cup q.disallowed \cup q.result
    BY <1>8, <1>11, <1>13
  <2>5. \A k \in 0..(n - 1) : Widened(q, k) \subseteq q.filled
    BY <1>8, <1>10, <1>14
  <2>6. ASSUME NEW u \in q.left
        PROVE  Cardinality({v \in q.pool \ q.left : Age[v] = Age[u]})
                 >= Cardinality({k \in 0..(n - 1) : Age[u] \in Widened(q, k)})
    <3> DEFINE V == {v \in q.pool \ q.left : Age[v] = Age[u]}
               K == {k \in 0..(n - 1) : Age[u] \in Widened(q, k)}
    <3>1. CASE u \in r.left
      <4>1. V = {v \in r.pool \ r.left : Age[v] = Age[u]}
        BY <1>13
      <4>2. K = {k \in 0..(n - 1) : Age[u] \in Widened(r, k)}
        BY <1>14
      <4>3. QED
        BY <1>10, <3>1, <4>1, <4>2
    <3>2. CASE u \in found
      <4>1. K = {}
        BY <1>5, <1>6, <1>10, <1>14, <3>2
      <4>2. V \in SUBSET User
        BY <1>9, <1>13
      <4> HIDE DEF V, K
      <4>3. Cardinality(V) \in Nat /\ Cardinality(K) = 0
        BY <4>1, <4>2, FinitePool, FS_EmptySet
      <4>4. QED
        BY <4>3 DEF V, K
    <3>3. QED
      BY <1>8, <2>6, <3>1, <3>2
  <2>7. q.diff = q.first + n * AgeDiffStep
    BY <1>8, <1>10
  <2>8. \E m \in 0..(MaxAgeDiff + AgeDiffStep) :
          /\ q.diff = q.first + m * AgeDiffStep
          /\ \A k \in 0..(m - 1) : Widened(q, k) \subseteq q.filled
          /\ \A u \in q.left :
               Cardinality({v \in q.pool \ q.left : Age[v] = Age[u]})
                 >= Cardinality({k \in 0..(m - 1) : Age[u] \in Widened(q, k)})
    BY <2>5, <2>6, <2>7
  <2>9. QED
    BY <2>1, <2>2, <2>3, <2>4, <2>8 DEF Passed
<1>16. Collected(q) /\ Unrepeated(q)
  <2>1. q.left \subseteq q.pool /\ q.result \subseteq q.pool
    BY <1>8, <1>12
  <2>2. QED
    BY <1>8, <1>9, <2>1 DEF Collected, Unrepeated
<1>17. Staged(q)
  BY <1>2, <1>8, <1>9 DEF Staged, Searching
<1>18. Local(q)
  BY <1>8, <1>9, <1>15, <1>16, <1>17 DEF Local
<1>19. QED
  BY <1>2, <1>3, <1>7, <1>18, OneMoves

\* The range of ages is widened in steps.
LEMMA WiderOnce ==
  ASSUME NEW first \in Nat, NEW n \in Nat, first + n * AgeDiffStep <= MaxAgeDiff
  PROVE  /\ n + 1 \in 0..(MaxAgeDiff + AgeDiffStep)
         /\ first + n * AgeDiffStep + AgeDiffStep = first + (n + 1) * AgeDiffStep
<1>1. AgeDiffStep \in Nat /\ AgeDiffStep >= 1 /\ MaxAgeDiff \in Nat
  BY FetchUsersAssumption
<1>2. n * AgeDiffStep >= n /\ n * AgeDiffStep \in Nat
  <2> DEFINE t == AgeDiffStep - 1
  <2>1. t \in Nat /\ AgeDiffStep = t + 1
    BY <1>1
  <2>2. n * (t + 1) = n * t + n /\ n * t \in Nat
    BY <2>1
  <2>3. QED
    BY <2>1, <2>2
<1>3. (n + 1) * AgeDiffStep = n * AgeDiffStep + AgeDiffStep
  BY <1>1
<1>4. QED
  BY <1>1, <1>2, <1>3

\* A pass takes one user of every age of those who are left.
LEMMA OneOfEach ==
  ASSUME NEW L \in SUBSET User, NEW S \in NextOfEach(L)
  PROVE  /\ S \in SUBSET L
         /\ \A u \in L : \E v \in S : {w \in S : Age[w] = Age[u]} = {v}
         /\ \A u, v \in S : Age[u] = Age[v] => u = v
<1>1. S \in SUBSET L /\ \A u \in L : Cardinality({v \in S : Age[v] = Age[u]}) = 1
  BY DEF NextOfEach
<1>2. ASSUME NEW u \in L
      PROVE  \E v \in S : {w \in S : Age[w] = Age[u]} = {v}
  <2> DEFINE V == {w \in S : Age[w] = Age[u]}
  <2>1. V \in SUBSET User /\ V \subseteq S
    BY <1>1
  <2>2. Cardinality(V) = 1
    BY <1>1, <1>2
  <2> HIDE DEF V
  <2>3. \E v : V = {v}
    BY <2>1, <2>2, FinitePool, FS_Singleton
  <2>4. QED
    BY <2>1, <2>3 DEF V
<1>3. ASSUME NEW u \in S, NEW v \in S, Age[u] = Age[v]
      PROVE  u = v
  <2>1. PICK x \in S : {w \in S : Age[w] = Age[u]} = {x}
    BY <1>1, <1>2
  <2>2. u \in {w \in S : Age[w] = Age[u]} /\ v \in {w \in S : Age[w] = Age[u]}
    BY <1>3
  <2>3. QED
    BY <2>1, <2>2
<1>4. QED
  BY <1>1, <1>2, <1>3

\* Disjoint sets of users are counted one after the other.
LEMMA Together ==
  ASSUME NEW S \in SUBSET User, NEW T \in SUBSET User, S \cap T = {}
  PROVE  Cardinality(S \cup T) = Cardinality(S) + Cardinality(T)
<1>1. IsFiniteSet(S) /\ IsFiniteSet(T) /\ Cardinality(S) \in Nat /\ Cardinality(T) \in Nat
  BY FinitePool
<1>2. Cardinality(S \cup T) = Cardinality(S) + Cardinality(T) - Cardinality(S \cap T)
  BY <1>1, FS_Union
<1>3. Cardinality(S \cap T) = 0
  BY FS_EmptySet
<1>4. QED
  BY <1>1, <1>2, <1>3

\* A pass that finds enough takes exactly as many as there was room for; one that does
\* not has taken, of every age that is left, one more user, and widens the range.
LEMMA PassStep ==
  ASSUME Inv, NEW p \in Process, Pass(p)
  PROVE  Inv'
<1> DEFINE r == process[p]
           wider == r.diff + AgeDiffStep
           room == Limit - Cardinality(r.result)
<1>1. SharedOK /\ process \in [Process -> Coroutine] /\ r \in Coroutine /\ Local(r)
  BY DEF Inv
<1>2. PICK S \in NextOfEach(r.left) :
        process' = [process EXCEPT ![p] =
          IF Cardinality(Fresh(r, S)) >= room
          THEN [r EXCEPT !.at = "save response", !.result = @ \cup Nearest(Fresh(r, S), room)]
          ELSE [r EXCEPT !.at = IF wider > MaxAgeDiff THEN "save response" ELSE "fill",
                         !.diff = wider, !.left = @ \ S, !.result = @ \cup Fresh(r, S)]]
  BY DEF Pass
<1>3. /\ r.at = "fill" /\ Ages(r.diff) \subseteq r.filled
      /\ UNCHANGED <<online, avoided, moves, response, ageDiff>>
  BY DEF Pass, At, Others, caches
<1>4. SharedOK'
  BY <1>1, <1>3 DEF SharedOK
<1>5. /\ Collected(r) /\ Staged(r) /\ Unrepeated(r) /\ Passed(r) /\ Cardinality(r.result) < Limit
      /\ r.pool \in SUBSET User /\ r.left \in SUBSET User /\ r.result \in SUBSET User
      /\ r.diff \in Nat /\ r.first \in Nat /\ r.session \in Session \cup {Unset}
  BY <1>1, <1>3 DEF Local, Coroutine
<1>6. PICK n \in 0..(MaxAgeDiff + AgeDiffStep) :
         /\ r.diff = r.first + n * AgeDiffStep
         /\ \A k \in 0..(n - 1) : Widened(r, k) \subseteq r.filled
         /\ \A u \in r.left :
              Cardinality({v \in r.pool \ r.left : Age[v] = Age[u]})
                >= Cardinality({k \in 0..(n - 1) : Age[u] \in Widened(r, k)})
  BY <1>3, <1>5 DEF Passed, Searching
<1>7. /\ r.diff <= MaxAgeDiff /\ \A u \in r.pool : Age[u] \in r.filled
      /\ r.result \cap r.left = {}
      /\ r.pool \ r.left \subseteq r.cached \cup r.disallowed \cup r.result
  BY <1>3, <1>5 DEF Passed, Searching
<1>8. /\ S \in SUBSET r.left
      /\ \A u \in r.left : \E v \in S : {w \in S : Age[w] = Age[u]} = {v}
      /\ \A u, v \in S : Age[u] = Age[v] => u = v
  BY <1>5, OneOfEach
<1> DEFINE fresh == Fresh(r, S)
<1>9. /\ fresh \in SUBSET S /\ fresh \cap r.cached = {} /\ fresh \cap r.disallowed = {}
      /\ S \ fresh \subseteq r.cached \cup r.disallowed
  BY DEF Fresh
<1> HIDE DEF fresh
<1>10. /\ fresh \in SUBSET User /\ fresh \subseteq r.pool /\ fresh \cap r.result = {}
       /\ r.result \subseteq r.pool /\ r.left \subseteq r.pool
  BY <1>5, <1>7, <1>8, <1>9 DEF Collected
<1>11. Cardinality(fresh) \in Nat /\ Cardinality(r.result) \in Nat /\ Limit \in Nat /\ room \in Nat
  BY <1>5, <1>10, FinitePool, FetchUsersAssumption
<1>12. CASE Cardinality(fresh) >= room
  <2> DEFINE N == Nearest(fresh, room)
             q == [r EXCEPT !.at = "save response", !.result = @ \cup N]
  <2>1. process' = [process EXCEPT ![p] = q]
    BY <1>2, <1>12 DEF fresh
  <2>2. \A u, v \in fresh : Age[u] = Age[v] => u = v
    BY <1>8, <1>9
  <2>3. N \subseteq fresh /\ Cardinality(N) = room
    BY <1>10, <1>11, <1>12, <2>2, NearestCount
  <2> HIDE DEF N
  <2>4. Cardinality(r.result \cup N) = Limit
    <3>1. N \in SUBSET User /\ r.result \cap N = {}
      BY <1>10, <2>3
    <3>2. Cardinality(r.result \cup N) = Cardinality(r.result) + Cardinality(N)
      BY <1>5, <3>1, Together
    <3>3. QED
      BY <1>11, <2>3, <3>2
  <2>5. q \in Coroutine
    <3>1. r.result \cup N \in SUBSET User
      BY <1>5, <1>10, <2>3
    <3>2. QED
      BY <1>1, <3>1 DEF Coroutine, Places
  <2>6. /\ q.at = "save response" /\ q.session = r.session /\ q.result = r.result \cup N
        /\ q.pool = r.pool /\ q.left = r.left /\ q.cached = r.cached
    BY <1>1 DEF Coroutine
  <2> HIDE DEF q
  <2>7. Collected(q)
    <3>1. q.left \subseteq q.pool /\ q.result \subseteq q.pool
      BY <1>10, <2>3, <2>6
    <3>2. Cardinality(q.result) = Limit
      BY <2>4, <2>6
    <3>3. Cardinality(q.result) <= Limit
      BY <1>11, <3>2
    <3>4. QED
      BY <3>1, <3>3 DEF Collected
  <2>8. Unrepeated(q)
    BY <1>5, <1>9, <2>3, <2>6 DEF Unrepeated
  <2>9. Staged(q)
    BY <1>3, <1>5, <2>6 DEF Staged, Searching
  <2>10. Passed(q) /\ q.at # "fill"
    <3>1. Cardinality(q.result) = Limit
      BY <2>4, <2>6
    <3>2. ~(Cardinality(q.result) < Limit)
      BY <1>11, <3>1
    <3>3. QED
      BY <2>6, <3>2 DEF Passed
  <2>11. QED
    BY <1>4, <2>1, <2>5, <2>7, <2>8, <2>9, <2>10, OneMoves DEF Local
<1>13. CASE ~(Cardinality(fresh) >= room)
  <2> DEFINE a == IF wider > MaxAgeDiff THEN "save response" ELSE "fill"
             q == [r EXCEPT !.at = a, !.diff = wider, !.left = @ \ S, !.result = @ \cup fresh]
  <2>1. process' = [process EXCEPT ![p] = q]
    BY <1>2, <1>13 DEF fresh
  <2>2. wider \in Nat /\ MaxAgeDiff \in Nat
    BY <1>5, FetchUsersAssumption
  <2>3. a \in {"fill", "save response"} /\ IF a = "fill" THEN wider <= MaxAgeDiff ELSE wider > MaxAgeDiff
    BY <2>2
  <2> HIDE DEF a
  <2>4. Cardinality(r.result \cup fresh) < Limit
    <3>1. Cardinality(r.result \cup fresh) = Cardinality(r.result) + Cardinality(fresh)
      BY <1>5, <1>10, Together
    <3>2. QED
      BY <1>11, <1>13, <3>1
  <2>5. q \in Coroutine
    <3>1. r.result \cup fresh \in SUBSET User /\ r.left \ S \in SUBSET User
      BY <1>5, <1>10
    <3>2. QED
      BY <1>1, <2>2, <2>3, <3>1 DEF Coroutine, Places
  <2>6. /\ q.at = a /\ q.session = r.session /\ q.result = r.result \cup fresh
        /\ q.pool = r.pool /\ q.left = r.left \ S /\ q.cached = r.cached
        /\ q.diff = r.diff + AgeDiffStep /\ q.first = r.first /\ q.filled = r.filled
        /\ q.disallowed = r.disallowed
    BY <1>1 DEF Coroutine
  <2> HIDE DEF q, wider
  <2>7. Collected(q)
    <3>1. q.left \subseteq q.pool /\ q.result \subseteq q.pool
      BY <1>10, <2>6
    <3>2. Cardinality(q.result) \in Nat /\ Cardinality(q.result) < Limit
      BY <1>5, <1>10, <2>4, <2>6, FinitePool
    <3>3. QED
      BY <1>11, <3>1, <3>2 DEF Collected
  <2>8. Unrepeated(q)
    BY <1>5, <1>9, <2>6 DEF Unrepeated
  <2>9. Staged(q)
    BY <1>3, <1>5, <2>3, <2>6 DEF Staged, Searching
  <2>10. /\ n \in Nat /\ n + 1 \in 0..(MaxAgeDiff + AgeDiffStep)
         /\ q.diff = q.first + (n + 1) * AgeDiffStep
    <3>1. n \in Nat
      BY FetchUsersAssumption
    <3>2. QED
      BY <1>5, <1>6, <1>7, <2>6, <3>1, WiderOnce
  <2>11. \A k : Widened(q, k) = Widened(r, k)
    BY <2>6 DEF Widened
  <2>12. \A k \in 0..n : Widened(q, k) \subseteq q.filled
    <3>1. Widened(r, n) \subseteq r.filled
      BY <1>3, <1>6 DEF Widened
    <3>2. \A k \in 0..n : k = n \/ k \in 0..(n - 1)
      BY <2>10
    <3>3. QED
      BY <1>6, <2>6, <2>11, <3>1, <3>2
  <2>13. ASSUME NEW u \in q.left
         PROVE  Cardinality({v \in q.pool \ q.left : Age[v] = Age[u]})
                  >= Cardinality({k \in 0..n : Age[u] \in Widened(q, k)})
    <3> DEFINE V == {v \in q.pool \ q.left : Age[v] = Age[u]}
               V0 == {v \in r.pool \ r.left : Age[v] = Age[u]}
               K == {k \in 0..n : Age[u] \in Widened(q, k)}
               K0 == {k \in 0..(n - 1) : Age[u] \in Widened(r, k)}
    <3>1. u \in r.left
      BY <2>6, <2>13
    <3>2. Cardinality(V0) >= Cardinality(K0)
      BY <1>6, <3>1
    <3>3. PICK s \in S : {w \in S : Age[w] = Age[u]} = {s}
      BY <1>8, <3>1
    <3>4. V = V0 \cup {s}
      <4>1. q.pool \ q.left = (r.pool \ r.left) \cup S
        BY <1>8, <1>10, <2>6
      <4>2. V = V0 \cup {w \in S : Age[w] = Age[u]}
        BY <4>1
      <4>3. QED
        BY <3>3, <4>2
    <3>5. s \notin V0
      BY <1>8
    <3>6. K \subseteq K0 \cup {n}
      <4>1. \A k \in 0..n : k = n \/ k \in 0..(n - 1)
        BY <2>10
      <4>2. QED
        BY <2>11, <4>1
    <3>7. V0 \in SUBSET User /\ K0 \subseteq 0..(n - 1)
      BY <1>5
    <3> HIDE DEF V, V0, K, K0
    <3>8. IsFiniteSet(V0) /\ Cardinality(V0) \in Nat /\ Cardinality(V) = Cardinality(V0) + 1
      <4>1. IsFiniteSet(V0) /\ Cardinality(V0) \in Nat
        BY <3>7, FinitePool
      <4>2. Cardinality(V0 \cup {s}) = Cardinality(V0) + 1
        BY <3>5, <4>1, FS_AddElement
      <4>3. QED
        BY <3>4, <4>1, <4>2
    <3>9. IsFiniteSet(K0) /\ Cardinality(K0) \in Nat
      <4>1. IsFiniteSet(0..(n - 1))
        BY <2>10, FS_Interval
      <4>2. QED
        BY <3>7, <4>1, FS_Subset, FS_CardinalityType
    <3>10. IsFiniteSet(K0 \cup {n}) /\ Cardinality(K0 \cup {n}) <= Cardinality(K0) + 1
      <4>1. IsFiniteSet(K0 \cup {n}) /\ (Cardinality(K0 \cup {n}) = Cardinality(K0)
                                           \/ Cardinality(K0 \cup {n}) = Cardinality(K0) + 1)
        BY <3>9, FS_AddElement
      <4>2. QED
        BY <3>9, <4>1
    <3>11. /\ Cardinality(K) <= Cardinality(K0 \cup {n})
           /\ Cardinality(K) \in Nat /\ Cardinality(K0 \cup {n}) \in Nat
      BY <3>6, <3>10, FS_Subset, FS_CardinalityType
    <3>12. Cardinality(V) >= Cardinality(K)
      BY <3>2, <3>8, <3>9, <3>10, <3>11
    <3>13. QED
      BY <3>12 DEF V, K
  <2>14. Passed(q)
    <3>1. IF q.at = "fill" THEN q.diff <= MaxAgeDiff ELSE q.diff > MaxAgeDiff
      BY <2>3, <2>6 DEF wider
    <3>2. \A u \in q.pool : Age[u] \in q.filled
      BY <1>7, <2>6
    <3>3. q.result \cap q.left = {}
      BY <1>7, <1>9, <2>6
    <3>4. q.pool \ q.left \subseteq q.cached \cup q.disallowed \cup q.result
      BY <1>7, <1>8, <1>9, <1>10, <2>6
    <3> DEFINE l == n + 1
    <3>5. 0..(l - 1) = 0..n /\ l \in 0..(MaxAgeDiff + AgeDiffStep) /\ q.diff = q.first + l * AgeDiffStep
      BY <2>10
    <3> HIDE DEF l
    <3>6. \E m \in 0..(MaxAgeDiff + AgeDiffStep) :
            /\ q.diff = q.first + m * AgeDiffStep
            /\ \A k \in 0..(m - 1) : Widened(q, k) \subseteq q.filled
            /\ \A u \in q.left :
                 Cardinality({v \in q.pool \ q.left : Age[v] = Age[u]})
                   >= Cardinality({k \in 0..(m - 1) : Age[u] \in Widened(q, k)})
      BY <2>10, <2>12, <2>13, <3>5
    <3>7. QED
      BY <3>1, <3>2, <3>3, <3>4, <3>6 DEF Passed
  <2>15. QED
    BY <1>4, <2>1, <2>4, <2>5, <2>6, <2>7, <2>8, <2>9, <2>14, OneMoves DEF Local
<1>14. QED
  BY <1>12, <1>13

-------------------------------------------------------------------------------
(* The next-state relation *)

\* Every step keeps the invariant.
LEMMA NextInv == Inv /\ [Next]_vars => Inv'
<1> SUFFICES ASSUME Inv, [Next]_vars PROVE Inv'
  OBVIOUS
<1>1. SharedOK
  BY DEF Inv
<1>2. CASE UNCHANGED vars
  BY <1>1, <1>2, NobodyMoves DEF vars, caches, SharedOK
<1>3. ASSUME NEW p \in Process, Works(p) \/ Disconnect(p) \/ \E s \in Session : Request(p, s)
      PROVE  Inv'
  <2>1. CASE \/ Disconnect(p) \/ LookForKey(p) \/ LookForOlder(p) \/ ListResponses(p) \/ ListDiffs(p)
             \/ Dropped(p) \/ \E s \in Session : DropResponse(p, s) \/ DropDiff(p, s) \/ Request(p, s)
    BY <2>1, ControlSteps
  <2>2. CASE ReadResponse(p)
    BY <2>2, ReadResponseStep
  <2>3. CASE ReadDiff(p)
    BY <2>3, ReadDiffStep
  <2>4. CASE Fill(p)
    BY <2>4, FillStep
  <2>5. CASE Pass(p)
    BY <2>5, PassStep
  <2>6. CASE SaveResponse(p)
    BY <2>6, SaveResponseStep
  <2>7. CASE SaveDiff(p)
    BY <2>7, SaveDiffStep
  <2>8. QED
    BY <1>3, <2>1, <2>2, <2>3, <2>4, <2>5, <2>6, <2>7 DEF Works
<1>4. ASSUME NEW s \in Session, Expire(s)
      PROVE  Inv'
  BY <1>1, <1>4, NobodyMoves DEF Expire, Others, SharedOK
<1>5. ASSUME NEW u \in User, Come(u) \/ Leave(u) \/ Avoid(u)
      PROVE  Inv'
  <2>1. moves' \in 0..MaxMoves
    BY <1>1, <1>5, FetchUsersAssumption DEF Come, Leave, Avoid, Moves, SharedOK
  <2>2. online' \in SUBSET User /\ avoided' \in SUBSET User
    BY <1>1, <1>5 DEF Come, Leave, Avoid, SharedOK
  <2>3. UNCHANGED <<response, ageDiff, process>>
    BY <1>5 DEF Come, Leave, Avoid, caches
  <2>4. SharedOK'
    BY <1>1, <2>1, <2>2, <2>3 DEF SharedOK
  <2>5. QED
    BY <2>3, <2>4, NobodyMoves
<1>6. QED
  BY <1>2, <1>3, <1>4, <1>5 DEF Next

\* The invariant holds in every state.
LEMMA AlwaysInv == Spec => []Inv
BY InitInv, NextInv, PTL DEF Spec

-------------------------------------------------------------------------------
(* What is known of earlier answers *)

\* Whoever knows of somebody is before reading the cache, with a session, or after it.
LEMMA Reader ==
  ASSUME Inv, HistoryOK, NEW p \in Process
  PROVE  /\ process[p] \in Coroutine
         /\ process[p].at \in Reads => process[p].session \in Session
         /\ process[p].at \notin Reads \cup HasRead => known[p] = {}
         /\ Remembered(p)
BY DEF Inv, Local, Staged, Reads, HistoryOK, HistoryInv, Remembered

\* A coroutine that goes on, without passing the point where it reads the cache, knows
\* what it did.
LEMMA GoesOn ==
  ASSUME Inv, HistoryOK, NEW p \in Process, NEW q, process' = [process EXCEPT ![p] = q],
         q.session = process[p].session, q.cached = process[p].cached,
         \/ known[p] = {}
         \/ process[p].at \in Reads /\ q.at \in Reads
         \/ process[p].at \in HasRead /\ q.at \in HasRead,
         UNCHANGED history, response' = response
  PROVE  HistoryOK'
<1>1. /\ given' = given /\ known' = known
      /\ process'[p] = q /\ \A o \in Process \ {p} : process'[o] = process[o]
  BY DEF history, Inv
<1>2. \A o \in Process : Remembered(o)
  BY Reader
<1>3. ASSUME NEW o \in Process PROVE Remembered(o)'
  <2>1. CASE o # p
    BY <1>1, <1>2, <2>1 DEF Remembered
  <2>2. CASE o = p
    <3>1. Reads \cap HasRead = {}
      BY DEF Reads, HasRead
    <3>2. QED
      BY <1>1, <1>2, <2>2, <3>1 DEF Remembered
  <2>3. QED
    BY <2>1, <2>2
<1>4. QED
  BY <1>1, <1>3 DEF HistoryOK, HistoryInv

\* When a cache is lost, those who have yet to read it know of nobody any more.
LEMMA Forgets ==
  ASSUME Inv, HistoryOK, NEW s \in Session, Forgotten(s, {}),
         response' = [response EXCEPT ![s] = {}],
         \A o \in Process : /\ process'[o].at = process[o].at
                           /\ process'[o].session = process[o].session
                           /\ process'[o].cached = process[o].cached
  PROVE  HistoryOK'
<1>1. /\ given' \in [Session -> SUBSET User] /\ given'[s] = {}
      /\ \A x \in Session \ {s} : given'[x] = given[x]
  BY DEF Forgotten, HistoryOK
<1>2. /\ known' \in [Process -> SUBSET User]
      /\ \A o \in Process : known'[o] \subseteq known[o]
      /\ \A o \in Process : process[o].session = s /\ process[o].at \in Reads => known'[o] = {}
  BY DEF Forgotten, HistoryOK, Reads, Unread
<1>3. \A x \in Session : given'[x] \subseteq response'[x]
  BY <1>1 DEF Inv, SharedOK, HistoryOK, HistoryInv
<1>4. ASSUME NEW o \in Process PROVE Remembered(o)'
  <2>1. Remembered(o) /\ (process[o].at \in Reads => process[o].session \in Session)
    BY Reader
  <2>2. known'[o] # {} => process'[o].at \in Reads \cup HasRead
    BY <1>2, <2>1 DEF Remembered
  <2>3. process'[o].at \in Reads => known'[o] \subseteq given'[process'[o].session]
    BY <1>1, <1>2, <2>1 DEF Remembered
  <2>4. process'[o].at \in HasRead => known'[o] \subseteq process'[o].cached
    BY <1>2, <2>1 DEF Remembered
  <2>5. QED
    BY <2>2, <2>3, <2>4 DEF Remembered
<1>5. QED
  BY <1>1, <1>2, <1>3, <1>4 DEF HistoryOK, HistoryInv

\* Up to the search, a request knows of those whom the cache holds.
LEMMA ControlKnows ==
  ASSUME Inv, HistoryOK, NEW p \in Process,
         \/ Disconnect(p) \/ LookForKey(p) \/ LookForOlder(p) \/ ListResponses(p) \/ ListDiffs(p)
         \/ Dropped(p) \/ \E s \in Session : DropDiff(p, s)
  PROVE  HistoryOK'
<1> DEFINE r == process[p]
<1>1. r \in Coroutine /\ (r.at \notin Reads \cup HasRead => known[p] = {})
  BY Reader
<1>2. UNCHANGED history /\ response' = response
  BY DEF Disconnect, LookForKey, LookForOlder, ListResponses, ListDiffs, Dropped, DropDiff, caches
<1>3. CASE LookForKey(p)
  <2> DEFINE a == IF response[r.session] # {} THEN "read response" ELSE "older"
             q == [r EXCEPT !.at = a]
  <2>1. process' = [process EXCEPT ![p] = q] /\ r.at = "key"
    BY <1>3 DEF LookForKey, At, Goes, Inv
  <2>2. q.at = a /\ q.session = r.session /\ q.cached = r.cached
    BY <1>1 DEF Coroutine
  <2>3. response[r.session] = {} => known[p] = {}
    <3>1. r.session \in Session /\ Remembered(p) /\ r.at \in Reads
      BY <2>1, Reader DEF Reads
    <3>2. QED
      BY <3>1 DEF Remembered, HistoryOK, HistoryInv
  <2>4. known[p] = {} \/ (r.at \in Reads /\ q.at \in Reads)
    BY <2>1, <2>2, <2>3 DEF Reads
  <2> HIDE DEF q
  <2>5. QED
    BY <1>2, <2>1, <2>2, <2>4, GoesOn
<1>4. CASE ~LookForKey(p)
  <2>1. r.at \in {"start", "older", "list responses", "drop responses", "drop diffs"}
    BY <1>4 DEF Disconnect, LookForOlder, ListResponses, ListDiffs, Dropped, DropDiff, At
  <2>2. known[p] = {}
    BY <1>1, <2>1 DEF Reads, HasRead
  <2>3. \A a, K : /\ [r EXCEPT !.at = a].session = r.session /\ [r EXCEPT !.at = a].cached = r.cached
                 /\ [r EXCEPT !.keys = K].session = r.session /\ [r EXCEPT !.keys = K].cached = r.cached
                 /\ [r EXCEPT !.at = a, !.keys = K].session = r.session
                 /\ [r EXCEPT !.at = a, !.keys = K].cached = r.cached
    BY <1>1 DEF Coroutine
  <2>4. CASE Disconnect(p) \/ LookForOlder(p) \/ Dropped(p)
    <3>1. PICK a : process' = [process EXCEPT ![p] = [r EXCEPT !.at = a]]
      BY <2>4 DEF Disconnect, LookForOlder, Dropped, Goes, Inv
    <3>2. QED
      BY <1>2, <2>2, <2>3, <3>1, GoesOn
  <2>5. CASE ListResponses(p) \/ ListDiffs(p)
    <3>1. PICK a, K : process' = [process EXCEPT ![p] = [r EXCEPT !.at = a, !.keys = K]]
      BY <2>5 DEF ListResponses, ListDiffs, Inv
    <3>2. QED
      BY <1>2, <2>2, <2>3, <3>1, GoesOn
  <2>6. CASE \E s \in Session : DropDiff(p, s)
    <3>1. PICK K : process' = [process EXCEPT ![p] = [r EXCEPT !.keys = K]]
      BY <2>6 DEF DropDiff, Inv
    <3>2. QED
      BY <1>2, <2>2, <2>3, <3>1, GoesOn
  <2>7. QED
    BY <1>4, <2>4, <2>5, <2>6
<1>5. QED
  BY <1>3, <1>4

\* While it searches a request knows of those whom it has read in the cache.
LEMMA SearchKnows ==
  ASSUME Inv, HistoryOK, NEW p \in Process, ReadDiff(p) \/ Fill(p) \/ Pass(p)
  PROVE  HistoryOK'
<1> DEFINE r == process[p]
<1>1. r \in Coroutine /\ r.at \in HasRead
  BY Reader DEF ReadDiff, Fill, Pass, At, HasRead
<1>2. UNCHANGED history /\ response' = response
  BY DEF ReadDiff, Fill, Pass, caches
<1>3. \E q : /\ process' = [process EXCEPT ![p] = q]
             /\ q.at \in HasRead /\ q.session = r.session /\ q.cached = r.cached
  <2>1. CASE ReadDiff(p)
    <3> DEFINE d == ageDiff[r.session]
               diff == IF d = Unset THEN DefaultAgeDiff ELSE d
               a == IF diff > MaxAgeDiff THEN "save response" ELSE "fill"
               q == [r EXCEPT !.at = a, !.diff = diff, !.first = diff]
    <3>1. process' = [process EXCEPT ![p] = q]
      BY <2>1 DEF ReadDiff, Inv
    <3>2. q.at \in HasRead /\ q.session = r.session /\ q.cached = r.cached
      BY <1>1 DEF Coroutine, HasRead
    <3>3. QED
      BY <3>1, <3>2
  <2>2. CASE Fill(p)
    <3>1. PICK F, X, L : process' = [process EXCEPT ![p] = [r EXCEPT !.filled = F, !.pool = X, !.left = L]]
      <4> DEFINE missing == Ages(r.diff) \ r.filled
                 a == CHOOSE x \in missing : \A y \in missing \ {x} : Nearer(x, y)
                 found == {u \in online : Age[u] = a}
      <4>1. process' = [process EXCEPT ![p].filled = @ \cup {a}, ![p].pool = @ \cup found,
                                       ![p].left = @ \cup found]
        BY <2>2 DEF Fill
      <4> HIDE DEF a, found
      <4>2. process' = [process EXCEPT ![p] = [r EXCEPT !.filled = r.filled \cup {a},
                          !.pool = r.pool \cup found, !.left = r.left \cup found]]
        BY <1>1, <4>1 DEF Inv, Coroutine
      <4>3. QED
        BY <4>2
    <3> DEFINE q == [r EXCEPT !.filled = F, !.pool = X, !.left = L]
    <3>2. q.at = r.at /\ q.session = r.session /\ q.cached = r.cached
      BY <1>1 DEF Coroutine
    <3>3. QED
      BY <1>1, <3>1, <3>2
  <2>3. CASE Pass(p)
    <3> DEFINE room == Limit - Cardinality(r.result)
               wider == r.diff + AgeDiffStep
               a == IF wider > MaxAgeDiff THEN "save response" ELSE "fill"
               full(F) == [r EXCEPT !.at = "save response", !.result = @ \cup Nearest(F, room)]
               more(S, F) == [r EXCEPT !.at = a, !.diff = wider, !.left = @ \ S, !.result = @ \cup F]
    <3>1. PICK S : process' = [process EXCEPT ![p] = IF Cardinality(Fresh(r, S)) >= room
                                                     THEN full(Fresh(r, S)) ELSE more(S, Fresh(r, S))]
      BY <2>3 DEF Pass
    <3>2. \A F : /\ full(F).at \in HasRead /\ full(F).session = r.session /\ full(F).cached = r.cached
                 /\ more(S, F).at \in HasRead /\ more(S, F).session = r.session
                 /\ more(S, F).cached = r.cached
      BY <1>1 DEF Coroutine, HasRead
    <3> HIDE DEF full, more, room
    <3>3. QED
      BY <3>1, <3>2
  <2>4. QED
    BY <2>1, <2>2, <2>3
<1>4. PICK q : /\ process' = [process EXCEPT ![p] = q]
               /\ q.at \in HasRead /\ q.session = r.session /\ q.cached = r.cached
  BY <1>3
<1>5. QED
  BY <1>1, <1>2, <1>4, GoesOn

\* Every step keeps what is known of earlier answers.
LEMMA HistoryStep ==
  ASSUME Inv, HistoryOK, [Next]_vars
  PROVE  HistoryOK'
<1>1. CASE UNCHANGED <<process, response, history>>
  BY <1>1 DEF history, HistoryOK, HistoryInv, Remembered
<1>2. ASSUME NEW p \in Process, NEW s \in Session, Request(p, s) PROVE HistoryOK'
  <2> DEFINE q == [process[p] EXCEPT !.at = "key", !.session = s, !.disallowed = avoided]
  <2>1. /\ process' = [process EXCEPT ![p] = q] /\ known' = [known EXCEPT ![p] = given[s]]
        /\ UNCHANGED <<response, given>>
    BY <1>2 DEF Request, caches, Inv
  <2>2. q.at = "key" /\ q.session = s
    BY Reader DEF Coroutine
  <2> HIDE DEF q
  <2>3. /\ process'[p] = q /\ known'[p] = given[s] /\ known' \in [Process -> SUBSET User]
        /\ \A o \in Process \ {p} : process'[o] = process[o] /\ known'[o] = known[o]
    BY <2>1 DEF Inv, HistoryOK
  <2>4. ASSUME NEW o \in Process PROVE Remembered(o)'
    BY <2>1, <2>2, <2>3, Reader DEF Remembered, Reads, HasRead
  <2>5. QED
    BY <2>1, <2>3, <2>4 DEF HistoryOK, HistoryInv
<1>3. ASSUME NEW p \in Process, ReadResponse(p) PROVE HistoryOK'
  <2> DEFINE s == process[p].session
             q == [process[p] EXCEPT !.at = "read diff", !.cached = response[s]]
  <2>1. process' = [process EXCEPT ![p] = q] /\ UNCHANGED <<response, given, known>>
    BY <1>3 DEF ReadResponse, caches, history, Inv
  <2>2. q.at = "read diff" /\ q.cached = response[s]
    BY Reader DEF Coroutine
  <2>3. s \in Session /\ known[p] \subseteq given[s]
    BY <1>3, Reader DEF ReadResponse, At, Reads, Remembered
  <2>4. known[p] \subseteq q.cached
    BY <2>2, <2>3 DEF HistoryOK, HistoryInv
  <2> HIDE DEF q
  <2>5. process'[p] = q /\ \A o \in Process \ {p} : process'[o] = process[o]
    BY <2>1 DEF Inv
  <2>6. ASSUME NEW o \in Process PROVE Remembered(o)'
    BY <2>1, <2>2, <2>4, <2>5, Reader DEF Remembered, Reads, HasRead
  <2>7. QED
    BY <2>1, <2>6 DEF HistoryOK, HistoryInv
<1>4. ASSUME NEW p \in Process, SaveResponse(p) PROVE HistoryOK'
  <2> DEFINE s == process[p].session
             S == process[p].result
             q == [process[p] EXCEPT !.at = "save diff"]
  <2>1. /\ process' = [process EXCEPT ![p] = q] /\ known' = known
        /\ response' = [response EXCEPT ![s] = @ \cup S]
        /\ given' = [given EXCEPT ![s] = @ \cup S]
    BY <1>4 DEF SaveResponse, Goes, Inv
  <2>2. q.at = "save diff" /\ q.cached = process[p].cached /\ S \in SUBSET User
    BY Reader DEF Coroutine
  <2>3. process[p].at \in HasRead /\ Remembered(p)
    BY <1>4, Reader DEF SaveResponse, At, HasRead
  <2> HIDE DEF q, S, s
  <2>4. process'[p] = q /\ \A o \in Process \ {p} : process'[o] = process[o]
    BY <2>1 DEF Inv
  <2>5. /\ given' \in [Session -> SUBSET User]
        /\ \A x \in Session : given[x] \subseteq given'[x] /\ given'[x] \subseteq response'[x]
    BY <2>1, <2>2 DEF Inv, SharedOK, HistoryOK, HistoryInv
  <2>6. ASSUME NEW o \in Process PROVE Remembered(o)'
    <3>1. CASE o = p
      BY <2>1, <2>2, <2>3, <2>4, <3>1 DEF Remembered, Reads, HasRead
    <3>2. CASE o # p
      <4>1. Remembered(o) /\ (process[o].at \in Reads => process[o].session \in Session)
        BY Reader
      <4>2. QED
        BY <2>1, <2>4, <2>5, <3>2, <4>1 DEF Remembered
    <3>3. QED
      BY <3>1, <3>2
  <2>7. QED
    BY <2>1, <2>5, <2>6 DEF HistoryOK, HistoryInv
<1>5. ASSUME NEW p \in Process, SaveDiff(p) PROVE HistoryOK'
  <2>1. /\ process' = [process EXCEPT ![p] = [Idle EXCEPT !.at = "end"]]
        /\ known' = [known EXCEPT ![p] = {}] /\ UNCHANGED <<response, given>>
    BY <1>5 DEF SaveDiff
  <2>2. /\ process'[p].at = "end" /\ known'[p] = {} /\ known' \in [Process -> SUBSET User]
        /\ \A o \in Process \ {p} : process'[o] = process[o] /\ known'[o] = known[o]
    BY <2>1 DEF Inv, HistoryOK, Idle
  <2>3. ASSUME NEW o \in Process PROVE Remembered(o)'
    BY <2>1, <2>2, Reader DEF Remembered, Reads, HasRead
  <2>4. QED
    BY <2>1, <2>2, <2>3 DEF HistoryOK, HistoryInv
<1>6. ASSUME NEW p \in Process, NEW s \in Session, DropResponse(p, s) PROVE HistoryOK'
  <2>1. known[p] = {}
    BY <1>6, Reader DEF DropResponse, At, Reads, HasRead
  <2>2. Forgotten(s, {}) /\ response' = [response EXCEPT ![s] = {}]
    BY <1>6, <2>1 DEF DropResponse
  <2>3. process' = [process EXCEPT ![p] = [process[p] EXCEPT !.keys = @ \ {s}]]
    BY <1>6 DEF DropResponse, Inv
  <2>4. \A o \in Process : /\ process'[o].at = process[o].at
                          /\ process'[o].session = process[o].session
                          /\ process'[o].cached = process[o].cached
    BY <2>3, Reader DEF Coroutine
  <2>5. QED
    BY <2>2, <2>4, Forgets
<1>7. ASSUME NEW s \in Session, Expire(s) PROVE HistoryOK'
  BY <1>7, Forgets DEF Expire
<1>8. \A u \in User : Come(u) \/ Leave(u) \/ Avoid(u) => UNCHANGED <<process, response, history>>
  BY DEF Come, Leave, Avoid, caches, history
<1>9. UNCHANGED vars => UNCHANGED <<process, response, history>>
  BY DEF vars, history
<1>10. \A p \in Process : \/ Disconnect(p) \/ LookForKey(p) \/ LookForOlder(p) \/ ListResponses(p)
                          \/ ListDiffs(p) \/ Dropped(p) \/ \E s \in Session : DropDiff(p, s)
                          => HistoryOK'
  BY ControlKnows
<1>11. \A p \in Process : ReadDiff(p) \/ Fill(p) \/ Pass(p) => HistoryOK'
  BY SearchKnows
<1>12. QED
  BY <1>1, <1>2, <1>3, <1>4, <1>5, <1>6, <1>7, <1>8, <1>9, <1>10, <1>11 DEF Next, Works

\* What is known of earlier answers is right in every state.
LEMMA AlwaysHistory == Spec => []HistoryOK
<1>1. Init => HistoryOK
  BY DEF Init, Idle, HistoryOK, HistoryInv, Remembered, Reads, HasRead
<1>2. Inv /\ HistoryOK /\ [Next]_vars => HistoryOK'
  BY HistoryStep
<1>3. QED
  BY <1>1, <1>2, AlwaysInv, PTL DEF Spec

-------------------------------------------------------------------------------
(* The theorems *)

\* A request collects its users from its pool, and never more of them than the limit:
\* collect stops a pass at the place it had room for (fetch_service.py).
THEOREM TypeCorrect == Spec => []TypeOK
<1>1. Inv /\ HistoryOK => TypeOK
  BY InvSplit
<1>2. QED
  BY <1>1, AlwaysInv, AlwaysHistory, PTL

\* A request offers nobody whom the answers of its session had held when it came in,
\* unless others have made that be forgotten before it read it: of the caches it drops
\* itself none is that of its own session, if there was anybody in it.
THEOREM NotRepeated == Spec => []NeverRepeated
<1>1. ASSUME Inv, HistoryOK PROVE NeverRepeated
  <2> SUFFICES ASSUME NEW p \in Process PROVE process[p].result \cap known[p] = {}
    BY DEF NeverRepeated
  <2>1. /\ process[p].result \cap process[p].cached = {}
        /\ process[p].at \notin HasRead => process[p].result = {}
    BY <1>1 DEF Inv, Local, Unrepeated, Staged, Searching, HasRead
  <2>2. process[p].at \in HasRead => known[p] \subseteq process[p].cached
    BY <1>1, Reader DEF Remembered
  <2>3. QED
    BY <2>1, <2>2
<1>2. QED
  BY <1>1, AlwaysInv, AlwaysHistory, PTL

\* In such an answer whoever could have been offered was left out only because of the
\* users of his age that were taken, one in every pass over it.
LEMMA ShortLocal ==
  ASSUME Inv, NEW p \in Process, Answered(p), Cardinality(process[p].result) < Limit,
         NEW u \in process[p].pool
                     \ (process[p].cached \cup process[p].disallowed \cup process[p].result)
  PROVE  Cardinality({v \in process[p].pool : Age[v] = Age[u]}) > Passes(p, Age[u])
<1> DEFINE r == process[p]
<1>1. r \in Coroutine /\ Passed(r) /\ r.at = "save response"
  BY DEF Inv, Local, Answered
<1>2. /\ r.pool \in SUBSET User /\ r.left \in SUBSET User
      /\ r.diff \in Nat /\ r.first \in Nat /\ MaxAgeDiff \in Nat /\ AgeDiffStep \in Nat
  BY <1>1, FetchUsersAssumption DEF Coroutine
<1>3. PICK n \in 0..(MaxAgeDiff + AgeDiffStep) :
         /\ r.diff = r.first + n * AgeDiffStep
         /\ \A w \in r.left :
              Cardinality({v \in r.pool \ r.left : Age[v] = Age[w]})
                >= Cardinality({k \in 0..(n - 1) : Age[w] \in Widened(r, k)})
  BY <1>1 DEF Passed, Searching
<1>4. r.diff > MaxAgeDiff /\ r.pool \ r.left \subseteq r.cached \cup r.disallowed \cup r.result
  BY <1>1 DEF Passed, Searching
<1> DEFINE V == {v \in r.pool : Age[v] = Age[u]}
           W == {v \in r.pool \ r.left : Age[v] = Age[u]}
           K == {k \in 0..(n - 1) : Age[u] \in Widened(r, k)}
           P == {k \in 0..MaxAgeDiff : r.first + k * AgeDiffStep <= MaxAgeDiff /\ Age[u] \in Widened(r, k)}
<1>5. u \in r.left
  BY <1>4
<1>6. Cardinality(W) >= Cardinality(K)
  BY <1>3, <1>5
<1>7. P \subseteq K
  <2> SUFFICES ASSUME NEW k \in Nat, r.first + k * AgeDiffStep <= MaxAgeDiff PROVE k \in 0..(n - 1)
    BY <1>2
  <2>1. k * AgeDiffStep < n * AgeDiffStep
    <3>1. n \in Nat /\ n * AgeDiffStep \in Nat /\ k * AgeDiffStep \in Nat
      BY <1>2
    <3>2. QED
      BY <1>2, <1>3, <1>4, <3>1
  <2>2. k < n
    <3>1. SUFFICES ASSUME n <= k PROVE FALSE
      BY <1>2
    <3>2. n * AgeDiffStep <= k * AgeDiffStep
      <4> DEFINE d == k - n
      <4>1. n \in Nat /\ d \in Nat /\ k = n + d
        BY <1>2, <3>1
      <4>2. k * AgeDiffStep = n * AgeDiffStep + d * AgeDiffStep /\ d * AgeDiffStep \in Nat
        BY <1>2, <4>1
      <4>3. QED
        BY <1>2, <4>1, <4>2
    <3>3. QED
      BY <1>2, <2>1, <3>2
  <2>3. QED
    BY <1>2, <2>2
<1>8. IsFiniteSet(K) /\ Cardinality(K) \in Nat
  <2>1. IsFiniteSet(0..(n - 1))
    BY <1>2, FS_Interval
  <2>2. QED
    BY <2>1, FS_Subset, FS_CardinalityType
<1>9. V \in SUBSET User /\ W \cup {u} \subseteq V /\ u \notin W /\ W \in SUBSET User
  BY <1>2, <1>5
<1>10. Passes(p, Age[u]) = Cardinality(P)
  BY DEF Passes
<1> HIDE DEF V, W, K, P
<1>11. IsFiniteSet(W) /\ Cardinality(W) \in Nat /\ Cardinality(V) \in Nat /\ IsFiniteSet(V)
  BY <1>9, FinitePool
<1>12. Cardinality(W \cup {u}) = Cardinality(W) + 1
  BY <1>9, <1>11, FS_AddElement
<1>13. Cardinality(W \cup {u}) <= Cardinality(V)
  BY <1>9, <1>11, FS_Subset
<1>14. Cardinality(P) <= Cardinality(K) /\ Cardinality(P) \in Nat
  BY <1>7, <1>8, FS_Subset, FS_CardinalityType
<1>15. Cardinality(V) > Cardinality(P)
  BY <1>6, <1>8, <1>11, <1>12, <1>13, <1>14
<1>16. QED
  BY <1>10, <1>15 DEF V

\* "If the size of the returned list is smaller than limit, it means there are no more
\* users" (users.py:104) holds but for whom the search had no pass left: an answer that
\* falls short leaves somebody out only if more of his age were online than there were
\* passes over that age.
THEOREM ShortAnswers == Spec => []ShortLeavesFew
<1>1. Inv => ShortLeavesFew
  BY ShortLocal DEF ShortLeavesFew
<1>2. QED
  BY <1>1, AlwaysInv, PTL
===============================================================================
