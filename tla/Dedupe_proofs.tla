--------------------------- MODULE Dedupe_proofs ---------------------------
(***************************************************************************)
(* That the union-find forest of deduplication has no loops, that its      *)
(* clusters are exactly what the judged pairs connect, and that it         *)
(* implements a partition whose parts are only ever joined over a pair     *)
(* that may be linked: for every batch and every measure of likeness.      *)
(*                                                                         *)
(* Where a find arrives is defined by recursion.  No induction is used on  *)
(* it: that the recursive equation has a solution, and one only, is itself *)
(* kept as part of the invariant, halving by halving and union by union.   *)
(***************************************************************************)
EXTENDS Dedupe, TLAPS

-----------------------------------------------------------------------------
(* The forest P alone, and the map R from every place to its root.         *)

\* R solves the equation of RootOf.
IsRootMap(P, R) == R = [i \in DOMAIN P |-> IF P[i] = i THEN i ELSE R[P[i]]]

\* R alone does, and it leads to roots.
Rooted(P, R) ==
    /\ P \in [DOMAIN P -> DOMAIN P]
    /\ R \in [DOMAIN P -> DOMAIN P]
    /\ IsRootMap(P, R)
    /\ \A i \in DOMAIN P : P[R[i]] = R[i]
    /\ \A f : IsRootMap(P, f) => f = R

\* The root map at a place: its own if it is a root, else its parent's.
LEMMA RootAt ==
    ASSUME NEW P, NEW R, Rooted(P, R), NEW i \in DOMAIN P
    PROVE  /\ P[i] \in DOMAIN P /\ R[i] \in DOMAIN P
           /\ P[i] = i => R[i] = i
           /\ R[P[i]] = R[i]
           /\ R[R[i]] = R[i]
<1>1. \A j \in DOMAIN P : R[j] = IF P[j] = j THEN j ELSE R[P[j]]
  <2>1. R = [j \in DOMAIN P |-> IF P[j] = j THEN j ELSE R[P[j]]]
    BY DEF Rooted, IsRootMap
  <2> QED
    BY <2>1
<1>2. P[i] \in DOMAIN P /\ R[i] \in DOMAIN P /\ P[R[i]] = R[i]
  BY DEF Rooted
<1> QED
  BY <1>1, <1>2

\* A function on the forest solves the equation when it does so at every place.
LEMMA RootMapAt ==
    ASSUME NEW P, NEW f, f = [i \in DOMAIN P |-> f[i]],
           \A i \in DOMAIN P : f[i] = IF P[i] = i THEN i ELSE f[P[i]]
    PROVE  IsRootMap(P, f)
BY DEF IsRootMap

\* And solves it everywhere only if it does so at every place.
LEMMA RootMapOf ==
    ASSUME NEW P, NEW f, IsRootMap(P, f)
    PROVE  /\ f = [i \in DOMAIN P |-> f[i]]
           /\ \A i \in DOMAIN P : f[i] = IF P[i] = i THEN i ELSE f[P[i]]
<1>1. f = [i \in DOMAIN P |-> IF P[i] = i THEN i ELSE f[P[i]]]
  BY DEF IsRootMap
<1>2. DOMAIN f = DOMAIN P /\ \A i \in DOMAIN P : f[i] = IF P[i] = i THEN i ELSE f[P[i]]
  BY <1>1
<1> QED
  BY <1>1, <1>2

\* Halving the path of a place, where no two places are each other's parents,
\* changes no root (UnionFind.find).
LEMMA HalvingKeepsRoots ==
    ASSUME NEW P, NEW R, Rooted(P, R), NEW i \in DOMAIN P,
           P[i] # i, P[P[i]] # i
    PROVE  Rooted([P EXCEPT ![i] = P[P[i]]], R)
<1> DEFINE Q == [P EXCEPT ![i] = P[P[i]]]
<1>1. P \in [DOMAIN P -> DOMAIN P] /\ R \in [DOMAIN P -> DOMAIN P]
  BY DEF Rooted
<1>2. /\ DOMAIN Q = DOMAIN P /\ Q \in [DOMAIN P -> DOMAIN P]
      /\ Q[i] = P[P[i]] /\ \A j \in DOMAIN P : j # i => Q[j] = P[j]
  BY <1>1
<1> HIDE DEF Q
<1>3. IsRootMap(Q, R)
  <2>1. ASSUME NEW j \in DOMAIN P
        PROVE  R[j] = IF Q[j] = j THEN j ELSE R[Q[j]]
    <3>1. CASE j = i
      <4>1. R[P[i]] = R[i] /\ P[i] \in DOMAIN P
        BY RootAt
      <4>2. R[P[P[i]]] = R[P[i]]
        BY <4>1, RootAt
      <4> QED
        BY <3>1, <4>1, <4>2, <1>2
    <3>2. CASE j # i
      BY <3>2, <1>2, RootAt
    <3> QED
      BY <3>1, <3>2
  <2>2. R = [j \in DOMAIN Q |-> R[j]]
    BY <1>1, <1>2
  <2> QED
    BY <2>1, <2>2, <1>2, RootMapAt
<1>4. \A j \in DOMAIN P : Q[R[j]] = R[j]
  <2> TAKE j \in DOMAIN P
  <2>1. R[j] \in DOMAIN P /\ P[R[j]] = R[j]
    BY DEF Rooted
  <2> QED
    BY <2>1, <1>2
<1>5. ASSUME NEW f, IsRootMap(Q, f)
      PROVE  f = R
  <2>1. /\ f = [j \in DOMAIN P |-> f[j]]
        /\ \A j \in DOMAIN P : f[j] = IF Q[j] = j THEN j ELSE f[Q[j]]
    BY <1>2, <1>5, RootMapOf
  <2>2. ASSUME NEW j \in DOMAIN P
        PROVE  f[j] = IF P[j] = j THEN j ELSE f[P[j]]
    <3>1. CASE j = i
      <4>1. P[i] \in DOMAIN P
        BY <1>1
      <4>2. f[i] = f[P[P[i]]]
        BY <2>1, <1>2
      <4>3. f[P[i]] = IF P[P[i]] = P[i] THEN P[i] ELSE f[P[P[i]]]
        BY <2>1, <1>2, <4>1
      <4> QED
        BY <3>1, <4>2, <4>3
    <3>2. CASE j # i
      BY <3>2, <2>1, <1>2
    <3> QED
      BY <3>1, <3>2
  <2>3. IsRootMap(P, f)
    BY <2>1, <2>2, RootMapAt
  <2> QED
    BY <2>3 DEF Rooted
<1>6. Rooted(Q, R)
  BY <1>1, <1>2, <1>3, <1>4, <1>5 DEF Rooted
<1> QED
  BY <1>6 DEF Q

\* The root map after root b has gone below root a.
Joined(P, R, a, b) == [i \in DOMAIN P |-> IF R[i] = b THEN a ELSE R[i]]

\* Putting one root below another leads its places to the other, and no other
\* place elsewhere (UnionFind.union).
LEMMA LinkingJoinsRoots ==
    ASSUME NEW P, NEW R, Rooted(P, R), NEW a \in DOMAIN P, NEW b \in DOMAIN P,
           P[a] = a, P[b] = b, a # b
    PROVE  Rooted([P EXCEPT ![b] = a], Joined(P, R, a, b))
<1> DEFINE Q == [P EXCEPT ![b] = a]
           S == Joined(P, R, a, b)
<1>1. P \in [DOMAIN P -> DOMAIN P] /\ R \in [DOMAIN P -> DOMAIN P]
  BY DEF Rooted
<1>2. /\ DOMAIN Q = DOMAIN P /\ Q \in [DOMAIN P -> DOMAIN P]
      /\ Q[b] = a /\ \A j \in DOMAIN P : j # b => Q[j] = P[j]
  BY <1>1
<1>3. /\ S \in [DOMAIN P -> DOMAIN P]
      /\ S = [j \in DOMAIN P |-> S[j]]
      /\ \A j \in DOMAIN P : S[j] = IF R[j] = b THEN a ELSE R[j]
  BY <1>1 DEF Joined
<1> HIDE DEF Q, S
<1>4. R[a] = a /\ R[b] = b
  BY RootAt
<1>5. IsRootMap(Q, S)
  <2>1. ASSUME NEW j \in DOMAIN P
        PROVE  S[j] = IF Q[j] = j THEN j ELSE S[Q[j]]
    <3>1. CASE j = b
      BY <3>1, <1>2, <1>3, <1>4
    <3>2. CASE j # b
      <4>1. Q[j] = P[j] /\ P[j] \in DOMAIN P
        BY <3>2, <1>1, <1>2
      <4>2. R[P[j]] = R[j] /\ (P[j] = j => R[j] = j)
        BY RootAt
      <4> QED
        BY <3>2, <4>1, <4>2, <1>3
    <3> QED
      BY <3>1, <3>2
  <2> QED
    BY <2>1, <1>2, <1>3, RootMapAt
<1>6. \A j \in DOMAIN P : Q[S[j]] = S[j]
  <2> TAKE j \in DOMAIN P
  <2>1. R[j] \in DOMAIN P /\ P[R[j]] = R[j]
    BY DEF Rooted
  <2> QED
    BY <2>1, <1>2, <1>3
<1>7. ASSUME NEW f, IsRootMap(Q, f)
      PROVE  f = S
  <2>1. /\ f = [j \in DOMAIN P |-> f[j]]
        /\ \A j \in DOMAIN P : f[j] = IF Q[j] = j THEN j ELSE f[Q[j]]
    BY <1>2, <1>7, RootMapOf
  <2>2. f[a] = a /\ f[b] = a
    BY <2>1, <1>2
  <2>3. \A j \in DOMAIN P : j # b => f[j] = IF P[j] = j THEN j ELSE f[P[j]]
    BY <2>1, <1>2
  <2>4. ASSUME NEW j \in DOMAIN P, R[j] # b
        PROVE  f[j] = R[j]
    <3> DEFINE g == [k \in DOMAIN P |-> IF R[k] = b THEN b ELSE f[k]]
    <3>1. ASSUME NEW k \in DOMAIN P
          PROVE  g[k] = IF P[k] = k THEN k ELSE g[P[k]]
      <4>1. P[k] \in DOMAIN P /\ R[P[k]] = R[k] /\ (P[k] = k => R[k] = k)
        BY RootAt
      <4>2. CASE k = b
        BY <4>2, <1>4
      <4>3. CASE k # b
        BY <4>1, <4>3, <2>3
      <4> QED
        BY <4>2, <4>3
    <3>2. g = [k \in DOMAIN P |-> g[k]]
      OBVIOUS
    <3>3. IsRootMap(P, g)
      <4> HIDE DEF g
      <4> QED
        BY <3>1, <3>2, RootMapAt
    <3>4. g = R
      BY <3>3 DEF Rooted
    <3>5. g[j] = f[j]
      BY <2>4
    <3> QED
      BY <3>4, <3>5
  <2>5. ASSUME NEW j \in DOMAIN P, R[j] = b, f[j] # a
        PROVE  FALSE
    <3> DEFINE g == [k \in DOMAIN P |-> IF R[k] = b /\ f[k] # a THEN a ELSE R[k]]
    <3>1. ASSUME NEW k \in DOMAIN P
          PROVE  g[k] = IF P[k] = k THEN k ELSE g[P[k]]
      <4>1. P[k] \in DOMAIN P /\ R[P[k]] = R[k] /\ (P[k] = k => R[k] = k)
        BY RootAt
      <4>2. CASE k = b
        BY <4>2, <1>4, <2>2
      <4>3. CASE k # b
        BY <4>1, <4>3, <2>3
      <4> QED
        BY <4>2, <4>3
    <3>2. g = [k \in DOMAIN P |-> g[k]]
      OBVIOUS
    <3>3. IsRootMap(P, g)
      <4> HIDE DEF g
      <4> QED
        BY <3>1, <3>2, RootMapAt
    <3>4. g = R
      BY <3>3 DEF Rooted
    <3>5. g[j] = a
      BY <2>5
    <3> QED
      BY <3>4, <3>5, <2>5
  <2>6. \A j \in DOMAIN P : f[j] = S[j]
    BY <2>4, <2>5, <1>3
  <2> QED
    BY <2>1, <2>6, <1>3
<1>8. Rooted(Q, S)
  BY <1>2, <1>3, <1>5, <1>6, <1>7 DEF Rooted
<1> QED
  BY <1>8 DEF Q, S

-----------------------------------------------------------------------------
(* The state. *)

LEMMA RootOfIsRootMap ==
    ASSUME NEW R, DOMAIN parent = Places, Rooted(parent, R)
    PROVE  RootOf = R
<1>1. RootOf = CHOOSE f : IsRootMap(parent, f)
  BY DEF RootOf, IsRootMap
<1>2. IsRootMap(parent, R) /\ \A f : IsRootMap(parent, f) => f = R
  BY DEF Rooted
<1> QED
  BY <1>1, <1>2

\* And so it is after a step.
LEMMA NextRootOfIsRootMap ==
    ASSUME NEW R, DOMAIN parent' = Places', Rooted(parent', R)
    PROVE  RootOf' = R
<1>1. RootOf' = CHOOSE f : IsRootMap(parent', f)
  BY DEF RootOf, IsRootMap
<1>2. IsRootMap(parent', R) /\ \A f : IsRootMap(parent', f) => f = R
  BY DEF Rooted
<1> QED
  BY <1>1, <1>2

\* The pairs the stages form are pairs of places.
LEMMA PairsArePlaces == \A s : Pairs(s) \subseteq Places \X Places
BY DEF Pairs, BucketPairs, BlockPairs

-----------------------------------------------------------------------------
(* The inductive invariant. *)

DedupeType ==
    /\ parent \in [Places -> Places]
    /\ rank \in [Places -> Nat]
    /\ stage \in 0 .. Done
    /\ todo \subseteq Pairs(stage)
    /\ pc \in {"next", "compare", "union"}
    /\ pc # "next" => pair \in Pairs(stage) /\ at \in Places \X Places
    /\ same \subseteq Places \X Places

\* What is known of the pair in hand: how far it has come, and that the two finds
\* have not left the trees they started in.
InHand ==
    /\ pc = "compare" => stage \notin Exact
    /\ pc = "union" => stage \in Exact \/ MergeGuard(items[pair[1]], items[pair[2]])
    /\ pc # "next" => RootOf[at[1]] = RootOf[pair[1]] /\ RootOf[at[2]] = RootOf[pair[2]]

\* A pair that its stage links.
Wanted(s, p) ==
    /\ p \in Pairs(s)
    /\ s \notin Exact => MergeGuard(items[p[1]], items[p[2]])
    /\ s = Similar => Likeness(items[p[1]], items[p[2]]) = "merge"

\* A pair whose turn is over.
Past(s, p) ==
    \/ s < stage
    \/ s = stage /\ p \notin todo /\ (pc = "next" \/ p # pair)

\* Places are together only when judged pairs connect them.
NothingElse ==
    \A C \in SUBSET Places : Closed(C, same) =>
        \A i, j \in Places : RootOf[i] = RootOf[j] => (i \in C <=> j \in C)

\* And a pair that was judged, or whose turn came, is together for good.
NothingLost ==
    /\ \A p \in same : RootOf[p[1]] = RootOf[p[2]]
    /\ \A s \in 0 .. Done : \A p \in Pairs(s) :
          Wanted(s, p) /\ Past(s, p) => RootOf[p[1]] = RootOf[p[2]]

DedupeInv ==
    /\ DedupeType
    /\ RanksRise
    /\ Rooted(parent, RootOf)
    /\ InHand
    /\ NothingElse
    /\ NothingLost

-----------------------------------------------------------------------------
(* The steps. *)

LEMMA InitDedupeInv == DedupeInit => DedupeInv
<1> SUFFICES ASSUME DedupeInit
             PROVE  DedupeInv
  OBVIOUS
<1> USE DEF DedupeInit
<1>1. parent = [i \in Places |-> i] /\ DOMAIN parent = Places
  OBVIOUS
<1>2. Rooted(parent, parent)
  BY <1>1 DEF Rooted, IsRootMap
<1>3. RootOf = parent
  BY <1>1, <1>2, RootOfIsRootMap
<1>4. Pairs(0) = {}
  BY DEF Pairs, Bucketed, Similar
<1>5. DedupeType
  BY <1>1 DEF DedupeType, Done
<1>6. RanksRise
  BY <1>1 DEF RanksRise
<1>7. InHand
  BY DEF InHand
<1>8. NothingElse
  BY <1>1, <1>3 DEF NothingElse
<1>9. NothingLost
  BY <1>4 DEF NothingLost, Past, Done
<1> QED
  BY <1>2, <1>3, <1>5, <1>6, <1>7, <1>8, <1>9 DEF DedupeInv

\* Whatever else a step does, the listings stay, and with them pairs and judgments.
LEMMA SameItems ==
    ASSUME items' = items
    PROVE  /\ Places' = Places
           /\ \A s : Pairs(s)' = Pairs(s)
           /\ \A s, p : Wanted(s, p)' <=> Wanted(s, p)
<1>1. Places' = Places /\ \A s : Pairs(s)' = Pairs(s)
  BY DEF Places, Pairs, BucketPairs, BlockPairs, Block
<1> QED
  BY <1>1 DEF Wanted

\* A step that leaves the forest and the judgments alone keeps what is said of them.
LEMMA ForestKept ==
    ASSUME DedupeInv, UNCHANGED <<items, parent, rank, same>>
    PROVE  /\ RootOf' = RootOf
           /\ parent' \in [Places' -> Places'] /\ rank' \in [Places' -> Nat]
           /\ same' \subseteq Places' \X Places'
           /\ RanksRise' /\ Rooted(parent, RootOf)' /\ NothingElse'
           /\ \A p \in same' : RootOf'[p[1]] = RootOf'[p[2]]
<1>1. Places' = Places
  BY SameItems
<1>2. RootOf' = RootOf
  BY <1>1 DEF RootOf
<1>3. Rooted(parent', RootOf')
  BY <1>2 DEF DedupeInv
<1>4. RanksRise'
  BY <1>1 DEF DedupeInv, RanksRise
<1>5. NothingElse'
  BY <1>1, <1>2 DEF DedupeInv, NothingElse
<1> QED
  BY <1>1, <1>2, <1>3, <1>4, <1>5 DEF DedupeInv, DedupeType, NothingLost

LEMMA NextStageKeeps == DedupeInv /\ NextStage => DedupeInv'
<1> SUFFICES ASSUME DedupeInv, NextStage
             PROVE  DedupeInv'
  OBVIOUS
<1> USE DEF NextStage
<1>1. /\ Places' = Places
      /\ \A s : Pairs(s)' = Pairs(s)
      /\ \A s, p : Wanted(s, p)' <=> Wanted(s, p)
  BY SameItems
<1>2. /\ RootOf' = RootOf
      /\ parent' \in [Places' -> Places'] /\ rank' \in [Places' -> Nat]
      /\ same' \subseteq Places' \X Places'
      /\ RanksRise' /\ Rooted(parent, RootOf)' /\ NothingElse'
      /\ \A p \in same' : RootOf'[p[1]] = RootOf'[p[2]]
  BY ForestKept
<1>3. DedupeType'
  <2>1. stage' \in 0 .. Done /\ todo' \subseteq Pairs(stage')
    BY DEF DedupeInv, DedupeType, Done
  <2> QED
    BY <2>1, <1>1, <1>2 DEF DedupeInv, DedupeType
<1>4. InHand'
  BY DEF InHand, DedupeInv, DedupeType
<1>5. NothingLost'
  <2> SUFFICES ASSUME NEW s \in 0 .. Done, NEW p \in Pairs(s), Wanted(s, p), Past(s, p)'
               PROVE  RootOf[p[1]] = RootOf[p[2]]
    BY <1>1, <1>2 DEF NothingLost
  <2>1. Past(s, p)
    BY DEF Past, DedupeInv, DedupeType, Done
  <2> QED
    BY <2>1 DEF DedupeInv, NothingLost
<1> QED
  BY <1>2, <1>3, <1>4, <1>5 DEF DedupeInv

LEMMA TakePairKeeps == DedupeInv /\ TakePair => DedupeInv'
<1> SUFFICES ASSUME DedupeInv, TakePair
             PROVE  DedupeInv'
  OBVIOUS
<1>1. /\ Places' = Places
      /\ \A s : Pairs(s)' = Pairs(s)
      /\ \A s, p : Wanted(s, p)' <=> Wanted(s, p)
  BY SameItems DEF TakePair
<1>2. /\ RootOf' = RootOf
      /\ parent' \in [Places' -> Places'] /\ rank' \in [Places' -> Nat]
      /\ same' \subseteq Places' \X Places'
      /\ RanksRise' /\ Rooted(parent, RootOf)' /\ NothingElse'
      /\ \A p \in same' : RootOf'[p[1]] = RootOf'[p[2]]
  BY ForestKept DEF TakePair
<1>3. pair' \in todo /\ todo' = todo \ {pair'} /\ at' = pair' /\ stage' = stage
  BY DEF TakePair
<1>4. pair' \in Pairs(stage) /\ pair' \in Places \X Places
  BY <1>3, PairsArePlaces DEF DedupeInv, DedupeType
<1>5. pc = "next" /\ pc' = IF stage \in Exact THEN "union" ELSE "compare"
  BY DEF TakePair
<1>6. DedupeType'
  BY <1>1, <1>2, <1>3, <1>4, <1>5 DEF DedupeInv, DedupeType
<1>7. InHand'
  BY <1>3, <1>5 DEF InHand
<1>8. NothingLost'
  <2> SUFFICES ASSUME NEW s \in 0 .. Done, NEW p \in Pairs(s), Wanted(s, p), Past(s, p)'
               PROVE  RootOf[p[1]] = RootOf[p[2]]
    BY <1>1, <1>2 DEF NothingLost
  <2>1. Past(s, p)
    BY <1>3, <1>5 DEF Past
  <2> QED
    BY <2>1 DEF DedupeInv, NothingLost
<1> QED
  BY <1>2, <1>6, <1>7, <1>8 DEF DedupeInv

\* Where a climb has come to its end, the find is at its root.
LEMMA ClimbedIsRoot ==
    ASSUME DedupeInv, Climbed, pc # "next"
    PROVE  /\ pair \in Places \X Places /\ at \in Places \X Places
           /\ at[1] = RootOf[pair[1]] /\ at[2] = RootOf[pair[2]]
<1>1. pair \in Places \X Places /\ at \in Places \X Places
  BY PairsArePlaces DEF DedupeInv, DedupeType
<1>2. DOMAIN parent = Places
  BY DEF DedupeInv, DedupeType
<1>3. RootOf[at[1]] = at[1] /\ RootOf[at[2]] = at[2]
  BY <1>1, <1>2, RootAt DEF Climbed, DedupeInv
<1> QED
  BY <1>1, <1>3 DEF DedupeInv, InHand

LEMMA PassKeeps == DedupeInv /\ Pass => DedupeInv'
<1> SUFFICES ASSUME DedupeInv, Pass
             PROVE  DedupeInv'
  OBVIOUS
<1>1. /\ Places' = Places
      /\ \A s : Pairs(s)' = Pairs(s)
      /\ \A s, p : Wanted(s, p)' <=> Wanted(s, p)
  BY SameItems DEF Pass
<1>2. /\ RootOf' = RootOf
      /\ parent' \in [Places' -> Places'] /\ rank' \in [Places' -> Nat]
      /\ same' \subseteq Places' \X Places'
      /\ RanksRise' /\ Rooted(parent, RootOf)' /\ NothingElse'
      /\ \A p \in same' : RootOf'[p[1]] = RootOf'[p[2]]
  BY ForestKept DEF Pass
<1>3. pc = "compare" /\ pc' = "next" /\ UNCHANGED <<stage, todo, pair>>
  BY DEF Pass, Compared
<1>4. DedupeType'
  BY <1>1, <1>2, <1>3 DEF DedupeInv, DedupeType
<1>5. InHand'
  BY <1>3 DEF InHand
<1>6. Wanted(stage, pair) => RootOf[pair[1]] = RootOf[pair[2]]
  <2>1. stage \notin Exact
    BY <1>3 DEF DedupeInv, InHand
  <2>2. Wanted(stage, pair) => at[1] = at[2]
    BY <2>1 DEF Wanted, Pass
  <2> QED
    BY <2>2, <1>3, ClimbedIsRoot DEF Pass, Compared
<1>7. NothingLost'
  <2> SUFFICES ASSUME NEW s \in 0 .. Done, NEW p \in Pairs(s), Wanted(s, p), Past(s, p)'
               PROVE  RootOf[p[1]] = RootOf[p[2]]
    BY <1>1, <1>2 DEF NothingLost
  <2>1. Past(s, p) \/ (s = stage /\ p = pair)
    BY <1>3 DEF Past
  <2> QED
    BY <2>1, <1>6 DEF DedupeInv, NothingLost
<1> QED
  BY <1>2, <1>4, <1>5, <1>7 DEF DedupeInv

LEMMA AcceptKeeps == DedupeInv /\ Accept => DedupeInv'
<1> SUFFICES ASSUME DedupeInv, Accept
             PROVE  DedupeInv'
  OBVIOUS
<1>1. /\ Places' = Places
      /\ \A s : Pairs(s)' = Pairs(s)
      /\ \A s, p : Wanted(s, p)' <=> Wanted(s, p)
  BY SameItems DEF Accept
<1>2. /\ RootOf' = RootOf
      /\ parent' \in [Places' -> Places'] /\ rank' \in [Places' -> Nat]
      /\ same' \subseteq Places' \X Places'
      /\ RanksRise' /\ Rooted(parent, RootOf)' /\ NothingElse'
      /\ \A p \in same' : RootOf'[p[1]] = RootOf'[p[2]]
  BY ForestKept DEF Accept
<1>3. /\ pc = "compare" /\ pc' = "union" /\ at' = pair
      /\ UNCHANGED <<items, stage, todo, pair>>
  BY DEF Accept, Compared
<1>4. pair \in Pairs(stage) /\ pair \in Places \X Places
  BY <1>3, PairsArePlaces DEF DedupeInv, DedupeType
<1>5. DedupeType'
  BY <1>1, <1>2, <1>3, <1>4 DEF DedupeInv, DedupeType
<1>6. InHand'
  BY <1>3 DEF InHand, Accept
<1>7. NothingLost'
  <2> SUFFICES ASSUME NEW s \in 0 .. Done, NEW p \in Pairs(s), Wanted(s, p), Past(s, p)'
               PROVE  RootOf[p[1]] = RootOf[p[2]]
    BY <1>1, <1>2 DEF NothingLost
  <2>1. Past(s, p)
    BY <1>3 DEF Past
  <2> QED
    BY <2>1 DEF DedupeInv, NothingLost
<1> QED
  BY <1>2, <1>5, <1>6, <1>7 DEF DedupeInv

\* A question answered no leaves a pair that was not to be linked anyway.
LEMMA AskKeeps == DedupeInv /\ Ask => DedupeInv'
<1> SUFFICES ASSUME DedupeInv, Ask
             PROVE  DedupeInv'
  OBVIOUS
<1>1. /\ Places' = Places
      /\ \A s : Pairs(s)' = Pairs(s)
      /\ \A s, p : Wanted(s, p)' <=> Wanted(s, p)
  BY SameItems DEF Ask
<1>2. /\ RootOf' = RootOf
      /\ parent' \in [Places' -> Places'] /\ rank' \in [Places' -> Nat]
      /\ same' \subseteq Places' \X Places'
      /\ RanksRise' /\ Rooted(parent, RootOf)' /\ NothingElse'
      /\ \A p \in same' : RootOf'[p[1]] = RootOf'[p[2]]
  BY ForestKept DEF Ask
<1>3. /\ pc = "compare" /\ pc' \in {"union", "next"} /\ at' = pair
      /\ UNCHANGED <<items, stage, todo, pair>>
  BY DEF Ask, Compared
<1>4. pair \in Pairs(stage) /\ pair \in Places \X Places
  BY <1>3, PairsArePlaces DEF DedupeInv, DedupeType
<1>5. DedupeType'
  BY <1>1, <1>2, <1>3, <1>4 DEF DedupeInv, DedupeType
<1>6. InHand'
  BY <1>3 DEF InHand, Ask
<1>7. ~Wanted(stage, pair)
  BY DEF Wanted, Ask
<1>8. NothingLost'
  <2> SUFFICES ASSUME NEW s \in 0 .. Done, NEW p \in Pairs(s), Wanted(s, p), Past(s, p)'
               PROVE  RootOf[p[1]] = RootOf[p[2]]
    BY <1>1, <1>2 DEF NothingLost
  <2>1. Past(s, p)
    BY <1>3, <1>7 DEF Past
  <2> QED
    BY <2>1 DEF DedupeInv, NothingLost
<1> QED
  BY <1>2, <1>5, <1>6, <1>8 DEF DedupeInv

\* Ranks rise along the path, so the grandparent is neither the place nor below it.
LEMMA ClimbKeepsRoots ==
    ASSUME DedupeInv, Climb
    PROVE  Rooted(parent', RootOf) /\ RootOf' = RootOf
<1>1. Places' = Places
  BY SameItems DEF Climb
<1>2. PICK k \in {1, 2} :
        /\ parent[at[k]] # at[k]
        /\ parent' = [parent EXCEPT ![at[k]] = parent[parent[at[k]]]]
  BY DEF Climb
<1>3. /\ at \in Places \X Places
      /\ parent \in [Places -> Places] /\ rank \in [Places -> Nat]
  BY DEF DedupeInv, DedupeType, Climb
<1> DEFINE i == at[k]
           g == parent[parent[i]]
<1>4. i \in Places /\ parent[i] \in Places /\ g \in Places
  BY <1>3
<1>5. rank[i] < rank[parent[i]] /\ rank[parent[i]] <= rank[g]
  BY <1>2, <1>3, <1>4 DEF DedupeInv, RanksRise
<1>6. g # i
  BY <1>3, <1>4, <1>5
<1>7. DOMAIN parent = Places
  BY <1>3
<1>8. Rooted(parent', RootOf)
  BY <1>2, <1>4, <1>6, <1>7, HalvingKeepsRoots DEF DedupeInv
<1>9. DOMAIN parent' = Places
  BY <1>2, <1>7
<1> QED
  BY <1>1, <1>8, <1>9, NextRootOfIsRootMap

LEMMA ClimbKeeps == DedupeInv /\ Climb => DedupeInv'
<1> SUFFICES ASSUME DedupeInv, Climb
             PROVE  DedupeInv'
  OBVIOUS
<1>1. /\ Places' = Places
      /\ \A s : Pairs(s)' = Pairs(s)
      /\ \A s, p : Wanted(s, p)' <=> Wanted(s, p)
  BY SameItems DEF Climb
<1>2. PICK k \in {1, 2} :
        /\ parent[at[k]] # at[k]
        /\ parent' = [parent EXCEPT ![at[k]] = parent[parent[at[k]]]]
        /\ at' = [at EXCEPT ![k] = parent[parent[at[k]]]]
  BY DEF Climb
<1>3. /\ pc \in {"compare", "union"}
      /\ UNCHANGED <<items, rank, stage, todo, pair, pc, same>>
  BY DEF Climb
<1>4. /\ at \in Places \X Places /\ pair \in Pairs(stage)
      /\ parent \in [Places -> Places] /\ rank \in [Places -> Nat]
  BY <1>3 DEF DedupeInv, DedupeType
<1> DEFINE i == at[k]
           g == parent[parent[i]]
<1>5. i \in Places /\ parent[i] \in Places /\ g \in Places
  BY <1>4
<1>6. rank[i] < rank[parent[i]] /\ rank[parent[i]] <= rank[g]
  BY <1>2, <1>4, <1>5 DEF DedupeInv, RanksRise
<1>7. Rooted(parent', RootOf) /\ RootOf' = RootOf
  BY ClimbKeepsRoots
<1>8. /\ parent' \in [Places -> Places] /\ parent'[i] = g
      /\ \A j \in Places : j # i => parent'[j] = parent[j]
      /\ at' \in Places \X Places
      /\ \A l \in {1, 2} : at'[l] = IF l = k THEN g ELSE at[l]
  BY <1>2, <1>4, <1>5
<1>9. RanksRise'
  <2> SUFFICES ASSUME NEW j \in Places, parent'[j] # j
               PROVE  rank[j] < rank[parent'[j]]
    BY <1>1, <1>3 DEF RanksRise
  <2>1. CASE j = i
    BY <2>1, <1>4, <1>5, <1>6, <1>8
  <2>2. CASE j # i
    BY <2>2, <1>8 DEF DedupeInv, RanksRise
  <2> QED
    BY <2>1, <2>2
<1>10. RootOf[g] = RootOf[i]
  BY <1>4, <1>5, RootAt DEF DedupeInv
<1>11. DedupeType'
  BY <1>1, <1>3, <1>4, <1>8 DEF DedupeInv, DedupeType
<1>12. InHand'
  <2>1. RootOf[at'[1]] = RootOf[pair[1]] /\ RootOf[at'[2]] = RootOf[pair[2]]
    BY <1>3, <1>8, <1>10 DEF DedupeInv, InHand
  <2> QED
    BY <2>1, <1>3, <1>7 DEF DedupeInv, InHand
<1>13. NothingElse'
  BY <1>1, <1>3, <1>7 DEF DedupeInv, NothingElse
<1>14. NothingLost'
  BY <1>1, <1>3, <1>7 DEF DedupeInv, NothingLost, Past
<1> QED
  BY <1>7, <1>9, <1>11, <1>12, <1>13, <1>14 DEF DedupeInv

\* What a union does to the roots: nothing when they are one, else it joins them.
LEMMA UnionOfRoots ==
    ASSUME DedupeInv, Union
    PROVE  /\ pair \in Pairs(stage) /\ pair \in Places \X Places
           /\ \/ /\ RootOf[pair[1]] = RootOf[pair[2]]
                 /\ UNCHANGED <<parent, rank, RootOf>>
              \/ \E a, b \in Places :
                    /\ a # b /\ parent[a] = a /\ parent[b] = b
                    /\ {a, b} = {RootOf[pair[1]], RootOf[pair[2]]}
                    /\ parent' = [parent EXCEPT ![b] = a]
                    /\ RootOf' = Joined(parent, RootOf, a, b)
                    /\ Rooted(parent', RootOf')
                    /\ rank' \in [Places -> Nat]
                    /\ rank[b] <= rank[a] /\ rank'[b] = rank[b] /\ rank[b] < rank'[a]
                    /\ \A j \in Places : rank[j] <= rank'[j] /\ (j # a => rank'[j] = rank[j])
<1>1. pc = "union" /\ Climbed /\ items' = items
  BY DEF Union
<1>2. /\ pair \in Pairs(stage) /\ pair \in Places \X Places /\ at \in Places \X Places
      /\ at[1] = RootOf[pair[1]] /\ at[2] = RootOf[pair[2]]
  BY <1>1, ClimbedIsRoot DEF DedupeInv, DedupeType
<1>3. /\ parent \in [Places -> Places] /\ rank \in [Places -> Nat]
      /\ DOMAIN parent = Places /\ Places' = Places
  BY <1>1, SameItems DEF DedupeInv, DedupeType
<1>4. parent[at[1]] = at[1] /\ parent[at[2]] = at[2]
  BY <1>1 DEF Climbed
<1> DEFINE a == IF rank[at[1]] < rank[at[2]] THEN at[2] ELSE at[1]
           b == IF rank[at[1]] < rank[at[2]] THEN at[1] ELSE at[2]
<1>5. IF a = b THEN UNCHANGED <<parent, rank>>
      ELSE /\ parent' = [parent EXCEPT ![b] = a]
           /\ rank' = IF rank[a] = rank[b] THEN [rank EXCEPT ![a] = @ + 1] ELSE rank
  BY DEF Union
<1>6. /\ a \in Places /\ b \in Places /\ {a, b} = {at[1], at[2]}
      /\ rank[b] <= rank[a] /\ parent[a] = a /\ parent[b] = b
  BY <1>2, <1>3, <1>4
<1> HIDE DEF a, b
<1>7. CASE a = b
  <2>1. RootOf' = RootOf
    BY <1>1, <1>3, <1>5, <1>7 DEF RootOf
  <2> QED
    BY <2>1, <1>2, <1>5, <1>6, <1>7
<1>8. CASE a # b
  <2>1. Rooted(parent', Joined(parent, RootOf, a, b))
    BY <1>3, <1>5, <1>6, <1>8, LinkingJoinsRoots DEF DedupeInv
  <2>2. DOMAIN parent' = Places'
    BY <1>3, <1>5, <1>8
  <2>3. RootOf' = Joined(parent, RootOf, a, b)
    BY <2>1, <2>2, NextRootOfIsRootMap
  <2>4. /\ rank' \in [Places -> Nat]
        /\ rank'[b] = rank[b] /\ rank[b] < rank'[a]
        /\ \A j \in Places : rank[j] <= rank'[j] /\ (j # a => rank'[j] = rank[j])
    BY <1>3, <1>5, <1>6, <1>8
  <2> QED
    BY <2>1, <2>3, <2>4, <1>2, <1>5, <1>6, <1>8
<1> QED
  BY <1>7, <1>8

\* What is together stays together, and the pair in hand becomes so.
LEMMA UnionCoarsens ==
    ASSUME DedupeInv, Union
    PROVE  /\ \A i, j \in Places : RootOf[i] = RootOf[j] => RootOf'[i] = RootOf'[j]
           /\ RootOf'[pair[1]] = RootOf'[pair[2]]
<1>1. pair \in Places \X Places
  BY UnionOfRoots
<1>2. CASE RootOf[pair[1]] = RootOf[pair[2]] /\ UNCHANGED <<parent, rank, RootOf>>
  BY <1>2
<1>3. ASSUME NEW a \in Places, NEW b \in Places,
             {a, b} = {RootOf[pair[1]], RootOf[pair[2]]},
             RootOf' = Joined(parent, RootOf, a, b)
      PROVE  /\ \A i, j \in Places : RootOf[i] = RootOf[j] => RootOf'[i] = RootOf'[j]
             /\ RootOf'[pair[1]] = RootOf'[pair[2]]
  <2>1. \A i \in Places : RootOf'[i] = IF RootOf[i] = b THEN a ELSE RootOf[i]
    BY <1>3 DEF Joined, DedupeInv, DedupeType
  <2> QED
    BY <2>1, <1>1, <1>3
<1> QED
  BY <1>2, <1>3, UnionOfRoots

LEMMA UnionKeeps == DedupeInv /\ Union => DedupeInv'
<1> SUFFICES ASSUME DedupeInv, Union
             PROVE  DedupeInv'
  OBVIOUS
<1>1. /\ pc = "union" /\ pc' = "next" /\ same' = same \cup {pair}
      /\ UNCHANGED <<items, stage, todo, pair, at>>
  BY DEF Union
<1>2. /\ Places' = Places
      /\ \A s : Pairs(s)' = Pairs(s)
      /\ \A s, p : Wanted(s, p)' <=> Wanted(s, p)
  BY <1>1, SameItems
<1>3. /\ parent \in [Places -> Places] /\ rank \in [Places -> Nat]
      /\ same \subseteq Places \X Places
  BY DEF DedupeInv, DedupeType
<1>4. pair \in Pairs(stage) /\ pair \in Places \X Places
  BY UnionOfRoots
<1>5. /\ parent' \in [Places -> Places] /\ rank' \in [Places -> Nat]
      /\ RanksRise' /\ Rooted(parent, RootOf)' /\ NothingElse'
  <2>1. CASE RootOf[pair[1]] = RootOf[pair[2]] /\ UNCHANGED <<parent, rank, RootOf>>
    <3>1. RanksRise' /\ Rooted(parent, RootOf)'
      BY <2>1, <1>2 DEF DedupeInv, RanksRise
    <3>2. NothingElse'
      <4>1. \A C : Closed(C, same') => Closed(C, same)
        BY <1>1 DEF Closed
      <4> QED
        BY <4>1, <2>1, <1>2 DEF DedupeInv, NothingElse
    <3> QED
      BY <3>1, <3>2, <2>1, <1>3
  <2>2. ASSUME NEW a \in Places, NEW b \in Places,
               a # b, parent[a] = a, parent[b] = b,
               {a, b} = {RootOf[pair[1]], RootOf[pair[2]]},
               parent' = [parent EXCEPT ![b] = a],
               RootOf' = Joined(parent, RootOf, a, b),
               Rooted(parent', RootOf'),
               rank' \in [Places -> Nat],
               rank[b] <= rank[a], rank'[b] = rank[b], rank[b] < rank'[a],
               \A j \in Places : rank[j] <= rank'[j] /\ (j # a => rank'[j] = rank[j])
        PROVE  /\ parent' \in [Places -> Places] /\ rank' \in [Places -> Nat]
               /\ RanksRise' /\ Rooted(parent, RootOf)' /\ NothingElse'
    <3>1. /\ parent' \in [Places -> Places] /\ parent'[b] = a
          /\ \A j \in Places : j # b => parent'[j] = parent[j]
      BY <2>2, <1>3
    <3>2. \A i \in Places : RootOf'[i] = IF RootOf[i] = b THEN a ELSE RootOf[i]
      BY <2>2, <1>3 DEF Joined
    <3>3. RanksRise'
      <4> SUFFICES ASSUME NEW j \in Places, parent'[j] # j
                   PROVE  rank'[j] < rank'[parent'[j]]
        BY <1>2 DEF RanksRise
      <4>1. CASE j = b
        BY <4>1, <3>1, <2>2
      <4>2. CASE j # b
        <5>1. parent'[j] = parent[j] /\ j # a
          BY <4>2, <3>1, <2>2
        <5>2. rank[j] < rank[parent[j]] /\ parent[j] \in Places
          BY <5>1, <1>3 DEF DedupeInv, RanksRise
        <5> QED
          BY <5>1, <5>2, <2>2, <1>3
      <4> QED
        BY <4>1, <4>2
    <3>4. NothingElse'
      <4> SUFFICES ASSUME NEW C \in SUBSET Places, Closed(C, same'),
                          NEW i \in Places, NEW j \in Places, RootOf'[i] = RootOf'[j]
                   PROVE  i \in C <=> j \in C
        BY <1>2 DEF NothingElse
      <4>1. Closed(C, same) /\ (pair[1] \in C <=> pair[2] \in C)
        BY <1>1 DEF Closed
      <4>2. \A k, l \in Places : RootOf[k] = RootOf[l] => (k \in C <=> l \in C)
        BY <4>1 DEF DedupeInv, NothingElse
      <4>3. CASE RootOf[i] = RootOf[j]
        BY <4>2, <4>3
      <4>4. CASE RootOf[i] # RootOf[j]
        <5>1. {RootOf[i], RootOf[j]} = {RootOf[pair[1]], RootOf[pair[2]]}
          BY <4>4, <3>2, <2>2
        <5> QED
          BY <5>1, <4>1, <4>2, <1>4
      <4> QED
        BY <4>3, <4>4
    <3> QED
      BY <3>1, <3>3, <3>4, <2>2
  <2> QED
    BY <2>1, <2>2, UnionOfRoots
<1>6. DedupeType'
  BY <1>1, <1>2, <1>3, <1>4, <1>5 DEF DedupeInv, DedupeType
<1>7. InHand'
  BY <1>1 DEF InHand
<1>8. NothingLost'
  <2>1. ASSUME NEW p \in same'
        PROVE  RootOf'[p[1]] = RootOf'[p[2]]
    <3>1. CASE p \in same
      BY <3>1, <1>3, UnionCoarsens DEF DedupeInv, NothingLost
    <3>2. CASE p = pair
      BY <3>2, UnionCoarsens
    <3> QED
      BY <3>1, <3>2, <1>1
  <2>2. ASSUME NEW s \in 0 .. Done, NEW p \in Pairs(s), Wanted(s, p), Past(s, p)'
        PROVE  RootOf'[p[1]] = RootOf'[p[2]]
    <3>1. p \in Places \X Places
      BY PairsArePlaces
    <3>2. CASE Past(s, p)
      BY <3>1, <3>2, <2>2, UnionCoarsens DEF DedupeInv, NothingLost
    <3>3. CASE p = pair
      BY <3>3, UnionCoarsens
    <3> QED
      BY <3>2, <3>3, <2>2, <1>1 DEF Past
  <2> QED
    BY <2>1, <2>2, <1>2 DEF NothingLost
<1> QED
  BY <1>5, <1>6, <1>7, <1>8 DEF DedupeInv

LEMMA NextDedupeInv == DedupeInv /\ [DedupeNext]_dedupeVars => DedupeInv'
<1> SUFFICES ASSUME DedupeInv, [DedupeNext]_dedupeVars
             PROVE  DedupeInv'
  OBVIOUS
<1>1. CASE UNCHANGED dedupeVars
  <2>1. UNCHANGED <<items, parent, rank, same, stage, todo, pair, at, pc>>
    BY <1>1 DEF dedupeVars
  <2>2. /\ Places' = Places
        /\ \A s : Pairs(s)' = Pairs(s)
        /\ \A s, p : Wanted(s, p)' <=> Wanted(s, p)
    BY <2>1, SameItems
  <2>3. /\ RootOf' = RootOf
        /\ parent' \in [Places' -> Places'] /\ rank' \in [Places' -> Nat]
        /\ same' \subseteq Places' \X Places'
        /\ RanksRise' /\ Rooted(parent, RootOf)' /\ NothingElse'
        /\ \A p \in same' : RootOf'[p[1]] = RootOf'[p[2]]
    BY <2>1, ForestKept
  <2>4. DedupeType'
    BY <2>1, <2>2, <2>3 DEF DedupeInv, DedupeType
  <2>5. InHand'
    BY <2>1, <2>3 DEF DedupeInv, InHand
  <2>6. NothingLost'
    BY <2>1, <2>2, <2>3 DEF DedupeInv, NothingLost, Past
  <2> QED
    BY <2>3, <2>4, <2>5, <2>6 DEF DedupeInv
<1> QED
  BY <1>1, ClimbKeeps, UnionKeeps, NextStageKeeps, TakePairKeeps, PassKeeps, AcceptKeeps,
     AskKeeps DEF DedupeNext

\* The invariant holds for every set of batches, whatever is like what.
THEOREM DedupeInvariant == DedupeSpec => []DedupeInv
BY InitDedupeInv, NextDedupeInv, PTL DEF DedupeSpec

\* Finds never go in circles: in the forest of UnionFind (pipeline/dedupe.py) the
\* rank rises from every place to its parent, though paths are halved on the way.
THEOREM RanksAlwaysRise == DedupeSpec => []RanksRise
BY DedupeInvariant, PTL DEF DedupeInv

-----------------------------------------------------------------------------
(* What the clusters are. *)

\* When the stages are over, every pair a stage wanted has had its turn.
LEMMA LinkedIsTogether ==
    ASSUME DedupeInv, Finished, NEW p \in ToLink \cup same
    PROVE  RootOf[p[1]] = RootOf[p[2]]
<1>1. CASE p \in same
  BY <1>1 DEF DedupeInv, NothingLost
<1>2. CASE p \in ToLink
  <2>1. BlockPairs = Pairs(6)
    BY DEF Pairs, Bucketed, Similar
  <2>2. \E s \in 1 .. 6 : Wanted(s, p)
    BY <1>2, <2>1 DEF ToLink, Wanted, Exact, Similar
  <2>3. PICK s \in 1 .. 6 : Wanted(s, p)
    BY <2>2
  <2>4. Past(s, p) /\ s \in 0 .. Done /\ p \in Pairs(s)
    BY <2>3 DEF Past, Finished, Done, Wanted
  <2> QED
    BY <2>3, <2>4 DEF DedupeInv, NothingLost
<1> QED
  BY <1>1, <1>2

LEMMA FinishedClusters == DedupeInv => ClustersAreConnected
<1> SUFFICES ASSUME DedupeInv, Finished, NEW i \in Places, NEW j \in Places
             PROVE  RootOf[i] = RootOf[j] <=> <<i, j>> \in Together(ToLink \cup same)
  BY DEF ClustersAreConnected
<1>1. ASSUME RootOf[i] = RootOf[j]
      PROVE  <<i, j>> \in Together(ToLink \cup same)
  <2> SUFFICES ASSUME NEW C \in SUBSET Places, i \in C, Closed(C, ToLink \cup same)
               PROVE  j \in C
    BY DEF Together
  <2>1. Closed(C, same)
    BY DEF Closed
  <2> QED
    BY <1>1, <2>1 DEF DedupeInv, NothingElse
<1>2. ASSUME <<i, j>> \in Together(ToLink \cup same)
      PROVE  RootOf[i] = RootOf[j]
  <2> DEFINE C == {k \in Places : RootOf[k] = RootOf[i]}
  <2>1. ToLink \cup same \subseteq Places \X Places
    BY PairsArePlaces DEF ToLink, BlockPairs, DedupeInv, DedupeType
  <2>2. Closed(C, ToLink \cup same)
    BY <2>1, LinkedIsTogether DEF Closed
  <2>3. C \in SUBSET Places /\ i \in C
    OBVIOUS
  <2>4. j \in C
    BY <1>2, <2>2, <2>3 DEF Together
  <2> QED
    BY <2>4
<1> QED
  BY <1>1, <1>2

\* When all stages are over, two listings are in one cluster exactly when a chain of
\* linked pairs, or of pairs a model called the same, connects them: neither the
\* order of the stages nor passing over pairs that are together already loses or adds
\* any (deduplicate in pipeline/dedupe.py).
THEOREM ClustersAreAlwaysConnected == DedupeSpec => []ClustersAreConnected
BY DedupeInvariant, FinishedClusters, PTL

-----------------------------------------------------------------------------
(* The refinement of Partition. *)

\* The clusters that a root map makes.
PartsOf(P, R) == {{i \in DOMAIN P : R[i] = r} : r \in {R[i] : i \in DOMAIN P}}

\* Putting one root below another makes one cluster of two.
LEMMA JoiningParts ==
    ASSUME NEW P, NEW R, Rooted(P, R), NEW a \in DOMAIN P, NEW b \in DOMAIN P,
           P[a] = a, P[b] = b, a # b,
           NEW A, A = {i \in DOMAIN P : R[i] = a},
           NEW B, B = {i \in DOMAIN P : R[i] = b}
    PROVE  /\ A \in PartsOf(P, R) /\ B \in PartsOf(P, R) /\ A # B
           /\ PartsOf(P, Joined(P, R, a, b)) = (PartsOf(P, R) \ {A, B}) \cup {A \cup B}
<1> DEFINE Part(r) == {i \in DOMAIN P : R[i] = r}
           S == Joined(P, R, a, b)
           SPart(r) == {i \in DOMAIN P : S[i] = r}
<1>1. R[a] = a /\ R[b] = b /\ \A i \in DOMAIN P : R[i] \in DOMAIN P /\ R[R[i]] = R[i]
  BY RootAt
<1>2. \A i \in DOMAIN P : S[i] = IF R[i] = b THEN a ELSE R[i]
  BY DEF Joined
<1>3. A = Part(a) /\ B = Part(b) /\ a \in A /\ b \in B /\ b \notin A
  BY <1>1
<1>4. A \in PartsOf(P, R) /\ B \in PartsOf(P, R)
  BY <1>1 DEF PartsOf
<1>5. SPart(a) = A \cup B
  BY <1>2
<1>6. \A r : r # a /\ r # b => SPart(r) = Part(r)
  BY <1>2
<1>7. S[a] = a
  BY <1>1, <1>2
<1>8. ASSUME NEW p \in PartsOf(P, S)
      PROVE  p \in (PartsOf(P, R) \ {A, B}) \cup {A \cup B}
  <2>1. PICK i \in DOMAIN P : p = SPart(S[i])
    BY <1>8 DEF PartsOf
  <2>2. CASE S[i] = a
    BY <2>1, <2>2, <1>5
  <2>3. CASE S[i] # a
    <3>1. S[i] = R[i] /\ R[i] # a /\ R[i] # b
      BY <2>3, <1>2
    <3>2. p = Part(R[i])
      BY <2>1, <3>1, <1>6
    <3>3. R[i] \in p /\ R[i] \notin A /\ R[i] \notin B
      BY <3>1, <3>2, <1>1
    <3>4. p \in PartsOf(P, R)
      BY <3>2 DEF PartsOf
    <3> QED
      BY <3>3, <3>4
  <2> QED
    BY <2>2, <2>3
<1>9. ASSUME NEW p \in (PartsOf(P, R) \ {A, B}) \cup {A \cup B}
      PROVE  p \in PartsOf(P, S)
  <2>1. CASE p = A \cup B
    <3>1. p = SPart(S[a])
      BY <2>1, <1>5, <1>7
    <3> QED
      BY <3>1 DEF PartsOf
  <2>2. CASE p \in PartsOf(P, R) \ {A, B}
    <3>1. PICK i \in DOMAIN P : p = Part(R[i])
      BY <2>2 DEF PartsOf
    <3>2. R[i] # a /\ R[i] # b
      BY <2>2, <3>1
    <3>3. S[i] = R[i] /\ p = SPart(S[i])
      BY <3>1, <3>2, <1>2, <1>6
    <3> QED
      BY <3>3 DEF PartsOf
  <2> QED
    BY <2>1, <2>2
<1> HIDE DEF S
<1>10. PartsOf(P, S) = (PartsOf(P, R) \ {A, B}) \cup {A \cup B}
  BY <1>8, <1>9
<1> QED
  BY <1>3, <1>4, <1>10 DEF S

\* The two halves of a union that joins.
LEMMA UnionIsJoin ==
    ASSUME DedupeInv, Union, RootOf' # RootOf
    PROVE  \E p, q \in Clusters : Promise!Join(p, q)
<1>1. PICK a \in Places, b \in Places :
        /\ a # b /\ parent[a] = a /\ parent[b] = b
        /\ {a, b} = {RootOf[pair[1]], RootOf[pair[2]]}
        /\ RootOf' = Joined(parent, RootOf, a, b)
  BY UnionOfRoots
<1>2. pair \in Pairs(stage) /\ pair \in Places \X Places
  BY UnionOfRoots
<1>3. items' = items /\ Places' = Places /\ Links' = Links
  BY SameItems DEF Union, Links, Identical
<1>4. pair \in Links
  <2>1. stage \in Exact \/ MergeGuard(items[pair[1]], items[pair[2]])
    BY DEF Union, DedupeInv, InHand
  <2>2. ASSUME stage \in Exact
        PROVE  Identical(pair[1], pair[2])
    <3>1. Pairs(stage) = BucketPairs(stage)
      BY <2>2 DEF Pairs, Bucketed, Exact, Similar
    <3> QED
      BY <2>2, <3>1, <1>2 DEF BucketPairs, Identical
  <2> QED
    BY <2>1, <2>2, <1>2 DEF Links
<1> DEFINE A == {i \in Places : RootOf[i] = a}
           B == {i \in Places : RootOf[i] = b}
<1>5. DOMAIN parent = Places /\ Rooted(parent, RootOf)
  BY DEF DedupeInv, DedupeType
<1>6. Clusters = PartsOf(parent, RootOf) /\ Clusters' = PartsOf(parent, RootOf')
  BY <1>3, <1>5 DEF Clusters, PartsOf
<1>7. /\ A \in Clusters /\ B \in Clusters /\ A # B
      /\ Clusters' = (Clusters \ {A, B}) \cup {A \cup B}
  <2>1. /\ A = {i \in DOMAIN parent : RootOf[i] = a}
        /\ B = {i \in DOMAIN parent : RootOf[i] = b}
        /\ a \in DOMAIN parent /\ b \in DOMAIN parent
    BY <1>5
  <2> HIDE DEF A, B
  <2> QED
    BY <2>1, <1>1, <1>5, <1>6, JoiningParts
<1>8. \/ pair[1] \in A /\ pair[2] \in B
      \/ pair[1] \in B /\ pair[2] \in A
  BY <1>1, <1>2
<1>9. pair = <<pair[1], pair[2]>>
  BY <1>2
<1> HIDE DEF A, B
<1>10. CASE pair[1] \in A /\ pair[2] \in B
  <2>1. Promise!Join(A, B)
    BY <1>3, <1>4, <1>7, <1>9, <1>10 DEF Promise!Join
  <2> QED
    BY <2>1, <1>7
<1>11. CASE pair[1] \in B /\ pair[2] \in A
  <2>1. Promise!Join(B, A)
    BY <1>3, <1>4, <1>7, <1>9, <1>11 DEF Promise!Join
  <2> QED
    BY <2>1, <1>7
<1> QED
  BY <1>8, <1>10, <1>11

LEMMA InitMapsToPartition == DedupeInit => Promise!PartitionInit
<1> SUFFICES ASSUME DedupeInit
             PROVE  Clusters = {{i} : i \in Promise!Places}
  BY DEF Promise!PartitionInit
<1>1. parent = [i \in Places |-> i] /\ DOMAIN parent = Places
  BY DEF DedupeInit
<1>2. Rooted(parent, parent)
  BY <1>1 DEF Rooted, IsRootMap
<1>3. RootOf = [i \in Places |-> i]
  BY <1>1, <1>2, RootOfIsRootMap
<1>4. Promise!Places = Places
  <2>1. ASSUME NEW i \in Places
        PROVE  i \in Promise!Places
    <3>1. <<i, i>> \in Links /\ <<i, i>>[1] = i
      BY DEF Links
    <3> QED
      BY <3>1 DEF Promise!Places
  <2>2. Links \subseteq Places \X Places
    BY DEF Links
  <2>3. \A p \in Links : p[1] \in Places /\ p[2] \in Places
    BY <2>2
  <2> QED
    BY <2>1, <2>3 DEF Promise!Places
<1>5. \A r \in Places : {i \in Places : RootOf[i] = r} = {r}
  BY <1>3
<1>6. {RootOf[i] : i \in Places} = Places
  BY <1>3
<1> QED
  BY <1>4, <1>5, <1>6 DEF Clusters

LEMMA NextMapsToPartition ==
    DedupeInv /\ [DedupeNext]_dedupeVars =>
        [Promise!PartitionNext]_(Promise!partitionVars)
<1> SUFFICES ASSUME DedupeInv, [DedupeNext]_dedupeVars
             PROVE  Promise!PartitionNext \/ UNCHANGED <<Links, Clusters>>
  BY DEF Promise!partitionVars
<1>1. items' = items
  BY DEF DedupeNext, Climb, Union, NextStage, TakePair, Pass, Accept, Ask, dedupeVars
<1>2. Places' = Places /\ Links' = Links
  BY <1>1, SameItems DEF Links, Identical
<1>3. CASE RootOf' = RootOf
  BY <1>2, <1>3 DEF Clusters
<1>4. CASE RootOf' # RootOf
  <2>1. CASE Union
    BY <2>1, <1>4, UnionIsJoin DEF Promise!PartitionNext
  <2>2. CASE Climb
    BY <2>2, <1>4, ClimbKeepsRoots
  <2>3. CASE UNCHANGED <<items, parent>>
    BY <2>3, <1>2, <1>4 DEF RootOf
  <2> QED
    BY <2>1, <2>2, <2>3 DEF DedupeNext, NextStage, TakePair, Pass, Accept, Ask, dedupeVars
<1> QED
  BY <1>3, <1>4

\* Deduplication implements the partition: every step of the forest either changes no
\* cluster or joins two of them, over a pair with one exact identity or one the merge
\* guard lets pass, for every batch and every measure of likeness.
THEOREM DedupeImplementsPartition == DedupeSpec => ImplementsPartition
<1>1. DedupeSpec => []DedupeInv
  BY DedupeInvariant
<1> QED
  BY <1>1, InitMapsToPartition, NextMapsToPartition, PTL
     DEF DedupeSpec, ImplementsPartition, Promise!PartitionSpec
=============================================================================
