------------------------------- MODULE Dedupe -------------------------------
(***************************************************************************)
(* Deduplication of one batch of listings (pipeline/dedupe.py): exact      *)
(* identities first, then fingerprints, contents and similarity under the  *)
(* guard, each pair that is found joined in a union-find forest.           *)
(*                                                                         *)
(* A step is one turn of a loop: taking the next pair of the stage,        *)
(* halving a path on the way to a root, or joining two roots.              *)
(***************************************************************************)
EXTENDS Integers, Sequences, FiniteSets

CONSTANTS
    Batches,         \* the sequences of listings that may arrive
    None,            \* a key, an id or a place that is missing
    Axes,            \* EXCLUSIVE_AXES: sets of discriminators
    Apart(_, _),     \* two known places are not one
    TitleLike(_, _), \* token_set_ratio of two titles, in percent
    TextLike(_, _),  \* jaccard of the shingles of two descriptions, in percent
    MaxBlock,        \* max_block_size
    MaxCalls         \* max_llm_calls

ASSUME DedupeAssumption == MaxBlock \in Nat /\ MaxCalls \in Nat

VARIABLES
    items,   \* the batch
    parent,  \* the forest: the parent of every place in the batch
    rank,    \* and an upper bound of the height of the tree below it
    stage,   \* the number of the stage
    todo,    \* the pairs of this stage that are still to come
    pair,    \* the pair in hand
    at,      \* how far the two finds have climbed
    pc,      \* "next" pair, "compare" roots, or "union"
    calls,   \* llm_calls
    same     \* history: the pairs that were judged to be one job

dedupeVars == <<items, parent, rank, stage, todo, pair, at, pc, calls, same>>

-----------------------------------------------------------------------------
(* Listings. *)

\* Both known, and not equal.
Differ(a, b) == a # None /\ b # None /\ a # b

\* Each declares members of the axis, and not the same.
AxisConflict(a, b) ==
    \E axis \in Axes : LET l == a.words \cap axis
                           r == b.words \cap axis
                       IN  l # {} /\ r # {} /\ l # r

MergeGuard(a, b) ==
    /\ a.company = b.company
    /\ ~Differ(a.requisition, b.requisition)
    /\ ~Differ(a.ats, b.ats)
    /\ a.source = b.source => ~Differ(a.url, b.url)
    /\ ~AxisConflict(a, b)
    /\ ~Differ(a.employment, b.employment)
    /\ ~(a.place # None /\ b.place # None /\ Apart(a.place, b.place))

Agree(x, y) == x # None /\ x = y

\* What agreeing, or lying far apart, adds to a score that stays below one.
Plus(score, percent) == IF score + 100 * percent > 10000 THEN 10000 ELSE score + 100 * percent

Gap(x, y) == IF x < y THEN y - x ELSE x - y

Dated(a, b) == a.posted # None /\ b.posted # None

\* In hundredths of a percent.  Without descriptions the title has to carry it.
Similarity(a, b) ==
    LET title == TitleLike(a.title, b.title)
        likes == IF a.text = None \/ b.text = None THEN 82 * title
                 ELSE 55 * title + 45 * TextLike(a.text, b.text)
        role  == Plus(likes, IF Agree(a.requisition, b.requisition) THEN 25 ELSE 0)
        place == Plus(role, IF Agree(a.place, b.place) THEN 5 ELSE 0)
        date  == Plus(place, IF ~Dated(a, b) THEN 0
                             ELSE IF Gap(a.posted, b.posted) <= 3 THEN 3
                             ELSE IF Gap(a.posted, b.posted) > 90 THEN -5 ELSE 0)
    IN  Plus(date, IF Agree(a.pay, b.pay) THEN 4 ELSE 0)

\* MERGE_THRESHOLD and DIFFERENT_THRESHOLD.
Likeness(a, b) ==
    CASE Similarity(a, b) >= 8800 -> "merge"
      [] Similarity(a, b) < 7000  -> "different"
      [] OTHER                    -> "ask"

\* The keys of the stages before similarity.
Key(a, s) ==
    CASE s = 1 -> <<a.source, a.id>>
      [] s = 2 -> a.url
      [] s = 3 -> a.ats
      [] s = 4 -> <<a.company, a.core, a.place, a.employment>>
      [] s = 5 -> <<a.company, a.core, a.place, a.text>>

Exact == 1 .. 3
Bucketed == 1 .. 5
Similar == 6
Done == 7

Places == DOMAIN items

\* A bucket is compared with its head.
BucketPairs(s) ==
    {p \in Places \X Places :
        /\ p[1] < p[2]
        /\ Key(items[p[1]], s) # None
        /\ Key(items[p[1]], s) = Key(items[p[2]], s)
        /\ \A k \in 1 .. p[1] - 1 : Key(items[k], s) # Key(items[p[1]], s)}

Block(i) == {k \in Places : items[k].company = items[i].company}

\* A company with too many listings is passed over.
BlockPairs ==
    {p \in Places \X Places :
        /\ p[1] < p[2] /\ p[2] \in Block(p[1])
        /\ Cardinality(Block(p[1])) <= MaxBlock}

Pairs(s) ==
    CASE s \in Bucketed -> BucketPairs(s)
      [] s = Similar    -> BlockPairs
      [] OTHER          -> {}

\* Exact keys are found in the order of the batch, the rest bucket by bucket.
FirstOf(S) == CHOOSE i \in S : \A k \in S : i <= k

Turn(p) ==
    CASE stage \in Exact    -> <<p[2], 0, 0>>
      [] stage = Similar    -> <<FirstOf(Block(p[1])), p[1], p[2]>>
      [] OTHER              -> <<p[1], p[2], 0>>

Before(p, q) ==
    LET a == Turn(p)  b == Turn(q) IN
    \/ a[1] < b[1]
    \/ a[1] = b[1] /\ a[2] < b[2]
    \/ a[1] = b[1] /\ a[2] = b[2] /\ a[3] < b[3]

-----------------------------------------------------------------------------
(* The forest. *)

Climbed == parent[at[1]] = at[1] /\ parent[at[2]] = at[2]

\* find: the path is halved, and both climb on from their grandparents, the
\* second when the first has arrived.
Climb ==
    /\ pc \in {"compare", "union"}
    /\ \E k \in {1, 2} :
          /\ parent[at[k]] # at[k]
          /\ k = 2 => parent[at[1]] = at[1]
          /\ parent' = [parent EXCEPT ![at[k]] = parent[parent[at[k]]]]
          /\ at' = [at EXCEPT ![k] = parent[parent[at[k]]]]
    /\ UNCHANGED <<items, rank, stage, todo, pair, pc, calls, same>>

\* Ranks are compared and never raised.
UnionFlat ==
    /\ pc = "union" /\ Climbed
    /\ parent' = [parent EXCEPT ![at[2]] = at[1]]
    /\ pc' = "next"
    /\ same' = same \cup {pair}
    /\ UNCHANGED <<items, rank, stage, todo, pair, at, calls>>

\* The lower root goes below the higher one.
Union ==
    /\ pc = "union" /\ Climbed
    /\ LET a == IF rank[at[1]] < rank[at[2]] THEN at[2] ELSE at[1]
           b == IF rank[at[1]] < rank[at[2]] THEN at[1] ELSE at[2]
       IN IF a = b THEN UNCHANGED <<parent, rank>>
          ELSE /\ parent' = [parent EXCEPT ![b] = a]
               /\ rank' = IF rank[a] = rank[b] THEN [rank EXCEPT ![a] = @ + 1] ELSE rank
    /\ pc' = "next"
    /\ same' = same \cup {pair}
    /\ UNCHANGED <<items, stage, todo, pair, at, calls>>

-----------------------------------------------------------------------------
(* The stages. *)

NextStage ==
    /\ pc = "next" /\ todo = {} /\ stage < Done
    /\ stage' = stage + 1
    /\ todo' = Pairs(stage + 1)
    /\ UNCHANGED <<items, parent, rank, pair, at, pc, calls, same>>

\* Exact pairs compared like the others.
TakePairGuarded ==
    /\ pc = "next"
    /\ \E p \in todo :
          /\ \A q \in todo \ {p} : Before(p, q)
          /\ todo' = todo \ {p}
          /\ pair' = p
          /\ at' = p
    /\ pc' = "compare"
    /\ UNCHANGED <<items, parent, rank, stage, calls, same>>

\* Exact pairs are joined at once, the others compared first.
TakePair ==
    /\ pc = "next"
    /\ \E p \in todo :
          /\ \A q \in todo \ {p} : Before(p, q)
          /\ todo' = todo \ {p}
          /\ pair' = p
          /\ at' = p
    /\ pc' = IF stage \in Exact THEN "union" ELSE "compare"
    /\ UNCHANGED <<items, parent, rank, stage, calls, same>>

Compared == pc = "compare" /\ Climbed

\* Nothing to do: they are together, or the guard or the score keeps them apart.
Pass ==
    /\ Compared
    /\ \/ at[1] = at[2]
       \/ ~MergeGuard(items[pair[1]], items[pair[2]])
       \/ stage = Similar /\ Likeness(items[pair[1]], items[pair[2]]) = "different"
       \/ stage = Similar /\ Likeness(items[pair[1]], items[pair[2]]) = "ask"
                          /\ calls = MaxCalls
    /\ pc' = "next"
    /\ UNCHANGED <<items, parent, rank, stage, todo, pair, at, calls, same>>

\* No guard.
AcceptAny ==
    /\ Compared /\ at[1] # at[2]
    /\ stage = Similar => Likeness(items[pair[1]], items[pair[2]]) = "merge"
    /\ pc' = "union"
    /\ at' = pair
    /\ UNCHANGED <<items, parent, rank, stage, todo, pair, calls, same>>

Accept ==
    /\ Compared /\ at[1] # at[2]
    /\ MergeGuard(items[pair[1]], items[pair[2]])
    /\ stage = Similar => Likeness(items[pair[1]], items[pair[2]]) = "merge"
    /\ pc' = "union"
    /\ at' = pair
    /\ UNCHANGED <<items, parent, rank, stage, todo, pair, calls, same>>

\* The model says SAME, or anything else, or fails.
Ask ==
    /\ Compared /\ at[1] # at[2]
    /\ MergeGuard(items[pair[1]], items[pair[2]])
    /\ stage = Similar /\ Likeness(items[pair[1]], items[pair[2]]) = "ask"
    /\ calls < MaxCalls
    /\ calls' = calls + 1
    /\ pc' \in {"union", "next"}
    /\ at' = pair
    /\ UNCHANGED <<items, parent, rank, stage, todo, pair, same>>

DedupeInit ==
    /\ items \in Batches
    /\ parent = [i \in Places |-> i]
    /\ rank = [i \in Places |-> 0]
    /\ stage = 0 /\ todo = {} /\ pair = <<1, 1>> /\ at = <<1, 1>>
    /\ pc = "next" /\ calls = 0 /\ same = {}

DedupeNext == Climb \/ Union \/ NextStage \/ TakePair \/ Pass \/ Accept \/ Ask

DedupeSpec == DedupeInit /\ [][DedupeNext]_dedupeVars

Finished == stage = Done /\ todo = {} /\ pc = "next"

-----------------------------------------------------------------------------
(* Properties. *)

\* Ranks rise towards the root, so no find goes round in circles.
RanksRise == \A i \in Places : parent[i] # i => rank[i] < rank[parent[i]]

\* Where a find would arrive: all steps to a parent, done at once.
RootOf[i \in Places] == IF parent[i] = i THEN i ELSE RootOf[parent[i]]

Clusters == {{i \in Places : RootOf[i] = r} : r \in {RootOf[i] : i \in Places}}

Identical(i, j) ==
    \E s \in Exact : Key(items[i], s) # None /\ Key(items[i], s) = Key(items[j], s)

Links ==
    {p \in Places \X Places :
        \/ p[1] = p[2]
        \/ Identical(p[1], p[2])
        \/ MergeGuard(items[p[1]], items[p[2]])}

Promise == INSTANCE Partition WITH links <- Links, parts <- Clusters

\* The forest, with its ranks and halved paths, only ever joins two clusters over
\* a pair with one identity or one the guard lets pass (UnionFind, deduplicate).
ImplementsPartition == Promise!PartitionSpec

\* The pairs of a set lead from C to C only.
Closed(C, S) == \A p \in S : p[1] \in C <=> p[2] \in C

\* Places that a chain of pairs connects: nothing that holds the one and is closed
\* lacks the other.
Together(S) ==
    {p \in Places \X Places :
        \A C \in SUBSET Places : p[1] \in C /\ Closed(C, S) => p[2] \in C}

\* What the stages would link if no pair were ever passed over because it is
\* together already.
ToLink ==
    (UNION {Pairs(s) : s \in Exact})
    \cup {p \in Pairs(4) \cup Pairs(5) : MergeGuard(items[p[1]], items[p[2]])}
    \cup {p \in BlockPairs : /\ MergeGuard(items[p[1]], items[p[2]])
                             /\ Likeness(items[p[1]], items[p[2]]) = "merge"}

\* The clusters are exactly what the pairs of all stages connect, with the ones a
\* model called the same: the order of stages and pairs, and skipping pairs that
\* are together, lose nothing; so listings with one identity always meet.
ClustersAreConnected ==
    Finished =>
        \A i, j \in Places :
            RootOf[i] = RootOf[j] <=> <<i, j>> \in Together(ToLink \cup same)
=============================================================================
