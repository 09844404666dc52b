---------------------------- MODULE Crawl_proofs ----------------------------
(***************************************************************************)
(* Theorems about Boards.tla and Crawl.tla, for any number of boards,      *)
(* sources, targets and overlapping runs.                                  *)
(***************************************************************************)
EXTENDS Crawl, FiniteSetTheorems, TLAPS

(***************************************************************************)
(* The registry keeps its type, and no board collects more failures than   *)
(* there are runs to push it past the back-off.                            *)
(***************************************************************************)

Tables == [Boards -> Rows \cup {NoBoard}]

\* The runs that have a board in hand, and may yet book a failure for it.
Crawlers(b) == {r \in Runs : crawl[r] # NotRunning /\ b \in crawl[r]}

\* A board's failures, with those still to be booked, are bounded; and it is
\* enabled as long as the bound is below the pruning threshold.
Budgeted(b) ==
    /\ registry[b].failures + Cardinality(Crawlers(b)) =< MostFailures
    /\ PruneAt > MostFailures => registry[b].enabled

BInv == BoardsTypeOK /\ \A b \in Registered : Budgeted(b)

-----------------------------------------------------------------------------
(* Numbers. *)

\* The bound is a number.
LEMMA MostFailuresType ==
  /\ MostFailures \in Nat
  /\ BackOffAt - 1 + Cardinality(Runs) = MostFailures
  /\ Cardinality(Runs) \in Nat
  BY BoardsAssumption, FS_CardinalityType DEF MostFailures

\* A board is in the hands of at most every run.
LEMMA CrawlersCount ==
  ASSUME NEW b
  PROVE  /\ IsFiniteSet(Crawlers(b))
         /\ Cardinality(Crawlers(b)) \in Nat
         /\ Cardinality(Crawlers(b)) =< Cardinality(Runs)
  <1>1. Crawlers(b) \in SUBSET Runs
    BY DEF Crawlers
  <1>2. QED
    BY <1>1, BoardsAssumption, FS_Subset, FS_CardinalityType

\* The same in the next state.
LEMMA NextCrawlersCount ==
  ASSUME NEW b
  PROVE  /\ IsFiniteSet(Crawlers(b)')
         /\ Cardinality(Crawlers(b)') \in Nat
         /\ Cardinality(Crawlers(b)') =< Cardinality(Runs)
  <1>1. Crawlers(b)' \in SUBSET Runs
    BY DEF Crawlers
  <1>2. QED
    BY <1>1, BoardsAssumption, FS_Subset, FS_CardinalityType

-----------------------------------------------------------------------------
(* Tables. *)

\* Registering keeps the table well typed.
LEMMA WithNewType ==
  ASSUME NEW table \in Tables, NEW found
  PROVE  WithNew(table, found) \in Tables
  <1>1. NewRow \in Rows
    <2>1. 0 \in 0 .. Cardinality(Boards)
      BY BoardsAssumption, FS_CardinalityType
    <2>2. QED
      BY <2>1 DEF NewRow, Rows
  <1>2. QED
    BY <1>1 DEF WithNew, Tables

\* Renumbering leaves no rank beyond the number of boards.
LEMMA RankStays ==
  ASSUME NEW table \in Tables, NEW picked \in SUBSET Boards, NEW b \in Boards,
         b \in picked \/ table[b] # NoBoard
  PROVE  RankAfter(table, picked, b) \in 0 .. Cardinality(Boards)
  <1> DEFINE D == {d \in Boards \ picked : table[d] # NoBoard}
             T == {table[c].rank : c \in D}
             kept == T \ {0}
             f == [c \in D |-> table[c].rank]
  <1>1. /\ IsFiniteSet(D) /\ Cardinality(D) \in Nat
        /\ Cardinality(D) =< Cardinality(Boards)
        /\ Cardinality(Boards) \in Nat
    <2>1. D \in SUBSET Boards
      OBVIOUS
    <2>2. QED
      BY <2>1, BoardsAssumption, FS_Subset, FS_CardinalityType
  <1>2. f \in Surjection(D, T)
    BY DEF Surjection
  <1>3. IsFiniteSet(T) /\ Cardinality(T) =< Cardinality(D) /\ Cardinality(T) \in Nat
    BY <1>1, <1>2, FS_Surjection, FS_CardinalityType
  <1>4. /\ IsFiniteSet(kept) /\ Cardinality(kept) \in Nat
        /\ Cardinality(kept) =< Cardinality(D)
    <2>1. kept \in SUBSET T
      OBVIOUS
    <2>2. IsFiniteSet(kept) /\ Cardinality(kept) =< Cardinality(T)
      BY <2>1, <1>3, FS_Subset
    <2>3. Cardinality(kept) \in Nat
      BY <2>2, FS_CardinalityType
    <2> HIDE DEF kept, T, D
    <2>4. QED
      BY <2>2, <2>3, <1>1, <1>3
  <1>5. CASE b \in picked
    <2>1. D \in SUBSET (Boards \ {b})
      BY <1>5
    <2>2. /\ IsFiniteSet(Boards \ {b})
          /\ Cardinality(Boards \ {b}) = Cardinality(Boards) - 1
      BY BoardsAssumption, FS_RemoveElement
    <2>3. Cardinality(D) =< Cardinality(Boards) - 1
      BY <2>1, <2>2, FS_Subset
    <2>4. RankAfter(table, picked, b) = Cardinality(kept) + 1
      BY <1>5 DEF RankAfter
    <2> HIDE DEF kept, D
    <2>5. QED
      BY <2>3, <2>4, <1>1, <1>4
  <1>6. CASE b \notin picked
    <2> DEFINE below == {n \in kept : n =< table[b].rank}
    <2>1. below \in SUBSET kept
      OBVIOUS
    <2>2. /\ Cardinality(below) =< Cardinality(kept)
          /\ Cardinality(below) \in Nat
      BY <2>1, <1>4, FS_Subset, FS_CardinalityType
    <2>3. RankAfter(table, picked, b) = Cardinality(below)
      BY <1>6 DEF RankAfter
    <2> HIDE DEF below, kept, D
    <2>4. QED
      BY <2>2, <2>3, <1>1, <1>4
  <1>7. QED
    BY <1>5, <1>6

\* Booking keeps the table well typed.
LEMMA BookedType ==
  ASSUME NEW table \in Tables, NEW picked \in SUBSET Boards, NEW failed
  PROVE  Booked(table, picked, failed) \in Tables
  <1>1. ASSUME NEW b \in Boards, table[b] # NoBoard
        PROVE  Booked(table, picked, failed)[b] \in Rows
    <2>1. RankAfter(table, picked, b) \in 0 .. Cardinality(Boards)
      BY <1>1, RankStays
    <2>2. table[b] \in Rows
      BY <1>1 DEF Tables
    <2>3. QED
      BY <1>1, <2>1, <2>2 DEF Booked, Rows
  <1>2. \A b \in Boards : table[b] = NoBoard => Booked(table, picked, failed)[b] = NoBoard
    BY DEF Booked
  <1>3. Booked(table, picked, failed)
        = [b \in Boards |-> Booked(table, picked, failed)[b]]
    BY DEF Booked
  <1>4. QED
    BY <1>1, <1>2, <1>3 DEF Tables

\* Pruning keeps the table well typed.
LEMMA PrunedType ==
  ASSUME NEW table \in Tables
  PROVE  Pruned(table) \in Tables
  BY DEF Pruned, Tables, Rows

\* Only boards below the back-off are picked.
LEMMA PicksAreEligible ==
  ASSUME NEW table, NEW picked \in Picks(table)
  PROVE  picked \subseteq Eligible(table)
  BY DEF Picks, FirstRows

-----------------------------------------------------------------------------
(* Steps. *)

\* Types survive every step.
LEMMA BoardsTypeStays == BoardsTypeOK /\ [BoardsNext]_boardVars => BoardsTypeOK'
  <1> SUFFICES ASSUME BoardsTypeOK, [BoardsNext]_boardVars
               PROVE  BoardsTypeOK'
    OBVIOUS
  <1>0. registry \in Tables /\ crawl \in [Runs -> (SUBSET Boards) \cup {NotRunning}]
    BY DEF BoardsTypeOK, Tables
  <1>1. ASSUME NEW r \in Runs, Setup(r)
        PROVE  BoardsTypeOK'
    <2>1. registry' \in Tables
      BY <1>0, <1>1, WithNewType DEF Setup, Seeded
    <2>2. PICK picked \in Picks(registry') : crawl' = [crawl EXCEPT ![r] = picked]
      BY <1>1 DEF Setup, Seeded
    <2>3. picked \in SUBSET Boards
      BY <2>2, PicksAreEligible DEF Eligible
    <2>4. QED
      BY <1>0, <2>1, <2>2, <2>3 DEF BoardsTypeOK, Tables
  <1>2. ASSUME NEW r \in Runs, Finish(r)
        PROVE  BoardsTypeOK'
    <2>1. PICK found \in Harvests :
            \E failed \in {FailedSources(crawl[r], answered) : answered \in SUBSET crawl[r]} :
               registry' = Pruned(Booked(WithNew(registry, found), crawl[r], failed))
      BY <1>2 DEF Finish
    <2>2. PICK failed :
            registry' = Pruned(Booked(WithNew(registry, found), crawl[r], failed))
      BY <2>1
    <2>3. crawl[r] \in SUBSET Boards
      BY <1>0, <1>2 DEF Finish
    <2>4. Booked(WithNew(registry, found), crawl[r], failed) \in Tables
      BY <1>0, <2>3, WithNewType, BookedType
    <2>5. registry' \in Tables
      BY <2>2, <2>4, PrunedType
    <2>6. crawl' = [crawl EXCEPT ![r] = NotRunning]
      BY <1>2 DEF Finish
    <2>7. QED
      BY <1>0, <2>5, <2>6 DEF BoardsTypeOK, Tables
  <1>3. ASSUME NEW r \in Runs, Abandon(r)
        PROVE  BoardsTypeOK'
    BY <1>0, <1>3 DEF Abandon, BoardsTypeOK, Tables
  <1>4. CASE Prune
    BY <1>0, <1>4, PrunedType DEF Prune, BoardsTypeOK, Tables
  <1>5. CASE DaysPass
    <2>1. registry' \in Tables
      BY <1>0, <1>5 DEF DaysPass, Tables, Rows
    <2>2. QED
      BY <1>0, <1>5, <2>1 DEF DaysPass, BoardsTypeOK, Tables
  <1>6. CASE SeedRegistry
    BY <1>0, <1>6, WithNewType DEF SeedRegistry, BoardsTypeOK, Tables
  <1>7. CASE UNCHANGED boardVars
    BY <1>7 DEF boardVars, BoardsTypeOK
  <1>8. QED
    BY <1>1, <1>2, <1>3, <1>4, <1>5, <1>6, <1>7 DEF BoardsNext

\* A board that is new, or whose count was just put back to zero, is within any
\* budget.
LEMMA CleanIsBudgeted ==
  ASSUME NEW b, registry'[b].failures = 0, registry'[b].enabled
  PROVE  Budgeted(b)'
  <1>1. Cardinality(Crawlers(b)') \in Nat /\ Cardinality(Crawlers(b)') =< Cardinality(Runs)
    BY NextCrawlersCount
  <1>2. Cardinality(Crawlers(b)') =< MostFailures
    BY <1>1, MostFailuresType, BoardsAssumption
  <1>3. MostFailures' = MostFailures
    BY DEF MostFailures
  <1>4. registry'[b].failures + Cardinality(Crawlers(b)') =< MostFailures
    BY <1>1, <1>2
  <1>5. QED
    BY <1>3, <1>4 DEF Budgeted

\* A step that leaves the count and the switch of a board alone, and puts it in
\* no further hands, keeps it within its budget.
LEMMA UntouchedIsBudgeted ==
  ASSUME BInv, BoardsTypeOK', NEW b \in Registered,
         registry'[b].failures = registry[b].failures,
         registry'[b].enabled = registry[b].enabled,
         Crawlers(b)' \subseteq Crawlers(b)
  PROVE  Budgeted(b)'
  <1>1. Cardinality(Crawlers(b)') =< Cardinality(Crawlers(b))
    BY CrawlersCount, FS_Subset
  <1>2. registry[b].failures \in Nat
    BY DEF BInv, BoardsTypeOK, Registered, Rows
  <1>3. Cardinality(Crawlers(b)') \in Nat /\ Cardinality(Crawlers(b)) \in Nat
    BY CrawlersCount, NextCrawlersCount
  <1>4. registry[b].failures + Cardinality(Crawlers(b)) =< MostFailures
    BY DEF BInv, Budgeted
  <1>5. registry'[b].failures + Cardinality(Crawlers(b)') =< MostFailures
    BY <1>1, <1>2, <1>3, <1>4, MostFailuresType
  <1>6. PruneAt > MostFailures => registry'[b].enabled
    BY DEF BInv, Budgeted
  <1>7. QED
    BY <1>5, <1>6 DEF Budgeted, MostFailures

\* A run that picks a board found it below the back-off.
LEMMA SetupBudgets ==
  ASSUME BInv, BoardsTypeOK', NEW r \in Runs, Setup(r), NEW b \in Registered'
  PROVE  Budgeted(b)'
  <1>0. b \in Boards /\ registry'[b] # NoBoard
    BY DEF Registered
  <1>1. PICK picked \in Picks(registry') : crawl' = [crawl EXCEPT ![r] = picked]
    BY DEF Setup, Seeded
  <1>2. CASE registry[b] = NoBoard
    <2>1. registry'[b] = NewRow
      BY <1>0, <1>2 DEF Setup, Seeded, WithNew
    <2>2. QED
      BY <2>1, CleanIsBudgeted DEF NewRow
  <1>3. CASE registry[b] # NoBoard
    <2>1. registry'[b] = registry[b]
      BY <1>0, <1>3 DEF Setup, Seeded, WithNew
    <2>2. b \in Registered
      BY <1>0, <1>3 DEF Registered
    <2>3. CASE b \notin picked
      <3>1. Crawlers(b)' \subseteq Crawlers(b)
        BY <1>1, <2>3 DEF Crawlers, BInv, BoardsTypeOK
      <3>2. QED
        BY <2>1, <2>2, <3>1, UntouchedIsBudgeted
    <2>4. CASE b \in picked
      <3>1. registry'[b].failures < BackOffAt
        BY <1>1, <2>4, PicksAreEligible DEF Eligible
      <3>2. registry'[b].failures \in Nat
        BY <1>0 DEF BoardsTypeOK, Rows
      <3>3. /\ Cardinality(Crawlers(b)') \in Nat
            /\ Cardinality(Crawlers(b)') =< Cardinality(Runs)
        BY NextCrawlersCount
      <3>4. registry'[b].failures + Cardinality(Crawlers(b)') =< MostFailures
        BY <3>1, <3>2, <3>3, MostFailuresType, BoardsAssumption
      <3>5. PruneAt > MostFailures => registry'[b].enabled
        BY <2>1, <2>2 DEF BInv, Budgeted
      <3>6. QED
        BY <3>4, <3>5 DEF Budgeted, MostFailures
    <2>5. QED
      BY <2>3, <2>4
  <1>4. QED
    BY <1>2, <1>3

\* A run that books a failure gives up its hold on the board: the sum stays.
LEMMA FinishBudgets ==
  ASSUME BInv, BoardsTypeOK', NEW r \in Runs, Finish(r), NEW b \in Registered'
  PROVE  Budgeted(b)'
  <1>0. b \in Boards /\ registry'[b] # NoBoard
    BY DEF Registered
  <1> PICK found \in Harvests :
        \E failed \in {FailedSources(crawl[r], answered) : answered \in SUBSET crawl[r]} :
           registry' = Pruned(Booked(WithNew(registry, found), crawl[r], failed))
    BY DEF Finish
  <1>1. PICK failed :
          registry' = Pruned(Booked(WithNew(registry, found), crawl[r], failed))
    OBVIOUS
  <1>2. crawl[r] \in SUBSET Boards /\ crawl[r] # NotRunning
    BY DEF Finish, BInv, BoardsTypeOK
  <1>3. crawl' = [crawl EXCEPT ![r] = NotRunning]
    BY DEF Finish
  <1> DEFINE known == WithNew(registry, found)
             booked == Booked(known, crawl[r], failed)
  <1>4. /\ Crawlers(b)' = Crawlers(b) \ {r}
        /\ b \in crawl[r] <=> r \in Crawlers(b)
    BY <1>2, <1>3 DEF Crawlers, BInv, BoardsTypeOK
  <1>5. registry \in Tables
    BY DEF BInv, BoardsTypeOK, Tables
  <1>6. known \in Tables /\ booked \in Tables
    BY <1>2, <1>5, WithNewType, BookedType
  <1>7. booked[b] # NoBoard /\ known[b] # NoBoard
    <2>1. booked[b] = NoBoard => registry'[b] = NoBoard
      BY <1>0, <1>1 DEF Pruned
    <2>2. known[b] = NoBoard => booked[b] = NoBoard
      BY <1>0 DEF Booked
    <2>3. QED
      BY <1>0, <2>1, <2>2
  <1>8. /\ known[b] \in Rows /\ booked[b] \in Rows
        /\ registry'[b].failures = booked[b].failures
        /\ booked[b].failures < PruneAt => registry'[b].enabled = booked[b].enabled
    <2>1. known[b] \in Rows /\ booked[b] \in Rows
      BY <1>0, <1>6, <1>7 DEF Tables
    <2>2. registry'[b] = IF booked[b].failures >= PruneAt
                         THEN [booked[b] EXCEPT !.enabled = FALSE] ELSE booked[b]
      BY <1>0, <1>1, <1>7 DEF Pruned
    <2>3. booked[b].failures \in Nat
      BY <2>1 DEF Rows
    <2> HIDE DEF booked, known
    <2>4. registry'[b].failures = booked[b].failures
      BY <2>1, <2>2 DEF Rows
    <2>5. booked[b].failures < PruneAt => ~(booked[b].failures >= PruneAt)
      BY <2>3, BoardsAssumption
    <2>6. booked[b].failures < PruneAt => registry'[b].enabled = booked[b].enabled
      BY <2>2, <2>5
    <2>7. QED
      BY <2>1, <2>4, <2>6
  \* What is known of the row before it is booked.
  <1>9. /\ known[b].failures + Cardinality(Crawlers(b)) =< MostFailures
        /\ PruneAt > MostFailures => known[b].enabled
    <2>1. CASE registry[b] = NoBoard
      <3>1. known[b] = NewRow
        BY <1>0, <1>7, <2>1 DEF WithNew
      <3>2. known[b].failures = 0 /\ known[b].enabled
        BY <3>1 DEF NewRow
      <3> HIDE DEF known
      <3>3. QED
        BY <3>2, CrawlersCount, MostFailuresType, BoardsAssumption
    <2>2. CASE registry[b] # NoBoard
      <3>1. known[b] = registry[b]
        BY <1>0, <2>2 DEF WithNew
      <3>2. QED
        BY <1>0, <2>2, <3>1 DEF BInv, Budgeted, Registered
    <2>3. QED
      BY <2>1, <2>2
  <1>10. booked[b].enabled = known[b].enabled
    <2> HIDE DEF known
    <2>1. CASE b \in crawl[r]
      BY <1>0, <1>7, <2>1 DEF Booked
    <2>2. CASE b \notin crawl[r]
      BY <1>0, <1>7, <1>8, <2>2 DEF Booked, Rows
    <2>3. QED
      BY <2>1, <2>2
  <1>11. /\ Cardinality(Crawlers(b)) \in Nat /\ Cardinality(Crawlers(b)') \in Nat
         /\ Cardinality(Crawlers(b)') = IF r \in Crawlers(b) THEN Cardinality(Crawlers(b)) - 1
                                                             ELSE Cardinality(Crawlers(b))
         /\ Cardinality(Crawlers(b)) =< Cardinality(Runs)
    BY <1>4, CrawlersCount, NextCrawlersCount, FS_RemoveElement
  <1>12. booked[b].failures + Cardinality(Crawlers(b)') =< MostFailures
    <2>1. known[b].failures \in Nat
      BY <1>8 DEF Rows
    <2> HIDE DEF known
    <2>2. CASE b \in crawl[r] /\ SourceOf[b] \in failed
      <3>1. booked[b].failures = known[b].failures + 1
        BY <1>0, <1>7, <2>2 DEF Booked
      <3> HIDE DEF booked
      <3>2. QED
        BY <1>4, <1>9, <1>11, <2>1, <2>2, <3>1, MostFailuresType
    <2>3. CASE b \in crawl[r] /\ SourceOf[b] \notin failed
      <3>1. booked[b].failures = 0
        BY <1>0, <1>7, <2>3 DEF Booked
      <3> HIDE DEF booked
      <3>2. QED
        BY <1>4, <1>9, <1>11, <2>1, <2>3, <3>1, MostFailuresType
    <2>4. CASE b \notin crawl[r]
      <3>1. booked[b].failures = known[b].failures
        BY <1>0, <1>7, <1>8, <2>4 DEF Booked, Rows
      <3> HIDE DEF booked
      <3>2. QED
        BY <1>4, <1>9, <1>11, <2>1, <2>4, <3>1
    <2>5. QED
      BY <2>2, <2>3, <2>4
  <1>13. PruneAt > MostFailures => registry'[b].enabled
    <2>1. booked[b].failures \in Nat
      BY <1>8 DEF Rows
    <2> HIDE DEF booked, known
    <2>2. PruneAt > MostFailures => booked[b].failures < PruneAt
      BY <1>11, <1>12, <2>1, MostFailuresType, BoardsAssumption
    <2>3. QED
      BY <2>2, <1>8, <1>9, <1>10
  <1>14. registry'[b].failures + Cardinality(Crawlers(b)') =< MostFailures
    BY <1>8, <1>12
  <1>15. QED
    BY <1>13, <1>14 DEF Budgeted, MostFailures

\* Pruning alone disables nothing that is within its budget.
LEMMA PruneBudgets ==
  ASSUME BInv, BoardsTypeOK', Prune, NEW b \in Registered'
  PROVE  Budgeted(b)'
  <1>0. b \in Boards /\ registry'[b] # NoBoard
    BY DEF Registered
  <1>1. registry[b] # NoBoard
    BY <1>0 DEF Prune, Pruned
  <1>2. b \in Registered /\ registry[b] \in Rows
    BY <1>0, <1>1 DEF Registered, BInv, BoardsTypeOK
  <1>3. registry'[b] = IF registry[b].failures >= PruneAt
                       THEN [registry[b] EXCEPT !.enabled = FALSE] ELSE registry[b]
    BY <1>0, <1>1 DEF Prune, Pruned
  <1>4. registry'[b].failures = registry[b].failures /\ registry[b].failures \in Nat
    BY <1>2, <1>3 DEF Rows
  <1>5. /\ registry[b].failures + Cardinality(Crawlers(b)) =< MostFailures
        /\ PruneAt > MostFailures => registry[b].enabled
    BY <1>2 DEF BInv, Budgeted
  <1>6. Crawlers(b)' = Crawlers(b)
    BY DEF Prune, Crawlers
  <1>7. PruneAt > MostFailures => registry'[b].enabled
    <2>1. PruneAt > MostFailures => ~(registry[b].failures >= PruneAt)
      BY <1>4, <1>5, CrawlersCount, MostFailuresType, BoardsAssumption
    <2>2. QED
      BY <1>3, <1>5, <2>1
  <1>8. registry'[b].failures + Cardinality(Crawlers(b)') =< MostFailures
    BY <1>4, <1>5, <1>6
  <1>9. QED
    BY <1>7, <1>8 DEF Budgeted, MostFailures

\* The invariant holds of an empty registry.
LEMMA InitBInv == BoardsInit => BInv
  BY DEF BoardsInit, BInv, BoardsTypeOK, Registered

\* The invariant survives every step.
LEMMA NextBInv == BInv /\ [BoardsNext]_boardVars => BInv'
  <1> SUFFICES ASSUME BInv, [BoardsNext]_boardVars
               PROVE  BInv'
    OBVIOUS
  <1>1. BoardsTypeOK'
    BY BoardsTypeStays DEF BInv
  <1>2. ASSUME NEW b \in Registered'
        PROVE  Budgeted(b)'
    <2>0. b \in Boards /\ registry'[b] # NoBoard
      BY DEF Registered
    <2>1. ASSUME NEW r \in Runs, Setup(r)
          PROVE  Budgeted(b)'
      BY <1>1, <2>1, SetupBudgets
    <2>2. ASSUME NEW r \in Runs, Finish(r)
          PROVE  Budgeted(b)'
      BY <1>1, <2>2, FinishBudgets
    <2>3. ASSUME NEW r \in Runs, Abandon(r)
          PROVE  Budgeted(b)'
      <3>1. registry' = registry /\ b \in Registered
        BY <2>0, <2>3 DEF Abandon, Registered
      <3>2. Crawlers(b)' \subseteq Crawlers(b)
        BY <2>3 DEF Abandon, Crawlers, BInv, BoardsTypeOK
      <3>3. QED
        BY <1>1, <3>1, <3>2, UntouchedIsBudgeted
    <2>4. CASE Prune
      BY <1>1, <2>4, PruneBudgets
    <2>5. CASE DaysPass
      <3>1. b \in Registered
        BY <2>0, <2>5 DEF DaysPass, Registered
      <3>2. registry'[b] = [registry[b] EXCEPT !.recent = FALSE]
        BY <2>0, <2>5, <3>1 DEF DaysPass, Registered
      <3>3. registry[b] \in Rows
        BY <3>1 DEF BInv, BoardsTypeOK, Registered
      <3>4. /\ registry'[b].failures = registry[b].failures
            /\ registry'[b].enabled = registry[b].enabled
        BY <3>2, <3>3 DEF Rows
      <3>5. Crawlers(b)' \subseteq Crawlers(b)
        BY <2>5 DEF DaysPass, Crawlers
      <3>6. QED
        BY <1>1, <3>1, <3>4, <3>5, UntouchedIsBudgeted
    <2>6. CASE SeedRegistry
      <3>1. PICK found \in Harvests : registry' = WithNew(registry, found)
        BY <2>6 DEF SeedRegistry
      <3>2. CASE registry[b] = NoBoard
        <4>1. registry'[b] = NewRow
          BY <2>0, <3>1, <3>2 DEF WithNew
        <4>2. QED
          BY <4>1, CleanIsBudgeted DEF NewRow
      <3>3. CASE registry[b] # NoBoard
        <4>1. registry'[b] = registry[b] /\ b \in Registered
          BY <2>0, <3>1, <3>3 DEF WithNew, Registered
        <4>2. Crawlers(b)' \subseteq Crawlers(b)
          BY <2>6 DEF SeedRegistry, Crawlers
        <4>3. QED
          BY <1>1, <4>1, <4>2, UntouchedIsBudgeted
      <3>4. QED
        BY <3>2, <3>3
    <2>7. CASE UNCHANGED boardVars
      <3>1. /\ registry' = registry /\ b \in Registered
            /\ Crawlers(b)' \subseteq Crawlers(b)
        BY <2>0, <2>7 DEF boardVars, Registered, Crawlers
      <3>2. QED
        BY <1>1, <3>1, UntouchedIsBudgeted
    <2>8. QED
      BY <2>1, <2>2, <2>3, <2>4, <2>5, <2>6, <2>7 DEF BoardsNext
  <1>3. QED
    BY <1>1, <1>2 DEF BInv

-----------------------------------------------------------------------------
(* Theorems. *)

\* The registry and the runs are well typed: renumbered ranks stay below the
\* number of boards, and a run holds a set of boards or none at all.
THEOREM BoardsTypeCorrect == BoardsSpec => []BoardsTypeOK
  <1>1. BInv => BoardsTypeOK
    BY DEF BInv
  <1>2. QED
    BY <1>1, InitBInv, NextBInv, PTL DEF BoardsSpec

\* However many boards, sources and runs there are and however the runs overlap,
\* a board's failures stop one short of the back-off plus the number of runs,
\* and below the pruning threshold nothing is ever disabled.
THEOREM FailuresStayLow == BoardsSpec => []CountStaysLow
  <1>1. BInv => CountStaysLow
    <2> SUFFICES ASSUME BInv, NEW b \in Registered
                 PROVE  /\ registry[b].failures =< MostFailures
                        /\ PruneAt > MostFailures => registry[b].enabled
      BY DEF CountStaysLow
    <2>1. registry[b].failures \in Nat
      BY DEF BInv, BoardsTypeOK, Registered, Rows
    <2>2. /\ registry[b].failures + Cardinality(Crawlers(b)) =< MostFailures
          /\ PruneAt > MostFailures => registry[b].enabled
      BY DEF BInv, Budgeted
    <2>3. QED
      BY <2>1, <2>2, CrawlersCount, MostFailuresType
  <1>2. QED
    BY <1>1, InitBInv, NextBInv, PTL DEF BoardsSpec

-----------------------------------------------------------------------------
(***************************************************************************)
(* A run that looks at every board and source for itself does to the       *)
(* registry what Boards allows, punishes nothing that answered, and holds  *)
(* no guess against anybody.                                               *)
(***************************************************************************)

\* What a run has made of the answers is what the answers say.
Judges(row, picked) ==
    /\ \A s \in Enabled : row.status[s] = OutcomeOf(picked, row.guessed, row.answered, s)
    /\ \A t \in row.answered : \E s \in AllSources : t \in Asked(s, picked \cup row.guessed)

Judged(r) == work[r].stage = "collected" => Judges(work[r], crawl[r])

\* Whatever was not a guess and answered, has a source that is well or degraded.
Credits(row) ==
    \A t \in row.answered \ row.guessed : \E s \in Enabled : row.status[s] \in {"ok", "degraded"}

Credited(r) == work[r].stage \in {"collected", "persisted"} => Credits(work[r])

CInv == CrawlTypeOK /\ \A r \in Runs : Judged(r) /\ Credited(r)

-----------------------------------------------------------------------------
(* Outcomes. *)

\* A source has one of four outcomes.
LEMMA OutcomeType ==
  ASSUME NEW picked, NEW guessed, NEW answered, NEW s
  PROVE  OutcomeOf(picked, guessed, answered, s) \in Outcomes
  BY DEF OutcomeOf, BoardOutcome, QueryOutcome, ListOutcome, Outcomes

\* An answer to anything but a guess saves the source.
LEMMA AnswersCount ==
  ASSUME NEW picked \in SUBSET Boards, NEW guessed, NEW answered, NEW s \in AllSources,
         NEW t \in answered, t \notin guessed, t \in Asked(s, picked \cup guessed)
  PROVE  /\ s \in Enabled
         /\ OutcomeOf(picked, guessed, answered, s) \in {"ok", "degraded"}
  <1>1. s \in Enabled /\ s \notin Unconfigured
    BY DEF Asked
  <1>2. CASE s \in Sources
    <2>1. t \in Tried(picked, s)
      BY <1>1, <1>2 DEF Asked, Tried
    <2>2. QED
      BY <1>1, <1>2, <2>1 DEF OutcomeOf, BoardOutcome
  <1>3. CASE s \notin Sources
    <2>1. t \in PartsOf[s]
      BY <1>1, <1>3 DEF Asked
    <2>2. QED
      BY <1>1, <1>3, <2>1 DEF OutcomeOf, QueryOutcome, ListOutcome
  <1>4. QED
    BY <1>2, <1>3

\* A source that failed was asked for something and gave nothing.
LEMMA FailuresAreSilent ==
  ASSUME NEW picked, NEW guessed, NEW answered, NEW s \in Enabled,
         OutcomeOf(picked, guessed, answered, s) = "failed"
  PROVE  Asked(s, picked) # {} /\ Asked(s, picked) \cap answered = {}
  <1>1. s \notin Unconfigured
    BY DEF OutcomeOf
  <1>2. CASE s \in Sources
    <2>1. BoardOutcome(picked, guessed, answered, s) = "failed"
      BY <1>1, <1>2 DEF OutcomeOf
    <2>2. Tried(picked, s) # {} /\ Tried(picked, s) \cap answered = {}
      BY <2>1 DEF BoardOutcome
    <2>3. QED
      BY <1>1, <1>2, <2>2 DEF Asked
  <1>3. CASE s \notin Sources
    <2>1. \/ QueryOutcome(answered, s) = "failed"
          \/ s \in Listed /\ ListOutcome(answered, s) = "failed"
      BY <1>1, <1>3 DEF OutcomeOf, Enabled, AllSources
    <2>2. PartsOf[s] # {} /\ PartsOf[s] \cap answered = {}
      BY <2>1, CrawlAssumption DEF QueryOutcome, ListOutcome
    <2>3. QED
      BY <1>1, <1>3, <2>2 DEF Asked
  <1>4. QED
    BY <1>2, <1>3

\* The failures that are booked are failures Boards knows: those of sources none
\* of whose boards answered.
LEMMA FailuresAreKnown ==
  ASSUME NEW picked \in SUBSET Boards, NEW row, Judges(row, picked), NEW table
  PROVE  \E good \in SUBSET picked :
            Booked(table, picked, FailedOutright(row.status))
              = Booked(table, picked, FailedSources(picked, good))
  <1> DEFINE F == FailedOutright(row.status)
             good == {b \in picked : SourceOf[b] \notin F}
             failed == FailedSources(picked, good)
  <1>1. \A s \in F : s \in Enabled /\ OutcomeOf(picked, row.guessed, row.answered, s) = "failed"
    BY DEF FailedOutright, With, Judges
  <1>2. ASSUME NEW b \in picked
        PROVE  SourceOf[b] \in F <=> SourceOf[b] \in failed
    <2>1. SourceOf[b] \in Sources
      BY BoardsAssumption
    <2>2. ASSUME SourceOf[b] \in F  PROVE  SourceOf[b] \in failed
      <3>1. SourceOf[b] \notin Disabled
        BY <1>1, <2>2 DEF Enabled
      <3>2. \A c \in good : SourceOf[c] # SourceOf[b]
        BY <2>2
      <3>3. QED
        BY <2>1, <3>1, <3>2 DEF FailedSources
    <2>3. ASSUME SourceOf[b] \in failed  PROVE  SourceOf[b] \in F
      <3>1. b \notin good
        BY <2>3 DEF FailedSources
      <3>2. QED
        BY <3>1
    <2>4. QED
      BY <2>2, <2>3
  <1>3. Booked(table, picked, F) = Booked(table, picked, failed)
    <2> HIDE DEF F, failed
    <2>1. QED
      BY <1>2 DEF Booked
  <1>4. good \in SUBSET picked
    OBVIOUS
  <1>5. QED
    BY <1>3, <1>4

-----------------------------------------------------------------------------
(* Steps. *)

\* Every step of a run is a step of Boards, or none.
LEMMA StepImplements ==
  ASSUME CInv, [CrawlNext]_crawlVars
  PROVE  [BoardsNext]_boardVars
  <1>0. /\ crawl \in [Runs -> (SUBSET Boards) \cup {NotRunning}]
        /\ \A r \in Runs : crawl[r] # NotRunning <=> work[r].stage \in {"collecting", "collected"}
    BY DEF CInv, CrawlTypeOK, BoardsTypeOK
  <1>1. ASSUME NEW r \in Runs, SetUp(r)  PROVE  BoardsNext
    BY <1>1 DEF SetUp, BoardsNext
  <1>2. ASSUME NEW r \in Runs, Collect(r)  PROVE  UNCHANGED boardVars
    BY <1>2 DEF Collect
  <1>3. ASSUME NEW r \in Runs, Persist(r)  PROVE  BoardsNext
    <2>1. work[r].stage = "collected" /\ crawl[r] # NotRunning /\ crawl[r] \in SUBSET Boards
      BY <1>0, <1>3 DEF Persist
    <2>2. Judges(work[r], crawl[r])
      BY <2>1 DEF CInv, Judged
    <2>3. PICK found \in Harvests :
            registry' = Pruned(Booked(WithNew(registry, found), crawl[r], FailedOutright(work[r].status)))
      BY <1>3 DEF Persist
    <2>4. PICK good \in SUBSET crawl[r] :
            Booked(WithNew(registry, found), crawl[r], FailedOutright(work[r].status))
              = Booked(WithNew(registry, found), crawl[r], FailedSources(crawl[r], good))
      BY <2>1, <2>2, FailuresAreKnown
    <2>5. registry' = Pruned(Booked(WithNew(registry, found), crawl[r], FailedSources(crawl[r], good)))
      BY <2>3, <2>4
    <2>6. crawl' = [crawl EXCEPT ![r] = NotRunning]
      BY <1>3 DEF Persist
    <2>7. Finish(r)
      BY <2>1, <2>5, <2>6 DEF Finish
    <2>8. QED
      BY <2>7 DEF BoardsNext
  <1>4. ASSUME NEW r \in Runs, Close(r)  PROVE  UNCHANGED boardVars
    BY <1>4 DEF Close
  <1>5. ASSUME NEW r \in Runs, Die(r)  PROVE  [BoardsNext]_boardVars
    <2>1. crawl' = [crawl EXCEPT ![r] = NotRunning] /\ UNCHANGED registry
      BY <1>5 DEF Die
    <2>2. CASE crawl[r] # NotRunning
      BY <2>1, <2>2 DEF Abandon, BoardsNext
    <2>3. CASE crawl[r] = NotRunning
      <3>1. crawl' = crawl
        BY <1>0, <2>1, <2>3
      <3>2. QED
        BY <2>1, <3>1 DEF boardVars
    <2>4. QED
      BY <2>2, <2>3
  <1>6. ASSUME Upkeep  PROVE  BoardsNext
    BY <1>6 DEF Upkeep, BoardsNext
  <1>7. ASSUME UNCHANGED crawlVars  PROVE  UNCHANGED boardVars
    BY <1>7 DEF crawlVars, boardVars
  <1>8. QED
    BY <1>1, <1>2, <1>3, <1>4, <1>5, <1>6, <1>7 DEF CrawlNext

\* The invariant holds before the first run.
LEMMA InitCInv == CrawlInit => CInv
  <1> SUFFICES ASSUME CrawlInit  PROVE  CInv
    OBVIOUS
  <1>1. BoardsTypeOK
    BY InitBInv DEF CrawlInit, BInv
  <1>2. Idle \in RunRows /\ Idle.stage = "none"
    BY DEF Idle, RunRows, Over, Outcomes
  <1>3. \A r \in Runs : crawl[r] = NotRunning /\ work[r] = Idle
    BY DEF CrawlInit, BoardsInit
  <1>4. QED
    BY <1>1, <1>2, <1>3 DEF CrawlInit, CInv, CrawlTypeOK, Judged, Credited

\* What a step does to the record of a run.
LEMMA RunRowsStay ==
  ASSUME CInv, CrawlNext
  PROVE  work' \in [Runs -> RunRows]
  <1>0. work \in [Runs -> RunRows]
    BY DEF CInv, CrawlTypeOK
  <1>1. Idle \in RunRows
    BY DEF Idle, RunRows, Over, Outcomes
  <1>2. ASSUME NEW r \in Runs, SetUp(r)  PROVE  work' \in [Runs -> RunRows]
    <2>1. Guesses(registry') \in SUBSET Boards
      BY CrawlAssumption DEF Guesses
    <2>2. [Idle EXCEPT !.stage = "collecting", !.guessed = Guesses(registry')] \in RunRows
      BY <1>1, <2>1 DEF RunRows
    <2>3. QED
      BY <1>0, <1>2, <2>2 DEF SetUp
  <1>3. ASSUME NEW r \in Runs, Collect(r)  PROVE  work' \in [Runs -> RunRows]
    <2>1. PICK answered \in SUBSET UNION {Asked(s, crawl[r] \cup work[r].guessed) : s \in AllSources} :
            work' = [work EXCEPT ![r].stage = "collected", ![r].answered = answered,
                       ![r].status = [s \in Enabled |->
                                        OutcomeOf(crawl[r], work[r].guessed, answered, s)]]
      BY <1>3 DEF Collect
    <2>2. crawl[r] \in SUBSET Boards /\ work[r].guessed \in SUBSET Boards
      BY <1>0, <1>3 DEF Collect, CInv, CrawlTypeOK, BoardsTypeOK, RunRows
    <2>3. answered \in SUBSET (Boards \cup Parts)
      <3>1. ASSUME NEW s \in AllSources
            PROVE  Asked(s, crawl[r] \cup work[r].guessed) \subseteq Boards \cup Parts
        BY <2>2 DEF Asked, Tried, Parts, AllSources
      <3>2. QED
        BY <2>1, <3>1
    <2>4. [s \in Enabled |-> OutcomeOf(crawl[r], work[r].guessed, answered, s)] \in [Enabled -> Outcomes]
      BY OutcomeType
    <2>5. ASSUME NEW outcomes \in [Enabled -> Outcomes]
          PROVE  [work[r] EXCEPT !.stage = "collected", !.answered = answered, !.status = outcomes]
                   \in RunRows
      BY <1>0, <2>3 DEF RunRows
    <2>6. work' = [work EXCEPT ![r] =
                     [work[r] EXCEPT !.stage = "collected", !.answered = answered,
                        !.status = [s \in Enabled |->
                                      OutcomeOf(crawl[r], work[r].guessed, answered, s)]]]
      BY <1>0, <2>1
    <2>7. QED
      BY <1>0, <2>4, <2>5, <2>6
  <1>4. ASSUME NEW r \in Runs, Persist(r)  PROVE  work' \in [Runs -> RunRows]
    BY <1>0, <1>4 DEF Persist, Recorded, RunRows
  <1>5. ASSUME NEW r \in Runs, Close(r)  PROVE  work' \in [Runs -> RunRows]
    <2>1. StatusOf(work[r].status) \in Over
      BY DEF StatusOf, Over
    <2>2. [Idle EXCEPT !.stage = StatusOf(work[r].status)] \in RunRows
      BY <1>1, <2>1 DEF RunRows
    <2>3. QED
      BY <1>0, <1>5, <2>2 DEF Close
  <1>6. ASSUME NEW r \in Runs, Die(r)  PROVE  work' \in [Runs -> RunRows]
    <2>1. [Idle EXCEPT !.stage = "running"] \in RunRows
      BY <1>1 DEF RunRows, Over
    <2>2. QED
      BY <1>0, <1>6, <2>1 DEF Die
  <1>7. ASSUME Upkeep  PROVE  work' \in [Runs -> RunRows]
    BY <1>0, <1>7 DEF Upkeep
  <1>8. QED
    BY <1>2, <1>3, <1>4, <1>5, <1>6, <1>7 DEF CrawlNext

\* The table of sources stays well typed.
LEMMA SourcesStay ==
  ASSUME CInv, CrawlNext
  PROVE  sources' \in [AllSources -> SourceRecords \cup {NoRecord}]
  <1>0. sources \in [AllSources -> SourceRecords \cup {NoRecord}]
    BY DEF CInv, CrawlTypeOK
  <1>1. ASSUME NEW r \in Runs, Persist(r)
        PROVE  sources' \in [AllSources -> SourceRecords \cup {NoRecord}]
    <2>1. work[r].status \in [Enabled -> Outcomes]
      BY DEF CInv, CrawlTypeOK, RunRows
    <2>2. ASSUME NEW s \in Enabled
          PROVE  SourceRecord(sources[s], work[r].status[s]) \in SourceRecords
      <3>1. work[r].status[s] \in Outcomes
        BY <2>1
      <3>2. sources[s] \in SourceRecords \cup {NoRecord}
        BY <1>0 DEF Enabled
      <3>3. (sources[s] # NoRecord /\ sources[s].failing) \in BOOLEAN
        BY <3>2 DEF SourceRecords
      <3>4. QED
        BY <3>1 DEF SourceRecord, SourceRecords
    <2>3. QED
      BY <1>0, <1>1, <2>2 DEF Persist, SourcesAfter
  <1>2. ASSUME NEW r \in Runs, SetUp(r) \/ Collect(r) \/ Close(r) \/ Die(r)
        PROVE  sources' = sources
    BY <1>2 DEF SetUp, Collect, Close, Die
  <1>3. ASSUME Upkeep  PROVE  sources' = sources
    BY <1>3 DEF Upkeep
  <1>4. QED
    BY <1>0, <1>1, <1>2, <1>3 DEF CrawlNext

\* A run has boards in hand exactly while it crawls.
LEMMA HoldingStays ==
  ASSUME CInv, CrawlNext, NEW q \in Runs
  PROVE  crawl'[q] # NotRunning <=> work'[q].stage \in {"collecting", "collected"}
  <1>0. /\ work \in [Runs -> RunRows] /\ crawl \in [Runs -> (SUBSET Boards) \cup {NotRunning}]
        /\ crawl[q] # NotRunning <=> work[q].stage \in {"collecting", "collected"}
    BY DEF CInv, CrawlTypeOK, BoardsTypeOK
  <1>1. ASSUME NEW r \in Runs, SetUp(r)
        PROVE  crawl'[q] # NotRunning <=> work'[q].stage \in {"collecting", "collected"}
    <2>1. PICK picked \in Picks(registry') : crawl' = [crawl EXCEPT ![r] = picked]
      BY <1>1 DEF SetUp, Setup
    <2>2. picked \in SUBSET Boards
      BY PicksAreEligible DEF Eligible
    <2>3. picked # NotRunning
      BY <2>2, CrawlAssumption
    <2>4. work' = [work EXCEPT ![r] = [Idle EXCEPT !.stage = "collecting", !.guessed = Guesses(registry')]]
      BY <1>1 DEF SetUp
    <2>5. [Idle EXCEPT !.stage = "collecting", !.guessed = Guesses(registry')].stage = "collecting"
      BY DEF Idle
    <2>6. QED
      BY <1>0, <2>1, <2>3, <2>4, <2>5
  <1>2. ASSUME NEW r \in Runs, Collect(r)
        PROVE  crawl'[q] # NotRunning <=> work'[q].stage \in {"collecting", "collected"}
    <2>1. crawl' = crawl
      BY <1>2 DEF Collect, boardVars
    <2>2. work[r].stage = "collecting" /\ work'[r].stage = "collected"
          /\ \A p \in Runs \ {r} : work'[p] = work[p]
      BY <1>0, <1>2 DEF Collect, RunRows
    <2>3. QED
      BY <1>0, <2>1, <2>2
  <1>3. ASSUME NEW r \in Runs, Persist(r)
        PROVE  crawl'[q] # NotRunning <=> work'[q].stage \in {"collecting", "collected"}
    BY <1>0, <1>3 DEF Persist, Recorded, RunRows
  <1>4. ASSUME NEW r \in Runs, Close(r)
        PROVE  crawl'[q] # NotRunning <=> work'[q].stage \in {"collecting", "collected"}
    <2>1. work[r].stage = "persisted" /\ crawl' = crawl
      BY <1>4 DEF Close, boardVars
    <2>2. [Idle EXCEPT !.stage = StatusOf(work[r].status)].stage = StatusOf(work[r].status)
      BY DEF Idle
    <2>3. StatusOf(work[r].status) \notin {"collecting", "collected"}
      BY DEF StatusOf
    <2>4. QED
      BY <1>0, <1>4, <2>1, <2>2, <2>3 DEF Close
  <1>5. ASSUME NEW r \in Runs, Die(r)
        PROVE  crawl'[q] # NotRunning <=> work'[q].stage \in {"collecting", "collected"}
    <2>1. [Idle EXCEPT !.stage = "running"].stage = "running"
      BY DEF Idle
    <2>2. QED
      BY <1>0, <1>5, <2>1 DEF Die
  <1>6. ASSUME Upkeep
        PROVE  crawl'[q] # NotRunning <=> work'[q].stage \in {"collecting", "collected"}
    BY <1>0, <1>6 DEF Upkeep, SeedRegistry, Prune, DaysPass
  <1>7. QED
    BY <1>1, <1>2, <1>3, <1>4, <1>5, <1>6 DEF CrawlNext

\* Steps of other runs leave a run and what it has in hand alone.
LEMMA OthersStay ==
  ASSUME CInv, NEW r \in Runs, SetUp(r) \/ Collect(r) \/ Persist(r) \/ Close(r) \/ Die(r),
         NEW q \in Runs \ {r}
  PROVE  work'[q] = work[q] /\ crawl'[q] = crawl[q]
  <1>0. work \in [Runs -> RunRows] /\ crawl \in [Runs -> (SUBSET Boards) \cup {NotRunning}]
    BY DEF CInv, CrawlTypeOK, BoardsTypeOK
  <1>1. CASE SetUp(r)
    BY <1>0, <1>1 DEF SetUp, Setup
  <1>2. CASE Collect(r)
    BY <1>0, <1>2 DEF Collect, boardVars
  <1>3. CASE Persist(r) \/ Close(r) \/ Die(r)
    BY <1>0, <1>3 DEF Persist, Close, Die, boardVars
  <1>4. QED
    BY <1>1, <1>2, <1>3

\* A run keeps judging by the answers, and crediting them.
LEMMA JudgementStays ==
  ASSUME CInv, CrawlNext, NEW q \in Runs
  PROVE  Judged(q)' /\ Credited(q)'
  <1>0. /\ work \in [Runs -> RunRows] /\ crawl \in [Runs -> (SUBSET Boards) \cup {NotRunning}]
        /\ Judged(q) /\ Credited(q)
    BY DEF CInv, CrawlTypeOK, BoardsTypeOK
  <1>1. ASSUME SetUp(q)  PROVE  Judged(q)' /\ Credited(q)'
    <2>1. work'[q] = [Idle EXCEPT !.stage = "collecting", !.guessed = Guesses(registry')]
      BY <1>0, <1>1 DEF SetUp
    <2>2. work'[q].stage = "collecting"
      BY <2>1 DEF Idle
    <2>3. QED
      BY <2>2 DEF Judged, Credited
  <1>2. ASSUME Collect(q)  PROVE  Judged(q)' /\ Credited(q)'
    <2>1. PICK answered \in SUBSET UNION {Asked(s, crawl[q] \cup work[q].guessed) : s \in AllSources} :
            work' = [work EXCEPT ![q].stage = "collected", ![q].answered = answered,
                       ![q].status = [s \in Enabled |->
                                        OutcomeOf(crawl[q], work[q].guessed, answered, s)]]
      BY <1>2 DEF Collect
    <2>2. /\ work'[q].answered = answered /\ work'[q].guessed = work[q].guessed
          /\ work'[q].status = [s \in Enabled |-> OutcomeOf(crawl[q], work[q].guessed, answered, s)]
      BY <1>0, <2>1 DEF RunRows
    <2>3. crawl' = crawl /\ crawl[q] \in SUBSET Boards
      BY <1>0, <1>2 DEF Collect, boardVars, CInv, CrawlTypeOK
    <2>4. ASSUME NEW t \in answered, t \notin work[q].guessed
          PROVE  \E s \in Enabled : OutcomeOf(crawl[q], work[q].guessed, answered, s) \in {"ok", "degraded"}
      <3>1. PICK s \in AllSources : t \in Asked(s, crawl[q] \cup work[q].guessed)
        BY <2>1, <2>4
      <3>2. QED
        BY <2>3, <2>4, <3>1, AnswersCount
    <2>5. Judged(q)'
      <3>1. \A t \in answered : \E s \in AllSources : t \in Asked(s, crawl[q] \cup work[q].guessed)
        OBVIOUS
      <3>2. Judges(work'[q], crawl[q])
        BY <2>2, <3>1 DEF Judges
      <3>3. QED
        BY <2>3, <3>2 DEF Judged
    <2>6. Credited(q)'
      BY <2>2, <2>4 DEF Credited, Credits
    <2>7. QED
      BY <2>5, <2>6
  <1>3. ASSUME Persist(q)  PROVE  Judged(q)' /\ Credited(q)'
    <2>1. /\ work[q].stage = "collected" /\ work'[q].stage = "persisted"
          /\ work'[q].answered = work[q].answered /\ work'[q].guessed = work[q].guessed
          /\ work'[q].status = work[q].status
      BY <1>0, <1>3 DEF Persist, Recorded, RunRows
    <2>2. QED
      BY <1>0, <2>1 DEF Judged, Credited, Credits
  <1>4. ASSUME Close(q)  PROVE  Judged(q)' /\ Credited(q)'
    <2>1. work'[q].stage = StatusOf(work[q].status)
      BY <1>0, <1>4 DEF Close, Idle
    <2>2. work'[q].stage \in Over
      BY <2>1 DEF StatusOf, Over
    <2>3. QED
      BY <2>2 DEF Judged, Credited, Over
  <1>5. ASSUME Die(q)  PROVE  Judged(q)' /\ Credited(q)'
    <2>1. work'[q].stage = "running"
      BY <1>0, <1>5 DEF Die, Idle
    <2>2. QED
      BY <2>1 DEF Judged, Credited
  <1>6. ASSUME work'[q] = work[q] /\ crawl'[q] = crawl[q]  PROVE  Judged(q)' /\ Credited(q)'
    BY <1>0, <1>6 DEF Judged, Credited
  <1>7. ASSUME NEW r \in Runs, SetUp(r) \/ Collect(r) \/ Persist(r) \/ Close(r) \/ Die(r)
        PROVE  Judged(q)' /\ Credited(q)'
    <2>1. CASE r = q
      BY <1>1, <1>2, <1>3, <1>4, <1>5, <1>7, <2>1
    <2>2. CASE r # q
      BY <1>6, <1>7, <2>2, OthersStay
    <2>3. QED
      BY <2>1, <2>2
  <1>8. ASSUME Upkeep  PROVE  Judged(q)' /\ Credited(q)'
    <2>1. work' = work /\ crawl' = crawl
      BY <1>8 DEF Upkeep, SeedRegistry, Prune, DaysPass
    <2>2. QED
      BY <2>1, <1>6
  <1>9. QED
    BY <1>7, <1>8 DEF CrawlNext

\* The invariant survives every step.
LEMMA NextCInv == CInv /\ [CrawlNext]_crawlVars => CInv'
  <1> SUFFICES ASSUME CInv, [CrawlNext]_crawlVars
               PROVE  CInv'
    OBVIOUS
  <1>1. CASE CrawlNext
    <2>1. BoardsTypeOK'
      BY StepImplements, BoardsTypeStays DEF CInv, CrawlTypeOK
    <2>2. CrawlTypeOK'
      BY <1>1, <2>1, RunRowsStay, SourcesStay, HoldingStays DEF CrawlTypeOK
    <2>3. \A q \in Runs : Judged(q)' /\ Credited(q)'
      BY <1>1, JudgementStays
    <2>4. QED
      BY <2>2, <2>3 DEF CInv
  <1>2. CASE UNCHANGED crawlVars
    BY <1>2 DEF crawlVars, CInv, CrawlTypeOK, BoardsTypeOK, Judged, Credited
  <1>3. QED
    BY <1>1, <1>2

-----------------------------------------------------------------------------
(* Theorems. *)

\* Tables and runs are well typed, and a run has boards in hand exactly while it
\* crawls, for any number of runs, boards and sources.
THEOREM CrawlTypeCorrect == CrawlSpec => []CrawlTypeOK
  <1>1. CInv => CrawlTypeOK
    BY DEF CInv
  <1>2. QED
    BY <1>1, InitCInv, NextCInv, PTL DEF CrawlSpec

\* Whatever boards and sources answer one by one, what a run books in the registry
\* is something Boards allows; so what is proved of Boards holds of it.
THEOREM CrawlKeepsRegistry == CrawlSpec => ImplementsBoards
  <1>1. CrawlInit => BoardsInit
    BY DEF CrawlInit
  <1>2. CInv /\ [CrawlNext]_crawlVars => [BoardsNext]_boardVars
    BY StepImplements
  <1>3. QED
    BY <1>1, <1>2, InitCInv, NextCInv, PTL DEF CrawlSpec, ImplementsBoards, BoardsSpec

\* A source is only found to have failed, or to be degraded, when a board of its
\* own that was no guess did not answer.
THEOREM GuessesGoUnpunished == CrawlSpec => []GuessesAreFree
  <1>1. CInv => GuessesAreFree
    <2> SUFFICES ASSUME CInv, NEW r \in Runs, NEW s \in Enabled \cap Sources,
                        work[r].stage = "collected", work[r].status[s] \in {"failed", "degraded"}
                 PROVE  \E b \in crawl[r] \ work[r].answered : SourceOf[b] = s
      BY DEF GuessesAreFree
    <2>1. Judges(work[r], crawl[r])
      BY DEF CInv, Judged
    <2>2. OutcomeOf(crawl[r], work[r].guessed, work[r].answered, s) \in {"failed", "degraded"}
      BY <2>1 DEF Judges
    <2>3. BoardOutcome(crawl[r], work[r].guessed, work[r].answered, s) \in {"failed", "degraded"}
      BY <2>2 DEF OutcomeOf
    <2>4. Tried(crawl[r], s) \ work[r].answered # {}
      BY <2>3 DEF BoardOutcome
    <2>5. QED
      BY <2>4 DEF Tried
  <1>2. QED
    BY <1>1, InitCInv, NextCInv, PTL DEF CrawlSpec

\* Only the persist transaction of a run books its results.
LEMMA OnlyPersistBooks ==
  ASSUME CInv, [CrawlNext]_crawlVars, NEW r \in Runs, Books(r)
  PROVE  Persist(r)
  <1>0. work \in [Runs -> RunRows]
    BY DEF CInv, CrawlTypeOK
  <1>1. work'[r] # work[r] /\ CrawlNext
    BY DEF Books, crawlVars
  <1>2. ASSUME NEW q \in Runs, SetUp(q) \/ Collect(q) \/ Persist(q) \/ Close(q) \/ Die(q)
        PROVE  q = r
    BY <1>1, <1>2, OthersStay
  <1>3. ~Upkeep
    BY <1>1 DEF Upkeep
  <1>4. ~SetUp(r) /\ ~Collect(r) /\ ~Close(r)
    BY DEF Books, SetUp, Collect, Close, Over
  <1>5. ~Die(r)
    <2>1. SUFFICES ASSUME Die(r)  PROVE  FALSE
      OBVIOUS
    <2>2. work'[r].stage = "running"
      BY <1>0, <2>1 DEF Die, Idle
    <2>3. QED
      BY <2>2 DEF Books
  <1>6. QED
    BY <1>1, <1>2, <1>3, <1>4, <1>5 DEF CrawlNext

\* A failure is only counted against a board that the run tried and that did not
\* answer: no board is punished for another's silence.
THEOREM NoBoardIsBlamed == CrawlSpec => OnlyFailuresCount
  <1> DEFINE Blames == \A r \in Runs, b \in Registered :
          Books(r) /\ registry'[b].failures > registry[b].failures
             => b \in crawl[r] \ work[r].answered
  <1>1. CInv /\ [CrawlNext]_crawlVars => Blames
    <2> SUFFICES ASSUME CInv, [CrawlNext]_crawlVars, NEW r \in Runs, NEW b \in Registered,
                        Books(r), registry'[b].failures > registry[b].failures
                 PROVE  b \in crawl[r] \ work[r].answered
      OBVIOUS
    <2>1. Persist(r)
      BY OnlyPersistBooks
    <2>2. PICK found \in Harvests :
            registry' = Pruned(Booked(WithNew(registry, found), crawl[r], FailedOutright(work[r].status)))
      BY <2>1 DEF Persist
    <2>3. b \in Boards /\ registry[b] # NoBoard /\ registry[b] \in Rows
      BY DEF Registered, CInv, CrawlTypeOK, BoardsTypeOK
    <2> DEFINE known == WithNew(registry, found)
               booked == Booked(known, crawl[r], FailedOutright(work[r].status))
    <2>4. registry \in Tables /\ crawl[r] \in SUBSET Boards
      BY <2>1 DEF CInv, CrawlTypeOK, BoardsTypeOK, Tables, Persist
    <2>5. known \in Tables /\ booked \in Tables
      BY <2>4, WithNewType, BookedType
    <2>6. known[b] = registry[b]
      BY <2>3 DEF WithNew
    <2>7. registry'[b].failures = booked[b].failures
      <3>1. registry'[b] = Pruned(booked)[b]
        BY <2>2
      <3>2. booked[b] = NoBoard \/ booked[b] \in Rows
        BY <2>3, <2>5 DEF Tables
      <3> HIDE DEF booked, known
      <3>3. QED
        BY <2>3, <3>1, <3>2 DEF Pruned, Rows
    <2>8. b \in crawl[r] /\ SourceOf[b] \in FailedOutright(work[r].status)
      <3>1. booked[b].failures > registry[b].failures
        BY <2>7
      <3>2. registry[b].failures \in Nat
        BY <2>3 DEF Rows
      <3>3. CASE b \notin crawl[r]
        <4>1. booked[b].failures = registry[b].failures
          BY <2>3, <2>6, <3>3 DEF Booked, Rows
        <4>2. QED
          BY <3>1, <3>2, <4>1
      <3>4. CASE b \in crawl[r] /\ SourceOf[b] \notin FailedOutright(work[r].status)
        <4>1. booked[b].failures = 0
          BY <2>3, <2>6, <3>4 DEF Booked
        <4>2. QED
          BY <3>1, <3>2, <4>1
      <3>5. QED
        BY <3>3, <3>4
    <2>9. Judges(work[r], crawl[r])
      BY <2>1 DEF Persist, CInv, Judged
    <2>10. /\ SourceOf[b] \in Enabled
           /\ OutcomeOf(crawl[r], work[r].guessed, work[r].answered, SourceOf[b]) = "failed"
      BY <2>8, <2>9 DEF FailedOutright, With, Judges
    <2>11. Asked(SourceOf[b], crawl[r]) \cap work[r].answered = {}
      BY <2>10, FailuresAreSilent
    <2>12. b \in Asked(SourceOf[b], crawl[r])
      <3>1. SourceOf[b] \in Sources
        BY <2>3, BoardsAssumption
      <3>2. SourceOf[b] \notin Unconfigured
        BY <2>10 DEF OutcomeOf
      <3>3. QED
        BY <2>8, <2>10, <3>1, <3>2 DEF Asked, Tried
    <2>13. QED
      BY <2>8, <2>11, <2>12
  <1>2. QED
    BY <1>1, InitCInv, NextCInv, PTL DEF CrawlSpec, OnlyFailuresCount

\* A run is booked as failed only if nothing but guesses answered, and a failing
\* streak of a source begins with a run that asked it in vain.
THEOREM FailuresHaveCauses == CrawlSpec => FailuresAreReal
  <1> DEFINE Real(r) ==
         /\ work[r].stage = "persisted" /\ work'[r].stage = "failed"
              => work[r].answered \subseteq work[r].guessed
         /\ Books(r) => \A s \in Enabled : sources'[s].failing
              => \/ sources[s] # NoRecord /\ sources[s].failing
                 \/ Asked(s, crawl[r]) # {} /\ Asked(s, crawl[r]) \cap work[r].answered = {}
  <1>1. CInv /\ [CrawlNext]_crawlVars => \A r \in Runs : Real(r)
    <2> SUFFICES ASSUME CInv, [CrawlNext]_crawlVars, NEW r \in Runs
                 PROVE  Real(r)
      OBVIOUS
    <2>0. work \in [Runs -> RunRows]
      BY DEF CInv, CrawlTypeOK
    <2>1. ASSUME work[r].stage = "persisted", work'[r].stage = "failed"
          PROVE  work[r].answered \subseteq work[r].guessed
      <3>1. work'[r] # work[r] /\ CrawlNext
        BY <2>1 DEF crawlVars
      <3>2. ASSUME NEW q \in Runs, SetUp(q) \/ Collect(q) \/ Persist(q) \/ Close(q) \/ Die(q)
            PROVE  q = r
        BY <3>1, <3>2, OthersStay
      <3>3. ~Upkeep
        BY <3>1 DEF Upkeep
      <3>4. ~SetUp(r) /\ ~Collect(r) /\ ~Persist(r)
        BY <2>1 DEF SetUp, Collect, Persist, Over
      <3>5. ~Die(r)
        BY <2>0, <2>1 DEF Die, Idle
      <3>6. Close(r)
        BY <3>1, <3>2, <3>3, <3>4, <3>5 DEF CrawlNext
      <3>7. StatusOf(work[r].status) = "failed"
        BY <2>0, <2>1, <3>6 DEF Close, Idle
      <3>8. With(work[r].status, {"ok", "degraded"}) = {}
        BY <3>7 DEF StatusOf
      <3>9. Credits(work[r])
        BY <2>1 DEF CInv, Credited
      <3>10. QED
        BY <3>8, <3>9 DEF Credits, With
    <2>2. ASSUME Books(r), NEW s \in Enabled, sources'[s].failing,
                 ~(sources[s] # NoRecord /\ sources[s].failing)
          PROVE  Asked(s, crawl[r]) # {} /\ Asked(s, crawl[r]) \cap work[r].answered = {}
      <3>1. Persist(r)
        BY <2>2, OnlyPersistBooks
      <3>2. sources'[s] = SourceRecord(sources[s], work[r].status[s])
        BY <2>2, <3>1 DEF Persist, SourcesAfter, Enabled
      <3>3. work[r].status[s] = "failed"
        <4>1. SourceRecord(sources[s], work[r].status[s]).failing
                = (\/ work[r].status[s] = "failed"
                   \/ work[r].status[s] = "unconfigured" /\ sources[s] # NoRecord /\ sources[s].failing)
          BY DEF SourceRecord
        <4>2. QED
          BY <2>2, <3>2, <4>1, Zenon
      <3>4. Judges(work[r], crawl[r])
        BY <3>1 DEF Persist, CInv, Judged
      <3>5. QED
        BY <2>2, <3>3, <3>4, FailuresAreSilent DEF Judges
    <2>3. QED
      BY <2>1, <2>2
  <1>2. QED
    BY <1>1, InitCInv, NextCInv, PTL DEF CrawlSpec, FailuresAreReal

\* So no failure count passes the back-off by more than runs overlap, here as in
\* Boards (select_boards_to_crawl, record_board_results, prune_failed_boards).
THEOREM CrawlFailuresStayLow == CrawlSpec => []CountStaysLow
  BY CrawlKeepsRegistry, FailuresStayLow, PTL DEF ImplementsBoards
==============================================================================
