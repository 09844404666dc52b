----------------------------- MODULE Partition -----------------------------
(***************************************************************************)
(* What deduplication promises of a batch of listings: clusters only ever  *)
(* grow by joining two of them, and only over a pair of listings that may  *)
(* be linked: one exact identity, or a pair the guard lets pass.           *)
(***************************************************************************)
EXTENDS Integers

VARIABLES
    links,  \* the pairs of places in the batch that may be linked
    parts   \* the clusters, sets of places

partitionVars == <<links, parts>>

Places == {p[1] : p \in links} \cup {p[2] : p \in links}

PartitionInit == parts = {{i} : i \in Places}

Join(p, q) ==
    /\ p # q
    /\ \E i \in p, j \in q : <<i, j>> \in links
    /\ parts' = (parts \ {p, q}) \cup {p \cup q}
    /\ UNCHANGED links

PartitionNext == \E p, q \in parts : Join(p, q)

PartitionSpec == PartitionInit /\ [][PartitionNext]_partitionVars
=============================================================================
