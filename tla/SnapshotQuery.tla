--------------------------- MODULE SnapshotQuery ---------------------------
(***************************************************************************)
(* ListClusterSnapshots (server/internal/server/cluster_snapshot.go):      *)
(* what it answers from the snapshot histories that TenantRead, with the   *)
(* kind "snapshot", has read.  A grouping outside the enumeration is not   *)
(* modelled.                                                               *)
(***************************************************************************)
EXTENDS TenantRead, SnapshotAggregation

\* What is assumed of the messages, those of the agent's collector (see
\* NodeSnapshot); the module of the instance states it.
ReportAssumption ==
    \A content \in Contents : IsFiniteSet(content) /\ \A node \in content :
        node.gpuCapacity \in Nat /\ node.memoryCapacity \in Nat

-----------------------------------------------------------------------------
(* The answer.                                                             *)

TotalAt(t)       == Total(Bucket(t), names)
GroupedAt(t, by) == Grouped(Bucket(t), by, names, GroupingValues(hs, by, names))

-----------------------------------------------------------------------------
(* Correctness.                                                            *)

\* A datapoint's average lies between the smallest and the largest of the
\* numbers it is the average of, however many nodes, clusters and snapshots
\* share its group.
AverageIsWithin ==
    Answered => \A t \in Slots, by \in {"cluster", "product"}, f \in Fields :
        \A g \in GroupingValues(Bucket(t), by, names) :
            LET seen == {Sum(h, g, by, names, f) :
                           h \in {x \in Bucket(t) : NodesOf(x, g, by, names) # {}}}
                value == GroupedAt(t, by)[g][f]
            IN  Min(seen) \div Unit(f) <= value /\ value <= Max(seen) \div Unit(f)

\* The average of a cluster over its histories that have nodes.
ClusterAverage(t, c, f) ==
    LET own == {h \in Bucket(t) : h.cluster = c /\ h.nodes # {}}
        amount(h) == SumFunction([node \in h.nodes |-> Amount(node, f)])
    IN  IF own = {} THEN 0
        ELSE (SumFunction([h \in own |-> amount(h)]) \div Cardinality(own)) \div Unit(f)

TotalIsSumOfClusterAverages ==
    Answered => \A t \in Slots, f \in Fields :
        TotalAt(t)[f] =
            SumFunction([c \in DOMAIN names |-> ClusterAverage(t, c, f)])

\* As long as the clusters a tenant sees have different names, the ungrouped
\* numbers are the sum of its clusters' averages.
TotalWithDistinctNames ==
    (\A c, d \in DOMAIN names : names[c] = names[d] => c = d)
        => TotalIsSumOfClusterAverages

\* The comment in getGroupingValue: "Still use the cluster name for UNSPECIFIED
\* (to average histories per cluster).  It will be summed up later."
AveragedPerCluster == TotalIsSumOfClusterAverages

\* The comment in calculateSnapshotValues: "Calculate the average by dividing
\* by the number of snapshot histories."
DividedByHistories ==
    Answered => \A t \in Slots, f \in Fields :
        \A g \in GroupingValues(hs, "cluster", names) :
            LET own == {h \in Bucket(t) : names[h.cluster] = g}
            IN  own # {} =>
                  GroupedAt(t, "cluster")[g][f] =
                    (SumFunction([h \in own |-> Sum(h, g, "cluster", names, f)])
                        \div Cardinality(own)) \div Unit(f)
=============================================================================
