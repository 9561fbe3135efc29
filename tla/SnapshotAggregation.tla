------------------------ MODULE SnapshotAggregation ------------------------
(***************************************************************************)
(* What ListClusterSnapshots makes of the snapshot histories in a bucket   *)
(* (calculateSnapshotValues, getAllGroupingValues and getGroupingValue in  *)
(* server/internal/server/cluster_snapshot.go): nodes are put in groups,   *)
(* the numbers of a group are added up and divided by the number of        *)
(* histories it appears in.                                                *)
(*                                                                         *)
(* A history is a record with the fields cluster and nodes; a node has a   *)
(* product, gpuCapacity and memoryCapacity.  GPU occupancy and pod count   *)
(* are treated as gpuCapacity is.  The messages fit the fields of the      *)
(* answer (int32): no overflow.                                            *)
(***************************************************************************)
EXTENDS Naturals, FiniteSets, FiniteSetsExt

CONSTANTS
    GB,         \* the bytes of a gigabyte
    NoProduct,  \* a node without nvidia_attributes
    Unknown     \* the product such a node is listed under

ASSUME AggregationAssumption == GB \in Nat \ {0}

Groupings == {"unspecified", "cluster", "product"}
Fields    == {"nodeCount", "gpuCapacity", "memoryCapacity"}

Amount(node, f) == IF f = "nodeCount" THEN 1 ELSE node[f]
Unit(f)         == IF f = "memoryCapacity" THEN GB ELSE 1

\* Definitions named Faulty... are mistakes the code could have made.
FaultyGroupingValue(h, node, by, names) ==
    IF by = "cluster" THEN names[h.cluster] ELSE node.product

\* Without a grouping histories are still averaged by their cluster's name.
\* names is indexed by cluster ID.
GroupingValue(h, node, by, names) ==
    IF by \in {"unspecified", "cluster"} THEN names[h.cluster]
    ELSE IF node.product = NoProduct THEN Unknown
    ELSE node.product

NodesOf(h, g, by, names) ==
    {node \in h.nodes : GroupingValue(h, node, by, names) = g}

GroupingValues(hs, by, names) ==
    UNION {{GroupingValue(h, node, by, names) : node \in h.nodes} : h \in hs}

Sum(h, g, by, names, f) ==
    SumFunction([node \in NodesOf(h, g, by, names) |-> Amount(node, f)])

FaultyHsCount(hs, g, by, names) == Cardinality(hs)

\* The histories a group has a node in.
HsCount(hs, g, by, names) ==
    Cardinality({h \in hs : NodesOf(h, g, by, names) # {}})

Average(hs, g, by, names, f) ==
    (SumFunction([h \in hs |-> Sum(h, g, by, names, f)])
        \div HsCount(hs, g, by, names)) \div Unit(f)

\* The sum of the averages of all groups, if there is no grouping.
Total(hs, names) ==
    [f \in Fields |->
        SumFunction([g \in GroupingValues(hs, "unspecified", names) |->
                       Average(hs, g, "unspecified", names, f)])]

\* One value for each group that appears in any bucket; all is the set of them.
Grouped(hs, by, names, all) ==
    [g \in all |->
        [f \in Fields |->
            IF g \in GroupingValues(hs, by, names)
            THEN Average(hs, g, by, names, f) ELSE 0]]
=============================================================================
