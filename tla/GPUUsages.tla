----------------------------- MODULE GPUUsages -----------------------------
(***************************************************************************)
(* ListGpuUsages (server/internal/server/gpu_usages.go): what it answers   *)
(* from the GPU telemetry that TenantRead, with the kind "gpu", has read.  *)
(* A node is known by the name of its cluster and its own; for every       *)
(* interval its maxima and averages are taken over the histories it is in. *)
(*                                                                         *)
(* GPU use is counted in hundredths, memory in bytes; the conversion to    *)
(* gigabytes and the rounding of floats are left out.  The sums fit the    *)
(* fields they are kept in.                                                *)
(***************************************************************************)
EXTENDS TenantRead, FiniteSetsExt

\* What is assumed of the messages; the module of the instance states it.  The
\* agent's collector (see GPUTelemetry) puts a node in a message once, with
\* averages that are not above its maxima.
UsageAssumption ==
    \A content \in Contents : IsFiniteSet(content) /\ \A node \in content :
        /\ node.maxGPUUsed \in Nat /\ node.avgGPUUsed \in 0..node.maxGPUUsed
        /\ node.maxGPUMemoryUsed \in Nat
        /\ node.avgGPUMemoryUsed \in 0..node.maxGPUMemoryUsed
        /\ \A other \in content : other.name = node.name => other = node

\* Definitions named Faulty... are mistakes the code could have made; no
\* behaviour of this specification uses them.
FaultyClusterNode(h, node) == [clusterName |-> "", nodeName |-> node.name]

ClusterNode(h, node) == [clusterName |-> names[h.cluster], nodeName |-> node.name]

ClusterNodes(histories) ==
    UNION {{ClusterNode(h, node) : node \in h.nodes} : h \in histories}

FaultyAllClusterNodes == ClusterNodes(Bucket(Start))

\* getAllClusterNodes: every datapoint has a value for each of them.
AllClusterNodes == ClusterNodes(hs)

\* The nodes of a history that count for cn.
NodesNamed(h, cn) == {node \in h.nodes : ClusterNode(h, node) = cn}

FaultyNodeHsCount(histories, cn) == 1

\* The number of histories cn is in.
NodeHsCount(histories, cn) == Cardinality({h \in histories : NodesNamed(h, cn) # {}})

Highest(histories, cn, field) ==
    Max(UNION {{node[field] : node \in NodesNamed(h, cn)} : h \in histories})

SumOf(histories, cn, field) ==
    SumFunction([h \in histories |->
        SumFunction([node \in NodesNamed(h, cn) |-> node[field]])])

\* calculateGPUUsageValues: a node that is silent in an interval is shown with
\* zeros.  The average of GPU use is a quotient, that of memory a whole number.
Values(t) ==
    [cn \in AllClusterNodes |->
        IF cn \in ClusterNodes(Bucket(t))
        THEN [maxGPUUsed       |-> Highest(Bucket(t), cn, "maxGPUUsed"),
              avgGPUUsed       |-> [num |-> SumOf(Bucket(t), cn, "avgGPUUsed"),
                                    den |-> NodeHsCount(Bucket(t), cn)],
              maxGPUMemoryUsed |-> Highest(Bucket(t), cn, "maxGPUMemoryUsed"),
              avgGPUMemoryUsed |-> SumOf(Bucket(t), cn, "avgGPUMemoryUsed")
                                     \div NodeHsCount(Bucket(t), cn)]
        ELSE [maxGPUUsed |-> 0, avgGPUUsed |-> [num |-> 0, den |-> 1],
              maxGPUMemoryUsed |-> 0, avgGPUMemoryUsed |-> 0]]

-----------------------------------------------------------------------------
(* Correctness.                                                            *)

\* No average is shown above its maximum, however many histories an interval
\* has and although nodes of clusters with a common name are taken together.
AverageAtMostMax ==
    Answered => \A t \in Slots, cn \in AllClusterNodes :
        LET v == Values(t)[cn]
        IN  /\ v.avgGPUUsed.num <= v.avgGPUUsed.den * v.maxGPUUsed
            /\ v.avgGPUMemoryUsed <= v.maxGPUMemoryUsed

\* What was reported of cn in the interval from t on.
Reported(t, cn) == UNION {{node \in h.nodes : ClusterNode(h, node) = cn} : h \in Bucket(t)}

\* Every datapoint has a value for each node that is heard of anywhere in the
\* window.  Its maxima are the largest that were reported in its own interval, so
\* that no peak is lost or moved to another; a node that was silent then is shown
\* with zeros.
PeaksShown ==
    Answered => \A t \in Slots : \A h \in hs : \A node \in h.nodes :
        LET cn == ClusterNode(h, node)
            shown == Values(t)[cn]
        IN  /\ cn \in DOMAIN Values(t)
            /\ \A field \in {"maxGPUUsed", "maxGPUMemoryUsed"} :
                 /\ \A n \in Reported(t, cn) : n[field] <= shown[field]
                 /\ shown[field] \in {n[field] : n \in Reported(t, cn)} \cup {0}
            /\ Reported(t, cn) = {} =>
                 shown.avgGPUUsed.num = 0 /\ shown.avgGPUMemoryUsed = 0

\* As long as the clusters a tenant sees have different names, the numbers of a
\* node are its own: the mean over the reports of its cluster, not mixed with
\* those of a node that has the same name in another cluster.
NodesOnTheirOwn ==
    (Answered /\ \A c, d \in DOMAIN names : names[c] = names[d] => c = d) =>
        \A t \in Slots : \A h \in Bucket(t) : \A node \in h.nodes :
            LET reports == UNION {{[at |-> x.at, usage |-> n] : n \in x.nodes} :
                                    x \in {y \in Bucket(t) : y.cluster = h.cluster}}
                own == {r \in reports : r.usage.name = node.name}
                sum == SumFunction([r \in own |-> r.usage.avgGPUUsed])
                shown == Values(t)[ClusterNode(h, node)].avgGPUUsed
            IN  shown.num * Cardinality(own) = sum * shown.den
=============================================================================
