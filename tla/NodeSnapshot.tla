---------------------------- MODULE NodeSnapshot ----------------------------
(***************************************************************************)
(* The cluster snapshot collector (agent/internal/collector/               *)
(* cluster_snapshot.go).  buildSnapshot lists the nodes, then the pods.    *)
(* Both lists come from the manager's cached client: each kind of object   *)
(* has a cache of its own, which follows the cluster at its own pace, so a *)
(* snapshot joins two states of the cluster from two different moments.    *)
(* The cluster, its scheduler and the caches are external.                 *)
(***************************************************************************)
EXTENDS Naturals, Sequences, FiniteSetsExt

CONSTANTS
    Nodes,         \* names a node of the cluster may have
    Pods,
    Limits,        \* the nvidia.com/gpu limits of each pod's containers
    NoLimit,       \* a container without that limit
    NodeStates,    \* what may be known of a node
    NoLabel,       \* a label that is not set
    BadLabel,      \* a memory label that is no number
    Unknown,       \* the product of a node without a product label
    MiB,           \* bytes of the unit of the memory label
    MaxChanges     \* bound on the changes of the cluster

\* What is assumed of the constants; the instantiating module states it.
SnapshotAssumption ==
    /\ Limits \in [Pods -> Seq(Nat \cup {NoLimit})]
    /\ \A s \in NodeStates :
         /\ s.selected \in BOOLEAN   \* has the labels of targetNodeSelector
         /\ s.capacity \in Nat
         /\ s.memory \in Nat \cup {NoLabel, BadLabel}
    /\ NoLimit \notin Nat
    /\ MaxChanges \in Nat

VARIABLES
    nodes,       \* the nodes of the cluster, by name
    pods,        \* its pods
    nodeCache,   \* the nodes and the pods the agent knows of
    podCache,
    pc,          \* what the collector lists next
    listed,      \* nodesByName
    snapshot,    \* the last snapshot that was handed to the sender
    largest,     \* auxiliary: the largest capacity each node has had
    changes      \* the number of changes so far

cluster == <<nodes, pods, largest, changes>>
caches  == <<nodeCache, podCache>>
local   == <<pc, listed, snapshot>>
vars    == <<cluster, caches, local>>

Phases == {"Pending", "Running", "Succeeded"}
Bound  == [node : Nodes, phase : Phases]

-----------------------------------------------------------------------------
(* buildSnapshot.                                                          *)

\* Containers without the limit request none.
RequestedGPUs(p) ==
    SumFunctionOnSet(Limits[p], {i \in DOMAIN Limits[p] : Limits[p][i] # NoLimit})

\* The nodes List returns for the selector.
Selected(known) == {n \in DOMAIN known : known[n].selected}

\* Definitions named Faulty... are mistakes the code could have made; no
\* behaviour of this specification uses them.
FaultyEntryOf(s) ==
    [gpuCapacity    |-> s.capacity,
     memoryCapacity |-> IF s.memory = NoLabel THEN 0 ELSE s.memory * MiB,
     product        |-> s.product]

EntryOf(s) ==
    [gpuCapacity    |-> s.capacity,
     memoryCapacity |-> IF s.memory = NoLabel THEN 0 ELSE s.memory * MiB,
     product        |-> IF s.product = NoLabel THEN Unknown ELSE s.product]

FaultyCounted(known, n) ==
    {p \in DOMAIN known : known[p].node = n /\ RequestedGPUs(p) # 0}

\* The pods that occupy GPUs of node n.
Counted(known, n) ==
    {p \in DOMAIN known :
        known[p].phase = "Running" /\ known[p].node = n /\ RequestedGPUs(p) # 0}

\* Pods are counted for the nodes listed before; those of other nodes are not.
Snapshot(entries, known) ==
    [n \in DOMAIN entries |->
        [gpuCapacity    |-> entries[n].gpuCapacity,
         memoryCapacity |-> entries[n].memoryCapacity,
         product        |-> entries[n].product,
         gpuOccupancy   |-> SumFunction([p \in Counted(known, n) |-> RequestedGPUs(p)]),
         podCount       |-> Cardinality(Counted(known, n))]]

\* One selected node whose memory label is no number fails the snapshot.
Unparsable(known) == \E n \in Selected(known) : known[n].memory = BadLabel

ListNodes ==
    /\ pc = "nodes"
    /\ ~Unparsable(nodeCache)
    /\ listed' = [n \in Selected(nodeCache) |-> EntryOf(nodeCache[n])]
    /\ pc' = "pods"
    /\ UNCHANGED <<cluster, caches, snapshot>>

ParseFails ==
    /\ pc = "nodes"
    /\ Unparsable(nodeCache)
    /\ pc' = "failed"
    /\ UNCHANGED <<cluster, caches, listed, snapshot>>

FaultyListPods ==
    /\ pc = "pods"
    /\ snapshot' = Snapshot([n \in {m \in DOMAIN listed :
                                      Counted(podCache, m) # {}} |-> listed[n]],
                            podCache)
    /\ pc' = "nodes"
    /\ listed' = << >>
    /\ UNCHANGED <<cluster, caches>>

\* The snapshot is complete and handed over; the next round begins.
ListPods ==
    /\ pc = "pods"
    /\ snapshot' = Snapshot(listed, podCache)
    /\ pc' = "nodes"
    /\ listed' = << >>
    /\ UNCHANGED <<cluster, caches>>

ListFails ==
    /\ pc \in {"nodes", "pods"}
    /\ pc' = "failed"
    /\ UNCHANGED <<cluster, caches, listed, snapshot>>

-----------------------------------------------------------------------------
(* The cluster and the agent's caches.                                     *)

\* An error ends the process (see Agent); the next one fills its caches anew.
Restart ==
    /\ pc = "failed"
    /\ pc' = "nodes"
    /\ listed' = << >>
    /\ nodeCache' = nodes
    /\ podCache' = pods
    /\ UNCHANGED <<cluster, snapshot>>

\* A cache holds a state the cluster was in, and does not go back.
SyncNodes ==
    /\ nodeCache' = nodes
    /\ UNCHANGED <<cluster, podCache, local>>
SyncPods ==
    /\ podCache' = pods
    /\ UNCHANGED <<cluster, nodeCache, local>>

Alter ==
    /\ changes < MaxChanges
    /\ changes' = changes + 1
    /\ UNCHANGED <<caches, local>>

\* The GPUs of n that are promised to pods, whether these run already or not,
\* and whether the node is there or its pods are left over from before.
Promised(n) ==
    SumFunction([p \in {q \in DOMAIN pods : pods[q].node = n /\ pods[q].phase # "Succeeded"} |->
                    RequestedGPUs(p)])

\* A node joins, is relabelled or resized.
SetNode(n, s) ==
    /\ Alter
    /\ Promised(n) <= s.capacity
    /\ nodes' = [m \in DOMAIN nodes \cup {n} |-> IF m = n THEN s ELSE nodes[m]]
    /\ largest' = [largest EXCEPT ![n] = Max({@, s.capacity})]
    /\ UNCHANGED pods

\* A node leaves; its pods are cleaned up later.
RemoveNode(n) ==
    /\ Alter
    /\ n \in DOMAIN nodes
    /\ nodes' = [m \in DOMAIN nodes \ {n} |-> nodes[m]]
    /\ UNCHANGED <<pods, largest>>

\* The scheduler binds a pod to a node with enough GPUs left; it may be running
\* before anybody has seen it pending.
Bind(p, n, phase) ==
    /\ Alter
    /\ p \notin DOMAIN pods
    /\ n \in DOMAIN nodes
    /\ Promised(n) + RequestedGPUs(p) <= nodes[n].capacity
    /\ phase # "Succeeded"
    /\ pods' = [q \in DOMAIN pods \cup {p} |->
                  IF q = p THEN [node |-> n, phase |-> phase] ELSE pods[q]]
    /\ UNCHANGED <<nodes, largest>>

Advance(p) ==
    /\ Alter
    /\ p \in DOMAIN pods
    /\ \/ pods[p].phase = "Pending" /\ pods' = [pods EXCEPT ![p].phase = "Running"]
       \/ pods[p].phase = "Running" /\ pods' = [pods EXCEPT ![p].phase = "Succeeded"]
    /\ UNCHANGED <<nodes, largest>>

DeletePod(p) ==
    /\ Alter
    /\ p \in DOMAIN pods
    /\ pods' = [q \in DOMAIN pods \ {p} |-> pods[q]]
    /\ UNCHANGED <<nodes, largest>>

Init ==
    /\ nodes = << >> /\ pods = << >> /\ changes = 0
    /\ nodeCache = << >> /\ podCache = << >>
    /\ pc = "nodes" /\ listed = << >> /\ snapshot = << >>
    /\ largest = [n \in Nodes |-> 0]

Collector == ListNodes \/ ParseFails \/ ListPods \/ ListFails \/ Restart

Environment ==
    \/ SyncNodes \/ SyncPods
    \/ \E n \in Nodes : RemoveNode(n) \/ \E s \in NodeStates : SetNode(n, s)
    \/ \E p \in Pods :
         Advance(p) \/ DeletePod(p)
         \/ \E n \in Nodes, phase \in Phases : Bind(p, n, phase)

Next == Collector \/ Environment

Spec == Init /\ [][Next]_vars

-----------------------------------------------------------------------------
(* Correctness.                                                            *)

TypeOK ==
    /\ DOMAIN nodes \cup DOMAIN nodeCache \cup DOMAIN listed \subseteq Nodes
    /\ \A known \in {nodes, nodeCache} : \A n \in DOMAIN known : known[n] \in NodeStates
    /\ \A known \in {pods, podCache} :
         DOMAIN known \subseteq Pods /\ \A p \in DOMAIN known : known[p] \in Bound
    /\ pc \in {"nodes", "pods", "failed"}
    /\ \A n \in DOMAIN snapshot :
         /\ snapshot[n].memoryCapacity \in Nat
         /\ snapshot[n].product \in
              ({s.product : s \in NodeStates} \ {NoLabel}) \cup {Unknown}
         /\ snapshot[n].podCount <= snapshot[n].gpuOccupancy
    /\ largest \in [Nodes -> Nat]
    /\ changes \in 0..MaxChanges

\* A node is never shown with more GPUs occupied than it has had, although its
\* capacity and its pods are read at different moments, pods come and go in
\* between, and pods that have finished have given their GPUs to others.
OccupancyFits ==
    \A n \in DOMAIN snapshot : snapshot[n].gpuOccupancy <= largest[n]

\* The snapshot is what an observer who sees the whole cluster at once reports.
Exact ==
    /\ ~Unparsable(nodes)
    /\ snapshot = Snapshot([n \in {m \in DOMAIN nodes : nodes[m].selected} |->
                              EntryOf(nodes[n])], pods)

-----------------------------------------------------------------------------
(* Liveness.  The caches catch up, the collector goes on at its next tick,  *)
(* and a process that ended is started again.                              *)

Fairness ==
    /\ WF_vars(SyncNodes) /\ WF_vars(SyncPods)
    /\ WF_vars(ListNodes) /\ WF_vars(ListPods)
    /\ WF_vars(ParseFails) /\ WF_vars(Restart)

FairSpec == Spec /\ Fairness

\* Once the cluster and the API server are quiet, the snapshots become exact,
\* whatever the caches missed meanwhile and however the last rounds failed; only
\* a memory label that is no number, on a node the selector matches, keeps a
\* cluster from being reported.
QuietClusterIsExact ==
    (<>[][UNCHANGED cluster /\ (ListFails => ParseFails)]_vars /\ <>[]~Unparsable(nodes))
        => <>[]Exact
=============================================================================
