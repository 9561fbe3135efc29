-------------------------- MODULE CollectorsProofs --------------------------
(***************************************************************************)
(* What the agent reports, for every cluster and however it changes while  *)
(* the collectors look at it.                                              *)
(***************************************************************************)
EXTENDS Collectors, SetSums, TLAPS

-----------------------------------------------------------------------------
(* The GPUs of pods.                                                       *)

\* An instance has the operators of the community modules under names of its
\* own; they are those that SetSums speaks about.
LEMMA NOperators ==
    /\ \A T : N!Cardinality(T) = Cardinality(T)
    /\ \A T : N!Max(T) = Max(T)
    /\ \A f, T : N!SumFunctionOnSet(f, T) = SumFunctionOnSet(f, T)
    /\ \A f : N!SumFunction(f) = SumFunctionOnSet(f, DOMAIN f)
  <1>1. \A T : N!Cardinality(T) = Cardinality(T)
    BY DEF N!Cardinality, Cardinality
  <1>2. \A T : N!Max(T) = Max(T)
    BY DEF N!Max, Max
  <1>3. \A f, T : N!SumFunctionOnSet(f, T) = SumFunctionOnSet(f, T)
    BY DEF N!SumFunctionOnSet, N!FoldFunctionOnSet, N!MapThenFoldSet,
           SumFunctionOnSet, FoldFunctionOnSet, MapThenFoldSet
  <1> QED
    BY <1>1, <1>2, <1>3 DEF N!SumFunction

Requested == [p \in Pods |-> N!RequestedGPUs(p)]

GPUsOf(S) == SumFunctionOnSet(Requested, S)

LEMMA RequestedIsNatural == \A p \in Pods : Requested[p] \in Nat
  <1> SUFFICES ASSUME NEW p \in Pods
               PROVE  N!RequestedGPUs(p) \in Nat
    BY DEF Requested
  <1> DEFINE I == {i \in DOMAIN Limits[p] : Limits[p][i] # NoLimit}
  <1>1. Limits[p] \in Seq(Nat \cup {NoLimit})
    BY CollectorsAssumption DEF N!SnapshotAssumption
  <1>2. I \subseteq 1..Len(Limits[p]) /\ \A i \in I : Limits[p][i] \in Nat
    BY <1>1
  <1>3. IsFiniteSet(I)
    <2>1. Len(Limits[p]) \in Nat
      BY <1>1
    <2>2. IsFiniteSet(1..Len(Limits[p]))
      BY <2>1, FS_Interval
    <2> HIDE DEF I
    <2> QED
      BY <1>2, <2>2, FS_Subset
  <1>4. N!RequestedGPUs(p) = SumFunctionOnSet(Limits[p], I)
    BY NOperators DEF N!RequestedGPUs
  <1> HIDE DEF I
  <1> QED
    BY <1>2, <1>3, <1>4, SumType

LEMMA GPUsOfSubset ==
    ASSUME NEW S \in SUBSET Pods, IsFiniteSet(S), NEW T \in SUBSET S
    PROVE  /\ IsFiniteSet(T)
           /\ GPUsOf(T) \in Nat /\ GPUsOf(S) \in Nat /\ GPUsOf(T) <= GPUsOf(S)
  <1>1. IsFiniteSet(T)
    BY FS_Subset
  <1>2. \A p \in S : Requested[p] \in Nat
    BY RequestedIsNatural
  <1> QED
    BY <1>1, <1>2, SumType, SumSubset DEF GPUsOf

LEMMA GPUsOfOneMore ==
    ASSUME NEW S \in SUBSET Pods, IsFiniteSet(S), NEW p \in Pods \ S
    PROVE  GPUsOf(S \cup {p}) = GPUsOf(S) + N!RequestedGPUs(p)
  <1>1. \A q \in S \cup {p} : Requested[q] \in Nat
    BY RequestedIsNatural
  <1>2. SumFunctionOnSet(Requested, S \cup {p}) =
          Requested[p] + SumFunctionOnSet(Requested, S)
    BY <1>1, SumAdd
  <1>3. SumFunctionOnSet(Requested, S) \in Nat /\ Requested[p] \in Nat
    BY <1>1, SumType
  <1>4. Requested[p] = N!RequestedGPUs(p)
    BY DEF Requested
  <1> QED
    BY <1>2, <1>3, <1>4 DEF GPUsOf

\* The pods that a state of the cluster, now or in a cache, has promised GPUs of n.
Holding(known, n) ==
    {p \in DOMAIN known : known[p].node = n /\ known[p].phase # "Succeeded"}

Held(known, n) == GPUsOf(Holding(known, n))

KnownPods(known) ==
    /\ DOMAIN known \subseteq Pods /\ IsFiniteSet(DOMAIN known)
    /\ \A p \in DOMAIN known : known[p] \in N!Bound

LEMMA HeldType ==
    ASSUME NEW known, KnownPods(known), NEW n
    PROVE  /\ Holding(known, n) \in SUBSET Pods
           /\ IsFiniteSet(Holding(known, n))
           /\ Held(known, n) \in Nat
  <1>1. Holding(known, n) \subseteq DOMAIN known
    BY DEF Holding
  <1>2. IsFiniteSet(Holding(known, n)) /\ Holding(known, n) \in SUBSET Pods
    BY <1>1, FS_Subset DEF KnownPods
  <1>3. GPUsOf(Holding(known, n)) \in Nat
    BY <1>2, GPUsOfSubset
  <1> QED
    BY <1>2, <1>3 DEF Held

LEMMA PromisedIsHeld ==
    ASSUME KnownPods(pods), NEW n
    PROVE  N!Promised(n) = Held(pods, n)
  <1> DEFINE S == Holding(pods, n)
             f == [p \in S |-> N!RequestedGPUs(p)]
  <1>1. N!Promised(n) = SumFunctionOnSet(f, S)
    BY NOperators DEF N!Promised, Holding
  <1>2. \A p \in S : f[p] \in Nat /\ f[p] = Requested[p]
    BY RequestedIsNatural DEF Holding, KnownPods, Requested
  <1>3. IsFiniteSet(S)
    BY HeldType
  <1> HIDE DEF f, S
  <1>4. SumFunctionOnSet(f, S) = SumFunctionOnSet(Requested, S)
    BY <1>2, <1>3, SumSame
  <1> QED
    BY <1>1, <1>4 DEF Held, GPUsOf, S

\* What a snapshot shows of a node: the pods it counts hold GPUs there, and each
\* of them at least one.
LEMMA OccupancyIs ==
    ASSUME NEW entries, NEW known, KnownPods(known), NEW n \in DOMAIN entries
    PROVE  LET s == N!Snapshot(entries, known)[n]
           IN  /\ s.gpuOccupancy \in Nat
               /\ s.podCount \in Nat
               /\ s.podCount <= s.gpuOccupancy
               /\ s.gpuOccupancy <= Held(known, n)
               /\ s.memoryCapacity = entries[n].memoryCapacity
               /\ s.product = entries[n].product
  <1> DEFINE S == N!Counted(known, n)
             f == [p \in S |-> N!RequestedGPUs(p)]
             s == N!Snapshot(entries, known)[n]
  <1>1. /\ s.gpuOccupancy = SumFunctionOnSet(f, S)
        /\ s.podCount = Cardinality(S)
        /\ s.memoryCapacity = entries[n].memoryCapacity
        /\ s.product = entries[n].product
    BY NOperators DEF N!Snapshot
  <1>2. S \subseteq Holding(known, n)
    BY DEF N!Counted, Holding
  <1>3. \A p \in S : f[p] \in Nat /\ f[p] = Requested[p] /\ f[p] >= 1
    BY RequestedIsNatural DEF N!Counted, KnownPods, Requested
  <1> HIDE DEF f, S, s
  <1>4. IsFiniteSet(S) /\ GPUsOf(S) \in Nat /\ GPUsOf(S) <= Held(known, n)
    BY <1>2, HeldType, GPUsOfSubset DEF Held
  <1>5. SumFunctionOnSet(f, S) = GPUsOf(S)
    BY <1>3, <1>4, SumSame DEF GPUsOf
  <1>6. Cardinality(S) \in Nat /\ Cardinality(S) <= SumFunctionOnSet(f, S)
    <2>1. \A p \in S : f[p] \in Nat /\ 1 <= f[p]
      BY <1>3
    <2>2. Cardinality(S) * 1 <= SumFunctionOnSet(f, S)
      BY <1>4, <2>1, SumAtLeast
    <2> QED
      BY <1>4, <2>2, FS_CardinalityType
  <1> QED
    BY <1>1, <1>4, <1>5, <1>6 DEF s

-----------------------------------------------------------------------------
(* The invariant of the snapshot collector.                                *)

Products == ({s.product : s \in NodeStates} \ {NoLabel}) \cup {Unknown}

\* What the cluster, the caches and the collector hold.
NTypes ==
    /\ DOMAIN nodes \cup DOMAIN nodeCache \cup DOMAIN listed \subseteq Nodes
    /\ \A known \in {nodes, nodeCache} : \A n \in DOMAIN known : known[n] \in NodeStates
    /\ KnownPods(pods) /\ KnownPods(podCache)
    /\ npc \in {"nodes", "pods", "failed"}
    /\ \A n \in DOMAIN listed : listed[n].memoryCapacity \in Nat
                                /\ listed[n].product \in Products
    /\ largest \in [Nodes -> Nat]
    /\ changes \in 0..MaxChanges

\* The scheduler and the caches: no node ever had more GPUs promised to pods, nor
\* has it in a cached state, than its largest capacity.
Fits ==
    /\ \A n \in DOMAIN nodes : nodes[n].capacity <= largest[n]
    /\ \A n \in Nodes : Held(pods, n) <= largest[n] /\ Held(podCache, n) <= largest[n]

Shown ==
    \A n \in DOMAIN snapshot :
        /\ n \in Nodes
        /\ snapshot[n].memoryCapacity \in Nat
        /\ snapshot[n].product \in Products
        /\ snapshot[n].podCount <= snapshot[n].gpuOccupancy
        /\ snapshot[n].gpuOccupancy \in Nat
        /\ snapshot[n].gpuOccupancy <= largest[n]

NInv == NTypes /\ Fits /\ Shown

LEMMA NothingHeld ==
    ASSUME NEW n
    PROVE  KnownPods(<< >>) /\ Held(<< >>, n) = 0
  <1>1. DOMAIN << >> = {}
    OBVIOUS
  <1>2. Holding(<< >>, n) = {}
    BY <1>1 DEF Holding
  <1> QED
    BY <1>1, <1>2, FS_EmptySet, SumEmpty DEF KnownPods, Held, GPUsOf

LEMMA NInit == ASSUME N!Init PROVE NInv
  <1>1. DOMAIN << >> = {}
    OBVIOUS
  <1>2. /\ nodes = << >> /\ pods = << >> /\ changes = 0
        /\ nodeCache = << >> /\ podCache = << >>
        /\ npc = "nodes" /\ listed = << >> /\ snapshot = << >>
        /\ largest = [n \in Nodes |-> 0]
    BY DEF N!Init
  <1>3. NTypes
    BY <1>1, <1>2, NothingHeld, CollectorsAssumption DEF NTypes, N!SnapshotAssumption
  <1>4. Fits
    BY <1>1, <1>2, NothingHeld DEF Fits
  <1>5. Shown
    BY <1>1, <1>2 DEF Shown
  <1> QED
    BY <1>3, <1>4, <1>5 DEF NInv

\* The steps of the collector and of its caches.
LEMMA CollectorKeeps == ASSUME NInv, N!Collector PROVE NInv'
  <1> USE DEF NInv
  <1>1. CASE N!ListNodes
    <2>1. /\ UNCHANGED <<nodes, pods, largest, changes, nodeCache, podCache, snapshot>>
          /\ npc' = "pods"
          /\ listed' = [n \in N!Selected(nodeCache) |-> N!EntryOf(nodeCache[n])]
          /\ ~N!Unparsable(nodeCache)
      BY <1>1 DEF N!ListNodes, N!cluster, N!caches
    <2>2. N!Selected(nodeCache) \subseteq DOMAIN nodeCache
      BY DEF N!Selected
    <2>3. \A n \in N!Selected(nodeCache) :
            /\ nodeCache[n] \in NodeStates
            /\ nodeCache[n].memory \in Nat \cup {NoLabel}
      <3>1. \A n \in N!Selected(nodeCache) : nodeCache[n] \in NodeStates
        BY <2>2 DEF NTypes
      <3>2. \A n \in N!Selected(nodeCache) : nodeCache[n].memory # BadLabel
        BY <2>1 DEF N!Unparsable
      <3> QED
        BY <3>1, <3>2, CollectorsAssumption DEF N!SnapshotAssumption
    <2>4. MiB \in Nat
      BY CollectorsAssumption DEF G!TelemetryAssumption
    <2>5. \A n \in N!Selected(nodeCache) :
            /\ N!EntryOf(nodeCache[n]).memoryCapacity \in Nat
            /\ N!EntryOf(nodeCache[n]).product \in Products
      BY <2>3, <2>4 DEF N!EntryOf, Products
    <2>6. /\ DOMAIN listed' \subseteq Nodes
          /\ \A n \in DOMAIN listed' : /\ listed'[n].memoryCapacity \in Nat
                                       /\ listed'[n].product \in Products
      BY <2>1, <2>2, <2>5 DEF NTypes
    <2>7. NTypes'
      BY <2>1, <2>6 DEF NTypes
    <2> QED
      BY <2>1, <2>7 DEF Fits, Shown
  <1>2. CASE N!ListPods
    <2>1. /\ UNCHANGED <<nodes, pods, largest, changes, nodeCache, podCache>>
          /\ npc' = "nodes" /\ listed' = << >>
          /\ snapshot' = N!Snapshot(listed, podCache)
      BY <1>2 DEF N!ListPods, N!cluster, N!caches
    <2>2. NTypes'
      BY <2>1 DEF NTypes
    <2>3. \A n \in DOMAIN snapshot' : n \in DOMAIN listed
      BY <2>1 DEF N!Snapshot
    <2>4. \A n \in DOMAIN listed :
            /\ snapshot'[n].memoryCapacity \in Nat
            /\ snapshot'[n].product \in Products
            /\ snapshot'[n].podCount <= snapshot'[n].gpuOccupancy
            /\ snapshot'[n].gpuOccupancy \in Nat
            /\ snapshot'[n].gpuOccupancy <= largest[n]
      <3> SUFFICES ASSUME NEW n \in DOMAIN listed
                   PROVE  /\ snapshot'[n].memoryCapacity \in Nat
                          /\ snapshot'[n].product \in Products
                          /\ snapshot'[n].podCount <= snapshot'[n].gpuOccupancy
                          /\ snapshot'[n].gpuOccupancy \in Nat
                          /\ snapshot'[n].gpuOccupancy <= largest[n]
        OBVIOUS
      <3>1. /\ snapshot'[n].gpuOccupancy \in Nat
            /\ snapshot'[n].podCount <= snapshot'[n].gpuOccupancy
            /\ snapshot'[n].gpuOccupancy <= Held(podCache, n)
            /\ snapshot'[n].memoryCapacity = listed[n].memoryCapacity
            /\ snapshot'[n].product = listed[n].product
        BY <2>1, OccupancyIs DEF NTypes
      <3>2. n \in Nodes /\ Held(podCache, n) \in Nat /\ largest[n] \in Nat
            /\ Held(podCache, n) <= largest[n]
        BY HeldType DEF NTypes, Fits
      <3> QED
        BY <3>1, <3>2 DEF NTypes
    <2>5. Shown'
      BY <2>1, <2>3, <2>4 DEF Shown, NTypes
    <2> QED
      BY <2>1, <2>2, <2>5 DEF Fits
  <1>3. CASE N!ParseFails \/ N!ListFails
    BY <1>3 DEF N!ParseFails, N!ListFails, N!cluster, N!caches, NTypes, Fits, Shown
  <1>4. CASE N!Restart
    <2>1. /\ UNCHANGED <<nodes, pods, largest, changes, snapshot>>
          /\ npc' = "nodes" /\ listed' = << >>
          /\ nodeCache' = nodes /\ podCache' = pods
      BY <1>4 DEF N!Restart, N!cluster
    <2> QED
      BY <2>1 DEF NTypes, Fits, Shown
  <1> QED
    BY <1>1, <1>2, <1>3, <1>4 DEF N!Collector

\* Capacities only ever raise the largest one.
LEMMA KeptByChange ==
    ASSUME NInv, N!Alter,
           DOMAIN nodes' \subseteq Nodes,
           \A n \in DOMAIN nodes' : nodes'[n] \in NodeStates
                                    /\ nodes'[n].capacity <= largest'[n],
           KnownPods(pods'),
           largest' \in [Nodes -> Nat],
           \A n \in Nodes : largest[n] <= largest'[n] /\ Held(pods', n) <= largest'[n]
    PROVE  NInv'
  <1>1. UNCHANGED <<nodeCache, podCache, npc, listed, snapshot>>
        /\ changes' \in 0..MaxChanges
    BY CollectorsAssumption
    DEF N!Alter, N!caches, N!local, NInv, NTypes, N!SnapshotAssumption
  <1>2. NTypes'
    BY <1>1 DEF NInv, NTypes
  <1>3. \A n \in Nodes : largest[n] \in Nat /\ largest'[n] \in Nat
                         /\ Held(podCache, n) \in Nat
    BY HeldType DEF NInv, NTypes
  <1>4. Fits'
    BY <1>1, <1>3 DEF NInv, Fits
  <1>5. Shown'
    BY <1>1, <1>3 DEF NInv, Shown
  <1> QED
    BY <1>2, <1>4, <1>5 DEF NInv

\* What is known of the pods once some have left or have gone on.
LEMMA FewerHeld ==
    ASSUME NEW known, KnownPods(known), NEW later, KnownPods(later), NEW n,
           Holding(later, n) \subseteq Holding(known, n)
    PROVE  Held(later, n) <= Held(known, n)
  BY HeldType, GPUsOfSubset DEF Held

LEMMA EnvironmentKeeps == ASSUME NInv, N!Environment PROVE NInv'
  <1>a. /\ NTypes /\ Fits /\ KnownPods(pods)
        /\ \A n \in Nodes : largest[n] \in Nat /\ Held(pods, n) \in Nat
                            /\ Held(pods, n) <= largest[n]
    BY HeldType DEF NInv, NTypes, Fits
  <1>b. \A s \in NodeStates : s.capacity \in Nat
    BY CollectorsAssumption DEF N!SnapshotAssumption
  <1>1. CASE N!SyncNodes
    BY <1>1 DEF N!SyncNodes, N!cluster, N!local, NInv, NTypes, Fits, Shown
  <1>2. CASE N!SyncPods
    BY <1>2 DEF N!SyncPods, N!cluster, N!local, NInv, NTypes, Fits, Shown
  <1>3. ASSUME NEW n \in Nodes, N!RemoveNode(n)
        PROVE  NInv'
    <2>1. /\ N!Alter /\ UNCHANGED <<pods, largest>>
          /\ nodes' = [m \in DOMAIN nodes \ {n} |-> nodes[m]]
      BY <1>3 DEF N!RemoveNode
    <2>2. /\ DOMAIN nodes' \subseteq Nodes
          /\ \A m \in DOMAIN nodes' : nodes'[m] \in NodeStates
                                      /\ nodes'[m].capacity <= largest'[m]
      BY <1>a, <2>1 DEF NTypes, Fits
    <2> QED
      BY <1>a, <2>1, <2>2, KeptByChange DEF NTypes
  <1>4. ASSUME NEW n \in Nodes, NEW s \in NodeStates, N!SetNode(n, s)
        PROVE  NInv'
    <2>1. /\ N!Alter /\ UNCHANGED pods
          /\ nodes' = [m \in DOMAIN nodes \cup {n} |-> IF m = n THEN s ELSE nodes[m]]
          /\ largest' = [largest EXCEPT ![n] = Max({largest[n], s.capacity})]
      BY <1>4, NOperators DEF N!SetNode
    <2> DEFINE m == Max({largest[n], s.capacity})
    <2>2. m \in Nat /\ largest[n] <= m /\ s.capacity <= m
      <3>1. largest[n] \in Nat /\ s.capacity \in Nat
        BY <1>a, <1>b
      <3>2. IsFiniteSet({largest[n], s.capacity})
        <4>1. IsFiniteSet({largest[n]} \cup {s.capacity})
          BY FS_Singleton, FS_AddElement
        <4>2. {largest[n]} \cup {s.capacity} = {largest[n], s.capacity}
          OBVIOUS
        <4> QED
          BY <4>1, <4>2
      <3>3. /\ m \in {largest[n], s.capacity}
            /\ \A y \in {largest[n], s.capacity} : y <= m
        BY <3>1, <3>2, MaxIs
      <3> HIDE DEF m
      <3> QED
        BY <3>1, <3>3
    <2>m. largest' = [largest EXCEPT ![n] = m]
      BY <2>1
    <2> HIDE DEF m
    <2>3. /\ largest' \in [Nodes -> Nat] /\ largest'[n] = m
          /\ \A x \in Nodes : largest[x] <= largest'[x]
      <3>1. largest \in [Nodes -> Nat]
        BY <1>a DEF NTypes
      <3>2. \A x \in Nodes : largest'[x] = IF x = n THEN m ELSE largest[x]
        BY <2>m, <3>1
      <3> QED
        BY <2>2, <2>m, <3>1, <3>2
    <2>4. /\ DOMAIN nodes' \subseteq Nodes
          /\ \A x \in DOMAIN nodes' : nodes'[x] \in NodeStates
                                      /\ nodes'[x].capacity <= largest'[x]
      <3>1. \A x \in DOMAIN nodes : /\ x \in Nodes /\ nodes[x] \in NodeStates
                                    /\ nodes[x].capacity <= largest[x]
        BY <1>a DEF NTypes, Fits
      <3>2. \A x \in Nodes : largest'[x] \in Nat
        BY <2>3
      <3> QED
        BY <1>a, <1>b, <2>1, <2>2, <2>3, <3>1, <3>2
    <2>5. \A x \in Nodes : Held(pods', x) <= largest'[x]
      BY <1>a, <2>1, <2>3
    <2> QED
      BY <1>a, <2>1, <2>3, <2>4, <2>5, KeptByChange
  <1>5. ASSUME N!Alter, UNCHANGED <<nodes, largest>>, KnownPods(pods'),
               \A n \in Nodes : Held(pods', n) <= largest[n]
        PROVE  NInv'
    <2>1. /\ DOMAIN nodes' \subseteq Nodes
          /\ \A m \in DOMAIN nodes' : nodes'[m] \in NodeStates
                                      /\ nodes'[m].capacity <= largest'[m]
      BY <1>a, <1>5 DEF NTypes, Fits
    <2> QED
      BY <1>a, <1>5, <2>1, KeptByChange DEF NTypes
  <1>6. ASSUME N!Alter, UNCHANGED <<nodes, largest>>, KnownPods(pods'),
               \A n \in Nodes : Holding(pods', n) \subseteq Holding(pods, n)
        PROVE  NInv'
    <2>1. \A n \in Nodes : Held(pods', n) <= Held(pods, n) /\ Held(pods', n) \in Nat
      BY <1>a, <1>6, FewerHeld, HeldType
    <2> QED
      BY <1>a, <1>5, <1>6, <2>1
  <1>7. ASSUME NEW p \in Pods, N!Advance(p)
        PROVE  NInv'
    <2>1. /\ N!Alter /\ UNCHANGED <<nodes, largest>> /\ p \in DOMAIN pods
          /\ \/ pods[p].phase = "Pending" /\ pods' = [pods EXCEPT ![p].phase = "Running"]
             \/ pods[p].phase = "Running" /\ pods' = [pods EXCEPT ![p].phase = "Succeeded"]
      BY <1>7 DEF N!Advance
    <2>2. /\ DOMAIN pods' = DOMAIN pods
          /\ \A q \in DOMAIN pods : q # p => pods'[q] = pods[q]
          /\ pods'[p] \in N!Bound /\ pods'[p].node = pods[p].node
          /\ pods[p].phase # "Succeeded"
      <3>1. pods[p] \in [node : Nodes, phase : N!Phases]
        BY <1>a, <2>1 DEF KnownPods, N!Bound
      <3> QED
        BY <2>1, <3>1 DEF N!Bound, N!Phases
    <2>3. KnownPods(pods')
      BY <1>a, <2>2 DEF KnownPods
    <2>4. \A n \in Nodes : Holding(pods', n) \subseteq Holding(pods, n)
      BY <2>1, <2>2 DEF Holding
    <2> QED
      BY <1>6, <2>1, <2>3, <2>4
  <1>8. ASSUME NEW p \in Pods, N!DeletePod(p)
        PROVE  NInv'
    <2>1. /\ N!Alter /\ UNCHANGED <<nodes, largest>>
          /\ pods' = [q \in DOMAIN pods \ {p} |-> pods[q]]
      BY <1>8 DEF N!DeletePod
    <2>2. KnownPods(pods')
      BY <1>a, <2>1, FS_RemoveElement DEF KnownPods
    <2>3. \A n \in Nodes : Holding(pods', n) \subseteq Holding(pods, n)
      BY <2>1 DEF Holding
    <2> QED
      BY <1>6, <2>1, <2>2, <2>3
  <1>9. ASSUME NEW p \in Pods, NEW n \in Nodes, NEW phase \in N!Phases,
               N!Bind(p, n, phase)
        PROVE  NInv'
    <2>1. /\ N!Alter /\ UNCHANGED <<nodes, largest>>
          /\ p \notin DOMAIN pods /\ n \in DOMAIN nodes /\ phase # "Succeeded"
          /\ N!Promised(n) + N!RequestedGPUs(p) <= nodes[n].capacity
          /\ pods' = [q \in DOMAIN pods \cup {p} |->
                        IF q = p THEN [node |-> n, phase |-> phase] ELSE pods[q]]
      BY <1>9 DEF N!Bind
    <2>2. KnownPods(pods')
      <3>1. IsFiniteSet(DOMAIN pods \cup {p})
        BY <1>a, FS_AddElement DEF KnownPods
      <3> QED
        BY <1>a, <2>1, <3>1 DEF KnownPods, N!Bound
    <2>3. \A m \in Nodes : Holding(pods', m) =
            IF m = n THEN Holding(pods, m) \cup {p} ELSE Holding(pods, m)
      BY <2>1 DEF Holding
    <2>4. /\ Holding(pods, n) \in SUBSET Pods /\ IsFiniteSet(Holding(pods, n))
          /\ p \in Pods \ Holding(pods, n)
      BY <1>a, <2>1, HeldType DEF Holding
    <2>5. Held(pods', n) = Held(pods, n) + N!RequestedGPUs(p)
      BY <2>3, <2>4, GPUsOfOneMore DEF Held
    <2>6. Held(pods', n) <= largest[n]
      <3>1. N!Promised(n) = Held(pods, n)
        BY <1>a, PromisedIsHeld
      <3>2. nodes[n].capacity \in Nat /\ nodes[n].capacity <= largest[n]
        BY <1>a, <1>b, <2>1 DEF NTypes, Fits
      <3>3. N!RequestedGPUs(p) \in Nat
        BY RequestedIsNatural DEF Requested
      <3> QED
        BY <1>a, <2>1, <2>5, <3>1, <3>2, <3>3
    <2>7. \A m \in Nodes : Held(pods', m) <= largest[m]
      BY <1>a, <2>3, <2>6 DEF Held
    <2> QED
      BY <1>5, <2>1, <2>2, <2>7
  <1> QED
    BY <1>1, <1>2, <1>3, <1>4, <1>7, <1>8, <1>9 DEF N!Environment

LEMMA NStep == NInv /\ [Next]_vars => NInv'
  <1>1. ASSUME NInv, UNCHANGED snapshotVars
        PROVE  NInv'
    BY <1>1 DEF snapshotVars, NInv, NTypes, Fits, Shown
  <1> QED
    BY <1>1, CollectorKeeps, EnvironmentKeeps
    DEF Next, SnapshotRound, GPURound, vars, N!Next

LEMMA NInvariance == Spec => []NInv
  <1>1. Init => NInv
    BY NInit DEF Init
  <1> QED
    BY <1>1, NStep, PTL DEF Spec

\* For every number of nodes and pods: what is reported of a node is well formed,
\* and no more pods are counted on it than GPUs.
THEOREM SnapshotTypeCorrect == Spec => []NodeSnapshotTypeOK
  <1>1. NInv => NodeSnapshotTypeOK
    BY DEF NInv, NTypes, Shown, Products, KnownPods, NodeSnapshotTypeOK, N!TypeOK
  <1> QED
    BY <1>1, NInvariance, PTL

\* No node is shown with more GPUs occupied than it has had, whatever changes
\* between the two lists a snapshot joins.
THEOREM OccupancyIsHeld == Spec => []OccupancyFits
  <1>1. NInv => OccupancyFits
    BY DEF NInv, Shown, OccupancyFits, N!OccupancyFits
  <1> QED
    BY <1>1, NInvariance, PTL

\* The agent knows the cluster as it is; what it has listed of it is not older.
CaughtUp ==
    /\ nodeCache = nodes /\ podCache = pods
    /\ npc = "pods" =>
         /\ ~N!Unparsable(nodes)
         /\ listed = [n \in N!Selected(nodes) |-> N!EntryOf(nodes[n])]

\* While the cluster is quiet: an agent that has caught up stays so, the round it
\* completes makes the report exact, and no later step, of a failed round or of a
\* new process, makes an exact report wrong.
QuietRounds ==
    [][UNCHANGED N!cluster /\ CaughtUp =>
         /\ CaughtUp'
         /\ N!Exact \/ N!ListPods => N!Exact']_vars

LEMMA StaysCaughtUp ==
    ASSUME CaughtUp, UNCHANGED N!cluster, [Next]_vars
    PROVE  CaughtUp'
  <1>1. /\ UNCHANGED <<nodes, pods>>
        /\ (~N!Unparsable(nodes) => ~N!Unparsable(nodes)')
    BY DEF N!cluster, N!Unparsable, N!Selected
  <1>2. CASE UNCHANGED snapshotVars
    BY <1>1, <1>2 DEF snapshotVars, CaughtUp
  <1>3. CASE N!ListNodes
    BY <1>1, <1>3 DEF N!ListNodes, N!caches, CaughtUp
  <1>4. CASE N!ParseFails \/ N!ListPods \/ N!ListFails
    BY <1>1, <1>4 DEF N!ParseFails, N!ListPods, N!ListFails, N!caches, CaughtUp
  <1>5. CASE N!Restart
    BY <1>1, <1>5 DEF N!Restart, CaughtUp
  <1>6. CASE N!SyncNodes \/ N!SyncPods
    BY <1>1, <1>6 DEF N!SyncNodes, N!SyncPods, N!local, CaughtUp
  <1>7. CASE N!Alter
    BY <1>1, <1>7 DEF N!Alter, N!caches, N!local, CaughtUp
  <1>8. N!Environment => N!SyncNodes \/ N!SyncPods \/ N!Alter
    BY DEF N!Environment, N!RemoveNode, N!SetNode, N!Advance, N!DeletePod, N!Bind
  <1> QED
    BY <1>2, <1>3, <1>4, <1>5, <1>6, <1>7, <1>8
    DEF Next, SnapshotRound, GPURound, vars, N!Next, N!Collector

\* The safety that QuietClusterIsExact rests on, for every cluster.
THEOREM QuietRoundsAreExact == Spec => QuietRounds
  <1> DEFINE Quiet == UNCHANGED N!cluster /\ CaughtUp =>
                        /\ CaughtUp'
                        /\ N!Exact \/ N!ListPods => N!Exact'
  <1>1. ASSUME [Next]_vars, UNCHANGED N!cluster, CaughtUp
        PROVE  CaughtUp'
    BY <1>1, StaysCaughtUp
  <1>2. ASSUME N!ListPods, UNCHANGED N!cluster, CaughtUp
        PROVE  N!Exact'
    <2>1. UNCHANGED <<nodes, pods>>
      BY <1>2 DEF N!cluster
    <2>2. snapshot' = N!Snapshot([n \in N!Selected(nodes) |-> N!EntryOf(nodes[n])], pods)
          /\ ~N!Unparsable(nodes)
      BY <1>2 DEF N!ListPods, CaughtUp
    <2>3. snapshot' = N!Snapshot([n \in {m \in DOMAIN nodes : nodes[m].selected} |->
                                    N!EntryOf(nodes[n])], pods)
      BY <2>2 DEF N!Selected
    <2>4. ~N!Unparsable(nodes)'
      BY <2>1, <2>2 DEF N!Unparsable, N!Selected
    <2> QED
      BY <2>1, <2>3, <2>4 DEF N!Exact
  <1>3. ASSUME UNCHANGED <<nodes, pods, snapshot>>, N!Exact
        PROVE  N!Exact'
    BY <1>3 DEF N!Exact, N!Unparsable, N!Selected
  <1>4. ASSUME [Next]_vars, UNCHANGED N!cluster
        PROVE  UNCHANGED <<nodes, pods>> /\ (UNCHANGED snapshot \/ N!ListPods)
    BY <1>4 DEF Next, SnapshotRound, GPURound, vars, snapshotVars, N!Next,
                N!Collector, N!ListNodes, N!ParseFails, N!ListFails, N!Restart,
                N!Environment, N!SyncNodes, N!SyncPods, N!Alter, N!local, N!cluster,
                N!RemoveNode, N!SetNode, N!Advance, N!DeletePod, N!Bind
  <1>5. [Next]_vars => [Quiet]_vars
    <2> SUFFICES ASSUME [Next]_vars, UNCHANGED N!cluster, CaughtUp
                 PROVE  /\ CaughtUp'
                        /\ N!Exact \/ N!ListPods => N!Exact'
      OBVIOUS
    <2>1. ASSUME N!Exact
          PROVE  N!Exact'
      BY <1>2, <1>3, <1>4, <2>1 DEF N!Exact
    <2> QED
      BY <1>1, <1>2, <2>1
  <1> QED
    BY <1>5, PTL DEF Spec, QuietRounds

-----------------------------------------------------------------------------
(* The use of the GPUs of one host, over the times of the samples.         *)

LEMMA GOperators ==
    /\ \A T : G!IsFiniteSet(T) <=> IsFiniteSet(T)
    /\ \A T : G!Cardinality(T) = Cardinality(T)
    /\ \A T : G!Max(T) = Max(T)
    /\ \A f : G!SumFunction(f) = SumFunctionOnSet(f, DOMAIN f)
  <1>1. \A T : G!IsFiniteSet(T) <=> IsFiniteSet(T)
    BY DEF G!IsFiniteSet, IsFiniteSet
  <1>2. \A T : G!Cardinality(T) = Cardinality(T)
    BY DEF G!Cardinality, Cardinality
  <1>3. \A T : G!Max(T) = Max(T)
    BY DEF G!Max, Max
  <1>4. \A f, T : G!SumFunctionOnSet(f, T) = SumFunctionOnSet(f, T)
    BY DEF G!SumFunctionOnSet, G!FoldFunctionOnSet, G!MapThenFoldSet,
           SumFunctionOnSet, FoldFunctionOnSet, MapThenFoldSet
  <1> QED
    BY <1>1, <1>2, <1>3, <1>4 DEF G!SumFunction

\* The points of a metric of a host that count, of those stored.
Used(stored, range, host, metric) ==
    {s \in stored : /\ range.start <= s.time /\ s.time <= range.end
                    /\ s.reading.labels.hostname = host
                    /\ s.reading.labels.pod # NoPod
                    /\ metric \in DOMAIN s.reading.values}

Times(used) == {s.time : s \in used}

Together(used, t) == {s \in used : s.time = t}

Values(used, metric) == [s \in used |-> s.reading.values[metric]]

Total(used, metric, t) ==
    LET f == Values(Together(used, t), metric) IN SumFunctionOnSet(f, DOMAIN f)

Totals(used, metric) == [t \in Times(used) |-> Total(used, metric, t)]

PeakOf(used, metric) ==
    Max({Totals(used, metric)[t] : t \in Times(used)} \cup {0})

Points(used, metric) ==
    IsFiniteSet(used) /\ \A s \in used : s.reading.values[metric] \in Nat

LEMMA TimesFinite == ASSUME NEW used, IsFiniteSet(used) PROVE IsFiniteSet(Times(used))
  <1> DEFINE b == [s \in used |-> s.time]
  <1>1. Times(used) = {b[s] : s \in used}
    BY DEF Times
  <1> HIDE DEF b
  <1> QED
    BY <1>1, FiniteImage

LEMMA TotalIs ==
    ASSUME NEW metric, NEW used, Points(used, metric), NEW t
    PROVE  /\ Total(used, metric, t) =
                SumFunctionOnSet(Values(used, metric), Together(used, t))
           /\ Total(used, metric, t) \in Nat
           /\ IsFiniteSet(Together(used, t))
           /\ \A s \in used : Values(used, metric)[s] \in Nat
           /\ \A s \in Together(used, t) :
                s.reading.values[metric] <= Total(used, metric, t)
  <1> DEFINE S == Together(used, t)
             f == Values(S, metric)
             g == Values(used, metric)
  <1>1. IsFiniteSet(S)
    BY FS_Subset DEF Points, Together
  <1>2. \A s \in used : g[s] \in Nat /\ g[s] = s.reading.values[metric]
    BY DEF Values, Points
  <1>3. \A s \in S : s \in used /\ f[s] \in Nat /\ f[s] = g[s]
    BY <1>2 DEF Values, Points, Together
  <1>4. DOMAIN f = S
    BY DEF Values
  <1>5. Total(used, metric, t) = SumFunctionOnSet(f, S)
    BY <1>4 DEF Total
  <1> HIDE DEF S, f, g
  <1>6. SumFunctionOnSet(f, S) = SumFunctionOnSet(g, S)
    BY <1>1, <1>3, SumSame
  <1>7. SumFunctionOnSet(g, S) \in Nat
    BY <1>1, <1>2, <1>3, SumType
  <1>8. \A s \in S : g[s] <= SumFunctionOnSet(g, S)
    BY <1>1, <1>2, <1>3, SumElement
  <1> QED
    BY <1>1, <1>2, <1>3, <1>5, <1>6, <1>7, <1>8 DEF S, g

\* The peak is one of the totals, or nothing, and no total is above it.
LEMMA PeakIs ==
    ASSUME NEW metric, NEW used, Points(used, metric)
    PROVE  /\ PeakOf(used, metric) \in Nat
           /\ \A t \in Times(used) : Total(used, metric, t) <= PeakOf(used, metric)
           /\ \/ PeakOf(used, metric) = 0
              \/ \E t \in Times(used) : PeakOf(used, metric) = Total(used, metric, t)
  <1> DEFINE m == Totals(used, metric)
             R == {m[t] : t \in Times(used)}
             S == R \cup {0}
  <1>1. \A t \in Times(used) : m[t] = Total(used, metric, t) /\ m[t] \in Nat
    BY TotalIs DEF Totals
  <1>2. IsFiniteSet(Times(used))
    BY TimesFinite DEF Points
  <1>3. IsFiniteSet(S)
    <2> HIDE DEF m
    <2>1. IsFiniteSet(R)
      BY <1>2, FiniteImage
    <2> HIDE DEF R
    <2> QED
      BY <2>1, FS_AddElement
  <1>4. S \subseteq Nat /\ S # {}
    BY <1>1
  <1>5. PeakOf(used, metric) = Max(S)
    BY DEF PeakOf
  <1>6. Max(S) \in S /\ \A y \in S : y <= Max(S)
    <2> HIDE DEF S
    <2> QED
      BY <1>3, <1>4, MaxIs
  <1> HIDE DEF m
  <1> QED
    BY <1>1, <1>4, <1>5, <1>6

\* More points do not lower the peak.
LEMMA PeakMonotone ==
    ASSUME NEW metric, NEW later, Points(later, metric), NEW used \in SUBSET later
    PROVE  PeakOf(used, metric) <= PeakOf(later, metric)
  <1>1. Points(used, metric)
    BY FS_Subset DEF Points
  <1>2. ASSUME NEW t
        PROVE  Total(used, metric, t) <= Total(later, metric, t)
    <2>1. /\ IsFiniteSet(Together(used, t)) /\ IsFiniteSet(Together(later, t))
          /\ \A s \in later : Values(later, metric)[s] \in Nat
          /\ \A s \in used : Values(used, metric)[s] \in Nat
      BY <1>1, TotalIs
    <2>2. Together(used, t) \subseteq Together(later, t) /\ Together(later, t) \subseteq later
          /\ Together(used, t) \subseteq used
      BY DEF Together
    <2>3. SumFunctionOnSet(Values(later, metric), Together(used, t)) <=
            SumFunctionOnSet(Values(later, metric), Together(later, t))
      BY <2>1, <2>2, SumSubset
    <2>4. \A s \in used : Values(used, metric)[s] = Values(later, metric)[s]
      BY DEF Values
    <2>5. SumFunctionOnSet(Values(used, metric), Together(used, t)) =
            SumFunctionOnSet(Values(later, metric), Together(used, t))
      BY <2>1, <2>2, <2>4, SumSame
    <2> QED
      BY <1>1, <2>3, <2>5, TotalIs
  <1>3. Times(used) \subseteq Times(later)
    BY DEF Times
  <1>4. /\ PeakOf(used, metric) \in Nat /\ PeakOf(later, metric) \in Nat
        /\ \A t : Total(used, metric, t) \in Nat /\ Total(later, metric, t) \in Nat
    BY <1>1, PeakIs, TotalIs
  <1> QED
    BY <1>1, <1>2, <1>3, <1>4, PeakIs

\* There is a peak where some point is not zero.
LEMMA PeakPositive ==
    ASSUME NEW metric, NEW used, Points(used, metric)
    PROVE  PeakOf(used, metric) > 0 <=>
             \E s \in used : s.reading.values[metric] > 0
  <1>1. ASSUME NEW s \in used, s.reading.values[metric] > 0
        PROVE  PeakOf(used, metric) > 0
    <2>1. s.time \in Times(used) /\ s \in Together(used, s.time)
      BY DEF Times, Together
    <2>2. s.reading.values[metric] \in Nat
      BY DEF Points
    <2> QED
      BY <1>1, <2>1, <2>2, PeakIs, TotalIs
  <1>2. ASSUME PeakOf(used, metric) > 0
        PROVE  \E s \in used : s.reading.values[metric] > 0
    <2>1. PICK t \in Times(used) : PeakOf(used, metric) = Total(used, metric, t)
      BY <1>2, PeakIs
    <2> DEFINE g == Values(used, metric)
               S == Together(used, t)
    <2>2. /\ SumFunctionOnSet(g, S) # 0 /\ IsFiniteSet(S)
          /\ \A s \in S : g[s] \in Nat /\ s \in used
          /\ \A s \in used : g[s] = s.reading.values[metric]
      <3>1. S \subseteq used
        BY DEF Together
      <3>2. \A s \in used : g[s] = s.reading.values[metric]
        BY DEF Values
      <3> QED
        BY <1>2, <2>1, <3>1, <3>2, TotalIs
    <2> HIDE DEF g, S
    <2>3. PICK s \in S : g[s] # 0
      BY <2>2, SumZero
    <2> QED
      BY <2>2, <2>3
  <1> QED
    BY <1>1, <1>2

-----------------------------------------------------------------------------
(* What a query of Prometheus comes to.                                    *)

\* What Prometheus may have stored.
WellStored(stored) ==
    IsFiniteSet(stored) /\ \A s \in stored :
        /\ s.host \in Hosts /\ s.time \in 0..MaxNow
        /\ \E e \in Exports[s.host] : s.reading \in e

\* A map of the collector has, for the hosts with points that count, their totals.
Sampled(byHost, stored, range, metric) ==
    /\ \A host : host \in DOMAIN byHost <=> Used(stored, range, host, metric) # {}
    /\ \A host \in DOMAIN byHost :
         byHost[host] = Totals(Used(stored, range, host, metric), metric)

LEMMA UsedPoints ==
    ASSUME NEW stored, WellStored(stored), NEW range, NEW host, NEW metric
    PROVE  /\ Points(Used(stored, range, host, metric), metric)
           /\ Used(stored, range, host, metric) # {} => host \in Hosts \cup {NoLabel}
  <1> DEFINE used == Used(stored, range, host, metric)
  <1>1. used \subseteq stored
    BY DEF Used
  <1>2. IsFiniteSet(used)
    BY <1>1, FS_Subset DEF WellStored
  <1>3. ASSUME NEW s \in used
        PROVE  s.reading.values[metric] \in Nat /\ host \in Hosts \cup {NoLabel}
    <2>1. s.host \in Hosts /\ metric \in DOMAIN s.reading.values
          /\ s.reading.labels.hostname = host
      BY <1>1 DEF Used, WellStored
    <2>2. PICK e \in Exports[s.host] : s.reading \in e
      BY <1>1 DEF WellStored
    <2> QED
      BY <2>1, <2>2, CollectorsAssumption DEF G!TelemetryAssumption
  <1> QED
    BY <1>2, <1>3 DEF Points

\* Series with a common key, and the pods and containers of a host, are added up.
LEMMA QueryIsSampled ==
    ASSUME NEW metric
    PROVE  Sampled(G!SampleMapByHost(G!ValuesByKey(G!InRange(rng, metric)), metric),
                   samples, rng, metric)
  <1> DEFINE points == G!InRange(rng, metric)
             values == G!ValuesByKey(points)
             byHost == G!SampleMapByHost(values, metric)
  <1>1. /\ DOMAIN values = {G!Key(s) : s \in points}
        /\ \A s \in points : /\ G!Key(s).hostname = s.reading.labels.hostname
                             /\ G!Key(s).pod = s.reading.labels.pod
        /\ \A k \in DOMAIN values : values[k] = {s \in points : G!Key(s) = k}
    BY DEF G!ValuesByKey, G!Key
  <1>2. \A host : Used(samples, rng, host, metric) =
          {s \in points : s.reading.labels.hostname = host /\ s.reading.labels.pod # NoPod}
    BY DEF Used, G!InRange
  <1> HIDE DEF points
  <1>3. ASSUME NEW host
        PROVE  UNION {values[k] : k \in {x \in DOMAIN values :
                                           x.hostname = host /\ x.pod # NoPod}} =
                 Used(samples, rng, host, metric)
    <2> HIDE DEF values
    <2> QED
      BY <1>1, <1>2
  <1>4. DOMAIN byHost = {k.hostname : k \in {x \in DOMAIN values : x.pod # NoPod}}
    BY DEF G!SampleMapByHost, G!UsedHosts
  <1>5. ASSUME NEW host
        PROVE  host \in DOMAIN byHost <=> Used(samples, rng, host, metric) # {}
    <2> HIDE DEF values, byHost
    <2>1. ASSUME NEW s \in Used(samples, rng, host, metric)
          PROVE  host \in DOMAIN byHost
      <3>1. s \in points /\ s.reading.labels.hostname = host /\ s.reading.labels.pod # NoPod
        BY <1>2, <2>1
      <3>2. G!Key(s) \in DOMAIN values /\ G!Key(s).hostname = host /\ G!Key(s).pod # NoPod
        BY <1>1, <3>1
      <3> QED
        BY <1>4, <3>2
    <2>2. ASSUME host \in DOMAIN byHost
          PROVE  Used(samples, rng, host, metric) # {}
      <3>1. PICK k \in DOMAIN values : k.pod # NoPod /\ k.hostname = host
        BY <1>4, <2>2
      <3>2. PICK s \in points : k = G!Key(s)
        BY <1>1, <3>1
      <3> QED
        BY <1>1, <1>2, <3>1, <3>2
    <2> QED
      BY <2>1, <2>2
  <1>6. ASSUME NEW host \in DOMAIN byHost
        PROVE  byHost[host] = Totals(Used(samples, rng, host, metric), metric)
    <2> DEFINE used == UNION {values[k] : k \in {x \in DOMAIN values :
                                                   x.hostname = host /\ x.pod # NoPod}}
    <2>1. byHost[host] =
            [t \in {s.time : s \in used} |->
               G!SumFunction([s \in {u \in used : u.time = t} |->
                                s.reading.values[metric]])]
      BY DEF G!SampleMapByHost
    <2>2. used = Used(samples, rng, host, metric)
      BY <1>3
    <2> HIDE DEF used, values
    <2>3. byHost[host] = Totals(used, metric)
      BY <2>1, GOperators DEF Totals, Times, Total, Values, Together
    <2> QED
      BY <2>2, <2>3
  <1> HIDE DEF byHost
  <1>7. Sampled(byHost, samples, rng, metric)
    BY <1>5, <1>6 DEF Sampled
  <1> QED
    BY <1>7 DEF byHost, values, points

\* The maximum of a host is the peak of its points, and its average a quotient
\* that is not above it.
LEMMA MaxAvgIs ==
    ASSUME NEW stored, WellStored(stored), NEW range, NEW metric,
           NEW byHost, Sampled(byHost, stored, range, metric), NEW host,
           NEW x, x = G!MaxAvgOf(byHost, host)
    PROVE  /\ x.max = PeakOf(Used(stored, range, host, metric), metric)
           /\ x.max \in Nat /\ x.avg.num \in Nat /\ x.avg.den \in Nat \ {0}
           /\ x.avg.num <= x.avg.den * x.max
  <1> DEFINE used == Used(stored, range, host, metric)
             m == Totals(used, metric)
  <1>1. Points(used, metric)
    BY UsedPoints
  <1>2. PeakOf(used, metric) \in Nat
    BY <1>1, PeakIs
  <1>3. CASE host \notin DOMAIN byHost
    <2>1. used = {}
      BY <1>3 DEF Sampled
    <2>2. PeakOf(used, metric) = 0
      <3> HIDE DEF used
      <3> QED
        BY <1>1, <2>1, PeakIs DEF Times
    <2>3. x = [max |-> 0, avg |-> [num |-> 0, den |-> 1]]
      BY <1>3 DEF G!MaxAvgOf, G!Quotient
    <2> QED
      BY <2>2, <2>3
  <1>4. CASE host \in DOMAIN byHost
    <2>1. used # {} /\ byHost[host] = m
      BY <1>4 DEF Sampled
    <2> HIDE DEF used
    <2>2. DOMAIN m = Times(used)
      BY DEF Totals
    <2>3. x = [max |-> PeakOf(used, metric),
               avg |-> [num |-> SumFunctionOnSet(m, Times(used)),
                        den |-> Cardinality(Times(used))]]
      BY <1>4, <2>1, <2>2, GOperators
      DEF G!MaxAvgOf, G!ComputeMaxAvg, G!Quotient, PeakOf
    <2>4. IsFiniteSet(Times(used)) /\ Times(used) # {}
      BY <1>1, <2>1, TimesFinite DEF Points, Times
    <2>5. Cardinality(Times(used)) \in Nat \ {0}
      BY <2>4, FS_CardinalityType, FS_EmptySet
    <2>6. \A t \in Times(used) : m[t] \in Nat /\ m[t] <= PeakOf(used, metric)
      BY <1>1, PeakIs, TotalIs DEF Totals
    <2> HIDE DEF m
    <2>7. SumFunctionOnSet(m, Times(used)) \in Nat
      BY <2>4, <2>6, SumType
    <2>8. SumFunctionOnSet(m, Times(used)) <= Cardinality(Times(used)) * PeakOf(used, metric)
      BY <1>2, <2>4, <2>6, SumBounded
    <2> QED
      BY <1>2, <2>3, <2>5, <2>7, <2>8 DEF used
  <1> QED
    BY <1>3, <1>4

LEMMA Scaled ==
    ASSUME NEW a \in Nat, NEW d \in Nat, NEW m \in Nat, a <= d * m, NEW k \in Nat
    PROVE  /\ a * k <= d * (m * k)
           /\ a * k <= m * (d * k)
  <1>1. (d * m - a) * k >= 0
    OBVIOUS
  <1> QED
    BY <1>1

\* A node of a message made of two maps, the second of later points.
LEMMA MessageIs ==
    ASSUME NEW late, WellStored(late), NEW early \in SUBSET late, NEW range,
           NEW util, Sampled(util, early, range, "util"),
           NEW mem, Sampled(mem, late, range, "mem"),
           NEW byHostname, NEW n \in G!Message(util, mem, byHostname)
    PROVE  /\ n.host \in DOMAIN byHostname
           /\ n.maxGPUUsed.num = PeakOf(Used(early, range, n.host, "util"), "util")
           /\ n.maxGPUUsed.num \in Nat /\ n.maxGPUUsed.den = 100
           /\ n.maxGPUMemoryUsed = PeakOf(Used(late, range, n.host, "mem"), "mem") * MiB
           /\ n.avgGPUUsed.den \in Nat \ {0}
           /\ n.avgGPUUsed.num * 100 <= n.maxGPUUsed.num * n.avgGPUUsed.den
           /\ n.avgGPUMemoryUsed \in Nat
           /\ n.avgGPUMemoryUsed <= n.maxGPUMemoryUsed
  <1>1. PICK host \in (DOMAIN util \cup DOMAIN mem) \cap DOMAIN byHostname :
          LET u == G!MaxAvgOf(util, host)
              m == G!MaxAvgOf(mem, host)
          IN  n = [name   |-> byHostname[host].name,
                   host   |-> host,
                   maxGPUUsed       |-> G!Quotient(u.max, 100),
                   avgGPUUsed       |-> G!Quotient(u.avg.num, u.avg.den * 100),
                   maxGPUMemoryUsed |-> m.max * MiB,
                   avgGPUMemoryUsed |->
                     G!Truncated(G!Quotient(m.avg.num * MiB, m.avg.den))]
    BY DEF G!Message
  <1> DEFINE u == G!MaxAvgOf(util, host)
             m == G!MaxAvgOf(mem, host)
  <1>2. WellStored(early)
    BY FS_Subset DEF WellStored
  <1>3. /\ u.max = PeakOf(Used(early, range, host, "util"), "util")
        /\ u.max \in Nat /\ u.avg.num \in Nat /\ u.avg.den \in Nat \ {0}
        /\ u.avg.num <= u.avg.den * u.max
    BY <1>2, MaxAvgIs
  <1>4. /\ m.max = PeakOf(Used(late, range, host, "mem"), "mem")
        /\ m.max \in Nat /\ m.avg.num \in Nat /\ m.avg.den \in Nat \ {0}
        /\ m.avg.num <= m.avg.den * m.max
    BY MaxAvgIs
  <1>5. /\ n.host = host
        /\ n.maxGPUUsed = [num |-> u.max, den |-> 100]
        /\ n.avgGPUUsed = [num |-> u.avg.num, den |-> u.avg.den * 100]
        /\ n.maxGPUMemoryUsed = m.max * MiB
        /\ n.avgGPUMemoryUsed = IF m.avg.den = 0 THEN NaN
                                ELSE (m.avg.num * MiB) \div m.avg.den
    BY <1>1 DEF G!Quotient, G!Truncated
  <1>6. MiB \in Nat \ {0}
    BY CollectorsAssumption DEF G!TelemetryAssumption
  <1> HIDE DEF u, m
  <1>7. /\ u.avg.num * 100 <= u.max * (u.avg.den * 100)
        /\ u.avg.den * 100 \in Nat \ {0}
    BY <1>3, Scaled
  <1>8. /\ (m.avg.num * MiB) \div m.avg.den \in Nat
        /\ (m.avg.num * MiB) \div m.avg.den <= m.max * MiB
    <2>1. m.avg.num * MiB \in Nat /\ m.max * MiB \in Nat
      BY <1>4, <1>6
    <2>2. m.avg.num * MiB <= m.avg.den * (m.max * MiB)
      BY <1>4, <1>6, Scaled
    <2> QED
      BY <1>4, <2>1, <2>2, Quotients
  <1> QED
    BY <1>1, <1>3, <1>4, <1>5, <1>7, <1>8

LEMMA EveryHost ==
    ASSUME NEW util, NEW mem, NEW byHostname,
           NEW host \in (DOMAIN util \cup DOMAIN mem) \cap DOMAIN byHostname
    PROVE  \E n \in G!Message(util, mem, byHostname) : n.host = host
  <1> DEFINE u == G!MaxAvgOf(util, host)
             m == G!MaxAvgOf(mem, host)
             n == [name   |-> byHostname[host].name,
                   host   |-> host,
                   maxGPUUsed       |-> G!Quotient(u.max, 100),
                   avgGPUUsed       |-> G!Quotient(u.avg.num, u.avg.den * 100),
                   maxGPUMemoryUsed |-> m.max * MiB,
                   avgGPUMemoryUsed |->
                     G!Truncated(G!Quotient(m.avg.num * MiB, m.avg.den))]
  <1>1. n \in G!Message(util, mem, byHostname)
    BY DEF G!Message
  <1>2. n.host = host
    OBVIOUS
  <1> HIDE DEF n
  <1> QED
    BY <1>1, <1>2

-----------------------------------------------------------------------------
(* The invariant of the GPU telemetry collector.                           *)

LEMMA PeakIsPeakOf ==
    \A stored, host, metric :
        G!Peak(stored, host, metric) = PeakOf(Used(stored, rng, host, metric), metric)
  <1> SUFFICES ASSUME NEW stored, NEW host, NEW metric
               PROVE  G!Peak(stored, host, metric) =
                        PeakOf(Used(stored, rng, host, metric), metric)
    OBVIOUS
  <1> DEFINE used == Used(stored, rng, host, metric)
             At(t) == G!SumFunction([s \in {u \in used : u.time = t} |->
                                       s.reading.values[metric]])
  <1>1. G!Peak(stored, host, metric) = Max({At(t) : t \in Times(used)} \cup {0})
    BY GOperators DEF G!Peak, Used, Times
  <1>2. \A t : At(t) = Total(used, metric, t)
    BY GOperators DEF Total, Values, Together
  <1> HIDE DEF At, used
  <1>3. \A t \in Times(used) : At(t) = Totals(used, metric)[t]
    BY <1>2 DEF Totals
  <1>4. {At(t) : t \in Times(used)} = {Totals(used, metric)[t] : t \in Times(used)}
    BY <1>3
  <1> QED
    BY <1>1, <1>4 DEF PeakOf, used

GTypes ==
    /\ now \in 0..MaxNow
    /\ WellStored(samples)
    /\ \A s \in samples : s.time \in 0..now
    /\ began \subseteq samples
    /\ gpc \in {"begin", "nodes", "util", "mem", "sent", "failed"}
    /\ \A host \in DOMAIN nodesByHostname :
         /\ host \in Hosts
         /\ nodesByHostname[host] \in NodeObjects
         /\ nodesByHostname[host].hostname = host

\* Each map holds the totals of what was stored at some time of the round, the
\* second at a later one, and the message is made of the two.
Known ==
    /\ gpc = "mem" =>
         \E seen \in SUBSET samples :
            began \subseteq seen /\ Sampled(gpuUtilByHost, seen, rng, "util")
    /\ gpc = "sent" =>
         \E late \in SUBSET samples : \E early \in SUBSET late :
            /\ began \subseteq early
            /\ Sampled(gpuUtilByHost, early, rng, "util")
            /\ Sampled(gpuMemUsedByHost, late, rng, "mem")
            /\ telemetry = G!Message(gpuUtilByHost, gpuMemUsedByHost, nodesByHostname)
    /\ gpc # "sent" => telemetry = {}

GInv == GTypes /\ Known

LEMMA GInit == ASSUME G!Init PROVE GInv
  <1>1. DOMAIN << >> = {}
    OBVIOUS
  <1>2. /\ now = 0 /\ samples = {} /\ gpc = "begin" /\ nodesByHostname = << >>
        /\ telemetry = {} /\ began = {}
    BY DEF G!Init, G!Empty
  <1>3. 0 \in 0..MaxNow
    BY CollectorsAssumption DEF G!TelemetryAssumption
  <1> QED
    BY <1>1, <1>2, <1>3, FS_EmptySet DEF GInv, GTypes, Known, WellStored

LEMMA GCollectorKeeps == ASSUME GInv, G!Collector PROVE GInv'
  <1> USE DEF GInv
  <1>1. CASE G!Begin
    <2>1. /\ UNCHANGED <<now, samples, nodesByHostname>>
          /\ began' = samples /\ telemetry' = {} /\ gpc' = "nodes"
      BY <1>1 DEF G!Begin, G!world
    <2> QED
      BY <2>1 DEF GTypes, Known
  <1>2. CASE G!ListNodes
    <2>1. /\ UNCHANGED <<now, samples, telemetry, began>>
          /\ gpc = "nodes" /\ gpc' = "util"
      BY <1>2 DEF G!ListNodes, G!world
    <2>2. PICK objects \in SUBSET NodeObjects :
            nodesByHostname' \in G!IndexedByHostname(
               {n \in objects : n.selected /\ n.hostname # NoLabel})
      BY <1>2 DEF G!ListNodes
    <2>3. \A host \in DOMAIN nodesByHostname' :
            /\ host \in Hosts
            /\ nodesByHostname'[host] \in NodeObjects
            /\ nodesByHostname'[host].hostname = host
      <3> DEFINE list == {n \in objects : n.selected /\ n.hostname # NoLabel}
      <3>1. /\ nodesByHostname' \in [{n.hostname : n \in list} -> list]
            /\ \A host \in DOMAIN nodesByHostname' :
                 nodesByHostname'[host].hostname = host
        BY <2>2 DEF G!IndexedByHostname
      <3>2. \A n \in list : n \in NodeObjects /\ n.hostname \in Hosts
        BY CollectorsAssumption DEF G!TelemetryAssumption
      <3> HIDE DEF list
      <3> QED
        BY <3>1, <3>2
    <2> QED
      BY <2>1, <2>3 DEF GTypes, Known
  <1>3. CASE G!QueryUtil
    <2>1. /\ UNCHANGED <<now, samples, rng, nodesByHostname, telemetry, began>>
          /\ gpc = "util" /\ gpc' = "mem"
          /\ gpuUtilByHost' =
               G!SampleMapByHost(G!ValuesByKey(G!InRange(rng, "util")), "util")
      BY <1>3 DEF G!QueryUtil, G!world
    <2>2. Sampled(gpuUtilByHost', samples', rng', "util")
      BY <2>1, QueryIsSampled
    <2>3. GTypes'
      BY <2>1 DEF GTypes
    <2>4. Known'
      BY <2>1, <2>2, <2>3 DEF Known, GTypes
    <2> QED
      BY <2>3, <2>4
  <1>4. CASE G!QueryMem
    <2>1. /\ UNCHANGED <<now, samples, rng, nodesByHostname, gpuUtilByHost, began>>
          /\ gpc = "mem" /\ gpc' = "sent"
          /\ gpuMemUsedByHost' =
               G!SampleMapByHost(G!ValuesByKey(G!InRange(rng, "mem")), "mem")
          /\ telemetry' = G!Message(gpuUtilByHost, gpuMemUsedByHost', nodesByHostname)
      BY <1>4 DEF G!QueryMem, G!world
    <2>2. Sampled(gpuMemUsedByHost', samples', rng', "mem")
      BY <2>1, QueryIsSampled
    <2>3. PICK seen \in SUBSET samples :
            began \subseteq seen /\ Sampled(gpuUtilByHost, seen, rng, "util")
      BY <2>1 DEF Known
    <2>4. GTypes'
      BY <2>1 DEF GTypes
    <2>5. /\ samples' \in SUBSET samples' /\ seen \in SUBSET samples'
          /\ began' \subseteq seen
          /\ Sampled(gpuUtilByHost', seen, rng', "util")
          /\ telemetry' = G!Message(gpuUtilByHost', gpuMemUsedByHost', nodesByHostname')
      BY <2>1, <2>3
    <2>6. Known'
      BY <2>1, <2>2, <2>5 DEF Known
    <2> QED
      BY <2>4, <2>6
  <1>5. CASE G!MetricFails \/ G!ReadFails
    <2>1. /\ UNCHANGED <<now, samples, nodesByHostname, telemetry, began>>
          /\ gpc # "sent" /\ gpc' = "failed"
      BY <1>5 DEF G!MetricFails, G!ReadFails, G!world, G!local, G!Metrics
    <2> QED
      BY <2>1 DEF GTypes, Known
  <1>6. CASE G!NextRound
    <2>1. /\ UNCHANGED <<now, samples>>
          /\ gpc' = "begin" /\ nodesByHostname' = << >>
          /\ telemetry' = {} /\ began' = {}
      BY <1>6 DEF G!NextRound, G!world, G!Empty
    <2>2. DOMAIN << >> = {}
      OBVIOUS
    <2> QED
      BY <2>1, <2>2 DEF GTypes, Known
  <1> QED
    BY <1>1, <1>2, <1>3, <1>4, <1>5, <1>6 DEF G!Collector

\* Prometheus only ever stores more.
LEMMA GEnvironmentKeeps == ASSUME GInv, G!Environment PROVE GInv'
  <1>1. /\ UNCHANGED <<gpc, rng, nodesByHostname, gpuUtilByHost, gpuMemUsedByHost,
                       telemetry, began>>
        /\ samples \subseteq samples'
    BY DEF G!Environment, G!PointsAppear, G!TimePasses, G!local
  <1>2. Known'
    <2>1. \A seen \in SUBSET samples : seen \in SUBSET samples'
      BY <1>1
    <2> QED
      BY <1>1, <2>1 DEF GInv, Known
  <1>3. ASSUME NEW host \in Hosts, NEW e \in Exports[host], G!PointsAppear(host, e)
        PROVE  GTypes'
    <2> DEFINE f == [r \in e |-> [host |-> host, time |-> now, reading |-> r]]
               new == {f[r] : r \in e}
    <2>1. now' = now /\ samples' = samples \cup new
      BY <1>3 DEF G!PointsAppear
    <2>2. \A s \in new : s.host = host /\ s.time = now /\ s.reading \in e
      OBVIOUS
    <2>3. IsFiniteSet(e)
      BY GOperators, CollectorsAssumption DEF G!TelemetryAssumption
    <2>4. IsFiniteSet(new)
      <3> HIDE DEF f
      <3> QED
        BY <2>3, FiniteImage
    <2> HIDE DEF f, new
    <2>5. now \in 0..MaxNow /\ now \in 0..now
      BY CollectorsAssumption DEF GInv, GTypes, G!TelemetryAssumption
    <2>6. IsFiniteSet(samples')
      BY <2>1, <2>4, FS_Union DEF GInv, GTypes, WellStored
    <2>7. WellStored(samples')
      BY <2>1, <2>2, <2>5, <2>6 DEF GInv, GTypes, WellStored
    <2>8. \A s \in samples' : s.time \in 0..now'
      BY <2>1, <2>2, <2>5 DEF GInv, GTypes
    <2> QED
      BY <1>1, <2>1, <2>7, <2>8 DEF GInv, GTypes
  <1>4. CASE G!TimePasses
    <2>1. now < MaxNow /\ now' = now + 1 /\ samples' = samples
      BY <1>4 DEF G!TimePasses
    <2>2. MaxNow \in Nat
      BY CollectorsAssumption DEF G!TelemetryAssumption
    <2>3. \A s \in samples' : s.time \in 0..now'
      BY <2>1 DEF GInv, GTypes
    <2> QED
      BY <1>1, <1>2, <2>1, <2>2, <2>3 DEF GInv, GTypes
  <1> QED
    BY <1>2, <1>3, <1>4 DEF GInv, G!Environment

LEMMA GStep == GInv /\ [Next]_vars => GInv'
  <1>1. ASSUME GInv, UNCHANGED gpuVars
        PROVE  GInv'
    BY <1>1 DEF gpuVars, GInv, GTypes, Known
  <1> QED
    BY <1>1, GCollectorKeeps, GEnvironmentKeeps
    DEF Next, SnapshotRound, GPURound, vars, G!Next

LEMMA GInvariance == Spec => []GInv
  <1>1. Init => GInv
    BY GInit DEF Init
  <1> QED
    BY <1>1, GStep, PTL DEF Spec

\* What was sent, said of the state it was sent in.
LEMMA SentIs ==
    ASSUME GInv, gpc = "sent"
    PROVE  \E late \in SUBSET samples : \E early \in SUBSET late :
              /\ began \subseteq early /\ WellStored(late)
              /\ Sampled(gpuUtilByHost, early, rng, "util")
              /\ Sampled(gpuMemUsedByHost, late, rng, "mem")
              /\ telemetry = G!Message(gpuUtilByHost, gpuMemUsedByHost, nodesByHostname)
  <1>1. \A late \in SUBSET samples : WellStored(late)
    BY FS_Subset DEF GInv, GTypes, WellStored
  <1> QED
    BY <1>1 DEF GInv, Known

LEMMA NothingElseIsSent == ASSUME GInv, telemetry # {} PROVE gpc = "sent"
  BY DEF GInv, Known

\* What a host uses of its GPUs it uses of their memory.
LEMMA UsedMemory ==
    ASSUME NEW late, WellStored(late), NEW early \in SUBSET late, NEW range, NEW host,
           PeakOf(Used(early, range, host, "util"), "util") > 0
    PROVE  PeakOf(Used(late, range, host, "mem"), "mem") > 0
  <1>1. WellStored(early)
    BY FS_Subset DEF WellStored
  <1>2. PICK s \in Used(early, range, host, "util") : s.reading.values["util"] > 0
    BY <1>1, UsedPoints, PeakPositive
  <1>3. /\ s \in late /\ range.start <= s.time /\ s.time <= range.end
        /\ s.reading.labels.hostname = host /\ s.reading.labels.pod # NoPod
        /\ "util" \in DOMAIN s.reading.values
    BY DEF Used
  <1>4. PICK e \in Exports[s.host] : s.host \in Hosts /\ s.reading \in e
    BY <1>3 DEF WellStored
  <1>5. "mem" \in DOMAIN s.reading.values /\ s.reading.values["mem"] > 0
    BY <1>2, <1>3, <1>4, CollectorsAssumption DEF G!TelemetryAssumption
  <1>6. s \in Used(late, range, host, "mem")
    BY <1>3, <1>5 DEF Used
  <1> QED
    BY <1>5, <1>6, UsedPoints, PeakPositive

-----------------------------------------------------------------------------
(* What holds of every message about the use of GPUs.                      *)

\* The collector never holds or sends anything but nodes it listed, by the
\* hostname they have, and samples of the past.
THEOREM TelemetryTypeCorrect == Spec => []GPUTelemetryTypeOK
  <1>1. GInv => GPUTelemetryTypeOK
    <2> SUFFICES ASSUME GInv
                 PROVE  G!TypeOK
      BY DEF GPUTelemetryTypeOK
    <2>1. ASSUME NEW n \in telemetry
          PROVE  n.host \in DOMAIN nodesByHostname
      <3>1. gpc = "sent"
        BY <2>1, NothingElseIsSent
      <3> QED
        BY <2>1, <3>1, SentIs, MessageIs
    <2> QED
      BY <2>1 DEF GInv, GTypes, WellStored, G!TypeOK, G!Metrics
  <1> QED
    BY <1>1, GInvariance, PTL

\* Whatever pods use the GPUs and whichever series are there, no host is averaged
\* over no samples: no number of the message is one divided by zero.
THEOREM NoAverageOfNothing == Spec => []NoDivisionByZero
  <1>1. GInv => NoDivisionByZero
    <2> SUFFICES ASSUME GInv, NEW n \in telemetry
                 PROVE  n.avgGPUUsed.den # 0 /\ n.avgGPUMemoryUsed # NaN
      BY DEF NoDivisionByZero, G!NoDivisionByZero
    <2>1. gpc = "sent"
      BY NothingElseIsSent
    <2>2. n.avgGPUUsed.den \in Nat \ {0} /\ n.avgGPUMemoryUsed \in Nat
      BY <2>1, SentIs, MessageIs
    <2>3. NaN \notin Nat
      BY CollectorsAssumption DEF G!TelemetryAssumption
    <2> QED
      BY <2>2, <2>3
  <1> QED
    BY <1>1, GInvariance, PTL

\* The average of a node is at most its maximum, for its GPUs and for their
\* memory, whichever pods and containers share them.
THEOREM AveragesAtMostMaxima == Spec => []AverageAtMostMax
  <1>1. GInv => AverageAtMostMax
    <2> SUFFICES ASSUME GInv, NEW n \in telemetry
                 PROVE  /\ n.avgGPUUsed.num * n.maxGPUUsed.den <=
                             n.maxGPUUsed.num * n.avgGPUUsed.den
                        /\ n.avgGPUMemoryUsed <= n.maxGPUMemoryUsed
      BY DEF AverageAtMostMax, G!AverageAtMostMax
    <2>1. gpc = "sent"
      BY NothingElseIsSent
    <2>2. /\ n.avgGPUUsed.num * 100 <= n.maxGPUUsed.num * n.avgGPUUsed.den
          /\ n.maxGPUUsed.den = 100
          /\ n.avgGPUMemoryUsed <= n.maxGPUMemoryUsed
      BY <2>1, SentIs, MessageIs
    <2> QED
      BY <2>2
  <1> QED
    BY <1>1, GInvariance, PTL

\* A node whose GPUs are shown in use is shown with memory of them in use, though
\* the memory is queried after the utilization and more is stored in between.
THEOREM UseShowsMemory == Spec => []UseImpliesMemory
  <1>1. GInv => UseImpliesMemory
    <2> SUFFICES ASSUME GInv, NEW n \in telemetry, n.maxGPUUsed.num > 0
                 PROVE  n.maxGPUMemoryUsed > 0
      BY DEF UseImpliesMemory, G!UseImpliesMemory
    <2>1. gpc = "sent"
      BY NothingElseIsSent
    <2>2. PICK late \in SUBSET samples : \E early \in SUBSET late :
              /\ began \subseteq early /\ WellStored(late)
              /\ Sampled(gpuUtilByHost, early, rng, "util")
              /\ Sampled(gpuMemUsedByHost, late, rng, "mem")
              /\ telemetry = G!Message(gpuUtilByHost, gpuMemUsedByHost, nodesByHostname)
      BY <2>1, SentIs
    <2>3. PICK early \in SUBSET late :
              /\ began \subseteq early /\ WellStored(late)
              /\ Sampled(gpuUtilByHost, early, rng, "util")
              /\ Sampled(gpuMemUsedByHost, late, rng, "mem")
              /\ telemetry = G!Message(gpuUtilByHost, gpuMemUsedByHost, nodesByHostname)
      BY <2>2
    <2> DEFINE mem == PeakOf(Used(late, rng, n.host, "mem"), "mem")
    <2>4. /\ n.maxGPUUsed.num = PeakOf(Used(early, rng, n.host, "util"), "util")
          /\ n.maxGPUMemoryUsed = mem * MiB
      BY <2>3, MessageIs
    <2>5. mem > 0 /\ mem \in Nat
      BY <2>3, <2>4, UsedMemory, UsedPoints, PeakIs
    <2>6. MiB \in Nat \ {0}
      BY CollectorsAssumption DEF G!TelemetryAssumption
    <2> HIDE DEF mem
    <2> QED
      BY <2>4, <2>5, <2>6
  <1> QED
    BY <1>1, GInvariance, PTL

LEMMA Growing ==
    ASSUME NEW a \in Nat, NEW b \in Nat, a <= b, NEW k \in Nat
    PROVE  a * k \in Nat /\ b * k \in Nat /\ a * k <= b * k
  <1>1. (b - a) * k >= 0
    OBVIOUS
  <1> QED
    BY <1>1

\* A maximum is at least the peak of what was stored when the round began and at
\* most that of what is stored now: nothing is lost and nothing counted twice.
\* A node with a peak is in the message.
THEOREM PeaksAreSent == Spec => []PeaksAreSeen
  <1>1. GInv => PeaksAreSeen
    <2> DEFINE Top(stored, host, metric) ==
                 PeakOf(Used(stored, rng, host, metric), metric)
    <2> SUFFICES ASSUME GInv, gpc = "sent"
                 PROVE  /\ \A n \in telemetry :
                             /\ n.maxGPUUsed.num \in
                                  Top(began, n.host, "util")..Top(samples, n.host, "util")
                             /\ n.maxGPUMemoryUsed \in
                                  (Top(began, n.host, "mem") * MiB)
                                    ..(Top(samples, n.host, "mem") * MiB)
                        /\ \A host \in DOMAIN nodesByHostname :
                             Top(began, host, "mem") > 0 =>
                                \E n \in telemetry : n.host = host
      BY PeakIsPeakOf DEF PeaksAreSeen, G!PeaksAreSeen
    <2>1. PICK late \in SUBSET samples : \E early \in SUBSET late :
              /\ began \subseteq early /\ WellStored(late)
              /\ Sampled(gpuUtilByHost, early, rng, "util")
              /\ Sampled(gpuMemUsedByHost, late, rng, "mem")
              /\ telemetry = G!Message(gpuUtilByHost, gpuMemUsedByHost, nodesByHostname)
      BY SentIs
    <2>2. PICK early \in SUBSET late :
              /\ began \subseteq early /\ WellStored(late)
              /\ Sampled(gpuUtilByHost, early, rng, "util")
              /\ Sampled(gpuMemUsedByHost, late, rng, "mem")
              /\ telemetry = G!Message(gpuUtilByHost, gpuMemUsedByHost, nodesByHostname)
      BY <2>1
    <2>3. WellStored(samples)
      BY DEF GInv, GTypes
    <2>4. ASSUME NEW more \in SUBSET samples, NEW some \in SUBSET more,
                 NEW host, NEW metric
          PROVE  /\ Top(some, host, metric) \in Nat /\ Top(more, host, metric) \in Nat
                 /\ Top(some, host, metric) <= Top(more, host, metric)
      <3>1. WellStored(more) /\ WellStored(some)
        BY <2>3, FS_Subset DEF WellStored
      <3>2. Used(some, rng, host, metric) \subseteq Used(more, rng, host, metric)
        BY DEF Used
      <3>3. /\ Points(Used(some, rng, host, metric), metric)
            /\ Points(Used(more, rng, host, metric), metric)
        BY <3>1, UsedPoints
      <3> QED
        BY <3>2, <3>3, PeakIs, PeakMonotone
    <2>5. /\ began \in SUBSET early /\ early \in SUBSET samples
          /\ began \in SUBSET late /\ samples \in SUBSET samples
      BY <2>1, <2>2
    <2>6. MiB \in Nat
      BY CollectorsAssumption DEF G!TelemetryAssumption
    <2>7. ASSUME NEW n \in telemetry
          PROVE  /\ n.maxGPUUsed.num \in
                      Top(began, n.host, "util")..Top(samples, n.host, "util")
                 /\ n.maxGPUMemoryUsed \in
                      (Top(began, n.host, "mem") * MiB)..(Top(samples, n.host, "mem") * MiB)
      <3>1. /\ n.maxGPUUsed.num = Top(early, n.host, "util")
            /\ n.maxGPUMemoryUsed = Top(late, n.host, "mem") * MiB
        BY <2>2, MessageIs
      <3>2. /\ Top(began, n.host, "util") \in Nat /\ Top(early, n.host, "util") \in Nat
            /\ Top(samples, n.host, "util") \in Nat
            /\ Top(began, n.host, "util") <= Top(early, n.host, "util")
            /\ Top(early, n.host, "util") <= Top(samples, n.host, "util")
        BY <2>4, <2>5
      <3>3. /\ Top(began, n.host, "mem") \in Nat /\ Top(late, n.host, "mem") \in Nat
            /\ Top(samples, n.host, "mem") \in Nat
            /\ Top(began, n.host, "mem") <= Top(late, n.host, "mem")
            /\ Top(late, n.host, "mem") <= Top(samples, n.host, "mem")
        BY <2>4, <2>5
      <3> HIDE DEF Top
      <3>4. /\ Top(began, n.host, "mem") * MiB \in Nat
            /\ Top(late, n.host, "mem") * MiB \in Nat
            /\ Top(samples, n.host, "mem") * MiB \in Nat
            /\ Top(began, n.host, "mem") * MiB <= Top(late, n.host, "mem") * MiB
            /\ Top(late, n.host, "mem") * MiB <= Top(samples, n.host, "mem") * MiB
        BY <2>6, <3>3, Growing
      <3> QED
        BY <3>1, <3>2, <3>4
    <2>8. ASSUME NEW host \in DOMAIN nodesByHostname, Top(began, host, "mem") > 0
          PROVE  \E n \in telemetry : n.host = host
      <3>1. Top(late, host, "mem") > 0
        BY <2>4, <2>5, <2>8
      <3>2. Used(late, rng, host, "mem") # {}
        BY <2>2, <3>1, UsedPoints, PeakPositive
      <3>3. host \in (DOMAIN gpuUtilByHost \cup DOMAIN gpuMemUsedByHost)
                       \cap DOMAIN nodesByHostname
        BY <2>2, <2>8, <3>2 DEF Sampled
      <3>4. PICK n \in telemetry : n.host = host
        BY <2>2, <3>3, EveryHost
      <3> QED
        BY <3>4
    <2> QED
      BY <2>7, <2>8
  <1> QED
    BY <1>1, GInvariance, PTL
=============================================================================
