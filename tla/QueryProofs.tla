---------------------------- MODULE QueryProofs ----------------------------
(***************************************************************************)
(* What the two queries of the monitor service show, for every number of   *)
(* clusters, tenants and histories and every interleaving with reports.    *)
(* The argument: rows stay the tenant's and histories stay in the log, so  *)
(* what the handler reads late still covers what was there when it began;  *)
(* and what it has read is finite and well formed, so the numbers it makes *)
(* of it are sums, maxima and quotients that SetSums speaks about.         *)
(***************************************************************************)
EXTENDS GPUUsages, SnapshotQuery, SetSums, TLAPS

\* A cluster without a row is nobody's.
RowsOwned == \A c \in Clusters : name[c] = Unregistered => owner[c] # Tenant

Shapes ==
    /\ name \in [Clusters -> Names \cup {Unregistered}]
    /\ DOMAIN owner = Clusters

\* The clusters under way are the tenant's, and what was read is theirs.
ReadOwn ==
    /\ DOMAIN names \subseteq Listed
    /\ todo \subseteq DOMAIN names
    /\ \A h \in hs : h.cluster \in DOMAIN names

\* The tables still hold what they held when the request arrived.
StillThere ==
    /\ began.rows \subseteq Listed
    /\ \A h \in began.histories :
         h.cluster \in Clusters /\ h \in Histories(h.cluster)

\* The rows of then have been read, and so have the histories of every cluster
\* that is no longer to do.
ReadSoFar ==
    pc \in {"histories", "OK"} =>
        /\ began.rows \subseteq DOMAIN names
        /\ \A h \in began.histories :
             h.cluster \in DOMAIN names \ todo /\ InWindow(h) => h \in hs

NothingToDo == pc = "OK" => todo = {}

IInv == Shapes /\ RowsOwned /\ ReadOwn /\ StillThere /\ ReadSoFar /\ NothingToDo

LEMMA InitEstablishes == ASSUME Init PROVE IInv
  <1>1. /\ name = [c \in Clusters |-> Unregistered]
        /\ owner = [c \in Clusters |-> Unregistered]
    BY DEF Init, Registry!Init
  <1>2. names = << >> /\ DOMAIN names = {}
    BY DEF Init
  <1> QED
    BY <1>1, <1>2, QueryAssumption
    DEF Init, IInv, Shapes, RowsOwned, ReadOwn, StillThere, ReadSoFar, NothingToDo

\* A step of the registry takes no row and no history away.
LEMMA WritesOnlyAdd ==
    ASSUME Shapes, RowsOwned, Write
    PROVE  /\ Shapes' /\ RowsOwned'
           /\ Listed \subseteq Listed'
           /\ \A c \in Clusters : Histories(c) \subseteq Histories(c)'
  <1>1. CASE \E c \in Clusters, n \in Names :
               Registry!Register(c, n) \/ Registry!Rename(c, n)
    <2> PICK c \in Clusters, n \in Names :
               Registry!Register(c, n) \/ Registry!Rename(c, n)
      BY <1>1
    <2>1. log' = log /\ name' = [name EXCEPT ![c] = n]
      BY DEF Registry!Register, Registry!Rename
    <2>2. \A d \in Clusters : Histories(d)' = Histories(d)
      BY <2>1 DEF Histories
    <2>3. Shapes'
      BY <2>1 DEF Shapes, Registry!Register, Registry!Rename
    <2>4. \A d \in Clusters : owner[d] = Tenant => owner'[d] = Tenant
      BY DEF Registry!Register, Registry!Rename, Shapes, RowsOwned
    <2>5. RowsOwned'
      BY <2>1, QueryAssumption
      DEF Registry!Register, Registry!Rename, Shapes, RowsOwned
    <2> QED
      BY <2>2, <2>3, <2>4, <2>5 DEF Listed
  <1>2. CASE \E c \in Clusters, m \in Messages :
               Registry!Record([kind |-> Kind, cluster |-> c, message |-> m])
    <2>1. log \subseteq log' /\ name' = name /\ owner' = owner
      BY <1>2 DEF Registry!Record
    <2>2. \A d \in Clusters : Histories(d) \subseteq Histories(d)'
      BY <2>1 DEF Histories
    <2> QED
      BY <2>1, <2>2 DEF Shapes, RowsOwned, Listed
  <1> QED
    BY <1>1, <1>2 DEF Write

LEMMA StepPreserves == ASSUME IInv, [Next]_vars PROVE IInv'
  <1> USE DEF IInv
  <1>a. ASSUME UNCHANGED tables
        PROVE  /\ Shapes' /\ RowsOwned' /\ Listed' = Listed
               /\ \A c : Histories(c)' = Histories(c)
    BY <1>a DEF tables, Shapes, RowsOwned, Listed, Histories
  <1>1. CASE Receive
    <2>1. UNCHANGED tables /\ pc' = "rows" /\ todo' = {} /\ hs' = {}
          /\ names' = << >> /\ DOMAIN names' = {}
      BY <1>1 DEF Receive
    <2>2. began'.rows = Listed
          /\ began'.histories = UNION {Histories(c) : c \in Clusters}
      BY <1>1 DEF Receive
    <2>3. \A c \in Clusters : \A h \in Histories(c) : h.cluster = c
      BY DEF Histories
    <2>4. StillThere'
      BY <1>a, <2>1, <2>2, <2>3 DEF StillThere
    <2> QED
      BY <1>a, <2>1, <2>4 DEF ReadOwn, ReadSoFar, NothingToDo
  <1>2. CASE ListRows
    <2>1. UNCHANGED tables /\ hs' = hs /\ began' = began /\ todo' = Listed
          /\ DOMAIN names' = Listed
      BY <1>2 DEF ListRows
    <2>2. ReadOwn'
      BY <1>a, <2>1 DEF ReadOwn
    <2>3. StillThere'
      BY <1>a, <2>1 DEF StillThere
    <2>4. ReadSoFar'
      BY <2>1 DEF ReadSoFar, StillThere
    <2>5. NothingToDo'
      BY <1>2 DEF NothingToDo, ListRows
    <2> QED
      BY <1>a, <2>1, <2>2, <2>3, <2>4, <2>5
  <1>3. CASE RefuseFilter \/ QueryFails
    <2>1. UNCHANGED <<tables, local, began>> /\ pc' \notin {"histories", "OK"}
      BY <1>3 DEF RefuseFilter, QueryFails
    <2> QED
      BY <1>a, <2>1 DEF local, ReadOwn, StillThere, ReadSoFar, NothingToDo
  <1>4. ASSUME NEW c \in Clusters, ListHistories(c)
        PROVE  IInv'
    <2>1. /\ UNCHANGED <<tables, names, began>>
          /\ pc = "histories" /\ c \in todo
          /\ hs' = hs \cup {h \in Histories(c) : InWindow(h)}
          /\ todo' = todo \ {c}
          /\ pc' = IF todo = {c} THEN "OK" ELSE "histories"
      BY <1>4 DEF ListHistories
    <2>2. \A h \in Histories(c) : h.cluster = c
      BY DEF Histories
    <2>3. ReadOwn'
      BY <1>a, <2>1, <2>2 DEF ReadOwn
    <2>4. StillThere'
      BY <1>a, <2>1 DEF StillThere
    <2>5. ASSUME NEW h \in began.histories,
                 h.cluster \in DOMAIN names \ todo', InWindow(h)
          PROVE  h \in hs'
      <3>1. CASE h.cluster = c
        BY <2>1, <2>5, <3>1 DEF StillThere
      <3>2. CASE h.cluster # c
        BY <2>1, <2>5, <3>2 DEF ReadSoFar
      <3> QED
        BY <3>1, <3>2
    <2>6. ReadSoFar'
      BY <2>1, <2>5 DEF ReadSoFar, InWindow
    <2>7. NothingToDo'
      BY <2>1 DEF NothingToDo
    <2> QED
      BY <1>a, <2>1, <2>3, <2>4, <2>6, <2>7
  <1>5. CASE Write
    <2>1. UNCHANGED <<pc, local, began>>
      BY <1>5 DEF Write
    <2>2. /\ Shapes' /\ RowsOwned' /\ Listed \subseteq Listed'
          /\ \A c \in Clusters : Histories(c) \subseteq Histories(c)'
      BY <1>5, WritesOnlyAdd
    <2>3. ReadOwn'
      BY <2>1, <2>2 DEF local, ReadOwn
    <2>4. StillThere'
      BY <2>1, <2>2 DEF StillThere
    <2> QED
      BY <2>1, <2>2, <2>3, <2>4 DEF local, ReadSoFar, NothingToDo, InWindow
  <1>6. CASE RefuseCaller
    <2>1. /\ UNCHANGED tables /\ pc' = "Unauthenticated" /\ hs' = {}
          /\ todo' = {} /\ names' = << >> /\ DOMAIN names' = {}
          /\ began'.rows = {} /\ began'.histories = {}
      BY <1>6 DEF RefuseCaller
    <2> QED
      BY <1>a, <2>1 DEF ReadOwn, StillThere, ReadSoFar, NothingToDo
  <1>7. CASE UNCHANGED vars
    BY <1>a, <1>7
    DEF vars, local, ReadOwn, StillThere, ReadSoFar, NothingToDo
  <1> QED
    BY <1>1, <1>2, <1>3, <1>4, <1>5, <1>6, <1>7 DEF Next, Handler

LEMMA Invariance == Spec => []IInv
  BY InitEstablishes, StepPreserves, PTL DEF Spec

\* A tenant is never shown a history of a cluster that is not its own, and every
\* history shown belongs to a cluster whose name the handler knows.
THEOREM TenantsAreSeparate == Spec => []OwnClustersOnly
  <1>1. IInv => OwnClustersOnly
    BY DEF IInv, ReadOwn, Listed, OwnClustersOnly
  <1> QED
    BY Invariance, <1>1, PTL

\* No row and no history of the window that was there when a request arrived is
\* missing from its answer.
THEOREM AnswersCoverTheirStart == Spec => []NothingMissed
  <1>1. IInv => NothingMissed
    BY DEF IInv, ReadSoFar, NothingToDo, NothingMissed, Answered
  <1> QED
    BY Invariance, <1>1, PTL

LEMMA StepKeepsTypes == ASSUME IInv, TypeOK, [Next]_vars PROVE TypeOK'
  <1> USE DEF TypeOK, Replies
  <1>a. ASSUME UNCHANGED tables PROVE \A c : Histories(c)' = Histories(c)
    BY <1>a DEF tables, Histories
  <1>1. CASE Receive \/ RefuseCaller
    <2>1. /\ UNCHANGED tables /\ pc' \in {"rows", "Unauthenticated"}
          /\ todo' = {} /\ hs' = {} /\ names' = << >>
      BY <1>1 DEF Receive, RefuseCaller
    <2>2. names' \in [{} -> Names] /\ {} \in SUBSET Clusters
      BY <2>1
    <2> QED
      BY <2>1, <2>2
  <1>2. CASE ListRows
    <2>1. /\ UNCHANGED <<tables, hs>> /\ todo' = Listed
          /\ names' = [c \in Listed |-> name[c]] /\ pc' \in {"NotFound", "histories"}
      BY <1>2 DEF ListRows
    <2>2. \A c \in Listed : name[c] \in Names
      BY DEF Listed, IInv, Shapes, RowsOwned
    <2>3. names' \in [Listed -> Names] /\ Listed \in SUBSET Clusters
      BY <2>1, <2>2 DEF Listed
    <2>4. todo' \subseteq DOMAIN names'
      BY <2>1
    <2>5. hs' \subseteq UNION {Histories(c)' : c \in Clusters}
      BY <1>a, <2>1
    <2> QED
      BY <2>1, <2>3, <2>4, <2>5
  <1>3. CASE RefuseFilter \/ QueryFails
    <2>1. UNCHANGED <<tables, local>> /\ pc' \in Replies
      BY <1>3 DEF RefuseFilter, QueryFails
    <2> QED
      BY <1>a, <2>1 DEF local
  <1>4. ASSUME NEW c \in Clusters, ListHistories(c)
        PROVE  TypeOK'
    <2>1. /\ UNCHANGED <<tables, names>>
          /\ hs' = hs \cup {h \in Histories(c) : InWindow(h)}
          /\ todo' = todo \ {c}
          /\ pc' \in {"OK", "histories"}
      BY <1>4 DEF ListHistories
    <2>2. hs' \subseteq UNION {Histories(d)' : d \in Clusters}
      BY <1>a, <2>1
    <2> QED
      BY <2>1, <2>2
  <1>5. CASE Write
    <2>1. UNCHANGED <<pc, local>>
      BY <1>5 DEF Write
    <2>2. \A c \in Clusters : Histories(c) \subseteq Histories(c)'
      BY <1>5, WritesOnlyAdd DEF IInv
    <2>3. hs' \subseteq UNION {Histories(c)' : c \in Clusters}
      BY <2>1, <2>2 DEF local
    <2> QED
      BY <2>1, <2>3 DEF local
  <1>6. CASE UNCHANGED vars
    BY <1>a, <1>6 DEF vars, local
  <1> QED
    BY <1>1, <1>2, <1>3, <1>4, <1>5, <1>6 DEF Next, Handler

\* The handler only ever looks up names of the tenant's clusters, and everything
\* it shows is still stored.
THEOREM TypeCorrect == Spec => []TypeOK
  <1>1. Init => TypeOK
    <2>1. ASSUME Init
          PROVE  names \in [{} -> Names] /\ {} \in SUBSET Clusters
      BY <2>1 DEF Init
    <2> QED
      BY <2>1 DEF Init, TypeOK, Replies
  <1> QED
    BY <1>1, Invariance, StepKeepsTypes, PTL DEF Spec

-----------------------------------------------------------------------------
(* What the handler has read.                                              *)

\* The log is finite, made of messages, and has no two histories of a cluster
\* at the same time; and so many rows are there as were registered.
Stored ==
    /\ IsFiniteSet(log)
    /\ \A e \in log : e.cluster \in Clusters /\ e.message \in Messages
    /\ \A d, e \in log : /\ d.kind = Kind /\ e.kind = Kind
                         /\ d.cluster = e.cluster /\ d.message.at = e.message.at
                            => d.message.nodes = e.message.nodes
    /\ IsFiniteSet(Listed)

LEMMA InitStored == ASSUME Init PROVE Stored
  <1>1. log = {} /\ Listed = {}
    BY QueryAssumption DEF Init, Registry!Init, Listed
  <1> QED
    BY <1>1, FS_EmptySet DEF Stored

LEMMA StepKeepsStored == ASSUME Shapes, Stored, [Next]_vars PROVE Stored'
  <1>1. CASE UNCHANGED tables
    BY <1>1 DEF tables, Stored, Listed
  <1>2. CASE Write
    <2>1. ASSUME NEW c \in Clusters, NEW n \in Names,
                 Registry!Register(c, n) \/ Registry!Rename(c, n)
          PROVE  Stored'
      <3>1. log' = log
        BY <2>1 DEF Registry!Register, Registry!Rename
      <3>2. Listed' \subseteq Listed \cup {c}
        BY <2>1 DEF Registry!Register, Registry!Rename, Listed, Shapes
      <3>3. IsFiniteSet(Listed \cup {c})
        BY FS_AddElement DEF Stored
      <3>4. IsFiniteSet(Listed')
        BY <3>2, <3>3, FS_Subset
      <3> QED
        BY <3>1, <3>4 DEF Stored
    <2>2. ASSUME NEW c \in Clusters, NEW m \in Messages,
                 \A h \in Histories(c) : h.at # m.at,
                 Registry!Record([kind |-> Kind, cluster |-> c, message |-> m])
          PROVE  Stored'
      <3> DEFINE new == [kind |-> Kind, cluster |-> c, message |-> m]
      <3>1. log' = log \cup {new} /\ Listed' = Listed
        BY <2>2 DEF Registry!Record, Listed
      <3>2. IsFiniteSet(log')
        BY <3>1, FS_AddElement DEF Stored
      <3>3. \A e \in log : e.kind = Kind /\ e.cluster = c => e.message.at # m.at
        <4> SUFFICES ASSUME NEW e \in log, e.kind = Kind, e.cluster = c
                     PROVE  e.message.at # m.at
          OBVIOUS
        <4> DEFINE h == [cluster |-> c, at |-> e.message.at, nodes |-> e.message.nodes]
        <4>1. h \in Histories(c)
          BY DEF Histories
        <4>2. h.at = e.message.at
          OBVIOUS
        <4> QED
          BY <2>2, <4>1, <4>2
      <3> QED
        BY <3>1, <3>2, <3>3 DEF Stored
    <2> QED
      BY <1>2, <2>1, <2>2 DEF Write
  <1> QED
    BY <1>1, <1>2 DEF Next, Handler, vars, RefuseCaller, Receive, ListRows,
       RefuseFilter, QueryFails, ListHistories

WellRead ==
    /\ IsFiniteSet(hs)
    /\ \A h \in hs : h.nodes \in Contents /\ h.cluster \in DOMAIN names
    /\ \A g, h \in hs : g.cluster = h.cluster /\ g.at = h.at => g = h
    /\ IsFiniteSet(DOMAIN names)

LEMMA ReadWell == ASSUME IInv, TypeOK, Stored PROVE WellRead
  <1> DEFINE History(e) == [cluster |-> e.cluster, at |-> e.message.at,
                            nodes |-> e.message.nodes]
             b == [e \in log |-> History(e)]
  <1>1. hs \subseteq {b[e] : e \in log}
    BY DEF TypeOK, Histories
  <1>2. IsFiniteSet(hs)
    <2> HIDE DEF b
    <2>1. IsFiniteSet({b[e] : e \in log})
      BY FiniteImage DEF Stored
    <2> QED
      BY <1>1, <2>1, FS_Subset
  <1>3. \A h \in hs : \E e \in log : h = History(e) /\ e.kind = Kind
    BY DEF TypeOK, Histories
  <1>4. \A h \in hs : h.nodes \in Contents
    BY <1>3 DEF Stored, Messages
  <1>5. \A g, h \in hs : g.cluster = h.cluster /\ g.at = h.at => g = h
    BY <1>3 DEF Stored
  <1>6. IsFiniteSet(DOMAIN names)
    BY FS_Subset DEF Stored, IInv, ReadOwn
  <1> QED
    BY <1>2, <1>4, <1>5, <1>6 DEF WellRead, IInv, ReadOwn

LEMMA AlwaysWellRead == Spec => []WellRead
  <1>1. IInv => Shapes
    BY DEF IInv
  <1> QED
    BY <1>1, InitStored, StepKeepsStored, ReadWell, Invariance, TypeCorrect, PTL DEF Spec

-----------------------------------------------------------------------------
(* The numbers of ListGpuUsages.                                           *)

\* Of the histories in B, each has at most one node that counts for cn.
LEMMA OneNode ==
    ASSUME UsageAssumption, NEW h, h.nodes \in Contents, NEW cn
    PROVE  /\ IsFiniteSet(NodesNamed(h, cn))
           /\ NodesNamed(h, cn) \subseteq h.nodes
           /\ Cardinality(NodesNamed(h, cn)) <= 1
  <1> DEFINE N == NodesNamed(h, cn)
  <1>1. N \subseteq h.nodes /\ IsFiniteSet(h.nodes)
    BY DEF NodesNamed, UsageAssumption
  <1>2. \A m, n \in N : m = n
    BY DEF NodesNamed, ClusterNode, UsageAssumption
  <1>3. N = {} \/ \E n \in N : N = {n}
    BY <1>2
  <1> HIDE DEF N
  <1>4. Cardinality(N) <= 1
    <2>1. Cardinality(N) = 0 \/ Cardinality(N) = 1
      BY <1>3, FS_EmptySet, FS_Singleton
    <2> QED
      BY <2>1
  <1>5. IsFiniteSet(N)
    BY <1>1, FS_Subset
  <1> QED
    BY <1>1, <1>4, <1>5 DEF N

AmountOf(h, cn, field) ==
    SumFunction([node \in NodesNamed(h, cn) |-> node[field]])

LEMMA AmountBounded ==
    ASSUME UsageAssumption, NEW h, h.nodes \in Contents, NEW cn,
           NEW field, NEW m \in Nat,
           \A node \in NodesNamed(h, cn) : node[field] \in Nat /\ node[field] <= m
    PROVE  /\ AmountOf(h, cn, field) \in 0..m
           /\ NodesNamed(h, cn) = {} => AmountOf(h, cn, field) = 0
  <1> DEFINE N == NodesNamed(h, cn)
             f == [node \in N |-> node[field]]
             s == SumFunctionOnSet(f, N)
  <1>1. IsFiniteSet(N) /\ Cardinality(N) \in Nat /\ Cardinality(N) <= 1
    BY OneNode, FS_CardinalityType
  <1>2. AmountOf(h, cn, field) = s
    BY DEF AmountOf, SumFunction
  <1>3. \A x \in N : f[x] \in Nat /\ f[x] <= m
    OBVIOUS
  <1> HIDE DEF f, N
  <1>4. s \in Nat /\ s <= Cardinality(N) * m
    BY <1>1, <1>3, SumType, SumBounded
  <1>5. N = {} => s = 0
    BY SumEmpty
  <1>6. Cardinality(N) * m <= m
    <2>1. Cardinality(N) = 0 \/ Cardinality(N) = 1
      BY <1>1
    <2> QED
      BY <2>1
  <1>7. Cardinality(N) * m \in Nat
    BY <1>1
  <1> HIDE DEF s
  <1> QED
    BY <1>2, <1>4, <1>5, <1>6, <1>7 DEF N

LEMMA SumOfIs ==
    ASSUME NEW B, NEW cn, NEW field
    PROVE  SumOf(B, cn, field) =
             SumFunctionOnSet([h \in B |-> AmountOf(h, cn, field)], B)
  <1>1. SumOf(B, cn, field) =
          SumFunctionOnSet([h \in B |->
              SumFunction([node \in NodesNamed(h, cn) |-> node[field]])], B)
    BY SumFunctionIs DEF SumOf
  <1>2. \A h : SumFunction([node \in NodesNamed(h, cn) |-> node[field]])
                 = AmountOf(h, cn, field)
    BY DEF AmountOf, SumFunction
  <1> QED
    BY <1>1, <1>2

\* What calculateGPUUsageValues divides: the sum is at most m for each history
\* it divides by, and it never divides by zero.
LEMMA GroupBounded ==
    ASSUME UsageAssumption, NEW B, IsFiniteSet(B), \A h \in B : h.nodes \in Contents,
           NEW cn \in ClusterNodes(B), NEW field, NEW m \in Nat,
           \A h \in B : \A node \in NodesNamed(h, cn) :
               node[field] \in Nat /\ node[field] <= m
    PROVE  /\ SumOf(B, cn, field) \in Nat
           /\ NodeHsCount(B, cn) \in Nat \ {0}
           /\ SumOf(B, cn, field) <= NodeHsCount(B, cn) * m
  <1> DEFINE T == {h \in B : NodesNamed(h, cn) # {}}
             f == [h \in B |-> AmountOf(h, cn, field)]
  <1>1. SumOf(B, cn, field) = SumFunctionOnSet(f, B)
    BY SumOfIs
  <1>2. NodeHsCount(B, cn) = Cardinality(T)
    BY DEF NodeHsCount
  <1>3. \A h \in B : f[h] \in Nat /\ f[h] <= m /\ (h \notin T => f[h] = 0)
    BY AmountBounded
  <1>4. T \subseteq B /\ T # {}
    <2>1. PICK h \in B : \E node \in h.nodes : cn = ClusterNode(h, node)
      BY DEF ClusterNodes
    <2>2. NodesNamed(h, cn) # {}
      BY <2>1 DEF NodesNamed
    <2> QED
      BY <2>2
  <1> HIDE DEF f, T
  <1>5. IsFiniteSet(T) /\ Cardinality(T) \in Nat \ {0}
    BY <1>4, FS_Subset, FS_CardinalityType, FS_EmptySet
  <1>6. SumFunctionOnSet(f, B) = SumFunctionOnSet(f, T)
    BY <1>3, <1>4, SumSupport
  <1>7. SumFunctionOnSet(f, T) \in Nat /\ SumFunctionOnSet(f, T) <= Cardinality(T) * m
    BY <1>3, <1>4, <1>5, SumType, SumBounded
  <1> QED
    BY <1>1, <1>2, <1>5, <1>6, <1>7

LEMMA HighestIsMax ==
    ASSUME UsageAssumption, NEW B, IsFiniteSet(B), \A h \in B : h.nodes \in Contents,
           NEW cn \in ClusterNodes(B), NEW field,
           \A h \in B : \A node \in NodesNamed(h, cn) : node[field] \in Nat
    PROVE  /\ Highest(B, cn, field) \in Nat
           /\ \A h \in B : \A node \in NodesNamed(h, cn) :
                 node[field] <= Highest(B, cn, field)
           /\ \E h \in B : \E node \in NodesNamed(h, cn) :
                 node[field] = Highest(B, cn, field)
  <1> DEFINE v(h) == {node[field] : node \in NodesNamed(h, cn)}
             b == [h \in B |-> v(h)]
             V == UNION {v(h) : h \in B}
  <1>1. \A h \in B : IsFiniteSet(v(h))
    <2> SUFFICES ASSUME NEW h \in B
                 PROVE  IsFiniteSet(v(h))
      OBVIOUS
    <2> DEFINE N == NodesNamed(h, cn)
               g == [node \in N |-> node[field]]
    <2>1. IsFiniteSet(N)
      BY OneNode
    <2>2. v(h) = {g[node] : node \in N}
      OBVIOUS
    <2> HIDE DEF g, N, v
    <2>3. IsFiniteSet({g[node] : node \in N})
      BY <2>1, FiniteImage
    <2> QED
      BY <2>2, <2>3
  <1>2. IsFiniteSet({v(h) : h \in B})
    <2>1. {v(h) : h \in B} = {b[h] : h \in B}
      OBVIOUS
    <2> HIDE DEF b
    <2>2. IsFiniteSet({b[h] : h \in B})
      BY FiniteImage
    <2> HIDE DEF v
    <2> QED
      BY <2>1, <2>2
  <1>3. IsFiniteSet(V)
    <2> DEFINE W == {v(h) : h \in B}
    <2>1. \A T \in W : IsFiniteSet(T)
      BY <1>1
    <2>2. IsFiniteSet(W)
      BY <1>2
    <2> HIDE DEF W
    <2>3. IsFiniteSet(UNION W)
      BY <2>1, <2>2, FS_UNION
    <2> QED
      BY <2>3 DEF W
  <1>4. V # {} /\ V \subseteq Nat
    <2>1. PICK h \in B : \E node \in h.nodes : cn = ClusterNode(h, node)
      BY DEF ClusterNodes
    <2>2. NodesNamed(h, cn) # {}
      BY <2>1 DEF NodesNamed
    <2> QED
      BY <2>2
  <1>5. Highest(B, cn, field) = Max(V)
    BY DEF Highest
  <1>6. \A h \in B : \A node \in NodesNamed(h, cn) : node[field] \in V
    OBVIOUS
  <1>7. \A y \in V : \E h \in B : \E node \in NodesNamed(h, cn) : node[field] = y
    OBVIOUS
  <1> HIDE DEF V
  <1>8. Max(V) \in V /\ \A y \in V : y <= Max(V)
    BY <1>3, <1>4, MaxIs
  <1> QED
    BY <1>4, <1>5, <1>6, <1>7, <1>8

\* The bucket of an interval is made of what was read.
LEMMA GPUBucket ==
    ASSUME WellRead, NEW t
    PROVE  /\ IsFiniteSet(Bucket(t))
           /\ \A h \in Bucket(t) : h \in hs /\ h.nodes \in Contents
  <1>1. Bucket(t) \subseteq hs
    BY DEF Bucket
  <1>2. IsFiniteSet(Bucket(t))
    BY <1>1, FS_Subset DEF WellRead
  <1> QED
    BY <1>1, <1>2 DEF WellRead

LEMMA Numbers ==
    ASSUME UsageAssumption, NEW h, h.nodes \in Contents, NEW cn,
           NEW node \in NodesNamed(h, cn)
    PROVE  /\ node.maxGPUUsed \in Nat /\ node.avgGPUUsed \in Nat
           /\ node.avgGPUUsed <= node.maxGPUUsed
           /\ node.maxGPUMemoryUsed \in Nat /\ node.avgGPUMemoryUsed \in Nat
           /\ node.avgGPUMemoryUsed <= node.maxGPUMemoryUsed
  BY DEF NodesNamed, UsageAssumption

\* The maximum of a group bounds what its average is taken of.
LEMMA GroupAverage ==
    ASSUME UsageAssumption, NEW B, IsFiniteSet(B), \A h \in B : h.nodes \in Contents,
           NEW cn \in ClusterNodes(B), NEW avg, NEW max,
           \A h \in B : \A node \in NodesNamed(h, cn) :
               node[max] \in Nat /\ node[avg] \in Nat /\ node[avg] <= node[max]
    PROVE  /\ Highest(B, cn, max) \in Nat
           /\ SumOf(B, cn, avg) \in Nat
           /\ NodeHsCount(B, cn) \in Nat \ {0}
           /\ SumOf(B, cn, avg) <= NodeHsCount(B, cn) * Highest(B, cn, max)
  <1> DEFINE m == Highest(B, cn, max)
  <1>1. m \in Nat
    BY HighestIsMax
  <1>2. \A h \in B : \A node \in NodesNamed(h, cn) :
          node[avg] \in Nat /\ node[avg] <= m
    <2>1. \A h \in B : \A node \in NodesNamed(h, cn) : node[max] <= m
      BY HighestIsMax
    <2> HIDE DEF m
    <2> QED
      BY <1>1, <2>1
  <1> HIDE DEF m
  <1>3. /\ SumOf(B, cn, avg) \in Nat
        /\ NodeHsCount(B, cn) \in Nat \ {0}
        /\ SumOf(B, cn, avg) <= NodeHsCount(B, cn) * m
    BY <1>1, <1>2, GroupBounded
  <1> QED
    BY <1>1, <1>3 DEF m

LEMMA AverageAtMostMaxHolds ==
    ASSUME UsageAssumption, WellRead
    PROVE  AverageAtMostMax
  <1> SUFFICES ASSUME NEW t \in Slots, NEW cn \in AllClusterNodes
               PROVE  LET v == Values(t)[cn]
                      IN  /\ v.avgGPUUsed.num <= v.avgGPUUsed.den * v.maxGPUUsed
                          /\ v.avgGPUMemoryUsed <= v.maxGPUMemoryUsed
    BY DEF AverageAtMostMax
  <1> DEFINE B == Bucket(t)
             v == Values(t)[cn]
  <1>1. CASE cn \in ClusterNodes(B)
    <2>1. /\ v.maxGPUUsed = Highest(B, cn, "maxGPUUsed")
          /\ v.avgGPUUsed.num = SumOf(B, cn, "avgGPUUsed")
          /\ v.avgGPUUsed.den = NodeHsCount(B, cn)
          /\ v.maxGPUMemoryUsed = Highest(B, cn, "maxGPUMemoryUsed")
          /\ v.avgGPUMemoryUsed =
               SumOf(B, cn, "avgGPUMemoryUsed") \div NodeHsCount(B, cn)
      BY <1>1 DEF Values
    <2>2. IsFiniteSet(B) /\ \A h \in B : h.nodes \in Contents
      BY GPUBucket
    <2> HIDE DEF B, v
    <2>3. \A h \in B : \A node \in NodesNamed(h, cn) :
            /\ node["maxGPUUsed"] \in Nat /\ node["avgGPUUsed"] \in Nat
            /\ node["avgGPUUsed"] <= node["maxGPUUsed"]
            /\ node["maxGPUMemoryUsed"] \in Nat /\ node["avgGPUMemoryUsed"] \in Nat
            /\ node["avgGPUMemoryUsed"] <= node["maxGPUMemoryUsed"]
      BY <2>2, Numbers
    <2>4. v.avgGPUUsed.num <= v.avgGPUUsed.den * v.maxGPUUsed
      <3>1. SumOf(B, cn, "avgGPUUsed")
              <= NodeHsCount(B, cn) * Highest(B, cn, "maxGPUUsed")
        BY <1>1, <2>2, <2>3, GroupAverage
      <3> QED
        BY <2>1, <3>1
    <2>5. v.avgGPUMemoryUsed <= v.maxGPUMemoryUsed
      <3> DEFINE m == Highest(B, cn, "maxGPUMemoryUsed")
                 a == SumOf(B, cn, "avgGPUMemoryUsed")
                 d == NodeHsCount(B, cn)
      <3>1. m \in Nat /\ a \in Nat /\ d \in Nat \ {0} /\ a <= d * m
        BY <1>1, <2>2, <2>3, GroupAverage
      <3> HIDE DEF m, a, d
      <3>2. a \div d <= m
        BY <3>1, Quotients
      <3> QED
        BY <2>1, <3>2 DEF m, a, d
    <2> QED
      BY <2>4, <2>5 DEF v
  <1>2. CASE cn \notin ClusterNodes(B)
    <2>1. v = [maxGPUUsed |-> 0, avgGPUUsed |-> [num |-> 0, den |-> 1],
               maxGPUMemoryUsed |-> 0, avgGPUMemoryUsed |-> 0]
      BY <1>2 DEF Values
    <2> HIDE DEF v
    <2>2. /\ v.avgGPUUsed.num <= v.avgGPUUsed.den * v.maxGPUUsed
          /\ v.avgGPUMemoryUsed <= v.maxGPUMemoryUsed
      BY <2>1
    <2> QED
      BY <2>2 DEF v
  <1> QED
    BY <1>1, <1>2

LEMMA PeaksShownHolds ==
    ASSUME UsageAssumption, WellRead
    PROVE  PeaksShown
  <1> SUFFICES ASSUME NEW t \in Slots, NEW h \in hs, NEW node \in h.nodes
               PROVE
            LET cn == ClusterNode(h, node)
                shown == Values(t)[cn]
            IN  /\ cn \in DOMAIN Values(t)
                /\ \A field \in {"maxGPUUsed", "maxGPUMemoryUsed"} :
                     /\ \A n \in Reported(t, cn) : n[field] <= shown[field]
                     /\ shown[field] \in {n[field] : n \in Reported(t, cn)} \cup {0}
                /\ Reported(t, cn) = {} =>
                     shown.avgGPUUsed.num = 0 /\ shown.avgGPUMemoryUsed = 0
    BY DEF PeaksShown
  <1> DEFINE B  == Bucket(t)
             cn == ClusterNode(h, node)
             shown == Values(t)[cn]
  <1>1. IsFiniteSet(B) /\ \A x \in B : x \in hs /\ x.nodes \in Contents
    BY GPUBucket
  <1>2. cn \in AllClusterNodes /\ cn \in DOMAIN Values(t)
    BY DEF AllClusterNodes, ClusterNodes, Values
  <1>3. \A n : n \in Reported(t, cn) <=> \E x \in B : n \in NodesNamed(x, cn)
    BY DEF Reported, NodesNamed
  <1>4. CASE cn \in ClusterNodes(B)
    <2>1. /\ shown.maxGPUUsed = Highest(B, cn, "maxGPUUsed")
          /\ shown.maxGPUMemoryUsed = Highest(B, cn, "maxGPUMemoryUsed")
      BY <1>2, <1>4 DEF Values
    <2>2. Reported(t, cn) # {}
      <3>1. PICK x \in B : \E n \in x.nodes : cn = ClusterNode(x, n)
        BY <1>4 DEF ClusterNodes
      <3> QED
        BY <1>3, <3>1 DEF NodesNamed
    <2> HIDE DEF B, cn, shown
    <2>3. ASSUME NEW field \in {"maxGPUUsed", "maxGPUMemoryUsed"}
          PROVE  /\ \A n \in Reported(t, cn) : n[field] <= shown[field]
                 /\ shown[field] \in {n[field] : n \in Reported(t, cn)}
      <3>1. \A x \in B : \A n \in NodesNamed(x, cn) : n[field] \in Nat
        BY <1>1, Numbers
      <3>2. shown[field] = Highest(B, cn, field)
        BY <2>1
      <3>3. /\ \A x \in B : \A n \in NodesNamed(x, cn) : n[field] <= shown[field]
            /\ \E x \in B : \E n \in NodesNamed(x, cn) : n[field] = shown[field]
        BY <1>1, <1>4, <3>1, <3>2, HighestIsMax
      <3> QED
        BY <1>3, <3>3
    <2> QED
      BY <1>2, <2>2, <2>3 DEF cn, shown
  <1>5. CASE cn \notin ClusterNodes(B)
    <2>1. Reported(t, cn) = {}
      BY <1>3, <1>5 DEF ClusterNodes, NodesNamed
    <2>2. /\ shown.maxGPUUsed = 0 /\ shown.maxGPUMemoryUsed = 0
          /\ shown.avgGPUUsed.num = 0 /\ shown.avgGPUMemoryUsed = 0
      BY <1>2, <1>5 DEF Values
    <2> HIDE DEF B, cn, shown
    <2> QED
      BY <1>2, <2>1, <2>2 DEF cn, shown
  <1> QED
    BY <1>4, <1>5

\* The reports of a node, one for each history it is in.
LEMMA NodesOnTheirOwnHolds ==
    ASSUME UsageAssumption, WellRead
    PROVE  NodesOnTheirOwn
  <1> SUFFICES ASSUME \A c, d \in DOMAIN names : names[c] = names[d] => c = d,
                      NEW t \in Slots, NEW h \in Bucket(t), NEW node \in h.nodes
               PROVE
            LET reports == UNION {{[at |-> x.at, usage |-> n] : n \in x.nodes} :
                                    x \in {y \in Bucket(t) : y.cluster = h.cluster}}
                own == {r \in reports : r.usage.name = node.name}
                sum == SumFunction([r \in own |-> r.usage.avgGPUUsed])
                shown == Values(t)[ClusterNode(h, node)].avgGPUUsed
            IN  shown.num * Cardinality(own) = sum * shown.den
    BY DEF NodesOnTheirOwn
  <1> DEFINE B == Bucket(t)
             cn == ClusterNode(h, node)
             reports == UNION {{[at |-> x.at, usage |-> n] : n \in x.nodes} :
                                 x \in {y \in B : y.cluster = h.cluster}}
             own == {r \in reports : r.usage.name = node.name}
             shown == Values(t)[cn].avgGPUUsed
             T == {x \in B : NodesNamed(x, cn) # {}}
             The(x) == CHOOSE n \in NodesNamed(x, cn) : TRUE
             b == [x \in T |-> [at |-> x.at, usage |-> The(x)]]
             f == [x \in B |-> AmountOf(x, cn, "avgGPUUsed")]
             g == [r \in own |-> r.usage.avgGPUUsed]
  <1>1. IsFiniteSet(B) /\ \A x \in B : x \in hs /\ x.nodes \in Contents
    BY GPUBucket
  <1>2. cn \in ClusterNodes(B) /\ node \in NodesNamed(h, cn) /\ h \in B
    BY DEF ClusterNodes, NodesNamed
  <1>3. /\ shown.num = SumOf(B, cn, "avgGPUUsed")
        /\ shown.den = NodeHsCount(B, cn)
    <2>1. cn \in AllClusterNodes
      BY <1>1 DEF AllClusterNodes, ClusterNodes
    <2> QED
      BY <1>2, <2>1 DEF Values
  <1>4. \A x \in B : \A n \in x.nodes :
          n \in NodesNamed(x, cn) <=> x.cluster = h.cluster /\ n.name = node.name
    <2>1. \A x \in B : x.cluster \in DOMAIN names
      BY <1>1 DEF WellRead
    <2> QED
      BY <1>2, <2>1 DEF NodesNamed, ClusterNode
  <1>5. \A x \in T : /\ The(x) \in x.nodes /\ NodesNamed(x, cn) = {The(x)}
                     /\ x.cluster = h.cluster /\ The(x).name = node.name
    <2> SUFFICES ASSUME NEW x \in T
                 PROVE  /\ The(x) \in x.nodes /\ NodesNamed(x, cn) = {The(x)}
                        /\ x.cluster = h.cluster /\ The(x).name = node.name
      OBVIOUS
    <2>1. The(x) \in NodesNamed(x, cn)
      OBVIOUS
    <2>2. NodesNamed(x, cn) \subseteq x.nodes
      BY DEF NodesNamed
    <2>3. \A m, n \in NodesNamed(x, cn) : m = n
      BY <1>1 DEF NodesNamed, ClusterNode, UsageAssumption
    <2> HIDE DEF The
    <2> QED
      BY <1>4, <2>1, <2>2, <2>3
  <1>6. \A x \in T : f[x] = The(x)["avgGPUUsed"] /\ f[x] \in Nat
    <2> SUFFICES ASSUME NEW x \in T
                 PROVE  f[x] = The(x)["avgGPUUsed"] /\ f[x] \in Nat
      OBVIOUS
    <2> DEFINE a == [n \in NodesNamed(x, cn) |-> n["avgGPUUsed"]]
    <2>1. NodesNamed(x, cn) = {The(x)}
      BY <1>5
    <2> HIDE DEF The
    <2>2. f[x] = SumFunctionOnSet(a, NodesNamed(x, cn))
      BY DEF AmountOf, SumFunction
    <2>3. a[The(x)] = The(x)["avgGPUUsed"] /\ a[The(x)] \in Nat
      BY <1>1, <2>1, Numbers
    <2> HIDE DEF a
    <2>4. SumFunctionOnSet(a, {The(x)}) = a[The(x)]
      BY <2>3, SumSingleton
    <2> QED
      BY <2>1, <2>2, <2>3, <2>4
  <1>7. own = {b[x] : x \in T}
    <2>1. ASSUME NEW x \in T
          PROVE  b[x] \in own
      <3> DEFINE r == [at |-> x.at, usage |-> The(x)]
      <3>1. x \in B /\ x.cluster = h.cluster /\ The(x) \in x.nodes /\ The(x).name = node.name
        BY <1>5
      <3>2. b[x] = r
        OBVIOUS
      <3> HIDE DEF The
      <3>3. r \in reports
        BY <3>1
      <3>4. r.usage.name = node.name
        BY <3>1
      <3> HIDE DEF r, reports, b
      <3> QED
        BY <3>2, <3>3, <3>4
    <2>2. ASSUME NEW r \in own
          PROVE  \E x \in T : r = b[x]
      <3>1. PICK x \in B : /\ x.cluster = h.cluster
                           /\ \E n \in x.nodes : r = [at |-> x.at, usage |-> n]
        OBVIOUS
      <3>2. PICK n \in x.nodes : r = [at |-> x.at, usage |-> n]
        BY <3>1
      <3>3. n \in NodesNamed(x, cn)
        BY <1>4, <3>1, <3>2
      <3>4. x \in T /\ n = The(x)
        BY <1>5, <3>3
      <3> QED
        BY <3>2, <3>4
    <2> HIDE DEF own, b
    <2> QED
      BY <2>1, <2>2
  <1>8. \A x \in T : \A y \in T : b[x] = b[y] => x = y
    <2>1. \A x \in T : x \in hs /\ x.cluster = h.cluster /\ b[x].at = x.at
      BY <1>1, <1>5
    <2> HIDE DEF T, b
    <2> QED
      BY <2>1 DEF WellRead
  <1>9. \A x \in T : g[b[x]] = f[x]
    <2>1. \A x \in T : b[x] \in own /\ b[x].usage = The(x)
      BY <1>7
    <2> HIDE DEF b, own
    <2>2. \A x \in T : g[b[x]] = The(x)["avgGPUUsed"]
      BY <2>1
    <2> QED
      BY <1>6, <2>2
  <1>10. IsFiniteSet(T) /\ T \subseteq B
    BY <1>1, FS_Subset
  <1>11. /\ Cardinality(own) = Cardinality(T)
         /\ SumFunctionOnSet(g, own) = SumFunctionOnSet(f, T)
    <2> HIDE DEF T, b, f, g, own
    <2>1. \A x \in T : f[x] \in Nat /\ g[b[x]] = f[x]
      BY <1>6, <1>9
    <2> QED
      BY <1>7, <1>8, <1>10, <2>1, SumImage
  <1>12. SumOf(B, cn, "avgGPUUsed") = SumFunctionOnSet(f, T)
    <2>1. SumOf(B, cn, "avgGPUUsed") = SumFunctionOnSet(f, B)
      BY SumOfIs
    <2>2. \A x \in B \ T : f[x] = 0
      <3> SUFFICES ASSUME NEW x \in B \ T
                   PROVE  f[x] = 0
        OBVIOUS
      <3>1. NodesNamed(x, cn) = {}
        OBVIOUS
      <3> QED
        BY <3>1, SumEmpty DEF AmountOf, SumFunction
    <2> HIDE DEF T, f, B
    <2> QED
      BY <1>1, <1>6, <1>10, <2>1, <2>2, SumSupport
  <1>13. NodeHsCount(B, cn) = Cardinality(T)
    BY DEF NodeHsCount
  <1>14. SumFunction(g) = SumFunctionOnSet(g, own)
    <2>1. DOMAIN g = own
      OBVIOUS
    <2> HIDE DEF g, own
    <2> QED
      BY <2>1, SumFunctionIs
  <1>15. shown.num * Cardinality(own) = SumFunction(g) * shown.den
    <2> HIDE DEF shown, g, own, T, f, B, cn
    <2> QED
      BY <1>3, <1>11, <1>12, <1>13, <1>14
  <1> QED
    BY <1>15

\* For every number of clusters, nodes, histories and intervals: no average that
\* ListGpuUsages shows is above the maximum it shows beside it.
THEOREM AveragesAtMostMaxima ==
    ASSUME UsageAssumption
    PROVE  Spec => []AverageAtMostMax
  <1>1. WellRead => AverageAtMostMax
    BY AverageAtMostMaxHolds
  <1> QED
    BY <1>1, AlwaysWellRead, PTL

\* ... every interval shows each node's peak of just that interval, and zeros for a
\* node that was silent.
THEOREM PeaksAreShown ==
    ASSUME UsageAssumption
    PROVE  Spec => []PeaksShown
  <1>1. WellRead => PeaksShown
    BY PeaksShownHolds
  <1> QED
    BY <1>1, AlwaysWellRead, PTL

\* ... and where clusters have different names, no node is mixed with another.
THEOREM NodesAreOnTheirOwn ==
    ASSUME UsageAssumption
    PROVE  Spec => []NodesOnTheirOwn
  <1>1. WellRead => NodesOnTheirOwn
    BY NodesOnTheirOwnHolds
  <1> QED
    BY <1>1, AlwaysWellRead, PTL

-----------------------------------------------------------------------------
(* The numbers of ListClusterSnapshots.                                    *)

LEMMA SnapBucket ==
    ASSUME WellRead, NEW t
    PROVE  /\ IsFiniteSet(Bucket(t))
           /\ \A h \in Bucket(t) :
                h \in hs /\ h.nodes \in Contents /\ h.cluster \in DOMAIN names
  <1>1. Bucket(t) \subseteq hs
    BY DEF Bucket
  <1>2. IsFiniteSet(Bucket(t))
    BY <1>1, FS_Subset DEF WellRead
  <1> QED
    BY <1>1, <1>2 DEF WellRead

LEMMA AmountsAreNatural ==
    ASSUME ReportAssumption, NEW h, h.nodes \in Contents, NEW f \in Fields
    PROVE  IsFiniteSet(h.nodes) /\ \A node \in h.nodes : Amount(node, f) \in Nat
  BY DEF ReportAssumption, Fields, Amount

\* What one history adds to the sum of a group.
LEMMA SumOfHistory ==
    ASSUME ReportAssumption, NEW h, h.nodes \in Contents, NEW f \in Fields,
           NEW g, NEW by
    PROVE  /\ Sum(h, g, by, names, f) \in Nat
           /\ NodesOf(h, g, by, names) = {} => Sum(h, g, by, names, f) = 0
  <1> DEFINE N == NodesOf(h, g, by, names)
             a == [node \in N |-> Amount(node, f)]
  <1>1. N \subseteq h.nodes
    BY DEF NodesOf
  <1>2. Sum(h, g, by, names, f) = SumFunctionOnSet(a, N)
    BY SumFunctionIs DEF Sum
  <1>3. IsFiniteSet(N) /\ \A node \in N : a[node] \in Nat
    BY <1>1, AmountsAreNatural, FS_Subset
  <1> HIDE DEF a, N
  <1>4. SumFunctionOnSet(a, N) \in Nat /\ (N = {} => SumFunctionOnSet(a, N) = 0)
    BY <1>3, SumType, SumEmpty
  <1> QED
    BY <1>2, <1>4 DEF N

\* The histories of B in which a group appears, and what each adds to its sum.
Appearing(B, g, by) == {h \in B : NodesOf(h, g, by, names) # {}}
AddedBy(B, g, by, f) == [h \in B |-> Sum(h, g, by, names, f)]

\* The quotient that calculateSnapshotValues forms, of the histories in which the
\* group appears; it never divides by zero.
LEMMA AverageOverAppearances ==
    ASSUME ReportAssumption,
           NEW B, IsFiniteSet(B), \A h \in B : h.nodes \in Contents,
           NEW f \in Fields, NEW by, NEW g \in GroupingValues(B, by, names)
    PROVE  LET T == Appearing(B, g, by)
               s == AddedBy(B, g, by, f)
           IN  /\ IsFiniteSet(T) /\ T # {} /\ Cardinality(T) \in Nat \ {0}
               /\ \A h \in T : s[h] \in Nat
               /\ SumFunctionOnSet(s, T) \in Nat
               /\ Unit(f) \in Nat \ {0}
               /\ Average(B, g, by, names, f) =
                    (SumFunctionOnSet(s, T) \div Cardinality(T)) \div Unit(f)
  <1> DEFINE T == Appearing(B, g, by)
             s == AddedBy(B, g, by, f)
  <1> USE DEF Appearing
  <1>1. T \subseteq B /\ T # {}
    <2>1. PICK h \in B : \E node \in h.nodes : g = GroupingValue(h, node, by, names)
      BY DEF GroupingValues
    <2>2. NodesOf(h, g, by, names) # {}
      BY <2>1 DEF NodesOf
    <2> QED
      BY <2>2
  <1>2. IsFiniteSet(T) /\ Cardinality(T) \in Nat \ {0}
    BY <1>1, FS_Subset, FS_CardinalityType, FS_EmptySet
  <1>3. /\ \A h \in B : s[h] \in Nat
        /\ \A h \in B \ T : s[h] = 0
    BY SumOfHistory DEF AddedBy
  <1>4. Average(B, g, by, names, f) =
          (SumFunctionOnSet(s, B) \div Cardinality(T)) \div Unit(f)
    <2>1. HsCount(B, g, by, names) = Cardinality(T)
      BY DEF HsCount
    <2>2. SumFunction(s) = SumFunctionOnSet(s, B)
      BY SumFunctionIs DEF AddedBy
    <2> QED
      BY <2>1, <2>2 DEF Average, AddedBy
  <1> HIDE DEF s, T, Appearing
  <1>6. SumFunctionOnSet(s, B) = SumFunctionOnSet(s, T)
    BY <1>1, <1>3, SumSupport
  <1>7. SumFunctionOnSet(s, T) \in Nat
    BY <1>1, <1>2, <1>3, SumType
  <1>8. Unit(f) \in Nat \ {0}
    BY AggregationAssumption DEF Unit, AggregationAssumption
  <1> QED
    BY <1>1, <1>2, <1>3, <1>4, <1>6, <1>7, <1>8 DEF s, T

LEMMA AverageIsWithinHolds ==
    ASSUME ReportAssumption, WellRead
    PROVE  AverageIsWithin
  <1> SUFFICES ASSUME NEW t \in Slots, NEW by \in {"cluster", "product"},
                      NEW f \in Fields,
                      NEW g \in GroupingValues(Bucket(t), by, names)
               PROVE
            LET seen == {Sum(h, g, by, names, f) :
                           h \in {x \in Bucket(t) :
                                    NodesOf(x, g, by, names) # {}}}
                value == GroupedAt(t, by)[g][f]
            IN  /\ Min(seen) \div Unit(f) <= value
                /\ value <= Max(seen) \div Unit(f)
    BY DEF AverageIsWithin
  <1> DEFINE B == Bucket(t)
             T == Appearing(B, g, by)
             s == AddedBy(B, g, by, f)
             seen == {Sum(h, g, by, names, f) :
                        h \in {x \in B : NodesOf(x, g, by, names) # {}}}
             value == GroupedAt(t, by)[g][f]
             u == Unit(f)
             q == SumFunctionOnSet(s, T) \div Cardinality(T)
  <1>1. IsFiniteSet(B) /\ \A h \in B : h \in hs /\ h.nodes \in Contents
    BY SnapBucket
  <1>2. value = Average(B, g, by, names, f)
    <2>1. g \in GroupingValues(hs, by, names)
      BY <1>1 DEF GroupingValues
    <2> QED
      BY <2>1 DEF GroupedAt, Grouped
  <1>3. seen = {s[h] : h \in T}
    BY DEF Appearing, AddedBy
  <1> HIDE DEF value, u, seen
  <1>4. /\ IsFiniteSet(T) /\ T # {} /\ Cardinality(T) \in Nat \ {0}
        /\ \A h \in T : s[h] \in Nat
        /\ SumFunctionOnSet(s, T) \in Nat
        /\ u \in Nat \ {0}
        /\ value = q \div u
    BY <1>1, <1>2, AverageOverAppearances DEF u
  <1> HIDE DEF B, T, s
  <1>5. IsFiniteSet(seen) /\ seen # {} /\ seen \subseteq Nat
    BY <1>3, <1>4, FiniteImage
  <1>6. /\ Min(seen) \in Nat /\ Max(seen) \in Nat
        /\ \A h \in T : Min(seen) <= s[h] /\ s[h] <= Max(seen)
    <2>1. Min(seen) \in seen /\ \A y \in seen : Min(seen) <= y
      BY <1>5, MinIs
    <2>2. Max(seen) \in seen /\ \A y \in seen : y <= Max(seen)
      BY <1>5, MaxIs
    <2> QED
      BY <1>3, <1>5, <2>1, <2>2
  <1>7. /\ Cardinality(T) * Min(seen) <= SumFunctionOnSet(s, T)
        /\ SumFunctionOnSet(s, T) <= Cardinality(T) * Max(seen)
    BY <1>4, <1>6, SumAtLeast, SumBounded
  <1>8. q \in Nat /\ Min(seen) <= q /\ q <= Max(seen)
    BY <1>4, <1>6, <1>7, Quotients
  <1> HIDE DEF q
  <1>9. Min(seen) \div u <= value /\ value <= Max(seen) \div u
    BY <1>4, <1>6, <1>8, QuotientMonotone
  <1> QED
    BY <1>9 DEF seen, value, u, T, B

\* With a name of its own, a cluster is a group of its own.
LEMMA TotalWithDistinctNamesHolds ==
    ASSUME ReportAssumption, WellRead
    PROVE  TotalWithDistinctNames
  <1> SUFFICES ASSUME \A c, d \in DOMAIN names : names[c] = names[d] => c = d,
                      NEW t \in Slots, NEW f \in Fields
               PROVE  TotalAt(t)[f] =
                        SumFunction([c \in DOMAIN names |-> ClusterAverage(t, c, f)])
    BY DEF TotalWithDistinctNames, TotalIsSumOfClusterAverages
  <1> DEFINE B == Bucket(t)
             by == "unspecified"
             groups == GroupingValues(B, by, names)
             average(g) == Average(B, g, by, names, f)
             own(c) == {h \in B : h.cluster = c /\ h.nodes # {}}
             C == {c \in DOMAIN names : own(c) # {}}
             a == [g \in groups |-> average(g)]
             v == [c \in DOMAIN names |-> ClusterAverage(t, c, f)]
  <1>1. /\ IsFiniteSet(B)
        /\ \A h \in B : h \in hs /\ h.nodes \in Contents /\ h.cluster \in DOMAIN names
    BY SnapBucket
  <1>2. \A h \in B : \A g : \A node \in h.nodes :
          GroupingValue(h, node, by, names) = names[h.cluster]
    BY DEF GroupingValue
  <1>3. \A h \in B : \A c \in DOMAIN names :
          NodesOf(h, names[c], by, names) = IF h.cluster = c THEN h.nodes ELSE {}
    BY <1>1, <1>2 DEF NodesOf
  <1>4. groups = {names[c] : c \in C}
    <2>1. ASSUME NEW g \in groups
          PROVE  \E c \in C : g = names[c]
      <3>1. PICK h \in B : \E node \in h.nodes : g = GroupingValue(h, node, by, names)
        BY DEF GroupingValues
      <3>2. g = names[h.cluster] /\ h \in own(h.cluster)
        BY <1>2, <3>1
      <3> QED
        BY <1>1, <3>2
    <2>2. ASSUME NEW c \in C
          PROVE  names[c] \in groups
      <3>1. PICK h \in B : h.cluster = c /\ h.nodes # {}
        OBVIOUS
      <3> QED
        BY <1>2, <3>1 DEF GroupingValues
    <2> HIDE DEF groups, C
    <2> QED
      BY <2>1, <2>2
  <1>5. ASSUME NEW c \in C
        PROVE  v[c] \in Nat /\ a[names[c]] = v[c]
    <2> DEFINE g == names[c]
               T == own(c)
               s == AddedBy(B, g, by, f)
               amount == [h \in T |-> SumFunction(
                                        [node \in h.nodes |-> Amount(node, f)])]
    <2>1. g \in groups
      BY <1>4
    <2>2. T = Appearing(B, g, by)
      BY <1>3 DEF Appearing
    <2>3. \A h \in T : amount[h] = s[h]
      BY <1>3 DEF Sum, AddedBy
    <2>4. v[c] = (SumFunctionOnSet(amount, T) \div Cardinality(T)) \div Unit(f)
      <3>1. T # {}
        OBVIOUS
      <3> QED
        BY <3>1, SumFunctionIs DEF ClusterAverage
    <2> HIDE DEF T, amount, g
    <2>6. /\ IsFiniteSet(T) /\ Cardinality(T) \in Nat \ {0}
          /\ \A h \in T : s[h] \in Nat
          /\ SumFunctionOnSet(s, T) \in Nat
          /\ Unit(f) \in Nat \ {0}
          /\ average(g) =
               (SumFunctionOnSet(s, T) \div Cardinality(T)) \div Unit(f)
      BY <1>1, <2>1, <2>2, AverageOverAppearances
    <2> HIDE DEF s
    <2>7. SumFunctionOnSet(s, T) = SumFunctionOnSet(amount, T)
      BY <2>3, <2>6, SumSame
    <2>8. average(g) \in Nat
      <3>1. SumFunctionOnSet(s, T) \div Cardinality(T) \in Nat
        BY <2>6, Quotients
      <3> QED
        BY <2>6, <3>1, Quotients
    <2>9. a[g] = average(g)
      BY <2>1
    <2> QED
      BY <2>4, <2>6, <2>7, <2>8, <2>9 DEF g
  <1>6. \A c \in DOMAIN names \ C : v[c] = 0
    BY DEF ClusterAverage
  <1>7. IsFiniteSet(DOMAIN names) /\ IsFiniteSet(C) /\ C \subseteq DOMAIN names
    BY FS_Subset DEF WellRead
  <1>8. SumFunctionOnSet(v, DOMAIN names) = SumFunctionOnSet(v, C)
    <2> HIDE DEF v, C
    <2> QED
      BY <1>5, <1>6, <1>7, SumSupport
  <1>9. SumFunctionOnSet(a, groups) = SumFunctionOnSet(v, C)
    <2> HIDE DEF v, a, C, groups
    <2> QED
      BY <1>4, <1>5, <1>7, SumImage
  <1>10. TotalAt(t)[f] = SumFunctionOnSet(a, groups)
    <2>1. SumFunction(a) = SumFunctionOnSet(a, groups)
      BY SumFunctionIs
    <2> QED
      BY <2>1 DEF TotalAt, Total
  <1>11. SumFunction(v) = SumFunctionOnSet(v, DOMAIN names)
    BY SumFunctionIs
  <1> QED
    BY <1>8, <1>9, <1>10, <1>11

\* For every number of clusters, nodes and histories: an average that
\* ListClusterSnapshots shows for a group is one of numbers that were reported.
THEOREM AveragesAreWithin ==
    ASSUME ReportAssumption
    PROVE  Spec => []AverageIsWithin
  <1>1. WellRead => AverageIsWithin
    BY AverageIsWithinHolds
  <1> QED
    BY <1>1, AlwaysWellRead, PTL

\* ... and the ungrouped numbers are the sum of the averages of the clusters, if
\* these have different names.
THEOREM TotalsAddUp ==
    ASSUME ReportAssumption
    PROVE  Spec => []TotalWithDistinctNames
  <1>1. WellRead => TotalWithDistinctNames
    BY TotalWithDistinctNamesHolds
  <1> QED
    BY <1>1, AlwaysWellRead, PTL
=============================================================================
