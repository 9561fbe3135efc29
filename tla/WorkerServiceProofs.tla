------------------------ MODULE WorkerServiceProofs ------------------------
(***************************************************************************)
(* The safety of WorkerService for any number of calls, clusters, names    *)
(* and requests.                                                           *)
(***************************************************************************)
EXTENDS WorkerService, SequenceTheorems, TLAPS

\* Every row is filed under the tenant its cluster is registered with.
OwnedRows == \A row \in clusterSnapshots : row.tenant = TenantOf[row.cluster]

\* The inductive invariant.  Rows, histories and the progress of the calls
\* support each other: a history is only written by a call that has seen the
\* row, and a row is only overwritten by one that has read it.
IInv ==
    /\ TypeOK
    /\ UniqueCluster
    /\ OwnedRows
    /\ HistoryHasRow
    /\ PayloadsInOrder
    /\ AckedIsDurable

USE ConstantsAssumption

-----------------------------------------------------------------------------
\* Where the loop over the payloads goes next: a reply or the first statement
\* of a branch, and at a statement only with a payload of that branch's kind.
LEMMA ProcessResult ==
    ASSUME NEW ps \in Seq(Payload), NEW i \in Nat \ {0}
    PROVE  /\ Process(ps, i) \in {"OK", "take", "gpuHistory", "InvalidArgument"}
           /\ Process(ps, i) = "OK" <=> i > Len(ps)
           /\ i \in 1..Len(ps) =>
                /\ Process(ps, i) = "take" <=> ps[i].kind = "snapshot"
                /\ Process(ps, i) = "gpuHistory" <=> ps[i].kind = "gpu"
  <1>1. CASE i > Len(ps)
    BY <1>1 DEF Process
  <1>2. CASE i \in 1..Len(ps)
    <2>1. ps[i] \in Payload
      BY <1>2, ElementOfSeq
    <2>2. ps[i].kind \in {"snapshot", "gpu", "unset"}
      BY <2>1 DEF Payload, Kinds
    <2> QED
      BY <1>2, <2>2 DEF Process, FirstStatement
  <1> QED
    BY <1>1, <1>2

\* A request as Receive builds it is well formed.
LEMMA ReceivedRequest ==
    ASSUME TypeOK, NEW c \in Clusters, NEW ps \in Requests
    PROVE  /\ [cluster |-> c, name |-> clusterName[c], payloads |-> ps] \in Request
           /\ ps \in Seq(Payload)
           /\ ps # << >> => Len(ps) \in Nat \ {0}
  BY EmptySeq DEF TypeOK, Request

\* The history record of the payload a call is at.
LEMMA RecordIsHistory ==
    ASSUME NEW h \in Calls, Acting(h), InOrder(h)
    PROVE  /\ Current(h) \in Payload
           /\ RecordOf(h) \in History
  <1>1. req[h].payloads \in Seq(Payload) /\ req[h].cluster \in Clusters
    BY DEF InOrder, Request
  <1>2. Current(h) \in Payload
    BY <1>1, ElementOfSeq DEF InOrder, Current
  <1> QED
    BY <1>1, <1>2 DEF Payload, RecordOf, History

\* The tables never lose a cluster or a history.
LEMMA TablesGrow ==
    ASSUME IInv, [Next]_vars
    PROVE  /\ snapshotHistories \subseteq snapshotHistories'
           /\ gpuHistories \subseteq gpuHistories'
           /\ \A c \in Clusters : Registered(c) => Registered(c)'
  <1>1. CASE UNCHANGED tables
    BY <1>1 DEF tables, Registered, RowsOf
  <1>2. ASSUME NEW h \in Calls, NEW ok \in BOOLEAN, Create(h, ok)
        PROVE  /\ clusterSnapshots \subseteq clusterSnapshots'
               /\ UNCHANGED <<snapshotHistories, gpuHistories>>
    BY <1>2 DEF Create
  <1>3. ASSUME NEW h \in Calls, NEW ok \in BOOLEAN, Save(h, ok)
        PROVE  /\ UNCHANGED <<snapshotHistories, gpuHistories>>
               /\ \A c \in Clusters : Registered(c) => Registered(c)'
    <2>1. /\ existing[h] \in Row
          /\ [existing[h] EXCEPT !.name = req[h].name].cluster
               = existing[h].cluster
      BY <1>3 DEF Save, IInv, PayloadsInOrder, InOrder, Row
    <2> QED
      BY <1>3, <2>1 DEF Save, Registered, RowsOf
  <1>4. ASSUME NEW h \in Calls, NEW ok \in BOOLEAN,
               \/ CreateClusterSnapshotHistory(h, ok)
               \/ CreateGPUTelemetryHistory(h, ok)
        PROVE  /\ snapshotHistories \subseteq snapshotHistories'
               /\ gpuHistories \subseteq gpuHistories'
               /\ UNCHANGED clusterSnapshots
    BY <1>4 DEF CreateClusterSnapshotHistory, CreateGPUTelemetryHistory,
                NextPayload
  <1> QED
    BY <1>1, <1>2, <1>3, <1>4
    DEF Next, Handle, Step, vars, tables, Registered, RowsOf, Receive,
        ReceiveUnauthenticated, TakeFound, TakeNotFound, CreateDuplicate,
        StatementFails, Return, Crash, RenameCluster

-----------------------------------------------------------------------------
(* Type correctness.                                                       *)

\* The row a Save writes keeps the cluster and the tenant of the row it read.
LEMMA SavedRow ==
    ASSUME IInv, NEW h \in Calls, NEW ok \in BOOLEAN, Save(h, ok)
    PROVE  LET row == [existing[h] EXCEPT !.name = req[h].name]
           IN  /\ row \in Row
               /\ row.cluster = req[h].cluster
               /\ row.cluster = existing[h].cluster
               /\ row.name = req[h].name
               /\ row.tenant = TenantOf[row.cluster]
  <1>1. /\ existing[h] \in Row
        /\ existing[h].cluster = req[h].cluster
        /\ existing[h].tenant = TenantOf[req[h].cluster]
        /\ req[h] \in Request
    BY DEF IInv, PayloadsInOrder, InOrder, Save, Acting, Statements
  <1> QED
    BY <1>1 DEF Row, Request

\* A write to a history table turns the loop: cur stays an index, and the call
\* goes to a statement or a reply.
LEMMA TurnedLoop ==
    ASSUME IInv, NEW h \in Calls, Acting(h), NEW ok \in BOOLEAN
    PROVE  /\ cur[h] \in Nat \ {0}
           /\ req[h].payloads \in Seq(Payload)
           /\ After(ok, Process(req[h].payloads, cur[h] + 1))
                \in {"OK", "take", "gpuHistory", "InvalidArgument", "Internal"}
  <1>1. /\ cur[h] \in Nat \ {0}
        /\ req[h].payloads \in Seq(Payload)
    BY DEF IInv, PayloadsInOrder, InOrder, Request
  <1> QED
    BY <1>1, ProcessResult DEF After

LEMMA TypeStep ==
    ASSUME IInv, [Next]_vars
    PROVE  TypeOK'
  <1> USE DEF IInv, TypeOK, Statements, Replies
  <1>1. ASSUME NEW h \in Calls, NEW c \in Clusters, NEW ps \in Requests,
               Receive(h, c, ps)
        PROVE  TypeOK'
    BY <1>1, ReceivedRequest, ProcessResult, EmptySeq DEF Receive, tables
  <1>2. ASSUME NEW h \in Calls,
               ReceiveUnauthenticated(h) \/ TakeNotFound(h) \/ CreateDuplicate(h)
        PROVE  TypeOK'
    BY <1>2 DEF ReceiveUnauthenticated, TakeNotFound, CreateDuplicate, tables
  <1>10. ASSUME NEW h \in Calls, StatementFails(h)
        PROVE  TypeOK'
    BY <1>10 DEF StatementFails, tables
  <1>11. ASSUME NEW h \in Calls, Return(h)
        PROVE  TypeOK'
    BY <1>11 DEF Return, tables
  <1>3. ASSUME NEW h \in Calls, TakeFound(h)
        PROVE  TypeOK'
    BY <1>3 DEF TakeFound, tables, RowsOf
  <1>4. ASSUME NEW h \in Calls, NEW ok \in BOOLEAN, Create(h, ok)
        PROVE  TypeOK'
    <2>1. req[h] \in Request
      BY <1>4 DEF Create, PayloadsInOrder, InOrder, Acting
    <2>2. [cluster |-> req[h].cluster, name |-> req[h].name,
           tenant |-> TenantOf[req[h].cluster]] \in Row
      BY <2>1 DEF Row, Request
    <2> QED
      BY <1>4, <2>2 DEF Create, After
  <1>5. ASSUME NEW h \in Calls, NEW ok \in BOOLEAN, Save(h, ok)
        PROVE  TypeOK'
    BY <1>5, SavedRow DEF Save, After
  <1>6. ASSUME NEW h \in Calls, NEW ok \in BOOLEAN,
               \/ CreateClusterSnapshotHistory(h, ok)
               \/ CreateGPUTelemetryHistory(h, ok)
        PROVE  TypeOK'
    <2>1. Acting(h) /\ InOrder(h)
      BY <1>6 DEF CreateClusterSnapshotHistory, CreateGPUTelemetryHistory,
                  Acting, PayloadsInOrder
    <2>2. /\ snapshotHistories' \subseteq History
          /\ gpuHistories' \subseteq History
          /\ UNCHANGED <<clusterSnapshots, req, existing, clusterName>>
      BY <1>6, <2>1, RecordIsHistory
      DEF CreateClusterSnapshotHistory, CreateGPUTelemetryHistory, NextPayload
    <2>3. NextPayload(h, ok)
      BY <1>6 DEF CreateClusterSnapshotHistory, CreateGPUTelemetryHistory
    <2>4. /\ pc' \in [Calls -> Statements \cup Replies \cup {"idle"}]
          /\ cur' \in [Calls -> Nat]
      BY <2>1, <2>3, TurnedLoop DEF NextPayload
    <2> QED
      BY <2>2, <2>4
  <1>7. CASE Crash
    BY <1>7 DEF Crash, tables
  <1>8. ASSUME NEW c \in Clusters, NEW n \in Names, RenameCluster(c, n)
        PROVE  TypeOK'
    BY <1>8 DEF RenameCluster, tables, local
  <1>9. CASE UNCHANGED vars
    BY <1>9 DEF vars, tables, local
  <1> QED
    BY <1>1, <1>2, <1>3, <1>4, <1>5, <1>6, <1>7, <1>8, <1>9,
       <1>10, <1>11
    DEF Next, Handle, Step

-----------------------------------------------------------------------------
(* The rows: one per cluster, filed under the right tenant.                *)

LEMMA RowsStep ==
    ASSUME IInv, [Next]_vars
    PROVE  UniqueCluster' /\ OwnedRows'
  <1> USE DEF IInv, UniqueCluster, OwnedRows
  <1>1. ASSUME NEW h \in Calls, NEW ok \in BOOLEAN, Create(h, ok)
        PROVE  UniqueCluster' /\ OwnedRows'
    BY <1>1 DEF Create, Registered, RowsOf
  <1>2. ASSUME NEW h \in Calls, NEW ok \in BOOLEAN, Save(h, ok)
        PROVE  UniqueCluster' /\ OwnedRows'
    <2> DEFINE new == [existing[h] EXCEPT !.name = req[h].name]
    <2>1. /\ new.cluster = existing[h].cluster
          /\ new.tenant = TenantOf[new.cluster]
      BY <1>2, SavedRow
    <2>2. clusterSnapshots' =
            (clusterSnapshots \ RowsOf(existing[h].cluster)) \cup {new}
      BY <1>2 DEF Save
    <2> HIDE DEF new
    <2> QED
      BY <2>1, <2>2 DEF RowsOf
  <1>3. CASE UNCHANGED clusterSnapshots
    BY <1>3
  <1> QED
    BY <1>1, <1>2, <1>3
    DEF Next, Handle, Step, vars, tables, Receive, ReceiveUnauthenticated,
        TakeFound, TakeNotFound, CreateDuplicate, StatementFails, Return,
        CreateClusterSnapshotHistory, CreateGPUTelemetryHistory, NextPayload,
        Crash, RenameCluster

-----------------------------------------------------------------------------
(* The histories and the progress of the calls.                            *)

LEMMA HistoryStep ==
    ASSUME IInv, [Next]_vars
    PROVE  HistoryHasRow'
  <1> USE DEF IInv, HistoryHasRow
  <1>1. ASSUME NEW h \in Calls, NEW ok \in BOOLEAN,
               CreateClusterSnapshotHistory(h, ok)
        PROVE  HistoryHasRow'
    <2>1. Registered(RecordOf(h).cluster)
      BY <1>1 DEF CreateClusterSnapshotHistory, PayloadsInOrder, InOrder,
                  RecordOf
    <2> QED
      BY <1>1, <2>1 DEF CreateClusterSnapshotHistory, NextPayload, Registered,
                        RowsOf
  <1>2. CASE UNCHANGED snapshotHistories
    BY <1>2, TablesGrow DEF TypeOK, History
  <1> QED
    BY <1>1, <1>2
    DEF Next, Handle, Step, vars, tables, Receive, ReceiveUnauthenticated,
        TakeFound, TakeNotFound, Create, CreateDuplicate, Save,
        StatementFails, Return, CreateGPUTelemetryHistory, Crash,
        RenameCluster

\* A step leaves a call it does not move in order, because the tables only grow.
LEMMA UnmovedCall ==
    ASSUME IInv, [Next]_vars, NEW g \in Calls,
           UNCHANGED <<pc[g], req[g], cur[g], existing[g]>>
    PROVE  /\ InOrder(g)'
           /\ pc'[g] = "OK" =>
                \A i \in 1..Len(req'[g].payloads) : Stored(g, i)'
  <1>1. \A i : Stored(g, i) => Stored(g, i)'
    BY TablesGrow DEF Stored
  <1>2. Acting(g) => req[g] \in Request
    BY DEF IInv, PayloadsInOrder, InOrder
  <1>3. pc[g] \in {"save", "snapshotHistory"} => Registered(req[g].cluster)'
    BY <1>2, TablesGrow DEF IInv, PayloadsInOrder, InOrder, Acting, Statements,
                            Request
  <1>4. InOrder(g)
    BY DEF IInv, PayloadsInOrder
  <1>5. InOrder(g)'
    BY <1>1, <1>3, <1>4 DEF InOrder, Acting, Current
  <1> QED
    BY <1>1, <1>5 DEF IInv, AckedIsDurable

\* The loop turns only after the payload it was at has been recorded.
LEMMA TurnInOrder ==
    ASSUME IInv, [Next]_vars, NEW h \in Calls, NEW ok \in BOOLEAN, Acting(h),
           \/ CreateClusterSnapshotHistory(h, ok)
           \/ CreateGPUTelemetryHistory(h, ok)
    PROVE  /\ InOrder(h)'
           /\ pc'[h] = "OK" =>
                \A i \in 1..Len(req'[h].payloads) : Stored(h, i)'
  <1> DEFINE ps == req[h].payloads
  <1> USE DEF IInv
  <1>1. /\ req[h] \in Request
        /\ ps \in Seq(Payload)
        /\ cur[h] \in 1..Len(ps)
        /\ \A i \in 1..(cur[h] - 1) : Stored(h, i)
    BY DEF PayloadsInOrder, InOrder, Request
  <1>2. /\ UNCHANGED <<req, existing>>
        /\ pc'[h] = After(ok, Process(ps, cur[h] + 1))
        /\ cur'[h] = IF ok THEN cur[h] + 1 ELSE cur[h]
    BY DEF CreateClusterSnapshotHistory, CreateGPUTelemetryHistory,
           NextPayload, TypeOK
  <1> PICK k \in 1..Len(ps) : k = cur[h]
    BY <1>1
  <1>3. Stored(h, k)'
    BY <1>2 DEF PayloadsInOrder, InOrder, Stored, RecordOf, Current, Acting,
                CreateClusterSnapshotHistory, CreateGPUTelemetryHistory
  <1>4. \A i : Stored(h, i) => Stored(h, i)'
    BY <1>2, TablesGrow DEF Stored
  <1>5. \A i \in 1..cur[h] : Stored(h, i)'
    <2>1. \A i \in 1..cur[h] : i = k \/ i \in 1..(cur[h] - 1)
      BY <1>1
    <2> QED
      BY <2>1, <1>1, <1>3, <1>4
  <1>6. CASE ~ok
    <2>1. pc'[h] = "Internal"
      BY <1>2, <1>6 DEF After
    <2> QED
      BY <2>1 DEF InOrder, Acting, Statements
  <1>7. CASE ok
    <2>1. /\ pc'[h] = Process(ps, cur[h] + 1)
          /\ cur'[h] = cur[h] + 1
          /\ cur[h] + 1 \in Nat \ {0}
      BY <1>1, <1>2, <1>7 DEF After
    <2>2. CASE cur[h] = Len(ps)
      <3>1. pc'[h] = "OK"
        BY <1>1, <2>1, <2>2, ProcessResult
      <3>2. InOrder(h)'
        BY <3>1 DEF InOrder, Acting, Statements
      <3> QED
        BY <3>2, <1>2, <1>5, <2>2
    <2>3. CASE cur[h] < Len(ps)
      <3>1. cur[h] + 1 \in 1..Len(ps)
        BY <1>1, <2>3
      <3>2. /\ pc'[h] \in {"take", "gpuHistory", "InvalidArgument"}
            /\ pc'[h] = "take" => ps[cur'[h]].kind = "snapshot"
            /\ pc'[h] = "gpuHistory" => ps[cur'[h]].kind = "gpu"
        BY <1>1, <2>1, <2>3, <3>1, ProcessResult
      <3>3. \A i \in 1..(cur'[h] - 1) : Stored(h, i)'
        BY <1>1, <1>5, <2>1
      <3> QED
        BY <1>1, <1>2, <2>1, <3>1, <3>2, <3>3
        DEF InOrder, Acting, Statements, Current
    <2> QED
      BY <1>1, <2>2, <2>3
  <1> QED
    BY <1>6, <1>7

LEMMA CallStep ==
    ASSUME IInv, [Next]_vars, NEW g \in Calls
    PROVE  /\ InOrder(g)'
           /\ pc'[g] = "OK" =>
                \A i \in 1..Len(req'[g].payloads) : Stored(g, i)'
  <1> DEFINE Goal ==
        /\ InOrder(g)'
        /\ pc'[g] = "OK" =>
             \A i \in 1..Len(req'[g].payloads) : Stored(g, i)'
  <1> USE DEF IInv
  <1>1. ASSUME UNCHANGED <<pc[g], req[g], cur[g], existing[g]>>
        PROVE  Goal
    BY <1>1, UnmovedCall
  <1>2. ASSUME pc'[g] \notin Statements \cup {"OK"}
        PROVE  Goal
    BY <1>2 DEF InOrder, Acting, Statements
  <1>3. ASSUME NEW h \in Calls, NEW c \in Clusters, NEW ps \in Requests,
               Receive(h, c, ps)
        PROVE  Goal
    <2>1. CASE g = h /\ ps # << >>
      <3> DEFINE r == [cluster |-> c, name |-> clusterName[c], payloads |-> ps]
      <3>1. r \in Request /\ ps \in Seq(Payload) /\ 1 \in 1..Len(ps)
        BY <2>1, ReceivedRequest
      <3>2. /\ pc'[h] = Process(ps, 1)
            /\ req'[h] = r
            /\ cur'[h] = 1
        BY <1>3, <2>1 DEF Receive, TypeOK
      <3>3. /\ pc'[h] \in {"take", "gpuHistory", "InvalidArgument"}
            /\ pc'[h] = "take" => ps[1].kind = "snapshot"
            /\ pc'[h] = "gpuHistory" => ps[1].kind = "gpu"
        BY <3>1, <3>2, ProcessResult
      <3> QED
        BY <2>1, <3>1, <3>2, <3>3 DEF InOrder, Acting, Statements, Current
    <2>2. CASE g = h /\ ps = << >>
      BY <1>3, <2>2, <1>2 DEF Receive, TypeOK, Statements
    <2>3. CASE g # h
      BY <1>3, <2>3, <1>1 DEF Receive, TypeOK
    <2> QED
      BY <2>1, <2>2, <2>3
  <1>4. ASSUME NEW h \in Calls, TakeFound(h)
        PROVE  Goal
    <2>1. CASE g = h
      <3>1. InOrder(h) /\ Acting(h) /\ pc[h] = "take"
        BY <1>4 DEF PayloadsInOrder, TakeFound, Acting, Statements
      <3>2. /\ UNCHANGED <<req, cur, snapshotHistories, gpuHistories,
                           clusterSnapshots>>
            /\ pc'[h] \in {"save", "snapshotHistory"}
            /\ Registered(req[h].cluster)
            /\ pc'[h] = "save" =>
                 /\ existing'[h] \in Row
                 /\ existing'[h].cluster = req[h].cluster
                 /\ existing'[h].tenant = TenantOf[req[h].cluster]
        BY <1>4 DEF TakeFound, TypeOK, OwnedRows, RowsOf, Registered, tables
      <3> QED
        BY <2>1, <3>1, <3>2
        DEF InOrder, Acting, Statements, Current, Stored, Registered, RowsOf
    <2>2. CASE g # h
      BY <1>4, <2>2, <1>1 DEF TakeFound, TypeOK
    <2> QED
      BY <2>1, <2>2
  <1>5. ASSUME NEW h \in Calls, TakeNotFound(h)
        PROVE  Goal
    <2>1. CASE g = h
      <3>1. InOrder(h) /\ Acting(h) /\ pc[h] = "take" /\ pc'[h] = "create"
        BY <1>5 DEF PayloadsInOrder, TakeNotFound, Acting, Statements, TypeOK
      <3>2. UNCHANGED <<req, cur, snapshotHistories, gpuHistories>>
        BY <1>5 DEF TakeNotFound, tables
      <3> QED
        BY <2>1, <3>1, <3>2 DEF InOrder, Acting, Statements, Current, Stored
    <2>2. CASE g # h
      BY <1>5, <2>2, <1>1 DEF TakeNotFound, TypeOK
    <2> QED
      BY <2>1, <2>2
  <1>6. ASSUME NEW h \in Calls, NEW ok \in BOOLEAN, Create(h, ok)
        PROVE  Goal
    <2>1. CASE g = h
      <3>1. /\ InOrder(h) /\ Acting(h) /\ pc[h] = "create"
            /\ pc'[h] \in {"snapshotHistory", "Internal"}
        BY <1>6 DEF PayloadsInOrder, Create, Acting, Statements, TypeOK, After
      <3>2. UNCHANGED <<req, cur, snapshotHistories, gpuHistories>>
        BY <1>6 DEF Create
      <3> DEFINE row == [cluster |-> req[h].cluster, name |-> req[h].name,
                         tenant |-> TenantOf[req[h].cluster]]
      <3>3. row \in clusterSnapshots' /\ row.cluster = req[h].cluster
        BY <1>6 DEF Create
      <3>4. Registered(req[h].cluster)'
        BY <3>2, <3>3 DEF Registered, RowsOf
      <3> QED
        BY <2>1, <3>1, <3>2, <3>4 DEF InOrder, Acting, Statements, Current, Stored
    <2>2. CASE g # h
      BY <1>6, <2>2, <1>1 DEF Create, TypeOK
    <2> QED
      BY <2>1, <2>2
  <1>7. ASSUME NEW h \in Calls, NEW ok \in BOOLEAN, Save(h, ok)
        PROVE  Goal
    <2>1. CASE g = h
      <3>1. /\ InOrder(h) /\ Acting(h) /\ pc[h] = "save"
            /\ pc'[h] \in {"snapshotHistory", "Internal"}
        BY <1>7 DEF PayloadsInOrder, Save, Acting, Statements, TypeOK, After
      <3>2. UNCHANGED <<req, cur, snapshotHistories, gpuHistories>>
        BY <1>7 DEF Save
      <3> DEFINE row == [existing[h] EXCEPT !.name = req[h].name]
      <3>3. row \in clusterSnapshots' /\ row.cluster = req[h].cluster
        BY <1>7, SavedRow DEF Save
      <3>4. Registered(req[h].cluster)'
        BY <3>2, <3>3 DEF Registered, RowsOf
      <3> QED
        BY <2>1, <3>1, <3>2, <3>4 DEF InOrder, Acting, Statements, Current, Stored
    <2>2. CASE g # h
      BY <1>7, <2>2, <1>1 DEF Save, TypeOK
    <2> QED
      BY <2>1, <2>2
  <1>8. ASSUME NEW h \in Calls, NEW ok \in BOOLEAN,
               \/ CreateClusterSnapshotHistory(h, ok)
               \/ CreateGPUTelemetryHistory(h, ok)
        PROVE  Goal
    <2>1. Acting(h)
      BY <1>8 DEF CreateClusterSnapshotHistory, CreateGPUTelemetryHistory,
                  Acting, Statements
    <2>2. CASE g = h
      BY <1>8, <2>1, <2>2, TurnInOrder
    <2>3. CASE g # h
      BY <1>8, <2>3, <1>1
      DEF CreateClusterSnapshotHistory, CreateGPUTelemetryHistory,
          NextPayload, TypeOK
    <2> QED
      BY <2>2, <2>3
  <1>9. ASSUME NEW h \in Calls,
               \/ ReceiveUnauthenticated(h) \/ CreateDuplicate(h)
               \/ StatementFails(h) \/ Return(h)
        PROVE  Goal
    <2>1. CASE g = h
      BY <1>9, <2>1, <1>2
      DEF ReceiveUnauthenticated, CreateDuplicate, StatementFails, Return,
          TypeOK, Statements
    <2>2. CASE g # h
      BY <1>9, <2>2, <1>1
      DEF ReceiveUnauthenticated, CreateDuplicate, StatementFails, Return,
          TypeOK
    <2> QED
      BY <2>1, <2>2
  <1>10. CASE Crash
    BY <1>10, <1>2 DEF Crash, Statements
  <1>11. ASSUME NEW c \in Clusters, NEW n \in Names, RenameCluster(c, n)
         PROVE  Goal
    BY <1>11, <1>1 DEF RenameCluster, local
  <1>12. CASE UNCHANGED vars
    BY <1>12, <1>1 DEF vars, local
  <1> QED
    BY <1>3, <1>4, <1>5, <1>6, <1>7, <1>8, <1>9, <1>10, <1>11, <1>12
    DEF Next, Handle, Step

-----------------------------------------------------------------------------
(* The theorems.                                                           *)

LEMMA InitIInv == Init => IInv
  BY DEF Init, IInv, TypeOK, UniqueCluster, OwnedRows, HistoryHasRow,
         PayloadsInOrder, InOrder, Acting, Statements, AckedIsDurable

LEMMA StepIInv == IInv /\ [Next]_vars => IInv'
  <1> SUFFICES ASSUME IInv, [Next]_vars
               PROVE  IInv'
    OBVIOUS
  <1>1. PayloadsInOrder' /\ AckedIsDurable'
    BY CallStep DEF PayloadsInOrder, AckedIsDurable
  <1> QED
    BY <1>1, TypeStep, RowsStep, HistoryStep DEF IInv

LEMMA Invariance == Spec => []IInv
  BY InitIInv, StepIInv, PTL DEF Spec

\* The tables, the calls and their requests stay well formed in every behaviour.
THEOREM TypeCorrect == Spec => []TypeOK
  <1>1. IInv => TypeOK
    BY DEF IInv
  <1> QED
    BY <1>1, Invariance, PTL

\* A cluster never has two rows, however its first reports interleave.
THEOREM ClustersAreUnique == Spec => []UniqueCluster
  <1>1. IInv => UniqueCluster
    BY DEF IInv
  <1> QED
    BY <1>1, Invariance, PTL

\* No snapshot history is ever without the row that readers find it through.
THEOREM HistoriesHaveRows == Spec => []HistoryHasRow
  <1>1. IInv => HistoryHasRow
    BY DEF IInv
  <1> QED
    BY <1>1, Invariance, PTL

\* A request is recorded payload by payload, and a call only overwrites a row
\* of its own cluster or writes the history of a registered one.
THEOREM RecordsInOrder == Spec => []PayloadsInOrder
  <1>1. IInv => PayloadsInOrder
    BY DEF IInv
  <1> QED
    BY <1>1, Invariance, PTL

\* An OK answer means that every payload of the request is in the database.
THEOREM AckedStays == Spec => []AckedIsDurable
  <1>1. IInv => AckedIsDurable
    BY DEF IInv
  <1> QED
    BY <1>1, Invariance, PTL

-----------------------------------------------------------------------------
(* A settled name stays.                                                   *)

\* Only Receive puts a call to work, with the name its cluster has right then.
LEMMA ActingCalls ==
    ASSUME IInv, [Next]_vars, NEW g \in Calls, Acting(g)'
    PROVE  \/ Acting(g) /\ req'[g] = req[g]
           \/ \E c \in Clusters : req'[g].cluster = c /\ req'[g].name = clusterName[c]
  <1> USE DEF IInv, TypeOK, Acting, Statements, Replies
  <1>1. ASSUME NEW h \in Calls, NEW c \in Clusters, NEW ps \in Requests,
               Receive(h, c, ps), g = h
        PROVE  req'[g].cluster = c /\ req'[g].name = clusterName[c]
    BY <1>1 DEF Receive
  <1>2. ASSUME NEW h \in Calls, NEW c \in Clusters, NEW ps \in Requests,
               Receive(h, c, ps), g # h
        PROVE  Acting(g) /\ req'[g] = req[g]
    BY <1>2 DEF Receive
  <1>3. ASSUME NEW h \in Calls, NEW ok \in BOOLEAN, Step(h, ok)
        PROVE  Acting(g) /\ req'[g] = req[g]
    BY <1>3 DEF Step, TakeFound, TakeNotFound, Create, CreateDuplicate, Save,
                CreateClusterSnapshotHistory, CreateGPUTelemetryHistory,
                NextPayload
  <1>4. ASSUME NEW h \in Calls, StatementFails(h) \/ ReceiveUnauthenticated(h)
        PROVE  Acting(g) /\ req'[g] = req[g]
    BY <1>4 DEF StatementFails, ReceiveUnauthenticated
  <1>5. ASSUME NEW h \in Calls, Return(h)
        PROVE  Acting(g) /\ req'[g] = req[g]
    BY <1>5 DEF Return
  <1>6. ~Crash
    BY DEF Crash
  <1>7. ASSUME NEW c \in Clusters, NEW n \in Names, RenameCluster(c, n)
        PROVE  Acting(g) /\ req'[g] = req[g]
    BY <1>7 DEF RenameCluster, local
  <1>8. CASE UNCHANGED vars
    BY <1>8 DEF vars, local
  <1> QED
    BY <1>1, <1>2, <1>3, <1>4, <1>5, <1>6, <1>7, <1>8 DEF Next, Handle

\* The row of a cluster is only touched by a call for that cluster, which
\* writes the name it carries.
LEMMA RowChanges ==
    ASSUME IInv, [Next]_vars, NEW row \in clusterSnapshots,
           row \notin clusterSnapshots'
    PROVE  \E h \in Calls : /\ Acting(h)
                            /\ req[h].cluster = row.cluster
                            /\ \E new \in clusterSnapshots' :
                                 /\ new.cluster = row.cluster
                                 /\ new.name = req[h].name
  <1>1. PICK h \in Calls, ok \in BOOLEAN : Save(h, ok)
    BY DEF Next, Handle, Step, vars, tables, Receive, ReceiveUnauthenticated,
           TakeFound, TakeNotFound, Create, CreateDuplicate, StatementFails,
           Return, CreateClusterSnapshotHistory, CreateGPUTelemetryHistory,
           NextPayload, Crash, RenameCluster
  <1> DEFINE new == [existing[h] EXCEPT !.name = req[h].name]
  <1>2. /\ new.cluster = existing[h].cluster
        /\ new.cluster = req[h].cluster
        /\ new.name = req[h].name
    BY <1>1, SavedRow
  <1>3. /\ clusterSnapshots' =
             (clusterSnapshots \ RowsOf(existing[h].cluster)) \cup {new}
        /\ Acting(h)
    BY <1>1 DEF Save, Acting, Statements
  <1> HIDE DEF new
  <1>4. row.cluster = existing[h].cluster
    BY <1>3 DEF RowsOf
  <1> QED
    BY <1>2, <1>3, <1>4

LEMMA SettledStep ==
    ASSUME IInv, [Next]_vars, NEW c \in Clusters, Settled(c),
           clusterName'[c] = clusterName[c]
    PROVE  Settled(c)'
  <1>1. \E row \in clusterSnapshots' :
           row.cluster = c /\ row.name = clusterName[c]
    <2>1. PICK row \in clusterSnapshots :
                 row.cluster = c /\ row.name = clusterName[c]
      BY DEF Settled, RowsOf
    <2>2. CASE row \in clusterSnapshots'
      BY <2>1, <2>2
    <2>3. CASE row \notin clusterSnapshots'
      BY <2>1, <2>3, RowChanges DEF Settled
    <2> QED
      BY <2>2, <2>3
  <1>2. ASSUME NEW h \in Calls, Acting(h)', req'[h].cluster = c
        PROVE  req'[h].name = clusterName[c]
    BY <1>2, ActingCalls DEF Settled
  <1> QED
    BY <1>1, <1>2 DEF Settled, RowsOf

\* Once the row of a cluster shows its name, no late or failing call takes it
\* back, for any number of calls in flight.
THEOREM SettledStays == Spec => SettledUntilRenamed
  <1>1. IInv /\ [Next]_vars =>
          [\A c \in Clusters :
             Settled(c) /\ clusterName'[c] = clusterName[c] => Settled(c)']_vars
    BY SettledStep
  <1> QED
    BY <1>1, Invariance, PTL DEF Spec, SettledUntilRenamed

-----------------------------------------------------------------------------
(* The refinement of TelemetryRegistry.                                    *)

\* The mapping shows a registered cluster under the name and tenant of its one
\* row.
LEMMA ShownRow ==
    ASSUME UniqueCluster, NEW row \in clusterSnapshots, row.cluster \in Clusters
    PROVE  /\ shownName[row.cluster] = row.name
           /\ shownOwner[row.cluster] = row.tenant
  <1>1. RowsOf(row.cluster) = {row}
    BY DEF UniqueCluster, RowsOf
  <1>2. (CHOOSE r \in RowsOf(row.cluster) : TRUE) = row
    BY <1>1
  <1> QED
    BY <1>1, <1>2 DEF shownName, shownOwner, Registered

LEMMA ShownNothing ==
    ASSUME NEW c \in Clusters, ~Registered(c)
    PROVE  shownName[c] = NoRow /\ shownOwner[c] = NoRow
  BY DEF shownName, shownOwner

\* A statement that leaves the rows of the other clusters alone leaves what is
\* shown of them alone.
LEMMA ShownOthers ==
    ASSUME NEW c \in Clusters, RowsOf(c)' = RowsOf(c)
    PROVE  shownName'[c] = shownName[c] /\ shownOwner'[c] = shownOwner[c]
  BY DEF shownName, shownOwner, Registered

\* The shown functions have one entry for each cluster.
LEMMA ShownDomains ==
    /\ shownName = [c \in Clusters |-> shownName[c]]
    /\ shownOwner = [c \in Clusters |-> shownOwner[c]]
    /\ shownName' = [c \in Clusters |-> shownName'[c]]
    /\ shownOwner' = [c \in Clusters |-> shownOwner'[c]]
  <1>1. shownName = [c \in Clusters |-> shownName[c]]
    BY DEF shownName
  <1>2. shownOwner = [c \in Clusters |-> shownOwner[c]]
    BY DEF shownOwner
  <1>3. shownName' = [c \in Clusters |-> shownName'[c]]
    BY DEF shownName
  <1>4. shownOwner' = [c \in Clusters |-> shownOwner'[c]]
    BY DEF shownOwner
  <1> QED
    BY <1>1, <1>2, <1>3, <1>4

LEMMA InitRefines == Init => Registry!Init
  BY DEF Init, Registry!Init, shownName, shownOwner, recorded, Registered,
         RowsOf

\* The first report of a cluster registers it.
LEMMA CreateRefines ==
    ASSUME IInv, IInv', NEW h \in Calls, NEW ok \in BOOLEAN, Create(h, ok)
    PROVE  Registry!Next
  <1>1. PICK c \in Clusters, n \in Names :
               c = req[h].cluster /\ n = req[h].name
    BY DEF Create, IInv, PayloadsInOrder, InOrder, Acting, Statements, Request
  <1> DEFINE row == [cluster |-> c, name |-> n, tenant |-> TenantOf[c]]
  <1>2. /\ clusterSnapshots' = clusterSnapshots \cup {row}
        /\ UNCHANGED <<snapshotHistories, gpuHistories>>
        /\ ~Registered(c)
    BY <1>1 DEF Create
  <1>3. shownName[c] = NoRow
    BY <1>1, <1>2, ShownNothing
  <1>4. shownName'[c] = n /\ shownOwner'[c] = TenantOf[c]
    <2>1. UniqueCluster' /\ row \in clusterSnapshots' /\ row.cluster = c
      BY <1>2 DEF IInv
    <2>2. RowsOf(c)' = {row}
      BY <2>1 DEF UniqueCluster, RowsOf
    <2> HIDE DEF row
    <2>3. (CHOOSE r \in RowsOf(c)' : TRUE) = row
      BY <2>2
    <2>4. row.name = n /\ row.tenant = TenantOf[c]
      BY DEF row
    <2> QED
      BY <1>1, <2>2, <2>3, <2>4 DEF shownName, shownOwner, Registered
  <1>5. ASSUME NEW d \in Clusters, d # c
        PROVE  shownName'[d] = shownName[d] /\ shownOwner'[d] = shownOwner[d]
    <2>1. RowsOf(d)' = RowsOf(d)
      BY <1>2, <1>5 DEF RowsOf
    <2> QED
      BY <2>1, ShownOthers
  <1>6. UNCHANGED recorded
    BY <1>2 DEF recorded
  <1>7. /\ shownName' = [shownName EXCEPT ![c] = n]
        /\ shownOwner' = [shownOwner EXCEPT ![c] = TenantOf[c]]
    BY <1>1, <1>4, <1>5, ShownDomains
  <1> QED
    BY <1>1, <1>3, <1>6, <1>7 DEF Registry!Next, Registry!Register

\* A Save renames its cluster and keeps its owner.
LEMMA SaveRefines ==
    ASSUME IInv, IInv', NEW h \in Calls, NEW ok \in BOOLEAN, Save(h, ok)
    PROVE  Registry!Next
  <1>1. PICK c \in Clusters, n \in Names :
               /\ c = req[h].cluster /\ n = req[h].name
               /\ existing[h].cluster = c
    BY DEF Save, IInv, PayloadsInOrder, InOrder, Acting, Statements, Request
  <1> DEFINE new == [existing[h] EXCEPT !.name = req[h].name]
  <1>2. new.cluster = c /\ new.name = n /\ new.tenant = TenantOf[c]
    BY <1>1, SavedRow
  <1>3. /\ clusterSnapshots' = (clusterSnapshots \ RowsOf(c)) \cup {new}
        /\ UNCHANGED <<snapshotHistories, gpuHistories>>
    BY <1>1 DEF Save
  <1> HIDE DEF new
  <1>4. PICK old \in clusterSnapshots : old.cluster = c
    BY <1>1 DEF Save, IInv, PayloadsInOrder, InOrder, Registered, RowsOf
  <1>5. /\ shownName[c] = old.name
        /\ shownOwner[c] = TenantOf[c]
        /\ old.name # NoRow
    <2>1. old \in Row /\ old.tenant = TenantOf[c] /\ UniqueCluster
      BY <1>4 DEF IInv, TypeOK, OwnedRows
    <2> QED
      BY <1>1, <1>4, <2>1, ShownRow DEF Row
  <1>6. shownName'[c] = n /\ shownOwner'[c] = TenantOf[c]
    <2>1. RowsOf(c)' = {new}
      BY <1>2, <1>3 DEF RowsOf
    <2>2. (CHOOSE r \in RowsOf(c)' : TRUE) = new
      BY <2>1
    <2> QED
      BY <1>1, <1>2, <2>1, <2>2 DEF shownName, shownOwner, Registered
  <1>7. ASSUME NEW d \in Clusters, d # c
        PROVE  shownName'[d] = shownName[d] /\ shownOwner'[d] = shownOwner[d]
    <2>1. RowsOf(d)' = RowsOf(d)
      BY <1>2, <1>3, <1>7 DEF RowsOf
    <2> QED
      BY <2>1, ShownOthers
  <1>8. UNCHANGED recorded
    BY <1>3 DEF recorded
  <1>9. /\ shownName' = [shownName EXCEPT ![c] = n]
        /\ UNCHANGED shownOwner
    BY <1>1, <1>5, <1>6, <1>7, ShownDomains
  <1> QED
    BY <1>1, <1>5, <1>8, <1>9 DEF Registry!Next, Registry!Rename

\* The entries shown are exactly the rows of the two history tables.
LEMMA RecordedEntry ==
    ASSUME NEW x
    PROVE  /\ x \in recorded <=>
                \/ \E e \in snapshotHistories :
                     x = [kind |-> "snapshot", cluster |-> e.cluster,
                          message |-> e.message]
                \/ \E e \in gpuHistories :
                     x = [kind |-> "gpu", cluster |-> e.cluster,
                          message |-> e.message]
           /\ x \in recorded' <=>
                \/ \E e \in snapshotHistories' :
                     x = [kind |-> "snapshot", cluster |-> e.cluster,
                          message |-> e.message]
                \/ \E e \in gpuHistories' :
                     x = [kind |-> "gpu", cluster |-> e.cluster,
                          message |-> e.message]
  BY DEF recorded

\* A history that is written is a record of the registry, a snapshot's cluster
\* being registered by then.
LEMMA HistoryRefines ==
    ASSUME IInv, NEW h \in Calls, NEW ok \in BOOLEAN,
           \/ CreateClusterSnapshotHistory(h, ok)
           \/ CreateGPUTelemetryHistory(h, ok)
    PROVE  Registry!Next
  <1>1. /\ req[h].cluster \in Clusters
        /\ Current(h).message \in Messages
    <2>1. Acting(h) /\ InOrder(h)
      BY DEF IInv, PayloadsInOrder, CreateClusterSnapshotHistory,
             CreateGPUTelemetryHistory, Acting, Statements
    <2> QED
      BY <2>1, RecordIsHistory DEF RecordOf, Payload, InOrder, Request
  <1>2. PICK c \in Clusters, m \in Messages :
               c = req[h].cluster /\ m = Current(h).message
    BY <1>1
  <1>3. UNCHANGED <<shownName, shownOwner>>
    <2>1. UNCHANGED clusterSnapshots
      BY DEF CreateClusterSnapshotHistory, CreateGPUTelemetryHistory,
             NextPayload
    <2> QED
      BY <2>1 DEF shownName, shownOwner, Registered, RowsOf
  <1>4. CASE CreateClusterSnapshotHistory(h, ok)
    <2> DEFINE g == [cluster |-> c, message |-> m]
               e == [kind |-> "snapshot", cluster |-> c, message |-> m]
    <2>1. /\ snapshotHistories' =
               snapshotHistories \cup {g}
          /\ UNCHANGED gpuHistories
      BY <1>2, <1>4 DEF CreateClusterSnapshotHistory, RecordOf
    <2>2. recorded' = recorded \cup {e}
      <3>0. e = [kind |-> "snapshot", cluster |-> g.cluster,
                  message |-> g.message]
        OBVIOUS
      <3> HIDE DEF e, g
      <3>1. ASSUME NEW x
            PROVE  x \in recorded' <=> x \in recorded \/ x = e
        BY <2>1, <3>0, RecordedEntry
      <3> QED
        BY <3>1
    <2>3. Registered(c) /\ clusterSnapshots \subseteq Row /\ UniqueCluster
      BY <1>2, <1>4 DEF CreateClusterSnapshotHistory, IInv, TypeOK,
                        PayloadsInOrder, InOrder
    <2>4. shownName[c] # NoRow
      <3>1. PICK row \in clusterSnapshots : row.cluster = c
        BY <2>3 DEF Registered, RowsOf
      <3>2. row.name \in Names
        BY <2>3 DEF Row
      <3> QED
        BY <2>3, <3>1, <3>2, ShownRow
    <2>5. e \in Registry!Entry
      BY DEF Registry!Entry
    <2>6. Registry!Record(e)
      BY <1>3, <2>2, <2>4 DEF Registry!Record
    <2> QED
      BY <2>5, <2>6 DEF Registry!Next
  <1>5. CASE CreateGPUTelemetryHistory(h, ok)
    <2> DEFINE g == [cluster |-> c, message |-> m]
               e == [kind |-> "gpu", cluster |-> c, message |-> m]
    <2>1. /\ gpuHistories' = gpuHistories \cup {g}
          /\ UNCHANGED snapshotHistories
      BY <1>2, <1>5 DEF CreateGPUTelemetryHistory, RecordOf
    <2>2. recorded' = recorded \cup {e}
      <3>0. e = [kind |-> "gpu", cluster |-> g.cluster,
                  message |-> g.message]
        OBVIOUS
      <3> HIDE DEF e, g
      <3>1. ASSUME NEW x
            PROVE  x \in recorded' <=> x \in recorded \/ x = e
        BY <2>1, <3>0, RecordedEntry
      <3> QED
        BY <3>1
    <2>3. e \in Registry!Entry
      BY DEF Registry!Entry
    <2>4. Registry!Record(e)
      BY <1>3, <2>2 DEF Registry!Record
    <2> QED
      BY <2>3, <2>4 DEF Registry!Next
  <1> QED
    BY <1>4, <1>5

LEMMA StepRefines ==
    ASSUME IInv, IInv', [Next]_vars
    PROVE  [Registry!Next]_Registry!vars
  <1>1. ASSUME UNCHANGED tables
        PROVE  UNCHANGED Registry!vars
    BY <1>1 DEF tables, Registry!vars, shownName, shownOwner, recorded,
                Registered, RowsOf
  <1>2. \/ UNCHANGED tables
        \/ \E h \in Calls, ok \in BOOLEAN :
             \/ Create(h, ok) \/ Save(h, ok)
             \/ CreateClusterSnapshotHistory(h, ok)
             \/ CreateGPUTelemetryHistory(h, ok)
    BY DEF Next, Handle, Step, vars, Receive, ReceiveUnauthenticated,
           TakeFound, TakeNotFound, CreateDuplicate, StatementFails, Return,
           Crash, RenameCluster
  <1> QED
    BY <1>1, <1>2, CreateRefines, SaveRefines, HistoryRefines

\* The interleaved, failing and crashing statements of any number of calls
\* implement the atomic registry.
THEOREM Refinement == Spec => ImplementsRegistry
  <1>1. IInv /\ IInv' /\ [Next]_vars => [Registry!Next]_Registry!vars
    BY StepRefines
  <1> QED
    BY <1>1, InitRefines, Invariance, PTL
    DEF Spec, ImplementsRegistry, Registry!Spec
=============================================================================
