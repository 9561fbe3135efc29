--------------------------- MODULE WorkerService ---------------------------
(***************************************************************************)
(* The worker service of the monitor server and the database tables it     *)
(* writes (server/internal/server/cluster_telemetry.go, ws_server.go and   *)
(* server/internal/store).  gRPC runs every SendClusterTelemetry call in a *)
(* goroutine of its own; a call issues one SQL statement at a time, never  *)
(* inside a transaction, so the statements of concurrent calls interleave. *)
(* Every statement may fail, may take effect and still be answered with an *)
(* error (connection lost after the commit), and the server process may    *)
(* die between any two of them.                                            *)
(***************************************************************************)
EXTENDS Naturals, Sequences

CONSTANTS
    Calls,      \* the handler goroutines, reused from one RPC to the next
    Clusters,   \* cluster IDs (cluster_id)
    Names,      \* cluster names
    Tenants,    \* tenant IDs
    TenantOf,   \* the tenant each cluster is registered under
    Messages,   \* marshalled telemetry, opaque to the service
    Requests,   \* the payload lists an RPC may carry
    NoRequest,  \* req of an idle call
    NoRow       \* existing of a call that has not read a row to update

Kinds   == {"snapshot", "gpu", "unset"}   \* "unset": no message_kind in the oneof
Payload == [kind : Kinds, message : Messages]
Request == [cluster : Clusters, name : Names, payloads : Seq(Payload)]
Row     == [cluster : Clusters, name : Names, tenant : Tenants]
History == [cluster : Clusters, message : Messages]

ASSUME ConstantsAssumption ==
    /\ TenantOf \in [Clusters -> Tenants]
    /\ Requests \subseteq Seq(Payload)
    /\ NoRequest \notin Request
    /\ NoRow \notin Row
    /\ NoRow \notin Names

VARIABLES
    clusterSnapshots,    \* table cluster_snapshots
    snapshotHistories,   \* table cluster_snapshot_histories
    gpuHistories,        \* table gpu_telemetry_histories
    pc,                  \* the statement a call issues next, or its reply
    req,                 \* the authenticated request a call works on
    cur,                 \* index of the payload a call is processing
    existing,            \* the row CreateOrUpdateClusterSnapshot has read
    clusterName          \* the names the cluster manager knows (external)

tables == <<clusterSnapshots, snapshotHistories, gpuHistories>>
local  == <<pc, req, cur, existing>>
vars   == <<tables, local, clusterName>>

\* Definitions named Faulty... are mistakes the code could have made; no
\* behaviour of this specification uses them.

Statements == {"take", "create", "save", "snapshotHistory", "gpuHistory"}
Replies    == {"OK", "InvalidArgument", "Internal", "Unauthenticated"}

RowsOf(c)     == {row \in clusterSnapshots : row.cluster = c}
Registered(c) == RowsOf(c) # {}

\* The payload a call is at, and the history record that payload becomes.
Current(h)   == req[h].payloads[cur[h]]
RecordOf(h)  == [cluster |-> req[h].cluster, message |-> Current(h).message]

FaultyFirstStatementHistoryFirst ==
    [snapshot |-> "snapshotHistory", gpu |-> "gpuHistory",
     unset |-> "InvalidArgument"]
FaultyFirstStatementNoDefault ==
    [snapshot |-> "take", gpu |-> "gpuHistory", unset |-> "unset"]

\* Where the loop over the payloads goes for payload i: the first statement
\* of the branch its kind selects, or the reply when there is none left.
FirstStatement == [snapshot |-> "take", gpu |-> "gpuHistory",
                   unset |-> "InvalidArgument"]

FaultyProcessStopsEarly(ps, i) ==
    IF i >= Len(ps) THEN "OK" ELSE FirstStatement[ps[i].kind]

Process(ps, i) ==
    IF i > Len(ps) THEN "OK" ELSE FirstStatement[ps[i].kind]

Init ==
    /\ clusterSnapshots = {}
    /\ snapshotHistories = {}
    /\ gpuHistories = {}
    /\ pc = [h \in Calls |-> "idle"]
    /\ req = [h \in Calls |-> NoRequest]
    /\ cur = [h \in Calls |-> 0]
    /\ existing = [h \in Calls |-> NoRow]
    /\ clusterName \in [Clusters -> Names]

-----------------------------------------------------------------------------
\* SendClusterTelemetry is called.  The auth interceptor has resolved the
\* caller's registration key into its cluster, and the name it has right now.
Receive(h, c, ps) ==
    /\ pc[h] = "idle"
    /\ req' = [req EXCEPT ![h] = [cluster |-> c, name |-> clusterName[c],
                                  payloads |-> ps]]
    /\ cur' = [cur EXCEPT ![h] = 1]
    /\ pc' = [pc EXCEPT ![h] = IF ps = << >> THEN "InvalidArgument"
                                             ELSE Process(ps, 1)]
    /\ UNCHANGED <<tables, existing, clusterName>>

ReceiveUnauthenticated(h) ==
    /\ pc[h] = "idle"
    /\ pc' = [pc EXCEPT ![h] = "Unauthenticated"]
    /\ UNCHANGED <<tables, req, cur, existing, clusterName>>

\* SELECT ... WHERE cluster_id = ? of CreateOrUpdateClusterSnapshot finds a row:
\* nothing to do when the name is the one reported, else remember the row.
TakeFound(h) ==
    /\ pc[h] = "take"
    /\ \E row \in RowsOf(req[h].cluster) :
         \/ /\ row.name = req[h].name
            /\ pc' = [pc EXCEPT ![h] = "snapshotHistory"]
            /\ UNCHANGED existing
         \/ /\ row.name # req[h].name
            /\ pc' = [pc EXCEPT ![h] = "save"]
            /\ existing' = [existing EXCEPT ![h] = row]
    /\ UNCHANGED <<tables, req, cur, clusterName>>

\* ... or gorm.ErrRecordNotFound: the row is to be created.
TakeNotFound(h) ==
    /\ pc[h] = "take"
    /\ ~Registered(req[h].cluster)
    /\ pc' = [pc EXCEPT ![h] = "create"]
    /\ UNCHANGED <<tables, req, cur, existing, clusterName>>

\* A write that took effect goes on when it is acknowledged; when the
\* acknowledgement is lost the call sees an error and gives up.
After(acked, next) == IF acked THEN next ELSE "Internal"

FaultyCreateUnindexed(h, acked) ==
    /\ pc[h] = "create"
    /\ clusterSnapshots' = clusterSnapshots \cup
         {[cluster |-> req[h].cluster, name |-> req[h].name,
           tenant |-> TenantOf[req[h].cluster]]}
    /\ pc' = [pc EXCEPT ![h] = After(acked, "snapshotHistory")]
    /\ UNCHANGED <<snapshotHistories, gpuHistories, req, cur, existing,
                   clusterName>>

\* INSERT INTO cluster_snapshots, admitted by the unique index on cluster_id.
Create(h, acked) ==
    /\ pc[h] = "create"
    /\ ~Registered(req[h].cluster)
    /\ clusterSnapshots' = clusterSnapshots \cup
         {[cluster |-> req[h].cluster, name |-> req[h].name,
           tenant |-> TenantOf[req[h].cluster]]}
    /\ pc' = [pc EXCEPT ![h] = After(acked, "snapshotHistory")]
    /\ UNCHANGED <<snapshotHistories, gpuHistories, req, cur, existing,
                   clusterName>>

\* ... refused by it: another call created the row since this one looked.
CreateDuplicate(h) ==
    /\ pc[h] = "create"
    /\ Registered(req[h].cluster)
    /\ pc' = [pc EXCEPT ![h] = "Internal"]
    /\ UNCHANGED <<tables, req, cur, existing, clusterName>>

FaultySaveAsRead(h, acked) ==
    /\ pc[h] = "save"
    /\ clusterSnapshots' =
         (clusterSnapshots \ RowsOf(existing[h].cluster)) \cup {existing[h]}
    /\ existing' = [existing EXCEPT ![h] = NoRow]
    /\ pc' = [pc EXCEPT ![h] = After(acked, "snapshotHistory")]
    /\ UNCHANGED <<snapshotHistories, gpuHistories, req, cur, clusterName>>

\* UPDATE cluster_snapshots: every column of the row read earlier, with the
\* new name, whatever the row has become meanwhile.
Save(h, acked) ==
    /\ pc[h] = "save"
    /\ clusterSnapshots' =
         (clusterSnapshots \ RowsOf(existing[h].cluster)) \cup
         {[existing[h] EXCEPT !.name = req[h].name]}
    /\ existing' = [existing EXCEPT ![h] = NoRow]
    /\ pc' = [pc EXCEPT ![h] = After(acked, "snapshotHistory")]
    /\ UNCHANGED <<snapshotHistories, gpuHistories, req, cur, clusterName>>

\* The loop over the payloads turns once a payload's history is recorded.
NextPayload(h, acked) ==
    /\ pc' = [pc EXCEPT ![h] =
                After(acked, Process(req[h].payloads, cur[h] + 1))]
    /\ cur' = [cur EXCEPT ![h] = IF acked THEN @ + 1 ELSE @]
    /\ UNCHANGED <<req, existing, clusterName, clusterSnapshots>>

CreateClusterSnapshotHistory(h, acked) ==
    /\ pc[h] = "snapshotHistory"
    /\ snapshotHistories' = snapshotHistories \cup {RecordOf(h)}
    /\ UNCHANGED gpuHistories
    /\ NextPayload(h, acked)

CreateGPUTelemetryHistory(h, acked) ==
    /\ pc[h] = "gpuHistory"
    /\ gpuHistories' = gpuHistories \cup {RecordOf(h)}
    /\ UNCHANGED snapshotHistories
    /\ NextPayload(h, acked)

FaultyStatementFailsCreateIgnored(h) ==
    /\ pc[h] \in Statements
    /\ pc' = [pc EXCEPT ![h] = IF @ = "create" THEN "snapshotHistory"
                                              ELSE "Internal"]
    /\ existing' = [existing EXCEPT ![h] = NoRow]
    /\ UNCHANGED <<tables, req, cur, clusterName>>
FaultyStatementFailsUndoes(h) ==
    /\ pc[h] \in Statements
    /\ pc' = [pc EXCEPT ![h] = "Internal"]
    /\ clusterSnapshots' = IF pc[h] = "snapshotHistory"
                           THEN clusterSnapshots \ RowsOf(req[h].cluster)
                           ELSE clusterSnapshots
    /\ existing' = [existing EXCEPT ![h] = NoRow]
    /\ UNCHANGED <<snapshotHistories, gpuHistories, req, cur, clusterName>>
FaultyStatementFailsContinue(h) ==
    /\ pc[h] \in Statements
    /\ pc' = [pc EXCEPT ![h] = Process(req[h].payloads, cur[h] + 1)]
    /\ cur' = [cur EXCEPT ![h] = @ + 1]
    /\ existing' = [existing EXCEPT ![h] = NoRow]
    /\ UNCHANGED <<tables, req, clusterName>>

\* A statement fails without effect (or marshalling the message does): the
\* handler returns the error at once, what it did before stays.
StatementFails(h) ==
    /\ pc[h] \in Statements
    /\ pc' = [pc EXCEPT ![h] = "Internal"]
    /\ existing' = [existing EXCEPT ![h] = NoRow]
    /\ UNCHANGED <<tables, req, cur, clusterName>>

\* The reply leaves the server and the goroutine ends.
Return(h) ==
    /\ pc[h] \in Replies
    /\ pc' = [pc EXCEPT ![h] = "idle"]
    /\ req' = [req EXCEPT ![h] = NoRequest]
    /\ cur' = [cur EXCEPT ![h] = 0]
    /\ UNCHANGED <<tables, existing, clusterName>>

\* The process dies (one of the three servers of run.go returned, or the pod
\* was killed): the handlers are gone, the committed rows are not.
Crash ==
    /\ pc' = [h \in Calls |-> "idle"]
    /\ req' = [h \in Calls |-> NoRequest]
    /\ cur' = [h \in Calls |-> 0]
    /\ existing' = [h \in Calls |-> NoRow]
    /\ UNCHANGED <<tables, clusterName>>

\* Somebody renames a cluster in the cluster manager.
RenameCluster(c, n) ==
    /\ clusterName' = [clusterName EXCEPT ![c] = n]
    /\ UNCHANGED <<tables, local>>

\* The next step of call h; ok says whether a write is acknowledged.
Step(h, ok) ==
    \/ TakeFound(h) \/ TakeNotFound(h)
    \/ Create(h, ok) \/ CreateDuplicate(h)
    \/ Save(h, ok)
    \/ CreateClusterSnapshotHistory(h, ok)
    \/ CreateGPUTelemetryHistory(h, ok)

Handle(h) ==
    \/ \E ok \in BOOLEAN : Step(h, ok)
    \/ StatementFails(h)
    \/ Return(h)

Next ==
    \/ \E h \in Calls :
         \/ Handle(h)
         \/ ReceiveUnauthenticated(h)
         \/ \E c \in Clusters, ps \in Requests : Receive(h, c, ps)
    \/ Crash
    \/ \E c \in Clusters, n \in Names : RenameCluster(c, n)

Spec == Init /\ [][Next]_vars

-----------------------------------------------------------------------------
(* Correctness.                                                            *)

Acting(h) == pc[h] \in Statements

TypeOK ==
    /\ clusterSnapshots \subseteq Row
    /\ snapshotHistories \subseteq History
    /\ gpuHistories \subseteq History
    /\ pc \in [Calls -> Statements \cup Replies \cup {"idle"}]
    /\ req \in [Calls -> Request \cup {NoRequest}]
    /\ cur \in [Calls -> Nat]
    /\ existing \in [Calls -> Row \cup {NoRow}]
    /\ clusterName \in [Clusters -> Names]

\* However many first reports of a cluster race between the SELECT and the
\* INSERT of CreateOrUpdateClusterSnapshot, the cluster gets a single row, so
\* that a listing by tenant shows (and counts) it once.
UniqueCluster ==
    \A r1, r2 \in clusterSnapshots : r1.cluster = r2.cluster => r1 = r2

\* A snapshot history belongs to a cluster that has a row: ListClusterSnapshots
\* finds the histories through the rows, so a history without one is lost to
\* every reader.  The two are written by separate statements of
\* processClusterSnapshot that may fail, race or be cut off by a crash.
HistoryHasRow == \A e \in snapshotHistories : Registered(e.cluster)

\* Payload i of the request h works on has been recorded.
Stored(h, i) ==
    LET p == req[h].payloads[i]
        e == [cluster |-> req[h].cluster, message |-> p.message]
    IN  \/ p.kind = "snapshot" /\ e \in snapshotHistories
        \/ p.kind = "gpu" /\ e \in gpuHistories

\* The payloads of a request are recorded in the order they came in: a call at
\* work on one has recorded all those before it, one whose row is about to be
\* overwritten or whose history is about to be written has met the conditions
\* for it.
InOrder(h) ==
    /\ Acting(h) =>
         /\ req[h] \in Request
         /\ cur[h] \in 1..Len(req[h].payloads)
         /\ \A i \in 1..(cur[h] - 1) : Stored(h, i)
         /\ Current(h).kind = IF pc[h] = "gpuHistory" THEN "gpu" ELSE "snapshot"
    /\ pc[h] = "save" =>
         /\ existing[h] \in Row
         /\ existing[h].cluster = req[h].cluster
         /\ existing[h].tenant = TenantOf[req[h].cluster]
    /\ pc[h] \in {"save", "snapshotHistory"} => Registered(req[h].cluster)

PayloadsInOrder == \A h \in Calls : InOrder(h)

\* SendClusterTelemetry answers OK only when every payload of the request is
\* in the database; with any other answer the payloads before the one that
\* failed may have been kept.
AckedIsDurable ==
    \A h \in Calls : pc[h] = "OK" =>
        \A i \in 1..Len(req[h].payloads) : Stored(h, i)

\* The row of cluster c carries the cluster's name, and no call that was
\* authenticated under an earlier name is still at work for it.
Settled(c) ==
    /\ \E row \in RowsOf(c) : row.name = clusterName[c]
    /\ \A h \in Calls : Acting(h) /\ req[h].cluster = c =>
                            req[h].name = clusterName[c]

\* Once the row has caught up with the cluster's name it stays right until the
\* cluster is renamed: no late Save, of a row read long ago, brings an old name
\* back, whatever happens to the calls that write it.
SettledUntilRenamed ==
    [][\A c \in Clusters :
         Settled(c) /\ clusterName'[c] = clusterName[c] => Settled(c)']_vars

\* To its readers the database is a registry that changes one entry at a time.
shownName ==
    [c \in Clusters |-> IF Registered(c)
                        THEN (CHOOSE row \in RowsOf(c) : TRUE).name ELSE NoRow]
shownOwner ==
    [c \in Clusters |-> IF Registered(c)
                        THEN (CHOOSE row \in RowsOf(c) : TRUE).tenant ELSE NoRow]
recorded ==
    LET Of(kind, histories) ==
            {[kind |-> kind, cluster |-> e.cluster, message |-> e.message] :
               e \in histories}
    IN  Of("snapshot", snapshotHistories) \cup Of("gpu", gpuHistories)

Registry == INSTANCE TelemetryRegistry
    WITH Unregistered <- NoRow, name <- shownName, owner <- shownOwner,
         log <- recorded

\* The interleaved statements of all calls, failures and crashes included,
\* implement the atomic registry of TelemetryRegistry: a cluster's owner never
\* changes, no telemetry disappears, and no snapshot precedes its cluster.
ImplementsRegistry == Registry!Spec

\* errors.go: "ErrConcurrentUpdate is returned when there is a concurrent
\* update."  A call whose row was changed by another one since it read it would
\* not write it and carry on as though nothing had happened.
ConcurrentUpdateReported ==
    [][\A h \in Calls :
         pc[h] = "save" /\ existing[h] \notin clusterSnapshots =>
             pc'[h] # "snapshotHistory"]_vars

-----------------------------------------------------------------------------
(* Liveness.  The handler of a call always goes on; a statement the callers *)
(* make the server issue for a cluster again and again does not fail for    *)
(* ever; and the agent's ticker keeps reporting its cluster, one snapshot   *)
(* payload per request.                                                     *)

For(h, c) == Acting(h) /\ req[h].cluster = c

Report(c) ==
    \E h \in Calls, m \in Messages :
        Receive(h, c, <<[kind |-> "snapshot", message |-> m]>>)

Fairness ==
    /\ \A h \in Calls : WF_vars(Handle(h))
    /\ \A c \in Clusters :
         /\ SF_vars(Report(c))
         /\ \A h \in Calls :
              /\ SF_vars(For(h, c) /\ TakeFound(h))
              /\ SF_vars(For(h, c) /\ TakeNotFound(h))
              /\ SF_vars(For(h, c) /\ Create(h, TRUE))
              /\ SF_vars(For(h, c) /\ Save(h, TRUE))

FairSpec == Spec /\ Fairness

\* When its cluster is no longer renamed, every cluster that keeps reporting is
\* in the end listed under its current name for good, in spite of races,
\* failing statements and crashes.
NameConverges ==
    (<>[][UNCHANGED clusterName]_vars) =>
        \A c \in Clusters :
            <>[](\E row \in RowsOf(c) : row.name = clusterName[c])

=============================================================================
