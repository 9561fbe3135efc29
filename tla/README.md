# Verification of cluster-monitor

Cluster-monitor shows the tenants of an LLM platform what their Kubernetes
clusters are used for. An *agent* runs in every cluster, collects telemetry
every ten minutes and sends it to a central *server*, which stores it in a SQL
database and answers statistical queries about it.

This directory holds TLA+ modules translated from the source under `src/`, the
TLC configurations that check them on small instances, and proofs checked by
TLAPS that hold for every instance. `PROJECT.json` lists the runs, the source
lines each definition translates, the hazards the properties are aimed at, and,
for every property, a mistake in the modelled code (the definitions named
`Faulty...`) that makes the property fail.

## 1. Inventory

| Component | State it keeps | Operations | Hard behaviour | What makes it correct |
|---|---|---|---|---|
| Worker service (`server/internal/server/cluster_telemetry.go`, `ws_server.go`, `server/internal/store`) | three tables; a goroutine per call | `SendClusterTelemetry` | statements of concurrent calls interleave without a transaction; statements fail, or succeed and are reported failed; the process dies in between | one row per cluster under its owner; no history without a row; OK means stored; an up-to-date name stays |
| Agent loops (`agent/cmd/run.go`, `collector.go`, `sender.go`) | an unbuffered channel, a ticker, two goroutines | collect, hand over, send | blocking hand-over, errors end the process, restarts, overlapping pods, leader lease | payloads pass in turn; one reporter under a lease; a broken process goes away; reports go on |
| Agent and worker service together | RPCs under way | send, deliver, reply | lost replies, calls that outlive their agent, crashes of either side | acknowledged payloads are stored, none twice; GPU telemetry belongs to a listed cluster |
| Cluster snapshot collector (`cluster_snapshot.go` of the agent) | none | `buildSnapshot` | nodes and pods come from two caches of a changing cluster; one label that does not parse fails all | no node with more GPUs occupied than it had; exact once the cluster is quiet |
| GPU telemetry collector (`gpu_telemetry.go`, `prometheus/`) | none | `collect` and its joins | three reads at different times, series with a common key, division by a count | no peak lost; no average above its maximum, none over nothing |
| `ListClusterSnapshots` (`cluster_snapshot.go` of the server) | none | window, buckets, grouping, averages | rounding; several queries against live tables; averages per group | each history counted once; nothing of another tenant; averages within what was observed |
| `ListGpuUsages` (`gpu_usages.go`) | none | maxima and averages per node and interval | as above; nodes are known by two names | no peak lost; averages of a node are its own |
| Server process (`server/cmd/run.go`, `server.go`, `config.go`, `store.go`) | three listeners; the database's schema | configure, open, migrate, serve | pods migrate one database at the same time; the first listener that returns ends the process; configurations that are accepted and cannot work | nobody serves on half a schema; no process with some of its listeners; all serve in the end |
| Agent configuration, status sender, usage sender, generated code | - | - | not modelled, see section 7 | - |

How they interact: inside a pod the collector hands payloads to the sender over
a channel without buffer; the sender calls the worker service, one payload per
RPC; the authentication interceptor turns the caller's registration key into the
cluster, its tenant and the name it has at that moment in the cluster manager;
the handlers of the two servers share nothing but the database. Readers find
histories only through the rows of `cluster_snapshots`.

## 2. Modules

```
NodeSnapshot    GPUTelemetry          what an agent collects
          \       /
          Collectors                  in turn, as the loop runs them
                |  a payload of a kind
              Agent          <--+
                                +-- TelemetryPipeline   how it is reported
          WorkerService      <--+
                | implements
        TelemetryRegistry             what readers may rely on
                ^ used as the environment
            TenantRead                how both queries read it
            ^        ^
SnapshotQuery        GPUUsages        what they answer
     |
SnapshotAggregation      QueryWindow  the window they share
ServerProcess                         the process all of the server runs in
```

`MC...` modules hold the instances and constants of the configurations,
`...Proofs` modules the theorems about WorkerService, Agent, TelemetryPipeline,
Collectors, QueryWindow, ServerProcess and, in QueryProofs, about TenantRead and the
answers of SnapshotQuery and GPUUsages. SetSums holds what these proofs need to know
of sums, maxima and minima over finite sets.

### WorkerService
One action per SQL statement, because gorm commits each on its own.
`clusterSnapshots`, `snapshotHistories` and `gpuHistories` are the tables; for
each call, `pc` is the statement it issues next or the reply it has decided on,
`req` the authenticated request, `cur` the index of the payload it is at, and
`existing` the row `CreateOrUpdateClusterSnapshot` has read. `Receive` is the
entry of `SendClusterTelemetry` and its check for an empty request;
`TakeFound`/`TakeNotFound` the SELECT, `Create`/`CreateDuplicate` the INSERT and
what the unique index does to it, `Save` the UPDATE of all columns of the row
read; `CreateClusterSnapshotHistory` and `CreateGPUTelemetryHistory` the INSERT of
a history. `StatementFails` is a statement that has no effect and is answered
with an error; a write with `acked = FALSE` takes effect and is answered with an
error. `Crash` is the death of the process, `RenameCluster` what somebody does
in the cluster manager. Payloads are opaque: the service only looks at their kind.
Ids, creation times and gorm's own columns are left out.

### TelemetryRegistry
The promise to readers, one atomic step at a time: a cluster is registered once,
its owner never changes, telemetry is only added, and a snapshot is only
recorded for a registered cluster.

### Agent
For each pod: `proc` is its manager, `col` and `ci` where `collector.Start` is and
with which collector, `tick` the ticker's channel (at most one tick waits),
`snd` and `sending` where `sender.Start` is and whose payload it took; `lease` is
the leader lease. `Handoff` is the meeting of `c.payloadCh <- payload` and
`<-s.payloadCh`; nothing else wakes a collector that waits there, in particular not
the end of its context. An error of a loop makes the manager stop the process
(`LoopFailed`), which ends when both loops have returned (`Exit`) or when the
manager's grace period is over (`GraceTimeout`). `NumCollectors` is 2 if a
Prometheus URL is configured, else 1. The manager, the lease and Kubernetes are
not in the repository; they are modelled as the code relies on them.

### TelemetryPipeline
`Agent` and `WorkerService` with a `link` for each sender's RPC: not delivered
yet, served by a call, or cut off by a crash of the server. `Fail` is an RPC that
fails on the agent's side at any moment, `ReplyToNobody` the end of a call whose
agent is gone. Leader election is off, as in the chart's default values: pods
report side by side, and a lease would only keep some of them from it. All pods
report the same cluster.

### QueryWindow
`getStartEndTime`, the store's condition on `history_created_at`, the bucket of a
history and the loop over the datapoints, for one filter at a time against a
clock that moves. Both list handlers use the same code. `DefaultIsRecent` states the
margins of the default window exactly: by the minute, what is younger than half an
interval or within half an interval of the duration may be missing.

### TenantRead
What both list handlers do with the database: `RefuseCaller` if the context holds no
user, else `Receive`, then `ListRows`, then `ListHistories` of
each cluster, while `TelemetryRegistry` changes the tables. Since WorkerService
implements that registry, what the query is shown to read holds for the
statements of the real writers. `began` is an auxiliary variable: what the tables
held when the request arrived. `Kind` says which of the two histories are read;
the answer is computed when everything has been read.

### SnapshotQuery and SnapshotAggregation
The answer of `ListClusterSnapshots`: groups, sums, integer division by the
number of histories a group has nodes in, sum over the groups or one value for
each. GPU occupancy and pod count are treated by the code as GPU capacity is, and
are represented by it.

### GPUUsages
The answer of `ListGpuUsages`: a node is known by the name of its cluster and its
own; for every interval its maxima, and averages over the histories it is in;
zeros for an interval in which it is silent. The average of GPU use, a float in
the code, is kept as a quotient.

### NodeSnapshot
`buildSnapshot`: `ListNodes` fills `listed` (`nodesByName`) from the cache of nodes,
`ListPods` adds the occupancy from the cache of pods, `ParseFails` is a memory
label that is no number, `ListFails` an error of either list. The client of a
controller-runtime manager reads caches that follow the cluster kind by kind:
`SyncNodes` and `SyncPods` move them. The rest is the cluster: nodes come, change
and go, the scheduler binds a pod where enough GPUs are left, a pod runs, ends and
is deleted. `largest` is auxiliary: the largest capacity a node has had.

### GPUTelemetry
`collect`: `Begin` fixes the range, `ListNodes` the hostnames of the selected nodes,
`QueryUtil` and `QueryMem` the two metrics by host, and the last also builds the
message. Meanwhile points appear (`PointsAppear`) and time passes. A sample is a
point of a range query: what a series shows of one GPU at one step, its labels and
values, be it scraped then or found by Prometheus' lookback. A replaced exporter has
other labels but the same key, and its last points may lie beside the first ones of
its successor. How Prometheus comes to its points is external. 0/0 is `NaN` where the
code converts it to an integer, a quotient with denominator 0 where it stays a float.

### Collectors
A behaviour is one of rounds of either collector: the loop runs one at a time, and
neither keeps anything from one round to the next.

### ServerProcess
One pod is at `pc` of `runCmd` and `run`: `Configure` (Parse and Validate), `OpenDB`,
`HasPart` and `CreatePart` for each table and the unique index in the order of
`autoMigrate` (gorm asks for a part, and creates it in another statement), then
three listeners that serve or return. `FirstReturns` is `return <-errCh`. Pods share the
database and the configuration file, which somebody edits. `stable` is auxiliary:
from then on nothing fails and nobody interferes.

## 3. Runs

| Run | Checks | Instance and bounds |
|---|---|---|
| `worker` | `TypeOK`, `PayloadsInOrder`, `HistoryHasRow`, `AckedIsDurable`, `UniqueCluster`, `SettledUntilRenamed`, `ImplementsRegistry`, `NameConverges` | 2 calls, 1 cluster, 2 names; requests with one payload, with two, with an unsupported one and none; with fairness. Two calls are the least that race; that calls of one cluster do not disturb another is covered by the proofs |
| `worker_concurrent_update` | finds `ConcurrentUpdateReported` violated | 2 calls, 1 cluster, 2 names, one-payload requests, without fairness |
| `agent` | `TypeOK`, `SingleReporter`, `Lockstep`, `ReturnedLoopEndsProcess`, `KeepsReporting` | 2 pods with leader election, 2 collectors, with fairness. Two pods are a rolling update, two collectors all there are |
| `pipeline` | `TypeOK`, `GPUHistoryHasRow`, `AckedEndToEnd`, `RecordedOnce` | 2 pods, 2 calls, 3 messages, up to symmetry. Three messages let a pod start over while a call of its first life still runs |
| `query_window` | `CountedOnce`, `WholeIntervals`, `DefaultIsRecent` | interval 4, duration 8, clock to 20, timestamps on, just before and just after the borders, unset and negative |
| `query_end_exclusive` | finds `EndIsExclusive` violated | the same |
| `snapshot_query` | `TypeOK`, `OwnClustersOnly`, `NothingMissed`, `AverageIsWithin`, `TotalWithDistinctNames` | 3 clusters of 2 tenants, 2 names, 2 histories, up to 2 nodes each, up to symmetry; two times in the window and one after. Two histories give sums that do not divide evenly and averages over two clusters |
| `gpu_usages` | `AverageAtMostMax`, `PeaksShown`, `NodesOnTheirOwn` | 3 clusters of 2 tenants, 2 names, 2 histories, up to 2 nodes each, the same node names in all clusters, up to symmetry; times in two intervals of the window, so that a node may be silent in one |
| `collectors` | `NodeSnapshotTypeOK`, `OccupancyFits`, `QuietClusterIsExact`, `GPUTelemetryTypeOK`, `NoDivisionByZero`, `AverageAtMostMax`, `UseImpliesMemory`, `PeaksAreSeen` | 2 nodes that may be selected, unlabelled or mislabelled, 2 pods of 2 and 1 GPUs, 4 changes of the cluster (a pod ends, another takes its GPUs, the node shrinks or goes); 2 hosts, windows of 2 steps in 3, GPUs shared by pods, a replaced exporter whose series overlap with its successor's or not, series without pod, utilization or labels; with fairness for the snapshots |
| `server_process` | `TypeOK`, `SchemaBeforeService`, `ReturnedListenerEndsProcess`, `EventuallyServes` | 2 pods, one of five files: one that works, two that are refused, two that are accepted and cannot work; with fairness. Two pods are the least that race for a migration |
| `snapshot_per_cluster` | finds `AveragedPerCluster` violated | 2 clusters, up to 3 histories |
| `snapshot_per_history` | finds `DividedByHistories` violated | the same |

Every data set is finite in the instance; apart from these the models have these
bounds: the clocks of QueryWindow and GPUTelemetry (`MaxNow`), the number of
histories of TenantRead (`MaxHistories`), the changes of NodeSnapshot's cluster
(`MaxChanges`), and `Messages` of the pipeline, where a payload is only collected as
long as there is a fresh message. Deadlock is checked in every run but
`server_process`: pods whose listeners serve undisturbed have nothing left to do.

What the passing runs show, beyond the comments at the properties:

- Nothing but the unique index on `cluster_id` keeps a cluster from getting two
  rows, and it is enough: the loser of the race is answered with an error,
  and a later report succeeds.
- A Save of a stale row never undoes a name that has *settled* (the row shows the
  current name and no call under an older name is at work). Before that it
  can, but a cluster that keeps reporting ends up with its current name.
- A sender that returned leaves a collector blocked on the channel for ever.
  Only the manager's grace period ends such a process; the loops alone would not.
- A GPU history never belongs to a cluster without a row, although the server does not
  check: it follows from an agent sending a snapshot first, one payload at a time,
  and stopping at the first error. If the sender carried on after an error
  (its TODO), the property would fail, as the mutant of the run shows.
- A snapshot joins nodes and pods of two different moments, and still never shows
  more GPUs occupied than a node had at some time: a pod counts only while it runs,
  and the cache of pods is a state the cluster was in. A shrunken or gone node
  may well be shown with the capacity of one moment and the occupancy of another.
- A memory label that is no number, on one selected node, keeps the whole cluster
  from being reported until it is corrected: the premise of `QuietClusterIsExact`.
- While the series of a replaced exporter and of its successor overlap, the code adds
  their points up and shows the GPU's use twice. The run reaches this; no line of the
  repository promises otherwise, so `PeaksAreSeen` compares with the sum of the points.
- What keeps the average of the GPU telemetry from being 0/0 is that a host gets a
  map only when it has a sample with a pod.
- Two pods that migrate at once can make each other fail, and one that dies can
  leave a table without its index; a restart completes it. What can keep a
  pod from ever serving is a configuration that `Validate` accepts: a port used twice
  or too large, or standalone mode without a database, which `run` opens
  nevertheless (`Sound` lists them).

## 4. Findings

Places where the code does something else than a comment or document says:

1. `store/errors.go:6` promises `ErrConcurrentUpdate` for concurrent updates; nothing
   returns it. Save overwrites a row that has changed since it was read.
2. `monitor_server.proto:12` calls the end of the filter exclusive; it is truncated to
   the hour, so what lies in the end's own hour is left out. (By the same
   truncation a start and end within one hour are refused with "startTimestamp must
   be before endTimestamp".)
3. `cluster_snapshot.go:228` says histories are averaged per cluster before they are
   summed up. They are averaged per *name*, and two rows of a tenant can carry the
   same name: rows are never deleted, so a cluster that takes over the name of a
   removed or renamed one shares it with the old row. As long as the names differ the
   comment is right (`TotalWithDistinctNames`).
4. `cluster_snapshot.go:145` says sums are divided by the number of snapshot histories.
   They are divided by the number of histories in which the group has a node: a cluster
   scaled to zero for half of an hour is shown with its full capacity.

A consequence of the last two, without a comment that contradicts it: grouped by
product, the numbers are averaged over clusters and do not add up to the total.

## 5. Fairness

- Worker service: Go runs a handler on (`WF` of each call's steps). A statement that is
  issued for a cluster again and again does not fail for ever, and the agent's
  ticker keeps reporting (`SF` of the report, the SELECT and the acknowledged
  writes, per call and cluster). Strong fairness is needed since failures, crashes
  and other calls keep disabling these steps. `NameConverges` assumes that the
  cluster is no longer renamed.
- Agent: Go runs both loops, the ticker ticks, an RPC is answered or fails, the manager
  reacts to a failed loop and keeps its grace period, Kubernetes restarts a
  container and a lease expires (`WF` each). Nothing is assumed about success:
  `KeepsReporting` says that reports go on once failures stop.

- Collectors: the caches catch up (`WF` of `SyncNodes`, `SyncPods`), the ticker runs the
  next round and a process that ended is started again. `QuietClusterIsExact` assumes
  that the cluster no longer changes and that lists no longer fail.
- Server process: goroutines go on, and Kubernetes starts what has ended (`WF` of each).
  `EventuallyServes` assumes nothing more than `Settle` having come with the database up
  and a configuration that can work.

Safety properties use no fairness.

## 6. Proofs

TLAPS proves, for every value of the constants that satisfies the modules' named
assumptions:

- **WorkerServiceProofs**: `TypeOK`, `UniqueCluster`, `HistoryHasRow`, `PayloadsInOrder`,
  `AckedIsDurable`, `SettledUntilRenamed` and `ImplementsRegistry`. The invariants are
  inductive only together: a history has a row because the call that writes it has
  seen the row (part of `PayloadsInOrder`), which lasts because rows are never taken
  away (`TablesGrow`); a Save leaves clusters unique because the row it read has the
  cluster's ID, and leaves owners alone because every row is filed under the
  cluster's tenant (`OwnedRows`). Settled rows stay since a call that could write
  another name would be at work under an older one. For the refinement each SQL
  statement maps to a step of the registry or to a stutter.
- **AgentProofs**: `TypeOK`, `SingleReporter`, `Lockstep`. One reporter follows from two
  facts that are not visible in it: loops are at work only in a process whose manager
  runs or stops them, and such a process holds the lease.
- **QueryWindowProofs**: `CountedOnce`, `WholeIntervals`, `DefaultIsRecent`, for every
  interval length, from facts about multiples of the interval.
- **QueryProofs**: of TenantRead `TypeOK`, `OwnClustersOnly`, `NothingMissed`, for either
  kind of telemetry. Rows keep their owner and histories stay in the log, so what the
  handler reads late covers what was there at the start; by clusters no longer in
  `todo` it has been read already. Of the answers `AverageAtMostMax`, `PeaksShown`,
  `NodesOnTheirOwn` (GPUUsages), `AverageIsWithin` and `TotalWithDistinctNames`
  (SnapshotQuery). What they need of the state is that every history held is one that
  could be reported and that there are finitely many (`Stored`, `WellRead`); the rest is
  about the answer's operators: a sum of at most `n` numbers, none above the maximum,
  divided by `n`; and a regrouping of sums, by cluster or by name, when no two
  clusters have one name.
- **CollectorsProofs**: all that the run `collectors` checks but liveness. `OccupancyFits`
  holds since the pods bound to a node, in the cluster *and* in the cache of pods, never
  hold more GPUs than the largest capacity it has had (`Fits`): binding is the only step
  that adds to them, it looks at the capacity there is, and a cache is a state the
  cluster was in. The GPU telemetry is told by one invariant: each of the two maps holds
  the totals of what Prometheus had stored at some time of the round, the second at
  a later one, and the message is made of these (`Known`). So maxima are peaks of
  sets of points between what was stored first and last, and peaks grow with the points
  (`PeakMonotone`); and whatever the first map counts the second counts too.
  `QuietRoundsAreExact` is the safety that the liveness property `QuietClusterIsExact`
  rests on: while the cluster is quiet an agent that has caught up (`CaughtUp`) stays so,
  the round it completes makes its report exact, and no failed round and no new process
  makes an exact report wrong. What is left to TLC is that the agent catches up and that
  rounds complete.
- **SetSums**: what the two modules before rest on. The library's induction theorems
  cannot be instantiated, so induction over a finite set is stated for a *set* `U` of
  subsets in place of a predicate (`SubsetInduction`, `ElementInduction`) and proved from
  the well-founded order of strict subsets. By it the recursion that defines a sum over
  a set in the community modules has a solution and only one (`SumsExist`, `SumsAgree`),
  from which all that is used of sums follows.
- **TelemetryPipelineProofs**: `TypeOK`, `GPUHistoryHasRow`, `AckedEndToEnd`,
  `RecordedOnce`. Every step of
  the pipeline is a step of the agent or none, and one of the worker service or none, so
  the invariants of AgentProofs and WorkerServiceProofs carry over by
  instantiation. What is new is an invariant of the wire: a call that a link points to
  serves that sender alone and works on the payload it carries (`Linked`), a call has one
  payload (`OnePayload`), and the cluster has a row before anything but a sender's first
  payload is on its way, in the server or recorded (`RowBeforeGPU`). The step that gives
  the row is the OK for the first payload: it is durable (`AckedIsDurable`), it is a
  snapshot, and a snapshot's history has a row (`HistoryHasRow`).
  For `RecordedOnce` (`Unrepeated`): no two calls in the server have one message, nor have
  two RPCs that wait to be delivered; what waits to be delivered is neither recorded nor
  in the server; and what a call has yet to record is not recorded. A call that outlives
  its RPC thus keeps its message from any other.
  `EndsAreImplemented`: the pipeline implements Agent without leader election and
  WorkerService for one cluster, so what is proved of these holds of it
  (`ReadersMayRely`: the tables implement the registry that the queries are modelled on).
- **ServerProcessProofs**: `TypeOK`, `SchemaBeforeService`, for any number of pods and any
  configuration file. Pods share the schema, which only grows; so what a pod has found
  or created stays (`PassedParts`), and an end anywhere takes it back to the first part
  (`BeginsAtFirst`).

Only model-checked: liveness (`NameConverges`, `ReturnedLoopEndsProcess`, `KeepsReporting`,
`QuietClusterIsExact`, `ReturnedListenerEndsProcess`, `EventuallyServes`), which is out of
the prover's reach.

## 7. Not modelled

- The agent's configuration: two strings that are checked once at start.
- The beacon status sender and the usage sender: implemented in other repositories,
  started here, sharing no state with the telemetry.
- The HTTP gateway's routing and the interceptors: wiring; what they resolve is an input
  of the handlers.
- Generated code, about half of the implementation's lines.
- Overflow of `int32` sums, rounding of floats, quantities Kubernetes would not accept as
  a number of GPUs.
- Values of the request's `group_by` outside its enumeration.
- Gorm's own statements beyond the parts of the schema the service relies on.

## 8. Plan

What remains, in order of interest:

1. Two clusters in the pipeline: their calls meet only in the database.
2. TenantRead against WorkerService itself instead of the registry it implements.
