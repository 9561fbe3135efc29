---------------------------- MODULE GPUTelemetry ----------------------------
(***************************************************************************)
(* The GPU telemetry collector and its Prometheus client                   *)
(* (agent/internal/collector/gpu_telemetry.go and prometheus/).  One round *)
(* fixes a time range, lists the nodes, queries Prometheus for the         *)
(* utilization and then for the memory of the GPUs, and joins the three by *)
(* hostname, while values are stored and pods and nodes come and go.       *)
(* Prometheus, its exporters and the cluster are external.  Time is        *)
(* counted in steps of the range.  At each step a range query returns, of  *)
(* every series, the latest value within Prometheus' lookback: such a      *)
(* point need not have been scraped at that step, and a replaced exporter  *)
(* and its successor have points at the same step for a while.             *)
(***************************************************************************)
EXTENDS Integers, FiniteSetsExt

CONSTANTS
    NodeObjects, \* what the API server may list: [name, hostname, selected]
    Hosts,       \* hostnames
    Exports,     \* what the series of each host may show at one step: sets of
                 \* readings
    NoLabel,     \* a label that is not set
    BadLabel,    \* a gpu label that is no number
    NoPod,       \* a GPU that no pod uses; namespace, pod and container are one
    NaN,         \* what becomes of 0/0
    Duration,    \* metricsDuration, in steps
    MiB,         \* bytes of the unit of the memory metric
    MaxNow       \* the clock is cut off here

Metrics == {"util", "mem"}

\* What is assumed of the constants; the instantiating module states it.  An
\* exporter shows, for one GPU, the labels of its series and the metrics it has.
\* A pod that uses a GPU holds some of its memory.
TelemetryAssumption ==
    /\ \A host \in Hosts : \A e \in Exports[host] : IsFiniteSet(e) /\ \A r \in e :
         /\ r.labels.hostname \in Hosts \cup {NoLabel}
         /\ DOMAIN r.values \subseteq Metrics
         /\ \A m \in DOMAIN r.values : r.values[m] \in Nat
         /\ r.labels.pod # NoPod /\ "util" \in DOMAIN r.values /\ r.values["util"] > 0
              => "mem" \in DOMAIN r.values /\ r.values["mem"] > 0
    /\ \A n \in NodeObjects : n.selected \in BOOLEAN /\ n.hostname \in Hosts \cup {NoLabel}
    /\ NaN \notin Nat
    /\ Duration \in Nat
    /\ MiB \in Nat \ {0}
    /\ MaxNow \in Nat

VARIABLES
    now,         \* the clock
    samples,     \* the points that range queries find: [host, time, reading]
    pc,          \* what the collector reads next
    rng,         \* the range of the round
    nodesByHostname,
    gpuUtilByHost, gpuMemUsedByHost,
    telemetry,   \* the payload of the round
    began        \* auxiliary: the samples when the round began

world == <<now, samples>>
local == <<rng, nodesByHostname, gpuUtilByHost, gpuMemUsedByHost, telemetry>>
vars  == <<world, pc, local, began>>

-----------------------------------------------------------------------------
(* The Prometheus client.                                                  *)

\* The points of the series in a range, both ends included.
InRange(r, metric) ==
    {s \in samples : /\ r.start <= s.time /\ s.time <= r.end
                     /\ metric \in DOMAIN s.reading.values}

\* NewDCGMMetricKey refuses a series without the labels every GPU has.
Malformed(s) ==
    \/ s.reading.labels.hostname = NoLabel
    \/ s.reading.labels.gpu \in {NoLabel, BadLabel}

\* ... and leaves out all others but these: series of a restarted exporter
\* have the same key, also while they overlap.
Key(s) == [hostname |-> s.reading.labels.hostname, gpu |-> s.reading.labels.gpu,
           pod      |-> s.reading.labels.pod]

\* Definitions named Faulty... are mistakes the code could have made; no
\* behaviour of this specification uses them.
FaultyValuesByKey(points) ==
    [k \in {Key(s) : s \in points} |->
        LET same == {s \in points : Key(s) = k}
            one  == CHOOSE s \in same : \A t \in same : t.time <= s.time
        IN  {s \in same : s.reading.labels = one.reading.labels}]

\* QueryDCGMMetric appends the points of all series with a key.
ValuesByKey(points) ==
    [k \in {Key(s) : s \in points} |-> {s \in points : Key(s) = k}]

-----------------------------------------------------------------------------
(* The joins.                                                              *)

FaultyUsedHosts(values) == {k.hostname : k \in DOMAIN values}

\* The hosts that get a map: those with a GPU in use by a pod.
UsedHosts(values) == {k.hostname : k \in {x \in DOMAIN values : x.pod # NoPod}}

\* buildSampleMapByHost, with the values of a time added up: computeMaxAvg only
\* uses their sum.
SampleMapByHost(values, metric) ==
    [host \in UsedHosts(values) |->
        LET used == UNION {values[k] : k \in {x \in DOMAIN values :
                                                x.hostname = host /\ x.pod # NoPod}}
        IN  [t \in {s.time : s \in used} |->
               SumFunction([s \in {u \in used : u.time = t} |->
                              s.reading.values[metric]])]]

Quotient(n, d) == [num |-> n, den |-> d]
Truncated(q) == IF q.den = 0 THEN NaN ELSE q.num \div q.den

FaultyComputeMaxAvg(m) ==
    [max |-> Max({m[t] : t \in DOMAIN m} \cup {0}),
     avg |-> Quotient(SumFunction(m), Duration)]

\* The average is taken over the times at which there are samples of the host;
\* dividing by zero makes it NaN.
ComputeMaxAvg(m) ==
    [max |-> Max({m[t] : t \in DOMAIN m} \cup {0}),
     avg |-> Quotient(SumFunction(m), Cardinality(DOMAIN m))]

MaxAvgOf(byHost, host) ==
    IF host \in DOMAIN byHost THEN ComputeMaxAvg(byHost[host])
                              ELSE [max |-> 0, avg |-> Quotient(0, 1)]

\* buildGPUTelemetryMessage: a node for each host with samples of either metric
\* that is the host of a selected node.  Percentages become GPUs, MiB bytes.
Message(util, mem, byHostname) ==
    {LET u == MaxAvgOf(util, host)
         m == MaxAvgOf(mem, host)
     IN  [name   |-> byHostname[host].name,
          host   |-> host,
          maxGPUUsed       |-> Quotient(u.max, 100),
          avgGPUUsed       |-> Quotient(u.avg.num, u.avg.den * 100),
          maxGPUMemoryUsed |-> m.max * MiB,
          avgGPUMemoryUsed |-> Truncated(Quotient(m.avg.num * MiB, m.avg.den))] :
     host \in (DOMAIN util \cup DOMAIN mem) \cap DOMAIN byHostname}

-----------------------------------------------------------------------------
(* collect.                                                                *)

Empty == << >>

Begin ==
    /\ pc = "begin"
    /\ rng' = [start |-> now - Duration, end |-> now]
    /\ began' = samples
    /\ telemetry' = {}
    /\ pc' = "nodes"
    /\ UNCHANGED <<world, nodesByHostname, gpuUtilByHost, gpuMemUsedByHost>>

\* The nodes by hostname; of several with the same one the last in the list stays.
IndexedByHostname(listed) ==
    {m \in [{n.hostname : n \in listed} -> listed] :
        \A host \in DOMAIN m : m[host].hostname = host}

FaultyListNodes ==
    /\ pc = "nodes"
    /\ \E nodes \in SUBSET NodeObjects :
         nodesByHostname' \in IndexedByHostname({n \in nodes : n.selected})
    /\ pc' = "util"
    /\ UNCHANGED <<world, rng, gpuUtilByHost, gpuMemUsedByHost, telemetry, began>>

\* Whatever nodes the cluster has at the moment, the selected ones are taken but
\* for those without a hostname label.
ListNodes ==
    /\ pc = "nodes"
    /\ \E nodes \in SUBSET NodeObjects :
         nodesByHostname' \in IndexedByHostname(
            {n \in nodes : n.selected /\ n.hostname # NoLabel})
    /\ pc' = "util"
    /\ UNCHANGED <<world, rng, gpuUtilByHost, gpuMemUsedByHost, telemetry, began>>

QueryUtil ==
    /\ pc = "util"
    /\ ~\E s \in InRange(rng, "util") : Malformed(s)
    /\ gpuUtilByHost' = SampleMapByHost(ValuesByKey(InRange(rng, "util")), "util")
    /\ pc' = "mem"
    /\ UNCHANGED <<world, rng, nodesByHostname, gpuMemUsedByHost, telemetry, began>>

FaultyQueryMem ==
    /\ pc = "mem"
    /\ gpuMemUsedByHost' =
         LET later == [start |-> now - Duration, end |-> now]
         IN  SampleMapByHost(ValuesByKey(InRange(later, "mem")), "mem")
    /\ telemetry' = Message(gpuUtilByHost, gpuMemUsedByHost', nodesByHostname)
    /\ pc' = "sent"
    /\ UNCHANGED <<world, rng, nodesByHostname, gpuUtilByHost, began>>

\* The same range for the second metric, and the message.
QueryMem ==
    /\ pc = "mem"
    /\ ~\E s \in InRange(rng, "mem") : Malformed(s)
    /\ gpuMemUsedByHost' = SampleMapByHost(ValuesByKey(InRange(rng, "mem")), "mem")
    /\ telemetry' = Message(gpuUtilByHost, gpuMemUsedByHost', nodesByHostname)
    /\ pc' = "sent"
    /\ UNCHANGED <<world, rng, nodesByHostname, gpuUtilByHost, began>>

\* A single series that cannot be read, of any host, fails the round, as an
\* unreachable API server or Prometheus does.
MetricFails ==
    /\ pc \in Metrics
    /\ \E s \in InRange(rng, pc) : Malformed(s)
    /\ pc' = "failed"
    /\ UNCHANGED <<world, local, began>>

ReadFails ==
    /\ pc \in {"nodes", "util", "mem"}
    /\ pc' = "failed"
    /\ UNCHANGED <<world, local, began>>

\* The next round, of this process or, after an error, of the next one.
NextRound ==
    /\ pc \in {"sent", "failed"}
    /\ pc' = "begin"
    /\ rng' = Empty /\ nodesByHostname' = Empty
    /\ gpuUtilByHost' = Empty /\ gpuMemUsedByHost' = Empty
    /\ telemetry' = {} /\ began' = {}
    /\ UNCHANGED world

-----------------------------------------------------------------------------
(* Prometheus and the cluster.                                             *)

\* The series of a host have their points at the current step.
PointsAppear(host, e) ==
    /\ \A s \in samples : ~(s.host = host /\ s.time = now)
    /\ samples' = samples \cup
         {[host |-> host, time |-> now, reading |-> r] : r \in e}
    /\ UNCHANGED <<now, pc, local, began>>

TimePasses ==
    /\ now < MaxNow
    /\ now' = now + 1
    /\ UNCHANGED <<samples, pc, local, began>>

Init ==
    /\ now = 0
    /\ samples = {}
    /\ pc = "begin"
    /\ rng = Empty /\ nodesByHostname = Empty
    /\ gpuUtilByHost = Empty /\ gpuMemUsedByHost = Empty
    /\ telemetry = {} /\ began = {}

Collector ==
    \/ Begin \/ ListNodes \/ QueryUtil \/ QueryMem
    \/ MetricFails \/ ReadFails \/ NextRound

Environment ==
    \/ \E host \in Hosts : \E e \in Exports[host] : PointsAppear(host, e)
    \/ TimePasses

Next == Collector \/ Environment

Spec == Init /\ [][Next]_vars

-----------------------------------------------------------------------------
(* Correctness.                                                            *)

TypeOK ==
    /\ now \in 0..MaxNow
    /\ \A s \in samples : s.host \in Hosts /\ s.time \in 0..now
    /\ began \subseteq samples
    /\ pc \in {"begin", "nodes", "sent", "failed"} \cup Metrics
    /\ DOMAIN nodesByHostname \subseteq Hosts
    /\ \A host \in DOMAIN nodesByHostname :
         nodesByHostname[host] \in NodeObjects /\ nodesByHostname[host].hostname = host
    /\ \A n \in telemetry : n.host \in DOMAIN nodesByHostname

\* Every number of the message is one: no host is averaged over no samples, in
\* particular not one whose GPUs no pod has used.
NoDivisionByZero ==
    \A n \in telemetry : n.avgGPUUsed.den # 0 /\ n.avgGPUMemoryUsed # NaN

\* The average of a node is never above its maximum, however the pods and
\* containers that share its GPUs come and go over the sample times.
AverageAtMostMax ==
    \A n \in telemetry :
        /\ n.avgGPUUsed.num * n.maxGPUUsed.den <= n.maxGPUUsed.num * n.avgGPUUsed.den
        /\ n.avgGPUMemoryUsed <= n.maxGPUMemoryUsed

\* The two metrics are read at different times and still fit: no node is shown
\* to use GPUs and no GPU memory.
UseImpliesMemory ==
    \A n \in telemetry : n.maxGPUUsed.num > 0 => n.maxGPUMemoryUsed > 0

\* The largest use that the pods of a host made of its GPUs at any one step, as
\* the points tell it: overlapping series of one GPU add up, here as in the code.
Peak(stored, host, metric) ==
    LET used == {s \in stored : /\ rng.start <= s.time /\ s.time <= rng.end
                                /\ s.reading.labels.hostname = host
                                /\ s.reading.labels.pod # NoPod
                                /\ metric \in DOMAIN s.reading.values}
        at(t) == SumFunction([s \in {u \in used : u.time = t} |->
                                s.reading.values[metric]])
    IN  Max({at(t) : t \in {s.time : s \in used}} \cup {0})

\* A node's maximum is at least the peak of the points there were when the round
\* began and at most that of those there are now: nothing is lost to series with
\* a common key, to the join or to points that appear in between, and no point
\* is counted twice.
PeaksAreSeen ==
    pc = "sent" =>
        /\ \A n \in telemetry :
             /\ n.maxGPUUsed.num \in
                  Peak(began, n.host, "util")..Peak(samples, n.host, "util")
             /\ n.maxGPUMemoryUsed \in
                  (Peak(began, n.host, "mem") * MiB)..(Peak(samples, n.host, "mem") * MiB)
        /\ \A host \in DOMAIN nodesByHostname :
             Peak(began, host, "mem") > 0 => \E n \in telemetry : n.host = host
=============================================================================
