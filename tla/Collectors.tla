----------------------------- MODULE Collectors -----------------------------
(***************************************************************************)
(* The two collectors of the agent, NodeSnapshot and GPUTelemetry.  The    *)
(* loop of collector.go runs them in turn, and neither keeps anything from *)
(* one round to the next: a behaviour is one of rounds of either           *)
(* collector, with what it reads moving underneath.                        *)
(***************************************************************************)
EXTENDS Naturals, Sequences

CONSTANTS
    Nodes, Pods, Limits, NoLimit, NodeStates, Unknown, MaxChanges,  \* NodeSnapshot
    NodeObjects, Hosts, Exports, NoPod, NaN, Duration, MaxNow,      \* GPUTelemetry
    NoLabel, BadLabel, MiB                                          \* both

VARIABLES
    turn,                                            \* the collector
    nodes, pods, largest, changes, nodeCache, podCache, npc, listed, snapshot,
    now, samples, gpc, rng, nodesByHostname, gpuUtilByHost, gpuMemUsedByHost,
    telemetry, began

N == INSTANCE NodeSnapshot WITH pc <- npc
G == INSTANCE GPUTelemetry WITH pc <- gpc

ASSUME CollectorsAssumption == N!SnapshotAssumption /\ G!TelemetryAssumption

snapshotVars == <<nodes, pods, largest, changes, nodeCache, podCache, npc,
                  listed, snapshot>>
gpuVars == <<now, samples, gpc, rng, nodesByHostname, gpuUtilByHost,
             gpuMemUsedByHost, telemetry, began>>
vars == <<turn, snapshotVars, gpuVars>>

Init == turn \in {"snapshot", "gpu"} /\ N!Init /\ G!Init

SnapshotRound == turn = "snapshot" /\ N!Next /\ UNCHANGED <<turn, gpuVars>>
GPURound      == turn = "gpu" /\ G!Next /\ UNCHANGED <<turn, snapshotVars>>

Next == SnapshotRound \/ GPURound

\* What the module of the collector assumes.
Fairness == turn = "snapshot" => N!Fairness

Spec == Init /\ [][Next]_vars

FairSpec == Spec /\ Fairness

-----------------------------------------------------------------------------
(* The properties of the two modules, stated there.                        *)

\* TypeOK of NodeSnapshot and of GPUTelemetry.
NodeSnapshotTypeOK == N!TypeOK
GPUTelemetryTypeOK == G!TypeOK

\* No node is shown with more GPUs occupied than it has had.
OccupancyFits == N!OccupancyFits

\* Once the cluster is quiet its snapshots become exact.
QuietClusterIsExact == N!QuietClusterIsExact

\* No host is averaged over no samples.
NoDivisionByZero == G!NoDivisionByZero

\* No average is above its maximum.
AverageAtMostMax == G!AverageAtMostMax

\* No node is shown to use GPUs and no GPU memory.
UseImpliesMemory == G!UseImpliesMemory

\* A maximum lies between the peaks known at the begin and the end of a round.
PeaksAreSeen == G!PeaksAreSeen
=============================================================================
