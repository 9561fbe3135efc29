------------------------- MODULE TelemetryPipeline -------------------------
(***************************************************************************)
(* The pods of one cluster's agent reporting to the worker service: Agent  *)
(* and WorkerService joined by the RPCs between them.  An RPC may never    *)
(* reach the server, its reply may be lost, either side may die during it, *)
(* and a call whose agent has gone runs on: the handlers do not pass their *)
(* context to the database.                                                *)
(***************************************************************************)
EXTENDS Naturals, Sequences

CONSTANTS
    Pods, NumCollectors, NoPod,                              \* Agent
    Calls, Cluster, Names, Tenant, Messages, NoRequest, NoRow, \* WorkerService
    NoMessage    \* carried of a sender without an RPC

ASSUME PipelineAssumption ==
    /\ NumCollectors \in Nat \ {0}
    /\ NoPod \notin Pods
    /\ NoMessage \notin Messages
    /\ Calls \cap {"none", "unsent", "broken"} = {}

VARIABLES
    proc, lease, col, ci, tick, snd, sending,                \* Agent
    clusterSnapshots, snapshotHistories, gpuHistories, pc, req, cur, existing,
    clusterName,                                             \* WorkerService
    link,       \* where the RPC of each pod is: the call that serves it, if any
    carried     \* the message the RPC carries

Kind(i) == IF i = 1 THEN "snapshot" ELSE "gpu"
Payloads == {<<[kind |-> Kind(i), message |-> m]>> :
               i \in 1..NumCollectors, m \in Messages}

\* Without leader election pods report side by side; a lease would only keep
\* some of them from it.
A == INSTANCE Agent WITH LeaderElection <- FALSE
W == INSTANCE WorkerService
    WITH Clusters <- {Cluster}, Tenants <- {Tenant}, Requests <- Payloads,
         TenantOf <- [c \in {Cluster} |-> Tenant]

ASSUME MarkersAssumption ==
    /\ NoRequest \notin W!Request
    /\ NoRow \notin W!Row
    /\ NoRow \notin Names

agent  == <<proc, lease, col, ci, tick, snd, sending>>
server == <<clusterSnapshots, snapshotHistories, gpuHistories, pc, req, cur,
            existing, clusterName>>
wire   == <<link, carried>>
vars   == <<agent, server, wire>>

Init ==
    /\ A!Init
    /\ W!Init
    /\ link = [p \in Pods |-> "none"]
    /\ carried = [p \in Pods |-> NoMessage]

\* What was collected now is like nothing collected before.
Recorded == {e.message : e \in snapshotHistories \cup gpuHistories}
InServer == {req[h].payloads[1].message : h \in {g \in Calls : req[g] # NoRequest}}
InTransit == {carried[p] : p \in Pods}
Fresh == Messages \ (Recorded \cup InTransit \cup InServer)

-----------------------------------------------------------------------------
HangUp(p) ==
    /\ link' = [link EXCEPT ![p] = "none"]
    /\ carried' = [carried EXCEPT ![p] = NoMessage]

\* The agent's steps that do not touch an RPC.
AgentStep(p) ==
    /\ \/ A!CollectOK(p) \/ A!CollectErr(p) \/ A!Tick(p) \/ A!TakeTick(p)
       \/ A!CollectorDone(p) \/ A!SenderDone(p)
       \/ A!Boot(p) \/ A!StartLoops(p) \/ A!LoopFailed(p)
    /\ UNCHANGED <<server, wire>>

\* The sender takes a payload and starts an RPC for it.
Send(p, m) ==
    /\ A!Handoff(p)
    /\ link' = [link EXCEPT ![p] = "unsent"]
    /\ carried' = [carried EXCEPT ![p] = m]
    /\ UNCHANGED server

\* The process dies, and its RPC with it.
AgentDies(p) ==
    /\ A!Exit(p) \/ A!GraceTimeout(p) \/ A!Kill(p)
    /\ HangUp(p)
    /\ UNCHANGED server

\* Definitions named Faulty... are mistakes the code could have made; no
\* behaviour of this specification uses them.
FaultyDeliverTwice(p, h) ==
    /\ link[p] \in {"unsent"} \cup Calls
    /\ W!Receive(h, Cluster, <<[kind |-> Kind(sending[p]),
                                message |-> carried[p]]>>)
    /\ link' = [link EXCEPT ![p] = h]
    /\ UNCHANGED <<agent, carried>>

\* The request arrives and a call begins.
Deliver(p, h) ==
    /\ link[p] = "unsent"
    /\ \/ W!Receive(h, Cluster, <<[kind |-> Kind(sending[p]),
                                   message |-> carried[p]]>>)
       \/ W!ReceiveUnauthenticated(h)
    /\ link' = [link EXCEPT ![p] = h]
    /\ UNCHANGED <<agent, carried>>

FaultyReplyIgnored(p, h) ==
    /\ link[p] = h
    /\ W!Return(h)
    /\ A!SendOK(p)
    /\ HangUp(p)

\* The reply arrives: OK, or an error.
Reply(p, h) ==
    /\ link[p] = h
    /\ W!Return(h)
    /\ IF pc[h] = "OK" THEN A!SendOK(p) ELSE A!SendErr(p)
    /\ HangUp(p)

FaultyFailKeepsLink(p) ==
    /\ A!SendErr(p)
    /\ UNCHANGED <<server, wire>>

\* The RPC fails on the agent's side: no connection, a connection lost, or the
\* process is stopping.
Fail(p) ==
    /\ A!SendErr(p)
    /\ HangUp(p)
    /\ UNCHANGED server

\* A call whose agent no longer waits ends all the same.
ReplyToNobody(h) ==
    /\ \A p \in Pods : link[p] # h
    /\ W!Return(h)
    /\ UNCHANGED <<agent, wire>>

ServerStep(h) ==
    /\ (\E ok \in BOOLEAN : W!Step(h, ok)) \/ W!StatementFails(h)
    /\ UNCHANGED <<agent, wire>>

\* The server dies: what it was serving is never answered.
ServerDies ==
    /\ W!Crash
    /\ link' = [p \in Pods |-> IF link[p] \in Calls THEN "broken" ELSE link[p]]
    /\ UNCHANGED <<agent, carried>>

Renamed(n) ==
    /\ W!RenameCluster(Cluster, n)
    /\ UNCHANGED <<agent, wire>>

Next ==
    \/ \E p \in Pods :
         \/ AgentStep(p)
         \/ \E m \in Fresh : Send(p, m)
         \/ AgentDies(p)
         \/ Fail(p)
         \/ \E h \in Calls : Deliver(p, h) \/ Reply(p, h)
    \/ \E h \in Calls : ServerStep(h) \/ ReplyToNobody(h)
    \/ ServerDies
    \/ \E n \in Names : Renamed(n)

Spec == Init /\ [][Next]_vars

-----------------------------------------------------------------------------
(* Correctness.                                                            *)

TypeOK ==
    /\ A!TypeOK
    /\ W!TypeOK
    /\ link \in [Pods -> Calls \cup {"none", "unsent", "broken"}]
    /\ carried \in [Pods -> Messages \cup {NoMessage}]
    /\ \A p \in Pods : link[p] = "none" <=> snd[p] # "rpc"

\* The GPU histories belong to a listed cluster, although the server stores one
\* without looking for the cluster's row: an agent sends a snapshot first, one
\* payload at a time, and gives up for good when one is not acknowledged, to
\* start over with a snapshot.
GPUHistoryHasRow == \A e \in gpuHistories : W!Registered(e.cluster)

\* A payload the agent got an OK for is in the database, and with it the row of
\* the cluster it is found through.
AckedEndToEnd ==
    [][\A p \in Pods : snd[p] = "rpc" /\ snd'[p] = "recv" =>
         /\ carried[p] \in Recorded
         /\ W!Registered(Cluster)]_vars

\* No payload is recorded a second time, neither by a call that outlived its
\* agent nor after an error or crash on either side: nothing is sent again.
RecordedOnce ==
    [][\A h \in Calls, ok \in BOOLEAN :
         W!CreateClusterSnapshotHistory(h, ok) \/ W!CreateGPUTelemetryHistory(h, ok)
           => W!Current(h).message \notin Recorded]_vars
=============================================================================
