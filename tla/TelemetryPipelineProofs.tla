----------------------- MODULE TelemetryPipelineProofs -----------------------
(***************************************************************************)
(* The safety of the pipeline for any number of pods, calls, collectors,   *)
(* names and messages.  What AgentProofs and WorkerServiceProofs show of   *)
(* the two ends is carried over; what is new is an invariant of the wire   *)
(* between them.                                                           *)
(***************************************************************************)
EXTENDS TelemetryPipeline, SequenceTheorems, TLAPS

AP == INSTANCE AgentProofs WITH LeaderElection <- FALSE
WP == INSTANCE WorkerServiceProofs
    WITH Clusters <- {Cluster}, Tenants <- {Tenant}, Requests <- Payloads,
         TenantOf <- [c \in {Cluster} |-> Tenant]

-----------------------------------------------------------------------------
(* The two ends.                                                           *)

LEMMA AgentConstants == AP!AgentAssumption
  BY PipelineAssumption DEF AP!AgentAssumption

LEMMA PayloadsAreRequests ==
    /\ Payloads \subseteq Seq(WP!Payload)
    /\ \A ps \in Payloads : Len(ps) = 1 /\ ps[1] \in WP!Payload
  <1> SUFFICES ASSUME NEW ps \in Payloads
               PROVE  ps \in Seq(WP!Payload) /\ Len(ps) = 1 /\ ps[1] \in WP!Payload
    OBVIOUS
  <1>1. PICK i \in 1..NumCollectors, m \in Messages :
               ps = <<[kind |-> Kind(i), message |-> m]>>
    BY DEF Payloads
  <1>2. [kind |-> Kind(i), message |-> m] \in WP!Payload
    BY DEF WP!Payload, WP!Kinds, Kind
  <1> QED
    BY <1>1, <1>2

LEMMA WorkerConstants == WP!ConstantsAssumption
  <1>1. WP!Request = W!Request /\ WP!Row = W!Row
    BY DEF WP!Request, W!Request, WP!Row, W!Row, WP!Payload, W!Payload,
           WP!Kinds, W!Kinds
  <1> QED
    BY <1>1, MarkersAssumption, PayloadsAreRequests DEF WP!ConstantsAssumption

\* Every step of the pipeline is one of the agent, or none.
LEMMA AgentSteps == ASSUME [Next]_vars PROVE [AP!Next]_AP!vars
  <1>1. ASSUME NEW p \in Pods, A!Loops(p) \/ A!Manager(p)
        PROVE  AP!Next
    <2>1. AP!Loops(p) \/ AP!Manager(p)
      BY <1>1 DEF A!Loops, AP!Loops, A!Manager, AP!Manager, A!CollectOK,
        AP!CollectOK, A!CollectErr, AP!CollectErr, A!Handoff, AP!Handoff,
        A!NextCollector, AP!NextCollector, A!Tick, AP!Tick, A!TakeTick,
        AP!TakeTick, A!CollectorDone, AP!CollectorDone, A!SendOK, AP!SendOK,
        A!SendErr, AP!SendErr, A!SenderDone, AP!SenderDone, A!Boot, AP!Boot,
        A!StartLoops, AP!StartLoops, A!LoopFailed, AP!LoopFailed, A!StopLoops,
        AP!StopLoops, A!LeaseLost, AP!LeaseLost, A!Exit, AP!Exit, A!Reset,
        AP!Reset, A!GraceTimeout, AP!GraceTimeout, A!Kill, AP!Kill,
        A!NeedLeaderElection, AP!NeedLeaderElection, A!loops, AP!loops,
        A!Over, AP!Over
    <2> QED
      BY <2>1 DEF AP!Next
  <1>2. ASSUME UNCHANGED agent
        PROVE  UNCHANGED AP!vars
    BY <1>2 DEF agent, AP!vars, AP!loops
  <1>3. ASSUME NEW p \in Pods, AgentStep(p) \/ AgentDies(p) \/ Fail(p)
        PROVE  AP!Next
    <2>1. A!Loops(p) \/ A!Manager(p)
      BY <1>3 DEF AgentStep, AgentDies, Fail, A!Loops, A!Manager
    <2> QED
      BY <2>1, <1>1
  <1>4. ASSUME NEW p \in Pods, NEW m, Send(p, m)
        PROVE  AP!Next
    <2>1. A!Loops(p)
      BY <1>4 DEF Send, A!Loops
    <2> QED
      BY <2>1, <1>1
  <1>5. ASSUME NEW p \in Pods, NEW h \in Calls, Reply(p, h)
        PROVE  AP!Next
    <2>1. A!Loops(p)
      BY <1>5 DEF Reply, A!Loops
    <2> QED
      BY <2>1, <1>1
  <1>6. ASSUME \/ \E p \in Pods, h \in Calls : Deliver(p, h)
               \/ \E h \in Calls : ServerStep(h) \/ ReplyToNobody(h)
               \/ ServerDies
               \/ \E n \in Names : Renamed(n)
               \/ UNCHANGED vars
        PROVE  UNCHANGED agent
    BY <1>6 DEF Deliver, ServerStep, ReplyToNobody, ServerDies, Renamed, vars
  <1> QED
    BY <1>2, <1>3, <1>4, <1>5, <1>6 DEF Next

-----------------------------------------------------------------------------
(* The wire.                                                               *)

\* The payload the RPC of p carries.
PayloadOf(p) == [kind |-> Kind(sending[p]), message |-> carried[p]]

\* A loop that is idle has sent nothing yet, one with an RPC has a payload.
WireTypes ==
    /\ link \in [Pods -> Calls \cup {"none", "unsent", "broken"}]
    /\ carried \in [Pods -> Messages \cup {NoMessage}]
    /\ \A p \in Pods :
         /\ link[p] = "none" <=> snd[p] # "rpc"
         /\ snd[p] = "rpc" => carried[p] \in Messages /\ sending[p] # 0
         /\ snd[p] = "idle" => sending[p] = 0
         /\ sending[p] = 0 => ci[p] = 1

\* An RPC is served by a call of its own, which works on its payload.
Linked ==
    \A p \in Pods : link[p] \in Calls =>
        /\ pc[link[p]] # "idle"
        /\ pc[link[p]] # "Unauthenticated" => req[link[p]].payloads = <<PayloadOf(p)>>
        /\ \A q \in Pods : link[q] = link[p] => q = p

OnePayload ==
    \A h \in Calls :
        /\ req[h] # NoRequest => req[h].payloads \in Payloads
        /\ pc[h] \notin {"idle", "Unauthenticated"} => req[h] # NoRequest

\* The cluster has a row before anything but its first payload is on its way.
RowBeforeGPU ==
    /\ \A h \in Calls : req[h] # NoRequest /\ req[h].payloads[1].kind = "gpu"
                           => WP!Registered(Cluster)
    /\ \A p \in Pods :
         \/ snd[p] = "rpc" /\ sending[p] # 1
         \/ snd[p] = "recv" /\ sending[p] # 0
         => WP!Registered(Cluster)
    /\ gpuHistories # {} => WP!Registered(Cluster)

IInv ==
    /\ AP!IInv /\ WP!IInv
    /\ WireTypes /\ Linked /\ OnePayload /\ RowBeforeGPU

LEMMA PayloadIsOne ==
    ASSUME IInv, NEW p \in Pods, snd[p] = "rpc"
    PROVE  <<PayloadOf(p)>> \in Payloads
  <1>1. sending[p] \in 1..NumCollectors
    BY DEF IInv, WireTypes, AP!IInv, AP!TypeOK, AP!Collectors
  <1> QED
    BY <1>1 DEF IInv, WireTypes, PayloadOf, Payloads

\* Every step of the pipeline is one of the worker service, or none.
LEMMA WorkerSteps == ASSUME IInv, [Next]_vars PROVE [WP!Next]_WP!vars
  <1>1. ASSUME NEW h \in Calls, ServerStep(h) \/ W!Return(h)
        PROVE  WP!Next
    <2>1. WP!Handle(h)
      BY <1>1 DEF ServerStep, WP!Handle, W!Step, WP!Step, W!TakeFound, WP!TakeFound,
        W!TakeNotFound, WP!TakeNotFound, W!Create, WP!Create, W!CreateDuplicate,
        WP!CreateDuplicate, W!Save, WP!Save, W!CreateClusterSnapshotHistory,
        WP!CreateClusterSnapshotHistory, W!CreateGPUTelemetryHistory,
        WP!CreateGPUTelemetryHistory, W!NextPayload, WP!NextPayload, W!After,
        WP!After, W!Process, WP!Process, W!FirstStatement, WP!FirstStatement,
        W!StatementFails, WP!StatementFails, W!Return, WP!Return, W!tables,
        WP!tables, W!Statements, WP!Statements, W!Replies, WP!Replies,
        W!Registered, WP!Registered, W!RowsOf, WP!RowsOf, W!RecordOf, WP!RecordOf,
        W!Current, WP!Current
    <2> QED
      BY <2>1 DEF WP!Next
  <1>2. ASSUME NEW p \in Pods, NEW h \in Calls, Deliver(p, h)
        PROVE  WP!Next
    <2>1. <<PayloadOf(p)>> \in Payloads
      BY <1>2, PayloadIsOne DEF Deliver, IInv, WireTypes
    <2>2. WP!Receive(h, Cluster, <<PayloadOf(p)>>) \/ WP!ReceiveUnauthenticated(h)
      BY <1>2 DEF Deliver, PayloadOf, W!Receive, WP!Receive, W!ReceiveUnauthenticated,
        WP!ReceiveUnauthenticated, W!tables, WP!tables, W!Process, WP!Process,
        W!FirstStatement, WP!FirstStatement
    <2> QED
      BY <2>1, <2>2 DEF WP!Next
  <1>3. CASE ServerDies
    BY <1>3 DEF ServerDies, WP!Next, W!Crash, WP!Crash, W!tables, WP!tables
  <1>4. ASSUME NEW n \in Names, Renamed(n)
        PROVE  WP!Next
    BY <1>4 DEF Renamed, WP!Next, W!RenameCluster, WP!RenameCluster, W!tables,
                WP!tables, W!local, WP!local
  <1>5. ASSUME UNCHANGED server
        PROVE  UNCHANGED WP!vars
    BY <1>5 DEF server, WP!vars, WP!tables, WP!local
  <1>6. ASSUME NEW p \in Pods, \/ AgentStep(p) \/ AgentDies(p) \/ Fail(p)
                               \/ \E m \in Fresh : Send(p, m)
        PROVE  UNCHANGED server
    BY <1>6 DEF AgentStep, AgentDies, Fail, Send
  <1>7. ASSUME NEW h \in Calls, ReplyToNobody(h) \/ \E p \in Pods : Reply(p, h)
        PROVE  W!Return(h)
    BY <1>7 DEF ReplyToNobody, Reply
  <1>8. CASE UNCHANGED vars
    BY <1>8, <1>5 DEF vars, server
  <1> QED
    BY <1>1, <1>2, <1>3, <1>4, <1>5, <1>6, <1>7, <1>8 DEF Next

\* The invariants of the two ends hold on.
LEMMA EndsStep ==
    ASSUME IInv, [Next]_vars
    PROVE  /\ AP!IInv' /\ WP!IInv'
           /\ snapshotHistories \subseteq snapshotHistories'
           /\ gpuHistories \subseteq gpuHistories'
           /\ WP!Registered(Cluster) => WP!Registered(Cluster)'
  <1>1. AP!IInv'
    BY AgentSteps, AgentConstants, AP!StepIInv DEF IInv
  <1>2. WP!IInv'
    BY WorkerSteps, WorkerConstants, WP!StepIInv DEF IInv
  <1>3. /\ snapshotHistories \subseteq snapshotHistories'
        /\ gpuHistories \subseteq gpuHistories'
        /\ \A c \in {Cluster} : WP!Registered(c) => WP!Registered(c)'
    BY WorkerSteps, WorkerConstants, WP!TablesGrow DEF IInv
  <1> QED
    BY <1>1, <1>2, <1>3

Wire == WireTypes /\ Linked /\ OnePayload /\ RowBeforeGPU

\* A call at work has one payload, is at it, and has met the conditions for what
\* it does next.
LEMMA CallAtWork ==
    ASSUME IInv, NEW h \in Calls, pc[h] \in W!Statements
    PROVE  /\ req[h] # NoRequest
           /\ cur[h] = 1 /\ Len(req[h].payloads) = 1
           /\ pc[h] = "gpuHistory" => req[h].payloads[1].kind = "gpu"
  <1>1. req[h].payloads \in Payloads /\ req[h] # NoRequest
    BY DEF IInv, OnePayload, W!Statements
  <1>2. WP!InOrder(h) /\ WP!Acting(h)
    BY DEF IInv, WP!IInv, WP!PayloadsInOrder, WP!Acting, WP!Statements, W!Statements
  <1>3. Len(req[h].payloads) = 1
    BY <1>1, PayloadsAreRequests
  <1>4. cur[h] = 1
    BY <1>2, <1>3 DEF WP!InOrder
  <1>5. pc[h] = "gpuHistory" => WP!Current(h).kind = "gpu"
    BY <1>2 DEF WP!InOrder
  <1> QED
    BY <1>1, <1>3, <1>4, <1>5 DEF WP!Current

LEMMA ServerStepMoves ==
    ASSUME IInv, NEW h \in Calls, ServerStep(h)
    PROVE  /\ UNCHANGED <<agent, wire, req>>
           /\ req[h] # NoRequest
           /\ \A g \in Calls \ {h} : pc'[g] = pc[g]
           /\ pc[h] \notin {"idle", "Unauthenticated"}
           /\ pc'[h] \notin {"idle", "Unauthenticated"}
           /\ gpuHistories' = gpuHistories \/ req[h].payloads[1].kind = "gpu"
  <1>0. pc \in [Calls -> WP!Statements \cup WP!Replies \cup {"idle"}]
    BY DEF IInv, WP!IInv, WP!TypeOK
  <1> USE <1>0
  <1>1. ASSUME \/ W!TakeFound(h) \/ W!TakeNotFound(h) \/ W!CreateDuplicate(h)
               \/ W!StatementFails(h)
               \/ \E ok \in BOOLEAN : W!Create(h, ok) \/ W!Save(h, ok)
        PROVE  /\ UNCHANGED <<req, gpuHistories>>
               /\ pc[h] \in W!Statements
               /\ \A g \in Calls \ {h} : pc'[g] = pc[g]
               /\ pc'[h] \notin {"idle", "Unauthenticated"}
    BY <1>1 DEF W!TakeFound, W!TakeNotFound, W!CreateDuplicate, W!StatementFails,
                W!Create, W!Save, W!After, W!Statements, W!tables
  <1>2. ASSUME NEW ok \in BOOLEAN,
               \/ W!CreateClusterSnapshotHistory(h, ok)
               \/ W!CreateGPUTelemetryHistory(h, ok)
        PROVE  /\ UNCHANGED req
               /\ pc[h] \in W!Statements
               /\ gpuHistories' = gpuHistories \/ pc[h] = "gpuHistory"
               /\ \A g \in Calls \ {h} : pc'[g] = pc[g]
               /\ pc'[h] \notin {"idle", "Unauthenticated"}
    <2>1. pc[h] \in W!Statements
      BY <1>2 DEF W!CreateClusterSnapshotHistory, W!CreateGPUTelemetryHistory,
                  W!Statements
    <2>2. W!Process(req[h].payloads, cur[h] + 1) = "OK"
      BY <2>1, CallAtWork DEF W!Process
    <2> QED
      BY <1>2, <2>1, <2>2 DEF W!CreateClusterSnapshotHistory,
         W!CreateGPUTelemetryHistory, W!NextPayload, W!After
  <1>3. /\ UNCHANGED req
        /\ pc[h] \in W!Statements
        /\ gpuHistories' = gpuHistories \/ pc[h] = "gpuHistory"
        /\ \A g \in Calls \ {h} : pc'[g] = pc[g]
        /\ pc'[h] \notin {"idle", "Unauthenticated"}
    BY <1>1, <1>2 DEF ServerStep, W!Step
  <1>4. UNCHANGED <<agent, wire>>
    BY DEF ServerStep
  <1> QED
    BY <1>3, <1>4, CallAtWork DEF W!Statements

LEMMA ServerStepWire ==
    ASSUME IInv, NEW h \in Calls, ServerStep(h),
           WP!Registered(Cluster) => WP!Registered(Cluster)'
    PROVE  Wire'
  <1>1. /\ UNCHANGED <<ci, snd, sending, link, carried, req>>
        /\ req[h] # NoRequest
        /\ \A g \in Calls \ {h} : pc'[g] = pc[g]
        /\ pc[h] \notin {"idle", "Unauthenticated"}
        /\ pc'[h] \notin {"idle", "Unauthenticated"}
        /\ gpuHistories' = gpuHistories \/ req[h].payloads[1].kind = "gpu"
    BY ServerStepMoves DEF agent, wire
  <1>2. WireTypes' /\ OnePayload'
    BY <1>1 DEF IInv, WireTypes, OnePayload
  <1>3. Linked'
    BY <1>1 DEF IInv, Linked, PayloadOf
  <1>4. RowBeforeGPU'
    BY <1>1 DEF IInv, RowBeforeGPU
  <1> QED
    BY <1>2, <1>3, <1>4 DEF Wire

\* The agent on its own, without an RPC or giving one up.
LEMMA AgentWire ==
    ASSUME IInv, NEW p \in Pods, AgentStep(p) \/ AgentDies(p) \/ Fail(p),
           WP!Registered(Cluster) => WP!Registered(Cluster)'
    PROVE  Wire'
  <1>1. /\ UNCHANGED <<pc, req, gpuHistories>>
        /\ \A q \in Pods \ {p} : /\ link'[q] = link[q] /\ carried'[q] = carried[q]
                                 /\ snd'[q] = snd[q] /\ sending'[q] = sending[q]
                                 /\ ci'[q] = ci[q]
        /\ link' \in [Pods -> Calls \cup {"none", "unsent", "broken"}]
        /\ carried' \in [Pods -> Messages \cup {NoMessage}]
        /\ \/ /\ link'[p] = link[p] /\ carried'[p] = carried[p]
              /\ sending'[p] = sending[p] /\ ci'[p] = ci[p]
              /\ \/ snd'[p] = snd[p]
                 \/ snd[p] = "recv" /\ snd'[p] = "ended"
                 \/ snd[p] = "idle" /\ snd'[p] = "recv"
           \/ /\ link'[p] = "none" /\ snd'[p] = "idle"
              /\ sending'[p] = 0 /\ ci'[p] = 1
           \/ /\ link'[p] = "none" /\ snd'[p] = "failed" /\ snd[p] = "rpc"
              /\ sending'[p] = sending[p] /\ ci'[p] = ci[p]
    <2>0. /\ link \in [Pods -> Calls \cup {"none", "unsent", "broken"}]
          /\ carried \in [Pods -> Messages \cup {NoMessage}]
          /\ AP!TypeOK
          /\ AP!LoopsNeedManager
      BY DEF IInv, WireTypes, AP!IInv
    <2> USE <2>0 DEF AP!TypeOK
    <2>1. CASE AgentStep(p)
      <3>1. UNCHANGED <<pc, req, gpuHistories, link, carried>>
        BY <2>1 DEF AgentStep, server, wire
      <3>2. CASE A!StartLoops(p)
        <4>1. snd[p] = "idle"
          BY <3>2 DEF A!StartLoops, AP!LoopsNeedManager, AP!Active
        <4> QED
          BY <3>1, <3>2, <4>1 DEF A!StartLoops
      <3>3. CASE A!SenderDone(p)
        BY <3>1, <3>3 DEF A!SenderDone
      <3>4. CASE \/ A!CollectOK(p) \/ A!CollectErr(p) \/ A!Tick(p) \/ A!TakeTick(p)
                 \/ A!CollectorDone(p) \/ A!Boot(p) \/ A!LoopFailed(p)
        <4>1. UNCHANGED <<ci, snd, sending>>
          BY <3>4 DEF A!CollectOK, A!CollectErr, A!Tick, A!TakeTick,
             A!CollectorDone, A!Boot, A!LoopFailed, A!StopLoops, A!loops
        <4> QED
          BY <3>1, <4>1
      <3> QED
        BY <2>1, <3>2, <3>3, <3>4 DEF AgentStep
    <2>2. CASE AgentDies(p)
      BY <2>2 DEF AgentDies, HangUp, server, A!Exit, A!GraceTimeout, A!Kill, A!Reset
    <2>3. CASE Fail(p)
      BY <2>3 DEF Fail, HangUp, server, A!SendErr
    <2> QED
      BY <2>1, <2>2, <2>3
  <1>2. WireTypes'
    BY <1>1 DEF IInv, WireTypes
  <1>3. Linked'
    BY <1>1, PipelineAssumption DEF IInv, Linked, PayloadOf
  <1>4. OnePayload'
    BY <1>1 DEF IInv, OnePayload
  <1>5. RowBeforeGPU'
    BY <1>1 DEF IInv, RowBeforeGPU, WireTypes
  <1> QED
    BY <1>2, <1>3, <1>4, <1>5 DEF Wire

LEMMA SendWire ==
    ASSUME IInv, NEW p \in Pods, NEW m \in Messages, Send(p, m),
           WP!Registered(Cluster) => WP!Registered(Cluster)'
    PROVE  Wire'
  <1>0. AP!TypeOK /\ WireTypes
    BY DEF IInv, AP!IInv
  <1>1. /\ UNCHANGED <<pc, req, gpuHistories>>
        /\ link' = [link EXCEPT ![p] = "unsent"]
        /\ carried' = [carried EXCEPT ![p] = m]
        /\ snd[p] = "recv" /\ snd' = [snd EXCEPT ![p] = "rpc"]
        /\ sending' = [sending EXCEPT ![p] = ci[p]]
        /\ \A q \in Pods \ {p} : ci'[q] = ci[q]
    BY <1>0 DEF Send, A!Handoff, A!NextCollector, server, AP!TypeOK
  <1>2. sending'[p] # 0
    BY <1>0, <1>1, PipelineAssumption DEF AP!TypeOK, AP!Collectors
  <1>3. WireTypes'
    BY <1>0, <1>1, <1>2 DEF WireTypes, AP!TypeOK
  <1>4. Linked'
    BY <1>0, <1>1, PipelineAssumption DEF IInv, Linked, PayloadOf, WireTypes, AP!TypeOK
  <1>5. OnePayload'
    BY <1>1 DEF IInv, OnePayload
  <1>6. RowBeforeGPU'
    BY <1>0, <1>1 DEF IInv, RowBeforeGPU, WireTypes, AP!TypeOK
  <1> QED
    BY <1>3, <1>4, <1>5, <1>6 DEF Wire

LEMMA DeliverWire ==
    ASSUME IInv, NEW p \in Pods, NEW h \in Calls, Deliver(p, h),
           WP!Registered(Cluster) => WP!Registered(Cluster)'
    PROVE  Wire'
  <1>0. WireTypes /\ WP!TypeOK /\ AP!TypeOK
    BY DEF IInv, WP!IInv, AP!IInv
  <1>1. /\ UNCHANGED <<gpuHistories, ci, snd, sending, carried>>
        /\ link' = [link EXCEPT ![p] = h]
        /\ pc[h] = "idle" /\ link[p] = "unsent"
        /\ \A g \in Calls \ {h} : pc'[g] = pc[g] /\ req'[g] = req[g]
    BY <1>0 DEF Deliver, agent, W!Receive, W!ReceiveUnauthenticated, W!tables,
                WP!TypeOK
  <1>2. \/ pc'[h] = "Unauthenticated" /\ req'[h] = req[h]
        \/ /\ pc'[h] \notin {"idle", "Unauthenticated"}
           /\ req'[h] # NoRequest /\ req'[h].payloads = <<PayloadOf(p)>>
    <2>1. CASE W!ReceiveUnauthenticated(h)
      BY <1>0, <2>1 DEF W!ReceiveUnauthenticated, WP!TypeOK
    <2>2. CASE W!Receive(h, Cluster, <<PayloadOf(p)>>)
      <3> DEFINE r == [cluster |-> Cluster, name |-> clusterName[Cluster],
                       payloads |-> <<PayloadOf(p)>>]
      <3>1. req'[h] = r /\ r.payloads = <<PayloadOf(p)>>
        BY <1>0, <2>2 DEF W!Receive, WP!TypeOK
      <3>2. <<PayloadOf(p)>> \in Payloads
        BY <1>0, <1>1, PayloadIsOne DEF WireTypes
      <3>3. r \in W!Request
        <4>1. <<PayloadOf(p)>> \in Seq(W!Payload)
          BY <3>2, PayloadsAreRequests
          DEF WP!Payload, W!Payload, WP!Kinds, W!Kinds
        <4>2. clusterName[Cluster] \in Names
          BY <1>0 DEF WP!TypeOK
        <4> QED
          BY <4>1, <4>2 DEF W!Request
      <3>4. pc'[h] = W!Process(<<PayloadOf(p)>>, 1)
        BY <1>0, <2>2 DEF W!Receive, WP!TypeOK
      <3>5. pc'[h] \in {"take", "gpuHistory"}
        BY <3>4 DEF W!Process, W!FirstStatement, PayloadOf, Kind
      <3> QED
        BY <3>1, <3>3, <3>5, MarkersAssumption
    <2> QED
      BY <2>1, <2>2 DEF Deliver, PayloadOf
  <1>3. WireTypes'
    <2>1. h # "none" /\ link[p] # "none"
      BY <1>1, PipelineAssumption
    <2>2. link' \in [Pods -> Calls \cup {"none", "unsent", "broken"}]
      BY <1>0, <1>1 DEF WireTypes
    <2>3. \A q \in Pods : link'[q] = "none" <=> link[q] = "none"
      BY <1>0, <1>1, <2>1 DEF WireTypes
    <2> QED
      BY <1>0, <1>1, <2>2, <2>3 DEF WireTypes
  <1>4. Linked'
    <2>1. \A q \in Pods : link[q] # h
      BY <1>1 DEF IInv, Linked
    <2>2. link'[p] = h /\ \A q \in Pods \ {p} : link'[q] = link[q]
      BY <1>0, <1>1 DEF WireTypes
    <2>3. \A q \in Pods : PayloadOf(q)' = PayloadOf(q)
      BY <1>1 DEF PayloadOf
    <2>4. ASSUME NEW q \in Pods, link'[q] \in Calls
          PROVE  /\ pc'[link'[q]] # "idle"
                 /\ pc'[link'[q]] # "Unauthenticated"
                      => req'[link'[q]].payloads = <<PayloadOf(q)>>
                 /\ \A r \in Pods : link'[r] = link'[q] => r = q
      <3>1. CASE q = p
        BY <3>1, <1>2, <2>1, <2>2
      <3>2. CASE q # p
        <4>1. link'[q] = link[q] /\ link[q] # h
          BY <3>2, <2>1, <2>2
        <4>2. pc'[link[q]] = pc[link[q]] /\ req'[link[q]] = req[link[q]]
          BY <1>1, <2>4, <4>1
        <4> QED
          BY <2>4, <4>1, <4>2, <2>2 DEF IInv, Linked
      <3> QED
        BY <3>1, <3>2
    <2> QED
      BY <2>3, <2>4 DEF Linked
  <1>5. OnePayload'
    BY <1>0, <1>1, <1>2, PayloadIsOne DEF IInv, OnePayload, WireTypes
  <1>6. PayloadOf(p).kind = "gpu" => WP!Registered(Cluster)
    BY <1>0, <1>1 DEF IInv, RowBeforeGPU, WireTypes, PayloadOf, Kind
  <1>7. RowBeforeGPU'
    BY <1>1, <1>2, <1>6 DEF IInv, RowBeforeGPU
  <1> QED
    BY <1>3, <1>4, <1>5, <1>7 DEF Wire

\* A call that answers OK to the RPC of p has recorded the payload p is sending.
LEMMA AckedPayload ==
    ASSUME IInv, NEW p \in Pods, link[p] \in Calls, pc[link[p]] = "OK"
    PROVE  /\ carried[p] \in Recorded
           /\ WP!Registered(Cluster)
  <1> DEFINE h == link[p]
  <1>1. /\ req[h].payloads = <<PayloadOf(p)>>
        /\ req[h] # NoRequest
    BY DEF IInv, Linked, OnePayload
  <1>2. req[h].cluster = Cluster
    BY <1>1 DEF IInv, WP!IInv, WP!TypeOK, WP!Request
  <1>3. WP!Stored(h, 1)
    <2>1. 1 \in 1..Len(req[h].payloads)
      BY <1>1
    <2> QED
      BY <2>1 DEF IInv, WP!IInv, WP!AckedIsDurable
  <1> DEFINE e == [cluster |-> Cluster, message |-> carried[p]]
  <1>4. \/ Kind(sending[p]) = "snapshot" /\ e \in snapshotHistories
        \/ Kind(sending[p]) = "gpu" /\ e \in gpuHistories
    BY <1>1, <1>2, <1>3 DEF WP!Stored, PayloadOf
  <1>5. carried[p] \in Recorded
    <2>1. e.message = carried[p]
      OBVIOUS
    <2> QED
      BY <1>4, <2>1 DEF Recorded
  <1>6. WP!Registered(Cluster)
    <2>1. e \in snapshotHistories => WP!Registered(e.cluster)
      BY DEF IInv, WP!IInv, WP!HistoryHasRow
    <2> QED
      BY <1>4, <2>1 DEF IInv, RowBeforeGPU
  <1> QED
    BY <1>5, <1>6

LEMMA ReplyWire ==
    ASSUME IInv, NEW p \in Pods, NEW h \in Calls, Reply(p, h),
           WP!Registered(Cluster) => WP!Registered(Cluster)'
    PROVE  Wire'
  <1>0. WireTypes /\ WP!TypeOK /\ AP!TypeOK
    BY DEF IInv, WP!IInv, AP!IInv
  <1>1. /\ UNCHANGED <<gpuHistories, ci, sending>>
        /\ link' = [link EXCEPT ![p] = "none"] /\ link[p] = h
        /\ carried' = [carried EXCEPT ![p] = NoMessage]
        /\ \A g \in Calls \ {h} : pc'[g] = pc[g] /\ req'[g] = req[g]
        /\ pc'[h] = "idle" /\ req'[h] = NoRequest
        /\ snd[p] = "rpc"
        /\ \/ pc[h] = "OK" /\ snd' = [snd EXCEPT ![p] = "recv"]
           \/ snd' = [snd EXCEPT ![p] = "failed"]
    BY <1>0 DEF Reply, HangUp, A!SendOK, A!SendErr, W!Return, W!tables, WP!TypeOK
  <1>2. \A q \in Pods \ {p} : /\ link'[q] = link[q] /\ link[q] # h
                              /\ snd'[q] = snd[q] /\ carried'[q] = carried[q]
    BY <1>0, <1>1 DEF IInv, Linked, WireTypes, AP!TypeOK
  <1>3. link'[p] = "none" /\ snd'[p] \in {"recv", "failed"}
    BY <1>0, <1>1 DEF WireTypes, AP!TypeOK
  <1>4. WireTypes'
    <2>1. link' \in [Pods -> Calls \cup {"none", "unsent", "broken"}]
      BY <1>0, <1>1 DEF WireTypes
    <2>2. carried' \in [Pods -> Messages \cup {NoMessage}]
      BY <1>0, <1>1 DEF WireTypes
    <2>3. ASSUME NEW q \in Pods
          PROVE  /\ link'[q] = "none" <=> snd'[q] # "rpc"
                 /\ snd'[q] = "rpc" => carried'[q] \in Messages /\ sending[q] # 0
                 /\ snd'[q] = "idle" => sending[q] = 0
                 /\ sending[q] = 0 => ci[q] = 1
      BY <1>0, <1>2, <1>3 DEF WireTypes
    <2> QED
      BY <1>1, <2>1, <2>2, <2>3 DEF WireTypes
  <1>5. Linked'
    <2>1. link'[p] \notin Calls
      BY <1>3, PipelineAssumption
    <2>2. \A q \in Pods \ {p} : PayloadOf(q)' = PayloadOf(q)
      BY <1>1, <1>2 DEF PayloadOf
    <2> QED
      BY <1>1, <1>2, <2>1, <2>2 DEF IInv, Linked
  <1>6. OnePayload'
    BY <1>1 DEF IInv, OnePayload
  <1>7. snd'[p] = "recv" /\ sending[p] # 0 => WP!Registered(Cluster)
    <2>1. CASE pc[h] = "OK"
      BY <1>1, <2>1, AckedPayload
    <2>2. CASE snd' = [snd EXCEPT ![p] = "failed"]
      BY <1>0, <2>2 DEF AP!TypeOK
    <2> QED
      BY <1>1, <2>1, <2>2
  <1>8. RowBeforeGPU'
    <2>1. \A q \in Pods :
            \/ snd'[q] = "rpc" /\ sending[q] # 1
            \/ snd'[q] = "recv" /\ sending[q] # 0
            => WP!Registered(Cluster)
      BY <1>2, <1>3, <1>7 DEF IInv, RowBeforeGPU
    <2> QED
      BY <1>1, <2>1 DEF IInv, RowBeforeGPU
  <1> QED
    BY <1>4, <1>5, <1>6, <1>8 DEF Wire

\* A call nobody waits for frees itself alone.
LEMMA ReplyToNobodyWire ==
    ASSUME IInv, NEW h \in Calls, ReplyToNobody(h),
           WP!Registered(Cluster) => WP!Registered(Cluster)'
    PROVE  Wire'
  <1>1. /\ UNCHANGED <<gpuHistories, ci, snd, sending, link, carried>>
        /\ \A g \in Calls \ {h} : pc'[g] = pc[g] /\ req'[g] = req[g]
        /\ pc'[h] = "idle" /\ req'[h] = NoRequest
        /\ \A q \in Pods : link[q] # h
    BY DEF ReplyToNobody, agent, wire, W!Return, W!tables, IInv, WP!IInv, WP!TypeOK
  <1>2. WireTypes' /\ OnePayload'
    BY <1>1 DEF IInv, WireTypes, OnePayload
  <1>3. Linked'
    BY <1>1 DEF IInv, Linked, PayloadOf
  <1>4. RowBeforeGPU'
    BY <1>1 DEF IInv, RowBeforeGPU
  <1> QED
    BY <1>2, <1>3, <1>4 DEF Wire

LEMMA ServerDiesWire ==
    ASSUME IInv, ServerDies,
           WP!Registered(Cluster) => WP!Registered(Cluster)'
    PROVE  Wire'
  <1>1. /\ UNCHANGED <<gpuHistories, ci, snd, sending, carried>>
        /\ link' = [p \in Pods |-> IF link[p] \in Calls THEN "broken" ELSE link[p]]
        /\ \A g \in Calls : pc'[g] = "idle" /\ req'[g] = NoRequest
    BY DEF ServerDies, agent, W!Crash, W!tables
  <1>2. \A p \in Pods : /\ link'[p] \notin Calls
                        /\ link'[p] = "none" <=> link[p] = "none"
    BY <1>1, PipelineAssumption
  <1>3. WireTypes'
    <2>1. link' \in [Pods -> Calls \cup {"none", "unsent", "broken"}]
      BY <1>1 DEF IInv, WireTypes
    <2> QED
      BY <1>1, <1>2, <2>1 DEF IInv, WireTypes
  <1>4. Linked' /\ OnePayload'
    BY <1>1, <1>2 DEF Linked, OnePayload
  <1>5. RowBeforeGPU'
    BY <1>1 DEF IInv, RowBeforeGPU
  <1> QED
    BY <1>3, <1>4, <1>5 DEF Wire

-----------------------------------------------------------------------------
(* The invariant.                                                          *)

LEMMA InitIInv == Init => IInv
  <1> SUFFICES ASSUME Init
               PROVE  IInv
    OBVIOUS
  <1>1. AP!Init /\ WP!Init
    BY DEF Init, A!Init, AP!Init, W!Init, WP!Init
  <1>2. AP!IInv /\ WP!IInv
    BY <1>1, AgentConstants, WorkerConstants, AP!InitIInv, WP!InitIInv
  <1>3. WireTypes
    BY DEF Init, A!Init, WireTypes
  <1>4. Linked /\ OnePayload /\ RowBeforeGPU
    BY PipelineAssumption DEF Init, A!Init, W!Init, Linked, OnePayload, RowBeforeGPU
  <1> QED
    BY <1>2, <1>3, <1>4 DEF IInv

LEMMA StepIInv == IInv /\ [Next]_vars => IInv'
  <1> SUFFICES ASSUME IInv, [Next]_vars
               PROVE  IInv'
    OBVIOUS
  <1>1. /\ AP!IInv' /\ WP!IInv'
        /\ WP!Registered(Cluster) => WP!Registered(Cluster)'
    BY EndsStep
  <1>2. ASSUME \/ \E n \in Names : Renamed(n)
               \/ UNCHANGED vars
        PROVE  Wire'
    <2>1. UNCHANGED <<ci, snd, sending, link, carried, pc, req, gpuHistories>>
      BY <1>2 DEF Renamed, vars, agent, server, wire, W!RenameCluster, W!tables,
                  W!local
    <2>2. WireTypes' /\ Linked' /\ OnePayload'
      BY <2>1 DEF IInv, WireTypes, Linked, OnePayload, PayloadOf
    <2>3. RowBeforeGPU'
      BY <1>1, <2>1 DEF IInv, RowBeforeGPU
    <2> QED
      BY <2>2, <2>3 DEF Wire
  <1>3. ASSUME NEW p \in Pods, \E m \in Fresh : Send(p, m)
        PROVE  Wire'
    BY <1>1, <1>3, SendWire DEF Fresh
  <1>4. Wire'
    BY <1>1, <1>2, <1>3, AgentWire, DeliverWire, ReplyWire, ServerStepWire,
       ReplyToNobodyWire, ServerDiesWire
    DEF Next, Wire
  <1> QED
    BY <1>1, <1>4 DEF IInv, Wire

LEMMA Invariance == Spec => []IInv
  BY InitIInv, StepIInv, PTL DEF Spec

\* The ends and the wire stay well formed, whatever is lost or dies.
THEOREM TypeCorrect == Spec => []TypeOK
  <1>1. IInv => TypeOK
    <2> SUFFICES ASSUME IInv
                 PROVE  TypeOK
      OBVIOUS
    <2>1. AP!TypeOK /\ WP!TypeOK /\ WireTypes
      BY DEF IInv, AP!IInv, WP!IInv
    <2>2. A!TypeOK
      BY <2>1 DEF A!TypeOK, AP!TypeOK, A!Collectors, AP!Collectors, A!Over, AP!Over
    <2>3. W!TypeOK
      BY <2>1 DEF W!TypeOK, WP!TypeOK, W!Row, WP!Row, W!History, WP!History,
                  W!Request, WP!Request, W!Payload, WP!Payload, W!Kinds, WP!Kinds,
                  W!Statements, WP!Statements, W!Replies, WP!Replies
    <2> QED
      BY <2>1, <2>2, <2>3 DEF TypeOK, WireTypes
  <1> QED
    BY <1>1, Invariance, PTL

\* For any number of pods, calls and collectors: a GPU history belongs to a
\* cluster that has a row.
THEOREM GPUHistoriesAreListed == Spec => []GPUHistoryHasRow
  <1>1. IInv => GPUHistoryHasRow
    <2> SUFFICES ASSUME IInv, NEW e \in gpuHistories
                 PROVE  W!Registered(e.cluster)
      BY DEF GPUHistoryHasRow
    <2>1. e.cluster = Cluster
      BY DEF IInv, WP!IInv, WP!TypeOK, WP!History
    <2>2. WP!Registered(Cluster)
      BY DEF IInv, RowBeforeGPU
    <2> QED
      BY <2>1, <2>2 DEF W!Registered, WP!Registered, W!RowsOf, WP!RowsOf
  <1> QED
    BY <1>1, Invariance, PTL

\* For any number of pods, calls and collectors: what an agent got an OK for is
\* recorded, under a row that readers find.
THEOREM AckedIsRecorded == Spec => AckedEndToEnd
  <1> DEFINE Acked == \A p \in Pods : snd[p] = "rpc" /\ snd'[p] = "recv" =>
                        /\ carried[p] \in Recorded
                        /\ W!Registered(Cluster)
  <1>1. IInv /\ [Next]_vars => [Acked]_vars
    <2> SUFFICES ASSUME IInv, [Next]_vars, NEW p \in Pods,
                        snd[p] = "rpc", snd'[p] = "recv"
                 PROVE  carried[p] \in Recorded /\ W!Registered(Cluster)
      OBVIOUS
    <2>1. AP!TypeOK /\ AP!LoopsNeedManager
      BY DEF IInv, AP!IInv
    <2>2. \E h \in Calls : Reply(p, h) /\ pc[h] = "OK"
      <3>1. ASSUME NEW q \in Pods, AgentStep(q) \/ AgentDies(q) \/ Fail(q)
            PROVE  FALSE
        BY <2>1, <3>1 DEF AgentStep, AgentDies, Fail, AP!TypeOK,
           AP!LoopsNeedManager, AP!Active, A!CollectOK,
           A!CollectErr, A!Tick, A!TakeTick, A!CollectorDone, A!SenderDone, A!Boot,
           A!StartLoops, A!LoopFailed, A!StopLoops, A!loops, A!Exit,
           A!GraceTimeout, A!Kill, A!Reset, A!SendErr
      <3>2. ASSUME NEW q \in Pods, \E m \in Fresh : Send(q, m)
            PROVE  FALSE
        BY <2>1, <3>2 DEF Send, A!Handoff, AP!TypeOK
      <3>3. ASSUME NEW q \in Pods, NEW h \in Calls, Reply(q, h)
            PROVE  q = p /\ pc[h] = "OK"
        BY <2>1, <3>3 DEF Reply, A!SendOK, A!SendErr, AP!TypeOK
      <3>4. ASSUME \/ \E q \in Pods, h \in Calls : Deliver(q, h)
                   \/ \E h \in Calls : ServerStep(h) \/ ReplyToNobody(h)
                   \/ ServerDies
                   \/ \E n \in Names : Renamed(n)
                   \/ UNCHANGED vars
            PROVE  FALSE
        BY <3>4 DEF Deliver, ServerStep, ReplyToNobody, ServerDies, Renamed, vars,
                    agent
      <3> QED
        BY <3>1, <3>2, <3>3, <3>4 DEF Next
    <2> QED
      BY <2>2, AckedPayload
      DEF Reply, W!Registered, WP!Registered, W!RowsOf, WP!RowsOf
  <1> QED
    BY <1>1, Invariance, PTL DEF Spec, AckedEndToEnd

-----------------------------------------------------------------------------
(* Nothing is recorded twice.                                              *)

MessageOf(h) == req[h].payloads[1].message
AtWork(h)    == pc[h] \in W!Statements

\* A message is in one place at a time: it waits to be delivered, or is in a call
\* at work, or is recorded; and it is in one RPC and one call.
Unrepeated ==
    /\ \A h \in Calls : AtWork(h) => MessageOf(h) \notin Recorded
    /\ \A g, h \in Calls : req[g] # NoRequest /\ req[h] # NoRequest /\ g # h
                              => MessageOf(g) # MessageOf(h)
    /\ \A p \in Pods : link[p] = "unsent" => carried[p] \notin Recorded \cup InServer
    /\ \A p, q \in Pods : link[p] = "unsent" /\ link[q] = "unsent" /\ p # q
                              => carried[p] # carried[q]

LEMMA InServerIs ==
    InServer = {MessageOf(h) : h \in {g \in Calls : req[g] # NoRequest}}
  BY DEF InServer, MessageOf

LEMMA InitUnrepeated == Init => Unrepeated
  BY DEF Init, A!Init, W!Init, Unrepeated, AtWork, W!Statements

\* Steps that only take messages off the wire or out of the server.
LEMMA KeepsUnrepeated ==
    ASSUME Unrepeated, UNCHANGED <<snapshotHistories, gpuHistories>>,
           \A h \in Calls :
              \/ req'[h] = req[h] /\ (AtWork(h)' => AtWork(h))
              \/ req'[h] = NoRequest /\ ~AtWork(h)',
           \A p \in Pods : link'[p] = "unsent" =>
              link[p] = "unsent" /\ carried'[p] = carried[p]
    PROVE  Unrepeated'
  <1>1. Recorded' = Recorded
    BY DEF Recorded
  <1>2. \A h \in Calls : req'[h] # NoRequest => req'[h] = req[h] /\ MessageOf(h)' = MessageOf(h)
    BY DEF MessageOf
  <1>3. InServer' \subseteq InServer
    <2>1. InServer' = {MessageOf(h)' : h \in {g \in Calls : req'[g] # NoRequest}}
      BY DEF InServer, MessageOf
    <2> QED
      BY <1>2, <2>1, InServerIs
  <1>4. \A h \in Calls : AtWork(h)' => AtWork(h) /\ MessageOf(h)' = MessageOf(h)
    BY DEF MessageOf
  <1> QED
    BY <1>1, <1>2, <1>3, <1>4 DEF Unrepeated

\* What is sent is fresh.
LEMMA SendUnrepeated ==
    ASSUME IInv, Unrepeated, NEW p \in Pods, NEW m \in Fresh, Send(p, m)
    PROVE  Unrepeated'
  <1>1. UNCHANGED <<snapshotHistories, gpuHistories, pc, req>>
    BY DEF Send, server
  <1>2. /\ link' = [link EXCEPT ![p] = "unsent"]
        /\ carried' = [carried EXCEPT ![p] = m]
        /\ link \in [Pods -> Calls \cup {"none", "unsent", "broken"}]
        /\ carried \in [Pods -> Messages \cup {NoMessage}]
    BY DEF Send, IInv, WireTypes
  <1>3. m \notin Recorded \cup InServer /\ \A q \in Pods : carried[q] # m
    BY DEF Fresh, InTransit
  <1>4. Recorded' = Recorded /\ InServer' = InServer
    BY <1>1 DEF Recorded, InServer
  <1>5. \A h \in Calls : MessageOf(h)' = MessageOf(h) /\ AtWork(h)' = AtWork(h)
    BY <1>1 DEF MessageOf, AtWork
  <1>6. \A q \in Pods \ {p} : link'[q] = link[q] /\ carried'[q] = carried[q]
    BY <1>2
  <1>7. carried'[p] = m
    BY <1>2
  <1> QED
    BY <1>1, <1>3, <1>4, <1>5, <1>6, <1>7 DEF Unrepeated

\* A call takes its message over from the RPC.
LEMMA DeliverUnrepeated ==
    ASSUME IInv, Unrepeated, NEW p \in Pods, NEW h \in Calls, Deliver(p, h)
    PROVE  Unrepeated'
  <1>0. WireTypes /\ WP!TypeOK
    BY DEF IInv, WP!IInv
  <1>1. /\ UNCHANGED <<snapshotHistories, gpuHistories, carried>>
        /\ link' = [link EXCEPT ![p] = h] /\ link[p] = "unsent"
        /\ \A g \in Calls \ {h} : pc'[g] = pc[g] /\ req'[g] = req[g]
    BY <1>0 DEF Deliver, agent, W!Receive, W!ReceiveUnauthenticated, W!tables,
                WP!TypeOK
  <1>2. /\ link'[p] # "unsent"
        /\ \A q \in Pods \ {p} : link'[q] = link[q]
    BY <1>0, <1>1, PipelineAssumption DEF WireTypes
  <1>3. CASE W!ReceiveUnauthenticated(h)
    <2>1. req' = req /\ ~AtWork(h)'
      BY <1>0, <1>3 DEF W!ReceiveUnauthenticated, WP!TypeOK, AtWork, W!Statements
    <2> QED
      BY <1>1, <1>2, <2>1, KeepsUnrepeated DEF AtWork
  <1>4. CASE W!Receive(h, Cluster, <<[kind |-> Kind(sending[p]),
                                     message |-> carried[p]]>>)
    <2>1. req'[h] = [cluster |-> Cluster, name |-> clusterName[Cluster],
                     payloads |-> <<[kind |-> Kind(sending[p]), message |-> carried[p]]>>]
      BY <1>0, <1>4 DEF W!Receive, WP!TypeOK
    <2>2. MessageOf(h)' = carried[p]
      BY <2>1 DEF MessageOf
    <2>3. \A g \in Calls \ {h} : MessageOf(g)' = MessageOf(g) /\ AtWork(g)' = AtWork(g)
      BY <1>1 DEF MessageOf, AtWork
    <2>4. Recorded' = Recorded
      BY <1>1 DEF Recorded
    <2>5. InServer' \subseteq InServer \cup {carried[p]}
      <3>1. InServer' = {MessageOf(g)' : g \in {f \in Calls : req'[f] # NoRequest}}
        BY DEF InServer, MessageOf
      <3> QED
        BY <1>1, <2>2, <2>3, <3>1, InServerIs
    <2>6. \A g \in Calls \ {h} : req[g] # NoRequest => MessageOf(g) \in InServer
      BY InServerIs
    <2>7. carried[p] \notin Recorded \cup InServer
      BY <1>1 DEF Unrepeated
    <2>8. \A q \in Pods : link'[q] = "unsent" =>
             /\ link[q] = "unsent" /\ carried[q] # carried[p]
             /\ carried[q] \notin Recorded \cup InServer
      BY <1>1, <1>2 DEF Unrepeated
    <2>9. \A g \in Calls : AtWork(g)' => MessageOf(g)' \notin Recorded'
      BY <2>2, <2>3, <2>4, <2>7 DEF Unrepeated
    <2>10. \A f, g \in Calls : req'[f] # NoRequest /\ req'[g] # NoRequest /\ f # g
                                  => MessageOf(f)' # MessageOf(g)'
      BY <1>1, <2>2, <2>3, <2>6, <2>7 DEF Unrepeated
    <2> QED
      BY <1>1, <2>4, <2>5, <2>8, <2>9, <2>10 DEF Unrepeated
  <1> QED
    BY <1>3, <1>4 DEF Deliver

\* A step of a call leaves the messages of the others alone, and records none but
\* its own, at its last statement.
LEMMA ServerStepUnrepeated ==
    ASSUME IInv, Unrepeated, NEW h \in Calls, ServerStep(h)
    PROVE  Unrepeated'
  <1>0. pc \in [Calls -> WP!Statements \cup WP!Replies \cup {"idle"}]
    BY DEF IInv, WP!IInv, WP!TypeOK
  <1>1. /\ UNCHANGED <<agent, wire, req>>
        /\ req[h] # NoRequest
        /\ \A g \in Calls \ {h} : pc'[g] = pc[g]
    BY ServerStepMoves
  <1>2. \A g \in Calls : MessageOf(g)' = MessageOf(g)
    BY <1>1 DEF MessageOf
  <1>3. CASE UNCHANGED <<snapshotHistories, gpuHistories>> /\ AtWork(h)
    BY <1>1, <1>3, KeepsUnrepeated DEF wire, AtWork
  <1>4. ASSUME NEW ok \in BOOLEAN,
               \/ W!CreateClusterSnapshotHistory(h, ok)
               \/ W!CreateGPUTelemetryHistory(h, ok)
        PROVE  Unrepeated'
    <2>1. AtWork(h)
      BY <1>4 DEF W!CreateClusterSnapshotHistory, W!CreateGPUTelemetryHistory,
                  W!Statements, AtWork
    <2>2. W!Process(req[h].payloads, cur[h] + 1) = "OK" /\ cur[h] = 1
      BY <2>1, CallAtWork DEF W!Process, AtWork
    <2>3. ~AtWork(h)'
      BY <1>0, <1>4, <2>2 DEF W!CreateClusterSnapshotHistory, AtWork, W!Statements,
         W!CreateGPUTelemetryHistory, W!NextPayload, W!After
    <2>4. W!RecordOf(h).message = MessageOf(h)
      BY <2>2 DEF W!RecordOf, W!Current, MessageOf
    <2>5. snapshotHistories' \cup gpuHistories' =
            snapshotHistories \cup gpuHistories \cup {W!RecordOf(h)}
      BY <1>4 DEF W!CreateClusterSnapshotHistory, W!CreateGPUTelemetryHistory
    <2>6. Recorded' = Recorded \cup {MessageOf(h)}
      BY <2>4, <2>5 DEF Recorded
    <2>7. InServer' = InServer /\ MessageOf(h) \in InServer
      BY <1>1, InServerIs DEF InServer
    <2>8. \A g \in Calls : AtWork(g)' => AtWork(g) /\ g # h /\ req[g] # NoRequest
      BY <1>1, <2>3, CallAtWork DEF AtWork
    <2>9. \A g \in Calls : AtWork(g)' => MessageOf(g)' \notin Recorded'
      BY <1>1, <1>2, <2>6, <2>8 DEF Unrepeated
    <2>10. \A p \in Pods : link[p] = "unsent" => carried[p] \notin Recorded' \cup InServer'
      BY <2>6, <2>7 DEF Unrepeated
    <2> QED
      BY <1>1, <1>2, <2>9, <2>10 DEF Unrepeated, wire
  <1>5. \/ UNCHANGED <<snapshotHistories, gpuHistories>> /\ AtWork(h)
        \/ \E ok \in BOOLEAN : \/ W!CreateClusterSnapshotHistory(h, ok)
                               \/ W!CreateGPUTelemetryHistory(h, ok)
    BY DEF ServerStep, W!Step, W!TakeFound, W!TakeNotFound, W!CreateDuplicate,
       W!StatementFails, W!Create, W!Save, W!tables, AtWork, W!Statements
  <1> QED
    BY <1>3, <1>4, <1>5

LEMMA StepUnrepeated == IInv /\ Unrepeated /\ [Next]_vars => Unrepeated'
  <1> SUFFICES ASSUME IInv, Unrepeated, [Next]_vars
               PROVE  Unrepeated'
    OBVIOUS
  <1>0. WireTypes /\ WP!TypeOK
    BY DEF IInv, WP!IInv
  <1>1. ASSUME \/ \E p \in Pods : AgentStep(p) \/ AgentDies(p) \/ Fail(p)
               \/ \E n \in Names : Renamed(n)
               \/ UNCHANGED vars
        PROVE  Unrepeated'
    <2>1. UNCHANGED <<snapshotHistories, gpuHistories, pc, req>>
      BY <1>1 DEF AgentStep, AgentDies, Fail, Renamed, vars, server, W!RenameCluster,
                  W!tables, W!local
    <2>2. \A q \in Pods : link'[q] = "unsent" =>
             link[q] = "unsent" /\ carried'[q] = carried[q]
      BY <1>0, <1>1 DEF AgentStep, AgentDies, Fail, Renamed, vars, wire, HangUp,
                        WireTypes
    <2> QED
      BY <2>1, <2>2, KeepsUnrepeated DEF AtWork
  <1>2. ASSUME NEW h \in Calls, ReplyToNobody(h) \/ \E p \in Pods : Reply(p, h)
        PROVE  Unrepeated'
    <2>1. W!Return(h)
      BY <1>2 DEF ReplyToNobody, Reply
    <2>2. /\ UNCHANGED <<snapshotHistories, gpuHistories>>
          /\ \A g \in Calls \ {h} : pc'[g] = pc[g] /\ req'[g] = req[g]
          /\ req'[h] = NoRequest /\ pc'[h] = "idle"
      BY <1>0, <2>1 DEF W!Return, W!tables, WP!TypeOK
    <2>3. \A q \in Pods : link'[q] = "unsent" =>
             link[q] = "unsent" /\ carried'[q] = carried[q]
      BY <1>0, <1>2 DEF ReplyToNobody, Reply, HangUp, wire, WireTypes
    <2> QED
      BY <2>2, <2>3, KeepsUnrepeated DEF AtWork, W!Statements
  <1>3. CASE ServerDies
    <2>1. /\ UNCHANGED <<snapshotHistories, gpuHistories, carried>>
          /\ \A g \in Calls : req'[g] = NoRequest /\ pc'[g] = "idle"
          /\ \A q \in Pods : link'[q] = "unsent" => link[q] = "unsent"
      BY <1>3 DEF ServerDies, W!Crash, W!tables
    <2> QED
      BY <2>1, KeepsUnrepeated DEF AtWork, W!Statements
  <1> QED
    BY <1>1, <1>2, <1>3, SendUnrepeated, DeliverUnrepeated, ServerStepUnrepeated
    DEF Next

\* For any number of pods, calls and collectors, whatever is lost and whoever
\* dies: the message a call records is none that has been recorded before.
THEOREM NothingTwice == Spec => RecordedOnce
  <1> DEFINE Once == \A h \in Calls, ok \in BOOLEAN :
                       W!CreateClusterSnapshotHistory(h, ok)
                       \/ W!CreateGPUTelemetryHistory(h, ok)
                         => W!Current(h).message \notin Recorded
  <1>1. IInv /\ Unrepeated /\ [Next]_vars => [Once]_vars
    <2> SUFFICES ASSUME IInv, Unrepeated, NEW h \in Calls, NEW ok \in BOOLEAN,
                        \/ W!CreateClusterSnapshotHistory(h, ok)
                        \/ W!CreateGPUTelemetryHistory(h, ok)
                 PROVE  W!Current(h).message \notin Recorded
      OBVIOUS
    <2>1. AtWork(h)
      BY DEF W!CreateClusterSnapshotHistory, W!CreateGPUTelemetryHistory,
             W!Statements, AtWork
    <2>2. cur[h] = 1
      BY <2>1, CallAtWork DEF AtWork
    <2> QED
      BY <2>1, <2>2 DEF Unrepeated, W!Current, MessageOf
  <1> QED
    BY <1>1, Invariance, InitUnrepeated, StepUnrepeated, PTL DEF Spec, RecordedOnce

-----------------------------------------------------------------------------
(* What is known of the ends.                                              *)

\* Each end does in the pipeline what it does alone, so the pipeline implements
\* Agent without leader election, and WorkerService for one cluster.
THEOREM EndsAreImplemented == Spec => AP!Spec /\ WP!Spec
  <1>1. Init => AP!Init /\ WP!Init
    BY DEF Init, A!Init, AP!Init, W!Init, WP!Init
  <1>2. [Next]_vars => [AP!Next]_AP!vars
    BY AgentSteps
  <1>3. IInv /\ [Next]_vars => [WP!Next]_WP!vars
    BY WorkerSteps
  <1> QED
    BY <1>1, <1>2, <1>3, Invariance, PTL DEF Spec, AP!Spec, WP!Spec

\* So what reports leave in the database, through pods that die and RPCs that are
\* lost, implements the registry that the queries read, and a settled name stays
\* until the cluster is renamed.
THEOREM ReadersMayRely == Spec => WP!ImplementsRegistry /\ WP!SettledUntilRenamed
  <1>1. WP!Spec => WP!ImplementsRegistry /\ WP!SettledUntilRenamed
    BY WorkerConstants, WP!Refinement, WP!SettledStays
  <1> QED
    BY <1>1, EndsAreImplemented, PTL
=============================================================================
