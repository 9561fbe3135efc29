------------------------------- MODULE Agent -------------------------------
(***************************************************************************)
(* The pods of the monitor agent of one cluster (agent/cmd/run.go and      *)
(* agent/internal/{collector,sender}).  In each pod a controller-runtime   *)
(* manager runs two loops: the collector gathers one payload after the     *)
(* other at every tick and hands it to the sender over an unbuffered       *)
(* channel; the sender sends each in an RPC of its own.  The first loop to *)
(* return an error makes the manager stop the process, which Kubernetes    *)
(* starts again.  More than one pod may exist: a rolling update overlaps   *)
(* the old and the new one.  The manager, the leader lease and Kubernetes  *)
(* are external: they are modelled as the code relies on them.             *)
(***************************************************************************)
EXTENDS Naturals

CONSTANTS
    Pods,
    NumCollectors,    \* 1, or 2 when a Prometheus URL is configured
    LeaderElection,   \* kubernetesManager.enableLeaderElection
    NoPod             \* the lease is free

ASSUME AgentAssumption ==
    /\ NumCollectors \in Nat \ {0}
    /\ LeaderElection \in BOOLEAN
    /\ NoPod \notin Pods

VARIABLES
    proc,      \* the manager of each pod
    lease,     \* the pod that holds the leader lease
    col,       \* where the collector loop is
    ci,        \* index of the collector that runs, or is to run next
    tick,      \* the ticker's channel, which holds at most one tick
    snd,       \* where the sender loop is
    sending    \* index of the collector whose payload the sender took last

loops == <<col, ci, tick, snd, sending>>
vars  == <<proc, lease, loops>>

Collectors == 1..NumCollectors
Active(p)  == proc[p] \in {"running", "stopping"}
Over       == {"failed", "ended"}   \* returned an error, or ctx.Err()

\* Definitions named Faulty... are mistakes the code could have made; no
\* behaviour of this specification uses them.
FaultyNeedLeaderElection == FALSE

NeedLeaderElection == TRUE

Init ==
    /\ proc = [p \in Pods |-> "down"]
    /\ lease = NoPod
    /\ col = [p \in Pods |-> "idle"]
    /\ ci = [p \in Pods |-> 1]
    /\ tick = [p \in Pods |-> "none"]
    /\ snd = [p \in Pods |-> "idle"]
    /\ sending = [p \in Pods |-> 0]

-----------------------------------------------------------------------------
(* The collector.                                                          *)

\* The payload is built and waits to be handed over.
CollectOK(p) ==
    /\ col[p] = "collect"
    /\ col' = [col EXCEPT ![p] = "send"]
    /\ UNCHANGED <<proc, lease, ci, tick, snd, sending>>

FaultyCollectErrReturnsNil(p) ==
    /\ col[p] = "collect"
    /\ col' = [col EXCEPT ![p] = "ended"]
    /\ UNCHANGED <<proc, lease, ci, tick, snd, sending>>

\* An error ends the loop (with the error, which the manager will act on).
CollectErr(p) ==
    /\ col[p] = "collect"
    /\ col' = [col EXCEPT ![p] = "failed"]
    /\ UNCHANGED <<proc, lease, ci, tick, snd, sending>>

FaultyNextCollectorNoWrap(p) ==
    /\ ci' = [ci EXCEPT ![p] = @ + 1]
    /\ col' = [col EXCEPT ![p] = IF ci[p] = NumCollectors THEN "wait"
                                                         ELSE "collect"]
    /\ tick' = [tick EXCEPT ![p] = IF ci[p] = NumCollectors /\ @ = "none"
                                   THEN "armed" ELSE @]

\* After the last collector the loop waits for the next tick; the ticker
\* starts after the first round.
NextCollector(p) ==
    /\ ci' = [ci EXCEPT ![p] = IF @ = NumCollectors THEN 1 ELSE @ + 1]
    /\ col' = [col EXCEPT ![p] = IF ci[p] = NumCollectors THEN "wait"
                                                         ELSE "collect"]
    /\ tick' = [tick EXCEPT ![p] = IF ci[p] = NumCollectors /\ @ = "none"
                                   THEN "armed" ELSE @]

FaultyHandoffDrops(p) ==
    /\ col[p] = "send"
    /\ IF snd[p] = "recv"
       THEN /\ snd' = [snd EXCEPT ![p] = "rpc"]
            /\ sending' = [sending EXCEPT ![p] = ci[p]]
       ELSE UNCHANGED <<snd, sending>>
    /\ NextCollector(p)
    /\ UNCHANGED <<proc, lease>>

\* The payload passes through the channel when both sides are there.  Neither
\* side's context matters: the collector does not look at it here, and a select
\* with a ready payload may take it even when the context is done.
Handoff(p) ==
    /\ col[p] = "send"
    /\ snd[p] = "recv"
    /\ snd' = [snd EXCEPT ![p] = "rpc"]
    /\ sending' = [sending EXCEPT ![p] = ci[p]]
    /\ NextCollector(p)
    /\ UNCHANGED <<proc, lease>>

\* A tick that finds another one pending is dropped.
Tick(p) ==
    /\ tick[p] = "armed"
    /\ tick' = [tick EXCEPT ![p] = "pending"]
    /\ UNCHANGED <<proc, lease, col, ci, snd, sending>>

TakeTick(p) ==
    /\ col[p] = "wait"
    /\ tick[p] = "pending"
    /\ tick' = [tick EXCEPT ![p] = "armed"]
    /\ col' = [col EXCEPT ![p] = "collect"]
    /\ UNCHANGED <<proc, lease, ci, snd, sending>>

CollectorDone(p) ==
    /\ col[p] = "wait"
    /\ proc[p] = "stopping"
    /\ col' = [col EXCEPT ![p] = "ended"]
    /\ UNCHANGED <<proc, lease, ci, tick, snd, sending>>

-----------------------------------------------------------------------------
(* The sender.                                                             *)

SendOK(p) ==
    /\ snd[p] = "rpc"
    /\ snd' = [snd EXCEPT ![p] = "recv"]
    /\ UNCHANGED <<proc, lease, col, ci, tick, sending>>

FaultySendErrReturnsNil(p) ==
    /\ snd[p] = "rpc"
    /\ snd' = [snd EXCEPT ![p] = "ended"]
    /\ UNCHANGED <<proc, lease, col, ci, tick, sending>>

FaultySendErrContinues(p) ==
    /\ snd[p] = "rpc"
    /\ snd' = [snd EXCEPT ![p] = "recv"]
    /\ UNCHANGED <<proc, lease, col, ci, tick, sending>>

\* The RPC fails, or its context is done: the payload is given up and the loop
\* ends with the error.
SendErr(p) ==
    /\ snd[p] = "rpc"
    /\ snd' = [snd EXCEPT ![p] = "failed"]
    /\ UNCHANGED <<proc, lease, col, ci, tick, sending>>

SenderDone(p) ==
    /\ snd[p] = "recv"
    /\ proc[p] = "stopping"
    /\ snd' = [snd EXCEPT ![p] = "ended"]
    /\ UNCHANGED <<proc, lease, col, ci, tick, sending>>

-----------------------------------------------------------------------------
(* The manager, the lease and Kubernetes.                                  *)

\* The container is started; the manager waits to be allowed to run the loops.
Boot(p) ==
    /\ proc[p] = "down"
    /\ proc' = [proc EXCEPT ![p] = "standby"]
    /\ UNCHANGED <<lease, loops>>

\* The manager starts the loops, with the lease when they need it: collector
\* first in line, sender at its channel.
StartLoops(p) ==
    /\ proc[p] = "standby"
    /\ IF LeaderElection /\ NeedLeaderElection
       THEN lease = NoPod /\ lease' = p
       ELSE UNCHANGED lease
    /\ proc' = [proc EXCEPT ![p] = "running"]
    /\ col' = [col EXCEPT ![p] = "collect"]
    /\ snd' = [snd EXCEPT ![p] = "recv"]
    /\ UNCHANGED <<ci, tick, sending>>

\* A loop returned an error, or the lease could not be renewed: the manager
\* cancels the context of the loops.
StopLoops(p) ==
    /\ proc[p] = "running"
    /\ proc' = [proc EXCEPT ![p] = "stopping"]
    /\ UNCHANGED <<lease, loops>>

LoopFailed(p) ==
    /\ "failed" \in {col[p], snd[p]}
    /\ StopLoops(p)

LeaseLost(p) ==
    /\ lease = p
    /\ StopLoops(p)

Reset(p) ==
    /\ proc' = [proc EXCEPT ![p] = "down"]
    /\ col' = [col EXCEPT ![p] = "idle"]
    /\ ci' = [ci EXCEPT ![p] = 1]
    /\ tick' = [tick EXCEPT ![p] = "none"]
    /\ snd' = [snd EXCEPT ![p] = "idle"]
    /\ sending' = [sending EXCEPT ![p] = 0]
    /\ UNCHANGED lease

\* run returns once both loops have ended, or when the manager's patience for
\* them (30 seconds) is over: the collector may be blocked on a channel nobody
\* reads.
Exit(p) ==
    /\ proc[p] = "stopping"
    /\ col[p] \in Over
    /\ snd[p] \in Over
    /\ Reset(p)

GraceTimeout(p) ==
    /\ proc[p] = "stopping"
    /\ Reset(p)

\* SIGTERM has no handler, so a pod that is deleted, moved or out of memory is
\* gone at once.
Kill(p) ==
    /\ proc[p] # "down"
    /\ Reset(p)

\* A lease outlives the process that held it by its duration; while the process
\* lives it gives up before the lease runs out (renew deadline < duration).
LeaseExpires ==
    /\ lease # NoPod
    /\ ~Active(lease)
    /\ lease' = NoPod
    /\ UNCHANGED <<proc, loops>>

Loops(p) ==
    \/ CollectOK(p) \/ CollectErr(p) \/ Handoff(p)
    \/ Tick(p) \/ TakeTick(p) \/ CollectorDone(p)
    \/ SendOK(p) \/ SendErr(p) \/ SenderDone(p)

Manager(p) ==
    \/ Boot(p) \/ StartLoops(p) \/ LoopFailed(p) \/ LeaseLost(p)
    \/ Exit(p) \/ GraceTimeout(p) \/ Kill(p)

Next ==
    \/ \E p \in Pods : Loops(p) \/ Manager(p)
    \/ LeaseExpires

Spec == Init /\ [][Next]_vars

-----------------------------------------------------------------------------
(* Correctness.                                                            *)

TypeOK ==
    /\ proc \in [Pods -> {"down", "standby", "running", "stopping"}]
    /\ lease \in Pods \cup {NoPod}
    /\ col \in [Pods -> {"idle", "collect", "send", "wait"} \cup Over]
    /\ ci \in [Pods -> Collectors]
    /\ tick \in [Pods -> {"none", "armed", "pending"}]
    /\ snd \in [Pods -> {"idle", "recv", "rpc"} \cup Over]
    /\ sending \in [Pods -> Collectors \cup {0}]

\* With leader election, two agents never report at the same time, not even
\* while one of them is being stopped.
SingleReporter ==
    LeaderElection =>
        \A p, q \in Pods : snd[p] = "rpc" /\ snd[q] = "rpc" => p = q

\* The collector is never more than one payload ahead of the sender: the
\* payload taken last is the one before that the collector works on, so none
\* is skipped, sent twice or overtaken within the life of a process.
Lockstep ==
    \A p \in Pods : sending[p] # 0 =>
        ci[p] = IF sending[p] = NumCollectors THEN 1 ELSE sending[p] + 1

-----------------------------------------------------------------------------
(* Liveness.  Go schedules both loops, the ticker ticks, the manager reacts *)
(* to a failed loop and keeps to its grace period, Kubernetes restarts a    *)
(* container that exited and an RPC is answered, one way or the other.      *)

Fairness ==
    /\ WF_vars(LeaseExpires)
    /\ \A p \in Pods :
         /\ WF_vars(CollectOK(p) \/ CollectErr(p))
         /\ WF_vars(Handoff(p))
         /\ WF_vars(Tick(p))
         /\ WF_vars(TakeTick(p))
         /\ WF_vars(SendOK(p) \/ SendErr(p))
         /\ WF_vars(Boot(p))
         /\ WF_vars(StartLoops(p))
         /\ WF_vars(LoopFailed(p))
         /\ WF_vars(GraceTimeout(p))

FairSpec == Spec /\ Fairness

\* A process one loop of which has returned does not linger as half an agent: it
\* goes down, even when the collector is blocked for ever on the channel of a
\* sender that is gone.
ReturnedLoopEndsProcess ==
    \A p \in Pods : (col[p] \in Over \/ snd[p] \in Over) ~> proc[p] = "down"

\* Nothing fails and nobody interferes in this step: it is no error, and when a
\* manager stops or a process ends, it is for an earlier one.
Calm ==
    ~\E p \in Pods :
        \/ CollectErr(p) \/ SendErr(p)
        \/ LeaseLost(p) /\ ~LoopFailed(p)
        \/ Kill(p) /\ ~GraceTimeout(p)

\* However often RPCs, collectors, pods and leases have failed, once they no
\* longer do, the payload of every collector is delivered again and again.
KeepsReporting ==
    (<>[][Calm]_vars) =>
        \A i \in Collectors :
            []<><<\E p \in Pods : SendOK(p) /\ sending[p] = i>>_vars

=============================================================================
