---------------------------- MODULE AgentProofs ----------------------------
(***************************************************************************)
(* The safety of Agent for any number of pods and collectors.              *)
(***************************************************************************)
EXTENDS Agent, TLAPS

\* The inductive invariant: loops are at work only in a process whose manager
\* runs or stops them, and with leader election such a process holds the lease.
LoopsNeedManager ==
    \A p \in Pods : col[p] # "idle" \/ snd[p] # "idle" => Active(p)

ActiveHoldsLease ==
    LeaderElection => \A p \in Pods : Active(p) => lease = p

IInv == TypeOK /\ Lockstep /\ LoopsNeedManager /\ ActiveHoldsLease

USE AgentAssumption

LEMMA InitIInv == Init => IInv
  BY DEF Init, IInv, TypeOK, Lockstep, LoopsNeedManager, ActiveHoldsLease,
         Active, Collectors

\* A process that goes down leaves nothing of its loops behind.
LEMMA ResetIInv ==
    ASSUME IInv, NEW p \in Pods, Reset(p)
    PROVE  IInv'
  <1> USE DEF IInv, Reset
  <1>1. TypeOK'
    BY DEF TypeOK, Collectors
  <1>2. Lockstep'
    BY DEF TypeOK, Lockstep
  <1>3. LoopsNeedManager' /\ ActiveHoldsLease'
    BY DEF TypeOK, LoopsNeedManager, ActiveHoldsLease, Active
  <1> QED
    BY <1>1, <1>2, <1>3

LEMMA HandoffIInv ==
    ASSUME IInv, NEW p \in Pods, Handoff(p)
    PROVE  IInv'
  <1> USE DEF IInv, Handoff, NextCollector
  <1>1. TypeOK'
    BY DEF TypeOK, Collectors, Over
  <1>2. Lockstep'
    BY DEF TypeOK, Lockstep, Collectors
  <1>3. LoopsNeedManager' /\ ActiveHoldsLease'
    BY DEF TypeOK, LoopsNeedManager, ActiveHoldsLease, Active
  <1> QED
    BY <1>1, <1>2, <1>3

\* The other steps of the loops move one loop and nothing else.
LEMMA LoopsIInv ==
    ASSUME IInv, NEW p \in Pods, Loops(p)
    PROVE  IInv'
  <1> DEFINE Moves ==
        /\ UNCHANGED <<proc, lease, ci, sending>>
        /\ \A q \in Pods : /\ col[q] = "idle" => col'[q] = "idle"
                           /\ snd[q] = "idle" => snd'[q] = "idle"
  <1>1. ASSUME Moves, TypeOK'
        PROVE  IInv'
    BY <1>1 DEF IInv, TypeOK, Lockstep, LoopsNeedManager, ActiveHoldsLease, Active
  <1>2. CASE CollectOK(p) \/ CollectErr(p) \/ CollectorDone(p)
    <2>1. Moves
      BY <1>2 DEF IInv, TypeOK, CollectOK, CollectErr, CollectorDone
    <2>2. TypeOK'
      BY <1>2 DEF IInv, TypeOK, CollectOK, CollectErr, CollectorDone, Over
    <2> QED
      BY <2>1, <2>2, <1>1
  <1>3. CASE Tick(p) \/ TakeTick(p)
    <2>1. Moves
      BY <1>3 DEF IInv, TypeOK, Tick, TakeTick
    <2>2. TypeOK'
      BY <1>3 DEF IInv, TypeOK, Tick, TakeTick, Over
    <2> QED
      BY <2>1, <2>2, <1>1
  <1>4. CASE SendOK(p) \/ SendErr(p) \/ SenderDone(p)
    <2>1. Moves
      BY <1>4 DEF IInv, TypeOK, SendOK, SendErr, SenderDone
    <2>2. TypeOK'
      BY <1>4 DEF IInv, TypeOK, SendOK, SendErr, SenderDone, Over
    <2> QED
      BY <2>1, <2>2, <1>1
  <1> QED
    BY <1>2, <1>3, <1>4, HandoffIInv DEF Loops

LEMMA ManagerIInv ==
    ASSUME IInv, NEW p \in Pods, Manager(p)
    PROVE  IInv'
  <1>1. CASE Boot(p)
    BY <1>1 DEF Boot, loops, IInv, TypeOK, Lockstep, LoopsNeedManager,
                ActiveHoldsLease, Active
  <1>2. CASE StartLoops(p)
    <2>1. TypeOK' /\ Lockstep' /\ LoopsNeedManager'
      BY <1>2 DEF StartLoops, IInv, TypeOK, Lockstep, LoopsNeedManager, Active
    <2>2. ActiveHoldsLease'
      BY <1>2 DEF StartLoops, NeedLeaderElection, IInv, TypeOK,
                  ActiveHoldsLease, Active
    <2> QED
      BY <2>1, <2>2 DEF IInv
  <1>3. CASE StopLoops(p)
    BY <1>3 DEF StopLoops, loops, IInv, TypeOK, Lockstep, LoopsNeedManager,
                ActiveHoldsLease, Active
  <1> QED
    BY <1>1, <1>2, <1>3, ResetIInv
    DEF Manager, LoopFailed, LeaseLost, Exit, GraceTimeout, Kill

LEMMA StepIInv == IInv /\ [Next]_vars => IInv'
  <1> SUFFICES ASSUME IInv, [Next]_vars
               PROVE  IInv'
    OBVIOUS
  <1>1. CASE LeaseExpires
    BY <1>1 DEF LeaseExpires, loops, IInv, TypeOK, Lockstep, LoopsNeedManager,
                ActiveHoldsLease, Active
  <1>2. CASE UNCHANGED vars
    BY <1>2 DEF vars, loops, IInv, TypeOK, Lockstep, LoopsNeedManager,
                ActiveHoldsLease, Active
  <1> QED
    BY <1>1, <1>2, LoopsIInv, ManagerIInv DEF Next

LEMMA Invariance == Spec => []IInv
  BY InitIInv, StepIInv, PTL DEF Spec

\* Managers, loops, tickers and the lease stay well formed.
THEOREM TypeCorrect == Spec => []TypeOK
  <1>1. IInv => TypeOK
    BY DEF IInv
  <1> QED
    BY <1>1, Invariance, PTL

\* Of any number of pods under leader election, one at most reports.
THEOREM OneReporter == Spec => []SingleReporter
  <1>1. IInv => SingleReporter
    BY DEF IInv, SingleReporter, LoopsNeedManager, ActiveHoldsLease
  <1> QED
    BY <1>1, Invariance, PTL

\* Whatever the number of collectors, the sender is never more than one payload
\* behind.
THEOREM InLockstep == Spec => []Lockstep
  <1>1. IInv => Lockstep
    BY DEF IInv
  <1> QED
    BY <1>1, Invariance, PTL
=============================================================================
