------------------------ MODULE ServerProcessProofs ------------------------
(***************************************************************************)
(* The safety of ServerProcess for any number of pods and every content of *)
(* the configuration file.                                                 *)
(***************************************************************************)
EXTENDS ServerProcess, TLAPS

Parts == 1..Len(Schema)

\* A pod has passed the parts of the schema before the one it is at, and all of
\* them when it starts its listeners.
PassedParts ==
    \A p \in Pods :
        /\ pc[p] \in {"has", "create"} =>
             \A i \in Parts : i < step[p] => Schema[i] \in schema
        /\ pc[p] \in {"gateway", "serve"} => \A i \in Parts : Schema[i] \in schema

\* Listeners are there only in a pod that serves.
ListenersNeedProcess == \A p \in Pods : pc[p] # "serve" => listener[p] = Down

\* A pod that has not come to the schema yet will begin with its first part.
BeginsAtFirst ==
    \A p \in Pods : pc[p] \in {"down", "configure", "open"} => step[p] = 1

IInv == TypeOK /\ PassedParts /\ ListenersNeedProcess /\ BeginsAtFirst

USE ProcessAssumption

LEMMA SchemaLength == Len(Schema) = 4
  BY DEF Schema

LEMMA InitIInv == Init => IInv
  <1> SUFFICES ASSUME Init
               PROVE  IInv
    OBVIOUS
  <1>1. Down \in [Listeners -> {"none", "starting", "serving", "returned"}]
    BY DEF Down
  <1>2. /\ 1 \in 1..(Len(Schema) + 1)
        /\ Unreadable \in Files
    BY SchemaLength
  <1>3. pc = [p \in Pods |-> "down"] /\ step = [p \in Pods |-> 1]
        /\ listener = [p \in Pods |-> Down]
    BY DEF Init
  <1>4. /\ conf \in [Pods -> Files]
        /\ step \in [Pods -> 1..(Len(Schema) + 1)]
        /\ listener \in [Pods -> [Listeners -> {"none", "starting", "serving",
                                               "returned"}]]
    BY <1>1, <1>2, <1>3 DEF Init
  <1>5. pc \in [Pods -> {"down", "configure", "open", "has", "create", "gateway",
                         "serve"}]
    BY <1>3
  <1>6. \A p \in Pods : pc[p] = "down" /\ step[p] = 1 /\ listener[p] = Down
    BY <1>3
  <1>7. file \in Files /\ dbUp \in BOOLEAN /\ stable \in BOOLEAN /\ schema = {}
    BY DEF Init
  <1>8. TypeOK
    BY <1>4, <1>5, <1>6, <1>7 DEF TypeOK
  <1> QED
    BY <1>6, <1>8 DEF IInv, PassedParts, ListenersNeedProcess, BeginsAtFirst

\* A process that ends leaves the schema as it is.
LEMMA ExitIInv ==
    ASSUME IInv, NEW p \in Pods, Exit(p), UNCHANGED environment
    PROVE  IInv'
  BY SchemaLength
  DEF IInv, TypeOK, PassedParts, ListenersNeedProcess, BeginsAtFirst, Down, Exit,
      environment, Parts

\* A part that is there is passed, whoever created it.
LEMMA NextPartIInv ==
    ASSUME IInv, NEW p \in Pods, NextPart(p), UNCHANGED environment,
           pc[p] \in {"has", "create"},
           schema' \in {schema, schema \cup {Schema[step[p]]}},
           Schema[step[p]] \in schema'
    PROVE  IInv'
  <1> USE SchemaLength DEF Parts
  <1>0. step[p] \in Parts
    BY DEF IInv, TypeOK
  <1>1. /\ schema \subseteq schema'
        /\ schema' \subseteq {Schema[i] : i \in Parts}
    BY <1>0 DEF IInv, TypeOK
  <1>2. \A i \in Parts : i <= step[p] => Schema[i] \in schema'
    BY <1>0, <1>1 DEF IInv, PassedParts
  <1>3. TypeOK'
    BY <1>0, <1>1 DEF IInv, TypeOK, NextPart, GoTo, environment
  <1>4. PassedParts'
    BY <1>0, <1>1, <1>2 DEF IInv, TypeOK, PassedParts, NextPart, GoTo
  <1>5. ListenersNeedProcess' /\ BeginsAtFirst'
    BY <1>0 DEF IInv, TypeOK, ListenersNeedProcess, BeginsAtFirst, NextPart, GoTo
  <1> QED
    BY <1>3, <1>4, <1>5 DEF IInv

LEMMA StepIInv == IInv /\ [Next]_vars => IInv'
  <1> SUFFICES ASSUME IInv, [Next]_vars
               PROVE  IInv'
    OBVIOUS
  <1> USE SchemaLength
  <1>1. ASSUME NEW p \in Pods, Configure(p)
        PROVE  IInv'
    <2>1. CASE Exit(p)
      BY <1>1, <2>1, ExitIInv DEF Configure
    <2>2. CASE ~Exit(p)
      BY <1>1, <2>2
      DEF Configure, IInv, TypeOK, PassedParts, ListenersNeedProcess,
          BeginsAtFirst, environment
    <2> QED
      BY <2>1, <2>2
  <1>2. ASSUME NEW p \in Pods, OpenDB(p)
        PROVE  IInv'
    <2>1. CASE Exit(p)
      BY <1>2, <2>1, ExitIInv DEF OpenDB
    <2>2. CASE ~Exit(p)
      BY <1>2, <2>2
      DEF OpenDB, GoTo, IInv, TypeOK, PassedParts, ListenersNeedProcess,
          BeginsAtFirst, environment, Parts
    <2> QED
      BY <2>1, <2>2
  <1>3. ASSUME NEW p \in Pods, HasPart(p)
        PROVE  IInv'
    <2>1. CASE Exit(p)
      BY <1>3, <2>1, ExitIInv DEF HasPart
    <2>2. CASE NextPart(p) /\ UNCHANGED schema /\ Schema[step[p]] \in schema
      BY <1>3, <2>2, NextPartIInv DEF HasPart
    <2>3. CASE GoTo(p, "create") /\ UNCHANGED <<schema, step>>
      BY <1>3, <2>3
      DEF HasPart, GoTo, IInv, TypeOK, PassedParts, ListenersNeedProcess,
          BeginsAtFirst, environment
    <2> QED
      BY <1>3, <2>1, <2>2, <2>3 DEF HasPart, IInv, TypeOK
  <1>4. ASSUME NEW p \in Pods, CreatePart(p)
        PROVE  IInv'
    <2>1. CASE Exit(p)
      BY <1>4, <2>1, ExitIInv DEF CreatePart
    <2>2. CASE schema' = schema \cup {Schema[step[p]]} /\ NextPart(p)
      BY <1>4, <2>2, NextPartIInv DEF CreatePart
    <2> QED
      BY <1>4, <2>1, <2>2 DEF CreatePart
  <1>5. ASSUME NEW p \in Pods, StartListeners(p)
        PROVE  IInv'
    BY <1>5
    DEF StartListeners, IInv, TypeOK, PassedParts, ListenersNeedProcess,
        BeginsAtFirst, environment
  <1>6. ASSUME NEW p \in Pods, NEW l \in Listeners,
               Listen(p, l) \/ ListenerFails(p, l)
        PROVE  IInv'
    <2>1. pc[p] = "serve"
      BY <1>6 DEF Listen, ListenerFails, IInv, ListenersNeedProcess, Down
    <2>2. /\ UNCHANGED <<environment, schema, pc, conf, step>>
          /\ listener' \in [Pods -> [Listeners -> {"none", "starting", "serving",
                                                   "returned"}]]
          /\ \A q \in Pods \ {p} : listener'[q] = listener[q]
      BY <1>6 DEF Listen, ListenerFails, IInv, TypeOK
    <2> QED
      BY <2>1, <2>2
      DEF IInv, TypeOK, PassedParts, ListenersNeedProcess, BeginsAtFirst,
          environment
  <1>7. ASSUME NEW p \in Pods, FirstReturns(p) \/ BootFails(p) \/ Kill(p)
        PROVE  IInv'
    BY <1>7, ExitIInv DEF FirstReturns, BootFails, Kill
  <1>8. ASSUME NEW p \in Pods, Start(p)
        PROVE  IInv'
    BY <1>8
    DEF Start, GoTo, IInv, TypeOK, PassedParts, ListenersNeedProcess,
        BeginsAtFirst, environment
  <1>9. ASSUME \/ \E f \in Files : Edit(f)
               \/ ToggleDB \/ Settle
               \/ UNCHANGED vars
        PROVE  IInv'
    BY <1>9
    DEF Edit, ToggleDB, Settle, vars, environment, IInv, TypeOK, PassedParts,
        ListenersNeedProcess, BeginsAtFirst
  <1> QED
    BY <1>1, <1>2, <1>3, <1>4, <1>5, <1>6, <1>7, <1>8, <1>9 DEF Next, Steps, Fault

LEMMA Invariance == Spec => []IInv
  BY InitIInv, StepIInv, PTL DEF Spec

\* Schema, pods, their configurations and their listeners stay well formed, and a
\* pod past its start has a configuration that was accepted.
THEOREM TypeCorrect == Spec => []TypeOK
  <1>1. IInv => TypeOK
    BY DEF IInv
  <1> QED
    BY <1>1, Invariance, PTL

\* Of any number of pods that migrate one database at once and end at any point,
\* none serves on a schema with a part missing.
THEOREM SchemaComesFirst == Spec => []SchemaBeforeService
  <1>1. IInv => SchemaBeforeService
    BY DEF IInv, PassedParts, ListenersNeedProcess, SchemaBeforeService, Down, Parts
  <1> QED
    BY <1>1, Invariance, PTL
=============================================================================
