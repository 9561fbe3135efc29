-------------------------- MODULE MCWorkerService --------------------------
(***************************************************************************)
(* The instances of WorkerService that TLC checks.                         *)
(***************************************************************************)
EXTENDS WorkerService

CONSTANTS c1, c2, t1, t2, m1, m2

MCTenantOf == [c \in Clusters |-> IF c = c1 THEN t1 ELSE t2]

S(m) == [kind |-> "snapshot", message |-> m]
G(m) == [kind |-> "gpu", message |-> m]
U(m) == [kind |-> "unset", message |-> m]

\* One payload, as the agent sends them, and what else the interface admits: two
\* payloads, an unsupported kind after a valid one, no payload.
MixedRequests == {<<S(m1)>>, <<G(m1), S(m2)>>, <<S(m1), U(m2)>>, << >>}
SnapshotsOnly == {<<S(m1)>>}
=============================================================================
