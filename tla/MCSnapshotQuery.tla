-------------------------- MODULE MCSnapshotQuery --------------------------
(***************************************************************************)
(* The instances of SnapshotQuery that TLC checks.                         *)
(***************************************************************************)
EXTENDS SnapshotQuery, TLC

CONSTANTS c1, c2, c3, t1, t2

MCTenantOf == [c \in Clusters |-> IF c = c3 THEN t2 ELSE t1]

\* Two products, one node that is odd in GPUs and in memory, and one the agent
\* found no product for.
MCNodes == {[product |-> "a", gpuCapacity |-> 1, memoryCapacity |-> 3],
            [product |-> NoProduct, gpuCapacity |-> 2, memoryCapacity |-> 2]}
MCContents == SUBSET MCNodes

ASSUME MessagesAssumption == ReportAssumption

\* c1 and c2 have the same tenant; nothing compares names but for equality.
Symmetry == Permutations({c1, c2}) \cup Permutations(Names)
=============================================================================
