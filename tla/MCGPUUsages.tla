---------------------------- MODULE MCGPUUsages ----------------------------
(***************************************************************************)
(* The instance of GPUUsages that TLC checks.                              *)
(***************************************************************************)
EXTENDS GPUUsages, TLC

CONSTANTS c1, c2, c3, t1, t2, na, nb

MCTenantOf == [c \in Clusters |-> IF c = c3 THEN t2 ELSE t1]

Usage(node, max, avg) ==
    [name |-> node, maxGPUUsed |-> max, avgGPUUsed |-> avg,
     maxGPUMemoryUsed |-> max + 1, avgGPUMemoryUsed |-> avg]

\* The clusters have nodes of the same name, used differently or not at all.
MCContents == {{}, {Usage(na, 3, 1)}, {Usage(na, 2, 2), Usage(nb, 0, 0)}}

ASSUME MessagesAssumption == UsageAssumption

\* c1 and c2 have the same tenant; nothing compares names but for equality.
Symmetry == Permutations({c1, c2}) \cup Permutations(Names)
=============================================================================
