---------------------------- MODULE MCCollectors ----------------------------
(***************************************************************************)
(* The instance of Collectors that TLC checks.                             *)
(***************************************************************************)
EXTENDS Collectors

CONSTANTS p1, a, b

\* A pod of three containers one of which uses no GPU, and one of one GPU.
MCLimits == [p \in Pods |-> IF p = p1 THEN <<1, NoLimit, 1>> ELSE <<1>>]

State(selected, capacity, memory, product) ==
    [selected |-> selected, capacity |-> capacity, memory |-> memory,
     product |-> product]
MCNodeStates ==
    {State(TRUE, 2, 3, "a"), State(TRUE, 1, NoLabel, NoLabel),
     State(FALSE, 2, BadLabel, "a"), State(TRUE, 2, BadLabel, "a")}

Object(name, hostname, selected) ==
    [name |-> name, hostname |-> hostname, selected |-> selected]
MCNodeObjects ==
    {Object("na", a, TRUE), Object("nb", b, FALSE), Object("nx", NoLabel, TRUE)}

Reading(host, gpu, pod, exporter, values) ==
    [labels |-> [hostname |-> host, gpu |-> gpu, pod |-> pod,
                 exporter |-> exporter],
     values |-> values]
Both(u, m) == [util |-> u, mem |-> m]
MemOnly(m) == [metric \in {"mem"} |-> m]

\* Host a has two GPUs, shared by pods or not, and an exporter that is replaced,
\* whose series overlap with its successor's or do not; one GPU without the
\* utilization metric (as with MIG).  What host b exports may lack the labels.
MCExports ==
    [host \in Hosts |->
        IF host = a
        THEN {{Reading(a, "0", "p", "e", Both(50, 1)),
               Reading(a, "1", NoPod, "e", Both(0, 1))},
              {Reading(a, "0", "p", "f", Both(80, 2)),
               Reading(a, "1", "q", "f", Both(50, 1))},
              {Reading(a, "0", "p", "e", Both(50, 1)),
               Reading(a, "0", "p", "f", Both(80, 2))},
              {Reading(a, "0", NoPod, "f", Both(0, 0))},
              {Reading(a, "0", "p", "e", MemOnly(3))}}
        ELSE {{Reading(b, "0", "p", "e", Both(50, 2))},
              {Reading(NoLabel, "0", "p", "e", Both(50, 1)),
               Reading(b, BadLabel, "p", "e", MemOnly(1))}}]
=============================================================================
