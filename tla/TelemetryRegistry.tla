------------------------- MODULE TelemetryRegistry -------------------------
(***************************************************************************)
(* What the monitor's database promises to its readers, one atomic step at *)
(* a time: a cluster is registered once and from then on has exactly one   *)
(* current name and one owner; telemetry is only ever added; and a cluster *)
(* snapshot is recorded only for a cluster that is registered.             *)
(***************************************************************************)
CONSTANTS Clusters, Names, Messages,
          TenantOf,      \* the tenant that owns each cluster
          Unregistered   \* the "name" of a cluster nobody reported yet

VARIABLES
    name,    \* [Clusters -> Names \cup {Unregistered}]
    owner,   \* [Clusters -> the tenant a reader is shown the cluster under]
    log      \* the telemetry recorded, a set of entries

vars == <<name, owner, log>>

Entry == [kind : {"snapshot", "gpu"}, cluster : Clusters, message : Messages]

Init ==
    /\ name = [c \in Clusters |-> Unregistered]
    /\ owner = [c \in Clusters |-> Unregistered]
    /\ log = {}

\* The first report of a cluster makes it visible to the tenant that owns it.
Register(c, n) ==
    /\ name[c] = Unregistered
    /\ name' = [name EXCEPT ![c] = n]
    /\ owner' = [owner EXCEPT ![c] = TenantOf[c]]
    /\ UNCHANGED log

\* A later report may carry another name; nothing else of the cluster changes.
Rename(c, n) ==
    /\ name[c] # Unregistered
    /\ name' = [name EXCEPT ![c] = n]
    /\ UNCHANGED <<owner, log>>

Record(e) ==
    /\ e.kind = "snapshot" => name[e.cluster] # Unregistered
    /\ log' = log \cup {e}
    /\ UNCHANGED <<name, owner>>

Next ==
    \/ \E c \in Clusters, n \in Names : Register(c, n) \/ Rename(c, n)
    \/ \E e \in Entry : Record(e)

Spec == Init /\ [][Next]_vars
=============================================================================
