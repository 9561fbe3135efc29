----------------------------- MODULE TenantRead -----------------------------
(***************************************************************************)
(* How the two queries of the monitor service read the database            *)
(* (ListClusterSnapshots and ListGpuUsages in server/internal/server/)     *)
(* while reports come in.  Both read the rows of the tenant's clusters in  *)
(* one SQL query and the histories of each in another, outside any         *)
(* transaction, and compute the answer from what they have read.  What the *)
(* tables do meanwhile is TelemetryRegistry, which the worker service      *)
(* implements.  The window is given, see QueryWindow for how it is         *)
(* computed.                                                               *)
(***************************************************************************)
EXTENDS Integers, FiniteSets

CONSTANTS
    Clusters, Names, TenantOf, Unregistered,   \* TelemetryRegistry
    Tenant,              \* the tenant that asks
    Kind,                \* of the histories the query reads
    Contents,            \* the sets of nodes a message may list
    Times,               \* the times histories may be created at
    Interval, Start, End,    \* the window, in whole intervals
    MaxHistories         \* bound on the number of histories

ASSUME QueryAssumption ==
    /\ Kind \in {"snapshot", "gpu"}
    /\ Tenant # Unregistered
    /\ Unregistered \notin Names
    /\ Interval \in Nat \ {0}
    /\ Start \in Nat /\ Start % Interval = 0
    /\ End \in Nat /\ End % Interval = 0
    /\ Times \subseteq Nat
    /\ MaxHistories \in Nat

VARIABLES
    name, owner, log,    \* TelemetryRegistry
    pc,        \* what the handler reads next, or its reply
    todo,      \* clusters whose histories it has not read
    names,     \* clusterNamesByID
    hs,        \* the histories read
    began      \* auxiliary: rows and histories when the request arrived

tables == <<name, owner, log>>
local  == <<todo, names, hs>>
vars   == <<tables, pc, local, began>>

Messages == [at : Times, nodes : Contents]

Registry == INSTANCE TelemetryRegistry

Replies == {"none", "OK", "Unauthenticated", "NotFound", "InvalidArgument", "Internal"}

InWindow(h) == Start <= h.at /\ h.at < End

Listed == {c \in Clusters : owner[c] = Tenant}

\* A history as the store returns it.
Histories(c) ==
    {[cluster |-> c, at |-> e.message.at, nodes |-> e.message.nodes] :
        e \in {x \in log : x.kind = Kind /\ x.cluster = c}}

Init ==
    /\ Registry!Init
    /\ pc = "none"
    /\ todo = {}
    /\ names = << >>
    /\ hs = {}
    /\ began = [rows |-> {}, histories |-> {}]

-----------------------------------------------------------------------------
\* A request whose context holds no user is refused before anything is read.
RefuseCaller ==
    /\ pc \in Replies
    /\ pc' = "Unauthenticated"
    /\ began' = [rows |-> {}, histories |-> {}]
    /\ todo' = {} /\ names' = << >> /\ hs' = {}
    /\ UNCHANGED tables

Receive ==
    /\ pc \in Replies
    /\ pc' = "rows"
    /\ began' = [rows |-> Listed,
                 histories |-> UNION {Histories(c) : c \in Clusters}]
    /\ todo' = {} /\ names' = << >> /\ hs' = {}
    /\ UNCHANGED tables

\* Definitions named Faulty... are mistakes the code could have made; no
\* behaviour of this specification uses them.
FaultyListRows ==
    /\ pc = "rows"
    /\ todo' = {c \in Clusters : name[c] # Unregistered}
    /\ names' = [c \in Listed |-> name[c]]
    /\ pc' = IF Listed = {} THEN "NotFound" ELSE "histories"
    /\ UNCHANGED <<tables, hs, began>>

ListRows ==
    /\ pc = "rows"
    /\ todo' = Listed
    /\ names' = [c \in Listed |-> name[c]]
    /\ pc' = IF Listed = {} THEN "NotFound" ELSE "histories"
    /\ UNCHANGED <<tables, hs, began>>

\* The filter is looked at between the rows and the histories.
RefuseFilter ==
    /\ pc = "histories"
    /\ hs = {}
    /\ todo = DOMAIN names
    /\ pc' = "InvalidArgument"
    /\ UNCHANGED <<tables, local, began>>

FaultyListHistories(c) ==
    /\ pc = "histories"
    /\ hs' = hs \cup {h \in Histories(c) : InWindow(h)}
    /\ todo' = todo \ {c}
    /\ pc' = "OK"
    /\ UNCHANGED <<tables, names, began>>

\* The rows come in no particular order.
ListHistories(c) ==
    /\ pc = "histories"
    /\ c \in todo
    /\ hs' = hs \cup {h \in Histories(c) : InWindow(h)}
    /\ todo' = todo \ {c}
    /\ pc' = IF todo = {c} THEN "OK" ELSE "histories"
    /\ UNCHANGED <<tables, names, began>>

QueryFails ==
    /\ pc \in {"rows", "histories"}
    /\ pc' = "Internal"
    /\ UNCHANGED <<tables, local, began>>

Handler ==
    \/ RefuseCaller \/ Receive \/ ListRows \/ RefuseFilter \/ QueryFails
    \/ \E c \in Clusters : ListHistories(c)

\* The steps of the registry, at most MaxHistories records among them and no two
\* of a cluster at the same time.  The other kind of telemetry is not read.
Write ==
    /\ \/ \E c \in Clusters, n \in Names :
            Registry!Register(c, n) \/ Registry!Rename(c, n)
       \/ \E c \in Clusters, m \in Messages :
            /\ Cardinality(log) < MaxHistories
            /\ \A h \in Histories(c) : h.at # m.at
            /\ Registry!Record([kind |-> Kind, cluster |-> c, message |-> m])
    /\ UNCHANGED <<pc, local, began>>

Next == Handler \/ Write

Spec == Init /\ [][Next]_vars

-----------------------------------------------------------------------------
(* The answer is computed once everything has been read.                    *)

Answered == pc = "OK"

\* The loop over intervals, and the histories in the bucket of one.
Slots     == {t \in Start..(End - 1) : t % Interval = 0}
Bucket(t) == {h \in hs : h.at - (h.at % Interval) = t}

-----------------------------------------------------------------------------
(* Correctness.                                                            *)

TypeOK ==
    /\ pc \in Replies \cup {"rows", "histories"}
    /\ todo \subseteq DOMAIN names
    /\ names \in UNION {[S -> Names] : S \in SUBSET Clusters}
    /\ hs \subseteq UNION {Histories(c) : c \in Clusters}

\* A query shows a tenant its own clusters only, all of them under a name: the
\* lookup of a name for a history's cluster never fails.
OwnClustersOnly ==
    \A h \in hs : owner[h.cluster] = Tenant /\ h.cluster \in DOMAIN names

\* What was there when a request arrived is in the answer, although the rows
\* and each cluster's histories are read at different times.
NothingMissed ==
    Answered =>
        /\ began.rows \subseteq DOMAIN names
        /\ \A h \in began.histories :
             h.cluster \in began.rows /\ InWindow(h) => h \in hs
=============================================================================
