--------------------------- MODULE ServerProcess ---------------------------
(***************************************************************************)
(* The server's process (server/cmd/run.go): it reads its configuration,   *)
(* brings the database's schema up to date and then runs three listeners   *)
(* as goroutines, the HTTP gateway, the monitor service and the worker     *)
(* service.  The first of them to return ends the process, which           *)
(* Kubernetes starts again.  Several pods, as replicas or during a rolling *)
(* update, share the database and a configuration file that may be edited  *)
(* at any time; ports are each pod's own.  Kubernetes, the database and    *)
(* gorm are external: they are modelled as the code relies on them.        *)
(***************************************************************************)
EXTENDS Integers, Sequences

CONSTANTS
    Pods,
    Files,         \* what the configuration file may hold
    Unreadable,    \* a file that is missing or no YAML
    MaxPort        \* 65535

ASSUME ProcessAssumption ==
    /\ Unreadable \in Files
    /\ \A f \in Files \ {Unreadable} :
         /\ {f.httpPort, f.grpcPort, f.workerServiceGrpcPort} \subseteq Int
         /\ f.standalone \in BOOLEAN
         /\ f.sqlitePath \in BOOLEAN       \* is set
         /\ f.database \in BOOLEAN         \* db.Config.Validate accepts it
         /\ f.auth \in BOOLEAN             \* is enabled
         /\ f.rbacServerAddr \in BOOLEAN   \* is set
         /\ f.usageSender \in BOOLEAN      \* sender.Config.Validate accepts it
    /\ MaxPort \in Nat

VARIABLES
    file,       \* the configuration file
    dbUp,       \* the database can be reached
    stable,     \* auxiliary: from now on nothing fails and nobody interferes
    schema,     \* the tables and indexes it has
    pc,         \* where run is in each pod
    conf,       \* the configuration it has read
    step,       \* the part of the schema it is at
    listener    \* what the pod's listeners do

environment == <<file, dbUp, stable>>
vars == <<environment, schema, pc, conf, step, listener>>

Listeners == {"http", "grpc", "worker"}

\* What autoMigrate sets up, in this order; of the indexes only the one that the
\* worker service relies on.
Schema == <<"gpu_telemetry_histories", "cluster_snapshots",
            "cluster_snapshots.cluster_id (unique)", "cluster_snapshot_histories">>

PortOf(c) == [http |-> c.httpPort, grpc |-> c.grpcPort,
              worker |-> c.workerServiceGrpcPort]

\* Config.Validate.  Ports may be too large or equal, and in standalone mode the
\* database need not be configured.
Validate(c) ==
    /\ c # Unreadable
    /\ \A l \in Listeners : PortOf(c)[l] > 0
    /\ IF c.standalone THEN c.sqlitePath ELSE c.database
    /\ c.auth => c.rbacServerAddr
    /\ c.usageSender

Down == [l \in Listeners |-> "none"]

Init ==
    /\ file \in Files
    /\ dbUp \in BOOLEAN
    /\ stable = FALSE
    /\ schema = {}
    /\ pc = [p \in Pods |-> "down"]
    /\ conf = [p \in Pods |-> Unreadable]
    /\ step = [p \in Pods |-> 1]
    /\ listener = [p \in Pods |-> Down]

-----------------------------------------------------------------------------
(* run.                                                                    *)

\* The process is gone, and with it its goroutines and ports.
Exit(p) ==
    /\ pc' = [pc EXCEPT ![p] = "down"]
    /\ conf' = [conf EXCEPT ![p] = Unreadable]
    /\ step' = [step EXCEPT ![p] = 1]
    /\ listener' = [listener EXCEPT ![p] = Down]
    /\ UNCHANGED schema

GoTo(p, next) ==
    /\ pc' = [pc EXCEPT ![p] = next]
    /\ UNCHANGED <<conf, listener>>

\* Definitions named Faulty... are mistakes the code could have made; no
\* behaviour of this specification uses them.
FaultyConfigure(p) ==
    /\ pc[p] = "configure"
    /\ IF file # Unreadable
       THEN /\ pc' = [pc EXCEPT ![p] = "open"]
            /\ conf' = [conf EXCEPT ![p] = file]
            /\ UNCHANGED <<schema, step, listener>>
       ELSE Exit(p)
    /\ UNCHANGED environment

\* A file that cannot be parsed or is refused ends the process.
Configure(p) ==
    /\ pc[p] = "configure"
    /\ IF Validate(file)
       THEN /\ pc' = [pc EXCEPT ![p] = "open"]
            /\ conf' = [conf EXCEPT ![p] = file]
            /\ UNCHANGED <<schema, step, listener>>
       ELSE Exit(p)
    /\ UNCHANGED environment

\* The database configuration is used in standalone mode too.
OpenDB(p) ==
    /\ pc[p] = "open"
    /\ IF dbUp /\ conf[p].database
       THEN GoTo(p, "has") /\ UNCHANGED <<schema, step>>
       ELSE Exit(p)
    /\ UNCHANGED environment

NextPart(p) ==
    /\ step' = [step EXCEPT ![p] = @ + 1]
    /\ GoTo(p, IF step[p] = Len(Schema) THEN "gateway" ELSE "has")

FaultyHasPart(p) ==
    /\ pc[p] = "has"
    /\ IF dbUp THEN GoTo(p, "create") /\ UNCHANGED <<schema, step>> ELSE Exit(p)
    /\ UNCHANGED environment

\* AutoMigrate asks for each part of the schema, and creates it if there is none
\* as yet: with other statements, between which another pod may do so.
HasPart(p) ==
    /\ pc[p] = "has"
    /\ CASE ~dbUp                   -> Exit(p)
         [] dbUp /\ Schema[step[p]] \in schema    -> NextPart(p) /\ UNCHANGED schema
         [] dbUp /\ Schema[step[p]] \notin schema -> GoTo(p, "create")
                                                    /\ UNCHANGED <<schema, step>>
    /\ UNCHANGED environment

FaultyCreatePart(p) ==
    /\ pc[p] = "create"
    /\ IF dbUp /\ Schema[step[p]] \notin schema
       THEN schema' = schema \cup {Schema[step[p]]} /\ NextPart(p)
       ELSE GoTo(p, "gateway") /\ UNCHANGED <<schema, step>>
    /\ UNCHANGED environment

CreatePart(p) ==
    /\ pc[p] = "create"
    /\ IF dbUp /\ Schema[step[p]] \notin schema
       THEN schema' = schema \cup {Schema[step[p]]} /\ NextPart(p)
       ELSE Exit(p)
    /\ UNCHANGED environment

\* The gateway's client, handlers and usage sender wait for nobody; the three
\* goroutines start.
StartListeners(p) ==
    /\ pc[p] = "gateway"
    /\ pc' = [pc EXCEPT ![p] = "serve"]
    /\ listener' = [listener EXCEPT ![p] = [l \in Listeners |-> "starting"]]
    /\ UNCHANGED <<environment, schema, conf, step>>

PortFree(p, l) ==
    /\ PortOf(conf[p])[l] <= MaxPort
    /\ \A m \in Listeners :
         listener[p][m] = "serving" => PortOf(conf[p])[m] # PortOf(conf[p])[l]

\* The listener serves, or its Run returns the error of Listen; the Run methods
\* of the two gRPC services are alike in this.
Listen(p, l) ==
    /\ listener[p][l] = "starting"
    /\ listener' = [listener EXCEPT ![p][l] =
                      IF PortFree(p, l) THEN "serving" ELSE "returned"]
    /\ UNCHANGED <<environment, schema, pc, conf, step>>

FaultyFirstReturns(p) ==
    /\ listener[p]["http"] = "returned"
    /\ Exit(p)
    /\ UNCHANGED environment

\* return <-errCh
FirstReturns(p) ==
    /\ \E l \in Listeners : listener[p][l] = "returned"
    /\ Exit(p)
    /\ UNCHANGED environment

-----------------------------------------------------------------------------
(* Failures, and the environment.                                          *)

\* An error of the database, of the gateway's registration, of the usage sender.
BootFails(p) ==
    /\ ~stable
    /\ pc[p] \in {"open", "has", "create", "gateway"}
    /\ Exit(p)
    /\ UNCHANGED environment

\* The auth interceptor cannot be made, or Serve gives up.
ListenerFails(p, l) ==
    /\ ~stable
    /\ listener[p][l] \in {"starting", "serving"}
    /\ listener' = [listener EXCEPT ![p][l] = "returned"]
    /\ UNCHANGED <<environment, schema, pc, conf, step>>

Kill(p) ==
    /\ ~stable
    /\ pc[p] # "down"
    /\ Exit(p)
    /\ UNCHANGED environment

Start(p) ==
    /\ pc[p] = "down"
    /\ GoTo(p, "configure")
    /\ UNCHANGED <<environment, schema, step>>

Edit(f) ==
    /\ ~stable
    /\ file' = f
    /\ UNCHANGED <<dbUp, stable, schema, pc, conf, step, listener>>

ToggleDB ==
    /\ ~stable
    /\ dbUp' = ~dbUp
    /\ UNCHANGED <<file, stable, schema, pc, conf, step, listener>>

Settle ==
    /\ ~stable
    /\ stable' = TRUE
    /\ UNCHANGED <<file, dbUp, schema, pc, conf, step, listener>>

Steps(p) ==
    \/ Configure(p) \/ OpenDB(p) \/ HasPart(p) \/ CreatePart(p)
    \/ StartListeners(p) \/ FirstReturns(p) \/ Start(p)
    \/ \E l \in Listeners : Listen(p, l)

Fault(p) == BootFails(p) \/ Kill(p) \/ \E l \in Listeners : ListenerFails(p, l)

Next ==
    \/ \E p \in Pods : Steps(p) \/ Fault(p)
    \/ \E f \in Files : Edit(f)
    \/ ToggleDB \/ Settle

Spec == Init /\ [][Next]_vars

\* Every goroutine goes on, and Kubernetes starts what has ended.
Fairness ==
    \A p \in Pods :
        /\ WF_vars(Configure(p) \/ OpenDB(p) \/ HasPart(p) \/ CreatePart(p)
                   \/ StartListeners(p) \/ Start(p))
        /\ WF_vars(FirstReturns(p))
        /\ \A l \in Listeners : WF_vars(Listen(p, l))

FairSpec == Spec /\ Fairness

-----------------------------------------------------------------------------
(* Correctness.                                                            *)

TypeOK ==
    /\ file \in Files
    /\ dbUp \in BOOLEAN
    /\ stable \in BOOLEAN
    /\ schema \subseteq {Schema[i] : i \in 1..Len(Schema)}
    /\ pc \in [Pods -> {"down", "configure", "open", "has", "create", "gateway",
                        "serve"}]
    /\ conf \in [Pods -> Files]
    /\ step \in [Pods -> 1..(Len(Schema) + 1)]
    /\ listener \in [Pods -> [Listeners -> {"none", "starting", "serving", "returned"}]]
    /\ \A p \in Pods :
         /\ pc[p] \in {"has", "create"} => step[p] <= Len(Schema)
         /\ pc[p] \in {"down", "configure"} \/ Validate(conf[p])

\* No listener serves while a part of the schema is missing, however the pods'
\* migrations interleave and wherever one of them is cut off: the worker service
\* may rely on the unique index, which gorm creates after the table.
SchemaBeforeService ==
    \A p \in Pods, l \in Listeners :
        listener[p][l] = "serving" => \A i \in 1..Len(Schema) : Schema[i] \in schema

\* No process goes on with some of its listeners: once one has returned, the
\* process ends.
ReturnedListenerEndsProcess ==
    \A p \in Pods :
        (\E l \in Listeners : listener[p][l] = "returned") ~> pc[p] = "down"

\* What Validate does not ask of a configuration, but running with it does.
Sound(c) ==
    /\ Validate(c)
    /\ c.database
    /\ \A l \in Listeners : PortOf(c)[l] <= MaxPort
    /\ \A l, m \in Listeners : PortOf(c)[l] = PortOf(c)[m] => l = m

\* Once failures stop and the configuration can work, all listeners of all pods
\* serve for good: what crashed migrations have left is completed, and a pod that
\* loses the race to create a part of the schema succeeds when it is restarted.
EventuallyServes ==
    <>(stable /\ dbUp /\ Sound(file)) =>
        <>[](\A p \in Pods, l \in Listeners : listener[p][l] = "serving")
=============================================================================
