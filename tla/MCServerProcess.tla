-------------------------- MODULE MCServerProcess --------------------------
(***************************************************************************)
(* The instance of ServerProcess that TLC checks.                          *)
(***************************************************************************)
EXTENDS ServerProcess

Works == [httpPort |-> 1, grpcPort |-> 2, workerServiceGrpcPort |-> 3,
          standalone |-> FALSE, sqlitePath |-> FALSE, database |-> TRUE,
          auth |-> TRUE, rbacServerAddr |-> TRUE, usageSender |-> TRUE]

\* One that works, two that are refused, and two that are accepted and cannot
\* work: with a port twice, and in standalone mode.
MCFiles ==
    {Works,
     Unreadable,
     [Works EXCEPT !.workerServiceGrpcPort = 0],
     [Works EXCEPT !.workerServiceGrpcPort = 2],
     [Works EXCEPT !.standalone = TRUE, !.sqlitePath = TRUE, !.database = FALSE]}
=============================================================================
