------------------------ MODULE MCTelemetryPipeline ------------------------
(***************************************************************************)
(* The instances of TelemetryPipeline that TLC checks.                     *)
(***************************************************************************)
EXTENDS TelemetryPipeline, TLC

\* Pods, calls and messages are interchangeable: nothing compares them but
\* for equality, and no property singles one out.
Symmetry ==
    Permutations(Pods) \cup Permutations(Calls) \cup Permutations(Messages)
=============================================================================
