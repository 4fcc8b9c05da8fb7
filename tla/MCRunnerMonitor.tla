-------------------------- MODULE MCRunnerMonitor --------------------------
(* Suites of circuits for TLC. *)
EXTENDS RunnerMonitor

\* A circuit, a larger one, and one of the first size again.
ThreeSizes == <<2, 3, 2>>
=============================================================================
