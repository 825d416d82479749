-------------------------- MODULE MCStreamRuntime --------------------------
(***************************************************************************)
(* Small instances of StreamRuntime for TLC.                               *)
(***************************************************************************)
EXTENDS StreamRuntime, TLC

\* Runs, workers and domains are interchangeable in the safety properties.
Symmetry ==
    Permutations(Runs) \cup Permutations(Workers) \cup Permutations(Domains)
=============================================================================
