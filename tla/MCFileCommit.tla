---------------------------- MODULE MCFileCommit ----------------------------
(* Instances of FileCommit for TLC.                                        *)
EXTENDS FileCommit, TLC

\* Calls, output names and tokens are interchangeable in the safety runs.
Symmetry == Permutations(Calls) \cup Permutations(Outputs) \cup Permutations(Tokens)
=============================================================================
