-------------------------- MODULE MCMasterRecorder --------------------------
(* Small instances of MasterRecorder: tickets and starts are interchangeable *)
(* except for the ticket that a copier opened.                               *)
EXTENDS MasterRecorder, TLC

Symmetry == Permutations(Tickets \ Copied) \cup Permutations(Runs)

============================================================================
