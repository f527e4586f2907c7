---------------------------- MODULE MCAuthPages ----------------------------
(* Small instances of AuthPages. *)
EXTENDS AuthPages, TLC

Symmetry == Permutations(Calls) \cup Permutations(Passwords)

============================================================================
