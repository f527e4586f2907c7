--------------------------- MODULE MCCopierPages ---------------------------
(* A small instance of CopierPages: two of the windows at work at a time.  *)
(* Requests, texts and file types are interchangeable.                     *)
EXTENDS CopierPages, TLC

SmallBudgets ==
    {[master |-> 2], [admin |-> 1, master |-> 1],
     [node |-> 3], [admin |-> 1, node |-> 2], [admin |-> 2, node |-> 1],
     [admin |-> 1, copier |-> 1, visit |-> 1], [copier |-> 2, visit |-> 1],
     [copier |-> 1, node |-> 1, visit |-> 1], [copier |-> 1, visit |-> 2]}

Symmetry == Permutations(Calls) \cup Permutations(Bios) \cup Permutations(Exts)

============================================================================
