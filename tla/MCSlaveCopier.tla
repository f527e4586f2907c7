--------------------------- MODULE MCSlaveCopier ---------------------------
(***************************************************************************)
(* Small instances of SlaveCopier.  The master trades one symbol, "gold",  *)
(* which the copier's broker also offers as "xau".                         *)
(***************************************************************************)
EXTENDS SlaveCopier, TLC

GoldOnly == [m \in Tickets |-> "gold"]
GoldToXau == {<<"gold", "xau">>}
NoWhitelist == {{}}
XauWhitelist == {{}, {"xau"}}
Loss == {-1}
WinOrLoss == {-1, 1}

\* Tickets, slave tickets and handler threads are interchangeable.
Symmetry == Permutations(Tickets) \cup Permutations(SlaveTickets) \cup Permutations(Handlers)

============================================================================
