--------------------------- MODULE MCNodeRegistry ---------------------------
(* Small instances of NodeRegistry: two sockets for a master, two for a slave. *)
EXTENDS NodeRegistry

TwoEach == [s \in Sockets |-> IF s \in {"a", "b"} THEN "m1" ELSE "s1"]

============================================================================
