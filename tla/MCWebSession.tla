---------------------------- MODULE MCWebSession ----------------------------
(* Small instances of WebSession: a copier and an administrator share a browser. *)
EXTENDS WebSession

Roles == [u \in Users |-> IF u = "root" THEN "ADMIN" ELSE "SLAVE"]

============================================================================
