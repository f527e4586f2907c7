----------------------------- MODULE SignalFeed -----------------------------
(***************************************************************************)
(* What a master promises the nodes behind it: at most one OPEN and at most *)
(* one CLOSE per ticket, and never an OPEN after the CLOSE.  A CLOSE without *)
(* an OPEN is that of a position held before broadcasting started.         *)
(***************************************************************************)
EXTENDS Naturals

CONSTANT Tickets

VARIABLES opens, closes    \* signals sent per ticket

Init ==
    /\ opens = [t \in Tickets |-> 0]
    /\ closes = [t \in Tickets |-> 0]

AnnounceOpen(t) ==
    /\ opens[t] = 0 /\ closes[t] = 0
    /\ opens' = [opens EXCEPT ![t] = 1]
    /\ UNCHANGED closes

AnnounceClose(t) ==
    /\ closes[t] = 0
    /\ closes' = [closes EXCEPT ![t] = 1]
    /\ UNCHANGED opens

Next == \E t \in Tickets : AnnounceOpen(t) \/ AnnounceClose(t)

Spec == Init /\ [][Next]_<<opens, closes>>

=============================================================================
