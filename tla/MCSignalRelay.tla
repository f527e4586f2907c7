---------------------------- MODULE MCSignalRelay ----------------------------
(* A small instance of SignalRelay: the node of one master and one socket   *)
(* each of two slaves.                                                      *)
EXTENDS SignalRelay

OneMaster == [s \in Sockets |-> CASE s = "a" -> "m1" [] s = "c" -> "s2" [] OTHER -> "s1"]
AllOfM1 == [t \in Tickets |-> "m1"]

=============================================================================
