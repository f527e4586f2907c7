------------------------- MODULE MCMasterInsights -------------------------
(* A small instance of MasterInsights: every table of three rows or fewer  *)
(* over two days, and longer ones that a sampled curve must thin out; and  *)
(* profiles with and without their texts, and other masters with more and   *)
(* fewer trades, on the smallest tables.                                   *)
EXTENDS MasterInsights

SmallPnls == {-1, 0, 2}
TwoDays == {3, 22, 26}
SmallRows == {OpenRow} \cup {ClosedRow(p, t) : p \in SmallPnls, t \in TwoDays}
LongRows == {ClosedRow(p, 3) : p \in {-1, 2}}

Filled == [bio |-> "bio", platform |-> "MT5", strategy |-> None, risk |-> "LOW"]
Texts == {[bio |-> None, platform |-> None, strategy |-> None, risk |-> None],
          [bio |-> None, platform |-> None, strategy |-> "strategy", risk |-> "HIGH"]}

Alone == [newer |-> <<>>, older |-> <<>>]
Rivals == {[newer |-> <<0>>, older |-> <<2>>], [newer |-> <<1, 0>>, older |-> <<1>>]}

SmallStarts ==
    [rows : BoundedSeq(SmallRows, 3) \cup [1 .. 4 -> LongRows] \cup [1 .. 5 -> LongRows],
     text : {Filled}, others : {Alone}]
    \cup [rows : BoundedSeq({OpenRow} \cup LongRows, 1), text : Texts, others : {Alone}]
    \cup [rows : BoundedSeq({OpenRow} \cup LongRows, 1), text : {Filled}, others : Rivals]

Rising == <<0, 1>>

============================================================================
