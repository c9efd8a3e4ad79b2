--------------------------- MODULE MCPaperTrading ---------------------------
(***************************************************************************)
(* Two or three consecutive markets, one tick apart, decided a tick before *)
(* they settle: the next one is decided while the last may be unsettled.   *)
(***************************************************************************)
EXTENDS PaperTrading

MCDayOf    == [t \in Time |-> t \div 3]
MCWeekOf   == [t \in Time |-> 0]
MCSettleAt == [m \in Market |-> m]
MCFill     == {[cost |-> 1, shares |-> 2], [cost |-> 2, shares |-> 3]}

=============================================================================
