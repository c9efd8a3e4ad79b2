---------------------------- MODULE MCRiskLedger ----------------------------
(***************************************************************************)
(* Small calendars for the ledger: days of two ticks and weeks of four, so *)
(* that behaviours cross both kinds of boundary with positions open.       *)
(***************************************************************************)
EXTENDS RiskLedger, TLC

MCDayOf  == [t \in Time |-> t \div 2]
MCWeekOf == [t \in Time |-> t \div 4]

Interchangeable == Permutations(Position)

=============================================================================
