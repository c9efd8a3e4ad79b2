---------------------------- MODULE StakeAccount ----------------------------
(***************************************************************************)
(* What the bookkeeping half of the risk ledger promises its callers, with *)
(* every limit forgotten: the stake of a position leaves the cash when the *)
(* position opens and comes back, as a payoff, exactly once when it        *)
(* settles.  RiskLedger (the class on its own) and PaperTrading (the       *)
(* engine that drives it, read through its journal) both implement it.     *)
(***************************************************************************)
EXTENDS Holdings

CONSTANTS Position,   \* the positions a run may open
          MaxCost,    \* the largest cost one position can have
          Payoffs,    \* what a settlement may return
          Start       \* starting_bankroll_usdc

VARIABLES cash,       \* bankroll_usdc
          stakes,     \* what each open position cost; 0 when it is not open
          realised    \* the sum of every P&L register_close has returned

vars == <<cash, stakes, realised>>

TypeOK == /\ cash \in Int
          /\ stakes \in [Position -> 0..MaxCost]
          /\ realised \in Int

Init == /\ cash = Start
        /\ stakes = [p \in Position |-> 0]
        /\ realised = 0

Place(p, cost) ==
    /\ stakes[p] = 0
    /\ cash' = cash - cost
    /\ stakes' = [stakes EXCEPT ![p] = cost]
    /\ UNCHANGED realised

Settle(p, payoff) ==
    /\ stakes[p] > 0
    /\ cash' = cash + payoff
    /\ stakes' = [stakes EXCEPT ![p] = 0]
    /\ realised' = realised + payoff - stakes[p]

Next == \E p \in Position :
            \/ \E cost \in 1..MaxCost : Place(p, cost)
            \/ \E payoff \in Payoffs : Settle(p, payoff)

Spec == Init /\ [][Next]_vars

===========================================================================
