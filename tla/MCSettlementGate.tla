-------------------------- MODULE MCSettlementGate --------------------------
(***************************************************************************)
(* Two overlapping markets of one series, open from the start: one settles *)
(* in the first tick, the other in the second.                             *)
(***************************************************************************)
EXTENDS SettlementGate, TLC

\* The ways to settle that pass are interchangeable.
Alike == Permutations(Sound)

MCOpensAt   == [m \in Market |-> 0]
MCSettlesAt == [m \in Market |-> m]

=============================================================================
