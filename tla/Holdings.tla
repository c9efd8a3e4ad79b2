------------------------------ MODULE Holdings ------------------------------
(***************************************************************************)
(* Positions as a function from positions to what each one cost, 0 when it *)
(* is not open, and the two numbers the ledger keeps about them: how many  *)
(* there are and what they cost together.  The total is a cardinality (one *)
(* element per unit of money at stake) and not a recursive sum, so that    *)
(* the theorems on finite sets apply to it.                                *)
(***************************************************************************)
EXTENDS Integers, FiniteSets

Held(f) == {p \in DOMAIN f : f[p] > 0}

Staked(f, cap) == {unit \in (DOMAIN f) \X (1..cap) : unit[2] <= f[unit[1]]}

HeldCount(f) == Cardinality(Held(f))

StakedTotal(f, cap) == Cardinality(Staked(f, cap))

=============================================================================
