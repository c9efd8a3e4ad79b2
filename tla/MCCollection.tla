---------------------------- MODULE MCCollection ----------------------------
(***************************************************************************)
(* Overlapping markets, each a tick after the other.                       *)
(***************************************************************************)
EXTENDS Collection

MCOpensAt   == [m \in Market |-> m - 1]
MCSettlesAt == [m \in Market |-> m + 1]

\* The venue never resolves the first market, and the second as a void that it
\* makes an outcome and corrects.
MCCourse == [m \in Market |-> IF m = 1 THEN <<>> ELSE <<"void", "UP", "DOWN">>]

=============================================================================
