----------------------------- MODULE MCClobFeed -----------------------------
(***************************************************************************)
(* A market whose books start with one level on each side.                 *)
(***************************************************************************)
EXTENDS ClobFeed

MCFirstBook == [t \in Token |-> [l \in Level |-> 1]]

=============================================================================
