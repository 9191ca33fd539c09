----------------------------- MODULE MCTransfer -----------------------------
(* Model-checking instance of Transfer: one program whose two paths lead to *)
(* the same name.  MCCopies extends it to two programs that copy and        *)
(* download to one name, and one that also moves, between two.              *)
EXTENDS Transfer, TLC

CONSTANTS b1, b2, n1, n2, x, y

OneBlock == [s \in Sources |-> <<b1>>]

Apart == (x :> n1) @@ (y :> n2)
Together == [path \in Paths |-> n1]
=============================================================================
