----------------------------- MODULE MCDeposits -----------------------------
(***************************************************************************)
(* A small instance of Deposits for TLC: one user, deposits of 6 and 3,    *)
(* withdrawals of 3 each: one deposit covers one withdrawal, the other     *)
(* covers both, or one that is debited twice.                              *)
(***************************************************************************)
EXTENDS Deposits, TLC

CONSTANTS u1, d1, d2

MCOwner == [x \in Item |-> u1]
MCAmount == [x \in Item |-> IF x = d1 THEN 6 ELSE 3]

Symmetry == Permutations(Request) \union Permutations(Withdrawal)
=============================================================================
