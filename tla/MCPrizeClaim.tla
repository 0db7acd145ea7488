---------------------------- MODULE MCPrizeClaim ----------------------------
(***************************************************************************)
(* Small instances of PrizeClaim for TLC. Two winners of one pool; wallet  *)
(* "wa" is stored as winner_wallet of w1 and accepted by the tables for    *)
(* both winners, wallet "wb" is a stranger.                                *)
(***************************************************************************)
EXTENDS PrizeClaim, TLC

CONSTANTS w1, w2, wa, wb, p1

MCPoolOf == [w \in Winner |-> p1]
MCPrize == [w \in Winner |-> 1]
MCLinked == [w \in Winner |-> {wa}]
MCResolved == [w \in Winner |-> IF w = w1 THEN wa ELSE NoWallet]

RequestSymmetry == Permutations(Request)
ServerSymmetry == Permutations(Server)
Symmetry == RequestSymmetry \union ServerSymmetry
=============================================================================
