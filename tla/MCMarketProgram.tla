--------------------------- MODULE MCMarketProgram ---------------------------
(***************************************************************************)
(* A small instance of MarketProgram for TLC: one market whose competition *)
(* runs from 1 to 2, two positions, two transactions in flight. Amounts    *)
(* are one that is allowed and one below the minimum; the premium of the   *)
(* second position is one. A u64 ends at 11 in market_program, so that     *)
(* sums reach it, and at 1000 in the other runs, so that none does.        *)
(***************************************************************************)
EXTENDS MarketProgram

MCProbabilities == {<<50, 50, 0>>, <<20, 80, 0>>, <<20, 20, 20>>}
MCWindow == {<<1, 2>>, <<2, 2>>}
=============================================================================
