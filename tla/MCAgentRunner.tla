---------------------------- MODULE MCAgentRunner ----------------------------
(***************************************************************************)
(* A small instance of AgentRunner for TLC: one agent with a stake in one  *)
(* competition, and a second wager on it, which updates the stake or, when *)
(* the update is refused, deletes and inserts it.                          *)
(***************************************************************************)
EXTENDS AgentRunner

CONSTANTS a1, c1, w1

MCBet == [w \in Wager |-> <<a1, c1>>]
MCOwner == [a \in Agent |-> "user"]
MCDeployed == {<<a1, c1>>}
=============================================================================
