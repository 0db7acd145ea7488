----------------------------- MODULE MCPoolLocks -----------------------------
(***************************************************************************)
(* A small instance of PoolLocks for TLC: the stakes of two users and two  *)
(* agents in one competition, three statements at a time. Users, agents    *)
(* and connections are interchangeable.                                    *)
(***************************************************************************)
EXTENDS PoolLocks, TLC

Symmetry == Permutations(User) \union Permutations(Agent)
              \union Permutations(Transaction)
=============================================================================
