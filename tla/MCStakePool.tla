----------------------------- MODULE MCStakePool -----------------------------
(***************************************************************************)
(* Small instances of StakePool for TLC: one competition, user u1 with the *)
(* agents a1 and a3, user u2 with a2. Amounts are odd so that prizes round.*)
(***************************************************************************)
EXTENDS StakePool, TLC

CONSTANTS u1, u2, a1, a2, a3, c1, t1, t2, t3

MCOwner == [a \in Agent |-> IF a = a2 THEN u2 ELSE u1]
MCAmount == [t \in Payment |->
    CASE t = t1 -> 403 [] t = t2 -> 811 [] OTHER -> 1227]

Declaring(u, a, t, n) == [op |-> "wager", user |-> u, agent |-> a, comp |-> c1,
                          amount |-> n, tx |-> t]
Wager(u, a, t) == Declaring(u, a, t, MCAmount[t])
AddStake(u, a, n) == [op |-> "stake", user |-> u, agent |-> a, comp |-> c1,
                      amount |-> n, tx |-> NoPayment]
Settle == [op |-> "settle", user |-> u1, agent |-> a1, comp |-> c1,
           amount |-> 0, tx |-> NoPayment]
Delete(u, a) == [op |-> "delete", user |-> u, agent |-> a, comp |-> c1,
                 amount |-> 0, tx |-> NoPayment]

\* Two users, a second agent of u1, a wager declared five units above its
\* payment, an unpaid stake, settlements and the deletion of an agent. Users
\* stake on their own agents.
Calls ==
    {Wager(u1, a1, t1), Declaring(u2, a2, t2, MCAmount[t2] + 5), Wager(u1, a3, t3),
     AddStake(u2, a2, 237), Settle, Delete(u1, a1)}

\* Two wagers of a user with two agents
SameUserWagers == {Wager(u1, a1, t1), Wager(u1, a3, t3)}

\* What the theorem on PrizesCovered supposes holds here.
ASSUME Intended == CallsAsIntended /\ MinStake >= 200

RequestSymmetry == Permutations(Request)
=============================================================================
