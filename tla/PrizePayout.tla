---------------------------- MODULE PrizePayout ----------------------------
(***************************************************************************)
(* What the prize claim of ExoDuZe promises, without saying how: the prize *)
(* of a winner is open until a claim reserves it, a reservation is either  *)
(* given back or turned into one payment, and a paid prize stays paid.     *)
(* A reservation may also be held for ever (the server that held it        *)
(* crashed): that prize is then never paid, and never paid twice.          *)
(*                                                                         *)
(* PrizeClaim (pool.service.ts, claimPrize) implements this specification  *)
(* when the answer of sendAndConfirmTransaction can be trusted.            *)
(***************************************************************************)
CONSTANTS
    Winner,     \* rows of pool_winners
    Receipt,    \* identities of payments
    Payee       \* Payee[w]: the wallets the prize of w may be sent to

VARIABLES
    status,     \* status[w]: "open", "reserved" or "paid"
    receipts    \* payments made: [winner, wallet, id]

vars == <<status, receipts>>

Payment == [winner : Winner, wallet : UNION {Payee[w] : w \in Winner}, id : Receipt]

TypeOK ==
    /\ status \in [Winner -> {"open", "reserved", "paid"}]
    /\ receipts \subseteq Payment

Init ==
    /\ status = [w \in Winner |-> "open"]
    /\ receipts = {}

Reserve(w) ==
    /\ status[w] = "open"
    /\ status' = [status EXCEPT ![w] = "reserved"]
    /\ UNCHANGED receipts

GiveBack(w) ==
    /\ status[w] = "reserved"
    /\ status' = [status EXCEPT ![w] = "open"]
    /\ UNCHANGED receipts

Pay(w) ==
    /\ status[w] = "reserved"
    /\ status' = [status EXCEPT ![w] = "paid"]
    /\ \E a \in Payee[w], i \in Receipt :
          receipts' = receipts \union {[winner |-> w, wallet |-> a, id |-> i]}

Next == \E w \in Winner : Reserve(w) \/ GiveBack(w) \/ Pay(w)

Spec == Init /\ [][Next]_vars
=============================================================================
