----------------------------- MODULE PrizeClaim -----------------------------
(***************************************************************************)
(* PoolService.claimPrize: a winner pulls the prize of a settled pool.     *)
(* A request runs the layers of the handler one await at a time, so that   *)
(* requests for the same or for different winners interleave, on one or on *)
(* several API servers; every server keeps its own in-memory claimLocks.   *)
(* The Solana ledger settles a transaction on its own, whatever the server *)
(* that sent it believes.                                                  *)
(*                                                                         *)
(* Faults the environment may inject (constant Faults):                    *)
(*   "crash"  a server loses its memory and its running requests;          *)
(*   "db"     a Supabase call fails, or applies and loses its answer (the  *)
(*            client returns {error}, it never throws);                    *)
(*   "rpc"    sendAndConfirmTransaction throws although the transaction    *)
(*            has landed or still may land.                                *)
(***************************************************************************)
EXTENDS Naturals, FiniteSetsExt

CONSTANTS
    Winner, Wallet, Request, Server,
    Pool,           \* competition pools that exist
    ZeroPool,       \* the id 0000... that failed claims are logged under
    PoolOf,         \* PoolOf[w]: the pool of winner w
    Prize,          \* Prize[w]: prize_amount of w
    Linked,         \* Linked[w]: wallets verifyWalletOwnership accepts for w
    Resolved,       \* Resolved[w]: wallet the settlement stored, or NoWallet
    NoWallet,
    DailyLimit,     \* SOLANA_DAILY_WITHDRAW_LIMIT
    SafetyCap,      \* largest prize paid automatically
    Faults

ASSUME ConstantsAssumption ==
    /\ PoolOf \in [Winner -> Pool]
    /\ ZeroPool \notin Pool
    /\ Prize \in [Winner -> Nat]
    /\ Linked \in [Winner -> SUBSET Wallet]
    /\ NoWallet \notin Wallet
    /\ Resolved \in [Winner -> Wallet \union {NoWallet}]
    /\ DailyLimit \in Nat
    /\ SafetyCap \in Nat
    /\ Faults \subseteq {"crash", "db", "rpc"}

MAX_RETRIES == 2

VARIABLES
    row,            \* row[w]: the claim columns of w in pool_winners
    claimLocks,     \* claimLocks[s]: winners locked in the memory of server s
    pc,             \* pc[r]: the await request r stands at
    job,            \* job[r]: winner asked for, requesting wallet, server
    seenWallet,     \* seenWallet[r]: winner_wallet as request r read it
    attempt,        \* attempt[r]: transfers request r has sent
    tx,             \* tx[r][n]: the n-th transfer of r on the ledger
    confirmed,      \* requests whose transfer was confirmed to the server
    disburseTxs,    \* disburseTxs[p]: winners in onchain_disburse_txs of p
    txsRead,        \* txsRead[r]: the copy of it request r has read
    audit           \* rows of pool_settlement_audit: [event, req]

dbVars == <<row, disburseTxs, audit>>
vars == <<row, claimLocks, pc, job, seenWallet, attempt, tx, confirmed,
          disburseTxs, txsRead, audit>>

Label == {"idle", "fetch", "validate", "limit", "lock", "send", "confirm",
          "rollback", "record", "audit", "read_txs", "write_txs", "exit", "done"}

Attempt == 1 .. MAX_RETRIES

Row == [claimed : BOOLEAN, fresh : BOOLEAN,
        disburse_tx : {"null", "claiming_onchain", "signature"},
        winner_wallet : Wallet \union {NoWallet}]

Job == [winner : Winner, wallet : Wallet, server : Server]

AuditRow == [event : {"prize_claimed", "claim_attempt_failed"}, req : Request]

TxState == {"unsent", "pending", "landed", "dropped"}

TypeOK ==
    /\ row \in [Winner -> Row]
    /\ claimLocks \in [Server -> SUBSET Winner]
    /\ pc \in [Request -> Label]
    /\ job \in [Request -> Job]
    /\ seenWallet \in [Request -> Wallet \union {NoWallet}]
    /\ attempt \in [Request -> 0 .. MAX_RETRIES]
    /\ tx \in [Request -> [Attempt -> TxState]]
    /\ confirmed \subseteq Request
    /\ disburseTxs \in [Pool -> SUBSET Winner]
    /\ txsRead \in [Request -> SUBSET Winner]
    /\ audit \subseteq AuditRow

UnclaimedRow(w) ==
    [claimed |-> FALSE, fresh |-> FALSE, disburse_tx |-> "null",
     winner_wallet |-> Resolved[w]]

\* Settlement has inserted the winners; what each request will ask for is
\* chosen here and never changes.
Init ==
    /\ row = [w \in Winner |-> UnclaimedRow(w)]
    /\ claimLocks = [s \in Server |-> {}]
    /\ pc = [r \in Request |-> "idle"]
    /\ job \in [Request -> Job]
    /\ seenWallet = [r \in Request |-> NoWallet]
    /\ attempt = [r \in Request |-> 0]
    /\ tx = [r \in Request |-> [n \in Attempt |-> "unsent"]]
    /\ confirmed = {}
    /\ disburseTxs = [p \in Pool |-> {}]
    /\ txsRead = [r \in Request |-> {}]
    /\ audit = {}

-----------------------------------------------------------------------------
\* Helpers

W(r) == job[r].winner

Goto(r, l) == pc' = [pc EXCEPT ![r] = l]

\* The fate of the n-th transfer of r on the cluster becomes v.
SetTx(r, n, v) == tx' = [tx EXCEPT ![r][n] = v]

\* INSERT INTO pool_settlement_audit: pool_id is a NOT NULL foreign key to
\* competition_pools, so the row of an unknown pool is refused; the client
\* returns the error and the handler does not look at it.
InsertAudit(p, e) ==
    audit' = IF p \in Pool THEN audit \union {e} ELSE audit

LogClaimAttempt(r) ==
    InsertAudit(ZeroPool, [event |-> "claim_attempt_failed", req |-> r])

\* Mutant: a rejection that returns without the finally clause.
RejectWithoutFinally(r) == Goto(r, "done") /\ LogClaimAttempt(r)

\* Every rejection after the in-memory lock: log, throw, then finally.
Reject(r) == Goto(r, "exit") /\ LogClaimAttempt(r)

\* Prizes claimed in the last 24 hours, as the velocity query sums them.
RecentlyClaimed == {w \in Winner : row[w].claimed /\ row[w].fresh}
RecentTotal == MapThenSumSet(LAMBDA w : Prize[w], RecentlyClaimed)

\* winner_wallet of the stale snapshot, or the ownership tables
IsOwner(r) == job[r].wallet = seenWallet[r] \/ job[r].wallet \in Linked[W(r)]

ValidPrize(w) == 0 < Prize[w] /\ Prize[w] <= SafetyCap

LockedRow(r) ==
    [claimed |-> TRUE, fresh |-> TRUE, disburse_tx |-> "claiming_onchain",
     winner_wallet |-> job[r].wallet]

\* Mutant: the rollback leaves a marker instead of NULL.
MarkedRow ==
    [claimed |-> FALSE, fresh |-> FALSE, disburse_tx |-> "rolled_back",
     winner_wallet |-> NoWallet]

RolledBackRow ==
    [claimed |-> FALSE, fresh |-> FALSE, disburse_tx |-> "null",
     winner_wallet |-> NoWallet]

-----------------------------------------------------------------------------
\* The layers of claimPrize

\* Layer 1: the throw for a held lock comes before the try block, so the
\* finally clause does not run and the holder keeps its lock.
Enter(r) ==
    LET s == job[r].server IN
    /\ pc[r] = "idle"
    /\ \/ /\ W(r) \in claimLocks[s]
          /\ Goto(r, "done")
          /\ UNCHANGED claimLocks
       \/ /\ W(r) \notin claimLocks[s]
          /\ claimLocks' = [claimLocks EXCEPT ![s] = @ \union {W(r)}]
          /\ Goto(r, "fetch")
    /\ UNCHANGED <<job, seenWallet, attempt, tx, confirmed, txsRead, dbVars>>

\* Layers 2 and 3
FetchWinner(r) ==
    /\ pc[r] = "fetch"
    /\ \/ /\ ~row[W(r)].claimed
          /\ seenWallet' = [seenWallet EXCEPT ![r] = row[W(r)].winner_wallet]
          /\ Goto(r, "validate")
          /\ UNCHANGED audit
       \/ /\ row[W(r)].claimed \/ "db" \in Faults
          /\ Reject(r)
          /\ UNCHANGED seenWallet
    /\ UNCHANGED <<row, claimLocks, job, attempt, tx, confirmed, disburseTxs, txsRead>>

\* Mutant: the ownership layer is skipped.
ValidateAnyWallet(r) ==
    /\ pc[r] = "validate"
    /\ ValidPrize(W(r))
    /\ Goto(r, "limit")
    /\ UNCHANGED <<row, claimLocks, job, seenWallet, attempt, tx, confirmed,
                   disburseTxs, txsRead, audit>>

\* Layers 4, 5 and 6: the pool is settled (its winners exist), so only a
\* failed read rejects there; ownership and amount are checked on the
\* snapshot.
Validate(r) ==
    /\ pc[r] = "validate"
    /\ \/ /\ IsOwner(r) /\ ValidPrize(W(r))
          /\ Goto(r, "limit")
          /\ UNCHANGED audit
       \/ /\ ~IsOwner(r) \/ ~ValidPrize(W(r)) \/ "db" \in Faults
          /\ Reject(r)
    /\ UNCHANGED <<row, claimLocks, job, seenWallet, attempt, tx, confirmed,
                   disburseTxs, txsRead>>

\* Layer 6.5: a failed query skips the check.
CheckDailyLimit(r) ==
    /\ pc[r] = "limit"
    /\ \/ /\ RecentTotal + Prize[W(r)] <= DailyLimit \/ "db" \in Faults
          /\ Goto(r, "lock")
          /\ UNCHANGED audit
       \/ /\ RecentTotal + Prize[W(r)] > DailyLimit
          /\ Reject(r)
    /\ UNCHANGED <<row, claimLocks, job, seenWallet, attempt, tx, confirmed,
                   disburseTxs, txsRead>>

\* Mutant: layer 7 without AND claimed = false, trusting layer 3.
LockRowByIdOnly(r) ==
    /\ pc[r] = "lock"
    /\ row' = [row EXCEPT ![W(r)] = LockedRow(r)]
    /\ Goto(r, "send")
    /\ UNCHANGED <<claimLocks, job, seenWallet, attempt, tx, confirmed,
                   disburseTxs, txsRead, audit>>

\* Layer 7: UPDATE ... WHERE id = w AND claimed = false
LockRow(r) ==
    /\ pc[r] = "lock"
    /\ \/ /\ ~row[W(r)].claimed
          /\ row' = [row EXCEPT ![W(r)] = LockedRow(r)]
          /\ \/ Goto(r, "send") /\ UNCHANGED audit
             \/ "db" \in Faults /\ Reject(r)     \* applied, answer lost
       \/ /\ row[W(r)].claimed \/ "db" \in Faults
          /\ Reject(r)
          /\ UNCHANGED row
    /\ UNCHANGED <<claimLocks, job, seenWallet, attempt, tx, confirmed,
                   disburseTxs, txsRead>>

\* Layer 8, sendPrizeTransfer: the key and the balance are checked before
\* the first attempt only; each attempt builds and sends a new transaction.
SendTransfer(r) ==
    LET n == attempt[r] + 1 IN
    /\ pc[r] = "send"
    /\ \/ /\ attempt[r] = 0                     \* pre-flight fails
          /\ Goto(r, "rollback")
          /\ UNCHANGED <<attempt, tx>>
       \/ /\ n \in Attempt
          /\ attempt' = [attempt EXCEPT ![r] = n]
          /\ SetTx(r, n, "pending")
          /\ Goto(r, "confirm")
    /\ UNCHANGED <<claimLocks, job, seenWallet, confirmed, txsRead, dbVars>>

ConfirmTransfer(r) ==
    /\ pc[r] = "confirm"
    /\ tx[r][attempt[r]] = "landed"
    /\ confirmed' = confirmed \union {r}
    /\ Goto(r, "record")
    /\ UNCHANGED <<claimLocks, job, seenWallet, attempt, tx, txsRead, dbVars>>

\* Mutant: a transaction still pending is retried as if it had failed.
RetryPendingTransfer(r) ==
    /\ pc[r] = "confirm"
    /\ tx[r][attempt[r]] # "landed"
    /\ Goto(r, IF attempt[r] < MAX_RETRIES THEN "send" ELSE "rollback")
    /\ UNCHANGED <<claimLocks, job, seenWallet, attempt, tx, confirmed, txsRead, dbVars>>

\* Mutant: after the last attempt the transfer is taken for sent.
AssumeSent(r) ==
    /\ pc[r] = "confirm"
    /\ tx[r][attempt[r]] = "dropped" \/ "rpc" \in Faults
    /\ Goto(r, IF attempt[r] < MAX_RETRIES THEN "send" ELSE "record")
    /\ UNCHANGED <<claimLocks, job, seenWallet, attempt, tx, confirmed, txsRead, dbVars>>

\* sendAndConfirmTransaction throws: the transaction was dropped, or, with
\* rpc faults, its fate is unknown. The second failure returns null.
FailTransfer(r) ==
    /\ pc[r] = "confirm"
    /\ tx[r][attempt[r]] = "dropped" \/ "rpc" \in Faults
    /\ Goto(r, IF attempt[r] < MAX_RETRIES THEN "send" ELSE "rollback")
    /\ UNCHANGED <<claimLocks, job, seenWallet, attempt, tx, confirmed, txsRead, dbVars>>

\* UPDATE ... WHERE id = w: unconditional, and winner_wallet becomes null
Rollback(r) ==
    /\ pc[r] = "rollback"
    /\ \/ row' = [row EXCEPT ![W(r)] = RolledBackRow]
       \/ "db" \in Faults /\ UNCHANGED row
    /\ Reject(r)
    /\ UNCHANGED <<claimLocks, job, seenWallet, attempt, tx, confirmed,
                   disburseTxs, txsRead>>

\* Layer 9
RecordSignature(r) ==
    /\ pc[r] = "record"
    /\ \/ row' = [row EXCEPT ![W(r)].disburse_tx = "signature"]
       \/ "db" \in Faults /\ UNCHANGED row
    /\ Goto(r, "audit")
    /\ UNCHANGED <<claimLocks, job, seenWallet, attempt, tx, confirmed,
                   disburseTxs, txsRead, audit>>

\* Layer 10
AuditClaim(r) ==
    /\ pc[r] = "audit"
    /\ \/ InsertAudit(PoolOf[W(r)], [event |-> "prize_claimed", req |-> r])
       \/ "db" \in Faults /\ UNCHANGED audit
    /\ Goto(r, "read_txs")
    /\ UNCHANGED <<row, claimLocks, job, seenWallet, attempt, tx, confirmed,
                   disburseTxs, txsRead>>

\* Layer 11: read, append in memory, write back. A failed read counts as [].
ReadDisburseTxs(r) ==
    /\ pc[r] = "read_txs"
    /\ \/ txsRead' = [txsRead EXCEPT ![r] = disburseTxs[PoolOf[W(r)]]]
       \/ "db" \in Faults /\ txsRead' = [txsRead EXCEPT ![r] = {}]
    /\ Goto(r, "write_txs")
    /\ UNCHANGED <<claimLocks, job, seenWallet, attempt, tx, confirmed, dbVars>>

WriteDisburseTxs(r) ==
    /\ pc[r] = "write_txs"
    /\ \/ disburseTxs' = [disburseTxs EXCEPT ![PoolOf[W(r)]] = txsRead[r] \union {W(r)}]
       \/ "db" \in Faults /\ UNCHANGED disburseTxs
    /\ Goto(r, "exit")
    /\ UNCHANGED <<row, claimLocks, job, seenWallet, attempt, tx, confirmed,
                   txsRead, audit>>

\* The finally clause
ReleaseLock(r) ==
    /\ pc[r] = "exit"
    /\ claimLocks' = [claimLocks EXCEPT ![job[r].server] = @ \ {W(r)}]
    /\ Goto(r, "done")
    /\ UNCHANGED <<job, seenWallet, attempt, tx, confirmed, txsRead, dbVars>>

-----------------------------------------------------------------------------
\* The ledger, the clock and crashes

Land(r, n) ==
    /\ tx[r][n] = "pending"
    /\ SetTx(r, n, "landed")
    /\ UNCHANGED <<claimLocks, pc, job, seenWallet, attempt, confirmed, txsRead, dbVars>>

\* The blockhash expires, or the transfer fails on chain.
Drop(r, n) ==
    /\ tx[r][n] = "pending"
    /\ SetTx(r, n, "dropped")
    /\ UNCHANGED <<claimLocks, pc, job, seenWallet, attempt, confirmed, txsRead, dbVars>>

\* 24 hours pass since claimed_at.
AgeOut(w) ==
    /\ row[w].fresh
    /\ row' = [row EXCEPT ![w].fresh = FALSE]
    /\ UNCHANGED <<claimLocks, pc, job, seenWallet, attempt, tx, confirmed,
                   disburseTxs, txsRead, audit>>

Running(s) == {r \in Request : job[r].server = s /\ pc[r] \notin {"idle", "done"}}

\* Mutant: a restart reopens every row left in claiming_onchain.
CrashAndSweep(s) ==
    /\ "crash" \in Faults
    /\ Running(s) # {}
    /\ pc' = [r \in Request |-> IF r \in Running(s) THEN "done" ELSE pc[r]]
    /\ claimLocks' = [claimLocks EXCEPT ![s] = {}]
    /\ row' = [w \in Winner |-> IF row[w].disburse_tx = "claiming_onchain"
                                THEN RolledBackRow ELSE row[w]]
    /\ UNCHANGED <<job, seenWallet, attempt, tx, confirmed, disburseTxs, txsRead, audit>>

Crash(s) ==
    /\ "crash" \in Faults
    /\ Running(s) # {}
    /\ pc' = [r \in Request |-> IF r \in Running(s) THEN "done" ELSE pc[r]]
    /\ claimLocks' = [claimLocks EXCEPT ![s] = {}]
    /\ UNCHANGED <<job, seenWallet, attempt, tx, confirmed, txsRead, dbVars>>

ClaimStep(r) ==
    \/ Enter(r) \/ FetchWinner(r) \/ Validate(r) \/ CheckDailyLimit(r)
    \/ LockRow(r) \/ SendTransfer(r) \/ ConfirmTransfer(r) \/ FailTransfer(r)
    \/ Rollback(r) \/ RecordSignature(r) \/ AuditClaim(r)
    \/ ReadDisburseTxs(r) \/ WriteDisburseTxs(r) \/ ReleaseLock(r)

Settle(r, n) == Land(r, n) \/ Drop(r, n)

Next ==
    \/ \E r \in Request : ClaimStep(r)
    \/ \E r \in Request, n \in Attempt : Settle(r, n)
    \/ \E w \in Winner : AgeOut(w)
    \/ \E s \in Server : Crash(s)

Spec == Init /\ [][Next]_vars

\* A request that was accepted runs on (the event loop resumes it when its
\* await answers) and the ledger decides every transaction within the life
\* of its blockhash. Nobody is obliged to send a request, or to crash.
Fairness ==
    /\ \A r \in Request : WF_vars(pc[r] # "idle" /\ ClaimStep(r))
    /\ \A r \in Request, n \in Attempt : WF_vars(Settle(r, n))

FairSpec == Spec /\ Fairness

-----------------------------------------------------------------------------
\* Properties

\* Requests between the row lock and the recorded signature.
Holding(r) == pc[r] \in {"send", "confirm", "rollback", "record"}

\* At most one request at a time drives a transfer for a winner, on whatever
\* server it runs, and the row shows that request's lock and wallet: the
\* conditional update of layer 7 and the unconditional rollback after it
\* never act on somebody else's claim.
ExclusiveClaim ==
    \A r \in Request : Holding(r) =>
        /\ row[W(r)].claimed
        /\ row[W(r)].winner_wallet = job[r].wallet
        /\ \A q \in Request : Holding(q) /\ W(q) = W(r) => q = r

\* A prize whose transfer was confirmed to a server stays claimed whatever
\* fails afterwards (the signature update, the audit, a crash), and no other
\* request is ever confirmed for it.
ConfirmedClaimIsFinal ==
    \A r \in confirmed :
        /\ row[W(r)].claimed
        /\ \A q \in confirmed : W(q) = W(r) => q = r

Transfer == Request \X Attempt

LandedTransfers ==
    {[winner |-> W(t[1]), wallet |-> job[t[1]].wallet, id |-> t] :
        t \in {u \in Transfer : tx[u[1]][u[2]] = "landed"}}

\* The ledger never carries two payments of one prize: the row is locked
\* before the transfer "to guard against network hiccups, double-claim
\* attempts, and crash scenarios".
AtMostOnePayment ==
    \A t, u \in LandedTransfers : t.winner = u.winner => t = u

\* What is written about a claim is true: onchain_disburse_txs names only
\* winners whose transfer was confirmed, and the audit table says
\* "prize_claimed" only of such requests (and nothing of a failed one: the
\* rows of logClaimAttempt are refused).
RecordsTruthful ==
    /\ \A w \in UNION {disburseTxs[p] : p \in Pool} : \E r \in confirmed : W(r) = w
    /\ \A e \in audit : e.event = "prize_claimed" /\ e.req \in confirmed

\* A held in-memory lock is eventually released, whichever layer rejects.
LocksReleased ==
    \A s \in Server, w \in Winner :
        w \in claimLocks[s] ~> w \notin claimLocks[s]

\* The promise this handler implements.
PayoutStatus ==
    [w \in Winner |->
        IF \E t \in LandedTransfers : t.winner = w THEN "paid"
        ELSE IF row[w].claimed THEN "reserved" ELSE "open"]

Payout == INSTANCE PrizePayout WITH
    Winner <- Winner,
    Receipt <- Transfer,
    Payee <- [w \in Winner |-> Linked[w] \union {Resolved[w]}],
    status <- PayoutStatus,
    receipts <- LandedTransfers

\* claimPrize implements PrizePayout: reserve before paying, pay at most
\* once and only to a wallet of the winner, give back only what was not paid.
ImplementsPayout == Payout!Spec
=============================================================================
