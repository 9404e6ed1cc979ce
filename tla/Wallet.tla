------------------------------- MODULE Wallet -------------------------------
(***************************************************************************)
(* The wallet of one user: db/wallet.py, wallet_credit and wallet_debit.   *)
(*                                                                         *)
(* A call writes three documents one after the other and Mongo makes only  *)
(* each single write atomic: it inserts a pending wallet_transactions      *)
(* document under a unique key, increments wallets.balance, and marks the  *)
(* document ok.  Every await is a point where another call, of the bot     *)
(* process or of an API request, may run, and where the call may die.      *)
(*                                                                         *)
(* A key determines the type and the amount of its operation: the callers  *)
(* build it from the receipt, the user or a fresh token that the operation *)
(* is about.  Wallets of different users share no document.                *)
(***************************************************************************)
EXTENDS Integers, FiniteSets, FiniteSetsExt

CONSTANTS
    Procs,          \* the concurrent callers: API requests, bot handlers, jobs
    Keys,           \* idempotency keys (reference_type, reference_id)
    TypeOf,         \* TypeOf[k]: the tx type the caller of k passes
    Amount,         \* Amount[k]: the amount in toman
    OwnerKeys,      \* the keys whose actor is WALLET_OWNER_ID
    DailyLimit,     \* WALLET_DAILY_LIMIT
    LargeThreshold  \* WALLET_LARGE_THRESHOLD

CreditTypes == {"refund_credit", "admin_credit", "reversal",
                "topup_credit", "referral_credit"}
DebitTypes  == {"subscription_purchase", "admin_debit"}
AdminTypes  == {"admin_credit", "admin_debit"}

ASSUME WalletAssumption ==
    /\ Keys # {}
    /\ TypeOf \in [Keys -> CreditTypes \cup DebitTypes]
    /\ Amount \in [Keys -> Nat \ {0}]
    /\ OwnerKeys \subseteq Keys
    /\ DailyLimit \in Nat
    /\ LargeThreshold \in Nat

VARIABLES
    balance,    \* wallets.balance
    hasWallet,  \* the wallets document exists
    tx,         \* tx[k]: status of the wallet_transactions document of k
    pc,         \* pc[p]: the next database call of p
    cur,        \* cur[p]: the key p works on
    delta,      \* delta[p]: the signed amount p applies to the balance
    ret,        \* ret[p]: how p's last call ended, and for which key
    effects     \* effects[k]: how often k's amount reached the balance (history)

walletVars == <<balance, hasWallet, tx, pc, cur, delta, ret, effects>>

TxStatus == {"none", "pending", "ok", "failed"}
Steps    == {"idle", "cap", "insert", "provision", "apply", "fail", "mark"}
Outcomes == {"none", "ok", "replay", "insufficient", "refused"}

-----------------------------------------------------------------------------
(* The amount the called function applies: wallet_credit adds, wallet_debit *)
(* subtracts.                                                              *)
CallDelta(k) == IF TypeOf[k] \in DebitTypes THEN -Amount[k] ELSE Amount[k]

(* The direction the transaction document records: `referral_credit` is not *)
(* in the tuple of credit types of _wallet_tx_insert_pending.              *)
Direction(k) ==
    IF TypeOf[k] \in {"refund_credit", "admin_credit", "reversal", "topup_credit"}
    THEN "credit" ELSE "debit"

RecordedDelta(k) == IF Direction(k) = "credit" THEN Amount[k] ELSE -Amount[k]

OkKeys      == {k \in Keys : tx[k] = "ok"}
PendingKeys == {k \in Keys : tx[k] = "pending"}

(* _wallet_ok_ledger_sum, and _wallet_daily_toman_sum within one day.      *)
LedgerSum == MapThenSumSet(RecordedDelta, OkKeys)
DailySum  == MapThenSumSet(LAMBDA k : Amount[k], OkKeys)

NeedsOwnerApproval(k) ==
    /\ TypeOf[k] \in AdminTypes
    /\ Amount[k] > LargeThreshold
    /\ k \notin OwnerKeys

-----------------------------------------------------------------------------
AnyKey == CHOOSE k \in Keys : TRUE

Init ==
    /\ balance = 0
    /\ hasWallet = FALSE
    /\ tx = [k \in Keys |-> "none"]
    /\ pc = [p \in Procs |-> "idle"]
    /\ cur = [p \in Procs |-> AnyKey]
    /\ delta = [p \in Procs |-> 0]
    /\ ret = [p \in Procs |-> "none"]
    /\ effects = [k \in Keys |-> 0]

Goto(p, step)   == pc' = [pc EXCEPT ![p] = step]
Return(p, outcome) == Goto(p, "idle") /\ ret' = [ret EXCEPT ![p] = outcome]

(* p calls wallet_credit or wallet_debit for key k.                        *)
Begin(p, k) ==
    /\ pc[p] = "idle"
    /\ cur' = [cur EXCEPT ![p] = k]
    /\ delta' = [delta EXCEPT ![p] = CallDelta(k)]
    /\ IF NeedsOwnerApproval(k)
       THEN Return(p, "refused")
       ELSE /\ Goto(p, IF TypeOf[k] \in AdminTypes THEN "cap" ELSE "insert")
            /\ ret' = [ret EXCEPT ![p] = "none"]
    /\ UNCHANGED <<balance, hasWallet, tx, effects>>

(* The daily cap of manual adjustments; when the sum cannot be read the    *)
(* call is refused as well (fail closed).                                  *)
CheckCap(p) ==
    /\ pc[p] = "cap"
    /\ \/ /\ DailySum + Amount[cur[p]] <= DailyLimit
          /\ Goto(p, "insert")
          /\ UNCHANGED ret
       \/ Return(p, "refused")
    /\ UNCHANGED <<balance, hasWallet, tx, cur, delta, effects>>

(* Mutants: no unique index on the key; an insert that is born ok; one with *)
(* an unknown status; and a replay that is reported as ok.                 *)
InsertAs(p, status) ==
    /\ pc[p] = "insert"
    /\ IF tx[cur[p]] = "none"
       THEN tx' = [tx EXCEPT ![cur[p]] = status] /\ Goto(p, "provision") /\ UNCHANGED ret
       ELSE Return(p, "replay") /\ UNCHANGED tx
    /\ UNCHANGED <<balance, hasWallet, cur, delta, effects>>
InsertWithoutIndex(p) ==
    /\ pc[p] = "insert"
    /\ tx' = [tx EXCEPT ![cur[p]] = "pending"]
    /\ Goto(p, "provision")
    /\ UNCHANGED <<balance, hasWallet, cur, delta, ret, effects>>
InsertBornOk(p) == InsertAs(p, "ok")
InsertMistyped(p) == InsertAs(p, "processing")
InsertReplayIsOk(p) ==
    /\ pc[p] = "insert"
    /\ IF tx[cur[p]] = "none"
       THEN tx' = [tx EXCEPT ![cur[p]] = "pending"] /\ Goto(p, "provision") /\ UNCHANGED ret
       ELSE Return(p, "ok") /\ UNCHANGED tx
    /\ UNCHANGED <<balance, hasWallet, cur, delta, effects>>

(* _wallet_tx_insert_pending: the unique index lets one insert win; a call  *)
(* that finds the key taken returns the existing document, whatever its    *)
(* status, as its own result.                                              *)
Insert(p) ==
    /\ pc[p] = "insert"
    /\ IF tx[cur[p]] = "none"
       THEN /\ tx' = [tx EXCEPT ![cur[p]] = "pending"]
            /\ Goto(p, "provision")
            /\ UNCHANGED ret
       ELSE /\ Return(p, "replay")
            /\ UNCHANGED tx
    /\ UNCHANGED <<balance, hasWallet, cur, delta, effects>>

(* wallet_get_or_create: find, insert, and find again on a duplicate key.  *)
Provision(p) ==
    /\ pc[p] = "provision"
    /\ hasWallet' = TRUE
    /\ Goto(p, "apply")
    /\ UNCHANGED <<balance, tx, cur, delta, ret, effects>>

(* Mutant: the $inc of a debit without its condition on the balance.       *)
ApplyUnguarded(p) ==
    /\ pc[p] = "apply"
    /\ balance' = balance + delta[p]
    /\ effects' = [effects EXCEPT ![cur[p]] = @ + 1]
    /\ Goto(p, "mark")
    /\ UNCHANGED <<hasWallet, tx, cur, delta, ret>>

(* _wallet_apply, first write: the conditional $inc of the balance.        *)
Apply(p) ==
    /\ pc[p] = "apply"
    /\ IF delta[p] < 0 /\ balance < -delta[p]
       THEN /\ Goto(p, "fail")
            /\ UNCHANGED <<balance, effects>>
       ELSE /\ balance' = balance + delta[p]
            /\ effects' = [effects EXCEPT ![cur[p]] = @ + 1]
            /\ Goto(p, "mark")
    /\ UNCHANGED <<hasWallet, tx, cur, delta, ret>>

(* A status update filtered on the pending status.                         *)
Settle(k, status) ==
    tx' = [tx EXCEPT ![k] = IF @ = "pending" THEN status ELSE @]

(* _wallet_apply, when the debit's condition failed.                       *)
Fail(p) ==
    /\ pc[p] = "fail"
    /\ Settle(cur[p], "failed")
    /\ Return(p, "insufficient")
    /\ UNCHANGED <<balance, hasWallet, cur, delta, effects>>

(* _wallet_apply, last write; the caller gets ok even if it did not match. *)
Mark(p) ==
    /\ pc[p] = "mark"
    /\ Settle(cur[p], "ok")
    /\ Return(p, "ok")
    /\ UNCHANGED <<balance, hasWallet, cur, delta, effects>>

(* The process dies, or a database call raises, between two writes.        *)
Crash(p) ==
    /\ pc[p] # "idle"
    /\ Return(p, "none")
    /\ UNCHANGED <<balance, hasWallet, tx, cur, delta, effects>>

Work(p) ==
    \/ CheckCap(p) \/ Insert(p) \/ Provision(p)
    \/ Apply(p) \/ Fail(p) \/ Mark(p)

Step(p) == Work(p) \/ Crash(p)

Next == \E p \in Procs : Step(p) \/ \E k \in Keys : Begin(p, k)

Spec == Init /\ [][Next]_walletVars

-----------------------------------------------------------------------------
TypeOK ==
    /\ balance \in Int
    /\ hasWallet \in BOOLEAN
    /\ tx \in [Keys -> TxStatus]
    /\ pc \in [Procs -> Steps]
    /\ cur \in [Procs -> Keys]
    /\ delta \in [Procs -> Int]
    /\ ret \in [Procs -> Outcomes]
    /\ effects \in [Keys -> Nat]

(* A debit never takes more than there is, however many callers race.      *)
NonNegative == balance >= 0

(* Retries and crashes never move the money of a key twice.                *)
OneEffect == \A k \in Keys : effects[k] <= 1

(* The status of a settled document tells whether its money moved; only a  *)
(* pending one leaves it open.                                             *)
StatusTellsEffect ==
    \A k \in Keys :
        /\ tx[k] = "ok" => effects[k] = 1
        /\ tx[k] \in {"none", "failed"} => effects[k] = 0

(* A call that ends with ok has moved its money exactly once.              *)
AcknowledgedIsApplied ==
    \A p \in Procs : ret[p] = "ok" => tx[cur[p]] = "ok" /\ effects[cur[p]] = 1

(* The reconciliation criterion of wallet_reconcile_items: with nothing    *)
(* pending, the cached balance equals the sum of the ok transactions.      *)
BalanceMatchesLedger == PendingKeys = {} => balance = LedgerSum

(* The manual adjustments of one day stay within the daily limit.          *)
AdminCapRespected ==
    MapThenSumSet(LAMBDA k : Amount[k], {k \in OkKeys : TypeOf[k] \in AdminTypes})
        <= DailyLimit

(* The ledger is append-only: a settled transaction never changes again.   *)
SettledForGood ==
    [][\A k \in Keys : tx[k] \in {"ok", "failed"} => tx'[k] = tx[k]]_walletVars

-----------------------------------------------------------------------------
Promise == INSTANCE Ledger WITH
    DeltaOf <- CallDelta,
    bal     <- balance,
    done    <- {k \in Keys : effects[k] > 0}

(* The stepwise protocol implements the atomic ledger.                     *)
ImplementsLedger == Promise!LedgerSpec
=============================================================================
