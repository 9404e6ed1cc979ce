--------------------------- MODULE WalletPurchase ---------------------------
(***************************************************************************)
(* Buying a subscription from the wallet: wallet_purchase in db/wallet.py, *)
(* with discount_consume and finalize_approved_payment of db/finance.py.   *)
(*                                                                         *)
(* One request writes, in this order and with nothing atomic around it:    *)
(* the order document (unique on the client's idempotency key), the debit  *)
(* (a call of Wallet), the discount's reservation and counter, the order's *)
(* status, and the subscription.  The bot passes no idempotency key, so    *)
(* each of its requests has an order of its own; the HTTP API takes the    *)
(* key from the client, which may repeat it: Retry says when.              *)
(***************************************************************************)
EXTENDS Wallet

CONSTANTS
    Orders,    \* sub_payments documents with method = wallet, by idem key
    Coded,     \* the orders that carry the discount code
    DebitKey,  \* DebitKey[o]: ('sub_payment_wallet', o)
    RefundKey, \* RefundKey[o]: ('sub_payment_wallet_discount_fail', o)
    UndoKey,   \* UndoKey[o]: ('sub_payment_wallet_reversal', o)
    MaxUses,   \* max_uses of the code, 0 for unlimited
    PerUser,   \* the code has a per_user_limit
    Retry,     \* "never": an order is requested once
               \* "later": again, but not before the earlier request is over
               \* "any": at any time
    Reliable   \* no request dies on its way

KeysOf(o) == {DebitKey[o], RefundKey[o], UndoKey[o]}
OrderKeys == UNION {KeysOf(o) : o \in Orders}

ASSUME PurchaseAssumption ==
    /\ Orders # {} /\ IsFiniteSet(Orders)
    /\ Coded \subseteq Orders
    /\ DebitKey \in [Orders -> Keys]
    /\ RefundKey \in [Orders -> Keys]
    /\ UndoKey \in [Orders -> Keys]
    /\ \A o \in Orders : DebitKey[o] # RefundKey[o] /\ UndoKey[o] \notin {DebitKey[o], RefundKey[o]}
    /\ \A o, q \in Orders : o # q => KeysOf(o) \cap KeysOf(q) = {}
    /\ \A o \in Orders :
          /\ TypeOf[DebitKey[o]] = "subscription_purchase"
          /\ TypeOf[RefundKey[o]] = "reversal" /\ TypeOf[UndoKey[o]] = "reversal"
          /\ Amount[RefundKey[o]] = Amount[DebitKey[o]]
          /\ Amount[UndoKey[o]] = Amount[DebitKey[o]]
    /\ MaxUses \in Nat
    /\ PerUser \in BOOLEAN /\ Reliable \in BOOLEAN
    /\ Retry \in {"never", "later", "any"}

VARIABLES
    order,       \* order[o]: status of the sub_payments document
    activations, \* activations[o]: periods sub_activate granted for o (history)
    planOpen,    \* the plan exists and its days are positive
    codeOpen,    \* the code is active and has not expired
    used,        \* discount_codes.used_count
    reserved,    \* the user has a discount_uses document for the code
    stage,       \* stage[p]: the next database call of p's request
    cart         \* cart[p]: the order p's request is about

codeVars == <<codeOpen, used, reserved>>
shopVars == <<order, activations, planOpen, codeVars, stage, cart>>
vars == <<walletVars, shopVars>>

OrderStatus == {"none", "wallet_processing", "approved", "rejected"}
Stages == {"idle", "order", "look", "debit", "decline", "reserve", "consume",
           "giveback", "refund", "reject", "approve", "reread", "activate"}

PurchaseInit ==
    /\ Init
    /\ order = [o \in Orders |-> "none"]
    /\ activations = [o \in Orders |-> 0]
    /\ planOpen = TRUE /\ codeOpen = TRUE
    /\ used = 0 /\ reserved = FALSE
    /\ stage = [p \in Procs |-> "idle"]
    /\ cart \in [Procs -> {CHOOSE o \in Orders : TRUE}]

Enter(p, s) == stage' = [stage EXCEPT ![p] = s]
At(p, s)    == stage[p] = s /\ pc[p] = "idle"

HasCapacity == MaxUses = 0 \/ used < MaxUses

Working(o) == \E p \in Procs : stage[p] # "idle" /\ cart[p] = o

MayRequest(o) ==
    CASE Retry = "never" -> order[o] = "none" /\ ~Working(o)
      [] Retry = "later" -> ~Working(o)
      [] OTHER           -> TRUE

-----------------------------------------------------------------------------
(* The plan is for sale and discount_validate accepts the code.            *)
Request(p, o) ==
    /\ At(p, "idle") /\ MayRequest(o)
    /\ planOpen
    /\ o \in Coded => codeOpen /\ HasCapacity /\ (PerUser => ~reserved)
    /\ cart' = [cart EXCEPT ![p] = o]
    /\ Enter(p, "order")
    /\ UNCHANGED <<walletVars, order, activations, planOpen, codeVars>>

(* sub_payment_create_wallet: a key that is taken gives the existing order. *)
CreateOrder(p) ==
    /\ At(p, "order")
    /\ order' = [order EXCEPT ![cart[p]] = IF @ = "none" THEN "wallet_processing" ELSE @]
    /\ Enter(p, "look")
    /\ UNCHANGED <<walletVars, activations, planOpen, codeVars, cart>>

(* Mutant: a completed order is not recognised.                            *)
LookBlind(p) ==
    /\ At(p, "look")
    /\ Enter(p, "debit") /\ Begin(p, DebitKey[cart[p]])
    /\ UNCHANGED <<order, activations, planOpen, codeVars, cart>>

(* A completed order is answered as a replay, any other one is debited.    *)
Look(p) ==
    /\ At(p, "look")
    /\ IF order[cart[p]] = "approved"
       THEN Enter(p, "idle") /\ UNCHANGED walletVars
       ELSE Enter(p, "debit") /\ Begin(p, DebitKey[cart[p]])
    /\ UNCHANGED <<order, activations, planOpen, codeVars, cart>>

(* Mutant: the exception of an insufficient balance is swallowed.          *)
DebitedRegardless(p) ==
    /\ At(p, "debit")
    /\ Enter(p, IF cart[p] \notin Coded THEN "approve" ELSE "reserve")
    /\ UNCHANGED <<walletVars, order, activations, planOpen, codeVars, cart>>

(* wallet_debit has returned a document, new or found, or has raised.      *)
Debited(p) ==
    /\ At(p, "debit")
    /\ Enter(p, IF ret[p] = "insufficient" THEN "decline"
                ELSE IF cart[p] \notin Coded THEN "approve"
                ELSE IF PerUser THEN "reserve" ELSE "consume")
    /\ UNCHANGED <<walletVars, order, activations, planOpen, codeVars, cart>>

(* wallet_credit gives the debited amount back under key k.                *)
PayBack(p, k) == Begin(p, k) /\ Enter(p, "refund")

(* Mutant: a purchase the balance does not cover is compensated as well.   *)
DeclineRefunded(p) ==
    /\ At(p, "decline")
    /\ PayBack(p, UndoKey[cart[p]])
    /\ UNCHANGED <<order, activations, planOpen, codeVars, cart>>

(* The balance does not cover it: an order still in process is rejected.   *)
Decline(p) ==
    /\ At(p, "decline")
    /\ order' = [order EXCEPT ![cart[p]] = IF @ = "wallet_processing" THEN "rejected" ELSE @]
    /\ Enter(p, "idle")
    /\ UNCHANGED <<walletVars, activations, planOpen, codeVars, cart>>

-----------------------------------------------------------------------------
(* Mutant: the reservation is taken for the whole consumption.             *)
ReserveOnly(p) ==
    /\ At(p, "reserve")
    /\ IF reserved
       THEN PayBack(p, RefundKey[cart[p]])
       ELSE Enter(p, "approve") /\ UNCHANGED walletVars
    /\ reserved' = TRUE
    /\ UNCHANGED <<order, activations, planOpen, codeOpen, used, cart>>

(* discount_consume, first write: the user's reservation, unique per code. *)
Reserve(p) ==
    /\ At(p, "reserve")
    /\ IF reserved
       THEN PayBack(p, RefundKey[cart[p]])
       ELSE Enter(p, "consume") /\ UNCHANGED walletVars
    /\ reserved' = TRUE
    /\ UNCHANGED <<order, activations, planOpen, codeOpen, used, cart>>

(* Second write: the guarded increment of used_count.                      *)
Consume(p) ==
    /\ At(p, "consume")
    /\ IF codeOpen /\ HasCapacity
       THEN /\ used' = used + 1
            /\ Enter(p, "approve")
            /\ UNCHANGED walletVars
       ELSE /\ UNCHANGED used
            /\ IF PerUser
               THEN Enter(p, "giveback") /\ UNCHANGED walletVars
               ELSE PayBack(p, RefundKey[cart[p]])
    /\ UNCHANGED <<order, activations, planOpen, codeOpen, reserved, cart>>

(* Mutant: the order is rejected without giving its money back.            *)
GiveBackUnrefunded(p) ==
    /\ At(p, "giveback")
    /\ reserved' = FALSE
    /\ Enter(p, "reject")
    /\ UNCHANGED <<walletVars, order, activations, planOpen, codeOpen, used, cart>>

(* The reservation of a failed consumption is deleted.                     *)
GiveBack(p) ==
    /\ At(p, "giveback")
    /\ reserved' = FALSE
    /\ PayBack(p, RefundKey[cart[p]])
    /\ UNCHANGED <<order, activations, planOpen, codeOpen, used, cart>>

PaidBack(p) ==
    /\ At(p, "refund")
    /\ Enter(p, "reject")
    /\ UNCHANGED <<walletVars, order, activations, planOpen, codeVars, cart>>

(* The order is rejected whatever its status is.                           *)
Reject(p) ==
    /\ At(p, "reject")
    /\ order' = [order EXCEPT ![cart[p]] = "rejected"]
    /\ Enter(p, "idle")
    /\ UNCHANGED <<walletVars, activations, planOpen, codeVars, cart>>

-----------------------------------------------------------------------------
(* wallet_purchase_finalize: wallet_processing -> approved.                *)
Approve(p) ==
    /\ At(p, "approve")
    /\ IF order[cart[p]] = "wallet_processing"
       THEN order' = [order EXCEPT ![cart[p]] = "approved"] /\ Enter(p, "activate")
       ELSE Enter(p, "reread") /\ UNCHANGED order
    /\ UNCHANGED <<walletVars, activations, planOpen, codeVars, cart>>

(* It did not match: an order someone else approved is activated as well,  *)
(* any other one is an order_conflict.                                     *)
Reread(p) ==
    /\ At(p, "reread")
    /\ Enter(p, IF order[cart[p]] = "approved" THEN "activate" ELSE "idle")
    /\ UNCHANGED <<walletVars, order, activations, planOpen, codeVars, cart>>

(* Mutant: a failed activation is not compensated.                         *)
ActivateUnrefunded(p) ==
    /\ At(p, "activate")
    /\ activations' = [activations EXCEPT ![cart[p]] = IF planOpen THEN @ + 1 ELSE @]
    /\ Enter(p, "idle")
    /\ UNCHANGED <<walletVars, order, planOpen, codeVars, cart>>

(* finalize_approved_payment, which does not look at the order's status.   *)
Activate(p) ==
    /\ At(p, "activate")
    /\ IF planOpen
       THEN /\ activations' = [activations EXCEPT ![cart[p]] = @ + 1]
            /\ Enter(p, "idle")
            /\ UNCHANGED walletVars
       ELSE /\ PayBack(p, UndoKey[cart[p]])
            /\ UNCHANGED activations
    /\ UNCHANGED <<order, planOpen, codeVars, cart>>

BuyerCrash(p) ==
    /\ ~Reliable
    /\ stage[p] # "idle"
    /\ Return(p, "none")
    /\ Enter(p, "idle")
    /\ UNCHANGED <<balance, hasWallet, tx, cur, delta, effects,
                   order, activations, planOpen, codeVars, cart>>

(* A step of the request itself, or of the wallet call it is waiting for.  *)
BuyerStep(p) ==
    \/ CreateOrder(p) \/ Look(p) \/ Debited(p) \/ Decline(p)
    \/ Reserve(p) \/ Consume(p) \/ GiveBack(p) \/ PaidBack(p) \/ Reject(p)
    \/ Approve(p) \/ Reread(p) \/ Activate(p)
    \/ Work(p) /\ UNCHANGED shopVars

(* Money that reaches the wallet some other way.                           *)
Deposit(p) ==
    /\ At(p, "idle")
    /\ \E k \in Keys \ OrderKeys : tx[k] = "none" /\ Begin(p, k)
    /\ UNCHANGED shopVars

(* An administrator deletes the plan; one disables the code, or it expires; *)
(* another user consumes a use of it.                                      *)
PlanDropped == planOpen /\ planOpen' = FALSE
               /\ UNCHANGED <<walletVars, order, activations, codeVars, stage, cart>>
CodeCloses == codeOpen /\ codeOpen' = FALSE
              /\ UNCHANGED <<walletVars, order, activations, planOpen, used, reserved, stage, cart>>
OtherUse == MaxUses > 0 /\ codeOpen /\ HasCapacity /\ used' = used + 1
            /\ UNCHANGED <<walletVars, order, activations, planOpen, codeOpen, reserved, stage, cart>>

PurchaseNext ==
    \/ \E p \in Procs :
          \/ BuyerStep(p) \/ BuyerCrash(p) \/ Deposit(p)
          \/ \E o \in Orders : Request(p, o)
    \/ PlanDropped \/ CodeCloses \/ OtherUse

PurchaseSpec == PurchaseInit /\ [][PurchaseNext]_vars

(* Every request that has been received is carried on: it is a coroutine   *)
(* of the event loop, which resumes it whenever its database call returns. *)
FairPurchaseSpec == PurchaseSpec /\ \A p \in Procs : WF_vars(BuyerStep(p))

-----------------------------------------------------------------------------
GivenBack(o) == effects[RefundKey[o]] + effects[UndoKey[o]]

(* One order buys one period.                                              *)
ActivatedOnce == \A o \in Orders : activations[o] <= 1

(* A period is granted for money taken and kept.                           *)
ActivatedIsPaid ==
    \A o \in Orders :
        activations[o] > 0 => effects[DebitKey[o]] = 1 /\ GivenBack(o) = 0

(* Only money that was taken is given back.                                *)
RefundsAreEarned == \A o \in Orders : GivenBack(o) <= effects[DebitKey[o]]

(* A rejected order has cost nothing and has granted nothing.              *)
RejectedIsFree ==
    \A o \in Orders :
        order[o] = "rejected" =>
            activations[o] = 0 /\ GivenBack(o) = effects[DebitKey[o]]

(* Each discounted period has used up one use of the code.                 *)
DiscountIsCounted ==
    Cardinality({o \in Coded : activations[o] > 0}) <= used

(* What was taken for an order ends as a period or comes back.             *)
PaidIsSettled ==
    \A o \in Orders :
        effects[DebitKey[o]] = 1 ~> activations[o] > 0 \/ GivenBack(o) = 1
=============================================================================
