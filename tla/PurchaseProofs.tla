---------------------------- MODULE PurchaseProofs ----------------------------
(***************************************************************************)
(* Theorems about buying from the wallet, for any number of requests,      *)
(* orders, keys and amounts: one order buys one period, a discounted       *)
(* period has used up a use of the code, a period is paid for with money   *)
(* that is kept, only taken money comes back, and a rejected order is free.*)
(*                                                                         *)
(* The wallet's part is not proved again: every step of a purchase is a    *)
(* step of Wallet or leaves the wallet alone (WalletSide), so the          *)
(* invariant of WalletProofs goes over to the composition (WalletKept).    *)
(***************************************************************************)
EXTENDS WalletPurchase, WalletProofs, FiniteSetTheorems

(* The types of the shop's documents and of the requests.                  *)
ShopTypeOK ==
    /\ order \in [Orders -> OrderStatus]
    /\ activations \in [Orders -> Nat]
    /\ used \in Nat
    /\ stage \in [Procs -> Stages]
    /\ cart \in [Procs -> Orders]

(* The stages at which a request has not approved its order.               *)
Before == {"debit", "decline", "reserve", "consume", "giveback", "approve"}

(* At most one request works on an order at a time: what Retry = "never"   *)
(* and "later" give, and "any" does not.                                   *)
Alone == \A p, q \in Procs : stage[p] # "idle" /\ stage[q] # "idle" /\ cart[p] = cart[q] => p = q

(* A period is granted once, and to an approved order only.                *)
OnceOrder(o) == activations[o] <= 1 /\ (order[o] # "approved" => activations[o] = 0)

(* What the request that works on an order may rely on: before its own     *)
(* approval the order is not approved, and between its approval and the    *)
(* grant nothing has been granted.                                         *)
OnceWork(p) ==
    /\ stage[p] = "look" => order[cart[p]] # "none"
    /\ stage[p] \in Before => order[cart[p]] \in {"wallet_processing", "rejected"}
    /\ stage[p] = "reread" => order[cart[p]] = "rejected"
    /\ stage[p] = "activate" => order[cart[p]] = "approved"
    /\ stage[p] \in {"activate", "refund", "reject"} => activations[cart[p]] = 0

(* The inductive invariant behind ActivatedOnce.                           *)
OnceInv ==
    /\ Alone
    /\ \A o \in Orders : OnceOrder(o)
    /\ \A p \in Procs : OnceWork(p)

(* The stages that come after discount_consume has counted a use.          *)
Late == {"approve", "reread", "activate"}

(* An order that has had a use counted, or was granted a period.           *)
Counted(o) == activations[o] > 0 \/ \E p \in Procs : cart[p] = o /\ stage[p] \in Late
CountedOrders == {o \in Coded : Counted(o)}

(* The inductive invariant behind DiscountIsCounted: a request past the    *)
(* increment holds a use of used_count before the period is there.         *)
UseInv == Cardinality(CountedOrders) <= used

(* No transaction document for the key.                                    *)
Unused(k) == tx[k] = "none"

(* What the ledger's documents tell about an order, at any time: money     *)
(* goes back only after the debit is ok and under one of the two keys, a   *)
(* period comes with a debit that is kept, and a rejected order either was *)
(* never debited or has its money back.                                    *)
OrderInv(o) ==
    /\ ~Unused(RefundKey[o]) \/ ~Unused(UndoKey[o]) => tx[DebitKey[o]] = "ok"
    /\ Unused(RefundKey[o]) \/ Unused(UndoKey[o])
    /\ order[o] = "none" => Unused(DebitKey[o]) /\ activations[o] = 0
    /\ activations[o] > 0 =>
          /\ order[o] = "approved" /\ tx[DebitKey[o]] = "ok"
          /\ Unused(RefundKey[o]) /\ Unused(UndoKey[o])
    /\ order[o] = "rejected" =>
          /\ activations[o] = 0
          /\ \/ tx[DebitKey[o]] = "failed"
             \/ tx[RefundKey[o]] = "ok" \/ tx[UndoKey[o]] = "ok"

(* The order's money was taken and has not been given back.                *)
Paid(o) == tx[DebitKey[o]] = "ok" /\ Unused(RefundKey[o]) /\ Unused(UndoKey[o])

(* What the request at each stage knows of its order and of the wallet     *)
(* call it waits for.  Only a deposit, a call for a key of no order, runs  *)
(* while the request is idle.                                              *)
WorkInv(p) ==
    LET o == cart[p] IN
    /\ pc[p] # "idle" => \/ stage[p] = "idle" /\ cur[p] \notin OrderKeys
                         \/ stage[p] \in {"debit", "refund"} /\ pc[p] # "cap"
    /\ stage[p] = "order" => order[o] = "none"
    /\ stage[p] = "look" => order[o] = "wallet_processing" /\ Unused(DebitKey[o])
    /\ stage[p] \in Before => order[o] = "wallet_processing"
    /\ stage[p] = "debit" =>
          /\ cur[p] = DebitKey[o] /\ Unused(RefundKey[o]) /\ Unused(UndoKey[o])
          /\ pc[p] = "insert" => Unused(DebitKey[o])
          /\ pc[p] = "idle" => \/ ret[p] = "ok" /\ tx[DebitKey[o]] = "ok"
                               \/ ret[p] = "insufficient" /\ tx[DebitKey[o]] = "failed"
    /\ stage[p] = "decline" => tx[DebitKey[o]] = "failed"
    /\ stage[p] \in {"reserve", "consume", "giveback", "approve", "activate"} => Paid(o)
    /\ stage[p] = "activate" => order[o] = "approved"
    /\ stage[p] \in {"activate", "refund", "reject"} => activations[o] = 0
    /\ stage[p] \in {"refund", "reject"} =>
          order[o] \in {"wallet_processing", "approved"} /\ tx[DebitKey[o]] = "ok"
    /\ stage[p] = "refund" =>
          \E back \in {RefundKey[o], UndoKey[o]} :
             /\ cur[p] = back
             /\ \A k \in {RefundKey[o], UndoKey[o]} \ {back} : Unused(k)
             /\ pc[p] = "insert" => Unused(back)
             /\ pc[p] # "fail"
             /\ pc[p] = "idle" => tx[back] = "ok"
    /\ stage[p] = "reject" => tx[RefundKey[o]] = "ok" \/ tx[UndoKey[o]] = "ok"
    /\ stage[p] # "reread"

(* The inductive invariant behind the three promises about money.          *)
PurchaseInv ==
    /\ IInv /\ ShopTypeOK /\ Alone
    /\ \A o \in Orders : OrderInv(o)
    /\ \A p \in Procs : WorkInv(p)

-----------------------------------------------------------------------------
(* The keys of an order: what the assumption says of each.                 *)
LEMMA OrderKeyFacts ==
    \A o \in Orders :
       /\ KeysOf(o) \subseteq Keys /\ KeysOf(o) \subseteq OrderKeys
       /\ TypeOf[DebitKey[o]] = "subscription_purchase"
       /\ TypeOf[RefundKey[o]] = "reversal" /\ TypeOf[UndoKey[o]] = "reversal"
       /\ DebitKey[o] # RefundKey[o] /\ DebitKey[o] # UndoKey[o] /\ RefundKey[o] # UndoKey[o]
  BY PurchaseAssumption DEF KeysOf, OrderKeys

(* Every step is a step of the wallet, or leaves the wallet alone, or is   *)
(* the crash of a request with no call under way.                          *)
LEMMA WalletSide ==
    ASSUME ShopTypeOK, [PurchaseNext]_vars
    PROVE  \/ [Next]_walletVars
           \/ \E p \in Procs : pc[p] = "idle" /\ Return(p, "none")
                             /\ UNCHANGED <<balance, hasWallet, tx, cur, delta, effects>>
<1>1. ASSUME NEW p \in Procs, BuyerCrash(p)
      PROVE  \/ Next
             \/ pc[p] = "idle" /\ Return(p, "none")
                /\ UNCHANGED <<balance, hasWallet, tx, cur, delta, effects>>
  BY <1>1 DEF BuyerCrash, Next, Step, Crash
<1>2. ASSUME NEW p \in Procs, BuyerStep(p)
      PROVE  [Next]_walletVars
  <2>1. cart[p] \in Orders
    BY DEF ShopTypeOK
  <2>2. DebitKey[cart[p]] \in Keys /\ RefundKey[cart[p]] \in Keys /\ UndoKey[cart[p]] \in Keys
    BY <2>1, PurchaseAssumption
  <2> QED
    BY <1>2, <2>2 DEF BuyerStep, CreateOrder, Look, Debited, Decline, Reserve, Consume, GiveBack,
       PaidBack, Reject, Approve, Reread, Activate, PayBack, Next, Step
<1>3. ASSUME NEW p \in Procs, Deposit(p)
      PROVE  Next
  BY <1>3 DEF Deposit, Next
<1>4. ASSUME (\E p \in Procs, o \in Orders : Request(p, o)) \/ PlanDropped \/ CodeCloses \/ OtherUse
      PROVE  UNCHANGED walletVars
  BY <1>4 DEF Request, PlanDropped, CodeCloses, OtherUse
<1> QED
  BY <1>1, <1>2, <1>3, <1>4 DEF PurchaseNext, vars

(* So the wallet's inductive invariant holds in the composition.           *)
LEMMA WalletKept ==
    ASSUME IInv, ShopTypeOK, [PurchaseNext]_vars
    PROVE  IInv'
<1>1. CASE [Next]_walletVars
  BY <1>1, StepInv
<1>2. ASSUME NEW p \in Procs, pc[p] = "idle", Return(p, "none"),
             UNCHANGED <<balance, hasWallet, tx, cur, delta, effects>>
      PROVE  IInv'
  <2>1. pc' = pc
    BY <1>2 DEF Return, Goto, IInv, TypeOK
  <2>2. ret' \in [Procs -> Outcomes] /\ \A q \in Procs : ret'[q] = "ok" => ret[q] = "ok"
    BY <1>2 DEF Return, IInv, TypeOK, Outcomes
  <2> QED
    BY <1>2, <2>1, <2>2 DEF IInv, TypeOK, NonNegative, OneEffect, StatusTellsEffect,
       AcknowledgedIsApplied, OwnerInv, DeltaInv, RetInv, CallDelta
<1> QED
  BY <1>1, <1>2, WalletSide

(* The shop's variables have their types initially ...                     *)
LEMMA ShopInit == PurchaseInit => ShopTypeOK
  BY PurchaseAssumption DEF PurchaseInit, ShopTypeOK, OrderStatus, Stages

(* ... and every step keeps them.                                          *)
LEMMA ShopKept ==
    ASSUME ShopTypeOK, [PurchaseNext]_vars
    PROVE  ShopTypeOK'
<1> USE DEF ShopTypeOK, Enter, PayBack
<1>1. \A s \in {"idle", "order", "look", "debit", "decline", "reserve", "consume", "giveback",
                "refund", "reject", "approve", "reread", "activate"} : s \in Stages
  BY DEF Stages
<1>2. \A s \in {"none", "wallet_processing", "approved", "rejected"} : s \in OrderStatus
  BY DEF OrderStatus
<1>3. ASSUME NEW p \in Procs, BuyerStep(p)
      PROVE  ShopTypeOK'
  <2>1. CASE CreateOrder(p) \/ Decline(p) \/ Reject(p)
    BY <1>1, <1>2, <2>1 DEF CreateOrder, Decline, Reject, codeVars
  <2>2. CASE Look(p) \/ PaidBack(p) \/ Reserve(p) \/ GiveBack(p)
    BY <1>1, <1>2, <2>2 DEF Look, PaidBack, Reserve, GiveBack, codeVars
  <2>3. CASE Debited(p) \/ Reread(p)
    BY <1>1, <1>2, <2>3 DEF Debited, Reread, codeVars
  <2>4. CASE Consume(p)
    BY <1>1, <1>2, <2>4 DEF Consume, codeVars
  <2>5. CASE Approve(p)
    BY <1>1, <1>2, <2>5 DEF Approve, codeVars
  <2>6. CASE Activate(p)
    BY <1>1, <1>2, <2>6 DEF Activate, codeVars
  <2>7. CASE UNCHANGED shopVars
    BY <2>7 DEF shopVars, codeVars
  <2> QED
    BY <1>3, <2>1, <2>2, <2>3, <2>4, <2>5, <2>6, <2>7 DEF BuyerStep
<1>4. ASSUME NEW p \in Procs, BuyerCrash(p) \/ Deposit(p) \/ \E o \in Orders : Request(p, o)
      PROVE  ShopTypeOK'
  BY <1>1, <1>4 DEF BuyerCrash, Deposit, Request, shopVars, codeVars
<1>5. CASE PlanDropped \/ CodeCloses \/ OtherUse \/ UNCHANGED vars
  BY <1>5 DEF PlanDropped, CodeCloses, OtherUse, vars, shopVars, codeVars
<1> QED
  BY <1>3, <1>4, <1>5 DEF PurchaseNext

(* Both invariants hold throughout a purchase.                             *)
LEMMA ShopInvariant == PurchaseSpec => [](IInv /\ ShopTypeOK)
<1>1. PurchaseInit => IInv /\ ShopTypeOK
  BY ShopInit, InitInv DEF PurchaseInit
<1>2. IInv /\ ShopTypeOK /\ [PurchaseNext]_vars => (IInv /\ ShopTypeOK)'
  BY WalletKept, ShopKept
<1> QED
  BY <1>1, <1>2, PTL DEF PurchaseSpec

(* The promises of the wallet survive its use by purchases: no negative    *)
(* balance, no money moved twice, truthful statuses and acknowledgements.  *)
THEOREM WalletInUse ==
    PurchaseSpec => [](NonNegative /\ OneEffect /\ StatusTellsEffect /\ AcknowledgedIsApplied)
<1>1. IInv => NonNegative /\ OneEffect /\ StatusTellsEffect /\ AcknowledgedIsApplied
  BY DEF IInv
<1> QED
  BY <1>1, ShopInvariant, PTL

-----------------------------------------------------------------------------
(* A step of a request changes nothing of other requests and their orders. *)
Steps1(p) ==
    /\ \A q \in Procs \ {p} : stage'[q] = stage[q] /\ cart'[q] = cart[q]
    /\ cart'[p] = cart[p]
    /\ \A o \in Orders \ {cart[p]} : order'[o] = order[o] /\ activations'[o] = activations[o]

(* A request that works on keeps the exclusion.                            *)
LEMMA AloneKept ==
    ASSUME Alone, NEW p \in Procs, Steps1(p), stage[p] # "idle"
    PROVE  Alone'
  BY DEF Alone, Steps1

(* A step of one request keeps OnceInv when it does so for its own order.  *)
LEMMA OnceKept ==
    ASSUME ShopTypeOK, OnceInv, NEW p \in Procs, Steps1(p), stage[p] # "idle",
           OnceOrder(cart[p])', OnceWork(p)'
    PROVE  OnceInv'
<1>1. Alone'
  BY AloneKept DEF OnceInv
<1>2. ASSUME NEW o \in Orders
      PROVE  OnceOrder(o)'
  BY DEF OnceInv, OnceOrder, Steps1
<1>3. ASSUME NEW q \in Procs \ {p}
      PROVE  OnceWork(q)'
  <2>1. CASE stage[q] = "idle"
    BY <2>1 DEF Steps1, OnceWork, Before
  <2>2. CASE stage[q] # "idle"
    <3>1. cart[q] \in Orders \ {cart[p]}
      BY <2>2 DEF OnceInv, Alone, ShopTypeOK
    <3>2. /\ stage'[q] = stage[q] /\ cart'[q] = cart[q]
          /\ order'[cart[q]] = order[cart[q]] /\ activations'[cart[q]] = activations[cart[q]]
      BY <3>1 DEF Steps1
    <3> QED
      BY <3>2 DEF OnceInv, OnceWork
  <2> QED
    BY <2>1, <2>2
<1> QED
  BY <1>1, <1>2, <1>3 DEF OnceInv

(* No step of a request, nor its crash, touches others.                    *)
LEMMA BuyerFrame ==
    ASSUME ShopTypeOK, NEW p \in Procs, BuyerStep(p) \/ BuyerCrash(p)
    PROVE  Steps1(p)
<1> USE DEF ShopTypeOK, Enter, PayBack, Steps1
<1>1. CASE CreateOrder(p) \/ Decline(p) \/ Reject(p)
  BY <1>1 DEF CreateOrder, Decline, Reject
<1>2. CASE Look(p) \/ PaidBack(p) \/ Reserve(p) \/ GiveBack(p)
  BY <1>2 DEF Look, PaidBack, Reserve, GiveBack
<1>3. CASE Debited(p) \/ Reread(p) \/ BuyerCrash(p)
  BY <1>3 DEF Debited, Reread, BuyerCrash
<1>4. CASE Consume(p)
  BY <1>4 DEF Consume
<1>5. CASE Approve(p)
  BY <1>5 DEF Approve
<1>6. CASE Activate(p)
  BY <1>6 DEF Activate
<1>7. CASE UNCHANGED shopVars
  BY <1>7 DEF shopVars
<1> QED
  BY <1>1, <1>2, <1>3, <1>4, <1>5, <1>6, <1>7 DEF BuyerStep

(* Every step keeps OnceInv when no two requests share an order.           *)
LEMMA OnceStep ==
    ASSUME Retry # "any"
    PROVE  ShopTypeOK /\ OnceInv /\ [PurchaseNext]_vars => OnceInv'
<1> SUFFICES ASSUME ShopTypeOK, OnceInv, [PurchaseNext]_vars
             PROVE  OnceInv'
  OBVIOUS
<1>1. ASSUME NEW p \in Procs, stage[p] # "idle", Steps1(p), OnceOrder(cart[p])', OnceWork(p)'
      PROVE  OnceInv'
  BY <1>1, OnceKept
<1>2. ASSUME NEW p \in Procs, BuyerStep(p), ~UNCHANGED shopVars
      PROVE  OnceInv'
  <2>1. Steps1(p) /\ cart[p] \in Orders
    BY <1>2, BuyerFrame DEF ShopTypeOK
  <2>2. OnceOrder(cart[p]) /\ OnceWork(p)
    BY <2>1 DEF OnceInv
  <2>3. stage[p] # "idle"
    BY <1>2 DEF BuyerStep, At, CreateOrder, Look, Debited, Decline, Reserve, Consume, GiveBack,
       PaidBack, Reject, Approve, Reread, Activate
  <2> USE DEF ShopTypeOK, OrderStatus, Enter, PayBack, At, OnceOrder, OnceWork, Before, Steps1
  <2>4. CASE CreateOrder(p)
    BY <1>1, <2>1, <2>2, <2>3, <2>4 DEF CreateOrder
  <2>5. CASE Look(p)
    BY <1>1, <2>1, <2>2, <2>3, <2>5 DEF Look
  <2>6. CASE Decline(p)
    BY <1>1, <2>1, <2>2, <2>3, <2>6 DEF Decline
  <2>7. CASE Reject(p)
    BY <1>1, <2>1, <2>2, <2>3, <2>7 DEF Reject
  <2>8. CASE Debited(p)
    BY <1>1, <2>1, <2>2, <2>3, <2>8 DEF Debited
  <2>9. CASE Reserve(p) \/ GiveBack(p) \/ PaidBack(p)
    BY <1>1, <2>1, <2>2, <2>3, <2>9 DEF Reserve, GiveBack, PaidBack
  <2>10. CASE Consume(p)
    BY <1>1, <2>1, <2>2, <2>3, <2>10 DEF Consume
  <2>11. CASE Approve(p)
    BY <1>1, <2>1, <2>2, <2>3, <2>11 DEF Approve
  <2>12. CASE Reread(p)
    BY <1>1, <2>1, <2>2, <2>3, <2>12 DEF Reread
  <2>13. CASE Activate(p)
    BY <1>1, <2>1, <2>2, <2>3, <2>13 DEF Activate
  <2> QED
    BY <1>2, <2>4, <2>5, <2>6, <2>7, <2>8, <2>9, <2>10, <2>11, <2>12, <2>13 DEF BuyerStep
<1>3. ASSUME NEW p \in Procs, BuyerCrash(p)
      PROVE  OnceInv'
  <2>1. Steps1(p) /\ cart[p] \in Orders /\ UNCHANGED <<order, activations>>
    BY <1>3, BuyerFrame DEF ShopTypeOK, BuyerCrash
  <2>2. stage[p] # "idle" /\ stage'[p] = "idle"
    BY <1>3 DEF BuyerCrash, Enter, ShopTypeOK
  <2> QED
    <3>1. OnceOrder(cart[p])'
      BY <2>1 DEF OnceInv, OnceOrder, Steps1
    <3>2. OnceWork(p)'
      BY <2>2 DEF OnceWork, Before
    <3> QED
      BY <1>1, <2>1, <2>2, <3>1, <3>2
<1>4. ASSUME NEW p \in Procs, NEW o \in Orders, Request(p, o)
      PROVE  OnceInv'
  <2>1. ~Working(o)
    BY <1>4, PurchaseAssumption DEF Request, MayRequest
  <2>2. /\ stage'[p] = "order" /\ cart'[p] = o /\ UNCHANGED <<order, activations>>
        /\ \A q \in Procs \ {p} : stage'[q] = stage[q] /\ cart'[q] = cart[q]
    BY <1>4 DEF Request, Enter, ShopTypeOK
  <2>3. Alone'
    BY <2>1, <2>2 DEF OnceInv, Alone, Working
  <2>4. \A q \in Procs : OnceWork(q)'
    BY <2>2 DEF OnceInv, OnceWork, Before
  <2> QED
    BY <2>2, <2>3, <2>4 DEF OnceInv, OnceOrder
<1>5. ASSUME UNCHANGED <<order, activations, stage, cart>>
      PROVE  OnceInv'
  BY <1>5 DEF OnceInv, Alone, OnceOrder, OnceWork
<1>6. ASSUME \/ \E p \in Procs : Deposit(p)
             \/ PlanDropped \/ CodeCloses \/ OtherUse \/ UNCHANGED vars \/ UNCHANGED shopVars
      PROVE  UNCHANGED <<order, activations, stage, cart>>
  BY <1>6 DEF Deposit, PlanDropped, CodeCloses, OtherUse, vars, shopVars
<1> QED
  BY <1>2, <1>3, <1>4, <1>5, <1>6 DEF PurchaseNext

(* One order buys one period (finalize_approved_payment runs once per      *)
(* order), with crashes and replays, as long as no client sends the same   *)
(* idempotency key while an earlier request with it is still at work.      *)
THEOREM PeriodOnce ==
    ASSUME Retry # "any"
    PROVE  PurchaseSpec => []ActivatedOnce
<1>1. PurchaseInit => OnceInv
  BY ShopInit DEF PurchaseInit, OnceInv, Alone, OnceOrder, OnceWork, Before, ShopTypeOK
<1>2. ShopTypeOK /\ OnceInv => ActivatedOnce
  BY DEF OnceInv, OnceOrder, ActivatedOnce
<1> QED
  BY <1>1, <1>2, ShopInit, ShopKept, OnceStep, PTL DEF PurchaseSpec

-----------------------------------------------------------------------------
(* The sets that are counted are finite.                                   *)
LEMMA CodedFinite == IsFiniteSet(Coded) /\ IsFiniteSet(CountedOrders) /\ IsFiniteSet(CountedOrders')
<1>1. IsFiniteSet(Coded)
  BY PurchaseAssumption, FS_Subset
<1>2. CountedOrders \subseteq Coded /\ CountedOrders' \subseteq Coded
  BY DEF CountedOrders
<1> QED
  BY <1>1, <1>2, FS_Subset

(* UseInv survives a step that counts no further order ...                 *)
LEMMA UseKept ==
    ASSUME UseInv, used \in Nat, used' \in Nat, used' >= used, CountedOrders' \subseteq CountedOrders
    PROVE  UseInv'
<1>1. /\ Cardinality(CountedOrders') <= Cardinality(CountedOrders)
      /\ Cardinality(CountedOrders) \in Nat /\ Cardinality(CountedOrders') \in Nat
  BY CodedFinite, FS_Subset, FS_CardinalityType
<1> QED
  BY <1>1 DEF UseInv

(* ... and one that counts one more and increments used_count.             *)
LEMMA UseAdded ==
    ASSUME UseInv, used \in Nat, used' = used + 1, NEW o,
           CountedOrders' \subseteq CountedOrders \cup {o}
    PROVE  UseInv'
<1>1. IsFiniteSet(CountedOrders \cup {o})
  BY CodedFinite, FS_AddElement
<1>2. /\ Cardinality(CountedOrders') <= Cardinality(CountedOrders \cup {o})
      /\ Cardinality(CountedOrders \cup {o}) <= Cardinality(CountedOrders) + 1
      /\ Cardinality(CountedOrders) \in Nat /\ Cardinality(CountedOrders') \in Nat
      /\ Cardinality(CountedOrders \cup {o}) \in Nat
  BY <1>1, CodedFinite, FS_Subset, FS_AddElement, FS_CardinalityType
<1> QED
  BY <1>2 DEF UseInv

(* Which orders a step of a request may newly count: at most its own.      *)
LEMMA CountedByStep ==
    ASSUME ShopTypeOK, NEW p \in Procs, Steps1(p)
    PROVE  /\ CountedOrders' \subseteq CountedOrders \cup {cart[p]}
           /\ (\/ cart[p] \notin Coded
               \/ stage[p] \in Late
               \/ stage'[p] \notin Late /\ activations'[cart[p]] = activations[cart[p]])
              => CountedOrders' \subseteq CountedOrders
<1>1. \A q \in Procs \ {p} : stage'[q] = stage[q] /\ cart'[q] = cart[q]
  BY DEF Steps1
<1>2. ASSUME NEW o \in Coded, o # cart[p], Counted(o)'
      PROVE  Counted(o)
  <2>1. o \in Orders \ {cart[p]} /\ cart'[p] = cart[p]
    BY <1>2, PurchaseAssumption DEF Steps1
  <2>2. activations'[o] = activations[o]
    BY <2>1 DEF Steps1
  <2> QED
    BY <1>1, <1>2, <2>1, <2>2 DEF Counted
<1>3. ASSUME NEW o \in Coded, o = cart[p], Counted(o)',
             \/ stage[p] \in Late
             \/ stage'[p] \notin Late /\ activations'[cart[p]] = activations[cart[p]]
      PROVE  Counted(o)
  BY <1>1, <1>3 DEF Counted, Steps1
<1>4. ASSUME NEW o \in CountedOrders', o # cart[p]
      PROVE  o \in CountedOrders
  BY <1>2, <1>4 DEF CountedOrders
<1>5. ASSUME NEW o \in CountedOrders', o = cart[p],
             \/ cart[p] \notin Coded
             \/ stage[p] \in Late
             \/ stage'[p] \notin Late /\ activations'[cart[p]] = activations[cart[p]]
      PROVE  o \in CountedOrders
  BY <1>3, <1>5 DEF CountedOrders
<1> QED
  BY <1>4, <1>5

(* Every step keeps UseInv, whatever the clients retry.                    *)
LEMMA UseStep == ShopTypeOK /\ UseInv /\ [PurchaseNext]_vars => UseInv'
<1> SUFFICES ASSUME ShopTypeOK, UseInv, [PurchaseNext]_vars
             PROVE  UseInv'
  OBVIOUS
<1>1. used \in Nat /\ used' \in Nat
  BY ShopKept DEF ShopTypeOK
<1>2. ASSUME NEW p \in Procs, Steps1(p), used' = used,
             \/ cart[p] \notin Coded
             \/ stage[p] \in Late
             \/ stage'[p] \notin Late /\ activations'[cart[p]] = activations[cart[p]]
      PROVE  UseInv'
  BY <1>1, <1>2, CountedByStep, UseKept
<1>3. ASSUME NEW p \in Procs, BuyerStep(p), ~UNCHANGED shopVars
      PROVE  UseInv'
  <2>1. Steps1(p)
    BY <1>3, BuyerFrame
  <2>2. CASE Consume(p)
    <3>1. CASE codeOpen /\ HasCapacity
      BY <1>1, <2>1, <2>2, <3>1, CountedByStep, UseAdded DEF Consume
    <3>2. CASE ~(codeOpen /\ HasCapacity)
      BY <1>2, <2>1, <2>2, <3>2 DEF Consume, Enter, PayBack, ShopTypeOK, Late
    <3> QED
      BY <3>1, <3>2
  <2> USE DEF ShopTypeOK, Enter, PayBack, At, Late, codeVars
  <2>3. CASE CreateOrder(p) \/ Decline(p) \/ Reject(p) \/ PaidBack(p)
    BY <1>2, <2>1, <2>3 DEF CreateOrder, Decline, Reject, PaidBack
  <2>4. CASE Look(p) \/ Reserve(p) \/ GiveBack(p)
    BY <1>2, <2>1, <2>4 DEF Look, Reserve, GiveBack
  <2>5. CASE Debited(p)
    BY <1>2, <2>1, <2>5 DEF Debited
  <2>6. CASE Approve(p) \/ Reread(p) \/ Activate(p)
    BY <1>2, <2>1, <2>6 DEF Approve, Reread, Activate
  <2> QED
    BY <1>3, <2>2, <2>3, <2>4, <2>5, <2>6 DEF BuyerStep
<1>4. ASSUME NEW p \in Procs, BuyerCrash(p)
      PROVE  UseInv'
  BY <1>2, <1>4, BuyerFrame DEF BuyerCrash, Enter, ShopTypeOK, Late, codeVars
<1>5. ASSUME NEW p \in Procs, NEW o \in Orders, Request(p, o)
      PROVE  UseInv'
  <2>1. /\ stage[p] = "idle" /\ stage'[p] = "order" /\ UNCHANGED <<used, activations>>
        /\ \A q \in Procs \ {p} : stage'[q] = stage[q] /\ cart'[q] = cart[q]
    BY <1>5 DEF Request, At, Enter, ShopTypeOK, codeVars
  <2>2. CountedOrders' \subseteq CountedOrders
    BY <2>1 DEF CountedOrders, Counted, Late
  <2> QED
    BY <1>1, <2>1, <2>2, UseKept
<1>6. ASSUME UNCHANGED <<activations, stage, cart>>, used' >= used
      PROVE  UseInv'
  <2>1. CountedOrders' \subseteq CountedOrders
    BY <1>6 DEF CountedOrders, Counted
  <2> QED
    BY <1>1, <1>6, <2>1, UseKept
<1>7. ASSUME \/ \E p \in Procs : Deposit(p)
             \/ PlanDropped \/ CodeCloses \/ OtherUse \/ UNCHANGED vars \/ UNCHANGED shopVars
      PROVE  UNCHANGED <<activations, stage, cart>> /\ used' >= used
  BY <1>1, <1>7 DEF Deposit, PlanDropped, CodeCloses, OtherUse, vars, shopVars, codeVars
<1> QED
  BY <1>3, <1>4, <1>5, <1>6, <1>7 DEF PurchaseNext

(* Each discounted period has used up one use of the code, for any         *)
(* interleaving of requests, retries, crashes and other users.             *)
THEOREM UsesCounted == PurchaseSpec => []DiscountIsCounted
<1>1. PurchaseInit => UseInv
  <2>1. PurchaseInit => CountedOrders = {} /\ used = 0
    BY PurchaseAssumption DEF PurchaseInit, CountedOrders, Counted, Late
  <2> QED
    BY <2>1, FS_EmptySet DEF UseInv
<1>2. ShopTypeOK /\ UseInv => DiscountIsCounted
  <2> SUFFICES ASSUME ShopTypeOK, UseInv
               PROVE  DiscountIsCounted
    OBVIOUS
  <2> DEFINE S == {o \in Coded : activations[o] > 0}
  <2>1. S \subseteq CountedOrders
    BY DEF CountedOrders, Counted
  <2>2. /\ Cardinality(S) <= Cardinality(CountedOrders)
        /\ Cardinality(S) \in Nat /\ Cardinality(CountedOrders) \in Nat
    BY <2>1, CodedFinite, FS_Subset, FS_CardinalityType
  <2> QED
    BY <2>2 DEF UseInv, DiscountIsCounted, ShopTypeOK
<1> QED
  BY <1>1, <1>2, ShopInit, ShopKept, UseStep, PTL DEF PurchaseSpec

-----------------------------------------------------------------------------
(* A step of a working request touches its own call and the keys of its    *)
(* own order.                                                              *)
KeepsOthers(p) ==
    /\ Steps1(p)
    /\ \A q \in Procs \ {p} : pc'[q] = pc[q] /\ cur'[q] = cur[q] /\ ret'[q] = ret[q]
    /\ \A k \in Keys \ KeysOf(cart[p]) : tx'[k] = tx[k]

(* An order and the documents of its keys are left alone.                  *)
SameOrder(o) ==
    /\ order'[o] = order[o] /\ activations'[o] = activations[o]
    /\ tx'[DebitKey[o]] = tx[DebitKey[o]] /\ tx'[RefundKey[o]] = tx[RefundKey[o]]
    /\ tx'[UndoKey[o]] = tx[UndoKey[o]]

(* A request and its wallet call are left alone.                           *)
SameWork(q) ==
    /\ stage'[q] = stage[q] /\ cart'[q] = cart[q]
    /\ pc'[q] = pc[q] /\ cur'[q] = cur[q] /\ ret'[q] = ret[q]

(* Left alone, an order keeps its invariant ...                            *)
LEMMA OrderSame ==
    ASSUME NEW o, SameOrder(o), OrderInv(o)
    PROVE  OrderInv(o)'
  BY DEF SameOrder, OrderInv, Unused

(* ... and so does a request whose order is left alone.                    *)
LEMMA WorkSame ==
    ASSUME NEW q, SameWork(q), stage[q] # "idle" => SameOrder(cart[q]), WorkInv(q)
    PROVE  WorkInv(q)'
<1>1. CASE stage[q] = "idle"
  BY <1>1 DEF SameWork, WorkInv, Before
<1>2. CASE stage[q] # "idle"
  BY <1>2 DEF SameWork, SameOrder, WorkInv, Unused, Paid
<1> QED
  BY <1>1, <1>2

(* A step of one request keeps the invariant when it does so for its own   *)
(* order: the keys of two orders are distinct.                             *)
LEMMA MoneyKept ==
    ASSUME PurchaseInv, IInv', ShopTypeOK', NEW p \in Procs, stage[p] # "idle", KeepsOthers(p),
           OrderInv(cart[p])', WorkInv(p)'
    PROVE  PurchaseInv'
<1>1. Alone'
  BY AloneKept DEF PurchaseInv, KeepsOthers
<1>2. ASSUME NEW o \in Orders \ {cart[p]}
      PROVE  SameOrder(o)
  <2>1. cart[p] \in Orders /\ o # cart[p]
    BY <1>2 DEF PurchaseInv, ShopTypeOK
  <2>2. KeysOf(o) \cap KeysOf(cart[p]) = {}
    BY <2>1, PurchaseAssumption
  <2>3. KeysOf(o) \subseteq Keys \ KeysOf(cart[p])
    BY <2>2, OrderKeyFacts
  <2> QED
    BY <2>3 DEF KeysOf, KeepsOthers, Steps1, SameOrder
<1>3. ASSUME NEW q \in Procs \ {p}
      PROVE  WorkInv(q)'
  <2>1. SameWork(q)
    BY DEF KeepsOthers, Steps1, SameWork
  <2>2. stage[q] # "idle" => cart[q] \in Orders \ {cart[p]}
    BY DEF PurchaseInv, Alone, ShopTypeOK
  <2> QED
    BY <1>2, <2>1, <2>2, WorkSame DEF PurchaseInv
<1>4. ASSUME NEW o \in Orders
      PROVE  OrderInv(o)'
  <2>1. CASE o = cart[p]
    BY <2>1 DEF KeepsOthers, Steps1
  <2>2. CASE o # cart[p]
    BY <1>2, <2>2, OrderSame DEF PurchaseInv
  <2> QED
    BY <2>1, <2>2
<1> QED
  BY <1>1, <1>3, <1>4 DEF PurchaseInv

(* Begin for a key of an order goes straight to the insert.                *)
LEMMA BeginOrderKey ==
    ASSUME TypeOK, NEW p \in Procs, NEW o \in Orders, NEW k \in KeysOf(o), Begin(p, k)
    PROVE  /\ pc'[p] = "insert" /\ cur'[p] = k /\ tx' = tx
           /\ \A q \in Procs \ {p} : pc'[q] = pc[q] /\ cur'[q] = cur[q] /\ ret'[q] = ret[q]
<1>1. TypeOf[k] \notin AdminTypes
  BY OrderKeyFacts DEF KeysOf, AdminTypes
<1> QED
  BY <1>1 DEF Begin, Goto, NeedsOwnerApproval, TypeOK

(* The steps of a request that write shop documents or call the wallet.    *)
LEMMA ShopKeepsMoney ==
    ASSUME PurchaseInv, IInv', ShopTypeOK', NEW p \in Procs, BuyerStep(p), ~Work(p)
    PROVE  PurchaseInv'
<1> DEFINE o == cart[p]
<1>1. /\ TypeOK /\ ShopTypeOK /\ o \in Orders /\ OrderInv(o) /\ WorkInv(p)
      /\ DebitKey[o] \in KeysOf(o) /\ RefundKey[o] \in KeysOf(o) /\ UndoKey[o] \in KeysOf(o)
      /\ RefundKey[o] # UndoKey[o]
  BY OrderKeyFacts DEF PurchaseInv, IInv, ShopTypeOK, KeysOf
<1>2. Steps1(p)
  BY <1>1, BuyerFrame
<1>3. stage[p] # "idle" /\ pc[p] = "idle"
  BY DEF BuyerStep, At, CreateOrder, Look, Debited, Decline, Reserve, Consume, GiveBack,
     PaidBack, Reject, Approve, Reread, Activate
<1>4. ASSUME UNCHANGED walletVars, OrderInv(o)', WorkInv(p)'
      PROVE  PurchaseInv'
  BY <1>2, <1>3, <1>4, MoneyKept DEF KeepsOthers, walletVars
<1>5. ASSUME NEW k \in KeysOf(o), Begin(p, k), OrderInv(o)', WorkInv(p)'
      PROVE  PurchaseInv'
  BY <1>1, <1>2, <1>3, <1>5, BeginOrderKey, MoneyKept DEF KeepsOthers
<1>6. cart' = cart /\ o' = o
  BY <1>2, <1>3 DEF BuyerStep, CreateOrder, Look, Debited, Decline, Reserve, Consume, GiveBack,
     PaidBack, Reject, Approve, Reread, Activate
<1> HIDE DEF o
<1> USE DEF ShopTypeOK, Enter, At, OrderInv, WorkInv, Before, Unused, Paid
<1>7. CASE CreateOrder(p)
  <2>1. UNCHANGED <<walletVars, activations>> /\ stage'[p] = "look" /\ stage[p] = "order"
    BY <1>1, <1>7 DEF CreateOrder
  <2>2. order[o] = "none" /\ order'[o] = "wallet_processing"
    BY <1>1, <1>7, <2>1 DEF CreateOrder, o
  <2>3. OrderInv(o)'
    BY <1>1, <1>6, <2>1, <2>2 DEF walletVars
  <2>4. WorkInv(p)'
    BY <1>1, <1>3, <1>6, <2>1, <2>2 DEF walletVars, o
  <2> QED
    BY <1>4, <2>1, <2>3, <2>4
<1>8. CASE Look(p)
  <2>1. /\ stage[p] = "look" /\ stage'[p] = "debit" /\ Begin(p, DebitKey[o])
        /\ UNCHANGED <<order, activations>>
    BY <1>1, <1>8 DEF Look, o
  <2>2. pc'[p] = "insert" /\ cur'[p] = DebitKey[o] /\ tx' = tx
    BY <1>1, <2>1, BeginOrderKey
  <2>3. OrderInv(o)'
    BY <1>1, <1>6, <2>1, <2>2
  <2>4. WorkInv(p)'
    BY <1>1, <1>6, <2>1, <2>2 DEF o
  <2> QED
    BY <1>1, <1>5, <2>1, <2>3, <2>4
<1>9. CASE Debited(p)
  <2>1. /\ UNCHANGED walletVars /\ UNCHANGED <<order, activations>> /\ stage[p] = "debit"
        /\ \/ ret[p] = "insufficient" /\ stage'[p] = "decline"
           \/ ret[p] # "insufficient" /\ stage'[p] \in {"approve", "reserve", "consume"}
    BY <1>1, <1>9 DEF Debited
  <2>2. OrderInv(o)'
    BY <1>1, <1>6, <2>1 DEF walletVars
  <2>3. WorkInv(p)'
    BY <1>1, <1>3, <1>6, <2>1 DEF walletVars, o
  <2> QED
    BY <1>4, <2>1, <2>2, <2>3
<1>10. CASE Decline(p)
  <2>1. UNCHANGED <<walletVars, activations>> /\ stage[p] = "decline" /\ stage'[p] = "idle"
    BY <1>1, <1>10 DEF Decline
  <2>2. order[o] = "wallet_processing" /\ order'[o] = "rejected"
    BY <1>1, <1>10, <2>1 DEF Decline, o
  <2>3. OrderInv(o)'
    BY <1>1, <1>6, <2>1, <2>2 DEF walletVars, o
  <2>4. WorkInv(p)'
    BY <1>3, <2>1 DEF walletVars
  <2> QED
    BY <1>4, <2>1, <2>3, <2>4
<1>11. ASSUME stage[p] \in {"reserve", "consume", "giveback"},
              UNCHANGED <<walletVars, order, activations>>,
              stage'[p] \in {"consume", "giveback", "approve"}
       PROVE  PurchaseInv'
  <2>1. OrderInv(o)'
    BY <1>1, <1>6, <1>11 DEF walletVars
  <2>2. WorkInv(p)'
    BY <1>1, <1>3, <1>6, <1>11 DEF walletVars, o
  <2> QED
    BY <1>4, <1>11, <2>1, <2>2
<1>12. ASSUME NEW k \in {RefundKey[o], UndoKey[o]}, Begin(p, k), UNCHANGED <<order, activations>>,
              stage[p] \in {"reserve", "consume", "giveback", "activate"}, stage'[p] = "refund"
       PROVE  PurchaseInv'
  <2>1. pc'[p] = "insert" /\ cur'[p] = k /\ tx' = tx
    BY <1>1, <1>12, BeginOrderKey
  <2>2. /\ order[o] \in {"wallet_processing", "approved"} /\ Paid(o)
        /\ activations[o] = 0
    BY <1>1, <1>12 DEF o
  <2>3. OrderInv(o)'
    BY <1>1, <1>6, <1>12, <2>1
  <2>4. WorkInv(p)'
    BY <1>1, <1>6, <1>12, <2>1, <2>2 DEF o
  <2> QED
    BY <1>1, <1>5, <1>12, <2>3, <2>4
<1>13. CASE Reserve(p) \/ Consume(p) \/ GiveBack(p)
  BY <1>1, <1>11, <1>12, <1>13 DEF Reserve, Consume, GiveBack, PayBack, o
<1>14. CASE PaidBack(p)
  <2>1. /\ UNCHANGED <<walletVars, order, activations>>
        /\ stage[p] = "refund" /\ stage'[p] = "reject"
    BY <1>1, <1>14 DEF PaidBack
  <2>2. OrderInv(o)'
    BY <1>1, <1>6, <2>1 DEF walletVars
  <2>3. WorkInv(p)'
    BY <1>1, <1>3, <1>6, <2>1 DEF walletVars, o
  <2> QED
    BY <1>4, <2>1, <2>2, <2>3
<1>15. CASE Reject(p)
  <2>1. UNCHANGED <<walletVars, activations>> /\ stage[p] = "reject" /\ stage'[p] = "idle"
    BY <1>1, <1>15 DEF Reject
  <2>2. order'[o] = "rejected"
    BY <1>1, <1>15, <2>1 DEF Reject, o
  <2>3. OrderInv(o)'
    BY <1>1, <1>6, <2>1, <2>2 DEF walletVars, o
  <2>4. WorkInv(p)'
    BY <1>3, <2>1 DEF walletVars
  <2> QED
    BY <1>4, <2>1, <2>3, <2>4
<1>16. CASE Approve(p)
  <2>1. /\ UNCHANGED <<walletVars, activations>> /\ stage[p] = "approve" /\ stage'[p] = "activate"
        /\ order[o] = "wallet_processing" /\ order'[o] = "approved"
    BY <1>1, <1>16 DEF Approve, o
  <2>2. OrderInv(o)'
    BY <1>1, <1>6, <2>1 DEF walletVars
  <2>3. WorkInv(p)'
    BY <1>1, <1>3, <1>6, <2>1 DEF walletVars, o
  <2> QED
    BY <1>4, <2>1, <2>2, <2>3
<1>17. CASE Activate(p)
  <2>1. CASE planOpen
    <3>1. /\ UNCHANGED <<walletVars, order>> /\ stage[p] = "activate" /\ stage'[p] = "idle"
          /\ Paid(o) /\ order[o] = "approved"
      BY <1>1, <1>17, <2>1 DEF Activate, o
    <3>2. OrderInv(o)'
      BY <1>1, <1>6, <3>1 DEF walletVars
    <3>3. WorkInv(p)'
      BY <1>3, <3>1 DEF walletVars
    <3> QED
      BY <1>4, <3>1, <3>2, <3>3
  <2>2. CASE ~planOpen
    BY <1>1, <1>12, <1>17, <2>2 DEF Activate, PayBack, o
  <2> QED
    BY <2>1, <2>2
<1>18. ~Reread(p)
  BY <1>1 DEF Reread
<1> QED
  BY <1>7, <1>8, <1>9, <1>10, <1>13, <1>14, <1>15, <1>16, <1>17, <1>18 DEF BuyerStep

-----------------------------------------------------------------------------
(* What a step of a wallet call changes: its own program counter and       *)
(* result, and the status of the document of its key.                      *)
LEMMA CallFrame ==
    ASSUME TypeOK, NEW p \in Procs, Work(p)
    PROVE  /\ pc[p] # "idle" /\ cur' = cur
           /\ \A q \in Procs \ {p} : pc'[q] = pc[q] /\ ret'[q] = ret[q]
           /\ \A k \in Keys \ {cur[p]} : tx'[k] = tx[k]
<1> USE DEF TypeOK, Goto, Return, Settle
<1>1. CASE CheckCap(p) \/ Insert(p)
  BY <1>1 DEF CheckCap, Insert
<1>2. CASE Provision(p) \/ Apply(p)
  BY <1>2 DEF Provision, Apply
<1>3. CASE Fail(p) \/ Mark(p)
  BY <1>3 DEF Fail, Mark
<1> QED
  BY <1>1, <1>2, <1>3 DEF Work

(* The moves of a call whose key is not subject to the daily cap.          *)
LEMMA CallMoves ==
    ASSUME IInv, NEW p \in Procs, Work(p), pc[p] # "cap"
    PROVE  \/ /\ pc[p] = "insert" /\ tx[cur[p]] = "none"
              /\ pc'[p] = "provision" /\ tx'[cur[p]] = "pending"
           \/ /\ pc[p] = "insert" /\ tx[cur[p]] # "none"
              /\ pc'[p] = "idle" /\ tx'[cur[p]] = tx[cur[p]]
           \/ pc[p] = "provision" /\ pc'[p] = "apply" /\ tx'[cur[p]] = tx[cur[p]]
           \/ /\ pc[p] = "apply" /\ tx'[cur[p]] = tx[cur[p]]
              /\ \/ pc'[p] = "mark"
                 \/ pc'[p] = "fail" /\ CallDelta(cur[p]) < 0
           \/ /\ pc[p] = "fail" /\ pc'[p] = "idle"
              /\ ret'[p] = "insufficient" /\ tx'[cur[p]] = "failed"
           \/ /\ pc[p] = "mark" /\ pc'[p] = "idle"
              /\ ret'[p] = "ok" /\ tx'[cur[p]] = "ok"
<1>1. /\ TypeOK
      /\ pc[p] \in {"fail", "mark"} => tx[cur[p]] = "pending"
      /\ pc[p] = "apply" => delta[p] = CallDelta(cur[p])
      /\ cur[p] \in Keys
  BY DEF IInv, OwnerInv, DeltaInv, Owning, TypeOK
<1> USE DEF TypeOK, Goto, Return, Settle
<1>2. CASE Insert(p)
  BY <1>1, <1>2 DEF Insert
<1>3. CASE Provision(p)
  BY <1>1, <1>3 DEF Provision
<1>4. CASE Apply(p)
  BY <1>1, <1>4 DEF Apply
<1>5. CASE Fail(p)
  BY <1>1, <1>5 DEF Fail
<1>6. CASE Mark(p)
  BY <1>1, <1>6 DEF Mark
<1> QED
  BY <1>2, <1>3, <1>4, <1>5, <1>6 DEF Work, CheckCap

(* A step of the wallet call a request waits for.                          *)
LEMMA CallKeepsMoney ==
    ASSUME PurchaseInv, IInv', ShopTypeOK', NEW p \in Procs, Work(p), UNCHANGED shopVars,
           stage[p] # "idle"
    PROVE  PurchaseInv'
<1> DEFINE o == cart[p]
           D == DebitKey[o]
           R == RefundKey[o]
           U == UndoKey[o]
<1>1. /\ IInv /\ TypeOK /\ ShopTypeOK /\ o \in Orders /\ OrderInv(o) /\ WorkInv(p)
      /\ D \in KeysOf(o) /\ R \in KeysOf(o) /\ U \in KeysOf(o)
      /\ R # U /\ D # R /\ D # U /\ KeysOf(o) \subseteq Keys
      /\ TypeOf[R] = "reversal" /\ TypeOf[U] = "reversal"
  BY OrderKeyFacts DEF PurchaseInv, IInv, ShopTypeOK, KeysOf
<1>2. /\ Steps1(p) /\ UNCHANGED <<order, activations, stage, cart>>
      /\ o' = o /\ D' = D /\ R' = R /\ U' = U
  BY DEF shopVars, Steps1
<1>3. /\ pc[p] # "idle" /\ cur' = cur
      /\ \A q \in Procs \ {p} : pc'[q] = pc[q] /\ ret'[q] = ret[q]
      /\ \A k \in Keys \ {cur[p]} : tx'[k] = tx[k]
  BY <1>1, CallFrame
<1>4. stage[p] \in {"debit", "refund"} /\ pc[p] # "cap"
  BY <1>1, <1>3 DEF WorkInv
<1>5. cur[p] \in KeysOf(o)
  BY <1>1, <1>4 DEF WorkInv
<1>6. KeepsOthers(p)
  BY <1>2, <1>3, <1>5 DEF KeepsOthers
<1>7. SUFFICES OrderInv(o)' /\ WorkInv(p)'
  BY <1>2, <1>6, MoneyKept
<1>8. CASE stage[p] = "debit"
  <2>1. /\ cur[p] = D /\ Unused(R) /\ Unused(U) /\ order[o] = "wallet_processing"
        /\ pc[p] = "insert" => Unused(D)
    BY <1>1, <1>8 DEF WorkInv, Before
  <2>2. tx'[R] = tx[R] /\ tx'[U] = tx[U]
    BY <1>1, <1>3, <2>1
  <2>3. OrderInv(o)'
    BY <1>1, <1>2, <2>1, <2>2 DEF OrderInv, Unused
  <2>4. \/ pc'[p] \in {"provision", "apply", "mark", "fail"}
        \/ pc'[p] = "idle" /\ ret'[p] = "insufficient" /\ tx'[D] = "failed"
        \/ pc'[p] = "idle" /\ ret'[p] = "ok" /\ tx'[D] = "ok"
    BY <1>1, <1>4, <2>1, CallMoves DEF Unused
  <2>5. /\ stage'[p] = "debit" /\ order'[o] = "wallet_processing" /\ cur'[p] = D
        /\ tx'[R] = "none" /\ tx'[U] = "none"
    BY <1>2, <1>3, <1>8, <2>1, <2>2 DEF Unused
  <2>6. WorkInv(p)'
    BY <1>2, <2>4, <2>5 DEF WorkInv, Unused, Before
  <2> QED
    BY <2>3, <2>6
<1>9. CASE stage[p] = "refund"
  <2>1. PICK back \in {R, U} :
           /\ cur[p] = back
           /\ \A k \in {R, U} \ {back} : Unused(k)
           /\ pc[p] = "insert" => Unused(back)
           /\ pc[p] # "fail"
    BY <1>1, <1>9 DEF WorkInv
  <2>2. /\ tx[D] = "ok" /\ activations[o] = 0
        /\ order[o] \in {"wallet_processing", "approved"}
    BY <1>1, <1>9 DEF WorkInv
  <2>3. tx'[D] = "ok" /\ \A k \in {R, U} \ {back} : tx'[k] = "none"
    BY <1>1, <1>3, <2>1, <2>2 DEF Unused
  <2>4. CallDelta(back) > 0
    BY <1>1, WalletAssumption DEF CallDelta, DebitTypes
  <2>5. \/ pc'[p] \in {"provision", "apply", "mark"}
        \/ pc'[p] = "idle" /\ tx'[back] = "ok"
    BY <1>1, <1>4, <2>1, <2>4, CallMoves, CallDeltaType DEF Unused
  <2>6. OrderInv(o)'
    BY <1>1, <1>2, <2>1, <2>2, <2>3 DEF OrderInv, Unused
  <2>7. /\ stage'[p] = "refund" /\ order'[o] \in {"wallet_processing", "approved"}
        /\ activations'[o] = 0 /\ cur'[p] = back
    BY <1>2, <1>3, <1>9, <2>1, <2>2
  <2>8. WorkInv(p)'
    BY <1>2, <2>1, <2>3, <2>5, <2>7 DEF WorkInv, Unused, Before
  <2> QED
    BY <2>6, <2>8
<1> QED
  BY <1>4, <1>8, <1>9

(* Whatever happens to no working request and to no key of an order.       *)
LEMMA OthersKeepMoney ==
    ASSUME PurchaseInv, IInv', ShopTypeOK', NEW p \in Procs,
           \A q \in Procs \ {p} : SameWork(q), \A o \in Orders : SameOrder(o),
           Alone', WorkInv(p)'
    PROVE  PurchaseInv'
<1>1. \A o \in Orders : OrderInv(o)'
  BY OrderSame DEF PurchaseInv
<1>2. ASSUME NEW q \in Procs \ {p}
      PROVE  WorkInv(q)'
  BY WorkSame DEF PurchaseInv, ShopTypeOK
<1> QED
  BY <1>1, <1>2 DEF PurchaseInv

(* An order keeps its documents when the shop keeps its orders and the     *)
(* ledger the documents of their keys.                                     *)
LEMMA OrdersSame ==
    ASSUME UNCHANGED <<order, activations>>, \A k \in OrderKeys : tx'[k] = tx[k]
    PROVE  \A o \in Orders : SameOrder(o)
<1>1. \A o \in Orders : {DebitKey[o], RefundKey[o], UndoKey[o]} \subseteq OrderKeys
  BY OrderKeyFacts DEF KeysOf
<1> QED
  BY <1>1 DEF SameOrder

(* Every step keeps the invariant, unless an order is requested again.     *)
LEMMA PurchaseStep ==
    ASSUME Retry = "never"
    PROVE  PurchaseInv /\ [PurchaseNext]_vars => PurchaseInv'
<1> SUFFICES ASSUME PurchaseInv, [PurchaseNext]_vars
             PROVE  PurchaseInv'
  OBVIOUS
<1>1. IInv /\ TypeOK /\ ShopTypeOK /\ IInv' /\ ShopTypeOK'
  BY WalletKept, ShopKept DEF PurchaseInv, IInv
<1>2. ASSUME NEW p \in Procs, BuyerStep(p), ~Work(p)
      PROVE  PurchaseInv'
  BY <1>1, <1>2, ShopKeepsMoney
<1>3. ASSUME NEW p \in Procs, Work(p), UNCHANGED shopVars
      PROVE  PurchaseInv'
  <2>1. CASE stage[p] # "idle"
    BY <1>1, <1>3, <2>1, CallKeepsMoney
  <2>2. CASE stage[p] = "idle"
    <3>1. /\ cur' = cur /\ pc[p] # "idle"
          /\ \A q \in Procs \ {p} : pc'[q] = pc[q] /\ ret'[q] = ret[q]
          /\ \A k \in Keys \ {cur[p]} : tx'[k] = tx[k]
      BY <1>1, <1>3, CallFrame
    <3>2. UNCHANGED <<order, activations, stage, cart>>
      BY <1>3 DEF shopVars
    <3>3. cur[p] \notin OrderKeys
      BY <2>2, <3>1 DEF PurchaseInv, WorkInv
    <3>4. \A o \in Orders : SameOrder(o)
      <4>1. OrderKeys \subseteq Keys
        BY OrderKeyFacts DEF OrderKeys
      <4> QED
        BY <3>1, <3>2, <3>3, <4>1, OrdersSame
    <3>5. WorkInv(p)'
      BY <2>2, <3>1, <3>2, <3>3 DEF WorkInv, Before, OrderKeys, KeysOf
    <3>6. Alone'
      BY <3>2 DEF PurchaseInv, Alone
    <3>7. \A q \in Procs \ {p} : SameWork(q)
      BY <3>1, <3>2 DEF SameWork
    <3> QED
      BY <1>1, <3>4, <3>5, <3>6, <3>7, OthersKeepMoney
  <2> QED
    BY <2>1, <2>2
<1>4. ASSUME NEW p \in Procs, BuyerCrash(p)
      PROVE  PurchaseInv'
  <2>1. /\ stage[p] # "idle" /\ stage'[p] = "idle" /\ pc'[p] = "idle"
        /\ \A q \in Procs \ {p} : SameWork(q)
        /\ UNCHANGED <<order, activations, cart, tx>>
    BY <1>1, <1>4 DEF BuyerCrash, Enter, Return, Goto, ShopTypeOK, TypeOK, SameWork
  <2>2. Alone'
    BY <1>1, <1>4, BuyerFrame, AloneKept, <2>1 DEF PurchaseInv
  <2>3. WorkInv(p)'
    BY <2>1 DEF WorkInv, Before
  <2> QED
    BY <1>1, <2>1, <2>2, <2>3, OthersKeepMoney, OrdersSame
<1>5. ASSUME NEW p \in Procs, NEW o \in Orders, Request(p, o)
      PROVE  PurchaseInv'
  <2>1. order[o] = "none" /\ ~Working(o)
    BY <1>5 DEF Request, MayRequest
  <2>2. /\ stage'[p] = "order" /\ cart'[p] = o /\ pc'[p] = "idle"
        /\ UNCHANGED <<walletVars, order, activations>>
        /\ \A q \in Procs \ {p} : stage'[q] = stage[q] /\ cart'[q] = cart[q]
    BY <1>1, <1>5 DEF Request, At, Enter, ShopTypeOK, walletVars
  <2>3. Alone'
    BY <2>1, <2>2 DEF PurchaseInv, Alone, Working
  <2>4. \A q \in Procs \ {p} : SameWork(q)
    BY <2>2 DEF SameWork, walletVars
  <2>5. WorkInv(p)'
    BY <2>1, <2>2 DEF WorkInv, Before
  <2>6. \A u \in Orders : SameOrder(u)
    BY <2>2, OrdersSame DEF walletVars
  <2> QED
    BY <1>1, <2>3, <2>4, <2>5, <2>6, OthersKeepMoney
<1>6. ASSUME NEW p \in Procs, NEW k \in Keys \ OrderKeys,
             At(p, "idle"), Begin(p, k), UNCHANGED shopVars
      PROVE  PurchaseInv'
  <2>1. UNCHANGED <<tx, order, activations, stage, cart>> /\ stage[p] = "idle" /\ cur'[p] = k
    BY <1>1, <1>6 DEF Begin, At, shopVars, TypeOK
  <2>2. \A q \in Procs \ {p} : pc'[q] = pc[q] /\ cur'[q] = cur[q] /\ ret'[q] = ret[q]
    BY <1>1, <1>6 DEF Begin, Return, Goto, TypeOK
  <2>3. Alone'
    BY <2>1 DEF PurchaseInv, Alone
  <2>4. \A q \in Procs \ {p} : SameWork(q)
    BY <2>1, <2>2 DEF SameWork
  <2>5. WorkInv(p)'
    BY <1>6, <2>1 DEF WorkInv, Before, OrderKeys, KeysOf
  <2>6. \A u \in Orders : SameOrder(u)
    BY <2>1, OrdersSame
  <2> QED
    BY <1>1, <2>3, <2>4, <2>5, <2>6, OthersKeepMoney
<1>7. CASE PlanDropped \/ CodeCloses \/ OtherUse \/ UNCHANGED vars
  <2>1. UNCHANGED <<walletVars, order, activations, stage, cart>>
    BY <1>7 DEF PlanDropped, CodeCloses, OtherUse, vars, shopVars
  <2>2. \A o \in Orders : OrderInv(o)'
    BY <2>1 DEF PurchaseInv, OrderInv, Unused, walletVars
  <2>3. \A p \in Procs : WorkInv(p)'
    BY <2>1 DEF PurchaseInv, WorkInv, Unused, Paid, walletVars
  <2> QED
    BY <1>1, <2>1, <2>2, <2>3 DEF PurchaseInv, Alone
<1>8. ASSUME NEW p \in Procs, BuyerStep(p)
      PROVE  PurchaseInv'
  <2>1. CASE Work(p)
    <3>1. pc[p] # "idle"
      BY <1>1, <2>1, CallFrame
    <3>2. UNCHANGED shopVars
      BY <1>8, <3>1 DEF BuyerStep, At, CreateOrder, Look, Debited, Decline, Reserve, Consume,
         GiveBack, PaidBack, Reject, Approve, Reread, Activate
    <3> QED
      BY <1>3, <2>1, <3>2
  <2>2. CASE ~Work(p)
    BY <1>2, <1>8, <2>2
  <2> QED
    BY <2>1, <2>2
<1>9. ASSUME NEW p \in Procs, Deposit(p)
      PROVE  PurchaseInv'
  BY <1>6, <1>9 DEF Deposit
<1> QED
  BY <1>4, <1>5, <1>7, <1>8, <1>9 DEF PurchaseNext

(* The invariant holds initially.                                          *)
LEMMA PurchaseStart == PurchaseInit => PurchaseInv
<1> SUFFICES ASSUME PurchaseInit
             PROVE  PurchaseInv
  OBVIOUS
<1>1. IInv /\ ShopTypeOK
  BY ShopInit, InitInv DEF PurchaseInit
<1>2. /\ \A p \in Procs : stage[p] = "idle" /\ pc[p] = "idle"
      /\ \A o \in Orders : order[o] = "none" /\ activations[o] = 0
      /\ \A k \in Keys : tx[k] = "none"
  BY DEF PurchaseInit, Init
<1>3. \A o \in Orders : OrderInv(o)
  BY <1>2, OrderKeyFacts DEF OrderInv, Unused, KeysOf
<1>4. Alone /\ \A p \in Procs : WorkInv(p)
  BY <1>2 DEF Alone, WorkInv, Before
<1> QED
  BY <1>1, <1>3, <1>4 DEF PurchaseInv

(* The invariant gives the three promises about an order's money.          *)
LEMMA MoneyPromises ==
    PurchaseInv => ActivatedIsPaid /\ RefundsAreEarned /\ RejectedIsFree
<1> SUFFICES ASSUME PurchaseInv, NEW o \in Orders
             PROVE  /\ activations[o] > 0 => effects[DebitKey[o]] = 1 /\ GivenBack(o) = 0
                    /\ GivenBack(o) <= effects[DebitKey[o]]
                    /\ order[o] = "rejected" =>
                          activations[o] = 0 /\ GivenBack(o) = effects[DebitKey[o]]
  BY DEF ActivatedIsPaid, RefundsAreEarned, RejectedIsFree
<1>1. \A k \in KeysOf(o) :
         /\ effects[k] \in Nat /\ effects[k] <= 1
         /\ tx[k] = "ok" => effects[k] = 1
         /\ tx[k] \in {"none", "failed"} => effects[k] = 0
  BY OrderKeyFacts DEF PurchaseInv, IInv, TypeOK, OneEffect, StatusTellsEffect
<1>2. OrderInv(o)
  BY DEF PurchaseInv
<1> QED
  BY <1>1, <1>2 DEF OrderInv, Unused, GivenBack, KeysOf

(* A period is granted for money taken and kept: for the bot, whose every  *)
(* request has an order of its own.                                        *)
THEOREM PaidAndKept ==
    ASSUME Retry = "never"
    PROVE  PurchaseSpec => []ActivatedIsPaid
  BY PurchaseStart, PurchaseStep, MoneyPromises, PTL DEF PurchaseSpec

(* The two compensations of wallet_purchase give back only what was taken, *)
(* and only once, for the same requests.                                   *)
THEOREM EarnedRefunds ==
    ASSUME Retry = "never"
    PROVE  PurchaseSpec => []RefundsAreEarned
  BY PurchaseStart, PurchaseStep, MoneyPromises, PTL DEF PurchaseSpec

(* A rejected order has cost nothing and granted nothing, for the same     *)
(* requests: whichever step failed or crashed before.                      *)
THEOREM RejectedForFree ==
    ASSUME Retry = "never"
    PROVE  PurchaseSpec => []RejectedIsFree
  BY PurchaseStart, PurchaseStep, MoneyPromises, PTL DEF PurchaseSpec
=============================================================================
