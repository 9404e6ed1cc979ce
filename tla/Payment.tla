------------------------------- MODULE Payment -------------------------------
(***************************************************************************)
(* Payments that are decided later than they are made: receipts of bank    *)
(* transfers, decided by staff, and payments at the Zarinpal gateway,      *)
(* decided by the user's verify call or by the hourly cleanup in bot.py.   *)
(* Either kind buys a period or tops the wallet up, and may carry the one  *)
(* discount code of the model.                                             *)
(*                                                                         *)
(* A call is a coroutine: it goes from stage to stage, one database or     *)
(* gateway call each, and may die between any two (Crash).  What the       *)
(* wallet does is reduced to its promise (module Ledger): one effect per   *)
(* reference key, or a pending document left by a dead call.               *)
(***************************************************************************)
EXTENDS Naturals, FiniteSets

CONSTANTS
    Payments,  \* sub_payments documents
    Users,
    Owner,     \* Owner[p]: user_id
    Gateway,   \* the payments with method = zarinpal; the others are receipts
    Topups,    \* the payments with plan_id = wallet_topup
    Coded,     \* the payments that carry the discount code
    Calls,     \* coroutines of the API
    Job,       \* zarinpal_cleanup_job, one instance
    Ops,       \* the operations that happen; "drop": staff delete the plan
    MaxUses,   \* max_uses of the code, 0 for unlimited
    PerUser,   \* the code has a per_user_limit
    Reliable,  \* no call dies
    Orderly,   \* users pay and verify within the hour of the cleanup, and do
               \* not repeat the key of a receipt
    Careful    \* staff refund and reconcile a payment only while no call about
               \* it runs, and activate none that has had its period

ASSUME PaymentAssumption ==
    /\ Payments # {}
    /\ Owner \in [Payments -> Users]
    /\ Gateway \subseteq Payments /\ Topups \subseteq Payments
    /\ Coded \subseteq Payments \ Topups
    /\ Job \notin Calls
    /\ MaxUses \in Nat /\ PerUser \in BOOLEAN
    /\ Ops \subseteq {"submit", "request", "verify", "approve", "reject", "cancel",
                      "refund", "activate", "finalize", "drop"}
    /\ Reliable \in BOOLEAN /\ Orderly \in BOOLEAN /\ Careful \in BOOLEAN

VARIABLES
    status,    \* status[p]: of the document
    gate,      \* gate[p]: the authority's state at Zarinpal; "kept": paid, and
               \* the cleanup has tried to reverse it in vain
    grants,    \* grants[p]: periods sub_activate has added for p (history)
    active,    \* the users whose subscription is active
    topup,     \* topup[p]: the wallet key ('sub_payment_topup', p)
    refund,    \* refund[p]: the wallet key ('sub_payment_refund', p)
    creditedAt,\* the payments with topup_credited_at
    overrun,   \* the payments with discount_overrun
    used,      \* discount_codes.used_count
    reserved,  \* the users with a discount_uses document
    planOpen,  \* the plan exists and its days are positive
    call,      \* call[c]: the running call of c
    picked     \* the payments the cleanup has read and not yet worked off

money == <<grants, active, topup, refund, creditedAt>>
code  == <<used, reserved>>
vars  == <<status, gate, money, overrun, code, planOpen, call, picked>>

Status == {"none", "pending", "zarinpal_pending", "approved", "rejected",
           "cancelled", "refunded"}
Gates  == {"none", "open", "paid", "verified", "reversed", "kept"}
Effect == {"none", "stuck", "ok"}
Stages == {"idle", "reserve", "consume", "unreserve", "create", "open", "ask",
           "approve", "decide", "cancel", "refund", "revoke", "credit",
           "finalize", "topup", "stamp", "overrun", "free", "decrement",
           "flip", "reverse"}

Procs == Calls \cup {Job}

(* op: what the call is; yes: that the discount could not be consumed, or  *)
(* that the cleanup's update matched; seen: the document had               *)
(* topup_credited_at.                                                      *)
Idle == [at |-> "idle", op |-> "none", pay |-> CHOOSE p \in Payments : TRUE,
         yes |-> FALSE, seen |-> FALSE]

PaymentInit ==
    /\ status = [p \in Payments |-> "none"]
    /\ gate = [p \in Payments |-> "none"]
    /\ grants = [p \in Payments |-> 0]
    /\ active = {}
    /\ topup = [p \in Payments |-> "none"] /\ refund = [p \in Payments |-> "none"]
    /\ creditedAt = {} /\ overrun = {}
    /\ used = 0 /\ reserved = {}
    /\ planOpen = TRUE
    /\ call = [c \in Procs |-> Idle]
    /\ picked = {}

At(c, s)  == call[c].at = s
Pay(c)    == call[c].pay
Buyer(c)  == Owner[Pay(c)]
Goto(c, s) == call' = [call EXCEPT ![c].at = s]
Finish(c)  == call' = [call EXCEPT ![c] = Idle]
About(p)   == {c \in Procs : call[c].at # "idle" /\ call[c].pay = p}
Verifying(p) == \E c \in About(p) : call[c].op = "verify"
HasCapacity == MaxUses = 0 \/ used < MaxUses
HasPending(u) == \E p \in Payments : Owner[p] = u /\ status[p] = "pending"

Start(c, op, p, s) ==
    /\ op \in Ops /\ At(c, "idle") /\ c \in Calls
    /\ call' = [call EXCEPT ![c] = [Idle EXCEPT !.op = op, !.pay = p, !.at = s,
                                                !.seen = p \in creditedAt]]
    /\ UNCHANGED <<status, gate, money, overrun, code, planOpen, picked>>

-----------------------------------------------------------------------------
(* Starting points of the calls, with the checks made on what they read.   *)

(* discount_validate, and no receipt of the user waits for a decision.  A  *)
(* code that is switched off or out of date is refused like a full one.    *)
MayBuy(p) ==
    /\ ~HasPending(Owner[p])
    /\ p \notin Topups => planOpen
    /\ p \in Coded => HasCapacity /\ (PerUser => Owner[p] \notin reserved)

Submit(c, p) ==
    /\ p \notin Gateway /\ MayBuy(p)
    /\ Orderly => status[p] = "none" /\ About(p) = {}
    /\ Start(c, "submit", p, IF p \notin Coded THEN "create"
                             ELSE IF PerUser THEN "reserve" ELSE "consume")

(* A key that is known is answered with the old authority: no effect.      *)
(* Left out: two requests with one key at once, that each open an          *)
(* authority before either has inserted; only one of them gets a document. *)
Request(c, p) ==
    /\ p \in Gateway /\ status[p] = "none" /\ About(p) = {} /\ MayBuy(p)
    /\ Start(c, "request", p, "open")

Verify(c, p) ==
    /\ status[p] = "zarinpal_pending"
    /\ Orderly => p \notin picked /\ ~\E j \in About(p) : call[j].op = "clean"
    /\ Start(c, "verify", p, "ask")

(* The staff's verdict.  Only an approval looks the plan up, and only in   *)
(* the bot can a top-up be approved: the web route asks for its plan too.  *)
Decide(c, p) ==
    /\ status[p] = "pending"
    /\ \/ (p \in Topups \/ planOpen) /\ Start(c, "approve", p, "decide")
       \/ Start(c, "reject", p, "decide")

Cancel(c, p) == status[p] = "pending" /\ Start(c, "cancel", p, "cancel")

Refund(c, p) ==
    /\ status[p] = "approved"
    /\ Careful => About(p) = {}
    /\ Start(c, "refund", p, "refund")

(* The user must have no active subscription; what became of the period of *)
(* this payment is not looked at.                                          *)
ReconcileActivate(c, p) ==
    /\ status[p] = "approved" /\ p \notin Topups
    /\ Owner[p] \notin active
    /\ Careful => About(p) = {} /\ grants[p] = 0
    /\ Start(c, "activate", p, "finalize")

ReconcileTopup(c, p) ==
    /\ status[p] = "approved" /\ p \in Topups
    /\ Careful => About(p) = {}
    /\ Start(c, "finalize", p, "finalize")

-----------------------------------------------------------------------------
(* discount_consume, for a receipt before the document is created, for a   *)
(* gateway payment once the gateway has confirmed it.                      *)
Consumed(c) == IF call[c].op = "submit" THEN Goto(c, "create") ELSE Goto(c, "approve")
NotConsumed(c) ==
    IF call[c].op = "submit"
    THEN Finish(c)
    ELSE call' = [call EXCEPT ![c].at = "approve", ![c].yes = TRUE]

Reserve(c) ==
    /\ At(c, "reserve")
    /\ reserved' = reserved \cup {Buyer(c)}
    /\ IF Buyer(c) \in reserved THEN NotConsumed(c) ELSE Goto(c, "consume")
    /\ UNCHANGED <<status, gate, money, overrun, used, planOpen, picked>>

Consume(c) ==
    /\ At(c, "consume")
    /\ IF HasCapacity
       THEN used' = used + 1 /\ Consumed(c)
       ELSE /\ UNCHANGED used
            /\ IF PerUser THEN Goto(c, "unreserve") ELSE NotConsumed(c)
    /\ UNCHANGED <<status, gate, money, overrun, reserved, planOpen, picked>>

(* Mutant: the payment is not marked as one that overran the code.         *)
UnreserveUnmarked(c) ==
    /\ At(c, "unreserve")
    /\ reserved' = reserved \ {Buyer(c)}
    /\ IF call[c].op = "submit" THEN Finish(c) ELSE Goto(c, "approve")
    /\ UNCHANGED <<status, gate, money, overrun, used, planOpen, picked>>

Unreserve(c) ==
    /\ At(c, "unreserve")
    /\ reserved' = reserved \ {Buyer(c)}
    /\ NotConsumed(c)
    /\ UNCHANGED <<status, gate, money, overrun, used, planOpen, picked>>

(* discount_release: the reservation first; a per-user code whose          *)
(* reservation was not there keeps its counter.                            *)
AfterRelease(c) == IF call[c].op = "clean" THEN Goto(c, "reverse") ELSE Finish(c)
Release(c) == IF Pay(c) \in Coded THEN Goto(c, "free") ELSE AfterRelease(c)

(* Mutant: the counter falls whether or not a reservation was deleted.     *)
FreeRegardless(c) ==
    /\ At(c, "free")
    /\ reserved' = reserved \ {Buyer(c)}
    /\ Goto(c, "decrement")
    /\ UNCHANGED <<status, gate, money, overrun, used, planOpen, picked>>

Free(c) ==
    /\ At(c, "free")
    /\ reserved' = reserved \ {Buyer(c)}
    /\ IF PerUser /\ Buyer(c) \notin reserved THEN AfterRelease(c) ELSE Goto(c, "decrement")
    /\ UNCHANGED <<status, gate, money, overrun, used, planOpen, picked>>

Decrement(c) ==
    /\ At(c, "decrement")
    /\ used' = IF used > 0 THEN used - 1 ELSE used
    /\ AfterRelease(c)
    /\ UNCHANGED <<status, gate, money, overrun, reserved, planOpen, picked>>

-----------------------------------------------------------------------------
(* sub_payment_create: an idempotency key that is known gives the existing *)
(* document; an insert that fails gives the code back.                     *)
CreateReceipt(c) ==
    /\ At(c, "create") /\ Pay(c) \notin Gateway
    /\ \/ /\ status' = [status EXCEPT ![Pay(c)] = IF @ = "none" THEN "pending" ELSE @]
          /\ Finish(c)
       \/ status[Pay(c)] = "none" /\ Release(c) /\ UNCHANGED status
    /\ UNCHANGED <<gate, money, overrun, code, planOpen, picked>>

(* External: Zarinpal opens an authority for the payment, or refuses.      *)
OpenAuthority(c) ==
    /\ At(c, "open")
    /\ \/ gate' = [gate EXCEPT ![Pay(c)] = "open"] /\ Goto(c, "create")
       \/ Finish(c) /\ UNCHANGED gate
    /\ UNCHANGED <<status, money, overrun, code, planOpen, picked>>

(* sub_payment_create_zarinpal; the failure of the insert releases a code  *)
(* that this payment has not consumed.                                     *)
CreateGateway(c) ==
    /\ At(c, "create") /\ Pay(c) \in Gateway
    /\ \/ status' = [status EXCEPT ![Pay(c)] = "zarinpal_pending"] /\ Finish(c)
       \/ Release(c) /\ UNCHANGED status
    /\ UNCHANGED <<gate, money, overrun, code, planOpen, picked>>

(* External: the user pays on the page of the gateway.                     *)
PayAtGateway(p) ==
    /\ gate[p] = "open" /\ status[p] # "none"
    /\ Orderly => /\ status[p] = "zarinpal_pending" /\ p \notin picked
                 /\ ~\E j \in About(p) : call[j].op = "clean"
    /\ gate' = [gate EXCEPT ![p] = "paid"]
    /\ UNCHANGED <<status, money, overrun, code, planOpen, call, picked>>

(* Mutant: the answer of the gateway is not looked at.                     *)
AskDeaf(c) ==
    /\ At(c, "ask")
    /\ gate' = [gate EXCEPT ![Pay(c)] = IF @ \in {"paid", "kept"} THEN "verified" ELSE @]
    /\ Goto(c, IF Pay(c) \notin Coded THEN "approve" ELSE
                  IF PerUser THEN "reserve" ELSE "consume")
    /\ UNCHANGED <<status, money, overrun, code, planOpen, picked>>

(* zarinpal_verify: 100 for a paid authority, 101 for one verified before. *)
Ask(c) ==
    /\ At(c, "ask")
    /\ gate' = [gate EXCEPT ![Pay(c)] = IF @ \in {"paid", "kept"} THEN "verified" ELSE @]
    /\ IF gate[Pay(c)] \in {"paid", "kept", "verified"}
       THEN Goto(c, IF Pay(c) \notin Coded THEN "approve" ELSE
                       IF PerUser THEN "reserve" ELSE "consume")
       ELSE Finish(c)
    /\ UNCHANGED <<status, money, overrun, code, planOpen, picked>>

Marked(c) == IF call[c].yes THEN Goto(c, "overrun") ELSE Finish(c)

(* Mutant: a payment found approved is finalized once more.                *)
ApproveAgain(c) ==
    /\ At(c, "approve")
    /\ CASE status[Pay(c)] = "zarinpal_pending" ->
              status' = [status EXCEPT ![Pay(c)] = "approved"] /\ Goto(c, "finalize")
         [] status[Pay(c)] = "approved" -> Goto(c, "finalize") /\ UNCHANGED status
         [] OTHER -> Release(c) /\ UNCHANGED status
    /\ UNCHANGED <<gate, money, overrun, code, planOpen, picked>>

(* sub_payment_verify_zarinpal: zarinpal_pending -> approved, else it is   *)
(* reread; neither pending nor approved is an error, and the caller then   *)
(* releases the code.                                                      *)
Approve(c) ==
    /\ At(c, "approve")
    /\ CASE status[Pay(c)] = "zarinpal_pending" ->
              status' = [status EXCEPT ![Pay(c)] = "approved"] /\ Goto(c, "finalize")
         [] status[Pay(c)] = "approved" -> Marked(c) /\ UNCHANGED status
         [] OTHER -> Release(c) /\ UNCHANGED status
    /\ UNCHANGED <<gate, money, overrun, code, planOpen, picked>>

MarkOverrun(c) ==
    /\ At(c, "overrun")
    /\ overrun' = overrun \cup {Pay(c)}
    /\ Finish(c)
    /\ UNCHANGED <<status, gate, money, code, planOpen, picked>>

(* sub_payment_decide; a rejection then releases the code.                 *)
DecideCAS(c) ==
    /\ At(c, "decide")
    /\ IF status[Pay(c)] = "pending"
       THEN IF call[c].op = "approve"
            THEN status' = [status EXCEPT ![Pay(c)] = "approved"] /\ Goto(c, "finalize")
            ELSE status' = [status EXCEPT ![Pay(c)] = "rejected"] /\ Release(c)
       ELSE Finish(c) /\ UNCHANGED status
    /\ UNCHANGED <<gate, money, overrun, code, planOpen, picked>>

(* sub_payment_cancel.                                                     *)
CancelCAS(c) ==
    /\ At(c, "cancel")
    /\ IF status[Pay(c)] = "pending"
       THEN status' = [status EXCEPT ![Pay(c)] = "cancelled"] /\ Release(c)
       ELSE Finish(c) /\ UNCHANGED status
    /\ UNCHANGED <<gate, money, overrun, code, planOpen, picked>>

-----------------------------------------------------------------------------
(* finalize_approved_payment: a period, or a credit of the wallet and the  *)
(* stamp that it has been made.  It does not look at the status.           *)
Finalize(c) ==
    /\ At(c, "finalize")
    /\ \/ /\ Pay(c) \in Topups
          /\ IF call[c].seen THEN Finish(c) ELSE Goto(c, "topup")
          /\ UNCHANGED money
       \/ /\ Pay(c) \notin Topups /\ planOpen
          /\ grants' = [grants EXCEPT ![Pay(c)] = @ + 1]
          /\ active' = active \cup {Buyer(c)}
          /\ Marked(c)
          /\ UNCHANGED <<topup, refund, creditedAt>>
       \/ /\ Pay(c) \notin Topups /\ ~planOpen
          /\ IF call[c].op = "verify" THEN Release(c) ELSE Finish(c)
          /\ UNCHANGED money
    /\ UNCHANGED <<status, gate, overrun, code, planOpen, picked>>

(* wallet_credit: a key that is taken gives the existing document, a       *)
(* pending one included.                                                   *)
Credited(e) == IF e = "none" THEN "ok" ELSE e

TopupCredit(c) ==
    /\ At(c, "topup")
    /\ topup' = [topup EXCEPT ![Pay(c)] = Credited(@)]
    /\ Goto(c, "stamp")
    /\ UNCHANGED <<status, gate, grants, active, refund, creditedAt, overrun, code, planOpen, picked>>

Stamp(c) ==
    /\ At(c, "stamp")
    /\ creditedAt' = creditedAt \cup {Pay(c)}
    /\ Finish(c)
    /\ UNCHANGED <<status, gate, grants, active, topup, refund, overrun, code, planOpen, picked>>

(* Mutant: the credit precedes the change of status.                       *)
RefundCreditFirst(c) ==
    /\ At(c, "refund")
    /\ refund' = [refund EXCEPT ![Pay(c)] = Credited(@)]
    /\ Goto(c, "revoke")
    /\ UNCHANGED <<status, gate, grants, active, topup, creditedAt, overrun, code, planOpen, picked>>

(* sub_payment_refund: approved -> refunded, then the optional revocation. *)
RefundCAS(c) ==
    /\ At(c, "refund")
    /\ IF status[Pay(c)] = "approved"
       THEN /\ status' = [status EXCEPT ![Pay(c)] = "refunded"]
            /\ Goto(c, "revoke") \/ Goto(c, "credit")
       ELSE Finish(c) /\ UNCHANGED status
    /\ UNCHANGED <<gate, money, overrun, code, planOpen, picked>>

Revoke(c) ==
    /\ At(c, "revoke")
    /\ active' = active \ {Buyer(c)}
    /\ Goto(c, "credit")
    /\ UNCHANGED <<status, gate, grants, topup, refund, creditedAt, overrun, code, planOpen, picked>>

RefundCredit(c) ==
    /\ At(c, "credit")
    /\ refund' = [refund EXCEPT ![Pay(c)] = Credited(@)]
    /\ Finish(c)
    /\ UNCHANGED <<status, gate, grants, active, topup, creditedAt, overrun, code, planOpen, picked>>

-----------------------------------------------------------------------------

Pickable(p) ==
    /\ status[p] = "zarinpal_pending"
    /\ Orderly => gate[p] = "open" \/ ~Verifying(p)

Pick(S) ==
    /\ At(Job, "idle") /\ picked = {}
    /\ S # {} /\ \A p \in S : Pickable(p)
    /\ picked' = S
    /\ UNCHANGED <<status, gate, money, overrun, code, planOpen, call>>

NextDoc(p) ==
    /\ At(Job, "idle") /\ p \in picked
    /\ picked' = picked \ {p}
    /\ call' = [call EXCEPT ![Job] = [Idle EXCEPT !.op = "clean", !.pay = p, !.at = "flip"]]
    /\ UNCHANGED <<status, gate, money, overrun, code, planOpen>>

(* Mutant: the cleanup cancels whatever it has read as pending.            *)
FlipBlind ==
    /\ At(Job, "flip")
    /\ status' = [status EXCEPT ![Pay(Job)] = "cancelled"]
    /\ call' = [call EXCEPT ![Job].yes = TRUE,
                            ![Job].at = IF Pay(Job) \in Coded THEN "free" ELSE "reverse"]
    /\ UNCHANGED <<gate, money, overrun, code, planOpen, picked>>

(* The code is released whether or not the update has matched.             *)
Flip ==
    /\ At(Job, "flip")
    /\ status' = [status EXCEPT ![Pay(Job)] = IF @ = "zarinpal_pending" THEN "cancelled" ELSE @]
    /\ call' = [call EXCEPT ![Job].yes = status[Pay(Job)] = "zarinpal_pending",
                            ![Job].at = IF Pay(Job) \in Coded THEN "free" ELSE "reverse"]
    /\ UNCHANGED <<gate, money, overrun, code, planOpen, picked>>

(* Mutant: nothing is reversed at the gateway.                             *)
ReverseNothing ==
    /\ At(Job, "reverse")
    /\ Finish(Job)
    /\ UNCHANGED <<status, gate, money, overrun, code, planOpen, picked>>

(* zarinpal_reverse: only what is paid and not verified.  It may be        *)
(* refused, which leaves a mark on the document, or raise, which is        *)
(* logged; the payment is cancelled all the same and it is not tried again. *)
Reverse ==
    /\ At(Job, "reverse")
    /\ \E outcome \in {"reversed", "kept"} :
          gate' = [gate EXCEPT ![Pay(Job)] =
                      IF call[Job].yes /\ @ = "paid" THEN outcome ELSE @]
    /\ Finish(Job)
    /\ UNCHANGED <<status, money, overrun, code, planOpen, picked>>

-----------------------------------------------------------------------------
(* The process dies, or a call of the database raises: the coroutine is    *)
(* lost.  In the middle of a wallet call it may leave a pending document.  *)
(* The cleanup catches what one payment raises and goes on with the next.  *)
Left(e, inside) == IF inside /\ e = "none" THEN {"none", "stuck"} ELSE {e}

Crash(c) ==
    /\ ~Reliable /\ ~At(c, "idle")
    /\ call' = [call EXCEPT ![c] = Idle]
    /\ picked' = picked \/ (c = Job /\ picked' = {})
    /\ \E e \in Left(topup[Pay(c)], At(c, "topup")) : topup' = [topup EXCEPT ![Pay(c)] = e]
    /\ \E e \in Left(refund[Pay(c)], At(c, "credit")) : refund' = [refund EXCEPT ![Pay(c)] = e]
    /\ UNCHANGED <<status, gate, grants, active, creditedAt, overrun, code, planOpen>>

PlanDropped == "drop" \in Ops /\ planOpen /\ planOpen' = FALSE
               /\ UNCHANGED <<status, gate, money, overrun, code, call, picked>>

Begin(c) ==
    \E p \in Payments :
       \/ Submit(c, p) \/ Request(c, p) \/ Verify(c, p) \/ Decide(c, p)
       \/ Cancel(c, p) \/ Refund(c, p) \/ ReconcileActivate(c, p) \/ ReconcileTopup(c, p)

Step(c) ==
    \/ Reserve(c) \/ Consume(c) \/ Unreserve(c) \/ Free(c) \/ Decrement(c)
    \/ CreateReceipt(c) \/ OpenAuthority(c) \/ CreateGateway(c)
    \/ Ask(c) \/ Approve(c) \/ MarkOverrun(c) \/ DecideCAS(c) \/ CancelCAS(c)
    \/ Finalize(c) \/ TopupCredit(c) \/ Stamp(c)
    \/ RefundCAS(c) \/ Revoke(c) \/ RefundCredit(c)

JobStep ==
    \/ Flip \/ Reverse \/ Free(Job) \/ Decrement(Job)
    \/ \E p \in Payments : NextDoc(p)

PaymentNext ==
    \/ \E c \in Calls : Begin(c) \/ Step(c)
    \/ JobStep
    \/ \E S \in SUBSET Payments : Pick(S)
    \/ \E c \in Procs : Crash(c)
    \/ \E p \in Payments : PayAtGateway(p)
    \/ PlanDropped

PaymentSpec == PaymentInit /\ [][PaymentNext]_vars

(* The event loop resumes what has begun; the job runs every hour and its  *)
(* query returns every payment that has been abandoned for long enough.    *)
FairPaymentSpec ==
    /\ PaymentSpec
    /\ \A c \in Calls : WF_vars(Step(c))
    /\ WF_vars(JobStep)
    /\ \A p \in Payments : SF_vars(\E S \in SUBSET Payments : p \in S /\ Pick(S))

-----------------------------------------------------------------------------
CallRecord == [at : Stages, pay : Payments, yes : BOOLEAN, seen : BOOLEAN,
               op : Ops \cup {"none", "clean"}]

PaymentTypeOK ==
    /\ status \in [Payments -> Status] /\ gate \in [Payments -> Gates]
    /\ grants \in [Payments -> Nat]
    /\ active \subseteq Users /\ reserved \subseteq Users
    /\ topup \in [Payments -> Effect] /\ refund \in [Payments -> Effect]
    /\ creditedAt \subseteq Payments /\ overrun \subseteq Payments /\ picked \subseteq Payments
    /\ used \in Nat /\ planOpen \in BOOLEAN
    /\ call \in [Procs -> CallRecord]

Effective(p) == grants[p] > 0 \/ topup[p] # "none"

(* What a gateway payment has bought or credited was confirmed as paid by  *)
(* the gateway, and the payment was approved: sub_payment_verify_zarinpal, *)
(* beside the cleanup and other verifies of the same authority.            *)
NothingUnpaid ==
    \A p \in Payments :
       Effective(p) => /\ status[p] \in {"approved", "refunded"}
                       /\ p \in Gateway => gate[p] = "verified"

(* One payment adds one period, however many verifies, decisions and       *)
(* reconciliations there are.                                              *)
GrantedOnce == \A p \in Payments : grants[p] <= 1

(* A decision is final: only an approved payment moves on, to refunded.    *)
DecidedOnce ==
    [][\A p \in Payments :
          status[p] \in {"approved", "rejected", "cancelled", "refunded"} =>
             \/ status'[p] = status[p]
             \/ status[p] = "approved" /\ status'[p] = "refunded"]_vars

(* A refund credits the wallet only for a payment that is refunded, and    *)
(* nothing more is granted or credited for the payment after that.         *)
RefundIsTheEnd ==
    [][\A p \in Payments :
          /\ refund'[p] # refund[p] => status[p] = "refunded"
          /\ status[p] = "refunded" => grants'[p] = grants[p] /\ topup'[p] = topup[p]]_vars

(* A period bought with the code holds a use of it, or is marked for the   *)
(* reconciliation; while a verify is on its way the mark may be missing.   *)
DiscountHeld ==
    \A p \in Coded :
       grants[p] > 0 /\ ~Verifying(p) => Owner[p] \in reserved \/ p \in overrun

(* Whenever nothing is in progress, the counter of a per-user code is the  *)
(* number of its reservations, within max_uses, and each reservation is    *)
(* that of a receipt still to be decided or of a payment that was approved. *)
CodeAccounted ==
    (\A c \in Procs : At(c, "idle")) =>
        /\ used = Cardinality(reserved)
        /\ MaxUses > 0 => used <= MaxUses
        /\ \A u \in reserved : \E p \in Coded :
              Owner[p] = u /\ status[p] \in {"pending", "approved", "refunded"}


(* Every gateway payment is decided, if only by the cleanup; and money     *)
(* taken at the gateway is confirmed, or given back, or the cleanup has    *)
(* tried to (once: what the gateway then refuses it keeps).                *)
GatewaySettles ==
    \A p \in Gateway :
       /\ status[p] = "zarinpal_pending" ~> status[p] # "zarinpal_pending"
       /\ gate[p] = "paid" ~> gate[p] \in {"verified", "reversed", "kept"}

(* The stamp on a top-up tells that the wallet has been credited.          *)
StampIsTrue == \A p \in creditedAt : topup[p] = "ok"
=============================================================================
