----------------------------- MODULE PaymentProofs -----------------------------
(***************************************************************************)
(* Theorems about Payment: the four safety properties of the run payment,  *)
(* for any payments, users, calls and limits, whatever dies.               *)
(***************************************************************************)
EXTENDS Payment, TLAPS

Busy(c)  == ~At(c, "idle")
Settled  == {"approved", "refunded"}
Asked    == {"reserve", "consume", "unreserve", "approve"}
Spending == {"finalize", "topup"}

(* A gateway payment is in the hands of one call until its document exists, *)
(* and only that call can create it.                                       *)
Fresh ==
    /\ \A c \in Procs :
          /\ Pay(c) \in Gateway /\ call[c].at \in {"open", "create"} => status[Pay(c)] = "none"
          /\ Busy(c) /\ call[c].op = "submit" => Pay(c) \notin Gateway
    /\ \A c, d \in Procs :
          Busy(c) /\ Busy(d) /\ Pay(c) = Pay(d) /\ Pay(c) \in Gateway
             /\ status[Pay(c)] = "none" => c = d
    /\ \A p \in picked : status[p] # "none"
    /\ Busy(Job) => status[Pay(Job)] # "none"

(* What has been approved at the gateway, or is about to be, was verified  *)
(* there.                                                                  *)
Verified ==
    /\ \A p \in Gateway : /\ status[p] # "pending"
                          /\ status[p] \in Settled => gate[p] = "verified"
    /\ \A c \in Procs :
          Pay(c) \in Gateway /\ call[c].at \in Asked => gate[Pay(c)] = "verified"

(* Only what has been approved is spent, and only what has been refunded   *)
(* is credited back.                                                       *)
Earned ==
    /\ \A p \in Payments : Effective(p) => status[p] \in Settled
    /\ \A p \in Topups : grants[p] = 0
    /\ \A c \in Procs :
          /\ call[c].at \in Spending \cup {"refund"} => status[Pay(c)] \in Settled
          /\ call[c].at \in {"revoke", "credit"} => status[Pay(c)] = "refunded"

(* With careful staff a payment is spent by one call, which no refund      *)
(* crosses.                                                                *)
Exclusive ==
    Careful =>
       /\ \A p \in Payments : grants[p] <= 1
       /\ \A c \in Procs :
             /\ call[c].at \in Spending => status[Pay(c)] = "approved"
             /\ At(c, "finalize") => grants[Pay(c)] = 0
       /\ \A c, d \in Procs :
             Pay(c) = Pay(d) /\ call[c].at \in Spending =>
                /\ ~At(d, "refund")
                /\ At(c, "finalize") /\ At(d, "finalize") => c = d

PaymentInv == PaymentTypeOK /\ Fresh /\ Verified /\ Earned /\ Exclusive

-----------------------------------------------------------------------------
(* How a call moves on: nobody else's call changes, and it keeps its       *)
(* payment until it ends.                                                  *)
MovesTo(c, S) ==
    /\ call' \in [Procs -> CallRecord]
    /\ \A d \in Procs \ {c} : call'[d] = call[d]
    /\ call'[c].at \in S
    /\ call'[c].at # "idle" => call'[c].pay = call[c].pay /\ call'[c].op = call[c].op

(* An idle call is a call record.                                          *)
LEMMA IdleShape ==
    /\ Idle \in CallRecord
    /\ Idle.at = "idle" /\ Idle.op = "none"
  BY PaymentAssumption DEF Idle, CallRecord, Stages

(* Goto moves one call, to one stage.                                      *)
LEMMA GotoMoves ==
    ASSUME PaymentTypeOK, NEW c \in Procs, NEW s \in Stages, Goto(c, s)
    PROVE  MovesTo(c, {s})
  BY DEF PaymentTypeOK, Goto, MovesTo, CallRecord

(* Finish ends one call.                                                   *)
LEMMA FinishMoves ==
    ASSUME PaymentTypeOK, NEW c \in Procs, Finish(c)
    PROVE  MovesTo(c, {"idle"})
  BY IdleShape DEF PaymentTypeOK, Finish, MovesTo

(* discount_release is entered, left out, or followed by the reversal.     *)
LEMMA ReleaseMoves ==
    ASSUME PaymentTypeOK, NEW c \in Procs
    PROVE  /\ AfterRelease(c) => MovesTo(c, {"reverse", "idle"})
           /\ Release(c) => MovesTo(c, {"free", "reverse", "idle"})
<1>1. AfterRelease(c) => MovesTo(c, {"reverse", "idle"})
  BY GotoMoves, FinishMoves DEF AfterRelease, MovesTo, Stages
<1> QED
  BY <1>1, GotoMoves DEF Release, MovesTo, Stages

(* What becomes of a call once the code was, or was not, consumed.         *)
LEMMA ConsumedMoves ==
    ASSUME PaymentTypeOK, NEW c \in Procs
    PROVE  /\ Consumed(c) => MovesTo(c, IF call[c].op = "submit" THEN {"create"} ELSE {"approve"})
           /\ NotConsumed(c) => MovesTo(c, IF call[c].op = "submit" THEN {"idle"} ELSE {"approve"})
<1>1. Consumed(c) => MovesTo(c, IF call[c].op = "submit" THEN {"create"} ELSE {"approve"})
  BY GotoMoves DEF Consumed, Stages
<1>2. NotConsumed(c) /\ call[c].op = "submit" => MovesTo(c, {"idle"})
  BY FinishMoves DEF NotConsumed
<1>3. NotConsumed(c) /\ call[c].op # "submit" => MovesTo(c, {"approve"})
  BY DEF NotConsumed, PaymentTypeOK, MovesTo, CallRecord, Stages
<1> QED
  BY <1>1, <1>2, <1>3

(* A call that could not consume goes on to leave its mark.                *)
LEMMA MarkedMoves ==
    ASSUME PaymentTypeOK, NEW c \in Procs, Marked(c)
    PROVE  MovesTo(c, {"overrun", "idle"})
  BY GotoMoves, FinishMoves DEF Marked, MovesTo, Stages

(* Steps that change neither a payment nor what has been given for it keep *)
(* the invariant when the call may be where it goes.                       *)
Entitled(c, s) ==
    /\ s \in {"open", "create"} => Pay(c) \notin Gateway
    /\ s \in Asked /\ Pay(c) \in Gateway => gate[Pay(c)] = "verified"
    /\ s \notin Spending \cup {"refund", "revoke"}
    /\ s = "credit" => status[Pay(c)] = "refunded"

LEMMA CallStep ==
    ASSUME PaymentInv, NEW c \in Procs, NEW S, MovesTo(c, S), \A s \in S : Entitled(c, s),
           Busy(c), UNCHANGED <<status, gate, grants, topup>>, picked' \subseteq picked
    PROVE  Fresh' /\ Verified' /\ Earned' /\ Exclusive'
<1> USE DEF PaymentInv, PaymentTypeOK, MovesTo, Entitled, At, Pay, Busy
<1>1. Fresh'
  BY DEF Fresh, Procs
<1>2. Verified'
  BY DEF Verified, Asked
<1>3. Earned'
  BY DEF Earned, Effective, Spending
<1>4. Exclusive'
  BY DEF Exclusive, Spending
<1> QED
  BY <1>1, <1>2, <1>3, <1>4

(* The steps that consume and release the code.                            *)
LEMMA CodeSteps ==
    ASSUME PaymentInv, NEW c \in Procs,
           Reserve(c) \/ Consume(c) \/ Unreserve(c) \/ Free(c) \/ Decrement(c) \/ MarkOverrun(c)
    PROVE  PaymentInv'
<1> DEFINE next == IF call[c].op = "submit" THEN {"create"} ELSE {"approve"}
           stop == IF call[c].op = "submit" THEN {"idle"} ELSE {"approve"}
<1> USE DEF PaymentInv
<1>1. PaymentTypeOK /\ Buyer(c) \in Users /\ Pay(c) \in Payments
  BY PaymentAssumption DEF PaymentTypeOK, CallRecord, Buyer, Pay
<1>2. At(c, "idle") => FALSE
  BY DEF Reserve, Consume, Unreserve, Free, Decrement, MarkOverrun, At
<1>3. CASE Reserve(c)
  <2>1. MovesTo(c, {"consume"} \cup stop)
    BY <1>1, <1>3, GotoMoves, ConsumedMoves DEF Reserve, MovesTo, Stages
  <2>2. \A s \in {"consume"} \cup stop : Entitled(c, s)
    BY <1>3, <1>2 DEF Reserve, At, Entitled, Verified, Asked, Spending, Pay
  <2>3. Fresh' /\ Verified' /\ Earned' /\ Exclusive'
    BY <1>2, <1>3, <2>1, <2>2, CallStep DEF Reserve, Busy, money
  <2> QED
    BY <1>1, <1>3, <2>1, <2>3 DEF PaymentTypeOK, Reserve, MovesTo, money
<1>4. CASE Consume(c)
  <2>1. MovesTo(c, {"unreserve"} \cup next \cup stop)
    BY <1>1, <1>4, GotoMoves, ConsumedMoves DEF Consume, MovesTo, Stages
  <2>2. \A s \in {"unreserve"} \cup next \cup stop : Entitled(c, s)
    BY <1>4, <1>2 DEF Consume, At, Entitled, Verified, Asked, Spending, Pay, Fresh, Busy
  <2>3. Fresh' /\ Verified' /\ Earned' /\ Exclusive'
    BY <1>2, <1>4, <2>1, <2>2, CallStep DEF Consume, Busy, money
  <2> QED
    BY <1>1, <1>4, <2>1, <2>3 DEF PaymentTypeOK, Consume, MovesTo, money
<1>5. CASE Unreserve(c)
  <2>1. MovesTo(c, stop)
    BY <1>1, <1>5, ConsumedMoves DEF Unreserve
  <2>2. \A s \in stop : Entitled(c, s)
    BY <1>5, <1>2 DEF Unreserve, At, Entitled, Verified, Asked, Spending, Pay
  <2>3. Fresh' /\ Verified' /\ Earned' /\ Exclusive'
    BY <1>2, <1>5, <2>1, <2>2, CallStep DEF Unreserve, Busy, money
  <2> QED
    BY <1>1, <1>5, <2>1, <2>3 DEF PaymentTypeOK, Unreserve, MovesTo, money
<1>6. CASE Free(c)
  <2>1. MovesTo(c, {"decrement", "reverse", "idle"})
    BY <1>1, <1>6, GotoMoves, ReleaseMoves DEF Free, MovesTo, Stages
  <2>2. \A s \in {"decrement", "reverse", "idle"} : Entitled(c, s)
    BY DEF Entitled, Asked, Spending
  <2>3. Fresh' /\ Verified' /\ Earned' /\ Exclusive'
    BY <1>2, <1>6, <2>1, <2>2, CallStep DEF Free, Busy, money
  <2> QED
    BY <1>1, <1>6, <2>1, <2>3 DEF PaymentTypeOK, Free, MovesTo, money
<1>7. CASE Decrement(c)
  <2>1. MovesTo(c, {"reverse", "idle"})
    BY <1>1, <1>7, ReleaseMoves DEF Decrement
  <2>2. \A s \in {"reverse", "idle"} : Entitled(c, s)
    BY DEF Entitled, Asked, Spending
  <2>3. Fresh' /\ Verified' /\ Earned' /\ Exclusive'
    BY <1>2, <1>7, <2>1, <2>2, CallStep DEF Decrement, Busy, money
  <2> QED
    BY <1>1, <1>7, <2>1, <2>3 DEF PaymentTypeOK, Decrement, MovesTo, money
<1>8. CASE MarkOverrun(c)
  <2>1. MovesTo(c, {"idle"})
    BY <1>1, <1>8, FinishMoves DEF MarkOverrun
  <2>2. \A s \in {"idle"} : Entitled(c, s)
    BY DEF Entitled, Asked, Spending
  <2>3. Fresh' /\ Verified' /\ Earned' /\ Exclusive'
    BY <1>2, <1>8, <2>1, <2>2, CallStep DEF MarkOverrun, Busy, money
  <2> QED
    BY <1>1, <1>8, <2>1, <2>3 DEF PaymentTypeOK, MarkOverrun, MovesTo, money, code
<1> QED
  BY <1>3, <1>4, <1>5, <1>6, <1>7, <1>8

(* A step that decides a payment, or makes its document.                   *)
LEMMA StatusStep ==
    ASSUME PaymentInv, NEW c \in Procs, NEW v \in Status \ {"none", "refunded"},
           NEW S \in SUBSET {"idle", "free", "reverse", "finalize"},
           MovesTo(c, S), Busy(c), status' = [status EXCEPT ![Pay(c)] = v],
           UNCHANGED <<gate, grants, topup, picked>>,
           status[Pay(c)] \notin Settled,
           Pay(c) \in Gateway => v # "pending",
           v = "approved" => (Pay(c) \in Gateway => gate[Pay(c)] = "verified"),
           "finalize" \in S => v = "approved"
    PROVE  Fresh' /\ Verified' /\ Earned' /\ Exclusive'
<1> USE DEF PaymentInv, At, Pay, Busy
<1>1. /\ status' \in [Payments -> Status] /\ Pay(c) \in Payments
      /\ \A p \in Payments : status'[p] = IF p = Pay(c) THEN v ELSE status[p]
      /\ \A d \in Procs : Pay(d) \in Payments
      /\ \A d \in Procs \ {c} : call'[d] = call[d]
      /\ call'[c].at \in S
      /\ call'[c].at # "idle" => call'[c].pay = Pay(c) /\ call'[c].op = call[c].op
  BY DEF MovesTo, PaymentTypeOK, CallRecord
<1>2. Fresh'
  BY <1>1, PaymentAssumption DEF Fresh, Procs, PaymentTypeOK
<1>3. Verified'
  BY <1>1, PaymentAssumption DEF Verified, Asked, Settled
<1>4. Earned'
  BY <1>1 DEF Earned, Effective, Spending, Settled
<1>5. Exclusive'
  <2>1. grants[Pay(c)] = 0
    BY <1>1 DEF Earned, Effective, PaymentTypeOK
  <2>2. \A d \in Procs : Pay(d) = Pay(c) => call[d].at \notin Spending \cup {"refund"}
    BY DEF Earned
  <2> QED
    BY <1>1, <2>1, <2>2 DEF Exclusive, Spending
<1> QED
  BY <1>2, <1>3, <1>4, <1>5

(* The creation, approval, decision and cancellation of a payment.         *)
LEMMA DecisionSteps ==
    ASSUME PaymentInv, NEW c \in Procs,
           CreateReceipt(c) \/ CreateGateway(c) \/ Approve(c) \/ DecideCAS(c) \/ CancelCAS(c)
    PROVE  PaymentInv'
<1> USE DEF PaymentInv
<1>1. PaymentTypeOK /\ Pay(c) \in Payments
  BY DEF PaymentTypeOK, CallRecord, Pay
<1>2. Busy(c)
  BY DEF CreateReceipt, CreateGateway, Approve, DecideCAS, CancelCAS, At, Busy
<1>3. \A s \in {"free", "reverse", "idle", "overrun"} : Entitled(c, s)
  BY DEF Entitled, Asked, Spending
<1>4. ASSUME NEW v \in Status \ {"none", "refunded"}, Release(c) \/ Finish(c) \/ Goto(c, "finalize"),
             v = "approved" \/ Release(c) \/ Finish(c), status' = [status EXCEPT ![Pay(c)] = v],
             status[Pay(c)] \notin Settled,
             Pay(c) \in Gateway => v # "pending",
             v = "approved" => (Pay(c) \in Gateway => gate[Pay(c)] = "verified"),
             UNCHANGED <<gate, money, overrun, code, planOpen, picked>>
      PROVE  PaymentInv'
  <2> DEFINE S == IF v = "approved" THEN {"idle", "free", "reverse", "finalize"}
                                    ELSE {"idle", "free", "reverse"}
  <2>1. MovesTo(c, S)
    BY <1>1, <1>4, GotoMoves, FinishMoves, ReleaseMoves DEF MovesTo, Stages
  <2>2. Fresh' /\ Verified' /\ Earned' /\ Exclusive'
    BY <1>2, <1>4, <2>1, StatusStep DEF money
  <2> QED
    BY <1>1, <1>4, <2>1, <2>2 DEF PaymentTypeOK, MovesTo, money, code
<1>5. ASSUME UNCHANGED <<status, gate, money, overrun, code, planOpen, picked>>,
             Release(c) \/ Finish(c) \/ Marked(c)
      PROVE  PaymentInv'
  <2>1. MovesTo(c, {"free", "reverse", "idle", "overrun"})
    BY <1>1, <1>5, FinishMoves, ReleaseMoves, MarkedMoves DEF MovesTo
  <2>2. Fresh' /\ Verified' /\ Earned' /\ Exclusive'
    BY <1>2, <1>3, <1>5, <2>1, CallStep DEF money
  <2> QED
    BY <1>1, <1>5, <2>1, <2>2 DEF PaymentTypeOK, MovesTo, money, code
<1>6. CASE CreateReceipt(c)
  <2>1. CASE status[Pay(c)] = "none" /\ Finish(c) /\ status' = [status EXCEPT ![Pay(c)] = "pending"]
    BY <1>4, <1>6, <2>1 DEF CreateReceipt, Status, Settled
  <2>2. CASE status' = status /\ (Release(c) \/ Finish(c))
    BY <1>5, <1>6, <2>2 DEF CreateReceipt
  <2> QED
    BY <1>1, <1>6, <2>1, <2>2 DEF CreateReceipt, PaymentTypeOK
<1>7. CASE CreateGateway(c)
  <2>1. status[Pay(c)] = "none"
    BY <1>7 DEF CreateGateway, Fresh, At
  <2>2. CASE Finish(c) /\ status' = [status EXCEPT ![Pay(c)] = "zarinpal_pending"]
    BY <1>4, <1>7, <2>1, <2>2 DEF CreateGateway, Status, Settled
  <2>3. CASE status' = status /\ Release(c)
    BY <1>5, <1>7, <2>3 DEF CreateGateway
  <2> QED
    BY <1>7, <2>2, <2>3 DEF CreateGateway
<1>8. CASE Approve(c)
  <2>1. CASE /\ status[Pay(c)] = "zarinpal_pending"
             /\ Goto(c, "finalize") /\ status' = [status EXCEPT ![Pay(c)] = "approved"]
    <3>1. Pay(c) \in Gateway => gate[Pay(c)] = "verified"
      BY <1>8 DEF Approve, Verified, Asked, At
    <3> QED
      BY <1>4, <1>8, <2>1, <3>1 DEF Approve, Status, Settled
  <2>2. CASE status' = status /\ (Release(c) \/ Marked(c))
    BY <1>5, <1>8, <2>2 DEF Approve
  <2> QED
    BY <1>8, <2>1, <2>2 DEF Approve
<1>9. CASE DecideCAS(c)
  <2>1. CASE status' = status /\ Finish(c)
    BY <1>5, <1>9, <2>1 DEF DecideCAS
  <2>2. CASE status[Pay(c)] = "pending"
    <3>1. Pay(c) \notin Gateway
      BY <2>2 DEF Verified
    <3> QED
      BY <1>4, <1>9, <2>2, <3>1 DEF DecideCAS, Status, Settled
  <2> QED
    BY <1>9, <2>1, <2>2 DEF DecideCAS
<1>10. CASE CancelCAS(c)
  <2>1. CASE status' = status /\ Finish(c)
    BY <1>5, <1>10, <2>1 DEF CancelCAS
  <2>2. CASE status[Pay(c)] = "pending"
    <3>1. Pay(c) \notin Gateway
      BY <2>2 DEF Verified
    <3> QED
      BY <1>4, <1>10, <2>2, <3>1 DEF CancelCAS, Status, Settled
  <2> QED
    BY <1>10, <2>1, <2>2 DEF CancelCAS
<1> QED
  BY <1>6, <1>7, <1>8, <1>9, <1>10

(* The steps at the gateway.                                               *)
LEMMA GateStep ==
    ASSUME PaymentInv, NEW c \in Procs, NEW p \in Payments, NEW g \in Gates,
           gate' = [gate EXCEPT ![p] = g], UNCHANGED <<status, grants, topup, picked>>,
           \/ UNCHANGED call
           \/ /\ Busy(c) /\ Pay(c) = p
              /\ \E S : /\ MovesTo(c, S)
                        /\ "create" \in S => At(c, "open")
                        /\ S \cap (Spending \cup {"open", "refund", "revoke", "credit"}) = {}
                        /\ S \cap Asked # {} => g = "verified",
           p \in Gateway =>
              \/ g = "verified"
              \/ /\ status[p] \notin Settled
                 /\ \A d \in Procs : Pay(d) = p => call[d].at \notin Asked
    PROVE  Fresh' /\ Verified' /\ Earned' /\ Exclusive'
<1> USE DEF PaymentInv, At, Pay, Busy
<1>1. \A q \in Payments : gate'[q] = IF q = p THEN g ELSE gate[q]
  BY DEF PaymentTypeOK
<1>2. CASE UNCHANGED call
  <2>1. Verified'
    BY <1>1, <1>2, PaymentAssumption DEF Verified, Asked, Settled
  <2> QED
    BY <1>2, <2>1 DEF Fresh, Earned, Exclusive, Effective
<1>3. ASSUME NEW S, Busy(c), Pay(c) = p, MovesTo(c, S),
             "create" \in S => At(c, "open"),
             S \cap (Spending \cup {"open", "refund", "revoke", "credit"}) = {},
             S \cap Asked # {} => g = "verified"
      PROVE  Fresh' /\ Verified' /\ Earned' /\ Exclusive'
  <2>1. Fresh'
    BY <1>3 DEF Fresh, MovesTo, Procs
  <2>2. Verified'
    BY <1>1, <1>3, PaymentAssumption DEF Verified, Asked, Settled, MovesTo
  <2>3. Earned'
    BY <1>3 DEF Earned, Effective, Spending, MovesTo
  <2>4. Exclusive'
    BY <1>3 DEF Exclusive, Spending, MovesTo
  <2> QED
    BY <2>1, <2>2, <2>3, <2>4
<1> QED
  BY <1>2, <1>3

(* Opening an authority, asking about it, reversing it.                    *)
LEMMA GateSteps ==
    ASSUME PaymentInv, NEW c \in Procs,
           OpenAuthority(c) \/ Ask(c) \/ (c = Job /\ Reverse)
    PROVE  PaymentInv'
<1> USE DEF PaymentInv
<1>1. PaymentTypeOK /\ Pay(c) \in Payments
  BY DEF PaymentTypeOK, CallRecord, Pay
<1>2. Busy(c)
  BY DEF OpenAuthority, Ask, Reverse, At, Busy
<1>3. ASSUME UNCHANGED <<status, gate, money, overrun, code, planOpen, picked>>, Finish(c)
      PROVE  PaymentInv'
  <2>1. MovesTo(c, {"idle"}) /\ Entitled(c, "idle")
    BY <1>1, <1>3, FinishMoves DEF Entitled, Asked, Spending
  <2>2. Fresh' /\ Verified' /\ Earned' /\ Exclusive'
    BY <1>2, <1>3, <2>1, CallStep DEF money
  <2> QED
    BY <1>1, <1>3, <2>1, <2>2 DEF PaymentTypeOK, MovesTo, money, code
<1>4. ASSUME NEW g \in Gates, NEW S, gate' = [gate EXCEPT ![Pay(c)] = g],
             UNCHANGED <<status, money, overrun, code, planOpen, picked>>,
             MovesTo(c, S),
             "create" \in S => At(c, "open"),
             S \cap (Spending \cup {"open", "refund", "revoke", "credit"}) = {},
             S \cap Asked # {} => g = "verified",
             Pay(c) \in Gateway =>
                \/ g = "verified"
                \/ /\ status[Pay(c)] \notin Settled
                   /\ \A d \in Procs : Pay(d) = Pay(c) => call[d].at \notin Asked
      PROVE  PaymentInv'
  <2>1. Fresh' /\ Verified' /\ Earned' /\ Exclusive'
    BY <1>1, <1>2, <1>4, GateStep DEF money
  <2> QED
    BY <1>1, <1>4, <2>1 DEF PaymentTypeOK, MovesTo, money, code
<1>5. CASE OpenAuthority(c)
  <2>1. CASE UNCHANGED gate /\ Finish(c)
    BY <1>3, <1>5, <2>1 DEF OpenAuthority
  <2>2. CASE Goto(c, "create") /\ gate' = [gate EXCEPT ![Pay(c)] = "open"]
    <3>1. MovesTo(c, {"create"})
      BY <1>1, <2>2, GotoMoves DEF Stages
    <3>2. Pay(c) \in Gateway => /\ status[Pay(c)] = "none"
                               /\ \A d \in Procs : Pay(d) = Pay(c) /\ Busy(d) => d = c
      BY <1>2, <1>5 DEF OpenAuthority, Fresh, At
    <3>3. At(c, "open") /\ "create" \notin Asked /\ "open" \in Gates
      BY <1>5 DEF OpenAuthority, Asked, Gates
    <3>4. Pay(c) \in Gateway =>
             /\ status[Pay(c)] \notin Settled
             /\ \A d \in Procs : Pay(d) = Pay(c) => call[d].at \notin Asked
      BY <3>2, <3>3 DEF Settled, Asked, Busy, At
    <3> QED
      BY <1>4, <1>5, <2>2, <3>1, <3>3, <3>4 DEF OpenAuthority, Spending
  <2> QED
    BY <1>5, <2>1, <2>2 DEF OpenAuthority
<1>6. CASE Ask(c)
  <2>1. CASE gate[Pay(c)] \in {"paid", "kept", "verified"}
    <3>1. gate' = [gate EXCEPT ![Pay(c)] = "verified"]
      BY <1>1, <1>6, <2>1 DEF Ask, PaymentTypeOK
    <3>2. MovesTo(c, {"approve", "reserve", "consume"})
      BY <1>1, <1>6, <2>1, GotoMoves DEF Ask, MovesTo, Stages
    <3> QED
      BY <1>4, <1>6, <3>1, <3>2 DEF Ask, Spending, Gates
  <2>2. CASE gate[Pay(c)] \notin {"paid", "kept", "verified"}
    BY <1>1, <1>3, <1>6, <2>2 DEF Ask, PaymentTypeOK
  <2> QED
    BY <2>1, <2>2
<1>7. CASE c = Job /\ Reverse
  <2>1. MovesTo(c, {"idle"})
    BY <1>1, <1>7, FinishMoves DEF Reverse
  <2>2. CASE gate[Pay(c)] = "paid" /\ call[c].yes
    <3>1. PICK g \in {"reversed", "kept"} : gate' = [gate EXCEPT ![Pay(c)] = g]
      BY <1>7, <2>2 DEF Reverse
    <3>2. Pay(c) \in Gateway =>
             /\ status[Pay(c)] \notin Settled
             /\ \A d \in Procs : Pay(d) = Pay(c) => call[d].at \notin Asked
      BY <2>2 DEF Verified, Pay
    <3> QED
      BY <1>4, <1>7, <2>1, <3>1, <3>2 DEF Reverse, Spending, Asked, Gates
  <2>3. CASE ~(gate[Pay(c)] = "paid" /\ call[c].yes)
    BY <1>1, <1>3, <1>7, <2>3 DEF Reverse, PaymentTypeOK
  <2> QED
    BY <2>2, <2>3
<1> QED
  BY <1>5, <1>6, <1>7

(* The user pays an authority that nobody has asked about.                 *)
LEMMA PaidStep ==
    ASSUME PaymentInv, NEW p \in Payments, PayAtGateway(p)
    PROVE  PaymentInv'
<1> USE DEF PaymentInv
<1>1. p \in Gateway =>
         /\ status[p] \notin Settled
         /\ \A d \in Procs : Pay(d) = p => call[d].at \notin Asked
  BY DEF PayAtGateway, Verified
<1>2. Fresh' /\ Verified' /\ Earned' /\ Exclusive'
  <2>1. PICK c : c \in Procs
    BY DEF Procs
  <2> QED
    BY <1>1, <2>1, GateStep DEF PayAtGateway, Gates, money
<1> QED
  BY <1>2 DEF PaymentTypeOK, PayAtGateway, Gates, money, code

(* The steps that grant a period and move money.                           *)
LEMMA FinalizeStep ==
    ASSUME PaymentInv, NEW c \in Procs, Finalize(c)
    PROVE  PaymentInv'
<1> USE DEF PaymentInv
<1>1. PaymentTypeOK /\ Pay(c) \in Payments /\ Buyer(c) \in Users
  BY PaymentAssumption DEF PaymentTypeOK, CallRecord, Pay, Buyer
<1>2. Busy(c) /\ At(c, "finalize")
  BY DEF Finalize, At, Busy
<1>3. status[Pay(c)] \in Settled
  BY <1>2 DEF Earned, Spending, At
<1>4. CASE Pay(c) \in Topups
  <2>1. Goto(c, "topup") \/ Finish(c)
    BY <1>4 DEF Finalize
  <2>2. UNCHANGED <<status, gate, money, overrun, code, planOpen, picked>>
    BY <1>4 DEF Finalize
  <2>3. Goto(c, "topup") => MovesTo(c, {"topup"})
    BY <1>1, GotoMoves DEF Stages
  <2>4. MovesTo(c, {"topup", "idle"})
    BY <1>1, <2>1, <2>3, FinishMoves DEF MovesTo
  <2> USE <1>2, <2>2, <2>4 DEF MovesTo, money, At, Pay, Busy
  <2>5. Fresh'
    BY DEF Fresh, Procs
  <2>6. Verified'
    BY DEF Verified, Asked
  <2>7. Earned'
    BY <1>3 DEF Earned, Effective, Spending
  <2>8. Exclusive'
    BY DEF Exclusive, Spending
  <2>9. PaymentTypeOK'
    BY DEF PaymentTypeOK, code
  <2> QED
    BY <2>5, <2>6, <2>7, <2>8, <2>9
<1>5. CASE Pay(c) \notin Topups /\ planOpen
  <2>1. MovesTo(c, {"overrun", "idle"})
    BY <1>1, <1>5, MarkedMoves DEF Finalize
  <2>2. /\ grants' \in [Payments -> Nat]
        /\ \A p \in Payments : grants'[p] = IF p = Pay(c) THEN grants[p] + 1 ELSE grants[p]
        /\ UNCHANGED <<status, gate, topup, refund, creditedAt, overrun, code, planOpen, picked>>
        /\ active' \subseteq Users
    BY <1>1, <1>5 DEF Finalize, PaymentTypeOK
  <2> USE <1>1, <1>2, <1>5, <2>1, <2>2 DEF MovesTo, At, Pay, Busy
  <2>3. Fresh'
    BY DEF Fresh, Procs
  <2>4. Verified'
    BY DEF Verified, Asked
  <2>5. Earned'
    BY <1>3, PaymentAssumption DEF Earned, Effective, Spending
  <2>6. Exclusive'
    <3>1. Careful => /\ grants'[Pay(c)] = 1
                     /\ \A d \in Procs \ {c} : At(d, "finalize") => Pay(d) # Pay(c)
      BY DEF Exclusive, Spending
    <3>2. Careful => \A p \in Payments : grants'[p] <= 1
      BY <3>1 DEF Exclusive
    <3>3. Careful => \A d \in Procs : At(d, "finalize")' => (grants[Pay(d)])' = 0
      <4>1. SUFFICES ASSUME Careful, NEW d \in Procs, call'[d].at = "finalize"
                     PROVE  (grants[Pay(d)])' = 0
        OBVIOUS
      <4>2. d # c /\ call'[d] = call[d] /\ Pay(d) \in Payments
        BY <4>1 DEF PaymentTypeOK, CallRecord
      <4> QED
        BY <3>1, <4>1, <4>2 DEF Exclusive
    <3>4. Careful => \A d \in Procs : call'[d].at \in Spending => (status[Pay(d)])' = "approved"
      BY DEF Exclusive, Spending
    <3>5. Careful => \A d, e \in Procs :
             Pay(d)' = Pay(e)' /\ call'[d].at \in Spending =>
                ~At(e, "refund")' /\ (At(d, "finalize")' /\ At(e, "finalize")' => d = e)
      BY DEF Exclusive, Spending
    <3> QED
      BY <3>2, <3>3, <3>4, <3>5 DEF Exclusive
  <2>7. PaymentTypeOK'
    BY DEF PaymentTypeOK, code
  <2> QED
    BY <2>3, <2>4, <2>5, <2>6, <2>7
<1>6. CASE Pay(c) \notin Topups /\ ~planOpen
  <2>1. MovesTo(c, {"free", "reverse", "idle"})
    BY <1>1, <1>6, FinishMoves, ReleaseMoves DEF Finalize, MovesTo
  <2>2. \A s \in {"free", "reverse", "idle"} : Entitled(c, s)
    BY DEF Entitled, Asked, Spending
  <2>3. UNCHANGED <<status, gate, money, overrun, code, planOpen, picked>>
    BY <1>6 DEF Finalize
  <2>4. Fresh' /\ Verified' /\ Earned' /\ Exclusive'
    BY <1>2, <2>1, <2>2, <2>3, CallStep DEF money
  <2> QED
    BY <1>1, <2>1, <2>3, <2>4 DEF PaymentTypeOK, MovesTo, money, code
<1> QED
  BY <1>4, <1>5, <1>6

(* A wallet call leaves an effect of its key.                              *)
LEMMA CreditedEffect == ASSUME NEW e \in Effect PROVE Credited(e) \in Effect
  BY DEF Effect, Credited

(* The credits, the stamp and the revocation.                              *)
LEMMA MoneySteps ==
    ASSUME PaymentInv, NEW c \in Procs,
           TopupCredit(c) \/ Stamp(c) \/ Revoke(c) \/ RefundCredit(c)
    PROVE  PaymentInv'
<1> USE DEF PaymentInv
<1>1. PaymentTypeOK /\ Pay(c) \in Payments
  BY DEF PaymentTypeOK, CallRecord, Pay
<1>2. Busy(c)
  BY DEF TopupCredit, Stamp, Revoke, RefundCredit, At, Busy
<1>3. CASE TopupCredit(c)
  <2>1. MovesTo(c, {"stamp"})
    BY <1>1, <1>3, GotoMoves DEF TopupCredit, Stages
  <2>2. /\ topup' \in [Payments -> Effect]
        /\ \A p \in Payments : p # Pay(c) => topup'[p] = topup[p]
    BY <1>1, <1>3, CreditedEffect DEF TopupCredit, PaymentTypeOK
  <2>3. status[Pay(c)] \in Settled
    BY <1>3 DEF TopupCredit, Earned, Spending, At
  <2> USE <1>2, <1>3, <2>1, <2>2 DEF MovesTo, TopupCredit, At, Pay, Busy
  <2>4. Fresh'
    BY DEF Fresh, Procs
  <2>5. Verified'
    BY DEF Verified, Asked
  <2>6. Earned'
    BY <2>3 DEF Earned, Effective, Spending
  <2>7. Exclusive'
    BY DEF Exclusive, Spending
  <2>8. PaymentTypeOK'
    BY DEF PaymentTypeOK, code
  <2> QED
    BY <2>4, <2>5, <2>6, <2>7, <2>8
<1>4. CASE Stamp(c)
  <2>1. MovesTo(c, {"idle"}) /\ Entitled(c, "idle")
    BY <1>1, <1>4, FinishMoves DEF Stamp, Entitled, Asked, Spending
  <2>2. Fresh' /\ Verified' /\ Earned' /\ Exclusive'
    BY <1>2, <1>4, <2>1, CallStep DEF Stamp
  <2> QED
    BY <1>1, <1>4, <2>1, <2>2 DEF PaymentTypeOK, Stamp, MovesTo, code
<1>5. CASE Revoke(c)
  <2>1. MovesTo(c, {"credit"})
    BY <1>1, <1>5, GotoMoves DEF Revoke, Stages
  <2>2. Entitled(c, "credit")
    BY <1>5 DEF Revoke, Entitled, Asked, Spending, Earned, At
  <2>3. Fresh' /\ Verified' /\ Earned' /\ Exclusive'
    BY <1>2, <1>5, <2>1, <2>2, CallStep DEF Revoke
  <2> QED
    BY <1>1, <1>5, <2>1, <2>3 DEF PaymentTypeOK, Revoke, MovesTo, code
<1>6. CASE RefundCredit(c)
  <2>1. MovesTo(c, {"idle"}) /\ Entitled(c, "idle")
    BY <1>1, <1>6, FinishMoves DEF RefundCredit, Entitled, Asked, Spending
  <2>2. Fresh' /\ Verified' /\ Earned' /\ Exclusive'
    BY <1>2, <1>6, <2>1, CallStep DEF RefundCredit
  <2>3. refund' \in [Payments -> Effect]
    BY <1>1, <1>6, CreditedEffect DEF RefundCredit, PaymentTypeOK
  <2> QED
    BY <1>1, <1>6, <2>1, <2>2, <2>3 DEF PaymentTypeOK, RefundCredit, MovesTo, code
<1> QED
  BY <1>3, <1>4, <1>5, <1>6

(* sub_payment_refund; no finalization is on its way when staff are careful.*)
LEMMA RefundStep ==
    ASSUME PaymentInv, NEW c \in Procs, RefundCAS(c)
    PROVE  PaymentInv'
<1> USE DEF PaymentInv
<1>1. PaymentTypeOK /\ Pay(c) \in Payments
  BY DEF PaymentTypeOK, CallRecord, Pay
<1>2. Busy(c) /\ At(c, "refund")
  BY DEF RefundCAS, At, Busy
<1>3. CASE status[Pay(c)] = "approved"
  <2>1. MovesTo(c, {"revoke", "credit"})
    BY <1>1, <1>3, GotoMoves DEF RefundCAS, MovesTo, Stages
  <2>2. /\ status' \in [Payments -> Status]
        /\ \A p \in Payments : status'[p] = IF p = Pay(c) THEN "refunded" ELSE status[p]
        /\ UNCHANGED <<gate, money, overrun, code, planOpen, picked>>
    BY <1>1, <1>3 DEF RefundCAS, PaymentTypeOK, Status
  <2>3. \A d \in Procs : Pay(d) \in Payments
    BY <1>1 DEF PaymentTypeOK, CallRecord, Pay
  <2> USE <1>1, <1>2, <1>3, <2>1, <2>2, <2>3 DEF MovesTo, At, Pay, Busy, money
  <2>4. Fresh'
    BY DEF Fresh, Procs, PaymentTypeOK
  <2>5. Verified'
    BY PaymentAssumption DEF Verified, Asked, Settled
  <2>6. Earned'
    BY DEF Earned, Effective, Spending, Settled
  <2>7. Exclusive'
    BY DEF Exclusive, Spending
  <2>8. PaymentTypeOK'
    BY DEF PaymentTypeOK, code
  <2> QED
    BY <2>4, <2>5, <2>6, <2>7, <2>8
<1>4. CASE status[Pay(c)] # "approved"
  <2>1. MovesTo(c, {"idle"}) /\ Entitled(c, "idle")
    BY <1>1, <1>4, FinishMoves DEF RefundCAS, Entitled, Asked, Spending
  <2>2. UNCHANGED <<status, gate, money, overrun, code, planOpen, picked>>
    BY <1>4 DEF RefundCAS
  <2>3. Fresh' /\ Verified' /\ Earned' /\ Exclusive'
    BY <1>2, <2>1, <2>2, CallStep DEF money
  <2> QED
    BY <1>1, <2>1, <2>2, <2>3 DEF PaymentTypeOK, MovesTo, money, code
<1> QED
  BY <1>3, <1>4

(* A call begins, or the cleanup takes the next of its payments.           *)
LEMMA BeginStep ==
    ASSUME PaymentInv, NEW c \in Procs, At(c, "idle"), NEW r \in CallRecord,
           call' = [call EXCEPT ![c] = r],
           UNCHANGED <<status, gate, money, overrun, code, planOpen>>, picked' \subseteq picked,
           r.op = "submit" => r.pay \notin Gateway,
           status[r.pay] = "none" => c # Job,
           status[r.pay] = "none" /\ r.pay \in Gateway => About(r.pay) = {},
           r.at = "open" => status[r.pay] = "none",
           r.at \in {"create"} \cup Asked => r.pay \notin Gateway,
           r.at \notin {"topup", "revoke", "credit"},
           r.at \in {"finalize", "refund"} =>
              status[r.pay] = "approved" /\ (Careful => About(r.pay) = {}),
           Careful /\ r.at = "finalize" => grants[r.pay] = 0
    PROVE  PaymentInv'
<1> USE DEF PaymentInv, At, Pay, Busy, money
<1>1. /\ PaymentTypeOK
      /\ \A d \in Procs : call'[d] = IF d = c THEN r ELSE call[d]
      /\ call' \in [Procs -> CallRecord] /\ r.pay \in Payments
      /\ \A d \in Procs : call[d].pay = r.pay /\ About(r.pay) = {} => call[d].at = "idle"
  BY DEF PaymentTypeOK, About, CallRecord
<1>2. Fresh'
  BY <1>1 DEF Fresh, Procs
<1>3. Verified'
  BY <1>1 DEF Verified, Asked
<1>4. Earned'
  BY <1>1 DEF Earned, Effective, Spending, Settled
<1>5. Exclusive'
  BY <1>1 DEF Exclusive, Spending
<1>6. PaymentTypeOK'
  BY <1>1 DEF PaymentTypeOK, code
<1> QED
  BY <1>2, <1>3, <1>4, <1>5, <1>6

(* The starting points of the API calls.                                   *)
LEMMA BeginSteps ==
    ASSUME PaymentInv, NEW c \in Calls, Begin(c)
    PROVE  PaymentInv'
<1> USE DEF PaymentInv
<1> PICK p \in Payments : \/ Submit(c, p) \/ Request(c, p) \/ Verify(c, p) \/ Decide(c, p)
                          \/ Cancel(c, p) \/ Refund(c, p) \/ ReconcileActivate(c, p)
                          \/ ReconcileTopup(c, p)
  BY DEF Begin
<1>1. c \in Procs /\ c # Job
  BY PaymentAssumption DEF Procs
<1>2. ASSUME NEW op \in Ops, NEW s \in Stages, Start(c, op, p, s)
      PROVE  \E r \in CallRecord : /\ At(c, "idle") /\ call' = [call EXCEPT ![c] = r]
                                   /\ r.op = op /\ r.pay = p /\ r.at = s
  <2> DEFINE r == [Idle EXCEPT !.op = op, !.pay = p, !.at = s, !.seen = p \in creditedAt]
  <2>1. r \in CallRecord /\ r.op = op /\ r.pay = p /\ r.at = s
    <3>1. CASE p \in creditedAt
      <4>1. r = [Idle EXCEPT !.op = op, !.pay = p, !.at = s, !.seen = TRUE]
        BY <3>1, Zenon
      <4> HIDE DEF r
      <4> QED
        BY <4>1, IdleShape DEF CallRecord
    <3>2. CASE p \notin creditedAt
      <4>1. (p \in creditedAt) = FALSE
        BY <3>2
      <4>2. r = [Idle EXCEPT !.op = op, !.pay = p, !.at = s, !.seen = FALSE]
        BY <4>1, Zenon
      <4> HIDE DEF r
      <4> QED
        BY <4>2, IdleShape DEF CallRecord
    <3> QED
      BY <3>1, <3>2
  <2>2. At(c, "idle") /\ call' = [call EXCEPT ![c] = r]
    BY <1>2 DEF Start
  <2> QED
    BY <2>1, <2>2
<1>3. ASSUME NEW op \in Ops, NEW s \in Stages, Start(c, op, p, s),
             op = "submit" => p \notin Gateway,
             status[p] = "none" /\ p \in Gateway => About(p) = {},
             s = "open" => status[p] = "none",
             s \in {"create"} \cup Asked => p \notin Gateway,
             s \notin {"topup", "revoke", "credit"},
             s \in {"finalize", "refund"} =>
                status[p] = "approved" /\ (Careful => About(p) = {}),
             Careful /\ s = "finalize" => grants[p] = 0
      PROVE  PaymentInv'
  <2>1. PICK r \in CallRecord : /\ At(c, "idle") /\ call' = [call EXCEPT ![c] = r]
                                /\ r.op = op /\ r.pay = p /\ r.at = s
    BY <1>2, <1>3
  <2>2. UNCHANGED <<status, gate, money, overrun, code, planOpen, picked>>
    BY <1>3 DEF Start
  <2> HIDE DEF PaymentInv
  <2> QED
    BY <1>1, <1>3, <2>1, <2>2, BeginStep
<1>4. CASE Submit(c, p)
  <2>1. PICK s \in {"create", "reserve", "consume"} : Start(c, "submit", p, s)
    BY <1>4 DEF Submit
  <2> QED
    BY <1>3, <1>4, <2>1 DEF Submit, Start, Stages
<1>5. CASE Request(c, p)
  BY <1>3, <1>5 DEF Request, Start, Stages, Asked
<1>6. CASE Verify(c, p)
  BY <1>3, <1>6 DEF Verify, Start, Stages, Asked
<1>7. CASE Decide(c, p)
  BY <1>3, <1>7 DEF Decide, Start, Stages, Asked
<1>8. CASE Cancel(c, p)
  BY <1>3, <1>8 DEF Cancel, Start, Stages, Asked
<1>9. CASE Refund(c, p)
  BY <1>3, <1>9 DEF Refund, Start, Stages, Asked
<1>10. CASE ReconcileActivate(c, p)
  BY <1>3, <1>10 DEF ReconcileActivate, Start, Stages, Asked
<1>11. CASE ReconcileTopup(c, p)
  BY <1>3, <1>11 DEF ReconcileTopup, Start, Stages, Asked, Earned
<1> QED
  BY <1>4, <1>5, <1>6, <1>7, <1>8, <1>9, <1>10, <1>11

(* The cleanup reads a batch, takes a payment of it, and flips its status. *)
LEMMA CleanupSteps ==
    ASSUME PaymentInv
    PROVE  /\ \A S \in SUBSET Payments : Pick(S) => PaymentInv'
           /\ \A p \in Payments : NextDoc(p) => PaymentInv'
           /\ Flip => PaymentInv'
<1> USE DEF PaymentInv
<1>1. Job \in Procs
  BY DEF Procs
<1>2. ASSUME NEW S \in SUBSET Payments, Pick(S) PROVE PaymentInv'
  <2>1. \A p \in S : status[p] # "none"
    BY <1>2 DEF Pick, Pickable
  <2>2. UNCHANGED <<status, gate, grants, active, topup, refund, creditedAt, overrun, used, reserved,
                    planOpen, call>> /\ picked' = S
    BY <1>2 DEF Pick, money, code
  <2> QED
    BY <2>1, <2>2 DEF PaymentTypeOK, Fresh, Verified, Earned, Exclusive,
                      At, Pay, Busy, Effective
<1>3. ASSUME NEW p \in Payments, NextDoc(p) PROVE PaymentInv'
  <2> DEFINE r == [Idle EXCEPT !.op = "clean", !.pay = p, !.at = "flip"]
  <2>1. r \in CallRecord /\ r.op = "clean" /\ r.pay = p /\ r.at = "flip"
    BY IdleShape DEF CallRecord, Stages
  <2>2. At(Job, "idle") /\ call' = [call EXCEPT ![Job] = r]
    BY <1>3 DEF NextDoc
  <2>3. status[p] # "none"
    BY <1>3 DEF NextDoc, Fresh
  <2>4. r.at \notin Asked \cup {"open", "create", "topup", "revoke", "credit", "finalize", "refund"}
    BY <2>1 DEF Asked
  <2> HIDE DEF PaymentInv, r
  <2> QED
    BY <1>1, <1>3, <2>1, <2>2, <2>3, <2>4, BeginStep DEF NextDoc
<1>4. ASSUME Flip PROVE PaymentInv'
  <2>1. MovesTo(Job, {"free", "reverse"}) /\ Busy(Job) /\ Pay(Job) \in Payments
    BY <1>1, <1>4 DEF Flip, MovesTo, PaymentTypeOK, CallRecord, Stages, Busy, At, Pay
  <2>2. UNCHANGED <<gate, money, overrun, code, planOpen, picked>>
    BY <1>4 DEF Flip
  <2>3. CASE status[Pay(Job)] = "zarinpal_pending"
    <3>1. status' = [status EXCEPT ![Pay(Job)] = "cancelled"]
      BY <1>4, <2>3 DEF Flip
    <3>2. Fresh' /\ Verified' /\ Earned' /\ Exclusive'
      BY <1>1, <2>1, <2>2, <2>3, <3>1, StatusStep DEF Status, Settled, money
    <3> QED
      BY <2>1, <2>2, <3>1, <3>2 DEF PaymentTypeOK, MovesTo, Status, money, code
  <2>4. CASE status[Pay(Job)] # "zarinpal_pending"
    <3>1. status' = status
      BY <1>4, <2>4 DEF Flip, PaymentTypeOK
    <3>2. \A s \in {"free", "reverse"} : Entitled(Job, s)
      BY DEF Entitled, Asked, Spending
    <3>3. Fresh' /\ Verified' /\ Earned' /\ Exclusive'
      BY <1>1, <2>1, <2>2, <3>1, <3>2, CallStep DEF money
    <3> QED
      BY <2>1, <2>2, <3>1, <3>3 DEF PaymentTypeOK, MovesTo, money, code
  <2> QED
    BY <2>3, <2>4
<1> QED
  BY <1>2, <1>3, <1>4

(* A call dies, in the middle of a wallet call or not.                     *)
LEMMA CrashStep ==
    ASSUME PaymentInv, NEW c \in Procs, Crash(c)
    PROVE  PaymentInv'
<1> USE DEF PaymentInv
<1>1. PaymentTypeOK /\ Pay(c) \in Payments /\ Busy(c)
  BY DEF PaymentTypeOK, CallRecord, Pay, Busy, Crash
<1>2. MovesTo(c, {"idle"})
  BY <1>1, FinishMoves DEF Crash, Finish
<1>3. /\ topup' \in [Payments -> Effect] /\ refund' \in [Payments -> Effect]
      /\ \A p \in Payments : topup'[p] # topup[p] => p = Pay(c) /\ At(c, "topup")
  BY <1>1 DEF Crash, Left, PaymentTypeOK, Effect
<1>4. UNCHANGED <<status, gate, grants, active, creditedAt, overrun, code, planOpen>>
      /\ picked' \subseteq picked
  BY DEF Crash
<1> USE <1>1, <1>2, <1>3, <1>4 DEF MovesTo, At, Pay, Busy
<1>5. Fresh'
  BY DEF Fresh, Procs
<1>6. Verified'
  BY DEF Verified, Asked
<1>7. Earned'
  BY DEF Earned, Effective, Spending
<1>8. Exclusive'
  BY DEF Exclusive, Spending
<1>9. PaymentTypeOK'
  BY DEF PaymentTypeOK, code
<1> QED
  BY <1>5, <1>6, <1>7, <1>8, <1>9

(* The invariant holds initially, and every step preserves it.             *)
LEMMA InitInv == PaymentInit => PaymentInv
<1> SUFFICES ASSUME PaymentInit PROVE PaymentInv
  OBVIOUS
<1>1. PaymentTypeOK
  BY IdleShape DEF PaymentInit, PaymentTypeOK, Status, Gates, Effect
<1>2. \A c \in Procs : call[c].at = "idle"
  BY IdleShape DEF PaymentInit
<1>3. Job \in Procs /\ picked = {} /\ \A p \in Payments : ~Effective(p) /\ grants[p] = 0
  BY DEF PaymentInit, Procs, Effective
<1>4. Fresh
  BY <1>2, <1>3 DEF Fresh, Busy, At
<1>5. Verified
  BY <1>2, PaymentAssumption DEF PaymentInit, Verified, Settled, Asked
<1>6. Earned
  BY <1>2, <1>3, PaymentAssumption DEF Earned, Spending
<1>7. Exclusive
  BY <1>2, <1>3 DEF Exclusive, Spending, At
<1> QED
  BY <1>1, <1>4, <1>5, <1>6, <1>7 DEF PaymentInv

(* ... by every action of PaymentNext.                                     *)
LEMMA StepInv == PaymentInv /\ [PaymentNext]_vars => PaymentInv'
<1> SUFFICES ASSUME PaymentInv, [PaymentNext]_vars PROVE PaymentInv'
  OBVIOUS
<1>1. Job \in Procs /\ Calls \subseteq Procs
  BY DEF Procs
<1>2. ASSUME NEW c \in Calls, Begin(c) PROVE PaymentInv'
  BY <1>2, BeginSteps
<1>6. ASSUME NEW c \in Calls, Step(c) PROVE PaymentInv'
  <2>1. CASE Reserve(c) \/ Consume(c) \/ Unreserve(c) \/ Free(c) \/ Decrement(c) \/ MarkOverrun(c)
    BY <1>1, <2>1, CodeSteps
  <2>2. CASE CreateReceipt(c) \/ CreateGateway(c) \/ Approve(c) \/ DecideCAS(c) \/ CancelCAS(c)
    BY <1>1, <2>2, DecisionSteps
  <2>3. CASE OpenAuthority(c) \/ Ask(c)
    BY <1>1, <2>3, GateSteps
  <2>4. CASE Finalize(c)
    BY <1>1, <2>4, FinalizeStep
  <2>5. CASE TopupCredit(c) \/ Stamp(c) \/ Revoke(c) \/ RefundCredit(c)
    BY <1>1, <2>5, MoneySteps
  <2>6. CASE RefundCAS(c)
    BY <1>1, <2>6, RefundStep
  <2> QED
    BY <1>6, <2>1, <2>2, <2>3, <2>4, <2>5, <2>6 DEF Step
<1>3. CASE JobStep
  BY <1>1, <1>3, CleanupSteps, CodeSteps, GateSteps DEF JobStep
<1>4. CASE PlanDropped
  BY <1>4 DEF PlanDropped, PaymentInv, PaymentTypeOK, Fresh, Verified, Earned, Exclusive,
              At, Pay, Busy, Effective, money, code
<1>5. CASE UNCHANGED vars
  BY <1>5 DEF vars, PaymentInv, PaymentTypeOK, Fresh, Verified, Earned, Exclusive,
              At, Pay, Busy, Effective, money, code
<1> QED
  BY <1>2, <1>3, <1>4, <1>5, <1>6, CleanupSteps, CrashStep, PaidStep DEF PaymentNext

(* The inductive invariant holds: in particular every payment is in the    *)
(* hands of the calls the way the conjuncts above describe.                *)
THEOREM PaymentInvariant == PaymentSpec => []PaymentInv
  BY InitInv, StepInv, PTL DEF PaymentSpec

(* The variables of Payment keep their types.                              *)
THEOREM PaymentTypes == PaymentSpec => []PaymentTypeOK
<1>1. PaymentInv => PaymentTypeOK
  BY DEF PaymentInv
<1> QED
  BY <1>1, PaymentInvariant, PTL

(* Whatever dies and whoever is careless, what a payment has bought or     *)
(* credited was approved, and at the gateway confirmed as paid             *)
(* (finalize_approved_payment after sub_payment_verify_zarinpal).          *)
THEOREM PaymentsArePaid == PaymentSpec => []NothingUnpaid
<1>1. PaymentInv => NothingUnpaid
  BY DEF PaymentInv, Verified, Earned, NothingUnpaid, Settled
<1> QED
  BY <1>1, PaymentInvariant, PTL

(* When staff reconcile with care, one payment adds one period, however    *)
(* many verifies, decisions and reconciliations there are.                 *)
THEOREM PeriodsAreSingle ==
    ASSUME Careful
    PROVE  PaymentSpec => []GrantedOnce
<1>1. PaymentInv => GrantedOnce
  BY DEF PaymentInv, Exclusive, GrantedOnce
<1> QED
  BY <1>1, PaymentInvariant, PTL

(* The actions that change a status, and those that change what a payment  *)
(* has been given.                                                         *)
LEMMA WhoWrites ==
    ASSUME PaymentNext
    PROVE  /\ \/ UNCHANGED status
              \/ Flip
              \/ \E c \in Procs : CreateReceipt(c) \/ CreateGateway(c) \/ Approve(c)
                                   \/ DecideCAS(c) \/ CancelCAS(c) \/ RefundCAS(c)
           /\ \/ UNCHANGED <<grants, topup, refund>>
              \/ \E c \in Procs : Finalize(c) \/ TopupCredit(c) \/ RefundCredit(c) \/ Crash(c)
<1> USE DEF money
<1>1. Calls \subseteq Procs
  BY DEF Procs
<1>2. ASSUME NEW c \in Calls, Begin(c)
      PROVE  UNCHANGED <<status, grants, topup, refund>>
  BY <1>2 DEF Begin, Submit, Request, Verify, Decide, Cancel, Refund, ReconcileActivate,
              ReconcileTopup, Start
<1>3. ASSUME NEW c \in Procs
      PROVE  /\ Reserve(c) \/ Consume(c) \/ Unreserve(c) \/ Free(c) \/ Decrement(c)
                \/ OpenAuthority(c) \/ Ask(c) \/ MarkOverrun(c) \/ Stamp(c) \/ Revoke(c)
                => UNCHANGED <<status, grants, topup, refund>>
             /\ CreateReceipt(c) \/ CreateGateway(c) \/ Approve(c) \/ DecideCAS(c)
                \/ CancelCAS(c) \/ RefundCAS(c)
                => UNCHANGED <<grants, topup, refund>>
             /\ Finalize(c) \/ TopupCredit(c) \/ RefundCredit(c) \/ Crash(c)
                => UNCHANGED status
  <2>1. Reserve(c) \/ Consume(c) \/ Unreserve(c) \/ Free(c) \/ Decrement(c)
        => UNCHANGED <<status, grants, topup, refund>>
    BY DEF Reserve, Consume, Unreserve, Free, Decrement
  <2>2. OpenAuthority(c) \/ Ask(c) \/ MarkOverrun(c) \/ Stamp(c) \/ Revoke(c)
        => UNCHANGED <<status, grants, topup, refund>>
    BY DEF OpenAuthority, Ask, MarkOverrun, Stamp, Revoke
  <2>3. CreateReceipt(c) \/ CreateGateway(c) \/ Approve(c) \/ DecideCAS(c) \/ CancelCAS(c)
        \/ RefundCAS(c) => UNCHANGED <<grants, topup, refund>>
    BY DEF CreateReceipt, CreateGateway, Approve, DecideCAS, CancelCAS, RefundCAS
  <2>4. Finalize(c) \/ TopupCredit(c) \/ RefundCredit(c) \/ Crash(c) => UNCHANGED status
    BY DEF Finalize, TopupCredit, RefundCredit, Crash
  <2> QED
    BY <2>1, <2>2, <2>3, <2>4
<1>4. /\ Flip => UNCHANGED <<grants, topup, refund>>
      /\ Reverse => UNCHANGED <<status, grants, topup, refund>>
      /\ \A p \in Payments : NextDoc(p) \/ PayAtGateway(p) => UNCHANGED <<status, grants, topup, refund>>
      /\ \A S \in SUBSET Payments : Pick(S) => UNCHANGED <<status, grants, topup, refund>>
      /\ PlanDropped => UNCHANGED <<status, grants, topup, refund>>
  BY DEF Flip, Reverse, NextDoc, PayAtGateway, Pick, PlanDropped
<1>5. Job \in Procs
  BY DEF Procs
<1> QED
  BY <1>1, <1>2, <1>3, <1>4, <1>5 DEF PaymentNext, Step, JobStep

(* A decision is final: whatever verifies, decisions, cancellations and    *)
(* cleanups cross, only an approved payment moves on, to refunded.         *)
THEOREM DecisionsAreFinal == PaymentSpec => DecidedOnce
<1>1. ASSUME PaymentInv, PaymentNext
      PROVE  \A p \in Payments :
                status[p] \in {"approved", "rejected", "cancelled", "refunded"} =>
                   \/ status'[p] = status[p]
                   \/ status[p] = "approved" /\ status'[p] = "refunded"
  <2> SUFFICES ASSUME NEW p \in Payments,
                      status[p] \in {"approved", "rejected", "cancelled", "refunded"}
               PROVE  \/ status'[p] = status[p]
                      \/ status[p] = "approved" /\ status'[p] = "refunded"
    OBVIOUS
  <2>1. PaymentTypeOK /\ \A c \in Procs : Pay(c) \in Payments
    BY <1>1 DEF PaymentInv, PaymentTypeOK, CallRecord, Pay
  <2>2. CASE UNCHANGED status
    BY <2>2
  <2>3. CASE Flip
    BY <2>1, <2>3 DEF Flip, PaymentTypeOK
  <2>4. ASSUME NEW c \in Procs, CreateReceipt(c) PROVE status'[p] = status[p]
    BY <2>1, <2>4 DEF CreateReceipt, PaymentTypeOK
  <2>5. ASSUME NEW c \in Procs, CreateGateway(c) PROVE status'[p] = status[p]
    <3>1. status[Pay(c)] = "none"
      BY <1>1, <2>5 DEF CreateGateway, PaymentInv, Fresh, At
    <3> QED
      BY <2>1, <2>5, <3>1 DEF CreateGateway, PaymentTypeOK
  <2>6. ASSUME NEW c \in Procs, Approve(c) PROVE status'[p] = status[p]
    BY <2>1, <2>6 DEF Approve, PaymentTypeOK
  <2>7. ASSUME NEW c \in Procs, DecideCAS(c) \/ CancelCAS(c) PROVE status'[p] = status[p]
    BY <2>1, <2>7 DEF DecideCAS, CancelCAS, PaymentTypeOK
  <2>8. ASSUME NEW c \in Procs, RefundCAS(c)
        PROVE  \/ status'[p] = status[p]
               \/ status[p] = "approved" /\ status'[p] = "refunded"
    BY <2>1, <2>8 DEF RefundCAS, PaymentTypeOK
  <2> QED
    BY <1>1, <2>2, <2>3, <2>4, <2>5, <2>6, <2>7, <2>8, WhoWrites
<1>2. PaymentInv /\ [PaymentNext]_vars =>
         [\A p \in Payments :
             status[p] \in {"approved", "rejected", "cancelled", "refunded"} =>
                \/ status'[p] = status[p]
                \/ status[p] = "approved" /\ status'[p] = "refunded"]_vars
  BY <1>1
<1> QED
  BY <1>2, PaymentInvariant, PTL DEF PaymentSpec, DecidedOnce

(* When staff reconcile with care, the wallet is credited back only for a  *)
(* refunded payment, and a refunded payment grants and credits no more.    *)
THEOREM RefundsEndPayments ==
    ASSUME Careful
    PROVE  PaymentSpec => RefundIsTheEnd
<1>1. ASSUME PaymentInv, PaymentNext
      PROVE  \A p \in Payments :
                /\ refund'[p] # refund[p] => status[p] = "refunded"
                /\ status[p] = "refunded" => grants'[p] = grants[p] /\ topup'[p] = topup[p]
  <2> SUFFICES ASSUME NEW p \in Payments
               PROVE  /\ refund'[p] # refund[p] => status[p] = "refunded"
                      /\ status[p] = "refunded" => grants'[p] = grants[p] /\ topup'[p] = topup[p]
    OBVIOUS
  <2>1. PaymentTypeOK /\ \A c \in Procs : Pay(c) \in Payments
    BY <1>1 DEF PaymentInv, PaymentTypeOK, CallRecord, Pay
  <2>2. \A c \in Procs : call[c].at \in Spending => status[Pay(c)] = "approved"
    BY <1>1 DEF PaymentInv, Exclusive
  <2>3. \A c \in Procs : At(c, "credit") => status[Pay(c)] = "refunded"
    BY <1>1 DEF PaymentInv, Earned, At
  <2>4. ASSUME NEW c \in Procs, Finalize(c) PROVE UNCHANGED refund /\ UNCHANGED topup
                                                 /\ (status[p] = "refunded" => grants'[p] = grants[p])
    BY <2>1, <2>2, <2>4 DEF Finalize, PaymentTypeOK, Spending, At, money
  <2>5. ASSUME NEW c \in Procs, TopupCredit(c)
        PROVE  UNCHANGED <<refund, grants>> /\ (status[p] = "refunded" => topup'[p] = topup[p])
    BY <2>1, <2>2, <2>5 DEF TopupCredit, PaymentTypeOK, Spending, At
  <2>6. ASSUME NEW c \in Procs, RefundCredit(c)
        PROVE  UNCHANGED <<topup, grants>> /\ (refund'[p] # refund[p] => status[p] = "refunded")
    BY <2>1, <2>3, <2>6 DEF RefundCredit, PaymentTypeOK, At
  <2>7. ASSUME NEW c \in Procs, Crash(c)
        PROVE  /\ UNCHANGED grants
               /\ refund'[p] # refund[p] => status[p] = "refunded"
               /\ status[p] = "refunded" => topup'[p] = topup[p]
    BY <2>1, <2>2, <2>3, <2>7 DEF Crash, Left, PaymentTypeOK, Spending, At
  <2> QED
    BY <1>1, <2>4, <2>5, <2>6, <2>7, WhoWrites
<1>2. PaymentInv /\ [PaymentNext]_vars =>
         [\A p \in Payments :
             /\ refund'[p] # refund[p] => status[p] = "refunded"
             /\ status[p] = "refunded" => grants'[p] = grants[p] /\ topup'[p] = topup[p]]_vars
  BY <1>1
<1> QED
  BY <1>2, PaymentInvariant, PTL DEF PaymentSpec, RefundIsTheEnd

=============================================================================
