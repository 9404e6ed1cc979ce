-------------------------- MODULE MCWalletPurchase --------------------------
(***************************************************************************)
(* Two requests at a time, an order without and one with the discount      *)
(* code, and a deposit that pays for only one of them.                     *)
(***************************************************************************)
EXTENDS WalletPurchase, TLC

CONSTANTS p1, p2, plain, coded, topup, payP, refP, undoP, payC, refC, undoC

AllDebit  == plain :> payP @@ coded :> payC
AllRefund == plain :> refP @@ coded :> refC
AllUndo   == plain :> undoP @@ coded :> undoC

MCDebitKey  == [o \in Orders |-> AllDebit[o]]
MCRefundKey == [o \in Orders |-> AllRefund[o]]
MCUndoKey   == [o \in Orders |-> AllUndo[o]]
MCKeys      == {topup} \cup {AllDebit[o] : o \in Orders}
                \cup {AllRefund[o] : o \in Orders} \cup {AllUndo[o] : o \in Orders}
MCTypeOf    == [k \in Keys |-> CASE k = topup -> "topup_credit"
                                 [] k \in {payP, payC} -> "subscription_purchase"
                                 [] OTHER -> "reversal"]
MCAmount    == [k \in Keys |-> IF k = topup THEN 3 ELSE 2]
=============================================================================
