--------------------------- MODULE MCWalletRepair ---------------------------
(***************************************************************************)
(* A top-up and a purchase, each with the key of its cancellation; one     *)
(* live caller and one member of staff.                                    *)
(***************************************************************************)
EXTENDS WalletRepair, TLC

CONSTANTS p1, a1, topup, buy, undoTopup, undoBuy

MCTypeOf ==
    topup :> "topup_credit" @@ undoTopup :> "admin_debit"
 @@ buy :> "subscription_purchase" @@ undoBuy :> "reversal"
MCAmount == topup :> 3 @@ undoTopup :> 3 @@ buy :> 2 @@ undoBuy :> 2
MCCompKey == topup :> undoTopup @@ buy :> undoBuy
=============================================================================
