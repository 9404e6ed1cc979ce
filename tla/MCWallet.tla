------------------------------ MODULE MCWallet ------------------------------
(***************************************************************************)
(* Two callers.  The main instance has four keys: a top-up, two purchases  *)
(* that compete for the balance, and a manual credit under the daily cap.  *)
(* Two small ones single out a key type: the reward of a referral, and two *)
(* manual credits that exceed the cap together.                            *)
(***************************************************************************)
EXTENDS Wallet, TLC

CONSTANTS p1, p2, topup, buy1, buy2, adj, adj2, reward

AllTypes ==
    topup :> "topup_credit" @@ buy1 :> "subscription_purchase"
 @@ buy2 :> "subscription_purchase" @@ adj :> "admin_credit"
 @@ adj2 :> "admin_credit" @@ reward :> "referral_credit"
AllAmounts ==
    topup :> 3 @@ buy1 :> 2 @@ buy2 :> 2 @@ adj :> 1 @@ adj2 :> 1 @@ reward :> 1

MCTypeOf == [k \in Keys |-> AllTypes[k]]
MCAmount == [k \in Keys |-> AllAmounts[k]]
=============================================================================
