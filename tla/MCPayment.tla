----------------------------- MODULE MCPayment -----------------------------
(***************************************************************************)
(* A gateway payment and a receipt of two users that compete for the last  *)
(* use of the code, and a gateway top-up, two calls at a time.             *)
(***************************************************************************)
EXTENDS Payment, TLC

CONSTANTS online, paper, charge, ali, sara, c1, c2, job

MCOwner == [p \in Payments |-> IF p = paper THEN sara ELSE ali]
MCSame == [p \in Payments |-> ali]
MCOps == {"submit", "request", "verify", "approve", "reject", "cancel", "refund",
          "activate", "finalize", "drop"}
MCNoDrop == MCOps \ {"drop"}
CallSymmetry == Permutations(Calls)
=============================================================================
