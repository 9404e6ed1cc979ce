------------------------------- MODULE Ledger -------------------------------
(***************************************************************************)
(* What the wallet subsystem promises to the rest of the platform (the     *)
(* header of db/wallet.py): one economic effect per key, however often the *)
(* operation behind the key is retried, and never a negative balance.      *)
(* There are no processes, no pending documents and no crashes here: an    *)
(* operation happens at once and for good, or it has not happened.         *)
(***************************************************************************)
EXTENDS Integers

CONSTANTS
    Keys,       \* idempotency keys: pairs (reference_type, reference_id)
    DeltaOf(_)  \* the signed amount the operation behind a key stands for

VARIABLES
    bal,        \* the balance the user owns
    done        \* the keys whose effect has happened

ledgerVars == <<bal, done>>

LedgerInit == bal = 0 /\ done = {}

(* The effect of key k: at most once, and never below zero.               *)
Effect(k) ==
    /\ k \notin done
    /\ bal + DeltaOf(k) >= 0
    /\ bal' = bal + DeltaOf(k)
    /\ done' = done \cup {k}

LedgerNext == \E k \in Keys : Effect(k)

LedgerSpec == LedgerInit /\ [][LedgerNext]_ledgerVars
=============================================================================
