---------------------------- MODULE WalletRepair ----------------------------
(***************************************************************************)
(* The administrator's repairs of a wallet, beside its live calls:         *)
(* wallet_resolve_pending (db/wallet.py), which settles a document that a  *)
(* crash left pending, and the resync of the cached balance with the       *)
(* ledger (api/routers/web_admin.py).                                      *)
(*                                                                         *)
(* Both read, decide, and write, with awaits in between.  Whether the      *)
(* money of a pending document has moved is inferred from the difference   *)
(* of balance and ledger.  The admin panel lists pending documents of any  *)
(* age and several staff accounts hold the permission, so the code itself  *)
(* does not keep repairs apart from live calls or from each other; Care    *)
(* says how carefully the staff works.                                     *)
(***************************************************************************)
EXTENDS Wallet

CONSTANTS
    Admins,  \* the staff accounts with subscription.manage; they are Procs too
    CompKey, \* CompKey[k]: the key ('pending_cancel', id of k's document)
    Care     \* "any": a repair starts at any time
             \* "idle": it starts and runs while nothing else runs
             \* "quiet": moreover the document is the wallet's only pending one

ASSUME RepairAssumption ==
    /\ Admins \subseteq Procs
    /\ DOMAIN CompKey \subseteq Keys
    /\ \A k \in DOMAIN CompKey :
          /\ CompKey[k] \in Keys \ DOMAIN CompKey
          /\ Amount[CompKey[k]] = Amount[k]
          /\ TypeOf[CompKey[k]] =
                IF Direction(k) = "credit" THEN "admin_debit" ELSE "reversal"
    /\ Care \in {"any", "idle", "quiet"}

VARIABLES
    stage,    \* stage[a]: where a is in a repair
    action,   \* action[a]: "complete" or "cancel"
    target,   \* target[a]: the key whose document a resolves
    seen,     \* seen[a]: the balance, or for a resync the sum, a has read
    applied   \* applied[a]: a's verdict that the money has already moved

repairVars == <<stage, action, target, seen, applied>>
vars == <<walletVars, repairVars>>

Stages == {"idle", "balance", "evidence", "markok", "applying", "compensating",
           "close", "drop", "sum", "overwrite"}

RepairInit ==
    /\ Init
    /\ stage = [a \in Admins |-> "idle"]
    /\ action = [a \in Admins |-> "complete"]
    /\ target = [a \in Admins |-> AnyKey]
    /\ seen = [a \in Admins |-> 0]
    /\ applied = [a \in Admins |-> FALSE]

Enter(a, s) == stage' = [stage EXCEPT ![a] = s]

Repairing == \E a \in Admins : stage[a] # "idle"

MayStart == Care # "any" => ~Repairing /\ \A p \in Procs : pc[p] = "idle"

-----------------------------------------------------------------------------
(* wallet_resolve_pending finds the document pending.                      *)
ResolveStart(a, k, act) ==
    /\ stage[a] = "idle" /\ pc[a] = "idle" /\ MayStart
    /\ tx[k] = "pending"
    /\ Care = "quiet" => PendingKeys = {k}
    /\ Enter(a, "balance")
    /\ target' = [target EXCEPT ![a] = k]
    /\ action' = [action EXCEPT ![a] = act]
    /\ UNCHANGED <<walletVars, seen, applied>>

(* It reads the wallet, creating it if the crash came before that ...       *)
ReadBalance(a) ==
    /\ stage[a] = "balance"
    /\ hasWallet' = TRUE
    /\ seen' = [seen EXCEPT ![a] = balance]
    /\ Enter(a, "evidence")
    /\ UNCHANGED <<balance, tx, pc, cur, delta, ret, effects, action, target, applied>>

(* Mutant: the difference is compared without the document's direction.    *)
VerdictUnsigned(a) == seen[a] - LedgerSum = Amount[target[a]]

(* ... then the ledger sum, and takes a difference of exactly the recorded  *)
(* amount as evidence that the money has moved.                            *)
Verdict(a) == seen[a] - LedgerSum = RecordedDelta(target[a])

(* An unmoved amount is applied now by _wallet_apply, with the direction    *)
(* the document records.                                                   *)
Weigh(a) ==
    /\ stage[a] = "evidence"
    /\ applied' = [applied EXCEPT ![a] = Verdict(a)]
    /\ IF action[a] = "complete" /\ ~Verdict(a)
       THEN /\ Goto(a, "apply")
            /\ cur' = [cur EXCEPT ![a] = target[a]]
            /\ delta' = [delta EXCEPT ![a] = RecordedDelta(target[a])]
            /\ Enter(a, "applying")
       ELSE /\ UNCHANGED <<pc, cur, delta>>
            /\ Enter(a, CASE action[a] = "complete" -> "markok"
                          [] action[a] = "cancel" /\ Verdict(a) -> "compensating"
                          [] OTHER -> "drop")
    /\ UNCHANGED <<balance, hasWallet, tx, ret, effects, action, target, seen>>

Finish(a) == Enter(a, "idle") /\ UNCHANGED <<action, target, seen, applied>>

(* complete, money already moved: only the mark is made up for.            *)
MarkApplied(a) ==
    /\ stage[a] = "markok"
    /\ Settle(target[a], "ok")
    /\ Finish(a)
    /\ UNCHANGED <<balance, hasWallet, pc, cur, delta, ret, effects>>

(* complete, money not moved: the borrowed _wallet_apply has returned.     *)
Completed(a) ==
    /\ stage[a] = "applying" /\ pc[a] = "idle"
    /\ Finish(a)
    /\ UNCHANGED walletVars

(* cancel, money moved: a call of wallet_debit or wallet_credit under the  *)
(* key of the cancellation moves it back.                                  *)
Compensate(a) ==
    /\ stage[a] = "compensating"
    /\ Begin(a, CompKey[target[a]])
    /\ Enter(a, "close")
    /\ UNCHANGED <<action, target, seen, applied>>

(* Mutant: a cancelled document is closed as failed though its money moved. *)
CloseAsFailed(a) ==
    /\ stage[a] = "close" /\ pc[a] = "idle"
    /\ IF ret[a] \in {"ok", "replay"}
       THEN Settle(target[a], "failed")
       ELSE UNCHANGED tx
    /\ Finish(a)
    /\ UNCHANGED <<balance, hasWallet, pc, cur, delta, ret, effects>>

(* The document really happened, so it is closed as ok; when the           *)
(* compensation failed the error is reported and the document stays.       *)
Close(a) ==
    /\ stage[a] = "close" /\ pc[a] = "idle"
    /\ IF ret[a] \in {"ok", "replay"}
       THEN Settle(target[a], "ok")
       ELSE UNCHANGED tx
    /\ Finish(a)
    /\ UNCHANGED <<balance, hasWallet, pc, cur, delta, ret, effects>>

(* cancel, money not moved: the document fails.                            *)
Drop(a) ==
    /\ stage[a] = "drop"
    /\ Settle(target[a], "failed")
    /\ Finish(a)
    /\ UNCHANGED <<balance, hasWallet, pc, cur, delta, ret, effects>>

-----------------------------------------------------------------------------
(* Mutant: a resync that does not ask for pending documents.               *)
ResyncStartUnchecked(a) ==
    /\ stage[a] = "idle" /\ pc[a] = "idle" /\ MayStart
    /\ hasWallet
    /\ Enter(a, "sum")
    /\ UNCHANGED <<walletVars, action, target, seen, applied>>

(* wa_wallet_resync: no document pending, then the ledger sum, which must  *)
(* not be negative, then the overwrite of the balance.                     *)
ResyncStart(a) ==
    /\ stage[a] = "idle" /\ pc[a] = "idle" /\ MayStart
    /\ hasWallet
    /\ PendingKeys = {}
    /\ Enter(a, "sum")
    /\ UNCHANGED <<walletVars, action, target, seen, applied>>

ResyncSum(a) ==
    /\ stage[a] = "sum"
    /\ seen' = [seen EXCEPT ![a] = LedgerSum]
    /\ Enter(a, IF LedgerSum < 0 THEN "idle" ELSE "overwrite")
    /\ UNCHANGED <<walletVars, action, target, applied>>

ResyncWrite(a) ==
    /\ stage[a] = "overwrite"
    /\ balance' = seen[a]
    /\ Finish(a)
    /\ UNCHANGED <<hasWallet, tx, pc, cur, delta, ret, effects>>

(* The request dies between two of its writes.                             *)
RepairCrash(a) ==
    /\ stage[a] # "idle"
    /\ Return(a, "none")
    /\ Finish(a)
    /\ UNCHANGED <<balance, hasWallet, tx, cur, delta, effects>>

RepairStep(a) ==
    \/ ReadBalance(a) \/ Weigh(a) \/ MarkApplied(a) \/ Completed(a)
    \/ Compensate(a) \/ Close(a) \/ Drop(a)
    \/ ResyncStart(a) \/ ResyncSum(a) \/ ResyncWrite(a) \/ RepairCrash(a)
    \/ \E k \in DOMAIN CompKey, act \in {"complete", "cancel"} : ResolveStart(a, k, act)

(* A live call begins; the keys of cancellations are used by repairs only. *)
LiveBegin(p) ==
    /\ Care # "any" => ~Repairing
    /\ p \in Admins => stage[p] = "idle"
    /\ \E k \in DOMAIN CompKey : Begin(p, k)
    /\ UNCHANGED repairVars

(* A step of a call, of a live one or of one borrowed by a repair.         *)
CallStep(p) ==
    /\ \/ Work(p)
       \/ Crash(p) /\ (p \in Admins => stage[p] = "idle")
    /\ UNCHANGED repairVars

RepairNext ==
    \/ \E p \in Procs : LiveBegin(p) \/ CallStep(p)
    \/ \E a \in Admins : RepairStep(a)

RepairSpec == RepairInit /\ [][RepairNext]_vars

-----------------------------------------------------------------------------
(* The verdict of a repair is right when the repair acts on it.            *)
VerdictIsRight ==
    \A a \in Admins :
        stage[a] \in {"markok", "compensating", "drop"} =>
            applied[a] = (effects[target[a]] = 1)

(* `complete` never gives up on a document: a debit it cannot apply leaves *)
(* the document pending (docstring of wallet_resolve_pending).             *)
CompleteNeverFails ==
    [][\A a \in Admins, k \in Keys :
          stage[a] = "applying" /\ target[a] = k /\ tx[k] = "pending"
            => tx'[k] # "failed"]_vars

(* The balance is overwritten with the sum of the ledger only while nothing *)
(* of the wallet is pending, or a change in flight would be lost.          *)
ResyncOnlySettled ==
    [][\A a \in Admins :
          stage[a] = "overwrite" /\ stage'[a] = "idle" /\ balance' # balance
            => PendingKeys = {}]_vars

(* A cancellation that moved money back says so truthfully: the document is *)
(* closed as cancelled only once the compensation has taken effect.        *)
CancelCompensates ==
    [][\A a \in Admins :
          stage[a] = "close" /\ tx[target[a]] = "pending" /\ tx'[target[a]] = "ok"
            => effects[CompKey[target[a]]] = 1]_vars
=============================================================================
