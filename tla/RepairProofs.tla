----------------------------- MODULE RepairProofs -----------------------------
(***************************************************************************)
(* Theorems about WalletRepair, for any number of callers, staff accounts, *)
(* keys and amounts: the types, whatever the staff do; the resync          *)
(* overwrites the balance of a settled wallet only, when repairs keep      *)
(* clear of live calls; and, when moreover the document is the wallet's    *)
(* only pending one, a repair judges rightly whether the money of its      *)
(* document has moved, so calls and repairs together still implement the   *)
(* ledger.                                                                 *)
(*                                                                         *)
(* The calls are those of Wallet: what its proofs say of a step (StepMoney, *)
(* StepSum, StepMaps) is cited here, and what remains is about repairs.    *)
(***************************************************************************)
EXTENDS WalletRepair, WalletProofs

(* The stages in which a repair is about a document.                       *)
Resolving == {"balance", "evidence", "markok", "applying", "compensating", "close", "drop"}

(* The types of the repairs' variables and of the wallet's; only documents  *)
(* that have a key for their cancellation are resolved.                    *)
RepairTypeOK ==
    /\ TypeOK
    /\ stage \in [Admins -> Stages]
    /\ action \in [Admins -> {"complete", "cancel"}]
    /\ target \in [Admins -> Keys]
    /\ seen \in [Admins -> Int]
    /\ applied \in [Admins -> BOOLEAN]
    /\ \A a \in Admins : stage[a] \in Resolving => target[a] \in DOMAIN CompKey

(* A repair that keeps clear of live calls has the wallet to itself: no    *)
(* other repair, and no call but the one it has begun itself.              *)
AloneInv ==
    \A a \in Admins : stage[a] # "idle" =>
        /\ \A b \in Admins : stage[b] # "idle" => b = a
        /\ \A p \in Procs : pc[p] # "idle" => p = a /\ stage[a] \in {"applying", "close"}
        /\ stage[a] \in {"sum", "overwrite"} => PendingKeys = {}

(* What a repair has read still holds when it acts on it, and its verdict  *)
(* leads it to the right end.                                              *)
TaskInv ==
    \A a \in Admins :
        /\ stage[a] \in {"balance", "evidence", "markok", "compensating", "drop"} =>
              PendingKeys = {target[a]}
        /\ stage[a] \in {"evidence", "overwrite"} => seen[a] = balance
        /\ stage[a] \in {"markok", "compensating"} => applied[a] /\ effects[target[a]] = 1
        /\ stage[a] = "drop" => ~applied[a] /\ effects[target[a]] = 0
        /\ stage[a] = "close" => effects[target[a]] = 1

(* The inductive invariant.                                                *)
RepairInv == RepairTypeOK /\ AloneInv /\ MoneyInv /\ SumInv /\ TaskInv

-----------------------------------------------------------------------------
(* Staff are callers, and the key of a cancellation is a key.              *)
LEMMA StaffFacts ==
    /\ Admins \subseteq Procs
    /\ DOMAIN CompKey \subseteq Keys
    /\ \A k \in DOMAIN CompKey : CompKey[k] \in Keys
    /\ AnyKey \in Keys
  BY RepairAssumption, WalletAssumption DEF RepairAssumption, WalletAssumption, AnyKey

(* A call, of a user or begun by a repair, takes a step of Wallet.          *)
LEMMA CallSteps ==
    /\ \A p \in Procs : LiveBegin(p) \/ CallStep(p) => Next /\ UNCHANGED repairVars
    /\ \A a \in Admins : RepairTypeOK /\ Compensate(a) => Next
<1>1. ASSUME NEW p \in Procs, LiveBegin(p) \/ CallStep(p)
      PROVE  Next /\ UNCHANGED repairVars
    BY <1>1, StaffFacts DEF LiveBegin, CallStep, Next, Step
<1>2. ASSUME NEW a \in Admins, RepairTypeOK, Compensate(a)
      PROVE  Next
    <2>1. target[a] \in DOMAIN CompKey
        BY <1>2 DEF RepairTypeOK, Compensate, Resolving
    <2> QED
        BY <1>2, <2>1, StaffFacts DEF Compensate, Next
<1> QED
    BY <1>1, <1>2

(* Finitely many documents are ok.                                         *)
FewOk == IsFiniteSet(OkKeys)

(* A step writes one document, so finitely many stay ok.                   *)
LEMMA OneMoreOk ==
    ASSUME TypeOK, FewOk, NEW k \in Keys, \A j \in Keys \ {k} : tx'[j] = tx[j]
    PROVE  FewOk'
<1>1. IsFiniteSet(OkKeys \cup {k})
    BY FS_AddElement DEF FewOk
<1>2. OkKeys' \subseteq OkKeys \cup {k}
    BY DEF OkKeys
<1> QED
    BY <1>1, <1>2, FS_Subset DEF FewOk

(* The sum of the ledger is an integer.                                    *)
LEMMA LedgerSumType == FewOk => LedgerSum \in Int
  BY TotalType DEF FewOk, LedgerSum, Total, OkKeys

(* Every step keeps the types, whenever the staff repair.                  *)
LEMMA RepairTypeStep ==
    ASSUME RepairTypeOK, FewOk, [RepairNext]_vars
    PROVE  RepairTypeOK' /\ FewOk'
<1> USE StaffFacts DEF RepairTypeOK, Resolving, Stages
<1>w. ASSUME [Next]_walletVars
      PROVE  TypeOK' /\ FewOk'
    <2>1. TypeOK'
        BY <1>w, StepType
    <2>2. ASSUME NEW p \in Procs, Insert(p) \/ Fail(p) \/ Mark(p)
          PROVE  FewOk'
        <3>1. cur[p] \in Keys /\ \A j \in Keys \ {cur[p]} : tx'[j] = tx[j]
            BY <2>2 DEF Insert, Fail, Mark, Settle, TypeOK
        <3> QED
            BY <3>1, OneMoreOk
    <2>3. ASSUME UNCHANGED tx
          PROVE  FewOk'
        BY <2>3 DEF FewOk, OkKeys
    <2>4. ASSUME NEW p \in Procs, Step(p)
          PROVE  FewOk'
        BY <2>2, <2>3, <2>4 DEF Step, Work, CheckCap, Provision, Apply, Crash
    <2>5. ASSUME NEW p \in Procs, NEW k \in Keys, Begin(p, k)
          PROVE  FewOk'
        BY <2>3, <2>5 DEF Begin
    <2> QED
        BY <1>w, <2>1, <2>3, <2>4, <2>5 DEF Next, walletVars
<1>1. ASSUME NEW p \in Procs, LiveBegin(p) \/ CallStep(p)
      PROVE  RepairTypeOK' /\ FewOk'
    <2>1. TypeOK' /\ FewOk'
        BY <1>1, <1>w, CallSteps
    <2>2. UNCHANGED repairVars
        BY <1>1, CallSteps
    <2> QED
        BY <2>1, <2>2 DEF repairVars
<1>2. ASSUME NEW a \in Admins, RepairStep(a)
      PROVE  RepairTypeOK' /\ FewOk'
    <2>1. CASE \E k \in DOMAIN CompKey, act \in {"complete", "cancel"} : ResolveStart(a, k, act)
        <3>1. TypeOK' /\ FewOk'
            BY <2>1, <1>w DEF ResolveStart
        <3> QED
            BY <2>1, <3>1 DEF ResolveStart, Enter
    <2>2. CASE ReadBalance(a)
        <3>1. TypeOK' /\ FewOk'
            BY <2>2 DEF ReadBalance, TypeOK, FewOk, OkKeys
        <3> QED
            BY <2>2, <3>1 DEF ReadBalance, Enter, TypeOK
    <2>3. CASE Weigh(a)
        <3>1. target[a] \in Keys /\ RecordedDelta(target[a]) \in Int
            BY RecordedDeltaType
        <3>2. TypeOK' /\ FewOk'
            BY <2>3, <3>1 DEF Weigh, Goto, TypeOK, Steps, FewOk, OkKeys
        <3>3. applied' \in [Admins -> BOOLEAN]
            BY <2>3 DEF Weigh, Verdict
        <3>4. stage' \in [Admins -> Stages] /\ \A b \in Admins : b # a => stage'[b] = stage[b]
            BY <2>3 DEF Weigh, Enter
        <3>5. target[a] \in DOMAIN CompKey
            BY <2>3 DEF Weigh
        <3> QED
            BY <2>3, <3>2, <3>3, <3>4, <3>5 DEF Weigh
    <2>4. CASE MarkApplied(a) \/ Close(a) \/ Drop(a)
        <3>1. target[a] \in Keys /\ \A j \in Keys \ {target[a]} : tx'[j] = tx[j]
            BY <2>4 DEF MarkApplied, Close, Drop, Settle, TypeOK
        <3>2. FewOk'
            BY <3>1, OneMoreOk
        <3>3. TypeOK'
            BY <2>4 DEF MarkApplied, Close, Drop, Settle, TypeOK, TxStatus
        <3> QED
            BY <2>4, <3>2, <3>3 DEF MarkApplied, Close, Drop, Finish, Enter
    <2>5. CASE Completed(a) \/ ResyncStart(a)
        <3>1. TypeOK' /\ FewOk'
            BY <2>5, <1>w DEF Completed, ResyncStart
        <3> QED
            BY <2>5, <3>1 DEF Completed, ResyncStart, Finish, Enter
    <2>6. CASE Compensate(a)
        <3>1. TypeOK' /\ FewOk'
            BY <2>6, <1>w, CallSteps
        <3> QED
            BY <2>6, <3>1 DEF Compensate, Enter
    <2>7. CASE ResyncSum(a)
        <3>1. TypeOK' /\ FewOk'
            BY <2>7, <1>w DEF ResyncSum
        <3>2. LedgerSum \in Int
            BY LedgerSumType
        <3>3. seen' \in [Admins -> Int]
            BY <2>7, <3>2 DEF ResyncSum
        <3> QED
            BY <2>7, <3>1, <3>3 DEF ResyncSum, Enter
    <2>8. CASE ResyncWrite(a)
        <3>1. TypeOK' /\ FewOk'
            BY <2>8 DEF ResyncWrite, TypeOK, FewOk, OkKeys
        <3> QED
            BY <2>8, <3>1 DEF ResyncWrite, Finish, Enter
    <2>9. CASE RepairCrash(a)
        <3>1. TypeOK' /\ FewOk'
            BY <2>9 DEF RepairCrash, Return, Goto, TypeOK, Steps, Outcomes, FewOk, OkKeys
        <3> QED
            BY <2>9, <3>1 DEF RepairCrash, Finish, Enter
    <2> QED
        BY <1>2, <2>1, <2>2, <2>3, <2>4, <2>5, <2>6, <2>7, <2>8, <2>9 DEF RepairStep
<1>3. CASE UNCHANGED vars
    <2>1. TypeOK' /\ FewOk'
        BY <1>3, <1>w DEF vars
    <2> QED
        BY <1>3, <2>1 DEF vars, repairVars
<1> QED
    BY <1>1, <1>2, <1>3 DEF RepairNext

(* The types hold initially, and nothing is ok.                            *)
LEMMA RepairTypeInit == RepairInit => RepairTypeOK /\ FewOk
<1> SUFFICES ASSUME RepairInit PROVE RepairTypeOK /\ FewOk
    OBVIOUS
<1>1. TypeOK
    BY InitType DEF RepairInit
<1>2. OkKeys = {}
    BY DEF RepairInit, Init, OkKeys
<1>3. FewOk
    BY <1>2, FS_EmptySet DEF FewOk
<1> QED
    BY <1>1, <1>3, StaffFacts DEF RepairInit, RepairTypeOK, Resolving, Stages

(* Type correctness of the wallet and of its repairs, however careful the  *)
(* staff are; a repair only resolves a document that can be cancelled.     *)
THEOREM RepairTypes == RepairSpec => []RepairTypeOK
<1>1. RepairInit => RepairTypeOK /\ FewOk
    BY RepairTypeInit
<1>2. RepairTypeOK /\ FewOk /\ [RepairNext]_vars => (RepairTypeOK /\ FewOk)'
    BY RepairTypeStep
<1> QED
    BY <1>1, <1>2, PTL DEF RepairSpec

-----------------------------------------------------------------------------
(* The steps with which a repair begins.                                   *)
Starts(a) ==
    \/ ResyncStart(a)
    \/ \E k \in DOMAIN CompKey, act \in {"complete", "cancel"} : ResolveStart(a, k, act)

(* While a repair takes a step there is no other.                          *)
LEMMA OneRepair ==
    ASSUME Care # "any", RepairTypeOK, AloneInv, NEW a \in Admins, RepairStep(a)
    PROVE  /\ ~Starts(a) => stage[a] # "idle"
           /\ \A b \in Admins : b # a => stage[b] = "idle" /\ stage'[b] = "idle"
<1> USE DEF RepairTypeOK, Starts
<1>1. CASE Starts(a)
    <2>1. MayStart
        BY <1>1 DEF ResyncStart, ResolveStart
    <2> QED
        BY <1>1, <2>1 DEF ResyncStart, ResolveStart, MayStart, Repairing, Enter
<1>2. CASE ~Starts(a)
    <2>1. stage[a] # "idle"
        BY <1>2 DEF RepairStep, ReadBalance, Weigh, MarkApplied, Completed, Compensate,
                    Close, Drop, ResyncSum, ResyncWrite, RepairCrash
    <2>2. \A b \in Admins : b # a => stage[b] = "idle"
        BY <2>1 DEF AloneInv
    <2>3. \A b \in Admins : b # a => stage'[b] = stage[b]
        BY <1>2 DEF RepairStep, ReadBalance, Weigh, MarkApplied, Completed, Compensate,
                    Close, Drop, ResyncSum, ResyncWrite, RepairCrash, Enter, Finish
    <2> QED
        BY <2>1, <2>2, <2>3
<1> QED
    BY <1>1, <1>2

(* Only a repair that waits for a call lets one run.                       *)
LEMMA AloneStep ==
    ASSUME Care # "any", RepairTypeOK, AloneInv, [RepairNext]_vars
    PROVE  AloneInv'
<1> USE StaffFacts DEF RepairTypeOK, TypeOK
<1>1. ASSUME NEW p \in Procs, LiveBegin(p)
      PROVE  AloneInv'
    BY <1>1 DEF LiveBegin, Repairing, AloneInv, repairVars
<1>2. ASSUME NEW p \in Procs, CallStep(p)
      PROVE  AloneInv'
    <2>1. pc[p] # "idle" /\ UNCHANGED stage
        BY <1>2 DEF CallStep, repairVars, Work, CheckCap, Insert, Provision, Apply, Fail, Mark, Crash
    <2>2. \A q \in Procs : q # p => pc'[q] = pc[q]
        BY <1>2 DEF CallStep, Work, CheckCap, Insert, Provision, Apply, Fail, Mark, Crash, Return, Goto
    <2>3. \A a \in Admins : stage[a] # "idle" => a = p /\ stage[a] \in {"applying", "close"}
        BY <2>1 DEF AloneInv
    <2> QED
        BY <2>1, <2>2, <2>3 DEF AloneInv
<1>3. ASSUME NEW a \in Admins, RepairStep(a)
      PROVE  AloneInv'
    <2>0. /\ ~Starts(a) => stage[a] # "idle"
          /\ \A b \in Admins : b # a => stage'[b] = "idle"
        BY <1>3, OneRepair
    <2>1. CASE Starts(a)
        <3>1. MayStart /\ UNCHANGED walletVars
            BY <2>1 DEF Starts, ResyncStart, ResolveStart
        <3>2. \A p \in Procs : pc'[p] = "idle"
            BY <3>1 DEF MayStart, walletVars
        <3>3. stage'[a] = "sum" => PendingKeys' = {}
            BY <2>1 DEF Starts, ResyncStart, ResolveStart, Enter, walletVars, PendingKeys
        <3>4. stage'[a] \in {"sum", "balance"}
            BY <2>1 DEF Starts, ResyncStart, ResolveStart, Enter
        <3> QED
            BY <2>0, <3>2, <3>3, <3>4 DEF AloneInv
    <2>2. CASE ~Starts(a)
        <3> USE DEF Starts
        <3>1. stage[a] # "idle"
            BY <2>0, <2>2
        <3>4. \A p \in Procs : p # a => pc[p] = "idle"
            BY <3>1 DEF AloneInv
        <3>5. \A p \in Procs : p # a => pc'[p] = "idle"
            BY <1>3, <2>2, <3>4
                 DEF RepairStep, ReadBalance, Weigh, MarkApplied, Completed, Compensate,
                     Close, Drop, ResyncSum, ResyncWrite, RepairCrash, Return, Goto, Begin,
                     walletVars
        <3>6. pc'[a] # "idle" => stage'[a] \in {"applying", "close", "idle"}
            BY <1>3, <2>2, <3>1
                 DEF AloneInv, RepairStep, ReadBalance, Weigh, MarkApplied, Completed, Compensate,
                     Close, Drop, ResyncSum, ResyncWrite, RepairCrash, Return, Goto, Begin,
                     Enter, Finish, walletVars
        <3>7. stage'[a] \in {"sum", "overwrite"} => PendingKeys' = {}
            BY <1>3, <2>2, <3>1
                 DEF AloneInv, RepairStep, ReadBalance, Weigh, MarkApplied, Completed, Compensate,
                     Close, Drop, ResyncSum, ResyncWrite, RepairCrash, Enter, Finish, PendingKeys, walletVars
        <3> QED
            BY <2>0, <3>5, <3>6, <3>7 DEF AloneInv
    <2> QED
        BY <2>1, <2>2
<1>4. CASE UNCHANGED vars
    BY <1>4 DEF vars, walletVars, repairVars, AloneInv, PendingKeys
<1> QED
    BY <1>1, <1>2, <1>3, <1>4 DEF RepairNext

(* Nobody repairs in the initial state.                                    *)
LEMMA AloneInit == RepairInit => AloneInv
  BY DEF RepairInit, AloneInv

(* The balance is overwritten with a sum only while nothing of the wallet  *)
(* is pending, so no change in flight is lost: when nobody starts a repair *)
(* beside a live call.                                                     *)
THEOREM ResyncSettled ==
    ASSUME Care # "any"
    PROVE  RepairSpec => ResyncOnlySettled
<1> DEFINE Good == RepairTypeOK /\ FewOk /\ AloneInv
           Safe == \A a \in Admins :
                      stage[a] = "overwrite" /\ stage'[a] = "idle" /\ balance' # balance
                         => PendingKeys = {}
<1>1. RepairInit => Good
    BY RepairTypeInit, AloneInit
<1>2. Good /\ [RepairNext]_vars => Good'
    BY RepairTypeStep, AloneStep
<1>3. Good => Safe
    BY DEF AloneInv
<1> QED
    BY <1>1, <1>2, <1>3, PTL DEF RepairSpec, ResyncOnlySettled

-----------------------------------------------------------------------------
(* The difference of balance and ledger is the amount of the only pending  *)
(* document exactly when that amount has moved: the others are in the sum. *)
LEMMA DifferenceTells ==
    ASSUME MoneyInv, SumInv, NEW k \in Keys, PendingKeys = {k}
    PROVE  balance - LedgerSum = RecordedDelta(k) <=> effects[k] = 1
<1>1. OkKeys = Moved \ {k} /\ Moved \subseteq Keys
    BY DEF MoneyInv, TypeOK, TxStatus, StatusTellsEffect, PendingKeys, OkKeys, Moved
<1>2. IsFiniteSet(Moved \ {k})
    BY FS_Subset DEF SumInv
<1>3. RecordedDelta(k) \in Int /\ RecordedDelta(k) # 0 /\ Total(Moved \ {k}) \in Int
    <2>1. RecordedDelta(k) \in Int
        BY RecordedDeltaType
    <2>2. RecordedDelta(k) # 0
        BY WalletAssumption DEF WalletAssumption, RecordedDelta
    <2>3. Total(Moved \ {k}) \in Int
        BY <1>1, <1>2, TotalType
    <2> QED
        BY <2>1, <2>2, <2>3
<1>4. LedgerSum = Total(Moved \ {k})
    BY <1>1 DEF LedgerSum, Total
<1>5. effects[k] \in {0, 1} /\ (k \in Moved <=> effects[k] = 1)
    BY DEF MoneyInv, TypeOK, OneEffect, Moved
<1>6. CASE effects[k] = 1
    <2>1. Total(Moved) = RecordedDelta(k) + Total(Moved \ {k})
        BY <1>1, <1>5, <1>6, TotalAdd DEF SumInv
    <2> QED
        BY <1>3, <1>4, <1>6, <2>1 DEF SumInv
<1>7. CASE effects[k] = 0
    <2>1. Total(Moved \ {k}) = Total(Moved)
        <3>1. Moved \ {k} = Moved
            BY <1>5, <1>7
        <3> QED
            BY <3>1
    <2> QED
        BY <1>3, <1>4, <1>7, <2>1 DEF SumInv
<1> QED
    BY <1>5, <1>6, <1>7

(* Nothing but the settling of a document whose end is known: ok when its   *)
(* money has moved, failed when not, while no call runs.                   *)
LEMMA SettleRight ==
    ASSUME MoneyInv, SumInv, NEW k \in Keys, NEW status \in {"ok", "failed"},
           \A p \in Procs : pc[p] = "idle",
           effects[k] = (IF status = "ok" THEN 1 ELSE 0),
           Settle(k, status), UNCHANGED <<balance, hasWallet, pc, cur, delta, ret, effects>>
    PROVE  MoneyInv' /\ SumInv'
<1>1. TypeOK'
    BY DEF MoneyInv, TypeOK, Settle, TxStatus
<1>2. StatusTellsEffect'
    BY DEF MoneyInv, TypeOK, Settle, StatusTellsEffect
<1>3. OwnerInv' /\ DeltaInv'
    BY DEF OwnerInv, DeltaInv, Owning
<1>4. NonNegative' /\ OneEffect'
    BY DEF MoneyInv, NonNegative, OneEffect
<1>5. SumInv'
    BY KeepSum
<1> QED
    BY <1>1, <1>2, <1>3, <1>4, <1>5 DEF MoneyInv

(* The step of a call keeps the money and the task of the repair that has  *)
(* begun it: what has moved stays moved.                                   *)
LEMMA CallKeeps ==
    ASSUME NoReferral, RepairInv, RepairTypeOK', AloneInv', NEW p \in Procs,
           LiveBegin(p) \/ CallStep(p), Care = "quiet"
    PROVE  MoneyInv' /\ SumInv' /\ TaskInv'
<1>1. MoneyInv' /\ SumInv'
    BY CallSteps, StepMoney, StepSum DEF RepairInv
<1>2. UNCHANGED repairVars
    BY CallSteps
<1>3. CASE LiveBegin(p)
    <2>1. \A a \in Admins : stage'[a] = "idle"
        BY <1>2, <1>3 DEF LiveBegin, Repairing, repairVars
    <2> QED
        BY <1>1, <2>1 DEF TaskInv
<1>4. CASE CallStep(p)
    <2>1. pc[p] # "idle"
        BY <1>4 DEF CallStep, Work, CheckCap, Insert, Provision, Apply, Fail, Mark, Crash
    <2>2. \A a \in Admins : stage[a] # "idle" => stage[a] \in {"applying", "close"}
        BY <2>1 DEF RepairInv, AloneInv
    <2>3. \A k \in Keys : effects[k] = 1 => effects'[k] = 1
        <3>1. \A k \in Keys : effects'[k] >= effects[k]
            BY <1>4 DEF RepairInv, RepairTypeOK, TypeOK, CallStep, Work, CheckCap, Insert,
                        Provision, Apply, Fail, Mark, Crash
        <3>2. \A k \in Keys : effects'[k] \in Nat /\ effects'[k] <= 1
            BY <1>1 DEF MoneyInv, TypeOK, OneEffect
        <3> QED
            BY <3>1, <3>2
    <2> QED
        BY <1>1, <1>2, <2>2, <2>3 DEF RepairInv, RepairTypeOK, TaskInv, repairVars
<1> QED
    BY <1>3, <1>4

(* Whoever repairs keeps the money and acts on what is still true.         *)
LEMMA RepairKeeps ==
    ASSUME NoReferral, Care = "quiet", RepairInv, RepairTypeOK', AloneInv',
           NEW a \in Admins, RepairStep(a)
    PROVE  MoneyInv' /\ SumInv' /\ TaskInv'
<1>0. /\ RepairTypeOK /\ AloneInv /\ MoneyInv /\ SumInv /\ TaskInv /\ a \in Procs
      /\ target[a] \in Keys
    BY StaffFacts DEF RepairInv, RepairTypeOK
<1>o. \A b \in Admins : b # a => stage[b] = "idle" /\ stage'[b] = "idle"
    BY <1>0, OneRepair
<1>i. stage[a] \notin {"idle", "applying", "close"} => \A p \in Procs : pc[p] = "idle"
    BY <1>0 DEF AloneInv
<1>k. ASSUME UNCHANGED walletVars
      PROVE  MoneyInv' /\ SumInv' /\ PendingKeys' = PendingKeys
    <2>1. MoneyInv'
        BY <1>0, <1>k, StepMoney
    <2>2. SumInv'
        BY <1>0, <1>k, KeepSum DEF walletVars
    <2> QED
        BY <1>k, <2>1, <2>2 DEF walletVars, PendingKeys
(* The task of a repair concerns the repair that takes the step.           *)
<1> DEFINE Task ==
        /\ stage'[a] \in {"balance", "evidence", "markok", "compensating", "drop"} =>
              PendingKeys' = {target'[a]}
        /\ stage'[a] \in {"evidence", "overwrite"} => seen'[a] = balance'
        /\ stage'[a] \in {"markok", "compensating"} => applied'[a] /\ effects'[target'[a]] = 1
        /\ stage'[a] = "drop" => ~applied'[a] /\ effects'[target'[a]] = 0
        /\ stage'[a] = "close" => effects'[target'[a]] = 1
<1>t. Task => TaskInv'
    BY <1>o DEF TaskInv
<1>e. stage'[a] = "idle" => Task
    OBVIOUS
<1> HIDE DEF Task
<1>1. CASE Starts(a)
    <2>1. UNCHANGED walletVars
        BY <1>1 DEF Starts, ResyncStart, ResolveStart
    <2>2. Task
        BY <1>0, <1>1, <1>k, <2>1
           DEF Starts, ResyncStart, ResolveStart, Enter, RepairTypeOK, Task
    <2> QED
        BY <1>k, <1>t, <2>1, <2>2
<1>2. CASE ReadBalance(a)
    <2>1. MoneyInv'
        BY <1>0, <1>2 DEF ReadBalance, MoneyInv, TypeOK, NonNegative, OneEffect,
                          StatusTellsEffect, OwnerInv, DeltaInv
    <2>2. SumInv'
        BY <1>0, <1>2, KeepSum DEF ReadBalance
    <2>3. Task
        BY <1>0, <1>2 DEF ReadBalance, Enter, RepairTypeOK, TaskInv, PendingKeys, Task
    <2> QED
        BY <1>t, <2>1, <2>2, <2>3
<1>3. CASE Weigh(a)
    <2>1. /\ PendingKeys = {target[a]} /\ tx[target[a]] = "pending"
          /\ Verdict(a) <=> effects[target[a]] = 1
          /\ effects[target[a]] \in {0, 1}
        <3>1. stage[a] = "evidence"
            BY <1>3 DEF Weigh
        <3>2. PendingKeys = {target[a]} /\ seen[a] = balance
            BY <1>0, <3>1 DEF TaskInv
        <3>3. tx[target[a]] = "pending"
            BY <3>2 DEF PendingKeys
        <3>4. effects[target[a]] \in {0, 1}
            BY <1>0 DEF MoneyInv, TypeOK, OneEffect
        <3> QED
            BY <1>0, <3>2, <3>3, <3>4, DifferenceTells DEF Verdict
    <2>2. \A p \in Procs : pc[p] = "idle"
        BY <1>i, <1>3 DEF Weigh
    <2>3. SumInv'
        BY <1>0, <1>3, KeepSum DEF Weigh
    <2>4. Task
        BY <1>0, <1>3, <2>1 DEF Weigh, Enter, RepairTypeOK, PendingKeys, Task
    <2>5. MoneyInv'
        <3>1. CASE action[a] = "complete" /\ ~Verdict(a)
            <4>1. /\ pc' = [pc EXCEPT ![a] = "apply"]
                  /\ cur' = [cur EXCEPT ![a] = target[a]]
                  /\ delta' = [delta EXCEPT ![a] = RecordedDelta(target[a])]
                  /\ UNCHANGED <<balance, hasWallet, tx, ret, effects>>
                BY <1>3, <3>1 DEF Weigh, Goto
            <4>2. RecordedDelta(target[a]) = CallDelta(target[a]) /\ effects[target[a]] = 0
                BY <1>0, <2>1, <3>1, AppliedAsRecorded
            <4>3. OwnerInv'
                BY <1>0, <2>1, <2>2, <4>1, <4>2 DEF MoneyInv, TypeOK, OwnerInv, Owning
            <4>4. DeltaInv'
                BY <1>0, <2>2, <4>1, <4>2 DEF MoneyInv, TypeOK, DeltaInv
            <4>5. TypeOK'
                BY DEF RepairTypeOK
            <4> QED
                BY <1>0, <4>1, <4>3, <4>4, <4>5
                   DEF MoneyInv, NonNegative, OneEffect, StatusTellsEffect
        <3>2. CASE ~(action[a] = "complete" /\ ~Verdict(a))
            <4>1. UNCHANGED walletVars
                BY <1>3, <3>2 DEF Weigh, walletVars
            <4> QED
                BY <1>k, <4>1
        <3> QED
            BY <3>1, <3>2
    <2> QED
        BY <1>t, <2>3, <2>4, <2>5
<1>4. CASE MarkApplied(a)
    <2>1. effects[target[a]] = 1 /\ \A p \in Procs : pc[p] = "idle"
        BY <1>0, <1>i, <1>4 DEF MarkApplied, TaskInv
    <2>2. MoneyInv' /\ SumInv'
        BY <1>0, <1>4, <2>1, SettleRight DEF MarkApplied
    <2>3. stage'[a] = "idle"
        BY <1>0, <1>4 DEF MarkApplied, Finish, Enter, RepairTypeOK
    <2> QED
        BY <1>e, <1>t, <2>2, <2>3
<1>5. CASE Completed(a)
    <2>1. UNCHANGED walletVars /\ stage'[a] = "idle"
        BY <1>0, <1>5 DEF Completed, Finish, Enter, RepairTypeOK
    <2> QED
        BY <1>e, <1>k, <1>t, <2>1
<1>6. CASE Compensate(a)
    <2>1. MoneyInv' /\ SumInv'
        BY <1>0, <1>6, CallSteps, StepMoney, StepSum
    <2>2. Task
        BY <1>0, <1>6 DEF Compensate, Begin, Enter, RepairTypeOK, TaskInv, Task
    <2> QED
        BY <1>t, <2>1, <2>2
<1>7. CASE Close(a)
    <2>1. effects[target[a]] = 1 /\ stage'[a] = "idle"
        BY <1>0, <1>7 DEF Close, Finish, Enter, RepairTypeOK, TaskInv
    <2>2. \A p \in Procs : pc[p] = "idle"
        BY <1>0, <1>7 DEF Close, AloneInv
    <2>3. CASE ret[a] \in {"ok", "replay"}
        BY <1>0, <1>7, <2>1, <2>2, <2>3, SettleRight, <1>e, <1>t DEF Close
    <2>4. CASE ret[a] \notin {"ok", "replay"}
        BY <1>7, <2>1, <2>4, <1>e, <1>k, <1>t DEF Close, walletVars
    <2> QED
        BY <2>3, <2>4
<1>8. CASE Drop(a)
    <2>1. effects[target[a]] = 0 /\ \A p \in Procs : pc[p] = "idle"
        BY <1>0, <1>i, <1>8 DEF Drop, TaskInv
    <2>2. MoneyInv' /\ SumInv'
        BY <1>0, <1>8, <2>1, SettleRight DEF Drop
    <2>3. stage'[a] = "idle"
        BY <1>0, <1>8 DEF Drop, Finish, Enter, RepairTypeOK
    <2> QED
        BY <1>e, <1>t, <2>2, <2>3
<1>9. CASE ResyncSum(a)
    <2>1. LedgerSum = balance
        <3>1. PendingKeys = {}
            BY <1>0, <1>9 DEF ResyncSum, AloneInv
        <3> QED
            BY <1>0, <3>1, SettledSum DEF BalanceMatchesLedger
    <2>2. UNCHANGED walletVars
        BY <1>9 DEF ResyncSum
    <2>3. Task
        BY <1>0, <1>9, <2>1, <2>2 DEF ResyncSum, Enter, RepairTypeOK, walletVars, Task
    <2> QED
        BY <1>k, <1>t, <2>2, <2>3
<1>10. CASE ResyncWrite(a)
    <2>1. UNCHANGED walletVars /\ stage'[a] = "idle"
        BY <1>0, <1>10 DEF ResyncWrite, Finish, Enter, RepairTypeOK, TaskInv, walletVars
    <2> QED
        BY <1>e, <1>k, <1>t, <2>1
<1>11. CASE RepairCrash(a)
    <2>1. MoneyInv'
        BY <1>0, <1>11 DEF RepairCrash, Return, Goto, RepairTypeOK, MoneyInv, TypeOK, NonNegative,
                           OneEffect, StatusTellsEffect, OwnerInv, DeltaInv, Owning
    <2>2. SumInv'
        BY <1>0, <1>11, KeepSum DEF RepairCrash
    <2>3. stage'[a] = "idle"
        BY <1>0, <1>11 DEF RepairCrash, Finish, Enter, RepairTypeOK
    <2> QED
        BY <1>e, <1>t, <2>1, <2>2, <2>3
<1> QED
    BY <1>1, <1>2, <1>3, <1>4, <1>5, <1>6, <1>7, <1>8, <1>9, <1>10, <1>11 DEF RepairStep, Starts

(* Every step, of a call or of a repair, keeps the inductive invariant.    *)
LEMMA RepairInvStep ==
    ASSUME NoReferral, Care = "quiet", RepairInv, FewOk, [RepairNext]_vars
    PROVE  RepairInv' /\ FewOk'
<1>1. RepairTypeOK' /\ FewOk'
    BY RepairTypeStep DEF RepairInv
<1>2. AloneInv'
    BY AloneStep DEF RepairInv
<1>3. ASSUME NEW p \in Procs, LiveBegin(p) \/ CallStep(p)
      PROVE  MoneyInv' /\ SumInv' /\ TaskInv'
    BY <1>1, <1>2, <1>3, CallKeeps
<1>4. ASSUME NEW a \in Admins, RepairStep(a)
      PROVE  MoneyInv' /\ SumInv' /\ TaskInv'
    BY <1>1, <1>2, <1>4, RepairKeeps
<1>5. ASSUME UNCHANGED vars
      PROVE  MoneyInv' /\ SumInv' /\ TaskInv'
    <2>1. MoneyInv'
        BY <1>5, StepMoney DEF RepairInv, vars
    <2>2. SumInv'
        BY <1>5, KeepSum DEF RepairInv, vars, walletVars
    <2>3. PendingKeys' = PendingKeys /\ UNCHANGED <<balance, effects, stage, target, seen, applied>>
        BY <1>5 DEF vars, walletVars, repairVars, PendingKeys
    <2>4. TaskInv'
        BY <2>3 DEF RepairInv, TaskInv
    <2> QED
        BY <2>1, <2>2, <2>4
<1> QED
    BY <1>1, <1>2, <1>3, <1>4, <1>5 DEF RepairNext, RepairInv

(* The inductive invariant holds initially.                                *)
LEMMA RepairInvInit == RepairInit => RepairInv /\ FewOk
<1>1. RepairInit => MoneyInv /\ SumInv
    BY InitInv, InvMoney, InitSum DEF RepairInit
<1>2. RepairInit => TaskInv
    BY DEF RepairInit, TaskInv
<1> QED
    BY <1>1, <1>2, RepairTypeInit, AloneInit DEF RepairInv

(* The inductive invariant holds as long as staff repair nothing but the   *)
(* only pending document of a wallet at rest.                              *)
LEMMA RepairInvariance ==
    ASSUME NoReferral, Care = "quiet"
    PROVE  RepairSpec => [](RepairInv /\ FewOk)
<1>1. RepairInv /\ FewOk /\ [RepairNext]_vars => (RepairInv /\ FewOk)'
    BY RepairInvStep
<1> QED
    BY <1>1, RepairInvInit, PTL DEF RepairSpec

(* Repairs do not break what Wallet promises: no money moves twice, no     *)
(* status lies and the balance is never negative, whatever was completed,  *)
(* cancelled or resynced.                                                  *)
THEOREM RepairedOnce ==
    ASSUME NoReferral, Care = "quiet"
    PROVE  RepairSpec => [](OneEffect /\ StatusTellsEffect /\ NonNegative)
<1>1. RepairInv => OneEffect /\ StatusTellsEffect /\ NonNegative
    BY DEF RepairInv, MoneyInv
<1> QED
    BY <1>1, RepairInvariance, PTL

(* With nothing pending the balance is the sum of the ledger, also after   *)
(* repairs: the criterion of wallet_reconcile_items.                       *)
THEOREM RepairReconciled ==
    ASSUME NoReferral, Care = "quiet"
    PROVE  RepairSpec => []BalanceMatchesLedger
<1>1. RepairInv => BalanceMatchesLedger
    BY SettledSum DEF RepairInv
<1> QED
    BY <1>1, RepairInvariance, PTL

(* The evidence of wallet_resolve_pending is sound: a repair that acts on  *)
(* its verdict acts on whether the money has moved.                        *)
THEOREM VerdictsAreRight ==
    ASSUME NoReferral, Care = "quiet"
    PROVE  RepairSpec => []VerdictIsRight
<1>1. RepairInv => VerdictIsRight
    BY DEF RepairInv, RepairTypeOK, TaskInv, VerdictIsRight
<1> QED
    BY <1>1, RepairInvariance, PTL

(* A repair leaves the ledger alone, or moves the money of the document it *)
(* completes; the resync writes the balance that is there.                 *)
LEMMA RepairMaps ==
    ASSUME NoReferral, Care = "quiet", RepairInv, [RepairNext]_vars
    PROVE  [Promise!LedgerNext]_(Promise!ledgerVars)
<1>1. ASSUME [Next]_walletVars
      PROVE  [Promise!LedgerNext]_(Promise!ledgerVars)
    BY <1>1, StepMaps DEF RepairInv
<1>2. ASSUME UNCHANGED <<balance, effects>>
      PROVE  [Promise!LedgerNext]_(Promise!ledgerVars)
    BY <1>2 DEF Promise!ledgerVars
<1>3. ASSUME NEW p \in Procs, LiveBegin(p) \/ CallStep(p)
      PROVE  [Promise!LedgerNext]_(Promise!ledgerVars)
    BY <1>1, <1>3, CallSteps
<1>4. ASSUME NEW a \in Admins, RepairStep(a)
      PROVE  [Promise!LedgerNext]_(Promise!ledgerVars)
    <2>1. CASE Compensate(a)
        BY <1>1, <2>1, CallSteps DEF RepairInv
    <2>2. CASE ResyncWrite(a)
        <3>1. balance' = balance /\ effects' = effects
            BY <2>2 DEF ResyncWrite, RepairInv, TaskInv
        <3> QED
            BY <1>2, <3>1
    <2>3. CASE ~Compensate(a) /\ ~ResyncWrite(a)
        <3>1. UNCHANGED <<balance, effects>>
            BY <1>4, <2>3 DEF RepairStep, ResolveStart, ReadBalance, Weigh, MarkApplied, Completed,
                              Close, Drop, ResyncStart, ResyncSum, RepairCrash, walletVars
        <3> QED
            BY <1>2, <3>1
    <2> QED
        BY <2>1, <2>2, <2>3
<1>5. CASE UNCHANGED vars
    BY <1>2, <1>5 DEF vars, walletVars
<1> QED
    BY <1>3, <1>4, <1>5 DEF RepairNext

(* Calls, crashes and repairs together implement the atomic ledger: a      *)
(* document that a crash has left pending ends as if the call had lived.   *)
THEOREM RepairImplements ==
    ASSUME NoReferral, Care = "quiet"
    PROVE  RepairSpec => ImplementsLedger
<1>1. RepairInit => Promise!LedgerInit
    BY InitMaps DEF RepairInit
<1>2. RepairInv /\ [RepairNext]_vars => [Promise!LedgerNext]_(Promise!ledgerVars)
    BY RepairMaps
<1> QED
    BY <1>1, <1>2, RepairInvariance, PTL DEF RepairSpec, ImplementsLedger, Promise!LedgerSpec
=============================================================================
