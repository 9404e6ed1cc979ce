---------------------------- MODULE WalletProofs ----------------------------
(***************************************************************************)
(* Theorems about the wallet, for any number of callers, keys and amounts: *)
(* type correctness, no negative balance, one effect per key, truthful     *)
(* statuses and acknowledgements, settled documents never change, the      *)
(* stepwise protocol implements the atomic ledger, and the cached balance  *)
(* is the sum of the ledger.                                               *)
(***************************************************************************)
EXTENDS Wallet, FiniteSetTheorems, WellFoundedInduction, TLAPS

(* The steps in which a call owns the pending document it inserted.        *)
Owning == {"provision", "apply", "fail", "mark"}

(* What makes the promises inductive: an owner's document is pending, it   *)
(* is the only owner, and the document's effect is known from its step.    *)
OwnerInv ==
    \A p \in Procs : pc[p] \in Owning =>
        /\ tx[cur[p]] = "pending"
        /\ effects[cur[p]] = (IF pc[p] = "mark" THEN 1 ELSE 0)
        /\ \A q \in Procs : pc[q] \in Owning /\ cur[q] = cur[p] => q = p

(* A call works with the amount of the function it is.                     *)
DeltaInv == \A p \in Procs : pc[p] # "idle" => delta[p] = CallDelta(cur[p])

(* Acknowledged calls are no longer running.                               *)
RetInv == \A p \in Procs : ret[p] = "ok" => pc[p] = "idle"

IInv ==
    /\ TypeOK
    /\ NonNegative
    /\ OneEffect
    /\ StatusTellsEffect
    /\ AcknowledgedIsApplied
    /\ OwnerInv
    /\ DeltaInv
    /\ RetInv

(* What holds of the money whoever calls: all of it but the results that   *)
(* calls report.                                                           *)
MoneyInv ==
    /\ TypeOK
    /\ NonNegative
    /\ OneEffect
    /\ StatusTellsEffect
    /\ OwnerInv
    /\ DeltaInv

(* The amount applied by a call is an integer, negative only for debits.   *)
LEMMA CallDeltaType == \A k \in Keys : CallDelta(k) \in Int
  BY WalletAssumption DEF WalletAssumption, CallDelta

(* The variables have their types in the initial state.                    *)
LEMMA InitType == Init => TypeOK
<1>1. AnyKey \in Keys
    <2>1. PICK k \in Keys : TRUE
        BY WalletAssumption DEF WalletAssumption
    <2> QED
        BY <2>1 DEF AnyKey
<1>2. SUFFICES ASSUME Init PROVE TypeOK
    OBVIOUS
<1>3. balance \in Int /\ effects \in [Keys -> Nat] /\ delta \in [Procs -> Int]
    BY <1>2 DEF Init
<1>4. hasWallet \in BOOLEAN
    BY <1>2 DEF Init
<1>5. tx \in [Keys -> TxStatus] /\ pc \in [Procs -> Steps] /\ ret \in [Procs -> Outcomes]
    BY <1>2 DEF Init, TxStatus, Steps, Outcomes
<1>6. cur \in [Procs -> Keys]
    BY <1>1, <1>2 DEF Init
<1> QED
    BY <1>3, <1>4, <1>5, <1>6 DEF TypeOK

(* Every step keeps the types.                                             *)
LEMMA StepType == TypeOK /\ [Next]_walletVars => TypeOK'
<1> SUFFICES ASSUME TypeOK, [Next]_walletVars PROVE TypeOK'
    OBVIOUS
<1> USE DEF TypeOK, TxStatus, Steps, Outcomes, Goto, Return, Settle
<1>1. ASSUME NEW p \in Procs, NEW k \in Keys, Begin(p, k) PROVE TypeOK'
    BY <1>1, CallDeltaType DEF Begin
<1>2. ASSUME NEW p \in Procs, CheckCap(p) PROVE TypeOK'
    BY <1>2 DEF CheckCap
<1>3. ASSUME NEW p \in Procs, Insert(p) PROVE TypeOK'
    BY <1>3 DEF Insert
<1>4. ASSUME NEW p \in Procs, Provision(p) PROVE TypeOK'
    BY <1>4 DEF Provision
<1>5. ASSUME NEW p \in Procs, Apply(p) PROVE TypeOK'
    BY <1>5 DEF Apply
<1>6. ASSUME NEW p \in Procs, Fail(p) PROVE TypeOK'
    BY <1>6 DEF Fail
<1>7. ASSUME NEW p \in Procs, Mark(p) PROVE TypeOK'
    BY <1>7 DEF Mark
<1>8. ASSUME NEW p \in Procs, Crash(p) PROVE TypeOK'
    BY <1>8 DEF Crash
<1>9. CASE UNCHANGED walletVars
    BY <1>9 DEF walletVars
<1> QED
    BY <1>1, <1>2, <1>3, <1>4, <1>5, <1>6, <1>7, <1>8, <1>9 DEF Next, Step, Work

(* Type correctness: every variable of the wallet keeps its type.          *)
THEOREM TypeCorrect == Spec => []TypeOK
<1>1. Init => TypeOK
    BY InitType
<1>2. TypeOK /\ [Next]_walletVars => TypeOK'
    BY StepType
<1> QED
    BY <1>1, <1>2, PTL DEF Spec

-----------------------------------------------------------------------------
(* The inductive invariant holds initially.                                *)
LEMMA InitInv == Init => IInv
<1> SUFFICES ASSUME Init PROVE IInv
    OBVIOUS
<1>1. TypeOK
    BY InitType
<1>2. NonNegative /\ OneEffect /\ StatusTellsEffect
    BY DEF Init, NonNegative, OneEffect, StatusTellsEffect
<1>3. AcknowledgedIsApplied /\ OwnerInv /\ DeltaInv /\ RetInv
    BY DEF Init, AcknowledgedIsApplied, OwnerInv, DeltaInv, RetInv, Owning
<1> QED
    BY <1>1, <1>2, <1>3 DEF IInv

(* Every step of every caller keeps the invariant of the money.            *)
LEMMA StepMoney == MoneyInv /\ [Next]_walletVars => MoneyInv'
<1> SUFFICES ASSUME MoneyInv, [Next]_walletVars PROVE MoneyInv'
    OBVIOUS
<1>t. TypeOK'
    BY StepType DEF MoneyInv
<1> USE DEF TypeOK, NonNegative, OneEffect, StatusTellsEffect, OwnerInv, DeltaInv, Owning,
            TxStatus, Steps, Outcomes, Goto, Return
<1>1. ASSUME NEW p \in Procs, NEW k \in Keys, Begin(p, k) PROVE MoneyInv'
    BY <1>1, <1>t DEF MoneyInv, Begin
<1>2. ASSUME NEW p \in Procs, CheckCap(p) PROVE MoneyInv'
    BY <1>2, <1>t DEF MoneyInv, CheckCap
<1>3. ASSUME NEW p \in Procs, Insert(p) PROVE MoneyInv'
    BY <1>3, <1>t DEF MoneyInv, Insert
<1>4. ASSUME NEW p \in Procs, Provision(p) PROVE MoneyInv'
    BY <1>4, <1>t DEF MoneyInv, Provision
<1>5. ASSUME NEW p \in Procs, Apply(p) PROVE MoneyInv'
    BY <1>5, <1>t DEF MoneyInv, Apply
<1>6. ASSUME NEW p \in Procs, Fail(p) PROVE MoneyInv'
    BY <1>6, <1>t DEF MoneyInv, Fail, Settle
<1>7. ASSUME NEW p \in Procs, Mark(p) PROVE MoneyInv'
    BY <1>7, <1>t DEF MoneyInv, Mark, Settle
<1>8. ASSUME NEW p \in Procs, Crash(p) PROVE MoneyInv'
    BY <1>8, <1>t DEF MoneyInv, Crash
<1>9. CASE UNCHANGED walletVars
    BY <1>9, <1>t DEF MoneyInv, walletVars, CallDelta
<1> QED
    BY <1>1, <1>2, <1>3, <1>4, <1>5, <1>6, <1>7, <1>8, <1>9 DEF Next, Step, Work

(* The inductive invariant is that of the money and the reported results.  *)
LEMMA InvMoney == IInv <=> MoneyInv /\ AcknowledgedIsApplied /\ RetInv
  BY DEF IInv, MoneyInv

(* Every step of every caller keeps the inductive invariant.               *)
LEMMA StepInv == IInv /\ [Next]_walletVars => IInv'
<1> SUFFICES ASSUME IInv, [Next]_walletVars PROVE IInv'
    OBVIOUS
<1>m. MoneyInv'
    BY StepMoney, InvMoney
<1> SUFFICES AcknowledgedIsApplied' /\ RetInv'
    BY <1>m DEF IInv, MoneyInv
<1> USE DEF IInv, TypeOK, AcknowledgedIsApplied, OwnerInv, RetInv, Owning,
            TxStatus, Steps, Outcomes, Goto, Return
<1> DEFINE Told == AcknowledgedIsApplied /\ RetInv
<1>1. ASSUME NEW p \in Procs, NEW k \in Keys, Begin(p, k) PROVE Told'
    BY <1>1 DEF Begin
<1>2. ASSUME NEW p \in Procs, CheckCap(p) PROVE Told'
    BY <1>2 DEF CheckCap
<1>3. ASSUME NEW p \in Procs, Insert(p) PROVE Told'
    BY <1>3 DEF Insert
<1>4. ASSUME NEW p \in Procs, Provision(p) PROVE Told'
    BY <1>4 DEF Provision
<1>5. ASSUME NEW p \in Procs, Apply(p) PROVE Told'
    BY <1>5 DEF Apply
<1>6. ASSUME NEW p \in Procs, Fail(p) PROVE Told'
    BY <1>6 DEF Fail, Settle
<1>7. ASSUME NEW p \in Procs, Mark(p) PROVE Told'
    BY <1>7 DEF Mark, Settle
<1>8. ASSUME NEW p \in Procs, Crash(p) PROVE Told'
    BY <1>8 DEF Crash
<1>9. CASE UNCHANGED walletVars
    BY <1>9 DEF walletVars
<1> QED
    BY <1>1, <1>2, <1>3, <1>4, <1>5, <1>6, <1>7, <1>8, <1>9 DEF Next, Step, Work

(* The inductive invariant holds in every reachable state.                 *)
THEOREM Invariance == Spec => []IInv
<1>1. Init => IInv
    BY InitInv
<1>2. IInv /\ [Next]_walletVars => IInv'
    BY StepInv
<1> QED
    BY <1>1, <1>2, PTL DEF Spec

-----------------------------------------------------------------------------
(* However many callers race for it, the balance is never negative.        *)
THEOREM NeverNegative == Spec => []NonNegative
<1>1. IInv => NonNegative
    BY DEF IInv
<1> QED
    BY <1>1, Invariance, PTL

(* Retries, double clicks and crashes never move a key's money twice.      *)
THEOREM EffectOnce == Spec => []OneEffect
<1>1. IInv => OneEffect
    BY DEF IInv
<1> QED
    BY <1>1, Invariance, PTL

(* An ok document has moved its money, a failed or absent one has not.     *)
THEOREM StatusTruthful == Spec => []StatusTellsEffect
<1>1. IInv => StatusTellsEffect
    BY DEF IInv
<1> QED
    BY <1>1, Invariance, PTL

(* A call that ends with ok has moved its money exactly once.              *)
THEOREM AcknowledgedApplied == Spec => []AcknowledgedIsApplied
<1>1. IInv => AcknowledgedIsApplied
    BY DEF IInv
<1> QED
    BY <1>1, Invariance, PTL

(* No step changes a document that is ok or failed: a call only writes the *)
(* status of the pending document it inserted.                             *)
THEOREM Settled == Spec => SettledForGood
<1> DEFINE Keeps == \A k \in Keys : tx[k] \in {"ok", "failed"} => tx'[k] = tx[k]
<1>1. IInv /\ [Next]_walletVars => [Keeps]_walletVars
    <2> SUFFICES ASSUME IInv, Next PROVE Keeps
        OBVIOUS
    <2>1. CASE \E p \in Procs, k \in Keys : Begin(p, k)
        BY <2>1 DEF Begin
    <2>2. ASSUME NEW p \in Procs, Step(p) PROVE Keeps
        BY <2>2 DEF Step, Work, CheckCap, Insert, Provision, Apply, Fail, Mark, Crash,
                    Settle, IInv, TypeOK
    <2> QED
        BY <2>1, <2>2 DEF Next
<1> QED
    BY <1>1, Invariance, PTL DEF Spec, SettledForGood

-----------------------------------------------------------------------------
(* The initial wallet is the initial ledger.                               *)
LEMMA InitMaps == Init => Promise!LedgerInit
  BY DEF Init, Promise!LedgerInit

(* The $inc of a call is the ledger's effect of the call's key; every other *)
(* step leaves the ledger as it is.                                        *)
LEMMA StepMaps == MoneyInv /\ [Next]_walletVars => [Promise!LedgerNext]_(Promise!ledgerVars)
<1> SUFFICES ASSUME MoneyInv, [Next]_walletVars
             PROVE  Promise!LedgerNext \/ UNCHANGED Promise!ledgerVars
    OBVIOUS
<1>1. ASSUME NEW p \in Procs, Apply(p), pc'[p] = "mark"
      PROVE  Promise!LedgerNext
    <2>1. cur[p] \in Keys /\ effects[cur[p]] = 0 /\ delta[p] = CallDelta(cur[p])
        BY <1>1 DEF MoneyInv, TypeOK, OwnerInv, DeltaInv, Owning, Apply
    <2>2. balance' = balance + delta[p] /\ effects' = [effects EXCEPT ![cur[p]] = 1]
        BY <1>1, <2>1 DEF Apply, Goto, MoneyInv, TypeOK
    <2>3. balance + CallDelta(cur[p]) >= 0
        BY <1>1, <2>1, CallDeltaType DEF Apply, Goto, MoneyInv, TypeOK, NonNegative
    <2>4. {k \in Keys : effects'[k] > 0} = {k \in Keys : effects[k] > 0} \cup {cur[p]}
        BY <2>1, <2>2 DEF MoneyInv, TypeOK
    <2> QED
        BY <2>1, <2>2, <2>3, <2>4 DEF Promise!LedgerNext, Promise!Effect
<1>2. ASSUME NEW p \in Procs, Apply(p), pc'[p] # "mark"
      PROVE  UNCHANGED <<balance, effects>>
    BY <1>2 DEF Apply, Goto, MoneyInv, TypeOK
<1>3. ASSUME NEW p \in Procs, NEW k \in Keys, Begin(p, k)
      PROVE  UNCHANGED <<balance, effects>>
    BY <1>3 DEF Begin
<1>4. ASSUME NEW p \in Procs, Step(p), ~Apply(p)
      PROVE  UNCHANGED <<balance, effects>>
    BY <1>4 DEF Step, Work, CheckCap, Insert, Provision, Fail, Mark, Crash
<1>5. CASE UNCHANGED <<balance, effects>>
    BY <1>5 DEF Promise!ledgerVars
<1>6. CASE UNCHANGED walletVars
    BY <1>6, <1>5 DEF walletVars
<1> QED
    BY <1>1, <1>2, <1>3, <1>4, <1>5, <1>6 DEF Next

(* The stepwise, crash-prone protocol implements the atomic ledger.        *)
THEOREM Implements == Spec => ImplementsLedger
<1>1. Init => Promise!LedgerInit
    BY InitMaps
<1>2. IInv /\ [Next]_walletVars => [Promise!LedgerNext]_(Promise!ledgerVars)
    BY StepMaps, InvMoney
<1> QED
    BY <1>1, <1>2, Invariance, PTL DEF Spec, ImplementsLedger, Promise!LedgerSpec
-----------------------------------------------------------------------------
(* The sum over a set of keys is a fold in an unspecified order; that it    *)
(* can be taken in any order needs an induction over the size of the set.   *)

(* Every set of natural numbers that is not empty has a least one.         *)
LEMMA Least ==
    ASSUME NEW T \in SUBSET Nat, T # {}
    PROVE  \E m \in T : \A n \in T : m <= n
<1> DEFINE R == {ss \in Nat \X Nat : ss[1] < ss[2]}
<1>1. IsWellFoundedOn(R, Nat)
    BY NatLessThanWellFounded DEF OpToRel
<1>2. \E m \in T : \A n \in T : <<n, m>> \notin R
    <2> HIDE DEF R
    <2> QED
        BY <1>1, WFMin
<1>3. \A m, n \in Nat : <<n, m>> \notin R => m <= n
    OBVIOUS
<1> QED
    BY <1>2, <1>3

(* Every family of subsets of a finite set has one of least size: where a   *)
(* claim about finite sets fails, there is a smallest set it fails for.    *)
LEMMA LeastSet ==
    ASSUME NEW S, IsFiniteSet(S), NEW F \in SUBSET (SUBSET S), F # {}
    PROVE  \E U \in F : \A V \in F : Cardinality(U) <= Cardinality(V)
<1> DEFINE T == {Cardinality(U) : U \in F}
<1>1. \A U \in F : Cardinality(U) \in Nat
    BY FS_Subset, FS_CardinalityType
<1>2. T \in SUBSET Nat /\ T # {}
    BY <1>1
<1>3. PICK m \in T : \A n \in T : m <= n
    <2> HIDE DEF T
    <2> QED BY <1>2, Least
<1> QED
    BY <1>3

(* The element a fold takes next.                                          *)
Chosen(s) == CHOOSE x \in s : TRUE

(* f is the sum of the recorded amounts of every subset of S.              *)
Fold(f, S) ==
    f = [s \in SUBSET S |->
            IF s = {} THEN 0 ELSE RecordedDelta(Chosen(s)) + f[s \ {Chosen(s)}]]

(* One such function, if there is one.                                     *)
Folding(S) == CHOOSE f : Fold(f, S)

(* The sum of the recorded amounts of the keys in S.                       *)
Total(S) == MapThenSumSet(RecordedDelta, S)

(* What MapThenSumSet means.                                               *)
LEMMA TotalIsFolding == ASSUME NEW S PROVE Total(S) = Folding(S)[S]
    BY DEF Total, MapThenSumSet, MapThenFoldSet, Folding, Fold, Chosen

(* An element is chosen from the set.                                      *)
LEMMA ChosenIn == ASSUME NEW s, s # {} PROVE Chosen(s) \in s
  BY DEF Chosen

(* What is left of a set when its chosen element is taken is smaller.      *)
LEMMA Smaller ==
    ASSUME NEW S, IsFiniteSet(S), NEW U \in SUBSET S, U # {}
    PROVE  /\ U \ {Chosen(U)} \in SUBSET S
           /\ Cardinality(U \ {Chosen(U)}) < Cardinality(U)
<1>1. IsFiniteSet(U)
    BY FS_Subset
<1>2. Chosen(U) \in U
    BY ChosenIn
<1>3. Cardinality(U \ {Chosen(U)}) = Cardinality(U) - 1 /\ Cardinality(U) \in Nat
    BY <1>1, <1>2, FS_RemoveElement, FS_CardinalityType
<1> QED
    BY <1>3

(* A fold of a set that is not empty takes its chosen element first.       *)
LEMMA FoldStep ==
    ASSUME NEW S, NEW f, Fold(f, S), NEW U \in SUBSET S, U # {}
    PROVE  f[U] = RecordedDelta(Chosen(U)) + f[U \ {Chosen(U)}]
<1> DEFINE G(h, s) == IF s = {} THEN 0 ELSE RecordedDelta(Chosen(s)) + h[s \ {Chosen(s)}]
<1>1. f = [s \in SUBSET S |-> G(f, s)]
    BY DEF Fold
<1>2. f[U] = G(f, U)
    <2> HIDE DEF G
    <2> QED BY <1>1
<1> QED
    BY <1>2

(* The folds of a set and of a subset agree on what both are about.        *)
LEMMA FoldAgree ==
    ASSUME NEW S, NEW R, NEW f, NEW g, Fold(f, S), Fold(g, R), IsFiniteSet(S), R \subseteq S
    PROVE  \A V \in SUBSET R : f[V] = g[V]
<1> DEFINE F == {V \in SUBSET R : f[V] # g[V]}
<1> SUFFICES ASSUME F # {} PROVE FALSE
    OBVIOUS
<1>1. PICK U \in F : \A V \in F : Cardinality(U) <= Cardinality(V)
    <2>1. F \in SUBSET (SUBSET S)
        OBVIOUS
    <2> HIDE DEF F
    <2> QED
        BY <2>1, LeastSet
<1>2. CASE U = {}
    <2>1. f[{}] = 0 /\ g[{}] = 0
        <3>1. {} \in SUBSET S /\ {} \in SUBSET R
            OBVIOUS
        <3> QED
            BY <3>1 DEF Fold
    <2> QED BY <2>1, <1>2
<1>3. CASE U # {}
    <2> DEFINE W == U \ {Chosen(U)}
    <2>1. W \in SUBSET R /\ Cardinality(W) < Cardinality(U)
        BY <1>3, Smaller
    <2>2. Cardinality(W) \in Nat /\ Cardinality(U) \in Nat
        BY <2>1, FS_Subset, FS_CardinalityType
    <2>3. W \notin F
        BY <1>1, <2>1, <2>2
    <2>4. f[W] = g[W]
        BY <2>1, <2>3
    <2>5. f[U] = RecordedDelta(Chosen(U)) + f[W] /\ g[U] = RecordedDelta(Chosen(U)) + g[W]
        BY <1>3, FoldStep
    <2> QED BY <2>4, <2>5
<1> QED BY <1>2, <1>3

(* The recursion of the fold has a solution on every finite set.           *)
LEMMA FoldExists == ASSUME NEW S, IsFiniteSet(S) PROVE Fold(Folding(S), S)
<1> DEFINE F == {V \in SUBSET S : ~Fold(Folding(V), V)}
<1>a. SUFFICES ASSUME F # {} PROVE FALSE
    OBVIOUS
<1>1. PICK U \in F : \A V \in F : Cardinality(U) <= Cardinality(V)
    <2>1. F \in SUBSET (SUBSET S)
        OBVIOUS
    <2> HIDE DEF F
    <2> QED
        BY <2>1, <1>a, LeastSet
<1>2. IsFiniteSet(U)
    BY FS_Subset
<1>3. \A V \in SUBSET U : V # U => Fold(Folding(V), V)
    <2> SUFFICES ASSUME NEW V \in SUBSET U, V # U PROVE V \notin F
        OBVIOUS
    <2>1. Cardinality(V) <= Cardinality(U) /\ Cardinality(V) # Cardinality(U)
        BY ONLY <1>2, V \in SUBSET U, V # U, FS_Subset
    <2>2. Cardinality(V) \in Nat /\ Cardinality(U) \in Nat
        BY <1>2, FS_Subset, FS_CardinalityType
    <2> QED
        BY <1>1, <2>1, <2>2
<1> DEFINE Less(s) == s \ {Chosen(s)}
           G(s) == IF s = {} THEN 0 ELSE RecordedDelta(Chosen(s)) + Folding(Less(s))[Less(s)]
           h == [s \in SUBSET U |-> G(s)]
<1>4. \A s \in SUBSET U : s # {} => h[Less(s)] = Folding(Less(s))[Less(s)]
    <2> SUFFICES ASSUME NEW s \in SUBSET U, s # {}
                 PROVE  h[Less(s)] = Folding(Less(s))[Less(s)]
        OBVIOUS
    <2> DEFINE t == Less(s)
    <2>1. t \in SUBSET U /\ t # U
        BY ChosenIn
    <2>2. Fold(Folding(t), t)
        BY <1>3, <2>1
    <2>3. h[t] = G(t)
        BY <2>1
    <2>4. CASE t = {}
        <3>1. Folding(t)[t] = 0
            <4> HIDE DEF t
            <4> QED BY <2>2, <2>4 DEF Fold
        <3> QED BY <2>3, <2>4, <3>1
    <2>5. CASE t # {}
        <3>1. Less(t) \in SUBSET t /\ Less(t) # U
            BY <2>1
        <3>2. Fold(Folding(Less(t)), Less(t))
            BY <1>3, <2>1, <3>1
        <3>3. Folding(t)[t] = RecordedDelta(Chosen(t)) + Folding(t)[Less(t)]
            <4> HIDE DEF t
            <4> QED BY <2>2, <2>5, FoldStep
        <3>4. IsFiniteSet(t)
            BY <2>1, <1>2, FS_Subset
        <3>5. Folding(t)[Less(t)] = Folding(Less(t))[Less(t)]
            <4>1. Less(t) \in SUBSET Less(t)
                OBVIOUS
            <4> HIDE DEF t, Less
            <4> QED
                BY <2>2, <3>1, <3>2, <3>4, <4>1, FoldAgree
        <3>6. G(t) = RecordedDelta(Chosen(t)) + Folding(Less(t))[Less(t)]
            BY <2>5
        <3> QED
            BY <2>3, <3>3, <3>5, <3>6
    <2> QED
        BY <2>4, <2>5
<1>5. Fold(h, U)
    <2> DEFINE H(s) == IF s = {} THEN 0 ELSE RecordedDelta(Chosen(s)) + h[s \ {Chosen(s)}]
    <2>1. \A s \in SUBSET U : G(s) = H(s)
        BY <1>4
    <2>2. h = [s \in SUBSET U |-> H(s)]
        <3> HIDE DEF H, G
        <3> QED BY <2>1
    <2> HIDE DEF h
    <2> QED
        BY <2>2 DEF Fold
<1>6. Fold(Folding(U), U)
    <2> HIDE DEF h
    <2> QED BY <1>5 DEF Folding
<1> QED
    BY <1>1, <1>6

(* So the sum takes the chosen element first ...                           *)
LEMMA TotalDef ==
    ASSUME NEW S, IsFiniteSet(S), S # {}
    PROVE Total(S) = RecordedDelta(Chosen(S)) + Total(S \ {Chosen(S)})
<1> DEFINE W == S \ {Chosen(S)}
<1>1. IsFiniteSet(W) /\ W \subseteq S
    BY FS_Subset
<1>2. Fold(Folding(S), S) /\ Fold(Folding(W), W)
    BY <1>1, FoldExists
<1>3. Folding(S)[S] = RecordedDelta(Chosen(S)) + Folding(S)[W]
    BY <1>2, FoldStep
<1>4. Folding(S)[W] = Folding(W)[W]
    <2>1. W \in SUBSET W
        OBVIOUS
    <2> HIDE DEF W
    <2> QED BY <1>1, <1>2, <2>1, FoldAgree
<1> QED
    BY <1>3, <1>4, TotalIsFolding

(* ... and is zero when there is none.                                     *)
LEMMA TotalEmpty == Total({}) = 0
<1>1. Fold(Folding({}), {})
    BY FoldExists, FS_EmptySet
<1>2. Folding({})[{}] = 0
    BY <1>1 DEF Fold
<1> QED BY <1>2, TotalIsFolding

(* A document records an integer.                                          *)
LEMMA RecordedDeltaType == \A k \in Keys : RecordedDelta(k) \in Int
  BY WalletAssumption DEF WalletAssumption, RecordedDelta

(* The sum of finitely many keys is an integer.                            *)
LEMMA TotalType ==
    ASSUME NEW S \in SUBSET Keys, IsFiniteSet(S)
    PROVE  Total(S) \in Int
<1> DEFINE F == {V \in SUBSET S : Total(V) \notin Int}
<1>a. SUFFICES ASSUME F # {} PROVE FALSE
    OBVIOUS
<1>1. PICK U \in F : \A V \in F : Cardinality(U) <= Cardinality(V)
    <2>1. F \in SUBSET (SUBSET S)
        OBVIOUS
    <2> HIDE DEF F
    <2> QED
        BY <2>1, <1>a, LeastSet
<1>2. U # {}
    BY TotalEmpty
<1> DEFINE W == U \ {Chosen(U)}
<1>3. W \in SUBSET S /\ Cardinality(W) < Cardinality(U)
    BY <1>2, Smaller
<1>4. IsFiniteSet(U) /\ Cardinality(W) \in Nat /\ Cardinality(U) \in Nat
    BY <1>3, FS_Subset, FS_CardinalityType
<1>5. Total(W) \in Int
    BY <1>1, <1>3, <1>4
<1>6. Total(U) = RecordedDelta(Chosen(U)) + Total(W)
    BY <1>2, <1>4, TotalDef
<1>7. RecordedDelta(Chosen(U)) \in Int
    BY <1>2, ChosenIn, RecordedDeltaType
<1> QED
    BY <1>5, <1>6, <1>7

(* The order does not matter: the sum takes any element first.             *)
LEMMA TotalAdd ==
    ASSUME NEW S \in SUBSET Keys, IsFiniteSet(S), NEW k \in S
    PROVE  Total(S) = RecordedDelta(k) + Total(S \ {k})
<1> DEFINE F == {V \in SUBSET S : \E j \in V : Total(V) # RecordedDelta(j) + Total(V \ {j})}
<1>a. SUFFICES ASSUME F # {} PROVE FALSE
    OBVIOUS
<1>1. PICK U \in F : \A V \in F : Cardinality(U) <= Cardinality(V)
    <2>1. F \in SUBSET (SUBSET S)
        OBVIOUS
    <2> HIDE DEF F
    <2> QED
        BY <2>1, <1>a, LeastSet
<1>2. PICK j \in U : Total(U) # RecordedDelta(j) + Total(U \ {j})
    OBVIOUS
<1> DEFINE x == Chosen(U)
           W == U \ {x}
<1>3. x \in U /\ W \in SUBSET S /\ Cardinality(W) < Cardinality(U)
    BY <1>2, ChosenIn, Smaller
<1>4. IsFiniteSet(U) /\ IsFiniteSet(W) /\ Cardinality(W) \in Nat /\ Cardinality(U) \in Nat
    BY <1>3, FS_Subset, FS_CardinalityType
<1>5. Total(U) = RecordedDelta(x) + Total(W)
    BY <1>3, <1>4, TotalDef
<1>6. j # x
    BY <1>2, <1>5
<1>7. Total(W) = RecordedDelta(j) + Total(W \ {j})
    <2>1. W \notin F
        <3> HIDE DEF F, W
        <3> QED
            BY <1>1, <1>3, <1>4
    <2>2. j \in W
        BY <1>2, <1>6
    <2> HIDE DEF W
    <2> QED
        BY <1>3, <2>1, <2>2
<1> DEFINE V == U \ {j}
<1>8. V \in SUBSET S /\ IsFiniteSet(V) /\ x \in V /\ V \ {x} = W \ {j}
    BY <1>3, <1>4, <1>6, FS_Subset
<1>9. Cardinality(V) = Cardinality(U) - 1
    BY <1>2, <1>4, FS_RemoveElement
<1>10. Total(V) = RecordedDelta(x) + Total(V \ {x})
    <2>1. V \notin F
        <3> HIDE DEF F, V
        <3> QED
            BY <1>1, <1>4, <1>9
    <2> HIDE DEF V, W, x
    <2> QED
        BY <1>8, <2>1
<1>11. /\ RecordedDelta(x) \in Int
       /\ RecordedDelta(j) \in Int
       /\ Total(W \ {j}) \in Int
    <2>1. IsFiniteSet(W \ {j}) /\ W \ {j} \in SUBSET Keys
        BY <1>3, <1>4, FS_Subset
    <2> QED
        BY <1>2, <1>3, <2>1, RecordedDeltaType, TotalType
<1>12. Total(V) = RecordedDelta(x) + Total(W \ {j})
    BY <1>8, <1>10
<1>13. Total(U) = RecordedDelta(j) + Total(V)
    <2> HIDE DEF V, W, x
    <2> QED
        BY <1>5, <1>7, <1>11, <1>12
<1> QED
    BY <1>2, <1>13

-----------------------------------------------------------------------------
(* The keys whose money has moved.                                         *)
Moved == {k \in Keys : effects[k] > 0}

(* The balance is what the documents of the moved keys record, settled or  *)
(* not yet.                                                                *)
SumInv == IsFiniteSet(Moved) /\ balance = Total(Moved)

(* No reward of a referral, whose document records the wrong direction.    *)
NoReferral == \A k \in Keys : TypeOf[k] # "referral_credit"

(* Then what is applied is what is recorded.                               *)
LEMMA AppliedAsRecorded ==
    ASSUME NoReferral, NEW k \in Keys
    PROVE  CallDelta(k) = RecordedDelta(k)
  BY WalletAssumption DEF NoReferral, WalletAssumption, CallDelta, RecordedDelta, Direction,
                          CreditTypes, DebitTypes

(* Nothing has moved in the initial state.                                 *)
LEMMA InitSum == Init => SumInv
<1> SUFFICES ASSUME Init PROVE SumInv
    OBVIOUS
<1>1. Moved = {} /\ balance = 0
    BY DEF Init, Moved
<1> QED
    BY <1>1, FS_EmptySet, TotalEmpty DEF SumInv

(* A step that applies the amount of a key which has not moved adds it to  *)
(* the balance and to the sum.                                             *)
LEMMA MoveSum ==
    ASSUME TypeOK, SumInv, NEW k \in Keys, effects[k] = 0,
           balance' = balance + RecordedDelta(k), effects' = [effects EXCEPT ![k] = 1]
    PROVE  SumInv'
<1>1. Moved' = Moved \cup {k} /\ k \notin Moved
    BY DEF Moved, TypeOK
<1>2. IsFiniteSet(Moved') /\ Moved' \subseteq Keys
    BY <1>1, FS_AddElement DEF SumInv, Moved
<1>3. Total(Moved') = RecordedDelta(k) + Total(Moved' \ {k})
    BY <1>1, <1>2, TotalAdd
<1>4. Moved' \ {k} = Moved
    BY <1>1
<1>5. balance' = Total(Moved')
    BY <1>3, <1>4, RecordedDeltaType DEF SumInv, TypeOK
<1> QED
    BY <1>2, <1>5 DEF SumInv

(* Steps that move nothing leave the sum alone.                            *)
LEMMA KeepSum ==
    ASSUME SumInv, UNCHANGED <<balance, effects>>
    PROVE  SumInv'
<1>1. Moved' = Moved
    BY DEF Moved
<1> QED
    BY <1>1 DEF SumInv

(* Every step of every caller keeps the sum.                               *)
LEMMA StepSum ==
    ASSUME NoReferral, MoneyInv, SumInv, [Next]_walletVars
    PROVE  SumInv'
<1>1. ASSUME NEW p \in Procs, Apply(p), pc'[p] = "mark"
      PROVE  SumInv'
    <2>1. cur[p] \in Keys /\ effects[cur[p]] = 0 /\ delta[p] = CallDelta(cur[p])
        BY <1>1 DEF MoneyInv, TypeOK, OwnerInv, DeltaInv, Owning, Apply
    <2>2. balance' = balance + delta[p] /\ effects' = [effects EXCEPT ![cur[p]] = 1]
        BY <1>1, <2>1 DEF Apply, Goto, MoneyInv, TypeOK
    <2> QED
        BY <2>1, <2>2, AppliedAsRecorded, MoveSum DEF MoneyInv
<1>2. ASSUME NEW p \in Procs, Apply(p), pc'[p] # "mark"
      PROVE  SumInv'
    BY <1>2, KeepSum DEF Apply, Goto, MoneyInv, TypeOK
<1>3. ASSUME NEW p \in Procs, NEW k \in Keys, Begin(p, k)
      PROVE  SumInv'
    BY <1>3, KeepSum DEF Begin
<1>4. ASSUME NEW p \in Procs, Step(p), ~Apply(p)
      PROVE  SumInv'
    BY <1>4, KeepSum DEF Step, Work, CheckCap, Insert, Provision, Fail, Mark, Crash
<1>5. CASE UNCHANGED walletVars
    BY <1>5, KeepSum DEF walletVars
<1> QED
    BY <1>1, <1>2, <1>3, <1>4, <1>5 DEF Next

(* With nothing pending the moved keys are those with an ok document.      *)
LEMMA SettledSum == MoneyInv /\ SumInv => BalanceMatchesLedger
<1> SUFFICES ASSUME MoneyInv, SumInv, PendingKeys = {}
             PROVE  balance = LedgerSum
    BY DEF BalanceMatchesLedger
<1>1. Moved = OkKeys
    BY DEF MoneyInv, TypeOK, TxStatus, StatusTellsEffect, PendingKeys, OkKeys, Moved
<1> QED
    BY <1>1 DEF SumInv, Total, LedgerSum

(* The reconciliation of the panel finds no difference in a wallet that has *)
(* nothing pending, however its calls have raced and crashed, unless it has *)
(* got the reward of a referral (db/wallet.py:132).                        *)
THEOREM Reconciled ==
    ASSUME NoReferral
    PROVE  Spec => []BalanceMatchesLedger
<1>1. Init => MoneyInv /\ SumInv
    BY InitInv, InvMoney, InitSum
<1>2. MoneyInv /\ SumInv /\ [Next]_walletVars => (MoneyInv /\ SumInv)'
    BY StepMoney, StepSum
<1>3. MoneyInv /\ SumInv => BalanceMatchesLedger
    BY SettledSum
<1> QED
    BY <1>1, <1>2, <1>3, PTL DEF Spec
=============================================================================
