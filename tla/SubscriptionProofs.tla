-------------------------- MODULE SubscriptionProofs --------------------------
(***************************************************************************)
(* What holds of Subscription for every set of users, of codes and of      *)
(* calls, whatever may happen and whatever the bounds: the types           *)
(* (SubscriptionTypes); manual grants exclude each other while a claim     *)
(* outlives its work (GrantsExclude); every token gives days once          *)
(* (TokensWorkOnce); and a family has at most one member too many per call *)
(* that runs beside another, none if writes do not overlap                 *)
(* (FamiliesInSeats).  The lock that the grants pass comes first, by       *)
(* itself: OpLock keeps two runs behind one key apart (MutualExclusion).   *)
(*                                                                         *)
(* The inductive invariant is, in this order: the types, and the operation *)
(* of a call at each of its stages (TypeInv); a trial has one token        *)
(* (TrialInv), a code one user (CodeInv), a claim the length of its life   *)
(* (GrantInv); a seat is counted before it is taken, by one request alone  *)
(* (SeatInv) or by as many as there are calls (RoomInv).                   *)
(***************************************************************************)
EXTENDS Subscription, FiniteSetTheorems, TLAPS

-----------------------------------------------------------------------------
(* A caller that enters finds no other one inside: whoever is inside has   *)
(* a document that has not expired, so neither the insert nor the takeover *)
(* could have succeeded.                                                   *)
LEMMA EntersAlone ==
    ASSUME LockInv, NEW w \in Workers, lock = 0 \/ lock <= now
    PROVE  \A v \in Workers : phase[v] # "in"
  BY LockAssumption DEF LockInv, LockTypeOK, Held

(* Entering with the document, or without one, keeps the lock's invariant. *)
LEMMA EntersKeeps ==
    ASSUME LockInv, NEW w \in Workers, Enters(w), lock = 0 \/ lock <= now
    PROVE  LockInv'
<1>1. \A v \in Workers : phase[v] # "in"
  BY EntersAlone
<1>2. LockTypeOK'
  BY LockAssumption DEF LockInv, LockTypeOK, Enters
<1>3. \A v \in Workers : phase'[v] = "in" => v = w
  BY <1>1 DEF LockInv, LockTypeOK, Enters
<1>4. Held'
  BY <1>3, LockAssumption DEF LockInv, LockTypeOK, Enters, Held
<1>5. Mutex'
  BY <1>3 DEF Mutex
<1> QED
  BY <1>2, <1>4, <1>5 DEF LockInv

(* Every step keeps the invariant when claims are timely and the database  *)
(* does not fail.                                                          *)
LEMMA LockStep ==
    ASSUME Timely, ~Degraded, LockInv, [LockNext]_lockVars
    PROVE  LockInv'
<1> USE LockAssumption
<1>1. ASSUME NEW w \in Workers, Claim(w)
      PROVE  LockInv'
  <2>1. CASE lock = 0 /\ Enters(w)
    BY <2>1, EntersKeeps
  <2>2. CASE lock # 0 /\ phase' = [phase EXCEPT ![w] = "taking"] /\ UNCHANGED <<lock, now, since>>
    BY <2>2 DEF LockInv, LockTypeOK, Held, Mutex
  <2> QED
    BY <1>1, <2>1, <2>2 DEF Claim
<1>2. ASSUME NEW w \in Workers, TakeOver(w)
      PROVE  LockInv'
  <2>1. CASE lock # 0 /\ lock <= now
    BY <1>2, <2>1, EntersKeeps DEF TakeOver
  <2>2. CASE ~(lock # 0 /\ lock <= now)
    BY <1>2, <2>2 DEF TakeOver, LockInv, LockTypeOK, Held, Mutex
  <2> QED
    BY <2>1, <2>2
<1>3. ASSUME NEW w \in Workers, Leave(w)
      PROVE  LockInv'
  BY <1>3 DEF Leave, LockInv, LockTypeOK, Held, Mutex
<1>4. ASSUME NEW w \in Workers, LockCrash(w)
      PROVE  LockInv'
  BY <1>4 DEF LockCrash, LockInv, LockTypeOK, Held, Mutex
<1>5. CASE Expire
  BY <1>5 DEF Expire, LockInv, LockTypeOK, Held, Mutex
<1>6. CASE Tick
  BY <1>6 DEF Tick, InTime, LockInv, LockTypeOK, Held, Mutex
<1>7. CASE UNCHANGED lockVars
  BY <1>7 DEF lockVars, LockInv, LockTypeOK, Held, Mutex
<1> QED
  BY <1>1, <1>2, <1>3, <1>4, <1>5, <1>6, <1>7 DEF LockNext

(* Two runs behind one key never overlap, for every set of callers, every  *)
(* TTL and any number of crashes and takeovers.                            *)
THEOREM MutualExclusion ==
    ASSUME Timely, ~Degraded
    PROVE  LockSpec => []Mutex
<1>1. LockInit => LockInv
  BY LockAssumption DEF LockInit, LockInv, LockTypeOK, Held, Mutex
<1>2. LockInv /\ [LockNext]_lockVars => LockInv'
  BY LockStep
<1>3. LockInv => Mutex
  BY DEF LockInv
<1> QED
  BY <1>1, <1>2, <1>3, PTL DEF LockSpec

-----------------------------------------------------------------------------
(* The operation of a call at each of its stages, and its claim.           *)
Place(c) ==
    /\ call[c].at \in {"claim", "takeover"} => Op(c) = "grant"
    /\ call[c].at \in {"token", "untoken"} => Op(c) = "trial"
    /\ At(c, "read") => Op(c) \in {"pay", "grant", "trial"}
    /\ call[c].at \in {"write", "align"} => Op(c) \in {"pay", "grant", "overwrite", "trial"}
    /\ At(c, "issue") => Op(c) = "invite"
    /\ At(c, "remove") => Op(c) = "remove"
    /\ At(c, "lock") => Op(c) = "redeem"
    /\ At(c, "join") => Op(c) \in {"redeem", "enrol"}
    /\ call[c].at \in {"lock", "join"} =>
          /\ call[c].own \in Users \ {Who(c)}
          /\ IF Op(c) = "redeem" THEN Key(c) \in Codes ELSE Key(c) = Nobody
    /\ call[c].at \notin {"lock", "join"} => call[c].own = Nobody /\ Key(c) = Nobody
    /\ phase[c] = "taking" <=> At(c, "takeover")
    /\ phase[c] = "in" <=> Op(c) = "grant" /\ call[c].at \in {"read", "write", "align"}

(* The history counts in naturals.                                         *)
Counts == [trial : [Users -> Nat], grant : Nat, code : [Codes -> Nat]]

(* The types together with the places.                                     *)
TypeInv == SubTypeOK /\ count \in Counts /\ \A c \in Calls : Place(c)

(* A call that has taken the token of u's trial.                           *)
Holds(c, u) == Op(c) = "trial" /\ Who(c) = u /\ call[c].at \in {"read", "write", "untoken"}

(* A trial gives days once: they are counted when its token has been       *)
(* taken, by the one call that holds it.                                   *)
TrialInv ==
    \A u \in Users :
       /\ count.trial[u] <= 1
       /\ count.trial[u] = 1 => u \in tried
       /\ \A c \in Calls : Holds(c, u) =>
             /\ u \in tried /\ count.trial[u] = 0
             /\ \A d \in Calls : Holds(d, u) => d = c
       /\ \A c \in Calls : Op(c) = "trial" /\ Who(c) = u /\ At(c, "align") => count.trial[u] = 1

(* A call that has locked the code k.                                      *)
Locked(c, k) == At(c, "join") /\ Key(c) = k

(* A code gives days once: it is counted when it has been used, by the one *)
(* call that has locked it; and it, its member and the subscription made   *)
(* by it name one owner.                                                   *)
CodeInv ==
    \A k \in Codes :
       /\ count.code[k] <= 1
       /\ code[k].user = Nobody => count.code[k] = 0
       /\ \A c \in Calls : Locked(c, k) =>
             /\ code[k].owner = call[c].own /\ code[k].user = Who(c) /\ count.code[k] = 0
             /\ \A d \in Calls : Locked(d, k) => d = c
       /\ \A c \in Calls : At(c, "lock") /\ Key(c) = k => code[k].owner = call[c].own
       /\ \A u \in Users : sub[u].via = k =>
             sub[u].owner # Nobody /\ code[k].owner = sub[u].owner /\ code[k].user = u

(* The days a claim has given or is going to.                              *)
Granting == \E c \in Calls : Op(c) = "grant" /\ call[c].at \in {"read", "write"}
Granted  == IF Granting THEN count.grant + 1 ELSE count.grant

(* Each grant, made or under way, has had a claim to itself for all of its *)
(* life; the last one may still run.                                       *)
GrantInv ==
    /\ lock <= now + TTL /\ now >= 1
    /\ Granted * TTL <= (IF lock = 0 THEN now ELSE lock) - 1

(* A call that is going to seat a member in o's family.                    *)
Seating(c, o) == call[c].at \in {"lock", "join"} /\ call[c].own = o

(* Whoever is going to take a seat still finds it: nobody else is going to *)
(* take one of this owner, except by the same code, which only one of them *)
(* can lock.                                                               *)
SeatInv ==
    \A o \in Users :
       /\ Cardinality(Members(o)) <= Seats - 1
       /\ \A c \in Calls : Seating(c, o) =>
             /\ At(c, "join") \/ code[Key(c)].user = Nobody =>
                   Cardinality(Members(o)) + 1 <= Seats - 1
             /\ \A d \in Calls \ {c} : Seating(d, o) =>
                   Op(c) = "redeem" /\ Op(d) = "redeem" /\ Key(c) = Key(d)

(* The calls that have counted a seat of o's family, and what is left of   *)
(* the seats if each of them may have counted the same one.                *)
Seated(o) == {c \in Calls : Seating(c, o)}
Room(o)   == Cardinality(Members(o)) + Cardinality(Seated(o)) + 2 <= Seats + Cardinality(Calls)
RoomInv   == \A o \in Users : Room(o)

-----------------------------------------------------------------------------
(* What a step does to the record of the call that takes it.               *)
Others(c) == call' \in [Calls -> Running] /\ \A d \in Calls \ {c} : call'[d] = call[d]
Keeps(c)  == /\ call'[c].op = Op(c) /\ call'[c].who = Who(c) /\ call'[c].own = call[c].own
             /\ call'[c].key = Key(c)
To(c, s)  == Others(c) /\ Keeps(c) /\ call'[c].at = s
Ends(c)   == Others(c) /\ call'[c] = Idle
Begun(c, op, u, o, k, s) ==
    /\ Others(c) /\ At(c, "idle")
    /\ call'[c].at = s /\ call'[c].op = op /\ call'[c].who = u
    /\ call'[c].own = o /\ call'[c].key = k

(* The record of no call.                                                  *)
LEMMA IdleRuns == Idle \in Running /\ Idle.at = "idle" /\ Idle.own = Nobody /\ Idle.key = Nobody
                  /\ Idle.op = "pay"
<1>1. (CHOOSE u \in Users : TRUE) \in Users
  BY SubscriptionAssumption
<1> QED
  BY <1>1 DEF Idle, Running, Operations

(* A record replaced, a stage changed, the call over, a call begun.        *)
LEMMA Becomes ==
    ASSUME call \in [Calls -> Running], NEW c \in Calls, NEW v \in Running,
           call' = [call EXCEPT ![c] = v]
    PROVE  Others(c) /\ call'[c] = v
  BY DEF Others

LEMMA GotoTo ==
    ASSUME call \in [Calls -> Running], NEW c \in Calls,
           NEW s \in {"idle", "claim", "takeover", "token", "untoken", "read", "write", "align",
                      "issue", "lock", "join", "remove"},
           Goto(c, s)
    PROVE  To(c, s) /\ call'[c].end = call[c].end
<1> DEFINE v == [call[c] EXCEPT !.at = s]
<1>1. call' = [call EXCEPT ![c] = v]
  BY DEF Goto
<1>2. /\ v \in Running /\ v.at = s /\ v.op = call[c].op /\ v.who = call[c].who
      /\ v.own = call[c].own /\ v.key = call[c].key /\ v.end = call[c].end
  BY DEF Running
<1> QED
  BY <1>1, <1>2, Becomes DEF To, Keeps, Op, Who, Key

LEMMA FinishEnds ==
    ASSUME call \in [Calls -> Running], NEW c \in Calls, Finish(c)
    PROVE  /\ Ends(c)
           /\ \/ phase[c] = "out" /\ UNCHANGED lockVars
              \/ phase[c] # "out" /\ Leave(c)
  BY IdleRuns, Becomes DEF Finish, Ends

LEMMA StartBegins ==
    ASSUME call \in [Calls -> Running], NEW c \in Calls,
           NEW s \in {"idle", "claim", "takeover", "token", "untoken", "read", "write", "align",
                      "issue", "lock", "join", "remove"},
           NEW op \in Operations, NEW u \in Users, NEW k \in Codes \cup {Nobody},
           Start(c, op, u, k, s)
    PROVE  Begun(c, op, u, Nobody, k, s) /\ UNCHANGED <<lockVars, sub, tried, code, batch, count>>
<1> DEFINE v == [[[[Idle EXCEPT !.at = s] EXCEPT !.op = op] EXCEPT !.who = u] EXCEPT !.key = k]
<1>1. call' = [call EXCEPT ![c] = v]
  BY DEF Start
<1>2. /\ v \in Running /\ v.at = s /\ v.op = op /\ v.who = u /\ v.own = Nobody /\ v.key = k
  BY IdleRuns DEF Running
<1> QED
  BY <1>1, <1>2, Becomes DEF Begun, Start

-----------------------------------------------------------------------------
(* How a call begins.                                                      *)
LEMMA BeginMoves ==
    ASSUME SubTypeOK, NEW c \in Calls, NEW u \in Users
    PROVE  /\ Pay(c, u) => Begun(c, "pay", u, Nobody, Nobody, "read")
           /\ Grant(c, u) => Begun(c, "grant", u, Nobody, Nobody, "claim")
           /\ Overwrite(c, u) => Begun(c, "overwrite", u, Nobody, Nobody, "write")
           /\ Trial(c, u) => Begun(c, "trial", u, Nobody, Nobody, "token")
           /\ Invite(c, u) => Begun(c, "invite", u, Nobody, Nobody, "issue")
           /\ Remove(c, u) => Begun(c, "remove", u, Nobody, Nobody, "remove")
           /\ \A k \in Codes : Redeem(c, u, k) =>
                 /\ code[k].owner \in Users \ {u}
                 /\ Begun(c, "redeem", u, code[k].owner, k, "lock")
           /\ \A o \in Users : Enrol(c, u, o) =>
                 u # o /\ Begun(c, "enrol", u, o, Nobody, "join")
<1>1. /\ call \in [Calls -> Running] /\ sub \in [Users -> Subscriptions]
      /\ {"pay", "grant", "overwrite", "trial", "redeem", "enrol", "invite", "remove"} \subseteq Operations
  BY DEF SubTypeOK, Operations
<1>2. /\ Pay(c, u) => Begun(c, "pay", u, Nobody, Nobody, "read")
      /\ Grant(c, u) => Begun(c, "grant", u, Nobody, Nobody, "claim")
      /\ Trial(c, u) => Begun(c, "trial", u, Nobody, Nobody, "token")
      /\ Invite(c, u) => Begun(c, "invite", u, Nobody, Nobody, "issue")
      /\ Remove(c, u) => Begun(c, "remove", u, Nobody, Nobody, "remove")
  BY <1>1, StartBegins DEF Pay, Grant, Trial, Invite, Remove
<1>3. ASSUME NEW k \in Codes, Redeem(c, u, k)
      PROVE  /\ code[k].owner \in Users \ {u}
             /\ Begun(c, "redeem", u, code[k].owner, k, "lock")
  <2> DEFINE o == code[k].owner
             v == [at |-> "lock", op |-> "redeem", who |-> u, own |-> o, key |-> k, end |-> sub[o].end]
  <2>1. o \in Users \ {u} /\ call' = [call EXCEPT ![c] = v] /\ At(c, "idle")
    BY <1>3 DEF Redeem
  <2>2. v \in Running
    BY <1>1, <2>1 DEF Running, Subscriptions
  <2> QED
    BY <1>1, <2>1, <2>2, Becomes DEF Begun
<1>4. ASSUME NEW o \in Users, Enrol(c, u, o)
      PROVE  u # o /\ Begun(c, "enrol", u, o, Nobody, "join")
  <2> DEFINE v == [at |-> "join", op |-> "enrol", who |-> u, own |-> o, key |-> Nobody,
                   end |-> sub[o].end]
  <2>1. u # o /\ call' = [call EXCEPT ![c] = v] /\ At(c, "idle")
    BY <1>4 DEF Enrol
  <2>2. v \in Running
    BY <1>1, <2>1 DEF Running, Subscriptions
  <2> QED
    BY <1>1, <2>1, <2>2, Becomes DEF Begun
<1>5. ASSUME Overwrite(c, u)
      PROVE  Begun(c, "overwrite", u, Nobody, Nobody, "write")
  <2> DEFINE e == now + Days
             v == [[[[Idle EXCEPT !.at = "write"] EXCEPT !.op = "overwrite"] EXCEPT !.who = u]
                         EXCEPT !.end = e]
  <2>1. call' = [call EXCEPT ![c] = v] /\ At(c, "idle")
    BY <1>5 DEF Overwrite
  <2>2. e \in Nat
    BY SubscriptionAssumption DEF SubTypeOK, LockTypeOK
  <2> HIDE DEF e
  <2>3. /\ v \in Running /\ v.at = "write" /\ v.op = "overwrite" /\ v.who = u /\ v.own = Nobody
        /\ v.key = Nobody
    BY <1>1, <2>2, IdleRuns DEF Running
  <2> QED
    BY <1>1, <2>1, <2>3, Becomes DEF Begun
<1> QED
  BY <1>2, <1>3, <1>4, <1>5

(* The end of a period is a moment.                                        *)
LEMMA PeriodEnds ==
    ASSUME SubTypeOK, NEW c \in Calls
    PROVE  PeriodEnd(c) \in Nat
  BY SubscriptionAssumption DEF SubTypeOK, LockTypeOK, Subscriptions, Running, PeriodEnd, Who

(* How it goes on.                                                         *)
LEMMA StepMoves ==
    ASSUME SubTypeOK, NEW c \in Calls
    PROVE  /\ GrantClaim(c) => /\ At(c, "claim") /\ Claim(c)
                               /\ To(c, IF phase'[c] = "in" THEN "read" ELSE "takeover")
           /\ GrantTakeOver(c) => /\ At(c, "takeover") /\ TakeOver(c)
                                  /\ IF phase'[c] = "in" THEN To(c, "read") ELSE Ends(c)
           /\ TakeToken(c) => /\ At(c, "token")
                              /\ \/ To(c, "read") /\ Who(c) \notin tried /\ UNCHANGED lockVars
                                 \/ Ends(c) /\ Who(c) \in tried
           /\ ReleaseToken(c) => At(c, "untoken") /\ Ends(c)
           /\ Read(c) => At(c, "read") /\ To(c, "write") /\ call'[c].end = PeriodEnd(c)
           /\ Write(c) => At(c, "write") /\ To(c, "align") /\ call'[c].end = call[c].end
           /\ WriteFails(c) \/ WriteUnanswered(c) =>
                 /\ At(c, "write")
                 /\ IF Op(c) = "trial" THEN To(c, "untoken") ELSE Ends(c)
           /\ Align(c) => At(c, "align") /\ Ends(c)
           /\ IssueCode(c) => At(c, "issue") /\ Ends(c)
           /\ LockCode(c) => /\ At(c, "lock")
                             /\ \/ To(c, "join") /\ code[Key(c)].user = Nobody /\ UNCHANGED lockVars
                                \/ Ends(c) /\ code[Key(c)].user # Nobody
           /\ Join(c) => At(c, "join") /\ Ends(c)
           /\ RemoveMember(c) => At(c, "remove") /\ Ends(c)
           /\ Crash(c) => ~At(c, "idle") /\ Ends(c)
<1>1. call \in [Calls -> Running]
  BY DEF SubTypeOK
<1>2. Finish(c) => Ends(c)
  BY <1>1, FinishEnds
<1>3. \A s \in {"idle", "claim", "takeover", "token", "untoken", "read", "write", "align",
                "issue", "lock", "join", "remove"} :
         Goto(c, s) => To(c, s) /\ call'[c].end = call[c].end
  BY <1>1, GotoTo
<1>4. GrantClaim(c) => /\ At(c, "claim") /\ Claim(c)
                       /\ To(c, IF phase'[c] = "in" THEN "read" ELSE "takeover")
  BY <1>3 DEF GrantClaim
<1>5. ASSUME GrantTakeOver(c)
      PROVE  /\ At(c, "takeover") /\ TakeOver(c)
             /\ IF phase'[c] = "in" THEN To(c, "read") ELSE Ends(c)
  <2>1. CASE phase'[c] = "in"
    <3>1. Goto(c, "read")
      BY <1>5, <2>1 DEF GrantTakeOver, Goto
    <3> QED
      BY <1>3, <1>5, <2>1, <3>1 DEF GrantTakeOver
  <2>2. CASE phase'[c] # "in"
    <3>1. call' = [call EXCEPT ![c] = Idle]
      BY <1>5, <2>2 DEF GrantTakeOver
    <3> QED
      BY <1>1, <1>5, <2>2, <3>1, IdleRuns, Becomes DEF GrantTakeOver, Ends
  <2> QED
    BY <2>1, <2>2
<1>6. TakeToken(c) => /\ At(c, "token")
                      /\ \/ To(c, "read") /\ Who(c) \notin tried /\ UNCHANGED lockVars
                         \/ Ends(c) /\ Who(c) \in tried
  BY <1>2, <1>3 DEF TakeToken
<1>7. LockCode(c) => /\ At(c, "lock")
                     /\ \/ To(c, "join") /\ code[Key(c)].user = Nobody /\ UNCHANGED lockVars
                        \/ Ends(c) /\ code[Key(c)].user # Nobody
  BY <1>2, <1>3 DEF LockCode
<1>8. ASSUME Read(c)
      PROVE  At(c, "read") /\ To(c, "write") /\ call'[c].end = PeriodEnd(c)
  <2> DEFINE e == PeriodEnd(c)
             v == [[call[c] EXCEPT !.at = "write"] EXCEPT !.end = e]
  <2>1. call' = [call EXCEPT ![c] = v] /\ At(c, "read")
    BY <1>8 DEF Read
  <2>2. e \in Nat
    BY PeriodEnds
  <2> HIDE DEF e
  <2>3. /\ v \in Running /\ v.at = "write" /\ v.op = call[c].op /\ v.who = call[c].who
        /\ v.own = call[c].own /\ v.key = call[c].key /\ v.end = e
    BY <1>1, <2>2 DEF Running
  <2>4. To(c, "write") /\ call'[c].end = e
    BY <1>1, <2>1, <2>3, Becomes DEF To, Keeps, Op, Who, Key
  <2> QED
    BY <2>1, <2>4 DEF e
<1>9. /\ ReleaseToken(c) => At(c, "untoken") /\ Ends(c)
      /\ Write(c) => At(c, "write") /\ To(c, "align") /\ call'[c].end = call[c].end
      /\ WriteFails(c) \/ WriteUnanswered(c) =>
            /\ At(c, "write")
            /\ IF Op(c) = "trial" THEN To(c, "untoken") ELSE Ends(c)
      /\ Align(c) => At(c, "align") /\ Ends(c)
      /\ IssueCode(c) => At(c, "issue") /\ Ends(c)
      /\ Join(c) => At(c, "join") /\ Ends(c)
      /\ RemoveMember(c) => At(c, "remove") /\ Ends(c)
  BY <1>2, <1>3 DEF ReleaseToken, Write, WriteFails, WriteUnanswered, GiveUp, Align, IssueCode,
     Join, RemoveMember
<1>10. Crash(c) => ~At(c, "idle") /\ Ends(c)
  BY <1>1, IdleRuns, Becomes DEF Crash, Ends
<1> QED
  BY <1>4, <1>5, <1>6, <1>7, <1>8, <1>9, <1>10

-----------------------------------------------------------------------------
(* The lock: a step of a call is one of the lock or leaves it alone, and   *)
(* the phase of the other calls is theirs.                                 *)
PhaseKept(c) == \A d \in Calls \ {c} : phase'[d] = phase[d]

(* The lock's steps of one call, seen from its phase.                      *)
LEMMA PhaseMoves ==
    ASSUME SubTypeOK, NEW c \in Calls
    PROVE  /\ Claim(c) => PhaseKept(c) /\ phase'[c] \in {"in", "taking"}
           /\ TakeOver(c) => PhaseKept(c) /\ phase'[c] \in {"in", "out"}
           /\ Leave(c) \/ LockCrash(c) => PhaseKept(c) /\ phase'[c] = "out"
           /\ UNCHANGED lockVars => PhaseKept(c) /\ phase'[c] = phase[c]
           /\ Finish(c) \/ Crash(c) => PhaseKept(c) /\ phase'[c] = "out"
<1>1. phase \in [Calls -> {"out", "taking", "in"}]
  BY SubscriptionAssumption DEF SubTypeOK, LockTypeOK
<1>2. /\ Claim(c) => PhaseKept(c) /\ phase'[c] \in {"in", "taking"}
      /\ TakeOver(c) => PhaseKept(c) /\ phase'[c] \in {"in", "out"}
  BY <1>1 DEF Claim, TakeOver, Enters, PhaseKept
<1>3. /\ Leave(c) \/ LockCrash(c) => PhaseKept(c) /\ phase'[c] = "out"
      /\ UNCHANGED lockVars => PhaseKept(c) /\ phase'[c] = phase[c]
  BY <1>1 DEF Leave, LockCrash, PhaseKept, lockVars
<1>4. Finish(c) \/ Crash(c) => PhaseKept(c) /\ phase'[c] = "out"
  BY <1>3 DEF Finish, Crash
<1> QED
  BY <1>2, <1>3, <1>4

(* The module implements OpLock: every step of it is one of the lock or    *)
(* leaves it alone.                                                        *)
LEMMA LockSteps ==
    ASSUME SubTypeOK, [SubscriptionNext]_vars
    PROVE  [LockNext]_lockVars
<1>1. Workers = Calls
  BY SubscriptionAssumption
<1>2. ASSUME NEW c \in Calls, Begin(c)
      PROVE  UNCHANGED lockVars
  BY <1>2 DEF Begin, Pay, Grant, Overwrite, Trial, Invite, Remove, Redeem, Enrol, Start
<1>3. ASSUME NEW c \in Calls
      PROVE  /\ Finish(c) => [LockNext]_lockVars
             /\ Crash(c) => [LockNext]_lockVars
  BY <1>1 DEF Finish, Crash, LockNext
<1>4. ASSUME NEW c \in Calls, Step(c)
      PROVE  [LockNext]_lockVars
  <2>1. GrantClaim(c) \/ GrantTakeOver(c) => LockNext
    BY <1>1 DEF GrantClaim, GrantTakeOver, LockNext
  <2>2. Read(c) \/ Write(c) => UNCHANGED lockVars
    BY DEF Read, Write
  <2>3. TakeToken(c) \/ WriteFails(c) \/ WriteUnanswered(c) \/ LockCode(c) =>
           UNCHANGED lockVars \/ Finish(c)
    BY DEF TakeToken, WriteFails, WriteUnanswered, GiveUp, LockCode
  <2>4. ReleaseToken(c) \/ Align(c) \/ IssueCode(c) \/ Join(c) \/ RemoveMember(c) => Finish(c)
    BY DEF ReleaseToken, Align, IssueCode, Join, RemoveMember
  <2> QED
    BY <1>3, <1>4, <2>1, <2>2, <2>3, <2>4 DEF Step
<1>5. (\E u \in Users : Revoke(u)) \/ FindDue \/ ExpireDue \/ UNCHANGED vars => UNCHANGED lockVars
  BY DEF Revoke, FindDue, ExpireDue, vars
<1>6. Clock => LockNext
  BY DEF Clock, LockNext
<1> QED
  BY <1>2, <1>4, <1>5, <1>6 DEF SubscriptionNext

(* The lock's types, whether claims are kept or expire.                    *)
LEMMA LockTypes ==
    ASSUME LockTypeOK, [LockNext]_lockVars
    PROVE  LockTypeOK'
<1> USE LockAssumption DEF LockTypeOK
<1>1. ASSUME NEW w \in Workers, Claim(w) \/ TakeOver(w) \/ Leave(w) \/ LockCrash(w)
      PROVE  LockTypeOK'
  <2>1. Enters(w) => LockTypeOK'
    BY DEF Enters
  <2>2. Claim(w) => LockTypeOK'
    BY <2>1 DEF Claim
  <2>3. TakeOver(w) => LockTypeOK'
    BY <2>1 DEF TakeOver
  <2>4. Leave(w) => LockTypeOK'
    BY DEF Leave
  <2>5. LockCrash(w) => LockTypeOK'
    BY DEF LockCrash
  <2> QED
    BY <1>1, <2>2, <2>3, <2>4, <2>5
<1>2. Expire \/ Tick \/ UNCHANGED lockVars => LockTypeOK'
  BY DEF Expire, Tick, lockVars
<1> QED
  BY <1>1, <1>2 DEF LockNext

(* The place of a call depends on its record and its phase alone.          *)
LEMMA PlaceKept ==
    ASSUME TypeInv, NEW c \in Calls, Others(c), PhaseKept(c), Place(c)'
    PROVE  \A d \in Calls : Place(d)'
<1>1. ASSUME NEW d \in Calls \ {c}
      PROVE  Place(d)'
  <2>1. Place(d) /\ call'[d] = call[d] /\ phase'[d] = phase[d]
    BY DEF TypeInv, Others, PhaseKept
  <2> QED
    BY <2>1 DEF Place, At, Op, Who, Key
<1> QED
  BY <1>1

(* A call begins, ends and goes on in its places.                          *)
LEMMA BeginPlace ==
    ASSUME TypeInv, NEW c \in Calls, NEW u \in Users,
           \/ Begun(c, "pay", u, Nobody, Nobody, "read")
           \/ Begun(c, "grant", u, Nobody, Nobody, "claim")
           \/ Begun(c, "overwrite", u, Nobody, Nobody, "write")
           \/ Begun(c, "trial", u, Nobody, Nobody, "token")
           \/ Begun(c, "invite", u, Nobody, Nobody, "issue")
           \/ Begun(c, "remove", u, Nobody, Nobody, "remove")
           \/ \E k \in Codes, o \in Users \ {u} : Begun(c, "redeem", u, o, k, "lock")
           \/ \E o \in Users \ {u} : Begun(c, "enrol", u, o, Nobody, "join"),
           UNCHANGED lockVars
    PROVE  \A d \in Calls : Place(d)'
<1>1. PhaseKept(c) /\ phase'[c] = phase[c] /\ At(c, "idle") /\ Place(c) /\ Others(c)
  BY PhaseMoves DEF TypeInv, Begun
<1>2. phase[c] \notin {"taking", "in"}
  BY <1>1 DEF Place, At
<1>3. Place(c)'
  BY <1>1, <1>2, SubscriptionAssumption DEF Begun, Place, At, Op, Who, Key
<1> QED
  BY <1>1, <1>3, PlaceKept

LEMMA EndPlace ==
    ASSUME TypeInv, NEW c \in Calls, Ends(c), PhaseKept(c), phase'[c] = "out"
    PROVE  \A d \in Calls : Place(d)'
<1>1. Place(c)'
  BY IdleRuns DEF Ends, Place, At, Op, Who, Key
<1> QED
  BY <1>1, PlaceKept DEF Ends

LEMMA StepPlace ==
    ASSUME TypeInv, NEW c \in Calls, Step(c)
    PROVE  \A d \in Calls : Place(d)'
<1>1. SubTypeOK /\ Place(c)
  BY DEF TypeInv
<1>2. Finish(c) \/ Crash(c) => \A d \in Calls : Place(d)'
  <2>1. Finish(c) \/ Crash(c) => Ends(c) /\ PhaseKept(c) /\ phase'[c] = "out"
    BY <1>1, StepMoves, PhaseMoves, FinishEnds DEF SubTypeOK
  <2> QED
    BY <2>1, EndPlace
<1>3. CASE GrantClaim(c)
  <2>1. /\ At(c, "claim") /\ To(c, IF phase'[c] = "in" THEN "read" ELSE "takeover")
        /\ PhaseKept(c) /\ phase'[c] \in {"in", "taking"}
    BY <1>1, <1>3, StepMoves, PhaseMoves
  <2>2. Place(c)'
    BY <1>1, <2>1 DEF To, Keeps, Place, At, Op, Who, Key
  <2> QED
    BY <2>1, <2>2, PlaceKept DEF To
<1>4. CASE GrantTakeOver(c)
  <2>1. /\ At(c, "takeover") /\ PhaseKept(c) /\ phase'[c] \in {"in", "out"}
        /\ IF phase'[c] = "in" THEN To(c, "read") ELSE Ends(c)
    BY <1>1, <1>4, StepMoves, PhaseMoves
  <2>2. CASE phase'[c] = "in"
    <3>1. Place(c)'
      BY <1>1, <2>1, <2>2 DEF To, Keeps, Place, At, Op, Who, Key
    <3> QED
      BY <2>1, <2>2, <3>1, PlaceKept DEF To
  <2> QED
    BY <2>1, <2>2, EndPlace
<1>5. ASSUME UNCHANGED lockVars,
             \/ At(c, "token") /\ To(c, "read")
             \/ At(c, "read") /\ To(c, "write")
             \/ At(c, "write") /\ To(c, "align")
             \/ At(c, "write") /\ Op(c) = "trial" /\ To(c, "untoken")
             \/ At(c, "lock") /\ To(c, "join")
      PROVE  \A d \in Calls : Place(d)'
  <2>1. PhaseKept(c) /\ phase'[c] = phase[c] /\ Others(c)
    BY <1>1, <1>5, PhaseMoves DEF To
  <2>2. Place(c)'
    BY <1>1, <1>5, <2>1 DEF To, Keeps, Place, At, Op, Who, Key
  <2> QED
    BY <2>1, <2>2, PlaceKept
<1>6. CASE TakeToken(c)
  BY <1>1, <1>2, <1>5, <1>6, StepMoves DEF TakeToken, Ends, To
<1>7. CASE LockCode(c)
  BY <1>1, <1>2, <1>5, <1>7, StepMoves DEF LockCode, Ends, To
<1>8. CASE Read(c) \/ Write(c)
  <2>1. UNCHANGED lockVars
    BY <1>8 DEF Read, Write
  <2> QED
    BY <1>1, <1>5, <1>8, <2>1, StepMoves
<1>9. CASE WriteFails(c) \/ WriteUnanswered(c)
  BY <1>1, <1>2, <1>5, <1>9, StepMoves DEF WriteFails, WriteUnanswered, GiveUp
<1>10. CASE ReleaseToken(c) \/ Align(c) \/ IssueCode(c) \/ Join(c) \/ RemoveMember(c) \/ Crash(c)
  BY <1>2, <1>10 DEF ReleaseToken, Align, IssueCode, Join, RemoveMember
<1> QED
  BY <1>3, <1>4, <1>6, <1>7, <1>8, <1>9, <1>10 DEF Step

(* The steps that write a subscription, and what they leave alone.         *)
Stores(c) == Write(c) \/ WriteUnanswered(c)
Writing ==
    \/ \E c \in Calls : Stores(c) \/ Align(c) \/ Join(c) \/ RemoveMember(c)
    \/ \E u \in Users : Revoke(u)
    \/ ExpireDue

(* No other step writes a subscription.                                    *)
LEMMA SubWrites ==
    ASSUME [SubscriptionNext]_vars, ~Writing
    PROVE  sub' = sub
<1>1. ASSUME NEW c \in Calls, Begin(c)
      PROVE  sub' = sub
  BY <1>1 DEF Begin, Pay, Grant, Overwrite, Trial, Invite, Remove, Redeem, Enrol, Start, subButCall
<1>2. ASSUME NEW c \in Calls, Step(c)
      PROVE  sub' = sub
  BY <1>2 DEF Step, Writing, Stores, GrantClaim, GrantTakeOver, TakeToken, ReleaseToken, Read, WriteFails,
     IssueCode, LockCode, Crash, subButCall
<1>3. FindDue \/ Clock \/ UNCHANGED vars => sub' = sub
  BY DEF FindDue, Clock, vars, subVars
<1> QED
  BY <1>1, <1>2, <1>3 DEF SubscriptionNext, Writing

(* What each of them writes, user by user.                                 *)
LEMMA Written ==
    ASSUME SubTypeOK, NEW c \in Calls
    PROVE  /\ Stores(c) =>
                 /\ sub'[Who(c)] = [st |-> "active", end |-> call[c].end, owner |-> Nobody,
                                    via |-> Nobody, plan |-> Op(c) \in {"pay", "trial"} /\ Who(c) \in Family]
                 /\ \A u \in Users \ {Who(c)} : sub'[u] = sub[u]
                 /\ sub' \in [Users -> Subscriptions]
           /\ Join(c) /\ Place(c) =>
                 /\ sub'[Who(c)] = [st |-> "active", end |-> call[c].end, owner |-> call[c].own,
                                    via |-> Key(c), plan |-> TRUE]
                 /\ \A u \in Users \ {Who(c)} : sub'[u] = sub[u]
                 /\ sub' \in [Users -> Subscriptions]
           /\ Align(c) =>
                 /\ \A u \in Users : sub'[u] = IF u \in Members(Who(c))
                                               THEN [sub[u] EXCEPT !.end = call[c].end] ELSE sub[u]
                 /\ sub' \in [Users -> Subscriptions]
           /\ RemoveMember(c) =>
                 /\ sub'[Who(c)] = [sub[Who(c)] EXCEPT !.st = "revoked"]
                 /\ \A u \in Users \ {Who(c)} : sub'[u] = sub[u]
                 /\ sub' \in [Users -> Subscriptions]
<1>1. /\ sub \in [Users -> Subscriptions] /\ call[c] \in Running /\ Who(c) \in Users
      /\ call[c].end \in Nat /\ Key(c) \in Codes \cup {Nobody}
  BY DEF SubTypeOK, Running, Who, Key
<1>2. ASSUME Stores(c)
      PROVE  /\ sub'[Who(c)] = [st |-> "active", end |-> call[c].end, owner |-> Nobody,
                                via |-> Nobody, plan |-> Op(c) \in {"pay", "trial"} /\ Who(c) \in Family]
             /\ \A u \in Users \ {Who(c)} : sub'[u] = sub[u]
             /\ sub' \in [Users -> Subscriptions]
  <2> DEFINE p == Op(c) \in {"pay", "trial"} /\ Who(c) \in Family
             v == [st |-> "active", end |-> call[c].end, owner |-> Nobody, via |-> Nobody, plan |-> p]
  <2>1. p \in BOOLEAN
    OBVIOUS
  <2> HIDE DEF p
  <2>2. v \in Subscriptions
    BY <1>1, <2>1 DEF Subscriptions
  <2>3. sub' = [sub EXCEPT ![Who(c)] = v]
    BY <1>2 DEF Stores, Write, WriteUnanswered, Activate, p
  <2>4. /\ sub'[Who(c)] = v /\ \A u \in Users \ {Who(c)} : sub'[u] = sub[u]
        /\ sub' \in [Users -> Subscriptions]
    BY <1>1, <2>2, <2>3
  <2> QED
    BY <2>4 DEF p
<1>3. ASSUME Join(c), Place(c)
      PROVE  /\ sub'[Who(c)] = [st |-> "active", end |-> call[c].end, owner |-> call[c].own,
                                via |-> Key(c), plan |-> TRUE]
             /\ \A u \in Users \ {Who(c)} : sub'[u] = sub[u]
             /\ sub' \in [Users -> Subscriptions]
  <2> DEFINE v == [st |-> "active", end |-> call[c].end, owner |-> call[c].own, via |-> Key(c),
                   plan |-> TRUE]
  <2>1. call[c].own \in Users
    BY <1>3 DEF Join, Place, At
  <2>2. v \in Subscriptions
    BY <1>1, <2>1 DEF Subscriptions
  <2>3. sub' = [sub EXCEPT ![Who(c)] = v]
    BY <1>3 DEF Join
  <2> QED
    BY <1>1, <2>2, <2>3
<1>4. ASSUME Align(c)
      PROVE  /\ \A u \in Users : sub'[u] = IF u \in Members(Who(c))
                                           THEN [sub[u] EXCEPT !.end = call[c].end] ELSE sub[u]
             /\ sub' \in [Users -> Subscriptions]
  <2>1. \A u \in Users : [sub[u] EXCEPT !.end = call[c].end] \in Subscriptions
    BY <1>1 DEF Subscriptions
  <2>2. sub' = [u \in Users |-> IF u \in Members(Who(c))
                                THEN [sub[u] EXCEPT !.end = call[c].end] ELSE sub[u]]
    BY <1>4 DEF Align
  <2> QED
    BY <1>1, <2>1, <2>2
<1>5. ASSUME RemoveMember(c)
      PROVE  /\ sub'[Who(c)] = [sub[Who(c)] EXCEPT !.st = "revoked"]
             /\ \A u \in Users \ {Who(c)} : sub'[u] = sub[u]
             /\ sub' \in [Users -> Subscriptions]
  <2> DEFINE v == [sub[Who(c)] EXCEPT !.st = "revoked"]
  <2>1. v \in Subscriptions
    BY <1>1 DEF Subscriptions
  <2>2. sub' = [sub EXCEPT ![Who(c)] = v]
    BY <1>5 DEF RemoveMember
  <2> QED
    BY <1>1, <2>1, <2>2
<1> QED
  BY <1>2, <1>3, <1>4, <1>5

(* The same of the steps that belong to no call.                           *)
LEMMA WrittenByNone ==
    ASSUME SubTypeOK
    PROVE  /\ \A v \in Users : Revoke(v) =>
                 /\ sub'[v] = [sub[v] EXCEPT !.st = "revoked"]
                 /\ \A u \in Users \ {v} : sub'[u] = sub[u]
                 /\ sub' \in [Users -> Subscriptions]
           /\ ExpireDue =>
                 /\ \A u \in Users : sub'[u] = IF u \in batch THEN [sub[u] EXCEPT !.st = "expired"]
                                               ELSE sub[u]
                 /\ sub' \in [Users -> Subscriptions]
<1>1. sub \in [Users -> Subscriptions]
  BY DEF SubTypeOK
<1>2. /\ \A u \in Users : [sub[u] EXCEPT !.st = "expired"] \in Subscriptions
      /\ \A u \in Users : [sub[u] EXCEPT !.st = "revoked"] \in Subscriptions
  BY <1>1 DEF Subscriptions
<1>3. ASSUME NEW v \in Users, Revoke(v)
      PROVE  /\ sub'[v] = [sub[v] EXCEPT !.st = "revoked"]
             /\ \A u \in Users \ {v} : sub'[u] = sub[u]
             /\ sub' \in [Users -> Subscriptions]
  <2> DEFINE w == [sub[v] EXCEPT !.st = "revoked"]
  <2>1. sub' = [sub EXCEPT ![v] = w] /\ w \in Subscriptions
    BY <1>2, <1>3 DEF Revoke
  <2> QED
    BY <1>1, <2>1
<1>4. ASSUME ExpireDue
      PROVE  /\ \A u \in Users : sub'[u] = IF u \in batch THEN [sub[u] EXCEPT !.st = "expired"]
                                           ELSE sub[u]
             /\ sub' \in [Users -> Subscriptions]
  <2>1. sub' = [u \in Users |-> IF u \in batch THEN [sub[u] EXCEPT !.st = "expired"] ELSE sub[u]]
    BY <1>4 DEF ExpireDue
  <2> QED
    BY <1>1, <1>2, <2>1
<1> QED
  BY <1>3, <1>4

(* The types hold at the start.                                            *)
LEMMA TypeStart == SubscriptionInit => TypeInv
<1> SUFFICES ASSUME SubscriptionInit
             PROVE  TypeInv
  OBVIOUS
<1>1. LockTypeOK
  BY DEF SubscriptionInit, LockInit, LockTypeOK
<1>2. SubTypeOK
  BY <1>1, IdleRuns, SubscriptionAssumption DEF SubscriptionInit, SubTypeOK, Subscriptions
<1>3. \A c \in Calls : call[c] = Idle /\ phase[c] = "out"
  BY SubscriptionAssumption DEF SubscriptionInit, LockInit
<1>4. \A c \in Calls : Place(c)
  BY <1>3, IdleRuns DEF Place, At, Op, Who, Key
<1>5. count \in Counts
  BY DEF SubscriptionInit, Counts
<1> QED
  BY <1>2, <1>4, <1>5 DEF TypeInv

(* The history counts days given, one by one.                              *)
LEMMA Counted ==
    ASSUME TypeInv, NEW c \in Calls
    PROVE  /\ Write(c) =>
                 /\ count' \in Counts /\ count'.code = count.code
                 /\ count'.grant = IF Op(c) = "grant" THEN count.grant + 1 ELSE count.grant
                 /\ \A u \in Users :
                       count'.trial[u] = IF Op(c) = "trial" /\ u = Who(c) THEN count.trial[u] + 1
                                         ELSE count.trial[u]
           /\ WriteUnanswered(c) =>
                 /\ count' \in Counts /\ count'.code = count.code /\ count'.trial = count.trial
                 /\ count'.grant = IF Op(c) = "grant" THEN count.grant + 1 ELSE count.grant
           /\ Join(c) =>
                 /\ count' \in Counts /\ count'.trial = count.trial /\ count'.grant = count.grant
                 /\ \A k \in Codes :
                       count'.code[k] = IF k = Key(c) THEN count.code[k] + 1 ELSE count.code[k]
<1>1. /\ count \in Counts /\ Who(c) \in Users
  BY DEF TypeInv, SubTypeOK, Running, Who
<1>2. ASSUME Write(c)
      PROVE  /\ count' \in Counts /\ count'.code = count.code
             /\ count'.grant = IF Op(c) = "grant" THEN count.grant + 1 ELSE count.grant
             /\ \A u \in Users :
                   count'.trial[u] = IF Op(c) = "trial" /\ u = Who(c) THEN count.trial[u] + 1
                                     ELSE count.trial[u]
  <2>1. CASE Op(c) = "trial"
    <3> DEFINE f == [count.trial EXCEPT ![Who(c)] = @ + 1]
    <3>1. count' = [count EXCEPT !.trial = f]
      BY <1>2, <2>1 DEF Write
    <3>2. /\ f \in [Users -> Nat]
          /\ \A u \in Users : f[u] = IF u = Who(c) THEN count.trial[u] + 1 ELSE count.trial[u]
      BY <1>1 DEF Counts
    <3> HIDE DEF f
    <3>3. count'.trial = f /\ count'.code = count.code /\ count'.grant = count.grant /\ count' \in Counts
      BY <1>1, <3>1, <3>2 DEF Counts
    <3> QED
      BY <2>1, <3>2, <3>3
  <2>2. CASE Op(c) = "grant"
    <3>1. count' = [count EXCEPT !.grant = @ + 1]
      BY <1>2, <2>2 DEF Write
    <3> QED
      BY <1>1, <2>2, <3>1 DEF Counts
  <2>3. CASE Op(c) \notin {"trial", "grant"}
    <3>1. count' = count
      BY <1>2, <2>3 DEF Write
    <3> QED
      BY <1>1, <2>3, <3>1 DEF Counts
  <2> QED
    BY <2>1, <2>2, <2>3
<1>3. ASSUME Join(c)
      PROVE  /\ count' \in Counts /\ count'.trial = count.trial /\ count'.grant = count.grant
             /\ \A k \in Codes :
                   count'.code[k] = IF k = Key(c) THEN count.code[k] + 1 ELSE count.code[k]
  <2>1. CASE Key(c) \in Codes
    <3> DEFINE f == [count.code EXCEPT ![Key(c)] = @ + 1]
    <3>1. count' = [count EXCEPT !.code = f]
      BY <1>3, <2>1 DEF Join
    <3>2. /\ f \in [Codes -> Nat]
          /\ \A k \in Codes : f[k] = IF k = Key(c) THEN count.code[k] + 1 ELSE count.code[k]
      BY <1>1, <2>1 DEF Counts
    <3> HIDE DEF f
    <3>3. /\ count'.code = f /\ count'.trial = count.trial
           /\ count'.grant = count.grant /\ count' \in Counts
      BY <1>1, <3>1, <3>2 DEF Counts
    <3> QED
      BY <3>2, <3>3
  <2>2. CASE Key(c) \notin Codes
    <3>1. count' = count
      BY <1>3, <2>2 DEF Join
    <3> QED
      BY <1>1, <2>2, <3>1
  <2> QED
    BY <2>1, <2>2
<1>4. ASSUME WriteUnanswered(c)
      PROVE  /\ count' \in Counts /\ count'.code = count.code /\ count'.trial = count.trial
             /\ count'.grant = IF Op(c) = "grant" THEN count.grant + 1 ELSE count.grant
  <2>1. CASE Op(c) = "grant"
    <3>1. count' = [count EXCEPT !.grant = @ + 1]
      BY <1>4, <2>1 DEF WriteUnanswered
    <3> QED
      BY <1>1, <2>1, <3>1 DEF Counts
  <2>2. CASE Op(c) # "grant"
    BY <1>1, <1>4, <2>2 DEF WriteUnanswered
  <2> QED
    BY <2>1, <2>2
<1> QED
  BY <1>2, <1>3, <1>4

(* Which steps count, which touch a code, which a token.                   *)
LEMMA OtherWrites ==
    ASSUME [SubscriptionNext]_vars
    PROVE  /\ (\A c \in Calls : ~Stores(c) /\ ~Join(c)) => count' = count
           /\ (\A c \in Calls : ~IssueCode(c) /\ ~LockCode(c)) => code' = code
           /\ (\A c \in Calls : ~TakeToken(c) /\ ~ReleaseToken(c)) => tried' = tried
           /\ \/ paid' = paid
              \/ \E u \in Users : paid' = paid \cup {u}
           /\ \/ batch' = batch
              \/ FindDue
              \/ ExpireDue /\ batch' = {}
<1>1. ASSUME NEW c \in Calls, Begin(c)
      PROVE  /\ UNCHANGED <<count, code, tried, batch>>
             /\ paid' = paid \/ \E u \in Users : paid' = paid \cup {u}
  BY <1>1 DEF Begin, Pay, Grant, Overwrite, Trial, Invite, Remove, Redeem, Enrol, Start, subButCall
<1>2. ASSUME NEW c \in Calls, Step(c)
      PROVE  /\ UNCHANGED <<paid, batch>>
             /\ ~Stores(c) /\ ~Join(c) => count' = count
             /\ ~IssueCode(c) /\ ~LockCode(c) => code' = code
             /\ ~TakeToken(c) /\ ~ReleaseToken(c) => tried' = tried
  BY <1>2 DEF Step, Stores, GrantClaim, GrantTakeOver, TakeToken, ReleaseToken, Read, Write,
     WriteFails, WriteUnanswered, Align, IssueCode, LockCode, Join, RemoveMember, Crash, subButCall
<1>3. (\E u \in Users : Revoke(u)) \/ Clock \/ UNCHANGED vars =>
         UNCHANGED <<count, code, tried, paid, batch>>
  BY DEF Revoke, Clock, vars, subVars
<1>4. FindDue \/ ExpireDue => UNCHANGED <<count, code, tried, paid>>
  BY DEF FindDue, ExpireDue
<1>5. ExpireDue => batch' = {}
  BY DEF ExpireDue
<1> QED
  BY <1>1, <1>2, <1>3, <1>4, <1>5 DEF SubscriptionNext

(* What becomes of a code and of a token.                                  *)
LEMMA CodeWrites ==
    ASSUME SubTypeOK, NEW c \in Calls
    PROVE  /\ IssueCode(c) => \E k \in Codes :
                 /\ code[k].owner = Nobody /\ code'[k].owner = Who(c) /\ code'[k].user = code[k].user
                 /\ \A j \in Codes \ {k} : code'[j] = code[j]
                 /\ code' \in [Codes -> [owner : Users \cup {Nobody}, user : Users \cup {Nobody}]]
           /\ LockCode(c) /\ Key(c) \in Codes =>
                 /\ \/ code' = code
                    \/ /\ To(c, "join") /\ code[Key(c)].user = Nobody
                       /\ code'[Key(c)].user = Who(c) /\ code'[Key(c)].owner = code[Key(c)].owner
                       /\ \A j \in Codes \ {Key(c)} : code'[j] = code[j]
                 /\ code' \in [Codes -> [owner : Users \cup {Nobody}, user : Users \cup {Nobody}]]
           /\ TakeToken(c) => tried' = tried \cup {Who(c)}
           /\ ReleaseToken(c) => tried' = tried \ {Who(c)}
<1> DEFINE CodeSet == [owner : Users \cup {Nobody}, user : Users \cup {Nobody}]
<1>1. code \in [Codes -> CodeSet] /\ Who(c) \in Users
  BY DEF SubTypeOK, Running, Who
<1>2. ASSUME IssueCode(c)
      PROVE  \E k \in Codes :
                /\ code[k].owner = Nobody /\ code'[k].owner = Who(c) /\ code'[k].user = code[k].user
                /\ \A j \in Codes \ {k} : code'[j] = code[j]
                /\ code' \in [Codes -> CodeSet]
  <2>1. PICK k \in Codes : code[k].owner = Nobody /\ code' = [code EXCEPT ![k].owner = Who(c)]
    BY <1>2 DEF IssueCode
  <2> DEFINE v == [code[k] EXCEPT !.owner = Who(c)]
  <2>2. code' = [code EXCEPT ![k] = v]
    BY <2>1
  <2>3. v \in CodeSet /\ v.owner = Who(c) /\ v.user = code[k].user
    BY <1>1
  <2>4. code'[k] = v /\ (\A j \in Codes \ {k} : code'[j] = code[j]) /\ code' \in [Codes -> CodeSet]
    BY <1>1, <2>2, <2>3
  <2> QED
    BY <2>1, <2>3, <2>4
<1>3. ASSUME LockCode(c), Key(c) \in Codes
      PROVE  /\ \/ code' = code
                \/ /\ To(c, "join") /\ code[Key(c)].user = Nobody
                   /\ code'[Key(c)].user = Who(c) /\ code'[Key(c)].owner = code[Key(c)].owner
                   /\ \A j \in Codes \ {Key(c)} : code'[j] = code[j]
             /\ code' \in [Codes -> CodeSet]
  <2> DEFINE v == [code[Key(c)] EXCEPT !.user = Who(c)]
  <2>1. CASE code[Key(c)].user # Nobody
    BY <1>1, <1>3, <2>1 DEF LockCode
  <2>2. CASE code[Key(c)].user = Nobody
    <3>1. code' = [code EXCEPT ![Key(c)] = v] /\ To(c, "join")
      BY <1>3, <2>2, StepMoves DEF LockCode
    <3>2. v \in CodeSet /\ v.user = Who(c) /\ v.owner = code[Key(c)].owner
      BY <1>1, <1>3
    <3>3. /\ code'[Key(c)] = v /\ \A j \in Codes \ {Key(c)} : code'[j] = code[j]
          /\ code' \in [Codes -> CodeSet]
      BY <1>1, <1>3, <3>1, <3>2
    <3> QED
      BY <2>2, <3>1, <3>2, <3>3
  <2> QED
    BY <2>1, <2>2
<1>4. /\ TakeToken(c) => tried' = tried \cup {Who(c)}
      /\ ReleaseToken(c) => tried' = tried \ {Who(c)}
  BY DEF TakeToken, ReleaseToken
<1> QED
  BY <1>2, <1>3, <1>4

(* Every step keeps the types and the places.                              *)
LEMMA TypeStep == TypeInv /\ [SubscriptionNext]_vars => TypeInv'
<1> SUFFICES ASSUME TypeInv, [SubscriptionNext]_vars
             PROVE  TypeInv'
  OBVIOUS
<1>1. /\ SubTypeOK /\ \A c \in Calls : Place(c) /\ Who(c) \in Users
  BY DEF TypeInv, SubTypeOK, Running, Who
<1>2. LockTypeOK'
  BY <1>1, LockSteps, LockTypes DEF SubTypeOK
<1>3. sub' \in [Users -> Subscriptions]
  BY <1>1, SubWrites, Written, WrittenByNone DEF Writing, SubTypeOK
<1>4. tried' \subseteq Users
  BY <1>1, OtherWrites, CodeWrites DEF SubTypeOK
<1>5. paid' \subseteq Users
  BY <1>1, OtherWrites DEF SubTypeOK
<1>6. batch' \subseteq Users
  <2>1. FindDue => batch' \subseteq Users
    BY DEF FindDue, Due
  <2> QED
    BY <1>1, <2>1, OtherWrites DEF SubTypeOK
<1>7. code' \in [Codes -> [owner : Users \cup {Nobody}, user : Users \cup {Nobody}]]
  <2>1. ASSUME NEW c \in Calls, LockCode(c)
        PROVE  Key(c) \in Codes
    BY <1>1, <2>1 DEF LockCode, Place, At
  <2> QED
    BY <1>1, <2>1, OtherWrites, CodeWrites DEF SubTypeOK
<1>8. count' \in Counts
  BY OtherWrites, Counted DEF TypeInv, Stores
<1>9. call' \in [Calls -> Running] /\ \A c \in Calls : Place(c)'
  <2>1. ASSUME NEW c \in Calls, Begin(c)
        PROVE  call' \in [Calls -> Running] /\ \A d \in Calls : Place(d)'
    <3>1. UNCHANGED lockVars
      BY <2>1 DEF Begin, Pay, Grant, Overwrite, Trial, Invite, Remove, Redeem, Enrol, Start
    <3>2. PICK u \in Users :
             \/ Pay(c, u) \/ Grant(c, u) \/ Overwrite(c, u) \/ Trial(c, u) \/ Invite(c, u) \/ Remove(c, u)
             \/ \E k \in Codes : Redeem(c, u, k)
             \/ \E o \in Users : Enrol(c, u, o)
      BY <2>1 DEF Begin
    <3>3. \/ Begun(c, "pay", u, Nobody, Nobody, "read")
          \/ Begun(c, "grant", u, Nobody, Nobody, "claim")
          \/ Begun(c, "overwrite", u, Nobody, Nobody, "write")
          \/ Begun(c, "trial", u, Nobody, Nobody, "token")
          \/ Begun(c, "invite", u, Nobody, Nobody, "issue")
          \/ Begun(c, "remove", u, Nobody, Nobody, "remove")
          \/ \E k \in Codes, o \in Users \ {u} : Begun(c, "redeem", u, o, k, "lock")
          \/ \E o \in Users \ {u} : Begun(c, "enrol", u, o, Nobody, "join")
      BY <1>1, <3>2, BeginMoves
    <3>4. Others(c)
      BY <3>3 DEF Begun
    <3>5. \A d \in Calls : Place(d)'
      BY <3>1, <3>3, BeginPlace
    <3> QED
      BY <3>4, <3>5 DEF Others
  <2>2. ASSUME NEW c \in Calls, Step(c)
        PROVE  call' \in [Calls -> Running] /\ \A d \in Calls : Place(d)'
    <3>1. Others(c)
      BY <1>1, <2>2, StepMoves DEF Step, To, Ends
    <3> QED
      BY <2>2, <3>1, StepPlace DEF Others
  <2>3. ASSUME UNCHANGED <<call, phase>>
        PROVE  call' \in [Calls -> Running] /\ \A d \in Calls : Place(d)'
    BY <1>1, <2>3 DEF SubTypeOK, Place, At, Op, Who, Key
  <2>4. (\E u \in Users : Revoke(u)) \/ FindDue \/ ExpireDue \/ Clock \/ UNCHANGED vars =>
           UNCHANGED <<call, phase>>
    BY DEF Revoke, FindDue, ExpireDue, Clock, Tick, Expire, vars, subVars, lockVars
  <2> QED
    BY <2>1, <2>2, <2>3, <2>4 DEF SubscriptionNext
<1> QED
  BY <1>2, <1>3, <1>4, <1>5, <1>6, <1>7, <1>8, <1>9 DEF TypeInv, SubTypeOK

(* Type correctness: every document, record and counter has its type in    *)
(* every reachable state, under any interleaving of requests, jobs and     *)
(* crashes.                                                                *)
THEOREM SubscriptionTypes == SubscriptionSpec => []SubTypeOK
<1>1. TypeInv => SubTypeOK
  BY DEF TypeInv
<1> QED
  BY <1>1, TypeStart, TypeStep, PTL DEF SubscriptionSpec

(* op_claim keeps two manual grants of one key apart (sub_activate behind  *)
(* a claim), as long as a claim outlives what it protects and the database *)
(* answers.                                                                *)
THEOREM GrantsExclude ==
    ASSUME Timely, ~Degraded
    PROVE  SubscriptionSpec => []Mutex
<1>1. SubscriptionInit => LockInv
  BY LockAssumption DEF SubscriptionInit, LockInit, LockInv, LockTypeOK, Held, Mutex
<1>2. TypeInv /\ LockInv /\ [SubscriptionNext]_vars => LockInv'
  BY LockSteps, LockStep DEF TypeInv
<1>3. LockInv => Mutex
  BY DEF LockInv
<1> QED
  BY <1>1, <1>2, <1>3, TypeStart, TypeStep, PTL DEF SubscriptionSpec

-----------------------------------------------------------------------------
(* A step of one call leaves the records of the others alone; any other    *)
(* step leaves all of them alone.                                          *)
LEMMA OneCall ==
    ASSUME TypeInv, [SubscriptionNext]_vars
    PROVE  \/ \E c \in Calls : (Begin(c) \/ Step(c)) /\ Others(c)
           \/ /\ call' = call
              /\ (\E u \in Users : Revoke(u)) \/ FindDue \/ ExpireDue \/ Clock \/ UNCHANGED vars
<1>1. ASSUME NEW c \in Calls, Begin(c)
      PROVE  Others(c)
  BY <1>1, BeginMoves DEF Begin, Begun, TypeInv
<1>2. ASSUME NEW c \in Calls, Step(c)
      PROVE  Others(c)
  BY <1>2, StepMoves DEF Step, To, Ends, TypeInv
<1>3. (\E u \in Users : Revoke(u)) \/ FindDue \/ ExpireDue \/ Clock \/ UNCHANGED vars => call' = call
  BY DEF Revoke, FindDue, ExpireDue, Clock, vars, subVars
<1> QED
  BY <1>1, <1>2, <1>3 DEF SubscriptionNext

(* Trials.                                                                 *)
LEMMA TrialKept ==
    ASSUME TypeInv, TrialInv, NEW c \in Calls, Others(c),
           count'.trial = count.trial, tried' = tried,
           \A u \in Users :
              /\ Holds(c, u)' => Holds(c, u)
              /\ (Op(c) = "trial" /\ Who(c) = u /\ At(c, "align"))' =>
                    Op(c) = "trial" /\ Who(c) = u /\ At(c, "align")
    PROVE  TrialInv'
<1>1. ASSUME NEW u \in Users, NEW d \in Calls
      PROVE  /\ Holds(d, u)' => Holds(d, u)
             /\ (Op(d) = "trial" /\ Who(d) = u /\ At(d, "align"))' =>
                   Op(d) = "trial" /\ Who(d) = u /\ At(d, "align")
  BY DEF Others, Holds, Op, Who, At
<1> HIDE DEF Holds
<1>2. ASSUME NEW u \in Users
      PROVE  /\ count'.trial[u] <= 1
             /\ count'.trial[u] = 1 => u \in tried'
             /\ \A d \in Calls : Holds(d, u)' =>
                   /\ u \in tried' /\ count'.trial[u] = 0
                   /\ \A e \in Calls : Holds(e, u)' => e = d
             /\ \A d \in Calls : (Op(d) = "trial" /\ Who(d) = u /\ At(d, "align"))' =>
                   count'.trial[u] = 1
  BY <1>1 DEF TrialInv
<1> QED
  BY <1>2 DEF TrialInv, Op, Who, At

(* trial_claim's conditional update lets one call through at a time, and   *)
(* none after days have been given.                                        *)
LEMMA TrialStep == TypeInv /\ TrialInv /\ [SubscriptionNext]_vars => TrialInv'
<1> SUFFICES ASSUME TypeInv, TrialInv, [SubscriptionNext]_vars
             PROVE  TrialInv'
  OBVIOUS
<1>1. SubTypeOK /\ count \in Counts /\ \A c \in Calls : Place(c) /\ Who(c) \in Users
  BY DEF TypeInv, SubTypeOK, Running, Who
<1>2. ASSUME UNCHANGED <<call, count, tried>>
      PROVE  TrialInv'
  BY <1>2 DEF TrialInv, Holds, Op, Who, At
<1>3. ASSUME NEW c \in Calls, Begin(c), Others(c)
      PROVE  TrialInv'
  <2>1. count' = count /\ tried' = tried
    BY <1>3 DEF Begin, Pay, Grant, Overwrite, Trial, Invite, Remove, Redeem, Enrol, Start, subButCall
  <2>2. /\ call'[c].at # "align"
        /\ call'[c].op = "trial" => call'[c].at = "token"
    BY <1>1, <1>3, BeginMoves DEF Begin, Begun
  <2> QED
    BY <1>3, <2>1, <2>2, TrialKept DEF Holds, At, Op
<1>4. ASSUME NEW c \in Calls, TakeToken(c), To(c, "read"), Who(c) \notin tried
      PROVE  TrialInv'
  <2>1. count' = count /\ tried' = tried \cup {Who(c)}
    BY <1>4 DEF TakeToken
  <2>2. \A d \in Calls : ~Holds(d, Who(c))
    BY <1>1, <1>4 DEF TrialInv
  <2>3. ASSUME NEW u \in Users, NEW d \in Calls
        PROVE  /\ Holds(d, u)' => Holds(d, u) \/ (d = c /\ u = Who(c))
               /\ (Op(d) = "trial" /\ Who(d) = u /\ At(d, "align"))' =>
                     Op(d) = "trial" /\ Who(d) = u /\ At(d, "align")
    BY <1>4 DEF To, Others, Keeps, Holds, At, Op, Who
  <2>4. count.trial[Who(c)] = 0
    BY <1>1, <1>4 DEF TrialInv, Counts
  <2>5. ASSUME NEW u \in Users
        PROVE  /\ count'.trial[u] <= 1
               /\ count'.trial[u] = 1 => u \in tried'
               /\ \A d \in Calls : Holds(d, u)' =>
                     /\ u \in tried' /\ count'.trial[u] = 0
                     /\ \A e \in Calls : Holds(e, u)' => e = d
               /\ \A d \in Calls : (Op(d) = "trial" /\ Who(d) = u /\ At(d, "align"))' =>
                     count'.trial[u] = 1
    BY <2>1, <2>2, <2>3, <2>4 DEF TrialInv
  <2> QED
    BY <2>5 DEF TrialInv, Op, Who, At
<1>5. ASSUME NEW c \in Calls, ReleaseToken(c), Others(c)
      PROVE  TrialInv'
  <2>1. count' = count /\ tried' = tried \ {Who(c)} /\ Holds(c, Who(c)) /\ call'[c] = Idle
    BY <1>1, <1>5, StepMoves DEF ReleaseToken, Holds, Place, At, Ends
  <2>2. count.trial[Who(c)] = 0 /\ \A d \in Calls \ {c} : ~Holds(d, Who(c))
    BY <1>1, <2>1 DEF TrialInv
  <2>3. ASSUME NEW u \in Users, NEW d \in Calls
        PROVE  /\ Holds(d, u)' => Holds(d, u) /\ d # c
               /\ (Op(d) = "trial" /\ Who(d) = u /\ At(d, "align"))' =>
                     Op(d) = "trial" /\ Who(d) = u /\ At(d, "align")
    BY <1>5, <2>1, IdleRuns DEF Others, Holds, At, Op, Who
  <2>4. ASSUME NEW u \in Users
        PROVE  /\ count'.trial[u] <= 1
               /\ count'.trial[u] = 1 => u \in tried'
               /\ \A d \in Calls : Holds(d, u)' =>
                     /\ u \in tried' /\ count'.trial[u] = 0
                     /\ \A e \in Calls : Holds(e, u)' => e = d
               /\ \A d \in Calls : (Op(d) = "trial" /\ Who(d) = u /\ At(d, "align"))' =>
                     count'.trial[u] = 1
    BY <2>1, <2>2, <2>3 DEF TrialInv
  <2> QED
    BY <2>4 DEF TrialInv, Op, Who, At
<1>6. ASSUME NEW c \in Calls, Write(c), Op(c) = "trial"
      PROVE  TrialInv'
  <2>1. Holds(c, Who(c)) /\ To(c, "align") /\ tried' = tried
    BY <1>1, <1>6, StepMoves DEF Write, Holds, At
  <2>2. /\ count.trial[Who(c)] = 0 /\ Who(c) \in tried /\ \A d \in Calls \ {c} : ~Holds(d, Who(c))
    BY <1>1, <2>1 DEF TrialInv
  <2>3. \A u \in Users : count'.trial[u] = IF u = Who(c) THEN 1 ELSE count.trial[u]
    BY <1>1, <1>6, <2>2, Counted
  <2>4. ASSUME NEW u \in Users, NEW d \in Calls
        PROVE  /\ Holds(d, u)' => Holds(d, u) /\ d # c
               /\ (Op(d) = "trial" /\ Who(d) = u /\ At(d, "align"))' =>
                     \/ Op(d) = "trial" /\ Who(d) = u /\ At(d, "align")
                     \/ u = Who(c)
    BY <2>1 DEF To, Others, Keeps, Holds, At, Op, Who
  <2>5. ASSUME NEW u \in Users
        PROVE  /\ count'.trial[u] <= 1
               /\ count'.trial[u] = 1 => u \in tried'
               /\ \A d \in Calls : Holds(d, u)' =>
                     /\ u \in tried' /\ count'.trial[u] = 0
                     /\ \A e \in Calls : Holds(e, u)' => e = d
               /\ \A d \in Calls : (Op(d) = "trial" /\ Who(d) = u /\ At(d, "align"))' =>
                     count'.trial[u] = 1
    BY <2>1, <2>2, <2>3, <2>4 DEF TrialInv
  <2> QED
    BY <2>5 DEF TrialInv, Op, Who, At
<1>7. ASSUME NEW c \in Calls, Step(c), Others(c),
             ~(TakeToken(c) /\ To(c, "read")), ~ReleaseToken(c), ~(Write(c) /\ Op(c) = "trial")
      PROVE  TrialInv'
  <2>1. tried' = tried
    <3>1. CASE TakeToken(c)
      <4>1. ~(Goto(c, "read") /\ Who(c) \notin tried)
        BY <1>1, <1>7, <3>1, StepMoves DEF SubTypeOK, Ends, To
      <4> QED
        BY <3>1, <4>1 DEF TakeToken
    <3>2. CASE ~TakeToken(c)
      BY <1>7, <3>2 DEF Step, GrantClaim, GrantTakeOver, Read, Write, WriteFails, WriteUnanswered, Align,
         IssueCode, LockCode, Join, RemoveMember, Crash, subButCall
    <3> QED
      BY <3>1, <3>2
  <2>2. count'.trial = count.trial
    <3>1. CASE Write(c)
      <4>1. CASE Op(c) = "grant"
        <5>1. count' = [count EXCEPT !.grant = @ + 1]
          BY <1>7, <3>1, <4>1 DEF Write
        <5> QED
          BY <1>1, <5>1 DEF Counts
      <4>2. CASE Op(c) # "grant"
        BY <1>7, <3>1, <4>2 DEF Write
      <4> QED
        BY <4>1, <4>2
    <3>2. CASE WriteUnanswered(c) \/ Join(c)
      BY <3>2, Counted
    <3>3. CASE ~Write(c) /\ ~WriteUnanswered(c) /\ ~Join(c)
      BY <1>7, <3>3 DEF Step, GrantClaim, GrantTakeOver, TakeToken, Read, WriteFails, Align, IssueCode,
         LockCode, RemoveMember, Crash, subButCall
    <3> QED
      BY <3>1, <3>2, <3>3
  <2>3. ASSUME NEW u \in Users
        PROVE  /\ Holds(c, u)' => Holds(c, u)
               /\ (Op(c) = "trial" /\ Who(c) = u /\ At(c, "align"))' =>
                     Op(c) = "trial" /\ Who(c) = u /\ At(c, "align")
    <3>1. CASE Ends(c)
      BY <3>1, IdleRuns DEF Ends, Holds, Op, At
    <3>2. CASE ~Ends(c)
      <4>1. \/ Op(c) # "trial" /\ Keeps(c)
            \/ At(c, "read") /\ To(c, "write")
            \/ At(c, "write") /\ To(c, "untoken")
        BY <1>1, <1>7, <3>2, StepMoves DEF Step, To, Place, At
      <4> QED
        BY <4>1 DEF To, Keeps, Holds, Op, Who, At
    <3> QED
      BY <3>1, <3>2
  <2> QED
    BY <1>7, <2>1, <2>2, <2>3, TrialKept
<1>8. (\E u \in Users : Revoke(u)) \/ FindDue \/ ExpireDue \/ Clock \/ UNCHANGED vars =>
         UNCHANGED <<call, count, tried>>
  BY DEF Revoke, FindDue, ExpireDue, Clock, vars, subVars
<1>9. \A c \in Calls : TakeToken(c) /\ To(c, "read") => Who(c) \notin tried
  BY <1>1, StepMoves, IdleRuns DEF To, Ends
<1> QED
  BY <1>2, <1>3, <1>4, <1>5, <1>6, <1>7, <1>8, <1>9, OneCall

-----------------------------------------------------------------------------
(* Codes.  A subscription changes family by a payment, a grant, a trial or *)
(* by joining one.                                                         *)
LEMMA FamilyKept ==
    ASSUME TypeInv, [SubscriptionNext]_vars, NEW u \in Users,
           \A c \in Calls : Who(c) = u => ~Stores(c) /\ ~Join(c)
    PROVE  sub'[u].owner = sub[u].owner /\ sub'[u].via = sub[u].via
<1>1. /\ SubTypeOK /\ sub[u] \in Subscriptions
      /\ \A c \in Calls : Place(c) /\ Who(c) \in Users
  BY DEF TypeInv, SubTypeOK, Running, Who
<1>2. ASSUME NEW c \in Calls, Stores(c) \/ Join(c)
      PROVE  sub'[u] = sub[u]
  BY <1>1, <1>2, Written
<1>3. ASSUME NEW c \in Calls, Align(c)
      PROVE  sub'[u].owner = sub[u].owner /\ sub'[u].via = sub[u].via
  <2>1. sub'[u] = sub[u] \/ sub'[u] = [sub[u] EXCEPT !.end = call[c].end]
    BY <1>1, <1>3, Written
  <2> QED
    BY <1>1, <2>1 DEF Subscriptions
<1>4. ASSUME NEW s, sub'[u] = sub[u] \/ sub'[u] = [sub[u] EXCEPT !.st = s]
      PROVE  sub'[u].owner = sub[u].owner /\ sub'[u].via = sub[u].via
  BY <1>1, <1>4 DEF Subscriptions
<1>5. ASSUME NEW c \in Calls, RemoveMember(c)
      PROVE  sub'[u].owner = sub[u].owner /\ sub'[u].via = sub[u].via
  BY <1>1, <1>4, <1>5, Written
<1>6. ASSUME (\E v \in Users : Revoke(v)) \/ ExpireDue
      PROVE  sub'[u].owner = sub[u].owner /\ sub'[u].via = sub[u].via
  BY <1>1, <1>4, <1>6, WrittenByNone
<1> QED
  BY <1>2, <1>3, <1>5, <1>6, SubWrites DEF Writing

(* A step that neither writes a code nor begins to use one.                *)
LEMMA CodeKept ==
    ASSUME TypeInv, CodeInv, code' = code, count'.code = count.code,
           \A c \in Calls : call'[c] = call[c] \/ call'[c].at \notin {"lock", "join"}
                                             \/ call'[c].key = Nobody,
           \A u \in Users : \/ sub'[u].via = Nobody
                            \/ sub'[u].owner = sub[u].owner /\ sub'[u].via = sub[u].via
    PROVE  CodeInv'
<1>1. Nobody \notin Codes
  BY SubscriptionAssumption
<1>2. ASSUME NEW k \in Codes, NEW d \in Calls
      PROVE  /\ Locked(d, k)' => Locked(d, k) /\ call'[d] = call[d]
             /\ (At(d, "lock") /\ Key(d) = k)' => At(d, "lock") /\ Key(d) = k /\ call'[d] = call[d]
  BY <1>1 DEF Locked, Key, At
<1>3. ASSUME NEW k \in Codes
      PROVE  /\ count'.code[k] <= 1
             /\ code'[k].user = Nobody => count'.code[k] = 0
             /\ \A d \in Calls : Locked(d, k)' =>
                   /\ code'[k].owner = call'[d].own /\ code'[k].user = call'[d].who
                   /\ count'.code[k] = 0
                   /\ \A e \in Calls : Locked(e, k)' => e = d
             /\ \A d \in Calls : (At(d, "lock") /\ Key(d) = k)' => code'[k].owner = call'[d].own
             /\ \A u \in Users : sub'[u].via = k =>
                   sub'[u].owner # Nobody /\ code'[k].owner = sub'[u].owner /\ code'[k].user = u
  <2>1. /\ count'.code[k] <= 1
        /\ code'[k].user = Nobody => count'.code[k] = 0
    BY DEF CodeInv
  <2>2. ASSUME NEW d \in Calls, Locked(d, k)'
        PROVE  /\ code'[k].owner = call'[d].own /\ code'[k].user = call'[d].who
               /\ count'.code[k] = 0
               /\ \A e \in Calls : Locked(e, k)' => e = d
    BY <1>2, <2>2 DEF CodeInv, Who
  <2>3. ASSUME NEW d \in Calls, (At(d, "lock") /\ Key(d) = k)'
        PROVE  code'[k].owner = call'[d].own
    BY <1>2, <2>3 DEF CodeInv
  <2>4. ASSUME NEW u \in Users, sub'[u].via = k
        PROVE  sub'[u].owner # Nobody /\ code'[k].owner = sub'[u].owner /\ code'[k].user = u
    BY <1>1, <2>4 DEF CodeInv
  <2> QED
    BY <2>1, <2>2, <2>3, <2>4
<1> QED
  BY <1>3 DEF CodeInv, Who, Key, At

(* So does the lock of a code in family_redeem.                            *)
LEMMA CodeStep == TypeInv /\ CodeInv /\ [SubscriptionNext]_vars => CodeInv'
<1> SUFFICES ASSUME TypeInv, CodeInv, [SubscriptionNext]_vars
             PROVE  CodeInv'
  OBVIOUS
<1>1. /\ SubTypeOK /\ count \in Counts /\ Nobody \notin Codes /\ Nobody \notin Users
      /\ \A c \in Calls : Place(c) /\ Who(c) \in Users
  BY SubscriptionAssumption DEF TypeInv, SubTypeOK, Running, Who
<1>2. ASSUME (\E u \in Users : Revoke(u)) \/ FindDue \/ ExpireDue \/ Clock \/ UNCHANGED vars
      PROVE  CodeInv'
  <2>1. UNCHANGED <<call, code, count>>
    BY <1>2 DEF Revoke, FindDue, ExpireDue, Clock, vars, subVars
  <2>2. \A c \in Calls : ~Stores(c) /\ ~Join(c)
    <3>1. ASSUME NEW c \in Calls, Stores(c) \/ Join(c)
          PROVE  call'[c] # call[c]
      BY <1>1, <3>1, StepMoves, IdleRuns DEF Stores, To, Ends, At
    <3> QED
      BY <2>1, <3>1
  <2> QED
    BY <2>1, <2>2, CodeKept, FamilyKept
<1>3. ASSUME NEW c \in Calls, Begin(c), Others(c)
      PROVE  CodeInv'
  <2>1. UNCHANGED <<code, count, sub>>
    BY <1>3 DEF Begin, Pay, Grant, Overwrite, Trial, Invite, Remove, Redeem, Enrol, Start, subButCall
  <2>2. ASSUME NEW u \in Users,
               \/ Pay(c, u) \/ Grant(c, u) \/ Overwrite(c, u) \/ Trial(c, u) \/ Invite(c, u) \/ Remove(c, u)
               \/ \E o \in Users : Enrol(c, u, o)
        PROVE  CodeInv'
    <3>1. call'[c].at \notin {"lock", "join"} \/ call'[c].key = Nobody
      BY <1>1, <2>2, BeginMoves DEF Begun
    <3> QED
      BY <1>3, <2>1, <3>1, CodeKept DEF Others
  <2>3. ASSUME NEW u \in Users, NEW k \in Codes, Redeem(c, u, k)
        PROVE  CodeInv'
    <3>1. Begun(c, "redeem", u, code[k].owner, k, "lock")
      BY <1>1, <2>3, BeginMoves
    <3>2. ASSUME NEW j \in Codes, NEW d \in Calls
          PROVE  /\ Locked(d, j)' => Locked(d, j) /\ call'[d] = call[d]
                 /\ (At(d, "lock") /\ Key(d) = j)' =>
                       \/ At(d, "lock") /\ Key(d) = j /\ call'[d] = call[d]
                       \/ j = k /\ call'[d].own = code[k].owner
      BY <3>1 DEF Begun, Others, Locked, Key, At
    <3>3. ASSUME NEW j \in Codes
          PROVE  /\ count'.code[j] <= 1
                 /\ code'[j].user = Nobody => count'.code[j] = 0
                 /\ \A d \in Calls : Locked(d, j)' =>
                       /\ code'[j].owner = call'[d].own /\ code'[j].user = call'[d].who
                       /\ count'.code[j] = 0
                       /\ \A e \in Calls : Locked(e, j)' => e = d
                 /\ \A d \in Calls : (At(d, "lock") /\ Key(d) = j)' => code'[j].owner = call'[d].own
                 /\ \A v \in Users : sub'[v].via = j =>
                       sub'[v].owner # Nobody /\ code'[j].owner = sub'[v].owner /\ code'[j].user = v
      <4>1. ASSUME NEW d \in Calls, Locked(d, j)'
            PROVE  /\ code'[j].owner = call'[d].own /\ code'[j].user = call'[d].who
                   /\ count'.code[j] = 0
                   /\ \A e \in Calls : Locked(e, j)' => e = d
        BY <2>1, <3>2, <4>1 DEF CodeInv, Who
      <4>2. ASSUME NEW d \in Calls, (At(d, "lock") /\ Key(d) = j)'
            PROVE  code'[j].owner = call'[d].own
        BY <2>1, <3>2, <4>2 DEF CodeInv
      <4>3. /\ count'.code[j] <= 1
            /\ code'[j].user = Nobody => count'.code[j] = 0
            /\ \A v \in Users : sub'[v].via = j =>
                  sub'[v].owner # Nobody /\ code'[j].owner = sub'[v].owner /\ code'[j].user = v
        BY <2>1 DEF CodeInv
      <4> QED
        BY <4>1, <4>2, <4>3
    <3> QED
      BY <3>3 DEF CodeInv, Who, Key, At
  <2> QED
    BY <1>3, <2>2, <2>3 DEF Begin
<1>4. ASSUME NEW c \in Calls, IssueCode(c), Others(c)
      PROVE  CodeInv'
  <2>1. count' = count /\ call'[c] = Idle /\ \A u \in Users : sub'[u] = sub[u]
    BY <1>1, <1>4, StepMoves DEF IssueCode, Ends
  <2>2. PICK k \in Codes :
           /\ code[k].owner = Nobody /\ code'[k].owner = Who(c) /\ code'[k].user = code[k].user
           /\ \A j \in Codes \ {k} : code'[j] = code[j]
    BY <1>1, <1>4, CodeWrites
  <2>3. ASSUME NEW j \in Codes, NEW d \in Calls
        PROVE  /\ Locked(d, j)' => Locked(d, j) /\ call'[d] = call[d] /\ j # k
               /\ (At(d, "lock") /\ Key(d) = j)' =>
                     At(d, "lock") /\ Key(d) = j /\ call'[d] = call[d] /\ j # k
    <3>1. /\ Locked(d, j)' => Locked(d, j) /\ call'[d] = call[d]
          /\ (At(d, "lock") /\ Key(d) = j)' => At(d, "lock") /\ Key(d) = j /\ call'[d] = call[d]
      BY <1>4, <2>1, IdleRuns DEF Others, Locked, Key, At
    <3>2. (Locked(d, j) \/ At(d, "lock")) => call[d].own # Nobody
      BY <1>1 DEF Locked, Place, At
    <3>3. Locked(d, j) \/ (At(d, "lock") /\ Key(d) = j) => code[j].owner = call[d].own
      BY DEF CodeInv
    <3> QED
      BY <2>2, <3>1, <3>2, <3>3
  <2>4. ASSUME NEW j \in Codes
        PROVE  /\ count'.code[j] <= 1
               /\ code'[j].user = Nobody => count'.code[j] = 0
               /\ \A d \in Calls : Locked(d, j)' =>
                     /\ code'[j].owner = call'[d].own /\ code'[j].user = call'[d].who
                     /\ count'.code[j] = 0
                     /\ \A e \in Calls : Locked(e, j)' => e = d
               /\ \A d \in Calls : (At(d, "lock") /\ Key(d) = j)' => code'[j].owner = call'[d].own
               /\ \A v \in Users : sub'[v].via = j =>
                     sub'[v].owner # Nobody /\ code'[j].owner = sub'[v].owner /\ code'[j].user = v
    <3>1. ASSUME NEW d \in Calls, Locked(d, j)'
          PROVE  /\ code'[j].owner = call'[d].own /\ code'[j].user = call'[d].who
                 /\ count'.code[j] = 0
                 /\ \A e \in Calls : Locked(e, j)' => e = d
      BY <2>1, <2>2, <2>3, <3>1 DEF CodeInv, Who
    <3>2. ASSUME NEW d \in Calls, (At(d, "lock") /\ Key(d) = j)'
          PROVE  code'[j].owner = call'[d].own
      BY <2>2, <2>3, <3>2 DEF CodeInv
    <3>3. /\ count'.code[j] <= 1
          /\ code'[j].user = Nobody => count'.code[j] = 0
      BY <2>1, <2>2 DEF CodeInv
    <3>4. ASSUME NEW v \in Users, sub'[v].via = j
          PROVE  sub'[v].owner # Nobody /\ code'[j].owner = sub'[v].owner /\ code'[j].user = v
      <4>1. j # k
        BY <2>1, <2>2, <3>4 DEF CodeInv
      <4> QED
        BY <2>1, <2>2, <3>4, <4>1 DEF CodeInv
    <3> QED
      BY <3>1, <3>2, <3>3, <3>4
  <2> QED
    BY <2>4 DEF CodeInv, Who, Key, At
<1>5. ASSUME NEW c \in Calls, LockCode(c), To(c, "join")
      PROVE  CodeInv'
  <2> DEFINE k == Key(c)
  <2>1. /\ At(c, "lock") /\ k \in Codes /\ code[k].user = Nobody /\ count' = count
        /\ \A u \in Users : sub'[u] = sub[u]
    BY <1>1, <1>5, StepMoves, IdleRuns DEF LockCode, Place, At, To, Ends
  <2>2. /\ code'[k].user = Who(c) /\ code'[k].owner = code[k].owner
        /\ \A j \in Codes \ {k} : code'[j] = code[j]
    BY <1>1, <1>5, <2>1 DEF LockCode, SubTypeOK
  <2>3. count.code[k] = 0 /\ \A d \in Calls : ~Locked(d, k)
    BY <1>1, <2>1 DEF CodeInv
  <2>4. code[k].owner = call[c].own
    BY <2>1 DEF CodeInv
  <2> HIDE DEF k
  <2>5. ASSUME NEW j \in Codes, NEW d \in Calls
        PROVE  /\ Locked(d, j)' => \/ Locked(d, j) /\ call'[d] = call[d] /\ j # k
                                   \/ d = c /\ j = k
               /\ (At(d, "lock") /\ Key(d) = j)' =>
                     At(d, "lock") /\ Key(d) = j /\ call'[d] = call[d]
    BY <1>5, <2>3 DEF To, Others, Keeps, Locked, Key, At, k
  <2>6. call'[c].own = call[c].own /\ call'[c].who = Who(c)
    BY <1>5 DEF To, Keeps
  <2>7. ASSUME NEW j \in Codes
        PROVE  /\ count'.code[j] <= 1
               /\ code'[j].user = Nobody => count'.code[j] = 0
               /\ \A d \in Calls : Locked(d, j)' =>
                     /\ code'[j].owner = call'[d].own /\ code'[j].user = call'[d].who
                     /\ count'.code[j] = 0
                     /\ \A e \in Calls : Locked(e, j)' => e = d
               /\ \A d \in Calls : (At(d, "lock") /\ Key(d) = j)' => code'[j].owner = call'[d].own
               /\ \A v \in Users : sub'[v].via = j =>
                     sub'[v].owner # Nobody /\ code'[j].owner = sub'[v].owner /\ code'[j].user = v
    <3>1. ASSUME NEW d \in Calls, Locked(d, j)'
          PROVE  /\ code'[j].owner = call'[d].own /\ code'[j].user = call'[d].who
                 /\ count'.code[j] = 0
                 /\ \A e \in Calls : Locked(e, j)' => e = d
      <4>1. CASE j = k
        BY <2>1, <2>2, <2>3, <2>4, <2>5, <2>6, <3>1, <4>1
      <4>2. CASE j # k
        BY <2>1, <2>2, <2>5, <3>1, <4>2 DEF CodeInv, Who
      <4> QED
        BY <4>1, <4>2
    <3>2. ASSUME NEW d \in Calls, (At(d, "lock") /\ Key(d) = j)'
          PROVE  code'[j].owner = call'[d].own
      BY <2>2, <2>5, <3>2 DEF CodeInv
    <3>3. /\ count'.code[j] <= 1
          /\ code'[j].user = Nobody => count'.code[j] = 0
      BY <1>1, <2>1, <2>2 DEF CodeInv
    <3>4. ASSUME NEW v \in Users, sub'[v].via = j
          PROVE  sub'[v].owner # Nobody /\ code'[j].owner = sub'[v].owner /\ code'[j].user = v
      <4>1. j # k
        BY <1>1, <2>1, <3>4 DEF CodeInv
      <4> QED
        BY <2>1, <2>2, <3>4, <4>1 DEF CodeInv
    <3> QED
      BY <3>1, <3>2, <3>3, <3>4
  <2> QED
    BY <2>7 DEF CodeInv, Who, Key, At
<1>6. ASSUME NEW c \in Calls, Join(c), Others(c)
      PROVE  CodeInv'
  <2> DEFINE k == Key(c)
             w == Who(c)
  <2>1. /\ code' = code /\ call'[c] = Idle /\ At(c, "join") /\ call[c].own \in Users
        /\ \A j \in Codes : count'.code[j] = IF j = k THEN count.code[j] + 1 ELSE count.code[j]
    BY <1>1, <1>6, StepMoves, Counted DEF Join, Ends, Place, At
  <2>2. /\ sub'[w].owner = call[c].own /\ sub'[w].via = k
        /\ \A u \in Users \ {w} : sub'[u] = sub[u]
    <3>1. /\ sub'[w] = [st |-> "active", end |-> call[c].end, owner |-> call[c].own, via |-> k,
                        plan |-> TRUE]
          /\ \A u \in Users \ {w} : sub'[u] = sub[u]
      BY <1>1, <1>6, Written
    <3> QED
      BY <3>1
  <2>3. k \in Codes => /\ code[k].owner = call[c].own /\ code[k].user = w /\ count.code[k] = 0
                       /\ \A d \in Calls \ {c} : ~Locked(d, k)
    BY <2>1 DEF CodeInv, Locked
  <2> HIDE DEF k, w
  <2>4. ASSUME NEW j \in Codes, NEW d \in Calls
        PROVE  /\ Locked(d, j)' => Locked(d, j) /\ call'[d] = call[d] /\ j # k
               /\ (At(d, "lock") /\ Key(d) = j)' =>
                     At(d, "lock") /\ Key(d) = j /\ call'[d] = call[d]
    BY <1>6, <2>1, <2>3, IdleRuns DEF Others, Locked, Key, At
  <2>5. ASSUME NEW j \in Codes
        PROVE  /\ count'.code[j] <= 1
               /\ code'[j].user = Nobody => count'.code[j] = 0
               /\ \A d \in Calls : Locked(d, j)' =>
                     /\ code'[j].owner = call'[d].own /\ code'[j].user = call'[d].who
                     /\ count'.code[j] = 0
                     /\ \A e \in Calls : Locked(e, j)' => e = d
               /\ \A d \in Calls : (At(d, "lock") /\ Key(d) = j)' => code'[j].owner = call'[d].own
               /\ \A v \in Users : sub'[v].via = j =>
                     sub'[v].owner # Nobody /\ code'[j].owner = sub'[v].owner /\ code'[j].user = v
    <3>1. ASSUME NEW d \in Calls, Locked(d, j)'
          PROVE  /\ code'[j].owner = call'[d].own /\ code'[j].user = call'[d].who
                 /\ count'.code[j] = 0
                 /\ \A e \in Calls : Locked(e, j)' => e = d
      BY <2>1, <2>4, <3>1 DEF CodeInv, Who
    <3>2. ASSUME NEW d \in Calls, (At(d, "lock") /\ Key(d) = j)'
          PROVE  code'[j].owner = call'[d].own
      BY <2>1, <2>4, <3>2 DEF CodeInv
    <3>3. /\ count'.code[j] <= 1
          /\ code'[j].user = Nobody => count'.code[j] = 0
      <4>1. w # Nobody
        BY <1>1 DEF w
      <4> QED
        BY <2>1, <2>3, <4>1 DEF CodeInv
    <3>4. ASSUME NEW v \in Users, sub'[v].via = j
          PROVE  sub'[v].owner # Nobody /\ code'[j].owner = sub'[v].owner /\ code'[j].user = v
      <4>1. CASE v = w
        BY <1>1, <2>1, <2>2, <2>3, <3>4, <4>1
      <4>2. CASE v # w
        BY <2>1, <2>2, <3>4, <4>2 DEF CodeInv
      <4> QED
        BY <4>1, <4>2
    <3> QED
      BY <3>1, <3>2, <3>3, <3>4
  <2> QED
    BY <2>5 DEF CodeInv, Who, Key, At
<1>7. ASSUME NEW c \in Calls, Step(c), Others(c),
             ~IssueCode(c), ~(LockCode(c) /\ To(c, "join")), ~Join(c)
      PROVE  CodeInv'
  <2>1. code' = code
    <3>1. CASE LockCode(c)
      <4>1. code[Key(c)].user # Nobody
        BY <1>1, <1>7, <3>1, StepMoves
      <4> QED
        BY <3>1, <4>1 DEF LockCode
    <3>2. CASE ~LockCode(c)
      BY <1>7, <3>2 DEF Step, GrantClaim, GrantTakeOver, TakeToken, ReleaseToken, Read, Write, WriteFails,
         WriteUnanswered, Align, RemoveMember, Crash, subButCall
    <3> QED
      BY <3>1, <3>2
  <2>2. count'.code = count.code
    <3>1. CASE Stores(c)
      BY <3>1, Counted DEF Stores
    <3>2. CASE ~Stores(c)
      BY <1>7, <3>2 DEF Step, Stores, GrantClaim, GrantTakeOver, TakeToken, ReleaseToken, Read, LockCode,
         WriteFails, Align, RemoveMember, Crash, subButCall
    <3> QED
      BY <3>1, <3>2
  <2>3. call'[c].at \notin {"lock", "join"}
    BY <1>1, <1>7, StepMoves, IdleRuns DEF Step, To, Ends
  <2>4. ASSUME NEW u \in Users
        PROVE  \/ sub'[u].via = Nobody
               \/ sub'[u].owner = sub[u].owner /\ sub'[u].via = sub[u].via
    <3>1. \A d \in Calls \ {c} : ~Stores(d) /\ ~Join(d)
      <4>1. ASSUME NEW d \in Calls, Stores(d) \/ Join(d)
            PROVE  call'[d] # call[d]
        BY <1>1, <4>1, StepMoves, IdleRuns DEF Stores, To, Ends, At
      <4> QED
        BY <1>7, <4>1 DEF Others
    <3>2. CASE Stores(c) /\ Who(c) = u
      <4>1. sub'[Who(c)] = [st |-> "active", end |-> call[c].end, owner |-> Nobody, via |-> Nobody,
                            plan |-> Op(c) \in {"pay", "trial"} /\ Who(c) \in Family]
        BY <1>1, <3>2, Written
      <4> QED
        BY <3>2, <4>1
    <3>3. CASE ~(Stores(c) /\ Who(c) = u)
      BY <1>7, <3>1, <3>3, FamilyKept
    <3> QED
      BY <3>2, <3>3
  <2> QED
    BY <1>7, <2>1, <2>2, <2>3, <2>4, CodeKept DEF Others
<1>8. \A c \in Calls : LockCode(c) /\ To(c, "join") => Others(c)
  BY DEF To
<1> QED
  BY <1>2, <1>3, <1>4, <1>5, <1>6, <1>7, <1>8, OneCall

(* At the start no token is taken and no code is made.                     *)
LEMMA CodeStart == SubscriptionInit => TrialInv /\ CodeInv
<1> SUFFICES ASSUME SubscriptionInit
             PROVE  TrialInv /\ CodeInv
  OBVIOUS
<1>1. \A c \in Calls : call[c].at = "idle"
  BY IdleRuns DEF SubscriptionInit
<1>2. /\ \A u \in Users : count.trial[u] = 0 /\ sub[u].via = Nobody
      /\ \A k \in Codes : count.code[k] = 0
  BY DEF SubscriptionInit
<1>3. TrialInv
  BY <1>1, <1>2 DEF TrialInv, Holds, At
<1>4. CodeInv
  BY <1>1, <1>2, SubscriptionAssumption DEF CodeInv, Locked, At
<1> QED
  BY <1>3, <1>4

-----------------------------------------------------------------------------
(* Grants.                                                                 *)
Grants(c) == Op(c) = "grant" /\ call[c].at \in {"read", "write"}

(* Multiplication by the life of a claim.                                  *)
LEMMA Times ==
    ASSUME NEW a \in Nat, NEW b \in Nat, NEW t \in Nat
    PROVE  /\ a * t \in Nat /\ (a + 1) * t = a * t + t
           /\ a <= b => a * t <= b * t
  OBVIOUS

(* From the product back to the number.                                    *)
LEMMA Quotient ==
    ASSUME NEW a \in Nat, NEW n \in Nat, NEW t \in Nat \ {0}, a * t <= n + t
    PROVE  a <= 1 + (n \div t)
<1> DEFINE q == n \div t
<1>1. q \in Nat /\ n < q * t + t
  OBVIOUS
<1> HIDE DEF q
<1>2. (q + 1) * t = q * t + t /\ ((q + 1) + 1) * t = (q + 1) * t + t /\ q * t \in Nat
  BY <1>1, Times
<1>3. a * t < ((q + 1) + 1) * t
  BY <1>1, <1>2
<1>4. ~((q + 1) + 1 <= a)
  BY <1>1, <1>3, Times
<1> QED
  BY <1>1, <1>4 DEF q

(* The types of what the bound is about.                                   *)
LEMMA GrantedIs ==
    ASSUME TypeInv
    PROVE  /\ Granted \in Nat /\ Granted \in {count.grant, count.grant + 1}
           /\ lock \in Nat /\ now \in Nat /\ TTL \in Nat \ {0}
  BY LockAssumption DEF TypeInv, SubTypeOK, LockTypeOK, Counts, Granted

(* The bound keeps when no claim is made.                                  *)
LEMMA GrantKept ==
    ASSUME TypeInv, TypeInv', GrantInv, Granted' <= Granted,
           \/ lock' = lock /\ now' \in {now, now + 1}
           \/ lock # 0 /\ lock <= now /\ lock' = 0 /\ now' = now
    PROVE  GrantInv'
<1>1. Granted \in Nat /\ Granted' \in Nat /\ lock \in Nat /\ now \in Nat /\ TTL \in Nat
  BY GrantedIs DEF TypeInv, Counts, Granted
<1> DEFINE g == Granted * TTL
           h == Granted' * TTL
<1>2. h <= g /\ h \in Nat /\ g \in Nat
  BY <1>1, Times
<1>3. /\ lock <= now + TTL /\ now >= 1
      /\ lock = 0 => g <= now - 1
      /\ lock # 0 => g <= lock - 1
  BY DEF GrantInv
<1> HIDE DEF g, h
<1>4. lock' <= now' + TTL /\ now' >= 1
  BY <1>1, <1>3
<1>5. /\ lock' = 0 => h <= now' - 1
      /\ lock' # 0 => h <= lock' - 1
  BY <1>1, <1>2, <1>3
<1> QED
  BY <1>4, <1>5 DEF GrantInv, h

(* A claim is entered when none is under way and the last has lived its    *)
(* time; no other step counts a grant or shortens the lock.                *)
LEMMA GrantStep ==
    ASSUME Timely, ~Degraded
    PROVE  TypeInv /\ LockInv /\ GrantInv /\ [SubscriptionNext]_vars => GrantInv'
<1> SUFFICES ASSUME TypeInv, LockInv, GrantInv, [SubscriptionNext]_vars
             PROVE  GrantInv'
  OBVIOUS
<1>1. TypeInv'
  BY TypeStep
<1>2. /\ SubTypeOK /\ count \in Counts /\ count.grant \in Nat
      /\ \A c \in Calls : Place(c) /\ Who(c) \in Users
      /\ Workers = Calls
  BY SubscriptionAssumption DEF TypeInv, SubTypeOK, Running, Who, Counts
<1>3. /\ lock \in Nat /\ now \in Nat /\ TTL \in Nat \ {0} /\ phase \in [Calls -> {"out", "taking", "in"}]
  BY <1>2, LockAssumption DEF SubTypeOK, LockTypeOK
<1>4. \A c \in Calls : Grants(c) => phase[c] = "in"
  BY <1>2 DEF Place, Grants
<1>5. Granted = IF \E c \in Calls : Grants(c) THEN count.grant + 1 ELSE count.grant
  <2>1. Granting <=> \E c \in Calls : Grants(c)
    BY DEF Granting, Grants
  <2> QED
    BY <2>1 DEF Granted
<1>6. Granted' = IF \E c \in Calls : Grants(c)' THEN count'.grant + 1 ELSE count'.grant
  <2>1. Granting' <=> \E c \in Calls : Grants(c)'
    BY DEF Granting, Grants
  <2> QED
    BY <2>1 DEF Granted
<1> HIDE DEF Grants
<1>7. ASSUME NEW c \in Calls, Enters(c), count' = count, lock = 0 \/ lock <= now
      PROVE  GrantInv'
  <2>1. lock' = now + TTL /\ now' = now
    BY <1>7 DEF Enters
  <2>2. \A d \in Calls : phase[d] # "in"
    BY <1>2, <1>3, <1>7 DEF LockInv, Held, LockTypeOK
  <2>3. Granted = count.grant /\ Granted' \in {Granted, Granted + 1}
    BY <1>2, <1>4, <1>5, <1>6, <1>7, <2>2
  <2>4. /\ (Granted + 1) * TTL = Granted * TTL + TTL /\ Granted * TTL \in Nat
        /\ Granted' * TTL <= (Granted + 1) * TTL /\ Granted' * TTL \in Nat
    BY <1>2, <1>3, <2>3, Times
  <2>5. Granted * TTL <= now - 1 /\ now >= 1
    BY <1>3, <1>7, <2>4 DEF GrantInv
  <2>6. Granted' * TTL <= (now + TTL) - 1
    BY <1>3, <2>4, <2>5
  <2> QED
    BY <1>3, <2>1, <2>5, <2>6 DEF GrantInv
<1>8. ASSUME NEW c \in Calls, Stores(c), Op(c) = "grant"
      PROVE  GrantInv'
  <2>1. /\ Others(c) /\ Grants(c) /\ call'[c].at \notin {"read", "write"}
        /\ lock' = lock /\ now' = now
    <3>1. Write(c) => To(c, "align") /\ At(c, "write") /\ UNCHANGED lockVars
      BY <1>2, StepMoves DEF Write
    <3>2. WriteUnanswered(c) => Ends(c) /\ At(c, "write") /\ Finish(c)
      BY <1>2, <1>8, StepMoves DEF WriteUnanswered, GiveUp
    <3>3. c \in Keepers
      BY SubscriptionAssumption
    <3>4. Finish(c) => lock' = lock /\ now' = now
      BY <3>3 DEF Finish, Leave, lockVars
    <3> QED
      BY <1>8, <3>1, <3>2, <3>4, IdleRuns DEF Stores, To, Ends, Grants, At, lockVars
  <2>2. count'.grant = count.grant + 1
    BY <1>2, <1>8, Counted DEF Stores
  <2>3. \A d \in Calls : ~Grants(d)'
    <3>1. ASSUME NEW d \in Calls, Grants(d)'
          PROVE  FALSE
      <4>1. d # c
        BY <2>1, <3>1 DEF Grants
      <4>2. Grants(d)
        BY <2>1, <3>1, <4>1 DEF Others, Grants, Op
      <4> QED
        BY <1>2, <1>4, <2>1, <4>1, <4>2 DEF LockInv, Mutex
    <3> QED
      BY <3>1
  <2>4. Granted' = Granted
    BY <1>5, <1>6, <2>1, <2>2, <2>3
  <2> QED
    BY <1>1, <1>2, <1>3, <2>1, <2>4, GrantKept, GrantedIs
<1>9. ASSUME count'.grant = count.grant, \A c \in Calls : Grants(c)' => Grants(c),
             \/ lock' = lock /\ now' \in {now, now + 1}
             \/ lock # 0 /\ lock <= now /\ lock' = 0 /\ now' = now
      PROVE  GrantInv'
  <2>1. Granted' <= Granted
    BY <1>2, <1>5, <1>6, <1>9
  <2> QED
    BY <1>1, <1>9, <2>1, GrantKept
<1>10. ASSUME NEW c \in Calls, Begin(c), Others(c)
       PROVE  GrantInv'
  <2>1. count' = count /\ UNCHANGED lockVars
    BY <1>10 DEF Begin, Pay, Grant, Overwrite, Trial, Invite, Remove, Redeem, Enrol, Start, subButCall
  <2>2. ~(call'[c].op = "grant" /\ call'[c].at \in {"read", "write"})
    BY <1>2, <1>10, BeginMoves DEF Begin, Begun
  <2>3. \A d \in Calls : Grants(d)' => Grants(d)
    BY <1>10, <2>2 DEF Others, Grants, Op
  <2> QED
    BY <1>9, <2>1, <2>3 DEF lockVars
<1>11. ASSUME NEW c \in Calls, GrantClaim(c) \/ GrantTakeOver(c), phase'[c] = "in"
       PROVE  GrantInv'
  <2>1. Enters(c) /\ (lock = 0 \/ lock <= now) /\ count' = count
    BY <1>3, <1>11 DEF GrantClaim, GrantTakeOver, Claim, TakeOver, subButCall
  <2> QED
    BY <1>7, <2>1
<1>12. ASSUME NEW c \in Calls, Step(c), Others(c), ~(Stores(c) /\ Op(c) = "grant"),
              ~((GrantClaim(c) \/ GrantTakeOver(c)) /\ phase'[c] = "in")
       PROVE  GrantInv'
  <2>1. count'.grant = count.grant
    <3>1. CASE Stores(c) \/ Join(c)
      BY <1>2, <1>12, <3>1, Counted DEF Stores
    <3>2. CASE ~Stores(c) /\ ~Join(c)
      BY <1>12, <3>2 DEF Step, Stores, GrantClaim, GrantTakeOver, TakeToken, ReleaseToken, Read, WriteFails,
         Align, IssueCode, LockCode, RemoveMember, Crash, subButCall
    <3> QED
      BY <3>1, <3>2
  <2>2. lock' = lock /\ now' = now
    <3>1. c \in Keepers
      BY SubscriptionAssumption
    <3>2. Finish(c) => lock' = lock /\ now' = now
      BY <3>1 DEF Finish, Leave, lockVars
    <3>3. CASE GrantClaim(c) \/ GrantTakeOver(c)
      BY <1>3, <1>12, <3>3 DEF GrantClaim, GrantTakeOver, Claim, TakeOver, Enters
    <3>4. CASE Crash(c)
      BY <3>4 DEF Crash, LockCrash, lockVars
    <3>5. CASE ~GrantClaim(c) /\ ~GrantTakeOver(c) /\ ~Crash(c)
      BY <1>12, <3>2, <3>5 DEF Step, TakeToken, ReleaseToken, Read, Write, WriteFails, WriteUnanswered, GiveUp,
         Align, IssueCode, LockCode, Join, RemoveMember, lockVars
    <3> QED
      BY <3>3, <3>4, <3>5
  <2>3. (call'[c].op = "grant" /\ call'[c].at \in {"read", "write"}) => Grants(c)
    <3>1. CASE Ends(c)
      BY <3>1, IdleRuns DEF Ends
    <3>2. CASE ~Ends(c)
      <4>1. \/ Keeps(c) /\ At(c, "read") /\ To(c, "write")
            \/ Keeps(c) /\ Op(c) # "grant"
            \/ call'[c].at \notin {"read", "write"}
        BY <1>2, <1>12, <3>2, StepMoves DEF Step, To, Place, At
      <4> QED
        BY <4>1 DEF To, Keeps, Grants, Op, At
    <3> QED
      BY <3>1, <3>2
  <2>4. \A d \in Calls : Grants(d)' => Grants(d)
    BY <1>12, <2>3 DEF Others, Grants, Op
  <2> QED
    BY <1>9, <2>1, <2>2, <2>4
<1>13. ASSUME call' = call,
              (\E u \in Users : Revoke(u)) \/ FindDue \/ ExpireDue \/ Clock \/ UNCHANGED vars
       PROVE  GrantInv'
  <2>1. count' = count
    BY <1>13 DEF Revoke, FindDue, ExpireDue, Clock, vars, subVars
  <2>2. \/ lock' = lock /\ now' \in {now, now + 1}
        \/ lock # 0 /\ lock <= now /\ lock' = 0 /\ now' = now
    BY <1>13 DEF Revoke, FindDue, ExpireDue, Clock, Tick, Expire, vars, lockVars
  <2>3. \A d \in Calls : Grants(d)' => Grants(d)
    BY <1>13 DEF Grants, Op
  <2> QED
    BY <1>9, <2>1, <2>2, <2>3
<1> QED
  BY <1>8, <1>10, <1>11, <1>12, <1>13, OneCall

(* However often a request is repeated and whatever dies: a trial and an   *)
(* invite code give days once, and manual grants are at most one per life  *)
(* of a claim (trial_claim, family_redeem, op_claim). Bound and proof need *)
(* claims that outlive their grants and a database that answers op_claim.  *)
THEOREM TokensWorkOnce ==
    ASSUME Timely, ~Degraded
    PROVE  SubscriptionSpec => []TokensOnce
<1>1. SubscriptionInit => LockInv /\ GrantInv
  <2> SUFFICES ASSUME SubscriptionInit
               PROVE  LockInv /\ GrantInv
    OBVIOUS
  <2>1. LockInv
    BY LockAssumption DEF SubscriptionInit, LockInit, LockInv, LockTypeOK, Held, Mutex
  <2>2. lock = 0 /\ now = 1 /\ count.grant = 0 /\ TTL \in Nat
    BY LockAssumption DEF SubscriptionInit, LockInit
  <2>3. Granted = 0
    BY <2>2, IdleRuns DEF SubscriptionInit, Granted, Granting
  <2> QED
    BY <2>1, <2>2, <2>3 DEF GrantInv
<1>2. TypeInv /\ LockInv /\ [SubscriptionNext]_vars => LockInv'
  BY LockSteps, LockStep DEF TypeInv
<1>3. TypeInv /\ TrialInv /\ CodeInv /\ GrantInv => TokensOnce
  <2> SUFFICES ASSUME TypeInv, TrialInv, CodeInv, GrantInv
               PROVE  TokensOnce
    OBVIOUS
  <2>1. /\ Granted \in Nat /\ lock \in Nat /\ now \in Nat /\ TTL \in Nat \ {0}
        /\ count.grant \in Nat /\ count.grant <= Granted
    <3>1. count.grant \in Nat
      BY DEF TypeInv, Counts
    <3> QED
      BY <3>1, GrantedIs
  <2>2. count.grant * TTL <= Granted * TTL /\ count.grant * TTL \in Nat /\ Granted * TTL \in Nat
    BY <2>1, Times
  <2> DEFINE n == now - 1
  <2>3. n \in Nat /\ count.grant * TTL <= n + TTL
    BY <2>1, <2>2 DEF GrantInv
  <2> HIDE DEF n
  <2>4. count.grant <= 1 + (n \div TTL)
    BY <2>1, <2>3, Quotient
  <2> QED
    BY <2>4 DEF TokensOnce, TrialInv, CodeInv, n
<1> QED
  BY <1>1, <1>2, <1>3, TypeStart, CodeStart, TypeStep, TrialStep, CodeStep, GrantStep,
     PTL DEF SubscriptionSpec

-----------------------------------------------------------------------------
(* What a step makes of one subscription.                                  *)
Overwritten(c, u) ==
    /\ Stores(c) /\ Who(c) = u
    /\ sub'[u].st = "active" /\ sub'[u].end = call[c].end /\ sub'[u].owner = Nobody
Joined(c, u) ==
    /\ Join(c) /\ Who(c) = u
    /\ sub'[u].st = "active" /\ sub'[u].end = call[c].end /\ sub'[u].owner = call[c].own
Aligned(c, u) ==
    /\ Align(c) /\ u \in Members(Who(c))
    /\ sub'[u].st = sub[u].st /\ sub'[u].end = call[c].end /\ sub'[u].owner = sub[u].owner
Stopped(u) ==
    /\ sub'[u].end = sub[u].end /\ sub'[u].owner = sub[u].owner
    /\ \/ sub'[u].st = "revoked"
       \/ sub'[u].st = "expired" /\ u \in batch

(* Every step does one of these to it, or nothing.                         *)
LEMMA Turns ==
    ASSUME TypeInv, [SubscriptionNext]_vars, NEW u \in Users
    PROVE  \/ sub'[u] = sub[u]
           \/ \E c \in Calls : Overwritten(c, u) \/ Joined(c, u) \/ Aligned(c, u)
           \/ Stopped(u)
<1>1. /\ SubTypeOK /\ sub[u] \in Subscriptions
      /\ \A c \in Calls : Place(c) /\ Who(c) \in Users
  BY DEF TypeInv, SubTypeOK, Running, Who
<1>2. ASSUME NEW c \in Calls, Stores(c)
      PROVE  sub'[u] = sub[u] \/ Overwritten(c, u)
  <2>1. CASE Who(c) = u
    <3>1. sub'[u] = [st |-> "active", end |-> call[c].end, owner |-> Nobody,
                     via |-> Nobody, plan |-> Op(c) \in {"pay", "trial"} /\ Who(c) \in Family]
      BY <1>1, <1>2, <2>1, Written
    <3>2. sub'[u].st = "active" /\ sub'[u].end = call[c].end /\ sub'[u].owner = Nobody
      BY <3>1
    <3> QED
      BY <1>2, <2>1, <3>2 DEF Overwritten
  <2>2. CASE Who(c) # u
    BY <1>1, <1>2, <2>2, Written
  <2> QED
    BY <2>1, <2>2
<1>3. ASSUME NEW c \in Calls, Join(c)
      PROVE  sub'[u] = sub[u] \/ Joined(c, u)
  <2>1. CASE Who(c) = u
    <3>1. sub'[u] = [st |-> "active", end |-> call[c].end, owner |-> call[c].own,
                     via |-> Key(c), plan |-> TRUE]
      BY <1>1, <1>3, <2>1, Written
    <3>2. sub'[u].st = "active" /\ sub'[u].end = call[c].end /\ sub'[u].owner = call[c].own
      BY <3>1
    <3> QED
      BY <1>3, <2>1, <3>2 DEF Joined
  <2>2. CASE Who(c) # u
    BY <1>1, <1>3, <2>2, Written
  <2> QED
    BY <2>1, <2>2
<1>4. ASSUME NEW c \in Calls, Align(c)
      PROVE  sub'[u] = sub[u] \/ Aligned(c, u)
  <2>1. CASE u \in Members(Who(c))
    <3>1. sub'[u] = [sub[u] EXCEPT !.end = call[c].end]
      BY <1>1, <1>4, <2>1, Written
    <3>2. sub'[u].st = sub[u].st /\ sub'[u].end = call[c].end /\ sub'[u].owner = sub[u].owner
      BY <1>1, <3>1 DEF Subscriptions
    <3> QED
      BY <1>4, <2>1, <3>2 DEF Aligned
  <2>2. CASE u \notin Members(Who(c))
    BY <1>1, <1>4, <2>2, Written
  <2> QED
    BY <2>1, <2>2
<1>5. ASSUME sub'[u] = [sub[u] EXCEPT !.st = "revoked"]
      PROVE  Stopped(u)
  BY <1>1, <1>5 DEF Stopped, Subscriptions
<1>6. ASSUME NEW c \in Calls, RemoveMember(c)
      PROVE  sub'[u] = sub[u] \/ Stopped(u)
  <2>1. CASE Who(c) = u
    BY <1>1, <1>5, <1>6, <2>1, Written
  <2>2. CASE Who(c) # u
    BY <1>1, <1>6, <2>2, Written
  <2> QED
    BY <2>1, <2>2
<1>7. ASSUME NEW v \in Users, Revoke(v)
      PROVE  sub'[u] = sub[u] \/ Stopped(u)
  BY <1>1, <1>5, <1>7, WrittenByNone
<1>8. ASSUME ExpireDue
      PROVE  sub'[u] = sub[u] \/ Stopped(u)
  <2>1. CASE u \in batch
    <3>1. sub'[u] = [sub[u] EXCEPT !.st = "expired"]
      BY <1>1, <1>8, <2>1, WrittenByNone
    <3> QED
      BY <1>1, <2>1, <3>1 DEF Stopped, Subscriptions
  <2>2. CASE u \notin batch
    BY <1>1, <1>8, <2>2, WrittenByNone
  <2> QED
    BY <2>1, <2>2
<1> QED
  BY <1>2, <1>3, <1>4, <1>6, <1>7, <1>8, SubWrites DEF Writing

(* A family gets a member by a join alone.                                 *)
LEMMA MembersGrow ==
    ASSUME TypeInv, [SubscriptionNext]_vars, NEW o \in Users, NEW u \in Members(o)'
    PROVE  \/ u \in Members(o)
           \/ \E c \in Calls : Join(c) /\ Who(c) = u /\ call[c].own = o
<1>1. u \in Users /\ sub'[u].st = "active" /\ sub'[u].owner = o /\ o # Nobody
  BY SubscriptionAssumption DEF Members, Active
<1>2. CASE sub'[u] = sub[u]
  BY <1>1, <1>2 DEF Members, Active
<1>3. ASSUME NEW c \in Calls, Overwritten(c, u) \/ Joined(c, u) \/ Aligned(c, u)
      PROVE  \/ u \in Members(o)
             \/ Join(c) /\ Who(c) = u /\ call[c].own = o
  <2>1. ~Overwritten(c, u)
    BY <1>1 DEF Overwritten
  <2>2. Joined(c, u) => Join(c) /\ Who(c) = u /\ call[c].own = o
    BY <1>1 DEF Joined
  <2>3. Aligned(c, u) => u \in Members(o)
    BY <1>1 DEF Aligned, Members, Active
  <2> QED
    BY <1>3, <2>1, <2>2, <2>3
<1>4. ~Stopped(u)
  BY <1>1 DEF Stopped
<1> QED
  BY <1>1, <1>2, <1>3, <1>4, Turns

(* One call writes at a time.                                              *)
LEMMA OneWrites ==
    ASSUME TypeInv, NEW c \in Calls, Others(c), NEW d \in Calls, Stores(d) \/ Join(d) \/ Align(d)
    PROVE  d = c
<1>1. call'[d] # call[d]
  BY StepMoves, IdleRuns DEF TypeInv, Stores, To, Ends, At
<1> QED
  BY <1>1 DEF Others

(* A used code stays used.                                                 *)
LEMMA UsedStays ==
    ASSUME TypeInv, [SubscriptionNext]_vars, NEW k \in Codes, code'[k].user = Nobody
    PROVE  code[k].user = Nobody
<1>1. SubTypeOK /\ Nobody \notin Users /\ \A c \in Calls : Place(c) /\ Who(c) \in Users
  BY SubscriptionAssumption DEF TypeInv, SubTypeOK, Running, Who
<1>2. ASSUME NEW c \in Calls, IssueCode(c) \/ LockCode(c)
      PROVE  code[k].user = Nobody
  <2>1. LockCode(c) => Key(c) \in Codes
    BY <1>1 DEF LockCode, Place, At
  <2>2. CASE IssueCode(c)
    BY <1>1, <2>2, CodeWrites
  <2>3. CASE LockCode(c)
    BY <1>1, <2>1, <2>3, CodeWrites
  <2> QED
    BY <1>2, <2>2, <2>3
<1> QED
  BY <1>2, OtherWrites

-----------------------------------------------------------------------------
(* Seats.                                                                  *)
LEMMA MembersFinite ==
    \A o \in Users : IsFiniteSet(Members(o)) /\ Cardinality(Members(o)) \in Nat
  BY SubscriptionAssumption, FS_Subset, FS_CardinalityType DEF Members

(* What remains of a family, and what it becomes with one more.            *)
LEMMA FewerMembers ==
    ASSUME NEW o \in Users, NEW S, S \subseteq Members(o)
    PROVE  /\ IsFiniteSet(S) /\ Cardinality(S) \in Nat
           /\ Cardinality(S) <= Cardinality(Members(o))
  BY MembersFinite, FS_Subset, FS_CardinalityType

LEMMA OneMoreMember ==
    ASSUME NEW o \in Users, NEW u, NEW S, S \subseteq Members(o) \cup {u}
    PROVE  /\ Cardinality(S) \in Nat
           /\ Cardinality(S) <= Cardinality(Members(o)) + 1
<1> DEFINE T == Members(o) \cup {u}
<1>1. IsFiniteSet(T) /\ Cardinality(T) <= Cardinality(Members(o)) + 1
  <2> DEFINE M == Members(o)
  <2>1. IsFiniteSet(M) /\ Cardinality(M) \in Nat
    BY MembersFinite
  <2> HIDE DEF M
  <2>2. /\ IsFiniteSet(M \cup {u})
        /\ Cardinality(M \cup {u}) = IF u \in M THEN Cardinality(M) ELSE Cardinality(M) + 1
    BY <2>1, FS_AddElement
  <2>3. Cardinality(M \cup {u}) <= Cardinality(M) + 1
    BY <2>1, <2>2
  <2> QED
    BY <2>2, <2>3 DEF M
<1>2. IsFiniteSet(S) /\ Cardinality(S) \in Nat /\ Cardinality(S) <= Cardinality(T)
  BY <1>1, FS_Subset, FS_CardinalityType
<1>3. Cardinality(T) \in Nat /\ Cardinality(Members(o)) \in Nat
  BY <1>1, MembersFinite, FS_CardinalityType
<1> HIDE DEF T
<1> QED
  BY <1>1, <1>2, <1>3

(* Whoever is going to take a seat still finds it.                         *)
Needs(c) == At(c, "join") \/ code[Key(c)].user = Nobody

(* No new seat is asked for and none is taken.                             *)
LEMMA SeatKept ==
    ASSUME TypeInv, SeatInv, NEW o \in Users, Members(o)' \subseteq Members(o),
           \A c \in Calls : Seating(c, o)' =>
              /\ Seating(c, o) /\ call'[c].op = Op(c) /\ call'[c].key = Key(c)
              /\ Needs(c)' => Needs(c)
    PROVE  /\ Cardinality(Members(o)') <= Seats - 1
           /\ \A c \in Calls : Seating(c, o)' =>
                 /\ Needs(c)' => Cardinality(Members(o)') + 1 <= Seats - 1
                 /\ \A d \in Calls \ {c} : Seating(d, o)' =>
                       call'[c].op = "redeem" /\ call'[d].op = "redeem" /\ call'[c].key = call'[d].key
<1> DEFINE m == Cardinality(Members(o))
           n == Cardinality(Members(o)')
<1>1. n \in Nat /\ m \in Nat /\ n <= m /\ Seats \in Nat
  BY FewerMembers, MembersFinite, SubscriptionAssumption
<1>2. m <= Seats - 1
  BY DEF SeatInv
<1>3. \A c \in Calls : Seating(c, o) =>
         /\ Needs(c) => m + 1 <= Seats - 1
         /\ \A d \in Calls \ {c} : Seating(d, o) =>
               Op(c) = "redeem" /\ Op(d) = "redeem" /\ Key(c) = Key(d)
  BY DEF SeatInv, Needs
<1> HIDE DEF m, n, Needs, Seating
<1>4. n <= Seats - 1 /\ (m + 1 <= Seats - 1 => n + 1 <= Seats - 1)
  BY <1>1, <1>2
<1>5. \A c \in Calls : Seating(c, o)' =>
         /\ Needs(c)' => n + 1 <= Seats - 1
         /\ \A d \in Calls \ {c} : Seating(d, o)' =>
               call'[c].op = "redeem" /\ call'[d].op = "redeem" /\ call'[c].key = call'[d].key
  BY <1>3, <1>4
<1> QED
  BY <1>4, <1>5 DEF n

(* Seats are counted before a code is locked, and one that waits for its   *)
(* lock needs no second: whoever repeats the request has the same code.    *)
LEMMA SeatStep ==
    ASSUME Calm
    PROVE  TypeInv /\ CodeInv /\ SeatInv /\ [SubscriptionNext]_vars => SeatInv'
<1> SUFFICES ASSUME TypeInv, CodeInv, SeatInv, [SubscriptionNext]_vars
             PROVE  SeatInv'
  OBVIOUS
<1>1. /\ SubTypeOK /\ Seats \in Nat /\ Nobody \notin Users \cup Codes
      /\ \A c \in Calls : Place(c) /\ Who(c) \in Users
  BY SubscriptionAssumption DEF TypeInv, SubTypeOK, Running, Who
<1> DEFINE Kept(o) ==
              /\ Cardinality(Members(o)') <= Seats - 1
              /\ \A c \in Calls : Seating(c, o)' =>
                    /\ Needs(c)' => Cardinality(Members(o)') + 1 <= Seats - 1
                    /\ \A d \in Calls \ {c} : Seating(d, o)' =>
                          call'[c].op = "redeem" /\ call'[d].op = "redeem" /\ call'[c].key = call'[d].key
<1>2. SUFFICES ASSUME NEW o \in Users
               PROVE  Kept(o)
  BY <1>2 DEF SeatInv, Needs, Op, Key
<1>3. ASSUME NEW c \in Calls, NEW u \in Users, Begin(c), Others(c), sub' = sub, code' = code,
             ~(call'[c].at \in {"lock", "join"} /\ call'[c].own = o)
      PROVE  Kept(o)
  <2>1. Members(o)' = Members(o)
    BY <1>3 DEF Members, Active
  <2>2. \A d \in Calls : Seating(d, o)' =>
           /\ Seating(d, o) /\ call'[d].op = Op(d) /\ call'[d].key = Key(d)
           /\ Needs(d)' => Needs(d)
    BY <1>3 DEF Others, Seating, Needs, At, Op, Key
  <2> QED
    BY <2>1, <2>2, SeatKept
<1>4. ASSUME NEW c \in Calls, NEW u \in Users, NEW k \in Codes \cup {Nobody}, NEW op,
             Free(Concerned(u) \cup Concerned(o), op, u, k),
             SeatsLeft(o) > 0, sub' = sub, code' = code, Others(c), ~Seating(c, o),
             \/ op = "redeem" /\ k \in Codes /\ call'[c].op = "redeem" /\ call'[c].key = k
             \/ op = "none"
      PROVE  Kept(o)
  <2>1. Members(o)' = Members(o)
    BY <1>4 DEF Members, Active
  <2>2. /\ Cardinality(Members(o)) + 1 <= Seats - 1
        /\ Cardinality(Members(o)) <= Seats - 1
    <3> DEFINE m == Cardinality(Members(o))
    <3>1. m \in Nat
      BY MembersFinite
    <3>2. Seats - 1 - m > 0
      BY <1>4 DEF SeatsLeft
    <3> HIDE DEF m
    <3>3. m + 1 <= Seats - 1 /\ m <= Seats - 1
      BY <1>1, <3>1, <3>2
    <3> QED
      BY <3>3 DEF m
  <2>3. \A d \in Calls : Seating(d, o) => Op(d) = "redeem" /\ op = "redeem" /\ Key(d) = k
    <3>1. o \in Concerned(u) \cup Concerned(o)
      BY <1>1 DEF Concerned
    <3>2. \A d \in Calls : Open(d, o) => Repeats(d, op, u, k)
      BY <1>4, <3>1 DEF Free
    <3>3. \A d \in Calls : Seating(d, o) => Open(d, o) /\ Op(d) # "none"
      BY <1>1 DEF Seating, Open, Place, At
    <3>4. \A d \in Calls : Repeats(d, op, u, k) => Op(d) = op /\ (k # Nobody => Key(d) = k)
      BY DEF Repeats
    <3> QED
      BY <1>1, <1>4, <3>2, <3>3, <3>4
  <2>4. \A d \in Calls \ {c} : Seating(d, o)' =>
           Seating(d, o) /\ call'[d].op = Op(d) /\ call'[d].key = Key(d)
    BY <1>4 DEF Others, Seating, Op, Key
  <2> HIDE DEF Seating, Needs
  <2>5. ASSUME NEW d \in Calls, Seating(d, o)', NEW e \in Calls \ {d}, Seating(e, o)'
        PROVE  call'[d].op = "redeem" /\ call'[e].op = "redeem" /\ call'[d].key = call'[e].key
    BY <1>4, <2>3, <2>4, <2>5
  <2> QED
    BY <2>1, <2>2, <2>5
<1>5. ASSUME NEW c \in Calls, Begin(c), Others(c)
      PROVE  Kept(o)
  <2>1. PICK u \in Users :
           \/ Pay(c, u) \/ Grant(c, u) \/ Overwrite(c, u) \/ Trial(c, u) \/ Invite(c, u) \/ Remove(c, u)
           \/ \E k \in Codes : Redeem(c, u, k)
           \/ \E p \in Users : Enrol(c, u, p)
    BY <1>5 DEF Begin
  <2>2. sub' = sub /\ code' = code
    BY <1>5 DEF Begin, Pay, Grant, Overwrite, Trial, Invite, Remove, Redeem, Enrol, Start, subButCall
  <2>3. CASE Pay(c, u) \/ Grant(c, u) \/ Overwrite(c, u) \/ Trial(c, u) \/ Invite(c, u) \/ Remove(c, u)
    <3>1. call'[c].own = Nobody
      BY <1>1, <2>3, BeginMoves DEF Begun
    <3> QED
      BY <1>1, <1>3, <1>5, <2>2, <3>1
  <2>4. ASSUME NEW k \in Codes, Redeem(c, u, k)
        PROVE  Kept(o)
    <3>1. /\ At(c, "idle") /\ call'[c].op = "redeem" /\ call'[c].key = k
          /\ call'[c].own = code[k].owner
      BY <1>1, <2>4, BeginMoves DEF Begun
    <3>2. CASE code[k].owner = o
      <4>1. Free(Concerned(u) \cup Concerned(o), "redeem", u, k) /\ SeatsLeft(o) > 0
        BY <2>4, <3>2 DEF Redeem
      <4>2. ~Seating(c, o)
        BY <3>1 DEF Seating, At
      <4> HIDE DEF Kept
      <4> QED
        BY <1>4, <1>5, <2>2, <3>1, <4>1, <4>2
    <3>3. CASE code[k].owner # o
      BY <1>3, <1>5, <2>2, <3>1, <3>3
    <3> QED
      BY <3>2, <3>3
  <2>5. ASSUME NEW p \in Users, Enrol(c, u, p)
        PROVE  Kept(o)
    <3>1. At(c, "idle") /\ call'[c].own = p
      BY <1>1, <2>5, BeginMoves DEF Begun
    <3>2. CASE p = o
      <4>1. Free(Concerned(u) \cup Concerned(o), "none", u, Nobody) /\ SeatsLeft(o) > 0
        BY <2>5, <3>2 DEF Enrol
      <4>2. ~Seating(c, o)
        BY <3>1 DEF Seating, At
      <4> HIDE DEF Kept
      <4> QED
        BY <1>4, <1>5, <2>2, <4>1, <4>2
    <3>3. CASE p # o
      BY <1>3, <1>5, <2>2, <3>1, <3>3
    <3> QED
      BY <3>2, <3>3
  <2> QED
    BY <2>1, <2>3, <2>4, <2>5
<1>6. ASSUME NEW c \in Calls, Join(c), Others(c), call[c].own = o
      PROVE  Kept(o)
  <2>1. /\ At(c, "join") /\ call'[c] = Idle /\ code' = code
        /\ Op(c) = "redeem" => Key(c) \in Codes
    BY <1>1, <1>6, StepMoves DEF Join, Ends, Place, At
  <2>2. Members(o)' \subseteq Members(o) \cup {Who(c)}
    <3>1. \A d \in Calls : Join(d) => d = c
      BY <1>6, OneWrites
    <3> QED
      BY <3>1, MembersGrow
  <2>3. Cardinality(Members(o)') <= Seats - 1
    <3> DEFINE m == Cardinality(Members(o))
               n == Cardinality(Members(o)')
    <3>1. m \in Nat /\ n \in Nat /\ n <= m + 1
      BY <2>2, MembersFinite, OneMoreMember
    <3>2. m + 1 <= Seats - 1
      BY <1>6, <2>1 DEF SeatInv, Seating, At
    <3> HIDE DEF m, n
    <3>3. n <= Seats - 1
      BY <1>1, <3>1, <3>2
    <3> QED
      BY <3>3 DEF n
  <2>4. ASSUME NEW d \in Calls, Seating(d, o)'
        PROVE  /\ d # c /\ Seating(d, o) /\ call'[d] = call[d] /\ ~Needs(d)'
               /\ Op(d) = "redeem" /\ Op(c) = "redeem" /\ Key(d) = Key(c)
    <3>1. d # c /\ Seating(d, o) /\ call'[d] = call[d]
      BY <1>6, <2>1, <2>4, IdleRuns DEF Others, Seating
    <3>2. Op(d) = "redeem" /\ Op(c) = "redeem" /\ Key(d) = Key(c)
      BY <1>6, <2>1, <3>1 DEF SeatInv, Seating, At
    <3>3. Locked(c, Key(c)) /\ code[Key(c)].user = Who(c) /\ ~Locked(d, Key(c))
      BY <2>1, <3>1, <3>2 DEF CodeInv, Locked
    <3>4. ~At(d, "join") /\ code'[Key(d)].user # Nobody
      BY <1>1, <2>1, <3>2, <3>3 DEF Locked
    <3> QED
      BY <3>1, <3>2, <3>4 DEF Needs, At, Key
  <2> HIDE DEF Seating, Needs
  <2> QED
    BY <2>3, <2>4 DEF Op, Key
<1>7. ASSUME Members(o)' \subseteq Members(o),
             \A k \in Codes : code'[k].user = Nobody => code[k].user = Nobody,
             NEW c \in Calls, Others(c),
             call'[c].at \in {"lock", "join"} => /\ At(c, "lock") /\ Keeps(c)
                                                /\ code[Key(c)].user = Nobody
      PROVE  Kept(o)
  <2>1. ASSUME NEW d \in Calls, Seating(d, o)'
        PROVE  /\ Seating(d, o) /\ call'[d].op = Op(d) /\ call'[d].key = Key(d)
               /\ Needs(d)' => Needs(d)
    <3>1. CASE d = c
      BY <1>7, <2>1, <3>1 DEF Seating, Needs, Keeps, At
    <3>2. CASE d # c
      <4>1. call'[d] = call[d] /\ Seating(d, o)
        BY <1>7, <2>1, <3>2 DEF Others, Seating
      <4>2. At(d, "join") \/ Key(d) \in Codes
        BY <1>1, <4>1 DEF Seating, Place, At
      <4> QED
        BY <1>7, <4>1, <4>2 DEF Needs, Op, Key, At
    <3> QED
      BY <3>1, <3>2
  <2> QED
    BY <1>7, <2>1, SeatKept
<1>8. \A k \in Codes : code'[k].user = Nobody => code[k].user = Nobody
  BY UsedStays
<1>9. ASSUME NEW c \in Calls, Step(c), Others(c), ~(Join(c) /\ call[c].own = o)
      PROVE  Kept(o)
  <2>1. Members(o)' \subseteq Members(o)
    <3>1. \A d \in Calls : Join(d) => d = c
      BY <1>9, OneWrites
    <3> QED
      BY <1>9, <3>1, MembersGrow
  <2>2. call'[c].at \in {"lock", "join"} => /\ At(c, "lock") /\ Keeps(c)
                                           /\ code[Key(c)].user = Nobody
    <3>1. Ends(c) => call'[c].at = "idle"
      BY IdleRuns DEF Ends
    <3> QED
      BY <1>1, <1>9, <3>1, StepMoves DEF Step, To
  <2> HIDE DEF Kept
  <2> QED
    BY <1>7, <1>8, <1>9, <2>1, <2>2
<1>10. ASSUME call' = call
       PROVE  Kept(o)
  <2>1. Members(o)' \subseteq Members(o)
    <3>1. ASSUME NEW d \in Calls, Join(d)
          PROVE  FALSE
      BY <1>1, <1>10, <3>1, StepMoves, IdleRuns DEF Ends, At
    <3> QED
      BY <3>1, MembersGrow
  <2>2. ASSUME NEW d \in Calls, Seating(d, o)'
        PROVE  /\ Seating(d, o) /\ call'[d].op = Op(d) /\ call'[d].key = Key(d)
               /\ Needs(d)' => Needs(d)
    <3>1. call'[d] = call[d] /\ Seating(d, o)
      BY <1>10, <2>2 DEF Seating
    <3>2. At(d, "join") \/ Key(d) \in Codes
      BY <1>1, <3>1 DEF Seating, Place, At
    <3> QED
      BY <1>8, <3>1, <3>2 DEF Needs, Op, Key, At
  <2> QED
    BY <2>1, <2>2, SeatKept
<1> HIDE DEF Kept
<1> QED
  BY <1>5, <1>6, <1>9, <1>10, OneCall

(* Without Calm calls may count the same seat. Whoever has counted one      *)
(* is still under way or has written his member.                           *)
LEMMA Seaters ==
    ASSUME NEW S, S \subseteq Calls
    PROVE  IsFiniteSet(S) /\ Cardinality(S) \in Nat /\ Cardinality(S) <= Cardinality(Calls)
  BY SubscriptionAssumption, FS_Subset, FS_CardinalityType

(* Fewer members, or fewer calls that seat one.                            *)
LEMMA RoomKept ==
    ASSUME RoomInv, NEW o \in Users, Members(o)' \subseteq Members(o), Seated(o)' \subseteq Seated(o)
    PROVE  Room(o)'
<1> DEFINE m == Cardinality(Members(o))
           n == Cardinality(Members(o)')
           p == Cardinality(Seated(o))
           q == Cardinality(Seated(o)')
           k == Cardinality(Calls)
<1>1. n \in Nat /\ m \in Nat /\ n <= m
  BY FewerMembers, MembersFinite
<1>2. p \in Nat /\ q \in Nat /\ q <= p
  BY Seaters, FS_Subset DEF Seated, Seating
<1>3. k \in Nat /\ Seats \in Nat
  BY Seaters, SubscriptionAssumption
<1>4. m + p + 2 <= Seats + k
  BY DEF RoomInv, Room
<1> HIDE DEF m, n, p, q, k
<1>5. n + q + 2 <= Seats + k
  BY <1>1, <1>2, <1>3, <1>4
<1> QED
  BY <1>5 DEF Room, n, q, k

LEMMA RoomStep == TypeInv /\ RoomInv /\ [SubscriptionNext]_vars => RoomInv'
<1> SUFFICES ASSUME TypeInv, RoomInv, [SubscriptionNext]_vars, NEW o \in Users
             PROVE  Room(o)'
  BY DEF RoomInv
<1>1. /\ SubTypeOK /\ Seats \in Nat /\ Nobody \notin Users \cup Codes
      /\ \A c \in Calls : Place(c) /\ Who(c) \in Users
  BY SubscriptionAssumption DEF TypeInv, SubTypeOK, Running, Who
<1>2. ASSUME SeatsLeft(o) > 0, sub' = sub
      PROVE  Room(o)'
  <2> DEFINE m == Cardinality(Members(o))
             q == Cardinality(Seated(o)')
             k == Cardinality(Calls)
  <2>1. m \in Nat /\ q \in Nat /\ k \in Nat /\ q <= k
    BY MembersFinite, Seaters DEF Seated, Seating
  <2>2. Seats - 1 - m > 0
    BY <1>2 DEF SeatsLeft
  <2>3. Members(o)' = Members(o)
    BY <1>2 DEF Members, Active
  <2> HIDE DEF m, q, k
  <2>4. m + q + 2 <= Seats + k
    BY <1>1, <2>1, <2>2
  <2> QED
    BY <2>3, <2>4 DEF Room, m, q, k
<1>3. ASSUME NEW c \in Calls, Begin(c), Others(c)
      PROVE  Room(o)'
  <2>1. sub' = sub
    BY <1>3 DEF Begin, Pay, Grant, Overwrite, Trial, Invite, Remove, Redeem, Enrol, Start, subButCall
  <2>2. CASE call'[c].at \in {"lock", "join"} /\ call'[c].own = o
    <3>1. PICK u \in Users :
             \/ Pay(c, u) \/ Grant(c, u) \/ Overwrite(c, u) \/ Trial(c, u) \/ Invite(c, u) \/ Remove(c, u)
             \/ \E k \in Codes : Redeem(c, u, k)
             \/ \E v \in Users : Enrol(c, u, v)
      BY <1>3 DEF Begin
    <3>2. (\E k \in Codes : Redeem(c, u, k)) \/ (\E v \in Users : Enrol(c, u, v))
      BY <1>1, <2>2, <3>1, BeginMoves DEF Begun
    <3>3. SeatsLeft(o) > 0
      <4>1. ASSUME NEW k \in Codes, Redeem(c, u, k)
            PROVE  SeatsLeft(o) > 0
        <5>1. code[k].owner = o
          BY <1>1, <2>2, <4>1, BeginMoves DEF Begun
        <5> QED
          BY <4>1, <5>1 DEF Redeem
      <4>2. ASSUME NEW v \in Users, Enrol(c, u, v)
            PROVE  SeatsLeft(o) > 0
        <5>1. v = o
          BY <1>1, <2>2, <4>2, BeginMoves DEF Begun
        <5> QED
          BY <4>2, <5>1 DEF Enrol
      <4> QED
        BY <3>2, <4>1, <4>2
    <3> QED
      BY <1>2, <2>1, <3>3
  <2>3. CASE ~(call'[c].at \in {"lock", "join"} /\ call'[c].own = o)
    <3>1. Members(o)' = Members(o)
      BY <2>1 DEF Members, Active
    <3>2. Seated(o)' \subseteq Seated(o)
      BY <1>3, <2>3 DEF Others, Seated, Seating
    <3> QED
      BY <3>1, <3>2, RoomKept
  <2> QED
    BY <2>2, <2>3
<1>4. ASSUME NEW c \in Calls, Join(c), Others(c), call[c].own = o
      PROVE  Room(o)'
  <2>1. At(c, "join") /\ call'[c] = Idle
    BY <1>1, <1>4, StepMoves DEF Join, Ends
  <2>2. Members(o)' \subseteq Members(o) \cup {Who(c)}
    <3>1. \A d \in Calls : Join(d) => d = c
      BY <1>4, OneWrites
    <3> QED
      BY <3>1, MembersGrow
  <2>3. c \in Seated(o) /\ Seated(o)' \subseteq Seated(o) \ {c}
    BY <1>4, <2>1, IdleRuns DEF Others, Seated, Seating, At
  <2> DEFINE m == Cardinality(Members(o))
             n == Cardinality(Members(o)')
             S == Seated(o)
             p == Cardinality(S)
             q == Cardinality(Seated(o)')
             k == Cardinality(Calls)
  <2>4. m \in Nat /\ n \in Nat /\ n <= m + 1
    BY <2>2, MembersFinite, OneMoreMember
  <2>5. IsFiniteSet(S) /\ p \in Nat /\ q \in Nat /\ k \in Nat
    BY Seaters DEF Seated, Seating
  <2>6. q <= p - 1
    <3>1. IsFiniteSet(S \ {c}) /\ Cardinality(S \ {c}) = p - 1
      BY <2>3, <2>5, FS_RemoveElement
    <3>2. q <= Cardinality(S \ {c})
      BY <2>3, <3>1, FS_Subset
    <3> QED
      BY <3>1, <3>2
  <2>7. m + p + 2 <= Seats + k
    BY DEF RoomInv, Room
  <2> HIDE DEF m, n, p, q, k
  <2>8. n + q + 2 <= Seats + k
    BY <1>1, <2>4, <2>5, <2>6, <2>7
  <2> QED
    BY <2>8 DEF Room, n, q, k
<1>5. ASSUME NEW c \in Calls, Step(c), Others(c), ~(Join(c) /\ call[c].own = o)
      PROVE  Room(o)'
  <2>1. Members(o)' \subseteq Members(o)
    <3>1. \A d \in Calls : Join(d) => d = c
      BY <1>5, OneWrites
    <3> QED
      BY <1>5, <3>1, MembersGrow
  <2>2. call'[c].at \in {"lock", "join"} => At(c, "lock") /\ Keeps(c)
    <3>1. Ends(c) => call'[c].at = "idle"
      BY IdleRuns DEF Ends
    <3> QED
      BY <1>1, <1>5, <3>1, StepMoves DEF Step, To
  <2>3. Seated(o)' \subseteq Seated(o)
    BY <1>5, <2>2 DEF Others, Keeps, Seated, Seating, At
  <2> QED
    BY <2>1, <2>3, RoomKept
<1>6. ASSUME call' = call
      PROVE  Room(o)'
  <2>1. Members(o)' \subseteq Members(o)
    <3>1. ASSUME NEW d \in Calls, Join(d)
          PROVE  FALSE
      BY <1>1, <1>6, <3>1, StepMoves, IdleRuns DEF Ends, At
    <3> QED
      BY <3>1, MembersGrow
  <2>2. Seated(o)' \subseteq Seated(o)
    BY <1>6 DEF Seated, Seating
  <2> QED
    BY <2>1, <2>2, RoomKept
<1> QED
  BY <1>3, <1>4, <1>5, <1>6, OneCall

(* A family has no more members than its plan has seats beside the         *)
(* owner's, but for one per call that runs beside another, although        *)
(* family_redeem and family_add_admin count the seats long before they     *)
(* write; where writes of one subscription do not overlap (Calm) there is  *)
(* none too many. And whoever came in by a code holds a code made for this *)
(* family and locked for him.                                              *)
THEOREM FamiliesInSeats == SubscriptionSpec => []FamilyInSeats
<1>1. SubscriptionInit => SeatInv /\ RoomInv
  <2> SUFFICES ASSUME SubscriptionInit
               PROVE  SeatInv /\ RoomInv
    OBVIOUS
  <2>1. \A c \in Calls : call[c].at = "idle"
    BY IdleRuns DEF SubscriptionInit
  <2>2. \A o \in Users : Members(o) = {} /\ Seated(o) = {}
    BY <2>1 DEF SubscriptionInit, Members, Active, Seated, Seating
  <2>3. Cardinality({}) = 0 /\ Seats - 1 >= 0
    BY FS_EmptySet, SubscriptionAssumption
  <2>4. SeatInv
    BY <2>1, <2>2, <2>3 DEF SeatInv, Seating
  <2>5. Cardinality(Calls) \in Nat /\ Cardinality(Calls) # 0
    BY SubscriptionAssumption, FS_CardinalityType, FS_EmptySet
  <2>6. 0 + 0 + 2 <= Seats + Cardinality(Calls)
    BY <2>5, SubscriptionAssumption
  <2> QED
    BY <2>2, <2>3, <2>4, <2>6 DEF RoomInv, Room
<1>2. ASSUME TypeInv, CodeInv, NEW o \in Users, NEW u \in Members(o), sub[u].via # Nobody
      PROVE  code[sub[u].via] = [owner |-> o, user |-> u]
  <2>1. u \in Users /\ sub[u].owner = o /\ sub[u].via \in Codes
    BY <1>2 DEF Members, TypeInv, SubTypeOK, Subscriptions
  <2>2. code[sub[u].via] \in [owner : Users \cup {Nobody}, user : Users \cup {Nobody}]
    BY <1>2, <2>1 DEF TypeInv, SubTypeOK
  <2>3. code[sub[u].via].owner = o /\ code[sub[u].via].user = u
    BY <1>2, <2>1 DEF CodeInv
  <2> QED
    BY <2>2, <2>3
<1>3. CASE Calm
  <2>1. TypeInv /\ CodeInv /\ SeatInv => FamilyInSeats
    <3> SUFFICES ASSUME TypeInv, CodeInv, SeatInv, NEW o \in Users
                 PROVE  Cardinality(Members(o)) <= (Seats - 1) + Surplus
      BY <1>2 DEF FamilyInSeats
    <3>1. (Seats - 1) + Surplus = Seats - 1
      BY <1>3, SubscriptionAssumption DEF Surplus
    <3> QED
      BY <3>1 DEF SeatInv
  <2>2. TypeInv /\ CodeInv /\ SeatInv /\ [SubscriptionNext]_vars => SeatInv'
    BY <1>3, SeatStep
  <2> QED
    BY <1>1, <2>1, <2>2, TypeStart, CodeStart, TypeStep, CodeStep, PTL DEF SubscriptionSpec
<1>4. CASE ~Calm
  <2>1. TypeInv /\ CodeInv /\ RoomInv => FamilyInSeats
    <3> SUFFICES ASSUME TypeInv, CodeInv, RoomInv, NEW o \in Users
                 PROVE  Cardinality(Members(o)) <= (Seats - 1) + Surplus
      BY <1>2 DEF FamilyInSeats
    <3> DEFINE m == Cardinality(Members(o))
               p == Cardinality(Seated(o))
               k == Cardinality(Calls)
    <3>1. m \in Nat /\ p \in Nat /\ k \in Nat /\ Seats \in Nat
      BY MembersFinite, Seaters, SubscriptionAssumption DEF Seated
    <3>2. m + p + 2 <= Seats + k
      BY DEF RoomInv, Room
    <3>3. Surplus = k - 1
      BY <1>4 DEF Surplus
    <3> HIDE DEF m, p, k
    <3>4. m <= (Seats - 1) + Surplus
      BY <3>1, <3>2, <3>3
    <3> QED
      BY <3>4 DEF m
  <2> QED
    BY <1>1, <2>1, TypeStart, CodeStart, TypeStep, CodeStep, RoomStep, PTL DEF SubscriptionSpec
<1> QED
  BY <1>3, <1>4
=============================================================================
