------------------------------ MODULE RingProofs ------------------------------
(***************************************************************************)
(* Theorems about RingMatch: for any number of users and of concurrent     *)
(* searches, any set of acceptable pairs and any bounds, nobody chats with *)
(* two partners or with somebody unacceptable, and no row is left claimed  *)
(* but by a search that failed or died holding it; with nothing but        *)
(* searches going on, the rows of a queue at rest tell who is in a         *)
(* session; and two acceptable users who are alone in the queue find each  *)
(* other, also beside the repair of claims and orphans when each clicks    *)
(* once.                                                                   *)
(***************************************************************************)
EXTENDS RingMatch, TLAPS

-----------------------------------------------------------------------------
(* A search about to insert a session has found its pair acceptable.       *)
OpensCompatible ==
    \A m \in Matchers : search[m].stage = "open" => {Who(m), Cand(m)} \in Compatible

SessionInv == SessionsArePairs /\ OpensCompatible

Pair(m) == {Who(m), Cand(m)}

(* Who answers for a claim.  A search that has claimed a candidate answers *)
(* for that row until it gives it back or moves it into the chat; one that *)
(* has come second (a session of the same pair is there already) does not, *)
(* for it forgets the candidate without a write, but then the search that  *)
(* came first does.                                                        *)
HoldsClaimed(m, u) ==
    \/ Cand(m) = u /\ search[m].stage \in {"judge", "reject", "yield", "enter", "enterPeer"}
    \/ Cand(m) = u /\ search[m].stage \in {"open", "lost"} /\ Pair(m) \notin sessions
    \/ Who(m) = u /\ search[m].stage = "enter"

(* The same for the row of the search's own user: once the user is in a    *)
(* session, whoever opened it answers for the row.                         *)
HoldsClaiming(m, u) ==
    \/ Who(m) = u /\ search[m].stage \in {"find", "judge", "reject", "release", "enter", "giveback"}
    \/ Who(m) = u /\ search[m].stage \in {"open", "lost"} /\ ~InSession(u)
    \/ Cand(m) = u /\ search[m].stage \in {"enter", "enterPeer"}

ClaimsHeld ==
    \A u \in Users :
        /\ row[u] = "claimed" => u \in dropped \/ \E m \in Matchers : HoldsClaimed(m, u)
        /\ row[u] = "claiming" => u \in dropped \/ \E m \in Matchers : HoldsClaiming(m, u)

ClaimInv == ClaimsHeld /\ (Smooth => dropped = {})

(* With neither expiry nor pauses nor ends going on, a search has moved    *)
(* both rows of a session by the time it is done with the pair, unless     *)
(* they have been deleted as orphans; only rows of a session are moved;    *)
(* and rows are deleted in a session only.                                 *)
Opened == {"enter", "enterPeer", "final", "finalPeer"}
Claiming == Opened \cup {"judge", "reject", "open", "lost", "yield"}

Entering(m, u) ==
    \/ Who(m) = u /\ search[m].stage = "enter"
    \/ Cand(m) = u /\ search[m].stage \in {"enter", "enterPeer"}

Rowless(u) == row[u] = "none" /\ ~InSession(u)

ChatInv ==
    /\ \A m \in Matchers :
          /\ search[m].stage \notin {"idle", "join"} => ~Rowless(Who(m))
          /\ search[m].stage \in Claiming => ~Rowless(Cand(m))
          /\ search[m].stage \in Opened => Pair(m) \in sessions
    /\ \A u \in Users :
          /\ row[u] = "in_chat" => InSession(u)
          /\ InSession(u) => \/ row[u] \in {"none", "in_chat"}
                             \/ u \in dropped
                             \/ \E m \in Matchers : Entering(m, u)

(* With no repairs either, no row is deleted at all.                       *)
RowsStay == \A u \in Users : InSession(u) => row[u] # "none"

AloneInv == ChatInv /\ RowsStay /\ job = NoJob /\ leaver = NoJob /\ ender = NoEnd

-----------------------------------------------------------------------------
(* A write on a queue row changes that row alone, if at all.               *)
LEMMA RowTyped ==
    ASSUME row \in [Users -> RowStatus], NEW u, NEW from, NEW to \in RowStatus, SetRow(u, from, to)
    PROVE  /\ row' \in [Users -> RowStatus]
           /\ \A v \in Users : row'[v] = IF v = u /\ row[v] \in from THEN to ELSE row[v]
  BY DEF SetRow

(* What a write on the variables of a search leaves of them.               *)
LEMMA NoSearchTyped == NoSearch \in Search
<1>1. AnyUser \in Users
  BY RingAssumption DEF AnyUser
<1> QED
  BY <1>1, RingAssumption DEF NoSearch, Search, Stages

(* A step to another call: same user, candidate and lap.                   *)
LEMMA GotoTyped ==
    ASSUME search \in [Matchers -> Search], NEW m \in Matchers, NEW s \in Stages, Goto(m, s)
    PROVE  /\ search' \in [Matchers -> Search]
           /\ \A n \in Matchers \ {m} : search'[n] = search[n]
           /\ search'[m].stage = s /\ search'[m].laps = search[m].laps
           /\ Who(m)' = Who(m) /\ Cand(m)' = Cand(m)
  BY DEF Goto, Search, Who, Cand

(* The end of a search.                                                    *)
LEMMA ReturnTyped ==
    ASSUME search \in [Matchers -> Search], NEW m \in Matchers, Return(m)
    PROVE  /\ search' \in [Matchers -> Search]
           /\ \A n \in Matchers \ {m} : search'[n] = search[n]
           /\ search'[m].stage = "idle"
<1>1. search' = [search EXCEPT ![m] = NoSearch]
  BY DEF Return
<1>2. NoSearch.stage = "idle"
  BY DEF NoSearch
<1> QED
  BY <1>1, <1>2, NoSearchTyped

(* The three ways a lost race goes on.                                     *)
LEMMA LostTo ==
    ASSUME NEW m \in Matchers, Lost(m)
    PROVE  \/ ~InSession(Who(m)) /\ Goto(m, "reject")
           \/ InSession(Who(m)) /\ {Who(m), Cand(m)} \in sessions /\ Matched(m)
           \/ InSession(Who(m)) /\ {Who(m), Cand(m)} \notin sessions /\ Goto(m, "yield")
<1>1. {Who(m), Cand(m)} \in sessions => InSession(Who(m))
  BY DEF InSession
<1> QED
  BY <1>1, ZenonT(30) DEF Lost

(* A search begins for a user ...                                          *)
LEMMA StartTyped ==
    ASSUME search \in [Matchers -> Search], NEW m \in Matchers, NEW u \in Users, NEW s \in Stages,
           search' = [search EXCEPT ![m].stage = s, ![m].who = u]
    PROVE  /\ search' \in [Matchers -> Search]
           /\ \A n \in Matchers \ {m} : search'[n] = search[n]
           /\ search'[m].stage = s /\ Who(m)' = u /\ Cand(m)' = Cand(m)
<1>1. search[m] \in Search
  OBVIOUS
<1>2. /\ \A n \in Matchers \ {m} : search'[n] = search[n]
      /\ search'[m] = [search[m] EXCEPT !.stage = s, !.who = u]
      /\ search' \in [Matchers -> {search[n] : n \in Matchers} \cup {search'[m]}]
  OBVIOUS
<1>3. /\ search'[m] \in Search
      /\ search'[m].stage = s /\ search'[m].who = u /\ search'[m].cand = search[m].cand
  BY <1>1, <1>2 DEF Search
<1> QED
  BY <1>2, <1>3 DEF Who, Cand

(* ... takes or drops a candidate ...                                      *)
LEMMA CandidateTyped ==
    ASSUME search \in [Matchers -> Search], NEW m \in Matchers, NEW s \in Stages, NEW c \in Users,
           NEW t \in SUBSET Users,
           search' = [search EXCEPT ![m].stage = s, ![m].cand = c, ![m].tried = t]
    PROVE  /\ search' \in [Matchers -> Search]
           /\ \A n \in Matchers \ {m} : search'[n] = search[n]
           /\ search'[m].stage = s /\ Who(m)' = Who(m) /\ Cand(m)' = c
<1>1. search[m] \in Search
  OBVIOUS
<1>2. /\ \A n \in Matchers \ {m} : search'[n] = search[n]
      /\ search'[m] = [search[m] EXCEPT !.stage = s, !.cand = c, !.tried = t]
      /\ search' \in [Matchers -> {search[n] : n \in Matchers} \cup {search'[m]}]
  OBVIOUS
<1>3. /\ search'[m] \in Search
      /\ search'[m].stage = s /\ search'[m].who = search[m].who /\ search'[m].cand = c
  BY <1>1, <1>2 DEF Search
<1> QED
  BY <1>2, <1>3 DEF Who, Cand

(* ... and goes round its settle loop, never more than MaxLaps times.      *)
LEMMA LapTyped ==
    ASSUME search \in [Matchers -> Search], NEW m \in Matchers, NEW s \in Stages,
           search[m].laps # MaxLaps,
           search' = [search EXCEPT ![m].laps = @ + 1, ![m].stage = s]
    PROVE  /\ search' \in [Matchers -> Search]
           /\ \A n \in Matchers \ {m} : search'[n] = search[n]
           /\ search'[m].stage = s /\ Who(m)' = Who(m) /\ Cand(m)' = Cand(m)
<1>1. search[m].laps + 1 \in 0..MaxLaps
  BY RingAssumption DEF Search
<1>2. search[m] \in Search
  OBVIOUS
<1>3. /\ \A n \in Matchers \ {m} : search'[n] = search[n]
      /\ search'[m] = [search[m] EXCEPT !.laps = @ + 1, !.stage = s]
      /\ search' \in [Matchers -> {search[n] : n \in Matchers} \cup {search'[m]}]
  OBVIOUS
<1>4. /\ search'[m] \in Search
      /\ search'[m].stage = s /\ search'[m].who = search[m].who /\ search'[m].cand = search[m].cand
  BY <1>1, <1>2, <1>3 DEF Search
<1> QED
  BY <1>3, <1>4 DEF Who, Cand

(* A search that fails writes nothing: it ends, or goes to give its own    *)
(* row back, and what it held and does not give back is dropped.           *)
LEMMA FailFlow ==
    ASSUME search \in [Matchers -> Search], NEW m \in Matchers, Fail(m)
    PROVE  /\ search' \in [Matchers -> Search] /\ search[m].stage # "idle"
           /\ UNCHANGED <<row, sessions, told, clicks, job, leaver, ender, crashes>>
           /\ failures < MaxFailures /\ failures' = failures + 1
           /\ dropped \subseteq dropped' /\ dropped' \subseteq dropped \cup Users
           /\ \A n \in Matchers \ {m} : search'[n] = search[n]
           /\ \/ /\ search'[m].stage = "idle"
                 /\ \A u \in Users : Holds(m, u) => u \in dropped'
              \/ /\ search'[m].stage = "giveback" /\ Who(m)' = Who(m)
                 /\ search[m].stage \notin {"join", "claim"}
                 /\ \A u \in Users : \/ HoldsPeer(m, u)
                                     \/ u = Who(m) /\ search[m].stage = "enter"
                                     => u \in dropped'
<1>1. CASE FailReleasing(m)
  <2>1. "giveback" \in Stages
    BY DEF Stages
  <2> QED
    BY <1>1, <2>1, GotoTyped DEF FailReleasing, FailWith
<1>2. CASE FailKeeping(m)
  BY <1>2, ReturnTyped DEF FailKeeping, FailWith
<1> QED
  BY <1>1, <1>2 DEF Fail

-----------------------------------------------------------------------------
(* A step of a search touches rows, sessions and itself.                   *)
LEMMA SearchTyped ==
    ASSUME TypeOK, UNCHANGED <<told, others>>,
           row' \in [Users -> RowStatus], sessions' \subseteq SUBSET Users,
           search' \in [Matchers -> Search]
    PROVE  TypeOK'
  BY DEF TypeOK, others

(* Every step of a search keeps the types, one step per group of actions.  *)
LEMMA SearchKeepsType ==
    ASSUME TypeOK, NEW m \in Matchers, SearchStep(m)
    PROVE  TypeOK'
<1>1. /\ row \in [Users -> RowStatus] /\ search \in [Matchers -> Search]
      /\ sessions \subseteq SUBSET Users
      /\ Who(m) \in Users /\ Cand(m) \in Users /\ AnyUser \in Users
      /\ search[m].tried \in SUBSET Users
  BY RingAssumption DEF TypeOK, Search, Who, Cand, AnyUser
<1>2. UNCHANGED <<told, others>>
  BY DEF SearchStep, At, Join, ClaimSelf, Find, NoCandidate, Judge, Reject, Open, Lost, Yield,
     Enter, EnterPeer, Final, FinalPeer, Release, Confirm, Doubt, Heal, Settle, Reclaim, GiveBack
<1>3. \A s \in {"claim", "find", "judge", "reject", "open", "lost", "yield",
         "enter", "enterPeer", "final", "finalPeer", "release", "confirm", "doubt", "heal",
         "settle", "reclaim", "giveback"} : s \in Stages
  BY DEF Stages
<1>5. Matched(m) => search' \in [Matchers -> Search]
  BY <1>1, <1>3, GotoTyped, ReturnTyped DEF Matched
<1>6. CASE Join(m)
  BY <1>1, <1>2, <1>3, <1>6, RowTyped, GotoTyped, ReturnTyped, SearchTyped DEF Join, RowStatus
<1>7. CASE \/ ClaimSelf(m) \/ Reclaim(m) \/ GiveBack(m) \/ Heal(m)
           \/ Reject(m) \/ Enter(m) \/ EnterPeer(m) \/ Final(m)
  BY <1>1, <1>2, <1>3, <1>7, RowTyped, GotoTyped, ReturnTyped, SearchTyped
  DEF ClaimSelf, Reclaim, GiveBack, Heal, Reject, Enter, EnterPeer, Final, RowStatus,
      QueueClaimSelf, QueueReleaseSelf, QueueRelease, QueueIntoChat
<1>8. CASE Find(m)
  <2>1. PICK c \in Candidates(m) :
          /\ SetRow(c, MATCHABLE, "claimed")
          /\ search' = [search EXCEPT ![m].stage = "judge", ![m].cand = c,
                                       ![m].tried = @ \cup {c}]
    BY <1>8 DEF Find
  <2>2. search[m].tried \cup {c} \in SUBSET Users /\ c \in Users
    BY <1>1 DEF Candidates
  <2>3. search' \in [Matchers -> Search]
    BY <1>1, <1>3, <2>1, <2>2, CandidateTyped
  <2> QED
    BY <1>1, <1>2, <1>8, <2>1, <2>3, RowTyped, SearchTyped DEF Find, RowStatus
<1>9. CASE NoCandidate(m)
  <2>1. search' \in [Matchers -> Search]
    BY <1>1, <1>3, <1>9, CandidateTyped DEF NoCandidate
  <2> QED
    BY <1>1, <1>2, <1>9, <2>1, SearchTyped DEF NoCandidate
<1>10. CASE Judge(m)
  BY <1>1, <1>2, <1>3, <1>10, GotoTyped, SearchTyped DEF Judge
<1>11. CASE Open(m)
  BY <1>1, <1>2, <1>3, <1>11, GotoTyped, SearchTyped DEF Open
<1>12. CASE Lost(m)
  <2>1. search' \in [Matchers -> Search]
    BY <1>1, <1>3, <1>5, <1>12, LostTo, GotoTyped
  <2> QED
    BY <1>1, <1>2, <1>12, <2>1, SearchTyped DEF Lost
<1>13. CASE Yield(m) \/ FinalPeer(m)
  BY <1>1, <1>2, <1>5, <1>13, RowTyped, SearchTyped DEF Yield, FinalPeer, QueueRelease, RowStatus
<1>14. CASE Release(m)
  <2>1. search' \in [Matchers -> Search]
    BY <1>1, <1>3, <1>14, GotoTyped DEF Release
  <2> QED
    BY <1>1, <1>2, <1>14, <2>1, RowTyped, SearchTyped DEF Release, QueueReleaseSelf, RowStatus
<1>15. CASE Confirm(m) \/ Doubt(m)
  BY <1>1, <1>2, <1>3, <1>15, GotoTyped, ReturnTyped, SearchTyped DEF Confirm, Doubt, Adopt
<1>16. CASE Settle(m)
  <2>1. search' \in [Matchers -> Search]
    BY <1>1, <1>3, <1>16, LapTyped, ReturnTyped DEF Settle
  <2> QED
    BY <1>1, <1>2, <1>16, <2>1, SearchTyped DEF Settle
<1> QED
  BY <1>6, <1>7, <1>8, <1>9, <1>10, <1>11, <1>12, <1>13, <1>14, <1>15, <1>16 DEF SearchStep

(* So does every step of the expiry and repair job.                        *)
LEMMA JobKeepsType ==
    ASSUME TypeOK,
           JobStep \/ \E u \in Users : Expire(u) \/ RepairClaims(u) \/ FindOrphan(u)
    PROVE  TypeOK'
<1> USE DEF JobOnly
<1>1. /\ row \in [Users -> RowStatus] /\ job.who \in Users
      /\ NoJob \in [stage : {"idle", "session", "leaveif", "leave", "mark", "orphan"}, who : Users]
  BY RingAssumption DEF TypeOK, NoJob, AnyUser
<1>2. ASSUME NEW u \in Users, NEW s \in {"session", "leaveif", "leave", "mark", "orphan"},
             JobDone \/ JobTo(s, u), JobOnly, UNCHANGED told, row' \in [Users -> RowStatus]
      PROVE  TypeOK'
  BY <1>1, <1>2 DEF TypeOK, JobDone, JobTo
<1>3. CASE ExpireSession
  BY <1>1, <1>2, <1>3 DEF ExpireSession, LeaveAnyway
<1>4. CASE ExpireLeaveIf
  BY <1>1, <1>2, <1>4, RowTyped DEF ExpireLeaveIf, LeaveAnyway, RowStatus
<1>5. CASE StaleLeave
  BY <1>1, <1>2, <1>5, RowTyped DEF StaleLeave, RowStatus, QueueLeave
<1>6. CASE ExpireMark
  <2>1. told' \in [Users -> SUBSET {"expired", "paused"}]
    BY <1>6 DEF ExpireMark, TypeOK
  <2> QED
    BY <1>1, <1>6, <2>1 DEF ExpireMark, JobDone, TypeOK
<1>7. CASE DropOrphan
  BY <1>1, <1>2, <1>7, RowTyped DEF DropOrphan, RowStatus, QueueLeave
<1>8. ASSUME NEW u \in Users, Expire(u) \/ FindOrphan(u)
      PROVE  TypeOK'
  BY <1>1, <1>2, <1>8 DEF Expire, FindOrphan
<1>9. ASSUME NEW u \in Users, RepairClaims(u)
      PROVE  TypeOK'
  <2>1. row' \in [Users -> RowStatus]
    BY <1>1, <1>9, RowTyped DEF RepairClaims, RowStatus, QueueRelease
  <2> QED
    BY <1>9, <2>1 DEF RepairClaims, TypeOK
<1> QED
  BY <1>3, <1>4, <1>5, <1>6, <1>7, <1>8, <1>9 DEF JobStep

(* So does every step of a pause, of the end of a session and a crash.     *)
LEMMA OthersKeepType ==
    ASSUME TypeOK,
           \/ \E u \in Users : Pause(u)
           \/ PauseLeave \/ PauseFlag
           \/ \E s \in sessions : \E next \in {{}} \cup {{u} : u \in s} : End(s, next)
           \/ EndStep \/ Restart
    PROVE  TypeOK'
<1>1. /\ row \in [Users -> RowStatus] /\ AnyUser \in Users
      /\ leaver.who \in Users /\ ender.left \in SUBSET Users /\ ender.next \in SUBSET Users
      /\ NoJob.stage = "idle" /\ NoJob.who = AnyUser
      /\ NoEnd.stage = "idle" /\ NoEnd.left = {} /\ NoEnd.next = {}
  BY RingAssumption DEF TypeOK, NoJob, NoEnd, AnyUser
<1>2. /\ NoJob \in [stage : {"idle"}, who : Users]
      /\ NoEnd \in [stage : {"idle"}, left : SUBSET Users, next : SUBSET Users]
  BY <1>1 DEF NoJob, NoEnd
<1>3. ASSUME NEW u \in Users, Pause(u)
      PROVE  TypeOK'
  BY <1>3 DEF Pause, LeaverOnly, TypeOK
<1>4. CASE PauseLeave
  <2>1. row' \in [Users -> RowStatus]
    BY <1>1, <1>4, RowTyped DEF PauseLeave, RowStatus, QueueLeave
  <2> QED
    BY <1>4, <2>1 DEF PauseLeave, LeaverOnly, TypeOK
<1>5. CASE PauseFlag
  <2>1. told' \in [Users -> SUBSET {"expired", "paused"}]
    BY <1>5 DEF PauseFlag, TypeOK
  <2> QED
    BY <1>2, <1>5, <2>1 DEF PauseFlag, LeaverOnly, TypeOK
<1>6. ASSUME NEW s \in sessions, NEW next \in {{}} \cup {{u} : u \in s}, End(s, next)
      PROVE  TypeOK'
  <2>1. s \in SUBSET Users /\ next \in SUBSET Users
    BY <1>6 DEF TypeOK
  <2> QED
    BY <1>6, <2>1 DEF End, EnderOnly, TypeOK
<1>7. ASSUME NEW u \in Users, EndLeave(u)
      PROVE  TypeOK'
  <2>1. row' \in [Users -> RowStatus]
    BY <1>1, <1>7, RowTyped DEF EndLeave, RowStatus, QueueLeave
  <2>2. ender' \in [stage : {"idle", "leave", "requeue"}, left : SUBSET Users, next : SUBSET Users]
    BY <1>7 DEF EndLeave, TypeOK
  <2> QED
    BY <1>7, <2>1, <2>2 DEF EndLeave, EnderOnly, TypeOK
<1>8. CASE EndRequeue
  <2>1. row' \in [Users -> RowStatus]
    BY <1>1, <1>8, RowTyped DEF EndRequeue, RowStatus, QueueRequeue
  <2> QED
    BY <1>2, <1>8, <2>1 DEF EndRequeue, EnderOnly, TypeOK
<1>9. CASE Restart
  <2>1. row' \in [Users -> RowStatus]
    BY <1>1, <1>9 DEF Restart, RowStatus
  <2>2. search' \in [Matchers -> Search]
    BY <1>9, NoSearchTyped DEF Restart
  <2>3. crashes' \in 0..MaxCrashes
    BY <1>9, RingAssumption DEF Restart, TypeOK
  <2>4. dropped' \subseteq Users
    BY <1>9 DEF Restart, TypeOK
  <2> QED
    BY <1>2, <1>9, <2>1, <2>2, <2>3, <2>4 DEF Restart, TypeOK
<1> QED
  BY <1>3, <1>4, <1>5, <1>6, <1>7, <1>8, <1>9 DEF EndStep

(* The types hold at the start ...                                         *)
LEMMA TypeInit == Init => TypeOK
  BY NoSearchTyped, RingAssumption DEF Init, TypeOK, NoJob, NoEnd, AnyUser, RowStatus

(* ... and every step keeps them.                                          *)
LEMMA TypeStep == TypeOK /\ [Next]_vars => TypeOK'
<1> SUFFICES ASSUME TypeOK, [Next]_vars
             PROVE  TypeOK'
  OBVIOUS
<1>1. ASSUME NEW m \in Matchers, NEW u \in Users, Click(m, u)
      PROVE  TypeOK'
  <2>1. search' \in [Matchers -> Search]
    BY <1>1, StartTyped DEF Click, TypeOK, Stages
  <2>2. clicks' \in [Users -> Nat] /\ \A v \in Users : clicks'[v] <= MaxClicks[v]
    <3>1. \A v \in Users : clicks'[v] = IF v = u THEN clicks[u] + 1 ELSE clicks[v]
      BY <1>1 DEF Click, TypeOK
    <3>2. clicks[u] + 1 <= MaxClicks[u]
      <4>1. clicks[u] \in Nat /\ MaxClicks[u] \in Nat
        BY RingAssumption DEF TypeOK
      <4>2. clicks[u] < MaxClicks[u]
        BY <1>1 DEF Click
      <4> QED
        BY <4>1, <4>2
    <3>3. clicks' \in [Users -> Nat]
      BY <1>1 DEF Click, TypeOK
    <3> QED
      BY <3>1, <3>2, <3>3 DEF TypeOK
  <2>3. told' \in [Users -> SUBSET {"expired", "paused"}]
    BY <1>1 DEF Click, TypeOK
  <2> QED
    BY <1>1, <2>1, <2>2, <2>3 DEF Click, TypeOK
<1>2. ASSUME NEW u \in Users, Sweep(u)
      PROVE  TypeOK'
  <2>1. search' \in [Matchers -> Search]
    BY <1>2, RingAssumption, StartTyped DEF Sweep, TypeOK, Stages
  <2> QED
    BY <1>2, <2>1, SearchTyped DEF Sweep, At, TypeOK
<1>3. CASE UNCHANGED vars
  BY <1>3 DEF vars, others, TypeOK
<1>4. ASSUME NEW m \in Matchers, Fail(m)
      PROVE  TypeOK'
  <2>1. search \in [Matchers -> Search]
    BY DEF TypeOK
  <2>2. failures' \in 0..MaxFailures
    BY <1>4, <2>1, FailFlow, RingAssumption DEF TypeOK
  <2>3. dropped' \subseteq Users
    BY <1>4, <2>1, FailFlow DEF TypeOK
  <2> QED
    BY <1>4, <2>1, <2>2, <2>3, FailFlow DEF TypeOK
<1> QED
  BY <1>1, <1>2, <1>3, <1>4, SearchKeepsType, JobKeepsType, OthersKeepType DEF Next

(* Rows only hold statuses the queue knows, users click no more than they  *)
(* may, and a search never runs out of the rounds of its settle loop.      *)
THEOREM RingTypes == Spec => []TypeOK
  BY TypeInit, TypeStep, PTL DEF Spec

-----------------------------------------------------------------------------
(* Search m goes from one call to one of some others, with the same user   *)
(* and candidate unless it ends.                                           *)
Moves(m, from, to) ==
    /\ search[m].stage = from /\ search'[m].stage \in to
    /\ search'[m].stage # "idle" => Who(m)' = Who(m) /\ Cand(m)' = Cand(m)
    /\ \A n \in Matchers \ {m} : search'[n] = search[n]

(* Goto is such a step ...                                                 *)
LEMMA GotoMoves ==
    ASSUME TypeOK, NEW m \in Matchers, NEW s \in Stages, Goto(m, s)
    PROVE  Moves(m, search[m].stage, {s})
  BY GotoTyped DEF TypeOK, Moves

(* ... and so is Return.                                                   *)
LEMMA ReturnMoves ==
    ASSUME TypeOK, NEW m \in Matchers, Return(m)
    PROVE  Moves(m, search[m].stage, {"idle"})
  BY ReturnTyped DEF TypeOK, Moves

(* The stages a search goes through, one line per action.                  *)
LEMMA SearchMoves ==
    ASSUME TypeOK, NEW m \in Matchers
    PROVE  /\ Join(m) => Moves(m, "join", {"claim", "idle"})
           /\ ClaimSelf(m) => Moves(m, "claim", {"find", "idle"})
           /\ Judge(m) => Moves(m, "judge", {"open", "reject"})
           /\ Reject(m) => Moves(m, "reject", {"find"})
           /\ Open(m) => Moves(m, "open", {"lost", "enter"})
           /\ Lost(m) => Moves(m, "lost", {"reject", "giveback", "idle", "yield"})
           /\ Yield(m) => Moves(m, "yield", {"giveback", "idle"})
           /\ Enter(m) => Moves(m, "enter", {"enterPeer"})
           /\ EnterPeer(m) => Moves(m, "enterPeer", {"final"})
           /\ Final(m) => Moves(m, "final", {"finalPeer"})
           /\ FinalPeer(m) => Moves(m, "finalPeer", {"giveback", "idle"})
           /\ Release(m) => Moves(m, "release", {"settle", "confirm", "doubt"})
           /\ Confirm(m) => Moves(m, "confirm", {"settle", "idle"})
           /\ Doubt(m) => Moves(m, "doubt", {"heal", "idle"})
           /\ Heal(m) => Moves(m, "heal", {"settle"})
           /\ Settle(m) => Moves(m, "settle", {"settle", "reclaim", "idle"})
           /\ Reclaim(m) => Moves(m, "reclaim", {"find"})
           /\ GiveBack(m) => Moves(m, "giveback", {"idle"})
<1> DEFINE Named == {"claim", "find", "open", "reject", "lost", "enter", "giveback", "yield",
                     "enterPeer", "final", "finalPeer", "settle", "confirm", "doubt", "heal",
                     "reclaim"}
<1>1. \A s \in Named : s \in Stages
  BY DEF Stages
<1>2. \A s \in Named : Goto(m, s) => Moves(m, search[m].stage, {s})
  BY <1>1, GotoMoves
<1>3. Return(m) => Moves(m, search[m].stage, {"idle"})
  BY ReturnMoves
<1>4. Matched(m) => Moves(m, search[m].stage, {"giveback", "idle"})
  BY <1>2, <1>3 DEF Matched, Moves
<1>5. /\ Join(m) => Moves(m, "join", {"claim", "idle"})
      /\ ClaimSelf(m) => Moves(m, "claim", {"find", "idle"})
  BY <1>2, <1>3 DEF Join, ClaimSelf, At, Moves
<1>6. /\ Judge(m) => Moves(m, "judge", {"open", "reject"})
      /\ Open(m) => Moves(m, "open", {"lost", "enter"})
  BY <1>2 DEF Judge, Open, At, Moves
<1>7. Lost(m) => Moves(m, "lost", {"reject", "giveback", "idle", "yield"})
  <2>1. Lost(m) => search[m].stage = "lost"
    BY DEF Lost, At
  <2> QED
    BY <1>2, <1>4, <2>1, LostTo DEF Moves
<1>8. Release(m) => Moves(m, "release", {"settle", "confirm", "doubt"})
  BY <1>2 DEF Release, At, Moves
<1>9. Settle(m) => Moves(m, "settle", {"settle", "reclaim", "idle"})
  BY <1>1, <1>3, LapTyped DEF Settle, At, Moves, TypeOK
<1>10. /\ Reject(m) => Moves(m, "reject", {"find"})
       /\ Heal(m) => Moves(m, "heal", {"settle"})
       /\ Reclaim(m) => Moves(m, "reclaim", {"find"})
       /\ GiveBack(m) => Moves(m, "giveback", {"idle"})
  BY <1>2, <1>3 DEF Reject, Heal, Reclaim, GiveBack, At, Moves
<1>11. /\ Enter(m) => Moves(m, "enter", {"enterPeer"})
       /\ EnterPeer(m) => Moves(m, "enterPeer", {"final"})
       /\ Final(m) => Moves(m, "final", {"finalPeer"})
  BY <1>2 DEF Enter, EnterPeer, Final, At, Moves
<1>12. /\ Yield(m) => Moves(m, "yield", {"giveback", "idle"})
       /\ FinalPeer(m) => Moves(m, "finalPeer", {"giveback", "idle"})
  BY <1>4 DEF Yield, FinalPeer, At, Moves
<1>13. /\ Confirm(m) => Moves(m, "confirm", {"settle", "idle"})
       /\ Doubt(m) => Moves(m, "doubt", {"heal", "idle"})
  BY <1>2, <1>3 DEF Confirm, Doubt, Adopt, At, Moves
<1> QED
  BY <1>5, <1>6, <1>7, <1>8, <1>9, <1>10, <1>11, <1>12, <1>13

(* The three actions that give a search another user or candidate.         *)
LEMMA FindMoves ==
    ASSUME TypeOK, NEW m \in Matchers, Find(m)
    PROVE  \E c \in Users :
              /\ row[c] \in MATCHABLE /\ c # Who(m)
              /\ \A v \in Users : row'[v] = IF v = c THEN "claimed" ELSE row[v]
              /\ search[m].stage = "find" /\ search'[m].stage = "judge"
              /\ Who(m)' = Who(m) /\ Cand(m)' = c
              /\ \A n \in Matchers \ {m} : search'[n] = search[n]
<1>1. PICK c \in Candidates(m) :
         /\ SetRow(c, MATCHABLE, "claimed")
         /\ search' = [search EXCEPT ![m].stage = "judge", ![m].cand = c,
                                      ![m].tried = @ \cup {c}]
  BY DEF Find
<1>2. /\ c \in Users /\ row[c] \in MATCHABLE /\ c # Who(m)
      /\ search[m].tried \cup {c} \in SUBSET Users
  BY DEF Candidates, TypeOK, Search
<1>3. /\ search'[m].stage = "judge" /\ Who(m)' = Who(m) /\ Cand(m)' = c
      /\ \A n \in Matchers \ {m} : search'[n] = search[n]
  <2>1. "judge" \in Stages /\ search \in [Matchers -> Search] /\ c \in Users
    BY <1>2 DEF Stages, TypeOK
  <2>2. search' \in [Matchers -> Search] /\ \A n \in Matchers \ {m} : search'[n] = search[n]
    BY <1>1, <1>2, <2>1, CandidateTyped
  <2>3. search'[m].stage = "judge" 
    BY <1>1, <1>2, <2>1, CandidateTyped
  <2>4. Who(m)' = Who(m)
    BY <1>1, <1>2, <2>1, CandidateTyped
  <2>5. Cand(m)' = c
    BY <1>1, <1>2, <2>1, CandidateTyped
  <2> QED
    BY <2>2, <2>3, <2>4, <2>5
<1>4. \A v \in Users : row'[v] = IF v = c THEN "claimed" ELSE row[v]
  BY <1>1, <1>2, RowTyped DEF TypeOK, RowStatus
<1>5. search[m].stage = "find"
  BY DEF Find, At
<1> QED
  BY <1>2, <1>3, <1>4, <1>5

(* A search that finds nobody forgets its candidate.                       *)
LEMMA NoCandidateMoves ==
    ASSUME TypeOK, NEW m \in Matchers, NoCandidate(m)
    PROVE  /\ search[m].stage = "find" /\ search'[m].stage = "release"
           /\ Who(m)' = Who(m)
           /\ \A n \in Matchers \ {m} : search'[n] = search[n]
<1>1. AnyUser \in Users /\ {} \in SUBSET Users /\ "release" \in Stages
  BY RingAssumption DEF AnyUser, Stages
<1> QED
  BY <1>1, CandidateTyped DEF NoCandidate, At, TypeOK

(* A click or the sweep sets an idle search to work.                       *)
LEMMA StartMoves ==
    ASSUME TypeOK, NEW u \in Users, NEW m \in Matchers,
           Click(m, u) \/ (m = Sweeper /\ Sweep(u))
    PROVE  /\ search[m].stage = "idle" /\ search'[m].stage \in {"join", "claim"}
           /\ search'[m].stage = "claim" => row[u] = "waiting"
           /\ Who(m)' = u
           /\ \A n \in Matchers \ {m} : search'[n] = search[n]
<1>1. search \in [Matchers -> Search] /\ "join" \in Stages /\ "claim" \in Stages
  BY DEF TypeOK, Stages
<1>2. CASE Click(m, u)
  BY <1>1, <1>2, StartTyped DEF Click
<1>3. CASE m = Sweeper /\ Sweep(u)
  BY <1>1, <1>3, StartTyped DEF Sweep, At
<1> QED
  BY <1>2, <1>3

-----------------------------------------------------------------------------
(* A step that inserts no session and readies no search to insert one.     *)
LEMMA SessionsKept ==
    ASSUME SessionInv, sessions' \subseteq sessions,
           \A n \in Matchers : search'[n].stage = "open" =>
               search[n].stage = "open" /\ Who(n)' = Who(n) /\ Cand(n)' = Cand(n)
    PROVE  SessionInv'
  BY DEF SessionInv, SessionsArePairs, OpensCompatible

(* Only Open inserts a session, of two users in none, and only Judge leads *)
(* there, with an acceptable pair.                                         *)
LEMMA SearchKeepsSessions ==
    ASSUME TypeOK, SessionInv, NEW m \in Matchers, SearchStep(m)
    PROVE  SessionInv'
<1>1. \A n \in Matchers \ {m} : search'[n] = search[n] => Who(n)' = Who(n) /\ Cand(n)' = Cand(n)
  BY DEF Who, Cand
<1>2. CASE Open(m)
  <2>1. Moves(m, "open", {"lost", "enter"})
    BY <1>2, SearchMoves
  <2>2. CASE InSession(Who(m)) \/ InSession(Cand(m))
    BY <1>1, <1>2, <2>1, <2>2, SessionsKept DEF Open, Moves
  <2>3. CASE ~(InSession(Who(m)) \/ InSession(Cand(m)))
    <3>1. sessions' = sessions \cup {{Who(m), Cand(m)}}
      BY <1>2, <2>3 DEF Open
    <3>2. {Who(m), Cand(m)} \in Compatible
      BY <2>1 DEF Moves, SessionInv, OpensCompatible
    <3>3. \A s \in sessions : s \cap {Who(m), Cand(m)} = {}
      BY <2>3 DEF InSession
    <3>4. SessionsArePairs'
      BY <3>1, <3>2, <3>3 DEF SessionInv, SessionsArePairs
    <3>5. OpensCompatible'
      BY <1>1, <2>1 DEF Moves, SessionInv, OpensCompatible
    <3> QED
      BY <3>4, <3>5 DEF SessionInv
  <2> QED
    BY <2>2, <2>3
<1>3. CASE Judge(m)
  <2>1. Moves(m, "judge", {"open", "reject"}) /\ sessions' = sessions
    BY <1>3, SearchMoves DEF Judge
  <2>2. search'[m].stage = "open" => {Who(m), Cand(m)} \in Compatible
    <3>1. CASE Acceptable(Who(m), Cand(m))
      BY <3>1 DEF Acceptable
    <3>2. CASE ~Acceptable(Who(m), Cand(m))
      <4>1. Goto(m, "reject") /\ "reject" \in Stages
        BY <1>3, <3>2 DEF Judge, Stages
      <4> QED
        BY <4>1, GotoTyped DEF TypeOK
    <3> QED
      BY <3>1, <3>2
  <2>3. OpensCompatible'
    BY <1>1, <2>1, <2>2 DEF Moves, SessionInv, OpensCompatible
  <2> QED
    BY <2>1, <2>3 DEF SessionInv, SessionsArePairs
<1>4. CASE Find(m) \/ NoCandidate(m)
  BY <1>1, <1>4, FindMoves, NoCandidateMoves, SessionsKept DEF Find, NoCandidate
<1>5. CASE ~(Open(m) \/ Judge(m) \/ Find(m) \/ NoCandidate(m))
  <2>1. sessions' = sessions
    BY <1>5 DEF SearchStep, Join, ClaimSelf, Reject, Lost, Yield, Enter, EnterPeer, Final,
       FinalPeer, Release, Confirm, Doubt, Heal, Settle, Reclaim, GiveBack, Adopt
  <2>2. /\ search'[m].stage # "open"
        /\ \A n \in Matchers \ {m} : search'[n] = search[n]
    BY <1>5, SearchMoves DEF SearchStep, Moves
  <2> QED
    BY <1>1, <2>1, <2>2, SessionsKept
<1> QED
  BY <1>2, <1>3, <1>4, <1>5

(* Every step keeps the sessions exclusive.                                *)
LEMMA SessionStep == TypeOK /\ SessionInv /\ [Next]_vars => SessionInv'
<1> SUFFICES ASSUME TypeOK, SessionInv, [Next]_vars
             PROVE  SessionInv'
  OBVIOUS
<1>1. ASSUME NEW m \in Matchers, NEW u \in Users, Click(m, u) \/ (m = Sweeper /\ Sweep(u))
      PROVE  SessionInv'
  <2>1. sessions' = sessions
    BY <1>1 DEF Click, Sweep
  <2> QED
    BY <1>1, <2>1, StartMoves, SessionsKept DEF Who, Cand
<1>2. CASE UNCHANGED <<search, sessions>>
  BY <1>2, SessionsKept DEF Who, Cand
<1>3. ASSUME JobStep \/ \E u \in Users : Expire(u) \/ RepairClaims(u) \/ FindOrphan(u)
      PROVE  UNCHANGED <<search, sessions>>
  BY <1>3 DEF JobStep, ExpireSession, ExpireLeaveIf, StaleLeave, ExpireMark, DropOrphan,
     Expire, RepairClaims, FindOrphan, JobOnly
<1>4. ASSUME NEW s \in sessions, NEW next, End(s, next)
      PROVE  SessionInv'
  BY <1>4, SessionsKept DEF End, EnderOnly, Who, Cand
<1>5. ASSUME EndStep \/ PauseLeave \/ PauseFlag \/ (\E u \in Users : Pause(u)) \/ UNCHANGED vars
      PROVE  UNCHANGED <<search, sessions>>
  BY <1>5 DEF EndStep, EndLeave, EndRequeue, PauseLeave, PauseFlag, Pause, LeaverOnly, EnderOnly, vars
<1>6. CASE Restart
  <2>1. sessions' = sessions /\ \A n \in Matchers : search'[n].stage = "idle"
    BY <1>6 DEF Restart, NoSearch
  <2> QED
    BY <2>1, SessionsKept
<1>7. Sweeper \in Matchers
  BY RingAssumption
<1>8. ASSUME NEW m \in Matchers, Fail(m)
      PROVE  SessionInv'
  <2>1. search \in [Matchers -> Search]
    BY DEF TypeOK
  <2>2. /\ sessions' = sessions /\ search'[m].stage \in {"idle", "giveback"}
        /\ \A n \in Matchers \ {m} : search'[n] = search[n]
    BY <1>8, <2>1, FailFlow
  <2> QED
    BY <2>2, SessionsKept DEF Who, Cand
<1> QED
  BY <1>1, <1>2, <1>3, <1>4, <1>5, <1>6, <1>7, <1>8, SearchKeepsSessions DEF Next

(* A user is in one session at most, with one acceptable partner, whatever *)
(* the interleaving of searches, expiry, pauses, ends and crashes: the     *)
(* unique index on slots is all it takes, for the verdict that opens a     *)
(* session concerns nothing that changes.                                  *)
THEOREM ExclusiveSessions == Spec => []SessionsArePairs
<1>1. Init => SessionInv
  BY DEF Init, SessionInv, SessionsArePairs, OpensCompatible, NoSearch
<1>2. SessionInv => SessionsArePairs
  BY DEF SessionInv
<1> QED
  BY <1>1, <1>2, TypeInit, TypeStep, SessionStep, PTL DEF Spec

-----------------------------------------------------------------------------
(* A search touches no flag, no count and nobody else's business.          *)
LEMMA SearchFrame ==
    ASSUME NEW m \in Matchers, SearchStep(m)
    PROVE  UNCHANGED <<told, others>>
  BY DEF SearchStep, At, Join, ClaimSelf, Find, NoCandidate, Judge, Reject, Open, Lost, Yield, Enter,
     EnterPeer, Final, FinalPeer, Release, Confirm, Doubt, Heal, Settle, Reclaim, GiveBack

(* Search m answers for the claims it makes, and for those it held before. *)
ClaimsFollow(m) ==
    \A u \in Users :
        /\ row'[u] = "claimed" => \/ HoldsClaimed(m, u)'
                                  \/ row[u] = "claimed" /\ ~HoldsClaimed(m, u)
        /\ row'[u] = "claiming" => \/ HoldsClaiming(m, u)'
                                   \/ row[u] = "claiming" /\ ~HoldsClaiming(m, u)

(* A search that does nothing goes on answering for its claims while no    *)
(* session is inserted.                                                    *)
LEMMA StillHolds ==
    ASSUME NEW n, NEW u, search'[n] = search[n], sessions' \subseteq sessions
    PROVE  /\ HoldsClaimed(n, u) => HoldsClaimed(n, u)'
           /\ HoldsClaiming(n, u) => HoldsClaiming(n, u)'
  BY DEF HoldsClaimed, HoldsClaiming, Pair, Who, Cand, InSession

(* So the claims stay held when the search that moves answers for its own. *)
LEMMA ClaimsKept ==
    ASSUME ClaimsHeld, NEW m \in Matchers, sessions' \subseteq sessions, ClaimsFollow(m),
           dropped' = dropped,
           \A n \in Matchers \ {m} : search'[n] = search[n]
    PROVE  ClaimsHeld'
<1>1. \A n \in Matchers \ {m}, u \in Users :
         /\ HoldsClaimed(n, u) => HoldsClaimed(n, u)'
         /\ HoldsClaiming(n, u) => HoldsClaiming(n, u)'
  BY StillHolds
<1> QED
  BY <1>1 DEF ClaimsHeld, ClaimsFollow

(* A session that is inserted takes the claims on its two users over from  *)
(* everybody else.                                                         *)
LEMMA OpenKeepsClaims ==
    ASSUME TypeOK, ClaimsHeld, NEW m \in Matchers, Open(m)
    PROVE  ClaimsHeld'
<1>1. Moves(m, "open", {"lost", "enter"}) /\ row' = row
  BY SearchMoves DEF Open
<1>2. CASE InSession(Who(m)) \/ InSession(Cand(m))
  <2>1. sessions' = sessions /\ search'[m].stage = "lost"
    <3>1. Goto(m, "lost") /\ "lost" \in Stages
      BY <1>2 DEF Open, Stages
    <3> QED
      BY <1>2, <3>1, GotoTyped DEF Open, TypeOK
  <2>2. ClaimsFollow(m)
    BY <1>1, <2>1 DEF ClaimsFollow, Moves, HoldsClaimed, HoldsClaiming, Pair, InSession
  <2> QED
    BY <1>1, <2>1, <2>2, SearchFrame, ClaimsKept DEF Moves, others, SearchStep
<1>3. CASE ~(InSession(Who(m)) \/ InSession(Cand(m)))
  <2>1. sessions' = sessions \cup {Pair(m)} /\ search'[m].stage = "enter"
    <3>1. Goto(m, "enter") /\ "enter" \in Stages
      BY <1>3 DEF Open, Stages
    <3> QED
      BY <1>3, <3>1, GotoTyped DEF Open, TypeOK, Pair
  <2>2. \A u \in Pair(m) : HoldsClaimed(m, u)' /\ HoldsClaiming(m, u)'
    BY <1>1, <2>1 DEF Moves, Pair, HoldsClaimed, HoldsClaiming
  <2>3. \A u \in Users \ Pair(m) : ~HoldsClaimed(m, u) /\ ~HoldsClaiming(m, u)
    BY <1>1 DEF Moves, Pair, HoldsClaimed, HoldsClaiming
  <2>4. ASSUME NEW u \in Users \ Pair(m), NEW n \in Matchers \ {m}
        PROVE  /\ HoldsClaimed(n, u) => HoldsClaimed(n, u)'
               /\ HoldsClaiming(n, u) => HoldsClaiming(n, u)'
    <3>1. search'[n] = search[n]
      BY <1>1 DEF Moves
    <3>2. Cand(n) = u => Pair(n) # Pair(m)
      BY DEF Pair
    <3>3. InSession(u)' = InSession(u)
      BY <2>1 DEF InSession
    <3> QED
      BY <2>1, <3>1, <3>2, <3>3 DEF HoldsClaimed, HoldsClaiming, Who, Cand, Pair
  <2>5. dropped' = dropped
    BY SearchFrame DEF others, SearchStep
  <2> QED
    BY <1>1, <2>2, <2>3, <2>4, <2>5 DEF ClaimsHeld
<1> QED
  BY <1>2, <1>3

(* Every step of a search leaves somebody to answer for every claim.       *)
LEMMA SearchKeepsClaims ==
    ASSUME TypeOK, ClaimsHeld, NEW m \in Matchers, SearchStep(m)
    PROVE  ClaimsHeld'
<1> USE DEF Moves, HoldsClaimed, HoldsClaiming
<1>1. row \in [Users -> RowStatus]
  BY DEF TypeOK
<1>2. /\ "waiting" \in RowStatus /\ "claiming" \in RowStatus /\ "claimed" \in RowStatus
      /\ "in_chat" \in RowStatus
      /\ \A u \in Users : row[u] \in {"none", "waiting", "claiming", "claimed", "in_chat"}
  BY <1>1 DEF RowStatus
<1>3. ASSUME sessions' = sessions, ClaimsFollow(m), \A n \in Matchers \ {m} : search'[n] = search[n]
      PROVE  ClaimsHeld'
  BY <1>3, ClaimsKept, SearchFrame DEF others
<1>4. CASE Join(m)
  <2>1. Moves(m, "join", {"claim", "idle"})
    BY <1>4, SearchMoves
  <2>2. \A v \in Users : row'[v] \in {"claimed", "claiming"} => row'[v] = row[v]
    BY <1>1, <1>2, <1>4, RowTyped DEF Join
  <2>3. ClaimsFollow(m)
    BY <2>1, <2>2 DEF ClaimsFollow
  <2> QED
    BY <1>3, <1>4, <2>1, <2>3 DEF Join
<1>5. CASE ClaimSelf(m)
  <2>1. Moves(m, "claim", {"find", "idle"})
    BY <1>5, SearchMoves
  <2>2. \A v \in Users : row'[v] = IF v = Who(m) /\ row[v] = "waiting" THEN "claiming" ELSE row[v]
    BY <1>1, <1>2, <1>5, RowTyped DEF ClaimSelf, QueueClaimSelf
  <2>3. row[Who(m)] = "waiting" => search'[m].stage = "find"
    <3>1. "find" \in Stages /\ search \in [Matchers -> Search]
      BY DEF Stages, TypeOK
    <3> QED
      BY <1>5, <3>1, GotoTyped DEF ClaimSelf
  <2>4. ClaimsFollow(m)
    BY <2>1, <2>2, <2>3 DEF ClaimsFollow
  <2> QED
    BY <1>3, <1>5, <2>1, <2>4 DEF ClaimSelf
<1>6. CASE Find(m)
  <2>1. ClaimsFollow(m)
    BY <1>6, FindMoves DEF ClaimsFollow
  <2> QED
    BY <1>3, <1>6, <2>1, FindMoves DEF Find
<1>7. CASE NoCandidate(m)
  <2>1. ClaimsFollow(m)
    BY <1>7, NoCandidateMoves DEF ClaimsFollow, NoCandidate
  <2> QED
    BY <1>3, <1>7, <2>1, NoCandidateMoves DEF NoCandidate
<1>8. CASE Judge(m)
  <2>1. Moves(m, "judge", {"open", "reject"}) /\ sessions' = sessions /\ row' = row
    BY <1>8, SearchMoves DEF Judge
  <2>2. search'[m].stage = "open" => ~InSession(Who(m))
    <3>1. CASE ~Acceptable(Who(m), Cand(m))
      <4>1. Goto(m, "reject") /\ "reject" \in Stages
        BY <1>8, <3>1 DEF Judge, Stages
      <4> QED
        BY <4>1, GotoTyped DEF TypeOK
    <3> QED
      BY <3>1 DEF Acceptable
  <2>3. ClaimsFollow(m)
    BY <2>1, <2>2 DEF ClaimsFollow, Pair, InSession
  <2> QED
    BY <1>3, <2>1, <2>3
<1>9. CASE Reject(m)
  <2>1. Moves(m, "reject", {"find"})
    BY <1>9, SearchMoves
  <2>2. \A v \in Users : row'[v] = IF v = Cand(m) /\ row[v] \in {"claimed", "claiming"}
                                     THEN "waiting" ELSE row[v]
    BY <1>1, <1>2, <1>9, RowTyped DEF Reject, QueueRelease
  <2>3. ClaimsFollow(m)
    BY <2>1, <2>2 DEF ClaimsFollow
  <2> QED
    BY <1>3, <1>9, <2>1, <2>3 DEF Reject
<1>10. CASE Lost(m)
  <2>1. Moves(m, "lost", {"reject", "giveback", "idle", "yield"}) /\ sessions' = sessions /\ row' = row
    BY <1>10, SearchMoves DEF Lost
  <2>2. /\ search'[m].stage \in {"giveback", "idle"} => Pair(m) \in sessions
        /\ search'[m].stage # "reject" => InSession(Who(m))
    <3>1. \A s \in {"reject", "giveback", "yield"} : s \in Stages
      BY DEF Stages
    <3>2. \A s \in {"reject", "giveback", "yield"} : Goto(m, s) => search'[m].stage = s
      BY <3>1, GotoTyped DEF TypeOK
    <3> QED
      BY <1>10, <3>2, LostTo DEF Pair
  <2>3. ClaimsFollow(m)
    BY <2>1, <2>2 DEF ClaimsFollow, Pair, InSession
  <2> QED
    BY <1>3, <2>1, <2>3
<1>11. CASE Yield(m)
  <2>1. Moves(m, "yield", {"giveback", "idle"})
    BY <1>11, SearchMoves
  <2>2. \A v \in Users : row'[v] = IF v = Cand(m) /\ row[v] \in {"claimed", "claiming"}
                                     THEN "waiting" ELSE row[v]
    BY <1>1, <1>2, <1>11, RowTyped DEF Yield, QueueRelease
  <2>3. ClaimsFollow(m)
    BY <2>1, <2>2 DEF ClaimsFollow
  <2> QED
    BY <1>3, <1>11, <2>1, <2>3 DEF Yield
<1>12. CASE Enter(m)
  <2>1. Moves(m, "enter", {"enterPeer"})
    BY <1>12, SearchMoves
  <2>2. \A v \in Users : row'[v] = IF v = Who(m) /\ row[v] # "none" THEN "in_chat" ELSE row[v]
    BY <1>1, <1>2, <1>12, RowTyped DEF Enter, QueueIntoChat
  <2>3. ClaimsFollow(m)
    BY <2>1, <2>2 DEF ClaimsFollow
  <2> QED
    BY <1>3, <1>12, <2>1, <2>3 DEF Enter
<1>13. CASE EnterPeer(m)
  <2>1. Moves(m, "enterPeer", {"final"})
    BY <1>13, SearchMoves
  <2>2. \A v \in Users : row'[v] = IF v = Cand(m) /\ row[v] # "none" THEN "in_chat" ELSE row[v]
    BY <1>1, <1>2, <1>13, RowTyped DEF EnterPeer, QueueIntoChat
  <2>3. ClaimsFollow(m)
    BY <2>1, <2>2 DEF ClaimsFollow
  <2> QED
    BY <1>3, <1>13, <2>1, <2>3 DEF EnterPeer
<1>14. CASE Release(m)
  <2>1. Moves(m, "release", {"settle", "confirm", "doubt"})
    BY <1>14, SearchMoves
  <2>2. \A v \in Users : row'[v] = IF v = Who(m) /\ row[v] = "claiming" THEN "waiting" ELSE row[v]
    BY <1>1, <1>2, <1>14, RowTyped DEF Release, QueueReleaseSelf
  <2>3. ClaimsFollow(m)
    BY <2>1, <2>2 DEF ClaimsFollow
  <2> QED
    BY <1>3, <1>14, <2>1, <2>3 DEF Release
<1>15. CASE Reclaim(m)
  <2>1. Moves(m, "reclaim", {"find"})
    BY <1>15, SearchMoves
  <2>2. \A v \in Users : row'[v] = IF v = Who(m) /\ row[v] = "waiting" THEN "claiming" ELSE row[v]
    BY <1>1, <1>2, <1>15, RowTyped DEF Reclaim, QueueClaimSelf
  <2>3. ClaimsFollow(m)
    BY <2>1, <2>2 DEF ClaimsFollow
  <2> QED
    BY <1>3, <1>15, <2>1, <2>3 DEF Reclaim
<1>18. CASE GiveBack(m)
  <2>1. Moves(m, "giveback", {"idle"})
    BY <1>18, SearchMoves
  <2>2. \A v \in Users : row'[v] = IF v = Who(m) /\ row[v] = "claiming" THEN "waiting" ELSE row[v]
    BY <1>1, <1>2, <1>18, RowTyped DEF GiveBack, QueueReleaseSelf
  <2>3. ClaimsFollow(m)
    BY <2>1, <2>2 DEF ClaimsFollow
  <2> QED
    BY <1>3, <1>18, <2>1, <2>3 DEF GiveBack
<1>16. CASE Final(m) \/ FinalPeer(m) \/ Heal(m)
  <2>1. \/ Moves(m, "final", {"finalPeer"})
        \/ Moves(m, "finalPeer", {"giveback", "idle"})
        \/ Moves(m, "heal", {"settle"})
    BY <1>16, SearchMoves
  <2>2. \A v \in Users : row'[v] \in {"claimed", "claiming"} => row'[v] = row[v]
    BY <1>1, <1>2, <1>16, RowTyped DEF Final, FinalPeer, Heal, QueueRelease
  <2>3. ClaimsFollow(m)
    BY <2>1, <2>2 DEF ClaimsFollow
  <2> QED
    BY <1>3, <1>16, <2>1, <2>3 DEF Final, FinalPeer, Heal
<1>17. CASE Confirm(m) \/ Doubt(m) \/ Settle(m)
  <2>1. /\ \/ Moves(m, "confirm", {"settle", "idle"})
           \/ Moves(m, "doubt", {"heal", "idle"})
           \/ Moves(m, "settle", {"settle", "reclaim", "idle"})
        /\ row' = row /\ sessions' = sessions
    BY <1>17, SearchMoves DEF Confirm, Doubt, Adopt, Settle
  <2>2. ClaimsFollow(m)
    BY <2>1 DEF ClaimsFollow
  <2> QED
    BY <1>3, <2>1, <2>2
<1> QED
  BY <1>4, <1>5, <1>6, <1>7, <1>8, <1>9, <1>10, <1>11, <1>12, <1>13, <1>14, <1>15, <1>16, <1>17,
     <1>18, OpenKeepsClaims DEF SearchStep

(* A step of anything but a search claims no row, ends sessions at most    *)
(* and leaves the searches alone, unless it is a crash.                    *)
LEMMA OthersClaimNothing ==
    ASSUME TypeOK,
           \/ JobStep \/ PauseLeave \/ PauseFlag \/ EndStep
           \/ \E u \in Users : Expire(u) \/ Pause(u) \/ RepairClaims(u) \/ FindOrphan(u)
           \/ \E s \in sessions : \E next \in {{}} \cup {{u} : u \in s} : End(s, next)
           \/ UNCHANGED vars
    PROVE  /\ search' = search /\ sessions' \subseteq sessions /\ UNCHANGED <<crashes, failures, dropped>>
           /\ \A v \in Users : row'[v] \in {"claimed", "claiming"} => row'[v] = row[v]
<1>1. row \in [Users -> RowStatus] /\ "none" \in RowStatus /\ "waiting" \in RowStatus
  BY DEF TypeOK, RowStatus
<1>2. ASSUME NEW u, NEW from, NEW to \in {"none", "waiting"}, SetRow(u, from, to)
      PROVE  \A v \in Users : row'[v] \in {"claimed", "claiming"} => row'[v] = row[v]
  BY <1>1, <1>2, RowTyped
<1>3. ASSUME JobStep
      PROVE  /\ search' = search /\ sessions' \subseteq sessions /\ UNCHANGED <<crashes, failures, dropped>>
             /\ \A v \in Users : row'[v] \in {"claimed", "claiming"} => row'[v] = row[v]
  BY <1>2, <1>3
  DEF JobStep, JobOnly, ExpireSession, ExpireLeaveIf, StaleLeave, ExpireMark, DropOrphan, QueueLeave
<1>4. ASSUME PauseLeave \/ PauseFlag \/ \E u \in Users : Pause(u)
      PROVE  /\ search' = search /\ sessions' \subseteq sessions /\ UNCHANGED <<crashes, failures, dropped>>
             /\ \A v \in Users : row'[v] \in {"claimed", "claiming"} => row'[v] = row[v]
  BY <1>2, <1>4 DEF PauseLeave, PauseFlag, Pause, LeaverOnly, QueueLeave
<1>5. ASSUME EndStep
      PROVE  /\ search' = search /\ sessions' \subseteq sessions /\ UNCHANGED <<crashes, failures, dropped>>
             /\ \A v \in Users : row'[v] \in {"claimed", "claiming"} => row'[v] = row[v]
  BY <1>2, <1>5 DEF EndStep, EndLeave, EndRequeue, EnderOnly, QueueLeave, QueueRequeue
<1>6. ASSUME NEW s \in sessions, NEW next, End(s, next)
      PROVE  /\ search' = search /\ sessions' \subseteq sessions /\ UNCHANGED <<crashes, failures, dropped>>
             /\ row' = row
  BY <1>6 DEF End, EnderOnly
<1>7. ASSUME NEW u \in Users, Expire(u) \/ RepairClaims(u) \/ FindOrphan(u)
      PROVE  /\ search' = search /\ sessions' \subseteq sessions /\ UNCHANGED <<crashes, failures, dropped>>
             /\ \A v \in Users : row'[v] \in {"claimed", "claiming"} => row'[v] = row[v]
  BY <1>2, <1>7 DEF Expire, RepairClaims, FindOrphan, JobOnly, QueueRelease
<1>8. UNCHANGED vars => UNCHANGED <<search, sessions, crashes, failures, dropped, row>>
  BY DEF vars, others
<1> QED
  BY <1>3, <1>4, <1>5, <1>6, <1>7, <1>8

(* Whoever answers for a claim is at work on it.                           *)
LEMMA HoldersHold ==
    \A m \in Matchers, u \in Users : HoldsClaimed(m, u) \/ HoldsClaiming(m, u) => Holds(m, u)
  BY DEF HoldsClaimed, HoldsClaiming, Holds, HoldsPeer

LEMMA ClaimsHolder == ClaimInv => ClaimHasHolder
  BY HoldersHold DEF ClaimInv, ClaimsHeld, ClaimHasHolder, Held

(* A search that fails gives its own row back, or drops it with the        *)
(* candidate's; the others go on answering for their claims.               *)
LEMMA FailKeepsClaims ==
    ASSUME TypeOK, ClaimInv, NEW m \in Matchers, Fail(m)
    PROVE  ClaimInv'
<1>1. search \in [Matchers -> Search] /\ failures \in Nat
  BY RingAssumption DEF TypeOK
<1>2. /\ row' = row /\ sessions' = sessions /\ failures' = failures + 1
      /\ dropped \subseteq dropped' /\ \A n \in Matchers \ {m} : search'[n] = search[n]
  BY <1>1, FailFlow
<1>3. \A n \in Matchers \ {m}, u \in Users :
         /\ HoldsClaimed(n, u) => HoldsClaimed(n, u)'
         /\ HoldsClaiming(n, u) => HoldsClaiming(n, u)'
  BY <1>2, StillHolds
<1>4. ASSUME NEW u \in Users
      PROVE  /\ HoldsClaimed(m, u) => u \in dropped'
             /\ HoldsClaiming(m, u) => u \in dropped' \/ HoldsClaiming(m, u)'
  <2>1. CASE \A v \in Users : Holds(m, v) => v \in dropped'
    BY <2>1, HoldersHold
  <2>2. CASE /\ search'[m].stage = "giveback" /\ Who(m)' = Who(m)
             /\ \A v \in Users : \/ HoldsPeer(m, v)
                                 \/ v = Who(m) /\ search[m].stage = "enter"
                                 => v \in dropped'
    BY <2>2 DEF HoldsClaimed, HoldsClaiming, HoldsPeer
  <2> QED
    BY <1>1, <2>1, <2>2, FailFlow
<1>5. ClaimsHeld'
  BY <1>2, <1>3, <1>4 DEF ClaimInv, ClaimsHeld
<1>6. ~Smooth'
  BY <1>1, <1>2 DEF Smooth
<1> QED
  BY <1>5, <1>6 DEF ClaimInv

(* Every step keeps the claims held.                                       *)
LEMMA ClaimStep == TypeOK /\ ClaimInv /\ [Next]_vars => ClaimInv'
<1> SUFFICES ASSUME TypeOK, ClaimInv, [Next]_vars
             PROVE  ClaimInv'
  OBVIOUS
<1>1. ASSUME NEW m \in Matchers, SearchStep(m)
      PROVE  ClaimInv'
  <2>1. UNCHANGED <<crashes, failures, dropped>>
    BY <1>1, SearchFrame DEF others
  <2> QED
    BY <1>1, <2>1, SearchKeepsClaims DEF ClaimInv, Smooth
<1>2. ASSUME NEW m \in Matchers, NEW u \in Users, Click(m, u) \/ (m = Sweeper /\ Sweep(u))
      PROVE  ClaimInv'
  <2>1. row' = row /\ sessions' = sessions /\ UNCHANGED <<crashes, failures, dropped>>
    BY <1>2 DEF Click, Sweep, At, others
  <2>2. /\ search[m].stage = "idle"
        /\ \A n \in Matchers \ {m} : search'[n] = search[n]
    BY <1>2, StartMoves
  <2>3. ClaimsFollow(m)
    BY <2>1, <2>2 DEF ClaimsFollow, HoldsClaimed, HoldsClaiming
  <2> QED
    BY <2>1, <2>2, <2>3, ClaimsKept DEF ClaimInv, Smooth
<1>3. ASSUME search' = search, sessions' \subseteq sessions, UNCHANGED <<crashes, failures, dropped>>,
             \A v \in Users : row'[v] \in {"claimed", "claiming"} => row'[v] = row[v]
      PROVE  ClaimInv'
  <2>1. \A n \in Matchers, u \in Users :
           /\ HoldsClaimed(n, u) => HoldsClaimed(n, u)'
           /\ HoldsClaiming(n, u) => HoldsClaiming(n, u)'
    BY <1>3, StillHolds
  <2> QED
    BY <1>3, <2>1 DEF ClaimInv, ClaimsHeld, Smooth
<1>4. CASE Restart
  <2>1. /\ crashes' # 0 /\ dropped \subseteq dropped'
        /\ \A u \in Users : Held(u) => u \in dropped'
        /\ \A u \in Users : row'[u] \in {"claimed", "claiming"} => row'[u] = row[u]
    BY <1>4, RingAssumption DEF Restart, TypeOK
  <2>2. ClaimHasHolder
    BY ClaimsHolder
  <2> QED
    BY <2>1, <2>2 DEF ClaimInv, ClaimsHeld, ClaimHasHolder, Smooth
<1>5. Sweeper \in Matchers
  BY RingAssumption
<1> QED
  BY <1>1, <1>2, <1>3, <1>4, <1>5, FailKeepsClaims, OthersClaimNothing DEF Next

(* A row that is claimed or claiming is in the hands of a running search,  *)
(* or of one that failed or died holding it: no claim is forgotten on any  *)
(* path of try_match that runs to its end, not even on the one that drops  *)
(* a candidate without giving him back, and a search that fails forgets    *)
(* no claim of another one's.                                              *)
THEOREM ClaimsAreHeld == Spec => []ClaimHasHolder
<1>1. Init => ClaimInv
  BY DEF Init, ClaimInv, ClaimsHeld
<1> QED
  BY <1>1, ClaimsHolder, TypeInit, TypeStep, ClaimStep, PTL DEF Spec

-----------------------------------------------------------------------------
(* What a step of a search does to the rows: none disappears, a row in     *)
(* chat stays so, and only the pair of an open session is moved there.     *)
LEMMA SearchRows ==
    ASSUME TypeOK, NEW m \in Matchers, SearchStep(m), NEW v \in Users
    PROVE  /\ row[v] # "none" => row'[v] # "none"
           /\ row[v] = "in_chat" => row'[v] = "in_chat"
           /\ row'[v] = "in_chat" => \/ row[v] = "in_chat"
                                     \/ v \in Pair(m) /\ search[m].stage \in Opened
           /\ search[m].stage = "join" /\ v = Who(m) => row'[v] # "none"
           /\ search[m].stage = "enter" /\ v = Who(m) /\ row[v] # "none" => row'[v] = "in_chat"
           /\ search[m].stage = "enterPeer" /\ v = Cand(m) /\ row[v] # "none" => row'[v] = "in_chat"
<1> USE DEF Pair, Opened
<1>1. row \in [Users -> RowStatus]
  BY DEF TypeOK
<1>2. /\ "waiting" \in RowStatus /\ "claiming" \in RowStatus /\ "claimed" \in RowStatus
      /\ "in_chat" \in RowStatus
      /\ \A u \in Users : row[u] \in {"none", "waiting", "claiming", "claimed", "in_chat"}
  BY <1>1 DEF RowStatus
<1>3. CASE row' = row /\ search[m].stage \notin {"join", "enter", "enterPeer"}
  BY <1>3
<1>4. CASE NoCandidate(m) \/ Judge(m) \/ Open(m) \/ Lost(m) \/ Confirm(m) \/ Doubt(m) \/ Settle(m)
  BY <1>3, <1>4 DEF NoCandidate, Judge, Open, Lost, Confirm, Doubt, Adopt, Settle, At
<1>5. CASE Join(m)
  BY <1>1, <1>2, <1>5, RowTyped DEF Join, At, MATCHABLE
<1>6. CASE Find(m)
  BY <1>1, <1>2, <1>6, FindMoves DEF MATCHABLE
<1>7. CASE ClaimSelf(m) \/ Reclaim(m)
  BY <1>1, <1>2, <1>7, RowTyped DEF ClaimSelf, Reclaim, At, QueueClaimSelf
<1>8. CASE Reject(m) \/ Yield(m) \/ Heal(m)
  BY <1>1, <1>2, <1>8, RowTyped DEF Reject, Yield, Heal, At, QueueRelease
<1>9. CASE Release(m) \/ GiveBack(m)
  BY <1>1, <1>2, <1>9, RowTyped DEF Release, GiveBack, At, QueueReleaseSelf
<1>10. CASE Enter(m) \/ EnterPeer(m)
  BY <1>1, <1>2, <1>10, RowTyped DEF Enter, EnterPeer, At, QueueIntoChat
<1>11. CASE Final(m) \/ FinalPeer(m)
  BY <1>1, <1>2, <1>11, RowTyped DEF Final, FinalPeer, At, MATCHABLE
<1> QED
  BY <1>4, <1>5, <1>6, <1>7, <1>8, <1>9, <1>10, <1>11 DEF SearchStep

(* Where a search goes, as far as the rows and sessions of a chat depend   *)
(* on it.                                                                  *)
LEMMA SearchFlow ==
    ASSUME TypeOK, NEW m \in Matchers, SearchStep(m)
    PROVE  /\ search'[m].stage \notin {"idle", "join"} =>
                 search[m].stage # "idle" /\ Who(m)' = Who(m)
           /\ search'[m].stage \in Claiming =>
                 \/ search[m].stage \in Claiming /\ Cand(m)' = Cand(m)
                 \/ row'[Cand(m)'] # "none" /\ Cand(m)' \in Users
           /\ search'[m].stage \in Opened =>
                 /\ search[m].stage \in Opened \cup {"open"} /\ Pair(m)' = Pair(m)
                 /\ search[m].stage = "open" => Pair(m) \in sessions'
           /\ search[m].stage = "enter" => search'[m].stage = "enterPeer" /\ Cand(m)' = Cand(m)
           /\ \A n \in Matchers \ {m} : search'[n] = search[n]
           /\ sessions \subseteq sessions'
           /\ sessions' \subseteq sessions \cup {Pair(m)}
           /\ sessions' # sessions => search'[m].stage = "enter" /\ Pair(m)' = Pair(m)
                                     /\ Who(m)' = Who(m) /\ Cand(m)' = Cand(m)
<1> USE DEF Moves, Claiming, Opened, Pair
<1>1. CASE Open(m)
  <2>1. Moves(m, "open", {"lost", "enter"})
    BY <1>1, SearchMoves
  <2>2. CASE InSession(Who(m)) \/ InSession(Cand(m))
    <3>1. sessions' = sessions /\ Goto(m, "lost") /\ "lost" \in Stages
      BY <1>1, <2>2 DEF Open, Stages
    <3>2. search'[m].stage = "lost"
      BY <3>1, GotoTyped DEF TypeOK
    <3> QED
      BY <2>1, <3>1, <3>2
  <2>3. CASE ~(InSession(Who(m)) \/ InSession(Cand(m)))
    <3>1. sessions' = sessions \cup {{Who(m), Cand(m)}} /\ Goto(m, "enter") /\ "enter" \in Stages
      BY <1>1, <2>3 DEF Open, Stages
    <3>2. search'[m].stage = "enter"
      BY <3>1, GotoTyped DEF TypeOK
    <3> QED
      BY <2>1, <3>1, <3>2
  <2> QED
    BY <2>2, <2>3
<1>2. CASE Find(m)
  BY <1>2, FindMoves DEF Find
<1>3. CASE NoCandidate(m)
  BY <1>3, NoCandidateMoves DEF NoCandidate
<1>4. CASE ~(Open(m) \/ Find(m) \/ NoCandidate(m))
  <2>1. sessions' = sessions
    BY <1>4 DEF SearchStep, Join, ClaimSelf, Judge, Reject, Lost, Yield, Enter, EnterPeer, Final,
       FinalPeer, Release, Confirm, Doubt, Heal, Settle, Reclaim, GiveBack, Adopt
  <2> QED
    BY <1>4, <2>1, SearchMoves DEF SearchStep
<1> QED
  BY <1>1, <1>2, <1>3, <1>4

(* A row comes into being by a join of its user, and nothing else.         *)
LEMMA RowsAppear ==
    ASSUME TypeOK, NEW m \in Matchers, SearchStep(m), NEW v \in Users, row[v] = "none"
    PROVE  row'[v] = "none" \/ (search[m].stage = "join" /\ v = Who(m))
<1>1. row \in [Users -> RowStatus]
  BY DEF TypeOK
<1>2. /\ "waiting" \in RowStatus /\ "claiming" \in RowStatus /\ "claimed" \in RowStatus
      /\ "in_chat" \in RowStatus
  BY DEF RowStatus
<1>3. CASE row' = row
  BY <1>3
<1>4. CASE Join(m)
  BY <1>1, <1>2, <1>4, RowTyped DEF Join, At
<1>5. CASE Find(m)
  BY <1>5, FindMoves DEF MATCHABLE
<1>6. CASE ClaimSelf(m) \/ Reclaim(m) \/ Reject(m) \/ Yield(m) \/ Heal(m) \/ Release(m) \/ GiveBack(m)
  BY <1>1, <1>2, <1>6, RowTyped
  DEF ClaimSelf, Reclaim, Reject, Yield, Heal, Release, GiveBack, QueueClaimSelf, QueueRelease,
      QueueReleaseSelf
<1>7. CASE Enter(m) \/ EnterPeer(m) \/ Final(m) \/ FinalPeer(m)
  BY <1>1, <1>2, <1>7, RowTyped DEF Enter, EnterPeer, Final, FinalPeer, QueueIntoChat, MATCHABLE
<1> QED
  BY <1>3, <1>4, <1>5, <1>6, <1>7
  DEF SearchStep, NoCandidate, Judge, Open, Lost, Confirm, Doubt, Adopt, Settle

(* Who has neither a row nor a session had none before, and got no row.    *)
LEMMA RowlessBefore ==
    ASSUME TypeOK, NEW m \in Matchers, SearchStep(m), NEW v \in Users, Rowless(v)'
    PROVE  Rowless(v) /\ ~(search[m].stage = "join" /\ v = Who(m))
<1>1. InSession(v) => InSession(v)'
  BY SearchFlow DEF InSession
<1> QED
  BY <1>1, SearchRows DEF Rowless

(* Every step of a search keeps rows and sessions in line, unless it joins *)
(* a user who is in a session without a row.                               *)
LEMMA SearchKeepsChats ==
    ASSUME TypeOK, ChatInv, NEW m \in Matchers, SearchStep(m),
           search[m].stage = "join" /\ InSession(Who(m)) => row[Who(m)] # "none"
    PROVE  ChatInv'
<1>1. \A n \in Matchers : Who(n) \in Users /\ Cand(n) \in Users
  BY DEF TypeOK, Search, Who, Cand
<1>2. ASSUME NEW n \in Matchers \ {m}
      PROVE  /\ search'[n] = search[n] /\ Who(n)' = Who(n) /\ Cand(n)' = Cand(n)
             /\ Pair(n)' = Pair(n) /\ \A u \in Users : Entering(n, u) => Entering(n, u)'
  <2>1. search'[n] = search[n]
    BY SearchFlow
  <2> QED
    BY <2>1 DEF Who, Cand, Pair, Entering
<1>3. ASSUME NEW n \in Matchers
      PROVE  /\ search'[n].stage \notin {"idle", "join"} => ~Rowless(Who(n))'
             /\ search'[n].stage \in Claiming => ~Rowless(Cand(n))'
             /\ search'[n].stage \in Opened => Pair(n)' \in sessions'
  <2>1. \A w \in Users : ~Rowless(w) \/ (search[m].stage = "join" /\ w = Who(m)) => ~Rowless(w)'
    BY RowlessBefore
  <2>2. CASE n # m
    <3>1. /\ ~Rowless(Who(n)) => ~Rowless(Who(n))'
          /\ ~Rowless(Cand(n)) => ~Rowless(Cand(n))'
      BY <1>1, <1>2, <2>1, <2>2 DEF Rowless, InSession
    <3> QED
      BY <1>2, <2>2, <3>1, SearchFlow DEF ChatInv
  <2>3. CASE n = m
    <3>1. search'[m].stage \notin {"idle", "join"} => ~Rowless(Who(m))'
      <4>1. search'[m].stage \notin {"idle", "join"} => Who(m)' = Who(m) /\ search[m].stage # "idle"
        BY SearchFlow
      <4>2. search[m].stage # "idle" /\ Who(m)' = Who(m) => ~Rowless(Who(m))'
        BY <1>1, <2>1 DEF ChatInv, Rowless, InSession
      <4> QED
        BY <4>1, <4>2
    <3>2. search'[m].stage \in Claiming => ~Rowless(Cand(m))'
      <4>1. CASE search[m].stage \in Claiming /\ Cand(m)' = Cand(m)
        BY <1>1, <2>1, <4>1 DEF ChatInv, Rowless, InSession
      <4>2. CASE row'[Cand(m)'] # "none"
        BY <4>2 DEF Rowless
      <4> QED
        BY <4>1, <4>2, SearchFlow
    <3>3. search'[m].stage \in Opened => Pair(m)' \in sessions'
      BY SearchFlow DEF ChatInv
    <3> QED
      BY <2>3, <3>1, <3>2, <3>3
  <2> QED
    BY <2>2, <2>3
<1>4. ASSUME NEW u \in Users, row'[u] = "in_chat"
      PROVE  InSession(u)'
  <2>1. InSession(u)
    BY <1>4, SearchRows DEF ChatInv, InSession
  <2> QED
    BY <2>1, SearchFlow DEF InSession
<1>5. ASSUME NEW u \in Users, InSession(u)', row'[u] \notin {"none", "in_chat"}, u \notin dropped'
      PROVE  \E n \in Matchers : Entering(n, u)'
  <2>1. CASE ~InSession(u)
    <3>1. sessions' # sessions /\ u \in Pair(m)
      BY <1>5, <2>1, SearchFlow DEF InSession
    <3>2. Entering(m, u)'
      BY <3>1, SearchFlow DEF Entering, Pair
    <3> QED
      BY <3>2
  <2>2. CASE InSession(u)
    <3>1. row[u] \notin {"none", "in_chat"}
      BY <1>5, <2>2, RowsAppear, SearchRows
    <3>2. PICK n \in Matchers : Entering(n, u)
      BY <1>5, <2>2, <3>1, SearchFrame DEF ChatInv, others
    <3>3. CASE n # m
      BY <1>2, <3>2, <3>3
    <3>4. CASE n = m
      <4>1. CASE search[m].stage = "enter" /\ Cand(m) = u
        BY <4>1, SearchFlow DEF Entering
      <4>2. CASE \/ search[m].stage = "enter" /\ Who(m) = u
                 \/ search[m].stage = "enterPeer" /\ Cand(m) = u
        BY <1>5, <3>1, <4>2, SearchRows
      <4> QED
        BY <3>2, <3>4, <4>1, <4>2 DEF Entering
    <3> QED
      BY <3>3, <3>4
  <2> QED
    BY <2>1, <2>2
<1> QED
  BY <1>3, <1>4, <1>5 DEF ChatInv

(* The start of a search disturbs no chat.                                 *)
LEMMA StartKeepsChats ==
    ASSUME TypeOK, ChatInv, NEW m \in Matchers, NEW u \in Users,
           Click(m, u) \/ (m = Sweeper /\ Sweep(u))
    PROVE  ChatInv'
<1>1. row' = row /\ sessions' = sessions /\ dropped' = dropped
  BY DEF Click, Sweep, At, others
<1>2. /\ search[m].stage = "idle" /\ search'[m].stage \in {"join", "claim"}
      /\ search'[m].stage = "claim" => row[Who(m)'] = "waiting"
      /\ \A n \in Matchers \ {m} : search'[n] = search[n]
  BY StartMoves
<1>3. ASSUME NEW n \in Matchers \ {m}
      PROVE  /\ search'[n] = search[n] /\ Who(n)' = Who(n) /\ Cand(n)' = Cand(n)
             /\ Pair(n)' = Pair(n) /\ \A v \in Users : Entering(n, v) => Entering(n, v)'
  BY <1>2 DEF Who, Cand, Pair, Entering
<1>4. \A v \in Users : ~Entering(m, v)
  BY <1>2 DEF Entering
<1>5. ASSUME NEW n \in Matchers
      PROVE  /\ search'[n].stage \notin {"idle", "join"} => ~Rowless(Who(n))'
             /\ search'[n].stage \in Claiming => ~Rowless(Cand(n))'
             /\ search'[n].stage \in Opened => Pair(n)' \in sessions'
  <2>1. CASE n # m
    BY <1>1, <1>3, <2>1 DEF ChatInv, Rowless, InSession
  <2>2. CASE n = m
    BY <1>1, <1>2, <2>2 DEF Claiming, Opened, Rowless
  <2> QED
    BY <2>1, <2>2
<1>6. ASSUME NEW v \in Users
      PROVE  /\ row'[v] = "in_chat" => InSession(v)'
             /\ InSession(v)' => \/ row'[v] \in {"none", "in_chat"} \/ v \in dropped'
                                \/ \E n \in Matchers : Entering(n, v)'
  BY <1>1, <1>3, <1>4 DEF ChatInv, InSession
<1> QED
  BY <1>5, <1>6 DEF ChatInv

(* A search that fails leaves the rows of its session to those who look    *)
(* for dropped ones.                                                       *)
LEMMA FailKeepsChats ==
    ASSUME TypeOK, ChatInv, NEW m \in Matchers, Fail(m)
    PROVE  ChatInv'
<1>1. search \in [Matchers -> Search] /\ \A n \in Matchers : Who(n) \in Users /\ Cand(n) \in Users
  BY DEF TypeOK, Search, Who, Cand
<1>2. /\ row' = row /\ sessions' = sessions /\ dropped \subseteq dropped'
      /\ search[m].stage # "idle"
      /\ \A n \in Matchers \ {m} : search'[n] = search[n]
  BY <1>1, FailFlow
<1>3. /\ search'[m].stage \notin Claiming \cup Opened \cup {"join"}
      /\ search'[m].stage # "idle" =>
            search[m].stage \notin {"idle", "join"} /\ Who(m)' = Who(m)
      /\ \A u \in Users : Entering(m, u) => u \in dropped'
  <2>1. CASE search'[m].stage = "idle" /\ \A u \in Users : Holds(m, u) => u \in dropped'
    BY <2>1 DEF Claiming, Opened, Entering, Holds, HoldsPeer
  <2>2. CASE /\ search'[m].stage = "giveback" /\ Who(m)' = Who(m)
             /\ search[m].stage \notin {"join", "claim"}
             /\ \A u \in Users : \/ HoldsPeer(m, u)
                                 \/ u = Who(m) /\ search[m].stage = "enter"
                                 => u \in dropped'
    BY <1>2, <2>2 DEF Claiming, Opened, Entering, HoldsPeer
  <2> QED
    BY <1>1, <2>1, <2>2, FailFlow
<1>4. ASSUME NEW n \in Matchers \ {m}
      PROVE  /\ search'[n] = search[n] /\ Who(n)' = Who(n) /\ Cand(n)' = Cand(n)
             /\ Pair(n)' = Pair(n) /\ \A u \in Users : Entering(n, u) => Entering(n, u)'
  BY <1>2 DEF Who, Cand, Pair, Entering
<1>5. ASSUME NEW n \in Matchers
      PROVE  /\ search'[n].stage \notin {"idle", "join"} => ~Rowless(Who(n))'
             /\ search'[n].stage \in Claiming => ~Rowless(Cand(n))'
             /\ search'[n].stage \in Opened => Pair(n)' \in sessions'
  <2>1. CASE n # m
    BY <1>2, <1>4, <2>1 DEF ChatInv, Rowless, InSession
  <2>2. CASE n = m
    BY <1>2, <1>3, <2>2 DEF ChatInv, Rowless, InSession
  <2> QED
    BY <2>1, <2>2
<1>6. ASSUME NEW u \in Users
      PROVE  /\ row'[u] = "in_chat" => InSession(u)'
             /\ InSession(u)' => \/ row'[u] \in {"none", "in_chat"} \/ u \in dropped'
                                \/ \E n \in Matchers : Entering(n, u)'
  BY <1>2, <1>3, <1>4 DEF ChatInv, InSession
<1> QED
  BY <1>5, <1>6 DEF ChatInv

(* So does the death of the bot, and its start finds nobody to free.       *)
LEMMA RestartKeepsChats ==
    ASSUME TypeOK, ChatInv, Restart
    PROVE  ChatInv' /\ row' = row
<1>1. /\ \A n \in Matchers : search'[n].stage = "idle"
      /\ sessions' = sessions /\ dropped \subseteq dropped'
      /\ \A u \in Users : Held(u) => u \in dropped'
  BY DEF Restart, NoSearch
<1>2. row' = row
  <2>1. /\ row' = [u \in Users |-> IF row[u] = "in_chat" /\ ~InSession(u) THEN "none" ELSE row[u]]
        /\ row \in [Users -> RowStatus]
    BY DEF Restart, TypeOK
  <2>2. \A u \in Users : row'[u] = row[u]
    BY <2>1 DEF ChatInv
  <2> QED
    BY <2>1, <2>2
<1>3. ASSUME NEW u \in Users, NEW n \in Matchers, Entering(n, u)
      PROVE  u \in dropped'
  BY <1>1, <1>3 DEF Entering, Held, Holds, HoldsPeer
<1> QED
  BY <1>1, <1>2, <1>3 DEF ChatInv, Claiming, Opened, InSession

(* Where nothing but searches may take place, nothing else does, save that *)
(* a search fails or the bot dies.                                         *)
LEMMA OnlySearches ==
    ASSUME Events \subseteq {"sweep"}, TypeOK, AloneInv, Next
    PROVE  \/ \E m \in Matchers :
                 \/ SearchStep(m) \/ Fail(m)
                 \/ \E u \in Users : Click(m, u) \/ (m = Sweeper /\ Sweep(u))
           \/ Restart
<1>1. ASSUME \/ JobStep \/ PauseLeave \/ PauseFlag \/ EndStep
             \/ \E u \in Users : Expire(u) \/ Pause(u) \/ RepairClaims(u) \/ FindOrphan(u)
             \/ \E s \in sessions : \E next \in {{}} \cup {{u} : u \in s} : End(s, next)
      PROVE  FALSE
  <2>1. job.stage # "idle" \/ leaver.stage # "idle" \/ ender.stage # "idle"
    BY <1>1 DEF JobStep, ExpireSession, ExpireLeaveIf, StaleLeave, ExpireMark, DropOrphan, PauseLeave,
       PauseFlag, EndStep, EndLeave, EndRequeue, Expire, Pause, RepairClaims, FindOrphan, End
  <2> QED
    BY <2>1 DEF AloneInv, NoJob, NoEnd
<1>2. Sweeper \in Matchers
  BY RingAssumption
<1> QED
  BY <1>1, <1>2 DEF Next

(* With no other activity than searches, every step keeps rows and         *)
(* sessions in line.                                                       *)
LEMMA AloneStep ==
    ASSUME Events \subseteq {"sweep"}
    PROVE  TypeOK /\ AloneInv /\ [Next]_vars => AloneInv'
<1> SUFFICES ASSUME TypeOK, AloneInv, [Next]_vars
             PROVE  AloneInv'
  OBVIOUS
<1>1. ASSUME NEW m \in Matchers, SearchStep(m)
      PROVE  AloneInv'
  <2>1. UNCHANGED <<job, leaver, ender>>
    BY <1>1, SearchFrame DEF others
  <2>2. ChatInv /\ RowsStay /\ Who(m) \in Users
    BY DEF AloneInv, TypeOK, Search, Who
  <2>3. ChatInv'
    BY <1>1, <2>2, SearchKeepsChats DEF RowsStay
  <2>4. ASSUME NEW u \in Users, InSession(u)', row'[u] = "none"
        PROVE  FALSE
    <3>1. row[u] = "none" /\ ~InSession(u)
      BY <1>1, <2>2, <2>4, SearchRows DEF RowsStay
    <3>2. sessions' # sessions /\ u \in Pair(m)
      BY <1>1, <2>4, <3>1, SearchFlow DEF InSession
    <3>3. search[m].stage \in Claiming
      BY <1>1, <3>2, SearchFlow DEF Claiming, Opened
    <3> QED
      BY <2>2, <3>1, <3>2, <3>3 DEF ChatInv, Rowless, Pair, Claiming, Opened
  <2> QED
    BY <2>1, <2>3, <2>4 DEF AloneInv, RowsStay
<1>2. ASSUME NEW m \in Matchers, NEW u \in Users, Click(m, u) \/ (m = Sweeper /\ Sweep(u))
      PROVE  AloneInv'
  <2>1. UNCHANGED <<job, leaver, ender>>
    BY <1>2 DEF Click, Sweep, At, others
  <2>2. row' = row /\ sessions' = sessions
    BY <1>2 DEF Click, Sweep
  <2> QED
    BY <1>2, <2>1, <2>2, StartKeepsChats DEF AloneInv, RowsStay, InSession
<1>3. ASSUME NEW m \in Matchers, Fail(m)
      PROVE  AloneInv'
  <2>1. UNCHANGED <<row, sessions, job, leaver, ender>>
    BY <1>3, FailFlow DEF TypeOK
  <2> QED
    BY <1>3, <2>1, FailKeepsChats DEF AloneInv, RowsStay, InSession
<1>4. CASE UNCHANGED vars
  <2>1. UNCHANGED <<row, sessions, search, job, leaver, ender, dropped>>
    BY <1>4 DEF vars, others
  <2>2. \A n \in Matchers, v \in Users :
           /\ Who(n)' = Who(n) /\ Cand(n)' = Cand(n) /\ Pair(n)' = Pair(n)
           /\ Entering(n, v) => Entering(n, v)'
           /\ InSession(v)' <=> InSession(v)
           /\ Rowless(v)' <=> Rowless(v)
    BY <2>1 DEF Who, Cand, Pair, Entering, InSession, Rowless
  <2>3. \A n \in Matchers : /\ Rowless(Who(n))' <=> Rowless(Who(n))
                            /\ Rowless(Cand(n))' <=> Rowless(Cand(n))
    BY <2>1 DEF Rowless, Who, Cand, InSession
  <2>4. ChatInv /\ RowsStay => ChatInv' /\ RowsStay'
    BY <2>1, <2>2, <2>3, RingAssumption DEF ChatInv, RowsStay
  <2> QED
    BY <2>1, <2>4 DEF AloneInv
<1>5. CASE Restart
  <2>1. job' = NoJob /\ leaver' = NoJob /\ ender' = NoEnd /\ sessions' = sessions
    BY <1>5 DEF Restart
  <2> QED
    BY <1>5, <2>1, RestartKeepsChats DEF AloneInv, RowsStay, InSession
<1> QED
  BY <1>1, <1>2, <1>3, <1>4, <1>5, OnlySearches

(* Nothing is going on at the start.                                       *)
LEMMA AloneInit == Init => AloneInv
<1> SUFFICES ASSUME Init
             PROVE  ChatInv /\ RowsStay /\ job = NoJob /\ leaver = NoJob /\ ender = NoEnd
  BY DEF AloneInv
<1>1. \A m \in Matchers : search[m].stage = "idle"
  BY DEF Init, NoSearch
<1>2. \A u \in Users : row[u] = "none" /\ ~InSession(u)
  BY DEF Init, InSession
<1> QED
  BY <1>1, <1>2 DEF Init, ChatInv, RowsStay, Claiming, Opened

(* When everything has come to rest, a row says in_chat exactly for the    *)
(* users in a session, save the rows that a search which failed or died    *)
(* between the insert and the writes on them left: as long as only         *)
(* searches take place, however often they fail and the bot dies.          *)
(* (Expiry, pauses and the end of sessions delete rows while a search      *)
(* moves them, and then it does not hold.)                                 *)
THEOREM RowsTellSessions ==
    ASSUME Events \subseteq {"sweep"}
    PROVE  Spec => []RowTellsSession
<1>1. AloneInv => RowTellsSession
  <2> SUFFICES ASSUME AloneInv, Quiet, NEW u \in Users
               PROVE  /\ row[u] = "in_chat" => InSession(u)
                      /\ InSession(u) => row[u] = "in_chat" \/ u \in dropped
    BY DEF RowTellsSession
  <2>1. \A m \in Matchers : ~Entering(m, u)
    BY DEF Quiet, Busy, Entering
  <2> QED
    BY <2>1 DEF AloneInv, ChatInv, RowsStay
<1> QED
  BY <1>1, TypeInit, TypeStep, AloneInit, AloneStep, PTL DEF Spec

-----------------------------------------------------------------------------
(* Two users have the queue to themselves: nobody else has a row, or a     *)
(* search of his.                                                          *)
OutInv(u, v) ==
    Smooth =>
        /\ \A w \in Users \ {u, v} : row[w] = "none"
        /\ \A m \in Matchers : search[m].stage # "idle" => Who(m) \in {u, v}

(* A search that brings the two together unless another one does: its own  *)
(* row is there to claim, the other's is there to find, or it has found.   *)
Promising(m, u, v) ==
    \/ search[m].stage = "claim" /\ row[Who(m)] = "waiting"
    \/ search[m].stage = "find" /\ \E w \in {u, v} \ {Who(m)} : row[w] \in MATCHABLE
    \/ search[m].stage \in {"judge", "open"}

(* Where a search can be before there is a session, with nobody in hand.   *)
Searching == {"idle", "join", "claim", "find", "release", "confirm", "doubt",
              "heal", "settle", "reclaim"}

(* Before two acceptable users have a session, no search has tried them in *)
(* vain, and once both have a row, some search is promising.               *)
Untried(m, u, v) ==
    \/ search[m].stage \in Searching /\ search[m].tried = {}
    \/ search[m].stage \in {"judge", "open"} /\ Pair(m) = {u, v}

MeetInv(u, v) ==
    {u, v} \in Compatible /\ Smooth /\ ~InSession(u) /\ ~InSession(v) =>
        /\ \A m \in Matchers : Untried(m, u, v)
        /\ row[u] # "none" /\ row[v] # "none" => \E m \in Matchers : Promising(m, u, v)

(* Beside the searches only the repair job is at work, on an orphan.       *)
TidyInv ==
    Smooth =>
        /\ ChatInv /\ leaver = NoJob /\ ender = NoEnd
        /\ job.stage \in {"idle", "orphan"}
        /\ job.stage = "orphan" => InSession(job.who)

RingInv(u, v) == TypeOK /\ ClaimInv /\ TidyInv /\ OutInv(u, v) /\ MeetInv(u, v)

(* Users who click once: who has not clicked yet, or is about to join, has *)
(* no row and no session, and no other search runs for him.                *)
OnceInv ==
    Smooth =>
        /\ \A u \in Users : clicks[u] = 0 =>
              Rowless(u) /\ \A m \in Matchers : search[m].stage # "idle" => Who(m) # u
        /\ \A m \in Matchers : search[m].stage = "join" =>
              /\ Rowless(Who(m))
              /\ \A n \in Matchers \ {m} : search[n].stage # "idle" => Who(n) # Who(m)

(* All that the repair job does before a crash: it deletes rows of users   *)
(* in a session.                                                           *)
Tidying ==
    /\ UNCHANGED <<sessions, clicks, search, leaver, ender, crashes, failures, dropped>>
    /\ \A u \in Users : row'[u] = row[u] \/ (row'[u] = "none" /\ InSession(u))
    /\ job'.stage \in {"idle", "orphan"}
    /\ job'.stage = "orphan" => InSession(job'.who)

(* That and the searches is all there is until then, where nothing but     *)
(* repairs goes on beside them: claims are held, so no claim is repaired.  *)
LEMMA TidySteps ==
    ASSUME Events \subseteq {"sweep", "repair"}, TypeOK, ClaimInv, TidyInv, Next, Smooth'
    PROVE  \/ \E m \in Matchers :
                 SearchStep(m) \/ \E u \in Users : Click(m, u) \/ (m = Sweeper /\ Sweep(u))
           \/ Tidying
<1>1. CASE \/ PauseLeave \/ PauseFlag \/ EndStep
           \/ ExpireSession \/ ExpireLeaveIf \/ StaleLeave \/ ExpireMark
           \/ \E u \in Users : Expire(u) \/ Pause(u)
           \/ \E s \in sessions : \E next \in {{}} \cup {{u} : u \in s} : End(s, next)
  <2>1. \/ job.stage \notin {"idle", "orphan"} \/ leaver.stage # "idle" \/ ender.stage # "idle"
    BY <1>1 DEF ExpireSession, ExpireLeaveIf, StaleLeave, ExpireMark, PauseLeave, PauseFlag, EndStep,
       EndLeave, EndRequeue, Expire, Pause, End
  <2>2. ~Smooth
    BY <2>1 DEF TidyInv, NoJob, NoEnd
  <2> QED
    BY <1>1, <2>2, OthersClaimNothing DEF JobStep, Smooth
<1>2. ASSUME NEW u \in Users, RepairClaims(u)
      PROVE  FALSE
  BY <1>2, ClaimsHolder DEF RepairClaims, JobOnly, ClaimHasHolder, ClaimInv, Smooth
<1>3. ASSUME NEW u \in Users, FindOrphan(u)
      PROVE  Tidying
  BY <1>3 DEF FindOrphan, JobTo, JobOnly, Tidying
<1>4. ASSUME DropOrphan
      PROVE  Tidying
  <2>1. job.who \in Users /\ InSession(job.who)
    BY <1>4 DEF DropOrphan, JobOnly, TidyInv, TypeOK, Smooth
  <2>2. \A u \in Users : row'[u] = IF u = job.who THEN "none" ELSE row[u]
    BY <1>4, RowTyped DEF DropOrphan, QueueLeave, TypeOK, RowStatus
  <2> QED
    BY <1>4, <2>1, <2>2 DEF DropOrphan, JobDone, NoJob, JobOnly, Tidying
<1>5. ~Restart
  BY RingAssumption DEF Restart, TypeOK, Smooth
<1>6. ASSUME NEW m \in Matchers, Fail(m)
      PROVE  FALSE
  <2>1. failures' = failures + 1 /\ failures \in Nat
    BY <1>6, FailFlow, RingAssumption DEF TypeOK
  <2> QED
    BY <2>1 DEF Smooth
<1>7. Sweeper \in Matchers
  BY RingAssumption
<1> QED
  BY <1>1, <1>2, <1>3, <1>4, <1>5, <1>6, <1>7 DEF Next, JobStep

(* A search remembers whom it has tried until it gives up or ends.         *)
LEMMA TriedKept ==
    ASSUME TypeOK, NEW m \in Matchers, search[m].tried = {},
           \/ SearchStep(m) /\ ~Find(m)
           \/ \E u \in Users : Click(m, u) \/ (m = Sweeper /\ Sweep(u))
    PROVE  search'[m].tried = {}
<1>1. search \in [Matchers -> Search]
  BY DEF TypeOK
<1>2. ASSUME NEW s, Goto(m, s)
      PROVE  search'[m].tried = {}
  BY <1>1, <1>2 DEF Goto, Search
<1>3. Return(m) => search'[m].tried = {}
  BY <1>1 DEF Return, NoSearch
<1>4. Matched(m) => search'[m].tried = {}
  BY <1>2, <1>3 DEF Matched
<1>5. Lost(m) => search'[m].tried = {}
  BY <1>2, <1>4, LostTo
<1>6. NoCandidate(m) => search'[m].tried = {}
  BY <1>1 DEF NoCandidate, Search
<1>7. Settle(m) => search'[m].tried = {}
  BY <1>1, <1>3 DEF Settle, Search
<1>8. ASSUME NEW u \in Users, Click(m, u) \/ (m = Sweeper /\ Sweep(u))
      PROVE  search'[m].tried = {}
  BY <1>1, <1>8 DEF Click, Sweep, Search
<1> QED
  BY <1>2, <1>3, <1>4, <1>5, <1>6, <1>7, <1>8
  DEF SearchStep, Join, ClaimSelf, Judge, Reject, Open, Yield, Enter, EnterPeer, Final, FinalPeer,
      Release, Confirm, Doubt, Adopt, Heal, Reclaim, GiveBack

(* A running search goes on for the same user until it ends.               *)
LEMMA SearchFor ==
    ASSUME TypeOK, NEW m \in Matchers, SearchStep(m)
    PROVE  /\ search[m].stage # "idle" /\ search'[m].stage # "join"
           /\ search'[m].stage # "idle" => Who(m)' = Who(m)
           /\ \A n \in Matchers \ {m} : search'[n] = search[n] /\ Who(n)' = Who(n)
<1>1. search[m].stage # "idle"
  BY DEF SearchStep, At, Join, ClaimSelf, Find, NoCandidate, Judge, Reject, Open, Lost, Yield, Enter,
     EnterPeer, Final, FinalPeer, Release, Confirm, Doubt, Heal, Settle, Reclaim, GiveBack
<1>2. CASE Find(m) \/ NoCandidate(m)
  BY <1>1, <1>2, FindMoves, NoCandidateMoves DEF Who
<1>3. CASE ~(Find(m) \/ NoCandidate(m))
  BY <1>1, <1>3, SearchMoves DEF SearchStep, Moves, Who
<1> QED
  BY <1>2, <1>3

(* A search that is for somebody else gives a user neither row nor         *)
(* session, unless he has a row already.                                   *)
LEMMA StillRowless ==
    ASSUME TypeOK, ChatInv, NEW m \in Matchers, SearchStep(m),
           NEW u \in Users, Rowless(u), Who(m) # u
    PROVE  Rowless(u)'
<1>1. row'[u] = "none"
  BY RowsAppear DEF Rowless
<1>2. ASSUME InSession(u)'
      PROVE  FALSE
  <2>1. sessions' # sessions /\ u = Cand(m)
    <3>1. ~InSession(u) /\ sessions' \subseteq sessions \cup {Pair(m)}
      BY SearchFlow DEF Rowless
    <3>2. sessions' # sessions /\ u \in Pair(m)
      BY <1>2, <3>1, SearchFlow DEF InSession
    <3> QED
      BY <3>2 DEF Pair
  <2>2. search[m].stage \in Claiming
    BY <2>1, SearchFlow DEF Claiming, Opened
  <2> QED
    BY <2>1, <2>2 DEF ChatInv
<1> QED
  BY <1>1, <1>2 DEF Rowless

(* Nobody gets a second row where everybody clicks once.                   *)
LEMMA OnceStep ==
    ASSUME Events \subseteq {"sweep", "repair"}, \A w \in Users : MaxClicks[w] <= 1,
           TypeOK, ClaimInv, TidyInv, OnceInv, [Next]_vars
    PROVE  OnceInv'
<1> SUFFICES ASSUME Smooth'
             PROVE  OnceInv'
  BY DEF OnceInv
<1>1. ASSUME NEW m \in Matchers, SearchStep(m)
      PROVE  OnceInv'
  <2>1. Smooth /\ clicks' = clicks /\ ChatInv
    BY <1>1, SearchFrame DEF others, TidyInv, Smooth
  <2>2. \A n \in Matchers : Who(n) \in Users
    BY DEF TypeOK, Search, Who
  <2>3. ASSUME NEW u \in Users, clicks'[u] = 0
        PROVE  Rowless(u)' /\ \A n \in Matchers : search'[n].stage # "idle" => Who(n)' # u
    <3>1. Rowless(u) /\ \A n \in Matchers : search[n].stage # "idle" => Who(n) # u
      BY <2>1, <2>3 DEF OnceInv
    <3>2. Rowless(u)'
      BY <1>1, <2>1, <3>1, SearchFor, StillRowless
    <3> QED
      BY <1>1, <3>1, <3>2, SearchFor
  <2>4. ASSUME NEW n \in Matchers, search'[n].stage = "join"
        PROVE  /\ Rowless(Who(n))'
               /\ \A k \in Matchers \ {n} : search'[k].stage # "idle" => Who(k)' # Who(n)'
    <3>1. n # m /\ search[n].stage = "join" /\ Who(n)' = Who(n)
      BY <1>1, <2>4, SearchFor
    <3>2. /\ Rowless(Who(n))
          /\ \A k \in Matchers \ {n} : search[k].stage # "idle" => Who(k) # Who(n)
      BY <2>1, <3>1 DEF OnceInv
    <3>3. PICK u \in Users : u = Who(n)
      BY <2>2
    <3>4. Rowless(u)'
      BY <1>1, <2>1, <3>1, <3>2, <3>3, SearchFor, StillRowless
    <3>5. Rowless(Who(n))'
      BY <3>1, <3>3, <3>4 DEF Rowless, InSession
    <3> QED
      BY <1>1, <3>1, <3>2, <3>5, SearchFor
  <2> QED
    BY <2>3, <2>4 DEF OnceInv
<1>2. ASSUME NEW m \in Matchers, NEW w \in Users, Click(m, w) \/ (m = Sweeper /\ Sweep(w))
      PROVE  OnceInv'
  <2>1. /\ Smooth /\ row' = row /\ sessions' = sessions
        /\ search[m].stage = "idle" /\ search'[m].stage \in {"join", "claim"} /\ Who(m)' = w
        /\ \A n \in Matchers \ {m} : search'[n] = search[n] /\ Who(n)' = Who(n)
    BY <1>2, StartMoves DEF Click, Sweep, At, others, Who, Smooth
  <2>2. \A u : Rowless(u)' <=> Rowless(u)
    BY <2>1 DEF Rowless, InSession
  <2>3. CASE Click(m, w)
    <3>1. clicks[w] = 0 /\ \A u \in Users : clicks'[u] = 0 => clicks[u] = 0 /\ u # w
      <4>1. clicks[w] < MaxClicks[w] /\ MaxClicks[w] <= 1 /\ clicks[w] \in Nat /\ MaxClicks[w] \in Nat
        BY <2>3, RingAssumption DEF Click, TypeOK
      <4>2. clicks' = [clicks EXCEPT ![w] = @ + 1]
        BY <2>3 DEF Click
      <4> QED
        BY <4>1, <4>2 DEF TypeOK
    <3>2. Rowless(w) /\ \A n \in Matchers : search[n].stage # "idle" => Who(n) # w
      BY <2>1, <3>1 DEF OnceInv
    <3>3. \A n \in Matchers : Rowless(Who(n))' <=> row[Who(n)'] = "none" /\ ~InSession(Who(n)')
      BY <2>1 DEF Rowless, InSession
    <3> QED
      BY <2>1, <2>2, <3>1, <3>2, <3>3 DEF OnceInv, Rowless
  <2>4. CASE Sweep(w) /\ m = Sweeper
    <3>1. clicks' = clicks /\ row[w] = "waiting" /\ search'[m].stage = "claim"
      <4>1. "claim" \in Stages /\ search \in [Matchers -> Search]
        BY DEF Stages, TypeOK
      <4> QED
        BY <2>4, <4>1, StartTyped DEF Sweep, At, others
    <3>2. ~Rowless(w)
      BY <3>1 DEF Rowless
    <3>3. \A n \in Matchers : Rowless(Who(n))' <=> row[Who(n)'] = "none" /\ ~InSession(Who(n)')
      BY <2>1 DEF Rowless, InSession
    <3> QED
      BY <2>1, <2>2, <3>1, <3>2, <3>3 DEF OnceInv, Rowless
  <2> QED
    BY <1>2, <2>3, <2>4
<1>3. CASE UNCHANGED vars
  BY <1>3 DEF vars, others, OnceInv, Rowless, InSession, Who, Smooth
<1>4. CASE Tidying
  <2>1. /\ Smooth /\ clicks' = clicks /\ search' = search
        /\ \A n \in Matchers : Who(n)' = Who(n) /\ Who(n) \in Users
    BY <1>4 DEF Tidying, Who, TypeOK, Search, Smooth
  <2>2. \A u \in Users : Rowless(u) => Rowless(u)'
    BY <1>4 DEF Tidying, Rowless, InSession
  <2>3. \A n \in Matchers : Rowless(Who(n)) => Rowless(Who(n))'
    BY <2>1, <2>2 DEF Rowless, InSession
  <2> QED
    BY <2>1, <2>2, <2>3 DEF OnceInv
<1> QED
  BY <1>1, <1>2, <1>3, <1>4, TidySteps

(* So a repair does not bring rows and sessions out of line.               *)
LEMMA TidyStep ==
    ASSUME Events \subseteq {"sweep", "repair"}, TypeOK, ClaimInv, TidyInv, OnceInv, [Next]_vars
    PROVE  TidyInv'
<1> SUFFICES ASSUME Smooth'
             PROVE  TidyInv'
  BY DEF TidyInv
<1>1. ASSUME NEW m \in Matchers, SearchStep(m)
      PROVE  TidyInv'
  <2>1. UNCHANGED <<job, leaver, ender, crashes, failures>> /\ sessions \subseteq sessions'
    BY <1>1, SearchFrame, SearchFlow DEF others
  <2>2. search[m].stage = "join" => ~InSession(Who(m))
    BY <1>1, <2>1, SearchFrame DEF OnceInv, Rowless, others, Smooth
  <2>3. ChatInv'
    BY <1>1, <2>1, <2>2, SearchKeepsChats DEF TidyInv, Smooth
  <2> QED
    BY <2>1, <2>3 DEF TidyInv, InSession, Smooth
<1>2. ASSUME NEW m \in Matchers, NEW w \in Users, Click(m, w) \/ (m = Sweeper /\ Sweep(w))
      PROVE  TidyInv'
  <2>1. UNCHANGED <<job, leaver, ender, crashes, failures, sessions>>
    BY <1>2 DEF Click, Sweep, At, others
  <2> QED
    BY <1>2, <2>1, StartKeepsChats DEF TidyInv, InSession, Smooth
<1>3. ASSUME search' = search, sessions' = sessions, dropped' = dropped,
             \A u \in Users : row'[u] = row[u] \/ (row'[u] = "none" /\ InSession(u))
      PROVE  ChatInv => ChatInv'
  <2>1. \A n \in Matchers : /\ Who(n)' = Who(n) /\ Cand(n)' = Cand(n) /\ Pair(n)' = Pair(n)
                            /\ Who(n) \in Users /\ Cand(n) \in Users
    BY <1>3 DEF Who, Cand, Pair, TypeOK, Search
  <2>2. \A u \in Users : /\ ~Rowless(u) => ~Rowless(u)'
                         /\ InSession(u)' <=> InSession(u)
                         /\ \A n \in Matchers : Entering(n, u) => Entering(n, u)'
    BY <1>3, <2>1 DEF Rowless, InSession, Entering
  <2>3. \A n \in Matchers : /\ ~Rowless(Who(n)) => ~Rowless(Who(n))'
                            /\ ~Rowless(Cand(n)) => ~Rowless(Cand(n))'
    BY <1>3, <2>1, <2>2 DEF Rowless, InSession
  <2> QED
    BY <1>3, <2>1, <2>2, <2>3 DEF ChatInv
<1>4. CASE UNCHANGED vars
  BY <1>3, <1>4 DEF vars, others, TidyInv, InSession, Smooth
<1>5. CASE Tidying
  BY <1>3, <1>5 DEF Tidying, TidyInv, InSession, Smooth
<1> QED
  BY <1>1, <1>2, <1>4, <1>5, TidySteps

(* Who never clicks stays out: the sweep only searches for rows that wait. *)
LEMMA OutStep ==
    ASSUME Events \subseteq {"sweep", "repair"}, NEW u \in Users, NEW v \in Users,
           \A w \in Users \ {u, v} : MaxClicks[w] = 0,
           TypeOK, ClaimInv, TidyInv, OutInv(u, v), [Next]_vars
    PROVE  OutInv(u, v)'
<1> SUFFICES ASSUME Smooth'
             PROVE  OutInv(u, v)'
  BY DEF OutInv
<1>1. ASSUME NEW m \in Matchers, SearchStep(m)
      PROVE  OutInv(u, v)'
  <2>1. Smooth
    BY <1>1, SearchFrame DEF others, Smooth
  <2>2. search[m].stage # "idle"
    BY <1>1, SearchFor
  <2>3. Who(m) \in {u, v}
    BY <2>1, <2>2 DEF OutInv
  <2>4. \A w \in Users \ {u, v} : row'[w] = "none"
    BY <1>1, <2>1, <2>3, RowsAppear DEF OutInv
  <2>5. search'[m].stage # "idle" => Who(m)' \in {u, v}
    BY <1>1, <2>3, SearchFor
  <2>6. \A n \in Matchers \ {m} : search'[n] = search[n] /\ Who(n)' = Who(n)
    BY <1>1, SearchFlow DEF Who
  <2> QED
    BY <2>1, <2>4, <2>5, <2>6 DEF OutInv
<1>2. ASSUME NEW m \in Matchers, NEW w \in Users, Click(m, w) \/ (m = Sweeper /\ Sweep(w))
      PROVE  OutInv(u, v)'
  <2>1. Smooth /\ row' = row
    BY <1>2 DEF Click, Sweep, At, others, Smooth
  <2>2. w \in {u, v}
    <3>1. CASE Click(m, w)
      <4>1. clicks[w] < MaxClicks[w] /\ clicks[w] \in Nat
        BY <3>1 DEF Click, TypeOK
      <4> QED
        BY <4>1
    <3>2. CASE Sweep(w)
      BY <2>1, <3>2 DEF Sweep, OutInv
    <3> QED
      BY <1>2, <3>1, <3>2
  <2>3. Who(m)' = w /\ \A n \in Matchers \ {m} : search'[n] = search[n] /\ Who(n)' = Who(n)
    BY <1>2, StartMoves DEF Who
  <2> QED
    BY <2>1, <2>2, <2>3 DEF OutInv
<1>3. CASE UNCHANGED vars
  BY <1>3 DEF vars, others, OutInv, Who, Smooth
<1>4. CASE Tidying
  BY <1>4 DEF Tidying, OutInv, Who, Smooth
<1> QED
  BY <1>1, <1>2, <1>3, <1>4, TidySteps

(* A step that leaves a search alone and takes no row it can find or claim *)
(* leaves it promising.                                                    *)
LEMMA StillPromising ==
    ASSUME NEW n, NEW u \in Users, NEW v \in Users, Who(n) \in {u, v}, Promising(n, u, v),
           search'[n] = search[n],
           \A w \in {u, v} : /\ row[w] = "waiting" => row'[w] = "waiting"
                             /\ row[w] \in MATCHABLE => row'[w] \in MATCHABLE
    PROVE  Promising(n, u, v)'
<1>1. Who(n)' = Who(n) /\ search'[n].stage = search[n].stage
  BY DEF Who
<1> QED
  BY <1>1 DEF Promising, MATCHABLE

(* Whoever gets to look for a candidate while the other has a row is       *)
(* promising, or the other is in the hands of a search that is.            *)
LEMMA LooksPromising ==
    ASSUME NEW u \in Users, NEW v \in Users, u # v, {u, v} \in Compatible, RingInv(u, v),
           Smooth, ~InSession(u), ~InSession(v), row[u] # "none", row[v] # "none",
           NEW m \in Matchers, search[m].stage \in {"claim", "reclaim"}, Who(m) \in {u, v},
           search'[m].stage = "find", Who(m)' = Who(m),
           \A n \in Matchers \ {m} : search'[n] = search[n],
           \A w \in Users \ {Who(m)} : row'[w] = row[w]
    PROVE  \E n \in Matchers : Promising(n, u, v)'
<1>1. PICK w \in {u, v} : w # Who(m)
  OBVIOUS
<1>2. row[w] \in {"waiting", "claiming", "claimed"}
  <2>1. row[w] \in RowStatus /\ row[w] # "in_chat"
    BY DEF RingInv, TypeOK, TidyInv, ChatInv
  <2> QED
    BY <2>1 DEF RowStatus
<1>3. CASE row[w] \in MATCHABLE
  <2>1. row'[w] \in MATCHABLE
    BY <1>1, <1>3 DEF MATCHABLE
  <2> QED
    BY <1>1, <2>1 DEF Promising, MATCHABLE
<1>4. CASE row[w] = "claimed"
  <2>1. PICK n \in Matchers : HoldsClaimed(n, w)
    BY <1>4 DEF RingInv, ClaimInv, ClaimsHeld
  <2>2. search[n].stage \in {"judge", "open"}
    BY <2>1 DEF RingInv, MeetInv, Untried, Searching, HoldsClaimed
  <2>3. search'[n] = search[n]
    BY <2>2
  <2> QED
    BY <2>2, <2>3 DEF Promising
<1> QED
  BY <1>2, <1>3, <1>4 DEF MATCHABLE

(* No step of a search tries the pair in vain: the verdict is in their     *)
(* favour, and the first insert makes the session.                         *)
LEMMA SearchUntried ==
    ASSUME NEW u \in Users, NEW v \in Users, {u, v} \in Compatible, RingInv(u, v),
           Smooth, ~InSession(u), ~InSession(v), ~InSession(u)', ~InSession(v)',
           NEW m \in Matchers, SearchStep(m)
    PROVE  Untried(m, u, v)'
<1> USE DEF RingInv, Moves
<1>1. Untried(m, u, v) /\ Who(m) \in Users /\ Cand(m) \in Users
  BY DEF MeetInv, TypeOK, Search, Who, Cand
<1>2. CASE Find(m)
  <2>1. search[m].stage = "find"
    BY <1>2 DEF Find, At
  <2>2. Who(m) \in {u, v}
    BY <2>1 DEF OutInv
  <2>3. PICK c \in Users : /\ row[c] \in MATCHABLE /\ c # Who(m)
                           /\ search'[m].stage = "judge" /\ Who(m)' = Who(m) /\ Cand(m)' = c
    BY <1>2, FindMoves
  <2>4. c \in {u, v}
    BY <2>3 DEF OutInv, MATCHABLE
  <2> QED
    BY <2>2, <2>3, <2>4 DEF Untried, Pair
<1>3. CASE Judge(m)
  <2>1. search[m].stage = "judge" /\ Pair(m) = {u, v}
    BY <1>1, <1>3 DEF Judge, At, Untried, Searching
  <2>2. row[Cand(m)] # "none" /\ row[Cand(m)] # "in_chat"
    BY <1>1, <2>1 DEF TidyInv, ChatInv, Rowless, Claiming, Pair
  <2>3. Acceptable(Who(m), Cand(m))
    BY <2>1, <2>2 DEF Acceptable, Pair
  <2>4. Goto(m, "open") /\ "open" \in Stages
    BY <1>3, <2>3 DEF Judge, Stages
  <2> QED
    BY <2>1, <2>4, GotoTyped DEF TypeOK, Untried, Pair
<1>4. CASE Open(m)
  <2>1. Pair(m) = {u, v}
    BY <1>1, <1>4 DEF Open, At, Untried, Searching
  <2>2. sessions' = sessions \cup {{u, v}}
    BY <1>4, <2>1 DEF Open, Pair
  <2> QED
    BY <2>2 DEF InSession
<1>5. CASE ~(Find(m) \/ Judge(m) \/ Open(m))
  <2>1. search[m].stage \in Searching /\ search[m].tried = {}
    <3>1. search[m].stage \notin {"judge", "open"}
      BY <1>5 DEF SearchStep, At, Join, ClaimSelf, NoCandidate, Reject, Lost, Yield, Enter, EnterPeer,
         Final, FinalPeer, Release, Confirm, Doubt, Heal, Settle, Reclaim, GiveBack
    <3> QED
      BY <1>1, <3>1 DEF Untried
  <2>2. search'[m].tried = {}
    BY <1>5, <2>1, TriedKept
  <2>3. search'[m].stage \in Searching
    BY <1>5, <2>1, SearchMoves, NoCandidateMoves DEF SearchStep, Searching
  <2> QED
    BY <2>2, <2>3 DEF Untried
<1> QED
  BY <1>2, <1>3, <1>4, <1>5

(* A search that is not promising, and takes no row, leaves the others as  *)
(* promising as they were.                                                 *)
LEMMA OthersPromising ==
    ASSUME NEW u \in Users, NEW v \in Users, {u, v} \in Compatible, RingInv(u, v),
           Smooth, ~InSession(u), ~InSession(v), row[u] # "none", row[v] # "none",
           NEW m \in Matchers, ~Promising(m, u, v),
           \A n \in Matchers \ {m} : search'[n] = search[n],
           \A w \in {u, v} : /\ row[w] = "waiting" => row'[w] = "waiting"
                             /\ row[w] \in MATCHABLE => row'[w] \in MATCHABLE
    PROVE  \E n \in Matchers : Promising(n, u, v)'
<1>1. PICK n \in Matchers : Promising(n, u, v)
  BY DEF RingInv, MeetInv
<1>2. search'[n] = search[n] /\ Who(n) \in {u, v}
  BY <1>1 DEF RingInv, OutInv, Promising
<1> QED
  BY <1>1, <1>2, StillPromising

(* While both have a row, every step of a search leaves one promising.     *)
LEMMA SearchPromises ==
    ASSUME NEW u \in Users, NEW v \in Users, {u, v} \in Compatible, RingInv(u, v),
           Smooth, ~InSession(u), ~InSession(v), ~InSession(u)', ~InSession(v)',
           row'[u] # "none", row'[v] # "none", NEW m \in Matchers, SearchStep(m)
    PROVE  \E n \in Matchers : Promising(n, u, v)'
<1> USE DEF RingInv, Moves
<1>1. /\ Untried(m, u, v) /\ Who(m) \in Users /\ row \in [Users -> RowStatus]
      /\ u # v /\ \A n \in Matchers \ {m} : search'[n] = search[n]
  <2>1. u # v
    BY RingAssumption
  <2>2. \A n \in Matchers \ {m} : search'[n] = search[n]
    BY SearchFlow
  <2>3. Untried(m, u, v)
    BY DEF MeetInv
  <2> QED
    BY <2>1, <2>2, <2>3 DEF TypeOK, Search, Who
<1>2. /\ "waiting" \in RowStatus /\ "claiming" \in RowStatus /\ "claimed" \in RowStatus
      /\ \A w \in Users : row[w] \in {"none", "waiting", "claiming", "claimed", "in_chat"}
  BY <1>1 DEF RowStatus
<1>3. search[m].stage # "join" => row[u] # "none" /\ row[v] # "none"
  BY RowsAppear
<1>4. CASE Find(m) \/ Judge(m) \/ Open(m)
  <2>1. search'[m].stage \in {"judge", "open"}
    <3>1. search'[m].stage \notin Searching
      BY <1>4, SearchMoves, FindMoves DEF Searching
    <3> QED
      BY <3>1, SearchUntried DEF Untried
  <2> QED
    BY <2>1 DEF Promising
<1>5. CASE Join(m)
  <2>1. /\ search[m].stage = "join"
        /\ \A w \in Users : row'[w] = IF w = Who(m) /\ row[w] \in {"none"} \cup MATCHABLE
                                      THEN "waiting" ELSE row[w]
    BY <1>1, <1>2, <1>5, RowTyped DEF Join, At
  <2>2. CASE row[Who(m)] \in {"none"} \cup MATCHABLE
    <3>1. Goto(m, "claim") /\ "claim" \in Stages
      BY <1>5, <2>2 DEF Join, Stages, MATCHABLE
    <3>2. search'[m].stage = "claim" /\ Who(m)' = Who(m)
      BY <3>1, GotoTyped DEF TypeOK
    <3> QED
      BY <1>1, <2>1, <2>2, <3>2 DEF Promising
  <2>3. CASE row[Who(m)] \notin {"none"} \cup MATCHABLE
    <3>1. \A w \in Users : row'[w] = row[w]
      BY <2>1, <2>3
    <3>2. ~Promising(m, u, v)
      BY <2>1 DEF Promising
    <3> QED
      BY <1>1, <3>1, <3>2, OthersPromising
  <2> QED
    BY <2>2, <2>3
<1>6. CASE ClaimSelf(m) \/ Reclaim(m)
  <2>1. /\ search[m].stage \in {"claim", "reclaim"} /\ Who(m) \in {u, v}
        /\ \A w \in Users : row'[w] = IF w = Who(m) /\ row[w] = "waiting" THEN "claiming" ELSE row[w]
    BY <1>1, <1>2, <1>6, RowTyped DEF ClaimSelf, Reclaim, At, QueueClaimSelf, OutInv
  <2>2. CASE Goto(m, "find")
    <3>1. "find" \in Stages
      BY DEF Stages
    <3>2. search'[m].stage = "find" /\ Who(m)' = Who(m)
      BY <2>2, <3>1, GotoTyped DEF TypeOK
    <3> QED
      BY <1>1, <1>3, <2>1, <3>2, LooksPromising
  <2>3. CASE ~Goto(m, "find")
    <3>1. search[m].stage = "claim" /\ row[Who(m)] # "waiting"
      BY <1>6, <2>3 DEF ClaimSelf, Reclaim, At
    <3>2. \A w \in Users : row'[w] = row[w]
      BY <2>1, <3>1
    <3>3. ~Promising(m, u, v)
      BY <3>1 DEF Promising
    <3> QED
      BY <1>1, <1>3, <3>1, <3>2, <3>3, OthersPromising
  <2> QED
    BY <2>2, <2>3
<1>7. CASE NoCandidate(m)
  <2>1. search[m].stage = "find" /\ search[m].tried = {} /\ row' = row /\ Candidates(m) = {}
    BY <1>1, <1>7 DEF NoCandidate, At, Untried
  <2>2. ~Promising(m, u, v)
    BY <2>1 DEF Promising, Candidates
  <2> QED
    BY <1>1, <1>3, <2>1, <2>2, OthersPromising
<1>8. CASE Release(m) \/ Heal(m)
  <2>1. search[m].stage \in {"release", "heal"}
    BY <1>8 DEF Release, Heal, At
  <2>2. \A w \in Users : row'[w] # row[w] => row'[w] = "waiting"
    BY <1>1, <1>2, <1>8, RowTyped DEF Release, Heal, QueueRelease, QueueReleaseSelf
  <2>3. ~Promising(m, u, v)
    BY <2>1 DEF Promising
  <2> QED
    BY <1>1, <1>3, <2>1, <2>2, <2>3, OthersPromising DEF MATCHABLE
<1>9. CASE Confirm(m) \/ Doubt(m) \/ Settle(m)
  <2>1. search[m].stage \in {"confirm", "doubt", "settle"} /\ row' = row
    BY <1>9 DEF Confirm, Doubt, Adopt, Settle, At
  <2>2. ~Promising(m, u, v)
    BY <2>1 DEF Promising
  <2> QED
    BY <1>1, <1>3, <2>1, <2>2, OthersPromising
<1>10. CASE \/ Reject(m) \/ Lost(m) \/ Yield(m) \/ Enter(m) \/ EnterPeer(m)
            \/ Final(m) \/ FinalPeer(m) \/ GiveBack(m)
  BY <1>1, <1>10 DEF Reject, Lost, Yield, Enter, EnterPeer, Final, FinalPeer, GiveBack, At,
                     Untried, Searching
<1> QED
  BY <1>4, <1>5, <1>6, <1>7, <1>8, <1>9, <1>10 DEF SearchStep

(* So every step keeps the promise.                                        *)
LEMMA MeetStep ==
    ASSUME Events \subseteq {"sweep", "repair"}, NEW u \in Users, NEW v \in Users,
           RingInv(u, v), [Next]_vars
    PROVE  MeetInv(u, v)'
<1> SUFFICES ASSUME {u, v} \in Compatible, Smooth', ~InSession(u)', ~InSession(v)'
             PROVE  /\ \A n \in Matchers : Untried(n, u, v)'
                    /\ row'[u] # "none" /\ row'[v] # "none" =>
                          \E n \in Matchers : Promising(n, u, v)'
  BY DEF MeetInv
<1>1. ASSUME NEW n, search'[n] = search[n]
      PROVE  Untried(n, u, v) => Untried(n, u, v)'
  BY <1>1 DEF Untried, Pair, Who, Cand
<1>2. ASSUME NEW m \in Matchers, SearchStep(m)
      PROVE  /\ \A n \in Matchers : Untried(n, u, v)'
             /\ row'[u] # "none" /\ row'[v] # "none" =>
                   \E n \in Matchers : Promising(n, u, v)'
  <2>1. Smooth /\ ~InSession(u) /\ ~InSession(v) /\ \A n \in Matchers \ {m} : search'[n] = search[n]
    BY <1>2, SearchFrame, SearchFlow DEF others, InSession, RingInv, Smooth
  <2>2. \A n \in Matchers : Untried(n, u, v)'
    BY <1>1, <1>2, <2>1, SearchUntried DEF RingInv, MeetInv
  <2> QED
    BY <1>2, <2>1, <2>2, SearchPromises
<1>3. ASSUME NEW m \in Matchers, NEW w \in Users, Click(m, w) \/ (m = Sweeper /\ Sweep(w))
      PROVE  /\ \A n \in Matchers : Untried(n, u, v)'
             /\ row'[u] # "none" /\ row'[v] # "none" =>
                   \E n \in Matchers : Promising(n, u, v)'
  <2>1. Smooth /\ row' = row /\ sessions' = sessions /\ ~InSession(u) /\ ~InSession(v)
    BY <1>3 DEF Click, Sweep, At, others, InSession, Smooth
  <2>2. /\ search[m].stage = "idle" /\ search'[m].stage \in {"join", "claim"}
        /\ \A n \in Matchers \ {m} : search'[n] = search[n]
    BY <1>3, StartMoves DEF RingInv
  <2>3. search[m].tried = {}
    BY <2>1, <2>2 DEF RingInv, MeetInv, Untried
  <2>4. Untried(m, u, v)'
    BY <1>3, <2>2, <2>3, TriedKept DEF RingInv, Untried, Searching
  <2>5. \A n \in Matchers : Untried(n, u, v)'
    BY <1>1, <2>1, <2>2, <2>4 DEF RingInv, MeetInv
  <2>6. ~Promising(m, u, v)
    BY <2>2 DEF Promising
  <2> QED
    BY <2>1, <2>2, <2>5, <2>6, OthersPromising
<1>4. CASE UNCHANGED vars
  BY <1>4 DEF vars, others, RingInv, MeetInv, Untried, Promising, Pair, Who, Cand, InSession, Smooth
<1>5. CASE Tidying
  <2>1. /\ Smooth /\ search' = search /\ ~InSession(u) /\ ~InSession(v)
        /\ row'[u] = row[u] /\ row'[v] = row[v]
    BY <1>5 DEF Tidying, InSession, Smooth
  <2>2. ASSUME NEW n \in Matchers, Promising(n, u, v)
        PROVE  Promising(n, u, v)'
    BY <2>1, <2>2, StillPromising DEF RingInv, OutInv, Promising
  <2> QED
    BY <1>1, <2>1, <2>2 DEF RingInv, MeetInv
<1> QED
  BY <1>2, <1>3, <1>4, <1>5, TidySteps DEF RingInv

(* At rest nobody has overlooked anybody.                                  *)
LEMMA RestMeets ==
    ASSUME NEW u \in Users, NEW v \in Users, RingInv(u, v)
    PROVE  NobodyMissed
<1> SUFFICES ASSUME Quiet, Smooth, NEW x \in Users, NEW y \in Users, {x, y} \in Compatible,
                    row[x] = "waiting", row[y] = "waiting"
             PROVE  FALSE
  BY DEF NobodyMissed
<1>1. {x, y} = {u, v}
  <2>1. x \in {u, v} /\ y \in {u, v} /\ x # y
    BY RingAssumption DEF RingInv, OutInv
  <2> QED
    BY <2>1
<1>2. \A m \in Matchers : search[m].stage = "idle"
  BY DEF Quiet, Busy
<1>3. ~InSession(u) /\ ~InSession(v)
  BY <1>1, <1>2 DEF RingInv, ClaimInv, TidyInv, ChatInv, Entering
<1>4. PICK m \in Matchers : Promising(m, u, v)
  BY <1>1, <1>3 DEF RingInv, MeetInv
<1> QED
  BY <1>2, <1>4 DEF Promising

(* Two acceptable users who are the only ones to search find each other,   *)
(* however many searches of theirs run at once and whatever the sweep does *)
(* in between: it never happens that each search sees the other's row      *)
(* claimed and all end with nobody found, for a row that is claiming can   *)
(* be claimed (MATCHABLE of db/ring.py).  It holds however often each      *)
(* clicks; beside the repair job, which deletes rows, only for one click   *)
(* each: a second one may bring back a row while the session begins.       *)
THEOREM PairNotMissed ==
    ASSUME \/ Events \subseteq {"sweep"}
           \/ Events \subseteq {"sweep", "repair"} /\ \A w \in Users : MaxClicks[w] <= 1,
           NEW u \in Users, NEW v \in Users, \A w \in Users \ {u, v} : MaxClicks[w] = 0
    PROVE  Spec => []NobodyMissed
<1>1. Init => RingInv(u, v) /\ AloneInv /\ OnceInv
  <2> SUFFICES ASSUME Init
               PROVE  RingInv(u, v) /\ AloneInv /\ OnceInv
    OBVIOUS
  <2>1. TypeOK /\ AloneInv /\ TidyInv
    BY TypeInit, AloneInit DEF AloneInv, TidyInv, NoJob
  <2>2. \A m \in Matchers : search[m].stage = "idle" /\ search[m].tried = {}
    BY DEF Init, NoSearch
  <2>3. \A w \in Users : row[w] = "none" /\ Rowless(w)
    BY DEF Init, Rowless, InSession
  <2>4. dropped = {}
    BY DEF Init
  <2> QED
    BY <2>1, <2>2, <2>3, <2>4
    DEF RingInv, ClaimInv, ClaimsHeld, OutInv, MeetInv, Untried, Searching, OnceInv, Smooth
<1>2. RingInv(u, v) /\ TidyInv' /\ [Next]_vars => RingInv(u, v)'
  BY TypeStep, ClaimStep, OutStep, MeetStep DEF RingInv
<1>3. RingInv(u, v) => NobodyMissed
  BY RestMeets
<1>4. CASE Events \subseteq {"sweep"}
  <2>1. (AloneInv => TidyInv) /\ (AloneInv => TidyInv)'
    BY DEF AloneInv, TidyInv, NoJob
  <2>2. RingInv(u, v) /\ AloneInv /\ [Next]_vars => (RingInv(u, v) /\ AloneInv)'
    BY <1>2, <1>4, <2>1, AloneStep DEF RingInv
  <2> QED
    BY <1>1, <1>3, <2>2, PTL DEF Spec
<1>5. CASE Events \subseteq {"sweep", "repair"} /\ \A w \in Users : MaxClicks[w] <= 1
  <2>1. RingInv(u, v) /\ OnceInv /\ [Next]_vars => (RingInv(u, v) /\ OnceInv)'
    BY <1>2, <1>5, TidyStep, OnceStep DEF RingInv
  <2> QED
    BY <1>1, <1>3, <2>1, PTL DEF Spec
<1> QED
  BY <1>4, <1>5
=============================================================================
