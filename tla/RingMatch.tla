------------------------------ MODULE RingMatch ------------------------------
(***************************************************************************)
(* Anonymous chat ("Ring"): how two waiting users are brought into one     *)
(* session.  db/ring.py, ring/service.py and ring/jobs.py.                 *)
(*                                                                         *)
(* Every user has at most one row in the queue and is in at most one       *)
(* active session, each kept by a unique index.  A search (try_match) is a *)
(* chain of single-document writes: it claims its own row, claims the row  *)
(* of a candidate, judges the pair, inserts the session and moves both     *)
(* rows to in_chat, giving claims back where it fails.  Searches run       *)
(* concurrently with each other (a click per user, and the job that sweeps *)
(* the queue), with the expiry of the waiting time, with pauses and with   *)
(* the end of sessions; every step below is one database call.             *)
(*                                                                         *)
(* Claim tokens are left out: a search never claims its own user's row as  *)
(* a candidate, so the token in ring_queue_release_self decides nothing.   *)
(***************************************************************************)
EXTENDS Naturals, FiniteSets

CONSTANTS
    Users,
    Matchers,    \* concurrent executions of search / try_match
    Sweeper,     \* the one of them that housekeeping runs, serially
    Compatible,  \* the pairs {u, v} that matcher.verdict accepts
    MaxClicks,   \* bound: how often each user starts a search
    MaxLaps,     \* bound: rounds of the settle loop (5 in the code)
    MaxCrashes,  \* bound: how often the bot dies
    MaxFailures, \* bound: how often a call of a search raises
    Events       \* which of the other activities below take place

AllEvents == {"sweep", "repair", "expire", "stale", "pause", "stop"}

ASSUME RingAssumption ==
    /\ Users # {}
    /\ Sweeper \in Matchers
    /\ Compatible \subseteq SUBSET Users
    /\ \A s \in Compatible : \E u, v \in Users : u # v /\ s = {u, v}
    /\ MaxClicks \in [Users -> Nat] /\ MaxLaps \in Nat
    /\ MaxCrashes \in Nat /\ MaxFailures \in Nat
    /\ Events \subseteq AllEvents

VARIABLES
    row,       \* row[u]: status of u's queue row, "none" if there is none
    sessions,  \* the active sessions, as pairs of users
    told,      \* told[u]: flags "expired" and "paused" of u's profile
    clicks,    \* clicks[u]: searches u has started
    search,    \* search[m]: the search m executes
    job,       \* the expiry and repair job
    leaver,    \* a user pausing the search
    ender,     \* a session being ended
    crashes,   \* how often the bot has died
    failures,  \* how often a search has failed
    dropped    \* whose rows a search that failed or died left as they were

others == <<clicks, job, leaver, ender, crashes, failures, dropped>>
vars == <<row, sessions, told, search, others>>

RowStatus == {"none", "waiting", "claiming", "claimed", "in_chat"}

(* Rows that may be claimed: someone who is searching himself is one.      *)
(* Mutant: only those at rest, as the code once had it.                    *)
MatchableAtRest == {"waiting"}
MATCHABLE == {"waiting", "claiming"}

Stages == {"idle", "join", "claim", "find", "judge", "reject", "open", "lost",
           "yield", "enter", "enterPeer", "final", "finalPeer", "release",
           "confirm", "doubt", "heal", "settle", "reclaim", "giveback"}

AnyUser == CHOOSE u \in Users : TRUE

InSession(u) == \E s \in sessions : u \in s

(* The local variables of a search: its next database call, its user, the  *)
(* candidate it has claimed, those it has tried in this pass, and the      *)
(* rounds of its settle loop.                                              *)
Search == [stage : Stages, who : Users, cand : Users, tried : SUBSET Users,
           laps : 0..MaxLaps]
NoSearch == [stage |-> "idle", who |-> AnyUser, cand |-> AnyUser, tried |-> {}, laps |-> 0]

NoJob == [stage |-> "idle", who |-> AnyUser]
NoEnd == [stage |-> "idle", left |-> {}, next |-> {}]

Init ==
    /\ row = [u \in Users |-> "none"]
    /\ sessions = {}
    /\ told = [u \in Users |-> {}]
    /\ clicks = [u \in Users |-> 0]
    /\ search = [m \in Matchers |-> NoSearch]
    /\ job = NoJob
    /\ leaver = NoJob
    /\ ender = NoEnd
    /\ crashes = 0 /\ failures = 0 /\ dropped = {}

-----------------------------------------------------------------------------
(* The writes on queue rows, each an atomic update of one document.        *)
SetRow(u, from, to) == row' = [row EXCEPT ![u] = IF @ \in from THEN to ELSE @]

\* Mutant: a release that does not look at the status.
QueueReleaseAny(u) == SetRow(u, RowStatus \ {"none"}, "waiting")

\* Mutant: a search gives its own row back as if it were a candidate's.
QueueReleaseSelfClaimed(u) == SetRow(u, {"claimed"}, "waiting")

QueueLeave(u)       == SetRow(u, RowStatus, "none")
QueueReleaseSelf(u) == SetRow(u, {"claiming"}, "waiting")
QueueRelease(u)     == SetRow(u, {"claimed", "claiming"}, "waiting")
QueueClaimSelf(u)   == SetRow(u, {"waiting"}, "claiming")
QueueIntoChat(u)    == SetRow(u, RowStatus \ {"none"}, "in_chat")
QueueRequeue(u)     == SetRow(u, {"in_chat"}, "waiting")

-----------------------------------------------------------------------------
Who(m)  == search[m].who
Cand(m) == search[m].cand
At(m, s) == search[m].stage = s /\ UNCHANGED <<told, others>>
Goto(m, s) == search' = [search EXCEPT ![m].stage = s]
Return(m)  == search' = [search EXCEPT ![m] = NoSearch]

(* search: a click clears the flags of u's last search and joins the queue. *)
Click(m, u) ==
    /\ m # Sweeper /\ search[m].stage = "idle"
    /\ clicks[u] < MaxClicks[u]
    /\ clicks' = [clicks EXCEPT ![u] = @ + 1]
    /\ told' = [told EXCEPT ![u] = {}]
    /\ search' = [search EXCEPT ![m].stage = "join", ![m].who = u]
    /\ UNCHANGED <<row, sessions, job, leaver, ender, crashes, failures, dropped>>

(* ring_queue_join.  A row that was claimed between its read and its write *)
(* makes the upsert collide, which is answered as in_chat.                 *)
Join(m) ==
    /\ At(m, "join")
    /\ \/ row[Who(m)] \notin {"claimed", "in_chat"} /\ Goto(m, "claim")
       \/ row[Who(m)] = "claimed" /\ (Goto(m, "claim") \/ Return(m))
       \/ row[Who(m)] = "in_chat" /\ Return(m)
    /\ SetRow(Who(m), {"none"} \cup MATCHABLE, "waiting")
    /\ UNCHANGED sessions

(* _sweep: with two rows waiting, it searches for one that still waits.    *)
Sweep(u) ==
    /\ "sweep" \in Events
    /\ At(Sweeper, "idle")
    /\ row[u] = "waiting"
    /\ \E v \in Users \ {u} : row[v] = "waiting"
    /\ search' = [search EXCEPT ![Sweeper].stage = "claim", ![Sweeper].who = u]
    /\ UNCHANGED <<row, sessions>>

(* try_match: claims its own row; if that is not waiting, the search ends, *)
(* adopting a session another matcher made.                                *)
ClaimSelf(m) ==
    /\ At(m, "claim")
    /\ QueueClaimSelf(Who(m))
    /\ IF row[Who(m)] = "waiting" THEN Goto(m, "find") ELSE Return(m)
    /\ UNCHANGED sessions

(* ring_queue_find_candidate: claims a matchable row it has not yet tried. *)
Candidates(m) ==
    {c \in Users \ ({Who(m)} \cup search[m].tried) : row[c] \in MATCHABLE}

Find(m) ==
    /\ At(m, "find")
    /\ \E c \in Candidates(m) :
          /\ SetRow(c, MATCHABLE, "claimed")
          /\ search' = [search EXCEPT ![m].stage = "judge", ![m].cand = c,
                                       ![m].tried = @ \cup {c}]
    /\ UNCHANGED sessions

NoCandidate(m) ==
    /\ At(m, "find")
    /\ Candidates(m) = {}
    /\ search' = [search EXCEPT ![m].stage = "release", ![m].cand = AnyUser,
                                 ![m].tried = {}]
    /\ UNCHANGED <<row, sessions>>

(* _verdict, with what it reads about the pair.                            *)
Acceptable(u, c) ==
    /\ {u, c} \in Compatible
    /\ ~InSession(u) /\ ~InSession(c)
    /\ row[c] \notin {"none", "in_chat"}

Judge(m) ==
    /\ At(m, "judge")
    /\ Goto(m, IF Acceptable(Who(m), Cand(m)) THEN "open" ELSE "reject")
    /\ UNCHANGED <<row, sessions>>

Reject(m) ==
    /\ At(m, "reject")
    /\ QueueRelease(Cand(m))
    /\ Goto(m, "find")
    /\ UNCHANGED sessions

(* Mutant: no unique index on slots.                                       *)
OpenWithoutIndex(m) ==
    /\ At(m, "open")
    /\ Goto(m, "enter")
    /\ sessions' = sessions \cup {{Who(m), Cand(m)}}
    /\ UNCHANGED row

(* ring_session_create: the unique index on slots refuses a second session. *)
Open(m) ==
    /\ At(m, "open")
    /\ IF InSession(Who(m)) \/ InSession(Cand(m))
       THEN Goto(m, "lost") /\ UNCHANGED sessions
       ELSE Goto(m, "enter") /\ sessions' = sessions \cup {{Who(m), Cand(m)}}
    /\ UNCHANGED row

(* The search ends with a match; one of the settle loop still gives its    *)
(* own row back.                                                           *)
Matched(m) == IF search[m].laps > 0 THEN Goto(m, "giveback") ELSE Return(m)

(* Lost the race for the session: adopt the one the user is in, giving the *)
(* candidate back unless he is the partner, or go on.                      *)
Lost(m) ==
    /\ At(m, "lost")
    /\ CASE ~InSession(Who(m))              -> Goto(m, "reject")
         [] {Who(m), Cand(m)} \in sessions  -> Matched(m)
         [] OTHER                           -> Goto(m, "yield")
    /\ UNCHANGED <<row, sessions>>

(* Mutant: the claim on the candidate is forgotten.                        *)
YieldKeeping(m) ==
    /\ At(m, "yield")
    /\ Matched(m)
    /\ UNCHANGED <<row, sessions>>

Yield(m) ==
    /\ At(m, "yield")
    /\ QueueRelease(Cand(m))
    /\ Matched(m)
    /\ UNCHANGED sessions

(* Mutant: a status the queue does not know.                               *)
EnterMistyped(m) ==
    /\ At(m, "enter")
    /\ SetRow(Who(m), RowStatus \ {"none"}, "chatting")
    /\ Goto(m, "enterPeer")
    /\ UNCHANGED sessions

(* _open_session moves both rows; rows that are gone stay gone.            *)
Enter(m) ==
    /\ At(m, "enter")
    /\ QueueIntoChat(Who(m))
    /\ Goto(m, "enterPeer")
    /\ UNCHANGED sessions

EnterPeer(m) ==
    /\ At(m, "enterPeer")
    /\ QueueIntoChat(Cand(m))
    /\ Goto(m, "final")
    /\ UNCHANGED sessions

(* finalize_match: rows of the pair that look matchable are moved again,   *)
(* whether or not the session is still active.                             *)
Final(m) ==
    /\ At(m, "final")
    /\ SetRow(Who(m), MATCHABLE, "in_chat")
    /\ Goto(m, "finalPeer")
    /\ UNCHANGED sessions

FinalPeer(m) ==
    /\ At(m, "finalPeer")
    /\ SetRow(Cand(m), MATCHABLE, "in_chat")
    /\ Matched(m)
    /\ UNCHANGED sessions

-----------------------------------------------------------------------------
(* Nobody found: the search gives its own row back ...                     *)
Release(m) ==
    /\ At(m, "release")
    /\ QueueReleaseSelf(Who(m))
    /\ Goto(m, IF search[m].laps > 0 THEN "settle"
               ELSE IF row[Who(m)] = "claiming" THEN "confirm" ELSE "doubt")
    /\ UNCHANGED sessions

(* ... looks for a session someone else made of it ...                     *)
Adopt(m, otherwise) ==
    /\ IF InSession(Who(m)) THEN Return(m) ELSE Goto(m, otherwise)
    /\ UNCHANGED <<row, sessions>>

Confirm(m) == At(m, "confirm") /\ Adopt(m, "settle")
Doubt(m)   == At(m, "doubt") /\ Adopt(m, "heal")

(* ... and, its row claimed by another, takes that claim for abandoned.    *)
Heal(m) ==
    /\ At(m, "heal")
    /\ QueueRelease(Who(m))
    /\ Goto(m, "settle")
    /\ UNCHANGED sessions

(* The settle loop: until matched, out of the queue or out of rounds, it    *)
(* searches again whenever somebody is there.                              *)
Settle(m) ==
    /\ At(m, "settle")
    /\ IF search[m].laps = MaxLaps \/ InSession(Who(m)) \/ row[Who(m)] # "waiting"
       THEN Return(m)
       ELSE search' = [search EXCEPT
                ![m].laps = @ + 1,
                ![m].stage = IF \E c \in Users \ {Who(m)} : row[c] \in MATCHABLE
                             THEN "reclaim" ELSE "settle"]
    /\ UNCHANGED <<row, sessions>>

(* Its own row may no longer be waiting; that is not looked at.            *)
Reclaim(m) ==
    /\ At(m, "reclaim")
    /\ QueueClaimSelf(Who(m))
    /\ Goto(m, "find")
    /\ UNCHANGED sessions

GiveBack(m) ==
    /\ At(m, "giveback")
    /\ QueueReleaseSelf(Who(m))
    /\ Return(m)
    /\ UNCHANGED sessions

SearchStep(m) ==
    \/ Join(m) \/ ClaimSelf(m) \/ Find(m) \/ NoCandidate(m) \/ Judge(m) \/ Reject(m)
    \/ Open(m) \/ Lost(m) \/ Yield(m) \/ Enter(m) \/ EnterPeer(m)
    \/ Final(m) \/ FinalPeer(m) \/ Release(m) \/ Confirm(m) \/ Doubt(m)
    \/ Heal(m) \/ Settle(m) \/ Reclaim(m) \/ GiveBack(m)

(* A search that is under way and not yet done with u's row.               *)
HoldsPeer(m, u) ==
    Cand(m) = u /\ search[m].stage \in {"judge", "reject", "open", "lost", "yield",
                                        "enter", "enterPeer"}

Holds(m, u) ==
    \/ HoldsPeer(m, u)
    \/ Who(m) = u /\ search[m].stage \notin {"idle", "join", "claim"}

Held(u) == \E m \in Matchers : Holds(m, u)

(* A call of m's search raises.  try_match then gives the row of its own   *)
(* user back and no other: the candidate stays claimed (and a session that *)
(* was inserted stays, its rows not moved).  The giving back may raise as  *)
(* well, and nothing is given back if the claim of its own row was written *)
(* but its answer lost.                                                    *)
FailWith(m, left) ==
    /\ failures < MaxFailures
    /\ search[m].stage # "idle"
    /\ failures' = failures + 1
    /\ dropped' = dropped \cup left
    /\ UNCHANGED <<row, sessions, told, clicks, job, leaver, ender, crashes>>

FailReleasing(m) ==
    /\ search[m].stage \notin {"join", "claim"}
    /\ Goto(m, "giveback")
    /\ FailWith(m, {u \in Users : \/ HoldsPeer(m, u)
                                 \/ (u = Who(m) /\ search[m].stage = "enter")})

FailKeeping(m) ==
    /\ Return(m)
    /\ FailWith(m, {u \in Users : Holds(m, u)})

Fail(m) == FailReleasing(m) \/ FailKeeping(m)

-----------------------------------------------------------------------------
(* The jobs: search_tick and housekeeping expire searches (any search may  *)
(* have reached its limit), and housekeeping repairs.                      *)
JobTo(s, u) == job' = [stage |-> s, who |-> u]
JobDone == job' = NoJob
JobOnly == UNCHANGED <<sessions, clicks, search, leaver, ender, crashes, failures, dropped>>

(* expire_search: the row is live ...                                      *)
Expire(u) ==
    /\ "expire" \in Events /\ job.stage = "idle"
    /\ row[u] \in MATCHABLE
    /\ JobTo("session", u)
    /\ UNCHANGED <<row, told>> /\ JobOnly

(* Where search_tick gives up, housekeeping leaves the queue all the same. *)
LeaveAnyway == IF "stale" \in Events THEN JobTo("leave", job.who) ELSE JobDone

(* ... no session yet ...                                                  *)
ExpireSession ==
    /\ job.stage = "session"
    /\ IF InSession(job.who) THEN LeaveAnyway ELSE JobTo("leaveif", job.who)
    /\ UNCHANGED <<row, told>> /\ JobOnly

(* ... the conditional delete ...                                          *)
ExpireLeaveIf ==
    /\ job.stage = "leaveif"
    /\ SetRow(job.who, MATCHABLE, "none")
    /\ IF row[job.who] \in MATCHABLE THEN JobTo("mark", job.who) ELSE LeaveAnyway
    /\ UNCHANGED told /\ JobOnly

(* ... which housekeeping repeats without a condition ...                  *)
StaleLeave ==
    /\ job.stage = "leave"
    /\ QueueLeave(job.who)
    /\ JobTo("mark", job.who)
    /\ UNCHANGED told /\ JobOnly

(* ... and search_expired_at is set.                                       *)
ExpireMark ==
    /\ job.stage = "mark"
    /\ told' = [told EXCEPT ![job.who] = @ \cup {"expired"}]
    /\ JobDone
    /\ UNCHANGED row /\ JobOnly

(* Mutant: only claims by another search are repaired.                     *)
RepairClaimedOnly(u) ==
    /\ "repair" \in Events /\ job.stage = "idle"
    /\ row[u] = "claimed" /\ ~Held(u)
    /\ QueueRelease(u)
    /\ UNCHANGED <<told, job>> /\ JobOnly

(* repair_claims: a claim no search holds any more comes of age.           *)
RepairClaims(u) ==
    /\ "repair" \in Events /\ job.stage = "idle"
    /\ row[u] \in {"claimed", "claiming"} /\ ~Held(u)
    /\ QueueRelease(u)
    /\ UNCHANGED <<told, job>> /\ JobOnly

(* repair_orphans: a row waits though its user is in a session; it is      *)
(* deleted.                                                                *)
FindOrphan(u) ==
    /\ "repair" \in Events /\ job.stage = "idle"
    /\ row[u] = "waiting" /\ InSession(u)
    /\ JobTo("orphan", u)
    /\ UNCHANGED <<row, told>> /\ JobOnly

(* Mutant: the conditional delete, for rows that are being searched for.   *)
DropOrphanClaiming ==
    /\ job.stage = "orphan"
    /\ SetRow(job.who, {"claiming"}, "none")
    /\ JobDone
    /\ UNCHANGED told /\ JobOnly

DropOrphan ==
    /\ job.stage = "orphan"
    /\ QueueLeave(job.who)
    /\ JobDone
    /\ UNCHANGED told /\ JobOnly

JobStep ==
    \/ ExpireSession \/ ExpireLeaveIf \/ StaleLeave \/ ExpireMark \/ DropOrphan

-----------------------------------------------------------------------------
(* pause_search: unless in a chat, leave the queue, then set the flag.     *)
LeaverOnly == UNCHANGED <<sessions, clicks, search, job, ender, crashes, failures, dropped>>

Pause(u) ==
    /\ "pause" \in Events /\ leaver.stage = "idle"
    /\ "paused" \notin told[u]
    /\ row[u] # "in_chat"
    /\ leaver' = [stage |-> "leave", who |-> u]
    /\ UNCHANGED <<row, told>> /\ LeaverOnly

PauseLeave ==
    /\ leaver.stage = "leave"
    /\ QueueLeave(leaver.who)
    /\ leaver' = [leaver EXCEPT !.stage = "flag"]
    /\ UNCHANGED told /\ LeaverOnly

PauseFlag ==
    /\ leaver.stage = "flag"
    /\ told' = [told EXCEPT ![leaver.who] = @ \cup {"paused"}]
    /\ leaver' = NoJob
    /\ UNCHANGED row /\ LeaverOnly

-----------------------------------------------------------------------------
(* end_session: the session ends at once, then both rows are deleted, and  *)
(* next_partner requeues the user who asked for it.                        *)
EnderOnly == UNCHANGED <<told, clicks, search, job, leaver, crashes, failures, dropped>>

End(s, next) ==
    /\ "stop" \in Events /\ ender.stage = "idle"
    /\ s \in sessions
    /\ sessions' = sessions \ {s}
    /\ ender' = [stage |-> "leave", left |-> s, next |-> next]
    /\ UNCHANGED row /\ EnderOnly

EndLeave(u) ==
    /\ ender.stage = "leave" /\ u \in ender.left
    /\ QueueLeave(u)
    /\ ender' = [ender EXCEPT !.left = @ \ {u},
                              !.stage = IF ender.left = {u} THEN "requeue" ELSE @]
    /\ UNCHANGED sessions /\ EnderOnly

EndRequeue ==
    /\ ender.stage = "requeue"
    /\ IF ender.next = {} THEN UNCHANGED row
       ELSE \E u \in ender.next : QueueRequeue(u)
    /\ ender' = NoEnd
    /\ UNCHANGED sessions /\ EnderOnly

EndStep == EndRequeue \/ \E u \in Users : EndLeave(u)

-----------------------------------------------------------------------------
(* The bot dies and starts again: whatever was under way is gone, and      *)
(* ring_reconcile frees users in a chat that has no session.               *)
Busy == \E m \in Matchers : search[m].stage # "idle"
Quiet == ~Busy /\ job = NoJob /\ leaver = NoJob /\ ender = NoEnd

Restart ==
    /\ crashes < MaxCrashes
    /\ crashes' = crashes + 1
    /\ ~Quiet
    /\ row' = [u \in Users |-> IF row[u] = "in_chat" /\ ~InSession(u) THEN "none" ELSE row[u]]
    /\ search' = [m \in Matchers |-> NoSearch]
    /\ job' = NoJob /\ leaver' = NoJob /\ ender' = NoEnd
    /\ dropped' = dropped \cup {u \in Users : Held(u)}
    /\ UNCHANGED <<sessions, told, clicks, failures>>

Next ==
    \/ \E m \in Matchers : SearchStep(m) \/ Fail(m) \/ \E u \in Users : Click(m, u)
    \/ \E u \in Users : Sweep(u) \/ Expire(u) \/ Pause(u) \/ RepairClaims(u) \/ FindOrphan(u)
    \/ \E s \in sessions : \E next \in {{}} \cup {{u} : u \in s} : End(s, next)
    \/ JobStep \/ PauseLeave \/ PauseFlag \/ EndStep \/ Restart

Spec == Init /\ [][Next]_vars

(* The event loop resumes every coroutine, the jobs run again and again,   *)
(* and the sweep tries every row that still waits in its turn.             *)
FairSpec ==
    /\ Spec
    /\ \A m \in Matchers : WF_vars(SearchStep(m))
    /\ \A u \in Users : SF_vars(Sweep(u)) /\ WF_vars(RepairClaims(u)) /\ WF_vars(FindOrphan(u))
    /\ WF_vars(JobStep) /\ WF_vars(PauseLeave) /\ WF_vars(PauseFlag) /\ WF_vars(EndStep)

-----------------------------------------------------------------------------
TypeOK ==
    /\ row \in [Users -> RowStatus]
    /\ sessions \subseteq SUBSET Users
    /\ told \in [Users -> SUBSET {"expired", "paused"}]
    /\ clicks \in [Users -> Nat] /\ \A u \in Users : clicks[u] <= MaxClicks[u]
    /\ search \in [Matchers -> Search]
    /\ job \in [stage : {"idle", "session", "leaveif", "leave", "mark", "orphan"}, who : Users]
    /\ leaver \in [stage : {"idle", "leave", "flag"}, who : Users]
    /\ ender \in [stage : {"idle", "leave", "requeue"}, left : SUBSET Users, next : SUBSET Users]
    /\ crashes \in 0..MaxCrashes /\ failures \in 0..MaxFailures
    /\ dropped \subseteq Users

(* A user chats with one partner, an acceptable one, and not with himself. *)
SessionsArePairs ==
    /\ sessions \subseteq Compatible
    /\ \A s, t \in sessions : s # t => s \cap t = {}

(* No claim is ever orphaned by a search that runs to its end: a row that  *)
(* is claimed or claiming is in the hands of a running search, or of one   *)
(* that failed or died holding it.  A search that fails gives its own row  *)
(* back, unless that fails too.                                            *)
ClaimHasHolder ==
    \A u \in Users : row[u] \in {"claimed", "claiming"} => Held(u) \/ u \in dropped

(* When everything has come to rest, a row says in_chat exactly for the    *)
(* users who are in a session, save that a search which failed or died     *)
(* between the insert of the session and the writes on the rows has left   *)
(* them as they were.                                                      *)
RowTellsSession ==
    Quiet => \A u \in Users :
        /\ row[u] = "in_chat" => InSession(u)
        /\ InSession(u) => row[u] = "in_chat" \/ u \in dropped

(* Two acceptable users, alone in the queue, who both searched have found  *)
(* each other: their concurrent searches do not both end with nobody found *)
(* (a crash or an error may of course have ended both).                    *)
Smooth == crashes = 0 /\ failures = 0

NobodyMissed ==
    Quiet /\ Smooth => \A u, v \in Users :
        {u, v} \in Compatible => ~(row[u] = "waiting" /\ row[v] = "waiting")

(* No user whose search was declared expired is matched by it.             *)
NeverExpiredAndMatched == \A u \in Users : "expired" \in told[u] => ~InSession(u)

(* No user who paused his search is matched.                               *)
PausedNotMatched == \A u \in Users : "paused" \in told[u] => ~InSession(u)

(* The end of a session frees both users: nobody is left in a chat that    *)
(* does not exist.                                                         *)
EndFreesBoth == Quiet => \A u \in Users : row[u] = "in_chat" => InSession(u)

(* Two acceptable users do not wait in the queue together for ever.        *)
PairsMeet ==
    \A u, v \in Users :
        {u, v} \in Compatible =>
            (row[u] = "waiting" /\ row[v] = "waiting" ~> InSession(u) \/ InSession(v))

(* A claim is always given back or turned into a chat, even after a crash, *)
(* and a user in a session does not stay in the queue as a candidate.      *)
RowsMoveOn ==
    \A u \in Users :
       /\ row[u] \in {"claimed", "claiming"} ~> row[u] \notin {"claimed", "claiming"}
       /\ row[u] = "waiting" /\ InSession(u) ~> row[u] # "waiting" \/ ~InSession(u)
=============================================================================
