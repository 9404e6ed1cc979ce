----------------------------- MODULE Subscription -----------------------------
(***************************************************************************)
(* The subscription documents and everything that writes them: payments    *)
(* and manual grants (sub_activate), the free trial, the family (invite    *)
(* codes, members, removal), revocation, and the expiry job.  Each is a    *)
(* few reads and writes with awaits between them; none locks the document. *)
(*                                                                         *)
(* Manual grants pass the operation lock of module OpLock; its callers are *)
(* the calls of this module, and its clock is the clock of the             *)
(* subscriptions.  A period is Days long; what matters is the order of     *)
(* ends and moments, not their distance.                                   *)
(***************************************************************************)
EXTENDS OpLock, FiniteSets

CONSTANTS
    Users,
    Nobody,  \* no family owner, no code
    Calls,   \* coroutines; the callers of the lock
    Codes,   \* invite codes that can be made
    May,     \* the calls that happen: pairs of an operation and its user, the
             \* owner for "invite", him and the member for "enrol"
    Family,  \* the users whose payment is for the plan with several members, or
             \* who try it (a trial is of the plan that is the cheapest)
    Days,    \* length of a period
    Seats,   \* max_members of that plan
    Calm     \* writes of one subscription do not overlap with a write that
             \* rests on an earlier read of it, unless they are the same
             \* request repeated

(* "overwrite" is a manual grant that does not extend.  Its claim has a key *)
(* of its own and is left out.                                             *)
Operations == {"pay", "grant", "overwrite", "trial", "redeem", "enrol", "invite",
               "remove", "revoke"}

ASSUME SubscriptionAssumption ==
    /\ Workers = Calls /\ Keepers = Calls
    /\ IsFiniteSet(Calls) /\ Calls # {}
    /\ IsFiniteSet(Users) /\ Users # {} /\ Nobody \notin Users \cup Codes
    /\ May \subseteq Operations \X Users
    /\ Family \subseteq Users
    /\ Days \in Nat \ {0} /\ Seats \in Nat \ {0}
    /\ Calm \in BOOLEAN

VARIABLES
    sub,     \* sub[u]: the subscription of u
    tried,   \* the users with trial_used
    code,    \* code[k]: its owner and used_by; Nobody before it is made, used
    paid,    \* the users whose payment has been approved
    call,    \* call[c]: the running call of c
    batch,   \* the subscriptions the expiry job is about to write
    count    \* history: how often a trial of u (that was answered), a grant, a
             \* code has given days

subVars == <<sub, tried, code, paid, call, batch, count>>
subButCall == <<sub, tried, code, paid, batch, count>>
vars == <<lockVars, subVars>>

Idle == [at |-> "idle", op |-> "pay", who |-> CHOOSE u \in Users : TRUE,
         own |-> Nobody, key |-> Nobody, end |-> 0]

SubscriptionInit ==
    /\ LockInit
    /\ sub = [u \in Users |-> [st |-> "none", end |-> 0, owner |-> Nobody, via |-> Nobody,
                             plan |-> FALSE]]
    /\ tried = {}
    /\ code = [k \in Codes |-> [owner |-> Nobody, user |-> Nobody]]
    /\ paid = {}
    /\ call = [c \in Calls |-> Idle]
    /\ batch = {}
    /\ count = [trial |-> [u \in Users |-> 0], grant |-> 0, code |-> [k \in Codes |-> 0]]

At(c, s)   == call[c].at = s
Op(c)      == call[c].op
Who(c)     == call[c].who
Key(c)     == call[c].key
Goto(c, s) == call' = [call EXCEPT ![c].at = s]

Active(u) == sub[u].st = "active"
Live(u)   == Active(u) /\ sub[u].end >= now

(* sub_is_active: a member's access ends with the owner's.                 *)
HasAccess(u) ==
    /\ Live(u)
    /\ sub[u].owner # Nobody => Live(sub[u].owner)

Members(o) == {u \in Users : Active(u) /\ sub[u].owner = o}

(* Mutant: the owner's own seat is given away too.                         *)
SeatsLeftAll(o) == IF sub[o].plan THEN Seats - Cardinality(Members(o)) ELSE 0

(* family_plan_seats: what is left of the seats beside the owner's.        *)
SeatsLeft(o) == IF sub[o].plan THEN Seats - 1 - Cardinality(Members(o)) ELSE 0

(* Whom a write of u's subscription concerns as well.                      *)
Concerned(u) == ({u} \cup Members(u) \cup {sub[u].owner}) \ {Nobody}

(* A call that has read u's subscription and has yet to write by it.       *)
Open(c, u) ==
    /\ \/ call[c].at \in {"token", "write", "align", "lock", "join", "remove"}
       \/ At(c, "read") /\ Op(c) = "trial"
    /\ u \in {Who(c), call[c].own}

(* The same request again: of the same user, or with the same code.        *)
Repeats(c, op, u, k) == Op(c) = op /\ (IF k = Nobody THEN Who(c) = u ELSE Key(c) = k)

(* Calm: only repetitions of u's op with key k are open about us.          *)
Free(us, op, u, k) ==
    Calm => \A v \in us : /\ v \notin batch
                          /\ \A c \in Calls : Open(c, v) => Repeats(c, op, u, k)

Start(c, op, u, k, s) ==
    /\ <<op, u>> \in May /\ At(c, "idle")
    /\ call' = [call EXCEPT ![c] = [Idle EXCEPT !.at = s, !.op = op, !.who = u, !.key = k]]
    /\ UNCHANGED <<lockVars, sub, tried, code, batch, count>>

(* The call is over; a grant leaves its claim behind.                      *)
Finish(c) ==
    /\ call' = [call EXCEPT ![c] = Idle]
    /\ IF phase[c] = "out" THEN UNCHANGED lockVars ELSE Leave(c)

-----------------------------------------------------------------------------
(* Starting points.  A payment has been approved, once (module Payment).   *)
Pay(c, u) ==
    /\ u \notin paid
    /\ Start(c, "pay", u, Nobody, "read")
    /\ paid' = paid \cup {u}

Grant(c, u) == Start(c, "grant", u, Nobody, "claim") /\ UNCHANGED paid

(* sub_activate(extend = False) reads the subscription in vain.            *)
Overwrite(c, u) ==
    /\ Free(Concerned(u), "none", u, Nobody)
    /\ <<"overwrite", u>> \in May /\ At(c, "idle")
    /\ call' = [call EXCEPT ![c] = [Idle EXCEPT !.at = "write", !.op = "overwrite", !.who = u,
                                                !.end = now + Days]]
    /\ UNCHANGED <<lockVars, subButCall>>

(* trial_status.                                                           *)
Trial(c, u) ==
    /\ ~HasAccess(u) /\ u \notin tried
    /\ Free(Concerned(u), "trial", u, Nobody)
    /\ Start(c, "trial", u, Nobody, "token") /\ UNCHANGED paid

Invite(c, u) ==
    /\ HasAccess(u) /\ SeatsLeft(u) > 0
    /\ Start(c, "invite", u, Nobody, "issue") /\ UNCHANGED paid

Remove(c, u) ==
    /\ sub[u].owner # Nobody
    /\ Free(Concerned(u), "remove", u, Nobody)
    /\ Start(c, "remove", u, Nobody, "remove") /\ UNCHANGED paid

(* family_redeem up to the lock of the code.                               *)
Redeem(c, u, k) ==
    LET o == code[k].owner IN
    /\ o \in Users \ {u} /\ code[k].user = Nobody
    /\ ~HasAccess(u) /\ HasAccess(o) /\ SeatsLeft(o) > 0
    /\ Free(Concerned(u) \cup Concerned(o), "redeem", u, k)
    /\ <<"redeem", u>> \in May /\ At(c, "idle")
    /\ call' = [call EXCEPT ![c] = [at |-> "lock", op |-> "redeem", who |-> u, own |-> o,
                                    key |-> k, end |-> sub[o].end]]
    /\ UNCHANGED <<lockVars, subButCall>>

(* family_add_admin: staff make u a member of o's family, without a code.  *)
Enrol(c, u, o) ==
    /\ u # o /\ ~HasAccess(u) /\ HasAccess(o) /\ SeatsLeft(o) > 0
    /\ Free(Concerned(u) \cup Concerned(o), "none", u, Nobody)
    /\ {<<"enrol", u>>, <<"enrol", o>>} \subseteq May /\ At(c, "idle")
    /\ call' = [call EXCEPT ![c] = [at |-> "join", op |-> "enrol", who |-> u, own |-> o,
                                    key |-> Nobody, end |-> sub[o].end]]
    /\ UNCHANGED <<lockVars, subButCall>>

-----------------------------------------------------------------------------
(* Grants: op_claim decides who goes on.                                   *)
GrantClaim(c) ==
    /\ At(c, "claim")
    /\ Claim(c)
    /\ Goto(c, IF phase'[c] = "in" THEN "read" ELSE "takeover")
    /\ UNCHANGED subButCall
GrantTakeOver(c) ==
    /\ At(c, "takeover")
    /\ TakeOver(c)
    /\ call' = [call EXCEPT ![c] = IF phase'[c] = "in" THEN [@ EXCEPT !.at = "read"] ELSE Idle]
    /\ UNCHANGED subButCall

(* Mutant: the token is set without looking at it.                         *)
TakeTokenBlind(c) ==
    /\ At(c, "token")
    /\ tried' = tried \cup {Who(c)} /\ Goto(c, "read")
    /\ UNCHANGED <<lockVars, sub, code, paid, batch, count>>

(* trial_claim: the token is taken by a conditional update ...             *)
TakeToken(c) ==
    /\ At(c, "token")
    /\ IF Who(c) \notin tried
       THEN tried' = tried \cup {Who(c)} /\ Goto(c, "read") /\ UNCHANGED lockVars
       ELSE Finish(c) /\ UNCHANGED tried
    /\ UNCHANGED <<sub, code, paid, batch, count>>

(* ... and given back when the activation fails, or seems to.              *)
ReleaseToken(c) ==
    /\ At(c, "untoken")
    /\ tried' = tried \ {Who(c)}
    /\ Finish(c)
    /\ UNCHANGED <<sub, code, paid, batch, count>>

(* Mutant: a renewal starts today.                                         *)
PeriodEndToday(c) == now + Days

(* sub_activate reads the subscription and computes the end: a renewal     *)
(* starts where the active period ends, everything else now.               *)
PeriodEnd(c) ==
    LET s == sub[Who(c)] IN
    IF Op(c) # "trial" /\ Active(Who(c)) /\ s.end > now THEN s.end + Days ELSE now + Days

Read(c) ==
    /\ At(c, "read")
    /\ Op(c) = "trial" \/ Free(Concerned(Who(c)), "none", Who(c), Nobody)
    /\ call' = [call EXCEPT ![c].at = "write", ![c].end = PeriodEnd(c)]
    /\ UNCHANGED <<lockVars, subButCall>>

(* The document is overwritten, plan_id included: that of the plan paid    *)
(* for or tried, none for what staff grant.                                *)
Activate(c) ==
    sub' = [sub EXCEPT ![Who(c)] = [st |-> "active", end |-> call[c].end,
                                    owner |-> Nobody, via |-> Nobody,
                                    plan |-> Op(c) \in {"pay", "trial"} /\ Who(c) \in Family]]

Write(c) ==
    /\ At(c, "write")
    /\ Activate(c)
    /\ count' = CASE Op(c) = "trial" -> [count EXCEPT !.trial[Who(c)] = @ + 1]
                  [] Op(c) = "grant" -> [count EXCEPT !.grant = @ + 1]
                  [] OTHER -> count
    /\ Goto(c, "align")
    /\ UNCHANGED <<lockVars, tried, code, paid, batch>>

(* An exception: nothing is written, or it is and the answer is lost.      *)
GiveUp(c) == IF Op(c) = "trial" THEN Goto(c, "untoken") /\ UNCHANGED lockVars ELSE Finish(c)

WriteFails(c) ==
    /\ At(c, "write")
    /\ GiveUp(c)
    /\ UNCHANGED subButCall

WriteUnanswered(c) ==
    /\ At(c, "write")
    /\ Activate(c)
    /\ count' = IF Op(c) = "grant" THEN [count EXCEPT !.grant = @ + 1] ELSE count
    /\ GiveUp(c)
    /\ UNCHANGED <<tried, code, paid, batch>>

(* The active members of the family get the new end.                       *)
Align(c) ==
    /\ At(c, "align")
    /\ sub' = [u \in Users |-> IF u \in Members(Who(c))
                               THEN [sub[u] EXCEPT !.end = call[c].end] ELSE sub[u]]
    /\ Finish(c)
    /\ UNCHANGED <<tried, code, paid, batch, count>>

-----------------------------------------------------------------------------
(* family_code_create: an unused code is inserted.                         *)
IssueCode(c) ==
    /\ At(c, "issue")
    /\ \E k \in Codes :
          /\ code[k].owner = Nobody
          /\ code' = [code EXCEPT ![k].owner = Who(c)]
    /\ Finish(c)
    /\ UNCHANGED <<sub, tried, paid, batch, count>>

(* family_redeem: the code is locked for its user by a conditional update  *)
(* ...                                                                     *)
LockCode(c) ==
    /\ At(c, "lock")
    /\ IF code[Key(c)].user = Nobody
       THEN code' = [code EXCEPT ![Key(c)].user = Who(c)] /\ Goto(c, "join") /\ UNCHANGED lockVars
       ELSE Finish(c) /\ UNCHANGED code
    /\ UNCHANGED <<sub, tried, paid, batch, count>>

(* ... and the member's subscription is written with what was read of the  *)
(* owner's before: its end, and a plan with seats.                         *)
Join(c) ==
    /\ At(c, "join")
    /\ sub' = [sub EXCEPT ![Who(c)] = [st |-> "active", end |-> call[c].end,
                                       owner |-> call[c].own, via |-> Key(c), plan |-> TRUE]]
    /\ count' = IF Key(c) \in Codes THEN [count EXCEPT !.code[Key(c)] = @ + 1] ELSE count
    /\ Finish(c)
    /\ UNCHANGED <<tried, code, paid, batch>>

(* family_remove, by the owner or by staff, has found a member.            *)
RemoveMember(c) ==
    /\ At(c, "remove")
    /\ sub' = [sub EXCEPT ![Who(c)].st = "revoked"]
    /\ Finish(c)
    /\ UNCHANGED <<tried, code, paid, batch, count>>

(* sub_revoke, by staff: one update.                                       *)
Revoke(u) ==
    /\ <<"revoke", u>> \in May /\ sub[u].st # "none"
    /\ sub' = [sub EXCEPT ![u].st = "revoked"]
    /\ UNCHANGED <<lockVars, tried, code, paid, call, batch, count>>

-----------------------------------------------------------------------------
(* sub_expire_due, of the daily job and of the hourly sweep: it reads the  *)
(* lapsed subscriptions, then writes their status by id.                   *)
Due == {u \in Users : Active(u) /\ sub[u].end < now}

FindDue ==
    /\ batch = {} /\ Due # {}
    /\ \A u \in Due : Free(Concerned(u), "none", u, Nobody)
    /\ batch' = Due
    /\ UNCHANGED <<lockVars, sub, tried, code, paid, call, count>>

(* Mutant: a status no reader knows.                                       *)
ExpireDueMistyped ==
    /\ batch # {}
    /\ sub' = [u \in Users |-> IF u \in batch THEN [sub[u] EXCEPT !.st = "ended"] ELSE sub[u]]
    /\ batch' = {}
    /\ UNCHANGED <<lockVars, tried, code, paid, call, count>>

ExpireDue ==
    /\ batch # {}
    /\ sub' = [u \in Users |-> IF u \in batch THEN [sub[u] EXCEPT !.st = "expired"] ELSE sub[u]]
    /\ batch' = {}
    /\ UNCHANGED <<lockVars, tried, code, paid, call, count>>

(* The request dies.                                                       *)
Crash(c) ==
    /\ ~At(c, "idle")
    /\ call' = [call EXCEPT ![c] = Idle]
    /\ IF phase[c] = "out" THEN UNCHANGED lockVars ELSE LockCrash(c)
    /\ UNCHANGED subButCall

Begin(c) ==
    \E u \in Users :
       \/ Pay(c, u) \/ Grant(c, u) \/ Overwrite(c, u) \/ Trial(c, u) \/ Invite(c, u)
       \/ Remove(c, u) \/ \E k \in Codes : Redeem(c, u, k)
       \/ \E o \in Users : Enrol(c, u, o)

Step(c) ==
    \/ GrantClaim(c) \/ GrantTakeOver(c) \/ TakeToken(c) \/ ReleaseToken(c)
    \/ Read(c) \/ Write(c) \/ WriteFails(c) \/ WriteUnanswered(c) \/ Align(c)
    \/ IssueCode(c) \/ LockCode(c) \/ Join(c) \/ RemoveMember(c) \/ Crash(c)

Clock == (Tick \/ Expire) /\ UNCHANGED subVars

SubscriptionNext ==
    \/ \E c \in Calls : Begin(c) \/ Step(c)
    \/ \E u \in Users : Revoke(u)
    \/ FindDue \/ ExpireDue \/ Clock

SubscriptionSpec == SubscriptionInit /\ [][SubscriptionNext]_vars

-----------------------------------------------------------------------------
Subscriptions == [st : {"none", "active", "expired", "revoked"}, end : Nat,
                  owner : Users \cup {Nobody}, via : Codes \cup {Nobody}, plan : BOOLEAN]

Running == [at : {"idle", "claim", "takeover", "token", "untoken", "read", "write", "align",
                  "issue", "lock", "join", "remove"},
            op : Operations, who : Users, own : Users \cup {Nobody},
            key : Codes \cup {Nobody}, end : Nat]

SubTypeOK ==
    /\ LockTypeOK
    /\ sub \in [Users -> Subscriptions]
    /\ tried \subseteq Users /\ paid \subseteq Users /\ batch \subseteq Users
    /\ code \in [Codes -> [owner : Users \cup {Nobody}, user : Users \cup {Nobody}]]
    /\ call \in [Calls -> Running]

(* Until when u has access as things stand.                                *)
LastMoment(u) ==
    LET o == sub[u].owner IN
    IF o = Nobody \/ sub[u].end <= sub[o].end THEN sub[u].end ELSE sub[o].end

(* However often the same request is repeated, and whatever dies: a trial  *)
(* and an invite code give days once, and a manual grant at most once per  *)
(* life of its claim (trial_claim, family_redeem, op_claim).  A trial      *)
(* whose activation was written but not answered does not count: it gives  *)
(* the token back.                                                         *)
TokensOnce ==
    /\ \A u \in Users : count.trial[u] <= 1
    /\ \A k \in Codes : count.code[k] <= 1
    /\ count.grant <= 1 + (now - 1) \div TTL

(* Nobody with access loses days but by a revocation or by a grant that    *)
(* staff make without extend, and a renewal of an active subscription, by  *)
(* a payment or a grant that extends, adds its whole period.  For calls    *)
(* that do not overlap but repeat one request (Calm), and members without  *)
(* a family of their own: both can lose days.                              *)
NoLostDays ==
    [][\A u \in Users : HasAccess(u) =>
          /\ \/ \E c \in Calls : Op(c) = "overwrite" /\ call'[c] # call[c]
             \/ HasAccess(u)' /\ LastMoment(u)' >= LastMoment(u)
             \/ ~HasAccess(u)' /\ now' # now
             \/ ~HasAccess(u)' /\ \E v \in Users : sub[v].st # "revoked" /\ sub'[v].st = "revoked"
          /\ \A c \in Calls :
                At(c, "write") /\ call'[c].at = "align" /\ Who(c) = u
                   /\ Op(c) \notin {"trial", "overwrite"}
                  => sub'[u].end = sub[u].end + Days]_vars

(* How many members too many a family can get.  Seats are counted long     *)
(* before a member is written: every other call may have counted the same. *)
Surplus == IF Calm THEN 0 ELSE Cardinality(Calls) - 1

(* A family has no more members than its plan has seats beside the owner's, *)
(* but for one per call that runs beside another; and each came in by      *)
(* staff, or by a code made for that family and locked for him.            *)
FamilyInSeats ==
    \A o \in Users :
       /\ Cardinality(Members(o)) <= (Seats - 1) + Surplus
       /\ \A u \in Members(o) :
             sub[u].via # Nobody => code[sub[u].via] = [owner |-> o, user |-> u]

(* The access of a member ends with that of the owner of the family.       *)
AccessFollowsOwner ==
    \A u \in Users : HasAccess(u) /\ sub[u].owner # Nobody => HasAccess(sub[u].owner)
=============================================================================
