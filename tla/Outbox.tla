------------------------------- MODULE Outbox -------------------------------
(***************************************************************************)
(* The outbox of the bot: the API and the jobs put rows into               *)
(* bot_notifications, and mini_app_outbox_job of bot.py delivers them, one *)
(* instance, a batch every 20 seconds.  Most rows stand alone; those of a  *)
(* broadcast belong to one document of broadcast_campaigns, which counts   *)
(* them, and which staff create, cancel, retry and look at.                *)
(*                                                                         *)
(* A process goes from stage to stage, one call of the database or of      *)
(* Telegram each, and may die between any two.  A delivery may succeed     *)
(* though its answer is lost.                                              *)
(***************************************************************************)
EXTENDS Integers, FiniteSets

CONSTANTS
    First, Late, \* recipients of the campaign: the first insert_many, the next
    Plain,       \* rows of their own
    Staff,       \* coroutines of the API
    Bot,         \* mini_app_outbox_job
    Limit,       \* rows the job reads at once, 200 in the code
    Attempts,    \* after so many failures a plain row is dead, 4 in the code
    MaxTroubles  \* bound: cancels, retries, lost answers and crashes, together

ASSUME OutboxAssumption ==
    /\ First \cap Late = {} /\ (First \cup Late) \cap Plain = {} /\ First # {}
    /\ IsFiniteSet(First \cup Late)
    /\ Bot \notin Staff
    /\ Limit \in Nat \ {0} /\ Attempts \in Nat \ {0}
    /\ MaxTroubles \in Nat

Recipients == First \cup Late
Rows  == Recipients \cup Plain
Procs == Staff \cup {Bot}

ASSUME NoRowIsAProcess == Rows \cap Procs = {}

VARIABLES
    camp,      \* the campaign: status, success, failed, skipped
    due,       \* its send_at has come
    made,      \* the rows that have been inserted
    sent,      \* the rows with sent = True: closed, whatever became of them
    failed,    \* the recipients' rows with failed = True
    withdrawn, \* the recipients' rows with cancelled = True
    mirrored,  \* the rows with inbox_mirrored = True
    tries,     \* attempts of a plain row
    waiting,   \* the plain rows whose send_at is still to come
    batch,     \* what the job has read and not yet begun
    proc,      \* the process's stage and what it has read
    troubles,            \* history, for the bound
    crashes,             \* history
    copies, lost, inbox, \* history: per row deliveries, deliveries nobody has
                         \* recorded, entries in the inbox
    snatched,  \* history: the rows withdrawn while the job had them in hand
    spared,    \* history: what the last cancel has not stopped, rows that were
               \* in hand, inserted or reopened later and refreshes under way
    overtaken  \* history: a retry has reopened other rows than it had counted,
               \* the job has closed what a retry or a rollback reopened before
               \* that set the status back, or one of them has run beside the
               \* second half of another's

rows    == <<made, sent, failed, withdrawn, mirrored, tries, waiting>>
calls   == <<snatched, spared, overtaken>>
history == <<troubles, crashes, copies, lost, inbox, calls>>
vars    == <<camp, due, rows, batch, proc, history>>

Ended == {"completed", "failed", "cancelled"}
(* good: Telegram has taken the message; seen: what a refresh will write,  *)
(* the kind of a failure, or the status before a cancel; n: a count.       *)
Idle == [at |-> "idle", row |-> CHOOSE r \in Rows : TRUE, good |-> FALSE, seen |-> "none", n |-> 0]

OutboxInit ==
    /\ camp = [st |-> "none", ok |-> 0, bad |-> 0, skip |-> 0]
    /\ due = FALSE
    /\ made = {} /\ sent = {} /\ failed = {} /\ withdrawn = {} /\ mirrored = {} /\ waiting = {}
    /\ tries = [p \in Plain |-> 0]
    /\ batch = {}
    /\ proc = [x \in Procs |-> Idle]
    /\ troubles = 0 /\ crashes = 0
    /\ copies = [r \in Rows |-> 0] /\ lost = [r \in Rows |-> 0] /\ inbox = [r \in Rows |-> 0]
    /\ snatched = {} /\ spared = {} /\ overtaken = FALSE

At(x, s)   == proc[x].at = s
Goto(x, s) == proc' = [proc EXCEPT ![x].at = s]
Done(x)    == proc' = [proc EXCEPT ![x] = Idle]
Resting    == At(Bot, "idle") /\ batch = {}
Open(S)    == (S \cap made) \ sent
row        == proc[Bot].row

(* The recipients' rows that the job has read and not yet recorded.        *)
InHand ==
    Recipients \cap
    (batch \cup IF proc[Bot].at \in {"mirror", "mirrored", "send", "mark", "record"}
               THEN {row} ELSE {})

-----------------------------------------------------------------------------
(* refresh_campaign, after every delivery and for each look of the panel.  *)
(* The status and the failures are read first, the open rows counted then. *)
(* Mutant: an end that was written before is not respected.                *)
LookAgain(x) ==
    /\ At(x, "look")
    /\ proc' = [proc EXCEPT ![x].at = "count",
                            ![x].seen = IF camp.bad = 0 THEN "completed" ELSE "failed"]
    /\ UNCHANGED <<camp, due, rows, batch, history>>

Look(x) ==
    /\ At(x, "look")
    /\ IF camp.st \in Ended
       THEN Done(x)
       ELSE proc' = [proc EXCEPT ![x].at = "count",
                                 ![x].seen = IF camp.bad = 0 THEN "completed" ELSE "failed"]
    /\ UNCHANGED <<camp, due, rows, batch, history>>

Count(x) ==
    /\ At(x, "count")
    /\ IF Open(Recipients) = {} THEN Goto(x, "close") ELSE Done(x)
    /\ UNCHANGED <<camp, due, rows, batch, history>>

Close(x) ==
    /\ At(x, "close")
    /\ camp' = [camp EXCEPT !.st = proc[x].seen]
    /\ Done(x)
    /\ UNCHANGED <<due, rows, batch, history>>

-----------------------------------------------------------------------------
(* create_campaign: the document, then the rows by the thousand; then the  *)
(* route writes its audit, and when that fails it cancels.                 *)
Create(c) ==
    /\ At(c, "idle") /\ camp.st = "none"
    /\ \E s \in {"scheduled", "queued"} :
          /\ camp' = [camp EXCEPT !.st = s]
          /\ due' = (s = "queued")
    /\ Goto(c, "first")
    /\ UNCHANGED <<rows, batch, history>>

Insert(c) ==
    /\ \/ At(c, "first") /\ made' = made \cup First /\ Goto(c, "late")
       \/ At(c, "late") /\ made' = made \cup Late /\ Goto(c, "audit")
    /\ UNCHANGED <<camp, due, sent, failed, withdrawn, mirrored, tries, waiting, batch, history>>

(* cancel, up to the check of the status.                                  *)
Cancellable == camp.st \in {"scheduled", "queued"}

Audit(c) ==
    /\ At(c, "audit")
    /\ \/ Done(c)
       \/ /\ Cancellable
          /\ proc' = [proc EXCEPT ![c].at = "withdraw", ![c].seen = camp.st, ![c].good = TRUE]
    /\ UNCHANGED <<camp, due, rows, batch, history>>

Cancel(c) ==
    /\ At(c, "idle") /\ Cancellable /\ troubles < MaxTroubles
    /\ troubles' = troubles + 1
    /\ proc' = [proc EXCEPT ![c].at = "withdraw", ![c].seen = camp.st]
    /\ UNCHANGED <<camp, due, rows, batch, crashes, copies, lost, inbox, calls>>

Withdraw(c) ==
    /\ At(c, "withdraw")
    /\ sent' = sent \cup Open(Recipients)
    /\ withdrawn' = withdrawn \cup Open(Recipients)
    /\ proc' = [proc EXCEPT ![c].at = "cancel", ![c].n = Cardinality(Open(Recipients))]
    /\ snatched' = snatched \cup (InHand \cap Open(Recipients))
    /\ spared' = (spared \ Open(Recipients)) \cup InHand
    /\ UNCHANGED <<camp, due, made, failed, mirrored, tries, waiting, batch,
                   troubles, crashes, copies, lost, inbox, overtaken>>

(* A cancel on behalf of a failed creation ends here, any other has to be  *)
(* audited, and is rolled back when that fails.                            *)
SetCancelled(c) ==
    /\ At(c, "cancel")
    /\ camp' = [camp EXCEPT !.st = "cancelled", !.skip = proc[c].n]
    /\ IF proc[c].good THEN Done(c) ELSE Goto(c, "confirm")
    /\ spared' = spared \cup InHand \cup (Recipients \ made) \cup Open(Recipients)
                        \cup {x \in Procs : proc[x].at \in {"count", "close"}}
    /\ UNCHANGED <<due, rows, batch, troubles, crashes, copies, lost, inbox, snatched, overtaken>>

Confirm(c) ==
    /\ At(c, "confirm")
    /\ Done(c) \/ Goto(c, "restore")
    /\ UNCHANGED <<camp, due, rows, batch, history>>

(* Mutant: the rollback reopens every row of the campaign.                 *)
RestoreAll(c) ==
    /\ At(c, "restore")
    /\ sent' = sent \ Recipients /\ withdrawn' = {}
    /\ Goto(c, "restatus")
    /\ spared' = spared \cup withdrawn
    /\ overtaken' = (overtaken \/ \E d \in Staff : At(d, "cancel"))
    /\ UNCHANGED <<camp, due, made, failed, mirrored, tries, waiting, batch,
                   troubles, crashes, copies, lost, inbox, snatched>>

(* rollback_cancel.                                                        *)
Restore(c) ==
    /\ At(c, "restore")
    /\ sent' = sent \ withdrawn /\ withdrawn' = {}
    /\ Goto(c, "restatus")
    /\ spared' = spared \cup withdrawn
    /\ overtaken' = (overtaken \/ \E d \in Staff : At(d, "cancel"))
    /\ UNCHANGED <<camp, due, made, failed, mirrored, tries, waiting, batch,
                   troubles, crashes, copies, lost, inbox, snatched>>

Restatus(c) ==
    /\ At(c, "restatus")
    /\ camp' = [camp EXCEPT !.st = proc[c].seen, !.skip = 0]
    /\ Done(c)
    /\ overtaken' = (overtaken \/ Open(Recipients) = {})
    /\ UNCHANGED <<due, rows, batch, troubles, crashes, copies, lost, inbox, snatched, spared>>

(* wa_broadcast_campaign_retry, whatever the status: the failed rows are   *)
(* counted, reopened, and taken off the counter.                           *)
Retry(c) ==
    /\ At(c, "idle") /\ failed # {} /\ troubles < MaxTroubles
    /\ troubles' = troubles + 1
    /\ proc' = [proc EXCEPT ![c].at = "requeue", ![c].n = Cardinality(failed)]
    /\ UNCHANGED <<camp, due, rows, batch, crashes, copies, lost, inbox, calls>>

Requeue(c) ==
    /\ At(c, "requeue")
    /\ sent' = sent \ failed /\ failed' = {}
    /\ Goto(c, "recount")
    /\ spared' = spared \cup failed
    /\ overtaken' = \/ overtaken \/ Cardinality(failed) # proc[c].n
                    \/ \E d \in Staff : At(d, "recount")
    /\ UNCHANGED <<camp, due, made, withdrawn, mirrored, tries, waiting, batch,
                   troubles, crashes, copies, lost, inbox, snatched>>

Recount(c) ==
    /\ At(c, "recount")
    /\ camp' = [camp EXCEPT !.bad = @ - proc[c].n, !.st = "queued"]
    /\ Done(c)
    /\ overtaken' = (overtaken \/ Open(Recipients) = {})
    /\ UNCHANGED <<due, rows, batch, troubles, crashes, copies, lost, inbox, snatched, spared>>

View(c) ==
    /\ At(c, "idle") /\ camp.st # "none"
    /\ Goto(c, "look")
    /\ UNCHANGED <<camp, due, rows, batch, history>>

-----------------------------------------------------------------------------
(* Rows of their own, put in by notify_user and its like.                  *)
Put(p) ==
    /\ p \in Plain \ made
    /\ made' = made \cup {p}
    /\ UNCHANGED <<camp, due, sent, failed, withdrawn, mirrored, tries, waiting, batch, proc, history>>

TimeComes ==
    /\ camp.st # "none" /\ ~due
    /\ due' = TRUE
    /\ UNCHANGED <<camp, rows, batch, proc, history>>

Wake(p) ==
    /\ p \in waiting
    /\ waiting' = waiting \ {p}
    /\ UNCHANGED <<camp, due, made, sent, failed, withdrawn, mirrored, tries, batch, proc, history>>

-----------------------------------------------------------------------------
(* mini_app_outbox_job: a batch of open rows whose time has come.          *)
Ready == (Open(Plain) \ waiting) \cup (IF due THEN Open(Recipients) ELSE {})

Read ==
    /\ Resting /\ Ready # {}
    /\ \E S \in SUBSET Ready :
          /\ Cardinality(S) = IF Cardinality(Ready) < Limit THEN Cardinality(Ready) ELSE Limit
          /\ batch' = S
    /\ UNCHANGED <<camp, due, rows, proc, history>>

Take(r) ==
    /\ At(Bot, "idle") /\ r \in batch
    /\ batch' = batch \ {r}
    /\ proc' = [proc EXCEPT ![Bot].row = r,
                            ![Bot].at = IF r \in Plain THEN "post"
                                        ELSE IF r \in mirrored THEN "send" ELSE "mirror"]
    /\ UNCHANGED <<camp, due, rows, history>>

(* inbox_add, then the mark that it has been done.                         *)
Mirror ==
    /\ At(Bot, "mirror")
    /\ inbox' = [inbox EXCEPT ![row] = @ + 1]
    /\ Goto(Bot, "mirrored")
    /\ UNCHANGED <<camp, due, rows, batch, troubles, crashes, copies, lost, calls>>

MarkMirrored ==
    /\ At(Bot, "mirrored")
    /\ mirrored' = mirrored \cup {row}
    /\ Goto(Bot, "send")
    /\ UNCHANGED <<camp, due, made, sent, failed, withdrawn, tries, waiting, batch, history>>

(* Delivered says that Telegram has taken k copies more, of which j are    *)
(* unknown to the bot.                                                     *)
Delivered(k, j) ==
    /\ troubles + j <= MaxTroubles
    /\ troubles' = troubles + j
    /\ copies' = [copies EXCEPT ![row] = @ + k]
    /\ lost' = [lost EXCEPT ![row] = @ + j]
    /\ UNCHANGED <<camp, due, rows, batch, crashes, inbox, calls>>

(* External: Telegram's answer to send_payload.                            *)
Send ==
    /\ At(Bot, "send")
    /\ \/ Delivered(1, 0) /\ proc' = [proc EXCEPT ![Bot].at = "mark", ![Bot].good = TRUE]
       \/ \E j \in 0..1 : Delivered(j, j) /\ Goto(Bot, "mark")

(* Whatever has become of the row meanwhile.                               *)
MarkRow ==
    /\ At(Bot, "mark")
    /\ sent' = sent \cup {row}
    /\ failed' = IF proc[Bot].good THEN failed \ {row} ELSE failed \cup {row}
    /\ Goto(Bot, "record")
    /\ UNCHANGED <<camp, due, made, withdrawn, mirrored, tries, waiting, batch, history>>

(* The delivery is over; the refresh has only its campaign.                *)
LookNext == proc' = [proc EXCEPT ![Bot] = [Idle EXCEPT !.at = "look"]]

(* Mutant: the failures of the campaign are not counted.                   *)
RecordSuccess ==
    /\ At(Bot, "record")
    /\ camp' = [camp EXCEPT !.st = "running", !.ok = IF proc[Bot].good THEN @ + 1 ELSE @]
    /\ LookNext
    /\ UNCHANGED <<due, rows, batch, history>>

(* record_delivery.                                                        *)
Record ==
    /\ At(Bot, "record")
    /\ camp' = IF proc[Bot].good THEN [camp EXCEPT !.st = "running", !.ok = @ + 1]
                                 ELSE [camp EXCEPT !.st = "running", !.bad = @ + 1]
    /\ LookNext
    /\ UNCHANGED <<due, rows, batch, history>>

(* safe_send_ex tries up to three times: earlier copies may have arrived   *)
(* with their answers lost.                                                *)
Post(kind) ==
    /\ At(Bot, "post")
    /\ \E j \in 0..MaxTroubles : Delivered(IF kind = "ok" THEN j + 1 ELSE j, j)
    /\ proc' = [proc EXCEPT ![Bot].at = "settle", ![Bot].seen = kind, ![Bot].good = kind = "ok"]

Failures == {"permanent", "backoff", "retry"}

(* Mutant: a row is never given up.                                        *)
SettleForever ==
    LET kind == proc[Bot].seen IN
    /\ At(Bot, "settle")
    /\ IF kind \in {"ok", "permanent"}
       THEN sent' = sent \cup {row} /\ UNCHANGED waiting
       ELSE waiting' = waiting \cup {row} /\ UNCHANGED sent
    /\ UNCHANGED tries
    /\ Done(Bot)
    /\ UNCHANGED <<camp, due, made, failed, withdrawn, mirrored, batch, history>>

(* A delivered row is closed, and one that can never be delivered; the     *)
(* others wait, but a row whose Attempts have been used up is dead.        *)
Settle ==
    LET kind == proc[Bot].seen
        dead == kind = "retry" /\ tries[row] + 1 >= Attempts IN
    /\ At(Bot, "settle")
    /\ IF kind \in {"ok", "permanent"} \/ dead
       THEN sent' = sent \cup {row} /\ UNCHANGED waiting
       ELSE waiting' = waiting \cup {row} /\ UNCHANGED sent
    /\ tries' = [tries EXCEPT ![row] = IF kind = "ok" \/ @ = Attempts THEN @ ELSE @ + 1]
    /\ Done(Bot)
    /\ UNCHANGED <<camp, due, made, failed, withdrawn, mirrored, batch, history>>

(* The process dies, or a call of the database raises and the job gives up *)
(* the round.  A delivery it has not yet marked is forgotten.              *)
Crash(x) ==
    /\ troubles < MaxTroubles /\ (~At(x, "idle") \/ (x = Bot /\ batch # {}))
    /\ troubles' = troubles + 1 /\ crashes' = crashes + 1
    /\ batch' = IF x = Bot THEN {} ELSE batch
    /\ lost' = IF x = Bot /\ proc[x].at \in {"mark", "settle"} /\ proc[x].good
               THEN [lost EXCEPT ![row] = @ + 1] ELSE lost
    /\ Done(x)
    /\ UNCHANGED <<camp, due, rows, copies, inbox, calls>>

-----------------------------------------------------------------------------
JobStep ==
    \/ \E r \in Rows : Take(r)
    \/ Mirror \/ MarkMirrored \/ Send \/ MarkRow \/ Record
    \/ Look(Bot) \/ Count(Bot) \/ Close(Bot)
    \/ \E kind \in Failures \cup {"ok"} : Post(kind)
    \/ Settle

StaffStep(c) ==
    \/ Insert(c) \/ Audit(c) \/ Withdraw(c) \/ SetCancelled(c) \/ Confirm(c)
    \/ Restore(c) \/ Restatus(c) \/ Requeue(c) \/ Recount(c)
    \/ Look(c) \/ Count(c) \/ Close(c)

OutboxNext ==
    \/ \E c \in Staff : Create(c) \/ Cancel(c) \/ Retry(c) \/ View(c) \/ StaffStep(c)
    \/ \E p \in Plain : Put(p) \/ Wake(p)
    \/ TimeComes \/ Read \/ JobStep
    \/ \E x \in Procs : Crash(x)

OutboxSpec == OutboxInit /\ [][OutboxNext]_vars

(* What has begun is resumed; times come; the job runs again and again,    *)
(* and Telegram does not answer a row with RetryAfter for ever.            *)
FairOutboxSpec ==
    /\ OutboxSpec
    /\ WF_vars(JobStep) /\ SF_vars(Read) /\ WF_vars(TimeComes)
    /\ \A c \in Staff : WF_vars(StaffStep(c))
    /\ \A p \in Plain : WF_vars(Wake(p)) /\ SF_vars(row = p /\ \E kind \in {"ok", "permanent", "retry"} : Post(kind))

-----------------------------------------------------------------------------
(* A message is repeated only after a delivery that nobody could record,   *)
(* or when it was withdrawn with the job about to send it and a rollback   *)
(* reopens its row; and the inbox gets it once but for a crash.  However   *)
(* batches, retries, cancels and rollbacks overlap, they never send again  *)
(* what has been sent.                                                     *)
DeliveredOnce ==
    \A r \in Rows :
       /\ copies[r] <= 1 + lost[r] \/ r \in snatched
       /\ inbox[r] <= 1 + crashes

(* At rest the campaign's counters are those of its rows, unless a row was *)
(* withdrawn in hand, or a retry or a rollback was overtaken by the job; a *)
(* crash may lose a success but never invents one.                         *)
Good == (Recipients \cap sent) \ (failed \cup withdrawn)

CountsAddUp ==
    Resting /\ (\A c \in Staff : At(c, "idle")) =>
        /\ snatched = {} =>
              camp.ok <= Cardinality(Good) /\ Cardinality(Good) <= camp.ok + crashes
        /\ snatched = {} /\ crashes = 0 /\ ~overtaken => camp.bad = Cardinality(failed)
        /\ crashes = 0 /\ ~overtaken => camp.skip <= Cardinality(withdrawn)

(* A cancelled campaign stays so, and no withdrawn row is delivered, until *)
(* staff take it back: only what was under way at the cancel undoes it, a  *)
(* row the job had in hand, that had yet to be inserted, or a refresh that *)
(* had read the status.  What begins afterwards does not.                  *)
CancelledStays ==
    [][/\ camp.st = "cancelled" /\ camp'.st # "cancelled" =>
             \/ \E c \in Staff : proc[c].at \in {"restatus", "recount"} /\ proc'[c] = Idle
             \/ At(Bot, "record") /\ row \in spared
             \/ \E x \in spared \cap Procs : At(x, "close")
       /\ \A r \in withdrawn : copies'[r] = copies[r] \/ r \in spared]_vars

(* The outbox empties again and again: every row is closed in the end, and *)
(* a campaign whose time has come ends, unless a crash has taken the last  *)
(* look at it, or a retry or a rollback overtaken by the job has set its   *)
(* status back after it.                                                   *)
EverythingCloses ==
    []<>(/\ Open(Plain) = {}
         /\ camp.st # "none" /\ due => /\ Open(Recipients) = {}
                                       /\ camp.st \in Ended \/ crashes > 0 \/ overtaken)
=============================================================================
