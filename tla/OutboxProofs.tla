----------------------------- MODULE OutboxProofs -----------------------------
(***************************************************************************)
(* What holds of Outbox for every set of recipients, of rows of their own  *)
(* and of staff, whatever the bounds, and however cancels, rollbacks,      *)
(* retries, rounds of the job and crashes overlap: a message is repeated   *)
(* only after a delivery nobody could record, or when its row was          *)
(* withdrawn in the job's hand (SentOnce); only what a cancel has not      *)
(* stopped undoes it (CancelIsKept); and the campaign's counters are those *)
(* of its rows, but for the overlaps that CountsAddUp names                *)
(* (CountsAreTrue).                                                        *)
(*                                                                         *)
(* The inductive invariant is, in this order: the types and the place of   *)
(* every process (TypeInv); what the rows say of the deliveries            *)
(* (DeliveryInv); what a cancel has left to run (SparedInv); and one part  *)
(* for each counter of the campaign (GoodInv, FailInv, SkipInv).           *)
(***************************************************************************)
EXTENDS Outbox, TLAPS, FiniteSetTheorems

(* The values the variables take.                                          *)
Stages == {"idle", "look", "count", "close", "first", "late", "audit", "withdraw", "cancel",
           "confirm", "restore", "restatus", "requeue", "recount",
           "mirror", "mirrored", "send", "mark", "record", "post", "settle"}
Statuses == {"none", "scheduled", "queued", "running", "completed", "failed", "cancelled"}
Seen == Statuses \cup Failures \cup {"ok"}
Campaign == [st : Statuses, ok : Nat, bad : Int, skip : Nat]
Process == [at : Stages, row : Rows, good : BOOLEAN, seen : Seen, n : Nat]

(* Type correctness: the campaign counts in integers (a retry subtracts),  *)
(* rows are subsets of the rows, a process is at a stage with a row.       *)
OutboxTypeOK ==
    /\ camp \in Campaign
    /\ due \in BOOLEAN
    /\ made \subseteq Rows /\ sent \subseteq Rows
    /\ failed \subseteq Recipients /\ withdrawn \subseteq Recipients
    /\ mirrored \subseteq Rows
    /\ tries \in [Plain -> Nat] /\ waiting \subseteq Plain
    /\ batch \subseteq Rows
    /\ proc \in [Procs -> Process]
    /\ troubles \in Nat /\ crashes \in Nat
    /\ copies \in [Rows -> Nat] /\ lost \in [Rows -> Nat] /\ inbox \in [Rows -> Nat]
    /\ snatched \subseteq Recipients /\ spared \subseteq Rows \cup Procs /\ overtaken \in BOOLEAN

(* Where staff and the job can be.                                         *)
StaffStages == {"idle", "first", "late", "audit", "withdraw", "cancel", "confirm", "restore",
                "restatus", "requeue", "recount", "look", "count", "close"}
BotStages == {"idle", "mirror", "mirrored", "send", "mark", "record", "post", "settle",
              "look", "count", "close"}

(* A process is at a stage of its own, with a row of the right kind and a  *)
(* status it may write.                                                    *)
Place(x) ==
    /\ x \in Staff => proc[x].at \in StaffStages
    /\ x = Bot => proc[x].at \in BotStages
    /\ proc[x].at \in {"mirror", "mirrored", "send", "mark", "record"} => proc[x].row \in Recipients
    /\ proc[x].at \in {"post", "settle"} => proc[x].row \in Plain
    /\ proc[x].at \in {"count", "close"} => proc[x].seen \in {"completed", "failed"}
    /\ proc[x].at \in {"withdraw", "cancel", "confirm", "restore", "restatus"} =>
          proc[x].seen \in {"scheduled", "queued"}

(* The types together with the places.                                     *)
TypeInv == OutboxTypeOK /\ \A x \in Procs : Place(x)

(* A delivery in hand.                                                     *)
Delivering == {"mirror", "mirrored", "send", "mark", "post", "settle"}

(* A copy that Telegram has taken and the row does not show yet; an entry  *)
(* of the inbox that the row does not show yet.                            *)
Pending(r)   == IF proc[Bot].at \in {"mark", "settle"} /\ row = r /\ proc[Bot].good THEN 1 ELSE 0
Mirroring(r) == IF proc[Bot].at = "mirrored" /\ row = r THEN 1 ELSE 0

(* What has been delivered is what the row shows, what is pending and what *)
(* was lost: an open, failed or withdrawn row has no recorded copy.        *)
CopiesInv(r) ==
    /\ r \notin sent \/ r \in failed \/ r \in withdrawn => copies[r] <= lost[r] + Pending(r)
    /\ copies[r] <= 1 + lost[r]

(* Of a row that was never withdrawn in hand: it is open as long as it is  *)
(* in the batch or being delivered, closed when failed or withdrawn, and   *)
(* never both of these.                                                    *)
OpenInv(r) ==
    /\ r \in batch => r \notin sent
    /\ proc[Bot].at \in Delivering /\ row = r => r \notin sent
    /\ r \in failed \cup withdrawn => r \in sent
    /\ r \notin failed \cap withdrawn

RowInv(r) ==
    /\ inbox[r] <= crashes + (IF r \in mirrored THEN 1 ELSE Mirroring(r))
    /\ r \notin snatched => CopiesInv(r) /\ OpenInv(r)

(* A row in hand is no longer in the batch; a row is mirrored once; what   *)
(* Telegram has taken is settled as such.                                  *)
HandInv ==
    /\ proc[Bot].at \in Delivering => row \notin batch
    /\ proc[Bot].at \in {"mirror", "mirrored"} => row \notin mirrored
    /\ proc[Bot].at = "settle" /\ proc[Bot].good => proc[Bot].seen = "ok"

(* Both, for all rows.                                                     *)
DeliveryInv == HandInv /\ \A r \in Rows : RowInv(r)

(* While a campaign is cancelled every row that can still be delivered is  *)
(* spared, and every refresh that can still write the status; and so is a  *)
(* withdrawn row that can.                                                 *)
SparedInv ==
    /\ withdrawn \subseteq made
    /\ camp.st = "cancelled" =>
          /\ InHand \subseteq spared /\ Open(Recipients) \subseteq spared
          /\ Recipients \ made \subseteq spared
          /\ \A x \in Procs : proc[x].at \in {"count", "close"} => x \in spared
    /\ \A r \in withdrawn : r \in InHand \/ r \in Open(Recipients) => r \in spared

(* The success and the failure not yet counted.                            *)
OkPending  == IF proc[Bot].at = "record" /\ proc[Bot].good THEN 1 ELSE 0
BadPending == IF proc[Bot].at = "record" /\ ~proc[Bot].good THEN 1 ELSE 0

(* The successes counted are the rows delivered, but for those a crash     *)
(* lost.                                                                   *)
GoodInv ==
    snatched = {} =>
        /\ camp.ok + OkPending <= Cardinality(Good)
        /\ Cardinality(Good) <= camp.ok + OkPending + crashes

(* The failures counted are the failed rows, except between the two writes *)
(* of a retry, which knows the difference and is the only one there.       *)
FailInv ==
    snatched = {} /\ crashes = 0 /\ ~overtaken =>
        /\ (\A c \in Staff : ~At(c, "recount")) => camp.bad + BadPending = Cardinality(failed)
        /\ \A c \in Staff : At(c, "recount") =>
              /\ camp.bad + BadPending = Cardinality(failed) + proc[c].n
              /\ \A d \in Staff : At(d, "recount") => d = c

(* No more rows are counted as skipped, or about to be, than are           *)
(* withdrawn, except between the two writes of a rollback.                 *)
SkipInv ==
    crashes = 0 /\ ~overtaken =>
        /\ \A c \in Staff : At(c, "cancel") => proc[c].n <= Cardinality(withdrawn)
        /\ camp.skip <= Cardinality(withdrawn) \/ \E c \in Staff : At(c, "restatus")

-----------------------------------------------------------------------------
(* A step that writes the stage of a process and nothing else of it.       *)
LEMMA Goes ==
    ASSUME proc \in [Procs -> Process], NEW x \in Procs, NEW s \in Stages, Goto(x, s)
    PROVE  /\ proc' \in [Procs -> Process]
           /\ proc'[x] = [proc[x] EXCEPT !.at = s]
           /\ proc'[x].at = s /\ proc'[x].row = proc[x].row /\ proc'[x].good = proc[x].good
           /\ proc'[x].seen = proc[x].seen /\ proc'[x].n = proc[x].n
           /\ \A y \in Procs \ {x} : proc'[y] = proc[y]
<1>1. proc' = [proc EXCEPT ![x] = [proc[x] EXCEPT !.at = s]]
  BY DEF Goto
<1>2. [proc[x] EXCEPT !.at = s] \in Process
  BY DEF Process
<1>3. proc' \in [Procs -> Process] /\ proc'[x] = [proc[x] EXCEPT !.at = s]
  BY <1>1, <1>2
<1> QED
  BY <1>1, <1>3 DEF Process

(* The record of a process at rest is one.                                 *)
LEMMA IdleType == Idle \in Process
<1>1. (CHOOSE r \in Rows : TRUE) \in Rows
  <2>1. PICK r \in Rows : TRUE
    BY OutboxAssumption DEF Rows, Recipients
  <2> QED
    BY <2>1
<1> QED
  BY <1>1 DEF Idle, Process, Stages, Seen, Statuses

(* A step after which the process is at rest.                              *)
LEMMA Rests ==
    ASSUME proc \in [Procs -> Process], NEW x \in Procs, Done(x)
    PROVE  /\ proc' \in [Procs -> Process]
           /\ proc'[x] = Idle /\ proc'[x].at = "idle" /\ ~proc'[x].good
           /\ \A y \in Procs \ {x} : proc'[y] = proc[y]
<1>1. Idle.at = "idle" /\ ~Idle.good
  BY DEF Idle
<1> QED
  BY <1>1, IdleType DEF Done

(* The other writes of a process's record.                                 *)
Seeing(x, s, e)   == proc' = [proc EXCEPT ![x].at = s, ![x].seen = e]
Holding(x, s, k)  == proc' = [proc EXCEPT ![x].at = s, ![x].n = k]
Taking(x, r, s)   == proc' = [proc EXCEPT ![x].row = r, ![x].at = s]
Doing(x, s, g)    == proc' = [proc EXCEPT ![x].at = s, ![x].good = g]
Both(x, s, e, g)  == proc' = [proc EXCEPT ![x].at = s, ![x].seen = e, ![x].good = g]

(* A stage, and what has been seen.                                        *)
LEMMA GoesSeeing ==
    ASSUME proc \in [Procs -> Process], NEW x \in Procs, NEW s \in Stages, NEW e \in Seen,
           Seeing(x, s, e)
    PROVE  /\ proc' \in [Procs -> Process]
           /\ proc'[x].at = s /\ proc'[x].row = proc[x].row /\ proc'[x].good = proc[x].good
           /\ proc'[x].seen = e /\ proc'[x].n = proc[x].n
           /\ \A y \in Procs \ {x} : proc'[y] = proc[y]
<1> DEFINE v == [[proc[x] EXCEPT !.at = s] EXCEPT !.seen = e]
<1>1. proc' = [proc EXCEPT ![x] = v]
  BY DEF Seeing
<1>2. v \in Process
  BY DEF Process
<1>3. proc' \in [Procs -> Process] /\ proc'[x] = v
  BY <1>1, <1>2
<1> QED
  BY <1>1, <1>3 DEF Process

(* A stage and a count.                                                    *)
LEMMA GoesHolding ==
    ASSUME proc \in [Procs -> Process], NEW x \in Procs, NEW s \in Stages, NEW k \in Nat,
           Holding(x, s, k)
    PROVE  /\ proc' \in [Procs -> Process]
           /\ proc'[x].at = s /\ proc'[x].row = proc[x].row /\ proc'[x].good = proc[x].good
           /\ proc'[x].seen = proc[x].seen /\ proc'[x].n = k
           /\ \A y \in Procs \ {x} : proc'[y] = proc[y]
<1> DEFINE v == [[proc[x] EXCEPT !.at = s] EXCEPT !.n = k]
<1>1. proc' = [proc EXCEPT ![x] = v]
  BY DEF Holding
<1>2. v \in Process
  BY DEF Process
<1>3. proc' \in [Procs -> Process] /\ proc'[x] = v
  BY <1>1, <1>2
<1> QED
  BY <1>1, <1>3 DEF Process

(* A whole new record, which is how the writes of two fields are proved.   *)
LEMMA Becomes ==
    ASSUME proc \in [Procs -> Process], NEW x \in Procs, NEW v \in Process,
           proc' = [proc EXCEPT ![x] = v]
    PROVE  /\ proc' \in [Procs -> Process] /\ proc'[x] = v
           /\ \A y \in Procs \ {x} : proc'[y] = proc[y]
  OBVIOUS

(* A row and a stage.                                                      *)
LEMMA Takes ==
    ASSUME proc \in [Procs -> Process], NEW x \in Procs, NEW r \in Rows, NEW s \in Stages,
           Taking(x, r, s)
    PROVE  /\ proc' \in [Procs -> Process]
           /\ proc'[x].at = s /\ proc'[x].row = r /\ proc'[x].good = proc[x].good
           /\ proc'[x].seen = proc[x].seen /\ proc'[x].n = proc[x].n
           /\ \A y \in Procs \ {x} : proc'[y] = proc[y]
<1> DEFINE v == [[proc[x] EXCEPT !.row = r] EXCEPT !.at = s]
<1>1. proc' = [proc EXCEPT ![x] = v]
  BY DEF Taking
<1>2. v \in Process
  BY DEF Process
<1>3. v.at = s /\ v.row = r /\ v.good = proc[x].good /\ v.seen = proc[x].seen /\ v.n = proc[x].n
  BY DEF Process
<1> QED
  BY <1>1, <1>2, <1>3, Becomes

(* A stage, and whether it went well.                                      *)
LEMMA GoesWell ==
    ASSUME proc \in [Procs -> Process], NEW x \in Procs, NEW s \in Stages, NEW g \in BOOLEAN,
           Doing(x, s, g)
    PROVE  /\ proc' \in [Procs -> Process]
           /\ proc'[x].at = s /\ proc'[x].row = proc[x].row /\ proc'[x].good = g
           /\ proc'[x].seen = proc[x].seen /\ proc'[x].n = proc[x].n
           /\ \A y \in Procs \ {x} : proc'[y] = proc[y]
<1> DEFINE v == [[proc[x] EXCEPT !.at = s] EXCEPT !.good = g]
<1>1. proc' = [proc EXCEPT ![x] = v]
  BY DEF Doing
<1>2. v \in Process
  BY DEF Process
<1>3. v.at = s /\ v.row = proc[x].row /\ v.good = g /\ v.seen = proc[x].seen /\ v.n = proc[x].n
  BY DEF Process
<1> QED
  BY <1>1, <1>2, <1>3, Becomes

(* A stage and both.                                                       *)
LEMMA GoesSeeingWell ==
    ASSUME proc \in [Procs -> Process], NEW x \in Procs, NEW s \in Stages, NEW e \in Seen,
           NEW g \in BOOLEAN,
           Both(x, s, e, g)
    PROVE  /\ proc' \in [Procs -> Process]
           /\ proc'[x].at = s /\ proc'[x].row = proc[x].row /\ proc'[x].good = g
           /\ proc'[x].seen = e /\ proc'[x].n = proc[x].n
           /\ \A y \in Procs \ {x} : proc'[y] = proc[y]
<1> DEFINE v == [[[proc[x] EXCEPT !.at = s] EXCEPT !.seen = e] EXCEPT !.good = g]
<1>1. proc' = [proc EXCEPT ![x] = v]
  BY DEF Both
<1>2. v \in Process
  BY DEF Process
<1>3. v.at = s /\ v.row = proc[x].row /\ v.good = g /\ v.seen = e /\ v.n = proc[x].n
  BY DEF Process
<1> QED
  BY <1>1, <1>2, <1>3, Becomes

-----------------------------------------------------------------------------
(* The stages, by kind.                                                    *)
LEMMA StageFacts ==
    /\ \A s \in {"idle", "look", "count", "close", "first", "late", "audit", "withdraw", "cancel",
                 "confirm", "restore", "restatus", "requeue", "recount",
                 "mirror", "mirrored", "send", "mark", "record", "post", "settle"} : s \in Stages
    /\ \A e \in {"none", "scheduled", "queued", "running", "completed", "failed", "cancelled",
                 "ok", "permanent", "backoff", "retry"} : e \in Seen
    /\ Statuses \subseteq Seen /\ Failures \cup {"ok"} \subseteq Seen
    /\ Staff \subseteq Procs /\ Bot \in Procs /\ Bot \notin Staff
  BY OutboxAssumption DEF Stages, Seen, Statuses, Failures, Procs

(* The rows, by kind; the recipients are finitely many.                    *)
LEMMA RowFacts ==
    /\ Rows = Recipients \cup Plain /\ Recipients \cap Plain = {} /\ Recipients = First \cup Late
    /\ IsFiniteSet(Recipients)
  BY OutboxAssumption DEF Rows, Recipients

(* What a step of staff does to its record, and to nobody else's.          *)
Others(x) == proc' \in [Procs -> Process] /\ \A y \in Procs \ {x} : proc'[y] = proc[y]
To(x, s)  == Others(x) /\ proc'[x].at = s
Same(x)   == proc'[x].seen = proc[x].seen /\ proc'[x].n = proc[x].n
             /\ proc'[x].row = proc[x].row /\ proc'[x].good = proc[x].good

(* The writes again, in these words: the next stage,                       *)
LEMMA GotoTo ==
    ASSUME proc \in [Procs -> Process], NEW x \in Procs, NEW s \in Stages, Goto(x, s)
    PROVE  To(x, s) /\ Same(x)
  BY Goes DEF To, Others, Same

(* rest,                                                                   *)
LEMMA DoneTo ==
    ASSUME proc \in [Procs -> Process], NEW x \in Procs, Done(x)
    PROVE  To(x, "idle") /\ proc'[x] = Idle /\ ~proc'[x].good
  BY Rests DEF To, Others

(* and a look at the campaign, which goes on only when it has not ended.   *)
LEMMA LookTo ==
    ASSUME OutboxTypeOK, NEW x \in Procs, Look(x)
    PROVE  \/ To(x, "idle") /\ ~proc'[x].good
           \/ /\ To(x, "count") /\ proc'[x].seen \in {"completed", "failed"}
              /\ camp.st \notin Ended
<1> DEFINE e == IF camp.bad = 0 THEN "completed" ELSE "failed"
<1>1. e \in Seen /\ e \in {"completed", "failed"}
  BY StageFacts
<1> HIDE DEF e
<1>2. proc \in [Procs -> Process]
  BY DEF OutboxTypeOK
<1>3. CASE camp.st \in Ended
  BY <1>2, <1>3, DoneTo DEF Look
<1>4. CASE camp.st \notin Ended
  <2>1. Seeing(x, "count", e)
    BY <1>4 DEF Look, e, Seeing
  <2>2. "count" \in Stages
    BY DEF Stages
  <2>3. To(x, "count") /\ proc'[x].seen = e
    BY <1>1, <1>2, <2>1, <2>2, GoesSeeing DEF To, Others
  <2> QED
    BY <1>1, <1>4, <2>3
<1> QED
  BY <1>3, <1>4

(* What each action of staff, or of a refresh, does to the record of the   *)
(* process that takes it.                                                  *)
LEMMA StaffMoves ==
    ASSUME OutboxTypeOK, NEW c \in Procs
    PROVE  /\ Count(c) => \/ To(c, "close") /\ Same(c) /\ Open(Recipients) = {}
                          \/ To(c, "idle") /\ ~proc'[c].good
           /\ Close(c) => To(c, "idle") /\ ~proc'[c].good
           /\ Create(c) => To(c, "first") /\ Same(c)
           /\ Insert(c) => \/ At(c, "first") /\ To(c, "late") /\ Same(c)
                           \/ At(c, "late") /\ To(c, "audit") /\ Same(c)
           /\ Confirm(c) => To(c, "idle") \/ (To(c, "restore") /\ Same(c))
           /\ SetCancelled(c) => To(c, "idle") \/ (To(c, "confirm") /\ Same(c))
           /\ Restore(c) => To(c, "restatus") /\ Same(c)
           /\ Restatus(c) => To(c, "idle") /\ proc'[c] = Idle
           /\ Requeue(c) => To(c, "recount") /\ Same(c)
           /\ Recount(c) => To(c, "idle") /\ proc'[c] = Idle
           /\ View(c) => To(c, "look") /\ Same(c)
           /\ Crash(c) => To(c, "idle") /\ ~proc'[c].good
<1>1. proc \in [Procs -> Process]
  BY DEF OutboxTypeOK
<1>2. Done(c) => To(c, "idle") /\ ~proc'[c].good /\ proc'[c] = Idle
  BY <1>1, DoneTo
<1>3. \A s \in Stages : Goto(c, s) => To(c, s) /\ Same(c)
  BY <1>1, GotoTo
<1>4. {"close", "first", "late", "audit", "restore", "confirm", "restatus", "recount", "look"}
        \subseteq Stages
  BY DEF Stages
<1>5. Count(c) => \/ To(c, "close") /\ Same(c) /\ Open(Recipients) = {}
                  \/ To(c, "idle") /\ ~proc'[c].good
  BY <1>2, <1>3, <1>4 DEF Count
<1>6. Insert(c) => \/ At(c, "first") /\ To(c, "late") /\ Same(c)
                   \/ At(c, "late") /\ To(c, "audit") /\ Same(c)
  BY <1>3, <1>4 DEF Insert
<1>7. /\ Confirm(c) => To(c, "idle") \/ (To(c, "restore") /\ Same(c))
      /\ SetCancelled(c) => To(c, "idle") \/ (To(c, "confirm") /\ Same(c))
  BY <1>2, <1>3, <1>4 DEF Confirm, SetCancelled
<1>8. /\ Create(c) => To(c, "first") /\ Same(c)
      /\ Restore(c) => To(c, "restatus") /\ Same(c)
      /\ Requeue(c) => To(c, "recount") /\ Same(c)
      /\ View(c) => To(c, "look") /\ Same(c)
  BY <1>3, <1>4 DEF Create, Restore, Requeue, View
<1>9. /\ Close(c) => To(c, "idle") /\ ~proc'[c].good
      /\ Restatus(c) => To(c, "idle") /\ proc'[c] = Idle
      /\ Recount(c) => To(c, "idle") /\ proc'[c] = Idle
      /\ Crash(c) => To(c, "idle") /\ ~proc'[c].good
  BY <1>2 DEF Close, Restatus, Recount, Crash
<1> QED
  BY <1>5, <1>6, <1>7, <1>8, <1>9

(* The same for the calls that begin a change.                             *)
LEMMA ChangeMoves ==
    ASSUME OutboxTypeOK, NEW c \in Procs
    PROVE  /\ Audit(c) => \/ To(c, "idle")
                          \/ To(c, "withdraw") /\ proc'[c].seen = camp.st /\ Cancellable
           /\ Cancel(c) => To(c, "withdraw") /\ proc'[c].seen = camp.st /\ Cancellable
           /\ Withdraw(c) => /\ To(c, "cancel") /\ proc'[c].seen = proc[c].seen
                             /\ proc'[c].n = Cardinality(Open(Recipients))
           /\ Retry(c) => To(c, "requeue") /\ proc'[c].n = Cardinality(failed)
<1>1. /\ proc \in [Procs -> Process] /\ camp.st \in Seen
      /\ Cardinality(Open(Recipients)) \in Nat /\ Cardinality(failed) \in Nat
      /\ "withdraw" \in Stages /\ "cancel" \in Stages /\ "requeue" \in Stages
  <2>1. failed \subseteq Recipients /\ Open(Recipients) \subseteq Recipients
    BY DEF OutboxTypeOK, Open
  <2> QED
    BY <2>1, RowFacts, StageFacts, FS_Subset, FS_CardinalityType DEF OutboxTypeOK, Campaign
<1>2. Done(c) => To(c, "idle")
  BY <1>1, DoneTo
<1>3. ASSUME Audit(c), ~Done(c)
      PROVE  To(c, "withdraw") /\ proc'[c].seen = camp.st /\ Cancellable
  <2>1. Cancellable /\ Both(c, "withdraw", camp.st, TRUE)
    BY <1>3 DEF Audit, Both
  <2> QED
    BY <1>1, <2>1, GoesSeeingWell DEF To, Others
<1>4. ASSUME Cancel(c)
      PROVE  To(c, "withdraw") /\ proc'[c].seen = camp.st /\ Cancellable
  <2>1. Cancellable /\ Seeing(c, "withdraw", camp.st)
    BY <1>4 DEF Cancel, Seeing
  <2> QED
    BY <1>1, <2>1, GoesSeeing DEF To, Others
<1>5. ASSUME Withdraw(c)
      PROVE  /\ To(c, "cancel") /\ proc'[c].seen = proc[c].seen
             /\ proc'[c].n = Cardinality(Open(Recipients))
  <2>1. Holding(c, "cancel", Cardinality(Open(Recipients)))
    BY <1>5 DEF Withdraw, Holding
  <2> QED
    BY <1>1, <2>1, GoesHolding DEF To, Others
<1>6. ASSUME Retry(c)
      PROVE  To(c, "requeue") /\ proc'[c].n = Cardinality(failed)
  <2>1. Holding(c, "requeue", Cardinality(failed))
    BY <1>6 DEF Retry, Holding
  <2> QED
    BY <1>1, <2>1, GoesHolding DEF To, Others
<1> QED
  BY <1>2, <1>3, <1>4, <1>5, <1>6

(* And for the job.                                                        *)
LEMMA JobMoves ==
    ASSUME OutboxTypeOK
    PROVE  /\ \A r \in batch : Take(r) =>
                 /\ proc'[Bot].row = r /\ proc'[Bot].good = proc[Bot].good
                 /\ \/ r \in Plain /\ To(Bot, "post")
                    \/ r \notin Plain /\ r \in mirrored /\ To(Bot, "send")
                    \/ r \notin Plain /\ r \notin mirrored /\ To(Bot, "mirror")
           /\ Mirror => To(Bot, "mirrored") /\ Same(Bot)
           /\ MarkMirrored => To(Bot, "send") /\ Same(Bot)
           /\ Send => /\ To(Bot, "mark") /\ proc'[Bot].row = row
                      /\ \/ Delivered(1, 0) /\ proc'[Bot].good
                         \/ \E j \in 0..1 : Delivered(j, j) /\ proc'[Bot].good = proc[Bot].good
           /\ MarkRow => To(Bot, "record") /\ Same(Bot)
           /\ Record => To(Bot, "look")
           /\ \A kind \in Failures \cup {"ok"} : Post(kind) =>
                 /\ To(Bot, "settle") /\ proc'[Bot].row = row
                 /\ proc'[Bot].seen = kind /\ (proc'[Bot].good <=> kind = "ok")
           /\ Settle => To(Bot, "idle") /\ ~proc'[Bot].good
<1>1. /\ proc \in [Procs -> Process] /\ Bot \in Procs /\ batch \subseteq Rows
      /\ {"post", "send", "mirror", "mirrored", "mark", "record", "look", "settle"} \subseteq Stages
      /\ Failures \cup {"ok"} \subseteq Seen
  BY StageFacts DEF OutboxTypeOK, Stages
<1>2. \A s \in Stages : Goto(Bot, s) => To(Bot, s) /\ Same(Bot)
  BY <1>1, GotoTo
<1>3. /\ Mirror => To(Bot, "mirrored") /\ Same(Bot)
      /\ MarkMirrored => To(Bot, "send") /\ Same(Bot)
      /\ MarkRow => To(Bot, "record") /\ Same(Bot)
  BY <1>1, <1>2 DEF Mirror, MarkMirrored, MarkRow
<1>8. Record => To(Bot, "look")
  <2> DEFINE v == [Idle EXCEPT !.at = "look"]
  <2>1. v \in Process /\ v.at = "look"
    BY <1>1, IdleType DEF Process
  <2>2. Record => proc' = [proc EXCEPT ![Bot] = v]
    BY DEF Record, LookNext
  <2> HIDE DEF v
  <2> QED
    BY <1>1, <2>1, <2>2, Becomes DEF To, Others
<1>4. Settle => To(Bot, "idle") /\ ~proc'[Bot].good
  BY <1>1, DoneTo DEF Settle
<1>5. ASSUME NEW r \in batch, Take(r)
      PROVE  /\ proc'[Bot].row = r /\ proc'[Bot].good = proc[Bot].good
             /\ \/ r \in Plain /\ To(Bot, "post")
                \/ r \notin Plain /\ r \in mirrored /\ To(Bot, "send")
                \/ r \notin Plain /\ r \notin mirrored /\ To(Bot, "mirror")
  <2> DEFINE s == IF r \in Plain THEN "post" ELSE IF r \in mirrored THEN "send" ELSE "mirror"
  <2>1. /\ s \in Stages /\ r \in Rows
        /\ \/ r \in Plain /\ s = "post"
           \/ r \notin Plain /\ r \in mirrored /\ s = "send"
           \/ r \notin Plain /\ r \notin mirrored /\ s = "mirror"
    BY <1>1
  <2>2. Taking(Bot, r, s)
    BY <1>5 DEF Take, Taking
  <2> HIDE DEF s
  <2>3. To(Bot, s) /\ proc'[Bot].row = r /\ proc'[Bot].good = proc[Bot].good
    BY <1>1, <2>1, <2>2, Takes DEF To, Others
  <2> QED
    BY <2>1, <2>3
<1>6. ASSUME Send
      PROVE  /\ To(Bot, "mark") /\ proc'[Bot].row = row
             /\ \/ Delivered(1, 0) /\ proc'[Bot].good
                \/ \E j \in 0..1 : Delivered(j, j) /\ proc'[Bot].good = proc[Bot].good
  <2>1. CASE Delivered(1, 0) /\ Doing(Bot, "mark", TRUE)
    BY <1>1, <2>1, GoesWell DEF To, Others, row
  <2>2. ASSUME NEW j \in 0..1, Delivered(j, j), Goto(Bot, "mark")
        PROVE  To(Bot, "mark") /\ Same(Bot)
    BY <1>1, <1>2, <2>2
  <2> QED
    BY <1>6, <2>1, <2>2 DEF Send, Same, row, Doing
<1>7. ASSUME NEW kind \in Failures \cup {"ok"}, Post(kind)
      PROVE  /\ To(Bot, "settle") /\ proc'[Bot].row = row
             /\ proc'[Bot].seen = kind /\ (proc'[Bot].good <=> kind = "ok")
  <2> DEFINE g == (kind = "ok")
  <2>1. Both(Bot, "settle", kind, g)
    BY <1>7 DEF Post, Both
  <2>2. g \in BOOLEAN
    OBVIOUS
  <2> HIDE DEF g
  <2>3. To(Bot, "settle") /\ proc'[Bot].row = row /\ proc'[Bot].seen = kind /\ proc'[Bot].good = g
    BY <1>1, <2>1, <2>2, GoesSeeingWell DEF To, Others, row
  <2> QED
    BY <2>3 DEF g
<1> QED
  BY <1>3, <1>4, <1>5, <1>6, <1>7, <1>8

-----------------------------------------------------------------------------
(* A step keeps the types when it does so for what it changes.             *)
LEMMA PlaceKept ==
    ASSUME TypeInv, NEW x \in Procs, Others(x), Place(x)'
    PROVE  \A y \in Procs : Place(y)'
<1>1. ASSUME NEW y \in Procs \ {x}
      PROVE  Place(y)'
  BY DEF TypeInv, Others, Place
<1> QED
  BY <1>1

(* The steps of staff keep the types and the places.                       *)
LEMMA StaffTypes ==
    ASSUME TypeInv, NEW c \in Staff,
           \/ Create(c) \/ Insert(c) \/ Audit(c) \/ Cancel(c) \/ Withdraw(c) \/ SetCancelled(c)
           \/ Confirm(c) \/ Restore(c) \/ Restatus(c) \/ Retry(c) \/ Requeue(c) \/ Recount(c)
           \/ View(c)
    PROVE  TypeInv'
<1>1. /\ OutboxTypeOK /\ c \in Procs /\ c # Bot /\ Place(c)
      /\ camp \in Campaign /\ proc \in [Procs -> Process]
  BY StageFacts DEF TypeInv, OutboxTypeOK
<1>0. /\ troubles' \in Nat /\ snatched' \subseteq Recipients
      /\ spared' \subseteq Rows \cup Procs /\ overtaken' \in BOOLEAN
  <2>1. /\ troubles \in Nat /\ snatched \subseteq Recipients
        /\ spared \subseteq Rows \cup Procs /\ overtaken \in BOOLEAN
        /\ InHand \subseteq Recipients /\ Open(Recipients) \subseteq Recipients
        /\ Recipients \subseteq Rows /\ failed \subseteq Rows /\ withdrawn \subseteq Rows
    BY <1>1, RowFacts DEF OutboxTypeOK, InHand, Open
  <2>2. CASE \/ Create(c) \/ Insert(c) \/ Audit(c) \/ Cancel(c) \/ Confirm(c) \/ Retry(c) \/ View(c)
    BY <2>1, <2>2 DEF Create, Insert, Audit, Cancel, Confirm, Retry, View, history, calls
  <2>3. CASE Withdraw(c)
    BY <2>1, <2>3 DEF Withdraw
  <2>4. CASE SetCancelled(c)
    BY <2>1, <2>4 DEF SetCancelled
  <2>5. CASE Restore(c) \/ Requeue(c) \/ Restatus(c) \/ Recount(c)
    BY <2>1, <2>5 DEF Restore, Requeue, Restatus, Recount
  <2> QED
    BY <2>2, <2>3, <2>4, <2>5
<1>2. ASSUME Others(c), Place(c)', camp' \in Campaign, due' \in BOOLEAN, made' \subseteq Rows,
             sent' \subseteq Rows, failed' \subseteq Recipients, withdrawn' \subseteq Recipients,
             UNCHANGED <<mirrored, tries, waiting, batch, crashes, copies, lost, inbox>>
      PROVE  TypeInv'
  BY <1>0, <1>1, <1>2, PlaceKept DEF TypeInv, OutboxTypeOK, Others
<1> USE DEF To, StaffStages
<1>3. /\ due \in BOOLEAN /\ made \subseteq Rows /\ sent \subseteq Rows /\ failed \subseteq Recipients
      /\ withdrawn \subseteq Recipients /\ First \subseteq Rows /\ Late \subseteq Rows
      /\ Open(Recipients) \subseteq Recipients /\ Recipients \subseteq Rows
  BY <1>1, RowFacts DEF OutboxTypeOK, Open
<1>4. CASE Create(c)
  <2>1. Place(c)'
    BY <1>1, <1>4, StaffMoves DEF Place
  <2>2. camp' \in Campaign /\ due' \in BOOLEAN
    BY <1>1, <1>4 DEF Create, Campaign, Statuses
  <2> QED
    BY <1>1, <1>2, <1>3, <1>4, <2>1, <2>2, StaffMoves DEF Create, rows, history
<1>5. CASE Insert(c)
  <2>1. Place(c)'
    BY <1>1, <1>5, StaffMoves DEF Place
  <2> QED
    BY <1>1, <1>2, <1>3, <1>5, <2>1, StaffMoves DEF Insert, history
<1>6. CASE Audit(c) \/ Cancel(c)
  <2>1. Place(c)'
    BY <1>1, <1>6, ChangeMoves DEF Place, Cancellable
  <2> QED
    BY <1>1, <1>2, <1>3, <1>6, <2>1, ChangeMoves DEF Audit, Cancel, rows, history
<1>7. CASE Withdraw(c)
  <2>1. Place(c)'
    BY <1>1, <1>7, ChangeMoves DEF Place, Withdraw, At
  <2> QED
    BY <1>1, <1>2, <1>3, <1>7, <2>1, ChangeMoves DEF Withdraw, history
<1>8. CASE SetCancelled(c)
  <2>1. Place(c)'
    BY <1>1, <1>8, StaffMoves DEF Place, SetCancelled, At, Same
  <2>2. camp' \in Campaign
    BY <1>1, <1>8 DEF SetCancelled, Campaign, Statuses, Process
  <2> QED
    BY <1>1, <1>2, <1>3, <1>8, <2>1, <2>2, StaffMoves DEF SetCancelled, rows, history
<1>9. CASE Confirm(c)
  <2>1. Place(c)'
    BY <1>1, <1>9, StaffMoves DEF Place, Confirm, At, Same
  <2> QED
    BY <1>1, <1>2, <1>3, <1>9, <2>1, StaffMoves DEF Confirm, rows, history
<1>10. CASE Restore(c)
  <2>1. Place(c)'
    BY <1>1, <1>10, StaffMoves DEF Place, Restore, At, Same
  <2> QED
    BY <1>1, <1>2, <1>3, <1>10, <2>1, StaffMoves DEF Restore, history
<1>11. CASE Restatus(c)
  <2>1. Place(c)'
    BY <1>1, <1>11, StaffMoves DEF Place
  <2>2. camp' \in Campaign
    <3>1. proc[c].seen \in {"scheduled", "queued"}
      BY <1>1, <1>11 DEF Restatus, At, Place
    <3> QED
      BY <1>1, <1>11, <3>1 DEF Restatus, Campaign, Statuses
  <2> QED
    BY <1>1, <1>2, <1>3, <1>11, <2>1, <2>2, StaffMoves DEF Restatus, rows, history
<1>12. CASE Retry(c)
  <2>1. Place(c)'
    BY <1>1, <1>12, ChangeMoves DEF Place
  <2>2. Others(c)
    BY <1>1, <1>12, ChangeMoves
  <2>3. UNCHANGED <<camp, due, rows, batch, crashes, copies, lost, inbox>>
    BY <1>12 DEF Retry
  <2> QED
    BY <1>1, <1>2, <1>3, <2>1, <2>2, <2>3 DEF rows
<1>13. CASE Requeue(c)
  <2>1. Place(c)'
    BY <1>1, <1>13, StaffMoves DEF Place
  <2> QED
    BY <1>1, <1>2, <1>3, <1>13, <2>1, StaffMoves DEF Requeue, history
<1>14. CASE Recount(c)
  <2>1. Place(c)'
    BY <1>1, <1>14, StaffMoves DEF Place
  <2>2. camp' \in Campaign
    <3>1. proc[c].n \in Nat /\ camp.bad \in Int
      BY <1>1 DEF Process, Campaign
    <3>2. camp' = [st |-> "queued", ok |-> camp.ok, bad |-> camp.bad - proc[c].n, skip |-> camp.skip]
      BY <1>1, <1>14 DEF Recount, Campaign
    <3> QED
      BY <1>1, <3>1, <3>2 DEF Campaign, Statuses
  <2> QED
    BY <1>1, <1>2, <1>3, <1>14, <2>1, <2>2, StaffMoves DEF Recount, rows, history
<1>15. CASE View(c)
  <2>1. Place(c)'
    BY <1>1, <1>15, StaffMoves DEF Place
  <2> QED
    BY <1>1, <1>2, <1>3, <1>15, <2>1, StaffMoves DEF View, rows, history
<1> QED
  BY <1>4, <1>5, <1>6, <1>7, <1>8, <1>9, <1>10, <1>11, <1>12, <1>13, <1>14, <1>15

(* A refresh, by staff or by the job, and a crash.                         *)
LEMMA AnyTypes ==
    ASSUME TypeInv, NEW x \in Procs, Look(x) \/ Count(x) \/ Close(x) \/ Crash(x)
    PROVE  TypeInv'
<1>1. /\ OutboxTypeOK /\ Place(x) /\ camp \in Campaign /\ proc \in [Procs -> Process]
      /\ x \in Staff \/ x = Bot
  BY StageFacts DEF TypeInv, OutboxTypeOK, Procs
<1>2. ASSUME Others(x), Place(x)', camp' \in Campaign, lost' \in [Rows -> Nat], crashes' \in Nat,
             batch' \subseteq Rows, troubles' \in Nat, UNCHANGED <<due, rows, copies, inbox, calls>>
      PROVE  TypeInv'
  BY <1>1, <1>2, PlaceKept DEF TypeInv, OutboxTypeOK, Others, rows, calls
<1>3. batch \subseteq Rows /\ troubles \in Nat /\ crashes \in Nat /\ lost \in [Rows -> Nat]
  BY <1>1 DEF OutboxTypeOK
<1> USE DEF To, StaffStages, BotStages
<1>4. CASE Look(x)
  <2>1. Place(x)'
    BY <1>1, <1>4, LookTo, StageFacts DEF Place
  <2> QED
    BY <1>1, <1>2, <1>3, <1>4, <2>1, LookTo DEF Look, history, calls
<1>5. CASE Count(x)
  <2>1. Place(x)'
    BY <1>1, <1>5, StaffMoves, StageFacts DEF Place, Count, At, Same
  <2> QED
    BY <1>1, <1>2, <1>3, <1>5, <2>1, StaffMoves DEF Count, history, calls
<1>6. CASE Close(x)
  <2>1. Place(x)'
    BY <1>1, <1>6, StaffMoves, StageFacts DEF Place
  <2>2. camp' \in Campaign
    <3>1. proc[x].seen \in {"completed", "failed"}
      BY <1>1, <1>6 DEF Close, At, Place
    <3> QED
      BY <1>1, <1>6, <3>1 DEF Close, Campaign, Statuses
  <2> QED
    BY <1>1, <1>2, <1>3, <1>6, <2>1, <2>2, StaffMoves DEF Close, history, calls
<1>7. CASE Crash(x)
  <2>1. Place(x)'
    BY <1>1, <1>7, StaffMoves, StageFacts DEF Place
  <2>2. lost' \in [Rows -> Nat] /\ batch' \subseteq Rows /\ crashes' \in Nat /\ troubles' \in Nat
    <3>1. [lost EXCEPT ![row] = @ + 1] \in [Rows -> Nat]
      BY <1>1, <1>3, StageFacts DEF row, Process
    <3> QED
      BY <1>3, <1>7, <3>1 DEF Crash
  <2> QED
    BY <1>1, <1>2, <1>7, <2>1, <2>2, StaffMoves DEF Crash
<1> QED
  BY <1>4, <1>5, <1>6, <1>7

(* The steps of the job do.                                                *)
LEMMA JobTypes ==
    ASSUME TypeInv,
           \/ \E r \in Rows : Take(r)
           \/ Mirror \/ MarkMirrored \/ Send \/ MarkRow \/ Record \/ Settle
           \/ \E kind \in Failures \cup {"ok"} : Post(kind)
    PROVE  TypeInv'
<1>1. /\ OutboxTypeOK /\ Place(Bot) /\ Bot \in Procs /\ Bot \notin Staff /\ row \in Rows
      /\ camp \in Campaign /\ proc \in [Procs -> Process] /\ row = proc[Bot].row
  BY StageFacts DEF TypeInv, OutboxTypeOK, row, Process
<1>2. ASSUME Others(Bot), Place(Bot)', camp' \in Campaign, sent' \subseteq Rows,
             failed' \subseteq Recipients, mirrored' \subseteq Rows, tries' \in [Plain -> Nat],
             waiting' \subseteq Plain, batch' \subseteq Rows, copies' \in [Rows -> Nat],
             lost' \in [Rows -> Nat], inbox' \in [Rows -> Nat],
             troubles' \in Nat, UNCHANGED <<due, made, withdrawn, crashes, calls>>
      PROVE  TypeInv'
  BY <1>1, <1>2, PlaceKept DEF TypeInv, OutboxTypeOK, Others, calls
<1>3. /\ sent \subseteq Rows /\ failed \subseteq Recipients /\ mirrored \subseteq Rows
      /\ tries \in [Plain -> Nat] /\ waiting \subseteq Plain /\ batch \subseteq Rows
      /\ copies \in [Rows -> Nat] /\ lost \in [Rows -> Nat] /\ inbox \in [Rows -> Nat]
      /\ troubles \in Nat
  BY <1>1 DEF OutboxTypeOK
<1> USE DEF To, BotStages
<1>4. ASSUME NEW r \in Rows, Take(r)
      PROVE  TypeInv'
  <2>1. r \in batch /\ Others(Bot) /\ Place(Bot)'
    BY <1>1, <1>4, JobMoves, RowFacts DEF Take, Place
  <2> QED
    BY <1>2, <1>3, <1>1, <1>4, <2>1 DEF Take, rows, history, calls
<1>5. CASE Mirror
  <2>1. Others(Bot) /\ Place(Bot)'
    BY <1>1, <1>5, JobMoves DEF Mirror, Place, At, Same
  <2> QED
    BY <1>2, <1>3, <1>1, <1>5, <2>1 DEF Mirror, rows
<1>6. CASE MarkMirrored
  <2>1. Others(Bot) /\ Place(Bot)'
    BY <1>1, <1>6, JobMoves DEF MarkMirrored, Place, At, Same
  <2> QED
    BY <1>2, <1>3, <1>1, <1>6, <2>1 DEF MarkMirrored, history, calls
<1>7. ASSUME NEW j \in Nat, NEW k \in Nat, Delivered(k, j), Others(Bot), Place(Bot)'
      PROVE  TypeInv'
  <2>1. copies' \in [Rows -> Nat] /\ lost' \in [Rows -> Nat]
    <3>1. /\ copies' = [copies EXCEPT ![row] = copies[row] + k]
          /\ lost' = [lost EXCEPT ![row] = lost[row] + j]
      BY <1>7 DEF Delivered
    <3>2. copies[row] + k \in Nat /\ lost[row] + j \in Nat
      BY <1>1, <1>3
    <3> QED
      BY <1>1, <1>3, <3>1, <3>2
  <2>2. troubles' \in Nat
    BY <1>3, <1>7 DEF Delivered
  <2> QED
    BY <1>2, <1>3, <1>1, <1>7, <2>1, <2>2 DEF Delivered, rows
<1>8. CASE Send
  <2>1. Others(Bot) /\ Place(Bot)'
    BY <1>1, <1>8, JobMoves DEF Send, Place, At
  <2>2. \/ Delivered(1, 0)
        \/ \E j \in 0..1 : Delivered(j, j)
    BY <1>8 DEF Send
  <2> QED
    BY <1>7, <2>1, <2>2
<1>9. ASSUME NEW kind \in Failures \cup {"ok"}, Post(kind)
      PROVE  TypeInv'
  <2>1. Others(Bot) /\ Place(Bot)'
    BY <1>1, <1>9, JobMoves DEF Post, Place, At
  <2>2. PICK j \in 0..MaxTroubles : Delivered(IF kind = "ok" THEN j + 1 ELSE j, j)
    BY <1>9 DEF Post
  <2>3. j \in Nat /\ (IF kind = "ok" THEN j + 1 ELSE j) \in Nat
    BY OutboxAssumption
  <2> QED
    BY <1>7, <2>1, <2>2, <2>3
<1>10. CASE MarkRow
  <2>1. Others(Bot) /\ Place(Bot)' /\ row \in Recipients
    BY <1>1, <1>10, JobMoves DEF MarkRow, Place, At, Same
  <2> QED
    BY <1>2, <1>3, <1>1, <1>10, <2>1 DEF MarkRow, history, calls
<1>11. CASE Record
  <2>1. Others(Bot) /\ Place(Bot)'
    BY <1>1, <1>11, JobMoves DEF Place
  <2>2. camp' \in Campaign
    <3>1. \/ camp' = [st |-> "running", ok |-> camp.ok + 1, bad |-> camp.bad, skip |-> camp.skip]
          \/ camp' = [st |-> "running", ok |-> camp.ok, bad |-> camp.bad + 1, skip |-> camp.skip]
      BY <1>1, <1>11 DEF Record, Campaign
    <3>2. camp.ok \in Nat /\ camp.bad \in Int /\ camp.skip \in Nat
      BY <1>1 DEF Campaign
    <3> QED
      BY <3>1, <3>2 DEF Campaign, Statuses
  <2> QED
    BY <1>2, <1>3, <1>1, <1>11, <2>1, <2>2 DEF Record, rows, history, calls
<1>12. CASE Settle
  <2>1. Others(Bot) /\ Place(Bot)' /\ row \in Plain
    BY <1>1, <1>12, JobMoves DEF Settle, Place, At
  <2>2. tries' \in [Plain -> Nat]
    <3> DEFINE v == IF proc[Bot].seen = "ok" \/ tries[row] = Attempts THEN tries[row] ELSE tries[row] + 1
    <3>1. v \in Nat
      BY <1>3, <2>1
    <3>2. tries' = [tries EXCEPT ![row] = v]
      BY <1>12 DEF Settle
    <3> QED
      BY <1>3, <3>1, <3>2
  <2>3. sent' \subseteq Rows /\ waiting' \subseteq Plain
    BY <1>1, <1>3, <1>12, <2>1 DEF Settle
  <2> QED
    BY <1>2, <1>3, <1>1, <1>12, <2>1, <2>2, <2>3 DEF Settle, history, calls
<1> QED
  BY <1>4, <1>5, <1>6, <1>8, <1>9, <1>10, <1>11, <1>12

(* Types and places hold at the start                                      *)
LEMMA TypeStart == OutboxInit => TypeInv
<1> SUFFICES ASSUME OutboxInit
             PROVE  TypeInv
  OBVIOUS
<1>1. camp \in Campaign
  BY DEF OutboxInit, Campaign, Statuses
<1>2. /\ proc \in [Procs -> Process]
      /\ \A x \in Procs : proc[x].at = "idle"
  BY IdleType DEF OutboxInit, Idle
<1>3. \A x \in Procs : Place(x)
  BY <1>2 DEF Place, StaffStages, BotStages
<1> QED
  BY <1>1, <1>2, <1>3 DEF OutboxInit, TypeInv, OutboxTypeOK

(* and after every step.                                                   *)
LEMMA TypeStep == TypeInv /\ [OutboxNext]_vars => TypeInv'
<1> SUFFICES ASSUME TypeInv, [OutboxNext]_vars
             PROVE  TypeInv'
  OBVIOUS
<1>1. ASSUME NEW p \in Plain, Put(p) \/ Wake(p)
      PROVE  TypeInv'
  <2>1. p \in Rows
    BY RowFacts
  <2> QED
    BY <1>1, <2>1 DEF Put, Wake, TypeInv, OutboxTypeOK, Place, history, calls
<1>2. CASE TimeComes
  BY <1>2 DEF TimeComes, TypeInv, OutboxTypeOK, Place, rows, history, calls
<1>3. CASE Read
  <2>1. Ready \subseteq Rows
    BY RowFacts DEF Ready, Open
  <2> QED
    BY <1>3, <2>1 DEF Read, TypeInv, OutboxTypeOK, Place, rows, history, calls
<1>4. CASE UNCHANGED vars
  BY <1>4 DEF vars, TypeInv, OutboxTypeOK, Place, rows, history, calls
<1>5. Staff \subseteq Procs /\ Bot \in Procs
  BY StageFacts
<1> QED
  BY <1>1, <1>2, <1>3, <1>4, <1>5, StaffTypes, AnyTypes, JobTypes DEF OutboxNext, StaffStep, JobStep

-----------------------------------------------------------------------------
(* Steps that touch neither the rows nor a delivery.                       *)
StillRows ==
    /\ UNCHANGED <<made, sent, failed, withdrawn, mirrored, batch, crashes, copies, lost, inbox,
                   snatched>>
    /\ \/ proc'[Bot] = proc[Bot]
       \/ proc[Bot].at \notin Delivering /\ proc'[Bot].at \notin Delivering

(* They keep what the rows say of the deliveries.                          *)
LEMMA StillKeeps ==
    ASSUME DeliveryInv, StillRows
    PROVE  DeliveryInv'
<1>1. HandInv'
  BY DEF DeliveryInv, StillRows, HandInv, row, Delivering
<1>2. ASSUME NEW r \in Rows
      PROVE  RowInv(r)'
  <2>1. Pending(r)' = Pending(r) /\ Mirroring(r)' = Mirroring(r)
    BY DEF StillRows, Delivering, Pending, Mirroring, row
  <2>2. OpenInv(r) => OpenInv(r)'
    BY DEF StillRows, OpenInv, row
  <2> QED
    BY <2>1, <2>2 DEF DeliveryInv, StillRows, RowInv, CopiesInv
<1> QED
  BY <1>1, <1>2 DEF DeliveryInv

(* Which steps these are.                                                  *)
LEMMA StillSteps ==
    ASSUME TypeInv,
           \/ \E c \in Staff :
                 \/ Create(c) \/ Audit(c) \/ Cancel(c) \/ SetCancelled(c) \/ Confirm(c)
                 \/ Restatus(c) \/ Retry(c) \/ Recount(c) \/ View(c)
           \/ \E x \in Procs : Look(x) \/ Count(x) \/ Close(x)
           \/ \E p \in Plain : Wake(p)
           \/ TimeComes \/ Record \/ UNCHANGED vars
    PROVE  StillRows
<1>1. /\ OutboxTypeOK /\ Bot \in Procs /\ Bot \notin Staff /\ Staff \subseteq Procs
  BY StageFacts DEF TypeInv
<1>2. ASSUME NEW c \in Staff,
             \/ Create(c) \/ Audit(c) \/ Cancel(c) \/ SetCancelled(c) \/ Confirm(c)
             \/ Restatus(c) \/ Retry(c) \/ Recount(c) \/ View(c)
      PROVE  StillRows
  <2>1. Others(c)
    BY <1>1, <1>2, StaffMoves, ChangeMoves DEF To
  <2>2. UNCHANGED <<made, sent, failed, withdrawn, mirrored, batch, crashes, copies, lost, inbox,
                    snatched>>
    BY <1>2 DEF Create, Audit, Cancel, SetCancelled, Confirm, Restatus, Retry, Recount, View,
       rows, history, calls
  <2> QED
    BY <1>1, <2>1, <2>2 DEF Others, StillRows
<1>3. ASSUME NEW x \in Procs, Look(x) \/ Count(x) \/ Close(x)
      PROVE  StillRows
  <2>1. To(x, "idle") \/ To(x, "count") \/ To(x, "close")
    BY <1>1, <1>3, StaffMoves, LookTo
  <2>2. /\ proc[x].at \notin Delivering
        /\ UNCHANGED <<made, sent, failed, withdrawn, mirrored, batch, crashes, copies, lost, inbox,
                       snatched>>
    BY <1>3 DEF Look, Count, Close, At, Delivering, rows, history, calls
  <2> QED
    BY <1>1, <2>1, <2>2 DEF To, Others, StillRows, Delivering
<1>4. CASE Record
  <2>1. To(Bot, "look")
    BY <1>1, <1>4, JobMoves
  <2> QED
    BY <1>4, <2>1 DEF Record, At, To, StillRows, Delivering, rows, history, calls
<1>5. ASSUME TimeComes \/ UNCHANGED vars \/ \E p \in Plain : Wake(p)
      PROVE  StillRows
  BY <1>5 DEF TimeComes, Wake, vars, rows, history, calls, StillRows
<1> QED
  BY <1>2, <1>3, <1>4, <1>5

(* Staff's writes to the rows, beside whatever the job does: a row that is *)
(* withdrawn is not in the job's hand, or it is snatched.                  *)
LEMMA StaffKeepsDelivery ==
    ASSUME TypeInv, DeliveryInv, NEW c \in Staff,
           Insert(c) \/ Withdraw(c) \/ Restore(c) \/ Requeue(c)
    PROVE  DeliveryInv'
<1>1. /\ OutboxTypeOK /\ c \in Procs /\ Bot \in Procs /\ Bot # c /\ Place(Bot)
      /\ copies \in [Rows -> Nat] /\ lost \in [Rows -> Nat] /\ row = proc[Bot].row
      /\ HandInv /\ \A r \in Rows : RowInv(r)
  BY StageFacts DEF TypeInv, OutboxTypeOK, DeliveryInv, row
<1>2. /\ proc'[Bot] = proc[Bot]
      /\ UNCHANGED <<mirrored, batch, crashes, copies, lost, inbox>>
  <2>1. Others(c)
    BY <1>1, StaffMoves, ChangeMoves DEF To
  <2> QED
    BY <1>1, <2>1 DEF Others, Insert, Withdraw, Restore, Requeue, history, calls
<1>3. /\ \A r \in Rows : Pending(r)' = Pending(r) /\ Mirroring(r)' = Mirroring(r)
      /\ row' = row /\ HandInv'
  BY <1>1, <1>2 DEF Pending, Mirroring, row, HandInv
<1>4. ASSUME \A r \in Rows : r \notin snatched' => r \notin snatched /\
                (CopiesInv(r) /\ OpenInv(r) => CopiesInv(r)' /\ OpenInv(r)')
      PROVE  DeliveryInv'
  <2>1. \A r \in Rows : RowInv(r)'
    BY <1>1, <1>2, <1>3, <1>4 DEF RowInv
  <2> QED
    BY <1>3, <2>1 DEF DeliveryInv
<1>5. CASE Insert(c)
  <2>1. UNCHANGED <<sent, failed, withdrawn, snatched>>
    BY <1>5 DEF Insert, history, calls
  <2> QED
    BY <1>2, <1>3, <1>4, <2>1 DEF CopiesInv, OpenInv
<1>6. CASE Withdraw(c)
  <2>1. /\ sent' = sent \cup Open(Recipients) /\ withdrawn' = withdrawn \cup Open(Recipients)
        /\ failed' = failed /\ snatched' = snatched \cup (InHand \cap Open(Recipients))
        /\ Open(Recipients) \cap sent = {} /\ Open(Recipients) \subseteq Recipients
    BY <1>6 DEF Withdraw, Open
  <2>2. ASSUME NEW r \in Rows, r \notin snatched', CopiesInv(r), OpenInv(r)
        PROVE  CopiesInv(r)' /\ OpenInv(r)'
    <3>1. CopiesInv(r)'
      BY <1>2, <1>3, <2>1, <2>2 DEF CopiesInv
    <3>2. CASE r \notin Open(Recipients)
      BY <1>2, <1>3, <2>1, <2>2, <3>1, <3>2 DEF OpenInv
    <3>3. CASE r \in Open(Recipients)
      <4>1. r \notin InHand /\ r \in Recipients /\ r \notin sent
        BY <2>1, <2>2, <3>3
      <4>2. r \notin batch /\ ~(proc[Bot].at \in Delivering /\ row = r)
        BY <1>1, <4>1, RowFacts DEF InHand, Delivering, Place
      <4> QED
        BY <1>2, <1>3, <2>1, <2>2, <3>1, <3>3, <4>1, <4>2 DEF OpenInv
    <3> QED
      BY <3>2, <3>3
  <2> QED
    BY <1>4, <2>1, <2>2
<1>7. CASE Restore(c)
  <2>1. sent' = sent \ withdrawn /\ withdrawn' = {} /\ UNCHANGED <<failed, snatched>>
    BY <1>7 DEF Restore
  <2>2. ASSUME NEW r \in Rows, CopiesInv(r), OpenInv(r)
        PROVE  CopiesInv(r)' /\ OpenInv(r)'
    BY <1>2, <1>3, <2>1, <2>2 DEF CopiesInv, OpenInv
  <2> QED
    BY <1>4, <2>1, <2>2
<1>8. CASE Requeue(c)
  <2>1. sent' = sent \ failed /\ failed' = {} /\ UNCHANGED <<withdrawn, snatched>>
    BY <1>8 DEF Requeue
  <2>2. ASSUME NEW r \in Rows, CopiesInv(r), OpenInv(r)
        PROVE  CopiesInv(r)' /\ OpenInv(r)'
    BY <1>2, <1>3, <2>1, <2>2 DEF CopiesInv, OpenInv
  <2> QED
    BY <1>4, <2>1, <2>2
<1> QED
  BY <1>5, <1>6, <1>7, <1>8

(* The job's steps.                                                        *)
LEMMA JobKeepsDelivery ==
    ASSUME TypeInv, DeliveryInv,
           \/ Read \/ \E r \in Rows : Take(r)
           \/ Mirror \/ MarkMirrored \/ Send \/ MarkRow \/ Settle
           \/ \E kind \in Failures \cup {"ok"} : Post(kind)
           \/ \E p \in Plain : Put(p)
           \/ \E x \in Procs : Crash(x)
    PROVE  DeliveryInv'
<1>1. /\ OutboxTypeOK /\ Bot \in Procs /\ row \in Rows /\ row = proc[Bot].row /\ row' = proc'[Bot].row
      /\ \A x \in Procs : Crash(x) => x # Bot \/ Crash(Bot)
      /\ copies \in [Rows -> Nat] /\ lost \in [Rows -> Nat] /\ inbox \in [Rows -> Nat] /\ crashes \in Nat
      /\ HandInv /\ \A r \in Rows : RowInv(r)
  BY StageFacts DEF TypeInv, OutboxTypeOK, row, Process, DeliveryInv
<1> USE DEF To, Delivering
<1>2. CASE Read
  <2>1. /\ batch' \cap sent = {} /\ proc[Bot].at = "idle"
        /\ UNCHANGED <<sent, failed, withdrawn, mirrored, proc, crashes, copies, lost, inbox, snatched>>
    BY <1>2 DEF Read, Ready, Open, Resting, At, rows, history, calls
  <2>2. HandInv'
    BY <1>1, <2>1 DEF HandInv
  <2>3. \A r \in Rows : RowInv(r)'
    BY <1>1, <2>1 DEF RowInv, CopiesInv, OpenInv, Pending, Mirroring
  <2> QED
    BY <2>2, <2>3 DEF DeliveryInv
<1>3. ASSUME NEW r \in Rows, Take(r)
      PROVE  DeliveryInv'
  <2>1. /\ r \in batch /\ proc[Bot].at = "idle" /\ batch' = batch \ {r}
        /\ UNCHANGED <<sent, failed, withdrawn, mirrored, crashes, copies, lost, inbox, snatched>>
    BY <1>3 DEF Take, At, rows, history, calls
  <2>2. /\ row' = r
        /\ \/ proc'[Bot].at \in {"post", "send"}
           \/ proc'[Bot].at = "mirror" /\ r \notin mirrored
    BY <1>1, <1>3, <2>1, JobMoves
  <2>3. HandInv'
    BY <1>1, <2>1, <2>2 DEF HandInv
  <2>4. ASSUME NEW q \in Rows
        PROVE  RowInv(q)'
    <3>1. RowInv(q) /\ Pending(q)' = Pending(q) /\ Mirroring(q)' = Mirroring(q)
      BY <1>1, <2>1, <2>2 DEF Pending, Mirroring
    <3>2. OpenInv(q) => OpenInv(q)'
      BY <1>1, <2>1, <2>2 DEF OpenInv
    <3> QED
      BY <2>1, <3>1, <3>2 DEF RowInv, CopiesInv
  <2> QED
    BY <2>3, <2>4 DEF DeliveryInv
<1>4. CASE Mirror
  <2>1. /\ proc[Bot].at = "mirror" /\ inbox' = [inbox EXCEPT ![row] = @ + 1]
        /\ UNCHANGED <<sent, failed, withdrawn, mirrored, batch, crashes, copies, lost, snatched>>
    BY <1>4 DEF Mirror, At, rows, calls
  <2>2. proc'[Bot].at = "mirrored" /\ row' = row
    BY <1>1, <1>4, JobMoves DEF Same
  <2>3. HandInv'
    BY <1>1, <2>1, <2>2 DEF HandInv
  <2>4. row \notin mirrored
    BY <1>1, <2>1 DEF HandInv
  <2>5. ASSUME NEW q \in Rows
        PROVE  RowInv(q)'
    <3>1. RowInv(q) /\ Pending(q)' = Pending(q)
      BY <1>1, <2>1, <2>2 DEF Pending
    <3>2. CopiesInv(q) /\ OpenInv(q) => CopiesInv(q)' /\ OpenInv(q)'
      BY <1>1, <2>1, <2>2, <3>1 DEF CopiesInv, OpenInv
    <3>3. CASE q = row
      BY <1>1, <2>1, <2>2, <2>4, <3>1, <3>2, <3>3 DEF RowInv, Mirroring
    <3>4. CASE q # row
      BY <1>1, <2>1, <2>2, <3>1, <3>2, <3>4 DEF RowInv, Mirroring
    <3> QED
      BY <3>3, <3>4
  <2> QED
    BY <2>3, <2>5 DEF DeliveryInv
<1>5. CASE MarkMirrored
  <2>1. /\ proc[Bot].at = "mirrored" /\ mirrored' = mirrored \cup {row}
        /\ UNCHANGED <<sent, failed, withdrawn, batch, crashes, copies, lost, inbox, snatched>>
    BY <1>5 DEF MarkMirrored, At, history, calls
  <2>2. proc'[Bot].at = "send" /\ row' = row
    BY <1>1, <1>5, JobMoves DEF Same
  <2>3. HandInv'
    BY <1>1, <2>1, <2>2 DEF HandInv
  <2>4. ASSUME NEW q \in Rows
        PROVE  RowInv(q)'
    <3>1. RowInv(q) /\ Pending(q)' = Pending(q)
      BY <1>1, <2>1, <2>2 DEF Pending
    <3>2. CopiesInv(q) /\ OpenInv(q) => CopiesInv(q)' /\ OpenInv(q)'
      BY <1>1, <2>1, <2>2, <3>1 DEF CopiesInv, OpenInv
    <3> QED
      BY <1>1, <2>1, <2>2, <3>1, <3>2 DEF RowInv, Mirroring
  <2> QED
    BY <2>3, <2>4 DEF DeliveryInv
<1>6. ASSUME NEW k \in Nat, NEW j \in Nat, Delivered(k, j), row' = row,
             proc[Bot].at \in {"send", "post"}, proc'[Bot].at \in {"mark", "settle"},
             k <= j + (IF proc'[Bot].good THEN 1 ELSE 0),
             proc'[Bot].at = "settle" /\ proc'[Bot].good => proc'[Bot].seen = "ok"
      PROVE  DeliveryInv'
  <2>1. /\ copies' = [copies EXCEPT ![row] = copies[row] + k]
        /\ lost' = [lost EXCEPT ![row] = lost[row] + j]
        /\ UNCHANGED <<sent, failed, withdrawn, mirrored, batch, crashes, inbox, snatched>>
    BY <1>6 DEF Delivered, rows, calls
  <2>2. HandInv'
    BY <1>1, <1>6, <2>1 DEF HandInv
  <2>3. ASSUME NEW q \in Rows
        PROVE  RowInv(q)'
    <3>1. /\ RowInv(q) /\ Pending(q) = 0 /\ Mirroring(q) = 0 /\ Mirroring(q)' = 0
          /\ Pending(q)' = IF q = row /\ proc'[Bot].good THEN 1 ELSE 0
      BY <1>1, <1>6 DEF Pending, Mirroring
    <3>2. OpenInv(q) => OpenInv(q)'
      BY <1>1, <1>6, <2>1 DEF OpenInv
    <3>3. CASE q = row
      <4>1. ASSUME CopiesInv(q), OpenInv(q)
            PROVE  CopiesInv(q)'
        <5>1. copies[row] <= lost[row]
          BY <1>1, <1>6, <3>1, <3>3, <4>1 DEF OpenInv, CopiesInv
        <5>2. copies'[q] <= lost'[q] + Pending(q)' /\ copies'[q] <= 1 + lost'[q]
          BY <1>1, <1>6, <2>1, <3>1, <3>3, <5>1
        <5> QED
          BY <5>2 DEF CopiesInv
      <4> QED
        BY <2>1, <3>1, <3>2, <4>1 DEF RowInv
    <3>4. CASE q # row
      BY <1>1, <2>1, <3>1, <3>2, <3>4 DEF RowInv, CopiesInv
    <3> QED
      BY <3>3, <3>4
  <2> QED
    BY <2>2, <2>3 DEF DeliveryInv
<1>7. CASE Send
  <2>1. proc[Bot].at = "send" /\ proc'[Bot].at = "mark" /\ row' = row
    BY <1>1, <1>7, JobMoves DEF Send, At
  <2>2. CASE Delivered(1, 0) /\ proc'[Bot].good
    BY <1>6, <2>1, <2>2
  <2>3. ASSUME NEW j \in 0..1, Delivered(j, j)
        PROVE  DeliveryInv'
    BY <1>6, <2>1, <2>3
  <2> QED
    BY <1>1, <1>7, <2>2, <2>3, JobMoves
<1>8. ASSUME NEW kind \in Failures \cup {"ok"}, Post(kind)
      PROVE  DeliveryInv'
  <2>1. /\ proc[Bot].at = "post" /\ proc'[Bot].at = "settle" /\ row' = row
        /\ proc'[Bot].seen = kind /\ (proc'[Bot].good <=> kind = "ok")
    BY <1>1, <1>8, JobMoves DEF Post, At
  <2>2. PICK j \in 0..MaxTroubles : Delivered(IF kind = "ok" THEN j + 1 ELSE j, j)
    BY <1>8 DEF Post
  <2>3. j \in Nat
    BY OutboxAssumption
  <2>4. CASE kind = "ok"
    <3>1. (IF kind = "ok" THEN j + 1 ELSE j) = j + 1
      BY <2>4
    <3>2. Delivered(j + 1, j)
      BY <2>2, <3>1
    <3>3. j + 1 \in Nat /\ proc'[Bot].good
      BY <2>1, <2>3, <2>4
    <3> QED
      BY <1>6, <2>1, <2>3, <2>4, <3>2, <3>3
  <2>5. CASE kind # "ok"
    BY <1>6, <2>1, <2>2, <2>3, <2>5
  <2> QED
    BY <2>4, <2>5
<1>9. CASE MarkRow
  <2>1. /\ proc[Bot].at = "mark" /\ sent' = sent \cup {row}
        /\ failed' = IF proc[Bot].good THEN failed \ {row} ELSE failed \cup {row}
        /\ UNCHANGED <<withdrawn, mirrored, batch, crashes, copies, lost, inbox, snatched>>
    BY <1>9 DEF MarkRow, At, history, calls
  <2>2. proc'[Bot].at = "record" /\ row' = row
    BY <1>1, <1>9, JobMoves DEF Same
  <2>3. row \notin batch /\ HandInv'
    BY <1>1, <2>1, <2>2 DEF HandInv
  <2>4. ASSUME NEW q \in Rows
        PROVE  RowInv(q)'
    <3>1. /\ RowInv(q) /\ Pending(q)' = 0 /\ Mirroring(q)' = 0 /\ Mirroring(q) = 0
          /\ Pending(q) = IF q = row /\ proc[Bot].good THEN 1 ELSE 0
      BY <1>1, <2>1, <2>2 DEF Pending, Mirroring
    <3>2. ASSUME CopiesInv(q), OpenInv(q)
          PROVE  CopiesInv(q)' /\ OpenInv(q)'
      <4>1. CASE q = row
        <5>1. q \notin sent /\ q \notin failed /\ q \notin withdrawn
          BY <1>1, <2>1, <3>2, <4>1 DEF OpenInv
        <5> QED
          BY <1>1, <2>1, <2>2, <2>3, <3>1, <3>2, <4>1, <5>1 DEF CopiesInv, OpenInv
      <4>2. CASE q # row
        BY <1>1, <2>1, <2>2, <3>1, <3>2, <4>2 DEF CopiesInv, OpenInv
      <4> QED
        BY <4>1, <4>2
    <3> QED
      BY <2>1, <3>1, <3>2 DEF RowInv
  <2> QED
    BY <2>3, <2>4 DEF DeliveryInv
<1>10. CASE Settle
  <2>1. /\ proc[Bot].at = "settle"
        /\ \/ sent' = sent \cup {row}
           \/ sent' = sent /\ proc[Bot].seen # "ok"
        /\ UNCHANGED <<failed, withdrawn, mirrored, batch, crashes, copies, lost, inbox, snatched>>
    BY <1>10 DEF Settle, At, history, calls
  <2>2. proc'[Bot].at = "idle"
    BY <1>1, <1>10, JobMoves
  <2>3. row \notin batch /\ HandInv' /\ (proc[Bot].good => proc[Bot].seen = "ok")
    BY <1>1, <2>1, <2>2 DEF HandInv
  <2>4. ASSUME NEW q \in Rows
        PROVE  RowInv(q)'
    <3>1. /\ RowInv(q) /\ Pending(q)' = 0 /\ Mirroring(q)' = 0 /\ Mirroring(q) = 0
          /\ Pending(q) = IF q = row /\ proc[Bot].good THEN 1 ELSE 0
      BY <1>1, <2>1, <2>2 DEF Pending, Mirroring
    <3>2. ASSUME CopiesInv(q), OpenInv(q)
          PROVE  CopiesInv(q)' /\ OpenInv(q)'
      <4>1. CASE q = row
        <5>1. q \notin sent /\ q \notin failed /\ q \notin withdrawn
          BY <1>1, <2>1, <3>2, <4>1 DEF OpenInv
        <5> QED
          BY <1>1, <2>1, <2>2, <2>3, <3>1, <3>2, <4>1, <5>1 DEF CopiesInv, OpenInv
      <4>2. CASE q # row
        BY <1>1, <2>1, <2>2, <3>1, <3>2, <4>2 DEF CopiesInv, OpenInv
      <4> QED
        BY <4>1, <4>2
    <3> QED
      BY <2>1, <3>1, <3>2 DEF RowInv
  <2> QED
    BY <2>3, <2>4 DEF DeliveryInv
<1>11. ASSUME NEW p \in Plain, Put(p)
      PROVE  DeliveryInv'
  BY <1>1, <1>11
     DEF Put, history, calls, HandInv, RowInv, CopiesInv, OpenInv, Pending, Mirroring, DeliveryInv
<1>12. ASSUME NEW x \in Procs, Crash(x), x # Bot
       PROVE  DeliveryInv'
  <2>1. Others(x)
    BY <1>1, <1>12, StaffMoves
  <2>2. /\ proc'[Bot] = proc[Bot] /\ crashes' = crashes + 1
        /\ UNCHANGED <<sent, failed, withdrawn, mirrored, batch, copies, lost, inbox, snatched>>
    BY <1>1, <1>12, <2>1 DEF Crash, Others, rows, calls
  <2>3. HandInv'
    BY <1>1, <2>2 DEF HandInv
  <2>4. ASSUME NEW q \in Rows
        PROVE  RowInv(q)'
    <3>1. /\ Pending(q)' = Pending(q) /\ Mirroring(q)' = Mirroring(q) /\ Mirroring(q) \in 0..1
          /\ (OpenInv(q) => OpenInv(q)')
      BY <1>1, <2>2 DEF Pending, Mirroring, OpenInv
    <3> QED
      BY <1>1, <2>2, <3>1 DEF RowInv, CopiesInv
  <2> QED
    BY <2>3, <2>4 DEF DeliveryInv
<1>13. CASE Crash(Bot)
  <2>1. /\ proc'[Bot].at = "idle" /\ crashes' = crashes + 1 /\ batch' = {}
        /\ UNCHANGED <<sent, failed, withdrawn, mirrored, copies, inbox, snatched>>
    BY <1>1, <1>13, StaffMoves DEF Crash, rows, calls
  <2>2. lost' = IF proc[Bot].at \in {"mark", "settle"} /\ proc[Bot].good
                THEN [lost EXCEPT ![row] = lost[row] + 1] ELSE lost
    BY <1>13 DEF Crash
  <2>3. HandInv'
    BY <1>1, <2>1 DEF HandInv
  <2>4. ASSUME NEW q \in Rows
        PROVE  RowInv(q)'
    <3>1. /\ RowInv(q) /\ Pending(q)' = 0 /\ Mirroring(q)' = 0
          /\ lost'[q] = lost[q] + Pending(q) /\ Mirroring(q) \in 0..1 /\ Pending(q) \in 0..1
      BY <1>1, <2>1, <2>2 DEF Pending, Mirroring
    <3>2. OpenInv(q) => OpenInv(q)'
      BY <1>1, <2>1 DEF OpenInv
    <3> QED
      BY <1>1, <2>1, <3>1, <3>2 DEF RowInv, CopiesInv
  <2> QED
    BY <2>3, <2>4 DEF DeliveryInv
<1> QED
  BY <1>2, <1>3, <1>4, <1>5, <1>7, <1>8, <1>9, <1>10, <1>11, <1>12, <1>13

(* Every step keeps it.                                                    *)
LEMMA DeliveryStep ==
    TypeInv /\ DeliveryInv /\ [OutboxNext]_vars => DeliveryInv'
<1> SUFFICES ASSUME TypeInv, DeliveryInv, [OutboxNext]_vars
             PROVE  DeliveryInv'
  OBVIOUS
<1>1. Staff \subseteq Procs /\ Bot \in Procs
  BY StageFacts
<1>2. CASE StillRows
  BY <1>2, StillKeeps
<1>3. CASE ~StillRows
  BY <1>1, <1>3, StillSteps, StaffKeepsDelivery, JobKeepsDelivery
     DEF OutboxNext, StaffStep, JobStep
<1> QED
  BY <1>2, <1>3

(* Before the first step nothing is delivered.                             *)
LEMMA DeliveryStart == OutboxInit => DeliveryInv
<1> SUFFICES ASSUME OutboxInit
             PROVE  DeliveryInv
  OBVIOUS
<1>1. proc[Bot].at = "idle"
  BY StageFacts DEF OutboxInit, Idle
<1>2. HandInv
  BY <1>1 DEF OutboxInit, HandInv, Delivering
<1>3. ASSUME NEW r \in Rows
      PROVE  RowInv(r)
  <2>1. copies[r] = 0 /\ lost[r] = 0 /\ inbox[r] = 0 /\ crashes = 0
    BY DEF OutboxInit
  <2>2. Pending(r) = 0 /\ Mirroring(r) = 0
    BY <1>1 DEF Pending, Mirroring
  <2>3. OpenInv(r)
    BY <1>1 DEF OutboxInit, OpenInv, Delivering
  <2> QED
    BY <2>1, <2>2, <2>3 DEF RowInv, CopiesInv
<1> QED
  BY <1>2, <1>3 DEF DeliveryInv

(* A message is repeated only after a delivery that nobody could record,   *)
(* or when its row was withdrawn with the job about to send it, and the    *)
(* inbox gets it once but for a crash, however many rows and staff there   *)
(* are and however their cancels, rollbacks and retries overlap with the   *)
(* job and with each other.                                                *)
THEOREM SentOnce == OutboxSpec => []DeliveredOnce
<1>1. TypeInv /\ DeliveryInv => DeliveredOnce
  <2> SUFFICES ASSUME TypeInv, DeliveryInv, NEW r \in Rows
               PROVE  /\ copies[r] <= 1 + lost[r] \/ r \in snatched
                      /\ inbox[r] <= 1 + crashes
    BY DEF DeliveredOnce
  <2>1. RowInv(r) /\ Mirroring(r) \in 0..1 /\ inbox[r] \in Nat /\ crashes \in Nat
    BY DEF DeliveryInv, Mirroring, TypeInv, OutboxTypeOK
  <2> QED
    BY <2>1 DEF RowInv, CopiesInv
<1> QED
  BY <1>1, TypeStart, TypeStep, DeliveryStart, DeliveryStep, PTL DEF OutboxSpec

-----------------------------------------------------------------------------
(* The status of the campaign is written by few steps.                     *)
LEMMA StatusWrites ==
    ASSUME TypeInv, [OutboxNext]_vars, camp' # camp
    PROVE  \/ \E c \in Staff : Create(c) \/ SetCancelled(c) \/ Restatus(c) \/ Recount(c)
           \/ \E x \in Procs : Close(x)
           \/ Record
<1>1. ASSUME NEW c \in Procs,
             \/ Insert(c) \/ Audit(c) \/ Cancel(c) \/ Withdraw(c) \/ Confirm(c) \/ Restore(c)
             \/ Retry(c) \/ Requeue(c) \/ View(c) \/ Look(c) \/ Count(c) \/ Crash(c)
      PROVE  camp' = camp
  BY <1>1 DEF Insert, Audit, Cancel, Withdraw, Confirm, Restore, Retry, Requeue, View, Look, Count,
     Crash
<1>2. ASSUME \/ \E p \in Plain : Put(p) \/ Wake(p)
             \/ TimeComes \/ Read \/ UNCHANGED vars
             \/ \E r \in Rows : Take(r)
             \/ Mirror \/ MarkMirrored \/ MarkRow \/ Settle
      PROVE  camp' = camp
  BY <1>2 DEF Put, Wake, TimeComes, Read, vars, Take, Mirror, MarkMirrored, MarkRow, Settle
<1>3. ASSUME Send \/ \E kind \in Failures \cup {"ok"} : Post(kind)
      PROVE  camp' = camp
  BY <1>3 DEF Send, Post, Delivered
<1>4. Staff \subseteq Procs /\ Bot \in Procs
  BY StageFacts
<1> QED
  BY <1>1, <1>2, <1>3, <1>4 DEF OutboxNext, StaffStep, JobStep

(* A step that lets nothing new run on: rows come into the job's hand only *)
(* when they are open, and are opened only by being inserted or by being   *)
(* spared; nothing is withdrawn, and no refresh goes on under a cancelled  *)
(* campaign that was not under way.                                        *)
Refreshing(x) == proc[x].at \in {"count", "close"}

NothingNew ==
    /\ made \subseteq made' /\ withdrawn' \subseteq withdrawn /\ spared \subseteq spared'
    /\ InHand' \subseteq InHand \cup Open(Recipients)
    /\ Open(Recipients)' \subseteq Open(Recipients) \cup (Recipients \ made) \cup spared'
    /\ camp'.st = "cancelled" =>
          camp.st = "cancelled" /\ \A x \in Procs : Refreshing(x)' => Refreshing(x)

LEMMA NothingNewKeeps ==
    ASSUME SparedInv, NothingNew
    PROVE  SparedInv'
<1>1. withdrawn' \subseteq made'
  BY DEF SparedInv, NothingNew
<1>2. ASSUME camp'.st = "cancelled"
      PROVE  /\ InHand' \subseteq spared' /\ Open(Recipients)' \subseteq spared'
             /\ Recipients \ made' \subseteq spared'
             /\ \A x \in Procs : Refreshing(x)' => x \in spared'
  BY <1>2 DEF SparedInv, NothingNew, Refreshing
<1>3. ASSUME NEW r \in withdrawn', r \in InHand' \/ r \in Open(Recipients)'
      PROVE  r \in spared'
  BY <1>3 DEF SparedInv, NothingNew
<1> QED
  BY <1>1, <1>2, <1>3 DEF SparedInv, Refreshing

(* What staff do is such a step, except to withdraw rows and to set the    *)
(* status to cancelled.                                                    *)
LEMMA StaffNothingNew ==
    ASSUME TypeInv, NEW c \in Staff,
           \/ Create(c) \/ Insert(c) \/ Audit(c) \/ Cancel(c) \/ Confirm(c) \/ Restore(c)
           \/ Restatus(c) \/ Retry(c) \/ Requeue(c) \/ Recount(c) \/ View(c)
    PROVE  NothingNew
<1>1. /\ OutboxTypeOK /\ c \in Procs /\ Bot \in Procs /\ Bot # c /\ Place(c) /\ camp \in Campaign
      /\ withdrawn \subseteq Recipients /\ failed \subseteq Recipients
  BY StageFacts DEF TypeInv, OutboxTypeOK
<1>2. Others(c) /\ ~Refreshing(c)'
  BY <1>1, StaffMoves, ChangeMoves DEF To, Refreshing
<1>3. InHand' = InHand
  <2>1. proc'[Bot] = proc[Bot]
    BY <1>1, <1>2 DEF Others
  <2>2. batch' = batch
    BY DEF Create, Insert, Audit, Cancel, Confirm, Restore, Restatus, Retry, Requeue, Recount, View
  <2> QED
    BY <2>1, <2>2 DEF InHand, row
<1>4. \A x \in Procs : Refreshing(x)' => Refreshing(x)
  BY <1>2 DEF Others, Refreshing
<1>5. camp'.st = "cancelled" => camp.st = "cancelled"
  <2>1. CASE Restatus(c)
    BY <1>1, <2>1 DEF Restatus, At, Place, Campaign
  <2>2. CASE ~Restatus(c)
    BY <1>1, <2>2 DEF Create, Insert, Audit, Cancel, Confirm, Restore, Retry, Requeue, Recount,
       View, Campaign
  <2> QED
    BY <2>1, <2>2
<1>6. /\ made \subseteq made' /\ withdrawn' \subseteq withdrawn /\ spared \subseteq spared'
      /\ Open(Recipients)' \subseteq Open(Recipients) \cup (Recipients \ made) \cup spared'
  <2>1. CASE Insert(c)
    BY <2>1 DEF Insert, Open, history, calls
  <2>2. CASE Restore(c)
    BY <2>2 DEF Restore, Open
  <2>3. CASE Requeue(c)
    BY <2>3 DEF Requeue, Open
  <2>4. CASE ~Insert(c) /\ ~Restore(c) /\ ~Requeue(c)
    BY <2>4 DEF Create, Audit, Cancel, Confirm, Restatus, Retry, Recount, View, Open,
       rows, history, calls
  <2> QED
    BY <2>1, <2>2, <2>3, <2>4
<1> QED
  BY <1>3, <1>4, <1>5, <1>6 DEF NothingNew

(* So is everything the job does, a refresh and a crash.                   *)
LEMMA OthersNothingNew ==
    ASSUME TypeInv,
           \/ JobStep \/ Read \/ TimeComes \/ UNCHANGED vars
           \/ \E p \in Plain : Put(p) \/ Wake(p)
           \/ \E x \in Procs : Look(x) \/ Count(x) \/ Close(x) \/ Crash(x)
    PROVE  NothingNew
<1>1. /\ OutboxTypeOK /\ Bot \in Procs /\ Place(Bot) /\ camp \in Campaign
      /\ row = proc[Bot].row /\ row' = proc'[Bot].row
  BY StageFacts DEF TypeInv, OutboxTypeOK, row
<1>2. ASSUME UNCHANGED <<withdrawn, spared>>, made \subseteq made', sent \subseteq sent',
             made' \cap Recipients = made \cap Recipients, camp' = camp,
             InHand' \subseteq InHand \cup Open(Recipients),
             \A x \in Procs : Refreshing(x)' => Refreshing(x)
      PROVE  NothingNew
  BY <1>2 DEF NothingNew, Open
<1> USE DEF Refreshing
<1>3. ASSUME \/ TimeComes \/ UNCHANGED vars
             \/ \E p \in Plain : Put(p) \/ Wake(p)
      PROVE  NothingNew
  <2>1. UNCHANGED <<withdrawn, spared, sent, camp, proc, batch>> /\ made \subseteq made'
    BY <1>3 DEF TimeComes, vars, Put, Wake, rows, history, calls
  <2>2. made' \cap Recipients = made \cap Recipients
    BY <1>3, RowFacts DEF TimeComes, vars, Put, Wake, rows
  <2>3. InHand' = InHand
    BY <2>1 DEF InHand, row
  <2> QED
    BY <1>2, <2>1, <2>2, <2>3
<1>4. CASE Read
  <2>1. /\ UNCHANGED <<withdrawn, spared, sent, camp, proc, made>>
        /\ batch' \subseteq Open(Plain) \cup Open(Recipients)
    BY <1>4 DEF Read, Ready, rows, history, calls
  <2>2. InHand' \subseteq InHand \cup Open(Recipients)
    BY <2>1, RowFacts DEF InHand, row, Open
  <2> QED
    BY <1>2, <2>1, <2>2
<1>5. ASSUME NEW r \in Rows, Take(r)
      PROVE  NothingNew
  <2>1. /\ UNCHANGED <<withdrawn, spared, sent, camp, made>> /\ batch' = batch \ {r} /\ r \in batch
    BY <1>5 DEF Take, rows, history, calls
  <2>2. Others(Bot) /\ proc'[Bot].row = r /\ ~Refreshing(Bot)'
    BY <1>1, <1>5, <2>1, JobMoves DEF To
  <2>3. InHand' \subseteq InHand
    BY <1>1, <2>1, <2>2 DEF InHand
  <2> QED
    BY <1>2, <2>1, <2>2, <2>3 DEF Others
<1>6. ASSUME Mirror \/ MarkMirrored \/ Send \/ MarkRow
      PROVE  NothingNew
  <2>1. UNCHANGED <<withdrawn, spared, camp, made, batch>> /\ sent \subseteq sent'
    BY <1>6 DEF Mirror, MarkMirrored, Send, MarkRow, Delivered, rows, history, calls
  <2>2. /\ Others(Bot) /\ proc'[Bot].row = row /\ ~Refreshing(Bot)'
        /\ proc[Bot].at \in {"mirror", "mirrored", "send", "mark"}
    BY <1>1, <1>6, JobMoves DEF To, Same, At, Mirror, MarkMirrored, Send, MarkRow
  <2>3. InHand' \subseteq InHand
    BY <1>1, <2>1, <2>2 DEF InHand
  <2> QED
    BY <1>2, <2>1, <2>2, <2>3 DEF Others
<1>7. CASE Record
  <2>1. UNCHANGED <<withdrawn, spared, made, sent, batch>> /\ camp'.st = "running"
    BY <1>1, <1>7 DEF Record, Campaign, rows, history, calls
  <2>2. To(Bot, "look")
    BY <1>1, <1>7, JobMoves
  <2>3. InHand' \subseteq InHand
    BY <1>1, <2>1, <2>2 DEF InHand, To
  <2> QED
    BY <2>1, <2>3 DEF NothingNew, Open
<1>8. ASSUME Settle \/ \E kind \in Failures \cup {"ok"} : Post(kind)
      PROVE  NothingNew
  <2>1. UNCHANGED <<withdrawn, spared, camp, made, batch>> /\ sent \subseteq sent'
    BY <1>8 DEF Settle, Post, Delivered, rows, history, calls
  <2>2. To(Bot, "idle") \/ To(Bot, "settle")
    BY <1>1, <1>8, JobMoves
  <2>3. InHand' \subseteq InHand /\ ~Refreshing(Bot)'
    BY <1>1, <2>1, <2>2 DEF InHand, To
  <2> QED
    BY <1>2, <2>1, <2>2, <2>3 DEF Others, To
<1>9. ASSUME NEW x \in Procs, Look(x) \/ Count(x) \/ Close(x) \/ Crash(x)
      PROVE  NothingNew
  <2>1. /\ UNCHANGED <<withdrawn, spared, made, sent>> /\ batch' \subseteq batch
        /\ Look(x) \/ Count(x) \/ Crash(x) => camp' = camp
    BY <1>9 DEF Look, Count, Close, Crash, rows, history, calls
  <2>2. /\ Others(x) /\ proc'[x].at \in {"idle", "count", "close"}
        /\ camp'.st = "cancelled" /\ ~Close(x) => (Refreshing(x)' => Refreshing(x))
    BY <1>1, <1>9, <2>1, StaffMoves, LookTo DEF To, Ended, Count, At
  <2>3. Close(x) => camp'.st # "cancelled"
    BY <1>1 DEF Close, At, TypeInv, Place, Campaign
  <2>4. InHand' \subseteq InHand
    BY <1>1, <2>1, <2>2 DEF InHand, Others
  <2> QED
    BY <1>9, <2>1, <2>2, <2>3, <2>4 DEF NothingNew, Open, Others
<1> QED
  BY <1>1, <1>3, <1>4, <1>5, <1>6, <1>7, <1>8, <1>9 DEF JobStep

(* A withdrawal leaves no row open, and spares those the job has in hand;  *)
(* the new status spares all the rest.                                     *)
LEMMA CancelSpares ==
    ASSUME TypeInv, SparedInv, NEW c \in Staff, Withdraw(c) \/ SetCancelled(c)
    PROVE  SparedInv'
<1>1. /\ OutboxTypeOK /\ c \in Procs /\ Bot \in Procs /\ Bot # c
      /\ Open(Recipients) \cap Procs = {}
  BY StageFacts, NoRowIsAProcess, RowFacts DEF TypeInv, Open
<1>2. Others(c) /\ ~Refreshing(c)' /\ batch' = batch
  BY <1>1, StaffMoves, ChangeMoves DEF To, Refreshing, Withdraw, SetCancelled
<1>3. InHand' = InHand
  BY <1>1, <1>2 DEF Others, InHand, row
<1>4. \A x \in Procs : Refreshing(x)' => Refreshing(x)
  BY <1>2 DEF Others, Refreshing
<1>5. CASE Withdraw(c)
  <2>1. /\ UNCHANGED <<camp, made>> /\ sent' = sent \cup Open(Recipients)
        /\ withdrawn' = withdrawn \cup Open(Recipients)
        /\ spared' = (spared \ Open(Recipients)) \cup InHand
    BY <1>5 DEF Withdraw
  <2>2. Open(Recipients)' = {} /\ Open(Recipients) \subseteq made
    BY <2>1 DEF Open
  <2> QED
    BY <1>1, <1>3, <1>4, <2>1, <2>2 DEF SparedInv, Refreshing
<1>6. CASE SetCancelled(c)
  <2>1. /\ UNCHANGED <<made, sent, withdrawn>>
        /\ spared' = spared \cup InHand \cup (Recipients \ made) \cup Open(Recipients)
                            \cup {x \in Procs : Refreshing(x)}
    BY <1>6 DEF SetCancelled, rows, Refreshing
  <2>2. Open(Recipients)' = Open(Recipients)
    BY <2>1 DEF Open
  <2> QED
    BY <1>3, <1>4, <2>1, <2>2 DEF SparedInv, Refreshing
<1> QED
  BY <1>5, <1>6

(* Every step keeps it,                                                    *)
LEMMA SparedStep == TypeInv /\ SparedInv /\ [OutboxNext]_vars => SparedInv'
<1>1. Staff \subseteq Procs /\ Bot \in Procs
  BY StageFacts
<1> QED
  BY <1>1, NothingNewKeeps, StaffNothingNew, OthersNothingNew, CancelSpares DEF OutboxNext, StaffStep

(* and nothing is cancelled at the start.                                  *)
LEMMA SparedStart == OutboxInit => SparedInv
  BY DEF OutboxInit, SparedInv

(* What the invariant says of a step: only what the cancel has spared      *)
(* writes the status of a cancelled campaign or delivers a withdrawn row.  *)
LEMMA OnlySpared ==
    ASSUME TypeInv, SparedInv, [OutboxNext]_vars
    PROVE  /\ camp.st = "cancelled" /\ camp'.st # "cancelled" =>
                 \/ \E c \in Staff : proc[c].at \in {"restatus", "recount"} /\ proc'[c] = Idle
                 \/ At(Bot, "record") /\ row \in spared
                 \/ \E x \in spared \cap Procs : At(x, "close")
           /\ \A r \in withdrawn : copies'[r] = copies[r] \/ r \in spared
<1>1. /\ OutboxTypeOK /\ Bot \in Procs /\ Place(Bot) /\ row = proc[Bot].row /\ camp \in Campaign
      /\ Staff \subseteq Procs /\ withdrawn \subseteq Recipients /\ copies \in [Rows -> Nat]
  BY StageFacts DEF TypeInv, OutboxTypeOK, row
<1>2. ASSUME camp.st = "cancelled", camp'.st # "cancelled"
      PROVE  \/ \E c \in Staff : proc[c].at \in {"restatus", "recount"} /\ proc'[c] = Idle
             \/ At(Bot, "record") /\ row \in spared
             \/ \E x \in spared \cap Procs : At(x, "close")
  <2>1. ASSUME NEW c \in Staff
        PROVE  ~Create(c) /\ ~SetCancelled(c)
    BY <1>1, <1>2 DEF Create, SetCancelled, Campaign
  <2>2. ASSUME NEW c \in Staff, Restatus(c) \/ Recount(c)
        PROVE  proc[c].at \in {"restatus", "recount"} /\ proc'[c] = Idle
    BY <1>1, <2>2, StaffMoves DEF Restatus, Recount, At
  <2>3. ASSUME NEW x \in Procs, Close(x)
        PROVE  x \in spared /\ At(x, "close")
    BY <1>2, <2>3 DEF Close, At, SparedInv
  <2>4. ASSUME Record
        PROVE  At(Bot, "record") /\ row \in spared
    <3>1. At(Bot, "record") /\ row \in InHand
      BY <1>1, <2>4 DEF Record, At, Place, InHand
    <3> QED
      BY <1>2, <3>1 DEF SparedInv
  <2> QED
    BY <1>2, <2>1, <2>2, <2>3, <2>4, StatusWrites
<1>3. ASSUME NEW r \in withdrawn, copies'[r] # copies[r]
      PROVE  r \in spared
  <2>1. Send \/ \E kind \in Failures \cup {"ok"} : Post(kind)
    <3>1. \A x \in Procs : Look(x) \/ Count(x) \/ Close(x) \/ Crash(x) => copies' = copies
      BY DEF Look, Count, Close, Crash, history
    <3>2. ASSUME NEW c \in Staff, StaffStep(c) \/ Create(c) \/ Cancel(c) \/ Retry(c) \/ View(c)
          PROVE  copies' = copies
      <4>1. \/ Create(c) \/ Insert(c) \/ Audit(c) \/ Cancel(c) \/ Confirm(c) \/ Retry(c) \/ View(c)
            => copies' = copies
        BY DEF Create, Insert, Audit, Cancel, Confirm, Retry, View, history
      <4>2. Withdraw(c) \/ SetCancelled(c) \/ Restore(c) \/ Restatus(c) \/ Requeue(c) \/ Recount(c)
            => copies' = copies
        BY DEF Withdraw, SetCancelled, Restore, Restatus, Requeue, Recount
      <4> QED
        BY <1>1, <3>1, <3>2, <4>1, <4>2 DEF StaffStep
    <3>3. \/ TimeComes \/ Read \/ UNCHANGED vars
          \/ \E p \in Plain : Put(p) \/ Wake(p)
          => copies' = copies
      BY DEF TimeComes, Read, Put, Wake, vars, history
    <3>4. \/ \E q \in Rows : Take(q)
          \/ Mirror \/ MarkMirrored \/ MarkRow \/ Record \/ Settle
          => copies' = copies
      BY DEF Take, Mirror, MarkMirrored, MarkRow, Record, Settle, history
    <3> QED
      BY <1>1, <1>3, <3>1, <3>2, <3>3, <3>4 DEF OutboxNext, JobStep
  <2>2. r = row
    <3>1. ASSUME NEW k, NEW j, Delivered(k, j), r # row
          PROVE  copies'[r] = copies[r]
      BY <1>1, <3>1, RowFacts DEF Delivered
    <3> QED
      BY <1>3, <2>1, <3>1 DEF Send, Post
  <2>3. row \in Recipients /\ ~At(Bot, "post")
    BY <1>1, <1>3, <2>2, RowFacts DEF At, Place
  <2>4. At(Bot, "send")
    BY <2>1, <2>3 DEF Send, Post
  <2>5. r \in InHand
    BY <1>1, <2>2, <2>3, <2>4 DEF At, InHand
  <2> QED
    BY <1>3, <2>5 DEF SparedInv
<1> QED
  BY <1>2, <1>3

(* A cancel is kept against all that begins after it: what sets a          *)
(* cancelled campaign back, or delivers a withdrawn row, was under way     *)
(* then, and is one of the three things that a cancel does not stop, or a  *)
(* rollback or a retry.                                                    *)
THEOREM CancelIsKept == OutboxSpec => CancelledStays
<1>1. TypeInv /\ SparedInv /\ [OutboxNext]_vars =>
         [/\ camp.st = "cancelled" /\ camp'.st # "cancelled" =>
               \/ \E c \in Staff : proc[c].at \in {"restatus", "recount"} /\ proc'[c] = Idle
               \/ At(Bot, "record") /\ row \in spared
               \/ \E x \in spared \cap Procs : At(x, "close")
          /\ \A r \in withdrawn : copies'[r] = copies[r] \/ r \in spared]_vars
  BY OnlySpared
<1> QED
  BY <1>1, TypeStart, TypeStep, SparedStart, SparedStep, PTL DEF OutboxSpec, CancelledStays

-----------------------------------------------------------------------------
(* Sets of recipients can be counted.                                      *)
LEMMA Finite ==
    ASSUME OutboxTypeOK
    PROVE  /\ IsFiniteSet(failed) /\ IsFiniteSet(withdrawn) /\ IsFiniteSet(Good)
           /\ Cardinality(failed) \in Nat /\ Cardinality(withdrawn) \in Nat /\ Cardinality(Good) \in Nat
  BY RowFacts, FS_Subset, FS_CardinalityType DEF OutboxTypeOK, Good

(* The steps that write neither the marks of the rows nor the counters.    *)
Uncounted ==
    \/ \E c \in Staff :
          \/ Create(c) \/ Insert(c) \/ Audit(c) \/ Cancel(c) \/ SetCancelled(c) \/ Confirm(c)
          \/ Restatus(c) \/ Retry(c) \/ View(c)
    \/ \E x \in Procs : Look(x) \/ Count(x) \/ Close(x)
    \/ \E p \in Plain : Put(p) \/ Wake(p)
    \/ TimeComes \/ Read \/ UNCHANGED vars
    \/ \E r \in Rows : Take(r)
    \/ Mirror \/ MarkMirrored \/ Send
    \/ \E kind \in Failures \cup {"ok"} : Post(kind)

(* They leave everything the counters are about as it is.                  *)
LEMMA UncountedFrame ==
    ASSUME TypeInv, Uncounted
    PROVE  /\ UNCHANGED <<sent, failed, withdrawn, crashes>>
           /\ camp'.ok = camp.ok /\ camp'.bad = camp.bad
           /\ OkPending' = OkPending /\ BadPending' = BadPending
           /\ (proc[Bot].at = "record" <=> proc'[Bot].at = "record")
<1>1. /\ OutboxTypeOK /\ Staff \subseteq Procs /\ Bot \in Procs /\ Bot \notin Staff
      /\ camp \in Campaign
  BY StageFacts DEF TypeInv, OutboxTypeOK
<1>2. ASSUME \/ proc'[Bot] = proc[Bot]
             \/ proc[Bot].at # "record" /\ proc'[Bot].at # "record"
      PROVE  /\ OkPending' = OkPending /\ BadPending' = BadPending
             /\ (proc[Bot].at = "record" <=> proc'[Bot].at = "record")
  BY <1>2 DEF OkPending, BadPending
<1>3. ASSUME NEW c \in Staff,
             \/ Create(c) \/ Insert(c) \/ Audit(c) \/ Cancel(c) \/ SetCancelled(c) \/ Confirm(c)
             \/ Restatus(c) \/ Retry(c) \/ View(c)
      PROVE  /\ proc'[Bot] = proc[Bot]
             /\ UNCHANGED <<sent, failed, withdrawn, crashes>>
             /\ camp'.ok = camp.ok /\ camp'.bad = camp.bad
  <2>1. Others(c)
    BY <1>1, <1>3, StaffMoves, ChangeMoves DEF To
  <2>2. UNCHANGED <<sent, failed, withdrawn, crashes>>
    BY <1>3 DEF Create, Insert, Audit, Cancel, SetCancelled, Confirm, Restatus, Retry, View,
       rows, history, calls
  <2>3. camp'.ok = camp.ok /\ camp'.bad = camp.bad
    BY <1>1, <1>3 DEF Create, Insert, Audit, Cancel, SetCancelled, Confirm, Restatus, Retry, View,
       Campaign
  <2> QED
    BY <1>1, <2>1, <2>2, <2>3 DEF Others
<1>4. ASSUME NEW x \in Procs, Look(x) \/ Count(x) \/ Close(x)
      PROVE  /\ \/ proc'[Bot] = proc[Bot]
                \/ proc[Bot].at # "record" /\ proc'[Bot].at # "record"
             /\ UNCHANGED <<sent, failed, withdrawn, crashes>>
             /\ camp'.ok = camp.ok /\ camp'.bad = camp.bad
  <2>1. To(x, "idle") \/ To(x, "count") \/ To(x, "close")
    BY <1>1, <1>4, StaffMoves, LookTo
  <2>2. UNCHANGED <<sent, failed, withdrawn, crashes>> /\ proc[x].at # "record"
    BY <1>4 DEF Look, Count, Close, At, rows, history, calls
  <2>3. camp'.ok = camp.ok /\ camp'.bad = camp.bad
    BY <1>1, <1>4 DEF Look, Count, Close, Campaign
  <2> QED
    BY <1>1, <2>1, <2>2, <2>3 DEF To, Others
<1>5. ASSUME \/ \E p \in Plain : Put(p) \/ Wake(p)
             \/ TimeComes \/ Read \/ UNCHANGED vars
      PROVE  UNCHANGED <<proc, sent, failed, withdrawn, crashes, camp>>
  BY <1>5 DEF Put, Wake, TimeComes, Read, vars, rows, history, calls
<1>6. ASSUME \/ \E r \in Rows : Take(r)
             \/ Mirror \/ MarkMirrored
      PROVE  /\ proc[Bot].at # "record" /\ proc'[Bot].at # "record"
             /\ UNCHANGED <<sent, failed, withdrawn, crashes, camp>>
  <2>1. /\ proc[Bot].at # "record"
        /\ UNCHANGED <<sent, failed, withdrawn, crashes, camp>>
    BY <1>6 DEF Take, Mirror, MarkMirrored, At, rows, history, calls
  <2>2. To(Bot, "post") \/ To(Bot, "send") \/ To(Bot, "mirror") \/ To(Bot, "mirrored")
    <3>1. ASSUME NEW r \in Rows, Take(r)
          PROVE  To(Bot, "post") \/ To(Bot, "send") \/ To(Bot, "mirror")
      <4>1. r \in batch
        BY <3>1 DEF Take
      <4> QED
        BY <1>1, <3>1, <4>1, JobMoves
    <3> QED
      BY <1>1, <1>6, <3>1, JobMoves
  <2> QED
    BY <2>1, <2>2 DEF To
<1>7. ASSUME Send \/ \E kind \in Failures \cup {"ok"} : Post(kind)
      PROVE  /\ proc[Bot].at # "record" /\ proc'[Bot].at # "record"
             /\ UNCHANGED <<sent, failed, withdrawn, crashes, camp>>
  <2>1. /\ proc[Bot].at # "record"
        /\ UNCHANGED <<sent, failed, withdrawn, crashes, camp>>
    <3>1. proc[Bot].at # "record"
      BY <1>7 DEF Send, Post, At
    <3>2. ASSUME NEW k, NEW j, Delivered(k, j)
          PROVE  UNCHANGED <<sent, failed, withdrawn, crashes, camp>>
      BY <3>2 DEF Delivered, rows
    <3> QED
      BY <1>7, <3>1, <3>2 DEF Send, Post
  <2>2. To(Bot, "mark") \/ To(Bot, "settle")
    BY <1>1, <1>7, JobMoves
  <2> QED
    BY <2>1, <2>2 DEF To
<1> QED
  BY <1>2, <1>3, <1>4, <1>5, <1>6, <1>7 DEF Uncounted

(* The other steps are the changes, and the end of a delivery.             *)
LEMMA CountedSteps ==
    ASSUME TypeInv, OutboxNext
    PROVE  \/ Uncounted
           \/ \E c \in Staff : Withdraw(c) \/ Restore(c) \/ Requeue(c) \/ Recount(c)
           \/ MarkRow \/ Record \/ Settle
           \/ \E x \in Procs : Crash(x)
<1>1. Staff \subseteq Procs /\ Bot \in Procs
  BY StageFacts
<1> QED
  BY <1>1 DEF OutboxNext, StaffStep, JobStep, Uncounted

(* The histories only grow.                                                *)
LEMMA SnatchedStay ==
    ASSUME TypeInv, [OutboxNext]_vars
    PROVE  snatched \subseteq snatched' /\ (overtaken => overtaken')
<1>1. ASSUME NEW c \in Staff,
             StaffStep(c) \/ Create(c) \/ Cancel(c) \/ Retry(c) \/ View(c)
      PROVE  snatched \subseteq snatched' /\ (overtaken => overtaken')
  <2>1. \/ Create(c) \/ Insert(c) \/ Audit(c) \/ Cancel(c) \/ Confirm(c) \/ Retry(c) \/ View(c)
        \/ Look(c) \/ Count(c) \/ Close(c)
        => UNCHANGED calls
    BY DEF Create, Insert, Audit, Cancel, Confirm, Retry, View, Look, Count, Close, history
  <2>2. \/ Withdraw(c) \/ SetCancelled(c) \/ Restore(c) \/ Restatus(c) \/ Requeue(c) \/ Recount(c)
        => snatched \subseteq snatched' /\ (overtaken => overtaken')
    <3>1. Withdraw(c) \/ SetCancelled(c) =>
             snatched \subseteq snatched' /\ overtaken' = overtaken
      BY DEF Withdraw, SetCancelled
    <3>2. Restore(c) \/ Restatus(c) \/ Requeue(c) \/ Recount(c) => snatched' = snatched
      BY DEF Restore, Restatus, Requeue, Recount
    <3>3. Restore(c) \/ Restatus(c) \/ Requeue(c) \/ Recount(c) => (overtaken => overtaken')
      BY Zenon DEF Restore, Restatus, Requeue, Recount
    <3> QED
      BY <3>1, <3>2, <3>3
  <2> QED
    BY <1>1, <2>1, <2>2 DEF StaffStep, calls
<1>2. ASSUME \/ TimeComes \/ Read \/ JobStep \/ UNCHANGED vars
             \/ \E p \in Plain : Put(p) \/ Wake(p)
             \/ \E x \in Procs : Crash(x)
      PROVE  UNCHANGED calls
  <2>1. JobStep => UNCHANGED calls
    <3>1. Look(Bot) \/ Count(Bot) \/ Close(Bot) => UNCHANGED calls
      BY DEF Look, Count, Close, history
    <3>2. \/ \E q \in Rows : Take(q)
          \/ Mirror \/ MarkMirrored \/ MarkRow \/ Record \/ Settle
          => UNCHANGED calls
      BY DEF Take, Mirror, MarkMirrored, MarkRow, Record, Settle, history
    <3>3. Send \/ (\E kind \in Failures \cup {"ok"} : Post(kind)) => UNCHANGED calls
      BY DEF Send, Post, Delivered
    <3> QED
      BY <3>1, <3>2, <3>3 DEF JobStep
  <2> QED
    BY <1>2, <2>1 DEF TimeComes, Read, Put, Wake, Crash, vars, history
<1> QED
  BY <1>1, <1>2 DEF OutboxNext, calls

(* Every step keeps the count of the successes: the mark of a row makes    *)
(* one pending, the record counts it, and a crash between the two loses    *)
(* it.                                                                     *)
LEMMA GoodStep ==
    TypeInv /\ DeliveryInv /\ GoodInv /\ [OutboxNext]_vars => GoodInv'
<1> SUFFICES ASSUME TypeInv, DeliveryInv, GoodInv, [OutboxNext]_vars, snatched' = {}
             PROVE  GoodInv'
  BY DEF GoodInv
<1>0. snatched = {}
  BY SnatchedStay
<1>1. /\ OutboxTypeOK /\ Staff \subseteq Procs /\ Bot \in Procs /\ Bot \notin Staff
      /\ camp \in Campaign /\ camp.ok \in Nat /\ crashes \in Nat
      /\ \A r \in Rows : OpenInv(r)
      /\ Cardinality(Good) \in Nat /\ IsFiniteSet(Good) /\ row \in Rows
      /\ OkPending \in 0..1
  BY <1>0, StageFacts, Finite
     DEF TypeInv, OutboxTypeOK, DeliveryInv, RowInv, Campaign, OkPending, row, Process
<1>2. ASSUME Good' = Good, camp'.ok = camp.ok, OkPending' = OkPending, crashes' = crashes
      PROVE  GoodInv'
  BY <1>0, <1>2 DEF GoodInv
<1>3. CASE Uncounted
  <2>1. Good' = Good
    BY <1>3, UncountedFrame DEF Good
  <2> QED
    BY <1>2, <1>3, <2>1, UncountedFrame
<1>4. ASSUME NEW c \in Staff, Withdraw(c) \/ Restore(c) \/ Requeue(c) \/ Recount(c)
      PROVE  GoodInv'
  <2>1. proc'[Bot] = proc[Bot]
    BY <1>1, <1>4, StaffMoves, ChangeMoves DEF To, Others
  <2>2. OkPending' = OkPending
    BY <2>1 DEF OkPending
  <2>3. Good' = Good
    <3>1. CASE Withdraw(c)
      BY <3>1 DEF Withdraw, Good, Open
    <3>2. CASE Restore(c)
      BY <3>2 DEF Restore, Good
    <3>3. CASE Requeue(c)
      BY <3>3 DEF Requeue, Good
    <3>4. CASE Recount(c)
      BY <3>4 DEF Recount, Good, rows
    <3> QED
      BY <1>4, <3>1, <3>2, <3>3, <3>4
  <2>4. camp'.ok = camp.ok /\ crashes' = crashes
    BY <1>1, <1>4 DEF Withdraw, Restore, Requeue, Recount, Campaign, history, calls
  <2> QED
    BY <1>2, <2>2, <2>3, <2>4
<1>5. CASE Settle
  <2>1. row \in Plain /\ proc[Bot].at # "record" /\ proc'[Bot].at # "record"
    BY <1>1, <1>5, JobMoves DEF Settle, At, TypeInv, Place, row, To
  <2>2. /\ UNCHANGED <<failed, withdrawn, crashes, camp>>
        /\ sent' = sent \/ sent' = sent \cup {row}
    BY <1>5 DEF Settle, history, calls
  <2>3. Good' = Good
    BY <2>1, <2>2, RowFacts DEF Good
  <2>4. OkPending' = OkPending
    BY <2>1 DEF OkPending
  <2> QED
    BY <1>2, <2>2, <2>3, <2>4
<1>6. CASE MarkRow
  <2>1. /\ proc[Bot].at = "mark" /\ proc'[Bot].at = "record" /\ proc'[Bot].good = proc[Bot].good
        /\ row \in Recipients /\ row \notin sent
        /\ UNCHANGED <<withdrawn, crashes, camp>> /\ sent' = sent \cup {row}
    BY <1>1, <1>6, JobMoves DEF MarkRow, At, TypeInv, Place, row, To, Same, history, calls,
       OpenInv, Delivering
  <2>2. row \notin failed /\ row \notin withdrawn /\ row \notin Good /\ OkPending = 0
    BY <1>1, <2>1 DEF OpenInv, Good, OkPending
  <2>3. CASE proc[Bot].good
    <3>1. Good' = Good \cup {row} /\ OkPending' = 1
      BY <1>6, <2>1, <2>2, <2>3 DEF MarkRow, Good, OkPending
    <3>2. Cardinality(Good') = Cardinality(Good) + 1
      BY <1>1, <2>2, <3>1, FS_AddElement
    <3> QED
      BY <1>1, <1>0, <2>1, <2>2, <3>1, <3>2 DEF GoodInv
  <2>4. CASE ~proc[Bot].good
    <3>1. Good' = Good /\ OkPending' = 0
      BY <1>6, <2>1, <2>2, <2>4 DEF MarkRow, Good, OkPending
    <3> QED
      BY <1>2, <2>1, <2>2, <3>1
  <2> QED
    BY <2>3, <2>4
<1>7. CASE Record
  <2>1. /\ proc[Bot].at = "record" /\ proc'[Bot].at = "look"
        /\ UNCHANGED <<sent, failed, withdrawn, crashes>>
    BY <1>1, <1>7, JobMoves DEF Record, At, To, rows, history, calls
  <2>2. Good' = Good /\ OkPending' = 0
    BY <2>1 DEF Good, OkPending
  <2>3. camp'.ok = camp.ok + OkPending
    BY <1>1, <1>7, <2>1 DEF Record, OkPending, Campaign
  <2> QED
    BY <1>0, <1>1, <2>1, <2>2, <2>3 DEF GoodInv
<1>8. ASSUME NEW x \in Procs, Crash(x)
      PROVE  GoodInv'
  <2>1. To(x, "idle") /\ ~proc'[x].good /\ UNCHANGED <<sent, failed, withdrawn, camp>>
        /\ crashes' = crashes + 1
    BY <1>1, <1>8, StaffMoves DEF Crash, rows
  <2>2. Good' = Good
    BY <2>1 DEF Good
  <2>3. OkPending' = OkPending \/ OkPending' = 0
    BY <1>1, <2>1 DEF To, Others, OkPending
  <2> QED
    BY <1>0, <1>1, <2>1, <2>2, <2>3 DEF GoodInv
<1>9. UNCHANGED vars => Uncounted
  BY DEF Uncounted
<1> QED
  BY <1>3, <1>4, <1>5, <1>6, <1>7, <1>8, <1>9, CountedSteps

(* What a member of staff can do.                                          *)
StaffActs(c) == Create(c) \/ Cancel(c) \/ Retry(c) \/ View(c) \/ StaffStep(c) \/ Crash(c)

(* A step of staff changes the record of the one that takes it alone.      *)
LEMMA OnlyItself ==
    ASSUME TypeInv, [OutboxNext]_vars
    PROVE  /\ \A c \in Staff : ~StaffActs(c) => proc'[c] = proc[c]
           /\ \A c \in Staff : StaffActs(c) => Others(c)
<1>1. /\ OutboxTypeOK /\ Staff \subseteq Procs /\ Bot \in Procs /\ Bot \notin Staff
  BY StageFacts DEF TypeInv
<1>2. ASSUME NEW c \in Staff, StaffActs(c)
      PROVE  Others(c)
  BY <1>1, <1>2, StaffMoves, ChangeMoves, LookTo DEF StaffActs, StaffStep, To
<1>3. JobStep \/ Crash(Bot) => Others(Bot)
  <2>1. \A r \in Rows : Take(r) => Others(Bot)
    BY <1>1, JobMoves DEF To, Take
  <2> QED
    BY <1>1, <2>1, JobMoves, StaffMoves, LookTo DEF JobStep, To
<1>4. ASSUME \/ TimeComes \/ Read \/ UNCHANGED vars
             \/ \E p \in Plain : Put(p) \/ Wake(p)
      PROVE  proc' = proc
  BY <1>4 DEF TimeComes, Read, Put, Wake, vars
<1>5. \/ \E c \in Staff : StaffActs(c)
      \/ JobStep \/ Crash(Bot)
      \/ TimeComes \/ Read \/ UNCHANGED vars
      \/ \E p \in Plain : Put(p) \/ Wake(p)
  BY DEF OutboxNext, StaffActs, Procs
<1> QED
  BY <1>1, <1>2, <1>3, <1>4, <1>5 DEF Others

(* Crashes are never forgotten.                                            *)
LEMMA NoCrash ==
    ASSUME TypeInv, [OutboxNext]_vars, crashes' = 0
    PROVE  crashes = 0 /\ \A x \in Procs : ~Crash(x)
<1>1. crashes \in Nat /\ Staff \subseteq Procs /\ Bot \in Procs
  BY StageFacts DEF TypeInv, OutboxTypeOK
<1>2. \A x \in Procs : ~Crash(x)
  BY <1>1 DEF Crash
<1>3. ASSUME NEW c \in Staff, Withdraw(c) \/ Restore(c) \/ Requeue(c) \/ Recount(c)
      PROVE  crashes' = crashes
  BY <1>3 DEF Withdraw, Restore, Requeue, Recount, history
<1>4. MarkRow \/ Record \/ Settle => crashes' = crashes
  BY DEF MarkRow, Record, Settle, history
<1>5. crashes' = crashes
  BY <1>2, <1>3, <1>4, CountedSteps, UncountedFrame DEF vars, history
<1> QED
  BY <1>2, <1>5

(* Only a retry comes to its recount, only a withdrawal to the new status, *)
(* only a rollback to its second half; and nobody else's step ends them.   *)
LEMMA StagesStay ==
    ASSUME TypeInv, [OutboxNext]_vars, NEW c \in Staff, ~Crash(c)
    PROVE  /\ ~Requeue(c) /\ ~Recount(c) /\ (At(c, "recount") \/ At(c, "recount")') =>
                 proc'[c] = proc[c]
           /\ ~Withdraw(c) /\ At(c, "cancel")' => proc'[c] = proc[c]
           /\ ~Restatus(c) /\ At(c, "restatus") => proc'[c] = proc[c]
<1>1. OutboxTypeOK /\ c \in Procs
  BY StageFacts DEF TypeInv
<1>2. CASE ~StaffActs(c)
  BY <1>2, OnlyItself
<1>3. CASE StaffActs(c)
  <2>1. /\ ~Requeue(c) /\ ~Recount(c) => proc'[c].at # "recount"
        /\ ~Withdraw(c) => proc'[c].at # "cancel"
    BY <1>1, <1>3, StaffMoves, ChangeMoves, LookTo DEF StaffActs, StaffStep, To
  <2>2. /\ ~Recount(c) => proc[c].at # "recount"
        /\ ~Restatus(c) => proc[c].at # "restatus"
    BY <1>3 DEF StaffActs, StaffStep, At, Create, Cancel, Retry, View, Insert, Audit, Withdraw,
       SetCancelled, Confirm, Restore, Restatus, Requeue, Recount, Look, Count, Close, Crash
  <2> QED
    BY <2>1, <2>2 DEF At
<1> QED
  BY <1>2, <1>3

(* Every step keeps the count of the failures: a retry takes off what it   *)
(* has counted, which is what it has reopened unless it was overtaken.     *)
LEMMA FailStep ==
    TypeInv /\ DeliveryInv /\ FailInv /\ [OutboxNext]_vars => FailInv'
<1> SUFFICES ASSUME TypeInv, DeliveryInv, FailInv, [OutboxNext]_vars,
                    snatched' = {}, crashes' = 0, ~overtaken'
             PROVE  FailInv'
  BY DEF FailInv
<1>1. /\ OutboxTypeOK /\ Staff \subseteq Procs /\ Bot \in Procs /\ Bot \notin Staff
      /\ camp \in Campaign /\ camp.bad \in Int /\ Cardinality(failed) \in Nat
      /\ IsFiniteSet(failed) /\ row \in Rows /\ BadPending \in 0..1
      /\ \A c \in Staff : proc[c].n \in Nat
      /\ crashes = 0 /\ snatched = {} /\ ~overtaken /\ \A x \in Procs : ~Crash(x)
  BY StageFacts, Finite, NoCrash, SnatchedStay
     DEF TypeInv, OutboxTypeOK, Campaign, BadPending, row, Process
<1>2. /\ (\A c \in Staff : ~At(c, "recount")) => camp.bad + BadPending = Cardinality(failed)
      /\ \A c \in Staff : At(c, "recount") =>
            /\ camp.bad + BadPending = Cardinality(failed) + proc[c].n
            /\ \A d \in Staff : At(d, "recount") => d = c
      /\ \A r \in Rows : OpenInv(r)
  BY <1>1 DEF FailInv, DeliveryInv, RowInv
<1> DEFINE Owed == camp.bad + BadPending - Cardinality(failed)
           NoRetry == \A c \in Staff : ~Requeue(c) /\ ~Recount(c)
<1>3. ASSUME NoRetry,
             camp'.bad \in Int, BadPending' \in Int, Cardinality(failed') \in Int,
             camp'.bad + BadPending' - Cardinality(failed') = Owed
      PROVE  FailInv'
  <2>1. \A c \in Staff : At(c, "recount") \/ At(c, "recount")' => proc'[c] = proc[c]
    BY <1>1, <1>3, StagesStay
  <2>2. \A c \in Staff : /\ At(c, "recount")' <=> At(c, "recount")
                         /\ At(c, "recount") => proc'[c].n = proc[c].n
    BY <2>1 DEF At
  <2>3. /\ Owed = camp.bad + BadPending - Cardinality(failed) /\ Owed \in Int
        /\ camp'.bad + BadPending' = Cardinality(failed') + Owed
    BY <1>1, <1>3
  <2> HIDE DEF Owed
  <2>4. ASSUME \A c \in Staff : ~At(c, "recount")'
        PROVE  camp'.bad + BadPending' = Cardinality(failed')
    <3>1. camp.bad + BadPending = Cardinality(failed)
      BY <1>2, <2>2, <2>4
    <3>2. Owed = 0
      BY <1>1, <2>3, <3>1
    <3> QED
      BY <1>3, <2>3, <3>2
  <2>5. ASSUME NEW c \in Staff, At(c, "recount")'
        PROVE  /\ camp'.bad + BadPending' = Cardinality(failed') + proc'[c].n
               /\ \A d \in Staff : At(d, "recount")' => d = c
    <3>1. /\ camp.bad + BadPending = Cardinality(failed) + proc[c].n
          /\ proc'[c].n = proc[c].n /\ \A d \in Staff : At(d, "recount")' => d = c
      BY <1>2, <2>2, <2>5
    <3>2. Owed = proc[c].n
      BY <1>1, <2>3, <3>1
    <3> QED
      BY <2>3, <3>1, <3>2
  <2> QED
    BY <2>4, <2>5 DEF FailInv
<1>4. CASE Uncounted /\ NoRetry
  <2>1. failed' = failed /\ camp'.bad = camp.bad /\ BadPending' = BadPending
    BY <1>4, UncountedFrame
  <2> QED
    BY <1>1, <1>3, <1>4, <2>1
<1>5. ASSUME NEW c \in Staff, Requeue(c)
      PROVE  FailInv'
  <2>1. /\ To(c, "recount") /\ proc'[c].n = proc[c].n /\ failed' = {} /\ camp' = camp
        /\ Cardinality(failed) = proc[c].n /\ \A d \in Staff : ~At(d, "recount")
    BY <1>1, <1>5, StaffMoves DEF Requeue, Same
  <2>2. BadPending' = BadPending /\ \A d \in Staff \ {c} : ~At(d, "recount")'
    BY <1>1, <2>1 DEF To, Others, BadPending, At
  <2>3. camp'.bad + BadPending' = Cardinality(failed') + proc'[c].n
    BY <1>1, <1>2, <2>1, <2>2, FS_EmptySet
  <2> QED
    BY <2>1, <2>2, <2>3 DEF FailInv, At, To
<1>6. ASSUME NEW c \in Staff, Recount(c)
      PROVE  FailInv'
  <2>1. /\ To(c, "idle") /\ At(c, "recount") /\ failed' = failed
        /\ camp'.bad = camp.bad - proc[c].n
    BY <1>1, <1>6, StaffMoves DEF Recount, rows, Campaign
  <2>2. BadPending' = BadPending /\ \A d \in Staff : ~At(d, "recount")'
    BY <1>1, <1>2, <2>1 DEF To, Others, BadPending, At
  <2>3. camp'.bad + BadPending' = Cardinality(failed')
    BY <1>1, <1>2, <2>1, <2>2
  <2> QED
    BY <2>2, <2>3 DEF FailInv
<1>7. ASSUME NEW c \in Staff, Withdraw(c) \/ Restore(c)
      PROVE  FailInv'
  <2>1. To(c, "cancel") \/ To(c, "restatus")
    BY <1>1, <1>7, StaffMoves, ChangeMoves
  <2>2. proc'[Bot] = proc[Bot] /\ failed' = failed /\ camp' = camp
    BY <1>1, <1>7, <2>1 DEF Withdraw, Restore, To, Others
  <2>3. \A d \in Staff : /\ At(d, "recount")' <=> At(d, "recount")
                         /\ At(d, "recount") => proc'[d] = proc[d]
    BY <1>1, <1>7, <2>1 DEF Withdraw, Restore, To, Others, At
  <2>4. BadPending' = BadPending
    BY <2>2 DEF BadPending
  <2> QED
    BY <1>2, <2>2, <2>3, <2>4 DEF FailInv
<1>8. CASE Settle /\ NoRetry
  <2>1. proc[Bot].at # "record" /\ proc'[Bot].at # "record" /\ UNCHANGED <<camp, failed>>
    BY <1>1, <1>8, JobMoves DEF Settle, At, To
  <2>2. BadPending' = BadPending
    BY <2>1 DEF BadPending
  <2> QED
    BY <1>1, <1>3, <1>8, <2>1, <2>2
<1>9. CASE MarkRow /\ NoRetry
  <2>1. /\ proc[Bot].at = "mark" /\ proc'[Bot].at = "record" /\ proc'[Bot].good = proc[Bot].good
        /\ camp' = camp /\ row \notin failed
    BY <1>1, <1>2, <1>9, JobMoves DEF MarkRow, At, To, Same, OpenInv, Delivering
  <2>2. CASE proc[Bot].good
    <3>1. failed' = failed /\ BadPending' = BadPending
      BY <1>9, <2>1, <2>2 DEF MarkRow, BadPending
    <3> QED
      BY <1>1, <1>3, <1>9, <2>1, <3>1
  <2>3. CASE ~proc[Bot].good
    <3>1. failed' = failed \cup {row} /\ BadPending = 0 /\ BadPending' = 1
      BY <1>9, <2>1, <2>3 DEF MarkRow, BadPending
    <3>2. Cardinality(failed') = Cardinality(failed) + 1
      BY <1>1, <2>1, <3>1, FS_AddElement
    <3> QED
      BY <1>1, <1>3, <1>9, <2>1, <3>1, <3>2
  <2> QED
    BY <2>2, <2>3
<1>10. CASE Record /\ NoRetry
  <2>1. /\ proc[Bot].at = "record" /\ proc'[Bot].at = "look" /\ failed' = failed
    BY <1>1, <1>10, JobMoves DEF Record, At, To, rows
  <2>2. BadPending' = 0 /\ camp'.bad = camp.bad + BadPending
    BY <1>1, <1>10, <2>1 DEF Record, BadPending, Campaign
  <2> QED
    BY <1>1, <1>3, <1>10, <2>1, <2>2
<1>11. UNCHANGED vars => Uncounted
  BY DEF Uncounted
<1>12. CASE NoRetry
  BY <1>1, <1>4, <1>7, <1>8, <1>9, <1>10, <1>11, <1>12, CountedSteps
<1> QED
  BY <1>5, <1>6, <1>12

(* The steps that are not staff's writes to the withdrawn rows, or to the  *)
(* counter of the skipped, leave both as they are.                         *)
LEMMA SkipFrame ==
    ASSUME TypeInv, [OutboxNext]_vars,
           \A c \in Staff : ~Withdraw(c) /\ ~SetCancelled(c) /\ ~Restore(c) /\ ~Restatus(c)
    PROVE  withdrawn' = withdrawn /\ camp'.skip = camp.skip
<1>1. camp \in Campaign /\ Staff \subseteq Procs /\ Bot \in Procs
  BY StageFacts DEF TypeInv, OutboxTypeOK
<1>2. camp'.skip = camp.skip
  <2>1. (\E c \in Staff : Create(c) \/ Recount(c)) \/ (\E x \in Procs : Close(x)) \/ Record
        => camp'.skip = camp.skip
    BY <1>1 DEF Create, Recount, Close, Record, Campaign
  <2> QED
    BY <2>1, StatusWrites
<1>3. withdrawn' = withdrawn
  <2>1. MarkRow \/ Record \/ Settle => withdrawn' = withdrawn
    BY DEF MarkRow, Record, Settle, rows
  <2>2. ASSUME NEW c \in Staff, Requeue(c) \/ Recount(c)
        PROVE  withdrawn' = withdrawn
    BY <2>2 DEF Requeue, Recount, rows
  <2>3. \A x \in Procs : Crash(x) => withdrawn' = withdrawn
    BY DEF Crash, rows
  <2>4. UNCHANGED vars => withdrawn' = withdrawn
    BY DEF vars, rows
  <2> QED
    BY <2>1, <2>2, <2>3, <2>4, CountedSteps, UncountedFrame
<1> QED
  BY <1>2, <1>3

(* Every step keeps the count of the skipped rows: what is counted has     *)
(* been withdrawn, and a rollback that reopens it sets the counter back.   *)
LEMMA SkipStep ==
    TypeInv /\ SkipInv /\ [OutboxNext]_vars => SkipInv'
<1> SUFFICES ASSUME TypeInv, SkipInv, [OutboxNext]_vars, crashes' = 0, ~overtaken'
             PROVE  SkipInv'
  BY DEF SkipInv
<1>1. /\ OutboxTypeOK /\ Staff \subseteq Procs /\ Bot \in Procs /\ camp \in Campaign
      /\ camp.skip \in Nat /\ Cardinality(withdrawn) \in Nat /\ IsFiniteSet(withdrawn)
      /\ \A c \in Staff : proc[c].n \in Nat
      /\ crashes = 0 /\ ~overtaken /\ \A x \in Procs : ~Crash(x)
  BY StageFacts, Finite, NoCrash, SnatchedStay DEF TypeInv, OutboxTypeOK, Campaign, Process
<1>2. /\ \A c \in Staff : At(c, "cancel") => proc[c].n <= Cardinality(withdrawn)
      /\ camp.skip <= Cardinality(withdrawn) \/ \E c \in Staff : At(c, "restatus")
  BY <1>1 DEF SkipInv
<1>3. ASSUME \A c \in Staff : ~Withdraw(c) /\ ~SetCancelled(c) /\ ~Restore(c) /\ ~Restatus(c)
      PROVE  SkipInv'
  <2>1. withdrawn' = withdrawn /\ camp'.skip = camp.skip
    BY <1>3, SkipFrame
  <2>2. \A c \in Staff : /\ At(c, "cancel")' => proc'[c] = proc[c]
                         /\ At(c, "restatus") => proc'[c] = proc[c]
    BY <1>1, <1>3, StagesStay
  <2> QED
    BY <1>2, <2>1, <2>2 DEF SkipInv, At
<1>4. ASSUME NEW c \in Staff, Withdraw(c)
      PROVE  SkipInv'
  <2>1. /\ withdrawn' = withdrawn \cup Open(Recipients) /\ camp' = camp
        /\ To(c, "cancel") /\ proc'[c].n = Cardinality(Open(Recipients)) /\ At(c, "withdraw")
    BY <1>1, <1>4, ChangeMoves DEF Withdraw
  <2>2. /\ IsFiniteSet(Open(Recipients)) /\ IsFiniteSet(withdrawn')
        /\ Cardinality(Open(Recipients)) <= Cardinality(withdrawn')
        /\ Cardinality(withdrawn) <= Cardinality(withdrawn')
        /\ Cardinality(withdrawn') \in Nat /\ Cardinality(Open(Recipients)) \in Nat
    <3>1. IsFiniteSet(Open(Recipients))
      BY RowFacts, FS_Subset DEF Open
    <3>2. IsFiniteSet(withdrawn')
      BY <1>1, <2>1, <3>1, FS_Union
    <3> QED
      BY <2>1, <3>1, <3>2, FS_Subset, FS_CardinalityType
  <2>3. \A d \in Staff : At(d, "cancel")' => proc'[d].n <= Cardinality(withdrawn')
    BY <1>1, <1>2, <2>1, <2>2 DEF To, Others, At
  <2>4. camp'.skip <= Cardinality(withdrawn') \/ \E d \in Staff : At(d, "restatus")'
    BY <1>1, <1>2, <2>1, <2>2 DEF To, Others, At
  <2> QED
    BY <2>3, <2>4 DEF SkipInv
<1>5. ASSUME NEW c \in Staff, SetCancelled(c)
      PROVE  SkipInv'
  <2>1. /\ withdrawn' = withdrawn /\ camp'.skip = proc[c].n /\ At(c, "cancel")
        /\ Others(c) /\ ~At(c, "cancel")'
    BY <1>1, <1>5, StaffMoves DEF SetCancelled, rows, Campaign, To, At
  <2> QED
    BY <1>1, <1>2, <2>1 DEF SkipInv, Others, At
<1>6. ASSUME NEW c \in Staff, Restore(c)
      PROVE  SkipInv'
  <2>1. To(c, "restatus") /\ \A d \in Staff : ~At(d, "cancel")
    BY <1>1, <1>6, StaffMoves DEF Restore
  <2> QED
    BY <1>1, <2>1 DEF SkipInv, To, Others, At
<1>7. ASSUME NEW c \in Staff, Restatus(c)
      PROVE  SkipInv'
  <2>1. /\ withdrawn' = withdrawn /\ camp'.skip = 0 /\ To(c, "idle")
    BY <1>1, <1>7, StaffMoves DEF Restatus, rows, Campaign
  <2> QED
    BY <1>1, <1>2, <2>1 DEF SkipInv, To, Others, At
<1> QED
  BY <1>3, <1>4, <1>5, <1>6, <1>7

(* All counts are zero at the start.                                       *)
LEMMA CountStart == OutboxInit => GoodInv /\ FailInv /\ SkipInv
<1> SUFFICES ASSUME OutboxInit
             PROVE  GoodInv /\ FailInv /\ SkipInv
  OBVIOUS
<1>1. /\ proc[Bot].at = "idle" /\ \A c \in Staff : proc[c].at = "idle"
      /\ failed = {} /\ withdrawn = {} /\ Good = {} /\ crashes = 0
      /\ camp = [st |-> "none", ok |-> 0, bad |-> 0, skip |-> 0]
  BY StageFacts DEF OutboxInit, Idle, Good
<1>2. Cardinality({}) = 0
  BY FS_EmptySet
<1>3. OkPending = 0 /\ BadPending = 0
  BY <1>1 DEF OkPending, BadPending
<1> QED
  BY <1>1, <1>2, <1>3 DEF GoodInv, FailInv, SkipInv, At

(* At rest nothing is pending and no change is half done.                  *)
LEMMA CountsFollow ==
    ASSUME TypeInv, GoodInv, FailInv, SkipInv
    PROVE  CountsAddUp
<1> SUFFICES ASSUME Resting, \A c \in Staff : At(c, "idle")
             PROVE  /\ snatched = {} =>
                          camp.ok <= Cardinality(Good) /\ Cardinality(Good) <= camp.ok + crashes
                    /\ snatched = {} /\ crashes = 0 /\ ~overtaken => camp.bad = Cardinality(failed)
                    /\ crashes = 0 /\ ~overtaken => camp.skip <= Cardinality(withdrawn)
  BY DEF CountsAddUp
<1>1. /\ camp.ok \in Nat /\ camp.bad \in Int /\ crashes \in Nat /\ Cardinality(Good) \in Nat
      /\ OkPending = 0 /\ BadPending = 0
  BY Finite DEF TypeInv, OutboxTypeOK, Campaign, Resting, At, OkPending, BadPending
<1>2. /\ \A c \in Staff : ~At(c, "recount") /\ ~At(c, "restatus")
  BY DEF At
<1> QED
  BY <1>1, <1>2 DEF GoodInv, FailInv, SkipInv

(* At rest the campaign's counters are those of its rows, for every        *)
(* campaign and however staff and the job overlap: the successes, less     *)
(* what crashes have lost, unless a row was withdrawn in the job's hand;   *)
(* without a crash the failures, and no more skipped rows than were        *)
(* withdrawn, unless a retry or a rollback was overtaken.                  *)
THEOREM CountsAreTrue == OutboxSpec => []CountsAddUp
  BY TypeStart, TypeStep, DeliveryStart, DeliveryStep, CountStart, GoodStep, FailStep, SkipStep,
     CountsFollow, PTL DEF OutboxSpec

=============================================================================
