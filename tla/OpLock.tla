-------------------------------- MODULE OpLock --------------------------------
(***************************************************************************)
(* op_claim and op_release of db/finance.py: one document of               *)
(* admin_op_locks per key, unique, with an expiry.  A claim inserts it or, *)
(* if that fails, takes an expired one over by a conditional update.       *)
(* MongoDB's TTL monitor deletes expired documents some time later.        *)
(*                                                                         *)
(* Two kinds of callers: the news run of bot.py releases its key when it   *)
(* is done, the grants of the panel keep theirs, so that a repeated click  *)
(* finds it until it expires.                                              *)
(***************************************************************************)
EXTENDS Naturals

CONSTANTS
    Workers, \* callers of one key
    Keepers, \* those that never release it
    TTL,     \* ttl_seconds
    MaxTime, \* bound: the last moment of the model
    Timely,  \* what a claim protects is over before the claim expires
    Degraded \* the database may fail, and op_claim then answers True

ASSUME LockAssumption ==
    /\ Keepers \subseteq Workers
    /\ TTL \in Nat \ {0} /\ MaxTime \in Nat
    /\ Timely \in BOOLEAN /\ Degraded \in BOOLEAN

VARIABLES
    lock,  \* expires_at of the key's document, 0 when there is none
    now,
    phase, \* phase[w]: "out", "taking" (insert failed), "in" (claimed)
    since  \* since[w]: when w's claim succeeded, 0 when it has none

lockVars == <<lock, now, phase, since>>

LockInit ==
    /\ lock = 0 /\ now = 1
    /\ phase = [w \in Workers |-> "out"]
    /\ since = [w \in Workers |-> 0]

Enters(w) ==
    /\ lock' = now + TTL
    /\ phase' = [phase EXCEPT ![w] = "in"]
    /\ since' = [since EXCEPT ![w] = now]
    /\ UNCHANGED now

(* insert_one: True, or the duplicate key of another claim; any other      *)
(* error lets the caller in as well (fail-open).                           *)
Claim(w) ==
    /\ phase[w] = "out"
    /\ \/ lock = 0 /\ Enters(w)
       \/ lock # 0 /\ phase' = [phase EXCEPT ![w] = "taking"] /\ UNCHANGED <<lock, now, since>>
       \/ /\ Degraded
          /\ phase' = [phase EXCEPT ![w] = "in"]
          /\ since' = [since EXCEPT ![w] = now]
          /\ UNCHANGED <<lock, now>>

(* Mutant: the takeover does not ask for an expired document.              *)
TakeOverAny(w) ==
    /\ phase[w] = "taking"
    /\ IF lock # 0
       THEN Enters(w)
       ELSE phase' = [phase EXCEPT ![w] = "out"] /\ UNCHANGED <<lock, now, since>>

(* update_one, conditional on the expiry; no match means: not mine.        *)
TakeOver(w) ==
    /\ phase[w] = "taking"
    /\ IF lock # 0 /\ lock <= now
       THEN Enters(w)
       ELSE phase' = [phase EXCEPT ![w] = "out"] /\ UNCHANGED <<lock, now, since>>

(* The work is done.  op_release deletes the key, whoever claimed it last. *)
Leave(w) ==
    /\ phase[w] = "in"
    /\ phase' = [phase EXCEPT ![w] = "out"]
    /\ since' = [since EXCEPT ![w] = 0]
    /\ lock' = IF w \in Keepers THEN lock ELSE 0
    /\ UNCHANGED now

(* The process dies with the claim; the document stays.                    *)
LockCrash(w) ==
    /\ phase[w] # "out"
    /\ phase' = [phase EXCEPT ![w] = "out"]
    /\ since' = [since EXCEPT ![w] = 0]
    /\ UNCHANGED <<lock, now>>

(* External: the TTL monitor.                                              *)
Expire ==
    /\ lock # 0 /\ lock <= now
    /\ lock' = 0
    /\ UNCHANGED <<now, phase, since>>

InTime == \A w \in Workers : phase[w] = "in" => now + 1 < since[w] + TTL

Tick ==
    /\ now < MaxTime /\ (Timely => InTime)
    /\ now' = now + 1
    /\ UNCHANGED <<lock, phase, since>>

LockNext ==
    \/ \E w \in Workers : Claim(w) \/ TakeOver(w) \/ Leave(w) \/ LockCrash(w)
    \/ Expire \/ Tick

LockSpec == LockInit /\ [][LockNext]_lockVars

-----------------------------------------------------------------------------
LockTypeOK ==
    /\ lock \in Nat /\ now \in Nat
    /\ phase \in [Workers -> {"out", "taking", "in"}]
    /\ since \in [Workers -> Nat]

(* Two runs behind one key never overlap: the news of the day is not sent  *)
(* by two of its three entrances at once, a grant is not made twice.       *)
Mutex == \A v, w \in Workers : phase[v] = "in" /\ phase[w] = "in" => v = w

(* The strengthening: who is in has a document that has not expired.       *)
Held == \A w \in Workers : phase[w] = "in" => now < since[w] + TTL /\ lock = since[w] + TTL

LockInv == LockTypeOK /\ Held /\ Mutex
=============================================================================
