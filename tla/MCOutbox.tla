------------------------------- MODULE MCOutbox -------------------------------
(***************************************************************************)
(* A campaign of two recipients inserted one after the other, a row of its *)
(* own beside it, and one member of staff, whose cancels, rollbacks and    *)
(* retries run beside the job's deliveries.                                *)
(***************************************************************************)
EXTENDS Outbox

CONSTANTS a, b, note, s1, bot
=============================================================================
