----------------------------- MODULE MCRingMatch -----------------------------
(***************************************************************************)
(* Two or three users; two of their searches at a time, and the sweep.     *)
(***************************************************************************)
EXTENDS RingMatch, TLC

CONSTANTS a, b, c, m1, m2, sweeper

\* a and b accept each other; c is acceptable to nobody, or to a as well.
Couple   == {{a, b}}
Triangle == {{a, b}, {a, c}}

\* How often each user starts a search.
Once  == [u \in Users |-> 1]
Twice == [u \in Users |-> 2]

MCSymmetry == Permutations({m1, m2})
=============================================================================
