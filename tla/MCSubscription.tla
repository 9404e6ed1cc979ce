---------------------------- MODULE MCSubscription ----------------------------
(***************************************************************************)
(* The head of a family of two, and two users who compete for the seat.    *)
(***************************************************************************)
EXTENDS Subscription, TLC

CONSTANTS head, kid, pal, c1, c2, k1, k2, nobody

MCMay == {<<"pay", head>>, <<"grant", head>>, <<"overwrite", head>>, <<"revoke", head>>,
          <<"invite", head>>, <<"redeem", pal>>, <<"trial", kid>>, <<"remove", kid>>,
          <<"enrol", head>>, <<"enrol", kid>>}
MCChain == {<<"pay", head>>, <<"invite", head>>, <<"redeem", kid>>, <<"invite", kid>>, <<"redeem", pal>>,
            <<"revoke", head>>}
MCSymmetry == Permutations(Calls) \cup Permutations(Codes)
=============================================================================
