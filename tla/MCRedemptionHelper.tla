------------------------- MODULE MCRedemptionHelper -------------------------
(* A small instance of RedemptionHelper. *)
EXTENDS RedemptionHelper

CONSTANTS default, custom

(* Redemptions and names have little to do with each other, so the one is explored
   with the other at rest: there are no redemptions where the reward is given a name
   other than the default. *)
MCNext ==
  Next /\ (redeemed' # 0 => flag = NoTitle /\ modTitle' = NoTitle /\ changes' + dashboard' = 0)

MCSpec == Init /\ [][MCNext]_vars /\ Fairness
=============================================================================
