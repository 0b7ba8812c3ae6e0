--------------------------- MODULE MCDecisionChain --------------------------
(* Two rival bootstraps, a decision that follows the first of them, one    *)
(* that follows it in turn, and one with a predecessor from outside.       *)
EXTENDS DecisionChain, TLC

CONSTANTS boot, reboot, second, third, guest

Lineage ==
  second :> boot @@ third :> second @@ guest :> Seeded

Days ==
  Seeded :> 0 @@ boot :> 0 @@ reboot :> 0 @@ second :> 1 @@ guest :> 1 @@ third :> 2
=============================================================================
