---------------------------- MODULE LossCounter ----------------------------
(***************************************************************************)
(* What PortfolioManager promises of today's realised PnL: the total that  *)
(* gates opens is the sum of what was recorded, and a restart goes back to *)
(* a total that was once reached, never to a smaller or mixed one.         *)
(***************************************************************************)
EXTENDS Integers

CONSTANT Pnls                   \* what a close may realise

VARIABLES total,                \* the day's PnL as the bot knows it
          saved                 \* what a restart finds

Init == total = 0 /\ saved = 0

(* Every recorded trade enters the total once; saving it may fail. *)
Record == \E x \in Pnls : /\ total' = total + x
                          /\ saved' \in {saved, total'}

Save == saved' = total /\ UNCHANGED total

Crash == total' = saved /\ UNCHANGED saved

NewDay == total' = 0 /\ saved' = 0

Next == Record \/ Save \/ Crash \/ NewDay

Spec == Init /\ [][Next]_<<total, saved>>
=============================================================================
