----------------------------- MODULE MCSpendRun -----------------------------
(***************************************************************************)
(* SpendRun with a balance of 0 or 1 diamond, up to three items of a kind, *)
(* and two pools, jobs, camps, tasks or boards: a pool whose ten pull (of  *)
(* two) costs what ten tickets do, and one that charges three.             *)
(***************************************************************************)
EXTENDS SpendRun

CONSTANT none

MCHeroPools ==
    {[single |-> 1, ten |-> 2, freeDue |-> FALSE, survivors |-> FALSE],
     [single |-> 2, ten |-> 3, freeDue |-> TRUE, survivors |-> FALSE]}

\* Units of 1 and of 2 iron, at 80%: the cost is rounded up.
MCUnitCosts == {1, 2}
MCCostRates == {8000}
=============================================================================
