------------------------------- MODULE MCIntc -------------------------------
(* Systems of a few pins for TLC: one controller with a level register,    *)
(* one with fast interrupts and a software interrupt, three in a chain.    *)
EXTENDS Intc

System(ctrls, ilr, fast, level, edge, soft) ==
  [ctrls |-> ctrls, ilr |-> ilr, fast |-> fast, level |-> level, edge |-> edge, soft |-> soft]
TheSystems ==
  {System(1, TRUE, FALSE, {1}, {0}, {}), System(1, FALSE, TRUE, {0}, {}, {1}),
   System(3, FALSE, FALSE, {0, 5}, {2}, {})}
=============================================================================
