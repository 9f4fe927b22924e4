------------------------ MODULE MCForecastIsolation ------------------------
(***************************************************************************)
(* Instances of ForecastIsolation for TLC.                                 *)
(***************************************************************************)
EXTENDS ForecastIsolation, TLC

\* Forecasts alone, the degraded history alone, a little of both.
SmallBudgets ==
  {[runs |-> 4, calls |-> 0, faults |-> 0, airlines |-> 0],
   [runs |-> 2, calls |-> 0, faults |-> 1, airlines |-> 0],
   [runs |-> 1, calls |-> 0, faults |-> 0, airlines |-> 2],
   [runs |-> 0, calls |-> 3, faults |-> 1, airlines |-> 0],
   [runs |-> 1, calls |-> 1, faults |-> 0, airlines |-> 0]}

Symmetry == Permutations(Procs)

=============================================================================
