------------------------- MODULE MCControlProcesses -------------------------
(***************************************************************************)
(* Small instances of ControlProcesses.                                    *)
(***************************************************************************)
EXTENDS ControlProcesses

Limits(f, w, e, b) ==
  [forks |-> f, writes |-> w, failures |-> e, browser |-> b, restart |-> FALSE]
\* A control server that is started again, any number of times.
Restarts(f, w) == [Limits(f, w, 0, FALSE) EXCEPT !.restart = TRUE]

\* One child that writes twice; two; three, one in each slot or one after another; a
\* start that fails; browsers that come and go; restarts.
MCEnvironments ==
  {Limits(1, 2, 0, FALSE), Limits(2, 1, 0, FALSE), Limits(3, 0, 0, FALSE), Limits(2, 0, 1, FALSE),
   Limits(2, 0, 0, TRUE), Restarts(2, 0), Restarts(1, 1)}
TwoExperiments == {Restarts(2, 0)}
TwoChildren == {Limits(2, 1, 0, FALSE)}
=============================================================================
