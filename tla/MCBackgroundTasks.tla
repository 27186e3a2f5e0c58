------------------------- MODULE MCBackgroundTasks -------------------------
(***************************************************************************)
(* A small instance of BackgroundTasks: one worker, one turn, no crash.    *)
(***************************************************************************)
EXTENDS BackgroundTasks, TLC

CONSTANTS t1, t2, w1, d1

TwoTasks == {t1, t2}
OneWorker == {w1}
OneTurn == {d1}
OnlyMark == {TRUE}

Symmetry == Permutations(Tasks)

=============================================================================
