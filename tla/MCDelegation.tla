----------------------------- MODULE MCDelegation -----------------------------
(***************************************************************************)
(* pkg/delegation in one run: the session queue, and the background tasks  *)
(* with two sizes of crew.  Queue and background tasks share no state;     *)
(* `part` says which is checked, the other stays where it begins.          *)
(*   "queue"    one agent with three tasks and a channel of two, so that   *)
(*              the channel is full, is drained, and is found empty while  *)
(*              another call is about to push;                             *)
(*   "workers"  background tasks with two workers and one turn;            *)
(*   "turns"    background tasks with one worker and two turns, and        *)
(*              confirm_task marking or not.                               *)
(***************************************************************************)
EXTENDS BackgroundTasks, SessionQueue

CONSTANTS t1, t2, w1, w2, d1, d2, a1, q1, q2, q3

TwoTasks == {t1, t2}
TwoWorkers == {w1, w2}
TwoTurns == {d1, d2}

OneAgent == {a1}
ThreeTasks == {q1, q2, q3}
AgentOfThree == [q \in ThreeTasks |-> a1]

VARIABLE part

DelegationInit == part \in {"queue", "workers", "turns"} /\ Init /\ QueueInit

ReadsWithoutMarking ==
  \E d \in Turns : turn[d].at = "idle" /\ turn'[d].at = "marking" /\ turn'[d].left = {}

\* Who does not take part; and of two that stand for each other, t1 is submitted
\* first, and d1 is the turn that begins while there is none.
Crew ==
  /\ part = "workers" => turn'[d2] = turn[d2] /\ ~ReadsWithoutMarking
  /\ part = "turns" => /\ worker'[w2] = worker[w2]
                       /\ faults' = 0
                       /\ submit'[t1] = "idle" => submit'[t2] = "idle"
                       /\ turn[d1].at = "idle" /\ turn[d2].at = "idle" => turn'[d2].at = "idle"

DelegationNext ==
  /\ UNCHANGED part
  /\ \/ part = "queue" /\ QueueNext /\ UNCHANGED vars
     \/ part # "queue" /\ Next /\ Crew /\ UNCHANGED queueVars

DelegationSpec ==
  DelegationInit /\ [][DelegationNext]_<<part, vars, queueVars>> /\ Fairness /\ QueueFairness

=============================================================================
