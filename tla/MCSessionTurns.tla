---------------------------- MODULE MCSessionTurns ----------------------------
(***************************************************************************)
(* A small instance of SessionTurns: two turns of users.                   *)
(***************************************************************************)
EXTENDS SessionTurns

CONSTANTS t1, t2

TwoTurns == {t1, t2}
BothUsers == {[t \in TwoTurns |-> "user"]}

=============================================================================
