--------------------------- MODULE MCApprovalFlow ---------------------------
(***************************************************************************)
(* ApprovalFlow with a call in a turn of Run and one beside it.  `part`    *)
(* says which of two small cases is explored:                              *)
(*   "calls"     both calls, of tools that do not ask the shield           *)
(*               themselves, and one answer in the chat;                   *)
(*   "requests"  one call, which may lead to two requests, and two         *)
(*               answers; the other call has run before.                   *)
(***************************************************************************)
EXTENDS ApprovalFlow

CONSTANTS l1, d1

OneLoopCall == {l1}
OneDirectCall == {d1}
AllTexts == {"approve", "reject", "plain"}

VARIABLE part

PartInit == part \in {"calls", "requests"} /\ Init

Case ==
  /\ part = "calls" => check'[l1] \in {"none", "log"} /\ answers' <= 1
  /\ part = "requests" => /\ policy'[d1] # "block"
                          /\ loop' # "start" => check[d1] = "log"

PartNext == UNCHANGED part /\ Next /\ Case

PartSpec == PartInit /\ [][PartNext]_<<part, vars>> /\ Fairness

=============================================================================
