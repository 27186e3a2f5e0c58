------------------------------- MODULE MCSession -------------------------------
(***************************************************************************)
(* One session: its turns, in two sizes, and its files.  `part` says which *)
(* is checked, the others stay where they begin.                           *)
(*   "tools"  two turns, the first of a user, the second of any kind, with *)
(*            one round of two tools in the first or one in the second;    *)
(*   "talk"   three turns of users who only talk or clear, one after       *)
(*            another, so that a compression lasts over several of them;   *)
(*   "files"  JSONLStore.                                                  *)
(***************************************************************************)
EXTENDS SessionTurns, JSONLStore

CONSTANTS t1, t2, t3

ThreeTurns == {t1, t2, t3}
UserFirst == {k \in [ThreeTurns -> {"user", "system", "direct"}] : \A t \in ThreeTurns \ {t2} : k[t] = "user"}

NoneAndTwo == {0, 2}

VARIABLE part

SessionInit ==
  /\ part \in {"tools", "talk", "files"}
  /\ Init /\ StoreInit
  /\ part # "tools" => kind[t2] = "user"
  /\ part = "files" => ~compactor

\* Users stand for each other, so that they come in one order.
Begun(t) == turn'[t].at # "waiting"

Size ==
  /\ kind[t2] = "user" /\ Begun(t2) => Begun(t1)
  /\ part = "tools" => ~Begun(t3) /\ turn'[t2].n <= 1
  /\ part = "talk" => /\ \A t \in Turns : turn'[t].at # "tools"
                      /\ faults' = 0
                      /\ Begun(t3) => Begun(t2)

SessionNext ==
  /\ UNCHANGED part
  /\ \/ part # "files" /\ Next /\ Size /\ UNCHANGED storeVars
     \/ part = "files" /\ StoreNext /\ UNCHANGED vars

SessionSpec == SessionInit /\ [][SessionNext]_<<part, vars, storeVars>>

=============================================================================
