--------------------------- MODULE SerialExecutor ---------------------------
(***************************************************************************)
(* What SessionQueue.Submit (pkg/delegation/queue.go) promises its callers:*)
(* per agent a bounded first-in-first-out queue whose tasks are executed   *)
(* one at a time, each answered once; a task is refused only when the      *)
(* queue of its agent is full.  No goroutine, lock or running flag here.   *)
(***************************************************************************)
EXTENDS Naturals, Sequences

CONSTANTS Agents, Tasks, AgentOf, Cap

VARIABLES
  queue,    \* accepted tasks of an agent, oldest first
  current,  \* the tasks of an agent being executed: none or one
  answer    \* "new" until the task is offered, then "open" until answered

vars == <<queue, current, answer>>

Init ==
  /\ queue = [a \in Agents |-> <<>>]
  /\ current = [a \in Agents |-> {}]
  /\ answer = [t \in Tasks |-> "new"]

Accept(t) ==
  /\ answer[t] = "new"
  /\ Len(queue[AgentOf[t]]) < Cap
  /\ queue' = [queue EXCEPT ![AgentOf[t]] = Append(@, t)]
  /\ answer' = [answer EXCEPT ![t] = "open"]
  /\ UNCHANGED current

Refuse(t) ==
  /\ answer[t] = "new"
  /\ Len(queue[AgentOf[t]]) = Cap
  /\ answer' = [answer EXCEPT ![t] = "full"]
  /\ UNCHANGED <<queue, current>>

Begin(a) ==
  /\ current[a] = {}
  /\ queue[a] # <<>>
  /\ current' = [current EXCEPT ![a] = {Head(queue[a])}]
  /\ queue' = [queue EXCEPT ![a] = Tail(@)]
  /\ UNCHANGED answer

End(a) ==
  \E t \in current[a] :
    /\ current' = [current EXCEPT ![a] = @ \ {t}]
    /\ answer' = [answer EXCEPT ![t] = "executed"]
    /\ UNCHANGED queue

Next ==
  \/ \E t \in Tasks : Accept(t) \/ Refuse(t)
  \/ \E a \in Agents : Begin(a) \/ End(a)

Spec == Init /\ [][Next]_vars

=============================================================================
