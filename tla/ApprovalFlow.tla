---------------------------- MODULE ApprovalFlow ----------------------------
(***************************************************************************)
(* Approvals of guarded tool calls: shield.ApprovalManager                 *)
(* (pkg/shield/approval.go) between the goroutines of tool calls that ask  *)
(* and wait (pkg/agent/loop.go) and the answers of the user, which arrive  *)
(* through the inbound bus and the one goroutine of AgentLoop.Run, or      *)
(* through a caller of ProcessDirectWithChannel (the web chat) next to it. *)
(*                                                                         *)
(* A call meets the shield twice: runLLMIteration asks it about the call,  *)
(* and then the tool itself, if it is web_fetch or install_skill, about    *)
(* what it is going to do.  Either may lead to a request.                  *)
(*                                                                         *)
(* Time is the age of a request: fresh, expired (after ExpiresAt) or old   *)
(* (five minutes later).  Critical sections of m.mu are one step.          *)
(***************************************************************************)
EXTENDS Naturals, Sequences, FiniteSets

CONSTANTS
  LoopCalls,    \* tool calls of one model response in a turn of Run
  DirectCalls,  \* tool calls in turns of other goroutines
  Checked,      \* the calls of tools that ask the shield themselves
  Texts,        \* what users write: "approve" and "reject" with a command prefix, "plain" without
  MaxAnswers,   \* bound: answers sent through the bus
  MaxEnds       \* bound: turns whose context is cancelled and calls of Close

ASSUME BoundsAssumption ==
  /\ LoopCalls \cap DirectCalls = {} /\ Checked \subseteq LoopCalls \cup DirectCalls
  /\ Texts \subseteq {"approve", "reject", "plain"}
  /\ MaxAnswers \in Nat /\ MaxEnds \in Nat

Calls == LoopCalls \cup DirectCalls
Requests == Calls \X {"policy", "tool"}  \* the one of the shield switch and the tool's

\* ShieldAction.  Without a threat, or with an inactive shield, it is "log".
Actions == {"block", "require_approval", "log"}

VARIABLES
  policy,    \* what the shield said of a call, "none" before
  check,     \* what the tool's own check said, "none" before
  status,    \* m.requests: Status of a request, "none" when it is not in the map
  responses, \* requests with a channel in m.responses
  channel,   \* what the channel of a request (capacity 1) holds
  closed,    \* requests whose channel was closed
  age,
  waiter,    \* progress of a call's goroutine with a request: WaitForApproval
             \* ends as "approved" or "refused"
  loop,      \* AgentLoop.Run: "start" before the prompt, "turn" in it, "idle" after it
  inbox,     \* the inbound bus, for the session of the approvals
  verdict,   \* the first status other than pending a request was given
  answers, ends

vars == <<policy, check, status, responses, channel, closed, age, waiter, loop, inbox,
          verdict, answers, ends>>
shield == <<policy, check>>
manager == <<status, responses, channel, closed, verdict>>
users == <<loop, inbox, answers>>

Pending(r) == status[r] = "pending"

Init ==
  /\ policy = [c \in Calls |-> "none"]
  /\ check = [c \in Calls |-> "none"]
  /\ status = [r \in Requests |-> "none"]
  /\ responses = {}
  /\ channel = [r \in Requests |-> "empty"]
  /\ closed = {}
  /\ age = [r \in Requests |-> "fresh"]
  /\ waiter = [r \in Requests |-> "idle"]
  /\ loop = "start"
  /\ inbox = <<>>
  /\ verdict = [r \in Requests |-> "none"]
  /\ answers = 0
  /\ ends = 0

Move(r, from, to) ==
  /\ waiter[r] = from
  /\ waiter' = [waiter EXCEPT ![r] = to]

\* A request leaves "pending" for s, once.
Decide(r, s) ==
  /\ status' = [status EXCEPT ![r] = s]
  /\ verdict' = [verdict EXCEPT ![r] = s]

-----------------------------------------------------------------------------
(***************************************************************************)
(* A tool call in its goroutine                                            *)
(***************************************************************************)
BeginTurn ==
  /\ loop = "start"
  /\ loop' = "turn"
  /\ UNCHANGED <<shield, manager, age, waiter, inbox, answers, ends>>

Evaluate(c) ==
  /\ policy[c] = "none"
  /\ c \in LoopCalls => loop = "turn"
  /\ \E action \in Actions : policy' = [policy EXCEPT ![c] = action]
  /\ UNCHANGED <<check, manager, age, waiter, users, ends>>

\* Mutant of MayExecute: the early return of a refused call is missing.
MayAlwaysExecute(c) == policy[c] # "none"

\* The switch has a case for "block", which asks, and one for "log"; a call
\* that requires approval meets neither.
MayExecute(c) ==
  \/ policy[c] \in {"require_approval", "log"}
  \/ waiter[<<c, "policy">>] = "approved"

\* ExecuteWithContext: the tool runs, refuses, or returns RequiresApproval; only
\* web_fetch and install_skill look at the shield.
ExecuteTool(c) ==
  /\ MayExecute(c)
  /\ check[c] = "none"
  /\ \E action \in Actions : check' = [check EXCEPT ![c] = IF c \in Checked THEN action ELSE "log"]
  /\ UNCHANGED <<policy, manager, age, waiter, users, ends>>

\* The shield switch and runToolPendingApproval ask.
Asks(r) == IF r[2] = "policy" THEN policy[r[1]] = "block" ELSE check[r[1]] = "require_approval"

CreateRequest(r) ==
  /\ Asks(r)
  /\ Move(r, "idle", "created")
  /\ status' = [status EXCEPT ![r] = "pending"]
  /\ responses' = responses \cup {r}
  /\ UNCHANGED <<shield, channel, closed, verdict, age, users, ends>>

\* An approved tool runs again, under a context that skips its check.
Executed(c) == check[c] = "log" \/ waiter[<<c, "tool">>] = "approved"

Finished(c) ==
  \/ Executed(c) \/ check[c] = "block"
  \/ waiter[<<c, "policy">>] = "refused" \/ waiter[<<c, "tool">>] = "refused"

\* wg.Wait() returns, the turn ends, Run consumes again.
EndTurn ==
  /\ loop = "turn"
  /\ \A c \in LoopCalls : Finished(c)
  /\ loop' = "idle"
  /\ UNCHANGED <<shield, manager, age, waiter, inbox, answers, ends>>

-----------------------------------------------------------------------------
(***************************************************************************)
(* WaitForApproval                                                         *)
(***************************************************************************)
LookupChannel(r) ==
  /\ Move(r, "created", IF r \in responses THEN "has channel" ELSE "refused")
  /\ UNCHANGED <<shield, manager, age, users, ends>>

LookupRequest(r) ==
  /\ Move(r, "has channel", IF status[r] = "none" THEN "refused" ELSE "waiting")
  /\ UNCHANGED <<shield, manager, age, users, ends>>

\* Mutant of ReceiveResponse: any response lets the tool run.
ReceiveAnything(r) ==
  /\ channel[r] # "empty" \/ r \in closed
  /\ Move(r, "waiting", "approved")
  /\ channel' = [channel EXCEPT ![r] = "empty"]
  /\ UNCHANGED <<shield, status, responses, closed, verdict, age, users, ends>>

\* The select takes the response, or learns that the channel is closed.
ReceiveResponse(r) ==
  /\ channel[r] # "empty" \/ r \in closed
  /\ Move(r, "waiting", IF channel[r] = "true" THEN "approved" ELSE "refused")
  /\ channel' = [channel EXCEPT ![r] = "empty"]
  /\ UNCHANGED <<shield, status, responses, closed, verdict, age, users, ends>>

\* Mutant of TimerFires: the timer starts only with the first response.
TimerNever(r) ==
  /\ age[r] # "fresh"
  /\ channel[r] # "empty"
  /\ Move(r, "waiting", "timed out")
  /\ UNCHANGED <<shield, manager, age, users, ends>>

\* The select takes the timer, which it may do although a response is there.
TimerFires(r) ==
  /\ age[r] # "fresh"
  /\ Move(r, "waiting", "timed out")
  /\ UNCHANGED <<shield, manager, age, users, ends>>

\* Mutant of Expire: the status is overwritten whatever it became.
ExpireAlways(r) ==
  /\ Move(r, "timed out", "refused")
  /\ IF status[r] = "none" THEN UNCHANGED <<status, verdict>> ELSE Decide(r, "expired")
  /\ responses' = responses \ {r}
  /\ UNCHANGED <<shield, channel, closed, age, users, ends>>

Expire(r) ==
  /\ Move(r, "timed out", "refused")
  /\ IF Pending(r) THEN Decide(r, "expired") ELSE UNCHANGED <<status, verdict>>
  /\ responses' = responses \ {r}
  /\ UNCHANGED <<shield, channel, closed, age, users, ends>>

\* ctx.Done(): the waiter leaves, the request stays.
Cancelled(r) ==
  /\ ends < MaxEnds
  /\ ends' = ends + 1
  /\ Move(r, "waiting", "refused")
  /\ UNCHANGED <<shield, manager, age, users>>

-----------------------------------------------------------------------------
(***************************************************************************)
(* Answers                                                                 *)
(***************************************************************************)

\* Mutant of Respond: the status is left to the waiter.
RespondOnly(r, approve) ==
  IF Pending(r)
  THEN /\ channel' = IF r \in responses THEN [channel EXCEPT ![r] = IF approve THEN "true" ELSE "false"] ELSE channel
       /\ UNCHANGED <<status, responses, closed, verdict>>
  ELSE UNCHANGED manager

\* Approve(id) and Reject(id): false when the request is not pending, otherwise
\* the status is set and the response sent without blocking.
Respond(r, approve) ==
  IF Pending(r)
  THEN /\ Decide(r, IF approve THEN "approved" ELSE "rejected")
       /\ channel' = IF r \in responses /\ channel[r] = "empty"
                     THEN [channel EXCEPT ![r] = IF approve THEN "true" ELSE "false"] ELSE channel
       /\ UNCHANGED <<responses, closed>>
  ELSE UNCHANGED manager

\* The user read the request's id and answers in the chat.
SendAnswer(r) ==
  /\ waiter[r] # "idle"
  /\ answers < MaxAnswers
  /\ answers' = answers + 1
  /\ \E text \in Texts : inbox' = Append(inbox, [request |-> r, text |-> text])
  /\ UNCHANGED <<shield, manager, age, waiter, loop, ends>>

\* Run consumes the next message: handleCommand wants a command prefix, any
\* other text is a message for the model.
HandleAnswer ==
  /\ loop # "turn"
  /\ inbox # <<>>
  /\ inbox' = Tail(inbox)
  /\ LET m == Head(inbox) IN
       IF m.text = "plain" THEN UNCHANGED manager ELSE Respond(m.request, m.text = "approve")
  /\ UNCHANGED <<shield, age, waiter, loop, answers, ends>>

\* The same command through processMessage on another goroutine.
AnswerDirectly(r) ==
  /\ waiter[r] # "idle"
  /\ Pending(r)
  /\ \E approve \in BOOLEAN : Respond(r, approve)
  /\ UNCHANGED <<shield, age, waiter, users, ends>>

-----------------------------------------------------------------------------
\* One tick of cleanupExpired over the whole map.
Cleanup ==
  LET late == {r \in Requests : Pending(r) /\ age[r] # "fresh"}
      gone == {r \in Requests : age[r] = "old" /\ (status[r] # "pending" \/ r \in late)}
  IN
  /\ late \cup {r \in gone : status[r] # "none"} # {}
  /\ status' = [r \in Requests |-> IF r \in gone THEN "none" ELSE IF r \in late THEN "expired" ELSE status[r]]
  /\ verdict' = [r \in Requests |-> IF r \in late THEN "expired" ELSE verdict[r]]
  /\ closed' = closed \cup (late \cap responses)
  /\ responses' = responses \ late
  /\ UNCHANGED <<shield, channel, age, waiter, users, ends>>

\* Close: every channel is closed, both maps are emptied.
Close ==
  /\ ends < MaxEnds
  /\ ends' = ends + 1
  /\ closed' = closed \cup responses
  /\ responses' = {}
  /\ status' = [r \in Requests |-> "none"]
  /\ UNCHANGED <<shield, channel, verdict, age, waiter, users>>

GrowOld(r) ==
  /\ waiter[r] # "idle"
  /\ \/ age[r] = "fresh" /\ age' = [age EXCEPT ![r] = "expired"]
     \/ age[r] = "expired" /\ age' = [age EXCEPT ![r] = "old"]
  /\ UNCHANGED <<shield, manager, waiter, users, ends>>

Wait(r) ==
  \/ LookupChannel(r) \/ LookupRequest(r) \/ ReceiveResponse(r) \/ TimerFires(r) \/ Expire(r)
Run == BeginTurn \/ EndTurn \/ HandleAnswer

Call(c) == Evaluate(c) \/ ExecuteTool(c)

Next ==
  \/ \E c \in Calls : Call(c)
  \/ \E r \in Requests : CreateRequest(r) \/ Wait(r) \/ Cancelled(r) \/ GrowOld(r)
  \/ \E r \in Requests : SendAnswer(r) \/ AnswerDirectly(r)
  \/ Run \/ Cleanup \/ Close

Spec == Init /\ [][Next]_vars

\* Goroutines run and time passes; no fairness for users, cleanup or Close.
Fairness ==
  /\ \A c \in Calls : WF_vars(Call(c))
  /\ \A r \in Requests : WF_vars(CreateRequest(r)) /\ WF_vars(Wait(r)) /\ WF_vars(GrowOld(r))
  /\ WF_vars(Run)
FairSpec == Spec /\ Fairness

-----------------------------------------------------------------------------
Verdicts == {"approved", "rejected", "expired"}

TypeOK ==
  /\ {policy, check} \subseteq [Calls -> Actions \cup {"none"}]
  /\ status \in [Requests -> {"none", "pending"} \cup Verdicts]
  /\ responses \cap closed = {}
  /\ channel \in [Requests -> {"empty", "true", "false"}]
  /\ waiter \in [Requests -> {"idle", "created", "has channel", "waiting", "timed out", "approved", "refused"}]
  /\ loop \in {"start", "turn", "idle"}
  /\ verdict \in [Requests -> {"none"} \cup Verdicts]
  /\ \A r \in Requests : status[r] \in Verdicts => status[r] = verdict[r]
  /\ \A i \in DOMAIN inbox : inbox[i].request \in Requests

\* A tool that the shield blocks, or whose own check requires approval, runs
\* only after the request about it was approved, and the one about the other
\* does not stand for it, whatever timers, cleanup, Close and other answers do
\* meanwhile.  (What types.go and docs/README.md of the shield say is something
\* else: that "block" prevents the call, and "require_approval" asks.  The switch
\* asks for "block", and for "require_approval" nobody: RequireApprovalAsks.)
ExecutedWasApproved ==
  \A c \in Calls : Executed(c) =>
    /\ policy[c] = "block" => verdict[<<c, "policy">>] = "approved"
    /\ check[c] = "require_approval" => verdict[<<c, "tool">>] = "approved"

\* What pkg/shield/docs/README.md says of loop.go: "require_approval with user
\* interaction".  The switch has no case for it and the tool runs.
RequireApprovalAsks ==
  \A c \in Calls :
    policy[c] = "require_approval" /\ Executed(c) => \E r \in Requests : r[1] = c /\ verdict[r] = "approved"

\* The first verdict stands: an expired request is not approved later, an
\* approval is not turned into an expiry.
VerdictStands ==
  [][\A r \in Requests : verdict[r] # "none" => verdict'[r] = verdict[r]]_vars

\* Approve and Reject never meet a full or a closed channel, so no response is
\* dropped by their select and no send panics.
PendingChannelIsOpen ==
  \A r \in Requests : Pending(r) /\ r \in responses => channel[r] = "empty" /\ r \notin closed

\* The maps of the manager agree with each other in every state.
Consistent == TypeOK /\ PendingChannelIsOpen

\* Run waits for answers that only Run can deliver; the timer breaks the cycle:
\* every tool call gets past its approvals, and every message sent meanwhile is
\* handled.
NobodyWaitsForEver ==
  /\ \A c \in Calls : (policy[c] # "none") ~> Finished(c)
  /\ \A n \in 1 .. MaxAnswers : (Len(inbox) >= n) ~> (inbox = <<>>)

=============================================================================
