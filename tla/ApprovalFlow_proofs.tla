------------------------- MODULE ApprovalFlow_proofs -------------------------
(***************************************************************************)
(* Proofs about ApprovalFlow: what the shield blocked, or a tool would not *)
(* do without approval, runs only if it was approved, and the first        *)
(* verdict stands, for any sets of calls and any number of answers,        *)
(* cancelled turns and calls of Close.                                     *)
(***************************************************************************)
EXTENDS ApprovalFlow, TLAPS

Message == [request : Requests, text : Texts]

Types ==
  /\ policy \in [Calls -> Actions \cup {"none"}] /\ check \in [Calls -> Actions \cup {"none"}]
  /\ status \in [Requests -> {"none", "pending"} \cup Verdicts]
  /\ responses \in SUBSET Requests /\ closed \in SUBSET Requests
  /\ channel \in [Requests -> {"empty", "true", "false"}]
  /\ waiter \in [Requests -> {"idle", "created", "has channel", "waiting", "timed out",
                              "approved", "refused"}]
  /\ loop \in {"start", "turn", "idle"}
  /\ verdict \in [Requests -> {"none"} \cup Verdicts]
  /\ inbox \in Seq(Message)

\* Status, verdict and channel of a request tell one story: a request that is
\* pending has had no verdict and nothing in its channel, what its channel held
\* is what the verdict says, and a call that has not asked has left no trace.
OneStory(r) ==
  /\ status[r] \in Verdicts => status[r] = verdict[r]
  /\ Pending(r) => verdict[r] = "none"
  /\ channel[r] # "empty" => verdict[r] # "none"
  /\ channel[r] = "true" => verdict[r] = "approved"
  /\ waiter[r] = "idle" => /\ status[r] = "none" /\ verdict[r] = "none"
                           /\ r \notin responses \cup closed
  /\ waiter[r] = "approved" => verdict[r] = "approved"
  /\ ~(r \in responses /\ r \in closed)

ApprovalInv == Types /\ \A r \in Requests : OneStory(r)

\* A call whose tool was started had got past the switch, and only a tool that
\* said it requires approval makes a request of its own.
CallStory(c) ==
  /\ check[c] # "none" => MayExecute(c)
  /\ waiter[<<c, "tool">>] # "idle" => check[c] = "require_approval"

CallsInv == \A c \in Calls : CallStory(c)

\* How the waiters move in a step: what is approved stays so, and who is idle
\* leaves only by asking.
Progress ==
  \A r \in Requests : /\ waiter[r] = "approved" => waiter'[r] = "approved"
                      /\ waiter[r] = "idle" /\ waiter'[r] # "idle" => Asks(r)

\* What a step may change in a request's verdict.
FirstStands == \A r \in Requests : verdict[r] # "none" => verdict'[r] = verdict[r]

-----------------------------------------------------------------------------
LEMMA InitEstablishes == Init => ApprovalInv /\ CallsInv
<1>1. Init => ApprovalInv
  BY DEF Init, ApprovalInv, Types, OneStory, Pending, Verdicts
<1>2. Init => CallsInv
  BY DEF Init, CallsInv, CallStory, Requests
<1> QED
  BY <1>1, <1>2

\* Sequences of one set.
LEMMA AppendKeeps ==
  ASSUME NEW S, NEW q \in Seq(S), NEW e \in S
  PROVE  Append(q, e) \in Seq(S)
OBVIOUS

LEMMA ElementIn ==
  ASSUME NEW S, NEW q \in Seq(S), NEW i \in DOMAIN q
  PROVE  q[i] \in S
OBVIOUS

LEMMA ConsistentInv == ApprovalInv => Consistent
<1> SUFFICES ASSUME ApprovalInv PROVE Consistent
  OBVIOUS
<1>1. responses \cap closed = {}
  BY DEF ApprovalInv, Types, OneStory
<1>2. \A i \in DOMAIN inbox : inbox[i].request \in Requests
  <2>1. inbox \in Seq(Message)
    BY DEF ApprovalInv, Types
  <2>2. \A i \in DOMAIN inbox : inbox[i] \in Message
    BY <2>1, ElementIn
  <2> QED
    BY <2>2 DEF Message
<1>3. TypeOK
  BY <1>1, <1>2 DEF ApprovalInv, Types, OneStory, TypeOK
<1>4. PendingChannelIsOpen
  BY DEF ApprovalInv, Types, OneStory, PendingChannelIsOpen
<1> QED
  BY <1>3, <1>4 DEF Consistent

\* An answer changes a pending request only, and leaves one verdict.
LEMMA RespondKeeps ==
  ASSUME ApprovalInv, NEW r \in Requests, waiter[r] # "idle" \/ ~Pending(r),
         NEW approve \in BOOLEAN, Respond(r, approve),
         UNCHANGED <<waiter, shield>>, loop' \in {"start", "turn", "idle"}, inbox' \in Seq(Message)
  PROVE  ApprovalInv' /\ FirstStands
<1> USE DEF ApprovalInv, Types, OneStory, Pending, Verdicts, FirstStands, shield
<1>1. CASE ~Pending(r)
  <2>1. UNCHANGED manager
    BY <1>1 DEF Respond
  <2> QED
    BY <2>1 DEF manager
<1>2. CASE Pending(r)
  <2> DEFINE s == IF approve THEN "approved" ELSE "rejected"
  <2>1. /\ status' = [status EXCEPT ![r] = s] /\ verdict' = [verdict EXCEPT ![r] = s]
        /\ responses' = responses /\ closed' = closed
    BY <1>2 DEF Respond, Decide
  <2>2. \/ channel' = channel
        \/ channel' = [channel EXCEPT ![r] = IF approve THEN "true" ELSE "false"]
    BY <1>2 DEF Respond
  <2>3. Types'
    BY <2>1, <2>2
  <2>4. ASSUME NEW x \in Requests, x # r PROVE OneStory(x)' /\ verdict'[x] = verdict[x]
    <3>1. status'[x] = status[x] /\ verdict'[x] = verdict[x] /\ channel'[x] = channel[x]
      BY <2>1, <2>2, <2>4
    <3> QED
      BY <2>1, <2>4, <3>1
  <2>5. OneStory(r)' /\ verdict[r] = "none"
    <3>1. status'[r] = s /\ verdict'[r] = s /\ verdict[r] = "none"
      BY <1>2, <2>1
    <3>2. channel'[r] \in {channel[r], IF approve THEN "true" ELSE "false"} /\ channel[r] = "empty"
      BY <1>2, <2>2, <3>1
    <3> QED
      BY <1>2, <2>1, <3>1, <3>2
  <2> HIDE DEF OneStory, Types, Pending, Verdicts
  <2>6. \A x \in Requests : OneStory(x)'
    BY <2>4, <2>5, Zenon
  <2>7. FirstStands
    BY <2>4, <2>5
  <2> QED
    BY <2>3, <2>6, <2>7, Zenon
<1> QED
  BY <1>1, <1>2

\* The steps of the goroutine of a guarded call.
LEMMA WaiterKeeps ==
  ASSUME ApprovalInv, NEW r \in Requests,
         CreateRequest(r) \/ Wait(r) \/ Cancelled(r) \/ GrowOld(r)
  PROVE  ApprovalInv' /\ FirstStands
<1> USE DEF ApprovalInv, Types, OneStory, Pending, Verdicts, FirstStands, manager, users, shield
<1>1. CASE CreateRequest(r)
  <2>1. /\ waiter[r] = "idle" /\ waiter' = [waiter EXCEPT ![r] = "created"]
        /\ status' = [status EXCEPT ![r] = "pending"] /\ responses' = responses \cup {r}
        /\ UNCHANGED <<channel, closed, verdict, loop, inbox, policy, check>>
    BY <1>1 DEF CreateRequest, Move
  <2>2. Types'
    BY <2>1
  <2>3. \A x \in Requests : OneStory(x)'
    BY <2>1
  <2>4. FirstStands
    BY <2>1
  <2> QED
    BY <2>2, <2>3, <2>4, Zenon
<1>2. CASE LookupChannel(r)
  BY <1>2 DEF LookupChannel, Move
<1>3. CASE LookupRequest(r)
  BY <1>3 DEF LookupRequest, Move
<1>4. CASE ReceiveResponse(r)
  <2>1. PICK to \in {"approved", "refused"} :
          /\ waiter' = [waiter EXCEPT ![r] = to] /\ waiter[r] = "waiting"
          /\ to = "approved" => channel[r] = "true"
    BY <1>4 DEF ReceiveResponse, Move
  <2>2. /\ channel' = [channel EXCEPT ![r] = "empty"]
        /\ UNCHANGED <<status, responses, closed, verdict, loop, inbox, policy, check>>
    BY <1>4 DEF ReceiveResponse
  <2>3. Types'
    BY <2>1, <2>2
  <2>4. ASSUME NEW x \in Requests PROVE OneStory(x)'
    <3>1. /\ waiter'[x] = IF x = r THEN to ELSE waiter[x]
          /\ channel'[x] = IF x = r THEN "empty" ELSE channel[x]
      BY <2>1, <2>2
    <3> HIDE DEF Types
    <3> QED
      BY <2>1, <2>2, <3>1
  <2>5. FirstStands
    BY <2>2
  <2> QED
    BY <2>3, <2>4, <2>5, Zenon
<1>5. CASE TimerFires(r)
  BY <1>5 DEF TimerFires, Move
<1>6. CASE Expire(r)
  <2>1. /\ waiter' = [waiter EXCEPT ![r] = "refused"] /\ waiter[r] = "timed out"
        /\ responses' = responses \ {r}
        /\ channel' = channel /\ closed' = closed /\ loop' = loop /\ inbox' = inbox
        /\ policy' = policy /\ check' = check
    BY <1>6 DEF Expire, Move
  <2>2. CASE status[r] = "pending"
    <3>1. /\ status' = [status EXCEPT ![r] = "expired"]
          /\ verdict' = [verdict EXCEPT ![r] = "expired"]
      BY <1>6, <2>2 DEF Expire, Decide
    <3>2. Types'
      BY <2>1, <3>1
    <3>3. ASSUME NEW x \in Requests PROVE OneStory(x)'
      <4>1. /\ status'[x] = IF x = r THEN "expired" ELSE status[x]
            /\ verdict'[x] = IF x = r THEN "expired" ELSE verdict[x]
            /\ waiter'[x] = IF x = r THEN "refused" ELSE waiter[x]
        BY <2>1, <3>1
      <4> HIDE DEF Types
      <4>2. /\ x \in responses' <=> x \in responses /\ x # r
            /\ channel'[x] = channel[x] /\ (x \in closed' <=> x \in closed)
        BY <2>1
      <4>3. x = r => channel[x] = "empty"
        BY <2>2
      <4>4. OneStory(x)
        OBVIOUS
      <4> HIDE DEF ApprovalInv
      <4>5. CASE x = r
        BY <4>1, <4>2, <4>3, <4>4, <4>5
      <4>6. CASE x # r
        BY <4>1, <4>2, <4>4, <4>6
      <4> QED
        BY <4>5, <4>6
    <3>4. FirstStands
      BY <2>1, <2>2, <3>1
    <3> QED
      BY <3>2, <3>3, <3>4, Zenon
  <2>3. CASE status[r] # "pending"
    <3>1. status' = status /\ verdict' = verdict
      BY <1>6, <2>3 DEF Expire
    <3> QED
      BY <2>1, <3>1
  <2> QED
    BY <2>2, <2>3
<1>7. CASE Cancelled(r)
  BY <1>7 DEF Cancelled, Move
<1>8. CASE GrowOld(r)
  BY <1>8 DEF GrowOld
<1> QED
  BY <1>1, <1>2, <1>3, <1>4, <1>5, <1>6, <1>7, <1>8 DEF Wait

LEMMA StepKeeps ==
  ASSUME ApprovalInv, [Next]_vars
  PROVE  ApprovalInv' /\ FirstStands
<1>1. CASE \E r \in Requests : CreateRequest(r) \/ Wait(r) \/ Cancelled(r) \/ GrowOld(r)
  BY <1>1, WaiterKeeps
<1>2. ASSUME NEW r \in Requests, SendAnswer(r) PROVE ApprovalInv' /\ FirstStands
  <2>1. PICK text \in Texts : inbox' = Append(inbox, [request |-> r, text |-> text])
    BY <1>2 DEF SendAnswer
  <2>2. inbox \in Seq(Message) /\ [request |-> r, text |-> text] \in Message
    BY DEF ApprovalInv, Types, Message
  <2>3. inbox' \in Seq(Message)
    BY <2>1, <2>2, AppendKeeps
  <2> QED
    BY <1>2, <2>3 DEF SendAnswer, ApprovalInv, Types, OneStory, Pending, FirstStands, manager, shield
<1>3. ASSUME NEW r \in Requests, AnswerDirectly(r) PROVE ApprovalInv' /\ FirstStands
  BY <1>3, RespondKeeps DEF AnswerDirectly, users, ApprovalInv, Types
<1>4. CASE HandleAnswer
  <2>1. inbox \in Seq(Message) /\ inbox # <<>>
    BY <1>4 DEF HandleAnswer, ApprovalInv, Types
  <2>2. PICK m \in Message : m = Head(inbox)
    BY <2>1
  <2>3. inbox' \in Seq(Message) /\ UNCHANGED <<waiter, loop, shield>> /\ m.request \in Requests
    BY <1>4, <2>1, <2>2 DEF HandleAnswer, Message
  <2>4. CASE m.text = "plain"
    <3>1. UNCHANGED manager
      BY <1>4, <2>2, <2>4 DEF HandleAnswer
    <3> QED
      BY <2>3, <3>1 DEF ApprovalInv, Types, OneStory, Pending, FirstStands, manager, shield
  <2>5. CASE m.text # "plain"
    <3>1. PICK approve \in BOOLEAN : approve = (m.text = "approve")
      OBVIOUS
    <3>2. Respond(m.request, approve)
      BY <1>4, <2>2, <2>5, <3>1 DEF HandleAnswer
    <3>3. waiter[m.request] # "idle" \/ ~Pending(m.request)
      BY <2>3 DEF ApprovalInv, OneStory, Pending
    <3>4. loop' \in {"start", "turn", "idle"}
      BY <2>3 DEF ApprovalInv, Types
    <3> QED
      BY <2>3, <3>2, <3>3, <3>4, RespondKeeps
  <2> QED
    BY <2>4, <2>5
<1>5. CASE BeginTurn \/ EndTurn
  <2>1. /\ loop' \in {"start", "turn", "idle"}
        /\ UNCHANGED <<policy, check, status, responses, channel, closed, verdict, waiter, inbox>>
    BY <1>5 DEF BeginTurn, EndTurn, manager, shield
  <2> QED
    BY <2>1 DEF ApprovalInv, Types, OneStory, Pending, FirstStands
<1>6. CASE Cleanup
  <2> DEFINE late == {r \in Requests : Pending(r) /\ age[r] # "fresh"}
             gone == {r \in Requests : age[r] = "old" /\ (status[r] # "pending" \/ r \in late)}
  <2>1. /\ status' = [r \in Requests |-> IF r \in gone THEN "none"
                                           ELSE IF r \in late THEN "expired" ELSE status[r]]
        /\ verdict' = [r \in Requests |-> IF r \in late THEN "expired" ELSE verdict[r]]
        /\ closed' = closed \cup (late \cap responses)
        /\ responses' = responses \ late
        /\ UNCHANGED <<channel, waiter, loop, inbox, policy, check>>
    BY <1>6 DEF Cleanup, users, shield
  <2>2. \A r \in late : r \in Requests /\ status[r] = "pending"
    BY DEF Pending
  <2> HIDE DEF late, gone
  <2> QED
    BY <2>1, <2>2 DEF ApprovalInv, Types, OneStory, Pending, Verdicts, FirstStands
<1>7. CASE Close
  <2>1. /\ closed' = closed \cup responses /\ responses' = {}
        /\ status' = [r \in Requests |-> "none"]
        /\ UNCHANGED <<channel, verdict, waiter, loop, inbox, policy, check>>
    BY <1>7 DEF Close, users, shield
  <2>2. \A r \in Requests : waiter[r] = "idle" => r \notin responses
    BY DEF ApprovalInv, OneStory
  <2> QED
    BY <2>1, <2>2 DEF ApprovalInv, Types, OneStory, Pending, Verdicts, FirstStands
<1>8. CASE UNCHANGED vars
  BY <1>8 DEF vars, ApprovalInv, Types, OneStory, Pending, FirstStands
<1>9. ASSUME NEW c \in Calls, Call(c) PROVE ApprovalInv' /\ FirstStands
  <2>1. policy' \in [Calls -> Actions \cup {"none"}] /\ check' \in [Calls -> Actions \cup {"none"}]
    BY <1>9 DEF Call, Evaluate, ExecuteTool, Actions, ApprovalInv, Types
  <2>2. UNCHANGED <<status, responses, channel, closed, verdict, waiter, loop, inbox>>
    BY <1>9 DEF Call, Evaluate, ExecuteTool, manager, users
  <2> QED
    BY <2>1, <2>2 DEF ApprovalInv, Types, OneStory, Pending, FirstStands
<1> QED
  BY <1>1, <1>2, <1>3, <1>4, <1>5, <1>6, <1>7, <1>8, <1>9 DEF Next, Run

\* Every step lets the waiters progress, and only steps of a call change what
\* the shield said.
LEMMA StepProgress ==
  ASSUME ApprovalInv, [Next]_vars
  PROVE  Progress /\ (UNCHANGED shield \/ (UNCHANGED waiter /\ \E c \in Calls : Call(c)))
<1> USE DEF Progress
<1>1. ASSUME NEW r \in Requests, CreateRequest(r) PROVE Progress /\ UNCHANGED shield
  BY <1>1 DEF CreateRequest, Move, ApprovalInv, Types
<1>2. ASSUME NEW r \in Requests, Wait(r) \/ Cancelled(r) PROVE Progress /\ UNCHANGED shield
  <2>1. /\ waiter[r] \in {"created", "has channel", "waiting", "timed out"}
        /\ \E to : waiter' = [waiter EXCEPT ![r] = to]
        /\ UNCHANGED shield
    BY <1>2 DEF Wait, LookupChannel, LookupRequest, ReceiveResponse, TimerFires, Expire, Cancelled, Move
  <2> QED
    BY <2>1 DEF ApprovalInv, Types
<1>3. ASSUME NEW r \in Requests, GrowOld(r) \/ SendAnswer(r) \/ AnswerDirectly(r)
      PROVE Progress /\ UNCHANGED shield
  BY <1>3 DEF GrowOld, SendAnswer, AnswerDirectly
<1>4. CASE Run \/ Cleanup \/ Close
  BY <1>4 DEF Run, BeginTurn, EndTurn, HandleAnswer, Cleanup, Close
<1>5. ASSUME NEW c \in Calls, Call(c) PROVE UNCHANGED waiter
  BY <1>5 DEF Call, Evaluate, ExecuteTool
<1>6. CASE UNCHANGED vars
  BY <1>6 DEF vars, shield
<1> QED
  BY <1>1, <1>2, <1>3, <1>4, <1>5, <1>6 DEF Next

LEMMA CallsKeep ==
  ASSUME ApprovalInv, CallsInv, [Next]_vars
  PROVE  CallsInv'
<1> SUFFICES ASSUME NEW c \in Calls PROVE CallStory(c)'
  BY DEF CallsInv
<1> DEFINE p == <<c, "policy">>
           t == <<c, "tool">>
<1>1. p \in Requests /\ t \in Requests /\ (Asks(t) => check[c] = "require_approval")
  BY DEF Requests, Asks
<1>2. CallStory(c)
  BY DEF CallsInv
<1>3. /\ waiter[p] = "approved" => waiter'[p] = "approved"
      /\ waiter[t] = "idle" /\ waiter'[t] # "idle" => check[c] = "require_approval"
  BY <1>1, StepProgress DEF Progress
<1>4. CASE UNCHANGED shield
  BY <1>2, <1>3, <1>4 DEF shield, CallStory, MayExecute
<1>5. ASSUME NEW d \in Calls, Call(d), UNCHANGED waiter PROVE CallStory(c)'
  <2>1. CASE Evaluate(d)
    <3>1. (policy[c] # "none" => policy'[c] = policy[c]) /\ check' = check
      BY <2>1 DEF Evaluate, ApprovalInv, Types
    <3> QED
      BY <1>2, <1>5, <3>1 DEF CallStory, MayExecute
  <2>2. CASE ExecuteTool(d)
    <3>1. policy' = policy /\ MayExecute(d) /\ check[d] = "none" /\ (c # d => check'[c] = check[c])
      BY <2>2 DEF ExecuteTool, ApprovalInv, Types
    <3> QED
      BY <1>2, <1>5, <3>1 DEF CallStory, MayExecute
  <2> QED
    BY <1>5, <2>1, <2>2 DEF Call
<1> QED
  BY <1>4, <1>5, StepProgress

LEMMA Invariance == Spec => [](ApprovalInv /\ CallsInv)
<1>1. ApprovalInv /\ CallsInv /\ [Next]_vars => ApprovalInv' /\ CallsInv'
  BY StepKeeps, CallsKeep
<1> QED
  BY <1>1, InitEstablishes, PTL DEF Spec

-----------------------------------------------------------------------------
\* The maps of the manager agree with each other, and a response never meets a
\* full or a closed channel.
THEOREM MapsAgree == Spec => []Consistent
BY Invariance, ConsistentInv, PTL

\* A call that the shield blocks runs only after the request about it was
\* approved, and a tool whose own check requires approval only after its
\* request was: neither approval, nor another call's, stands for the other.
THEOREM OnlyApproved == Spec => []ExecutedWasApproved
<1>1. ApprovalInv /\ CallsInv => ExecutedWasApproved
  <2> SUFFICES ASSUME ApprovalInv, CallsInv, NEW c \in Calls, Executed(c)
               PROVE  /\ policy[c] = "block" => verdict[<<c, "policy">>] = "approved"
                      /\ check[c] = "require_approval" => verdict[<<c, "tool">>] = "approved"
    BY DEF ExecutedWasApproved
  <2>1. <<c, "policy">> \in Requests /\ <<c, "tool">> \in Requests
    BY DEF Requests
  <2>2. \A r \in Requests : waiter[r] = "approved" => verdict[r] = "approved"
    BY DEF ApprovalInv, OneStory
  <2>3. CallStory(c)
    BY DEF CallsInv
  <2> QED
    BY <2>1, <2>2, <2>3 DEF CallStory, MayExecute, Executed
<1> QED
  BY <1>1, Invariance, PTL

\* The first verdict on a request is the last.
THEOREM FirstVerdict == Spec => VerdictStands
<1>1. ApprovalInv /\ [Next]_vars => [FirstStands]_vars
  BY StepKeeps
<1>2. [FirstStands]_vars
          <=> [\A r \in Requests : verdict[r] # "none" => verdict'[r] = verdict[r]]_vars
  BY DEF FirstStands
<1> QED
  BY <1>1, <1>2, Invariance, PTL DEF Spec, VerdictStands

=============================================================================
