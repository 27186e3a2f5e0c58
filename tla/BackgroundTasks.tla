-------------------------- MODULE BackgroundTasks --------------------------
(***************************************************************************)
(* delegation.BackgroundRunner (pkg/delegation/background.go) with the rows*)
(* it keeps in SQLite (store.go), and the two readers that hand results to *)
(* the language model: InjectBackgroundTaskResults at the start of a turn  *)
(* (pkg/agent/delegation_integration.go, loop.go) and the confirm_task     *)
(* tool (tools_manage.go).                                                 *)
(*                                                                         *)
(* Rows survive a crash; the Go channel, the workers and the turns do not. *)
(* One user: every query of the store is by user id.  Each store call is   *)
(* one step (SQLiteStore serialises them with its mutex).                  *)
(***************************************************************************)
EXTENDS Naturals, Sequences, FiniteSets

CONSTANTS
  Tasks,       \* one per call of Submit
  Workers,     \* MaxConcurrentTasks goroutines; Submit compares with their number
  Turns,       \* agent turns that may be in progress at once
  MarkChoices, \* values of confirm_task's mark_delivered argument to explore
  QueueCap,    \* capacity of taskQueue (100 in the code)
  MaxCrashes,  \* bound: how often the process dies
  MaxFaults,   \* bound: how many store calls fail
  MaxFailedTurns  \* bound: how many turns end with an error of the model

ASSUME BoundsAssumption ==
  /\ MarkChoices \subseteq BOOLEAN
  /\ QueueCap \in Nat \ {0}
  /\ MaxCrashes \in Nat
  /\ MaxFaults \in Nat
  /\ MaxFailedTurns \in Nat

VARIABLES
  row,        \* status column of background_tasks, "none" without a row
  delivered,  \* tasks whose row says delivered = 1
  submit,     \* progress of a call of Submit
  queue,      \* r.taskQueue
  worker,     \* [at, task] of a worker goroutine
  event,      \* last intercom event emitted about a task
  turn,       \* [at, got, left]: results a turn has read, and those left to mark
  told,       \* how many successful prompts held the result of a task (up to 2)
  shared,     \* tasks whose result was read by two turns before either marked
              \* it, or by a confirm_task that does not mark
  crashes, faults, failedTurns

vars == <<row, delivered, submit, queue, worker, event, turn, told, shared, crashes, faults,
          failedTurns>>
storeVars == <<row, delivered>>
runVars == <<submit, queue, worker, event>>
turnVars == <<turn, told, shared, failedTurns>>

Finished == {"completed", "failed"}
Idle == [at |-> "idle", task |-> "none"]
NoTurn == [at |-> "idle", got |-> {}, left |-> {}]

Init ==
  /\ row = [t \in Tasks |-> "none"]
  /\ delivered = {}
  /\ submit = [t \in Tasks |-> "idle"]
  /\ queue = <<>>
  /\ worker = [w \in Workers |-> Idle]
  /\ event = [t \in Tasks |-> "none"]
  /\ turn = [d \in Turns |-> NoTurn]
  /\ told = [t \in Tasks |-> 0]
  /\ shared = {}
  /\ crashes = 0
  /\ faults = 0
  /\ failedTurns = 0

\* A store call either takes effect or, within the bound, fails without effect.
StoreOk == UNCHANGED faults
StoreFails == faults < MaxFaults /\ faults' = faults + 1

\* A write of the status column whose error the caller ignores.
SetRow(t, status) ==
  \/ StoreOk /\ row' = [row EXCEPT ![t] = status]
  \/ StoreFails /\ row' = row

-----------------------------------------------------------------------------
(***************************************************************************)
(* Submit                                                                  *)
(***************************************************************************)

\* r.running: incremented by a worker after it received a task.
Running == Cardinality({w \in Workers : worker[w].at \notin {"idle", "received"}})

CheckLimit(t) ==
  /\ submit[t] = "idle"
  /\ submit' = [submit EXCEPT ![t] = IF Running >= Cardinality(Workers) THEN "refused" ELSE "checked"]
  /\ UNCHANGED <<storeVars, queue, worker, event, turnVars, crashes, faults>>

SaveRow(t) ==
  /\ submit[t] = "checked"
  /\ \/ /\ StoreOk
        /\ row' = [row EXCEPT ![t] = "pending"]
        /\ submit' = [submit EXCEPT ![t] = "saved"]
     \/ /\ StoreFails
        /\ submit' = [submit EXCEPT ![t] = "refused"]
        /\ row' = row
  /\ UNCHANGED <<delivered, queue, worker, event, turnVars, crashes>>

EmitQueued(t) ==
  /\ submit[t] = "saved"
  /\ event' = [event EXCEPT ![t] = "queued"]
  /\ submit' = [submit EXCEPT ![t] = "announced"]
  /\ UNCHANGED <<storeVars, queue, worker, turnVars, crashes, faults>>

Enqueue(t) ==
  /\ submit[t] = "announced"
  /\ Len(queue) < QueueCap
  /\ queue' = Append(queue, t)
  /\ submit' = [submit EXCEPT ![t] = "accepted"]
  /\ UNCHANGED <<storeVars, worker, event, turnVars, crashes, faults>>

\* The queue is full: the row is failed and the caller gets an error.
RefuseFull(t) ==
  /\ submit[t] = "announced"
  /\ Len(queue) >= QueueCap
  /\ SetRow(t, "failed")
  /\ submit' = [submit EXCEPT ![t] = "refused"]
  /\ UNCHANGED <<delivered, queue, worker, event, turnVars, crashes>>

-----------------------------------------------------------------------------
(***************************************************************************)
(* worker and executeTask                                                  *)
(***************************************************************************)
Move(w, from, to) ==
  /\ worker[w].at = from
  /\ worker' = [worker EXCEPT ![w] = [at |-> to, task |-> worker[w].task]]

\* Mutant of Receive: the task stays in the channel.
ReceiveKeeps(w) ==
  /\ worker[w].at = "idle"
  /\ queue # <<>>
  /\ worker' = [worker EXCEPT ![w] = [at |-> "received", task |-> Head(queue)]]
  /\ UNCHANGED <<storeVars, submit, queue, event, turnVars, crashes, faults>>

Receive(w) ==
  /\ worker[w].at = "idle"
  /\ queue # <<>>
  /\ worker' = [worker EXCEPT ![w] = [at |-> "received", task |-> Head(queue)]]
  /\ queue' = Tail(queue)
  /\ UNCHANGED <<storeVars, submit, event, turnVars, crashes, faults>>

CountRunning(w) ==
  /\ Move(w, "received", "counted")
  /\ UNCHANGED <<storeVars, submit, queue, event, turnVars, crashes, faults>>

MarkRunning(w) ==
  /\ Move(w, "counted", "executing")
  /\ SetRow(worker[w].task, "running")
  /\ UNCHANGED <<delivered, submit, queue, event, turnVars, crashes>>

\* The executor returns an answer, an error, or its deadline passes.
Execute(w) ==
  /\ \/ Move(w, "executing", "completed")
     \/ Move(w, "executing", "failed")
  /\ UNCHANGED <<storeVars, submit, queue, event, turnVars, crashes, faults>>

\* Mutant of RecordOutcome: a failed task returns without touching its row.
RecordOnlySuccess(w) ==
  /\ worker[w].at \in Finished
  /\ IF worker[w].at = "completed" THEN SetRow(worker[w].task, "completed") ELSE UNCHANGED <<row, faults>>
  /\ Move(w, "completed", "emit completed") \/ Move(w, "failed", "emit failed")
  /\ UNCHANGED <<delivered, submit, queue, event, turnVars, crashes>>

\* Status, result and completion time are written; the error is ignored.
RecordOutcome(w) ==
  /\ SetRow(worker[w].task, worker[w].at)
  /\ \/ Move(w, "completed", "emit completed")
     \/ Move(w, "failed", "emit failed")
  /\ UNCHANGED <<delivered, submit, queue, event, turnVars, crashes>>

EmitOutcome(w) ==
  /\ worker[w].at \in {"emit completed", "emit failed"}
  /\ event' = [event EXCEPT ![worker[w].task] = IF worker[w].at = "emit completed" THEN "completed" ELSE "failed"]
  /\ worker' = [worker EXCEPT ![w] = Idle]
  /\ UNCHANGED <<storeVars, submit, queue, turnVars, crashes, faults>>

-----------------------------------------------------------------------------
(***************************************************************************)
(* Delivery: a turn reads undelivered results, marks them one by one, and  *)
(* only then is the prompt that holds them sent to the model.              *)
(***************************************************************************)
Undelivered == {t \in Tasks : row[t] \in Finished /\ t \notin delivered}

\* Turns of the inbox, the web chat, cron and the heartbeat overlap: between the
\* query and the marks of one, another reads the same rows.
HeldByATurn == UNION {turn[d].got : d \in Turns}

\* InjectBackgroundTaskResults; a failed query injects nothing.
Inject(d) ==
  /\ turn[d].at = "idle"
  /\ Undelivered # {}
  /\ turn' = [turn EXCEPT ![d] = [at |-> "marking", got |-> Undelivered, left |-> Undelivered]]
  /\ shared' = shared \cup (Undelivered \cap HeldByATurn)
  /\ UNCHANGED <<storeVars, runVars, told, crashes, faults, failedTurns>>

\* confirm_task: all results or the one asked for, marked unless told not to.
Confirm(d) ==
  /\ turn[d].at = "idle"
  /\ \E got \in {Undelivered} \cup {{t} : t \in Undelivered}, mark \in MarkChoices :
       /\ got # {}
       /\ turn' = [turn EXCEPT ![d] = [at |-> "marking", got |-> got, left |-> IF mark THEN got ELSE {}]]
       /\ shared' = shared \cup (IF mark THEN got \cap HeldByATurn ELSE got)
  /\ UNCHANGED <<storeVars, runVars, told, crashes, faults, failedTurns>>

\* Mutant of Mark: results are read but never marked.
MarkNothing(d) ==
  /\ turn[d].at = "marking"
  /\ turn[d].left # {}
  /\ turn' = [turn EXCEPT ![d].left = {}]
  /\ UNCHANGED <<storeVars, runVars, told, shared, crashes, faults, failedTurns>>

\* MarkDelivered of one id; its error is ignored.
Mark(d) ==
  /\ turn[d].at = "marking"
  /\ \E t \in turn[d].left :
       /\ turn' = [turn EXCEPT ![d] = [at |-> "marking", got |-> turn[d].got,
                                       left |-> turn[d].left \ {t}]]
       /\ \/ StoreOk /\ delivered' = delivered \cup {t}
          \/ StoreFails /\ delivered' = delivered
  /\ UNCHANGED <<row, runVars, told, shared, crashes, failedTurns>>

\* The model answers: the results were part of the conversation.
Answer(d) ==
  /\ turn[d].at = "marking"
  /\ turn[d].left = {}
  /\ told' = [t \in Tasks |-> IF t \in turn[d].got /\ told[t] < 2 THEN told[t] + 1 ELSE told[t]]
  /\ turn' = [turn EXCEPT ![d] = NoTurn]
  /\ UNCHANGED <<storeVars, runVars, shared, crashes, faults, failedTurns>>

\* The model call fails (runLLMIteration returns an error).  Only the user's
\* own text was saved to the session, not the injected results.
TurnFails(d) ==
  /\ turn[d].at = "marking"
  /\ turn[d].left = {}
  /\ failedTurns < MaxFailedTurns
  /\ failedTurns' = failedTurns + 1
  /\ turn' = [turn EXCEPT ![d] = NoTurn]
  /\ UNCHANGED <<storeVars, runVars, told, shared, crashes, faults>>

-----------------------------------------------------------------------------
\* The process dies and is started again.  NewBackgroundRunner starts workers
\* on an empty channel; nothing reads the pending and running rows.
Crash ==
  /\ crashes < MaxCrashes
  /\ crashes' = crashes + 1
  /\ queue' = <<>>
  /\ worker' = [w \in Workers |-> Idle]
  /\ turn' = [d \in Turns |-> NoTurn]
  /\ submit' = [t \in Tasks |-> IF submit[t] \in {"checked", "saved", "announced"} THEN "refused" ELSE submit[t]]
  /\ UNCHANGED <<storeVars, event, told, shared, faults, failedTurns>>

SubmitStep(t) == CheckLimit(t) \/ SaveRow(t) \/ EmitQueued(t) \/ Enqueue(t) \/ RefuseFull(t)
WorkerStep(w) ==
  Receive(w) \/ CountRunning(w) \/ MarkRunning(w) \/ Execute(w) \/ RecordOutcome(w) \/ EmitOutcome(w)
TurnStep(d) == Inject(d) \/ Confirm(d) \/ Mark(d) \/ Answer(d) \/ TurnFails(d)

Next ==
  \/ \E t \in Tasks : SubmitStep(t)
  \/ \E w \in Workers : WorkerStep(w)
  \/ \E d \in Turns : TurnStep(d)
  \/ Crash

Spec == Init /\ [][Next]_vars

\* Workers are goroutines, and the executor runs under a context with a
\* deadline, so every worker step that stays possible is taken.  Turns start
\* when a user writes: no fairness for them.
Fairness == \A w \in Workers : WF_vars(WorkerStep(w))
FairSpec == Spec /\ Fairness

-----------------------------------------------------------------------------
WorkerStates ==
  {"idle", "received", "counted", "executing", "completed", "failed", "emit completed", "emit failed"}

TypeOK ==
  /\ row \in [Tasks -> {"none", "pending", "running"} \cup Finished]
  /\ delivered \subseteq Tasks
  /\ submit \in [Tasks -> {"idle", "checked", "saved", "announced", "accepted", "refused"}]
  /\ queue \in Seq(Tasks) /\ Len(queue) <= QueueCap
  /\ \A w \in Workers : worker[w].at \in WorkerStates /\ worker[w].task \in Tasks \cup {"none"}
  /\ event \in [Tasks -> {"none", "queued"} \cup Finished]
  /\ \A d \in Turns : turn[d].left \subseteq turn[d].got /\ turn[d].got \subseteq Tasks
  /\ told \in [Tasks -> 0 .. 2] /\ shared \subseteq Tasks
  /\ crashes <= MaxCrashes /\ faults <= MaxFaults /\ failedTurns <= MaxFailedTurns

Held(t) == {w \in Workers : worker[w].at # "idle" /\ worker[w].task = t}
Queued(t) == {i \in DOMAIN queue : queue[i] = t}

\* A task is in one place: queued once, or held by one worker, never both and
\* never executed twice.
OneOwner ==
  \A t \in Tasks : Cardinality(Held(t)) + Cardinality(Queued(t)) <= 1

\* While the process lives and the store works, a row that says pending or
\* running belongs to a task that somebody will finish.
UnfinishedRowHasOwner ==
  (crashes = 0 /\ faults = 0) =>
    \A t \in Tasks :
      (submit[t] = "accepted" /\ row[t] \in {"pending", "running"}) => Held(t) \cup Queued(t) # {}

\* Every step keeps the types, one owner per task and an owner per open row.
Consistent == TypeOK /\ OneOwner /\ UnfinishedRowHasOwner

\* What was marked as delivered is part of the conversation, or in the hands
\* of a turn that is about to put it there.
DeliveredIsTold ==
  \A t \in delivered : told[t] > 0 \/ \E d \in Turns : t \in turn[d].got

\* Only a result that exists is marked, so that the answer of a running task is
\* not skipped by a later turn.  And with any number of turns at once, marking
\* before prompting leaves one way to tell a result twice while marks are
\* stored: a second turn, or a confirm_task that does not mark, read the row
\* before the first had marked it.  A turn that starts later, or after a crash
\* or an error of the model, does not repeat what the user has heard.
ToldAgainOnlyIfShared ==
  /\ \A t \in delivered : row[t] \in Finished
  /\ faults = 0 => \A t \in Tasks : told[t] <= 1 \/ t \in shared

\* A status never goes back: once finished, neither a late worker nor a
\* refused Submit overwrites the outcome.  And task:completed and task:failed
\* come after task:queued, although two goroutines emit them.
StatusForward ==
  [][\A t \in Tasks :
       /\ row[t] \in Finished => row'[t] = row[t]
       /\ row[t] = "running" => row'[t] \in {"running"} \cup Finished
       /\ event'[t] \in Finished /\ event'[t] # event[t] => event[t] = "queued"]_vars

\* An accepted task reaches an outcome, "Results will be available when you
\* check back" (tools_background.go, line 104), unless the process dies or the
\* store refuses the write: nobody reads pending and running rows again.
Undisturbed == crashes = 0 /\ faults = 0
AcceptedFinishes ==
  \A t \in Tasks : (submit[t] = "accepted") ~> (row[t] \in Finished \/ ~ Undisturbed)

=============================================================================
