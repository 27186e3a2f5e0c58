---------------------------- MODULE SessionQueue ----------------------------
(***************************************************************************)
(* delegation.SessionQueue (pkg/delegation/queue.go) and its only caller,  *)
(* DelegationSystem.runSerialized (pkg/delegation/tools.go): synchronous   *)
(* delegation work of one user goes through one bounded Go channel and at  *)
(* most one processQueue goroutine, started on demand by Submit.           *)
(*                                                                         *)
(* Grain.  What the code does under q.mu without blocking is one step; the *)
(* channel operations Submit and processQueue perform outside the lock,    *)
(* and the execution of a task, are steps of their own.  A goroutine is    *)
(* named by the task whose Submit started it.  Clear replaces the map of   *)
(* queues, so a queue object is named by its agent and by the number of    *)
(* Clears that came before it.                                             *)
(***************************************************************************)
EXTENDS Naturals, Sequences, FiniteSets

CONSTANTS
  Agents,     \* keys of q.queues (the trimmed user id)
  QueuedTasks, \* one per call of Submit
  AgentOf,    \* the agent each task is submitted for
  Cap,        \* capacity of a task channel (100 in the code)
  MaxClears   \* bound: how often Clear is called

ASSUME AgentOfAssumption == AgentOf \in [QueuedTasks -> Agents]
ASSUME CapAssumption == Cap \in Nat \ {0}
ASSUME MaxClearsAssumption == MaxClears \in Nat

VARIABLES
  mu,       \* q.mu: "free", "clear" (held by Clear), "leaked" (never released)
  gen,      \* number of Clears completed
  made,     \* agents that have an entry in q.queues
  chan,     \* chan[a, g]: content of the tasks channel of a queue object
  running,  \* running[a, g]: the running flag of a queue object
  caller,   \* the runSerialized call of a task
  ref,      \* the queue object (its generation) the call holds
  done,     \* the task's done channel: "open", or the one answer it got
  proc,     \* the processQueue goroutine started by a task's Submit
  pref,     \* the queue object (its generation) the goroutine holds
  cur       \* the task a goroutine executes

queueVars == <<mu, gen, made, chan, running, caller, ref, done, proc, pref, cur>>

Gens == 0 .. MaxClears
Objects == Agents \X Gens
Answers == {"executed", "full", "cleared"}
Elements(s) == {s[i] : i \in DOMAIN s}

CallerObj(t) == <<AgentOf[t], ref[t]>>
ProcObj(p) == <<AgentOf[p], pref[p]>>

QueueInit ==
  /\ mu = "free"
  /\ gen = 0
  /\ made = {}
  /\ chan = [o \in Objects |-> <<>>]
  /\ running = [o \in Objects |-> FALSE]
  /\ caller = [t \in QueuedTasks |-> "idle"]
  /\ ref = [t \in QueuedTasks |-> 0]
  /\ done = [t \in QueuedTasks |-> "open"]
  /\ proc = [t \in QueuedTasks |-> "none"]
  /\ pref = [t \in QueuedTasks |-> 0]
  /\ cur = [t \in QueuedTasks |-> t]

-----------------------------------------------------------------------------
(***************************************************************************)
(* Submit, called by runSerialized.                                        *)
(***************************************************************************)

\* The critical section: find or create the queue object, start a goroutine
\* unless one is marked as running.  The task is NOT in the channel yet.
SubmitLocked(t) ==
  LET o == <<AgentOf[t], gen>> IN
  /\ caller[t] = "idle"
  /\ mu = "free"
  /\ made' = made \cup {AgentOf[t]}
  /\ ref' = [ref EXCEPT ![t] = gen]
  /\ caller' = [caller EXCEPT ![t] = "push"]
  /\ proc' = IF running[o] THEN proc ELSE [proc EXCEPT ![t] = "lookup"]
  /\ running' = [running EXCEPT ![o] = TRUE]
  /\ UNCHANGED <<mu, gen, chan, done, pref, cur>>

\* select { case queue.tasks <- qt }, outside the lock.
PushAccepted(t) ==
  /\ caller[t] = "push"
  /\ Len(chan[CallerObj(t)]) < Cap
  /\ chan' = [chan EXCEPT ![CallerObj(t)] = Append(@, t)]
  /\ caller' = [caller EXCEPT ![t] = "waiting"]
  /\ UNCHANGED <<mu, gen, made, running, ref, done, proc, pref, cur>>

\* Mutant of PushRefused: the last place of the channel is never used.
PushRefusedEarly(t) ==
  /\ caller[t] = "push"
  /\ Len(chan[CallerObj(t)]) >= Cap - 1
  /\ done' = [done EXCEPT ![t] = "full"]
  /\ caller' = [caller EXCEPT ![t] = "waiting"]
  /\ UNCHANGED <<mu, gen, made, chan, running, ref, proc, pref, cur>>

\* select { default }: the channel is full and the task is refused.
PushRefused(t) ==
  /\ caller[t] = "push"
  /\ Len(chan[CallerObj(t)]) >= Cap
  /\ done' = [done EXCEPT ![t] = "full"]
  /\ caller' = [caller EXCEPT ![t] = "waiting"]
  /\ UNCHANGED <<mu, gen, made, chan, running, ref, proc, pref, cur>>

\* err := <-done in runSerialized.
Return(t) ==
  /\ caller[t] = "waiting"
  /\ done[t] # "open"
  /\ caller' = [caller EXCEPT ![t] = "returned"]
  /\ UNCHANGED <<mu, gen, made, chan, running, ref, done, proc, pref, cur>>

-----------------------------------------------------------------------------
(***************************************************************************)
(* processQueue.                                                           *)
(***************************************************************************)

\* The goroutine looks its queue up by name.  When the entry is gone it
\* returns between Lock and Unlock, and nobody can take q.mu again.
Lookup(p) ==
  /\ proc[p] = "lookup"
  /\ mu = "free"
  /\ IF AgentOf[p] \in made
       THEN /\ pref' = [pref EXCEPT ![p] = gen]
            /\ proc' = [proc EXCEPT ![p] = "select"]
            /\ mu' = mu
       ELSE /\ proc' = [proc EXCEPT ![p] = "exited"]
            /\ mu' = "leaked"
            /\ pref' = pref
  /\ UNCHANGED <<gen, made, chan, running, caller, ref, done, cur>>

\* select { case task := <-queue.tasks }: the execution of the task begins.
Take(p) ==
  /\ proc[p] = "select"
  /\ chan[ProcObj(p)] # <<>>
  /\ cur' = [cur EXCEPT ![p] = Head(chan[ProcObj(p)])]
  /\ chan' = [chan EXCEPT ![ProcObj(p)] = Tail(@)]
  /\ proc' = [proc EXCEPT ![p] = "execute"]
  /\ UNCHANGED <<mu, gen, made, running, caller, ref, done, pref>>

\* The task returns; its result is sent and the done channel closed.
Finish(p) ==
  /\ proc[p] = "execute"
  /\ done' = [done EXCEPT ![cur[p]] = "executed"]
  /\ proc' = [proc EXCEPT ![p] = "select"]
  /\ UNCHANGED <<mu, gen, made, chan, running, caller, ref, pref, cur>>

\* select { default }: nothing to do, on the way to the lock.
SeeEmpty(p) ==
  /\ proc[p] = "select"
  /\ chan[ProcObj(p)] = <<>>
  /\ proc' = [proc EXCEPT ![p] = "stopping"]
  /\ UNCHANGED <<mu, gen, made, chan, running, caller, ref, done, pref, cur>>

\* Mutant of Stop: the goroutine ends and leaves the flag set.
StopKeepsFlag(p) ==
  /\ proc[p] = "stopping"
  /\ mu = "free"
  /\ proc' = [proc EXCEPT ![p] = IF chan[ProcObj(p)] = <<>> THEN "exited" ELSE "select"]
  /\ UNCHANGED <<mu, gen, made, chan, running, caller, ref, done, pref, cur>>

\* Under the lock the length is read again: stop, or go on.
Stop(p) ==
  /\ proc[p] = "stopping"
  /\ mu = "free"
  /\ IF chan[ProcObj(p)] = <<>>
       THEN /\ running' = [running EXCEPT ![ProcObj(p)] = FALSE]
            /\ proc' = [proc EXCEPT ![p] = "exited"]
       ELSE /\ proc' = [proc EXCEPT ![p] = "select"]
            /\ running' = running
  /\ UNCHANGED <<mu, gen, made, chan, caller, ref, done, pref, cur>>

-----------------------------------------------------------------------------
(***************************************************************************)
(* Clear holds q.mu for its whole length, but the channels it drains are   *)
(* pushed to and received from without the lock, so each receive is a step.*)
(* No code under pkg/ calls Clear; the bound MaxClears = 0 is production.  *)
(***************************************************************************)
ClearBegin ==
  /\ mu = "free"
  /\ gen < MaxClears
  /\ mu' = "clear"
  /\ UNCHANGED <<gen, made, chan, running, caller, ref, done, proc, pref, cur>>

\* Mutant of ClearTake: drained tasks are dropped without an answer.
ClearDrops(a) ==
  /\ mu = "clear"
  /\ a \in made
  /\ chan[a, gen] # <<>>
  /\ chan' = [chan EXCEPT ![<<a, gen>>] = Tail(@)]
  /\ UNCHANGED <<mu, gen, made, running, caller, ref, done, proc, pref, cur>>

ClearTake(a) ==
  /\ mu = "clear"
  /\ a \in made
  /\ chan[a, gen] # <<>>
  /\ done' = [done EXCEPT ![Head(chan[a, gen])] = "cleared"]
  /\ chan' = [chan EXCEPT ![<<a, gen>>] = Tail(@)]
  /\ UNCHANGED <<mu, gen, made, running, caller, ref, proc, pref, cur>>

\* The drain of one queue ends when its channel is seen empty.
ClearNext(a) ==
  /\ mu = "clear"
  /\ a \in made
  /\ chan[a, gen] = <<>>
  /\ running' = [running EXCEPT ![<<a, gen>>] = FALSE]
  /\ made' = made \ {a}
  /\ UNCHANGED <<mu, gen, chan, caller, ref, done, proc, pref, cur>>

ClearEnd ==
  /\ mu = "clear"
  /\ made = {}
  /\ gen' = gen + 1
  /\ mu' = "free"
  /\ UNCHANGED <<made, chan, running, caller, ref, done, proc, pref, cur>>

-----------------------------------------------------------------------------
Submit(t) == SubmitLocked(t) \/ PushAccepted(t) \/ PushRefused(t) \/ Return(t)
ProcessQueue(p) == Lookup(p) \/ Take(p) \/ Finish(p) \/ SeeEmpty(p) \/ Stop(p)
Clear == ClearBegin \/ (\E a \in Agents : ClearTake(a) \/ ClearNext(a)) \/ ClearEnd

\* Every call has returned and every goroutine has ended.
Quiescent ==
  /\ \A t \in QueuedTasks : caller[t] = "returned"
  /\ \A p \in QueuedTasks : proc[p] \in {"none", "exited"}
  /\ mu = "free"
  /\ UNCHANGED queueVars

QueueNext ==
  \/ \E t \in QueuedTasks : Submit(t)
  \/ \E p \in QueuedTasks : ProcessQueue(p)
  \/ Clear
  \/ Quiescent

QueueSpec == QueueInit /\ [][QueueNext]_queueVars

\* The Go scheduler runs every goroutine that can run, and a task's function
\* returns (its LLM call carries a context with a timeout).  Starting a call
\* (SubmitLocked) is the environment's choice.
QueueFairness ==
  \A t \in QueuedTasks :
    /\ WF_queueVars(PushAccepted(t) \/ PushRefused(t) \/ Return(t))
    /\ WF_queueVars(ProcessQueue(t))

QueueFairSpec == QueueSpec /\ QueueFairness

-----------------------------------------------------------------------------
QueueTypeOK ==
  /\ mu \in {"free", "clear", "leaked"}
  /\ gen \in Gens
  /\ mu = "clear" => gen < MaxClears
  /\ made \subseteq Agents
  /\ chan \in [Objects -> Seq(QueuedTasks)]
  /\ \A o \in Objects : Len(chan[o]) <= Cap
  /\ running \in [Objects -> BOOLEAN]
  /\ caller \in [QueuedTasks -> {"idle", "push", "waiting", "returned"}]
  /\ ref \in [QueuedTasks -> Gens]
  /\ done \in [QueuedTasks -> Answers \cup {"open"}]
  /\ proc \in [QueuedTasks -> {"none", "lookup", "select", "execute", "stopping", "exited"}]
  /\ pref \in [QueuedTasks -> Gens]
  /\ cur \in [QueuedTasks -> QueuedTasks]

\* What the queue promises holds until somebody calls Clear.
NotCleared == mu = "free" /\ gen = 0

\* A live goroutine will still look at its queue.
Live(p) == proc[p] \notin {"none", "exited"}

\* "Tasks for the same agent are executed serially" (queue.go, Submit): the
\* work of two tasks of one agent never overlaps, whoever started the
\* goroutines and however Submit races with a goroutine that is stopping.
SerialExecution ==
  NotCleared => \A p, q \in QueuedTasks :
    (proc[p] = "execute" /\ proc[q] = "execute" /\ AgentOf[p] = AgentOf[q]) => p = q

\* The reason: running[o] is the exclusive right to process queue object o.
\* It is handed to the goroutine Submit starts and given back by Stop.
OneProcessor ==
  NotCleared =>
  /\ \A p \in QueuedTasks : Live(p) => running[AgentOf[p], 0]
  /\ \A p, q \in QueuedTasks : Live(p) /\ Live(q) /\ AgentOf[p] = AgentOf[q] => p = q

\* Where a task can be: in a channel, or in the hands of a goroutine.
Slots(t) ==
  {s \in Objects \X (1 .. Cap) : s[2] <= Len(chan[s[1]]) /\ chan[s[1]][s[2]] = t}
Executors(t) == {p \in QueuedTasks : proc[p] = "execute" /\ cur[p] = t}

\* No task is duplicated, executed twice at once or dropped: a call that waits
\* for an answer has its task in exactly one place, an answered task is
\* nowhere, whatever Clear drains while goroutines receive.  So nothing is
\* answered twice either, which would panic: done is closed after its only send.
ExactlyOnePlace ==
  \A t \in QueuedTasks :
    Cardinality(Slots(t)) + Cardinality(Executors(t))
      = (IF caller[t] = "waiting" /\ done[t] = "open" THEN 1 ELSE 0)

\* As long as a goroutine is marked as running, everything in the channel is
\* answered: only the moment between unlock and push can strand a task, and a
\* stranded task is rescued by the next Submit of its agent, which sets running.
RunningQueueDrains ==
  \A t \in QueuedTasks :
    (NotCleared /\ running[CallerObj(t)] /\ t \in Elements(chan[CallerObj(t)]))
      ~> (done[t] # "open" \/ ~ NotCleared)

-----------------------------------------------------------------------------
\* The promise without Clear: a bounded FIFO served serially, see SerialExecutor.
Executing(a) == {p \in QueuedTasks : proc[p] = "execute" /\ AgentOf[p] = a}
AbsQueue == [a \in Agents |-> chan[a, 0]]
AbsCurrent == [a \in Agents |-> {cur[p] : p \in Executing(a)}]
AbsAnswer == [t \in QueuedTasks |-> IF caller[t] \in {"idle", "push"} THEN "new" ELSE done[t]]

Promise == INSTANCE SerialExecutor WITH
  Tasks <- QueuedTasks, queue <- AbsQueue, current <- AbsCurrent, answer <- AbsAnswer

\* Until Clear is called, every step is one of the abstract serial executor or
\* a stutter: tasks of an agent start in the order they were accepted, one at a
\* time.
ImplementsSerialExecutor ==
  Promise!Init /\ [][NotCleared' => Promise!Next \/ UNCHANGED Promise!vars]_queueVars

=============================================================================
