-------------------------- MODULE SubAgentLifecycle --------------------------
(***************************************************************************)
(* delegation.LifecycleManager (pkg/delegation/lifecycle.go) over the      *)
(* sub_agents rows of SQLiteStore (store.go), as its callers use it: the   *)
(* delegate_* tools (tools_delegate.go, tools_background.go), the workers  *)
(* of BackgroundRunner and manage_sub_agent (tools_manage.go).  A call is  *)
(* a goroutine that runs one of them at a time.  The manager has no lock:  *)
(* it reads, decides and writes, and each store call is one step.  One     *)
(* user: every query is by user id.  Not in the model: messages and role   *)
(* templates, and CleanupOldData, which has no caller in the program.      *)
(***************************************************************************)
EXTENDS Naturals, Sequences, FiniteSets, SequencesExt

CONSTANTS
  Agents,        \* identifiers generateID may return, each used once
  Callers,       \* goroutines that use the manager at the same time
  MaxActive,     \* config.MaxActivePerUser
  DismissAfter,  \* completed tasks before a low success rate dismisses (5 in the code)
  SuspendCalls,  \* calls of Suspend to explore; the program itself never calls it
  MaxTasks,      \* bound: tasks started per agent
  MaxFaults      \* bound: store calls that fail

ASSUME LifecycleAssumption ==
  /\ MaxActive \in Nat \ {0}
  /\ DismissAfter \in Nat
  /\ SuspendCalls \in Nat
  /\ MaxTasks \in Nat
  /\ MaxFaults \in Nat

VARIABLES
  row,       \* sub_agents: [status, completed, low]; low is success_rate < 0.2
  recent,    \* agents with a row by last_active_at, the oldest first
  caller,    \* [at, agent, seen] of a goroutine; seen is the record it read
  used,      \* identifiers already given to a row
  deleted,   \* agents whose row was deleted
  started,   \* tasks started per agent
  results,   \* results written per agent
  suspends, faults,
  overlapped \* whether two calls were ever inside the manager together

lifecycleVars ==
  <<row, recent, caller, used, deleted, started, results, suspends, faults, overlapped>>
lifecycleGhosts == <<used, deleted, started, results, suspends, faults>>

NoRow == [status |-> "none", completed |-> 0, low |-> FALSE]
NewRow == [status |-> "active", completed |-> 0, low |-> FALSE]
Idle == [at |-> "idle", agent |-> "none", seen |-> NoRow]

Exists(a) == row[a].status # "none"
Active == {a \in Agents : row[a].status = "active"}
AtLimit == Cardinality(Active) >= MaxActive

LifecycleInit ==
  /\ row = [a \in Agents |-> NoRow]
  /\ recent = <<>>
  /\ caller = [c \in Callers |-> Idle]
  /\ used = {}
  /\ deleted = {}
  /\ started = [a \in Agents |-> 0]
  /\ results = [a \in Agents |-> 0]
  /\ suspends = 0
  /\ faults = 0
  /\ overlapped = FALSE

Goto(c, at, a) == caller' = [caller EXCEPT ![c] = [at |-> at, agent |-> a, seen |-> NoRow]]
Keep(c, at, a) == caller' = [caller EXCEPT ![c] = [at |-> at, agent |-> a, seen |-> row[a]]]
Return(c) == caller' = [caller EXCEPT ![c] = Idle]
Touched(a) == Append(RemoveFirst(recent, a), a)
OldestActive == recent[SelectInSeq(recent, LAMBDA a : a \in Active)]

\* Mutant of UpdateRow: written with INSERT OR REPLACE, as SaveSubAgent is.
UpsertRow(a, new) ==
  /\ row' = [row EXCEPT ![a] = new]
  /\ recent' = Touched(a)

\* UPDATE ... WHERE id = ?: without a row nothing happens and no error is
\* returned.  Every caller writes last_active_at too.
UpdateRow(a, new) ==
  IF Exists(a) THEN row' = [row EXCEPT ![a] = new] /\ recent' = Touched(a)
  ELSE UNCHANGED <<row, recent>>

-----------------------------------------------------------------------------
(***************************************************************************)
(* Create, with dismissOldestInactive when the limit is reached            *)
(***************************************************************************)

\* Mutant of CheckLimit: one agent too many.
CheckLimitOff(c) ==
  /\ IF Cardinality(Active) > MaxActive THEN Goto(c, "dismiss for create", OldestActive)
     ELSE Goto(c, "save", "none")
  /\ UNCHANGED <<row, recent, lifecycleGhosts>>

CheckLimit(c) ==
  /\ IF AtLimit THEN Goto(c, "dismiss for create", OldestActive)
     ELSE Goto(c, "save", "none")
  /\ UNCHANGED <<row, recent, lifecycleGhosts>>

BeginCreate(c) == caller[c].at \in {"idle", "create"} /\ CheckLimit(c)

\* Dismiss reads the agent first; without a row it fails, and so does Create.
ReadVictim(c) ==
  /\ caller[c].at = "dismiss for create"
  /\ IF Exists(caller[c].agent) THEN Goto(c, "write victim", caller[c].agent) ELSE Return(c)
  /\ UNCHANGED <<row, recent, lifecycleGhosts>>

WriteVictim(c) ==
  LET a == caller[c].agent IN
  /\ caller[c].at = "write victim"
  /\ UpdateRow(a, [row[a] EXCEPT !.status = "dismissed"])
  /\ Goto(c, "save", "none")
  /\ UNCHANGED lifecycleGhosts

SaveAgent(c) ==
  /\ caller[c].at = "save"
  /\ \E a \in Agents \ used :
       /\ row' = [row EXCEPT ![a] = NewRow]
       /\ recent' = Append(recent, a)
       /\ used' = used \cup {a}
       /\ Goto(c, "chosen", a)
  /\ UNCHANGED <<deleted, started, results, suspends, faults>>

-----------------------------------------------------------------------------
(***************************************************************************)
(* The tools: choose an agent, run a task on it, record the result         *)
(***************************************************************************)

\* delegate_task: FindReusable returns the best match among the active agents
\* (any of them, the score is of keywords) or nothing, and then it creates.
FindReusable(c) ==
  /\ caller[c].at = "idle"
  /\ \/ \E a \in Active : Goto(c, "chosen", a)
     \/ Goto(c, "create", "none")
  /\ UNCHANGED <<row, recent, lifecycleGhosts>>

\* delegate_to_existing: the agent must exist and be active when it is read;
\* the task then waits for its turn in the session queue or the task channel.
UseExisting(c) ==
  /\ caller[c].at = "idle"
  /\ \E a \in Active : Goto(c, "chosen", a)
  /\ UNCHANGED <<row, recent, lifecycleGhosts>>

StartTask(c) ==
  LET a == caller[c].agent IN
  /\ caller[c].at = "chosen"
  /\ started[a] < MaxTasks
  /\ started' = [started EXCEPT ![a] = @ + 1]
  /\ Goto(c, "executing", a)
  /\ UNCHANGED <<row, recent, used, deleted, results, suspends, faults>>

\* The executor returns; RecordTaskResult reads the agent and, without a row,
\* returns.
EndTask(c) ==
  LET a == caller[c].agent IN
  /\ caller[c].at = "executing"
  /\ IF Exists(a) THEN Keep(c, "succeeded", a) \/ Keep(c, "failed", a) ELSE Return(c)
  /\ UNCHANGED <<row, recent, lifecycleGhosts>>

\* Whether the rate is below 0.2 after a result.  The average moves by a fifth:
\* one success lifts it to 0.2 at least, a failure may take it below.
LowAfter(seen, success) ==
  IF success THEN {FALSE}
  ELSE IF seen.completed = 0 \/ seen.low THEN {TRUE}
  ELSE BOOLEAN

\* Count and rate are computed from the record read before, not in SQL.
RecordResult(c) ==
  LET a == caller[c].agent
      seen == caller[c].seen
  IN
  /\ caller[c].at \in {"succeeded", "failed"}
  /\ \E low \in LowAfter(seen, caller[c].at = "succeeded") :
       /\ UpdateRow(a, [row[a] EXCEPT !.completed = seen.completed + 1, !.low = low])
       /\ IF seen.completed >= DismissAfter /\ low THEN Goto(c, "dismiss", a) ELSE Return(c)
  /\ results' = [results EXCEPT ![a] = IF Exists(a) THEN @ + 1 ELSE @]
  /\ UNCHANGED <<used, deleted, started, suspends, faults>>

-----------------------------------------------------------------------------
(***************************************************************************)
(* manage_sub_agent, and Suspend                                           *)
(***************************************************************************)
BeginDismiss(c) ==
  /\ caller[c].at = "idle"
  /\ \E a \in used : Goto(c, "dismiss", a)
  /\ UNCHANGED <<row, recent, lifecycleGhosts>>

ReadDismissed(c) ==
  /\ caller[c].at = "dismiss"
  /\ IF Exists(caller[c].agent) THEN Goto(c, "write dismissed", caller[c].agent) ELSE Return(c)
  /\ UNCHANGED <<row, recent, lifecycleGhosts>>

WriteDismissed(c) ==
  LET a == caller[c].agent IN
  /\ caller[c].at = "write dismissed"
  /\ UpdateRow(a, [row[a] EXCEPT !.status = "dismissed"])
  /\ Return(c)
  /\ UNCHANGED lifecycleGhosts

ReadKilled(c) ==
  /\ caller[c].at = "idle"
  /\ \E a \in used : Exists(a) /\ Goto(c, "delete", a)
  /\ UNCHANGED <<row, recent, lifecycleGhosts>>

DeleteRow(c) ==
  LET a == caller[c].agent IN
  /\ caller[c].at = "delete"
  /\ row' = [row EXCEPT ![a] = NoRow]
  /\ recent' = RemoveFirst(recent, a)
  /\ deleted' = deleted \cup {a}
  /\ Return(c)
  /\ UNCHANGED <<used, started, results, suspends, faults>>

\* Anything but a suspended agent is refused.
ReadRevived(c) ==
  /\ caller[c].at = "idle"
  /\ \E a \in used : row[a].status = "suspended" /\ Goto(c, "revive", a)
  /\ UNCHANGED <<row, recent, lifecycleGhosts>>

CheckRevive(c) ==
  /\ caller[c].at = "revive"
  /\ IF AtLimit THEN Return(c) ELSE Goto(c, "write revived", caller[c].agent)
  /\ UNCHANGED <<row, recent, lifecycleGhosts>>

WriteRevived(c) ==
  LET a == caller[c].agent IN
  /\ caller[c].at = "write revived"
  /\ UpdateRow(a, [row[a] EXCEPT !.status = "active"])
  /\ Return(c)
  /\ UNCHANGED lifecycleGhosts

ReadSuspended(c) ==
  /\ caller[c].at = "idle"
  /\ suspends < SuspendCalls
  /\ suspends' = suspends + 1
  /\ \E a \in Active : Goto(c, "write suspended", a)
  /\ UNCHANGED <<row, recent, used, deleted, started, results, faults>>

WriteSuspended(c) ==
  LET a == caller[c].agent IN
  /\ caller[c].at = "write suspended"
  /\ UpdateRow(a, [row[a] EXCEPT !.status = "suspended"])
  /\ Return(c)
  /\ UNCHANGED lifecycleGhosts

-----------------------------------------------------------------------------
\* States whose next step is a store call inside the manager.
Inside(c) == caller[c].at \notin {"idle", "chosen", "executing"}

\* A failing store call makes every operation return its error (a failing
\* query of FindReusable is taken as no match).
StoreError(c) ==
  /\ Inside(c)
  /\ faults < MaxFaults
  /\ faults' = faults + 1
  /\ Return(c)
  /\ UNCHANGED <<row, recent, used, deleted, started, results, suspends>>

Delegate(c) ==
  \/ FindReusable(c) \/ UseExisting(c) \/ BeginCreate(c) \/ ReadVictim(c) \/ WriteVictim(c)
  \/ SaveAgent(c) \/ StartTask(c) \/ EndTask(c) \/ RecordResult(c)
Manage(c) ==
  \/ BeginDismiss(c) \/ ReadDismissed(c) \/ WriteDismissed(c) \/ ReadKilled(c) \/ DeleteRow(c)
  \/ ReadRevived(c) \/ CheckRevive(c) \/ WriteRevived(c)
Suspend(c) == ReadSuspended(c) \/ WriteSuspended(c)

LifecycleNext ==
  /\ \E c \in Callers : Delegate(c) \/ Manage(c) \/ Suspend(c) \/ StoreError(c)
  /\ overlapped' = (overlapped \/ \E c, d \in Callers : c # d /\ Inside(c)' /\ Inside(d)')

LifecycleSpec == LifecycleInit /\ [][LifecycleNext]_lifecycleVars

-----------------------------------------------------------------------------
LifecycleTypeOK ==
  /\ row \in [Agents -> [status : {"none", "active", "suspended", "dismissed"},
                         completed : Nat, low : BOOLEAN]]
  /\ ToSet(recent) = {a \in Agents : Exists(a)} /\ IsInjective(recent)
  /\ \A c \in Callers : caller[c].agent \in Agents \cup {"none"} /\ caller[c].seen.completed \in Nat
  /\ used \subseteq Agents /\ deleted \subseteq used
  /\ suspends <= SuspendCalls /\ faults <= MaxFaults
  /\ overlapped \in BOOLEAN

\* "Cap on active sub-agents per delegation partition / user"
\* (pkg/delegation/docs/CONFIG.md, line 34): calls that do not overlap inside
\* the manager keep it, for Create makes room first, Revive is refused, and no
\* error leaves one agent too many.  Overlapping calls do exceed it.
LimitUnlessRaced == overlapped \/ Cardinality(Active) <= MaxActive

\* completed_tasks counts every result recorded, unless two were at once.
CountUnlessRaced == overlapped \/ \A a \in Agents : Exists(a) => row[a].completed = results[a]

\* Cap and counter are exact as long as no two calls overlap in the manager.
ExactUnlessRaced == LifecycleTypeOK /\ LimitUnlessRaced /\ CountUnlessRaced

\* "Dismiss dismisses a sub-agent (cannot be revived)" (lifecycle.go, line 146):
\* with every interleaving of what the program calls, and with Suspend too as
\* long as it does not overlap.  "Kill immediately kills a sub-agent and removes
\* it" (line 216): no late write of a concurrent call brings a row back.
DismissedIsFinal ==
  [][/\ \A a \in deleted : row'[a].status = "none"
     /\ (suspends = 0 \/ ~ overlapped) => \A a \in Agents :
          row[a].status = "dismissed" => row'[a].status \in {"dismissed", "none"}]_lifecycleVars

=============================================================================
