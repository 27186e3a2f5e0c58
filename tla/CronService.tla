---------------------------- MODULE CronService -----------------------------
(***************************************************************************)
(* Scheduled jobs: cron.CronService (pkg/cron/service.go) in the gateway,  *)
(* which creates a new service for every configuration reload while the    *)
(* loop of the old one may still execute a job; the cron tool              *)
(* (pkg/tools/cron.go); and the commands of `moonhub cron`                 *)
(* (cmd/moonhub/internal/cron), processes of their own that load, change   *)
(* and save the same file.                                                 *)
(*                                                                         *)
(* A job is present, enabled, and has a next run or none.  Critical        *)
(* sections of cs.mu are one step, with the save they end with.  Time      *)
(* makes the time of a one-shot job pass; a recurring job with a next run  *)
(* may be due at any tick.                                                 *)
(***************************************************************************)
EXTENDS Naturals, FiniteSets

CONSTANTS
  Jobs,
  OneShot,     \* jobs of kind "at"; the others are of kind "every" or "cron"
  MaxServices, \* bound: services created, by reloads and restarts
  MaxFaults,   \* bound: saves that fail and runs of `moonhub cron`, together
  Commands,    \* TRUE: there are runs of `moonhub cron`
  None

ASSUME ConstantsAssumption ==
  /\ OneShot \subseteq Jobs /\ None \notin Jobs
  /\ MaxServices \in Nat \ {0} /\ MaxFaults \in Nat /\ Commands \in BOOLEAN

Services == 1 .. MaxServices
Job == [present : BOOLEAN, enabled : BOOLEAN, next : BOOLEAN]
Absent == [present |-> FALSE, enabled |-> FALSE, next |-> FALSE]
Empty == [j \in Jobs |-> Absent]

VARIABLES
  file,     \* jobs.json
  mem,      \* cs.store of every service
  mode,     \* of a service: "none", "running", "stopped" or "dead"
  current,  \* the service of the gateway and of its cron tool
  due,      \* dueJobIDs still to be executed by a service's loop
  exec,     \* the job whose handler runs, or None
  edit,     \* a copy AddJob returned and UpdateJob is about to store
  past,     \* one-shot jobs whose time has passed
  starts,   \* how often the handler of a one-shot job was called (2: more than once)
  added,    \* jobs that were ever added (IDs are not used twice)
  stray,    \* the file was not last written by a save of the current service
  faults

vars == <<file, mem, mode, current, due, exec, edit, past, starts, added, stray, faults>>
loops == <<due, exec, starts>>
process == <<mode, current>>

Init ==
  /\ file = Empty
  /\ mem = [g \in Services |-> Empty]
  /\ mode = [g \in Services |-> IF g = 1 THEN "running" ELSE "none"]
  /\ current = 1
  /\ due = [g \in Services |-> {}]
  /\ exec = [g \in Services |-> None]
  /\ edit = None
  /\ past = {}
  /\ starts = [j \in OneShot |-> 0]
  /\ added = {}
  /\ stray = FALSE
  /\ faults = 0

\* Mutant of NextRun: a time that has passed counts as a next run.
NextRunAlways(j) == j \in Jobs

\* computeNextRun: is there one?
NextRun(j) == j \in OneShot => j \notin past

-----------------------------------------------------------------------------
\* saveStoreUnsafe of service g with the given store; it may fail.
Save(g, store) ==
  /\ mem' = [mem EXCEPT ![g] = store]
  /\ \/ /\ file' = store
        /\ stray' = (g # current)
        /\ UNCHANGED faults
     \/ /\ faults < MaxFaults
        /\ faults' = faults + 1
        /\ stray' = TRUE
        /\ UNCHANGED file

(***************************************************************************)
(* runLoop                                                                 *)
(***************************************************************************)
IsDue(g, j) ==
  /\ mem[g][j].enabled /\ mem[g][j].next
  /\ j \in OneShot => j \in past

\* A tick: the due jobs lose their next run and the store is saved, due jobs
\* or not.
CheckJobs(g, dueJobs) ==
  /\ mode[g] = "running"
  /\ due[g] = {} /\ exec[g] = None
  /\ dueJobs \subseteq {j \in Jobs : IsDue(g, j)}
  /\ {j \in OneShot : IsDue(g, j)} \subseteq dueJobs
  /\ due' = [due EXCEPT ![g] = dueJobs]
  /\ Save(g, [j \in Jobs |-> IF j \in dueJobs THEN [mem[g][j] EXCEPT !.next = FALSE] ELSE mem[g][j]])
  /\ UNCHANGED <<process, exec, starts, edit, past, added>>

\* executeJobByID: a job that is gone is skipped; whether it or the service
\* still is enabled is not asked.
Execute(g, j) ==
  /\ exec[g] = None
  /\ j \in due[g]
  /\ due' = [due EXCEPT ![g] = @ \ {j}]
  /\ IF mem[g][j].present
     THEN /\ exec' = [exec EXCEPT ![g] = j]
          /\ starts' = [i \in OneShot |-> IF i = j /\ starts[i] < 2 THEN starts[i] + 1 ELSE starts[i]]
     ELSE UNCHANGED <<exec, starts>>
  /\ UNCHANGED <<file, mem, process, edit, past, added, stray, faults>>

\* Mutant of Finish: the result is recorded whether or not the job is there.
FinishAnyway(g) ==
  /\ exec[g] # None
  /\ exec' = [exec EXCEPT ![g] = None]
  /\ Save(g, [mem[g] EXCEPT ![exec[g]] =
                IF exec[g] \in OneShot THEN Absent
                ELSE [present |-> TRUE, enabled |-> mem[g][exec[g]].enabled, next |-> TRUE]])
  /\ UNCHANGED <<process, due, starts, edit, past, added>>

\* The handler returns: a one-shot job is deleted, a recurring one gets its
\* next run.
Finish(g) ==
  /\ exec[g] # None
  /\ exec' = [exec EXCEPT ![g] = None]
  /\ IF mem[g][exec[g]].present
     THEN Save(g, [mem[g] EXCEPT ![exec[g]] =
                     IF exec[g] \in OneShot THEN Absent ELSE [@ EXCEPT !.next = NextRun(exec[g])]])
     ELSE UNCHANGED <<file, mem, stray, faults>>
  /\ UNCHANGED <<process, due, starts, edit, past, added>>

TimePasses(j) ==
  /\ j \in OneShot \ past
  /\ past' = past \cup {j}
  /\ UNCHANGED <<file, mem, process, loops, edit, added, stray, faults>>

-----------------------------------------------------------------------------
(***************************************************************************)
(* The cron tool                                                           *)
(***************************************************************************)
ToolWorks == mode[current] \in {"running", "stopped"}
NewJob(j) == [present |-> TRUE, enabled |-> TRUE, next |-> NextRun(j)]

\* AddJob; with a command the tool goes on with UpdateJob.  When the save
\* fails the caller gets an error, and the job stays in memory.
AddJob(j) ==
  /\ ToolWorks
  /\ j \notin added
  /\ added' = added \cup {j}
  /\ Save(current, [mem[current] EXCEPT ![j] = NewJob(j)])
  /\ edit' \in {edit} \cup
       IF edit = None /\ faults' = faults THEN {[service |-> current, job |-> j, copy |-> NewJob(j)]} ELSE {}
  /\ UNCHANGED <<process, loops, past>>

UpdateJob ==
  /\ edit # None
  /\ edit' = None
  /\ IF mem[edit.service][edit.job].present
     THEN Save(edit.service, [mem[edit.service] EXCEPT ![edit.job] = edit.copy])
     ELSE UNCHANGED <<file, mem, stray, faults>>
  /\ UNCHANGED <<process, loops, past, added>>

RemoveJob(j) ==
  /\ ToolWorks
  /\ mem[current][j].present
  /\ Save(current, [mem[current] EXCEPT ![j] = Absent])
  /\ UNCHANGED <<process, loops, edit, past, added>>

Switched(j, job, enabled) == [job EXCEPT !.enabled = enabled, !.next = enabled /\ NextRun(j)]

\* Mutant of EnableJob: the change is not saved.
EnableJobInMemory(j, enabled) ==
  /\ ToolWorks
  /\ mem[current][j].present
  /\ mem' = [mem EXCEPT ![current][j] = Switched(j, @, enabled)]
  /\ UNCHANGED <<file, stray, faults, process, loops, edit, past, added>>

EnableJob(j, enabled) ==
  /\ ToolWorks
  /\ mem[current][j].present
  /\ Save(current, [mem[current] EXCEPT ![j] = Switched(j, @, enabled)])
  /\ UNCHANGED <<process, loops, edit, past, added>>

-----------------------------------------------------------------------------
(***************************************************************************)
(* Stop, the next service, and a crash                                     *)
(***************************************************************************)
\* Stop does not wait for the loop, which finishes its list.
Stop ==
  /\ mode[current] = "running"
  /\ mode' = [mode EXCEPT ![current] = "stopped"]
  /\ UNCHANGED <<file, mem, current, loops, edit, past, added, stray, faults>>

\* Mutant of Start: the next runs in the file are taken as they are.
StartAsSaved ==
  /\ mode[current] # "running"
  /\ current < MaxServices
  /\ current' = current + 1
  /\ mem' = [mem EXCEPT ![current'] = file]
  /\ stray' = FALSE
  /\ mode' = [mode EXCEPT ![current'] = "running"]
  /\ UNCHANGED <<file, faults, loops, edit, past, added>>

\* NewCronService and Start: load, recompute the next runs, save.
Start ==
  /\ mode[current] # "running"
  /\ current < MaxServices
  /\ current' = current + 1
  /\ LET store == [j \in Jobs |-> IF file[j].enabled THEN [file[j] EXCEPT !.next = NextRun(j)] ELSE file[j]]
     IN  /\ mem' = [mem EXCEPT ![current'] = store]
         /\ \/ /\ file' = store
               /\ stray' = FALSE
               /\ mode' = [mode EXCEPT ![current'] = "running"]
               /\ UNCHANGED faults
            \/ /\ faults < MaxFaults
               /\ faults' = faults + 1
               /\ stray' = TRUE
               /\ mode' = [mode EXCEPT ![current'] = "stopped"]
               /\ UNCHANGED file
  /\ UNCHANGED <<loops, edit, past, added>>

\* The gateway dies; the file and a command on its way remain.
Crash ==
  /\ mode[current] # "dead"
  /\ mode' = [g \in Services |-> IF mode[g] = "none" THEN "none" ELSE "dead"]
  /\ mem' = [g \in Services |-> Empty]
  /\ due' = [g \in Services |-> {}]
  /\ exec' = [g \in Services |-> None]
  /\ edit' = None
  /\ UNCHANGED <<file, current, starts, past, added, stray, faults>>

-----------------------------------------------------------------------------
(***************************************************************************)
(* `moonhub cron add`, `remove`, `enable` and `disable`                    *)
(***************************************************************************)
\* A command loads the file, changes it and saves it.
Command(store) ==
  /\ Commands
  /\ faults < MaxFaults
  /\ faults' = faults + 1
  /\ file' = store
  /\ stray' = TRUE
  /\ UNCHANGED <<mem, process, loops, edit, past>>

CommandAdds(j) ==
  /\ j \notin added \cup OneShot
  /\ added' = added \cup {j}
  /\ Command([file EXCEPT ![j] = NewJob(j)])

CommandRemoves(j) ==
  /\ file[j].present
  /\ Command([file EXCEPT ![j] = Absent])
  /\ UNCHANGED added

CommandEnables(j, enabled) ==
  /\ file[j].present
  /\ Command([file EXCEPT ![j] = Switched(j, @, enabled)])
  /\ UNCHANGED added

Next ==
  \/ \E g \in Services : Finish(g) \/ \E j \in Jobs : Execute(g, j)
  \/ \E g \in Services, dueJobs \in SUBSET Jobs : CheckJobs(g, dueJobs)
  \/ \E j \in Jobs : TimePasses(j) \/ AddJob(j) \/ RemoveJob(j) \/ CommandAdds(j) \/ CommandRemoves(j)
  \/ \E j \in Jobs, enabled \in BOOLEAN : EnableJob(j, enabled) \/ CommandEnables(j, enabled)
  \/ UpdateJob \/ Stop \/ Start \/ Crash

Spec == Init /\ [][Next]_vars

-----------------------------------------------------------------------------
TypeOK ==
  /\ file \in [Jobs -> Job]
  /\ mem \in [Services -> [Jobs -> Job]]
  /\ mode \in [Services -> {"none", "running", "stopped", "dead"}]
  /\ current \in Services
  /\ due \in [Services -> SUBSET Jobs]
  /\ exec \in [Services -> Jobs \cup {None}]
  /\ \A g \in Services : exec[g] \notin due[g]
  /\ \A g \in Services : mode[g] = "running" => g = current

\* A one-shot job is executed at most once, whatever reloads, crashes, failed
\* saves and commands bring back of it.
OneShotRunsOnce == \A j \in OneShot : starts[j] <= 1

\* An enabled recurring job never loses its next run while the service works:
\* it has one, or the loop is about to give it one.
RecurringKeepsNextRun ==
  \A g \in Services, j \in Jobs \ OneShot :
    mode[g] = "running" /\ mem[g][j].enabled => mem[g][j].next \/ j \in due[g] \/ exec[g] = j

\* A job that a service gave up never comes back to it, though copies of it are
\* on their way in UpdateJob and in the loop.
GoneStaysGone ==
  [][\A g \in Services, j \in Jobs :
       g <= current /\ j \in added /\ ~mem[g][j].present => ~mem'[g][j].present]_vars

\* A crash loses nothing the gateway answered for, unless its last save failed
\* or another writer came after it.
FileIsCurrent == mode[current] = "running" /\ ~stray => file = mem[current]

=============================================================================
