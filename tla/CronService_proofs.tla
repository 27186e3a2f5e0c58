------------------------- MODULE CronService_proofs -------------------------
(***************************************************************************)
(* Proofs about CronService for any jobs, any number of services, failing  *)
(* saves and commands: its types, that a recurring job is never forgotten, *)
(* that a job a service gave up does not come back to it, and that a       *)
(* one-shot job is executed once at most.                                  *)
(***************************************************************************)
EXTENDS CronService, TLAPS

USE ConstantsAssumption

\* The store a save leaves behind is the one it was given, in memory always
\* and in the file unless the write fails.
LEMMA SaveEffect ==
  ASSUME NEW g \in Services, NEW store, Save(g, store)
  PROVE  /\ mem' = [mem EXCEPT ![g] = store]
         /\ file' = store \/ file' = file
BY DEF Save

\* Saving a well-formed store keeps file and memory well formed.
LEMMA SaveType ==
  ASSUME TypeOK, NEW g \in Services, NEW store \in [Jobs -> Job], Save(g, store)
  PROVE  file' \in [Jobs -> Job] /\ mem' \in [Services -> [Jobs -> Job]]
BY SaveEffect DEF TypeOK

\* Changing one job of a well-formed store keeps it well formed.
LEMMA ChangeType ==
  ASSUME NEW store \in [Jobs -> Job], NEW j \in Jobs, NEW job \in Job
  PROVE  [store EXCEPT ![j] = job] \in [Jobs -> Job]
OBVIOUS

\* The jobs the operations write are jobs.
LEMMA JobTypes ==
  ASSUME NEW j \in Jobs, NEW job \in Job, NEW b \in BOOLEAN
  PROVE  /\ Absent \in Job /\ NewJob(j) \in Job
         /\ Switched(j, job, b) \in Job
         /\ [job EXCEPT !.next = NextRun(j)] \in Job
         /\ [job EXCEPT !.next = FALSE] \in Job
<1>1. NextRun(j) \in BOOLEAN
  BY DEF NextRun
<1> QED BY <1>1 DEF Job, Absent, NewJob, Switched

-----------------------------------------------------------------------------
\* What UpdateJob is about to store is a job, with a next run if it recurs.
EditOK ==
  edit # None =>
    /\ edit \in [service : Services, job : Jobs, copy : Job]
    /\ edit.copy.present
    /\ edit.job \notin OneShot => edit.copy.next

\* A job that is gone is not enabled, in memory and in the file.
GoneIsOff ==
  /\ \A g \in Services, j \in Jobs : mem[g][j].enabled => mem[g][j].present
  /\ \A j \in Jobs : file[j].enabled => file[j].present

IInv == TypeOK /\ EditOK /\ GoneIsOff /\ RecurringKeepsNextRun

\* The first service starts without jobs.
LEMMA IInvInit == Init => IInv
<1> SUFFICES ASSUME Init PROVE IInv
  OBVIOUS
<1>1. Empty \in [Jobs -> Job]
  BY DEF Empty, Absent, Job
<1>2. TypeOK
  BY <1>1 DEF Init, TypeOK, Services
<1>3. EditOK
  BY DEF Init, EditOK
<1>4. GoneIsOff /\ RecurringKeepsNextRun
  BY DEF Init, GoneIsOff, RecurringKeepsNextRun, Empty, Absent
<1> QED BY <1>2, <1>3, <1>4 DEF IInv

-----------------------------------------------------------------------------
\* Types, one step per action.
LEMMA TypeStep == TypeOK /\ EditOK /\ [Next]_vars => TypeOK'
<1> SUFFICES ASSUME TypeOK, EditOK, [Next]_vars PROVE TypeOK'
  OBVIOUS
<1> USE DEF process, loops
<1>1. ASSUME NEW g \in Services, Finish(g) PROVE TypeOK'
  <2>1. file' \in [Jobs -> Job] /\ mem' \in [Services -> [Jobs -> Job]]
    <3>1. CASE mem[g][exec[g]].present
      <4>1. exec[g] \in Jobs
        BY <1>1 DEF Finish, TypeOK
      <4>2. mem[g] \in [Jobs -> Job] /\ mem[g][exec[g]] \in Job
        BY <4>1 DEF TypeOK
      <4>3. (IF exec[g] \in OneShot THEN Absent
             ELSE [mem[g][exec[g]] EXCEPT !.next = NextRun(exec[g])]) \in Job
        BY <4>1, <4>2, JobTypes
      <4>4. [mem[g] EXCEPT ![exec[g]] =
               IF exec[g] \in OneShot THEN Absent ELSE [@ EXCEPT !.next = NextRun(exec[g])]]
              \in [Jobs -> Job]
        BY <4>1, <4>2, <4>3
      <4> QED BY <1>1, <3>1, <4>4, SaveType DEF Finish
    <3>2. CASE ~mem[g][exec[g]].present
      BY <1>1, <3>2 DEF Finish, TypeOK
    <3> QED BY <3>1, <3>2
  <2> QED BY <1>1, <2>1 DEF Finish, TypeOK
<1>2. ASSUME NEW g \in Services, NEW j \in Jobs, Execute(g, j) PROVE TypeOK'
  <2>1. /\ due' = [due EXCEPT ![g] = @ \ {j}]
        /\ exec' = [exec EXCEPT ![g] = j] \/ exec' = exec
        /\ exec[g] = None
    BY <1>2 DEF Execute
  <2>2. UNCHANGED <<file, mem, mode, current>>
    BY <1>2 DEF Execute
  <2>3. due' \in [Services -> SUBSET Jobs] /\ exec' \in [Services -> Jobs \cup {None}]
    BY <2>1 DEF TypeOK
  <2>4. \A s \in Services : exec'[s] \notin due'[s]
    BY <2>1 DEF TypeOK
  <2> QED BY <2>2, <2>3, <2>4 DEF TypeOK
<1>3. ASSUME NEW g \in Services, NEW dueJobs \in SUBSET Jobs, CheckJobs(g, dueJobs) PROVE TypeOK'
  <2>1. [j \in Jobs |-> IF j \in dueJobs THEN [mem[g][j] EXCEPT !.next = FALSE] ELSE mem[g][j]]
          \in [Jobs -> Job]
    <3>1. ASSUME NEW j \in Jobs PROVE mem[g][j] \in Job /\ [mem[g][j] EXCEPT !.next = FALSE] \in Job
      <4>1. mem[g][j] \in Job
        BY DEF TypeOK
      <4> QED BY <4>1 DEF Job
    <3> QED BY <3>1
  <2>2. file' \in [Jobs -> Job] /\ mem' \in [Services -> [Jobs -> Job]]
    BY <1>3, <2>1, SaveType DEF CheckJobs
  <2>3. due' = [due EXCEPT ![g] = dueJobs] /\ exec' = exec /\ exec[g] = None
    BY <1>3 DEF CheckJobs
  <2>4. mode' = mode /\ current' = current
    BY <1>3 DEF CheckJobs
  <2>5. due' \in [Services -> SUBSET Jobs]
    BY <2>3 DEF TypeOK
  <2>6. \A s \in Services : exec'[s] \notin due'[s]
    BY <2>3 DEF TypeOK
  <2> QED BY <2>2, <2>3, <2>4, <2>5, <2>6 DEF TypeOK
<1>4. ASSUME NEW j \in Jobs, TimePasses(j) PROVE TypeOK'
  BY <1>4 DEF TimePasses, TypeOK
<1>5. ASSUME NEW j \in Jobs, AddJob(j) PROVE TypeOK'
  <2>1. [mem[current] EXCEPT ![j] = NewJob(j)] \in [Jobs -> Job]
    BY JobTypes, ChangeType DEF TypeOK
  <2>2. file' \in [Jobs -> Job] /\ mem' \in [Services -> [Jobs -> Job]]
    BY <1>5, <2>1, SaveType DEF AddJob, TypeOK
  <2> QED BY <1>5, <2>2 DEF AddJob, TypeOK
<1>6. ASSUME NEW j \in Jobs, RemoveJob(j) PROVE TypeOK'
  <2>1. [mem[current] EXCEPT ![j] = Absent] \in [Jobs -> Job]
    BY JobTypes, ChangeType DEF TypeOK
  <2>2. file' \in [Jobs -> Job] /\ mem' \in [Services -> [Jobs -> Job]]
    BY <1>6, <2>1, SaveType DEF RemoveJob, TypeOK
  <2> QED BY <1>6, <2>2 DEF RemoveJob, TypeOK
<1>7. ASSUME NEW j \in Jobs, CommandAdds(j) PROVE TypeOK'
  <2>1. [file EXCEPT ![j] = NewJob(j)] \in [Jobs -> Job]
    BY JobTypes, ChangeType DEF TypeOK
  <2> QED BY <1>7, <2>1 DEF CommandAdds, Command, TypeOK
<1>8. ASSUME NEW j \in Jobs, CommandRemoves(j) PROVE TypeOK'
  <2>1. [file EXCEPT ![j] = Absent] \in [Jobs -> Job]
    BY JobTypes, ChangeType DEF TypeOK
  <2> QED BY <1>8, <2>1 DEF CommandRemoves, Command, TypeOK
<1>9. ASSUME NEW j \in Jobs, NEW b \in BOOLEAN, EnableJob(j, b) PROVE TypeOK'
  <2>1. mem[current] \in [Jobs -> Job] /\ mem[current][j] \in Job
    BY DEF TypeOK
  <2>2. [mem[current] EXCEPT ![j] = Switched(j, @, b)] \in [Jobs -> Job]
    BY <2>1, JobTypes
  <2>3. file' \in [Jobs -> Job] /\ mem' \in [Services -> [Jobs -> Job]]
    BY <1>9, <2>2, SaveType DEF EnableJob, TypeOK
  <2> QED BY <1>9, <2>3 DEF EnableJob, TypeOK
<1>10. ASSUME NEW j \in Jobs, NEW b \in BOOLEAN, CommandEnables(j, b) PROVE TypeOK'
  <2>1. file \in [Jobs -> Job] /\ file[j] \in Job
    BY DEF TypeOK
  <2>2. [file EXCEPT ![j] = Switched(j, @, b)] \in [Jobs -> Job]
    BY <2>1, JobTypes
  <2> QED BY <1>10, <2>2 DEF CommandEnables, Command, TypeOK
<1>11. ASSUME UpdateJob PROVE TypeOK'
  <2>1. edit.service \in Services /\ edit.job \in Jobs /\ edit.copy \in Job
    BY <1>11 DEF UpdateJob, EditOK
  <2>2. [mem[edit.service] EXCEPT ![edit.job] = edit.copy] \in [Jobs -> Job]
    BY <2>1, ChangeType DEF TypeOK
  <2>3. file' \in [Jobs -> Job] /\ mem' \in [Services -> [Jobs -> Job]]
    BY <1>11, <2>1, <2>2, SaveType DEF UpdateJob, TypeOK
  <2> QED BY <1>11, <2>3 DEF UpdateJob, TypeOK
<1>12. ASSUME Stop PROVE TypeOK'
  BY <1>12 DEF Stop, TypeOK
<1>13. ASSUME Start PROVE TypeOK'
  <2>1. current + 1 \in Services
    BY <1>13 DEF Start, TypeOK, Services
  <2>2. [j \in Jobs |-> IF file[j].enabled THEN [file[j] EXCEPT !.next = NextRun(j)] ELSE file[j]]
          \in [Jobs -> Job]
    BY JobTypes DEF TypeOK
  <2>3. file' \in [Jobs -> Job] /\ mem' \in [Services -> [Jobs -> Job]]
    BY <1>13, <2>1, <2>2 DEF Start, TypeOK
  <2>4. /\ mode' \in [Services -> {"none", "running", "stopped", "dead"}]
        /\ current' \in Services
        /\ \A g \in Services : mode'[g] = "running" => g = current'
    BY <1>13, <2>1 DEF Start, TypeOK
  <2> QED BY <1>13, <2>3, <2>4 DEF Start, TypeOK
<1>14. ASSUME Crash PROVE TypeOK'
  <2>1. Empty \in [Jobs -> Job]
    BY DEF Empty, Absent, Job
  <2> QED BY <1>14, <2>1 DEF Crash, TypeOK
<1>15. CASE UNCHANGED vars
  BY <1>15 DEF vars, TypeOK
<1> QED
  BY <1>1, <1>2, <1>3, <1>4, <1>5, <1>6, <1>7, <1>8, <1>9, <1>10, <1>11, <1>12, <1>13, <1>14, <1>15
  DEF Next

-----------------------------------------------------------------------------
\* A save changes one service's store, and leaves in the file that store or
\* what was there; so "what is gone is off" is preserved by saving a store of
\* which it is true.
LEMMA SaveGone ==
  ASSUME TypeOK, GoneIsOff, NEW g \in Services, NEW store \in [Jobs -> Job], Save(g, store),
         \A j \in Jobs : store[j].enabled => store[j].present
  PROVE  GoneIsOff'
<1>1. mem' = [mem EXCEPT ![g] = store] /\ (file' = store \/ file' = file)
  BY SaveEffect
<1>2. \A s \in Services, j \in Jobs : mem'[s][j].enabled => mem'[s][j].present
  BY <1>1 DEF TypeOK, GoneIsOff
<1>3. \A j \in Jobs : file'[j].enabled => file'[j].present
  BY <1>1 DEF GoneIsOff
<1> QED BY <1>2, <1>3 DEF GoneIsOff

\* A service whose jobs are each as before, or off, or with a next run, or in
\* the hands of its loop, forgets none.
Kept(store, dueJobs, running) ==
  \A j \in Jobs \ OneShot : store[j].enabled => store[j].next \/ j \in dueJobs \/ running = j

LEMMA SaveKept ==
  ASSUME TypeOK, RecurringKeepsNextRun, NEW g \in Services, NEW store, Save(g, store),
         UNCHANGED mode,
         \A s \in Services : s # g => due'[s] = due[s] /\ exec'[s] = exec[s],
         mode[g] = "running" => Kept(store, due'[g], exec'[g])
  PROVE  RecurringKeepsNextRun'
<1>1. mem' = [mem EXCEPT ![g] = store]
  BY SaveEffect
<1> SUFFICES ASSUME NEW s \in Services, NEW j \in Jobs \ OneShot,
                    mode'[s] = "running", mem'[s][j].enabled
             PROVE  mem'[s][j].next \/ j \in due'[s] \/ exec'[s] = j
  BY DEF RecurringKeepsNextRun
<1>2. CASE s = g
  <2>1. mem'[s] = store
    BY <1>1, <1>2 DEF TypeOK
  <2> QED BY <1>2, <2>1 DEF Kept
<1>3. CASE s # g
  <2>1. mem'[s] = mem[s]
    BY <1>1, <1>3 DEF TypeOK
  <2> QED BY <1>3, <2>1 DEF RecurringKeepsNextRun
<1> QED BY <1>2, <1>3

\* A recurring job always has a next run to be given.
LEMMA RecurringNextRun == ASSUME NEW j \in Jobs \ OneShot PROVE NextRun(j) /\ NewJob(j).next
BY DEF NextRun, NewJob

\* What the tools do: one job of one service is replaced and saved.
LEMMA ChangeStep ==
  ASSUME TypeOK, GoneIsOff, RecurringKeepsNextRun,
         NEW g \in Services, NEW j \in Jobs, NEW job \in Job,
         Save(g, [mem[g] EXCEPT ![j] = job]), UNCHANGED <<mode, due, exec>>,
         job.enabled => job.present,
         job.enabled /\ j \notin OneShot => job.next
  PROVE  GoneIsOff' /\ RecurringKeepsNextRun'
<1> DEFINE store == [mem[g] EXCEPT ![j] = job]
<1>1. mem[g] \in [Jobs -> Job] /\ store \in [Jobs -> Job]
  BY ChangeType DEF TypeOK
<1>2. \A i \in Jobs : store[i].enabled => store[i].present
  BY <1>1 DEF GoneIsOff
<1>3. mode[g] = "running" => Kept(store, due'[g], exec'[g])
  BY <1>1 DEF Kept, RecurringKeepsNextRun
<1>4. GoneIsOff'
  BY <1>1, <1>2, SaveGone
<1>5. RecurringKeepsNextRun'
  BY <1>3, SaveKept
<1> QED BY <1>4, <1>5

\* Enabled and present are set together, or taken from a job of which it holds.
LEMMA IInvNext == IInv /\ [Next]_vars => IInv'
<1> SUFFICES ASSUME TypeOK, EditOK, GoneIsOff, RecurringKeepsNextRun, [Next]_vars
             PROVE  EditOK' /\ GoneIsOff' /\ RecurringKeepsNextRun'
  BY TypeStep DEF IInv
<1> USE DEF process, loops
<1>1. ASSUME NEW g \in Services, Finish(g)
      PROVE  EditOK' /\ GoneIsOff' /\ RecurringKeepsNextRun'
  <2>1. EditOK'
    BY <1>1 DEF Finish, EditOK
  <2>2. exec[g] \in Jobs /\ exec' = [exec EXCEPT ![g] = None] /\ due' = due /\ mode' = mode
    BY <1>1 DEF Finish, TypeOK
  <2>3. CASE mem[g][exec[g]].present
    <3> DEFINE job == IF exec[g] \in OneShot THEN Absent
                      ELSE [mem[g][exec[g]] EXCEPT !.next = NextRun(exec[g])]
               store == [mem[g] EXCEPT ![exec[g]] = job]
    <3>1. mem[g] \in [Jobs -> Job] /\ mem[g][exec[g]] \in Job
      BY <2>2 DEF TypeOK
    <3>2. job \in Job
      BY <2>2, <3>1, JobTypes
    <3>3. store \in [Jobs -> Job]
      BY <2>2, <3>1, <3>2, ChangeType
    <3>4. Save(g, store)
      BY <1>1, <2>3 DEF Finish
    <3>5. job.enabled => job.present
      BY <2>3, <3>1 DEF Absent, Job
    <3>6. \A j \in Jobs : store[j].enabled => store[j].present
      BY <2>2, <3>1, <3>5 DEF GoneIsOff
    <3>7. exec[g] \notin OneShot => job.next
      BY <2>2, <3>1, RecurringNextRun DEF Job
    <3>8. mode[g] = "running" => Kept(store, due'[g], exec'[g])
      BY <2>2, <3>1, <3>7 DEF Kept, RecurringKeepsNextRun
    <3>9. \A s \in Services : s # g => due'[s] = due[s] /\ exec'[s] = exec[s]
      BY <2>2 DEF TypeOK
    <3>10. GoneIsOff'
      BY <3>3, <3>4, <3>6, SaveGone
    <3>11. RecurringKeepsNextRun'
      BY <2>2, <3>4, <3>8, <3>9, SaveKept
    <3> QED BY <2>1, <3>10, <3>11
  <2>4. CASE ~mem[g][exec[g]].present
    <3>1. UNCHANGED <<file, mem>>
      BY <1>1, <2>4 DEF Finish
    <3>2. GoneIsOff'
      BY <3>1 DEF GoneIsOff
    <3>3. ~mem[g][exec[g]].enabled
      BY <2>2, <2>4 DEF GoneIsOff
    <3>4. RecurringKeepsNextRun'
      BY <2>2, <3>1, <3>3 DEF RecurringKeepsNextRun, TypeOK
    <3> QED BY <2>1, <3>2, <3>4
  <2> QED BY <2>3, <2>4
<1>2. ASSUME NEW g \in Services, NEW i \in Jobs, Execute(g, i)
      PROVE  EditOK' /\ GoneIsOff' /\ RecurringKeepsNextRun'
  <2>1. EditOK' /\ GoneIsOff'
    BY <1>2 DEF Execute, EditOK, GoneIsOff
  <2>2. /\ due' = [due EXCEPT ![g] = @ \ {i}]
        /\ exec[g] = None
        /\ UNCHANGED <<mem, mode>>
    BY <1>2 DEF Execute
  <2>3. CASE mem[g][i].present
    <3>1. exec' = [exec EXCEPT ![g] = i]
      BY <1>2, <2>3 DEF Execute
    <3>2. RecurringKeepsNextRun'
      BY <2>2, <3>1 DEF RecurringKeepsNextRun, TypeOK
    <3> QED BY <2>1, <3>2
  <2>4. CASE ~mem[g][i].present
    <3>1. exec' = exec
      BY <1>2, <2>4 DEF Execute
    <3>2. ~mem[g][i].enabled
      BY <2>4 DEF GoneIsOff
    <3>3. RecurringKeepsNextRun'
      BY <2>2, <3>1, <3>2 DEF RecurringKeepsNextRun, TypeOK
    <3> QED BY <2>1, <3>3
  <2> QED BY <2>3, <2>4
<1>3. ASSUME NEW g \in Services, NEW dueJobs \in SUBSET Jobs, CheckJobs(g, dueJobs)
      PROVE  EditOK' /\ GoneIsOff' /\ RecurringKeepsNextRun'
  <2> DEFINE store == [j \in Jobs |-> IF j \in dueJobs THEN [mem[g][j] EXCEPT !.next = FALSE]
                                      ELSE mem[g][j]]
  <2>1. EditOK'
    BY <1>3 DEF CheckJobs, EditOK
  <2>2. Save(g, store) /\ due' = [due EXCEPT ![g] = dueJobs] /\ UNCHANGED <<mode, exec>>
    BY <1>3 DEF CheckJobs
  <2>3. due[g] = {} /\ exec[g] = None
    BY <1>3 DEF CheckJobs
  <2>4. \A j \in Jobs : /\ store[j] \in Job
                        /\ store[j].enabled <=> mem[g][j].enabled
                        /\ store[j].present <=> mem[g][j].present
                        /\ j \notin dueJobs => store[j] = mem[g][j]
    <3> SUFFICES ASSUME NEW j \in Jobs
                 PROVE  /\ store[j] \in Job
                        /\ store[j].enabled <=> mem[g][j].enabled
                        /\ store[j].present <=> mem[g][j].present
                        /\ j \notin dueJobs => store[j] = mem[g][j]
      OBVIOUS
    <3>1. mem[g][j] \in Job
      BY DEF TypeOK
    <3> QED BY <3>1 DEF Job
  <2>5. store \in [Jobs -> Job]
    BY <2>4
  <2>6. \A j \in Jobs : store[j].enabled => store[j].present
    BY <2>4 DEF GoneIsOff
  <2>7. mode[g] = "running" => Kept(store, due'[g], exec'[g])
    <3>1. due'[g] = dueJobs
      BY <2>2 DEF TypeOK
    <3>2. ASSUME mode[g] = "running", NEW j \in Jobs \ OneShot, store[j].enabled, j \notin dueJobs
          PROVE  store[j].next
      <4>1. mem[g][j].enabled /\ store[j] = mem[g][j]
        BY <2>4, <3>2
      <4>2. mem[g][j].next
        BY <2>3, <3>2, <4>1 DEF RecurringKeepsNextRun
      <4> QED BY <4>1, <4>2
    <3> QED BY <3>1, <3>2 DEF Kept
  <2>8. \A s \in Services : s # g => due'[s] = due[s] /\ exec'[s] = exec[s]
    BY <2>2 DEF TypeOK
  <2>9. GoneIsOff'
    BY <2>2, <2>5, <2>6, SaveGone
  <2>10. RecurringKeepsNextRun'
    BY <2>2, <2>7, <2>8, SaveKept
  <2> QED BY <2>1, <2>9, <2>10
<1>4. ASSUME NEW j \in Jobs, TimePasses(j)
      PROVE  EditOK' /\ GoneIsOff' /\ RecurringKeepsNextRun'
  BY <1>4 DEF TimePasses, EditOK, GoneIsOff, RecurringKeepsNextRun
<1>5. ASSUME NEW j \in Jobs, AddJob(j)
      PROVE  EditOK' /\ GoneIsOff' /\ RecurringKeepsNextRun'
  <2>1. current \in Services /\ NewJob(j) \in Job
    BY JobTypes DEF TypeOK
  <2>2. Save(current, [mem[current] EXCEPT ![j] = NewJob(j)]) /\ UNCHANGED <<mode, due, exec>>
    BY <1>5 DEF AddJob
  <2>3. NewJob(j).enabled /\ NewJob(j).present /\ (j \notin OneShot => NewJob(j).next)
    BY RecurringNextRun DEF NewJob
  <2>4. EditOK'
    <3>1. CASE edit' = edit
      BY <3>1 DEF EditOK
    <3>2. CASE edit' = [service |-> current, job |-> j, copy |-> NewJob(j)]
      BY <2>1, <2>3, <3>2 DEF EditOK
    <3> QED BY <1>5, <3>1, <3>2 DEF AddJob
  <2> QED BY <2>1, <2>2, <2>3, <2>4, ChangeStep
<1>6. ASSUME NEW j \in Jobs, RemoveJob(j)
      PROVE  EditOK' /\ GoneIsOff' /\ RecurringKeepsNextRun'
  <2>1. current \in Services /\ Absent \in Job
    BY JobTypes DEF TypeOK
  <2>2. Save(current, [mem[current] EXCEPT ![j] = Absent]) /\ UNCHANGED <<mode, due, exec>>
    BY <1>6 DEF RemoveJob
  <2>3. EditOK'
    BY <1>6 DEF RemoveJob, EditOK
  <2>4. ~Absent.enabled
    BY DEF Absent
  <2> QED BY <2>1, <2>2, <2>3, <2>4, ChangeStep
<1>7. ASSUME NEW j \in Jobs, CommandAdds(j)
      PROVE  EditOK' /\ GoneIsOff' /\ RecurringKeepsNextRun'
  <2>1. UNCHANGED <<mem, mode, due, exec, edit>> /\ file' = [file EXCEPT ![j] = NewJob(j)]
    BY <1>7 DEF CommandAdds, Command
  <2>2. \A i \in Jobs : file'[i].enabled => file'[i].present
    BY <2>1 DEF TypeOK, GoneIsOff, NewJob
  <2> QED BY <2>1, <2>2 DEF EditOK, GoneIsOff, RecurringKeepsNextRun
<1>8. ASSUME NEW j \in Jobs, CommandRemoves(j)
      PROVE  EditOK' /\ GoneIsOff' /\ RecurringKeepsNextRun'
  <2>1. UNCHANGED <<mem, mode, due, exec, edit>> /\ file' = [file EXCEPT ![j] = Absent]
    BY <1>8 DEF CommandRemoves, Command
  <2>2. \A i \in Jobs : file'[i].enabled => file'[i].present
    BY <2>1 DEF TypeOK, GoneIsOff, Absent
  <2> QED BY <2>1, <2>2 DEF EditOK, GoneIsOff, RecurringKeepsNextRun
<1>9. ASSUME NEW j \in Jobs, NEW b \in BOOLEAN, EnableJob(j, b)
      PROVE  EditOK' /\ GoneIsOff' /\ RecurringKeepsNextRun'
  <2> DEFINE job == Switched(j, mem[current][j], b)
  <2>1. current \in Services /\ mem[current][j] \in Job /\ mem[current][j].present
    BY <1>9 DEF EnableJob, TypeOK
  <2>2. Save(current, [mem[current] EXCEPT ![j] = job]) /\ UNCHANGED <<mode, due, exec>>
    BY <1>9 DEF EnableJob
  <2>3. EditOK'
    BY <1>9 DEF EnableJob, EditOK
  <2>4. job \in Job
    BY <2>1, JobTypes
  <2>5. job.present /\ (job.enabled <=> b) /\ (job.next <=> b /\ NextRun(j))
    BY <2>1 DEF Switched, Job, NextRun
  <2>6. job.enabled /\ j \notin OneShot => job.next
    BY <2>5, RecurringNextRun
  <2> HIDE DEF job
  <2> QED BY <2>1, <2>2, <2>3, <2>4, <2>5, <2>6, ChangeStep
<1>10. ASSUME NEW j \in Jobs, NEW b \in BOOLEAN, CommandEnables(j, b)
      PROVE  EditOK' /\ GoneIsOff' /\ RecurringKeepsNextRun'
  <2>1. /\ UNCHANGED <<mem, mode, due, exec, edit>>
        /\ file' = [file EXCEPT ![j] = Switched(j, @, b)] /\ file[j].present
    BY <1>10 DEF CommandEnables, Command
  <2>2. file[j] \in Job
    BY DEF TypeOK
  <2>3. Switched(j, file[j], b).present
    BY <2>1, <2>2 DEF Switched, Job
  <2>4. \A i \in Jobs : file'[i].enabled => file'[i].present
    BY <2>1, <2>3 DEF TypeOK, GoneIsOff
  <2> QED BY <2>1, <2>4 DEF EditOK, GoneIsOff, RecurringKeepsNextRun
<1>11. ASSUME UpdateJob
      PROVE  EditOK' /\ GoneIsOff' /\ RecurringKeepsNextRun'
  <2> DEFINE g == edit.service
             j == edit.job
  <2>1. g \in Services /\ j \in Jobs /\ edit.copy \in Job /\ (j \notin OneShot => edit.copy.next)
    BY <1>11 DEF UpdateJob, EditOK
  <2>2. edit.copy.enabled => edit.copy.present
    BY <1>11 DEF UpdateJob, EditOK
  <2>3. EditOK' /\ UNCHANGED <<mode, due, exec>>
    BY <1>11 DEF UpdateJob, EditOK
  <2>4. CASE mem[g][j].present
    <3>1. Save(g, [mem[g] EXCEPT ![j] = edit.copy])
      BY <1>11, <2>4 DEF UpdateJob
    <3> QED BY <2>1, <2>2, <2>3, <3>1, ChangeStep
  <2>5. CASE ~mem[g][j].present
    BY <1>11, <2>3, <2>5 DEF UpdateJob, GoneIsOff, RecurringKeepsNextRun
  <2> QED BY <2>4, <2>5
<1>12. ASSUME Stop
      PROVE  EditOK' /\ GoneIsOff' /\ RecurringKeepsNextRun'
  <2>1. /\ UNCHANGED <<file, mem, due, exec, edit>>
        /\ \A s \in Services : mode'[s] = "running" => mode[s] = "running"
    BY <1>12 DEF Stop, TypeOK
  <2> QED BY <2>1 DEF EditOK, GoneIsOff, RecurringKeepsNextRun
<1>13. ASSUME Start
      PROVE  EditOK' /\ GoneIsOff' /\ RecurringKeepsNextRun'
  <2> DEFINE store == [j \in Jobs |-> IF file[j].enabled THEN [file[j] EXCEPT !.next = NextRun(j)]
                                      ELSE file[j]]
  <2>1. /\ current + 1 \in Services /\ current \in Services
        /\ mem' = [mem EXCEPT ![current + 1] = store]
        /\ file' = store \/ file' = file
        /\ UNCHANGED <<due, exec, edit>>
    BY <1>13 DEF Start, TypeOK, Services
  <2>2. \A s \in Services : mode'[s] = "running" => s = current + 1
    BY <1>13, <2>1 DEF Start, TypeOK
  <2>3. \A j \in Jobs : /\ store[j].enabled => store[j].present
                        /\ store[j].enabled /\ j \notin OneShot => store[j].next
    <3> SUFFICES ASSUME NEW j \in Jobs
                 PROVE  /\ store[j].enabled => store[j].present
                        /\ store[j].enabled /\ j \notin OneShot => store[j].next
      OBVIOUS
    <3>1. file[j] \in Job
      BY DEF TypeOK
    <3> QED BY <3>1, RecurringNextRun DEF GoneIsOff, Job
  <2> HIDE DEF store
  <2>4. EditOK'
    BY <2>1 DEF EditOK
  <2>5. GoneIsOff'
    BY <2>1, <2>3 DEF GoneIsOff, TypeOK
  <2>6. RecurringKeepsNextRun'
    BY <2>1, <2>2, <2>3 DEF RecurringKeepsNextRun, TypeOK
  <2> QED BY <2>4, <2>5, <2>6
<1>14. ASSUME Crash
      PROVE  EditOK' /\ GoneIsOff' /\ RecurringKeepsNextRun'
  <2>1. \A s \in Services : mode'[s] # "running"
    BY <1>14 DEF Crash
  <2>2. \A s \in Services, j \in Jobs : ~mem'[s][j].enabled
    BY <1>14 DEF Crash, Empty, Absent
  <2>3. edit' = None /\ file' = file
    BY <1>14 DEF Crash
  <2> QED BY <2>1, <2>2, <2>3 DEF EditOK, GoneIsOff, RecurringKeepsNextRun
<1>15. CASE UNCHANGED vars
  BY <1>15 DEF vars, EditOK, GoneIsOff, RecurringKeepsNextRun
<1> QED
  BY <1>1, <1>2, <1>3, <1>4, <1>5, <1>6, <1>7, <1>8, <1>9, <1>10, <1>11, <1>12, <1>13, <1>14, <1>15
  DEF Next

-----------------------------------------------------------------------------
\* What GoneStaysGone says of a step.
StaysGone ==
  \A g \in Services, j \in Jobs :
    g <= current /\ j \in added /\ ~mem[g][j].present => ~mem'[g][j].present

\* Saving a store that has no job the service had given up, apart from one that
\* was never added.
LEMMA SaveStaysGone ==
  ASSUME TypeOK, NEW g \in Services, NEW store, Save(g, store),
         \A j \in Jobs : j \in added /\ store[j].present => mem[g][j].present
  PROVE  StaysGone
<1>1. mem' = [mem EXCEPT ![g] = store]
  BY SaveEffect
<1> QED BY <1>1 DEF StaysGone, TypeOK

\* Replacing a job that is there, or one that was never added, brings none back.
LEMMA ChangeStaysGone ==
  ASSUME TypeOK, NEW g \in Services, NEW j \in Jobs, NEW job,
         Save(g, [mem[g] EXCEPT ![j] = job]),
         mem[g][j].present \/ j \notin added \/ ~job.present
  PROVE  StaysGone
<1>1. mem[g] \in [Jobs -> Job]
  BY DEF TypeOK
<1> QED BY <1>1, SaveStaysGone

\* No step of a service, the tool, a reload or a command gives a job back to a
\* service that gave it up.
LEMMA StaysGoneNext == TypeOK /\ EditOK /\ [Next]_vars => StaysGone
<1> SUFFICES ASSUME TypeOK, EditOK, [Next]_vars PROVE StaysGone
  OBVIOUS
<1>1. ASSUME UNCHANGED mem PROVE StaysGone
  BY <1>1 DEF StaysGone
<1>2. ASSUME NEW g \in Services, Finish(g) PROVE StaysGone
  <2>1. exec[g] \in Jobs
    BY <1>2 DEF Finish, TypeOK
  <2>2. CASE mem[g][exec[g]].present
    <3>1. mem[g] \in [Jobs -> Job]
      BY DEF TypeOK
    <3>2. PICK store : Save(g, store) /\ \A j \in Jobs : j # exec[g] => store[j] = mem[g][j]
      BY <1>2, <2>1, <2>2, <3>1 DEF Finish
    <3> QED BY <2>1, <2>2, <3>2, SaveStaysGone
  <2>3. CASE ~mem[g][exec[g]].present
    BY <1>1, <1>2, <2>3 DEF Finish
  <2> QED BY <2>2, <2>3
<1>3. ASSUME NEW g \in Services, NEW i \in Jobs, Execute(g, i) PROVE StaysGone
  BY <1>1, <1>3 DEF Execute
<1>4. ASSUME NEW g \in Services, NEW dueJobs \in SUBSET Jobs, CheckJobs(g, dueJobs)
      PROVE  StaysGone
  <2> DEFINE store == [j \in Jobs |-> IF j \in dueJobs THEN [mem[g][j] EXCEPT !.next = FALSE]
                                      ELSE mem[g][j]]
  <2>1. Save(g, store)
    BY <1>4 DEF CheckJobs
  <2>2. \A j \in Jobs : store[j].present <=> mem[g][j].present
    <3> SUFFICES ASSUME NEW j \in Jobs PROVE store[j].present <=> mem[g][j].present
      OBVIOUS
    <3>1. mem[g][j] \in Job
      BY DEF TypeOK
    <3> QED BY <3>1 DEF Job
  <2> HIDE DEF store
  <2> QED BY <2>1, <2>2, SaveStaysGone
<1>5. ASSUME NEW j \in Jobs, TimePasses(j) PROVE StaysGone
  BY <1>1, <1>5 DEF TimePasses
<1>6. ASSUME NEW j \in Jobs, AddJob(j) PROVE StaysGone
  BY <1>6, ChangeStaysGone DEF AddJob, TypeOK
<1>7. ASSUME NEW j \in Jobs, RemoveJob(j) PROVE StaysGone
  <2>1. ~Absent.present
    BY DEF Absent
  <2> QED BY <1>7, <2>1, ChangeStaysGone DEF RemoveJob, TypeOK
<1>8. ASSUME NEW j \in Jobs, CommandAdds(j) \/ CommandRemoves(j) PROVE StaysGone
  BY <1>1, <1>8 DEF CommandAdds, CommandRemoves, Command
<1>9. ASSUME NEW j \in Jobs, NEW b \in BOOLEAN, EnableJob(j, b) PROVE StaysGone
  <2>1. mem[current] \in [Jobs -> Job]
    BY DEF TypeOK
  <2>2. Save(current, [mem[current] EXCEPT ![j] = Switched(j, mem[current][j], b)])
    BY <1>9, <2>1 DEF EnableJob
  <2> QED BY <1>9, <2>2, ChangeStaysGone DEF EnableJob, TypeOK
<1>10. ASSUME NEW j \in Jobs, NEW b \in BOOLEAN, CommandEnables(j, b) PROVE StaysGone
  BY <1>1, <1>10 DEF CommandEnables, Command
<1>11. ASSUME UpdateJob PROVE StaysGone
  <2>1. PICK g \in Services, i \in Jobs : g = edit.service /\ i = edit.job
    BY <1>11 DEF UpdateJob, EditOK
  <2>2. CASE mem[g][i].present
    BY <1>11, <2>1, <2>2, ChangeStaysGone DEF UpdateJob
  <2>3. CASE ~mem[g][i].present
    BY <1>1, <1>11, <2>1, <2>3 DEF UpdateJob
  <2> QED BY <2>2, <2>3
<1>12. ASSUME Stop PROVE StaysGone
  BY <1>1, <1>12 DEF Stop
<1>13. ASSUME Start PROVE StaysGone
  <2>1. current \in Nat /\ current' = current + 1
    BY <1>13 DEF Start, TypeOK, Services
  <2>2. \A g \in Services : g <= current => mem'[g] = mem[g]
    BY <1>13, <2>1 DEF Start, TypeOK, Services
  <2> QED BY <2>2 DEF StaysGone
<1>14. ASSUME Crash PROVE StaysGone
  BY <1>14 DEF Crash, Empty, Absent, StaysGone
<1>15. CASE UNCHANGED vars
  BY <1>1, <1>15 DEF vars
<1> QED
  BY <1>2, <1>3, <1>4, <1>5, <1>6, <1>7, <1>8, <1>9, <1>10, <1>11, <1>12, <1>13, <1>14, <1>15
  DEF Next

-----------------------------------------------------------------------------
\* Nobody has executed the job, and nobody is about to.
Untouched(j) == starts[j] = 0 /\ \A g \in Services : j \notin due[g]

\* Service g has job j in a state, or will have it by UpdateJob, in which it
\* may become due.
Armed(g, j) ==
  /\ mode[g] = "running" /\ mem[g][j].present
  /\ j \notin due[g] /\ exec[g] # j
  /\ \/ mem[g][j].enabled /\ mem[g][j].next
     \/ edit # None /\ edit.service = g /\ edit.job = j

EditAdded == edit # None => edit.service <= current /\ edit.job \in added

\* A job that was never added is nowhere.
Unknown ==
  \A j \in Jobs \ added :
    /\ ~file[j].present
    /\ \A g \in Services : ~mem[g][j].present
    /\ j \in OneShot => Untouched(j)

NotYet == \A j \in OneShot \ past : Untouched(j)

TakenOnce ==
  \A j \in OneShot, g \in Services :
    j \in due[g] => starts[j] = 0 /\ \A h \in Services : j \in due[h] => h = g

ArmedUntouched == \A j \in OneShot, g \in Services : Armed(g, j) => Untouched(j)

OnceInv ==
  /\ starts \in [OneShot -> 0 .. 1]
  /\ EditAdded /\ Unknown /\ NotYet /\ TakenOnce /\ ArmedUntouched

\* Before the first job is added nothing is armed.
LEMMA OnceInit == Init => OnceInv
<1> SUFFICES ASSUME Init PROVE OnceInv
  OBVIOUS
<1>1. starts \in [OneShot -> 0 .. 1] /\ \A j \in OneShot : Untouched(j)
  BY DEF Init, Untouched
<1>2. \A j \in Jobs : ~file[j].present /\ \A g \in Services : ~mem[g][j].present
  BY DEF Init, Empty, Absent
<1>3. EditAdded
  BY DEF Init, EditAdded
<1>4. Unknown
  BY <1>1, <1>2 DEF Unknown
<1>5. NotYet /\ ArmedUntouched
  BY <1>1 DEF NotYet, ArmedUntouched
<1>6. TakenOnce
  BY DEF Init, TakenOnce
<1> QED BY <1>1, <1>3, <1>4, <1>5, <1>6 DEF OnceInv

\* A save of a store without unknown jobs.
LEMMA SaveUnknown ==
  ASSUME TypeOK, Unknown, NEW g \in Services, NEW store, Save(g, store),
         UNCHANGED <<due, starts>>, added \subseteq added',
         \A j \in Jobs \ added' : ~store[j].present
  PROVE  Unknown'
<1>1. mem' = [mem EXCEPT ![g] = store] /\ (file' = store \/ file' = file)
  BY SaveEffect
<1> QED BY <1>1 DEF Unknown, Untouched, TypeOK

\* A save that leaves the loops alone arms nothing in the other services.
LEMMA SaveArmed ==
  ASSUME TypeOK, ArmedUntouched, NEW g \in Services, NEW store, Save(g, store),
         UNCHANGED <<mode, due, exec, starts>>,
         edit' = edit \/ edit' = None \/ edit'.service = g,
         \A j \in OneShot : Armed(g, j)' => Untouched(j)
  PROVE  ArmedUntouched'
<1>1. mem' = [mem EXCEPT ![g] = store]
  BY SaveEffect
<1> SUFFICES ASSUME NEW j \in OneShot, NEW s \in Services, Armed(s, j)'
             PROVE  Untouched(j)'
  BY DEF ArmedUntouched
<1>2. Untouched(j)
  <2>1. CASE s = g
    BY <2>1
  <2>2. CASE s # g
    <3>1. mem'[s] = mem[s]
      BY <1>1, <2>2 DEF TypeOK
    <3>2. Armed(s, j)
      BY <2>2, <3>1 DEF Armed
    <3> QED BY <3>2 DEF ArmedUntouched
  <2> QED BY <2>1, <2>2
<1> QED BY <1>2 DEF Untouched

\* What the tools do: a job that is there, or was never added, is replaced; if
\* it is one-shot and may become due now, it could before or its time has not
\* passed.
LEMMA ChangeOnce ==
  ASSUME TypeOK, OnceInv, NEW g \in Services, NEW i \in Jobs, NEW job,
         Save(g, [mem[g] EXCEPT ![i] = job]),
         UNCHANGED <<mode, due, exec, starts, past, current>>,
         added \subseteq added', i \in added' \/ ~job.present,
         EditAdded', edit' = edit \/ edit' = None \/ (edit'.service = g /\ edit'.job = i),
         i \in OneShot /\ Armed(g, i)' => Untouched(i)
  PROVE  OnceInv'
<1> USE DEF OnceInv
<1> DEFINE store == [mem[g] EXCEPT ![i] = job]
<1>1. mem[g] \in [Jobs -> Job] /\ mem' = [mem EXCEPT ![g] = store]
  BY SaveEffect DEF TypeOK
<1>2. \A j \in Jobs \ added' : ~store[j].present
  BY <1>1 DEF Unknown
<1>3. ASSUME NEW j \in OneShot, Armed(g, j)' PROVE Untouched(j)
  <2>1. CASE j = i
    BY <1>3, <2>1
  <2>2. CASE j # i
    <3>1. j \in Jobs
      OBVIOUS
    <3>2. mem'[g][j] = mem[g][j]
      BY <1>1, <2>2, <3>1 DEF TypeOK
    <3>3. Armed(g, j)
      BY <1>3, <2>2, <3>2 DEF Armed
    <3> QED BY <3>3 DEF ArmedUntouched
  <2> QED BY <2>1, <2>2
<1> HIDE DEF store
<1>4. Unknown'
  BY <1>2, SaveUnknown DEF store
<1>5. ArmedUntouched'
  BY <1>3, SaveArmed DEF store
<1>6. NotYet' /\ TakenOnce'
  BY DEF NotYet, TakenOnce, Untouched
<1> QED BY <1>4, <1>5, <1>6

\* What is not armed after a step that takes and adds nothing was not to be
\* touched before.
LEMMA LoopsKeptOnce ==
  ASSUME TypeOK, OnceInv, UNCHANGED <<due, exec, starts>>, past \subseteq past',
         EditAdded', Unknown',
         \A j \in OneShot, g \in Services : Armed(g, j)' => Armed(g, j) \/ j \notin past
  PROVE  OnceInv'
<1> USE DEF OnceInv
<1>1. NotYet' /\ TakenOnce'
  BY DEF NotYet, TakenOnce, Untouched
<1>2. ArmedUntouched'
  <2> SUFFICES ASSUME NEW j \in OneShot, NEW g \in Services, Armed(g, j)'
               PROVE  Untouched(j)'
    BY DEF ArmedUntouched
  <2>1. Untouched(j)
    BY DEF ArmedUntouched, NotYet
  <2> QED BY <2>1 DEF Untouched
<1> QED BY <1>1, <1>2

\* One step per action.
LEMMA OnceNext == IInv /\ OnceInv /\ [Next]_vars => OnceInv'
<1> SUFFICES ASSUME TypeOK, EditOK, GoneIsOff, OnceInv, [Next]_vars PROVE OnceInv'
  BY DEF IInv
<1> USE DEF process, loops
<1>1. ASSUME NEW g \in Services, Finish(g) PROVE OnceInv'
  <2>1. /\ exec[g] \in Jobs /\ exec' = [exec EXCEPT ![g] = None]
        /\ UNCHANGED <<mode, current, due, starts, edit, past, added>>
    BY <1>1 DEF Finish, TypeOK
  <2>2. mem[g] \in [Jobs -> Job]
    BY DEF TypeOK
  <2>3. PICK store : /\ mem' = [mem EXCEPT ![g] = store]
                     /\ file' = store \/ file' = file
                     /\ \A j \in Jobs : store[j].present => mem[g][j].present
                     /\ \A j \in Jobs : j # exec[g] => store[j] = mem[g][j]
                     /\ exec[g] \in OneShot => ~store[exec[g]].present
    <3>1. CASE mem[g][exec[g]].present
      <4> DEFINE store == [mem[g] EXCEPT ![exec[g]] =
                             IF exec[g] \in OneShot THEN Absent
                             ELSE [mem[g][exec[g]] EXCEPT !.next = NextRun(exec[g])]]
      <4>1. Save(g, store)
        BY <1>1, <3>1 DEF Finish
      <4>2. mem' = [mem EXCEPT ![g] = store] /\ (file' = store \/ file' = file)
        BY <4>1, SaveEffect
      <4>3. \A j \in Jobs : store[j].present => mem[g][j].present
        BY <2>1, <2>2, <3>1
      <4>4. \A j \in Jobs : j # exec[g] => store[j] = mem[g][j]
        BY <2>1, <2>2
      <4>5. exec[g] \in OneShot => ~store[exec[g]].present
        BY <2>1, <2>2 DEF Absent
      <4> HIDE DEF store
      <4> QED BY <4>2, <4>3, <4>4, <4>5
    <3>2. CASE ~mem[g][exec[g]].present
      <4>1. file' = file /\ mem' = mem
        BY <1>1, <3>2 DEF Finish
      <4>2. mem' = [mem EXCEPT ![g] = mem[g]]
        BY <4>1 DEF TypeOK
      <4> QED BY <3>2, <4>1, <4>2
    <3> QED BY <3>1, <3>2
  <2>4. \A s \in Services : s # g => mem'[s] = mem[s] /\ exec'[s] = exec[s]
    BY <2>1, <2>3 DEF TypeOK
  <2>5. mem'[g] = store /\ exec'[g] = None
    BY <2>1, <2>3 DEF TypeOK
  <2>6. Unknown'
    BY <2>1, <2>3, <2>4, <2>5 DEF OnceInv, Unknown, Untouched
  <2>7. ArmedUntouched'
    <3> SUFFICES ASSUME NEW j \in OneShot, NEW s \in Services, Armed(s, j)'
                 PROVE  Untouched(j)'
      BY DEF ArmedUntouched
    <3>1. Armed(s, j)
      <4>1. CASE s # g
        BY <2>1, <2>4, <4>1 DEF Armed
      <4>2. CASE s = g
        <5>1. j \in Jobs /\ j # exec[g]
          BY <2>3, <2>5, <4>2 DEF Armed
        <5> QED BY <2>1, <2>3, <2>5, <4>2, <5>1 DEF Armed
      <4> QED BY <4>1, <4>2
    <3> QED BY <2>1, <3>1 DEF OnceInv, ArmedUntouched, Untouched
  <2>8. NotYet' /\ TakenOnce' /\ EditAdded' /\ starts' \in [OneShot -> 0 .. 1]
    BY <2>1 DEF OnceInv, NotYet, TakenOnce, EditAdded, Untouched
  <2> QED BY <2>6, <2>7, <2>8 DEF OnceInv
<1>2. ASSUME NEW g \in Services, NEW i \in Jobs, Execute(g, i) PROVE OnceInv'
  <2>1. /\ i \in due[g] /\ due' = [due EXCEPT ![g] = @ \ {i}]
        /\ UNCHANGED <<file, mem, mode, current, edit, past, added>>
    BY <1>2 DEF Execute
  <2>2. /\ \A s \in Services : s # g => due'[s] = due[s] /\ exec'[s] = exec[s]
        /\ due'[g] = due[g] \ {i}
    BY <1>2, <2>1 DEF Execute, TypeOK
  <2>3. exec[g] = None
    BY <1>2 DEF Execute
  <2>4. ~mem[g][i].present \/ exec'[g] = i
    BY <1>2 DEF Execute, TypeOK
  <2>5. /\ starts' \in [OneShot -> 0 .. 1]
        /\ \A j \in OneShot : j # i => starts'[j] = starts[j]
    BY <1>2, <2>1 DEF Execute, OnceInv, TakenOnce
  <2>6. \A j \in OneShot : j # i /\ Untouched(j) => Untouched(j)'
    BY <2>2, <2>5 DEF Untouched
  <2>7. i \in OneShot => ~Untouched(i)
    BY <2>1 DEF Untouched
  <2>8. Unknown' /\ NotYet' /\ EditAdded'
    BY <2>1, <2>6, <2>7 DEF OnceInv, Unknown, NotYet, EditAdded
  <2>9. TakenOnce'
    BY <2>1, <2>2, <2>5 DEF OnceInv, TakenOnce
  <2>10. ArmedUntouched'
    <3> SUFFICES ASSUME NEW j \in OneShot, NEW s \in Services, Armed(s, j)'
                 PROVE  Untouched(j)'
      BY DEF ArmedUntouched
    <3>1. ~(j = i /\ s = g)
      BY <2>1, <2>4 DEF Armed
    <3>2. exec[s] # j
      BY <2>2, <2>3, <3>1 DEF Armed, TypeOK
    <3>3. Armed(s, j)
      BY <2>1, <2>2, <3>1, <3>2 DEF Armed
    <3>4. Untouched(j) /\ j # i
      BY <2>7, <3>3 DEF OnceInv, ArmedUntouched
    <3> QED BY <2>6, <3>4
  <2> QED BY <2>5, <2>8, <2>9, <2>10 DEF OnceInv
<1>3. ASSUME NEW g \in Services, NEW dueJobs \in SUBSET Jobs, CheckJobs(g, dueJobs)
      PROVE  OnceInv'
  <2> DEFINE store == [j \in Jobs |-> IF j \in dueJobs THEN [mem[g][j] EXCEPT !.next = FALSE]
                                      ELSE mem[g][j]]
  <2>1. /\ Save(g, store) /\ due' = [due EXCEPT ![g] = dueJobs]
        /\ UNCHANGED <<mode, current, exec, starts, edit, past, added>>
        /\ mode[g] = "running" /\ due[g] = {} /\ exec[g] = None
        /\ dueJobs \subseteq {j \in Jobs : IsDue(g, j)}
    BY <1>3 DEF CheckJobs
  <2>2. \A j \in Jobs : /\ store[j].present => mem[g][j].present
                        /\ j \notin dueJobs => store[j] = mem[g][j]
    <3> SUFFICES ASSUME NEW j \in Jobs
                 PROVE  /\ store[j].present => mem[g][j].present
                        /\ j \notin dueJobs => store[j] = mem[g][j]
      OBVIOUS
    <3>1. mem[g][j] \in Job
      BY DEF TypeOK
    <3> QED BY <3>1 DEF Job
  <2> HIDE DEF store
  <2>3. mem' = [mem EXCEPT ![g] = store] /\ (file' = store \/ file' = file)
    BY <2>1, SaveEffect
  <2>4. /\ mem'[g] = store /\ due'[g] = dueJobs
        /\ \A s \in Services : s # g => mem'[s] = mem[s] /\ due'[s] = due[s] /\ mode[s] # "running"
    BY <2>1, <2>3 DEF TypeOK
  <2>5. \A j \in dueJobs : /\ j \in Jobs /\ mem[g][j].present
                           /\ j \in OneShot => j \in past /\ Untouched(j)
    <3> SUFFICES ASSUME NEW j \in dueJobs
                 PROVE  /\ mem[g][j].present
                        /\ j \in OneShot => j \in past /\ Untouched(j)
      BY <2>1
    <3>1. mem[g][j].enabled /\ mem[g][j].next /\ (j \in OneShot => j \in past)
      BY <2>1 DEF IsDue
    <3>2. mem[g][j].present
      BY <3>1 DEF GoneIsOff
    <3>3. exec[g] # j
      BY <2>1
    <3>4. Armed(g, j)
      BY <2>1, <3>1, <3>2, <3>3 DEF Armed
    <3> QED BY <3>1, <3>2, <3>4 DEF OnceInv, ArmedUntouched
  <2>6. \A j \in OneShot : j \notin dueJobs /\ Untouched(j) => Untouched(j)'
    BY <2>1, <2>4 DEF Untouched
  <2>7. Unknown'
    <3> SUFFICES ASSUME NEW j \in Jobs \ added
                 PROVE  /\ ~file'[j].present
                        /\ \A s \in Services : ~mem'[s][j].present
                        /\ j \in OneShot => Untouched(j)'
      BY <2>1 DEF Unknown
    <3>1. /\ ~file[j].present /\ \A s \in Services : ~mem[s][j].present
          /\ j \in OneShot => Untouched(j)
      BY DEF OnceInv, Unknown
    <3>2. ~store[j].present /\ j \notin dueJobs
      BY <2>2, <2>5, <3>1
    <3> QED BY <2>3, <2>4, <2>6, <3>1, <3>2
  <2>8. NotYet' /\ EditAdded' /\ starts' \in [OneShot -> 0 .. 1]
    BY <2>1, <2>5, <2>6 DEF OnceInv, NotYet, EditAdded
  <2>9. TakenOnce'
    <3> SUFFICES ASSUME NEW j \in OneShot, NEW s \in Services, j \in due'[s]
                 PROVE  starts[j] = 0 /\ \A h \in Services : j \in due'[h] => h = s
      BY <2>1 DEF TakenOnce
    <3>1. CASE j \in dueJobs
      <4>1. Untouched(j)
        BY <2>5, <3>1
      <4> QED BY <2>4, <4>1 DEF Untouched
    <3>2. CASE j \notin dueJobs
      BY <2>4, <3>2 DEF OnceInv, TakenOnce
    <3> QED BY <3>1, <3>2
  <2>10. ArmedUntouched'
    <3> SUFFICES ASSUME NEW j \in OneShot, NEW s \in Services, Armed(s, j)'
                 PROVE  Untouched(j)'
      BY DEF ArmedUntouched
    <3>1. s = g
      BY <2>1, <2>4 DEF Armed
    <3>2. j \in Jobs /\ j \notin dueJobs
      BY <2>4, <3>1 DEF Armed
    <3>3. Armed(g, j)
      BY <2>1, <2>2, <2>4, <3>1, <3>2 DEF Armed
    <3> QED BY <2>6, <3>2, <3>3 DEF OnceInv, ArmedUntouched
  <2> QED BY <2>7, <2>8, <2>9, <2>10 DEF OnceInv
<1>4. ASSUME NEW i \in Jobs, TimePasses(i) PROVE OnceInv'
  BY <1>4, LoopsKeptOnce DEF TimePasses, OnceInv, EditAdded, Unknown, Untouched, Armed
<1>5. ASSUME NEW i \in Jobs, AddJob(i) PROVE OnceInv'
  <2>1. current \in Services /\ current <= current
    BY DEF TypeOK, Services
  <2>2. i \in OneShot => Untouched(i)
    BY <1>5 DEF AddJob, OnceInv, Unknown
  <2>3. /\ edit' = edit \/ (edit' # None /\ edit'.service = current /\ edit'.job = i)
        /\ added' = added \cup {i}
        /\ UNCHANGED <<mode, current, due, exec, starts, past>>
    BY <1>5 DEF AddJob
  <2>4. EditAdded'
    BY <2>1, <2>3 DEF OnceInv, EditAdded
  <2> QED BY <1>5, <2>1, <2>2, <2>3, <2>4, ChangeOnce DEF AddJob
<1>6. ASSUME NEW i \in Jobs, RemoveJob(i) PROVE OnceInv'
  <2>1. /\ ~Absent.present /\ current \in Services
        /\ UNCHANGED <<mode, current, due, exec, starts, past, added, edit>>
    BY <1>6 DEF RemoveJob, TypeOK, Absent
  <2>2. Save(current, [mem[current] EXCEPT ![i] = Absent])
    BY <1>6 DEF RemoveJob
  <2>3. mem'[current][i] = Absent
    BY <2>1, <2>2, SaveEffect DEF TypeOK
  <2>4. EditAdded' /\ ~Armed(current, i)'
    BY <2>1, <2>3 DEF OnceInv, EditAdded, Armed
  <2> QED BY <2>1, <2>2, <2>4, ChangeOnce
<1>7. ASSUME NEW i \in Jobs, CommandAdds(i) PROVE OnceInv'
  <2>1. /\ UNCHANGED <<mem, mode, current, due, exec, starts, edit, past>>
        /\ file' = [file EXCEPT ![i] = NewJob(i)] /\ added' = added \cup {i}
    BY <1>7 DEF CommandAdds, Command
  <2>2. Unknown'
    BY <2>1 DEF OnceInv, Unknown, Untouched, TypeOK
  <2> QED BY <2>1, <2>2, LoopsKeptOnce DEF OnceInv, EditAdded, Armed
<1>8. ASSUME NEW i \in Jobs, CommandRemoves(i) PROVE OnceInv'
  <2>1. /\ UNCHANGED <<mem, mode, current, due, exec, starts, edit, past, added>>
        /\ file' = [file EXCEPT ![i] = Absent]
    BY <1>8 DEF CommandRemoves, Command
  <2>2. Unknown'
    BY <2>1 DEF OnceInv, Unknown, Untouched, TypeOK, Absent
  <2> QED BY <2>1, <2>2, LoopsKeptOnce DEF OnceInv, EditAdded, Armed
<1>9. ASSUME NEW i \in Jobs, NEW b \in BOOLEAN, EnableJob(i, b) PROVE OnceInv'
  <2>1. /\ current \in Services /\ mem[current] \in [Jobs -> Job] /\ mem[current][i] \in Job
        /\ UNCHANGED <<mode, current, due, exec, starts, past, added, edit>>
        /\ mem[current][i].present
    BY <1>9 DEF EnableJob, TypeOK
  <2> DEFINE job == Switched(i, mem[current][i], b)
  <2>2. Save(current, [mem[current] EXCEPT ![i] = job])
    BY <1>9, <2>1 DEF EnableJob
  <2>3. job.next => NextRun(i)
    BY <2>1 DEF Switched, Job
  <2> HIDE DEF job
  <2>4. mem'[current][i] = job
    <3>1. mem' = [mem EXCEPT ![current] = [mem[current] EXCEPT ![i] = job]]
      BY <2>1, <2>2, SaveEffect
    <3> QED BY <2>1, <3>1 DEF TypeOK
  <2>5. EditAdded' /\ i \in added'
    BY <2>1 DEF OnceInv, EditAdded, Unknown
  <2>6. i \in OneShot /\ Armed(current, i)' => Untouched(i)
    <3> SUFFICES ASSUME i \in OneShot, Armed(current, i)' PROVE Untouched(i)
      OBVIOUS
    <3>1. i \notin past \/ Armed(current, i)
      BY <2>1, <2>3, <2>4 DEF Armed, NextRun
    <3> QED BY <2>1, <3>1 DEF OnceInv, NotYet, ArmedUntouched
  <2> QED BY <2>1, <2>2, <2>5, <2>6, ChangeOnce
<1>10. ASSUME NEW i \in Jobs, NEW b \in BOOLEAN, CommandEnables(i, b) PROVE OnceInv'
  <2>1. /\ UNCHANGED <<mem, mode, current, due, exec, starts, edit, past, added>>
        /\ file' = [file EXCEPT ![i] = Switched(i, @, b)] /\ file[i].present
    BY <1>10 DEF CommandEnables, Command
  <2>2. Unknown'
    BY <2>1 DEF OnceInv, Unknown, Untouched, TypeOK
  <2> QED BY <2>1, <2>2, LoopsKeptOnce DEF OnceInv, EditAdded, Armed
<1>11. ASSUME UpdateJob PROVE OnceInv'
  <2>1. PICK g \in Services, i \in Jobs : g = edit.service /\ i = edit.job
    BY <1>11 DEF UpdateJob, EditOK
  <2>2. /\ edit # None /\ edit' = None
        /\ UNCHANGED <<mode, current, due, exec, starts, past, added>>
    BY <1>11 DEF UpdateJob
  <2>3. EditAdded' /\ i \in added
    BY <2>1, <2>2 DEF OnceInv, EditAdded
  <2>4. CASE mem[g][i].present
    <3>1. PICK copy : Save(g, [mem[g] EXCEPT ![i] = copy])
      BY <1>11, <2>1, <2>4 DEF UpdateJob
    <3>2. Armed(g, i)' => Armed(g, i)
      BY <2>1, <2>2, <2>4 DEF Armed
    <3>3. i \in OneShot /\ Armed(g, i)' => Untouched(i)
      BY <3>2 DEF OnceInv, ArmedUntouched
    <3> QED BY <2>2, <2>3, <3>1, <3>3, ChangeOnce
  <2>5. CASE ~mem[g][i].present
    <3>1. UNCHANGED <<file, mem>>
      BY <1>11, <2>1, <2>5 DEF UpdateJob
    <3>2. Unknown'
      BY <2>2, <3>1 DEF OnceInv, Unknown, Untouched
    <3> QED BY <2>2, <2>3, <3>1, <3>2, LoopsKeptOnce DEF Armed
  <2> QED BY <2>4, <2>5
<1>12. ASSUME Stop PROVE OnceInv'
  <2>1. \A g \in Services : mode'[g] = "running" => mode[g] = "running"
    BY <1>12 DEF Stop, TypeOK
  <2> QED BY <1>12, <2>1, LoopsKeptOnce DEF Stop, OnceInv, EditAdded, Unknown, Untouched, Armed
<1>13. ASSUME Start PROVE OnceInv'
  <2> DEFINE store == [j \in Jobs |-> IF file[j].enabled THEN [file[j] EXCEPT !.next = NextRun(j)]
                                      ELSE file[j]]
  <2>1. /\ current + 1 \in Services /\ current \in Services /\ current' = current + 1
        /\ mem' = [mem EXCEPT ![current + 1] = store]
        /\ file' = store \/ file' = file
        /\ UNCHANGED <<due, exec, starts, edit, past, added>>
    BY <1>13 DEF Start, TypeOK, Services
  <2>2. \A s \in Services : mode'[s] = "running" => s = current + 1
    BY <1>13, <2>1 DEF Start, TypeOK
  <2>3. \A j \in Jobs : /\ store[j].present => file[j].present
                        /\ store[j].enabled /\ store[j].next => NextRun(j)
    <3> SUFFICES ASSUME NEW j \in Jobs
                 PROVE  /\ store[j].present => file[j].present
                        /\ store[j].enabled /\ store[j].next => NextRun(j)
      OBVIOUS
    <3>1. file[j] \in Job
      BY DEF TypeOK
    <3> QED BY <3>1 DEF Job
  <2> HIDE DEF store
  <2>4. mem'[current + 1] = store /\ \A s \in Services : s # current + 1 => mem'[s] = mem[s]
    BY <2>1 DEF TypeOK
  <2>5. Unknown'
    BY <2>1, <2>3, <2>4 DEF OnceInv, Unknown, Untouched
  <2>6. EditAdded'
    BY <2>1 DEF OnceInv, EditAdded, EditOK, Services
  <2>7. ASSUME NEW j \in OneShot, NEW g \in Services, Armed(g, j)' PROVE j \notin past
    <3>1. g = current + 1
      BY <2>2, <2>7 DEF Armed
    <3>2. edit # None => edit.service # g
      BY <2>1, <3>1 DEF OnceInv, EditAdded, EditOK, Services
    <3> QED BY <2>1, <2>3, <2>4, <2>7, <3>1, <3>2 DEF Armed, NextRun
  <2> QED BY <2>1, <2>5, <2>6, <2>7, LoopsKeptOnce
<1>14. ASSUME Crash PROVE OnceInv'
  <2>1. /\ \A s \in Services : mode'[s] # "running" /\ due'[s] = {}
        /\ \A s \in Services, j \in Jobs : ~mem'[s][j].present
        /\ edit' = None
        /\ UNCHANGED <<file, starts, past, added>>
    BY <1>14 DEF Crash, Empty, Absent
  <2>2. \A j \in OneShot : Untouched(j) => Untouched(j)'
    BY <2>1 DEF Untouched
  <2>3. Unknown' /\ NotYet'
    BY <2>1, <2>2 DEF OnceInv, Unknown, NotYet
  <2>4. TakenOnce' /\ ArmedUntouched' /\ EditAdded'
    BY <2>1 DEF TakenOnce, ArmedUntouched, Armed, EditAdded
  <2> QED BY <2>1, <2>3, <2>4 DEF OnceInv
<1>15. CASE UNCHANGED vars
  BY <1>15, LoopsKeptOnce DEF vars, OnceInv, EditAdded, Unknown, Untouched, Armed
<1> QED
  BY <1>1, <1>2, <1>3, <1>4, <1>5, <1>6, <1>7, <1>8, <1>9, <1>10, <1>11, <1>12, <1>13, <1>14, <1>15
  DEF Next

-----------------------------------------------------------------------------
\* The stores, the loops' lists and the services have their types in every
\* state: a loop never executes a job it still has in its list, and only the
\* newest service runs.
THEOREM TypeCorrect == Spec => []TypeOK
<1>1. IInv => TypeOK
  BY DEF IInv
<1> QED BY <1>1, IInvInit, IInvNext, PTL DEF Spec

\* An enabled recurring job never loses its next run while the service works,
\* whatever ticks, handlers, edits, failed saves, reloads and crashes do.
THEOREM RecurringNeverForgotten == Spec => []RecurringKeepsNextRun
<1>1. IInv => RecurringKeepsNextRun
  BY DEF IInv
<1> QED BY <1>1, IInvInit, IInvNext, PTL DEF Spec

\* A job a service gave up never comes back to it, neither by UpdateJob's copy
\* nor by the loop that was executing it.
THEOREM Gone == Spec => GoneStaysGone
<1>1. IInv /\ [Next]_vars => [StaysGone]_vars
  BY StaysGoneNext DEF IInv
<1>2. GoneStaysGone <=> [][StaysGone]_vars
  BY PTL DEF GoneStaysGone, StaysGone
<1> QED BY <1>1, <1>2, IInvInit, IInvNext, PTL DEF Spec

\* A one-shot job is executed at most once, whatever reloads, crashes, failed
\* saves, commands and stale copies bring back of it.
THEOREM OnlyOnce == Spec => []OneShotRunsOnce
<1>1. OnceInv => OneShotRunsOnce
  BY DEF OnceInv, OneShotRunsOnce
<1> QED BY <1>1, IInvInit, IInvNext, OnceInit, OnceNext, PTL DEF Spec

-----------------------------------------------------------------------------
\* What a save of the current service leaves in the file is what it has in
\* memory; any other write sets stray.
LEMMA SaveKeepsFile ==
  ASSUME TypeOK, FileIsCurrent, NEW g \in Services, NEW store, Save(g, store),
         UNCHANGED <<mode, current>>
  PROVE  FileIsCurrent'
<1>1. mem' = [mem EXCEPT ![g] = store] /\ current \in Services
  BY DEF Save, TypeOK
<1>2. CASE file' = store /\ stray' = (g # current)
  <2>1. ~stray' => mem'[current] = store
    BY <1>1, <1>2 DEF TypeOK
  <2> QED
    BY <1>2, <2>1 DEF FileIsCurrent
<1>3. CASE stray' = TRUE
  BY <1>3 DEF FileIsCurrent
<1> QED
  BY <1>2, <1>3 DEF Save

LEMMA FileStep == TypeOK /\ EditOK /\ FileIsCurrent /\ [Next]_vars => FileIsCurrent'
<1> SUFFICES ASSUME TypeOK, EditOK, FileIsCurrent, [Next]_vars PROVE FileIsCurrent'
  OBVIOUS
<1> USE DEF process, loops
<1>1. CASE UNCHANGED <<file, mem, mode, current, stray>>
  BY <1>1 DEF FileIsCurrent
<1>2. current \in Services
  BY DEF TypeOK
<1>3. ASSUME NEW g \in Services, Finish(g) PROVE FileIsCurrent'
  BY <1>1, <1>3, SaveKeepsFile DEF Finish
<1>4. ASSUME NEW g \in Services, NEW j \in Jobs, Execute(g, j) PROVE FileIsCurrent'
  BY <1>1, <1>4 DEF Execute
<1>5. ASSUME NEW g \in Services, NEW dueJobs \in SUBSET Jobs, CheckJobs(g, dueJobs)
      PROVE FileIsCurrent'
  BY <1>5, SaveKeepsFile DEF CheckJobs
<1>6. ASSUME NEW j \in Jobs, TimePasses(j) PROVE FileIsCurrent'
  BY <1>1, <1>6 DEF TimePasses
<1>7. ASSUME NEW j \in Jobs, AddJob(j) PROVE FileIsCurrent'
  BY <1>2, <1>7, SaveKeepsFile DEF AddJob
<1>8. ASSUME NEW j \in Jobs, RemoveJob(j) PROVE FileIsCurrent'
  BY <1>2, <1>8, SaveKeepsFile DEF RemoveJob
<1>9. ASSUME NEW j \in Jobs, NEW b \in BOOLEAN, EnableJob(j, b) PROVE FileIsCurrent'
  BY <1>2, <1>9, SaveKeepsFile DEF EnableJob
<1>10. ASSUME UpdateJob PROVE FileIsCurrent'
  <2>1. edit.service \in Services
    BY <1>10 DEF UpdateJob, EditOK
  <2> QED
    BY <1>1, <1>10, <2>1, SaveKeepsFile DEF UpdateJob
<1>11. ASSUME NEW store, Command(store) PROVE FileIsCurrent'
  BY <1>11 DEF Command, FileIsCurrent
<1>12. ASSUME NEW j \in Jobs, CommandAdds(j) \/ CommandRemoves(j) PROVE FileIsCurrent'
  BY <1>11, <1>12 DEF CommandAdds, CommandRemoves
<1>13. ASSUME NEW j \in Jobs, NEW b \in BOOLEAN, CommandEnables(j, b) PROVE FileIsCurrent'
  BY <1>11, <1>13 DEF CommandEnables
<1>14. ASSUME Stop PROVE FileIsCurrent'
  BY <1>2, <1>14 DEF Stop, TypeOK, FileIsCurrent
<1>15. ASSUME Start PROVE FileIsCurrent'
  <2>1. current' = current + 1 /\ current + 1 \in Services
    BY <1>2, <1>15 DEF Start, Services
  <2>2. PICK store : /\ mem' = [mem EXCEPT ![current'] = store]
                     /\ file' = store \/ stray' = TRUE
    BY <1>15 DEF Start
  <2>3. mem'[current'] = store
    BY <2>1, <2>2 DEF TypeOK
  <2> QED
    BY <2>2, <2>3 DEF FileIsCurrent
<1>16. ASSUME Crash PROVE FileIsCurrent'
  BY <1>2, <1>16 DEF Crash, TypeOK, FileIsCurrent
<1>17. CASE UNCHANGED vars
  BY <1>1, <1>17 DEF vars
<1> QED
  BY <1>3, <1>4, <1>5, <1>6, <1>7, <1>8, <1>9, <1>10, <1>12, <1>13, <1>14, <1>15, <1>16, <1>17
  DEF Next

\* What the working service has in memory is in its file, unless its last save
\* failed or another writer came after it.
THEOREM FileKept == Spec => []FileIsCurrent
<1>1. Init => FileIsCurrent
  BY DEF Init, FileIsCurrent, Services
<1>2. IInv => TypeOK /\ EditOK
  BY DEF IInv
<1> QED BY <1>1, <1>2, FileStep, IInvInit, IInvNext, PTL DEF Spec

=============================================================================
