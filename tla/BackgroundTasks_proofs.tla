------------------------ MODULE BackgroundTasks_proofs ------------------------
(***************************************************************************)
(* Proofs about BackgroundTasks for any tasks, workers and turns, every    *)
(* capacity and any number of crashes and failing store calls: a task has  *)
(* one owner, its status and its events only go forward, and its result is *)
(* told again only if two readers had it before it was marked.             *)
(***************************************************************************)
EXTENDS BackgroundTasks, FiniteSetTheorems, TLAPS

USE BoundsAssumption

Types ==
  /\ row \in [Tasks -> {"none", "pending", "running"} \cup Finished]
  /\ delivered \in SUBSET Tasks
  /\ submit \in [Tasks -> {"idle", "checked", "saved", "announced", "accepted", "refused"}]
  /\ queue \in Seq(Tasks) /\ Len(queue) <= QueueCap
  /\ worker \in [Workers -> [at : WorkerStates, task : Tasks \cup {"none"}]]
  /\ event \in [Tasks -> {"none", "queued"} \cup Finished]
  /\ turn \in [Turns -> [at : {"idle", "marking"}, got : SUBSET Tasks, left : SUBSET Tasks]]
  /\ \A d \in Turns : turn[d].left \subseteq turn[d].got
  /\ told \in [Tasks -> 0 .. 2] /\ shared \in SUBSET Tasks
  /\ crashes \in 0 .. MaxCrashes /\ faults \in 0 .. MaxFaults /\ failedTurns \in 0 .. MaxFailedTurns

Busy(w) == worker[w].at # "idle"
Places == 1 .. Len(queue)

\* A task is in one place of the channel or in the hands of one worker.
Owned ==
  /\ \A w \in Workers : Busy(w) => worker[w].task \in Tasks
  /\ \A w, v \in Workers : Busy(w) /\ Busy(v) /\ worker[w].task = worker[v].task => w = v
  /\ \A i, j \in Places : queue[i] = queue[j] => i = j
  /\ \A w \in Workers, i \in Places : Busy(w) => worker[w].task # queue[i]

\* How far a task is, as its caller, the channel and its worker see it.
CallerStage ==
  \A t \in Tasks :
    /\ submit[t] \in {"idle", "checked"} => row[t] = "none"
    /\ submit[t] \in {"saved", "announced"} => row[t] = "pending"
    /\ submit[t] = "announced" => event[t] = "queued"
    /\ submit[t] \in {"idle", "checked", "saved"} => event[t] = "none"

QueueStage ==
  \A i \in Places : LET t == queue[i] IN
    submit[t] = "accepted" /\ row[t] = "pending" /\ event[t] = "queued"

WorkerStage ==
  \A w \in Workers : Busy(w) => LET t == worker[w].task IN
    /\ submit[t] = "accepted" /\ event[t] = "queued"
    /\ worker[w].at \in {"received", "counted"} => row[t] = "pending"
    /\ worker[w].at \in {"executing", "completed", "failed"} => row[t] \in {"pending", "running"}
    /\ worker[w].at \in {"emit completed", "emit failed"} /\ faults = 0 => row[t] \in Finished

\* As long as nothing failed, what is open is somebody's.
OpenHasOwner ==
  crashes = 0 /\ faults = 0 =>
    \A t \in Tasks : submit[t] = "accepted" /\ row[t] \in {"pending", "running"} =>
      \/ \E w \in Workers : Busy(w) /\ worker[w].task = t
      \/ \E i \in Places : queue[i] = t

BackgroundInv == Types /\ Owned /\ CallerStage /\ QueueStage /\ WorkerStage /\ OpenHasOwner

\* What a step may do to the status and the events of a task.
Forward ==
  \A t \in Tasks :
    /\ row[t] \in Finished => row'[t] = row[t]
    /\ row[t] = "running" => row'[t] \in {"running"} \cup Finished
    /\ event'[t] \in Finished /\ event'[t] # event[t] => event[t] = "queued"

-----------------------------------------------------------------------------
\* A task that is received leaves the channel, the others move up.
LEMMA TailFacts ==
  ASSUME NEW S, NEW s \in Seq(S), s # <<>>
  PROVE  /\ Head(s) \in S /\ Head(s) = s[1] /\ 1 \in 1 .. Len(s) /\ Len(s) \in Nat
         /\ Tail(s) \in Seq(S) /\ Len(Tail(s)) = Len(s) - 1
         /\ \A i \in 1 .. Len(Tail(s)) : Tail(s)[i] = s[i + 1] /\ i + 1 \in 1 .. Len(s)
OBVIOUS

\* A task that is sent is the last one of the channel.
LEMMA AppendFacts ==
  ASSUME NEW S, NEW s \in Seq(S), NEW e \in S
  PROVE  /\ Append(s, e) \in Seq(S) /\ Len(Append(s, e)) = Len(s) + 1 /\ Len(s) \in Nat
         /\ \A i \in 1 .. Len(s) : Append(s, e)[i] = s[i]
         /\ Append(s, e)[Len(s) + 1] = e
OBVIOUS

LEMMA ElementFacts ==
  ASSUME NEW S, NEW s \in Seq(S)
  PROVE  Len(s) \in Nat /\ \A i \in 1 .. Len(s) : s[i] \in S
OBVIOUS

LEMMA InitEstablishes == Init => BackgroundInv
<1> SUFFICES ASSUME Init PROVE BackgroundInv
  OBVIOUS
<1>1. Types
  BY DEF Init, Types, Idle, NoTurn, WorkerStates
<1>2. Places = {} /\ \A w \in Workers : ~Busy(w)
  BY DEF Init, Places, Busy, Idle
<1> QED
  BY <1>1, <1>2 DEF Init, BackgroundInv, Owned, CallerStage, QueueStage, WorkerStage, OpenHasOwner

\* A turn reads rows and marks them: nobody's task changes hands.
LEMMA TurnKeeps ==
  ASSUME BackgroundInv, NEW d \in Turns, TurnStep(d)
  PROVE  BackgroundInv' /\ Forward
<1>1. UNCHANGED <<row, submit, queue, worker, event, crashes>> /\ faults' \in 0 .. MaxFaults
      /\ (faults' = 0 => faults = 0)
  BY DEF TurnStep, Inject, Confirm, Mark, Answer, TurnFails, storeVars, runVars, StoreOk,
         StoreFails, BackgroundInv, Types
<1>2. /\ delivered' \in SUBSET Tasks /\ told' \in [Tasks -> 0 .. 2] /\ shared' \in SUBSET Tasks
      /\ failedTurns' \in 0 .. MaxFailedTurns
  <2>1. CASE Inject(d) \/ Confirm(d)
    <3>1. shared' \subseteq shared \cup Undelivered /\ Undelivered \subseteq Tasks
      BY <2>1 DEF Inject, Confirm, Undelivered
    <3>2. UNCHANGED <<delivered, told, failedTurns>>
      BY <2>1 DEF Inject, Confirm, storeVars
    <3> QED
      BY <3>1, <3>2 DEF BackgroundInv, Types
  <2>2. CASE Mark(d)
    <3>1. PICK t \in turn[d].left : delivered' = delivered \cup {t} \/ delivered' = delivered
      BY <2>2 DEF Mark
    <3>2. t \in Tasks
      BY DEF BackgroundInv, Types
    <3> QED
      BY <2>2, <3>1, <3>2 DEF Mark, BackgroundInv, Types
  <2>3. CASE Answer(d)
    <3>1. told' = [t \in Tasks |-> IF t \in turn[d].got /\ told[t] < 2 THEN told[t] + 1 ELSE told[t]]
      BY <2>3 DEF Answer
    <3>2. \A t \in Tasks : told[t] \in 0 .. 2
      BY DEF BackgroundInv, Types
    <3>3. told' \in [Tasks -> 0 .. 2]
      BY <3>1, <3>2
    <3> QED
      BY <2>3, <3>3 DEF Answer, storeVars, BackgroundInv, Types
  <2>4. CASE TurnFails(d)
    BY <2>4 DEF TurnFails, storeVars, BackgroundInv, Types
  <2> QED
    BY <2>1, <2>2, <2>3, <2>4 DEF TurnStep
<1>3. Undelivered \in SUBSET Tasks
  BY DEF Undelivered
<1>4. \E got, left \in SUBSET Tasks :
        /\ left \subseteq got
        /\ \/ turn' = [turn EXCEPT ![d] = [at |-> "marking", got |-> got, left |-> left]]
           \/ turn' = [turn EXCEPT ![d] = [at |-> "idle", got |-> got, left |-> left]]
  <2>1. CASE Inject(d)
    BY <1>3, <2>1 DEF Inject
  <2>2. CASE Confirm(d)
    <3>1. PICK got \in {Undelivered} \cup {{t} : t \in Undelivered}, mark \in MarkChoices :
            turn' = [turn EXCEPT ![d] = [at |-> "marking", got |-> got,
                                         left |-> IF mark THEN got ELSE {}]]
      BY <2>2 DEF Confirm
    <3>2. got \in SUBSET Tasks
      BY <1>3
    <3>3. PICK left : left = (IF mark THEN got ELSE {})
      OBVIOUS
    <3> QED
      BY <3>1, <3>2, <3>3
  <2>3. CASE Mark(d)
    <3>1. PICK t \in turn[d].left :
            turn' = [turn EXCEPT ![d] = [at |-> "marking", got |-> turn[d].got,
                                         left |-> turn[d].left \ {t}]]
      BY <2>3 DEF Mark
    <3>2. turn[d].got \in SUBSET Tasks /\ turn[d].left \ {t} \in SUBSET Tasks
          /\ turn[d].left \ {t} \subseteq turn[d].got
      BY DEF BackgroundInv, Types
    <3> QED
      BY <3>1, <3>2
  <2>4. CASE Answer(d) \/ TurnFails(d)
    <3>1. turn' = [turn EXCEPT ![d] = [at |-> "idle", got |-> {}, left |-> {}]]
      BY <2>4 DEF Answer, TurnFails, NoTurn
    <3> QED
      BY <3>1
  <2> QED
    BY <2>1, <2>2, <2>3, <2>4 DEF TurnStep
<1>5. Types'
  <2>1. PICK new \in [at : {"idle", "marking"}, got : SUBSET Tasks, left : SUBSET Tasks] :
          turn' = [turn EXCEPT ![d] = new] /\ new.left \subseteq new.got
    <3>1. PICK got \in SUBSET Tasks, left \in SUBSET Tasks :
            /\ left \subseteq got
            /\ \/ turn' = [turn EXCEPT ![d] = [at |-> "marking", got |-> got, left |-> left]]
               \/ turn' = [turn EXCEPT ![d] = [at |-> "idle", got |-> got, left |-> left]]
      BY <1>4, Zenon
    <3>2. PICK at \in {"idle", "marking"} :
            turn' = [turn EXCEPT ![d] = [at |-> at, got |-> got, left |-> left]]
      BY <3>1
    <3>3. PICK new : new = [at |-> at, got |-> got, left |-> left]
      OBVIOUS
    <3>4. /\ new \in [at : {"idle", "marking"}, got : SUBSET Tasks, left : SUBSET Tasks]
          /\ new.left \subseteq new.got
      BY <3>1, <3>3
    <3>5. turn' = [turn EXCEPT ![d] = new]
      BY <3>2, <3>3, Zenon
    <3> QED
      BY <3>4, <3>5, Zenon
  <2>2. /\ turn \in [Turns -> [at : {"idle", "marking"}, got : SUBSET Tasks, left : SUBSET Tasks]]
        /\ \A x \in Turns : turn[x].left \subseteq turn[x].got
    BY DEF BackgroundInv, Types
  <2>3. /\ turn' \in [Turns -> [at : {"idle", "marking"}, got : SUBSET Tasks, left : SUBSET Tasks]]
        /\ \A x \in Turns : turn'[x].left \subseteq turn'[x].got
    BY <2>1, <2>2
  <2> QED
    BY <1>1, <1>2, <2>3 DEF BackgroundInv, Types
<1>6. Owned' /\ CallerStage' /\ QueueStage'
  BY <1>1 DEF BackgroundInv, Owned, CallerStage, QueueStage, Busy, Places
<1>7. WorkerStage'
  BY <1>1 DEF BackgroundInv, WorkerStage, Busy
<1>8. OpenHasOwner'
  BY <1>1 DEF BackgroundInv, OpenHasOwner, Busy, Places
<1> QED
  BY <1>1, <1>5, <1>6, <1>7, <1>8 DEF BackgroundInv, Forward

\* A call of Submit touches only its own task, which nobody has until it is
\* sent to the channel.
LEMMA SubmitKeeps ==
  ASSUME BackgroundInv, NEW t \in Tasks, SubmitStep(t)
  PROVE  BackgroundInv' /\ Forward
<1> USE DEF storeVars, turnVars, Finished
<1>1. \A i \in Places : queue[i] \in Tasks
  BY ElementFacts DEF BackgroundInv, Types, Places
<1>2. CASE ~Enqueue(t)
  <2>1. /\ UNCHANGED <<queue, worker, delivered, turn, told, shared, failedTurns, crashes>>
        /\ faults' \in 0 .. MaxFaults /\ (faults' = 0 => faults = 0)
    BY <1>2 DEF SubmitStep, CheckLimit, SaveRow, EmitQueued, RefuseFull, SetRow, StoreOk,
                StoreFails, BackgroundInv, Types
  <2>2. submit[t] \notin {"accepted", "refused"} /\ submit'[t] # "accepted"
    BY <1>2 DEF SubmitStep, CheckLimit, SaveRow, EmitQueued, RefuseFull, BackgroundInv, Types
  <2>3. \A x \in Tasks \ {t} : submit'[x] = submit[x] /\ row'[x] = row[x] /\ event'[x] = event[x]
    BY <1>2 DEF SubmitStep, CheckLimit, SaveRow, EmitQueued, RefuseFull, SetRow, BackgroundInv, Types
  <2>4. Types'
    <3>1. row' \in [Tasks -> {"none", "pending", "running"} \cup Finished]
      BY <1>2 DEF SubmitStep, CheckLimit, SaveRow, EmitQueued, RefuseFull, SetRow, BackgroundInv, Types
    <3>2. submit' \in [Tasks -> {"idle", "checked", "saved", "announced", "accepted", "refused"}]
      BY <1>2 DEF SubmitStep, CheckLimit, SaveRow, EmitQueued, RefuseFull, BackgroundInv, Types
    <3>3. event' \in [Tasks -> {"none", "queued"} \cup Finished]
      BY <1>2 DEF SubmitStep, CheckLimit, SaveRow, EmitQueued, RefuseFull, BackgroundInv, Types
    <3> QED
      BY <2>1, <3>1, <3>2, <3>3 DEF BackgroundInv, Types
  <2>5. Owned'
    BY <2>1 DEF BackgroundInv, Owned, Busy, Places
  <2>6. /\ submit'[t] \in {"idle", "checked"} => row'[t] = "none"
        /\ submit'[t] \in {"saved", "announced"} => row'[t] = "pending"
        /\ submit'[t] = "announced" => event'[t] = "queued"
        /\ submit'[t] \in {"idle", "checked", "saved"} => event'[t] = "none"
    BY <1>2 DEF SubmitStep, CheckLimit, SaveRow, EmitQueued, RefuseFull, SetRow, BackgroundInv,
                Types, CallerStage
  <2>7. CallerStage'
    BY <2>3, <2>6 DEF BackgroundInv, CallerStage
  <2>8. QueueStage' /\ WorkerStage' /\ OpenHasOwner'
    <3>1. QueueStage'
      BY <1>1, <2>1, <2>2, <2>3 DEF BackgroundInv, QueueStage, Places
    <3>2. WorkerStage'
      <4>1. \A w \in Workers : Busy(w) => worker[w].task \in Tasks \ {t}
        BY <2>2 DEF BackgroundInv, Owned, WorkerStage
      <4> QED
        BY <2>1, <2>3, <4>1 DEF BackgroundInv, WorkerStage, Busy
    <3>3. OpenHasOwner'
      BY <2>1, <2>2, <2>3 DEF BackgroundInv, Types, OpenHasOwner, Busy, Places
    <3> QED
      BY <3>1, <3>2, <3>3
  <2>9. Forward
    BY <1>2, <2>3 DEF SubmitStep, CheckLimit, SaveRow, EmitQueued, RefuseFull, SetRow,
                      BackgroundInv, Types, CallerStage, Forward
  <2> QED
    BY <2>4, <2>5, <2>7, <2>8, <2>9 DEF BackgroundInv
<1>3. CASE Enqueue(t)
  <2>1. /\ submit' = [submit EXCEPT ![t] = "accepted"] /\ queue' = Append(queue, t)
        /\ UNCHANGED <<row, delivered, worker, event, turn, told, shared, failedTurns, crashes, faults>>
        /\ submit[t] = "announced" /\ Len(queue) < QueueCap
    BY <1>3 DEF Enqueue
  <2>2. /\ queue' \in Seq(Tasks) /\ Len(queue') = Len(queue) + 1 /\ Len(queue) \in Nat
        /\ \A i \in Places : queue'[i] = queue[i]
        /\ queue'[Len(queue) + 1] = t
    BY <2>1, AppendFacts DEF BackgroundInv, Types, Places
  <2>3. \A i \in Places' : i \in Places \/ i = Len(queue) + 1
    BY <2>2 DEF Places
  <2>4. Places \subseteq Places' /\ Len(queue) + 1 \in Places'
    BY <2>2 DEF Places
  <2>5. /\ \A i \in Places : queue[i] # t
        /\ \A w \in Workers : Busy(w) => worker[w].task # t
    BY <2>1 DEF BackgroundInv, QueueStage, WorkerStage
  <2>6. Types'
    BY <2>1, <2>2 DEF BackgroundInv, Types
  <2>7. Owned'
    <3>1. \A i, j \in Places' : queue'[i] = queue'[j] => i = j
      BY <2>2, <2>3, <2>5 DEF BackgroundInv, Owned
    <3>2. \A w \in Workers, i \in Places' : Busy(w) => worker[w].task # queue'[i]
      BY <2>2, <2>3, <2>5 DEF BackgroundInv, Owned
    <3>3. \A w \in Workers : Busy(w)' = Busy(w) /\ worker'[w] = worker[w]
      BY <2>1 DEF Busy
    <3> QED
      BY <3>1, <3>2, <3>3 DEF BackgroundInv, Owned
  <2>8. CallerStage'
    BY <2>1 DEF BackgroundInv, Types, CallerStage
  <2>9. row[t] = "pending" /\ event[t] = "queued"
    BY <2>1 DEF BackgroundInv, CallerStage
  <2>10. QueueStage'
    <3> SUFFICES ASSUME NEW i \in Places'
                 PROVE  submit'[queue'[i]] = "accepted" /\ row'[queue'[i]] = "pending"
                        /\ event'[queue'[i]] = "queued"
      BY DEF QueueStage
    <3>1. CASE i \in Places
      BY <1>1, <2>1, <2>2, <3>1 DEF BackgroundInv, Types, QueueStage
    <3>2. CASE i = Len(queue) + 1
      BY <2>1, <2>2, <2>9, <3>2 DEF BackgroundInv, Types
    <3> QED
      BY <2>3, <3>1, <3>2
  <2>11. WorkerStage'
    BY <2>1, <2>5 DEF BackgroundInv, Types, Owned, WorkerStage, Busy
  <2>12. OpenHasOwner'
    <3> SUFFICES ASSUME crashes = 0, faults = 0, NEW x \in Tasks, submit'[x] = "accepted",
                        row[x] \in {"pending", "running"}
                 PROVE  \/ \E w \in Workers : Busy(w)' /\ worker'[w].task = x
                        \/ \E i \in Places' : queue'[i] = x
      BY <2>1 DEF OpenHasOwner
    <3>1. CASE x = t
      BY <2>2, <2>4, <3>1
    <3>2. CASE x # t
      <4>1. submit[x] = "accepted"
        BY <2>1, <3>2 DEF BackgroundInv, Types
      <4>2. CASE \E w \in Workers : Busy(w) /\ worker[w].task = x
        BY <2>1, <4>2 DEF Busy
      <4>3. CASE \E i \in Places : queue[i] = x
        BY <2>2, <2>4, <4>3
      <4> QED
        BY <4>1, <4>2, <4>3 DEF BackgroundInv, OpenHasOwner
    <3> QED
      BY <3>1, <3>2
  <2> QED
    BY <2>1, <2>6, <2>7, <2>8, <2>10, <2>11, <2>12 DEF BackgroundInv, Forward
<1> QED
  BY <1>2, <1>3

\* A worker takes a task from the channel and keeps it until its outcome is out.
LEMMA WorkerKeeps ==
  ASSUME BackgroundInv, NEW w \in Workers, WorkerStep(w)
  PROVE  BackgroundInv' /\ Forward
<1> USE DEF storeVars, turnVars, Finished
<1>1. \A i \in Places : queue[i] \in Tasks
  BY ElementFacts DEF BackgroundInv, Types, Places
<1>2. /\ UNCHANGED <<submit, delivered, turn, told, shared, failedTurns, crashes>>
      /\ faults' \in 0 .. MaxFaults /\ (faults' = 0 => faults = 0)
  <2>1. UNCHANGED <<submit, delivered, turn, told, shared, failedTurns, crashes>>
    BY DEF WorkerStep, Receive, CountRunning, MarkRunning, Execute, RecordOutcome, EmitOutcome
  <2>2. StoreOk \/ StoreFails
    BY DEF WorkerStep, Receive, CountRunning, MarkRunning, Execute, RecordOutcome, EmitOutcome,
           SetRow, StoreOk
  <2>3. faults \in 0 .. MaxFaults
    BY DEF BackgroundInv, Types
  <2> QED
    BY <2>1, <2>2, <2>3 DEF StoreOk, StoreFails
<1>3. CASE Receive(w)
  <2> DEFINE t == queue[1]
  <2>1. /\ 1 \in Places /\ t \in Tasks
        /\ queue' \in Seq(Tasks) /\ Len(queue') = Len(queue) - 1 /\ Len(queue) \in Nat
        /\ \A i \in Places' : queue'[i] = queue[i + 1] /\ i + 1 \in Places /\ i + 1 # 1
    <3>1. queue \in Seq(Tasks) /\ queue # <<>> /\ queue' = Tail(queue)
      BY <1>3 DEF Receive, BackgroundInv, Types
    <3> QED
      BY <1>1, <3>1, TailFacts DEF Places
  <2>2. worker' = [worker EXCEPT ![w] = [at |-> "received", task |-> t]]
    BY <1>3, TailFacts DEF Receive, BackgroundInv, Types
  <2>3. UNCHANGED <<row, event, faults>> /\ ~Busy(w)
    BY <1>3 DEF Receive, Busy
  <2>4. submit[t] = "accepted" /\ row[t] = "pending" /\ event[t] = "queued"
    BY <2>1 DEF BackgroundInv, QueueStage
  <2>5. \A i \in Places' : queue'[i] # t
    BY <2>1 DEF BackgroundInv, Owned
  <2>6. \A v \in Workers : Busy(v) => worker[v].task # t
    BY <2>1 DEF BackgroundInv, Owned
  <2>7. /\ worker'[w] = [at |-> "received", task |-> t] /\ Busy(w)'
        /\ \A v \in Workers \ {w} : worker'[v] = worker[v] /\ (Busy(v)' <=> Busy(v))
    BY <2>2 DEF Busy, BackgroundInv, Types
  <2> HIDE DEF t
  <2>8. Types'
    <3>1. [at |-> "received", task |-> t] \in [at : WorkerStates, task : Tasks \cup {"none"}]
      BY <2>1 DEF WorkerStates
    <3>2. worker' \in [Workers -> [at : WorkerStates, task : Tasks \cup {"none"}]]
      BY <2>2, <3>1 DEF BackgroundInv, Types
    <3>3. queue' \in Seq(Tasks) /\ Len(queue') <= QueueCap
      BY <2>1 DEF BackgroundInv, Types
    <3> QED
      BY <1>2, <2>3, <3>2, <3>3 DEF BackgroundInv, Types
  <2>9. Owned'
    <3>1. \A v \in Workers : Busy(v)' => worker'[v].task \in Tasks
      BY <2>1, <2>7 DEF BackgroundInv, Owned
    <3>2. \A v, u \in Workers :
            Busy(v)' /\ Busy(u)' /\ worker'[v].task = worker'[u].task => v = u
      BY <2>6, <2>7 DEF BackgroundInv, Owned
    <3>3. \A i, j \in Places' : queue'[i] = queue'[j] => i = j
      <4> SUFFICES ASSUME NEW i \in Places', NEW j \in Places', queue'[i] = queue'[j] PROVE i = j
        OBVIOUS
      <4>1. i + 1 = j + 1
        BY <2>1 DEF BackgroundInv, Owned
      <4> QED
        BY <4>1 DEF Places
    <3>4. \A v \in Workers, i \in Places' : Busy(v)' => worker'[v].task # queue'[i]
      BY <2>1, <2>5, <2>7 DEF BackgroundInv, Owned
    <3> QED
      BY <3>1, <3>2, <3>3, <3>4 DEF Owned
  <2>10. CallerStage'
    BY <1>2, <2>3 DEF BackgroundInv, CallerStage
  <2>11. QueueStage'
    BY <1>2, <2>1, <2>3 DEF BackgroundInv, QueueStage
  <2>12. WorkerStage'
    <3> SUFFICES ASSUME NEW v \in Workers, Busy(v)'
                 PROVE  LET x == worker'[v].task IN
                        /\ submit[x] = "accepted" /\ event[x] = "queued"
                        /\ worker'[v].at \in {"received", "counted"} => row[x] = "pending"
                        /\ worker'[v].at \in {"executing", "completed", "failed"}
                             => row[x] \in {"pending", "running"}
                        /\ worker'[v].at \in {"emit completed", "emit failed"} /\ faults = 0
                             => row[x] \in Finished
      BY <1>2, <2>3 DEF WorkerStage
    <3>1. CASE v = w
      <4>1. worker'[v].at = "received" /\ worker'[v].task = t
        BY <2>7, <3>1
      <4> QED
        BY <2>4, <4>1
    <3>2. CASE v # w
      BY <2>7, <3>2 DEF BackgroundInv, WorkerStage, Busy
    <3> QED
      BY <3>1, <3>2
  <2>13. OpenHasOwner'
    <3> SUFFICES ASSUME crashes = 0, faults = 0, NEW x \in Tasks, submit[x] = "accepted",
                        row[x] \in {"pending", "running"}
                 PROVE  \/ \E v \in Workers : Busy(v)' /\ worker'[v].task = x
                        \/ \E i \in Places' : queue'[i] = x
      BY <1>2, <2>3 DEF OpenHasOwner
    <3>1. CASE \E v \in Workers : Busy(v) /\ worker[v].task = x
      BY <2>3, <2>7, <3>1
    <3>2. CASE \E i \in Places : queue[i] = x
      <4>1. PICK i \in Places : queue[i] = x
        BY <3>2
      <4>2. CASE i = 1
        BY <2>7, <4>1, <4>2 DEF t
      <4>3. CASE i # 1
        <5>1. i - 1 \in Places' /\ (i - 1) + 1 = i
          BY <2>1, <4>3 DEF Places
        <5> QED
          BY <2>1, <4>1, <5>1
      <4> QED
        BY <4>2, <4>3
    <3> QED
      BY <3>1, <3>2 DEF BackgroundInv, OpenHasOwner
  <2> QED
    BY <2>3, <2>8, <2>9, <2>10, <2>11, <2>12, <2>13 DEF BackgroundInv, Forward
<1>4. CASE ~Receive(w)
  <2> DEFINE t == worker[w].task
  <2>1. UNCHANGED queue /\ Busy(w)
    BY <1>4 DEF WorkerStep, CountRunning, MarkRunning, Execute, RecordOutcome, EmitOutcome, Move,
                Busy
  <2>2. t \in Tasks /\ submit[t] = "accepted" /\ event[t] = "queued"
    BY <2>1 DEF BackgroundInv, Owned, WorkerStage
  <2>3. PICK to \in WorkerStates, job \in {t, "none"} :
          /\ worker' = [worker EXCEPT ![w] = [at |-> to, task |-> job]]
          /\ to # "idle" => job = t
          /\ to = "idle" => worker[w].at \in {"emit completed", "emit failed"}
    BY <1>4 DEF WorkerStep, CountRunning, MarkRunning, Execute, RecordOutcome, EmitOutcome, Move,
                Idle, WorkerStates
  <2>4. /\ worker'[w].at = to /\ worker'[w].task = job
        /\ \A v \in Workers \ {w} : worker'[v] = worker[v] /\ (Busy(v)' <=> Busy(v))
    BY <2>3 DEF Busy, BackgroundInv, Types
  <2>5. Busy(w)' <=> to # "idle"
    BY <2>4 DEF Busy
  <2>6. \A x \in Tasks \ {t} : row'[x] = row[x] /\ event'[x] = event[x]
    BY <1>4 DEF WorkerStep, CountRunning, MarkRunning, Execute, RecordOutcome, EmitOutcome, SetRow,
                BackgroundInv, Types
  <2>7. /\ row' \in [Tasks -> {"none", "pending", "running"} \cup Finished]
        /\ event' \in [Tasks -> {"none", "queued"} \cup Finished]
        /\ row[t] \in Finished => row'[t] = row[t]
        /\ row[t] = "running" => row'[t] \in {"running"} \cup Finished
        /\ row'[t] # "none" \/ row[t] = "none"
        /\ to # "idle" => event'[t] = "queued"
        /\ to \in {"received", "counted"} => row'[t] = "pending"
        /\ to \in {"executing", "completed", "failed"} => row'[t] \in {"pending", "running"}
        /\ to \in {"emit completed", "emit failed"} /\ faults' = 0 => row'[t] \in Finished
        /\ to = "idle" => row' = row
    <3>1. /\ row \in [Tasks -> {"none", "pending", "running"} \cup Finished]
          /\ event \in [Tasks -> {"none", "queued"} \cup Finished]
      BY DEF BackgroundInv, Types
    <3>2. /\ worker[w].at \in {"received", "counted"} => row[t] = "pending"
          /\ worker[w].at \in {"executing", "completed", "failed"} => row[t] \in {"pending", "running"}
          /\ worker[w].at \in {"emit completed", "emit failed"} /\ faults = 0 => row[t] \in Finished
      BY <2>1 DEF BackgroundInv, WorkerStage
    <3>3. worker'[w].at = to
      BY <2>3 DEF BackgroundInv, Types
    <3>4. ASSUME NEW from, NEW into, Move(w, from, into) PROVE worker[w].at = from /\ to = into
      <4>1. worker'[w].at = into
        BY <3>4 DEF Move, BackgroundInv, Types
      <4> QED
        BY <3>3, <3>4, <4>1 DEF Move
    <3>5. CASE CountRunning(w)
      <4>1. worker[w].at = "received" /\ to = "counted" /\ UNCHANGED <<row, event>>
        BY <3>4, <3>5 DEF CountRunning
      <4> QED
        BY <2>2, <3>1, <3>2, <4>1
    <3>6. CASE Execute(w)
      <4>1. worker[w].at = "executing" /\ to \in {"completed", "failed"} /\ UNCHANGED <<row, event>>
        BY <3>4, <3>6 DEF Execute
      <4> QED
        BY <2>2, <3>1, <3>2, <4>1
    <3>7. CASE MarkRunning(w)
      <4>1. /\ worker[w].at = "counted" /\ to = "executing" /\ UNCHANGED event
            /\ row' = [row EXCEPT ![t] = "running"] \/ row' = row
        BY <3>4, <3>7 DEF MarkRunning, SetRow
      <4> QED
        BY <2>2, <3>1, <3>2, <4>1
    <3>8. CASE RecordOutcome(w)
      <4>1. /\ \/ worker[w].at = "completed" /\ to = "emit completed"
               \/ worker[w].at = "failed" /\ to = "emit failed"
            /\ UNCHANGED event
        BY <3>4, <3>8 DEF RecordOutcome
      <4>2. PICK status \in Finished : status = worker[w].at
        BY <4>1
      <4>3. \/ row' = [row EXCEPT ![t] = status]
            \/ row' = row /\ faults' = faults + 1
        BY <3>8, <4>2 DEF RecordOutcome, SetRow, StoreFails
      <4>4. faults \in Nat
        BY DEF BackgroundInv, Types
      <4>5. row[t] \in {"pending", "running"}
        BY <3>2, <4>1
      <4> HIDE DEF t
      <4>6. CASE row' = [row EXCEPT ![t] = status]
        BY <2>2, <3>1, <4>1, <4>5, <4>6
      <4>7. CASE row' = row /\ faults' = faults + 1
        <5>1. faults' # 0
          BY <4>4, <4>7
        <5> QED
          BY <2>2, <3>1, <4>1, <4>5, <4>7, <5>1
      <4> QED
        BY <4>3, <4>6, <4>7
    <3>9. CASE EmitOutcome(w)
      <4>1. to = "idle"
        BY <3>3, <3>9 DEF EmitOutcome, Idle, BackgroundInv, Types
      <4>2. PICK e \in Finished : event' = [event EXCEPT ![t] = e]
        BY <3>9 DEF EmitOutcome
      <4>3. row' = row
        BY <3>9 DEF EmitOutcome
      <4> QED
        BY <2>2, <3>1, <4>1, <4>2, <4>3
    <3> QED
      BY <1>4, <3>5, <3>6, <3>7, <3>8, <3>9 DEF WorkerStep
  <2>8. Types'
    <3>1. [at |-> to, task |-> job] \in [at : WorkerStates, task : Tasks \cup {"none"}]
      BY <2>2, <2>3
    <3>2. worker' \in [Workers -> [at : WorkerStates, task : Tasks \cup {"none"}]]
      BY <2>3, <3>1 DEF BackgroundInv, Types
    <3> QED
      BY <1>2, <2>1, <2>7, <3>2 DEF BackgroundInv, Types
  <2> HIDE DEF t
  <2>9. Owned'
    <3>1. \A v \in Workers : Busy(v)' => Busy(v) /\ worker'[v].task = worker[v].task
      BY <2>1, <2>3, <2>4, <2>5 DEF t, Busy
    <3> QED
      BY <2>1, <3>1 DEF BackgroundInv, Owned, Places
  <2>10. \A v \in Workers \ {w} : Busy(v) => worker[v].task # t
    BY <2>1 DEF t, BackgroundInv, Owned
  <2>11. CallerStage'
    <3> SUFFICES ASSUME NEW x \in Tasks
                 PROVE  /\ submit[x] \in {"idle", "checked"} => row'[x] = "none"
                        /\ submit[x] \in {"saved", "announced"} => row'[x] = "pending"
                        /\ submit[x] = "announced" => event'[x] = "queued"
                        /\ submit[x] \in {"idle", "checked", "saved"} => event'[x] = "none"
      BY <1>2 DEF CallerStage
    <3>1. CASE x = t
      BY <2>2, <3>1
    <3>2. CASE x # t
      BY <2>6, <3>2 DEF BackgroundInv, CallerStage
    <3> QED
      BY <3>1, <3>2
  <2>12. QueueStage'
    <3>1. \A i \in Places : queue[i] \in Tasks \ {t}
      BY <1>1, <2>1 DEF t, BackgroundInv, Owned
    <3> QED
      BY <1>2, <2>1, <2>6, <3>1 DEF BackgroundInv, QueueStage, Places
  <2>13. WorkerStage'
    <3> SUFFICES ASSUME NEW v \in Workers, Busy(v)'
                 PROVE  LET x == worker'[v].task IN
                        /\ submit[x] = "accepted" /\ event'[x] = "queued"
                        /\ worker'[v].at \in {"received", "counted"} => row'[x] = "pending"
                        /\ worker'[v].at \in {"executing", "completed", "failed"}
                             => row'[x] \in {"pending", "running"}
                        /\ worker'[v].at \in {"emit completed", "emit failed"} /\ faults' = 0
                             => row'[x] \in Finished
      BY <1>2 DEF WorkerStage
    <3>1. CASE v = w
      BY <2>2, <2>3, <2>4, <2>7, <3>1 DEF Busy
    <3>2. CASE v # w
      <4>1. Busy(v) /\ worker'[v] = worker[v]
        BY <2>4, <3>2
      <4>2. worker[v].task \in Tasks \ {t}
        BY <2>10, <3>2, <4>1 DEF BackgroundInv, Owned
      <4> QED
        BY <1>2, <2>6, <4>1, <4>2 DEF BackgroundInv, WorkerStage
    <3> QED
      BY <3>1, <3>2
  <2>14. OpenHasOwner'
    <3> SUFFICES ASSUME crashes = 0, faults = 0, NEW x \in Tasks, submit[x] = "accepted",
                        row'[x] \in {"pending", "running"}
                 PROVE  \/ \E v \in Workers : Busy(v)' /\ worker'[v].task = x
                        \/ \E i \in Places : queue[i] = x
      BY <1>2, <2>1 DEF OpenHasOwner, Places
    <3>1. CASE x = t
      <4>1. to # "idle"
        BY <2>1, <2>3, <2>7, <3>1 DEF t, BackgroundInv, WorkerStage
      <4> QED
        BY <2>3, <2>4, <3>1, <4>1 DEF Busy
    <3>2. CASE x # t
      <4>1. row[x] \in {"pending", "running"}
        BY <2>6, <3>2
      <4>2. CASE \E v \in Workers : Busy(v) /\ worker[v].task = x
        BY <2>4, <3>2, <4>2 DEF t
      <4> QED
        BY <4>1, <4>2 DEF BackgroundInv, OpenHasOwner
    <3> QED
      BY <3>1, <3>2
  <2>15. Forward
    <3> SUFFICES ASSUME NEW x \in Tasks
                 PROVE  /\ row[x] \in Finished => row'[x] = row[x]
                        /\ row[x] = "running" => row'[x] \in {"running"} \cup Finished
                        /\ event'[x] \in Finished /\ event'[x] # event[x] => event[x] = "queued"
      BY DEF Forward
    <3>1. CASE x = t
      BY <2>2, <2>7, <3>1
    <3>2. CASE x # t
      BY <2>6, <3>2 DEF BackgroundInv, Types
    <3> QED
      BY <3>1, <3>2
  <2> QED
    BY <2>8, <2>9, <2>11, <2>12, <2>13, <2>14, <2>15 DEF BackgroundInv
<1> QED
  BY <1>3, <1>4

\* The rows outlive the process, the channel, the workers and the turns do not.
LEMMA CrashKeeps ==
  ASSUME BackgroundInv, Crash
  PROVE  BackgroundInv' /\ Forward
<1>1. /\ UNCHANGED <<row, delivered, event, told, shared, faults, failedTurns>> /\ queue' = <<>>
      /\ worker' = [w \in Workers |-> Idle] /\ turn' = [d \in Turns |-> NoTurn]
      /\ submit' = [t \in Tasks |->
            IF submit[t] \in {"checked", "saved", "announced"} THEN "refused" ELSE submit[t]]
      /\ crashes \in 0 .. MaxCrashes /\ crashes < MaxCrashes /\ crashes' = crashes + 1
  BY DEF Crash, storeVars, BackgroundInv, Types
<1>2. crashes' \in 0 .. MaxCrashes /\ crashes' # 0
  BY <1>1
<1>3. Places' = {} /\ \A w \in Workers : ~Busy(w)'
  BY <1>1 DEF Places, Busy, Idle
<1>4. Types'
  <2>1. worker' \in [Workers -> [at : WorkerStates, task : Tasks \cup {"none"}]]
    BY <1>1 DEF Idle, WorkerStates
  <2>2. /\ turn' \in [Turns -> [at : {"idle", "marking"}, got : SUBSET Tasks, left : SUBSET Tasks]]
        /\ \A d \in Turns : turn'[d].left \subseteq turn'[d].got
    BY <1>1 DEF NoTurn
  <2>3. queue' \in Seq(Tasks) /\ Len(queue') <= QueueCap
    BY <1>1
  <2>4. submit' \in [Tasks -> {"idle", "checked", "saved", "announced", "accepted", "refused"}]
    BY <1>1 DEF BackgroundInv, Types
  <2> QED
    BY <1>1, <1>2, <2>1, <2>2, <2>3, <2>4 DEF BackgroundInv, Types
<1>5. CallerStage'
  BY <1>1 DEF BackgroundInv, Types, CallerStage
<1>6. Owned' /\ QueueStage' /\ WorkerStage' /\ OpenHasOwner'
  BY <1>2, <1>3 DEF Owned, QueueStage, WorkerStage, OpenHasOwner
<1>7. Forward
  BY <1>1 DEF Forward
<1> QED
  BY <1>4, <1>5, <1>6, <1>7 DEF BackgroundInv

LEMMA StepKeeps == BackgroundInv /\ [Next]_vars => BackgroundInv' /\ [Forward]_vars
<1> SUFFICES ASSUME BackgroundInv, [Next]_vars PROVE BackgroundInv' /\ [Forward]_vars
  OBVIOUS
<1>1. CASE Next
  BY <1>1, SubmitKeeps, WorkerKeeps, TurnKeeps, CrashKeeps DEF Next
<1>2. CASE UNCHANGED vars
  <2>1. Types'
    BY <1>2 DEF vars, BackgroundInv, Types
  <2>2. Owned' /\ CallerStage' /\ QueueStage'
    BY <1>2 DEF vars, BackgroundInv, Owned, CallerStage, QueueStage, Busy, Places
  <2>3. WorkerStage' /\ OpenHasOwner'
    BY <1>2 DEF vars, BackgroundInv, WorkerStage, OpenHasOwner, Busy, Places
  <2>4. Forward
    BY <1>2 DEF vars, Forward, BackgroundInv, Types
  <2> QED
    BY <2>1, <2>2, <2>3, <2>4 DEF BackgroundInv
<1> QED
  BY <1>1, <1>2

LEMMA Invariance == Spec => []BackgroundInv
<1>1. BackgroundInv /\ [Next]_vars => BackgroundInv'
  BY StepKeeps
<1> QED
  BY <1>1, InitEstablishes, PTL DEF Spec

-----------------------------------------------------------------------------
\* Of two sets of which one is empty and neither has two elements, the sizes
\* add up to one at most.
LEMMA OneOfTwo ==
  ASSUME NEW A, NEW B, \A a, b \in A : a = b, \A a, b \in B : a = b, A = {} \/ B = {}
  PROVE  Cardinality(A) + Cardinality(B) <= 1
<1>1. ASSUME NEW S, \A a, b \in S : a = b PROVE Cardinality(S) \in {0, 1}
  <2>1. CASE S = {}
    BY <2>1, FS_EmptySet
  <2>2. CASE S # {}
    <3>1. PICK e \in S : S = {e}
      BY <1>1, <2>2
    <3> QED
      BY <3>1, FS_Singleton
  <2> QED
    BY <2>1, <2>2
<1>2. Cardinality(A) \in {0, 1} /\ Cardinality(B) \in {0, 1}
  BY <1>1
<1>3. Cardinality(A) = 0 \/ Cardinality(B) = 0
  BY FS_EmptySet
<1> QED
  BY <1>2, <1>3

LEMMA ConsistentInv == BackgroundInv => Consistent
<1> SUFFICES ASSUME BackgroundInv PROVE Consistent
  OBVIOUS
<1>1. TypeOK
  BY DEF BackgroundInv, Types, TypeOK
<1>2. OneOwner
  <2> SUFFICES ASSUME NEW t \in Tasks
               PROVE  Cardinality(Held(t)) + Cardinality(Queued(t)) <= 1
    BY DEF OneOwner
  <2>1. DOMAIN queue = Places
    BY DEF BackgroundInv, Types, Places
  <2>2. \A w \in Workers : w \in Held(t) <=> Busy(w) /\ worker[w].task = t
    BY DEF Held, Busy
  <2>3. Held(t) \subseteq Workers /\ Queued(t) = {i \in Places : queue[i] = t}
    BY <2>1 DEF Held, Queued
  <2>4. \A a, b \in Held(t) : a = b
    BY <2>2, <2>3 DEF BackgroundInv, Owned
  <2>5. \A a, b \in Queued(t) : a = b
    BY <2>3 DEF BackgroundInv, Owned
  <2>6. Held(t) = {} \/ Queued(t) = {}
    BY <2>2, <2>3 DEF BackgroundInv, Owned
  <2> QED
    BY <2>4, <2>5, <2>6, OneOfTwo
<1>3. UnfinishedRowHasOwner
  <2>1. DOMAIN queue = Places
    BY DEF BackgroundInv, Types, Places
  <2> QED
    BY <2>1 DEF BackgroundInv, OpenHasOwner, UnfinishedRowHasOwner, Held, Queued, Busy
<1> QED
  BY <1>1, <1>2, <1>3 DEF Consistent

\* A task is in the channel once or with one worker, never both, and as long as
\* nothing failed an unfinished row has such an owner.
THEOREM OwnedTasks == Spec => []Consistent
BY Invariance, ConsistentInv, PTL

\* A finished task stays as it finished, and its outcome is announced after it
\* was announced as queued, whatever crashes and whichever store call fails.
THEOREM StatusOnlyForward == Spec => StatusForward
<1>1. BackgroundInv /\ [Next]_vars => [Forward]_vars
  BY StepKeeps
<1>2. [Forward]_vars
        <=> [\A t \in Tasks :
               /\ row[t] \in Finished => row'[t] = row[t]
               /\ row[t] = "running" => row'[t] \in {"running"} \cup Finished
               /\ event'[t] \in Finished /\ event'[t] # event[t] => event[t] = "queued"]_vars
  BY DEF Forward
<1> QED
  BY <1>1, <1>2, Invariance, PTL DEF Spec, StatusForward

-----------------------------------------------------------------------------
(***************************************************************************)
(* Delivery by any number of turns at once                                 *)
(***************************************************************************)

\* Only results that exist are marked or read.
ReadIsFinished ==
  /\ \A t \in delivered : row[t] \in Finished
  /\ \A d \in Turns : \A t \in turn[d].got : row[t] \in Finished

\* A result that no two readers had unmarked has one reader at most; what was
\* told is marked, and so is what a turn holds but for what it has left to
\* mark; nothing that a turn holds was told before.
ReadAlone(t) ==
  /\ told[t] > 0 => t \in delivered
  /\ told[t] <= 1
  /\ \A d \in Turns : t \in turn[d].got => told[t] = 0 /\ (t \in turn[d].left \/ t \in delivered)
  /\ \A d, e \in Turns : t \in turn[d].got /\ t \in turn[e].got => d = e

DeliveryInv == ReadIsFinished /\ (faults = 0 => \A t \in Tasks : t \in shared \/ ReadAlone(t))

LEMMA DeliveryInitEstablishes == Init => DeliveryInv
BY DEF Init, DeliveryInv, ReadIsFinished, ReadAlone, NoTurn

\* A step of a caller or a worker leaves delivery alone, a finished row too.
LEMMA DeliveryOthersKeep ==
  ASSUME BackgroundInv, DeliveryInv, Forward, UNCHANGED <<delivered, turn, told, shared>>,
         faults' = 0 => faults = 0
  PROVE  DeliveryInv'
<1>1. \A d \in Turns : turn[d].got \subseteq Tasks
  BY DEF BackgroundInv, Types
<1>2. delivered \subseteq Tasks
  BY DEF BackgroundInv, Types
<1> QED
  BY <1>1, <1>2 DEF DeliveryInv, ReadIsFinished, ReadAlone, Forward

\* A turn reads what is not marked, so what was not told, and marks it before
\* it tells it; what another turn holds then is shared.
LEMMA DeliveryTurnKeeps ==
  ASSUME BackgroundInv, DeliveryInv, NEW d \in Turns, TurnStep(d)
  PROVE  DeliveryInv'
<1> DEFINE Turn == [at : {"idle", "marking"}, got : SUBSET Tasks, left : SUBSET Tasks]
<1>1. /\ turn \in [Turns -> Turn] /\ turn[d] \in Turn /\ told \in [Tasks -> 0 .. 2]
      /\ faults \in Nat
      /\ turn[d].left \subseteq turn[d].got /\ turn[d].got \subseteq Tasks
  BY DEF BackgroundInv, Types
<1>2. /\ \A t \in delivered : row[t] \in Finished
      /\ \A e \in Turns : \A t \in turn[e].got : row[t] \in Finished
      /\ faults = 0 => \A t \in Tasks : t \in shared \/ ReadAlone(t)
  BY DEF DeliveryInv, ReadIsFinished
<1>3. UNCHANGED row
  BY DEF TurnStep, Inject, Confirm, Mark, Answer, TurnFails, storeVars
<1>4. CASE Inject(d) \/ Confirm(d)
  <2>1. PICK got \in SUBSET Undelivered, left \in SUBSET Undelivered :
          /\ turn' = [turn EXCEPT ![d] = [at |-> "marking", got |-> got, left |-> left]]
          /\ shared \subseteq shared'
          /\ \A t \in got : t \in shared' \/ (t \in left /\ t \notin HeldByATurn)
    <3>1. CASE Inject(d)
      BY <3>1 DEF Inject
    <3>2. CASE Confirm(d)
      <4>1. PICK got \in {Undelivered} \cup {{t} : t \in Undelivered}, mark \in MarkChoices :
              /\ turn' = [turn EXCEPT ![d] = [at |-> "marking", got |-> got,
                                              left |-> IF mark THEN got ELSE {}]]
              /\ shared' = shared \cup (IF mark THEN got \cap HeldByATurn ELSE got)
        BY <3>2 DEF Confirm
      <4>2. PICK left : left = (IF mark THEN got ELSE {})
        OBVIOUS
      <4>3. turn' = [turn EXCEPT ![d] = [at |-> "marking", got |-> got, left |-> left]]
        BY <4>1, <4>2
      <4>4. got \in SUBSET Undelivered /\ left \in SUBSET Undelivered
        BY <4>2
      <4>5. CASE mark
        BY <4>1, <4>2, <4>3, <4>4, <4>5
      <4>6. CASE ~mark
        BY <4>1, <4>2, <4>3, <4>4, <4>6
      <4> QED
        BY <4>5, <4>6
    <3> QED
      BY <1>4, <3>1, <3>2
  <2>2. \A e \in Turns : /\ turn'[e].got = (IF e = d THEN got ELSE turn[e].got)
                         /\ turn'[e].left = (IF e = d THEN left ELSE turn[e].left)
    BY <1>1, <2>1
  <2>3. UNCHANGED <<delivered, told, faults>>
    BY <1>4 DEF Inject, Confirm, storeVars
  <2>4. \A t \in got : t \in Tasks /\ row[t] \in Finished /\ t \notin delivered
    BY DEF Undelivered
  <2>5. ReadIsFinished'
    BY <1>2, <1>3, <2>2, <2>3, <2>4 DEF ReadIsFinished
  <2>6. ASSUME faults = 0, NEW t \in Tasks, t \notin shared' PROVE ReadAlone(t)'
    <3>1. ReadAlone(t)
      BY <1>2, <2>1, <2>6
    <3>2. CASE t \in got
      <4>1. t \in left /\ \A e \in Turns : t \notin turn[e].got
        BY <2>1, <2>6, <3>2 DEF HeldByATurn
      <4>2. told[t] = 0
        BY <1>1, <2>4, <3>1, <3>2 DEF ReadAlone
      <4> QED
        BY <2>2, <2>3, <3>1, <4>1, <4>2 DEF ReadAlone
    <3>3. CASE t \notin got
      BY <2>2, <2>3, <3>1, <3>3 DEF ReadAlone
    <3> QED
      BY <3>2, <3>3
  <2> QED
    BY <2>3, <2>5, <2>6 DEF DeliveryInv
<1>5. CASE Mark(d)
  <2>1. PICK x \in turn[d].left :
          /\ turn' = [turn EXCEPT ![d] = [at |-> "marking", got |-> turn[d].got,
                                          left |-> turn[d].left \ {x}]]
          /\ \/ StoreOk /\ delivered' = delivered \cup {x}
             \/ StoreFails /\ delivered' = delivered
    BY <1>5 DEF Mark
  <2>2. \A e \in Turns : /\ turn'[e].got = turn[e].got
                         /\ turn'[e].left = (IF e = d THEN turn[e].left \ {x} ELSE turn[e].left)
    BY <1>1, <2>1
  <2>3. UNCHANGED <<told, shared>>
    BY <1>5 DEF Mark
  <2>4. faults' = 0 => faults = 0 /\ delivered' = delivered \cup {x}
    BY <1>1, <2>1 DEF StoreOk, StoreFails
  <2>5. delivered' \subseteq delivered \cup {x} /\ x \in turn[d].got
    BY <1>1, <2>1
  <2>6. ReadIsFinished'
    BY <1>2, <1>3, <2>2, <2>5 DEF ReadIsFinished
  <2>7. ASSUME faults' = 0, NEW t \in Tasks, t \notin shared' PROVE ReadAlone(t)'
    <3>1. ReadAlone(t)
      BY <1>2, <2>3, <2>4, <2>7
    <3> QED
      BY <2>2, <2>3, <2>4, <2>7, <3>1 DEF ReadAlone
  <2> QED
    BY <2>6, <2>7 DEF DeliveryInv
<1>6. CASE Answer(d)
  <2>1. /\ told' = [t \in Tasks |-> IF t \in turn[d].got /\ told[t] < 2 THEN told[t] + 1 ELSE told[t]]
        /\ turn' = [turn EXCEPT ![d] = NoTurn] /\ UNCHANGED <<delivered, shared, faults>>
        /\ turn[d].left = {}
    BY <1>6 DEF Answer, storeVars
  <2>2. \A e \in Turns : /\ turn'[e].got = (IF e = d THEN {} ELSE turn[e].got)
                         /\ turn'[e].left = (IF e = d THEN {} ELSE turn[e].left)
    BY <1>1, <2>1 DEF NoTurn
  <2>3. ReadIsFinished'
    BY <1>2, <1>3, <2>1, <2>2 DEF ReadIsFinished
  <2>4. ASSUME faults = 0, NEW t \in Tasks, t \notin shared PROVE ReadAlone(t)'
    <3>1. ReadAlone(t)
      BY <1>2, <2>4
    <3>2. CASE t \in turn[d].got
      <4>1. told[t] = 0 /\ t \in delivered /\ \A e \in Turns : t \in turn[e].got => e = d
        BY <2>1, <3>1, <3>2 DEF ReadAlone
      <4>2. told'[t] = 1
        BY <2>1, <3>2, <4>1
      <4> QED
        BY <2>1, <2>2, <4>1, <4>2 DEF ReadAlone
    <3>3. CASE t \notin turn[d].got
      <4>1. told'[t] = told[t]
        BY <2>1, <3>3
      <4> QED
        BY <2>1, <2>2, <3>1, <4>1 DEF ReadAlone
    <3> QED
      BY <3>2, <3>3
  <2> QED
    BY <2>1, <2>3, <2>4 DEF DeliveryInv
<1>7. CASE TurnFails(d)
  <2>1. turn' = [turn EXCEPT ![d] = NoTurn] /\ UNCHANGED <<delivered, told, shared, faults>>
    BY <1>7 DEF TurnFails, storeVars
  <2>2. \A e \in Turns : /\ turn'[e].got = (IF e = d THEN {} ELSE turn[e].got)
                         /\ turn'[e].left = (IF e = d THEN {} ELSE turn[e].left)
    BY <1>1, <2>1 DEF NoTurn
  <2> QED
    BY <1>2, <1>3, <2>1, <2>2 DEF DeliveryInv, ReadIsFinished, ReadAlone
<1> QED
  BY <1>4, <1>5, <1>6, <1>7 DEF TurnStep

LEMMA DeliveryStepPreserves == BackgroundInv /\ DeliveryInv /\ [Next]_vars => DeliveryInv'
<1> SUFFICES ASSUME BackgroundInv, DeliveryInv, [Next]_vars PROVE DeliveryInv'
  OBVIOUS
<1>1. ASSUME NEW t \in Tasks, SubmitStep(t) PROVE DeliveryInv'
  <2>1. UNCHANGED <<delivered, turn, told, shared>> /\ (StoreOk \/ StoreFails)
    BY <1>1 DEF SubmitStep, CheckLimit, SaveRow, EmitQueued, Enqueue, RefuseFull, SetRow, StoreOk,
                storeVars, turnVars
  <2>2. faults' = 0 => faults = 0
    BY <2>1 DEF StoreOk, StoreFails, BackgroundInv, Types
  <2> QED
    BY <1>1, <2>1, <2>2, SubmitKeeps, DeliveryOthersKeep
<1>2. ASSUME NEW w \in Workers, WorkerStep(w) PROVE DeliveryInv'
  <2>1. UNCHANGED <<delivered, turn, told, shared>> /\ (StoreOk \/ StoreFails)
    BY <1>2 DEF WorkerStep, Receive, CountRunning, MarkRunning, Execute, RecordOutcome, EmitOutcome,
                SetRow, StoreOk, storeVars, turnVars
  <2>2. faults' = 0 => faults = 0
    BY <2>1 DEF StoreOk, StoreFails, BackgroundInv, Types
  <2> QED
    BY <1>2, <2>1, <2>2, WorkerKeeps, DeliveryOthersKeep
<1>3. ASSUME NEW d \in Turns, TurnStep(d) PROVE DeliveryInv'
  BY <1>3, DeliveryTurnKeeps
<1>4. CASE Crash
  BY <1>4 DEF Crash, storeVars, DeliveryInv, ReadIsFinished, ReadAlone, NoTurn
<1>5. CASE UNCHANGED vars
  BY <1>5 DEF vars, DeliveryInv, ReadIsFinished, ReadAlone
<1> QED
  BY <1>1, <1>2, <1>3, <1>4, <1>5 DEF Next

\* However many turns read at once, across failing models and crashes: a result
\* is told a second time only if two readers had it before it was marked, or
\* one did not mark it, or a mark was not stored; and no running task is marked.
THEOREM NoResultTwice == Spec => []ToldAgainOnlyIfShared
<1>1. BackgroundInv /\ DeliveryInv /\ [Next]_vars => DeliveryInv'
  BY DeliveryStepPreserves
<1>2. DeliveryInv => ToldAgainOnlyIfShared
  BY DEF DeliveryInv, ReadIsFinished, ReadAlone, ToldAgainOnlyIfShared
<1> QED
  BY <1>1, <1>2, DeliveryInitEstablishes, Invariance, PTL DEF Spec

=============================================================================
