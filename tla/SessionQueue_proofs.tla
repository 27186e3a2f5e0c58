------------------------ MODULE SessionQueue_proofs ------------------------
(***************************************************************************)
(* Proofs about SessionQueue for any sets of agents and tasks, any channel *)
(* capacity and any interleaving.  Type correctness, and that every task   *)
(* has one place, hold with Clear; serial execution and the refinement of  *)
(* SerialExecutor hold until Clear is called, and so always in production, *)
(* where nobody calls it.                                                  *)
(***************************************************************************)
EXTENDS SessionQueue, FiniteSetTheorems, TLAPS

USE AgentOfAssumption, CapAssumption, MaxClearsAssumption

\* A task received from a channel is a task, and what remains is a channel.
LEMMA ReceiveType ==
  ASSUME NEW S, NEW s \in Seq(S), s # <<>>
  PROVE  Head(s) \in S /\ Tail(s) \in Seq(S) /\ Len(s) \in Nat /\ Len(s) > 0
OBVIOUS

\* The length of a channel is a natural number.
LEMMA LengthType == ASSUME NEW S, NEW s \in Seq(S) PROVE Len(s) \in Nat
OBVIOUS

\* The tail of a channel holds its elements but the first, in order.
LEMMA TailElements ==
  ASSUME NEW S, NEW s \in Seq(S), s # <<>>
  PROVE  /\ Len(Tail(s)) = Len(s) - 1
         /\ \A i \in 1 .. Len(Tail(s)) : Tail(s)[i] = s[i + 1] /\ i + 1 \in 1 .. Len(s)
OBVIOUS

\* Receiving does not make a channel longer.
LEMMA TailLength ==
  ASSUME NEW S, NEW s \in Seq(S), s # <<>>, Len(s) <= Cap
  PROVE  Len(Tail(s)) <= Cap
<1>1. Len(s) \in Nat /\ Len(Tail(s)) = Len(s) - 1
  BY LengthType, TailElements
<1> QED BY <1>1

\* Every queue object a call or a goroutine refers to exists.
LEMMA ObjectTypes ==
  ASSUME QueueTypeOK, NEW t \in QueuedTasks
  PROVE  /\ CallerObj(t) \in Objects
         /\ ProcObj(t) \in Objects
         /\ <<AgentOf[t], gen>> \in Objects
BY DEF QueueTypeOK, CallerObj, ProcObj, Objects

\* Every step of Submit, processQueue and Clear keeps the types.
LEMMA TypeCorrectStep == QueueTypeOK /\ [QueueNext]_queueVars => QueueTypeOK'
<1> SUFFICES ASSUME QueueTypeOK, [QueueNext]_queueVars PROVE QueueTypeOK'
  OBVIOUS
<1>1. ASSUME NEW t \in QueuedTasks, SubmitLocked(t) PROVE QueueTypeOK'
  BY <1>1, ObjectTypes DEF SubmitLocked, QueueTypeOK
<1>2. ASSUME NEW t \in QueuedTasks, PushAccepted(t) PROVE QueueTypeOK'
  <2>1. chan[CallerObj(t)] \in Seq(QueuedTasks)
    BY ObjectTypes DEF QueueTypeOK
  <2>2. Append(chan[CallerObj(t)], t) \in Seq(QueuedTasks)
    BY <2>1
  <2>3. Len(Append(chan[CallerObj(t)], t)) <= Cap
    <3>1. Len(chan[CallerObj(t)]) \in Nat /\ Len(chan[CallerObj(t)]) < Cap
      BY <1>2, <2>1, LengthType DEF PushAccepted
    <3>2. Len(Append(chan[CallerObj(t)], t)) = Len(chan[CallerObj(t)]) + 1
      BY <2>1
    <3> QED BY <3>1, <3>2
  <2> QED BY <1>2, <2>2, <2>3 DEF PushAccepted, QueueTypeOK
<1>3. ASSUME NEW t \in QueuedTasks, PushRefused(t) PROVE QueueTypeOK'
  BY <1>3 DEF PushRefused, QueueTypeOK, Answers
<1>4. ASSUME NEW t \in QueuedTasks, Return(t) PROVE QueueTypeOK'
  BY <1>4 DEF Return, QueueTypeOK
<1>5. ASSUME NEW p \in QueuedTasks, Lookup(p) PROVE QueueTypeOK'
  BY <1>5 DEF Lookup, QueueTypeOK
<1>6. ASSUME NEW p \in QueuedTasks, Take(p) PROVE QueueTypeOK'
  <2>1. /\ Head(chan[ProcObj(p)]) \in QueuedTasks
        /\ Tail(chan[ProcObj(p)]) \in Seq(QueuedTasks)
    BY <1>6, ObjectTypes, ReceiveType DEF Take, QueueTypeOK
  <2>2. Len(Tail(chan[ProcObj(p)])) <= Cap
    <3>1. chan[ProcObj(p)] \in Seq(QueuedTasks) /\ Len(chan[ProcObj(p)]) <= Cap /\ chan[ProcObj(p)] # <<>>
      BY <1>6, ObjectTypes DEF Take, QueueTypeOK
    <3> QED BY <3>1, TailLength
  <2> QED BY <1>6, <2>1, <2>2 DEF Take, QueueTypeOK
<1>7. ASSUME NEW p \in QueuedTasks, Finish(p) PROVE QueueTypeOK'
  BY <1>7 DEF Finish, QueueTypeOK, Answers
<1>8. ASSUME NEW p \in QueuedTasks, SeeEmpty(p) PROVE QueueTypeOK'
  BY <1>8 DEF SeeEmpty, QueueTypeOK
<1>9. ASSUME NEW p \in QueuedTasks, Stop(p) PROVE QueueTypeOK'
  BY <1>9 DEF Stop, QueueTypeOK
<1>10. ASSUME ClearBegin PROVE QueueTypeOK'
  BY <1>10 DEF ClearBegin, QueueTypeOK
<1>11. ASSUME NEW a \in Agents, ClearTake(a) PROVE QueueTypeOK'
  <2>1. <<a, gen>> \in Objects
    BY DEF QueueTypeOK, Objects
  <2>2. /\ Head(chan[a, gen]) \in QueuedTasks
        /\ Tail(chan[a, gen]) \in Seq(QueuedTasks)
    BY <1>11, <2>1, ReceiveType DEF ClearTake, QueueTypeOK
  <2>3. Len(Tail(chan[a, gen])) <= Cap
    <3>1. chan[a, gen] \in Seq(QueuedTasks) /\ Len(chan[a, gen]) <= Cap /\ chan[a, gen] # <<>>
      BY <1>11, <2>1 DEF ClearTake, QueueTypeOK
    <3> QED BY <3>1, TailLength
  <2> QED BY <1>11, <2>2, <2>3 DEF ClearTake, QueueTypeOK, Answers
<1>12. ASSUME NEW a \in Agents, ClearNext(a) PROVE QueueTypeOK'
  BY <1>12 DEF ClearNext, QueueTypeOK
<1>13. ASSUME ClearEnd PROVE QueueTypeOK'
  BY <1>13 DEF ClearEnd, QueueTypeOK, Gens
<1>14. CASE UNCHANGED queueVars
  BY <1>14 DEF queueVars, QueueTypeOK
<1> QED
  BY <1>1, <1>2, <1>3, <1>4, <1>5, <1>6, <1>7, <1>8, <1>9, <1>10, <1>11, <1>12, <1>13, <1>14
  DEF QueueNext, Submit, ProcessQueue, Clear, Quiescent

\* Type correctness: the state stays in the shape the code's declarations
\* give it, for every number of agents, tasks and Clears.
THEOREM TypeCorrect == QueueSpec => []QueueTypeOK
<1>1. QueueInit => QueueTypeOK
  BY DEF QueueInit, QueueTypeOK, Gens, Objects
<1> QED BY <1>1, TypeCorrectStep, PTL DEF QueueSpec


-----------------------------------------------------------------------------
\* Without Clear the lock is never lost, the first generation of queue
\* objects is the only one, and a goroutine finds its queue.
Production ==
  /\ QueueTypeOK
  /\ mu = "free"
  /\ gen = 0
  /\ \A p \in QueuedTasks : proc[p] = "lookup" => AgentOf[p] \in made
  /\ \A t \in QueuedTasks : ref[t] = 0 /\ pref[t] = 0

\* One goroutine per queue, each with the running flag of its queue set.
Exclusive ==
  /\ \A p \in QueuedTasks : Live(p) => running[AgentOf[p], 0]
  /\ \A p, q \in QueuedTasks : Live(p) /\ Live(q) /\ AgentOf[p] = AgentOf[q] => p = q

IInv == Production /\ Exclusive

LEMMA IInvInit == QueueInit => IInv
BY DEF QueueInit, IInv, Production, Exclusive, Live, QueueTypeOK, Gens, Objects

LEMMA IInvNext ==
  ASSUME NotCleared', IInv, [QueueNext]_queueVars
  PROVE  IInv'
<1>1. QueueTypeOK'
  BY TypeCorrectStep DEF IInv, Production
<1>2. ASSUME NEW t \in QueuedTasks, SubmitLocked(t) PROVE IInv'
  <2>1. Production'
    BY <1>1, <1>2 DEF IInv, Production, QueueTypeOK, SubmitLocked
  <2>2. CASE running[AgentOf[t], 0]
    <3>1. proc' = proc /\ \A o \in Objects : running[o] => running'[o]
      BY <1>2, <2>2, ObjectTypes DEF IInv, Production, QueueTypeOK, SubmitLocked
    <3>2. \A p \in QueuedTasks : <<AgentOf[p], 0>> \in Objects
      BY DEF Objects, Gens
    <3> QED BY <2>1, <3>1, <3>2 DEF IInv, Exclusive, Live
  <2>3. CASE ~ running[AgentOf[t], 0]
    <3>1. \A p \in QueuedTasks : Live(p) => AgentOf[p] # AgentOf[t]
      BY <2>3 DEF IInv, Exclusive
    <3>2. /\ proc' = [proc EXCEPT ![t] = "lookup"]
          /\ running' = [running EXCEPT ![<<AgentOf[t], 0>>] = TRUE]
      BY <1>2, <2>3 DEF IInv, Production, SubmitLocked
    <3>3. \A p \in QueuedTasks : <<AgentOf[p], 0>> \in Objects
      BY DEF Objects, Gens
    <3>4. \A p \in QueuedTasks : Live(p)' => p = t \/ Live(p)
      BY <3>2 DEF Live, IInv, Production, QueueTypeOK
    <3>5. \A p \in QueuedTasks : Live(p)' => running'[AgentOf[p], 0]
      BY <3>2, <3>3, <3>4 DEF IInv, Exclusive, Production, QueueTypeOK
    <3>6. \A p, q \in QueuedTasks : Live(p)' /\ Live(q)' /\ AgentOf[p] = AgentOf[q] => p = q
      BY <3>1, <3>4 DEF IInv, Exclusive
    <3> QED BY <2>1, <3>5, <3>6 DEF IInv, Exclusive
  <2> QED BY <2>2, <2>3
<1>3. ASSUME NEW t \in QueuedTasks, PushAccepted(t) \/ PushRefused(t) \/ Return(t) PROVE IInv'
  <2>1. UNCHANGED <<mu, gen, made, proc, running, ref, pref>>
    BY <1>3 DEF PushAccepted, PushRefused, Return
  <2>2. Production'
    BY <1>1, <2>1 DEF IInv, Production
  <2> QED BY <2>1, <2>2 DEF IInv, Exclusive, Live
<1>4. ASSUME NEW p \in QueuedTasks, Lookup(p) PROVE IInv'
  <2>1. AgentOf[p] \in made
    BY <1>4 DEF IInv, Production, Lookup
  <2>2. proc' = [proc EXCEPT ![p] = "select"] /\ pref' = [pref EXCEPT ![p] = 0]
    BY <1>4, <2>1 DEF IInv, Production, Lookup
  <2>3. Production'
    BY <1>1, <1>4, <2>1, <2>2 DEF IInv, Production, QueueTypeOK, Lookup
  <2>4. \A q \in QueuedTasks : Live(q)' <=> Live(q)
    BY <1>4, <2>2 DEF Live, Lookup, IInv, Production, QueueTypeOK
  <2>5. running' = running
    BY <1>4 DEF Lookup
  <2> QED BY <2>3, <2>4, <2>5 DEF IInv, Exclusive
<1>5. ASSUME NEW p \in QueuedTasks, Take(p) \/ Finish(p) \/ SeeEmpty(p) PROVE IInv'
  <2>1. Production'
    BY <1>1, <1>5 DEF IInv, Production, QueueTypeOK, Take, Finish, SeeEmpty
  <2>2. \A q \in QueuedTasks : Live(q)' <=> Live(q)
    BY <1>5 DEF Live, Take, Finish, SeeEmpty, IInv, Production, QueueTypeOK
  <2>3. running' = running
    BY <1>5 DEF Take, Finish, SeeEmpty
  <2> QED BY <2>1, <2>2, <2>3 DEF IInv, Exclusive
<1>6. ASSUME NEW p \in QueuedTasks, Stop(p) PROVE IInv'
  <2>1. Production'
    BY <1>1, <1>6 DEF IInv, Production, QueueTypeOK, Stop
  <2>2. Live(p)
    BY <1>6 DEF Live, Stop
  <2>3. CASE proc' = [proc EXCEPT ![p] = "select"] /\ running' = running
    <3>1. \A q \in QueuedTasks : Live(q)' <=> Live(q)
      BY <2>2, <2>3 DEF Live, IInv, Production, QueueTypeOK
    <3> QED BY <2>1, <2>3, <3>1 DEF IInv, Exclusive
  <2>4. CASE /\ proc' = [proc EXCEPT ![p] = "exited"]
             /\ running' = [running EXCEPT ![<<AgentOf[p], 0>>] = FALSE]
    <3>1. \A q \in QueuedTasks : Live(q)' => Live(q) /\ AgentOf[q] # AgentOf[p]
      BY <2>2, <2>4 DEF Live, IInv, Production, QueueTypeOK, Exclusive
    <3>2. \A q \in QueuedTasks : <<AgentOf[q], 0>> \in Objects
      BY DEF Objects, Gens
    <3>3. \A q \in QueuedTasks : Live(q)' => running'[AgentOf[q], 0]
      BY <2>4, <3>1, <3>2 DEF IInv, Exclusive, Production, QueueTypeOK
    <3> QED BY <2>1, <3>1, <3>3 DEF IInv, Exclusive
  <2> QED BY <1>6, <2>3, <2>4 DEF Stop, ProcObj, IInv, Production
<1>7. ASSUME Clear PROVE IInv'
  BY <1>7 DEF NotCleared, Clear, ClearBegin, ClearTake, ClearNext, ClearEnd, IInv, Production
<1>8. CASE UNCHANGED queueVars
  BY <1>8, <1>1 DEF queueVars, IInv, Production, Exclusive, Live
<1> QED
  BY <1>2, <1>3, <1>4, <1>5, <1>6, <1>7, <1>8
  DEF QueueNext, Submit, ProcessQueue, Quiescent

\* Once Clear was called it stays called.
LEMMA ClearedForever == ASSUME QueueTypeOK, NotCleared', [QueueNext]_queueVars PROVE NotCleared
<1>1. ASSUME NEW t \in QueuedTasks, Submit(t) PROVE NotCleared
  BY <1>1 DEF NotCleared, Submit, SubmitLocked, PushAccepted, PushRefused, Return
<1>2. ASSUME NEW p \in QueuedTasks, ProcessQueue(p) PROVE NotCleared
  BY <1>2 DEF NotCleared, ProcessQueue, Lookup, Take, Finish, SeeEmpty, Stop
<1>3. ASSUME Clear PROVE NotCleared
  <2>1. ~ ClearEnd
    <3>1. gen \in Nat
      BY DEF QueueTypeOK, Gens
    <3> QED BY <3>1 DEF ClearEnd, NotCleared
  <2> QED BY <1>3, <2>1 DEF NotCleared, Clear, ClearBegin, ClearTake, ClearNext
<1>4. CASE UNCHANGED queueVars
  BY <1>4 DEF queueVars, NotCleared
<1> QED BY <1>1, <1>2, <1>3, <1>4 DEF QueueNext, Quiescent

LEMMA Invariance == QueueSpec => [](QueueTypeOK /\ (NotCleared => IInv))
<1>1. QueueInit => QueueTypeOK /\ (NotCleared => IInv)
  BY IInvInit DEF IInv, Production
<1>2. QueueTypeOK /\ (NotCleared => IInv) /\ [QueueNext]_queueVars => (QueueTypeOK /\ (NotCleared => IInv))'
  <2>1. QueueTypeOK /\ [QueueNext]_queueVars /\ NotCleared' => NotCleared
    BY ClearedForever
  <2>2. IInv /\ [QueueNext]_queueVars /\ NotCleared' => IInv'
    BY IInvNext
  <2> QED BY <2>1, <2>2, TypeCorrectStep
<1> QED BY <1>1, <1>2, PTL DEF QueueSpec

\* Tasks of one agent never execute at the same time before somebody calls
\* Clear, for every number of agents, tasks and goroutines and every capacity.
THEOREM Serial == QueueSpec => []SerialExecution
<1>1. (NotCleared => IInv) => SerialExecution
  BY DEF IInv, Exclusive, SerialExecution, Live
<1> QED BY Invariance, <1>1, PTL

\* The reason: the running flag of a queue is held by its one goroutine.
THEOREM RunningIsExclusive == QueueSpec => []OneProcessor
<1>1. (NotCleared => IInv) => OneProcessor
  BY DEF IInv, Exclusive, OneProcessor
<1> QED BY Invariance, <1>1, PTL

-----------------------------------------------------------------------------
\* A task that is queued or executing was pushed by its caller, and an
\* unpushed task has no answer.
Accepted ==
  /\ \A t \in QueuedTasks : caller[t] \in {"idle", "push"} => done[t] = "open"
  /\ \A o \in Objects : \A i \in 1 .. Len(chan[o]) : caller[chan[o][i]] \in {"waiting", "returned"}
  /\ \A p \in QueuedTasks : proc[p] = "execute" => caller[cur[p]] \in {"waiting", "returned"}

LEMMA AcceptedInit == QueueInit => Accepted
BY DEF QueueInit, Accepted

LEMMA AcceptedNext ==
  ASSUME NotCleared', IInv, Accepted, [QueueNext]_queueVars
  PROVE  Accepted'
<1> USE DEF IInv, Production
<1>1. ASSUME NEW t \in QueuedTasks, SubmitLocked(t) PROVE Accepted'
  <2>1. /\ caller' = [caller EXCEPT ![t] = "push"]
        /\ caller[t] = "idle"
        /\ UNCHANGED <<chan, done, cur>>
        /\ proc' = proc \/ proc' = [proc EXCEPT ![t] = "lookup"]
    BY <1>1 DEF SubmitLocked
  <2>2. \A u \in QueuedTasks : caller[u] \in {"waiting", "returned"} => caller'[u] = caller[u]
    BY <2>1 DEF QueueTypeOK
  <2>3. \A o \in Objects : \A i \in 1 .. Len(chan[o]) : chan[o][i] \in QueuedTasks
    BY DEF QueueTypeOK
  <2>4. \A p \in QueuedTasks : proc'[p] = "execute" => proc[p] = "execute"
    BY <2>1 DEF QueueTypeOK
  <2> QED BY <2>1, <2>2, <2>3, <2>4 DEF Accepted, QueueTypeOK
<1>2. ASSUME NEW t \in QueuedTasks, PushAccepted(t) PROVE Accepted'
  <2> DEFINE o == CallerObj(t)
  <2>1. /\ o \in Objects
        /\ chan[o] \in Seq(QueuedTasks)
        /\ chan' = [chan EXCEPT ![o] = Append(chan[o], t)]
        /\ caller' = [caller EXCEPT ![t] = "waiting"]
        /\ Len(chan[o]) < Cap
        /\ UNCHANGED <<done, proc, cur>>
    BY <1>2, ObjectTypes DEF PushAccepted, QueueTypeOK
  <2>2. \A u \in QueuedTasks : caller[u] \in {"waiting", "returned"} => caller'[u] \in {"waiting", "returned"}
    BY <2>1 DEF QueueTypeOK
  <2>3. \A x \in Objects : \A i \in 1 .. Len(chan[x]) : chan[x][i] \in QueuedTasks
    BY DEF QueueTypeOK
  <2>4. /\ Len(chan'[o]) = Len(chan[o]) + 1
        /\ \A i \in 1 .. Len(chan'[o]) : i \in 1 .. Len(chan[o]) \/ chan'[o][i] = t
        /\ \A i \in 1 .. Len(chan[o]) : chan'[o][i] = chan[o][i]
    <3>1. chan'[o] = Append(chan[o], t)
      BY <2>1 DEF QueueTypeOK
    <3> QED BY <2>1, <3>1
  <2>5. caller'[t] = "waiting"
    BY <2>1 DEF QueueTypeOK
  <2>7. \A x \in Objects : \A i \in 1 .. Len(chan'[x]) : caller'[chan'[x][i]] \in {"waiting", "returned"}
    <3>1. \A i \in 1 .. Len(chan'[o]) : caller'[chan'[o][i]] \in {"waiting", "returned"}
      BY <2>1, <2>2, <2>3, <2>4, <2>5 DEF Accepted
    <3>2. \A x \in Objects : x # o => chan'[x] = chan[x]
      BY <2>1 DEF QueueTypeOK
    <3> QED BY <2>2, <2>3, <3>1, <3>2 DEF Accepted
  <2>8. \A p \in QueuedTasks : proc'[p] = "execute" => caller'[cur'[p]] \in {"waiting", "returned"}
    BY <2>1, <2>2 DEF Accepted, QueueTypeOK
  <2>9. \A u \in QueuedTasks : caller'[u] \in {"idle", "push"} => done'[u] = "open"
    BY <2>1 DEF Accepted, QueueTypeOK
  <2> QED BY <2>7, <2>8, <2>9 DEF Accepted
<1>3. ASSUME NEW t \in QueuedTasks, PushRefused(t) \/ Return(t) PROVE Accepted'
  <2>1. \A u \in QueuedTasks : caller[u] \in {"waiting", "returned"} => caller'[u] \in {"waiting", "returned"}
    BY <1>3 DEF QueueTypeOK, PushRefused, Return
  <2>2. \A u \in QueuedTasks : caller'[u] \in {"idle", "push"} => done'[u] = "open"
    BY <1>3 DEF Accepted, QueueTypeOK, PushRefused, Return
  <2>3. \A o \in Objects : \A i \in 1 .. Len(chan[o]) : chan[o][i] \in QueuedTasks
    BY DEF QueueTypeOK
  <2>4. UNCHANGED <<chan, proc, cur>>
    BY <1>3 DEF PushRefused, Return
  <2> QED BY <2>1, <2>2, <2>3, <2>4 DEF Accepted, QueueTypeOK
<1>4. ASSUME NEW p \in QueuedTasks, Lookup(p) \/ SeeEmpty(p) \/ Stop(p) PROVE Accepted'
  <2>1. UNCHANGED <<chan, done, cur, caller>>
    BY <1>4 DEF Lookup, SeeEmpty, Stop
  <2>2. \A q \in QueuedTasks : proc'[q] = "execute" => proc[q] = "execute"
    BY <1>4 DEF Lookup, SeeEmpty, Stop, QueueTypeOK
  <2> QED BY <2>1, <2>2 DEF Accepted
<1>5. ASSUME NEW p \in QueuedTasks, Take(p) PROVE Accepted'
  <2> DEFINE o == ProcObj(p)
  <2>1. /\ o \in Objects
        /\ chan[o] \in Seq(QueuedTasks)
        /\ chan[o] # <<>>
        /\ chan' = [chan EXCEPT ![o] = Tail(chan[o])]
        /\ cur' = [cur EXCEPT ![p] = Head(chan[o])]
        /\ proc' = [proc EXCEPT ![p] = "execute"]
        /\ UNCHANGED <<caller, done>>
    BY <1>5, ObjectTypes DEF Take, QueueTypeOK
  <2>2. chan'[o] = Tail(chan[o]) /\ cur'[p] = chan[o][1] /\ 1 \in 1 .. Len(chan[o])
    BY <2>1 DEF QueueTypeOK
  <2>3. /\ Len(chan'[o]) = Len(chan[o]) - 1
        /\ \A i \in 1 .. Len(chan'[o]) : chan'[o][i] = chan[o][i + 1] /\ i + 1 \in 1 .. Len(chan[o])
    <3>1. /\ Len(Tail(chan[o])) = Len(chan[o]) - 1
          /\ \A i \in 1 .. Len(Tail(chan[o])) :
                Tail(chan[o])[i] = chan[o][i + 1] /\ i + 1 \in 1 .. Len(chan[o])
      BY <2>1, TailElements
    <3> QED BY <2>2, <3>1
  <2>4. \A x \in Objects : x # o => chan'[x] = chan[x]
    BY <2>1 DEF QueueTypeOK
  <2>6. \A x \in Objects : \A i \in 1 .. Len(chan'[x]) : caller'[chan'[x][i]] \in {"waiting", "returned"}
    <3>1. \A i \in 1 .. Len(chan'[o]) : caller'[chan'[o][i]] \in {"waiting", "returned"}
      BY <2>1, <2>3 DEF Accepted
    <3> QED BY <2>1, <2>4, <3>1 DEF Accepted
  <2>7. \A q \in QueuedTasks : proc'[q] = "execute" => caller'[cur'[q]] \in {"waiting", "returned"}
    <3>1. caller'[cur'[p]] \in {"waiting", "returned"}
      BY <2>1, <2>2 DEF Accepted
    <3>2. \A q \in QueuedTasks : q # p => cur'[q] = cur[q] /\ proc'[q] = proc[q]
      BY <2>1 DEF QueueTypeOK
    <3> QED BY <2>1, <3>1, <3>2 DEF Accepted
  <2> QED BY <2>1, <2>6, <2>7 DEF Accepted
<1>6. ASSUME NEW p \in QueuedTasks, Finish(p) PROVE Accepted'
  <2>1. /\ proc[p] = "execute"
        /\ done' = [done EXCEPT ![cur[p]] = "executed"]
        /\ proc' = [proc EXCEPT ![p] = "select"]
        /\ UNCHANGED <<chan, caller, cur>>
    BY <1>6 DEF Finish
  <2>2. caller[cur[p]] \in {"waiting", "returned"}
    BY <2>1 DEF Accepted
  <2>3. \A u \in QueuedTasks : caller'[u] \in {"idle", "push"} => done'[u] = "open"
    BY <2>1, <2>2 DEF Accepted, QueueTypeOK
  <2>4. \A q \in QueuedTasks : proc'[q] = "execute" => proc[q] = "execute"
    BY <2>1 DEF QueueTypeOK
  <2> QED BY <2>1, <2>3, <2>4 DEF Accepted
<1>7. ASSUME Clear PROVE Accepted'
  BY <1>7 DEF NotCleared, Clear, ClearBegin, ClearTake, ClearNext, ClearEnd
<1>8. CASE UNCHANGED queueVars
  BY <1>8 DEF queueVars, Accepted
<1> QED
  BY <1>1, <1>2, <1>3, <1>4, <1>5, <1>6, <1>7, <1>8
  DEF QueueNext, Submit, ProcessQueue, Quiescent

-----------------------------------------------------------------------------
\* The refinement mapping under IInv, for an agent and for a goroutine.
LEMMA Mapping ==
  ASSUME IInv
  PROVE  /\ \A a \in Agents : AbsQueue[a] = chan[a, 0]
         /\ \A t \in QueuedTasks : CallerObj(t) = <<AgentOf[t], 0>> /\ ProcObj(t) = <<AgentOf[t], 0>>
         /\ \A p \in QueuedTasks : Live(p) => Executing(AgentOf[p]) \subseteq {p}
BY DEF IInv, Production, Exclusive, AbsQueue, CallerObj, ProcObj, Executing, Live

LEMMA StepSimulation ==
  ASSUME NotCleared', IInv, Accepted, [QueueNext]_queueVars
  PROVE  [Promise!Next]_(Promise!vars)
<1> USE DEF IInv, Production
<1> SUFFICES \/ UNCHANGED <<AbsQueue, AbsCurrent, AbsAnswer>>
             \/ \E t \in QueuedTasks : Promise!Accept(t) \/ Promise!Refuse(t)
             \/ \E a \in Agents : Promise!Begin(a) \/ Promise!End(a)
  BY DEF Promise!Next, Promise!vars
<1>1. ASSUME NEW t \in QueuedTasks, SubmitLocked(t) PROVE UNCHANGED <<AbsQueue, AbsCurrent, AbsAnswer>>
  <2>1. /\ UNCHANGED <<chan, cur, done>>
        /\ \A u \in QueuedTasks : caller[u] \in {"idle", "push"} <=> caller'[u] \in {"idle", "push"}
        /\ \A p \in QueuedTasks : proc[p] = "execute" => running[AgentOf[p], 0]
        /\ proc' = proc \/ (proc' = [proc EXCEPT ![t] = "lookup"] /\ ~ running[AgentOf[t], 0])
    BY <1>1 DEF SubmitLocked, QueueTypeOK, Exclusive, Live
  <2>2. proc[t] # "execute" \/ proc' = proc
    BY <2>1
  <2>3. \A q \in QueuedTasks : proc'[q] = "execute" <=> proc[q] = "execute"
    BY <2>1, <2>2 DEF QueueTypeOK
  <2>4. \A a \in Agents : Executing(a)' = Executing(a)
    BY <2>3 DEF Executing
  <2>5. AbsAnswer' = AbsAnswer /\ AbsQueue' = AbsQueue
    BY <2>1 DEF AbsQueue, AbsAnswer
  <2>6. AbsCurrent' = AbsCurrent
    <3>1. cur' = cur
      BY <2>1
    <3> QED BY <2>4, <3>1 DEF AbsCurrent
  <2> QED BY <2>5, <2>6
<1>2. ASSUME NEW t \in QueuedTasks, PushAccepted(t) PROVE Promise!Accept(t)
  <2>1. AbsAnswer[t] = "new" /\ AbsQueue[AgentOf[t]] = chan[AgentOf[t], 0]
    BY <1>2 DEF PushAccepted, AbsAnswer, AbsQueue
  <2>2. AbsAnswer' = [AbsAnswer EXCEPT ![t] = "open"]
    BY <1>2 DEF PushAccepted, AbsAnswer, Accepted, QueueTypeOK
  <2>3. AbsQueue' = [AbsQueue EXCEPT ![AgentOf[t]] = Append(AbsQueue[AgentOf[t]], t)]
    <3>1. /\ <<AgentOf[t], 0>> \in Objects
          /\ chan' = [chan EXCEPT ![<<AgentOf[t], 0>>] = Append(@, t)]
      BY <1>2, Mapping, ObjectTypes DEF PushAccepted
    <3>2. \A a \in Agents : <<a, 0>> \in Objects
      BY DEF Objects, Gens
    <3>3. \A a \in Agents : chan'[a, 0] = IF a = AgentOf[t] THEN Append(chan[a, 0], t) ELSE chan[a, 0]
      BY <3>1, <3>2 DEF QueueTypeOK
    <3> QED BY <2>1, <3>3 DEF AbsQueue
  <2>4. AbsCurrent' = AbsCurrent
    BY <1>2 DEF PushAccepted, AbsCurrent, Executing
  <2> QED BY <1>2, <2>1, <2>2, <2>3, <2>4, Mapping DEF PushAccepted, Promise!Accept
<1>3. ASSUME NEW t \in QueuedTasks, PushRefused(t) PROVE Promise!Refuse(t)
  <2>1. AbsAnswer[t] = "new" /\ AbsQueue[AgentOf[t]] = chan[AgentOf[t], 0]
    BY <1>3 DEF PushRefused, AbsAnswer, AbsQueue
  <2>2. AbsAnswer' = [AbsAnswer EXCEPT ![t] = "full"]
    BY <1>3 DEF PushRefused, AbsAnswer, QueueTypeOK
  <2>3. Len(chan[AgentOf[t], 0]) = Cap
    <3>1. CallerObj(t) = <<AgentOf[t], 0>> /\ <<AgentOf[t], 0>> \in Objects
      BY Mapping, ObjectTypes
    <3>2. chan[CallerObj(t)] \in Seq(QueuedTasks)
      BY <3>1 DEF QueueTypeOK
    <3>3. Len(chan[CallerObj(t)]) \in Nat
      BY <3>2, LengthType
    <3>4. Len(chan[CallerObj(t)]) >= Cap /\ Len(chan[CallerObj(t)]) <= Cap
      BY <1>3, <3>1 DEF PushRefused, QueueTypeOK
    <3>5. Len(chan[CallerObj(t)]) = Cap
      BY <3>3, <3>4
    <3> QED BY <3>1, <3>5
  <2>4. UNCHANGED <<AbsQueue, AbsCurrent>>
    BY <1>3 DEF PushRefused, AbsCurrent, Executing, AbsQueue
  <2> QED BY <2>1, <2>2, <2>3, <2>4 DEF Promise!Refuse
<1>4. ASSUME NEW t \in QueuedTasks, Return(t) PROVE UNCHANGED <<AbsQueue, AbsCurrent, AbsAnswer>>
  <2>1. /\ UNCHANGED <<chan, cur, done, proc>>
        /\ \A u \in QueuedTasks : caller[u] \in {"idle", "push"} <=> caller'[u] \in {"idle", "push"}
    BY <1>4 DEF Return, QueueTypeOK
  <2> QED BY <2>1 DEF AbsQueue, AbsCurrent, AbsAnswer, Executing
<1>5. ASSUME NEW p \in QueuedTasks, Lookup(p) \/ SeeEmpty(p) \/ Stop(p)
      PROVE UNCHANGED <<AbsQueue, AbsCurrent, AbsAnswer>>
  <2>1. /\ UNCHANGED <<chan, cur, done, caller>>
        /\ \A q \in QueuedTasks : proc'[q] = "execute" <=> proc[q] = "execute"
    BY <1>5 DEF Lookup, SeeEmpty, Stop, QueueTypeOK
  <2>2. \A a \in Agents : Executing(a)' = Executing(a)
    BY <2>1 DEF Executing
  <2> QED BY <2>1, <2>2 DEF AbsQueue, AbsCurrent, AbsAnswer
<1>6. ASSUME NEW p \in QueuedTasks, Take(p) PROVE Promise!Begin(AgentOf[p])
  <2> DEFINE a == AgentOf[p]
  <2>1. a \in Agents /\ <<a, 0>> \in Objects /\ AbsQueue[a] = chan[a, 0]
    BY Mapping, ObjectTypes
  <2>2. /\ chan[a, 0] # <<>>
        /\ chan' = [chan EXCEPT ![<<a, 0>>] = Tail(@)]
        /\ cur' = [cur EXCEPT ![p] = Head(chan[a, 0])]
        /\ proc' = [proc EXCEPT ![p] = "execute"]
        /\ UNCHANGED <<caller, done>>
    BY <1>6, Mapping DEF Take
  <2>3. Executing(a) = {} /\ Executing(a)' = {p}
    <3>1. Live(p) /\ p \notin Executing(a)
      BY <1>6 DEF Take, Live, Executing
    <3>2. Executing(a) \subseteq {p}
      BY <3>1, Mapping
    <3>3. Executing(a) = {}
      BY <3>1, <3>2
    <3> QED BY <2>2, <3>3 DEF Executing, QueueTypeOK
  <2>4. AbsCurrent[a] = {}
    BY <2>1, <2>3 DEF AbsCurrent
  <2>5. AbsCurrent' = [AbsCurrent EXCEPT ![a] = {Head(AbsQueue[a])}]
    <3>1. AbsCurrent'[a] = {Head(AbsQueue[a])}
      <4>1. cur'[p] = Head(AbsQueue[a])
        BY <2>1, <2>2 DEF QueueTypeOK
      <4>2. AbsCurrent'[a] = {cur'[q] : q \in Executing(a)'}
        BY <2>1 DEF AbsCurrent
      <4>3. {cur'[q] : q \in Executing(a)'} = {cur'[p]}
        BY <2>3
      <4> QED BY <4>1, <4>2, <4>3
    <3>2. \A b \in Agents \ {a} : AbsCurrent'[b] = AbsCurrent[b]
      <4>1. \A b \in Agents \ {a} : Executing(b)' = Executing(b)
        BY <2>2 DEF Executing, QueueTypeOK
      <4>2. \A b \in Agents \ {a} : \A q \in Executing(b) : cur'[q] = cur[q]
        BY <2>2 DEF Executing, QueueTypeOK
      <4> QED BY <4>1, <4>2 DEF AbsCurrent
    <3> QED BY <3>1, <3>2 DEF AbsCurrent
  <2>6. AbsQueue' = [AbsQueue EXCEPT ![a] = Tail(AbsQueue[a])]
    <3>1. \A b \in Agents : <<b, 0>> \in Objects
      BY DEF Objects, Gens
    <3>2. \A b \in Agents : chan'[b, 0] = IF b = a THEN Tail(chan[b, 0]) ELSE chan[b, 0]
      BY <2>2, <3>1 DEF QueueTypeOK
    <3> QED BY <2>1, <3>2 DEF AbsQueue
  <2>7. AbsAnswer' = AbsAnswer
    BY <2>2 DEF AbsAnswer
  <2> QED BY <2>1, <2>2, <2>4, <2>5, <2>6, <2>7 DEF Promise!Begin
<1>7. ASSUME NEW p \in QueuedTasks, Finish(p) PROVE Promise!End(AgentOf[p])
  <2> DEFINE a == AgentOf[p]
  <2>1. /\ a \in Agents
        /\ cur[p] \in QueuedTasks
        /\ caller[cur[p]] \in {"waiting", "returned"}
        /\ done' = [done EXCEPT ![cur[p]] = "executed"]
        /\ proc' = [proc EXCEPT ![p] = "select"]
        /\ UNCHANGED <<chan, caller, cur>>
    BY <1>7 DEF Finish, QueueTypeOK, Accepted
  <2>2. Executing(a) = {p} /\ Executing(a)' = {}
    <3>1. Live(p) /\ p \in Executing(a)
      BY <1>7 DEF Finish, Live, Executing
    <3>2. Executing(a) \subseteq {p}
      BY <3>1, Mapping
    <3>3. Executing(a) = {p}
      BY <3>1, <3>2
    <3> QED BY <2>1, <3>3 DEF Executing, QueueTypeOK
  <2>3. AbsCurrent[a] = {cur[p]} /\ AbsCurrent'[a] = {}
    BY <2>1, <2>2 DEF AbsCurrent
  <2>4. AbsCurrent' = [AbsCurrent EXCEPT ![a] = AbsCurrent[a] \ {cur[p]}]
    <3>1. \A b \in Agents \ {a} : Executing(b)' = Executing(b)
      BY <2>1 DEF Executing, QueueTypeOK
    <3>2. \A b \in Agents \ {a} : AbsCurrent'[b] = AbsCurrent[b]
      BY <2>1, <3>1 DEF AbsCurrent
    <3> QED BY <2>3, <3>2 DEF AbsCurrent
  <2>5. AbsAnswer' = [AbsAnswer EXCEPT ![cur[p]] = "executed"]
    BY <2>1 DEF AbsAnswer, QueueTypeOK
  <2>6. AbsQueue' = AbsQueue
    BY <2>1 DEF AbsQueue
  <2> QED BY <2>1, <2>3, <2>4, <2>5, <2>6 DEF Promise!End
<1>8. ASSUME Clear PROVE FALSE
  BY <1>8 DEF NotCleared, Clear, ClearBegin, ClearTake, ClearNext, ClearEnd
<1>9. CASE UNCHANGED queueVars
  BY <1>9 DEF queueVars, AbsQueue, AbsCurrent, AbsAnswer, Executing
<1> QED
  <2>1. \A p \in QueuedTasks : AgentOf[p] \in Agents
    OBVIOUS
  <2> QED BY <1>1, <1>2, <1>3, <1>4, <1>5, <1>6, <1>7, <1>8, <1>9, <2>1
      DEF QueueNext, Submit, ProcessQueue, Quiescent

LEMMA InitSimulation == QueueInit => Promise!Init
<1> SUFFICES ASSUME QueueInit PROVE Promise!Init
  OBVIOUS
<1>1. AbsQueue = [a \in Agents |-> <<>>]
  <2>1. \A a \in Agents : <<a, 0>> \in Objects
    BY DEF Objects, Gens
  <2> QED BY <2>1 DEF QueueInit, AbsQueue
<1>2. \A a \in Agents : Executing(a) = {}
  BY DEF QueueInit, Executing
<1>3. AbsCurrent = [a \in Agents |-> {}]
  BY <1>2 DEF AbsCurrent
<1>4. AbsAnswer = [t \in QueuedTasks |-> "new"]
  BY DEF QueueInit, AbsAnswer
<1> QED BY <1>1, <1>3, <1>4 DEF Promise!Init

LEMMA SimulationInvariant ==
  QueueSpec => [](QueueTypeOK /\ (NotCleared => IInv /\ Accepted))
<1>1. QueueInit => (NotCleared => Accepted)
  BY AcceptedInit
<1>2. /\ QueueTypeOK /\ (NotCleared => IInv) /\ (NotCleared => Accepted) /\ [QueueNext]_queueVars
      => (NotCleared => Accepted)'
  <2>1. QueueTypeOK /\ [QueueNext]_queueVars /\ NotCleared' => NotCleared
    BY ClearedForever
  <2>2. IInv /\ Accepted /\ [QueueNext]_queueVars /\ NotCleared' => Accepted'
    BY AcceptedNext
  <2> QED BY <2>1, <2>2
<1> QED BY Invariance, <1>1, <1>2, PTL DEF QueueSpec

\* Until Clear is called the queue is a serial executor: every step of the
\* goroutines, the lock and the channels is one of SerialExecutor or a stutter,
\* tasks of an agent starting in the order of acceptance, one at a time.
THEOREM Refinement == QueueSpec => ImplementsSerialExecutor
<1>1. /\ QueueTypeOK /\ (NotCleared => IInv /\ Accepted) /\ [QueueNext]_queueVars
      => [NotCleared' => Promise!Next \/ UNCHANGED Promise!vars]_queueVars
  <2> SUFFICES ASSUME QueueTypeOK, NotCleared => IInv /\ Accepted, [QueueNext]_queueVars, NotCleared'
               PROVE  Promise!Next \/ UNCHANGED Promise!vars
    OBVIOUS
  <2>1. IInv /\ Accepted
    BY ClearedForever
  <2> QED BY <2>1, StepSimulation
<1> QED BY SimulationInvariant, InitSimulation, <1>1, PTL DEF QueueSpec, ImplementsSerialExecutor

\* In production nobody calls Clear, and the queue is a serial executor for ever.
THEOREM ProductionRefinement == ASSUME MaxClears = 0 PROVE QueueSpec => Promise!Spec
<1>1. IInv /\ NotCleared /\ [QueueNext]_queueVars => NotCleared'
  <2> SUFFICES ASSUME IInv, NotCleared, [QueueNext]_queueVars PROVE NotCleared'
    OBVIOUS
  <2>1. ASSUME NEW t \in QueuedTasks, Submit(t) PROVE NotCleared'
    BY <2>1 DEF NotCleared, Submit, SubmitLocked, PushAccepted, PushRefused, Return
  <2>2. ASSUME NEW p \in QueuedTasks, ProcessQueue(p) PROVE NotCleared'
    BY <2>2 DEF IInv, Production, NotCleared, ProcessQueue, Lookup, Take, Finish, SeeEmpty, Stop
  <2>3. ASSUME Clear PROVE NotCleared'
    BY <2>3 DEF NotCleared, Clear, ClearBegin, ClearTake, ClearNext, ClearEnd
  <2>4. CASE UNCHANGED queueVars
    BY <2>4 DEF queueVars, NotCleared
  <2> QED BY <2>1, <2>2, <2>3, <2>4 DEF QueueNext, Quiescent
<1>2. QueueInit => NotCleared
  BY DEF QueueInit, NotCleared
<1>3. QueueSpec => []NotCleared
  BY Invariance, <1>1, <1>2, PTL DEF QueueSpec
<1>4. [NotCleared' => Promise!Next \/ UNCHANGED Promise!vars]_queueVars /\ NotCleared'
      => [Promise!Next]_(Promise!vars)
  <2>1. UNCHANGED queueVars => UNCHANGED Promise!vars
    BY DEF queueVars, Promise!vars, AbsQueue, AbsCurrent, AbsAnswer, Executing
  <2> QED BY <2>1
<1> QED BY Refinement, <1>3, <1>4, PTL DEF ImplementsSerialExecutor, Promise!Spec

-----------------------------------------------------------------------------
(***************************************************************************)
(* Where a task is, also while and after Clear drains                      *)
(***************************************************************************)
Places(o) == 1 .. Len(chan[o])
InChannel(t) == \E o \in Objects : \E i \in Places(o) : chan[o][i] = t
Waits(t) == caller[t] = "waiting" /\ done[t] = "open"

\* No task is in two places of the channels.
Distinct ==
  \A o, x \in Objects : \A i \in Places(o), j \in Places(x) :
    chan[o][i] = chan[x][j] => o = x /\ i = j

\* A call that has not pushed its task has no answer, one that was not made no
\* goroutine.
Fresh ==
  \A t \in QueuedTasks : /\ caller[t] \in {"idle", "push"} => done[t] = "open"
                         /\ caller[t] = "idle" => proc[t] = "none"

\* What is in a channel or with a goroutine is waited for, and is in one place.
PlacesWait ==
  /\ \A t \in QueuedTasks : InChannel(t) => Waits(t)
  /\ \A p \in QueuedTasks : proc[p] = "execute" => Waits(cur[p]) /\ ~InChannel(cur[p])
  /\ \A p, q \in QueuedTasks : proc[p] = "execute" /\ proc[q] = "execute" /\ cur[p] = cur[q] => p = q

\* What is waited for has a place.
WaitsHasPlace ==
  \A t \in QueuedTasks : Waits(t) => InChannel(t) \/ \E p \in QueuedTasks : proc[p] = "execute" /\ cur[p] = t

PlaceInv == QueueTypeOK /\ Distinct /\ Fresh /\ PlacesWait /\ WaitsHasPlace

\* A push puts a new task behind the others of its channel.
LEMMA PushPlace ==
  ASSUME QueueTypeOK, Distinct, NEW o \in Objects, NEW t \in QueuedTasks, ~InChannel(t),
         chan' = [chan EXCEPT ![o] = Append(chan[o], t)]
  PROVE  Distinct' /\ \A u : InChannel(u)' <=> InChannel(u) \/ u = t
<1>1. chan[o] \in Seq(QueuedTasks) /\ chan'[o] = Append(chan[o], t) /\ \A x \in Objects \ {o} : chan'[x] = chan[x]
  BY DEF QueueTypeOK
<1>2. Len(chan[o]) \in Nat
  BY <1>1, LengthType
<1> DEFINE last == Len(chan[o]) + 1
<1>3. /\ Len(chan'[o]) = last /\ chan'[o][last] = t
      /\ \A i \in Places(o) : chan'[o][i] = chan[o][i]
  BY <1>1 DEF Places
<1>4. Places(o)' = Places(o) \cup {last} /\ last \notin Places(o)
  BY <1>2, <1>3 DEF Places
<1>5. \A x \in Objects \ {o} : Places(x)' = Places(x)
  BY <1>1 DEF Places
<1> HIDE DEF last
<1>6. \A x \in Objects : \A i \in Places(x) : i \in Places(x)' /\ chan'[x][i] = chan[x][i]
  BY <1>1, <1>3, <1>4, <1>5
<1>7. \A x \in Objects : \A i \in Places(x)' :
        \/ i \in Places(x) /\ chan'[x][i] = chan[x][i]
        \/ x = o /\ i = last /\ chan'[x][i] = t
  BY <1>1, <1>3, <1>4, <1>5
<1>8. last \in Places(o)' /\ chan'[o][last] = t
  BY <1>3, <1>4
<1>9. \A x \in Objects : \A i \in Places(x) : chan[x][i] # t
  BY DEF InChannel
<1>10. ASSUME NEW x \in Objects, NEW y \in Objects, NEW i \in Places(x)', NEW j \in Places(y)',
              chan'[x][i] = chan'[y][j]
       PROVE  x = y /\ i = j
  <2> DEFINE Old == i \in Places(x) /\ chan'[x][i] = chan[x][i] /\ j \in Places(y) /\ chan'[y][j] = chan[y][j]
             New == x = o /\ i = last /\ y = o /\ j = last
  <2>1. CASE Old
    <3>1. chan[x][i] = chan[y][j] /\ i \in Places(x) /\ j \in Places(y)
      BY <1>10, <2>1
    <3> QED
      BY ONLY Distinct, x \in Objects, y \in Objects, <3>1 DEF Distinct
  <2>2. CASE New
    BY <2>2
  <2>3. \/ i \in Places(x) /\ chan'[x][i] = chan[x][i] /\ chan[x][i] # t
        \/ x = o /\ i = last /\ chan'[x][i] = t
    BY <1>7, <1>9
  <2>4. \/ j \in Places(y) /\ chan'[y][j] = chan[y][j] /\ chan[y][j] # t
        \/ y = o /\ j = last /\ chan'[y][j] = t
    BY <1>7, <1>9
  <2>5. Old \/ New
    BY ONLY <1>10, <2>3, <2>4
  <2> QED
    BY <2>1, <2>2, <2>5
<1>11. ASSUME NEW u PROVE InChannel(u)' <=> InChannel(u) \/ u = t
  <2>1. InChannel(u)' => InChannel(u) \/ u = t
    BY <1>7 DEF InChannel
  <2>2. InChannel(u) => InChannel(u)'
    BY <1>6 DEF InChannel
  <2>3. u = t => InChannel(u)'
    BY <1>8 DEF InChannel
  <2> QED
    BY <2>1, <2>2, <2>3
<1> QED
  BY <1>10, <1>11 DEF Distinct

\* A receive takes the first task of a channel away, and no other.
LEMMA ReceivePlace ==
  ASSUME QueueTypeOK, Distinct, NEW o \in Objects, chan[o] # <<>>,
         chan' = [chan EXCEPT ![o] = Tail(chan[o])]
  PROVE  /\ Distinct' /\ InChannel(Head(chan[o])) /\ Head(chan[o]) \in QueuedTasks
         /\ \A u : InChannel(u)' <=> InChannel(u) /\ u # Head(chan[o])
<1> DEFINE first == Head(chan[o])
<1>1. chan[o] \in Seq(QueuedTasks) /\ chan'[o] = Tail(chan[o]) /\ \A x \in Objects \ {o} : chan'[x] = chan[x]
  BY DEF QueueTypeOK
<1>2. first \in QueuedTasks /\ first = chan[o][1] /\ 1 \in Places(o) /\ Len(chan[o]) \in Nat
  BY <1>1 DEF Places
<1>3. /\ Len(chan'[o]) = Len(chan[o]) - 1
      /\ \A i \in Places(o)' : chan'[o][i] = chan[o][i + 1] /\ i + 1 \in Places(o)
  <2>1. /\ Len(Tail(chan[o])) = Len(chan[o]) - 1
        /\ \A i \in 1 .. Len(Tail(chan[o])) :
              Tail(chan[o])[i] = chan[o][i + 1] /\ i + 1 \in 1 .. Len(chan[o])
    BY <1>1, TailElements
  <2> QED
    BY <1>1, <2>1 DEF Places
<1>4. \A i \in Places(o)' : i + 1 # 1 /\ i \in Int
  BY <1>2, <1>3 DEF Places
<1>5. \A i \in Places(o) : i = 1 \/ (\E j \in Places(o)' : i = j + 1)
  <2> SUFFICES ASSUME NEW i \in Places(o), i # 1 PROVE i - 1 \in Places(o)' /\ i = (i - 1) + 1
    OBVIOUS
  <2> QED
    BY <1>2, <1>3 DEF Places
<1>6. \A x \in Objects \ {o} : Places(x)' = Places(x)
  BY <1>1 DEF Places
<1> HIDE DEF first
<1>7. \A x \in Objects : \A i \in Places(x)' :
        \/ x # o /\ i \in Places(x) /\ chan'[x][i] = chan[x][i]
        \/ x = o /\ i + 1 \in Places(o) /\ chan'[x][i] = chan[o][i + 1]
  <2> SUFFICES ASSUME NEW x \in Objects, NEW i \in Places(x)'
               PROVE  \/ x # o /\ i \in Places(x) /\ chan'[x][i] = chan[x][i]
                      \/ x = o /\ i + 1 \in Places(o) /\ chan'[x][i] = chan[o][i + 1]
    OBVIOUS
  <2>1. CASE x = o
    BY <1>3, <2>1
  <2>2. CASE x # o
    BY <1>1, <1>6, <2>2
  <2> QED
    BY <2>1, <2>2
<1>8. ASSUME NEW x \in Objects, NEW y \in Objects, NEW i \in Places(x)', NEW j \in Places(y)',
              chan'[x][i] = chan'[y][j]
      PROVE  x = y /\ i = j
  <2>1. CASE x = o /\ y = o
    <3>0. /\ i + 1 \in Places(o) /\ j + 1 \in Places(o)
          /\ chan[o][i + 1] = chan[o][j + 1]
      BY <1>3, <1>8, <2>1
    <3>1. i + 1 = j + 1
      BY <3>0 DEF Distinct
    <3> QED
      BY <1>4, <2>1, <3>1
  <2>2. CASE x # o /\ y # o
    BY <1>1, <1>6, <1>8, <2>2 DEF Distinct
  <2>3. CASE x = o /\ y # o
    <3>1. i + 1 \in Places(o) /\ j \in Places(y) /\ chan[o][i + 1] = chan[y][j]
      BY <1>7, <1>8, <2>3
    <3> QED
      BY <2>3, <3>1 DEF Distinct
  <2>4. CASE x # o /\ y = o
    <3>1. j + 1 \in Places(o) /\ i \in Places(x) /\ chan[x][i] = chan[o][j + 1]
      BY <1>7, <1>8, <2>4
    <3> QED
      BY <2>4, <3>1 DEF Distinct
  <2> QED
    BY <2>1, <2>2, <2>3, <2>4
<1>9. InChannel(first)
  BY <1>2 DEF InChannel
<1>10. ASSUME NEW u PROVE InChannel(u)' <=> InChannel(u) /\ u # first
  <2>1. ASSUME InChannel(u)' PROVE InChannel(u) /\ u # first
    <3>0. PICK x \in Objects : \E i \in Places(x)' : chan'[x][i] = u
      BY <2>1 DEF InChannel
    <3>1. PICK i \in Places(x)' : chan'[x][i] = u
      BY <3>0
    <3>2. CASE x # o
      <4>1. i \in Places(x) /\ chan[x][i] = u
        BY <1>7, <3>1, <3>2
      <4>2. u # first
        BY <1>2, <3>2, <4>1 DEF Distinct
      <4> QED
        BY <4>1, <4>2 DEF InChannel
    <3>3. CASE x = o
      <4>1. i + 1 \in Places(o) /\ chan[o][i + 1] = u /\ i + 1 # 1
        BY <1>3, <1>4, <3>1, <3>3
      <4>2. u # first
        BY <1>2, <4>1 DEF Distinct
      <4> QED
        BY <4>1, <4>2 DEF InChannel
    <3> QED
      BY <3>2, <3>3
  <2>2. ASSUME InChannel(u), u # first PROVE InChannel(u)'
    <3>0. PICK x \in Objects : \E i \in Places(x) : chan[x][i] = u
      BY <2>2 DEF InChannel
    <3>1. PICK i \in Places(x) : chan[x][i] = u
      BY <3>0
    <3>2. CASE x # o
      BY <1>1, <1>6, <3>1, <3>2 DEF InChannel
    <3>3. CASE x = o
      <4>1. PICK j \in Places(o)' : i = j + 1
        BY <1>2, <1>5, <2>2, <3>1, <3>3
      <4>2. chan'[o][j] = u
        BY <1>3, <3>1, <3>3, <4>1
      <4> QED
        BY <4>2 DEF InChannel
    <3> QED
      BY <3>2, <3>3
  <2> QED
    BY <2>1, <2>2
<1>11. Distinct'
  BY <1>8 DEF Distinct
<1> QED
  BY <1>2, <1>9, <1>10, <1>11 DEF first

LEMMA PlaceInitEstablishes == QueueInit => PlaceInv
<1> SUFFICES ASSUME QueueInit PROVE PlaceInv
  OBVIOUS
<1>1. QueueTypeOK
  BY DEF QueueInit, QueueTypeOK, Gens, Objects
<1>2. \A o \in Objects : Places(o) = {}
  BY DEF QueueInit, Places
<1>3. \A t : ~InChannel(t)
  BY <1>2 DEF InChannel
<1> QED
  BY <1>1, <1>2, <1>3 DEF QueueInit, PlaceInv, Distinct, Fresh, PlacesWait, WaitsHasPlace, Waits

LEMMA PlaceStepPreserves == PlaceInv /\ [QueueNext]_queueVars => PlaceInv'
<1> SUFFICES ASSUME PlaceInv, [QueueNext]_queueVars PROVE PlaceInv'
  OBVIOUS
<1>1. QueueTypeOK /\ QueueTypeOK'
  BY TypeCorrectStep DEF PlaceInv
<1>2. Distinct /\ Fresh /\ PlacesWait /\ WaitsHasPlace
  BY DEF PlaceInv
<1>c. UNCHANGED chan => (Distinct' <=> Distinct) /\ \A u : InChannel(u)' <=> InChannel(u)
  BY DEF Distinct, InChannel, Places
<1>t. \A t : InChannel(t) => t \in QueuedTasks
  BY <1>1 DEF InChannel, Places, QueueTypeOK
<1>3. ASSUME NEW t \in QueuedTasks, SubmitLocked(t) PROVE PlaceInv'
  <2>1. /\ caller[t] = "idle" /\ caller' = [caller EXCEPT ![t] = "push"] /\ UNCHANGED <<chan, done, cur>>
        /\ proc' = proc \/ proc' = [proc EXCEPT ![t] = "lookup"]
    BY <1>3 DEF SubmitLocked
  <2>2. \A p \in QueuedTasks : proc'[p] = "execute" <=> proc[p] = "execute"
    BY <1>1, <1>2, <2>1 DEF QueueTypeOK, Fresh
  <2>3. \A u \in QueuedTasks : Waits(u)' <=> Waits(u)
    BY <1>1, <2>1 DEF QueueTypeOK, Waits
  <2>4. Fresh'
    BY <1>1, <1>2, <2>1 DEF QueueTypeOK, Fresh
  <2>5. PlacesWait' /\ WaitsHasPlace'
    BY <1>1, <1>2, <1>c, <2>1, <2>2, <2>3 DEF QueueTypeOK, PlacesWait, WaitsHasPlace
  <2> QED
    BY <1>1, <1>2, <1>c, <2>1, <2>4, <2>5 DEF PlaceInv
<1>4. ASSUME NEW t \in QueuedTasks, PushAccepted(t) PROVE PlaceInv'
  <2>1. /\ caller[t] = "push" /\ caller' = [caller EXCEPT ![t] = "waiting"]
        /\ chan' = [chan EXCEPT ![CallerObj(t)] = Append(chan[CallerObj(t)], t)]
        /\ UNCHANGED <<done, cur, proc>>
    BY <1>4 DEF PushAccepted
  <2>2. ~Waits(t) /\ Waits(t)' /\ \A u \in QueuedTasks \ {t} : Waits(u)' <=> Waits(u)
    BY <1>1, <1>2, <2>1 DEF QueueTypeOK, Fresh, Waits
  <2>3. ~InChannel(t)
    BY <1>2, <2>2 DEF PlacesWait
  <2>4. Distinct' /\ \A u : InChannel(u)' <=> InChannel(u) \/ u = t
    BY <1>1, <1>2, <2>1, <2>3, ObjectTypes, PushPlace
  <2>5. Fresh'
    BY <1>1, <1>2, <2>1 DEF QueueTypeOK, Fresh
  <2>6. PlacesWait'
    <3>1. \A p \in QueuedTasks : proc[p] = "execute" => cur[p] \in QueuedTasks /\ cur[p] # t
      BY <1>1, <1>2, <2>2 DEF QueueTypeOK, PlacesWait
    <3>2. \A u \in QueuedTasks : InChannel(u)' => Waits(u)'
      BY <1>2, <2>2, <2>4 DEF PlacesWait
    <3>3. \A p \in QueuedTasks : proc[p] = "execute" => Waits(cur[p])' /\ ~InChannel(cur[p])'
      BY <1>2, <2>1, <2>2, <2>4, <3>1 DEF PlacesWait
    <3> QED
      BY <1>2, <2>1, <3>2, <3>3 DEF PlacesWait
  <2>7. WaitsHasPlace'
    BY <1>2, <2>1, <2>2, <2>4 DEF WaitsHasPlace
  <2> QED
    BY <1>1, <2>4, <2>5, <2>6, <2>7 DEF PlaceInv
<1>5. ASSUME NEW t \in QueuedTasks, PushRefused(t) \/ Return(t) PROVE PlaceInv'
  <2>1. /\ UNCHANGED <<chan, cur, proc>>
        /\ \A u \in QueuedTasks : Waits(u)' <=> Waits(u)
    BY <1>1, <1>5 DEF QueueTypeOK, Waits, PushRefused, Return
  <2>2. Fresh'
    BY <1>1, <1>2, <1>5 DEF QueueTypeOK, Fresh, PushRefused, Return
  <2>3. PlacesWait' /\ WaitsHasPlace'
    BY <1>1, <1>2, <1>c, <2>1 DEF QueueTypeOK, PlacesWait, WaitsHasPlace
  <2> QED
    BY <1>1, <1>2, <1>c, <2>1, <2>2, <2>3 DEF PlaceInv
<1>6. ASSUME NEW p \in QueuedTasks, Lookup(p) \/ SeeEmpty(p) \/ Stop(p) PROVE PlaceInv'
  <2>1. UNCHANGED <<chan, cur, caller, done>> /\ \A u \in QueuedTasks : Waits(u)' <=> Waits(u)
    BY <1>6 DEF Waits, Lookup, SeeEmpty, Stop
  <2>2. /\ \A q \in QueuedTasks : proc'[q] = "execute" <=> proc[q] = "execute"
        /\ \A q \in QueuedTasks : proc[q] = "none" => proc'[q] = "none"
    BY <1>1, <1>6 DEF QueueTypeOK, Lookup, SeeEmpty, Stop
  <2>3. Fresh'
    BY <1>2, <2>1, <2>2 DEF Fresh
  <2>4. PlacesWait' /\ WaitsHasPlace'
    BY <1>1, <1>2, <1>c, <2>1, <2>2 DEF QueueTypeOK, PlacesWait, WaitsHasPlace
  <2> QED
    BY <1>1, <1>2, <1>c, <2>1, <2>3, <2>4 DEF PlaceInv
<1>7. ASSUME NEW p \in QueuedTasks, Take(p) PROVE PlaceInv'
  <2> DEFINE o == ProcObj(p)
  <2>0. PICK t : t = Head(chan[o])
    OBVIOUS
  <2>1. /\ proc[p] = "select" /\ chan[o] # <<>> /\ chan' = [chan EXCEPT ![o] = Tail(chan[o])]
        /\ cur' = [cur EXCEPT ![p] = t] /\ proc' = [proc EXCEPT ![p] = "execute"]
        /\ UNCHANGED <<caller, done>>
    BY <1>7, <2>0 DEF Take
  <2>2. /\ Distinct' /\ InChannel(t) /\ t \in QueuedTasks
        /\ \A u : InChannel(u)' <=> InChannel(u) /\ u # t
    BY <1>1, <1>2, <2>0, <2>1, ObjectTypes, ReceivePlace
  <2> HIDE DEF o
  <2>3. /\ proc'[p] = "execute" /\ cur'[p] = t
        /\ \A q \in QueuedTasks \ {p} : proc'[q] = proc[q] /\ cur'[q] = cur[q]
    BY <1>1, <2>1 DEF QueueTypeOK
  <2>4. \A u \in QueuedTasks : Waits(u)' <=> Waits(u)
    BY <2>1 DEF Waits
  <2>5. Waits(t) /\ \A q \in QueuedTasks : proc[q] = "execute" => cur[q] # t
    BY <1>2, <2>2 DEF PlacesWait
  <2>6. Fresh'
    BY <1>2, <2>1, <2>3 DEF Fresh
  <2>7. PlacesWait'
    <3>1. \A u \in QueuedTasks : InChannel(u)' => Waits(u)'
      BY <1>2, <2>2, <2>4 DEF PlacesWait
    <3>2. \A q \in QueuedTasks : proc[q] = "execute" => cur[q] \in QueuedTasks /\ cur[q] # t
      BY <1>1, <2>5 DEF QueueTypeOK
    <3>3. ASSUME NEW q \in QueuedTasks, proc'[q] = "execute" PROVE (Waits(cur[q]) /\ ~InChannel(cur[q]))'
      <4>1. CASE q = p
        BY <2>2, <2>3, <2>4, <2>5, <4>1
      <4>2. CASE q # p
        <5>1. proc[q] = "execute" /\ cur'[q] = cur[q]
          BY <2>3, <3>3, <4>2
        <5> QED
          BY <1>2, <2>2, <2>4, <3>2, <5>1 DEF PlacesWait
      <4> QED
        BY <4>1, <4>2
    <3>4. ASSUME NEW q \in QueuedTasks, NEW r \in QueuedTasks, proc'[q] = "execute", proc'[r] = "execute",
                 cur'[q] = cur'[r]
          PROVE  q = r
      BY <1>2, <2>3, <3>2, <3>4 DEF PlacesWait
    <3> QED
      BY <3>1, <3>3, <3>4 DEF PlacesWait
  <2>8. WaitsHasPlace'
    <3> SUFFICES ASSUME NEW u \in QueuedTasks, Waits(u)
                 PROVE  InChannel(u)' \/ \E q \in QueuedTasks : proc'[q] = "execute" /\ cur'[q] = u
      BY <2>4 DEF WaitsHasPlace
    <3>1. CASE u = t
      BY <2>3, <3>1
    <3>2. CASE u # t
      BY <1>2, <2>1, <2>2, <2>3, <3>2 DEF WaitsHasPlace
    <3> QED
      BY <3>1, <3>2
  <2> QED
    BY <1>1, <2>2, <2>6, <2>7, <2>8 DEF PlaceInv
<1>8. ASSUME NEW p \in QueuedTasks, Finish(p) PROVE PlaceInv'
  <2> DEFINE t == cur[p]
  <2>1. /\ proc[p] = "execute" /\ done' = [done EXCEPT ![t] = "executed"]
        /\ proc' = [proc EXCEPT ![p] = "select"] /\ UNCHANGED <<chan, caller, cur>>
    BY <1>8 DEF Finish
  <2>2. t \in QueuedTasks /\ Waits(t) /\ ~InChannel(t)
    BY <1>1, <1>2, <2>1 DEF QueueTypeOK, PlacesWait
  <2>3. \A q \in QueuedTasks : proc'[q] = "execute" <=> proc[q] = "execute" /\ q # p
    BY <1>1, <2>1 DEF QueueTypeOK
  <2>4. \A q \in QueuedTasks \ {p} : proc[q] = "execute" => cur[q] # t
    BY <1>2, <2>1 DEF PlacesWait
  <2>5. ~Waits(t)' /\ \A u \in QueuedTasks \ {t} : Waits(u)' <=> Waits(u)
    BY <1>1, <2>1, <2>2 DEF QueueTypeOK, Waits
  <2>6. Fresh'
    BY <1>1, <1>2, <2>1, <2>2 DEF QueueTypeOK, Fresh, Waits
  <2>7. PlacesWait'
    BY <1>1, <1>2, <1>c, <2>1, <2>2, <2>3, <2>4, <2>5 DEF QueueTypeOK, PlacesWait
  <2>8. WaitsHasPlace'
    BY <1>2, <1>c, <2>1, <2>3, <2>5 DEF WaitsHasPlace
  <2> QED
    BY <1>1, <1>2, <1>c, <2>1, <2>6, <2>7, <2>8 DEF PlaceInv
<1>9. ASSUME NEW a \in Agents, ClearTake(a) PROVE PlaceInv'
  <2> DEFINE o == <<a, gen>>
  <2>0. PICK t : t = Head(chan[o])
    OBVIOUS
  <2>1. /\ chan[o] # <<>> /\ chan' = [chan EXCEPT ![o] = Tail(chan[o])]
        /\ done' = [done EXCEPT ![t] = "cleared"] /\ UNCHANGED <<caller, proc, cur>>
    BY <1>9, <2>0 DEF ClearTake
  <2>2. o \in Objects
    BY <1>1 DEF QueueTypeOK, Objects
  <2>3. /\ Distinct' /\ InChannel(t) /\ t \in QueuedTasks
        /\ \A u : InChannel(u)' <=> InChannel(u) /\ u # t
    BY <1>1, <1>2, <2>0, <2>1, <2>2, ReceivePlace
  <2> HIDE DEF o
  <2>4. Waits(t) /\ \A q \in QueuedTasks : proc[q] = "execute" => cur[q] # t
    BY <1>2, <2>3 DEF PlacesWait
  <2>5. ~Waits(t)' /\ \A u \in QueuedTasks \ {t} : Waits(u)' <=> Waits(u)
    <3>1. done'[t] = "cleared" /\ \A u \in QueuedTasks \ {t} : done'[u] = done[u]
      BY <1>1, <2>1, <2>3 DEF QueueTypeOK
    <3> QED
      BY <2>1, <3>1 DEF Waits
  <2>6. Fresh'
    BY <1>1, <1>2, <2>1, <2>3, <2>4 DEF QueueTypeOK, Fresh, Waits
  <2>7. PlacesWait'
    BY <1>1, <1>2, <2>1, <2>3, <2>4, <2>5 DEF QueueTypeOK, PlacesWait
  <2>8. WaitsHasPlace'
    <3> SUFFICES ASSUME NEW u \in QueuedTasks, Waits(u)'
                 PROVE  InChannel(u)' \/ \E p \in QueuedTasks : proc'[p] = "execute" /\ cur'[p] = u
      BY DEF WaitsHasPlace
    <3>1. u # t /\ Waits(u)
      BY <2>5
    <3> QED
      BY <1>2, <2>1, <2>3, <3>1 DEF WaitsHasPlace
  <2> QED
    BY <1>1, <2>3, <2>6, <2>7, <2>8 DEF PlaceInv
<1>10. CASE UNCHANGED <<chan, caller, done, proc, cur>>
  BY <1>1, <1>2, <1>c, <1>10 DEF PlaceInv, Fresh, PlacesWait, WaitsHasPlace, Waits
<1>11. ASSUME ClearBegin \/ ClearEnd \/ (\E a \in Agents : ClearNext(a)) \/ UNCHANGED queueVars
       PROVE  UNCHANGED <<chan, caller, done, proc, cur>>
  BY <1>11 DEF ClearBegin, ClearEnd, ClearNext, queueVars
<1> QED
  BY <1>3, <1>4, <1>5, <1>6, <1>7, <1>8, <1>9, <1>10, <1>11
  DEF QueueNext, Submit, ProcessQueue, Clear, Quiescent

\* Of two sets of which one is empty at least and neither has two elements, the
\* sizes add up to one exactly when one has an element.
LEMMA OneOfTwo ==
  ASSUME NEW A, NEW B, \A a, b \in A : a = b, \A a, b \in B : a = b, A = {} \/ B = {}
  PROVE  Cardinality(A) + Cardinality(B) = (IF A # {} \/ B # {} THEN 1 ELSE 0)
<1>1. ASSUME NEW S, \A a, b \in S : a = b PROVE Cardinality(S) = (IF S = {} THEN 0 ELSE 1)
  <2>1. CASE S = {}
    BY <2>1, FS_EmptySet
  <2>2. CASE S # {}
    <3>1. PICK e \in S : S = {e}
      BY <1>1, <2>2
    <3> QED
      BY <2>2, <3>1, FS_Singleton
  <2> QED
    BY <2>1, <2>2
<1>2. Cardinality(A) = (IF A = {} THEN 0 ELSE 1) /\ Cardinality(B) = (IF B = {} THEN 0 ELSE 1)
  BY <1>1
<1> QED
  BY <1>2

LEMMA PlaceInvIsExact == PlaceInv => ExactlyOnePlace
<1> SUFFICES ASSUME PlaceInv, NEW t \in QueuedTasks
             PROVE  Cardinality(Slots(t)) + Cardinality(Executors(t)) = (IF Waits(t) THEN 1 ELSE 0)
  BY DEF ExactlyOnePlace, Waits
<1>1. QueueTypeOK /\ Distinct /\ PlacesWait /\ WaitsHasPlace
  BY DEF PlaceInv
<1>2. \A o \in Objects : Len(chan[o]) \in Nat /\ Len(chan[o]) <= Cap
  BY <1>1, LengthType DEF QueueTypeOK
<1>3. ASSUME NEW o \in Objects, NEW i PROVE <<o, i>> \in Slots(t) <=> i \in Places(o) /\ chan[o][i] = t
  BY <1>2 DEF Slots, Places
<1>4. \A s \in Slots(t) : s = <<s[1], s[2]>> /\ s[1] \in Objects
  BY DEF Slots
<1>5. \A s \in Slots(t) : s[2] \in Places(s[1]) /\ chan[s[1]][s[2]] = t
  BY <1>3, <1>4
<1>6. \A r, s \in Slots(t) : r = s
  BY <1>1, <1>4, <1>5 DEF Distinct
<1>7. \A p, q \in Executors(t) : p = q
  BY <1>1 DEF Executors, PlacesWait
<1>8. Slots(t) # {} <=> InChannel(t)
  <2>1. ASSUME NEW s \in Slots(t) PROVE InChannel(t)
    BY <1>4, <1>5 DEF InChannel
  <2>2. ASSUME InChannel(t) PROVE Slots(t) # {}
    <3>1. PICK o \in Objects : \E i \in Places(o) : chan[o][i] = t
      BY <2>2 DEF InChannel
    <3>2. PICK i \in Places(o) : chan[o][i] = t
      BY <3>1
    <3>3. <<o, i>> \in Slots(t)
      BY <1>3, <3>2
    <3> QED
      BY <3>3
  <2> QED
    BY <2>1, <2>2
<1>9. Executors(t) # {} <=> \E p \in QueuedTasks : proc[p] = "execute" /\ cur[p] = t
  BY DEF Executors
<1>10. Slots(t) = {} \/ Executors(t) = {}
  BY <1>1, <1>8, <1>9 DEF PlacesWait
<1>11. (Slots(t) # {} \/ Executors(t) # {}) <=> Waits(t)
  BY <1>1, <1>8, <1>9 DEF PlacesWait, WaitsHasPlace
<1>12. Cardinality(Slots(t)) + Cardinality(Executors(t))
         = (IF Slots(t) # {} \/ Executors(t) # {} THEN 1 ELSE 0)
  BY <1>6, <1>7, <1>10, OneOfTwo
<1> QED
  BY <1>11, <1>12

\* A call that waits has its task in one place, an answered task is nowhere:
\* nothing is lost, executed twice or answered twice (a second send would block
\* and the second close panic), however often Clear drains the channels while
\* goroutines receive from them.
THEOREM NothingLostOrTwice == QueueSpec => []ExactlyOnePlace
BY PlaceInitEstablishes, PlaceStepPreserves, PlaceInvIsExact, PTL DEF QueueSpec

=============================================================================
