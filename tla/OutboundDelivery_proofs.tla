------------------------ MODULE OutboundDelivery_proofs ------------------------
(***************************************************************************)
(* Proofs about OutboundDelivery for any channels, messages, capacities    *)
(* and retries and any number of reloads: one sender per channel, and the  *)
(* messages of a channel in the order in which they were published.        *)
(***************************************************************************)
EXTENDS OutboundDelivery, FiniteSetTheorems, TLAPS

USE ConstantsAssumption

Sending == {"limiter", "sending", "backoff"}
Work_ == [at : Positions, msg : 0 .. MaxMessages, try : 0 .. MaxRetries]

Types ==
  /\ published \in 0 .. MaxMessages
  /\ bus \in Seq(Messages) /\ Len(bus) <= BusSize
  /\ dispatcher \in [Managers -> {"none", "idle", "routing", "enqueuing", "done"}]
  /\ hand \in [Managers -> 0 .. MaxMessages]
  /\ queue \in [Managers -> [Channels -> Seq(Messages)]]
  /\ worker \in [Managers -> [Channels -> Work_]]
  /\ closed \in SUBSET Managers /\ cancelled \in SUBSET Managers
  /\ sent \in Seq(Messages) /\ settled \in SUBSET Messages
  /\ started \in Managers /\ manager \in 0 .. started
  /\ reloads \in 0 .. MaxReloads

\* A message is with a worker while its position says so; it backs off only
\* before another attempt.
Holding ==
  /\ \A g \in Managers : hand[g] \in Messages <=> dispatcher[g] \in {"routing", "enqueuing"}
  /\ \A g \in Managers, c \in Channels :
       /\ Len(queue[g][c]) <= QueueSize
       /\ worker[g][c].at \in Sending => worker[g][c].msg \in Messages
       /\ worker[g][c].at = "backoff" => worker[g][c].try < MaxRetries

\* The goroutine that reloads: it stops what it has cancelled, and every start
\* follows a reload.
Gates ==
  /\ gateway \in {"up", "closing", "waiting", "down", "starting"}
  /\ gateway \in {"closing", "waiting"} => manager \in cancelled
  /\ gateway = "starting" => manager # 0
  /\ started <= reloads + 1
  /\ gateway \in {"closing", "waiting", "down"} => started <= reloads
  /\ closed \subseteq cancelled /\ cancelled \subseteq 1 .. started

\* What the bus has given away so far; it holds the rest, in order.
Taken == published - Len(bus)
BusIsTail == \A i \in 1 .. Len(bus) : bus[i] = Taken + i

\* Where the messages of a channel are.
Sent(c) == {m \in Messages : Target[m] = c /\ \E i \in 1 .. Len(sent) : sent[i] = m}
Queued(g, c) == {m \in Messages : \E k \in 1 .. Len(queue[g][c]) : queue[g][c][k] = m}
Held(g, c) == {m \in Messages : hand[g] = m /\ Target[m] = c}
InWork(g, c) == {m \in Messages : worker[g][c].msg = m /\ worker[g][c].at \in Sending}

\* Everything outside the bus was taken from it.
Passed ==
  /\ settled \subseteq 1 .. published
  /\ \A c \in Channels : \A m \in Sent(c) : m <= Taken
  /\ \A g \in Managers, c \in Channels : \A m \in Queued(g, c) \cup Held(g, c) \cup InWork(g, c) : m <= Taken

Alive(g, c) == worker[g][c].at \notin {"none", "done"}

\* A manager that was not started has nothing; workers live in the present
\* manager alone, and in none between the end of StopAll and the next start.
Fresh ==
  \A g \in Managers : g > started =>
    /\ hand[g] = 0 /\ dispatcher[g] = "none"
    /\ \A c \in Channels : queue[g][c] = <<>> /\ ~Alive(g, c)
LiveIsCurrent ==
  \A g \in Managers, c \in Channels : Alive(g, c) => g = manager /\ gateway # "down"

Ahead(A, B) == \A a \in A, b \in B : a < b
Increasing(s) == \A i, j \in 1 .. Len(s) : i < j => s[i] < s[j]

\* On the way of a live worker nothing overtakes: sent, in work, queued, held
\* by the dispatcher.
Lane(g, c) ==
  /\ Increasing(queue[g][c])
  /\ \A m \in Queued(g, c) \cup InWork(g, c) : Target[m] = c
  /\ Ahead(Sent(c), InWork(g, c)) /\ Ahead(Sent(c), Queued(g, c)) /\ Ahead(Sent(c), Held(g, c))
  /\ Ahead(InWork(g, c), Queued(g, c)) /\ Ahead(InWork(g, c), Held(g, c))
  /\ Ahead(Queued(g, c), Held(g, c))

Lanes == \A g \in Managers, c \in Channels : Alive(g, c) => Lane(g, c)

Ordered == \A i, j \in 1 .. Len(sent) : i < j /\ Target[sent[i]] = Target[sent[j]] => sent[i] < sent[j]

OutboundInv ==
  Types /\ Holding /\ Gates /\ BusIsTail /\ Passed /\ Fresh /\ LiveIsCurrent /\ Lanes /\ Ordered

-----------------------------------------------------------------------------
LEMMA SeqFacts ==
  ASSUME NEW S, NEW s \in Seq(S)
  PROVE  Len(s) \in Nat /\ DOMAIN s = 1 .. Len(s) /\ \A i \in 1 .. Len(s) : s[i] \in S
OBVIOUS

LEMMA TailFacts ==
  ASSUME NEW S, NEW s \in Seq(S), s # <<>>
  PROVE  /\ Head(s) \in S /\ Head(s) = s[1] /\ 1 \in 1 .. Len(s) /\ Len(s) \in Nat
         /\ Tail(s) \in Seq(S) /\ Len(Tail(s)) = Len(s) - 1
         /\ \A i \in 1 .. Len(Tail(s)) : Tail(s)[i] = s[i + 1] /\ i + 1 \in 1 .. Len(s)
OBVIOUS

LEMMA AppendFacts ==
  ASSUME NEW S, NEW s \in Seq(S), NEW e \in S
  PROVE  /\ Append(s, e) \in Seq(S) /\ Len(Append(s, e)) = Len(s) + 1 /\ Len(s) \in Nat
         /\ \A i \in 1 .. Len(s) : Append(s, e)[i] = s[i]
         /\ Append(s, e)[Len(s) + 1] = e
OBVIOUS

LEMMA BusFacts == OutboundInv => Taken \in Nat /\ Taken <= published /\ published \in Nat /\ Len(bus) \in Nat
<1> SUFFICES ASSUME OutboundInv PROVE Taken \in Nat /\ Taken <= published /\ published \in Nat /\ Len(bus) \in Nat
  OBVIOUS
<1>1. published \in Nat /\ bus \in Seq(Messages) /\ BusIsTail
  BY DEF OutboundInv, Types
<1>2. Len(bus) \in Nat /\ \A i \in 1 .. Len(bus) : bus[i] \in Messages
  BY <1>1, SeqFacts
<1>3. CASE Len(bus) = 0
  BY <1>1, <1>3 DEF Taken
<1>4. CASE Len(bus) > 0
  <2>1. bus[1] = Taken + 1 /\ bus[1] >= 1
    BY <1>1, <1>2, <1>4 DEF BusIsTail, Messages
  <2> QED
    BY <1>1, <1>2, <2>1 DEF Taken
<1> QED
  BY <1>1, <1>2, <1>3, <1>4

LEMMA InitEstablishes == Init => OutboundInv
<1> SUFFICES ASSUME Init PROVE OutboundInv
  OBVIOUS
<1>1. PICK running \in SUBSET Channels :
        worker = [g \in Managers |-> [c \in Channels |-> IF g = 1 /\ c \in running THEN Idle ELSE Absent]]
  BY DEF Init
<1>2. Idle \in Work_ /\ Absent \in Work_ /\ Idle.at = "idle" /\ Absent.at = "none"
  BY DEF Idle, Absent, Work_, Positions
<1>3. worker \in [Managers -> [Channels -> Work_]]
  BY <1>1, <1>2
<1>4. 1 \in Managers /\ \A g \in Managers : g \in Nat
  BY DEF Managers
<1>5. \A g \in Managers, c \in Channels :
        worker[g][c].at \in {"idle", "none"} /\ (worker[g][c].at = "idle" => g = 1)
  BY <1>1, <1>2
<1>6. Types
  BY <1>3, <1>4 DEF Init, Types
<1>7. Holding
  BY <1>5 DEF Init, Holding, Messages, Sending
<1>8. Gates /\ BusIsTail
  BY DEF Init, Gates, BusIsTail
<1>9. /\ \A c \in Channels : Sent(c) = {}
      /\ \A g \in Managers, c \in Channels : Queued(g, c) = {} /\ Held(g, c) = {} /\ InWork(g, c) = {}
  BY <1>5 DEF Init, Sent, Queued, Held, InWork, Messages, Sending
<1>10. Passed /\ Lanes
  BY <1>9 DEF Init, Passed, Lanes, Lane, Ahead, Increasing
<1>11. Fresh /\ LiveIsCurrent
  BY <1>4, <1>5 DEF Init, Fresh, LiveIsCurrent, Alive
<1>12. Ordered
  BY DEF Init, Ordered
<1> QED
  BY <1>6, <1>7, <1>8, <1>10, <1>11, <1>12 DEF OutboundInv

\* A new message goes to the end of the bus.
LEMMA PublishKeeps == ASSUME OutboundInv, Publish PROVE OutboundInv'
<1>1. /\ published < MaxMessages /\ Len(bus) < BusSize /\ published' = published + 1
      /\ bus' = Append(bus, published + 1)
      /\ UNCHANGED <<dispatcher, hand, queue, worker, sent, settled, closed, cancelled, gateway,
                     manager, started, reloads>>
  BY DEF Publish, lane, stops
<1>2. published \in 0 .. MaxMessages /\ bus \in Seq(Messages) /\ published + 1 \in Messages
  BY <1>1 DEF OutboundInv, Types, Messages
<1>3. /\ bus' \in Seq(Messages) /\ Len(bus') = Len(bus) + 1 /\ Len(bus) \in Nat
      /\ \A i \in 1 .. Len(bus) : bus'[i] = bus[i]
      /\ bus'[Len(bus) + 1] = published + 1
  BY <1>1, <1>2, AppendFacts
<1>4. Taken' = Taken /\ published' \in 0 .. MaxMessages
  BY <1>1, <1>2, <1>3 DEF Taken
<1>5. Types'
  BY <1>1, <1>3, <1>4 DEF OutboundInv, Types
<1>6. BusIsTail'
  <2> SUFFICES ASSUME NEW i \in 1 .. Len(bus') PROVE bus'[i] = Taken + i
    BY <1>4 DEF BusIsTail
  <2>1. CASE i \in 1 .. Len(bus)
    BY <1>3, <2>1 DEF OutboundInv, BusIsTail
  <2>2. CASE i = Len(bus) + 1
    BY <1>2, <1>3, <2>2 DEF Taken
  <2> QED
    BY <1>3, <2>1, <2>2
<1>7. Holding' /\ Gates'
  BY <1>1 DEF OutboundInv, Holding, Gates
<1>8. /\ \A c \in Channels : Sent(c)' = Sent(c)
      /\ \A g \in Managers, c \in Channels :
           Queued(g, c)' = Queued(g, c) /\ Held(g, c)' = Held(g, c) /\ InWork(g, c)' = InWork(g, c)
  BY <1>1 DEF Sent, Queued, Held, InWork
<1>9. Passed'
  <2>1. settled \subseteq 1 .. published'
    BY <1>1, <1>2 DEF OutboundInv, Passed
  <2> QED
    BY <1>1, <1>4, <1>8, <2>1 DEF OutboundInv, Passed
<1>10. Fresh' /\ LiveIsCurrent' /\ Ordered'
  BY <1>1 DEF OutboundInv, Fresh, LiveIsCurrent, Ordered, Alive
<1>11. Lanes'
  BY <1>1, <1>8 DEF OutboundInv, Lanes, Lane, Alive
<1> QED
  BY <1>5, <1>6, <1>7, <1>9, <1>10, <1>11 DEF OutboundInv

-----------------------------------------------------------------------------
\* A step of a dispatcher leaves the workers, the gateway and the lanes of the
\* other managers alone.
LEMMA DispatchFrame ==
  ASSUME OutboundInv, NEW g \in Managers, dispatcher[g] # "none",
         UNCHANGED <<published, worker, sent, closed, cancelled, gateway, manager, started, reloads>>,
         \A x \in Managers \ {g} : hand'[x] = hand[x] /\ dispatcher'[x] = dispatcher[x] /\ queue'[x] = queue[x],
         Types', BusIsTail', Taken \in Nat, Taken' \in Nat, Taken <= Taken',
         settled' \subseteq 1 .. published,
         hand'[g] \in Messages <=> dispatcher'[g] \in {"routing", "enqueuing"},
         \A c \in Channels : /\ Len(queue'[g][c]) <= QueueSize
                             /\ \A m \in Queued(g, c)' \cup Held(g, c)' : m <= Taken'
                             /\ Alive(g, c) => Lane(g, c)'
  PROVE  OutboundInv'
<1>1. Holding'
  BY DEF OutboundInv, Holding
<1>2. Gates' /\ LiveIsCurrent' /\ Ordered'
  BY DEF OutboundInv, Gates, LiveIsCurrent, Ordered, Alive
<1>3. /\ \A c \in Channels : Sent(c)' = Sent(c)
      /\ \A x \in Managers, c \in Channels : InWork(x, c)' = InWork(x, c) /\ (Alive(x, c)' <=> Alive(x, c))
      /\ \A x \in Managers \ {g}, c \in Channels : Queued(x, c)' = Queued(x, c) /\ Held(x, c)' = Held(x, c)
  BY DEF Sent, InWork, Alive, Queued, Held
<1>4. Passed'
  <2>1. ASSUME NEW m \in Messages, m <= Taken PROVE m <= Taken'
    BY <2>1 DEF Messages
  <2>2. \A c \in Channels : \A m \in Sent(c)' : m <= Taken'
    BY <1>3, <2>1 DEF OutboundInv, Passed, Sent
  <2>3. \A c \in Channels : \A m \in InWork(g, c)' : m <= Taken'
    BY <1>3, <2>1 DEF OutboundInv, Passed, InWork
  <2>4. \A x \in Managers \ {g}, c \in Channels :
          \A m \in Queued(x, c)' \cup Held(x, c)' \cup InWork(x, c)' : m <= Taken'
    <3> SUFFICES ASSUME NEW x \in Managers \ {g}, NEW c \in Channels
                 PROVE  \A m \in Queued(x, c)' \cup Held(x, c)' \cup InWork(x, c)' : m <= Taken'
      OBVIOUS
    <3>1. Queued(x, c)' = Queued(x, c) /\ Held(x, c)' = Held(x, c) /\ InWork(x, c)' = InWork(x, c)
      BY <1>3
    <3>2. \A m \in Queued(x, c) \cup Held(x, c) \cup InWork(x, c) : m \in Messages
      BY DEF Queued, Held, InWork
    <3>3. \A m \in Queued(x, c) \cup Held(x, c) \cup InWork(x, c) : m <= Taken
      BY DEF OutboundInv, Passed
    <3> QED
      BY <2>1, <3>1, <3>2, <3>3
  <2> QED
    BY <2>2, <2>3, <2>4 DEF Passed
<1>5. Fresh'
  <2>1. ~(g > started)
    BY DEF OutboundInv, Fresh
  <2> QED
    BY <1>3, <2>1 DEF OutboundInv, Fresh
<1>6. Lanes'
  <2> SUFFICES ASSUME NEW x \in Managers, NEW c \in Channels, Alive(x, c)' PROVE Lane(x, c)'
    BY DEF Lanes
  <2>1. CASE x = g
    BY <1>3, <2>1
  <2>2. CASE x # g
    BY <1>3, <2>2 DEF OutboundInv, Lanes, Lane
  <2> QED
    BY <2>1, <2>2
<1> QED
  BY <1>1, <1>2, <1>4, <1>5, <1>6 DEF OutboundInv

LEMMA SubscribeKeeps == ASSUME OutboundInv, NEW g \in Managers, Subscribe(g) PROVE OutboundInv'
<1>0. PICK m : m = Head(bus)
  OBVIOUS
<1>1. /\ dispatcher[g] = "idle" /\ dispatcher' = [dispatcher EXCEPT ![g] = "routing"] /\ bus # <<>>
      /\ hand' = [hand EXCEPT ![g] = m] /\ bus' = Tail(bus)
      /\ UNCHANGED <<published, queue, worker, sent, settled, closed, cancelled, gateway, manager,
                     started, reloads>>
  BY <1>0 DEF Subscribe, DispatcherAt, stops
<1>2. Types /\ BusIsTail /\ Passed /\ Holding /\ Lanes
  BY DEF OutboundInv
<1>3. Taken \in Nat /\ published \in Nat /\ Len(bus) \in Nat
  BY BusFacts
<1>4. /\ m \in Messages /\ m = bus[1] /\ 1 \in 1 .. Len(bus)
      /\ bus' \in Seq(Messages) /\ Len(bus') = Len(bus) - 1
      /\ \A i \in 1 .. Len(bus') : bus'[i] = bus[i + 1] /\ i + 1 \in 1 .. Len(bus)
  BY <1>0, <1>1, <1>2, TailFacts DEF Types
<1>5. m = Taken + 1 /\ Taken' = Taken + 1
  BY <1>1, <1>2, <1>3, <1>4 DEF BusIsTail, Taken
<1>6. Types'
  <2>1. m \in 0 .. MaxMessages
    BY <1>4 DEF Messages
  <2>2. Len(bus') <= BusSize
    <3>1. Len(bus) <= BusSize
      BY <1>2 DEF Types
    <3> QED
      BY <1>3, <1>4, <3>1
  <2> QED
    BY <1>1, <1>2, <1>4, <2>1, <2>2 DEF Types
<1>7. BusIsTail'
  <2> SUFFICES ASSUME NEW i \in 1 .. Len(bus') PROVE bus'[i] = Taken' + i
    BY DEF BusIsTail
  <2> QED
    BY <1>2, <1>3, <1>4, <1>5 DEF BusIsTail
<1>8. /\ hand'[g] = m /\ dispatcher'[g] = "routing"
      /\ \A x \in Managers \ {g} : hand'[x] = hand[x] /\ dispatcher'[x] = dispatcher[x] /\ queue'[x] = queue[x]
  BY <1>1, <1>2 DEF Types
<1>9. ASSUME NEW c \in Channels
      PROVE  /\ Queued(g, c)' = Queued(g, c) /\ InWork(g, c)' = InWork(g, c) /\ Sent(c)' = Sent(c)
             /\ Held(g, c)' \subseteq {m}
             /\ \A k \in Queued(g, c) \cup InWork(g, c) \cup Sent(c) : k \in Nat /\ k <= Taken
  <2>1. Queued(g, c)' = Queued(g, c) /\ InWork(g, c)' = InWork(g, c) /\ Sent(c)' = Sent(c)
    BY <1>1 DEF Queued, InWork, Sent
  <2>2. Held(g, c)' \subseteq {m}
    BY <1>8 DEF Held
  <2>3. \A k \in Queued(g, c) \cup InWork(g, c) \cup Sent(c) : k \in Nat /\ k <= Taken
    BY <1>2 DEF Passed, Queued, InWork, Sent, Messages
  <2> QED
    BY <2>1, <2>2, <2>3
<1>10. ASSUME NEW c \in Channels
       PROVE  /\ Len(queue'[g][c]) <= QueueSize
              /\ \A k \in Queued(g, c)' \cup Held(g, c)' : k <= Taken'
              /\ Alive(g, c) => Lane(g, c)'
  <2>1. Len(queue'[g][c]) <= QueueSize
    BY <1>1, <1>2 DEF Holding
  <2>2. \A k \in Queued(g, c)' \cup Held(g, c)' : k <= Taken'
    BY <1>3, <1>5, <1>9
  <2>3. ASSUME Alive(g, c) PROVE Lane(g, c)'
    <3>1. Lane(g, c)
      BY <1>2, <2>3 DEF Lanes
    <3>2. \A k \in Queued(g, c) \cup InWork(g, c) \cup Sent(c) : k < m
      BY <1>3, <1>5, <1>9
    <3>3. Increasing(queue'[g][c])
      BY <1>1, <3>1 DEF Lane
    <3> QED
      BY <1>9, <3>1, <3>2, <3>3 DEF Lane, Ahead
  <2> QED
    BY <2>1, <2>2, <2>3
<1>11. Taken' \in Nat /\ Taken <= Taken' /\ settled' \subseteq 1 .. published
  BY <1>1, <1>2, <1>3, <1>5 DEF Passed
<1> QED
  BY <1>1, <1>3, <1>4, <1>6, <1>7, <1>8, <1>10, <1>11, DispatchFrame

\* Skipping, giving up and stopping: the dispatcher holds no more than before.
LEMMA RouteKeeps ==
  ASSUME OutboundInv, NEW g \in Managers, Route(g) \/ GiveUpEnqueue(g) \/ StopDispatch(g)
  PROVE  OutboundInv'
<1>2. Types /\ BusIsTail /\ Passed /\ Holding /\ Lanes
  BY DEF OutboundInv
<1>3. Taken \in Nat /\ Taken <= published /\ published \in Nat
  BY BusFacts
<1>1. /\ UNCHANGED <<published, bus, queue, worker, sent, closed, cancelled, gateway, manager,
                     started, reloads>>
      /\ dispatcher[g] # "none"
  BY DEF Route, GiveUpEnqueue, StopDispatch, DispatcherAt, stops
<1>4. PICK to \in {"idle", "enqueuing", "done"}, m \in {hand[g], 0} :
        /\ dispatcher' = [dispatcher EXCEPT ![g] = to] /\ hand' = [hand EXCEPT ![g] = m]
        /\ m \in Messages <=> to \in {"routing", "enqueuing"}
        /\ settled' = settled \/ (hand[g] \in Messages /\ settled' = settled \cup {hand[g]})
  <2>1. hand = [hand EXCEPT ![g] = hand[g]] /\ 0 \notin Messages
    BY <1>2 DEF Types, Messages
  <2>2. hand[g] \in Messages <=> dispatcher[g] \in {"routing", "enqueuing"}
    BY <1>2 DEF Holding
  <2>3. CASE StopDispatch(g)
    BY <2>1, <2>2, <2>3 DEF StopDispatch, DispatcherAt
  <2>4. CASE GiveUpEnqueue(g)
    BY <2>1, <2>2, <2>4 DEF GiveUpEnqueue, DispatcherAt
  <2>5. CASE Route(g)
    BY <2>1, <2>2, <2>5 DEF Route, DispatcherAt
  <2> QED
    BY <2>3, <2>4, <2>5
<1>5. Taken' = Taken /\ BusIsTail'
  BY <1>1, <1>2 DEF Taken, BusIsTail
<1>6. Types'
  BY <1>1, <1>2, <1>4 DEF Types
<1>7. /\ hand'[g] = m /\ dispatcher'[g] = to
      /\ \A x \in Managers \ {g} : hand'[x] = hand[x] /\ dispatcher'[x] = dispatcher[x] /\ queue'[x] = queue[x]
  BY <1>1, <1>2, <1>4 DEF Types
<1>8. settled' \subseteq 1 .. published
  <2>1. ASSUME hand[g] \in Messages PROVE hand[g] \in 1 .. published
    <3>1. Target[hand[g]] \in Channels
      BY <2>1
    <3>2. hand[g] \in Held(g, Target[hand[g]])
      BY <2>1 DEF Held
    <3>3. hand[g] <= Taken
      BY <1>2, <3>1, <3>2 DEF Passed
    <3> QED
      BY <1>3, <2>1, <3>3 DEF Messages
  <2> QED
    BY <1>2, <1>4, <2>1 DEF Passed
<1>9. ASSUME NEW c \in Channels
      PROVE  /\ Queued(g, c)' = Queued(g, c) /\ InWork(g, c)' = InWork(g, c) /\ Sent(c)' = Sent(c)
             /\ Held(g, c)' \subseteq Held(g, c)
  <2>1. 0 \notin Messages
    BY DEF Messages
  <2> QED
    BY <1>1, <1>4, <1>7, <2>1 DEF Queued, InWork, Sent, Held
<1>10. ASSUME NEW c \in Channels
       PROVE  /\ Len(queue'[g][c]) <= QueueSize
              /\ \A k \in Queued(g, c)' \cup Held(g, c)' : k <= Taken'
              /\ Alive(g, c) => Lane(g, c)'
  <2>1. Len(queue'[g][c]) <= QueueSize
    BY <1>1, <1>2 DEF Holding
  <2>2. \A k \in Queued(g, c)' \cup Held(g, c)' : k <= Taken'
    BY <1>2, <1>5, <1>9 DEF Passed
  <2>3. ASSUME Alive(g, c) PROVE Lane(g, c)'
    <3>1. Lane(g, c)
      BY <1>2, <2>3 DEF Lanes
    <3>3. Increasing(queue'[g][c])
      BY <1>1, <3>1 DEF Lane
    <3> QED
      BY <1>9, <3>1, <3>3 DEF Lane, Ahead
  <2> QED
    BY <2>1, <2>2, <2>3
<1>11. Taken' \in Nat /\ Taken <= Taken'
  BY <1>3, <1>5
<1> QED
  BY <1>1, <1>3, <1>4, <1>5, <1>6, <1>7, <1>8, <1>10, <1>11, DispatchFrame

\* The message moves from the dispatcher's hand to the end of the queue; a send
\* into a closed queue ends the process.
LEMMA EnqueueKeeps == ASSUME OutboundInv, NEW g \in Managers, Enqueue(g) PROVE OutboundInv'
<1>2. Types /\ BusIsTail /\ Passed /\ Holding /\ Lanes
  BY DEF OutboundInv
<1>3. Taken \in Nat /\ Taken <= published /\ published \in Nat
  BY BusFacts
<1>1. /\ UNCHANGED <<published, bus, worker, sent, settled, closed, cancelled, gateway, manager,
                     started, reloads>>
      /\ dispatcher[g] = "enqueuing" /\ dispatcher' = [dispatcher EXCEPT ![g] = "idle"]
      /\ hand' = [hand EXCEPT ![g] = 0]
  BY DEF Enqueue, DispatcherAt, stops
<1>4. PICK m \in Messages : m = hand[g]
  BY <1>1, <1>2 DEF Holding
<1> DEFINE to == Target[m]
<1>5. to \in Channels
  OBVIOUS
<1>6. \/ queue' = queue
      \/ /\ Len(queue[g][to]) < QueueSize
         /\ queue' = [queue EXCEPT ![g] = [queue[g] EXCEPT ![to] = Append(queue[g][to], m)]]
  BY <1>4 DEF Enqueue
<1>7. /\ hand'[g] = 0 /\ dispatcher'[g] = "idle" /\ 0 \notin Messages
      /\ \A x \in Managers \ {g} : hand'[x] = hand[x] /\ dispatcher'[x] = dispatcher[x] /\ queue'[x] = queue[x]
  BY <1>1, <1>2, <1>6 DEF Types, Messages
<1>8. queue \in [Managers -> [Channels -> Seq(Messages)]] /\ queue[g] \in [Channels -> Seq(Messages)]
  BY <1>2 DEF Types
<1> HIDE DEF to
<1>9. /\ queue' \in [Managers -> [Channels -> Seq(Messages)]]
      /\ \A c \in Channels \ {to} : queue'[g][c] = queue[g][c]
      /\ \/ queue'[g][to] = queue[g][to]
         \/ queue'[g][to] = Append(queue[g][to], m) /\ Len(queue[g][to]) < QueueSize
  <2>1. Append(queue[g][to], m) \in Seq(Messages)
    BY <1>5, <1>8, AppendFacts
  <2> QED
    <3>1. CASE queue' = queue
      BY <1>8, <3>1
    <3>2. CASE Len(queue[g][to]) < QueueSize /\ queue' # queue
      <4>1. PICK q : q = [queue[g] EXCEPT ![to] = Append(queue[g][to], m)]
        OBVIOUS
      <4>2. /\ q \in [Channels -> Seq(Messages)] /\ q[to] = Append(queue[g][to], m)
            /\ \A c \in Channels \ {to} : q[c] = queue[g][c]
        BY <1>5, <1>8, <2>1, <4>1
      <4>3. queue' = [queue EXCEPT ![g] = q]
        BY <1>6, <3>2, <4>1
      <4>4. queue'[g] = q /\ queue' \in [Managers -> [Channels -> Seq(Messages)]]
        BY <1>8, <4>2, <4>3
      <4> QED
        BY <3>2, <4>2, <4>4
    <3> QED
      BY <1>6, <3>1, <3>2
<1>10. Types'
  <2>1. /\ dispatcher' \in [Managers -> {"none", "idle", "routing", "enqueuing", "done"}]
        /\ hand' \in [Managers -> 0 .. MaxMessages]
    BY <1>1, <1>2 DEF Types
  <2> QED
    BY <1>1, <1>2, <1>9, <2>1 DEF Types
<1>11. Taken' = Taken /\ BusIsTail' /\ Taken' \in Nat /\ Taken <= Taken'
  BY <1>1, <1>2, <1>3 DEF Taken, BusIsTail
<1>12. ASSUME NEW c \in Channels
       PROVE  /\ Held(g, c)' = {} /\ InWork(g, c)' = InWork(g, c) /\ Sent(c)' = Sent(c)
              /\ (Held(g, c) = IF c = to THEN {m} ELSE {})
  BY <1>1, <1>4, <1>7 DEF Held, InWork, Sent, to
<1>13. ASSUME NEW c \in Channels
       PROVE  /\ Queued(g, c)' \subseteq Queued(g, c) \cup Held(g, c)
              /\ Len(queue'[g][c]) <= QueueSize
              /\ Increasing(queue[g][c]) /\ Ahead(Queued(g, c), Held(g, c)) => Increasing(queue'[g][c])
  <2>1. Len(queue[g][c]) <= QueueSize
    BY <1>2 DEF Holding
  <2>2. CASE queue'[g][c] = queue[g][c]
    BY <2>1, <2>2 DEF Queued
  <2>3. CASE c = to /\ queue'[g][to] = Append(queue[g][to], m) /\ Len(queue[g][to]) < QueueSize
    <3> DEFINE s == queue[g][to]
               n == Len(s) + 1
    <3>1. s \in Seq(Messages)
      BY <1>5, <1>8
    <3>2. PICK t : t = queue'[g][to]
      OBVIOUS
    <3>3. /\ Len(t) = n /\ Len(s) \in Nat /\ t[n] = m
          /\ \A i \in 1 .. Len(s) : t[i] = s[i] /\ s[i] \in Messages
      BY <2>3, <3>1, <3>2, AppendFacts, SeqFacts
    <3>4. \A i \in 1 .. Len(t) : i \in 1 .. Len(s) \/ i = n
      BY <3>3
    <3>5. Queued(g, c)' = {k \in Messages : \E i \in 1 .. Len(t) : t[i] = k}
      BY <2>3, <3>2 DEF Queued
    <3>6. Queued(g, c) = {k \in Messages : \E i \in 1 .. Len(s) : s[i] = k}
      BY <2>3 DEF Queued
    <3>7. Held(g, c) = {m}
      BY <1>12, <2>3
    <3> HIDE DEF s
    <3>8. Queued(g, c)' \subseteq Queued(g, c) \cup Held(g, c)
      BY <3>3, <3>4, <3>5, <3>6, <3>7
    <3>9. ASSUME Increasing(s), Ahead(Queued(g, c), Held(g, c)) PROVE Increasing(t)
      <4>1. \A i \in 1 .. Len(s) : s[i] < m
        BY <3>3, <3>6, <3>7, <3>9 DEF Ahead
      <4> SUFFICES ASSUME NEW i \in 1 .. Len(t), NEW j \in 1 .. Len(t), i < j PROVE t[i] < t[j]
        BY DEF Increasing
      <4>2. i \in 1 .. Len(s)
        BY <3>3, <3>4
      <4> QED
        BY <3>3, <3>4, <3>9, <4>1, <4>2 DEF Increasing
    <3>10. Len(t) <= QueueSize
      BY <2>3, <3>3 DEF s
    <3> QED
      BY <2>3, <3>2, <3>8, <3>9, <3>10 DEF s
  <2> QED
    BY <1>9, <2>2, <2>3
<1>14. ASSUME NEW c \in Channels
       PROVE  /\ Len(queue'[g][c]) <= QueueSize
              /\ \A k \in Queued(g, c)' \cup Held(g, c)' : k <= Taken'
              /\ Alive(g, c) => Lane(g, c)'
  <2>1. Len(queue'[g][c]) <= QueueSize
    BY <1>13
  <2>2. \A k \in Queued(g, c)' \cup Held(g, c)' : k <= Taken'
    BY <1>2, <1>11, <1>12, <1>13 DEF Passed
  <2>3. ASSUME Alive(g, c) PROVE Lane(g, c)'
    <3>1. Lane(g, c)
      BY <1>2, <2>3 DEF Lanes
    <3>2. Increasing(queue'[g][c])
      BY <1>13, <3>1 DEF Lane
    <3>3. \A k \in Held(g, c) : Target[k] = c
      BY DEF Held
    <3> QED
      BY <1>12, <1>13, <3>1, <3>2, <3>3 DEF Lane, Ahead
  <2> QED
    BY <2>1, <2>2, <2>3
<1>15. settled' \subseteq 1 .. published /\ dispatcher[g] # "none"
  BY <1>1, <1>2 DEF Passed
<1> QED
  BY <1>1, <1>3, <1>7, <1>10, <1>11, <1>14, <1>15, DispatchFrame

-----------------------------------------------------------------------------
\* A step of a live worker changes its own position, its own queue, and what
\* was sent to its own channel.
LEMMA WorkerFrame ==
  ASSUME OutboundInv, NEW g \in Managers, NEW c \in Channels, Alive(g, c), NEW new \in Work_,
         UNCHANGED <<published, bus, dispatcher, hand, closed, cancelled, gateway, manager, started, reloads>>,
         worker' = [worker EXCEPT ![g] = [worker[g] EXCEPT ![c] = new]],
         queue' \in [Managers -> [Channels -> Seq(Messages)]],
         \A x \in Managers, d \in Channels : (x # g \/ d # c) => queue'[x][d] = queue[x][d],
         Len(queue'[g][c]) <= QueueSize,
         new.at \in Sending => new.msg \in Messages,
         new.at = "backoff" => new.try < MaxRetries,
         sent' \in Seq(Messages), Ordered', settled' \in SUBSET (1 .. published),
         \A d \in Channels \ {c} : Sent(d)' = Sent(d),
         \A m \in Sent(c)' \cup InWork(g, c)' \cup Queued(g, c)' : m <= Taken,
         new.at \notin {"none", "done"} => Lane(g, c)'
  PROVE  OutboundInv'
<1>1. Types /\ BusIsTail /\ Passed /\ Holding /\ Lanes /\ LiveIsCurrent
  BY DEF OutboundInv
<1>2. worker \in [Managers -> [Channels -> Work_]] /\ worker[g] \in [Channels -> Work_]
  BY <1>1 DEF Types
<1>3. /\ worker' \in [Managers -> [Channels -> Work_]] /\ worker'[g][c] = new
      /\ \A x \in Managers, d \in Channels : (x # g \/ d # c) => worker'[x][d] = worker[x][d]
  BY <1>2
<1>4. Types'
  <2>1. settled' \in SUBSET Messages
    BY <1>1 DEF Types, Messages
  <2> QED
    BY <1>1, <1>3, <2>1 DEF Types
<1>5. Holding'
  <2>1. ASSUME NEW x \in Managers, NEW d \in Channels
        PROVE  /\ Len(queue'[x][d]) <= QueueSize
               /\ worker'[x][d].at \in Sending => worker'[x][d].msg \in Messages
               /\ worker'[x][d].at = "backoff" => worker'[x][d].try < MaxRetries
    <3>1. CASE x = g /\ d = c
      BY <1>3, <3>1
    <3>2. CASE x # g \/ d # c
      <4>1. worker'[x][d] = worker[x][d] /\ queue'[x][d] = queue[x][d]
        BY <1>3, <3>2
      <4>2. /\ Len(queue[x][d]) <= QueueSize
            /\ worker[x][d].at \in Sending => worker[x][d].msg \in Messages
            /\ worker[x][d].at = "backoff" => worker[x][d].try < MaxRetries
        BY <1>1 DEF Holding
      <4> QED
        BY <4>1, <4>2
    <3> QED
      BY <3>1, <3>2
  <2> QED
    BY <1>1, <2>1 DEF Holding
<1>6. Gates' /\ BusIsTail' /\ Taken' = Taken
  BY DEF OutboundInv, Gates, BusIsTail, Taken
<1>7. \A x \in Managers, d \in Channels : (x # g \/ d # c) =>
        /\ Queued(x, d)' = Queued(x, d) /\ InWork(x, d)' = InWork(x, d)
        /\ (Alive(x, d)' <=> Alive(x, d))
  <2> SUFFICES ASSUME NEW x \in Managers, NEW d \in Channels, x # g \/ d # c
               PROVE  /\ Queued(x, d)' = Queued(x, d) /\ InWork(x, d)' = InWork(x, d)
                      /\ (Alive(x, d)' <=> Alive(x, d))
    OBVIOUS
  <2>1. worker'[x][d] = worker[x][d] /\ queue'[x][d] = queue[x][d]
    BY <1>3
  <2> QED
    BY <2>1 DEF Queued, InWork, Alive
<1>8. \A x \in Managers, d \in Channels : Held(x, d)' = Held(x, d)
  BY DEF Held
<1>9. Passed'
  <2>1. \A d \in Channels : \A m \in Sent(d)' : m <= Taken
    BY <1>1 DEF Passed
  <2>2. ASSUME NEW x \in Managers, NEW d \in Channels
        PROVE  \A m \in Queued(x, d)' \cup Held(x, d)' \cup InWork(x, d)' : m <= Taken
    <3>1. CASE x = g /\ d = c
      BY <1>1, <1>8, <3>1 DEF Passed
    <3>2. CASE x # g \/ d # c
      BY <1>1, <1>7, <1>8, <3>2 DEF Passed
    <3> QED
      BY <3>1, <3>2
  <2> QED
    BY <1>6, <2>1, <2>2 DEF Passed
<1>10. Fresh'
  <2>1. ~(g > started)
    BY DEF OutboundInv, Fresh
  <2> SUFFICES ASSUME NEW x \in Managers, x > started
               PROVE  /\ hand[x] = 0 /\ dispatcher[x] = "none"
                      /\ \A d \in Channels : queue'[x][d] = <<>> /\ ~Alive(x, d)'
    BY DEF Fresh
  <2>2. x # g
    BY <2>1
  <2>3. /\ hand[x] = 0 /\ dispatcher[x] = "none"
        /\ \A d \in Channels : queue[x][d] = <<>> /\ ~Alive(x, d)
    BY DEF OutboundInv, Fresh
  <2> QED
    BY <1>7, <2>2, <2>3
<1>11. LiveIsCurrent'
  BY <1>1, <1>7 DEF LiveIsCurrent
<1>12. Lanes'
  <2> SUFFICES ASSUME NEW x \in Managers, NEW d \in Channels, Alive(x, d)' PROVE Lane(x, d)'
    BY DEF Lanes
  <2>1. CASE x = g /\ d = c
    BY <1>3, <2>1 DEF Alive
  <2>2. CASE x # g \/ d # c
    <3>1. Alive(x, d)
      BY <1>7, <2>2
    <3>2. x = g
      BY <1>1, <3>1 DEF LiveIsCurrent
    <3>3. d # c /\ Lane(x, d)
      BY <1>1, <2>2, <3>1, <3>2 DEF Lanes
    <3> QED
      BY <1>7, <1>8, <2>2, <3>3 DEF Lane
  <2> QED
    BY <2>1, <2>2
<1> QED
  BY <1>4, <1>5, <1>6, <1>9, <1>10, <1>11, <1>12 DEF OutboundInv

\* A worker that waits, is idle or done has no message in work; one that is
\* absent or done never moves.
LEMMA WorkerFacts ==
  ASSUME OutboundInv, NEW g \in Managers, NEW c \in Channels
  PROVE  /\ worker[g][c] \in Work_
         /\ Idle \in Work_ /\ Done \in Work_ /\ Idle.at = "idle" /\ Done.at = "done"
         /\ Idle.msg = 0 /\ Done.msg = 0
         /\ queue[g] \in [Channels -> Seq(Messages)] /\ queue[g][c] \in Seq(Messages)
BY DEF OutboundInv, Types, Idle, Done, Work_, Positions

\* The next message of the queue is the oldest one on the lane.
LEMMA ReceiveKeeps == ASSUME OutboundInv, NEW g \in Managers, NEW c \in Channels, Receive(g, c) PROVE OutboundInv'
<1>0. PICK m : m = Head(queue[g][c])
  OBVIOUS
<1> DEFINE new == [at |-> "limiter", msg |-> m, try |-> 0]
<1>1. /\ worker[g][c] = Idle /\ queue[g][c] # <<>>
      /\ worker' = [worker EXCEPT ![g] = [worker[g] EXCEPT ![c] = new]]
      /\ queue' = [queue EXCEPT ![g] = [queue[g] EXCEPT ![c] = Tail(queue[g][c])]]
      /\ UNCHANGED <<published, bus, dispatcher, hand, sent, settled, closed, cancelled, gateway,
                     manager, started, reloads>>
  BY <1>0 DEF Receive, SetWorker, stops
<1>2. Types /\ Passed /\ Holding /\ Lanes /\ Ordered
  BY DEF OutboundInv
<1>3. Alive(g, c) /\ queue[g] \in [Channels -> Seq(Messages)] /\ queue[g][c] \in Seq(Messages)
  BY <1>1, WorkerFacts DEF Alive
<1>4. PICK q : q = queue[g][c]
  OBVIOUS
<1>5. PICK t : t = Tail(q)
  OBVIOUS
<1>6. /\ m \in Messages /\ m = q[1] /\ 1 \in 1 .. Len(q) /\ Len(q) \in Nat
      /\ t \in Seq(Messages) /\ Len(t) = Len(q) - 1
      /\ \A i \in 1 .. Len(t) : t[i] = q[i + 1] /\ i + 1 \in 1 .. Len(q)
  BY <1>0, <1>1, <1>3, <1>4, <1>5, TailFacts
<1>7. new \in Work_ /\ new.at = "limiter" /\ new.msg = m
  BY <1>6 DEF Work_, Positions, Messages
<1> HIDE DEF new
<1>8. /\ queue' \in [Managers -> [Channels -> Seq(Messages)]] /\ queue'[g][c] = t
      /\ \A x \in Managers, d \in Channels : (x # g \/ d # c) => queue'[x][d] = queue[x][d]
  <2>1. PICK row : row = [queue[g] EXCEPT ![c] = t]
    OBVIOUS
  <2>2. /\ row \in [Channels -> Seq(Messages)] /\ row[c] = t
        /\ \A d \in Channels \ {c} : row[d] = queue[g][d]
    BY <1>3, <1>6, <2>1
  <2>3. queue' = [queue EXCEPT ![g] = row] /\ queue \in [Managers -> [Channels -> Seq(Messages)]]
    BY <1>1, <1>2, <1>4, <1>5, <2>1 DEF Types
  <2> QED
    BY <2>2, <2>3
<1>9. Len(queue'[g][c]) <= QueueSize
  BY <1>2, <1>4, <1>6, <1>8 DEF Holding
<1>10. worker'[g][c] = new
  BY <1>1, <1>2 DEF Types
<1>11. Queued(g, c) = {k \in Messages : \E i \in 1 .. Len(q) : q[i] = k}
  BY <1>4 DEF Queued
<1>12. Queued(g, c)' = {k \in Messages : \E i \in 1 .. Len(t) : t[i] = k}
  BY <1>8 DEF Queued
<1>13. Queued(g, c)' \subseteq Queued(g, c) /\ m \in Queued(g, c)
  BY <1>6, <1>11, <1>12
<1>14. InWork(g, c)' = {m}
  BY <1>6, <1>7, <1>10 DEF InWork, Sending
<1>15. /\ \A d \in Channels : Sent(d)' = Sent(d)
       /\ Held(g, c)' = Held(g, c)
  BY <1>1 DEF Sent, Held
<1>16. \A k \in Sent(c)' \cup InWork(g, c)' \cup Queued(g, c)' : k <= Taken
  BY <1>2, <1>13, <1>14, <1>15 DEF Passed
<1>17. Lane(g, c)'
  <2>1. Lane(g, c)
    BY <1>2, <1>3 DEF Lanes
  <2>2. Increasing(q)
    BY <1>4, <2>1 DEF Lane
  <2>3. Increasing(t)
    <3> SUFFICES ASSUME NEW i \in 1 .. Len(t), NEW j \in 1 .. Len(t), i < j PROVE t[i] < t[j]
      BY DEF Increasing
    <3>1. i + 1 < j + 1
      BY <1>6
    <3> QED
      BY <1>6, <2>2, <3>1 DEF Increasing
  <2>4. \A k \in Queued(g, c)' : m < k
    <3> SUFFICES ASSUME NEW i \in 1 .. Len(t) PROVE m < t[i]
      BY <1>12
    <3>1. 1 < i + 1
      BY <1>6
    <3> QED
      BY <1>6, <2>2, <3>1 DEF Increasing
  <2> QED
    BY <1>8, <1>13, <1>14, <1>15, <2>1, <2>3, <2>4 DEF Lane, Ahead
<1>18. Ordered' /\ settled' \in SUBSET (1 .. published) /\ sent' \in Seq(Messages)
  BY <1>1, <1>2 DEF Ordered, Passed, Types
<1>19. /\ worker' = [worker EXCEPT ![g] = [worker[g] EXCEPT ![c] = new]]
       /\ UNCHANGED <<published, bus, dispatcher, hand, closed, cancelled, gateway, manager, started,
                      reloads>>
  BY <1>1
<1>20. (new.at \in Sending => new.msg \in Messages) /\ (new.at = "backoff" => new.try < MaxRetries)
  BY <1>6, <1>7
<1>21. \A d \in Channels \ {c} : Sent(d)' = Sent(d)
  BY <1>15
<1> QED
  BY <1>3, <1>7, <1>8, <1>9, <1>16, <1>17, <1>18, <1>19, <1>20, <1>21, WorkerFrame

\* The message in work goes to the next attempt, or is settled; the worker ends.
LEMMA WorkKeeps ==
  ASSUME OutboundInv, NEW g \in Managers, NEW c \in Channels,
         EndWorker(g, c) \/ PassLimiter(g, c) \/ Send(g, c) \/ Backoff(g, c)
  PROVE  OutboundInv'
<1>1. Types /\ Passed /\ Holding /\ Lanes /\ Ordered
  BY DEF OutboundInv
<1>2. /\ UNCHANGED <<published, bus, dispatcher, hand, queue, closed, cancelled, gateway, manager,
                     started, reloads>>
      /\ Alive(g, c)
  BY WorkerFacts DEF EndWorker, PassLimiter, Send, Backoff, lane, stops, Alive
<1>3. PICK old : old = worker[g][c]
  OBVIOUS
<1>4. old \in Work_ /\ queue[g][c] \in Seq(Messages)
  BY <1>3, WorkerFacts
<1>5. PICK new \in Work_ :
        /\ worker' = [worker EXCEPT ![g] = [worker[g] EXCEPT ![c] = new]]
        /\ \/ new.at = "done" /\ UNCHANGED <<sent, settled>>
           \/ /\ old.at \in Sending /\ new.at \in Sending /\ new.msg = old.msg
              /\ new.at = "backoff" => new.try < MaxRetries
              /\ UNCHANGED <<sent, settled>>
           \/ /\ old.at \in Sending /\ new.at = "idle" /\ settled' = settled \cup {old.msg}
              /\ sent' = sent \/ sent' = Append(sent, old.msg)
  <2>1. Idle \in Work_ /\ Done \in Work_ /\ Idle.at = "idle" /\ Done.at = "done"
    BY WorkerFacts
  <2>2. ASSUME NEW took \in BOOLEAN, Settle(g, c, took), old.at \in Sending
        PROVE  /\ worker' = [worker EXCEPT ![g] = [worker[g] EXCEPT ![c] = Idle]]
               /\ settled' = settled \cup {old.msg}
               /\ sent' = sent \/ sent' = Append(sent, old.msg)
    BY <1>3, <2>2 DEF Settle, SetWorker
  <2>3. CASE EndWorker(g, c)
    BY <2>1, <2>3 DEF EndWorker, SetWorker
  <2>4. CASE PassLimiter(g, c)
    <3>1. old.at = "limiter" /\ old.at \in Sending
      BY <1>3, <2>4 DEF PassLimiter, Sending
    <3>2. CASE Settle(g, c, FALSE)
      BY <2>1, <2>2, <3>1, <3>2
    <3>3. CASE SetWorker(g, c, [old EXCEPT !.at = "sending"]) /\ UNCHANGED <<settled, sent>>
      <4> DEFINE new == [old EXCEPT !.at = "sending"]
      <4>1. new \in Work_ /\ new.at = "sending" /\ new.msg = old.msg
        BY <1>4 DEF Work_, Positions
      <4>2. worker' = [worker EXCEPT ![g] = [worker[g] EXCEPT ![c] = new]]
        BY <3>3 DEF SetWorker
      <4> HIDE DEF new
      <4> QED
        BY <3>1, <3>3, <4>1, <4>2 DEF Sending
    <3> QED
      BY <1>3, <2>4, <3>2, <3>3 DEF PassLimiter
  <2>5. CASE Send(g, c)
    <3>1. old.at = "sending" /\ old.at \in Sending
      BY <1>3, <2>5 DEF Send, Sending
    <3>2. CASE Settle(g, c, FALSE) \/ Settle(g, c, TRUE)
      BY <2>1, <2>2, <3>1, <3>2
    <3>3. CASE /\ SetWorker(g, c, [old EXCEPT !.at = "backoff"]) /\ UNCHANGED <<settled, sent>>
               /\ old.try < MaxRetries
      <4> DEFINE new == [old EXCEPT !.at = "backoff"]
      <4>1. new \in Work_ /\ new.at = "backoff" /\ new.msg = old.msg /\ new.try = old.try
        BY <1>4 DEF Work_, Positions
      <4>2. worker' = [worker EXCEPT ![g] = [worker[g] EXCEPT ![c] = new]]
        BY <3>3 DEF SetWorker
      <4> HIDE DEF new
      <4> QED
        BY <3>1, <3>3, <4>1, <4>2 DEF Sending
    <3> QED
      BY <1>3, <2>5, <3>2, <3>3 DEF Send
  <2>6. CASE Backoff(g, c)
    <3>1. old.at = "backoff" /\ old.at \in Sending
      BY <1>3, <2>6 DEF Backoff, Sending
    <3>2. CASE Settle(g, c, FALSE)
      BY <2>1, <2>2, <3>1, <3>2
    <3>3. CASE SetWorker(g, c, [old EXCEPT !.at = "sending", !.try = old.try + 1]) /\ UNCHANGED <<settled, sent>>
      <4> DEFINE new == [old EXCEPT !.at = "sending", !.try = old.try + 1]
      <4>0. old.try < MaxRetries /\ old.try \in Nat /\ old.try + 1 \in 0 .. MaxRetries
        <5>1. old.try < MaxRetries
          BY <1>1, <1>3, <3>1 DEF Holding
        <5> QED
          BY <1>4, <5>1 DEF Work_
      <4>1. new \in Work_ /\ new.at = "sending" /\ new.msg = old.msg
        BY <1>4, <4>0 DEF Work_, Positions
      <4>2. worker' = [worker EXCEPT ![g] = [worker[g] EXCEPT ![c] = new]]
        BY <3>3 DEF SetWorker
      <4> HIDE DEF new
      <4> QED
        BY <3>1, <3>3, <4>1, <4>2 DEF Sending
    <3> QED
      BY <1>3, <2>6, <3>2, <3>3 DEF Backoff
  <2> QED
    BY <2>3, <2>4, <2>5, <2>6
<1>6. Queued(g, c)' = Queued(g, c) /\ Held(g, c)' = Held(g, c) /\ queue'[g][c] = queue[g][c]
  BY <1>2 DEF Queued, Held
<1>7. Lane(g, c)
  BY <1>1, <1>2 DEF Lanes
<1>8. worker'[g][c] = new
  BY <1>1, <1>5 DEF Types
<1>9. /\ queue' \in [Managers -> [Channels -> Seq(Messages)]]
      /\ \A x \in Managers, d \in Channels : (x # g \/ d # c) => queue'[x][d] = queue[x][d]
      /\ Len(queue'[g][c]) <= QueueSize
  BY <1>1, <1>2 DEF Types, Holding
<1>10. old.at \in Sending => old.msg \in Messages /\ InWork(g, c) = {old.msg} /\ Target[old.msg] = c
  <2> SUFFICES ASSUME old.at \in Sending
               PROVE  old.msg \in Messages /\ InWork(g, c) = {old.msg} /\ Target[old.msg] = c
    OBVIOUS
  <2>1. old.msg \in Messages
    BY <1>1, <1>3 DEF Holding
  <2>2. InWork(g, c) = {old.msg}
    BY <1>3, <2>1 DEF InWork
  <2> QED
    BY <1>7, <2>1, <2>2 DEF Lane
<1>11. CASE UNCHANGED <<sent, settled>> /\ (new.at = "done" \/ (new.at \in Sending /\ old.at \in Sending /\ new.msg = old.msg))
  <2>1. \A d \in Channels : Sent(d)' = Sent(d)
    BY <1>11 DEF Sent
  <2>2. new.at \in Sending => InWork(g, c)' = InWork(g, c) /\ new.msg \in Messages
    BY <1>8, <1>10, <1>11 DEF InWork, Sending
  <2>3. new.at = "done" => InWork(g, c)' = {}
    BY <1>8 DEF InWork, Sending
  <2>4. \A m \in Sent(c)' \cup InWork(g, c)' \cup Queued(g, c)' : m <= Taken
    BY <1>1, <1>6, <1>11, <2>1, <2>2, <2>3 DEF Passed
  <2>5. new.at \notin {"none", "done"} => Lane(g, c)'
    BY <1>6, <1>7, <1>11, <2>1, <2>2 DEF Lane
  <2>6. Ordered' /\ settled' \in SUBSET (1 .. published) /\ sent' \in Seq(Messages)
    BY <1>1, <1>11 DEF Ordered, Passed, Types
  <2>7. new.at = "backoff" => new.try < MaxRetries
    BY <1>5, <1>11
  <2>8. new.at \in Sending => new.msg \in Messages
    BY <2>2
  <2> QED
    BY <1>2, <1>5, <1>9, <2>1, <2>4, <2>5, <2>6, <2>7, <2>8, WorkerFrame
<1>12. CASE /\ old.at \in Sending /\ new.at = "idle" /\ settled' = settled \cup {old.msg}
            /\ sent' = sent \/ sent' = Append(sent, old.msg)
  <2>1. PICK m \in Messages : m = old.msg /\ InWork(g, c) = {m} /\ Target[m] = c
    BY <1>10, <1>12
  <2>2. sent \in Seq(Messages) /\ Len(sent) \in Nat /\ \A i \in 1 .. Len(sent) : sent[i] \in Messages
    BY <1>1, SeqFacts DEF Types
  <2>3. /\ sent' \in Seq(Messages)
        /\ \A i \in 1 .. Len(sent') : \/ i \in 1 .. Len(sent) /\ sent'[i] = sent[i]
                                      \/ i = Len(sent) + 1 /\ sent'[i] = m
        /\ \A i \in 1 .. Len(sent) : i \in 1 .. Len(sent') /\ sent'[i] = sent[i]
    <3>1. CASE sent' = sent
      BY <2>2, <3>1
    <3>2. CASE sent' = Append(sent, m)
      BY <2>2, <3>2, AppendFacts
    <3> QED
      BY <1>12, <2>1, <3>1, <3>2
  <2>4. /\ \A d \in Channels \ {c} : Sent(d)' = Sent(d)
        /\ Sent(c)' \subseteq Sent(c) \cup InWork(g, c)
    BY <2>1, <2>2, <2>3 DEF Sent
  <2>5. InWork(g, c)' = {} /\ new.at \notin Sending
    BY <1>8, <1>12 DEF InWork, Sending
  <2>6. \A k \in Sent(c)' \cup InWork(g, c)' \cup Queued(g, c)' : k <= Taken
    BY <1>1, <1>6, <2>4, <2>5 DEF Passed
  <2>7. Lane(g, c)'
    BY <1>6, <1>7, <2>4, <2>5 DEF Lane, Ahead
  <2>8. Ordered'
    <3> SUFFICES ASSUME NEW i \in 1 .. Len(sent'), NEW j \in 1 .. Len(sent'), i < j,
                        Target[sent'[i]] = Target[sent'[j]]
                 PROVE  sent'[i] < sent'[j]
      BY DEF Ordered
    <3>1. i \in 1 .. Len(sent) /\ sent'[i] = sent[i]
      BY <2>2, <2>3
    <3>2. CASE j \in 1 .. Len(sent) /\ sent'[j] = sent[j]
      BY <1>1, <3>1, <3>2 DEF Ordered
    <3>3. CASE sent'[j] = m
      <4>1. sent[i] \in Sent(c)
        BY <2>1, <2>2, <3>1, <3>3 DEF Sent
      <4> QED
        BY <1>7, <2>1, <3>1, <3>3, <4>1 DEF Lane, Ahead
    <3> QED
      BY <2>3, <3>2, <3>3
  <2>9. settled' \in SUBSET (1 .. published)
    <3>1. m <= Taken /\ Taken <= published /\ Taken \in Nat /\ published \in Nat
      BY <1>1, <2>1, BusFacts DEF Passed
    <3>2. m \in 1 .. published
      BY <3>1 DEF Messages
    <3> QED
      BY <1>1, <1>12, <2>1, <3>2 DEF Passed
  <2>10. new.at = "backoff" => new.try < MaxRetries
    BY <1>12
  <2> QED
    BY <1>2, <1>5, <1>9, <2>3, <2>4, <2>5, <2>6, <2>7, <2>8, <2>9, <2>10, WorkerFrame
<1> QED
  BY <1>5, <1>11, <1>12

-----------------------------------------------------------------------------
\* Stopping: the goroutine that reloads leaves messages and workers alone.
LEMMA StopKeeps ==
  ASSUME OutboundInv, BeginReload \/ CloseQueues \/ WaitForWorkers \/ RestartReturns \/ RestartFails
  PROVE  OutboundInv'
<1>1. Types /\ Holding /\ Gates /\ LiveIsCurrent /\ Lanes
  BY DEF OutboundInv
<1>2. /\ UNCHANGED <<published, bus, dispatcher, hand, queue, worker, sent, settled, started>>
      /\ reloads' \in 0 .. MaxReloads
  BY <1>1 DEF BeginReload, CloseQueues, WaitForWorkers, RestartReturns, RestartFails, lane, Types
<1>3. /\ started \in Nat /\ started >= 1 /\ reloads \in Nat /\ started \in Managers
      /\ manager \in 0 .. started /\ (manager # 0 => manager \in Managers /\ manager \in 1 .. started)
  BY <1>1 DEF Types, Managers
<1>4. /\ manager' \in 0 .. started /\ closed' \in SUBSET Managers /\ cancelled' \in SUBSET Managers
      /\ Gates'
  <2>1. CASE BeginReload
    BY <1>1, <1>3, <2>1 DEF BeginReload, GatewayAt, Types, Gates
  <2>2. CASE CloseQueues
    BY <1>1, <1>3, <2>2 DEF CloseQueues, GatewayAt, Types, Gates
  <2>3. CASE WaitForWorkers
    BY <1>1, <1>3, <2>3 DEF WaitForWorkers, GatewayAt, Types, Gates
  <2>4. CASE RestartReturns
    BY <1>1, <1>3, <2>4 DEF RestartReturns, GatewayAt, Types, Gates
  <2>5. CASE RestartFails
    BY <1>1, <1>3, <2>5 DEF RestartFails, GatewayAt, Types, Gates
  <2> QED
    BY <2>1, <2>2, <2>3, <2>4, <2>5
<1>5. Types'
  BY <1>1, <1>2, <1>4 DEF Types
<1>6. \A g \in Managers, c \in Channels : Alive(g, c)' <=> Alive(g, c)
  BY <1>2 DEF Alive
<1>7. LiveIsCurrent'
  <2>1. CASE BeginReload
    <3>1. \A g \in Managers : g # 0
      BY DEF Managers
    <3> QED
      BY <1>1, <1>6, <2>1, <3>1 DEF BeginReload, GatewayAt, LiveIsCurrent
  <2>2. CASE CloseQueues
    BY <1>1, <1>6, <2>2 DEF CloseQueues, GatewayAt, LiveIsCurrent
  <2>3. CASE WaitForWorkers
    <3>1. \A c \in Channels : ~Alive(manager, c)
      BY <2>3 DEF WaitForWorkers, Alive, Absent, Done
    <3> QED
      BY <1>1, <1>6, <3>1 DEF LiveIsCurrent
  <2>4. CASE RestartReturns
    BY <1>1, <1>6, <2>4 DEF RestartReturns, GatewayAt, LiveIsCurrent
  <2>5. CASE RestartFails
    BY <1>1, <1>6, <2>5 DEF RestartFails, GatewayAt, LiveIsCurrent
  <2> QED
    BY <2>1, <2>2, <2>3, <2>4, <2>5
<1>8. /\ \A c \in Channels : Sent(c)' = Sent(c)
      /\ \A g \in Managers, c \in Channels :
           Queued(g, c)' = Queued(g, c) /\ Held(g, c)' = Held(g, c) /\ InWork(g, c)' = InWork(g, c)
      /\ Taken' = Taken
  BY <1>2 DEF Sent, Queued, Held, InWork, Taken
<1>9. Holding' /\ BusIsTail' /\ Ordered'
  BY <1>2, <1>8 DEF OutboundInv, Holding, BusIsTail, Ordered
<1>10. Passed'
  BY <1>2, <1>8 DEF OutboundInv, Passed
<1>11. Fresh'
  BY <1>2, <1>6 DEF OutboundInv, Fresh
<1>12. Lanes'
  BY <1>1, <1>2, <1>6, <1>8 DEF Lanes, Lane
<1> QED
  BY <1>4, <1>5, <1>7, <1>9, <1>10, <1>11, <1>12 DEF OutboundInv

\* The next manager is a new one and starts with empty queues; by then no
\* worker of another one lives.
LEMMA StartKeeps == ASSUME OutboundInv, StartAll PROVE OutboundInv'
<1>1. Types /\ Holding /\ Gates /\ LiveIsCurrent /\ Fresh /\ Passed
  BY DEF OutboundInv
<1>2. PICK h : h = started + 1
  OBVIOUS
<1>3. /\ gateway = "down" /\ gateway' = "starting" /\ started' = h /\ manager' = h
      /\ UNCHANGED <<published, bus, hand, queue, sent, settled, closed, cancelled, reloads>>
  BY <1>2 DEF StartAll, GatewayAt
<1>4. PICK row : /\ worker' = [worker EXCEPT ![h] = row]
                 /\ dispatcher' = [dispatcher EXCEPT ![h] = "idle"]
                 /\ row \in [Channels -> Work_]
                 /\ \A c \in Channels : row[c] \in {Idle, Absent}
  <2>1. PICK running \in SUBSET Channels : Started(h, running)
    BY <1>3 DEF StartAll
  <2>2. PICK row : row = [c \in Channels |-> IF c \in running THEN Idle ELSE Absent]
    OBVIOUS
  <2>3. worker' = [worker EXCEPT ![h] = row] /\ dispatcher' = [dispatcher EXCEPT ![h] = "idle"]
    BY <2>1, <2>2 DEF Started
  <2>4. Idle \in Work_ /\ Absent \in Work_
    BY DEF Idle, Absent, Work_, Positions
  <2>5. row \in [Channels -> Work_] /\ \A c \in Channels : row[c] \in {Idle, Absent}
    BY <2>2, <2>4
  <2> QED
    BY <2>3, <2>5
<1>5. /\ started \in Nat /\ started <= reloads /\ reloads \in 0 .. MaxReloads
      /\ h \in Managers /\ h > started /\ h <= reloads + 1 /\ h # 0 /\ h \in Nat
      /\ \A g \in Managers : g > h => g > started /\ g # h
  BY <1>1, <1>2, <1>3 DEF Types, Gates, Managers
<1>6. /\ \A c \in Channels : queue[h][c] = <<>>
      /\ hand[h] = 0
  BY <1>1, <1>5 DEF Fresh
<1>7. /\ worker'[h] = row /\ dispatcher'[h] = "idle"
      /\ \A g \in Managers \ {h} : worker'[g] = worker[g] /\ dispatcher'[g] = dispatcher[g]
      /\ worker' \in [Managers -> [Channels -> Work_]]
      /\ dispatcher' \in [Managers -> {"none", "idle", "routing", "enqueuing", "done"}]
  BY <1>1, <1>4, <1>5 DEF Types
<1>8. Types'
  BY <1>1, <1>3, <1>5, <1>7 DEF Types
<1>9. \A c \in Channels : worker'[h][c].at \in {"idle", "none"}
  BY <1>4, <1>7 DEF Idle, Absent
<1>10. /\ \A g \in Managers \ {h}, c \in Channels : ~Alive(g, c)' /\ InWork(g, c)' = InWork(g, c)
       /\ \A c \in Channels : InWork(h, c)' = {}
  <2>1. \A g \in Managers \ {h}, c \in Channels : ~Alive(g, c)' /\ InWork(g, c)' = InWork(g, c)
    BY <1>1, <1>3, <1>7 DEF LiveIsCurrent, Alive, InWork
  <2>2. \A c \in Channels : InWork(h, c)' = {}
    BY <1>9 DEF InWork, Sending
  <2> QED
    BY <2>1, <2>2
<1>11. /\ \A c \in Channels : Sent(c)' = Sent(c)
       /\ \A g \in Managers, c \in Channels : Queued(g, c)' = Queued(g, c) /\ Held(g, c)' = Held(g, c)
       /\ Taken' = Taken
  BY <1>3 DEF Sent, Queued, Held, Taken
<1>12. \A c \in Channels : Queued(h, c) = {} /\ Held(h, c) = {}
  BY <1>6, SeqFacts DEF Queued, Held, Messages
<1>13. Holding'
  <2>1. \A g \in Managers : hand'[g] \in Messages <=> dispatcher'[g] \in {"routing", "enqueuing"}
    <3> SUFFICES ASSUME NEW g \in Managers
                 PROVE  hand'[g] \in Messages <=> dispatcher'[g] \in {"routing", "enqueuing"}
      OBVIOUS
    <3>1. CASE g = h
      BY <1>3, <1>6, <1>7, <3>1 DEF Messages
    <3>2. CASE g # h
      BY <1>1, <1>3, <1>7, <3>2 DEF Holding
    <3> QED
      BY <3>1, <3>2
  <2>2. ASSUME NEW g \in Managers, NEW c \in Channels
        PROVE  /\ Len(queue'[g][c]) <= QueueSize
               /\ worker'[g][c].at \in Sending => worker'[g][c].msg \in Messages
               /\ worker'[g][c].at = "backoff" => worker'[g][c].try < MaxRetries
    <3>1. CASE g = h
      BY <1>1, <1>3, <1>9, <3>1 DEF Holding, Sending
    <3>2. CASE g # h
      BY <1>1, <1>3, <1>7, <3>2 DEF Holding
    <3> QED
      BY <3>1, <3>2
  <2> QED
    BY <2>1, <2>2 DEF Holding
<1>14. Gates'
  BY <1>1, <1>3, <1>5 DEF Gates
<1>15. BusIsTail' /\ Ordered'
  BY <1>3, <1>11 DEF OutboundInv, BusIsTail, Ordered
<1>16. Passed'
  BY <1>1, <1>3, <1>10, <1>11 DEF Passed
<1>17. Fresh'
  BY <1>1, <1>3, <1>5, <1>7, <1>10 DEF Fresh
<1>18. LiveIsCurrent'
  BY <1>3, <1>10 DEF LiveIsCurrent
<1>19. Lanes'
  BY <1>3, <1>6, <1>10, <1>11, <1>12 DEF Lanes, Lane, Ahead, Increasing
<1> QED
  BY <1>8, <1>13, <1>14, <1>15, <1>16, <1>17, <1>18, <1>19 DEF OutboundInv

LEMMA StepPreserves == OutboundInv /\ [Next]_vars => OutboundInv'
<1> SUFFICES ASSUME OutboundInv, [Next]_vars PROVE OutboundInv'
  OBVIOUS
<1>1. CASE Publish
  BY <1>1, PublishKeeps
<1>2. ASSUME NEW g \in Managers, Dispatch(g) PROVE OutboundInv'
  BY <1>2, SubscribeKeeps, RouteKeeps, EnqueueKeeps DEF Dispatch
<1>3. ASSUME NEW g \in Managers, NEW c \in Channels, Work(g, c) PROVE OutboundInv'
  BY <1>3, ReceiveKeeps, WorkKeeps DEF Work
<1>4. CASE BeginReload \/ Reload
  BY <1>4, StopKeeps, StartKeeps DEF Reload
<1>5. CASE UNCHANGED vars
  <2>1. UNCHANGED <<published, bus, dispatcher, hand, queue, worker, sent, settled, closed, cancelled,
                    gateway, manager, started, reloads>>
    BY <1>5 DEF vars
  <2>2. /\ \A c \in Channels : Sent(c)' = Sent(c)
        /\ \A g \in Managers, c \in Channels :
             /\ Queued(g, c)' = Queued(g, c) /\ Held(g, c)' = Held(g, c)
             /\ InWork(g, c)' = InWork(g, c) /\ (Alive(g, c)' <=> Alive(g, c))
        /\ Taken' = Taken
    BY <2>1 DEF Sent, Queued, Held, InWork, Alive, Taken
  <2>3. Types' /\ Holding' /\ Gates' /\ BusIsTail' /\ Ordered'
    BY <2>1, <2>2 DEF OutboundInv, Types, Holding, Gates, BusIsTail, Ordered
  <2>4. Passed' /\ Fresh' /\ LiveIsCurrent'
    BY <2>1, <2>2 DEF OutboundInv, Passed, Fresh, LiveIsCurrent
  <2>5. Lanes'
    BY <2>1, <2>2 DEF OutboundInv, Lanes, Lane
  <2> QED
    BY <2>3, <2>4, <2>5 DEF OutboundInv
<1> QED
  BY <1>1, <1>2, <1>3, <1>4, <1>5 DEF Next

\* The workers that send are live, so they belong to one manager.
LEMMA InvConsistent == OutboundInv => Consistent
<1> SUFFICES ASSUME OutboundInv PROVE TypeOK /\ OneSender
  BY DEF Consistent
<1>1. TypeOK
  <2>1. \A g \in Managers, c \in Channels :
          /\ queue[g][c] \in Seq(Messages) /\ Len(queue[g][c]) <= QueueSize
          /\ worker[g][c].at \in Positions /\ worker[g][c].try \in 0 .. MaxRetries
    BY DEF OutboundInv, Types, Holding, Work_
  <2> QED
    BY <2>1 DEF OutboundInv, Types, Holding, Gates, Passed, TypeOK
<1>2. OneSender
  <2> SUFFICES ASSUME NEW c \in Channels
               PROVE  Cardinality({g \in Managers : worker[g][c].at \in {"limiter", "sending", "backoff"}}) <= 1
    BY DEF OneSender
  <2>1. PICK S : S = {g \in Managers : worker[g][c].at \in {"limiter", "sending", "backoff"}}
    OBVIOUS
  <2>2. \A g \in S : g = manager
    BY <2>1 DEF OutboundInv, LiveIsCurrent, Alive
  <2>3. S = {} \/ S = {manager}
    BY <2>2
  <2>4. Cardinality({}) = 0 /\ Cardinality({manager}) = 1
    BY FS_EmptySet, FS_Singleton
  <2>5. Cardinality(S) <= 1
    BY <2>3, <2>4
  <2> QED
    BY <2>1, <2>5
<1> QED
  BY <1>1, <1>2

LEMMA InvSentInOrder == OutboundInv => SentInOrder
BY SeqFacts DEF OutboundInv, Types, Ordered, SentInOrder

LEMMA InvHolds == Spec => []OutboundInv
BY InitEstablishes, StepPreserves, PTL DEF Spec

\* However often the configuration is reloaded, no queue grows past its
\* capacity and at most one worker of a channel has a message in work: StopAll
\* waits for every worker of its manager before the next manager starts.
THEOREM OneSenderPerChannel == Spec => []Consistent
BY InvHolds, InvConsistent, PTL

\* A channel gets its messages in the order in which they were published, none
\* of them twice, across retries, give-ups and changes of the manager.
THEOREM DeliveredInOrder == Spec => []SentInOrder
BY InvHolds, InvSentInOrder, PTL

=============================================================================
