-------------------------- MODULE OutboundDelivery --------------------------
(***************************************************************************)
(* The way of a reply to a chat: the outbound channel of bus.MessageBus    *)
(* (pkg/bus/bus.go), the dispatcher and the per-channel workers of         *)
(* channels.Manager (pkg/channels/manager.go), and the gateway that stops  *)
(* and replaces the manager when the configuration changes                 *)
(* (cmd/moonhub/internal/gateway/helpers.go).                              *)
(*                                                                         *)
(* Messages are numbered in the order in which they were published.  Every *)
(* start creates a manager of its own, numbered too; goroutines of an      *)
(* older one may still run.  A panic ends the process.  A message is one    *)
(* that needs no splitting (every chunk of a longer one is sent the same   *)
(* way).                                                                   *)
(***************************************************************************)
EXTENDS Naturals, Sequences, FiniteSets

CONSTANTS
  Channels,
  MaxMessages, \* bound: messages published
  Target,      \* the channel a message is for
  BusSize,     \* capacity of the bus (64)
  QueueSize,   \* capacity of a worker's queue (16)
  MaxRetries,  \* maxRetries (3)
  MaxReloads   \* bound: configuration reloads

Messages == 1 .. MaxMessages
Managers == 1 .. MaxReloads + 1

ASSUME ConstantsAssumption ==
  /\ MaxMessages \in Nat /\ MaxRetries \in Nat /\ MaxReloads \in Nat
  /\ BusSize \in Nat \ {0} /\ QueueSize \in Nat \ {0}
  /\ Target \in [Messages -> Channels]

VARIABLES
  published,  \* number of messages published so far
  bus,        \* mb.outbound
  dispatcher, \* where the dispatcher of a manager is
  hand,       \* the message it holds, 0 for none
  queue,      \* w.queue of a manager's worker for a channel
  closed,     \* managers whose queues are closed
  cancelled,  \* managers whose dispatchCtx is done
  worker,     \* where a worker is, which message it sends and the attempt
  sent,       \* messages handed to a channel, in order
  settled,    \* messages sent, given up, or skipped
  gateway,    \* progress of the goroutine that reloads
  manager,    \* services.ChannelManager, 0 for nil
  started,    \* number of managers started so far
  reloads,
  panicked

vars == <<published, bus, dispatcher, hand, queue, closed, cancelled, worker, sent, settled,
          gateway, manager, started, reloads, panicked>>
lane == <<dispatcher, hand, queue>>
stops == <<closed, cancelled, gateway, manager, started, reloads>>

Absent == [at |-> "none", msg |-> 0, try |-> 0]
Idle == [at |-> "idle", msg |-> 0, try |-> 0]
Done == [at |-> "done", msg |-> 0, try |-> 0]

\* StartAll: a worker for every channel that starts, then the dispatcher.
Started(g, running) ==
  /\ worker' = [worker EXCEPT ![g] = [c \in Channels |-> IF c \in running THEN Idle ELSE Absent]]
  /\ dispatcher' = [dispatcher EXCEPT ![g] = "idle"]

Init ==
  /\ published = 0
  /\ bus = <<>>
  /\ \E running \in SUBSET Channels :
       worker = [g \in Managers |-> [c \in Channels |-> IF g = 1 /\ c \in running THEN Idle ELSE Absent]]
  /\ dispatcher = [g \in Managers |-> IF g = 1 THEN "idle" ELSE "none"]
  /\ hand = [g \in Managers |-> 0]
  /\ queue = [g \in Managers |-> [c \in Channels |-> <<>>]]
  /\ closed = {}
  /\ cancelled = {}
  /\ sent = <<>>
  /\ settled = {}
  /\ gateway = "up"
  /\ manager = 1
  /\ started = 1
  /\ reloads = 0
  /\ panicked = FALSE

Panic == panicked' = TRUE

-----------------------------------------------------------------------------
\* PublishOutbound blocks while the bus is full.
Publish ==
  /\ published < MaxMessages
  /\ Len(bus) < BusSize
  /\ published' = published + 1
  /\ bus' = Append(bus, published + 1)
  /\ UNCHANGED <<lane, worker, sent, settled, stops, panicked>>

(***************************************************************************)
(* dispatchLoop                                                            *)
(***************************************************************************)
DispatcherAt(g, from, to) ==
  /\ dispatcher[g] = from
  /\ dispatcher' = [dispatcher EXCEPT ![g] = to]

\* SubscribeOutbound: its select may take a message although ctx is done.
Subscribe(g) ==
  /\ DispatcherAt(g, "idle", "routing")
  /\ bus # <<>>
  /\ hand' = [hand EXCEPT ![g] = Head(bus)]
  /\ bus' = Tail(bus)
  /\ UNCHANGED <<published, queue, worker, sent, settled, stops, panicked>>

StopDispatch(g) ==
  /\ g \in cancelled
  /\ DispatcherAt(g, "idle", "done")
  /\ UNCHANGED <<published, bus, hand, queue, worker, sent, settled, stops, panicked>>

\* StopAll holds m.mu from its first line to its last.
Locked(g) == g = manager /\ gateway \in {"closing", "waiting"}

Worker(g) == worker[g][Target[hand[g]]]

Route(g) ==
  /\ ~Locked(g)
  /\ \/ /\ DispatcherAt(g, "routing", "enqueuing")
        /\ Worker(g) # Absent
        /\ UNCHANGED <<hand, settled>>
     \/ /\ DispatcherAt(g, "routing", "idle")
        /\ Worker(g) = Absent
        /\ hand' = [hand EXCEPT ![g] = 0]
        /\ settled' = settled \cup {hand[g]}
  /\ UNCHANGED <<published, bus, queue, worker, sent, stops, panicked>>

\* Mutant of Enqueue: the message overtakes what waits in the queue.
EnqueueFirst(g) ==
  /\ DispatcherAt(g, "enqueuing", "idle")
  /\ LET c == Target[hand[g]] IN
       /\ Len(queue[g][c]) < QueueSize
       /\ queue' = [queue EXCEPT ![g][c] = <<hand[g]>> \o @]
  /\ hand' = [hand EXCEPT ![g] = 0]
  /\ UNCHANGED <<published, bus, worker, sent, settled, stops, panicked>>

\* The send into w.queue blocks while it is full and panics when it is closed.
Enqueue(g) ==
  /\ DispatcherAt(g, "enqueuing", "idle")
  /\ LET c == Target[hand[g]] IN
       \/ /\ g \in closed
          /\ Panic
          /\ UNCHANGED queue
       \/ /\ g \notin closed
          /\ Len(queue[g][c]) < QueueSize
          /\ queue' = [queue EXCEPT ![g][c] = Append(@, hand[g])]
          /\ UNCHANGED panicked
  /\ hand' = [hand EXCEPT ![g] = 0]
  /\ UNCHANGED <<published, bus, worker, sent, settled, stops>>

GiveUpEnqueue(g) ==
  /\ g \in cancelled
  /\ DispatcherAt(g, "enqueuing", "done")
  /\ hand' = [hand EXCEPT ![g] = 0]
  /\ settled' = settled \cup {hand[g]}
  /\ UNCHANGED <<published, bus, queue, worker, sent, stops, panicked>>

-----------------------------------------------------------------------------
(***************************************************************************)
(* runWorker and sendWithRetry                                             *)
(***************************************************************************)
SetWorker(g, c, w) == worker' = [worker EXCEPT ![g][c] = w]

\* The message is done with: settled, and sent when the channel took it.
Settle(g, c, took) ==
  /\ SetWorker(g, c, Idle)
  /\ settled' = settled \cup {worker[g][c].msg}
  /\ sent' = IF took THEN Append(sent, worker[g][c].msg) ELSE sent

Receive(g, c) ==
  /\ worker[g][c] = Idle
  /\ queue[g][c] # <<>>
  /\ SetWorker(g, c, [at |-> "limiter", msg |-> Head(queue[g][c]), try |-> 0])
  /\ queue' = [queue EXCEPT ![g][c] = Tail(@)]
  /\ UNCHANGED <<published, bus, dispatcher, hand, sent, settled, stops, panicked>>

\* The queue is closed and drained, or ctx is done, drained or not.
EndWorker(g, c) ==
  /\ worker[g][c] = Idle
  /\ (queue[g][c] = <<>> /\ g \in closed) \/ g \in cancelled
  /\ SetWorker(g, c, Done)
  /\ UNCHANGED <<published, bus, lane, sent, settled, stops, panicked>>

\* limiter.Wait(ctx) fails once ctx is done.
PassLimiter(g, c) ==
  /\ worker[g][c].at = "limiter"
  /\ IF g \in cancelled THEN Settle(g, c, FALSE)
     ELSE SetWorker(g, c, [worker[g][c] EXCEPT !.at = "sending"]) /\ UNCHANGED <<settled, sent>>
  /\ UNCHANGED <<published, bus, lane, stops, panicked>>

\* Mutant of Send: a temporary error is retried without end.
SendForever(g, c) ==
  /\ worker[g][c].at = "sending"
  /\ \/ Settle(g, c, TRUE)
     \/ Settle(g, c, FALSE)
     \/ /\ SetWorker(g, c, [worker[g][c] EXCEPT !.at = "backoff", !.try = 0])
        /\ UNCHANGED <<settled, sent>>
  /\ UNCHANGED <<published, bus, lane, stops, panicked>>

\* Mutant of Send: the worker takes m.mu to look its channel up.
SendUnderLock(g, c) ==
  /\ ~Locked(g)
  /\ worker[g][c].at = "sending"
  /\ Settle(g, c, TRUE)
  /\ UNCHANGED <<published, bus, lane, stops, panicked>>

\* One attempt: the channel takes the message (or the placeholder is edited),
\* refuses it for good, or fails in a way that is retried.
Send(g, c) ==
  /\ worker[g][c].at = "sending"
  /\ \/ Settle(g, c, TRUE)
     \/ Settle(g, c, FALSE)
     \/ /\ worker[g][c].try < MaxRetries
        /\ SetWorker(g, c, [worker[g][c] EXCEPT !.at = "backoff"])
        /\ UNCHANGED <<settled, sent>>
  /\ UNCHANGED <<published, bus, lane, stops, panicked>>

\* The select of the backoff: the timer, or ctx.
Backoff(g, c) ==
  /\ worker[g][c].at = "backoff"
  /\ \/ /\ SetWorker(g, c, [worker[g][c] EXCEPT !.at = "sending", !.try = @ + 1])
        /\ UNCHANGED <<settled, sent>>
     \/ g \in cancelled /\ Settle(g, c, FALSE)
  /\ UNCHANGED <<published, bus, lane, stops, panicked>>

-----------------------------------------------------------------------------
(***************************************************************************)
(* The gateway: handleConfigReload, StopAll and restartServices            *)
(***************************************************************************)
GatewayAt(from, to) == gateway = from /\ gateway' = to

\* StopAll cancels dispatchCtx; without a manager there is nothing to stop.
BeginReload ==
  /\ reloads < MaxReloads
  /\ reloads' = reloads + 1
  /\ GatewayAt("up", IF manager = 0 THEN "down" ELSE "closing")
  /\ cancelled' = cancelled \cup ({manager} \ {0})
  /\ UNCHANGED <<published, bus, lane, worker, sent, settled, closed, manager, started, panicked>>

\* close(w.queue): it panics in a manager that was stopped before.
CloseQueues ==
  /\ GatewayAt("closing", "waiting")
  /\ closed' = closed \cup {manager}
  /\ panicked' = (manager \in closed /\ \E c \in Channels : worker[manager][c] # Absent)
  /\ UNCHANGED <<published, bus, lane, worker, sent, settled, cancelled, manager, started, reloads>>

\* Mutant of WaitForWorkers: StopAll does not wait.
WaitForNobody ==
  /\ GatewayAt("waiting", "down")
  /\ UNCHANGED <<published, bus, lane, worker, sent, settled, closed, cancelled, manager, started,
                 reloads, panicked>>

\* <-w.done of every worker, then StopAll returns.
WaitForWorkers ==
  /\ GatewayAt("waiting", "down")
  /\ \A c \in Channels : worker[manager][c] \in {Absent, Done}
  /\ UNCHANGED <<published, bus, lane, worker, sent, settled, closed, cancelled, manager, started,
                 reloads, panicked>>

StartAll ==
  /\ GatewayAt("down", "starting")
  /\ started' = started + 1
  /\ manager' = started'
  /\ \E running \in SUBSET Channels : Started(started', running)
  /\ UNCHANGED <<published, bus, hand, queue, sent, settled, closed, cancelled, reloads, panicked>>

\* restartServices returns and its deferred cancel ends the context that it
\* gave to StartAll.
RestartReturns ==
  /\ GatewayAt("starting", "up")
  /\ cancelled' = cancelled \cup {manager}
  /\ UNCHANGED <<published, bus, lane, worker, sent, settled, closed, manager, started, reloads, panicked>>

\* restartServices fails before the channels: the stopped manager stays, or
\* NewManager returned nil.
RestartFails ==
  /\ GatewayAt("down", "up")
  /\ manager' \in {manager, 0}
  /\ UNCHANGED <<published, bus, lane, worker, sent, settled, closed, cancelled, started, reloads, panicked>>

Dispatch(g) == Subscribe(g) \/ StopDispatch(g) \/ Route(g) \/ Enqueue(g) \/ GiveUpEnqueue(g)
Work(g, c) ==
  Receive(g, c) \/ EndWorker(g, c) \/ PassLimiter(g, c) \/ Send(g, c) \/ Backoff(g, c)
Reload == CloseQueues \/ WaitForWorkers \/ StartAll \/ RestartReturns \/ RestartFails

Next ==
  /\ ~panicked
  /\ \/ Publish \/ BeginReload \/ Reload
     \/ \E g \in Managers : Dispatch(g) \/ \E c \in Channels : Work(g, c)

Spec == Init /\ [][Next]_vars

\* Goroutines run; nobody is bound to publish or to change the configuration.
Fairness ==
  /\ \A g \in Managers : WF_vars(~panicked /\ Dispatch(g))
  /\ \A g \in Managers, c \in Channels : WF_vars(~panicked /\ Work(g, c))
  /\ WF_vars(~panicked /\ Reload)
FairSpec == Spec /\ Fairness

-----------------------------------------------------------------------------
Positions == {"none", "idle", "limiter", "sending", "backoff", "done"}

TypeOK ==
  /\ published \in 0 .. MaxMessages
  /\ bus \in Seq(Messages) /\ Len(bus) <= BusSize
  /\ dispatcher \in [Managers -> {"none", "idle", "routing", "enqueuing", "done"}]
  /\ \A g \in Managers : hand[g] \in Messages <=> dispatcher[g] \in {"routing", "enqueuing"}
  /\ \A g \in Managers, c \in Channels :
       /\ queue[g][c] \in Seq(Messages) /\ Len(queue[g][c]) <= QueueSize
       /\ worker[g][c].at \in Positions /\ worker[g][c].try \in 0 .. MaxRetries
  /\ closed \subseteq cancelled /\ cancelled \subseteq 1 .. started
  /\ settled \subseteq 1 .. published
  /\ manager \in 0 .. started

\* A channel gets its messages in the order in which they were published and
\* none of them twice, across retries and changes of the manager.
SentInOrder ==
  \A i, j \in DOMAIN sent : i < j /\ Target[sent[i]] = Target[sent[j]] => sent[i] < sent[j]

\* Two managers never send to a channel at the same time: StopAll waits for
\* the workers before the next manager starts.
OneSender ==
  \A c \in Channels :
    Cardinality({g \in Managers : worker[g][c].at \in {"limiter", "sending", "backoff"}}) <= 1

\* Every step keeps the types and the bounds of the queues, and one sender.
Consistent == TypeOK /\ OneSender

\* While the first manager lives every published message is sent, given up
\* or skipped, whatever the channels answer.
PublishedSettles ==
  \A m \in Messages : (published >= m) ~> (m \in settled \/ cancelled # {})

\* StopAll gets its answer from every worker although it holds m.mu.
StopAllReturns == (gateway = "closing") ~> (gateway = "down" \/ panicked)

\* "This prevents cancellation from the main loop context during reload"
\* (helpers.go, line 453): the services that restartServices starts work on
\* after it returned without an error.
ReloadedDelivers ==
  \A m \in Messages :
    (published >= m) ~> (m \in settled \/ gateway # "up" \/ started <= reloads \/ panicked)

=============================================================================
