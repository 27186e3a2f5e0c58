# MoonHub in TLA+

MoonHub is a personal AI agent in Go: a *gateway* process that receives chat
messages on many channels, lets language models answer them with the help of
tools, delegates work to sub-agents, asks for approval before dangerous tool
calls, and runs scheduled jobs. This directory holds TLA+ models of its core,
the TLC configurations that check them on small instances, and proofs that TLAPS
checks for every value of the constants.

Contents: [inventory](#1-inventory) · [modules](#2-modules) · [runs](#3-runs) ·
[bounds](#4-bounds) · [fairness](#5-fairness) · [proofs](#6-proofs) ·
[what the code does differently from what it says](#7-disagreements-met) ·
[not modelled](#8-not-modelled) · [plan](#9-plan)

To check a run, `tlc -config Delegation.cfg MCDelegation.tla`; to check the
proofs, `tlapm` on each of the `_proofs` modules. `PROJECT.json` names every run, maps each
definition to the lines it translates, and lists for every property a mutant of
a mapped definition that breaks it. Mutants stand right before the definition
they mutate and are not used by the specification.

## 1. Inventory

How a message travels: a channel adapter publishes it on the inbound bus; the one
goroutine of `AgentLoop.Run` takes it, finds agent and session, and runs a *turn*
(prompt, model call, tool calls, until the model answers in text); the answer goes
to the outbound bus, from where a dispatcher hands it to the worker of its channel,
which sends it. Beside that goroutine run the heartbeat, cron jobs, the web chat
(`ProcessDirectWithChannel`), background workers and summarisers, on the same
sessions, tools and stores.

| Component | State it keeps | Operations | What is hard | What makes it correct |
|---|---|---|---|---|
| Session queue `pkg/delegation/queue.go` | per user a bounded channel, a `running` flag; one mutex | Submit, processQueue, Clear | channel operations outside the lock; the goroutine that stops while a task arrives | tasks of a user run one at a time, in order, each answered once |
| Background runner `background.go`, result injection in `pkg/agent` | rows in SQLite, task channel, workers, delivered flags | Submit, worker loop, executeTask, inject, confirm_task | crash between row and channel; ignored store errors; two readers of results | one owner per task, status only forward, a result told again only to a second reader |
| Sub-agent lifecycle `lifecycle.go` | rows of sub-agents | Create, FindReusable, Suspend, Revive, Dismiss, Kill, RecordTaskResult | no lock: read, decide, write as separate store calls | limit, counters, dismissed and killed agents stay so |
| Shield approvals `pkg/shield/approval.go`, `pkg/agent/loop.go` | requests and their channels under one mutex, timers | CreateRequest, WaitForApproval, Approve, Reject, cleanup, Close | answer, timer and cancellation at once; channels closed under a sender; the waiting goroutine is the one that would read the answer | what was asked about runs only when approved, a verdict stands |
| Outbound path `pkg/bus`, `pkg/channels/manager.go` | bus channel, worker queues, contexts | PublishOutbound, dispatch, enqueue, send with retries, StartAll, StopAll | full queues, stop while sending, retries | in order, once, by one sender; stopping ends |
| Gateway `cmd/moonhub/internal/gateway` | the current set of services | start, reload on a configuration change, stop | services replaced while goroutines of the old ones run; failing restarts | the new services work, the old ones do not interfere |
| Cron `pkg/cron/service.go`, `pkg/tools/cron.go`, `moonhub cron` | jobs in memory and in `jobs.json` | tick, execute, add, remove, enable, update | crash between clearing the next run and executing; two services or two processes on one file | a one-shot runs at most once, recurring jobs go on, removed jobs stay removed |
| Session store `pkg/memory/jsonl.go` | a `.jsonl` and a `.meta.json` file per session | add, get, truncate, set history, compact | torn appends; two files written one after the other | history in order, nothing lost by a crash |
| Agent turns `pkg/agent/loop.go`, `context.go`, `pkg/compactor`, `pkg/tools/message.go` | session, summary, summarising marks, flag of the message tool | process message, run iteration, /clear, summarise, compact, force compression, message tool, heartbeat | copies used after a model call; turns of several goroutines on one session; prompts repaired after crashes | prompts are valid, what was said since the last /clear is in the history or in the summary, one reply per message |
| Provider fallback `pkg/providers/fallback.go`, `cooldown.go` | error counts and two cooldown ends per provider | Execute, MarkFailure, MarkSuccess, the turn's retries | calls in parallel on one tracker; a window that resets counters | a wait no longer than earned, never shortened by a failure; a sound model is asked |
| MCP manager `pkg/mcp`, `pkg/agent/loop_mcp.go` | server sessions, closed flag, wait group, once | initialise, connect, call, close | a call that starts while Close waits; servers that live in the first caller's context | calls end before their session does; Close leaves none |
| Tool registry, search, tool loop, sub-agents `pkg/tools` | tools with rounds left, spawned tasks | register, search, offer, execute, count down, spawn | parallel calls of one round; one countdown for turns that run at once | what a search unlocked is offered, what is offered can be called |
| Media store `pkg/media/store.go` | references, scopes, files | store, resolve, release, clean | files checked before and deleted after the lock; a store replaced by a reload | a reference that resolves has its file, no file without one |
| Typing marks and placeholders `pkg/channels/base.go`, `manager.go` | one entry per kind and chat in `sync.Map`s | show, record, pre-send, janitor | entries overwritten and taken by several at once | what is shown is ended, and once |
| WeCom AI bot `pkg/channels/wecom/aibot.go` | tasks per stream and per chat | question, stream refresh, send, clean-up | a worker that waits on one task's channel; posts outside the lock | the worker is woken, one answer per question |
| Launcher's gateway process `web/backend/api/gateway.go` | one struct: command, status, cached health | start, stop, restart, wait, probe, status | goroutines of earlier children; a mutex held over waits | one gateway at most, and it is the one in the struct |
| Console hub `pkg/api/chat_ws.go` | client per session | add, remove, broadcast, pump, read | reconnects; turns that wait for a client | no turn waits for ever |
| Heartbeat, last-channel state | ticker; one struct | tick, set | a turn beside the inbox | see turns |
| Provisioning `pkg/provisioning` | mode, flags and recovery lock in `provisioning.json`, the WiFi interface | connect, hotspot, forget, rollback, reset, health check, recovery | keys written one by one by several; failing commands; restarts | the lock has an owner, mode and interface agree, the device does not cut itself off |
| Pairing and tokens `pkg/devices` | current code, paired devices | generate, validate, regenerate | expiry against use | a code pairs once, and not after it expired |
| Agent network `pkg/transport`, `cloud/relay`, `cloud/directory`, `pkg/friends`, `pkg/social` | connections, registrations, friend lists | connect, forward, register, look up | reconnects, two readers of one connection | messages reach the registered agent |
| Inter-agent messages `intercom.go` | subscriptions, a ring of recent events, a blackboard; mutexes | on, emit, recent, post, resolve | handlers called outside the lock | |
| Text work: compactor, learning, adaptive memory, routing, commands, skills, plugins, protocols, providers' clients, tools, web and terminal interfaces | tables, SQLite rows | | parsing, scoring, formatting | tested best by examples |

`PROJECT.json` lists every component with its status, and under `hazards` the lines
where this code can go wrong in ways that a unit test would hardly reach.

## 2. Modules

Every component has a module of its own with one action per step between two
scheduling points of the code: what a mutex protects without blocking is one step,
and a channel operation, a store call, a write or an external call is a step of its
own. The `MC` modules give the constants values for TLC.

**SessionQueue** and **SerialExecutor**. `SubmitLocked`, `PushAccepted` and
`PushRefused` are the locked half of `Submit` and the two cases of its `select`;
`Lookup`, `Take`, `Finish`, `SeeEmpty` and `Stop` are `processQueue`; `ClearBegin`
to `ClearEnd` are `Clear`, which holds the lock while it drains channels that others
use. A queue object is named by its agent and the number of Clears before it, because
goroutines and callers keep pointers to objects that Clear has dropped. The mutex is
"leaked" once `processQueue` returns without unlocking it (queue.go:89), which needs a
Clear. `SerialExecutor` is what callers count on: a bounded FIFO queue per agent,
executed one at a time, refused only when full. It has no goroutine and no flag.

**BackgroundTasks** composes `BackgroundRunner`, its rows in the SQLite store, and the
two ways a result reaches a conversation. A crash forgets the channel, the workers and
the turns and keeps the rows. The executor's model call is a choice of outcome. Turns of
the inbox, the web chat, cron and the heartbeat overlap: `shared` records the results that
a turn read while another held them unmarked, or that `confirm_task` read without marking.

**SubAgentLifecycle** is `LifecycleManager` over the store, with concurrent calls.
`raced` records that two calls have been inside the manager together: cap and counters
are claimed until then, because the manager has no lock; what is claimed without that
condition is that dismissed and killed agents stay so.

**ApprovalFlow** composes `ApprovalManager`, the goroutines of guarded tool calls that
wait, and the way of an answer: through the inbound bus and the goroutine of
`AgentLoop.Run`, or beside it. Time is the age of a request: fresh, expired, old. A call
meets the shield twice: `Evaluate` is what the switch of `runLLMIteration` is told, with
any action, and `ExecuteTool` is the tool with its own check, which `web_fetch` and
`install_skill` make (`Checked`). Each can lead to a request, `<<call, "policy">>` and
`<<call, "tool">>`. The switch asks about what is to be blocked, and has no case for
`require_approval` (`MayExecute`). Which action the shield's policies give is a free choice.

**OutboundDelivery** composes the bus, the dispatcher and workers of the channel
manager, and the gateway's reload, which stops one manager and starts the next while
goroutines of the first may still be running. A closed channel that is sent to is a
panic, which ends the process.

**CronService** composes the services that successive reloads create on one file, the
cron tool, and the processes of `moonhub cron`. Clock arithmetic is reduced to
"has a next run" and "the time of a one-shot has passed".

**JSONLStore** is the two files of one session: lines, the newline at the end of the
last one, and the metadata. The store has no state in memory and every method stops at
its first error, so a crash between two writes and a second write that fails are the
same step, `CutShort`. An append may stop anywhere in its line, `AddTorn`: what is
written next joins the unfinished line. **SessionStore** is the contract of
`memory.Store` with the exceptions spelled out that crashes enforce; `JSONLStore` is
checked to implement it. Locks make one operation exclude the others within one store
object, so operations interleave only with crashes.

**SessionTurns** is what the goroutines of `pkg/agent/loop.go` do to one session: turns
from the inbox, which run one after the other, direct turns beside them, the one
summariser that a turn may start, the compactor, and a heartbeat that shares the message
tool. A turn reads the history, saves the question, asks the model, saves calls and
results round by round, retries after a time-out, and compresses the history when the
model refuses the prompt as too long. A `/clear` is a turn that empties the history
(`ClearHistory`) and then the summary (`ClearSummary`); `cleared` is what had been said by
then. Its third call, Save, writes what the first two have left. Every call of the session
store is one step, so that everything a turn has read may be old when it is used. A
message carries the turn,
round and call it belongs to instead of a text, and the summary is the set of messages it
tells of, which is what the properties compare. `Sanitize` is `sanitizeHistoryForProvider`
as an operator: its first pass is a recursive function, as one loop decides each message
by what it has kept so far, and its second one takes positions away.

**Subsequences** is one operator, `Pick`: the elements of a sequence at the positions of a
set, which is what both the reader of a file and the second pass leave. It is written as a
recursive function so that it can be proved about.

**ProviderFallback** is a model call of a turn through `FallbackChain.Execute`: any
number of calls share one `CooldownTracker`. The tracker's operations are atomic, the
request between them is not. Both backoffs are operators over arbitrary bases and caps.

**GatewayProcess** is the launcher's struct of the gateway child, with two goroutines
for every child (`Reap`, `WaitClears`, `BroadcastStopped`, and `ProbeTry`, `ProbeSets`,
`BroadcastRunning`), status requests and their probes. Start holds the mutex over one
step; restart and a probe hold it over several.

**WeComAIBot** is one chat of the bot: questions, refreshes of a stream, the cleanup and
`Send`, which holds no lock while it pushes or posts. **ChannelFeedback** is what a chat
shows before its reply: three kinds of marks, shown and recorded by `HandleMessage`,
taken out by two senders or the janitor. **MediaStore** is the store with its two-phase
deletions. **ChatHub** is one session of the console's hub, **MCPManager** the manager
between its one loading and its close.

**ToolDiscovery** is the registry's hidden tools and the rounds of `runLLMIteration` in
several turns of one agent: `OfferTools` is `ToProviderDefs` before the model call,
`ExecuteCall` one goroutine of a round, which runs a tool or a search, and `TickTTL` the
countdown after all of them, which counts for every turn. `crossed` records the turns
during whose last round another one has counted down. The model may call any hidden tool,
offered or remembered.

**DeviceProvisioning** is the manager of the device's network: requests that connect,
open or close the hotspot, forget or reset, the loop that checks the network, and the
recovery it starts. The settings change one key at a time; an operation is the list of
the steps it still has to do, so that any two of them interleave between any two writes.
A restart forgets the processes and keeps the settings and the interface's connection.

Several MC modules check more than one thing in a run, because a product of parts that
share no state would only multiply states. `part` selects one, the others stay where they
begin: the run's reachable states are the sum of theirs, and each property is checked in
all the states of the module it is about. **MCServices** has `SubAgentLifecycle`,
`ToolDiscovery` and the seven modules from `ProviderFallback` to `MCPManager`;
**MCDelegation** the queue, and the background tasks with two workers or with two turns;
**MCSession** the files, and turns that use tools or that only talk and clear;
**MCApprovalFlow** two calls, or one call with two requests. Where one module has two parts,
a part restricts the steps of users, administrators and faults, and the order in which
equals begin, but no step that fairness promises, except that a worker or a call that does
not take part stays out of the way: there background tasks are left to the other worker,
and the other call runs first, without an objection of the shield.

What composes what: `SessionTurns` takes its prompts from the history as it reads it,
and assumes of the store what `SessionStore` says without crashes; `ApprovalFlow` and
`OutboundDelivery` meet the turn only at its tool call and its answer, and stay separate
so that each can be checked with more than one turn.

## 3. Runs

Passing runs. Each property's comment in its module says what it means.

| Run | What it shows |
|---|---|
| `delegation` | The session queue: three submissions for one agent, a channel of two, one `Clear`. `ImplementsSerialExecutor` until Clear is called; `ExactlyOnePlace` (a task is in one channel, one goroutine or answered, never lost or doubled) always; `RunningQueueDrains`: while the flag is set, what is in the channel gets executed. The background tasks: two tasks, a channel of one and a crash, with two workers, one turn, a failing store call and a failing turn, or with one worker and two turns that overlap. `Consistent`: a task has one owner, an unfinished row has one unless it was orphaned by a crash or a failed store call. Statuses go forward and the outcome event follows the queued event (`StatusForward`), an accepted task finishes when nothing fails (`AcceptedFinishes`). Only finished tasks are marked as delivered, and while marks are stored a result is told again only if a second turn read it before the first had marked it, or `confirm_task` read it without marking: not after a crash, nor by a turn that starts later (`ToldAgainOnlyIfShared`). |
| `approval` | A call in a turn of `Run` and one beside it, of which the shield says anything, with one answer in the chat; or one call of a tool that asks the shield itself, with two answers; answers beside `Run`, the timer, the cleanup, and a cancelled turn or a Close. A tool that the shield blocks, or whose own check requires approval, runs only when the request about just that was approved (`ExecutedWasApproved`), a verdict stands whatever comes later (`VerdictStands`), the channel of a pending request is open (`Consistent`), every waiter returns and the inbox is served (`NobodyWaitsForEver`). |
| `outbound` | Three messages over a bus of one and a queue of two, one retry, two reloads that succeed or fail. Messages of a chat are sent in order and once, across managers (`SentInOrder`), one worker sends at a time (`Consistent`), what was published settles while its manager runs (`PublishedSettles`), `StopAll` returns (`StopAllReturns`). |
| `cron` | A one-shot and a recurring job, two services, crashes, and two of failing saves and commands. A one-shot runs at most once (`OneShotRunsOnce`), a recurring job keeps a next run (`RecurringKeepsNextRun`), the file has what the service knows unless a save failed (`FileIsCurrent`), a removed job stays removed (`GoneStaysGone`). |
| `session` | The turns: a user message and a second turn of any kind, with the compactor or without, one round of tools (two in the first turn or one in the second), and one of time-out, refusal, crash and heartbeat; or three turns of users who talk or clear. Messages stay in order (`Consistent`); every prompt has a result for every call, always, and as long as no two turns ran at once and no message was saved while a copy was compressed no result without its call, and its question (`PromptIsSound`); what was said since the last /clear is in the history or in the summary (`NothingForgotten`, with its six exceptions); one reply for a user's message (`RepliedOnce`). The files: six messages, two torn appends, two operations cut between their writes, every order of add, truncate, set history and compact. They implement `SessionStore` (`ImplementsSessionStore`), and t torn appends cost t + 1 acknowledged messages at most, none without a torn append (`DamageIsBounded`). |
| `device` | One request at a time beside one recovery, a failing command, ended request or crash, and one outage. The recovery lock has an owner unless the process was restarted, and mode, hotspot and interface agree between operations (`Consistent`); a device that is cut off gets its network or its hotspot back (`ComesBack`, with the ways the code leaves it named). |
| `services` | Nine components that share no state, see `MCServices`. `CooldownIsEarned`: a wait is never longer than the provider's error counters stand for. `CooldownOnlyExtends`: a failure never shortens one. `SoundProviderIsAsked`: a call gives up only when every candidate's provider has a model that fails. `GatewayIsKnown`: a gateway that runs is the one in the struct, and is not said to be stopped. `SendIsWoken`: the worker that waits for a task has a refresh or a cancel that wakes it. `OneAnswerEach`: no question is answered twice. `FilesFollowRefs`: a reference has its file, and no file is left without a reference. `MarksAreTakenOnce`: what a chat shows is in the map or about to be ended, by one. `BroadcastIsReleased`: a turn that waits for a client waits for one that is read or gone. `CloseIsOrderly`: no session is closed under a call that was counted in time. `ExactUnlessRaced`: with a store error, the cap and the counters of sub-agents are exact while calls do not overlap. `DismissedIsFinal`: a killed sub-agent stays gone and a dismissed one is never active again, however calls overlap. `UnlockedIsUsable`: what a search unlocked is offered in the next round and what was offered can be called, unless another turn's rounds were counted in between. |

Five runs must find a violation, which are the first five disagreements of section 7:
`background_lost_result`, `outbound_reload`, `offered_tools`, `approval_not_asked` and
`session_cleared`.

## 4. Bounds

- `delegation`, the queue: three tasks on a channel of two is the smallest instance with a task
  executing, a full channel and a refusal. One agent, because agents share nothing but
  the mutex; the proofs cover any number. One `Clear` reaches the second generation of
  objects and the leaked lock.
- `delegation`, background tasks: `QueueCap` 1 makes the channel full with two tasks; two
  workers can race for them; one crash, one store error and one failed turn meet every step.
  The part with two turns needs both on one row before either marks it, and a second task
  whose result only one of them has; store calls do not fail there, since the property is
  about marks that are stored.
- `approval`: one call inside `Run` and one beside it are the two cases the code
  distinguishes; one answer in the bus can be in time, late, or plain text.
  The other part has one call with two requests, and an answer for each of them.
- `outbound`: `BusSize` 1 and `QueueSize` 2 fill up with three messages; two reloads
  give a third manager that starts while workers of the first may live.
- `cron`: one job of each kind; two services are one reload or one restart; two faults
  allow a failing save followed by a crash or a command.
- `session`, turns: two turns are one beside the inbox, or one after the other with the
  summariser of the first still at work. `KeepLast`, `Threshold` and `Batch` 2 make a
  question, a call, two results and an answer longer than what a summary keeps, so that
  cuts fall between a call and its results, and a summary needs two batches. One retry is
  a prompt rebuilt from a compressed history; one fault meets every step.
  The part that talks needs more turns and less of each: a first turn whose end begins a
  compression, and two more that talk or /clear beside it; so three turns, no tool rounds
  and no faults.
- `session`, files: `KeepCounts` {0, 2} is the "remove all" case and one that is smaller
  and larger than histories of up to six; two tears meet on one line.
- `device`: a request and a recovery beside it are two writers whose steps interleave
  freely; that they did is kept in `events`, because the modes then really disagree. Two
  failed checks stand for the code's three; two requests, so that one starts from what the
  other has left; an outage, a fault and a restart may come at any step.
- `services`: the fallback chain has two models of one provider and a sound one of
  another, one configured twice, and a clock long enough for the window to reset the
  counters with both kinds of cooldown running (`MaxTime` 9, windows and caps scaled to
  four). Two gateway children are a restart with goroutines of the old one. Three
  questions and four replies fill a task's channel and meet closed and cleaned streams.
  Four references on three files in two scopes share a file and outlive a reload. Two
  messages and two senders take each other's marks. Three connections are a reconnect of
  a reconnect, `SendQueue` 1 is full after one event. Two calls and two servers close one
  session under the other's call. A cap of one with two agents makes room by dismissal and
  is exceeded by the first race of two callers; a threshold of one completed task stands
  for the code's five. Two turns and one hidden tool, unlocked for two rounds, are enough
  for a turn to lose it to the other between offer and call; two calls in a round search
  and call at once. `offered_tools` adds a second hidden tool.

Every such bound is a constant with `Max` in its name, or a capacity, guarded in the
action that spends it. TLC needs at most a few minutes for a run.

## 5. Fairness

Liveness is checked under weak fairness of steps the Go runtime, the kernel or the
clock takes by itself, and of nothing a user, an administrator or a crash decides.

- Queue: a call that has chosen its channel operation, and every step of
  `processQueue`. A task's function returns because its model call has a deadline.
- Background: every step of a worker; the executor runs under a deadline.
- Approval: goroutines that call the shield and the tool, create and wait, the growing age
  of a request, and the loop of `Run`. None for users, cleanup and Close.
- Outbound: dispatchers, workers (the adapter's send returns with an outcome) and the
  steps of a reload once begun. None for publishing or for starting a reload.
- Device: the steps of a request or recovery once begun (every command runs under a
  deadline), the ticker of the monitor, and the end of the cooldown. None for requests,
  nor for the home network, which may stay away for ever.

The other runs state no liveness: their properties say of a state what is waited for
(`SendIsWoken`, `BroadcastIsReleased`), or bound what may happen. `CHECK_DEADLOCK FALSE` is
set where the bounded behaviour ends: calls, messages or faults are used up.

## 6. Proofs

`SessionQueue_proofs` holds theorems of `SessionQueue` for all sets of agents and
tasks, every capacity and any number of Clears. Assumed are only the types of the
constants (`AgentOfAssumption`, `CapAssumption`, `MaxClearsAssumption`).

- `TypeCorrect`: `QueueSpec => []QueueTypeOK`, with the bound on every channel. Inductive as it
  stands; one step per action.
- `Serial` and `RunningIsExclusive`: serial execution and at most one goroutine per
  queue until Clear is called. Neither is inductive: that a second `Submit` starts no
  second goroutine depends on the flag, and that the flag may be cleared depends on the
  only goroutine being the one that clears it. The invariant `IInv` adds what ties them
  together: every live goroutine has the flag of its queue set, and two live goroutines
  of one queue are the same (`Exclusive`); and, until Clear, the lock is free between
  steps, everybody holds the first generation of queue objects, and a goroutine finds its
  queue in the map (`Production`). Because Clear ends all of this, it is proved in the form
  `NotCleared => IInv`, with a lemma that Clear cannot be undone (`ClearedForever`).
- `Refinement`: the queue implements `SerialExecutor` until Clear is called, and
  `ProductionRefinement`: without Clear, which no production code calls, every behaviour
  of the queue is one of `SerialExecutor`. The mapping takes accepted tasks from the
  channel and executing ones from the goroutines; that a task in a channel has not been
  answered (`Accepted`) is what the simulation needs beyond `IInv`. Each action maps to
  a step of the abstract specification or to a stutter.
- `NothingLostOrTwice`: a call that waits has its task in one place, an answered task is
  nowhere (`ExactlyOnePlace`), with any number of Clears. The property counts places; the
  invariant `PlaceInv` says the same without counting: the places of a channel and the
  hands of the goroutines hold different tasks, and each of them a task somebody waits for.
  A Clear that drains a channel beside a goroutine that receives from it is where the
  exclusion of the other theorems is gone and only the atomicity of a receive is left.

`CronService_proofs` holds theorems of `CronService` for all sets of jobs, whichever of
them are one-shot, any number of services, failing saves and commands. Assumed are only
the types of the constants and that `None` is no job (`ConstantsAssumption`).

- `TypeCorrect`: `Spec => []TypeOK`, with two facts that are more than types: a loop
  never executes a job that is still in its list, and only the newest service runs. The
  copy in `edit` outlives the lock, so its type has to be carried along (`EditOK`).
- `RecurringNeverForgotten`: an enabled recurring job of a working service has a next
  run, or the loop that took it will give it one. Not inductive: a handler that finds its
  job gone returns without setting a next run, which is harmless only because a job that
  is gone is not enabled (`GoneIsOff`, in memory and in the file, because the next service
  reads the file); and `UpdateJob` stores a copy made earlier, which must have a next run
  itself (`EditOK`). `IInv` is the conjunction of the four. Every save is one lemma
  (`SaveGone`, `SaveKept`), for a save that reaches the file and for one that fails.
- `Gone`: the action property `GoneStaysGone`. Its content is that every writer looks for
  the job in the store it is about to change, under the lock: `ChangeStaysGone` is the
  step of the tool and of `UpdateJob`, `SaveStaysGone` the one of the loop.
- `OnlyOnce`: a one-shot job is executed at most once. Its executions are counted in
  `starts`, but nothing in the code counts: what prevents a second one is that time
  passes only once, and that at most one service can still have the job come due. The
  invariant `OnceInv` says so: a job whose time has not passed is in no loop's list and
  was never executed (`NotYet`), one that was never added is nowhere (`Unknown`), one
  loop at most has it in its list, and then nobody has executed it (`TakenOnce`), and a
  working service that may still find it due, or is about to get such a copy by
  `UpdateJob`, has it untouched by anybody (`ArmedUntouched`). The last is where the
  copies that a failed save or a reload leaves behind are shown to be harmless: the next
  service recomputes the next run, and finds none.
- `FileKept`: what the working service has in memory is in its file, unless its last save
  failed or another writer came after it (`FileIsCurrent`). Every operation ends with a
  save of the store it has just changed, so one lemma about saves (`SaveKeepsFile`) does.

`BackgroundTasks_proofs` holds three theorems of `BackgroundTasks` for all tasks, workers
and turns, every capacity and any number of crashes and failing store calls. Assumed are
only the types of the constants (`BoundsAssumption`).

- `OwnedTasks`: `Spec => []Consistent`. That a task is in one place (`OneOwner`) counts
  its copies; the invariant says it without counting (`Owned`): no two busy workers have
  one task, no two places of the channel, and no worker one that is in the channel. It is
  kept because only a caller that has not yet been accepted sends its task, and the
  channel and the workers hold accepted ones only (`CallerStage`, `QueueStage`,
  `WorkerStage`). The owner of an unfinished row is `OpenHasOwner`, which the first
  failure ends: a crash empties the channel, and a worker whose write was lost goes on.
- `StatusOnlyForward`: the action property `StatusForward`. It needs how far the row and
  the last event are at each stage of caller and worker: a worker announces an outcome of
  a task that was announced as queued because the caller announces it before it sends it.
- `NoResultTwice`: with any number of turns at once, no result is told again that only one
  reader had unmarked, as long as the marks are stored, and no running task is marked
  (`ToldAgainOnlyIfShared`). A turn reads finished rows only (`ReadIsFinished`). A result
  that is not `shared` is held by one turn at most, what that turn holds was not told
  before, and before it tells it has marked it (`ReadAlone`), across crashes and models
  that fail. Why a row is read by one turn only is not said by a lock, there is none: it is
  what `shared` records, and disagreement 23 is what the code does where it fails.

`OutboundDelivery_proofs` holds two theorems of `OutboundDelivery` for all channels and
messages, every capacity, any number of retries and of reloads.

- `OneSenderPerChannel`: no queue outgrows its capacity and one worker per channel at most
  has a message in work (`Consistent`). The type invariant alone is not inductive: a worker
  that backs off must have an attempt left. Across reloads the reason is `LiveIsCurrent`:
  live workers belong to the present manager, and none lives between the end of StopAll and
  the next start; `Gates` and `Fresh` say how far the goroutine that reloads has come and
  that a manager not yet started has nothing.
- `DeliveredInOrder`: a channel gets its messages in the order of publication, none twice
  (`SentInOrder`). What is sent, in work, queued and held by the dispatcher follow one
  another (`Lane`), the bus is the tail of what was published (`BusIsTail`), and nothing
  outside the bus is newer than what the bus has given away (`Passed`). Only live workers
  have a lane: what a stopped manager has left in its queues is never sent, which is why
  order survives although messages do not.

`ApprovalFlow_proofs` holds three theorems of `ApprovalFlow` for all calls, whichever of
their tools ask the shield themselves, and any number of answers, cancelled turns and calls
of Close; assumed are only the types of the constants (`BoundsAssumption`):
`MapsAgree` (`Consistent`), `OnlyApproved` (`ExecutedWasApproved`) and `FirstVerdict` (the
action property `VerdictStands`). One invariant carries the three (`OneStory`): status,
verdict and channel of a request never contradict one another. That a pending request has
an empty channel is what makes a second answer, or one after the timer, harmless; that
`true` in a channel stands for an approval is what makes the waiter's read sufficient,
though it looks at neither the status nor the time. For `OnlyApproved` the call's own story
is added (`CallStory`): a tool was started only past the switch, and one that runs after a
wait runs on the verdict of its own request. The theorem promises nothing of a call of
which the switch was told `require_approval`: nobody is asked (disagreement 4).

`Session_proofs` holds the theorems about one session: its files (`JSONLStore`) and its
turns (`SessionTurns`). Both read a sequence in a loop, and what a loop returns for every
sequence needs induction. The library's induction theorems take a predicate as a parameter,
which the provers here cannot instantiate; but a well-founded relation has a minimal
element in every nonempty *set* (`WFMin`), and from that follow `AllNumbers` and
`AllSequences`: a set that contains 0 (the empty sequence) and with n (with s) also n + 1
(every Append(s, x)) contains everything. Each induction is then over the set of the
sequences of which the claim holds. For this the loops are recursive functions in the
models, not SelectSeq or a fold, whose recursion the provers cannot open.

Of the files, for all numbers of messages, of torn appends and of operations cut short, and
any arguments of TruncateHistory; assumed are only the types of the constants
(`StoreAssumption`).

- `DamageIsBoundedHolds`: t torn appends cost at most t + 1 acknowledged messages
  (`DamageIsBounded`). Not inductive: how much a truncation costs depends on the damaged
  lines that it counts as messages, and these stay in the file. The invariant `StoreInv`
  says that the messages of the file ascend (`FileOK`); what a rewrite in progress is about
  to leave is what a reader sees, and its old lines are still there to be read
  (`RewriteOK`); what is due was said (`DueOK`); there are at most as many *wounds*,
  damaged lines and an unfinished one, as torn appends (`WoundsOK`); and messages that are
  missing, with an unfinished line counted as one more, stay within the bound (`DamageOK`).
  For a truncation to the last k the argument is one of counting (`TopIsSmall`): at most k
  messages are due afterwards, and the last k lines hold k less the wounds among them, so
  that it costs at most as many as there are wounds whatever was missing before. Neither
  cost is added to the other, which is why two torn appends cost three messages and not four.
- `FilesImplementStore`: the refinement of `SessionStore`, for the mapping that reads the
  file up to the skip offset (`hidden`) and behind it (`history`), with one lemma per write.
  A torn append, and an append that joins a torn one, map to `Tear` and `AddJoined`; a
  rewrite takes effect for a reader with its second write, or as `Reappear` if that is cut.

Of the turns, for all turns, whichever of them are of users, of the system or direct, every
threshold and any number of rounds, calls, retries and faults; assumed is, besides the types
of the constants, that the summariser's name is no turn (`SessionTurnsAssumption`).

- `OrderSurvives`: the messages of a turn stay in order and once each (`Consistent`), even
  when the summariser or an emergency compression writes a history back that was read
  earlier. What makes it inductive is that every copy has the property, wherever it is
  held (`Kept`): the history, the summariser's snapshot, and what a turn halves or
  rebuilds consist of messages that were said, in the order of their rank. A new message
  may go to the end because of the turn's progress: all that the turn has said before
  ranks below it (`ProgressOf`, `NextRank`). That the number of rounds stays below its
  bound follows from the messages themselves: every round counted was saved, so rounds
  map one to one into the calls that were said (`RoundsOf`, `RoundLeft`).
- `NothingLost`: what was said since the last /clear is in the history or told of by the
  summary, but for six named reasons (`NothingForgotten`). The invariant says what a
  compression in flight still knows (`Told`) of what nobody has cleared (`Uncleared`): a
  compactor that has cut the history holds what it will tell, and
  a summary that is about to be truncated to is of the history as it stands. And the
  compactor tells once (`OneTelling`): a second telling would replace the first, and by
  then it finds a summary and counts as lossy. A /clear that meets a compression leaves it
  nothing to account for, since all it holds is cleared (`AllCleared`); the next message is
  saved while the old copy is held, and is `late`. A summary written between the two calls
  of a /clear is the one that its second call throws away although it may tell of more.
- `AnsweredOnceOnly`: a user whose turn shared the message tool with nobody gets one reply
  (the action property `RepliedOnce`). The flag is one for all turns; for such a turn it
  says whether that turn has sent a message (`FlagInv`), because every use by another
  marks the turns that are active then.
- `SanitizeSound`: whatever history it is given, `sanitizeHistoryForProvider` returns one in
  which every call has all its results, and all that users and model have said. That holds
  without any condition on the history because the second pass looks at the results that
  follow a call as they stand. The converse, no result without its call, it promises only
  if messages are in order and no result stands behind another turn's or round's call
  (`Tidy`): the first pass decides a result by whether some call is open before it, not by
  its id. The induction is over the loop's positions (`FirstPassRules` says of the set of
  kept positions what `Admits` says of each message), `Places` relates these positions to
  those in the result, and `OwnResults` is where the order is needed: a kept call whose
  first result is kept has all the results of its round behind it, and only those.
- `PromptsSound`: every prompt that is sent is sound (`PromptIsSound`). While a turn saves
  its results its prompt is not, so `PromptInv` says how far it is (`Opened`: the call, and
  its first results, behind a prompt that is sound). After a time-out the same prompt is
  sent; after a refusal it is rebuilt from a history that somebody has shortened, so the
  history and every copy of it (`SessionFine`) must be tidy and end where the turn stands
  (`EndOf`): with the question as long as there was no tool round, and with the call and
  the results saved so far, or results only, while a round is saved. A compression that
  halves the history may leave results at its front behind the one message it keeps, which
  `Tidy` allows and the first pass removes.
  This theorem corrected its property: it was stated, and checked with summaries that leave
  two messages and one tool round, for all turns that run alone. The proof failed at
  `maybeCompact`, whose goroutine writes back a copy in which the call of the round in
  progress is missing; with four messages left and two rounds TLC shows the prompt that
  comes of it (disagreement 14). Now the property excludes messages saved meanwhile.

`Services_proofs` holds the theorems of the modules that share the run `services`, for
every value of their constants.

- `Earned`: a cooldown of `ProviderFallback` lasts no longer than the present counters
  stand for (`CooldownIsEarned`). The invariant `CooldownInv` adds the types of the entries
  and that both cooldowns end within their caps after the last error (`Bounded`), because
  the reset of the counters is what could leave a cooldown standing that nobody has earned.
- `OnlyExtends`: the action property `CooldownOnlyExtends`. A reset happens only after a
  window without errors, and by `Bounded` every cooldown is over by then. That is where
  the assumption that no cap is above the failure window is needed
  (`ProviderFallbackAssumption`, true of the constants in cooldown.go): with a longer one
  the first failure after the reset would shorten the wait.
- `SoundIsAsked`: a chain gives up only when every candidate's provider has a model that
  fails (`SoundProviderIsAsked`). The marks are shared by all calls: the invariant
  `AskedInv` is that a mark, and a candidate that was passed over, stand for a provider
  that is not sound, whichever call made the mark.
- `KnownGateway`: the launcher's struct holds the one gateway that lives (`GatewayIsKnown`).
  The goroutine that waits for an earlier child writes to the struct only after that
  child's end (`WaitFollowsEnd`), and a restart that has let go of the mutex finds the
  child it stopped still in the struct (`RestartOwns`).
- `Released`: no turn waits for ever for a chat client (`BroadcastIsReleased`). A client
  that is no longer registered is done (`ReplacedIsDone`), and a pump ends only after its
  own client is (`PumpEndsDone`), though it removes whichever client there is.
- `OrderlyClose`: no tool call that was counted in time loses its session, and no session
  outlives Close (`CloseIsOrderly`). Such a call holds up the closer (`EarlyIsWaitedFor`),
  and the manager is closed by one goroutine, after loading (`LoadedBeforeClosed`).
- `UnlockedStaysUsable`: what was offered is refused, and what was unlocked is missing from
  the next offer, only when another turn has counted down in between (`UnlockedIsUsable`).
  Until then the countdown of every tool a turn was offered, or has unlocked, is above what
  that turn's own tick will take.
- `WorkerIsWoken` and `AnsweredOnce`: the bot's worker never waits on a task that nobody
  will cancel (`SendIsWoken`), and a question has one answer (`OneAnswerEach`). A task that
  has left the maps was canceled before; an unfinished one is found by refreshes, `Send` and
  the cleanup alike; a closed stream is no longer among those that refreshes find.
- `FilesKeepToRefs`: refs resolve to files that exist (`FilesFollowRefs`). The files are
  deleted outside the lock: a file that is about to be deleted is one of which a ref has
  left the maps, and a file whose only ref stands, or that `Store` is about to register for
  the first time, is on disk.
- `TakenOnce`: no placeholder is edited twice and no typing indicator is forgotten
  (`MarksAreTakenOnce`). A placeholder is recorded once, at the end of its message's
  handling, and its entry is gone before it is edited.
- `LimitAndCountExact`: as long as no two calls of the sub-agents' manager have overlapped,
  the cap on active agents and the counters of results are exact (`ExactUnlessRaced`). The
  code reads a row, decides, and writes it, without a lock over the three; the invariant
  says that while nobody has overlapped at most one caller is inside the manager
  (`OneInside`) and what it has read is still so (`ReadIsStillSo`). One lemma
  (`RowWriteStep`) does every write to a row. The rows in the order of their last activity
  are a list: that taking one out leaves the others, each once (`RecentIsRows`), rests on
  the first position that satisfies a condition, whose existence is proved by a least
  counterexample.
- `StaysDismissed`: the action property `DismissedIsFinal`. No call in flight can bring a
  deleted row back (`DeletedIsGone`), because every write after the deletion finds no row;
  and without Suspend nothing is ever revived (`NeverSuspended`), so nothing can write an
  old status over a dismissal.

`DeviceProvisioning_proofs` holds one theorem of `DeviceProvisioning` for all requests and
recoveries at once, every threshold and any number of faults, outages and restarts:
`SettingsAgree` (`Consistent`). Neither of its halves is inductive.

- That a recovery lock in the settings has an owner rests on the mutex: it is held by the
  one recovery that is past waiting (`MutexHeld`), only such a recovery has a pending write
  that takes the lock (`Listed`), and the owner is never about to return (`LockOwned`): what
  its deferred function decides to write is the only thing left then.
- Mode, flags and interface disagree while an operation writes its keys one by one. The
  invariant therefore speaks of what the settings will be when the pending writes are made
  (`Will`, of any list that names no key twice), and making the first of them changes
  nothing of that (`StoreKeepsWill`). Without overlaps and restarts one operation at most
  has more to do than to return (`InOrder`), and by its stage it either keeps the agreement
  it began with or is on its way to rewrite all of it (`Underway`): that a hotspot which
  fails sets the mode to error, and one that starts sets both keys, is why nothing need be
  known at the stage `hotspot`.

Only model-checked: the liveness properties, because fairness and ENABLED are out of reach
of the prover (`ImplementsSerialExecutor` and `ImplementsSessionStore` are safety and are
proved). Every invariant that a run checks is stated by a theorem.

## 7. Disagreements met

The first five are each shown by a run that finds the violation.

1. `delegation_integration.go:183`: results are marked as delivered before the model
   call that would tell them; if it fails they are lost (`DeliveredIsTold`).
2. `gateway/helpers.go:455`: the context given to the restarted channel manager is
   cancelled when the restart function returns; after any configuration reload no reply
   leaves (`ReloadedDelivers`).
3. `loop.go:1699` says of the countdown of unlocked tools "This is safe because
   processMessage is sequential per agent"; the web chat, cron jobs and the heartbeat run
   turns of that agent at once, and one turn's round takes away a tool that another has
   just been offered (`OfferedIsCallable`).
4. `loop.go:1510`: the switch on the shield's decision has no case for `require_approval`;
   the tool runs at line 1596 without a request, while pkg/shield/docs/README.md:35 says
   "`require_approval` with user interaction" (`RequireApprovalAsks`). Only the tools that
   look at the shield themselves ask.
5. `loop.go:2431`: a /clear stops no compression in flight. One that has read the history
   before stores it as the summary afterwards, and the next prompt tells the model what was
   cleared; the user was told "Chat history cleared!" (`ClearForgets`). With the compactor
   no race is needed: its tiers survive a /clear, and a prompt takes them when the session
   has no summary (line 996).

The rest is part of the models, which the properties say by an exception or a condition.

6. `loop.go:1525`: a call that is to be blocked is put to the user, and runs if approved;
   pkg/shield/types.go:11 says "ActionBlock prevents the action from executing"
   (`ExecutedWasApproved` says of such a call what the code does).
7. `queue.go:70`: `Submit` pushes after it has released the lock. The goroutine may find
   the channel empty and stop in between, and the task waits until the next Submit.
8. `loop.go:1557`: the goroutine that waits for an approval is the one that would read
   it from the chat, so an answer there is handled after the request has expired.
9. `cron/service.go:161`: the gateway saves its jobs every second over what the
   `moonhub cron` commands have written.
10. `lifecycle.go:30`: overlapping calls of `Create` exceed the cap on active sub-agents
   ("Cap on active sub-agents per delegation partition / user",
   pkg/delegation/docs/CONFIG.md:34); `ExactUnlessRaced` excludes them.
11. `jsonl.go:55` calls the store "append-only, which is both fast and crash-safe", but
   after a torn append the next, acknowledged message joins the unfinished line and is
   never read; `SessionStore!AddJoined` and `DamageIsBounded` describe the damage.
12. `jsonl.go:446` says that "the next Compact or TruncateHistory corrects" a compaction
   that was cut short; Compact returns at once because the skip offset is already zero
   (`Compact` is enabled only with a skip), and TruncateHistory helps only when it cuts.
13. `loop.go:1886` takes the last message for the "user's trigger"; in a turn that has
   called tools it is a result, the question may be in the half that is dropped, and the
   retry goes without it (the exception in `PromptIsSound`).
14. `loop.go:1843` and `loop.go:2175`: a summary of a copy replaces the history, or
    truncates whatever it is by then; messages saved meanwhile are neither in the history
    nor in the summary (`late` in `NothingForgotten`). If one of them is the call of a turn
    in progress, the results it then saves stand behind an older call, and the next prompts
    carry results that nobody asked for (`late` in `PromptIsSound`).
15. `message.go:96`: one flag per agent; a heartbeat or direct turn that uses the message
    tool makes the inbox turn beside it skip its own answer (`mixed`).
16. `mcp/manager.go:488` says that after `closed` is set "no new CallTool can start"; a
    call that has checked it and is counted after the wait loses its session
    (`CloseIsOrderly` is about calls counted before the flag). The servers run in the
    context of whoever made the first request (`web/backend/api/lan.go`), and die with it.
17. `chat_ws.go:83`: the reader of a connection that was replaced removes the new one from
    the hub; the relay's bridge does the same with agents (`cloud/relay/bridge.go:79`).
18. `wecom/aibot.go:513`: the comment says a cancel "interrupts the agent goroutine",
    which never looks at the task's context. A reply goes to the earliest unfinished task
    of the chat, whichever question it answers.
19. `channels/manager.go:725`: the janitor deletes the entry that is there by then, not the
    one it found too old.
20. `media/store.go`: files that the `send_file` tool registers are files of the
    workspace, and are deleted with their references.
21. `provisioning/manager.go:575`: a crash during a recovery leaves its lock in the file;
    every later recovery is refused until a factory reset.
22. `tools/subagent.go:48`: the manager of spawned sub-agents starts with an empty registry
    and the gateway gives it no other, while its prompt says "You have access to tools".
23. `delegation_integration.go:169`: results are read in one query and marked one by one
    (line 183), without a lock over the two; turns that overlap read the same rows and both
    tell them (`shared` in `ToldAgainOnlyIfShared`).

Hazards that no property covers, because what the code does there is plain, or beyond the
data a model keeps: the stopped channel manager that stays after a failed restart
(`gateway/helpers.go:473`: the next reload closes a closed channel), the counter that
only workers increment (`background.go:74`), a task of an agent that is dismissed while
the task is in the queue (`tools_background.go:170`), `at_seconds` below one
(`tools/cron.go:157`: stored, never run), a line above 10 MB (`jsonl.go:212`: the session
cannot be read any more), the session files reopened by a reload while old turns go on
(`loop.go:480`), and the queue objects that survive a Clear (`queue.go:175`; in the model,
but no production code calls Clear).

## 8. Not modelled

- Pairing and tokens: every operation is one critical section that checks all it needs;
  tests reach all of it. The relay's bridge lets two goroutines read one WebSocket
  connection, which the library leaves undefined. Inter-agent messages: an event bus, a
  ring of recent events and a blackboard in memory, each change under one mutex.
- Of the turn: the choice of a model (`SelectTier`), the commands besides /clear that
  change settings and not the session, a session key that a result of
  background work brings itself, another chat as the target of the message tool, learning,
  and single messages above half the context window. When the token estimate triggers a
  summary is a free choice wherever the code's threshold on messages is not reached.
- Of the shield: how policies match a call to an action.
- Of the tools: `RunToolLoop` of spawned sub-agents, which in the gateway have no tools to
  call, the cache of the BM25 search, and what single tools do to files and processes.
- Within other modelled components: the media path of the channel manager, what a cron
  job's handler does, metrics, logging and prompts, log buffers of the launcher, the
  content of replies. Reasons are in the notes of `PROJECT.json`.
- Parsing, formatting, scoring and text compression: examples test them better, and TLC
  would only repeat the code.
- Platform APIs, language models, NetworkManager, SQLite and the file system are
  external: each is a step with a choice of outcomes.
- Cryptography of the agent network, and the user interfaces.

## 9. Plan

1. Two `JSONLStore` objects on one pair of files, as a reload leaves them
   (loop.go:480), and `SessionTurns` over them.
2. Approvals and hidden tools in one round: `ApprovalFlow` composed with `ToolDiscovery`.
3. The transport's reconnects (`pkg/transport`), friend requests (`pkg/friends`).
4. The turns' use of the store: `SessionTurns` over `JSONLStore`, with the torn lines that
   a prompt then has to be built from.
