---------------------------- MODULE GatewayProcess ----------------------------
(***************************************************************************)
(* The launcher's handlers that start, stop and restart the gateway as a   *)
(* child process (web/backend/api/gateway.go): the global struct under one *)
(* mutex, the goroutine that waits for each child, the one that probes it  *)
(* until it is healthy, and status requests with their cached probe.       *)
(*                                                                         *)
(* A child is alive until it exits, by itself or after a signal, and is    *)
(* seen as alive until its Wait has returned.  Logs, log cursors, models   *)
(* and the validation of the configuration are left out.                   *)
(***************************************************************************)
EXTENDS Naturals, FiniteSets

CONSTANTS
  MaxChildren,      \* bound: children started
  StatusRequests,   \* requests for the status that run at once
  MaxStatus         \* bound: status requests

ASSUME GatewayProcessAssumption == {MaxChildren, MaxStatus} \subseteq Nat

VARIABLES
  gateway,     \* [cmd, status, health, fresh]: the struct; cmd 0 is nil
  gatewayMu,   \* "free", or "restart" or "probe" who hold it over a wait
  previous,    \* previousCmd of the restart under way
  children,    \* how many were started
  child,       \* [os, wait, probe] of a child
  request,     \* where a status request is, and the health it has read
  requests,
  probes,      \* goroutines that wait for the mutex to probe the health
  shown        \* the last status broadcast to the clients

gatewayVars == <<gateway, gatewayMu, previous, children, child, request, requests, probes, shown>>

Children == 1 .. MaxChildren
NoChild == [os |-> "none", wait |-> "none", probe |-> "none"]

GatewayInit ==
  /\ gateway = [cmd |-> 0, status |-> "stopped", health |-> "none", fresh |-> FALSE]
  /\ gatewayMu = "free" /\ previous = 0 /\ children = 0
  /\ child = [k \in Children |-> NoChild]
  /\ request = [r \in StatusRequests |-> [at |-> "idle", health |-> "none"]]
  /\ requests = 0 /\ probes = 0
  /\ shown = "stopped"

-----------------------------------------------------------------------------
\* isCmdProcessAliveLocked: signal 0 reaches a process that is not yet reaped.
IsAlive(k) == k # 0 /\ child[k].os \in {"up", "term", "exited"}

\* gateway.cmd is set, and setGatewayRuntimeStatusLocked called; the cached
\* health stays.
GatewayBecomes(cmd, status) ==
  gateway' = [cmd |-> cmd, status |-> status, health |-> gateway.health, fresh |-> gateway.fresh]

ChildBecomes(k, os, wait, probe) ==
  child' = [child EXCEPT ![k] = [os |-> os, wait |-> wait, probe |-> probe]]

\* startGatewayLocked: the child runs, and two goroutines look after it.
StartGateway(initial) ==
  /\ children < MaxChildren
  /\ children' = children + 1
  /\ ChildBecomes(children + 1, "up", "wait", "sleep")
  /\ GatewayBecomes(children + 1, initial)
  /\ shown' = initial

\* handleGatewayStart and TryAutoStartGateway.
Start ==
  /\ gatewayMu = "free" /\ ~IsAlive(gateway.cmd)
  /\ StartGateway("starting")
  /\ UNCHANGED <<gatewayMu, previous, request, requests, probes>>

\* A start that is refused or fails has forgotten the dead child.
StartFails ==
  /\ gatewayMu = "free" /\ gateway.cmd # 0 /\ ~IsAlive(gateway.cmd)
  /\ GatewayBecomes(0, "stopped")
  /\ UNCHANGED <<gatewayMu, previous, children, child, request, requests, probes, shown>>

\* SIGTERM, or Kill.
Signal(k) == ChildBecomes(k, "term", child[k].wait, child[k].probe)

\* handleGatewayStop only sends the signal.
Stop ==
  /\ gatewayMu = "free" /\ gateway.cmd # 0 /\ child[gateway.cmd].os = "up"
  /\ Signal(gateway.cmd)
  /\ UNCHANGED <<gateway, gatewayMu, previous, children, request, requests, probes, shown>>

\* handleGatewayRestart holds the mutex until the new child runs.
RestartBegins ==
  /\ gatewayMu = "free"
  /\ gatewayMu' = "restart" /\ previous' = gateway.cmd
  /\ GatewayBecomes(gateway.cmd, "restarting")
  /\ IF gateway.cmd # 0 /\ child[gateway.cmd].os = "up" THEN Signal(gateway.cmd)
     ELSE UNCHANGED child
  /\ shown' = "restarting"
  /\ UNCHANGED <<children, request, requests, probes>>

RestartStarts ==
  /\ gatewayMu = "restart" /\ ~IsAlive(previous)
  /\ StartGateway("restarting")
  /\ gatewayMu' = "free" /\ previous' = 0
  /\ UNCHANGED <<request, requests, probes>>

RestartFails ==
  /\ gatewayMu = "restart" /\ ~IsAlive(previous)
  /\ GatewayBecomes(0, "error")
  /\ gatewayMu' = "free" /\ previous' = 0
  /\ UNCHANGED <<children, child, request, requests, probes, shown>>

\* The child survives both signals for eight seconds.
RestartGivesUp ==
  /\ gatewayMu = "restart" /\ IsAlive(previous)
  /\ GatewayBecomes(gateway.cmd, "running")
  /\ gatewayMu' = "free" /\ previous' = 0
  /\ UNCHANGED <<children, child, request, requests, probes, shown>>

-----------------------------------------------------------------------------
ChildExits(k) ==
  /\ child[k].os \in {"up", "term"}
  /\ ChildBecomes(k, "exited", child[k].wait, child[k].probe)
  /\ UNCHANGED <<gateway, gatewayMu, previous, children, request, requests, probes, shown>>

\* cmd.Wait returns.
Reap(k) ==
  /\ child[k].os = "exited"
  /\ ChildBecomes(k, "gone", "lock", child[k].probe)
  /\ UNCHANGED <<gateway, gatewayMu, previous, children, request, requests, probes, shown>>

\* Mutant of WaitClears: the struct is cleared for whatever child is in it.
WaitClearsAny(k) ==
  /\ child[k].wait = "lock" /\ gatewayMu = "free"
  /\ GatewayBecomes(0, "stopped")
  /\ ChildBecomes(k, child[k].os, "broadcast", child[k].probe)
  /\ UNCHANGED <<gatewayMu, previous, children, request, requests, probes, shown>>

\* The goroutine of a child clears the struct only if it is still about it.
WaitClears(k) ==
  /\ child[k].wait = "lock" /\ gatewayMu = "free"
  /\ \/ /\ gateway.cmd = k /\ gateway.status # "restarting"
        /\ GatewayBecomes(0, "stopped")
        /\ ChildBecomes(k, child[k].os, "broadcast", child[k].probe)
     \/ /\ gateway.cmd = k /\ gateway.status = "restarting"
        /\ GatewayBecomes(0, "restarting")
        /\ ChildBecomes(k, child[k].os, "done", child[k].probe)
     \/ /\ gateway.cmd # k
        /\ ChildBecomes(k, child[k].os, "done", child[k].probe) /\ UNCHANGED gateway
  /\ UNCHANGED <<gatewayMu, previous, children, request, requests, probes, shown>>

BroadcastStopped(k) ==
  /\ child[k].wait = "broadcast"
  /\ ChildBecomes(k, child[k].os, "done", child[k].probe)
  /\ shown' = "stopped"
  /\ UNCHANGED <<gateway, gatewayMu, previous, children, request, requests, probes>>

\* The health endpoint answers while any child has its port.
PortAnswers == \E k \in Children : child[k].os \in {"up", "term"}

\* A try of the probing goroutine; the last one may find nothing.
ProbeTry(k) ==
  /\ child[k].probe = "sleep" /\ gatewayMu = "free"
  /\ \/ gateway.cmd = k /\ PortAnswers /\ ChildBecomes(k, child[k].os, child[k].wait, "found")
     \/ ChildBecomes(k, child[k].os, child[k].wait, "done")
  /\ UNCHANGED <<gateway, gatewayMu, previous, children, request, requests, probes, shown>>

ProbeSets(k) ==
  /\ child[k].probe = "found" /\ gatewayMu = "free"
  /\ IF gateway.cmd = k THEN GatewayBecomes(k, "running") ELSE UNCHANGED gateway
  /\ ChildBecomes(k, child[k].os, child[k].wait, "broadcast")
  /\ UNCHANGED <<gatewayMu, previous, children, request, requests, probes, shown>>

\* Without the mutex, and whoever the gateway is by now.
BroadcastRunning(k) ==
  /\ child[k].probe = "broadcast"
  /\ ChildBecomes(k, child[k].os, child[k].wait, "done")
  /\ shown' = "running"
  /\ UNCHANGED <<gateway, gatewayMu, previous, children, request, requests, probes>>

-----------------------------------------------------------------------------
\* gatewayStatusData looks at the process, then at the cached health, then
\* sets the status, each under the mutex of its own.
StatusLooks(r) ==
  /\ request[r].at = "idle" /\ requests < MaxStatus /\ gatewayMu = "free"
  /\ requests' = requests + 1
  /\ request' = [request EXCEPT ![r].at = IF IsAlive(gateway.cmd) THEN "health" ELSE "idle"]
  /\ UNCHANGED <<gateway, gatewayMu, previous, children, child, probes, shown>>

\* A stale health is used once more, while a goroutine gets the next one.
StatusReads(r) ==
  /\ request[r].at = "health" /\ gatewayMu = "free"
  /\ request' = [request EXCEPT ![r] = [at |-> "set", health |-> gateway.health]]
  /\ probes' = IF gateway.fresh THEN probes ELSE probes + 1
  /\ UNCHANGED <<gateway, gatewayMu, previous, children, child, requests, shown>>

StatusSets(r) ==
  /\ request[r].at = "set" /\ gatewayMu = "free"
  /\ request' = [request EXCEPT ![r] = [at |-> "idle", health |-> "none"]]
  /\ IF request[r].health \in {"error", "running"}
     THEN GatewayBecomes(gateway.cmd, request[r].health)
     ELSE UNCHANGED gateway
  /\ UNCHANGED <<gatewayMu, previous, children, child, requests, probes, shown>>

\* The goroutine keeps the mutex while it probes.
ProbeLocks ==
  /\ probes > 0 /\ gatewayMu = "free"
  /\ probes' = probes - 1 /\ gatewayMu' = "probe"
  /\ UNCHANGED <<gateway, previous, children, child, request, requests, shown>>

\* probeGatewayHealth; a child that starts or ends may also refuse or answer
\* with an error.
Probe ==
  /\ gatewayMu = "probe"
  /\ \E h \in {"unreachable", "error"} \union (IF PortAnswers THEN {"running"} ELSE {}) :
       gateway' = [cmd |-> gateway.cmd, status |-> gateway.status, health |-> h, fresh |-> TRUE]
  /\ gatewayMu' = "free"
  /\ UNCHANGED <<previous, children, child, request, requests, probes, shown>>

CacheAges ==
  /\ gateway.fresh
  /\ gateway' = [cmd |-> gateway.cmd, status |-> gateway.status, health |-> gateway.health,
                 fresh |-> FALSE]
  /\ UNCHANGED <<gatewayMu, previous, children, child, request, requests, probes, shown>>

ChildStep(k) ==
  \/ ChildExits(k) \/ Reap(k) \/ WaitClears(k) \/ BroadcastStopped(k)
  \/ ProbeTry(k) \/ ProbeSets(k) \/ BroadcastRunning(k)

GatewayNext ==
  \/ Start \/ StartFails \/ Stop
  \/ RestartBegins \/ RestartStarts \/ RestartFails \/ RestartGivesUp
  \/ \E k \in Children : ChildStep(k)
  \/ \E r \in StatusRequests : StatusLooks(r) \/ StatusReads(r) \/ StatusSets(r)
  \/ ProbeLocks \/ Probe \/ CacheAges

GatewaySpec == GatewayInit /\ [][GatewayNext]_gatewayVars

-----------------------------------------------------------------------------
\* However starts, stops and restarts race with exits, with the goroutines of
\* earlier children and with status requests: never two gateways at once, the
\* one that lives is in the struct, where Stop finds it, and the status does
\* not call it stopped.
GatewayIsKnown ==
  /\ gatewayMu \in {"free", "restart", "probe"} /\ children \in 0 .. MaxChildren
  /\ \A k \in Children : IsAlive(k) => gateway.cmd = k /\ gateway.status # "stopped"

=============================================================================
