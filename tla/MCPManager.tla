------------------------------ MODULE MCPManager ------------------------------
(***************************************************************************)
(* The MCP client manager (pkg/mcp/manager.go) in the agent loop that      *)
(* loads it once and closes it at the end (pkg/agent/loop_mcp.go).         *)
(* CallTool checks closed, checks again under the read lock, counts itself *)
(* in the wait group and calls; Close sets closed without the lock, waits  *)
(* for the calls, and closes the sessions under the lock.                  *)
(*                                                                         *)
(* A server that a session talks to ends with the context it was started   *)
(* in: that of whichever turn came first.  Transports, environments and    *)
(* the tools themselves are left out, so is the tool registry.             *)
(***************************************************************************)
EXTENDS Naturals, FiniteSets

CONSTANTS
  Servers,       \* configured and enabled
  ToolCalls,     \* tool calls that run at once
  MaxToolCalls   \* bound: tool calls

ASSUME MCPAssumption == MaxToolCalls \in Nat

VARIABLES
  mcpInit,     \* initOnce: "no", "loading", "registering", "done"
  manager,     \* mcpRuntime.manager is set
  starter,     \* whose context the servers run in: of Run or of a direct turn
  session,     \* server -> "none", "connecting", "failed", "open", "dead", "closed"
  closed,
  toolCall,    \* [at, server, early]: early when it was counted before closed
  toolCalls,
  closer       \* Close: "no", "wait", "lock", "returned"

mcpVars == <<mcpInit, manager, starter, session, closed, toolCall, toolCalls, closer>>

NoToolCall(s) == [at |-> "idle", server |-> s, early |-> FALSE]

MCPInit ==
  /\ mcpInit = "no" /\ manager = FALSE /\ starter = "none"
  /\ session = [s \in Servers |-> "none"]
  /\ closed = FALSE
  /\ toolCall = [c \in ToolCalls |-> NoToolCall(CHOOSE s \in Servers : TRUE)]
  /\ toolCalls = 0
  /\ closer = "no"

\* All servers are connected to at once.
EnsureInitialized(who) ==
  /\ mcpInit = "no"
  /\ mcpInit' = "loading" /\ starter' = who
  /\ session' = [s \in Servers |-> "connecting"]
  /\ UNCHANGED <<manager, closed, toolCall, toolCalls, closer>>

ConnectServer(s) ==
  /\ session[s] = "connecting"
  /\ \E end \in {"open", "failed"} : session' = [session EXCEPT ![s] = end]
  /\ UNCHANGED <<mcpInit, manager, starter, closed, toolCall, toolCalls, closer>>

\* The turn that started the servers ends, and its context with it.
StarterEnds ==
  /\ starter = "direct" /\ mcpInit = "done"
  /\ starter' = "none"
  /\ session' = [s \in Servers |-> IF session[s] = "open" THEN "dead" ELSE session[s]]
  /\ UNCHANGED <<mcpInit, manager, closed, toolCall, toolCalls, closer>>

Connected == {s \in Servers : session[s] \in {"open", "dead"}}

\* Close sets closed first.
CloseManager == closed' = TRUE /\ closer' = IF closed THEN closer ELSE "wait"

LoadEnds ==
  /\ mcpInit = "loading" /\ \A s \in Servers : session[s] # "connecting"
  /\ IF Connected = {} THEN mcpInit' = "done" /\ CloseManager
     ELSE mcpInit' = "registering" /\ UNCHANGED <<closed, closer>>
  /\ UNCHANGED <<manager, starter, session, toolCall, toolCalls>>

\* The tools are registered; a search method is missing.
Misconfigured ==
  /\ mcpInit = "registering"
  /\ mcpInit' = "done" /\ CloseManager
  /\ UNCHANGED <<manager, starter, session, toolCall, toolCalls>>

SetManager ==
  /\ mcpInit = "registering"
  /\ mcpInit' = "done" /\ manager' = TRUE
  /\ UNCHANGED <<starter, session, closed, toolCall, toolCalls, closer>>

\* AgentLoop.Close finds the manager only when it was set.
LoopCloses ==
  /\ manager /\ manager' = FALSE
  /\ CloseManager
  /\ UNCHANGED <<mcpInit, starter, session, toolCall, toolCalls>>

-----------------------------------------------------------------------------
CallBecomes(c, at, s, early) ==
  toolCall' = [toolCall EXCEPT ![c] = [at |-> at, server |-> s, early |-> early]]

CallTool(c, s) ==
  /\ toolCall[c].at = "idle" /\ mcpInit \in {"registering", "done"} /\ toolCalls < MaxToolCalls
  /\ toolCalls' = toolCalls + 1
  /\ CallBecomes(c, IF closed THEN "idle" ELSE "recheck", s, FALSE)
  /\ UNCHANGED <<mcpInit, manager, starter, session, closed, closer>>

\* The read lock is held from here until the call is counted.
Recheck(c) ==
  /\ toolCall[c].at = "recheck"
  /\ CallBecomes(c, IF closed THEN "idle" ELSE "locked", toolCall[c].server, FALSE)
  /\ UNCHANGED <<mcpInit, manager, starter, session, closed, toolCalls, closer>>

Count(c) ==
  /\ toolCall[c].at = "locked"
  /\ CallBecomes(c, IF toolCall[c].server \in Connected THEN "calling" ELSE "idle",
                 toolCall[c].server, ~closed)
  /\ UNCHANGED <<mcpInit, manager, starter, session, closed, toolCalls, closer>>

ToolReturns(c) ==
  /\ toolCall[c].at = "calling"
  /\ CallBecomes(c, "idle", toolCall[c].server, FALSE)
  /\ UNCHANGED <<mcpInit, manager, starter, session, closed, toolCalls, closer>>

\* Mutant of WaitForCalls: nobody is waited for.
WaitForNoCalls ==
  /\ closer = "wait"
  /\ closer' = "lock"
  /\ UNCHANGED <<mcpInit, manager, starter, session, closed, toolCall, toolCalls>>

WaitForCalls ==
  /\ closer = "wait" /\ \A c \in ToolCalls : toolCall[c].at # "calling"
  /\ closer' = "lock"
  /\ UNCHANGED <<mcpInit, manager, starter, session, closed, toolCall, toolCalls>>

CloseSessions ==
  /\ closer = "lock" /\ \A c \in ToolCalls : toolCall[c].at # "locked"
  /\ closer' = "returned"
  /\ session' = [s \in Servers |-> IF s \in Connected THEN "closed" ELSE session[s]]
  /\ UNCHANGED <<mcpInit, manager, starter, closed, toolCall, toolCalls>>

MCPNext ==
  \/ \E who \in {"run", "direct"} : EnsureInitialized(who)
  \/ \E s \in Servers : ConnectServer(s)
  \/ StarterEnds \/ LoadEnds \/ Misconfigured \/ SetManager \/ LoopCloses
  \/ \E c \in ToolCalls : \/ \E s \in Servers : CallTool(c, s)
                          \/ Recheck(c) \/ Count(c) \/ ToolReturns(c)
  \/ WaitForCalls \/ CloseSessions

MCPSpec == MCPInit /\ [][MCPNext]_mcpVars

-----------------------------------------------------------------------------
\* Close lets the calls that were counted before it finish on their session,
\* and when it has returned no session of the manager is left.  (A call that
\* is counted between the two may still find its session closed under it.)
CloseIsOrderly ==
  /\ \A c \in ToolCalls : toolCall[c].at = "calling" /\ toolCall[c].early =>
       session[toolCall[c].server] # "closed"
  /\ closer = "returned" => \A s \in Servers : session[s] \notin {"connecting", "open", "dead"}

=============================================================================
