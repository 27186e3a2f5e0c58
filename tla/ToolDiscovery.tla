----------------------------- MODULE ToolDiscovery -----------------------------
(***************************************************************************)
(* Tools that are found while they are needed: an agent's ToolRegistry     *)
(* (pkg/tools/registry.go) keeps the tools of MCP servers hidden; a search *)
(* (search_tool.go) unlocks those it finds for a number of rounds; and the *)
(* rounds of runLLMIteration (pkg/agent/loop.go) offer what is unlocked to *)
(* the model, execute its calls in parallel and count the rounds down.     *)
(* There is one registry and one countdown for all the agent's turns: the  *)
(* one of the inbox and those that the web chat, cron jobs and the         *)
(* heartbeat start beside it.                                              *)
(*                                                                         *)
(* Core tools are always offered and stand aside, but for the search.  The *)
(* shield and approvals are in ApprovalFlow, messages in SessionTurns.     *)
(***************************************************************************)
EXTENDS Integers, FiniteSets

CONSTANTS
  Loops,      \* goroutines that run a turn of the agent
  Hidden,     \* hidden tools, registered before the first turn
  TTL,        \* rounds a search unlocks a tool for (tools.mcp.discovery.ttl)
  MaxRounds,  \* agent.MaxIterations
  MaxWidth,   \* bound: calls of one round
  Search      \* the search tool

ASSUME DiscoveryAssumption ==
  /\ {TTL, MaxRounds, MaxWidth} \subseteq Nat \ {0}
  /\ Search \notin Hidden

VARIABLES
  ttl,      \* entry.TTL of the hidden tools
  loop,     \* a turn: where it is, its round, what it has offered, calls and results
  found,    \* tools the searches of a turn's last round have unlocked
  crossed   \* turns during whose last round another one counted down

discoveryVars == <<ttl, loop, found, crossed>>

NoLoop == [at |-> "idle", round |-> 0, offered |-> {}, calls |-> <<>>, results |-> <<>>]

DiscoveryInit ==
  /\ ttl = [t \in Hidden |-> 0]
  /\ loop = [l \in Loops |-> NoLoop]
  /\ found = [l \in Loops |-> {}]
  /\ crossed = {}

\* Get finds a hidden tool as long as it has rounds left.
Visible == {t \in Hidden : ttl[t] > 0}

BeginLoop(l) ==
  /\ loop[l].at = "idle"
  /\ loop' = [loop EXCEPT ![l].at = "offer"]
  /\ UNCHANGED <<ttl, found, crossed>>

\* ToProviderDefs at the start of a round.
OfferTools(l) ==
  /\ loop[l].at = "offer"
  /\ loop' = [loop EXCEPT ![l] = [NoLoop EXCEPT !.at = "model", !.round = loop[l].round + 1,
                                                !.offered = Visible]]
  /\ found' = [found EXCEPT ![l] = {}]
  /\ crossed' = crossed \ {l}
  /\ UNCHANGED ttl

\* The model answers with calls, also of tools it remembers from earlier rounds.
ModelCalls(l) ==
  /\ loop[l].at = "model"
  /\ \E n \in 1 .. MaxWidth : \E calls \in [1 .. n -> Hidden \cup {Search}] :
       loop' = [loop EXCEPT ![l].at = "calls", ![l].calls = calls,
                            ![l].results = [i \in 1 .. n |-> "none"]]
  /\ UNCHANGED <<ttl, found, crossed>>

\* The model answers in text, or not at all.
LoopEnds(l) ==
  /\ loop[l].at = "model"
  /\ loop' = [loop EXCEPT ![l] = NoLoop]
  /\ found' = [found EXCEPT ![l] = {}]
  /\ crossed' = crossed \ {l}
  /\ UNCHANGED ttl

-----------------------------------------------------------------------------
\* One goroutine per call, each writes its own result.
Unanswered(l) == {i \in DOMAIN loop[l].calls : loop[l].results[i] = "none"}

\* ExecuteWithContext of a hidden tool: what counts is whether it is there now.
ExecuteTool(l, i) ==
  /\ loop[l].calls[i] \in Hidden
  /\ loop' = [loop EXCEPT ![l].results[i] = IF loop[l].calls[i] \in Visible THEN "ran" ELSE "missing"]
  /\ UNCHANGED <<ttl, found, crossed>>

\* Mutant of PromoteTools: one round too few.
PromoteShort(tools) == ttl' = [t \in Hidden |-> IF t \in tools THEN TTL - 1 ELSE ttl[t]]

\* The tools a search has found get all their rounds, in one critical section.
PromoteTools(tools) == ttl' = [t \in Hidden |-> IF t \in tools THEN TTL ELSE ttl[t]]

ExecuteSearch(l, i) ==
  /\ loop[l].calls[i] = Search
  /\ \E tools \in SUBSET Hidden :
       /\ PromoteTools(tools)
       /\ found' = [found EXCEPT ![l] = @ \cup tools]
  /\ loop' = [loop EXCEPT ![l].results[i] = "ran"]
  /\ UNCHANGED crossed

ExecuteCall(l) ==
  /\ loop[l].at = "calls"
  /\ \E i \in Unanswered(l) : ExecuteTool(l, i) \/ ExecuteSearch(l, i)

\* After wg.Wait the results are saved and the rounds counted down, for all
\* turns; the last round ends the turn.
TickTTL(l) ==
  /\ loop[l].at = "calls"
  /\ Unanswered(l) = {}
  /\ ttl' = [t \in Hidden |-> IF ttl[t] > 0 THEN ttl[t] - 1 ELSE 0]
  /\ IF loop[l].round < MaxRounds
     THEN /\ loop' = [loop EXCEPT ![l].at = "offer"]
          /\ crossed' = crossed \cup {k \in Loops \ {l} : loop[k].at # "idle"}
          /\ UNCHANGED found
     ELSE /\ loop' = [loop EXCEPT ![l] = NoLoop]
          /\ crossed' = (crossed \cup {k \in Loops : loop[k].at # "idle"}) \ {l}
          /\ found' = [found EXCEPT ![l] = {}]

LoopStep(l) == BeginLoop(l) \/ OfferTools(l) \/ ModelCalls(l) \/ LoopEnds(l) \/ ExecuteCall(l) \/ TickTTL(l)

DiscoveryNext == \E l \in Loops : LoopStep(l)

DiscoverySpec == DiscoveryInit /\ [][DiscoveryNext]_discoveryVars

-----------------------------------------------------------------------------
DiscoveryTypeOK ==
  /\ ttl \in [Hidden -> 0 .. TTL]
  /\ \A l \in Loops :
       /\ loop[l].at \in {"idle", "offer", "model", "calls"} /\ loop[l].round \in 0 .. MaxRounds
       /\ loop[l].offered \subseteq Hidden
       /\ DOMAIN loop[l].results = DOMAIN loop[l].calls
  /\ crossed \subseteq Loops

\* A call of this turn that the registry refuses although the tool was offered.
Refused(l) ==
  \E i \in DOMAIN loop[l].calls :
    loop[l].calls[i] \in loop[l].offered /\ loop[l].results[i] = "missing"

\* "This is safe because processMessage is sequential per agent"
\* (pkg/agent/loop.go, line 1699): what ToProviderDefs offered to the model, Get
\* finds when the model calls it.
OfferedIsCallable == \A l \in Loops : ~Refused(l)

\* What was offered is refused, and what a search unlocked is missing from the
\* next round's offer, "In your next response, you can call them directly"
\* (pkg/tools/search_tool.go, line 209), only when another turn's rounds were
\* counted in between, whatever else the turns search and call at once; and no
\* sequence of searches and rounds leaves a tool with more rounds than TTL.
UnlockedIsUsable ==
  /\ DiscoveryTypeOK
  /\ \A l \in Loops \ crossed :
       /\ ~Refused(l)
       /\ loop[l].at = "offer" /\ TTL > 1 => found[l] \subseteq Visible

=============================================================================
