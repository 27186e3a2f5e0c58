-------------------------------- MODULE ChatHub --------------------------------
(***************************************************************************)
(* The console's WebSocket hub (pkg/api/chat_ws.go) for one session: at    *)
(* most one client is registered; agent turns broadcast their events to it *)
(* and wait while its queue is full; its write pump and its reader both    *)
(* remove the session's client when they end.  The map changes under the   *)
(* hub's lock, a broadcast waits outside it.                               *)
(*                                                                         *)
(* Events are counted, not told apart; the turns a client starts are those *)
(* of SessionTurns.                                                        *)
(***************************************************************************)
EXTENDS Naturals

CONSTANTS
  Turns,        \* agent turns that broadcast at once
  MaxClients,   \* bound: connections of the session
  MaxEvents,    \* bound: events broadcast
  SendQueue     \* capacity of sendCh (64)

ASSUME ChatHubAssumption == {MaxClients, MaxEvents} \subseteq Nat /\ SendQueue \in Nat \ {0}

VARIABLES
  registered,   \* the client in the map, 0 when there is none
  connections,  \* how many clients there were
  client,       \* [open, done, queue, pump, reader] of a client
  broadcast,    \* the client a turn waits for, 0 when it does not
  events

chatHubVars == <<registered, connections, client, broadcast, events>>

Clients == 1 .. MaxClients
NoClient == [open |-> FALSE, done |-> FALSE, queue |-> 0, pump |-> "none", reader |-> "none"]

ChatHubInit ==
  /\ registered = 0 /\ connections = 0 /\ events = 0
  /\ client = [k \in Clients |-> NoClient]
  /\ broadcast = [t \in Turns |-> 0]

\* Mutant of AddClient: the connection that is replaced is only closed.
AddClientClosesConnection ==
  /\ connections < MaxClients
  /\ connections' = connections + 1 /\ registered' = connections'
  /\ client' = [k \in Clients |->
       IF k = connections'
       THEN [open |-> TRUE, done |-> FALSE, queue |-> 0, pump |-> "run", reader |-> "read"]
       ELSE IF k = registered THEN [client[k] EXCEPT !.open = FALSE] ELSE client[k]]
  /\ UNCHANGED <<broadcast, events>>

AddClient ==
  /\ connections < MaxClients
  /\ connections' = connections + 1 /\ registered' = connections + 1
  /\ client' = [k \in Clients |->
       IF k = connections + 1
       THEN [open |-> TRUE, done |-> FALSE, queue |-> 0, pump |-> "run", reader |-> "read"]
       ELSE IF k = registered
       THEN [open |-> FALSE, done |-> TRUE, queue |-> client[k].queue, pump |-> client[k].pump,
             reader |-> client[k].reader]
       ELSE client[k]]
  /\ UNCHANGED <<broadcast, events>>

\* Whichever client the session has is done: not always the caller's, whose
\* goroutine ends.
RemoveClient(k, pump, reader) ==
  /\ client' = [j \in Clients |->
       [open |-> client[j].open, queue |-> client[j].queue,
        done |-> IF j = registered THEN TRUE ELSE client[j].done,
        pump |-> IF j = k THEN pump ELSE client[j].pump,
        reader |-> IF j = k THEN reader ELSE client[j].reader]]
  /\ registered' = 0

ClientBecomes(k, open, queue, pump) ==
  client' = [client EXCEPT ![k] = [open |-> open, queue |-> queue, pump |-> pump,
                                   done |-> client[k].done, reader |-> client[k].reader]]

BrowserCloses(k) ==
  /\ client[k].open
  /\ ClientBecomes(k, FALSE, client[k].queue, client[k].pump)
  /\ UNCHANGED <<registered, connections, broadcast, events>>

ReaderRemoves(k) ==
  /\ client[k].reader = "read" /\ ~client[k].open
  /\ RemoveClient(k, client[k].pump, "ended")
  /\ UNCHANGED <<connections, broadcast, events>>

\* The pump takes a message, whose write may fail, or sees done, and closes.
PumpWrites(k) ==
  /\ client[k].pump = "run" /\ client[k].queue > 0 /\ client[k].open
  /\ ClientBecomes(k, TRUE, client[k].queue - 1, "run")
  /\ UNCHANGED <<registered, connections, broadcast, events>>

PumpCloses(k) ==
  /\ client[k].pump = "run"
  /\ client[k].done \/ client[k].queue > 0
  /\ ClientBecomes(k, FALSE, client[k].queue, "remove")
  /\ UNCHANGED <<registered, connections, broadcast, events>>

PumpRemoves(k) ==
  /\ client[k].pump = "remove"
  /\ RemoveClient(k, "ended", client[k].reader)
  /\ UNCHANGED <<connections, broadcast, events>>

Broadcast(t) ==
  /\ broadcast[t] = 0 /\ registered # 0 /\ events < MaxEvents
  /\ events' = events + 1
  /\ broadcast' = [broadcast EXCEPT ![t] = registered]
  /\ UNCHANGED <<registered, connections, client>>

\* select takes either when both are ready.
BroadcastSends(t) ==
  LET k == broadcast[t] IN
  /\ k # 0
  /\ \/ /\ client[k].queue < SendQueue
        /\ ClientBecomes(k, client[k].open, client[k].queue + 1, client[k].pump)
     \/ client[k].done /\ UNCHANGED client
  /\ broadcast' = [broadcast EXCEPT ![t] = 0]
  /\ UNCHANGED <<registered, connections, events>>

ChatHubNext ==
  \/ AddClient
  \/ \E k \in Clients : \/ BrowserCloses(k) \/ ReaderRemoves(k)
                        \/ PumpWrites(k) \/ PumpCloses(k) \/ PumpRemoves(k)
  \/ \E t \in Turns : Broadcast(t) \/ BroadcastSends(t)

ChatHubSpec == ChatHubInit /\ [][ChatHubNext]_chatHubVars

-----------------------------------------------------------------------------
\* No turn waits for ever in a broadcast: its client is done, or has a pump
\* that still takes messages, or one that will make it done.  It needs that a
\* client which is not the registered one is done, however reconnections and
\* the removals of earlier clients cross.
BroadcastIsReleased ==
  /\ registered \in 0 .. connections
  /\ \A k \in 1 .. connections : registered = k \/ client[k].done
  /\ \A t \in Turns : broadcast[t] # 0 =>
       client[broadcast[t]].done \/ client[broadcast[t]].pump \in {"run", "remove"}

=============================================================================
