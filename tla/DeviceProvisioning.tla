-------------------------- MODULE DeviceProvisioning --------------------------
(***************************************************************************)
(* The device manager of pkg/provisioning/manager.go: requests of the API  *)
(* (web/backend/api/provisioning.go) that connect to WiFi, switch the      *)
(* hotspot or reset the device, beside the loop that checks the network    *)
(* every 30 seconds and the recovery it starts.  They share the settings   *)
(* in provisioning.json, one key per write, and the one WiFi interface.    *)
(*                                                                         *)
(* NetworkManager is external: a command succeeds, or fails with the       *)
(* interface as it was or disconnected.  Times are abstracted to whether   *)
(* the cooldown is over.  LastError, reasons, results, events and the auth *)
(* code are left out, and so are saves that overtake one another.          *)
(***************************************************************************)
EXTENDS Naturals, Sequences, FiniteSets

CONSTANTS
  Calls,        \* requests to the API, one at a time each
  Recoveries,   \* goroutines started by the loop; bound: as many at once
  None,
  Threshold,    \* failed checks before a recovery (3)
  MaxCalls,     \* bound: requests
  MaxFaults,    \* bound: failing commands, ended requests and crashes
  MaxOutages    \* bound: how often the home network goes away

ASSUME DeviceAssumption ==
  /\ Calls \intersect Recoveries = {} /\ None \notin Calls \union Recoveries
  /\ Threshold \in Nat \ {0} /\ {MaxCalls, MaxFaults, MaxOutages} \subseteq Nat

VARIABLES
  cfg,         \* the settings the manager reads
  link,        \* what the WiFi interface is connected to
  profile,     \* NetworkManager has a profile of the home network
  up,          \* the home network and its way to the internet work
  proc,        \* [op, at, todo, gone] of requests and recoveries
  recoveryMu,  \* who holds the mutex, or None
  monitor,     \* [at, streak] of monitorLoop
  calls, faults, outages,
  events       \* ghost: what happened that excuses the device

vars == <<cfg, link, profile, up, proc, recoveryMu, monitor, calls, faults, outages, events>>

Procs == Calls \union Recoveries
Idle == [op |-> "none", at |-> "idle", todo |-> <<>>, gone |-> FALSE]

Init ==
  /\ cfg = [mode |-> "provisioning", provisioned |-> FALSE, ssid |-> FALSE, ap |-> FALSE,
            streak |-> 0, cooling |-> FALSE, lock |-> "none"]
  /\ link = "none" /\ profile = FALSE /\ up = TRUE
  /\ proc = [p \in Procs |-> Idle]
  /\ recoveryMu = None
  /\ monitor = [at |-> "idle", streak |-> 0]
  /\ calls = 0 /\ faults = 0 /\ outages = 0
  /\ events = {}

-----------------------------------------------------------------------------
At(p, at) == proc[p].at = at /\ proc[p].todo = <<>>
Goto(p, at, todo) == proc' = [proc EXCEPT ![p].at = at, ![p].todo = todo]

\* An operation has touched the interface or is about to.
Working(p) == proc[p].at \notin {"idle", "waiting"}
Overlaps(p) == IF \E q \in Procs \ {p} : Working(q) THEN {"overlap"} ELSE {}

\* A command whose request has ended fails at once; another may fail, and one
\* that should connect has then perhaps given up the old connection.
CommandFails(p) ==
  \/ (proc[p].gone /\ UNCHANGED faults)
  \/ (~proc[p].gone /\ faults < MaxFaults /\ faults' = faults + 1)

ConnectionFails(p) == CommandFails(p) /\ link' \in {link, "none"}

Internet == link = "home" /\ up

\* Set and Delete: one key, and the file.
Store(p) ==
  /\ proc[p].todo # <<>>
  /\ LET key == Head(proc[p].todo)[1]
         value == Head(proc[p].todo)[2]
     IN cfg' = [cfg EXCEPT ![key] = value]
  /\ proc' = [proc EXCEPT ![p].todo = Tail(@)]
  /\ UNCHANGED <<link, profile, up, recoveryMu, monitor, calls, faults, outages, events>>

RollbackToProvisioning == << <<"provisioned", FALSE>>, <<"mode", "provisioning">> >>

\* A handler is entered.
Begin(c, op) ==
  /\ proc[c] = Idle /\ calls < MaxCalls
  /\ calls' = calls + 1
  /\ proc' = [proc EXCEPT ![c] = [Idle EXCEPT
       !.op = op,
       !.at = CASE op = "connect" -> "connect"
                [] op \in {"enable", "rollback"} -> "hotspot"
                [] op \in {"disable", "forget", "reset"} -> op
                [] op = "recover" -> "waiting",
       !.todo = CASE op = "connect" -> << <<"mode", "connecting">> >>
                  [] op = "rollback" -> RollbackToProvisioning
                  [] OTHER -> <<>>]]
  /\ events' = events \union (IF op = "recover" THEN {} ELSE Overlaps(c))
  /\ UNCHANGED <<cfg, link, profile, up, recoveryMu, monitor, faults, outages>>

\* The last write of a handler has been made.
Return(p) ==
  /\ At(p, "done")
  /\ proc' = [proc EXCEPT ![p] = Idle]
  /\ recoveryMu' = IF recoveryMu = p THEN None ELSE recoveryMu
  /\ UNCHANGED <<cfg, link, profile, up, monitor, calls, faults, outages, events>>

\* The client leaves or the time of the request is over.
RequestEnds(c) ==
  /\ Working(c) /\ ~proc[c].gone /\ faults < MaxFaults
  /\ proc' = [proc EXCEPT ![c].gone = TRUE]
  /\ faults' = faults + 1
  /\ UNCHANGED <<cfg, link, profile, up, recoveryMu, monitor, calls, outages, events>>

-----------------------------------------------------------------------------
\* ConnectToWiFi: nmcli creates the profile and leaves the hotspot.
Connect(c) ==
  /\ At(c, "connect")
  /\ \/ /\ ~proc[c].gone /\ up
        /\ link' = "home" /\ profile' = TRUE
        /\ Goto(c, "diagnose", <<>>)
        /\ UNCHANGED faults
     \/ /\ ConnectionFails(c) \/ (~up /\ link' \in {link, "none"} /\ UNCHANGED faults)
        /\ Goto(c, "hotspot", RollbackToProvisioning)
        /\ UNCHANGED profile
  /\ UNCHANGED <<cfg, up, recoveryMu, monitor, calls, outages, events>>

\* Without internet access the hotspot comes back.
Diagnose(c) ==
  /\ At(c, "diagnose")
  /\ IF Internet /\ ~proc[c].gone
     THEN Goto(c, "done", << <<"provisioned", TRUE>>, <<"ssid", TRUE>>, <<"ap", FALSE>>, <<"mode", "onboarding">> >>)
     ELSE Goto(c, "hotspot", RollbackToProvisioning)
  /\ UNCHANGED <<cfg, link, profile, up, recoveryMu, monitor, calls, faults, outages, events>>

\* EnableHotspot, by itself or at the end of a handler.
HotspotStarts(p) ==
  /\ At(p, "hotspot") /\ ~proc[p].gone
  /\ link' = "hotspot"
  /\ Goto(p, IF proc[p].op = "recover" THEN "restored" ELSE "done",
          << <<"ap", TRUE>>, <<"mode", "provisioning">> >>)
  /\ UNCHANGED <<cfg, profile, up, recoveryMu, monitor, calls, faults, outages, events>>

\* Mutant of HotspotFails: the mode stays as it is.
HotspotFailsQuietly(p) ==
  /\ At(p, "hotspot")
  /\ ConnectionFails(p)
  /\ Goto(p, IF proc[p].op = "recover" THEN "unlock" ELSE "done", <<>>)
  /\ UNCHANGED <<cfg, profile, up, recoveryMu, monitor, calls, outages, events>>

HotspotFails(p) ==
  /\ At(p, "hotspot")
  /\ ConnectionFails(p)
  /\ Goto(p, IF proc[p].op = "recover" THEN "unlock" ELSE "done", << <<"mode", "error">> >>)
  /\ UNCHANGED <<cfg, profile, up, recoveryMu, monitor, calls, outages, events>>

\* DisableHotspot: where there is no hotspot to stop, the interface is
\* disconnected (network.go:222).
Disable(c) ==
  /\ At(c, "disable")
  /\ \/ /\ ~proc[c].gone
        /\ link' = "none" /\ UNCHANGED faults
        /\ Goto(c, "done", << <<"ap", FALSE>> >>)
        /\ events' = events \union {"disabled"}
     \/ /\ CommandFails(c)
        /\ Goto(c, "done", <<>>)
        /\ UNCHANGED <<link, events>>
  /\ UNCHANGED <<cfg, profile, up, recoveryMu, monitor, calls, outages>>

\* ForgetNetwork, of the home network.
Forget(c) ==
  /\ At(c, "forget")
  /\ \/ /\ profile /\ ~proc[c].gone
        /\ profile' = FALSE
        /\ link' = (IF link = "home" THEN "none" ELSE link)
        /\ Goto(c, "done", << <<"ssid", FALSE>> >>)
        /\ UNCHANGED faults
     \/ /\ CommandFails(c) \/ (~profile /\ UNCHANGED faults)
        /\ Goto(c, "done", <<>>)
        /\ UNCHANGED <<profile, link>>
  /\ UNCHANGED <<cfg, up, recoveryMu, monitor, calls, outages, events>>

\* FactoryReset: profiles, keys in the order of the list, then the hotspot.
FactoryReset(c) ==
  /\ At(c, "reset")
  /\ \/ /\ ~proc[c].gone
        /\ profile' = FALSE /\ UNCHANGED faults
        /\ link' = (IF link = "home" THEN "none" ELSE link)
     \/ (CommandFails(c) /\ UNCHANGED <<profile, link>>)
  /\ Goto(c, "hotspot",
          << <<"mode", "provisioning">>, <<"provisioned", FALSE>>, <<"ssid", FALSE>>, <<"ap", FALSE>>,
             <<"streak", 0>>, <<"cooling", FALSE>>, <<"lock", "none">> >>)
  /\ UNCHANGED <<cfg, up, recoveryMu, monitor, calls, outages, events>>

-----------------------------------------------------------------------------
(***************************************************************************)
(* monitorLoop and attemptRecovery                                         *)
(***************************************************************************)
Read ==
  /\ monitor.at = "idle" /\ cfg.mode # "provisioning"
  /\ monitor' = IF Internet THEN [at |-> "reset", streak |-> 0]
                ELSE [at |-> "count", streak |-> IF cfg.streak < Threshold THEN cfg.streak + 1 ELSE cfg.streak]
  /\ UNCHANGED <<cfg, link, profile, up, proc, recoveryMu, calls, faults, outages, events>>

\* The streak, capped here at the threshold, is written back; at the
\* threshold each check starts a goroutine.
Count ==
  /\ monitor.at = "count"
  /\ cfg' = [cfg EXCEPT !.streak = monitor.streak]
  /\ IF monitor.streak >= Threshold /\ \E r \in Recoveries : proc[r] = Idle
     THEN \E r \in Recoveries : proc[r] = Idle /\
            proc' = [proc EXCEPT ![r] = [Idle EXCEPT !.op = "recover", !.at = "waiting"]]
     ELSE UNCHANGED proc
  /\ monitor' = [at |-> "idle", streak |-> 0]
  /\ UNCHANGED <<link, profile, up, recoveryMu, calls, faults, outages, events>>

Reset ==
  /\ monitor.at = "reset"
  /\ cfg' = [cfg EXCEPT !.streak = 0]
  /\ monitor' = [at |-> "idle", streak |-> 0]
  /\ UNCHANGED <<link, profile, up, proc, recoveryMu, calls, faults, outages, events>>

\* In cooldown, or with a lock that was left behind, the attempt is refused.
Recover(p) ==
  /\ At(p, "waiting") /\ recoveryMu = None
  /\ IF cfg.lock = "recovery" \/ (cfg.lock = "cooldown" /\ cfg.cooling)
     THEN Goto(p, "done", <<>>) /\ UNCHANGED events
     ELSE /\ Goto(p, "reconnect", << <<"lock", "recovery">> >>)
          /\ events' = events \union Overlaps(p)
  /\ recoveryMu' = p
  /\ UNCHANGED <<cfg, link, profile, up, monitor, calls, faults, outages>>

\* Mutant of Reconnect: a recovery that cannot rejoin ends there.
ReconnectOnly(p) ==
  /\ At(p, "reconnect")
  /\ \/ /\ cfg.ssid /\ profile /\ up /\ ~proc[p].gone
        /\ link' = "home" /\ UNCHANGED faults
        /\ Goto(p, "verify", <<>>)
     \/ /\ \/ (~cfg.ssid /\ UNCHANGED <<link, faults>>)
           \/ (cfg.ssid /\ (~profile \/ ~up) /\ link' \in {link, "none"} /\ UNCHANGED faults)
           \/ (cfg.ssid /\ ConnectionFails(p))
        /\ Goto(p, "unlock", <<>>)
  /\ UNCHANGED <<cfg, profile, up, recoveryMu, monitor, calls, outages, events>>

Reconnect(p) ==
  /\ At(p, "reconnect")
  /\ \/ /\ cfg.ssid /\ profile /\ up /\ ~proc[p].gone
        /\ link' = "home" /\ UNCHANGED faults
        /\ Goto(p, "verify", <<>>)
     \/ /\ \/ (~cfg.ssid /\ UNCHANGED <<link, faults>>)
           \/ (cfg.ssid /\ (~profile \/ ~up) /\ link' \in {link, "none"} /\ UNCHANGED faults)
           \/ (cfg.ssid /\ ConnectionFails(p))
        /\ Goto(p, "hotspot", <<>>)
  /\ UNCHANGED <<cfg, profile, up, recoveryMu, monitor, calls, outages, events>>

Cooldown == << <<"streak", 0>>, <<"cooling", TRUE>>, <<"lock", "cooldown">> >>

\* A device that has rejoined keeps its mode.
Verify(p) ==
  /\ At(p, "verify")
  /\ IF Internet /\ ~proc[p].gone
     THEN /\ Goto(p, "unlock", Cooldown)
          /\ events' = events \union (IF cfg.mode = "provisioning" THEN {"rejoined"} ELSE {})
     ELSE Goto(p, "hotspot", <<>>) /\ UNCHANGED events
  /\ UNCHANGED <<cfg, link, profile, up, recoveryMu, monitor, calls, faults, outages>>

Restored(p) ==
  /\ At(p, "restored")
  /\ Goto(p, "unlock", Cooldown \o << <<"provisioned", FALSE>>, <<"mode", "provisioning">> >>)
  /\ UNCHANGED <<cfg, link, profile, up, recoveryMu, monitor, calls, faults, outages, events>>

\* Mutant of Unlock: the lock is cleared only after a recovery that worked.
UnlockNever(p) ==
  /\ At(p, "unlock")
  /\ Goto(p, "done", <<>>)
  /\ UNCHANGED <<cfg, link, profile, up, recoveryMu, monitor, calls, faults, outages, events>>

\* The deferred function.
Unlock(p) ==
  /\ At(p, "unlock")
  /\ Goto(p, "done", IF cfg.lock = "recovery" THEN << <<"lock", "none">> >> ELSE <<>>)
  /\ UNCHANGED <<cfg, link, profile, up, recoveryMu, monitor, calls, faults, outages, events>>

CooldownEnds ==
  /\ cfg.cooling
  /\ cfg' = [cfg EXCEPT !.cooling = FALSE]
  /\ UNCHANGED <<link, profile, up, proc, recoveryMu, monitor, calls, faults, outages, events>>

-----------------------------------------------------------------------------
(***************************************************************************)
(* The network, and restarts of the process or of the device.  At a        *)
(* restart nothing starts the hotspot, whose profile does not connect by   *)
(* itself.                                                                 *)
(***************************************************************************)
NetworkFails ==
  /\ up /\ outages < MaxOutages
  /\ up' = FALSE /\ outages' = outages + 1
  /\ link' \in IF link = "home" THEN {"home", "none"} ELSE {link}
  /\ UNCHANGED <<cfg, profile, proc, recoveryMu, monitor, calls, faults, events>>

NetworkReturns ==
  /\ ~up
  /\ up' = TRUE
  /\ UNCHANGED <<cfg, link, profile, proc, recoveryMu, monitor, calls, faults, outages, events>>

Autoconnect ==
  /\ link = "none" /\ profile /\ up
  /\ link' = "home"
  /\ UNCHANGED <<cfg, profile, up, proc, recoveryMu, monitor, calls, faults, outages, events>>

Restart ==
  /\ faults < MaxFaults
  /\ faults' = faults + 1
  /\ link' \in {link, "none"}
  /\ proc' = [p \in Procs |-> Idle]
  /\ recoveryMu' = None
  /\ monitor' = [at |-> "idle", streak |-> 0]
  /\ events' = events \union {"restart"}
  /\ UNCHANGED <<cfg, profile, up, calls, outages>>

Ops == {"connect", "enable", "disable", "forget", "rollback", "reset", "recover"}

Step(p) ==
  \/ Store(p) \/ Return(p)
  \/ Connect(p) \/ Diagnose(p) \/ HotspotStarts(p) \/ HotspotFails(p)
  \/ Disable(p) \/ Forget(p) \/ FactoryReset(p)
  \/ Recover(p) \/ Reconnect(p) \/ Verify(p) \/ Restored(p) \/ Unlock(p)

Monitor == Read \/ Count \/ Reset

Next ==
  \/ \E c \in Calls : RequestEnds(c) \/ \E op \in Ops : Begin(c, op)
  \/ \E p \in Procs : Step(p)
  \/ Monitor \/ CooldownEnds
  \/ NetworkFails \/ NetworkReturns \/ Autoconnect \/ Restart

Spec == Init /\ [][Next]_vars

\* Handlers and goroutines go on, the ticker ticks and the clock moves; no
\* request has to come and the home network need not come back.
FairSpec ==
  /\ Spec
  /\ \A p \in Procs : WF_vars(Step(p))
  /\ WF_vars(Monitor) /\ WF_vars(CooldownEnds)

-----------------------------------------------------------------------------
Reachable == link = "hotspot" \/ Internet

\* Types; and a recovery lock in the settings belongs to a recovery that is
\* under way, or the process was restarted while one was: then nothing but a
\* factory reset takes it away.
LockHasOwner ==
  /\ cfg.mode \in {"provisioning", "connecting", "onboarding", "error"}
  /\ cfg.streak \in 0 .. Threshold
  /\ \A p \in Procs : recoveryMu = p => proc[p].op = "recover"
  /\ cfg.lock = "recovery" => recoveryMu # None \/ "restart" \in events

\* What the status says between operations: an onboarded device is provisioned
\* and its hotspot is off, and a device in provisioning mode has its hotspot up
\* or has left it for one of the named reasons.
StatusAgrees ==
  events \intersect {"overlap", "restart"} = {} /\ (\A p \in Procs : ~Working(p)) =>
    /\ cfg.mode = "onboarding" => cfg.provisioned /\ ~cfg.ap
    /\ cfg.mode = "provisioning" /\ cfg.ap => link = "hotspot" \/ "rejoined" \in events

\* Lock, mode, flags and interface fit together, however requests, recovery,
\* failing commands and restarts interleave.
Consistent == LockHasOwner /\ StatusAgrees

\* A device that was connected once never stays cut off: it gets its network or
\* its hotspot back, however commands and requests fail, unless the process was
\* restarted, operations overlapped, the user switched the hotspot off or a
\* device in provisioning mode was made to rejoin; nobody watches these.
ComesBack == (~Reachable /\ cfg.mode # "provisioning") ~> (Reachable \/ events # {})

=============================================================================
