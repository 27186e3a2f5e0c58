---------------------- MODULE DeviceProvisioning_proofs ----------------------
(***************************************************************************)
(* Proofs about DeviceProvisioning for any requests, recoveries, threshold *)
(* and any number of faults and outages: the settings agree with the       *)
(* device between operations, and a recovery lock belongs to a recovery.   *)
(***************************************************************************)
EXTENDS DeviceProvisioning, SequenceTheorems, TLAPS

USE DeviceAssumption

Flags == {"provisioned", "ssid", "ap", "cooling"}
Modes == {"provisioning", "connecting", "onboarding", "error"}
Locks == {"none", "recovery", "cooldown"}
Keys == Flags \cup {"mode", "streak", "lock"}

\* A write is a key with one of its values.
Write ==
  {"mode"} \X Modes \cup Flags \X BOOLEAN \cup {"streak"} \X (0 .. Threshold) \cup {"lock"} \X Locks

\* Stages of a recovery alone, and of requests alone.
OfRecovery == {"waiting", "reconnect", "verify", "restored", "unlock"}
OfRequest == {"connect", "diagnose", "disable", "forget", "reset"}
Stages == OfRecovery \cup OfRequest \cup {"idle", "hotspot", "done"}

Settings ==
  [mode : Modes, provisioned : BOOLEAN, ssid : BOOLEAN, ap : BOOLEAN, streak : 0 .. Threshold,
   cooling : BOOLEAN, lock : Locks]
Process == [op : Ops \cup {"none"}, at : Stages, todo : Seq(Write), gone : BOOLEAN]

Types ==
  /\ cfg \in Settings
  /\ proc \in [Procs -> Process]
  /\ recoveryMu \in Procs \cup {None}
  /\ monitor.streak \in 0 .. Threshold

\* A list of writes names no key twice.
Once(s) == \A i, j \in 1 .. Len(s) : s[i][1] = s[j][1] => i = j
Takes(s) == \E i \in 1 .. Len(s) : s[i] = <<"lock", "recovery">>

\* The lock is taken by a write of a recovery that has just begun, and given
\* back by its last.
Listed(p) ==
  /\ Once(proc[p].todo)
  /\ proc[p].at \in OfRecovery => proc[p].op = "recover"
  /\ proc[p].at \in OfRequest => proc[p].op # "recover"
  /\ ~Working(p) => proc[p].todo = <<>>
  /\ Takes(proc[p].todo) => proc[p].at = "reconnect"
  /\ proc[p].at = "done" /\ proc[p].op = "recover" => proc[p].todo \in {<<>>, << <<"lock", "none">> >>}

\* The mutex is held by the recovery that is past waiting.
MutexHeld == \A p \in Procs : recoveryMu = p <=> proc[p].op = "recover" /\ Working(p)

LockOwned ==
  cfg.lock = "recovery" /\ "restart" \notin events =>
    \E p \in Procs : recoveryMu = p /\ ~At(p, "done")

\* What a setting will be when the writes of a list are made.
Will(c, s, k, v) ==
  IF \E i \in 1 .. Len(s) : s[i][1] = k THEN \E i \in 1 .. Len(s) : s[i] = <<k, v>> ELSE c[k] = v

\* What will hold then: an onboarded device is provisioned and its hotspot off,
\* and one in provisioning mode that claims a hotspot has it, or an excuse.
Online(c, s) ==
  Will(c, s, "mode", "onboarding") => Will(c, s, "provisioned", TRUE) /\ Will(c, s, "ap", FALSE)
Claims(c, s) == Will(c, s, "mode", "provisioning") /\ Will(c, s, "ap", TRUE)
Agrees(s) == Online(cfg, s) /\ (Claims(cfg, s) => link = "hotspot" \/ "rejoined" \in events)

Quiet == "overlap" \notin events /\ "restart" \notin events

\* An operation that has more to do than to return.
Busy(p) == Working(p) /\ ~At(p, "done")

\* What the stage of the operation under way says of the settings to come.
\* The stages left out rewrite all that matters, or lead to one that does.
Underway(p) ==
  /\ proc[p].at \in {"disable", "forget", "unlock", "done"} => Agrees(proc[p].todo)
  /\ proc[p].at \in {"reconnect", "verify"} => Online(cfg, proc[p].todo)
  /\ proc[p].at = "restored" => link = "hotspot"

InOrder ==
  Quiet =>
    /\ \A p, q \in Procs : Busy(p) /\ Busy(q) => p = q
    /\ \A p \in Procs : Busy(p) => Underway(p)
    /\ (\A p \in Procs : ~Busy(p)) => Agrees(<<>>)

DeviceInv == Types /\ (\A p \in Procs : Listed(p)) /\ MutexHeld /\ LockOwned /\ InOrder

-----------------------------------------------------------------------------
(***************************************************************************)
(* The lists of writes                                                     *)
(***************************************************************************)

Connecting == << <<"mode", "connecting">> >>
Onboarded == << <<"provisioned", TRUE>>, <<"ssid", TRUE>>, <<"ap", FALSE>>, <<"mode", "onboarding">> >>
HotspotUp == << <<"ap", TRUE>>, <<"mode", "provisioning">> >>
Failed == << <<"mode", "error">> >>
Off == << <<"ap", FALSE>> >>
Forgotten == << <<"ssid", FALSE>> >>
Cleared == << <<"mode", "provisioning">>, <<"provisioned", FALSE>>, <<"ssid", FALSE>>, <<"ap", FALSE>>,
              <<"streak", 0>>, <<"cooling", FALSE>>, <<"lock", "none">> >>
Taking == << <<"lock", "recovery">> >>
Giving == << <<"lock", "none">> >>
AllRestored == Cooldown \o << <<"provisioned", FALSE>>, <<"mode", "provisioning">> >>

Lists ==
  {<<>>, RollbackToProvisioning, Connecting, Onboarded, HotspotUp, Failed, Off, Forgotten, Cleared,
   Taking, Giving, Cooldown, AllRestored}

\* The writes of every list, one by one.
LEMMA ShortLists ==
  /\ Len(Connecting) = 1 /\ Connecting[1] = <<"mode", "connecting">>
  /\ Len(Failed) = 1 /\ Failed[1] = <<"mode", "error">>
  /\ Len(Off) = 1 /\ Off[1] = <<"ap", FALSE>>
  /\ Len(Forgotten) = 1 /\ Forgotten[1] = <<"ssid", FALSE>>
  /\ Len(Taking) = 1 /\ Taking[1] = <<"lock", "recovery">>
  /\ Len(Giving) = 1 /\ Giving[1] = <<"lock", "none">>
BY DEF Connecting, Failed, Off, Forgotten, Taking, Giving

LEMMA RollbackIs ==
  /\ Len(RollbackToProvisioning) = 2
  /\ RollbackToProvisioning[1] = <<"provisioned", FALSE>> /\ RollbackToProvisioning[2] = <<"mode", "provisioning">>
BY DEF RollbackToProvisioning

LEMMA OnboardedIs ==
  /\ Len(Onboarded) = 4
  /\ Onboarded[1] = <<"provisioned", TRUE>> /\ Onboarded[2] = <<"ssid", TRUE>>
  /\ Onboarded[3] = <<"ap", FALSE>> /\ Onboarded[4] = <<"mode", "onboarding">>
BY DEF Onboarded

LEMMA HotspotUpIs ==
  Len(HotspotUp) = 2 /\ HotspotUp[1] = <<"ap", TRUE>> /\ HotspotUp[2] = <<"mode", "provisioning">>
BY DEF HotspotUp

LEMMA ClearedIs ==
  /\ Len(Cleared) = 7
  /\ Cleared[1] = <<"mode", "provisioning">> /\ Cleared[2] = <<"provisioned", FALSE>>
  /\ Cleared[3] = <<"ssid", FALSE>> /\ Cleared[4] = <<"ap", FALSE>> /\ Cleared[5] = <<"streak", 0>>
  /\ Cleared[6] = <<"cooling", FALSE>> /\ Cleared[7] = <<"lock", "none">>
BY DEF Cleared

LEMMA CooldownIs ==
  /\ Len(Cooldown) = 3
  /\ Cooldown[1] = <<"streak", 0>> /\ Cooldown[2] = <<"cooling", TRUE>> /\ Cooldown[3] = <<"lock", "cooldown">>
BY DEF Cooldown

LEMMA WritesAre ==
  /\ \A m \in Modes : <<"mode", m>> \in Write
  /\ \A f \in Flags, b \in BOOLEAN : <<f, b>> \in Write
  /\ \A n \in 0 .. Threshold : <<"streak", n>> \in Write
  /\ \A l \in Locks : <<"lock", l>> \in Write
BY DEF Write

LEMMA EachWrite ==
  /\ <<"mode", "provisioning">> \in Write /\ <<"mode", "connecting">> \in Write
  /\ <<"mode", "onboarding">> \in Write /\ <<"mode", "error">> \in Write
  /\ <<"provisioned", TRUE>> \in Write /\ <<"provisioned", FALSE>> \in Write
  /\ <<"ssid", TRUE>> \in Write /\ <<"ssid", FALSE>> \in Write
  /\ <<"ap", TRUE>> \in Write /\ <<"ap", FALSE>> \in Write
  /\ <<"cooling", TRUE>> \in Write /\ <<"cooling", FALSE>> \in Write
  /\ <<"streak", 0>> \in Write
  /\ <<"lock", "none">> \in Write /\ <<"lock", "recovery">> \in Write /\ <<"lock", "cooldown">> \in Write
<1>1. \A m \in {"provisioning", "connecting", "onboarding", "error"} : <<"mode", m>> \in Write
  BY WritesAre DEF Modes
<1>2. \A f \in {"provisioned", "ssid", "ap", "cooling"}, b \in BOOLEAN : <<f, b>> \in Write
  BY WritesAre DEF Flags
<1>3. <<"streak", 0>> \in Write
  <2>1. 0 \in 0 .. Threshold
    OBVIOUS
  <2> QED
    BY <2>1, WritesAre
<1>4. \A l \in {"none", "recovery", "cooldown"} : <<"lock", l>> \in Write
  BY WritesAre DEF Locks
<1> QED
  BY <1>1, <1>2, <1>3, <1>4

LEMMA RestoredIs ==
  /\ AllRestored \in Seq(Write) /\ Len(AllRestored) = 5
  /\ AllRestored[1] = <<"streak", 0>> /\ AllRestored[2] = <<"cooling", TRUE>> /\ AllRestored[3] = <<"lock", "cooldown">>
  /\ AllRestored[4] = <<"provisioned", FALSE>> /\ AllRestored[5] = <<"mode", "provisioning">>
<1>1. Cooldown \in Seq(Write)
  BY EachWrite DEF Cooldown
<1>2. RollbackToProvisioning \in Seq(Write)
  BY EachWrite DEF RollbackToProvisioning
<1>3. AllRestored = Cooldown \o RollbackToProvisioning
  BY DEF AllRestored, RollbackToProvisioning
<1>4. /\ AllRestored \in Seq(Write) /\ Len(AllRestored) = Len(Cooldown) + Len(RollbackToProvisioning)
      /\ \A i \in 1 .. Len(Cooldown) + Len(RollbackToProvisioning) :
           AllRestored[i] = IF i <= Len(Cooldown) THEN Cooldown[i] ELSE RollbackToProvisioning[i - Len(Cooldown)]
  BY <1>1, <1>2, <1>3, ConcatProperties
<1>5. Len(Cooldown) = 3 /\ Len(RollbackToProvisioning) = 2
  BY CooldownIs, RollbackIs
<1>6. /\ Len(AllRestored) = 5
      /\ AllRestored[1] = Cooldown[1] /\ AllRestored[2] = Cooldown[2] /\ AllRestored[3] = Cooldown[3]
      /\ AllRestored[4] = RollbackToProvisioning[1] /\ AllRestored[5] = RollbackToProvisioning[2]
  BY <1>4, <1>5
<1> QED
  BY <1>4, <1>6, CooldownIs, RollbackIs

\* The lists are lists of writes, and one of them takes the lock.
LEMMA ListFacts ==
  ASSUME NEW s \in Lists
  PROVE  s \in Seq(Write) /\ Once(s) /\ (Takes(s) => s = Taking)
<1>1. CASE s = <<>>
  BY <1>1 DEF Once, Takes
<1>2. CASE s \in {Connecting, Failed, Off, Forgotten, Taking, Giving}
  <2>1. s \in Seq(Write)
    <3>1. Connecting \in Seq(Write) /\ Failed \in Seq(Write)
      BY EachWrite DEF Connecting, Failed
    <3>2. Off \in Seq(Write)
      BY EachWrite DEF Off
    <3>3. Forgotten \in Seq(Write)
      BY EachWrite DEF Forgotten
    <3>4. Taking \in Seq(Write) /\ Giving \in Seq(Write)
      BY EachWrite DEF Taking, Giving
    <3> QED
      BY <1>2, <3>1, <3>2, <3>3, <3>4
  <2>2. Len(s) = 1 /\ (s[1] = <<"lock", "recovery">> => s = Taking)
    BY <1>2, ShortLists
  <2> QED
    BY <2>1, <2>2 DEF Once, Takes
<1>3. CASE s = RollbackToProvisioning
  <2>1. s \in Seq(Write)
    BY <1>3, EachWrite DEF RollbackToProvisioning
  <2> QED
    BY <1>3, <2>1, RollbackIs DEF Once, Takes
<1>4. CASE s = Onboarded
  <2>1. s \in Seq(Write)
    BY <1>4, EachWrite DEF Onboarded
  <2> QED
    BY <1>4, <2>1, OnboardedIs DEF Once, Takes
<1>5. CASE s = HotspotUp
  <2>1. s \in Seq(Write)
    BY <1>5, EachWrite DEF HotspotUp
  <2> QED
    BY <1>5, <2>1, HotspotUpIs DEF Once, Takes
<1>6. CASE s = Cleared
  <2>1. s \in Seq(Write)
    BY <1>6, EachWrite DEF Cleared
  <2> QED
    BY <1>6, <2>1, ClearedIs DEF Once, Takes
<1>7. CASE s = Cooldown
  <2>1. s \in Seq(Write)
    BY <1>7, EachWrite DEF Cooldown
  <2> QED
    BY <1>7, <2>1, CooldownIs DEF Once, Takes
<1>8. CASE s = AllRestored
  BY <1>8, RestoredIs DEF Once, Takes
<1> QED
  BY <1>1, <1>2, <1>3, <1>4, <1>5, <1>6, <1>7, <1>8 DEF Lists

\* These change nothing that an onboarded or a reachable device is told by.
LEMMA Harmless ==
  ASSUME NEW s \in {<<>>, Forgotten, Taking, Giving, Cooldown},
         NEW k \in {"mode", "provisioned", "ap"}, NEW v, NEW c
  PROVE  Will(c, s, k, v) <=> c[k] = v
<1>1. CASE s = <<>>
  BY <1>1 DEF Will
<1>2. CASE s \in {Forgotten, Taking, Giving}
  <2>1. Len(s) = 1 /\ s[1][1] \in {"ssid", "lock"}
    BY <1>2, ShortLists
  <2> QED
    BY <2>1 DEF Will
<1>3. CASE s = Cooldown
  BY <1>3, CooldownIs DEF Will
<1> QED
  BY <1>1, <1>2, <1>3

LEMMA HarmlessKeeps ==
  ASSUME NEW s \in {<<>>, Forgotten, Taking, Giving, Cooldown}, NEW c
  PROVE  (Online(c, s) <=> Online(c, <<>>)) /\ (Claims(c, s) <=> Claims(c, <<>>))
<1>1. \A k \in {"mode", "provisioned", "ap"} : \A v : Will(c, s, k, v) <=> c[k] = v
  BY Harmless
<1>2. \A k \in {"mode", "provisioned", "ap"} : \A v : Will(c, <<>>, k, v) <=> c[k] = v
  BY Harmless
<1> QED
  BY <1>1, <1>2, Zenon DEF Online, Claims

\* These leave the device settled, whatever the settings were.
LEMMA OnboardedSettles ==
  ASSUME NEW c
  PROVE  Online(c, Onboarded) /\ ~Claims(c, Onboarded)
<1>1. Will(c, Onboarded, "provisioned", TRUE) /\ Will(c, Onboarded, "ap", FALSE)
  <2>1. 1 \in 1 .. Len(Onboarded) /\ 3 \in 1 .. Len(Onboarded) /\ Onboarded[1][1] = "provisioned" /\ Onboarded[3][1] = "ap"
    BY OnboardedIs
  <2> QED
    BY OnboardedIs, <2>1, Zenon DEF Will
<1>2. ~Will(c, Onboarded, "mode", "provisioning")
  BY OnboardedIs DEF Will
<1> QED
  BY <1>1, <1>2 DEF Online, Claims

LEMMA FailedSettles ==
  ASSUME NEW c
  PROVE  Online(c, Failed) /\ ~Claims(c, Failed)
<1>1. ~Will(c, Failed, "mode", "provisioning") /\ ~Will(c, Failed, "mode", "onboarding")
  BY ShortLists DEF Will
<1> QED
  BY <1>1 DEF Online, Claims

LEMMA HotspotSettles ==
  ASSUME NEW c
  PROVE  Online(c, HotspotUp) /\ Online(c, AllRestored)
<1>1. ~Will(c, HotspotUp, "mode", "onboarding")
  BY HotspotUpIs DEF Will
<1>2. ~Will(c, AllRestored, "mode", "onboarding")
  BY RestoredIs DEF Will
<1> QED
  BY <1>1, <1>2 DEF Online

LEMMA OffSettles ==
  ASSUME NEW c, Online(c, <<>>)
  PROVE  Online(c, Off) /\ ~Claims(c, Off)
<1>1. Len(Off) = 1 /\ Off[1] = <<"ap", FALSE>>
  BY ShortLists
<1>2. Will(c, Off, "ap", FALSE) /\ ~Will(c, Off, "ap", TRUE)
  <2>1. 1 \in 1 .. Len(Off) /\ Off[1][1] = "ap" /\ \A i \in 1 .. Len(Off) : i = 1
    BY <1>1
  <2>2. Off[1] # <<"ap", TRUE>>
    BY <1>1
  <2> QED
    BY <1>1, <2>1, <2>2, Zenon DEF Will
<1>3. \A k \in {"mode", "provisioned"} : \A v : Will(c, Off, k, v) <=> Will(c, <<>>, k, v)
  BY <1>1 DEF Will
<1> QED
  BY <1>2, <1>3 DEF Online, Claims

-----------------------------------------------------------------------------
(***************************************************************************)
(* Writes                                                                  *)
(***************************************************************************)

LEMMA HeadAndTail ==
  ASSUME NEW s \in Seq(Write), s # <<>>
  PROVE  /\ Len(s) \in Nat \ {0} /\ Head(s) = s[1] /\ Head(s) \in Write
         /\ Tail(s) \in Seq(Write) /\ Len(Tail(s)) = Len(s) - 1
         /\ \A i \in 1 .. Len(s) - 1 : Tail(s)[i] = s[i + 1] /\ i + 1 \in 1 .. Len(s)
OBVIOUS

LEMMA WriteIs ==
  ASSUME NEW w \in Write
  PROVE  /\ w = <<w[1], w[2]>> /\ w[1] \in Keys
         /\ w[1] = "mode" => w[2] \in Modes
         /\ w[1] \in Flags => w[2] \in BOOLEAN
         /\ w[1] = "streak" => w[2] \in 0 .. Threshold
         /\ w[1] = "lock" => w[2] \in Locks
<1>1. CASE w \in {"mode"} \X Modes
  BY <1>1 DEF Keys, Flags
<1>2. CASE w \in Flags \X BOOLEAN
  BY <1>2 DEF Keys, Flags
<1>3. CASE w \in {"streak"} \X (0 .. Threshold)
  BY <1>3 DEF Keys, Flags
<1>4. CASE w \in {"lock"} \X Locks
  BY <1>4 DEF Keys, Flags
<1> QED
  BY <1>1, <1>2, <1>3, <1>4 DEF Write

LEMMA SettingsAre ==
  ASSUME NEW c \in Settings
  PROVE  DOMAIN c = Keys
BY DEF Settings, Keys, Flags

\* The settings after a write.
Written(c, w) == [c EXCEPT ![w[1]] = w[2]]

LEMMA WriteKeeps ==
  ASSUME NEW c \in Settings, NEW w \in Write
  PROVE  /\ Written(c, w) \in Settings /\ Written(c, w)[w[1]] = w[2]
         /\ \A k \in Keys \ {w[1]} : Written(c, w)[k] = c[k]
<1> DEFINE d == [c EXCEPT ![w[1]] = w[2]]
<1>1. w[1] \in Keys /\ DOMAIN c = Keys
  BY WriteIs, SettingsAre
<1>2. DOMAIN d = Keys /\ d[w[1]] = w[2] /\ \A k \in Keys \ {w[1]} : d[k] = c[k]
  BY <1>1
<1>3. d \in Settings
  BY <1>1, WriteIs DEF Settings, Keys, Flags
<1> QED
  BY <1>2, <1>3 DEF Written

\* Making the first write changes nothing of what will be.
LEMMA StoreKeepsWill ==
  ASSUME NEW c \in Settings, NEW s \in Seq(Write), s # <<>>, Once(s), NEW k \in Keys, NEW v
  PROVE  Will(Written(c, Head(s)), Tail(s), k, v) <=> Will(c, s, k, v)
<1> DEFINE t == Tail(s)
           d == Written(c, Head(s))
<1>1. /\ Len(s) \in Nat \ {0} /\ Head(s) = s[1] /\ Head(s) \in Write /\ Len(t) = Len(s) - 1
      /\ \A i \in 1 .. Len(t) : t[i] = s[i + 1] /\ i + 1 \in 1 .. Len(s)
  BY HeadAndTail
<1>2. s[1] = <<s[1][1], s[1][2]>>
  BY <1>1, WriteIs
<1>3. d[s[1][1]] = s[1][2] /\ \A l \in Keys \ {s[1][1]} : d[l] = c[l]
  BY <1>1, WriteKeeps
<1>4. \A i \in 1 .. Len(s) : i = 1 \/ (i - 1 \in 1 .. Len(t) /\ s[i] = t[i - 1])
  BY <1>1
<1> HIDE DEF t, d
<1>5. CASE k = s[1][1]
  <2>1. \A i \in 1 .. Len(s) : s[i][1] = k => i = 1
    BY <1>1, <1>5 DEF Once
  <2>2. ~ \E i \in 1 .. Len(t) : t[i][1] = k
    <3>1. ASSUME NEW i \in 1 .. Len(t), t[i][1] = k PROVE FALSE
      <4>1. i + 1 \in 1 .. Len(s) /\ s[i + 1][1] = k
        BY <1>1, <3>1
      <4>2. i + 1 = 1
        BY <2>1, <4>1
      <4> QED
        BY <1>1, <4>2
    <3> QED
      BY <3>1
  <2>3. Will(d, t, k, v) <=> s[1][2] = v
    BY <1>3, <1>5, <2>2 DEF Will
  <2>4. 1 \in 1 .. Len(s)
    BY <1>1
  <2>5. (\E i \in 1 .. Len(s) : s[i] = <<k, v>>) <=> s[1] = <<k, v>>
    BY <2>1, <2>4
  <2>6. s[1] = <<k, v>> <=> s[1][2] = v
    BY <1>2, <1>5
  <2> QED
    <3>1. Will(c, s, k, v) <=> s[1] = <<k, v>>
      <4>1. \E i \in 1 .. Len(s) : s[i][1] = k
        BY <1>5, <2>4
      <4> QED
        BY <2>5, <4>1 DEF Will
    <3> QED
      BY <2>3, <2>6, <3>1 DEF t, d
<1>6. CASE k # s[1][1]
  <2>1. (\E i \in 1 .. Len(s) : s[i][1] = k) <=> \E i \in 1 .. Len(t) : t[i][1] = k
    BY <1>1, <1>4, <1>6
  <2>2. (\E i \in 1 .. Len(s) : s[i] = <<k, v>>) <=> \E i \in 1 .. Len(t) : t[i] = <<k, v>>
    <3>1. s[1] # <<k, v>>
      BY <1>6
    <3>2. ASSUME NEW i \in 1 .. Len(s), s[i] = <<k, v>> PROVE \E j \in 1 .. Len(t) : t[j] = <<k, v>>
      BY <1>4, <3>1, <3>2, Zenon
    <3>3. ASSUME NEW i \in 1 .. Len(t), t[i] = <<k, v>> PROVE \E j \in 1 .. Len(s) : s[j] = <<k, v>>
      BY <1>1, <3>3, Zenon
    <3> QED
      BY <3>2, <3>3, Zenon
  <2>3. d[k] = c[k]
    BY <1>3, <1>6
  <2> QED
    BY <2>1, <2>2, <2>3 DEF Will, t, d
<1> QED
  BY <1>5, <1>6

LEMMA StoreKeepsFit ==
  ASSUME NEW c \in Settings, NEW s \in Seq(Write), s # <<>>, Once(s)
  PROVE  /\ Online(Written(c, Head(s)), Tail(s)) <=> Online(c, s)
         /\ Claims(Written(c, Head(s)), Tail(s)) <=> Claims(c, s)
<1> DEFINE d == Written(c, Head(s))
<1>1. \A k \in Keys : \A v : Will(d, Tail(s), k, v) <=> Will(c, s, k, v)
  <2> SUFFICES ASSUME NEW k \in Keys, NEW v PROVE Will(d, Tail(s), k, v) <=> Will(c, s, k, v)
    OBVIOUS
  <2> QED
    BY StoreKeepsWill
<1>2. "mode" \in Keys /\ "provisioned" \in Keys /\ "ap" \in Keys
  BY DEF Keys, Flags
<1> QED
  BY <1>1, <1>2, Zenon DEF Online, Claims

LEMMA TailKeeps ==
  ASSUME NEW s \in Seq(Write), s # <<>>, Once(s)
  PROVE  Once(Tail(s)) /\ (Takes(Tail(s)) => Takes(s)) /\ (s \in {Giving} => Tail(s) = <<>>)
<1>1. Once(Tail(s))
  BY HeadAndTail DEF Once
<1>2. Takes(Tail(s)) => Takes(s)
  BY HeadAndTail DEF Takes
<1>3. s = Giving => Len(Tail(s)) = 0
  BY HeadAndTail, ShortLists
<1>4. s = Giving => Tail(s) = <<>>
  BY <1>3, HeadAndTail
<1> QED
  BY <1>1, <1>2, <1>4

\* Settings that agree on three keys.
LEMMA SameFit ==
  ASSUME NEW c, NEW d, d["mode"] = c["mode"], d["provisioned"] = c["provisioned"], d["ap"] = c["ap"], NEW s
  PROVE  (Online(d, s) <=> Online(c, s)) /\ (Claims(d, s) <=> Claims(c, s))
<1>1. \A k \in {"mode", "provisioned", "ap"} : \A v : Will(d, s, k, v) <=> Will(c, s, k, v)
  BY DEF Will
<1> QED
  BY <1>1, Zenon DEF Online, Claims

-----------------------------------------------------------------------------
(***************************************************************************)
(* Steps of one process                                                    *)
(***************************************************************************)

LEMMA GotoIs ==
  ASSUME Types, NEW p \in Procs, NEW a \in Stages, NEW s \in Seq(Write), Goto(p, a, s)
  PROVE  /\ proc' \in [Procs -> Process]
         /\ proc'[p].at = a /\ proc'[p].todo = s /\ proc'[p].op = proc[p].op /\ proc'[p].gone = proc[p].gone
         /\ \A q \in Procs \ {p} : proc'[q] = proc[q]
<1>1. PICK new : new = [proc[p] EXCEPT !.at = a, !.todo = s] /\ proc' = [proc EXCEPT ![p] = new]
  BY DEF Goto
<1>2. proc[p] \in Process
  BY DEF Types
<1>3. new \in Process /\ new.at = a /\ new.todo = s /\ new.op = proc[p].op /\ new.gone = proc[p].gone
  BY <1>1, <1>2 DEF Process
<1> QED
  BY <1>1, <1>3 DEF Types

\* Stages a step of an operation leads to.
Reached == {"diagnose", "hotspot", "done", "verify", "restored", "unlock"}

\* Lists, mutex and lock when an operation comes to its next stage.
LEMMA Moves ==
  ASSUME DeviceInv, NEW p \in Procs, Working(p), NEW a \in Reached, NEW s \in Lists \ {Taking}, Goto(p, a, s),
         a \in OfRecovery => proc[p].op = "recover",
         a \in OfRequest => proc[p].op # "recover",
         a = "done" /\ proc[p].op = "recover" => s = Giving \/ (s = <<>> /\ cfg.lock # "recovery"),
         UNCHANGED <<cfg, recoveryMu, monitor>>, events \subseteq events'
  PROVE  Types' /\ (\A q \in Procs : Listed(q))' /\ MutexHeld' /\ LockOwned'
<1>1. a \in Stages /\ s \in Seq(Write) /\ Once(s) /\ ~Takes(s)
  BY ListFacts DEF Stages, Reached, OfRecovery, OfRequest
<1>2. /\ proc' \in [Procs -> Process] /\ proc'[p].at = a /\ proc'[p].todo = s /\ proc'[p].op = proc[p].op
      /\ \A q \in Procs \ {p} : proc'[q] = proc[q]
  BY <1>1, GotoIs DEF DeviceInv
<1>3. a \notin {"idle", "waiting"}
  BY DEF Reached
<1>4. Types'
  BY <1>2 DEF DeviceInv, Types
<1>5. ASSUME NEW q \in Procs PROVE Listed(q)'
  <2>1. CASE q = p
    BY <1>1, <1>2, <1>3, <2>1 DEF Listed, Working, Giving
  <2>2. CASE q # p
    BY <1>2, <2>2 DEF DeviceInv, Listed, Working
  <2> QED
    BY <2>1, <2>2
<1>6. MutexHeld'
  BY <1>2, <1>3 DEF DeviceInv, MutexHeld, Working
<1>7. LockOwned'
  <2> SUFFICES ASSUME cfg'.lock = "recovery", "restart" \notin events'
               PROVE  \E q \in Procs : recoveryMu' = q /\ ~At(q, "done")'
    BY DEF LockOwned
  <2>1. PICK h \in Procs : recoveryMu = h /\ ~At(h, "done")
    BY DEF DeviceInv, LockOwned
  <2>2. h # p => proc'[h] = proc[h]
    BY <1>2
  <2>3. h = p => proc[p].op = "recover"
    BY <2>1 DEF DeviceInv, MutexHeld
  <2>4. Giving # <<>>
    BY ShortLists
  <2>5. ~At(h, "done")'
    BY <1>2, <2>1, <2>2, <2>3, <2>4 DEF At
  <2> QED
    BY <2>1, <2>5
<1> QED
  BY <1>4, <1>5, <1>6, <1>7

\* An operation that keeps what its stage says, or settles.
LEMMA Advances ==
  ASSUME DeviceInv, NEW p \in Procs, Busy(p), \A q \in Procs \ {p} : proc'[q] = proc[q],
         events \subseteq events',
         Quiet' /\ Busy(p)' /\ (Quiet /\ Underway(p)) => Underway(p)',
         Quiet' /\ ~Busy(p)' /\ (Quiet /\ Underway(p)) => Agrees(<<>>)'
  PROVE  InOrder'
<1> SUFFICES ASSUME Quiet'
             PROVE  /\ \A r, q \in Procs : Busy(r)' /\ Busy(q)' => r = q
                    /\ \A q \in Procs : Busy(q)' => Underway(q)'
                    /\ (\A q \in Procs : ~Busy(q)') => Agrees(<<>>)'
  BY DEF InOrder
<1>1. Quiet
  BY DEF Quiet
<1>2. Underway(p) /\ \A q \in Procs \ {p} : ~Busy(q)
  BY <1>1 DEF DeviceInv, InOrder
<1>3. \A q \in Procs \ {p} : ~Busy(q)'
  BY <1>2 DEF Busy, Working, At
<1> QED
  BY <1>1, <1>2, <1>3

\* A step that leaves the operations and what a user is told as they are.
LEMMA Aside ==
  ASSUME DeviceInv, events \subseteq events',
         cfg'["mode"] = cfg["mode"], cfg'["provisioned"] = cfg["provisioned"], cfg'["ap"] = cfg["ap"],
         link = "hotspot" => link' = "hotspot",
         \A q \in Procs : \/ proc'[q].at = proc[q].at /\ proc'[q].todo = proc[q].todo
                          \/ ~Busy(q) /\ ~Busy(q)'
  PROVE  InOrder'
<1> SUFFICES ASSUME Quiet'
             PROVE  /\ \A r, q \in Procs : Busy(r)' /\ Busy(q)' => r = q
                    /\ \A q \in Procs : Busy(q)' => Underway(q)'
                    /\ (\A q \in Procs : ~Busy(q)') => Agrees(<<>>)'
  BY DEF InOrder
<1>1. /\ \A r, q \in Procs : Busy(r) /\ Busy(q) => r = q
      /\ \A q \in Procs : Busy(q) => Underway(q)
      /\ (\A q \in Procs : ~Busy(q)) => Agrees(<<>>)
  BY DEF DeviceInv, InOrder, Quiet
<1>2. \A q \in Procs : (Busy(q)' <=> Busy(q)) /\ (Busy(q) => proc'[q].at = proc[q].at /\ proc'[q].todo = proc[q].todo)
  BY DEF Busy, Working, At
<1>3. \A s : (Online(cfg', s) <=> Online(cfg, s)) /\ (Claims(cfg', s) <=> Claims(cfg, s))
  BY SameFit
<1>4. \A s : Agrees(s) => Agrees(s)'
  BY <1>3 DEF Agrees
<1>5. ASSUME NEW q \in Procs, Busy(q)' PROVE Underway(q)'
  <2>1. Underway(q) /\ proc'[q].at = proc[q].at /\ proc'[q].todo = proc[q].todo
    BY <1>1, <1>2, <1>5
  <2>2. Agrees(proc[q].todo) => Agrees(proc[q].todo)'
    BY <1>4, <2>1 DEF Agrees
  <2> QED
    BY <1>3, <1>4, <2>1 DEF Underway, Agrees
<1> QED
  BY <1>1, <1>2, <1>4, <1>5

\* An operation begins: no other does anything, or they overlap.
LEMMA Begins ==
  ASSUME DeviceInv, NEW p \in Procs, ~Working(p), \A q \in Procs \ {p} : proc'[q] = proc[q],
         UNCHANGED <<cfg, link>>, events' = events \cup Overlaps(p),
         proc'[p].at \notin {"idle", "waiting", "done"}, Agrees(<<>>) => Underway(p)'
  PROVE  InOrder'
<1> SUFFICES ASSUME Quiet'
             PROVE  /\ \A r, q \in Procs : Busy(r)' /\ Busy(q)' => r = q
                    /\ \A q \in Procs : Busy(q)' => Underway(q)'
                    /\ (\A q \in Procs : ~Busy(q)') => Agrees(<<>>)'
  BY DEF InOrder
<1>1. Quiet /\ \A q \in Procs \ {p} : ~Working(q)
  BY DEF Quiet, Overlaps
<1>2. \A q \in Procs : ~Busy(q)
  BY <1>1 DEF Busy
<1>3. Agrees(<<>>)
  BY <1>1, <1>2 DEF DeviceInv, InOrder
<1>4. \A q \in Procs \ {p} : ~Busy(q)'
  BY <1>1 DEF Busy, Working
<1>5. Busy(p)'
  BY DEF Busy, Working, At
<1> QED
  BY <1>3, <1>4, <1>5

\* What must be true of the settings when an operation comes to a stage.
Fits(p, a, s) ==
  /\ a \in {"done", "unlock"} => Agrees(s)
  /\ a = "verify" => Online(cfg, s)
  /\ a = "restored" => link = "hotspot"

LEMMA Goes ==
  ASSUME DeviceInv, NEW p \in Procs, Busy(p), NEW a \in Reached, NEW s \in Lists \ {Taking}, Goto(p, a, s),
         a \in OfRecovery => proc[p].op = "recover",
         a \in OfRequest => proc[p].op # "recover",
         a = "done" /\ proc[p].op = "recover" => s = Giving \/ (s = <<>> /\ cfg.lock # "recovery"),
         UNCHANGED <<cfg, recoveryMu, monitor>>, events \subseteq events',
         Underway(p) => Fits(p, a, s)'
  PROVE  DeviceInv'
<1>1. Types' /\ (\A q \in Procs : Listed(q))' /\ MutexHeld' /\ LockOwned'
  BY Moves DEF Busy
<1>2. a \in Stages /\ s \in Seq(Write)
  BY ListFacts DEF Stages, Reached, OfRecovery, OfRequest
<1>3. proc'[p].at = a /\ proc'[p].todo = s /\ \A q \in Procs \ {p} : proc'[q] = proc[q]
  BY <1>2, GotoIs DEF DeviceInv
<1>4. ASSUME Underway(p), Busy(p)' PROVE Underway(p)'
  <2>1. Fits(p, a, s)'
    BY <1>4
  <2> QED
    BY <1>3, <2>1 DEF Underway, Fits, Agrees, Reached
<1>5. ASSUME Underway(p), ~Busy(p)' PROVE Agrees(<<>>)'
  <2>1. a = "done" /\ s = <<>>
    BY <1>3, <1>5 DEF Busy, Working, At, Reached
  <2>2. Agrees(s)'
    BY <1>5, <2>1 DEF Fits
  <2> QED
    BY <2>1, <2>2 DEF Agrees
<1>6. InOrder'
  BY <1>3, <1>4, <1>5, Advances
<1> QED
  BY <1>1, <1>6 DEF DeviceInv

LEMMA StageFacts ==
  ASSUME DeviceInv, NEW p \in Procs
  PROVE  /\ proc[p].at \in OfRecovery => proc[p].op = "recover"
         /\ proc[p].at \in OfRequest => proc[p].op # "recover"
         /\ ~Working(p) => proc[p].todo = <<>>
         /\ proc[p] \in Process
BY DEF DeviceInv, Listed, Types

LEMMA RequestKeeps ==
  ASSUME DeviceInv, NEW p \in Procs,
         Connect(p) \/ Diagnose(p) \/ Disable(p) \/ Forget(p) \/ FactoryReset(p)
  PROVE  DeviceInv'
<1>1. Busy(p) /\ proc[p].op # "recover" /\ proc[p].todo = <<>>
  BY StageFacts DEF Connect, Diagnose, Disable, Forget, FactoryReset, At, Busy, Working, OfRequest
<1>2. UNCHANGED <<cfg, recoveryMu, monitor>> /\ events \subseteq events'
  BY DEF Connect, Diagnose, Disable, Forget, FactoryReset
<1>3. CASE Connect(p)
  <2>1. PICK a \in {"diagnose", "hotspot"}, s \in {<<>>, RollbackToProvisioning} : Goto(p, a, s)
    BY <1>3 DEF Connect
  <2>2. a \in Reached \ OfRecovery /\ s \in Lists \ {Taking} /\ a # "done"
    BY ShortLists, RollbackIs DEF Reached, OfRecovery, Lists
  <2>3. Fits(p, a, s)'
    BY DEF Fits
  <2> QED
    BY <1>1, <1>2, <2>1, <2>2, <2>3, Goes
<1>4. CASE Diagnose(p)
  <2>1. CASE Goto(p, "done", Onboarded)
    <3>1. Onboarded \in Lists \ {Taking} /\ "done" \in Reached \ (OfRecovery \cup OfRequest)
      BY ShortLists, OnboardedIs DEF Reached, OfRecovery, OfRequest, Lists
    <3>2. Fits(p, "done", Onboarded)'
      BY OnboardedSettles DEF Fits, Agrees
    <3> QED
      BY <1>1, <1>2, <2>1, <3>1, <3>2, Goes
  <2>2. CASE Goto(p, "hotspot", RollbackToProvisioning)
    <3>1. RollbackToProvisioning \in Lists \ {Taking} /\ "hotspot" \in Reached \ (OfRecovery \cup OfRequest)
      BY ShortLists, RollbackIs DEF Reached, OfRecovery, OfRequest, Lists
    <3>2. Fits(p, "hotspot", RollbackToProvisioning)'
      BY DEF Fits
    <3> QED
      BY <1>1, <1>2, <2>2, <3>1, <3>2, Goes
  <2> QED
    BY <1>4, <2>1, <2>2 DEF Diagnose, Onboarded
<1>5. CASE Disable(p)
  <2>1. "done" \in Reached \ (OfRecovery \cup OfRequest) /\ Off \in Lists \ {Taking} /\ <<>> \in Lists \ {Taking}
    BY ShortLists DEF Reached, OfRecovery, OfRequest, Lists
  <2>2. Underway(p) => Agrees(<<>>)
    BY <1>1, <1>5 DEF Disable, Underway, At
  <2>3. CASE Goto(p, "done", Off)
    <3>1. Underway(p) => Fits(p, "done", Off)'
      BY <1>2, <2>2, OffSettles DEF Fits, Agrees
    <3> QED
      BY <1>1, <1>2, <2>1, <2>3, <3>1, Goes
  <2>4. CASE Goto(p, "done", <<>>) /\ UNCHANGED <<link, events>>
    <3>1. Underway(p) => Fits(p, "done", <<>>)'
      BY <1>2, <2>2, <2>4 DEF Fits, Agrees
    <3> QED
      BY <1>1, <1>2, <2>1, <2>4, <3>1, Goes
  <2> QED
    BY <1>5, <2>3, <2>4 DEF Disable, Off
<1>6. CASE Forget(p)
  <2>1. "done" \in Reached \ (OfRecovery \cup OfRequest) /\ Forgotten \in Lists \ {Taking} /\ <<>> \in Lists \ {Taking}
    BY ShortLists DEF Reached, OfRecovery, OfRequest, Lists
  <2>2. Underway(p) => Agrees(<<>>)
    BY <1>1, <1>6 DEF Forget, Underway, At
  <2>3. (link = "hotspot" => link' = "hotspot") /\ events' = events
    BY <1>6 DEF Forget
  <2>4. PICK s \in {<<>>, Forgotten} : Goto(p, "done", s)
    BY <1>6 DEF Forget, Forgotten
  <2>5. Underway(p) => Fits(p, "done", s)'
    BY <1>2, <2>2, <2>3, <2>4, HarmlessKeeps DEF Fits, Agrees
  <2> QED
    BY <1>1, <1>2, <2>1, <2>4, <2>5, Goes
<1>7. CASE FactoryReset(p)
  <2>1. "hotspot" \in Reached \ (OfRecovery \cup OfRequest) /\ Cleared \in Lists \ {Taking}
    BY ShortLists, ClearedIs DEF Reached, OfRecovery, OfRequest, Lists
  <2>2. Goto(p, "hotspot", Cleared) /\ Fits(p, "hotspot", Cleared)'
    BY <1>7 DEF FactoryReset, Cleared, Fits
  <2> QED
    BY <1>1, <1>2, <2>1, <2>2, Goes
<1> QED
  BY <1>3, <1>4, <1>5, <1>6, <1>7

LEMMA HotspotKeeps ==
  ASSUME DeviceInv, NEW p \in Procs, HotspotStarts(p) \/ HotspotFails(p)
  PROVE  DeviceInv'
<1>1. Busy(p)
  BY DEF HotspotStarts, HotspotFails, At, Busy, Working
<1>2. UNCHANGED <<cfg, recoveryMu, monitor, events>>
  BY DEF HotspotStarts, HotspotFails
<1>3. {"restored", "unlock", "done"} \subseteq Reached \ OfRequest /\ "done" \notin OfRecovery
  BY DEF Reached, OfRequest, OfRecovery
<1>4. CASE HotspotStarts(p)
  <2>1. HotspotUp \in Lists \ {Taking}
    BY ShortLists, HotspotUpIs DEF Lists
  <2>2. link' = "hotspot" /\ Goto(p, IF proc[p].op = "recover" THEN "restored" ELSE "done", HotspotUp)
    BY <1>4 DEF HotspotStarts, HotspotUp
  <2>3. \A a : Fits(p, a, HotspotUp)'
    BY <2>2, HotspotSettles DEF Fits, Agrees
  <2>4. CASE proc[p].op = "recover"
    <3>1. Goto(p, "restored", HotspotUp)
      BY <2>2, <2>4
    <3> QED
      BY <1>1, <1>2, <1>3, <2>1, <2>3, <2>4, <3>1, Goes
  <2>5. CASE proc[p].op # "recover"
    <3>1. Goto(p, "done", HotspotUp)
      BY <2>2, <2>5
    <3> QED
      BY <1>1, <1>2, <1>3, <2>1, <2>3, <2>5, <3>1, Goes
  <2> QED
    BY <2>4, <2>5
<1>5. CASE HotspotFails(p)
  <2>1. Failed \in Lists \ {Taking}
    BY ShortLists DEF Lists
  <2>2. Goto(p, IF proc[p].op = "recover" THEN "unlock" ELSE "done", Failed)
    BY <1>5 DEF HotspotFails, Failed
  <2>3. \A a \in {"unlock", "done"} : Fits(p, a, Failed)'
    BY FailedSettles DEF Fits, Agrees
  <2>4. CASE proc[p].op = "recover"
    <3>1. Goto(p, "unlock", Failed)
      BY <2>2, <2>4
    <3> QED
      BY <1>1, <1>2, <1>3, <2>1, <2>3, <2>4, <3>1, Goes
  <2>5. CASE proc[p].op # "recover"
    <3>1. Goto(p, "done", Failed)
      BY <2>2, <2>5
    <3> QED
      BY <1>1, <1>2, <1>3, <2>1, <2>3, <2>5, <3>1, Goes
  <2> QED
    BY <2>4, <2>5
<1> QED
  BY <1>4, <1>5

LEMMA RecoveryKeeps ==
  ASSUME DeviceInv, NEW p \in Procs, Reconnect(p) \/ Verify(p) \/ Restored(p) \/ Unlock(p)
  PROVE  DeviceInv'
<1>1. Busy(p) /\ proc[p].op = "recover" /\ proc[p].todo = <<>>
  BY StageFacts DEF Reconnect, Verify, Restored, Unlock, At, Busy, Working, OfRecovery
<1>2. UNCHANGED <<cfg, recoveryMu, monitor>> /\ events \subseteq events'
  BY DEF Reconnect, Verify, Restored, Unlock
<1>3. {"verify", "hotspot", "unlock", "done"} \subseteq Reached \ OfRequest
  BY DEF Reached, OfRequest
<1>4. <<>> \in Lists \ {Taking} /\ Cooldown \in Lists \ {Taking} /\ AllRestored \in Lists \ {Taking}
      /\ Giving \in Lists \ {Taking}
  BY ShortLists, CooldownIs, RestoredIs DEF Lists
<1>5. CASE Reconnect(p)
  <2>1. Underway(p) => Online(cfg, <<>>)
    BY <1>1, <1>5 DEF Reconnect, Underway, At
  <2>2. PICK a \in {"verify", "hotspot"} : Goto(p, a, <<>>)
    BY <1>5 DEF Reconnect
  <2>3. Underway(p) => Fits(p, a, <<>>)'
    BY <1>2, <2>1 DEF Fits
  <2> QED
    BY <1>1, <1>2, <1>3, <1>4, <2>2, <2>3, Goes
<1>6. CASE Verify(p)
  <2>1. Underway(p) => Online(cfg, <<>>)
    BY <1>1, <1>6 DEF Verify, Underway, At
  <2>2. CASE Goto(p, "unlock", Cooldown) /\ (cfg.mode = "provisioning" => "rejoined" \in events')
    <3>1. Claims(cfg, <<>>) => cfg.mode = "provisioning"
      BY Harmless DEF Claims
    <3>2. Underway(p) => Fits(p, "unlock", Cooldown)'
      BY <1>2, <2>1, <2>2, <3>1, HarmlessKeeps DEF Fits, Agrees
    <3> QED
      BY <1>1, <1>2, <1>3, <1>4, <2>2, <3>2, Goes
  <2>3. CASE Goto(p, "hotspot", <<>>)
    <3>1. Fits(p, "hotspot", <<>>)'
      BY DEF Fits
    <3> QED
      BY <1>1, <1>2, <1>3, <1>4, <2>3, <3>1, Goes
  <2> QED
    BY <1>6, <2>2, <2>3 DEF Verify
<1>7. CASE Restored(p)
  <2>1. Underway(p) => link = "hotspot"
    BY <1>7 DEF Restored, Underway, At
  <2>2. Goto(p, "unlock", AllRestored) /\ link' = link
    BY <1>7 DEF Restored, AllRestored
  <2>3. Underway(p) => Fits(p, "unlock", AllRestored)'
    BY <2>1, <2>2, HotspotSettles DEF Fits, Agrees
  <2> QED
    BY <1>1, <1>2, <1>3, <1>4, <2>2, <2>3, Goes
<1>8. CASE Unlock(p)
  <2>1. Underway(p) => Agrees(<<>>)
    BY <1>1, <1>8 DEF Unlock, Underway, At
  <2>2. Goto(p, "done", IF cfg.lock = "recovery" THEN Giving ELSE <<>>) /\ UNCHANGED <<link, events>>
    BY <1>8 DEF Unlock, Giving
  <2>3. \A s \in {<<>>, Giving} : Underway(p) => Fits(p, "done", s)'
    BY <1>2, <2>1, <2>2, HarmlessKeeps DEF Fits, Agrees
  <2>4. CASE cfg.lock = "recovery"
    <3>1. Goto(p, "done", Giving)
      BY <2>2, <2>4
    <3> QED
      BY <1>1, <1>2, <1>3, <1>4, <2>3, <3>1, Goes
  <2>5. CASE cfg.lock # "recovery"
    <3>1. Goto(p, "done", <<>>)
      BY <2>2, <2>5
    <3> QED
      BY <1>1, <1>2, <1>3, <1>4, <2>3, <2>5, <3>1, Goes
  <2> QED
    BY <2>4, <2>5
<1> QED
  BY <1>5, <1>6, <1>7, <1>8

LEMMA StoreKeeps ==
  ASSUME DeviceInv, NEW p \in Procs, Store(p)
  PROVE  DeviceInv'
<1> DEFINE s == proc[p].todo
<1>1. s # <<>> /\ Working(p) /\ Listed(p)
  BY StageFacts DEF Store, DeviceInv
<1>2. proc[p] \in Process /\ cfg \in Settings
  BY DEF DeviceInv, Types
<1>3. s \in Seq(Write) /\ Head(s) \in Write /\ Tail(s) \in Seq(Write)
  BY <1>1, <1>2, HeadAndTail DEF Process
<1>4. cfg' = Written(cfg, Head(s))
  BY DEF Store, Written
<1>5. PICK new : new = [proc[p] EXCEPT !.todo = Tail(@)] /\ proc' = [proc EXCEPT ![p] = new]
  BY DEF Store
<1>6. new \in Process /\ new.at = proc[p].at /\ new.op = proc[p].op /\ new.todo = Tail(s)
  BY <1>2, <1>3, <1>5 DEF Process
<1>7. /\ proc' \in [Procs -> Process] /\ proc'[p].at = proc[p].at /\ proc'[p].op = proc[p].op
      /\ proc'[p].todo = Tail(s) /\ \A q \in Procs \ {p} : proc'[q] = proc[q]
  BY <1>5, <1>6 DEF DeviceInv, Types
<1>8. cfg' \in Settings /\ cfg'[Head(s)[1]] = Head(s)[2] /\ \A k \in Keys \ {Head(s)[1]} : cfg'[k] = cfg[k]
  BY <1>2, <1>3, <1>4, WriteKeeps
<1>9. UNCHANGED <<link, recoveryMu, monitor, events>>
  BY DEF Store
<1>10. Once(s) /\ Once(Tail(s)) /\ (Takes(Tail(s)) => Takes(s)) /\ (s = Giving => Tail(s) = <<>>)
  BY <1>1, <1>3, TailKeeps DEF Listed
<1>11. Types'
  BY <1>7, <1>8, <1>9 DEF DeviceInv, Types
<1>12. ASSUME NEW q \in Procs PROVE Listed(q)'
  <2>1. CASE q = p
    <3>1. s \in {<<>>, << <<"lock", "none">> >>} => Tail(s) = <<>>
      BY <1>1, <1>10 DEF Giving
    <3> QED
      BY <1>1, <1>7, <1>10, <2>1, <3>1 DEF Listed, Working
  <2>2. CASE q # p
    BY <1>7, <2>2 DEF DeviceInv, Listed, Working
  <2> QED
    BY <2>1, <2>2
<1>13. MutexHeld'
  BY <1>7, <1>9 DEF DeviceInv, MutexHeld, Working
<1>14. LockOwned'
  <2> SUFFICES ASSUME cfg'.lock = "recovery", "restart" \notin events
               PROVE  \E q \in Procs : recoveryMu = q /\ ~At(q, "done")'
    BY <1>9 DEF LockOwned
  <2>1. "lock" \in Keys
    BY DEF Keys
  <2>2. CASE Head(s)[1] = "lock"
    <3>1. Head(s) = <<"lock", "recovery">>
      BY <1>3, <1>8, <2>2, WriteIs
    <3>2. Takes(s)
      BY <1>1, <1>3, <3>1, HeadAndTail DEF Takes
    <3>3. proc[p].at = "reconnect" /\ proc[p].op = "recover"
      BY <1>1, <3>2 DEF Listed, OfRecovery
    <3>4. recoveryMu = p
      BY <1>1, <3>3 DEF DeviceInv, MutexHeld
    <3> QED
      BY <1>7, <3>3, <3>4 DEF At
  <2>3. CASE Head(s)[1] # "lock"
    <3>1. cfg.lock = "recovery"
      BY <1>8, <2>1, <2>3
    <3>2. PICK h \in Procs : recoveryMu = h /\ ~At(h, "done")
      BY <3>1 DEF DeviceInv, LockOwned
    <3>3. CASE h = p /\ proc[p].at = "done"
      <4>1. s = Giving
        BY <1>1, <3>2, <3>3 DEF DeviceInv, MutexHeld, Listed, Giving
      <4>2. Head(s)[1] = "lock"
        BY <1>3, <4>1, HeadAndTail, ShortLists
      <4> QED
        BY <2>3, <4>2
    <3>4. CASE ~(h = p /\ proc[p].at = "done")
      BY <1>7, <3>2, <3>4 DEF At
    <3> QED
      BY <3>3, <3>4
  <2> QED
    BY <2>2, <2>3
<1>15. /\ Online(cfg', Tail(s)) <=> Online(cfg, s)
       /\ Claims(cfg', Tail(s)) <=> Claims(cfg, s)
  BY <1>1, <1>2, <1>3, <1>4, <1>10, StoreKeepsFit
<1>16. Agrees(s) => (Online(cfg', Tail(s)) /\ (Claims(cfg', Tail(s)) => link' = "hotspot" \/ "rejoined" \in events'))
  BY <1>9, <1>15 DEF Agrees
<1>17. Busy(p)
  BY <1>1 DEF Busy, At
<1>18. ASSUME Underway(p) PROVE Underway(p)'
  BY <1>7, <1>9, <1>15, <1>16, <1>18 DEF Underway, Agrees
<1>19. ASSUME Underway(p), ~Busy(p)' PROVE Agrees(<<>>)'
  <2>1. proc[p].at = "done" /\ Tail(s) = <<>>
    BY <1>1, <1>7, <1>19 DEF Busy, Working, At
  <2> QED
    BY <1>16, <1>19, <2>1 DEF Underway, Agrees
<1>20. InOrder'
  BY <1>7, <1>9, <1>17, <1>18, <1>19, Advances
<1> QED
  BY <1>11, <1>12, <1>13, <1>14, <1>20 DEF DeviceInv

\* A process that is idle, and one that is.
LEMMA IdleIs ==
  Idle \in Process /\ Idle.at = "idle" /\ Idle.op = "none" /\ Idle.todo = <<>>
BY DEF Idle, Process, Stages

LEMMA EmptyList == Once(<<>>) /\ ~Takes(<<>>)
BY DEF Once, Takes

LEMMA ReturnKeeps ==
  ASSUME DeviceInv, NEW p \in Procs, Return(p)
  PROVE  DeviceInv'
<1>1. /\ proc' \in [Procs -> Process] /\ proc'[p].at = "idle" /\ proc'[p].op = "none" /\ proc'[p].todo = <<>>
      /\ \A q \in Procs \ {p} : proc'[q] = proc[q]
  BY IdleIs DEF Return, DeviceInv, Types
<1>2. UNCHANGED <<cfg, link, monitor, events>> /\ At(p, "done") /\ recoveryMu' \in {recoveryMu, None}
      /\ (recoveryMu' = recoveryMu \/ recoveryMu = p) /\ (recoveryMu = p => recoveryMu' = None)
  BY DEF Return
<1>3. Types'
  BY <1>1, <1>2 DEF DeviceInv, Types
<1>4. ASSUME NEW q \in Procs PROVE Listed(q)'
  <2>1. CASE q = p
    BY <1>1, <2>1, EmptyList DEF Listed, OfRecovery, OfRequest
  <2>2. CASE q # p
    BY <1>1, <2>2 DEF DeviceInv, Listed, Working
  <2> QED
    BY <2>1, <2>2
<1>5. None \notin Procs
  BY DEF Procs
<1>6. MutexHeld'
  <2>1. ASSUME NEW q \in Procs PROVE (recoveryMu' = q <=> proc'[q].op = "recover" /\ Working(q)')
    <3>1. CASE q = p
      BY <1>1, <1>2, <1>5, <3>1 DEF Working
    <3>2. CASE q # p
      BY <1>1, <1>2, <1>5, <3>2 DEF DeviceInv, MutexHeld, Working
    <3> QED
      BY <3>1, <3>2
  <2> QED
    BY <2>1 DEF MutexHeld
<1>7. LockOwned'
  BY <1>1, <1>2 DEF DeviceInv, LockOwned, At
<1>8. ~Busy(p) /\ ~Busy(p)'
  BY <1>1, <1>2 DEF Busy, Working
<1>9. InOrder'
  BY <1>1, <1>2, <1>8, Aside
<1> QED
  BY <1>3, <1>4, <1>6, <1>7, <1>9 DEF DeviceInv

\* What a handler begins with, but for the wait for a recovery.
First(op) ==
  CASE op = "connect" -> "connect"
    [] op \in {"enable", "rollback"} -> "hotspot"
    [] op \in {"disable", "forget", "reset"} -> op
    [] op = "recover" -> "waiting"

FirstWrites(op) ==
  CASE op = "connect" -> Connecting
    [] op = "rollback" -> RollbackToProvisioning
    [] OTHER -> <<>>

LEMMA FirstFacts ==
  ASSUME NEW op \in Ops
  PROVE  /\ op = "recover" => First(op) = "waiting" /\ FirstWrites(op) = <<>>
         /\ op # "recover" => First(op) \in {"connect", "hotspot", "disable", "forget", "reset"}
         /\ First(op) \in {"disable", "forget"} => FirstWrites(op) = <<>>
         /\ FirstWrites(op) \in Lists \ {Taking}
<1>1. /\ <<>> \in Lists \ {Taking} /\ Connecting \in Lists \ {Taking}
      /\ RollbackToProvisioning \in Lists \ {Taking}
  BY ShortLists, RollbackIs DEF Lists
<1>2. CASE op = "connect"
  BY <1>1, <1>2 DEF First, FirstWrites
<1>3. CASE op = "enable"
  BY <1>1, <1>3 DEF First, FirstWrites
<1>4. CASE op = "rollback"
  BY <1>1, <1>4 DEF First, FirstWrites
<1>5. CASE op \in {"disable", "forget", "reset"}
  BY <1>1, <1>5 DEF First, FirstWrites
<1>6. CASE op = "recover"
  BY <1>1, <1>6 DEF First, FirstWrites
<1> QED
  BY <1>2, <1>3, <1>4, <1>5, <1>6 DEF Ops

\* A process that was idle stands at the beginning of something.
LEMMA Rises ==
  ASSUME DeviceInv, NEW p \in Procs, proc[p] = Idle, NEW new \in Process, proc' = [proc EXCEPT ![p] = new],
         new.at \in OfRecovery => new.op = "recover" /\ new.at = "waiting",
         new.at \notin OfRecovery => new.op # "recover",
         new.at # "idle", new.at = "waiting" => new.todo = <<>>, Once(new.todo), ~Takes(new.todo),
         cfg' \in Settings, cfg'["lock"] = cfg["lock"], recoveryMu' = recoveryMu, monitor'.streak \in 0 .. Threshold,
         events \subseteq events'
  PROVE  /\ Types' /\ (\A q \in Procs : Listed(q))' /\ MutexHeld' /\ LockOwned'
         /\ proc'[p] = new /\ \A q \in Procs \ {p} : proc'[q] = proc[q]
<1>1. proc' \in [Procs -> Process] /\ proc'[p] = new /\ \A q \in Procs \ {p} : proc'[q] = proc[q]
  BY DEF DeviceInv, Types
<1>2. Types'
  BY <1>1 DEF DeviceInv, Types
<1>3. proc[p].at = "idle" /\ ~Working(p) /\ recoveryMu # p
  BY IdleIs DEF DeviceInv, MutexHeld, Working
<1>4. ASSUME NEW q \in Procs PROVE Listed(q)'
  <2>1. CASE q = p
    BY <1>1, <2>1 DEF Listed, Working, OfRecovery, OfRequest
  <2>2. CASE q # p
    BY <1>1, <2>2 DEF DeviceInv, Listed, Working
  <2> QED
    BY <2>1, <2>2
<1>5. MutexHeld'
  <2>1. ASSUME NEW q \in Procs PROVE (recoveryMu' = q <=> proc'[q].op = "recover" /\ Working(q)')
    <3>1. CASE q = p
      BY <1>1, <1>3, <3>1 DEF Working, OfRecovery
    <3>2. CASE q # p
      BY <1>1, <3>2 DEF DeviceInv, MutexHeld, Working
    <3> QED
      BY <3>1, <3>2
  <2> QED
    BY <2>1 DEF MutexHeld
<1>6. LockOwned'
  BY <1>1, <1>3 DEF DeviceInv, LockOwned, At
<1> QED
  BY <1>1, <1>2, <1>4, <1>5, <1>6

LEMMA BeginKeeps ==
  ASSUME DeviceInv, NEW c \in Calls, NEW op \in Ops, Begin(c, op)
  PROVE  DeviceInv'
<1>1. c \in Procs /\ proc[c] = Idle /\ UNCHANGED <<cfg, link, recoveryMu, monitor>>
  BY DEF Begin, Procs
<1>2. PICK new : new = [Idle EXCEPT !.op = op, !.at = First(op), !.todo = FirstWrites(op)]
                 /\ proc' = [proc EXCEPT ![c] = new]
  BY DEF Begin, First, FirstWrites, Connecting
<1>3. FirstWrites(op) \in Seq(Write) /\ Once(FirstWrites(op)) /\ ~Takes(FirstWrites(op))
  BY FirstFacts, ListFacts
<1>4. First(op) \in Stages
  BY FirstFacts DEF Stages, OfRecovery, OfRequest
<1>5. new \in Process /\ new.op = op /\ new.at = First(op) /\ new.todo = FirstWrites(op)
  BY <1>2, <1>3, <1>4, IdleIs DEF Process, Idle
<1>6. /\ new.at \in OfRecovery => new.op = "recover" /\ new.at = "waiting"
      /\ new.at \notin OfRecovery => new.op # "recover"
      /\ new.at # "idle" /\ (new.at = "waiting" => new.todo = <<>>)
  BY <1>5, FirstFacts DEF OfRecovery
<1>7. events \subseteq events' /\ cfg' \in Settings /\ cfg'["lock"] = cfg["lock"] /\ monitor'.streak \in 0 .. Threshold
  BY <1>1 DEF Begin, DeviceInv, Types
<1>8. /\ Types' /\ (\A q \in Procs : Listed(q))' /\ MutexHeld' /\ LockOwned'
      /\ proc'[c] = new /\ \A q \in Procs \ {c} : proc'[q] = proc[q]
  <2>1. proc' = [proc EXCEPT ![c] = new]
    BY <1>2
  <2>2. Once(new.todo) /\ ~Takes(new.todo)
    BY <1>3, <1>5
  <2>3. recoveryMu' = recoveryMu /\ new \in Process
    BY <1>1, <1>5
  <2> QED
    BY <1>1, <1>6, <1>7, <2>1, <2>2, <2>3, Rises
<1>9. ~Working(c) /\ ~Busy(c)
  BY <1>1, IdleIs DEF Busy, Working
<1>10. CASE op = "recover"
  <2>1. events' = events /\ ~Busy(c)'
    BY <1>5, <1>8, <1>10, FirstFacts DEF Begin, Busy, Working
  <2> QED
    BY <1>1, <1>8, <1>9, <2>1, Aside DEF DeviceInv
<1>11. CASE op # "recover"
  <2>1. events' = events \cup Overlaps(c)
    BY <1>11 DEF Begin
  <2>2. proc'[c].at \in {"connect", "hotspot", "disable", "forget", "reset"}
        /\ (proc'[c].at \in {"disable", "forget"} => proc'[c].todo = <<>>)
    BY <1>5, <1>8, <1>11, FirstFacts
  <2>3. events \subseteq events'
    BY <1>7
  <2>4. Agrees(<<>>) => Underway(c)'
    BY <1>1, <2>2, <2>3 DEF Underway, Agrees
  <2> QED
    BY <1>1, <1>8, <1>9, <2>1, <2>2, <2>4, Begins DEF DeviceInv
<1> QED
  BY <1>10, <1>11

\* A step that touches neither operations nor lock.
LEMMA Elsewhere ==
  ASSUME DeviceInv, proc' \in [Procs -> Process],
         \A q \in Procs : proc'[q].at = proc[q].at /\ proc'[q].op = proc[q].op /\ proc'[q].todo = proc[q].todo,
         cfg' \in Settings,
         \A k \in {"mode", "provisioned", "ap", "lock"} : cfg'[k] = cfg[k],
         recoveryMu' = recoveryMu, monitor'.streak \in 0 .. Threshold, events' = events,
         link = "hotspot" => link' = "hotspot"
  PROVE  DeviceInv'
<1>1. Types' /\ (\A q \in Procs : Listed(q))'
  BY DEF DeviceInv, Types, Listed, Working
<1>2. MutexHeld'
  BY DEF DeviceInv, MutexHeld, Working
<1>3. LockOwned'
  <2>1. cfg'.lock = cfg.lock
    OBVIOUS
  <2> QED
    BY <2>1 DEF DeviceInv, LockOwned, At
<1>4. cfg'["mode"] = cfg["mode"] /\ cfg'["provisioned"] = cfg["provisioned"] /\ cfg'["ap"] = cfg["ap"]
  OBVIOUS
<1>5. InOrder'
  BY <1>4, Aside
<1> QED
  BY <1>1, <1>2, <1>3, <1>5 DEF DeviceInv

LEMMA RequestEndsKeeps ==
  ASSUME DeviceInv, NEW c \in Calls, RequestEnds(c)
  PROVE  DeviceInv'
<1>1. c \in Procs /\ UNCHANGED <<cfg, link, recoveryMu, monitor, events>> /\ proc[c] \in Process
  BY DEF RequestEnds, Procs, DeviceInv, Types
<1>2. PICK new : new = [proc[c] EXCEPT !.gone = TRUE] /\ proc' = [proc EXCEPT ![c] = new]
  BY DEF RequestEnds
<1>3. new \in Process /\ new.at = proc[c].at /\ new.op = proc[c].op /\ new.todo = proc[c].todo
  BY <1>1, <1>2 DEF Process
<1>4. proc' \in [Procs -> Process] /\ proc'[c] = new /\ \A q \in Procs \ {c} : proc'[q] = proc[q]
  BY <1>1, <1>2, <1>3 DEF DeviceInv, Types
<1>5. \A q \in Procs : proc'[q].at = proc[q].at /\ proc'[q].op = proc[q].op /\ proc'[q].todo = proc[q].todo
  BY <1>3, <1>4
<1> QED
  BY <1>1, <1>4, <1>5, Elsewhere DEF DeviceInv, Types

\* The monitor and the clock write keys that tell a user nothing.
LEMMA OtherKeys ==
  ASSUME DeviceInv, NEW n \in 0 .. Threshold,
         cfg' \in {cfg, [cfg EXCEPT !.streak = n], [cfg EXCEPT !.cooling = FALSE]}
  PROVE  cfg' \in Settings /\ \A k \in {"mode", "provisioned", "ap", "lock"} : cfg'[k] = cfg[k]
<1>1. cfg \in Settings /\ DOMAIN cfg = Keys
  BY SettingsAre DEF DeviceInv, Types
<1>2. CASE cfg' = cfg
  BY <1>1, <1>2
<1>3. CASE cfg' = [cfg EXCEPT !.streak = n]
  BY <1>1, <1>3 DEF Settings, Keys, Flags
<1>4. CASE cfg' = [cfg EXCEPT !.cooling = FALSE]
  BY <1>1, <1>4 DEF Settings, Keys, Flags
<1> QED
  BY <1>2, <1>3, <1>4

LEMMA StreakFits ==
  ASSUME DeviceInv
  PROVE  monitor.streak \in 0 .. Threshold /\ cfg.streak \in 0 .. Threshold
BY DEF DeviceInv, Types, Settings

LEMMA RunsKeep ==
  ASSUME DeviceInv, Read \/ Reset \/ CooldownEnds \/ NetworkFails \/ NetworkReturns \/ Autoconnect
  PROVE  DeviceInv'
<1>1. UNCHANGED <<proc, recoveryMu, events>>
  BY DEF Read, Reset, CooldownEnds, NetworkFails, NetworkReturns, Autoconnect
<1>2. monitor'.streak \in 0 .. Threshold
  BY StreakFits DEF Read, Reset, CooldownEnds, NetworkFails, NetworkReturns, Autoconnect
<1>3. cfg' \in {cfg, [cfg EXCEPT !.streak = 0], [cfg EXCEPT !.cooling = FALSE]}
  BY DEF Read, Reset, CooldownEnds, NetworkFails, NetworkReturns, Autoconnect
<1>4. cfg' \in Settings /\ \A k \in {"mode", "provisioned", "ap", "lock"} : cfg'[k] = cfg[k]
  <2>1. 0 \in 0 .. Threshold
    OBVIOUS
  <2> QED
    BY <1>3, <2>1, OtherKeys
<1>5. link = "hotspot" => link' = "hotspot"
  BY DEF Read, Reset, CooldownEnds, NetworkFails, NetworkReturns, Autoconnect
<1> QED
  BY <1>1, <1>2, <1>4, <1>5, Elsewhere DEF DeviceInv, Types

LEMMA CountKeeps ==
  ASSUME DeviceInv, Count
  PROVE  DeviceInv'
<1>1. UNCHANGED <<link, recoveryMu, events>> /\ monitor'.streak \in 0 .. Threshold
      /\ cfg' = [cfg EXCEPT !.streak = monitor.streak]
  BY DEF Count
<1>2. cfg' \in Settings /\ \A k \in {"mode", "provisioned", "ap", "lock"} : cfg'[k] = cfg[k]
  BY <1>1, StreakFits, OtherKeys
<1>3. CASE proc' = proc
  BY <1>1, <1>2, <1>3, Elsewhere DEF DeviceInv, Types
<1>4. ASSUME NEW r \in Recoveries, proc[r] = Idle, NEW new, new = [Idle EXCEPT !.op = "recover", !.at = "waiting"],
             proc' = [proc EXCEPT ![r] = new]
      PROVE  DeviceInv'
  <2>1. r \in Procs
    BY DEF Procs
  <2>2. new \in Process /\ new.op = "recover" /\ new.at = "waiting" /\ new.todo = <<>>
    BY <1>4, IdleIs DEF Process, Idle, Stages, OfRecovery, Ops
  <2>3. cfg'["lock"] = cfg["lock"]
    BY <1>2
  <2>4. new.at \in OfRecovery /\ new.at # "idle" /\ Once(new.todo) /\ ~Takes(new.todo)
    BY <2>2, EmptyList DEF OfRecovery
  <2>5. /\ Types' /\ (\A q \in Procs : Listed(q))' /\ MutexHeld' /\ LockOwned'
        /\ proc'[r] = new /\ \A q \in Procs \ {r} : proc'[q] = proc[q]
    <3>1. proc[r] = Idle /\ proc' = [proc EXCEPT ![r] = new] /\ events \subseteq events'
      BY <1>1, <1>4
    <3> QED
      BY <1>1, <1>2, <2>1, <2>2, <2>3, <2>4, <3>1, Rises
  <2>6. ~Busy(r) /\ ~Busy(r)'
    BY <1>4, <2>2, <2>5, IdleIs DEF Busy, Working
  <2>7. cfg'["mode"] = cfg["mode"] /\ cfg'["provisioned"] = cfg["provisioned"] /\ cfg'["ap"] = cfg["ap"]
    BY <1>2
  <2>8. \A q \in Procs : \/ proc'[q].at = proc[q].at /\ proc'[q].todo = proc[q].todo
                         \/ ~Busy(q) /\ ~Busy(q)'
    BY <2>5, <2>6
  <2>9. InOrder'
    BY <1>1, <2>7, <2>8, Aside
  <2> QED
    BY <2>5, <2>9 DEF DeviceInv
<1> QED
  BY <1>3, <1>4 DEF Count

LEMMA RecoverKeeps ==
  ASSUME DeviceInv, NEW p \in Procs, Recover(p)
  PROVE  DeviceInv'
<1>1. proc[p].at = "waiting" /\ proc[p].op = "recover" /\ ~Working(p) /\ recoveryMu = None /\ recoveryMu' = p
      /\ UNCHANGED <<cfg, link, monitor>> /\ events \subseteq events'
  BY StageFacts DEF Recover, At, Working, OfRecovery
<1>2. PICK a \in {"done", "reconnect"}, s \in {<<>>, Taking} :
        /\ Goto(p, a, s)
        /\ \/ a = "done" /\ s = <<>> /\ events' = events
           \/ a = "reconnect" /\ s = Taking /\ events' = events \cup Overlaps(p) /\ cfg.lock # "recovery"
  BY DEF Recover, Taking
<1>3. a \in Stages /\ s \in Seq(Write) /\ Once(s) /\ (Takes(s) => s = Taking)
  BY ListFacts DEF Stages, OfRecovery, Lists
<1>4. /\ proc' \in [Procs -> Process] /\ proc'[p].at = a /\ proc'[p].todo = s /\ proc'[p].op = "recover"
      /\ \A q \in Procs \ {p} : proc'[q] = proc[q]
  BY <1>1, <1>2, <1>3, GotoIs DEF DeviceInv
<1>5. Types'
  BY <1>1, <1>4 DEF DeviceInv, Types
<1>6. ASSUME NEW q \in Procs PROVE Listed(q)'
  <2>1. CASE q = p
    BY <1>2, <1>3, <1>4, <2>1, EmptyList DEF Listed, Working, OfRecovery, OfRequest
  <2>2. CASE q # p
    BY <1>4, <2>2 DEF DeviceInv, Listed, Working
  <2> QED
    BY <2>1, <2>2
<1>7. None \notin Procs
  BY DEF Procs
<1>8. MutexHeld'
  <2>1. ASSUME NEW q \in Procs PROVE (recoveryMu' = q <=> proc'[q].op = "recover" /\ Working(q)')
    <3>1. CASE q = p
      BY <1>1, <1>2, <1>4, <3>1 DEF Working
    <3>2. CASE q # p
      BY <1>1, <1>4, <1>7, <3>2 DEF DeviceInv, MutexHeld, Working
    <3> QED
      BY <3>1, <3>2
  <2> QED
    BY <2>1 DEF MutexHeld
<1>9. cfg.lock = "recovery" => "restart" \in events
  BY <1>1, <1>7 DEF DeviceInv, LockOwned
<1>10. LockOwned'
  BY <1>1, <1>9 DEF LockOwned
<1>11. CASE a = "done"
  <2>1. ~Busy(p) /\ ~Busy(p)'
    BY <1>1, <1>2, <1>4, <1>11 DEF Busy, At
  <2>2. InOrder'
    BY <1>1, <1>4, <2>1, Aside
  <2> QED
    BY <1>5, <1>6, <1>8, <1>10, <2>2 DEF DeviceInv
<1>12. CASE a = "reconnect"
  <2>1. s = Taking /\ events' = events \cup Overlaps(p)
    BY <1>2, <1>12
  <2>2. Agrees(<<>>) => Underway(p)'
    BY <1>1, <1>4, <1>12, <2>1, HarmlessKeeps DEF Underway, Agrees
  <2>3. InOrder'
    BY <1>1, <1>4, <1>12, <2>1, <2>2, Begins
  <2> QED
    BY <1>5, <1>6, <1>8, <1>10, <2>3 DEF DeviceInv
<1> QED
  BY <1>11, <1>12

LEMMA RestartKeeps ==
  ASSUME DeviceInv, Restart
  PROVE  DeviceInv'
<1>1. /\ cfg' = cfg /\ recoveryMu' = None /\ monitor'.streak = 0 /\ "restart" \in events'
      /\ proc' = [p \in Procs |-> Idle]
  BY DEF Restart
<1>2. proc' \in [Procs -> Process] /\ \A p \in Procs : proc'[p].at = "idle" /\ proc'[p].op = "none" /\ proc'[p].todo = <<>>
  BY <1>1, IdleIs
<1>3. Types' /\ LockOwned' /\ InOrder'
  BY <1>1, <1>2 DEF DeviceInv, Types, LockOwned, InOrder, Quiet
<1>4. ASSUME NEW q \in Procs PROVE Listed(q)'
  BY <1>2, EmptyList DEF Listed, OfRecovery, OfRequest
<1>5. MutexHeld'
  BY <1>1, <1>2 DEF MutexHeld, Procs
<1> QED
  BY <1>3, <1>4, <1>5 DEF DeviceInv

LEMMA InitEstablishes == Init => DeviceInv
<1> SUFFICES ASSUME Init PROVE DeviceInv
  OBVIOUS
<1>1. cfg \in Settings
  BY DEF Init, Settings, Modes, Locks
<1>2. proc \in [Procs -> Process] /\ \A p \in Procs : proc[p].at = "idle" /\ proc[p].op = "none" /\ proc[p].todo = <<>>
  BY IdleIs DEF Init
<1>3. Types
  BY <1>1, <1>2 DEF Init, Types
<1>4. \A p \in Procs : Listed(p)
  BY <1>2, EmptyList DEF Listed, OfRecovery, OfRequest
<1>5. MutexHeld /\ LockOwned
  BY <1>2 DEF Init, MutexHeld, LockOwned, Procs
<1>6. Agrees(<<>>)
  <2>1. cfg["mode"] = "provisioning" /\ cfg["ap"] = FALSE
    BY DEF Init
  <2>2. ~Will(cfg, <<>>, "mode", "onboarding") /\ ~Will(cfg, <<>>, "ap", TRUE)
    <3>1. (Will(cfg, <<>>, "mode", "onboarding") <=> cfg["mode"] = "onboarding")
          /\ (Will(cfg, <<>>, "ap", TRUE) <=> cfg["ap"] = TRUE)
      BY Harmless
    <3>2. cfg["mode"] # "onboarding" /\ cfg["ap"] # TRUE
      BY <2>1
    <3> QED
      BY <3>1, <3>2, Zenon
  <2> QED
    BY <2>2 DEF Agrees, Online, Claims
<1>7. InOrder
  BY <1>2, <1>6 DEF InOrder, Busy, Working
<1> QED
  BY <1>3, <1>4, <1>5, <1>7 DEF DeviceInv

LEMMA DeviceStep == DeviceInv /\ [Next]_vars => DeviceInv'
<1> SUFFICES ASSUME DeviceInv, [Next]_vars PROVE DeviceInv'
  OBVIOUS
<1>1. ASSUME NEW c \in Calls, RequestEnds(c) PROVE DeviceInv'
  BY <1>1, RequestEndsKeeps
<1>2. ASSUME NEW c \in Calls, NEW op \in Ops, Begin(c, op) PROVE DeviceInv'
  BY <1>2, BeginKeeps
<1>3. ASSUME NEW p \in Procs, Step(p) PROVE DeviceInv'
  BY <1>3, StoreKeeps, ReturnKeeps, RequestKeeps, HotspotKeeps, RecoverKeeps, RecoveryKeeps DEF Step
<1>4. CASE Monitor
  BY <1>4, RunsKeep, CountKeeps DEF Monitor
<1>5. CASE CooldownEnds \/ NetworkFails \/ NetworkReturns \/ Autoconnect
  BY <1>5, RunsKeep
<1>6. CASE Restart
  BY <1>6, RestartKeeps
<1>7. CASE UNCHANGED vars
  BY <1>7, Elsewhere DEF vars, DeviceInv, Types
<1> QED
  BY <1>1, <1>2, <1>3, <1>4, <1>5, <1>6, <1>7 DEF Next

LEMMA InvConsistent == DeviceInv => Consistent
<1> SUFFICES ASSUME DeviceInv PROVE Consistent
  OBVIOUS
<1>1. cfg \in Settings
  BY DEF DeviceInv, Types
<1>2. LockHasOwner
  <2>1. cfg.mode \in Modes /\ cfg.streak \in 0 .. Threshold
    BY <1>1 DEF Settings
  <2>2. \A p \in Procs : recoveryMu = p => proc[p].op = "recover"
    BY DEF DeviceInv, MutexHeld
  <2>3. cfg.lock = "recovery" => recoveryMu # None \/ "restart" \in events
    BY DEF DeviceInv, LockOwned, Procs
  <2> QED
    BY <2>1, <2>2, <2>3 DEF LockHasOwner, Modes
<1>3. StatusAgrees
  <2> SUFFICES ASSUME events \cap {"overlap", "restart"} = {}, \A p \in Procs : ~Working(p)
               PROVE  /\ cfg.mode = "onboarding" => cfg.provisioned /\ ~cfg.ap
                      /\ cfg.mode = "provisioning" /\ cfg.ap => link = "hotspot" \/ "rejoined" \in events
    BY DEF StatusAgrees
  <2>1. Agrees(<<>>)
    BY DEF DeviceInv, InOrder, Quiet, Busy
  <2>2. cfg.mode = "onboarding" => cfg.provisioned = TRUE /\ cfg.ap = FALSE
    BY <2>1, Harmless DEF Agrees, Online
  <2>3. cfg.mode = "provisioning" /\ cfg.ap = TRUE => link = "hotspot" \/ "rejoined" \in events
    BY <2>1, Harmless DEF Agrees, Claims
  <2>4. cfg.provisioned \in BOOLEAN /\ cfg.ap \in BOOLEAN
    BY <1>1 DEF Settings
  <2> QED
    BY <2>2, <2>3, <2>4
<1> QED
  BY <1>2, <1>3 DEF Consistent

\* Whatever requests, recoveries, faults and outages come together: a recovery
\* lock belongs to a recovery, and between operations that did not overlap the
\* settings say how the device is.
THEOREM SettingsAgree == Spec => []Consistent
<1>1. Spec => []DeviceInv
  BY InitEstablishes, DeviceStep, PTL DEF Spec
<1> QED
  BY <1>1, InvConsistent, PTL

=============================================================================
