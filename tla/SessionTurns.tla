----------------------------- MODULE SessionTurns -----------------------------
(***************************************************************************)
(* Turns of one agent on one session (pkg/agent/loop.go): the inbox loop   *)
(* of Run, which takes user messages and results of background work one at *)
(* a time, direct calls (ProcessDirectWithChannel: cron, HTTP, LAN), which *)
(* run beside it on the same session, and the heartbeat, which shares only *)
(* the message tool.  The history is shortened by a summariser goroutine   *)
(* (summarizeSession, or the compactor in maybeCompact) and by the         *)
(* emergency compression of a turn whose prompt the model refuses.         *)
(*                                                                         *)
(* A message of the history is a record; a call message asks for n tools   *)
(* and each of its results carries one of the ids <<turn, round, i>>.  The *)
(* summary is the set of messages it tells of.  Each call of the session   *)
(* store is one step.                                                      *)
(***************************************************************************)
EXTENDS Naturals, FiniteSets, SequencesExt, Subsequences

CONSTANTS
  Turns,
  Kinds,         \* functions that say of each turn what it is: "user", a message in
                 \* the inbox, "system", a result of background work in the inbox,
                 \* or "direct", a call of ProcessDirectWithChannel
  KeepLast,      \* messages a summary leaves (4; the compactor's KeepRecent)
  Threshold,     \* SummarizeMessageThreshold
  Batch,         \* maxSummarizationMessages (10)
  MaxRetries,    \* maxRetries of the model call (2)
  MaxRounds,     \* bound: tool rounds of all turns (agent.MaxIterations of one)
  MaxCalls,      \* bound: tools one answer of the model asks for
  MaxFaults      \* bound: time-outs and refusals of the model, crashes, and
                 \* heartbeats that send a message

ASSUME SessionTurnsAssumption ==
  /\ Kinds \subseteq [Turns -> {"user", "system", "direct"}] /\ "summariser" \notin Turns
  /\ {KeepLast, Threshold, Batch, MaxCalls} \subseteq Nat \ {0}
  /\ {MaxRetries, MaxRounds, MaxFaults} \subseteq Nat

VARIABLES
  kind,       \* what each turn is
  compactor,  \* agent.Compactor # nil, fixed when the agent is built
  history,    \* messages of the session
  summary,    \* messages the summary of the session tells of
  tiered,     \* messages the compactor's own stored summary tells of
  turn,       \* [at, prompt, round, retry, n, got] of a turn
  job,        \* [at, snap, told] of a compression: a turn's own or the summariser's
  sentInRound,\* flag of the message tool
  messaged,   \* turns in progress whose message tool has sent
  said,       \* history variable: the messages that were saved
  mixed,      \* history variable: turns during which another one used the flag
  joint,      \* history variable: two turns were in progress at once
  late,       \* history variable: a message was saved while a copy was compressed
  lossy,      \* history variable: messages were left untold
  cleared,    \* history variable: what had been said when a user last cleared
  faults

vars == <<kind, compactor, history, summary, tiered, turn, job, sentInRound, messaged,
          said, mixed, joint, late, lossy, cleared, faults>>
session == <<history, summary, tiered>>
reply == <<sentInRound, messaged, mixed>>
ghosts == <<said, joint, late, lossy>>
steady == <<kind, compactor, cleared>>
rest == <<steady, faults>>

Of(k) == {t \in Turns : kind[t] = k}
UserTurns == Of("user")
SystemTurns == Of("system")
DirectTurns == Of("direct")
Inbox == UserTurns \union SystemTurns

Message(t, role, r, n) == [turn |-> t, role |-> role, round |-> r, n |-> n]
NoTurn == [at |-> "waiting", prompt |-> <<>>, round |-> 0, retry |-> 0,
           n |-> 0, got |-> 0]
Idle == [at |-> "idle", snap |-> <<>>, told |-> {}]

Summariser == "summariser"    \* the goroutine that the mark al.summarizing admits

Over == {"waiting", "published", "silent", "dead"}
Active == {t \in Turns : turn[t].at \notin Over}

Init ==
  /\ kind \in Kinds
  /\ compactor \in BOOLEAN
  /\ history = <<>> /\ summary = {} /\ tiered = {}
  /\ turn = [t \in Turns |-> NoTurn]
  /\ job = [p \in Turns \union {Summariser} |-> Idle]
  /\ sentInRound = FALSE
  /\ messaged = {}
  /\ said = {}
  /\ mixed = {} /\ joint = FALSE /\ late = FALSE /\ lossy = FALSE /\ cleared = {}
  /\ faults = 0

-----------------------------------------------------------------------------
(***************************************************************************)
(* The prompt: BuildMessages and sanitizeHistoryForProvider                *)
(***************************************************************************)
Ids(m) == {<<m.turn, m.round, i>> : i \in 1 .. m.n}
Id(m) == <<m.turn, m.round, m.n>>

\* The tool messages that follow message i without a gap.
Results(s, i) ==
  {j \in i + 1 .. Len(s) : \A k \in i + 1 .. j : s[k].role = "tool"}

Answered(s, i) == Ids(s[i]) \subseteq {Id(s[j]) : j \in Results(s, i)}

\* First pass: does message m stay behind the messages s kept so far?
Admits(s, m) ==
  CASE m.role = "tool" -> \E i \in DOMAIN s : s[i].role = "call" /\ Len(s) + 1 \in Results(Append(s, m), i)
    [] m.role = "call" -> s # <<>> /\ Last(s).role \in {"user", "tool"}
    [] OTHER -> TRUE

FirstPass(h) ==
  LET kept[n \in 0 .. Len(h)] ==
        IF n = 0 THEN <<>>
        ELSE IF Admits(kept[n - 1], h[n]) THEN Append(kept[n - 1], h[n])
        ELSE kept[n - 1]
  IN  kept[Len(h)]

\* Mutant of Sanitize: without the second pass.
SanitizeOnce(h) == FirstPass(h)

\* Second pass: a call goes, with its results, unless every id is answered.
Sanitize(h) ==
  LET s == FirstPass(h)
      Dropped == UNION {{i} \union Results(s, i) :
                          i \in {c \in DOMAIN s : s[c].role = "call" /\ ~Answered(s, c)}}
  IN  Pick(s, DOMAIN s \ Dropped)

\* What a reader gets as the summary (getTieredSummary when there is none).
Summary == IF compactor /\ summary = {} THEN tiered ELSE summary

-----------------------------------------------------------------------------
(***************************************************************************)
(* processMessage, processSystemMessage, runAgentLoop                      *)
(***************************************************************************)
Save(m) ==
  /\ history' = Append(history, m)
  /\ said' = said \union {m}
  /\ late' = (late \/ \E p \in DOMAIN job : job[p].snap # <<>>)

Fault == faults < MaxFaults /\ faults' = faults + 1

\* The turn needs its prompt no more.
To(t, at) == turn' = [turn EXCEPT ![t] = [NoTurn EXCEPT !.at = at]]

Arrive(t) ==
  /\ turn[t].at = "waiting"
  /\ turn' = [turn EXCEPT ![t].at = "read", ![t].prompt = Sanitize(history)]
  /\ joint' = (joint \/ Active # {})
  /\ UNCHANGED <<session, job, messaged, said, late, lossy, rest>>

ResetSentInRound == sentInRound' = FALSE /\ mixed' = mixed \union Active

\* Mutant of ReadHistory: the flag keeps the value of an earlier round.
ReadHistoryKeepsFlag(t) ==
  /\ Arrive(t)
  /\ t \in Inbox => Active \intersect Inbox = {}
  /\ UNCHANGED <<mixed, sentInRound>>

ReadHistory(t) ==
  /\ Arrive(t)
  /\ t \in Inbox => Active \intersect Inbox = {}
  /\ IF t \in SystemTurns THEN UNCHANGED <<mixed, sentInRound>> ELSE ResetSentInRound

\* A result for an internal channel is only logged.
SkipInternal(t) ==
  /\ turn[t].at = "waiting" /\ t \in SystemTurns
  /\ Active \intersect Inbox = {}
  /\ To(t, "silent")
  /\ UNCHANGED <<session, job, reply, ghosts, rest>>

\* handleCommand answers without the model; /clear calls the store before.
HandleCommand(t) ==
  /\ turn[t].at = "read" /\ t \notin SystemTurns
  /\ To(t, "respond")
  /\ UNCHANGED <<session, job, reply, ghosts, rest>>

\* /clear: SetHistory with no messages, SetSummary with none.  The compactor's
\* stored tiers stay, and so does what a compression has read.
ClearHistory(t) ==
  /\ turn[t].at = "read" /\ t \notin SystemTurns
  /\ To(t, "clearing")
  /\ history' = <<>>
  /\ cleared' = said
  /\ UNCHANGED <<summary, tiered, job, reply, ghosts, kind, compactor, faults>>

ClearSummary(t) ==
  /\ turn[t].at = "clearing"
  /\ To(t, "respond")
  /\ summary' = {}
  /\ lossy' = (lossy \/ ~(summary \subseteq cleared))
  /\ UNCHANGED <<history, tiered, job, reply, said, joint, late, rest>>

SaveUser(t) ==
  LET m == Message(t, "user", 0, 0) IN
  /\ turn[t].at = "read"
  /\ turn' = [turn EXCEPT ![t].at = "model", ![t].prompt = Append(@, m)]
  /\ Save(m)
  /\ UNCHANGED <<summary, tiered, job, reply, joint, lossy, rest>>

(***************************************************************************)
(* runLLMIteration: an answer, tool calls, a refusal of the prompt, or an  *)
(* error.                                                                  *)
(***************************************************************************)
Answer(t) ==
  /\ turn[t].at = "model"
  /\ To(t, "answer")
  /\ UNCHANGED <<session, job, reply, ghosts, rest>>

AskTools(t, n) ==
  LET r == turn[t].round + 1
      m == Message(t, "call", r, n) IN
  /\ turn[t].at = "model"
  /\ Cardinality({c \in said : c.role = "call"}) < MaxRounds
  /\ turn' = [turn EXCEPT ![t] = [turn[t] EXCEPT !.at = "tools", !.round = r, !.retry = 0,
                                                 !.n = n, !.got = 0, !.prompt = Append(@, m)]]
  /\ Save(m)
  /\ UNCHANGED <<summary, tiered, job, reply, joint, lossy, rest>>

\* The message tool, executed among the others before any result is saved.
SendMessage(t) ==
  /\ turn[t].at = "tools" /\ turn[t].got = 0 /\ t \notin messaged
  /\ messaged' = messaged \union {t}
  /\ sentInRound' = TRUE
  /\ mixed' = mixed \union (Active \ {t})
  /\ UNCHANGED <<session, turn, job, ghosts, rest>>

\* ProcessHeartbeat keeps no history, but its message tool is the same one.
HeartbeatSends ==
  /\ Fault
  /\ sentInRound' = TRUE
  /\ mixed' = mixed \union Active
  /\ UNCHANGED <<session, turn, job, messaged, ghosts, steady>>

SaveResult(t) ==
  LET i == turn[t].got + 1
      m == Message(t, "tool", turn[t].round, i) IN
  /\ turn[t].at = "tools"
  /\ turn' = [turn EXCEPT ![t] = [turn[t] EXCEPT !.got = i, !.prompt = Append(@, m),
                                                 !.at = IF i = turn[t].n THEN "model" ELSE "tools"]]
  /\ Save(m)
  /\ UNCHANGED <<summary, tiered, job, reply, joint, lossy, rest>>

Fail(t) ==
  /\ turn[t].at = "model"
  /\ To(t, "failed")
  /\ UNCHANGED <<session, job, reply, ghosts, rest>>

\* A network timeout: the same prompt is sent again.
TimeOut(t) ==
  /\ turn[t].at = "model" /\ turn[t].retry < MaxRetries
  /\ Fault
  /\ turn' = [turn EXCEPT ![t].retry = @ + 1]
  /\ UNCHANGED <<session, job, reply, ghosts, steady>>

(***************************************************************************)
(* forceCompression: halve the history, or let the compactor shorten it.   *)
(***************************************************************************)
Keep(h) == SubSeq(h, Len(h) - KeepLast + 1, Len(h))
Start(at) == IF Len(history) <= KeepLast THEN Idle
             ELSE [at |-> at, snap |-> history, told |-> {}]

\* The model refuses the prompt: its context window is exceeded.
Refuse(t) ==
  /\ turn[t].at = "model" /\ turn[t].retry < MaxRetries
  /\ Fault
  /\ turn' = [turn EXCEPT ![t].at = "compress", ![t].retry = @ + 1, ![t].prompt = <<>>]
  /\ job' = [job EXCEPT ![t] = Start(IF compactor THEN "compact" ELSE "halve")]
  /\ UNCHANGED <<session, reply, ghosts, steady>>

\* The first message, the second half of those between, and the last one.
Halved(h) == <<Head(h)>> \o SubSeq(h, 2 + (Len(h) - 2) \div 2, Len(h))

\* Mutant of Halve: the last message is taken twice.
HalveTwice(t) ==
  /\ job[t].at = "halve"
  /\ history' = Append(Halved(job[t].snap), Last(job[t].snap))
  /\ job' = [job EXCEPT ![t] = Idle]
  /\ lossy' = TRUE
  /\ UNCHANGED <<summary, tiered, turn, reply, said, joint, late, rest>>

Halve(t) ==
  /\ job[t].at = "halve"
  /\ history' = Halved(job[t].snap)
  /\ job' = [job EXCEPT ![t] = Idle]
  /\ lossy' = TRUE
  /\ UNCHANGED <<summary, tiered, turn, reply, said, joint, late, rest>>

\* The prompt is built again, now without a current message.
Rebuild(t) ==
  /\ turn[t].at = "compress" /\ job[t].at = "idle"
  /\ turn' = [turn EXCEPT ![t].at = "model", ![t].prompt = Sanitize(history)]
  /\ UNCHANGED <<session, job, reply, ghosts, rest>>

(***************************************************************************)
(* The compactor, called by a turn (forceCompact) or in the background     *)
(* (maybeCompact): its model tells of the messages that will go, it stores *)
(* the tiers, and its caller replaces the history and then the summary.    *)
(***************************************************************************)
Compacted(h) == ToSet(IF Len(h) > KeepLast THEN SubSeq(h, 1, Len(h) - KeepLast) ELSE h)

CompactModel(p) ==
  /\ job[p].at = "compact" /\ job[p].snap # <<>>
  /\ \E l2 \in {Compacted(job[p].snap), {}} :
       /\ job' = [job EXCEPT ![p].at = "cut", ![p].told = l2]
       /\ tiered' = l2
       /\ lossy' = (lossy \/ l2 = {} \/ Summary # {})
  /\ UNCHANGED <<history, summary, turn, reply, said, joint, late, rest>>

\* Or there is nothing to compact.  In a turn the fallback is the old compression of a history read again.
CompactFails(p) ==
  /\ job[p].at = "compact"
  /\ job' = [job EXCEPT ![p] = IF p \in Turns THEN Start("halve") ELSE Idle]
  /\ UNCHANGED <<session, turn, reply, ghosts, rest>>

Cut(p) ==
  /\ job[p].at = "cut"
  /\ history' = IF Len(job[p].snap) > KeepLast THEN Keep(job[p].snap) ELSE history
  /\ job' = [job EXCEPT ![p].at = "tell"]
  /\ UNCHANGED <<summary, tiered, turn, reply, ghosts, rest>>

Tell(p) ==
  /\ job[p].at = "tell"
  /\ summary' = IF job[p].told = {} THEN summary ELSE job[p].told
  /\ job' = [job EXCEPT ![p] = Idle]
  /\ UNCHANGED <<history, tiered, turn, reply, ghosts, rest>>

(***************************************************************************)
(* maybeSummarize and summarizeSession                                     *)
(***************************************************************************)
SaveAnswer(t) ==
  /\ turn[t].at = "answer"
  /\ To(t, IF t \in SystemTurns THEN "respond" ELSE "saved")
  /\ Save(Message(t, "answer", 0, 0))
  /\ UNCHANGED <<summary, tiered, job, reply, joint, lossy, rest>>

\* The threshold on tokens may be passed at any length of the history.
MaybeSummarize(t) ==
  /\ turn[t].at = "saved"
  /\ To(t, "respond")
  /\ \/ /\ compactor \/ Len(history) <= Threshold \/ job[Summariser].at # "idle"
        /\ UNCHANGED job
     \/ /\ job[Summariser].at = "idle"
        /\ job' = [job EXCEPT ![Summariser].at = "started"]
  /\ UNCHANGED <<session, reply, ghosts, rest>>

Spoken(ms) == {m \in ms : m.role # "tool"}
Valid(h) == Spoken(ToSet(SubSeq(h, 1, Len(h) - KeepLast)))

\* The goroutine reads history and summary.
Snapshot ==
  /\ job[Summariser].at = "started"
  /\ job' = [job EXCEPT ![Summariser] =
       IF compactor THEN [at |-> "compact", snap |-> history, told |-> {}]
       ELSE IF Len(history) <= KeepLast \/ Valid(history) = {} THEN Idle
       ELSE [at |-> "summarize", snap |-> history, told |-> summary]]
  /\ UNCHANGED <<session, turn, reply, ghosts, rest>>

\* Mutant of SetSummary: what the summary told of before is dropped always.
SetSummaryAnew ==
  /\ job[Summariser].at = "summarize"
  /\ summary' = Valid(job[Summariser].snap)
  /\ job' = [job EXCEPT ![Summariser].at = "truncate"]
  /\ UNCHANGED <<history, tiered, turn, reply, ghosts, rest>>

\* Two batches are summarised without the existing summary, one with it.
SetSummary ==
  LET valid == Valid(job[Summariser].snap)
      parts == Cardinality(valid) > Batch IN
  /\ job[Summariser].at = "summarize"
  /\ summary' = valid \union (IF parts THEN {} ELSE job[Summariser].told)
  /\ lossy' = (lossy \/ (parts /\ summary # {}))
  /\ job' = [job EXCEPT ![Summariser].at = "truncate"]
  /\ UNCHANGED <<history, tiered, turn, reply, said, joint, late, rest>>

\* TruncateHistory cuts what the history is now, not what was summarised.
Truncate ==
  /\ job[Summariser].at = "truncate"
  /\ history' = IF Len(history) > KeepLast THEN Keep(history) ELSE history
  /\ job' = [job EXCEPT ![Summariser] = Idle]
  /\ UNCHANGED <<summary, tiered, turn, reply, ghosts, rest>>

(***************************************************************************)
(* The end of a turn: Run publishes unless the message tool has sent; a    *)
(* system turn publishes by itself (SendResponse) and its error goes to an *)
(* internal channel; a direct call returns the text to its caller.         *)
(***************************************************************************)
Ended(t) ==
  /\ turn[t].at \in {"respond", "failed"}
  /\ messaged' = messaged \ {t}
  /\ mixed' = mixed \ {t}
  /\ UNCHANGED <<session, job, sentInRound, ghosts, rest>>

Respond(t) ==
  /\ Ended(t)
  /\ \/ t \in UserTurns /\ To(t, IF sentInRound THEN "silent" ELSE "published")
     \/ t \in SystemTurns /\ To(t, IF turn[t].at = "failed" THEN "silent" ELSE "published")
     \/ t \in DirectTurns /\ To(t, "silent")

\* The process dies: the stored session stays, inbox and turns are gone.
Crash ==
  /\ Fault
  /\ turn' = [t \in Turns |-> IF t \in Active THEN [NoTurn EXCEPT !.at = "dead"] ELSE turn[t]]
  /\ job' = [p \in DOMAIN job |-> Idle]
  /\ sentInRound' = FALSE /\ messaged' = {} /\ mixed' = {}
  /\ UNCHANGED <<session, ghosts, steady>>

TurnStep(t) ==
  \/ ReadHistory(t) \/ SkipInternal(t) \/ HandleCommand(t) \/ ClearHistory(t) \/ ClearSummary(t)
  \/ SaveUser(t)
  \/ Answer(t) \/ SendMessage(t) \/ SaveResult(t) \/ Fail(t) \/ TimeOut(t)
  \/ \E n \in 1 .. MaxCalls : AskTools(t, n)
  \/ Refuse(t) \/ Halve(t) \/ Rebuild(t)
  \/ SaveAnswer(t) \/ MaybeSummarize(t) \/ Respond(t)

CompactorStep(p) == CompactModel(p) \/ CompactFails(p) \/ Cut(p) \/ Tell(p)

Next ==
  \/ \E t \in Turns : TurnStep(t)
  \/ \E p \in Turns \union {Summariser} : CompactorStep(p)
  \/ Snapshot \/ SetSummary \/ Truncate
  \/ HeartbeatSends \/ Crash

Spec == Init /\ [][Next]_vars

-----------------------------------------------------------------------------
(***************************************************************************)
(* Correctness.                                                            *)
(***************************************************************************)
\* Types: at most one inbox turn is in progress, a job belongs to a turn that
\* compresses or to the summariser, and messages of the history were saved.
TypeOK ==
  /\ Cardinality(Active \intersect Inbox) <= 1
  /\ \A t \in Turns :
       /\ turn[t].at \in Over \union {"read", "clearing", "model", "tools", "compress", "answer", "saved", "respond", "failed"}
       /\ turn[t].round \in 0 .. MaxRounds /\ turn[t].retry \in 0 .. MaxRetries
       /\ turn[t].got \in 0 .. turn[t].n /\ turn[t].n \in 0 .. MaxCalls
       /\ job[t].at \in {"idle", "halve", "compact", "cut", "tell"}
       /\ job[t].at # "idle" => turn[t].at = "compress"
  /\ job[Summariser].at \in {"idle", "started", "summarize", "truncate", "compact", "cut", "tell"}
  /\ ToSet(history) \union summary \union tiered \subseteq said
  /\ sentInRound \in BOOLEAN

\* What a strict provider demands of a prompt (context.go:685): each call is
\* followed by the results of all its ids.
CallsAnswered(p) == \A i \in DOMAIN p : p[i].role = "call" => Answered(p, i)

\* And each result belongs to the call it follows.
ResultsCalled(p) ==
  \A j \in DOMAIN p : p[j].role = "tool" =>
    \E i \in 1 .. j - 1 : p[i].role = "call" /\ j \in Results(p, i) /\ Id(p[j]) \in Ids(p[i])

\* Whatever crashes, truncations and concurrent turns left in the history,
\* every prompt sent to the model has all results of every call.  As long as no
\* two turns ran at once, and no message was saved while a copy of the history was
\* compressed, it has no result without its call, and it holds the question of its
\* turn, unless it was rebuilt after a tool round.
PromptIsSound ==
  \A t \in Turns : turn[t].at = "model" =>
    /\ CallsAnswered(turn[t].prompt)
    /\ ~joint /\ ~late =>
         /\ ResultsCalled(turn[t].prompt)
         /\ turn[t].round = 0 => Message(t, "user", 0, 0) \in ToSet(turn[t].prompt)

\* What has been said since a user last cleared the history is in it or told of
\* by the summary, unless one of six things happened: an emergency compression,
\* a message saved while a summary was written, a summary in two parts or by the
\* compactor where there was one already, an empty answer of the compactor's
\* model, and a summary written between the two calls of a /clear.
NothingForgotten ==
  ~late /\ ~lossy => Spoken(said \ cleared) \subseteq ToSet(history) \union Summary

\* "Chat history cleared!" (cmd_clear.go, line 17): from then on neither the
\* history nor the summary of a prompt holds what was said before.
ClearForgets ==
  (\A t \in Turns : turn[t].at # "clearing") => cleared \intersect (ToSet(history) \union Summary) = {}

\* The place of a message in its turn.
Rank(m) == CASE m.role = "user" -> 0
             [] m.role = "answer" -> (MaxRounds + 1) * (MaxCalls + 1)
             [] m.role = "call" -> m.round * (MaxCalls + 1)
             [] m.role = "tool" -> m.round * (MaxCalls + 1) + m.n

\* No message is twice in the history and those of a turn are in order, even
\* when a copy read earlier is written back.
HistoryInOrder ==
  \A i, j \in DOMAIN history : i < j =>
    /\ history[i] # history[j]
    /\ history[i].turn = history[j].turn => Rank(history[i]) < Rank(history[j])

\* Types and order survive every interleaving of turns and summariser.
Consistent == TypeOK /\ HistoryInOrder

\* A user whose turn ran without another use of the message tool gets exactly
\* one reply: the tool's message or the answer of Run, not both and not none.
RepliedOnce ==
  [][\A t \in UserTurns : t \notin mixed =>
       /\ turn'[t].at = "published" /\ turn[t].at # "published" => t \notin messaged
       /\ turn'[t].at = "silent" /\ turn[t].at # "silent" => t \in messaged]_vars

=============================================================================
