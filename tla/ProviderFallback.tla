--------------------------- MODULE ProviderFallback ---------------------------
(***************************************************************************)
(* One model call of an agent turn (callLLM and its retries in             *)
(* pkg/agent/loop.go) through FallbackChain.Execute                        *)
(* (pkg/providers/fallback.go): the candidates are tried in order, and all *)
(* calls of all turns share one CooldownTracker (cooldown.go) keyed by the *)
(* provider.  IsAvailable, MarkFailure and MarkSuccess are one step each,  *)
(* under the tracker's mutex; the request to the model runs between them.  *)
(* An error of a model is abstracted to the class that ClassifyError       *)
(* (error_classifier.go) gives it.                                         *)
(***************************************************************************)
EXTENDS Integers, SequencesExt

CONSTANTS
  Calls,         \* model calls of turns
  Models,
  Providers,
  ProviderOf,    \* provider part of a model reference
  Candidates,    \* what ResolveCandidates makes of the primary and the fallbacks
  Healthy,       \* models that never fail
  StandardBase,  \* 1 minute, times 5 for each further error
  StandardMax,   \* 1 hour
  BillingBase,   \* 5 hours, times 2 for each further error
  BillingMax,    \* 24 hours
  FailureWindow, \* 24 hours
  MaxRetries,    \* maxRetries of the turn (2)
  MaxTime        \* bound: when the clock stops

ASSUME ProviderFallbackAssumption ==
  /\ ProviderOf \in [Models -> Providers]
  /\ Candidates \in Seq(Models) /\ Candidates # <<>>
  /\ Healthy \subseteq Models
  /\ {StandardBase, StandardMax, BillingBase, BillingMax, FailureWindow} \subseteq Nat \ {0}
  /\ StandardMax <= FailureWindow /\ BillingMax <= FailureWindow
  /\ {MaxRetries, MaxTime} \subseteq Nat

VARIABLES
  now,     \* the clock, from 1; 0 is the zero time
  entry,   \* [errors, billing, until, disabled, last] of a provider
  call     \* [at, i, retry, timedOut, tried] of a model call

vars == <<now, entry, call>>

\* Duplicates go, the first of each stays.
ResolveCandidates(refs) ==
  FoldLeft(LAMBDA chain, m : IF m \in ToSet(chain) THEN chain ELSE Append(chain, m), <<>>, refs)

NoEntry == [errors |-> 0, billing |-> 0, until |-> 0, disabled |-> 0, last |-> 0]
NoCall == [at |-> "idle", i |-> 1, retry |-> 0, timedOut |-> FALSE, tried |-> {}]

Init ==
  /\ now = 1
  /\ entry = [p \in Providers |-> NoEntry]
  /\ call = [c \in Calls |-> NoCall]

Lesser(a, b) == IF a <= b THEN a ELSE b
Larger(a, b) == IF a >= b THEN a ELSE b

\* calculateStandardCooldown and calculateBillingCooldown, for n > 0 errors.
StandardCooldown(n) ==
  Lesser(StandardMax, StandardBase * <<1, 5, 25, 125>>[Lesser(n, 4)])
BillingCooldown(n) ==
  Lesser(BillingMax, BillingBase * <<1, 2, 4, 8, 16, 32, 64, 128, 256, 512, 1024>>[Lesser(n, 11)])

Until(p) == Larger(entry[p].until, entry[p].disabled)
IsAvailable(p) == now >= Until(p)

\* The counters of a provider, reset when its last failure is long ago.
Counted(p) ==
  LET reset == entry[p].last # 0 /\ now - entry[p].last > FailureWindow IN
  [errors   |-> IF reset THEN 0 ELSE entry[p].errors,
   billing  |-> IF reset THEN 0 ELSE entry[p].billing,
   until    |-> entry[p].until,
   disabled |-> entry[p].disabled,
   last     |-> entry[p].last]

\* Mutant of MarkFailure: a billing failure replaces the standard cooldown.
MarkFailureReplaces(p, reason) ==
  LET e == Counted(p)
      b == reason = "billing" IN
  entry' = [entry EXCEPT ![p] =
    [errors   |-> e.errors + 1,
     billing  |-> IF b THEN e.billing + 1 ELSE e.billing,
     until    |-> IF b THEN 0 ELSE now + StandardCooldown(e.errors + 1),
     disabled |-> IF b THEN now + BillingCooldown(e.billing + 1) ELSE e.disabled,
     last     |-> now]]

MarkFailure(p, reason) ==
  LET e == Counted(p)
      b == reason = "billing" IN
  entry' = [entry EXCEPT ![p] =
    [errors   |-> e.errors + 1,
     billing  |-> IF b THEN e.billing + 1 ELSE e.billing,
     until    |-> IF b THEN e.until ELSE now + StandardCooldown(e.errors + 1),
     disabled |-> IF b THEN now + BillingCooldown(e.billing + 1) ELSE e.disabled,
     last     |-> now]]

\* Mutant of MarkSuccess: the counters are reset, the cooldown is not.
MarkSuccessKeepsCooldown(p) == entry' = [entry EXCEPT ![p].errors = 0, ![p].billing = 0]

\* The time of the last failure stays.
MarkSuccess(p) == entry' = [entry EXCEPT ![p] = [NoEntry EXCEPT !.last = entry[p].last]]

-----------------------------------------------------------------------------
(***************************************************************************)
(* Execute                                                                 *)
(***************************************************************************)
Model(c) == Candidates[call[c].i]
ProviderAt(c) == ProviderOf[Model(c)]

Set(c, at) == call' = [call EXCEPT ![c].at = at]

\* The loop goes to the next candidate, or ends with the aggregate error.
NextCandidate(c, r) ==
  call' = [call EXCEPT ![c] =
    IF r.i = Len(Candidates) THEN [r EXCEPT !.at = "exhausted"]
    ELSE [r EXCEPT !.at = "check", !.i = @ + 1]]

Begin(c) ==
  /\ call[c].at = "idle"
  /\ Set(c, "check")
  /\ UNCHANGED <<now, entry>>

\* The turn is cancelled: seen before an attempt, or when one has failed.
Cancel(c) ==
  /\ call[c].at \in {"check", "run"}
  /\ Set(c, "canceled")
  /\ UNCHANGED <<now, entry>>

Skip(c) ==
  /\ call[c].at = "check" /\ ~IsAvailable(ProviderAt(c))
  /\ NextCandidate(c, call[c])
  /\ UNCHANGED <<now, entry>>

Attempt(c) ==
  /\ call[c].at = "check" /\ IsAvailable(ProviderAt(c))
  /\ call' = [call EXCEPT ![c].at = "run", ![c].tried = @ \union {Model(c)}]
  /\ UNCHANGED <<now, entry>>

Succeed(c) ==
  /\ call[c].at = "run"
  /\ MarkSuccess(ProviderAt(c))
  /\ Set(c, "answered")
  /\ UNCHANGED now

\* Rate limit, overload, authentication, time-out or billing.
FailRetriably(c, reason) ==
  /\ call[c].at = "run" /\ Model(c) \notin Healthy
  /\ MarkFailure(ProviderAt(c), reason)
  /\ NextCandidate(c, [call[c] EXCEPT !.timedOut = @ \/ reason = "timeout"])
  /\ UNCHANGED now

\* Mutant of Abort: an unclassified error ends the chain like an exhausted one.
AbortAsExhausted(c) ==
  /\ call[c].at = "run" /\ Model(c) \notin Healthy
  /\ Set(c, "exhausted")
  /\ UNCHANGED <<now, entry>>

\* A malformed request or an unclassified error: no other model is asked.
Abort(c) ==
  /\ call[c].at = "run" /\ Model(c) \notin Healthy
  /\ Set(c, "aborted")
  /\ UNCHANGED <<now, entry>>

(***************************************************************************)
(* The turn: an error text that speaks of a time-out is retried after 5    *)
(* and 10 seconds, less than a unit of time here.                          *)
(***************************************************************************)
Retry(c) ==
  /\ call[c].at = "exhausted" /\ call[c].timedOut /\ call[c].retry < MaxRetries
  /\ call' = [call EXCEPT ![c] = [NoCall EXCEPT !.at = "check", !.retry = call[c].retry + 1]]
  /\ UNCHANGED <<now, entry>>

GiveUp(c) ==
  /\ call[c].at = "exhausted" /\ ~(call[c].timedOut /\ call[c].retry < MaxRetries)
  /\ Set(c, "failed")
  /\ UNCHANGED <<now, entry>>

Tick ==
  /\ now < MaxTime
  /\ now' = now + 1
  /\ UNCHANGED <<entry, call>>

Reasons == {"timeout", "billing", "other"}

CallStep(c) ==
  \/ Begin(c) \/ Cancel(c) \/ Skip(c) \/ Attempt(c) \/ Succeed(c) \/ Abort(c)
  \/ \E reason \in Reasons : FailRetriably(c, reason)
  \/ Retry(c) \/ GiveUp(c)

Next == (\E c \in Calls : CallStep(c)) \/ Tick

Spec == Init /\ [][Next]_vars

-----------------------------------------------------------------------------
Ends == {"canceled", "answered", "aborted", "failed"}

TypeOK ==
  /\ now \in Nat \ {0}
  /\ entry \in [Providers -> [errors : Nat, billing : Nat, until : Nat, disabled : Nat, last : Nat]]
  /\ call \in [Calls -> [at : Ends \union {"idle", "check", "run", "exhausted"},
                         i : 1 .. Len(Candidates), retry : 0 .. MaxRetries,
                         timedOut : BOOLEAN, tried : SUBSET Models]]

\* A provider is kept away only for the time its present counters stand for,
\* counted from its last failure, however calls that overlap order their marks.
CooldownIsEarned ==
  \A p \in Providers :
    /\ entry[p].last <= now /\ entry[p].billing <= entry[p].errors
    /\ entry[p].until > now =>
         entry[p].errors > 0 /\ entry[p].until <= entry[p].last + StandardCooldown(entry[p].errors)
    /\ entry[p].disabled > now =>
         entry[p].billing > 0 /\ entry[p].disabled <= entry[p].last + BillingCooldown(entry[p].billing)

\* Only a success ends a cooldown early: another failure, also the first one
\* after the counters were reset, never makes a provider available sooner.
CooldownOnlyExtends ==
  [][\A p \in Providers : entry'[p].errors # 0 => Until(p)' >= Until(p)]_vars

\* The chain gives up only when every candidate's provider has a model that
\* fails: a candidate whose provider is sound is always asked, whatever other
\* calls marked meanwhile.
SoundProviderIsAsked ==
  \A c \in Calls : call[c].at \in {"exhausted", "failed"} =>
    \A i \in DOMAIN Candidates :
      \E m \in Models \ Healthy : ProviderOf[m] = ProviderOf[Candidates[i]]

=============================================================================
