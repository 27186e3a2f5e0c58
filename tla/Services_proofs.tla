---------------------------- MODULE Services_proofs ----------------------------
(***************************************************************************)
(* Proofs about the smaller services, a part for each: the cooldown of     *)
(* providers, the launcher's gateway process, the console's hub, the MCP   *)
(* manager, the tools it hides, the WeCom bot, the media store, the marks  *)
(* in a chat, the sub-agents.  They share no state, and no proof uses a    *)
(* fact of another.                                                        *)
(***************************************************************************)
EXTENDS ProviderFallback, GatewayProcess, ChatHub, MCPManager, ToolDiscovery, WeComAIBot,
        MediaStore, ChannelFeedback, SubAgentLifecycle, FiniteSetTheorems, SequenceTheorems,
        WellFoundedInduction, TLAPS

-----------------------------------------------------------------------------
(***************************************************************************)
(* ProviderFallback: the cooldown of a provider, for every number of       *)
(* calls, models and providers and all values of the periods               *)
(***************************************************************************)

\* The state of the tracker, without the calls that use it.
TrackerOK ==
  /\ now \in Nat \ {0}
  /\ entry \in [Providers -> [errors : Nat, billing : Nat, until : Nat, disabled : Nat, last : Nat]]

\* What a failure may rely on in an entry: both periods end soon enough after
\* the last failure, whether they are over or not.
Bounded(e) ==
  /\ e.last <= now /\ e.billing <= e.errors
  /\ e.until # 0 => e.last # 0 /\ e.until <= e.last + StandardMax
  /\ e.disabled # 0 => e.last # 0 /\ e.disabled <= e.last + BillingMax
  /\ e.until > now => e.errors > 0 /\ e.until <= e.last + StandardCooldown(e.errors)
  /\ e.disabled > now => e.billing > 0 /\ e.disabled <= e.last + BillingCooldown(e.billing)

CooldownInv == TrackerOK /\ \A p \in Providers : Bounded(entry[p])

\* The two formulas grow with the number of errors up to their cap.
LEMMA StandardGrows ==
  \A n, k \in Nat \ {0} : n <= k =>
    /\ StandardCooldown(n) \in Nat /\ StandardCooldown(n) <= StandardMax
    /\ StandardCooldown(n) <= StandardCooldown(k)
<1> SUFFICES ASSUME NEW n \in Nat \ {0}, NEW k \in Nat \ {0}, n <= k
             PROVE  /\ StandardCooldown(n) \in Nat /\ StandardCooldown(n) <= StandardMax
                    /\ StandardCooldown(n) <= StandardCooldown(k)
  OBVIOUS
<1> DEFINE P(x) == <<1, 5, 25, 125>>[Lesser(x, 4)]
<1>1. \A x \in Nat \ {0} : P(x) = IF x = 1 THEN 1 ELSE IF x = 2 THEN 5 ELSE IF x = 3 THEN 25 ELSE 125
  BY DEF Lesser
<1>2. StandardBase \in Nat /\ StandardMax \in Nat
  BY ProviderFallbackAssumption
<1>3. P(n) \in Nat /\ P(k) \in Nat /\ P(n) <= P(k)
  BY <1>1
<1> HIDE DEF P
<1>4. StandardBase * P(n) \in Nat /\ StandardBase * P(n) <= StandardBase * P(k)
  BY <1>2, <1>3
<1>5. \A x \in {n, k} : StandardCooldown(x) = Lesser(StandardMax, StandardBase * P(x))
  BY DEF StandardCooldown, P
<1> QED
  BY <1>2, <1>3, <1>4, <1>5 DEF Lesser

LEMMA BillingGrows ==
  \A n, k \in Nat \ {0} : n <= k =>
    /\ BillingCooldown(n) \in Nat /\ BillingCooldown(n) <= BillingMax
    /\ BillingCooldown(n) <= BillingCooldown(k)
<1> SUFFICES ASSUME NEW n \in Nat \ {0}, NEW k \in Nat \ {0}, n <= k
             PROVE  /\ BillingCooldown(n) \in Nat /\ BillingCooldown(n) <= BillingMax
                    /\ BillingCooldown(n) <= BillingCooldown(k)
  OBVIOUS
<1> DEFINE P(x) == <<1, 2, 4, 8, 16, 32, 64, 128, 256, 512, 1024>>[Lesser(x, 11)]
<1>1. \A x \in Nat \ {0} :
        P(x) = IF x = 1 THEN 1 ELSE IF x = 2 THEN 2 ELSE IF x = 3 THEN 4 ELSE IF x = 4 THEN 8
               ELSE IF x = 5 THEN 16 ELSE IF x = 6 THEN 32 ELSE IF x = 7 THEN 64 ELSE IF x = 8 THEN 128
               ELSE IF x = 9 THEN 256 ELSE IF x = 10 THEN 512 ELSE 1024
  BY DEF Lesser
<1>2. BillingBase \in Nat /\ BillingMax \in Nat
  BY ProviderFallbackAssumption
<1>3. P(n) \in Nat /\ P(k) \in Nat /\ P(n) <= P(k)
  BY <1>1
<1> HIDE DEF P
<1>4. BillingBase * P(n) \in Nat /\ BillingBase * P(n) <= BillingBase * P(k)
  BY <1>2, <1>3
<1>5. \A x \in {n, k} : BillingCooldown(x) = Lesser(BillingMax, BillingBase * P(x))
  BY DEF BillingCooldown, P
<1> QED
  BY <1>2, <1>3, <1>4, <1>5 DEF Lesser

LEMMA ProviderInitBounded == Init => CooldownInv
  BY DEF Init, CooldownInv, TrackerOK, Bounded, NoEntry

\* Time passes.
LEMMA TickKeeps ==
  ASSUME CooldownInv, now' = now + 1, entry' = entry
  PROVE  CooldownInv' /\ \A p \in Providers : Until(p)' = Until(p)
<1>1. TrackerOK'
  BY DEF CooldownInv, TrackerOK
<1>2. ASSUME NEW p \in Providers PROVE Bounded(entry[p])'
  BY <1>2, Z3 DEF CooldownInv, TrackerOK, Bounded
<1>3. \A p \in Providers : Until(p)' = Until(p)
  BY DEF Until
<1> QED
  BY <1>1, <1>2, <1>3 DEF CooldownInv

\* A success clears both periods.
LEMMA SuccessKeeps ==
  ASSUME CooldownInv, NEW q, MarkSuccess(q), now' = now
  PROVE  CooldownInv' /\ \A p \in Providers : entry'[p].errors # 0 => Until(p)' >= Until(p)
<1>1. \A p \in Providers : entry'[p] = IF p = q THEN [NoEntry EXCEPT !.last = entry[p].last] ELSE entry[p]
  BY DEF MarkSuccess, CooldownInv, TrackerOK
<1>2. TrackerOK'
  BY DEF MarkSuccess, CooldownInv, TrackerOK, NoEntry
<1>3. ASSUME NEW p \in Providers
      PROVE  Bounded(entry[p])' /\ (entry'[p].errors # 0 => Until(p)' >= Until(p))
  <2>1. CASE p = q
    <3>1. entry'[p] = [errors |-> 0, billing |-> 0, until |-> 0, disabled |-> 0, last |-> entry[p].last]
      BY <1>1, <2>1 DEF NoEntry
    <3> QED BY <3>1 DEF CooldownInv, TrackerOK, Bounded
  <2>2. CASE p # q
    <3>1. entry'[p] = entry[p] /\ entry[p] = entry[p]
      BY <1>1, <2>2
    <3>2. Until(p)' = Until(p) /\ Until(p) \in Nat
      BY <3>1 DEF Until, Larger, CooldownInv, TrackerOK
    <3> QED BY <3>1, <3>2 DEF CooldownInv, TrackerOK, Bounded
  <2> QED BY <2>1, <2>2
<1> QED
  BY <1>2, <1>3 DEF CooldownInv

\* What the counters are when a failure has been counted.
LEMMA CountedFacts ==
  ASSUME CooldownInv, NEW p \in Providers
  PROVE  /\ Counted(p) \in [errors : Nat, billing : Nat, until : Nat, disabled : Nat, last : Nat]
         /\ Counted(p).until = entry[p].until /\ Counted(p).disabled = entry[p].disabled
         /\ Counted(p).last = entry[p].last /\ Counted(p).billing <= Counted(p).errors
         /\ \/ Counted(p).errors = entry[p].errors /\ Counted(p).billing = entry[p].billing
            \/ entry[p].until < now /\ entry[p].disabled < now
<1>1. entry[p] \in [errors : Nat, billing : Nat, until : Nat, disabled : Nat, last : Nat] /\ now \in Nat
  BY DEF CooldownInv, TrackerOK
<1>2. Bounded(entry[p])
  BY DEF CooldownInv
<1>3. CASE entry[p].last # 0 /\ now - entry[p].last > FailureWindow
  <2>1. PICK o : o = entry[p] OBVIOUS
  <2>2. o \in [errors : Nat, billing : Nat, until : Nat, disabled : Nat, last : Nat] /\ now \in Nat
    BY <1>1, <2>1
  <2>3. /\ o.until # 0 => o.until <= o.last + StandardMax
        /\ o.disabled # 0 => o.disabled <= o.last + BillingMax
    BY <1>2, <2>1 DEF Bounded
  <2>4. now - o.last > FailureWindow
    BY <1>3, <2>1
  <2>5. /\ StandardMax \in Nat /\ BillingMax \in Nat /\ FailureWindow \in Nat
        /\ StandardMax <= FailureWindow /\ BillingMax <= FailureWindow
    BY ProviderFallbackAssumption
  <2>6. o.until < now
    BY <2>2, <2>3, <2>4, <2>5
  <2>7. o.disabled < now
    BY <2>2, <2>3, <2>4, <2>5
  <2>8. entry[p].until < now /\ entry[p].disabled < now
    BY <2>1, <2>6, <2>7
  <2> QED BY <1>1, <1>3, <2>8 DEF Counted
<1>4. CASE ~(entry[p].last # 0 /\ now - entry[p].last > FailureWindow)
  BY <1>1, <1>2, <1>4 DEF Counted, Bounded
<1> QED
  BY <1>3, <1>4

\* A failure extends a period and never shortens one.
LEMMA FailureKeeps ==
  ASSUME CooldownInv, NEW q, NEW reason, MarkFailure(q, reason), now' = now
  PROVE  CooldownInv' /\ \A p \in Providers : entry'[p].errors # 0 => Until(p)' >= Until(p)
<1> USE DEF CooldownInv
<1>1. now \in Nat \ {0} /\ now' = now
  BY DEF TrackerOK
<1>2. ASSUME NEW p \in Providers
      PROVE  /\ entry'[p] \in [errors : Nat, billing : Nat, until : Nat, disabled : Nat, last : Nat]
             /\ Bounded(entry[p])' /\ Until(p)' >= Until(p)
  <2>1. entry[p] \in [errors : Nat, billing : Nat, until : Nat, disabled : Nat, last : Nat] /\ Bounded(entry[p])
    BY DEF TrackerOK
  <2>2. CASE p # q
    <3>1. entry'[p] = entry[p]
      BY <2>2 DEF MarkFailure, TrackerOK
    <3>2. Until(p)' = Until(p) /\ Until(p) \in Nat
      BY <2>1, <3>1 DEF Until, Larger
    <3> QED BY <1>1, <2>1, <3>1, <3>2 DEF Bounded
  <2>3. CASE p = q
    <3>1. PICK e : e = Counted(p) OBVIOUS
    <3>2. PICK o : o = entry[p] OBVIOUS
    <3>3. /\ e \in [errors : Nat, billing : Nat, until : Nat, disabled : Nat, last : Nat]
          /\ e.until = o.until /\ e.disabled = o.disabled /\ e.last = o.last /\ e.billing <= e.errors
          /\ \/ e.errors = o.errors /\ e.billing = o.billing
             \/ o.until < now /\ o.disabled < now
      BY <3>1, <3>2, CountedFacts
    <3>4. entry'[p] = [errors   |-> e.errors + 1,
                       billing  |-> IF reason = "billing" THEN e.billing + 1 ELSE e.billing,
                       until    |-> IF reason = "billing" THEN e.until ELSE now + StandardCooldown(e.errors + 1),
                       disabled |-> IF reason = "billing" THEN now + BillingCooldown(e.billing + 1) ELSE e.disabled,
                       last     |-> now]
      BY <2>3, <3>1 DEF MarkFailure, TrackerOK
    <3>5. PICK s : s = StandardCooldown(e.errors + 1) OBVIOUS
    <3>6. PICK b : b = BillingCooldown(e.billing + 1) OBVIOUS
    <3>7. /\ s \in Nat /\ s <= StandardMax
          /\ \A k \in Nat \ {0} : k <= e.errors + 1 => StandardCooldown(k) \in Nat /\ StandardCooldown(k) <= s
      BY <3>3, <3>5, StandardGrows
    <3>8. /\ b \in Nat /\ b <= BillingMax
          /\ \A k \in Nat \ {0} : k <= e.billing + 1 => BillingCooldown(k) \in Nat /\ BillingCooldown(k) <= b
      BY <3>3, <3>6, BillingGrows
    <3>9. StandardMax \in Nat /\ BillingMax \in Nat
      BY ProviderFallbackAssumption
    <3>10. /\ o.until > now => o.until <= now + s
           /\ o.disabled > now => o.disabled <= now + b
      <4>1. Bounded(o) /\ o \in [errors : Nat, billing : Nat, until : Nat, disabled : Nat, last : Nat]
        BY <2>1, <3>2
      <4>2. ASSUME o.until > now PROVE o.until <= now + s
        <5>1. e.errors = o.errors /\ o.errors \in Nat \ {0} /\ o.until <= o.last + StandardCooldown(o.errors)
          BY <1>1, <3>3, <4>1, <4>2 DEF Bounded
        <5>2. StandardCooldown(o.errors) \in Nat /\ StandardCooldown(o.errors) <= s
          BY <3>7, <5>1
        <5> QED BY <1>1, <3>7, <4>1, <5>1, <5>2 DEF Bounded
      <4>3. ASSUME o.disabled > now PROVE o.disabled <= now + b
        <5>1. e.billing = o.billing /\ o.billing \in Nat \ {0} /\ o.disabled <= o.last + BillingCooldown(o.billing)
          BY <1>1, <3>3, <4>1, <4>3 DEF Bounded
        <5>2. BillingCooldown(o.billing) \in Nat /\ BillingCooldown(o.billing) <= b
          BY <3>8, <5>1
        <5> QED BY <1>1, <3>8, <4>1, <5>1, <5>2 DEF Bounded
      <4> QED BY <4>2, <4>3
    <3>11. CASE reason = "billing"
      <4>1. PICK f : f = entry'[p] OBVIOUS
      <4>2. /\ f \in [errors : Nat, billing : Nat, until : Nat, disabled : Nat, last : Nat]
            /\ f.errors = e.errors + 1 /\ f.billing = e.billing + 1 /\ f.last = now
            /\ f.until = e.until /\ f.disabled = now + b
        BY <1>1, <3>3, <3>4, <3>6, <3>8, <3>11, <4>1
      <4>3. Until(p)' >= Until(p)
        BY <1>1, <2>1, <3>2, <3>3, <3>8, <3>10, <4>1, <4>2 DEF Until, Larger
      <4>4. f.until > now => f.until <= now + StandardCooldown(f.errors)
        BY <3>3, <3>5, <3>10, <4>2
      <4>5. f.disabled <= now + BillingCooldown(f.billing)
        BY <1>1, <3>6, <3>8, <4>2
      <4>6. f.until # 0 => f.until <= now + StandardMax
        BY <1>1, <2>1, <3>2, <3>3, <3>9, <4>2 DEF Bounded
      <4> QED
        BY <1>1, <3>3, <3>8, <3>9, <4>1, <4>2, <4>3, <4>4, <4>5, <4>6 DEF Bounded
    <3>12. CASE reason # "billing"
      <4>1. PICK f : f = entry'[p] OBVIOUS
      <4>2. /\ f \in [errors : Nat, billing : Nat, until : Nat, disabled : Nat, last : Nat]
            /\ f.errors = e.errors + 1 /\ f.billing = e.billing /\ f.last = now
            /\ f.disabled = e.disabled /\ f.until = now + s
        BY <1>1, <3>3, <3>4, <3>5, <3>7, <3>12, <4>1
      <4>3. Until(p)' >= Until(p)
        BY <1>1, <2>1, <3>2, <3>3, <3>7, <3>10, <4>1, <4>2 DEF Until, Larger
      <4>4. f.disabled > now => f.billing > 0 /\ f.disabled <= now + BillingCooldown(f.billing)
        <5>1. ASSUME f.disabled > now PROVE f.billing > 0 /\ f.disabled <= now + BillingCooldown(f.billing)
          <6>1. /\ o.billing = e.billing /\ o.billing \in Nat \ {0} /\ o.last <= now
                /\ o.disabled <= o.last + BillingCooldown(o.billing)
            BY <1>1, <2>1, <3>2, <3>3, <4>2, <5>1 DEF Bounded
          <6>2. BillingCooldown(o.billing) \in Nat
            BY <6>1, BillingGrows
          <6> QED BY <1>1, <2>1, <3>2, <3>3, <4>2, <6>1, <6>2
        <5> QED BY <5>1
      <4>5. f.until <= now + StandardCooldown(f.errors)
        BY <1>1, <3>5, <3>7, <4>2
      <4>6. f.disabled # 0 => f.disabled <= now + BillingMax
        BY <1>1, <2>1, <3>2, <3>3, <3>9, <4>2 DEF Bounded
      <4> QED
        BY <1>1, <3>3, <3>7, <3>9, <4>1, <4>2, <4>3, <4>4, <4>5, <4>6 DEF Bounded
    <3> QED BY <3>11, <3>12
  <2> QED BY <2>2, <2>3
<1>3. TrackerOK'
  <2>1. entry' \in [Providers -> [errors : Nat, billing : Nat, until : Nat, disabled : Nat, last : Nat]]
    <3>1. DOMAIN entry' = Providers /\ entry' = [p \in Providers |-> entry'[p]]
      BY DEF MarkFailure, TrackerOK
    <3> QED BY <1>2, <3>1
  <2> QED BY <1>1, <2>1 DEF TrackerOK
<1> QED
  BY <1>2, <1>3

\* A step of a call marks at most once, and only then changes the tracker.
LEMMA ProviderStepKeeps ==
  ASSUME CooldownInv, [Next]_vars
  PROVE  CooldownInv' /\ \A p \in Providers : entry'[p].errors # 0 => Until(p)' >= Until(p)
<1>1. ASSUME now' = now, entry' = entry
      PROVE  CooldownInv' /\ \A p \in Providers : Until(p)' >= Until(p)
  <2>1. CooldownInv'
    BY <1>1 DEF CooldownInv, TrackerOK, Bounded
  <2>2. ASSUME NEW p \in Providers PROVE Until(p)' >= Until(p)
    BY <1>1 DEF CooldownInv, TrackerOK, Until, Larger
  <2> QED BY <2>1, <2>2
<1>2. CASE Tick
  <2>1. CooldownInv' /\ \A p \in Providers : Until(p)' = Until(p)
    BY <1>2, TickKeeps DEF Tick
  <2>2. \A p \in Providers : Until(p) \in Nat
    BY DEF CooldownInv, TrackerOK, Until, Larger
  <2> QED BY <2>1, <2>2
<1>3. ASSUME NEW c \in Calls, Succeed(c)
      PROVE  CooldownInv' /\ \A p \in Providers : entry'[p].errors # 0 => Until(p)' >= Until(p)
  BY <1>3, SuccessKeeps DEF Succeed
<1>4. ASSUME NEW c \in Calls, NEW reason \in Reasons, FailRetriably(c, reason)
      PROVE  CooldownInv' /\ \A p \in Providers : entry'[p].errors # 0 => Until(p)' >= Until(p)
  BY <1>4, FailureKeeps DEF FailRetriably
<1>5. ASSUME NEW c \in Calls, Begin(c) \/ Cancel(c) \/ Skip(c) \/ Attempt(c) \/ Abort(c) \/ Retry(c) \/ GiveUp(c)
      PROVE  now' = now /\ entry' = entry
  BY <1>5 DEF Begin, Cancel, Skip, Attempt, Abort, Retry, GiveUp
<1>6. CASE UNCHANGED vars
  BY <1>1, <1>6 DEF vars
<1> QED
  BY <1>1, <1>2, <1>3, <1>4, <1>5, <1>6 DEF Next, CallStep

\* CooldownIsEarned: whatever the order in which overlapping calls mark their
\* successes and failures, a provider is skipped only as long as its counters say.
THEOREM Earned == Spec => []CooldownIsEarned
<1>1. CooldownInv /\ [Next]_vars => CooldownInv'
  BY ProviderStepKeeps
<1>2. CooldownInv => CooldownIsEarned
  BY DEF CooldownInv, Bounded, CooldownIsEarned
<1> QED
  BY ProviderInitBounded, <1>1, <1>2, PTL DEF Spec

\* CooldownOnlyExtends: no failure, not even the first of a new window, makes a
\* provider available sooner.
THEOREM OnlyExtends == Spec => CooldownOnlyExtends
<1>1. CooldownInv /\ [Next]_vars => CooldownInv'
  BY ProviderStepKeeps
<1>2. CooldownInv /\ [Next]_vars =>
        [\A p \in Providers : entry'[p].errors # 0 => Until(p)' >= Until(p)]_vars
  BY ProviderStepKeeps
<1> QED
  BY ProviderInitBounded, <1>1, <1>2, PTL DEF Spec, CooldownOnlyExtends

\* What the chain relies on: a provider with a mark, and one whose candidate was
\* passed over or has failed, has a model that fails.
CallRecords ==
  [at : Ends \union {"idle", "check", "run", "exhausted"}, i : 1 .. Len(Candidates),
   retry : 0 .. MaxRetries, timedOut : BOOLEAN, tried : SUBSET Models]
Unsound(p) == \E m \in Models \ Healthy : ProviderOf[m] = p
UnsoundUpTo(n) == \A j \in 1 .. n : Unsound(ProviderOf[Candidates[j]])
CallOK(r) ==
  /\ r \in CallRecords
  /\ r.at = "idle" => r.i = 1
  /\ r.at \in {"check", "run"} => UnsoundUpTo(r.i - 1)
  /\ r.at \in {"exhausted", "failed"} => UnsoundUpTo(Len(Candidates))

MarksBlame == \A p \in Providers : entry[p].until # 0 \/ entry[p].disabled # 0 => Unsound(p)
AskedInv ==
  /\ CooldownInv /\ MarksBlame
  /\ call \in [Calls -> CallRecords] /\ \A c \in Calls : CallOK(call[c])

\* The candidates are models, and there is one.
LEMMA CandidateFacts ==
  /\ Len(Candidates) \in Nat /\ Len(Candidates) >= 1 /\ MaxRetries \in Nat
  /\ \A i \in 1 .. Len(Candidates) : Candidates[i] \in Models /\ ProviderOf[Candidates[i]] \in Providers
<1>1. Candidates \in Seq(Models) /\ Candidates # <<>> /\ ProviderOf \in [Models -> Providers] /\ MaxRetries \in Nat
  BY ProviderFallbackAssumption
<1> QED
  BY <1>1

LEMMA AskedInit == Init => AskedInv
<1> SUFFICES ASSUME Init PROVE AskedInv
  OBVIOUS
<1>1. NoCall \in CallRecords /\ NoCall.at = "idle" /\ NoCall.i = 1
  BY CandidateFacts DEF NoCall, CallRecords
<1>2. CallOK(NoCall)
  BY <1>1 DEF CallOK
<1>3. call = [c \in Calls |-> NoCall]
  BY DEF Init
<1>4. call \in [Calls -> CallRecords] /\ \A c \in Calls : CallOK(call[c])
  BY <1>1, <1>2, <1>3
<1>5. MarksBlame
  BY DEF Init, NoEntry, MarksBlame
<1> QED
  BY <1>4, <1>5, ProviderInitBounded DEF AskedInv

\* The loop goes on past a candidate whose provider is unsound.
LEMMA NextCandidateKeeps ==
  ASSUME NEW c \in Calls, NEW r, CallOK(r), r.at \in {"check", "run"},
         Unsound(ProviderOf[Candidates[r.i]]), NextCandidate(c, r)
  PROVE  \E new : CallOK(new) /\ call' = [call EXCEPT ![c] = new]
<1>1. r \in CallRecords /\ r.i \in 1 .. Len(Candidates) /\ UnsoundUpTo(r.i - 1) /\ Len(Candidates) \in Nat
  BY CandidateFacts DEF CallOK, CallRecords
<1>2. UnsoundUpTo(r.i)
  BY <1>1 DEF UnsoundUpTo
<1>3. CASE r.i = Len(Candidates)
  <2>1. PICK new : new = [r EXCEPT !.at = "exhausted"]
    OBVIOUS
  <2>2. new \in CallRecords /\ new.at = "exhausted"
    BY <1>1, <2>1 DEF CallRecords
  <2>3. CallOK(new)
    BY <1>2, <1>3, <2>2 DEF CallOK
  <2> QED
    BY <1>3, <2>1, <2>3 DEF NextCandidate
<1>4. CASE r.i # Len(Candidates)
  <2>1. PICK new : new = [r EXCEPT !.at = "check", !.i = r.i + 1]
    OBVIOUS
  <2>2. new \in CallRecords /\ new.at = "check" /\ new.i - 1 = r.i
    <3>1. PICK k \in 1 .. Len(Candidates) : k = r.i + 1 /\ k - 1 = r.i
      BY <1>1, <1>4
    <3>2. new = [r EXCEPT !.at = "check", !.i = k]
      BY <2>1, <3>1
    <3> QED
      BY <1>1, <3>1, <3>2 DEF CallRecords
  <2>3. CallOK(new)
    BY <1>2, <2>2 DEF CallOK
  <2> QED
    BY <1>4, <2>1, <2>3 DEF NextCandidate
<1> QED
  BY <1>3, <1>4

LEMMA CallStepKeeps ==
  ASSUME AskedInv, NEW c \in Calls, CallStep(c)
  PROVE  MarksBlame' /\ \E new : CallOK(new) /\ call' = [call EXCEPT ![c] = new]
<1>1. PICK old : old = call[c]
  OBVIOUS
<1>2. CallOK(old) /\ old \in CallRecords /\ old.i \in 1 .. Len(Candidates)
  BY <1>1 DEF AskedInv, CallRecords
<1>3. PICK q : q = ProviderAt(c)
  OBVIOUS
<1>4. /\ q = ProviderOf[Candidates[old.i]] /\ q \in Providers
      /\ Model(c) = Candidates[old.i] /\ Model(c) \in Models
  BY <1>1, <1>2, <1>3, CandidateFacts DEF ProviderAt, Model
<1>5. MarksBlame /\ TrackerOK
  BY DEF AskedInv, CooldownInv
<1>6. ASSUME NEW at \in Ends \union {"idle", "check", "run", "exhausted"}, Set(c, at),
             at # "idle",
             at = "check" => old.i = 1 \/ UnsoundUpTo(old.i - 1),
             at = "run" => UnsoundUpTo(old.i - 1),
             at \in {"exhausted", "failed"} => UnsoundUpTo(Len(Candidates))
      PROVE  \E new : CallOK(new) /\ call' = [call EXCEPT ![c] = new]
  <2>1. PICK new : new = [old EXCEPT !.at = at]
    OBVIOUS
  <2>2. new \in CallRecords /\ new.at = at /\ new.i = old.i
    BY <1>2, <2>1 DEF CallRecords
  <2>3. CallOK(new)
    BY <1>6, <2>2 DEF CallOK, UnsoundUpTo
  <2>4. call' = [call EXCEPT ![c] = new]
    BY <1>1, <1>6, <2>1 DEF Set
  <2> QED
    BY <2>3, <2>4
<1>7. UNCHANGED entry => MarksBlame'
  BY <1>5 DEF MarksBlame
<1>8. CASE Begin(c)
  <2>1. old.i = 1
    BY <1>1, <1>2, <1>8 DEF Begin, CallOK
  <2> QED
    BY <1>6, <1>7, <1>8, <2>1 DEF Begin
<1>9. CASE Cancel(c) \/ Abort(c)
  BY <1>6, <1>7, <1>9 DEF Cancel, Abort, Ends
<1>10. CASE Skip(c)
  <2>1. old.at = "check" /\ ~IsAvailable(q) /\ NextCandidate(c, old) /\ UNCHANGED entry
    BY <1>1, <1>3, <1>10 DEF Skip
  <2>2. entry[q].until # 0 \/ entry[q].disabled # 0
    BY <1>4, <1>5, <2>1 DEF IsAvailable, Until, Larger, TrackerOK
  <2>3. Unsound(q)
    BY <1>4, <1>5, <2>2 DEF MarksBlame
  <2> QED
    BY <1>2, <1>4, <1>7, <2>1, <2>3, NextCandidateKeeps
<1>11. CASE Attempt(c)
  <2>1. PICK new : new = [old EXCEPT !.at = "run", !.tried = old.tried \union {Model(c)}]
    OBVIOUS
  <2>2. old.at = "check" /\ call' = [call EXCEPT ![c] = new] /\ UNCHANGED entry
    BY <1>1, <1>11, <2>1 DEF Attempt
  <2>3. new \in CallRecords /\ new.at = "run" /\ new.i = old.i
    BY <1>2, <1>4, <2>1 DEF CallRecords
  <2>4. CallOK(new)
    BY <1>2, <2>2, <2>3 DEF CallOK
  <2> QED
    BY <1>7, <2>2, <2>4
<1>12. CASE Succeed(c)
  <2>1. MarkSuccess(q) /\ Set(c, "answered")
    BY <1>3, <1>12 DEF Succeed
  <2>2. MarksBlame'
    BY <1>4, <1>5, <2>1 DEF MarkSuccess, NoEntry, MarksBlame, TrackerOK
  <2> QED
    BY <1>6, <2>1, <2>2 DEF Ends
<1>13. ASSUME NEW reason \in Reasons, FailRetriably(c, reason)
       PROVE  MarksBlame' /\ \E new : CallOK(new) /\ call' = [call EXCEPT ![c] = new]
  <2>1. PICK r : r = [old EXCEPT !.timedOut = old.timedOut \/ reason = "timeout"]
    OBVIOUS
  <2>2. old.at = "run" /\ Model(c) \notin Healthy /\ MarkFailure(q, reason) /\ NextCandidate(c, r)
    BY <1>1, <1>3, <1>13, <2>1 DEF FailRetriably
  <2>3. Unsound(q)
    BY <1>4, <2>2 DEF Unsound
  <2>4. \A p \in Providers \ {q} : entry'[p] = entry[p]
    BY <1>5, <2>2 DEF MarkFailure, TrackerOK
  <2>5. MarksBlame'
    BY <1>5, <2>3, <2>4 DEF MarksBlame
  <2>6. r \in CallRecords /\ r.at = "run" /\ r.i = old.i
    <3>1. PICK t \in BOOLEAN : t = (old.timedOut \/ reason = "timeout")
      OBVIOUS
    <3>2. r = [old EXCEPT !.timedOut = t]
      BY <2>1, <3>1
    <3> QED
      BY <1>2, <2>2, <3>2 DEF CallRecords
  <2>7. CallOK(r)
    BY <1>2, <2>2, <2>6 DEF CallOK
  <2> QED
    BY <1>4, <2>2, <2>3, <2>5, <2>6, <2>7, NextCandidateKeeps
<1>14. CASE Retry(c)
  <2>1. PICK new : new = [NoCall EXCEPT !.at = "check", !.retry = old.retry + 1]
    OBVIOUS
  <2>2. call' = [call EXCEPT ![c] = new] /\ UNCHANGED entry /\ old.retry < MaxRetries
    BY <1>1, <1>14, <2>1 DEF Retry
  <2>3. new = [at |-> "check", i |-> 1, retry |-> old.retry + 1, timedOut |-> FALSE, tried |-> {}]
    BY <2>1 DEF NoCall
  <2>4. new \in CallRecords /\ new.at = "check" /\ new.i = 1
    BY <1>2, <2>2, <2>3, CandidateFacts DEF CallRecords
  <2>5. CallOK(new)
    BY <2>4 DEF CallOK, UnsoundUpTo
  <2> QED
    BY <1>7, <2>2, <2>5
<1>15. CASE GiveUp(c)
  <2>1. UnsoundUpTo(Len(Candidates)) /\ Set(c, "failed") /\ UNCHANGED entry
    BY <1>1, <1>2, <1>15 DEF GiveUp, CallOK
  <2> QED
    BY <1>6, <1>7, <2>1 DEF Ends
<1> QED
  BY <1>8, <1>9, <1>10, <1>11, <1>12, <1>13, <1>14, <1>15 DEF CallStep

LEMMA AskedStep == AskedInv /\ [Next]_vars => AskedInv'
<1> SUFFICES ASSUME AskedInv, [Next]_vars PROVE AskedInv'
  OBVIOUS
<1>1. CooldownInv'
  BY ProviderStepKeeps DEF AskedInv
<1>2. ASSUME NEW c \in Calls, CallStep(c) PROVE AskedInv'
  <2>1. MarksBlame'
    BY <1>2, CallStepKeeps
  <2>2. PICK new : CallOK(new) /\ call' = [call EXCEPT ![c] = new]
    BY <1>2, CallStepKeeps
  <2>3. new \in CallRecords
    BY <2>2 DEF CallOK
  <2>4. call' \in [Calls -> CallRecords] /\ \A x \in Calls : call'[x] = IF x = c THEN new ELSE call[x]
    BY <2>2, <2>3 DEF AskedInv
  <2>5. ASSUME NEW x \in Calls PROVE CallOK(call'[x])
    BY <2>2, <2>4 DEF AskedInv
  <2> QED
    BY <1>1, <2>1, <2>4, <2>5 DEF AskedInv, CallOK
<1>3. CASE UNCHANGED <<entry, call>>
  BY <1>1, <1>3 DEF AskedInv, MarksBlame, CallOK
<1> QED
  BY <1>2, <1>3 DEF Next, Tick, vars

\* SoundProviderIsAsked: whatever the calls that overlap have marked, a chain
\* gives up only when every candidate's provider has a model that fails.
THEOREM SoundIsAsked == Spec => []SoundProviderIsAsked
<1>1. AskedInv => SoundProviderIsAsked
  <2> SUFFICES ASSUME AskedInv, NEW c \in Calls, call[c].at \in {"exhausted", "failed"},
                      NEW i \in DOMAIN Candidates
               PROVE  \E m \in Models \ Healthy : ProviderOf[m] = ProviderOf[Candidates[i]]
    BY DEF SoundProviderIsAsked
  <2>1. i \in 1 .. Len(Candidates)
    BY ProviderFallbackAssumption
  <2> QED
    BY <2>1 DEF AskedInv, CallOK, UnsoundUpTo, Unsound
<1> QED
  BY <1>1, AskedInit, AskedStep, PTL DEF Spec

-----------------------------------------------------------------------------
(***************************************************************************)
(* GatewayProcess: the launcher knows the one gateway that runs, for any   *)
(* number of children started and of status requests                       *)
(***************************************************************************)

GatewayTypes ==
  /\ children \in 0 .. MaxChildren
  /\ gateway \in [cmd : 0 .. children,
                  status : {"stopped", "starting", "running", "restarting", "error"},
                  health : {"none", "unreachable", "error", "running"}, fresh : BOOLEAN]
  /\ gatewayMu \in {"free", "restart", "probe"}
  /\ child \in [Children -> [os : {"none", "up", "term", "exited", "gone"},
                             wait : {"none", "wait", "lock", "broadcast", "done"},
                             probe : {"none", "sleep", "found", "broadcast", "done"}]]

\* A child that was not started is not there, and one that is alive is the one
\* in the struct.  What the goroutine that waits for a child does to the struct
\* comes after that child's end, and a restart replaces what it has found.
UnstartedIsNone == \A k \in Children : k > children => child[k].os = "none"
OneInStruct == \A k \in Children : IsAlive(k) => gateway.cmd = k /\ gateway.status # "stopped"
WaitFollowsEnd == \A k \in Children : child[k].wait = "lock" => child[k].os = "gone"
RestartOwns == gatewayMu = "restart" => previous = gateway.cmd

GatewayInv == GatewayTypes /\ UnstartedIsNone /\ OneInStruct /\ WaitFollowsEnd /\ RestartOwns

LEMMA GatewayInitEstablishes == GatewayInit => GatewayInv
BY GatewayProcessAssumption
DEF GatewayInit, GatewayInv, GatewayTypes, UnstartedIsNone, OneInStruct, WaitFollowsEnd,
    RestartOwns, IsAlive, NoChild, Children

\* A started child is alone: nobody else was alive.
LEMMA GatewayStartPreserves ==
  ASSUME GatewayInv, NEW initial \in {"starting", "restarting"}, StartGateway(initial),
         ~IsAlive(gateway.cmd), gatewayMu' \in {"free", "restart", "probe"},
         gatewayMu' # "restart"
  PROVE  GatewayInv'
<1> DEFINE n == children + 1
<1>1. n \in Children /\ children' = n /\ n \in 0 .. MaxChildren
  BY GatewayProcessAssumption DEF GatewayInv, GatewayTypes, StartGateway, Children
<1>2. /\ child' = [child EXCEPT ![n] = [os |-> "up", wait |-> "wait", probe |-> "sleep"]]
      /\ gateway' = [cmd |-> n, status |-> initial, health |-> gateway.health,
                     fresh |-> gateway.fresh]
  BY DEF StartGateway, ChildBecomes, GatewayBecomes
<1>3. \A k \in Children : ~IsAlive(k)
  BY DEF GatewayInv, OneInStruct
<1>4. GatewayTypes'
  BY <1>1, <1>2 DEF GatewayInv, GatewayTypes
<1>5. UnstartedIsNone'
  BY <1>1, <1>2 DEF GatewayInv, GatewayTypes, UnstartedIsNone, Children
<1>6. OneInStruct'
  BY <1>1, <1>2, <1>3 DEF GatewayInv, GatewayTypes, OneInStruct, IsAlive, Children
<1>7. WaitFollowsEnd'
  BY <1>1, <1>2 DEF GatewayInv, GatewayTypes, WaitFollowsEnd
<1> QED
  BY <1>4, <1>5, <1>6, <1>7 DEF GatewayInv, RestartOwns

LEMMA GatewayStepPreserves == GatewayInv /\ [GatewayNext]_gatewayVars => GatewayInv'
<1> SUFFICES ASSUME GatewayInv, [GatewayNext]_gatewayVars PROVE GatewayInv'
  OBVIOUS
<1> USE DEF GatewayInv, GatewayTypes, UnstartedIsNone, OneInStruct, WaitFollowsEnd, RestartOwns,
            IsAlive
<1>1. CASE Start
  BY <1>1, GatewayStartPreserves DEF Start
<1>2. CASE StartFails
  BY <1>2 DEF StartFails, GatewayBecomes
<1>3. CASE Stop
  BY <1>3 DEF Stop, Signal, ChildBecomes, Children
<1>4. CASE RestartBegins
  <2> DEFINE g == gateway.cmd
  <2>1. /\ gateway' = [cmd |-> g, status |-> "restarting", health |-> gateway.health,
                       fresh |-> gateway.fresh]
        /\ gatewayMu' = "restart" /\ previous' = g /\ children' = children
    BY <1>4 DEF RestartBegins, GatewayBecomes
  <2>2. g \in 0 .. children /\ children \in 0 .. MaxChildren
    OBVIOUS
  <2>3. CASE g # 0 /\ child[g].os = "up"
    <3>1. g \in Children
      BY <2>2, <2>3, GatewayProcessAssumption DEF Children
    <3>2. child' = [child EXCEPT ![g] = [os |-> "term", wait |-> child[g].wait,
                                         probe |-> child[g].probe]]
      BY <1>4, <2>3 DEF RestartBegins, Signal, ChildBecomes
    <3> QED
      BY <2>1, <2>2, <2>3, <3>1, <3>2
  <2>4. CASE ~(g # 0 /\ child[g].os = "up")
    <3>1. child' = child
      BY <1>4, <2>4 DEF RestartBegins
    <3> QED
      BY <2>1, <2>2, <3>1
  <2> QED
    BY <2>3, <2>4
<1>5. CASE RestartStarts
  BY <1>5, GatewayStartPreserves DEF RestartStarts
<1>6. CASE RestartFails
  BY <1>6 DEF RestartFails, GatewayBecomes
<1>7. CASE RestartGivesUp
  BY <1>7 DEF RestartGivesUp, GatewayBecomes
<1>8. CASE \E k \in Children : ChildStep(k)
  <2> PICK k \in Children : ChildStep(k)
    BY <1>8
  <2>1. CASE ChildExits(k)
    BY <2>1 DEF ChildExits, ChildBecomes
  <2>2. CASE Reap(k)
    BY <2>2 DEF Reap, ChildBecomes
  <2>3. CASE WaitClears(k)
    BY <2>3 DEF WaitClears, ChildBecomes, GatewayBecomes
  <2>4. CASE BroadcastStopped(k)
    BY <2>4 DEF BroadcastStopped, ChildBecomes
  <2>5. CASE ProbeTry(k)
    BY <2>5 DEF ProbeTry, ChildBecomes
  <2>6. CASE ProbeSets(k)
    BY <2>6 DEF ProbeSets, ChildBecomes, GatewayBecomes
  <2>7. CASE BroadcastRunning(k)
    BY <2>7 DEF BroadcastRunning, ChildBecomes
  <2> QED
    BY <2>1, <2>2, <2>3, <2>4, <2>5, <2>6, <2>7 DEF ChildStep
<1>9. CASE \E r \in StatusRequests : StatusLooks(r) \/ StatusReads(r)
  BY <1>9 DEF StatusLooks, StatusReads
<1>10. CASE \E r \in StatusRequests : StatusSets(r)
  BY <1>10 DEF StatusSets, GatewayBecomes
<1>11. CASE ProbeLocks
  BY <1>11 DEF ProbeLocks
<1>12. CASE Probe
  BY <1>12 DEF Probe
<1>13. CASE CacheAges
  BY <1>13 DEF CacheAges
<1>14. CASE UNCHANGED gatewayVars
  BY <1>14 DEF gatewayVars
<1> QED
  BY <1>1, <1>2, <1>3, <1>4, <1>5, <1>6, <1>7, <1>8, <1>9, <1>10, <1>11, <1>12, <1>13, <1>14
  DEF GatewayNext

\* Two gateways never live at once, the one that does is in the struct, and it
\* is not called stopped: Stop and restart reach it, whatever the goroutines of
\* earlier children and status requests do meanwhile.
THEOREM KnownGateway == GatewaySpec => []GatewayIsKnown
<1>1. GatewayInv => GatewayIsKnown
  BY DEF GatewayInv, GatewayTypes, OneInStruct, GatewayIsKnown
<1> QED
  BY <1>1, GatewayInitEstablishes, GatewayStepPreserves, PTL DEF GatewaySpec

-----------------------------------------------------------------------------
(***************************************************************************)
(* ChatHub: no turn waits for ever for a client, for any number of turns   *)
(* and connections and every capacity of the queue                         *)
(***************************************************************************)

ChatHubTypes ==
  /\ connections \in 0 .. MaxClients /\ registered \in 0 .. connections
  /\ DOMAIN client = Clients
  /\ broadcast \in [Turns -> 0 .. connections]

\* A client that was replaced or removed is done, and nothing undoes it.
ReplacedIsDone == \A k \in 1 .. connections : registered = k \/ client[k].done = TRUE

\* A pump ends only after it has removed whichever client there was: its own
\* is done then, by its hand or by whoever replaced it.
PumpEndsDone ==
  \A k \in 1 .. connections :
    client[k].pump \in {"run", "remove"} \/ client[k].done = TRUE

ChatHubInv == ChatHubTypes /\ ReplacedIsDone /\ PumpEndsDone

LEMMA ChatHubInitEstablishes == ChatHubInit => ChatHubInv
<1> SUFFICES ASSUME ChatHubInit PROVE ChatHubInv
  OBVIOUS
<1>1. connections = 0 /\ registered = 0 /\ MaxClients \in Nat /\ DOMAIN client = Clients
  BY ChatHubAssumption DEF ChatHubInit
<1>2. broadcast = [t \in Turns |-> 0]
  BY DEF ChatHubInit
<1>3. ChatHubTypes
  BY <1>1, <1>2 DEF ChatHubTypes
<1> QED
  BY <1>1, <1>3 DEF ChatHubInv, ReplacedIsDone, PumpEndsDone

\* Reader and pump end after the registered client is done.
LEMMA ChatHubRemovePreserves ==
  ASSUME ChatHubInv, NEW k \in Clients, NEW pump, NEW reader, RemoveClient(k, pump, reader),
         pump = client[k].pump \/ pump = "ended", UNCHANGED <<connections, broadcast>>
  PROVE  ChatHubInv'
<1>1. /\ \A j \in Clients : /\ client'[j].done = IF j = registered THEN TRUE ELSE client[j].done
                            /\ client'[j].pump = IF j = k THEN pump ELSE client[j].pump
      /\ DOMAIN client' = Clients /\ registered' = 0
  BY DEF RemoveClient
<1>2. \A j \in 1 .. connections : client'[j].done = TRUE
  <2> TAKE j \in 1 .. connections
  <2>1. j \in Clients
    BY ChatHubAssumption DEF ChatHubInv, ChatHubTypes, Clients
  <2>2. registered = j \/ client[j].done = TRUE
    BY DEF ChatHubInv, ReplacedIsDone
  <2> QED
    BY <1>1, <2>1, <2>2
<1>3. connections' = connections /\ broadcast' = broadcast
  OBVIOUS
<1>4. ChatHubTypes'
  BY <1>1, <1>3 DEF ChatHubInv, ChatHubTypes
<1>5. ReplacedIsDone' /\ PumpEndsDone'
  BY <1>2, <1>3 DEF ReplacedIsDone, PumpEndsDone
<1> QED
  BY <1>4, <1>5 DEF ChatHubInv

LEMMA ChatHubStepPreserves == ChatHubInv /\ [ChatHubNext]_chatHubVars => ChatHubInv'
<1> SUFFICES ASSUME ChatHubInv, [ChatHubNext]_chatHubVars PROVE ChatHubInv'
  OBVIOUS
<1> USE DEF ChatHubInv, ChatHubTypes, ReplacedIsDone, PumpEndsDone
<1>1. CASE AddClient
  BY <1>1, ChatHubAssumption DEF AddClient, Clients
<1>2. CASE \E k \in Clients : BrowserCloses(k)
  BY <1>2, ChatHubAssumption DEF BrowserCloses, ClientBecomes, Clients
<1>3. ASSUME NEW k \in Clients, ReaderRemoves(k) PROVE ChatHubInv'
  BY <1>3, ChatHubRemovePreserves DEF ReaderRemoves
<1>4. CASE \E k \in Clients : PumpWrites(k)
  BY <1>4, ChatHubAssumption DEF PumpWrites, ClientBecomes, Clients
<1>5. CASE \E k \in Clients : PumpCloses(k)
  BY <1>5, ChatHubAssumption DEF PumpCloses, ClientBecomes, Clients
<1>6. ASSUME NEW k \in Clients, PumpRemoves(k) PROVE ChatHubInv'
  BY <1>6, ChatHubRemovePreserves DEF PumpRemoves
<1>7. CASE \E t \in Turns : Broadcast(t)
  BY <1>7, ChatHubAssumption DEF Broadcast
<1>8. ASSUME NEW t \in Turns, BroadcastSends(t) PROVE ChatHubInv'
  <2>1. PICK k \in Clients :
          \/ client' = client
          \/ ClientBecomes(k, client[k].open, client[k].queue + 1, client[k].pump)
    BY <1>8, ChatHubAssumption DEF BroadcastSends, Clients
  <2>2. \A j \in Clients : client'[j].done = client[j].done /\ client'[j].pump = client[j].pump
    BY <2>1 DEF ClientBecomes
  <2>3. broadcast' = [broadcast EXCEPT ![t] = 0] /\ UNCHANGED <<registered, connections>>
    BY <1>8 DEF BroadcastSends
  <2>4. DOMAIN client' = Clients /\ 1 .. connections \subseteq Clients
    BY <2>1, ChatHubAssumption DEF Clients, ClientBecomes
  <2>5. ChatHubTypes'
    BY <2>3, <2>4
  <2>6. ReplacedIsDone' /\ PumpEndsDone'
    BY <2>2, <2>3, <2>4
  <2> QED
    BY <2>5, <2>6
<1>9. CASE UNCHANGED chatHubVars
  BY <1>9 DEF chatHubVars
<1> QED
  BY <1>1, <1>2, <1>3, <1>4, <1>5, <1>6, <1>7, <1>8, <1>9 DEF ChatHubNext

\* Whichever connections replace one another and whichever goroutine removes
\* whose client: a turn in a broadcast has a client that is done or a pump that
\* will make it so.
THEOREM Released == ChatHubSpec => []BroadcastIsReleased
<1>1. ChatHubInv => BroadcastIsReleased
  BY ChatHubAssumption
  DEF ChatHubInv, ChatHubTypes, ReplacedIsDone, PumpEndsDone, BroadcastIsReleased
<1> QED
  BY <1>1, ChatHubInitEstablishes, ChatHubStepPreserves, PTL DEF ChatHubSpec

-----------------------------------------------------------------------------
(***************************************************************************)
(* MCPManager: closing is orderly for any number of servers and of tool    *)
(* calls                                                                   *)
(***************************************************************************)

MCPTypes ==
  /\ mcpInit \in {"no", "loading", "registering", "done"}
  /\ manager \in BOOLEAN /\ closed \in BOOLEAN
  /\ session \in [Servers -> {"none", "connecting", "failed", "open", "dead", "closed"}]
  /\ closer \in {"no", "wait", "lock", "returned"}
  /\ DOMAIN toolCall = ToolCalls

\* Nothing is closed before the servers were connected to, and once.
LoadedBeforeClosed ==
  /\ mcpInit \in {"registering", "done"} => \A s \in Servers : session[s] # "connecting"
  /\ manager \/ closed => mcpInit = "done"
  /\ closed <=> closer # "no"

\* A call that was counted in time holds up the closer.
EarlyIsWaitedFor ==
  \A c \in ToolCalls : toolCall[c].at = "calling" =>
    /\ toolCall[c].server \in Servers
    /\ toolCall[c].early => closer \in {"no", "wait"}

ClosedByCloser ==
  /\ closer # "returned" => \A s \in Servers : session[s] # "closed"
  /\ closer = "returned" => \A s \in Servers : session[s] \notin {"open", "dead"}

MCPInv == MCPTypes /\ LoadedBeforeClosed /\ EarlyIsWaitedFor /\ ClosedByCloser

LEMMA MCPInitEstablishes == MCPInit => MCPInv
<1> SUFFICES ASSUME MCPInit PROVE MCPInv
  OBVIOUS
<1>1. PICK first : toolCall = [c \in ToolCalls |-> NoToolCall(first)]
  BY DEF MCPInit
<1>2. DOMAIN toolCall = ToolCalls /\ \A c \in ToolCalls : toolCall[c].at # "calling"
  BY <1>1 DEF NoToolCall
<1> QED
  BY <1>2 DEF MCPInit, MCPInv, MCPTypes, LoadedBeforeClosed, EarlyIsWaitedFor, ClosedByCloser

\* Loading, and what ends it or closes the manager, leave the calls alone.
LEMMA MCPLoadPreserves ==
  ASSUME MCPInv, UNCHANGED toolCall,
         \/ \E who \in {"run", "direct"} : EnsureInitialized(who)
         \/ \E s \in Servers : ConnectServer(s)
         \/ StarterEnds \/ LoadEnds \/ Misconfigured \/ SetManager \/ LoopCloses
  PROVE  MCPInv'
<1> USE DEF MCPInv, MCPTypes, LoadedBeforeClosed, EarlyIsWaitedFor, ClosedByCloser
<1>1. CASE \E who \in {"run", "direct"} : EnsureInitialized(who)
  BY <1>1 DEF EnsureInitialized
<1>2. CASE \E s \in Servers : ConnectServer(s)
  BY <1>2 DEF ConnectServer
<1>3. CASE StarterEnds
  BY <1>3 DEF StarterEnds
<1>4. CASE LoadEnds
  BY <1>4 DEF LoadEnds, CloseManager
<1>5. CASE Misconfigured
  BY <1>5 DEF Misconfigured, CloseManager
<1>6. CASE SetManager
  BY <1>6 DEF SetManager
<1>7. CASE LoopCloses
  BY <1>7 DEF LoopCloses, CloseManager
<1> QED
  BY <1>1, <1>2, <1>3, <1>4, <1>5, <1>6, <1>7

LEMMA MCPStepPreserves == MCPInv /\ [MCPNext]_mcpVars => MCPInv'
<1> SUFFICES ASSUME MCPInv, [MCPNext]_mcpVars PROVE MCPInv'
  OBVIOUS
<1>1. CASE \/ \E who \in {"run", "direct"} : EnsureInitialized(who)
           \/ \E s \in Servers : ConnectServer(s)
           \/ StarterEnds \/ LoadEnds \/ Misconfigured \/ SetManager \/ LoopCloses
  <2>1. UNCHANGED toolCall
    BY <1>1 DEF EnsureInitialized, ConnectServer, StarterEnds, LoadEnds, Misconfigured,
                SetManager, LoopCloses
  <2> QED BY <1>1, <2>1, MCPLoadPreserves
<1> USE DEF MCPInv, MCPTypes, LoadedBeforeClosed, EarlyIsWaitedFor, ClosedByCloser
<1>2. ASSUME NEW c \in ToolCalls, NEW s \in Servers, CallTool(c, s) PROVE MCPInv'
  BY <1>2 DEF CallTool, CallBecomes
<1>3. ASSUME NEW c \in ToolCalls, Recheck(c) PROVE MCPInv'
  BY <1>3 DEF Recheck, CallBecomes
<1>4. ASSUME NEW c \in ToolCalls, Count(c) PROVE MCPInv'
  BY <1>4 DEF Count, CallBecomes, Connected
<1>5. ASSUME NEW c \in ToolCalls, ToolReturns(c) PROVE MCPInv'
  BY <1>5 DEF ToolReturns, CallBecomes
<1>6. CASE WaitForCalls
  BY <1>6 DEF WaitForCalls
<1>7. CASE CloseSessions
  BY <1>7 DEF CloseSessions, Connected
<1>8. CASE UNCHANGED mcpVars
  BY <1>8 DEF mcpVars
<1> QED
  BY <1>1, <1>2, <1>3, <1>4, <1>5, <1>6, <1>7, <1>8 DEF MCPNext

\* However calls, loading and the loop's end cross, a call that was counted
\* before Close set its flag finds its session open, and no session is left
\* when Close has returned.
THEOREM OrderlyClose == MCPSpec => []CloseIsOrderly
<1>1. MCPInv => CloseIsOrderly
  BY DEF MCPInv, LoadedBeforeClosed, EarlyIsWaitedFor, ClosedByCloser, CloseIsOrderly
<1> QED
  BY <1>1, MCPInitEstablishes, MCPStepPreserves, PTL DEF MCPSpec

-----------------------------------------------------------------------------
(***************************************************************************)
(* ToolDiscovery: what is offered or found can be used, for any number of  *)
(* turns at once, hidden tools, rounds and calls                           *)
(***************************************************************************)
CallLists == UNION {[1 .. n -> Hidden \cup {Search}] : n \in 0 .. MaxWidth}
ResultLists == UNION {[1 .. n -> {"none", "ran", "missing"}] : n \in 0 .. MaxWidth}

DiscoveryTypes ==
  /\ ttl \in [Hidden -> 0 .. TTL]
  /\ loop \in [Loops -> [at : {"idle", "offer", "model", "calls"}, round : 0 .. MaxRounds,
                         offered : SUBSET Hidden, calls : CallLists, results : ResultLists]]
  /\ found \in [Loops -> SUBSET Hidden]
  /\ crossed \in SUBSET Loops
  /\ \A l \in Loops : /\ DOMAIN loop[l].results = DOMAIN loop[l].calls
                      /\ loop[l].at = "offer" => loop[l].round < MaxRounds

\* A turn that ended leaves nothing to the next one of its goroutine.
IdleIsNew == \A l \in Loops : loop[l].at = "idle" => loop[l] = NoLoop /\ found[l] = {}

\* What a turn was offered is there until it counts down itself; what it found
\* has all its rounds until then, and all but one after it.
Undisturbed(l) ==
  /\ loop[l].at \in {"model", "calls"} => loop[l].offered \subseteq Visible
  /\ loop[l].at = "model" => found[l] = {}
  /\ loop[l].at = "calls" => \A t \in found[l] : ttl[t] = TTL
  /\ loop[l].at = "offer" => \A t \in found[l] : ttl[t] >= TTL - 1
  /\ ~Refused(l)

DiscoveryInv == DiscoveryTypes /\ IdleIsNew /\ \A l \in Loops \ crossed : Undisturbed(l)

LEMMA DiscoveryInitEstablishes == DiscoveryInit => DiscoveryInv
<1> SUFFICES ASSUME DiscoveryInit PROVE DiscoveryInv
  OBVIOUS
<1> USE DiscoveryAssumption DEF DiscoveryInit
<1>1. <<>> \in CallLists /\ <<>> \in ResultLists
  <2>1. \A S : <<>> \in [1 .. 0 -> S]
    OBVIOUS
  <2>2. 0 \in 0 .. MaxWidth
    OBVIOUS
  <2> QED
    BY <2>1, <2>2 DEF CallLists, ResultLists
<1>2. \A l \in Loops : loop[l] = NoLoop /\ found[l] = {}
  OBVIOUS
<1>3. DiscoveryTypes
  BY <1>1 DEF DiscoveryTypes, NoLoop
<1>4. \A l \in Loops : Undisturbed(l)
  BY <1>2 DEF Undisturbed, Refused, NoLoop
<1> QED
  BY <1>2, <1>3, <1>4 DEF DiscoveryInv, IdleIsNew

\* A step of one turn that takes no rounds away disturbs no other turn.
LEMMA DiscoveryOthersKeep ==
  ASSUME DiscoveryInv, NEW l \in Loops, NEW k \in Loops \ crossed, k # l,
         loop'[k] = loop[k], found'[k] = found[k],
         ttl' \in [Hidden -> 0 .. TTL], \A t \in Hidden : ttl'[t] >= ttl[t]
  PROVE  Undisturbed(k)'
<1>1. Undisturbed(k) /\ ttl \in [Hidden -> 0 .. TTL] /\ found[k] \subseteq Hidden /\ TTL \in Nat
  BY DiscoveryAssumption DEF DiscoveryInv, DiscoveryTypes
<1>2. Visible \subseteq Visible'
  BY <1>1 DEF Visible
<1>3. Refused(k)' = Refused(k)
  BY DEF Refused
<1>4. \A t \in found[k] : (ttl[t] = TTL => ttl'[t] = TTL) /\ (ttl[t] >= TTL - 1 => ttl'[t] >= TTL - 1)
  BY <1>1
<1> QED
  BY <1>1, <1>2, <1>3, <1>4 DEF Undisturbed

\* Beginning, offering, being answered and ending.
LEMMA DiscoveryModelKeeps ==
  ASSUME DiscoveryInv, NEW l \in Loops,
         BeginLoop(l) \/ OfferTools(l) \/ ModelCalls(l) \/ LoopEnds(l)
  PROVE  DiscoveryInv'
<1>1. DiscoveryTypes /\ IdleIsNew /\ \A k \in Loops \ crossed : Undisturbed(k)
  BY DEF DiscoveryInv
<1>2. UNCHANGED ttl /\ crossed' \in {crossed, crossed \ {l}}
  BY DEF BeginLoop, OfferTools, ModelCalls, LoopEnds
<1>3. ttl' \in [Hidden -> 0 .. TTL] /\ \A t \in Hidden : ttl'[t] >= ttl[t]
  BY <1>1, <1>2, DiscoveryAssumption DEF DiscoveryTypes
<1>4. \A k \in Loops : k # l => loop'[k] = loop[k] /\ found'[k] = found[k]
  BY <1>1 DEF DiscoveryTypes, BeginLoop, OfferTools, ModelCalls, LoopEnds
<1>5. \A k \in Loops \ crossed' : k # l => Undisturbed(k)'
  BY <1>2, <1>3, <1>4, DiscoveryOthersKeep
<1>6. <<>> \in CallLists /\ <<>> \in ResultLists
  <2>1. \A S : <<>> \in [1 .. 0 -> S]
    OBVIOUS
  <2>2. 0 \in 0 .. MaxWidth
    BY DiscoveryAssumption
  <2> QED
    BY <2>1, <2>2 DEF CallLists, ResultLists
<1> DEFINE Turn == [at : {"idle", "offer", "model", "calls"}, round : 0 .. MaxRounds,
                    offered : SUBSET Hidden, calls : CallLists, results : ResultLists]
<1>7. /\ loop \in [Loops -> Turn] /\ found \in [Loops -> SUBSET Hidden] /\ crossed \in SUBSET Loops
      /\ DOMAIN loop[l].results = DOMAIN loop[l].calls
      /\ loop[l].at = "offer" => loop[l].round < MaxRounds
  BY <1>1 DEF DiscoveryTypes
<1> HIDE DEF Turn
<1>e. DOMAIN <<>> = {} /\ {} \in SUBSET Hidden
  OBVIOUS
<1>8. ASSUME NEW new \in Turn, NEW tools \in SUBSET Hidden,
             loop' = [loop EXCEPT ![l] = new], found' = [found EXCEPT ![l] = tools],
             DOMAIN new.results = DOMAIN new.calls,
             new.at = "offer" => new.round < MaxRounds,
             new.at = "idle" => new = NoLoop /\ tools = {},
             l \notin crossed' => Undisturbed(l)'
      PROVE  DiscoveryInv'
  <2>1. /\ loop' \in [Loops -> Turn] /\ loop'[l] = new
        /\ found' \in [Loops -> SUBSET Hidden] /\ found'[l] = tools
    BY <1>7, <1>8
  <2>2. DiscoveryTypes'
    BY <1>1, <1>2, <1>3, <1>4, <1>7, <1>8, <2>1 DEF DiscoveryTypes, Turn
  <2>3. IdleIsNew'
    BY <1>1, <1>4, <1>8, <2>1 DEF IdleIsNew
  <2> QED
    BY <1>5, <1>8, <2>2, <2>3 DEF DiscoveryInv
<1>9. CASE BeginLoop(l)
  <2> DEFINE new == [NoLoop EXCEPT !.at = "offer"]
  <2>1. loop[l] = NoLoop /\ found[l] = {}
    BY <1>1, <1>9 DEF IdleIsNew, BeginLoop
  <2>2. new \in Turn /\ new.at = "offer" /\ new.round = 0 /\ new.calls = <<>> /\ new.results = <<>>
    BY <1>6, DiscoveryAssumption DEF Turn, NoLoop
  <2>3. loop' = [loop EXCEPT ![l] = new] /\ found' = [found EXCEPT ![l] = {}] /\ loop'[l] = new
        /\ found'[l] = {}
    BY <1>7, <1>9, <2>1 DEF BeginLoop
  <2> HIDE DEF new
  <2>4. Undisturbed(l)'
    BY <1>e, <2>2, <2>3 DEF Undisturbed, Refused
  <2>5. DOMAIN new.results = DOMAIN new.calls /\ new.round < MaxRounds /\ new.at # "idle"
    BY <2>2, DiscoveryAssumption
  <2> QED
    BY <1>8, <1>e, <2>2, <2>3, <2>4, <2>5
<1>10. CASE OfferTools(l)
  <2> DEFINE new == [NoLoop EXCEPT !.at = "model", !.round = loop[l].round + 1, !.offered = Visible]
  <2>1. loop' = [loop EXCEPT ![l] = new] /\ found' = [found EXCEPT ![l] = {}]
    BY <1>10 DEF OfferTools
  <2>2. loop[l].round + 1 \in 0 .. MaxRounds
    BY <1>7, <1>10, DiscoveryAssumption DEF OfferTools, Turn
  <2>3. new \in Turn /\ new.at = "model" /\ new.calls = <<>> /\ new.results = <<>>
        /\ new.offered = Visible
    BY <1>6, <2>2 DEF Turn, NoLoop, Visible
  <2> HIDE DEF new
  <2>4. loop'[l] = new /\ found'[l] = {}
    BY <1>7, <2>1
  <2>5. Visible' = Visible
    BY <1>2 DEF Visible
  <2>6. Undisturbed(l)'
    BY <1>e, <2>3, <2>4, <2>5 DEF Undisturbed, Refused
  <2> QED
    BY <1>8, <1>e, <2>1, <2>3, <2>6
<1>11. CASE ModelCalls(l)
  <2>0. PICK n \in 1 .. MaxWidth : \E wanted \in [1 .. n -> Hidden \cup {Search}] :
          loop' = [loop EXCEPT ![l].at = "calls", ![l].calls = wanted,
                               ![l].results = [i \in 1 .. n |-> "none"]]
    BY <1>11 DEF ModelCalls
  <2>1. PICK wanted \in [1 .. n -> Hidden \cup {Search}] :
          loop' = [loop EXCEPT ![l].at = "calls", ![l].calls = wanted,
                               ![l].results = [i \in 1 .. n |-> "none"]]
    BY <2>0
  <2> DEFINE outcomes == [i \in 1 .. n |-> "none"]
             new == [at |-> "calls", round |-> loop[l].round, offered |-> loop[l].offered,
                     calls |-> wanted, results |-> outcomes]
  <2>2. wanted \in CallLists /\ outcomes \in ResultLists /\ DOMAIN wanted = DOMAIN outcomes
    <3>1. n \in 0 .. MaxWidth
      BY DiscoveryAssumption
    <3> QED
      BY <3>1 DEF CallLists, ResultLists
  <2>3. \A i \in DOMAIN outcomes : outcomes[i] = "none"
    OBVIOUS
  <2>4. loop' = [loop EXCEPT ![l] = new]
    <3>1. loop' = [loop EXCEPT ![l] = [loop[l] EXCEPT !.at = "calls", !.calls = wanted,
                                                      !.results = outcomes]]
      BY <2>1
    <3> HIDE DEF outcomes
    <3>2. loop[l] \in Turn
      BY <1>7
    <3> DEFINE one == [loop[l] EXCEPT !.at = "calls"]
               two == [one EXCEPT !.calls = wanted]
    <3>3. one = [at |-> "calls", round |-> loop[l].round, offered |-> loop[l].offered,
                 calls |-> loop[l].calls, results |-> loop[l].results]
      BY <3>2 DEF Turn
    <3> HIDE DEF one
    <3>4. two = [at |-> "calls", round |-> loop[l].round, offered |-> loop[l].offered,
                 calls |-> wanted, results |-> loop[l].results]
      BY <3>3
    <3> HIDE DEF two
    <3>5. [two EXCEPT !.results = outcomes] = new
      BY <3>4
    <3> QED
      BY <3>1, <3>5 DEF one, two
  <2> HIDE DEF outcomes
  <2>5. /\ new \in Turn /\ new.at = "calls" /\ new.results = outcomes /\ new.calls = wanted
        /\ new.offered = loop[l].offered
    BY <1>7, <2>2 DEF Turn
  <2> HIDE DEF new
  <2>6. found' = [found EXCEPT ![l] = found[l]] /\ crossed' = crossed
    BY <1>7, <1>11 DEF ModelCalls
  <2>7. loop'[l] = new /\ found'[l] = found[l] /\ Visible' = Visible
    BY <1>2, <1>7, <2>4, <2>6 DEF Visible
  <2>8. l \notin crossed => Undisturbed(l)'
    BY <1>1, <1>11, <2>2, <2>3, <2>5, <2>7 DEF Undisturbed, Refused, ModelCalls
  <2> QED
    BY <1>7, <1>8, <2>2, <2>4, <2>5, <2>6, <2>8
<1>12. CASE LoopEnds(l)
  <2>1. loop' = [loop EXCEPT ![l] = NoLoop] /\ found' = [found EXCEPT ![l] = {}]
    BY <1>12 DEF LoopEnds
  <2>2. NoLoop \in Turn /\ NoLoop.at = "idle" /\ NoLoop.calls = <<>> /\ NoLoop.results = <<>>
    BY <1>6, DiscoveryAssumption DEF Turn, NoLoop
  <2>3. loop'[l] = NoLoop /\ found'[l] = {}
    BY <1>7, <2>1
  <2>4. Undisturbed(l)'
    BY <1>e, <2>2, <2>3 DEF Undisturbed, Refused
  <2> QED
    BY <1>8, <1>e, <2>1, <2>2, <2>4
<1> QED
  BY <1>9, <1>10, <1>11, <1>12

\* A call of a round: a hidden tool, or a search that unlocks others.
LEMMA DiscoveryCallKeeps ==
  ASSUME DiscoveryInv, NEW l \in Loops, ExecuteCall(l)
  PROVE  DiscoveryInv'
<1>1. DiscoveryTypes /\ IdleIsNew /\ \A k \in Loops \ crossed : Undisturbed(k)
  BY DEF DiscoveryInv
<1>2. PICK i \in Unanswered(l), result \in {"ran", "missing"} :
        /\ loop' = [loop EXCEPT ![l].results[i] = result]
        /\ result = "missing" =>
             loop[l].calls[i] \in Hidden /\ loop[l].calls[i] \notin Visible
        /\ UNCHANGED crossed
  <2>1. PICK i \in Unanswered(l) : ExecuteTool(l, i) \/ ExecuteSearch(l, i)
    BY DEF ExecuteCall
  <2> QED
    BY <2>1 DEF ExecuteTool, ExecuteSearch
<1>3. \E tools \in SUBSET Hidden :
        \/ ttl' = ttl /\ found' = found
        \/ PromoteTools(tools) /\ found' = [found EXCEPT ![l] = found[l] \cup tools]
  <2>1. PICK j \in Unanswered(l) : ExecuteTool(l, j) \/ ExecuteSearch(l, j)
    BY DEF ExecuteCall
  <2>2. {} \in SUBSET Hidden
    OBVIOUS
  <2>3. CASE ExecuteTool(l, j)
    BY <2>2, <2>3 DEF ExecuteTool
  <2>4. CASE ExecuteSearch(l, j)
    BY <2>4 DEF ExecuteSearch
  <2> QED
    BY <2>1, <2>3, <2>4
<1>4. /\ ttl' \in [Hidden -> 0 .. TTL] /\ \A t \in Hidden : ttl'[t] >= ttl[t]
      /\ found' \in [Loops -> SUBSET Hidden]
      /\ \A k \in Loops : k # l => found'[k] = found[k]
      /\ \A t \in found'[l] : ttl'[t] = TTL \/ (t \in found[l] /\ ttl'[t] = ttl[t])
  <2>1. TTL \in Nat /\ ttl \in [Hidden -> 0 .. TTL] /\ found \in [Loops -> SUBSET Hidden]
    BY <1>1, DiscoveryAssumption DEF DiscoveryTypes
  <2>2. PICK tools \in SUBSET Hidden :
          \/ ttl' = ttl /\ found' = found
          \/ PromoteTools(tools) /\ found' = [found EXCEPT ![l] = found[l] \cup tools]
    BY <1>3
  <2>3. CASE ttl' = ttl /\ found' = found
    BY <2>1, <2>3
  <2>4. CASE PromoteTools(tools) /\ found' = [found EXCEPT ![l] = found[l] \cup tools]
    <3>1. \A t \in Hidden : ttl'[t] = IF t \in tools THEN TTL ELSE ttl[t]
      BY <2>4 DEF PromoteTools
    <3>2. ttl' \in [Hidden -> 0 .. TTL]
      BY <2>1, <2>4 DEF PromoteTools
    <3>3. /\ found' \in [Loops -> SUBSET Hidden] /\ found'[l] = found[l] \cup tools
          /\ \A k \in Loops : k # l => found'[k] = found[k]
      BY <2>1, <2>4
    <3> QED
      BY <2>1, <3>1, <3>2, <3>3
  <2> QED
    BY <2>2, <2>3, <2>4
<1> DEFINE Turn == [at : {"idle", "offer", "model", "calls"}, round : 0 .. MaxRounds,
                    offered : SUBSET Hidden, calls : CallLists, results : ResultLists]
<1>5. /\ loop \in [Loops -> Turn] /\ loop[l] \in Turn /\ loop[l].at = "calls"
      /\ DOMAIN loop[l].results = DOMAIN loop[l].calls
      /\ i \in DOMAIN loop[l].calls
  BY <1>1 DEF DiscoveryTypes, ExecuteCall, Unanswered
<1> DEFINE outcomes == [loop[l].results EXCEPT ![i] = result]
           new == [at |-> "calls", round |-> loop[l].round, offered |-> loop[l].offered,
                   calls |-> loop[l].calls, results |-> outcomes]
<1>6. outcomes \in ResultLists /\ DOMAIN outcomes = DOMAIN loop[l].results
  <2>1. loop[l].results \in ResultLists
    BY <1>5 DEF Turn
  <2>2. PICK n \in 0 .. MaxWidth : loop[l].results \in [1 .. n -> {"none", "ran", "missing"}]
    BY <2>1 DEF ResultLists
  <2>3. outcomes \in [1 .. n -> {"none", "ran", "missing"}]
    BY <2>2
  <2> QED
    BY <2>2, <2>3 DEF ResultLists
<1>7. \A j \in DOMAIN loop[l].results : outcomes[j] = IF j = i THEN result ELSE loop[l].results[j]
  OBVIOUS
<1>8. loop' = [loop EXCEPT ![l] = new]
  <2>1. loop' = [loop EXCEPT ![l] = [loop[l] EXCEPT !.results = outcomes]]
    BY <1>2
  <2> HIDE DEF outcomes
  <2>2. [loop[l] EXCEPT !.results = outcomes] = new
    BY <1>5 DEF Turn
  <2> QED
    BY <2>1, <2>2
<1> HIDE DEF outcomes
<1>9. /\ new \in Turn /\ new.at = "calls" /\ new.results = outcomes /\ new.calls = loop[l].calls
      /\ new.offered = loop[l].offered
  BY <1>5, <1>6 DEF Turn
<1> HIDE DEF new, Turn
<1>10. /\ loop' \in [Loops -> Turn] /\ loop'[l] = new
       /\ \A k \in Loops : k # l => loop'[k] = loop[k]
  BY <1>5, <1>8, <1>9
<1>11. DiscoveryTypes'
  BY <1>1, <1>2, <1>4, <1>5, <1>6, <1>9, <1>10 DEF DiscoveryTypes, Turn
<1>12. IdleIsNew'
  BY <1>1, <1>4, <1>9, <1>10 DEF IdleIsNew
<1>13. \A k \in Loops \ crossed' : k # l => Undisturbed(k)'
  BY <1>2, <1>4, <1>10, DiscoveryOthersKeep
<1>14. ASSUME l \notin crossed PROVE Undisturbed(l)'
  <2>1. Undisturbed(l)
    BY <1>1, <1>14
  <2>2. loop[l].offered \subseteq Visible /\ ~Refused(l) /\ \A t \in found[l] : ttl[t] = TTL
    BY <1>5, <2>1 DEF Undisturbed
  <2>3. Visible \subseteq Visible'
    <3>1. ttl \in [Hidden -> 0 .. TTL] /\ TTL \in Nat
      BY <1>1, DiscoveryAssumption DEF DiscoveryTypes
    <3> QED
      BY <1>4, <3>1 DEF Visible
  <2>4. ~Refused(l)'
    <3> SUFFICES ASSUME NEW j \in DOMAIN loop[l].calls, loop[l].calls[j] \in loop[l].offered,
                        outcomes[j] = "missing"
                 PROVE  FALSE
      BY <1>9, <1>10 DEF Refused
    <3>1. CASE j = i
      BY <1>2, <1>5, <1>7, <2>2, <3>1
    <3>2. CASE j # i
      BY <1>5, <1>7, <2>2, <3>2 DEF Refused
    <3> QED
      BY <3>1, <3>2
  <2>5. \A t \in found'[l] : ttl'[t] = TTL
    BY <1>4, <2>2
  <2> QED
    BY <1>9, <1>10, <2>2, <2>3, <2>4, <2>5 DEF Undisturbed
<1> QED
  BY <1>2, <1>11, <1>12, <1>13, <1>14 DEF DiscoveryInv

\* The countdown, which crosses every other turn that is not idle.
LEMMA DiscoveryTickKeeps ==
  ASSUME DiscoveryInv, NEW l \in Loops, TickTTL(l)
  PROVE  DiscoveryInv'
<1>1. DiscoveryTypes /\ IdleIsNew /\ \A k \in Loops \ crossed : Undisturbed(k)
  BY DEF DiscoveryInv
<1>2. /\ ttl' \in [Hidden -> 0 .. TTL]
      /\ \A t \in Hidden : ttl[t] = TTL => ttl'[t] >= TTL - 1
  BY <1>1, DiscoveryAssumption DEF DiscoveryTypes, TickTTL
<1>3. \A k \in Loops \ crossed' : k # l => loop[k].at = "idle"
  BY DEF TickTTL
<1> DEFINE Turn == [at : {"idle", "offer", "model", "calls"}, round : 0 .. MaxRounds,
                    offered : SUBSET Hidden, calls : CallLists, results : ResultLists]
<1>4. /\ loop \in [Loops -> Turn] /\ found \in [Loops -> SUBSET Hidden] /\ crossed \in SUBSET Loops
      /\ loop[l].at = "calls" /\ DOMAIN loop[l].results = DOMAIN loop[l].calls
  BY <1>1 DEF DiscoveryTypes, TickTTL
<1>5. NoLoop \in Turn /\ NoLoop.at = "idle" /\ NoLoop.calls = <<>> /\ NoLoop.results = <<>>
  <2>1. <<>> \in CallLists /\ <<>> \in ResultLists
    <3>1. \A S : <<>> \in [1 .. 0 -> S]
      OBVIOUS
    <3>2. 0 \in 0 .. MaxWidth
      BY DiscoveryAssumption
    <3> QED
      BY <3>1, <3>2 DEF CallLists, ResultLists
  <2> QED
    BY <2>1, DiscoveryAssumption DEF NoLoop
<1>6. ASSUME NEW k \in Loops, loop'[k] = NoLoop, found'[k] = {} PROVE Undisturbed(k)'
  <2>1. DOMAIN <<>> = {}
    OBVIOUS
  <2> QED
    BY <1>5, <1>6, <2>1 DEF Undisturbed, Refused
<1>7. CASE loop[l].round < MaxRounds
  <2> DEFINE new == [at |-> "offer", round |-> loop[l].round, offered |-> loop[l].offered,
                     calls |-> loop[l].calls, results |-> loop[l].results]
  <2>1. loop' = [loop EXCEPT ![l] = new] /\ new \in Turn
    BY <1>4, <1>7 DEF TickTTL
  <2>2. /\ new.at = "offer" /\ new.round = loop[l].round /\ new.offered = loop[l].offered
        /\ new.calls = loop[l].calls /\ new.results = loop[l].results
    OBVIOUS
  <2>3. found' = found /\ crossed' \in SUBSET Loops /\ (l \in crossed => l \in crossed')
    BY <1>4, <1>7 DEF TickTTL
  <2> HIDE DEF new, Turn
  <2>4. /\ loop' \in [Loops -> Turn] /\ loop'[l] = new
        /\ \A k \in Loops : k # l => loop'[k] = loop[k]
    BY <1>4, <2>1
  <2>5. DiscoveryTypes'
    BY <1>1, <1>2, <1>4, <1>7, <2>2, <2>3, <2>4 DEF DiscoveryTypes, Turn
  <2>6. IdleIsNew'
    BY <1>1, <2>2, <2>3, <2>4 DEF IdleIsNew
  <2>7. \A k \in Loops \ crossed' : k # l => Undisturbed(k)'
    BY <1>1, <1>3, <1>6, <2>3, <2>4 DEF IdleIsNew
  <2>8. l \notin crossed' => Undisturbed(l)'
    <3> SUFFICES ASSUME l \notin crossed PROVE Undisturbed(l)'
      BY <2>3
    <3>1. /\ \A t \in found[l] : ttl[t] = TTL /\ t \in Hidden
          /\ ~Refused(l)
      BY <1>1, <1>4 DEF Undisturbed
    <3>2. ~Refused(l)'
      BY <2>2, <2>4, <3>1 DEF Refused
    <3> QED
      BY <1>2, <2>2, <2>3, <2>4, <3>1, <3>2 DEF Undisturbed
  <2> QED
    BY <2>5, <2>6, <2>7, <2>8 DEF DiscoveryInv
<1>8. CASE ~(loop[l].round < MaxRounds)
  <2>1. /\ loop' = [loop EXCEPT ![l] = NoLoop] /\ found' = [found EXCEPT ![l] = {}]
        /\ crossed' \in SUBSET Loops
    BY <1>4, <1>8 DEF TickTTL
  <2> HIDE DEF Turn
  <2>2. /\ loop' \in [Loops -> Turn] /\ loop'[l] = NoLoop
        /\ found' \in [Loops -> SUBSET Hidden] /\ found'[l] = {}
        /\ \A k \in Loops : k # l => loop'[k] = loop[k] /\ found'[k] = found[k]
    BY <1>4, <1>5, <2>1
  <2>3. DiscoveryTypes'
    BY <1>1, <1>2, <1>5, <2>1, <2>2 DEF DiscoveryTypes, Turn
  <2>4. IdleIsNew'
    BY <1>1, <2>2 DEF IdleIsNew
  <2>5. \A k \in Loops \ crossed' : Undisturbed(k)'
    BY <1>1, <1>3, <1>6, <2>2 DEF IdleIsNew
  <2> QED
    BY <2>3, <2>4, <2>5 DEF DiscoveryInv
<1> QED
  BY <1>7, <1>8

LEMMA DiscoveryStepPreserves == DiscoveryInv /\ [DiscoveryNext]_discoveryVars => DiscoveryInv'
<1> SUFFICES ASSUME DiscoveryInv, [DiscoveryNext]_discoveryVars PROVE DiscoveryInv'
  OBVIOUS
<1>1. CASE UNCHANGED discoveryVars
  <2>1. UNCHANGED <<ttl, loop, found, crossed>>
    BY <1>1 DEF discoveryVars
  <2>2. Visible' = Visible /\ \A l \in Loops : Undisturbed(l)' = Undisturbed(l)
    BY <2>1 DEF Visible, Undisturbed, Refused
  <2> QED
    BY <2>1, <2>2 DEF DiscoveryInv, DiscoveryTypes, IdleIsNew
<1>2. CASE DiscoveryNext
  BY <1>2, DiscoveryModelKeeps, DiscoveryCallKeeps, DiscoveryTickKeeps DEF DiscoveryNext, LoopStep
<1> QED
  BY <1>1, <1>2

\* What was offered is refused, and what a search unlocked is missing from the
\* next offer, only when another turn counted down in between, for any number
\* of turns that search and call at once.
THEOREM UnlockedStaysUsable == DiscoverySpec => []UnlockedIsUsable
<1>1. DiscoveryInv => UnlockedIsUsable
  <2> SUFFICES ASSUME DiscoveryInv PROVE UnlockedIsUsable
    OBVIOUS
  <2>1. DiscoveryTypeOK
    BY DEF DiscoveryInv, DiscoveryTypes, DiscoveryTypeOK
  <2>2. ASSUME NEW l \in Loops \ crossed, loop[l].at = "offer", TTL > 1
        PROVE  found[l] \subseteq Visible
    <3>1. /\ \A t \in found[l] : ttl[t] >= TTL - 1 /\ t \in Hidden
          /\ ttl \in [Hidden -> 0 .. TTL] /\ TTL \in Nat
      BY <2>2, DiscoveryAssumption DEF DiscoveryInv, DiscoveryTypes, Undisturbed
    <3>2. \A t \in found[l] : ttl[t] > 0
      BY <2>2, <3>1
    <3> QED
      BY <3>1, <3>2 DEF Visible
  <2>3. \A l \in Loops \ crossed : ~Refused(l)
    BY DEF DiscoveryInv, Undisturbed
  <2> QED
    BY <2>1, <2>2, <2>3 DEF UnlockedIsUsable
<1> QED
  BY <1>1, DiscoveryInitEstablishes, DiscoveryStepPreserves, PTL DEF DiscoverySpec

-----------------------------------------------------------------------------
(***************************************************************************)
(* WeComAIBot: the worker that sends and the answers of a question, for    *)
(* any number of questions and replies                                     *)
(***************************************************************************)

WeComTypes ==
  /\ asked \in Nat /\ asked <= MaxQuestions
  /\ chatTasks \in SUBSET Questions /\ streamTasks \in SUBSET Questions
  /\ streamClosed \in SUBSET Questions /\ canceled \in SUBSET Questions
  /\ refresh \in [Questions -> {"none", "select", "waiting", "close", "remove", "finished"}]
  /\ answers \in [Questions -> Nat]
  /\ sender \in [at : {"idle", "push", "post", "remove"}, task : 0 .. MaxQuestions]
  /\ \A q \in chatTasks : q <= asked
  /\ \A q \in Questions : q > asked => refresh[q] = "none" /\ answers[q] = 0

\* What a goroutine that holds a task relies on: it is canceled before it is
\* removed, and a post is for a stream that is closed, which no refresh finds.
WeComHolders ==
  /\ sender.at # "idle" => sender.task \in Questions
  /\ sender.at \in {"post", "remove"} => sender.task \in streamClosed
  /\ sender.at = "remove" => sender.task \in canceled
  /\ \A q \in Questions : refresh[q] = "remove" => q \in canceled
  /\ streamTasks \intersect streamClosed = {}

\* An open stream has no answer until it is read; one that was closed has one
\* only from its post, which takes the task out.
WeComAnswers ==
  \A q \in Questions :
    /\ answers[q] <= 1
    /\ q \in streamClosed => refresh[q] = "finished"
    /\ refresh[q] \in {"none", "select", "waiting", "close"} => answers[q] = 0
    /\ q \in streamClosed /\ answers[q] > 0 =>
         q \notin chatTasks \/ (sender.at = "remove" /\ sender.task = q)
    /\ sender.at = "post" /\ sender.task = q => answers[q] = 0

WeComInv == WeComTypes /\ WeComHolders /\ SendIsWoken /\ WeComAnswers

\* The first of a queue that is not empty is in it.
LEMMA FirstIsIn == ASSUME NEW S, S \subseteq Nat, S # {} PROVE First(S) \in S
<1>1. PICK m \in S : \A q \in S : ~(<<q, m>> \in OpToRel(<, Nat))
  BY NatLessThanWellFounded, WFMin
<1>2. \A q \in S : <<q, m>> \in Nat \X Nat
  OBVIOUS
<1>3. \A q \in S : ~(q < m)
  BY <1>1, <1>2, Zenon DEF OpToRel
<1>4. \A q \in S : m <= q
  BY <1>3
<1> QED
  BY <1>4 DEF First

LEMMA WeComInitEstablishes == WeComInit => WeComInv
BY WeComAssumption
   DEF WeComInit, WeComInv, WeComTypes, WeComHolders, SendIsWoken, WeComAnswers, NotSending, Questions

\* A refresh that answers, waits or closes the stream of its task.
LEMMA WeComStreamKeeps ==
  ASSUME WeComInv, NEW q \in Questions,
         HandleStream(q) \/ TakeReply(q) \/ NoReply(q) \/ DeadlinePassed(q) \/ CloseStream(q)
           \/ StreamRemoves(q)
  PROVE  WeComInv'
<1>1. WeComTypes /\ WeComHolders /\ SendIsWoken /\ WeComAnswers
  BY DEF WeComInv
<1>2. UNCHANGED <<asked, sender>>
  BY DEF HandleStream, TakeReply, NoReply, DeadlinePassed, CloseStream, StreamRemoves, RemoveTask, wecomTasks
<1>3. PICK to \in {"select", "waiting", "close", "remove", "finished"} :
        refresh' = [refresh EXCEPT ![q] = to]
  BY DEF HandleStream, TakeReply, NoReply, DeadlinePassed, CloseStream, StreamRemoves
<1>4. refresh[q] \notin {"none", "finished"} /\ q <= asked
  <2>1. refresh[q] \notin {"none", "finished"}
    BY DEF HandleStream, TakeReply, NoReply, DeadlinePassed, CloseStream, StreamRemoves
  <2> QED
    BY <1>1, <2>1 DEF WeComTypes, Questions
<1>5. q \notin streamClosed
  BY <1>1, <1>4 DEF WeComAnswers
<1>6. /\ refresh'[q] = to /\ \A p \in Questions \ {q} : refresh'[p] = refresh[p]
      /\ refresh' \in [Questions -> {"none", "select", "waiting", "close", "remove", "finished"}]
  BY <1>1, <1>3 DEF WeComTypes
<1>7. CASE (HandleStream(q) \/ NoReply(q) \/ DeadlinePassed(q))
  <2>1. /\ UNCHANGED <<chatTasks, streamTasks, streamClosed, canceled, answers>>
        /\ refresh[q] \in {"waiting", "select"} /\ to # "remove"
    BY <1>1, <1>6, <1>7 DEF HandleStream, NoReply, DeadlinePassed, wecomTasks, WeComTypes
  <2>2. WeComTypes'
    BY <1>1, <1>2, <1>4, <1>6, <2>1 DEF WeComTypes, Questions
  <2>3. WeComHolders' /\ SendIsWoken'
    BY <1>1, <1>2, <1>6, <2>1 DEF WeComHolders, SendIsWoken
  <2>4. WeComAnswers'
    BY <1>1, <1>2, <1>5, <1>6, <2>1 DEF WeComAnswers
  <2> QED
    BY <2>2, <2>3, <2>4 DEF WeComInv
<1>8. CASE TakeReply(q)
  <2>1. /\ UNCHANGED <<chatTasks, streamTasks, streamClosed>>
        /\ canceled' = canceled \union {q} /\ refresh[q] = "select" /\ to = "remove"
        /\ answers' = [answers EXCEPT ![q] = answers[q] + 1]
    BY <1>1, <1>6, <1>8 DEF TakeReply, wecomTasks, WeComTypes
  <2>2. /\ answers'[q] = 1 /\ \A p \in Questions \ {q} : answers'[p] = answers[p]
        /\ answers' \in [Questions -> Nat]
    <3>1. answers[q] = 0
      BY <1>1, <2>1 DEF WeComAnswers
    <3> QED
      BY <1>1, <2>1, <3>1 DEF WeComTypes
  <2>3. WeComTypes'
    BY <1>1, <1>2, <1>4, <1>6, <2>1, <2>2 DEF WeComTypes, Questions
  <2>4. WeComHolders' /\ SendIsWoken'
    BY <1>1, <1>2, <1>6, <2>1 DEF WeComHolders, SendIsWoken
  <2>5. WeComAnswers'
    BY <1>1, <1>2, <1>5, <1>6, <2>1, <2>2 DEF WeComAnswers, WeComHolders
  <2> QED
    BY <2>3, <2>4, <2>5 DEF WeComInv
<1>9. CASE CloseStream(q)
  <2>1. /\ UNCHANGED <<chatTasks, canceled, answers>> /\ streamClosed' = streamClosed \union {q}
        /\ streamTasks' = streamTasks \ {q} /\ refresh[q] = "close" /\ to = "finished"
    BY <1>1, <1>6, <1>9 DEF CloseStream, WeComTypes
  <2>2. answers[q] = 0
    BY <1>1, <2>1 DEF WeComAnswers
  <2>3. WeComTypes'
    BY <1>1, <1>2, <1>4, <1>6, <2>1 DEF WeComTypes, Questions
  <2>4. WeComHolders' /\ SendIsWoken'
    BY <1>1, <1>2, <1>6, <2>1 DEF WeComHolders, SendIsWoken
  <2>5. WeComAnswers'
    BY <1>1, <1>2, <1>6, <2>1, <2>2 DEF WeComAnswers
  <2> QED
    BY <2>3, <2>4, <2>5 DEF WeComInv
<1>10. CASE StreamRemoves(q)
  <2>1. /\ UNCHANGED <<canceled, answers, streamClosed>> /\ chatTasks' = chatTasks \ {q}
        /\ streamTasks' = streamTasks \ {q} /\ refresh[q] = "remove" /\ to = "finished"
    BY <1>1, <1>6, <1>10 DEF StreamRemoves, RemoveTask, WeComTypes
  <2>2. WeComTypes'
    BY <1>1, <1>2, <1>4, <1>6, <2>1 DEF WeComTypes, Questions
  <2>3. WeComHolders' /\ SendIsWoken'
    BY <1>1, <1>2, <1>6, <2>1 DEF WeComHolders, SendIsWoken
  <2>4. WeComAnswers'
    BY <1>1, <1>2, <1>5, <1>6, <2>1 DEF WeComAnswers
  <2> QED
    BY <2>2, <2>3, <2>4 DEF WeComInv
<1> QED
  BY <1>7, <1>8, <1>9, <1>10

\* A new question, the worker that sends, the cleanup.
LEMMA WeComOthersKeep ==
  ASSUME WeComInv,
         \/ HandleText \/ SendLooks \/ SendPushes \/ SendPosts \/ SendRemoves
         \/ \E n \in 0 .. asked, late \in SUBSET (chatTasks \intersect streamClosed) : CleanupOldTasks(n, late)
  PROVE  WeComInv'
<1>1. WeComTypes /\ WeComHolders /\ SendIsWoken /\ WeComAnswers
  BY DEF WeComInv
<1>2. CASE HandleText
  <2>1. PICK q : q = asked + 1
    OBVIOUS
  <2>2. /\ asked' = q /\ chatTasks' = chatTasks \union {q} /\ streamTasks' = streamTasks \union {q}
        /\ refresh' = [refresh EXCEPT ![q] = "select"]
        /\ UNCHANGED <<streamClosed, canceled, sender, answers>>
    BY <1>2, <2>1 DEF HandleText
  <2>3. q \in Questions /\ q > asked /\ asked \in Nat /\ q <= MaxQuestions /\ answers[q] = 0 /\ refresh[q] = "none"
    BY <1>1, <1>2, <2>1, WeComAssumption DEF HandleText, WeComTypes, Questions
  <2>4. q \notin streamClosed
    BY <1>1, <2>3 DEF WeComAnswers
  <2>5. refresh'[q] = "select" /\ \A p \in Questions \ {q} : refresh'[p] = refresh[p]
    BY <1>1, <2>2, <2>3 DEF WeComTypes
  <2>6. WeComTypes'
    BY <1>1, <2>1, <2>2, <2>3, <2>5 DEF WeComTypes, Questions
  <2>7. WeComHolders' /\ SendIsWoken'
    BY <1>1, <2>2, <2>3, <2>4, <2>5 DEF WeComHolders, SendIsWoken
  <2>8. WeComAnswers'
    BY <1>1, <2>2, <2>3, <2>4, <2>5 DEF WeComAnswers
  <2> QED
    BY <2>6, <2>7, <2>8 DEF WeComInv
<1>3. CASE SendLooks
  <2>1. UNCHANGED <<asked, chatTasks, streamTasks, streamClosed, canceled, refresh, answers>> /\ sender.at = "idle"
    BY <1>3 DEF SendLooks, wecomTasks
  <2>2. PICK f : f = First(chatTasks)
    OBVIOUS
  <2>3. chatTasks # {} => f \in chatTasks /\ f \in Questions /\ f \in 0 .. MaxQuestions
    <3>1. chatTasks \subseteq Nat /\ chatTasks \subseteq Questions
      BY <1>1 DEF WeComTypes, Questions
    <3>2. chatTasks # {} => f \in chatTasks
      BY <2>2, <3>1, FirstIsIn
    <3>3. Questions \subseteq 0 .. MaxQuestions
      BY WeComAssumption DEF Questions
    <3> QED
      BY <3>1, <3>2, <3>3
  <2>4. \/ sender' = [at |-> "idle", task |-> 0]
        \/ chatTasks # {} /\ f \in streamClosed /\ sender' = [at |-> "post", task |-> f]
        \/ chatTasks # {} /\ sender' = [at |-> "push", task |-> f]
    BY <1>3, <2>2 DEF SendLooks, NotSending
  <2>5. WeComTypes'
    BY <1>1, <2>1, <2>3, <2>4, WeComAssumption DEF WeComTypes
  <2>6. WeComHolders' /\ SendIsWoken'
    BY <1>1, <2>1, <2>3, <2>4 DEF WeComHolders, SendIsWoken
  <2>7. WeComAnswers'
    BY <1>1, <2>1, <2>3, <2>4 DEF WeComAnswers, WeComTypes
  <2> QED
    BY <2>5, <2>6, <2>7 DEF WeComInv
<1>4. CASE SendPushes
  <2>1. /\ UNCHANGED <<asked, chatTasks, streamTasks, streamClosed, canceled, refresh, answers>>
        /\ sender' = [at |-> "idle", task |-> 0] /\ sender.at = "push"
    BY <1>4 DEF SendPushes, wecomTasks, NotSending
  <2> QED
    BY <1>1, <2>1, WeComAssumption DEF WeComInv, WeComTypes, WeComHolders, SendIsWoken, WeComAnswers
<1>5. CASE SendPosts
  <2>1. PICK q : q = sender.task
    OBVIOUS
  <2>2. /\ UNCHANGED <<asked, chatTasks, streamTasks, streamClosed, refresh>>
        /\ canceled' = canceled \union {q} /\ sender.at = "post" /\ sender' = [sender EXCEPT !.at = "remove"]
        /\ answers' \in {answers, [answers EXCEPT ![q] = answers[q] + 1]}
    BY <1>5, <2>1 DEF SendPosts, wecomTasks
  <2>3. sender' \in [at : {"idle", "push", "post", "remove"}, task : 0 .. MaxQuestions]
        /\ sender'.at = "remove" /\ sender'.task = q
    BY <1>1, <2>1, <2>2 DEF WeComTypes
  <2>4. q \in Questions /\ q \in streamClosed /\ refresh[q] = "finished" /\ answers[q] = 0
    BY <1>1, <2>1, <2>2 DEF WeComHolders, WeComAnswers
  <2>5. /\ answers' \in [Questions -> Nat] /\ answers'[q] \in {0, 1}
        /\ \A p \in Questions \ {q} : answers'[p] = answers[p]
    BY <1>1, <2>2, <2>4 DEF WeComTypes
  <2>6. WeComTypes'
    <3>1. ~(q > asked)
      BY <1>1, <2>4 DEF WeComTypes
    <3> QED
      BY <1>1, <2>2, <2>3, <2>4, <2>5, <3>1 DEF WeComTypes
  <2>7. WeComHolders' /\ SendIsWoken'
    BY <1>1, <2>2, <2>3, <2>4 DEF WeComHolders, SendIsWoken
  <2>8. WeComAnswers'
    BY <1>1, <2>2, <2>3, <2>4, <2>5 DEF WeComAnswers
  <2> QED
    BY <2>6, <2>7, <2>8 DEF WeComInv
<1>6. CASE SendRemoves
  <2>1. PICK q : q = sender.task
    OBVIOUS
  <2>2. /\ UNCHANGED <<asked, streamClosed, refresh, canceled, answers>>
        /\ sender.at = "remove" /\ sender' = [at |-> "idle", task |-> 0]
        /\ chatTasks' = chatTasks \ {q} /\ streamTasks' = streamTasks \ {q}
    BY <1>6, <2>1 DEF SendRemoves, RemoveTask, NotSending
  <2>3. WeComTypes'
    BY <1>1, <2>2, WeComAssumption DEF WeComTypes
  <2>4. WeComHolders' /\ SendIsWoken'
    BY <1>1, <2>2 DEF WeComHolders, SendIsWoken
  <2>5. WeComAnswers'
    BY <1>1, <2>1, <2>2 DEF WeComAnswers
  <2> QED
    BY <2>3, <2>4, <2>5 DEF WeComInv
<1>7. ASSUME NEW n \in 0 .. asked, NEW late \in SUBSET (chatTasks \intersect streamClosed), CleanupOldTasks(n, late)
      PROVE  WeComInv'
  <2>1. PICK old : old = {q \in chatTasks : q <= n}
    OBVIOUS
  <2>2. /\ UNCHANGED <<asked, streamClosed, refresh, sender, answers>>
        /\ streamTasks' = streamTasks \ old /\ chatTasks' = chatTasks \ (old \union late)
        /\ canceled' = canceled \union old \union late
    BY <1>7, <2>1 DEF CleanupOldTasks
  <2>3. old \subseteq chatTasks /\ late \subseteq chatTasks /\ late \subseteq streamClosed
    BY <2>1
  <2>4. WeComTypes'
    BY <1>1, <2>2, <2>3 DEF WeComTypes
  <2>5. WeComHolders'
    BY <1>1, <2>2 DEF WeComHolders
  <2>6. SendIsWoken'
    <3>1. late \intersect streamTasks = {}
      BY <1>1, <2>3 DEF WeComHolders
    <3> QED
      BY <1>1, <2>2, <2>3, <3>1 DEF SendIsWoken
  <2>7. WeComAnswers'
    BY <1>1, <2>2, <2>3 DEF WeComAnswers
  <2> QED
    BY <2>4, <2>5, <2>6, <2>7 DEF WeComInv
<1> QED
  BY <1>2, <1>3, <1>4, <1>5, <1>6, <1>7

LEMMA WeComStepPreserves == WeComInv /\ [WeComNext]_wecomVars => WeComInv'
<1> SUFFICES ASSUME WeComInv, [WeComNext]_wecomVars PROVE WeComInv'
  OBVIOUS
<1>1. CASE WeComNext
  BY <1>1, WeComStreamKeeps, WeComOthersKeep DEF WeComNext
<1>2. CASE UNCHANGED wecomVars
  BY <1>2 DEF wecomVars, WeComInv, WeComTypes, WeComHolders, SendIsWoken, WeComAnswers
<1> QED
  BY <1>1, <1>2

LEMMA WeComInvHolds == WeComSpec => []WeComInv
BY WeComInitEstablishes, WeComStepPreserves, PTL DEF WeComSpec

\* The worker that serves all chats never waits on a task that nobody will
\* cancel, and what a refresh finds is what Send and the cleanup find.
THEOREM WorkerIsWoken == WeComSpec => []SendIsWoken
<1>1. WeComInv => SendIsWoken
  BY DEF WeComInv
<1> QED
  BY <1>1, WeComInvHolds, PTL

\* The stream of a question and its response_url carry at most one answer
\* together.
THEOREM AnsweredOnce == WeComSpec => []OneAnswerEach
<1>1. WeComInv => OneAnswerEach
  BY DEF WeComInv, WeComAnswers, OneAnswerEach
<1> QED
  BY <1>1, WeComInvHolds, PTL

-----------------------------------------------------------------------------
(***************************************************************************)
(* MediaStore: refs and files, for any files, scopes and number of refs    *)
(***************************************************************************)

Paths == Downloads \union OwnFiles

MediaTypes ==
  /\ made \in Nat
  /\ DOMAIN pathOf = 1 .. made /\ DOMAIN refs = DOMAIN refToScope /\ DOMAIN refs \subseteq 1 .. made
  /\ \A r \in DOMAIN refs : refs[r] = pathOf[r] /\ refToScope[r] \in Scopes
  /\ \A r \in 1 .. made : pathOf[r] \in Paths
  /\ scopeToRefs \in [Scopes -> SUBSET (1 .. made)]
  /\ \A s \in Scopes : scopeToRefs[s] = {r \in DOMAIN refs : refToScope[r] = s}
  /\ files \subseteq Paths /\ forgotten \subseteq 1 .. made
  /\ deleting \in [Deleters -> SUBSET Paths]
  /\ storing # NotStoring =>
       /\ storing \in [path : Paths, scope : Scopes, old : BOOLEAN]

\* A file is deleted only after a ref of it left the maps, and what was never
\* registered is there when its first Store has seen it.
MediaOrder ==
  /\ \A d \in Deleters : \A p \in deleting[d] :
       \E r \in 1 .. made : r \notin DOMAIN refs /\ pathOf[r] = p
  /\ storing # NotStoring /\ Registered(storing.path) = {} => storing.path \in files
  /\ \A r \in DOMAIN refs : Registered(refs[r]) = {r} => refs[r] \in files

\* Who knows of a download that is on disk.
Known(p) ==
  \/ p = storing.path
  \/ \E r \in DOMAIN refs : refs[r] = p
  \/ \E d \in Deleters : p \in deleting[d]
  \/ \E r \in forgotten : pathOf[r] = p
NoLeak == \A p \in Downloads \intersect files : Known(p)

MediaInv == MediaTypes /\ MediaOrder /\ NoLeak

LEMMA MediaInitEstablishes == MediaInit => MediaInv
BY MediaAssumption
   DEF MediaInit, MediaInv, MediaTypes, MediaOrder, NoLeak, Known, NoRefs, Paths, Deleters, Registered

\* What is kept of a path that is not the one in "none".
LEMMA NoPathIsNone == \A p \in Paths : p # "none"
BY MediaAssumption DEF Paths

LEMMA MediaStoreKeeps ==
  ASSUME MediaInv,
         \/ \E s \in Scopes : (\E p \in Downloads : Download(p, s)) \/ (\E p \in OwnFiles : StoreStats(p, s))
         \/ \E r \in 1 .. MaxRefs : MaxAgePasses(r)
  PROVE  MediaInv'
<1>1. MediaTypes /\ MediaOrder /\ NoLeak
  BY DEF MediaInv
<1>2. UNCHANGED <<refs, refToScope, scopeToRefs, made, deleting, forgotten, pathOf>>
  BY DEF Download, StoreStats, MaxAgePasses
<1>3. \A p : Registered(p)' = Registered(p)
  BY <1>2 DEF Registered
<1>4. ASSUME NEW s \in Scopes, NEW p \in Paths, storing = NotStoring, storing' = Storing(p, s),
             files' = files \union {p}
      PROVE  MediaInv'
  <2>1. storing' = [path |-> p, scope |-> s, old |-> FALSE] /\ storing.path = "none"
    BY <1>4 DEF Storing, NotStoring
  <2>2. MediaTypes'
    BY <1>1, <1>2, <1>4, <2>1 DEF MediaTypes
  <2>3. MediaOrder'
    BY <1>1, <1>2, <1>3, <1>4, <2>1 DEF MediaOrder
  <2>4. NoLeak'
    <3> SUFFICES ASSUME NEW d \in Downloads \intersect files' PROVE Known(d)'
      BY DEF NoLeak
    <3>1. CASE d = p
      BY <2>1, <3>1 DEF Known
    <3>2. CASE d # p
      <4>1. d \in Downloads \intersect files /\ d # "none"
        BY <1>4, <3>2, NoPathIsNone DEF Paths
      <4>2. Known(d)
        BY <1>1, <4>1 DEF NoLeak
      <4> QED
        BY <1>2, <2>1, <4>1, <4>2 DEF Known
    <3> QED
      BY <3>1, <3>2
  <2> QED
    BY <2>2, <2>3, <2>4 DEF MediaInv
<1>5. ASSUME NEW s \in Scopes, NEW p \in Downloads, Download(p, s) PROVE MediaInv'
  BY <1>4, <1>5 DEF Download, Paths
<1>6. ASSUME NEW s \in Scopes, NEW p \in OwnFiles, StoreStats(p, s) PROVE MediaInv'
  <2>1. files' = files \union {p}
    BY <1>6 DEF StoreStats
  <2> QED
    BY <1>4, <1>6, <2>1 DEF StoreStats, Paths
<1>7. ASSUME NEW r \in 1 .. MaxRefs, MaxAgePasses(r) PROVE MediaInv'
  <2>1. UNCHANGED <<storing, files>>
    BY <1>7 DEF MaxAgePasses
  <2> QED
    BY <1>1, <1>2, <1>3, <2>1 DEF MediaInv, MediaTypes, MediaOrder, NoLeak, Known
<1> QED
  BY <1>5, <1>6, <1>7

\* The new ref is registered for its path, in this store or in a replaced one.
LEMMA MediaAddKeeps == ASSUME MediaInv, StoreAdds PROVE MediaInv'
<1>1. MediaTypes /\ MediaOrder /\ NoLeak
  BY DEF MediaInv
<1>2. PICK n : n = made + 1
  OBVIOUS
<1>3. PICK p \in Paths, s \in Scopes, old \in BOOLEAN : storing = [path |-> p, scope |-> s, old |-> old]
  BY <1>1 DEF StoreAdds, MediaTypes
<1>4. /\ made' = n /\ storing # NotStoring /\ storing' = NotStoring /\ UNCHANGED <<files, deleting>>
      /\ pathOf' = [r \in DOMAIN pathOf \union {n} |-> IF r = n THEN p ELSE pathOf[r]]
      /\ \/ /\ ~old
            /\ refs' = [r \in DOMAIN refs \union {n} |-> IF r = n THEN p ELSE refs[r]]
            /\ refToScope' = [r \in DOMAIN refToScope \union {n} |-> IF r = n THEN s ELSE refToScope[r]]
            /\ scopeToRefs' = [scopeToRefs EXCEPT ![s] = scopeToRefs[s] \union {n}]
            /\ UNCHANGED forgotten
         \/ /\ old
            /\ forgotten' = forgotten \union {n}
            /\ UNCHANGED <<refs, refToScope, scopeToRefs>>
  BY <1>2, <1>3 DEF StoreAdds
<1>5. /\ made \in Nat /\ n \in Nat /\ n \notin 1 .. made /\ 1 .. n = (1 .. made) \union {n}
      /\ DOMAIN pathOf = 1 .. made /\ n \notin DOMAIN refs /\ DOMAIN refs \subseteq 1 .. made
  BY <1>1, <1>2 DEF MediaTypes
<1>6. /\ DOMAIN pathOf' = 1 .. n /\ pathOf'[n] = p
      /\ \A r \in 1 .. made : pathOf'[r] = pathOf[r]
  BY <1>4, <1>5
<1>7. storing'.path = "none" /\ storing.path = p
  BY <1>3, <1>4 DEF NotStoring, Storing
<1> DEFINE Now(q) == {k \in DOMAIN pathOf' : pathOf'[k] = q}
<1>8. /\ Now(p) = Registered(p) \union {n}
      /\ \A q : q # p => Now(q) = Registered(q)
      /\ \A q : Registered(q) \subseteq 1 .. made
  BY <1>5, <1>6 DEF Registered
<1>9. /\ DOMAIN refs' \in {DOMAIN refs, DOMAIN refs \union {n}} /\ DOMAIN refToScope' = DOMAIN refs'
      /\ \A r \in DOMAIN refs : refs'[r] = refs[r] /\ refToScope'[r] = refToScope[r]
      /\ n \in DOMAIN refs' => refs'[n] = p /\ refToScope'[n] = s
      /\ n \in DOMAIN refs' \/ n \in forgotten'
      /\ forgotten' \in {forgotten, forgotten \union {n}}
  BY <1>1, <1>4, <1>5 DEF MediaTypes
<1>10. /\ scopeToRefs' \in [Scopes -> SUBSET (1 .. n)]
       /\ \A t \in Scopes : scopeToRefs'[t] = {r \in DOMAIN refs' : refToScope'[r] = t}
  <2>1. /\ scopeToRefs \in [Scopes -> SUBSET (1 .. made)]
        /\ \A t \in Scopes : scopeToRefs[t] = {r \in DOMAIN refs : refToScope[r] = t}
    BY <1>1 DEF MediaTypes
  <2>2. CASE old
    <3>1. UNCHANGED <<refs, refToScope, scopeToRefs>>
      BY <1>4, <2>2
    <3> QED
      BY <1>5, <2>1, <3>1
  <2>3. CASE ~old
    <3>1. scopeToRefs' = [scopeToRefs EXCEPT ![s] = scopeToRefs[s] \union {n}]
          /\ DOMAIN refs' = DOMAIN refs \union {n} /\ refToScope'[n] = s
      BY <1>1, <1>4, <2>3 DEF MediaTypes
    <3>2. /\ scopeToRefs' \in [Scopes -> SUBSET (1 .. n)]
          /\ scopeToRefs'[s] = scopeToRefs[s] \union {n}
          /\ \A t \in Scopes \ {s} : scopeToRefs'[t] = scopeToRefs[t]
      BY <1>5, <2>1, <3>1
    <3> QED
      BY <1>5, <1>9, <2>1, <3>1, <3>2
  <2> QED
    BY <2>2, <2>3
<1>11. MediaTypes'
  <2>1. DOMAIN refs' \subseteq 1 .. n /\ forgotten' \subseteq 1 .. n
    BY <1>1, <1>5, <1>9 DEF MediaTypes
  <2>2. \A r \in DOMAIN refs' : refs'[r] = pathOf'[r] /\ refToScope'[r] \in Scopes
    BY <1>1, <1>5, <1>6, <1>9 DEF MediaTypes
  <2>3. \A r \in 1 .. n : pathOf'[r] \in Paths
    BY <1>1, <1>5, <1>6 DEF MediaTypes
  <2> QED
    BY <1>1, <1>4, <1>5, <1>6, <1>9, <1>10, <2>1, <2>2, <2>3 DEF MediaTypes
<1>12. MediaOrder'
  <2>1. \A d \in Deleters : \A q \in deleting'[d] :
          \E r \in 1 .. made' : r \notin DOMAIN refs' /\ pathOf'[r] = q
    BY <1>1, <1>4, <1>5, <1>6, <1>9 DEF MediaOrder
  <2>2. ASSUME NEW r \in DOMAIN refs', Now(refs'[r]) = {r} PROVE refs'[r] \in files'
    <3>1. CASE r = n
      <4>1. refs'[r] = p /\ Now(p) = {n}
        BY <1>9, <2>2, <3>1
      <4>2. Registered(p) = {}
        BY <1>5, <1>8, <4>1
      <4> QED
        BY <1>1, <1>4, <1>7, <4>1, <4>2 DEF MediaOrder
    <3>2. CASE r # n
      <4>1. r \in DOMAIN refs /\ refs'[r] = refs[r]
        BY <1>9, <3>2
      <4>2. refs[r] # p
        BY <1>8, <2>2, <3>2, <4>1
      <4>3. Registered(refs[r]) = {r}
        BY <1>8, <2>2, <4>1, <4>2
      <4> QED
        BY <1>1, <1>4, <4>1, <4>3 DEF MediaOrder
    <3> QED
      BY <3>1, <3>2
  <2> QED
    BY <1>4, <2>1, <2>2 DEF MediaOrder, Registered
<1>13. NoLeak'
  <2> SUFFICES ASSUME NEW q \in Downloads \intersect files PROVE Known(q)'
    BY <1>4 DEF NoLeak
  <2>1. CASE q = p
    BY <1>6, <1>9, <2>1 DEF Known
  <2>2. CASE q # p
    <3>1. \/ \E r \in DOMAIN refs : refs[r] = q
          \/ \E d \in Deleters : q \in deleting[d]
          \/ \E r \in forgotten : pathOf[r] = q
      BY <1>1, <1>7, <2>2 DEF NoLeak, Known
    <3>2. \A r \in forgotten : r \in forgotten' /\ pathOf'[r] = pathOf[r]
      BY <1>1, <1>6, <1>9 DEF MediaTypes
    <3>3. \A r \in DOMAIN refs : r \in DOMAIN refs' /\ refs'[r] = refs[r]
      BY <1>9
    <3> QED
      BY <1>4, <3>1, <3>2, <3>3 DEF Known
  <2> QED
    BY <2>1, <2>2
<1> QED
  BY <1>11, <1>12, <1>13 DEF MediaInv

\* Files that are about to be deleted lost their ref before.
LEMMA MediaTakeKeeps ==
  ASSUME MediaInv, NEW d \in Deleters, NEW gone, gone \subseteq DOMAIN refs, TakeOut(d, gone)
  PROVE  MediaInv'
<1>1. MediaTypes /\ MediaOrder /\ NoLeak
  BY DEF MediaInv
<1>2. PICK taken : taken = {refs[r] : r \in gone}
  OBVIOUS
<1>3. /\ deleting[d] = {} /\ deleting' = [deleting EXCEPT ![d] = taken]
      /\ DOMAIN refs' = DOMAIN refs \ gone /\ DOMAIN refToScope' = DOMAIN refToScope \ gone
      /\ \A r \in DOMAIN refs \ gone : refs'[r] = refs[r]
      /\ \A r \in DOMAIN refToScope \ gone : refToScope'[r] = refToScope[r]
      /\ scopeToRefs' = [s \in Scopes |-> scopeToRefs[s] \ gone]
      /\ UNCHANGED <<made, files, storing, forgotten, pathOf>>
  BY <1>2 DEF TakeOut, Restrict
<1>4. /\ DOMAIN refs = DOMAIN refToScope /\ DOMAIN refs \subseteq 1 .. made
      /\ \A r \in DOMAIN refs : refs[r] = pathOf[r]
      /\ \A r \in 1 .. made : pathOf[r] \in Paths
  BY <1>1 DEF MediaTypes
<1>5. taken \subseteq Paths /\ \A p \in taken : \E r \in gone : pathOf[r] = p
  BY <1>2, <1>4
<1>6. /\ deleting' \in [Deleters -> SUBSET Paths] /\ deleting'[d] = taken
      /\ \A e \in Deleters \ {d} : deleting'[e] = deleting[e]
  BY <1>1, <1>3, <1>5 DEF MediaTypes
<1>7. \A p : Registered(p)' = Registered(p)
  BY <1>3 DEF Registered
<1>8. MediaTypes'
  <2>1. /\ scopeToRefs' \in [Scopes -> SUBSET (1 .. made)]
        /\ \A s \in Scopes : scopeToRefs'[s] = {r \in DOMAIN refs' : refToScope'[r] = s}
    <3>1. ASSUME NEW s \in Scopes
          PROVE  /\ scopeToRefs[s] \ gone \subseteq 1 .. made
                 /\ scopeToRefs'[s] = {r \in DOMAIN refs' : refToScope'[r] = s}
      <4>1. scopeToRefs[s] = {r \in DOMAIN refs : refToScope[r] = s} /\ scopeToRefs'[s] = scopeToRefs[s] \ gone
        BY <1>1, <1>3 DEF MediaTypes
      <4> QED
        BY <1>3, <1>4, <4>1
    <3> QED
      BY <1>3, <3>1
  <2>2. \A r \in DOMAIN refs' : refs'[r] = pathOf'[r] /\ refToScope'[r] \in Scopes
    BY <1>1, <1>3, <1>4 DEF MediaTypes
  <2> QED
    BY <1>1, <1>3, <1>4, <1>6, <2>1, <2>2 DEF MediaTypes
<1>9. MediaOrder'
  <2>1. ASSUME NEW e \in Deleters, NEW p \in deleting'[e]
        PROVE  \E r \in 1 .. made : r \notin DOMAIN refs' /\ pathOf[r] = p
    <3>1. CASE e = d
      BY <1>3, <1>4, <1>5, <1>6, <3>1
    <3>2. CASE e # d
      BY <1>1, <1>3, <1>6, <3>2 DEF MediaOrder
    <3> QED
      BY <3>1, <3>2
  <2>2. \A r \in DOMAIN refs' : Registered(refs'[r]) = {r} => refs'[r] \in files
    BY <1>1, <1>3 DEF MediaOrder
  <2> QED
    BY <1>1, <1>3, <1>7, <2>1, <2>2 DEF MediaOrder
<1>10. NoLeak'
  <2> SUFFICES ASSUME NEW q \in Downloads \intersect files PROVE Known(q)'
    BY <1>3 DEF NoLeak
  <2>1. CASE \E r \in gone : refs[r] = q
    BY <1>2, <1>6, <2>1 DEF Known
  <2>2. CASE ~\E r \in gone : refs[r] = q
    <3>1. Known(q)
      BY <1>1 DEF NoLeak
    <3>2. CASE \E e \in Deleters : q \in deleting[e]
      BY <1>3, <1>6, <3>2 DEF Known
    <3>3. CASE \E r \in DOMAIN refs : refs[r] = q
      BY <1>3, <2>2, <3>3 DEF Known
    <3> QED
      BY <1>3, <3>1, <3>2, <3>3 DEF Known
  <2> QED
    BY <2>1, <2>2
<1> QED
  BY <1>8, <1>9, <1>10 DEF MediaInv

\* A file that goes had a ref that left: no ref is the only one of its path.
LEMMA MediaDeleteKeeps ==
  ASSUME MediaInv, NEW d \in Deleters, NEW p \in Paths, DeleteFile(d, p)
  PROVE  MediaInv'
<1>1. MediaTypes /\ MediaOrder /\ NoLeak
  BY DEF MediaInv
<1>2. /\ p \in deleting[d] /\ deleting' = [deleting EXCEPT ![d] = deleting[d] \ {p}]
      /\ files' = files \ {p}
      /\ UNCHANGED <<refs, refToScope, scopeToRefs, made, storing, forgotten, pathOf>>
  BY DEF DeleteFile
<1>3. /\ deleting' \in [Deleters -> SUBSET Paths]
      /\ \A e \in Deleters : deleting'[e] \subseteq deleting[e] /\ deleting[e] \ {p} \subseteq deleting'[e]
  BY <1>1, <1>2 DEF MediaTypes
<1>4. PICK r \in 1 .. made : r \notin DOMAIN refs /\ pathOf[r] = p
  BY <1>1, <1>2 DEF MediaOrder
<1>5. r \in Registered(p) /\ \A q : Registered(q)' = Registered(q)
  BY <1>1, <1>2, <1>4 DEF Registered, MediaTypes
<1>6. MediaTypes'
  BY <1>1, <1>2, <1>3 DEF MediaTypes
<1>7. MediaOrder'
  <2>1. \A e \in Deleters : \A q \in deleting'[e] :
          \E k \in 1 .. made : k \notin DOMAIN refs /\ pathOf[k] = q
    BY <1>1, <1>3 DEF MediaOrder
  <2>2. storing # NotStoring /\ Registered(storing.path) = {} => storing.path \in files'
    BY <1>1, <1>2, <1>5 DEF MediaOrder
  <2>3. \A k \in DOMAIN refs : Registered(refs[k]) = {k} => refs[k] \in files'
    BY <1>1, <1>2, <1>4, <1>5 DEF MediaOrder
  <2> QED
    BY <1>2, <1>5, <2>1, <2>2, <2>3 DEF MediaOrder
<1>8. NoLeak'
  <2> SUFFICES ASSUME NEW q \in Downloads \intersect files, q # p PROVE Known(q)'
    BY <1>2 DEF NoLeak
  <2>1. Known(q)
    BY <1>1 DEF NoLeak
  <2> QED
    BY <1>2, <1>3, <2>1 DEF Known
<1> QED
  BY <1>6, <1>7, <1>8 DEF MediaInv

LEMMA MediaReplaceKeeps == ASSUME MediaInv, ReplaceStore PROVE MediaInv'
<1>1. MediaTypes /\ MediaOrder /\ NoLeak
  BY DEF MediaInv
<1>2. /\ forgotten' = forgotten \union DOMAIN refs /\ DOMAIN refs' = {} /\ DOMAIN refToScope' = {}
      /\ scopeToRefs' = [s \in Scopes |-> {}]
      /\ UNCHANGED <<made, files, deleting, pathOf>>
      /\ storing' = IF storing = NotStoring THEN storing ELSE [storing EXCEPT !.old = TRUE]
  BY DEF ReplaceStore, NoRefs
<1>3. /\ storing'.path = storing.path /\ (storing' # NotStoring => storing # NotStoring)
      /\ storing' # NotStoring => storing' \in [path : Paths, scope : Scopes, old : BOOLEAN]
  <2>1. CASE storing = NotStoring
    BY <1>2, <2>1
  <2>2. CASE storing # NotStoring
    BY <1>1, <1>2, <2>2 DEF MediaTypes
  <2> QED
    BY <2>1, <2>2
<1>4. MediaTypes'
  BY <1>1, <1>2, <1>3 DEF MediaTypes
<1>5. \A q : Registered(q)' = Registered(q)
  BY <1>2 DEF Registered
<1>6. MediaOrder'
  BY <1>1, <1>2, <1>3, <1>5 DEF MediaOrder
<1>7. NoLeak'
  <2> SUFFICES ASSUME NEW q \in Downloads \intersect files PROVE Known(q)'
    BY <1>2 DEF NoLeak
  <2>1. Known(q) /\ \A r \in DOMAIN refs : refs[r] = pathOf[r]
    BY <1>1 DEF NoLeak, MediaTypes
  <2> QED
    BY <1>2, <1>3, <2>1 DEF Known
<1> QED
  BY <1>4, <1>6, <1>7 DEF MediaInv

LEMMA MediaStepPreserves == MediaInv /\ [MediaNext]_mediaVars => MediaInv'
<1> SUFFICES ASSUME MediaInv, [MediaNext]_mediaVars PROVE MediaInv'
  OBVIOUS
<1>1. \A s \in Scopes : scopeToRefs[s] \subseteq DOMAIN refs
  BY DEF MediaInv, MediaTypes
<1>2. ASSUME NEW s \in Scopes, ReleaseAll(s) PROVE MediaInv'
  BY <1>1, <1>2, MediaTakeKeeps DEF ReleaseAll, Deleters
<1>3. CASE CleanExpired
  <2>1. expired \intersect DOMAIN refs \subseteq DOMAIN refs
    OBVIOUS
  <2> QED
    BY <1>3, <2>1, MediaTakeKeeps DEF CleanExpired, Deleters
<1>4. CASE UNCHANGED mediaVars
  BY <1>4
     DEF mediaVars, MediaInv, MediaTypes, MediaOrder, NoLeak, Known, Registered
<1>5. CASE MediaNext
  BY <1>2, <1>3, <1>5, MediaStoreKeeps, MediaAddKeeps, MediaDeleteKeeps, MediaReplaceKeeps DEF MediaNext, Paths
<1> QED
  BY <1>4, <1>5

\* Refs resolve to files that exist, the maps agree, and no download is left
\* on disk that nobody knows of, for any number of refs and any interleaving of
\* Store, the cleaner, a release and the replacement of the store.
THEOREM FilesKeepToRefs == MediaSpec => []FilesFollowRefs
<1>1. MediaInv => FilesFollowRefs
  BY DEF MediaInv, MediaTypes, MediaOrder, NoLeak, Known, FilesFollowRefs
<1> QED
  BY <1>1, MediaInitEstablishes, MediaStepPreserves, PTL DEF MediaSpec

-----------------------------------------------------------------------------
(***************************************************************************)
(* ChannelFeedback: the marks of a chat, for any messages and senders      *)
(***************************************************************************)

FeedbackTypes ==
  /\ mark \in [Kinds \X Messages -> {"none", "shown", "ended", "edited"}]
  /\ recorded \in [Kinds -> Messages \union {Nobody}]
  /\ handling \in [Messages -> {"show", "record"} \X (Kinds \union {"new", "done"})]
  /\ janitor \in [kind : Kinds, message : Messages \union {Nobody}]

\* The placeholder of a message is recorded once, at the end of its handling,
\* and its entry is gone before it is edited.
PlaceholderOnce ==
  \A m \in Messages :
    /\ recorded["placeholder"] = m => handling[m] = <<"show", "done">>
    /\ mark[<<"placeholder", m>>] = "edited" =>
         recorded["placeholder"] # m /\ handling[m] = <<"show", "done">>

TypingHasOwner ==
  \A m \in Messages : mark[<<"typing", m>>] = "shown" =>
    \/ recorded["typing"] = m
    \/ handling[m] = <<"record", "typing">>
    \/ <<"typing", m>> \in raced

FeedbackInv == FeedbackTypes /\ PlaceholderOnce /\ TypingHasOwner

LEMMA NobodyIsNoMessage == \A m \in Messages : m # Nobody
BY FeedbackAssumption DEF Nobody

LEMMA FeedbackInitEstablishes == FeedbackInit => FeedbackInv
<1> SUFFICES ASSUME FeedbackInit PROVE FeedbackInv
  OBVIOUS
<1>1. /\ mark \in [Kinds \X Messages -> {"none"}] /\ recorded = [k \in Kinds |-> Nobody]
      /\ handling = [m \in Messages |-> <<"show", "new">>]
      /\ janitor = [kind |-> "typing", message |-> Nobody]
  BY DEF FeedbackInit
<1>2. "typing" \in Kinds /\ "placeholder" \in Kinds
  BY DEF Kinds
<1>3. \A k \in Kinds, m \in Messages : mark[<<k, m>>] = "none"
  BY <1>1
<1>4. FeedbackTypes
  BY <1>1, <1>2 DEF FeedbackTypes
<1>5. PlaceholderOnce /\ TypingHasOwner
  BY <1>1, <1>2, <1>3, NobodyIsNoMessage DEF PlaceholderOnce, TypingHasOwner
<1> QED
  BY <1>4, <1>5 DEF FeedbackInv

\* The stages of a message's handling.
LEMMA FeedbackHandlingKeeps ==
  ASSUME FeedbackInv, NEW m \in Messages,
         \/ HandleMessage(m) \/ \E k \in Kinds : Show(m, k) \/ ShowsNothing(m, k)
         \/ RecordTypingStop(m) \/ RecordReactionUndo(m) \/ RecordPlaceholder(m)
  PROVE  FeedbackInv'
<1>1. FeedbackTypes /\ PlaceholderOnce /\ TypingHasOwner
  BY DEF FeedbackInv
<1>2. PICK to \in {"show", "record"} \X (Kinds \union {"new", "done"}) : handling' = [handling EXCEPT ![m] = to]
  <2>1. CASE HandleMessage(m)
    BY <2>1 DEF HandleMessage, Kinds
  <2>2. ASSUME NEW k \in Kinds, Show(m, k) \/ ShowsNothing(m, k) \/ Recorded(m, k)
        PROVE  \E to \in {"show", "record"} \X (Kinds \union {"new", "done"}) :
                 handling' = [handling EXCEPT ![m] = to]
    <3>1. NextKind(k) \in Kinds \union {"new", "done"}
      BY DEF NextKind, Kinds
    <3> QED
      BY <2>2, <3>1 DEF Show, ShowsNothing, Recorded
  <2> QED
    BY <2>1, <2>2 DEF RecordTypingStop, RecordReactionUndo, RecordPlaceholder, Kinds
<1>3. /\ handling'[m] = to /\ \A x \in Messages \ {m} : handling'[x] = handling[x]
      /\ handling' \in [Messages -> {"show", "record"} \X (Kinds \union {"new", "done"})]
  BY <1>1, <1>2 DEF FeedbackTypes
<1>4. CASE HandleMessage(m) \/ \E k \in Kinds : ShowsNothing(m, k)
  <2>1. UNCHANGED <<mark, recorded, janitor, raced>>
    BY <1>4 DEF HandleMessage, ShowsNothing
  <2>2. handling[m] # <<"show", "done">> /\ handling[m] # <<"record", "typing">>
    BY <1>4 DEF HandleMessage, ShowsNothing, Kinds
  <2> QED
    BY <1>1, <1>3, <2>1, <2>2 DEF FeedbackInv, FeedbackTypes, PlaceholderOnce, TypingHasOwner
<1>5. ASSUME NEW k \in Kinds, Show(m, k) PROVE FeedbackInv'
  <2>1. /\ UNCHANGED <<recorded, janitor, raced>> /\ mark' = [mark EXCEPT ![<<k, m>>] = "shown"]
        /\ handling[m] = <<"show", k>> /\ to = <<"record", k>>
    BY <1>1, <1>3, <1>5 DEF Show, FeedbackTypes
  <2>2. handling[m] # <<"show", "done">> /\ handling[m] # <<"record", "typing">>
    BY <2>1 DEF Kinds
  <2>3. /\ mark' \in [Kinds \X Messages -> {"none", "shown", "ended", "edited"}]
        /\ \A l \in Kinds, x \in Messages : (l # k \/ x # m) => mark'[<<l, x>>] = mark[<<l, x>>]
        /\ mark'[<<k, m>>] = "shown"
    BY <1>1, <2>1 DEF FeedbackTypes
  <2>4. "typing" \in Kinds /\ "placeholder" \in Kinds
    BY DEF Kinds
  <2>5. FeedbackTypes'
    BY <1>1, <1>3, <2>1, <2>3 DEF FeedbackTypes
  <2>6. PlaceholderOnce'
    <3> SUFFICES ASSUME NEW x \in Messages
                 PROVE  /\ recorded["placeholder"] = x => handling'[x] = <<"show", "done">>
                        /\ mark'[<<"placeholder", x>>] = "edited" =>
                             recorded["placeholder"] # x /\ handling'[x] = <<"show", "done">>
      BY <2>1 DEF PlaceholderOnce
    <3>1. mark'[<<"placeholder", x>>] = "edited" => mark[<<"placeholder", x>>] = "edited"
      BY <2>3, <2>4
    <3> QED
      BY <1>1, <1>3, <2>2, <3>1 DEF PlaceholderOnce
  <2>7. TypingHasOwner'
    BY <1>1, <1>3, <2>1, <2>2, <2>3, <2>4 DEF TypingHasOwner
  <2> QED
    BY <2>5, <2>6, <2>7 DEF FeedbackInv
<1>6. CASE RecordTypingStop(m)
  <2>1. PICK o : o = recorded["typing"]
    OBVIOUS
  <2>2. /\ recorded' = [recorded EXCEPT !["typing"] = m] /\ UNCHANGED <<janitor, raced>>
        /\ handling[m] = <<"record", "typing">>
        /\ mark' = IF o = Nobody THEN mark ELSE [mark EXCEPT ![<<"typing", o>>] = "ended"]
    BY <1>6, <2>1 DEF RecordTypingStop, Recorded
  <2>3. "typing" \in Kinds /\ "placeholder" \in Kinds
    BY DEF Kinds
  <2>4. o \in Messages \union {Nobody}
    BY <1>1, <2>1, <2>3 DEF FeedbackTypes
  <2>5. /\ mark' \in [Kinds \X Messages -> {"none", "shown", "ended", "edited"}]
        /\ \A l \in Kinds, x \in Messages : (l # "typing" \/ x # o) => mark'[<<l, x>>] = mark[<<l, x>>]
        /\ o \in Messages => mark'[<<"typing", o>>] = "ended"
    BY <1>1, <2>2, <2>3, <2>4, NobodyIsNoMessage DEF FeedbackTypes
  <2>6. /\ recorded' \in [Kinds -> Messages \union {Nobody}] /\ recorded'["typing"] = m
        /\ recorded'["placeholder"] = recorded["placeholder"]
    BY <1>1, <2>2, <2>3 DEF FeedbackTypes
  <2>7. FeedbackTypes'
    BY <1>1, <1>3, <2>2, <2>5, <2>6 DEF FeedbackTypes
  <2>8. PlaceholderOnce'
    <3> SUFFICES ASSUME NEW x \in Messages
                 PROVE  /\ recorded'["placeholder"] = x => handling'[x] = <<"show", "done">>
                        /\ mark'[<<"placeholder", x>>] = "edited" =>
                             recorded'["placeholder"] # x /\ handling'[x] = <<"show", "done">>
      BY DEF PlaceholderOnce
    <3>1. mark'[<<"placeholder", x>>] = mark[<<"placeholder", x>>]
      BY <2>3, <2>5
    <3>2. /\ recorded["placeholder"] = x => handling[x] = <<"show", "done">>
          /\ mark[<<"placeholder", x>>] = "edited" =>
               recorded["placeholder"] # x /\ handling[x] = <<"show", "done">>
      BY <1>1 DEF PlaceholderOnce
    <3>3. handling[x] = <<"show", "done">> => x # m
      BY <2>2
    <3>4. x # m => handling'[x] = handling[x]
      BY <1>3
    <3> QED
      BY <2>6, <3>1, <3>2, <3>3, <3>4
  <2>9. TypingHasOwner'
    BY <1>1, <1>3, <2>1, <2>2, <2>3, <2>5, <2>6 DEF TypingHasOwner
  <2> QED
    BY <2>7, <2>8, <2>9 DEF FeedbackInv
<1>7. ASSUME NEW k \in {"reaction", "placeholder"}, Recorded(m, k), UNCHANGED mark PROVE FeedbackInv'
  <2>1. /\ recorded' = [recorded EXCEPT ![k] = m] /\ UNCHANGED <<janitor, raced, mark>>
        /\ handling[m] = <<"record", k>> /\ handling' = [handling EXCEPT ![m] = <<"show", NextKind(k)>>]
    BY <1>7 DEF Recorded
  <2>2. k = "placeholder" => to = <<"show", "done">>
    BY <1>1, <1>3, <2>1 DEF NextKind, FeedbackTypes
  <2>3. /\ recorded' \in [Kinds -> Messages \union {Nobody}] /\ recorded'[k] = m
        /\ \A l \in Kinds \ {k} : recorded'[l] = recorded[l]
    BY <1>1, <2>1 DEF FeedbackTypes, Kinds
  <2>4. "typing" \in Kinds \ {k} /\ "placeholder" \in Kinds /\ k \in Kinds
    BY DEF Kinds
  <2>5. handling[m] # <<"show", "done">> /\ handling[m] # <<"record", "typing">>
    BY <2>1
  <2>6. FeedbackTypes'
    BY <1>1, <1>3, <2>1, <2>3 DEF FeedbackTypes
  <2>7. PlaceholderOnce'
    <3> SUFFICES ASSUME NEW x \in Messages
                 PROVE  /\ recorded'["placeholder"] = x => handling'[x] = <<"show", "done">>
                        /\ mark[<<"placeholder", x>>] = "edited" =>
                             recorded'["placeholder"] # x /\ handling'[x] = <<"show", "done">>
      BY <2>1 DEF PlaceholderOnce
    <3>1. /\ recorded["placeholder"] = x => handling[x] = <<"show", "done">>
          /\ mark[<<"placeholder", x>>] = "edited" =>
               recorded["placeholder"] # x /\ handling[x] = <<"show", "done">>
      BY <1>1 DEF PlaceholderOnce
    <3>2. handling[x] = <<"show", "done">> => x # m
      BY <2>5
    <3>3. /\ x # m => handling'[x] = handling[x]
          /\ handling'[m] = to
      BY <1>1, <1>3
    <3>4. CASE k = "placeholder"
      BY <2>2, <2>3, <3>1, <3>2, <3>3, <3>4
    <3>5. CASE k # "placeholder"
      <4>1. recorded'["placeholder"] = recorded["placeholder"]
        BY <2>3, <2>4, <3>5
      <4> QED
        BY <3>1, <3>2, <3>3, <4>1
    <3> QED
      BY <3>4, <3>5
  <2>8. TypingHasOwner'
    BY <1>1, <1>3, <2>1, <2>3, <2>4, <2>5 DEF TypingHasOwner
  <2> QED
    BY <2>6, <2>7, <2>8 DEF FeedbackInv
<1> QED
  BY <1>4, <1>5, <1>6, <1>7 DEF RecordReactionUndo, RecordPlaceholder

\* Who sends a reply takes the marks out, and so does the janitor.
LEMMA FeedbackTakingKeeps ==
  ASSUME FeedbackInv,
         \/ \E s \in Senders : PreSend(s) \/ EditPlaceholder(s) \/ \E k \in Kinds : EndMark(s, k)
         \/ JanitorTakes \/ \E k \in Kinds : JanitorFinds(k)
  PROVE  FeedbackInv'
<1>1. FeedbackTypes /\ PlaceholderOnce /\ TypingHasOwner
  BY DEF FeedbackInv
<1>2. UNCHANGED handling /\ "typing" \in Kinds /\ "placeholder" \in Kinds
  BY DEF PreSend, EditPlaceholder, EndMark, JanitorTakes, JanitorFinds, Kinds
<1>3. CASE (\E s \in Senders : PreSend(s)) \/ \E k \in Kinds : JanitorFinds(k)
  <2>1. UNCHANGED <<mark, recorded, raced>>
    BY <1>3 DEF PreSend, JanitorFinds
  <2>2. janitor' \in [kind : Kinds, message : Messages \union {Nobody}]
    <3>1. ASSUME NEW k \in Kinds, JanitorFinds(k)
          PROVE  janitor' \in [kind : Kinds, message : Messages \union {Nobody}]
      BY <1>1, <3>1 DEF JanitorFinds, FeedbackTypes
    <3> QED
      BY <1>1, <1>3, <3>1 DEF PreSend, FeedbackTypes
  <2> QED
    BY <1>1, <1>2, <2>1, <2>2 DEF FeedbackInv, FeedbackTypes, PlaceholderOnce, TypingHasOwner
<1>4. ASSUME NEW k \in Kinds, recorded' = [recorded EXCEPT ![k] = Nobody]
      PROVE  /\ recorded' \in [Kinds -> Messages \union {Nobody}] /\ recorded'[k] = Nobody
             /\ \A l \in Kinds \ {k} : recorded'[l] = recorded[l]
  BY <1>1, <1>4 DEF FeedbackTypes
<1>5. ASSUME NEW s \in Senders, NEW k \in Kinds, EndMark(s, k) PROVE FeedbackInv'
  <2>1. PICK o : o = recorded[k]
    OBVIOUS
  <2>2. /\ UNCHANGED <<janitor, raced>> /\ k # "placeholder"
        /\ recorded' = [recorded EXCEPT ![k] = Nobody]
        /\ mark' = IF o = Nobody THEN mark ELSE [mark EXCEPT ![<<k, o>>] = "ended"]
    BY <1>5, <2>1 DEF EndMark
  <2>3. o \in Messages \union {Nobody}
    BY <1>1, <2>1 DEF FeedbackTypes
  <2>4. /\ mark' \in [Kinds \X Messages -> {"none", "shown", "ended", "edited"}]
        /\ \A l \in Kinds, x \in Messages : (l # k \/ x # o) => mark'[<<l, x>>] = mark[<<l, x>>]
        /\ o \in Messages => mark'[<<k, o>>] = "ended"
    BY <1>1, <2>2, <2>3, NobodyIsNoMessage DEF FeedbackTypes
  <2>5. FeedbackTypes'
    BY <1>1, <1>2, <1>4, <2>2, <2>4 DEF FeedbackTypes
  <2>6. PlaceholderOnce'
    BY <1>1, <1>2, <1>4, <2>2, <2>4 DEF PlaceholderOnce
  <2>7. TypingHasOwner'
    BY <1>1, <1>2, <1>4, <2>1, <2>2, <2>4 DEF TypingHasOwner
  <2> QED
    BY <2>5, <2>6, <2>7 DEF FeedbackInv
<1>6. ASSUME NEW s \in Senders, EditPlaceholder(s) PROVE FeedbackInv'
  <2>1. PICK m : m = recorded["placeholder"]
    OBVIOUS
  <2>2. m \in Messages \union {Nobody}
    BY <1>1, <1>2, <2>1 DEF FeedbackTypes
  <2>3. m \in Messages => handling[m] = <<"show", "done">> /\ mark[<<"placeholder", m>>] # "edited"
    BY <1>1, <2>1 DEF PlaceholderOnce
  <2>4. /\ UNCHANGED <<janitor, raced>> /\ recorded' = [recorded EXCEPT !["placeholder"] = Nobody]
        /\ \/ mark' = mark
           \/ m # Nobody /\ mark' = [mark EXCEPT ![<<"placeholder", m>>] =
                                       IF mark[<<"placeholder", m>>] = "edited" THEN "overwritten" ELSE "edited"]
    BY <1>6, <2>1 DEF EditPlaceholder
  <2>5. mark' = mark \/ (m \in Messages /\ mark' = [mark EXCEPT ![<<"placeholder", m>>] = "edited"])
    BY <2>2, <2>3, <2>4
  <2>6. /\ mark' \in [Kinds \X Messages -> {"none", "shown", "ended", "edited"}]
        /\ \A l \in Kinds, x \in Messages :
             (l # "placeholder" \/ x # m) => mark'[<<l, x>>] = mark[<<l, x>>]
    BY <1>1, <1>2, <2>5 DEF FeedbackTypes
  <2>7. FeedbackTypes'
    BY <1>1, <1>2, <1>4, <2>4, <2>6 DEF FeedbackTypes
  <2>8. PlaceholderOnce'
    <3>1. recorded'["placeholder"] = Nobody
      BY <1>2, <1>4, <2>4
    <3> SUFFICES ASSUME NEW x \in Messages, mark'[<<"placeholder", x>>] = "edited"
                 PROVE  handling'[x] = <<"show", "done">>
      BY <3>1, NobodyIsNoMessage DEF PlaceholderOnce
    <3>2. handling'[x] = handling[x]
      BY <1>6 DEF EditPlaceholder
    <3>3. CASE x = m
      BY <2>3, <3>2, <3>3
    <3>4. CASE x # m
      <4>1. mark[<<"placeholder", x>>] = "edited"
        BY <1>2, <2>6, <3>4
      <4> QED
        BY <1>1, <3>2, <4>1 DEF PlaceholderOnce
    <3> QED
      BY <3>3, <3>4
  <2>9. TypingHasOwner'
    BY <1>1, <1>2, <1>4, <2>4, <2>6 DEF TypingHasOwner
  <2> QED
    BY <2>7, <2>8, <2>9 DEF FeedbackInv
<1>7. CASE JanitorTakes
  <2>1. PICK k \in Kinds, m \in Messages : k = janitor.kind /\ m = janitor.message
    BY <1>1, <1>7 DEF JanitorTakes, FeedbackTypes
  <2>2. PICK o : o = recorded[k]
    OBVIOUS
  <2>3. /\ recorded' = [recorded EXCEPT ![k] = Nobody]
        /\ mark' = IF o = Nobody \/ k = "placeholder" THEN mark ELSE [mark EXCEPT ![<<k, m>>] = "ended"]
        /\ raced' = IF o \in {Nobody, m} THEN raced ELSE raced \union {<<k, o>>}
        /\ janitor' = [janitor EXCEPT !.message = Nobody]
    BY <1>7, <2>1, <2>2 DEF JanitorTakes
  <2>4. janitor' \in [kind : Kinds, message : Messages \union {Nobody}]
    BY <1>1, <2>3 DEF FeedbackTypes
  <2>5. /\ mark' \in [Kinds \X Messages -> {"none", "shown", "ended", "edited"}]
        /\ \A l \in Kinds, x \in Messages : (l # k \/ x # m) => mark'[<<l, x>>] = mark[<<l, x>>]
        /\ \A x \in Messages : k = "placeholder" => mark'[<<k, x>>] = mark[<<k, x>>]
        /\ k # "placeholder" /\ o # Nobody => mark'[<<k, m>>] = "ended"
        /\ mark'[<<k, m>>] \in {mark[<<k, m>>], "ended"}
    BY <1>1, <2>1, <2>3 DEF FeedbackTypes
  <2>6. FeedbackTypes'
    BY <1>1, <1>2, <1>4, <2>3, <2>4, <2>5 DEF FeedbackTypes
  <2>7. PlaceholderOnce'
    <3> SUFFICES ASSUME NEW x \in Messages
                 PROVE  /\ recorded'["placeholder"] = x => handling[x] = <<"show", "done">>
                        /\ mark'[<<"placeholder", x>>] = "edited" =>
                             recorded'["placeholder"] # x /\ handling[x] = <<"show", "done">>
      BY <1>2 DEF PlaceholderOnce
    <3>1. mark'[<<"placeholder", x>>] = mark[<<"placeholder", x>>]
      BY <1>2, <2>5
    <3>2. recorded'["placeholder"] \in {recorded["placeholder"], Nobody}
      BY <1>2, <1>4, <2>3
    <3> QED
      BY <1>1, <3>1, <3>2, NobodyIsNoMessage DEF PlaceholderOnce
  <2>8. TypingHasOwner'
    <3> SUFFICES ASSUME NEW x \in Messages, mark'[<<"typing", x>>] = "shown"
                 PROVE  \/ recorded'["typing"] = x
                        \/ handling[x] = <<"record", "typing">>
                        \/ <<"typing", x>> \in raced'
      BY <1>2 DEF TypingHasOwner
    <3>1. mark[<<"typing", x>>] = "shown" /\ \A r \in raced : r \in raced'
      BY <1>2, <2>3, <2>5
    <3>2. CASE recorded["typing"] = x
      BY <1>2, <1>4, <2>2, <2>3, <2>5, <3>2, NobodyIsNoMessage
    <3> QED
      BY <1>1, <3>1, <3>2 DEF TypingHasOwner
  <2> QED
    BY <2>6, <2>7, <2>8 DEF FeedbackInv
<1> QED
  BY <1>3, <1>5, <1>6, <1>7

LEMMA FeedbackStepPreserves == FeedbackInv /\ [FeedbackNext]_feedbackVars => FeedbackInv'
<1> SUFFICES ASSUME FeedbackInv, [FeedbackNext]_feedbackVars PROVE FeedbackInv'
  OBVIOUS
<1>1. CASE FeedbackNext
  BY <1>1, FeedbackHandlingKeeps, FeedbackTakingKeeps DEF FeedbackNext
<1>2. CASE UNCHANGED feedbackVars
  BY <1>2 DEF feedbackVars, FeedbackInv, FeedbackTypes, PlaceholderOnce, TypingHasOwner
<1> QED
  BY <1>1, <1>2

\* No placeholder is edited twice, and a typing indicator that runs has an
\* entry unless the janitor raced for it, whatever messages, replies and the
\* janitor do to each other.
THEOREM TakenOnce == FeedbackSpec => []MarksAreTakenOnce
<1>1. FeedbackInv => MarksAreTakenOnce
  BY DEF FeedbackInv, FeedbackTypes, TypingHasOwner, MarksAreTakenOnce, Kinds
<1> QED
  BY <1>1, FeedbackInitEstablishes, FeedbackStepPreserves, PTL DEF FeedbackSpec

-----------------------------------------------------------------------------
(***************************************************************************)
(* SubAgentLifecycle: what is dismissed or killed stays so, and limit and  *)
(* counters are exact while calls do not overlap, for any agents and       *)
(* callers, every limit and any number of failing store calls.             *)
(***************************************************************************)

AgentStatuses == {"none", "active", "suspended", "dismissed"}
AgentRows == [status : AgentStatuses, completed : Nat, low : BOOLEAN]

\* Places of a caller at which it has no agent yet.
Unchosen == {"idle", "create", "save"}
Chosen ==
  {"chosen", "executing", "succeeded", "failed", "dismiss for create", "write victim", "dismiss",
   "write dismissed", "delete", "revive", "write revived", "write suspended"}

LifecycleTypes ==
  /\ row \in [Agents -> AgentRows]
  /\ recent \in Seq(Agents)
  /\ caller \in [Callers -> [at : Unchosen \cup Chosen, agent : Agents \cup {"none"}, seen : AgentRows]]
  /\ \A c \in Callers : caller[c].at \in Chosen => caller[c].agent \in used
  /\ used \in SUBSET Agents /\ IsFiniteSet(used)
  /\ results \in [Agents -> Nat]
  /\ overlapped \in BOOLEAN
  /\ suspends \in 0 .. SuspendCalls /\ faults \in 0 .. MaxFaults

\* The rows by last_active_at are the rows there are, each once.
RecentIsRows == ToSet(recent) = {a \in Agents : Exists(a)} /\ IsInjective(recent)

\* An identifier is in a row or in the past of one only after it was given out.
UnusedIsNew == \A a \in Agents \ used : row[a] = NoRow /\ results[a] = 0

\* No call brings a deleted row back.
DeletedIsGone == \A a \in deleted : a \in used /\ row[a] = NoRow

\* Until calls overlap, one of them is in the manager.
OneInside == ~overlapped => \A c, d \in Callers : Inside(c) /\ Inside(d) => c = d

\* What a call has read is still so when it writes, as long as it is alone.
StillSo(c) ==
  LET a == caller[c].agent IN
  /\ caller[c].at \in {"dismiss for create", "write victim", "write suspended"} =>
       row[a].status = "active"
  /\ caller[c].at \in {"revive", "write revived"} => row[a].status = "suspended"
  /\ caller[c].at \in {"save", "write revived"} => Cardinality(Active) < MaxActive
  /\ caller[c].at \in {"succeeded", "failed"} =>
       Exists(a) /\ caller[c].seen.completed = row[a].completed

ReadIsStillSo == ~overlapped => \A c \in Callers : StillSo(c)

\* Without a call of Suspend nothing is suspended and nothing can be revived.
NeverSuspended ==
  suspends = 0 =>
    /\ \A a \in Agents : row[a].status # "suspended"
    /\ \A c \in Callers : caller[c].at \notin {"revive", "write revived", "write suspended"}

LifecycleInv ==
  /\ LifecycleTypes /\ RecentIsRows /\ UnusedIsNew /\ DeletedIsGone /\ OneInside /\ ReadIsStillSo
  /\ NeverSuspended /\ LimitUnlessRaced /\ CountUnlessRaced

-----------------------------------------------------------------------------
(***************************************************************************)
(* The first of the positions that satisfy a condition                     *)
(***************************************************************************)

\* A set of numbers that is not empty has a least one.
LEMMA MinIsLeast ==
  ASSUME NEW I, I \subseteq Nat, I # {}
  PROVE  Min(I) \in I /\ \A i \in I : Min(I) <= i
<1>1. PICK m \in I : \A i \in I : ~(<<i, m>> \in OpToRel(<, Nat))
  BY NatLessThanWellFounded, WFMin
<1>2. \A i \in I : <<i, m>> \in Nat \X Nat
  OBVIOUS
<1>3. \A i \in I : ~(i < m)
  BY <1>1, <1>2, Zenon DEF OpToRel
<1>4. \A i \in I : m <= i
  BY <1>3
<1> QED
  BY <1>4 DEF Min

\* RemoveFirst takes one element out of a sequence without duplicates.
LEMMA RemoveFirstTakesOut ==
  ASSUME NEW S, NEW s \in Seq(S), IsInjective(s), NEW a
  PROVE  /\ RemoveFirst(s, a) \in Seq(S)
         /\ ToSet(RemoveFirst(s, a)) = ToSet(s) \ {a}
         /\ IsInjective(RemoveFirst(s, a))
<1> DEFINE I == {i \in 1 .. Len(s) : s[i] = a}
<1>1. CASE I = {}
  <2>1. RemoveFirst(s, a) = s
    BY <1>1 DEF RemoveFirst
  <2>2. a \notin ToSet(s)
    BY <1>1 DEF ToSet
  <2> QED
    BY <2>1, <2>2
<1>2. CASE I # {}
  <2> DEFINE k == Min(I)  t == RemoveFirst(s, a)
  <2>1. k \in 1 .. Len(s) /\ s[k] = a
    <3>1. I \subseteq Nat
      OBVIOUS
    <3>2. k \in I
      <4> HIDE DEF I
      <4> QED
        BY <1>2, <3>1, MinIsLeast
    <3> QED
      BY <3>2
  <2>2. t = SubSeq(s, 1, k - 1) \o SubSeq(s, k + 1, Len(s))
    BY <1>2 DEF RemoveFirst, RemoveAt, SelectInSeq
  <2> HIDE DEF k, t
  <2>3. /\ t \in Seq(S) /\ Len(t) = Len(s) - 1
        /\ \A i \in 1 .. Len(s) - 1 : t[i] = IF i < k THEN s[i] ELSE s[i + 1]
    <3> DEFINE front == SubSeq(s, 1, k - 1)  back == SubSeq(s, k + 1, Len(s))
    <3>1. /\ front \in Seq(S) /\ Len(front) = k - 1
          /\ \A i \in 1 .. k - 1 : front[i] = s[i]
      BY <2>1
    <3>2. /\ back \in Seq(S) /\ Len(back) = Len(s) - k
          /\ \A i \in 1 .. Len(s) - k : back[i] = s[k + i]
      BY <2>1
    <3>3. t = front \o back
      BY <2>2
    <3> HIDE DEF front, back
    <3>4. /\ t \in Seq(S) /\ Len(t) = Len(s) - 1
          /\ \A i \in 1 .. Len(s) - 1 : t[i] = IF i <= k - 1 THEN front[i] ELSE back[i - (k - 1)]
      BY <2>1, <3>1, <3>2, <3>3
    <3> QED
      BY <2>1, <3>1, <3>2, <3>4
  <2> DEFINE from(i) == IF i < k THEN i ELSE i + 1
  <2>8. \A i \in 1 .. Len(t) : from(i) \in 1 .. Len(s) /\ from(i) # k /\ t[i] = s[from(i)]
    BY <2>1, <2>3
  <2>9. \A i, j \in 1 .. Len(t) : from(i) = from(j) => i = j
    BY <2>1, <2>3
  <2> HIDE DEF from
  <2>4. IsInjective(t)
    <3>1. DOMAIN t = 1 .. Len(t) /\ DOMAIN s = 1 .. Len(s)
      BY <2>3
    <3> QED
      BY <2>8, <2>9, <3>1 DEF IsInjective
  <2>5. \A i \in 1 .. Len(t) : t[i] \in ToSet(s) /\ t[i] # a
    BY <2>1, <2>8 DEF IsInjective, ToSet
  <2>6. \A i \in 1 .. Len(s) : i # k => s[i] \in ToSet(t)
    <3> SUFFICES ASSUME NEW i \in 1 .. Len(s), i # k PROVE \E j \in 1 .. Len(t) : t[j] = s[i]
      BY <2>3 DEF ToSet
    <3>1. CASE i < k
      BY <2>1, <2>3, <3>1
    <3>2. CASE i > k
      <4>1. i - 1 \in 1 .. Len(t) /\ t[i - 1] = s[i]
        BY <2>1, <2>3, <3>2
      <4> QED
        BY <4>1
    <3> QED
      BY <2>1, <3>1, <3>2
  <2>7. ToSet(t) = ToSet(s) \ {a}
    <3>1. ToSet(t) \subseteq ToSet(s) \ {a}
      BY <2>3, <2>5 DEF ToSet
    <3>2. ToSet(s) \ {a} \subseteq ToSet(t)
      BY <2>1, <2>6 DEF ToSet
    <3> QED
      BY <3>1, <3>2
  <2> QED
    BY <2>3, <2>4, <2>7 DEF t
<1> QED
  BY <1>1, <1>2

\* Append adds one element, and no duplicate if it is new.
LEMMA AppendAddsOne ==
  ASSUME NEW S, NEW s \in Seq(S), IsInjective(s), NEW a \in S, a \notin ToSet(s)
  PROVE  /\ Append(s, a) \in Seq(S)
         /\ ToSet(Append(s, a)) = ToSet(s) \cup {a}
         /\ IsInjective(Append(s, a))
<1> DEFINE t == Append(s, a)
<1>1. /\ t \in Seq(S) /\ Len(t) = Len(s) + 1 /\ t[Len(s) + 1] = a
      /\ \A i \in 1 .. Len(s) : t[i] = s[i]
  OBVIOUS
<1>2. DOMAIN t = 1 .. Len(t) /\ DOMAIN s = 1 .. Len(s)
  OBVIOUS
<1>3. \A i \in 1 .. Len(s) : s[i] # a
  BY DEF ToSet
<1> HIDE DEF t
<1>4. IsInjective(t)
  BY <1>1, <1>2, <1>3 DEF IsInjective
<1>5. ToSet(t) = ToSet(s) \cup {a}
  <2>1. \A i \in 1 .. Len(t) : t[i] \in ToSet(s) \cup {a}
    BY <1>1, <1>2 DEF ToSet
  <2>2. ToSet(s) \subseteq ToSet(t) /\ a \in ToSet(t)
    BY <1>1, <1>2 DEF ToSet
  <2> QED
    BY <1>2, <2>1, <2>2 DEF ToSet
<1> QED
  BY <1>1, <1>4, <1>5 DEF t

\* Touched makes an agent the last one of the sequence.
LEMMA TouchedIsLast ==
  ASSUME NEW S, NEW s \in Seq(S), IsInjective(s), NEW a \in S
  PROVE  /\ Append(RemoveFirst(s, a), a) \in Seq(S)
         /\ ToSet(Append(RemoveFirst(s, a), a)) = ToSet(s) \cup {a}
         /\ IsInjective(Append(RemoveFirst(s, a), a))
<1> DEFINE r == RemoveFirst(s, a)
<1>1. r \in Seq(S) /\ ToSet(r) = ToSet(s) \ {a} /\ IsInjective(r)
  BY RemoveFirstTakesOut
<1> HIDE DEF r
<1>2. /\ Append(r, a) \in Seq(S)
      /\ ToSet(Append(r, a)) = ToSet(r) \cup {a}
      /\ IsInjective(Append(r, a))
  BY <1>1, AppendAddsOne
<1> QED
  BY <1>1, <1>2 DEF r

\* When the limit is reached there is an active agent, and OldestActive is one.
LEMMA OldestIsActive ==
  ASSUME LifecycleInv, Active # {}
  PROVE  OldestActive \in Active
<1> DEFINE I == {i \in 1 .. Len(recent) : recent[i] \in Active}
<1>1. Active \subseteq ToSet(recent)
  BY DEF LifecycleInv, RecentIsRows, Active, Exists
<1>2. I # {}
  BY <1>1 DEF ToSet, LifecycleInv, LifecycleTypes
<1>3. I \subseteq Nat
  OBVIOUS
<1>4. Min(I) \in I
  <2> HIDE DEF I
  <2> QED
    BY <1>2, <1>3, MinIsLeast
<1> QED
  BY <1>2, <1>4 DEF OldestActive, SelectInSeq

LEMMA ActiveIsFinite ==
  ASSUME LifecycleInv
  PROVE  /\ IsFiniteSet(Active) /\ Cardinality(Active) \in Nat
         /\ AtLimit => Active # {}
<1>1. Active \in SUBSET used
  BY DEF LifecycleInv, LifecycleTypes, UnusedIsNew, Active, NoRow
<1>2. IsFiniteSet(Active)
  BY <1>1, FS_Subset DEF LifecycleInv, LifecycleTypes
<1> QED
  BY <1>2, FS_CardinalityType, FS_EmptySet, LifecycleAssumption DEF AtLimit

-----------------------------------------------------------------------------
(***************************************************************************)
(* What every step has in common                                           *)
(***************************************************************************)
CallerPlaces == Unchosen \cup Chosen
CallerRecords == [at : CallerPlaces, agent : Agents \cup {"none"}, seen : AgentRows]
CallsOverlap == overlapped' = (overlapped \/ \E c, d \in Callers : c # d /\ Inside(c)' /\ Inside(d)')

LEMMA LifecycleInitEstablishes == LifecycleInit => LifecycleInv
<1> SUFFICES ASSUME LifecycleInit PROVE LifecycleInv
  OBVIOUS
<1> USE LifecycleAssumption DEF LifecycleInit
<1>1. LifecycleTypes
  <2>1. NoRow \in AgentRows
    BY DEF NoRow, AgentRows, AgentStatuses
  <2>2. caller \in [Callers -> CallerRecords]
    BY <2>1 DEF CallerRecords, CallerPlaces, Unchosen, Idle
  <2>3. \A c \in Callers : caller[c].at \notin Chosen
    BY DEF Idle, Chosen
  <2>4. suspends \in 0 .. SuspendCalls /\ faults \in 0 .. MaxFaults
    OBVIOUS
  <2>5. row \in [Agents -> AgentRows] /\ results \in [Agents -> Nat] /\ recent \in Seq(Agents)
    BY <2>1
  <2>6. used \in SUBSET Agents /\ IsFiniteSet(used) /\ overlapped \in BOOLEAN
    BY FS_EmptySet
  <2> QED
    BY <2>2, <2>3, <2>4, <2>5, <2>6 DEF LifecycleTypes, CallerRecords, CallerPlaces
<1>2. RecentIsRows
  BY DEF RecentIsRows, Exists, NoRow, ToSet, IsInjective
<1>3. Active = {}
  BY DEF Active, NoRow
<1>4. LimitUnlessRaced /\ CountUnlessRaced
  BY <1>3, FS_EmptySet DEF LimitUnlessRaced, CountUnlessRaced, Exists, NoRow
<1>5. OneInside /\ ReadIsStillSo
  BY DEF OneInside, ReadIsStillSo, StillSo, Inside, Idle
<1>6. UnusedIsNew /\ DeletedIsGone /\ NeverSuspended
  BY DEF UnusedIsNew, DeletedIsGone, NeverSuspended, NoRow, Idle
<1> QED
  BY <1>1, <1>2, <1>4, <1>5, <1>6 DEF LifecycleInv

\* A step moves one caller.  The others keep what they have read: if the row
\* changes the caller was in the manager, and then nobody else is.
LEMMA OneCallerMoves ==
  ASSUME LifecycleInv, CallsOverlap,
         NEW c \in Callers, NEW n \in CallerRecords,
         caller' = [caller EXCEPT ![c] = n],
         n.at \in Chosen => n.agent \in used', used \subseteq used',
         Inside(c) \/ row' = row,
         ~overlapped' => StillSo(c)'
  PROVE  /\ caller' \in [Callers -> CallerRecords]
         /\ \A d \in Callers : caller'[d].at \in Chosen => caller'[d].agent \in used'
         /\ overlapped' \in BOOLEAN
         /\ OneInside' /\ ReadIsStillSo'
<1>1. caller \in [Callers -> CallerRecords]
  BY DEF LifecycleInv, LifecycleTypes, CallerRecords, CallerPlaces
<1>2. caller' \in [Callers -> CallerRecords]
  BY <1>1
<1>3. ASSUME NEW d \in Callers, caller'[d].at \in Chosen PROVE caller'[d].agent \in used'
  BY <1>1, <1>3 DEF LifecycleInv, LifecycleTypes
<1>4. OneInside'
  BY DEF OneInside, CallsOverlap
<1>5. ~overlapped' => ~overlapped
  BY DEF CallsOverlap
<1>6. ASSUME ~overlapped', NEW d \in Callers, d # c PROVE StillSo(d)'
  <2>1. caller'[d] = caller[d] /\ StillSo(d)
    BY <1>1, <1>5, <1>6 DEF LifecycleInv, ReadIsStillSo
  <2>2. CASE row' = row
    <3>1. Active' = Active
      BY <2>2 DEF Active
    <3> QED
      BY <2>1, <2>2, <3>1 DEF StillSo, Exists
  <2>3. CASE Inside(c)
    <3>1. caller'[d].at \in {"idle", "chosen", "executing"}
      BY <1>5, <1>6, <2>1, <2>3 DEF LifecycleInv, OneInside, Inside
    <3> QED
      BY <3>1 DEF StillSo
  <2> QED
    BY <2>2, <2>3
<1>7. ReadIsStillSo'
  BY <1>6 DEF ReadIsStillSo
<1>8. overlapped' \in BOOLEAN
  BY DEF LifecycleInv, LifecycleTypes, CallsOverlap
<1> QED
  BY <1>2, <1>3, <1>4, <1>7, <1>8

\* A step that writes nothing.
LEMMA RowReadStep ==
  ASSUME LifecycleInv, CallsOverlap,
         NEW c \in Callers, NEW n \in CallerRecords,
         caller' = [caller EXCEPT ![c] = n],
         UNCHANGED <<row, recent, used, deleted, results>>,
         suspends' \in 0 .. SuspendCalls, faults' \in 0 .. MaxFaults,
         n.at \in Chosen => n.agent \in used,
         suspends' = 0 =>
           suspends = 0 /\ n.at \notin {"revive", "write revived", "write suspended"},
         ~overlapped' => StillSo(c)'
  PROVE  LifecycleInv'
<1>1. /\ caller' \in [Callers -> CallerRecords]
      /\ \A d \in Callers : caller'[d].at \in Chosen => caller'[d].agent \in used'
      /\ overlapped' \in BOOLEAN
      /\ OneInside' /\ ReadIsStillSo'
  BY OneCallerMoves
<1>2. LifecycleTypes'
  BY <1>1 DEF LifecycleInv, LifecycleTypes, CallerRecords, CallerPlaces
<1>3. Active' = Active
  BY DEF Active
<1>4. RecentIsRows' /\ UnusedIsNew' /\ DeletedIsGone'
  BY DEF LifecycleInv, RecentIsRows, UnusedIsNew, DeletedIsGone, Exists
<1>5. LimitUnlessRaced' /\ CountUnlessRaced'
  BY <1>3 DEF LifecycleInv, LimitUnlessRaced, CountUnlessRaced, Exists, CallsOverlap
<1>6. NeverSuspended'
  BY DEF LifecycleInv, NeverSuspended, LifecycleTypes
<1> QED
  BY <1>1, <1>2, <1>4, <1>5, <1>6 DEF LifecycleInv

\* A result is counted in the row and among the results, or in neither.
ResultCounted(a, new) ==
  \/ results' = results /\ new.completed = row[a].completed
  \/ /\ results' = [results EXCEPT ![a] = IF Exists(a) THEN @ + 1 ELSE @]
     /\ ~overlapped => new.completed = row[a].completed + 1

\* There is room for what becomes active, and nothing is suspended without Suspend.
MayWriteRow(a, n, new) ==
  /\ new.status = "active" =>
       overlapped \/ Cardinality(Active) < MaxActive \/ row[a].status = "active"
  /\ suspends = 0 => /\ new.status # "suspended"
                     /\ n.at \notin {"revive", "write revived", "write suspended"}

\* A write to the row of an agent, or none if there is no row any more.
LEMMA RowWriteStep ==
  ASSUME LifecycleInv, CallsOverlap,
         NEW c \in Callers, NEW n \in CallerRecords, Inside(c),
         caller' = [caller EXCEPT ![c] = n],
         NEW a \in used, NEW new \in AgentRows, new.status # "none",
         UpdateRow(a, new),
         UNCHANGED <<used, deleted, suspends, faults>>,
         ResultCounted(a, new),
         n.at \in Chosen => n.agent \in used,
         MayWriteRow(a, n, new),
         ~overlapped' => StillSo(c)'
  PROVE  LifecycleInv'
<1>i. /\ LifecycleTypes /\ RecentIsRows /\ UnusedIsNew /\ DeletedIsGone /\ OneInside /\ ReadIsStillSo
      /\ NeverSuspended /\ LimitUnlessRaced /\ CountUnlessRaced
  BY DEF LifecycleInv
<1>0. a \in Agents /\ row \in [Agents -> AgentRows] /\ ~(~overlapped' /\ overlapped)
  BY <1>i DEF LifecycleTypes, CallsOverlap
<1>r. results' \in [Agents -> Nat] /\ \A b \in Agents : b # a => results'[b] = results[b]
  <2>1. results \in [Agents -> Nat]
    BY <1>i DEF LifecycleTypes
  <2>2. PICK x \in Nat : results' = [results EXCEPT ![a] = x]
    <3>1. results[a] \in Nat /\ results[a] + 1 \in Nat
      BY <1>0, <2>1
    <3>2. results = [results EXCEPT ![a] = results[a]]
      BY <1>0, <2>1
    <3> QED
      BY <3>1, <3>2, Zenon DEF ResultCounted
  <2> QED
    BY <1>0, <2>1, <2>2
<1>1. /\ caller' \in [Callers -> CallerRecords]
      /\ \A d \in Callers : caller'[d].at \in Chosen => caller'[d].agent \in used'
      /\ overlapped' \in BOOLEAN
      /\ OneInside' /\ ReadIsStillSo'
  BY OneCallerMoves
<1>2. CASE ~Exists(a)
  <2>1. UNCHANGED <<row, recent>>
    BY <1>2 DEF UpdateRow
  <2>2. row[a].status = "none" /\ Active' = Active
    BY <1>2, <2>1 DEF Exists, Active
  <2>4. LifecycleTypes'
    BY <1>i, <1>1, <1>r, <2>1 DEF LifecycleTypes, CallerRecords, CallerPlaces
  <2>5. RecentIsRows' /\ UnusedIsNew' /\ DeletedIsGone'
    BY <1>i, <1>0, <1>r, <2>1 DEF RecentIsRows, UnusedIsNew, DeletedIsGone, Exists
  <2>6. LimitUnlessRaced' /\ CountUnlessRaced'
    BY <1>i, <1>0, <1>r, <2>1, <2>2 DEF LimitUnlessRaced, CountUnlessRaced, Exists
  <2>7. NeverSuspended'
    BY <1>i, <1>0, <2>1 DEF NeverSuspended, LifecycleTypes, MayWriteRow
  <2> QED
    BY <1>1, <2>4, <2>5, <2>6, <2>7 DEF LifecycleInv
<1>3. CASE Exists(a)
  <2>1. row' = [row EXCEPT ![a] = new] /\ recent' = Append(RemoveFirst(recent, a), a)
    BY <1>3 DEF UpdateRow, Touched
  <2>2. row' \in [Agents -> AgentRows] /\ row'[a] = new /\ \A b \in Agents : b # a => row'[b] = row[b]
    BY <1>0, <2>1
  <2>3. recent' \in Seq(Agents) /\ ToSet(recent') = ToSet(recent) \cup {a} /\ IsInjective(recent')
    <3>1. recent \in Seq(Agents) /\ IsInjective(recent)
      BY <1>i DEF LifecycleTypes, RecentIsRows
    <3> QED
      <4>1. /\ Append(RemoveFirst(recent, a), a) \in Seq(Agents)
            /\ ToSet(Append(RemoveFirst(recent, a), a)) = ToSet(recent) \cup {a}
            /\ IsInjective(Append(RemoveFirst(recent, a), a))
        BY <1>0, <3>1, TouchedIsLast
      <4> QED
        BY <2>1, <4>1
  <2>5. LifecycleTypes'
    BY <1>i, <1>1, <2>2, <2>3, <1>r DEF LifecycleTypes, CallerRecords, CallerPlaces
  <2>6. RecentIsRows'
    BY <1>i, <1>0, <1>3, <2>2, <2>3 DEF RecentIsRows, Exists
  <2>11. row[a].status # "none" /\ NoRow.status = "none"
    BY <1>3 DEF Exists, NoRow
  <2>7. UnusedIsNew' /\ DeletedIsGone'
    <3>1. row[a] # NoRow
      BY <2>11
    <3>2. UnusedIsNew'
      BY <1>i, <1>r, <2>2 DEF UnusedIsNew
    <3>3. \A b \in deleted : b \in Agents /\ b # a
      BY <1>i, <3>1 DEF DeletedIsGone, LifecycleTypes
    <3> QED
      BY <1>i, <2>2, <3>2, <3>3 DEF DeletedIsGone
  <2>8. LimitUnlessRaced'
    <3> SUFFICES ASSUME ~overlapped' PROVE Cardinality(Active') <= MaxActive
      BY DEF LimitUnlessRaced
    <3>1. IsFiniteSet(Active) /\ Cardinality(Active) \in Nat /\ Cardinality(Active) <= MaxActive
      BY <1>i, <1>0, ActiveIsFinite DEF LimitUnlessRaced
    <3>2. CASE new.status = "active" /\ row[a].status = "active"
      <4>1. Active' = Active
        BY <1>0, <2>2, <3>2 DEF Active
      <4> QED
        BY <3>1, <4>1
    <3>3. CASE new.status = "active" /\ row[a].status # "active"
      <4>1. Active' = Active \cup {a} /\ a \notin Active
        BY <1>0, <2>2, <3>3 DEF Active
      <4>2. Cardinality(Active') = Cardinality(Active) + 1
        BY <3>1, <4>1, FS_AddElement
      <4>3. Cardinality(Active) < MaxActive
        BY <1>0, <3>3 DEF MayWriteRow
      <4> QED
        BY <3>1, <4>2, <4>3, LifecycleAssumption
    <3>4. CASE new.status # "active"
      <4>1. Active' = Active \ {a}
        BY <1>0, <2>2, <3>4 DEF Active
      <4>2. Cardinality(Active') \in {Cardinality(Active), Cardinality(Active) - 1}
        BY <3>1, <4>1, FS_RemoveElement
      <4> QED
        BY <3>1, <4>2, LifecycleAssumption
    <3> QED
      BY <3>2, <3>3, <3>4
  <2>9. CountUnlessRaced'
    <3> SUFFICES ASSUME ~overlapped', NEW b \in Agents, Exists(b)' PROVE row'[b].completed = results'[b]
      BY DEF CountUnlessRaced
    <3>1. CASE b = a
      BY <1>i, <1>0, <1>3, <2>2, <3>1 DEF CountUnlessRaced, LifecycleTypes, ResultCounted
    <3>2. CASE b # a
      BY <1>i, <1>0, <1>r, <2>2, <3>2 DEF CountUnlessRaced, Exists
    <3> QED
      BY <3>1, <3>2
  <2>10. NeverSuspended'
    BY <1>i, <1>0, <2>2 DEF NeverSuspended, LifecycleTypes, MayWriteRow
  <2> QED
    BY <1>1, <2>5, <2>6, <2>7, <2>8, <2>9, <2>10 DEF LifecycleInv
<1> QED
  BY <1>2, <1>3

-----------------------------------------------------------------------------
(***************************************************************************)
(* The operations                                                          *)
(***************************************************************************)

\* Goto, Keep and Return write a record, and each place a caller may be in has
\* an agent that was given out.
LEMMA CallerMoves ==
  ASSUME LifecycleInv, NEW c \in Callers, NEW at \in CallerPlaces, NEW a \in Agents \cup {"none"}
  PROVE  /\ Idle \in CallerRecords /\ Idle.at = "idle"
         /\ [at |-> at, agent |-> a, seen |-> NoRow] \in CallerRecords
         /\ a \in Agents => [at |-> at, agent |-> a, seen |-> row[a]] \in CallerRecords
         /\ caller \in [Callers -> CallerRecords]
         /\ caller[c].at \in Chosen => caller[c].agent \in used /\ caller[c].agent \in Agents
<1>1. NoRow \in AgentRows
  BY DEF NoRow, AgentRows, AgentStatuses
<1>2. row \in [Agents -> AgentRows] /\ caller \in [Callers -> CallerRecords]
  BY DEF LifecycleInv, LifecycleTypes, CallerRecords, CallerPlaces
<1>3. Idle \in CallerRecords /\ Idle.at = "idle"
  BY <1>1 DEF Idle, CallerRecords, CallerPlaces, Unchosen
<1>4. caller[c].at \in Chosen => caller[c].agent \in used /\ caller[c].agent \in Agents
  BY DEF LifecycleInv, LifecycleTypes
<1> QED
  BY <1>1, <1>2, <1>3, <1>4 DEF CallerRecords

\* A caller that goes to a place without reading or writing the store.
LEMMA CallerGoes ==
  ASSUME LifecycleInv, CallsOverlap,
         NEW c \in Callers, NEW at \in CallerPlaces, NEW a \in Agents \cup {"none"},
         Goto(c, at, a),
         UNCHANGED <<row, recent, used, deleted, results, suspends>>,
         faults' \in 0 .. MaxFaults,
         at \in Chosen => a \in used,
         suspends = 0 => at \notin {"revive", "write revived", "write suspended"},
         at \notin {"succeeded", "failed"},
         at \in {"dismiss for create", "write victim", "write suspended"} /\ ~overlapped =>
           row[a].status = "active",
         at \in {"revive", "write revived"} /\ ~overlapped => row[a].status = "suspended",
         at \in {"save", "write revived"} /\ ~overlapped => Cardinality(Active) < MaxActive
  PROVE  LifecycleInv'
<1> DEFINE n == [at |-> at, agent |-> a, seen |-> NoRow]
<1>1. n \in CallerRecords /\ caller \in [Callers -> CallerRecords]
  BY CallerMoves
<1>2. caller' = [caller EXCEPT ![c] = n] /\ caller'[c] = n
  BY <1>1 DEF Goto
<1>3. Active' = Active
  BY DEF Active
<1>4. ~overlapped' => StillSo(c)'
  <2>0. n.at = at /\ n.agent = a
    OBVIOUS
  <2>1. caller'[c].at = at /\ caller'[c].agent = a /\ row' = row
    BY <1>2, <2>0, Zenon
  <2>2. ~overlapped' => ~overlapped
    BY DEF CallsOverlap
  <2> QED
    BY <1>3, <2>1, <2>2 DEF StillSo
<1>5. suspends' \in 0 .. SuspendCalls
  BY DEF LifecycleInv, LifecycleTypes
<1> QED
  BY <1>1, <1>2, <1>4, <1>5, RowReadStep

LEMMA CallerReturns ==
  ASSUME LifecycleInv, CallsOverlap, NEW c \in Callers, Return(c),
         UNCHANGED <<row, recent, used, deleted, results, suspends>>,
         faults' \in 0 .. MaxFaults
  PROVE  LifecycleInv'
<1>1. "idle" \in CallerPlaces /\ "idle" \notin Chosen /\ Goto(c, "idle", "none")
  BY DEF CallerPlaces, Unchosen, Chosen, Return, Goto, Idle
<1> QED
  BY <1>1, CallerGoes

\* FindReusable, UseExisting, StartTask, BeginDismiss and the reads before a write.
LEMMA ReadsKeep ==
  ASSUME LifecycleInv, CallsOverlap, NEW c \in Callers,
         \/ FindReusable(c) \/ UseExisting(c) \/ BeginCreate(c) \/ ReadVictim(c)
         \/ StartTask(c) \/ BeginDismiss(c) \/ ReadDismissed(c) \/ ReadKilled(c)
         \/ ReadRevived(c) \/ CheckRevive(c) \/ StoreError(c)
  PROVE  LifecycleInv'
<1> USE DEF CallerPlaces, Unchosen, Chosen, lifecycleGhosts
<1>f. faults \in 0 .. MaxFaults /\ suspends \in 0 .. SuspendCalls
  BY DEF LifecycleInv, LifecycleTypes
<1>u. used \subseteq Agents
  BY DEF LifecycleInv, LifecycleTypes
<1>a. \A a \in Active : a \in used /\ a \in Agents /\ row[a].status = "active"
  <2>1. \A a \in Agents \ used : row[a].status = "none"
    BY DEF LifecycleInv, UnusedIsNew, NoRow
  <2> QED
    BY <2>1 DEF Active
<1>c. caller[c].at \in Chosen => caller[c].agent \in used /\ caller[c].agent \in Agents
  BY DEF LifecycleInv, LifecycleTypes
<1>s. ~overlapped => StillSo(c)
  BY DEF LifecycleInv, ReadIsStillSo
<1>1. CASE FindReusable(c)
  <2>1. CASE Goto(c, "create", "none")
    BY <1>1, <1>f, <2>1, CallerGoes DEF FindReusable
  <2>2. CASE \E a \in Active : Goto(c, "chosen", a)
    BY <1>1, <1>f, <1>a, <2>2, CallerGoes DEF FindReusable
  <2> QED
    BY <1>1, <2>1, <2>2 DEF FindReusable
<1>2. CASE UseExisting(c)
  BY <1>2, <1>f, <1>a, CallerGoes DEF UseExisting
<1>3. CASE BeginCreate(c)
  <2>1. CASE AtLimit
    <3>1. OldestActive \in Active
      BY <2>1, ActiveIsFinite, OldestIsActive
    <3>2. Goto(c, "dismiss for create", OldestActive)
      BY <1>3, <2>1 DEF BeginCreate, CheckLimit
    <3> HIDE DEF OldestActive
    <3> QED
      BY <1>3, <1>f, <1>a, <3>1, <3>2, CallerGoes DEF BeginCreate, CheckLimit
  <2>2. CASE ~AtLimit
    <3>1. Cardinality(Active) < MaxActive
      BY <2>2, ActiveIsFinite, LifecycleAssumption DEF AtLimit
    <3>2. Goto(c, "save", "none")
      BY <1>3, <2>2 DEF BeginCreate, CheckLimit
    <3> QED
      BY <1>3, <1>f, <3>1, <3>2, CallerGoes DEF BeginCreate, CheckLimit
  <2> QED
    BY <2>1, <2>2
<1>4. CASE ReadVictim(c)
  <2>1. CASE Exists(caller[c].agent)
    <3> DEFINE a == caller[c].agent
    <3>1. a \in used /\ a \in Agents /\ (~overlapped => row[a].status = "active")
      BY <1>4, <1>c, <1>s DEF ReadVictim, StillSo
    <3>2. Goto(c, "write victim", a)
      BY <1>4, <2>1 DEF ReadVictim
    <3> HIDE DEF a
    <3> QED
      BY <1>4, <1>f, <3>1, <3>2, CallerGoes DEF ReadVictim
  <2>2. CASE ~Exists(caller[c].agent)
    BY <1>4, <1>f, <2>2, CallerReturns DEF ReadVictim
  <2> QED
    BY <2>1, <2>2
<1>5. CASE StartTask(c)
  <2> DEFINE a == caller[c].agent
  <2>1. a \in used /\ a \in Agents /\ Goto(c, "executing", a)
    BY <1>5, <1>c DEF StartTask
  <2> HIDE DEF a
  <2> QED
    BY <1>5, <1>f, <2>1, CallerGoes DEF StartTask
<1>6. CASE BeginDismiss(c)
  BY <1>6, <1>f, <1>u, CallerGoes DEF BeginDismiss
<1>7. CASE ReadDismissed(c)
  <2>1. CASE Exists(caller[c].agent)
    <3> DEFINE a == caller[c].agent
    <3>1. a \in used /\ a \in Agents /\ Goto(c, "write dismissed", a)
      BY <1>7, <1>c, <2>1 DEF ReadDismissed
    <3> HIDE DEF a
    <3> QED
      BY <1>7, <1>f, <3>1, CallerGoes DEF ReadDismissed
  <2>2. CASE ~Exists(caller[c].agent)
    BY <1>7, <1>f, <2>2, CallerReturns DEF ReadDismissed
  <2> QED
    BY <2>1, <2>2
<1>8. CASE ReadKilled(c)
  BY <1>8, <1>f, <1>u, CallerGoes DEF ReadKilled
<1>9. CASE ReadRevived(c)
  <2>1. PICK a \in used : row[a].status = "suspended" /\ Goto(c, "revive", a)
    BY <1>9 DEF ReadRevived
  <2>2. suspends # 0
    BY <1>u, <2>1 DEF LifecycleInv, NeverSuspended
  <2> QED
    BY <1>9, <1>f, <1>u, <2>1, <2>2, CallerGoes DEF ReadRevived
<1>10. CASE CheckRevive(c)
  <2>1. CASE AtLimit
    BY <1>10, <1>f, <2>1, CallerReturns DEF CheckRevive
  <2>2. CASE ~AtLimit
    <3>1. Cardinality(Active) < MaxActive
      BY <2>2, ActiveIsFinite, LifecycleAssumption DEF AtLimit
    <3>2. suspends # 0
      BY <1>10 DEF LifecycleInv, NeverSuspended, CheckRevive
    <3> DEFINE a == caller[c].agent
    <3>3. ~overlapped => row[a].status = "suspended"
      BY <1>10, <1>s DEF StillSo, CheckRevive
    <3>4. a \in used /\ a \in Agents /\ Goto(c, "write revived", a)
      BY <1>10, <1>c, <2>2 DEF CheckRevive
    <3> HIDE DEF a
    <3> QED
      BY <1>10, <1>f, <3>1, <3>2, <3>3, <3>4, CallerGoes DEF CheckRevive
  <2> QED
    BY <2>1, <2>2
<1>11. CASE StoreError(c)
  <2>1. faults' \in 0 .. MaxFaults
    BY <1>11, <1>f, LifecycleAssumption DEF StoreError
  <2> QED
    BY <1>11, <2>1, CallerReturns DEF StoreError
<1> QED
  BY <1>1, <1>2, <1>3, <1>4, <1>5, <1>6, <1>7, <1>8, <1>9, <1>10, <1>11

\* The end of a task: what is read now is kept for the write.
LEMMA EndTaskKeeps ==
  ASSUME LifecycleInv, CallsOverlap, NEW c \in Callers, EndTask(c)
  PROVE  LifecycleInv'
<1> DEFINE a == caller[c].agent
<1>f. faults' \in 0 .. MaxFaults /\ suspends' \in 0 .. SuspendCalls
  BY DEF LifecycleInv, LifecycleTypes, EndTask, lifecycleGhosts
<1>c. a \in used /\ a \in Agents
  BY DEF LifecycleInv, LifecycleTypes, EndTask, Chosen
<1>u. /\ UNCHANGED <<row, recent, used, deleted, results, suspends>>
      /\ (Exists(a) /\ (Keep(c, "succeeded", a) \/ Keep(c, "failed", a))) \/ Return(c)
  BY DEF EndTask, lifecycleGhosts
<1> HIDE DEF a
<1>1. CASE Return(c)
  BY <1>1, <1>f, <1>u, CallerReturns
<1>2. ASSUME NEW at \in {"succeeded", "failed"}, Keep(c, at, a), Exists(a) PROVE LifecycleInv'
  <2> DEFINE n == [at |-> at, agent |-> a, seen |-> row[a]]
  <2>1. at \in CallerPlaces /\ at \in Chosen
    BY DEF CallerPlaces, Chosen
  <2>2. n \in CallerRecords /\ caller \in [Callers -> CallerRecords]
    BY <1>c, <2>1, CallerMoves
  <2>3. caller' = [caller EXCEPT ![c] = n] /\ caller'[c] = n
    BY <1>2, <2>2 DEF Keep
  <2>4. n.at = at /\ n.agent = a /\ n.seen = row[a]
    OBVIOUS
  <2>5. StillSo(c)'
    BY <1>2, <1>u, <2>3, <2>4 DEF StillSo, Exists
  <2>6. n.at \notin {"revive", "write revived", "write suspended"}
    BY <2>4
  <2> HIDE DEF n
  <2> QED
    BY <1>c, <1>f, <1>u, <2>2, <2>3, <2>4, <2>5, <2>6, RowReadStep
<1> QED
  BY <1>1, <1>2, <1>u

\* The beginning of Suspend.
LEMMA ReadSuspendedKeeps ==
  ASSUME LifecycleInv, CallsOverlap, NEW c \in Callers, ReadSuspended(c)
  PROVE  LifecycleInv'
<1>1. PICK a \in Active : Goto(c, "write suspended", a)
  BY DEF ReadSuspended
<1>2. a \in used /\ a \in Agents /\ row[a].status = "active"
  <2>1. \A b \in Agents \ used : row[b].status = "none"
    BY DEF LifecycleInv, UnusedIsNew, NoRow
  <2> QED
    BY <1>1, <2>1 DEF Active
<1> DEFINE n == [at |-> "write suspended", agent |-> a, seen |-> NoRow]
<1>3. n \in CallerRecords /\ caller \in [Callers -> CallerRecords]
  BY <1>2, CallerMoves DEF CallerPlaces, Chosen
<1>4. n.at = "write suspended" /\ n.agent = a
  OBVIOUS
<1>5. caller' = [caller EXCEPT ![c] = n] /\ caller'[c] = n
  BY <1>1, <1>3 DEF Goto
<1>6. UNCHANGED <<row, recent, used, deleted, results>>
  BY DEF ReadSuspended
<1>7. suspends' \in 0 .. SuspendCalls /\ suspends' # 0 /\ faults' \in 0 .. MaxFaults
  <2>1. suspends \in 0 .. SuspendCalls /\ faults \in 0 .. MaxFaults
    BY DEF LifecycleInv, LifecycleTypes
  <2>2. suspends < SuspendCalls /\ suspends' = suspends + 1 /\ faults' = faults
    BY DEF ReadSuspended
  <2> QED
    BY <2>1, <2>2, LifecycleAssumption
<1>8. StillSo(c)'
  BY <1>2, <1>4, <1>5, <1>6 DEF StillSo
<1> HIDE DEF n
<1> QED
  BY <1>2, <1>3, <1>4, <1>5, <1>6, <1>7, <1>8, RowReadStep

\* The writes of Dismiss, Revive and Suspend, which set nothing but the status.
LEMMA StatusWriteKeeps ==
  ASSUME LifecycleInv, CallsOverlap, NEW c \in Callers,
         WriteVictim(c) \/ WriteDismissed(c) \/ WriteRevived(c) \/ WriteSuspended(c)
  PROVE  LifecycleInv'
<1> DEFINE a == caller[c].agent
<1>1. a \in used /\ a \in Agents /\ Inside(c) /\ row[a] \in AgentRows
  BY DEF LifecycleInv, LifecycleTypes, Chosen, WriteVictim, WriteDismissed, WriteRevived, WriteSuspended,
         Inside
<1>2. UNCHANGED <<used, deleted, suspends, faults, results>>
  BY DEF WriteVictim, WriteDismissed, WriteRevived, WriteSuspended, lifecycleGhosts
<1>3. /\ ~overlapped => StillSo(c)
      /\ ~overlapped' => ~overlapped
      /\ caller \in [Callers -> CallerRecords]
  BY DEF LifecycleInv, ReadIsStillSo, CallsOverlap, LifecycleTypes, CallerRecords, CallerPlaces
<1>4. ASSUME NEW st \in AgentStatuses, st # "none"
      PROVE  LET new == [row[a] EXCEPT !.status = st] IN
               new \in AgentRows /\ new.status = st /\ new.completed = row[a].completed
  BY <1>1 DEF AgentRows
<1>5. Idle \in CallerRecords /\ Idle.at = "idle"
  BY DEF LifecycleInv, LifecycleTypes, Idle, CallerRecords, CallerPlaces, Unchosen, NoRow, AgentRows, AgentStatuses
<1>6. CASE WriteVictim(c)
  <2> DEFINE new == [row[a] EXCEPT !.status = "dismissed"]
             n == [at |-> "save", agent |-> "none", seen |-> NoRow]
  <2>1. new \in AgentRows /\ new.status = "dismissed" /\ new.completed = row[a].completed
    BY <1>4 DEF AgentStatuses
  <2>2. UpdateRow(a, new) /\ Goto(c, "save", "none")
    BY <1>6 DEF WriteVictim
  <2>3. n \in CallerRecords /\ n.at = "save"
    BY DEF CallerRecords, CallerPlaces, Unchosen, NoRow, AgentRows, AgentStatuses
  <2>4. caller' = [caller EXCEPT ![c] = n] /\ caller'[c] = n
    BY <1>3, <2>2 DEF Goto
  <2>5. MayWriteRow(a, n, new) /\ ResultCounted(a, new)
    BY <1>2, <2>1, <2>3 DEF MayWriteRow, ResultCounted
  <2>6. ~overlapped' => StillSo(c)'
    <3> SUFFICES ASSUME ~overlapped PROVE Cardinality(Active') < MaxActive
      BY <1>3, <2>3, <2>4 DEF StillSo
    <3>1. row[a].status = "active"
      BY <1>3, <1>6 DEF StillSo, WriteVictim
    <3>2. IsFiniteSet(Active) /\ Cardinality(Active) \in Nat /\ Cardinality(Active) <= MaxActive
      BY ActiveIsFinite DEF LifecycleInv, LimitUnlessRaced
    <3>3. row' = [row EXCEPT ![a] = new]
      BY <2>2, <3>1 DEF UpdateRow, Exists
    <3>4. Active' = Active \ {a} /\ a \in Active
      <4>1. row \in [Agents -> AgentRows]
        BY DEF LifecycleInv, LifecycleTypes
      <4> HIDE DEF new
      <4> QED
        BY <1>1, <2>1, <3>1, <3>3, <4>1 DEF Active
    <3>5. Cardinality(Active') = Cardinality(Active) - 1
      BY <3>2, <3>4, FS_RemoveElement
    <3> QED
      BY <3>2, <3>5, LifecycleAssumption
  <2> HIDE DEF n, new, a
  <2>7. n.at \notin Chosen
    BY <2>3 DEF Chosen
  <2> QED
    BY <1>1, <1>2, <2>1, <2>2, <2>3, <2>4, <2>5, <2>6, <2>7, RowWriteStep
<1>7. ASSUME NEW st \in {"dismissed", "active", "suspended"},
             UpdateRow(a, [row[a] EXCEPT !.status = st]), Return(c),
             st = "active" => /\ overlapped \/ Cardinality(Active) < MaxActive,
             suspends = 0 => st # "suspended"
      PROVE  LifecycleInv'
  <2> DEFINE new == [row[a] EXCEPT !.status = st]
  <2>1. new \in AgentRows /\ new.status = st /\ new.completed = row[a].completed
    BY <1>4 DEF AgentStatuses
  <2>2. caller' = [caller EXCEPT ![c] = Idle] /\ caller'[c] = Idle
    BY <1>3, <1>7 DEF Return
  <2>3. UpdateRow(a, new)
    BY <1>7
  <2> HIDE DEF new, a
  <2>4. MayWriteRow(a, Idle, new) /\ ResultCounted(a, new)
    BY <1>2, <1>5, <1>7, <2>1 DEF MayWriteRow, ResultCounted
  <2>5. ~overlapped' => StillSo(c)'
    BY <1>5, <2>2 DEF StillSo
  <2>6. Idle.at \notin Chosen
    BY <1>5 DEF Chosen
  <2>7. new.status # "none"
    BY <2>1
  <2> QED
    BY <1>1, <1>2, <1>5, <2>1, <2>2, <2>3, <2>4, <2>5, <2>6, <2>7, RowWriteStep
<1>8. CASE WriteDismissed(c)
  BY <1>7, <1>8 DEF WriteDismissed
<1>9. CASE WriteRevived(c)
  <2>1. overlapped \/ Cardinality(Active) < MaxActive
    BY <1>3, <1>9 DEF WriteRevived, StillSo
  <2> QED
    BY <1>7, <1>9, <2>1 DEF WriteRevived
<1>10. CASE WriteSuspended(c)
  <2>1. suspends # 0
    BY <1>10 DEF WriteSuspended, LifecycleInv, NeverSuspended
  <2> QED
    BY <1>7, <1>10, <2>1 DEF WriteSuspended
<1> QED
  BY <1>6, <1>8, <1>9, <1>10

LEMMA RecordResultKeeps ==
  ASSUME LifecycleInv, CallsOverlap, NEW c \in Callers, RecordResult(c)
  PROVE  LifecycleInv'
<1> DEFINE a == caller[c].agent  seen == caller[c].seen
<1>1. /\ a \in used /\ a \in Agents /\ Inside(c) /\ row[a] \in AgentRows
      /\ seen.completed \in Nat /\ seen.completed + 1 \in Nat
      /\ caller \in [Callers -> CallerRecords] /\ results \in [Agents -> Nat]
  <2>1. caller[c] \in CallerRecords /\ caller \in [Callers -> CallerRecords]
    BY DEF LifecycleInv, LifecycleTypes, CallerRecords, CallerPlaces
  <2>2. seen.completed \in Nat
    BY <2>1 DEF CallerRecords, AgentRows
  <2>3. a \in used /\ a \in Agents /\ Inside(c) /\ row[a] \in AgentRows /\ results \in [Agents -> Nat]
    BY DEF LifecycleInv, LifecycleTypes, Chosen, RecordResult, Inside
  <2> QED
    BY <2>1, <2>2, <2>3
<1>2. UNCHANGED <<used, deleted, suspends, faults>>
  BY DEF RecordResult
<1>3. PICK low \in BOOLEAN :
        /\ UpdateRow(a, [row[a] EXCEPT !.completed = seen.completed + 1, !.low = low])
        /\ Goto(c, "dismiss", a) \/ Return(c)
  BY DEF RecordResult, LowAfter
<1>4. results' = [results EXCEPT ![a] = IF Exists(a) THEN @ + 1 ELSE @]
  BY DEF RecordResult
<1>5. ~overlapped => Exists(a) /\ seen.completed = row[a].completed
  BY DEF LifecycleInv, ReadIsStillSo, StillSo, RecordResult
<1>6. faults' \in 0 .. MaxFaults
  BY <1>2 DEF LifecycleInv, LifecycleTypes
<1> DEFINE new == [row[a] EXCEPT !.completed = seen.completed + 1, !.low = low]
<1>7. /\ new \in AgentRows /\ new.status = row[a].status /\ new.completed = seen.completed + 1
  BY <1>1 DEF AgentRows
<1>8. UpdateRow(a, new)
  BY <1>3
<1> HIDE DEF new, a, seen
<1>9. CASE ~Exists(a)
  <2>1. UNCHANGED <<row, recent>>
    BY <1>8, <1>9 DEF UpdateRow
  <2>2. results' = results
    <3>1. results' = [results EXCEPT ![a] = results[a]]
      BY <1>4, <1>9, Zenon
    <3> QED
      BY <1>1, <3>1
  <2>3. CASE Return(c)
    BY <1>2, <1>6, <2>1, <2>2, <2>3, CallerReturns
  <2>4. CASE Goto(c, "dismiss", a)
    BY <1>1, <1>2, <1>6, <2>1, <2>2, <2>4, CallerGoes DEF CallerPlaces, Chosen
  <2> QED
    BY <1>3, <2>3, <2>4
<1>10. CASE Exists(a)
  <2>1. PICK n \in CallerRecords :
          /\ caller' = [caller EXCEPT ![c] = n] /\ caller'[c] = n
          /\ n.at \in {"idle", "dismiss"}
          /\ n.at \in Chosen => n.agent = a
    <3>1. CASE Return(c)
      <4>1. Idle \in CallerRecords /\ Idle.at = "idle" /\ Idle.at \notin Chosen
        BY DEF Idle, CallerRecords, CallerPlaces, Unchosen, Chosen, NoRow, AgentRows, AgentStatuses
      <4> QED
        BY <1>1, <3>1, <4>1 DEF Return
    <3>2. CASE Goto(c, "dismiss", a)
      <4> DEFINE n == [at |-> "dismiss", agent |-> a, seen |-> NoRow]
      <4>1. n \in CallerRecords /\ n.at = "dismiss" /\ n.agent = a
        BY <1>1 DEF CallerRecords, CallerPlaces, Chosen, NoRow, AgentRows, AgentStatuses
      <4>2. caller' = [caller EXCEPT ![c] = n] /\ caller'[c] = n
        BY <1>1, <3>2, <4>1 DEF Goto
      <4> QED
        BY <4>1, <4>2
    <3> QED
      BY <1>3, <3>1, <3>2
  <2>2. new.status # "none"
    BY <1>7, <1>10 DEF Exists
  <2>3. ResultCounted(a, new)
    BY <1>4, <1>5, <1>7 DEF ResultCounted
  <2>4. MayWriteRow(a, n, new)
    <3>1. suspends = 0 => row[a].status # "suspended"
      BY <1>1 DEF LifecycleInv, NeverSuspended
    <3> QED
      BY <1>7, <2>1, <3>1 DEF MayWriteRow
  <2>5. StillSo(c)'
    BY <2>1 DEF StillSo
  <2> QED
    BY <1>1, <1>2, <1>7, <1>8, <2>1, <2>2, <2>3, <2>4, <2>5, RowWriteStep
<1> QED
  BY <1>9, <1>10

\* A new agent: it takes the room that was there when the limit was checked.
LEMMA SaveAgentKeeps ==
  ASSUME LifecycleInv, CallsOverlap, NEW c \in Callers, SaveAgent(c)
  PROVE  LifecycleInv'
<1>1. PICK a \in Agents \ used :
        /\ row' = [row EXCEPT ![a] = NewRow]
        /\ recent' = Append(recent, a)
        /\ used' = used \cup {a}
        /\ Goto(c, "chosen", a)
  BY DEF SaveAgent
<1>2. UNCHANGED <<deleted, results, suspends, faults>> /\ Inside(c)
  BY DEF SaveAgent, Inside
<1>3. NewRow \in AgentRows /\ NewRow.status = "active" /\ NewRow.completed = 0
  BY DEF NewRow, AgentRows, AgentStatuses
<1>4. row[a] = NoRow /\ results[a] = 0 /\ row[a].status = "none"
  BY <1>1 DEF LifecycleInv, UnusedIsNew, NoRow
<1>5. /\ row \in [Agents -> AgentRows] /\ caller \in [Callers -> CallerRecords]
      /\ recent \in Seq(Agents) /\ used \in SUBSET Agents /\ IsFiniteSet(used)
      /\ results \in [Agents -> Nat] /\ suspends \in 0 .. SuspendCalls /\ faults \in 0 .. MaxFaults
  BY DEF LifecycleInv, LifecycleTypes, CallerRecords, CallerPlaces
<1>6. /\ row' \in [Agents -> AgentRows] /\ row'[a] = NewRow
      /\ \A b \in Agents : b # a => row'[b] = row[b]
  BY <1>1, <1>3, <1>5
<1> DEFINE n == [at |-> "chosen", agent |-> a, seen |-> NoRow]
<1>7. n \in CallerRecords /\ n.at = "chosen" /\ n.agent = a
  BY DEF CallerRecords, CallerPlaces, Chosen, NoRow, AgentRows, AgentStatuses
<1>8. caller' = [caller EXCEPT ![c] = n] /\ caller'[c] = n
  BY <1>1, <1>5 DEF Goto
<1> HIDE DEF n
<1>9. StillSo(c)'
  BY <1>7, <1>8 DEF StillSo
<1>10. /\ caller' \in [Callers -> CallerRecords]
       /\ \A d \in Callers : caller'[d].at \in Chosen => caller'[d].agent \in used'
       /\ overlapped' \in BOOLEAN
       /\ OneInside' /\ ReadIsStillSo'
  BY <1>1, <1>2, <1>7, <1>8, <1>9, OneCallerMoves
<1>11. /\ recent' \in Seq(Agents) /\ ToSet(recent') = ToSet(recent) \cup {a}
       /\ IsInjective(recent')
  <2>1. IsInjective(recent) /\ a \notin ToSet(recent)
    BY <1>4 DEF LifecycleInv, RecentIsRows, Exists
  <2> QED
    BY <1>1, <1>5, <2>1, AppendAddsOne
<1>12. used' \in SUBSET Agents /\ IsFiniteSet(used')
  BY <1>1, <1>5, FS_AddElement
<1>13. LifecycleTypes'
  BY <1>2, <1>5, <1>6, <1>10, <1>11, <1>12 DEF LifecycleTypes, CallerRecords, CallerPlaces
<1>14. RecentIsRows'
  <2>1. ToSet(recent) = {b \in Agents : row[b].status # "none"}
    BY DEF LifecycleInv, RecentIsRows, Exists
  <2> QED
    BY <1>3, <1>6, <1>11, <2>1 DEF RecentIsRows, Exists
<1>15. UnusedIsNew' /\ DeletedIsGone'
  <2>1. UnusedIsNew'
    BY <1>1, <1>2, <1>6 DEF LifecycleInv, UnusedIsNew
  <2>2. \A b \in deleted : b \in used /\ row[b] = NoRow /\ b \in Agents /\ b # a
    BY <1>1, <1>5 DEF LifecycleInv, DeletedIsGone
  <2> QED
    BY <1>1, <1>2, <1>6, <2>1, <2>2 DEF DeletedIsGone
<1>16. ~overlapped' => ~overlapped
  BY DEF CallsOverlap
<1>17. LimitUnlessRaced'
  <2> SUFFICES ASSUME ~overlapped PROVE Cardinality(Active') <= MaxActive
    BY <1>16 DEF LimitUnlessRaced
  <2>1. Cardinality(Active) < MaxActive
    BY DEF LifecycleInv, ReadIsStillSo, StillSo, SaveAgent
  <2>2. IsFiniteSet(Active) /\ Cardinality(Active) \in Nat
    BY ActiveIsFinite
  <2>3. Active' = Active \cup {a} /\ a \notin Active
    BY <1>3, <1>4, <1>6 DEF Active
  <2>4. Cardinality(Active') = Cardinality(Active) + 1
    BY <2>2, <2>3, FS_AddElement
  <2> QED
    BY <2>1, <2>2, <2>4, LifecycleAssumption
<1>18. CountUnlessRaced'
  BY <1>2, <1>3, <1>4, <1>6, <1>16 DEF LifecycleInv, CountUnlessRaced, Exists
<1>19. NeverSuspended'
  <2>1. suspends = 0 => \A b \in Agents : row[b].status # "suspended"
    BY DEF LifecycleInv, NeverSuspended
  <2>2. suspends = 0 =>
          \A d \in Callers : caller[d].at \notin {"revive", "write revived", "write suspended"}
    BY DEF LifecycleInv, NeverSuspended
  <2>3. \A d \in Callers : d # c => caller'[d] = caller[d]
    BY <1>5, <1>8
  <2> QED
    BY <1>2, <1>3, <1>6, <1>7, <1>8, <2>1, <2>2, <2>3 DEF NeverSuspended
<1> QED
  BY <1>10, <1>13, <1>14, <1>15, <1>17, <1>18, <1>19 DEF LifecycleInv

LEMMA DeleteRowKeeps ==
  ASSUME LifecycleInv, CallsOverlap, NEW c \in Callers, DeleteRow(c)
  PROVE  LifecycleInv'
<1> DEFINE a == caller[c].agent
<1>1. /\ row' = [row EXCEPT ![a] = NoRow]
      /\ recent' = RemoveFirst(recent, a)
      /\ deleted' = deleted \cup {a}
      /\ Return(c)
      /\ UNCHANGED <<used, results, suspends, faults>> /\ Inside(c)
  BY DEF DeleteRow, Inside
<1>2. /\ row \in [Agents -> AgentRows] /\ caller \in [Callers -> CallerRecords]
      /\ recent \in Seq(Agents) /\ used \in SUBSET Agents /\ IsFiniteSet(used)
      /\ results \in [Agents -> Nat] /\ suspends \in 0 .. SuspendCalls /\ faults \in 0 .. MaxFaults
  BY DEF LifecycleInv, LifecycleTypes, CallerRecords, CallerPlaces
<1>3. a \in used /\ a \in Agents
  BY DEF LifecycleInv, LifecycleTypes, Chosen, DeleteRow
<1> HIDE DEF a
<1>4. NoRow \in AgentRows /\ NoRow.status = "none"
  BY DEF NoRow, AgentRows, AgentStatuses
<1>5. /\ row' \in [Agents -> AgentRows] /\ row'[a] = NoRow
      /\ \A b \in Agents : b # a => row'[b] = row[b]
  BY <1>1, <1>2, <1>3, <1>4
<1>6. Idle \in CallerRecords /\ Idle.at = "idle" /\ Idle.at \notin Chosen
  BY <1>4 DEF Idle, CallerRecords, CallerPlaces, Unchosen, Chosen
<1>7. caller' = [caller EXCEPT ![c] = Idle] /\ caller'[c] = Idle
  BY <1>1, <1>2 DEF Return
<1>8. StillSo(c)'
  BY <1>6, <1>7 DEF StillSo
<1>9. /\ caller' \in [Callers -> CallerRecords]
      /\ \A d \in Callers : caller'[d].at \in Chosen => caller'[d].agent \in used'
      /\ overlapped' \in BOOLEAN
      /\ OneInside' /\ ReadIsStillSo'
  BY <1>1, <1>6, <1>7, <1>8, OneCallerMoves
<1>10. recent' \in Seq(Agents) /\ ToSet(recent') = ToSet(recent) \ {a} /\ IsInjective(recent')
  <2>1. IsInjective(recent)
    BY DEF LifecycleInv, RecentIsRows
  <2> QED
    BY <1>1, <1>2, <2>1, RemoveFirstTakesOut
<1>11. LifecycleTypes'
  BY <1>1, <1>2, <1>5, <1>9, <1>10 DEF LifecycleTypes, CallerRecords, CallerPlaces
<1>12. RecentIsRows'
  <2>1. ToSet(recent) = {b \in Agents : row[b].status # "none"}
    BY DEF LifecycleInv, RecentIsRows, Exists
  <2> QED
    BY <1>4, <1>5, <1>10, <2>1 DEF RecentIsRows, Exists
<1>13. UnusedIsNew' /\ DeletedIsGone'
  <2>1. UnusedIsNew'
    BY <1>1, <1>3, <1>5 DEF LifecycleInv, UnusedIsNew
  <2>2. \A b \in deleted : b \in used /\ row[b] = NoRow /\ b \in Agents
    BY <1>2 DEF LifecycleInv, DeletedIsGone
  <2> QED
    BY <1>1, <1>3, <1>5, <2>1, <2>2 DEF DeletedIsGone
<1>14. ~overlapped' => ~overlapped
  BY DEF CallsOverlap
<1>15. LimitUnlessRaced'
  <2> SUFFICES ASSUME ~overlapped PROVE Cardinality(Active') <= MaxActive
    BY <1>14 DEF LimitUnlessRaced
  <2>1. IsFiniteSet(Active) /\ Cardinality(Active) \in Nat /\ Cardinality(Active) <= MaxActive
    BY ActiveIsFinite DEF LifecycleInv, LimitUnlessRaced
  <2>2. Active' = Active \ {a}
    BY <1>4, <1>5 DEF Active
  <2>3. Cardinality(Active') \in {Cardinality(Active), Cardinality(Active) - 1}
    BY <2>1, <2>2, FS_RemoveElement
  <2> QED
    BY <2>1, <2>3, LifecycleAssumption
<1>16. CountUnlessRaced'
  BY <1>1, <1>4, <1>5, <1>14 DEF LifecycleInv, CountUnlessRaced, Exists
<1>17. NeverSuspended'
  <2>1. suspends = 0 => \A b \in Agents : row[b].status # "suspended"
    BY DEF LifecycleInv, NeverSuspended
  <2>2. suspends = 0 =>
          \A d \in Callers : caller[d].at \notin {"revive", "write revived", "write suspended"}
    BY DEF LifecycleInv, NeverSuspended
  <2>3. \A d \in Callers : d # c => caller'[d] = caller[d]
    BY <1>2, <1>7
  <2> QED
    BY <1>1, <1>4, <1>5, <1>6, <1>7, <2>1, <2>2, <2>3 DEF NeverSuspended
<1> QED
  BY <1>9, <1>11, <1>12, <1>13, <1>15, <1>16, <1>17 DEF LifecycleInv

-----------------------------------------------------------------------------
LEMMA LifecycleStepPreserves == LifecycleInv /\ [LifecycleNext]_lifecycleVars => LifecycleInv'
<1> SUFFICES ASSUME LifecycleInv, [LifecycleNext]_lifecycleVars PROVE LifecycleInv'
  OBVIOUS
<1>1. CASE UNCHANGED lifecycleVars
  <2>1. Active' = Active /\ \A c \in Callers : Inside(c)' = Inside(c) /\ StillSo(c)' = StillSo(c)
    BY <1>1 DEF lifecycleVars, Active, Inside, StillSo, Exists
  <2> QED
    BY <1>1, <2>1
    DEF lifecycleVars, LifecycleInv, LifecycleTypes, RecentIsRows, UnusedIsNew, DeletedIsGone, OneInside,
        ReadIsStillSo, NeverSuspended, LimitUnlessRaced, CountUnlessRaced, Exists
<1>2. ASSUME NEW c \in Callers, Delegate(c) \/ Manage(c) \/ Suspend(c) \/ StoreError(c), CallsOverlap
      PROVE  LifecycleInv'
  BY <1>2, ReadsKeep, EndTaskKeeps, ReadSuspendedKeeps, StatusWriteKeeps, RecordResultKeeps,
     SaveAgentKeeps, DeleteRowKeeps
  DEF Delegate, Manage, Suspend
<1> QED
  BY <1>1, <1>2 DEF LifecycleNext, CallsOverlap

LEMMA LifecycleInvariance == LifecycleSpec => []LifecycleInv
<1> QED
  BY LifecycleInitEstablishes, LifecycleStepPreserves, PTL DEF LifecycleSpec

\* Cap and counter are exact as long as no two calls overlap in the manager:
\* Create makes room before it saves, Revive is refused at the limit, and an
\* error of the store leaves neither one agent too many nor a miscount.
THEOREM LimitAndCountExact == LifecycleSpec => []ExactUnlessRaced
<1>1. LifecycleInv => ExactUnlessRaced
  <2> SUFFICES ASSUME LifecycleInv PROVE LifecycleTypeOK
    BY DEF ExactUnlessRaced, LifecycleInv
  <2>1. \A c \in Callers : /\ caller[c].agent \in Agents \cup {"none"}
                           /\ caller[c].seen.completed \in Nat
    BY DEF LifecycleInv, LifecycleTypes, AgentRows
  <2>2. suspends <= SuspendCalls /\ faults <= MaxFaults
    BY LifecycleAssumption DEF LifecycleInv, LifecycleTypes
  <2> QED
    BY <2>1, <2>2
    DEF LifecycleTypeOK, LifecycleInv, LifecycleTypes, RecentIsRows, DeletedIsGone, AgentRows, AgentStatuses
<1> QED
  BY <1>1, LifecycleInvariance, PTL

\* What is dismissed stays dismissed or is deleted, and what is deleted has no
\* row again, whatever the other calls have read before.
LEMMA DismissalStep ==
  ASSUME LifecycleInv, [LifecycleNext]_lifecycleVars
  PROVE  /\ \A a \in deleted : row'[a].status = "none"
         /\ (suspends = 0 \/ ~ overlapped) => \A a \in Agents :
              row[a].status = "dismissed" => row'[a].status \in {"dismissed", "none"}
<1>1. deleted \subseteq deleted'
  BY DEF LifecycleNext, Delegate, Manage, Suspend, lifecycleVars, lifecycleGhosts, FindReusable,
         UseExisting, BeginCreate, CheckLimit, ReadVictim, WriteVictim, SaveAgent, StartTask,
         EndTask, RecordResult, BeginDismiss, ReadDismissed, WriteDismissed, ReadKilled,
         DeleteRow, ReadRevived, CheckRevive, WriteRevived, ReadSuspended, WriteSuspended,
         StoreError
<1>2. \A a \in deleted : row'[a].status = "none"
  <2>1. DeletedIsGone'
    BY LifecycleStepPreserves DEF LifecycleInv
  <2> QED
    BY <1>1, <2>1 DEF DeletedIsGone, NoRow
<1>3. ASSUME suspends = 0 \/ ~ overlapped, NEW a \in Agents, row[a].status = "dismissed"
      PROVE  row'[a].status \in {"dismissed", "none"}
  <2>0. row \in [Agents -> AgentRows] /\ a \in used
    <3>1. \A b \in Agents \ used : row[b].status = "none"
      BY DEF LifecycleInv, UnusedIsNew, NoRow
    <3> QED
      BY <1>3, <3>1 DEF LifecycleInv, LifecycleTypes
  <2>1. CASE row' = row
    BY <1>3, <2>1
  <2>2. ASSUME NEW c \in Callers,
               \/ WriteVictim(c) \/ WriteDismissed(c) \/ WriteRevived(c) \/ WriteSuspended(c)
        PROVE  row'[a].status \in {"dismissed", "none"}
    <3> DEFINE b == caller[c].agent
    <3>1. PICK st \in AgentStatuses :
            /\ UpdateRow(b, [row[b] EXCEPT !.status = st])
            /\ st = "dismissed" \/ WriteRevived(c) \/ WriteSuspended(c)
      BY <2>2 DEF WriteVictim, WriteDismissed, WriteRevived, WriteSuspended, AgentStatuses
    <3>2. CASE st = "dismissed"
      BY <1>3, <2>0, <3>1, <3>2 DEF UpdateRow, AgentRows
    <3>3. CASE WriteRevived(c) \/ WriteSuspended(c)
      <4>1. row[b].status \in {"active", "suspended"}
        BY <1>3, <3>3
        DEF LifecycleInv, NeverSuspended, ReadIsStillSo, StillSo, WriteRevived, WriteSuspended
      <4>2. a # b
        BY <1>3, <4>1
      <4> QED
        BY <1>3, <2>0, <3>1, <4>2 DEF UpdateRow
    <3> QED
      BY <3>1, <3>2, <3>3
  <2>3. ASSUME NEW c \in Callers, RecordResult(c) PROVE row'[a].status \in {"dismissed", "none"}
    <3> DEFINE b == caller[c].agent
    <3>1. PICK low \in BOOLEAN :
            UpdateRow(b, [row[b] EXCEPT !.completed = caller[c].seen.completed + 1, !.low = low])
      BY <2>3 DEF RecordResult, LowAfter
    <3> DEFINE new == [row[b] EXCEPT !.completed = caller[c].seen.completed + 1, !.low = low]
    <3>2. b \in Agents => new.status = row[b].status
      BY <2>0 DEF AgentRows
    <3>3. UpdateRow(b, new)
      BY <3>1
    <3> HIDE DEF b, new
    <3> QED
      BY <1>3, <2>0, <3>2, <3>3 DEF UpdateRow
  <2>4. ASSUME NEW c \in Callers, SaveAgent(c) PROVE row'[a].status \in {"dismissed", "none"}
    BY <1>3, <2>0, <2>4 DEF SaveAgent
  <2>5. ASSUME NEW c \in Callers, DeleteRow(c) PROVE row'[a].status \in {"dismissed", "none"}
    BY <1>3, <2>0, <2>5 DEF DeleteRow, NoRow
  <2>6. \/ row' = row
        \/ \E c \in Callers :
             \/ WriteVictim(c) \/ WriteDismissed(c) \/ WriteRevived(c) \/ WriteSuspended(c)
             \/ RecordResult(c) \/ SaveAgent(c) \/ DeleteRow(c)
    BY DEF LifecycleNext, Delegate, Manage, Suspend, lifecycleVars, FindReusable, UseExisting,
           BeginCreate, CheckLimit, ReadVictim, StartTask, EndTask, BeginDismiss, ReadDismissed,
           ReadKilled, ReadRevived, CheckRevive, ReadSuspended, StoreError
  <2> QED
    BY <2>1, <2>2, <2>3, <2>4, <2>5, <2>6
<1> QED
  BY <1>2, <1>3

\* "Dismiss dismisses a sub-agent (cannot be revived)" (lifecycle.go, line 146)
\* and a kill removes the row for good, for every interleaving of the calls the
\* program makes; with Suspend as long as no two calls overlap.
THEOREM StaysDismissed == LifecycleSpec => DismissedIsFinal
<1>1. LifecycleInv /\ [LifecycleNext]_lifecycleVars =>
        [/\ \A a \in deleted : row'[a].status = "none"
         /\ (suspends = 0 \/ ~ overlapped) => \A a \in Agents :
              row[a].status = "dismissed" => row'[a].status \in {"dismissed", "none"}]_lifecycleVars
  BY DismissalStep
<1> QED
  BY <1>1, LifecycleInitEstablishes, LifecycleStepPreserves, PTL DEF LifecycleSpec, DismissedIsFinal

=============================================================================
