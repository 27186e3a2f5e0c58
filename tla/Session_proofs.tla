----------------------------- MODULE Session_proofs -----------------------------
(***************************************************************************)
(* Proofs about one session, for any bounds, in four parts:                *)
(*  - Pick, by which both modules below pass over elements of a sequence;  *)
(*  - the files (JSONLStore): torn appends harm few messages, and the      *)
(*    files implement the store;                                           *)
(*  - the turns (SessionTurns): the messages of a turn stay in order and   *)
(*    once each, nothing that was said is forgotten but for the named      *)
(*    reasons, a user gets one reply;                                      *)
(*  - the prompts: sanitizeHistoryForProvider answers every call of any    *)
(*    history, and what a turn sends to the model is sound.                *)
(***************************************************************************)
EXTENDS SessionTurns, JSONLStore, FiniteSetTheorems, SequenceTheorems, WellFoundedInduction, TLAPS

-----------------------------------------------------------------------------
(***************************************************************************)
(* Induction, and the elements of a sequence at some positions             *)
(***************************************************************************)

\* Induction over the natural numbers for a set instead of a predicate.
LEMMA AllNumbers ==
  ASSUME NEW T, 0 \in T, \A n \in Nat : n \in T => n + 1 \in T
  PROVE  Nat \subseteq T
<1> SUFFICES ASSUME Nat \ T # {} PROVE FALSE
  OBVIOUS
<1>1. PICK m \in Nat \ T : \A i \in Nat \ T : ~(<<i, m>> \in OpToRel(<, Nat))
  BY NatLessThanWellFounded, WFMin
<1>2. m \in Nat /\ m \notin T /\ m # 0
  OBVIOUS
<1>3. m - 1 \in Nat /\ m - 1 < m /\ (m - 1) + 1 = m
  BY <1>2
<1>4. m - 1 \notin T
  <2>1. m - 1 \in T => (m - 1) + 1 \in T
    BY <1>3
  <2> QED
    BY <1>2, <1>3, <2>1, Zenon
<1>5. <<m - 1, m>> \in Nat \X Nat
  BY <1>2, <1>3
<1>6. <<m - 1, m>> \in OpToRel(<, Nat)
  BY <1>3, <1>5, Zenon DEF OpToRel
<1> QED
  BY <1>1, <1>3, <1>4, <1>6, Zenon

\* Induction over sequences, in the same form.
LEMMA AllSequences ==
  ASSUME NEW S, NEW T, <<>> \in T, \A s \in Seq(S), x \in S : s \in T => Append(s, x) \in T
  PROVE  Seq(S) \subseteq T
<1> DEFINE N == {n \in Nat : \A s \in Seq(S) : Len(s) = n => s \in T}
<1>1. 0 \in N
  BY EmptySeq
<1>2. ASSUME NEW n \in Nat, n \in N PROVE n + 1 \in N
  <2> SUFFICES ASSUME NEW s \in Seq(S), Len(s) = n + 1 PROVE s \in T
    OBVIOUS
  <2> DEFINE f == SubSeq(s, 1, n)
  <2>1. f \in Seq(S) /\ Len(f) = n /\ s[n + 1] \in S /\ s = Append(f, s[n + 1])
    BY SMTT(30)
  <2>2. f \in T
    BY <1>2, <2>1
  <2> QED
    BY <2>1, <2>2
<1>3. Nat \subseteq N
  BY <1>1, <1>2, AllNumbers
<1> QED
  BY <1>3, LenProperties

\* A loop over 1 .. n that computes a value of V from the one before exists.
LEMMA LoopExists ==
  ASSUME NEW V, NEW start \in V, NEW len \in Nat, NEW step \in [1 .. len -> [V -> V]]
  PROVE  \E f \in [0 .. len -> V] : f[0] = start /\ \A n \in 1 .. len : f[n] = step[n][f[n - 1]]
<1> DEFINE Loop(k) == {f \in [0 .. k -> V] : f[0] = start /\ \A n \in 1 .. k : f[n] = step[n][f[n - 1]]}
           N == {k \in Nat : k <= len => Loop(k) # {}}
<1>1. 0 \in N
  <2>1. [n \in 0 .. 0 |-> start] \in Loop(0)
    OBVIOUS
  <2> QED
    BY <2>1
<1>2. ASSUME NEW k \in Nat, k \in N PROVE k + 1 \in N
  <2> SUFFICES ASSUME k + 1 <= len PROVE Loop(k + 1) # {}
    OBVIOUS
  <2>1. PICK f \in Loop(k) : TRUE
    BY <1>2
  <2> DEFINE g == [n \in 0 .. k + 1 |-> IF n = k + 1 THEN step[n][f[k]] ELSE f[n]]
  <2>2. step[k + 1] \in [V -> V] /\ f[k] \in V
    BY <2>1
  <2>3. g \in [0 .. k + 1 -> V]
    BY <2>1, <2>2
  <2>4. g[0] = start
    BY <2>1
  <2>5. ASSUME NEW n \in 1 .. k + 1 PROVE g[n] = step[n][g[n - 1]]
    BY <2>1
  <2>6. g \in Loop(k + 1)
    BY <2>3, <2>4, <2>5
  <2> QED
    BY <2>6
<1>3. len \in N
  BY <1>1, <1>2, AllNumbers
<1> QED
  BY <1>3

\* What Pick computes, step by step.
PickSteps(s, I, p) ==
  /\ DOMAIN p = 0 .. Len(s) /\ p[0] = <<>>
  /\ \A n \in 1 .. Len(s) : p[n] = IF n \in I THEN Append(p[n - 1], s[n]) ELSE p[n - 1]

LEMMA PickUnfolds ==
  ASSUME NEW S, NEW s \in Seq(S), NEW I
  PROVE  \E p \in [0 .. Len(s) -> Seq(S)] : PickSteps(s, I, p) /\ Pick(s, I) = p[Len(s)]
<1> DEFINE Def(p) == [n \in 0 .. Len(s) |->
                        IF n = 0 THEN <<>>
                        ELSE IF n \in I THEN Append(p[n - 1], s[n]) ELSE p[n - 1]]
           step == [n \in 1 .. Len(s) |-> [q \in Seq(S) |-> IF n \in I THEN Append(q, s[n]) ELSE q]]
<1>1. step \in [1 .. Len(s) -> [Seq(S) -> Seq(S)]]
  OBVIOUS
<1>2. \A n \in 1 .. Len(s), q \in Seq(S) : step[n][q] = IF n \in I THEN Append(q, s[n]) ELSE q
  OBVIOUS
<1> HIDE DEF step
<1>3. <<>> \in Seq(S) /\ Len(s) \in Nat
  OBVIOUS
<1>4. PICK f \in [0 .. Len(s) -> Seq(S)] :
        f[0] = <<>> /\ \A n \in 1 .. Len(s) : f[n] = step[n][f[n - 1]]
  <2> DEFINE V == Seq(S)  start == <<>>  len == Len(s)
  <2>1. start \in V /\ len \in Nat /\ step \in [1 .. len -> [V -> V]]
    BY <1>1, <1>3
  <2> HIDE DEF V, start, len
  <2>2. \E f \in [0 .. len -> V] : f[0] = start /\ \A n \in 1 .. len : f[n] = step[n][f[n - 1]]
    BY <2>1, LoopExists
  <2> QED
    BY <2>2 DEF V, start, len
<1>5. \A n \in 1 .. Len(s) : f[n - 1] \in Seq(S)
  <2>1. \A n \in 1 .. Len(s) : n - 1 \in 0 .. Len(s)
    BY <1>3
  <2> QED
    BY <1>4, <2>1, Zenon
<1>6. \A n \in 1 .. Len(s) : f[n] = IF n \in I THEN Append(f[n - 1], s[n]) ELSE f[n - 1]
  BY <1>2, <1>4, <1>5, Zenon
<1>7. f = Def(f)
  <2>1. ASSUME NEW n \in 0 .. Len(s) PROVE f[n] = Def(f)[n]
    <3>1. n = 0 \/ n \in 1 .. Len(s)
      BY <1>3
    <3> QED
      BY <1>4, <1>6, <3>1, Zenon
  <2>2. f = [n \in 0 .. Len(s) |-> f[n]]
    BY <1>4
  <2> HIDE DEF Def
  <2>3. Def(f) = [n \in 0 .. Len(s) |-> Def(f)[n]]
    BY DEF Def
  <2> QED
    BY <2>1, <2>2, <2>3, Zenon
<1> DEFINE p == CHOOSE g : g = Def(g)
<1>8. p = Def(p)
  BY <1>7, Zenon
<1>9. Pick(s, I) = p[Len(s)]
  BY Zenon DEF Pick
<1> HIDE DEF p
<1>10. PickSteps(s, I, p)
  <2>1. DOMAIN p = 0 .. Len(s)
    BY <1>8
  <2>2. p[0] = <<>>
    <3>1. 0 \in 0 .. Len(s)
      BY <1>3
    <3> QED
      BY <1>8, <3>1, Zenon
  <2>3. ASSUME NEW n \in 1 .. Len(s)
        PROVE  p[n] = IF n \in I THEN Append(p[n - 1], s[n]) ELSE p[n - 1]
    <3>1. n \in 0 .. Len(s) /\ n # 0
      BY <1>3
    <3>2. p[n] = Def(p)[n]
      BY <1>8, Zenon
    <3> QED
      BY <3>1, <3>2, Zenon
  <2> QED
    BY <2>1, <2>2, <2>3 DEF PickSteps
<1>11. p \in [0 .. Len(s) -> Seq(S)]
  <2> DEFINE N == {n \in Nat : n <= Len(s) => p[n] \in Seq(S)}
  <2>1. 0 \in N
    <3>1. p[0] = <<>>
      BY <1>10 DEF PickSteps
    <3> QED
      BY <1>3, <3>1
  <2>2. ASSUME NEW n \in Nat, n \in N PROVE n + 1 \in N
    <3> SUFFICES ASSUME n + 1 <= Len(s) PROVE p[n + 1] \in Seq(S)
      OBVIOUS
    <3>1. n + 1 \in 1 .. Len(s) /\ (n + 1) - 1 = n /\ s[n + 1] \in S
      BY <1>3
    <3>2. p[n + 1] = IF n + 1 \in I THEN Append(p[n], s[n + 1]) ELSE p[n]
      BY <1>10, <3>1 DEF PickSteps
    <3>3. p[n] \in Seq(S)
      BY <2>2, <3>1
    <3> QED
      BY <3>1, <3>2, <3>3
  <2>3. Nat \subseteq N
    BY <2>1, <2>2, AllNumbers
  <2>4. \A n \in 0 .. Len(s) : p[n] \in Seq(S)
    BY <1>3, <2>3
  <2>5. p = [n \in 0 .. Len(s) |-> p[n]]
    BY <1>8
  <2> QED
    BY <2>4, <2>5
<1> QED
  BY <1>9, <1>10, <1>11

\* Two loops that decide alike up to k have kept the same by then.
LEMMA StepsAgree ==
  ASSUME NEW S, NEW s \in Seq(S), NEW t \in Seq(S), NEW I, NEW J, NEW p, NEW q,
         PickSteps(s, I, p), PickSteps(t, J, q),
         NEW k \in Nat, k <= Len(s), k <= Len(t),
         \A n \in 1 .. k : s[n] = t[n] /\ (n \in I <=> n \in J)
  PROVE  p[k] = q[k]
<1> DEFINE N == {n \in Nat : n <= k => p[n] = q[n]}
<1>1. 0 \in N
  <2>1. p[0] = <<>> /\ q[0] = <<>>
    BY DEF PickSteps
  <2> QED
    BY <2>1
<1>2. ASSUME NEW n \in Nat, n \in N PROVE n + 1 \in N
  <2> SUFFICES ASSUME n + 1 <= k PROVE p[n + 1] = q[n + 1]
    OBVIOUS
  <2>1. n + 1 \in 1 .. k /\ n + 1 \in 1 .. Len(s) /\ n + 1 \in 1 .. Len(t) /\ (n + 1) - 1 = n
    OBVIOUS
  <2>2. p[n + 1] = IF n + 1 \in I THEN Append(p[n], s[n + 1]) ELSE p[n]
    BY <2>1 DEF PickSteps
  <2>3. q[n + 1] = IF n + 1 \in J THEN Append(q[n], t[n + 1]) ELSE q[n]
    BY <2>1 DEF PickSteps
  <2>4. p[n] = q[n]
    BY <1>2, <2>1
  <2>5. s[n + 1] = t[n + 1] /\ (n + 1 \in I <=> n + 1 \in J)
    BY <2>1
  <2> QED
    BY <2>2, <2>3, <2>4, <2>5, Zenon
<1>3. Nat \subseteq N
  BY <1>1, <1>2, AllNumbers
<1> QED
  BY <1>3

LEMMA PickType == ASSUME NEW S, NEW s \in Seq(S), NEW I PROVE Pick(s, I) \in Seq(S)
<1>1. PICK p \in [0 .. Len(s) -> Seq(S)] : Pick(s, I) = p[Len(s)]
  BY PickUnfolds
<1> QED
  BY <1>1

LEMMA PickSame ==
  ASSUME NEW S, NEW s \in Seq(S), NEW I, NEW J, \A n \in 1 .. Len(s) : n \in I <=> n \in J
  PROVE  Pick(s, I) = Pick(s, J)
<1>1. PICK p : PickSteps(s, I, p) /\ Pick(s, I) = p[Len(s)]
  BY PickUnfolds, Zenon
<1>2. PICK q : PickSteps(s, J, q) /\ Pick(s, J) = q[Len(s)]
  BY PickUnfolds, Zenon
<1>3. Len(s) \in Nat
  OBVIOUS
<1>4. p[Len(s)] = q[Len(s)]
  BY <1>1, <1>2, <1>3, StepsAgree
<1> QED
  BY <1>1, <1>2, <1>4

LEMMA PickEmpty == ASSUME NEW I PROVE Pick(<<>>, I) = <<>>
<1>1. <<>> \in Seq({}) /\ Len(<<>>) = 0
  OBVIOUS
<1>2. PICK p : PickSteps(<<>>, I, p) /\ Pick(<<>>, I) = p[Len(<<>>)]
  BY <1>1, PickUnfolds, Zenon
<1> QED
  BY <1>1, <1>2 DEF PickSteps

LEMMA PickAppend ==
  ASSUME NEW S, NEW s \in Seq(S), NEW x \in S, NEW I
  PROVE  Pick(Append(s, x), I) = IF Len(s) + 1 \in I THEN Append(Pick(s, I), x) ELSE Pick(s, I)
<1> DEFINE t == Append(s, x)
<1>1. /\ t \in Seq(S) /\ Len(s) \in Nat /\ Len(t) = Len(s) + 1 /\ t[Len(s) + 1] = x
      /\ \A n \in 1 .. Len(s) : t[n] = s[n]
  OBVIOUS
<1> HIDE DEF t
<1>2. PICK p : PickSteps(s, I, p) /\ Pick(s, I) = p[Len(s)]
  BY PickUnfolds, Zenon
<1>3. PICK q : PickSteps(t, I, q) /\ Pick(t, I) = q[Len(t)]
  BY <1>1, PickUnfolds, Zenon
<1>4. p[Len(s)] = q[Len(s)]
  <2>1. Len(s) <= Len(s) /\ Len(s) <= Len(t)
    BY <1>1
  <2> QED
    BY <1>1, <1>2, <1>3, <2>1, StepsAgree
<1>5. Len(t) \in 1 .. Len(t) /\ Len(t) - 1 = Len(s)
  BY <1>1
<1>6. q[Len(t)] = IF Len(t) \in I THEN Append(q[Len(t) - 1], t[Len(t)]) ELSE q[Len(t) - 1]
  BY <1>3, <1>5, Zenon DEF PickSteps
<1> QED
  BY <1>1, <1>2, <1>3, <1>4, <1>5, <1>6 DEF t

\* The positions of a sequence in a longer one that it ends.
Behind(k, I) == {n \in Nat : n + k \in I}

LEMMA PickConcat ==
  ASSUME NEW S, NEW s \in Seq(S), NEW t \in Seq(S), NEW I
  PROVE  Pick(s \o t, I) = Pick(s, I) \o Pick(t, Behind(Len(s), I))
<1> DEFINE J == Behind(Len(s), I)
           T == {u \in Seq(S) : Pick(s \o u, I) = Pick(s, I) \o Pick(u, J)}
<1>0. Pick(s, I) \in Seq(S)
  BY PickType
<1>1. <<>> \in T
  <2>1. s \o <<>> = s /\ Pick(s, I) \o <<>> = Pick(s, I)
    BY <1>0
  <2> HIDE DEF J
  <2>2. Pick(<<>>, J) = <<>>
    BY PickEmpty
  <2>3. Pick(s \o <<>>, I) = Pick(s, I) \o Pick(<<>>, J)
    BY <2>1, <2>2
  <2> QED
    BY <2>3
<1>2. ASSUME NEW u \in Seq(S), NEW x \in S, u \in T PROVE Append(u, x) \in T
  <2> DEFINE w == s \o u
  <2>1. /\ w \in Seq(S) /\ Len(w) = Len(s) + Len(u) /\ s \o Append(u, x) = Append(w, x)
        /\ Len(u) + 1 \in Nat /\ Len(s) \in Nat /\ Append(u, x) \in Seq(S)
    OBVIOUS
  <2>2. Len(w) + 1 \in I <=> Len(u) + 1 \in J
    <3>1. Len(w) + 1 = (Len(u) + 1) + Len(s)
      BY <2>1
    <3> QED
      BY <2>1, <3>1 DEF Behind
  <2>3. Pick(u, J) \in Seq(S)
    BY PickType
  <2>4. Pick(w, I) = Pick(s, I) \o Pick(u, J)
    BY <1>2
  <2> HIDE DEF w, J
  <2>5. Pick(Append(w, x), I) = IF Len(w) + 1 \in I THEN Append(Pick(w, I), x) ELSE Pick(w, I)
    BY <2>1, PickAppend
  <2>6. Pick(Append(u, x), J) = IF Len(u) + 1 \in J THEN Append(Pick(u, J), x) ELSE Pick(u, J)
    BY PickAppend
  <2>7. Pick(s, I) \o Append(Pick(u, J), x) = Append(Pick(s, I) \o Pick(u, J), x)
    BY <1>0, <2>3
  <2>8. Pick(s \o Append(u, x), I) = Pick(s, I) \o Pick(Append(u, x), J)
    BY <2>1, <2>2, <2>4, <2>5, <2>6, <2>7, Zenon
  <2> QED
    BY <2>1, <2>8
<1> HIDE DEF T
<1>3. Seq(S) \subseteq T
  BY <1>1, <1>2, AllSequences
<1> QED
  BY <1>3 DEF T

\* Everything is picked, or nothing.
LEMMA PickAll ==
  ASSUME NEW S, NEW s \in Seq(S), NEW I, 1 .. Len(s) \subseteq I
  PROVE  Pick(s, I) = s
<1> DEFINE T == {u \in Seq(S) : Pick(u, 1 .. Len(u)) = u}
<1>1. <<>> \in T
  BY PickEmpty
<1>2. ASSUME NEW u \in Seq(S), NEW x \in S, u \in T PROVE Append(u, x) \in T
  <2> DEFINE w == Append(u, x)  W == 1 .. Len(w)
  <2>1. w \in Seq(S) /\ Len(u) + 1 \in W /\ \A n \in 1 .. Len(u) : n \in W
    OBVIOUS
  <2>2. Pick(u, W) = Pick(u, 1 .. Len(u))
    BY <2>1, PickSame
  <2>3. Pick(w, W) = Append(Pick(u, W), x)
    BY <2>1, PickAppend
  <2> QED
    BY <1>2, <2>1, <2>2, <2>3
<1> HIDE DEF T
<1>3. Seq(S) \subseteq T
  BY <1>1, <1>2, AllSequences
<1>4. Pick(s, I) = Pick(s, 1 .. Len(s))
  BY PickSame
<1> QED
  BY <1>3, <1>4 DEF T

LEMMA PickNone ==
  ASSUME NEW S, NEW s \in Seq(S), NEW I, \A n \in 1 .. Len(s) : n \notin I
  PROVE  Pick(s, I) = <<>>
<1> DEFINE T == {u \in Seq(S) : Pick(u, {}) = <<>>}
<1>1. <<>> \in T
  BY PickEmpty
<1>2. ASSUME NEW u \in Seq(S), NEW x \in S, u \in T PROVE Append(u, x) \in T
  <2>1. Pick(Append(u, x), {}) = Pick(u, {})
    BY PickAppend
  <2> QED
    BY <1>2, <2>1
<1> HIDE DEF T
<1>3. Seq(S) \subseteq T
  BY <1>1, <1>2, AllSequences
<1>4. Pick(s, I) = Pick(s, {})
  BY PickSame
<1> QED
  BY <1>3, <1>4 DEF T

\* What is picked, and how much.
LEMMA PickElements ==
  ASSUME NEW S, NEW s \in Seq(S), NEW I
  PROVE  /\ ToSet(Pick(s, I)) = {s[n] : n \in I \cap (1 .. Len(s))}
         /\ IsFiniteSet(I \cap (1 .. Len(s)))
         /\ Len(Pick(s, I)) = Cardinality(I \cap (1 .. Len(s)))
<1> DEFINE At(u) == I \cap (1 .. Len(u))
           T == {u \in Seq(S) : /\ ToSet(Pick(u, I)) = {u[n] : n \in At(u)}
                                /\ IsFiniteSet(At(u))
                                /\ Len(Pick(u, I)) = Cardinality(At(u))}
<1>1. <<>> \in T
  <2>1. Pick(<<>>, I) = <<>>
    BY PickEmpty
  <2>2. At(<<>>) = {}
    OBVIOUS
  <2>3. IsFiniteSet({}) /\ Cardinality({}) = 0
    BY FS_EmptySet
  <2>4. ToSet(<<>>) = {}
    BY DEF ToSet
  <2> QED
    BY <2>1, <2>2, <2>3, <2>4
<1>2. ASSUME NEW u \in Seq(S), NEW x \in S, u \in T PROVE Append(u, x) \in T
  <2> DEFINE w == Append(u, x)  q == Pick(u, I)
  <2>1. /\ w \in Seq(S) /\ Len(w) = Len(u) + 1 /\ w[Len(w)] = x /\ Len(u) \in Nat
        /\ \A n \in 1 .. Len(u) : w[n] = u[n]
    OBVIOUS
  <2>2. q \in Seq(S)
    BY PickType
  <2>3. Pick(w, I) = IF Len(u) + 1 \in I THEN Append(q, x) ELSE q
    BY PickAppend
  <2>4. ToSet(q) = {u[n] : n \in At(u)} /\ IsFiniteSet(At(u)) /\ Len(q) = Cardinality(At(u))
    BY <1>2
  <2> HIDE DEF w, q
  <2>5. {w[n] : n \in At(u)} = {u[n] : n \in At(u)}
    BY <2>1
  <2>6. CASE Len(u) + 1 \notin I
    <3>1. At(w) = At(u)
      BY <2>1, <2>6
    <3> HIDE DEF At
    <3>2. ToSet(Pick(w, I)) = {w[n] : n \in At(w)}
      BY <2>3, <2>4, <2>5, <2>6, <3>1, Zenon
    <3>3. IsFiniteSet(At(w)) /\ Len(Pick(w, I)) = Cardinality(At(w))
      BY <2>3, <2>4, <2>6, <3>1, Zenon
    <3> QED
      BY <2>1, <3>2, <3>3 DEF w, At
  <2>7. CASE Len(u) + 1 \in I
    <3>1. At(w) = At(u) \cup {Len(w)} /\ Len(w) \notin At(u)
      BY <2>1, <2>7
    <3>2. IsFiniteSet(At(w)) /\ Cardinality(At(w)) = Cardinality(At(u)) + 1
      BY <2>4, <3>1, FS_AddElement
    <3>3. Len(Append(q, x)) = Len(q) + 1 /\ ToSet(Append(q, x)) = ToSet(q) \cup {x}
      <4>1. DOMAIN Append(q, x) = (1 .. Len(q)) \cup {Len(q) + 1} /\ DOMAIN q = 1 .. Len(q)
        BY <2>2
      <4>2. Append(q, x)[Len(q) + 1] = x /\ \A n \in 1 .. Len(q) : Append(q, x)[n] = q[n]
        BY <2>2
      <4> QED
        BY <2>2, <4>1, <4>2 DEF ToSet
    <3>4. {w[n] : n \in At(w)} = {w[n] : n \in At(u)} \cup {x}
      BY <2>1, <3>1
    <3> HIDE DEF At
    <3>5. ToSet(Pick(w, I)) = {w[n] : n \in At(w)}
      BY <2>3, <2>4, <2>5, <2>7, <3>3, <3>4, Zenon
    <3>6. Len(Pick(w, I)) = Cardinality(At(w))
      BY <2>3, <2>4, <2>7, <3>2, <3>3, Zenon
    <3> QED
      BY <2>1, <3>2, <3>5, <3>6 DEF w, At
  <2> QED
    BY <2>6, <2>7
<1> HIDE DEF T
<1>3. Seq(S) \subseteq T
  BY <1>1, <1>2, AllSequences
<1> QED
  BY <1>3 DEF T

Rising(s) == \A i, j \in 1 .. Len(s) : i < j => s[i] < s[j]

LEMMA PickRising ==
  ASSUME NEW S, S \subseteq Nat, NEW s \in Seq(S), NEW I,
         \A i, j \in I \cap (1 .. Len(s)) : i < j => s[i] < s[j]
  PROVE  Rising(Pick(s, I))
<1> DEFINE Grows(u) == \A i, j \in I \cap (1 .. Len(u)) : i < j => u[i] < u[j]
           T == {u \in Seq(S) : Grows(u) => Rising(Pick(u, I))}
<1>1. <<>> \in T
  <2>1. Rising(Pick(<<>>, I))
    BY PickEmpty DEF Rising
  <2> QED
    BY <2>1
<1>2. ASSUME NEW u \in Seq(S), NEW x \in S, u \in T PROVE Append(u, x) \in T
  <2> DEFINE w == Append(u, x)  q == Pick(u, I)
  <2>1. /\ w \in Seq(S) /\ Len(w) = Len(u) + 1 /\ w[Len(w)] = x /\ Len(u) \in Nat
        /\ \A n \in 1 .. Len(u) : w[n] = u[n]
    OBVIOUS
  <2> HIDE DEF w
  <2> SUFFICES ASSUME Grows(w) PROVE Rising(Pick(w, I))
    BY <2>1 DEF w
  <2>2. q \in Seq(S)
    BY PickType
  <2>3. Pick(w, I) = IF Len(u) + 1 \in I THEN Append(q, x) ELSE q
    BY PickAppend DEF w
  <2>4. Rising(q)
    <3>1. Grows(u)
      BY <2>1
    <3> QED
      BY <1>2, <3>1
  <2>5. CASE Len(u) + 1 \notin I
    BY <2>3, <2>4, <2>5
  <2>6. CASE Len(u) + 1 \in I
    <3>1. \A n \in I \cap (1 .. Len(u)) : u[n] < x
      BY <2>1, <2>6
    <3>2. ToSet(q) = {u[n] : n \in I \cap (1 .. Len(u))}
      BY PickElements
    <3> HIDE DEF q
    <3>3. \A i \in 1 .. Len(q) : q[i] < x
      <4>1. \A i \in 1 .. Len(q) : q[i] \in ToSet(q)
        BY <2>2 DEF ToSet
      <4> QED
        BY <3>1, <3>2, <4>1, Zenon
    <3>4. Rising(Append(q, x))
      <4> DEFINE v == Append(q, x)
      <4>1. /\ Len(v) = Len(q) + 1 /\ v[Len(q) + 1] = x /\ Len(q) \in Nat
            /\ \A i \in 1 .. Len(q) : v[i] = q[i]
        BY <2>2
      <4> HIDE DEF v
      <4>2. ASSUME NEW i \in 1 .. Len(v), NEW j \in 1 .. Len(v), i < j PROVE v[i] < v[j]
        <5>1. i \in 1 .. Len(q)
          BY <4>1, <4>2
        <5>2. CASE j \in 1 .. Len(q)
          BY <2>4, <4>1, <4>2, <5>1, <5>2 DEF Rising
        <5>3. CASE j = Len(q) + 1
          BY <3>3, <4>1, <5>1, <5>3
        <5> QED
          BY <4>1, <5>2, <5>3
      <4> QED
        BY <4>2 DEF Rising, v
    <3> QED
      BY <2>3, <2>6, <3>4
  <2> QED
    BY <2>5, <2>6
<1> HIDE DEF T
<1>3. Seq(S) \subseteq T
  BY <1>1, <1>2, AllSequences
<1> QED
  BY <1>3 DEF T

-----------------------------------------------------------------------------
(***************************************************************************)
(* The files of a session                                                  *)
(***************************************************************************)
USE StoreAssumption

\* The lines of a file that a reader gets who passes over the first `skip`.
ReadAt(file, skip) == {n \in skip + 1 .. Len(file) : file[n] # Bad}

LEMMA ReadType ==
  ASSUME NEW file \in Seq(Lines), NEW skip \in Nat
  PROVE  /\ ReadMessages(file, skip) \in Seq(Messages)
         /\ ToSet(ReadMessages(file, skip)) = {file[n] : n \in ReadAt(file, skip)}
         /\ IsFiniteSet(ReadAt(file, skip))
         /\ Len(ReadMessages(file, skip)) = Cardinality(ReadAt(file, skip))
<1> DEFINE I == ReadAt(file, skip)  r == Pick(file, I)
<1>1. ReadMessages(file, skip) = r
  BY DEF ReadMessages, ReadAt
<1>2. I \cap (1 .. Len(file)) = I
  BY DEF ReadAt
<1>3. r \in Seq(Lines)
  BY PickType
<1>4. ToSet(r) = {file[n] : n \in I} /\ IsFiniteSet(I) /\ Len(r) = Cardinality(I)
  BY <1>2, PickElements
<1>5. \A n \in I : file[n] \in Messages
  BY DEF ReadAt, Lines
<1> HIDE DEF I, r
<1>6. \A i \in 1 .. Len(r) : r[i] \in Messages
  <2>1. \A i \in 1 .. Len(r) : r[i] \in ToSet(r)
    BY <1>3 DEF ToSet
  <2> QED
    BY <1>4, <1>5, <2>1
<1>7. r \in Seq(Messages)
  BY <1>3, <1>6
<1> QED
  BY <1>1, <1>4, <1>7 DEF I

LEMMA ReadAppend ==
  ASSUME NEW file \in Seq(Lines), NEW x \in Lines, NEW skip \in 0 .. Len(file)
  PROVE  ReadMessages(Append(file, x), skip)
           = IF x = Bad THEN ReadMessages(file, skip) ELSE Append(ReadMessages(file, skip), x)
<1> DEFINE w == Append(file, x)
<1>1. /\ Len(w) = Len(file) + 1 /\ w[Len(file) + 1] = x /\ Len(file) \in Nat
      /\ \A n \in 1 .. Len(file) : w[n] = file[n]
  OBVIOUS
<1> HIDE DEF w
<1>2. Pick(w, ReadAt(w, skip))
        = IF Len(file) + 1 \in ReadAt(w, skip) THEN Append(Pick(file, ReadAt(w, skip)), x)
          ELSE Pick(file, ReadAt(w, skip))
  BY PickAppend DEF w
<1>3. Len(file) + 1 \in ReadAt(w, skip) <=> x # Bad
  BY <1>1 DEF ReadAt
<1>4. Pick(file, ReadAt(w, skip)) = Pick(file, ReadAt(file, skip))
  <2>1. \A n \in 1 .. Len(file) : n \in ReadAt(w, skip) <=> n \in ReadAt(file, skip)
    BY <1>1 DEF ReadAt
  <2> QED
    BY <2>1, PickSame
<1>5. \A f : ReadMessages(f, skip) = Pick(f, ReadAt(f, skip))
  BY DEF ReadMessages, ReadAt
<1> QED
  BY <1>2, <1>3, <1>4, <1>5, Zenon DEF w

\* A sequence is what is before a position and what is behind it.
LEMMA TwoParts ==
  ASSUME NEW S, NEW s \in Seq(S), NEW c \in 0 .. Len(s)
  PROVE  /\ SubSeq(s, 1, c) \in Seq(S) /\ SubSeq(s, c + 1, Len(s)) \in Seq(S)
         /\ Len(SubSeq(s, 1, c)) = c /\ Len(SubSeq(s, c + 1, Len(s))) = Len(s) - c
         /\ s = SubSeq(s, 1, c) \o SubSeq(s, c + 1, Len(s))
         /\ \A n \in 1 .. c : s[n] = SubSeq(s, 1, c)[n]
         /\ \A n \in 1 .. Len(s) - c : s[n + c] = SubSeq(s, c + 1, Len(s))[n]
<1> DEFINE f == SubSeq(s, 1, c)  g == SubSeq(s, c + 1, Len(s))
<1>1. c \in Nat /\ Len(s) \in Nat /\ c <= Len(s)
  OBVIOUS
<1>2. f \in Seq(S) /\ Len(f) = c /\ \A n \in 1 .. c : s[n] = f[n]
  BY <1>1
<1>3. g \in Seq(S) /\ Len(g) = Len(s) - c /\ \A n \in 1 .. Len(s) - c : s[n + c] = g[n]
  BY <1>1
<1> HIDE DEF f, g
<1>4. s = f \o g
  <2>1. 1 \in 1 .. Len(s) + 1 /\ c \in 1 - 1 .. Len(s) /\ Len(s) \in c .. Len(s)
    BY <1>1
  <2>2. SubSeq(s, 1, c) \o SubSeq(s, c + 1, Len(s)) = SubSeq(s, 1, Len(s))
    BY <2>1, ConcatAdjacentSubSeq
  <2>3. SubSeq(s, 1, Len(s)) = s
    BY SubSeqFull
  <2> QED
    BY <2>2, <2>3 DEF f, g
<1> QED
  BY <1>2, <1>3, <1>4 DEF f, g

\* A file is read in two parts.
LEMMA ReadSplit ==
  ASSUME NEW file \in Seq(Lines), NEW cut \in 0 .. Len(file), NEW skip \in 0 .. cut
  PROVE  ReadMessages(file, skip)
           = ReadMessages(SubSeq(file, 1, cut), skip) \o ReadMessages(file, cut)
<1> DEFINE s == SubSeq(file, 1, cut)  t == SubSeq(file, cut + 1, Len(file))
<1>1. /\ s \in Seq(Lines) /\ t \in Seq(Lines) /\ Len(s) = cut /\ Len(t) = Len(file) - cut
      /\ file = s \o t /\ cut \in Nat /\ Len(file) \in Nat
      /\ \A n \in 1 .. cut : file[n] = s[n]
      /\ \A n \in 1 .. Len(t) : file[n + cut] = t[n]
  <2>1. /\ s \in Seq(Lines) /\ t \in Seq(Lines) /\ Len(s) = cut /\ Len(t) = Len(file) - cut
        /\ file = s \o t
        /\ \A n \in 1 .. cut : file[n] = s[n]
        /\ \A n \in 1 .. Len(file) - cut : file[n + cut] = t[n]
    <3>1. cut \in Nat /\ Len(file) \in Nat /\ cut <= Len(file)
      OBVIOUS
    <3>2. s \in Seq(Lines) /\ Len(s) = cut /\ \A n \in 1 .. cut : file[n] = s[n]
      BY <3>1
    <3>3. t \in Seq(Lines) /\ Len(t) = Len(file) - cut /\ \A n \in 1 .. Len(file) - cut : file[n + cut] = t[n]
      BY <3>1
    <3>4. file = s \o t
      BY TwoParts, Zenon
    <3> HIDE DEF s, t
    <3> QED
      BY <3>2, <3>3, <3>4, Zenon
  <2> HIDE DEF s, t
  <2> QED
    BY <2>1
<1> HIDE DEF s, t
<1>2. \A f, k : ReadMessages(f, k) = Pick(f, ReadAt(f, k))
  BY DEF ReadMessages, ReadAt
<1> DEFINE I == ReadAt(file, skip)  J == ReadAt(file, cut)
<1>3. Pick(file, I) = Pick(s, I) \o Pick(t, Behind(cut, I))
  BY <1>1, PickConcat
<1>4. Pick(file, J) = Pick(s, J) \o Pick(t, Behind(cut, J))
  BY <1>1, PickConcat
<1>5. Pick(s, I) = Pick(s, ReadAt(s, skip))
  <2>1. \A n \in 1 .. Len(s) : n \in I <=> n \in ReadAt(s, skip)
    BY <1>1 DEF ReadAt
  <2> QED
    BY <1>1, <2>1, PickSame
<1>6. Pick(s, J) = <<>>
  <2>1. \A n \in 1 .. Len(s) : n \notin J
    BY <1>1 DEF ReadAt
  <2> QED
    BY <1>1, <2>1, PickNone
<1>7. Pick(t, Behind(cut, I)) = Pick(t, Behind(cut, J))
  <2>1. \A n \in 1 .. Len(t) : n \in Behind(cut, I) <=> n \in Behind(cut, J)
    BY <1>1 DEF ReadAt, Behind
  <2> QED
    BY <1>1, <2>1, PickSame
<1>8. Pick(t, Behind(cut, J)) \in Seq(Lines)
  BY <1>1, PickType
<1>9. Pick(file, J) = Pick(t, Behind(cut, J))
  BY <1>4, <1>6, <1>8
<1> QED
  BY <1>2, <1>3, <1>5, <1>7, <1>9 DEF s

LEMMA ReadNothing ==
  ASSUME NEW file \in Seq(Lines) PROVE ReadMessages(file, Len(file)) = <<>>
<1>1. \A n \in 1 .. Len(file) : n \notin ReadAt(file, Len(file))
  BY DEF ReadAt
<1>2. Pick(file, ReadAt(file, Len(file))) = <<>>
  BY <1>1, PickNone
<1> QED
  BY <1>2 DEF ReadMessages, ReadAt

LEMMA ReadWhole ==
  ASSUME NEW file \in Seq(Messages) PROVE ReadMessages(file, 0) = file
<1>1. 1 .. Len(file) \subseteq ReadAt(file, 0)
  BY DEF ReadAt, Messages, Bad
<1>2. Pick(file, ReadAt(file, 0)) = file
  BY <1>1, PickAll
<1> QED
  BY <1>2 DEF ReadMessages, ReadAt

Ascending(file) ==
  \A i, j \in 1 .. Len(file) : i < j /\ file[i] # Bad /\ file[j] # Bad => file[i] < file[j]

LEMMA ReadRising ==
  ASSUME NEW file \in Seq(Lines), NEW skip \in Nat, Ascending(file)
  PROVE  Rising(ReadMessages(file, skip))
<1>1. Lines \subseteq Nat
  BY DEF Lines, Messages, Bad
<1>2. \A i, j \in ReadAt(file, skip) \cap (1 .. Len(file)) : i < j => file[i] < file[j]
  BY DEF ReadAt, Ascending
<1>3. Rising(Pick(file, ReadAt(file, skip)))
  BY <1>1, <1>2, PickRising
<1> QED
  BY <1>3 DEF ReadMessages, ReadAt

\* LastOf in terms of positions.
LEMMA LastOfIsPicked ==
  ASSUME NEW S, NEW s \in Seq(S), NEW k \in Nat
  PROVE  LastOf(s, k) = Pick(s, {n \in Nat : Len(s) < n + k})
<1> DEFINE I == {n \in Nat : Len(s) < n + k}
<1>1. CASE k < Len(s)
  <2> DEFINE c == Len(s) - k  f == SubSeq(s, 1, c)  g == SubSeq(s, c + 1, Len(s))
  <2>1. /\ f \in Seq(S) /\ g \in Seq(S) /\ s = f \o g /\ Len(f) = c /\ Len(g) = k /\ c \in Nat
    <3>1. c \in 0 .. Len(s) /\ Len(s) - c = k /\ c \in Nat
      BY <1>1
    <3> QED
      BY <3>1, TwoParts
  <2>2. LastOf(s, k) = g
    BY <1>1 DEF LastOf
  <2>3. (\A n \in 1 .. c : n \notin I) /\ (1 .. k \subseteq Behind(c, I))
    BY <2>1 DEF Behind
  <2> HIDE DEF f, g, c, I
  <2>4. Pick(f \o g, I) = Pick(f, I) \o Pick(g, Behind(c, I))
    BY <2>1, PickConcat
  <2>5. Pick(f, I) = <<>>
    BY <2>1, <2>3, PickNone
  <2>6. Pick(g, Behind(c, I)) = g
    BY <2>1, <2>3, PickAll
  <2>7. Pick(s, I) = g
    BY <2>1, <2>4, <2>5, <2>6
  <2> QED
    BY <2>2, <2>7 DEF I
<1>2. CASE ~(k < Len(s))
  <2>1. LastOf(s, k) = s /\ 1 .. Len(s) \subseteq I
    BY <1>2 DEF LastOf
  <2> HIDE DEF I
  <2>2. Pick(s, I) = s
    BY <2>1, PickAll
  <2> QED
    BY <2>1, <2>2 DEF I
<1> QED
  BY <1>1, <1>2

\* What SetHistory is called with is a part of the history.
LEMMA ShortenedIsPicked ==
  ASSUME NEW S, NEW h \in Seq(S), NEW r \in Shortened(h)
  PROVE  \E I \in SUBSET (1 .. Len(h)) : r = Pick(h, I)
<1> DEFINE At(k) == {n \in Nat : Len(h) < n + k}
<1>0. SUFFICES ASSUME NEW J, r = Pick(h, J) PROVE \E I \in SUBSET (1 .. Len(h)) : r = Pick(h, I)
  <2>1. CASE \E k \in 0 .. Len(h) : r = LastOf(h, k)
    <3>1. PICK k \in 0 .. Len(h) : r = LastOf(h, k)
      BY <2>1
    <3>2. k \in Nat
      OBVIOUS
    <3>3. r = Pick(h, At(k))
      BY <3>1, <3>2, LastOfIsPicked
    <3> QED
      BY <1>0, <3>3
  <2>2. CASE \E k \in 1 .. Len(h) - 1 : r = <<h[1]>> \o LastOf(h, k)
    <3>1. PICK k \in 1 .. Len(h) - 1 : r = <<h[1]>> \o LastOf(h, k)
      BY <2>2
    <3> DEFINE f == <<h[1]>>  g == Tail(h)  I == At(k) \cup {1}
    <3>2. /\ Len(h) \in Nat /\ k \in Nat /\ k < Len(h) /\ f \in Seq(S) /\ g \in Seq(S) /\ Len(f) = 1
          /\ Len(g) = Len(h) - 1
      OBVIOUS
    <3>3. h = f \o g
      BY <3>2
    <3>4. LastOf(h, k) = LastOf(g, k)
      BY <3>2 DEF LastOf
    <3>5. LastOf(g, k) = Pick(g, {n \in Nat : Len(g) < n + k})
      BY <3>2, LastOfIsPicked
    <3>6. 1 .. Len(f) \subseteq I
      BY <3>2
    <3>7. \A n \in 1 .. Len(g) : n \in {m \in Nat : Len(g) < m + k} <=> n \in Behind(1, I)
      BY <3>2 DEF Behind
    <3> HIDE DEF f, g, I
    <3>8. Pick(f, I) = f
      BY <3>2, <3>6, PickAll
    <3>9. Pick(g, {n \in Nat : Len(g) < n + k}) = Pick(g, Behind(1, I))
      BY <3>2, <3>7, PickSame
    <3>10. Pick(f \o g, I) = Pick(f, I) \o Pick(g, Behind(1, I))
      <4>1. Pick(f \o g, I) = Pick(f, I) \o Pick(g, Behind(Len(f), I))
        BY <3>2, PickConcat
      <4> QED
        BY <3>2, <4>1
    <3>11. r = Pick(h, I)
      BY <3>1, <3>3, <3>4, <3>5, <3>8, <3>9, <3>10 DEF f
    <3> QED
      BY <1>0, <3>11
  <2> QED
    BY <2>1, <2>2 DEF Shortened
<1>1. Pick(h, J) = Pick(h, J \cap (1 .. Len(h)))
  <2>1. \A n \in 1 .. Len(h) : n \in J <=> n \in J \cap (1 .. Len(h))
    OBVIOUS
  <2> QED
    BY <2>1, PickSame
<1> QED
  BY <1>0, <1>1

-----------------------------------------------------------------------------
\* What a reader gets who passes over the first `skip` lines, as a set.
Shown(file, skip) == {file[n] : n \in ReadAt(file, skip)}

\* Every line took a message of its own, and messages stand in order.
FileOK ==
  /\ Len(lines) < next
  /\ Ascending(lines) /\ \A i \in 1 .. Len(lines) : lines[i] < next

\* A rewrite has cleared the skip offset and will leave a part of the history.
RewriteOK ==
  op.kind = "rewrite" =>
    /\ meta.skip = 0
    /\ \E I \in SUBSET (1 .. Len(ReadMessages(lines, op.skip))) :
         op.history = Pick(ReadMessages(lines, op.skip), I)

\* An unfinished line holds nothing that was acknowledged.
DueOK ==
  /\ \A m \in due : m < next
  /\ open => lines[Len(lines)] \notin due
  /\ op = AddOp => next > 1 /\ ~open

\* Lines that are damaged, or will be by the next append.
Wounds(file, unfinished) ==
  {i \in 1 .. Len(file) : file[i] = Bad \/ (unfinished /\ i = Len(file))}

WoundsOK == Cardinality(Wounds(lines, open)) <= tears

\* What t torn appends may have cost, what is to be kept, and what of it is left.
Cost(t) == IF t = 0 THEN 0 ELSE t + 1
Owed == due \cup (IF op = AddOp THEN {next - 1} ELSE {})
Left == IF op.kind = "rewrite" THEN ToSet(op.history) ELSE Shown(lines, meta.skip)

\* An unfinished line may cost one message more.
DamageOK == Cardinality(Owed \ Left) + (IF open THEN 1 ELSE 0) <= Cost(tears)

StoreInv == StoreTypeOK /\ FileOK /\ RewriteOK /\ DueOK /\ WoundsOK /\ DamageOK

LEMMA StoreInitEstablishes == StoreInit => StoreInv
<1> SUFFICES ASSUME StoreInit PROVE StoreInv
  OBVIOUS
<1>1. /\ lines = <<>> /\ open = FALSE /\ meta = [skip |-> 0, count |-> 0] /\ op = NoOp /\ next = 1
      /\ tears = 0 /\ cuts = 0 /\ due = {}
  BY DEF StoreInit
<1>2. Len(lines) = 0 /\ op.kind = "none" /\ op # AddOp
  BY <1>1 DEF NoOp, AddOp
<1>3. StoreTypeOK
  <2>1. lines \in Seq(Lines)
    BY <1>1
  <2>2. Len(lines) <= MaxLines /\ next \in 1 .. MaxMessages + 1
    BY <1>1, <1>2 DEF MaxLines
  <2>3. open \in BOOLEAN /\ (open => lines # <<>>)
    BY <1>1
  <2>4. meta \in [skip : 0 .. Len(lines), count : Nat]
    BY <1>1, <1>2
  <2>5. tears \in 0 .. MaxTears /\ cuts \in 0 .. MaxCuts /\ due \subseteq Messages /\ op \in {NoOp, AddOp}
    BY <1>1
  <2> QED
    BY <2>1, <2>2, <2>3, <2>4, <2>5 DEF StoreTypeOK
<1>4. FileOK /\ RewriteOK /\ DueOK
  BY <1>1, <1>2 DEF FileOK, RewriteOK, DueOK, Ascending
<1>5. Wounds(lines, open) = {} /\ Owed \ Left = {}
  BY <1>1, <1>2 DEF Wounds, Owed
<1>6. Cardinality(Wounds(lines, open)) = 0 /\ Cardinality(Owed \ Left) = 0
  BY <1>5, FS_EmptySet, Zenon
<1>7. WoundsOK
  BY <1>1, <1>6 DEF WoundsOK
<1>8. DamageOK
  <2>1. (IF open THEN 1 ELSE 0) = 0 /\ Cost(tears) = 0
    BY <1>1, Zenon DEF Cost
  <2> QED
    BY <1>6, <2>1 DEF DamageOK
<1> QED
  BY <1>3, <1>4, <1>7, <1>8 DEF StoreInv

\* The types of an operation in progress.
LEMMA OpCases ==
  ASSUME StoreTypeOK
  PROVE  /\ op.kind \in {"none", "add", "rewrite"}
         /\ op.kind = "none" <=> op = NoOp
         /\ op.kind = "add" <=> op = AddOp
BY DEF StoreTypeOK, NoOp, AddOp

\* Sets of messages are finite, and a part has no more elements.
LEMMA MessagesInRange == Messages \subseteq 0 .. MaxMessages
BY DEF Messages

LEMMA FewerMessages ==
  ASSUME NEW A, NEW B, A \subseteq B, B \subseteq 0 .. MaxMessages
  PROVE  /\ IsFiniteSet(A) /\ IsFiniteSet(B)
         /\ Cardinality(A) \in Nat /\ Cardinality(B) \in Nat /\ Cardinality(A) <= Cardinality(B)
<1>1. IsFiniteSet(0 .. MaxMessages)
  BY FS_Interval
<1>2. IsFiniteSet(B)
  BY <1>1, FS_Subset
<1> QED
  BY <1>2, FS_Subset, FS_CardinalityType

LEMMA OneMoreMessage ==
  ASSUME NEW A, NEW B, NEW x, A \subseteq B \cup {x}, B \subseteq 0 .. MaxMessages
  PROVE  Cardinality(A) <= Cardinality(B) + 1 /\ Cardinality(A) \in Nat /\ Cardinality(B) \in Nat
<1>1. IsFiniteSet(B) /\ Cardinality(B) \in Nat
  BY FewerMessages
<1>2. IsFiniteSet(B \cup {x}) /\ Cardinality(B \cup {x}) <= Cardinality(B) + 1
  BY <1>1, FS_AddElement
<1>3. IsFiniteSet(A) /\ Cardinality(A) <= Cardinality(B \cup {x})
  BY <1>2, FS_Subset
<1>4. Cardinality(A) \in Nat /\ Cardinality(B \cup {x}) \in Nat
  BY <1>2, <1>3, FS_CardinalityType
<1> QED
  BY <1>1, <1>2, <1>3, <1>4

LEMMA StoreTypes ==
  ASSUME StoreInv
  PROVE  /\ lines \in Seq(Lines) /\ Len(lines) \in Nat /\ Len(lines) <= MaxMessages /\ open \in BOOLEAN
         /\ open => Len(lines) > 0
         /\ meta.skip \in 0 .. Len(lines) /\ meta.count \in Nat
         /\ next \in 1 .. MaxMessages + 1
         /\ tears \in 0 .. MaxTears /\ cuts \in 0 .. MaxCuts
         /\ due \subseteq Messages /\ Owed \subseteq Messages
         /\ Owed \ Left \subseteq 0 .. MaxMessages
<1>1. /\ lines \in Seq(Lines) /\ Len(lines) <= MaxMessages /\ open \in BOOLEAN
      /\ meta \in [skip : 0 .. Len(lines), count : Nat]
      /\ next \in 1 .. MaxMessages + 1 /\ (open => lines # <<>>)
      /\ tears \in 0 .. MaxTears /\ cuts \in 0 .. MaxCuts /\ due \subseteq Messages
  BY DEF StoreInv, StoreTypeOK, MaxLines
<1>2. Owed \subseteq Messages
  <2>1. op = AddOp => next - 1 \in Messages
    BY <1>1 DEF StoreInv, DueOK, Messages
  <2> QED
    BY <1>1, <2>1 DEF Owed
<1>3. meta.skip \in 0 .. Len(lines) /\ meta.count \in Nat
  BY <1>1
<1>4. Len(lines) \in Nat /\ (open => Len(lines) > 0)
  BY <1>1
<1>5. Owed \ Left \subseteq 0 .. MaxMessages
  <2>1. Messages \subseteq 0 .. MaxMessages
    BY DEF Messages
  <2> QED
    BY <1>2, <2>1, Zenon
<1> QED
  BY <1>1, <1>2, <1>3, <1>4, <1>5

\* The file after an append.
LEMMA AppendedFile ==
  ASSUME StoreInv, NEW x \in Lines
  PROVE  /\ Appended(x) \in Seq(Lines)
         /\ open => /\ Len(Appended(x)) = Len(lines) /\ Appended(x)[Len(lines)] = Bad
                    /\ \A i \in 1 .. Len(lines) - 1 : Appended(x)[i] = lines[i]
         /\ ~open => /\ Len(Appended(x)) = Len(lines) + 1 /\ Appended(x)[Len(lines) + 1] = x
                     /\ \A i \in 1 .. Len(lines) : Appended(x)[i] = lines[i]
<1>1. lines \in Seq(Lines) /\ Len(lines) \in Nat /\ (open => Len(lines) > 0) /\ open \in BOOLEAN
  BY StoreTypes
<1>2. Bad \in Lines
  BY DEF Lines
<1>3. CASE open
  <2> DEFINE f == Front(lines)
  <2>1. f \in Seq(Lines) /\ Len(f) = Len(lines) - 1 /\ \A i \in 1 .. Len(lines) - 1 : f[i] = lines[i]
    <3>1. Len(lines) - 1 \in 0 .. Len(lines)
      BY <1>1, <1>3
    <3> QED
      <4> DEFINE c == Len(lines) - 1
      <4>0. c \in 0 .. Len(lines)
        BY <3>1
      <4> HIDE DEF c
      <4>1. SubSeq(lines, 1, c) \in Seq(Lines) /\ Len(SubSeq(lines, 1, c)) = c
            /\ \A n \in 1 .. c : lines[n] = SubSeq(lines, 1, c)[n]
        BY <1>1, <4>0, TwoParts
      <4> QED
        BY <4>1, Zenon DEF Front, c
  <2> HIDE DEF f
  <2>2. Appended(x) = Append(f, Bad)
    BY <1>3 DEF Appended, f
  <2> QED
    BY <1>1, <1>2, <1>3, <2>1, <2>2
<1>4. CASE ~open
  BY <1>1, <1>4 DEF Appended
<1> QED
  BY <1>3, <1>4, <1>1

\* An append, whole or torn, and what it keeps.
LEMMA AppendKeeps ==
  ASSUME StoreInv, op = NoOp, next <= MaxMessages, NEW x \in {next, Bad}
  PROVE  LET w == Appended(x) IN
         /\ w \in Seq(Lines) /\ w # <<>> /\ Len(lines) <= Len(w) /\ Len(w) < next + 1
         /\ Ascending(w) /\ \A i \in 1 .. Len(w) : w[i] < next + 1
         /\ w[Len(w)] \notin due
         /\ Wounds(w, FALSE) \subseteq Wounds(lines, open) \cup (IF x = Bad THEN {Len(w)} ELSE {})
         /\ Wounds(w, TRUE) \subseteq Wounds(lines, open) \cup {Len(w)}
         /\ open => Wounds(w, FALSE) \subseteq Wounds(lines, open)
         /\ Shown(lines, meta.skip) \cap due \subseteq Shown(w, meta.skip)
         /\ ~open /\ x = next => next \in Shown(w, meta.skip)
<1> DEFINE w == Appended(x)
<1>1. /\ lines \in Seq(Lines) /\ Len(lines) \in Nat /\ open \in BOOLEAN /\ (open => Len(lines) > 0)
      /\ meta.skip \in 0 .. Len(lines) /\ next \in 1 .. MaxMessages + 1 /\ due \subseteq Messages
  BY StoreTypes
<1>2. x \in Lines /\ next \in Nat /\ next # Bad /\ Bad = 0 /\ Bad \notin due
  BY <1>1 DEF Lines, Messages, Bad
<1>3. /\ w \in Seq(Lines)
      /\ open => /\ Len(w) = Len(lines) /\ w[Len(lines)] = Bad
                 /\ \A i \in 1 .. Len(lines) - 1 : w[i] = lines[i]
      /\ ~open => /\ Len(w) = Len(lines) + 1 /\ w[Len(lines) + 1] = x
                  /\ \A i \in 1 .. Len(lines) : w[i] = lines[i]
  BY <1>2, AppendedFile
<1> HIDE DEF w
<1>4. /\ Len(lines) < next /\ Ascending(lines) /\ \A i \in 1 .. Len(lines) : lines[i] < next
      /\ \A m \in due : m < next
      /\ open => lines[Len(lines)] \notin due
  BY DEF StoreInv, FileOK, DueOK
<1>5. Lines \subseteq Nat /\ \A i \in 1 .. Len(lines) : lines[i] \in Nat
  BY <1>1 DEF Lines, Messages, Bad
<1>6. w # <<>> /\ Len(lines) <= Len(w) /\ Len(w) < next + 1
  BY <1>1, <1>2, <1>3, <1>4
<1>7. Ascending(w)
  <2> SUFFICES ASSUME NEW i \in 1 .. Len(w), NEW j \in 1 .. Len(w), i < j, w[i] # Bad, w[j] # Bad
               PROVE  w[i] < w[j]
    BY DEF Ascending
  <2>1. i \in 1 .. Len(lines) /\ w[i] = lines[i]
    BY <1>1, <1>3
  <2>2. CASE j \in 1 .. Len(lines) /\ w[j] = lines[j]
    BY <1>4, <2>1, <2>2 DEF Ascending
  <2>3. CASE ~open /\ j = Len(lines) + 1
    <3>1. w[j] \in {Bad, next}
      BY <1>2, <1>3, <2>3
    <3>2. lines[i] < next
      BY <1>4, <2>1
    <3> QED
      BY <2>1, <3>1, <3>2
  <2> QED
    BY <1>1, <1>3, <2>2, <2>3
<1>8. \A i \in 1 .. Len(w) : w[i] < next + 1
  <2>1. w[Len(w)] < next + 1
    BY <1>1, <1>2, <1>3
  <2>2. \A i \in 1 .. Len(w) : i # Len(w) => i \in 1 .. Len(lines) /\ w[i] = lines[i]
    BY <1>1, <1>3
  <2>3. \A i \in 1 .. Len(lines) : lines[i] < next + 1
    BY <1>2, <1>4, <1>5
  <2> QED
    BY <2>1, <2>2, <2>3
<1>9. w[Len(w)] \notin due
  BY <1>1, <1>2, <1>3, <1>4
<1>10. /\ Wounds(w, FALSE) \subseteq Wounds(lines, open) \cup (IF x = Bad THEN {Len(w)} ELSE {})
       /\ Wounds(w, TRUE) \subseteq Wounds(lines, open) \cup {Len(w)}
       /\ open => Wounds(w, FALSE) \subseteq Wounds(lines, open)
  BY <1>1, <1>2, <1>3 DEF Wounds
<1>11. Shown(lines, meta.skip) \cap due \subseteq Shown(w, meta.skip)
  <2> SUFFICES ASSUME NEW n \in ReadAt(lines, meta.skip), lines[n] \in due
               PROVE  n \in ReadAt(w, meta.skip) /\ w[n] = lines[n]
    BY DEF Shown
  <2>1. n \in 1 .. Len(lines) /\ n >= meta.skip + 1 /\ lines[n] # Bad
    BY <1>1 DEF ReadAt
  <2>2. ~(open /\ n = Len(lines))
    BY <1>4
  <2>3. w[n] = lines[n] /\ n <= Len(w)
    BY <1>1, <1>3, <2>1, <2>2
  <2> QED
    BY <1>1, <2>1, <2>3 DEF ReadAt
<1>12. ~open /\ x = next => next \in Shown(w, meta.skip)
  <2> SUFFICES ASSUME ~open, x = next PROVE next \in Shown(w, meta.skip)
    OBVIOUS
  <2>1. Len(w) \in ReadAt(w, meta.skip) /\ w[Len(w)] = next
    BY <1>1, <1>2, <1>3 DEF ReadAt
  <2> QED
    BY <2>1 DEF Shown
<1> QED
  BY <1>3, <1>6, <1>7, <1>8, <1>9, <1>10, <1>11, <1>12 DEF w

-----------------------------------------------------------------------------
\* Of a window of lines some are read and some are damaged.
BadAt(file, skip) == {n \in skip + 1 .. Len(file) : file[n] = Bad}

LEMMA WindowCounts ==
  ASSUME NEW file \in Seq(Lines), NEW skip \in 0 .. Len(file)
  PROVE  /\ IsFiniteSet(ReadAt(file, skip)) /\ IsFiniteSet(BadAt(file, skip))
         /\ Cardinality(ReadAt(file, skip)) \in Nat /\ Cardinality(BadAt(file, skip)) \in Nat
         /\ Cardinality(ReadAt(file, skip)) + Cardinality(BadAt(file, skip)) = Len(file) - skip
<1> DEFINE W == skip + 1 .. Len(file)
<1>1. IsFiniteSet(W) /\ Cardinality(W) = Len(file) - skip
  <2>1. skip + 1 \in Int /\ Len(file) \in Int /\ skip \in Nat /\ skip <= Len(file)
    OBVIOUS
  <2>2. IsFiniteSet(W) /\ Cardinality(W) = IF skip + 1 > Len(file) THEN 0 ELSE Len(file) - (skip + 1) + 1
    BY <2>1, FS_Interval
  <2> QED
    BY <2>1, <2>2
<1>2. W \cap BadAt(file, skip) = BadAt(file, skip) /\ W \ BadAt(file, skip) = ReadAt(file, skip)
  BY DEF ReadAt, BadAt
<1> HIDE DEF W
<1>3. IsFiniteSet(ReadAt(file, skip))
      /\ Cardinality(ReadAt(file, skip)) = Cardinality(W) - Cardinality(BadAt(file, skip))
  <2> DEFINE B == BadAt(file, skip)
  <2> HIDE DEF B
  <2>1. IsFiniteSet(W \ B) /\ Cardinality(W \ B) = Cardinality(W) - Cardinality(W \cap B)
    BY <1>1, FS_Difference, Zenon
  <2> QED
    BY <1>2, <2>1, Zenon DEF B
<1>4. IsFiniteSet(BadAt(file, skip))
  BY <1>1, <1>2, FS_Intersection
<1>5. Cardinality(ReadAt(file, skip)) \in Nat /\ Cardinality(BadAt(file, skip)) \in Nat
  BY <1>3, <1>4, FS_CardinalityType
<1> QED
  BY <1>1, <1>3, <1>4, <1>5

LEMMA ShownCounts ==
  ASSUME NEW file \in Seq(Lines), NEW skip \in 0 .. Len(file), Ascending(file)
  PROVE  /\ IsFiniteSet(Shown(file, skip))
         /\ Cardinality(Shown(file, skip)) = Cardinality(ReadAt(file, skip))
<1> DEFINE I == ReadAt(file, skip)  T == Shown(file, skip)  f == [n \in I |-> file[n]]
<1>1. IsFiniteSet(I)
  BY WindowCounts
<1>2. \A m, n \in I : m < n => file[m] < file[n]
  BY DEF ReadAt, Ascending
<1>3. \A m, n \in I : file[m] = file[n] => m = n
  <2>1. \A n \in I : n \in Nat /\ file[n] \in Nat
    BY DEF ReadAt, Lines, Messages, Bad
  <2> QED
    BY <1>2, <2>1
<1>4. f \in Bijection(I, T)
  BY <1>3 DEF Bijection, Injection, Surjection, IsInjective, Shown
<1>5. ExistsBijection(I, T)
  BY <1>4, Zenon DEF ExistsBijection
<1> QED
  BY <1>1, <1>5, FS_Bijection

LEMMA LeastNumber ==
  ASSUME NEW I, I \subseteq Nat, I # {}
  PROVE  \E m \in I : \A i \in I : m <= i
<1>1. PICK m \in I : \A i \in I : ~(<<i, m>> \in OpToRel(<, Nat))
  BY NatLessThanWellFounded, WFMin
<1>2. \A i \in I : <<i, m>> \in Nat \X Nat
  OBVIOUS
<1>3. \A i \in I : ~(i < m)
  BY <1>1, <1>2, Zenon DEF OpToRel
<1>4. \A i \in I : m <= i
  BY <1>3
<1> QED
  BY <1>4

\* The numbers of a set that have fewer than k greater ones are k at most.
Above(U, x) == {z \in U : z > x}
Top(U, k) == {y \in U : Cardinality(Above(U, y)) < k}

LEMMA TopIsSmall ==
  ASSUME NEW U, U \subseteq Nat, IsFiniteSet(U), NEW k \in Nat
  PROVE  IsFiniteSet(Top(U, k)) /\ Cardinality(Top(U, k)) \in Nat /\ Cardinality(Top(U, k)) <= k
<1> DEFINE W == Top(U, k)
<1>1. W \subseteq U
  BY DEF Top
<1>2. IsFiniteSet(W)
  BY <1>1, FS_Subset
<1>3. Cardinality(W) \in Nat
  BY <1>2, FS_CardinalityType
<1>4. CASE W = {}
  BY <1>2, <1>3, <1>4, FS_EmptySet
<1>5. CASE W # {}
  <2>1. PICK w \in W : \A y \in W : w <= y
    BY <1>1, <1>5, LeastNumber
  <2> DEFINE A == Above(U, w)
  <2>2. Cardinality(A) < k
    BY <2>1 DEF Top
  <2>3. IsFiniteSet(A)
    BY FS_Subset DEF Above
  <2>4. W \subseteq A \cup {w}
    <3> SUFFICES ASSUME NEW y \in W, y # w PROVE y \in A
      OBVIOUS
    <3>1. y \in U /\ w \in U /\ w <= y
      BY <1>1, <2>1
    <3>2. y > w
      BY <3>1
    <3> QED
      BY <3>1, <3>2 DEF Above
  <2>5. IsFiniteSet(A \cup {w}) /\ Cardinality(A \cup {w}) <= Cardinality(A) + 1 /\ Cardinality(A) \in Nat
    BY <2>3, FS_AddElement, FS_CardinalityType
  <2>6. Cardinality(W) <= Cardinality(A \cup {w}) /\ Cardinality(A \cup {w}) \in Nat
    BY <2>4, <2>5, FS_Subset, FS_CardinalityType
  <2> HIDE DEF W, A
  <2> QED
    BY <1>2, <1>3, <2>2, <2>5, <2>6 DEF W
<1> QED
  BY <1>4, <1>5

-----------------------------------------------------------------------------
LEMMA AddLineKeeps == ASSUME StoreInv, AddLine PROVE StoreInv'
<1> DEFINE w == Appended(next)
<1>1. /\ op = NoOp /\ next <= MaxMessages /\ lines' = w /\ open' = FALSE /\ op' = AddOp /\ next' = next + 1
      /\ meta' = meta /\ tears' = tears /\ cuts' = cuts /\ due' = due
  BY DEF AddLine
<1>2. /\ lines \in Seq(Lines) /\ Len(lines) \in Nat /\ open \in BOOLEAN
      /\ meta.skip \in 0 .. Len(lines) /\ meta.count \in Nat /\ next \in 1 .. MaxMessages + 1
      /\ tears \in 0 .. MaxTears /\ cuts \in 0 .. MaxCuts /\ due \subseteq Messages
  BY StoreTypes
<1>3. /\ w \in Seq(Lines) /\ w # <<>> /\ Len(lines) <= Len(w) /\ Len(w) < next + 1
      /\ Ascending(w) /\ \A i \in 1 .. Len(w) : w[i] < next + 1
      /\ w[Len(w)] \notin due
      /\ Wounds(w, FALSE) \subseteq Wounds(lines, open) \cup (IF next = Bad THEN {Len(w)} ELSE {})
      /\ Shown(lines, meta.skip) \cap due \subseteq Shown(w, meta.skip)
      /\ ~open => next \in Shown(w, meta.skip)
  BY <1>1, AppendKeeps
<1> HIDE DEF w
<1>4. StoreTypeOK'
  <2>1. meta \in [skip : 0 .. Len(lines), count : Nat]
    BY DEF StoreInv, StoreTypeOK
  <2>2. meta' \in [skip : 0 .. Len(w), count : Nat]
    BY <1>1, <1>2, <1>3, <2>1
  <2>3. Len(w) <= MaxLines /\ next' \in 1 .. MaxMessages + 1
    BY <1>1, <1>2, <1>3 DEF MaxLines
  <2> QED
    BY <1>1, <1>2, <1>3, <2>2, <2>3 DEF StoreTypeOK
<1>5. FileOK'
  BY <1>1, <1>3 DEF FileOK, Ascending
<1>6. op'.kind = "add"
  BY <1>1 DEF AddOp
<1>7. RewriteOK'
  BY <1>6 DEF RewriteOK
<1>8. DueOK'
  <2>1. \A m \in due : m < next /\ m \in Nat
    BY <1>2 DEF StoreInv, DueOK, Messages
  <2>2. next \in Nat /\ next + 1 > 1
    BY <1>2
  <2>3. \A m \in due : m < next + 1
    BY <2>1, <2>2
  <2> QED
    BY <1>1, <2>2, <2>3 DEF DueOK
<1>9. WoundsOK'
  <2>0. next # Bad
    BY <1>2 DEF Bad
  <2>1. Wounds(w, FALSE) \subseteq Wounds(lines, open)
    BY <1>3, <2>0, Zenon
  <2>2. Wounds(lines, open) \subseteq 0 .. MaxMessages
    BY StoreTypes DEF Wounds
  <2>3. Cardinality(Wounds(w, FALSE)) <= Cardinality(Wounds(lines, open))
        /\ Cardinality(Wounds(w, FALSE)) \in Nat /\ Cardinality(Wounds(lines, open)) \in Nat
    BY <2>1, <2>2, FewerMessages
  <2>4. Wounds(lines, open)' = Wounds(w, FALSE)
    BY <1>1, Zenon DEF Wounds
  <2>5. Cardinality(Wounds(lines, open)) <= tears
    BY DEF StoreInv, WoundsOK
  <2>6. Cardinality(Wounds(w, FALSE)) <= tears
    <3> DEFINE c == Cardinality(Wounds(w, FALSE))  d == Cardinality(Wounds(lines, open))
    <3>0. tears \in Nat
      BY <1>2
    <3>1. c \in Nat /\ d \in Nat /\ c <= d /\ d <= tears
      BY <2>3, <2>5, Zenon
    <3> HIDE DEF c, d
    <3>2. c <= tears
      BY <3>0, <3>1
    <3> QED
      BY <3>2 DEF c
  <2> QED
    BY <1>1, <2>4, <2>6, Zenon DEF WoundsOK
<1>10. DamageOK'
  <2> DEFINE L == due \ Shown(lines, meta.skip)  M == (due \cup {next}) \ Shown(w, meta.skip)
  <2>1. op.kind # "rewrite" /\ op # AddOp
    BY <1>1 DEF NoOp, AddOp
  <2>2. Owed \ Left = L
    BY <2>1 DEF Owed, Left
  <2>3. (Owed \ Left)' = M
    <3>1. Owed' = due \cup {next}
      BY <1>1, <1>2 DEF Owed
    <3>2. Left' = Shown(w, meta.skip)
      BY <1>1, <1>6 DEF Left, Shown, ReadAt
    <3> QED
      BY <3>1, <3>2
  <2>4. Cardinality(L) + (IF open THEN 1 ELSE 0) <= Cost(tears)
    BY <2>2 DEF StoreInv, DamageOK
  <2>5. L \subseteq 0 .. MaxMessages
    BY <1>2, MessagesInRange, Zenon
  <2>6. Cost(tears) \in Nat
    BY <1>2 DEF Cost
  <2>7. Cardinality(M) <= Cardinality(L) + (IF open THEN 1 ELSE 0) /\ Cardinality(M) \in Nat
    <3>1. CASE open
      <4>1. M \subseteq L \cup {next}
        BY <1>3
      <4> QED
        BY <2>5, <3>1, <4>1, OneMoreMessage
    <3>2. CASE ~open
      <4>1. M \subseteq L
        BY <1>3, <3>2
      <4>2. Cardinality(M) <= Cardinality(L) /\ Cardinality(M) \in Nat /\ Cardinality(L) \in Nat
        BY <2>5, <4>1, FewerMessages
      <4> QED
        BY <3>2, <4>2
    <3> QED
      BY <1>2, <3>1, <3>2
  <2>8. Cardinality(L) \in Nat
    BY <2>5, FewerMessages
  <2> HIDE DEF L, M
  <2>9. Cardinality(M) <= Cost(tears)
    <3>1. CASE open
      BY <2>4, <2>6, <2>7, <2>8, <3>1
    <3>2. CASE ~open
      BY <2>4, <2>6, <2>7, <2>8, <3>2
    <3> QED
      BY <3>1, <3>2
  <2>10. Cardinality((Owed \ Left)') + 0 <= Cost(tears')
    BY <1>1, <2>3, <2>6, <2>7, <2>9
  <2> QED
    BY <1>1, <2>10 DEF DamageOK
<1> QED
  BY <1>4, <1>5, <1>7, <1>8, <1>9, <1>10 DEF StoreInv

LEMMA AddTornKeeps == ASSUME StoreInv, AddTorn PROVE StoreInv'
<1>1. /\ op = NoOp /\ next <= MaxMessages /\ open' = TRUE /\ op' = op /\ next' = next + 1
      /\ tears < MaxTears /\ meta' = meta /\ tears' = tears + 1 /\ cuts' = cuts /\ due' = due
  BY DEF AddTorn
<1>0. PICK x \in {next, Bad} : lines' = Appended(x)
  BY DEF AddTorn
<1> DEFINE w == Appended(x)
<1>2. /\ lines \in Seq(Lines) /\ Len(lines) \in Nat /\ open \in BOOLEAN
      /\ meta.skip \in 0 .. Len(lines) /\ meta.count \in Nat /\ next \in 1 .. MaxMessages + 1
      /\ tears \in 0 .. MaxTears /\ cuts \in 0 .. MaxCuts /\ due \subseteq Messages
  BY StoreTypes
<1>3. /\ w \in Seq(Lines) /\ w # <<>> /\ Len(lines) <= Len(w) /\ Len(w) < next + 1
      /\ Ascending(w) /\ \A i \in 1 .. Len(w) : w[i] < next + 1
      /\ w[Len(w)] \notin due
      /\ Wounds(w, TRUE) \subseteq Wounds(lines, open) \cup {Len(w)}
      /\ Shown(lines, meta.skip) \cap due \subseteq Shown(w, meta.skip)
  BY <1>1, AppendKeeps
<1>4. lines' = w
  BY <1>0
<1> HIDE DEF w
<1>5. StoreTypeOK'
  <2>1. meta \in [skip : 0 .. Len(lines), count : Nat]
    BY DEF StoreInv, StoreTypeOK
  <2>2. meta' \in [skip : 0 .. Len(w), count : Nat]
    BY <1>1, <1>2, <1>3, <2>1
  <2>3. Len(w) <= MaxLines /\ next' \in 1 .. MaxMessages + 1 /\ tears' \in 0 .. MaxTears
    BY <1>1, <1>2, <1>3 DEF MaxLines
  <2> QED
    BY <1>1, <1>2, <1>3, <1>4, <2>2, <2>3 DEF StoreTypeOK
<1>6. FileOK'
  BY <1>1, <1>3, <1>4 DEF FileOK, Ascending
<1>7. op.kind # "rewrite" /\ op # AddOp
  BY <1>1 DEF NoOp, AddOp
<1>8. RewriteOK'
  BY <1>1, <1>7 DEF RewriteOK
<1>9. DueOK'
  <2>1. \A m \in due : m < next /\ m \in Nat
    BY <1>2 DEF StoreInv, DueOK, Messages
  <2> QED
    BY <1>1, <1>2, <1>3, <1>4, <1>7, <2>1 DEF DueOK
<1>10. WoundsOK'
  <2>1. Wounds(lines, open) \subseteq 0 .. MaxMessages
    BY StoreTypes DEF Wounds
  <2>2. /\ Cardinality(Wounds(w, TRUE)) <= Cardinality(Wounds(lines, open)) + 1
        /\ Cardinality(Wounds(w, TRUE)) \in Nat /\ Cardinality(Wounds(lines, open)) \in Nat
    BY <1>3, <2>1, OneMoreMessage
  <2>3. Wounds(lines, open)' = Wounds(w, TRUE)
    BY <1>1, <1>4, Zenon DEF Wounds
  <2>4. Cardinality(Wounds(lines, open)) <= tears
    BY DEF StoreInv, WoundsOK
  <2>5. Cardinality(Wounds(w, TRUE)) <= tears + 1
    <3> DEFINE c == Cardinality(Wounds(w, TRUE))  d == Cardinality(Wounds(lines, open))
    <3>0. tears \in Nat
      BY <1>2
    <3>1. c \in Nat /\ d \in Nat /\ c <= d + 1 /\ d <= tears
      BY <2>2, <2>4, Zenon
    <3> HIDE DEF c, d
    <3>2. c <= tears + 1
      BY <3>0, <3>1
    <3> QED
      BY <3>2 DEF c
  <2> QED
    BY <1>1, <2>3, <2>5, Zenon DEF WoundsOK
<1>11. DamageOK'
  <2> DEFINE L == due \ Shown(lines, meta.skip)  M == due \ Shown(w, meta.skip)
  <2>1. Owed \ Left = L
    BY <1>7 DEF Owed, Left
  <2>2. (Owed \ Left)' = M
    BY <1>1, <1>4, <1>7 DEF Owed, Left, Shown, ReadAt
  <2>3. Cardinality(L) + (IF open THEN 1 ELSE 0) <= Cost(tears)
    BY <2>1 DEF StoreInv, DamageOK
  <2>4. L \subseteq 0 .. MaxMessages
    BY <1>2, MessagesInRange, Zenon
  <2>8. M \subseteq L
    BY <1>3, Zenon
  <2>5. Cardinality(M) <= Cardinality(L) /\ Cardinality(M) \in Nat /\ Cardinality(L) \in Nat
    BY <2>4, <2>8, FewerMessages
  <2> HIDE DEF L, M
  <2>6. Cardinality(L) <= Cost(tears)
    <3>1. Cost(tears) \in Nat
      BY <1>2 DEF Cost
    <3> QED
      BY <1>2, <2>3, <2>5, <3>1
  <2>7. Cardinality(M) + 1 <= Cost(tears')
    BY <1>1, <1>2, <2>5, <2>6 DEF Cost
  <2> QED
    BY <1>1, <2>2, <2>7 DEF DamageOK
<1> QED
  BY <1>5, <1>6, <1>8, <1>9, <1>10, <1>11 DEF StoreInv

LEMMA AddCountKeeps == ASSUME StoreInv, AddCount PROVE StoreInv'
<1>1. /\ op = AddOp /\ op' = NoOp /\ due' = due \cup {next - 1} /\ lines' = lines /\ open' = open
      /\ next' = next /\ tears' = tears /\ cuts' = cuts /\ meta' = [meta EXCEPT !.count = @ + 1]
  BY DEF AddCount
<1>2. /\ lines \in Seq(Lines) /\ Len(lines) \in Nat /\ open \in BOOLEAN
      /\ meta.skip \in 0 .. Len(lines) /\ meta.count \in Nat /\ next \in 1 .. MaxMessages + 1
      /\ tears \in 0 .. MaxTears /\ cuts \in 0 .. MaxCuts /\ due \subseteq Messages
  BY StoreTypes
<1>3. meta \in [skip : 0 .. Len(lines), count : Nat]
  BY DEF StoreInv, StoreTypeOK
<1>4. meta' \in [skip : 0 .. Len(lines), count : Nat] /\ meta'.skip = meta.skip
  BY <1>1, <1>3
<1>5. op.kind # "rewrite" /\ op'.kind # "rewrite" /\ op' # AddOp
  BY <1>1 DEF NoOp, AddOp
<1>6. ~open /\ next > 1 /\ \A m \in due : m < next
  BY <1>1 DEF StoreInv, DueOK
<1>7. StoreTypeOK'
  <2>1. due' \subseteq Messages
    BY <1>1, <1>2, <1>6 DEF Messages
  <2>2. Len(lines) <= MaxLines /\ (open => lines # <<>>)
    BY DEF StoreInv, StoreTypeOK
  <2> QED
    BY <1>1, <1>2, <1>4, <2>1, <2>2 DEF StoreTypeOK
<1>8. FileOK'
  BY <1>1 DEF StoreInv, FileOK, Ascending
<1>9. RewriteOK'
  BY <1>5 DEF RewriteOK
<1>10. DueOK'
  <2>1. \A m \in due \cup {next - 1} : m < next
    BY <1>2, <1>6
  <2> QED
    BY <1>1, <1>5, <1>6, <2>1 DEF DueOK
<1>11. WoundsOK'
  BY <1>1 DEF StoreInv, WoundsOK, Wounds
<1>12. DamageOK'
  <2>1. Owed' = Owed
    BY <1>1, <1>5 DEF Owed
  <2>2. Left' = Left
    BY <1>1, <1>4, <1>5 DEF Left, Shown, ReadAt
  <2> QED
    BY <1>1, <2>1, <2>2 DEF StoreInv, DamageOK
<1> QED
  BY <1>7, <1>8, <1>9, <1>10, <1>11, <1>12 DEF StoreInv

\* ToSet(History) is what Shown says.
LEMMA HistoryShown ==
  ASSUME StoreInv
  PROVE  /\ ToSet(History) = Shown(lines, meta.skip) /\ Shown(lines, meta.skip) \subseteq Messages
         /\ History \in Seq(Messages)
<1>1. lines \in Seq(Lines) /\ meta.skip \in Nat
  <2>1. lines \in Seq(Lines) /\ meta.skip \in 0 .. Len(lines) /\ Len(lines) \in Nat
    BY StoreTypes
  <2> QED
    BY <2>1
<1> DEFINE skip == meta.skip
<1> HIDE DEF skip
<1>2. /\ ReadMessages(lines, skip) \in Seq(Messages)
      /\ ToSet(ReadMessages(lines, skip)) = Shown(lines, skip)
  BY <1>1, ReadType DEF Shown, skip
<1>3. Shown(lines, skip) \subseteq Messages
  BY <1>1 DEF Shown, ReadAt, Lines, skip
<1> QED
  BY <1>2, <1>3 DEF History, skip

\* An unfinished line was torn.
LEMMA OpenWasTorn == ASSUME StoreInv, open PROVE tears >= 1
<1>1. /\ lines \in Seq(Lines) /\ Len(lines) \in Nat /\ Len(lines) > 0 /\ open \in BOOLEAN
      /\ tears \in 0 .. MaxTears
  BY StoreTypes
<1> DEFINE W == Wounds(lines, open)
<1>2. Len(lines) \in W
  <2>1. Len(lines) \in 1 .. Len(lines)
    BY <1>1
  <2> QED
    BY <2>1, Zenon DEF Wounds
<1>3. W \subseteq 1 .. Len(lines)
  BY Zenon DEF Wounds
<1>4. Cardinality(W) <= tears
  BY DEF StoreInv, WoundsOK
<1>5. IsFiniteSet(1 .. Len(lines))
  BY <1>1, FS_Interval
<1> HIDE DEF W
<1>6. IsFiniteSet(W)
  BY <1>3, <1>5, FS_Subset
<1>7. Cardinality(W) \in Nat /\ Cardinality(W) # 0
  BY <1>2, <1>6, FS_CardinalityType, FS_EmptySet
<1> QED
  BY <1>1, <1>4, <1>7

\* A step that harms no more than was harmed before.
LEMMA NoMoreDamage ==
  ASSUME StoreInv, (Owed \ Left)' \subseteq Owed \ Left, open' = open \/ ~open', tears' = tears
  PROVE  DamageOK'
<1> DEFINE L == Owed \ Left  M == (Owed \ Left)'
<1>1. L \subseteq 0 .. MaxMessages /\ tears \in Nat /\ open \in BOOLEAN
  <2>1. L \subseteq 0 .. MaxMessages /\ tears \in 0 .. MaxTears /\ open \in BOOLEAN
    BY StoreTypes
  <2> HIDE DEF L
  <2> QED
    BY <2>1
<1>2. Cardinality(L) + (IF open THEN 1 ELSE 0) <= Cost(tears)
  BY DEF StoreInv, DamageOK
<1>3. M \subseteq L
  OBVIOUS
<1> DEFINE c == Cardinality(M)  d == Cardinality(L)
<1>6. c \in Nat /\ d \in Nat /\ c <= d
  <2> HIDE DEF L, M
  <2> QED
    BY <1>1, <1>3, FewerMessages
<1>7. Cost(tears) \in Nat /\ d + (IF open THEN 1 ELSE 0) <= Cost(tears)
  BY <1>1, <1>2 DEF Cost
<1>8. c + (IF open' THEN 1 ELSE 0) <= Cost(tears)
  <2> HIDE DEF c, d
  <2>1. CASE open
    BY <1>6, <1>7, <2>1
  <2>2. CASE ~open
    BY <1>6, <1>7, <2>2
  <2> QED
    BY <2>1, <2>2
<1>9. DamageOK' <=> c + (IF open' THEN 1 ELSE 0) <= Cost(tears')
  BY Zenon DEF DamageOK
<1> QED
  BY <1>8, <1>9

\* Of what Truncate is to keep, only damaged lines among the last k can have taken the place.
LEMMA TruncatedTail ==
  ASSUME NEW file \in Seq(Lines), Ascending(file), NEW skip \in 0 .. Len(file),
         NEW owed, owed \subseteq Messages, NEW k \in Nat, k < Len(file) - skip,
         NEW x \in owed, x \in Shown(file, skip), x \notin Shown(file, Len(file) - k),
         NEW kept, kept \subseteq Top(owed \cup Shown(file, skip), k), x \in kept
  PROVE  /\ Cardinality(kept \ Shown(file, Len(file) - k)) <= Cardinality(BadAt(file, Len(file) - k))
         /\ IsFiniteSet(kept \ Shown(file, Len(file) - k))
<1> DEFINE cut == Len(file) - k  H == Shown(file, skip)  G == Shown(file, cut)  U == owed \cup H
           D == kept \ G
<1>1. Len(file) \in Nat /\ skip \in Nat /\ cut \in 0 .. Len(file) /\ skip <= cut /\ Len(file) - cut = k
  OBVIOUS
<1>2. H \subseteq Messages /\ G \subseteq H
  <2>1. ReadAt(file, cut) \subseteq ReadAt(file, skip)
    BY <1>1 DEF ReadAt
  <2>2. \A n \in ReadAt(file, skip) : file[n] \in Messages
    BY DEF ReadAt, Lines
  <2> QED
    BY <2>1, <2>2 DEF Shown
<1>3. U \subseteq 0 .. MaxMessages
  BY <1>2, MessagesInRange, Zenon
<1>4. U \subseteq Nat /\ IsFiniteSet(U)
  <2>1. IsFiniteSet(U)
    BY <1>3, FewerMessages
  <2> HIDE DEF U
  <2> QED
    BY <1>3, <2>1
<1>5. \A z \in G : z > x
  <2>1. PICK i \in ReadAt(file, skip) : x = file[i]
    BY DEF Shown
  <2>2. i \in 1 .. Len(file) /\ file[i] # Bad /\ i \in Nat
    BY <1>1 DEF ReadAt
  <2>3. i <= cut
    <3>1. i \notin ReadAt(file, cut)
      BY <2>1 DEF Shown
    <3> QED
      BY <1>1, <2>2, <3>1 DEF ReadAt
  <2> TAKE z \in G
  <2>4. PICK j \in ReadAt(file, cut) : z = file[j]
    BY DEF Shown
  <2>5. j \in 1 .. Len(file) /\ file[j] # Bad /\ j > cut /\ j \in Nat
    BY <1>1, <2>4 DEF ReadAt
  <2>6. i < j
    BY <1>1, <2>2, <2>3, <2>5
  <2>7. file[i] < file[j]
    BY <2>2, <2>5, <2>6 DEF Ascending
  <2>8. file[i] \in Nat /\ file[j] \in Nat
    BY <2>2, <2>5 DEF Lines, Messages, Bad
  <2> QED
    BY <2>1, <2>4, <2>7, <2>8
<1> HIDE DEF H, G, U, cut
<1>6. G \subseteq Top(U, k)
  <2> SUFFICES ASSUME NEW z \in G PROVE z \in Top(U, k)
    OBVIOUS
  <2>1. z \in U /\ x \in U /\ z > x /\ z \in Nat /\ x \in Nat
    BY <1>2, <1>4, <1>5 DEF U
  <2>2. Above(U, z) \subseteq Above(U, x)
    <3>1. \A y \in U : y > z => y > x
      BY <1>4, <2>1
    <3> QED
      BY <3>1 DEF Above
  <2>3. Cardinality(Above(U, x)) < k
    BY DEF Top, U, H
  <2>4. Above(U, x) \subseteq U
    BY DEF Above
  <2>5. U \subseteq 0 .. MaxMessages
    BY <1>3
  <2>6. Above(U, x) \subseteq 0 .. MaxMessages
    BY <2>4, <2>5
  <2>7. Cardinality(Above(U, z)) <= Cardinality(Above(U, x)) /\ Cardinality(Above(U, z)) \in Nat
        /\ Cardinality(Above(U, x)) \in Nat
    BY <2>2, <2>6, FewerMessages
  <2>8. Cardinality(Above(U, z)) < k
    BY <2>3, <2>7
  <2> QED
    BY <2>1, <2>8 DEF Top
<1>7. IsFiniteSet(Top(U, k)) /\ Cardinality(Top(U, k)) \in Nat /\ Cardinality(Top(U, k)) <= k
  BY <1>4, TopIsSmall
<1>8. D \cup G \subseteq Top(U, k)
  BY <1>6 DEF U, H
<1>9. IsFiniteSet(D) /\ IsFiniteSet(G) /\ IsFiniteSet(D \cup G)
  BY <1>7, <1>8, FS_Subset
<1>10. Cardinality(D \cup G) <= Cardinality(Top(U, k)) /\ D \cap G = {}
  BY <1>7, <1>8, FS_Subset
<1>11. Cardinality(D \cup G) = Cardinality(D) + Cardinality(G)
  <2>1. Cardinality(D \cup G) = Cardinality(D) + Cardinality(G) - Cardinality(D \cap G)
    BY <1>9, FS_Union
  <2>2. Cardinality(D \cap G) = 0
    BY <1>10, FS_EmptySet
  <2>3. Cardinality(D) \in Nat /\ Cardinality(G) \in Nat
    BY <1>9, FS_CardinalityType
  <2> HIDE DEF D
  <2> QED
    BY <2>1, <2>2, <2>3
<1>12. /\ Cardinality(BadAt(file, cut)) \in Nat
       /\ Cardinality(G) + Cardinality(BadAt(file, cut)) = k
  <2>1. cut \in 0 .. Len(file) /\ Len(file) - cut = k
    BY <1>1
  <2>2. Cardinality(G) = Cardinality(ReadAt(file, cut))
    BY <2>1, ShownCounts DEF G
  <2>3. /\ Cardinality(BadAt(file, cut)) \in Nat
        /\ Cardinality(ReadAt(file, cut)) + Cardinality(BadAt(file, cut)) = Len(file) - cut
    BY <2>1, WindowCounts
  <2> QED
    BY <2>1, <2>2, <2>3
<1>13. Cardinality(D) \in Nat /\ Cardinality(G) \in Nat /\ Cardinality(D \cup G) \in Nat
  BY <1>9, FS_CardinalityType
<1> HIDE DEF D
<1>14. Cardinality(D) <= Cardinality(BadAt(file, cut))
  BY <1>7, <1>10, <1>11, <1>12, <1>13
<1> QED
  BY <1>9, <1>14 DEF D, G, cut

LEMMA TruncateKeeps ==
  ASSUME StoreInv, NEW k \in KeepCounts, TruncateHistory(k) PROVE StoreInv'
<1> DEFINE H == Shown(lines, meta.skip)
           s == IF k = 0 THEN Len(lines)
                ELSE IF k < Len(lines) - meta.skip THEN Len(lines) - k ELSE meta.skip
<1>1. /\ op = NoOp /\ lines' = lines /\ open' = open /\ op' = op /\ next' = next /\ tears' = tears
      /\ cuts' = cuts /\ meta' = [count |-> Len(lines), skip |-> s]
      /\ due' = {m \in due : Cardinality({x \in due \cup ToSet(History) : x > m}) < k}
  BY DEF TruncateHistory
<1>2. /\ lines \in Seq(Lines) /\ Len(lines) \in Nat /\ open \in BOOLEAN
      /\ meta.skip \in 0 .. Len(lines) /\ next \in 1 .. MaxMessages + 1 /\ k \in Nat
      /\ tears \in 0 .. MaxTears /\ cuts \in 0 .. MaxCuts /\ due \subseteq Messages
  BY StoreTypes
<1>3. due' = {m \in due : Cardinality(Above(due \cup H, m)) < k} /\ H \subseteq Messages
  BY <1>1, HistoryShown DEF Above
<1>4. due' \subseteq due
  BY <1>3
<1>5. s \in 0 .. Len(lines)
  BY <1>2
<1>6. meta'.skip = s /\ meta' \in [skip : 0 .. Len(lines), count : Nat]
  BY <1>1, <1>2, <1>5
<1>7. op.kind # "rewrite" /\ op # AddOp
  BY <1>1 DEF NoOp, AddOp
<1> HIDE DEF H, s
<1>8. StoreTypeOK'
  <2>1. due' \subseteq Messages
    BY <1>2, <1>4
  <2>2. Len(lines) <= MaxLines /\ (open => lines # <<>>)
    BY DEF StoreInv, StoreTypeOK
  <2> QED
    BY <1>1, <1>2, <1>6, <2>1, <2>2 DEF StoreTypeOK
<1>9. FileOK'
  BY <1>1 DEF StoreInv, FileOK, Ascending
<1>10. RewriteOK'
  BY <1>1, <1>7 DEF RewriteOK
<1>11. DueOK'
  BY <1>1, <1>4, <1>7 DEF StoreInv, DueOK
<1>12. WoundsOK'
  <2>1. Wounds(lines, open)' = Wounds(lines, open)
    BY <1>1, Zenon DEF Wounds
  <2> QED
    BY <1>1, <2>1, Zenon DEF StoreInv, WoundsOK
<1>13. DamageOK'
  <2>1. Owed \ Left = due \ H
    BY <1>7 DEF Owed, Left, H
  <2>2. (Owed \ Left)' = due' \ Shown(lines, s)
    BY <1>1, <1>6, <1>7 DEF Owed, Left, Shown, ReadAt
  <2>3. CASE due' \cap H \subseteq Shown(lines, s)
    <3>1. (Owed \ Left)' \subseteq Owed \ Left
      BY <1>4, <2>1, <2>2, <2>3
    <3> QED
      BY <1>1, <3>1, NoMoreDamage
  <2>4. CASE ~(due' \cap H \subseteq Shown(lines, s))
    <3>1. PICK x \in due' \cap H : x \notin Shown(lines, s)
      BY <2>4
    <3>2. k # 0
      <4>1. Above(due \cup H, x) \subseteq 0 .. MaxMessages
        BY <1>2, <1>3, MessagesInRange, Zenon DEF Above
      <4>2. Cardinality(Above(due \cup H, x)) \in Nat
        BY <4>1, FewerMessages
      <4>3. Cardinality(Above(due \cup H, x)) < k
        BY <1>3, <3>1
      <4> QED
        BY <1>2, <4>2, <4>3
    <3>3. k < Len(lines) - meta.skip /\ s = Len(lines) - k
      <4>1. s # meta.skip
        BY <3>1 DEF H
      <4> QED
        BY <1>2, <3>2, <4>1 DEF s
    <3>4. due' \subseteq Top(due \cup H, k)
      BY <1>3 DEF Top
    <3> DEFINE D == due' \ Shown(lines, s)  B == BadAt(lines, s)  W == Wounds(lines, open)
    <3>5. Cardinality(D) <= Cardinality(B) /\ IsFiniteSet(D)
      <4>1. Ascending(lines)
        BY DEF StoreInv, FileOK
      <4>2. x \in due /\ x \in Shown(lines, meta.skip) /\ x \notin Shown(lines, Len(lines) - k) /\ x \in due'
        BY <1>4, <3>1, <3>3 DEF H
      <4>3. due' \subseteq Top(due \cup Shown(lines, meta.skip), k)
        BY <3>4 DEF H
      <4> DEFINE kept == due'  skip == meta.skip
      <4>4. skip \in 0 .. Len(lines) /\ k < Len(lines) - skip
        BY <1>2, <3>3
      <4>5. x \in due /\ x \in Shown(lines, skip) /\ x \in kept
            /\ kept \subseteq Top(due \cup Shown(lines, skip), k)
        BY <4>2, <4>3
      <4> HIDE DEF kept, skip
      <4>6. /\ Cardinality(kept \ Shown(lines, Len(lines) - k)) <= Cardinality(BadAt(lines, Len(lines) - k))
            /\ IsFiniteSet(kept \ Shown(lines, Len(lines) - k))
        BY <1>2, <4>1, <4>2, <4>4, <4>5, TruncatedTail
      <4> QED
        BY <3>3, <4>6 DEF kept
    <3>6. B \subseteq W /\ W \subseteq 0 .. MaxMessages
      <4>1. W \subseteq 1 .. Len(lines)
        BY Zenon DEF Wounds
      <4>2. Len(lines) <= MaxMessages
        BY StoreTypes
      <4> HIDE DEF W
      <4>3. W \subseteq 0 .. MaxMessages
        BY <1>2, <4>1, <4>2
      <4>4. B \subseteq {i \in 1 .. Len(lines) : lines[i] = Bad}
        BY <1>2, <1>5 DEF BadAt
      <4>5. B \subseteq W
        BY <4>4, Zenon DEF W, Wounds
      <4> QED
        BY <4>3, <4>5
    <3>7. Cardinality(W) <= tears
      BY DEF StoreInv, WoundsOK
    <3>8. open => tears >= 1
      BY OpenWasTorn
    <3>9. Cardinality(D) \in Nat
      BY <3>5, FS_CardinalityType
    <3>10. Cardinality(B) <= Cardinality(W) /\ Cardinality(B) \in Nat /\ Cardinality(W) \in Nat
      <4> HIDE DEF B, W
      <4> QED
        BY <3>6, FewerMessages
    <3>11. tears \in Nat
      BY <1>2
    <3> HIDE DEF D, B, W
    <3>12. Cardinality(D) <= tears
      BY <3>5, <3>7, <3>9, <3>10, <3>11
    <3>13. Cardinality(D) + (IF open THEN 1 ELSE 0) <= Cost(tears)
      <4>1. CASE open
        BY <3>8, <3>9, <3>11, <3>12, <4>1 DEF Cost
      <4>2. CASE ~open
        BY <3>9, <3>11, <3>12, <4>2 DEF Cost
      <4> QED
        BY <4>1, <4>2
    <3>14. D = (Owed \ Left)'
      BY <2>2 DEF D
    <3> QED
      BY <1>1, <3>13, <3>14, Zenon DEF DamageOK
  <2> QED
    BY <2>3, <2>4
<1> QED
  BY <1>8, <1>9, <1>10, <1>11, <1>12, <1>13 DEF StoreInv

\* A part of what is read is a sequence of messages, in order, and not longer.
LEMMA PartOfHistory ==
  ASSUME NEW file \in Seq(Lines), NEW skip \in 0 .. Len(file), Ascending(file),
         NEW I, NEW h, h = Pick(ReadMessages(file, skip), I)
  PROVE  /\ h \in Seq(Messages) /\ Len(h) \in Nat /\ Len(h) <= Len(file)
         /\ ToSet(h) \subseteq Shown(file, skip)
         /\ Rising(h)
<1> DEFINE r == ReadMessages(file, skip)  K == I \cap (1 .. Len(r))
<1>1. skip \in Nat /\ Len(file) \in Nat /\ Messages \subseteq Nat
  BY DEF Messages
<1>2. r \in Seq(Messages) /\ ToSet(r) = Shown(file, skip) /\ Len(r) = Cardinality(ReadAt(file, skip))
  BY <1>1, ReadType DEF Shown
<1>3. /\ Cardinality(ReadAt(file, skip)) \in Nat /\ Cardinality(BadAt(file, skip)) \in Nat
      /\ Cardinality(ReadAt(file, skip)) + Cardinality(BadAt(file, skip)) = Len(file) - skip
  BY WindowCounts
<1>4. Len(r) \in Nat /\ Len(r) <= Len(file)
  BY <1>1, <1>2, <1>3
<1>5. Rising(r)
  BY <1>1, ReadRising
<1> HIDE DEF r
<1>6. h \in Seq(Messages) /\ Len(h) \in Nat
  <2>1. h \in Seq(Messages)
    BY <1>2, PickType DEF r
  <2> QED
    BY <2>1
<1>7. ToSet(h) = {r[n] : n \in K} /\ IsFiniteSet(K) /\ Len(h) = Cardinality(K)
  BY <1>2, PickElements DEF r
<1>8. ToSet(h) \subseteq ToSet(r)
  <2>1. \A n \in K : r[n] \in ToSet(r)
    BY <1>2 DEF ToSet
  <2> QED
    BY <1>7, <2>1
<1>9. Len(h) <= Len(r)
  <2>1. IsFiniteSet(1 .. Len(r)) /\ Cardinality(1 .. Len(r)) = Len(r)
    <3>1. 1 \in Int /\ Len(r) \in Int
      BY <1>4
    <3>2. IsFiniteSet(1 .. Len(r))
          /\ Cardinality(1 .. Len(r)) = IF 1 > Len(r) THEN 0 ELSE Len(r) - 1 + 1
      BY <3>1, FS_Interval
    <3> QED
      BY <1>4, <3>2
  <2>2. K \subseteq 1 .. Len(r)
    OBVIOUS
  <2> HIDE DEF K
  <2>3. Cardinality(K) <= Cardinality(1 .. Len(r))
    BY <2>1, <2>2, FS_Subset
  <2> QED
    BY <1>7, <2>1, <2>3
<1>10. Rising(h)
  <2>1. \A i, j \in K : i < j => r[i] < r[j]
    BY <1>5 DEF Rising
  <2>2. \A i, j \in I \cap (1 .. Len(r)) : i < j => r[i] < r[j]
    BY <2>1
  <2> QED
    BY <1>1, <1>2, <2>2, PickRising DEF r
<1> QED
  BY <1>2, <1>4, <1>6, <1>8, <1>9, <1>10, <1>1

\* The first write of SetHistory and of Compact.
LEMMA RewriteStarts ==
  ASSUME StoreInv, op = NoOp, NEW h, NEW I \in SUBSET (1 .. Len(History)), h = Pick(History, I),
         op' = RewriteOp(h, meta.skip), meta' = [skip |-> 0, count |-> Len(h)],
         due' = due \ (ToSet(History) \ ToSet(h)),
         lines' = lines, open' = open, next' = next, tears' = tears, cuts' = cuts
  PROVE  StoreInv'
<1>1. /\ lines \in Seq(Lines) /\ Len(lines) \in Nat /\ open \in BOOLEAN
      /\ meta.skip \in 0 .. Len(lines) /\ next \in 1 .. MaxMessages + 1
      /\ tears \in 0 .. MaxTears /\ cuts \in 0 .. MaxCuts /\ due \subseteq Messages
  BY StoreTypes
<1>2. h \in Seq(Messages) /\ Len(h) \in Nat
  <2> DEFINE skip == meta.skip
  <2>1. skip \in 0 .. Len(lines) /\ Ascending(lines) /\ h = Pick(ReadMessages(lines, skip), I)
    BY <1>1 DEF StoreInv, FileOK, History
  <2> HIDE DEF skip
  <2> QED
    BY <1>1, <2>1, PartOfHistory
<1>3. /\ op'.kind = "rewrite" /\ op'.history = h /\ op'.skip = meta.skip /\ op' # AddOp
      /\ DOMAIN op' = {"kind", "history", "skip"}
  BY DEF RewriteOp, AddOp
<1>4. meta'.skip = 0 /\ meta' \in [skip : 0 .. Len(lines), count : Nat]
  BY <1>1, <1>2
<1>5. due' \subseteq due
  OBVIOUS
<1>6. op.kind # "rewrite" /\ op # AddOp
  BY DEF NoOp, AddOp
<1>7. StoreTypeOK'
  <2>1. due' \subseteq Messages
    BY <1>1
  <2>2. Len(lines) <= MaxLines /\ (open => lines # <<>>)
    BY DEF StoreInv, StoreTypeOK
  <2>3. op'.history \in Seq(Messages) /\ op'.skip \in 0 .. Len(lines)
    BY <1>1, <1>2, <1>3
  <2> QED
    BY <1>1, <1>3, <1>4, <2>1, <2>2, <2>3 DEF StoreTypeOK
<1>8. FileOK'
  BY DEF StoreInv, FileOK, Ascending
<1>9. RewriteOK'
  <2> DEFINE r == ReadMessages(lines, meta.skip)
  <2>1. ReadMessages(lines, op.skip)' = r
    BY <1>3, Zenon DEF ReadMessages, Bad
  <2>2. r = History
    BY DEF History
  <2> HIDE DEF r
  <2>3. op'.history = Pick(r, I) /\ I \in SUBSET (1 .. Len(r))
    BY <1>3, <2>2, Zenon
  <2>4. \E J \in SUBSET (1 .. Len(r)) : op'.history = Pick(r, J)
    BY <2>3
  <2> QED
    BY <1>4, <2>1, <2>4, Zenon DEF RewriteOK
<1>10. DueOK'
  BY <1>3, <1>5 DEF StoreInv, DueOK
<1>11. WoundsOK'
  <2>1. Wounds(lines, open)' = Wounds(lines, open)
    BY Zenon DEF Wounds
  <2> QED
    BY <2>1, Zenon DEF StoreInv, WoundsOK
<1>12. DamageOK'
  <2>1. Owed \ Left = due \ ToSet(History)
    BY <1>6, HistoryShown DEF Owed, Left
  <2>2. (Owed \ Left)' = due' \ ToSet(h)
    <3>1. Owed' = due'
      BY <1>3, Zenon DEF Owed
    <3>2. Left' = ToSet(h)
      BY <1>3, Zenon DEF Left, ToSet
    <3> QED
      BY <3>1, <3>2
  <2>3. (Owed \ Left)' \subseteq Owed \ Left
    BY <2>1, <2>2
  <2> QED
    BY <2>3, NoMoreDamage
<1> QED
  BY <1>7, <1>8, <1>9, <1>10, <1>11, <1>12 DEF StoreInv

LEMMA SetHistoryKeeps ==
  ASSUME StoreInv, NEW h \in Shortened(History), SetHistory(h) PROVE StoreInv'
<1>1. History \in Seq(Messages)
  BY HistoryShown
<1>2. PICK I \in SUBSET (1 .. Len(History)) : h = Pick(History, I)
  BY <1>1, ShortenedIsPicked
<1> QED
  BY <1>2, RewriteStarts DEF SetHistory

LEMMA CompactKeeps == ASSUME StoreInv, Compact PROVE StoreInv'
<1>1. History \in Seq(Messages)
  BY HistoryShown
<1> DEFINE h == History  I == 1 .. Len(h)
<1>2. h = Pick(History, I) /\ I \in SUBSET (1 .. Len(History))
  <2> HIDE DEF h
  <2>1. Pick(h, I) = h
    BY <1>1, PickAll DEF h
  <2> QED
    BY <2>1 DEF h
<1>3. due' = due \ (ToSet(History) \ ToSet(h))
  BY DEF Compact
<1>4. /\ op = NoOp /\ op' = RewriteOp(h, meta.skip) /\ meta' = [skip |-> 0, count |-> Len(h)]
      /\ lines' = lines /\ open' = open /\ next' = next /\ tears' = tears /\ cuts' = cuts
  BY DEF Compact
<1> HIDE DEF h, I
<1> QED
  BY <1>2, <1>3, <1>4, RewriteStarts

LEMMA RewriteJSONLKeeps == ASSUME StoreInv, RewriteJSONL PROVE StoreInv'
<1> DEFINE h == op.history  skip == op.skip
<1>1. /\ op.kind = "rewrite" /\ lines' = h /\ open' = FALSE /\ op' = NoOp
      /\ meta' = meta /\ next' = next /\ tears' = tears /\ cuts' = cuts /\ due' = due
  BY DEF RewriteJSONL
<1>2. /\ lines \in Seq(Lines) /\ Len(lines) \in Nat /\ Len(lines) <= MaxMessages /\ open \in BOOLEAN
      /\ next \in 1 .. MaxMessages + 1 /\ meta.count \in Nat
      /\ tears \in 0 .. MaxTears /\ cuts \in 0 .. MaxCuts /\ due \subseteq Messages
  BY StoreTypes
<1>3. Len(lines) < next /\ Ascending(lines) /\ \A i \in 1 .. Len(lines) : lines[i] < next
  BY DEF StoreInv, FileOK
<1>4. meta.skip = 0
  BY <1>1 DEF StoreInv, RewriteOK
<1>5. PICK I \in SUBSET (1 .. Len(ReadMessages(lines, skip))) : h = Pick(ReadMessages(lines, skip), I)
  BY <1>1 DEF StoreInv, RewriteOK
<1>6. skip \in 0 .. Len(lines)
  BY <1>1 DEF StoreInv, StoreTypeOK, NoOp, AddOp
<1>7. op # AddOp /\ op'.kind # "rewrite" /\ op' # AddOp
  BY <1>1 DEF NoOp, AddOp
<1>8. Left = ToSet(h)
  BY <1>1 DEF Left
<1> HIDE DEF h, skip
<1>9. /\ h \in Seq(Messages) /\ Len(h) \in Nat /\ Len(h) <= Len(lines)
      /\ ToSet(h) \subseteq Shown(lines, skip) /\ Rising(h)
  BY <1>2, <1>3, <1>5, <1>6, PartOfHistory
<1>10. \A i \in 1 .. Len(h) : h[i] \in Messages /\ h[i] < next /\ h[i] # Bad
  <2>1. \A n \in ReadAt(lines, skip) : lines[n] < next
    BY <1>3, <1>6 DEF ReadAt
  <2>2. \A i \in 1 .. Len(h) : h[i] \in ToSet(h)
    BY DEF ToSet
  <2>3. \A i \in 1 .. Len(h) : h[i] \in Messages
    BY <1>9
  <2> QED
    BY <1>9, <2>1, <2>2, <2>3 DEF Shown, Messages, Bad
<1>11. h \in Seq(Lines)
  BY <1>9 DEF Lines
<1>12. StoreTypeOK'
  <2>1. meta \in [skip : 0 .. Len(lines), count : Nat]
    BY DEF StoreInv, StoreTypeOK
  <2>2. meta' \in [skip : 0 .. Len(h), count : Nat]
    BY <1>1, <1>4, <1>9, <2>1
  <2>3. Len(h) <= MaxLines
    BY <1>2, <1>9 DEF MaxLines
  <2> QED
    BY <1>1, <1>2, <1>11, <2>2, <2>3 DEF StoreTypeOK
<1>13. FileOK'
  <2>1. Len(h) < next
    BY <1>2, <1>3, <1>9
  <2>2. Ascending(h)
    BY <1>9 DEF Rising, Ascending
  <2> QED
    BY <1>1, <1>10, <2>1, <2>2 DEF FileOK, Ascending
<1>14. RewriteOK'
  BY <1>7 DEF RewriteOK
<1>15. DueOK'
  BY <1>1, <1>7 DEF StoreInv, DueOK
<1>16. WoundsOK'
  <2>1. Wounds(lines, open)' = {}
    <3>1. \A i \in 1 .. Len(h) : h[i] # Bad
      BY <1>10
    <3> QED
      BY <1>1, <3>1, Zenon DEF Wounds
  <2>2. Cardinality(Wounds(lines, open)') = 0
    BY <2>1, FS_EmptySet, Zenon
  <2>3. 0 <= tears
    BY <1>2
  <2> QED
    BY <1>1, <2>2, <2>3, Zenon DEF WoundsOK
<1>17. DamageOK'
  <2>1. Owed' = Owed
    BY <1>1, <1>7 DEF Owed
  <2>2. Left' = Shown(h, 0)
    BY <1>1, <1>4, <1>7 DEF Left, Shown, ReadAt
  <2>3. Shown(h, 0) = ToSet(h)
    <3>1. ReadMessages(h, 0) = h
      BY <1>9, ReadWhole
    <3>2. ToSet(ReadMessages(h, 0)) = Shown(h, 0)
      BY <1>11, ReadType DEF Shown
    <3> QED
      BY <3>1, <3>2
  <2>4. (Owed \ Left)' \subseteq Owed \ Left
    BY <1>8, <2>1, <2>2, <2>3
  <2> QED
    BY <1>1, <2>4, NoMoreDamage
<1> QED
  BY <1>12, <1>13, <1>14, <1>15, <1>16, <1>17 DEF StoreInv

LEMMA CutShortKeeps == ASSUME StoreInv, CutShort PROVE StoreInv'
<1>1. /\ op # NoOp /\ cuts < MaxCuts /\ op' = NoOp /\ cuts' = cuts + 1 /\ lines' = lines
      /\ open' = open /\ meta' = meta /\ next' = next /\ tears' = tears /\ due' = due
  BY DEF CutShort
<1>2. /\ lines \in Seq(Lines) /\ Len(lines) \in Nat /\ tears \in 0 .. MaxTears /\ cuts \in 0 .. MaxCuts
  BY StoreTypes
<1>3. op'.kind # "rewrite" /\ op' # AddOp
  BY <1>1 DEF NoOp, AddOp
<1>4. StoreTypeOK'
  <2>1. cuts' \in 0 .. MaxCuts
    BY <1>1, <1>2
  <2> QED
    BY <1>1, <2>1 DEF StoreInv, StoreTypeOK
<1>5. FileOK'
  BY <1>1 DEF StoreInv, FileOK, Ascending
<1>6. RewriteOK'
  BY <1>3 DEF RewriteOK
<1>7. DueOK'
  BY <1>1, <1>3 DEF StoreInv, DueOK
<1>8. WoundsOK'
  <2>1. Wounds(lines, open)' = Wounds(lines, open)
    BY <1>1, Zenon DEF Wounds
  <2> QED
    BY <1>1, <2>1, Zenon DEF StoreInv, WoundsOK
<1>9. DamageOK'
  <2>1. Owed' \subseteq Owed
    BY <1>1, <1>3 DEF Owed
  <2>2. Left' = Shown(lines, meta.skip)
    BY <1>1, <1>3 DEF Left, Shown, ReadAt
  <2>3. Left \subseteq Shown(lines, meta.skip)
    <3>1. CASE op.kind # "rewrite"
      BY <3>1 DEF Left
    <3>2. CASE op.kind = "rewrite"
      <4> DEFINE h == op.history  skip == op.skip
      <4>1. PICK I \in SUBSET (1 .. Len(ReadMessages(lines, skip))) : h = Pick(ReadMessages(lines, skip), I)
        BY <3>2 DEF StoreInv, RewriteOK
      <4>2. skip \in 0 .. Len(lines) /\ Ascending(lines)
        BY <3>2 DEF StoreInv, StoreTypeOK, FileOK, NoOp, AddOp
      <4>3. Left = ToSet(h) /\ meta.skip = 0
        BY <3>2 DEF Left, StoreInv, RewriteOK
      <4> HIDE DEF h, skip
      <4>4. ToSet(h) \subseteq Shown(lines, skip)
        BY <1>2, <4>1, <4>2, PartOfHistory
      <4>5. ReadAt(lines, skip) \subseteq ReadAt(lines, 0)
        BY <4>2 DEF ReadAt
      <4> QED
        BY <4>3, <4>4, <4>5 DEF Shown
    <3> QED
      BY <3>1, <3>2
  <2>4. (Owed \ Left)' \subseteq Owed \ Left
    BY <2>1, <2>2, <2>3
  <2> QED
    BY <1>1, <2>4, NoMoreDamage
<1> QED
  BY <1>4, <1>5, <1>6, <1>7, <1>8, <1>9 DEF StoreInv

\* What makes the store's files good is never lost.
LEMMA StoreStepKeeps == ASSUME StoreInv, [StoreNext]_storeVars PROVE StoreInv'
<1>1. CASE AddLine
  BY <1>1, AddLineKeeps
<1>2. CASE AddTorn
  BY <1>2, AddTornKeeps
<1>3. CASE AddCount
  BY <1>3, AddCountKeeps
<1>4. CASE \E k \in KeepCounts : TruncateHistory(k)
  BY <1>4, TruncateKeeps
<1>5. CASE \E h \in Shortened(History) : SetHistory(h)
  BY <1>5, SetHistoryKeeps
<1>6. CASE Compact
  BY <1>6, CompactKeeps
<1>7. CASE RewriteJSONL
  BY <1>7, RewriteJSONLKeeps
<1>8. CASE CutShort
  BY <1>8, CutShortKeeps
<1>9. CASE UNCHANGED storeVars
  <2>1. /\ lines' = lines /\ open' = open /\ meta' = meta /\ op' = op /\ next' = next
        /\ tears' = tears /\ cuts' = cuts /\ due' = due
    BY <1>9 DEF storeVars
  <2>2. StoreTypeOK' /\ FileOK' /\ RewriteOK' /\ DueOK'
    BY <2>1, Zenon DEF StoreInv, StoreTypeOK, FileOK, Ascending, RewriteOK, DueOK, ReadMessages
  <2>3. WoundsOK' /\ DamageOK'
    BY <2>1, Zenon DEF StoreInv, WoundsOK, Wounds, DamageOK, Owed, Left, Shown, ReadAt
  <2> QED
    BY <2>2, <2>3 DEF StoreInv
<1> QED
  BY <1>1, <1>2, <1>3, <1>4, <1>5, <1>6, <1>7, <1>8, <1>9 DEF StoreNext

\* What ties lines, metadata, operation in progress and acknowledged messages
\* together, after every write, torn append and cut.
THEOREM StoreInvariant == StoreSpec => []StoreInv
<1>1. StoreInit => StoreInv
  BY StoreInitEstablishes
<1>2. StoreInv /\ [StoreNext]_storeVars => StoreInv'
  BY StoreStepKeeps
<1> QED
  BY <1>1, <1>2, PTL DEF StoreSpec

LEMMA FewMessagesLost == ASSUME StoreInv PROVE DamageIsBounded
<1>1. StoreTypeOK
  BY DEF StoreInv
<1>2. ASSUME op = NoOp PROVE Cardinality(due \ ToSet(History)) <= (IF tears = 0 THEN 0 ELSE tears + 1)
  <2>1. op.kind # "rewrite" /\ op # AddOp
    BY <1>2 DEF NoOp, AddOp
  <2>2. Owed \ Left = due \ ToSet(History)
    BY <2>1, HistoryShown DEF Owed, Left
  <2> DEFINE c == Cardinality(due \ ToSet(History))
  <2>3. c + (IF open THEN 1 ELSE 0) <= Cost(tears)
    BY <2>2 DEF StoreInv, DamageOK
  <2>4. c \in Nat
    <3>1. Owed \ Left \subseteq 0 .. MaxMessages
      BY StoreTypes
    <3> QED
      BY <2>2, <3>1, FewerMessages
  <2>5. tears \in Nat /\ open \in BOOLEAN
    <3>1. tears \in 0 .. MaxTears /\ open \in BOOLEAN
      BY StoreTypes
    <3> QED
      BY <3>1
  <2> HIDE DEF c
  <2>6. c <= Cost(tears)
    BY <2>3, <2>4, <2>5 DEF Cost
  <2> QED
    BY <2>6 DEF c, Cost
<1> QED
  BY <1>1, <1>2 DEF DamageIsBounded

\* However many appends of addMsg stop in their line and whatever Truncate,
\* SetHistory and Compact do in between: t torn appends cost acknowledged messages
\* at most t + 1, none cost none, and the skip offset stays within the file.
THEOREM DamageIsBoundedHolds == StoreSpec => []DamageIsBounded
<1>1. StoreInv => DamageIsBounded
  BY FewMessagesLost
<1> QED
  BY <1>1, StoreInvariant, PTL

\* The lines a reader has passed over, read; and the damaged lines.
Hidden(file, skip) == ReadMessages(SubSeq(file, 1, skip), 0)
Scars(file) == Cardinality({i \in DOMAIN file : file[i] = Bad})

\* Two files with the same beginning.
LEMMA SameBeginning ==
  ASSUME NEW f \in Seq(Lines), NEW g \in Seq(Lines), NEW skip \in Nat, skip <= Len(f), skip <= Len(g),
         \A i \in 1 .. skip : f[i] = g[i]
  PROVE  Hidden(f, skip) = Hidden(g, skip)
<1>1. SubSeq(f, 1, skip) = SubSeq(g, 1, skip)
  <2>1. skip \in 0 .. Len(f) /\ skip \in 0 .. Len(g)
    OBVIOUS
  <2> DEFINE a == SubSeq(f, 1, skip)  b == SubSeq(g, 1, skip)
  <2>2. a \in Seq(Lines) /\ Len(a) = skip /\ \A n \in 1 .. skip : f[n] = a[n]
    BY <2>1, TwoParts
  <2>3. b \in Seq(Lines) /\ Len(b) = skip /\ \A n \in 1 .. skip : g[n] = b[n]
    BY <2>1, TwoParts
  <2> HIDE DEF a, b
  <2>4. \A n \in 1 .. skip : a[n] = b[n]
    BY <2>2, <2>3
  <2>5. a = b
    BY <2>2, <2>3, <2>4
  <2> QED
    BY <2>5 DEF a, b
<1> QED
  BY <1>1 DEF Hidden

LEMMA ScarsCount ==
  ASSUME NEW file \in Seq(Lines)
  PROVE  Scars(file) = Cardinality(BadAt(file, 0)) /\ Scars(file) \in Nat /\ IsFiniteSet(BadAt(file, 0))
<1>1. {i \in DOMAIN file : file[i] = Bad} = BadAt(file, 0)
  BY DEF BadAt
<1>2. 0 \in 0 .. Len(file)
  OBVIOUS
<1> QED
  BY <1>1, <1>2, WindowCounts DEF Scars

LEMMA HiddenNothing == ASSUME NEW file \in Seq(Lines) PROVE Hidden(file, 0) = <<>>
<1>1. SubSeq(file, 1, 0) = <<>>
  OBVIOUS
<1>2. <<>> \in Seq(Messages)
  OBVIOUS
<1>3. ReadMessages(<<>>, 0) = <<>>
  BY <1>2, ReadWhole
<1> QED
  BY <1>1, <1>3 DEF Hidden

LEMMA HiddenWhole == ASSUME NEW file \in Seq(Lines) PROVE Hidden(file, Len(file)) = ReadMessages(file, 0)
BY SubSeqFull, Zenon DEF Hidden

\* One line more.
LEMMA GrownFile ==
  ASSUME NEW file \in Seq(Lines), NEW x \in Lines, NEW skip \in 0 .. Len(file)
  PROVE  LET w == Append(file, x) IN
         /\ ReadMessages(w, skip) = IF x = Bad THEN ReadMessages(file, skip)
                                    ELSE Append(ReadMessages(file, skip), x)
         /\ Hidden(w, skip) = Hidden(file, skip)
         /\ Scars(w) = IF x = Bad THEN Scars(file) + 1 ELSE Scars(file)
<1> DEFINE w == Append(file, x)
<1>1. /\ w \in Seq(Lines) /\ Len(w) = Len(file) + 1 /\ w[Len(file) + 1] = x /\ Len(file) \in Nat
      /\ \A i \in 1 .. Len(file) : w[i] = file[i]
      /\ skip \in Nat /\ skip <= Len(file)
  OBVIOUS
<1>2. ReadMessages(w, skip) = IF x = Bad THEN ReadMessages(file, skip)
                              ELSE Append(ReadMessages(file, skip), x)
  BY ReadAppend
<1> HIDE DEF w
<1>3. Hidden(w, skip) = Hidden(file, skip)
  BY <1>1, SameBeginning
<1>4. Scars(w) = IF x = Bad THEN Scars(file) + 1 ELSE Scars(file)
  <2>1. /\ Scars(w) = Cardinality(BadAt(w, 0)) /\ Scars(file) = Cardinality(BadAt(file, 0))
        /\ IsFiniteSet(BadAt(file, 0)) /\ Scars(file) \in Nat
    BY <1>1, ScarsCount
  <2>2. CASE x = Bad
    <3>1. BadAt(w, 0) = BadAt(file, 0) \cup {Len(w)} /\ Len(w) \notin BadAt(file, 0)
      BY <1>1, <2>2 DEF BadAt
    <3>2. Cardinality(BadAt(file, 0) \cup {Len(w)}) = Cardinality(BadAt(file, 0)) + 1
      BY <2>1, <3>1, FS_AddElement, Zenon
    <3> QED
      BY <2>1, <2>2, <3>1, <3>2, Zenon
  <2>3. CASE x # Bad
    <3>1. BadAt(w, 0) = BadAt(file, 0)
      BY <1>1, <2>3 DEF BadAt
    <3> QED
      BY <2>1, <2>3, <3>1
  <2> QED
    BY <2>2, <2>3
<1> QED
  BY <1>2, <1>3, <1>4 DEF w

\* What becomes of an unfinished line: Joined of the store.
LEMMA JoinedFile ==
  ASSUME NEW file \in Seq(Lines), file # <<>>, NEW skip \in 0 .. Len(file)
  PROVE  LET w == Append(Front(file), Bad)
             h == ReadMessages(file, skip)  d == Hidden(file, skip)
             h2 == ReadMessages(w, skip)  d2 == Hidden(w, skip)
         IN  \/ Scars(file) > 0 /\ h2 = h /\ d2 = d /\ Scars(w) = Scars(file)
             \/ /\ Scars(w) = Scars(file) + 1
                /\ \/ h # <<>> /\ h2 = Front(h) /\ d2 = d
                   \/ h = <<>> /\ d # <<>> /\ d2 = Front(d) /\ h2 = h
<1> DEFINE f == Front(file)  x == file[Len(file)]  w == Append(f, Bad)  n == Len(file)
<1>1. /\ f \in Seq(Lines) /\ Len(f) = n - 1 /\ n \in Nat /\ n > 0 /\ x \in Lines /\ Bad \in Lines
      /\ file = Append(f, x)
  <2>1. n \in Nat /\ n > 0 /\ x \in Lines /\ Bad \in Lines
    BY DEF Lines
  <2>2. n - 1 \in 0 .. n
    BY <2>1
  <2> DEFINE c == n - 1
  <2>3. /\ SubSeq(file, 1, c) \in Seq(Lines) /\ Len(SubSeq(file, 1, c)) = c
        /\ \A i \in 1 .. c : file[i] = SubSeq(file, 1, c)[i]
    <3> HIDE DEF c, n
    <3>1. c \in 0 .. Len(file)
      BY <2>2 DEF c, n
    <3> QED
      BY <3>1, TwoParts
  <2>4. f = SubSeq(file, 1, c)
    BY DEF Front
  <2>5. f \in Seq(Lines) /\ Len(f) = c /\ \A i \in 1 .. c : file[i] = f[i]
    BY <2>3, <2>4
  <2> HIDE DEF f
  <2>6. file = Append(f, x)
    BY <2>1, <2>5
  <2> QED
    BY <2>1, <2>5, <2>6
<1>2. /\ w \in Seq(Lines) /\ Len(w) = n /\ \A i \in 1 .. n - 1 : w[i] = file[i]
      /\ w[n] = Bad
  <2> HIDE DEF f, x
  <2>1. w \in Seq(Lines) /\ Len(w) = n /\ w[n] = Bad /\ \A i \in 1 .. n - 1 : w[i] = f[i] /\ file[i] = f[i]
    BY <1>1
  <2> QED
    BY <2>1
<1> HIDE DEF f, x, w, n
<1>3. CASE x = Bad
  <2>1. w = file
    BY <1>1, <1>3 DEF w
  <2>2. Len(f) + 1 \in BadAt(file, 0)
    <3>1. file[n] = Bad
      BY <1>3 DEF x, n
    <3> QED
      BY <1>1, <3>1 DEF BadAt, n
  <2>3. Scars(file) > 0
    <3>1. Scars(file) = Cardinality(BadAt(file, 0)) /\ Scars(file) \in Nat /\ IsFiniteSet(BadAt(file, 0))
      BY ScarsCount
    <3>2. Cardinality(BadAt(file, 0)) # 0
      BY <2>2, <3>1, FS_EmptySet
    <3> QED
      BY <3>1, <3>2
  <2> QED
    BY <2>1, <2>3 DEF w, f
<1>4. CASE x # Bad
  <2>1. Scars(w) = Scars(file) + 1
    <3>1. 0 \in 0 .. Len(f)
      BY <1>1
    <3>2. Scars(w) = Scars(f) + 1
      BY <1>1, <3>1, GrownFile DEF w
    <3>3. Scars(file) = Scars(f)
      BY <1>1, <1>4, <3>1, GrownFile
    <3> QED
      BY <3>2, <3>3
  <2>2. CASE skip < n
    <3> DEFINE r == ReadMessages(f, skip)
    <3>1. skip \in 0 .. Len(f) /\ skip \in Nat /\ x \in Messages
      BY <1>1, <1>4, <2>2 DEF Lines
    <3>2. /\ ReadMessages(w, skip) = r /\ Hidden(w, skip) = Hidden(f, skip)
      BY <1>1, <3>1, GrownFile DEF w
    <3>3. /\ ReadMessages(file, skip) = Append(r, x) /\ Hidden(file, skip) = Hidden(f, skip)
      BY <1>1, <1>4, <3>1, GrownFile
    <3>4. r \in Seq(Messages)
      BY <1>1, <3>1, ReadType
    <3> HIDE DEF r
    <3>5. Front(Append(r, x)) = r /\ Append(r, x) # <<>>
      BY <3>1, <3>4 DEF Front
    <3> QED
      BY <2>1, <3>2, <3>3, <3>5 DEF w, f
  <2>3. CASE skip = n
    <3> DEFINE r == ReadMessages(f, 0)
    <3>1. 0 \in 0 .. Len(f) /\ x \in Messages
      BY <1>1, <1>4 DEF Lines
    <3>2. ReadMessages(w, skip) = <<>> /\ ReadMessages(file, skip) = <<>>
      BY <1>2, <2>3, ReadNothing DEF n
    <3>3. Hidden(w, skip) = r
      <4>1. ReadMessages(w, 0) = r
        BY <1>1, <3>1, ReadAppend DEF w
      <4> QED
        BY <1>2, <2>3, <4>1, HiddenWhole
    <3>4. Hidden(file, skip) = Append(r, x)
      <4>1. ReadMessages(file, 0) = Append(r, x)
        BY <1>1, <1>4, <3>1, ReadAppend
      <4> QED
        BY <2>3, <4>1, HiddenWhole DEF n
    <3>5. r \in Seq(Messages)
      BY <1>1, ReadType
    <3> HIDE DEF r
    <3>6. Front(Append(r, x)) = r /\ Append(r, x) # <<>>
      BY <3>1, <3>5 DEF Front
    <3> QED
      BY <2>1, <3>2, <3>3, <3>4, <3>6 DEF w, f
  <2>4. skip < n \/ skip = n
    BY <1>1 DEF n
  <2> QED
    BY <2>2, <2>3, <2>4
<1> QED
  BY <1>3, <1>4

\* Moving the skip offset forward hides what comes before it.
LEMMA MovedSkip ==
  ASSUME NEW file \in Seq(Lines), NEW cut \in 0 .. Len(file), NEW skip \in 0 .. cut
  PROVE  LET h == ReadMessages(file, skip)  n == Len(ReadMessages(file, cut)) IN
         /\ h \in Seq(Messages) /\ n \in 0 .. Len(h)
         /\ ReadMessages(file, cut) = SubSeq(h, Len(h) - n + 1, Len(h))
         /\ Hidden(file, cut) = Hidden(file, skip) \o SubSeq(h, 1, Len(h) - n)
<1> DEFINE b == SubSeq(file, 1, cut)  p == ReadMessages(b, skip)  q == ReadMessages(file, cut)
           h == ReadMessages(file, skip)
<1>1. /\ cut \in Nat /\ skip \in Nat /\ skip <= cut /\ cut <= Len(file) /\ Len(file) \in Nat
      /\ skip \in 0 .. Len(file)
  OBVIOUS
<1>2. b \in Seq(Lines) /\ Len(b) = cut /\ \A i \in 1 .. cut : file[i] = b[i]
  BY TwoParts
<1> HIDE DEF b
<1>3. h = p \o q
  BY ReadSplit DEF b
<1>4. p \in Seq(Messages) /\ q \in Seq(Messages)
  BY <1>1, <1>2, ReadType
<1>5. Hidden(file, cut) = Hidden(b, skip) \o p
  <2>1. skip \in 0 .. Len(b) /\ 0 \in 0 .. skip
    BY <1>1, <1>2
  <2>2. ReadMessages(b, 0) = ReadMessages(SubSeq(b, 1, skip), 0) \o ReadMessages(b, skip)
    BY <1>2, <2>1, ReadSplit
  <2> QED
    BY <2>2 DEF Hidden, b
<1>6. Hidden(b, skip) = Hidden(file, skip)
  <2>1. \A i \in 1 .. skip : b[i] = file[i]
    BY <1>1, <1>2
  <2> QED
    BY <1>1, <1>2, <2>1, SameBeginning
<1> HIDE DEF p, q
<1>7. /\ Len(h) = Len(p) + Len(q) /\ Len(p) \in Nat /\ Len(q) \in Nat /\ h \in Seq(Messages)
  BY <1>3, <1>4
<1>8. Len(h) - Len(q) = Len(p) /\ Len(q) \in 0 .. Len(h) /\ Len(h) - Len(q) + 1 = Len(p) + 1
  BY <1>7
<1>9. SubSeq(h, 1, Len(p)) = p
  <2> DEFINE m == Len(p)  g == SubSeq(h, 1, m)
  <2>1. m \in 0 .. Len(h)
    BY <1>7
  <2>2. g \in Seq(Messages) /\ Len(g) = m /\ \A n \in 1 .. m : h[n] = g[n]
    BY <1>7, <2>1, TwoParts
  <2> HIDE DEF g
  <2>3. \A n \in 1 .. m : g[n] = p[n]
    BY <1>3, <1>4, <2>2
  <2>4. g = p
    BY <1>4, <2>2, <2>3
  <2> QED
    BY <2>4 DEF g
<1>10. SubSeq(h, Len(p) + 1, Len(h)) = q
  <2> DEFINE m == Len(p)  g == SubSeq(h, m + 1, Len(h))
  <2>1. m \in 0 .. Len(h) /\ Len(h) - m = Len(q) /\ m \in Nat
    BY <1>7
  <2>2. g \in Seq(Messages) /\ Len(g) = Len(q) /\ \A n \in 1 .. Len(q) : h[n + m] = g[n]
    <3>1. g \in Seq(Messages) /\ Len(g) = Len(h) - m /\ \A n \in 1 .. Len(h) - m : h[n + m] = g[n]
      BY <1>7, <2>1, TwoParts
    <3> QED
      BY <2>1, <3>1
  <2> HIDE DEF g, h
  <2>3. \A n \in 1 .. Len(q) : g[n] = q[n]
    BY <1>3, <1>4, <2>1, <2>2
  <2>4. g = q
    BY <1>4, <2>2, <2>3
  <2> QED
    BY <2>4 DEF g, h
<1> QED
  BY <1>5, <1>6, <1>7, <1>8, <1>9, <1>10 DEF q

\* The store's state in the files.
LEMMA ViewTypes ==
  ASSUME StoreInv
  PROVE  Skip \in 0 .. Len(lines) /\ Skip \in Nat /\ lines \in Seq(Lines)
<1>1. /\ lines \in Seq(Lines) /\ meta.skip \in 0 .. Len(lines) /\ Len(lines) \in Nat
  BY StoreTypes
<1>2. op.kind = "rewrite" => op.skip \in 0 .. Len(lines)
  BY DEF StoreInv, StoreTypeOK, NoOp, AddOp
<1>3. Skip \in 0 .. Len(lines)
  BY <1>1, <1>2 DEF Skip
<1> QED
  BY <1>1, <1>3

LEMMA InitImplements == StoreInit => Store!Init
<1> SUFFICES ASSUME StoreInit PROVE Store!Init
  OBVIOUS
<1>1. lines = <<>> /\ open = FALSE /\ meta = [skip |-> 0, count |-> 0] /\ op = NoOp
  BY DEF StoreInit
<1>2. Skip = 0
  BY <1>1 DEF Skip, NoOp
<1>3. lines \in Seq(Lines) /\ lines \in Seq(Messages)
  BY <1>1
<1>4. ReadMessages(lines, Skip) = <<>>
  BY <1>1, <1>2, <1>3, ReadWhole
<1>5. ReadMessages(SubSeq(lines, 1, Skip), 0) = <<>>
  BY <1>2, <1>3, HiddenNothing DEF Hidden
<1>6. Cardinality({i \in DOMAIN lines : lines[i] = Bad}) = 0
  <2>1. {i \in DOMAIN lines : lines[i] = Bad} = {}
    BY <1>1
  <2> QED
    BY <2>1, FS_EmptySet
<1> QED
  BY <1>1, <1>4, <1>5, <1>6, Zenon DEF Store!Init

\* A step that leaves the lines and the offset a reader goes by.
LEMMA SameView ==
  ASSUME lines' = lines, Skip' = Skip, open' = open PROVE UNCHANGED Store!vars
<1>1. ReadMessages(lines, Skip)' = ReadMessages(lines, Skip)
  BY Zenon DEF ReadMessages, Bad
<1>2. ReadMessages(SubSeq(lines, 1, Skip), 0)' = ReadMessages(SubSeq(lines, 1, Skip), 0)
  BY Zenon DEF ReadMessages, Bad
<1>3. Cardinality({i \in DOMAIN lines : lines[i] = Bad})' = Cardinality({i \in DOMAIN lines : lines[i] = Bad})
  BY Zenon DEF Bad
<1> QED
  BY <1>1, <1>2, <1>3, Zenon DEF Store!vars

\* The store's state after a step, by the new file and the new offset.
LEMMA NewView ==
  ASSUME NEW w, NEW s, lines' = w, Skip' = s
  PROVE  /\ ReadMessages(lines, Skip)' = ReadMessages(w, s)
         /\ ReadMessages(SubSeq(lines, 1, Skip), 0)' = Hidden(w, s)
         /\ Cardinality({i \in DOMAIN lines : lines[i] = Bad})' = Scars(w)
<1>1. ReadMessages(lines, Skip)' = ReadMessages(w, s)
  BY Zenon DEF ReadMessages, Bad
<1>2. ReadMessages(SubSeq(lines, 1, Skip), 0)' = Hidden(w, s)
  BY Zenon DEF ReadMessages, Hidden, Bad
<1>3. Cardinality({i \in DOMAIN lines : lines[i] = Bad})' = Scars(w)
  BY Zenon DEF Scars, Bad
<1> QED
  BY <1>1, <1>2, <1>3

LEMMA OldView ==
  /\ ReadMessages(SubSeq(lines, 1, Skip), 0) = Hidden(lines, Skip)
  /\ Cardinality({i \in DOMAIN lines : lines[i] = Bad}) = Scars(lines)
BY DEF Hidden, Scars

\* The unfinished line of the files is the one of the store.
LEMMA JoinImplements ==
  ASSUME StoreInv, open, NEW x \in Lines, lines' = Appended(x), Skip' = Skip
  PROVE  Store!Joined
<1> DEFINE w == Append(Front(lines), Bad)
<1>1. lines' = w /\ lines # <<>> /\ lines \in Seq(Lines) /\ Skip \in 0 .. Len(lines)
  <2>1. lines # <<>>
    BY DEF StoreInv, StoreTypeOK
  <2> QED
    BY <2>1, ViewTypes DEF Appended
<1> HIDE DEF w
<1>2. /\ ReadMessages(lines, Skip)' = ReadMessages(w, Skip)
      /\ ReadMessages(SubSeq(lines, 1, Skip), 0)' = Hidden(w, Skip)
      /\ Cardinality({i \in DOMAIN lines : lines[i] = Bad})' = Scars(w)
  BY <1>1, NewView
<1> DEFINE h == ReadMessages(lines, Skip)  d == Hidden(lines, Skip)
           h2 == ReadMessages(w, Skip)  d2 == Hidden(w, Skip)
<1>3. \/ Scars(lines) > 0 /\ h2 = h /\ d2 = d /\ Scars(w) = Scars(lines)
      \/ /\ Scars(w) = Scars(lines) + 1
         /\ \/ h # <<>> /\ h2 = Front(h) /\ d2 = d
            \/ h = <<>> /\ d # <<>> /\ d2 = Front(d) /\ h2 = h
  BY <1>1, JoinedFile DEF w
<1> QED
  BY <1>2, <1>3, OldView, Zenon DEF Store!Joined, Front, Store!Front

LEMMA AddLineImplements == ASSUME StoreInv, AddLine PROVE Store!Next
<1>1. op = NoOp /\ lines' = Appended(next) /\ open' = FALSE /\ op' = AddOp /\ meta' = meta
  BY DEF AddLine
<1>2. Skip' = Skip
  BY <1>1 DEF Skip, NoOp, AddOp
<1>3. next \in Messages /\ next # Bad /\ next \in Lines
  <2>1. next \in 1 .. MaxMessages + 1 /\ next <= MaxMessages
    BY StoreTypes DEF AddLine
  <2> QED
    BY <2>1 DEF Messages, Lines, Bad
<1>4. CASE open
  <2>1. Store!Joined
    BY <1>1, <1>2, <1>3, <1>4, JoinImplements
  <2> QED
    BY <1>1, <1>4, <2>1, Zenon DEF Store!Next, Store!AddJoined
<1>5. CASE ~open
  <2> DEFINE w == Append(lines, next)
  <2>1. lines' = w /\ lines \in Seq(Lines) /\ Skip \in 0 .. Len(lines)
    BY <1>1, <1>5, ViewTypes DEF Appended
  <2>2. /\ ReadMessages(w, Skip) = Append(ReadMessages(lines, Skip), next)
        /\ Hidden(w, Skip) = Hidden(lines, Skip)
        /\ Scars(w) = Scars(lines)
    BY <1>3, <2>1, GrownFile
  <2> HIDE DEF w
  <2>3. /\ ReadMessages(lines, Skip)' = ReadMessages(w, Skip)
        /\ ReadMessages(SubSeq(lines, 1, Skip), 0)' = Hidden(w, Skip)
        /\ Cardinality({i \in DOMAIN lines : lines[i] = Bad})' = Scars(w)
    BY <1>2, <2>1, NewView
  <2>4. open' = open
    <3>1. open \in BOOLEAN
      BY StoreTypes
    <3> QED
      BY <1>1, <1>5, <3>1
  <2>5. Store!Add(next)
    BY <1>5, <2>2, <2>3, <2>4, OldView, Zenon DEF Store!Add
  <2> QED
    BY <1>3, <2>5, Zenon DEF Store!Next
<1> QED
  BY <1>4, <1>5

LEMMA AddTornImplements == ASSUME StoreInv, AddTorn PROVE Store!Next
<1>1. op = NoOp /\ open' = TRUE /\ op' = op /\ meta' = meta
  BY DEF AddTorn
<1>2. Skip' = Skip
  BY <1>1 DEF Skip
<1>3. next \in Messages /\ next # Bad /\ next \in Lines /\ Bad \in Lines
  <2>1. next \in 1 .. MaxMessages + 1 /\ next <= MaxMessages
    BY StoreTypes DEF AddTorn
  <2> QED
    BY <2>1 DEF Messages, Lines, Bad
<1>4. PICK x \in {next, Bad} : lines' = Appended(x)
  BY DEF AddTorn
<1>5. CASE open
  <2>1. Store!Joined
    <3>1. x \in Lines
      BY <1>3
    <3> QED
      BY <1>2, <1>4, <1>5, <3>1, JoinImplements
  <2>2. Store!Tear(next)
    BY <1>1, <1>5, <2>1, Zenon DEF Store!Tear
  <2> QED
    BY <1>3, <2>2, Zenon DEF Store!Next
<1>6. CASE ~open
  <2> DEFINE w == Append(lines, x)
  <2>1. lines' = w /\ lines \in Seq(Lines) /\ Skip \in 0 .. Len(lines) /\ x \in Lines
    BY <1>3, <1>4, <1>6, ViewTypes DEF Appended
  <2>2. /\ ReadMessages(w, Skip) = IF x = Bad THEN ReadMessages(lines, Skip)
                                   ELSE Append(ReadMessages(lines, Skip), x)
        /\ Hidden(w, Skip) = Hidden(lines, Skip)
        /\ Scars(w) = IF x = Bad THEN Scars(lines) + 1 ELSE Scars(lines)
    BY <2>1, GrownFile
  <2> HIDE DEF w
  <2>3. /\ ReadMessages(lines, Skip)' = ReadMessages(w, Skip)
        /\ ReadMessages(SubSeq(lines, 1, Skip), 0)' = Hidden(w, Skip)
        /\ Cardinality({i \in DOMAIN lines : lines[i] = Bad})' = Scars(w)
    BY <1>2, <2>1, NewView
  <2>4. Store!Tear(next)
    <3>1. CASE x = Bad
      <4>1. ReadMessages(w, Skip) = ReadMessages(lines, Skip) /\ Scars(w) = Scars(lines) + 1
        BY <2>2, <3>1, Zenon
      <4> QED
        BY <1>1, <1>6, <2>2, <2>3, <4>1, OldView, Zenon DEF Store!Tear
    <3>2. CASE x # Bad
      <4>1. ReadMessages(w, Skip) = Append(ReadMessages(lines, Skip), next) /\ Scars(w) = Scars(lines)
        BY <1>4, <2>2, <3>2, Zenon
      <4> QED
        BY <1>1, <1>6, <2>2, <2>3, <4>1, OldView, Zenon DEF Store!Tear
    <3> QED
      BY <3>1, <3>2
  <2> QED
    BY <1>3, <2>4, Zenon DEF Store!Next
<1> QED
  BY <1>5, <1>6

LEMMA TruncateImplements ==
  ASSUME StoreInv, NEW k \in KeepCounts, TruncateHistory(k) PROVE Store!Next
<1> DEFINE s == IF k = 0 THEN Len(lines)
                ELSE IF k < Len(lines) - meta.skip THEN Len(lines) - k ELSE meta.skip
<1>1. op = NoOp /\ op' = op /\ lines' = lines /\ open' = open /\ meta' = [count |-> Len(lines), skip |-> s]
  BY DEF TruncateHistory
<1>2. Skip = meta.skip /\ Skip' = s
  <2>1. meta'.skip = s
    BY <1>1
  <2> QED
    BY <1>1, <2>1 DEF Skip, NoOp
<1>3. lines \in Seq(Lines) /\ Skip \in 0 .. Len(lines) /\ k \in Nat /\ Len(lines) \in Nat
  BY ViewTypes
<1>4. s \in 0 .. Len(lines) /\ Skip \in 0 .. s /\ s \in Nat
      /\ (k = 0 => s = Len(lines))
      /\ (s # Skip /\ k # 0 => Len(lines) - s = k)
      /\ (s = Skip /\ k # 0 => Len(lines) - s <= k)
  BY <1>2, <1>3
<1> HIDE DEF s
<1> DEFINE h == ReadMessages(lines, Skip)  n == Len(ReadMessages(lines, s))
<1>5. /\ h \in Seq(Messages) /\ n \in 0 .. Len(h)
      /\ ReadMessages(lines, s) = SubSeq(h, Len(h) - n + 1, Len(h))
      /\ Hidden(lines, s) = Hidden(lines, Skip) \o SubSeq(h, 1, Len(h) - n)
  BY <1>3, <1>4, MovedSkip
<1>6. n <= k /\ (n + Scars(lines) >= k \/ n = Len(h))
  <2>1. n = Cardinality(ReadAt(lines, s))
    BY <1>3, <1>4, ReadType
  <2>2. /\ Cardinality(ReadAt(lines, s)) \in Nat /\ Cardinality(BadAt(lines, s)) \in Nat
        /\ Cardinality(ReadAt(lines, s)) + Cardinality(BadAt(lines, s)) = Len(lines) - s
    BY <1>3, <1>4, WindowCounts
  <2>3. Cardinality(BadAt(lines, s)) <= Scars(lines) /\ Scars(lines) \in Nat
    <3>1. Scars(lines) = Cardinality(BadAt(lines, 0)) /\ IsFiniteSet(BadAt(lines, 0)) /\ Scars(lines) \in Nat
      BY <1>3, ScarsCount
    <3>2. BadAt(lines, s) \subseteq BadAt(lines, 0)
      BY <1>4 DEF BadAt
    <3> QED
      BY <3>1, <3>2, FS_Subset
  <2>4. CASE s = Skip /\ k # 0
    BY <1>3, <1>4, <2>1, <2>2, <2>4
  <2>5. CASE s # Skip \/ k = 0
    <3>1. Len(lines) - s = k
      BY <1>3, <1>4, <2>2, <2>5
    <3> QED
      BY <1>3, <2>1, <2>2, <2>3, <3>1
  <2> QED
    BY <2>4, <2>5
<1>7. /\ ReadMessages(lines, Skip)' = ReadMessages(lines, s)
      /\ ReadMessages(SubSeq(lines, 1, Skip), 0)' = Hidden(lines, s)
      /\ Cardinality({i \in DOMAIN lines : lines[i] = Bad})' = Scars(lines)
  BY <1>1, <1>2, NewView
<1> HIDE DEF h, n
<1>8. /\ ReadMessages(lines, Skip)' = SubSeq(h, Len(h) - n + 1, Len(h))
      /\ ReadMessages(SubSeq(lines, 1, Skip), 0)' = Hidden(lines, Skip) \o SubSeq(h, 1, Len(h) - n)
  BY <1>5, <1>7
<1>9. Store!Truncate(k)
  <2>1. n \in 0 .. Len(h) /\ n <= k /\ (n + Scars(lines) >= k \/ n = Len(h))
    BY <1>5, <1>6
  <2> QED
    BY <1>1, <1>7, <1>8, <2>1, OldView, Zenon DEF Store!Truncate, h
<1> QED
  BY <1>9, Zenon DEF Store!Next

LEMMA RewriteImplements == ASSUME StoreInv, RewriteJSONL PROVE Store!Next
<1> DEFINE h == op.history
<1>1. op.kind = "rewrite" /\ lines' = h /\ open' = FALSE /\ op' = NoOp /\ meta' = meta
  BY DEF RewriteJSONL
<1>2. Skip = op.skip /\ meta.skip = 0 /\ Skip' = 0
  <2>1. meta.skip = 0
    BY <1>1 DEF StoreInv, RewriteOK
  <2> QED
    BY <1>1, <2>1 DEF Skip, NoOp
<1>3. PICK I \in SUBSET (1 .. Len(ReadMessages(lines, Skip))) : h = Pick(ReadMessages(lines, Skip), I)
  BY <1>1, <1>2 DEF StoreInv, RewriteOK
<1> HIDE DEF h
<1>4. lines \in Seq(Lines) /\ Skip \in 0 .. Len(lines) /\ Skip \in Nat /\ Ascending(lines)
  BY ViewTypes DEF StoreInv, FileOK
<1>5. h \in Seq(Messages)
  BY <1>3, <1>4, PartOfHistory
<1>6. h \in Seq(Lines)
  BY <1>5 DEF Lines
<1>7. ReadMessages(h, 0) = h /\ Hidden(h, 0) = <<>>
  BY <1>5, <1>6, ReadWhole, HiddenNothing
<1>8. Scars(h) = 0
  <2>1. {i \in DOMAIN h : h[i] = Bad} = {}
    BY <1>5 DEF Messages, Bad
  <2> QED
    BY <2>1, FS_EmptySet DEF Scars
<1>9. /\ ReadMessages(lines, Skip)' = h
      /\ ReadMessages(SubSeq(lines, 1, Skip), 0)' = <<>>
      /\ Cardinality({i \in DOMAIN lines : lines[i] = Bad})' = 0
  BY <1>1, <1>2, <1>7, <1>8, NewView
<1>10. I \in SUBSET (DOMAIN ReadMessages(lines, Skip))
  <2>1. ReadMessages(lines, Skip) \in Seq(Messages)
    BY <1>4, ReadType
  <2> QED
    BY <2>1
<1>11. Store!Replace(Pick(ReadMessages(lines, Skip), I))
  BY <1>1, <1>3, <1>9, Zenon DEF Store!Replace
<1> QED
  BY <1>10, <1>11, Zenon DEF Store!Next, Pick, Store!Pick

LEMMA CutShortImplements == ASSUME StoreInv, CutShort PROVE Store!Next \/ UNCHANGED Store!vars
<1>1. op # NoOp /\ op' = NoOp /\ lines' = lines /\ open' = open /\ meta' = meta
  BY DEF CutShort
<1>2. CASE op.kind # "rewrite"
  <2>1. Skip' = Skip
    BY <1>1, <1>2 DEF Skip, NoOp
  <2> QED
    BY <1>1, <2>1, SameView
<1>3. CASE op.kind = "rewrite"
  <2>1. Skip' = 0
    <3>1. meta.skip = 0
      BY <1>3 DEF StoreInv, RewriteOK
    <3> QED
      BY <1>1, <3>1 DEF Skip, NoOp
  <2>2. lines \in Seq(Lines) /\ Skip \in 0 .. Len(lines) /\ 0 \in 0 .. Skip
    <3>1. lines \in Seq(Lines) /\ Skip \in 0 .. Len(lines) /\ Skip \in Nat
      BY ViewTypes
    <3> QED
      BY <3>1
  <2>3. ReadMessages(lines, 0) = Hidden(lines, Skip) \o ReadMessages(lines, Skip)
    BY <2>2, ReadSplit DEF Hidden
  <2>4. Hidden(lines, 0) = <<>>
    BY <2>2, HiddenNothing
  <2>5. /\ ReadMessages(lines, Skip)' = ReadMessages(lines, 0)
        /\ ReadMessages(SubSeq(lines, 1, Skip), 0)' = Hidden(lines, 0)
        /\ Cardinality({i \in DOMAIN lines : lines[i] = Bad})' = Scars(lines)
    BY <1>1, <2>1, NewView
  <2>6. Store!Reappear
    BY <1>1, <2>3, <2>4, <2>5, OldView, Zenon DEF Store!Reappear
  <2> QED
    BY <2>6, Zenon DEF Store!Next
<1> QED
  BY <1>2, <1>3

\* Every step on the files is a step of the store, or none.
LEMMA StepImplements ==
  ASSUME StoreInv, [StoreNext]_storeVars PROVE [Store!Next]_(Store!vars)
<1>1. CASE AddLine
  BY <1>1, AddLineImplements
<1>2. CASE AddTorn
  BY <1>2, AddTornImplements
<1>3. CASE AddCount
  <2>1. lines' = lines /\ open' = open /\ op = AddOp /\ op' = NoOp
    BY <1>3 DEF AddCount
  <2>2. meta'.skip = meta.skip
    <3>1. meta \in [skip : 0 .. Len(lines), count : Nat]
      BY DEF StoreInv, StoreTypeOK
    <3>2. meta' = [meta EXCEPT !.count = @ + 1]
      BY <1>3 DEF AddCount
    <3> QED
      BY <3>1, <3>2
  <2>3. Skip' = Skip
    BY <2>1, <2>2 DEF Skip, AddOp, NoOp
  <2> QED
    BY <2>1, <2>3, SameView
<1>4. CASE \E k \in KeepCounts : TruncateHistory(k)
  BY <1>4, TruncateImplements
<1>5. CASE \E h \in Shortened(History) : SetHistory(h)
  <2>1. PICK h \in Shortened(History) : SetHistory(h)
    BY <1>5
  <2>2. lines' = lines /\ open' = open /\ op = NoOp /\ op' = RewriteOp(h, meta.skip)
    BY <2>1 DEF SetHistory
  <2>3. Skip' = Skip
    BY <2>2 DEF Skip, RewriteOp, NoOp
  <2> QED
    BY <2>2, <2>3, SameView
<1>6. CASE Compact
  <2>1. lines' = lines /\ open' = open /\ op = NoOp /\ op' = RewriteOp(History, meta.skip)
    BY <1>6 DEF Compact
  <2>2. Skip' = Skip
    BY <2>1 DEF Skip, RewriteOp, NoOp
  <2> QED
    BY <2>1, <2>2, SameView
<1>7. CASE RewriteJSONL
  BY <1>7, RewriteImplements
<1>8. CASE CutShort
  BY <1>8, CutShortImplements
<1>9. CASE UNCHANGED storeVars
  <2>1. lines' = lines /\ open' = open /\ op' = op /\ meta' = meta
    BY <1>9 DEF storeVars
  <2>2. Skip' = Skip
    BY <2>1 DEF Skip
  <2> QED
    BY <2>1, <2>2, SameView
<1> QED
  BY <1>1, <1>2, <1>3, <1>4, <1>5, <1>6, <1>7, <1>8, <1>9 DEF StoreNext

\* The files implement the contract of memory.Store with the exceptions that
\* SessionStore names: every write, crash between two writes and torn append is one
\* of its steps or changes nothing a reader could see.
THEOREM FilesImplementStore == StoreSpec => ImplementsSessionStore
<1>1. StoreInit => Store!Init
  BY InitImplements
<1>2. StoreInv /\ [StoreNext]_storeVars => [Store!Next]_(Store!vars)
  BY StepImplements
<1> QED
  BY <1>1, <1>2, StoreInvariant, PTL DEF StoreSpec, ImplementsSessionStore, Store!Spec

-----------------------------------------------------------------------------
(***************************************************************************)
(* The turns of a session                                                  *)
(***************************************************************************)
HIDE StoreAssumption
USE SessionTurnsAssumption

Msgs == [turn : Turns, role : {"user", "call", "tool", "answer"}, round : 0 .. MaxRounds, n : 0 .. MaxCalls]
Jobs == Turns \cup {Summariser}
Fields == {"at", "prompt", "round", "retry", "n", "got"}

\* A turn counts rounds, attempts and results within their bounds.
TurnOK(t) ==
  /\ DOMAIN turn[t] = Fields
  /\ turn[t].at \in Over \cup {"read", "clearing", "model", "tools", "compress", "answer", "saved", "respond", "failed"}
  /\ turn[t].round \in 0 .. MaxRounds /\ turn[t].retry \in 0 .. MaxRetries
  /\ turn[t].n \in 0 .. MaxCalls /\ turn[t].got \in 0 .. turn[t].n
  /\ turn[t].at = "tools" => turn[t].got < turn[t].n

TurnTypes == DOMAIN turn = Turns /\ \A t \in Turns : TurnOK(t)

TurnJobs == {"idle", "halve", "compact", "cut", "tell"}
JobRecords == [at : TurnJobs \cup {"started", "summarize", "truncate"}, snap : Seq(Msgs), told : SUBSET Msgs]

JobTypes ==
  /\ job \in [Jobs -> JobRecords]
  /\ \A t \in Turns : job[t].at \in TurnJobs /\ (job[t].at # "idle" => turn[t].at = "compress")
  /\ job[Summariser].at # "halve"
  /\ \A p \in Jobs : job[p].at \in {"halve", "summarize"} => Len(job[p].snap) > KeepLast

InOrder(s) == \A i, j \in 1 .. Len(s) : i < j /\ s[i].turn = s[j].turn => Rank(s[i]) < Rank(s[j])

\* Messages that were said, those of a turn in order.
Kept(s) == InOrder(s) /\ \A i \in 1 .. Len(s) : s[i] \in said

SessionTypes ==
  /\ said \in SUBSET Msgs /\ IsFiniteSet(said)
  /\ history \in Seq(Msgs) /\ Kept(history)
  /\ summary \subseteq said /\ tiered \subseteq said
  /\ \A p \in Jobs : Kept(job[p].snap) /\ job[p].told \subseteq said
  /\ sentInRound \in BOOLEAN

\* What a turn has said so far comes before what it will say next.
ProgressOf(t) ==
  /\ turn[t].at \in {"waiting", "read"} => \A m \in said : m.turn # t
  /\ turn[t].at \in {"model", "compress", "tools"} =>
       \A m \in said : m.turn = t => m.role # "answer" /\ m.round <= turn[t].round
  /\ turn[t].at = "tools" =>
       \A m \in said : m.turn = t /\ m.role = "tool" /\ m.round = turn[t].round => m.n <= turn[t].got
  /\ turn[t].at = "answer" => \A m \in said : m.turn = t => m.role # "answer"

\* Every round a turn counts was saved.
RoundsOf(t) ==
  \A k \in 1 .. turn[t].round : \E m \in said : m.role = "call" /\ m.turn = t /\ m.round = k

Progress == \A t \in Turns : ProgressOf(t) /\ RoundsOf(t)

OneInboxTurn == \A t, u \in Active \cap Inbox : t = u

TurnsInv ==
  TurnTypes /\ JobTypes /\ SessionTypes /\ Progress /\ OneInboxTurn

-----------------------------------------------------------------------------
(***************************************************************************)
(* Order                                                                   *)
(***************************************************************************)

LEMMA SeqFacts ==
  ASSUME NEW S, NEW s \in Seq(S)
  PROVE  Len(s) \in Nat /\ DOMAIN s = 1 .. Len(s) /\ \A i \in 1 .. Len(s) : s[i] \in S
OBVIOUS

LEMMA AppendFacts ==
  ASSUME NEW S, NEW s \in Seq(S), NEW e \in S
  PROVE  /\ Append(s, e) \in Seq(S) /\ Len(Append(s, e)) = Len(s) + 1 /\ Len(s) \in Nat
         /\ \A i \in 1 .. Len(s) : Append(s, e)[i] = s[i]
         /\ Append(s, e)[Len(s) + 1] = e
OBVIOUS

LEMMA SubSeqFacts ==
  ASSUME NEW S, NEW s \in Seq(S), NEW a \in Nat \ {0}, NEW b \in Nat, b <= Len(s), a <= b + 1
  PROVE  /\ SubSeq(s, a, b) \in Seq(S) /\ Len(SubSeq(s, a, b)) = b - a + 1
         /\ \A i \in 1 .. b - a + 1 : SubSeq(s, a, b)[i] = s[a + i - 1]
OBVIOUS

LEMMA PrefixFacts ==
  ASSUME NEW S, NEW s \in Seq(S), NEW b \in Nat, b <= Len(s)
  PROVE  /\ SubSeq(s, 1, b) \in Seq(S) /\ Len(SubSeq(s, 1, b)) = b
         /\ \A i \in 1 .. b : SubSeq(s, 1, b)[i] = s[i]
OBVIOUS

\* A number that is smaller by one round leaves room for a round.
LEMMA RoundsApart ==
  ASSUME NEW a \in Nat, NEW b \in Nat, NEW k \in Nat, a < b
  PROVE  a * k \in Nat /\ b * k \in Nat /\ a * k + k <= b * k
<1>1. PICK d \in Nat : b = a + 1 + d
  <2>1. b - a - 1 \in Nat /\ b = a + 1 + (b - a - 1)
    OBVIOUS
  <2> QED
    BY <2>1
<1>2. b * k = a * k + k + d * k
  BY <1>1
<1>3. a * k \in Nat /\ d * k \in Nat
  BY <1>1
<1> QED
  BY <1>2, <1>3

\* Where a message stands in its turn.
LEMMA RankFacts ==
  ASSUME NEW m \in Msgs
  PROVE  /\ Rank(m) \in Nat
         /\ m.role = "user" => Rank(m) = 0
         /\ m.role = "call" => Rank(m) = m.round * (MaxCalls + 1)
         /\ m.role = "tool" => Rank(m) = m.round * (MaxCalls + 1) + m.n
         /\ m.role = "answer" => Rank(m) = (MaxRounds + 1) * (MaxCalls + 1)
         /\ m.role # "answer" => \A r \in Nat : m.round < r => Rank(m) < r * (MaxCalls + 1)
<1>1. m.role \in {"user", "call", "tool", "answer"} /\ m.round \in Nat /\ m.n \in Nat /\ m.n <= MaxCalls /\ MaxCalls \in Nat
      /\ MaxRounds \in Nat
  BY DEF Msgs
<1> DEFINE K == MaxCalls + 1
<1>2. K \in Nat /\ m.n < K
  BY <1>1
<1>3. m.round * K \in Nat /\ (MaxRounds + 1) * K \in Nat
  BY <1>1, <1>2
<1>4. /\ m.role = "user" => Rank(m) = 0
      /\ m.role = "call" => Rank(m) = m.round * K
      /\ m.role = "tool" => Rank(m) = m.round * K + m.n
      /\ m.role = "answer" => Rank(m) = (MaxRounds + 1) * K
  BY DEF Rank
<1>5. Rank(m) \in Nat
  BY <1>1, <1>3, <1>4
<1>6. ASSUME m.role # "answer", NEW r \in Nat, m.round < r
      PROVE  Rank(m) < r * K
  <2>1. m.round * K + K <= r * K /\ r * K \in Nat
    BY <1>1, <1>2, <1>6, RoundsApart
  <2> QED
    BY <1>1, <1>2, <1>3, <1>4, <1>6, <2>1
<1> QED
  BY <1>4, <1>5, <1>6

\* A part of a sequence that keeps its order is in order.
LEMMA PartKept ==
  ASSUME NEW s \in Seq(Msgs), NEW u \in Seq(Msgs), Kept(s), NEW f,
         \A i \in 1 .. Len(u) : f[i] \in 1 .. Len(s) /\ u[i] = s[f[i]],
         \A i, j \in 1 .. Len(u) : i < j => f[i] < f[j]
  PROVE  Kept(u)
<1>1. \A i \in 1 .. Len(u) : u[i] \in said
  BY DEF Kept
<1>2. ASSUME NEW i \in 1 .. Len(u), NEW j \in 1 .. Len(u), i < j, u[i].turn = u[j].turn
      PROVE  Rank(u[i]) < Rank(u[j])
  <2>1. f[i] \in 1 .. Len(s) /\ f[j] \in 1 .. Len(s) /\ f[i] < f[j] /\ u[i] = s[f[i]] /\ u[j] = s[f[j]]
    BY <1>2
  <2> QED
    BY <1>2, <2>1 DEF Kept, InOrder
<1>3. InOrder(u)
  BY <1>2 DEF InOrder
<1> QED
  BY <1>1, <1>3 DEF Kept

LEMMA KeepKept ==
  ASSUME NEW h \in Seq(Msgs), Kept(h), Len(h) > KeepLast
  PROVE  /\ Keep(h) \in Seq(Msgs) /\ Kept(Keep(h)) /\ Keep(h) = SubSeq(h, Len(h) - KeepLast + 1, Len(h))
         /\ Len(Keep(h)) = KeepLast /\ \A i \in 1 .. KeepLast : Keep(h)[i] = h[Len(h) - KeepLast + i]
<1> DEFINE a == Len(h) - KeepLast + 1
           f == [i \in 1 .. KeepLast |-> a + i - 1]
<1>1. Len(h) \in Nat /\ KeepLast \in Nat \ {0} /\ a \in Nat \ {0} /\ a <= Len(h) + 1
  OBVIOUS
<1>2. /\ SubSeq(h, a, Len(h)) \in Seq(Msgs) /\ Len(SubSeq(h, a, Len(h))) = Len(h) - a + 1
      /\ \A i \in 1 .. Len(h) - a + 1 : SubSeq(h, a, Len(h))[i] = h[a + i - 1]
  BY <1>1, SubSeqFacts
<1>3. /\ Keep(h) \in Seq(Msgs) /\ Len(Keep(h)) = KeepLast
      /\ \A i \in 1 .. KeepLast : Keep(h)[i] = h[a + i - 1] /\ a + i - 1 \in 1 .. Len(h)
  BY <1>1, <1>2 DEF Keep
<1>4. \A i \in 1 .. Len(Keep(h)) : f[i] \in 1 .. Len(h) /\ Keep(h)[i] = h[f[i]]
  BY <1>1, <1>3
<1>5. \A i, j \in 1 .. Len(Keep(h)) : i < j => f[i] < f[j]
  BY <1>1, <1>3
<1>6. Kept(Keep(h))
  BY <1>3, <1>4, <1>5, PartKept
<1>7. Keep(h) = SubSeq(h, Len(h) - KeepLast + 1, Len(h))
  BY DEF Keep
<1>8. \A i \in 1 .. KeepLast : a + i - 1 = Len(h) - KeepLast + i
  BY <1>1
<1> HIDE DEF a
<1>9. \A i \in 1 .. KeepLast : Keep(h)[i] = h[Len(h) - KeepLast + i]
  BY <1>3, <1>8
<1> QED
  BY <1>3, <1>6, <1>7, <1>9

LEMMA ConsFacts ==
  ASSUME NEW S, NEW x \in S, NEW s \in Seq(S)
  PROVE  /\ <<x>> \o s \in Seq(S) /\ Len(<<x>> \o s) = Len(s) + 1 /\ Len(s) \in Nat
         /\ (<<x>> \o s)[1] = x
         /\ \A i \in 2 .. Len(s) + 1 : (<<x>> \o s)[i] = s[i - 1]
OBVIOUS

LEMMA HalvedKept ==
  ASSUME NEW h \in Seq(Msgs), Kept(h), Len(h) > KeepLast
  PROVE  Halved(h) \in Seq(Msgs) /\ Kept(Halved(h))
<1> DEFINE a == 2 + (Len(h) - 2) \div 2
           tail == SubSeq(h, a, Len(h))
           f == [i \in 1 .. Len(Halved(h)) |-> IF i = 1 THEN 1 ELSE a + i - 2]
<1>1. Len(h) \in Nat /\ Len(h) >= 2
  OBVIOUS
<1>2. a \in Nat \ {0} /\ a >= 2 /\ a <= Len(h)
  BY <1>1
<1>3. /\ tail \in Seq(Msgs) /\ Len(tail) = Len(h) - a + 1
      /\ \A i \in 1 .. Len(h) - a + 1 : tail[i] = h[a + i - 1]
  BY <1>1, <1>2, SubSeqFacts
<1>4. Head(h) = h[1] /\ h[1] \in Msgs /\ <<Head(h)>> \in Seq(Msgs)
  BY <1>1
<1>5. /\ Halved(h) \in Seq(Msgs) /\ Len(Halved(h)) = Len(tail) + 1
      /\ Halved(h)[1] = h[1] /\ \A i \in 2 .. Len(tail) + 1 : Halved(h)[i] = tail[i - 1]
  <2>1. Halved(h) = <<Head(h)>> \o tail
    BY DEF Halved
  <2> HIDE DEF tail
  <2> QED
    BY <1>3, <1>4, <2>1, ConsFacts
<1> HIDE DEF a, tail
<1>6. \A i \in 1 .. Len(Halved(h)) : f[i] \in 1 .. Len(h) /\ Halved(h)[i] = h[f[i]]
  <2> SUFFICES ASSUME NEW i \in 1 .. Len(Halved(h)) PROVE f[i] \in 1 .. Len(h) /\ Halved(h)[i] = h[f[i]]
    OBVIOUS
  <2>1. CASE i = 1
    BY <1>1, <1>5, <2>1
  <2>2. CASE i # 1
    <3>1. f[i] = a + i - 2
      BY <2>2
    <3>2. i \in 2 .. Len(tail) + 1 /\ i - 1 \in 1 .. Len(h) - a + 1
      BY <1>1, <1>2, <1>3, <1>5, <2>2
    <3>3. a + (i - 1) - 1 = a + i - 2 /\ a + i - 2 \in 1 .. Len(h)
      BY <1>1, <1>2, <3>2
    <3>4. Halved(h)[i] = tail[i - 1] /\ tail[i - 1] = h[a + (i - 1) - 1]
      BY <1>3, <1>5, <3>2
    <3> QED
      BY <3>1, <3>3, <3>4, Zenon
  <2> QED
    BY <2>1, <2>2
<1>7. \A i, j \in 1 .. Len(Halved(h)) : i < j => f[i] < f[j]
  <2>1. Len(Halved(h)) \in Nat
    BY <1>1, <1>2, <1>3, <1>5
  <2> QED
    BY <1>2, <2>1
<1> QED
  BY <1>5, <1>6, <1>7, PartKept

\* A message that comes after all of its turn may be appended.
LEMMA AppendKept ==
  ASSUME NEW h \in Seq(Msgs), Kept(h), NEW m \in Msgs,
         \A x \in said : x.turn = m.turn => Rank(x) < Rank(m)
  PROVE  Append(h, m) \in Seq(Msgs) /\ InOrder(Append(h, m))
         /\ \A i \in 1 .. Len(Append(h, m)) : Append(h, m)[i] \in said \cup {m}
<1>1. /\ Append(h, m) \in Seq(Msgs) /\ Len(Append(h, m)) = Len(h) + 1 /\ Len(h) \in Nat
      /\ \A i \in 1 .. Len(h) : Append(h, m)[i] = h[i]
      /\ Append(h, m)[Len(h) + 1] = m
  BY AppendFacts
<1> QED
  BY <1>1 DEF Kept, InOrder

-----------------------------------------------------------------------------
(***************************************************************************)
(* What the steps have in common                                           *)
(***************************************************************************)

LEMMA InitEstablishes == Init => TurnsInv
<1> SUFFICES ASSUME Init PROVE TurnsInv
  OBVIOUS
<1>1. TurnTypes
  BY DEF Init, TurnTypes, TurnOK, NoTurn, Over, Fields
<1>2. JobTypes
  BY DEF Init, JobTypes, JobRecords, TurnJobs, Idle, Jobs
<1>3. SessionTypes
  <2>1. IsFiniteSet(said)
    BY FS_EmptySet DEF Init
  <2>2. <<>> \in Seq(Msgs) /\ Kept(<<>>)
    BY DEF Kept, InOrder
  <2>3. \A p \in Jobs : job[p].snap = <<>> /\ job[p].told = {}
    BY DEF Init, Idle, Jobs
  <2> QED
    BY <2>1, <2>2, <2>3 DEF Init, SessionTypes
<1>4. Progress
  BY DEF Init, Progress, ProgressOf, RoundsOf, NoTurn
<1>5. OneInboxTurn
  BY DEF Init, OneInboxTurn, Active, Over, NoTurn
<1> QED
  BY <1>1, <1>2, <1>3, <1>4, <1>5 DEF TurnsInv

\* A message is saved behind those of its turn.
LEMMA SaveKeeps ==
  ASSUME TurnsInv, NEW m \in Msgs, Save(m),
         \A x \in said : x.turn = m.turn => Rank(x) < Rank(m),
         UNCHANGED <<summary, tiered, job, sentInRound>>
  PROVE  SessionTypes' /\ said' = said \cup {m}
<1>1. SessionTypes
  BY DEF TurnsInv
<1>2. said' = said \cup {m} /\ history' = Append(history, m)
  BY DEF Save
<1>3. said' \in SUBSET Msgs /\ IsFiniteSet(said')
  BY <1>1, <1>2, FS_AddElement DEF SessionTypes
<1>4. /\ history' \in Seq(Msgs) /\ InOrder(history')
      /\ \A i \in 1 .. Len(history') : history'[i] \in said'
  <2>1. history \in Seq(Msgs) /\ Kept(history)
    BY <1>1 DEF SessionTypes
  <2> QED
    BY <1>2, <2>1, AppendKept
<1>5. Kept(history)'
  BY <1>4 DEF Kept, InOrder
<1>6. \A p \in Jobs : Kept(job[p].snap)'
  BY <1>1, <1>2 DEF SessionTypes, Kept, InOrder
<1> QED
  BY <1>1, <1>2, <1>3, <1>4, <1>5, <1>6 DEF SessionTypes

\* Nothing is saved: what is copied was there.
LEMMA CopyKeeps ==
  ASSUME TurnsInv, said' = said,
         history' \in Seq(Msgs), Kept(history'), summary' \subseteq said, tiered' \subseteq said,
         sentInRound' \in BOOLEAN,
         \A p \in Jobs : Kept(job'[p].snap) /\ job'[p].told \subseteq said
  PROVE  SessionTypes'
<1>1. SessionTypes
  BY DEF TurnsInv
<1>2. Kept(history)' /\ \A p \in Jobs : Kept(job[p].snap)'
  BY DEF Kept, InOrder
<1> QED
  BY <1>1, <1>2 DEF SessionTypes

\* A step of one job.
LEMMA JobChanges ==
  ASSUME TurnsInv, NEW p \in Jobs, NEW new \in JobRecords, job' = [job EXCEPT ![p] = new],
         p \in Turns => new.at \in TurnJobs /\ (new.at # "idle" => turn'[p].at = "compress"),
         p = Summariser => new.at # "halve",
         new.at \in {"halve", "summarize"} => Len(new.snap) > KeepLast,
         \A u \in Turns \ {p} : turn'[u].at = turn[u].at,
         Kept(new.snap), new.told \subseteq said
  PROVE  JobTypes' /\ \A q \in Jobs : Kept(job'[q].snap) /\ job'[q].told \subseteq said
<1>1. JobTypes /\ SessionTypes
  BY DEF TurnsInv
<1>2. /\ job' \in [Jobs -> JobRecords] /\ job'[p] = new
      /\ \A q \in Jobs \ {p} : job'[q] = job[q]
  BY <1>1 DEF JobTypes
<1>3. JobTypes'
  BY <1>1, <1>2 DEF JobTypes, Jobs, Summariser
<1>4. \A q \in Jobs : Kept(job'[q].snap) /\ job'[q].told \subseteq said
  <2> SUFFICES ASSUME NEW q \in Jobs PROVE Kept(job'[q].snap) /\ job'[q].told \subseteq said
    OBVIOUS
  <2>1. CASE q = p
    BY <1>2, <2>1
  <2>2. CASE q # p
    <3>1. job'[q] = job[q]
      BY <1>2, <2>2
    <3> QED
      BY <1>1, <3>1 DEF SessionTypes
  <2> QED
    BY <2>1, <2>2
<1> QED
  BY <1>3, <1>4

\* Only turn t moves.
OneTurn(t) == DOMAIN turn' = Turns /\ \A u \in Turns \ {t} : turn'[u] = turn[u]

LEMMA TurnChanges ==
  ASSUME TurnsInv, NEW t \in Turns, OneTurn(t), TurnOK(t)', ProgressOf(t)', RoundsOf(t)',
         JobTypes', SessionTypes', kind' = kind,
         said \subseteq said', \A m \in said' : m \in said \/ m.turn = t,
         \/ turn'[t].at \in Over \/ turn[t].at \notin Over
         \/ t \notin Inbox \/ Active \cap Inbox = {}
  PROVE  TurnsInv'
<1>1. TurnTypes /\ Progress /\ OneInboxTurn
  BY DEF TurnsInv
<1>2. \A u \in Turns \ {t} : turn'[u] = turn[u]
  BY DEF OneTurn
<1>3. TurnTypes'
  <2>1. \A u \in Turns : TurnOK(u)'
    BY <1>1, <1>2 DEF TurnTypes, TurnOK
  <2> QED
    BY <2>1 DEF TurnTypes, OneTurn
<1>4. Progress'
  <2>1. ASSUME NEW u \in Turns, u # t PROVE ProgressOf(u)' /\ RoundsOf(u)'
    <3>1. turn'[u] = turn[u] /\ ProgressOf(u) /\ RoundsOf(u)
      BY <1>1, <1>2, <2>1 DEF Progress
    <3>2. \A m \in said' : m.turn = u => m \in said
      BY <2>1
    <3>3. ProgressOf(u)'
      BY <3>1, <3>2 DEF ProgressOf
    <3>4. RoundsOf(u)'
      BY <3>1 DEF RoundsOf
    <3> QED
      BY <3>3, <3>4
  <2> QED
    BY <2>1 DEF Progress
<1>5. OneInboxTurn'
  <2>1. Inbox' = Inbox
    BY DEF Inbox, UserTurns, SystemTurns, Of
  <2>2. \A u \in Active' : u # t => u \in Active
    BY <1>2 DEF Active
  <2>3. t \in Active' /\ t \in Inbox => t \in Active \/ Active \cap Inbox = {}
    BY DEF Active
  <2> QED
    BY <1>1, <2>1, <2>2, <2>3 DEF OneInboxTurn
<1> QED
  BY <1>3, <1>4, <1>5 DEF TurnsInv

\* Turns stand still.
LEMMA JobStepKeeps ==
  ASSUME TurnsInv, JobTypes', SessionTypes', UNCHANGED <<kind, turn, said>>
  PROVE  TurnsInv'
<1>1. TurnTypes /\ Progress /\ OneInboxTurn
  BY DEF TurnsInv
<1>2. TurnTypes'
  BY <1>1 DEF TurnTypes, TurnOK
<1>3. Progress'
  BY <1>1 DEF Progress, ProgressOf, RoundsOf
<1>4. OneInboxTurn'
  BY <1>1 DEF OneInboxTurn, Active, Inbox, UserTurns, SystemTurns, Of
<1> QED
  BY <1>2, <1>3, <1>4 DEF TurnsInv

\* The session and the jobs stand still.
LEMMA SessionStays ==
  ASSUME TurnsInv, UNCHANGED <<history, summary, tiered, job, said>>, sentInRound' \in BOOLEAN
  PROVE  SessionTypes'
BY DEF TurnsInv, SessionTypes, Kept, InOrder

-----------------------------------------------------------------------------
(***************************************************************************)
(* Steps of a turn                                                         *)
(***************************************************************************)

\* The turn goes to another place and forgets its prompt and its counters.
LEMMA ToFields ==
  ASSUME TurnTypes, NEW t \in Turns, NEW at, To(t, at)
  PROVE  /\ OneTurn(t) /\ DOMAIN turn'[t] = Fields /\ turn'[t].at = at
         /\ turn'[t].round = 0 /\ turn'[t].retry = 0 /\ turn'[t].n = 0 /\ turn'[t].got = 0
BY DEF TurnTypes, To, NoTurn, OneTurn, Fields

LEMMA ToGoes ==
  ASSUME TurnsInv, NEW t \in Turns, NEW at, To(t, at), SessionTypes',
         UNCHANGED <<kind, job, said>>,
         turn[t].at # "compress",
         \/ at \in {"silent", "published", "clearing", "respond", "failed"}
         \/ at = "answer" /\ turn[t].at = "model",
         at \in Over \/ turn[t].at \notin Over
  PROVE  TurnsInv'
<1>1. TurnTypes /\ JobTypes /\ Progress
  BY DEF TurnsInv
<1>2. /\ OneTurn(t) /\ DOMAIN turn'[t] = Fields /\ turn'[t].at = at
      /\ turn'[t].round = 0 /\ turn'[t].retry = 0 /\ turn'[t].n = 0 /\ turn'[t].got = 0
  BY <1>1, ToFields
<1>3. TurnOK(t)'
  <2>1. 0 \in 0 .. MaxRounds /\ 0 \in 0 .. MaxRetries /\ 0 \in 0 .. MaxCalls /\ 0 \in 0 .. 0
    OBVIOUS
  <2> QED
    BY <1>2, <2>1 DEF TurnOK, Over
<1>4. ProgressOf(t)' /\ RoundsOf(t)'
  <2>1. at \notin {"waiting", "read", "model", "compress", "tools"}
    OBVIOUS
  <2>2. ProgressOf(t)
    BY <1>1 DEF Progress
  <2>3. ProgressOf(t)'
    BY <1>2, <2>1, <2>2 DEF ProgressOf
  <2>4. RoundsOf(t)'
    BY <1>2 DEF RoundsOf
  <2> QED
    BY <2>3, <2>4
<1>5. JobTypes'
  BY <1>1, <1>2 DEF JobTypes, OneTurn
<1> QED
  BY <1>2, <1>3, <1>4, <1>5, TurnChanges

LEMMA ToKeeps ==
  ASSUME TurnsInv, NEW t \in Turns, NEW at, To(t, at), sentInRound' \in BOOLEAN,
         UNCHANGED <<kind, history, summary, tiered, job, said>>,
         turn[t].at # "compress",
         \/ at \in {"silent", "published", "respond", "failed"}
         \/ at = "answer" /\ turn[t].at = "model",
         at \in Over \/ turn[t].at \notin Over
  PROVE  TurnsInv'
<1>1. SessionTypes'
  BY SessionStays
<1> QED
  BY <1>1, ToGoes

\* A turn that reads, or sends its prompt again or anew.
LEMMA PromptKeeps ==
  ASSUME TurnsInv, NEW t \in Turns,
         ReadHistory(t) \/ TimeOut(t) \/ Rebuild(t)
  PROVE  TurnsInv'
<1>1. TurnTypes /\ JobTypes /\ Progress /\ SessionTypes
  BY DEF TurnsInv
<1>2. TurnOK(t) /\ ProgressOf(t) /\ RoundsOf(t)
  BY <1>1 DEF TurnTypes, Progress
<1>3. UNCHANGED <<kind, history, summary, tiered, job, said>>
  BY DEF ReadHistory, Arrive, TimeOut, Rebuild, session, rest, steady, ghosts
<1>4. sentInRound' \in BOOLEAN
  BY <1>1 DEF SessionTypes, ReadHistory, ResetSentInRound, TimeOut, Rebuild, reply
<1>5. /\ OneTurn(t) /\ DOMAIN turn'[t] = Fields
      /\ turn'[t].round = turn[t].round /\ turn'[t].n = turn[t].n /\ turn'[t].got = turn[t].got
      /\ \/ turn[t].at = "waiting" /\ turn'[t].at = "read" /\ turn'[t].retry = turn[t].retry
         \/ turn[t].at = "model" /\ turn'[t].at = "model" /\ turn[t].retry < MaxRetries
                /\ turn'[t].retry = turn[t].retry + 1
         \/ turn[t].at = "compress" /\ turn'[t].at = "model" /\ turn'[t].retry = turn[t].retry /\ job[t].at = "idle"
  <2>1. DOMAIN turn = Turns /\ DOMAIN turn[t] = Fields
    BY <1>1, <1>2 DEF TurnTypes, TurnOK
  <2>2. CASE ReadHistory(t)
    BY <2>1, <2>2 DEF ReadHistory, Arrive, Fields, OneTurn
  <2>3. CASE TimeOut(t)
    BY <2>1, <2>3 DEF TimeOut, Fields, OneTurn
  <2>4. CASE Rebuild(t)
    BY <2>1, <2>4 DEF Rebuild, Fields, OneTurn
  <2> QED
    BY <2>2, <2>3, <2>4
<1>6. TurnOK(t)'
  BY <1>2, <1>5 DEF TurnOK
<1>7. ProgressOf(t)' /\ RoundsOf(t)'
  <2>1. ProgressOf(t)'
    BY <1>2, <1>3, <1>5 DEF ProgressOf
  <2>2. RoundsOf(t)'
    BY <1>2, <1>3, <1>5 DEF RoundsOf
  <2> QED
    BY <2>1, <2>2
<1>8. JobTypes'
  BY <1>1, <1>3, <1>5 DEF JobTypes, OneTurn
<1>9. SessionTypes'
  BY <1>3, <1>4, SessionStays
<1>10. turn[t].at \notin Over \/ t \notin Inbox \/ Active \cap Inbox = {}
  BY <1>5 DEF ReadHistory, TimeOut, Rebuild, Over
<1> QED
  BY <1>3, <1>5, <1>6, <1>7, <1>8, <1>9, <1>10, TurnChanges

\* The rank of a message that is saved next.
LEMMA NextRank ==
  ASSUME TurnsInv, NEW t \in Turns, NEW m \in Msgs, m.turn = t,
         \/ turn[t].at = "read" /\ m.role = "user"
         \/ turn[t].at = "model" /\ m.role = "call" /\ m.round = turn[t].round + 1
         \/ turn[t].at = "tools" /\ m.role = "tool" /\ m.round = turn[t].round /\ m.n = turn[t].got + 1
         \/ turn[t].at = "answer" /\ m.role = "answer"
  PROVE  \A x \in said : x.turn = t => Rank(x) < Rank(m)
<1> SUFFICES ASSUME NEW x \in said, x.turn = t PROVE Rank(x) < Rank(m)
  OBVIOUS
<1>1. ProgressOf(t) /\ TurnOK(t) /\ x \in Msgs
  BY DEF TurnsInv, Progress, TurnTypes, SessionTypes
<1>2. x.round \in Nat /\ x.n \in Nat /\ x.round <= MaxRounds /\ m.n \in Nat /\ m.round \in Nat /\ MaxRounds \in Nat
      /\ x.role \in {"user", "call", "tool", "answer"} /\ MaxCalls \in Nat
  BY <1>1 DEF Msgs
<1> DEFINE K == MaxCalls + 1
<1>3. CASE turn[t].at = "read"
  BY <1>1, <1>3 DEF ProgressOf
<1>4. CASE turn[t].at = "model"
  <2>1. x.role # "answer" /\ x.round < m.round /\ m.role = "call"
    BY <1>1, <1>2, <1>4 DEF ProgressOf, TurnOK
  <2> QED
    BY <1>1, <1>2, <2>1, RankFacts
<1>5. CASE turn[t].at = "tools"
  <2>1. x.role # "answer" /\ x.round <= m.round /\ m.role = "tool" /\ m.n = turn[t].got + 1
        /\ (x.role = "tool" /\ x.round = m.round => x.n <= turn[t].got) /\ turn[t].got \in Nat
    BY <1>1, <1>2, <1>5 DEF ProgressOf, TurnOK
  <2>2. m.round * K \in Nat /\ Rank(m) = m.round * K + m.n /\ Rank(x) \in Nat
    BY <1>1, <1>2, <2>1, RankFacts
  <2>3. CASE x.round < m.round
    <3>1. Rank(x) < m.round * K
      BY <1>1, <1>2, <2>1, <2>3, RankFacts
    <3> QED
      BY <1>2, <2>2, <3>1
  <2>4. CASE x.round = m.round
    <3>1. Rank(x) = 0 \/ Rank(x) = m.round * K \/ (x.role = "tool" /\ Rank(x) = m.round * K + x.n)
      BY <1>1, <1>2, <2>1, <2>4, RankFacts
    <3> HIDE DEF K
    <3> QED
      BY <1>2, <2>1, <2>2, <2>4, <3>1
  <2> QED
    BY <1>2, <2>1, <2>3, <2>4
<1>6. CASE turn[t].at = "answer"
  <2>1. x.role # "answer" /\ x.round < MaxRounds + 1 /\ m.role = "answer"
    BY <1>1, <1>2, <1>6 DEF ProgressOf
  <2> QED
    BY <1>1, <1>2, <2>1, RankFacts
<1> QED
  BY <1>3, <1>4, <1>5, <1>6

\* As long as fewer calls were saved than rounds are allowed, so were the turn's.
LEMMA RoundLeft ==
  ASSUME TurnsInv, NEW t \in Turns, Cardinality({c \in said : c.role = "call"}) < MaxRounds
  PROVE  turn[t].round < MaxRounds
<1> DEFINE C == {c \in said : c.role = "call"}
           n == turn[t].round
           f == [k \in 1 .. n |-> CHOOSE m \in C : m.turn = t /\ m.round = k]
<1>1. n \in Nat /\ RoundsOf(t) /\ IsFiniteSet(said)
  BY DEF TurnsInv, TurnTypes, TurnOK, Progress, SessionTypes
<1>2. IsFiniteSet(C)
  BY <1>1, FS_Subset
<1>3. \A k \in 1 .. n : f[k] \in C /\ f[k].round = k
  BY <1>1 DEF RoundsOf
<1>4. f \in Injection(1 .. n, C)
  <2> HIDE DEF C
  <2>1. f \in [1 .. n -> C]
    BY <1>3
  <2>2. \A i, j \in 1 .. n : f[i] = f[j] => i = j
    BY <1>3
  <2> HIDE DEF f
  <2> QED
    BY <2>1, <2>2 DEF Injection, IsInjective
<1>5. Cardinality(1 .. n) <= Cardinality(C) /\ Cardinality(C) \in Nat
  BY <1>2, <1>4, FS_Injection, FS_CardinalityType
<1>6. Cardinality(1 .. n) = n
  <2> HIDE DEF n
  <2>1. n \in Int /\ 1 \in Int
    BY <1>1
  <2>2. Cardinality(1 .. n) = IF 1 > n THEN 0 ELSE n - 1 + 1
    BY <2>1, FS_Interval
  <2> QED
    BY <1>1, <2>2
<1> QED
  BY <1>1, <1>5, <1>6

\* A message a turn saves, and where the turn goes with it.
Saved(t, m) ==
  /\ m \in Msgs /\ m.turn = t /\ Save(m) /\ OneTurn(t) /\ TurnOK(t)'
  /\ turn[t].at \notin Over /\ turn[t].at # "compress"
  /\ \/ turn[t].at = "read" /\ m.role = "user" /\ m.round = 0
     \/ turn[t].at = "model" /\ m.role = "call" /\ m.round = turn[t].round + 1
     \/ turn[t].at = "tools" /\ m.role = "tool" /\ m.round = turn[t].round /\ m.n = turn[t].got + 1
     \/ turn[t].at = "answer" /\ m.role = "answer"
  /\ \/ turn[t].at = "read" /\ turn'[t].at = "model" /\ turn'[t].round = turn[t].round
     \/ turn[t].at = "model" /\ turn'[t].at = "tools" /\ turn'[t].round = turn[t].round + 1
     \/ turn[t].at = "tools" /\ turn'[t].at \in {"model", "tools"} /\ turn'[t].round = turn[t].round
          /\ turn'[t].got = turn[t].got + 1
     \/ turn[t].at = "answer" /\ turn'[t].at \in {"respond", "saved"} /\ turn'[t].round = 0

SaveStep(t) == SaveUser(t) \/ (\E n \in 1 .. MaxCalls : AskTools(t, n)) \/ SaveResult(t) \/ SaveAnswer(t)

\* A turn saves its question, its calls, their results or its answer.
LEMMA SavedMessage ==
  ASSUME TurnsInv, NEW t \in Turns, SaveStep(t)
  PROVE  \E m : Saved(t, m)
<1>1. TurnTypes
  BY DEF TurnsInv
<1>2. TurnOK(t) /\ DOMAIN turn = Turns /\ DOMAIN turn[t] = Fields
  BY <1>1 DEF TurnTypes, TurnOK
<1>3. 0 \in 0 .. MaxRounds /\ 0 \in 0 .. MaxCalls
  OBVIOUS
<1>4. CASE SaveUser(t)
  <2> DEFINE m == Message(t, "user", 0, 0)
  <2>1. m \in Msgs /\ m.turn = t /\ m.role = "user" /\ m.round = 0
    BY <1>3 DEF Message, Msgs
  <2>2. OneTurn(t) /\ DOMAIN turn'[t] = Fields /\ turn[t].at = "read" /\ turn'[t].at = "model"
        /\ turn'[t].round = turn[t].round /\ turn'[t].n = turn[t].n /\ turn'[t].got = turn[t].got
        /\ turn'[t].retry = turn[t].retry
    BY <1>2, <1>4 DEF SaveUser, OneTurn, Fields
  <2>3. TurnOK(t)'
    BY <1>2, <2>2 DEF TurnOK
  <2>4. Save(m)
    BY <1>4 DEF SaveUser
  <2> HIDE DEF m
  <2>5. Saved(t, m)
    BY <2>1, <2>2, <2>3, <2>4 DEF Saved, Over
  <2> QED
    BY <2>5
<1>5. ASSUME NEW n \in 1 .. MaxCalls, AskTools(t, n)
      PROVE  \E m : Saved(t, m)
  <2> DEFINE m == Message(t, "call", turn[t].round + 1, n)
  <2>1. turn[t].round < MaxRounds /\ turn[t].at = "model"
    BY <1>5, RoundLeft DEF AskTools
  <2>2. m \in Msgs /\ m.turn = t /\ m.role = "call" /\ m.round = turn[t].round + 1
    BY <1>2, <2>1 DEF Message, Msgs, TurnOK
  <2>3. OneTurn(t) /\ DOMAIN turn'[t] = Fields /\ turn'[t].at = "tools"
        /\ turn'[t].round = turn[t].round + 1 /\ turn'[t].n = n /\ turn'[t].got = 0
        /\ turn'[t].retry = 0
    BY <1>2, <1>5 DEF AskTools, OneTurn, Fields
  <2>4. TurnOK(t)'
    BY <1>2, <2>1, <2>3 DEF TurnOK
  <2>5. Save(m)
    BY <1>5 DEF AskTools
  <2> HIDE DEF m
  <2>6. Saved(t, m)
    BY <2>1, <2>2, <2>3, <2>4, <2>5 DEF Saved, Over
  <2> QED
    BY <2>6
<1>6. CASE SaveResult(t)
  <2> DEFINE m == Message(t, "tool", turn[t].round, turn[t].got + 1)
  <2>1. turn[t].at = "tools" /\ turn[t].got + 1 <= turn[t].n
    BY <1>2, <1>6 DEF SaveResult, TurnOK
  <2>2. m \in Msgs /\ m.turn = t /\ m.role = "tool" /\ m.round = turn[t].round /\ m.n = turn[t].got + 1
    BY <1>2, <2>1 DEF Message, Msgs, TurnOK
  <2>3. OneTurn(t) /\ DOMAIN turn'[t] = Fields /\ turn'[t].round = turn[t].round /\ turn'[t].n = turn[t].n
        /\ turn'[t].got = turn[t].got + 1 /\ turn'[t].retry = turn[t].retry
        /\ turn'[t].at = IF turn[t].got + 1 = turn[t].n THEN "model" ELSE "tools"
    BY <1>2, <1>6 DEF SaveResult, OneTurn, Fields
  <2>4. TurnOK(t)'
    BY <1>2, <2>1, <2>3 DEF TurnOK
  <2>5. Save(m)
    BY <1>6 DEF SaveResult
  <2> HIDE DEF m
  <2>6. Saved(t, m)
    BY <2>1, <2>2, <2>3, <2>4, <2>5 DEF Saved, Over
  <2> QED
    BY <2>6
<1>7. CASE SaveAnswer(t)
  <2> DEFINE m == Message(t, "answer", 0, 0)
             at == IF t \in SystemTurns THEN "respond" ELSE "saved"
  <2>1. m \in Msgs /\ m.turn = t /\ m.role = "answer"
    BY <1>3 DEF Message, Msgs
  <2>2. To(t, at) /\ turn[t].at = "answer" /\ Save(m)
    BY <1>7 DEF SaveAnswer
  <2>3. at \in {"respond", "saved"}
    OBVIOUS
  <2> HIDE DEF m, at
  <2>4. OneTurn(t) /\ DOMAIN turn'[t] = Fields /\ turn'[t].at = at /\ turn'[t].round = 0
        /\ turn'[t].retry = 0 /\ turn'[t].n = 0 /\ turn'[t].got = 0
    BY <1>1, <2>2, ToFields
  <2>5. TurnOK(t)'
    <3>1. 0 \in 0 .. MaxRetries /\ 0 \in 0 .. 0
      OBVIOUS
    <3> QED
      BY <1>3, <2>3, <2>4, <3>1 DEF TurnOK
  <2>6. Saved(t, m)
    BY <2>1, <2>2, <2>3, <2>4, <2>5 DEF Saved, Over
  <2> QED
    BY <2>6
<1> QED
  BY <1>4, <1>5, <1>6, <1>7 DEF SaveStep

LEMMA SaveStepKeeps ==
  ASSUME TurnsInv, NEW t \in Turns, SaveStep(t)
  PROVE  TurnsInv'
<1>1. TurnTypes /\ JobTypes /\ Progress /\ SessionTypes
  BY DEF TurnsInv
<1>2. TurnOK(t) /\ ProgressOf(t) /\ RoundsOf(t) /\ DOMAIN turn = Turns /\ DOMAIN turn[t] = Fields
  BY <1>1 DEF TurnTypes, Progress, TurnOK
<1>3. UNCHANGED <<kind, summary, tiered, job, sentInRound>>
  BY DEF SaveStep, SaveUser, AskTools, SaveResult, SaveAnswer, reply, rest, steady
<1> PICK m : Saved(t, m)
  BY SavedMessage
<1>4. Saved(t, m)
  OBVIOUS
<1>5. \A x \in said : x.turn = t => Rank(x) < Rank(m)
  BY <1>4, NextRank DEF Saved
<1>6. SessionTypes' /\ said' = said \cup {m}
  BY <1>3, <1>4, <1>5, SaveKeeps DEF Saved
<1>7. ProgressOf(t)'
  <2>1. turn[t].at \in {"read", "model", "tools", "answer"}
    BY <1>4 DEF Saved
  <2>2. \A x \in said : x.round \in Nat /\ x.n \in Nat
    BY <1>1 DEF SessionTypes, Msgs
  <2>3. turn[t].round \in Nat /\ turn[t].got \in Nat /\ m.round \in Nat
    BY <1>2, <1>4 DEF TurnOK, Msgs, Saved
  <2>4. CASE turn[t].at = "read"
    BY <1>2, <1>4, <1>6, <2>2, <2>3, <2>4 DEF ProgressOf, Saved
  <2>5. CASE turn[t].at = "model"
    BY <1>2, <1>4, <1>6, <2>2, <2>3, <2>5 DEF ProgressOf, Saved
  <2>6. CASE turn[t].at = "tools"
    BY <1>2, <1>4, <1>6, <2>2, <2>3, <2>6 DEF ProgressOf, Saved
  <2>7. CASE turn[t].at = "answer"
    BY <1>4, <2>7 DEF ProgressOf, Saved
  <2> QED
    BY <2>1, <2>4, <2>5, <2>6, <2>7
<1>8. RoundsOf(t)'
  <2>1. turn[t].round \in Nat
    BY <1>2 DEF TurnOK
  <2>2. CASE turn'[t].round = turn[t].round
    BY <1>2, <1>6, <2>2 DEF RoundsOf
  <2>3. CASE turn'[t].round = turn[t].round + 1 /\ m.role = "call" /\ m.round = turn[t].round + 1
    BY <1>2, <1>4, <1>6, <2>1, <2>3 DEF RoundsOf, Saved
  <2>4. CASE turn'[t].round = 0
    BY <2>4 DEF RoundsOf
  <2> QED
    BY <1>4, <2>2, <2>3, <2>4 DEF Saved
<1>9. JobTypes'
  BY <1>1, <1>3, <1>4 DEF JobTypes, OneTurn, Saved
<1> QED
  BY <1>3, <1>4, <1>6, <1>7, <1>8, <1>9, TurnChanges DEF Saved

\* A turn that only goes on.
LEMMA MoveKeeps ==
  ASSUME TurnsInv, NEW t \in Turns,
         SkipInternal(t) \/ HandleCommand(t) \/ Answer(t) \/ Fail(t) \/ Respond(t)
  PROVE  TurnsInv'
<1>1. sentInRound \in BOOLEAN
  BY DEF TurnsInv, SessionTypes
<1>2. UNCHANGED <<kind, history, summary, tiered, job, said, sentInRound>>
  BY DEF SkipInternal, HandleCommand, Answer, Fail, Respond, Ended, session, reply, ghosts, rest, steady
<1>3. CASE SkipInternal(t)
  BY <1>1, <1>2, <1>3, ToKeeps DEF SkipInternal, Over
<1>4. CASE HandleCommand(t)
  BY <1>1, <1>2, <1>4, ToKeeps DEF HandleCommand, Over
<1>5. CASE Answer(t)
  BY <1>1, <1>2, <1>5, ToKeeps DEF Answer, Over
<1>6. CASE Fail(t)
  BY <1>1, <1>2, <1>6, ToKeeps DEF Fail, Over
<1>7. CASE Respond(t)
  <2>1. turn[t].at \in {"respond", "failed"}
    BY <1>7 DEF Respond, Ended
  <2>2. To(t, "silent") \/ To(t, "published")
    BY <1>7 DEF Respond
  <2> QED
    BY <1>1, <1>2, <2>1, <2>2, ToKeeps DEF Over
<1> QED
  BY <1>3, <1>4, <1>5, <1>6, <1>7

\* What a compression may begin with.
LEMMA StartType ==
  ASSUME TurnsInv, NEW at \in {"halve", "compact"}
  PROVE  /\ Start(at) \in JobRecords /\ Start(at).at \in {"idle", at} /\ Kept(Start(at).snap)
         /\ Start(at).told \subseteq said
         /\ Start(at).at # "idle" => Len(Start(at).snap) > KeepLast
<1>1. history \in Seq(Msgs) /\ Kept(history) /\ Len(history) \in Nat /\ KeepLast \in Nat
  BY DEF TurnsInv, SessionTypes
<1>2. CASE Len(history) <= KeepLast
  <2>1. Start(at) = [at |-> "idle", snap |-> <<>>, told |-> {}]
    BY <1>2 DEF Start, Idle
  <2>2. <<>> \in Seq(Msgs) /\ Kept(<<>>)
    BY DEF Kept, InOrder
  <2> QED
    BY <2>1, <2>2 DEF JobRecords, TurnJobs
<1>3. CASE ~(Len(history) <= KeepLast)
  <2>1. Start(at) = [at |-> at, snap |-> history, told |-> {}]
    BY <1>3 DEF Start
  <2> QED
    BY <1>1, <1>3, <2>1 DEF JobRecords, TurnJobs
<1> QED
  BY <1>2, <1>3

LEMMA IdleType == Idle \in JobRecords /\ Idle.at = "idle" /\ Idle.snap = <<>> /\ Idle.told = {} /\ Kept(<<>>)
<1>1. <<>> \in Seq(Msgs) /\ Kept(<<>>)
  BY DEF Kept, InOrder
<1> QED
  BY <1>1 DEF Idle, JobRecords, TurnJobs

\* The facts about the session that every step of a job needs.
LEMMA SessionFacts ==
  ASSUME TurnsInv
  PROVE  /\ history \in Seq(Msgs) /\ Kept(history) /\ summary \subseteq said /\ tiered \subseteq said
         /\ sentInRound \in BOOLEAN /\ said \subseteq Msgs
         /\ \A p \in Jobs : Kept(job[p].snap) /\ job[p].told \subseteq said /\ job[p] \in JobRecords
         /\ \A p \in Jobs : job[p].snap \in Seq(Msgs)
BY DEF TurnsInv, SessionTypes, JobTypes, JobRecords

\* /clear empties the history, then the summary.
LEMMA ClearKeeps ==
  ASSUME TurnsInv, NEW t \in Turns, ClearHistory(t) \/ ClearSummary(t)
  PROVE  TurnsInv'
<1>1. /\ UNCHANGED <<kind, tiered, job, said, sentInRound>>
      /\ history' \in {<<>>, history} /\ summary' \in {{}, summary}
  BY DEF ClearHistory, ClearSummary, reply, ghosts, rest, steady
<1>2. history' \in Seq(Msgs) /\ Kept(history')
  <2>1. /\ history \in Seq(Msgs) /\ Kept(history)
        /\ <<>> \in Seq(Msgs) /\ Kept(<<>>)
    BY SessionFacts, IdleType
  <2> QED
    BY <1>1, <2>1
<1>3. /\ summary' \subseteq said /\ tiered' \subseteq said /\ sentInRound' \in BOOLEAN
      /\ \A p \in Jobs : Kept(job'[p].snap) /\ job'[p].told \subseteq said
  BY <1>1, SessionFacts
<1>4. SessionTypes'
  BY <1>1, <1>2, <1>3, CopyKeeps
<1>5. CASE ClearHistory(t)
  BY <1>1, <1>4, <1>5, ToGoes DEF ClearHistory, Over
<1>6. CASE ClearSummary(t)
  BY <1>1, <1>4, <1>6, ToGoes DEF ClearSummary, Over
<1> QED
  BY <1>5, <1>6

\* The model refuses the prompt; a compression begins.
LEMMA RefuseKeeps ==
  ASSUME TurnsInv, NEW t \in Turns, Refuse(t)
  PROVE  TurnsInv'
<1>1. TurnTypes /\ JobTypes /\ Progress
  BY DEF TurnsInv
<1>2. TurnOK(t) /\ ProgressOf(t) /\ RoundsOf(t)
  BY <1>1 DEF TurnTypes, Progress
<1>3. UNCHANGED <<kind, history, summary, tiered, said, sentInRound>>
  BY DEF Refuse, session, reply, ghosts, steady
<1>4. /\ OneTurn(t) /\ DOMAIN turn'[t] = Fields /\ turn[t].at = "model" /\ turn'[t].at = "compress"
      /\ turn'[t].round = turn[t].round /\ turn'[t].n = turn[t].n /\ turn'[t].got = turn[t].got
      /\ turn'[t].retry = turn[t].retry + 1 /\ turn[t].retry < MaxRetries
  <2>1. DOMAIN turn = Turns /\ DOMAIN turn[t] = Fields
    BY <1>1, <1>2 DEF TurnTypes, TurnOK
  <2> QED
    BY <2>1 DEF Refuse, OneTurn, Fields
<1>5. TurnOK(t)'
  BY <1>2, <1>4 DEF TurnOK
<1>6. ProgressOf(t)' /\ RoundsOf(t)'
  <2>1. ProgressOf(t)'
    BY <1>2, <1>3, <1>4 DEF ProgressOf
  <2>2. RoundsOf(t)'
    BY <1>2, <1>3, <1>4 DEF RoundsOf
  <2> QED
    BY <2>1, <2>2
<1>7. PICK at \in {"halve", "compact"} : job' = [job EXCEPT ![t] = Start(at)]
  BY DEF Refuse
<1>8. PICK new : new = Start(at)
  OBVIOUS
<1>9. t \in Jobs /\ t # Summariser
  BY DEF Jobs, Summariser
<1>10. new \in JobRecords /\ new.at \in {"idle", at} /\ Kept(new.snap) /\ new.told \subseteq said
       /\ (new.at # "idle" => Len(new.snap) > KeepLast)
  BY <1>8, StartType
<1>11. JobTypes' /\ \A q \in Jobs : Kept(job'[q].snap) /\ job'[q].told \subseteq said
  <2>1. \A u \in Turns \ {t} : turn'[u].at = turn[u].at
    BY <1>4 DEF OneTurn
  <2>2. new.at \in TurnJobs
    BY <1>10 DEF TurnJobs
  <2> QED
    BY <1>4, <1>7, <1>8, <1>9, <1>10, <2>1, <2>2, JobChanges
<1>12. SessionTypes'
  BY <1>3, <1>11, SessionFacts, CopyKeeps
<1>13. turn[t].at \notin Over
  BY <1>4 DEF Over
<1> QED
  BY <1>3, <1>4, <1>5, <1>6, <1>11, <1>12, <1>13, TurnChanges

-----------------------------------------------------------------------------
(***************************************************************************)
(* Steps of a compression                                                  *)
(***************************************************************************)

LEMMA CompressionKeeps ==
  ASSUME TurnsInv, NEW p \in Jobs, NEW new \in JobRecords, job' = [job EXCEPT ![p] = new],
         p \in Turns => new.at \in TurnJobs /\ (new.at # "idle" => job[p].at # "idle"),
         p = Summariser => new.at # "halve",
         new.at \in {"halve", "summarize"} => Len(new.snap) > KeepLast,
         Kept(new.snap), new.told \subseteq said,
         history' \in Seq(Msgs), Kept(history'), summary' \subseteq said, tiered' \subseteq said,
         UNCHANGED <<kind, turn, said, sentInRound>>
  PROVE  TurnsInv'
<1>1. p \in Turns => (new.at # "idle" => turn'[p].at = "compress")
  BY DEF TurnsInv, JobTypes
<1>2. JobTypes' /\ \A q \in Jobs : Kept(job'[q].snap) /\ job'[q].told \subseteq said
  BY <1>1, JobChanges
<1>3. SessionTypes'
  BY <1>2, SessionFacts, CopyKeeps
<1> QED
  BY <1>2, <1>3, JobStepKeeps

LEMMA HalveKeeps ==
  ASSUME TurnsInv, NEW t \in Turns, Halve(t)
  PROVE  TurnsInv'
<1>1. job[t].at = "halve" /\ job' = [job EXCEPT ![t] = Idle] /\ history' = Halved(job[t].snap)
      /\ UNCHANGED <<kind, turn, said, sentInRound, summary, tiered>>
  BY DEF Halve, reply, rest, steady
<1>2. t \in Jobs /\ t # Summariser
  BY DEF Jobs, Summariser
<1>3. job[t].snap \in Seq(Msgs) /\ Kept(job[t].snap) /\ Len(job[t].snap) > KeepLast
  BY <1>1, <1>2, SessionFacts DEF TurnsInv, JobTypes
<1>4. history' \in Seq(Msgs) /\ Kept(history')
  BY <1>1, <1>3, HalvedKept
<1>5. PICK new : new = Idle
  OBVIOUS
<1>6. new \in JobRecords /\ new.at = "idle" /\ Kept(new.snap) /\ new.told \subseteq said
  BY <1>5, IdleType
<1>7. new.at \in TurnJobs
  BY <1>6 DEF TurnJobs
<1>8. summary' \subseteq said /\ tiered' \subseteq said
  BY <1>1, SessionFacts
<1> QED
  BY <1>1, <1>2, <1>4, <1>5, <1>6, <1>7, <1>8, CompressionKeeps

\* What is told of comes from the copy.
LEMMA CompactedSaid ==
  ASSUME NEW h \in Seq(Msgs), Kept(h)
  PROVE  Compacted(h) \subseteq said /\ Compacted(h) \subseteq ToSet(h)
<1>1. Len(h) \in Nat /\ DOMAIN h = 1 .. Len(h) /\ KeepLast \in Nat
  BY SeqFacts
<1>2. CASE Len(h) > KeepLast
  <2> DEFINE b == Len(h) - KeepLast
             u == SubSeq(h, 1, b)
  <2>1. b \in Nat /\ b <= Len(h)
    BY <1>1, <1>2
  <2>2. u \in Seq(Msgs) /\ Len(u) = b /\ \A i \in 1 .. b : u[i] = h[i]
    BY <2>1, PrefixFacts
  <2>3. Compacted(h) = ToSet(u)
    BY <1>2 DEF Compacted
  <2> HIDE DEF u, b
  <2>4. DOMAIN u = 1 .. b
    BY <2>2, SeqFacts
  <2> QED
    BY <1>1, <2>1, <2>2, <2>3, <2>4 DEF ToSet, Kept
<1>3. CASE ~(Len(h) > KeepLast)
  BY <1>1, <1>3 DEF Compacted, ToSet, Kept
<1> QED
  BY <1>2, <1>3

LEMMA CompactorKeeps ==
  ASSUME TurnsInv, NEW p \in Jobs, CompactorStep(p)
  PROVE  TurnsInv'
<1>1. /\ history \in Seq(Msgs) /\ Kept(history) /\ summary \subseteq said /\ tiered \subseteq said
      /\ Kept(job[p].snap) /\ job[p].told \subseteq said /\ job[p].snap \in Seq(Msgs)
      /\ job[p] \in JobRecords /\ said \subseteq Msgs
  BY SessionFacts
<1>2. p \in Turns <=> p # Summariser
  BY DEF Jobs, Summariser
<1>3. job \in [Jobs -> JobRecords]
  BY DEF TurnsInv, JobTypes
<1>4. CASE CompactModel(p)
  <2>1. PICK l2 \in {Compacted(job[p].snap), {}} :
          job' = [job EXCEPT ![p].at = "cut", ![p].told = l2] /\ tiered' = l2
    BY <1>4 DEF CompactModel
  <2>2. l2 \subseteq said
    BY <1>1, <2>1, CompactedSaid
  <2>3. PICK new : new = [job[p] EXCEPT !.at = "cut", !.told = l2]
    OBVIOUS
  <2>4. new \in JobRecords /\ new.at = "cut" /\ new.snap = job[p].snap /\ new.told = l2
    BY <1>1, <2>2, <2>3 DEF JobRecords, TurnJobs
  <2>5. job' = [job EXCEPT ![p] = new]
    BY <1>3, <2>1, <2>3
  <2>6. UNCHANGED <<kind, turn, said, sentInRound, history, summary>> /\ job[p].at = "compact"
    BY <1>4 DEF CompactModel, reply, rest, steady
  <2>7. new.at \in TurnJobs
    BY <2>4 DEF TurnJobs
  <2> QED
    BY <1>1, <2>1, <2>2, <2>4, <2>5, <2>6, <2>7, CompressionKeeps
<1>5. CASE CompactFails(p)
  <2>1. job' = [job EXCEPT ![p] = IF p \in Turns THEN Start("halve") ELSE Idle] /\ job[p].at = "compact"
        /\ UNCHANGED <<kind, turn, said, sentInRound, history, summary, tiered>>
    BY <1>5 DEF CompactFails, session, reply, ghosts, rest, steady
  <2>2. PICK new : new = IF p \in Turns THEN Start("halve") ELSE Idle
    OBVIOUS
  <2>3. /\ new \in JobRecords /\ new.at \in {"idle", "halve"} /\ Kept(new.snap) /\ new.told \subseteq said
        /\ new.at # "idle" => Len(new.snap) > KeepLast /\ p \in Turns
    BY <2>2, StartType, IdleType
  <2>4. new.at \in TurnJobs
    BY <2>3 DEF TurnJobs
  <2> QED
    BY <1>1, <1>2, <2>1, <2>2, <2>3, <2>4, CompressionKeeps
<1>6. CASE Cut(p)
  <2>1. job' = [job EXCEPT ![p].at = "tell"] /\ job[p].at = "cut"
        /\ UNCHANGED <<kind, turn, said, sentInRound, summary, tiered>>
        /\ history' = IF Len(job[p].snap) > KeepLast THEN Keep(job[p].snap) ELSE history
    BY <1>6 DEF Cut, reply, ghosts, rest, steady
  <2>2. history' \in Seq(Msgs) /\ Kept(history')
    BY <1>1, <2>1, KeepKept
  <2>3. PICK new : new = [job[p] EXCEPT !.at = "tell"]
    OBVIOUS
  <2>4. new \in JobRecords /\ new.at = "tell" /\ new.snap = job[p].snap /\ new.told = job[p].told
    BY <1>1, <2>3 DEF JobRecords, TurnJobs
  <2>5. job' = [job EXCEPT ![p] = new]
    BY <1>3, <2>1, <2>3
  <2>6. new.at \in TurnJobs
    BY <2>4 DEF TurnJobs
  <2> QED
    BY <1>1, <2>1, <2>2, <2>4, <2>5, <2>6, CompressionKeeps
<1>7. CASE Tell(p)
  <2>1. job' = [job EXCEPT ![p] = Idle] /\ job[p].at = "tell"
        /\ UNCHANGED <<kind, turn, said, sentInRound, history, tiered>>
        /\ summary' = IF job[p].told = {} THEN summary ELSE job[p].told
    BY <1>7 DEF Tell, reply, ghosts, rest, steady
  <2>2. PICK new : new = Idle
    OBVIOUS
  <2>3. new \in JobRecords /\ new.at = "idle" /\ Kept(new.snap) /\ new.told \subseteq said
    BY <2>2, IdleType
  <2>4. new.at \in TurnJobs
    BY <2>3 DEF TurnJobs
  <2>5. summary' \subseteq said
    BY <1>1, <2>1
  <2> QED
    BY <1>1, <2>1, <2>2, <2>3, <2>4, <2>5, CompressionKeeps
<1> QED
  BY <1>4, <1>5, <1>6, <1>7 DEF CompactorStep

LEMMA SummariserInJobs == Summariser \in Jobs /\ Summariser \notin Turns
BY DEF Jobs, Summariser

\* The goroutine copies the history.
LEMMA SnapshotKeeps ==
  ASSUME TurnsInv, Snapshot
  PROVE  TurnsInv'
<1>1. history \in Seq(Msgs) /\ Kept(history) /\ summary \subseteq said /\ tiered \subseteq said /\ said \subseteq Msgs
      /\ Len(history) \in Nat /\ KeepLast \in Nat
  BY SessionFacts
<1>2. PICK new : new = IF compactor THEN [at |-> "compact", snap |-> history, told |-> {}]
                       ELSE IF Len(history) <= KeepLast \/ Valid(history) = {} THEN Idle
                       ELSE [at |-> "summarize", snap |-> history, told |-> summary]
  OBVIOUS
<1>3. job' = [job EXCEPT ![Summariser] = new] /\ UNCHANGED <<kind, turn, said, sentInRound, history, summary, tiered>>
  BY <1>2 DEF Snapshot, session, reply, ghosts, rest, steady
<1>4. /\ new \in JobRecords /\ new.at # "halve" /\ Kept(new.snap) /\ new.told \subseteq said
      /\ new.at = "summarize" => Len(new.snap) > KeepLast
  <2>1. CASE compactor
    BY <1>1, <1>2, <2>1 DEF JobRecords, TurnJobs
  <2>2. CASE ~compactor /\ (Len(history) <= KeepLast \/ Valid(history) = {})
    BY <1>2, <2>2, IdleType
  <2>3. CASE ~compactor /\ ~(Len(history) <= KeepLast \/ Valid(history) = {})
    <3>1. new = [at |-> "summarize", snap |-> history, told |-> summary] /\ Len(history) > KeepLast
      BY <1>1, <1>2, <2>3
    <3> QED
      BY <1>1, <3>1 DEF JobRecords
  <2> QED
    BY <2>1, <2>2, <2>3
<1> QED
  BY <1>1, <1>3, <1>4, SummariserInJobs, CompressionKeeps

\* A sequence is what is cut off and what is kept.
LEMMA CutAndKept ==
  ASSUME NEW h \in Seq(Msgs), Len(h) > KeepLast
  PROVE  ToSet(h) = ToSet(SubSeq(h, 1, Len(h) - KeepLast)) \cup ToSet(Keep(h))
<1> DEFINE b == Len(h) - KeepLast
           u == SubSeq(h, 1, b)
<1>1. Len(h) \in Nat /\ DOMAIN h = 1 .. Len(h) /\ KeepLast \in Nat /\ b \in Nat /\ b <= Len(h)
  BY SeqFacts
<1>2. u \in Seq(Msgs) /\ Len(u) = b /\ \A i \in 1 .. b : u[i] = h[i]
  BY <1>1, PrefixFacts
<1>3. Keep(h) \in Seq(Msgs) /\ Len(Keep(h)) = KeepLast /\ \A i \in 1 .. KeepLast : Keep(h)[i] = h[b + i]
  <2> DEFINE a == b + 1
  <2>1. a \in Nat \ {0} /\ a <= Len(h) + 1 /\ Len(h) - a + 1 = KeepLast
    BY <1>1
  <2>2. /\ SubSeq(h, a, Len(h)) \in Seq(Msgs) /\ Len(SubSeq(h, a, Len(h))) = Len(h) - a + 1
        /\ \A i \in 1 .. Len(h) - a + 1 : SubSeq(h, a, Len(h))[i] = h[a + i - 1]
    BY <1>1, <2>1, SubSeqFacts
  <2>3. Keep(h) = SubSeq(h, a, Len(h))
    BY DEF Keep
  <2> QED
    BY <1>1, <2>1, <2>2, <2>3
<1>4. DOMAIN Keep(h) = 1 .. KeepLast
  BY <1>3, SeqFacts
<1> HIDE DEF u
<1>5. DOMAIN u = 1 .. b
  BY <1>2, SeqFacts
<1>6. \A i \in 1 .. Len(h) : i \in 1 .. b \/ (i - b \in 1 .. KeepLast /\ b + (i - b) = i)
  BY <1>1
<1>7. \A i \in 1 .. KeepLast : b + i \in 1 .. Len(h)
  BY <1>1
<1> HIDE DEF b
<1>8. ToSet(u) \subseteq ToSet(h) /\ ToSet(Keep(h)) \subseteq ToSet(h)
  <2>1. ASSUME NEW m \in ToSet(u) PROVE m \in ToSet(h)
    <3>1. PICK i \in 1 .. b : m = u[i]
      BY <1>5, <2>1 DEF ToSet
    <3>2. i \in 1 .. Len(h) /\ m = h[i]
      BY <1>1, <1>2, <3>1
    <3> QED
      BY <1>1, <3>2 DEF ToSet
  <2>2. ASSUME NEW m \in ToSet(Keep(h)) PROVE m \in ToSet(h)
    <3>1. PICK i \in 1 .. KeepLast : m = Keep(h)[i]
      BY <1>4, <2>2 DEF ToSet
    <3>2. b + i \in 1 .. Len(h) /\ m = h[b + i]
      BY <1>3, <1>7, <3>1
    <3> QED
      BY <1>1, <3>2 DEF ToSet
  <2> QED
    BY <2>1, <2>2
<1>9. \A m \in ToSet(h) : m \in ToSet(u) \/ m \in ToSet(Keep(h))
  <2> SUFFICES ASSUME NEW m \in ToSet(h) PROVE m \in ToSet(u) \/ m \in ToSet(Keep(h))
    OBVIOUS
  <2>1. PICK i \in 1 .. Len(h) : m = h[i]
    BY <1>1 DEF ToSet
  <2>2. CASE i \in 1 .. b
    BY <1>2, <1>5, <2>1, <2>2 DEF ToSet
  <2>3. CASE i - b \in 1 .. KeepLast /\ b + (i - b) = i
    <3>1. PICK k \in 1 .. KeepLast : b + k = i
      BY <2>3
    <3>2. m = Keep(h)[k]
      BY <1>3, <2>1, <3>1
    <3> QED
      BY <1>4, <3>2 DEF ToSet
  <2> QED
    BY <1>6, <2>2, <2>3
<1> QED
  BY <1>8, <1>9 DEF u, b

\* The messages a summary tells of, and those it leaves, are those of the copy.
LEMMA ValidSaid ==
  ASSUME NEW h \in Seq(Msgs), Len(h) > KeepLast
  PROVE  /\ Valid(h) \subseteq ToSet(h)
         /\ Spoken(ToSet(h)) \subseteq Valid(h) \cup ToSet(Keep(h))
BY CutAndKept DEF Valid, Spoken

LEMMA KeptSaid ==
  ASSUME NEW h \in Seq(Msgs), Kept(h)
  PROVE  ToSet(h) \subseteq said
<1>1. DOMAIN h = 1 .. Len(h)
  BY SeqFacts
<1> QED
  BY <1>1 DEF ToSet, Kept

LEMMA SummaryKeeps ==
  ASSUME TurnsInv, SetSummary \/ Truncate
  PROVE  TurnsInv'
<1>1. /\ history \in Seq(Msgs) /\ Kept(history) /\ summary \subseteq said /\ tiered \subseteq said
      /\ Kept(job[Summariser].snap) /\ job[Summariser].told \subseteq said /\ job[Summariser].snap \in Seq(Msgs)
      /\ job[Summariser] \in JobRecords
  BY SessionFacts, SummariserInJobs
<1>2. job \in [Jobs -> JobRecords]
  BY DEF TurnsInv, JobTypes
<1>3. CASE SetSummary
  <2>1. /\ job[Summariser].at = "summarize" /\ job' = [job EXCEPT ![Summariser].at = "truncate"]
        /\ UNCHANGED <<kind, turn, said, sentInRound, history, tiered>>
        /\ \/ summary' = Valid(job[Summariser].snap) \cup {}
           \/ summary' = Valid(job[Summariser].snap) \cup job[Summariser].told
    BY <1>3 DEF SetSummary, reply, rest, steady
  <2>2. Len(job[Summariser].snap) > KeepLast
    BY <2>1, SummariserInJobs DEF TurnsInv, JobTypes
  <2>3. Valid(job[Summariser].snap) \subseteq said
    BY <1>1, <2>2, ValidSaid, KeptSaid
  <2>4. PICK new : new = [job[Summariser] EXCEPT !.at = "truncate"]
    OBVIOUS
  <2>5. new \in JobRecords /\ new.at = "truncate" /\ new.snap = job[Summariser].snap /\ new.told = job[Summariser].told
    BY <1>1, <2>4 DEF JobRecords
  <2>6. job' = [job EXCEPT ![Summariser] = new]
    BY <1>2, <2>1, <2>4
  <2> QED
    BY <1>1, <2>1, <2>3, <2>5, <2>6, SummariserInJobs, CompressionKeeps
<1>4. CASE Truncate
  <2>1. job' = [job EXCEPT ![Summariser] = Idle]
        /\ UNCHANGED <<kind, turn, said, sentInRound, summary, tiered>>
        /\ history' = IF Len(history) > KeepLast THEN Keep(history) ELSE history
    BY <1>4 DEF Truncate, reply, ghosts, rest, steady
  <2>2. history' \in Seq(Msgs) /\ Kept(history')
    BY <1>1, <2>1, KeepKept
  <2>3. PICK new : new = Idle
    OBVIOUS
  <2>4. new \in JobRecords /\ new.at = "idle" /\ Kept(new.snap) /\ new.told \subseteq said
    BY <2>3, IdleType
  <2> QED
    BY <1>1, <2>1, <2>2, <2>3, <2>4, SummariserInJobs, CompressionKeeps
<1> QED
  BY <1>3, <1>4

\* A turn that has answered may start the summariser.
LEMMA MaybeKeeps ==
  ASSUME TurnsInv, NEW t \in Turns, MaybeSummarize(t)
  PROVE  TurnsInv'
<1>1. turn[t].at = "saved" /\ To(t, "respond") /\ UNCHANGED <<kind, history, summary, tiered, said, sentInRound>>
  BY DEF MaybeSummarize, session, reply, ghosts, rest, steady
<1>2. TurnTypes /\ JobTypes
  BY DEF TurnsInv
<1>3. /\ OneTurn(t) /\ DOMAIN turn'[t] = Fields /\ turn'[t].at = "respond"
      /\ turn'[t].round = 0 /\ turn'[t].retry = 0 /\ turn'[t].n = 0 /\ turn'[t].got = 0
  BY <1>1, <1>2, ToFields
<1>4. sentInRound \in BOOLEAN
  BY SessionFacts
<1>5. CASE job' = job
  BY <1>1, <1>4, <1>5, ToKeeps DEF Over
<1>6. CASE job[Summariser].at = "idle" /\ job' = [job EXCEPT ![Summariser].at = "started"]
  <2>1. TurnOK(t)'
    <3>1. 0 \in 0 .. MaxRounds /\ 0 \in 0 .. MaxRetries /\ 0 \in 0 .. MaxCalls /\ 0 \in 0 .. 0
      OBVIOUS
    <3> QED
      BY <1>3, <3>1 DEF TurnOK
  <2>2. ProgressOf(t)' /\ RoundsOf(t)'
    <3>1. ProgressOf(t)'
      BY <1>3 DEF ProgressOf
    <3>2. RoundsOf(t)'
      BY <1>3 DEF RoundsOf
    <3> QED
      BY <3>1, <3>2
  <2>3. PICK new : new = [job[Summariser] EXCEPT !.at = "started"]
    OBVIOUS
  <2>4. job[Summariser] \in JobRecords /\ Kept(job[Summariser].snap) /\ job[Summariser].told \subseteq said
    BY SessionFacts, SummariserInJobs
  <2>5. new \in JobRecords /\ new.at = "started" /\ new.snap = job[Summariser].snap /\ new.told = job[Summariser].told
    BY <2>3, <2>4 DEF JobRecords
  <2>6. job' = [job EXCEPT ![Summariser] = new]
    BY <1>2, <1>6, <2>3 DEF JobTypes
  <2>7. \A u \in Turns : turn'[u].at = turn[u].at \/ (turn[u].at # "compress" /\ turn'[u].at # "compress")
    BY <1>1, <1>3 DEF OneTurn
  <2>8. JobTypes'
    <3>1. /\ job' \in [Jobs -> JobRecords] /\ job'[Summariser] = new
          /\ \A q \in Jobs \ {Summariser} : job'[q] = job[q]
      BY <1>2, <2>5, <2>6, SummariserInJobs DEF JobTypes
    <3>2. \A u \in Turns : u \in Jobs /\ u # Summariser
      BY DEF Jobs, Summariser
    <3> QED
      BY <1>2, <2>5, <2>7, <3>1, <3>2 DEF JobTypes
  <2>9. \A q \in Jobs : Kept(job'[q].snap) /\ job'[q].told \subseteq said
    <3> SUFFICES ASSUME NEW q \in Jobs PROVE Kept(job'[q].snap) /\ job'[q].told \subseteq said
      OBVIOUS
    <3>1. CASE q = Summariser
      <4>1. job'[q] = new
        BY <1>2, <2>6, <3>1 DEF JobTypes
      <4> QED
        BY <2>4, <2>5, <4>1
    <3>2. CASE q # Summariser
      <4>1. job'[q] = job[q]
        BY <1>2, <2>6, <3>2 DEF JobTypes
      <4> QED
        BY <4>1, SessionFacts
    <3> QED
      BY <3>1, <3>2
  <2>10. SessionTypes'
    BY <1>1, <2>9, SessionFacts, CopyKeeps
  <2>11. turn[t].at \notin Over
    BY <1>1 DEF Over
  <2> QED
    BY <1>1, <1>3, <2>1, <2>2, <2>8, <2>10, <2>11, TurnChanges
<1> QED
  BY <1>5, <1>6 DEF MaybeSummarize

\* The message tool, of a turn or of a heartbeat, changes the flag.
LEMMA FlagKeeps ==
  ASSUME TurnsInv, HeartbeatSends \/ (\E t \in Turns : SendMessage(t))
  PROVE  TurnsInv'
<1>1. UNCHANGED <<kind, turn, job, history, summary, tiered, said>> /\ sentInRound' \in BOOLEAN
  BY DEF HeartbeatSends, SendMessage, session, ghosts, rest, steady
<1>2. JobTypes'
  BY <1>1 DEF TurnsInv, JobTypes
<1>3. SessionTypes'
  BY <1>1, SessionStays
<1> QED
  BY <1>1, <1>2, <1>3, JobStepKeeps

\* The process dies: what was said stays as it is.
LEMMA CrashKeeps ==
  ASSUME TurnsInv, Crash
  PROVE  TurnsInv'
<1>1. TurnTypes /\ JobTypes /\ Progress
  BY DEF TurnsInv
<1>2. UNCHANGED <<kind, history, summary, tiered, said>> /\ sentInRound' = FALSE
  BY DEF Crash, session, ghosts, steady
<1>3. /\ DOMAIN turn' = Turns
      /\ \A t \in Turns : \/ turn'[t] = turn[t] /\ turn[t].at \in Over
                          \/ DOMAIN turn'[t] = Fields /\ turn'[t].at = "dead" /\ turn'[t].round = 0
                             /\ turn'[t].retry = 0 /\ turn'[t].n = 0 /\ turn'[t].got = 0
  BY DEF Crash, NoTurn, Fields, Active
<1>4. ASSUME NEW t \in Turns
      PROVE  TurnOK(t)' /\ ProgressOf(t)' /\ RoundsOf(t)' /\ turn'[t].at \in Over
  <2>1. TurnOK(t) /\ ProgressOf(t) /\ RoundsOf(t)
    BY <1>1 DEF TurnTypes, Progress
  <2>2. CASE turn'[t] = turn[t] /\ turn[t].at \in Over
    BY <1>2, <2>1, <2>2 DEF TurnOK, ProgressOf, RoundsOf
  <2>3. CASE DOMAIN turn'[t] = Fields /\ turn'[t].at = "dead" /\ turn'[t].round = 0
             /\ turn'[t].retry = 0 /\ turn'[t].n = 0 /\ turn'[t].got = 0
    <3>1. 0 \in 0 .. MaxRounds /\ 0 \in 0 .. MaxRetries /\ 0 \in 0 .. MaxCalls /\ 0 \in 0 .. 0
      OBVIOUS
    <3>2. TurnOK(t)' /\ turn'[t].at \in Over
      BY <2>3, <3>1 DEF TurnOK, Over
    <3>3. ProgressOf(t)'
      BY <2>3 DEF ProgressOf
    <3>4. RoundsOf(t)'
      BY <2>3 DEF RoundsOf
    <3> QED
      BY <3>2, <3>3, <3>4
  <2> QED
    BY <1>3, <2>2, <2>3
<1>5. TurnTypes' /\ Progress'
  BY <1>3, <1>4 DEF TurnTypes, Progress
<1>6. job' = [p \in Jobs |-> Idle]
  BY <1>1 DEF Crash, JobTypes
<1>7. Idle \in JobRecords /\ Idle.at = "idle" /\ Idle.snap = <<>> /\ Idle.told = {} /\ Kept(<<>>)
  BY IdleType
<1>8. JobTypes'
  <2>1. \A t \in Turns : t \in Jobs
    BY DEF Jobs
  <2> QED
    BY <1>6, <1>7, <2>1, SummariserInJobs DEF JobTypes, TurnJobs
<1>9. SessionTypes'
  BY <1>2, <1>6, <1>7, SessionFacts, CopyKeeps
<1>10. OneInboxTurn'
  BY <1>4 DEF OneInboxTurn, Active
<1> QED
  BY <1>5, <1>8, <1>9, <1>10 DEF TurnsInv

LEMMA TurnsStep == TurnsInv /\ [Next]_vars => TurnsInv'
<1> SUFFICES ASSUME TurnsInv, [Next]_vars PROVE TurnsInv'
  OBVIOUS
<1>1. ASSUME NEW t \in Turns, TurnStep(t) PROVE TurnsInv'
  BY <1>1, PromptKeeps, MoveKeeps, ClearKeeps, SaveStepKeeps, FlagKeeps, RefuseKeeps, HalveKeeps, MaybeKeeps
  DEF TurnStep, SaveStep
<1>2. ASSUME NEW p \in Jobs, CompactorStep(p) PROVE TurnsInv'
  BY <1>2, CompactorKeeps
<1>3. CASE Snapshot \/ SetSummary \/ Truncate
  BY <1>3, SnapshotKeeps, SummaryKeeps
<1>4. CASE HeartbeatSends \/ Crash
  BY <1>4, FlagKeeps, CrashKeeps
<1>5. CASE UNCHANGED vars
  <2>1. UNCHANGED <<kind, turn, job, history, summary, tiered, said, sentInRound>>
    BY <1>5 DEF vars
  <2>2. JobTypes'
    BY <2>1 DEF TurnsInv, JobTypes
  <2>3. SessionTypes'
    BY <2>1, SessionStays, SessionFacts
  <2> QED
    BY <2>1, <2>2, <2>3, JobStepKeeps
<1> QED
  BY <1>1, <1>2, <1>3, <1>4, <1>5 DEF Next, Jobs

LEMMA TurnsInvHolds == Spec => []TurnsInv
BY InitEstablishes, TurnsStep, PTL DEF Spec

LEMMA InvConsistent == TurnsInv => Consistent
<1> SUFFICES ASSUME TurnsInv PROVE Consistent
  OBVIOUS
<1>1. history \in Seq(Msgs) /\ Kept(history) /\ summary \subseteq said /\ tiered \subseteq said /\ sentInRound \in BOOLEAN
  BY SessionFacts
<1>2. TypeOK
  <2>1. Cardinality(Active \cap Inbox) <= 1
    <3>1. CASE Active \cap Inbox = {}
      BY <3>1, FS_EmptySet
    <3>2. ASSUME NEW t \in Active \cap Inbox PROVE Cardinality(Active \cap Inbox) <= 1
      <4>1. Active \cap Inbox = {t}
        BY <3>2 DEF TurnsInv, OneInboxTurn
      <4>2. Cardinality({t}) = 1
        BY FS_Singleton
      <4> QED
        BY <4>1, <4>2
    <3> QED
      BY <3>1, <3>2
  <2>2. \A t \in Turns : TurnOK(t) /\ job[t].at \in TurnJobs /\ (job[t].at # "idle" => turn[t].at = "compress")
    BY DEF TurnsInv, TurnTypes, JobTypes
  <2>3. job[Summariser] \in JobRecords /\ job[Summariser].at # "halve"
    BY SessionFacts, SummariserInJobs DEF TurnsInv, JobTypes
  <2>4. job[Summariser].at \in {"idle", "started", "summarize", "truncate", "compact", "cut", "tell"}
    BY <2>3 DEF JobRecords, TurnJobs
  <2>5. ToSet(history) \subseteq said
    BY <1>1, KeptSaid
  <2> QED
    BY <1>1, <2>1, <2>2, <2>4, <2>5 DEF TypeOK, TurnOK, TurnJobs
<1>3. HistoryInOrder
  <2> SUFFICES ASSUME NEW i \in DOMAIN history, NEW j \in DOMAIN history, i < j
               PROVE  /\ history[i] # history[j]
                      /\ history[i].turn = history[j].turn => Rank(history[i]) < Rank(history[j])
    BY DEF HistoryInOrder
  <2>1. i \in 1 .. Len(history) /\ j \in 1 .. Len(history) /\ history[i] \in Msgs
    BY <1>1, SeqFacts
  <2>2. Rank(history[i]) \in Nat
    BY <2>1, RankFacts
  <2>3. history[i].turn = history[j].turn => Rank(history[i]) < Rank(history[j])
    BY <1>1, <2>1 DEF Kept, InOrder
  <2> QED
    BY <2>2, <2>3
<1> QED
  BY <1>2, <1>3 DEF Consistent

\* One inbox turn at a time, jobs that belong to somebody, and a history in
\* which the messages of a turn are in order and once each, whatever copies of
\* it the compressions of several turns and the summariser write back.
THEOREM OrderSurvives == Spec => []Consistent
BY TurnsInvHolds, InvConsistent, PTL

-----------------------------------------------------------------------------
(***************************************************************************)
(* What has been said is in the history or told of                         *)
(***************************************************************************)

\* What no user has cleared, and whether there is none of it.
Uncleared == Spoken(said \ cleared)
AllCleared == said \subseteq cleared

\* What a compression holds is what it will account for, unless a user cleared
\* it in the meantime.
Told(p) ==
  /\ job[p].at \in {"compact", "cut", "tell"} => compactor
  /\ job[p].at \in {"summarize", "truncate"} => ~compactor /\ job[p].snap # <<>>
  /\ ~late /\ ~lossy =>
       /\ job[p].at = "compact" /\ Summary \subseteq cleared /\ job[p].snap # <<>> => Uncleared \subseteq ToSet(job[p].snap)
       /\ job[p].at \in {"cut", "tell"} => summary = {} /\ tiered = job[p].told /\ tiered # {}
       /\ job[p].at = "cut" => /\ job[p].snap # <<>> /\ job[p].told = Compacted(job[p].snap)
                               /\ Uncleared \subseteq ToSet(job[p].snap)
       /\ job[p].at \in {"summarize", "truncate"} =>
            AllCleared \/ (history = job[p].snap /\ Len(history) > KeepLast)
       /\ job[p].at = "summarize" => summary \ cleared \subseteq job[p].told
       /\ job[p].at = "truncate" => AllCleared \/ Valid(history) \ cleared \subseteq summary

\* The compactor tells once: after that there is a summary, and another would
\* leave it behind.
OneTelling ==
  ~late /\ ~lossy => \A p, q \in Jobs : job[p].at \in {"cut", "tell"} /\ job[q].at \in {"cut", "tell"} => p = q

RememberInv == NothingForgotten /\ OneTelling /\ \A p \in Jobs : Told(p)

LEMMA RememberInit == Init => RememberInv
<1> SUFFICES ASSUME Init PROVE RememberInv
  OBVIOUS
<1>1. \A p \in Jobs : job[p].at = "idle"
  BY DEF Init, Idle, Jobs
<1>2. said = {}
  BY DEF Init
<1>3. NothingForgotten
  BY <1>2 DEF NothingForgotten, Spoken
<1> QED
  BY <1>1, <1>3 DEF RememberInv, OneTelling, Told

\* Neither the session nor a compression moves.
LEMMA RememberStays ==
  ASSUME RememberInv, UNCHANGED <<compactor, history, summary, tiered, job, said, late, lossy, cleared>>
  PROVE  RememberInv'
<1>1. Summary' = Summary
  BY DEF Summary
<1>2. \A p \in Jobs : Told(p)'
  BY <1>1 DEF RememberInv, Told, Uncleared, AllCleared
<1>3. NothingForgotten' /\ OneTelling'
  BY <1>1 DEF RememberInv, NothingForgotten, OneTelling
<1> QED
  BY <1>2, <1>3 DEF RememberInv

LEMMA AppendSet ==
  ASSUME NEW h \in Seq(Msgs), NEW m \in Msgs
  PROVE  ToSet(Append(h, m)) = ToSet(h) \cup {m}
<1> DEFINE u == Append(h, m)
<1>1. /\ u \in Seq(Msgs) /\ Len(u) = Len(h) + 1 /\ Len(h) \in Nat
      /\ \A i \in 1 .. Len(h) : u[i] = h[i]
      /\ u[Len(h) + 1] = m
  BY AppendFacts
<1> HIDE DEF u
<1>2. DOMAIN u = 1 .. Len(h) + 1 /\ DOMAIN h = 1 .. Len(h)
  BY <1>1, SeqFacts
<1>3. \A x \in ToSet(u) : x \in ToSet(h) \cup {m}
  <2> SUFFICES ASSUME NEW x \in ToSet(u) PROVE x \in ToSet(h) \cup {m}
    OBVIOUS
  <2>1. PICK i \in 1 .. Len(h) + 1 : x = u[i]
    BY <1>2 DEF ToSet
  <2>2. CASE i \in 1 .. Len(h)
    BY <1>1, <1>2, <2>1, <2>2 DEF ToSet
  <2>3. CASE i = Len(h) + 1
    BY <1>1, <2>1, <2>3
  <2> QED
    BY <1>1, <2>2, <2>3
<1>4. \A x \in ToSet(h) : x \in ToSet(u)
  <2> SUFFICES ASSUME NEW x \in ToSet(h) PROVE x \in ToSet(u)
    OBVIOUS
  <2>1. PICK i \in 1 .. Len(h) : x = h[i]
    BY <1>2 DEF ToSet
  <2>2. i \in 1 .. Len(h) + 1 /\ x = u[i]
    BY <1>1, <2>1
  <2> QED
    BY <1>2, <2>2 DEF ToSet
<1>5. m \in ToSet(u)
  <2>1. Len(h) + 1 \in 1 .. Len(h) + 1
    BY <1>1
  <2> QED
    BY <1>1, <1>2, <2>1 DEF ToSet
<1>6. ToSet(u) = ToSet(h) \cup {m}
  BY <1>3, <1>4, <1>5
<1> QED
  BY <1>6 DEF u

\* A message that is saved while nothing is copied is in the history.
LEMMA RememberSave ==
  ASSUME TurnsInv, RememberInv, NEW m \in Msgs, Save(m), UNCHANGED <<compactor, summary, tiered, job, lossy, cleared>>
  PROVE  RememberInv'
<1>1. /\ history' = Append(history, m) /\ said' = said \cup {m}
      /\ ~late' => ~late /\ \A p \in Jobs : job[p].snap = <<>>
  BY DEF Save, TurnsInv, JobTypes
<1>2. Summary' = Summary
  BY DEF Summary
<1>3. history \in Seq(Msgs)
  BY SessionFacts
<1>4. ToSet(history') = ToSet(history) \cup {m}
  BY <1>1, <1>3, AppendSet
<1>5. NothingForgotten'
  BY <1>1, <1>2, <1>4 DEF RememberInv, NothingForgotten, Spoken
<1>6. OneTelling'
  BY <1>1 DEF RememberInv, OneTelling
<1>7. ASSUME NEW p \in Jobs PROVE Told(p)'
  <2>1. Told(p)
    BY DEF RememberInv
  <2>2. ASSUME ~late', ~lossy', job[p].at \in {"summarize", "truncate"} PROVE FALSE
    BY <1>1, <2>1, <2>2 DEF Told
  <2>3. ASSUME ~late', ~lossy' PROVE job[p].at # "cut" /\ job[p].snap = <<>>
    BY <1>1, <2>1, <2>3 DEF Told
  <2>4. /\ job[p].at \in {"compact", "cut", "tell"} => compactor'
        /\ job[p].at \in {"summarize", "truncate"} => ~compactor' /\ job[p].snap # <<>>
    BY <2>1 DEF Told
  <2> QED
    BY <1>1, <1>2, <2>1, <2>2, <2>3, <2>4 DEF Told
<1> QED
  BY <1>5, <1>6, <1>7 DEF RememberInv

\* A job begins or ends without a word of its own.
LEMMA RememberJob ==
  ASSUME TurnsInv, RememberInv, NEW p \in Jobs, NEW new, job' = [job EXCEPT ![p] = new],
         new.at \in {"idle", "started", "halve", "compact"},
         new.at = "compact" => compactor /\ new.snap = history,
         UNCHANGED <<compactor, history, summary, tiered, said, late, lossy, cleared>>
  PROVE  RememberInv'
<1>1. Summary' = Summary
  BY DEF Summary
<1>2. job'[p] = new /\ \A q \in Jobs \ {p} : job'[q] = job[q]
  BY DEF TurnsInv, JobTypes
<1>3. NothingForgotten'
  BY <1>1 DEF RememberInv, NothingForgotten
<1>4. OneTelling'
  BY <1>2 DEF RememberInv, OneTelling
<1>5. ASSUME NEW q \in Jobs, q # p PROVE Told(q)'
  <2>1. Told(q) /\ job'[q] = job[q]
    BY <1>2, <1>5 DEF RememberInv
  <2> QED
    BY <1>1, <2>1 DEF Told, Uncleared, AllCleared
<1>6. Told(p)'
  <2>1. Summary \subseteq cleared /\ ~late /\ ~lossy => Uncleared \subseteq ToSet(history)
    BY DEF RememberInv, NothingForgotten, Uncleared, Spoken
  <2> QED
    BY <1>1, <1>2, <2>1 DEF Told, Uncleared
<1> QED
  BY <1>3, <1>4, <1>5, <1>6 DEF RememberInv

\* What the compactor's model tells of, with what stays, is all there was.
LEMMA RememberCompactor ==
  ASSUME TurnsInv, RememberInv, NEW p \in Jobs, CompactModel(p) \/ Cut(p) \/ Tell(p)
  PROVE  RememberInv'
<1>1. /\ job[p].snap \in Seq(Msgs) /\ job[p] \in JobRecords /\ job \in [Jobs -> JobRecords]
      /\ history \in Seq(Msgs)
  BY SessionFacts DEF TurnsInv, JobTypes
<1>2. Told(p) /\ \A q \in Jobs : Told(q)
  BY DEF RememberInv
<1>3. UNCHANGED <<compactor, said, late, cleared>> /\ Uncleared' = Uncleared /\ \A q \in Jobs \ {p} : job'[q] = job[q]
  BY <1>1 DEF CompactModel, Cut, Tell, reply, ghosts, rest, steady, Uncleared
<1>4. job[p].at \in {"compact", "cut", "tell"} /\ compactor
  BY <1>2 DEF CompactModel, Cut, Tell, Told
<1>5. CASE CompactModel(p)
  <2>1. PICK l2 \in {Compacted(job[p].snap), {}} :
          /\ job' = [job EXCEPT ![p].at = "cut", ![p].told = l2] /\ tiered' = l2
          /\ lossy' = (lossy \/ l2 = {} \/ Summary # {})
    BY <1>5 DEF CompactModel
  <2>2. UNCHANGED <<history, summary>> /\ job[p].at = "compact"
    BY <1>5 DEF CompactModel
  <2>3. job'[p].at = "cut" /\ job'[p].told = l2 /\ job'[p].snap = job[p].snap
    BY <1>1, <2>1 DEF JobRecords
  <2>4. SUFFICES ASSUME ~late', ~lossy' PROVE RememberInv'
    <3>1. ~(~late' /\ ~lossy') => RememberInv'
      <4> SUFFICES ASSUME ~(~late' /\ ~lossy') PROVE RememberInv'
        OBVIOUS
      <4>1. \A q \in Jobs : Told(q)'
        <5> SUFFICES ASSUME NEW q \in Jobs PROVE Told(q)'
          OBVIOUS
        <5>1. CASE q = p
          BY <1>3, <1>4, <2>3, <5>1 DEF Told
        <5>2. CASE q # p
          BY <1>2, <1>3, <5>2 DEF Told
        <5> QED
          BY <5>1, <5>2
      <4> QED
        BY <4>1 DEF RememberInv, NothingForgotten, OneTelling
    <3> QED
      BY <3>1
  <2>5. ~late /\ ~lossy /\ l2 # {} /\ Summary = {}
    BY <1>3, <2>1, <2>4
  <2>6. summary = {} /\ tiered = {}
    BY <1>4, <2>5 DEF Summary
  <2>7. Summary' = l2
    BY <1>3, <1>4, <2>1, <2>2, <2>6 DEF Summary
  <2>8. Uncleared \subseteq ToSet(history)
    BY <2>5 DEF RememberInv, NothingForgotten, Uncleared
  <2>9. l2 = Compacted(job[p].snap)
    BY <2>1, <2>5
  <2>10. job[p].snap # <<>>
    BY <1>5 DEF CompactModel
  <2>11. Uncleared \subseteq ToSet(job[p].snap)
    BY <1>2, <2>2, <2>5, <2>10 DEF Told
  <2>12. \A q \in Jobs : job[q].at \notin {"cut", "tell"}
    BY <1>2, <2>5, <2>6 DEF Told
  <2>13. NothingForgotten'
    BY <1>3, <2>2, <2>8 DEF NothingForgotten, Uncleared
  <2>14. OneTelling'
    BY <1>3, <2>12 DEF OneTelling
  <2>15. Told(p)'
    BY <1>3, <1>4, <2>1, <2>2, <2>3, <2>5, <2>6, <2>9, <2>10, <2>11 DEF Told
  <2>16. ASSUME NEW q \in Jobs, q # p PROVE Told(q)'
    BY <1>2, <1>3, <1>4, <2>5, <2>7, <2>12, <2>16 DEF Told
  <2> QED
    BY <2>13, <2>14, <2>15, <2>16 DEF RememberInv
<1>6. CASE Cut(p)
  <2>1. /\ job[p].at = "cut" /\ job' = [job EXCEPT ![p].at = "tell"] /\ UNCHANGED <<summary, tiered, lossy>>
        /\ history' = IF Len(job[p].snap) > KeepLast THEN Keep(job[p].snap) ELSE history
    BY <1>6 DEF Cut, ghosts
  <2>2. job'[p].at = "tell" /\ job'[p].told = job[p].told /\ job'[p].snap = job[p].snap
    BY <1>1, <2>1 DEF JobRecords
  <2>3. Summary' = Summary
    BY <1>3, <2>1 DEF Summary
  <2>4. NothingForgotten'
    <3> SUFFICES ASSUME ~late, ~lossy PROVE Uncleared \subseteq ToSet(history') \cup Summary
      BY <1>3, <2>1, <2>3 DEF NothingForgotten, Uncleared
    <3>1. Summary = job[p].told /\ job[p].told = Compacted(job[p].snap) /\ Uncleared \subseteq ToSet(job[p].snap)
      BY <1>2, <1>4, <2>1 DEF Told, Summary
    <3>2. CASE Len(job[p].snap) > KeepLast
      <4>1. Compacted(job[p].snap) = ToSet(SubSeq(job[p].snap, 1, Len(job[p].snap) - KeepLast))
        BY <3>2 DEF Compacted
      <4>2. ToSet(job[p].snap) = Compacted(job[p].snap) \cup ToSet(Keep(job[p].snap))
        BY <1>1, <3>2, <4>1, CutAndKept
      <4> QED
        BY <2>1, <3>1, <3>2, <4>2
    <3>3. CASE ~(Len(job[p].snap) > KeepLast)
      <4>1. Compacted(job[p].snap) = ToSet(job[p].snap)
        BY <3>3 DEF Compacted
      <4> QED
        BY <3>1, <4>1
    <3> QED
      BY <3>2, <3>3
  <2>5. OneTelling'
    BY <1>3, <2>1, <2>2 DEF RememberInv, OneTelling
  <2>6. Told(p)'
    BY <1>2, <1>3, <1>4, <2>1, <2>2, <2>3 DEF Told
  <2>7. ASSUME NEW q \in Jobs, q # p PROVE Told(q)'
    <3>1. ~late /\ ~lossy => job[q].at \notin {"cut", "tell"} /\ Summary # {}
      BY <1>2, <1>4, <2>1, <2>7 DEF RememberInv, OneTelling, Told, Summary
    <3> QED
      BY <1>2, <1>3, <1>4, <2>1, <2>3, <2>7, <3>1 DEF Told
  <2> QED
    BY <2>4, <2>5, <2>6, <2>7 DEF RememberInv
<1>7. CASE Tell(p)
  <2>1. /\ job[p].at = "tell" /\ job' = [job EXCEPT ![p] = Idle] /\ UNCHANGED <<history, tiered, lossy>>
        /\ summary' = IF job[p].told = {} THEN summary ELSE job[p].told
    BY <1>7 DEF Tell, ghosts
  <2>2. job'[p].at = "idle"
    BY <1>1, <2>1 DEF Idle
  <2>3. ~late /\ ~lossy => Summary' = Summary /\ Summary # {}
    BY <1>2, <1>3, <1>4, <2>1 DEF Told, Summary
  <2>4. NothingForgotten'
    BY <1>3, <2>1, <2>3 DEF RememberInv, NothingForgotten, Spoken
  <2>5. ~late /\ ~lossy => \A q \in Jobs \ {p} : job[q].at \notin {"cut", "tell"}
    BY <2>1 DEF RememberInv, OneTelling
  <2>6. OneTelling'
    BY <1>3, <2>1, <2>2, <2>5 DEF OneTelling
  <2>7. Told(p)'
    BY <2>2 DEF Told
  <2>8. ASSUME NEW q \in Jobs, q # p PROVE Told(q)'
    BY <1>2, <1>3, <1>4, <2>1, <2>3, <2>5, <2>8 DEF Told
  <2> QED
    BY <2>4, <2>6, <2>7, <2>8 DEF RememberInv
<1> QED
  BY <1>5, <1>6, <1>7

\* The summary tells of what the truncation will cut, and of what it told before.
LEMMA RememberSummary ==
  ASSUME TurnsInv, RememberInv, SetSummary \/ Truncate
  PROVE  RememberInv'
<1> DEFINE s == Summariser
<1>1. /\ job[s].snap \in Seq(Msgs) /\ job[s] \in JobRecords /\ job \in [Jobs -> JobRecords]
      /\ history \in Seq(Msgs) /\ s \in Jobs /\ s \notin Turns
  BY SessionFacts, SummariserInJobs DEF TurnsInv, JobTypes
<1>2. Told(s) /\ \A q \in Jobs : Told(q)
  BY <1>1 DEF RememberInv
<1>3. /\ UNCHANGED <<compactor, said, late, tiered, cleared>> /\ Uncleared' = Uncleared /\ AllCleared' = AllCleared
      /\ \A q \in Jobs \ {s} : job'[q] = job[q]
  BY <1>1 DEF SetSummary, Truncate, reply, ghosts, rest, steady, Uncleared, AllCleared
<1>4. ~compactor /\ \A q \in Jobs : job[q].at \notin {"compact", "cut", "tell"}
  <2>1. job[s].at \in {"summarize", "truncate"}
    BY DEF SetSummary, Truncate
  <2> QED
    BY <1>2, <2>1 DEF Told
<1>5. \A q \in Jobs \ {s} : job[q].at \in {"idle", "halve"}
  <2> SUFFICES ASSUME NEW q \in Jobs \ {s} PROVE job[q].at \in {"idle", "halve"}
    OBVIOUS
  <2>1. q \in Turns
    BY DEF Jobs
  <2> QED
    BY <1>4, <2>1 DEF TurnsInv, JobTypes, TurnJobs
<1>6. Summary = summary /\ Summary' = summary'
  BY <1>3, <1>4 DEF Summary
<1>7. ASSUME NEW q \in Jobs, q # s PROVE Told(q)'
  BY <1>3, <1>5, <1>7 DEF Told
<1>8. CASE SetSummary
  <2>1. /\ job[s].at = "summarize" /\ job' = [job EXCEPT ![s].at = "truncate"] /\ history' = history
        /\ \E parts \in BOOLEAN :
             /\ summary' = Valid(job[s].snap) \cup (IF parts THEN {} ELSE job[s].told)
             /\ lossy' = (lossy \/ (parts /\ summary # {}))
    BY <1>8 DEF SetSummary
  <2>2. job'[s].at = "truncate" /\ job'[s].snap = job[s].snap
    BY <1>1, <2>1 DEF JobRecords
  <2>3. ~late' /\ ~lossy' => /\ ~late /\ ~lossy /\ summary \ cleared \subseteq summary'
                             /\ AllCleared \/ (history = job[s].snap /\ Len(history) > KeepLast
                                              /\ Valid(history) \subseteq summary')
    BY <1>2, <1>3, <2>1 DEF Told
  <2>4. NothingForgotten'
    <3> SUFFICES ASSUME ~late', ~lossy' PROVE Uncleared \subseteq ToSet(history) \cup summary'
      BY <1>3, <1>6, <2>1 DEF NothingForgotten, Uncleared
    <3>1. Uncleared \subseteq ToSet(history) \cup summary
      BY <1>6, <2>3 DEF RememberInv, NothingForgotten, Uncleared
    <3>2. Uncleared \cap cleared = {}
      BY DEF Uncleared, Spoken
    <3> QED
      BY <2>3, <3>1, <3>2
  <2>5. OneTelling'
    BY <1>3, <1>4, <2>2 DEF OneTelling
  <2>6. Told(s)'
    <3>1. job[s].snap # <<>> /\ Valid(history)' = Valid(history)
      BY <1>2, <2>1 DEF Told, Valid, Spoken
    <3> QED
      BY <1>3, <1>4, <2>1, <2>2, <2>3, <3>1 DEF Told
  <2> QED
    BY <1>7, <2>4, <2>5, <2>6 DEF RememberInv
<1>9. CASE Truncate
  <2>1. /\ job[s].at = "truncate" /\ job' = [job EXCEPT ![s] = Idle] /\ UNCHANGED <<summary, lossy>>
        /\ history' = IF Len(history) > KeepLast THEN Keep(history) ELSE history
    BY <1>9 DEF Truncate, ghosts
  <2>2. job'[s].at = "idle"
    BY <1>1, <2>1 DEF Idle
  <2>3. NothingForgotten'
    <3> SUFFICES ASSUME ~late, ~lossy PROVE Uncleared \subseteq ToSet(history') \cup summary
      BY <1>3, <1>6, <2>1 DEF NothingForgotten, Uncleared
    <3>1. CASE AllCleared
      BY <3>1 DEF AllCleared, Uncleared, Spoken
    <3>2. CASE ~AllCleared
      <4>1. Valid(history) \ cleared \subseteq summary /\ Len(history) > KeepLast /\ history' = Keep(history)
        BY <1>2, <2>1, <3>2 DEF Told
      <4>2. Uncleared \subseteq ToSet(history) \cup summary
        BY <1>6 DEF RememberInv, NothingForgotten, Uncleared
      <4>3. Spoken(ToSet(history)) \subseteq Valid(history) \cup ToSet(Keep(history))
        BY <1>1, <4>1, ValidSaid
      <4> QED
        BY <4>1, <4>2, <4>3 DEF Spoken, Uncleared
    <3> QED
      BY <3>1, <3>2
  <2>4. OneTelling'
    BY <1>3, <1>4, <2>2 DEF OneTelling
  <2>5. Told(s)'
    BY <2>2 DEF Told
  <2> QED
    BY <1>7, <2>3, <2>4, <2>5 DEF RememberInv
<1> QED
  BY <1>8, <1>9

\* After a compression that halves, nothing is promised but the places of jobs.
LEMMA RememberHalve ==
  ASSUME TurnsInv, RememberInv, NEW t \in Turns, Halve(t)
  PROVE  RememberInv'
<1>1. lossy' = TRUE /\ job' = [job EXCEPT ![t] = Idle] /\ compactor' = compactor
  BY DEF Halve, rest, steady
<1>2. t \in Jobs /\ job'[t].at = "idle" /\ \A q \in Jobs \ {t} : job'[q] = job[q]
  BY <1>1 DEF TurnsInv, JobTypes, Idle, Jobs
<1>3. \A p \in Jobs : Told(p)'
  <2> SUFFICES ASSUME NEW p \in Jobs PROVE Told(p)'
    OBVIOUS
  <2>1. CASE p = t
    BY <1>2, <2>1 DEF Told
  <2>2. CASE p # t
    BY <1>1, <1>2, <2>2 DEF Told, RememberInv
  <2> QED
    BY <2>1, <2>2
<1> QED
  BY <1>1, <1>3 DEF RememberInv, NothingForgotten, OneTelling

\* /clear: what it takes is no longer owed, and its second call leaves nothing
\* untold but what was written between the two.
LEMMA RememberClear ==
  ASSUME TurnsInv, RememberInv, NEW t \in Turns, ClearHistory(t) \/ ClearSummary(t)
  PROVE  RememberInv'
<1>1. UNCHANGED <<compactor, tiered, job, said, late>>
  BY DEF ClearHistory, ClearSummary, reply, ghosts, rest, steady
<1>2. NothingForgotten /\ OneTelling /\ \A p \in Jobs : Told(p)
  BY DEF RememberInv
<1>3. CASE ClearHistory(t)
  <2>1. cleared' = said /\ history' = <<>> /\ UNCHANGED <<summary, lossy>>
    BY <1>3 DEF ClearHistory, ghosts
  <2>2. Uncleared' = {} /\ AllCleared' /\ Summary' = Summary /\ summary \ cleared' = {}
    BY <1>1, <2>1, SessionFacts DEF Uncleared, Spoken, AllCleared, Summary
  <2>3. NothingForgotten'
    BY <2>2 DEF NothingForgotten, Uncleared
  <2>4. OneTelling'
    BY <1>1, <1>2, <2>1 DEF OneTelling
  <2>5. ASSUME NEW p \in Jobs PROVE Told(p)'
    <3>1. Told(p)
      BY <1>2
    <3> QED
      BY <1>1, <2>1, <2>2, <3>1 DEF Told
  <2> QED
    BY <2>3, <2>4, <2>5 DEF RememberInv
<1>4. CASE ClearSummary(t)
  <2>1. /\ UNCHANGED <<cleared, history>> /\ summary' = {}
        /\ lossy' = (lossy \/ ~(summary \subseteq cleared))
    BY <1>4 DEF ClearSummary, rest, steady
  <2>2. Uncleared' = Uncleared /\ AllCleared' = AllCleared /\ Valid(history)' = Valid(history)
    BY <1>1, <2>1 DEF Uncleared, AllCleared, Valid, Spoken
  <2>3. ~lossy' => ~lossy /\ summary \subseteq cleared
    BY <2>1
  <2>4. summary \subseteq cleared => Summary \subseteq cleared \/ Summary' = Summary
    BY <1>1, <2>1 DEF Summary
  <2>5. NothingForgotten'
    <3> SUFFICES ASSUME ~late, ~lossy, summary \subseteq cleared
                 PROVE  Uncleared \subseteq ToSet(history) \cup Summary'
      BY <1>1, <2>1, <2>2, <2>3 DEF NothingForgotten, Uncleared
    <3>1. Uncleared \subseteq ToSet(history) \cup Summary /\ Uncleared \cap cleared = {}
      BY <1>2 DEF NothingForgotten, Uncleared, Spoken
    <3> QED
      BY <2>4, <3>1
  <2>6. OneTelling'
    BY <1>1, <1>2, <2>3 DEF OneTelling
  <2>7. ASSUME NEW p \in Jobs PROVE Told(p)'
    <3>1. Told(p)
      BY <1>2
    <3>2. ~late /\ ~lossy' => ~lossy /\ (Summary' \subseteq cleared => Summary \subseteq cleared)
      BY <2>3, <2>4
    <3>3. ~late /\ ~lossy' /\ job[p].at = "truncate" => AllCleared \/ Valid(history) \ cleared \subseteq {}
      BY <2>3, <3>1 DEF Told
    <3> QED
      BY <1>1, <2>1, <2>2, <3>1, <3>2, <3>3 DEF Told
  <2> QED
    BY <2>5, <2>6, <2>7 DEF RememberInv
<1> QED
  BY <1>3, <1>4

LEMMA RememberCrash ==
  ASSUME TurnsInv, RememberInv, Crash
  PROVE  RememberInv'
<1>1. \A p \in Jobs : job'[p].at = "idle"
  BY DEF Crash, Idle, TurnsInv, JobTypes
<1>2. UNCHANGED <<compactor, history, summary, tiered, said, late, lossy, cleared>>
  BY DEF Crash, session, ghosts, steady
<1>3. NothingForgotten'
  BY <1>2 DEF RememberInv, NothingForgotten, Summary
<1> QED
  BY <1>1, <1>3 DEF RememberInv, OneTelling, Told

LEMMA RememberTurn ==
  ASSUME TurnsInv, RememberInv, NEW t \in Turns, TurnStep(t)
  PROVE  RememberInv'
<1>1. CASE ReadHistory(t) \/ TimeOut(t) \/ Rebuild(t) \/ SkipInternal(t) \/ HandleCommand(t) \/ Answer(t)
           \/ Fail(t) \/ Respond(t) \/ SendMessage(t)
  <2>1. UNCHANGED <<compactor, history, summary, tiered, job, said, late, lossy, cleared>>
    BY <1>1 DEF ReadHistory, Arrive, TimeOut, Rebuild, SkipInternal, HandleCommand, Answer, Fail, Respond, Ended,
                SendMessage, session, ghosts, rest, steady
  <2> QED
    BY <2>1, RememberStays
<1>2. CASE SaveStep(t)
  <2>1. PICK m : Saved(t, m)
    BY <1>2, SavedMessage
  <2>2. UNCHANGED <<compactor, summary, tiered, job, lossy, cleared>>
    BY <1>2 DEF SaveStep, SaveUser, AskTools, SaveResult, SaveAnswer, rest, steady
  <2> QED
    BY <2>1, <2>2, RememberSave DEF Saved
<1>3. CASE Halve(t)
  BY <1>3, RememberHalve
<1>4. CASE Refuse(t)
  <2>1. PICK new : new = Start(IF compactor THEN "compact" ELSE "halve")
    OBVIOUS
  <2>2. job' = [job EXCEPT ![t] = new] /\ t \in Jobs
        /\ UNCHANGED <<compactor, history, summary, tiered, said, late, lossy, cleared>>
    BY <1>4, <2>1 DEF Refuse, Jobs, session, ghosts, steady
  <2>3. new.at \in {"idle", "halve", "compact"} /\ (new.at = "compact" => compactor /\ new.snap = history)
    BY <2>1 DEF Start, Idle
  <2> QED
    BY <2>2, <2>3, RememberJob
<1>5. CASE MaybeSummarize(t)
  <2>1. UNCHANGED <<compactor, history, summary, tiered, said, late, lossy, cleared>>
    BY <1>5 DEF MaybeSummarize, session, ghosts, rest, steady
  <2>2. CASE job' = job
    BY <2>1, <2>2, RememberStays
  <2>3. CASE job' = [job EXCEPT ![Summariser].at = "started"]
    <3>1. PICK new : new = [job[Summariser] EXCEPT !.at = "started"]
      OBVIOUS
    <3>2. new.at = "started"
      BY <3>1, SessionFacts, SummariserInJobs DEF JobRecords
    <3>3. job' = [job EXCEPT ![Summariser] = new]
      BY <2>3, <3>1 DEF TurnsInv, JobTypes
    <3> QED
      BY <2>1, <3>2, <3>3, SummariserInJobs, RememberJob
  <2> QED
    BY <1>5, <2>2, <2>3 DEF MaybeSummarize
<1>6. CASE ClearHistory(t) \/ ClearSummary(t)
  BY <1>6, RememberClear
<1> QED
  BY <1>1, <1>2, <1>3, <1>4, <1>5, <1>6 DEF TurnStep, SaveStep

LEMMA RememberStep ==
  ASSUME TurnsInv, RememberInv, [Next]_vars
  PROVE  RememberInv'
<1>1. ASSUME NEW t \in Turns, TurnStep(t) PROVE RememberInv'
  BY <1>1, RememberTurn
<1>2. ASSUME NEW p \in Jobs, CompactorStep(p) PROVE RememberInv'
  <2>1. CASE CompactFails(p)
    <3>1. PICK new : new = IF p \in Turns THEN Start("halve") ELSE Idle
      OBVIOUS
    <3>2. job' = [job EXCEPT ![p] = new] /\ UNCHANGED <<compactor, history, summary, tiered, said, late, lossy, cleared>>
      BY <2>1, <3>1 DEF CompactFails, session, ghosts, rest, steady
    <3>3. new.at \in {"idle", "halve"}
      BY <3>1 DEF Start, Idle
    <3> QED
      BY <3>2, <3>3, RememberJob
  <2> QED
    BY <1>2, <2>1, RememberCompactor DEF CompactorStep
<1>3. CASE Snapshot
  <2>1. PICK new : new = IF compactor THEN [at |-> "compact", snap |-> history, told |-> {}]
                         ELSE IF Len(history) <= KeepLast \/ Valid(history) = {} THEN Idle
                         ELSE [at |-> "summarize", snap |-> history, told |-> summary]
    OBVIOUS
  <2>2. job' = [job EXCEPT ![Summariser] = new] /\ UNCHANGED <<compactor, history, summary, tiered, said, late, lossy, cleared>>
    BY <1>3, <2>1 DEF Snapshot, session, ghosts, rest, steady
  <2>3. CASE new.at \in {"idle", "compact"}
    <3>1. new.at = "compact" => compactor /\ new.snap = history
      BY <2>1 DEF Idle
    <3> QED
      BY <2>2, <2>3, <3>1, SummariserInJobs, RememberJob
  <2>4. CASE new.at \notin {"idle", "compact"}
    <3>1. new = [at |-> "summarize", snap |-> history, told |-> summary] /\ ~compactor /\ ~(Len(history) <= KeepLast)
      BY <2>1, <2>4 DEF Idle
    <3>2. Len(history) > KeepLast
      <4>1. Len(history) \in Nat /\ KeepLast \in Nat
        BY SessionFacts
      <4> QED
        BY <3>1, <4>1
    <3>3. job'[Summariser] = new /\ \A q \in Jobs \ {Summariser} : job'[q] = job[q]
      BY <2>2, SummariserInJobs DEF TurnsInv, JobTypes
    <3>4. Summary' = Summary
      BY <2>2 DEF Summary
    <3>5. NothingForgotten'
      BY <2>2, <3>4 DEF RememberInv, NothingForgotten
    <3>6. OneTelling'
      BY <2>2, <3>1, <3>3 DEF RememberInv, OneTelling
    <3>7. ASSUME NEW q \in Jobs, q # Summariser PROVE Told(q)'
      BY <2>2, <3>3, <3>4, <3>7 DEF RememberInv, Told, Uncleared, AllCleared
    <3>8. Told(Summariser)'
      <4>1. Len(<<>>) = 0 /\ KeepLast \in Nat
        OBVIOUS
      <4>2. history # <<>>
        BY <3>2, <4>1
      <4> QED
        BY <2>2, <3>1, <3>2, <3>3, <4>2 DEF Told
    <3> QED
      BY <3>5, <3>6, <3>7, <3>8 DEF RememberInv
  <2> QED
    BY <2>3, <2>4
<1>4. CASE SetSummary \/ Truncate
  BY <1>4, RememberSummary
<1>5. CASE HeartbeatSends \/ UNCHANGED vars
  <2>1. UNCHANGED <<compactor, history, summary, tiered, job, said, late, lossy, cleared>>
    BY <1>5 DEF HeartbeatSends, vars, session, ghosts, steady
  <2> QED
    BY <2>1, RememberStays
<1>6. CASE Crash
  BY <1>6, RememberCrash
<1> QED
  BY <1>1, <1>2, <1>3, <1>4, <1>5, <1>6 DEF Next, Jobs

\* What was said is in the history or in what the summary tells of, unless one
\* of the named things happened, whatever turns, summariser and compactor do to
\* each other and whenever the process dies.
THEOREM NothingLost == Spec => []NothingForgotten
<1>1. RememberInv => NothingForgotten
  BY DEF RememberInv
<1>2. TurnsInv /\ RememberInv /\ [Next]_vars => RememberInv'
  BY RememberStep
<1> QED
  BY TurnsInvHolds, RememberInit, <1>1, <1>2, PTL DEF Spec

-----------------------------------------------------------------------------
(***************************************************************************)
(* One reply                                                               *)
(***************************************************************************)

\* Whose turn is not mixed with another use of the tool can trust the flag.
FlagInv ==
  /\ messaged \subseteq Active
  /\ \A t \in UserTurns \cap Active : t \notin mixed => (sentInRound <=> t \in messaged)

\* The action of RepliedOnce.
OneReply ==
  \A t \in UserTurns : t \notin mixed =>
    /\ turn'[t].at = "published" /\ turn[t].at # "published" => t \notin messaged
    /\ turn'[t].at = "silent" /\ turn[t].at # "silent" => t \in messaged

\* Where the steps of a turn lead.
LEMMA TurnGoes ==
  ASSUME TurnsInv, NEW t \in Turns, TurnStep(t), ~SkipInternal(t), ~Respond(t)
  PROVE  OneTurn(t) /\ turn'[t].at \notin Over /\ (turn[t].at \notin Over \/ ReadHistory(t))
<1>1. DOMAIN turn = Turns /\ DOMAIN turn[t] = Fields /\ TurnTypes
  BY DEF TurnsInv, TurnTypes, TurnOK
<1>2. CASE SaveStep(t)
  <2>1. PICK m : Saved(t, m)
    BY <1>2, SavedMessage
  <2> QED
    BY <2>1 DEF Saved, Over
<1>3. CASE ReadHistory(t)
  BY <1>1, <1>3 DEF ReadHistory, Arrive, OneTurn, Over, Fields
<1>4. CASE TimeOut(t) \/ Rebuild(t) \/ Refuse(t)
  BY <1>1, <1>4 DEF TimeOut, Rebuild, Refuse, OneTurn, Over, Fields
<1>5. CASE HandleCommand(t) \/ ClearHistory(t) \/ ClearSummary(t) \/ Answer(t) \/ Fail(t) \/ MaybeSummarize(t)
  <2>1. PICK at \in {"clearing", "respond", "answer", "failed"} : To(t, at)
    BY <1>5 DEF HandleCommand, ClearHistory, ClearSummary, Answer, Fail, MaybeSummarize
  <2>2. OneTurn(t) /\ turn'[t].at = at
    BY <1>1, <2>1, ToFields
  <2>3. turn[t].at \notin Over
    BY <1>5 DEF HandleCommand, ClearHistory, ClearSummary, Answer, Fail, MaybeSummarize, Over
  <2> QED
    BY <2>1, <2>2, <2>3 DEF Over
<1>6. CASE SendMessage(t)
  BY <1>1, <1>6 DEF SendMessage, rest, OneTurn, Over
<1>7. CASE Halve(t)
  <2>1. turn[t].at = "compress"
    BY <1>7 DEF Halve, TurnsInv, JobTypes
  <2> QED
    BY <1>1, <1>7, <2>1 DEF Halve, OneTurn, Over
<1> QED
  BY <1>2, <1>3, <1>4, <1>5, <1>6, <1>7 DEF TurnStep, SaveStep

\* Nothing about turns and flag changes.
LEMMA FlagStays ==
  ASSUME TurnsInv, FlagInv, UNCHANGED <<kind, turn, sentInRound, messaged, mixed>>
  PROVE  FlagInv' /\ OneReply
BY DEF FlagInv, OneReply, Active, UserTurns, Of

LEMMA FlagTurn ==
  ASSUME TurnsInv, FlagInv, NEW t \in Turns, TurnStep(t)
  PROVE  FlagInv' /\ OneReply
<1>1. kind' = kind /\ UserTurns' = UserTurns /\ UserTurns \cap SystemTurns = {} /\ UserTurns \cap DirectTurns = {}
      /\ UserTurns \subseteq Turns
  <2>1. kind' = kind
    BY DEF TurnStep, ReadHistory, Arrive, SkipInternal, HandleCommand, ClearHistory, ClearSummary, SaveUser, Answer, SendMessage, SaveResult,
           Fail, TimeOut, AskTools, Refuse, Halve, Rebuild, SaveAnswer, MaybeSummarize, Respond, Ended, rest, steady
  <2> QED
    BY <2>1 DEF UserTurns, SystemTurns, DirectTurns, Of
<1>2. TurnTypes
  BY DEF TurnsInv
<1>3. CASE SkipInternal(t)
  <2>1. To(t, "silent") /\ turn[t].at = "waiting" /\ t \notin UserTurns /\ UNCHANGED <<sentInRound, messaged, mixed>>
    BY <1>1, <1>3 DEF SkipInternal, reply
  <2>2. OneTurn(t) /\ turn'[t].at = "silent"
    BY <1>2, <2>1, ToFields
  <2>3. Active' = Active
    BY <2>1, <2>2 DEF Active, OneTurn, Over
  <2> QED
    BY <1>1, <2>1, <2>2, <2>3 DEF FlagInv, OneReply, OneTurn
<1>4. CASE Respond(t)
  <2>1. /\ turn[t].at \in {"respond", "failed"} /\ messaged' = messaged \ {t} /\ mixed' = mixed \ {t}
        /\ sentInRound' = sentInRound
    BY <1>4 DEF Respond, Ended
  <2>2. PICK at \in {"silent", "published"} : To(t, at) /\ (t \in UserTurns => at = IF sentInRound THEN "silent" ELSE "published")
    BY <1>1, <1>4 DEF Respond
  <2>3. OneTurn(t) /\ turn'[t].at = at
    BY <1>2, <2>2, ToFields
  <2>4. Active' = Active \ {t} /\ t \in Active
    BY <2>1, <2>2, <2>3 DEF Active, OneTurn, Over
  <2>5. FlagInv'
    BY <1>1, <2>1, <2>4 DEF FlagInv
  <2>6. OneReply
    <3>1. t \in UserTurns /\ t \notin mixed => (sentInRound <=> t \in messaged)
      BY <2>4 DEF FlagInv
    <3>2. sentInRound \in BOOLEAN
      BY SessionFacts
    <3> QED
      BY <1>1, <2>2, <2>3, <3>1, <3>2 DEF OneReply, OneTurn
  <2> QED
    BY <2>5, <2>6
<1>5. CASE ~SkipInternal(t) /\ ~Respond(t)
  <2>1. OneTurn(t) /\ turn'[t].at \notin Over /\ (turn[t].at \notin Over \/ ReadHistory(t))
    BY <1>5, TurnGoes
  <2>2. OneReply
    BY <1>1, <2>1 DEF OneReply, OneTurn, Over
  <2>3. Active' = Active \cup {t}
    BY <2>1 DEF Active, OneTurn
  <2>4. CASE ReadHistory(t)
    <3>1. turn[t].at = "waiting" /\ messaged' = messaged
      BY <2>4 DEF ReadHistory, Arrive
    <3>2. t \notin Active
      BY <3>1 DEF Active, Over
    <3>3. CASE t \in SystemTurns
      <4>1. UNCHANGED <<mixed, sentInRound>>
        BY <2>4, <3>3 DEF ReadHistory
      <4> QED
        BY <1>1, <2>2, <2>3, <3>1, <3>3, <4>1 DEF FlagInv
    <3>4. CASE t \notin SystemTurns
      <4>1. sentInRound' = FALSE /\ mixed' = mixed \cup Active
        BY <2>4, <3>4 DEF ReadHistory, ResetSentInRound
      <4>2. t \notin messaged
        BY <3>2 DEF FlagInv
      <4>3. messaged' \subseteq Active'
        BY <2>3, <3>1 DEF FlagInv
      <4>4. \A u \in UserTurns' \cap Active' : u \notin mixed' => u = t
        BY <2>3, <4>1
      <4>5. ~sentInRound' /\ t \notin messaged'
        BY <3>1, <4>1, <4>2
      <4> QED
        BY <2>2, <4>3, <4>4, <4>5 DEF FlagInv
    <3> QED
      BY <3>3, <3>4
  <2>5. CASE turn[t].at \notin Over
    <3>1. Active' = Active /\ t \in Active
      BY <2>3, <2>5 DEF Active
    <3>2. CASE SendMessage(t)
      <4>1. messaged' = messaged \cup {t} /\ sentInRound' = TRUE /\ mixed' = mixed \cup (Active \ {t})
        BY <3>2 DEF SendMessage
      <4> QED
        BY <1>1, <2>2, <3>1, <4>1 DEF FlagInv
    <3>3. CASE ~SendMessage(t)
      <4>1. ~ReadHistory(t)
        BY <2>5 DEF ReadHistory, Arrive, Over
      <4>2. UNCHANGED <<sentInRound, messaged, mixed>>
        BY <1>5, <3>3, <4>1 DEF TurnStep, HandleCommand, ClearHistory, ClearSummary, SaveUser, Answer, SaveResult,
           Fail, TimeOut, AskTools, Refuse, Halve, Rebuild, SaveAnswer, MaybeSummarize, reply
      <4> QED
        BY <1>1, <2>2, <3>1, <4>2 DEF FlagInv
    <3> QED
      BY <3>2, <3>3
  <2> QED
    BY <2>1, <2>4, <2>5
<1> QED
  BY <1>3, <1>4, <1>5

LEMMA FlagStep ==
  ASSUME TurnsInv, FlagInv, [Next]_vars
  PROVE  FlagInv' /\ OneReply
<1>1. ASSUME NEW t \in Turns, TurnStep(t) PROVE FlagInv' /\ OneReply
  BY <1>1, FlagTurn
<1>2. ASSUME NEW p \in Jobs, CompactorStep(p) PROVE FlagInv' /\ OneReply
  <2>1. UNCHANGED <<kind, turn, sentInRound, messaged, mixed>>
    BY <1>2 DEF CompactorStep, CompactModel, CompactFails, Cut, Tell, reply, rest, steady
  <2> QED
    BY <2>1, FlagStays
<1>3. CASE Snapshot \/ SetSummary \/ Truncate \/ UNCHANGED vars
  <2>1. UNCHANGED <<kind, turn, sentInRound, messaged, mixed>>
    BY <1>3 DEF Snapshot, SetSummary, Truncate, vars, reply, rest, steady
  <2> QED
    BY <2>1, FlagStays
<1>4. CASE HeartbeatSends
  <2>1. UNCHANGED <<kind, turn, messaged>> /\ sentInRound' = TRUE /\ mixed' = mixed \cup Active
    BY <1>4 DEF HeartbeatSends, steady
  <2> QED
    BY <2>1 DEF FlagInv, OneReply, Active, UserTurns, Of
<1>5. CASE Crash
  <2>1. messaged' = {}
    BY <1>5 DEF Crash
  <2>2. \A t \in Turns : turn'[t].at = "dead" \/ (turn'[t] = turn[t] /\ t \notin Active)
    BY <1>5 DEF Crash, NoTurn
  <2>3. Active' = {}
    BY <2>2 DEF Active, Over
  <2>4. OneReply
    BY <2>2 DEF OneReply, UserTurns, Of
  <2> QED
    BY <2>1, <2>3, <2>4 DEF FlagInv
<1> QED
  BY <1>1, <1>2, <1>3, <1>4, <1>5 DEF Next, Jobs

\* A user whose turn ran without another use of the message tool is answered
\* once, by the tool or by Run.
THEOREM AnsweredOnceOnly == Spec => RepliedOnce
<1>1. Init => FlagInv
  BY DEF Init, FlagInv, Active, NoTurn, Over
<1>2. TurnsInv /\ FlagInv /\ [Next]_vars => FlagInv' /\ OneReply
  BY FlagStep
<1>3. RepliedOnce <=> [][OneReply]_vars
  BY PTL DEF RepliedOnce, OneReply
<1> QED
  BY TurnsInvHolds, <1>1, <1>2, <1>3, PTL DEF Spec

HIDE SessionTurnsAssumption
-----------------------------------------------------------------------------
(***************************************************************************)
(* The prompt: where the elements that a pass keeps stand                  *)
(***************************************************************************)
\* Where the picked elements are: at[n] of the first n elements are picked.
Places(s, I, r, at) ==
  /\ at \in [0 .. Len(s) -> Nat] /\ at[0] = 0 /\ Len(r) = at[Len(s)]
  /\ \A n \in I \cap (1 .. Len(s)) : at[n] \in 1 .. Len(r) /\ r[at[n]] = s[n]
  /\ \A k \in 1 .. Len(r) : \E n \in I \cap (1 .. Len(s)) : at[n] = k
  /\ \A m, n \in 0 .. Len(s) : m <= n => at[m] <= at[n]
  /\ \A m \in 0 .. Len(s), n \in I \cap (1 .. Len(s)) : m < n => at[m] < at[n]

\* One element more.
LEMMA PlacesAppend ==
  ASSUME NEW S, NEW u \in Seq(S), NEW x \in S, NEW I, NEW r \in Seq(S), NEW at, Places(u, I, r, at),
         NEW q, q = IF Len(u) + 1 \in I THEN Append(r, x) ELSE r
  PROVE  \E new : Places(Append(u, x), I, q, new)
<1> DEFINE w == Append(u, x)  n == Len(u)
           new == [k \in 0 .. Len(w) |-> IF k <= n THEN at[k] ELSE Len(q)]
<1>1. /\ n \in Nat /\ Len(w) = n + 1 /\ w[n + 1] = x /\ \A k \in 1 .. n : w[k] = u[k]
      /\ Len(r) \in Nat
  OBVIOUS
<1>2. /\ at \in [0 .. n -> Nat] /\ at[0] = 0 /\ Len(r) = at[n]
      /\ \A k \in I \cap (1 .. n) : at[k] \in 1 .. Len(r) /\ r[at[k]] = u[k]
      /\ \A k \in 1 .. Len(r) : \E m \in I \cap (1 .. n) : at[m] = k
      /\ \A l, m \in 0 .. n : l <= m => at[l] <= at[m]
      /\ \A l \in 0 .. n, m \in I \cap (1 .. n) : l < m => at[l] < at[m]
  BY DEF Places
<1>3. /\ Len(q) \in Nat /\ Len(r) <= Len(q) /\ \A k \in 1 .. Len(r) : q[k] = r[k]
      /\ n + 1 \in I => Len(q) = Len(r) + 1 /\ q[Len(q)] = x
      /\ n + 1 \notin I => q = r
  <2>1. CASE n + 1 \in I
    BY <1>1, <2>1
  <2>2. CASE n + 1 \notin I
    BY <1>1, <2>2
  <2> QED
    BY <2>1, <2>2
<1> HIDE DEF w
<1>4. /\ \A k \in 0 .. n : new[k] = at[k] /\ at[k] \in Nat /\ at[k] <= Len(r)
      /\ new[n + 1] = Len(q) /\ new \in [0 .. Len(w) -> Nat]
  <2>1. \A k \in 0 .. n : at[k] \in Nat /\ at[k] <= Len(r)
    BY <1>1, <1>2
  <2>2. 0 .. Len(w) = (0 .. n) \cup {n + 1}
    BY <1>1
  <2> QED
    BY <1>1, <1>3, <2>1, <2>2
<1> HIDE DEF new, n
<1>5. new[0] = 0 /\ Len(q) = new[Len(w)]
  BY <1>1, <1>2, <1>4
<1>6. \A k \in I \cap (1 .. Len(w)) : new[k] \in 1 .. Len(q) /\ q[new[k]] = w[k]
  <2> TAKE k \in I \cap (1 .. Len(w))
  <2>1. CASE k = n + 1
    BY <1>1, <1>3, <1>4, <2>1
  <2>2. CASE k \in 1 .. n
    <3>1. at[k] \in 1 .. Len(r) /\ r[at[k]] = u[k] /\ new[k] = at[k]
      BY <1>2, <1>4, <2>2
    <3> QED
      BY <1>1, <1>3, <2>2, <3>1
  <2> QED
    BY <1>1, <2>1, <2>2
<1>7. \A k \in 1 .. Len(q) : \E m \in I \cap (1 .. Len(w)) : new[m] = k
  <2> TAKE k \in 1 .. Len(q)
  <2>1. CASE k \in 1 .. Len(r)
    <3>1. PICK m \in I \cap (1 .. n) : at[m] = k
      BY <1>2, <2>1
    <3>2. m \in I \cap (1 .. Len(w)) /\ new[m] = k
      BY <1>1, <1>4, <3>1
    <3> QED
      BY <3>2
  <2>2. CASE k \notin 1 .. Len(r)
    <3>1. n + 1 \in I /\ k = Len(q)
      BY <1>1, <1>3, <2>2
    <3>2. n + 1 \in I \cap (1 .. Len(w)) /\ new[n + 1] = k
      BY <1>1, <1>4, <3>1
    <3> QED
      BY <3>2
  <2> QED
    BY <2>1, <2>2
<1>8. \A l, m \in 0 .. Len(w) : l <= m => new[l] <= new[m]
  <2> SUFFICES ASSUME NEW l \in 0 .. Len(w), NEW m \in 0 .. Len(w), l <= m PROVE new[l] <= new[m]
    OBVIOUS
  <2>1. CASE m = n + 1 /\ l = n + 1
    BY <1>3, <1>4, <2>1
  <2>2. CASE m = n + 1 /\ l \in 0 .. n
    <3>1. new[l] = at[l] /\ at[l] \in Nat /\ at[l] <= Len(r) /\ new[m] = Len(q)
      BY <1>4, <2>2
    <3>2. Len(r) <= Len(q) /\ Len(r) \in Nat /\ Len(q) \in Nat
      BY <1>1, <1>3
    <3> QED
      BY <3>1, <3>2
  <2>3. CASE m \in 0 .. n
    <3>1. l \in 0 .. n
      BY <1>1, <2>3
    <3> QED
      BY <1>2, <1>4, <2>3, <3>1
  <2> QED
    BY <1>1, <2>1, <2>2, <2>3
<1>9. \A l \in 0 .. Len(w), m \in I \cap (1 .. Len(w)) : l < m => new[l] < new[m]
  <2> SUFFICES ASSUME NEW l \in 0 .. Len(w), NEW m \in I \cap (1 .. Len(w)), l < m PROVE new[l] < new[m]
    OBVIOUS
  <2>1. l \in 0 .. n
    BY <1>1
  <2>2. CASE m = n + 1
    <3>1. new[l] = at[l] /\ at[l] \in Nat /\ at[l] <= Len(r) /\ new[m] = Len(q)
      BY <1>4, <2>1, <2>2
    <3>2. Len(q) = Len(r) + 1 /\ Len(r) \in Nat
      BY <1>1, <1>3, <2>2
    <3> QED
      BY <3>1, <3>2
  <2>3. CASE m \in 1 .. n
    BY <1>1, <1>2, <1>4, <2>1, <2>3
  <2> QED
    BY <1>1, <2>2, <2>3
<1>10. Places(w, I, q, new)
  BY <1>4, <1>5, <1>6, <1>7, <1>8, <1>9 DEF Places
<1> QED
  BY <1>10 DEF w

LEMMA PlacesEmpty == ASSUME NEW I PROVE Places(<<>>, I, <<>>, [n \in 0 .. 0 |-> 0])
BY DEF Places

LEMMA PickPlaces ==
  ASSUME NEW S, NEW s \in Seq(S), NEW I
  PROVE  \E at : Places(s, I, Pick(s, I), at)
<1> DEFINE T == {u \in Seq(S) : \E at : Places(u, I, Pick(u, I), at)}
<1>1. <<>> \in T
  BY PickEmpty, PlacesEmpty
<1>2. ASSUME NEW u \in Seq(S), NEW x \in S, u \in T PROVE Append(u, x) \in T
  <2> DEFINE w == Append(u, x)  r == Pick(u, I)  q == Pick(w, I)
  <2>1. r \in Seq(S) /\ w \in Seq(S)
    BY PickType
  <2>2. q = IF Len(u) + 1 \in I THEN Append(r, x) ELSE r
    BY PickAppend
  <2>3. PICK at : Places(u, I, r, at)
    BY <1>2
  <2> HIDE DEF r, q
  <2>4. \E new : Places(w, I, q, new)
    BY <2>1, <2>2, <2>3, PlacesAppend
  <2> QED
    BY <2>1, <2>4 DEF q
<1> HIDE DEF T
<1>3. Seq(S) \subseteq T
  BY <1>1, <1>2, AllSequences
<1> QED
  BY <1>3 DEF T

\* The same order, whichever way one looks.
LEMMA PlacesOrder ==
  ASSUME NEW S, NEW s \in Seq(S), NEW I, NEW r, NEW at, Places(s, I, r, at),
         NEW m \in 0 .. Len(s), NEW n \in I \cap (1 .. Len(s))
  PROVE  /\ at[m] \in Nat /\ at[n] \in Nat
         /\ at[m] < at[n] <=> m < n
         /\ at[n] <= at[m] <=> n <= m
<1>1. m \in Nat /\ n \in Nat /\ Len(s) \in Nat /\ n \in 0 .. Len(s)
  OBVIOUS
<1>2. at[m] \in Nat /\ at[n] \in Nat
  BY <1>1 DEF Places
<1>3. m < n => at[m] < at[n]
  BY DEF Places
<1>4. n <= m => at[n] <= at[m]
  BY <1>1 DEF Places
<1> QED
  BY <1>1, <1>2, <1>3, <1>4

-----------------------------------------------------------------------------
(***************************************************************************)
(* The prompt: the two passes of Sanitize                                  *)
(***************************************************************************)
\* What the first pass sees to: every result stands behind a call, and a call
\* that has all its results has no others.
Attached(s) ==
  \A j \in 1 .. Len(s) : s[j].role = "tool" => \E c \in 1 .. Len(s) : s[c].role = "call" /\ j \in Results(s, c)
OwnOnly(s) ==
  \A c \in 1 .. Len(s) : s[c].role = "call" /\ Answered(s, c) =>
    \A j \in Results(s, c) : Id(s[j]) \in Ids(s[c])

Dropped(s) == UNION {{i} \cup Results(s, i) : i \in {c \in DOMAIN s : s[c].role = "call" /\ ~Answered(s, c)}}

\* The second pass: no call without its results, and no result without its call.
LEMMA SecondPass ==
  ASSUME NEW S, NEW s \in Seq(S)
  PROVE  LET r == Pick(s, DOMAIN s \ Dropped(s)) IN
         /\ r \in Seq(S)
         /\ CallsAnswered(r)
         /\ Attached(s) /\ OwnOnly(s) => ResultsCalled(r)
         /\ \A m \in ToSet(s) : m.role \notin {"call", "tool"} => m \in ToSet(r)
<1> DEFINE I == DOMAIN s \ Dropped(s)  r == Pick(s, I)
<1>1. Len(s) \in Nat /\ DOMAIN s = 1 .. Len(s) /\ r \in Seq(S)
  BY PickType
<1>2. PICK at : Places(s, I, r, at)
  BY PickPlaces
<1>3. \A n \in 1 .. Len(s) :
        n \in Dropped(s) <=> \E e \in 1 .. Len(s) : /\ s[e].role = "call" /\ ~Answered(s, e)
                                                    /\ n = e \/ n \in Results(s, e)
  <2> DEFINE U == {c \in DOMAIN s : s[c].role = "call" /\ ~Answered(s, c)}
  <2>1. \A e : e \in U <=> e \in 1 .. Len(s) /\ s[e].role = "call" /\ ~Answered(s, e)
    BY <1>1, Zenon
  <2>2. Dropped(s) = UNION {{i} \cup Results(s, i) : i \in U}
    BY DEF Dropped
  <2> HIDE DEF U
  <2>3. \A n : n \in Dropped(s) <=> \E e \in U : n = e \/ n \in Results(s, e)
    BY <2>2
  <2> QED
    BY <2>1, <2>3, Zenon
<1>4. \A i, j : j \in Results(s, i) <=> j \in i + 1 .. Len(s) /\ \A k \in i + 1 .. j : s[k].role = "tool"
  BY DEF Results
<1> HIDE DEF I, r
<1>5. /\ I \subseteq 1 .. Len(s) /\ Len(r) \in Nat /\ DOMAIN r = 1 .. Len(r)
      /\ \A n \in 1 .. Len(s) : n \in I <=> n \notin Dropped(s)
  BY <1>1 DEF I
<1>6. /\ \A n \in I : at[n] \in 1 .. Len(r) /\ r[at[n]] = s[n]
      /\ \A k \in 1 .. Len(r) : \E n \in I : at[n] = k
  BY <1>2, <1>5 DEF Places
<1>7. \A m, n \in I : (at[m] < at[n] <=> m < n) /\ (at[n] <= at[m] <=> n <= m)
  <2> TAKE m, n \in I
  <2>1. m \in 0 .. Len(s) /\ n \in I \cap (1 .. Len(s))
    BY <1>1, <1>5
  <2> QED
    BY <1>2, <2>1, PlacesOrder
\* The results of a call that stays, stay behind it.
<1>8. ASSUME NEW c \in I, s[c].role = "call", NEW j \in Results(s, c)
      PROVE  j \in I /\ at[j] \in Results(r, at[c]) /\ at[c] \in 1 .. at[j] - 1
  <2>1. c \in 1 .. Len(s) /\ Answered(s, c)
    BY <1>3, <1>5, <1>8
  <2>2. \A k \in c + 1 .. j : k \in I
    <3> SUFFICES ASSUME NEW k \in c + 1 .. j, k \in Dropped(s) PROVE FALSE
      <4>1. \A k \in c + 1 .. j : k \in 1 .. Len(s)
        BY <1>1, <1>4, <1>8, <2>1
      <4> QED
        BY <1>5, <4>1
    <3>1. k \in 1 .. Len(s) /\ s[k].role = "tool" /\ c \in Nat /\ k \in Nat /\ c < k
      BY <1>1, <1>4, <1>8, <2>1
    <3>2. PICK e \in 1 .. Len(s) : s[e].role = "call" /\ ~Answered(s, e) /\ (k = e \/ k \in Results(s, e))
      BY <1>3, <3>1
    <3>3. k \in e + 1 .. Len(s) /\ \A l \in e + 1 .. k : s[l].role = "tool"
      BY <1>4, <3>1, <3>2
    <3>4. e # c
      BY <2>1, <3>2
    <3>5. CASE e < c
      <4>1. c \in e + 1 .. k
        BY <3>1, <3>2, <3>5
      <4> QED
        BY <1>8, <3>3, <4>1
    <3>6. CASE c < e
      <4>0. k <= j /\ e < k /\ j \in Nat
        BY <1>1, <1>4, <1>8, <2>1, <3>1, <3>2, <3>3
      <4>1. e \in c + 1 .. j
        BY <3>1, <3>2, <3>6, <4>0
      <4> QED
        BY <1>4, <1>8, <3>2, <4>1
    <3> QED
      BY <2>1, <3>2, <3>4, <3>5, <3>6
  <2>3. j \in c + 1 .. Len(s) /\ j \in c + 1 .. j /\ c < j /\ c \in Nat /\ j \in Nat
    BY <1>1, <1>4, <1>8, <2>1
  <2>4. j \in I
    BY <2>2, <2>3
  <2>5. at[c] < at[j] /\ at[c] \in 1 .. Len(r) /\ at[j] \in 1 .. Len(r)
    BY <1>6, <1>7, <2>3, <2>4
  <2>6. \A k \in at[c] + 1 .. at[j] : r[k].role = "tool"
    <3> TAKE k \in at[c] + 1 .. at[j]
    <3>1. k \in 1 .. Len(r) /\ at[c] < k /\ k <= at[j]
      BY <1>5, <2>5
    <3>2. PICK n \in I : at[n] = k
      BY <1>6, <3>1
    <3>3. c < n /\ n <= j
      BY <1>7, <2>4, <3>1, <3>2
    <3>4. n \in c + 1 .. j
      BY <1>1, <1>5, <2>3, <3>2, <3>3
    <3>5. s[n].role = "tool"
      BY <1>4, <1>8, <3>4
    <3> QED
      BY <1>6, <3>2, <3>5
  <2>7. at[j] \in at[c] + 1 .. Len(r)
    BY <1>5, <2>5
  <2> QED
    BY <2>4, <2>5, <2>6, <2>7 DEF Results
<1>9. CallsAnswered(r)
  <2> SUFFICES ASSUME NEW i \in 1 .. Len(r), r[i].role = "call" PROVE Answered(r, i)
    BY <1>5 DEF CallsAnswered
  <2>1. PICK c \in I : at[c] = i
    BY <1>6
  <2>2. s[c] = r[i]
    BY <1>6, <2>1
  <2>3. Answered(s, c)
    BY <1>3, <1>5, <2>2
  <2> SUFFICES ASSUME NEW id \in Ids(r[i]) PROVE \E k \in Results(r, i) : Id(r[k]) = id
    BY DEF Answered
  <2>4. PICK j \in Results(s, c) : Id(s[j]) = id
    BY <2>2, <2>3 DEF Answered
  <2>5. at[j] \in Results(r, i) /\ r[at[j]] = s[j]
    BY <1>6, <1>8, <2>1, <2>2, <2>4
  <2> QED
    BY <2>4, <2>5
<1>10. ASSUME Attached(s), OwnOnly(s) PROVE ResultsCalled(r)
  <2> SUFFICES ASSUME NEW k \in 1 .. Len(r), r[k].role = "tool"
               PROVE  \E i \in 1 .. k - 1 : r[i].role = "call" /\ k \in Results(r, i) /\ Id(r[k]) \in Ids(r[i])
    BY <1>5 DEF ResultsCalled
  <2>1. PICK j \in I : at[j] = k
    BY <1>6
  <2>2. s[j] = r[k] /\ j \in 1 .. Len(s)
    BY <1>5, <1>6, <2>1
  <2>3. PICK c \in 1 .. Len(s) : s[c].role = "call" /\ j \in Results(s, c)
    BY <1>10, <2>2 DEF Attached
  <2>4. Answered(s, c)
    BY <1>3, <1>5, <2>2, <2>3
  <2>5. c \in I
    <3> SUFFICES ASSUME c \in Dropped(s) PROVE FALSE
      BY <1>5
    <3>1. PICK e \in 1 .. Len(s) : s[e].role = "call" /\ ~Answered(s, e) /\ (c = e \/ c \in Results(s, e))
      BY <1>3
    <3>2. c \in Results(s, e)
      BY <2>4, <3>1
    <3>3. c \in e + 1 .. c
      BY <1>4, <3>1, <3>2
    <3> QED
      BY <1>4, <2>3, <3>2, <3>3
  <2>6. k \in Results(r, at[c]) /\ at[c] \in 1 .. k - 1 /\ r[at[c]] = s[c]
    BY <1>6, <1>8, <2>1, <2>3, <2>5
  <2>7. Id(s[j]) \in Ids(s[c])
    BY <1>10, <2>3, <2>4 DEF OwnOnly
  <2> QED
    BY <2>2, <2>3, <2>6, <2>7
<1>11. ASSUME NEW m \in ToSet(s), m.role \notin {"call", "tool"} PROVE m \in ToSet(r)
  <2>1. PICK n \in 1 .. Len(s) : s[n] = m
    BY <1>1 DEF ToSet
  <2>2. n \in I
    <3> SUFFICES ASSUME n \in Dropped(s) PROVE FALSE
      BY <1>5
    <3>1. PICK e \in 1 .. Len(s) : s[e].role = "call" /\ ~Answered(s, e) /\ (n = e \/ n \in Results(s, e))
      BY <1>3
    <3>2. n \in Results(s, e)
      BY <1>11, <2>1, <3>1
    <3>3. n \in e + 1 .. n
      BY <1>4, <3>1, <3>2
    <3> QED
      BY <1>4, <1>11, <2>1, <3>2, <3>3
  <2>3. at[n] \in 1 .. Len(r) /\ r[at[n]] = m
    BY <1>6, <2>1, <2>2
  <2> QED
    BY <1>5, <2>3 DEF ToSet
<1> QED
  BY <1>1, <1>9, <1>10, <1>11 DEF r, I

\* What the first pass computes, step by step.
FirstPassSteps(s, p) ==
  /\ DOMAIN p = 0 .. Len(s) /\ p[0] = <<>>
  /\ \A n \in 1 .. Len(s) : p[n] = IF Admits(p[n - 1], s[n]) THEN Append(p[n - 1], s[n]) ELSE p[n - 1]

LEMMA FirstPassUnfolds ==
  ASSUME NEW S, NEW s \in Seq(S)
  PROVE  \E p \in [0 .. Len(s) -> Seq(S)] : FirstPassSteps(s, p) /\ FirstPass(s) = p[Len(s)]
<1> DEFINE Def(p) == [n \in 0 .. Len(s) |->
                        IF n = 0 THEN <<>>
                        ELSE IF Admits(p[n - 1], s[n]) THEN Append(p[n - 1], s[n]) ELSE p[n - 1]]
           step == [n \in 1 .. Len(s) |-> [q \in Seq(S) |-> IF Admits(q, s[n]) THEN Append(q, s[n]) ELSE q]]
<1>1. step \in [1 .. Len(s) -> [Seq(S) -> Seq(S)]]
  OBVIOUS
<1>2. \A n \in 1 .. Len(s), q \in Seq(S) : step[n][q] = IF Admits(q, s[n]) THEN Append(q, s[n]) ELSE q
  OBVIOUS
<1> HIDE DEF step
<1>3. <<>> \in Seq(S) /\ Len(s) \in Nat
  OBVIOUS
<1>4. PICK f \in [0 .. Len(s) -> Seq(S)] :
        f[0] = <<>> /\ \A n \in 1 .. Len(s) : f[n] = step[n][f[n - 1]]
  <2> DEFINE V == Seq(S)  start == <<>>  len == Len(s)
  <2>1. start \in V /\ len \in Nat /\ step \in [1 .. len -> [V -> V]]
    BY <1>1, <1>3
  <2> HIDE DEF V, start, len
  <2>2. \E f \in [0 .. len -> V] : f[0] = start /\ \A n \in 1 .. len : f[n] = step[n][f[n - 1]]
    BY <2>1, LoopExists
  <2> QED
    BY <2>2 DEF V, start, len
<1>5. \A n \in 1 .. Len(s) : f[n - 1] \in Seq(S)
  <2>1. \A n \in 1 .. Len(s) : n - 1 \in 0 .. Len(s)
    BY <1>3
  <2> QED
    BY <1>4, <2>1, Zenon
<1>6. \A n \in 1 .. Len(s) : f[n] = IF Admits(f[n - 1], s[n]) THEN Append(f[n - 1], s[n]) ELSE f[n - 1]
  BY <1>2, <1>4, <1>5, Zenon
<1>7. f = Def(f)
  <2>1. ASSUME NEW n \in 0 .. Len(s) PROVE f[n] = Def(f)[n]
    <3>1. n = 0 \/ n \in 1 .. Len(s)
      BY <1>3
    <3> QED
      BY <1>4, <1>6, <3>1, Zenon
  <2>2. f = [n \in 0 .. Len(s) |-> f[n]]
    BY <1>4
  <2> HIDE DEF Def
  <2>3. Def(f) = [n \in 0 .. Len(s) |-> Def(f)[n]]
    BY DEF Def
  <2> QED
    BY <2>1, <2>2, <2>3, Zenon
<1> DEFINE p == CHOOSE g : g = Def(g)
<1>8. p = Def(p)
  BY <1>7, Zenon
<1>9. FirstPass(s) = p[Len(s)]
  BY Zenon DEF FirstPass
<1> HIDE DEF p
<1>10. FirstPassSteps(s, p)
  <2>1. DOMAIN p = 0 .. Len(s)
    BY <1>8
  <2>2. p[0] = <<>>
    <3>1. 0 \in 0 .. Len(s)
      BY <1>3
    <3> QED
      BY <1>8, <3>1, Zenon
  <2>3. ASSUME NEW n \in 1 .. Len(s)
        PROVE  p[n] = IF Admits(p[n - 1], s[n]) THEN Append(p[n - 1], s[n]) ELSE p[n - 1]
    <3>1. n \in 0 .. Len(s) /\ n # 0
      BY <1>3
    <3>2. p[n] = Def(p)[n]
      BY <1>8, Zenon
    <3> QED
      BY <3>1, <3>2, Zenon
  <2> QED
    BY <2>1, <2>2, <2>3 DEF FirstPassSteps
<1>11. p \in [0 .. Len(s) -> Seq(S)]
  <2> DEFINE N == {n \in Nat : n <= Len(s) => p[n] \in Seq(S)}
  <2>1. 0 \in N
    <3>1. p[0] = <<>>
      BY <1>10 DEF FirstPassSteps
    <3> QED
      BY <1>3, <3>1
  <2>2. ASSUME NEW n \in Nat, n \in N PROVE n + 1 \in N
    <3> SUFFICES ASSUME n + 1 <= Len(s) PROVE p[n + 1] \in Seq(S)
      OBVIOUS
    <3>1. n + 1 \in 1 .. Len(s) /\ (n + 1) - 1 = n /\ s[n + 1] \in S
      BY <1>3
    <3>2. p[n + 1] = IF Admits(p[n], s[n + 1]) THEN Append(p[n], s[n + 1]) ELSE p[n]
      BY <1>10, <3>1 DEF FirstPassSteps
    <3>3. p[n] \in Seq(S)
      BY <2>2, <3>1
    <3> QED
      BY <3>1, <3>2, <3>3
  <2>3. Nat \subseteq N
    BY <2>1, <2>2, AllNumbers
  <2>4. \A n \in 0 .. Len(s) : p[n] \in Seq(S)
    BY <1>3, <2>3
  <2>5. p = [n \in 0 .. Len(s) |-> p[n]]
    BY <1>8
  <2> QED
    BY <2>4, <2>5
<1> QED
  BY <1>9, <1>10, <1>11

LEMMA FirstPassEmpty == FirstPass(<<>>) = <<>>
<1>1. <<>> \in Seq({}) /\ Len(<<>>) = 0
  OBVIOUS
<1>2. PICK p : FirstPassSteps(<<>>, p) /\ FirstPass(<<>>) = p[Len(<<>>)]
  BY <1>1, FirstPassUnfolds, Zenon
<1> QED
  BY <1>1, <1>2 DEF FirstPassSteps

LEMMA FirstPassAppend ==
  ASSUME NEW S, NEW s \in Seq(S), NEW x \in S
  PROVE  /\ FirstPass(s) \in Seq(S)
         /\ FirstPass(Append(s, x)) = IF Admits(FirstPass(s), x) THEN Append(FirstPass(s), x) ELSE FirstPass(s)
<1> DEFINE t == Append(s, x)
<1>1. /\ t \in Seq(S) /\ Len(s) \in Nat /\ Len(t) = Len(s) + 1 /\ t[Len(s) + 1] = x
      /\ \A n \in 1 .. Len(s) : t[n] = s[n]
  OBVIOUS
<1> HIDE DEF t
<1>2. PICK p \in [0 .. Len(s) -> Seq(S)] : FirstPassSteps(s, p) /\ FirstPass(s) = p[Len(s)]
  BY FirstPassUnfolds
<1>3. PICK q : FirstPassSteps(t, q) /\ FirstPass(t) = q[Len(t)]
  BY <1>1, FirstPassUnfolds, Zenon
<1>4. p[Len(s)] = q[Len(s)]
  <2> DEFINE N == {n \in Nat : n <= Len(s) => p[n] = q[n]}
  <2>1. 0 \in N
    <3>1. p[0] = <<>> /\ q[0] = <<>>
      BY <1>2, <1>3 DEF FirstPassSteps
    <3> QED
      BY <3>1
  <2>2. ASSUME NEW n \in Nat, n \in N PROVE n + 1 \in N
    <3> SUFFICES ASSUME n + 1 <= Len(s) PROVE p[n + 1] = q[n + 1]
      OBVIOUS
    <3>1. n + 1 \in 1 .. Len(s) /\ n + 1 \in 1 .. Len(t) /\ (n + 1) - 1 = n
      BY <1>1
    <3>2. p[n + 1] = IF Admits(p[n], s[n + 1]) THEN Append(p[n], s[n + 1]) ELSE p[n]
      BY <1>2, <3>1, Zenon DEF FirstPassSteps
    <3>3. q[n + 1] = IF Admits(q[n], t[n + 1]) THEN Append(q[n], t[n + 1]) ELSE q[n]
      BY <1>3, <3>1, Zenon DEF FirstPassSteps
    <3>4. p[n] = q[n]
      BY <1>1, <2>2, <3>1
    <3>5. s[n + 1] = t[n + 1]
      BY <1>1, <3>1
    <3>6. p[n + 1] = IF Admits(q[n], t[n + 1]) THEN Append(q[n], t[n + 1]) ELSE q[n]
      BY <3>2, <3>4, <3>5
    <3> QED
      BY <3>3, <3>6
  <2>3. Nat \subseteq N
    BY <2>1, <2>2, AllNumbers
  <2> QED
    BY <1>1, <2>3
<1>5. Len(t) \in 1 .. Len(t) /\ Len(t) - 1 = Len(s)
  BY <1>1
<1>6. q[Len(t)] = IF Admits(q[Len(t) - 1], t[Len(t)]) THEN Append(q[Len(t) - 1], t[Len(t)]) ELSE q[Len(t) - 1]
  BY <1>3, <1>5, Zenon DEF FirstPassSteps
<1>7. FirstPass(t) = IF Admits(p[Len(s)], x) THEN Append(p[Len(s)], x) ELSE p[Len(s)]
  BY <1>1, <1>3, <1>4, <1>5, <1>6, Zenon
<1>8. p[Len(s)] \in Seq(S)
  BY <1>1, <1>2
<1> QED
  BY <1>2, <1>7, <1>8, Zenon DEF t

-----------------------------------------------------------------------------
\* What the first pass keeps, by the positions of the history.
LastBefore(A, m, d) == m \in A /\ m < d /\ \A k \in A : k < d => k <= m

KeptResult(h, A, j) ==
  \E c \in A : c < j /\ h[c].role = "call" /\ \A m \in A : c < m /\ m <= j => h[m].role = "tool"

Rules(h, A) ==
  /\ A \subseteq 1 .. Len(h)
  /\ \A j \in A : h[j].role = "tool" => KeptResult(h, A, j)
  /\ \A d \in 1 .. Len(h) : h[d].role = "call" =>
       (d \in A <=> \E m \in A : LastBefore(A, m, d) /\ h[m].role \in {"user", "tool"})
  /\ \A d \in 1 .. Len(h) : h[d].role \notin {"call", "tool"} => d \in A

\* Admits, by positions.
LEMMA AdmitsByPlaces ==
  ASSUME NEW S, NEW h \in Seq(S), NEW A \in SUBSET (1 .. Len(h)), NEW r \in Seq(S), NEW at,
         Places(h, A, r, at), NEW x \in S
  PROVE  /\ x.role = "call" =>
              (Admits(r, x) <=> \E m \in A : LastBefore(A, m, Len(h) + 1) /\ h[m].role \in {"user", "tool"})
         /\ x.role = "tool" /\ Admits(r, x) =>
              \E c \in A : h[c].role = "call" /\ \A m \in A : c < m => h[m].role = "tool"
         /\ x.role \notin {"call", "tool"} => Admits(r, x)
<1>1. Len(h) \in Nat /\ Len(r) \in Nat /\ DOMAIN r = 1 .. Len(r) /\ \A n \in A : n \in Nat /\ n < Len(h) + 1
  OBVIOUS
<1>2. /\ \A n \in A : at[n] \in 1 .. Len(r) /\ r[at[n]] = h[n]
      /\ \A k \in 1 .. Len(r) : \E n \in A : at[n] = k
  <2>1. A \cap (1 .. Len(h)) = A
    OBVIOUS
  <2> QED
    BY <2>1 DEF Places
<1>3. \A m, n \in A : (at[m] < at[n] <=> m < n) /\ (at[n] <= at[m] <=> n <= m)
  <2> TAKE m, n \in A
  <2>1. m \in 0 .. Len(h) /\ n \in A \cap (1 .. Len(h))
    BY <1>1
  <2> QED
    BY <2>1, PlacesOrder
<1>4. ASSUME x.role = "call"
      PROVE  Admits(r, x) <=> \E m \in A : LastBefore(A, m, Len(h) + 1) /\ h[m].role \in {"user", "tool"}
  <2>1. Admits(r, x) <=> r # <<>> /\ Last(r).role \in {"user", "tool"}
    BY <1>4 DEF Admits
  <2>2. r # <<>> <=> Len(r) > 0
    BY <1>1
  <2>3. ASSUME Len(r) > 0 PROVE \E m \in A : at[m] = Len(r)
    <3>1. Len(r) \in 1 .. Len(r)
      BY <1>1, <2>3
    <3> QED
      BY <1>2, <3>1
  <2>4. ASSUME NEW m \in A, at[m] = Len(r) PROVE LastBefore(A, m, Len(h) + 1) /\ Last(r) = h[m]
    <3>1. \A k \in A : k <= m
      <4> TAKE k \in A
      <4>1. at[k] <= at[m]
        BY <1>1, <1>2, <2>4
      <4> QED
        BY <1>3, <4>1
    <3>2. Last(r) = h[m]
      BY <1>2, <2>4 DEF Last
    <3> QED
      BY <1>1, <3>1, <3>2 DEF LastBefore
  <2>5. ASSUME NEW m \in A, LastBefore(A, m, Len(h) + 1) PROVE at[m] = Len(r)
    <3>1. at[m] \in 1 .. Len(r)
      BY <1>2
    <3>2. PICK n \in A : at[n] = Len(r)
      BY <1>1, <2>3, <3>1
    <3>3. n <= m
      BY <1>1, <2>5 DEF LastBefore
    <3>4. at[n] <= at[m]
      BY <1>3, <3>3
    <3> QED
      BY <1>1, <3>1, <3>2, <3>4
  <2> QED
    <3>1. ASSUME r # <<>>, Last(r).role \in {"user", "tool"}
          PROVE  \E m \in A : LastBefore(A, m, Len(h) + 1) /\ h[m].role \in {"user", "tool"}
      BY <2>2, <2>3, <2>4, <3>1
    <3>2. ASSUME NEW m \in A, LastBefore(A, m, Len(h) + 1), h[m].role \in {"user", "tool"}
          PROVE  r # <<>> /\ Last(r).role \in {"user", "tool"}
      <4>1. at[m] = Len(r) /\ at[m] \in 1 .. Len(r)
        BY <1>2, <2>5, <3>2
      <4>2. Last(r) = h[m]
        BY <2>4, <4>1
      <4> QED
        BY <1>1, <2>2, <3>2, <4>1, <4>2
    <3> QED
      BY <2>1, <3>1, <3>2
<1>5. ASSUME x.role = "tool", Admits(r, x)
      PROVE  \E c \in A : h[c].role = "call" /\ \A m \in A : c < m => h[m].role = "tool"
  <2>1. PICK i \in DOMAIN r : r[i].role = "call" /\ Len(r) + 1 \in Results(Append(r, x), i)
    BY <1>5 DEF Admits
  <2>2. \A k \in i + 1 .. Len(r) : r[k].role = "tool"
    <3>1. \A k \in i + 1 .. Len(r) + 1 : Append(r, x)[k].role = "tool"
      BY <2>1 DEF Results
    <3>2. \A k \in 1 .. Len(r) : Append(r, x)[k] = r[k]
      OBVIOUS
    <3> QED
      BY <1>1, <3>1, <3>2
  <2>3. PICK c \in A : at[c] = i
    BY <1>1, <1>2, <2>1
  <2>4. h[c].role = "call"
    BY <1>2, <2>1, <2>3
  <2>5. ASSUME NEW m \in A, c < m PROVE h[m].role = "tool"
    <3>1. at[c] < at[m] /\ at[m] \in 1 .. Len(r) /\ r[at[m]] = h[m]
      BY <1>2, <1>3, <2>5
    <3>2. at[m] \in i + 1 .. Len(r)
      BY <1>1, <2>1, <2>3, <3>1
    <3> QED
      BY <2>2, <3>1, <3>2
  <2> QED
    BY <2>4, <2>5
<1>6. x.role \notin {"call", "tool"} => Admits(r, x)
  BY DEF Admits
<1> QED
  BY <1>4, <1>5, <1>6

LEMMA FirstPassRules ==
  ASSUME NEW S, NEW h \in Seq(S)
  PROVE  FirstPass(h) \in Seq(S) /\ \E A, at : Places(h, A, FirstPass(h), at) /\ Rules(h, A)
<1> DEFINE T == {u \in Seq(S) : FirstPass(u) \in Seq(S) /\ \E A, at : Places(u, A, FirstPass(u), at) /\ Rules(u, A)}
<1>1. <<>> \in T
  <2>1. Places(<<>>, {}, <<>>, [n \in 0 .. 0 |-> 0])
    BY PlacesEmpty
  <2>2. Rules(<<>>, {})
    BY DEF Rules
  <2>3. <<>> \in Seq(S)
    OBVIOUS
  <2> QED
    BY <2>1, <2>2, <2>3, FirstPassEmpty, Zenon
<1>2. ASSUME NEW u \in Seq(S), NEW x \in S, u \in T PROVE Append(u, x) \in T
  <2> DEFINE w == Append(u, x)  r == FirstPass(u)  q == FirstPass(w)  n == Len(u) + 1
  <2>1. r \in Seq(S) /\ q = IF Admits(r, x) THEN Append(r, x) ELSE r
    BY FirstPassAppend
  <2>2. PICK A, at : Places(u, A, r, at) /\ Rules(u, A)
    BY <1>2
  <2>3. /\ Len(u) \in Nat /\ n \in Nat /\ Len(w) = n /\ w[n] = x /\ w \in Seq(S)
        /\ \A k \in 1 .. Len(u) : w[k] = u[k]
    OBVIOUS
  <2> HIDE DEF r, q, w
  <2>4. A \in SUBSET (1 .. Len(u)) /\ \A k \in A : k \in 1 .. Len(u) /\ k \in Nat /\ k < n /\ k # n
    BY <2>3, <2>2 DEF Rules
  <2> DEFINE B == IF Admits(r, x) THEN A \cup {n} ELSE A
  <2>5. (n \in B <=> Admits(r, x)) /\ \A k \in 1 .. Len(u) : k \in B <=> k \in A
    BY <2>3, <2>4
  <2>6. \A k \in B : k \in A \/ k = n
    OBVIOUS
  <2> HIDE DEF n
  <2>7. q \in Seq(S)
    BY <2>1
  <2>8. \E new : Places(w, B, q, new)
    <3>1. Places(u, B, r, at)
      <4>1. B \cap (1 .. Len(u)) = A \cap (1 .. Len(u))
        BY <2>5
      <4> HIDE DEF B
      <4> QED
        BY <2>2, <4>1 DEF Places
    <3>2. q = IF Len(u) + 1 \in B THEN Append(r, x) ELSE r
      BY <2>1, <2>5 DEF n
    <3> HIDE DEF B
    <3> QED
      BY <2>1, <3>1, <3>2, PlacesAppend DEF w
  <2>9. /\ x.role = "call" =>
            (Admits(r, x) <=> \E m \in A : LastBefore(A, m, n) /\ u[m].role \in {"user", "tool"})
        /\ x.role = "tool" /\ Admits(r, x) =>
             \E c \in A : u[c].role = "call" /\ \A m \in A : c < m => u[m].role = "tool"
        /\ x.role \notin {"call", "tool"} => Admits(r, x)
    BY <2>1, <2>2, <2>4, AdmitsByPlaces DEF n
  <2> HIDE DEF B
  <2>10. \A d \in 1 .. n : \A m : m \in B /\ LastBefore(B, m, d) <=> m \in A /\ LastBefore(A, m, d)
    <3> TAKE d \in 1 .. n
    <3> TAKE m
    <3>1. \A k : k \in B /\ k < d <=> k \in A /\ k < d
      <4> TAKE k
      <4>1. ASSUME k \in A PROVE k \in B
        BY <2>4, <2>5, <4>1
      <4>2. ASSUME k \in B, k < d PROVE k \in A
        <5>1. k # n
          BY <2>3, <4>2
        <5> QED
          BY <2>6, <4>2, <5>1
      <4> QED
        BY <4>1, <4>2
    <3> QED
      BY <3>1, Zenon DEF LastBefore
  <2>11. Rules(w, B)
    <3>1. B \subseteq 1 .. Len(w)
      <4> SUFFICES ASSUME NEW k \in B PROVE k \in 1 .. Len(w)
        OBVIOUS
      <4>1. CASE k = n
        BY <2>3, <4>1 DEF n
      <4>2. CASE k \in A
        BY <2>3, <2>4, <4>2 DEF n
      <4> QED
        BY <2>6, <4>1, <4>2
    <3>2. ASSUME NEW j \in B, w[j].role = "tool" PROVE KeptResult(w, B, j)
      <4>1. CASE j \in A
        <5>1. u[j].role = "tool"
          BY <2>3, <2>4, <3>2, <4>1
        <5>2. PICK c \in A : c < j /\ u[c].role = "call" /\ \A m \in A : c < m /\ m <= j => u[m].role = "tool"
          BY <2>2, <4>1, <5>1 DEF Rules, KeptResult
        <5>3. c \in B /\ w[c].role = "call"
          BY <2>3, <2>4, <2>5, <5>2
        <5>4. ASSUME NEW m \in B, c < m, m <= j PROVE w[m].role = "tool"
          <6>1. m \in A
            BY <2>4, <2>6, <4>1, <5>4
          <6> QED
            BY <2>3, <2>4, <5>2, <5>4, <6>1
        <5> QED
          BY <5>2, <5>3, <5>4 DEF KeptResult
      <4>2. CASE j = n
        <5>1. x.role = "tool" /\ Admits(r, x)
          BY <2>3, <2>5, <3>2, <4>2
        <5>2. PICK c \in A : u[c].role = "call" /\ \A m \in A : c < m => u[m].role = "tool"
          BY <2>9, <5>1
        <5>3. c \in B /\ w[c].role = "call" /\ c < j
          BY <2>3, <2>4, <2>5, <4>2, <5>2
        <5>4. ASSUME NEW m \in B, c < m, m <= j PROVE w[m].role = "tool"
          BY <2>3, <2>4, <2>6, <5>1, <5>2, <5>4
        <5> QED
          BY <5>3, <5>4 DEF KeptResult
      <4> QED
        BY <2>6, <4>1, <4>2
    <3>3. ASSUME NEW d \in 1 .. Len(w), w[d].role = "call"
          PROVE  d \in B <=> \E m \in B : LastBefore(B, m, d) /\ w[m].role \in {"user", "tool"}
      <4>1. d \in 1 .. n
        BY <2>3
      <4>2. (\E m \in B : LastBefore(B, m, d) /\ w[m].role \in {"user", "tool"})
              <=> (\E m \in A : LastBefore(A, m, d) /\ u[m].role \in {"user", "tool"})
        <5>1. \A m \in A : w[m] = u[m]
          BY <2>3, <2>4
        <5> QED
          BY <2>10, <4>1, <5>1, Zenon
      <4>3. CASE d = n
        <5>1. x.role = "call"
          BY <2>3, <3>3, <4>3
        <5> QED
          BY <2>5, <2>9, <4>2, <4>3, <5>1
      <4>4. CASE d \in 1 .. Len(u)
        <5>1. u[d].role = "call"
          BY <2>3, <3>3, <4>4
        <5>2. d \in A <=> \E m \in A : LastBefore(A, m, d) /\ u[m].role \in {"user", "tool"}
          BY <2>2, <4>4, <5>1 DEF Rules
        <5> QED
          BY <2>5, <4>2, <4>4, <5>2
      <4> QED
        BY <2>3, <4>1, <4>3, <4>4 DEF n
    <3>4. ASSUME NEW d \in 1 .. Len(w), w[d].role \notin {"call", "tool"} PROVE d \in B
      <4>1. CASE d = n
        BY <2>3, <2>5, <2>9, <3>4, <4>1
      <4>2. CASE d \in 1 .. Len(u)
        BY <2>2, <2>3, <2>5, <3>4, <4>2 DEF Rules
      <4> QED
        BY <2>3, <4>1, <4>2 DEF n
    <3> QED
      BY <3>1, <3>2, <3>3, <3>4 DEF Rules
  <2> QED
    BY <2>3, <2>7, <2>8, <2>11 DEF q, w
<1> HIDE DEF T
<1>3. Seq(S) \subseteq T
  BY <1>1, <1>2, AllSequences
<1> QED
  BY <1>3 DEF T

\* Among the kept positions before d that are not before k, there is a last one.
LEMMA LastKept ==
  ASSUME NEW l \in Nat, NEW A \in SUBSET (1 .. l), NEW d \in Nat, NEW k \in A, k < d
  PROVE  \E m \in A : LastBefore(A, m, d) /\ k <= m
<1> DEFINE B == {i \in A : i < d}
           C == {d - i : i \in B}
<1>1. \A i \in B : i \in Nat /\ i \in A /\ i < d /\ d - i \in C
  OBVIOUS
<1>2. C \subseteq Nat /\ d - k \in C
  OBVIOUS
<1>3. \A n \in C : \E i \in B : n = d - i
  OBVIOUS
<1> HIDE DEF B, C
<1>4. PICK n \in C : \A e \in C : n <= e
  BY <1>2, LeastNumber
<1>5. PICK m \in B : n = d - m
  BY <1>3
<1>6. ASSUME NEW i \in A, i < d PROVE i <= m
  <2>1. i \in B
    BY <1>6 DEF B
  <2>2. n <= d - i
    BY <1>1, <1>4, <2>1
  <2> QED
    BY <1>1, <1>5, <2>1, <2>2
<1> QED
  BY <1>1, <1>5, <1>6 DEF LastBefore

\* What stands at the kept places, and what follows a call there.
Standing(h, A, r, at) ==
  /\ \A n \in A : at[n] \in 1 .. Len(r) /\ r[at[n]] = h[n]
  /\ \A k \in 1 .. Len(r) : \E n \in A : at[n] = k
  /\ \A c, j \in A : at[j] \in Results(r, at[c]) <=>
       c < j /\ \A m \in A : c < m /\ m <= j => h[m].role = "tool"

LEMMA PlacesResults ==
  ASSUME NEW S, NEW h \in Seq(S), NEW A \in SUBSET (1 .. Len(h)), NEW r \in Seq(S), NEW at,
         Places(h, A, r, at)
  PROVE  Standing(h, A, r, at)
<1>1. Len(h) \in Nat /\ Len(r) \in Nat /\ \A n \in A : n \in Nat /\ n \in 0 .. Len(h) /\ n \in A \cap (1 .. Len(h))
  OBVIOUS
<1>2. /\ \A n \in A : at[n] \in 1 .. Len(r) /\ r[at[n]] = h[n]
      /\ \A k \in 1 .. Len(r) : \E n \in A : at[n] = k
  <2>1. A \cap (1 .. Len(h)) = A
    OBVIOUS
  <2> QED
    BY <2>1 DEF Places
<1>3. \A m, n \in A : (at[m] < at[n] <=> m < n) /\ (at[n] <= at[m] <=> n <= m)
  <2> TAKE m, n \in A
  <2>1. m \in 0 .. Len(h) /\ n \in A \cap (1 .. Len(h))
    BY <1>1
  <2> QED
    BY <2>1, PlacesOrder
<1>4. ASSUME NEW c \in A, NEW j \in A
      PROVE  at[j] \in Results(r, at[c]) <=> c < j /\ \A m \in A : c < m /\ m <= j => h[m].role = "tool"
  <2>1. /\ at[c] \in 1 .. Len(r) /\ at[j] \in 1 .. Len(r) /\ (at[c] < at[j] <=> c < j)
    BY <1>2, <1>3
  <2>2. at[j] \in Results(r, at[c]) <=>
          at[j] \in at[c] + 1 .. Len(r) /\ \A k \in at[c] + 1 .. at[j] : r[k].role = "tool"
    BY DEF Results
  <2>3. at[j] \in at[c] + 1 .. Len(r) <=> c < j
    BY <1>1, <2>1
  <2>4. ASSUME \A k \in at[c] + 1 .. at[j] : r[k].role = "tool", NEW m \in A, c < m, m <= j
        PROVE  h[m].role = "tool"
    <3>1. at[c] < at[m] /\ at[m] <= at[j] /\ at[m] \in 1 .. Len(r) /\ r[at[m]] = h[m]
      BY <1>2, <1>3, <2>4
    <3>2. at[m] \in at[c] + 1 .. at[j]
      BY <1>1, <2>1, <3>1
    <3> QED
      BY <2>4, <3>1, <3>2
  <2>5. ASSUME \A m \in A : c < m /\ m <= j => h[m].role = "tool", NEW k \in at[c] + 1 .. at[j]
        PROVE  r[k].role = "tool"
    <3>1. k \in 1 .. Len(r) /\ at[c] < k /\ k <= at[j]
      BY <1>1, <2>1
    <3>2. PICK m \in A : at[m] = k
      BY <1>2, <3>1
    <3>3. c < m /\ m <= j
      BY <1>3, <3>1, <3>2
    <3> QED
      BY <1>2, <2>5, <3>2, <3>3
  <2> QED
    BY <2>2, <2>3, <2>4, <2>5
<1> QED
  BY <1>2, <1>4 DEF Standing

-----------------------------------------------------------------------------
\* Message d is the call that result j answers, and only results come between.
Owner(h, d, j) ==
  /\ h[d].role = "call" /\ Id(h[j]) \in Ids(h[d])
  /\ \A k \in d + 1 .. j : h[k].role = "tool"

\* Every result stands behind its call, but those a compression has left at the
\* front, behind at most one message.
Tidy(h) ==
  /\ \A i \in 1 .. Len(h) : h[i].role = "call" => h[i].n > 0
  /\ \A j \in 2 .. Len(h) : h[j].role = "tool" =>
       \/ \E d \in 1 .. j - 1 : Owner(h, d, j)
       \/ \A k \in 2 .. j : h[k].role = "tool"

\* No two calls share a round.
LEMMA OneCall ==
  ASSUME NEW h \in Seq(Msgs), InOrder(h), NEW c \in 1 .. Len(h), NEW d \in 1 .. Len(h),
         h[c].role = "call", h[d].role = "call", h[c].turn = h[d].turn, h[c].round = h[d].round
  PROVE  c = d
<1>1. h[c] \in Msgs /\ h[d] \in Msgs /\ c \in Nat /\ d \in Nat
  OBVIOUS
<1>2. Rank(h[c]) = Rank(h[d]) /\ Rank(h[c]) \in Nat
  BY <1>1, RankFacts
<1>3. ~(c < d) /\ ~(d < c)
  BY <1>1, <1>2 DEF InOrder
<1> QED
  BY <1>1, <1>3

LEMMA IdFacts ==
  /\ \A m, i : Id(m) \in Ids(i) => m.turn = i.turn /\ m.round = i.round
  /\ \A m, i : m.turn = i.turn /\ m.round = i.round /\ m.n \in 1 .. i.n => Id(m) \in Ids(i)
  /\ \A i : i.n \in Nat /\ i.n > 0 => <<i.turn, i.round, 1>> \in Ids(i)
BY DEF Id, Ids

\* A kept call with its first result in place has all results of its round,
\* and no others, among the kept messages that follow it.
LEMMA OwnResults ==
  ASSUME NEW h \in Seq(Msgs), InOrder(h), Tidy(h), NEW A, Rules(h, A),
         NEW c \in A, h[c].role = "call", NEW k \in A, c < k, Id(h[k]) = <<h[c].turn, h[c].round, 1>>,
         \A m \in A : c < m /\ m <= k => h[m].role = "tool",
         NEW j \in A, c < j, \A m \in A : c < m /\ m <= j => h[m].role = "tool"
  PROVE  Id(h[j]) \in Ids(h[c])
<1>1. /\ Len(h) \in Nat /\ \A i \in A : i \in Nat /\ i \in 1 .. Len(h)
      /\ \A i \in 1 .. Len(h) : h[i] \in Msgs
  BY DEF Rules
<1>2. h[k].role = "tool" /\ h[j].role = "tool"
  BY <1>1
<1>3. 2 <= c
  <2>1. PICK m \in A : LastBefore(A, m, c)
    BY <1>1 DEF Rules
  <2> QED
    BY <1>1, <2>1 DEF LastBefore
<1>4. ASSUME NEW i \in A, c < i, h[i].role = "tool"
      PROVE  \E d \in 1 .. i - 1 : Owner(h, d, i) /\ c <= d
  <2>1. i \in 2 .. Len(h) /\ c \in 2 .. i
    BY <1>1, <1>3, <1>4
  <2>2. PICK d \in 1 .. i - 1 : Owner(h, d, i)
    BY <1>4, <2>1 DEF Tidy
  <2>3. c <= d
    <3> SUFFICES ASSUME d < c PROVE FALSE
      BY <1>1
    <3>1. c \in d + 1 .. i
      BY <1>1, <1>4
    <3> QED
      BY <2>2, <3>1 DEF Owner
  <2> QED
    BY <2>2, <2>3
<1>5. PICK d \in 1 .. k - 1 : Owner(h, d, k) /\ c <= d
  BY <1>2, <1>4
<1>6. d = c
  <2>1. h[k].turn = h[c].turn /\ h[k].round = h[c].round
    BY DEF Id
  <2>2. h[d].role = "call" /\ h[d].turn = h[c].turn /\ h[d].round = h[c].round
    BY <1>5, <2>1, IdFacts DEF Owner
  <2>3. d \in 1 .. Len(h)
    BY <1>1
  <2> QED
    BY <1>1, <2>2, <2>3, OneCall
<1>7. \A i \in c + 1 .. k : h[i].role = "tool"
  BY <1>5, <1>6 DEF Owner
<1>8. PICK e \in 1 .. j - 1 : Owner(h, e, j) /\ c <= e
  BY <1>2, <1>4
<1>9. CASE e = c
  BY <1>8, <1>9 DEF Owner
<1>10. CASE c < e
  <2>1. e \in 1 .. Len(h) /\ e \in Nat /\ e < j /\ h[e].role = "call"
    BY <1>1, <1>8 DEF Owner
  <2>2. k < e
    <3> SUFFICES ASSUME e <= k PROVE FALSE
      BY <1>1, <2>1
    <3>1. e \in c + 1 .. k
      BY <1>1, <1>10, <2>1
    <3> QED
      BY <1>7, <2>1, <3>1
  <2>3. e \notin A
    <3> SUFFICES ASSUME e \in A PROVE FALSE
      OBVIOUS
    <3>1. e <= j
      BY <1>1, <2>1
    <3>2. h[e].role = "tool"
      BY <1>10, <3>1, Zenon
    <3> QED
      BY <2>1, <3>2
  <2>4. PICK m \in A : LastBefore(A, m, e) /\ k <= m
    BY <1>1, <2>1, <2>2, LastKept DEF Rules
  <2>5. c < m /\ m <= j
    BY <1>1, <2>1, <2>4 DEF LastBefore
  <2>6. h[m].role = "tool"
    BY <2>5
  <2> QED
    BY <2>1, <2>3, <2>4, <2>6 DEF Rules
<1> QED
  BY <1>1, <1>8, <1>9, <1>10

\* What the first pass leaves of a history.
LEMMA FirstPassSound ==
  ASSUME NEW h \in Seq(Msgs)
  PROVE  /\ FirstPass(h) \in Seq(Msgs) /\ Attached(FirstPass(h))
         /\ InOrder(h) /\ Tidy(h) => OwnOnly(FirstPass(h))
         /\ \A m \in ToSet(h) : m.role \notin {"call", "tool"} => m \in ToSet(FirstPass(h))
<1> DEFINE s == FirstPass(h)
<1>1. s \in Seq(Msgs)
  BY FirstPassRules
<1>2. PICK A, at : Places(h, A, s, at) /\ Rules(h, A)
  BY FirstPassRules
<1> HIDE DEF s
<1>3. A \in SUBSET (1 .. Len(h)) /\ Len(s) \in Nat /\ Len(h) \in Nat /\ \A n \in A : n \in Nat
  <2>1. A \subseteq 1 .. Len(h)
    BY <1>2, Zenon DEF Rules
  <2> QED
    BY <1>1, <2>1
<1>4. /\ \A n \in A : at[n] \in 1 .. Len(s) /\ s[at[n]] = h[n]
      /\ \A k \in 1 .. Len(s) : \E n \in A : at[n] = k
      /\ \A c, j \in A : at[j] \in Results(s, at[c]) <=>
           c < j /\ \A m \in A : c < m /\ m <= j => h[m].role = "tool"
  <2>1. Places(h, A, s, at) /\ A \in SUBSET (1 .. Len(h))
    BY <1>2, <1>3
  <2>2. Standing(h, A, s, at)
    BY <1>1, <2>1, PlacesResults
  <2> QED
    BY <2>2 DEF Standing
<1>5. Attached(s)
  <2> SUFFICES ASSUME NEW k \in 1 .. Len(s), s[k].role = "tool"
               PROVE  \E i \in 1 .. Len(s) : s[i].role = "call" /\ k \in Results(s, i)
    BY DEF Attached
  <2>1. PICK j \in A : at[j] = k
    BY <1>4
  <2>2. h[j].role = "tool"
    BY <1>4, <2>1
  <2>3. PICK c \in A : c < j /\ h[c].role = "call" /\ \A m \in A : c < m /\ m <= j => h[m].role = "tool"
    BY <1>2, <2>2 DEF Rules, KeptResult
  <2>4. at[j] \in Results(s, at[c]) /\ at[c] \in 1 .. Len(s) /\ s[at[c]].role = "call"
    BY <1>4, <2>3
  <2> QED
    BY <2>1, <2>4
<1>6. ASSUME InOrder(h), Tidy(h) PROVE OwnOnly(s)
  <2> SUFFICES ASSUME NEW x \in 1 .. Len(s), s[x].role = "call", Answered(s, x), NEW y \in Results(s, x)
               PROVE  Id(s[y]) \in Ids(s[x])
    BY DEF OwnOnly
  <2>1. PICK c \in A : at[c] = x
    BY <1>4
  <2>2. s[x] = h[c] /\ h[c] \in Msgs /\ h[c].n \in Nat /\ h[c].n > 0
    <3>1. s[x] = h[c] /\ h[c] \in Msgs
      BY <1>3, <1>4, <2>1
    <3>2. h[c].n > 0
      BY <1>3, <1>6, <3>1 DEF Tidy
    <3> QED
      BY <3>1, <3>2 DEF Msgs
  <2>3. \A z \in Results(s, x) : \E i \in A : at[i] = z /\ s[z] = h[i]
    <3> TAKE z \in Results(s, x)
    <3>1. z \in 1 .. Len(s)
      BY <1>3 DEF Results
    <3>2. PICK i \in A : at[i] = z
      BY <1>4, <3>1
    <3> QED
      BY <1>4, <3>2
  <2>4. <<h[c].turn, h[c].round, 1>> \in Ids(h[c])
    BY <2>2, IdFacts
  <2>5. PICK z \in Results(s, x) : Id(s[z]) = <<h[c].turn, h[c].round, 1>>
    BY <2>2, <2>4 DEF Answered
  <2>6. PICK k \in A : at[k] = z /\ s[z] = h[k]
    BY <2>3
  <2>7. PICK j \in A : at[j] = y /\ s[y] = h[j]
    BY <2>3
  <2>8. c < k /\ \A m \in A : c < m /\ m <= k => h[m].role = "tool"
    BY <1>4, <2>1, <2>6
  <2>9. c < j /\ \A m \in A : c < m /\ m <= j => h[m].role = "tool"
    BY <1>4, <2>1, <2>7
  <2>10. h[c].role = "call" /\ Id(h[k]) = <<h[c].turn, h[c].round, 1>>
    BY <2>2, <2>5, <2>6
  <2>11. Id(h[j]) \in Ids(h[c])
    BY <1>2, <1>6, <2>8, <2>9, <2>10, OwnResults
  <2> QED
    BY <2>2, <2>7, <2>11
<1>7. ASSUME NEW m \in ToSet(h), m.role \notin {"call", "tool"} PROVE m \in ToSet(s)
  <2>1. PICK n \in 1 .. Len(h) : h[n] = m
    BY DEF ToSet
  <2>2. n \in A
    BY <1>2, <1>7, <2>1 DEF Rules
  <2>3. at[n] \in 1 .. Len(s) /\ s[at[n]] = m
    BY <1>4, <2>1, <2>2
  <2>4. DOMAIN s = 1 .. Len(s)
    BY <1>1
  <2> QED
    BY <2>3, <2>4 DEF ToSet
<1> QED
  BY <1>1, <1>5, <1>6, <1>7 DEF s

\* What sanitizeHistoryForProvider makes of a history, whatever crashes,
\* truncations and copies left in it: every call is followed by all its results,
\* and what users and model have said is still there.  If the messages are in
\* order and no result has lost its call behind another one, no result is
\* without its call either.
THEOREM SanitizeSound ==
  ASSUME NEW h \in Seq(Msgs)
  PROVE  /\ Sanitize(h) \in Seq(Msgs) /\ CallsAnswered(Sanitize(h))
         /\ InOrder(h) /\ Tidy(h) => ResultsCalled(Sanitize(h))
         /\ \A m \in ToSet(h) : m.role \notin {"call", "tool"} => m \in ToSet(Sanitize(h))
<1> DEFINE s == FirstPass(h)
<1>1. Sanitize(h) = Pick(s, DOMAIN s \ Dropped(s))
  BY DEF Sanitize, Dropped
<1>2. /\ s \in Seq(Msgs) /\ Attached(s)
      /\ InOrder(h) /\ Tidy(h) => OwnOnly(s)
      /\ \A m \in ToSet(h) : m.role \notin {"call", "tool"} => m \in ToSet(s)
  BY FirstPassSound
<1> HIDE DEF s
<1> DEFINE r == Pick(s, DOMAIN s \ Dropped(s))
<1>3. /\ r \in Seq(Msgs)
      /\ CallsAnswered(r)
      /\ Attached(s) /\ OwnOnly(s) => ResultsCalled(r)
      /\ \A m \in ToSet(s) : m.role \notin {"call", "tool"} => m \in ToSet(r)
  BY <1>2, SecondPass
<1> HIDE DEF r
<1>4. Sanitize(h) = r
  BY <1>1 DEF r
<1> QED
  BY <1>2, <1>3, <1>4

-----------------------------------------------------------------------------
\* Where the messages of turn t stand at the end of a history, or of a copy of it.
EndOf(h, t, r) ==
  /\ r.at \in {"model", "compress"} /\ r.round = 0 => h # <<>> /\ h[Len(h)] = Message(t, "user", 0, 0)
  /\ r.at = "tools" =>
       \/ \E d \in 1 .. Len(h) : /\ d + r.got = Len(h) /\ h[d] = Message(t, "call", r.round, r.n)
                                 /\ \A k \in d + 1 .. Len(h) : h[k].role = "tool"
       \/ \A k \in 1 .. Len(h) : h[k].role = "tool"

\* A prompt of a turn that saves its results: the call, and its first results.
Opened(p, t, r) ==
  \E c \in 1 .. Len(p) :
    /\ c + r.got = Len(p) /\ p[c] = Message(t, "call", r.round, r.n)
    /\ \A k \in 1 .. r.got : p[c + k] = Message(t, "tool", r.round, k)
    /\ \A i \in 1 .. c - 1 : p[i].role = "call" => Answered(p, i)

Owned(p, l) == \A j \in 1 .. l : p[j].role = "tool" => \E i \in 1 .. j - 1 : Owner(p, i, j)

LEMMA AppendOwner ==
  ASSUME NEW S, NEW s \in Seq(S), NEW m \in S, NEW j \in 1 .. Len(s), NEW d \in 1 .. j
  PROVE  Owner(Append(s, m), d, j) <=> Owner(s, d, j)
<1>1. \A k \in 1 .. Len(s) : Append(s, m)[k] = s[k]
  OBVIOUS
<1>2. Len(s) \in Nat /\ d \in 1 .. Len(s) /\ \A k \in d + 1 .. j : k \in 1 .. Len(s)
  OBVIOUS
<1>3. Append(s, m)[d] = s[d] /\ Append(s, m)[j] = s[j]
  BY <1>1, <1>2
<1>4. (\A k \in d + 1 .. j : Append(s, m)[k].role = "tool") <=> \A k \in d + 1 .. j : s[k].role = "tool"
  BY <1>1, <1>2
<1> QED
  BY <1>3, <1>4, Zenon DEF Owner

\* A message goes behind a tidy history.
LEMMA TidyAppend ==
  ASSUME NEW h \in Seq(Msgs), Tidy(h), NEW m \in Msgs,
         m.role = "call" => m.n > 0,
         m.role = "tool" => \/ \E d \in 1 .. Len(h) : Owner(Append(h, m), d, Len(h) + 1)
                            \/ \A k \in 1 .. Len(h) : h[k].role = "tool"
  PROVE  Tidy(Append(h, m))
<1> DEFINE w == Append(h, m)  n == Len(h) + 1
<1>1. Len(h) \in Nat /\ n \in Nat /\ Len(w) = n /\ w[n] = m /\ \A k \in 1 .. Len(h) : w[k] = h[k]
  OBVIOUS
<1>2. \A j \in 1 .. Len(h), d \in 1 .. Len(h) : d <= j => (Owner(w, d, j) <=> Owner(h, d, j))
  BY AppendOwner
<1> HIDE DEF w
<1>3. ASSUME NEW i \in 1 .. Len(w), w[i].role = "call" PROVE w[i].n > 0
  <2>1. CASE i = n
    BY <1>1, <1>3, <2>1
  <2>2. CASE i \in 1 .. Len(h)
    BY <1>1, <1>3, <2>2 DEF Tidy
  <2> QED
    BY <1>1, <2>1, <2>2
<1>4. ASSUME NEW j \in 2 .. Len(w), w[j].role = "tool"
      PROVE  (\E d \in 1 .. j - 1 : Owner(w, d, j)) \/ (\A k \in 2 .. j : w[k].role = "tool")
  <2>1. CASE j = n
    <3>1. m.role = "tool"
      BY <1>1, <1>4, <2>1
    <3>2. CASE \E d \in 1 .. Len(h) : Owner(w, d, Len(h) + 1)
      <4>1. PICK d \in 1 .. Len(h) : Owner(w, d, n)
        BY <3>2
      <4>2. d \in 1 .. j - 1
        BY <1>1, <2>1
      <4> QED
        BY <2>1, <4>1, <4>2
    <3>3. CASE \A k \in 1 .. Len(h) : h[k].role = "tool"
      <4>1. \A k \in 2 .. j : w[k].role = "tool"
        <5> TAKE k \in 2 .. j
        <5>1. k = n \/ k \in 1 .. Len(h)
          BY <1>1, <2>1
        <5> QED
          BY <1>1, <3>1, <3>3, <5>1
      <4> QED
        BY <4>1
    <3> QED
      BY <3>1, <3>2, <3>3 DEF w
  <2>2. CASE j \in 2 .. Len(h)
    <3>1. h[j].role = "tool" /\ j \in 1 .. Len(h)
      BY <1>1, <1>4, <2>2
    <3>2. CASE \E d \in 1 .. j - 1 : Owner(h, d, j)
      <4>1. PICK d \in 1 .. j - 1 : Owner(h, d, j)
        BY <3>2
      <4>2. d \in 1 .. Len(h) /\ d <= j
        BY <1>1, <3>1
      <4>3. Owner(w, d, j)
        BY <1>2, <3>1, <4>1, <4>2
      <4> QED
        BY <4>3
    <3>3. CASE \A k \in 2 .. j : h[k].role = "tool"
      <4>1. \A k \in 2 .. j : w[k].role = "tool"
        BY <1>1, <2>2, <3>3
      <4> QED
        BY <4>1
    <3> QED
      BY <2>2, <3>1, <3>2, <3>3 DEF Tidy
  <2> QED
    BY <1>1, <2>1, <2>2
<1> HIDE DEF n
<1>5. Tidy(w)
  BY <1>3, <1>4, Zenon DEF Tidy
<1> QED
  BY <1>5 DEF w

\* The end of a tidy history, with its first message or without, is tidy.
LEMMA TidyPart ==
  ASSUME NEW h \in Seq(Msgs), Tidy(h), NEW u \in Seq(Msgs), NEW o \in Nat,
         \A i \in 2 .. Len(u) : o + i \in 1 .. Len(h) /\ u[i] = h[o + i],
         Len(u) >= 1 => \E i \in 1 .. Len(h) : u[1] = h[i]
  PROVE  Tidy(u)
<1>1. Len(h) \in Nat /\ Len(u) \in Nat
  OBVIOUS
<1>2. ASSUME NEW i \in 1 .. Len(u), u[i].role = "call" PROVE u[i].n > 0
  <2>1. PICK k \in 1 .. Len(h) : u[i] = h[k]
    <3>1. i = 1 \/ i \in 2 .. Len(u)
      BY <1>1
    <3> QED
      BY <1>1, <3>1
  <2> QED
    BY <1>2, <2>1 DEF Tidy
<1>3. ASSUME NEW j \in 2 .. Len(u), u[j].role = "tool"
      PROVE  (\E d \in 1 .. j - 1 : Owner(u, d, j)) \/ (\A k \in 2 .. j : u[k].role = "tool")
  <2>1. /\ o + j \in 2 .. Len(h) /\ u[j] = h[o + j]
        /\ \A k \in 2 .. j : k \in 2 .. Len(u) /\ o + k \in 2 .. o + j /\ u[k] = h[o + k]
    <3>1. o + j \in 1 .. Len(h) /\ u[j] = h[o + j]
      BY <1>1
    <3>2. o + j >= 2
      BY <1>1
    <3>3. ASSUME NEW k \in 2 .. j PROVE k \in 2 .. Len(u) /\ o + k \in 2 .. o + j /\ u[k] = h[o + k]
      <4>1. k \in 2 .. Len(u)
        BY <1>1
      <4>2. o + k \in 2 .. o + j
        BY <1>1
      <4> QED
        BY <4>1, <4>2
    <3> QED
      BY <1>1, <3>1, <3>2, <3>3
  <2>2. CASE \E d \in 1 .. (o + j) - 1 : Owner(h, d, o + j)
    <3>1. PICK d \in 1 .. (o + j) - 1 : Owner(h, d, o + j)
      BY <2>2
    <3>2. CASE d <= o + 1
      <4>1. \A k \in 2 .. j : u[k].role = "tool"
        <5> TAKE k \in 2 .. j
        <5>1. o + k \in d + 1 .. o + j
          BY <1>1, <3>2
        <5> QED
          BY <2>1, <3>1, <5>1 DEF Owner
      <4> QED
        BY <4>1
    <3>3. CASE d > o + 1
      <4>1. d - o \in 2 .. j - 1 /\ o + (d - o) = d
        BY <1>1, <3>3
      <4>2. u[d - o] = h[d]
        BY <1>1, <4>1
      <4>3. \A k \in (d - o) + 1 .. j : u[k].role = "tool"
        <5> TAKE k \in (d - o) + 1 .. j
        <5>1. o + k \in d + 1 .. o + j /\ k \in 2 .. j
          BY <1>1, <4>1
        <5> QED
          BY <2>1, <3>1, <5>1 DEF Owner
      <4>4. Owner(u, d - o, j)
        BY <2>1, <3>1, <4>2, <4>3 DEF Owner
      <4>5. d - o \in 1 .. j - 1
        BY <4>1
      <4> QED
        BY <4>4, <4>5
    <3> QED
      BY <3>2, <3>3
  <2>3. CASE \A k \in 2 .. o + j : h[k].role = "tool"
    BY <2>1, <2>3
  <2> QED
    BY <1>3, <2>1, <2>2, <2>3 DEF Tidy
<1> QED
  BY <1>2, <1>3 DEF Tidy

LEMMA EndPart ==
  ASSUME NEW h \in Seq(Msgs), NEW u \in Seq(Msgs), NEW o \in Nat, Len(u) >= 1, o + Len(u) = Len(h),
         \A i \in 2 .. Len(u) : u[i] = h[o + i],
         NEW t, NEW r, r.got \in Nat, EndOf(h, t, r),
         \/ u[1] = h[o + 1]
         \/ Len(u) >= 2 /\ r.at # "tools"
  PROVE  EndOf(u, t, r)
<1>1. Len(h) \in Nat /\ Len(u) \in Nat /\ u # <<>>
  OBVIOUS
<1>2. u[Len(u)] = h[Len(h)]
  <2> DEFINE n == Len(u)
  <2>1. n \in Nat /\ n >= 1 /\ o + n = Len(h) /\ \A i \in 2 .. n : u[i] = h[o + i]
    BY <1>1
  <2>2. n = 1 => u[n] = h[o + n]
    <3> SUFFICES ASSUME n = 1 PROVE u[1] = h[o + 1]
      OBVIOUS
    <3> QED
      BY <1>1
  <2> HIDE DEF n
  <2>3. n = 1 \/ n \in 2 .. n
    BY <2>1
  <2>4. u[n] = h[o + n]
    BY <2>1, <2>2, <2>3
  <2> QED
    BY <2>1, <2>4 DEF n
<1>3. ASSUME r.at = "tools"
      PROVE  \/ \E d \in 1 .. Len(u) : /\ d + r.got = Len(u) /\ u[d] = Message(t, "call", r.round, r.n)
                                       /\ \A k \in d + 1 .. Len(u) : u[k].role = "tool"
             \/ \A k \in 1 .. Len(u) : u[k].role = "tool"
  <2>1. \A i \in 1 .. Len(u) : u[i] = h[o + i] /\ o + i \in 1 .. Len(h)
    <3> TAKE i \in 1 .. Len(u)
    <3>1. i = 1 \/ i \in 2 .. Len(u)
      BY <1>1
    <3> QED
      BY <1>1, <1>3, <3>1
  <2>2. CASE \A k \in 1 .. Len(h) : h[k].role = "tool"
    BY <2>1, <2>2
  <2>3. CASE \E d \in 1 .. Len(h) : /\ d + r.got = Len(h) /\ h[d] = Message(t, "call", r.round, r.n)
                                    /\ \A k \in d + 1 .. Len(h) : h[k].role = "tool"
    <3>1. PICK d \in 1 .. Len(h) : /\ d + r.got = Len(h) /\ h[d] = Message(t, "call", r.round, r.n)
                                   /\ \A k \in d + 1 .. Len(h) : h[k].role = "tool"
      BY <2>3
    <3>2. CASE d <= o
      <4>1. \A k \in 1 .. Len(u) : u[k].role = "tool"
        <5> TAKE k \in 1 .. Len(u)
        <5>1. o + k \in d + 1 .. Len(h)
          BY <1>1, <2>1, <3>2
        <5> QED
          BY <2>1, <3>1, <5>1
      <4> QED
        BY <4>1
    <3>3. CASE o < d
      <4>1. d - o \in 1 .. Len(u) /\ o + (d - o) = d /\ (d - o) + r.got = Len(u)
        BY <1>1, <3>1, <3>3
      <4>2. u[d - o] = Message(t, "call", r.round, r.n)
        BY <2>1, <3>1, <4>1
      <4>3. \A k \in (d - o) + 1 .. Len(u) : u[k].role = "tool"
        <5> TAKE k \in (d - o) + 1 .. Len(u)
        <5>1. k \in 1 .. Len(u) /\ o + k \in d + 1 .. Len(h)
          BY <1>1, <3>1, <4>1
        <5> QED
          BY <2>1, <3>1, <5>1
      <4> QED
        BY <4>1, <4>2, <4>3
    <3> QED
      BY <1>1, <3>2, <3>3
  <2> QED
    BY <1>3, <2>2, <2>3 DEF EndOf
<1>4. r.at \in {"model", "compress"} /\ r.round = 0 => u # <<>> /\ u[Len(u)] = Message(t, "user", 0, 0)
  BY <1>1, <1>2 DEF EndOf
<1> QED
  BY <1>3, <1>4 DEF EndOf

-----------------------------------------------------------------------------
\* What was answered stays answered.
LEMMA AppendAnswers ==
  ASSUME NEW S, NEW s \in Seq(S), NEW m \in S, NEW i \in 1 .. Len(s), Answered(s, i)
  PROVE  Answered(Append(s, m), i)
<1> DEFINE w == Append(s, m)
<1>1. Len(s) \in Nat /\ Len(w) = Len(s) + 1 /\ \A k \in 1 .. Len(s) : w[k] = s[k]
  OBVIOUS
<1> HIDE DEF w
<1>2. ASSUME NEW j \in Results(s, i) PROVE j \in Results(w, i) /\ w[j] = s[j]
  <2>1. j \in i + 1 .. Len(s) /\ \A k \in i + 1 .. j : s[k].role = "tool"
    BY DEF Results
  <2>2. j \in i + 1 .. Len(w) /\ w[j] = s[j]
    BY <1>1, <2>1
  <2>3. \A k \in i + 1 .. j : w[k].role = "tool"
    BY <1>1, <2>1
  <2> QED
    BY <2>2, <2>3 DEF Results
<1>3. w[i] = s[i]
  BY <1>1
<1>4. Answered(w, i)
  BY <1>2, <1>3 DEF Answered
<1> QED
  BY <1>4 DEF w

LEMMA CalledIsOwned ==
  ASSUME NEW S, NEW p \in Seq(S)
  PROVE  ResultsCalled(p) <=> Owned(p, Len(p))
<1>1. DOMAIN p = 1 .. Len(p) /\ Len(p) \in Nat
  OBVIOUS
<1>2. ASSUME NEW j \in 1 .. Len(p), NEW i \in 1 .. j - 1
      PROVE  p[i].role = "call" /\ j \in Results(p, i) /\ Id(p[j]) \in Ids(p[i]) <=> Owner(p, i, j)
  <2>1. j \in i + 1 .. Len(p)
    BY <1>1
  <2> QED
    BY <2>1 DEF Results, Owner
<1> QED
  BY <1>1, <1>2, Zenon DEF ResultsCalled, Owned

LEMMA AppendOwned ==
  ASSUME NEW S, NEW p \in Seq(S), NEW m \in S, NEW l \in 0 .. Len(p), Owned(p, l)
  PROVE  Owned(Append(p, m), l)
<1> DEFINE w == Append(p, m)
<1>1. Len(p) \in Nat /\ \A k \in 1 .. Len(p) : w[k] = p[k]
  OBVIOUS
<1>2. \A j \in 1 .. Len(p), d \in 1 .. Len(p) : d <= j => (Owner(w, d, j) <=> Owner(p, d, j))
  BY AppendOwner
<1> HIDE DEF w
<1>3. ASSUME NEW j \in 1 .. l, w[j].role = "tool" PROVE \E i \in 1 .. j - 1 : Owner(w, i, j)
  <2>1. j \in 1 .. Len(p) /\ p[j].role = "tool"
    BY <1>1, <1>3
  <2>2. PICK i \in 1 .. j - 1 : Owner(p, i, j)
    BY <2>1 DEF Owned
  <2>3. i \in 1 .. Len(p) /\ i <= j
    BY <1>1, <2>1
  <2> QED
    BY <1>2, <2>1, <2>2, <2>3
<1>4. Owned(w, l)
  BY <1>3 DEF Owned
<1> QED
  BY <1>4 DEF w

\* One position more.
LEMMA OwnedNext ==
  ASSUME NEW p, NEW l \in Nat, Owned(p, l),
         p[l + 1].role = "tool" => \E i \in 1 .. l : Owner(p, i, l + 1)
  PROVE  Owned(p, l + 1)
<1> SUFFICES ASSUME NEW j \in 1 .. l + 1, p[j].role = "tool" PROVE \E i \in 1 .. j - 1 : Owner(p, i, j)
  BY DEF Owned
<1>1. CASE j = l + 1
  <2>1. j - 1 = l
    BY <1>1
  <2> QED
    BY <1>1, <2>1
<1>2. CASE j \in 1 .. l
  BY <1>2 DEF Owned
<1> QED
  BY <1>1, <1>2

\* The question of the turn goes behind its prompt.
LEMMA AskedPrompt ==
  ASSUME NEW p \in Seq(Msgs), CallsAnswered(p), NEW m \in Msgs, m.role = "user"
  PROVE  /\ CallsAnswered(Append(p, m)) /\ m \in ToSet(Append(p, m))
         /\ ResultsCalled(p) => ResultsCalled(Append(p, m))
<1> DEFINE w == Append(p, m)
<1>1. /\ w \in Seq(Msgs) /\ Len(w) = Len(p) + 1 /\ Len(p) \in Nat /\ DOMAIN w = 1 .. Len(p) + 1
      /\ DOMAIN p = 1 .. Len(p) /\ w[Len(p) + 1] = m /\ \A k \in 1 .. Len(p) : w[k] = p[k]
  OBVIOUS
<1>2. \A i \in 1 .. Len(p) : Answered(p, i) => Answered(w, i)
  BY AppendAnswers
<1>3. Owned(p, Len(p)) => Owned(w, Len(p))
  BY <1>1, AppendOwned
<1> HIDE DEF w
<1>4. CallsAnswered(w)
  <2> SUFFICES ASSUME NEW i \in 1 .. Len(p) + 1, w[i].role = "call" PROVE Answered(w, i)
    BY <1>1 DEF CallsAnswered
  <2>1. i \in 1 .. Len(p) /\ p[i].role = "call"
    BY <1>1
  <2>2. Answered(p, i)
    BY <1>1, <2>1 DEF CallsAnswered
  <2> QED
    BY <1>2, <2>1, <2>2
<1>5. m \in ToSet(w)
  BY <1>1 DEF ToSet
<1>6. ASSUME ResultsCalled(p) PROVE ResultsCalled(w)
  <2>1. Owned(w, Len(p))
    BY <1>3, <1>6, CalledIsOwned
  <2>2. Owned(w, Len(p) + 1)
    BY <1>1, <2>1, OwnedNext
  <2> QED
    BY <1>1, <2>2, CalledIsOwned
<1> QED
  BY <1>4, <1>5, <1>6 DEF w

\* The model answers a prompt with a call.
LEMMA CalledPrompt ==
  ASSUME NEW p \in Seq(Msgs), CallsAnswered(p), NEW t, NEW r, r.got = 0,
         NEW m \in Msgs, m = Message(t, "call", r.round, r.n)
  PROVE  /\ Opened(Append(p, m), t, r)
         /\ ResultsCalled(p) => Owned(Append(p, m), Len(p))
<1> DEFINE w == Append(p, m)
<1>1. /\ w \in Seq(Msgs) /\ Len(w) = Len(p) + 1 /\ Len(p) \in Nat
      /\ DOMAIN p = 1 .. Len(p) /\ w[Len(p) + 1] = m /\ \A k \in 1 .. Len(p) : w[k] = p[k]
  OBVIOUS
<1>2. \A i \in 1 .. Len(p) : Answered(p, i) => Answered(w, i)
  BY AppendAnswers
<1>3. Owned(p, Len(p)) => Owned(w, Len(p))
  BY <1>1, AppendOwned
<1> HIDE DEF w
<1>4. Opened(w, t, r)
  <2>1. Len(p) + 1 \in 1 .. Len(w) /\ Len(p) + 1 + r.got = Len(w) /\ w[Len(p) + 1] = Message(t, "call", r.round, r.n)
    BY <1>1
  <2>2. \A k \in 1 .. r.got : w[Len(p) + 1 + k] = Message(t, "tool", r.round, k)
    OBVIOUS
  <2>3. \A i \in 1 .. (Len(p) + 1) - 1 : w[i].role = "call" => Answered(w, i)
    <3> SUFFICES ASSUME NEW i \in 1 .. Len(p), w[i].role = "call" PROVE Answered(w, i)
      BY <1>1
    <3>1. Answered(p, i)
      BY <1>1 DEF CallsAnswered
    <3> QED
      BY <1>2, <3>1
  <2> QED
    BY <2>1, <2>2, <2>3 DEF Opened
<1>5. ResultsCalled(p) => Owned(w, Len(p))
  BY <1>3, CalledIsOwned
<1> QED
  BY <1>4, <1>5 DEF w

\* The arithmetic of a call at place c of l messages, of whose results g are there.
LEMMA PlaceBehind ==
  ASSUME NEW c \in Nat, NEW g \in Nat, NEW k \in c + 1 .. (c + g) + 1
  PROVE  k - c \in 1 .. g + 1 /\ c + (k - c) = k
OBVIOUS

LEMMA OneMorePlace ==
  ASSUME NEW l \in Nat, NEW c \in 1 .. l, NEW k \in c + 1 .. l + 1
  PROVE  (k \in c + 1 .. l /\ k \in 1 .. l) \/ k = l + 1
OBVIOUS

LEMMA OneMoreResult ==
  ASSUME NEW l \in Nat, NEW c \in 1 .. l, NEW g \in Nat, c + g = l
  PROVE  c \in 1 .. l + 1 /\ c + (g + 1) = l + 1
OBVIOUS

LEMMA SameCallPlace ==
  ASSUME NEW l \in Nat, NEW g \in Nat
  PROVE  (l + 1) - (g + 1) - 1 = l - g - 1
OBVIOUS

LEMMA NextInCall ==
  ASSUME NEW g \in Nat, NEW n \in Nat, g < n
  PROVE  g + 1 \in 1 .. n
OBVIOUS

\* A result goes behind the others of its call.
LEMMA GrownPrompt ==
  ASSUME NEW p \in Seq(Msgs), NEW t, NEW r, NEW q, Opened(p, t, r), r.got \in Nat, r.n \in Nat, r.got < r.n,
         q.got = r.got + 1, q.n = r.n, q.round = r.round,
         NEW m \in Msgs, m = Message(t, "tool", r.round, r.got + 1)
  PROVE  /\ Opened(Append(p, m), t, q)
         /\ Owned(p, Len(p) - r.got - 1) => Owned(Append(p, m), Len(p) - r.got - 1)
         /\ q.got = q.n => CallsAnswered(Append(p, m))
         /\ q.got = q.n /\ Owned(p, Len(p) - r.got - 1) => ResultsCalled(Append(p, m))
<1> DEFINE w == Append(p, m)
<1>1. /\ w \in Seq(Msgs) /\ Len(w) = Len(p) + 1 /\ Len(p) \in Nat /\ DOMAIN w = 1 .. Len(p) + 1
      /\ DOMAIN p = 1 .. Len(p) /\ w[Len(p) + 1] = m /\ \A k \in 1 .. Len(p) : w[k] = p[k]
  OBVIOUS
<1>2. \A i \in 1 .. Len(p) : Answered(p, i) => Answered(w, i)
  BY AppendAnswers
<1>3. PICK c \in 1 .. Len(p) :
        /\ c + r.got = Len(p) /\ p[c] = Message(t, "call", r.round, r.n)
        /\ \A k \in 1 .. r.got : p[c + k] = Message(t, "tool", r.round, k)
        /\ \A i \in 1 .. c - 1 : p[i].role = "call" => Answered(p, i)
  BY DEF Opened
<1>4. c - 1 \in 0 .. Len(p) /\ c - 1 = Len(p) - r.got - 1 /\ c \in Nat
  BY <1>1, <1>3
<1>5. Owned(p, c - 1) => Owned(w, c - 1)
  BY <1>1, <1>4, AppendOwned
<1> HIDE DEF w
<1>6. w[c] = Message(t, "call", r.round, r.n) /\ \A k \in 1 .. q.got : w[c + k] = Message(t, "tool", r.round, k)
  <2>1. w[c] = p[c]
    BY <1>1
  <2>2. ASSUME NEW k \in 1 .. q.got PROVE w[c + k] = Message(t, "tool", r.round, k)
    <3>1. CASE k = r.got + 1
      <4>1. c + k = Len(p) + 1
        BY <1>3, <1>4, <3>1
      <4> QED
        BY <1>1, <3>1, <4>1
    <3>2. CASE k \in 1 .. r.got
      <4>1. c + k \in 1 .. Len(p)
        BY <1>1, <1>3, <1>4, <3>2
      <4> QED
        BY <1>1, <1>3, <3>2, <4>1
    <3> QED
      BY <3>1, <3>2
  <2> QED
    BY <1>3, <2>1, <2>2
<1>7. \A i \in 1 .. c - 1 : w[i].role = "call" => Answered(w, i)
  <2> SUFFICES ASSUME NEW i \in 1 .. c - 1, w[i].role = "call" PROVE Answered(w, i)
    OBVIOUS
  <2>1. i \in 1 .. Len(p) /\ p[i].role = "call"
    BY <1>1, <1>4
  <2> QED
    BY <1>2, <1>3, <2>1
<1>8. Opened(w, t, q)
  <2>1. c \in 1 .. Len(w) /\ c + q.got = Len(w)
    BY <1>1, <1>3, <1>4
  <2> QED
    BY <1>6, <1>7, <2>1 DEF Opened
<1>9. \A k \in c + 1 .. Len(w) : w[k].role = "tool" /\ w[k] = Message(t, "tool", r.round, k - c) /\ k - c \in 1 .. q.got
  <2> TAKE k \in c + 1 .. Len(w)
  <2>1. k - c \in 1 .. q.got /\ c + (k - c) = k
    <3>1. Len(w) = (c + r.got) + 1
      BY <1>1, <1>3, Zenon
    <3>2. k \in c + 1 .. (c + r.got) + 1
      BY <3>1, Zenon
    <3>3. k - c \in 1 .. r.got + 1 /\ c + (k - c) = k
      BY <1>4, <3>2, PlaceBehind, Zenon
    <3> QED
      BY <3>3, Zenon
  <2>2. w[k] = Message(t, "tool", r.round, k - c)
    BY <1>6, <2>1
  <2> QED
    BY <2>1, <2>2 DEF Message
<1>10. ASSUME q.got = q.n PROVE CallsAnswered(w)
  <2> SUFFICES ASSUME NEW i \in 1 .. Len(w), w[i].role = "call" PROVE Answered(w, i)
    BY <1>1 DEF CallsAnswered
  <2>1. CASE i \in 1 .. c - 1
    BY <1>7, <2>1
  <2>2. CASE i = c
    <3> SUFFICES ASSUME NEW k \in 1 .. r.n PROVE \E j \in Results(w, c) : Id(w[j]) = <<t, r.round, k>>
      BY <1>6, <2>2 DEF Answered, Ids, Message
    <3>1. c + k \in c + 1 .. Len(w)
      <4>1. Len(w) = (c + r.got) + 1
        BY <1>1, <1>3, Zenon
      <4>2. k \in 1 .. r.got + 1
        BY <1>10
      <4>3. c + k \in c + 1 .. (c + r.got) + 1
        BY <1>4, <4>2
      <4> QED
        BY <4>1, <4>3, Zenon
    <3>2. \A l \in c + 1 .. c + k : w[l].role = "tool"
      <4> TAKE l \in c + 1 .. c + k
      <4>1. l \in c + 1 .. Len(w)
        BY <1>1, <1>4, <3>1
      <4> QED
        BY <1>9, <4>1
    <3>3. c + k \in Results(w, c)
      BY <3>1, <3>2 DEF Results
    <3>4. Id(w[c + k]) = <<t, r.round, k>>
      <4>1. w[c + k] = Message(t, "tool", r.round, k)
        BY <1>6, <1>10
      <4> QED
        BY <4>1 DEF Id, Message
    <3> QED
      BY <3>3, <3>4
  <2>3. CASE i \in c + 1 .. Len(w)
    BY <1>9, <2>3
  <2> QED
    BY <1>1, <1>4, <2>1, <2>2, <2>3
<1>11. ASSUME q.got = q.n, Owned(p, c - 1) PROVE ResultsCalled(w)
  <2>1. ASSUME NEW j \in 1 .. Len(w), w[j].role = "tool" PROVE \E i \in 1 .. j - 1 : Owner(w, i, j)
    <3>1. CASE j \in 1 .. c - 1
      BY <1>5, <1>11, <2>1, <3>1 DEF Owned
    <3>2. CASE j = c
      BY <1>6, <2>1, <3>2 DEF Message
    <3>3. CASE j \in c + 1 .. Len(w)
      <4>1. w[j] = Message(t, "tool", r.round, j - c) /\ j - c \in 1 .. r.n
        BY <1>9, <1>11, <3>3
      <4>2. Id(w[j]) \in Ids(w[c]) /\ w[c].role = "call"
        BY <1>6, <4>1, IdFacts DEF Message
      <4>3. \A k \in c + 1 .. j : w[k].role = "tool"
        <5> TAKE k \in c + 1 .. j
        <5>1. k \in c + 1 .. Len(w)
          BY <1>1, <1>4, <3>3
        <5> QED
          BY <1>9, <5>1
      <4>4. Owner(w, c, j) /\ c \in 1 .. j - 1
        BY <1>1, <1>4, <3>3, <4>2, <4>3 DEF Owner
      <4> QED
        BY <4>4
    <3> QED
      BY <1>1, <1>4, <3>1, <3>2, <3>3
  <2>2. Owned(w, Len(w))
    BY <2>1 DEF Owned
  <2> QED
    BY <1>1, <2>2, CalledIsOwned
<1> QED
  <2>1. Owned(p, Len(p) - r.got - 1) => Owned(w, Len(p) - r.got - 1)
    BY <1>4, <1>5
  <2>2. q.got = q.n /\ Owned(p, Len(p) - r.got - 1) => ResultsCalled(w)
    BY <1>4, <1>11
  <2> QED
    BY <1>8, <1>10, <2>1, <2>2 DEF w

-----------------------------------------------------------------------------
(***************************************************************************)
(* The prompt of every turn, step by step                                  *)
(***************************************************************************)
Clean == ~joint /\ ~late

\* The prompt of a turn, whatever happened.
SoundOf(t, r) ==
  /\ r.prompt \in Seq(Msgs)
  /\ r.at \in {"read", "model"} => CallsAnswered(r.prompt)
  /\ r.at = "tools" => r.round > 0 /\ Opened(r.prompt, t, r)

\* And when no other turn and no stale copy came in its way.
CleanOf(t, r) ==
  /\ r.at \in {"read", "model"} => ResultsCalled(r.prompt)
  /\ r.at = "model" /\ r.round = 0 => Message(t, "user", 0, 0) \in ToSet(r.prompt)
  /\ r.at = "tools" => Owned(r.prompt, Len(r.prompt) - r.got - 1)

\* A history, or a copy, that a turn may go on with.
Fine(h, f) == Tidy(h) /\ \A t \in Turns : EndOf(h, t, f[t])

SessionFine == Fine(history, turn) /\ \A p \in Jobs : job[p].snap = <<>> \/ Fine(job[p].snap, turn)

Alone == ~joint => \A t, u \in Active : t = u

\* While no two turns met and no copy was old, what the session holds, and every
\* copy of it, ends where the turn in progress stands.
PromptInv ==
  /\ \A t \in Turns : SoundOf(t, turn[t])
  /\ Alone
  /\ Clean => SessionFine /\ \A t \in Turns : CleanOf(t, turn[t])

\* The invariant says of a prompt in the making what PromptIsSound says of one
\* that is sent.
LEMMA PromptInvGives == PromptInv => PromptIsSound
<1> SUFFICES ASSUME PromptInv, NEW t \in Turns, turn[t].at = "model"
             PROVE  /\ CallsAnswered(turn[t].prompt)
                    /\ ~joint /\ ~late =>
                         /\ ResultsCalled(turn[t].prompt)
                         /\ turn[t].round = 0 => Message(t, "user", 0, 0) \in ToSet(turn[t].prompt)
  BY Zenon DEF PromptIsSound
<1>1. CallsAnswered(turn[t].prompt)
  BY DEF PromptInv, SoundOf
<1>2. ~joint /\ ~late => CleanOf(t, turn[t])
  BY Zenon DEF PromptInv, Clean
<1> QED
  BY <1>1, <1>2, Zenon DEF CleanOf

LEMMA RestOf ==
  ASSUME NEW t, NEW r, r.at \notin {"read", "model", "tools"}, r.prompt = <<>> PROVE SoundOf(t, r) /\ CleanOf(t, r)
BY DEF SoundOf, CleanOf

LEMMA PromptInit == Init => PromptInv
<1> SUFFICES ASSUME Init PROVE PromptInv
  OBVIOUS
<1>1. history = <<>> /\ \A p \in Jobs : job[p].snap = <<>>
  BY DEF Init, Jobs, Idle
<1>2. \A t \in Turns : turn[t] = NoTurn
  BY DEF Init
<1>3. \A t \in Turns : turn[t].at = "waiting" /\ turn[t].prompt = <<>>
  BY <1>2 DEF NoTurn
<1>4. \A t \in Turns : SoundOf(t, turn[t]) /\ CleanOf(t, turn[t])
  BY <1>3, RestOf
<1>5. Alone
  BY <1>3 DEF Alone, Active, Over
<1>6. SessionFine
  <2>1. Tidy(history)
    BY <1>1 DEF Tidy
  <2>2. \A t \in Turns : EndOf(history, t, turn[t])
    BY <1>3 DEF EndOf
  <2> QED
    BY <1>1, <2>1, <2>2 DEF SessionFine, Fine
<1> QED
  BY <1>4, <1>5, <1>6 DEF PromptInv

-----------------------------------------------------------------------------
LEMMA StillAlone == ASSUME Alone, joint' = joint, Active' \subseteq Active PROVE Alone'
BY DEF Alone

LEMMA OthersRest ==
  ASSUME Alone, ~joint, NEW t \in Turns, turn[t].at \notin Over
  PROVE  \A u \in Turns : u # t => turn[u].at \in Over
BY DEF Alone, Active

\* Who is not in progress expects nothing of the history.
LEMMA RestEnd ==
  ASSUME NEW h, NEW t, NEW r, r.at \notin {"model", "compress", "tools"} PROVE EndOf(h, t, r)
BY DEF EndOf

LEMMA FineTurn ==
  ASSUME NEW h, NEW t \in Turns, Fine(h, turn), OneTurn(t), EndOf(h, t, turn'[t])
  PROVE  Fine(h, turn')
<1>1. \A u \in Turns : EndOf(h, u, turn'[u])
  <2> TAKE u \in Turns
  <2>1. CASE u = t
    BY <2>1
  <2>2. CASE u # t
    <3>1. turn'[u] = turn[u] /\ EndOf(h, u, turn[u])
      BY <2>2 DEF Fine, OneTurn
    <3> QED
      BY <3>1
  <2> QED
    BY <2>1, <2>2
<1> QED
  BY <1>1 DEF Fine

\* A turn moves.
LEMMA PromptTurn ==
  ASSUME PromptInv, NEW t \in Turns, OneTurn(t), Clean' => Clean, SoundOf(t, turn'[t]), Alone',
         Clean' => CleanOf(t, turn'[t]), Clean' => SessionFine'
  PROVE  PromptInv'
<1>1. ASSUME NEW u \in Turns PROVE SoundOf(u, turn'[u]) /\ (Clean' => CleanOf(u, turn'[u]))
  <2>1. CASE u = t
    BY <2>1, Zenon
  <2>2. CASE u # t
    <3>1. turn'[u] = turn[u]
      BY <2>2 DEF OneTurn
    <3>2. SoundOf(u, turn[u]) /\ (Clean => CleanOf(u, turn[u]))
      BY Zenon DEF PromptInv
    <3> QED
      BY <3>1, <3>2, Zenon
  <2> QED
    BY <2>1, <2>2
<1> QED
  BY <1>1, Zenon DEF PromptInv

\* A job moves.
LEMMA PromptJob ==
  ASSUME PromptInv, turn' = turn, joint' = joint, late' = late,
         Clean => Fine(history', turn) /\ \A p \in Jobs : job'[p].snap = <<>> \/ Fine(job'[p].snap, turn)
  PROVE  PromptInv'
<1>1. Alone'
  BY DEF PromptInv, Alone, Active
<1>2. Clean' <=> Clean
  BY DEF Clean
<1>3. SessionFine' <=> Fine(history', turn) /\ \A p \in Jobs : job'[p].snap = <<>> \/ Fine(job'[p].snap, turn)
  BY DEF SessionFine
<1>4. \A t \in Turns : SoundOf(t, turn'[t]) /\ (Clean => CleanOf(t, turn'[t]))
  BY Zenon DEF PromptInv
<1> QED
  BY <1>1, <1>2, <1>3, <1>4, Zenon DEF PromptInv

-----------------------------------------------------------------------------
\* A turn that needs its prompt no more.
LEMMA PromptTo ==
  ASSUME TurnsInv, PromptInv, NEW t \in Turns, NEW at, To(t, at),
         at \notin {"read", "model", "compress", "tools"}, at \in Over \/ turn[t].at \notin Over,
         history' = history, \A p \in Jobs : job'[p].snap = job[p].snap, joint' = joint, late' = late
  PROVE  PromptInv'
<1>1. TurnTypes
  BY DEF TurnsInv
<1>2. OneTurn(t) /\ turn'[t].at = at /\ turn'[t].prompt = <<>>
  BY <1>1, ToFields DEF To, NoTurn, TurnTypes
<1>3. SoundOf(t, turn'[t]) /\ CleanOf(t, turn'[t])
  BY <1>2, RestOf
<1>4. Clean' <=> Clean
  BY DEF Clean
<1>5. Active' \subseteq Active
  BY <1>2 DEF Active, OneTurn
<1>6. Alone'
  BY <1>5, StillAlone DEF PromptInv
<1>7. ASSUME Clean PROVE SessionFine'
  <2>1. \A h : EndOf(h, t, turn'[t])
    BY <1>2, RestEnd
  <2>2. SessionFine
    BY <1>7 DEF PromptInv
  <2>3. \A h : Fine(h, turn) => Fine(h, turn')
    BY <1>2, <2>1, FineTurn
  <2> QED
    BY <2>2, <2>3 DEF SessionFine
<1> QED
  BY <1>2, <1>3, <1>4, <1>6, <1>7, PromptTurn

\* A turn that saves a message.
LEMMA PromptSave ==
  ASSUME TurnsInv, PromptInv, NEW t \in Turns, NEW m \in Msgs, Save(m), OneTurn(t), job' = job, joint' = joint,
         turn[t].at \notin Over,
         m.role = "call" => m.n > 0,
         Clean /\ m.role = "tool" => \/ \E d \in 1 .. Len(history) : Owner(Append(history, m), d, Len(history) + 1)
                                     \/ \A k \in 1 .. Len(history) : history[k].role = "tool",
         Clean => EndOf(Append(history, m), t, turn'[t]),
         SoundOf(t, turn'[t]), Clean => CleanOf(t, turn'[t])
  PROVE  PromptInv'
<1>1. history' = Append(history, m) /\ history \in Seq(Msgs) /\ DOMAIN job = Jobs
  BY DEF Save, TurnsInv, SessionTypes, JobTypes
<1>2. Clean' => Clean /\ \A p \in Jobs : job[p].snap = <<>>
  BY <1>1 DEF Clean, Save
<1>3. Active' \subseteq Active
  BY DEF Active, OneTurn
<1>4. Alone'
  BY <1>3, StillAlone DEF PromptInv
<1>5. ASSUME Clean' PROVE SessionFine'
  <2>1. Clean /\ \A p \in Jobs : job'[p].snap = <<>>
    BY <1>2, <1>5
  <2>2. Tidy(history)
    BY <2>1 DEF PromptInv, SessionFine, Fine
  <2>3. m.role = "tool" => \/ \E d \in 1 .. Len(history) : Owner(Append(history, m), d, Len(history) + 1)
                           \/ \A k \in 1 .. Len(history) : history[k].role = "tool"
    BY <2>1
  <2>4. Tidy(history')
    BY <1>1, <2>2, <2>3, TidyAppend
  <2>5. \A u \in Turns : EndOf(history', u, turn'[u])
    <3> TAKE u \in Turns
    <3>1. CASE u = t
      BY <1>1, <2>1, <3>1
    <3>2. CASE u # t
      <4>1. turn[u].at \in Over
        BY <2>1, <3>2, OthersRest DEF PromptInv, Clean
      <4>2. turn'[u].at \notin {"model", "compress", "tools"}
        BY <3>2, <4>1 DEF OneTurn, Over
      <4> QED
        BY <4>2, RestEnd
    <3> QED
      BY <3>1, <3>2
  <2> QED
    BY <2>1, <2>4, <2>5 DEF SessionFine, Fine
<1> QED
  BY <1>2, <1>4, <1>5, PromptTurn

\* A turn moves, and the session stays as it is or is copied.
LEMMA PromptSame ==
  ASSUME PromptInv, NEW t \in Turns, OneTurn(t), Alone', Clean' => Clean,
         \A h : EndOf(h, t, turn[t]) => EndOf(h, t, turn'[t]),
         history' = history, \A p \in Jobs : job'[p].snap \in {<<>>, history, job[p].snap},
         SoundOf(t, turn'[t]), Clean' => CleanOf(t, turn'[t])
  PROVE  PromptInv'
<1>1. ASSUME NEW h, Fine(h, turn) PROVE Fine(h, turn')
  <2>1. EndOf(h, t, turn[t])
    BY <1>1 DEF Fine
  <2>2. EndOf(h, t, turn'[t])
    BY <2>1
  <2> QED
    BY <1>1, <2>2, FineTurn
<1>2. ASSUME Clean' PROVE SessionFine'
  <2>1. SessionFine
    BY <1>2 DEF PromptInv
  <2>2. Fine(history, turn') /\ \A p \in Jobs : job[p].snap = <<>> \/ Fine(job[p].snap, turn')
    BY <1>1, <2>1 DEF SessionFine
  <2>3. \A p \in Jobs : job'[p].snap = <<>> \/ Fine(job'[p].snap, turn')
    BY <2>2
  <2> QED
    BY <2>2, <2>3 DEF SessionFine
<1> QED
  BY <1>2, PromptTurn

LEMMA CleanFacts ==
  ASSUME TurnsInv, PromptInv, Clean
  PROVE  /\ history \in Seq(Msgs) /\ InOrder(history) /\ Tidy(history) /\ \A t \in Turns : EndOf(history, t, turn[t])
         /\ Fine(history, turn)
         /\ \A p \in Jobs : job[p].snap # <<>> => Fine(job[p].snap, turn)
BY SessionFacts DEF PromptInv, SessionFine, Fine, Kept

LEMMA PromptRead ==
  ASSUME TurnsInv, PromptInv, NEW t \in Turns, ReadHistory(t) PROVE PromptInv'
<1>1. /\ turn[t].at = "waiting" /\ turn' = [turn EXCEPT ![t].at = "read", ![t].prompt = Sanitize(history)]
      /\ history' = history /\ job' = job /\ late' = late /\ (joint' = (joint \/ Active # {}))
  BY DEF ReadHistory, Arrive, session
<1>2. TurnTypes /\ TurnOK(t)
  BY DEF TurnsInv, TurnTypes
<1>3. OneTurn(t) /\ turn'[t].at = "read" /\ turn'[t].prompt = Sanitize(history)
  BY <1>1, <1>2 DEF TurnTypes, TurnOK, OneTurn, Fields
<1>4. Clean' => Clean
  BY <1>1 DEF Clean
<1>5. Alone'
  <2> SUFFICES ASSUME ~joint' PROVE \A u, v \in Active' : u = v
    BY DEF Alone
  <2>1. Active = {}
    BY <1>1
  <2>2. \A u \in Active' : u = t
    BY <1>3, <2>1 DEF Active, OneTurn
  <2> QED
    BY <2>2
<1>6. /\ Sanitize(history) \in Seq(Msgs) /\ CallsAnswered(Sanitize(history))
      /\ InOrder(history) /\ Tidy(history) => ResultsCalled(Sanitize(history))
  BY SessionFacts, SanitizeSound
<1>7. SoundOf(t, turn'[t])
  BY <1>3, <1>6 DEF SoundOf
<1>8. Clean' => CleanOf(t, turn'[t])
  BY <1>3, <1>4, <1>6, CleanFacts DEF CleanOf
<1>9. \A h : EndOf(h, t, turn'[t])
  BY <1>3, RestEnd
<1> QED
  BY <1>1, <1>3, <1>4, <1>5, <1>7, <1>8, <1>9, PromptSame

LEMMA PromptTimeOut ==
  ASSUME TurnsInv, PromptInv, NEW t \in Turns, TimeOut(t) PROVE PromptInv'
<1>1. turn[t].at = "model" /\ turn' = [turn EXCEPT ![t].retry = @ + 1]
      /\ history' = history /\ job' = job /\ late' = late /\ joint' = joint
  BY DEF TimeOut, session, ghosts
<1>2. TurnTypes /\ TurnOK(t)
  BY DEF TurnsInv, TurnTypes
<1>3. OneTurn(t) /\ turn'[t].at = turn[t].at /\ turn'[t].prompt = turn[t].prompt /\ turn'[t].round = turn[t].round
  BY <1>1, <1>2 DEF TurnTypes, TurnOK, OneTurn, Fields
<1>4. Clean' <=> Clean
  BY <1>1 DEF Clean
<1>5. Alone'
  <2>1. Active' \subseteq Active
    BY <1>3 DEF Active, OneTurn
  <2> QED
    BY <1>1, <2>1, StillAlone DEF PromptInv
<1>6. SoundOf(t, turn[t]) /\ (Clean => CleanOf(t, turn[t]))
  BY Zenon DEF PromptInv
<1>7. SoundOf(t, turn'[t])
  BY <1>1, <1>3, <1>6 DEF SoundOf
<1>8. Clean' => CleanOf(t, turn'[t])
  BY <1>1, <1>3, <1>4, <1>6 DEF CleanOf
<1>9. \A h : EndOf(h, t, turn[t]) => EndOf(h, t, turn'[t])
  BY <1>1, <1>3 DEF EndOf
<1> QED
  BY <1>1, <1>3, <1>4, <1>5, <1>7, <1>8, <1>9, PromptSame

LEMMA PromptRefuse ==
  ASSUME TurnsInv, PromptInv, NEW t \in Turns, Refuse(t) PROVE PromptInv'
<1>1. turn[t].at = "model" /\ turn' = [turn EXCEPT ![t].at = "compress", ![t].retry = @ + 1, ![t].prompt = <<>>]
      /\ history' = history /\ late' = late /\ joint' = joint
  BY DEF Refuse, session, ghosts
<1>2. TurnTypes /\ TurnOK(t) /\ JobTypes
  BY DEF TurnsInv, TurnTypes
<1>3. OneTurn(t) /\ turn'[t].at = "compress" /\ turn'[t].prompt = <<>> /\ turn'[t].round = turn[t].round
  BY <1>1, <1>2 DEF TurnTypes, TurnOK, OneTurn, Fields
<1>4. Clean' <=> Clean
  BY <1>1 DEF Clean
<1>5. Alone'
  <2>1. Active' \subseteq Active
    BY <1>1, <1>3 DEF Active, OneTurn, Over
  <2> QED
    BY <1>1, <2>1, StillAlone DEF PromptInv
<1>6. SoundOf(t, turn'[t]) /\ CleanOf(t, turn'[t])
  BY <1>3, RestOf
<1>7. \A h : EndOf(h, t, turn[t]) => EndOf(h, t, turn'[t])
  BY <1>1, <1>3 DEF EndOf
<1>8. \A p \in Jobs : job'[p].snap \in {<<>>, history, job[p].snap}
  <2>1. PICK at \in {"halve", "compact"} : job' = [job EXCEPT ![t] = Start(at)]
    BY DEF Refuse
  <2>2. DOMAIN job = Jobs
    BY <1>2 DEF JobTypes
  <2>3. Start(at).snap \in {<<>>, history}
    BY DEF Start, Idle
  <2> QED
    BY <2>1, <2>2, <2>3
<1> QED
  BY <1>1, <1>3, <1>4, <1>5, <1>6, <1>7, <1>8, PromptSame

LEMMA PromptRebuild ==
  ASSUME TurnsInv, PromptInv, NEW t \in Turns, Rebuild(t) PROVE PromptInv'
<1>1. turn[t].at = "compress" /\ turn' = [turn EXCEPT ![t].at = "model", ![t].prompt = Sanitize(history)]
      /\ history' = history /\ job' = job /\ late' = late /\ joint' = joint
  BY DEF Rebuild, session, ghosts
<1>2. TurnTypes /\ TurnOK(t)
  BY DEF TurnsInv, TurnTypes
<1>3. OneTurn(t) /\ turn'[t].at = "model" /\ turn'[t].prompt = Sanitize(history) /\ turn'[t].round = turn[t].round
  BY <1>1, <1>2 DEF TurnTypes, TurnOK, OneTurn, Fields
<1>4. Clean' <=> Clean
  BY <1>1 DEF Clean
<1>5. Alone'
  <2>1. Active' \subseteq Active
    BY <1>1, <1>3 DEF Active, OneTurn, Over
  <2> QED
    BY <1>1, <2>1, StillAlone DEF PromptInv
<1>6. history \in Seq(Msgs)
  BY SessionFacts
<1>7. /\ Sanitize(history) \in Seq(Msgs) /\ CallsAnswered(Sanitize(history))
      /\ InOrder(history) /\ Tidy(history) => ResultsCalled(Sanitize(history))
      /\ \A m \in ToSet(history) : m.role \notin {"call", "tool"} => m \in ToSet(Sanitize(history))
  BY <1>6, SanitizeSound
<1>8. SoundOf(t, turn'[t])
  BY <1>3, <1>7 DEF SoundOf
<1>9. ASSUME Clean' PROVE CleanOf(t, turn'[t])
  <2>1. InOrder(history) /\ Tidy(history) /\ EndOf(history, t, turn[t])
    BY <1>4, <1>9, CleanFacts
  <2>2. ASSUME turn[t].round = 0 PROVE Message(t, "user", 0, 0) \in ToSet(Sanitize(history))
    <3> DEFINE m == Message(t, "user", 0, 0)
    <3>1. history # <<>> /\ history[Len(history)] = m
      BY <1>1, <2>1, <2>2 DEF EndOf
    <3>2. m.role = "user"
      BY DEF Message
    <3> HIDE DEF m
    <3>3. m \in ToSet(history)
      <4>1. Len(history) \in DOMAIN history
        BY <1>6, <3>1
      <4> QED
        BY <3>1, <4>1 DEF ToSet
    <3>4. m \in ToSet(Sanitize(history))
      BY <1>7, <3>2, <3>3
    <3> QED
      BY <3>4 DEF m
  <2> QED
    BY <1>3, <1>7, <2>1, <2>2 DEF CleanOf
<1>10. \A h : EndOf(h, t, turn[t]) => EndOf(h, t, turn'[t])
  BY <1>1, <1>3 DEF EndOf
<1> QED
  BY <1>1, <1>3, <1>4, <1>5, <1>8, <1>9, <1>10, PromptSame

LEMMA PromptMove ==
  ASSUME TurnsInv, PromptInv, NEW t \in Turns,
         SkipInternal(t) \/ HandleCommand(t) \/ Answer(t) \/ Fail(t) \/ Respond(t) \/ MaybeSummarize(t)
  PROVE  PromptInv'
<1>1. history' = history /\ joint' = joint /\ late' = late
  BY DEF SkipInternal, HandleCommand, Answer, Fail, Respond, Ended, MaybeSummarize, session, ghosts
<1>2. \A p \in Jobs : job'[p].snap = job[p].snap
  <2>1. CASE job' = job
    BY <2>1
  <2>2. CASE job' = [job EXCEPT ![Summariser].at = "started"]
    <3>1. job \in [Jobs -> JobRecords]
      BY DEF TurnsInv, JobTypes
    <3>2. ASSUME NEW p \in Jobs PROVE job'[p].snap = job[p].snap
      <4>1. CASE p = Summariser
        BY <2>2, <3>1, <4>1 DEF JobRecords
      <4>2. CASE p # Summariser
        BY <2>2, <3>1, <4>2
      <4> QED
        BY <4>1, <4>2
    <3> QED
      BY <3>2
  <2> QED
    BY <2>1, <2>2 DEF SkipInternal, HandleCommand, Answer, Fail, Respond, Ended, MaybeSummarize
<1>3. CASE SkipInternal(t)
  BY <1>1, <1>2, <1>3, PromptTo DEF SkipInternal, Over
<1>4. CASE HandleCommand(t)
  BY <1>1, <1>2, <1>4, PromptTo DEF HandleCommand, Over
<1>5. CASE Answer(t)
  BY <1>1, <1>2, <1>5, PromptTo DEF Answer, Over
<1>6. CASE Fail(t)
  BY <1>1, <1>2, <1>6, PromptTo DEF Fail, Over
<1>7. CASE Respond(t)
  <2>1. To(t, "silent") \/ To(t, "published")
    BY <1>7 DEF Respond
  <2> QED
    BY <1>1, <1>2, <2>1, PromptTo DEF Over
<1>8. CASE MaybeSummarize(t)
  BY <1>1, <1>2, <1>8, PromptTo DEF MaybeSummarize, Over
<1> QED
  BY <1>3, <1>4, <1>5, <1>6, <1>7, <1>8

\* /clear leaves an empty history, which is fine for a session without a turn
\* that waits for the model or its tools.
LEMMA PromptClear ==
  ASSUME TurnsInv, PromptInv, NEW t \in Turns, ClearHistory(t) \/ ClearSummary(t)
  PROVE  PromptInv'
<1>1. job' = job /\ joint' = joint /\ late' = late
  BY DEF ClearHistory, ClearSummary, ghosts
<1>2. CASE ClearSummary(t)
  BY <1>1, <1>2, PromptTo DEF ClearSummary, Over
<1>3. CASE ClearHistory(t)
  <2>1. history' = <<>> /\ To(t, "clearing") /\ turn[t].at = "read" /\ TurnTypes
    BY <1>3 DEF ClearHistory, TurnsInv
  <2>2. OneTurn(t) /\ turn'[t].at = "clearing" /\ turn'[t].prompt = <<>>
    BY <2>1, ToFields DEF To, NoTurn, TurnTypes
  <2>3. SoundOf(t, turn'[t]) /\ CleanOf(t, turn'[t])
    BY <2>2, RestOf
  <2>4. Clean' <=> Clean
    BY <1>1 DEF Clean
  <2>5. Active' \subseteq Active
    BY <2>1, <2>2 DEF Active, OneTurn, Over
  <2>6. Alone'
    BY <1>1, <2>5, StillAlone DEF PromptInv
  <2>7. ASSUME Clean PROVE SessionFine'
    <3>1. Tidy(<<>>)
      BY DEF Tidy
    <3>2. \A u \in Turns : turn'[u].at \notin {"model", "compress", "tools"}
      <4> TAKE u \in Turns
      <4>1. u # t => turn[u].at \in Over
        BY <2>1, <2>7, OthersRest DEF Clean, PromptInv, Over
      <4> QED
        BY <2>2, <4>1 DEF OneTurn, Over
    <3>3. \A u \in Turns : EndOf(<<>>, u, turn'[u])
      BY <3>2, RestEnd
    <3>4. \A h : EndOf(h, t, turn'[t])
      BY <2>2, RestEnd
    <3>5. \A h : Fine(h, turn) => Fine(h, turn')
      BY <2>2, <3>4, FineTurn
    <3>6. \A p \in Jobs : job'[p].snap = <<>> \/ Fine(job'[p].snap, turn')
      BY <1>1, <2>7, <3>5, CleanFacts
    <3> QED
      BY <2>1, <3>1, <3>3, <3>6 DEF SessionFine, Fine
  <2> QED
    BY <2>2, <2>3, <2>4, <2>6, <2>7, PromptTurn
<1> QED
  BY <1>2, <1>3

USE SessionTurnsAssumption

LEMMA SaveFacts ==
  ASSUME TurnsInv, PromptInv, NEW t \in Turns, SaveStep(t)
  PROVE  /\ job' = job /\ joint' = joint /\ TurnOK(t) /\ DOMAIN turn = Turns /\ DOMAIN turn[t] = Fields
         /\ SoundOf(t, turn[t]) /\ (Clean => CleanOf(t, turn[t]))
<1>1. job' = job /\ joint' = joint
  BY DEF SaveStep, SaveUser, AskTools, SaveResult, SaveAnswer
<1>2. TurnOK(t) /\ DOMAIN turn = Turns /\ DOMAIN turn[t] = Fields
  BY DEF TurnsInv, TurnTypes, TurnOK
<1>3. SoundOf(t, turn[t]) /\ (Clean => CleanOf(t, turn[t]))
  BY Zenon DEF PromptInv
<1> QED
  BY <1>1, <1>2, <1>3

LEMMA PromptAnswer ==
  ASSUME TurnsInv, PromptInv, NEW t \in Turns, SaveAnswer(t) PROVE PromptInv'
<1> DEFINE m == Message(t, "answer", 0, 0)
           at == IF t \in SystemTurns THEN "respond" ELSE "saved"
<1>1. job' = job /\ joint' = joint
  BY SaveFacts DEF SaveStep
<1>2. To(t, at) /\ turn[t].at = "answer" /\ Save(m)
  BY DEF SaveAnswer
<1>3. m \in Msgs /\ m.role = "answer"
  <2>1. 0 \in 0 .. MaxRounds /\ 0 \in 0 .. MaxCalls
    OBVIOUS
  <2> QED
    BY <2>1 DEF Message, Msgs
<1>4. at \in {"respond", "saved"}
  OBVIOUS
<1> HIDE DEF m, at
<1>5. OneTurn(t) /\ turn'[t].at = at /\ turn'[t].prompt = <<>>
  BY <1>2, ToFields DEF To, NoTurn, TurnsInv, TurnTypes
<1>6. SoundOf(t, turn'[t]) /\ CleanOf(t, turn'[t])
  BY <1>4, <1>5, RestOf
<1>7. EndOf(Append(history, m), t, turn'[t])
  BY <1>4, <1>5, RestEnd
<1>8. turn[t].at \notin Over
  BY <1>2 DEF Over
<1> QED
  BY <1>1, <1>2, <1>3, <1>5, <1>6, <1>7, <1>8, PromptSave

LEMMA PromptUser ==
  ASSUME TurnsInv, PromptInv, NEW t \in Turns, SaveUser(t) PROVE PromptInv'
<1> DEFINE m == Message(t, "user", 0, 0)
           p == turn[t].prompt
<1>1. /\ job' = job /\ joint' = joint /\ TurnOK(t) /\ DOMAIN turn = Turns /\ DOMAIN turn[t] = Fields
      /\ SoundOf(t, turn[t]) /\ (Clean => CleanOf(t, turn[t]))
  BY SaveFacts DEF SaveStep
<1>2. turn[t].at = "read" /\ Save(m) /\ turn' = [turn EXCEPT ![t].at = "model", ![t].prompt = Append(@, m)]
  BY DEF SaveUser
<1>3. m \in Msgs /\ m.role = "user"
  <2>1. 0 \in 0 .. MaxRounds /\ 0 \in 0 .. MaxCalls
    OBVIOUS
  <2> QED
    BY <2>1 DEF Message, Msgs
<1>4. OneTurn(t) /\ turn'[t].at = "model" /\ turn'[t].prompt = Append(p, m)
  BY <1>1, <1>2 DEF OneTurn, Fields
<1>5. p \in Seq(Msgs) /\ CallsAnswered(p) /\ (Clean => ResultsCalled(p))
  BY <1>1, <1>2 DEF SoundOf, CleanOf
<1> HIDE DEF p
<1>6. Message(t, "user", 0, 0) = m
  OBVIOUS
<1> HIDE DEF m
<1>7. /\ Append(p, m) \in Seq(Msgs) /\ CallsAnswered(Append(p, m)) /\ m \in ToSet(Append(p, m))
      /\ ResultsCalled(p) => ResultsCalled(Append(p, m))
  BY <1>3, <1>5, AskedPrompt
<1>8. SoundOf(t, turn'[t])
  BY <1>4, <1>7 DEF SoundOf
<1>9. Clean => CleanOf(t, turn'[t])
  BY <1>4, <1>5, <1>6, <1>7 DEF CleanOf
<1>10. EndOf(Append(history, m), t, turn'[t])
  <2>1. /\ Append(history, m) \in Seq(Msgs) /\ Len(Append(history, m)) = Len(history) + 1 /\ Len(history) \in Nat
        /\ Append(history, m)[Len(history) + 1] = m
    BY <1>3, SessionFacts, AppendFacts
  <2>2. Append(history, m) # <<>>
    BY <2>1
  <2> QED
    BY <1>4, <1>6, <2>1, <2>2 DEF EndOf
<1>11. turn[t].at \notin Over
  BY <1>2 DEF Over
<1> QED
  BY <1>1, <1>2, <1>3, <1>4, <1>8, <1>9, <1>10, <1>11, PromptSave

LEMMA PromptAsk ==
  ASSUME TurnsInv, PromptInv, NEW t \in Turns, NEW n \in 1 .. MaxCalls, AskTools(t, n) PROVE PromptInv'
<1> DEFINE r == turn[t].round + 1
           m == Message(t, "call", r, n)
           p == turn[t].prompt
<1>1. /\ job' = job /\ joint' = joint /\ TurnOK(t) /\ DOMAIN turn = Turns /\ DOMAIN turn[t] = Fields
      /\ SoundOf(t, turn[t]) /\ (Clean => CleanOf(t, turn[t]))
  BY SaveFacts DEF SaveStep
<1>2. /\ turn[t].at = "model" /\ Save(m)
  BY DEF AskTools
<1>3. m \in Msgs /\ m.role = "call" /\ m.n > 0 /\ r > 0 /\ r \in Nat
  <2>1. turn[t].round < MaxRounds
    BY RoundLeft DEF AskTools
  <2>2. r \in 0 .. MaxRounds /\ n \in 0 .. MaxCalls /\ r > 0
    BY <1>1, <2>1 DEF TurnOK
  <2> QED
    BY <2>2 DEF Message, Msgs
<1>4. OneTurn(t) /\ turn'[t].at = "tools" /\ turn'[t].prompt = Append(p, m) /\ turn'[t].round = r
      /\ turn'[t].got = 0 /\ turn'[t].n = n
  <2>1. DOMAIN turn = Turns /\ DOMAIN turn[t] = Fields
    BY <1>1
  <2>2. OneTurn(t)
    BY <2>1 DEF AskTools, OneTurn
  <2>3. turn'[t].at = "tools" /\ turn'[t].round = r /\ turn'[t].got = 0 /\ turn'[t].n = n
    BY <2>1 DEF AskTools, Fields
  <2>4. turn'[t].prompt = Append(p, m)
    BY <2>1 DEF AskTools, Fields
  <2> QED
    BY <2>2, <2>3, <2>4
<1>5. p \in Seq(Msgs) /\ CallsAnswered(p) /\ (Clean => ResultsCalled(p))
  BY <1>1, <1>2 DEF SoundOf, CleanOf
<1>6. m = Message(t, "call", turn'[t].round, turn'[t].n)
  BY <1>4
<1> HIDE DEF p, m, r
<1>7. /\ Opened(Append(p, m), t, turn'[t])
      /\ ResultsCalled(p) => Owned(Append(p, m), Len(p))
  BY <1>3, <1>4, <1>5, <1>6, CalledPrompt
<1>8. Append(p, m) \in Seq(Msgs) /\ Len(Append(p, m)) - 0 - 1 = Len(p)
  BY <1>3, <1>5
<1>9. SoundOf(t, turn'[t])
  BY <1>3, <1>4, <1>7, <1>8 DEF SoundOf
<1>10. Clean => CleanOf(t, turn'[t])
  BY <1>4, <1>5, <1>7, <1>8 DEF CleanOf
<1>11. EndOf(Append(history, m), t, turn'[t])
  <2> DEFINE w == Append(history, m)
  <2>1. w \in Seq(Msgs) /\ Len(w) = Len(history) + 1 /\ Len(history) \in Nat /\ w[Len(history) + 1] = m
    BY <1>3, SessionFacts, AppendFacts
  <2> HIDE DEF w
  <2>2. /\ Len(w) \in 1 .. Len(w) /\ Len(w) + turn'[t].got = Len(w)
        /\ w[Len(w)] = Message(t, "call", turn'[t].round, turn'[t].n)
        /\ \A k \in Len(w) + 1 .. Len(w) : w[k].role = "tool"
    BY <1>4, <1>6, <2>1
  <2>3. EndOf(w, t, turn'[t])
    BY <1>4, <2>2 DEF EndOf
  <2> QED
    BY <2>3 DEF w
<1>12. turn[t].at \notin Over
  BY <1>2 DEF Over
<1> QED
  BY <1>1, <1>2, <1>3, <1>4, <1>9, <1>10, <1>11, <1>12, PromptSave

LEMMA PromptResult ==
  ASSUME TurnsInv, PromptInv, NEW t \in Turns, SaveResult(t) PROVE PromptInv'
<1> DEFINE i == turn[t].got + 1
           m == Message(t, "tool", turn[t].round, i)
           p == turn[t].prompt
           at == IF i = turn[t].n THEN "model" ELSE "tools"
           w == Append(history, m)
<1>1. /\ job' = job /\ joint' = joint /\ TurnOK(t) /\ DOMAIN turn = Turns /\ DOMAIN turn[t] = Fields
      /\ SoundOf(t, turn[t]) /\ (Clean => CleanOf(t, turn[t]))
  BY SaveFacts DEF SaveStep
<1>2. /\ turn[t].at = "tools" /\ Save(m)
  BY DEF SaveResult
<1>3. m \in Msgs /\ m.role = "tool" /\ turn[t].got \in Nat /\ turn[t].n \in Nat /\ turn[t].got < turn[t].n
      /\ turn[t].round \in Nat
  <2>1. i \in 0 .. MaxCalls /\ turn[t].got \in Nat /\ turn[t].n \in Nat /\ turn[t].got < turn[t].n
    BY <1>1, <1>2 DEF TurnOK
  <2> QED
    BY <1>1, <2>1 DEF Message, Msgs, TurnOK
<1>4. /\ OneTurn(t) /\ turn'[t].at = at /\ turn'[t].prompt = Append(p, m) /\ turn'[t].round = turn[t].round
      /\ turn'[t].got = i /\ turn'[t].n = turn[t].n
  <2>1. DOMAIN turn = Turns /\ DOMAIN turn[t] = Fields
    BY <1>1
  <2>2. OneTurn(t)
    BY <2>1 DEF SaveResult, OneTurn
  <2>3. turn'[t].at = at /\ turn'[t].round = turn[t].round /\ turn'[t].got = i /\ turn'[t].n = turn[t].n
    BY <2>1 DEF SaveResult, Fields
  <2>4. turn'[t].prompt = Append(p, m)
    BY <2>1 DEF SaveResult, Fields
  <2> QED
    BY <2>2, <2>3, <2>4
<1>5. p \in Seq(Msgs) /\ Opened(p, t, turn[t]) /\ (Clean => Owned(p, Len(p) - turn[t].got - 1)) /\ turn[t].round > 0
  BY <1>1, <1>2 DEF SoundOf, CleanOf
<1>6. m = Message(t, "tool", turn[t].round, turn[t].got + 1)
  OBVIOUS
<1>7. w \in Seq(Msgs) /\ Len(w) = Len(history) + 1 /\ Len(history) \in Nat /\ w[Len(history) + 1] = m
      /\ \A k \in 1 .. Len(history) : w[k] = history[k]
  BY <1>3, SessionFacts, AppendFacts
<1> HIDE DEF p, m, w
<1>8. /\ Opened(Append(p, m), t, turn'[t])
      /\ Owned(p, Len(p) - turn[t].got - 1) => Owned(Append(p, m), Len(p) - turn[t].got - 1)
      /\ turn'[t].got = turn'[t].n => CallsAnswered(Append(p, m))
      /\ turn'[t].got = turn'[t].n /\ Owned(p, Len(p) - turn[t].got - 1) => ResultsCalled(Append(p, m))
  <2>1. /\ turn[t].got \in Nat /\ turn[t].n \in Nat /\ turn[t].got < turn[t].n /\ m \in Msgs
        /\ turn'[t].got = turn[t].got + 1 /\ turn'[t].n = turn[t].n /\ turn'[t].round = turn[t].round
        /\ p \in Seq(Msgs) /\ Opened(p, t, turn[t])
    BY <1>3, <1>4, <1>5, Zenon
  <2> QED
    BY <1>6, <2>1, GrownPrompt, Zenon
<1>9. Append(p, m) \in Seq(Msgs) /\ Len(Append(p, m)) - turn'[t].got - 1 = Len(p) - turn[t].got - 1
  <2>1. Append(p, m) \in Seq(Msgs) /\ Len(Append(p, m)) = Len(p) + 1 /\ Len(p) \in Nat
    BY <1>3, <1>5
  <2>2. turn'[t].got = turn[t].got + 1 /\ turn[t].got \in Nat
    BY <1>3, <1>4
  <2>3. (Len(p) + 1) - (turn[t].got + 1) - 1 = Len(p) - turn[t].got - 1
    BY <2>1, <2>2, SameCallPlace, Zenon
  <2> QED
    BY <2>1, <2>2, <2>3, Zenon
<1>10. SoundOf(t, turn'[t])
  BY <1>4, <1>5, <1>8, <1>9 DEF SoundOf
<1>11. Clean => CleanOf(t, turn'[t])
  BY <1>3, <1>4, <1>5, <1>8, <1>9 DEF CleanOf
<1>12. ASSUME Clean
       PROVE  \/ \E d \in 1 .. Len(history) : /\ d + turn[t].got = Len(history)
                                              /\ history[d] = Message(t, "call", turn[t].round, turn[t].n)
                                              /\ \A k \in d + 1 .. Len(history) : history[k].role = "tool"
              \/ \A k \in 1 .. Len(history) : history[k].role = "tool"
  <2>1. EndOf(history, t, turn[t])
    BY <1>12, CleanFacts
  <2> QED
    BY <1>2, <2>1 DEF EndOf
<1>13. ASSUME Clean
       PROVE  /\ EndOf(w, t, turn'[t])
              /\ \/ \E d \in 1 .. Len(history) : Owner(w, d, Len(history) + 1)
                 \/ \A k \in 1 .. Len(history) : history[k].role = "tool"
  <2>1. CASE \A k \in 1 .. Len(history) : history[k].role = "tool"
    <3>1. \A k \in 1 .. Len(w) : w[k].role = "tool"
      <4> TAKE k \in 1 .. Len(w)
      <4>1. k \in 1 .. Len(history) \/ k = Len(history) + 1
        BY <1>7
      <4> QED
        BY <1>3, <1>7, <2>1, <4>1
    <3>2. EndOf(w, t, turn'[t])
      BY <1>3, <1>4, <1>5, <3>1 DEF EndOf
    <3> QED
      BY <2>1, <3>2
  <2>2. CASE \E d \in 1 .. Len(history) : /\ d + turn[t].got = Len(history)
                                          /\ history[d] = Message(t, "call", turn[t].round, turn[t].n)
                                          /\ \A k \in d + 1 .. Len(history) : history[k].role = "tool"
    <3>1. PICK d \in 1 .. Len(history) : /\ d + turn[t].got = Len(history)
                                         /\ history[d] = Message(t, "call", turn[t].round, turn[t].n)
                                         /\ \A k \in d + 1 .. Len(history) : history[k].role = "tool"
      BY <2>2
    <3>2. \A k \in d + 1 .. Len(w) : w[k].role = "tool"
      <4> TAKE k \in d + 1 .. Len(w)
      <4>1. (k \in d + 1 .. Len(history) /\ k \in 1 .. Len(history)) \/ k = Len(history) + 1
        <5>1. k \in d + 1 .. Len(history) + 1
          BY <1>7, Zenon
        <5> QED
          BY <1>7, <5>1, OneMorePlace, Zenon
      <4> QED
        BY <1>3, <1>7, <3>1, <4>1
    <3>3. /\ d \in 1 .. Len(w) /\ d + turn'[t].got = Len(w)
          /\ w[d] = Message(t, "call", turn'[t].round, turn'[t].n)
      <4>1. d \in 1 .. Len(w) /\ d + (turn[t].got + 1) = Len(w)
        <5>1. d + turn[t].got = Len(history) /\ Len(w) = Len(history) + 1 /\ Len(history) \in Nat
              /\ turn[t].got \in Nat
          BY <1>3, <1>7, <3>1
        <5>2. d \in 1 .. Len(history) + 1 /\ d + (turn[t].got + 1) = Len(history) + 1
          BY <5>1, OneMoreResult, Zenon
        <5> QED
          BY <5>1, <5>2, Zenon
      <4>2. w[d] = Message(t, "call", turn[t].round, turn[t].n)
        BY <1>7, <3>1
      <4> QED
        BY <1>4, <4>1, <4>2
    <3>4. EndOf(w, t, turn'[t])
      <4>1. turn'[t].round # 0
        BY <1>3, <1>4, <1>5
      <4> QED
        BY <3>2, <3>3, <4>1 DEF EndOf
    <3>5. Owner(w, d, Len(history) + 1)
      <4>1. Id(m) \in Ids(w[d]) /\ w[d].role = "call"
        <5>1. m.turn = t /\ m.round = turn[t].round /\ m.n = turn[t].got + 1
          BY <1>6 DEF Message
        <5>2. w[d].turn = t /\ w[d].round = turn[t].round /\ w[d].n = turn[t].n /\ w[d].role = "call"
          BY <1>4, <3>3 DEF Message
        <5>3. m.n \in 1 .. w[d].n
          <6>1. turn[t].got + 1 \in 1 .. turn[t].n
            BY <1>3, NextInCall, Zenon
          <6> QED
            BY <5>1, <5>2, <6>1, Zenon
        <5> QED
          BY <5>1, <5>2, <5>3, IdFacts
      <4> QED
        BY <1>7, <3>2, <4>1 DEF Owner
    <3> QED
      BY <3>4, <3>5
  <2> QED
    BY <1>12, <1>13, <2>1, <2>2
<1>14. turn[t].at \notin Over
  BY <1>2 DEF Over
<1>15. Clean => EndOf(Append(history, m), t, turn'[t])
  BY <1>13 DEF w
<1>16. Clean /\ m.role = "tool" => \/ \E d \in 1 .. Len(history) : Owner(Append(history, m), d, Len(history) + 1)
                                   \/ \A k \in 1 .. Len(history) : history[k].role = "tool"
  BY <1>13 DEF w
<1> QED
  BY <1>1, <1>2, <1>3, <1>4, <1>10, <1>11, <1>14, <1>15, <1>16, PromptSave

\* What is left of a copy.
LEMMA FineKeep ==
  ASSUME TurnsInv, NEW h \in Seq(Msgs), Kept(h), Len(h) > KeepLast, Fine(h, turn) PROVE Fine(Keep(h), turn)
<1> DEFINE o == Len(h) - KeepLast  u == Keep(h)
<1>1. Len(h) \in Nat /\ KeepLast \in Nat /\ KeepLast >= 1 /\ o \in Nat /\ o + KeepLast = Len(h)
  OBVIOUS
<1>2. u \in Seq(Msgs) /\ Len(u) = KeepLast /\ \A i \in 1 .. KeepLast : u[i] = h[o + i]
  BY KeepKept
<1> HIDE DEF o, u
<1>3. /\ \A i \in 1 .. Len(u) : o + i \in 1 .. Len(h) /\ u[i] = h[o + i]
      /\ \A i \in 2 .. Len(u) : o + i \in 1 .. Len(h) /\ u[i] = h[o + i]
      /\ Len(u) >= 1 /\ o + Len(u) = Len(h)
  <2>1. Len(u) \in Nat /\ Len(u) >= 1 /\ o + Len(u) = Len(h)
    BY <1>1, <1>2
  <2>2. \A i \in 1 .. Len(u) : o + i \in 1 .. Len(h)
    BY <1>1, <2>1
  <2>3. \A i \in 1 .. Len(u) : u[i] = h[o + i]
    BY <1>2
  <2>4. \A i \in 2 .. Len(u) : i \in 1 .. Len(u)
    BY <2>1
  <2> QED
    BY <2>1, <2>2, <2>3, <2>4, Zenon
<1>4. u[1] = h[o + 1] /\ o + 1 \in 1 .. Len(h)
  BY <1>1, <1>3
<1>5. Tidy(u)
  BY <1>1, <1>2, <1>3, <1>4, TidyPart DEF Fine
<1>6. ASSUME NEW t \in Turns PROVE EndOf(u, t, turn[t])
  <2>1. turn[t].got \in Nat /\ EndOf(h, t, turn[t])
    BY DEF Fine, TurnsInv, TurnTypes, TurnOK
  <2> QED
    BY <1>1, <1>2, <1>3, <1>4, <2>1, EndPart
<1> QED
  BY <1>5, <1>6 DEF Fine, u

LEMMA HalvedFacts ==
  ASSUME NEW h \in Seq(Msgs), Len(h) > KeepLast, KeepLast >= 1
  PROVE  \E o \in Nat :
           /\ Halved(h) \in Seq(Msgs) /\ Len(Halved(h)) >= 2 /\ o + Len(Halved(h)) = Len(h)
           /\ Halved(h)[1] = h[1] /\ \A i \in 2 .. Len(Halved(h)) : Halved(h)[i] = h[o + i]
<1> DEFINE a == 2 + (Len(h) - 2) \div 2
           tail == SubSeq(h, a, Len(h))
<1>1. Len(h) \in Nat /\ Len(h) >= 2
  OBVIOUS
<1>2. a \in Nat \ {0} /\ a >= 2 /\ a <= Len(h)
  BY <1>1
<1> HIDE DEF a
<1>3. /\ tail \in Seq(Msgs) /\ Len(tail) = Len(h) - a + 1
      /\ \A i \in 1 .. Len(h) - a + 1 : tail[i] = h[a + i - 1]
  BY <1>1, <1>2, SubSeqFacts
<1>4. Head(h) = h[1] /\ h[1] \in Msgs
  BY <1>1
<1>5. /\ Halved(h) \in Seq(Msgs) /\ Len(Halved(h)) = Len(tail) + 1
      /\ Halved(h)[1] = h[1] /\ \A i \in 2 .. Len(tail) + 1 : Halved(h)[i] = tail[i - 1]
  <2>1. Halved(h) = <<Head(h)>> \o tail
    BY DEF Halved, a
  <2> HIDE DEF tail
  <2> QED
    BY <1>3, <1>4, <2>1, ConsFacts
<1> HIDE DEF tail
<1>6. a - 2 \in Nat /\ a - 2 + Len(Halved(h)) = Len(h) /\ Len(Halved(h)) >= 2
  BY <1>1, <1>2, <1>3, <1>5
<1>7. ASSUME NEW i \in 2 .. Len(Halved(h)) PROVE Halved(h)[i] = h[a - 2 + i]
  <2>1. i - 1 \in 1 .. Len(h) - a + 1 /\ a + (i - 1) - 1 = a - 2 + i
    BY <1>1, <1>2, <1>3, <1>5
  <2> QED
    BY <1>3, <1>5, <2>1
<1> QED
  BY <1>5, <1>6, <1>7

LEMMA FineHalved ==
  ASSUME TurnsInv, NEW h \in Seq(Msgs), Len(h) > KeepLast, Fine(h, turn), \A t \in Turns : turn[t].at # "tools"
  PROVE  Fine(Halved(h), turn)
<1> DEFINE u == Halved(h)
<1>1. PICK o \in Nat : /\ u \in Seq(Msgs) /\ Len(u) >= 2 /\ o + Len(u) = Len(h)
                       /\ u[1] = h[1] /\ \A i \in 2 .. Len(u) : u[i] = h[o + i]
  <2>1. KeepLast >= 1
    OBVIOUS
  <2> QED
    BY <2>1, HalvedFacts
<1> HIDE DEF u
<1>2. Len(h) \in Nat /\ Len(u) \in Nat /\ 1 \in 1 .. Len(h) /\ Len(u) >= 1
      /\ \A i \in 2 .. Len(u) : o + i \in 1 .. Len(h)
  BY <1>1
<1>3. Tidy(u)
  BY <1>1, <1>2, TidyPart DEF Fine
<1>4. ASSUME NEW t \in Turns PROVE EndOf(u, t, turn[t])
  <2>1. turn[t].got \in Nat /\ EndOf(h, t, turn[t])
    BY DEF Fine, TurnsInv, TurnTypes, TurnOK
  <2> QED
    BY <1>1, <1>2, <2>1, EndPart
<1> QED
  BY <1>3, <1>4 DEF Fine, u

\* Turns stand still, and copies are taken of the history or dropped.
LEMMA PromptCopy ==
  ASSUME TurnsInv, PromptInv, turn' = turn, joint' = joint, late' = late,
         \A p \in Jobs : job'[p].snap \in {<<>>, history, job[p].snap},
         Clean => Fine(history', turn)
  PROVE  PromptInv'
<1>1. ASSUME Clean, NEW p \in Jobs PROVE job'[p].snap = <<>> \/ Fine(job'[p].snap, turn)
  <2>1. Fine(history, turn) /\ (job[p].snap # <<>> => Fine(job[p].snap, turn))
    BY <1>1, CleanFacts
  <2> QED
    BY <2>1
<1> QED
  BY <1>1, PromptJob

LEMMA PromptHalve == ASSUME TurnsInv, PromptInv, NEW t \in Turns, Halve(t) PROVE PromptInv'
<1>1. /\ job[t].at = "halve" /\ job' = [job EXCEPT ![t] = Idle] /\ history' = Halved(job[t].snap)
      /\ turn' = turn /\ joint' = joint /\ late' = late
  BY DEF Halve
<1>2. t \in Jobs /\ job \in [Jobs -> JobRecords] /\ Len(job[t].snap) > KeepLast /\ turn[t].at = "compress"
  BY <1>1 DEF Jobs, TurnsInv, JobTypes
<1>3. \A p \in Jobs : job'[p].snap \in {<<>>, history, job[p].snap}
  BY <1>1, <1>2, IdleType
<1>4. ASSUME Clean PROVE Fine(history', turn)
  <2> DEFINE h == job[t].snap
  <2>1. h \in Seq(Msgs) /\ Len(h) > KeepLast
    BY <1>2, SessionFacts
  <2> HIDE DEF h
  <2>2. h # <<>>
    BY <2>1
  <2>3. Fine(h, turn)
    BY <1>2, <1>4, <2>2, CleanFacts DEF h
  <2>4. \A u \in Turns : turn[u].at # "tools"
    <3> TAKE u \in Turns
    <3>1. u # t => turn[u].at \in Over
      BY <1>2, <1>4, OthersRest DEF Clean, PromptInv, Over
    <3> QED
      BY <1>2, <3>1 DEF Over
  <2>5. Fine(Halved(h), turn)
    BY <2>1, <2>3, <2>4, FineHalved
  <2> QED
    BY <1>1, <2>5 DEF h
<1> QED
  BY <1>1, <1>3, <1>4, PromptCopy

LEMMA PromptCompactor == ASSUME TurnsInv, PromptInv, NEW p \in Jobs, CompactorStep(p) PROVE PromptInv'
<1>1. job \in [Jobs -> JobRecords] /\ turn' = turn /\ joint' = joint /\ late' = late
  BY DEF TurnsInv, JobTypes, CompactorStep, CompactModel, CompactFails, Cut, Tell, ghosts
<1>2. Clean => Fine(history, turn)
  BY CleanFacts
<1>3. CASE CompactModel(p)
  <2>1. PICK l2 : job' = [job EXCEPT ![p].at = "cut", ![p].told = l2]
    BY <1>3 DEF CompactModel
  <2>2. history' = history
    BY <1>3 DEF CompactModel
  <2>3. \A q \in Jobs : job'[q].snap = job[q].snap
    BY <1>1, <2>1 DEF JobRecords
  <2> QED
    BY <1>1, <1>2, <2>2, <2>3, PromptCopy
<1>4. CASE CompactFails(p)
  <2>1. job' = [job EXCEPT ![p] = IF p \in Turns THEN Start("halve") ELSE Idle] /\ history' = history
    BY <1>4 DEF CompactFails, session
  <2>2. Start("halve").snap \in {<<>>, history} /\ Idle.snap = <<>>
    BY DEF Start, Idle
  <2>3. \A q \in Jobs : job'[q].snap \in {<<>>, history, job[q].snap}
    BY <1>1, <2>1, <2>2
  <2> QED
    BY <1>1, <1>2, <2>1, <2>3, PromptCopy
<1>5. CASE Cut(p)
  <2>1. job' = [job EXCEPT ![p].at = "tell"]
        /\ history' = IF Len(job[p].snap) > KeepLast THEN Keep(job[p].snap) ELSE history
    BY <1>5 DEF Cut
  <2>2. \A q \in Jobs : job'[q].snap = job[q].snap
    BY <1>1, <2>1 DEF JobRecords
  <2>3. ASSUME Clean, Len(job[p].snap) > KeepLast PROVE Fine(Keep(job[p].snap), turn)
    <3> DEFINE h == job[p].snap
    <3>1. h \in Seq(Msgs) /\ Kept(h) /\ Len(h) > KeepLast
      BY <2>3, SessionFacts
    <3> HIDE DEF h
    <3>2. h # <<>>
      BY <3>1
    <3>3. Fine(h, turn)
      BY <2>3, <3>2, CleanFacts DEF h
    <3>4. Fine(Keep(h), turn)
      BY <3>1, <3>3, FineKeep
    <3> QED
      BY <3>4 DEF h
  <2>4. Clean => Fine(history', turn)
    BY <1>2, <2>1, <2>3
  <2> QED
    BY <1>1, <2>2, <2>4, PromptCopy
<1>6. CASE Tell(p)
  <2>1. job' = [job EXCEPT ![p] = Idle] /\ history' = history
    BY <1>6 DEF Tell
  <2>2. \A q \in Jobs : job'[q].snap \in {<<>>, history, job[q].snap}
    BY <1>1, <2>1, IdleType
  <2> QED
    BY <1>1, <1>2, <2>1, <2>2, PromptCopy
<1> QED
  BY <1>3, <1>4, <1>5, <1>6 DEF CompactorStep

LEMMA PromptSummary == ASSUME TurnsInv, PromptInv, Snapshot \/ SetSummary \/ Truncate PROVE PromptInv'
<1>1. job \in [Jobs -> JobRecords] /\ turn' = turn /\ joint' = joint /\ late' = late
  BY DEF TurnsInv, JobTypes, Snapshot, SetSummary, Truncate, ghosts
<1>2. Clean => Fine(history, turn)
  BY CleanFacts
<1>3. CASE Snapshot
  <2> DEFINE new == IF compactor THEN [at |-> "compact", snap |-> history, told |-> {}]
                    ELSE IF Len(history) <= KeepLast \/ Valid(history) = {} THEN Idle
                    ELSE [at |-> "summarize", snap |-> history, told |-> summary]
  <2>1. new.snap \in {<<>>, history}
    BY DEF Idle
  <2>2. job' = [job EXCEPT ![Summariser] = new] /\ history' = history
    BY <1>3 DEF Snapshot, session
  <2> HIDE DEF new
  <2>3. \A q \in Jobs : job'[q].snap \in {<<>>, history, job[q].snap}
    BY <1>1, <2>1, <2>2
  <2> QED
    BY <1>1, <1>2, <2>2, <2>3, PromptCopy
<1>4. CASE SetSummary
  <2>1. job' = [job EXCEPT ![Summariser].at = "truncate"] /\ history' = history
    BY <1>4 DEF SetSummary
  <2>2. \A q \in Jobs : job'[q].snap = job[q].snap
    BY <1>1, <2>1 DEF JobRecords
  <2> QED
    BY <1>1, <1>2, <2>1, <2>2, PromptCopy
<1>5. CASE Truncate
  <2>1. job' = [job EXCEPT ![Summariser] = Idle]
        /\ history' = IF Len(history) > KeepLast THEN Keep(history) ELSE history
    BY <1>5 DEF Truncate
  <2>2. \A q \in Jobs : job'[q].snap \in {<<>>, history, job[q].snap}
    BY <1>1, <2>1, IdleType
  <2>3. Clean => Fine(history', turn)
    BY <1>2, <2>1, FineKeep, SessionFacts
  <2> QED
    BY <1>1, <2>2, <2>3, PromptCopy
<1> QED
  BY <1>3, <1>4, <1>5

LEMMA PromptCrash == ASSUME TurnsInv, PromptInv, Crash PROVE PromptInv'
<1>1. /\ turn' = [t \in Turns |-> IF t \in Active THEN [NoTurn EXCEPT !.at = "dead"] ELSE turn[t]]
      /\ job' = [p \in DOMAIN job |-> Idle] /\ history' = history /\ joint' = joint /\ late' = late
  BY DEF Crash, session, ghosts
<1>2. \A t \in Turns : turn'[t].at \in Over /\ turn'[t].prompt \in Seq(Msgs)
  <2> TAKE t \in Turns
  <2>1. CASE t \in Active
    <3>1. turn'[t].at = "dead" /\ turn'[t].prompt = <<>>
      BY <1>1, <2>1 DEF NoTurn
    <3> QED
      BY <3>1 DEF Over
  <2>2. CASE t \notin Active
    BY <1>1, <2>2 DEF Active, PromptInv, SoundOf
  <2> QED
    BY <2>1, <2>2
<1>3. \A t \in Turns : SoundOf(t, turn'[t]) /\ CleanOf(t, turn'[t])
  BY <1>2 DEF SoundOf, CleanOf, Over
<1>4. Alone'
  BY <1>2 DEF Alone, Active
<1>5. ASSUME Clean' PROVE SessionFine'
  <2>1. Tidy(history)
    BY <1>1, <1>5, CleanFacts DEF Clean
  <2>2. \A t \in Turns : EndOf(history, t, turn'[t])
    BY <1>2, RestEnd DEF Over
  <2>3. \A p \in Jobs : job'[p].snap = <<>>
    BY <1>1, IdleType DEF TurnsInv, JobTypes
  <2> QED
    BY <1>1, <2>1, <2>2, <2>3 DEF SessionFine, Fine
<1> QED
  BY <1>3, <1>4, <1>5, Zenon DEF PromptInv

LEMMA PromptStill ==
  ASSUME TurnsInv, PromptInv, UNCHANGED <<turn, job, history, joint, late>> PROVE PromptInv'
BY CleanFacts, PromptCopy

LEMMA PromptStep == TurnsInv /\ PromptInv /\ [Next]_vars => PromptInv'
<1> SUFFICES ASSUME TurnsInv, PromptInv, [Next]_vars PROVE PromptInv'
  OBVIOUS
<1>1. ASSUME NEW t \in Turns, TurnStep(t) PROVE PromptInv'
  <2>1. CASE SendMessage(t)
    BY <2>1, PromptStill DEF SendMessage, session, ghosts
  <2>2. CASE \E n \in 1 .. MaxCalls : AskTools(t, n)
    BY <2>2, PromptAsk
  <2>3. CASE ReadHistory(t) \/ TimeOut(t) \/ Refuse(t) \/ Rebuild(t)
    BY <2>3, PromptRead, PromptTimeOut, PromptRefuse, PromptRebuild
  <2>4. CASE SkipInternal(t) \/ HandleCommand(t) \/ Answer(t) \/ Fail(t) \/ Respond(t) \/ MaybeSummarize(t)
    BY <2>4, PromptMove
  <2>5. CASE SaveUser(t) \/ SaveResult(t) \/ SaveAnswer(t) \/ Halve(t)
    BY <2>5, PromptUser, PromptResult, PromptAnswer, PromptHalve
  <2>6. CASE ClearHistory(t) \/ ClearSummary(t)
    BY <2>6, PromptClear
  <2> QED
    BY <1>1, <2>1, <2>2, <2>3, <2>4, <2>5, <2>6 DEF TurnStep
<1>2. ASSUME NEW p \in Jobs, CompactorStep(p) PROVE PromptInv'
  BY <1>2, PromptCompactor
<1>3. CASE Snapshot \/ SetSummary \/ Truncate
  BY <1>3, PromptSummary
<1>4. CASE HeartbeatSends
  BY <1>4, PromptStill DEF HeartbeatSends, session, ghosts
<1>5. CASE Crash
  BY <1>5, PromptCrash
<1>6. CASE UNCHANGED vars
  BY <1>6, PromptStill DEF vars
<1> QED
  BY <1>1, <1>2, <1>3, <1>4, <1>5, <1>6 DEF Next, Jobs

\* Every prompt that a turn sends to the model is sound, for any number of turns,
\* rounds, calls, retries, compressions, crashes and any length of what a
\* compression keeps.
THEOREM PromptsSound == Spec => []PromptIsSound
<1>1. Spec => []PromptInv
  BY PromptInit, PromptStep, TurnsInvHolds, PTL DEF Spec
<1> QED
  BY <1>1, PromptInvGives, PTL

=============================================================================
