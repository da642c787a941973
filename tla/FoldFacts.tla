----------------------------- MODULE FoldFacts ------------------------------
(***************************************************************************)
(* Induction over the naturals by sets, and what it gives for the folds of *)
(* the community modules, checked by TLAPS.                                *)
(***************************************************************************)
EXTENDS Naturals, Sequences, SequencesExt, SequenceTheorems, WellFoundedInduction, TLAPS

-----------------------------------------------------------------------------
(* Induction *)

\* A nonempty set of naturals has a least element.
LEMMA LeastNatural ==
  ASSUME NEW S \in SUBSET Nat, S # {}
  PROVE  \E n \in S : \A m \in S : n <= m
<1> DEFINE R == OpToRel(<, Nat)
<1>1. IsWellFoundedOn(R, Nat)
  BY NatLessThanWellFounded
<1>2. \A m, n \in Nat : m < n => <<m, n>> \in R
  BY DEF OpToRel
<1> HIDE DEF R
<1>3. PICK n \in S : \A m \in S : <<m, n>> \notin R
  BY <1>1, WFMin
<1>4. \A m \in S : ~(m < n)
  BY <1>2, <1>3
<1>5. \A m \in S : n <= m
  BY <1>4
<1> QED  BY <1>5

\* A set of naturals that holds 0 and every successor holds them all.
LEMMA InductiveSet ==
  ASSUME NEW S \in SUBSET Nat, 0 \in S, \A n \in S : n + 1 \in S
  PROVE  \A n \in Nat : n \in S
<1> SUFFICES ASSUME Nat \ S # {}  PROVE FALSE
  OBVIOUS
<1>1. PICK n \in Nat \ S : \A m \in Nat \ S : n <= m
  BY LeastNatural
<1>2. n - 1 \in S
  BY <1>1
<1> QED  BY <1>1, <1>2

-----------------------------------------------------------------------------
(* Folds *)

\* acc runs from base through n steps; step[i] is a function on V.
Runs(acc, n, V, base, step) ==
  /\ acc[0] = base
  /\ \A i \in 1..n : acc[i - 1] \in V => acc[i] = step[i][acc[i - 1]]

\* What the folds compute, by subsets of the indices.
RunsOnSets(g, n, V, base, step) ==
  /\ g[{}] = base
  /\ \A t \in SUBSET (1..n) :
       t # {} /\ g[t \ {Max(t)}] \in V => g[t] = step[Max(t)][g[t \ {Max(t)}]]

\* The run of a sequence of steps exists,
LEMMA RunExists ==
  ASSUME NEW n \in Nat, NEW V, NEW base \in V, NEW step \in [1..n -> [V -> V]]
  PROVE  \E acc \in [0..n -> V] : Runs(acc, n, V, base, step)
<1> DEFINE S == {m \in Nat : m <= n => \E acc \in [0..m -> V] : Runs(acc, m, V, base, step)}
<1>1. 0 \in S
  <2>1. [i \in 0..0 |-> base] \in [0..0 -> V] /\ Runs([i \in 0..0 |-> base], 0, V, base, step)
    BY DEF Runs
  <2> QED  BY <2>1
<1>2. ASSUME NEW m \in S  PROVE m + 1 \in S
  <2> SUFFICES ASSUME m + 1 <= n
               PROVE  \E acc \in [0..(m + 1) -> V] : Runs(acc, m + 1, V, base, step)
    OBVIOUS
  <2>1. PICK acc \in [0..m -> V] : Runs(acc, m, V, base, step)
    OBVIOUS
  <2> DEFINE next == [i \in 0..(m + 1) |-> IF i = m + 1 THEN step[m + 1][acc[m]] ELSE acc[i]]
  <2>2. acc[m] \in V /\ step[m + 1] \in [V -> V]
    OBVIOUS
  <2>3. next \in [0..(m + 1) -> V]
    BY <2>2
  <2>4. \A i \in 1..(m + 1) : next[i - 1] = acc[i - 1]
    OBVIOUS
  <2>5. Runs(next, m + 1, V, base, step)
    <3>1. next[0] = base
      BY <2>1 DEF Runs
    <3>2. \A i \in 1..(m + 1) : next[i] = step[i][next[i - 1]]
      BY <2>1, <2>4 DEF Runs
    <3> QED  BY <3>1, <3>2 DEF Runs
  <2> QED  BY <2>3, <2>5
<1> HIDE DEF S
<1>3. n \in S
  BY <1>1, <1>2, InductiveSet DEF S
<1> QED  BY <1>3 DEF S

\* and two runs agree as far as their steps do, and stay in V.
LEMMA RunUnique ==
  ASSUME NEW n \in Nat, NEW V, NEW base \in V, NEW a, NEW b, NEW s, NEW t,
         \A i \in 1..n : s[i] \in [V -> V] /\ s[i] = t[i],
         Runs(a, n, V, base, s), Runs(b, n, V, base, t)
  PROVE  \A i \in 0..n : a[i] = b[i] /\ a[i] \in V
<1> DEFINE S == {m \in Nat : m <= n => a[m] = b[m] /\ a[m] \in V}
<1>1. 0 \in S
  BY DEF Runs
<1>2. ASSUME NEW m \in S  PROVE m + 1 \in S
  <2> SUFFICES ASSUME m + 1 <= n  PROVE a[m + 1] = b[m + 1] /\ a[m + 1] \in V
    OBVIOUS
  <2>1. m + 1 \in 1..n /\ (m + 1) - 1 = m /\ a[m] = b[m] /\ a[m] \in V
    OBVIOUS
  <2>2. a[m + 1] = s[m + 1][a[m]] /\ b[m + 1] = t[m + 1][b[m]]
    BY <2>1 DEF Runs
  <2>3. s[m + 1] \in [V -> V] /\ s[m + 1] = t[m + 1]
    BY <2>1
  <2> QED  BY <2>1, <2>2, <2>3
<1> HIDE DEF S
<1>3. \A m \in Nat : m \in S
  BY <1>1, <1>2, InductiveSet DEF S
<1> QED  BY <1>3 DEF S

\* Max is the largest element of a set that has one,
LEMMA MaxIs ==
  ASSUME NEW S \in SUBSET Nat, NEW x \in S, \A y \in S : y <= x
  PROVE  Max(S) = x
<1>1. \A z \in S : (\A y \in S : z >= y) => z = x
  OBVIOUS
<1>2. \A y \in S : x >= y
  OBVIOUS
<1> QED  BY <1>1, <1>2 DEF Max

\* as every nonempty set of indices does.
LEMMA LargestIndex ==
  ASSUME NEW n \in Nat, NEW S \in SUBSET (1..n), S # {}
  PROVE  \E x \in S : \A y \in S : y <= x
<1> DEFINE D == {m \in Nat : n - m \in S}
<1>1. D # {}
  <2>1. PICK x \in S : TRUE
    OBVIOUS
  <2>2. n - x \in D
    OBVIOUS
  <2> QED  BY <2>2
<1>2. PICK m \in D : \A k \in D : m <= k
  BY <1>1, LeastNatural
<1>3. \A y \in S : y <= n - m
  <2> TAKE y \in S
  <2>1. y \in Nat /\ n - y \in Nat /\ n - (n - y) = y
    OBVIOUS
  <2>2. n - y \in D
    BY <2>1
  <2>3. m \in Nat /\ m <= n - y
    BY <1>2, <2>2
  <2> QED  BY <2>1, <2>3
<1>4. n - m \in S
  BY <1>2
<1> QED  BY <1>3, <1>4

LEMMA MaxExists ==
  ASSUME NEW n \in Nat, NEW S \in SUBSET (1..n), S # {}
  PROVE  Max(S) \in S /\ Max(S) \in 1..n
<1>1. PICK x \in S : \A y \in S : y <= x
  BY LargestIndex
<1>2. S \in SUBSET Nat
  OBVIOUS
<1>3. Max(S) = x
  BY <1>1, <1>2, MaxIs
<1> QED  BY <1>3

\* The function that a fold chooses exists.
LEMMA FoldExists ==
  ASSUME NEW n \in Nat, NEW V, NEW base \in V, NEW step \in [1..n -> [V -> V]]
  PROVE  \E g \in [SUBSET (1..n) -> V] : RunsOnSets(g, n, V, base, step)
<1> DEFINE Exists(m) == \E g \in [SUBSET (1..m) -> V] : RunsOnSets(g, m, V, base, step)
           S == {m \in Nat : m <= n => Exists(m)}
<1>1. 0 \in S
  <2> DEFINE g == [t \in SUBSET (1..0) |-> base]
  <2>1. SUBSET (1..0) = {{}}
    OBVIOUS
  <2>2. g \in [SUBSET (1..0) -> V] /\ RunsOnSets(g, 0, V, base, step)
    BY <2>1 DEF RunsOnSets
  <2> QED  BY <2>2
<1>2. ASSUME NEW m \in S  PROVE m + 1 \in S
  <2> HIDE DEF Exists
  <2> SUFFICES ASSUME m + 1 <= n  PROVE Exists(m + 1)
    OBVIOUS
  <2>0. m \in Nat /\ m <= n /\ Exists(m)
    OBVIOUS
  <2>1. PICK g \in [SUBSET (1..m) -> V] : RunsOnSets(g, m, V, base, step)
    BY <2>0 DEF Exists
  <2> DEFINE next == [t \in SUBSET (1..(m + 1)) |->
                        IF m + 1 \in t THEN step[m + 1][g[t \ {m + 1}]] ELSE g[t]]
  <2>2. \A t \in SUBSET (1..(m + 1)) :
          /\ t \ {m + 1} \in SUBSET (1..m)
          /\ m + 1 \notin t => t \in SUBSET (1..m)
    BY <2>0
  <2>3. step[m + 1] \in [V -> V]
    OBVIOUS
  <2>4. next \in [SUBSET (1..(m + 1)) -> V]
    BY <2>2, <2>3
  <2>5. ASSUME NEW t \in SUBSET (1..(m + 1)), t # {}
        PROVE  next[t] = step[Max(t)][next[t \ {Max(t)}]]
    <3>1. CASE m + 1 \in t
      <4>1. Max(t) = m + 1
        BY <3>1, MaxIs
      <4>2. next[t \ {m + 1}] = g[t \ {m + 1}]
        BY <2>2
      <4> QED  BY <3>1, <4>1, <4>2
    <3>2. CASE m + 1 \notin t
      <4>1. t \in SUBSET (1..m) /\ t \ {Max(t)} \in SUBSET (1..m)
        BY <2>2, <3>2
      <4>2. next[t] = g[t]
        BY <3>2
      <4>3. next[t \ {Max(t)}] = g[t \ {Max(t)}]
        BY <3>2, <4>1
      <4> QED  BY <2>1, <2>5, <4>1, <4>2, <4>3 DEF RunsOnSets
    <3> QED  BY <3>1, <3>2
  <2>6. next[{}] = base
    BY <2>1 DEF RunsOnSets
  <2>7. RunsOnSets(next, m + 1, V, base, step)
    BY <2>5, <2>6 DEF RunsOnSets
  <2> QED  BY <2>4, <2>7 DEF Exists
<1> HIDE DEF Exists, S
<1>3. n \in S
  <2>1. S \in SUBSET Nat
    BY DEF S
  <2> QED  BY <1>1, <1>2, <2>1, InductiveSet
<1>4. Exists(n)
  BY <1>3 DEF S
<1> QED  BY <1>4 DEF Exists

\* On the prefixes of the indices it is the run of the steps.
LEMMA FoldIsRun ==
  ASSUME NEW n \in Nat, NEW V, NEW base, NEW g, NEW step, RunsOnSets(g, n, V, base, step)
  PROVE  Runs([i \in 0..n |-> g[1..i]], n, V, base, step)
<1> DEFINE acc == [i \in 0..n |-> g[1..i]]
<1>1. acc[0] = base
  BY DEF RunsOnSets
<1>2. ASSUME NEW i \in 1..n, acc[i - 1] \in V  PROVE acc[i] = step[i][acc[i - 1]]
  <2>1. Max(1..i) = i
    BY MaxIs
  <2>2. 1..i # {} /\ 1..i \in SUBSET (1..n)
    BY i \in 1..i
  <2>3. (1..i) \ {i} = 1..(i - 1)
    OBVIOUS
  <2>4. acc[i - 1] = g[1..(i - 1)]
    OBVIOUS
  <2>5. g[1..i] = step[i][g[1..(i - 1)]]
    <3> DEFINE t == 1..i
    <3>1. t # {} /\ t \in SUBSET (1..n) /\ Max(t) = i /\ g[t \ {Max(t)}] \in V
      BY <1>2, <2>1, <2>2, <2>3, <2>4
    <3> HIDE DEF t
    <3>2. g[t] = step[Max(t)][g[t \ {Max(t)}]]
      BY <3>1 DEF RunsOnSets
    <3> QED  BY <2>1, <2>3, <3>2 DEF t
  <2> QED  BY <2>5
<1> QED  BY <1>1, <1>2 DEF Runs

\* A fold over a sequence of n elements is the last state of a run.
Result(v, n, V, base, step) ==
  \E acc \in [0..n -> V] : Runs(acc, n, V, base, step) /\ v = acc[n]

LEMMA FoldRuns ==
  ASSUME NEW n \in Nat, NEW V, NEW base \in V, NEW step,
         \A i \in 1..n : step[i] \in [V -> V],
         NEW g, RunsOnSets(g, n, V, base, step)
  PROVE  Result(g[1..n], n, V, base, step)
<1> DEFINE acc == [i \in 0..n |-> g[1..i]]
<1>1. Runs(acc, n, V, base, step)
  BY FoldIsRun
<1>2. acc[n] = g[1..n] /\ DOMAIN acc = 0..n
  OBVIOUS
<1> HIDE DEF acc
<1>3. \A i \in 0..n : acc[i] \in V
  BY <1>1, RunUnique
<1>4. acc \in [0..n -> V]
  <2>1. acc = [i \in 0..n |-> acc[i]]
    BY DEF acc
  <2> QED  BY <1>3, <2>1
<1> QED  BY <1>1, <1>2, <1>4 DEF Result

\* A run of one step more takes that step from the result of the shorter run.
LEMMA ResultExtends ==
  ASSUME NEW n \in Nat, NEW V, NEW base \in V, NEW s, NEW t,
         \A i \in 1..n : s[i] \in [V -> V] /\ s[i] = t[i],
         NEW v, Result(v, n, V, base, s),
         NEW w, Result(w, n + 1, V, base, t)
  PROVE  w = t[n + 1][v] /\ v \in V
<1>1. PICK a \in [0..n -> V] : Runs(a, n, V, base, s) /\ v = a[n]
  BY DEF Result
<1>2. PICK b \in [0..(n + 1) -> V] : Runs(b, n + 1, V, base, t) /\ w = b[n + 1]
  BY DEF Result
<1>3. Runs(b, n, V, base, t)
  <2>1. \A i \in 1..n : i \in 1..(n + 1)
    OBVIOUS
  <2> QED  BY <1>2, <2>1 DEF Runs
<1>4. \A i \in 0..n : a[i] = b[i] /\ a[i] \in V
  BY <1>1, <1>3, RunUnique
<1>5. a[n] = b[n] /\ b[n] \in V
  BY <1>4
<1>6. n + 1 \in 1..(n + 1) /\ (n + 1) - 1 = n
  OBVIOUS
<1>7. b[n + 1] = t[n + 1][b[n]]
  BY <1>2, <1>5, <1>6 DEF Runs
<1> QED  BY <1>1, <1>2, <1>5, <1>7

-----------------------------------------------------------------------------
(* Sequences *)

\* A function on 1..n is a sequence.
LEMMA FunctionIsSequence ==
  ASSUME NEW V, NEW n \in Nat, NEW f, f = [k \in 1..n |-> f[k]], \A k \in 1..n : f[k] \in V
  PROVE  f \in Seq(V) /\ Len(f) = n
OBVIOUS

-----------------------------------------------------------------------------
(* FlattenSeq *)

\* Its steps: each sequence is put behind those before it.
Concats(V, ss) == [i \in 1..Len(ss) |-> [v \in Seq(V) |-> v \o ss[i]]]

LEMMA FlattenRuns ==
  ASSUME NEW V, NEW ss \in Seq(Seq(V))
  PROVE  Result(FlattenSeq(ss), Len(ss), Seq(V), <<>>, Concats(V, ss))
<1> DEFINE n == Len(ss)
           W == Seq(V)
           step == Concats(V, ss)
           IsFlatten(f) == f = [i \in 1..n |-> IF i = 1 THEN ss[i] ELSE f[i - 1] \o ss[i]]
<1>1. n \in Nat /\ <<>> \in W /\ \A i \in 1..n : ss[i] \in W
  OBVIOUS
<1>2. step \in [1..n -> [W -> W]]
  <2>1. \A i \in 1..n : \A v \in W : v \o ss[i] \in W
    BY <1>1
  <2> QED  BY <2>1 DEF Concats
<1>3. \A i \in 1..n : \A v \in W : step[i][v] = v \o ss[i]
  BY DEF Concats
<1> HIDE DEF W, step
<1>4. PICK acc \in [0..n -> W] : Runs(acc, n, W, <<>>, step)
  BY <1>1, <1>2, RunExists
<1>5. /\ acc[0] = <<>>
      /\ \A i \in 1..n : acc[i] = acc[i - 1] \o ss[i]
  <2>1. \A i \in 1..n : acc[i - 1] \in W
    BY <1>1
  <2> QED  BY <1>3, <1>4, <2>1 DEF Runs
<1>6. n # 0 => acc[1] = ss[1]
  <2> SUFFICES ASSUME n # 0  PROVE acc[1] = ss[1]
    OBVIOUS
  <2>1. 1 \in 1..n /\ 1 - 1 = 0
    BY <1>1
  <2>2. acc[1] = <<>> \o ss[1]
    BY <1>5, <2>1
  <2>3. ss[1] \in W
    BY <1>1, <2>1
  <2> QED  BY <2>2, <2>3, ConcatEmptySeq DEF W
<1>7. \E f : IsFlatten(f)
  <2> DEFINE f == [i \in 1..n |-> acc[i]]
  <2>1. ASSUME NEW i \in 1..n  PROVE f[i] = IF i = 1 THEN ss[i] ELSE f[i - 1] \o ss[i]
    <3>1. CASE i = 1
      BY <1>1, <1>6, <3>1
    <3>2. CASE i # 1
      <4>1. i - 1 \in 1..n
        BY <1>1, <3>2
      <4> QED  BY <1>5, <3>2, <4>1
    <3> QED  BY <3>1, <3>2
  <2>2. f = [i \in 1..n |-> f[i]]
    OBVIOUS
  <2> HIDE DEF f
  <2>3. IsFlatten(f)
    BY <2>1, <2>2
  <2> QED  BY <2>3
<1> DEFINE flatten == CHOOSE f : IsFlatten(f)
<1>8. IsFlatten(flatten)
  BY <1>7
<1>9. FlattenSeq(ss) = IF n = 0 THEN ss ELSE flatten[n]
  BY DEF FlattenSeq
<1> HIDE DEF IsFlatten, flatten
<1>10. \A i \in 1..n : flatten[i] = acc[i]
  <2> DEFINE S == {m \in Nat : m \in 1..n => flatten[m] = acc[m]}
  <2>1. 0 \in S
    OBVIOUS
  <2>2. ASSUME NEW m \in S  PROVE m + 1 \in S
    <3> SUFFICES ASSUME m + 1 \in 1..n  PROVE flatten[m + 1] = acc[m + 1]
      OBVIOUS
    <3>1. flatten[m + 1] = IF m + 1 = 1 THEN ss[m + 1] ELSE flatten[(m + 1) - 1] \o ss[m + 1]
      BY <1>8 DEF IsFlatten
    <3>2. CASE m = 0
      BY <1>1, <1>6, <3>1, <3>2
    <3>3. CASE m # 0
      <4>1. m \in 1..n /\ (m + 1) - 1 = m /\ m + 1 # 1
        BY <1>1, <3>3
      <4>2. flatten[m] = acc[m]
        BY <4>1
      <4>3. acc[m + 1] = acc[m] \o ss[m + 1]
        BY <1>5, <4>1
      <4> QED  BY <3>1, <4>1, <4>2, <4>3
    <3> QED  BY <3>2, <3>3
  <2> HIDE DEF S
  <2>3. \A m \in Nat : m \in S
    <3>1. S \in SUBSET Nat
      BY DEF S
    <3> QED  BY <2>1, <2>2, <3>1, InductiveSet
  <2> QED  BY <1>1, <2>3 DEF S
<1>11. FlattenSeq(ss) = acc[n]
  <2>1. CASE n = 0
    BY <1>5, <1>9, <2>1, EmptySeq
  <2>2. CASE n # 0
    BY <1>1, <1>9, <1>10, <2>2
  <2> QED  BY <2>1, <2>2
<1> QED  BY <1>4, <1>11 DEF Result, W, step

\* Flattened, a sequence appended is put behind the others.
LEMMA FlattenAppend ==
  ASSUME NEW V, NEW ss \in Seq(Seq(V)), NEW s \in Seq(V)
  PROVE  FlattenSeq(Append(ss, s)) = FlattenSeq(ss) \o s /\ FlattenSeq(ss) \in Seq(V)
<1> DEFINE n == Len(ss)
           tt == Append(ss, s)
           W == Seq(V)
<1>1. /\ n \in Nat /\ <<>> \in W /\ tt \in Seq(Seq(V)) /\ Len(tt) = n + 1
      /\ tt[n + 1] = s /\ \A i \in 1..n : tt[i] = ss[i] /\ ss[i] \in W
  OBVIOUS
<1> HIDE DEF tt
<1>2. /\ Result(FlattenSeq(ss), n, W, <<>>, Concats(V, ss))
      /\ Result(FlattenSeq(tt), n + 1, W, <<>>, Concats(V, tt))
  BY <1>1, FlattenRuns
<1>3. \A i \in 1..n : /\ Concats(V, ss)[i] \in [W -> W]
                      /\ Concats(V, ss)[i] = Concats(V, tt)[i]
  <2> TAKE i \in 1..n
  <2>1. i \in 1..(n + 1)
    BY <1>1
  <2>2. \A v \in W : v \o ss[i] \in W
    BY <1>1
  <2>3. Concats(V, ss)[i] = [v \in W |-> v \o ss[i]]
    BY DEF Concats
  <2>4. Concats(V, tt)[i] = [v \in W |-> v \o tt[i]]
    BY <1>1, <2>1 DEF Concats
  <2> QED  BY <1>1, <2>2, <2>3, <2>4
<1>4. \A v \in W : Concats(V, tt)[n + 1][v] = v \o s
  <2>1. n + 1 \in 1..(n + 1)
    BY <1>1
  <2> QED  BY <1>1, <2>1 DEF Concats
<1> HIDE DEF n, W
<1>5. FlattenSeq(tt) = Concats(V, tt)[n + 1][FlattenSeq(ss)] /\ FlattenSeq(ss) \in W
  BY <1>1, <1>2, <1>3, ResultExtends
<1>6. FlattenSeq(tt) = FlattenSeq(ss) \o s
  BY <1>4, <1>5
<1> QED  BY <1>5, <1>6 DEF tt, W

\* Nothing flattens to nothing.
LEMMA FlattenNone == FlattenSeq(<<>>) = <<>>
BY DEF FlattenSeq
=============================================================================
