------------------------ MODULE VariableGroupsProofs ------------------------
(***************************************************************************)
(* What VariableGroups makes of its files, checked by TLAPS for all files  *)
(* and every depth of nesting. The data are at each stage a function of    *)
(* the files, so the theorems are about these functions: by induction over *)
(* the items of a dict and over the depth, each gives the same last value  *)
(* for every key as the plain list of what the files declare.              *)
(***************************************************************************)
EXTENDS VariableGroups, FoldFacts, SequenceTheorems, TLAPS

-----------------------------------------------------------------------------
(* Lists of items *)

\* The last value that a list of items has for a key,
LastIs(list, key, value) ==
  \E i \in DOMAIN list :
    /\ list[i][1] = key /\ list[i][2] = value
    /\ \A j \in DOMAIN list : list[j][1] = key => j <= i
\* in which two lists may agree for every key.
Same(a, b) == \A key, value : LastIs(a, key, value) <=> LastIs(b, key, value)

\* There is just one last value of each key.
LEMMA LastIsOne ==
  ASSUME NEW Z, NEW list \in Seq(Z), NEW key, NEW v, NEW w,
         LastIs(list, key, v), LastIs(list, key, w)
  PROVE  v = w
<1>1. DOMAIN list = 1..Len(list) /\ Len(list) \in Nat
  OBVIOUS
<1> QED  BY <1>1 DEF LastIs

LEMMA LastIsSome ==
  ASSUME NEW Z, NEW list \in Seq(Z), NEW key
  PROVE  key \in Keys(list) <=> \E v : LastIs(list, key, v)
<1>0. DOMAIN list = 1..Len(list) /\ Len(list) \in Nat
  OBVIOUS
<1>1. ASSUME key \in Keys(list)  PROVE \E v : LastIs(list, key, v)
  <2> DEFINE S == {i \in 1..Len(list) : list[i][1] = key}
  <2>1. S # {} /\ S \in SUBSET (1..Len(list))
    BY <1>0, <1>1 DEF Keys
  <2>2. PICK x \in S : \A j \in S : j <= x
    BY <1>0, <2>1, LargestIndex
  <2>3. LastIs(list, key, list[x][2])
    BY <1>0, <2>2 DEF LastIs
  <2> QED  BY <2>3
<1>2. ASSUME NEW v, LastIs(list, key, v)  PROVE key \in Keys(list)
  BY <1>2 DEF LastIs, Keys
<1> QED  BY <1>1, <1>2

\* A later list overrules an earlier one.
LEMMA LastIsConcat ==
  ASSUME NEW Z, NEW a \in Seq(Z), NEW b \in Seq(Z), NEW key, NEW v
  PROVE  LastIs(a \o b, key, v) <=>
           LastIs(b, key, v) \/ (key \notin Keys(b) /\ LastIs(a, key, v))
<1> DEFINE c == a \o b
           m == Len(a)
           n == Len(b)
<1>1. /\ m \in Nat /\ n \in Nat /\ DOMAIN a = 1..m /\ DOMAIN b = 1..n /\ DOMAIN c = 1..(m + n)
      /\ \A i \in 1..m : c[i] = a[i]
      /\ \A i \in 1..n : c[m + i] = b[i]
  OBVIOUS
<1> HIDE DEF c, m, n
<1>2. ASSUME LastIs(b, key, v)  PROVE LastIs(c, key, v)
  <2>1. PICK i \in 1..n : /\ b[i][1] = key /\ b[i][2] = v
                          /\ \A j \in 1..n : b[j][1] = key => j <= i
    BY <1>1, <1>2 DEF LastIs
  <2>2. m + i \in 1..(m + n) /\ c[m + i] = b[i]
    BY <1>1
  <2>3. ASSUME NEW j \in 1..(m + n), c[j][1] = key  PROVE j <= m + i
    <3>1. CASE j \in 1..m
      BY <1>1, <3>1
    <3>2. CASE j \notin 1..m
      <4>1. j - m \in 1..n /\ m + (j - m) = j
        BY <1>1, <3>2
      <4>2. c[j] = b[j - m]
        BY <1>1, <4>1
      <4>3. j - m <= i
        BY <2>1, <2>3, <4>1, <4>2
      <4> QED  BY <1>1, <4>3
    <3> QED  BY <3>1, <3>2
  <2> QED  BY <1>1, <2>1, <2>2, <2>3 DEF LastIs
<1>3. ASSUME key \notin Keys(b), LastIs(a, key, v)  PROVE LastIs(c, key, v)
  <2>1. PICK i \in 1..m : /\ a[i][1] = key /\ a[i][2] = v
                          /\ \A j \in 1..m : a[j][1] = key => j <= i
    BY <1>1, <1>3 DEF LastIs
  <2>2. i \in 1..(m + n) /\ c[i] = a[i]
    BY <1>1
  <2>3. ASSUME NEW j \in 1..(m + n), c[j][1] = key  PROVE j <= i
    <3>1. CASE j \in 1..m
      BY <1>1, <2>1, <2>3, <3>1
    <3>2. CASE j \notin 1..m
      <4>1. j - m \in 1..n /\ m + (j - m) = j
        BY <1>1, <3>2
      <4>2. c[j] = b[j - m]
        BY <1>1, <4>1
      <4> QED  BY <1>1, <1>3, <2>3, <4>1, <4>2 DEF Keys
    <3> QED  BY <3>1, <3>2
  <2> QED  BY <1>1, <2>1, <2>2, <2>3 DEF LastIs
<1>4. ASSUME LastIs(c, key, v)
      PROVE  LastIs(b, key, v) \/ (key \notin Keys(b) /\ LastIs(a, key, v))
  <2>1. PICK i \in 1..(m + n) : /\ c[i][1] = key /\ c[i][2] = v
                                /\ \A j \in 1..(m + n) : c[j][1] = key => j <= i
    BY <1>1, <1>4 DEF LastIs
  <2>2. ASSUME NEW j \in 1..n, b[j][1] = key  PROVE m + j <= i
    <3>1. m + j \in 1..(m + n) /\ c[m + j] = b[j]
      BY <1>1
    <3> QED  BY <2>1, <2>2, <3>1
  <2>3. CASE i \in 1..m
    <3>1. key \notin Keys(b)
      <4> SUFFICES ASSUME NEW j \in 1..n, b[j][1] = key  PROVE FALSE
        BY <1>1 DEF Keys
      <4> QED  BY <1>1, <2>2, <2>3
    <3>2. LastIs(a, key, v)
      <4>1. \A j \in 1..m : j \in 1..(m + n) /\ c[j] = a[j]
        BY <1>1
      <4> QED  BY <1>1, <2>1, <2>3, <4>1 DEF LastIs
    <3> QED  BY <3>1, <3>2
  <2>4. CASE i \notin 1..m
    <3> DEFINE k == i - m
    <3>1. k \in 1..n /\ m + k = i
      BY <1>1, <2>4
    <3> HIDE DEF k
    <3>2. b[k][1] = key /\ b[k][2] = v
      BY <1>1, <2>1, <3>1
    <3>3. \A j \in 1..n : b[j][1] = key => j <= k
      BY <1>1, <2>2, <3>1
    <3> QED  BY <1>1, <3>1, <3>2, <3>3 DEF LastIs
  <2> QED  BY <2>3, <2>4
<1> QED  BY <1>2, <1>3, <1>4 DEF c

\* Lists that agree have the same keys,
LEMMA SameKeys ==
  ASSUME NEW Z, NEW a \in Seq(Z), NEW b \in Seq(Z), Same(a, b)
  PROVE  Keys(a) = Keys(b)
<1>1. \A key : key \in Keys(a) <=> \E v : LastIs(a, key, v)
  BY LastIsSome
<1>2. \A key : key \in Keys(b) <=> \E v : LastIs(b, key, v)
  BY LastIsSome
<1>3. \A key : key \in Keys(a) <=> key \in Keys(b)
  BY <1>1, <1>2 DEF Same
<1>4. Keys(a) \subseteq Keys(b) /\ Keys(b) \subseteq Keys(a)
  BY <1>3
<1> QED  BY <1>4

\* and may stand for each other.
LEMMA SameConcat ==
  ASSUME NEW Z, NEW a \in Seq(Z), NEW b \in Seq(Z), NEW c \in Seq(Z), NEW d \in Seq(Z),
         Same(a, c), Same(b, d)
  PROVE  Same(a \o b, c \o d)
<1>1. Keys(b) = Keys(d)
  BY SameKeys
<1>2. ASSUME NEW key, NEW v  PROVE LastIs(a \o b, key, v) <=> LastIs(c \o d, key, v)
  <2>1. LastIs(a \o b, key, v) <=>
           LastIs(b, key, v) \/ (key \notin Keys(b) /\ LastIs(a, key, v))
    BY LastIsConcat
  <2>2. LastIs(c \o d, key, v) <=>
           LastIs(d, key, v) \/ (key \notin Keys(d) /\ LastIs(c, key, v))
    BY LastIsConcat
  <2> QED  BY <1>1, <2>1, <2>2 DEF Same
<1> QED  BY <1>2 DEF Same

LEMMA SameIsTransitive ==
  ASSUME NEW a, NEW b, NEW c, Same(a, b), Same(b, c)
  PROVE  Same(a, c)
BY DEF Same

\* One item decides for its key.
LEMMA LastIsAppend ==
  ASSUME NEW Z, NEW list \in Seq(Z), NEW item \in Z, NEW key, NEW v
  PROVE  LastIs(Append(list, item), key, v) <=>
           IF key = item[1] THEN v = item[2] ELSE LastIs(list, key, v)
<1> DEFINE b == <<item>>
<1>1. b \in Seq(Z) /\ Append(list, item) = list \o b /\ DOMAIN b = {1} /\ b[1] = item
  OBVIOUS
<1> HIDE DEF b
<1>2. Keys(b) = {item[1]}
  BY <1>1 DEF Keys
<1>3. LastIs(b, key, v) <=> key = item[1] /\ v = item[2]
  BY <1>1 DEF LastIs
<1>4. LastIs(list \o b, key, v) <=>
        LastIs(b, key, v) \/ (key \notin Keys(b) /\ LastIs(list, key, v))
  BY <1>1, LastIsConcat
<1> QED  BY <1>1, <1>2, <1>3, <1>4

\* Without a key twice, the last value of a key is its only one.
LEMMA LastIsOnly ==
  ASSUME NEW Z, NEW list \in Seq(Z), NoKeyTwice(list), NEW key, NEW v
  PROVE  LastIs(list, key, v) <=> \E i \in DOMAIN list : list[i][1] = key /\ list[i][2] = v
<1>1. DOMAIN list = 1..Len(list) /\ Len(list) \in Nat
  OBVIOUS
<1> QED  BY <1>1 DEF LastIs, NoKeyTwice

-----------------------------------------------------------------------------
(* The dict's operations *)

\* Lists of items with keys and values from two sets.
Lists(X, Y) == Seq(X \X Y)

\* What is put in a dict is the last word on its key; a key stays single.
LEMMA PutIs ==
  ASSUME NEW X, NEW Y, NEW dict \in Lists(X, Y), NEW key \in X, NEW value \in Y
  PROVE  Put(dict, key, value) \in Lists(X, Y)
<1>1. CASE key \in Keys(dict)
  <2> DEFINE f == [i \in DOMAIN dict |-> IF dict[i][1] = key THEN <<key, value>> ELSE dict[i]]
             n == Len(dict)
  <2>1. DOMAIN dict = 1..n /\ n \in Nat /\ \A i \in 1..n : dict[i] \in X \X Y
    BY DEF Lists
  <2>2. \A i \in 1..n : f[i] \in X \X Y
    BY <2>1
  <2>3. f = [i \in 1..n |-> f[i]]
    BY <2>1
  <2>4. Put(dict, key, value) = f
    BY <1>1 DEF Put
  <2> HIDE DEF f, n
  <2>5. f \in Lists(X, Y)
    BY <2>1, <2>2, <2>3, FunctionIsSequence DEF Lists
  <2> QED  BY <2>4, <2>5
<1>2. CASE key \notin Keys(dict)
  BY <1>2 DEF Put, Lists
<1> QED  BY <1>1, <1>2

LEMMA PutKeepsKeysSingle ==
  ASSUME NEW X, NEW Y, NEW dict \in Lists(X, Y), NEW key \in X, NEW value \in Y,
         NoKeyTwice(dict)
  PROVE  NoKeyTwice(Put(dict, key, value))
<1>1. CASE key \in Keys(dict)
  <2>1. DOMAIN Put(dict, key, value) = DOMAIN dict
    BY <1>1 DEF Put
  <2>2. \A i \in DOMAIN dict : Put(dict, key, value)[i][1] = dict[i][1]
    BY <1>1 DEF Put
  <2> QED  BY <2>1, <2>2 DEF NoKeyTwice
<1>2. CASE key \notin Keys(dict)
  <2> DEFINE n == Len(dict)
             s == Append(dict, <<key, value>>)
  <2>1. n \in Nat /\ DOMAIN dict = 1..n /\ DOMAIN s = 1..(n + 1) /\ s[n + 1][1] = key
        /\ \A i \in 1..n : s[i] = dict[i]
    OBVIOUS
  <2>2. Put(dict, key, value) = s
    BY <1>2 DEF Put
  <2> HIDE DEF n, s
  <2>3. \A i \in 1..n : dict[i][1] # key
    BY <1>2, <2>1 DEF Keys
  <2>4. ASSUME NEW i \in 1..(n + 1), NEW j \in 1..(n + 1), s[i][1] = s[j][1]  PROVE i = j
    <3>1. CASE i \in 1..n /\ j \in 1..n
      BY <2>1, <2>4, <3>1 DEF NoKeyTwice
    <3>2. CASE i = n + 1 \/ j = n + 1
      BY <2>1, <2>3, <2>4, <3>2
    <3> QED  BY <2>1, <3>1, <3>2
  <2> QED  BY <2>1, <2>2, <2>4 DEF NoKeyTwice
<1> QED  BY <1>1, <1>2

LEMMA SamePut ==
  ASSUME NEW X, NEW Y, NEW dict \in Lists(X, Y), NEW key \in X, NEW value \in Y,
         NoKeyTwice(dict)
  PROVE  Same(Put(dict, key, value), Append(dict, <<key, value>>))
<1>1. CASE key \in Keys(dict)
  <2> DEFINE s == Put(dict, key, value)
  <2>1. /\ DOMAIN s = DOMAIN dict
        /\ \A i \in DOMAIN dict : s[i] = IF dict[i][1] = key THEN <<key, value>> ELSE dict[i]
    BY <1>1 DEF Put
  <2>2. s \in Lists(X, Y) /\ NoKeyTwice(s)
    BY PutIs, PutKeepsKeysSingle
  <2>3. PICK k \in DOMAIN dict : dict[k][1] = key
    BY <1>1 DEF Keys
  <2> HIDE DEF s
  <2>4. ASSUME NEW x, NEW v
        PROVE  LastIs(s, x, v) <=> LastIs(Append(dict, <<key, value>>), x, v)
    <3>1. LastIs(s, x, v) <=> \E i \in DOMAIN s : s[i][1] = x /\ s[i][2] = v
      BY <2>2, LastIsOnly DEF Lists
    <3>2. LastIs(dict, x, v) <=> \E i \in DOMAIN dict : dict[i][1] = x /\ dict[i][2] = v
      BY LastIsOnly DEF Lists
    <3>3. LastIs(Append(dict, <<key, value>>), x, v) <=>
            IF x = key THEN v = value ELSE LastIs(dict, x, v)
      <4>1. <<key, value>> \in X \X Y /\ <<key, value>>[1] = key /\ <<key, value>>[2] = value
        OBVIOUS
      <4> QED  BY <4>1, LastIsAppend DEF Lists
    <3>4. CASE x = key
      <4>1. s[k][1] = key /\ s[k][2] = value
        BY <2>1, <2>3
      <4>2. \A i \in DOMAIN s : s[i][1] = key => s[i][2] = value
        BY <2>1
      <4> QED  BY <2>1, <2>3, <3>1, <3>3, <3>4, <4>1, <4>2
    <3>5. CASE x # key
      <4>1. \A i \in DOMAIN dict :
              (s[i][1] = x /\ s[i][2] = v) <=> (dict[i][1] = x /\ dict[i][2] = v)
        BY <2>1, <3>5
      <4> QED  BY <2>1, <3>1, <3>2, <3>3, <3>5, <4>1
    <3> QED  BY <3>4, <3>5
  <2> QED  BY <2>4 DEF Same, s
<1>2. CASE key \notin Keys(dict)
  BY <1>2 DEF Put, Same
<1> QED  BY <1>1, <1>2

\* PutAll, as the fold that the community module defines.
PutFold(f, dict, items) ==
  f = [t \in SUBSET DOMAIN items |->
         IF t = {} THEN dict
         ELSE Put(f[t \ {Max(t)}], items[Max(t)][1], items[Max(t)][2])]
LEMMA PutChoice ==
  ASSUME NEW dict, NEW items
  PROVE  PutAll(dict, items) = (CHOOSE f : PutFold(f, dict, items))[DOMAIN items]
BY DEF PutAll, FoldLeft, MapThenFoldSet, PutFold

\* Its steps.
PutSteps(V, items) ==
  [i \in 1..Len(items) |-> [v \in V |-> Put(v, items[i][1], items[i][2])]]

LEMMA PutStepTypes ==
  ASSUME NEW X, NEW Y, NEW items \in Lists(X, Y)
  PROVE  /\ PutSteps(Lists(X, Y), items) \in
              [1..Len(items) -> [Lists(X, Y) -> Lists(X, Y)]]
         /\ \A i \in 1..Len(items) : \A v \in Lists(X, Y) :
              PutSteps(Lists(X, Y), items)[i][v] = Put(v, items[i][1], items[i][2])
<1> DEFINE V == Lists(X, Y)
           n == Len(items)
<1>1. \A i \in 1..n : items[i][1] \in X /\ items[i][2] \in Y
  BY DEF Lists
<1>2. \A i \in 1..n : \A v \in V : Put(v, items[i][1], items[i][2]) \in V
  BY <1>1, PutIs
<1> HIDE DEF V
<1>3. /\ PutSteps(V, items) \in [1..n -> [V -> V]]
      /\ \A i \in 1..n : \A v \in V : PutSteps(V, items)[i][v] = Put(v, items[i][1], items[i][2])
  BY <1>2 DEF PutSteps
<1> QED  BY <1>3 DEF V

LEMMA PutAllRun ==
  ASSUME NEW X, NEW Y, NEW dict \in Lists(X, Y), NEW items \in Lists(X, Y)
  PROVE  Result(PutAll(dict, items), Len(items), Lists(X, Y), dict,
                PutSteps(Lists(X, Y), items))
<1> DEFINE n == Len(items)
           V == Lists(X, Y)
           step == PutSteps(V, items)
<1>0. n \in Nat /\ DOMAIN items = 1..n /\ dict \in V
  OBVIOUS
<1>1. /\ step \in [1..n -> [V -> V]]
      /\ \A i \in 1..n : \A v \in V : step[i][v] = Put(v, items[i][1], items[i][2])
  BY PutStepTypes
<1> HIDE DEF n, V, step
<1>2. PICK g1 \in [SUBSET (1..n) -> V] : RunsOnSets(g1, n, V, dict, step)
  BY <1>0, <1>1, FoldExists
<1>3. ASSUME NEW t \in SUBSET (1..n), t # {}
      PROVE  Max(t) \in 1..n /\ t \ {Max(t)} \in SUBSET (1..n)
  BY <1>0, <1>3, MaxExists
<1>4. PutFold(g1, dict, items)
  <2>1. ASSUME NEW t \in SUBSET (1..n), t # {}
        PROVE  g1[t] = Put(g1[t \ {Max(t)}], items[Max(t)][1], items[Max(t)][2])
    <3>1. g1[t \ {Max(t)}] \in V
      BY <1>2, <1>3, <2>1
    <3>2. g1[t] = step[Max(t)][g1[t \ {Max(t)}]]
      BY <1>2, <2>1, <3>1 DEF RunsOnSets
    <3> QED  BY <1>1, <1>3, <2>1, <3>1, <3>2
  <2>2. g1[{}] = dict
    BY <1>2 DEF RunsOnSets
  <2> QED  BY <1>0, <1>2, <2>1, <2>2 DEF PutFold
<1> DEFINE g == CHOOSE f : PutFold(f, dict, items)
<1>5. PutFold(g, dict, items)
  BY <1>4
<1>6. PutAll(dict, items) = g[1..n]
  BY <1>0, PutChoice
<1> HIDE DEF g
<1>7. RunsOnSets(g, n, V, dict, step)
  <2>1. g[{}] = dict
    BY <1>0, <1>5 DEF PutFold
  <2>2. ASSUME NEW t \in SUBSET (1..n), t # {}, g[t \ {Max(t)}] \in V
        PROVE  g[t] = step[Max(t)][g[t \ {Max(t)}]]
    <3>1. g[t] = Put(g[t \ {Max(t)}], items[Max(t)][1], items[Max(t)][2])
      BY <1>0, <1>5, <2>2 DEF PutFold
    <3> QED  BY <1>1, <1>3, <2>2, <3>1
  <2> QED  BY <2>1, <2>2 DEF RunsOnSets
<1>8. Result(g[1..n], n, V, dict, step)
  BY <1>0, <1>1, <1>7, FoldRuns
<1> QED  BY <1>6, <1>8 DEF n, V, step

\* The last of the items is put last.
LEMMA PutAllAppend ==
  ASSUME NEW X, NEW Y, NEW dict \in Lists(X, Y), NEW items \in Lists(X, Y),
         NEW key \in X, NEW value \in Y
  PROVE  /\ PutAll(dict, Append(items, <<key, value>>)) = Put(PutAll(dict, items), key, value)
         /\ PutAll(dict, items) \in Lists(X, Y)
<1> DEFINE n == Len(items)
           item == <<key, value>>
           t == Append(items, item)
           V == Lists(X, Y)
<1>1. /\ n \in Nat /\ dict \in V /\ t \in V /\ Len(t) = n + 1
      /\ t[n + 1] = item /\ item[1] = key /\ item[2] = value /\ \A i \in 1..n : t[i] = items[i]
  BY DEF Lists
<1> HIDE DEF t, item
<1>2. /\ Result(PutAll(dict, items), n, V, dict, PutSteps(V, items))
      /\ Result(PutAll(dict, t), n + 1, V, dict, PutSteps(V, t))
  BY <1>1, PutAllRun
<1>3. \A i \in 1..n : /\ PutSteps(V, items)[i] \in [V -> V]
                      /\ PutSteps(V, items)[i] = PutSteps(V, t)[i]
  <2> TAKE i \in 1..n
  <2>1. i \in 1..(n + 1)
    BY <1>1
  <2>2. PutSteps(V, items)[i] \in [V -> V]
    BY PutStepTypes
  <2>3. PutSteps(V, items)[i] = PutSteps(V, t)[i]
    BY <1>1, <2>1 DEF PutSteps
  <2> QED  BY <2>2, <2>3
<1>4. \A v \in V : PutSteps(V, t)[n + 1][v] = Put(v, item[1], item[2])
  <2>1. n + 1 \in 1..Len(t)
    BY <1>1
  <2>2. \A i \in 1..Len(t) : \A v \in V : PutSteps(V, t)[i][v] = Put(v, t[i][1], t[i][2])
    BY <1>1, PutStepTypes
  <2> QED  BY <1>1, <2>1, <2>2
<1> HIDE DEF n, V
<1>5. /\ PutAll(dict, t) = PutSteps(V, t)[n + 1][PutAll(dict, items)]
      /\ PutAll(dict, items) \in V
  BY <1>1, <1>2, <1>3, ResultExtends
<1> QED  BY <1>1, <1>4, <1>5 DEF t, V, item

\* Putting nothing changes nothing.
LEMMA PutNothing ==
  ASSUME NEW X, NEW Y, NEW dict \in Lists(X, Y)
  PROVE  PutAll(dict, <<>>) = dict
<1>1. <<>> \in Lists(X, Y) /\ Len(<<>>) = 0
  BY DEF Lists
<1>2. Result(PutAll(dict, <<>>), 0, Lists(X, Y), dict, PutSteps(Lists(X, Y), <<>>))
  BY <1>1, PutAllRun
<1> QED  BY <1>2 DEF Result, Runs

\* A sequence grows from the empty one by its elements.
LEMMA PrefixGrows ==
  ASSUME NEW Z, NEW s \in Seq(Z), NEW m \in Nat, m + 1 <= Len(s)
  PROVE  /\ SubSeq(s, 1, m) \in Seq(Z) /\ s[m + 1] \in Z
         /\ SubSeq(s, 1, m + 1) = Append(SubSeq(s, 1, m), s[m + 1])
         /\ Len(SubSeq(s, 1, m)) = m
         /\ \A i \in 1..m : SubSeq(s, 1, m)[i] = s[i]
<1>1. Len(s) \in Nat /\ m + 1 \in 1..Len(s)
  OBVIOUS
<1>2. SubSeq(s, 1, m + 1) = SubSeq(s, 1, (m + 1) - 1) \o <<s[m + 1]>>
  BY <1>1, SubSeqRecursiveSecond
<1>3. /\ SubSeq(s, 1, m) \in Seq(Z) /\ Len(SubSeq(s, 1, m)) = m
      /\ \A i \in 1..m : SubSeq(s, 1, m)[i] = s[i]
  BY <1>1
<1>4. (m + 1) - 1 = m /\ s[m + 1] \in Z
  BY <1>1
<1> DEFINE q == SubSeq(s, 1, m)
<1>5. SubSeq(s, 1, m + 1) = q \o <<s[m + 1]>> /\ q \in Seq(Z)
  BY <1>2, <1>3, <1>4
<1> HIDE DEF q
<1>6. SubSeq(s, 1, m + 1) = Append(q, s[m + 1])
  BY <1>4, <1>5
<1> QED  BY <1>3, <1>4, <1>6 DEF q

\* What is put in a dict overrules what it holds.
LEMMA SamePutAll ==
  ASSUME NEW X, NEW Y, NEW dict \in Lists(X, Y), NEW items \in Lists(X, Y),
         NoKeyTwice(dict)
  PROVE  /\ PutAll(dict, items) \in Lists(X, Y)
         /\ NoKeyTwice(PutAll(dict, items))
         /\ Same(PutAll(dict, items), dict \o items)
<1> DEFINE p(m) == SubSeq(items, 1, m)
           S == {m \in Nat : m <= Len(items) =>
                   /\ PutAll(dict, p(m)) \in Lists(X, Y)
                   /\ NoKeyTwice(PutAll(dict, p(m)))
                   /\ Same(PutAll(dict, p(m)), dict \o p(m))}
<1>1. 0 \in S
  <2>1. p(0) = <<>> /\ dict \o <<>> = dict
    OBVIOUS
  <2>2. PutAll(dict, p(0)) = dict
    BY <2>1, PutNothing
  <2>3. Same(dict, dict)
    BY DEF Same
  <2> QED  BY <2>1, <2>2, <2>3
<1>2. ASSUME NEW m \in S  PROVE m + 1 \in S
  <2> SUFFICES ASSUME m + 1 <= Len(items)
               PROVE  /\ PutAll(dict, p(m + 1)) \in Lists(X, Y)
                      /\ NoKeyTwice(PutAll(dict, p(m + 1)))
                      /\ Same(PutAll(dict, p(m + 1)), dict \o p(m + 1))
    OBVIOUS
  <2>1. m \in Nat /\ m <= Len(items)
    OBVIOUS
  <2> DEFINE q == p(m)
             item == items[m + 1]
             d == PutAll(dict, q)
  <2>2. q \in Lists(X, Y) /\ item \in X \X Y /\ p(m + 1) = Append(q, item)
    BY <2>1, PrefixGrows DEF Lists
  <2>3. d \in Lists(X, Y) /\ NoKeyTwice(d) /\ Same(d, dict \o q)
    BY <2>1
  <2> HIDE DEF p, q, item, S
  <2>5. PICK x \in X, y \in Y : item = <<x, y>>
    BY <2>2
  <2>4. PutAll(dict, p(m + 1)) = Put(d, x, y)
    <3>1. PutAll(dict, Append(q, <<x, y>>)) = Put(PutAll(dict, q), x, y)
      BY <2>2, PutAllAppend
    <3> QED  BY <2>2, <2>5, <3>1
  <2> HIDE DEF d
  <2>6. /\ Put(d, x, y) \in Lists(X, Y)
        /\ NoKeyTwice(Put(d, x, y))
    BY <2>3, <2>5, PutIs, PutKeepsKeysSingle
  <2>7. Same(Put(d, x, y), Append(d, item))
    BY <2>3, <2>5, SamePut
  <2>8. Same(Append(d, item), Append(dict \o q, item))
    <3>1. dict \o q \in Lists(X, Y)
      BY <2>2 DEF Lists
    <3>2. ASSUME NEW k, NEW v
          PROVE  LastIs(Append(d, item), k, v) <=> LastIs(Append(dict \o q, item), k, v)
      <4>1. LastIs(Append(d, item), k, v) <=>
              IF k = item[1] THEN v = item[2] ELSE LastIs(d, k, v)
        BY <2>2, <2>3, LastIsAppend DEF Lists
      <4>2. LastIs(Append(dict \o q, item), k, v) <=>
              IF k = item[1] THEN v = item[2] ELSE LastIs(dict \o q, k, v)
        BY <2>2, <3>1, LastIsAppend DEF Lists
      <4> QED  BY <2>3, <4>1, <4>2 DEF Same
    <3> QED  BY <3>2 DEF Same
  <2>9. Append(dict \o q, item) = dict \o p(m + 1)
    <3> DEFINE Z == X \X Y
    <3>1. dict \in Seq(Z) /\ q \in Seq(Z) /\ item \in Z
      BY <2>2 DEF Lists
    <3> HIDE DEF Z
    <3>2. Append(dict \o q, item) = dict \o Append(q, item)
      BY <3>1
    <3> QED  BY <2>2, <3>2
  <2>10. Same(Put(d, x, y), dict \o p(m + 1))
    BY <2>7, <2>8, <2>9, SameIsTransitive
  <2> QED  BY <2>4, <2>6, <2>10
<1> HIDE DEF S
<1>3. Len(items) \in S
  <2>1. S \in SUBSET Nat
    BY DEF S
  <2>2. \A m \in Nat : m \in S
    BY <1>1, <1>2, <2>1, InductiveSet
  <2> QED  BY <2>2
<1>4. p(Len(items)) = items
  BY SubSeqFull DEF Lists
<1> HIDE DEF p
<1> QED  BY <1>3, <1>4 DEF S

\* Items without a key twice make the dict that they are.
LEMMA PutDistinct ==
  ASSUME NEW X, NEW Y, NEW items \in Lists(X, Y), NoKeyTwice(items)
  PROVE  PutAll(<<>>, items) = items
<1> DEFINE p(m) == SubSeq(items, 1, m)
           S == {m \in Nat : m <= Len(items) => PutAll(<<>>, p(m)) = p(m)}
<1>0. <<>> \in Lists(X, Y) /\ DOMAIN items = 1..Len(items) /\ Len(items) \in Nat
  BY DEF Lists
<1>1. 0 \in S
  <2>1. p(0) = <<>>
    OBVIOUS
  <2>2. PutAll(<<>>, p(0)) = <<>>
    BY <1>0, <2>1, PutNothing
  <2> QED  BY <2>1, <2>2
<1>2. ASSUME NEW m \in S  PROVE m + 1 \in S
  <2> SUFFICES ASSUME m + 1 <= Len(items)  PROVE PutAll(<<>>, p(m + 1)) = p(m + 1)
    OBVIOUS
  <2>1. m \in Nat /\ m <= Len(items) /\ m + 1 \in 1..Len(items)
    BY <1>0
  <2> DEFINE q == p(m)
             item == items[m + 1]
  <2>2. /\ q \in Lists(X, Y) /\ item \in X \X Y /\ p(m + 1) = Append(q, item)
        /\ Len(q) = m /\ \A i \in 1..m : q[i] = items[i]
    BY <2>1, PrefixGrows DEF Lists
  <2>3. PutAll(<<>>, q) = q
    BY <2>1
  <2> HIDE DEF p, q, S
  <2>4. item[1] \notin Keys(q)
    <3> SUFFICES ASSUME NEW i \in DOMAIN q, q[i][1] = item[1]  PROVE FALSE
      BY DEF Keys
    <3>1. i \in 1..m /\ i \in 1..Len(items) /\ i # m + 1
      BY <1>0, <2>1, <2>2
    <3> QED  BY <1>0, <2>1, <2>2, <3>1 DEF NoKeyTwice
  <2> HIDE DEF item
  <2>5. PICK x \in X, y \in Y : item = <<x, y>>
    BY <2>2
  <2>6. PutAll(<<>>, p(m + 1)) = Put(q, x, y)
    <3>1. PutAll(<<>>, Append(q, <<x, y>>)) = Put(PutAll(<<>>, q), x, y)
      BY <1>0, <2>2, PutAllAppend
    <3> QED  BY <2>2, <2>3, <2>5, <3>1
  <2> QED  BY <2>2, <2>4, <2>5, <2>6 DEF Put
<1> HIDE DEF S
<1>3. Len(items) \in S
  <2>1. S \in SUBSET Nat
    BY DEF S
  <2>2. \A m \in Nat : m \in S
    BY <1>1, <1>2, <2>1, InductiveSet
  <2> QED  BY <1>0, <2>2
<1>4. p(Len(items)) = items
  BY SubSeqFull DEF Lists
<1> HIDE DEF p
<1> QED  BY <1>3, <1>4 DEF S

\* Lists of lists that agree, agree flattened.
LEMMA FlattenSame ==
  ASSUME NEW Z, NEW ss \in Seq(Seq(Z)), NEW tt \in Seq(Seq(Z)), Len(ss) = Len(tt),
         \A i \in 1..Len(ss) : Same(ss[i], tt[i])
  PROVE  Same(FlattenSeq(ss), FlattenSeq(tt))
<1> DEFINE p(m) == SubSeq(ss, 1, m)
           r(m) == SubSeq(tt, 1, m)
           S == {m \in Nat : m <= Len(ss) => Same(FlattenSeq(p(m)), FlattenSeq(r(m)))}
<1>0. Len(ss) \in Nat
  OBVIOUS
<1>1. 0 \in S
  <2>1. p(0) = <<>> /\ r(0) = <<>>
    OBVIOUS
  <2> QED  BY <2>1 DEF Same
<1>2. ASSUME NEW m \in S  PROVE m + 1 \in S
  <2> SUFFICES ASSUME m + 1 <= Len(ss)
               PROVE  Same(FlattenSeq(p(m + 1)), FlattenSeq(r(m + 1)))
    OBVIOUS
  <2>1. m \in Nat /\ m <= Len(ss) /\ m + 1 \in 1..Len(ss)
    BY <1>0
  <2>2. p(m) \in Seq(Seq(Z)) /\ ss[m + 1] \in Seq(Z) /\ p(m + 1) = Append(p(m), ss[m + 1])
    BY <2>1, PrefixGrows
  <2>3. r(m) \in Seq(Seq(Z)) /\ tt[m + 1] \in Seq(Z) /\ r(m + 1) = Append(r(m), tt[m + 1])
    BY <2>1, PrefixGrows
  <2>4. Same(FlattenSeq(p(m)), FlattenSeq(r(m)))
    BY <2>1
  <2> HIDE DEF p, r, S
  <2>5. /\ FlattenSeq(p(m + 1)) = FlattenSeq(p(m)) \o ss[m + 1]
        /\ FlattenSeq(p(m)) \in Seq(Z)
    BY <2>2, FlattenAppend
  <2>6. /\ FlattenSeq(r(m + 1)) = FlattenSeq(r(m)) \o tt[m + 1]
        /\ FlattenSeq(r(m)) \in Seq(Z)
    BY <2>3, FlattenAppend
  <2>7. Same(ss[m + 1], tt[m + 1])
    BY <2>1
  <2>8. Same(FlattenSeq(p(m)) \o ss[m + 1], FlattenSeq(r(m)) \o tt[m + 1])
    BY <2>2, <2>3, <2>4, <2>5, <2>6, <2>7, SameConcat
  <2> QED  BY <2>5, <2>6, <2>8
<1> HIDE DEF S
<1>3. Len(ss) \in S
  <2>1. S \in SUBSET Nat
    BY DEF S
  <2>2. \A m \in Nat : m \in S
    BY <1>1, <1>2, <2>1, InductiveSet
  <2> QED  BY <1>0, <2>2
<1>4. p(Len(ss)) = ss /\ r(Len(ss)) = tt
  BY SubSeqFull
<1> HIDE DEF p, r
<1> QED  BY <1>0, <1>3, <1>4 DEF S

\* The depth of nesting.
LEMMA DepthIsNatural == MaxDepth \in Nat
BY FilesAssumption

\* The dicts of a depth hold leaves and the dicts of the depth below.
LEMMA DictsAre ==
  /\ Dicts[0] = {}
  /\ \A n \in 1..MaxDepth : Dicts[n] = Lists(Path, Value(Dicts[n - 1]))
<1> DEFINE Is(f, m) == f = [depth \in 0..m |->
                              IF depth = 0 THEN {} ELSE Seq(Path \X Value(f[depth - 1]))]
           Exists(m) == \E f : Is(f, m)
           S == {m \in Nat : Exists(m)}
<1>1. 0 \in S
  <2> DEFINE f == [depth \in 0..0 |-> {}]
  <2>1. Is(f, 0)
    OBVIOUS
  <2> HIDE DEF Is
  <2>2. Exists(0)
    BY <2>1
  <2> QED  BY <2>2
<1>2. ASSUME NEW m \in S  PROVE m + 1 \in S
  <2>1. PICK f : Is(f, m)
    OBVIOUS
  <2> DEFINE g == [depth \in 0..(m + 1) |->
                     IF depth = m + 1 THEN Seq(Path \X Value(f[m])) ELSE f[depth]]
  <2>2. ASSUME NEW d \in 0..(m + 1)
        PROVE  g[d] = IF d = 0 THEN {} ELSE Seq(Path \X Value(g[d - 1]))
    <3>1. CASE d = m + 1
      <4>1. d # 0 /\ d - 1 = m /\ g[m] = f[m]
        BY <3>1
      <4> QED  BY <3>1, <4>1
    <3>2. CASE d = 0
      BY <2>1, <3>2
    <3>3. CASE d \in 1..m
      <4>1. d \in 0..m /\ d # m + 1 /\ d # 0 /\ d - 1 \in 0..(m + 1) /\ d - 1 # m + 1
        BY <3>3
      <4>2. g[d - 1] = f[d - 1] /\ g[d] = f[d]
        BY <4>1
      <4>3. f[d] = Seq(Path \X Value(f[d - 1]))
        BY <2>1, <4>1
      <4> QED  BY <4>1, <4>2, <4>3
    <3> QED  BY <3>1, <3>2, <3>3
  <2>3. g = [depth \in 0..(m + 1) |-> g[depth]]
    OBVIOUS
  <2> HIDE DEF g
  <2>4. Is(g, m + 1)
    BY <2>2, <2>3
  <2> HIDE DEF Is
  <2>5. Exists(m + 1)
    BY <2>4
  <2> QED  BY <2>5
<1> HIDE DEF S
<1>3. MaxDepth \in S
  <2>1. S \in SUBSET Nat
    BY DEF S
  <2> QED  BY <1>1, <1>2, <2>1, InductiveSet, DepthIsNatural
<1>4. Exists(MaxDepth)
  BY <1>3 DEF S
<1> DEFINE upTo == CHOOSE f : Is(f, MaxDepth)
<1>5. Is(upTo, MaxDepth)
  BY <1>4
<1>6. Dicts = upTo
  BY DEF Dicts
<1> HIDE DEF upTo
<1>7. \A d \in 0..MaxDepth : upTo[d] = IF d = 0 THEN {} ELSE Seq(Path \X Value(upTo[d - 1]))
  BY <1>5
<1>8. 0 \in 0..MaxDepth /\ \A d \in 1..MaxDepth : d \in 0..MaxDepth /\ d # 0
  BY DepthIsNatural
<1> QED  BY <1>6, <1>7, <1>8 DEF Lists

\* What the methods and the properties do depth by depth: each function exists,
\* for there is no dict of depth 0.
LEMMA templateToIs ==
  \A n \in 0..MaxDepth :
    templateTo[n] = [dict \in Dicts[n] |-> templateItems(dict, templateTo[n - 1])]
<1> DEFINE Is(f, m) == f = [depth \in 0..m |->
                              [dict \in Dicts[depth] |-> templateItems(dict, f[depth - 1])]]
           Exists(m) == \E f : Is(f, m)
           S == {m \in Nat : Exists(m)}
<1>0. Dicts[0] = {}
  BY DictsAre
<1>1. 0 \in S
  <2> DEFINE f == [depth \in 0..0 |-> [dict \in {} |-> {}]]
  <2>1. f[0] = [dict \in Dicts[0] |-> templateItems(dict, f[0 - 1])]
    BY <1>0
  <2>2. f = [depth \in 0..0 |-> f[depth]]
    OBVIOUS
  <2> HIDE DEF f
  <2>3. Is(f, 0)
    BY <2>1, <2>2
  <2> HIDE DEF Is
  <2>4. Exists(0)
    BY <2>3
  <2> QED  BY <2>4
<1>2. ASSUME NEW m \in S  PROVE m + 1 \in S
  <2>1. PICK f : Is(f, m)
    OBVIOUS
  <2> DEFINE g == [depth \in 0..(m + 1) |->
                     IF depth = m + 1
                     THEN [dict \in Dicts[m + 1] |-> templateItems(dict, f[m])]
                     ELSE f[depth]]
  <2>2. ASSUME NEW d \in 0..(m + 1)
        PROVE  g[d] = [dict \in Dicts[d] |-> templateItems(dict, g[d - 1])]
    <3>1. CASE d = m + 1
      BY <3>1
    <3>2. CASE d = 0
      BY <1>0, <2>1, <3>2
    <3>3. CASE d \in 1..m
      <4>1. d \in 0..m /\ d # m + 1 /\ d - 1 \in 0..(m + 1) /\ d - 1 # m + 1
        BY <3>3
      <4>2. g[d - 1] = f[d - 1] /\ g[d] = f[d]
        BY <4>1
      <4>3. f[d] = [dict \in Dicts[d] |-> templateItems(dict, f[d - 1])]
        BY <2>1, <4>1
      <4> QED  BY <4>2, <4>3
    <3> QED  BY <3>1, <3>2, <3>3
  <2>3. g = [depth \in 0..(m + 1) |-> g[depth]]
    OBVIOUS
  <2> HIDE DEF g
  <2>4. Is(g, m + 1)
    BY <2>2, <2>3
  <2> HIDE DEF Is
  <2>5. Exists(m + 1)
    BY <2>4
  <2> QED  BY <2>5
<1> HIDE DEF S
<1>3. MaxDepth \in S
  <2>1. S \in SUBSET Nat
    BY DEF S
  <2> QED  BY <1>1, <1>2, <2>1, InductiveSet, DepthIsNatural
<1>4. Exists(MaxDepth)
  BY <1>3 DEF S
<1>5. templateTo = CHOOSE f : Is(f, MaxDepth)
  BY DEF templateTo
<1>6. Is(templateTo, MaxDepth)
  BY <1>4, <1>5
<1> QED  BY <1>6

LEMMA flattenToIs ==
  \A n \in 0..MaxDepth :
    flattenTo[n] = [dict \in Dicts[n] |-> flattenItems(dict, flattenTo[n - 1])]
<1> DEFINE Is(f, m) == f = [depth \in 0..m |->
                              [dict \in Dicts[depth] |-> flattenItems(dict, f[depth - 1])]]
           Exists(m) == \E f : Is(f, m)
           S == {m \in Nat : Exists(m)}
<1>0. Dicts[0] = {}
  BY DictsAre
<1>1. 0 \in S
  <2> DEFINE f == [depth \in 0..0 |-> [dict \in {} |-> {}]]
  <2>1. f[0] = [dict \in Dicts[0] |-> flattenItems(dict, f[0 - 1])]
    BY <1>0
  <2>2. f = [depth \in 0..0 |-> f[depth]]
    OBVIOUS
  <2> HIDE DEF f
  <2>3. Is(f, 0)
    BY <2>1, <2>2
  <2> HIDE DEF Is
  <2>4. Exists(0)
    BY <2>3
  <2> QED  BY <2>4
<1>2. ASSUME NEW m \in S  PROVE m + 1 \in S
  <2>1. PICK f : Is(f, m)
    OBVIOUS
  <2> DEFINE g == [depth \in 0..(m + 1) |->
                     IF depth = m + 1
                     THEN [dict \in Dicts[m + 1] |-> flattenItems(dict, f[m])]
                     ELSE f[depth]]
  <2>2. ASSUME NEW d \in 0..(m + 1)
        PROVE  g[d] = [dict \in Dicts[d] |-> flattenItems(dict, g[d - 1])]
    <3>1. CASE d = m + 1
      BY <3>1
    <3>2. CASE d = 0
      BY <1>0, <2>1, <3>2
    <3>3. CASE d \in 1..m
      <4>1. d \in 0..m /\ d # m + 1 /\ d - 1 \in 0..(m + 1) /\ d - 1 # m + 1
        BY <3>3
      <4>2. g[d - 1] = f[d - 1] /\ g[d] = f[d]
        BY <4>1
      <4>3. f[d] = [dict \in Dicts[d] |-> flattenItems(dict, f[d - 1])]
        BY <2>1, <4>1
      <4> QED  BY <4>2, <4>3
    <3> QED  BY <3>1, <3>2, <3>3
  <2>3. g = [depth \in 0..(m + 1) |-> g[depth]]
    OBVIOUS
  <2> HIDE DEF g
  <2>4. Is(g, m + 1)
    BY <2>2, <2>3
  <2> HIDE DEF Is
  <2>5. Exists(m + 1)
    BY <2>4
  <2> QED  BY <2>5
<1> HIDE DEF S
<1>3. MaxDepth \in S
  <2>1. S \in SUBSET Nat
    BY DEF S
  <2> QED  BY <1>1, <1>2, <2>1, InductiveSet, DepthIsNatural
<1>4. Exists(MaxDepth)
  BY <1>3 DEF S
<1>5. flattenTo = CHOOSE f : Is(f, MaxDepth)
  BY DEF flattenTo
<1>6. Is(flattenTo, MaxDepth)
  BY <1>4, <1>5
<1> QED  BY <1>6

LEMMA DistinctToIs ==
  \A n \in 0..MaxDepth :
    DistinctTo[n] = [dict \in Dicts[n] |-> DistinctItems(dict, DistinctTo[n - 1])]
<1> DEFINE Is(f, m) == f = [depth \in 0..m |->
                              [dict \in Dicts[depth] |-> DistinctItems(dict, f[depth - 1])]]
           Exists(m) == \E f : Is(f, m)
           S == {m \in Nat : Exists(m)}
<1>0. Dicts[0] = {}
  BY DictsAre
<1>1. 0 \in S
  <2> DEFINE f == [depth \in 0..0 |-> [dict \in {} |-> {}]]
  <2>1. f[0] = [dict \in Dicts[0] |-> DistinctItems(dict, f[0 - 1])]
    BY <1>0
  <2>2. f = [depth \in 0..0 |-> f[depth]]
    OBVIOUS
  <2> HIDE DEF f
  <2>3. Is(f, 0)
    BY <2>1, <2>2
  <2> HIDE DEF Is
  <2>4. Exists(0)
    BY <2>3
  <2> QED  BY <2>4
<1>2. ASSUME NEW m \in S  PROVE m + 1 \in S
  <2>1. PICK f : Is(f, m)
    OBVIOUS
  <2> DEFINE g == [depth \in 0..(m + 1) |->
                     IF depth = m + 1
                     THEN [dict \in Dicts[m + 1] |-> DistinctItems(dict, f[m])]
                     ELSE f[depth]]
  <2>2. ASSUME NEW d \in 0..(m + 1)
        PROVE  g[d] = [dict \in Dicts[d] |-> DistinctItems(dict, g[d - 1])]
    <3>1. CASE d = m + 1
      BY <3>1
    <3>2. CASE d = 0
      BY <1>0, <2>1, <3>2
    <3>3. CASE d \in 1..m
      <4>1. d \in 0..m /\ d # m + 1 /\ d - 1 \in 0..(m + 1) /\ d - 1 # m + 1
        BY <3>3
      <4>2. g[d - 1] = f[d - 1] /\ g[d] = f[d]
        BY <4>1
      <4>3. f[d] = [dict \in Dicts[d] |-> DistinctItems(dict, f[d - 1])]
        BY <2>1, <4>1
      <4> QED  BY <4>2, <4>3
    <3> QED  BY <3>1, <3>2, <3>3
  <2>3. g = [depth \in 0..(m + 1) |-> g[depth]]
    OBVIOUS
  <2> HIDE DEF g
  <2>4. Is(g, m + 1)
    BY <2>2, <2>3
  <2> HIDE DEF Is
  <2>5. Exists(m + 1)
    BY <2>4
  <2> QED  BY <2>5
<1> HIDE DEF S
<1>3. MaxDepth \in S
  <2>1. S \in SUBSET Nat
    BY DEF S
  <2> QED  BY <1>1, <1>2, <2>1, InductiveSet, DepthIsNatural
<1>4. Exists(MaxDepth)
  BY <1>3 DEF S
<1>5. DistinctTo = CHOOSE f : Is(f, MaxDepth)
  BY DEF DistinctTo
<1>6. Is(DistinctTo, MaxDepth)
  BY <1>4, <1>5
<1> QED  BY <1>6

LEMMA DeclaredToIs ==
  \A n \in 0..MaxDepth :
    DeclaredTo[n] = [dict \in Dicts[n] |-> DeclaredItems(dict, DeclaredTo[n - 1])]
<1> DEFINE Is(f, m) == f = [depth \in 0..m |->
                              [dict \in Dicts[depth] |-> DeclaredItems(dict, f[depth - 1])]]
           Exists(m) == \E f : Is(f, m)
           S == {m \in Nat : Exists(m)}
<1>0. Dicts[0] = {}
  BY DictsAre
<1>1. 0 \in S
  <2> DEFINE f == [depth \in 0..0 |-> [dict \in {} |-> {}]]
  <2>1. f[0] = [dict \in Dicts[0] |-> DeclaredItems(dict, f[0 - 1])]
    BY <1>0
  <2>2. f = [depth \in 0..0 |-> f[depth]]
    OBVIOUS
  <2> HIDE DEF f
  <2>3. Is(f, 0)
    BY <2>1, <2>2
  <2> HIDE DEF Is
  <2>4. Exists(0)
    BY <2>3
  <2> QED  BY <2>4
<1>2. ASSUME NEW m \in S  PROVE m + 1 \in S
  <2>1. PICK f : Is(f, m)
    OBVIOUS
  <2> DEFINE g == [depth \in 0..(m + 1) |->
                     IF depth = m + 1
                     THEN [dict \in Dicts[m + 1] |-> DeclaredItems(dict, f[m])]
                     ELSE f[depth]]
  <2>2. ASSUME NEW d \in 0..(m + 1)
        PROVE  g[d] = [dict \in Dicts[d] |-> DeclaredItems(dict, g[d - 1])]
    <3>1. CASE d = m + 1
      BY <3>1
    <3>2. CASE d = 0
      BY <1>0, <2>1, <3>2
    <3>3. CASE d \in 1..m
      <4>1. d \in 0..m /\ d # m + 1 /\ d - 1 \in 0..(m + 1) /\ d - 1 # m + 1
        BY <3>3
      <4>2. g[d - 1] = f[d - 1] /\ g[d] = f[d]
        BY <4>1
      <4>3. f[d] = [dict \in Dicts[d] |-> DeclaredItems(dict, f[d - 1])]
        BY <2>1, <4>1
      <4> QED  BY <4>2, <4>3
    <3> QED  BY <3>1, <3>2, <3>3
  <2>3. g = [depth \in 0..(m + 1) |-> g[depth]]
    OBVIOUS
  <2> HIDE DEF g
  <2>4. Is(g, m + 1)
    BY <2>2, <2>3
  <2> HIDE DEF Is
  <2>5. Exists(m + 1)
    BY <2>4
  <2> QED  BY <2>5
<1> HIDE DEF S
<1>3. MaxDepth \in S
  <2>1. S \in SUBSET Nat
    BY DEF S
  <2> QED  BY <1>1, <1>2, <2>1, InductiveSet, DepthIsNatural
<1>4. Exists(MaxDepth)
  BY <1>3 DEF S
<1>5. DeclaredTo = CHOOSE f : Is(f, MaxDepth)
  BY DEF DeclaredTo
<1>6. Is(DeclaredTo, MaxDepth)
  BY <1>4, <1>5
<1> QED  BY <1>6

LEMMA NoClashToIs ==
  \A n \in 0..MaxDepth :
    NoClashTo[n] = [dict \in Dicts[n] |-> NoClashItems(dict, NoClashTo[n - 1])]
<1> DEFINE Is(f, m) == f = [depth \in 0..m |->
                              [dict \in Dicts[depth] |-> NoClashItems(dict, f[depth - 1])]]
           Exists(m) == \E f : Is(f, m)
           S == {m \in Nat : Exists(m)}
<1>0. Dicts[0] = {}
  BY DictsAre
<1>1. 0 \in S
  <2> DEFINE f == [depth \in 0..0 |-> [dict \in {} |-> {}]]
  <2>1. f[0] = [dict \in Dicts[0] |-> NoClashItems(dict, f[0 - 1])]
    BY <1>0
  <2>2. f = [depth \in 0..0 |-> f[depth]]
    OBVIOUS
  <2> HIDE DEF f
  <2>3. Is(f, 0)
    BY <2>1, <2>2
  <2> HIDE DEF Is
  <2>4. Exists(0)
    BY <2>3
  <2> QED  BY <2>4
<1>2. ASSUME NEW m \in S  PROVE m + 1 \in S
  <2>1. PICK f : Is(f, m)
    OBVIOUS
  <2> DEFINE g == [depth \in 0..(m + 1) |->
                     IF depth = m + 1
                     THEN [dict \in Dicts[m + 1] |-> NoClashItems(dict, f[m])]
                     ELSE f[depth]]
  <2>2. ASSUME NEW d \in 0..(m + 1)
        PROVE  g[d] = [dict \in Dicts[d] |-> NoClashItems(dict, g[d - 1])]
    <3>1. CASE d = m + 1
      BY <3>1
    <3>2. CASE d = 0
      BY <1>0, <2>1, <3>2
    <3>3. CASE d \in 1..m
      <4>1. d \in 0..m /\ d # m + 1 /\ d - 1 \in 0..(m + 1) /\ d - 1 # m + 1
        BY <3>3
      <4>2. g[d - 1] = f[d - 1] /\ g[d] = f[d]
        BY <4>1
      <4>3. f[d] = [dict \in Dicts[d] |-> NoClashItems(dict, f[d - 1])]
        BY <2>1, <4>1
      <4> QED  BY <4>2, <4>3
    <3> QED  BY <3>1, <3>2, <3>3
  <2>3. g = [depth \in 0..(m + 1) |-> g[depth]]
    OBVIOUS
  <2> HIDE DEF g
  <2>4. Is(g, m + 1)
    BY <2>2, <2>3
  <2> HIDE DEF Is
  <2>5. Exists(m + 1)
    BY <2>4
  <2> QED  BY <2>5
<1> HIDE DEF S
<1>3. MaxDepth \in S
  <2>1. S \in SUBSET Nat
    BY DEF S
  <2> QED  BY <1>1, <1>2, <2>1, InductiveSet, DepthIsNatural
<1>4. Exists(MaxDepth)
  BY <1>3 DEF S
<1>5. NoClashTo = CHOOSE f : Is(f, MaxDepth)
  BY DEF NoClashTo
<1>6. Is(NoClashTo, MaxDepth)
  BY <1>4, <1>5
<1> QED  BY <1>6

-----------------------------------------------------------------------------
(* Types *)

\* A value is a leaf or a group with a dict.
LEMMA ValueIs ==
  ASSUME NEW dicts, NEW v \in Value(dicts)
  PROVE  /\ v.kind # "dict" => v \in Leaf
         /\ v.kind = "dict" => v.items \in dicts
BY DEF Value, Leaf, TextLeaf

LEMMA ValuesAre ==
  ASSUME NEW dicts
  PROVE  /\ \A v \in Leaf : v \in Value(dicts) /\ v.kind # "dict"
         /\ \A d \in dicts : Dict(d) \in Value(dicts)
         /\ \A d : Dict(d).kind = "dict" /\ Dict(d).items = d
BY DEF Value, Leaf, TextLeaf, Dict

\* If a key has templates, one of them is the first.
LEMMA FirstIsTemplate ==
  ASSUME NEW key \in Path, Templated(key) # {}
  PROVE  FirstTemplate(key) \in Templates
<1> DEFINE T == Templated(key)
           First(i) == i \in T /\ \A j \in T : i <= j
<1>1. T \in SUBSET Nat
  BY DEF Templated, Path
<1>2. PICK n : n \in T
  OBVIOUS
<1>3. \E i : First(i)
  <2> HIDE DEF T
  <2>1. T \in SUBSET Nat /\ T # {}
    BY <1>1, <1>2
  <2> QED  BY <2>1, LeastNatural
<1>4. \E i \in T : \A j \in T : i <= j
  BY <1>3
<1> QED  BY <1>4 DEF FirstTemplate, Templated

\* A key expands to keys.
LEMMA ExpandedIsPaths ==
  ASSUME NEW key \in Path
  PROVE  Expanded(key) \in Seq(Path)
<1> DEFINE N == Names \X (Indices \cup Templates \cup {NoIndex})
           t == FirstTemplate(key)
           n == Len(key)
           k == Len(eval[t])
           f == [v \in 1..k |-> Replaced(key, t, eval[t][v])]
<1>1. key \in Seq(N) /\ n \in Nat /\ DOMAIN key = 1..n
  BY DEF Path
<1>2. CASE Templated(key) = {}
  BY <1>2 DEF Expanded
<1>3. CASE Templated(key) # {}
  <2>1. t \in Templates
    BY <1>3, FirstIsTemplate
  <2> HIDE DEF t
  <2>2. eval[t] \in Seq(Indices)
    BY <2>1, FilesAssumption
  <2>3. k \in Nat /\ DOMAIN eval[t] = 1..k /\ \A v \in 1..k : eval[t][v] \in Indices
    BY <2>2
  <2>4. ASSUME NEW v \in 1..k  PROVE f[v] \in Path
    <3> DEFINE x == eval[t][v]
               r == Replaced(key, t, x)
    <3>1. x \in Indices
      BY <2>3
    <3>2. \A i \in 1..n : r[i] \in N
      <4> TAKE i \in 1..n
      <4>1. key[i] \in N
        BY <1>1
      <4> HIDE DEF x
      <4> QED  BY <1>1, <3>1, <4>1 DEF Replaced
    <3>3. r = [i \in 1..n |-> r[i]]
      BY <1>1 DEF Replaced
    <3> HIDE DEF N, r
    <3>4. r \in Seq(N)
      BY <1>1, <3>2, <3>3, FunctionIsSequence
    <3> QED  BY <3>4 DEF N, r, Path
  <2>5. f = [v \in 1..k |-> f[v]]
    OBVIOUS
  <2>6. Expanded(key) = f
    BY <1>3, <2>3 DEF Expanded, t
  <2> HIDE DEF f, k, N
  <2>7. f \in Seq(Path)
    BY <2>3, <2>4, <2>5, FunctionIsSequence
  <2> QED  BY <2>6, <2>7
<1> QED  BY <1>2, <1>3

\* Flattened, lists of one kind are a list of that kind.
LEMMA FlattenTypes ==
  ASSUME NEW V, NEW ss \in Seq(Seq(V))
  PROVE  FlattenSeq(ss) \in Seq(V)
<1>1. Append(ss, <<>>) \in Seq(Seq(V)) /\ <<>> \in Seq(V)
  OBVIOUS
<1> QED  BY <1>1, FlattenAppend

\* The copies of items have paths for keys, and their values.
LEMMA CopiesTypes ==
  ASSUME NEW V, NEW dict \in Lists(Path, V)
  PROVE  Copies(dict) \in Lists(Path, V)
<1> DEFINE Z == Path \X V
           n == Len(dict)
           e(i) == Expanded(dict[i][1])
           s(i) == [k \in DOMAIN e(i) |-> <<e(i)[k], dict[i][2]>>]
           ss == [i \in 1..n |-> s(i)]
<1>1. /\ n \in Nat /\ DOMAIN dict = 1..n
      /\ \A i \in 1..n : dict[i][1] \in Path /\ dict[i][2] \in V
  BY DEF Lists
<1>2. ASSUME NEW i \in 1..n  PROVE s(i) \in Seq(Z)
  <2> DEFINE f == s(i)
             m == Len(e(i))
  <2>1. e(i) \in Seq(Path)
    BY <1>1, ExpandedIsPaths
  <2> HIDE DEF e
  <2>2. m \in Nat /\ DOMAIN e(i) = 1..m /\ \A k \in 1..m : e(i)[k] \in Path
    BY <2>1
  <2>3. \A k \in 1..m : f[k] \in Z
    BY <1>1, <2>2
  <2>4. f = [k \in 1..m |-> f[k]]
    BY <2>2
  <2> HIDE DEF f, m, Z
  <2>5. f \in Seq(Z)
    BY <2>2, <2>3, <2>4, FunctionIsSequence
  <2> QED  BY <2>5 DEF f
<1>3. Copies(dict) = FlattenSeq(ss)
  BY <1>1 DEF Copies
<1>4. \A i \in 1..n : ss[i] \in Seq(Z)
  BY <1>2
<1>5. ss = [i \in 1..n |-> ss[i]]
  OBVIOUS
<1> HIDE DEF ss, n, Z
<1>6. ss \in Seq(Seq(Z))
  BY <1>1, <1>4, <1>5, FunctionIsSequence
<1>7. FlattenSeq(ss) \in Seq(Z)
  BY <1>6, FlattenTypes
<1> QED  BY <1>3, <1>7 DEF Lists, Z

\* Put into a dict, items make a dict with their values.
LEMMA PutAllTypes ==
  ASSUME NEW X, NEW Y, NEW items \in Lists(X, Y)
  PROVE  /\ PutAll(<<>>, items) \in Lists(X, Y)
         /\ NoKeyTwice(PutAll(<<>>, items))
         /\ Same(PutAll(<<>>, items), items)
<1>1. <<>> \in Lists(X, Y) /\ NoKeyTwice(<<>>) /\ <<>> \o items = items
  BY DEF Lists, NoKeyTwice
<1> QED  BY <1>1, SamePutAll

\* The items of a dict in a file once template has had them.
TemplateItems(dict, inner) ==
  [q \in DOMAIN Copies(dict) |-> templateItem(Copies(dict)[q], inner)]

LEMMA TemplateItemsTypes ==
  ASSUME NEW A, NEW B, NEW dict \in Lists(Path, Value(A)), NEW inner \in [A -> B]
  PROVE  /\ TemplateItems(dict, inner) \in Lists(Path, Value(B))
         /\ templateItems(dict, inner) = PutAll(<<>>, TemplateItems(dict, inner))
         /\ Len(TemplateItems(dict, inner)) = Len(Copies(dict))
<1> DEFINE c == Copies(dict)
           n == Len(c)
           Z == Path \X Value(B)
           f == TemplateItems(dict, inner)
<1>1. c \in Lists(Path, Value(A))
  BY CopiesTypes
<1> HIDE DEF c
<1>2. n \in Nat /\ DOMAIN c = 1..n /\ \A q \in 1..n : c[q][1] \in Path /\ c[q][2] \in Value(A)
  BY <1>1 DEF Lists
<1>3. \A q \in 1..n : templateItem(c[q], inner) \in Z
  <2> TAKE q \in 1..n
  <2>1. CASE c[q][2].kind = "dict"
    <3>1. c[q][2].items \in A
      BY <1>2, <2>1, ValueIs
    <3>2. Dict(inner[c[q][2].items]) \in Value(B)
      BY <3>1, ValuesAre
    <3> QED  BY <1>2, <2>1, <3>2 DEF templateItem
  <2>2. CASE c[q][2].kind # "dict"
    <3>1. c[q][2] \in Value(B)
      BY <1>2, <2>2, ValueIs, ValuesAre
    <3> QED  BY <1>2, <2>2, <3>1 DEF templateItem
  <2> QED  BY <2>1, <2>2
<1>4. f = [q \in 1..n |-> templateItem(c[q], inner)]
  BY <1>2 DEF TemplateItems, c
<1>5. f = [q \in 1..n |-> f[q]] /\ \A q \in 1..n : f[q] \in Z
  BY <1>3, <1>4
<1>6. templateItems(dict, inner) = PutAll(<<>>, f)
  BY DEF templateItems, TemplateItems
<1> HIDE DEF f, n, Z
<1>7. f \in Seq(Z) /\ Len(f) = n
  BY <1>2, <1>5, FunctionIsSequence
<1> QED  BY <1>6, <1>7 DEF f, n, c, Z, Lists

\* Items, with the dicts in them replaced by lists of leaves, are lists of leaves.
Unders(items, inner) == [i \in DOMAIN items |-> Under(items[i], inner[items[i][2].items])]

LEMMA UnderTypes ==
  ASSUME NEW A, NEW items \in Lists(Path, Value(A)), NEW inner \in [A -> Lists(Path, Leaf)]
  PROVE  /\ Unders(items, inner) \in Seq(Lists(Path, Leaf))
         /\ Len(Unders(items, inner)) = Len(items)
<1> DEFINE n == Len(items)
           W == Lists(Path, Leaf)
           Z == Path \X Leaf
           f == Unders(items, inner)
<1>1. /\ n \in Nat /\ DOMAIN items = 1..n
      /\ \A i \in 1..n : items[i] = <<items[i][1], items[i][2]>>
      /\ \A i \in 1..n : items[i][1] \in Path /\ items[i][2] \in Value(A)
  BY DEF Lists
<1>2. ASSUME NEW i \in 1..n  PROVE f[i] \in W
  <2> DEFINE item == items[i]
             list == inner[item[2].items]
  <2>1. f[i] = Under(item, list)
    BY <1>1 DEF Unders
  <2>2. CASE item[2].kind = "dict"
    <3>1. item[2].items \in A
      BY <1>1, <2>2, ValueIs
    <3>2. list \in Seq(Z)
      BY <3>1 DEF Lists
    <3> DEFINE g == [k \in DOMAIN list |-> <<item[1] \o list[k][1], list[k][2]>>]
               m == Len(list)
    <3>3. f[i] = g
      BY <2>1, <2>2 DEF Under
    <3>4. item[1] \in Path
      BY <1>1
    <3> HIDE DEF item, list
    <3>5. /\ m \in Nat /\ DOMAIN list = 1..m
          /\ \A k \in 1..m : list[k][1] \in Path /\ list[k][2] \in Leaf
      BY <3>2
    <3>6. \A k \in 1..m : item[1] \o list[k][1] \in Path
      BY <3>4, <3>5 DEF Path
    <3>7. \A k \in 1..m : g[k] \in Z
      BY <3>5, <3>6
    <3>8. g = [k \in 1..m |-> g[k]]
      BY <3>5
    <3> HIDE DEF g, m, Z
    <3>9. g \in Seq(Z)
      BY <3>5, <3>7, <3>8, FunctionIsSequence
    <3> QED  BY <3>3, <3>9 DEF Lists, Z
  <2>3. CASE item[2].kind # "dict"
    <3>1. item[2] \in Leaf
      BY <1>1, <2>3, ValueIs
    <3>2. item[1] \in Path /\ item = <<item[1], item[2]>>
      BY <1>1
    <3>3. f[i] = <<item>>
      BY <2>1, <2>3 DEF Under
    <3> HIDE DEF item
    <3>4. item \in Z
      BY <3>1, <3>2
    <3> HIDE DEF Z
    <3>5. <<item>> \in Seq(Z)
      BY <3>4
    <3> QED  BY <3>3, <3>5 DEF Lists, Z
  <2> QED  BY <2>2, <2>3
<1>3. f = [i \in 1..n |-> f[i]]
  BY <1>1 DEF Unders
<1> HIDE DEF f, n, W
<1>4. f \in Seq(W) /\ Len(f) = n
  BY <1>1, <1>2, <1>3, FunctionIsSequence
<1> QED  BY <1>4 DEF f, n, W

LEMMA TemplateTypes ==
  \A n \in 0..MaxDepth : templateTo[n] \in [Dicts[n] -> Dicts[n]]
<1> DEFINE S == {n \in Nat : n <= MaxDepth => templateTo[n] \in [Dicts[n] -> Dicts[n]]}
<1>1. 0 \in S
  <2>1. 0 \in 0..MaxDepth
    BY DepthIsNatural
  <2>2. Dicts[0] = {}
    BY DictsAre
  <2>3. templateTo[0] = [dict \in Dicts[0] |-> templateItems(dict, templateTo[0 - 1])]
    BY <2>1, templateToIs
  <2> QED  BY <2>2, <2>3
<1>2. ASSUME NEW n \in S  PROVE n + 1 \in S
  <2> SUFFICES ASSUME n + 1 <= MaxDepth
               PROVE  templateTo[n + 1] \in [Dicts[n + 1] -> Dicts[n + 1]]
    OBVIOUS
  <2>1. /\ n \in Nat /\ n + 1 \in 0..MaxDepth /\ n + 1 \in 1..MaxDepth /\ (n + 1) - 1 = n
        /\ templateTo[n] \in [Dicts[n] -> Dicts[n]]
    BY DepthIsNatural
  <2> HIDE DEF S
  <2>2. /\ Dicts[n + 1] = Lists(Path, Value(Dicts[n]))
        /\ Dicts[n + 1] = Lists(Path, Value(Dicts[n]))
    BY <2>1, DictsAre
  <2>3. templateTo[n + 1] = [dict \in Dicts[n + 1] |-> templateItems(dict, templateTo[n])]
    BY <2>1, templateToIs
  <2>4. ASSUME NEW dict \in Dicts[n + 1]
        PROVE  templateItems(dict, templateTo[n]) \in Dicts[n + 1]
    <3>1. /\ TemplateItems(dict, templateTo[n]) \in Lists(Path, Value(Dicts[n]))
          /\ templateItems(dict, templateTo[n]) = PutAll(<<>>, TemplateItems(dict, templateTo[n]))
      BY <2>1, <2>2, TemplateItemsTypes
    <3> QED  BY <2>2, <3>1, PutAllTypes
  <2> QED  BY <2>3, <2>4
<1> HIDE DEF S
<1>3. \A n \in Nat : n \in S
  <2>1. S \in SUBSET Nat
    BY DEF S
  <2> QED  BY <1>1, <1>2, <2>1, InductiveSet
<1> QED  BY <1>3, DepthIsNatural DEF S

LEMMA FlattenItemsTypes ==
  ASSUME NEW A, NEW dict \in Lists(Path, Value(A)), NEW inner \in [A -> Lists(Path, Leaf)]
  PROVE  /\ FlattenSeq(Unders(dict, inner)) \in Lists(Path, Leaf)
         /\ flattenItems(dict, inner) \in Lists(Path, Leaf)
         /\ NoKeyTwice(flattenItems(dict, inner))
         /\ Same(flattenItems(dict, inner), FlattenSeq(Unders(dict, inner)))
<1> DEFINE Z == Path \X Leaf
           u == Unders(dict, inner)
<1>1. u \in Seq(Seq(Z))
  BY UnderTypes DEF Lists
<1>2. flattenItems(dict, inner) = PutAll(<<>>, FlattenSeq(u))
  BY DEF flattenItems, Unders
<1> HIDE DEF Z, u
<1>3. FlattenSeq(u) \in Seq(Z)
  BY <1>1, FlattenTypes
<1>4. FlattenSeq(u) \in Lists(Path, Leaf)
  BY <1>3 DEF Lists, Z
<1> QED  BY <1>2, <1>4, PutAllTypes DEF u

LEMMA FlattenToTypes ==
  \A n \in 0..MaxDepth : flattenTo[n] \in [Dicts[n] -> Lists(Path, Leaf)]
<1> DEFINE S == {n \in Nat : n <= MaxDepth =>
                   flattenTo[n] \in [Dicts[n] -> Lists(Path, Leaf)]}
<1>1. 0 \in S
  <2>1. 0 \in 0..MaxDepth
    BY DepthIsNatural
  <2>2. Dicts[0] = {}
    BY DictsAre
  <2>3. flattenTo[0] = [dict \in Dicts[0] |-> flattenItems(dict, flattenTo[0 - 1])]
    BY <2>1, flattenToIs
  <2> QED  BY <2>2, <2>3
<1>2. ASSUME NEW n \in S  PROVE n + 1 \in S
  <2> SUFFICES ASSUME n + 1 <= MaxDepth
               PROVE  flattenTo[n + 1] \in [Dicts[n + 1] -> Lists(Path, Leaf)]
    OBVIOUS
  <2>1. /\ n \in Nat /\ n + 1 \in 0..MaxDepth /\ n + 1 \in 1..MaxDepth /\ (n + 1) - 1 = n
        /\ flattenTo[n] \in [Dicts[n] -> Lists(Path, Leaf)]
    BY DepthIsNatural
  <2> HIDE DEF S
  <2>2. Dicts[n + 1] = Lists(Path, Value(Dicts[n]))
    BY <2>1, DictsAre
  <2>3. flattenTo[n + 1] = [dict \in Dicts[n + 1] |-> flattenItems(dict, flattenTo[n])]
    BY <2>1, flattenToIs
  <2>4. ASSUME NEW dict \in Dicts[n + 1]
        PROVE  flattenItems(dict, flattenTo[n]) \in Lists(Path, Leaf)
    BY <2>1, <2>2, FlattenItemsTypes
  <2> QED  BY <2>3, <2>4
<1> HIDE DEF S
<1>3. \A n \in Nat : n \in S
  <2>1. S \in SUBSET Nat
    BY DEF S
  <2> QED  BY <1>1, <1>2, <2>1, InductiveSet
<1> QED  BY <1>3, DepthIsNatural DEF S

LEMMA DeclaredItemsTypes ==
  ASSUME NEW A, NEW dict \in Lists(Path, Value(A)), NEW inner \in [A -> Lists(Path, Leaf)]
  PROVE  /\ DeclaredItems(dict, inner) = FlattenSeq(Unders(Copies(dict), inner))
         /\ DeclaredItems(dict, inner) \in Lists(Path, Leaf)
<1>1. Copies(dict) \in Lists(Path, Value(A))
  BY CopiesTypes
<1>2. DeclaredItems(dict, inner) = FlattenSeq(Unders(Copies(dict), inner))
  BY DEF DeclaredItems, Unders
<1> QED  BY <1>1, <1>2, FlattenItemsTypes

LEMMA DeclaredToTypes ==
  \A n \in 0..MaxDepth : DeclaredTo[n] \in [Dicts[n] -> Lists(Path, Leaf)]
<1> DEFINE S == {n \in Nat : n <= MaxDepth =>
                   DeclaredTo[n] \in [Dicts[n] -> Lists(Path, Leaf)]}
<1>1. 0 \in S
  <2>1. 0 \in 0..MaxDepth
    BY DepthIsNatural
  <2>2. Dicts[0] = {}
    BY DictsAre
  <2>3. DeclaredTo[0] = [dict \in Dicts[0] |-> DeclaredItems(dict, DeclaredTo[0 - 1])]
    BY <2>1, DeclaredToIs
  <2> QED  BY <2>2, <2>3
<1>2. ASSUME NEW n \in S  PROVE n + 1 \in S
  <2> SUFFICES ASSUME n + 1 <= MaxDepth
               PROVE  DeclaredTo[n + 1] \in [Dicts[n + 1] -> Lists(Path, Leaf)]
    OBVIOUS
  <2>1. /\ n \in Nat /\ n + 1 \in 0..MaxDepth /\ n + 1 \in 1..MaxDepth /\ (n + 1) - 1 = n
        /\ DeclaredTo[n] \in [Dicts[n] -> Lists(Path, Leaf)]
    BY DepthIsNatural
  <2> HIDE DEF S
  <2>2. Dicts[n + 1] = Lists(Path, Value(Dicts[n]))
    BY <2>1, DictsAre
  <2>3. DeclaredTo[n + 1] = [dict \in Dicts[n + 1] |-> DeclaredItems(dict, DeclaredTo[n])]
    BY <2>1, DeclaredToIs
  <2>4. ASSUME NEW dict \in Dicts[n + 1]
        PROVE  DeclaredItems(dict, DeclaredTo[n]) \in Lists(Path, Leaf)
    BY <2>1, <2>2, DeclaredItemsTypes
  <2> QED  BY <2>3, <2>4
<1> HIDE DEF S
<1>3. \A n \in Nat : n \in S
  <2>1. S \in SUBSET Nat
    BY DEF S
  <2> QED  BY <1>1, <1>2, <2>1, InductiveSet
<1> QED  BY <1>3, DepthIsNatural DEF S

-----------------------------------------------------------------------------
(* Groups *)

LEMMA ConcatCancels ==
  ASSUME NEW Z, NEW p \in Seq(Z), NEW a \in Seq(Z), NEW b \in Seq(Z), p \o a = p \o b
  PROVE  a = b
<1> DEFINE c == p \o a
           m == Len(p)
<1>1. /\ m \in Nat /\ Len(a) \in Nat /\ Len(b) \in Nat
      /\ Len(c) = m + Len(a) /\ Len(c) = m + Len(b)
  OBVIOUS
<1>2. /\ \A i \in 1..Len(a) : c[m + i] = a[i]
      /\ \A i \in 1..Len(b) : c[m + i] = b[i]
  OBVIOUS
<1> HIDE DEF c, m
<1>3. Len(a) = Len(b) /\ \A i \in 1..Len(a) : a[i] = b[i]
  BY <1>1, <1>2
<1> QED  BY <1>3, SeqEqual

\* Under a group's key, keys stay apart,
Prefixed(p, list) == [i \in DOMAIN list |-> <<p \o list[i][1], list[i][2]>>]

LEMMA PrefixedLast ==
  ASSUME NEW Y, NEW list \in Lists(Path, Y), NEW p \in Path, NEW key, NEW v
  PROVE  LastIs(Prefixed(p, list), key, v) <=>
           \E k \in Path : key = p \o k /\ LastIs(list, k, v)
<1> DEFINE n == Len(list)
           g == Prefixed(p, list)
<1>1. n \in Nat /\ DOMAIN list = 1..n /\ \A i \in 1..n : list[i][1] \in Path
  BY DEF Lists
<1>2. DOMAIN g = 1..n /\ \A i \in 1..n : g[i][1] = p \o list[i][1] /\ g[i][2] = list[i][2]
  BY <1>1 DEF Prefixed
<1> HIDE DEF n, g
<1>3. ASSUME LastIs(g, key, v)  PROVE \E k \in Path : key = p \o k /\ LastIs(list, k, v)
  <2>1. PICK i \in 1..n : /\ g[i][1] = key /\ g[i][2] = v
                          /\ \A j \in 1..n : g[j][1] = key => j <= i
    BY <1>2, <1>3 DEF LastIs
  <2> DEFINE k == list[i][1]
  <2>2. k \in Path /\ key = p \o k /\ list[i][2] = v
    BY <1>1, <1>2, <2>1
  <2>3. \A j \in 1..n : list[j][1] = k => j <= i
    BY <1>2, <2>1, <2>2
  <2>4. LastIs(list, k, v)
    BY <1>1, <2>2, <2>3 DEF LastIs
  <2> QED  BY <2>2, <2>4
<1>4. ASSUME NEW k \in Path, key = p \o k, LastIs(list, k, v)  PROVE LastIs(g, key, v)
  <2>1. PICK i \in 1..n : /\ list[i][1] = k /\ list[i][2] = v
                          /\ \A j \in 1..n : list[j][1] = k => j <= i
    BY <1>1, <1>4 DEF LastIs
  <2>2. ASSUME NEW j \in 1..n, g[j][1] = key  PROVE j <= i
    <3>1. p \o list[j][1] = p \o k
      BY <1>2, <1>4, <2>2
    <3>2. list[j][1] = k
      BY <1>1, <3>1, ConcatCancels DEF Path
    <3> QED  BY <2>1, <3>2
  <2> QED  BY <1>2, <1>4, <2>1, <2>2 DEF LastIs
<1> QED  BY <1>3, <1>4 DEF g

\* and lists that agree agree there too.
LEMMA UnderSame ==
  ASSUME NEW Y, NEW a \in Lists(Path, Y), NEW b \in Lists(Path, Y), Same(a, b),
         NEW s, NEW t, s[1] \in Path, s[1] = t[1], s[2].kind = "dict", t[2].kind = "dict"
  PROVE  Same(Under(s, a), Under(t, b))
<1> DEFINE p == s[1]
<1>1. Under(s, a) = Prefixed(p, a) /\ Under(t, b) = Prefixed(p, b)
  BY DEF Under, Prefixed
<1>2. ASSUME NEW key, NEW v
      PROVE  LastIs(Prefixed(p, a), key, v) <=> LastIs(Prefixed(p, b), key, v)
  <2>1. LastIs(Prefixed(p, a), key, v) <=> \E k \in Path : key = p \o k /\ LastIs(a, k, v)
    BY PrefixedLast
  <2>2. LastIs(Prefixed(p, b), key, v) <=> \E k \in Path : key = p \o k /\ LastIs(b, k, v)
    BY PrefixedLast
  <2> QED  BY <2>1, <2>2 DEF Same
<1> QED  BY <1>1, <1>2 DEF Same

LEMMA OwnValues ==
  ASSUME NEW X, NEW V, NEW list \in Lists(X, V)
  PROVE  list \in Lists(X, {list[i][2] : i \in DOMAIN list})
<1> DEFINE n == Len(list)
           W == {list[i][2] : i \in DOMAIN list}
           Z == X \X W
<1>1. n \in Nat /\ DOMAIN list = 1..n /\ list = [i \in 1..n |-> list[i]]
  BY DEF Lists
<1>2. ASSUME NEW i \in 1..n  PROVE list[i] \in Z
  <2>1. list[i] \in X \X V
    BY DEF Lists
  <2>2. PICK x \in X, v \in V : list[i] = <<x, v>>
    BY <2>1
  <2>3. list[i][2] = v /\ list[i][2] \in W
    BY <1>1, <2>2
  <2> HIDE DEF W
  <2> QED  BY <2>2, <2>3
<1> HIDE DEF n, Z
<1>3. list \in Seq(Z)
  BY <1>1, <1>2, FunctionIsSequence
<1> QED  BY <1>3 DEF Lists, Z

\* The values of the copies are those of the items.
LEMMA CopiesFrom ==
  ASSUME NEW V, NEW dict \in Lists(Path, V), NEW q \in DOMAIN Copies(dict)
  PROVE  \E i \in DOMAIN dict : Copies(dict)[q][2] = dict[i][2]
<1> DEFINE W == {dict[i][2] : i \in DOMAIN dict}
<1>1. dict \in Lists(Path, W)
  BY OwnValues
<1> HIDE DEF W
<1>2. Copies(dict) \in Lists(Path, W)
  BY <1>1, CopiesTypes
<1>3. Copies(dict)[q][2] \in W
  BY <1>2 DEF Lists
<1> QED  BY <1>3 DEF W

\* One depth: if the groups' registers come out as declared, so do the dict's.
LEMMA ItemsAsDeclared ==
  ASSUME NEW A, NEW B, NEW dict \in Lists(Path, Value(A)), NEW tmpl \in [A -> B],
         NEW flat \in [B -> Lists(Path, Leaf)], NEW decl \in [A -> Lists(Path, Leaf)],
         NEW clash, NoClashItems(dict, clash),
         \A group \in A : clash[group] => Same(flat[tmpl[group]], decl[group])
  PROVE  Same(flattenItems(templateItems(dict, tmpl), flat), DeclaredItems(dict, decl))
<1> DEFINE c == Copies(dict)
           l == TemplateItems(dict, tmpl)
           n == Len(c)
           W == Lists(Path, Leaf)
<1>1. c \in Lists(Path, Value(A)) /\ NoKeyTwice(c)
  BY CopiesTypes DEF NoClashItems
<1>2. l \in Lists(Path, Value(B)) /\ templateItems(dict, tmpl) = PutAll(<<>>, l) /\ Len(l) = n
  BY TemplateItemsTypes
<1>3. /\ n \in Nat /\ DOMAIN c = 1..n /\ DOMAIN l = 1..n
      /\ \A q \in 1..n : /\ c[q] = <<c[q][1], c[q][2]>> /\ c[q][1] \in Path
                         /\ c[q][2] \in Value(A)
  BY <1>1, <1>2 DEF Lists
<1>4. \A q \in 1..n : l[q] = templateItem(c[q], tmpl)
  BY <1>3 DEF TemplateItems
<1>5. \A q \in 1..n : c[q][2].kind = "dict" => clash[c[q][2].items]
  <2> TAKE q \in 1..n
  <2>1. q \in DOMAIN Copies(dict)
    BY <1>3
  <2>2. PICK i \in DOMAIN dict : c[q][2] = dict[i][2]
    BY <2>1, CopiesFrom
  <2> QED  BY <2>2 DEF NoClashItems
<1> HIDE DEF c, l, n
<1>6. templateItems(dict, tmpl) = l
  <2>1. \A q \in 1..n : l[q][1] = c[q][1]
    BY <1>4 DEF templateItem
  <2>2. NoKeyTwice(l)
    BY <1>1, <1>3, <2>1 DEF NoKeyTwice
  <2> QED  BY <1>2, <2>2, PutDistinct
<1> DEFINE uu == Unders(l, flat)
           dd == Unders(c, decl)
<1>7. uu \in Seq(W) /\ dd \in Seq(W) /\ Len(uu) = n /\ Len(dd) = n
  <2>1. uu \in Seq(W) /\ Len(uu) = Len(l)
    BY <1>2, UnderTypes
  <2>2. dd \in Seq(W) /\ Len(dd) = n
    BY <1>1, UnderTypes DEF n
  <2> QED  BY <1>2, <2>1, <2>2
<1>8. ASSUME NEW q \in 1..n  PROVE Same(uu[q], dd[q])
  <2>1. /\ uu[q] = Under(l[q], flat[l[q][2].items])
        /\ dd[q] = Under(c[q], decl[c[q][2].items])
    BY <1>3 DEF Unders
  <2>2. CASE c[q][2].kind = "dict"
    <3> DEFINE group == c[q][2].items
    <3>1. group \in A
      BY <1>3, <2>2, ValueIs
    <3>2. l[q][1] = c[q][1] /\ l[q][2] = Dict(tmpl[group])
      BY <1>4, <2>2 DEF templateItem
    <3>3. l[q][2].kind = "dict" /\ l[q][2].items = tmpl[group]
      BY <3>2 DEF Dict
    <3>4. Same(flat[tmpl[group]], decl[group])
      BY <1>5, <2>2, <3>1
    <3>5. flat[tmpl[group]] \in W /\ decl[group] \in W
      BY <3>1
    <3> HIDE DEF group, W
    <3>6. Same(Under(l[q], flat[tmpl[group]]), Under(c[q], decl[group]))
      BY <1>3, <2>2, <3>2, <3>3, <3>4, <3>5, UnderSame DEF W
    <3> QED  BY <2>1, <3>3, <3>6 DEF group
  <2>3. CASE c[q][2].kind # "dict"
    <3>1. l[q] = c[q]
      BY <1>3, <1>4, <2>3 DEF templateItem
    <3>2. uu[q] = <<c[q]>> /\ dd[q] = <<c[q]>>
      BY <2>1, <2>3, <3>1 DEF Under
    <3> QED  BY <3>2 DEF Same
  <2> QED  BY <2>2, <2>3
<1>9. Same(FlattenSeq(uu), FlattenSeq(dd))
  <2> DEFINE Z == Path \X Leaf
  <2>1. uu \in Seq(Seq(Z)) /\ dd \in Seq(Seq(Z))
    BY <1>7 DEF Lists
  <2> HIDE DEF uu, dd, Z
  <2> QED  BY <1>7, <1>8, <2>1, FlattenSame
<1>10. Same(flattenItems(l, flat), FlattenSeq(uu))
  BY <1>2, FlattenItemsTypes
<1>11. DeclaredItems(dict, decl) = FlattenSeq(dd)
  BY DeclaredItemsTypes DEF c
<1> HIDE DEF uu, dd
<1> QED  BY <1>6, <1>9, <1>10, <1>11, SameIsTransitive

\* At every depth.
LEMMA DictsAsDeclared ==
  \A n \in 0..MaxDepth : \A dict \in Dicts[n] :
    NoClashTo[n][dict] => Same(flattenTo[n][templateTo[n][dict]], DeclaredTo[n][dict])
<1> DEFINE P(n) == \A dict \in Dicts[n] :
             NoClashTo[n][dict] => Same(flattenTo[n][templateTo[n][dict]], DeclaredTo[n][dict])
           S == {n \in Nat : n <= MaxDepth => P(n)}
<1>1. 0 \in S
  <2>1. Dicts[0] = {}
    BY DictsAre
  <2> QED  BY <2>1
<1>2. ASSUME NEW n \in S  PROVE n + 1 \in S
  <2> SUFFICES ASSUME n + 1 <= MaxDepth  PROVE P(n + 1)
    OBVIOUS
  <2>1. /\ n \in Nat /\ n \in 0..MaxDepth /\ n + 1 \in 0..MaxDepth /\ n + 1 \in 1..MaxDepth
        /\ (n + 1) - 1 = n /\ P(n)
    BY DepthIsNatural
  <2> SUFFICES ASSUME NEW dict \in Dicts[n + 1], NoClashTo[n + 1][dict]
               PROVE  Same(flattenTo[n + 1][templateTo[n + 1][dict]], DeclaredTo[n + 1][dict])
    OBVIOUS
  <2> HIDE DEF S
  <2> DEFINE A == Dicts[n]
             B == Dicts[n]
  <2>2. dict \in Lists(Path, Value(A))
    BY <2>1, DictsAre
  <2>3. /\ templateTo[n] \in [A -> B]
        /\ flattenTo[n] \in [B -> Lists(Path, Leaf)]
        /\ DeclaredTo[n] \in [A -> Lists(Path, Leaf)]
    BY <2>1, TemplateTypes, FlattenToTypes, DeclaredToTypes
  <2>4. NoClashTo[n + 1][dict] = NoClashItems(dict, NoClashTo[n])
    BY <2>1, NoClashToIs
  <2>5. templateTo[n + 1][dict] = templateItems(dict, templateTo[n])
    <3>1. templateTo[n + 1] = [d \in Dicts[n + 1] |-> templateItems(d, templateTo[n])]
      BY <2>1, templateToIs
    <3> QED  BY <3>1
  <2>6. templateTo[n + 1][dict] \in Dicts[n + 1]
    BY <2>1, TemplateTypes
  <2>7. flattenTo[n + 1][templateTo[n + 1][dict]]
          = flattenItems(templateTo[n + 1][dict], flattenTo[n])
    <3>1. flattenTo[n + 1] = [d \in Dicts[n + 1] |-> flattenItems(d, flattenTo[n])]
      BY <2>1, flattenToIs
    <3> QED  BY <2>6, <3>1
  <2>8. DeclaredTo[n + 1][dict] = DeclaredItems(dict, DeclaredTo[n])
    <3>1. DeclaredTo[n + 1] = [d \in Dicts[n + 1] |-> DeclaredItems(d, DeclaredTo[n])]
      BY <2>1, DeclaredToIs
    <3> QED  BY <3>1
  <2>9. \A group \in A : NoClashTo[n][group] =>
          Same(flattenTo[n][templateTo[n][group]], DeclaredTo[n][group])
    BY <2>1
  <2>10. NoClashItems(dict, NoClashTo[n])
    BY <2>4
  <2> HIDE DEF A, B, P
  <2>11. Same(flattenItems(templateItems(dict, templateTo[n]), flattenTo[n]),
              DeclaredItems(dict, DeclaredTo[n]))
    BY <2>2, <2>3, <2>9, <2>10, ItemsAsDeclared
  <2> QED  BY <2>5, <2>7, <2>8, <2>11
<1> HIDE DEF S
<1>3. \A n \in Nat : n \in S
  <2>1. S \in SUBSET Nat
    BY DEF S
  <2> QED  BY <1>1, <1>2, <2>1, InductiveSet
<1> QED  BY <1>3, DepthIsNatural DEF S

\* A dict that template makes has no key twice, nor have the dicts in it.
LEMMA TemplateDistinct ==
  \A n \in 0..MaxDepth : \A dict \in Dicts[n] : DistinctTo[n][templateTo[n][dict]]
<1> DEFINE P(n) == \A dict \in Dicts[n] : DistinctTo[n][templateTo[n][dict]]
           S == {n \in Nat : n <= MaxDepth => P(n)}
<1>1. 0 \in S
  <2>1. Dicts[0] = {}
    BY DictsAre
  <2> QED  BY <2>1
<1>2. ASSUME NEW n \in S  PROVE n + 1 \in S
  <2> SUFFICES ASSUME n + 1 <= MaxDepth  PROVE P(n + 1)
    OBVIOUS
  <2>1. /\ n \in Nat /\ n \in 0..MaxDepth /\ n + 1 \in 0..MaxDepth /\ n + 1 \in 1..MaxDepth
        /\ (n + 1) - 1 = n /\ P(n)
    BY DepthIsNatural
  <2> SUFFICES ASSUME NEW dict \in Dicts[n + 1]
               PROVE  DistinctTo[n + 1][templateTo[n + 1][dict]]
    OBVIOUS
  <2> HIDE DEF S
  <2> DEFINE A == Dicts[n]
             B == Dicts[n]
             inner == templateTo[n]
             t == templateTo[n + 1][dict]
             l == TemplateItems(dict, inner)
             c == Copies(dict)
             W == {l[q][2] : q \in DOMAIN l}
  <2>2. dict \in Lists(Path, Value(A))
    BY <2>1, DictsAre
  <2>3. inner \in [A -> B]
    BY <2>1, TemplateTypes
  <2>4. t = templateItems(dict, inner)
    <3>1. templateTo[n + 1] = [d \in Dicts[n + 1] |-> templateItems(d, templateTo[n])]
      BY <2>1, templateToIs
    <3> QED  BY <3>1
  <2>5. t \in Dicts[n + 1]
    BY <2>1, TemplateTypes
  <2>6. DistinctTo[n + 1][t] = DistinctItems(t, DistinctTo[n])
    <3>1. DistinctTo[n + 1] = [d \in Dicts[n + 1] |-> DistinctItems(d, DistinctTo[n])]
      BY <2>1, DistinctToIs
    <3> QED  BY <2>5, <3>1
  <2>7. l \in Lists(Path, Value(B)) /\ t = PutAll(<<>>, l)
    BY <2>2, <2>3, <2>4, TemplateItemsTypes
  <2>8. c \in Lists(Path, Value(A))
    BY <2>2, CopiesTypes
  <2>9. l \in Lists(Path, W)
    <3> HIDE DEF l
    <3>1. l \in Lists(Path, {l[q][2] : q \in DOMAIN l})
      BY <2>7, OwnValues
    <3> QED  BY <3>1
  <2> HIDE DEF W, t
  <2>10. t \in Lists(Path, W) /\ NoKeyTwice(t)
    BY <2>7, <2>9, PutAllTypes
  <2>11. ASSUME NEW i \in DOMAIN t, t[i][2].kind = "dict"
         PROVE  DistinctTo[n][t[i][2].items]
    <3>1. t[i][2] \in W
      BY <2>10 DEF Lists
    <3>2. PICK q \in DOMAIN l : t[i][2] = l[q][2]
      BY <3>1 DEF W
    <3>3. q \in DOMAIN c /\ l[q] = templateItem(c[q], inner)
      BY <3>2 DEF TemplateItems
    <3>4. c[q][2] \in Value(A)
      BY <2>8, <3>3 DEF Lists
    <3> HIDE DEF l, c, inner
    <3>5. CASE c[q][2].kind = "dict"
      <4>1. c[q][2].items \in A
        BY <3>4, <3>5, ValueIs
      <4>2. t[i][2] = Dict(inner[c[q][2].items])
        BY <3>2, <3>3, <3>5 DEF templateItem
      <4>3. t[i][2].items = inner[c[q][2].items]
        BY <4>2 DEF Dict
      <4> QED  BY <2>1, <4>1, <4>3 DEF inner
    <3>6. CASE c[q][2].kind # "dict"
      <4>1. t[i][2] = c[q][2]
        BY <3>2, <3>3, <3>6 DEF templateItem
      <4> QED  BY <2>11, <3>6, <4>1
    <3> QED  BY <3>5, <3>6
  <2>12. DistinctItems(t, DistinctTo[n])
    BY <2>10, <2>11 DEF DistinctItems
  <2> QED  BY <2>6, <2>12 DEF t
<1> HIDE DEF S
<1>3. \A n \in Nat : n \in S
  <2>1. S \in SUBSET Nat
    BY DEF S
  <2> QED  BY <1>1, <1>2, <2>1, InductiveSet
<1> QED  BY <1>3, DepthIsNatural DEF S

-----------------------------------------------------------------------------
(* The groups of a mask *)

LEMMA PairConcat == ASSUME NEW x, NEW y  PROVE <<x>> \o <<y>> = <<x, y>>
<1> DEFINE V == {x, y}
           a == <<x>> \o <<y>>
           b == <<x, y>>
<1>1. <<x>> \in Seq(V) /\ <<y>> \in Seq(V) /\ b \in Seq(V) /\ Len(b) = 2 /\ b[1] = x /\ b[2] = y
  OBVIOUS
<1>2. a \in Seq(V) /\ Len(a) = 2 /\ a[1] = x /\ a[2] = y
  BY <1>1, ConcatProperties
<1> HIDE DEF V, a, b
<1>3. \A i \in 1..Len(a) : a[i] = b[i]
  BY <1>1, <1>2
<1>4. a = b
  BY <1>1, <1>2, <1>3, SeqEqual
<1> QED  BY <1>4 DEF a, b

\* The names of the bits that are set, in the order of group_key.
LEMMA GroupsAre ==
  ASSUME NEW mask
  PROVE  /\ groups(mask) \in {<<>>, <<"stream">>, <<"publish">>, <<"stream", "publish">>}
         /\ "stream" \in ToSet(groups(mask)) <=> And(mask, 1)
         /\ "publish" \in ToSet(groups(mask)) <=> And(mask, 2)
<1> DEFINE V == {"stream", "publish"}
           s == IF And(mask, 1) THEN <<"stream">> ELSE <<>>
           p == IF And(mask, 2) THEN <<"publish">> ELSE <<>>
           ss == [i \in DOMAIN group_key |->
                    IF And(mask, group_key[i][2]) THEN <<group_key[i][1]>> ELSE <<>>]
<1>1. /\ group_key[1][1] = "stream" /\ group_key[1][2] = 1
      /\ group_key[2][1] = "publish" /\ group_key[2][2] = 2
      /\ DOMAIN group_key = 1..2
  BY DEF group_key
<1>2. ss[1] = s /\ ss[2] = p /\ ss = [i \in 1..2 |-> ss[i]]
  BY <1>1
<1>3. s \in Seq(V) /\ p \in Seq(V)
  <2>1. <<"stream">> \in Seq(V) /\ <<"publish">> \in Seq(V) /\ <<>> \in Seq(V)
    OBVIOUS
  <2> HIDE DEF V
  <2> QED  BY <2>1
<1> HIDE DEF V
<1>4. groups(mask) = FlattenSeq(ss)
  BY DEF groups
<1> HIDE DEF ss
<1>5. ss = Append(Append(<<>>, s), p)
  <2> HIDE DEF s, p
  <2>1. \A i \in 1..2 : ss[i] \in Seq(V)
    BY <1>2, <1>3
  <2>2. ss \in Seq(Seq(V)) /\ Len(ss) = 2
    BY <1>2, <2>1, FunctionIsSequence
  <2> DEFINE tt == Append(Append(<<>>, s), p)
  <2>3. tt \in Seq(Seq(V)) /\ Len(tt) = 2 /\ tt[1] = s /\ tt[2] = p
    BY <1>3
  <2> HIDE DEF tt
  <2>4. \A i \in 1..2 : ss[i] = tt[i]
    BY <1>2, <2>3
  <2> QED  BY <2>2, <2>3, <2>4, SeqEqual DEF tt
<1> HIDE DEF s, p
<1>6. /\ <<>> \in Seq(Seq(V)) /\ Append(<<>>, s) \in Seq(Seq(V))
  BY <1>3
<1>7. FlattenSeq(Append(<<>>, s)) = FlattenSeq(<<>>) \o s
  BY <1>3, <1>6, FlattenAppend
<1>8. FlattenSeq(Append(<<>>, s)) = s
  BY <1>3, <1>7, FlattenNone, ConcatEmptySeq
<1>9. FlattenSeq(Append(Append(<<>>, s), p)) = FlattenSeq(Append(<<>>, s)) \o p
  BY <1>3, <1>6, FlattenAppend
<1>10. groups(mask) = s \o p
  BY <1>4, <1>5, <1>8, <1>9
<1>11. CASE And(mask, 1) /\ And(mask, 2)
  <2>1. s \o p = <<"stream", "publish">>
    <3>1. s = <<"stream">> /\ p = <<"publish">>
      BY <1>11 DEF s, p
    <3>2. <<"stream">> \o <<"publish">> = <<"stream", "publish">>
      BY PairConcat
    <3> QED  BY <3>1, <3>2
  <2> QED  BY <1>10, <1>11, <2>1 DEF ToSet
<1>12. CASE And(mask, 1) /\ ~And(mask, 2)
  <2>1. s \o p = <<"stream">>
    BY <1>12 DEF s, p
  <2> QED  BY <1>10, <1>12, <2>1 DEF ToSet
<1>13. CASE ~And(mask, 1) /\ And(mask, 2)
  <2>1. s \o p = <<"publish">>
    BY <1>13 DEF s, p
  <2> QED  BY <1>10, <1>13, <2>1 DEF ToSet
<1>14. CASE ~And(mask, 1) /\ ~And(mask, 2)
  <2>1. s \o p = <<>>
    BY <1>14 DEF s, p
  <2> QED  BY <1>10, <1>14, <2>1 DEF ToSet
<1> QED  BY <1>11, <1>12, <1>13, <1>14

-----------------------------------------------------------------------------
(* process *)

\* What becomes of a register's value.
Entry(v) == [groups |-> groups(v.mask), pollInterval |-> v.poll]
Entries == {Entry(v) : v \in Leaf}

LEMMA ProcessIs ==
  ASSUME NEW dict \in Lists(Path, Leaf)
  PROVE  /\ process(dict) \in Lists(Path, Entries)
         /\ Len(process(dict)) = Len(dict)
         /\ DOMAIN process(dict) = DOMAIN dict
         /\ \A i \in DOMAIN dict : /\ process(dict)[i][1] = dict[i][1]
                                   /\ process(dict)[i][2] = Entry(dict[i][2])
         /\ NoKeyTwice(dict) => NoKeyTwice(process(dict))
<1> DEFINE n == Len(dict)
           f == process(dict)
           Z == Path \X Entries
<1>1. n \in Nat /\ DOMAIN dict = 1..n /\ \A i \in 1..n : dict[i][1] \in Path /\ dict[i][2] \in Leaf
  BY DEF Lists
<1>2. f = [i \in 1..n |-> <<dict[i][1], Entry(dict[i][2])>>]
  BY <1>1 DEF process, Entry
<1>3. \A i \in 1..n : Entry(dict[i][2]) \in Entries
  BY <1>1 DEF Entries
<1> HIDE DEF n, f
<1>4. \A i \in 1..n : f[i] \in Z
  BY <1>1, <1>2, <1>3
<1>5. f = [i \in 1..n |-> f[i]]
  BY <1>2
<1>6. \A i \in 1..n : f[i][1] = dict[i][1] /\ f[i][2] = Entry(dict[i][2])
  BY <1>2
<1> HIDE DEF Z
<1>7. f \in Seq(Z) /\ Len(f) = n
  BY <1>1, <1>4, <1>5, FunctionIsSequence
<1>8. DOMAIN f = 1..n
  BY <1>5
<1>9. NoKeyTwice(dict) => NoKeyTwice(f)
  BY <1>1, <1>6, <1>8 DEF NoKeyTwice
<1> QED  BY <1>1, <1>6, <1>7, <1>8, <1>9 DEF f, n, Z, Lists

LEMMA ProcessLast ==
  ASSUME NEW dict \in Lists(Path, Leaf), NEW key, NEW w
  PROVE  LastIs(process(dict), key, w) <=> \E v : LastIs(dict, key, v) /\ w = Entry(v)
<1> DEFINE f == process(dict)
<1>1. /\ DOMAIN f = DOMAIN dict
      /\ \A i \in DOMAIN dict : f[i][1] = dict[i][1] /\ f[i][2] = Entry(dict[i][2])
  BY ProcessIs
<1> HIDE DEF f
<1>2. ASSUME LastIs(f, key, w)  PROVE \E v : LastIs(dict, key, v) /\ w = Entry(v)
  <2>1. PICK i \in DOMAIN dict : /\ f[i][1] = key /\ f[i][2] = w
                                 /\ \A j \in DOMAIN dict : f[j][1] = key => j <= i
    BY <1>1, <1>2 DEF LastIs
  <2>2. LastIs(dict, key, dict[i][2])
    BY <1>1, <2>1 DEF LastIs
  <2> QED  BY <1>1, <2>1, <2>2
<1>3. ASSUME NEW v, LastIs(dict, key, v), w = Entry(v)  PROVE LastIs(f, key, w)
  BY <1>1, <1>3 DEF LastIs
<1> QED  BY <1>2, <1>3 DEF f

LEMMA ProcessSame ==
  ASSUME NEW a \in Lists(Path, Leaf), NEW b \in Lists(Path, Leaf), Same(a, b)
  PROVE  Same(process(a), process(b))
<1>1. ASSUME NEW key, NEW w  PROVE LastIs(process(a), key, w) <=> LastIs(process(b), key, w)
  <2>1. LastIs(process(a), key, w) <=> \E v : LastIs(a, key, v) /\ w = Entry(v)
    BY ProcessLast
  <2>2. LastIs(process(b), key, w) <=> \E v : LastIs(b, key, v) /\ w = Entry(v)
    BY ProcessLast
  <2> QED  BY <2>1, <2>2 DEF Same
<1> QED  BY <1>1 DEF Same

LEMMA ProcessConcat ==
  ASSUME NEW a \in Lists(Path, Leaf), NEW b \in Lists(Path, Leaf)
  PROVE  process(a) \o process(b) = process(a \o b)
<1> DEFINE Z == Path \X Leaf
           E == Path \X Entries
           m == Len(a)
           n == Len(b)
           c == a \o b
           e == process(a) \o process(b)
<1>1. a \in Seq(Z) /\ b \in Seq(Z)
  BY DEF Lists
<1> HIDE DEF Z
<1>2. /\ c \in Seq(Z) /\ Len(c) = m + n /\ m \in Nat /\ n \in Nat
      /\ DOMAIN a = 1..m /\ DOMAIN b = 1..n /\ DOMAIN c = 1..(m + n)
      /\ \A i \in 1..m : c[i] = a[i]
      /\ \A i \in 1..n : c[m + i] = b[i]
  BY <1>1
<1>3. /\ process(a) \in Seq(E) /\ Len(process(a)) = m
      /\ process(b) \in Seq(E) /\ Len(process(b)) = n
  BY ProcessIs DEF Lists
<1> HIDE DEF E
<1>4. /\ e \in Seq(E) /\ Len(e) = m + n
      /\ \A i \in 1..m : e[i] = process(a)[i]
      /\ \A i \in 1..n : e[m + i] = process(b)[i]
  BY <1>3
<1>5. process(c) \in Seq(E) /\ Len(process(c)) = m + n
  <2>1. c \in Lists(Path, Leaf)
    BY <1>2 DEF Lists, Z
  <2> HIDE DEF c
  <2> QED  BY <1>2, <2>1, ProcessIs DEF Lists, E
<1>6. /\ \A i \in 1..m : process(a)[i] = <<a[i][1], Entry(a[i][2])>>
      /\ \A i \in 1..n : process(b)[i] = <<b[i][1], Entry(b[i][2])>>
      /\ \A i \in 1..(m + n) : process(c)[i] = <<c[i][1], Entry(c[i][2])>>
  BY <1>2 DEF process, Entry
<1> HIDE DEF c, e, m, n
<1>7. ASSUME NEW i \in 1..(m + n)  PROVE e[i] = process(c)[i]
  <2>1. CASE i \in 1..m
    <3>1. e[i] = process(a)[i] /\ c[i] = a[i]
      BY <1>2, <1>4, <2>1
    <3> QED  BY <1>6, <2>1, <3>1
  <2>2. CASE i \notin 1..m
    <3>1. PICK k \in 1..n : i = m + k
      <4>1. i - m \in 1..n /\ m + (i - m) = i
        BY <1>2, <2>2
      <4> QED  BY <4>1
    <3>2. e[m + k] = process(b)[k] /\ c[m + k] = b[k]
      BY <1>2, <1>4
    <3> QED  BY <1>6, <3>1, <3>2
  <2> QED  BY <2>1, <2>2
<1>8. e = process(c)
  BY <1>4, <1>5, <1>7, SeqEqual
<1> QED  BY <1>8 DEF c, e

-----------------------------------------------------------------------------
(* The stages *)

\* What flatten and template make of a file.
Registers(f) == flatten(template(f))

\* The data are at every stage what the steps so far made of the files.
StageInv ==
  /\ file \in Files /\ extra \in ExtraFiles
  /\ \/ stage = "template" /\ data = file
     \/ stage = "flatten" /\ data = template(file)
     \/ stage = "process" /\ data = Registers(file)
     \/ stage = "update" /\ data = process(Registers(file))
     \/ stage = "done" /\ data = PutAll(process(Registers(file)), process(Registers(extra)))
     \/ stage = "failed" /\ data \in {Registers(file), process(Registers(file))}

LEMMA StageInvariant == Spec => []StageInv
<1>1. Init => StageInv
  BY DEF Init, StageInv
<1>2. StageInv /\ [Next]_vars => StageInv'
  <2> SUFFICES ASSUME StageInv, [Next]_vars  PROVE StageInv'
    OBVIOUS
  <2>1. CASE Template
    BY <2>1 DEF Template, StageInv
  <2>2. CASE Flatten
    BY <2>2 DEF Flatten, StageInv, Registers
  <2>3. CASE Process
    BY <2>3 DEF Process, StageInv
  <2>4. CASE Fail
    BY <2>4 DEF Fail, StageInv
  <2>5. CASE Update
    BY <2>5 DEF Update, StageInv, Registers
  <2>6. CASE UNCHANGED vars
    BY <2>6 DEF vars, StageInv
  <2> QED  BY <2>1, <2>2, <2>3, <2>4, <2>5, <2>6 DEF Next
<1> QED  BY <1>1, <1>2, PTL DEF Spec

\* What a file's registers are,
LEMMA RegistersTypes ==
  ASSUME NEW f \in Files \cup ExtraFiles
  PROVE  /\ NoKeyTwice(f) /\ NoKeyTwice(template(f)) /\ DistinctTo[MaxDepth][template(f)]
         /\ Registers(f) \in Lists(Path, Leaf)
         /\ NoKeyTwice(Registers(f))
         /\ Declared(f) \in Lists(Path, Leaf)
<1> DEFINE n == MaxDepth
<1>1. f \in Dicts[n] /\ NoKeyTwice(f)
  BY FilesAssumption
<1>2. n \in Nat /\ n \in 0..MaxDepth
  BY DepthIsNatural
<1>3. template(f) \in Dicts[n]
  BY <1>1, <1>2, TemplateTypes DEF template
<1>4. DistinctTo[n][template(f)]
  BY <1>1, <1>2, TemplateDistinct DEF template
<1>5. DistinctTo[n] = [dict \in Dicts[n] |-> DistinctItems(dict, DistinctTo[n - 1])]
  BY <1>2, DistinctToIs
<1>6. NoKeyTwice(template(f))
  BY <1>3, <1>4, <1>5 DEF DistinctItems
<1>7. Registers(f) \in Lists(Path, Leaf)
  BY <1>2, <1>3, FlattenToTypes DEF Registers, flatten
<1>8. NoKeyTwice(Registers(f))
  <2> DEFINE t == template(f)
  <2>1. n # 0 /\ n - 1 \in 0..MaxDepth
    <3>1. Dicts[0] = {}
      BY DictsAre
    <3> QED  BY <1>1, <1>2, <3>1
  <2>2. Dicts[n] = Lists(Path, Value(Dicts[n - 1]))
    BY <1>2, <2>1, DictsAre
  <2>3. flattenTo[n - 1] \in [Dicts[n - 1] -> Lists(Path, Leaf)]
    BY <2>1, FlattenToTypes
  <2>4. flattenTo[n] = [dict \in Dicts[n] |-> flattenItems(dict, flattenTo[n - 1])]
    BY <1>2, flattenToIs
  <2>5. Registers(f) = flattenItems(t, flattenTo[n - 1])
    BY <1>3, <2>4 DEF Registers, flatten
  <2>6. t \in Lists(Path, Value(Dicts[n - 1]))
    BY <1>3, <2>2
  <2> HIDE DEF t
  <2> QED  BY <2>3, <2>5, <2>6, FlattenItemsTypes
<1>9. Declared(f) \in Lists(Path, Leaf)
  BY <1>1, <1>2, DeclaredToTypes DEF Declared
<1> QED  BY <1>1, <1>4, <1>6, <1>7, <1>8, <1>9

\* and that they are those declared.
LEMMA RegistersSame ==
  ASSUME NEW f \in Files \cup ExtraFiles, NoClash(f)
  PROVE  Same(Registers(f), Declared(f))
<1>1. f \in Dicts[MaxDepth] /\ MaxDepth \in 0..MaxDepth
  BY FilesAssumption
<1> QED  BY <1>1, DictsAsDeclared DEF NoClash, Registers, Declared, flatten, template

\* The values that process makes.
LEMMA EntriesTypes ==
  ASSUME NEW dict \in Lists(Path, Entries), NEW i \in DOMAIN dict
  PROVE  dict[i][2].groups \in {<<>>, <<"stream">>, <<"publish">>, <<"stream", "publish">>}
<1>1. dict[i][2] \in Entries
  BY DEF Lists
<1>2. PICK v \in Leaf : dict[i][2] = Entry(v)
  BY <1>1 DEF Entries
<1>3. dict[i][2].groups = groups(v.mask)
  BY <1>2 DEF Entry
<1> QED  BY <1>3, GroupsAre

\* What the second file's registers do to those of the first.
LEMMA UpdateIs ==
  ASSUME NEW f \in Files, NEW e \in ExtraFiles
  PROVE  /\ PutAll(process(Registers(f)), process(Registers(e))) \in Lists(Path, Entries)
         /\ NoKeyTwice(PutAll(process(Registers(f)), process(Registers(e))))
         /\ Same(PutAll(process(Registers(f)), process(Registers(e))),
                 process(Registers(f)) \o process(Registers(e)))
<1> DEFINE a == process(Registers(f))
           b == process(Registers(e))
<1>1. /\ Registers(f) \in Lists(Path, Leaf) /\ NoKeyTwice(Registers(f))
      /\ Registers(e) \in Lists(Path, Leaf)
  BY RegistersTypes
<1>2. a \in Lists(Path, Entries) /\ NoKeyTwice(a) /\ b \in Lists(Path, Entries)
  BY <1>1, ProcessIs
<1> HIDE DEF a, b
<1>3. /\ PutAll(a, b) \in Lists(Path, Entries) /\ NoKeyTwice(PutAll(a, b))
      /\ Same(PutAll(a, b), a \o b)
  BY <1>2, SamePutAll
<1> QED  BY <1>3 DEF a, b

-----------------------------------------------------------------------------
(* Theorems *)

\* TypeOK always holds: no method of VariableGroups ever gives a dict one key
\* twice, at any level, flatten leaves no group, and process makes lists of
\* group names.
THEOREM TypeCorrect == Spec => []TypeOK
<1>1. StageInv => TypeOK
  <2> SUFFICES ASSUME StageInv  PROVE TypeOK
    OBVIOUS
  <2>1. /\ file \in Files \cup ExtraFiles /\ extra \in Files \cup ExtraFiles
        /\ file \in Files /\ extra \in ExtraFiles
    BY DEF StageInv
  <2>2. /\ NoKeyTwice(file) /\ NoKeyTwice(template(file)) /\ DistinctTo[MaxDepth][template(file)]
        /\ Registers(file) \in Lists(Path, Leaf) /\ NoKeyTwice(Registers(file))
    BY <2>1, RegistersTypes
  <2>3. /\ process(Registers(file)) \in Lists(Path, Entries)
        /\ NoKeyTwice(process(Registers(file)))
    BY <2>2, ProcessIs
  <2>4. CASE stage = "template" /\ data = file
    BY <2>2, <2>4 DEF TypeOK
  <2>5. CASE stage = "flatten" /\ data = template(file)
    BY <2>2, <2>5 DEF TypeOK
  <2>6. CASE stage = "process" /\ data = Registers(file)
    <3>1. \A i \in DOMAIN data : data[i][2] \in Leaf
      BY <2>2, <2>6 DEF Lists
    <3> QED  BY <2>2, <2>6, <3>1 DEF TypeOK
  <2>7. CASE stage = "update" /\ data = process(Registers(file))
    BY <2>3, <2>7, EntriesTypes DEF TypeOK
  <2>8. CASE /\ stage = "done"
             /\ data = PutAll(process(Registers(file)), process(Registers(extra)))
    <3>1. data \in Lists(Path, Entries) /\ NoKeyTwice(data)
      BY <2>1, <2>8, UpdateIs
    <3> QED  BY <2>8, <3>1, EntriesTypes DEF TypeOK
  <2>9. CASE stage = "failed" /\ data \in {Registers(file), process(Registers(file))}
    BY <2>2, <2>3, <2>9 DEF TypeOK
  <2> QED  BY <2>4, <2>5, <2>6, <2>7, <2>8, <2>9 DEF StageInv
<1> QED  BY <1>1, StageInvariant, PTL

\* RegistersAsDeclared always holds: once both files are read, exactly the
\* registers that their groups and templates spell out have an entry, and each
\* has the groups and the polling interval of its last declaration.
THEOREM RegistersAsDeclaredHolds == Spec => []RegistersAsDeclared
<1>1. StageInv => RegistersAsDeclared
  <2> SUFFICES ASSUME StageInv, stage = "done", NoClash(file), NoClash(extra)
               PROVE  LET declared == Declared(file) \o Declared(extra) IN
                      /\ Keys(data) = Keys(declared)
                      /\ \A path \in Keys(data) :
                           LET last == LastOf(declared, path)
                               got  == Lookup(data, path)
                           IN /\ got.pollInterval = last.poll
                              /\ \A group \in ToSet(group_key) :
                                   (group[1] \in ToSet(got.groups)) <=> And(last.mask, group[2])
    BY DEF RegistersAsDeclared
  <2> DEFINE df == Declared(file)
             de == Declared(extra)
             declared == df \o de
             rf == Registers(file)
             re == Registers(extra)
  <2>1. /\ file \in Files \cup ExtraFiles /\ extra \in Files \cup ExtraFiles
        /\ file \in Files /\ extra \in ExtraFiles
        /\ data = PutAll(process(rf), process(re))
    BY DEF StageInv
  <2>2. /\ rf \in Lists(Path, Leaf) /\ df \in Lists(Path, Leaf)
        /\ re \in Lists(Path, Leaf) /\ de \in Lists(Path, Leaf)
    BY <2>1, RegistersTypes
  <2>3. Same(rf, df) /\ Same(re, de)
    BY <2>1, RegistersSame
  <2>4. /\ data \in Lists(Path, Entries) /\ NoKeyTwice(data)
        /\ Same(data, process(rf) \o process(re))
    BY <2>1, UpdateIs
  <2> HIDE DEF rf, re, df, de
  <2>5. Same(process(rf) \o process(re), process(declared))
    <3>1. Same(process(rf), process(df)) /\ Same(process(re), process(de))
      BY <2>2, <2>3, ProcessSame
    <3>2. /\ process(rf) \in Lists(Path, Entries) /\ process(df) \in Lists(Path, Entries)
          /\ process(re) \in Lists(Path, Entries) /\ process(de) \in Lists(Path, Entries)
      BY <2>2, ProcessIs
    <3> DEFINE E == Path \X Entries
    <3>3. /\ process(rf) \in Seq(E) /\ process(df) \in Seq(E)
          /\ process(re) \in Seq(E) /\ process(de) \in Seq(E)
      BY <3>2 DEF Lists
    <3> HIDE DEF E
    <3>4. Same(process(rf) \o process(re), process(df) \o process(de))
      BY <3>1, <3>3, SameConcat
    <3> QED  BY <2>2, <3>4, ProcessConcat
  <2>6. Same(data, process(declared))
    BY <2>4, <2>5, SameIsTransitive
  <2>7. declared \in Lists(Path, Leaf)
    BY <2>2 DEF Lists
  <2> HIDE DEF declared
  <2>8. process(declared) \in Lists(Path, Entries)
    BY <2>7, ProcessIs
  <2>9. Keys(data) = Keys(declared)
    <3> DEFINE E == Path \X Entries
    <3>1. data \in Seq(E) /\ process(declared) \in Seq(E)
      BY <2>4, <2>8 DEF Lists
    <3> HIDE DEF E
    <3>2. Keys(data) = Keys(process(declared))
      BY <2>6, <3>1, SameKeys
    <3>3. Keys(process(declared)) = Keys(declared)
      <4>1. DOMAIN process(declared) = DOMAIN declared
            /\ \A i \in DOMAIN declared : process(declared)[i][1] = declared[i][1]
        BY <2>7, ProcessIs
      <4> QED  BY <4>1 DEF Keys
    <3> QED  BY <3>2, <3>3
  <2>10. ASSUME NEW path \in Keys(data)
         PROVE  LET last == LastOf(declared, path)
                    got  == Lookup(data, path)
                IN /\ got.pollInterval = last.poll
                   /\ \A group \in ToSet(group_key) :
                        (group[1] \in ToSet(got.groups)) <=> And(last.mask, group[2])
    <3> DEFINE last == LastOf(declared, path)
               got  == Lookup(data, path)
    <3>1. LastIs(declared, path, last)
      <4> DEFINE Z == Path \X Leaf
      <4>1. declared \in Seq(Z)
        BY <2>7 DEF Lists
      <4> HIDE DEF Z
      <4>2. \E v : LastIs(declared, path, v)
        BY <2>9, <4>1, LastIsSome
      <4> DEFINE Is(i) == /\ declared[i][1] = path
                          /\ \A j \in DOMAIN declared : declared[j][1] = path => j <= i
      <4>3. \E i \in DOMAIN declared : Is(i)
        BY <4>2 DEF LastIs
      <4> DEFINE i == CHOOSE i \in DOMAIN declared : Is(i)
      <4>4. i \in DOMAIN declared /\ Is(i)
        BY <4>3
      <4>5. last = declared[i][2]
        BY DEF LastOf
      <4> HIDE DEF i, last
      <4> QED  BY <4>4, <4>5 DEF LastIs
    <3>2. LastIs(data, path, got)
      <4> DEFINE E == Path \X Entries
      <4>1. data \in Seq(E)
        BY <2>4 DEF Lists
      <4> HIDE DEF E
      <4>2. \E i \in DOMAIN data : data[i][1] = path
        BY <2>10 DEF Keys
      <4> DEFINE i == CHOOSE i \in DOMAIN data : data[i][1] = path
      <4>3. i \in DOMAIN data /\ data[i][1] = path
        BY <4>2
      <4>4. got = data[i][2]
        BY DEF Lookup
      <4> HIDE DEF i, got
      <4> QED  BY <2>4, <4>1, <4>3, <4>4, LastIsOnly
    <3> HIDE DEF last, got
    <3>3. LastIs(process(declared), path, got)
      BY <2>6, <3>2 DEF Same
    <3>4. PICK v : LastIs(declared, path, v) /\ got = Entry(v)
      BY <2>7, <3>3, ProcessLast
    <3>5. v = last
      <4> DEFINE Z == Path \X Leaf
      <4>1. declared \in Seq(Z)
        BY <2>7 DEF Lists
      <4> HIDE DEF Z
      <4> QED  BY <3>1, <3>4, <4>1, LastIsOne
    <3>6. got.groups = groups(last.mask) /\ got.pollInterval = last.poll
      BY <3>4, <3>5 DEF Entry
    <3>7. \A group \in ToSet(group_key) : group = <<"stream", 1>> \/ group = <<"publish", 2>>
      BY DEF ToSet, group_key
    <3>8. ASSUME NEW group \in ToSet(group_key)
          PROVE  (group[1] \in ToSet(got.groups)) <=> And(last.mask, group[2])
      BY <3>6, <3>7, GroupsAre
    <3> QED  BY <3>6, <3>8 DEF last, got
  <2> QED  BY <2>9, <2>10 DEF declared, df, de
<1> QED  BY <1>1, StageInvariant, PTL
=============================================================================
