--------------------------- MODULE StreamBaseProofs ---------------------------
(***************************************************************************)
(* Theorems about StreamBase, for every value of its constants.            *)
(***************************************************************************)
EXTENDS StreamBase, SequenceTheorems, TLAPS

-----------------------------------------------------------------------------
(* Type correctness *)

\* A variable was set at most as often as anything was, a command counts.
Counts ==
  /\ \A r \in Register : value[r] <= sets
  /\ \A t \in Thread : pc[t] # "idle" => sets >= 1

TypeInv == TypeOK /\ Counts

\* Updates are queued or deferred, and leave the group, as batches of variables.
LEMMA QueueType ==
  ASSUME TypeOK, NEW t \in Thread, NEW r \in Register, Queue(t, r)
  PROVE  deferred' \in [Thread -> SUBSET Register] /\ updates' \in Seq(SUBSET Register)
<1>1. {r} \in SUBSET Register /\ deferred[t] \cup {r} \in SUBSET Register
  BY DEF TypeOK
<1>2. CASE t \in group
  BY <1>1, <1>2 DEF TypeOK, Queue
<1>3. CASE t \notin group
  <2> DEFINE S == SUBSET Register
             e == {r}
  <2>1. updates \in Seq(S) /\ e \in S /\ updates' = Append(updates, e)
    BY <1>1, <1>3 DEF TypeOK, Queue
  <2>2. deferred' \in [Thread -> S]
    BY <1>3 DEF TypeOK, Queue
  <2> HIDE DEF S, e
  <2>3. updates' \in Seq(S)
    BY <2>1
  <2> QED  BY <2>2, <2>3 DEF S
<1> QED  BY <1>2, <1>3

\* The updates of a group that a thread leaves are queued as one batch.
LEMMA LeaveType ==
  ASSUME TypeOK, NEW t \in Thread, Leave(t)
  PROVE  /\ deferred' \in [Thread -> SUBSET Register] /\ updates' \in Seq(SUBSET Register)
         /\ group' \subseteq Thread
BY DEF TypeOK, Leave

\* What the update worker sends.
LEMMA StatusType ==
  ASSUME TypeOK
  PROVE  /\ Status \in [values : Partial, owed : [Stream -> Count]]
         /\ Status.values = [r \in working \cap Stream |-> value[r]]
         /\ Status.owed = [r \in Stream |-> IF r \in lost THEN 0 ELSE needs[r]]
<1>1. [r \in working \cap Stream |-> value[r]] \in Partial
  <2> DEFINE keys == working \cap Stream
  <2>1. keys \in SUBSET Stream /\ keys \subseteq Register
    BY DEF TypeOK
  <2>2. [r \in keys |-> value[r]] \in [keys -> Count]
    BY <2>1 DEF TypeOK
  <2> QED  BY <2>1, <2>2 DEF Partial
<1>2. [r \in Stream |-> IF r \in lost THEN 0 ELSE needs[r]] \in [Stream -> Count]
  <2>1. 0 \in Count
    BY NumbersAssumption DEF Count
  <2> QED  BY <2>1 DEF TypeOK
<1> QED  BY <1>1, <1>2 DEF Status

\* What a status tells is a value of the variable.
LEMMA ToldType ==
  ASSUME told \in [Stream -> Count], NEW status \in Partial
  PROVE  Told(status) \in [Stream -> Count]
<1>1. PICK keys \in SUBSET Stream : status \in [keys -> Count]
  BY DEF Partial
<1> QED  BY <1>1 DEF Told

\* The options a timestream is built with are values.
LEMMA OptionsType ==
  ASSUME TypeOK
  PROVE  Options \in Value
BY DEF TypeOK, Options, Value, Register

\* Init and every step keep the types.
LEMMA TypeInvariance == Spec => []TypeInv
<1>1. Init => TypeInv
  BY NumbersAssumption DEF Init, TypeInv, TypeOK, Counts, Count, Register, Value
<1>2. TypeInv /\ [Next]_vars => TypeInv'
  <2> SUFFICES ASSUME TypeInv, [Next]_vars
               PROVE  TypeInv'
    OBVIOUS
  <2>0. TypeOK /\ Counts /\ sets \in Nat /\ MaxSets \in Nat /\ sets <= MaxSets
    BY NumbersAssumption DEF TypeInv, TypeOK, Count
  <2>1. ASSUME NEW t \in Thread, EnterGroup(t)
        PROVE  TypeInv'
    <3>1. /\ group' = group \cup {t} /\ sets' = sets + 1 /\ sets < MaxSets
          /\ UNCHANGED <<value, pc, called, deferred, updates, working, meta, scans, told,
                         lost, stash, gil, built, needs>>
      BY <2>1 DEF EnterGroup, outVars, stashVars
    <3>2. group' \subseteq Thread /\ sets' \in Count
      BY <2>0, <3>1 DEF TypeOK, Count
    <3>3. TypeOK'
      BY <2>0, <3>1, <3>2 DEF TypeOK
    <3>4. Counts'
      <4>1. \A r \in Register : value[r] \in Nat
        BY <2>0 DEF TypeOK, Count
      <4> QED  BY <2>0, <3>1, <4>1 DEF Counts
    <3> QED  BY <3>3, <3>4 DEF TypeInv
  <2>2. ASSUME NEW t \in Thread, LeaveGroup(t)
        PROVE  TypeInv'
    <3>1. Leave(t)
      BY <2>2 DEF LeaveGroup
    <3> QED  BY <2>0, <2>2, <3>1, LeaveType
         DEF LeaveGroup, TypeInv, TypeOK, Counts, outVars, stashVars
  <2>3. CASE TakeBatch
    BY <2>0, <2>3 DEF TakeBatch, TypeInv, TypeOK, Counts, threadVars, outVars, stashVars
  <2>4. CASE SendBatch
    <3>1. meta' \in Seq([values : Partial, owed : [Stream -> Count]])
      <4> DEFINE S == [values : Partial, owed : [Stream -> Count]]
      <4>1. meta \in Seq(S) /\ Status \in S
        BY <2>0, StatusType DEF TypeOK
      <4>2. meta' = meta \/ meta' = Append(meta, Status)
        BY <2>4 DEF SendBatch
      <4> HIDE DEF S
      <4>3. meta' \in Seq(S)
        BY <4>1, <4>2
      <4> QED  BY <4>3 DEF S
    <3>2. lost' \subseteq Stream
      BY <2>0, <2>4 DEF SendBatch, TypeOK
    <3> QED  BY <2>0, <2>4, <3>1, <3>2 DEF SendBatch, TypeInv, TypeOK, Counts, threadVars, stashVars
  <2>5. ASSUME NEW t \in Thread, NEW r \in Register, NEW v \in Nat, Set(t, r, v),
               v <= value[r] + 1, r = open_g3stream => v \in {0, 1}
        PROVE  TypeInv'
    <3>1. deferred' \in [Thread -> SUBSET Register] /\ updates' \in Seq(SUBSET Register)
      BY <2>0, <2>5, QueueType DEF Set
    <3>2. /\ sets' = sets + 1 /\ sets' \in Count
          /\ value' = [value EXCEPT ![r] = v] /\ v <= sets'
      BY <2>0, <2>5 DEF Set, Counts, TypeOK, Count
    <3>3. /\ value' \in [Register -> Count] /\ value'[open_g3stream] \in {0, 1}
          /\ \A s \in Register : value'[s] <= sets'
      <4>1. /\ value \in [Register -> Count] /\ value[open_g3stream] \in {0, 1}
            /\ sets \in Nat /\ MaxSets \in Nat
        BY <2>0, NumbersAssumption DEF TypeOK, Count
      <4>2. v \in Count
        BY <2>5, <3>2, <4>1 DEF Count
      <4>3. \A s \in Register : value'[s] = (IF s = r THEN v ELSE value[s])
        BY <3>2, <4>1
      <4>4. \A s \in Register : value[s] <= sets'
        BY <2>0, <3>2, <4>1 DEF Counts, Count
      <4>5. value' \in [Register -> Count]
        BY <3>2, <4>1, <4>2
      <4>6. value'[open_g3stream] \in {0, 1}
        BY <2>5, <4>1, <4>3 DEF Register
      <4> QED  BY <3>2, <4>3, <4>4, <4>5, <4>6
    <3>4. UNCHANGED <<pc, group, called, working, meta, scans, told, lost,
                      stash, gil, built, needs>>
      BY <2>5 DEF Set, outVars, stashVars
    <3>5. TypeOK'
      BY <2>0, <3>1, <3>2, <3>3, <3>4 DEF TypeOK
    <3>6. Counts'
      BY <2>0, <3>2, <3>3, <3>4 DEF Counts
    <3> QED  BY <3>5, <3>6 DEF TypeInv
  <2>6. ASSUME NEW t \in Thread, NEW r \in Register, SetOption(t, r) \/ SetTag(t, r)
        PROVE  TypeInv'
    <3>1. Set(t, r, value[r] + 1) /\ r # open_g3stream
      BY <2>6, RegisterAssumption DEF SetOption, SetTag
    <3>2. value[r] \in Nat
      BY <2>0 DEF TypeOK, Count
    <3> QED  BY <2>5, <3>1, <3>2
  <2>7. ASSUME NEW t \in Thread, StopStream(t)
        PROVE  TypeInv'
    <3>1. open_g3stream \in Register /\ value[open_g3stream] \in Nat
      BY <2>0 DEF Register, TypeOK, Count
    <3> QED  BY <2>5, <2>7, <3>1 DEF StopStream
  <2>8. ASSUME NEW t \in Thread, CallStart(t)
        PROVE  TypeInv'
    <3>1. called' \in [Thread -> [Stream -> Count]]
      <4>1. 0 \in Count
        BY NumbersAssumption DEF Count
      <4>2. [r \in Stream |-> IF NotDeferred(t, r) THEN value[r] ELSE 0] \in [Stream -> Count]
        BY <2>0, <4>1, StreamAssumption DEF TypeOK
      <4> QED  BY <2>0, <2>8, <4>2 DEF CallStart, TypeOK
    <3>2. /\ pc' = [pc EXCEPT ![t] = "wait"] /\ group' = group \cup {t}
          /\ sets' = sets + 1 /\ sets < MaxSets
          /\ UNCHANGED <<value, deferred, updates, working, meta, scans, told, lost,
                         stash, gil, built, needs>>
      BY <2>8 DEF CallStart, outVars, stashVars
    <3>3. /\ pc' \in [Thread -> {"idle", "wait", "open"}] /\ group' \subseteq Thread
          /\ sets' \in Count
      BY <2>0, <3>2 DEF TypeOK, Count
    <3>4. TypeOK'
      BY <2>0, <3>1, <3>2, <3>3 DEF TypeOK
    <3>5. Counts'
      <4>1. \A r \in Register : value[r] \in Nat
        BY <2>0 DEF TypeOK, Count
      <4> QED  BY <2>0, <3>2, <4>1 DEF Counts
    <3> QED  BY <3>4, <3>5 DEF TypeInv
  <2>9. ASSUME NEW t \in Thread, waitOnUpdate(t)
        PROVE  TypeInv'
    <3>1. Leave(t)
      BY <2>9 DEF waitOnUpdate
    <3>2. pc' \in [Thread -> {"idle", "wait", "open"}]
      BY <2>0, <2>9 DEF waitOnUpdate, TypeOK
    <3>3. \A u \in Thread : pc'[u] # "idle" => sets >= 1
      BY <2>0, <2>9 DEF waitOnUpdate, TypeOK, Counts
    <3>4. UNCHANGED <<value, called, working, meta, scans, told, lost, stash, gil, built,
                      sets, needs>>
      BY <2>9 DEF waitOnUpdate, outVars, stashVars
    <3>5. TypeOK'
      BY <2>0, <3>1, <3>2, <3>4, LeaveType DEF TypeOK
    <3>6. Counts'
      BY <2>0, <3>3, <3>4 DEF Counts
    <3> QED  BY <3>5, <3>6 DEF TypeInv
  <2>10. ASSUME NEW t \in Thread, OpenStream(t)
         PROVE  TypeInv'
    <3>1. open_g3stream \in Register /\ sets >= 1 /\ 1 \in Count
      BY <2>0, <2>10 DEF Register, OpenStream, Counts, Count
    <3>2. deferred' \in [Thread -> SUBSET Register] /\ updates' \in Seq(SUBSET Register)
      BY <2>0, <2>10, <3>1, QueueType DEF OpenStream
    <3>3. /\ value' \in [Register -> Count] /\ value'[open_g3stream] \in {0, 1}
          /\ \A s \in Register : value'[s] <= sets
      BY <2>0, <2>10, <3>1 DEF OpenStream, TypeOK, Counts, Count
    <3>4. needs' \in [Stream -> Count]
      BY <2>0, <2>10 DEF OpenStream, TypeOK
    <3>5. /\ pc' = [pc EXCEPT ![t] = "idle"]
          /\ UNCHANGED <<group, called, working, meta, scans, told, lost, stash, gil, built,
                         sets>>
      BY <2>10 DEF OpenStream, outVars, stashVars
    <3>6. pc' \in [Thread -> {"idle", "wait", "open"}]
      BY <2>0, <3>5 DEF TypeOK
    <3>7. TypeOK'
      BY <2>0, <3>2, <3>3, <3>4, <3>5, <3>6 DEF TypeOK
    <3>8. Counts'
      BY <2>0, <3>1, <3>3, <3>5 DEF Counts
    <3> QED  BY <3>7, <3>8 DEF TypeInv
  <2>11. CASE EmitStatus
    <3>1. /\ Head(meta).values \in Partial
          /\ meta' \in Seq([values : Partial, owed : [Stream -> Count]])
      <4> DEFINE S == [values : Partial, owed : [Stream -> Count]]
      <4>1. meta \in Seq(S) /\ meta # <<>> /\ meta' = Tail(meta)
        BY <2>0, <2>11 DEF EmitStatus, TypeOK
      <4>2. \A m \in S : m.values \in Partial
        OBVIOUS
      <4> HIDE DEF S
      <4>3. Head(meta) \in S /\ meta' \in Seq(S)
        BY <4>1
      <4>4. Head(meta).values \in Partial
        BY <4>2, <4>3
      <4> QED  BY <4>3, <4>4 DEF S
    <3>2. told' \in [Stream -> Count]
      BY <2>0, <2>11, <3>1, ToldType DEF EmitStatus, TypeOK
    <3> QED  BY <2>0, <2>11, <3>1, <3>2
         DEF EmitStatus, TypeInv, TypeOK, Counts, threadVars, stashVars
  <2>12. CASE EnsureGil \/ ReleaseGil
    BY <2>0, <2>12
       DEF EnsureGil, ReleaseGil, TypeInv, TypeOK, Counts, threadVars, outVars
  <2>13. CASE BuildTimestream
    <3>1. built' \in Seq(Value) /\ Len(built') <= Timestreams
      BY <2>0, <2>13, OptionsType, NumbersAssumption DEF BuildTimestream, TypeOK
    <3> QED  BY <2>0, <2>13, <3>1
         DEF BuildTimestream, TypeInv, TypeOK, Counts, threadVars, outVars
  <2>14. CASE EmitScan
    <3>1. scans' \in Seq(Seq(Value))
      <4> DEFINE S == Seq(Value)
                 b == built
      <4>1. scans \in Seq(S) /\ b \in S /\ scans' = Append(scans, b)
        BY <2>0, <2>14 DEF EmitScan, TypeOK
      <4> HIDE DEF S, b
      <4>2. scans' \in Seq(S)
        BY <4>1
      <4> QED  BY <4>2 DEF S
    <3>2. built' \in Seq(Value) /\ Len(built') <= Timestreams
      BY <2>0, <2>14, NumbersAssumption DEF EmitScan
    <3> QED  BY <2>0, <2>14, <3>1, <3>2 DEF EmitScan, TypeInv, TypeOK, Counts, threadVars
  <2>16. CASE Poll
    <3>1. updates' \in Seq(SUBSET Register)
      <4> DEFINE S == SUBSET Register
      <4>1. updates \in Seq(S) /\ Polled \in S /\ updates' = Append(updates, Polled)
        BY <2>0, <2>16, StreamAssumption DEF TypeOK, Poll
      <4> HIDE DEF S
      <4>2. updates' \in Seq(S)
        BY <4>1
      <4> QED  BY <4>2 DEF S
    <3> QED  BY <2>0, <2>16, <3>1
         DEF Poll, TypeInv, TypeOK, Counts, threadVars, outVars, stashVars
  <2>15. CASE UNCHANGED vars
    BY <2>0, <2>15 DEF vars, TypeInv, TypeOK, Counts, threadVars, outVars, stashVars
  <2> QED  BY <2>1, <2>2, <2>3, <2>4, <2>6, <2>7, <2>8, <2>9, <2>10, <2>11, <2>12, <2>13,
              <2>14, <2>15, <2>16 DEF Next, UpdateWorker, StashThread, StartThread
<1> QED  BY <1>1, <1>2, PTL DEF Spec

\* Every variable keeps its type, whatever the number of threads and variables.
THEOREM TypeCorrect == Spec => []TypeOK
BY TypeInvariance, PTL DEF TypeInv

-----------------------------------------------------------------------------
(* The options of the data frames *)

\* While the stash thread builds frames no variable is set: what it has read so
\* far is what the variables are.
BuildInv ==
  /\ gil = "stash" <=> stash = "build"
  /\ built # <<>> => stash = "build"
  /\ \A k \in DOMAIN built : built[k] = Options

\* Outside Python nothing is set, and no counted variable goes back.
LEMMA ValuesGrow ==
  ASSUME TypeInv, [Next]_vars
  PROVE  /\ ~Python => value' = value
         /\ \A r \in Option \cup Tag : value[r] <= value'[r]
<1>0. value \in [Register -> Count] /\ \A r \in Register : value[r] \in Nat
  BY DEF TypeInv, TypeOK, Count
<1>1. Option \cup Tag \subseteq Register /\ open_g3stream \notin Option \cup Tag
  BY RegisterAssumption DEF Register
<1>2. ASSUME NEW t \in Thread, NEW r \in Register, SetOption(t, r) \/ SetTag(t, r)
      PROVE  Python /\ \A s \in Option \cup Tag : value[s] <= value'[s]
  <2>1. Python /\ value' = [value EXCEPT ![r] = value[r] + 1]
    BY <1>2 DEF SetOption, SetTag, Set
  <2> QED  BY <1>0, <1>1, <2>1
<1>3. ASSUME NEW t \in Thread, StopStream(t)
      PROVE  Python /\ \A s \in Option \cup Tag : value[s] <= value'[s]
  <2>1. Python /\ value' = [value EXCEPT ![open_g3stream] = 0]
    BY <1>3 DEF StopStream, Set
  <2> QED  BY <1>0, <1>1, <2>1
<1>4. ASSUME NEW t \in Thread, OpenStream(t)
      PROVE  Python /\ \A s \in Option \cup Tag : value[s] <= value'[s]
  <2>1. Python /\ value' = [value EXCEPT ![open_g3stream] = 1]
    BY <1>4 DEF OpenStream
  <2> QED  BY <1>0, <1>1, <2>1
<1>5. ASSUME NEW t \in Thread, EnterGroup(t) \/ LeaveGroup(t) \/ CallStart(t) \/ waitOnUpdate(t)
      PROVE  value' = value
  BY <1>5 DEF EnterGroup, LeaveGroup, CallStart, waitOnUpdate
<1>6. Poll \/ UpdateWorker \/ StashThread \/ EmitStatus \/ UNCHANGED vars => value' = value
  BY DEF Poll, UpdateWorker, TakeBatch, SendBatch, StashThread, EnsureGil, BuildTimestream,
         EmitScan, ReleaseGil, EmitStatus, vars
<1>7. value' = value => \A s \in Option \cup Tag : value[s] <= value'[s]
  BY <1>0, <1>1
<1> QED  BY <1>2, <1>3, <1>4, <1>5, <1>6, <1>7 DEF Next, StartThread

\* A step of a Python thread or of the update worker, and one that sets nothing,
\* leave a frame under construction alone.
LEMMA OthersBuildNothing ==
  ASSUME [Next]_vars
  PROVE  StashThread \/ UNCHANGED stashVars
BY DEF Next, EnterGroup, LeaveGroup, SetOption, SetTag, StopStream, Set, CallStart,
       StartThread, waitOnUpdate, OpenStream, Poll, UpdateWorker, TakeBatch, SendBatch,
       EmitStatus, vars

\* While the stash thread holds the GIL the options stay those of the first timestream.
LEMMA BuildStep ==
  ASSUME TypeInv, BuildInv, [Next]_vars
  PROVE  BuildInv'
<1>1. CASE EnsureGil
  BY <1>1 DEF EnsureGil, Python, BuildInv, Options
<1>2. CASE BuildTimestream
  <2>1. Options' = Options
    BY <1>2 DEF BuildTimestream, Options
  <2>2. built \in Seq(Value) /\ built' = Append(built, Options)
    BY <1>2 DEF BuildTimestream, TypeInv, TypeOK
  <2>3. \A k \in DOMAIN built' : built'[k] = Options'
    BY <2>1, <2>2 DEF BuildInv
  <2>4. stash' = stash /\ gil' = gil /\ stash = "build"
    BY <1>2 DEF BuildTimestream
  <2> QED  BY <2>3, <2>4 DEF BuildInv
<1>3. CASE EmitScan \/ ReleaseGil
  BY <1>3 DEF EmitScan, ReleaseGil, BuildInv
<1>4. CASE UNCHANGED stashVars
  <2>1. CASE Python
    <3>1. gil # "stash" /\ stash # "build" /\ built = <<>>
      BY <2>1 DEF Python, BuildInv
    <3> QED  BY <1>4, <3>1 DEF stashVars, BuildInv
  <2>2. CASE ~Python
    <3>1. Options' = Options
      BY <2>2, ValuesGrow DEF Options
    <3> QED  BY <1>4, <3>1 DEF stashVars, BuildInv
  <2> QED  BY <2>1, <2>2
<1> QED  BY <1>1, <1>2, <1>3, <1>4, OthersBuildNothing DEF StashThread

\* The timestreams of a finished frame are those of the frame under construction.
LEMMA ScansStep ==
  ASSUME TypeInv, BuildInv, OptionsOfOneMoment, [Next]_vars
  PROVE  OptionsOfOneMoment'
<1>1. CASE EmitScan
  <2> DEFINE S == Seq(Value)
             b == built
  <2>1. scans \in Seq(S) /\ b \in S /\ scans' = Append(scans, b)
    BY <1>1 DEF EmitScan, TypeInv, TypeOK
  <2>2. \A k, n \in DOMAIN b : b[k] = b[n]
    BY DEF BuildInv
  <2> HIDE DEF S, b
  <2>3. \A i \in DOMAIN scans' : (i \in DOMAIN scans /\ scans'[i] = scans[i]) \/ scans'[i] = b
    BY <2>1
  <2> QED  BY <2>2, <2>3 DEF OptionsOfOneMoment
<1>2. CASE UNCHANGED scans
  BY <1>2 DEF OptionsOfOneMoment
<1>3. EmitScan \/ UNCHANGED scans
  BY DEF Next, EnterGroup, LeaveGroup, SetOption, SetTag, StopStream, Set, CallStart,
         StartThread, waitOnUpdate, OpenStream, Poll, UpdateWorker, TakeBatch, SendBatch,
         EmitStatus, StashThread, EnsureGil, BuildTimestream, ReleaseGil, outVars, vars
<1> QED  BY <1>1, <1>2, <1>3

\* The timestreams of a frame get the options of one moment.
THEOREM OptionsAreOfOneMoment == Spec => []OptionsOfOneMoment
<1>1. Init => BuildInv /\ OptionsOfOneMoment
  BY DEF Init, BuildInv, OptionsOfOneMoment
<1>2. TypeInv /\ BuildInv /\ OptionsOfOneMoment /\ [Next]_vars => (BuildInv /\ OptionsOfOneMoment)'
  BY BuildStep, ScansStep
<1> QED  BY <1>1, <1>2, TypeInvariance, PTL DEF Spec

-----------------------------------------------------------------------------
(* What the stream will have been told *)

\* The statuses among the first n of m that tell r.
Mentions(m, n, r) == {i \in 1..n : r \in DOMAIN m[i].values}

\* Once the first n statuses of m follow what was told, the stream knows a value
\* in V of r.
Knows(m, t, n, r, V) ==
  /\ Mentions(m, n, r) = {} => t[r] \in V
  /\ \A i \in Mentions(m, n, r) :
       (\A j \in Mentions(m, n, r) : j <= i) => m[i].values[r] \in V

AtLeast(x) == {v \in Nat : v >= x}
WillKnow(r, V) == Knows(meta, told, Len(meta), r, V)

Queued(r) == r \in working \/ \E i \in DOMAIN updates : r \in updates[i]
Deferred(r) == \E t \in Thread : r \in deferred[t]
Others == Stream \ {open_g3stream}

\* Only a thread in a group of its own making defers.
GroupInv == \A t \in Thread : t \notin group \/ pc[t] = "wait" => deferred[t] = {}

\* A variable that is neither queued nor deferred is known to the stream.
Settled ==
  \A r \in Stream \ lost :
    ~Queued(r) /\ ~Deferred(r) => WillKnow(r, {value[r]})

\* What was queued or sent at a command is on its way until the command goes on.
CalledInv ==
  \A t \in Thread : \A r \in Others :
    /\ called[t][r] <= value[r]
    /\ r \notin lost =>
         /\ pc[t] = "wait" => Queued(r) \/ WillKnow(r, AtLeast(called[t][r]))
         /\ pc[t] = "open" => WillKnow(r, AtLeast(called[t][r]))

NeedsInv ==
  \A r \in Others :
    /\ needs[r] <= value[r]
    /\ r \notin lost => WillKnow(r, AtLeast(needs[r]))

\* Each status, when its turn comes, finds the stream told what it owes.
OwedInv ==
  \A i \in 1..Len(meta) : \A r \in Others :
    Knows(meta, told, i, r, AtLeast(meta[i].owed[r]))

\* The flag is not counted.
FlagInv ==
  /\ \A t \in Thread : called[t][open_g3stream] <= 1
  /\ needs[open_g3stream] <= 1
  /\ \A i \in 1..Len(meta) : meta[i].owed[open_g3stream] <= 1

ToldInv == GroupInv /\ Settled /\ CalledInv /\ NeedsInv /\ OwedInv /\ FlagInv

\* Statuses behind the first n do not matter.
LEMMA KnowsLocal ==
  ASSUME NEW m1, NEW m2, NEW t1, NEW t2, NEW n \in Nat, NEW r, NEW V,
         \A i \in 1..n : m2[i] = m1[i], t2[r] = t1[r],
         Knows(m1, t1, n, r, V)
  PROVE  Knows(m2, t2, n, r, V)
<1>1. Mentions(m2, n, r) = Mentions(m1, n, r)
  BY DEF Mentions
<1>2. \A i \in Mentions(m1, n, r) : m2[i] = m1[i]
  BY DEF Mentions
<1> QED  BY <1>1, <1>2 DEF Knows

\* A larger set of values.
LEMMA KnowsLess ==
  ASSUME NEW m, NEW t, NEW n \in Nat, NEW r, NEW V, NEW W, V \subseteq W,
         Knows(m, t, n, r, V)
  PROVE  Knows(m, t, n, r, W)
BY DEF Knows

\* One more status: it tells r itself, or it does not.
LEMMA KnowsAppend ==
  ASSUME NEW m, NEW m2, NEW t, NEW n \in Nat, NEW r, NEW V,
         \A i \in 1..n : m2[i] = m[i],
         IF r \in DOMAIN m2[n + 1].values THEN m2[n + 1].values[r] \in V
         ELSE Knows(m, t, n, r, V)
  PROVE  Knows(m2, t, n + 1, r, V)
<1>1. CASE r \in DOMAIN m2[n + 1].values
  <2>1. n + 1 \in Mentions(m2, n + 1, r)
    BY <1>1 DEF Mentions
  <2>2. ASSUME NEW i \in Mentions(m2, n + 1, r), \A j \in Mentions(m2, n + 1, r) : j <= i
        PROVE  i = n + 1
    <3>1. i \in 1..(n + 1) /\ n + 1 <= i
      BY <2>1, <2>2 DEF Mentions
    <3> QED  BY <3>1
  <2>3. m2[n + 1].values[r] \in V
    BY <1>1
  <2> QED  BY <2>1, <2>2, <2>3 DEF Knows
<1>2. CASE r \notin DOMAIN m2[n + 1].values
  <2>1. Mentions(m2, n + 1, r) = Mentions(m, n, r)
    BY <1>2 DEF Mentions
  <2>2. \A i \in Mentions(m, n, r) : m2[i] = m[i]
    BY DEF Mentions
  <2> QED  BY <1>2, <2>1, <2>2 DEF Knows
<1> QED  BY <1>1, <1>2

\* The first status is told.
LEMMA KnowsTold ==
  ASSUME NEW m, NEW m2, NEW t, NEW t2, NEW n \in Nat, NEW r, NEW V,
         \A i \in 1..n : m2[i] = m[i + 1],
         t2[r] = IF r \in DOMAIN m[1].values THEN m[1].values[r] ELSE t[r],
         Knows(m, t, n + 1, r, V)
  PROVE  Knows(m2, t2, n, r, V)
<1> DEFINE M == Mentions(m, n + 1, r)
           M2 == Mentions(m2, n, r)
<1>1. \A i \in 1..n : i \in M2 <=> i + 1 \in M
  BY DEF Mentions
<1>2. M2 \subseteq 1..n /\ M \subseteq 1..(n + 1)
  BY DEF Mentions
<1>3. 1 \in M <=> r \in DOMAIN m[1].values
  BY DEF Mentions
<1>4. \A j \in M : j = 1 \/ (j - 1 \in M2 /\ j - 1 \in 1..n)
  <2> TAKE j \in M
  <2>1. CASE j # 1
    <3>1. j - 1 \in 1..n /\ j = (j - 1) + 1
      BY <1>2, <2>1
    <3> QED  BY <1>1, <3>1
  <2> QED  BY <2>1
<1>5. ASSUME M2 = {}
      PROVE  t2[r] \in V
  <2>1. \A j \in M : j = 1
    BY <1>4, <1>5
  <2>2. CASE 1 \in M
    <3>1. \A j \in M : j <= 1
      BY <2>1
    <3> QED  BY <1>3, <2>2, <3>1 DEF Knows
  <2>3. CASE 1 \notin M
    <3>1. M = {}
      BY <2>1, <2>3
    <3> QED  BY <1>3, <2>3, <3>1 DEF Knows
  <2> QED  BY <2>2, <2>3
<1>6. ASSUME NEW i \in M2, \A j \in M2 : j <= i
      PROVE  m2[i].values[r] \in V
  <2>1. i \in 1..n /\ i + 1 \in M /\ m2[i] = m[i + 1]
    BY <1>1, <1>2
  <2>2. \A j \in M : j <= i + 1
    <3> TAKE j \in M
    <3>1. CASE j = 1
      BY <2>1, <3>1
    <3>2. CASE j - 1 \in M2 /\ j - 1 \in 1..n
      <4>1. j - 1 <= i
        BY <1>6, <3>2
      <4> QED  BY <1>2, <2>1, <4>1
    <3> QED  BY <1>4, <3>1, <3>2
  <2> QED  BY <2>1, <2>2 DEF Knows
<1> QED  BY <1>5, <1>6 DEF Knows

\* Whatever is told is a number.
LEMMA KnowsNumber ==
  ASSUME TypeOK, NEW n \in 0..Len(meta), NEW r \in Stream
  PROVE  Knows(meta, told, n, r, AtLeast(0))
<1>1. told[r] \in AtLeast(0)
  BY DEF TypeOK, Count, AtLeast
<1>2. ASSUME NEW i \in Mentions(meta, n, r)
      PROVE  meta[i].values[r] \in AtLeast(0)
  <2> DEFINE S == [values : Partial, owed : [Stream -> Count]]
  <2>1. meta \in Seq(S)
    BY DEF TypeOK
  <2>2. \A m \in S : m.values \in Partial
    OBVIOUS
  <2> HIDE DEF S
  <2>3. i \in 1..Len(meta) /\ r \in DOMAIN meta[i].values
    BY <2>1 DEF Mentions
  <2>4. meta[i].values \in Partial
    BY <2>1, <2>2, <2>3
  <2>5. PICK keys \in SUBSET Stream : meta[i].values \in [keys -> Count]
    BY <2>4 DEF Partial
  <2> QED  BY <2>3, <2>5 DEF Count, AtLeast
<1> QED  BY <1>1, <1>2 DEF Knows

\* The steps that leave the worker, the statuses and the stream alone.
LEMMA StepKinds ==
  ASSUME [Next]_vars
  PROVE  \/ UNCHANGED <<working, meta, told, lost>>
         \/ TakeBatch \/ SendBatch \/ EmitStatus
BY DEF Next, EnterGroup, LeaveGroup, SetOption, SetTag, StopStream, Set, CallStart,
       StartThread, waitOnUpdate, OpenStream, Poll, UpdateWorker, StashThread,
       EnsureGil, BuildTimestream, EmitScan, ReleaseGil, outVars, vars

\* The update queue grows at its end, but when the worker takes a batch.
LEMMA QueueSteps ==
  ASSUME TypeInv, [Next]_vars
  PROVE  TakeBatch \/ updates' = updates \/ \E b : updates' = Append(updates, b)
<1>1. \A t, r : Queue(t, r) => updates' = updates \/ \E b : updates' = Append(updates, b)
  BY DEF Queue
<1>2. \A t : Leave(t) => updates' = updates \/ \E b : updates' = Append(updates, b)
  BY DEF Leave
<1>3. \A t : waitOnUpdate(t) \/ LeaveGroup(t) => Leave(t)
  BY DEF waitOnUpdate, LeaveGroup
<1>4. \A t : OpenStream(t) => Queue(t, open_g3stream)
  BY DEF OpenStream
<1>5. \A t, r : SetOption(t, r) \/ SetTag(t, r) => Queue(t, r)
  BY DEF SetOption, SetTag, Set
<1>6. \A t : StopStream(t) => Queue(t, open_g3stream)
  BY DEF StopStream, Set
<1>7. \/ \E t \in Thread : EnterGroup(t) \/ CallStart(t)
      \/ SendBatch \/ StashThread \/ EmitStatus \/ UNCHANGED vars
      => updates' = updates
  BY DEF EnterGroup, CallStart, SendBatch, StashThread, EnsureGil, BuildTimestream,
         EmitScan, ReleaseGil, EmitStatus, vars
<1>8. Poll => \E b : updates' = Append(updates, b)
  BY DEF Poll
<1> QED  BY <1>1, <1>2, <1>3, <1>4, <1>5, <1>6, <1>7, <1>8 DEF Next, StartThread, UpdateWorker

\* What is queued stays queued until the worker sends it.
LEMMA QueuedStays ==
  ASSUME TypeInv, [Next]_vars, NEW r, Queued(r), ~(SendBatch /\ r \in working)
  PROVE  Queued(r)'
<1>0. updates \in Seq(SUBSET Register)
  BY DEF TypeInv, TypeOK
<1>1. CASE TakeBatch
  <2>1. working = {} /\ updates # <<>> /\ working' = Head(updates) /\ updates' = Tail(updates)
    BY <1>1 DEF TakeBatch
  <2>2. PICK i \in DOMAIN updates : r \in updates[i]
    BY <2>1 DEF Queued
  <2>3. CASE i = 1
    BY <1>0, <2>1, <2>2, <2>3 DEF Queued
  <2>4. CASE i # 1
    <3>1. i - 1 \in DOMAIN updates' /\ updates'[i - 1] = updates[i]
      BY <1>0, <2>1, <2>4
    <3> QED  BY <2>2, <3>1 DEF Queued
  <2> QED  BY <2>3, <2>4
<1>2. CASE ~TakeBatch
  <2>1. r \in working => r \in working'
    BY <1>2, StepKinds DEF SendBatch, EmitStatus
  <2>2. \A i \in DOMAIN updates : i \in DOMAIN updates' /\ updates'[i] = updates[i]
    <3>1. CASE updates' = updates
      BY <3>1
    <3>2. ASSUME NEW b, updates' = Append(updates, b)
          PROVE  \A i \in DOMAIN updates : i \in DOMAIN updates' /\ updates'[i] = updates[i]
      BY <1>0, <3>2
    <3> QED  BY <1>2, <3>1, <3>2, QueueSteps
  <2> QED  BY <2>1, <2>2 DEF Queued
<1> QED  BY <1>1, <1>2

\* What one step does to what the stream will know of a variable.
LEMMA KnowledgeStep ==
  ASSUME TypeInv, [Next]_vars, NEW r \in Stream, r \notin lost', NEW V
  PROVE  /\ WillKnow(r, V) /\ r \notin lost /\ ~(SendBatch /\ r \in working)
              => Knows(meta', told', Len(meta'), r, V)
         /\ SendBatch /\ r \in working =>
              /\ value' = value
              /\ value[r] \in V => Knows(meta', told', Len(meta'), r, V)
         /\ r \in lost => SendBatch /\ r \in working
<1> DEFINE L == Len(meta)
<1>0. /\ meta \in Seq([values : Partial, owed : [Stream -> Count]]) /\ L \in Nat
      /\ told \in [Stream -> Count] /\ value \in [Register -> Count]
  BY DEF TypeInv, TypeOK
<1>1. CASE SendBatch /\ r \in working
  <2>1. meta' = Append(meta, Status) /\ told' = told /\ value' = value
    BY <1>1 DEF SendBatch
  <2>2. /\ L + 1 = Len(meta') /\ meta'[L + 1] = Status
        /\ \A i \in 1..L : meta'[i] = meta[i]
    BY <1>0, <2>1
  <2>3. r \in DOMAIN Status.values /\ Status.values[r] = value[r]
    BY <1>1, StatusType DEF TypeInv
  <2>4. value[r] \in V => Knows(meta', told', L + 1, r, V)
    BY <1>0, <2>2, <2>3, KnowsAppend
  <2> QED  BY <1>1, <2>1, <2>2, <2>4
<1>2. CASE SendBatch /\ r \notin working
  <2>1. told' = told /\ r \notin lost
    BY <1>2 DEF SendBatch
  <2>2. CASE meta' = Append(meta, Status)
    <3>1. /\ L + 1 = Len(meta') /\ meta'[L + 1] = Status
          /\ \A i \in 1..L : meta'[i] = meta[i]
      BY <1>0, <2>2
    <3>2. r \notin DOMAIN Status.values
      BY <1>2, StatusType DEF TypeInv
    <3>3. WillKnow(r, V) => Knows(meta', told, L + 1, r, V)
      BY <1>0, <3>1, <3>2, KnowsAppend DEF WillKnow
    <3> QED  BY <1>2, <2>1, <3>1, <3>3
  <2>3. CASE meta' = meta
    BY <1>2, <2>1, <2>3 DEF WillKnow
  <2> QED  BY <1>2, <2>2, <2>3 DEF SendBatch
<1>3. CASE EmitStatus
  <2>1. /\ meta # <<>> /\ meta' = Tail(meta) /\ told' = Told(Head(meta).values)
        /\ lost' = lost /\ working' = working
    BY <1>3 DEF EmitStatus
  <2>2. /\ L = Len(meta') + 1 /\ Len(meta') \in Nat /\ Head(meta) = meta[1]
        /\ \A i \in 1..Len(meta') : meta'[i] = meta[i + 1]
    BY <1>0, <2>1
  <2>3. told'[r] = IF r \in DOMAIN meta[1].values THEN meta[1].values[r] ELSE told[r]
    BY <2>1, <2>2 DEF Told
  <2>4. ASSUME WillKnow(r, V)  PROVE  Knows(meta', told', Len(meta'), r, V)
    <3>1. Knows(meta, told, Len(meta') + 1, r, V)
      BY <2>2, <2>4, Zenon DEF WillKnow
    <3> HIDE DEF L
    <3> QED  BY <2>2, <2>3, <3>1, KnowsTold
  <2>5. ~SendBatch
    <3>1. L # 0 /\ Len(meta') # L /\ Len(meta') # L + 1
      BY <1>0, <2>2
    <3>2. SendBatch => meta' = meta \/ meta' = Append(meta, Status)
      BY DEF SendBatch
    <3> QED  BY <1>0, <3>1, <3>2
  <2> QED  BY <2>1, <2>4, <2>5
<1>4. CASE /\ UNCHANGED <<working, meta, told, lost>> \/ TakeBatch
           /\ ~SendBatch
  <2>1. UNCHANGED <<meta, told, lost>>
    BY <1>4 DEF TakeBatch, outVars
  <2> QED  BY <1>4, <2>1 DEF WillKnow
<1> QED  BY <1>1, <1>2, <1>3, <1>4, StepKinds

\* A thread defers only inside its group, and never while it waits.
LEMMA GroupStep ==
  ASSUME TypeInv, GroupInv, [Next]_vars
  PROVE  GroupInv'
<1>0. /\ pc \in [Thread -> {"idle", "wait", "open"}]
      /\ deferred \in [Thread -> SUBSET Register] /\ group \subseteq Thread
  BY DEF TypeInv, TypeOK
<1>1. ASSUME NEW t \in Thread, Leave(t),
             pc' = pc \/ (pc[t] = "wait" /\ pc' = [pc EXCEPT ![t] = "open"])
      PROVE  GroupInv'
  BY <1>0, <1>1 DEF GroupInv, Leave
<1>2. ASSUME NEW t \in Thread, NEW r \in Register, Queue(t, r), UNCHANGED group,
             \/ pc[t] = "idle" /\ pc' = pc
             \/ pc[t] = "open" /\ pc' = [pc EXCEPT ![t] = "idle"]
      PROVE  GroupInv'
  <2> SUFFICES ASSUME NEW u \in Thread
               PROVE  u \notin group' \/ pc'[u] = "wait" => deferred'[u] = {}
    BY DEF GroupInv
  <2>1. CASE u = t
    BY <1>0, <1>2, <2>1 DEF GroupInv, Queue
  <2>2. CASE u # t
    BY <1>0, <1>2, <2>2 DEF GroupInv, Queue
  <2> QED  BY <2>1, <2>2
<1>3. ASSUME NEW t \in Thread, EnterGroup(t) \/ CallStart(t)
      PROVE  GroupInv'
  BY <1>0, <1>3 DEF EnterGroup, CallStart, GroupInv
<1>4. ASSUME NEW t \in Thread, LeaveGroup(t) \/ waitOnUpdate(t)
      PROVE  GroupInv'
  BY <1>1, <1>4 DEF LeaveGroup, waitOnUpdate
<1>5. ASSUME NEW t \in Thread, NEW r \in Register, SetOption(t, r) \/ SetTag(t, r)
      PROVE  GroupInv'
  BY <1>2, <1>5 DEF SetOption, SetTag, Set
<1>6. ASSUME NEW t \in Thread, StopStream(t) \/ OpenStream(t)
      PROVE  GroupInv'
  <2>1. open_g3stream \in Register
    BY DEF Register
  <2> QED  BY <1>2, <1>6, <2>1 DEF StopStream, OpenStream, Set
<1>7. CASE Poll \/ UpdateWorker \/ StashThread \/ EmitStatus \/ UNCHANGED vars
  <2>1. UNCHANGED <<pc, group, deferred>>
    BY <1>7 DEF Poll, UpdateWorker, TakeBatch, SendBatch, StashThread, EnsureGil, BuildTimestream,
                EmitScan, ReleaseGil, EmitStatus, vars, threadVars
  <2> QED  BY <2>1 DEF GroupInv
<1> QED  BY <1>3, <1>4, <1>5, <1>6, <1>7 DEF Next, StartThread

\* A variable that is set is queued or deferred; what is deferred is queued next.
LEMMA SetIsPending ==
  ASSUME TypeInv, [Next]_vars, NEW r \in Register
  PROVE  /\ Deferred(r) => Queued(r)' \/ Deferred(r)'
         /\ value'[r] # value[r] => Queued(r)' \/ Deferred(r)'
<1>0. /\ value \in [Register -> Count] /\ updates \in Seq(SUBSET Register)
      /\ deferred \in [Thread -> SUBSET Register]
  BY DEF TypeInv, TypeOK
<1>1. ASSUME NEW t \in Thread, Leave(t), value' = value, working' = working
      PROVE  Deferred(r) => Queued(r)' \/ Deferred(r)'
  <2> SUFFICES ASSUME NEW u \in Thread, r \in deferred[u]
               PROVE  Queued(r)' \/ Deferred(r)'
    BY DEF Deferred
  <2>1. CASE u = t
    <3>1. updates' = Append(updates, deferred[t])
      BY <1>1, <2>1 DEF Leave
    <3>2. Len(updates) + 1 \in DOMAIN updates' /\ updates'[Len(updates) + 1] = deferred[t]
      BY <1>0, <3>1
    <3> QED  BY <2>1, <3>2 DEF Queued
  <2>2. CASE u # t
    <3>1. deferred'[u] = deferred[u]
      BY <1>0, <1>1, <2>2 DEF Leave
    <3> QED  BY <3>1 DEF Deferred
  <2> QED  BY <2>1, <2>2
<1>2. ASSUME NEW t \in Thread, NEW s \in Register, Queue(t, s)
      PROVE  /\ Deferred(r) => Deferred(r)'
             /\ r = s => Queued(r)' \/ Deferred(r)'
  <2>1. CASE t \in group
    <3>1. deferred' = [deferred EXCEPT ![t] = @ \cup {s}]
      BY <1>2, <2>1 DEF Queue
    <3> QED  BY <1>0, <3>1 DEF Deferred
  <2>2. CASE t \notin group
    <3>1. updates' = Append(updates, {s}) /\ deferred' = deferred
      BY <1>2, <2>2 DEF Queue
    <3>2. Len(updates) + 1 \in DOMAIN updates' /\ updates'[Len(updates) + 1] = {s}
      BY <1>0, <3>1
    <3> QED  BY <3>1, <3>2 DEF Deferred, Queued
  <2> QED  BY <2>1, <2>2
<1>3. ASSUME NEW t \in Thread, LeaveGroup(t) \/ waitOnUpdate(t)
      PROVE  value' = value /\ (Deferred(r) => Queued(r)' \/ Deferred(r)')
  BY <1>1, <1>3 DEF LeaveGroup, waitOnUpdate
<1>4. ASSUME NEW t \in Thread, NEW s \in Register, NEW v, Queue(t, s),
             value' = [value EXCEPT ![s] = v]
      PROVE  /\ Deferred(r) => Deferred(r)'
             /\ value'[r] # value[r] => Queued(r)' \/ Deferred(r)'
  BY <1>0, <1>2, <1>4
<1>5. ASSUME NEW t \in Thread, NEW s \in Register, SetOption(t, s) \/ SetTag(t, s)
      PROVE  /\ Deferred(r) => Deferred(r)'
             /\ value'[r] # value[r] => Queued(r)' \/ Deferred(r)'
  BY <1>4, <1>5 DEF SetOption, SetTag, Set
<1>6. ASSUME NEW t \in Thread, StopStream(t) \/ OpenStream(t)
      PROVE  /\ Deferred(r) => Deferred(r)'
             /\ value'[r] # value[r] => Queued(r)' \/ Deferred(r)'
  <2>1. open_g3stream \in Register
    BY DEF Register
  <2> QED  BY <1>4, <1>6, <2>1 DEF StopStream, OpenStream, Set
<1>7. CASE \/ \E t \in Thread : EnterGroup(t) \/ CallStart(t)
           \/ Poll \/ UpdateWorker \/ StashThread \/ EmitStatus \/ UNCHANGED vars
  <2>1. UNCHANGED <<value, deferred>>
    BY <1>7 DEF EnterGroup, CallStart, Poll, UpdateWorker, TakeBatch, SendBatch, StashThread,
                EnsureGil, BuildTimestream, EmitScan, ReleaseGil, EmitStatus, vars, threadVars
  <2> QED  BY <2>1 DEF Deferred
<1> QED  BY <1>3, <1>5, <1>6, <1>7 DEF Next, StartThread

\* Where nothing is queued or deferred, the stream will know the value as it is.
LEMMA SettledStep ==
  ASSUME TypeInv, Settled, [Next]_vars
  PROVE  Settled'
<1> SUFFICES ASSUME NEW r \in Stream, r \notin lost', ~Queued(r)', ~Deferred(r)'
             PROVE  Knows(meta', told', Len(meta'), r, {value'[r]})
  BY DEF Settled, WillKnow
<1>1. CASE SendBatch /\ r \in working
  BY <1>1, KnowledgeStep
<1>2. CASE ~(SendBatch /\ r \in working)
  <2>0. r \in Register
    BY StreamAssumption
  <2>1. r \notin lost /\ ~Queued(r)
    BY <1>2, KnowledgeStep, QueuedStays
  <2>2. ~Deferred(r) /\ value'[r] = value[r]
    BY <2>0, SetIsPending
  <2>3. WillKnow(r, {value[r]})
    BY <2>1, <2>2 DEF Settled
  <2> QED  BY <1>2, <2>1, <2>2, <2>3, KnowledgeStep
<1> QED  BY <1>1, <1>2

\* What only the command of a thread sets.
LEMMA NeedsSteps ==
  ASSUME [Next]_vars
  PROVE  (\E t \in Thread : OpenStream(t)) \/ needs' = needs
BY DEF Next, EnterGroup, LeaveGroup, SetOption, SetTag, StopStream, Set, CallStart,
       StartThread, waitOnUpdate, Poll, UpdateWorker, TakeBatch, SendBatch, StashThread,
       EnsureGil, BuildTimestream, EmitScan, ReleaseGil, EmitStatus, vars

\* Only the command itself moves a thread to its wait, or records what it saw.
LEMMA CommandSteps ==
  ASSUME TypeInv, [Next]_vars, NEW t \in Thread
  PROVE  \/ CallStart(t) \/ waitOnUpdate(t)
         \/ called'[t] = called[t] /\ (pc'[t] = pc[t] \/ pc'[t] = "idle")
<1>0. /\ pc \in [Thread -> {"idle", "wait", "open"}]
      /\ called \in [Thread -> [Stream -> Count]]
  BY DEF TypeInv, TypeOK
<1>1. ASSUME NEW u \in Thread, CallStart(u) \/ waitOnUpdate(u)
      PROVE  \/ CallStart(t) \/ waitOnUpdate(t)
             \/ called'[t] = called[t] /\ (pc'[t] = pc[t] \/ pc'[t] = "idle")
  <2>1. CASE u = t
    BY <1>1, <2>1 DEF CallStart, waitOnUpdate
  <2>2. CASE u # t
    BY <1>0, <1>1, <2>2 DEF CallStart, waitOnUpdate
  <2> QED  BY <2>1, <2>2
<1>2. ASSUME NEW u \in Thread, OpenStream(u)
      PROVE  called'[t] = called[t] /\ (pc'[t] = pc[t] \/ pc'[t] = "idle")
  BY <1>0, <1>2 DEF OpenStream
<1>3. ASSUME NEW u \in Thread,
             \/ EnterGroup(u) \/ LeaveGroup(u) \/ StopStream(u)
             \/ \E r \in Register : SetOption(u, r) \/ SetTag(u, r)
      PROVE  UNCHANGED <<called, pc>>
  BY <1>3 DEF EnterGroup, LeaveGroup, StopStream, SetOption, SetTag, Set
<1>4. Poll \/ UpdateWorker \/ StashThread \/ EmitStatus \/ UNCHANGED vars
        => UNCHANGED <<called, pc>>
  BY DEF Poll, UpdateWorker, TakeBatch, SendBatch, StashThread, EnsureGil, BuildTimestream,
         EmitScan, ReleaseGil, EmitStatus, vars, threadVars
<1> QED  BY <1>1, <1>2, <1>3, <1>4 DEF Next, StartThread

\* What a start command saw is queued, or known, until the command opens the stream.
LEMMA CalledStep ==
  ASSUME TypeInv, TypeInv', GroupInv, Settled, CalledInv, [Next]_vars
  PROVE  CalledInv'
<1> SUFFICES ASSUME NEW t \in Thread, NEW r \in Others
             PROVE  /\ called'[t][r] <= value'[r]
                    /\ r \notin lost' =>
                         /\ pc'[t] = "wait" =>
                              \/ Queued(r)'
                              \/ Knows(meta', told', Len(meta'), r, AtLeast(called'[t][r]))
                         /\ pc'[t] = "open" =>
                              Knows(meta', told', Len(meta'), r, AtLeast(called'[t][r]))
  BY DEF CalledInv, WillKnow
<1>0. /\ r \in Stream /\ r \in Register /\ r \in Option \cup Tag
      /\ called[t][r] \in Nat /\ value[r] \in Nat /\ value'[r] \in Nat /\ value[r] <= value'[r]
      /\ called[t][r] <= value[r]
  <2>1. r \in Stream /\ r \in Register /\ r \in Option \cup Tag
    BY StreamAssumption DEF Others, Register
  <2>2. called[t][r] \in Nat /\ value[r] \in Nat /\ value'[r] \in Nat
    BY <2>1 DEF TypeInv, TypeOK, Count
  <2> QED  BY <2>1, <2>2, ValuesGrow DEF CalledInv
<1>1. CASE CallStart(t)
  <2>1. /\ called'[t][r] = IF NotDeferred(t, r) THEN value[r] ELSE 0
        /\ pc'[t] = "wait" /\ t \notin group
        /\ UNCHANGED <<value, meta, told, lost, working, updates>>
    <3>1. /\ pc \in [Thread -> {"idle", "wait", "open"}]
          /\ called \in [Thread -> [Stream -> Count]]
      BY DEF TypeInv, TypeOK
    <3>2. called' = [called EXCEPT ![t] =
                       [s \in Stream |-> IF NotDeferred(t, s) THEN value[s] ELSE 0]]
      BY <1>1 DEF CallStart
    <3> QED  BY <1>0, <1>1, <3>1, <3>2 DEF CallStart, outVars
  <2>2. ASSUME r \notin lost, ~Queued(r)
        PROVE  WillKnow(r, AtLeast(called'[t][r]))
    <3>1. CASE NotDeferred(t, r)
      <4>1. ~Deferred(r)
        BY <2>1, <3>1 DEF GroupInv, NotDeferred, Deferred
      <4>2. WillKnow(r, {value[r]})
        BY <1>0, <2>2, <4>1 DEF Settled
      <4>3. {value[r]} \subseteq AtLeast(called'[t][r])
        BY <1>0, <2>1, <3>1 DEF AtLeast
      <4>4. Len(meta) \in Nat
        BY DEF TypeInv, TypeOK
      <4> QED  BY <4>2, <4>3, <4>4, KnowsLess DEF WillKnow
    <3>2. CASE ~NotDeferred(t, r)
      <4>1. Len(meta) \in 0..Len(meta)
        BY DEF TypeInv, TypeOK
      <4>2. WillKnow(r, AtLeast(0))
        BY <1>0, <4>1, KnowsNumber DEF TypeInv, WillKnow
      <4> QED  BY <2>1, <3>2, <4>2
    <3> QED  BY <3>1, <3>2
  <2>3. Queued(r)' <=> Queued(r)
    BY <2>1 DEF Queued
  <2>4. called'[t][r] <= value'[r]
    BY <1>0, <2>1
  <2> QED  BY <2>1, <2>2, <2>3, <2>4 DEF WillKnow
<1>2. CASE waitOnUpdate(t)
  <2>1. /\ pc[t] = "wait" /\ pc'[t] = "open" /\ called' = called
        /\ UNCHANGED <<value, meta, told, lost>> /\ updates = <<>> /\ working = {}
    BY <1>2 DEF waitOnUpdate, UpdatesSent, outVars, TypeInv, TypeOK
  <2>2. ~Queued(r)
    BY <2>1 DEF Queued
  <2>3. r \notin lost => WillKnow(r, AtLeast(called[t][r]))
    BY <2>1, <2>2 DEF CalledInv
  <2> QED  BY <1>0, <2>1, <2>3 DEF WillKnow
<1>3. CASE called'[t] = called[t] /\ (pc'[t] = pc[t] \/ pc'[t] = "idle")
  <2> DEFINE x == called[t][r]
  <2>1. x \in Nat /\ x <= value[r] /\ called'[t][r] = x /\ x <= value'[r]
    BY <1>0, <1>3
  <2>2. value[r] \in AtLeast(x)
    BY <1>0, <2>1 DEF AtLeast
  <2>3. r \notin lost =>
          /\ pc[t] = "wait" => Queued(r) \/ WillKnow(r, AtLeast(x))
          /\ pc[t] = "open" => WillKnow(r, AtLeast(x))
    BY DEF CalledInv
  <2> DEFINE V == AtLeast(x)
  <2> HIDE DEF x
  <2>4. ASSUME r \notin lost'
        PROVE  /\ pc[t] = "wait" => Queued(r)' \/ Knows(meta', told', Len(meta'), r, V)
               /\ pc[t] = "open" => Knows(meta', told', Len(meta'), r, V)
    <3>1. CASE SendBatch /\ r \in working
      BY <1>0, <2>2, <2>4, <3>1, KnowledgeStep
    <3>2. CASE ~(SendBatch /\ r \in working)
      <4>1. r \notin lost
        BY <1>0, <2>4, <3>2, KnowledgeStep
      <4>2. Queued(r) => Queued(r)'
        BY <3>2, QueuedStays
      <4>3. WillKnow(r, V) => Knows(meta', told', Len(meta'), r, V)
        BY <1>0, <2>4, <3>2, <4>1, KnowledgeStep
      <4> QED  BY <2>3, <4>1, <4>2, <4>3
    <3> QED  BY <3>1, <3>2
  <2> QED  BY <1>3, <2>1, <2>4
<1> QED  BY <1>1, <1>2, <1>3, CommandSteps

\* What the command saw that opened the stream is known to the stream.
LEMMA NeedsStep ==
  ASSUME TypeInv, TypeInv', CalledInv, NeedsInv, [Next]_vars
  PROVE  NeedsInv'
<1> SUFFICES ASSUME NEW r \in Others
             PROVE  /\ needs'[r] <= value'[r]
                    /\ r \notin lost' =>
                         Knows(meta', told', Len(meta'), r, AtLeast(needs'[r]))
  BY DEF NeedsInv, WillKnow
<1>0. /\ r \in Stream /\ r \in Register /\ needs[r] \in Nat /\ value[r] \in Nat /\ value'[r] \in Nat
      /\ value[r] <= value'[r] /\ needs[r] <= value[r]
      /\ \A t \in Thread : called[t][r] \in Nat /\ called[t][r] <= value[r]
  <2>1. r \in Stream /\ r \in Register /\ r \in Option \cup Tag
    BY StreamAssumption DEF Others, Register
  <2>2. /\ needs[r] \in Nat /\ value[r] \in Nat /\ value'[r] \in Nat
        /\ \A t \in Thread : called[t][r] \in Nat
    BY <2>1 DEF TypeInv, TypeOK, Count
  <2> QED  BY <2>1, <2>2, ValuesGrow DEF CalledInv, NeedsInv
<1>1. ASSUME NEW t \in Thread, OpenStream(t), needs' = called[t]
      PROVE  /\ needs'[r] <= value'[r]
             /\ r \notin lost' => Knows(meta', told', Len(meta'), r, AtLeast(needs'[r]))
  <2>1. pc[t] = "open" /\ UNCHANGED <<meta, told, lost>>
    BY <1>1 DEF OpenStream, outVars
  <2>2. r \notin lost => WillKnow(r, AtLeast(called[t][r]))
    BY <2>1 DEF CalledInv
  <2> QED  BY <1>0, <1>1, <2>1, <2>2 DEF WillKnow
<1>2. CASE needs' = needs
  <2> DEFINE x == needs[r]
  <2>1. x \in Nat /\ x <= value[r] /\ needs'[r] = x /\ x <= value'[r]
    BY <1>0, <1>2
  <2>2. value[r] \in AtLeast(x)
    BY <1>0, <2>1 DEF AtLeast
  <2>3. r \notin lost => WillKnow(r, AtLeast(x))
    BY DEF NeedsInv
  <2> DEFINE V == AtLeast(x)
  <2> HIDE DEF x
  <2>4. ASSUME r \notin lost'
        PROVE  Knows(meta', told', Len(meta'), r, V)
    <3>1. CASE SendBatch /\ r \in working
      BY <1>0, <2>2, <2>4, <3>1, KnowledgeStep
    <3>2. CASE ~(SendBatch /\ r \in working)
      <4>1. r \notin lost
        BY <1>0, <2>4, <3>2, KnowledgeStep
      <4> QED  BY <1>0, <2>3, <2>4, <3>2, <4>1, KnowledgeStep
    <3> QED  BY <3>1, <3>2
  <2> QED  BY <2>1, <2>4
<1>3. ASSUME NEW t \in Thread, OpenStream(t)
      PROVE  needs' = called[t] \/ needs' = needs
  BY <1>3 DEF OpenStream
<1> QED  BY <1>1, <1>2, <1>3, NeedsSteps

\* What a status owes was told no later than by that status.
LEMMA OwedStep ==
  ASSUME TypeInv, NeedsInv, OwedInv, [Next]_vars
  PROVE  OwedInv'
<1> SUFFICES ASSUME NEW i \in 1..Len(meta'), NEW r \in Others
             PROVE  Knows(meta', told', i, r, AtLeast(meta'[i].owed[r]))
  BY DEF OwedInv
<1> DEFINE L == Len(meta)
<1>0. /\ meta \in Seq([values : Partial, owed : [Stream -> Count]]) /\ L \in Nat
      /\ r \in Stream /\ needs[r] \in Nat /\ value[r] \in Nat /\ needs[r] <= value[r]
      /\ TypeOK
  <2>1. r \in Stream /\ r \in Register
    BY StreamAssumption DEF Others
  <2>2. TypeOK
    BY DEF TypeInv
  <2>3. meta \in Seq([values : Partial, owed : [Stream -> Count]]) /\ L \in Nat
    BY <2>2 DEF TypeOK
  <2>4. needs[r] \in Nat /\ value[r] \in Nat
    BY <2>1, <2>2 DEF TypeOK, Count
  <2>5. needs[r] <= value[r]
    BY DEF NeedsInv
  <2> QED  BY <2>1, <2>2, <2>3, <2>4, <2>5
<1>1. CASE UNCHANGED <<meta, told>>
  BY <1>1 DEF OwedInv
<1>2. CASE SendBatch /\ meta' = Append(meta, Status)
  <2>1. /\ L + 1 = Len(meta') /\ meta'[L + 1] = Status /\ told' = told
        /\ \A j \in 1..L : meta'[j] = meta[j]
    BY <1>0, <1>2 DEF SendBatch
  <2>2. CASE i \in 1..L
    <3>1. Knows(meta, told, i, r, AtLeast(meta[i].owed[r])) /\ meta'[i] = meta[i]
      BY <2>1, <2>2 DEF OwedInv
    <3>2. i \in Nat /\ \A j \in 1..i : meta'[j] = meta[j]
      BY <1>0, <2>1, <2>2
    <3> QED  BY <2>1, <3>1, <3>2, KnowsLocal
  <2>3. CASE i = L + 1
    <3> DEFINE x == IF r \in lost THEN 0 ELSE needs[r]
    <3>1. meta'[i].owed[r] = x
      BY <1>0, <2>1, <2>3, StatusType
    <3>2. r \in working => r \in DOMAIN Status.values /\ Status.values[r] = value[r]
      BY <1>0, StatusType
    <3>3. r \notin working => r \notin DOMAIN Status.values
      BY <1>0, StatusType
    <3>4. value[r] \in AtLeast(x)
      BY <1>0 DEF AtLeast
    <3>5. Knows(meta, told, L, r, AtLeast(x))
      <4>1. CASE r \in lost
        <5>1. L \in 0..L
          BY <1>0
        <5>2. Knows(meta, told, L, r, AtLeast(0))
          BY <1>0, <5>1, KnowsNumber
        <5> QED  BY <4>1, <5>2
      <4>2. CASE r \notin lost
        BY <4>2 DEF NeedsInv, WillKnow
      <4> QED  BY <4>1, <4>2
    <3> DEFINE V == AtLeast(x)
    <3>6. Knows(meta', told, L + 1, r, V)
      <4> HIDE DEF x
      <4> QED  BY <1>0, <2>1, <3>2, <3>3, <3>4, <3>5, KnowsAppend
    <3> QED  BY <2>1, <2>3, <3>1, <3>6
  <2> QED  BY <1>0, <2>1, <2>2, <2>3
<1>3. CASE EmitStatus
  <2>1. meta # <<>> /\ meta' = Tail(meta) /\ told' = Told(Head(meta).values)
    BY <1>3 DEF EmitStatus
  <2>2. /\ L = Len(meta') + 1 /\ Len(meta') \in Nat /\ Head(meta) = meta[1]
        /\ \A j \in 1..Len(meta') : meta'[j] = meta[j + 1]
    BY <1>0, <2>1
  <2>3. told'[r] = IF r \in DOMAIN meta[1].values THEN meta[1].values[r] ELSE told[r]
    BY <1>0, <2>1, <2>2 DEF Told
  <2>4. i + 1 \in 1..L /\ i \in Nat /\ meta'[i] = meta[i + 1]
    BY <2>2
  <2>5. Knows(meta, told, i + 1, r, AtLeast(meta[i + 1].owed[r]))
    BY <2>4 DEF OwedInv
  <2>6. \A j \in 1..i : meta'[j] = meta[j + 1]
    <3>1. 1..i \subseteq 1..Len(meta')
      BY <2>2
    <3> QED  BY <2>2, <3>1
  <2> DEFINE V == AtLeast(meta[i + 1].owed[r])
  <2>7. Knows(meta', told', i, r, V)
    <3> HIDE DEF V
    <3>1. Knows(meta, told, i + 1, r, V)
      BY <2>5 DEF V
    <3> QED  BY <2>3, <2>4, <2>6, <3>1, KnowsTold
  <2> QED  BY <2>4, <2>7
<1>4. SendBatch => meta' = Append(meta, Status) \/ UNCHANGED <<meta, told>>
  BY DEF SendBatch
<1>5. TakeBatch => UNCHANGED <<meta, told>>
  BY DEF TakeBatch, outVars
<1> QED  BY <1>1, <1>2, <1>3, <1>4, <1>5, StepKinds

\* The flag open_g3stream is 0 or 1 wherever it is remembered.
LEMMA FlagStep ==
  ASSUME TypeInv, FlagInv, [Next]_vars
  PROVE  FlagInv'
<1> DEFINE o == open_g3stream
<1>0. /\ o \in Stream /\ value[o] \in {0, 1}
      /\ called \in [Thread -> [Stream -> Count]] /\ needs \in [Stream -> Count]
      /\ meta \in Seq([values : Partial, owed : [Stream -> Count]])
      /\ TypeOK
  BY StreamAssumption DEF TypeInv, TypeOK
<1>1. ASSUME NEW t \in Thread
      PROVE  called'[t][o] <= 1
  <2>1. CASE CallStart(t)
    <3>1. called'[t][o] = IF NotDeferred(t, o) THEN value[o] ELSE 0
      BY <1>0, <2>1 DEF CallStart
    <3> QED  BY <1>0, <3>1
  <2>2. CASE called'[t] = called[t]
    BY <2>2 DEF FlagInv
  <2>3. waitOnUpdate(t) => called'[t] = called[t]
    BY DEF waitOnUpdate
  <2> QED  BY <2>1, <2>2, <2>3, CommandSteps
<1>2. needs'[o] <= 1
  <2>1. ASSUME NEW t \in Thread, OpenStream(t)
        PROVE  needs' = needs \/ needs' = called[t]
    BY <2>1 DEF OpenStream
  <2> QED  BY <2>1, NeedsSteps DEF FlagInv
<1>3. ASSUME NEW i \in 1..Len(meta')
      PROVE  meta'[i].owed[o] <= 1
  <2>1. CASE UNCHANGED meta
    BY <2>1 DEF FlagInv
  <2>2. CASE SendBatch /\ meta' = Append(meta, Status)
    <3>1. CASE i \in 1..Len(meta)
      BY <1>0, <2>2, <3>1 DEF FlagInv
    <3>2. CASE i = Len(meta) + 1
      <4>1. meta'[i] = Status
        BY <1>0, <2>2, <3>2
      <4>2. Status.owed[o] = IF o \in lost THEN 0 ELSE needs[o]
        BY <1>0, StatusType
      <4> QED  BY <4>1, <4>2 DEF FlagInv
    <3> QED  BY <1>0, <2>2, <3>1, <3>2
  <2>3. CASE EmitStatus
    <3>1. meta # <<>> /\ meta' = Tail(meta)
      BY <2>3 DEF EmitStatus
    <3>2. i + 1 \in 1..Len(meta) /\ meta'[i] = meta[i + 1]
      BY <1>0, <3>1
    <3> QED  BY <3>2 DEF FlagInv
  <2> QED  BY <2>1, <2>2, <2>3, StepKinds DEF SendBatch, TakeBatch, outVars
<1> QED  BY <1>1, <1>2, <1>3 DEF FlagInv

\* ToldInv is inductive relative to the types.
LEMMA ToldInvariance == Spec => []ToldInv
<1>1. Init => ToldInv
  <2> SUFFICES ASSUME Init
               PROVE  ToldInv
    OBVIOUS
  <2>1. /\ open_g3stream \in Stream /\ Others \subseteq Stream /\ meta = <<>> /\ Len(meta) = 0
        /\ \A r \in Stream : value[r] = 0 /\ told[r] = 0 /\ needs[r] = 0
        /\ \A t \in Thread : pc[t] = "idle" /\ deferred[t] = {}
        /\ \A t \in Thread : \A r \in Stream : called[t][r] = 0
    BY StreamAssumption DEF Init, Others
  <2>2. \A r \in Stream : \A V : 0 \in V => WillKnow(r, V)
    BY <2>1 DEF WillKnow, Knows, Mentions
  <2>3. GroupInv /\ Settled /\ CalledInv /\ FlagInv
    BY <2>1, <2>2 DEF GroupInv, Settled, CalledInv, FlagInv
  <2>4. NeedsInv
    BY <2>1, <2>2 DEF NeedsInv, AtLeast
  <2>5. OwedInv
    BY <2>1 DEF OwedInv
  <2> QED  BY <2>3, <2>4, <2>5 DEF ToldInv
<1>2. TypeInv /\ TypeInv' /\ ToldInv /\ [Next]_vars => ToldInv'
  BY GroupStep, SettledStep, CalledStep, NeedsStep, OwedStep, FlagStep DEF ToldInv
<1> QED  BY <1>1, <1>2, TypeInvariance, PTL DEF Spec

\* With nothing on its way the stream has been told the variables as they are.
THEOREM StreamTellsAll == Spec => []StreamTellsVariables
<1>1. ToldInv => StreamTellsVariables
  <2> SUFFICES ASSUME ToldInv, updates = <<>>, working = {}, meta = <<>>,
                      NEW r \in Stream \ lost, \A t \in Thread : r \notin deferred[t]
               PROVE  told[r] = value[r]
    BY DEF StreamTellsVariables
  <2>1. WillKnow(r, {value[r]})
    BY DEF ToldInv, Settled, Queued, Deferred
  <2>2. Mentions(meta, Len(meta), r) = {}
    BY DEF Mentions
  <2> QED  BY <2>1, <2>2 DEF WillKnow, Knows
<1> QED  BY <1>1, ToldInvariance, PTL

\* A status that opens the stream finds it told all that startG3Stream waited for.
THEOREM StartStatusIsComplete == Spec => StartStatusComplete
<1> DEFINE o == open_g3stream
<1>1. TypeInv /\ ToldInv /\ [Next]_vars =>
        [told[o] = 0 /\ told'[o] = 1 => \A r \in Stream : told'[r] >= Head(meta).owed[r]]_vars
  <2> SUFFICES ASSUME TypeInv, ToldInv, [Next]_vars, told[o] = 0, told'[o] = 1, NEW r \in Stream
               PROVE  told'[r] >= Head(meta).owed[r]
    OBVIOUS
  <2>1. EmitStatus
    <3>1. told' # told
      OBVIOUS
    <3> QED  BY <3>1, StepKinds DEF TakeBatch, SendBatch, outVars
  <2>2. /\ meta # <<>> /\ told' = Told(Head(meta).values) /\ Head(meta) = meta[1]
        /\ 1 \in 1..Len(meta)
    BY <2>1 DEF EmitStatus, TypeInv, TypeOK
  <2>3. CASE r = o
    BY <2>2, <2>3 DEF ToldInv, FlagInv
  <2>4. CASE r # o
    <3>1. Knows(meta, told, 1, r, AtLeast(meta[1].owed[r]))
      BY <2>2, <2>4 DEF ToldInv, OwedInv, Others
    <3>2. told'[r] = IF r \in DOMAIN meta[1].values THEN meta[1].values[r] ELSE told[r]
      BY <2>2 DEF Told
    <3>3. CASE r \in DOMAIN meta[1].values
      <4>1. Mentions(meta, 1, r) = {1}
        BY <3>3 DEF Mentions
      <4>2. meta[1].values[r] \in AtLeast(meta[1].owed[r])
        BY <3>1, <4>1 DEF Knows
      <4> QED  BY <2>2, <3>2, <3>3, <4>2 DEF AtLeast
    <3>4. CASE r \notin DOMAIN meta[1].values
      <4>1. Mentions(meta, 1, r) = {}
        BY <3>4 DEF Mentions
      <4>2. told[r] \in AtLeast(meta[1].owed[r])
        BY <3>1, <4>1 DEF Knows
      <4> QED  BY <2>2, <3>2, <3>4, <4>2 DEF AtLeast
    <3> QED  BY <3>3, <3>4
  <2> QED  BY <2>3, <2>4
<1> QED  BY <1>1, TypeInvariance, ToldInvariance, PTL DEF Spec, StartStatusComplete
=============================================================================
