----------------------------- MODULE StreamBase ------------------------------
(***************************************************************************)
(* The StreamBase device: rogue variables that Python threads set, and the *)
(* command that opens the stream when the stream knows all the others.     *)
(*                                                                         *)
(* A variable that is set is forwarded to the builder at once.  To reach   *)
(* the stream it is queued, or deferred while its thread is in an update   *)
(* group; rogue's poll thread queues variables that may not have changed.   *)
(* rogue's update worker takes a batch from the queue, reads the values    *)
(* its variables have by then and sends those of the group 'stream' as one *)
(* status, which the event thread passes on.  Meanwhile the stash thread   *)
(* builds data frames with the options it finds, under the GIL, which      *)
(* every Python step needs.  A value is the number of times the variable   *)
(* was set, but that of open_g3stream is 0 or 1.                           *)
(***************************************************************************)
EXTENDS Naturals, Sequences, FiniteSets

CONSTANTS
  Option,         \* variables the builder reads when it builds a frame
  Tag,            \* other variables
  open_g3stream,  \* the variable that opens the stream
  Stream,         \* variables of the group 'stream' of meta_registers.yaml
  Polled,         \* variables that rogue polls
  Thread,         \* Python threads that set variables and call the command
  Timestreams,    \* timestreams of a data frame: data, TES biases, primary
  MetaBuffer,     \* with so many statuses waiting the next may be dropped, with more it is
  MaxSets,        \* bound: sets, groups and commands in a behaviour
  MaxUpdates,     \* bound: a poll adds to an update queue shorter than this
  MaxScans        \* bound: data frames in a behaviour

Register == Option \cup Tag \cup {open_g3stream}

ASSUME RegisterAssumption == open_g3stream \notin Option \cup Tag
ASSUME StreamAssumption ==
  Stream \subseteq Register /\ open_g3stream \in Stream /\ Polled \subseteq Register
ASSUME NumbersAssumption ==
  /\ MetaBuffer \in Nat /\ Timestreams \in Nat \ {0}
  /\ MaxSets \in Nat /\ MaxUpdates \in Nat /\ MaxScans \in Nat

VARIABLES
  value,     \* values of the variables
  pc,        \* where each thread is in the command, "idle" outside it
  group,     \* threads inside an update group
  deferred,  \* thread |-> variables it has set in its group
  updates,   \* rogue's update queue: batches of variables
  working,   \* the batch in the update worker's hands
  meta,      \* statuses on their way to the output queue
  stash,     \* whether the stash thread sleeps or builds frames
  gil,       \* who holds the GIL: "python" stands for every Python thread
  built,     \* the options each timestream of the frame was given so far
  scans,     \* the data frames: the options their timestreams were given
  sets,      \* aux: counts towards MaxSets
  told,      \* what the statuses passed on so far tell, 0 if nothing
  called,    \* aux: thread |-> the values pending or sent at its command
  needs,     \* aux: the same for the command that opened the stream
  lost       \* aux: variables whose last status was dropped

threadVars == <<pc, group, deferred, called>>
stashVars == <<stash, gil, built>>
outVars == <<meta, scans, told, lost>>
vars == <<value, threadVars, updates, working, outVars, stashVars, sets, needs>>

Options == [r \in Option |-> value[r]]

Init ==
  /\ value = [r \in Register |-> 0]
  /\ pc = [t \in Thread |-> "idle"] /\ group = {}
  /\ deferred = [t \in Thread |-> {}]
  /\ updates = <<>> /\ working = {} /\ meta = <<>>
  /\ stash = "sleep" /\ gil = "python" /\ built = <<>> /\ scans = <<>>
  /\ sets = 0 /\ told = [r \in Stream |-> 0] /\ lost = {}
  /\ called = [t \in Thread |-> [r \in Stream |-> 0]]
  /\ needs = [r \in Stream |-> 0]

-----------------------------------------------------------------------------
(* rogue's update groups and update worker *)

Python == gil = "python"

Queue(t, r) ==
  IF t \in group
  THEN deferred' = [deferred EXCEPT ![t] = @ \cup {r}] /\ UNCHANGED updates
  ELSE updates' = Append(updates, {r}) /\ UNCHANGED deferred

Leave(t) ==
  /\ group' = group \ {t}
  /\ updates' = IF deferred[t] = {} THEN updates ELSE Append(updates, deferred[t])
  /\ deferred' = [deferred EXCEPT ![t] = {}]

\* Any thread may group its updates.
EnterGroup(t) ==
  /\ Python /\ pc[t] = "idle" /\ t \notin group
  /\ sets < MaxSets /\ sets' = sets + 1
  /\ group' = group \cup {t}
  /\ UNCHANGED <<value, pc, called, deferred, updates, working, outVars, stashVars, needs>>

LeaveGroup(t) ==
  /\ Python /\ pc[t] = "idle" /\ t \in group
  /\ Leave(t)
  /\ UNCHANGED <<value, pc, called, working, outVars, stashVars, sets, needs>>

\* rogue's poll thread reads its variables in a group of its own.
Poll ==
  /\ Python /\ Polled # {} /\ Len(updates) < MaxUpdates
  /\ updates' = Append(updates, Polled)
  /\ UNCHANGED <<value, threadVars, working, outVars, stashVars, sets, needs>>

TakeBatch ==
  /\ Python /\ working = {} /\ updates # <<>>
  /\ working' = Head(updates) /\ updates' = Tail(updates)
  /\ UNCHANGED <<value, threadVars, outVars, stashVars, sets, needs>>

\* owed: aux, what the stream must have been told with a status that opens it.
Status == [values |-> [r \in working \cap Stream |-> value[r]],
           owed   |-> [r \in Stream |-> IF r \in lost THEN 0 ELSE needs[r]]]

SendBatch ==
  /\ Python /\ working # {}
  /\ working' = {}
  /\ \/ /\ working \cap Stream # {} /\ Len(meta) <= MetaBuffer
        /\ meta' = Append(meta, Status) /\ lost' = lost \ working
     \/ /\ working \cap Stream # {} /\ Len(meta) >= MetaBuffer
        /\ lost' = lost \cup (working \cap Stream) /\ UNCHANGED meta
     \/ working \cap Stream = {} /\ UNCHANGED <<meta, lost>>
  /\ UNCHANGED <<value, threadVars, updates, scans, told, stashVars, sets, needs>>

-----------------------------------------------------------------------------
(* The device's variables *)

Set(t, r, v) ==
  /\ Python /\ pc[t] = "idle"
  /\ sets < MaxSets /\ sets' = sets + 1
  /\ value' = [value EXCEPT ![r] = v]
  /\ Queue(t, r)
  /\ UNCHANGED <<pc, group, called, working, outVars, stashVars, needs>>

SetOption(t, r) == r \in Option /\ Set(t, r, value[r] + 1)
SetTag(t, r) == r \in Tag /\ Set(t, r, value[r] + 1)
StopStream(t) == Set(t, open_g3stream, 0)

(* The command startG3Stream *)

\* What another thread defers is not in the update queue yet.
NotDeferred(t, r) == \A u \in Thread \ {t} : r \notin deferred[u]

CallStart(t) ==
  /\ Python /\ pc[t] = "idle" /\ t \notin group
  /\ sets < MaxSets /\ sets' = sets + 1
  /\ pc' = [pc EXCEPT ![t] = "wait"]
  /\ group' = group \cup {t}
  /\ called' = [called EXCEPT ![t] =
                  [r \in Stream |-> IF NotDeferred(t, r) THEN value[r] ELSE 0]]
  /\ UNCHANGED <<value, deferred, updates, working, outVars, stashVars, needs>>

UpdatesSent == updates = <<>> /\ working = {}

waitOnUpdateMutant(t) ==  \* goes on without waiting
  /\ Python /\ pc[t] = "wait"
  /\ Leave(t)
  /\ pc' = [pc EXCEPT ![t] = "open"]
  /\ UNCHANGED <<value, called, working, outVars, stashVars, sets, needs>>

waitOnUpdate(t) ==
  /\ Python /\ pc[t] = "wait"
  /\ UpdatesSent
  /\ Leave(t)
  /\ pc' = [pc EXCEPT ![t] = "open"]
  /\ UNCHANGED <<value, called, working, outVars, stashVars, sets, needs>>

OpenStreamMutantCounts(t) ==  \* a second start adds to the first
  /\ Python /\ pc[t] = "open"
  /\ value' = [value EXCEPT ![open_g3stream] = @ + 1]
  /\ Queue(t, open_g3stream)
  /\ pc' = [pc EXCEPT ![t] = "idle"]
  /\ needs' = IF value[open_g3stream] = 0 THEN called[t] ELSE needs
  /\ UNCHANGED <<group, called, working, outVars, stashVars, sets>>

OpenStream(t) ==
  /\ Python /\ pc[t] = "open"
  /\ value' = [value EXCEPT ![open_g3stream] = 1]
  /\ Queue(t, open_g3stream)
  /\ pc' = [pc EXCEPT ![t] = "idle"]
  /\ needs' = IF value[open_g3stream] = 0 THEN called[t] ELSE needs
  /\ UNCHANGED <<group, called, working, outVars, stashVars, sets>>

-----------------------------------------------------------------------------
(* The builder *)

Told(status) == [r \in Stream |-> IF r \in DOMAIN status THEN status[r] ELSE told[r]]

EmitStatusMutant ==  \* the newest status first
  /\ meta # <<>>
  /\ meta' = SubSeq(meta, 1, Len(meta) - 1)
  /\ told' = Told(meta[Len(meta)].values)
  /\ UNCHANGED <<value, threadVars, updates, working, scans, lost, stashVars, sets, needs>>

\* The event thread passes a status on in its turn.
EmitStatus ==
  /\ meta # <<>>
  /\ meta' = Tail(meta)
  /\ told' = Told(Head(meta).values)
  /\ UNCHANGED <<value, threadVars, updates, working, scans, lost, stashVars, sets, needs>>

EnsureGilMutant ==  \* builds frames without the GIL
  /\ Python /\ stash = "sleep"
  /\ stash' = "build"
  /\ UNCHANGED <<value, threadVars, updates, working, outVars, gil, built, sets, needs>>

EnsureGil ==
  /\ Python /\ stash = "sleep"
  /\ stash' = "build" /\ gil' = "stash"
  /\ UNCHANGED <<value, threadVars, updates, working, outVars, built, sets, needs>>

\* The GIL that FrameFromSamples ensures and releases stays with FlushStash.
BuildTimestream ==
  /\ stash = "build" /\ Len(built) < Timestreams
  /\ Len(scans) < MaxScans
  /\ built' = Append(built, Options)
  /\ UNCHANGED <<value, threadVars, updates, working, outVars, stash, gil, sets, needs>>

\* Another frame follows if the number of channels changes in the stash.
EmitScan ==
  /\ stash = "build" /\ Len(built) = Timestreams
  /\ scans' = Append(scans, built)
  /\ built' = <<>>
  /\ UNCHANGED <<value, threadVars, updates, working, meta, told, lost, stash, gil, sets, needs>>

ReleaseGilMutant ==  \* keeps the GIL for the next flush
  /\ stash = "build" /\ built = <<>>
  /\ UNCHANGED vars

ReleaseGil ==
  /\ stash = "build" /\ built = <<>>
  /\ stash' = "sleep" /\ gil' = "python"
  /\ UNCHANGED <<value, threadVars, updates, working, outVars, built, sets, needs>>

UpdateWorker == TakeBatch \/ SendBatch
StashThread == EnsureGil \/ BuildTimestream \/ EmitScan \/ ReleaseGil
StartThread(t) == waitOnUpdate(t) \/ OpenStream(t)

Next ==
  \/ \E t \in Thread :
       \/ EnterGroup(t) \/ LeaveGroup(t)
       \/ \E r \in Register : SetOption(t, r) \/ SetTag(t, r)
       \/ StopStream(t) \/ CallStart(t) \/ StartThread(t)
  \/ Poll \/ UpdateWorker
  \/ StashThread \/ EmitStatus

Spec == Init /\ [][Next]_vars

\* The threads run for ever; a thread that needs the GIL again and again gets it.
FairSpec ==
  /\ Spec
  /\ SF_vars(UpdateWorker) /\ WF_vars(EmitStatus) /\ WF_vars(ReleaseGil)
  /\ WF_vars(BuildTimestream \/ EmitScan)
  /\ \A t \in Thread : SF_vars(StartThread(t))

-----------------------------------------------------------------------------
(* Properties *)

Count == 0..MaxSets
Value == [Option -> Count]
Partial == UNION {[keys -> Count] : keys \in SUBSET Stream}

\* Every variable keeps its type; a frame under construction never has more
\* timestreams than a finished one.
TypeOK ==
  /\ value \in [Register -> Count] /\ value[open_g3stream] \in {0, 1}
  /\ pc \in [Thread -> {"idle", "wait", "open"}] /\ group \subseteq Thread
  /\ deferred \in [Thread -> SUBSET Register]
  /\ updates \in Seq(SUBSET Register) /\ working \subseteq Register
  /\ meta \in Seq([values : Partial, owed : [Stream -> Count]])
  /\ stash \in {"sleep", "build"} /\ gil \in {"python", "stash"}
  /\ built \in Seq(Value) /\ Len(built) <= Timestreams
  /\ scans \in Seq(Seq(Value))
  /\ sets \in Count /\ told \in [Stream -> Count] /\ lost \subseteq Stream
  /\ called \in [Thread -> [Stream -> Count]] /\ needs \in [Stream -> Count]

\* FrameFromSamples reads the options once per timestream; whatever Python
\* threads set meanwhile, all timestreams of a frame get the same ones.
OptionsOfOneMoment ==
  \A i \in DOMAIN scans : \A k, n \in DOMAIN scans[i] : scans[i][k] = scans[i][n]

\* _start_g3stream: "this ensures that the G3 status frame will be complete".
\* When a status opens the stream, the stream has been told the value of every
\* variable of the group 'stream' that was sent or in the update queue when the
\* command was called, dropped statuses excepted: no poll and no earlier set of
\* open_g3stream that is still queued brings the opening forward.
StartStatusComplete ==
  [][told[open_g3stream] = 0 /\ told'[open_g3stream] = 1 =>
       \A r \in Stream : told'[r] >= Head(meta).owed[r]]_vars

\* When nothing is queued, deferred or on its way any more, the stream has been
\* told the last value of every variable of the group 'stream', dropped statuses
\* excepted: two sets in one batch, a set while the worker reads, or a poll in
\* between never leave an old value behind.
StreamTellsVariables ==
  updates = <<>> /\ working = {} /\ meta = <<>> =>
    \A r \in Stream \ lost :
      (\A t \in Thread : r \notin deferred[t]) => told[r] = value[r]

\* startG3Stream: "Opens the G3 data stream".  If the update queue is empty again
\* and again, however often the poll thread fills it, a call gets through, and a
\* status that opens the stream follows, unless the stream is stopped again
\* first or the status is dropped.  Without the premise it does not hold: the
\* group of the command defers its own thread's updates only.
StartOpensStream ==
  []<>UpdatesSent =>
    \A t \in Thread :
      pc[t] = "wait" ~> \/ told[open_g3stream] = 1 \/ open_g3stream \in lost
                        \/ pc[t] = "idle" /\ value[open_g3stream] = 0
=============================================================================
