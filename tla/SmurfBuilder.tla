---------------------------- MODULE SmurfBuilder ----------------------------
(***************************************************************************)
(* The SmurfBuilder: packets handed over by the SmurfTransmitter are       *)
(* queued, data samples are stashed, and every agg_duration_ seconds a     *)
(* second thread turns the stash into G3 frames.                           *)
(*                                                                         *)
(* Threads.  The transmitter's threads call AsyncDatum (dataTransmit,      *)
(* metaTransmit).  The event thread of G3EventBuilder runs ProcessNewData, *)
(* in two steps because queue_lock_ is released before write_stash_lock_   *)
(* is taken.  The stash thread runs FlushStash: it swaps the stashes,      *)
(* waits for the GIL, then walks through the stash, one sample per step,   *)
(* and emits a frame where the number of channels changes: each FrameOut   *)
(* is a critical section of its own.  Other Python threads hold and        *)
(* release the GIL.  The G3 pipeline removes frames from out_queue_.       *)
(*                                                                         *)
(* Packets carry their arrival number id, an auxiliary field: the code     *)
(* identifies a sample by its shared pointer.                              *)
(***************************************************************************)
EXTENDS Naturals, Sequences, FiniteSets, SequencesExt

CONSTANTS
  NumberChannels,   \* values of a packet header's number of channels
  Statuses,         \* contents of a metadata packet
  MaxQueueSize,     \* MAX_BUILDER_QUEUE_SIZE, in channels * samples
  UninitQueueSize,  \* what queue_size_ may hold before it is first assigned
  NoPkt,            \* the event thread holds no packet
  MaxPackets,       \* bound: packets received in a behaviour
  MaxOutQueue       \* bound: a flush starts only below this many queued frames

\* The header's field bounds the number of channels.
ASSUME ChannelsAssumption ==
  /\ NumberChannels \subseteq Nat \ {0}
  /\ \E most \in NumberChannels : \A n \in NumberChannels : n <= most
ASSUME QueueSizeAssumption ==
  /\ MaxQueueSize \in Nat \ {0}
  /\ UninitQueueSize \subseteq Nat
ASSUME BoundsAssumption == MaxPackets \in Nat /\ MaxOutQueue \in Nat

SmurfSample == [kind : {"data"}, id : Nat, nchans : NumberChannels]
StatusSample == [kind : {"status"}, id : Nat, status : Statuses]
Packet == SmurfSample \cup StatusSample

ASSUME NoPktAssumption == NoPkt \notin Packet

VARIABLES
  queue_,          \* G3EventBuilder's input queue
  pkt,             \* the packet ProcessNewData has popped, or NoPkt
  write_stash_,    \* samples accepted since the last swap
  read_stash_,     \* samples the current flush works on
  queue_size_,     \* channels * samples counted for write_stash_
  dropped_frames_, \* samples refused because the stash was full
  start,           \* FlushStash's iterator: first sample not yet in a frame
  stop,            \* FlushStash's iterator: the last sample looked at
  nchans,          \* FlushStash's local: number of channels of the next frame
  pc,              \* where the stash thread is
  gil,             \* who holds Python's global interpreter lock
  out_queue_,      \* frames waiting for the G3 pipeline
  sent,            \* aux: packets received so far
  emitted,         \* aux: samples put into frames so far, in order
  barrier,         \* aux: last packet fully processed when the stashes swapped
  offered          \* aux: samples ProcessNewData has stashed or dropped

inVars    == <<queue_, pkt, sent>>
stashVars == <<write_stash_, queue_size_, dropped_frames_, offered>>
loopVars  == <<start, stop, nchans>>
flushVars == <<read_stash_, loopVars, pc, gil, emitted, barrier>>
vars == <<inVars, stashVars, flushVars, out_queue_>>

-----------------------------------------------------------------------------
(* Frames *)

ScanFrame(samples, n) == [type |-> "Scan", samples |-> samples, nchans |-> n]
WiringFrame(p) == [type |-> "Wiring", id |-> p.id, status |-> p.status]
AliveFrame(upto) == [type |-> "none", upto |-> upto]

\* Names and buffers are sized by the first sample.
FrameFromSamples(samples) == ScanFrame(samples, samples[1].nchans)

FrameOut(frame) == out_queue_' = Append(out_queue_, frame)

\* The last packet the event thread has finished with.
Processed == sent - Len(queue_) - (IF pkt = NoPkt THEN 0 ELSE 1)

-----------------------------------------------------------------------------
Init ==
  /\ queue_ = <<>> /\ pkt = NoPkt /\ sent = 0
  /\ write_stash_ = <<>> /\ read_stash_ = <<>>
  /\ queue_size_ \in UninitQueueSize
  /\ dropped_frames_ = 0
  /\ start = 1 /\ stop = 1 /\ nchans = 0
  /\ pc = "thread_start" /\ gil = "free"
  /\ out_queue_ = <<>> /\ emitted = <<>> /\ barrier = 0
  /\ offered = 0

(* Transmitter threads *)

AsyncDatum(p) ==
  /\ sent < MaxPackets
  /\ sent' = sent + 1
  /\ queue_' = Append(queue_, p)
  /\ UNCHANGED <<pkt, stashVars, flushVars, out_queue_>>

DataTransmit ==
  \E n \in NumberChannels :
    AsyncDatum([kind |-> "data", id |-> sent + 1, nchans |-> n])

MetaTransmit ==
  \E st \in Statuses :
    AsyncDatum([kind |-> "status", id |-> sent + 1, status |-> st])

(* Event thread: ProcessNewData *)

PopPacketMutant ==  \* pops the newest packet
  /\ pkt = NoPkt /\ queue_ # <<>>
  /\ pkt' = Last(queue_)
  /\ queue_' = Front(queue_)
  /\ UNCHANGED <<sent, stashVars, flushVars, out_queue_>>

PopPacket ==
  /\ pkt = NoPkt /\ queue_ # <<>>
  /\ pkt' = Head(queue_)
  /\ queue_' = Tail(queue_)
  /\ UNCHANGED <<sent, stashVars, flushVars, out_queue_>>

EmitStatus ==
  /\ pkt \in StatusSample
  /\ FrameOut(WiringFrame(pkt))
  /\ pkt' = NoPkt
  /\ UNCHANGED <<queue_, sent, stashVars, flushVars>>

HasRoomMutantLate  == queue_size_ <= MaxQueueSize
HasRoomMutantEarly == queue_size_ + 1 < MaxQueueSize
HasRoom == queue_size_ < MaxQueueSize

SizeWithMutant(p) == queue_size_ - p.nchans
SizeWith(p) == queue_size_ + p.nchans

StashSample ==
  /\ pkt \in SmurfSample
  /\ HasRoom
  /\ write_stash_' = Append(write_stash_, pkt)
  /\ queue_size_' = SizeWith(pkt)
  /\ offered' = offered + 1
  /\ pkt' = NoPkt
  /\ UNCHANGED <<queue_, sent, dropped_frames_, flushVars, out_queue_>>

DropSample ==
  /\ pkt \in SmurfSample
  /\ ~HasRoom
  /\ dropped_frames_' = dropped_frames_ + 1
  /\ offered' = offered + 1
  /\ pkt' = NoPkt
  /\ UNCHANGED <<queue_, sent, write_stash_, queue_size_, flushVars, out_queue_>>

(* Stash thread: ProcessStashThread and FlushStash *)

SizeAfterSwapMutant == queue_size_  \* the reset is forgotten
SizeAfterSwap == 0

SwapStash ==
  /\ pc \in {"thread_start", "sleep"}
  /\ Len(out_queue_) < MaxOutQueue
  /\ write_stash_' = read_stash_
  /\ read_stash_' = write_stash_
  /\ queue_size_' = SizeAfterSwap
  /\ barrier' = Processed
  /\ pc' = "wait_gil"
  /\ UNCHANGED <<inVars, dropped_frames_, offered, loopVars, gil, emitted, out_queue_>>

EnsureGil ==
  /\ pc = "wait_gil" /\ gil # "python"
  /\ gil' = "stash"
  /\ pc' = "emit"
  /\ UNCHANGED <<inVars, stashVars, read_stash_, loopVars, emitted, barrier, out_queue_>>

NothingStashedMutant == write_stash_ = <<>>  \* looks at the wrong stash
NothingStashed == read_stash_ = <<>>

EmitAliveMutantKeepsGil ==  \* the early return does not release the GIL
  /\ pc = "emit" /\ NothingStashed
  /\ FrameOut(AliveFrame(barrier))
  /\ pc' = "sleep"
  /\ UNCHANGED <<inVars, stashVars, read_stash_, loopVars, gil, emitted, barrier>>

EmitAliveMutantSilent ==  \* an idle flush sends nothing
  /\ pc = "emit" /\ NothingStashed
  /\ pc' = "sleep" /\ gil' = "free"
  /\ UNCHANGED <<inVars, stashVars, read_stash_, loopVars, emitted, barrier, out_queue_>>

\* Nothing was stashed: a keep-alive goes out instead.
EmitAlive ==
  /\ pc = "emit" /\ NothingStashed
  /\ FrameOut(AliveFrame(barrier))
  /\ pc' = "sleep" /\ gil' = "free"
  /\ UNCHANGED <<inVars, stashVars, read_stash_, loopVars, emitted, barrier>>

\* The iterators start at the first sample, whose number of channels is kept.
BeginLoop ==
  /\ pc = "emit" /\ read_stash_ # <<>>
  /\ nchans' = read_stash_[start].nchans
  /\ pc' = "loop"
  /\ UNCHANGED <<inVars, stashVars, read_stash_, start, stop, gil, emitted, barrier, out_queue_>>

\* The sample behind stop has as many channels: it belongs to the same frame.
NextSample ==
  /\ pc = "loop" /\ stop < Len(read_stash_)
  /\ read_stash_[stop + 1].nchans = nchans
  /\ stop' = stop + 1
  /\ UNCHANGED <<inVars, stashVars, read_stash_, start, nchans, pc, gil, emitted, barrier, out_queue_>>

NextStartMutantStuck == start
NextStartMutantSkips == stop + 2
NextStart == stop + 1

NextNchansMutant == nchans  \* compares with the first sample of the stash
NextNchans == read_stash_[stop + 1].nchans

Segment == SubSeq(read_stash_, start, stop)

\* It has another number of channels: a frame ends before it.
EmitSegment ==
  /\ pc = "loop" /\ stop < Len(read_stash_)
  /\ read_stash_[stop + 1].nchans # nchans
  /\ FrameOut(FrameFromSamples(Segment))
  /\ emitted' = emitted \o Segment
  /\ start' = NextStart /\ stop' = stop + 1 /\ nchans' = NextNchans
  /\ UNCHANGED <<inVars, stashVars, read_stash_, pc, gil, barrier>>

EndLoop ==
  /\ read_stash_' = <<>>
  /\ start' = 1 /\ stop' = 1 /\ nchans' = 0
  /\ pc' = "sleep" /\ gil' = "free"
  /\ UNCHANGED <<inVars, stashVars, barrier>>

EmitLastSegmentMutant ==  \* leaves the loop before the last frame
  /\ pc = "loop" /\ stop = Len(read_stash_)
  /\ EndLoop
  /\ UNCHANGED <<emitted, out_queue_>>

\* There is none: the rest goes into the last frame, and the stash is cleared.
EmitLastSegment ==
  /\ pc = "loop" /\ stop = Len(read_stash_)
  /\ FrameOut(FrameFromSamples(Segment))
  /\ emitted' = emitted \o Segment
  /\ EndLoop

(* Other threads *)

PythonTakesGil ==
  /\ gil = "free"
  /\ gil' = "python"
  /\ UNCHANGED <<inVars, stashVars, read_stash_, loopVars, pc, emitted, barrier, out_queue_>>

PythonReleasesGil ==
  /\ gil = "python"
  /\ gil' = "free"
  /\ UNCHANGED <<inVars, stashVars, read_stash_, loopVars, pc, emitted, barrier, out_queue_>>

\* G3EventBuilder::Process hands the oldest frame to the pipeline.
ProcessFrame ==
  /\ out_queue_ # <<>>
  /\ out_queue_' = Tail(out_queue_)
  /\ UNCHANGED <<inVars, stashVars, flushVars>>

EventThread == PopPacket \/ EmitStatus \/ StashSample \/ DropSample
Emit == EmitAlive \/ BeginLoop \/ NextSample \/ EmitSegment \/ EmitLastSegment
FlushStash == SwapStash \/ EnsureGil \/ Emit

Next ==
  \/ DataTransmit \/ MetaTransmit
  \/ EventThread
  \/ FlushStash
  \/ PythonTakesGil \/ PythonReleasesGil
  \/ ProcessFrame

Spec == Init /\ [][Next]_vars

\* The threads run for ever; the GIL is handed on when another thread asks
\* for it, so a thread that asks again and again gets it.
FairSpec ==
  /\ Spec
  /\ WF_vars(EventThread)
  /\ WF_vars(SwapStash) /\ SF_vars(EnsureGil)
  /\ WF_vars(Emit)
  /\ WF_vars(PythonReleasesGil)
  /\ WF_vars(ProcessFrame)

-----------------------------------------------------------------------------
(* Properties *)

Scans   == {i \in 1..Len(out_queue_) : out_queue_[i].type = "Scan"}
Wirings == {i \in 1..Len(out_queue_) : out_queue_[i].type = "Wiring"}
Alives  == {i \in 1..Len(out_queue_) : out_queue_[i].type = "none"}

Ids(samples) == {samples[i].id : i \in 1..Len(samples)}
UnflushedIds == {read_stash_[i].id : i \in start..Len(read_stash_)}
HeldIds == UnflushedIds \cup Ids(write_stash_)
Weight(samples) == FoldLeft(LAMBDA n, s : n + s.nchans, 0, samples)

Frame == [type : {"Scan"}, samples : Seq(SmurfSample), nchans : NumberChannels]
         \cup [type : {"Wiring"}, id : Nat, status : Statuses]
         \cup [type : {"none"}, upto : Nat]

\* Every variable keeps its type; the iterators stay inside the read stash.
TypeOK ==
  /\ queue_ \in Seq(Packet)
  /\ pkt \in Packet \cup {NoPkt}
  /\ write_stash_ \in Seq(SmurfSample)
  /\ read_stash_ \in Seq(SmurfSample)
  /\ queue_size_ \in Nat
  /\ dropped_frames_ \in Nat
  /\ start \in Nat \ {0} /\ stop \in Nat \ {0} /\ nchans \in NumberChannels \cup {0}
  /\ start <= stop /\ (read_stash_ = <<>> \/ stop <= Len(read_stash_))
  /\ pc \in {"thread_start", "sleep", "wait_gil", "emit", "loop"}
  /\ gil \in {"free", "python", "stash"}
  /\ out_queue_ \in Seq(Frame)
  /\ sent \in Nat
  /\ emitted \in Seq(SmurfSample)
  /\ barrier \in Nat
  /\ offered \in Nat

\* Once the first swap has assigned it, queue_size_ is exactly the channels *
\* samples of the write stash: the swap and the reset are one critical section.
QueueSizeExact ==
  pc # "thread_start" => queue_size_ = Weight(write_stash_)

\* However long a flush waits for the GIL, neither stash ever holds more than
\* MAX_BUILDER_QUEUE_SIZE samples, even if queue_size_ starts as garbage.
StashBounded ==
  Len(write_stash_) <= MaxQueueSize /\ Len(read_stash_) <= MaxQueueSize

Increasing(s, from) == \A i, j \in from..Len(s) : i < j => s[i].id < s[j].id
Precede(S, T) == \A m \in S, n \in T : m < n

\* Samples keep their order of arrival, from the frames already built through
\* the read stash to the write stash, wherever the swap falls; none is in two
\* frames, or in a frame and still in a stash.
SamplesInOrder ==
  /\ Increasing(emitted, 1)
  /\ Increasing(read_stash_, start)
  /\ Increasing(write_stash_, 1)
  /\ Precede(Ids(emitted), HeldIds)
  /\ Precede(UnflushedIds, Ids(write_stash_))

\* FlushStash's iterators lose no sample at a channel change or at a swap:
\* what ProcessNewData has handled is in a frame, in a stash or in
\* dropped_frames_.
Conservation ==
  offered = Len(emitted) + (Len(read_stash_) + 1 - start)
            + Len(write_stash_) + dropped_frames_

\* getData(i) is read for every channel of the frame's first sample, so all
\* samples of a frame must have that many channels; a frame is never empty.
UniformFrames ==
  \A i \in Scans :
    LET f == out_queue_[i] IN
      f.samples # <<>> /\ \A k \in 1..Len(f.samples) : f.samples[k].nchans = f.nchans

\* The SessionManager ends a session on the first keep-alive after a stop
\* status. That is safe only because a keep-alive is a barrier: no sample
\* processed before the flush that sent it is still in a stash or behind it.
AliveIsBarrier ==
  \A i \in Alives :
    LET upto == out_queue_[i].upto IN
      /\ \A n \in HeldIds : n > upto
      /\ \A j \in Scans : j > i => \A n \in Ids(out_queue_[j].samples) : n > upto

\* Two threads write to out_queue_, but a sample that arrived after a status
\* never overtakes it (samples that arrived before it may well come after).
StatusNotOvertaken ==
  \A i \in Scans, j \in Wirings :
    i < j => \A n \in Ids(out_queue_[i].samples) : n < out_queue_[j].id

\* The builder implements the lossy first-in first-out channel.
Channel == INSTANCE SampleChannel WITH
  Sample <- SmurfSample, Capacity <- MaxQueueSize,
  MostChannels <- Max(NumberChannels),
  ready <- pc # "thread_start",
  pending <- SubSeq(read_stash_, start, Len(read_stash_)) \o write_stash_,
  delivered <- emitted, dropped <- dropped_frames_
ChannelSpec == Channel!Spec

\* Every stashed sample is eventually put into a frame.
EverySampleFlushed ==
  \A n \in 1..MaxPackets : n \in Ids(write_stash_) ~> n \in Ids(emitted)

\* When the input falls silent a keep-alive follows that is a barrier for
\* everything received: without it a stopped session would never end.
SilenceBringsBarrier ==
  \A n \in 1..MaxPackets :
    Processed = n ~> sent > n \/ \E i \in Alives : out_queue_[i].upto >= n

\* FlushStash gives the GIL back on both ways out: Python is never shut out.
PythonNotShutOut == []<>(gil # "stash")
=============================================================================
