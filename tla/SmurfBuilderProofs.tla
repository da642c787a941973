-------------------------- MODULE SmurfBuilderProofs --------------------------
(***************************************************************************)
(* Theorems about SmurfBuilder, for every value of its constants.          *)
(***************************************************************************)
EXTENDS SmurfBuilder, FoldFacts, SequenceTheorems, TLAPS

-----------------------------------------------------------------------------
(* Type correctness *)

\* FrameFromSamples makes a frame of any nonempty run of samples.
LEMMA FrameFromSamplesType ==
  ASSUME NEW samples \in Seq(SmurfSample), samples # <<>>
  PROVE  FrameFromSamples(samples) \in Frame
<1>1. samples[1] \in SmurfSample
  BY EmptySeq
<1>2. samples[1].nchans \in NumberChannels
  BY <1>1 DEF SmurfSample
<1> QED  BY <1>2 DEF FrameFromSamples, ScanFrame, Frame

\* A status becomes a Wiring frame, a keep-alive is a frame.
LEMMA OtherFrameTypes ==
  /\ \A p \in StatusSample : WiringFrame(p) \in Frame
  /\ \A n \in Nat : AliveFrame(n) \in Frame
BY DEF StatusSample, WiringFrame, AliveFrame, Frame

\* Between two flushes the read stash is empty, outside the loop the iterators are
\* at its first sample; a packet that waits or is being processed has been received.
FlushControl ==
  /\ pc # "loop" => start = 1 /\ stop = 1
  /\ pc = "loop" => read_stash_ # <<>> /\ nchans \in NumberChannels
  /\ pc \in {"thread_start", "sleep"} => read_stash_ = <<>>
  /\ Len(queue_) + (IF pkt = NoPkt THEN 0 ELSE 1) <= sent

TypeInv == TypeOK /\ FlushControl

\* The samples that a frame takes, if it ends before the sample at end.
SegmentTo(end) == SubSeq(read_stash_, start, end - 1)

\* They are a nonempty run of samples that fits into a frame.
LEMMA SegmentType ==
  ASSUME TypeOK, NEW end \in (start + 1)..(Len(read_stash_) + 1)
  PROVE  /\ SegmentTo(end) \in Seq(SmurfSample)
         /\ SegmentTo(end) # <<>>
         /\ Len(SegmentTo(end)) = end - start
         /\ \A i \in 1..(end - start) : SegmentTo(end)[i] = read_stash_[start + i - 1]
         /\ FrameFromSamples(SegmentTo(end)) \in Frame
<1>1. read_stash_ \in Seq(SmurfSample) /\ start \in Nat \ {0}
  BY DEF TypeOK
<1>2. /\ SegmentTo(end) \in Seq(SmurfSample)
      /\ Len(SegmentTo(end)) = end - start
      /\ \A i \in 1..(end - start) : SegmentTo(end)[i] = read_stash_[start + i - 1]
  BY <1>1, SubSeqProperties DEF SegmentTo
<1>3. SegmentTo(end) # <<>>
  BY <1>1, <1>2
<1> QED  BY <1>2, <1>3, FrameFromSamplesType

\* A flushed segment extends emitted.
LEMMA EmittedGrows ==
  ASSUME TypeOK, NEW end \in (start + 1)..(Len(read_stash_) + 1),
         emitted' = emitted \o SegmentTo(end)
  PROVE  /\ Len(emitted') = Len(emitted) + (end - start)
         /\ \A i \in 1..Len(emitted') :
              emitted'[i] = IF i <= Len(emitted) THEN emitted[i]
                            ELSE read_stash_[start + i - Len(emitted) - 1]
<1>1. emitted \in Seq(SmurfSample) /\ start \in Nat \ {0} /\ Len(read_stash_) \in Nat
  BY DEF TypeOK
<1>2. /\ SegmentTo(end) \in Seq(SmurfSample)
      /\ Len(SegmentTo(end)) = end - start
      /\ \A i \in 1..(end - start) : SegmentTo(end)[i] = read_stash_[start + i - 1]
  BY SegmentType
<1>3. Len(emitted') = Len(emitted) + (end - start)
  BY <1>1, <1>2, ConcatProperties
<1>4. ASSUME NEW i \in 1..Len(emitted')
      PROVE  emitted'[i] = IF i <= Len(emitted) THEN emitted[i]
                           ELSE read_stash_[start + i - Len(emitted) - 1]
  <2>1. CASE i <= Len(emitted)
    BY <1>1, <1>2, <2>1
  <2>2. CASE i > Len(emitted)
    <3> DEFINE k == i - Len(emitted)
    <3>1. k \in 1..(end - start)
      BY <1>1, <1>3, <2>2
    <3>2. emitted'[i] = SegmentTo(end)[k]
      <4>1. /\ emitted' = emitted \o SegmentTo(end)
            /\ i \in (Len(emitted) + 1)..(Len(emitted) + Len(SegmentTo(end)))
        BY <1>1, <1>2, <1>3, <2>2
      <4> QED  BY <1>1, <1>2, <4>1, ConcatProperties
    <3>3. emitted'[i] = read_stash_[start + k - 1]
      BY <1>2, <3>1, <3>2
    <3> QED  BY <1>1, <2>2, <3>1, <3>3
  <2> QED  BY <1>1, <2>1, <2>2
<1> QED  BY <1>3, <1>4

\* What the two steps that send a frame of samples do.
LEMMA EmittingIs ==
  ASSUME TypeInv
  PROVE  /\ EmitSegment =>
              /\ stop + 1 \in (start + 1)..Len(read_stash_) /\ pc = "loop"
              /\ out_queue_' = Append(out_queue_, FrameFromSamples(SegmentTo(stop + 1)))
              /\ emitted' = emitted \o SegmentTo(stop + 1)
              /\ start' = stop + 1 /\ stop' = stop + 1
              /\ nchans' = read_stash_[stop + 1].nchans
              /\ UNCHANGED <<inVars, stashVars, read_stash_, pc, gil, barrier>>
         /\ EmitLastSegment =>
              /\ Len(read_stash_) + 1 \in (start + 1)..(Len(read_stash_) + 1)
              /\ pc = "loop" /\ stop = Len(read_stash_) /\ read_stash_ # <<>>
              /\ out_queue_' = Append(out_queue_, FrameFromSamples(SegmentTo(Len(read_stash_) + 1)))
              /\ emitted' = emitted \o SegmentTo(Len(read_stash_) + 1)
              /\ read_stash_' = <<>> /\ start' = 1 /\ stop' = 1 /\ nchans' = 0
              /\ pc' = "sleep" /\ gil' = "free"
              /\ UNCHANGED <<inVars, stashVars, barrier>>
<1>1. /\ start \in Nat \ {0} /\ stop \in Nat \ {0} /\ start <= stop
      /\ Len(read_stash_) \in Nat /\ (pc = "loop" => read_stash_ # <<>>)
  BY DEF TypeInv, TypeOK, FlushControl
<1>2. Segment = SegmentTo(stop + 1)
  <2>1. (stop + 1) - 1 = stop
    BY <1>1
  <2> QED  BY <2>1 DEF Segment, SegmentTo
<1> HIDE DEF SegmentTo, Segment
<1>3. ASSUME EmitSegment
      PROVE  /\ stop + 1 \in (start + 1)..Len(read_stash_) /\ pc = "loop"
             /\ out_queue_' = Append(out_queue_, FrameFromSamples(SegmentTo(stop + 1)))
             /\ emitted' = emitted \o SegmentTo(stop + 1)
             /\ start' = stop + 1 /\ stop' = stop + 1
             /\ nchans' = read_stash_[stop + 1].nchans
             /\ UNCHANGED <<inVars, stashVars, read_stash_, pc, gil, barrier>>
  BY <1>1, <1>2, <1>3 DEF EmitSegment, FrameOut, NextStart, NextNchans
<1>4. ASSUME EmitLastSegment
      PROVE  /\ Len(read_stash_) + 1 \in (start + 1)..(Len(read_stash_) + 1)
             /\ pc = "loop" /\ stop = Len(read_stash_) /\ read_stash_ # <<>>
             /\ out_queue_' = Append(out_queue_, FrameFromSamples(SegmentTo(Len(read_stash_) + 1)))
             /\ emitted' = emitted \o SegmentTo(Len(read_stash_) + 1)
             /\ read_stash_' = <<>> /\ start' = 1 /\ stop' = 1 /\ nchans' = 0
             /\ pc' = "sleep" /\ gil' = "free"
             /\ UNCHANGED <<inVars, stashVars, barrier>>
  <2>1. /\ pc = "loop" /\ stop = Len(read_stash_) /\ out_queue_' = Append(out_queue_, FrameFromSamples(Segment))
        /\ emitted' = emitted \o Segment
        /\ read_stash_' = <<>> /\ start' = 1 /\ stop' = 1 /\ nchans' = 0
        /\ pc' = "sleep" /\ gil' = "free"
        /\ UNCHANGED <<inVars, stashVars, barrier>>
    BY <1>4 DEF EmitLastSegment, FrameOut, EndLoop
  <2>2. Segment = SegmentTo(Len(read_stash_) + 1)
    BY <1>2, <2>1
  <2>3. Len(read_stash_) + 1 \in (start + 1)..(Len(read_stash_) + 1) /\ read_stash_ # <<>>
    BY <1>1, <2>1
  <2> QED  BY <2>1, <2>2, <2>3
<1> QED  BY <1>3, <1>4

\* Both send the samples up to stop and move start behind them.
LEMMA FlushedSegment ==
  ASSUME TypeInv, EmitSegment \/ EmitLastSegment
  PROVE  \E end \in (start + 1)..(Len(read_stash_) + 1) :
           /\ end = stop + 1 /\ pc = "loop"
           /\ out_queue_' = Append(out_queue_, FrameFromSamples(SegmentTo(end)))
           /\ emitted' = emitted \o SegmentTo(end)
           /\ \/ end <= Len(read_stash_) /\ read_stash_' = read_stash_ /\ start' = end
              \/ end = Len(read_stash_) + 1 /\ read_stash_' = <<>> /\ start' = 1
<1> DEFINE end == stop + 1
<1>0. Len(read_stash_) \in Nat /\ start \in Nat /\ stop \in Nat
  BY DEF TypeInv, TypeOK
<1> HIDE DEF SegmentTo
<1>1. CASE EmitSegment
  <2>1. /\ end \in (start + 1)..Len(read_stash_) /\ pc = "loop"
        /\ out_queue_' = Append(out_queue_, FrameFromSamples(SegmentTo(end)))
        /\ emitted' = emitted \o SegmentTo(end)
        /\ read_stash_' = read_stash_ /\ start' = end
    BY <1>1, EmittingIs
  <2>2. end \in (start + 1)..(Len(read_stash_) + 1) /\ end <= Len(read_stash_)
    BY <1>0, <2>1
  <2> QED  BY <2>1, <2>2
<1>2. CASE EmitLastSegment
  <2>1. /\ stop = Len(read_stash_) /\ pc = "loop" /\ end \in (start + 1)..(Len(read_stash_) + 1)
        /\ out_queue_' = Append(out_queue_, FrameFromSamples(SegmentTo(end)))
        /\ emitted' = emitted \o SegmentTo(end)
        /\ read_stash_' = <<>> /\ start' = 1
    BY <1>2, EmittingIs
  <2> QED  BY <2>1
<1> QED  BY <1>1, <1>2

\* Init and every step keep the types and the flush control.
LEMMA TypeInvariance == Spec => []TypeInv
<1>1. Init => TypeInv
  BY QueueSizeAssumption DEF Init, TypeInv, TypeOK, FlushControl
<1>2. TypeInv /\ [Next]_vars => TypeInv'
  <2> SUFFICES ASSUME TypeInv, [Next]_vars
               PROVE  TypeInv'
    OBVIOUS
  <2> USE DEF TypeInv, FlushControl, TypeOK
  <2>1. CASE DataTransmit
    BY <2>1, NoPktAssumption
       DEF DataTransmit, AsyncDatum, Packet, SmurfSample, stashVars, flushVars, loopVars
  <2>2. CASE MetaTransmit
    BY <2>2 DEF MetaTransmit, AsyncDatum, Packet, StatusSample, stashVars, flushVars, loopVars
  <2>3. CASE PopPacket
    BY <2>3 DEF PopPacket, stashVars, flushVars, loopVars
  <2>4. CASE EmitStatus
    BY <2>4, OtherFrameTypes, NoPktAssumption
       DEF EmitStatus, FrameOut, Packet, stashVars, flushVars, loopVars
  <2>5. CASE StashSample
    <3>1. pkt.nchans \in Nat
      BY <2>5, ChannelsAssumption DEF StashSample, SmurfSample
    <3>2. /\ pkt \in SmurfSample /\ pkt # NoPkt /\ pkt' = NoPkt
          /\ write_stash_' = Append(write_stash_, pkt)
          /\ queue_size_' = queue_size_ + pkt.nchans /\ offered' = offered + 1
          /\ UNCHANGED <<queue_, sent, dropped_frames_, out_queue_>>
      BY <2>5, NoPktAssumption DEF StashSample, SizeWith, Packet
    <3>3. UNCHANGED <<read_stash_, start, stop, nchans, pc, gil, emitted, barrier>>
      BY <2>5 DEF StashSample, flushVars, loopVars
    <3>4. write_stash_' \in Seq(SmurfSample) /\ queue_size_' \in Nat /\ offered' \in Nat
      BY <3>1, <3>2
    <3>5. Len(queue_') + (IF pkt' = NoPkt THEN 0 ELSE 1) <= sent'
      BY <3>2
    <3> QED  BY <3>2, <3>3, <3>4, <3>5
  <2>6. CASE DropSample
    BY <2>6, NoPktAssumption DEF DropSample, Packet, flushVars, loopVars
  <2>7. CASE SwapStash
    <3>1. /\ pc \in {"thread_start", "sleep"} /\ pc' = "wait_gil"
          /\ write_stash_' = read_stash_ /\ read_stash_' = write_stash_
          /\ queue_size_' = 0 /\ barrier' = Processed /\ UNCHANGED loopVars
          /\ UNCHANGED <<inVars, dropped_frames_, offered, gil, emitted, out_queue_>>
      BY <2>7 DEF SwapStash, SizeAfterSwap
    <3>2. start' = 1 /\ stop' = 1 /\ nchans' = nchans /\ read_stash_ = <<>>
      BY <3>1 DEF loopVars
    <3>3. /\ write_stash_' \in Seq(SmurfSample) /\ read_stash_' \in Seq(SmurfSample)
          /\ read_stash_' = <<>> \/ stop' <= Len(read_stash_')
      BY <3>1, <3>2
    <3>4. /\ barrier' \in Nat
          /\ Len(queue_') + (IF pkt' = NoPkt THEN 0 ELSE 1) <= sent'
      BY <3>1 DEF Processed, inVars
    <3> QED  BY <3>1, <3>2, <3>3, <3>4 DEF inVars
  <2>8. CASE EnsureGil
    BY <2>8 DEF EnsureGil, inVars, stashVars, loopVars
  <2>9. CASE EmitAlive
    BY <2>9, OtherFrameTypes DEF EmitAlive, FrameOut, NothingStashed, inVars, stashVars, loopVars
  <2>10. CASE EmitSegment
    <3> DEFINE end == stop + 1
    <3>1. /\ end \in (start + 1)..Len(read_stash_) /\ pc = "loop"
          /\ out_queue_' = Append(out_queue_, FrameFromSamples(SegmentTo(end)))
          /\ emitted' = emitted \o SegmentTo(end)
          /\ start' = end /\ stop' = end /\ nchans' = read_stash_[end].nchans
          /\ UNCHANGED <<inVars, stashVars, read_stash_, pc, gil, barrier>>
      BY <2>10, EmittingIs
    <3>2. /\ SegmentTo(end) \in Seq(SmurfSample)
          /\ FrameFromSamples(SegmentTo(end)) \in Frame
      BY <3>1, SegmentType
    <3>3. nchans' \in NumberChannels /\ read_stash_ # <<>>
      <4>1. read_stash_[end] \in SmurfSample
        BY <3>1
      <4> QED  BY <3>1, <4>1 DEF SmurfSample
    <3> HIDE DEF end
    <3> QED  BY <3>1, <3>2, <3>3 DEF inVars, stashVars
  <2>11. CASE EmitLastSegment
    <3> DEFINE end == Len(read_stash_) + 1
    <3>1. /\ end \in (start + 1)..(Len(read_stash_) + 1) /\ pc = "loop"
          /\ out_queue_' = Append(out_queue_, FrameFromSamples(SegmentTo(end)))
          /\ emitted' = emitted \o SegmentTo(end)
          /\ read_stash_' = <<>> /\ start' = 1 /\ stop' = 1 /\ nchans' = 0
          /\ pc' = "sleep" /\ gil' = "free"
          /\ UNCHANGED <<inVars, stashVars, barrier>>
      BY <2>11, EmittingIs
    <3>2. /\ SegmentTo(end) \in Seq(SmurfSample)
          /\ FrameFromSamples(SegmentTo(end)) \in Frame
      BY <3>1, SegmentType
    <3> QED  BY <3>1, <3>2 DEF inVars, stashVars
  <2>15. CASE BeginLoop
    <3>1. /\ pc = "emit" /\ pc' = "loop" /\ read_stash_ # <<>> /\ start = 1
          /\ nchans' = read_stash_[start].nchans
          /\ UNCHANGED <<inVars, stashVars, read_stash_, start, stop, gil, emitted, barrier, out_queue_>>
      BY <2>15 DEF BeginLoop
    <3>2. read_stash_[start] \in SmurfSample
      BY <3>1
    <3>3. nchans' \in NumberChannels
      BY <3>1, <3>2 DEF SmurfSample
    <3> QED  BY <3>1, <3>3 DEF inVars, stashVars
  <2>16. CASE NextSample
    BY <2>16 DEF NextSample, inVars, stashVars
  <2>12. CASE PythonTakesGil \/ PythonReleasesGil
    BY <2>12 DEF PythonTakesGil, PythonReleasesGil, inVars, stashVars, loopVars
  <2>13. CASE ProcessFrame
    BY <2>13 DEF ProcessFrame, inVars, stashVars, flushVars, loopVars
  <2>14. CASE UNCHANGED vars
    BY <2>14 DEF vars, inVars, stashVars, flushVars, loopVars
  <2> QED  BY <2>1, <2>2, <2>3, <2>4, <2>5, <2>6, <2>7, <2>8, <2>9, <2>10, <2>11,
              <2>12, <2>13, <2>14, <2>15, <2>16 DEF Next, EventThread, FlushStash, Emit
<1> QED  BY <1>1, <1>2, PTL DEF Spec

\* Every variable keeps its type, and the stash thread's iterators never point
\* outside the read stash.
THEOREM TypeCorrect == Spec => []TypeOK
BY TypeInvariance, PTL DEF TypeInv

-----------------------------------------------------------------------------
(* The stashes are bounded *)

\* queue_size_ counts at least one channel per stashed sample, whatever it
\* held before the first swap.
BoundInv == Len(write_stash_) <= queue_size_ /\ StashBounded

\* However long a flush waits for the GIL, neither stash outgrows
\* MAX_BUILDER_QUEUE_SIZE samples.
THEOREM StashIsBounded == Spec => []StashBounded
<1>1. Init => BoundInv
  BY QueueSizeAssumption DEF Init, BoundInv, StashBounded
<1>2. TypeInv /\ BoundInv /\ [Next]_vars => BoundInv'
  <2> SUFFICES ASSUME TypeInv, BoundInv, [Next]_vars
               PROVE  BoundInv'
    OBVIOUS
  <2> USE DEF TypeInv, FlushControl, TypeOK, BoundInv, StashBounded
  <2>1. CASE StashSample
    <3>1. pkt.nchans \in Nat \ {0}
      BY <2>1, ChannelsAssumption DEF StashSample, SmurfSample
    <3>2. Len(write_stash_') = Len(write_stash_) + 1
      BY <2>1 DEF StashSample
    <3> QED
      BY <2>1, <3>1, <3>2, QueueSizeAssumption
         DEF StashSample, HasRoom, SizeWith, flushVars, loopVars
  <2>2. CASE SwapStash
    BY <2>2, QueueSizeAssumption DEF SwapStash, SizeAfterSwap
  <2>3. CASE EmitLastSegment
    BY <2>3, QueueSizeAssumption, EmittingIs DEF stashVars
  <2>4. CASE UNCHANGED <<write_stash_, read_stash_, queue_size_>>
    BY <2>4
  <2>5. CASE DataTransmit \/ MetaTransmit \/ PopPacket \/ EmitStatus \/ DropSample
    BY <2>4, <2>5
       DEF DataTransmit, MetaTransmit, AsyncDatum, PopPacket, EmitStatus,
           DropSample, stashVars, flushVars, loopVars
  <2>6. CASE EnsureGil \/ EmitAlive \/ BeginLoop \/ NextSample \/ EmitSegment
    BY <2>4, <2>6 DEF EnsureGil, EmitAlive, BeginLoop, NextSample, EmitSegment, stashVars
  <2>7. CASE PythonTakesGil \/ PythonReleasesGil \/ ProcessFrame \/ UNCHANGED vars
    BY <2>4, <2>7
       DEF PythonTakesGil, PythonReleasesGil, ProcessFrame, vars, stashVars, flushVars, loopVars
  <2> QED  BY <2>1, <2>2, <2>3, <2>5, <2>6, <2>7 DEF Next, EventThread, FlushStash, Emit
<1>3. BoundInv => StashBounded
  BY DEF BoundInv
<1> QED  BY <1>1, <1>2, <1>3, TypeInvariance, PTL DEF Spec

-----------------------------------------------------------------------------
(* No sample is lost unnoticed *)

\* What ProcessNewData has handled is in a frame, in a stash or counted as
\* dropped: FlushStash's iterators lose nothing at a channel change or a swap.
THEOREM SamplesConserved == Spec => []Conservation
<1>1. Init => Conservation
  BY DEF Init, Conservation
<1>2. TypeInv /\ Conservation /\ [Next]_vars => Conservation'
  <2> SUFFICES ASSUME TypeInv, Conservation, [Next]_vars
               PROVE  Conservation'
    OBVIOUS
  <2>0. /\ TypeOK /\ FlushControl
        /\ Len(emitted) \in Nat /\ Len(read_stash_) \in Nat /\ Len(write_stash_) \in Nat
        /\ start \in Nat /\ dropped_frames_ \in Nat /\ offered \in Nat
        /\ offered = Len(emitted) + (Len(read_stash_) + 1 - start)
                     + Len(write_stash_) + dropped_frames_
    BY DEF TypeInv, TypeOK, Conservation
  <2>1. CASE StashSample
    <3>1. Len(write_stash_') = Len(write_stash_) + 1
      BY <2>1 DEF StashSample, TypeInv, TypeOK
    <3> QED  BY <2>0, <2>1, <3>1 DEF StashSample, Conservation, flushVars, loopVars
  <2>2. CASE DropSample
    BY <2>0, <2>2 DEF DropSample, Conservation, flushVars, loopVars
  <2>3. CASE SwapStash
    <3>1. /\ write_stash_' = read_stash_ /\ read_stash_' = write_stash_ /\ start' = start
          /\ UNCHANGED <<offered, emitted, dropped_frames_>> /\ start = 1
      BY <2>0, <2>3 DEF SwapStash, FlushControl, loopVars
    <3> QED  BY <2>0, <3>1 DEF Conservation
  <2>4. CASE EmitSegment
    <3> DEFINE end == stop + 1
    <3>1. /\ end \in (start + 1)..(Len(read_stash_) + 1)
          /\ emitted' = emitted \o SegmentTo(end) /\ start' = end
          /\ UNCHANGED <<read_stash_, write_stash_, dropped_frames_, offered>>
      BY <2>0, <2>4, EmittingIs DEF stashVars
    <3> HIDE DEF end
    <3>2. Len(emitted') = Len(emitted) + (end - start)
      BY <2>0, <3>1, EmittedGrows
    <3> QED  BY <2>0, <3>1, <3>2 DEF Conservation
  <2>5. CASE EmitLastSegment
    <3> DEFINE end == Len(read_stash_) + 1
    <3>1. /\ end \in (start + 1)..(Len(read_stash_) + 1)
          /\ emitted' = emitted \o SegmentTo(end) /\ start' = 1 /\ Len(read_stash_') = 0
          /\ UNCHANGED <<write_stash_, dropped_frames_, offered>>
      BY <2>5, EmittingIs DEF stashVars
    <3>2. Len(emitted') = Len(emitted) + (end - start)
      BY <2>0, <3>1, EmittedGrows
    <3> HIDE DEF end
    <3>3. end = Len(read_stash_) + 1
      BY DEF end
    <3> QED  BY <2>0, <3>1, <3>2, <3>3 DEF Conservation
  <2>6. CASE UNCHANGED <<offered, emitted, read_stash_, start, write_stash_, dropped_frames_>>
    BY <2>0, <2>6 DEF Conservation
  <2>7. CASE DataTransmit \/ MetaTransmit \/ PopPacket \/ EmitStatus \/ EnsureGil \/ EmitAlive
             \/ BeginLoop \/ NextSample
    BY <2>6, <2>7
       DEF DataTransmit, MetaTransmit, AsyncDatum, PopPacket, EmitStatus,
           EnsureGil, EmitAlive, BeginLoop, NextSample, stashVars, flushVars, loopVars
  <2>8. CASE PythonTakesGil \/ PythonReleasesGil \/ ProcessFrame \/ UNCHANGED vars
    BY <2>6, <2>8
       DEF PythonTakesGil, PythonReleasesGil, ProcessFrame, vars, stashVars, flushVars, loopVars
  <2> QED  BY <2>1, <2>2, <2>3, <2>4, <2>5, <2>7, <2>8 DEF Next, EventThread, FlushStash, Emit
<1> QED  BY <1>1, <1>2, TypeInvariance, PTL DEF Spec
-----------------------------------------------------------------------------
(* Order of samples, keep-alives and statuses *)

\* Packets are numbered as they arrive and handled in that order.
QueueInv ==
  /\ \A i \in 1..Len(queue_) : queue_[i].id = sent - Len(queue_) + i
  /\ pkt # NoPkt => pkt.id = Processed + 1

\* Whatever is stashed or in a frame has been handled, and is in order.
OrderInv ==
  /\ \A n \in Ids(emitted) \cup HeldIds : n <= Processed
  /\ SamplesInOrder

\* The barrier of the current flush covers every keep-alive and stays behind
\* the samples stashed after the swap.
BarrierInv ==
  /\ barrier <= Processed
  /\ \A i \in Alives : out_queue_[i].upto <= barrier
  /\ pc \in {"wait_gil", "emit", "loop"} => \A n \in Ids(write_stash_) : n > barrier
  /\ AliveIsBarrier

\* Only handled samples are in frames.
StatusInv ==
  /\ \A i \in Scans : \A n \in Ids(out_queue_[i].samples) : n <= Processed
  /\ StatusNotOvertaken

\* Numbers of a sample and of a packet, for the steps below.
LEMMA IdsAreNat ==
  /\ \A p \in Packet : p.id \in Nat
  /\ \A s \in Seq(SmurfSample) : \A i \in 1..Len(s) : s[i].id \in Nat
<1>1. \A p \in Packet : p.id \in Nat
  BY DEF Packet, SmurfSample, StatusSample
<1>2. ASSUME NEW s \in Seq(SmurfSample), NEW i \in 1..Len(s)
      PROVE  s[i].id \in Nat
  <2>1. s[i] \in SmurfSample
    OBVIOUS
  <2> QED  BY <2>1 DEF SmurfSample
<1> QED  BY <1>1, <1>2

\* A stash that grows by one sample.
LEMMA IdsAppend ==
  ASSUME NEW s \in Seq(SmurfSample), NEW p \in SmurfSample
  PROVE  /\ Ids(Append(s, p)) = Ids(s) \cup {p.id}
         /\ Increasing(s, 1) /\ (\A n \in Ids(s) : n < p.id)
              => Increasing(Append(s, p), 1)
<1>1. /\ Len(Append(s, p)) = Len(s) + 1
      /\ \A i \in 1..Len(s) : Append(s, p)[i] = s[i]
      /\ Append(s, p)[Len(s) + 1] = p
  OBVIOUS
<1>2. Ids(Append(s, p)) = Ids(s) \cup {p.id}
  BY <1>1 DEF Ids
<1>3. ASSUME Increasing(s, 1), \A n \in Ids(s) : n < p.id
      PROVE  Increasing(Append(s, p), 1)
  <2>1. \A i \in 1..Len(s) : s[i].id < p.id
    BY <1>3 DEF Ids
  <2> QED  BY <1>1, <1>3, <2>1 DEF Increasing
<1> QED  BY <1>2, <1>3

\* What flushing the samples up to end does to the numbers: the segment moves
\* from the read stash behind the frames built before, in order.
LEMMA FlushMovesIds ==
  ASSUME TypeOK, SamplesInOrder,
         NEW end \in (start + 1)..(Len(read_stash_) + 1),
         emitted' = emitted \o SegmentTo(end),
         UnflushedIds' = {read_stash_[i].id : i \in end..Len(read_stash_)},
         write_stash_' = write_stash_,
         Increasing(read_stash_', start')
  PROVE  /\ Ids(emitted') = Ids(emitted) \cup Ids(SegmentTo(end))
         /\ Ids(SegmentTo(end)) \subseteq UnflushedIds
         /\ HeldIds' \subseteq HeldIds
         /\ SamplesInOrder'
<1> DEFINE R == {read_stash_[i].id : i \in end..Len(read_stash_)}
<1>1. /\ start \in Nat \ {0} /\ Len(read_stash_) \in Nat /\ Len(emitted) \in Nat
      /\ end \in Nat
  BY DEF TypeOK
<1>2. Ids(SegmentTo(end)) = {read_stash_[i].id : i \in start..(end - 1)}
  <2>1. /\ Len(SegmentTo(end)) = end - start
        /\ \A i \in 1..(end - start) : SegmentTo(end)[i] = read_stash_[start + i - 1]
    BY SegmentType
  <2>2. ASSUME NEW j \in start..(end - 1)
        PROVE  \E i \in 1..(end - start) : read_stash_[j] = read_stash_[start + i - 1]
    BY <1>1, j - start + 1 \in 1..(end - start), start + (j - start + 1) - 1 = j
  <2>3. \A i \in 1..(end - start) : start + i - 1 \in start..(end - 1)
    BY <1>1
  <2>4. Ids(SegmentTo(end)) = {SegmentTo(end)[i].id : i \in 1..(end - start)}
    BY <2>1 DEF Ids
  <2>5. Ids(SegmentTo(end)) \subseteq {read_stash_[i].id : i \in start..(end - 1)}
    BY <2>1, <2>3, <2>4
  <2>6. {read_stash_[i].id : i \in start..(end - 1)} \subseteq Ids(SegmentTo(end))
    BY <2>1, <2>2, <2>4
  <2> QED  BY <2>5, <2>6
<1>3. /\ Len(emitted') = Len(emitted) + (end - start)
      /\ \A i \in 1..Len(emitted) : emitted'[i] = emitted[i]
      /\ \A j \in start..(end - 1) : emitted'[Len(emitted) + (j - start) + 1] = read_stash_[j]
  <2>1. /\ Len(emitted') = Len(emitted) + (end - start)
        /\ \A i \in 1..Len(emitted') :
              emitted'[i] = IF i <= Len(emitted) THEN emitted[i]
                            ELSE read_stash_[start + i - Len(emitted) - 1]
    BY EmittedGrows
  <2>2. ASSUME NEW j \in start..(end - 1)
        PROVE  emitted'[Len(emitted) + (j - start) + 1] = read_stash_[j]
    <3> DEFINE k == Len(emitted) + (j - start) + 1
    <3>1. k \in 1..Len(emitted') /\ ~(k <= Len(emitted)) /\ start + k - Len(emitted) - 1 = j
      BY <1>1, <2>1
    <3>2. emitted'[k] = read_stash_[start + k - Len(emitted) - 1]
      BY <2>1, <3>1
    <3> QED  BY <3>1, <3>2
  <2> QED  BY <1>1, <2>1, <2>2
<1>4. ASSUME NEW i \in 1..Len(emitted'), i > Len(emitted)
      PROVE  \E j \in start..(end - 1) :
               i = Len(emitted) + (j - start) + 1 /\ emitted'[i] = read_stash_[j]
  <2> DEFINE j == i - Len(emitted) + start - 1
  <2>1. j \in start..(end - 1) /\ i = Len(emitted) + (j - start) + 1
    BY <1>1, <1>3, <1>4
  <2>2. emitted'[i] = read_stash_[j]
    BY <1>3, <2>1
  <2> QED  BY <2>1, <2>2
<1>5. Ids(emitted') = Ids(emitted) \cup Ids(SegmentTo(end))
  <2>1. Ids(emitted) \subseteq Ids(emitted')
    BY <1>1, <1>3 DEF Ids
  <2>2. ASSUME NEW j \in start..(end - 1)
        PROVE  read_stash_[j].id \in Ids(emitted')
    BY <1>1, <1>3, Len(emitted) + (j - start) + 1 \in 1..Len(emitted') DEF Ids
  <2>3. ASSUME NEW i \in 1..Len(emitted')
        PROVE  emitted'[i].id \in Ids(emitted) \cup {read_stash_[j].id : j \in start..(end - 1)}
    <3>1. CASE i <= Len(emitted)
      BY <1>1, <1>3, <3>1 DEF Ids
    <3>2. CASE i > Len(emitted)
      <4>1. PICK j \in start..(end - 1) : emitted'[i] = read_stash_[j]
        BY <1>4, <3>2
      <4> QED  BY <4>1
    <3>3. i <= Len(emitted) \/ i > Len(emitted)
      BY <1>1
    <3> QED  BY <3>1, <3>2, <3>3
  <2>4. Ids(emitted') \subseteq Ids(emitted) \cup Ids(SegmentTo(end))
    BY <1>2, <2>3 DEF Ids
  <2> QED  BY <1>2, <2>1, <2>2, <2>4
<1>6. Ids(SegmentTo(end)) \subseteq UnflushedIds /\ R \subseteq UnflushedIds
  BY <1>1, <1>2 DEF UnflushedIds
<1>7. Ids(write_stash_') = Ids(write_stash_)
  BY DEF Ids
<1>8. HeldIds' \subseteq HeldIds
  BY <1>6, <1>7 DEF HeldIds, Ids
<1>9. Increasing(emitted', 1)
  <2> SUFFICES ASSUME NEW i \in 1..Len(emitted'), NEW k \in 1..Len(emitted'), i < k
               PROVE  emitted'[i].id < emitted'[k].id
    BY DEF Increasing
  <2>1. CASE k <= Len(emitted)
    <3>1. i \in 1..Len(emitted) /\ k \in 1..Len(emitted)
      BY <1>1, <1>3, <2>1
    <3>2. emitted[i].id < emitted[k].id
      BY <3>1 DEF SamplesInOrder, Increasing
    <3> QED  BY <1>3, <3>1, <3>2
  <2>2. CASE i <= Len(emitted) /\ k > Len(emitted)
    <3>1. PICK j \in start..(end - 1) : emitted'[k] = read_stash_[j]
      BY <1>4, <2>2
    <3>2. emitted[i].id \in Ids(emitted) /\ read_stash_[j].id \in HeldIds
      BY <1>1, <2>2, <3>1 DEF Ids, HeldIds, UnflushedIds
    <3> QED  BY <1>1, <1>3, <2>2, <3>1, <3>2 DEF SamplesInOrder, Precede
  <2>3. CASE i > Len(emitted)
    <3>0. k > Len(emitted)
      BY <1>1, <1>3, <2>3
    <3>1. PICK a \in start..(end - 1) :
            i = Len(emitted) + (a - start) + 1 /\ emitted'[i] = read_stash_[a]
      BY <1>4, <2>3
    <3>2. PICK b \in start..(end - 1) :
            k = Len(emitted) + (b - start) + 1 /\ emitted'[k] = read_stash_[b]
      BY <1>4, <3>0
    <3>3. a \in start..Len(read_stash_) /\ b \in start..Len(read_stash_)
      BY <1>1
    <3>5. i = Len(emitted) + (a - start) + 1 /\ k = Len(emitted) + (b - start) + 1
      BY <3>1, <3>2
    <3>6. a < b
      BY <1>1, <3>5
    <3>4. read_stash_[a].id < read_stash_[b].id
      BY <3>3, <3>6 DEF SamplesInOrder, Increasing
    <3> QED  BY <3>1, <3>2, <3>4
  <2> QED  BY <1>1, <1>3, <2>1, <2>2, <2>3
<1>10. Precede(Ids(emitted'), HeldIds')
  <2>1. Precede(Ids(emitted), HeldIds')
    BY <1>8 DEF SamplesInOrder, Precede
  <2>2. \A m \in Ids(SegmentTo(end)), n \in R : m < n
    <3> SUFFICES ASSUME NEW a \in start..(end - 1), NEW b \in end..Len(read_stash_)
                 PROVE  read_stash_[a].id < read_stash_[b].id
      BY <1>2
    <3>1. a < b /\ a \in start..Len(read_stash_) /\ b \in start..Len(read_stash_)
      BY <1>1
    <3> QED  BY <3>1 DEF SamplesInOrder, Increasing
  <2>3. \A m \in Ids(SegmentTo(end)), n \in Ids(write_stash_) : m < n
    BY <1>6 DEF SamplesInOrder, Precede
  <2>4. HeldIds' = R \cup Ids(write_stash_)
    BY <1>7 DEF HeldIds, Ids
  <2> QED  BY <1>5, <2>1, <2>2, <2>3, <2>4 DEF Precede
<1>11. Precede(UnflushedIds', Ids(write_stash_'))
  BY <1>6, <1>7 DEF SamplesInOrder, Precede
<1>12. Increasing(write_stash_', 1)
  BY DEF SamplesInOrder, Increasing
<1>13. SamplesInOrder'
  BY <1>9, <1>10, <1>11, <1>12 DEF SamplesInOrder, Ids, Increasing
<1> QED  BY <1>5, <1>6, <1>8, <1>13

\* Handling a packet raises Processed by one; nothing lowers it.
LEMMA ProcessedType ==
  ASSUME TypeInv
  PROVE  Processed \in Nat
BY DEF TypeInv, TypeOK, FlushControl, Processed

\* The numbering of packets is invariant.
LEMMA QueueInvariance == Spec => []QueueInv
<1>1. Init => QueueInv
  BY DEF Init, QueueInv
<1>2. TypeInv /\ QueueInv /\ [Next]_vars => QueueInv'
  <2> SUFFICES ASSUME TypeInv, QueueInv, [Next]_vars
               PROVE  QueueInv'
    OBVIOUS
  <2>0. /\ queue_ \in Seq(Packet) /\ sent \in Nat /\ Len(queue_) \in Nat
        /\ Processed = sent - Len(queue_) - (IF pkt = NoPkt THEN 0 ELSE 1)
    BY DEF TypeInv, TypeOK, Processed
  <2>1. ASSUME NEW p \in Packet, p.id = sent + 1, AsyncDatum(p)
        PROVE  QueueInv'
    <3>1. /\ Len(queue_') = Len(queue_) + 1
          /\ \A i \in 1..Len(queue_) : queue_'[i] = queue_[i]
          /\ queue_'[Len(queue_) + 1] = p
          /\ sent' = sent + 1 /\ pkt' = pkt
      BY <2>0, <2>1 DEF AsyncDatum
    <3>2. Processed' = Processed
      BY <2>0, <3>1 DEF Processed
    <3>3. ASSUME NEW i \in 1..Len(queue_')
          PROVE  queue_'[i].id = sent' - Len(queue_') + i
      <4>1. CASE i <= Len(queue_)
        <5>1. i \in 1..Len(queue_) /\ queue_'[i] = queue_[i]
          BY <2>0, <3>1, <4>1
        <5>2. queue_[i].id = sent - Len(queue_) + i
          BY <5>1 DEF QueueInv
        <5> QED  BY <2>0, <3>1, <5>1, <5>2
      <4>2. CASE i = Len(queue_) + 1
        <5>1. queue_'[i].id = sent + 1
          BY <2>1, <3>1, <4>2
        <5> QED  BY <2>0, <3>1, <4>2, <5>1
      <4> QED  BY <2>0, <3>1, <4>1, <4>2
    <3> QED  BY <3>1, <3>2, <3>3 DEF QueueInv
  <2>2. CASE DataTransmit
    <3>1. PICK n \in NumberChannels :
            AsyncDatum([kind |-> "data", id |-> sent + 1, nchans |-> n])
      BY <2>2 DEF DataTransmit
    <3> QED  BY <2>0, <2>1, <3>1 DEF Packet, SmurfSample
  <2>3. CASE MetaTransmit
    <3>1. PICK st \in Statuses : AsyncDatum([kind |-> "status", id |-> sent + 1, status |-> st])
      BY <2>3 DEF MetaTransmit
    <3> QED  BY <2>0, <2>1, <3>1 DEF Packet, StatusSample
  <2>4. CASE PopPacket
    <3>1. /\ Len(queue_) > 0 /\ Len(queue_') = Len(queue_) - 1
          /\ \A i \in 1..Len(queue_') : queue_'[i] = queue_[i + 1] /\ i + 1 \in 1..Len(queue_)
          /\ pkt' = queue_[1] /\ pkt = NoPkt /\ sent' = sent
      BY <2>0, <2>4 DEF PopPacket
    <3>2. pkt' # NoPkt
      BY <2>0, <3>1, NoPktAssumption
    <3>3. Processed' = Processed /\ pkt'.id = Processed + 1
      BY <2>0, <3>1, <3>2 DEF Processed, QueueInv
    <3>4. ASSUME NEW i \in 1..Len(queue_')
          PROVE  queue_'[i].id = sent' - Len(queue_') + i
      <4>1. queue_[i + 1].id = sent - Len(queue_) + (i + 1)
        BY <3>1 DEF QueueInv
      <4> QED  BY <2>0, <3>1, <4>1
    <3> QED  BY <3>3, <3>4 DEF QueueInv
  <2>5. CASE pkt' = NoPkt /\ UNCHANGED <<queue_, sent>>
    BY <2>5 DEF QueueInv
  <2>6. CASE EmitStatus \/ StashSample \/ DropSample
    BY <2>5, <2>6 DEF EmitStatus, StashSample, DropSample
  <2>7. CASE UNCHANGED inVars
    BY <2>7 DEF QueueInv, Processed, inVars
  <2>8. CASE FlushStash
    BY <2>7, <2>8
       DEF FlushStash, Emit, SwapStash, EnsureGil, EmitAlive, BeginLoop, NextSample,
           EmitSegment, EmitLastSegment, EndLoop
  <2>9. CASE PythonTakesGil \/ PythonReleasesGil \/ ProcessFrame \/ UNCHANGED vars
    BY <2>7, <2>9 DEF PythonTakesGil, PythonReleasesGil, ProcessFrame, vars
  <2> QED  BY <2>2, <2>3, <2>4, <2>6, <2>8, <2>9 DEF Next, EventThread
<1> QED  BY <1>1, <1>2, TypeInvariance, PTL DEF Spec

\* Processed never decreases, and grows by one with each packet handled.
LEMMA ProcessedStep ==
  ASSUME TypeInv, [Next]_vars
  PROVE  /\ Processed \in Nat /\ Processed' \in Nat /\ Processed <= Processed'
         /\ EmitStatus \/ StashSample \/ DropSample => Processed' = Processed + 1
<1>0. /\ queue_ \in Seq(Packet) /\ sent \in Nat /\ Len(queue_) \in Nat
      /\ Processed = sent - Len(queue_) - (IF pkt = NoPkt THEN 0 ELSE 1)
      /\ Processed \in Nat
  BY ProcessedType DEF TypeInv, TypeOK, Processed
<1>1. ASSUME EmitStatus \/ StashSample \/ DropSample
      PROVE  Processed' = Processed + 1
  <2>1. pkt # NoPkt /\ pkt' = NoPkt /\ UNCHANGED <<queue_, sent>>
    BY <1>1, NoPktAssumption DEF EmitStatus, StashSample, DropSample, Packet
  <2>2. Processed' = Processed + 1
    BY <1>0, <2>1 DEF Processed
  <2> QED  BY <1>0, <2>2
<1>2. ASSUME NEW p, AsyncDatum(p)
      PROVE  Processed' = Processed
  <2>1. Len(queue_') = Len(queue_) + 1 /\ sent' = sent + 1 /\ pkt' = pkt
    BY <1>0, <1>2 DEF AsyncDatum
  <2> QED  BY <1>0, <2>1 DEF Processed
<1>3. DataTransmit \/ MetaTransmit => Processed' = Processed
  BY <1>2 DEF DataTransmit, MetaTransmit
<1>4. ASSUME PopPacket
      PROVE  Processed' = Processed
  <2>1. Len(queue_') = Len(queue_) - 1 /\ sent' = sent /\ pkt = NoPkt /\ pkt' # NoPkt
    BY <1>0, <1>4, NoPktAssumption DEF PopPacket
  <2> QED  BY <1>0, <2>1 DEF Processed
<1>5. UNCHANGED inVars => Processed' = Processed
  BY DEF Processed, inVars
<1>6. FlushStash \/ PythonTakesGil \/ PythonReleasesGil \/ ProcessFrame \/ UNCHANGED vars
        => Processed' = Processed
  BY <1>5
     DEF FlushStash, Emit, SwapStash, EnsureGil, EmitAlive, BeginLoop, NextSample,
         EmitSegment, EmitLastSegment, EndLoop,
         PythonTakesGil, PythonReleasesGil, ProcessFrame, vars
<1>7. \/ EmitStatus \/ StashSample \/ DropSample
      \/ Processed' = Processed
  BY <1>3, <1>4, <1>6 DEF Next, EventThread
<1> QED  BY <1>0, <1>1, <1>7

\* A step outside the flush loop that neither stashes nor swaps moves no sample.
LEMMA SamplesUnmoved ==
  ASSUME UNCHANGED <<emitted, read_stash_, start, write_stash_>>
  PROVE  /\ Ids(emitted') = Ids(emitted) /\ UnflushedIds' = UnflushedIds
         /\ HeldIds' = HeldIds
         /\ SamplesInOrder => SamplesInOrder'
<1>1. /\ Ids(emitted') = Ids(emitted) /\ UnflushedIds' = UnflushedIds
      /\ Ids(write_stash_') = Ids(write_stash_)
  BY DEF Ids, UnflushedIds
<1>2. HeldIds' = HeldIds
  BY <1>1 DEF HeldIds, Ids
<1>3. SamplesInOrder => SamplesInOrder'
  BY <1>1, <1>2 DEF SamplesInOrder, Increasing, Ids
<1> QED  BY <1>1, <1>2, <1>3

\* Stashing a sample adds its number, the highest so far, to the write stash.
LEMMA StashAddsId ==
  ASSUME TypeInv, QueueInv, OrderInv, StashSample
  PROVE  /\ pkt.id = Processed + 1
         /\ Ids(write_stash_') = Ids(write_stash_) \cup {pkt.id}
         /\ HeldIds' = HeldIds \cup {pkt.id}
         /\ SamplesInOrder'
<1>1. /\ pkt \in SmurfSample /\ pkt # NoPkt /\ write_stash_ \in Seq(SmurfSample)
      /\ write_stash_' = Append(write_stash_, pkt)
      /\ UNCHANGED <<emitted, read_stash_, start>>
  BY NoPktAssumption DEF TypeInv, TypeOK, StashSample, Packet, flushVars, loopVars
<1>2. pkt.id = Processed + 1 /\ Processed \in Nat
  BY <1>1, ProcessedType DEF QueueInv
<1>3. \A n \in Ids(emitted) \cup HeldIds : n < pkt.id
  <2>1. \A n \in Ids(emitted) \cup HeldIds : n \in Nat /\ n <= Processed
    <3>1. /\ emitted \in Seq(SmurfSample) /\ read_stash_ \in Seq(SmurfSample)
          /\ write_stash_ \in Seq(SmurfSample) /\ start \in Nat \ {0}
      BY DEF TypeInv, TypeOK
    <3>2. \A n \in Ids(emitted) \cup HeldIds : n \in Nat
      BY <3>1, IdsAreNat DEF Ids, HeldIds, UnflushedIds
    <3> QED  BY <3>2 DEF OrderInv
  <2> QED  BY <1>2, <2>1
<1>4. Ids(write_stash_') = Ids(write_stash_) \cup {pkt.id} /\ Increasing(write_stash_', 1)
  <2>1. Increasing(write_stash_, 1) /\ \A n \in Ids(write_stash_) : n < pkt.id
    BY <1>3 DEF OrderInv, SamplesInOrder, HeldIds
  <2> QED  BY <1>1, <2>1, IdsAppend
<1>5. Ids(emitted') = Ids(emitted) /\ UnflushedIds' = UnflushedIds
  BY <1>1 DEF Ids, UnflushedIds
<1>6. HeldIds' = HeldIds \cup {pkt.id}
  BY <1>4, <1>5 DEF HeldIds, Ids
<1>7. Precede(Ids(emitted'), HeldIds')
  BY <1>3, <1>5, <1>6 DEF OrderInv, SamplesInOrder, Precede
<1>8. Precede(UnflushedIds', Ids(write_stash_'))
  BY <1>3, <1>4, <1>5 DEF OrderInv, SamplesInOrder, Precede, HeldIds
<1>9. Increasing(emitted', 1) /\ Increasing(read_stash_', start')
  BY <1>1 DEF OrderInv, SamplesInOrder, Increasing
<1>10. SamplesInOrder'
  BY <1>4, <1>7, <1>8, <1>9 DEF SamplesInOrder, Ids, Increasing
<1> QED  BY <1>2, <1>4, <1>6, <1>10

\* The swap moves the write stash to the read stash and empties the former.
LEMMA SwapKeepsIds ==
  ASSUME TypeInv, OrderInv, SwapStash
  PROVE  /\ Ids(write_stash_') = {} /\ HeldIds' = HeldIds
         /\ Ids(emitted') = Ids(emitted)
         /\ SamplesInOrder'
<1>1. /\ read_stash_ = <<>> /\ start = 1
      /\ write_stash_' = <<>> /\ read_stash_' = write_stash_ /\ start' = 1
      /\ emitted' = emitted
  BY DEF SwapStash, TypeInv, FlushControl, loopVars
<1>2. Ids(write_stash_') = {} /\ UnflushedIds = {}
  BY <1>1 DEF Ids, UnflushedIds
<1>3. UnflushedIds' = Ids(write_stash_) /\ Ids(emitted') = Ids(emitted)
  BY <1>1 DEF Ids, UnflushedIds
<1>4. HeldIds' = HeldIds
  BY <1>2, <1>3 DEF HeldIds, Ids
<1>5. Increasing(emitted', 1) /\ Increasing(read_stash_', start') /\ Increasing(write_stash_', 1)
  BY <1>1 DEF OrderInv, SamplesInOrder, Increasing
<1>6. Precede(Ids(emitted'), HeldIds') /\ Precede(UnflushedIds', Ids(write_stash_'))
  BY <1>2, <1>3, <1>4 DEF OrderInv, SamplesInOrder, Precede
<1>7. SamplesInOrder'
  BY <1>5, <1>6 DEF SamplesInOrder, Ids, Increasing
<1> QED  BY <1>2, <1>3, <1>4, <1>7

\* Building a frame moves a segment of the read stash behind the samples
\* emitted before, and appends one Scan frame that holds it.
LEMMA EmitMovesIds ==
  ASSUME TypeInv, OrderInv, EmitSegment \/ EmitLastSegment
  PROVE  \E end \in (start + 1)..(Len(read_stash_) + 1) :
           /\ out_queue_' = Append(out_queue_, FrameFromSamples(SegmentTo(end)))
           /\ Ids(emitted') = Ids(emitted) \cup Ids(SegmentTo(end))
           /\ Ids(SegmentTo(end)) \subseteq UnflushedIds
           /\ HeldIds' \subseteq HeldIds
           /\ SamplesInOrder'
<1>0. TypeOK /\ SamplesInOrder /\ start \in Nat \ {0} /\ Len(read_stash_) \in Nat
  BY DEF TypeInv, TypeOK, OrderInv
<1>1. CASE EmitSegment
  <2> DEFINE end == stop + 1
  <2>1. /\ end \in (start + 1)..Len(read_stash_)
        /\ out_queue_' = Append(out_queue_, FrameFromSamples(SegmentTo(end)))
        /\ emitted' = emitted \o SegmentTo(end)
        /\ start' = end
        /\ read_stash_' = read_stash_ /\ write_stash_' = write_stash_
    BY <1>1, EmittingIs DEF stashVars
  <2> HIDE DEF end
  <2>2. end \in (start + 1)..(Len(read_stash_) + 1)
    BY <1>0, <2>1
  <2>3. read_stash_' = read_stash_ /\ write_stash_' = write_stash_
    BY <2>1
  <2>4. UnflushedIds' = {read_stash_[i].id : i \in end..Len(read_stash_)}
    BY <2>1, <2>3 DEF UnflushedIds
  <2>5. Increasing(read_stash_', start')
    <3>1. \A i, j \in start..Len(read_stash_) : i < j => read_stash_[i].id < read_stash_[j].id
      BY <1>0 DEF SamplesInOrder, Increasing
    <3>2. end..Len(read_stash_) \subseteq start..Len(read_stash_)
      BY <1>0, <2>1
    <3>3. \A i, j \in end..Len(read_stash_) : i < j => read_stash_[i].id < read_stash_[j].id
      BY <3>1, <3>2
    <3> QED  BY <2>1, <2>3, <3>3 DEF Increasing
  <2> QED  BY <1>0, <2>1, <2>2, <2>3, <2>4, <2>5, FlushMovesIds
<1>2. CASE EmitLastSegment
  <2> DEFINE end == Len(read_stash_) + 1
  <2>1. /\ read_stash_ # <<>> /\ read_stash_' = <<>> /\ start' = 1
        /\ write_stash_' = write_stash_
        /\ emitted' = emitted \o SegmentTo(end)
        /\ out_queue_' = Append(out_queue_, FrameFromSamples(SegmentTo(end)))
    BY <1>2, EmittingIs DEF stashVars
  <2>2. end \in (start + 1)..(Len(read_stash_) + 1)
    BY <1>2, EmittingIs
  <2>3. UnflushedIds' = {read_stash_[i].id : i \in end..Len(read_stash_)}
    BY <1>0, <2>1 DEF UnflushedIds
  <2>4. Increasing(read_stash_', start')
    BY <2>1 DEF Increasing
  <2> QED  BY <1>0, <2>1, <2>2, <2>3, <2>4, FlushMovesIds
<1> QED  BY <1>1, <1>2

\* The steps that move no sample.
Bystander ==
  \/ DataTransmit \/ MetaTransmit \/ PopPacket \/ EmitStatus \/ DropSample
  \/ EnsureGil \/ EmitAlive \/ BeginLoop \/ NextSample
  \/ PythonTakesGil \/ PythonReleasesGil \/ ProcessFrame
  \/ UNCHANGED vars

LEMMA BystanderMovesNothing ==
  Bystander => UNCHANGED <<emitted, read_stash_, start, write_stash_>>
BY DEF Bystander, DataTransmit, MetaTransmit, AsyncDatum, PopPacket, EmitStatus,
       DropSample, EnsureGil, EmitAlive, BeginLoop, NextSample, PythonTakesGil, PythonReleasesGil,
       ProcessFrame, vars, stashVars, flushVars, loopVars

\* Every step is one of these.
LEMMA StepKinds ==
  ASSUME [Next]_vars
  PROVE  Bystander \/ StashSample \/ SwapStash \/ EmitSegment \/ EmitLastSegment
BY DEF Next, EventThread, FlushStash, Emit, Bystander

\* The order of the samples is invariant.
LEMMA OrderInvariance == Spec => []OrderInv
<1>1. Init => OrderInv
  BY DEF Init, OrderInv, SamplesInOrder, Increasing, Precede, Ids, HeldIds, UnflushedIds
<1>2. TypeInv /\ QueueInv /\ OrderInv /\ [Next]_vars => OrderInv'
  <2> SUFFICES ASSUME TypeInv, QueueInv, OrderInv, [Next]_vars
               PROVE  OrderInv'
    OBVIOUS
  <2>0. /\ Processed \in Nat /\ Processed' \in Nat /\ Processed <= Processed'
        /\ StashSample => Processed' = Processed + 1
    BY ProcessedStep
  <2>1. \A n \in Ids(emitted) \cup HeldIds : n \in Nat /\ n <= Processed
    BY IdsAreNat DEF OrderInv, TypeInv, TypeOK, Ids, HeldIds, UnflushedIds
  <2>2. ASSUME Ids(emitted') \cup HeldIds' \subseteq Ids(emitted) \cup HeldIds,
               SamplesInOrder'
        PROVE  OrderInv'
    <3>1. \A n \in Ids(emitted') \cup HeldIds' : n <= Processed'
      BY <2>0, <2>1, <2>2
    <3> QED  BY <2>2, <3>1 DEF OrderInv, Ids
  <2>3. CASE Bystander
    BY <2>2, <2>3, BystanderMovesNothing, SamplesUnmoved DEF OrderInv
  <2>4. CASE SwapStash
    BY <2>2, <2>4, SwapKeepsIds
  <2>5. CASE EmitSegment \/ EmitLastSegment
    <3>1. PICK end \in (start + 1)..(Len(read_stash_) + 1) :
            /\ Ids(emitted') = Ids(emitted) \cup Ids(SegmentTo(end))
            /\ Ids(SegmentTo(end)) \subseteq UnflushedIds
            /\ HeldIds' \subseteq HeldIds
            /\ SamplesInOrder'
      BY <2>5, EmitMovesIds
    <3>2. UnflushedIds \subseteq HeldIds
      BY DEF HeldIds
    <3> QED  BY <2>2, <3>1, <3>2
  <2>6. CASE StashSample
    <3>1. pkt.id = Processed' /\ HeldIds' = HeldIds \cup {pkt.id} /\ SamplesInOrder'
      BY <2>0, <2>6, StashAddsId
    <3>2. Ids(emitted') = Ids(emitted)
      BY <2>6 DEF StashSample, flushVars, loopVars
    <3>3. \A n \in Ids(emitted') \cup HeldIds' : n <= Processed'
      BY <2>0, <2>1, <3>1, <3>2
    <3> QED  BY <3>1, <3>3 DEF OrderInv, Ids
  <2> QED  BY <2>3, <2>4, <2>5, <2>6, StepKinds
<1> QED  BY <1>1, <1>2, TypeInvariance, QueueInvariance, PTL DEF Spec

\* Samples leave in the order in which they came, each at most once, wherever
\* the swap of the stashes and the changes of the channel count fall.
THEOREM SamplesStayInOrder == Spec => []SamplesInOrder
BY OrderInvariance, PTL DEF OrderInv

\* What one more frame at the end of out_queue_ adds, and what stays.
LEMMA FrameOutIndices ==
  ASSUME TypeOK, NEW f \in Frame, out_queue_' = Append(out_queue_, f)
  PROVE  /\ Len(out_queue_) \in Nat /\ Len(out_queue_') = Len(out_queue_) + 1
         /\ \A i \in 1..Len(out_queue_) : out_queue_'[i] = out_queue_[i]
         /\ out_queue_'[Len(out_queue_) + 1] = f
BY DEF TypeOK

\* Removing the oldest frame renumbers the others.
LEMMA ProcessFrameIndices ==
  ASSUME TypeOK, ProcessFrame
  PROVE  /\ Len(out_queue_) \in Nat /\ Len(out_queue_') = Len(out_queue_) - 1
         /\ \A i \in 1..Len(out_queue_') :
              i + 1 \in 1..Len(out_queue_) /\ out_queue_'[i] = out_queue_[i + 1]
BY DEF TypeOK, ProcessFrame

\* The fields of the three kinds of frame.
LEMMA FrameFields ==
  ASSUME NEW f \in Frame
  PROVE  /\ f.type = "none" => f.upto \in Nat
         /\ f.type = "Wiring" => f.id \in Nat
         /\ f.type = "Scan" => f.samples \in Seq(SmurfSample)
         /\ f.type \in {"none", "Wiring", "Scan"}
BY DEF Frame

\* The frames the steps append.
LEMMA FrameOfStep ==
  /\ \A n : AliveFrame(n).type = "none" /\ AliveFrame(n).upto = n
  /\ \A p : WiringFrame(p).type = "Wiring" /\ WiringFrame(p).id = p.id
  /\ \A s : FrameFromSamples(s).type = "Scan" /\ FrameFromSamples(s).samples = s
BY DEF AliveFrame, WiringFrame, FrameFromSamples, ScanFrame

\* The keep-alives stay barriers.
LEMMA BarrierInvariance == Spec => []BarrierInv
<1>1. Init => BarrierInv
  BY DEF Init, BarrierInv, Processed, AliveIsBarrier, Alives
<1>2. TypeInv /\ QueueInv /\ OrderInv /\ BarrierInv /\ [Next]_vars => BarrierInv'
  <2> SUFFICES ASSUME TypeInv, QueueInv, OrderInv, BarrierInv, [Next]_vars
               PROVE  BarrierInv'
    OBVIOUS
  <2>0. /\ Processed \in Nat /\ Processed' \in Nat /\ Processed <= Processed'
        /\ StashSample => Processed' = Processed + 1
        /\ TypeOK /\ barrier \in Nat /\ barrier <= Processed
        /\ \A i \in Alives : out_queue_[i].upto \in Nat /\ out_queue_[i].upto <= barrier
        /\ \A n \in HeldIds : n \in Nat
        /\ UnflushedIds \subseteq HeldIds
    <3>1. \A i \in Alives : out_queue_[i].upto \in Nat
      <4>1. \A i \in Alives : out_queue_[i] \in Frame /\ out_queue_[i].type = "none"
        BY DEF TypeInv, TypeOK, Alives
      <4> QED  BY <4>1, FrameFields
    <3>2. \A n \in HeldIds : n \in Nat
      BY IdsAreNat DEF TypeInv, TypeOK, Ids, HeldIds, UnflushedIds
    <3>3. UnflushedIds \subseteq HeldIds
      BY DEF HeldIds
    <3>4. TypeOK /\ barrier \in Nat
      BY DEF TypeInv, TypeOK
    <3> QED  BY ProcessedStep, <3>1, <3>2, <3>3, <3>4 DEF BarrierInv
  <2>1. ASSUME UNCHANGED out_queue_, \A n \in HeldIds' : n \in HeldIds \/ n = Processed + 1
        PROVE  AliveIsBarrier'
    <3> SUFFICES ASSUME NEW i \in Alives
                 PROVE  /\ \A n \in HeldIds' : n > out_queue_[i].upto
                        /\ \A j \in Scans : j > i =>
                             \A n \in Ids(out_queue_[j].samples) : n > out_queue_[i].upto
      BY <2>1 DEF AliveIsBarrier, Alives, Scans, Ids, HeldIds, UnflushedIds
    <3>1. \A n \in HeldIds : n > out_queue_[i].upto
      BY DEF BarrierInv, AliveIsBarrier
    <3>2. \A n \in HeldIds' : n > out_queue_[i].upto
      <4> TAKE n \in HeldIds'
      <4>1. CASE n \in HeldIds
        BY <3>1, <4>1
      <4>2. CASE n = Processed + 1
        <5>1. out_queue_[i].upto \in Nat /\ out_queue_[i].upto <= Processed
          BY <2>0
        <5> QED  BY <2>0, <4>2, <5>1
      <4> QED  BY <2>1, <4>1, <4>2
    <3> QED  BY <3>2 DEF BarrierInv, AliveIsBarrier
  <2>2. ASSUME NEW f \in Frame, out_queue_' = Append(out_queue_, f), HeldIds' \subseteq HeldIds,
               f.type = "none" => f.upto = barrier /\ (\A n \in HeldIds : n > barrier),
               f.type = "Scan" => Ids(f.samples) \subseteq HeldIds
        PROVE  /\ AliveIsBarrier'
               /\ \A i \in Alives' : out_queue_'[i].upto <= barrier
    <3> DEFINE L == Len(out_queue_)
    <3>1. /\ L \in Nat /\ Len(out_queue_') = L + 1
          /\ \A i \in 1..L : out_queue_'[i] = out_queue_[i]
          /\ out_queue_'[L + 1] = f
      BY <2>0, <2>2, FrameOutIndices
    <3>2. \A i \in Alives' : (i \in Alives /\ i \in 1..L) \/ (i = L + 1 /\ f.type = "none")
      BY <3>1 DEF Alives
    <3>3. \A i \in Scans' : (i \in Scans /\ i \in 1..L) \/ (i = L + 1 /\ f.type = "Scan")
      BY <3>1 DEF Scans
    <3>4. ASSUME NEW i \in Alives'
          PROVE  /\ out_queue_'[i].upto <= barrier
                 /\ \A n \in HeldIds : n > out_queue_'[i].upto
      <4>1. CASE i \in Alives /\ i \in 1..L
        BY <2>0, <3>1, <4>1 DEF BarrierInv, AliveIsBarrier
      <4>2. CASE i = L + 1 /\ f.type = "none"
        BY <2>0, <2>2, <3>1, <4>2
      <4> QED  BY <3>2, <4>1, <4>2
    <3>5. ASSUME NEW i \in Alives', NEW j \in Scans', j > i, NEW n \in Ids(out_queue_'[j].samples)
          PROVE  n > out_queue_'[i].upto
      <4>1. CASE j \in Scans /\ j \in 1..L
        <5>1. i \in Alives /\ i \in 1..L
          BY <3>1, <3>2, <3>5, <4>1
        <5> QED  BY <3>1, <3>5, <4>1, <5>1 DEF BarrierInv, AliveIsBarrier
      <4>2. CASE j = L + 1 /\ f.type = "Scan"
        <5>1. n \in HeldIds
          BY <2>2, <3>1, <3>5, <4>2
        <5> QED  BY <3>4, <5>1
      <4> QED  BY <3>3, <4>1, <4>2
    <3> QED  BY <2>2, <3>4, <3>5 DEF AliveIsBarrier, Ids
  <2>3. CASE StashSample
    <3>1. /\ Ids(write_stash_') = Ids(write_stash_) \cup {Processed + 1}
          /\ HeldIds' = HeldIds \cup {Processed + 1}
      BY <2>3, StashAddsId
    <3>2. UNCHANGED <<out_queue_, barrier, pc>>
      BY <2>3 DEF StashSample, flushVars, loopVars
    <3>3. AliveIsBarrier'
      BY <2>1, <3>1, <3>2
    <3>4. pc \in {"wait_gil", "emit", "loop"} => \A n \in Ids(write_stash_') : n > barrier
      BY <2>0, <3>1 DEF BarrierInv
    <3>5. \A i \in Alives' : out_queue_'[i].upto <= barrier'
      BY <2>0, <3>2 DEF Alives
    <3> QED  BY <2>0, <3>2, <3>3, <3>4, <3>5 DEF BarrierInv, Ids
  <2>4. CASE SwapStash
    <3>1. Ids(write_stash_') = {} /\ HeldIds' = HeldIds
      BY <2>4, SwapKeepsIds
    <3>2. out_queue_' = out_queue_ /\ barrier' = Processed
      BY <2>4 DEF SwapStash
    <3>3. AliveIsBarrier'
      BY <2>1, <3>1, <3>2
    <3>4. \A i \in Alives' : out_queue_'[i].upto <= barrier'
      BY <2>0, <3>2 DEF Alives
    <3> QED  BY <2>0, <3>1, <3>2, <3>3, <3>4 DEF BarrierInv, Ids
  <2>5. CASE EmitSegment \/ EmitLastSegment
    <3>1. PICK end \in (start + 1)..(Len(read_stash_) + 1) :
            /\ out_queue_' = Append(out_queue_, FrameFromSamples(SegmentTo(end)))
            /\ Ids(SegmentTo(end)) \subseteq UnflushedIds
            /\ HeldIds' \subseteq HeldIds
      BY <2>5, EmitMovesIds
    <3>2. FrameFromSamples(SegmentTo(end)) \in Frame
      BY <2>0, SegmentType
    <3>3. AliveIsBarrier' /\ \A i \in Alives' : out_queue_'[i].upto <= barrier
      BY <2>0, <2>2, <3>1, <3>2, FrameOfStep
    <3>4. UNCHANGED <<barrier, write_stash_>> /\ pc = "loop"
      BY <2>5, EmittingIs DEF stashVars
    <3> QED  BY <2>0, <3>3, <3>4 DEF BarrierInv, Ids
  <2>6. CASE EmitAlive
    <3>1. HeldIds = Ids(write_stash_)
      <4>1. read_stash_ = <<>> /\ start = 1
        BY <2>6 DEF EmitAlive, NothingStashed, TypeInv, FlushControl
      <4> QED  BY <4>1 DEF HeldIds, UnflushedIds
    <3>2. \A n \in HeldIds : n > barrier
      BY <2>6, <3>1 DEF BarrierInv, EmitAlive
    <3>3. out_queue_' = Append(out_queue_, AliveFrame(barrier)) /\ AliveFrame(barrier) \in Frame
      BY <2>0, <2>6, OtherFrameTypes DEF EmitAlive, FrameOut
    <3>4. HeldIds' = HeldIds
      BY <2>6, BystanderMovesNothing, SamplesUnmoved DEF Bystander
    <3>5. AliveIsBarrier' /\ \A i \in Alives' : out_queue_'[i].upto <= barrier
      BY <2>2, <3>2, <3>3, <3>4, FrameOfStep
    <3>6. barrier' = barrier /\ pc' = "sleep"
      BY <2>6 DEF EmitAlive
    <3> QED  BY <2>0, <3>5, <3>6 DEF BarrierInv
  <2>7. CASE EmitStatus
    <3>1. out_queue_' = Append(out_queue_, WiringFrame(pkt)) /\ WiringFrame(pkt) \in Frame
      BY <2>7, OtherFrameTypes DEF EmitStatus, FrameOut
    <3>2. HeldIds' = HeldIds
      BY <2>7, BystanderMovesNothing, SamplesUnmoved DEF Bystander
    <3>3. AliveIsBarrier' /\ \A i \in Alives' : out_queue_'[i].upto <= barrier
      BY <2>2, <3>1, <3>2, FrameOfStep
    <3>4. UNCHANGED <<barrier, pc, write_stash_>>
      BY <2>7 DEF EmitStatus, stashVars, flushVars, loopVars
    <3> QED  BY <2>0, <3>3, <3>4 DEF BarrierInv, Ids
  <2>8. CASE ProcessFrame
    <3>1. /\ \A i \in 1..Len(out_queue_') :
               i + 1 \in 1..Len(out_queue_) /\ out_queue_'[i] = out_queue_[i + 1]
          /\ \A i, j \in 1..Len(out_queue_') : j > i => j + 1 > i + 1
      BY <2>0, <2>8, ProcessFrameIndices
    <3>2. HeldIds' = HeldIds
      BY <2>8, BystanderMovesNothing, SamplesUnmoved DEF Bystander
    <3>3. \A i \in Alives' : i + 1 \in Alives /\ out_queue_'[i] = out_queue_[i + 1]
      BY <3>1 DEF Alives
    <3>4. \A i \in Scans' : i + 1 \in Scans /\ out_queue_'[i] = out_queue_[i + 1]
      BY <3>1 DEF Scans
    <3>5. UNCHANGED <<barrier, pc, write_stash_>>
      BY <2>8 DEF ProcessFrame, stashVars, flushVars, loopVars
    <3>6. AliveIsBarrier'
      <4>1. ASSUME NEW i \in Alives'
            PROVE  \A n \in HeldIds' : n > out_queue_'[i].upto
        BY <3>2, <3>3 DEF BarrierInv, AliveIsBarrier
      <4>2. ASSUME NEW i \in Alives', NEW j \in Scans', j > i,
                   NEW n \in Ids(out_queue_'[j].samples)
            PROVE  n > out_queue_'[i].upto
        <5>1. j + 1 > i + 1
          BY <3>1, <4>2 DEF Alives, Scans
        <5> QED  BY <3>3, <3>4, <5>1 DEF BarrierInv, AliveIsBarrier
      <4> QED  BY <4>1, <4>2 DEF AliveIsBarrier, Ids
    <3> QED  BY <2>0, <3>3, <3>5, <3>6 DEF BarrierInv, Ids
  <2>9. CASE UNCHANGED <<out_queue_, barrier, write_stash_>> /\ HeldIds' = HeldIds /\ pc' = pc
    <3>1. AliveIsBarrier'
      BY <2>1, <2>9
    <3>2. \A i \in Alives' : out_queue_'[i].upto <= barrier'
      BY <2>0, <2>9 DEF Alives
    <3> QED  BY <2>0, <2>9, <3>1, <3>2 DEF BarrierInv, Ids
  <2>10. CASE DataTransmit \/ MetaTransmit \/ PopPacket \/ DropSample
              \/ PythonTakesGil \/ PythonReleasesGil \/ UNCHANGED vars
    <3>1. HeldIds' = HeldIds
      BY <2>10, BystanderMovesNothing, SamplesUnmoved DEF Bystander
    <3> QED
      BY <2>9, <2>10, <3>1
         DEF DataTransmit, MetaTransmit, AsyncDatum, PopPacket, DropSample,
             PythonTakesGil, PythonReleasesGil, vars, stashVars, flushVars, loopVars
  <2>11. CASE EnsureGil \/ BeginLoop \/ NextSample
    <3>1. HeldIds' = HeldIds
      BY <2>11, BystanderMovesNothing, SamplesUnmoved DEF Bystander
    <3>2. UNCHANGED <<out_queue_, barrier, write_stash_>> /\ pc \in {"wait_gil", "emit", "loop"}
      BY <2>11 DEF EnsureGil, BeginLoop, NextSample, stashVars
    <3>3. AliveIsBarrier'
      BY <2>1, <3>1, <3>2
    <3>4. \A i \in Alives' : out_queue_'[i].upto <= barrier'
      BY <2>0, <3>2 DEF Alives
    <3> QED  BY <2>0, <3>2, <3>3, <3>4 DEF BarrierInv, Ids
  <2> QED  BY <2>3, <2>4, <2>5, <2>6, <2>7, <2>8, <2>10, <2>11, StepKinds DEF Bystander
<1> QED  BY <1>1, <1>2, TypeInvariance, QueueInvariance, OrderInvariance, PTL DEF Spec

\* A keep-alive is a barrier: no sample processed before the flush that sent it
\* is still in a stash or in a frame behind it.
THEOREM KeepAliveIsBarrier == Spec => []AliveIsBarrier
BY BarrierInvariance, PTL DEF BarrierInv

\* The frames in the queue hold handled samples only, in step with the statuses.
LEMMA StatusInvariance == Spec => []StatusInv
<1>1. Init => StatusInv
  BY DEF Init, StatusInv, StatusNotOvertaken, Scans, Wirings
<1>2. TypeInv /\ QueueInv /\ OrderInv /\ StatusInv /\ [Next]_vars => StatusInv'
  <2> SUFFICES ASSUME TypeInv, QueueInv, OrderInv, StatusInv, [Next]_vars
               PROVE  StatusInv'
    OBVIOUS
  <2>0. /\ Processed \in Nat /\ Processed' \in Nat /\ Processed <= Processed' /\ TypeOK
        /\ UnflushedIds \subseteq HeldIds
        /\ \A i \in Scans : \A n \in Ids(out_queue_[i].samples) : n \in Nat /\ n <= Processed
        /\ \A n \in HeldIds : n \in Nat /\ n <= Processed
    <3>1. TypeOK
      BY DEF TypeInv
    <3>2. \A i \in Scans : out_queue_[i] \in Frame /\ out_queue_[i].type = "Scan"
      BY <3>1 DEF TypeOK, Scans
    <3>3. \A i \in Scans : \A n \in Ids(out_queue_[i].samples) : n \in Nat
      BY <3>2, FrameFields, IdsAreNat DEF Ids
    <3>4. \A n \in HeldIds : n \in Nat
      BY <3>1, IdsAreNat DEF TypeOK, Ids, HeldIds, UnflushedIds
    <3>5. UnflushedIds \subseteq HeldIds
      BY DEF HeldIds
    <3> QED  BY <3>1, <3>3, <3>4, <3>5, ProcessedStep DEF StatusInv, OrderInv
  <2>1. ASSUME NEW f \in Frame, out_queue_' = Append(out_queue_, f),
               f.type = "Wiring" => f.id = Processed + 1,
               f.type = "Scan" => Ids(f.samples) \subseteq HeldIds
        PROVE  StatusInv'
    <3> DEFINE L == Len(out_queue_)
    <3>1. /\ L \in Nat /\ Len(out_queue_') = L + 1
          /\ \A i \in 1..L : out_queue_'[i] = out_queue_[i]
          /\ out_queue_'[L + 1] = f
      BY <2>0, <2>1, FrameOutIndices
    <3>2. \A i \in Scans' : (i \in Scans /\ i \in 1..L) \/ (i = L + 1 /\ f.type = "Scan")
      BY <3>1 DEF Scans
    <3>3. \A j \in Wirings' : (j \in Wirings /\ j \in 1..L) \/ (j = L + 1 /\ f.type = "Wiring")
      BY <3>1 DEF Wirings
    <3>4. ASSUME NEW i \in Scans', NEW n \in Ids(out_queue_'[i].samples)
          PROVE  n \in Nat /\ n <= Processed'
      <4>1. CASE i \in Scans /\ i \in 1..L
        BY <2>0, <3>1, <3>4, <4>1
      <4>2. CASE i = L + 1 /\ f.type = "Scan"
        BY <2>0, <2>1, <3>1, <3>4, <4>2
      <4> QED  BY <3>2, <4>1, <4>2
    <3>5. ASSUME NEW i \in Scans', NEW j \in Wirings', i < j,
                 NEW n \in Ids(out_queue_'[i].samples)
          PROVE  n < out_queue_'[j].id
      <4>0. i \in Scans /\ i \in 1..L
        BY <3>1, <3>2, <3>3, <3>5
      <4>1. CASE j \in Wirings /\ j \in 1..L
        BY <3>1, <3>5, <4>0, <4>1 DEF StatusInv, StatusNotOvertaken
      <4>2. CASE j = L + 1 /\ f.type = "Wiring"
        <5>1. n \in Nat /\ n <= Processed
          BY <2>0, <3>1, <3>5, <4>0
        <5>2. out_queue_'[j].id = Processed + 1
          BY <2>1, <3>1, <4>2
        <5> QED  BY <2>0, <5>1, <5>2
      <4> QED  BY <3>3, <4>1, <4>2
    <3> QED  BY <3>4, <3>5 DEF StatusInv, StatusNotOvertaken, Ids
  <2>2. CASE EmitSegment \/ EmitLastSegment
    <3>1. PICK end \in (start + 1)..(Len(read_stash_) + 1) :
            /\ out_queue_' = Append(out_queue_, FrameFromSamples(SegmentTo(end)))
            /\ Ids(SegmentTo(end)) \subseteq UnflushedIds
      BY <2>2, EmitMovesIds
    <3>2. FrameFromSamples(SegmentTo(end)) \in Frame
      BY <2>0, SegmentType
    <3> QED  BY <2>0, <2>1, <3>1, <3>2, FrameOfStep
  <2>3. CASE EmitAlive
    <3>1. out_queue_' = Append(out_queue_, AliveFrame(barrier)) /\ AliveFrame(barrier) \in Frame
      BY <2>3, OtherFrameTypes DEF EmitAlive, FrameOut, TypeInv, TypeOK
    <3> QED  BY <2>1, <3>1, FrameOfStep
  <2>4. CASE EmitStatus
    <3>1. out_queue_' = Append(out_queue_, WiringFrame(pkt)) /\ WiringFrame(pkt) \in Frame
      BY <2>4, OtherFrameTypes DEF EmitStatus, FrameOut
    <3>2. pkt.id = Processed + 1
      BY <2>4, NoPktAssumption DEF EmitStatus, Packet, QueueInv
    <3> QED  BY <2>1, <3>1, <3>2, FrameOfStep
  <2>5. CASE ProcessFrame
    <3>1. /\ \A i \in 1..Len(out_queue_') :
               i + 1 \in 1..Len(out_queue_) /\ out_queue_'[i] = out_queue_[i + 1]
          /\ \A i, j \in 1..Len(out_queue_') : i < j => i + 1 < j + 1
      BY <2>0, <2>5, ProcessFrameIndices
    <3>2. \A i \in Scans' : i + 1 \in Scans /\ out_queue_'[i] = out_queue_[i + 1]
      BY <3>1 DEF Scans
    <3>3. \A i \in Wirings' : i + 1 \in Wirings /\ out_queue_'[i] = out_queue_[i + 1]
      BY <3>1 DEF Wirings
    <3>4. \A i \in Scans' : \A n \in Ids(out_queue_'[i].samples) : n <= Processed'
      BY <2>0, <3>2
    <3>5. ASSUME NEW i \in Scans', NEW j \in Wirings', i < j,
                 NEW n \in Ids(out_queue_'[i].samples)
          PROVE  n < out_queue_'[j].id
      <4>1. i + 1 < j + 1
        BY <3>1, <3>5 DEF Scans, Wirings
      <4> QED  BY <3>2, <3>3, <3>5, <4>1 DEF StatusInv, StatusNotOvertaken
    <3> QED  BY <3>4, <3>5 DEF StatusInv, StatusNotOvertaken, Ids
  <2>6. CASE UNCHANGED out_queue_
    <3>1. Scans' = Scans /\ Wirings' = Wirings
      BY <2>6 DEF Scans, Wirings
    <3>2. \A i \in Scans' : \A n \in Ids(out_queue_'[i].samples) : n <= Processed'
      BY <2>0, <2>6, <3>1
    <3> QED  BY <2>6, <3>1, <3>2 DEF StatusInv, StatusNotOvertaken, Ids
  <2>7. CASE \/ DataTransmit \/ MetaTransmit \/ PopPacket \/ StashSample \/ DropSample
             \/ SwapStash \/ EnsureGil \/ BeginLoop \/ NextSample
             \/ PythonTakesGil \/ PythonReleasesGil \/ UNCHANGED vars
    BY <2>6, <2>7
       DEF DataTransmit, MetaTransmit, AsyncDatum, PopPacket, StashSample, DropSample,
           SwapStash, EnsureGil, BeginLoop, NextSample, PythonTakesGil, PythonReleasesGil, vars
  <2> QED  BY <2>2, <2>3, <2>4, <2>5, <2>7, StepKinds DEF Bystander
<1> QED  BY <1>1, <1>2, TypeInvariance, QueueInvariance, OrderInvariance, PTL DEF Spec

\* A sample that arrived after a status never leaves before it, although two
\* threads write to the output queue.
THEOREM StatusIsNotOvertaken == Spec => []StatusNotOvertaken
BY StatusInvariance, PTL DEF StatusInv

-----------------------------------------------------------------------------
(* Frames *)

Uniform(f) ==
  f.samples # <<>> /\ \A k \in 1..Len(f.samples) : f.samples[k].nchans = f.nchans

\* The cached number of channels is that of every sample from start to stop.
LoopInv == pc = "loop" => \A i \in start..stop : read_stash_[i].nchans = nchans

\* FlushStash keeps it so where it moves stop alone and where it starts anew.
LEMMA LoopInvariance == Spec => []LoopInv
<1>1. Init => LoopInv
  BY DEF Init, LoopInv
<1>2. TypeInv /\ LoopInv /\ [Next]_vars => LoopInv'
  <2> SUFFICES ASSUME TypeInv, LoopInv, [Next]_vars
               PROVE  LoopInv'
    OBVIOUS
  <2>0. start \in Nat \ {0} /\ stop \in Nat \ {0} /\ start <= stop /\ Len(read_stash_) \in Nat
    BY DEF TypeInv, TypeOK
  <2>1. CASE BeginLoop
    <3>1. /\ start = 1 /\ stop = 1 /\ UNCHANGED <<read_stash_, start, stop>>
          /\ nchans' = read_stash_[1].nchans
      BY <2>1 DEF BeginLoop, TypeInv, FlushControl
    <3> QED  BY <3>1 DEF LoopInv
  <2>2. CASE NextSample
    <3>1. /\ pc = "loop" /\ UNCHANGED <<read_stash_, start, nchans>>
          /\ stop' = stop + 1 /\ read_stash_[stop + 1].nchans = nchans
      BY <2>2 DEF NextSample
    <3>2. \A i \in start..(stop + 1) : i \in start..stop \/ i = stop + 1
      BY <2>0
    <3> QED  BY <3>1, <3>2 DEF LoopInv
  <2>3. CASE EmitSegment
    <3>1. /\ UNCHANGED read_stash_ /\ start' = stop + 1 /\ stop' = stop + 1
          /\ nchans' = read_stash_[stop + 1].nchans
      BY <2>3, EmittingIs
    <3>2. \A i \in (stop + 1)..(stop + 1) : i = stop + 1
      BY <2>0
    <3> QED  BY <3>1, <3>2 DEF LoopInv
  <2>4. CASE pc' # "loop"
    BY <2>4 DEF LoopInv
  <2>5. CASE SwapStash \/ EnsureGil \/ EmitAlive \/ EmitLastSegment
    BY <2>4, <2>5 DEF SwapStash, EnsureGil, EmitAlive, EmitLastSegment, EndLoop
  <2>6. CASE UNCHANGED <<read_stash_, start, stop, nchans, pc>>
    BY <2>6 DEF LoopInv
  <2>7. CASE \/ DataTransmit \/ MetaTransmit \/ EventThread
             \/ PythonTakesGil \/ PythonReleasesGil \/ ProcessFrame \/ UNCHANGED vars
    BY <2>6, <2>7
       DEF DataTransmit, MetaTransmit, AsyncDatum, EventThread, PopPacket, EmitStatus,
           StashSample, DropSample, PythonTakesGil, PythonReleasesGil, ProcessFrame,
           vars, flushVars, loopVars
  <2> QED  BY <2>1, <2>2, <2>3, <2>5, <2>7 DEF Next, FlushStash, Emit
<1> QED  BY <1>1, <1>2, TypeInvariance, PTL DEF Spec

\* The samples up to the end of a segment have the channels of its first one.
LEMMA SegmentIsUniform ==
  ASSUME TypeInv, LoopInv, pc = "loop",
         NEW end \in (start + 1)..(Len(read_stash_) + 1), end = stop + 1
  PROVE  /\ \A i \in start..(end - 1) : read_stash_[i].nchans = read_stash_[start].nchans
         /\ Uniform(FrameFromSamples(SegmentTo(end)))
<1> DEFINE s == SegmentTo(end)
<1>0. /\ start \in Nat \ {0} /\ stop \in Nat /\ start <= stop /\ end - 1 = stop
      /\ Len(read_stash_) \in Nat
  BY DEF TypeInv, TypeOK
<1>1. /\ s # <<>> /\ Len(s) = end - start
      /\ \A i \in 1..(end - start) : s[i] = read_stash_[start + i - 1]
  BY SegmentType DEF TypeInv
<1> HIDE DEF s
<1>5. \A i \in start..(end - 1) : read_stash_[i].nchans = read_stash_[start].nchans
  <2>1. \A i \in start..stop : read_stash_[i].nchans = nchans
    BY DEF LoopInv
  <2>2. start \in start..stop
    BY <1>0
  <2> QED  BY <1>0, <2>1, <2>2
<1>2. \A i \in 1..(end - start) : s[i].nchans = read_stash_[start].nchans
  <2> TAKE i \in 1..(end - start)
  <2>1. start + i - 1 \in start..(end - 1)
    BY <1>0
  <2> QED  BY <1>1, <1>5, <2>1
<1>3. s[1].nchans = read_stash_[start].nchans
  BY <1>0, <1>2
<1>4. FrameFromSamples(s).samples = s /\ FrameFromSamples(s).nchans = s[1].nchans
  BY DEF FrameFromSamples, ScanFrame
<1> QED  BY <1>1, <1>2, <1>3, <1>4, <1>5 DEF Uniform, s

\* Wherever the number of channels changes inside a stash, getData(i) is read
\* for samples that have a channel i.
THEOREM FramesAreUniform == Spec => []UniformFrames
<1>1. Init => UniformFrames
  BY DEF Init, UniformFrames, Scans
<1>2. TypeInv /\ LoopInv /\ UniformFrames /\ [Next]_vars => UniformFrames'
  <2> SUFFICES ASSUME TypeInv, LoopInv, UniformFrames, [Next]_vars
               PROVE  UniformFrames'
    OBVIOUS
  <2>0. TypeOK
    BY DEF TypeInv
  <2>1. ASSUME NEW f \in Frame, out_queue_' = Append(out_queue_, f), f.type = "Scan" => Uniform(f)
        PROVE  UniformFrames'
    <3>1. /\ Len(out_queue_) \in Nat /\ Len(out_queue_') = Len(out_queue_) + 1
          /\ \A i \in 1..Len(out_queue_) : out_queue_'[i] = out_queue_[i]
          /\ out_queue_'[Len(out_queue_) + 1] = f
      BY <2>0, <2>1, FrameOutIndices
    <3>2. \A i \in Scans' : \/ i \in Scans /\ out_queue_'[i] = out_queue_[i]
                            \/ out_queue_'[i] = f /\ f.type = "Scan"
      BY <3>1 DEF Scans
    <3>3. \A i \in Scans' : Uniform(out_queue_'[i])
      BY <2>1, <3>2 DEF UniformFrames, Uniform
    <3> QED  BY <3>3 DEF UniformFrames, Uniform
  <2>2. CASE EmitStatus
    <3>1. /\ pkt \in StatusSample /\ WiringFrame(pkt) \in Frame
          /\ WiringFrame(pkt).type = "Wiring" /\ out_queue_' = Append(out_queue_, WiringFrame(pkt))
      BY <2>2, OtherFrameTypes, FrameOfStep DEF EmitStatus, FrameOut
    <3> QED  BY <2>1, <3>1
  <2>3. CASE EmitAlive
    <3>1. /\ AliveFrame(barrier) \in Frame /\ AliveFrame(barrier).type = "none"
          /\ out_queue_' = Append(out_queue_, AliveFrame(barrier))
      BY <2>0, <2>3, OtherFrameTypes, FrameOfStep DEF EmitAlive, FrameOut, TypeOK
    <3> QED  BY <2>1, <3>1
  <2>4. CASE EmitSegment \/ EmitLastSegment
    <3>1. PICK end \in (start + 1)..(Len(read_stash_) + 1) :
            /\ end = stop + 1 /\ pc = "loop"
            /\ out_queue_' = Append(out_queue_, FrameFromSamples(SegmentTo(end)))
      BY <2>4, FlushedSegment
    <3>2. /\ FrameFromSamples(SegmentTo(end)) \in Frame
          /\ Uniform(FrameFromSamples(SegmentTo(end)))
      BY <2>0, <3>1, SegmentType, SegmentIsUniform
    <3> QED  BY <2>1, <3>1, <3>2
  <2>5. CASE ProcessFrame
    <3>1. \A i \in Scans' : i + 1 \in Scans /\ out_queue_'[i] = out_queue_[i + 1]
      BY <2>0, <2>5, ProcessFrameIndices DEF Scans
    <3> QED  BY <3>1 DEF UniformFrames
  <2>6. CASE UNCHANGED out_queue_
    BY <2>6 DEF UniformFrames, Scans
  <2>7. CASE \/ DataTransmit \/ MetaTransmit \/ PopPacket \/ StashSample \/ DropSample
             \/ SwapStash \/ EnsureGil \/ BeginLoop \/ NextSample
             \/ PythonTakesGil \/ PythonReleasesGil \/ UNCHANGED vars
    BY <2>6, <2>7
       DEF DataTransmit, MetaTransmit, AsyncDatum, PopPacket, StashSample, DropSample,
           SwapStash, EnsureGil, BeginLoop, NextSample, PythonTakesGil, PythonReleasesGil, vars
  <2> QED  BY <2>2, <2>3, <2>4, <2>5, <2>7, StepKinds DEF Bystander
<1> QED  BY <1>1, <1>2, TypeInvariance, LoopInvariance, PTL DEF Spec

-----------------------------------------------------------------------------
(* What a component behind out_queue_ may rely on *)

QueuedIds == UNION {Ids(out_queue_[i].samples) : i \in Scans}
QueuedStatuses == {out_queue_[j].id : j \in Wirings}

\* One more frame adds what it holds.
LEMMA FrameAddsNumbers ==
  ASSUME TypeOK, NEW f \in Frame, out_queue_' = Append(out_queue_, f)
  PROVE  /\ \A n \in QueuedIds' : n \in QueuedIds \/ (f.type = "Scan" /\ n \in Ids(f.samples))
         /\ \A m \in QueuedStatuses' : m \in QueuedStatuses \/ (f.type = "Wiring" /\ m = f.id)
<1> DEFINE L == Len(out_queue_)
<1>1. /\ L \in Nat /\ Len(out_queue_') = L + 1
      /\ \A i \in 1..L : out_queue_'[i] = out_queue_[i]
      /\ out_queue_'[L + 1] = f
  BY FrameOutIndices
<1>2. \A i \in Scans' : (i \in Scans /\ i \in 1..L) \/ (i = L + 1 /\ f.type = "Scan")
  BY <1>1 DEF Scans
<1>3. \A i \in Wirings' : (i \in Wirings /\ i \in 1..L) \/ (i = L + 1 /\ f.type = "Wiring")
  BY <1>1 DEF Wirings
<1>4. QueuedIds' = UNION {Ids(out_queue_'[i].samples) : i \in Scans'}
  BY DEF QueuedIds, Ids
<1>5. ASSUME NEW i \in Scans', NEW n \in Ids(out_queue_'[i].samples)
      PROVE  n \in QueuedIds \/ (f.type = "Scan" /\ n \in Ids(f.samples))
  BY <1>1, <1>2, <1>5 DEF QueuedIds
<1>6. ASSUME NEW i \in Wirings'
      PROVE  \/ out_queue_'[i].id \in QueuedStatuses
             \/ f.type = "Wiring" /\ out_queue_'[i].id = f.id
  BY <1>1, <1>3, <1>6 DEF QueuedStatuses
<1> QED  BY <1>4, <1>5, <1>6 DEF QueuedStatuses

\* Removing a frame adds nothing.
LEMMA ProcessFrameAddsNothing ==
  ASSUME TypeOK, ProcessFrame
  PROVE  QueuedIds' \subseteq QueuedIds /\ QueuedStatuses' \subseteq QueuedStatuses
<1>1. \A i \in 1..Len(out_queue_') :
         i + 1 \in 1..Len(out_queue_) /\ out_queue_'[i] = out_queue_[i + 1]
  BY ProcessFrameIndices
<1>2. \A i \in Scans' : i + 1 \in Scans /\ out_queue_'[i] = out_queue_[i + 1]
  BY <1>1 DEF Scans
<1>3. \A i \in Wirings' : i + 1 \in Wirings /\ out_queue_'[i] = out_queue_[i + 1]
  BY <1>1 DEF Wirings
<1>4. QueuedIds' = UNION {Ids(out_queue_'[i].samples) : i \in Scans'}
  BY DEF QueuedIds, Ids
<1> QED  BY <1>2, <1>3, <1>4 DEF QueuedIds, QueuedStatuses

\* The only new number a step can add to the stashes and the queue is that of
\* the packet it handles.
LEMMA NumbersOfStep ==
  ASSUME TypeInv, QueueInv, OrderInv, [Next]_vars
  PROVE  /\ Processed \in Nat /\ Processed' \in Nat /\ Processed <= Processed'
         /\ \A n \in HeldIds' \cup QueuedIds' :
              n \in HeldIds \cup QueuedIds \/ n = Processed + 1
         /\ \A m \in QueuedStatuses' : m \in QueuedStatuses \/ m = Processed + 1
<1>0. /\ Processed \in Nat /\ Processed' \in Nat /\ Processed <= Processed' /\ TypeOK
      /\ UnflushedIds \subseteq HeldIds
  BY ProcessedStep DEF TypeInv, HeldIds
<1>1. UNCHANGED out_queue_ => QueuedIds' = QueuedIds /\ QueuedStatuses' = QueuedStatuses
  BY DEF QueuedIds, QueuedStatuses, Scans, Wirings, Ids
<1>2. CASE EmitSegment \/ EmitLastSegment
  <2>1. PICK end \in (start + 1)..(Len(read_stash_) + 1) :
          /\ out_queue_' = Append(out_queue_, FrameFromSamples(SegmentTo(end)))
          /\ Ids(SegmentTo(end)) \subseteq UnflushedIds
          /\ HeldIds' \subseteq HeldIds
    BY <1>2, EmitMovesIds
  <2>2. FrameFromSamples(SegmentTo(end)) \in Frame
    BY <1>0, SegmentType
  <2>3. /\ FrameFromSamples(SegmentTo(end)).type = "Scan"
        /\ FrameFromSamples(SegmentTo(end)).samples = SegmentTo(end)
    BY FrameOfStep
  <2> QED  BY <1>0, <2>1, <2>2, <2>3, FrameAddsNumbers
<1>3. CASE EmitAlive
  <2>1. out_queue_' = Append(out_queue_, AliveFrame(barrier)) /\ AliveFrame(barrier) \in Frame
    BY <1>3, OtherFrameTypes DEF EmitAlive, FrameOut, TypeInv, TypeOK
  <2>2. HeldIds' = HeldIds
    BY <1>3, BystanderMovesNothing, SamplesUnmoved DEF Bystander
  <2> QED  BY <1>0, <2>1, <2>2, FrameAddsNumbers, FrameOfStep
<1>4. CASE EmitStatus
  <2>1. out_queue_' = Append(out_queue_, WiringFrame(pkt)) /\ WiringFrame(pkt) \in Frame
    BY <1>4, OtherFrameTypes DEF EmitStatus, FrameOut
  <2>2. pkt.id = Processed + 1
    BY <1>4, NoPktAssumption DEF EmitStatus, Packet, QueueInv
  <2>3. HeldIds' = HeldIds
    BY <1>4, BystanderMovesNothing, SamplesUnmoved DEF Bystander
  <2> QED  BY <1>0, <2>1, <2>2, <2>3, FrameAddsNumbers, FrameOfStep
<1>5. CASE ProcessFrame
  <2>1. HeldIds' = HeldIds
    BY <1>5, BystanderMovesNothing, SamplesUnmoved DEF Bystander
  <2> QED  BY <1>0, <1>5, <2>1, ProcessFrameAddsNothing
<1>6. CASE StashSample
  <2>1. pkt.id = Processed + 1 /\ HeldIds' = HeldIds \cup {pkt.id}
    BY <1>6, StashAddsId
  <2>2. UNCHANGED out_queue_
    BY <1>6 DEF StashSample
  <2> QED  BY <1>0, <1>1, <2>1, <2>2
<1>7. CASE SwapStash
  <2>1. HeldIds' = HeldIds /\ UNCHANGED out_queue_
    BY <1>7, SwapKeepsIds DEF SwapStash
  <2> QED  BY <1>0, <1>1, <2>1
<1>8. CASE \/ DataTransmit \/ MetaTransmit \/ PopPacket \/ DropSample
           \/ EnsureGil \/ BeginLoop \/ NextSample
           \/ PythonTakesGil \/ PythonReleasesGil \/ UNCHANGED vars
  <2>1. HeldIds' = HeldIds
    BY <1>8, BystanderMovesNothing, SamplesUnmoved DEF Bystander
  <2>2. UNCHANGED out_queue_
    BY <1>8 DEF DataTransmit, MetaTransmit, AsyncDatum, PopPacket, DropSample, EnsureGil,
                BeginLoop, NextSample, PythonTakesGil, PythonReleasesGil, vars
  <2> QED  BY <1>0, <1>1, <2>1, <2>2
<1> QED  BY <1>2, <1>3, <1>4, <1>5, <1>6, <1>7, <1>8, StepKinds DEF Bystander

\* What the oldest frame tells about the frames that follow it.
LEMMA HeadFrame ==
  ASSUME TypeInv, BarrierInv, StatusInv, ProcessFrame, NEW f, f = Head(out_queue_)
  PROVE  /\ f.type = "Scan" => \A n \in Ids(f.samples) :
              /\ n \in Nat /\ n <= Processed /\ n \in QueuedIds
              /\ \A m \in QueuedStatuses' : n < m
         /\ f.type = "Wiring" => f.id \in Nat /\ f.id \in QueuedStatuses
         /\ f.type = "none" =>
              /\ f.upto \in Nat /\ f.upto <= Processed
              /\ \A n \in HeldIds' \cup QueuedIds' : n > f.upto
<1>0. TypeOK /\ out_queue_ # <<>> /\ out_queue_ \in Seq(Frame)
  BY DEF TypeInv, TypeOK, ProcessFrame
<1>1. f = out_queue_[1] /\ f \in Frame /\ 1 \in 1..Len(out_queue_)
  BY <1>0
<1>2. \A i \in 1..Len(out_queue_') :
         i + 1 \in 1..Len(out_queue_) /\ i + 1 > 1 /\ out_queue_'[i] = out_queue_[i + 1]
  BY <1>0, ProcessFrameIndices
<1>3. \A i \in Scans' : i + 1 \in Scans /\ i + 1 > 1 /\ out_queue_'[i] = out_queue_[i + 1]
  BY <1>2 DEF Scans
<1>4. \A i \in Wirings' : i + 1 \in Wirings /\ 1 < i + 1 /\ out_queue_'[i] = out_queue_[i + 1]
  BY <1>2 DEF Wirings
<1>5. HeldIds' = HeldIds
  BY BystanderMovesNothing, SamplesUnmoved DEF Bystander
<1>6. ASSUME f.type = "Scan", NEW n \in Ids(f.samples)
      PROVE  /\ n \in Nat /\ n <= Processed /\ n \in QueuedIds
             /\ \A m \in QueuedStatuses' : n < m
  <2>1. 1 \in Scans /\ f.samples \in Seq(SmurfSample)
    BY <1>1, <1>6, FrameFields DEF Scans
  <2>2. n \in Nat
    BY <1>6, <2>1, IdsAreNat DEF Ids
  <2>3. n <= Processed /\ n \in QueuedIds
    BY <1>1, <1>6, <2>1 DEF StatusInv, QueuedIds
  <2>4. \A j \in Wirings' : n < out_queue_'[j].id
    BY <1>1, <1>4, <1>6, <2>1 DEF StatusInv, StatusNotOvertaken
  <2> QED  BY <2>2, <2>3, <2>4 DEF QueuedStatuses
<1>7. f.type = "Wiring" => f.id \in Nat /\ f.id \in QueuedStatuses
  BY <1>1, FrameFields DEF QueuedStatuses, Wirings
<1>8. ASSUME f.type = "none"
      PROVE  /\ f.upto \in Nat /\ f.upto <= Processed
             /\ \A n \in HeldIds' \cup QueuedIds' : n > f.upto
  <2>1. 1 \in Alives /\ f.upto \in Nat
    BY <1>1, <1>8, FrameFields DEF Alives
  <2>2. barrier \in Nat /\ Processed \in Nat
    BY ProcessedType DEF TypeInv, TypeOK
  <2>3. f.upto <= Processed
    BY <1>1, <2>1, <2>2 DEF BarrierInv
  <2>4. \A n \in HeldIds' : n > f.upto
    BY <1>1, <1>5, <2>1 DEF BarrierInv, AliveIsBarrier
  <2>5. \A i \in Scans' : \A n \in Ids(out_queue_'[i].samples) : n > f.upto
    BY <1>1, <1>3, <2>1 DEF BarrierInv, AliveIsBarrier
  <2>6. QueuedIds' = UNION {Ids(out_queue_'[i].samples) : i \in Scans'}
    BY DEF QueuedIds, Ids
  <2> QED  BY <2>1, <2>3, <2>4, <2>5, <2>6
<1> QED  BY <1>6, <1>7, <1>8

-----------------------------------------------------------------------------
(* The channels in a stash *)

\* Steps of Weight's fold: each sample adds its channels.
AddChannels(s) == [i \in 1..Len(s) |-> [v \in Nat |-> v + s[i].nchans]]
WeightFold(g, s) ==
  g = [t \in SUBSET DOMAIN s |->
         IF t = {} THEN 0 ELSE g[t \ {Max(t)}] + s[Max(t)].nchans]
WeightRuns(acc, s) == Runs(acc, Len(s), Nat, 0, AddChannels(s))

\* Weight as the function that its fold chooses.
LEMMA WeightChoice ==
  ASSUME NEW s
  PROVE  Weight(s) = (CHOOSE g : WeightFold(g, s))[DOMAIN s]
BY DEF Weight, FoldLeft, MapThenFoldSet, WeightFold

\* The steps stay among the naturals.
LEMMA ChannelSteps ==
  ASSUME NEW s \in Seq(SmurfSample)
  PROVE  /\ AddChannels(s) \in [1..Len(s) -> [Nat -> Nat]]
         /\ \A i \in 1..Len(s) : s[i].nchans \in Nat
<1>1. \A i \in 1..Len(s) : s[i] \in SmurfSample
  OBVIOUS
<1>2. \A i \in 1..Len(s) : s[i].nchans \in Nat
  BY <1>1, ChannelsAssumption DEF SmurfSample
<1> QED  BY <1>2 DEF AddChannels

\* The weight is what a run over the samples ends with.
LEMMA WeightRun ==
  ASSUME NEW s \in Seq(SmurfSample)
  PROVE  \E acc \in [0..Len(s) -> Nat] : WeightRuns(acc, s) /\ Weight(s) = acc[Len(s)]
<1> DEFINE n == Len(s)
<1>0. n \in Nat /\ DOMAIN s = 1..n
  OBVIOUS
<1>1. PICK g1 \in [SUBSET (1..n) -> Nat] : RunsOnSets(g1, n, Nat, 0, AddChannels(s))
  BY <1>0, ChannelSteps, FoldExists
<1>2. ASSUME NEW t \in SUBSET (1..n), t # {}
      PROVE  Max(t) \in 1..n /\ t \ {Max(t)} \in SUBSET (1..n)
  BY <1>0, <1>2, MaxExists
<1>3. WeightFold(g1, s)
  <2>1. ASSUME NEW t \in SUBSET (1..n), t # {}
        PROVE  g1[t] = g1[t \ {Max(t)}] + s[Max(t)].nchans
    <3>1. g1[t \ {Max(t)}] \in Nat
      BY <1>2, <2>1
    <3>2. g1[t] = AddChannels(s)[Max(t)][g1[t \ {Max(t)}]]
      BY <1>1, <2>1, <3>1 DEF RunsOnSets
    <3> QED  BY <1>2, <2>1, <3>1, <3>2 DEF AddChannels
  <2>2. g1[{}] = 0
    BY <1>1 DEF RunsOnSets
  <2> QED  BY <1>0, <2>1, <2>2 DEF WeightFold
<1> DEFINE g == CHOOSE f : WeightFold(f, s)
<1>4. WeightFold(g, s)
  BY <1>3
<1>5. Weight(s) = g[1..n]
  BY <1>0, WeightChoice
<1> HIDE DEF g
<1>6. RunsOnSets(g, n, Nat, 0, AddChannels(s))
  <2>1. g[{}] = 0
    BY <1>0, <1>4 DEF WeightFold
  <2>2. ASSUME NEW t \in SUBSET (1..n), t # {}, g[t \ {Max(t)}] \in Nat
        PROVE  g[t] = AddChannels(s)[Max(t)][g[t \ {Max(t)}]]
    <3>1. g[t] = g[t \ {Max(t)}] + s[Max(t)].nchans
      BY <1>0, <1>4, <2>2 DEF WeightFold
    <3> QED  BY <1>2, <2>2, <3>1 DEF AddChannels
  <2> QED  BY <2>1, <2>2 DEF RunsOnSets
<1>7. Result(Weight(s), n, Nat, 0, AddChannels(s))
  <2>1. \A i \in 1..n : AddChannels(s)[i] \in [Nat -> Nat]
    BY ChannelSteps
  <2>2. n \in Nat /\ 0 \in Nat
    BY <1>0
  <2>3. Result(g[1..n], n, Nat, 0, AddChannels(s))
    <3> HIDE DEF n
    <3> QED  BY <1>6, <2>1, <2>2, FoldRuns
  <2> QED  BY <1>5, <2>3
<1> QED  BY <1>7 DEF Result, WeightRuns

\* A run that adds channels does so at each step.
LEMMA WeightStep ==
  ASSUME NEW s \in Seq(SmurfSample), NEW acc \in [0..Len(s) -> Nat], WeightRuns(acc, s)
  PROVE  acc[0] = 0 /\ \A i \in 1..Len(s) : acc[i] = acc[i - 1] + s[i].nchans
<1>1. acc[0] = 0 /\ Len(s) \in Nat
  BY DEF WeightRuns, Runs
<1>2. ASSUME NEW i \in 1..Len(s)  PROVE acc[i] = acc[i - 1] + s[i].nchans
  <2>1. acc[i - 1] \in Nat
    BY <1>1
  <2>2. acc[i] = AddChannels(s)[i][acc[i - 1]]
    BY <2>1 DEF WeightRuns, Runs
  <2> QED  BY <2>1, <2>2 DEF AddChannels
<1> QED  BY <1>1, <1>2

\* Weights of two sequences add up.
LEMMA WeightConcat ==
  ASSUME NEW s \in Seq(SmurfSample), NEW t \in Seq(SmurfSample)
  PROVE  Weight(s \o t) = Weight(s) + Weight(t) /\ Weight(s) \in Nat /\ Weight(t) \in Nat
<1> DEFINE u == s \o t
<1>0. /\ u \in Seq(SmurfSample) /\ Len(u) = Len(s) + Len(t)
      /\ Len(s) \in Nat /\ Len(t) \in Nat
      /\ \A i \in 1..Len(s) : u[i] = s[i]
      /\ \A i \in 1..Len(t) : u[Len(s) + i] = t[i]
  OBVIOUS
<1> HIDE DEF u
<1>1. PICK a \in [0..Len(s) -> Nat] : WeightRuns(a, s) /\ Weight(s) = a[Len(s)]
  BY WeightRun
<1>2. PICK b \in [0..Len(t) -> Nat] : WeightRuns(b, t) /\ Weight(t) = b[Len(t)]
  BY WeightRun
<1>3. PICK c \in [0..Len(u) -> Nat] : WeightRuns(c, u) /\ Weight(u) = c[Len(u)]
  BY <1>0, WeightRun
<1>4. /\ a[0] = 0 /\ \A i \in 1..Len(s) : a[i] = a[i - 1] + s[i].nchans
      /\ b[0] = 0 /\ \A i \in 1..Len(t) : b[i] = b[i - 1] + t[i].nchans
      /\ c[0] = 0 /\ \A i \in 1..Len(u) : c[i] = c[i - 1] + u[i].nchans
  BY <1>0, <1>1, <1>2, <1>3, WeightStep
<1>5. c[Len(s)] = a[Len(s)]
  <2> DEFINE S == {m \in Nat : m <= Len(s) => c[m] = a[m]}
  <2>1. 0 \in S
    BY <1>4
  <2>2. ASSUME NEW m \in S, m + 1 <= Len(s)  PROVE c[m + 1] = a[m + 1]
    <3>1. m + 1 \in 1..Len(s) /\ m + 1 \in 1..Len(u) /\ (m + 1) - 1 = m /\ c[m] = a[m]
      BY <1>0, <2>2
    <3>2. a[m + 1] = a[m] + s[m + 1].nchans /\ c[m + 1] = c[m] + u[m + 1].nchans
      BY <1>4, <3>1
    <3>3. u[m + 1] = s[m + 1]
      BY <1>0, <3>1
    <3> QED  BY <3>1, <3>2, <3>3
  <2>3. \A m \in S : m + 1 \in S
    BY <2>2
  <2> HIDE DEF S
  <2>4. Len(s) \in S
    <3>1. S \in SUBSET Nat
      BY DEF S
    <3> QED  BY <1>0, <2>1, <2>3, <3>1, InductiveSet
  <2> QED  BY <1>0, <2>4 DEF S
<1>6. c[Len(s) + Len(t)] = a[Len(s)] + b[Len(t)]
  <2> DEFINE S == {m \in Nat : m <= Len(t) => c[Len(s) + m] = a[Len(s)] + b[m]}
  <2>1. 0 \in S
    <3>1. Len(s) \in 0..Len(s) /\ Len(s) + 0 = Len(s)
      BY <1>0
    <3>2. a[Len(s)] \in Nat
      BY <3>1
    <3>3. c[Len(s) + 0] = a[Len(s)] + b[0]
      BY <1>4, <1>5, <3>1, <3>2
    <3> QED  BY <3>3
  <2>2. ASSUME NEW m \in Nat, m + 1 <= Len(t), c[Len(s) + m] = a[Len(s)] + b[m]
        PROVE  c[Len(s) + (m + 1)] = a[Len(s)] + b[m + 1]
    <3> DEFINE k == Len(s) + (m + 1)
    <3>1. /\ m + 1 \in 1..Len(t) /\ k \in 1..Len(u) /\ (m + 1) - 1 = m
          /\ k - 1 = Len(s) + m /\ k = Len(s) + (m + 1)
      BY <1>0, <2>2
    <3> HIDE DEF k
    <3>2. c[k] = c[k - 1] + u[k].nchans /\ u[k] = t[m + 1]
      BY <1>0, <1>4, <3>1
    <3>3. b[m + 1] = b[m] + t[m + 1].nchans
      BY <1>4, <3>1
    <3>4. t[m + 1].nchans \in Nat /\ a[Len(s)] \in Nat /\ b[m] \in Nat
      <4>1. Len(s) \in 0..Len(s) /\ m \in 0..Len(t)
        BY <1>0, <3>1
      <4> QED  BY <3>1, <4>1, ChannelSteps
    <3> QED  BY <2>2, <3>1, <3>2, <3>3, <3>4
  <2>3. ASSUME NEW m \in S  PROVE m + 1 \in S
    <3>1. m \in Nat /\ m + 1 \in Nat /\ (m + 1 <= Len(t) => m <= Len(t))
      BY <1>0
    <3>2. m + 1 <= Len(t) => c[Len(s) + m] = a[Len(s)] + b[m]
      BY <3>1
    <3>3. m + 1 <= Len(t) => c[Len(s) + (m + 1)] = a[Len(s)] + b[m + 1]
      BY <2>2, <3>1, <3>2
    <3> QED  BY <3>1, <3>3
  <2> HIDE DEF S
  <2>4. Len(t) \in S
    <3>1. S \in SUBSET Nat
      BY DEF S
    <3> QED  BY <1>0, <2>1, <2>3, <3>1, InductiveSet
  <2> QED  BY <1>0, <2>4 DEF S
<1> QED  BY <1>0, <1>1, <1>2, <1>3, <1>6 DEF u

\* Nothing weighs nothing.
LEMMA WeightEmpty == Weight(<<>>) = 0
<1>1. <<>> \in Seq(SmurfSample) /\ Len(<<>>) = 0
  OBVIOUS
<1>2. PICK acc \in [0..Len(<<>>) -> Nat] :
        WeightRuns(acc, <<>>) /\ Weight(<<>>) = acc[Len(<<>>)]
  BY <1>1, WeightRun
<1> QED  BY <1>1, <1>2 DEF WeightRuns, Runs

\* One more sample adds its channels.
LEMMA WeightAppend ==
  ASSUME NEW s \in Seq(SmurfSample), NEW p \in SmurfSample
  PROVE  /\ Weight(Append(s, p)) = Weight(s) + p.nchans
         /\ Weight(s) \in Nat /\ p.nchans \in Nat
<1> DEFINE t == <<p>>
<1>1. t \in Seq(SmurfSample) /\ Len(t) = 1 /\ t[1] = p
  OBVIOUS
<1>2. Append(s, p) = s \o t
  BY AppendIsConcat
<1> HIDE DEF t
<1>3. PICK acc \in [0..Len(t) -> Nat] : WeightRuns(acc, t) /\ Weight(t) = acc[Len(t)]
  BY <1>1, WeightRun
<1>4. Weight(t) = p.nchans /\ p.nchans \in Nat
  <2>1. acc[0] = 0 /\ \A i \in 1..Len(t) : acc[i] = acc[i - 1] + t[i].nchans
    BY <1>1, <1>3, WeightStep
  <2>2. t[1].nchans \in Nat
    BY <1>1, ChannelSteps
  <2>3. acc[1] = acc[0] + t[1].nchans
    BY <1>1, <2>1
  <2> QED  BY <1>1, <1>3, <2>1, <2>2, <2>3
<1> QED  BY <1>1, <1>2, <1>4, WeightConcat

\* What is left of a sequence is no heavier than the whole.
LEMMA WeightOfRest ==
  ASSUME NEW s \in Seq(SmurfSample), NEW k \in 1..(Len(s) + 1)
  PROVE  /\ SubSeq(s, k, Len(s)) \in Seq(SmurfSample)
         /\ Weight(SubSeq(s, k, Len(s))) <= Weight(s)
<1>1. /\ SubSeq(s, 1, k - 1) \in Seq(SmurfSample)
      /\ SubSeq(s, k, Len(s)) \in Seq(SmurfSample)
  OBVIOUS
<1>2. s = SubSeq(s, 1, k - 1) \o SubSeq(s, k, Len(s))
  <2>1. /\ Len(s) \in Nat /\ k - 1 \in 0..Len(s) /\ (k - 1) + 1 = k
        /\ 1 \in 1..(Len(s) + 1) /\ Len(s) \in (k - 1)..Len(s) /\ k - 1 \in (1 - 1)..Len(s)
    OBVIOUS
  <2>2. SubSeq(s, 1, k - 1) \o SubSeq(s, (k - 1) + 1, Len(s)) = SubSeq(s, 1, Len(s))
    BY <2>1, ConcatAdjacentSubSeq
  <2> QED  BY <2>1, <2>2, SubSeqFull
<1>3. Weight(s) = Weight(SubSeq(s, 1, k - 1)) + Weight(SubSeq(s, k, Len(s)))
  BY <1>1, <1>2, WeightConcat
<1>4. Weight(SubSeq(s, 1, k - 1)) \in Nat /\ Weight(SubSeq(s, k, Len(s))) \in Nat
  BY <1>1, WeightConcat
<1> QED  BY <1>1, <1>3, <1>4

-----------------------------------------------------------------------------
(* queue_size_ counts the write stash *)

\* Before the first swap queue_size_ started as garbage and counts too much;
\* afterwards it is exact.  A stash overshoots the limit by less than a sample.
Most == Max(NumberChannels)
LoadInv ==
  /\ Weight(write_stash_) <= queue_size_
  /\ QueueSizeExact
  /\ Weight(write_stash_) < MaxQueueSize + Most
  /\ Weight(read_stash_) < MaxQueueSize + Most

\* The header's field bounds the channels of a sample.
LEMMA MostChannels == Most \in Nat \ {0} /\ \A n \in NumberChannels : n <= Most
<1>1. PICK most \in NumberChannels : \A n \in NumberChannels : n <= most
  BY ChannelsAssumption
<1>2. Max(NumberChannels) = most
  BY <1>1, ChannelsAssumption, MaxIs
<1> QED  BY <1>1, <1>2, ChannelsAssumption DEF Most

\* The load is invariant.
LEMMA LoadInvariance == Spec => []LoadInv
<1>1. Init => LoadInv
  BY WeightEmpty, MostChannels, QueueSizeAssumption DEF Init, LoadInv, QueueSizeExact
<1>2. TypeInv /\ TypeInv' /\ LoadInv /\ [Next]_vars => LoadInv'
  <2> SUFFICES ASSUME TypeInv, TypeInv', LoadInv, [Next]_vars  PROVE LoadInv'
    OBVIOUS
  <2>0. /\ write_stash_ \in Seq(SmurfSample) /\ queue_size_ \in Nat
        /\ Weight(write_stash_) \in Nat
    BY WeightConcat DEF TypeInv, TypeOK
  <2>1. CASE StashSample
    <3>1. /\ pkt \in SmurfSample /\ queue_size_ < MaxQueueSize
          /\ write_stash_' = Append(write_stash_, pkt)
          /\ queue_size_' = queue_size_ + pkt.nchans
          /\ pc' = pc /\ read_stash_' = read_stash_
      BY <2>1 DEF StashSample, HasRoom, SizeWith, flushVars, loopVars
    <3>2. /\ Weight(write_stash_') = Weight(write_stash_) + pkt.nchans
          /\ pkt.nchans \in Nat /\ pkt.nchans <= Most
      BY <2>0, <3>1, WeightAppend, MostChannels DEF SmurfSample
    <3> QED
      BY <2>0, <3>1, <3>2, MostChannels, QueueSizeAssumption DEF LoadInv, QueueSizeExact
  <2>2. CASE SwapStash
    <3>1. /\ read_stash_ = <<>> /\ write_stash_' = read_stash_ /\ read_stash_' = write_stash_
          /\ queue_size_' = 0
      BY <2>2 DEF SwapStash, SizeAfterSwap, TypeInv, FlushControl
    <3> QED
      BY <2>0, <3>1, WeightEmpty, MostChannels, QueueSizeAssumption DEF LoadInv, QueueSizeExact
  <2>3. CASE EmitLastSegment
    <3>1. /\ UNCHANGED <<write_stash_, queue_size_>> /\ read_stash_' = <<>>
          /\ pc # "thread_start"
      BY <2>3, EmittingIs DEF stashVars
    <3> QED
      BY <3>1, WeightEmpty, MostChannels, QueueSizeAssumption DEF LoadInv, QueueSizeExact
  <2>4. CASE EmitSegment
    BY <2>4 DEF EmitSegment, stashVars, LoadInv, QueueSizeExact
  <2>5. CASE Bystander
    <3>1. /\ UNCHANGED <<write_stash_, queue_size_, read_stash_>>
          /\ (pc' # "thread_start") = (pc # "thread_start")
      BY <2>5 DEF Bystander, DataTransmit, MetaTransmit, AsyncDatum, PopPacket, EmitStatus,
         DropSample, EnsureGil, EmitAlive, BeginLoop, NextSample, PythonTakesGil, PythonReleasesGil,
         ProcessFrame, vars, stashVars, flushVars, loopVars
    <3> QED  BY <3>1 DEF LoadInv, QueueSizeExact
  <2> QED  BY <2>1, <2>2, <2>3, <2>4, <2>5, StepKinds
<1> QED  BY <1>1, <1>2, TypeInvariance, PTL DEF Spec

\* Since swap and reset are one critical section, queue_size_ is exact after the
\* first of them.
THEOREM QueueSizeIsExact == Spec => []QueueSizeExact
<1>1. LoadInv => QueueSizeExact
  BY DEF LoadInv
<1> QED  BY <1>1, LoadInvariance, PTL

-----------------------------------------------------------------------------
(* The builder implements the channel *)

\* What is left of one sequence, and another one behind it.
RestAnd(r, k, w) == SubSeq(r, k, Len(r)) \o w
Pending == RestAnd(read_stash_, start, write_stash_)

\* It is the remaining elements, then those of the other sequence,
LEMMA RestAndIs ==
  ASSUME NEW r \in Seq(SmurfSample), NEW k \in 1..(Len(r) + 1), NEW w \in Seq(SmurfSample)
  PROVE  /\ RestAnd(r, k, w) \in Seq(SmurfSample)
         /\ Len(RestAnd(r, k, w)) = (Len(r) + 1 - k) + Len(w)
         /\ \A i \in 1..(Len(r) + 1 - k) : RestAnd(r, k, w)[i] = r[k + i - 1]
         /\ \A i \in 1..Len(w) : RestAnd(r, k, w)[(Len(r) + 1 - k) + i] = w[i]
<1> DEFINE rest == SubSeq(r, k, Len(r))
           n == Len(r) + 1 - k
<1>1. rest \in Seq(SmurfSample) /\ Len(rest) = n /\ n \in Nat /\ Len(w) \in Nat
  OBVIOUS
<1>2. \A i \in 1..n : rest[i] = r[k + i - 1]
  OBVIOUS
<1> HIDE DEF rest, n
<1>3. /\ rest \o w \in Seq(SmurfSample) /\ Len(rest \o w) = n + Len(w)
      /\ \A i \in 1..n : (rest \o w)[i] = rest[i]
      /\ \A i \in 1..Len(w) : (rest \o w)[n + i] = w[i]
  BY <1>1
<1>4. RestAnd(r, k, w) = rest \o w
  BY DEF RestAnd, rest
<1> QED  BY <1>2, <1>3, <1>4 DEF n

\* grows where the other sequence grows,
LEMMA RestAndAppend ==
  ASSUME NEW r \in Seq(SmurfSample), NEW k \in 1..(Len(r) + 1), NEW w \in Seq(SmurfSample),
         NEW p \in SmurfSample
  PROVE  RestAnd(r, k, Append(w, p)) = Append(RestAnd(r, k, w), p)
<1> DEFINE rest == SubSeq(r, k, Len(r))
<1>1. rest \in Seq(SmurfSample) /\ <<p>> \in Seq(SmurfSample) /\ rest \o w \in Seq(SmurfSample)
  OBVIOUS
<1> HIDE DEF rest
<1>2. rest \o Append(w, p) = rest \o (w \o <<p>>)
  BY AppendIsConcat
<1>3. rest \o (w \o <<p>>) = (rest \o w) \o <<p>>
  BY <1>1, ConcatAssociative
<1>4. (rest \o w) \o <<p>> = Append(rest \o w, p)
  BY <1>1, AppendIsConcat
<1> QED  BY <1>2, <1>3, <1>4 DEF RestAnd, rest

\* and is the other sequence when one of the two is empty.
LEMMA RestAndEmpty ==
  ASSUME NEW w \in Seq(SmurfSample)
  PROVE  RestAnd(<<>>, 1, w) = w /\ RestAnd(w, 1, <<>>) = w
<1>1. SubSeq(<<>>, 1, Len(<<>>)) = <<>> /\ SubSeq(w, 1, Len(w)) = w
  BY SubSeqFull
<1> QED  BY <1>1, ConcatEmptySeq DEF RestAnd

\* A sequence without its first n elements.
LEMMA TailOfSeq ==
  ASSUME NEW V, NEW q \in Seq(V), NEW n \in Nat, n <= Len(q)
  PROVE  /\ SubSeq(q, n + 1, Len(q)) \in Seq(V)
         /\ Len(SubSeq(q, n + 1, Len(q))) = Len(q) - n
         /\ \A i \in 1..(Len(q) - n) : SubSeq(q, n + 1, Len(q))[i] = q[n + i]
<1>1. Len(q) \in Nat
  OBVIOUS
<1>2. \A i \in (n + 1)..Len(q) : q[i] \in V
  OBVIOUS
<1> DEFINE t == SubSeq(q, n + 1, Len(q))
<1>3. t \in Seq(V) /\ Len(t) = Len(q) - n
  BY <1>1, <1>2
<1>4. ASSUME NEW i \in 1..(Len(q) - n)  PROVE t[i] = q[n + i]
  BY <1>1
<1> QED  BY <1>3, <1>4

\* The stashes between which the samples wait.
LEMMA StashTypes ==
  ASSUME TypeInv
  PROVE  /\ read_stash_ \in Seq(SmurfSample) /\ write_stash_ \in Seq(SmurfSample)
         /\ start \in 1..(Len(read_stash_) + 1)
         /\ Len(read_stash_) \in Nat /\ Len(write_stash_) \in Nat
         /\ queue_size_ \in Nat
BY DEF TypeInv, TypeOK, FlushControl

\* What waits weighs less than two full stashes.
LEMMA PendingWeight ==
  ASSUME TypeInv, LoadInv
  PROVE  /\ Weight(Pending) \in Nat /\ Weight(write_stash_) \in Nat
         /\ Weight(write_stash_) <= Weight(Pending)
         /\ Weight(Pending) < MaxQueueSize + Most + Weight(write_stash_)
<1> DEFINE rest == SubSeq(read_stash_, start, Len(read_stash_))
<1>1. rest \in Seq(SmurfSample) /\ Weight(rest) <= Weight(read_stash_)
  BY StashTypes, WeightOfRest
<1>2. Weight(read_stash_) \in Nat
  BY StashTypes, WeightConcat
<1>3. Pending = rest \o write_stash_
  BY DEF Pending, RestAnd
<1> HIDE DEF rest
<1>4. /\ Weight(Pending) = Weight(rest) + Weight(write_stash_)
      /\ Weight(rest) \in Nat /\ Weight(write_stash_) \in Nat
  BY <1>1, <1>3, StashTypes, WeightConcat
<1> QED  BY <1>1, <1>2, <1>4, MostChannels, QueueSizeAssumption DEF LoadInv

\* The channel counts as the builder does.
LEMMA SameLoad == \A s : Channel!Load(s) = Weight(s)
BY DEF Channel!Load, Channel!FoldLeft, Channel!MapThenFoldSet, Channel!Max,
       Weight, FoldLeft, MapThenFoldSet, Max

\* The builder starts as an empty channel that is not ready.
LEMMA ChannelInit == Init => Channel!Init
<1> SUFFICES ASSUME Init  PROVE Channel!Init
  OBVIOUS
<1>1. Pending = <<>>
  <2>1. read_stash_ = <<>> /\ write_stash_ = <<>> /\ start = 1
    BY DEF Init
  <2>2. <<>> \in Seq(SmurfSample)
    OBVIOUS
  <2>3. RestAnd(<<>>, 1, <<>>) = <<>>
    BY <2>2, RestAndEmpty
  <2> QED  BY <2>1, <2>3 DEF Pending
<1> QED  BY <1>1 DEF Init, Channel!Init, Pending, RestAnd

\* A stashed sample is accepted.
LEMMA AcceptStep ==
  ASSUME TypeInv, LoadInv, StashSample
  PROVE  Channel!Accept
<1>1. /\ pkt \in SmurfSample /\ queue_size_ < MaxQueueSize
      /\ write_stash_' = Append(write_stash_, pkt)
      /\ UNCHANGED <<read_stash_, start, pc, emitted, dropped_frames_>>
  BY DEF StashSample, HasRoom, flushVars, loopVars
<1>2. Pending' = Append(Pending, pkt)
  BY <1>1, StashTypes, RestAndAppend DEF Pending
<1>3. Pending \in Seq(SmurfSample)
  BY StashTypes, RestAndIs DEF Pending
<1>4. /\ Len(Pending') = Len(Pending) + 1
      /\ SubSeq(Pending', 1, Len(Pending)) = Pending
      /\ Pending'[Len(Pending')] = pkt
  BY <1>1, <1>2, <1>3
<1>5. Weight(Pending) < 2 * MaxQueueSize + Most
  BY <1>1, StashTypes, PendingWeight, MostChannels, QueueSizeAssumption DEF LoadInv
<1>6. (pc # "thread_start")' = (pc # "thread_start")
  BY <1>1
<1> QED
  BY <1>1, <1>4, <1>5, <1>6, SameLoad
     DEF Channel!Accept, Channel!Last, Pending, RestAnd, Most

\* A dropped sample is refused: after the first swap only by a full stash.
LEMMA RefuseStep ==
  ASSUME TypeInv, LoadInv, DropSample
  PROVE  Channel!Refuse
<1>1. /\ queue_size_ >= MaxQueueSize /\ dropped_frames_' = dropped_frames_ + 1
      /\ UNCHANGED <<read_stash_, write_stash_, start, pc, emitted>>
  BY StashTypes, QueueSizeAssumption DEF DropSample, HasRoom, flushVars, loopVars
<1>2. pc # "thread_start" => Weight(Pending) >= MaxQueueSize
  BY <1>1, StashTypes, PendingWeight, QueueSizeAssumption DEF LoadInv, QueueSizeExact
<1>3. Pending' = Pending
  BY <1>1 DEF Pending
<1> QED  BY <1>1, <1>2, <1>3, SameLoad DEF Channel!Refuse, Pending, RestAnd

\* The first swap starts the channel, the others go unnoticed.
LEMMA StartStep ==
  ASSUME TypeInv, SwapStash
  PROVE  Channel!Start \/ UNCHANGED Channel!vars
<1>1. /\ read_stash_ = <<>> /\ start = 1
      /\ read_stash_' = write_stash_ /\ write_stash_' = <<>> /\ start' = 1
      /\ UNCHANGED <<emitted, dropped_frames_>> /\ pc' = "wait_gil"
  BY DEF SwapStash, TypeInv, FlushControl, loopVars
<1>2. Pending = write_stash_ /\ Pending' = write_stash_
  BY <1>1, StashTypes, RestAndEmpty DEF Pending
<1>3. CASE pc = "thread_start"
  BY <1>1, <1>2, <1>3 DEF Channel!Start, Pending, RestAnd
<1>4. CASE pc # "thread_start"
  BY <1>1, <1>2, <1>4 DEF Channel!vars, Pending, RestAnd
<1> QED  BY <1>3, <1>4

\* A frame delivers the samples of its segment.
LEMMA DeliverStep ==
  ASSUME TypeInv, LoopInv, EmitSegment \/ EmitLastSegment
  PROVE  Channel!Deliver
<1>1. PICK end \in (start + 1)..(Len(read_stash_) + 1) :
        /\ end = stop + 1 /\ pc = "loop"
        /\ emitted' = emitted \o SegmentTo(end)
        /\ \/ end <= Len(read_stash_) /\ read_stash_' = read_stash_ /\ start' = end
           \/ end = Len(read_stash_) + 1 /\ read_stash_' = <<>> /\ start' = 1
  BY FlushedSegment
<1>2. /\ write_stash_' = write_stash_ /\ dropped_frames_' = dropped_frames_
      /\ (pc # "thread_start")' = (pc # "thread_start")
  <2>1. pc = "loop" /\ (pc' = pc \/ pc' = "sleep") /\ UNCHANGED stashVars
    BY EmittingIs
  <2> QED  BY <2>1 DEF stashVars
<1> DEFINE n == end - start
           L == Len(read_stash_)
           W == Len(write_stash_)
<1>3. /\ L \in Nat /\ W \in Nat /\ start \in Nat \ {0} /\ end \in Nat
      /\ n \in Nat \ {0} /\ end <= L + 1 /\ n <= L + 1 - start /\ end = start + n
  BY StashTypes
<1>4. /\ Pending \in Seq(SmurfSample) /\ Len(Pending) = (L + 1 - start) + W
      /\ \A i \in 1..(L + 1 - start) : Pending[i] = read_stash_[start + i - 1]
      /\ \A i \in 1..W : Pending[(L + 1 - start) + i] = write_stash_[i]
  BY StashTypes, RestAndIs DEF Pending
<1>5. Pending' = RestAnd(read_stash_, end, write_stash_)
  <2>1. CASE end <= L /\ read_stash_' = read_stash_ /\ start' = end
    BY <1>2, <2>1 DEF Pending
  <2>2. CASE end = L + 1 /\ read_stash_' = <<>> /\ start' = 1
    <3>1. Pending' = write_stash_
      BY <1>2, <2>2, StashTypes, RestAndEmpty DEF Pending
    <3>2. SubSeq(read_stash_, end, L) = <<>>
      BY <1>3, <2>2, SubSeqEmpty
    <3>3. RestAnd(read_stash_, end, write_stash_) = write_stash_
      BY <3>2, StashTypes, ConcatEmptySeq DEF RestAnd
    <3> QED  BY <3>1, <3>3
  <2> QED  BY <1>1, <2>1, <2>2
<1>6. /\ Pending' \in Seq(SmurfSample) /\ Len(Pending') = (L + 1 - end) + W
      /\ \A i \in 1..(L + 1 - end) : Pending'[i] = read_stash_[end + i - 1]
      /\ \A i \in 1..W : Pending'[(L + 1 - end) + i] = write_stash_[i]
  <2>1. end \in 1..(L + 1)
    BY <1>3
  <2> QED  BY <1>5, <2>1, StashTypes, RestAndIs
<1>7. SubSeq(Pending, 1, n) = SegmentTo(end)
  <2>1. /\ SegmentTo(end) \in Seq(SmurfSample) /\ Len(SegmentTo(end)) = n
        /\ \A i \in 1..n : SegmentTo(end)[i] = read_stash_[start + i - 1]
    BY SegmentType DEF TypeInv
  <2>2. /\ SubSeq(Pending, 1, n) \in Seq(SmurfSample) /\ Len(SubSeq(Pending, 1, n)) = n
        /\ \A i \in 1..n : SubSeq(Pending, 1, n)[i] = Pending[i]
    BY <1>3, <1>4
  <2>3. \A i \in 1..n : Pending[i] = read_stash_[start + i - 1]
    BY <1>3, <1>4
  <2> QED  BY <2>1, <2>2, <2>3
<1>8. Pending' = SubSeq(Pending, n + 1, Len(Pending))
  <2> DEFINE q == SubSeq(Pending, n + 1, Len(Pending))
  <2>1. /\ q \in Seq(SmurfSample) /\ Len(q) = (L + 1 - end) + W
        /\ \A i \in 1..((L + 1 - end) + W) : q[i] = Pending[n + i]
    <3>1. n \in Nat /\ n <= Len(Pending) /\ Len(Pending) - n = (L + 1 - end) + W
      BY <1>3, <1>4
    <3>2. /\ q \in Seq(SmurfSample) /\ Len(q) = Len(Pending) - n
          /\ \A i \in 1..(Len(Pending) - n) : q[i] = Pending[n + i]
      <4> HIDE DEF n
      <4>1. Len(Pending) \in Nat
        BY <1>4
      <4> QED  BY <1>4, <3>1, <4>1, TailOfSeq
    <3> QED  BY <3>1, <3>2
  <2>2. ASSUME NEW i \in 1..((L + 1 - end) + W)  PROVE Pending'[i] = Pending[n + i]
    <3>1. CASE i <= L + 1 - end
      <4>1. Pending'[i] = read_stash_[end + i - 1]
        BY <1>3, <1>6, <3>1
      <4>2. n + i \in 1..(L + 1 - start) /\ start + (n + i) - 1 = end + i - 1
        BY <1>3, <3>1
      <4>3. Pending[n + i] = read_stash_[start + (n + i) - 1]
        BY <1>4, <4>2
      <4> QED  BY <4>1, <4>2, <4>3
    <3>2. CASE i > L + 1 - end
      <4> DEFINE j == i - (L + 1 - end)
      <4>1. /\ j \in 1..W /\ (L + 1 - end) + j = i /\ (L + 1 - start) + j = n + i
        BY <1>3, <3>2
      <4> HIDE DEF j
      <4>2. Pending'[(L + 1 - end) + j] = write_stash_[j]
        BY <1>6, <4>1
      <4>3. Pending[(L + 1 - start) + j] = write_stash_[j]
        BY <1>4, <4>1
      <4> QED  BY <4>1, <4>2, <4>3
    <3> QED  BY <1>3, <3>1, <3>2
  <2> HIDE DEF q
  <2>3. Len(Pending') = Len(q) /\ \A i \in 1..Len(q) : Pending'[i] = q[i]
    BY <1>6, <2>1, <2>2
  <2>4. Pending' = q
    BY <1>6, <2>1, <2>3, SeqEqual
  <2> QED  BY <2>4 DEF q
<1>9. \A i \in 1..n : Pending[i].nchans = Pending[1].nchans
  <2>1. \A i \in start..(end - 1) : read_stash_[i].nchans = read_stash_[start].nchans
    BY <1>1, SegmentIsUniform
  <2>2. Pending[1] = read_stash_[start]
    BY <1>3, <1>4
  <2>3. ASSUME NEW i \in 1..n  PROVE Pending[i].nchans = read_stash_[start].nchans
    <3>1. start + i - 1 \in start..(end - 1) /\ i \in 1..(L + 1 - start)
      BY <1>3
    <3> QED  BY <1>4, <2>1, <3>1
  <2> QED  BY <2>2, <2>3
<1>10. n \in 1..Len(Pending)
  BY <1>3, <1>4
<1> HIDE DEF n
<1> QED
  BY <1>1, <1>2, <1>7, <1>8, <1>9, <1>10 DEF Channel!Deliver, Pending, RestAnd

\* The other steps move nothing that the channel sees.
LEMMA BystanderUnseen ==
  ASSUME TypeInv, Bystander, ~DropSample
  PROVE  UNCHANGED Channel!vars
<1>1. /\ UNCHANGED <<emitted, read_stash_, start, write_stash_, dropped_frames_>>
      /\ (pc # "thread_start")' = (pc # "thread_start")
  BY DEF Bystander, DataTransmit, MetaTransmit, AsyncDatum, PopPacket, EmitStatus,
         EnsureGil, EmitAlive, BeginLoop, NextSample, PythonTakesGil, PythonReleasesGil,
         ProcessFrame, vars, stashVars, flushVars, loopVars
<1>2. Pending' = Pending
  BY <1>1 DEF Pending
<1> QED  BY <1>1, <1>2 DEF Channel!vars, Pending, RestAnd

\* Two stashes, two threads and an iterator do what a lossy first-in first-out
\* channel of bounded capacity does.
THEOREM ImplementsChannel == Spec => ChannelSpec
<1>1. TypeInv /\ LoadInv /\ LoopInv /\ [Next]_vars => [Channel!Next]_(Channel!vars)
  <2> SUFFICES ASSUME TypeInv, LoadInv, LoopInv, [Next]_vars  PROVE [Channel!Next]_(Channel!vars)
    OBVIOUS
  <2>1. CASE StashSample
    BY <2>1, AcceptStep DEF Channel!Next
  <2>2. CASE DropSample
    BY <2>2, RefuseStep DEF Channel!Next
  <2>3. CASE SwapStash
    BY <2>3, StartStep DEF Channel!Next
  <2>4. CASE EmitSegment \/ EmitLastSegment
    BY <2>4, DeliverStep DEF Channel!Next
  <2>5. CASE Bystander /\ ~DropSample
    BY <2>5, BystanderUnseen
  <2> QED  BY <2>1, <2>2, <2>3, <2>4, <2>5, StepKinds
<1> QED
  BY <1>1, ChannelInit, TypeInvariance, LoadInvariance, LoopInvariance, PTL DEF Spec, ChannelSpec, Channel!Spec
=============================================================================
