------------------------- MODULE StreamPipelineProofs ------------------------
(***************************************************************************)
(* Theorems about StreamPipeline, for every value of its constants: the    *)
(* builder and the manager do in the pipeline what they do alone, so that  *)
(* what is proved of each holds of the whole, and the sessions hold their  *)
(* data.                                                                   *)
(***************************************************************************)
EXTENDS StreamPipeline, SequenceTheorems, TLAPS

B == INSTANCE SmurfBuilderProofs
M == INSTANCE SessionManagerProofs

-----------------------------------------------------------------------------
(* The pipeline implements the builder *)

\* What the theorems about the two components assume of the constants.
LEMMA ComponentAssumptions ==
  /\ NumberChannels \subseteq Nat \ {0}
  /\ \E most \in NumberChannels : \A n \in NumberChannels : n <= most
  /\ MaxQueueSize \in Nat \ {0}
  /\ UninitQueueSize \subseteq Nat
  /\ MaxPackets \in Nat /\ MaxOutQueue \in Nat
  /\ NoPkt \notin B!Packet
  /\ datfile_open \in Register /\ g3stream_open \in Register
  /\ {0, 1} \subseteq Value
  /\ NoSession \notin Nat
  /\ MaxTime \in Nat /\ MaxFrameNum \in Nat
<1>1. NoPkt \notin B!Packet
  BY NoPktAssumption
     DEF Builder!Packet, B!Packet, Builder!SmurfSample, B!SmurfSample,
         Builder!StatusSample, B!StatusSample
<1> QED  BY <1>1, ChannelsAssumption, QueueSizeAssumption, BoundsAssumption,
            RegisterAssumption, SessionAssumption

\* Each action of the builder is the one the theorems are about.
LEMMA SameActions ==
  /\ Builder!DataTransmit = B!DataTransmit
  /\ Builder!MetaTransmit = B!MetaTransmit
  /\ Builder!PopPacket = B!PopPacket
  /\ Builder!EmitStatus = B!EmitStatus
  /\ Builder!StashSample = B!StashSample
  /\ Builder!DropSample = B!DropSample
  /\ Builder!SwapStash = B!SwapStash
  /\ Builder!EnsureGil = B!EnsureGil
  /\ Builder!EmitAlive = B!EmitAlive
  /\ Builder!BeginLoop = B!BeginLoop
  /\ Builder!NextSample = B!NextSample
  /\ Builder!EmitSegment = B!EmitSegment
  /\ Builder!EmitLastSegment = B!EmitLastSegment
  /\ Builder!PythonTakesGil = B!PythonTakesGil
  /\ Builder!PythonReleasesGil = B!PythonReleasesGil
  /\ Builder!ProcessFrame = B!ProcessFrame
<1> USE DEF Builder!inVars, B!inVars, Builder!stashVars, B!stashVars,
            Builder!flushVars, B!flushVars, Builder!loopVars, B!loopVars
<1>1. Builder!DataTransmit = B!DataTransmit
  BY DEF Builder!DataTransmit, B!DataTransmit, Builder!AsyncDatum, B!AsyncDatum
<1>2. Builder!MetaTransmit = B!MetaTransmit
  BY DEF Builder!MetaTransmit, B!MetaTransmit, Builder!AsyncDatum, B!AsyncDatum
<1>3. Builder!PopPacket = B!PopPacket
  BY DEF Builder!PopPacket, B!PopPacket
<1>4. Builder!EmitStatus = B!EmitStatus
  BY DEF Builder!EmitStatus, B!EmitStatus, Builder!FrameOut, B!FrameOut,
         Builder!WiringFrame, B!WiringFrame, Builder!StatusSample, B!StatusSample
<1>5. Builder!StashSample = B!StashSample
  BY DEF Builder!StashSample, B!StashSample, Builder!HasRoom, B!HasRoom,
         Builder!SizeWith, B!SizeWith, Builder!SmurfSample, B!SmurfSample
<1>6. Builder!DropSample = B!DropSample
  BY DEF Builder!DropSample, B!DropSample, Builder!HasRoom, B!HasRoom,
         Builder!SmurfSample, B!SmurfSample
<1>7. Builder!SwapStash = B!SwapStash
  BY DEF Builder!SwapStash, B!SwapStash, Builder!SizeAfterSwap, B!SizeAfterSwap,
         Builder!Processed, B!Processed
<1>8. Builder!EnsureGil = B!EnsureGil
  BY DEF Builder!EnsureGil, B!EnsureGil
<1>9. Builder!EmitAlive = B!EmitAlive
  BY DEF Builder!EmitAlive, B!EmitAlive, Builder!NothingStashed, B!NothingStashed,
         Builder!FrameOut, B!FrameOut, Builder!AliveFrame, B!AliveFrame
<1>10. Builder!EmitSegment = B!EmitSegment
  BY DEF Builder!EmitSegment, B!EmitSegment, Builder!NextNchans, B!NextNchans,
         Builder!FrameOut, B!FrameOut, Builder!FrameFromSamples, B!FrameFromSamples,
         Builder!ScanFrame, B!ScanFrame, Builder!Segment, B!Segment, Builder!NextStart,
         B!NextStart
<1>11. Builder!EmitLastSegment = B!EmitLastSegment
  BY DEF Builder!EmitLastSegment, B!EmitLastSegment, Builder!EndLoop,
         B!EndLoop, Builder!FrameOut, B!FrameOut, Builder!FrameFromSamples,
         B!FrameFromSamples, Builder!ScanFrame, B!ScanFrame, Builder!Segment, B!Segment
<1>12. Builder!PythonTakesGil = B!PythonTakesGil
  BY DEF Builder!PythonTakesGil, B!PythonTakesGil
<1>13. Builder!PythonReleasesGil = B!PythonReleasesGil
  BY DEF Builder!PythonReleasesGil, B!PythonReleasesGil
<1>14. Builder!ProcessFrame = B!ProcessFrame
  BY DEF Builder!ProcessFrame, B!ProcessFrame
<1>15. Builder!BeginLoop = B!BeginLoop
  BY DEF Builder!BeginLoop, B!BeginLoop
<1>16. Builder!NextSample = B!NextSample
  BY DEF Builder!NextSample, B!NextSample
<1> QED  BY <1>1, <1>2, <1>3, <1>4, <1>5, <1>6, <1>7, <1>8, <1>9, <1>10, <1>11,
            <1>12, <1>13, <1>14, <1>15, <1>16

\* A step of the pipeline is a step of the builder or leaves it alone.
LEMMA BuilderStep == [Next]_vars => [B!Next]_(B!vars)
<1> SUFFICES ASSUME [Next]_vars
             PROVE  [B!Next]_(B!vars)
  OBVIOUS
<1>1. CASE Build
  <2>1. \/ B!DataTransmit \/ B!MetaTransmit
        \/ B!PopPacket \/ B!EmitStatus \/ B!StashSample \/ B!DropSample
        \/ B!SwapStash \/ B!EnsureGil
        \/ B!EmitAlive \/ B!BeginLoop \/ B!NextSample
        \/ B!EmitSegment \/ B!EmitLastSegment
        \/ B!PythonTakesGil \/ B!PythonReleasesGil
    BY <1>1, SameActions
       DEF Build, Builder!EventThread, Builder!FlushStash, Builder!Emit
  <2> QED  BY <2>1 DEF B!Next, B!EventThread, B!FlushStash, B!Emit
<1>2. CASE Take
  BY <1>2, SameActions DEF Take, B!Next
<1>3. CASE PassOn \/ UNCHANGED vars
  <2>1. UNCHANGED builderVars
    BY <1>3 DEF PassOn, vars
  <2> QED  BY <2>1 DEF builderVars, B!vars, B!inVars, B!stashVars, B!flushVars, B!loopVars
<1> QED  BY <1>1, <1>2, <1>3 DEF Next

\* So every behaviour of the pipeline is one of the builder.
LEMMA BuilderImplemented == Spec => B!Spec
<1>1. Init => B!Init
  BY DEF Init, Builder!Init, B!Init
<1>2. [Next]_vars => [B!Next]_(B!vars)
  BY BuilderStep
<1> QED  BY <1>1, <1>2, PTL DEF Spec, B!Spec

BuilderInv == B!TypeInv /\ B!QueueInv /\ B!OrderInv /\ B!BarrierInv /\ B!StatusInv

\* What SmurfBuilderProofs shows of the builder alone holds in the pipeline.
LEMMA BuilderInvariance == Spec => []BuilderInv
<1>1. B!Spec => []B!TypeInv
  BY B!TypeInvariance, ComponentAssumptions
<1>2. B!Spec => []B!QueueInv
  BY B!QueueInvariance, ComponentAssumptions
<1>3. B!Spec => []B!OrderInv
  BY B!OrderInvariance, ComponentAssumptions
<1>4. B!Spec => []B!BarrierInv
  BY B!BarrierInvariance, ComponentAssumptions
<1>5. B!Spec => []B!StatusInv
  BY B!StatusInvariance, ComponentAssumptions
<1> QED  BY BuilderImplemented, <1>1, <1>2, <1>3, <1>4, <1>5, PTL DEF BuilderInv

-----------------------------------------------------------------------------
(* The pipeline implements the manager *)

\* Each call of the manager is the one the theorems are about.
LEMMA SameManager ==
  /\ Manager!KeepAlive = M!KeepAlive
  /\ Manager!EndSession = M!EndSession
  /\ Manager!PassScan = M!PassScan
  /\ Manager!DiscardScan = M!DiscardScan
  /\ \A u : Manager!SkipUpdate(u) = M!SkipUpdate(u)
  /\ \A u : Manager!StartSession(u) = M!StartSession(u)
  /\ \A u : Manager!IdleUpdate(u) = M!IdleUpdate(u)
  /\ \A u : Manager!SessionUpdate(u) = M!SessionUpdate(u)
  /\ Manager!Deliver = M!Deliver
<1>1. /\ Manager!Active = M!Active /\ Manager!managerVars = M!managerVars
      /\ \A u : Manager!Opens(u) = M!Opens(u) /\ Manager!Closes(u) = M!Closes(u)
      /\ \A u : Manager!Changes(u) = M!Changes(u)
  BY DEF Manager!Active, M!Active, Manager!managerVars, M!managerVars, Manager!Opens, M!Opens,
         Manager!Closes, M!Closes, Manager!Says, M!Says, Manager!Changes, M!Changes
<1>2. Manager!Call = M!Call
  BY DEF Manager!Call, M!Call
<1>3. /\ \A f : Manager!flowcontrol_frame(f) = M!flowcontrol_frame(f)
      /\ \A t : Manager!cleanse_frame(t) = M!cleanse_frame(t)
      /\ \A p, id, num : Manager!ObservationFrame(p, id, num) = M!ObservationFrame(p, id, num)
      /\ \A d, st, id, num : Manager!WiringFrame(d, st, id, num) = M!WiringFrame(d, st, id, num)
      /\ \A id, num : Manager!ScanFrame(id, num) = M!ScanFrame(id, num)
  BY DEF Manager!flowcontrol_frame, M!flowcontrol_frame, Manager!cleanse_frame,
         M!cleanse_frame, Manager!ObservationFrame, M!ObservationFrame,
         Manager!WiringFrame, M!WiringFrame, Manager!ScanFrame, M!ScanFrame
<1>4. \A old, new : Manager!Updated(old, new) = M!Updated(old, new)
  BY DEF Manager!Updated, M!Updated
<1>5. \A u : Manager!Diff(u) = M!Diff(u)
  BY <1>1 DEF Manager!Diff, M!Diff
<1>6. /\ Manager!KeepAlive = M!KeepAlive /\ Manager!EndSession = M!EndSession
      /\ Manager!PassScan = M!PassScan /\ Manager!DiscardScan = M!DiscardScan
  BY <1>1, <1>2, <1>3
     DEF Manager!KeepAlive, M!KeepAlive, Manager!EndSession, M!EndSession,
         Manager!PassScan, M!PassScan, Manager!DiscardScan, M!DiscardScan,
         Manager!managerVars, M!managerVars
<1>7. \A u : Manager!SkipUpdate(u) = M!SkipUpdate(u)
  BY <1>1, <1>2 DEF Manager!SkipUpdate, M!SkipUpdate, Manager!managerVars, M!managerVars
<1>8. \A u : Manager!StartSession(u) = M!StartSession(u)
  BY <1>1, <1>2, <1>3, <1>4 DEF Manager!StartSession, M!StartSession
<1>9. \A u : Manager!IdleUpdate(u) = M!IdleUpdate(u)
  BY <1>1, <1>2, <1>4 DEF Manager!IdleUpdate, M!IdleUpdate
<1>10. \A u : Manager!SessionUpdate(u) = M!SessionUpdate(u)
  BY <1>1, <1>2, <1>3, <1>4, <1>5 DEF Manager!SessionUpdate, M!SessionUpdate
<1>11. Manager!Follow(Head(out)) = M!Follow(Head(out))
  BY <1>3, <1>4 DEF Manager!Follow, M!Follow
<1>12. Manager!Deliver = M!Deliver
  BY <1>1, <1>11 DEF Manager!Deliver, M!Deliver, Manager!managerVars, M!managerVars
<1> QED  BY <1>6, <1>7, <1>8, <1>9, <1>10, <1>12

\* A status that reaches the manager is one.
LEMMA StatusOfHead ==
  ASSUME BuilderInv, out_queue_ # <<>>, Head(out_queue_).type = "Wiring"
  PROVE  Head(out_queue_).status \in M!Status
<1>1. Head(out_queue_) \in B!Frame
  BY DEF BuilderInv, B!TypeInv, B!TypeOK
<1>2. Head(out_queue_).status \in Statuses
  BY <1>1 DEF B!Frame
<1>3. Manager!Status = M!Status
  BY DEF Manager!Status, M!Status
<1> QED  BY <1>2, <1>3, StatusesAssumption

\* A step of the pipeline is a step of the manager or leaves it alone.
LEMMA ManagerStep == BuilderInv /\ [Next]_vars => [M!Next]_(M!vars)
<1> SUFFICES ASSUME BuilderInv, [Next]_vars
             PROVE  [M!Next]_(M!vars)
  OBVIOUS
<1>1. CASE Take
  <2> DEFINE f == Head(out_queue_)
  <2>1. out_queue_ # <<>>
    BY <1>1 DEF Take, Builder!ProcessFrame
  <2>2. CASE TakeScan(f)
    BY <2>2, SameManager DEF TakeScan, M!Next
  <2>3. CASE TakeWiring(f)
    <3>1. f.status \in M!Status
      BY <2>1, <2>3, StatusOfHead DEF TakeWiring
    <3>2. \/ M!SkipUpdate(f.status) \/ M!StartSession(f.status)
          \/ M!IdleUpdate(f.status) \/ M!SessionUpdate(f.status)
      BY <2>3, SameManager DEF TakeWiring
    <3> QED  BY <3>1, <3>2 DEF M!Next
  <2>4. CASE TakeNone(f)
    BY <2>4, SameManager DEF TakeNone, M!Next
  <2> QED  BY <1>1, <2>2, <2>3, <2>4 DEF Take
<1>2. CASE PassOn
  BY <1>2, SameManager DEF PassOn, M!Next
<1>3. CASE Build \/ UNCHANGED vars
  <2>1. UNCHANGED sessionVars
    BY <1>3 DEF Build, vars
  <2> QED  BY <2>1 DEF sessionVars, M!vars, M!managerVars
<1> QED  BY <1>1, <1>2, <1>3 DEF Next

\* So every behaviour of the pipeline is one of the manager.
LEMMA ManagerImplemented == Spec => M!Spec
<1>1. Init => M!Init
  BY DEF Init, Manager!Init, M!Init, Manager!flowcontrol_frame, M!flowcontrol_frame
<1>2. BuilderInv /\ [Next]_vars => [M!Next]_(M!vars)
  BY ManagerStep
<1> QED  BY <1>1, <1>2, BuilderInvariance, PTL DEF Spec, M!Spec

\* What SessionManagerProofs shows of the manager alone holds in the pipeline.
LEMMA ManagerInvariance == Spec => [](M!TypeOK /\ M!StopBelongsToSession)
<1>1. M!Spec => []M!TypeOK
  BY M!TypeCorrect, ComponentAssumptions
<1>2. M!Spec => []M!StopBelongsToSession
  BY M!StopStaysInSession, ComponentAssumptions
<1> QED  BY ManagerImplemented, <1>1, <1>2, PTL

-----------------------------------------------------------------------------
(* Sessions *)

Session == [opened : Nat, over : BOOLEAN, upto : Nat]
Behind == B!HeldIds \cup B!QueuedIds  \* the samples the manager has not seen

\* The sessions seen agree with the manager's state.
SessionControl ==
  /\ sessions \in Seq(Session)
  /\ M!Active => sessions # <<>>
  /\ \A k \in 1..Len(sessions) : ~sessions[k].over <=> k = Len(sessions) /\ M!Active
  /\ placed \subseteq Nat \X (0..Len(sessions))

\* A session that is over has seen all of its samples.
OverIsOver ==
  \A k \in 1..Len(sessions) : sessions[k].over =>
    /\ sessions[k].upto <= B!Processed
    /\ \A n \in Behind : n > sessions[k].upto

\* A sample that was placed is older than every status still to come.
PlacedIsOld ==
  \A p \in placed :
    /\ p[1] <= B!Processed
    /\ \A m \in B!QueuedStatuses : p[1] < m

SessionInv == SessionControl /\ OverIsOver /\ PlacedIsOld /\ SessionHoldsItsData

\* The expressions the pipeline reads from its components.
LEMMA SameReads ==
  /\ Manager!Active = M!Active
  /\ \A s : Builder!Ids(s) = B!Ids(s)
BY DEF Manager!Active, M!Active, Builder!Ids, B!Ids

\* No session was opened yet, no sample placed.
LEMMA SessionInit == Init => SessionInv
BY DEF Init, Manager!Init, SessionInv, SessionControl, OverIsOver, PlacedIsOld,
       SessionHoldsItsData, M!Active

\* What the queue and the stashes get in a step touches no session that is over
\* and is newer than every sample placed before.
LEMMA NewNumbers ==
  ASSUME BuilderInv, SessionInv, [Next]_vars
  PROVE  /\ B!Processed \in Nat /\ B!Processed' \in Nat /\ B!Processed <= B!Processed'
         /\ \A k \in 1..Len(sessions) : sessions[k].over =>
              /\ sessions[k].upto <= B!Processed'
              /\ \A n \in Behind' : n > sessions[k].upto
         /\ \A p \in placed :
              /\ p[1] <= B!Processed'
              /\ \A m \in B!QueuedStatuses' : p[1] < m
<1>1. /\ B!Processed \in Nat /\ B!Processed' \in Nat /\ B!Processed <= B!Processed'
      /\ \A n \in B!HeldIds' \cup B!QueuedIds' :
           n \in B!HeldIds \cup B!QueuedIds \/ n = B!Processed + 1
      /\ \A m \in B!QueuedStatuses' : m \in B!QueuedStatuses \/ m = B!Processed + 1
  BY BuilderStep, B!NumbersOfStep, ComponentAssumptions DEF BuilderInv
<1>2. ASSUME NEW k \in 1..Len(sessions), sessions[k].over
      PROVE  /\ sessions[k].upto <= B!Processed'
             /\ \A n \in Behind' : n > sessions[k].upto
  <2>1. sessions[k].upto \in Nat
    <3>1. sessions[k] \in Session
      BY DEF SessionInv, SessionControl
    <3> QED  BY <3>1 DEF Session
  <2>2. sessions[k].upto <= B!Processed /\ \A n \in Behind : n > sessions[k].upto
    BY <1>2 DEF SessionInv, OverIsOver
  <2>3. \A n \in Behind' : n \in Behind \/ n = B!Processed + 1
    BY <1>1 DEF Behind
  <2>4. \A n \in Behind' : n > sessions[k].upto
    BY <1>1, <2>1, <2>2, <2>3
  <2> QED  BY <1>1, <2>1, <2>2, <2>4
<1>3. ASSUME NEW p \in placed
      PROVE  /\ p[1] <= B!Processed'
             /\ \A m \in B!QueuedStatuses' : p[1] < m
  <2>1. p[1] \in Nat
    BY DEF SessionInv, SessionControl
  <2>2. p[1] <= B!Processed /\ \A m \in B!QueuedStatuses : p[1] < m
    BY DEF SessionInv, PlacedIsOld
  <2> QED  BY <1>1, <2>1, <2>2
<1> QED  BY <1>1, <1>2, <1>3

\* A step that leaves sessions and placed alone and keeps the manager in or out
\* of a session.
LEMMA SessionsStay ==
  ASSUME BuilderInv, SessionInv, [Next]_vars, UNCHANGED <<sessions, placed>>,
         M!Active' = M!Active
  PROVE  SessionInv'
<1>1. SessionControl'
  BY DEF SessionInv, SessionControl
<1>2. OverIsOver' /\ PlacedIsOld'
  BY NewNumbers DEF OverIsOver, PlacedIsOld
<1>3. SessionHoldsItsData'
  BY DEF SessionInv, SessionHoldsItsData
<1> QED  BY <1>1, <1>2, <1>3 DEF SessionInv

\* A sample that is placed now is behind every session that is over.
LEMMA ScanTaken ==
  ASSUME BuilderInv, SessionInv, [Next]_vars, Take, TakeScan(Head(out_queue_))
  PROVE  SessionInv'
<1> DEFINE f == Head(out_queue_)
           new == {<<n, Current>> : n \in B!Ids(f.samples)}
<1>1. /\ placed' = placed \cup new /\ sessions' = sessions /\ f.type = "Scan"
      /\ M!Active' = M!Active
  <2>1. M!PassScan \/ M!DiscardScan
    BY SameManager DEF TakeScan
  <2>2. M!Active' = M!Active
    BY <2>1 DEF M!PassScan, M!DiscardScan, M!managerVars, M!Active
  <2> QED  BY <2>2, SameReads DEF TakeScan
<1>2. \A n \in B!Ids(f.samples) :
        /\ n \in Nat /\ n <= B!Processed /\ n \in Behind
        /\ \A m \in B!QueuedStatuses' : n < m
  <2>1. B!ProcessFrame
    BY SameActions DEF Take
  <2> QED  BY <1>1, <2>1, B!HeadFrame, ComponentAssumptions DEF BuilderInv, Behind
<1>3. sessions \in Seq(Session) /\ Len(sessions) \in Nat /\ DOMAIN sessions = 1..Len(sessions)
  BY DEF SessionInv, SessionControl
<1>4. /\ Current \in 0..Len(sessions)
      /\ \A k \in 1..Len(sessions) : k # Current => sessions[k].over
  <2>1. \A k \in 1..Len(sessions) : ~sessions[k].over <=> k = Len(sessions) /\ M!Active
    BY DEF SessionInv, SessionControl
  <2>2. M!Active => Current = Len(sessions)
    BY SameReads DEF Current
  <2>3. ~M!Active => Current = 0
    BY SameReads DEF Current
  <2>4. ASSUME NEW k \in 1..Len(sessions), k # Current
        PROVE  sessions[k].over
    BY <2>1, <2>2, <2>4, Zenon
  <2>5. Current \in 0..Len(sessions)
    BY <1>3, <2>2, <2>3
  <2> QED  BY <2>4, <2>5
<1>5. SessionControl'
  <2>1. new \subseteq Nat \X (0..Len(sessions))
    BY <1>2, <1>4
  <2> QED  BY <1>1, <2>1 DEF SessionInv, SessionControl
<1>6. OverIsOver'
  BY <1>1, NewNumbers DEF OverIsOver
<1>7. PlacedIsOld'
  <2>1. \A p \in new : p[1] <= B!Processed' /\ \A m \in B!QueuedStatuses' : p[1] < m
    BY <1>2, NewNumbers
  <2> QED  BY <1>1, <2>1, NewNumbers DEF PlacedIsOld
<1>8. SessionHoldsItsData'
  <2>1. ASSUME NEW p \in new, NEW k \in DOMAIN sessions \ {p[2]}
        PROVE  sessions[k].over /\ p[1] > sessions[k].upto
    <3>1. p[2] = Current /\ p[1] \in Behind
      BY <1>2
    <3>2. sessions[k].over
      BY <1>3, <1>4, <2>1, <3>1
    <3> QED  BY <1>3, <3>1, <3>2 DEF SessionInv, OverIsOver
  <2>2. \A p \in placed : \A k \in DOMAIN sessions \ {p[2]} :
          p[1] < sessions[k].opened \/ (sessions[k].over /\ p[1] > sessions[k].upto)
    BY DEF SessionInv, SessionHoldsItsData
  <2> QED  BY <1>1, <2>1, <2>2 DEF SessionHoldsItsData
<1> QED  BY <1>5, <1>6, <1>7, <1>8 DEF SessionInv

\* A session that opens is younger than every sample placed.
LEMMA SessionOpened ==
  ASSUME BuilderInv, M!TypeOK, SessionInv, [Next]_vars, Take,
         Head(out_queue_).type = "Wiring", M!StartSession(Head(out_queue_).status),
         sessions' = Append(sessions, [opened |-> Head(out_queue_).id, over |-> FALSE,
                                        upto |-> 0]),
         UNCHANGED placed
  PROVE  SessionInv'
<1> DEFINE f == Head(out_queue_)
           L == Len(sessions)
<1>1. f.id \in Nat /\ f.id \in B!QueuedStatuses
  <2>1. B!ProcessFrame
    BY SameActions DEF Take
  <2> QED  BY <2>1, B!HeadFrame, ComponentAssumptions DEF BuilderInv
<1>2. ~M!Active /\ M!Active'
  BY ComponentAssumptions DEF M!StartSession, M!Active, M!TypeOK
<1>3. /\ sessions \in Seq(Session) /\ L \in Nat /\ sessions' \in Seq(Session)
      /\ Len(sessions') = L + 1
      /\ \A k \in 1..L : sessions'[k] = sessions[k]
      /\ sessions'[L + 1] = [opened |-> f.id, over |-> FALSE, upto |-> 0]
      /\ DOMAIN sessions = 1..L /\ DOMAIN sessions' = 1..(L + 1)
  <2>1. sessions \in Seq(Session) /\ [opened |-> f.id, over |-> FALSE, upto |-> 0] \in Session
    BY <1>1 DEF SessionInv, SessionControl, Session
  <2> QED  BY <2>1
<1>4. \A k \in 1..L : sessions[k].over
  BY <1>2, <1>3 DEF SessionInv, SessionControl
<1>5. SessionControl'
  <2>1. \A k \in 1..(L + 1) : ~sessions'[k].over <=> k = L + 1
    BY <1>3, <1>4
  <2>2. placed' \subseteq Nat \X (0..(L + 1))
    <3>1. placed' \subseteq Nat \X (0..L)
      BY DEF SessionInv, SessionControl
    <3>2. 0..L \subseteq 0..(L + 1)
      BY <1>3
    <3> QED  BY <3>1, <3>2
  <2> QED  BY <1>2, <1>3, <2>1, <2>2 DEF SessionControl
<1>6. OverIsOver'
  BY <1>3, NewNumbers DEF OverIsOver
<1>7. PlacedIsOld'
  BY NewNumbers DEF PlacedIsOld
<1>8. SessionHoldsItsData'
  <2>1. ASSUME NEW p \in placed, NEW k \in (1..(L + 1)) \ {p[2]}
        PROVE  p[1] < sessions'[k].opened
               \/ (sessions'[k].over /\ p[1] > sessions'[k].upto)
    <3>1. CASE k = L + 1
      BY <1>1, <1>3, <3>1 DEF SessionInv, PlacedIsOld
    <3>2. CASE k \in 1..L
      BY <1>3, <2>1, <3>2 DEF SessionInv, SessionHoldsItsData
    <3> QED  BY <1>3, <3>1, <3>2
  <2> QED  BY <1>3, <2>1 DEF SessionHoldsItsData
<1> QED  BY <1>5, <1>6, <1>7, <1>8 DEF SessionInv

\* A sequence whose last element is replaced.
LEMMA LastReplaced ==
  ASSUME NEW S, NEW s \in Seq(S), s # <<>>, NEW e \in S,
         NEW t, t = [s EXCEPT ![Len(s)] = e]
  PROVE  /\ t \in Seq(S) /\ Len(t) = Len(s) /\ DOMAIN t = 1..Len(s)
         /\ \A k \in 1..(Len(s) - 1) : t[k] = s[k]
         /\ t[Len(s)] = e
<1>1. Len(s) \in 1..Len(s) /\ Len(s) \in Nat
  OBVIOUS
<1>2. /\ t \in Seq(S) /\ Len(t) = Len(s)
      /\ \A j \in 1..Len(s) : t[j] = IF j = Len(s) THEN e ELSE s[j]
  BY <1>1, ExceptSeq
<1>3. DOMAIN t = 1..Len(t)
  BY <1>2
<1>4. \A k \in 1..(Len(s) - 1) : k \in 1..Len(s) /\ k # Len(s)
  BY <1>1
<1>5. \A k \in 1..(Len(s) - 1) : t[k] = s[k]
  BY <1>2, <1>4
<1>6. t[Len(s)] = e
  BY <1>1, <1>2
<1> QED  BY <1>2, <1>3, <1>5, <1>6

\* The keep-alive that ends a session is a barrier for what it covers.
LEMMA SessionEnded ==
  ASSUME BuilderInv, M!StopBelongsToSession, SessionInv, [Next]_vars, Take,
         Head(out_queue_).type = "none", M!EndSession,
         sessions' = [sessions EXCEPT ![Len(sessions)] =
           [opened |-> @.opened, over |-> TRUE, upto |-> Head(out_queue_).upto]],
         UNCHANGED placed
  PROVE  SessionInv'
<1> DEFINE f == Head(out_queue_)
           L == Len(sessions)
<1>1. /\ f.upto \in Nat /\ f.upto <= B!Processed
      /\ \A n \in Behind' : n > f.upto
  <2>1. B!ProcessFrame
    BY SameActions DEF Take
  <2> QED  BY <2>1, B!HeadFrame, ComponentAssumptions DEF BuilderInv, Behind
<1>2. M!Active /\ ~M!Active'
  BY DEF M!EndSession, M!StopBelongsToSession, M!Active
<1>3. sessions \in Seq(Session) /\ L \in Nat \ {0} /\ DOMAIN sessions = 1..L
  BY <1>2 DEF SessionInv, SessionControl
<1>4. /\ DOMAIN sessions' = 1..L /\ Len(sessions') = L /\ sessions' \in Seq(Session)
      /\ \A k \in 1..(L - 1) : sessions'[k] = sessions[k]
      /\ sessions'[L] = [opened |-> sessions[L].opened, over |-> TRUE, upto |-> f.upto]
  <2>1. \A k \in 1..L : sessions[k] \in Session
    BY <1>3
  <2>2. [opened |-> sessions[L].opened, over |-> TRUE, upto |-> f.upto] \in Session
    BY <1>1, <1>3, <2>1 DEF Session
  <2>3. sessions' = [sessions EXCEPT ![L] =
                       [opened |-> sessions[L].opened, over |-> TRUE, upto |-> f.upto]]
    BY <1>3
  <2>4. sessions # <<>>
    BY <1>2 DEF SessionInv, SessionControl
  <2> DEFINE e == [opened |-> sessions[L].opened, over |-> TRUE, upto |-> f.upto]
  <2>5. e \in Session /\ sessions' = [sessions EXCEPT ![Len(sessions)] = e]
    BY <2>2, <2>3
  <2> HIDE DEF e
  <2>6. /\ sessions' \in Seq(Session) /\ Len(sessions') = L /\ DOMAIN sessions' = 1..L
        /\ \A k \in 1..(L - 1) : sessions'[k] = sessions[k]
        /\ sessions'[L] = e
    <3>1. sessions \in Seq(Session)
      BY <1>3
    <3> DEFINE t == sessions'
    <3>2. t = [sessions EXCEPT ![Len(sessions)] = e] /\ e \in Session
      BY <2>5
    <3> HIDE DEF t
    <3>3. /\ t \in Seq(Session) /\ Len(t) = Len(sessions) /\ DOMAIN t = 1..Len(sessions)
          /\ \A k \in 1..(Len(sessions) - 1) : t[k] = sessions[k]
          /\ t[Len(sessions)] = e
      BY <2>4, <3>1, <3>2, LastReplaced
    <3> QED  BY <3>3 DEF t
  <2> QED  BY <2>6 DEF e
<1>5. \A k \in 1..L : sessions[k].over <=> k # L
  BY <1>2, <1>3 DEF SessionInv, SessionControl, Session
<1>6. SessionControl'
  <2>1. \A k \in 1..L : sessions'[k].over
    BY <1>3, <1>4, <1>5
  <2>2. placed' \subseteq Nat \X (0..L)
    BY DEF SessionInv, SessionControl
  <2> QED  BY <1>2, <1>4, <2>1, <2>2 DEF SessionControl
<1>7. OverIsOver'
  <2>1. ASSUME NEW k \in 1..L, sessions'[k].over
        PROVE  sessions'[k].upto <= B!Processed' /\ \A n \in Behind' : n > sessions'[k].upto
    <3>1. CASE k = L
      BY <1>1, <1>4, <3>1, NewNumbers
    <3>2. CASE k \in 1..(L - 1)
      BY <1>3, <1>4, <1>5, <3>2, NewNumbers
    <3> QED  BY <1>3, <3>1, <3>2
  <2> QED  BY <1>4, <2>1 DEF OverIsOver
<1>8. PlacedIsOld'
  BY NewNumbers DEF PlacedIsOld
<1>9. SessionHoldsItsData'
  <2>1. ASSUME NEW p \in placed, NEW k \in (1..L) \ {p[2]}
        PROVE  p[1] < sessions'[k].opened
               \/ (sessions'[k].over /\ p[1] > sessions'[k].upto)
    <3>0. p[1] < sessions[k].opened \/ (sessions[k].over /\ p[1] > sessions[k].upto)
      BY <1>3, <2>1 DEF SessionInv, SessionHoldsItsData
    <3>1. CASE k = L
      BY <1>4, <1>5, <3>0, <3>1
    <3>2. CASE k \in 1..(L - 1)
      BY <1>4, <3>0, <3>2
    <3> QED  BY <1>3, <3>1, <3>2
  <2> QED  BY <1>4, <2>1 DEF SessionHoldsItsData
<1> QED  BY <1>6, <1>7, <1>8, <1>9 DEF SessionInv

\* Every step of the pipeline keeps the invariant.
LEMMA SessionStep ==
  ASSUME BuilderInv, M!TypeOK, M!StopBelongsToSession, SessionInv, [Next]_vars
  PROVE  SessionInv'
<1>1. CASE Take
  <2> DEFINE f == Head(out_queue_)
  <2>1. CASE TakeScan(f)
    BY <1>1, <2>1, ScanTaken
  <2>2. CASE TakeWiring(f)
    <3>1. CASE /\ M!StartSession(f.status)
               /\ sessions' = Append(sessions, [opened |-> f.id, over |-> FALSE, upto |-> 0])
      BY <1>1, <2>2, <3>1, SessionOpened DEF TakeWiring
    <3>2. CASE /\ M!SkipUpdate(f.status) \/ M!IdleUpdate(f.status) \/ M!SessionUpdate(f.status)
               /\ UNCHANGED sessions
      <4>1. M!Active' = M!Active
        BY <3>2 DEF M!SkipUpdate, M!IdleUpdate, M!SessionUpdate, M!managerVars, M!Active
      <4> QED  BY <2>2, <3>2, <4>1, SessionsStay DEF TakeWiring
    <3> QED  BY <2>2, <3>1, <3>2, SameManager DEF TakeWiring
  <2>3. CASE TakeNone(f)
    <3>1. CASE M!EndSession /\ ~(UNCHANGED sessions /\ M!KeepAlive)
      <4>1. sessions' = [sessions EXCEPT ![Len(sessions)] =
                        [opened |-> @.opened, over |-> TRUE, upto |-> f.upto]]
        BY <2>3, <3>1, SameManager DEF TakeNone
      <4> QED  BY <1>1, <2>3, <3>1, <4>1, SessionEnded DEF TakeNone
    <3>2. CASE UNCHANGED sessions /\ M!KeepAlive
      <4>1. M!Active' = M!Active
        BY <3>2 DEF M!KeepAlive, M!managerVars, M!Active
      <4> QED  BY <2>3, <3>2, <4>1, SessionsStay DEF TakeNone
    <3> QED  BY <2>3, <3>1, <3>2, SameManager DEF TakeNone
  <2> QED  BY <1>1, <2>1, <2>2, <2>3 DEF Take
<1>2. CASE PassOn
  <2>1. M!Active' = M!Active
    BY <1>2, SameManager DEF PassOn, M!Deliver, M!managerVars, M!Active
  <2> QED  BY <1>2, <2>1, SessionsStay DEF PassOn
<1>3. CASE Build \/ UNCHANGED vars
  <2>1. UNCHANGED sessionVars
    BY <1>3 DEF Build, vars
  <2> QED  BY <2>1, SessionsStay DEF sessionVars, M!Active
<1> QED  BY <1>1, <1>2, <1>3 DEF Next

\* The invariant holds always.
LEMMA SessionInvariance == Spec => []SessionInv
<1>1. Init => SessionInv
  BY SessionInit
<1>2. BuilderInv /\ (M!TypeOK /\ M!StopBelongsToSession) /\ SessionInv /\ [Next]_vars
        => SessionInv'
  BY SessionStep
<1> QED  BY <1>1, <1>2, BuilderInvariance, ManagerInvariance, PTL DEF Spec

\* The session that was open when a sample arrived holds it, for every number of
\* packets, queue size and schedule of the threads.
THEOREM SessionsHoldTheirData == Spec => []SessionHoldsItsData
BY SessionInvariance, PTL DEF SessionInv

\* The types of the components are those of the theorems about them.
LEMMA SameTypes == B!TypeOK /\ M!TypeOK => Builder!TypeOK /\ Manager!TypeOK
<1>1. Builder!SmurfSample = B!SmurfSample /\ Builder!Packet = B!Packet
      /\ Builder!Frame = B!Frame
  BY DEF Builder!SmurfSample, B!SmurfSample, Builder!StatusSample, B!StatusSample,
         Builder!Packet, B!Packet, Builder!Frame, B!Frame
<1>2. Manager!Status = M!Status /\ Manager!Frame = M!Frame
  BY DEF Manager!Status, M!Status, Manager!Frame, M!Frame
<1>3. B!TypeOK => Builder!TypeOK
  BY <1>1 DEF B!TypeOK, Builder!TypeOK
<1>4. M!TypeOK => Manager!TypeOK
  BY <1>2 DEF M!TypeOK, Manager!TypeOK
<1> QED  BY <1>3, <1>4

\* The two components keep their types in the pipeline, and the sessions seen
\* agree with the manager.
THEOREM TypeCorrect == Spec => []TypeOK
<1>1. BuilderInv /\ M!TypeOK /\ SessionInv => TypeOK
  <2> SUFFICES ASSUME BuilderInv, M!TypeOK, SessionInv
               PROVE  TypeOK
    OBVIOUS
  <2>1. Builder!TypeOK /\ Manager!TypeOK
    BY SameTypes DEF BuilderInv, B!TypeInv
  <2>2. sessions \in Seq(Session) /\ placed \subseteq Nat \X (0..Len(sessions))
    BY DEF SessionInv, SessionControl
  <2>3. DOMAIN sessions = 1..Len(sessions)
    BY <2>2
  <2>4. \A k \in DOMAIN sessions : ~sessions[k].over <=> k = Len(sessions) /\ Manager!Active
    BY <2>3, SameReads DEF SessionInv, SessionControl
  <2> QED  BY <2>1, <2>2, <2>4 DEF TypeOK, Session
<1> QED  BY <1>1, BuilderInvariance, ManagerInvariance, SessionInvariance, PTL
=============================================================================
