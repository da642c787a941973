------------------------- MODULE SessionManagerProofs -------------------------
(***************************************************************************)
(* Theorems about SessionManager, for every value of its constants.        *)
(***************************************************************************)
EXTENDS SessionManager, SequenceTheorems, TLAPS

\* A status is a function on some of the registers.
LEMMA StatusFields ==
  ASSUME NEW st \in Status
  PROVE  /\ st = [k \in DOMAIN st |-> st[k]]
         /\ DOMAIN st \subseteq Register
         /\ \A k \in DOMAIN st : st[k] \in Value
         /\ \A r \in DOMAIN st \cap {datfile_open, g3stream_open} : st[r] \in {0, 1}
<1>1. PICK K \in SUBSET Register : st \in [K -> Value]
  BY DEF Status
<1>2. \A r \in DOMAIN st \cap {datfile_open, g3stream_open} : st[r] \in {0, 1}
  BY DEF Status
<1> QED  BY <1>1, <1>2

\* Merging an update into what is known gives a status.
LEMMA UpdatedType ==
  ASSUME NEW old \in Status, NEW new \in Status
  PROVE  /\ Updated(old, new) \in Status
         /\ DOMAIN Updated(old, new) = DOMAIN old \cup DOMAIN new
         /\ \A k \in DOMAIN new : Updated(old, new)[k] = new[k]
         /\ \A k \in DOMAIN old \ DOMAIN new : Updated(old, new)[k] = old[k]
<1> DEFINE K == DOMAIN old \cup DOMAIN new
<1>1. K \in SUBSET Register
  BY StatusFields
<1>2. Updated(old, new) \in [K -> Value]
  BY StatusFields DEF Updated
<1>3. \A r \in DOMAIN Updated(old, new) \cap {datfile_open, g3stream_open} :
        Updated(old, new)[r] \in {0, 1}
  BY StatusFields DEF Updated
<1>4. Updated(old, new) \in Status
  BY <1>1, <1>2, <1>3 DEF Status
<1> QED  BY <1>4 DEF Updated

\* The difference a status makes is a status.
LEMMA DiffType ==
  ASSUME NEW update \in Status
  PROVE  Diff(update) \in Status
<1>1. Changes(update) \in SUBSET Register
  BY StatusFields DEF Changes
<1>2. Diff(update) \in [Changes(update) -> Value]
  BY StatusFields DEF Diff, Changes
<1>3. \A r \in DOMAIN Diff(update) \cap {datfile_open, g3stream_open} :
        Diff(update)[r] \in {0, 1}
  BY StatusFields DEF Diff, Changes
<1> QED  BY <1>1, <1>2, <1>3 DEF Status

\* The frames that the calls return.
LEMMA FrameTypes ==
  /\ \A fc \in {"ALIVE", "START", "END"} : flowcontrol_frame(fc) \in Frame
  /\ \A t \in {"Observation", "Wiring"} : cleanse_frame(t) \in Frame
  /\ \A p \in {"start", "end"}, id \in Nat, num \in Nat :
       ObservationFrame(p, id, num) \in Frame
  /\ \A d \in {0, 1}, st \in Status, id \in Nat, num \in Nat :
       WiringFrame(d, st, id, num) \in Frame
  /\ \A id \in Nat, num \in Nat : ScanFrame(id, num) \in Frame
BY DEF flowcontrol_frame, cleanse_frame, ObservationFrame, WiringFrame, ScanFrame, Frame

\* What a follower learns from a frame keeps its type.
LEMMA FollowType ==
  ASSUME TypeOK, NEW frame \in Frame
  PROVE  /\ Follow(frame).session \in Nat \cup {NoSession}
         /\ Follow(frame).number \in Nat
         /\ Follow(frame).replica \in Status
<1>0. /\ view.session \in Nat \cup {NoSession} /\ view.number \in Nat
      /\ view.replica \in Status
  BY DEF TypeOK
<1>1. Follow(frame).session \in Nat \cup {NoSession}
  BY <1>0 DEF Frame, Follow
<1>2. Follow(frame).number \in Nat
  BY <1>0 DEF Frame, Follow
<1>3. Follow(frame).replica \in Status
  <2>1. CASE "status" \notin DOMAIN frame
    BY <1>0, <2>1 DEF Follow
  <2>2. CASE "status" \in DOMAIN frame
    <3>1. frame.status \in Status
      BY <2>2 DEF Frame
    <3>2. Follow(frame).replica \in {frame.status, Updated(view.replica, frame.status)}
      BY <2>2 DEF Follow
    <3> QED  BY <1>0, <3>1, <3>2, UpdatedType
  <2> QED  BY <2>1, <2>2
<1> QED  BY <1>1, <1>2, <1>3

\* Types, and a stop only inside a session: an end frame can be tagged only there.
ManagerInv == TypeOK /\ StopBelongsToSession

LEMMA ManagerInvariance == Spec => []ManagerInv
<1>1. Init => ManagerInv
  <2> SUFFICES ASSUME Init
               PROVE  ManagerInv
    OBVIOUS
  <2>1. <<>> \in Status
    BY DEF Status
  <2>2. view.session = NoSession /\ view.number = 0 /\ view.replica = <<>>
    BY DEF Init
  <2>3. TypeOK
    <3>1. out \in Seq(Frame)
      BY DEF Init
    <3>2. /\ session_id \in Nat \cup {NoSession} /\ end_session_flag \in BOOLEAN
          /\ frame_num \in Nat /\ time \in Nat
      BY DEF Init
    <3>3. status \in Status /\ view.replica \in Status
      BY <2>1, <2>2 DEF Init
    <3> QED  BY <2>2, <3>1, <3>2, <3>3 DEF TypeOK
  <2>4. StopBelongsToSession
    BY DEF Init, StopBelongsToSession
  <2> QED  BY <2>3, <2>4 DEF ManagerInv
<1>2. ManagerInv /\ [Next]_vars => ManagerInv'
  <2> SUFFICES ASSUME ManagerInv, [Next]_vars
               PROVE  ManagerInv'
    OBVIOUS
  <2> USE DEF ManagerInv, TypeOK, StopBelongsToSession, Active
  <2>1. CASE KeepAlive
    <3>1. out' \in Seq(Frame)
      BY <2>1, FrameTypes DEF KeepAlive
    <3> QED  BY <2>1, <3>1 DEF KeepAlive, Call, managerVars
  <2>2. CASE EndSession
    <3>1. session_id \in Nat
      BY <2>2 DEF EndSession
    <3>2. out' \in Seq(Frame)
      BY <2>2, <3>1, FrameTypes DEF EndSession
    <3> QED  BY <2>2, <3>2 DEF EndSession, Call
  <2>3. CASE PassScan
    <3>1. session_id \in Nat
      BY <2>3 DEF PassScan
    <3>2. out' \in Seq(Frame)
      BY <2>3, <3>1, FrameTypes DEF PassScan
    <3> QED  BY <2>3, <3>2 DEF PassScan, Call
  <2>4. ASSUME NEW update \in Status, StartSession(update)
        PROVE  ManagerInv'
    <3>1. status' \in Status /\ time \in Nat /\ session_id' = time
      BY <2>4, UpdatedType DEF StartSession
    <3>2. out' \in Seq(Frame)
      BY <2>4, <3>1, FrameTypes DEF StartSession
    <3> QED  BY <2>4, <3>1, <3>2, SessionAssumption DEF StartSession, Call
  <2>5. ASSUME NEW update \in Status, IdleUpdate(update)
        PROVE  ManagerInv'
    <3>1. status' \in Status
      BY <2>5, UpdatedType DEF IdleUpdate
    <3> QED  BY <2>5, <3>1 DEF IdleUpdate, Call
  <2>6. ASSUME NEW update \in Status, SessionUpdate(update)
        PROVE  ManagerInv'
    <3>1. status' \in Status /\ Diff(update) \in Status /\ session_id \in Nat
      BY <2>6, UpdatedType, DiffType DEF SessionUpdate
    <3>2. out' \in Seq(Frame)
      BY <2>6, <3>1, FrameTypes DEF SessionUpdate
    <3>3. end_session_flag' \in BOOLEAN
      BY <2>6 DEF SessionUpdate, Closes, Says
    <3> QED  BY <2>6, <3>1, <3>2, <3>3 DEF SessionUpdate, Call
  <2>7. CASE Deliver
    <3>1. Head(out) \in Frame /\ out' \in Seq(Frame) /\ view' = Follow(Head(out))
      BY <2>7 DEF Deliver
    <3>2. /\ view'.session \in Nat \cup {NoSession} /\ view'.number \in Nat
          /\ view'.replica \in Status
      BY <3>1, FollowType
    <3> QED  BY <2>7, <3>1, <3>2 DEF Deliver, managerVars
  <2>8. CASE Tick
    BY <2>8 DEF Tick, managerVars
  <2>9. CASE UNCHANGED vars
    BY <2>9 DEF vars, managerVars
  <2>10. CASE DiscardScan \/ \E update \in Status : SkipUpdate(update)
    BY <2>9, <2>10 DEF DiscardScan, SkipUpdate, Call, vars
  <2> QED  BY <2>1, <2>2, <2>3, <2>4, <2>5, <2>6, <2>7, <2>8, <2>9, <2>10 DEF Next
<1> QED  BY <1>1, <1>2, PTL DEF Spec

\* Every variable keeps its type: every tagged frame carries a session id.
THEOREM TypeCorrect == Spec => []TypeOK
BY ManagerInvariance, PTL DEF ManagerInv

\* A stop never outlives its session, whatever statuses come while no session
\* is active, so no session is ended by a stop that came before it.
THEOREM StopStaysInSession == Spec => []StopBelongsToSession
BY ManagerInvariance, PTL DEF ManagerInv

-----------------------------------------------------------------------------
\* In whatever order the registers are updated, a session without a pending
\* stop has a stream register at 1.
THEOREM OpenUntilStoppedHolds == Spec => []OpenUntilStopped
<1>1. Init => OpenUntilStopped
  BY DEF Init, OpenUntilStopped, Active
<1>2. ManagerInv /\ OpenUntilStopped /\ [Next]_vars => OpenUntilStopped'
  <2> SUFFICES ASSUME ManagerInv, OpenUntilStopped, [Next]_vars
               PROVE  OpenUntilStopped'
    OBVIOUS
  <2>0. status \in Status /\ end_session_flag \in BOOLEAN
    BY DEF ManagerInv, TypeOK
  <2>1. CASE EndSession
    BY <2>1 DEF EndSession, OpenUntilStopped, Active
  <2>2. ASSUME NEW update \in Status, StartSession(update)
        PROVE  OpenUntilStopped'
    <3>1. status' = Updated(status, update) /\ Opens(update)
      BY <2>2 DEF StartSession
    <3>2. \A k : Says(update, k, 1) => Says(status', k, 1)
      BY <2>0, <3>1, UpdatedType DEF Says
    <3> QED  BY <3>1, <3>2 DEF OpenUntilStopped, Opens, Says
  <2>3. ASSUME NEW update \in Status, SessionUpdate(update), ~end_session_flag'
        PROVE  OpenUntilStopped'
    <3>1. /\ status' = Updated(status, update) /\ ~end_session_flag /\ ~Closes(update)
          /\ Active
      BY <2>0, <2>3 DEF SessionUpdate
    <3>2. PICK r \in {datfile_open, g3stream_open} : Says(status, r, 1)
      BY <3>1 DEF OpenUntilStopped
    <3>3. r \in DOMAIN update => update[r] = 1
      BY <3>1, StatusFields DEF Closes, Says
    <3>4. r \in DOMAIN status /\ status[r] = 1
      BY <3>2 DEF Says
    <3>5. /\ r \in DOMAIN status'
          /\ status'[r] = IF r \in DOMAIN update THEN update[r] ELSE status[r]
      BY <3>1, <3>4 DEF Updated
    <3>6. status'[r] = 1
      BY <3>3, <3>4, <3>5
    <3>7. Says(status', r, 1)
      BY <3>5, <3>6 DEF Says
    <3> QED  BY <3>7 DEF OpenUntilStopped, Says
  <2>4. ASSUME NEW update \in Status, SessionUpdate(update), end_session_flag'
        PROVE  OpenUntilStopped'
    BY <2>4 DEF OpenUntilStopped
  <2>5. ASSUME NEW update \in Status, IdleUpdate(update)
        PROVE  OpenUntilStopped'
    BY <2>5 DEF IdleUpdate, OpenUntilStopped, Active
  <2>6. CASE UNCHANGED <<session_id, end_session_flag, status>>
    BY <2>6 DEF OpenUntilStopped, Active, Says
  <2>7. CASE KeepAlive \/ PassScan \/ DiscardScan \/ Deliver \/ Tick \/ UNCHANGED vars
    BY <2>6, <2>7
       DEF KeepAlive, PassScan, DiscardScan, Deliver, Tick, managerVars, vars
  <2>8. CASE \E update \in Status : SkipUpdate(update)
    BY <2>6, <2>8 DEF SkipUpdate, managerVars
  <2> QED  BY <2>1, <2>2, <2>3, <2>4, <2>5, <2>7, <2>8 DEF Next
<1> QED  BY <1>1, <1>2, ManagerInvariance, PTL DEF Spec

-----------------------------------------------------------------------------
(* What follows the frames *)

START == flowcontrol_frame("START")
END   == flowcontrol_frame("END")
CleanseObservation == cleanse_frame("Observation")
CleanseWiring      == cleanse_frame("Wiring")

\* The follower knows what the manager knows.
InStep ==
  /\ view.phase = (IF Active THEN "streaming" ELSE "idle")
  /\ Active => /\ view.replica = status
               /\ view.session = session_id
               /\ view.number = frame_num

\* The next frame is all that the follower lacks of the active session.
OneBehind ==
  /\ Active /\ view.phase = "streaming"
  /\ view.session = session_id /\ frame_num = view.number + 1
  /\ \/ out = <<ScanFrame(session_id, view.number)>> /\ view.replica = status
     \/ \E diff \in Status :
          /\ out = <<WiringFrame(0, diff, session_id, view.number)>>
          /\ DOMAIN diff # {}
          /\ \A k \in DOMAIN diff \cap DOMAIN view.replica : diff[k] # view.replica[k]
          /\ status = Updated(view.replica, diff)

\* A session has started, and its first frames are on their way.
Starting ==
  LET announce == ObservationFrame("start", session_id, 0)
      dump     == WiringFrame(1, status, session_id, 1)
  IN /\ Active /\ frame_num = 2
     /\ \/ out = <<START, announce, dump>> /\ view.phase = "idle"
        \/ out = <<announce, dump>> /\ view.phase = "opened"
        \/ /\ out = <<dump>> /\ view.phase = "announced"
           /\ view.session = session_id /\ view.number = 1

\* A session has ended, and its last frames are on their way.
Ending ==
  /\ ~Active
  /\ \/ /\ out = <<ObservationFrame("end", view.session, view.number), END,
                   CleanseObservation, CleanseWiring>>
        /\ view.phase = "streaming"
     \/ out = <<END, CleanseObservation, CleanseWiring>> /\ view.phase = "closing"
     \/ out = <<CleanseObservation, CleanseWiring>> /\ view.phase = "ended"
     \/ out = <<CleanseWiring>> /\ view.phase = "cleansed"

\* Outside a session the numbers start at 0; ids are seconds that the clock has shown.
NumbersInv ==
  /\ ~Active => frame_num = 0
  /\ time <= MaxTime /\ (Active => session_id <= time)

FollowInv ==
  \/ InStep /\ (out = <<>> \/ out = <<flowcontrol_frame("ALIVE")>>)
  \/ OneBehind \/ Starting \/ Ending

\* Passing on the first of up to four frames leaves the others.
LEMMA TailOf ==
  ASSUME NEW a, NEW b, NEW c, NEW d
  PROVE  /\ Head(<<a>>) = a /\ Tail(<<a>>) = <<>>
         /\ Head(<<a, b>>) = a /\ Tail(<<a, b>>) = <<b>>
         /\ Head(<<a, b, c>>) = a /\ Tail(<<a, b, c>>) = <<b, c>>
         /\ Head(<<a, b, c, d>>) = a /\ Tail(<<a, b, c, d>>) = <<b, c, d>>
OBVIOUS

\* A frame changes no more of what a follower knows than the phase and the frame seen.
Tells(frame, phase) ==
  /\ Follow(frame).last = frame /\ Follow(frame).phase = phase
  /\ Follow(frame).session = view.session /\ Follow(frame).number = view.number
  /\ Follow(frame).replica = view.replica

\* What a follower learns from a flow control frame.
LEMMA FollowFlow ==
  /\ Tells(flowcontrol_frame("ALIVE"), view.phase)
  /\ Tells(START, "opened") /\ Tells(END, "ended")
  /\ Tells(CleanseObservation, "cleansed") /\ Tells(CleanseWiring, "idle")
<1>1. ASSUME NEW fc \in {"ALIVE", "START", "END"}
      PROVE  Tells(flowcontrol_frame(fc), CASE fc = "START" -> "opened" [] fc = "END" -> "ended"
                                            [] fc = "ALIVE" -> view.phase)
  BY DEF Tells, Follow, flowcontrol_frame
<1>2. Tells(CleanseObservation, "cleansed") /\ Tells(CleanseWiring, "idle")
  BY DEF Tells, Follow, flowcontrol_frame, CleanseObservation, CleanseWiring, cleanse_frame
<1> QED  BY <1>1, <1>2 DEF START, END

\* What a follower learns from the observation frame that opens or closes a session.
LEMMA FollowObservation ==
  ASSUME NEW id, NEW num, NEW placement \in {"start", "end"}
  PROVE  LET f == Follow(ObservationFrame(placement, id, num)) IN
           /\ f.session = id /\ f.number = num + 1 /\ f.replica = view.replica
           /\ f.phase = IF placement = "start" THEN "announced" ELSE "closing"
BY DEF Follow, ObservationFrame, flowcontrol_frame

\* What a follower learns from a dump, a difference, or data.
LEMMA FollowTagged ==
  ASSUME NEW id, NEW num, NEW st, NEW dump \in {0, 1}
  PROVE  LET wiring == Follow(WiringFrame(dump, st, id, num))
             scan == Follow(ScanFrame(id, num))
         IN /\ wiring.session = id /\ wiring.number = num + 1 /\ wiring.phase = "streaming"
            /\ wiring.replica = IF dump = 1 THEN st ELSE Updated(view.replica, st)
            /\ scan.session = id /\ scan.number = num + 1 /\ scan.phase = "streaming"
            /\ scan.replica = view.replica
<1>1. LET f == Follow(WiringFrame(dump, st, id, num)) IN
        /\ f.session = id /\ f.number = num + 1 /\ f.phase = "streaming"
        /\ f.replica = IF dump = 1 THEN st ELSE Updated(view.replica, st)
  BY DEF Follow, WiringFrame, flowcontrol_frame
<1>2. LET f == Follow(ScanFrame(id, num)) IN
        /\ f.session = id /\ f.number = num + 1 /\ f.phase = "streaming"
        /\ f.replica = view.replica
  BY DEF Follow, ScanFrame, flowcontrol_frame
<1> QED  BY <1>1, <1>2

\* What is known already may be left out of an update.
LEMMA DiffSuffices ==
  ASSUME NEW update \in Status, status \in Status
  PROVE  /\ Updated(status, update) = Updated(status, Diff(update))
         /\ DOMAIN Diff(update) = Changes(update)
         /\ \A k \in DOMAIN Diff(update) \cap DOMAIN status : Diff(update)[k] # status[k]
<1>1. /\ DOMAIN Diff(update) = Changes(update)
      /\ \A k \in Changes(update) : Diff(update)[k] = update[k]
  BY DEF Diff
<1>2. DOMAIN status \cup DOMAIN update = DOMAIN status \cup Changes(update)
  BY DEF Changes
<1>3. \A k \in DOMAIN status \cup DOMAIN update :
        (IF k \in DOMAIN update THEN update[k] ELSE status[k])
          = (IF k \in Changes(update) THEN Diff(update)[k] ELSE status[k])
  BY <1>1 DEF Changes
<1>4. Updated(status, update) = Updated(status, Diff(update))
  BY <1>1, <1>2, <1>3 DEF Updated
<1> QED  BY <1>1, <1>4 DEF Changes

FollowerInv == FollowInv /\ NumbersInv

\* No call finds the follower behind.
LEMMA InStepAtCalls ==
  ASSUME FollowInv, out = <<>>
  PROVE  InStep
BY DEF FollowInv, OneBehind, Starting, Ending

\* A call takes a follower in step at most one call behind.
LEMMA CallsFollowed ==
  ASSUME ManagerInv, FollowerInv, out = <<>>, view' = view, time' = time,
         \/ KeepAlive \/ EndSession \/ PassScan
         \/ \E update \in Status :
              StartSession(update) \/ IdleUpdate(update) \/ SessionUpdate(update)
  PROVE  FollowerInv'
<1>0. /\ InStep /\ NumbersInv /\ status \in Status /\ time \in Nat
      /\ session_id \in Nat \cup {NoSession} /\ frame_num \in Nat
  BY InStepAtCalls DEF FollowerInv, ManagerInv, TypeOK
<1>1. CASE KeepAlive
  <2>1. InStep' /\ NumbersInv'
    BY <1>0, <1>1 DEF KeepAlive, managerVars, InStep, NumbersInv, Active
  <2> QED  BY <1>1, <2>1 DEF KeepAlive, FollowerInv, FollowInv
<1>2. CASE EndSession
  <2>1. Active
    BY <1>2 DEF EndSession, ManagerInv, StopBelongsToSession
  <2>2. ~Active' /\ NumbersInv'
    BY <1>0, <1>2 DEF EndSession, NumbersInv, Active
  <2>3. Ending'
    BY <1>0, <1>2, <2>1, <2>2
       DEF EndSession, InStep, Ending, END, CleanseObservation, CleanseWiring
  <2> QED  BY <2>2, <2>3 DEF FollowerInv, FollowInv
<1>3. CASE PassScan
  <2>1. Active' /\ NumbersInv'
    BY <1>0, <1>3 DEF PassScan, NumbersInv, Active
  <2>2. OneBehind'
    BY <1>0, <1>3, <2>1 DEF PassScan, InStep, OneBehind
  <2> QED  BY <2>1, <2>2 DEF FollowerInv, FollowInv
<1>4. ASSUME NEW update \in Status, StartSession(update)
      PROVE  FollowerInv'
  <2>1. ~Active /\ frame_num = 0 /\ frame_num' = 2 /\ session_id' = time
    BY <1>0, <1>4 DEF StartSession, NumbersInv
  <2>2. Active' /\ NumbersInv'
    BY <1>0, <2>1, SessionAssumption DEF NumbersInv, Active
  <2>3. out' = <<START, ObservationFrame("start", session_id', 0),
                 WiringFrame(1, status', session_id', 1)>>
    BY <1>4, <2>1 DEF StartSession, START
  <2>4. Starting'
    BY <1>0, <2>1, <2>2, <2>3 DEF InStep, Starting
  <2> QED  BY <2>2, <2>4 DEF FollowerInv, FollowInv
<1>5. ASSUME NEW update \in Status, IdleUpdate(update)
      PROVE  FollowerInv'
  <2>1. InStep' /\ NumbersInv'
    BY <1>0, <1>5 DEF IdleUpdate, InStep, NumbersInv, Active
  <2> QED  BY <1>5, <2>1 DEF IdleUpdate, FollowerInv, FollowInv
<1>6. ASSUME NEW update \in Status, SessionUpdate(update)
      PROVE  FollowerInv'
  <2> DEFINE d == Diff(update)
  <2>1. Active /\ Active' /\ NumbersInv'
    BY <1>0, <1>6 DEF SessionUpdate, NumbersInv, Active
  <2>2. /\ d \in Status /\ DOMAIN d # {}
        /\ \A k \in DOMAIN d \cap DOMAIN status : d[k] # status[k]
        /\ status' = Updated(status, d)
    BY <1>0, <1>6, DiffType, DiffSuffices DEF SessionUpdate
  <2>3. /\ view.phase = "streaming" /\ view.replica = status
        /\ view.session = session_id /\ view.number = frame_num
    BY <1>0, <2>1 DEF InStep
  <2>4. /\ out' = <<WiringFrame(0, d, session_id', view.number)>>
        /\ session_id' = session_id /\ frame_num' = frame_num + 1
    BY <1>6, <2>3 DEF SessionUpdate
  <2>5. OneBehind'
    BY <2>1, <2>2, <2>3, <2>4 DEF OneBehind
  <2> QED  BY <2>1, <2>5 DEF FollowerInv, FollowInv
<1> QED  BY <1>1, <1>2, <1>3, <1>4, <1>5, <1>6

\* A frame that is passed on is the next one of the session protocol, and
\* brings the follower nearer to the manager.
LEMMA DeliverFollowed ==
  ASSUME ManagerInv, FollowerInv, Deliver
  PROVE  FollowerInv' /\ Protocol!Next
<1> DEFINE frame == Head(out)
<1>0. /\ out # <<>> /\ view' = Follow(frame) /\ out' = Tail(out)
      /\ session_id' = session_id /\ status' = status /\ frame_num' = frame_num
      /\ time' = time /\ (Active' <=> Active)
      /\ session_id \in Nat \cup {NoSession} /\ time \in Nat /\ status \in Status
      /\ NumbersInv /\ FollowInv
  BY DEF Deliver, managerVars, Active, ManagerInv, TypeOK, FollowerInv
<1>1. NumbersInv' /\ view'.last = frame
  BY <1>0 DEF NumbersInv, Active, Follow
<1>2. CASE out = <<flowcontrol_frame("ALIVE")>> /\ InStep
  <2>1. frame = flowcontrol_frame("ALIVE") /\ out' = <<>>
    BY <1>0, <1>2, TailOf
  <2>2. /\ view'.phase = view.phase /\ view'.session = view.session
        /\ view'.number = view.number /\ view'.replica = view.replica
    BY <1>0, <2>1, FollowFlow DEF Tells
  <2>3. InStep'
    BY <1>0, <1>2, <2>2 DEF InStep
  <2>4. Protocol!Alive
    BY <1>1, <1>2, <2>1, <2>2
       DEF Protocol!Alive, Protocol!See, Protocol!Flow, flowcontrol_frame, InStep
  <2> QED  BY <1>1, <2>1, <2>3, <2>4 DEF FollowerInv, FollowInv, Protocol!Next
<1>3. CASE OneBehind
  <2>1. CASE out = <<ScanFrame(session_id, view.number)>> /\ view.replica = status
    <3>1. frame = ScanFrame(session_id, view.number) /\ out' = <<>>
      BY <1>0, <2>1, TailOf
    <3>2. /\ view'.phase = "streaming" /\ view'.session = session_id
          /\ view'.number = view.number + 1 /\ view'.replica = status
      BY <1>0, <2>1, <3>1, FollowTagged
    <3>3. InStep'
      BY <1>0, <1>3, <3>2 DEF InStep, OneBehind
    <3>4. Protocol!Data
      BY <1>1, <1>3, <2>1, <3>1, <3>2
         DEF Protocol!Data, Protocol!See, Protocol!Scan, ScanFrame, OneBehind
    <3> QED  BY <1>1, <3>1, <3>3, <3>4 DEF FollowerInv, FollowInv, Protocol!Next
  <2>2. ASSUME NEW diff \in Status,
               out = <<WiringFrame(0, diff, session_id, view.number)>>,
               DOMAIN diff # {},
               \A k \in DOMAIN diff \cap DOMAIN view.replica : diff[k] # view.replica[k],
               status = Updated(view.replica, diff)
        PROVE  FollowerInv' /\ Protocol!Next
    <3>1. frame = WiringFrame(0, diff, session_id, view.number) /\ out' = <<>>
      BY <1>0, <2>2, TailOf
    <3>2. /\ view'.phase = "streaming" /\ view'.session = session_id
          /\ view'.number = view.number + 1 /\ view'.replica = status
      BY <1>0, <2>2, <3>1, FollowTagged
    <3>3. InStep'
      BY <1>0, <1>3, <3>2 DEF InStep, OneBehind
    <3>4. Protocol!Difference
      <4>1. Protocol!Updated(view.replica, diff) = status
        BY <2>2 DEF Protocol!Updated, Updated
      <4>2. Protocol!See(Protocol!Wiring(0, diff, view.session, view.number),
                         "streaming", "streaming")
        BY <1>1, <1>3, <3>1, <3>2 DEF Protocol!See, Protocol!Wiring, WiringFrame, OneBehind
      <4> QED  BY <1>3, <2>2, <3>2, <4>1, <4>2 DEF Protocol!Difference, OneBehind
    <3> QED  BY <1>1, <3>1, <3>3, <3>4 DEF FollowerInv, FollowInv, Protocol!Next
  <2> QED  BY <1>3, <2>1, <2>2 DEF OneBehind
<1>4. CASE Starting
  <2> DEFINE announce == ObservationFrame("start", session_id, 0)
             dump     == WiringFrame(1, status, session_id, 1)
  <2>0. Active /\ frame_num = 2 /\ session_id \in 0..MaxTime
    BY <1>0, <1>4, LimitsAssumption DEF Starting, NumbersInv, Active
  <2>1. CASE out = <<START, announce, dump>> /\ view.phase = "idle"
    <3>1. frame = START /\ out' = <<announce, dump>>
      BY <1>0, <2>1, TailOf
    <3>2. /\ view'.phase = "opened" /\ view'.session = view.session
          /\ view'.number = view.number /\ view'.replica = view.replica
      BY <1>0, <3>1, FollowFlow DEF Tells
    <3>3. Starting'
      BY <1>0, <2>0, <3>1, <3>2 DEF Starting
    <3>4. Protocol!Open
      BY <1>1, <2>1, <3>1, <3>2
         DEF Protocol!Open, Protocol!See, Protocol!Flow, START, flowcontrol_frame
    <3> QED  BY <1>1, <3>3, <3>4 DEF FollowerInv, FollowInv, Protocol!Next
  <2>2. CASE out = <<announce, dump>> /\ view.phase = "opened"
    <3>1. frame = announce /\ out' = <<dump>>
      BY <1>0, <2>2, TailOf
    <3>2. /\ view'.phase = "announced" /\ view'.session = session_id
          /\ view'.number = 1 /\ view'.replica = view.replica
      BY <1>0, <3>1, FollowObservation
    <3>3. Starting'
      BY <1>0, <2>0, <3>1, <3>2 DEF Starting
    <3>4. Protocol!Announce
      BY <1>1, <2>0, <2>2, <3>1, <3>2
         DEF Protocol!Announce, Protocol!See, Protocol!Observation, ObservationFrame
    <3> QED  BY <1>1, <3>3, <3>4 DEF FollowerInv, FollowInv, Protocol!Next
  <2>3. CASE /\ out = <<dump>> /\ view.phase = "announced"
             /\ view.session = session_id /\ view.number = 1
    <3>1. frame = dump /\ out' = <<>>
      BY <1>0, <2>3, TailOf
    <3>2. /\ view'.phase = "streaming" /\ view'.session = session_id
          /\ view'.number = 2 /\ view'.replica = status
      BY <1>0, <3>1, FollowTagged
    <3>3. InStep'
      BY <1>0, <2>0, <3>2 DEF InStep
    <3>4. Protocol!Dump
      BY <1>0, <1>1, <2>3, <3>1, <3>2
         DEF Protocol!Dump, Protocol!See, Protocol!Wiring, WiringFrame
    <3> QED  BY <1>1, <3>1, <3>3, <3>4 DEF FollowerInv, FollowInv, Protocol!Next
  <2> QED  BY <1>4, <2>1, <2>2, <2>3 DEF Starting
<1>5. CASE Ending
  <2>0. ~Active
    BY <1>5 DEF Ending
  <2>1. CASE /\ view.phase = "streaming"
             /\ out = <<ObservationFrame("end", view.session, view.number), END,
                        CleanseObservation, CleanseWiring>>
    <3>1. /\ frame = ObservationFrame("end", view.session, view.number)
          /\ out' = <<END, CleanseObservation, CleanseWiring>>
      BY <1>0, <2>1, TailOf
    <3>2. /\ view'.phase = "closing" /\ view'.session = view.session
          /\ view'.number = view.number + 1 /\ view'.replica = view.replica
      BY <1>0, <3>1, FollowObservation
    <3>3. Ending'
      BY <1>0, <2>0, <3>1, <3>2 DEF Ending
    <3>4. Protocol!Close
      BY <1>1, <2>1, <3>1, <3>2
         DEF Protocol!Close, Protocol!See, Protocol!Observation, ObservationFrame
    <3> QED  BY <1>1, <3>3, <3>4 DEF FollowerInv, FollowInv, Protocol!Next
  <2>2. CASE out = <<END, CleanseObservation, CleanseWiring>> /\ view.phase = "closing"
    <3>1. frame = END /\ out' = <<CleanseObservation, CleanseWiring>>
      BY <1>0, <2>2, TailOf
    <3>2. /\ view'.phase = "ended" /\ view'.session = view.session
          /\ view'.number = view.number /\ view'.replica = view.replica
      BY <1>0, <3>1, FollowFlow DEF Tells
    <3>3. Ending'
      BY <1>0, <2>0, <3>1, <3>2 DEF Ending
    <3>4. Protocol!End
      BY <1>1, <2>2, <3>1, <3>2
         DEF Protocol!End, Protocol!See, Protocol!Flow, END, flowcontrol_frame
    <3> QED  BY <1>1, <3>3, <3>4 DEF FollowerInv, FollowInv, Protocol!Next
  <2>3. CASE out = <<CleanseObservation, CleanseWiring>> /\ view.phase = "ended"
    <3>1. frame = CleanseObservation /\ out' = <<CleanseWiring>>
      BY <1>0, <2>3, TailOf
    <3>2. /\ view'.phase = "cleansed" /\ view'.session = view.session
          /\ view'.number = view.number /\ view'.replica = view.replica
      BY <1>0, <3>1, FollowFlow DEF Tells
    <3>3. Ending'
      BY <1>0, <2>0, <3>1, <3>2 DEF Ending
    <3>4. Protocol!CleanseObservation
      BY <1>1, <2>3, <3>1, <3>2
         DEF Protocol!CleanseObservation, Protocol!See, Protocol!Cleanse,
             CleanseObservation, cleanse_frame
    <3> QED  BY <1>1, <3>3, <3>4 DEF FollowerInv, FollowInv, Protocol!Next
  <2>4. CASE out = <<CleanseWiring>> /\ view.phase = "cleansed"
    <3>1. frame = CleanseWiring /\ out' = <<>>
      BY <1>0, <2>4, TailOf
    <3>2. /\ view'.phase = "idle" /\ view'.session = view.session
          /\ view'.number = view.number /\ view'.replica = view.replica
      BY <1>0, <3>1, FollowFlow DEF Tells
    <3>3. InStep'
      BY <1>0, <2>0, <3>2 DEF InStep
    <3>4. Protocol!CleanseWiring
      BY <1>1, <2>4, <3>1, <3>2
         DEF Protocol!CleanseWiring, Protocol!See, Protocol!Cleanse,
             CleanseWiring, cleanse_frame
    <3> QED  BY <1>1, <3>1, <3>3, <3>4 DEF FollowerInv, FollowInv, Protocol!Next
  <2> QED  BY <1>5, <2>1, <2>2, <2>3, <2>4 DEF Ending
<1> QED  BY <1>0, <1>2, <1>3, <1>4, <1>5 DEF FollowInv

\* Only Deliver shows the follower anything.
LEMMA StepsFollowed ==
  ASSUME ManagerInv, FollowerInv, [Next]_vars
  PROVE  FollowerInv' /\ (Protocol!Next \/ view' = view)
<1>1. CASE \/ KeepAlive \/ EndSession \/ PassScan
           \/ \E update \in Status :
                StartSession(update) \/ IdleUpdate(update) \/ SessionUpdate(update)
  <2>1. out = <<>> /\ view' = view /\ time' = time
    BY <1>1 DEF KeepAlive, EndSession, PassScan, StartSession, IdleUpdate, SessionUpdate, Call
  <2> QED  BY <1>1, <2>1, CallsFollowed
<1>2. CASE Deliver
  BY <1>2, DeliverFollowed
<1>3. CASE Tick
  <2>1. /\ UNCHANGED <<managerVars, out, view>> /\ time' = time + 1 /\ time < MaxTime
        /\ time \in Nat /\ session_id \in Nat \cup {NoSession}
    BY <1>3 DEF Tick, ManagerInv, TypeOK
  <2>2. NumbersInv'
    BY <2>1, LimitsAssumption DEF managerVars, FollowerInv, NumbersInv, Active
  <2>3. FollowInv'
    BY <2>1 DEF managerVars, FollowerInv, FollowInv, InStep, OneBehind, Starting, Ending, Active
  <2> QED  BY <2>1, <2>2, <2>3 DEF FollowerInv
<1>4. CASE DiscardScan \/ (\E update \in Status : SkipUpdate(update)) \/ UNCHANGED vars
  <2>1. UNCHANGED <<session_id, end_session_flag, frame_num, status, out, time, view>>
    BY <1>4 DEF DiscardScan, SkipUpdate, Call, vars, managerVars
  <2>2. FollowInv' /\ NumbersInv'
    BY <2>1 DEF FollowerInv, FollowInv, InStep, OneBehind, Starting, Ending, NumbersInv, Active
  <2> QED  BY <2>1, <2>2 DEF FollowerInv
<1> QED  BY <1>1, <1>2, <1>3, <1>4 DEF Next

\* The follower is never further behind than the frames on their way.
LEMMA FollowerInvariance == Spec => []FollowerInv
<1>1. Init => FollowerInv
  <2> SUFFICES ASSUME Init
               PROVE  FollowerInv
    OBVIOUS
  <2>1. ~Active /\ out = <<>> /\ view.phase = "idle" /\ frame_num = 0 /\ time = 0
    BY DEF Init, Active
  <2> QED  BY <2>1, LimitsAssumption DEF FollowerInv, FollowInv, InStep, NumbersInv
<1>2. ManagerInv /\ FollowerInv /\ [Next]_vars => FollowerInv'
  BY StepsFollowed
<1> QED  BY <1>1, <1>2, ManagerInvariance, PTL DEF Spec

\* Whoever believes the dump and the differences of a session knows the
\* manager's registers, session and frame number.
THEOREM FollowersStayInStep == Spec => []FollowersInStep
<1>1. FollowerInv => FollowersInStep
  BY InStepAtCalls DEF FollowerInv, InStep, FollowersInStep
<1> QED  BY <1>1, FollowerInvariance, PTL

\* Frame by frame, what __call__ returns obeys the session protocol.
THEOREM ImplementsProtocol == Spec => ProtocolSpec
<1>1. Init => Protocol!Init
  BY DEF Init, Protocol!Init, Protocol!Flow, flowcontrol_frame
<1>2. ManagerInv /\ FollowerInv /\ [Next]_vars => [Protocol!Next]_Protocol!vars
  BY StepsFollowed DEF Protocol!vars
<1> QED  BY <1>1, <1>2, ManagerInvariance, FollowerInvariance, PTL
         DEF Spec, ProtocolSpec, Protocol!Spec
=============================================================================
