--------------------------- MODULE SessionManager ---------------------------
(***************************************************************************)
(* The SessionManager: the pipeline module behind the SmurfBuilder that    *)
(* groups frames into sessions.  A status in which a stream register is 1  *)
(* starts a session, one in which it is 0 marks the session for ending,    *)
(* and the next frame of type none ends it.                                *)
(*                                                                         *)
(* One action per call: __call__ runs to completion in the pipeline's      *)
(* thread, and the pipeline passes each frame it returns through all later *)
(* modules before the next call (Deliver).  view is what a module behind   *)
(* learns from those frames if it believes every one of them.              *)
(***************************************************************************)
EXTENDS Naturals, Sequences

CONSTANTS
  Register,       \* names of status registers
  datfile_open,   \* the register of pysmurf's own file writer
  g3stream_open,  \* the register that opens the G3 stream
  Value,          \* values of registers
  NoSession,      \* None
  MaxTime,        \* bound: seconds of time.time() in a behaviour
  MaxFrameNum     \* bound: a session takes frames below this frame_num

ASSUME RegisterAssumption ==
  /\ datfile_open \in Register /\ g3stream_open \in Register
  /\ {0, 1} \subseteq Value
ASSUME SessionAssumption == NoSession \notin Nat
ASSUME LimitsAssumption == MaxTime \in Nat /\ MaxFrameNum \in Nat

\* A status tells the values of some of the registers; those two are flags.
Status ==
  {st \in UNION {[keys -> Value] : keys \in SUBSET Register} :
     \A r \in DOMAIN st \cap {datfile_open, g3stream_open} : st[r] \in {0, 1}}

\* dict.update: what new says replaces what old says.
Updated(old, new) ==
  [k \in DOMAIN old \cup DOMAIN new |-> IF k \in DOMAIN new THEN new[k] ELSE old[k]]

VARIABLES
  session_id,        \* id of the session, or NoSession
  end_session_flag,  \* a stop was seen: the next none frame ends the session
  frame_num,         \* number of the next tagged frame
  status,            \* the registers, as far as statuses told them
  out,               \* frames the last call returned, not yet passed on
  time,              \* aux: time.time() in whole seconds
  view               \* aux: what the modules behind have seen

managerVars == <<session_id, end_session_flag, frame_num, status>>
vars == <<managerVars, out, time, view>>

-----------------------------------------------------------------------------
(* Frames *)

flowcontrol_frame(fc) == [type |-> "none", flowcontrol |-> fc]
cleanse_frame(type) == [type |-> type, flowcontrol |-> "CLEANSE"]

\* tag_frame puts the session and the next number on a frame.
ObservationFrame(placement, id, num) ==
  [type |-> "Observation", placement |-> placement, session_id |-> id, frame_num |-> num]
WiringFrame(dump, st, id, num) ==
  [type |-> "Wiring", dump |-> dump, status |-> st, session_id |-> id, frame_num |-> num]
ScanFrame(id, num) == [type |-> "Scan", session_id |-> id, frame_num |-> num]

Frame ==
  [type : {"none"}, flowcontrol : {"ALIVE", "START", "END"}]
  \cup [type : {"Observation", "Wiring"}, flowcontrol : {"CLEANSE"}]
  \cup [type : {"Observation"}, placement : {"start", "end"},
        session_id : Nat, frame_num : Nat]
  \cup [type : {"Wiring"}, dump : {0, 1}, status : Status,
        session_id : Nat, frame_num : Nat]
  \cup [type : {"Scan"}, session_id : Nat, frame_num : Nat]

-----------------------------------------------------------------------------
Init ==
  /\ session_id = NoSession /\ end_session_flag = FALSE
  /\ frame_num = 0 /\ status = <<>>
  /\ out = <<>> /\ time = 0
  /\ view = [last |-> flowcontrol_frame("ALIVE"), phase |-> "idle",
             session |-> NoSession, number |-> 0, replica |-> <<>>]

Active == session_id # NoSession

\* The pipeline calls the next module only with what the last call returned.
Call == out = <<>> /\ UNCHANGED <<time, view>>

(* Frames of type none *)

KeepAlive ==
  /\ Call
  /\ ~end_session_flag
  /\ out' = <<flowcontrol_frame("ALIVE")>>
  /\ UNCHANGED managerVars

EndSessionMutantResetFirst ==  \* the state is reset before the end frame is made
  /\ Call
  /\ end_session_flag
  /\ out' = <<ObservationFrame("end", NoSession, 0), flowcontrol_frame("END"),
              cleanse_frame("Observation"), cleanse_frame("Wiring")>>
  /\ session_id' = NoSession /\ end_session_flag' = FALSE /\ frame_num' = 0
  /\ UNCHANGED status

EndSessionMutantKeepsNumber ==  \* frame_num is not reset
  /\ Call
  /\ end_session_flag
  /\ out' = <<ObservationFrame("end", session_id, frame_num), flowcontrol_frame("END"),
              cleanse_frame("Observation"), cleanse_frame("Wiring")>>
  /\ session_id' = NoSession /\ end_session_flag' = FALSE
  /\ UNCHANGED <<status, frame_num>>

EndSession ==
  /\ Call
  /\ end_session_flag
  /\ out' = <<ObservationFrame("end", session_id, frame_num), flowcontrol_frame("END"),
              cleanse_frame("Observation"), cleanse_frame("Wiring")>>
  /\ session_id' = NoSession /\ end_session_flag' = FALSE /\ frame_num' = 0
  /\ UNCHANGED status

(* Scan frames *)

PassScan ==
  /\ Call
  /\ Active
  /\ frame_num < MaxFrameNum
  /\ out' = <<ScanFrame(session_id, frame_num)>>
  /\ frame_num' = frame_num + 1
  /\ UNCHANGED <<session_id, end_session_flag, status>>

\* Data that arrives outside a session is discarded.
DiscardScan ==
  /\ Call
  /\ ~Active
  /\ UNCHANGED <<managerVars, out>>

(* Wiring frames *)

\* What a register update says that is not known yet.
ChangesMutantNewOnly(update) ==  \* a new value of a known register is lost
  {k \in DOMAIN update : k \notin DOMAIN status}
Changes(update) ==
  {k \in DOMAIN update : k \notin DOMAIN status \/ update[k] # status[k]}
Diff(update) == [k \in Changes(update) |-> update[k]]

Says(update, register, value) ==
  register \in DOMAIN update /\ update[register] = value
Opens(update) == Says(update, datfile_open, 1) \/ Says(update, g3stream_open, 1)
ClosesMutantG3Only(update) == Says(update, g3stream_open, 0)
Closes(update) == Says(update, datfile_open, 0) \/ Says(update, g3stream_open, 0)

SkipUpdate(update) ==
  /\ Call
  /\ Changes(update) = {}
  /\ UNCHANGED <<managerVars, out>>

StartSession(update) ==
  /\ Call
  /\ Changes(update) # {} /\ ~Active /\ Opens(update)
  /\ status' = Updated(status, update)
  /\ session_id' = time
  /\ out' = <<flowcontrol_frame("START"),
              ObservationFrame("start", time, frame_num),
              WiringFrame(1, status', time, frame_num + 1)>>
  /\ frame_num' = frame_num + 2
  /\ UNCHANGED end_session_flag

IdleUpdateMutantSetsFlag(update) ==  \* a stop is noted outside a session
  /\ Call
  /\ Changes(update) # {} /\ ~Active /\ ~Opens(update)
  /\ status' = Updated(status, update)
  /\ end_session_flag' = (end_session_flag \/ Closes(update))
  /\ UNCHANGED <<session_id, frame_num, out>>

IdleUpdate(update) ==
  /\ Call
  /\ Changes(update) # {} /\ ~Active /\ ~Opens(update)
  /\ status' = Updated(status, update)
  /\ UNCHANGED <<session_id, end_session_flag, frame_num, out>>

SessionUpdate(update) ==
  /\ Call
  /\ Changes(update) # {} /\ Active
  /\ frame_num < MaxFrameNum
  /\ status' = Updated(status, update)
  /\ end_session_flag' = (end_session_flag \/ Closes(update))
  /\ out' = <<WiringFrame(0, Diff(update), session_id, frame_num)>>
  /\ frame_num' = frame_num + 1
  /\ UNCHANGED session_id

(* The pipeline behind, and the clock *)

\* A module behind believes what each frame says.
Follow(frame) ==
  [last    |-> frame,
   phase   |-> CASE frame.type = "Observation" /\ "placement" \in DOMAIN frame ->
                      IF frame.placement = "start" THEN "announced" ELSE "closing"
                 [] frame.type = "Observation" /\ "flowcontrol" \in DOMAIN frame -> "cleansed"
                 [] frame.type = "Wiring" /\ "flowcontrol" \in DOMAIN frame -> "idle"
                 [] frame = flowcontrol_frame("START") -> "opened"
                 [] frame = flowcontrol_frame("END") -> "ended"
                 [] frame = flowcontrol_frame("ALIVE") -> view.phase
                 [] OTHER -> "streaming",
   session |-> IF "session_id" \in DOMAIN frame THEN frame.session_id ELSE view.session,
   number  |-> IF "frame_num" \in DOMAIN frame THEN frame.frame_num + 1 ELSE view.number,
   replica |-> IF "status" \notin DOMAIN frame THEN view.replica
               ELSE IF frame.dump = 1 THEN frame.status
               ELSE Updated(view.replica, frame.status)]

Deliver ==
  /\ out # <<>>
  /\ view' = Follow(Head(out))
  /\ out' = Tail(out)
  /\ UNCHANGED <<managerVars, time>>

Tick ==
  /\ time < MaxTime
  /\ time' = time + 1
  /\ UNCHANGED <<managerVars, out, view>>

Next ==
  \/ KeepAlive \/ EndSession
  \/ PassScan \/ DiscardScan
  \/ \E update \in Status :
       \/ SkipUpdate(update) \/ StartSession(update)
       \/ IdleUpdate(update) \/ SessionUpdate(update)
  \/ Deliver
  \/ Tick

Spec == Init /\ [][Next]_vars

-----------------------------------------------------------------------------
(* Properties *)

\* Every variable keeps its type; in particular every tagged frame carries a
\* session id.
TypeOK ==
  /\ session_id \in Nat \cup {NoSession}
  /\ end_session_flag \in BOOLEAN
  /\ frame_num \in Nat
  /\ status \in Status
  /\ out \in Seq(Frame)
  /\ time \in Nat
  /\ view.session \in Nat \cup {NoSession} /\ view.number \in Nat
  /\ view.replica \in Status

\* A stop never outlives its session: the flag left over from one session
\* would end the next one on its first keep-alive.
StopBelongsToSession == end_session_flag => Active

\* A session goes on without a stop pending only while a stream register is
\* still 1, in whatever order and combination the registers were updated.
OpenUntilStopped ==
  Active /\ ~end_session_flag =>
    Says(status, datfile_open, 1) \/ Says(status, g3stream_open, 1)

\* Whoever follows the frames of a session, the dump and the differences after
\* it, knows exactly the registers, the session and the frame number that the
\* manager knows, registers first reported between sessions included.
FollowersInStep ==
  out = <<>> =>
    /\ view.phase = (IF Active THEN "streaming" ELSE "idle")
    /\ Active => /\ view.replica = status
                 /\ view.session = session_id
                 /\ view.number = frame_num

\* Frame by frame, the manager implements the session protocol.
Protocol == INSTANCE SessionProtocol WITH
  SessionId <- 0..MaxTime, last <- view.last, phase <- view.phase,
  session <- view.session, number <- view.number, replica <- view.replica
ProtocolSpec == Protocol!Spec

(* What comments of the code say and the code does not do *)

\* _StreamBase.py, startG3Stream: "Opens the G3 data stream".  While the G3
\* stream register is 1 and every frame has been passed on, a session is active,
\* so that data is not discarded.
OpenStreamHasSession ==
  out = <<>> /\ Says(status, g3stream_open, 1) => Active
=============================================================================
