--------------------------- MODULE StreamPipeline ----------------------------
(***************************************************************************)
(* The G3 pipeline of the stream scripts: the SmurfBuilder puts frames     *)
(* into its output queue from two threads, and the pipeline's thread takes *)
(* them out, one at a time, and calls the SessionManager with each.        *)
(*                                                                         *)
(* The builder knows samples and statuses by their order of arrival, the   *)
(* manager knows only the frames: whether a session holds the data that    *)
(* arrived while it was open is decided between the two.                   *)
(*                                                                         *)
(* The clock stands still: session ids play no role here.                  *)
(***************************************************************************)
EXTENDS Naturals, Sequences

CONSTANTS
  NumberChannels, Statuses, MaxQueueSize, UninitQueueSize,
  NoPkt, MaxPackets, MaxOutQueue,
  Register, datfile_open, g3stream_open, Value, NoSession, MaxTime, MaxFrameNum

VARIABLES
  queue_, pkt, sent, write_stash_, read_stash_, queue_size_, dropped_frames_,
  start, stop, nchans, pc, gil, out_queue_, emitted, barrier, offered,
  session_id, end_session_flag, frame_num, status, out, time, view,
  sessions,  \* aux: when each session was opened, and by which keep-alive ended
  placed     \* aux: samples that left the builder, with the session they went to

Builder == INSTANCE SmurfBuilder
Manager == INSTANCE SessionManager

ASSUME ChannelsAssumption ==
  /\ NumberChannels \subseteq Nat \ {0}
  /\ \E most \in NumberChannels : \A n \in NumberChannels : n <= most
ASSUME QueueSizeAssumption ==
  /\ MaxQueueSize \in Nat \ {0}
  /\ UninitQueueSize \subseteq Nat
ASSUME BoundsAssumption ==
  /\ MaxPackets \in Nat /\ MaxOutQueue \in Nat
  /\ MaxTime \in Nat /\ MaxFrameNum \in Nat
ASSUME NoPktAssumption == NoPkt \notin Builder!Packet
ASSUME RegisterAssumption ==
  /\ datfile_open \in Register /\ g3stream_open \in Register
  /\ {0, 1} \subseteq Value
ASSUME SessionAssumption == NoSession \notin Nat
\* A metadata packet tells registers the way the SessionManager reads them.
ASSUME StatusesAssumption == Statuses \subseteq Manager!Status

builderVars == <<queue_, pkt, sent, write_stash_, read_stash_, queue_size_,
                 dropped_frames_, start, stop, nchans, pc, gil, out_queue_, emitted,
                 barrier, offered>>
sessionVars == <<session_id, end_session_flag, frame_num, status, out, time, view,
                 sessions, placed>>
vars == <<builderVars, sessionVars>>

Init ==
  /\ Builder!Init /\ Manager!Init
  /\ sessions = <<>> /\ placed = {}

-----------------------------------------------------------------------------
Current == IF Manager!Active THEN Len(sessions) ELSE 0

\* The data of a frame goes to the current session, or is discarded: session 0.
TakeScan(frame) ==
  /\ frame.type = "Scan"
  /\ Manager!PassScan \/ Manager!DiscardScan
  /\ placed' = placed \cup {<<n, Current>> : n \in Builder!Ids(frame.samples)}
  /\ UNCHANGED sessions

TakeWiring(frame) ==
  /\ frame.type = "Wiring"
  /\ \/ /\ Manager!StartSession(frame.status)
        /\ sessions' = Append(sessions, [opened |-> frame.id, over |-> FALSE, upto |-> 0])
     \/ /\ \/ Manager!SkipUpdate(frame.status)
           \/ Manager!IdleUpdate(frame.status)
           \/ Manager!SessionUpdate(frame.status)
        /\ UNCHANGED sessions
  /\ UNCHANGED placed

TakeNone(frame) ==
  /\ frame.type = "none"
  /\ \/ Manager!KeepAlive /\ UNCHANGED sessions
     \/ /\ Manager!EndSession
        /\ sessions' = [sessions EXCEPT ![Len(sessions)] =
                          [opened |-> @.opened, over |-> TRUE, upto |-> frame.upto]]
  /\ UNCHANGED placed

\* The SessionManager is a Python module: its call needs the GIL.
Take ==
  /\ gil = "free"
  /\ Builder!ProcessFrame
  /\ LET frame == Head(out_queue_) IN
       TakeScan(frame) \/ TakeWiring(frame) \/ TakeNone(frame)

PassOn ==
  /\ Manager!Deliver
  /\ UNCHANGED <<builderVars, sessions, placed>>

Build ==
  /\ \/ Builder!DataTransmit \/ Builder!MetaTransmit
     \/ Builder!EventThread \/ Builder!FlushStash
     \/ Builder!PythonTakesGil \/ Builder!PythonReleasesGil
  /\ UNCHANGED sessionVars

Next == Build \/ Take \/ PassOn

Spec == Init /\ [][Next]_vars

\* The builder's threads and the pipeline run for ever; the GIL is handed on.
FairSpec ==
  /\ Spec
  /\ WF_vars(Builder!EventThread /\ UNCHANGED sessionVars)
  /\ WF_vars(Builder!SwapStash /\ UNCHANGED sessionVars)
  /\ SF_vars(Builder!EnsureGil /\ UNCHANGED sessionVars)
  /\ WF_vars(Builder!Emit /\ UNCHANGED sessionVars)
  /\ WF_vars(Builder!PythonReleasesGil /\ UNCHANGED sessionVars)
  /\ SF_vars(Take) /\ WF_vars(PassOn)

-----------------------------------------------------------------------------
(* Properties *)

\* The two components keep their types when they work together; the manager's
\* state and the sessions seen agree.
TypeOK ==
  /\ Builder!TypeOK /\ Manager!TypeOK
  /\ sessions \in Seq([opened : Nat, over : BOOLEAN, upto : Nat])
  /\ placed \subseteq Nat \X (0..Len(sessions))
  /\ \A k \in DOMAIN sessions :
       ~sessions[k].over <=> k = Len(sessions) /\ Manager!Active

\* A sample that arrived after the status that opened a session, and no later
\* than the last packet the builder had processed when it swapped the stashes for
\* the keep-alive that ended the session, is in that session: it is not discarded
\* and not in another session, however long frames wait between the threads.
\* (Samples that arrived later but before the stop may be discarded.)
SessionHoldsItsData ==
  \A p \in placed : \A k \in DOMAIN sessions \ {p[2]} :
    p[1] < sessions[k].opened \/ (sessions[k].over /\ p[1] > sessions[k].upto)

\* A session that was stopped ends once the input falls silent: a flush finds
\* an empty stash, and its keep-alive reaches the manager behind the stop.
StopEndsSession == end_session_flag ~> ~end_session_flag
=============================================================================
