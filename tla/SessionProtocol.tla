-------------------------- MODULE SessionProtocol ---------------------------
(***************************************************************************)
(* What the SessionManager promises to the modules behind it in the        *)
(* pipeline, which see one frame at a time: sessions that open and close   *)
(* in a fixed order of frames, numbered without a gap, in which one dump   *)
(* of the status and differences after it rebuild the registers.           *)
(***************************************************************************)
EXTENDS Naturals

CONSTANTS
  SessionId,  \* session ids
  NoSession,  \* no session
  Status      \* partial functions from registers to values

VARIABLES
  last,     \* the frame seen last
  phase,    \* how far the session is open
  session,  \* id of the session
  number,   \* frame number the next tagged frame must have
  replica   \* the registers, rebuilt from the dump and the differences

vars == <<last, phase, session, number, replica>>

Flow(fc)       == [type |-> "none", flowcontrol |-> fc]
Cleanse(type)  == [type |-> type, flowcontrol |-> "CLEANSE"]
Observation(placement, id, num) ==
  [type |-> "Observation", placement |-> placement, session_id |-> id, frame_num |-> num]
Wiring(dump, status, id, num) ==
  [type |-> "Wiring", dump |-> dump, status |-> status, session_id |-> id, frame_num |-> num]
Scan(id, num) == [type |-> "Scan", session_id |-> id, frame_num |-> num]

Init ==
  /\ last = Flow("ALIVE") /\ phase = "idle" /\ session = NoSession
  /\ number = 0 /\ replica = <<>>

\* One frame takes the session from one phase to the next.
See(frame, from, to) == last' = frame /\ phase = from /\ phase' = to

Alive ==
  /\ \E p \in {"idle", "streaming"} : See(Flow("ALIVE"), p, p)
  /\ UNCHANGED <<session, number, replica>>

Open ==
  /\ See(Flow("START"), "idle", "opened")
  /\ UNCHANGED <<session, number, replica>>

Announce ==
  \E id \in SessionId :
    /\ See(Observation("start", id, 0), "opened", "announced")
    /\ session' = id /\ number' = 1
    /\ UNCHANGED replica

Dump ==
  \E status \in Status :
    /\ See(Wiring(1, status, session, number), "announced", "streaming")
    /\ replica' = status /\ number' = number + 1
    /\ UNCHANGED session

Data ==
  /\ See(Scan(session, number), "streaming", "streaming")
  /\ number' = number + 1
  /\ UNCHANGED <<session, replica>>

\* The registers old after a status that tells those of new.
Updated(old, new) ==
  [k \in DOMAIN old \cup DOMAIN new |-> IF k \in DOMAIN new THEN new[k] ELSE old[k]]

\* A difference is never empty and never repeats what is known.
Difference ==
  \E diff \in Status :
    /\ DOMAIN diff # {}
    /\ \A k \in DOMAIN diff \cap DOMAIN replica : diff[k] # replica[k]
    /\ See(Wiring(0, diff, session, number), "streaming", "streaming")
    /\ replica' = Updated(replica, diff) /\ number' = number + 1
    /\ UNCHANGED session

Close ==
  /\ See(Observation("end", session, number), "streaming", "closing")
  /\ number' = number + 1
  /\ UNCHANGED <<session, replica>>

End ==
  /\ See(Flow("END"), "closing", "ended")
  /\ UNCHANGED <<session, number, replica>>

\* The cached metadata frames of the session are replaced.
CleanseObservation ==
  /\ See(Cleanse("Observation"), "ended", "cleansed")
  /\ UNCHANGED <<session, number, replica>>
CleanseWiring ==
  /\ See(Cleanse("Wiring"), "cleansed", "idle")
  /\ UNCHANGED <<session, number, replica>>

Next ==
  \/ Alive \/ Open \/ Announce \/ Dump \/ Data \/ Difference
  \/ Close \/ End \/ CleanseObservation \/ CleanseWiring

Spec == Init /\ [][Next]_vars
=============================================================================
