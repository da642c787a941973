----------------------------- MODULE G3Rotator ------------------------------
(***************************************************************************)
(* The G3Rotator: the last module of the pipeline, which writes the frames *)
(* of a session to files <session id>_<seq> and starts a new file when the *)
(* session changes or the file is older than file_dur.                     *)
(*                                                                         *)
(* The frames are those of SessionProtocol, which the SessionManager       *)
(* implements.  A call looks at disable and chooses the writer in one      *)
(* step; then the registers, the file and the publisher are written one    *)
(* after the other.  Between any two of these steps the clock moves, and   *)
(* the rogue threads read the registers and set disable and file_dur.      *)
(***************************************************************************)
EXTENDS Naturals, Sequences, FiniteSets, SequencesExt

CONSTANTS
  NoSession,    \* the manager's session id outside a session
  Status,       \* what Wiring frames tell
  Duration,     \* values of file_dur
  NoFile,       \* no writer, no path
  Second,       \* clock ticks in a second
  MaxTime,      \* bound: clock ticks in a behaviour
  MaxSessions,  \* bound: sessions in a behaviour
  MaxFrameNum   \* bound: a session takes data below this frame number

ASSUME DurationAssumption == Duration \subseteq Nat /\ Duration # {}
ASSUME SecondAssumption == Second \in Nat \ {0}
ASSUME AbsentAssumption == NoFile \notin Nat \X Nat /\ NoSession \notin Nat
ASSUME RotatorLimits ==
  MaxTime \in Nat /\ MaxSessions \in Nat /\ MaxFrameNum \in Nat

VARIABLES
  \* the frames that arrive
  last, phase, session, number, replica,
  \* the rotator
  writer,           \* path of the open G3Writer, or NoFile
  cur_path,         \* path of the current file, or NoFile
  seq,              \* number of the current file in its session
  cur_session_id,   \* session of the current file, 0 if there is none
  file_start_time,  \* when the current file was created, 0 if there is none
  file_dur,         \* age at which a file is replaced
  disable,          \* frames are passed on unwritten
  pc,               \* what __call__ does next, or "stopped" with the pipeline
  todo,             \* what get_writer does once the writer is closed
  \* what is outside
  time,             \* time.time(), in ticks
  files,            \* the disk: path |-> frames written to it
  published,        \* paths announced by the publisher, in order
  \* aux
  opened,           \* paths given to a G3Writer, in order
  sessions,         \* ids of the sessions that started, in order
  kept              \* tagged frames that arrived while disable was off, in order

protocolVars == <<last, phase, session, number, replica>>
writerVars == <<writer, cur_path, cur_session_id, file_start_time>>
callVars == <<seq, pc, todo>>
diskVars == <<files, published, opened>>
switchVars == <<file_dur, disable>>
vars == <<protocolVars, writerVars, callVars, diskVars, switchVars, time, sessions, kept>>

Protocol == INSTANCE SessionProtocol WITH SessionId <- 1..MaxTime

\* <data_path>/<5 digits>/<stream id>/<session id>_<seq>.g3
Path == Nat \X Nat
Record == [session_id : Nat, frame_num : Nat]

Init ==
  /\ Protocol!Init
  /\ writer = NoFile /\ cur_path = NoFile /\ seq = 0
  /\ cur_session_id = 0 /\ file_start_time = 0
  /\ file_dur \in Duration /\ disable = FALSE
  /\ pc = "ready" /\ todo = "return"
  /\ time = Second
  /\ files = <<>> /\ published = <<>>
  /\ opened = <<>> /\ sessions = <<>> /\ kept = <<>>

(* The pipeline *)

\* Sessions are named after the second in which they start.
Starts == "placement" \in DOMAIN last' /\ last'.placement = "start"

FrameArrives ==
  /\ pc = "ready" /\ pc' = "called"
  /\ Protocol!Next
  /\ phase' = "streaming" => number' <= MaxFrameNum
  /\ IF Starts
     THEN /\ Len(sessions) < MaxSessions
          /\ session' = time \div Second
          /\ sessions' = Append(sessions, session')
     ELSE UNCHANGED sessions
  /\ UNCHANGED <<writerVars, seq, todo, diskVars, switchVars, time, kept>>

(* get_writer *)

Flow == "flowcontrol" \in DOMAIN last
LastRecord == [session_id |-> last.session_id, frame_num |-> last.frame_num]
Keep == kept' = Append(kept, LastRecord)

\* Closing starts with the test for a writer; then comes what get_writer does next.
After(next) == IF next = "return" THEN "ready" ELSE "create"
close_writer(next) ==
  /\ todo' = next
  /\ pc' = IF writer = NoFile THEN After(next) ELSE "close"

new_file_condition == time > file_start_time + file_dur

Decides ==
  /\ pc = "called"
  /\ UNCHANGED <<protocolVars, writerVars, seq, diskVars, switchVars, time, sessions>>

SkipDisabled ==
  /\ Decides
  /\ disable
  /\ pc' = "ready"
  /\ UNCHANGED <<todo, kept>>

CloseAtEnd ==
  /\ Decides
  /\ ~disable /\ Flow /\ last.flowcontrol = "END"
  /\ close_writer("return")
  /\ UNCHANGED kept

SkipFlow ==
  /\ Decides
  /\ ~disable /\ Flow /\ last.flowcontrol # "END"
  /\ pc' = "ready"
  /\ UNCHANGED <<todo, kept>>

OtherSessionMutantOnlyIfIdle == cur_session_id = 0  \* trusts that END was seen
OtherSession == cur_session_id # last.session_id

ChangeSession ==
  /\ Decides
  /\ ~disable /\ ~Flow /\ OtherSession
  /\ close_writer("first")
  /\ Keep

Rotate ==
  /\ Decides
  /\ ~disable /\ ~Flow /\ ~OtherSession /\ new_file_condition
  /\ close_writer("next")
  /\ Keep

WriteOn ==
  /\ Decides
  /\ ~disable /\ ~Flow /\ ~OtherSession /\ ~new_file_condition
  /\ pc' = "write"
  /\ Keep
  /\ UNCHANGED todo

(* close_writer *)

Step(from, to) ==
  /\ pc = from /\ pc' = to
  /\ UNCHANGED <<protocolVars, switchVars, time, sessions, kept>>

ResetRegistersMutantClearsPath ==  \* the path is cleared before it is announced
  /\ Step("close", "publish")
  /\ file_start_time' = 0 /\ cur_session_id' = 0 /\ cur_path' = NoFile
  /\ UNCHANGED <<writer, seq, todo, diskVars>>

ResetRegisters ==
  /\ Step("close", "publish")
  /\ file_start_time' = 0 /\ cur_session_id' = 0
  /\ UNCHANGED <<writer, cur_path, seq, todo, diskVars>>

PublishMutantAtEnd ==  \* a file is announced only when its session has ended
  /\ Step("publish", "clear")
  /\ published' = IF todo = "return" THEN Append(published, cur_path) ELSE published
  /\ UNCHANGED <<writerVars, seq, todo, files, opened>>

\* The G3Writer ends its file, which is then announced under the current path.
Publish ==
  /\ Step("publish", "clear")
  /\ published' = Append(published, cur_path)
  /\ UNCHANGED <<writerVars, seq, todo, files, opened>>

ClearPath ==
  /\ Step("clear", After(todo))
  /\ cur_path' = NoFile /\ writer' = NoFile
  /\ UNCHANGED <<file_start_time, cur_session_id, seq, todo, diskVars>>

(* new_writer *)

NextSeqMutantGoesOn == IF todo = "first" THEN seq ELSE seq + 1  \* no new start
NextSeqMutantSame == IF todo = "first" THEN 0 ELSE seq  \* the name just closed
NextSeq == IF todo = "first" THEN 0 ELSE seq + 1

\* A G3Writer empties a file that exists.
CreateFile ==
  LET path == <<last.session_id, NextSeq>> IN
  /\ Step("create", "created")
  /\ seq' = NextSeq /\ todo' = "return"
  /\ writer' = path
  /\ files' = [p \in DOMAIN files \cup {path} |-> IF p = path THEN <<>> ELSE files[p]]
  /\ opened' = Append(opened, path)
  /\ UNCHANGED <<cur_path, file_start_time, cur_session_id, published>>

SetPathMutantSessionFirst ==  \* the session is shown before the path
  /\ Step("created", "named")
  /\ cur_session_id' = last.session_id /\ file_start_time' = time
  /\ UNCHANGED <<writer, cur_path, seq, todo, diskVars>>

SetPath ==
  /\ Step("created", "named")
  /\ cur_path' = writer /\ file_start_time' = time
  /\ UNCHANGED <<writer, cur_session_id, seq, todo, diskVars>>

SetSession ==
  /\ Step("named", "write")
  /\ cur_session_id' = last.session_id
  /\ UNCHANGED <<writer, cur_path, file_start_time, seq, todo, diskVars>>

\* __call__ gives the frame in hand to the writer it got.
WriteFrame ==
  /\ Step("write", "ready")
  /\ files' = [files EXCEPT ![writer] = Append(@, LastRecord)]
  /\ UNCHANGED <<writerVars, seq, todo, published, opened>>

\* Ctrl-C ends the pipeline: its last frame carries neither a session nor flow
\* control, so the session and the open file stay as they are.
EndProcessing ==
  /\ Step("ready", "stopped")
  /\ UNCHANGED <<writerVars, seq, todo, diskVars>>

(* The rogue threads and the clock *)

set_disable ==
  /\ disable' = ~disable
  /\ UNCHANGED <<protocolVars, writerVars, callVars, diskVars, file_dur, time, sessions, kept>>

set_file_dur ==
  /\ file_dur' \in Duration
  /\ UNCHANGED <<protocolVars, writerVars, callVars, diskVars, disable, time, sessions, kept>>

\* The variables of the rogue device that a client may set.
SOFileWriter == set_disable \/ set_file_dur

Tick ==
  /\ time < MaxTime
  /\ time' = time + 1
  /\ UNCHANGED <<protocolVars, writerVars, callVars, diskVars, switchVars, sessions, kept>>

GetWriter == SkipDisabled \/ CloseAtEnd \/ SkipFlow \/ ChangeSession \/ Rotate \/ WriteOn
CloseWriter == ResetRegisters \/ Publish \/ ClearPath
NewWriter == CreateFile \/ SetPath \/ SetSession

Next ==
  \/ FrameArrives
  \/ GetWriter \/ CloseWriter \/ NewWriter \/ WriteFrame
  \/ EndProcessing
  \/ SOFileWriter \/ Tick

Spec == Init /\ [][Next]_vars

-----------------------------------------------------------------------------
(* Properties *)

\* Every variable keeps its type; in particular every open writer has a file.
TypeOK ==
  /\ writer \in Path \cup {NoFile} /\ cur_path \in Path \cup {NoFile}
  /\ seq \in Nat /\ cur_session_id \in Nat /\ file_start_time \in Nat
  /\ file_dur \in Duration /\ disable \in BOOLEAN
  /\ pc \in {"ready", "called", "close", "publish", "clear", "create", "created",
            "named", "write", "stopped"}
  /\ todo \in {"return", "first", "next"}
  /\ time \in Nat
  /\ DOMAIN files \subseteq Path /\ \A p \in DOMAIN files : files[p] \in Seq(Record)
  /\ writer # NoFile => writer \in DOMAIN files
  /\ published \in Seq(Path) /\ opened \in Seq(Path)
  /\ sessions \in Seq(Nat) /\ kept \in Seq(Record)

\* Rogue threads read the registers while they are written one by one, between
\* two files too.  Whenever a session id is shown, the path shown with it is that
\* of the file being written, and the file is that session's; a path shown
\* without a session id is still that of an open writer.  Between two calls both
\* are shown or neither.
RegistersTellFile ==
  /\ cur_session_id # 0 => cur_path = <<cur_session_id, seq>>
  /\ cur_path # NoFile => cur_path = writer
  /\ pc \in {"ready", "called", "write", "stopped"} =>
       /\ cur_path = writer
       /\ writer = NoFile => cur_session_id = 0 /\ file_start_time = 0
       /\ writer # NoFile => cur_session_id # 0 /\ file_start_time <= time

\* Every file is announced once, in the order of their creation and after its
\* last frame: the only one not announced is the one being written, however
\* its session was left.
Announced == writer = NoFile \/ pc = "clear"
PublishedOnce ==
  opened = published \o (IF Announced THEN <<>> ELSE <<writer>>)

\* Files are numbered without a hole: a file is the first of its session or
\* follows the one created before it.
NumberedWithoutHole ==
  \A i \in DOMAIN opened :
    \/ opened[i][2] = 0
    \/ i > 1 /\ opened[i] = <<opened[i-1][1], opened[i-1][2] + 1>>

\* A file holds frames of the session it is named after, also when the end of
\* the session before it was not seen.
OneSessionPerFile ==
  \A p \in DOMAIN files : \A i \in DOMAIN files[p] : files[p][i].session_id = p[1]

\* A session whose id no other session has can be read back: its files, in
\* the order of their numbers, hold exactly the frames that arrived while
\* disable was off, in their order, even if the pipeline stops inside it.
NamesOneSession(id) == Cardinality({i \in DOMAIN sessions : sessions[i] = id}) = 1
FilesOf(id) == {p \in DOMAIN files : p[1] = id}
Files(id, n) == FlattenSeq([k \in 1..n |-> files[<<id, k - 1>>]])
ReadBack(id) == Files(id, Cardinality(FilesOf(id)))
FramesOf(id, frames) ==
  FoldLeft(LAMBDA found, r : IF r.session_id = id THEN Append(found, r) ELSE found,
           <<>>, frames)
SessionsReadBack ==
  pc \in {"ready", "stopped"} =>
    \A i \in DOMAIN sessions :
      NamesOneSession(sessions[i]) =>
        ReadBack(sessions[i]) = FramesOf(sessions[i], kept)

(* What comments of the code say and the code does not do *)

\* _SOFileWriter.py, G3Rotator: cur_session_id is "0 if there is no data
\* streaming", that is between sessions.
NoSessionIdWhenIdle == pc = "ready" /\ phase = "idle" => cur_session_id = 0

\* _SOFileWriter.py, G3Rotator: "all files are easily found given the
\* session-id", so that no two files have the same path.
FilesFound == Cardinality(DOMAIN files) = Len(opened)
=============================================================================
