-------------------------- MODULE G3RotatorProofs ---------------------------
(***************************************************************************)
(* Safety of the G3Rotator for every clock, duration and number of         *)
(* sessions, checked by TLAPS.                                             *)
(***************************************************************************)
EXTENDS G3Rotator, FoldFacts, SequenceTheorems, FiniteSetTheorems, TLAPS

-----------------------------------------------------------------------------
(* The frames *)

\* A frame either has a flow control field or the tags of a session, whose id
\* is never the 0 that stands for no session.
FrameInv ==
  /\ number \in Nat
  /\ phase \in {"announced", "streaming", "closing"} => session \in Nat \ {0}
  /\ \/ "flowcontrol" \in DOMAIN last
     \/ /\ "flowcontrol" \notin DOMAIN last
        /\ last.session_id \in Nat \ {0} /\ last.frame_num \in Nat

LEMMA FrameInit ==
  ASSUME Protocol!Init PROVE FrameInv
BY DEF Protocol!Init, Protocol!Flow, FrameInv

\* A step of the protocol brings a frame of that shape.
LEMMA FrameStep ==
  ASSUME FrameInv, Protocol!Next PROVE FrameInv'
<1> USE DEF FrameInv, Protocol!See
<1>1. CASE Protocol!Alive
  BY <1>1 DEF Protocol!Alive, Protocol!Flow
<1>2. CASE Protocol!Open
  BY <1>2 DEF Protocol!Open, Protocol!Flow
<1>3. CASE Protocol!Announce
  BY <1>3, RotatorLimits DEF Protocol!Announce, Protocol!Observation
<1>4. CASE Protocol!Dump
  BY <1>4 DEF Protocol!Dump, Protocol!Wiring
<1>5. CASE Protocol!Data
  BY <1>5 DEF Protocol!Data, Protocol!Scan
<1>6. CASE Protocol!Difference
  BY <1>6 DEF Protocol!Difference, Protocol!Wiring
<1>7. CASE Protocol!Close
  BY <1>7 DEF Protocol!Close, Protocol!Observation
<1>8. CASE Protocol!End
  BY <1>8 DEF Protocol!End, Protocol!Flow
<1>9. CASE Protocol!CleanseObservation
  BY <1>9 DEF Protocol!CleanseObservation, Protocol!Cleanse
<1>10. CASE Protocol!CleanseWiring
  BY <1>10 DEF Protocol!CleanseWiring, Protocol!Cleanse
<1> QED
  BY <1>1, <1>2, <1>3, <1>4, <1>5, <1>6, <1>7, <1>8, <1>9, <1>10 DEF Protocol!Next

LEMMA FrameSame ==
  ASSUME UNCHANGED protocolVars
  PROVE  /\ FrameInv' = FrameInv /\ Flow' = Flow
         /\ UNCHANGED <<last, phase, session>>
BY Zenon DEF protocolVars, FrameInv, Flow

-----------------------------------------------------------------------------
(* Types and the open file *)

\* A file is being closed; a file will be created for the frame in hand; the
\* frame in hand was kept and is not written yet.
Closing == pc \in {"close", "publish", "clear"}
Opening == pc = "create" \/ (Closing /\ todo # "return")
InHand == Opening \/ pc \in {"created", "named", "write"}

\* What the registers and the frame in hand are at each step of a call.
CallInv ==
  /\ InHand => ~Flow
  /\ Closing /\ todo = "return" => Flow /\ last.flowcontrol = "END"
  /\ Closing => writer # NoFile /\ cur_path = writer
  /\ Closing /\ todo = "next" => writer = <<last.session_id, seq>>
  /\ pc = "create" =>
       /\ todo # "return"
       /\ writer = NoFile /\ cur_path = NoFile
  /\ pc \in {"publish", "clear", "create"} => cur_session_id = 0 /\ file_start_time = 0
  /\ pc \in {"created", "named", "write"} =>
       /\ writer = <<last.session_id, seq>>
       /\ cur_path = (IF pc = "created" THEN NoFile ELSE writer)
       /\ cur_session_id = (IF pc = "write" THEN last.session_id ELSE 0)
       /\ file_start_time <= time
TypeInv == TypeOK /\ FrameInv /\ RegistersTellFile /\ CallInv

LEMMA TypeInit ==
  ASSUME Init PROVE TypeInv
<1>1. FrameInv
  BY FrameInit DEF Init
<1>2. TypeOK
  <2>1. DOMAIN files = {}
    BY DEF Init
  <2>2. /\ published \in Seq(Path) /\ opened \in Seq(Path)
        /\ sessions \in Seq(Nat) /\ kept \in Seq(Record)
    BY EmptySeq DEF Init
  <2> QED
    BY <2>1, <2>2, SecondAssumption DEF Init, TypeOK
<1>3. RegistersTellFile /\ CallInv
  BY DEF Init, RegistersTellFile, CallInv, InHand, Opening, Closing
<1> QED
  BY <1>1, <1>2, <1>3 DEF TypeInv

\* The file created for a tagged frame is empty.
LEMMA FileCreated ==
  ASSUME TypeInv, CreateFile
  PROVE  LET path == <<last.session_id, NextSeq>> IN
         /\ ~Flow /\ writer = NoFile
         /\ path \in Path /\ path # NoFile /\ NextSeq \in Nat
         /\ writer' = path /\ seq' = NextSeq /\ opened' = Append(opened, path)
         /\ DOMAIN files' = DOMAIN files \cup {path} /\ files'[path] = <<>>
         /\ \A p \in DOMAIN files \ {path} : files'[p] = files[p]
<1>1. pc = "create" /\ ~Flow /\ writer = NoFile
  BY DEF CreateFile, Step, TypeInv, CallInv, InHand, Opening
<1>2. NextSeq \in Nat
  BY DEF TypeInv, TypeOK, NextSeq
<1>3. last.session_id \in Nat
  BY <1>1 DEF TypeInv, FrameInv, Flow
<1> QED
  BY <1>1, <1>2, <1>3, AbsentAssumption DEF CreateFile, Path

\* The frame in hand goes to the open file, which is its session's.
LEMMA FrameWritten ==
  ASSUME TypeInv, WriteFrame
  PROVE  /\ ~Flow /\ LastRecord \in Record /\ LastRecord.session_id = last.session_id
         /\ writer = <<last.session_id, seq>> /\ writer \in DOMAIN files
         /\ files[writer] \in Seq(Record)
         /\ DOMAIN files' = DOMAIN files
         /\ files'[writer] = Append(files[writer], LastRecord)
         /\ \A p \in DOMAIN files \ {writer} : files'[p] = files[p]
<1>1. pc = "write" /\ ~Flow /\ writer = <<last.session_id, seq>>
  BY DEF WriteFrame, Step, TypeInv, CallInv, InHand
<1>2. LastRecord \in Record /\ LastRecord.session_id = last.session_id
  BY <1>1 DEF TypeInv, FrameInv, Flow, LastRecord, Record
<1>3. writer # NoFile
  BY <1>1, <1>2, AbsentAssumption DEF TypeInv, TypeOK, FrameInv, Flow, Path
<1>4. writer \in DOMAIN files /\ files[writer] \in Seq(Record)
  BY <1>3 DEF TypeInv, TypeOK
<1> QED
  BY <1>1, <1>2, <1>4 DEF WriteFrame

\* The shape of the frame in hand and the types are kept by every step.
LEMMA TypesStep ==
  ASSUME TypeInv, [Next]_vars PROVE TypeOK' /\ FrameInv'
<1> USE DEF TypeInv
<1>1. CASE FrameArrives
  <2>1. FrameInv'
    BY <1>1, FrameStep DEF FrameArrives
  <2>2. sessions' \in Seq(Nat)
    <3>1. CASE Starts
      <4>1. sessions \in Seq(Nat) /\ time \in Nat
        BY DEF TypeOK
      <4>2. time \div Second \in Nat
        BY <4>1, SecondAssumption
      <4> QED
        BY <1>1, <3>1, <4>1, <4>2 DEF FrameArrives
    <3>2. CASE ~Starts
      BY <1>1, <3>2 DEF FrameArrives, TypeOK
    <3> QED
      BY <3>1, <3>2
  <2>3. TypeOK'
    BY <1>1, <2>2 DEF FrameArrives, TypeOK, writerVars, diskVars, switchVars
  <2> QED
    BY <2>1, <2>3
<1>2. CASE SkipDisabled \/ CloseAtEnd \/ SkipFlow
  BY <1>2, FrameSame DEF SkipDisabled, CloseAtEnd, SkipFlow, Decides, close_writer, After,
     TypeOK, writerVars, diskVars, switchVars
<1>3. CASE ChangeSession \/ Rotate \/ WriteOn
  <2>1. ~Flow /\ Keep
    BY <1>3 DEF ChangeSession, Rotate, WriteOn
  <2>2. kept' \in Seq(Record)
    BY <2>1 DEF Keep, TypeOK, FrameInv, Flow, LastRecord, Record
  <2> QED
    BY <1>3, <2>2, FrameSame DEF ChangeSession, Rotate, WriteOn, Decides, close_writer, After,
       TypeOK, writerVars, diskVars, switchVars
<1>4. CASE ResetRegisters
  BY <1>4, FrameSame DEF ResetRegisters, Step, TypeOK, diskVars, switchVars
<1>10. CASE ClearPath
  BY <1>10, FrameSame DEF ClearPath, Step, After, TypeOK, diskVars, switchVars
<1>11. CASE SetPath
  BY <1>11, FrameSame DEF SetPath, Step, TypeOK, diskVars, switchVars
<1>5. CASE SetSession
  <2>1. pc = "named" /\ last.session_id \in Nat
    BY <1>5 DEF SetSession, Step, CallInv, InHand, FrameInv, Flow
  <2> QED
    BY <1>5, <2>1, FrameSame DEF SetSession, Step, TypeOK, diskVars, switchVars
<1>6. CASE Publish
  <2>1. cur_path \in Path
    BY <1>6 DEF Publish, Step, CallInv, Closing, TypeOK
  <2> QED
    BY <1>6, <2>1, FrameSame DEF Publish, Step, TypeOK, writerVars, switchVars
<1>7. CASE CreateFile
  <2> DEFINE path == <<last.session_id, NextSeq>>
  <2>1. /\ path \in Path /\ NextSeq \in Nat
        /\ writer' = path /\ seq' = NextSeq /\ opened' = Append(opened, path)
        /\ DOMAIN files' = DOMAIN files \cup {path} /\ files'[path] = <<>>
        /\ \A p \in DOMAIN files \ {path} : files'[p] = files[p]
    BY <1>7, FileCreated
  <2>2. <<>> \in Seq(Record)
    BY EmptySeq
  <2>3. DOMAIN files \subseteq Path /\ \A p \in DOMAIN files : files[p] \in Seq(Record)
    BY DEF TypeOK
  <2> HIDE DEF path
  <2>4. /\ DOMAIN files' \subseteq Path /\ path \in DOMAIN files'
        /\ \A p \in DOMAIN files' : files'[p] \in Seq(Record)
    BY <2>1, <2>2, <2>3
  <2> QED
    BY <1>7, <2>1, <2>4, FrameSame DEF CreateFile, Step, TypeOK, switchVars
<1>8. CASE WriteFrame
  <2>1. /\ LastRecord \in Record /\ files[writer] \in Seq(Record)
        /\ DOMAIN files' = DOMAIN files
        /\ files'[writer] = Append(files[writer], LastRecord)
        /\ \A p \in DOMAIN files \ {writer} : files'[p] = files[p]
    BY <1>8, FrameWritten
  <2>2. Append(files[writer], LastRecord) \in Seq(Record)
    BY <2>1
  <2>3. \A p \in DOMAIN files' : files'[p] \in Seq(Record)
    BY Zenon, <2>1, <2>2 DEF TypeOK
  <2> QED
    BY <1>8, <2>1, <2>3, FrameSame DEF WriteFrame, Step, TypeOK, writerVars, switchVars
<1>9. CASE EndProcessing
  BY <1>9, FrameSame DEF EndProcessing, Step, TypeOK, writerVars, diskVars, switchVars
<1>12. CASE set_disable \/ set_file_dur
  BY <1>12, FrameSame DEF set_disable, set_file_dur, TypeOK, writerVars, callVars, diskVars
<1>13. CASE Tick
  BY <1>13, FrameSame DEF Tick, TypeOK, writerVars, callVars, diskVars, switchVars
<1>14. CASE UNCHANGED vars
  BY <1>14, FrameSame DEF vars, TypeOK, writerVars, callVars, diskVars, switchVars
<1> QED
  BY <1>1, <1>2, <1>3, <1>4, <1>5, <1>6, <1>7, <1>8, <1>9, <1>10, <1>11, <1>12, <1>13, <1>14
     DEF Next, SOFileWriter, GetWriter, CloseWriter, NewWriter

\* The registers agree with the file at every step of a call.
LEMMA RegistersStep ==
  ASSUME TypeInv, [Next]_vars PROVE RegistersTellFile' /\ CallInv'
<1> USE DEF RegistersTellFile, CallInv, InHand, Opening, Closing
<1>0. TypeOK /\ FrameInv /\ RegistersTellFile /\ CallInv
  BY DEF TypeInv
<1>1. CASE FrameArrives
  BY <1>0, <1>1 DEF FrameArrives, writerVars
<1>2. CASE SkipDisabled \/ SkipFlow
  BY <1>0, <1>2 DEF SkipDisabled, SkipFlow, Decides, writerVars
<1>3. CASE CloseAtEnd
  BY <1>0, <1>3, FrameSame DEF CloseAtEnd, Decides, close_writer, After, writerVars
<1>4. CASE ChangeSession
  BY <1>0, <1>4, FrameSame DEF ChangeSession, Decides, close_writer, After, writerVars
<1>5. CASE Rotate
  <2>1. writer # NoFile /\ writer = <<last.session_id, seq>>
    BY <1>0, <1>5 DEF Rotate, Decides, OtherSession, FrameInv, Flow
  <2> QED
    BY <1>0, <1>5, <2>1, FrameSame DEF Rotate, Decides, close_writer, After, writerVars
<1>6. CASE WriteOn
  <2>1. writer # NoFile /\ writer = <<last.session_id, seq>>
    BY <1>0, <1>6 DEF WriteOn, Decides, OtherSession, FrameInv, Flow
  <2> QED
    BY <1>0, <1>6, <2>1, FrameSame DEF WriteOn, Decides, OtherSession, writerVars
<1>7. CASE ResetRegisters
  BY <1>0, <1>7, FrameSame DEF ResetRegisters, Step
<1>8. CASE Publish
  BY <1>0, <1>8, FrameSame DEF Publish, Step, writerVars
<1>9. CASE ClearPath
  BY <1>0, <1>9, FrameSame DEF ClearPath, Step, After, TypeOK
<1>10. CASE CreateFile
  <2>1. /\ <<last.session_id, NextSeq>> # NoFile
        /\ writer' = <<last.session_id, NextSeq>> /\ seq' = NextSeq
    BY <1>10, FileCreated, <1>0 DEF TypeInv
  <2>2. /\ pc = "create" /\ pc' = "created" /\ time' = time /\ time \in Nat
        /\ UNCHANGED <<cur_path, file_start_time, cur_session_id>>
    BY <1>0, <1>10 DEF CreateFile, Step, TypeOK
  <2>3. last' = last /\ Flow' = Flow
    BY <1>10, FrameSame DEF CreateFile, Step
  <2> QED
    BY <1>0, <2>1, <2>2, <2>3
<1>11. CASE SetPath
  <2>1. time \in Nat /\ writer # NoFile
    BY <1>0, <1>11, AbsentAssumption DEF SetPath, Step, TypeOK, Path, FrameInv, Flow
  <2> QED
    BY <1>0, <1>11, <2>1, FrameSame DEF SetPath, Step
<1>12. CASE SetSession
  <2>1. last.session_id \in Nat \ {0} /\ writer # NoFile
    BY <1>0, <1>12, AbsentAssumption DEF SetSession, Step, TypeOK, Path, FrameInv, Flow
  <2> QED
    BY <1>0, <1>12, <2>1, FrameSame DEF SetSession, Step
<1>13. CASE WriteFrame
  <2>1. last.session_id \in Nat \ {0} /\ writer # NoFile
    BY <1>0, <1>13, AbsentAssumption DEF WriteFrame, Step, TypeOK, Path, FrameInv, Flow
  <2> QED
    BY <1>0, <1>13, <2>1, FrameSame DEF WriteFrame, Step, writerVars
<1>14. CASE EndProcessing
  BY <1>0, <1>14, FrameSame DEF EndProcessing, Step, writerVars
<1>15. CASE set_disable \/ set_file_dur \/ UNCHANGED vars
  <2>1. UNCHANGED <<protocolVars, writerVars, callVars, time>>
    BY <1>15 DEF set_disable, set_file_dur, vars
  <2> QED
    BY <1>0, <2>1, FrameSame DEF writerVars, callVars
<1>16. CASE Tick
  <2>1. UNCHANGED <<protocolVars, writerVars, callVars>> /\ time' = time + 1
    BY <1>16 DEF Tick
  <2>2. time \in Nat /\ file_start_time \in Nat
    BY <1>0 DEF TypeOK
  <2>3. file_start_time <= time => file_start_time <= time'
    BY <2>1, <2>2
  <2> QED
    BY <1>0, <2>1, <2>3, FrameSame DEF writerVars, callVars
<1> QED
  BY <1>1, <1>2, <1>3, <1>4, <1>5, <1>6, <1>7, <1>8, <1>9, <1>10, <1>11, <1>12, <1>13, <1>14,
     <1>15, <1>16 DEF Next, SOFileWriter, GetWriter, CloseWriter, NewWriter

LEMMA TypeInvariant == Spec => []TypeInv
<1>1. TypeInv /\ [Next]_vars => TypeInv'
  BY TypesStep, RegistersStep DEF TypeInv
<1> QED
  BY <1>1, TypeInit, PTL DEF Spec

\* Every variable keeps its type, and every open writer has a file on disk.
THEOREM TypeCorrect == Spec => []TypeOK
<1>1. TypeInv => TypeOK
  BY DEF TypeInv
<1> QED
  BY <1>1, TypeInvariant, PTL

\* At every step of closing and opening a file, a session id is shown only with
\* the path of that session's file, and a path only while its writer is open;
\* between two calls both are shown or neither.
THEOREM RegistersTellFileHolds == Spec => []RegistersTellFile
<1>1. TypeInv => RegistersTellFile
  BY DEF TypeInv
<1> QED
  BY <1>1, TypeInvariant, PTL

-----------------------------------------------------------------------------
(* Publication *)

LEMMA PublishStep ==
  ASSUME TypeInv, PublishedOnce, [Next]_vars PROVE PublishedOnce'
<1>0. opened \in Seq(Path) /\ published \in Seq(Path)
  BY DEF TypeInv, TypeOK
<1>1. CASE Publish
  <2>1. /\ pc = "publish" /\ pc' = "clear" /\ writer # NoFile /\ cur_path = writer
        /\ opened' = opened /\ published' = Append(published, cur_path)
    BY <1>1 DEF Publish, Step, TypeInv, CallInv, Closing
  <2>2. cur_path \in Path
    BY <2>1 DEF TypeInv, TypeOK
  <2>3. opened = published \o <<cur_path>>
    BY <2>1 DEF PublishedOnce, Announced
  <2>4. published' = opened /\ published' \in Seq(Path)
    BY <1>0, <2>1, <2>2, <2>3, AppendIsConcat
  <2>5. opened' = published' \o <<>>
    BY <2>1, <2>4, ConcatEmptySeq
  <2> QED
    BY <2>1, <2>5 DEF PublishedOnce, Announced
<1>2. CASE ClearPath
  BY <1>2 DEF ClearPath, Step, diskVars, PublishedOnce, Announced
<1>3. CASE CreateFile
  <2> DEFINE path == <<last.session_id, NextSeq>>
  <2>1. /\ writer = NoFile /\ path \in Path /\ path # NoFile
        /\ writer' = path /\ opened' = Append(opened, path)
    BY <1>3, FileCreated
  <2>2. published' = published /\ pc' = "created"
    BY <1>3 DEF CreateFile, Step
  <2>3. opened = published
    BY <1>0, <2>1, ConcatEmptySeq DEF PublishedOnce, Announced
  <2>4. opened' = published' \o <<path>>
    BY <1>0, <2>1, <2>2, <2>3, AppendIsConcat
  <2> QED
    BY <2>1, <2>2, <2>4 DEF PublishedOnce, Announced
<1>4. CASE UNCHANGED <<writer, opened, published>> /\ (pc' = "clear") = (pc = "clear")
  BY <1>4 DEF PublishedOnce, Announced
<1>5. CASE \/ FrameArrives \/ EndProcessing \/ ResetRegisters \/ SetPath \/ SetSession
           \/ WriteFrame
  BY <1>4, <1>5 DEF FrameArrives, EndProcessing, ResetRegisters, SetPath, SetSession, WriteFrame,
     Step, writerVars, diskVars
<1>6. CASE GetWriter
  <2>1. UNCHANGED <<writer, opened, published>> /\ pc = "called" /\ pc' # "clear"
    BY <1>6 DEF GetWriter, SkipDisabled, CloseAtEnd, SkipFlow, ChangeSession, Rotate, WriteOn,
       Decides, close_writer, After, writerVars, diskVars
  <2> QED
    BY <1>4, <2>1
<1>7. CASE set_disable \/ set_file_dur \/ Tick \/ UNCHANGED vars
  BY <1>4, <1>7 DEF set_disable, set_file_dur, Tick, vars, writerVars, callVars, diskVars
<1> QED
  BY <1>1, <1>2, <1>3, <1>5, <1>6, <1>7 DEF Next, SOFileWriter, CloseWriter, NewWriter

\* Every file but the open one has been announced, once and in the order of
\* creation, whatever sessions, rotations and switches of disable went before.
THEOREM PublishedOnceHolds == Spec => []PublishedOnce
<1>1. Init => PublishedOnce
  BY ConcatEmptySeq DEF Init, PublishedOnce, Announced
<1> QED
  BY <1>1, TypeInvariant, PublishStep, PTL DEF Spec

-----------------------------------------------------------------------------
(* One session per file *)

\* The steps that leave the disk as it is.
LEMMA DiskSame ==
  ASSUME [Next]_vars, ~CreateFile, ~WriteFrame
  PROVE  files' = files /\ opened' = opened
<1>1. CASE GetWriter
  BY <1>1 DEF GetWriter, SkipDisabled, CloseAtEnd, SkipFlow, ChangeSession, Rotate, WriteOn,
     Decides, diskVars
<1>2. CASE CloseWriter \/ SetPath \/ SetSession \/ EndProcessing
  BY <1>2 DEF CloseWriter, ResetRegisters, Publish, ClearPath, SetPath, SetSession,
     EndProcessing, diskVars
<1> QED
  BY <1>1, <1>2 DEF Next, NewWriter, FrameArrives, SOFileWriter, set_disable, set_file_dur,
     Tick, vars, diskVars

LEMMA SessionStep ==
  ASSUME TypeInv, OneSessionPerFile, [Next]_vars PROVE OneSessionPerFile'
<1>1. CASE files' = files
  BY <1>1 DEF OneSessionPerFile
<1>2. CASE WriteFrame
  <2>1. /\ writer \in DOMAIN files /\ writer[1] = last.session_id
        /\ files[writer] \in Seq(Record)
        /\ LastRecord.session_id = last.session_id
        /\ DOMAIN files' = DOMAIN files
        /\ files'[writer] = Append(files[writer], LastRecord)
        /\ \A p \in DOMAIN files \ {writer} : files'[p] = files[p]
    BY <1>2, FrameWritten
  <2>2. ASSUME NEW i \in DOMAIN files'[writer]
        PROVE  files'[writer][i].session_id = writer[1]
    <3>1. CASE i = Len(files[writer]) + 1
      BY <2>1, <3>1
    <3>2. CASE i # Len(files[writer]) + 1
      BY <2>1, <2>2, <3>2 DEF OneSessionPerFile
    <3> QED
      BY <3>1, <3>2
  <2>3. \A p \in DOMAIN files \ {writer} : \A i \in DOMAIN files'[p] :
          files'[p][i].session_id = p[1]
    BY <2>1 DEF OneSessionPerFile
  <2> QED
    BY <2>1, <2>2, <2>3 DEF OneSessionPerFile
<1>3. CASE CreateFile
  <2> DEFINE path == <<last.session_id, NextSeq>>
  <2>1. /\ DOMAIN files' = DOMAIN files \cup {path} /\ files'[path] = <<>>
        /\ \A p \in DOMAIN files \ {path} : files'[p] = files[p]
    BY <1>3, FileCreated
  <2>2. DOMAIN files'[path] = {}
    BY <2>1
  <2> HIDE DEF path
  <2> QED
    BY <2>1, <2>2 DEF OneSessionPerFile
<1> QED
  BY <1>1, <1>2, <1>3, DiskSame

\* No frame is ever written to a file of another session.
THEOREM OneSessionPerFileHolds == Spec => []OneSessionPerFile
<1>1. Init => OneSessionPerFile
  BY DEF Init, OneSessionPerFile
<1> QED
  BY <1>1, TypeInvariant, SessionStep, PTL DEF Spec

-----------------------------------------------------------------------------
(* Numbers of files *)

\* While a file is closed for the next one of its session, it is the last one
\* created.
NumberInv ==
  /\ NumberedWithoutHole
  /\ Opening /\ todo = "next" =>
       opened # <<>> /\ opened[Len(opened)] = <<last.session_id, seq>>

\* The open file is the last one created.
LEMMA OpenIsLast ==
  ASSUME TypeInv, PublishedOnce, ~Announced
  PROVE  opened # <<>> /\ opened[Len(opened)] = writer
<1>0. writer # NoFile
  BY DEF Announced
<1>1. /\ published \in Seq(Path) /\ <<writer>> \in Seq(Path)
      /\ opened = published \o <<writer>>
  BY <1>0 DEF TypeInv, TypeOK, PublishedOnce
<1>2. Len(opened) = Len(published) + 1
  BY <1>1
<1> QED
  BY <1>1, <1>2

LEMMA NumberStep ==
  ASSUME TypeInv, PublishedOnce, NumberInv, [Next]_vars PROVE NumberInv'
<1>0. opened \in Seq(Path) /\ seq \in Nat /\ todo \in {"return", "first", "next"}
  BY DEF TypeInv, TypeOK
<1>1. CASE CreateFile
  <2> DEFINE path == <<last.session_id, NextSeq>>
  <2>1. pc = "create" /\ pc' = "created" /\ todo # "return"
    BY <1>1 DEF CreateFile, Step, TypeInv, CallInv
  <2>2. path \in Path /\ opened' = Append(opened, path)
    BY <1>1, FileCreated
  <2>3. ASSUME NEW i \in DOMAIN opened'
        PROVE  \/ opened'[i][2] = 0
               \/ i > 1 /\ opened'[i] = <<opened'[i-1][1], opened'[i-1][2] + 1>>
    <3>1. CASE i \in DOMAIN opened
      <4>1. opened'[i] = opened[i] /\ (i > 1 => opened'[i-1] = opened[i-1])
        BY <1>0, <2>2, <3>1
      <4> QED
        BY <3>1, <4>1 DEF NumberInv, NumberedWithoutHole
    <3>2. CASE i = Len(opened) + 1 /\ todo = "first"
      <4>1. opened'[i] = path /\ path[2] = 0
        BY <1>0, <2>2, <3>2 DEF NextSeq
      <4> QED
        BY <4>1
    <3>3. CASE i = Len(opened) + 1 /\ todo = "next"
      <4>1. opened # <<>> /\ opened[Len(opened)] = <<last.session_id, seq>>
        BY <2>1, <3>3 DEF NumberInv, Opening
      <4>2. path = <<last.session_id, seq + 1>>
        BY <3>3 DEF NextSeq
      <4> HIDE DEF path
      <4>3. i > 1 /\ opened'[i] = path /\ opened'[i-1] = opened[Len(opened)]
        BY <1>0, <2>2, <3>3, <4>1
      <4> QED
        BY <4>1, <4>2, <4>3
    <3>4. i \in DOMAIN opened \/ i = Len(opened) + 1
      <4> HIDE DEF path
      <4> QED  BY <1>0, <2>2, <2>3
    <3> QED
      BY <1>0, <2>1, <3>1, <3>2, <3>3, <3>4
  <2>4. ~Opening'
    BY <2>1 DEF Opening, Closing
  <2> QED
    BY <2>3, <2>4 DEF NumberInv, NumberedWithoutHole
<1>2. CASE Rotate
  <2>1. pc = "called" /\ writer # NoFile /\ writer = <<last.session_id, seq>>
    BY <1>2 DEF Rotate, Decides, OtherSession, TypeInv, RegistersTellFile, FrameInv, Flow
  <2>2. ~Announced
    BY <2>1 DEF Announced
  <2>3. UNCHANGED <<opened, seq, last>>
    BY <1>2, FrameSame DEF Rotate, Decides, diskVars
  <2> QED
    BY <2>1, <2>2, <2>3, OpenIsLast DEF NumberInv, NumberedWithoutHole
<1>3. CASE opened' = opened /\ ~(Opening /\ todo = "next")'
  BY <1>3 DEF NumberInv, NumberedWithoutHole
<1>4. CASE \/ FrameArrives \/ SkipDisabled \/ CloseAtEnd \/ SkipFlow \/ ChangeSession \/ WriteOn
           \/ SetPath \/ SetSession \/ WriteFrame \/ EndProcessing
  <2>1. ~(Opening /\ todo = "next")'
    BY <1>4 DEF FrameArrives, SkipDisabled, CloseAtEnd, SkipFlow, ChangeSession, WriteOn,
       SetPath, SetSession, WriteFrame, EndProcessing, Decides, close_writer, After, Step,
       Opening, Closing
  <2>2. opened' = opened
    BY <1>4 DEF FrameArrives, SkipDisabled, CloseAtEnd, SkipFlow, ChangeSession, WriteOn,
       SetPath, SetSession, WriteFrame, EndProcessing, Decides, diskVars
  <2> QED
    BY <1>3, <2>1, <2>2
<1>5. CASE Opening' = Opening /\ UNCHANGED <<opened, seq, todo, last>>
  BY <1>5 DEF NumberInv, NumberedWithoutHole
<1>6. CASE ResetRegisters \/ Publish
  BY <1>5, <1>6, FrameSame DEF ResetRegisters, Publish, Step, diskVars, Opening, Closing
<1>7. CASE ClearPath
  <2>1. Opening' = Opening
    BY <1>0, <1>7 DEF ClearPath, Step, After, Opening, Closing
  <2> QED
    BY <1>5, <1>7, <2>1, FrameSame DEF ClearPath, Step, diskVars
<1>8. CASE set_disable \/ set_file_dur \/ Tick \/ UNCHANGED vars
  <2>1. UNCHANGED <<protocolVars, callVars, diskVars>>
    BY <1>8 DEF set_disable, set_file_dur, Tick, vars
  <2> QED
    BY <1>5, <2>1, FrameSame DEF callVars, diskVars, Opening, Closing
<1> QED
  BY <1>1, <1>2, <1>4, <1>6, <1>7, <1>8 DEF Next, SOFileWriter, GetWriter, CloseWriter, NewWriter

\* The files of a session are numbered 0, 1, 2, ... in the order of creation.
THEOREM NumberedWithoutHoleHolds == Spec => []NumberedWithoutHole
<1>1. Init => NumberInv
  BY DEF Init, NumberInv, NumberedWithoutHole
<1>2. NumberInv => NumberedWithoutHole
  BY DEF NumberInv
<1> QED
  BY <1>1, <1>2, TypeInvariant, PublishedOnceHolds, NumberStep, PTL DEF Spec

-----------------------------------------------------------------------------
(* The frames of a session *)

\* Steps of the fold of FramesOf: a frame of the session is appended.
FrameSteps(id, s) ==
  [i \in 1..Len(s) |->
     [v \in Seq(Record) |-> IF s[i].session_id = id THEN Append(v, s[i]) ELSE v]]
FramesFold(g, id, s) ==
  g = [t \in SUBSET DOMAIN s |->
         IF t = {} THEN <<>>
         ELSE IF s[Max(t)].session_id = id THEN Append(g[t \ {Max(t)}], s[Max(t)])
              ELSE g[t \ {Max(t)}]]

\* FramesOf as the function that its fold chooses.
LEMMA FramesChoice ==
  ASSUME NEW id, NEW s
  PROVE  FramesOf(id, s) = (CHOOSE g : FramesFold(g, id, s))[DOMAIN s]
BY DEF FramesOf, FoldLeft, MapThenFoldSet, FramesFold

\* The steps stay among the sequences of frames.
LEMMA FrameStepTypes ==
  ASSUME NEW id, NEW s \in Seq(Record)
  PROVE  /\ FrameSteps(id, s) \in [1..Len(s) -> [Seq(Record) -> Seq(Record)]]
         /\ \A i \in 1..Len(s) : \A v \in Seq(Record) :
              FrameSteps(id, s)[i][v] =
                IF s[i].session_id = id THEN Append(v, s[i]) ELSE v
<1>1. \A i \in 1..Len(s) : \A v \in Seq(Record) :
        (IF s[i].session_id = id THEN Append(v, s[i]) ELSE v) \in Seq(Record)
  BY DEF Record
<1> QED  BY <1>1 DEF FrameSteps

\* What FramesOf finds is what a run over the frames ends with.
LEMMA FramesRun ==
  ASSUME NEW id, NEW s \in Seq(Record)
  PROVE  Result(FramesOf(id, s), Len(s), Seq(Record), <<>>, FrameSteps(id, s))
<1> DEFINE n == Len(s)
           V == Seq(Record)
           step == FrameSteps(id, s)
<1>0. n \in Nat /\ DOMAIN s = 1..n /\ <<>> \in V
  OBVIOUS
<1>1. /\ step \in [1..n -> [V -> V]]
      /\ \A i \in 1..n : \A v \in V :
           step[i][v] = IF s[i].session_id = id THEN Append(v, s[i]) ELSE v
  BY FrameStepTypes
<1> HIDE DEF n, V, step
<1>2. PICK g1 \in [SUBSET (1..n) -> V] : RunsOnSets(g1, n, V, <<>>, step)
  BY <1>0, <1>1, FoldExists
<1>3. ASSUME NEW t \in SUBSET (1..n), t # {}
      PROVE  Max(t) \in 1..n /\ t \ {Max(t)} \in SUBSET (1..n)
  BY <1>0, <1>3, MaxExists
<1>4. FramesFold(g1, id, s)
  <2>1. ASSUME NEW t \in SUBSET (1..n), t # {}
        PROVE  g1[t] = IF s[Max(t)].session_id = id
                       THEN Append(g1[t \ {Max(t)}], s[Max(t)])
                       ELSE g1[t \ {Max(t)}]
    <3>1. g1[t \ {Max(t)}] \in V
      BY <1>2, <1>3, <2>1
    <3>2. g1[t] = step[Max(t)][g1[t \ {Max(t)}]]
      BY <1>2, <2>1, <3>1 DEF RunsOnSets
    <3> QED  BY <1>1, <1>3, <2>1, <3>1, <3>2
  <2>2. g1[{}] = <<>>
    BY <1>2 DEF RunsOnSets
  <2> QED  BY <1>0, <1>2, <2>1, <2>2 DEF FramesFold
<1> DEFINE g == CHOOSE f : FramesFold(f, id, s)
<1>5. FramesFold(g, id, s)
  BY <1>4
<1>6. FramesOf(id, s) = g[1..n]
  BY <1>0, FramesChoice
<1> HIDE DEF g
<1>7. RunsOnSets(g, n, V, <<>>, step)
  <2>1. g[{}] = <<>>
    BY <1>0, <1>5 DEF FramesFold
  <2>2. ASSUME NEW t \in SUBSET (1..n), t # {}, g[t \ {Max(t)}] \in V
        PROVE  g[t] = step[Max(t)][g[t \ {Max(t)}]]
    <3>1. g[t] = IF s[Max(t)].session_id = id THEN Append(g[t \ {Max(t)}], s[Max(t)])
                 ELSE g[t \ {Max(t)}]
      BY <1>0, <1>5, <2>2 DEF FramesFold
    <3> QED  BY <1>1, <1>3, <2>2, <3>1
  <2> QED  BY <2>1, <2>2 DEF RunsOnSets
<1>8. Result(g[1..n], n, V, <<>>, step)
  BY <1>0, <1>1, <1>7, FoldRuns
<1> QED  BY <1>6, <1>8 DEF n, V, step

\* A frame more is found if it belongs to the session.
LEMMA FramesAppend ==
  ASSUME NEW id, NEW s \in Seq(Record), NEW r \in Record
  PROVE  /\ FramesOf(id, Append(s, r)) =
              IF r.session_id = id THEN Append(FramesOf(id, s), r) ELSE FramesOf(id, s)
         /\ FramesOf(id, s) \in Seq(Record)
<1> DEFINE n == Len(s)
           t == Append(s, r)
           V == Seq(Record)
<1>1. /\ n \in Nat /\ <<>> \in V /\ t \in Seq(Record) /\ Len(t) = n + 1
      /\ t[n + 1] = r /\ \A i \in 1..n : t[i] = s[i]
  OBVIOUS
<1> HIDE DEF t
<1>2. /\ Result(FramesOf(id, s), n, V, <<>>, FrameSteps(id, s))
      /\ Result(FramesOf(id, t), n + 1, V, <<>>, FrameSteps(id, t))
  BY <1>1, FramesRun
<1>3. \A i \in 1..n : /\ FrameSteps(id, s)[i] \in [V -> V]
                      /\ FrameSteps(id, s)[i] = FrameSteps(id, t)[i]
  <2> TAKE i \in 1..n
  <2>1. i \in 1..(n + 1)
    BY <1>1
  <2>2. FrameSteps(id, s)[i] \in [V -> V]
    BY FrameStepTypes
  <2>3. FrameSteps(id, s)[i] = FrameSteps(id, t)[i]
    BY <1>1, <2>1 DEF FrameSteps
  <2> QED  BY <2>2, <2>3
<1>4. \A v \in V : FrameSteps(id, t)[n + 1][v] = IF r.session_id = id THEN Append(v, r) ELSE v
  <2>1. n + 1 \in 1..Len(t)
    BY <1>1
  <2> QED  BY <1>1, <2>1, FrameStepTypes
<1> HIDE DEF n, V
<1>5. /\ FramesOf(id, t) = FrameSteps(id, t)[n + 1][FramesOf(id, s)]
      /\ FramesOf(id, s) \in V
  BY <1>1, <1>2, <1>3, ResultExtends
<1>6. FramesOf(id, t) =
        IF r.session_id = id THEN Append(FramesOf(id, s), r) ELSE FramesOf(id, s)
  BY <1>4, <1>5
<1> QED  BY <1>5, <1>6 DEF t, V

\* No frame is found in none.
LEMMA FramesNone == ASSUME NEW id  PROVE FramesOf(id, <<>>) = <<>>
<1>1. <<>> \in Seq(Record) /\ Len(<<>>) = 0
  OBVIOUS
<1>2. Result(FramesOf(id, <<>>), 0, Seq(Record), <<>>, FrameSteps(id, <<>>))
  BY <1>1, FramesRun
<1> QED  BY <1>2 DEF Result, Runs

-----------------------------------------------------------------------------
(* The sessions *)

\* The ids of the sessions that started, and the phases in which one is open.
Ids == {sessions[i] : i \in DOMAIN sessions}
OpenPhases == {"announced", "streaming", "closing"}

\* A tagged frame belongs to the session that is open; the END comes after it.
ProtocolInv ==
  /\ phase \in OpenPhases => session \in Ids
  /\ ~Flow => phase \in OpenPhases /\ last.session_id = session
  /\ Flow /\ last.flowcontrol = "END" => phase = "ended"

\* Only sessions that started have files and frames.
NamedInv ==
  /\ \A p \in DOMAIN files : p[1] \in Ids
  /\ \A i \in DOMAIN kept : kept[i].session_id \in Ids

\* At most one session has this id.
Unique(id) ==
  \A i, j \in DOMAIN sessions : sessions[i] = id /\ sessions[j] = id => i = j

\* The files of a session are numbered 0 to m - 1 and hold its frames, except for
\* the one in hand; a file that will be created has the next number, and while
\* the session is open its last file is.
Filed(id, m) ==
  /\ FilesOf(id) = {<<id, k - 1>> : k \in 1..m}
  /\ FramesOf(id, kept) =
       IF InHand /\ last.session_id = id THEN Append(Files(id, m), LastRecord)
       ELSE Files(id, m)
  /\ Opening /\ last.session_id = id => NextSeq = m
  /\ ~Opening /\ phase \in OpenPhases /\ session = id /\ m # 0 =>
       writer = <<id, m - 1>>
FiledInv == \A id \in Nat : Unique(id) => \E m \in Nat : Filed(id, m)

\* A session starts, goes on, or a frame outside any session arrives.
LEMMA SessionSteps ==
  ASSUME FrameInv, Protocol!Next
  PROVE  /\ ~Flow' => phase' \in OpenPhases /\ last'.session_id = session'
         /\ Flow' /\ last'.flowcontrol = "END" => phase' = "ended"
         /\ Starts => phase \notin OpenPhases
         /\ ~Starts => session' = session /\ (phase' \in OpenPhases => phase \in OpenPhases)
<1> USE DEF Protocol!See, OpenPhases, Flow, Starts
<1>1. CASE Protocol!Alive
  BY <1>1 DEF Protocol!Alive, Protocol!Flow
<1>2. CASE Protocol!Open
  BY <1>2 DEF Protocol!Open, Protocol!Flow
<1>3. CASE Protocol!Announce
  BY <1>3 DEF Protocol!Announce, Protocol!Observation
<1>4. CASE Protocol!Dump
  BY <1>4 DEF Protocol!Dump, Protocol!Wiring
<1>5. CASE Protocol!Data
  BY <1>5 DEF Protocol!Data, Protocol!Scan
<1>6. CASE Protocol!Difference
  BY <1>6 DEF Protocol!Difference, Protocol!Wiring
<1>7. CASE Protocol!Close
  BY <1>7 DEF Protocol!Close, Protocol!Observation
<1>8. CASE Protocol!End
  BY <1>8 DEF Protocol!End, Protocol!Flow
<1>9. CASE Protocol!CleanseObservation
  BY <1>9 DEF Protocol!CleanseObservation, Protocol!Cleanse
<1>10. CASE Protocol!CleanseWiring
  BY <1>10 DEF Protocol!CleanseWiring, Protocol!Cleanse
<1> QED
  BY <1>1, <1>2, <1>3, <1>4, <1>5, <1>6, <1>7, <1>8, <1>9, <1>10 DEF Protocol!Next

\* The sessions named so far, after another one has started.
LEMMA IdsGrow ==
  ASSUME TypeInv, FrameArrives
  PROVE  /\ Ids \subseteq Ids' /\ DOMAIN sessions \subseteq DOMAIN sessions'
         /\ \A i \in DOMAIN sessions : sessions'[i] = sessions[i]
         /\ Starts => /\ session' \in Ids' /\ Len(sessions) + 1 \in DOMAIN sessions'
                      /\ Len(sessions) + 1 \notin DOMAIN sessions
                      /\ sessions'[Len(sessions) + 1] = session'
<1>1. sessions \in Seq(Nat)
  BY DEF TypeInv, TypeOK
<1>2. CASE Starts
  <2>1. sessions' = Append(sessions, session')
    BY <1>2 DEF FrameArrives
  <2>2. session' \in Nat
    <3>1. session' = time \div Second /\ time \in Nat
      BY <1>2 DEF FrameArrives, TypeInv, TypeOK
    <3> QED  BY <3>1, SecondAssumption
  <2>3. /\ DOMAIN sessions' = 1..(Len(sessions) + 1) /\ DOMAIN sessions = 1..Len(sessions)
        /\ \A i \in 1..Len(sessions) : sessions'[i] = sessions[i]
        /\ sessions'[Len(sessions) + 1] = session' /\ Len(sessions) \in Nat
    BY <1>1, <2>1, <2>2
  <2>4. DOMAIN sessions \subseteq DOMAIN sessions'
    BY <2>3
  <2>5. Len(sessions) + 1 \in DOMAIN sessions' /\ Len(sessions) + 1 \notin DOMAIN sessions
    BY <2>3
  <2> QED  BY <2>3, <2>4, <2>5 DEF Ids
<1>3. CASE ~Starts
  <2>1. sessions' = sessions
    BY <1>3 DEF FrameArrives
  <2> QED  BY <1>3, <2>1 DEF Ids
<1> QED  BY <1>2, <1>3

\* Sessions and the frame in hand change with the arrival of a frame only.
LEMMA ArrivalSame ==
  ASSUME [Next]_vars, ~FrameArrives
  PROVE  UNCHANGED <<protocolVars, sessions>>
<1>1. CASE GetWriter
  BY <1>1 DEF GetWriter, SkipDisabled, CloseAtEnd, SkipFlow, ChangeSession, Rotate, WriteOn,
     Decides
<1>2. CASE CloseWriter
  BY <1>2 DEF CloseWriter, ResetRegisters, Publish, ClearPath, Step
<1>3. CASE NewWriter \/ WriteFrame \/ EndProcessing
  BY <1>3 DEF NewWriter, CreateFile, SetPath, SetSession, WriteFrame, EndProcessing, Step
<1> QED
  BY <1>1, <1>2, <1>3 DEF Next, SOFileWriter, set_disable, set_file_dur, Tick, vars

\* Tags, phases and the end of a session belong together.
LEMMA ProtocolInvariance == Spec => []ProtocolInv
<1>1. Init => ProtocolInv
  BY DEF Init, Protocol!Init, Protocol!Flow, ProtocolInv, OpenPhases, Flow
<1>2. TypeInv /\ ProtocolInv /\ [Next]_vars => ProtocolInv'
  <2> SUFFICES ASSUME TypeInv, ProtocolInv, [Next]_vars  PROVE ProtocolInv'
    OBVIOUS
  <2>1. CASE FrameArrives
    <3>1. Protocol!Next /\ FrameInv
      BY <2>1 DEF FrameArrives, TypeInv
    <3>2. phase' \in OpenPhases => session' \in Ids'
      <4>1. CASE Starts
        BY <2>1, <4>1, IdsGrow
      <4>2. CASE ~Starts
        BY <2>1, <3>1, <4>2, IdsGrow, SessionSteps DEF ProtocolInv
      <4> QED  BY <4>1, <4>2
    <3> QED  BY <3>1, <3>2, SessionSteps DEF ProtocolInv
  <2>2. CASE UNCHANGED <<protocolVars, sessions>>
    BY <2>2 DEF protocolVars, ProtocolInv, Ids, Flow
  <2> QED
    BY <2>1, <2>2, ArrivalSame
<1> QED  BY <1>1, <1>2, TypeInvariant, PTL DEF Spec

\* The numbered files of a session, as sequences of frames.
LEMMA FilesAre ==
  ASSUME TypeInv, NEW id \in Nat, NEW m \in Nat,
         FilesOf(id) = {<<id, k - 1>> : k \in 1..m}
  PROVE  /\ \A k \in 1..m :
              <<id, k - 1>> \in DOMAIN files /\ files[<<id, k - 1>>] \in Seq(Record)
         /\ [k \in 1..m |-> files[<<id, k - 1>>]] \in Seq(Seq(Record))
         /\ Len([k \in 1..m |-> files[<<id, k - 1>>]]) = m
<1>1. \A k \in 1..m : <<id, k - 1>> \in DOMAIN files
  BY DEF FilesOf
<1>2. \A k \in 1..m : files[<<id, k - 1>>] \in Seq(Record)
  BY <1>1 DEF TypeInv, TypeOK
<1> QED  BY <1>1, <1>2

\* Files that stay as they are read the same.
LEMMA FilesSame ==
  ASSUME NEW id \in Nat, NEW m \in Nat,
         \A k \in 1..m : files'[<<id, k - 1>>] = files[<<id, k - 1>>]
  PROVE  Files(id, m)' = Files(id, m)
<1>1. [k \in 1..m |-> files'[<<id, k - 1>>]] = [k \in 1..m |-> files[<<id, k - 1>>]]
  OBVIOUS
<1> QED  BY <1>1 DEF Files

\* A file more puts its frames behind the others,
LEMMA FilesMore ==
  ASSUME TypeInv, NEW id \in Nat, NEW m \in Nat, NEW s \in Seq(Record),
         FilesOf(id) = {<<id, k - 1>> : k \in 1..m},
         \A k \in 1..m : files'[<<id, k - 1>>] = files[<<id, k - 1>>],
         files'[<<id, m>>] = s
  PROVE  Files(id, m + 1)' = Files(id, m) \o s /\ Files(id, m) \in Seq(Record)
<1> DEFINE ss == [k \in 1..m |-> files[<<id, k - 1>>]]
           tt == [k \in 1..(m + 1) |-> files'[<<id, k - 1>>]]
<1>1. ss \in Seq(Seq(Record)) /\ Len(ss) = m
  BY FilesAre
<1>2. tt = Append(ss, s)
  <2>1. /\ Append(ss, s) \in Seq(Seq(Record)) /\ Len(Append(ss, s)) = m + 1
        /\ Append(ss, s)[m + 1] = s /\ \A k \in 1..m : Append(ss, s)[k] = ss[k]
    BY <1>1
  <2>2. \A k \in 1..(m + 1) : tt[k] = Append(ss, s)[k]
    <3> TAKE k \in 1..(m + 1)
    <3>1. CASE k \in 1..m
      BY <2>1, <3>1
    <3>2. CASE k = m + 1
      <4>1. k - 1 = m
        BY <3>2
      <4> QED  BY <2>1, <3>2, <4>1
    <3> QED  BY <3>1, <3>2
  <2>3. \A k \in 1..(m + 1) : tt[k] \in Seq(Record)
    BY <2>1, <2>2
  <2>4. tt \in Seq(Seq(Record)) /\ Len(tt) = m + 1
    <3>1. tt = [k \in 1..(m + 1) |-> tt[k]] /\ m + 1 \in Nat
      OBVIOUS
    <3> HIDE DEF tt
    <3> QED  BY <2>3, <3>1, FunctionIsSequence
  <2> HIDE DEF ss, tt
  <2>5. \A k \in 1..Len(tt) : tt[k] = Append(ss, s)[k]
    BY <2>2, <2>4
  <2> QED  BY <2>1, <2>4, <2>5, SeqEqual
<1> HIDE DEF ss, tt
<1>3. FlattenSeq(tt) = FlattenSeq(ss) \o s /\ FlattenSeq(ss) \in Seq(Record)
  BY <1>1, <1>2, FlattenAppend
<1> QED  BY <1>3 DEF Files, ss, tt

\* and so does a frame more in the last file.
LEMMA LastFileGrows ==
  ASSUME TypeInv, NEW id \in Nat, NEW m \in Nat \ {0}, NEW r \in Record,
         FilesOf(id) = {<<id, k - 1>> : k \in 1..m},
         \A k \in 1..(m - 1) : files'[<<id, k - 1>>] = files[<<id, k - 1>>],
         files'[<<id, m - 1>>] = Append(files[<<id, m - 1>>], r)
  PROVE  Files(id, m)' = Append(Files(id, m), r)
<1> DEFINE n == m - 1
           ss == [k \in 1..n |-> files[<<id, k - 1>>]]
           s == files[<<id, n>>]
<1>0. n \in Nat /\ n + 1 = m /\ m \in 1..m /\ \A k \in 1..n : k \in 1..m
  OBVIOUS
<1>1. s \in Seq(Record) /\ \A k \in 1..n : files[<<id, k - 1>>] \in Seq(Record)
  BY <1>0, FilesAre
<1>2. ss \in Seq(Seq(Record)) /\ Len(ss) = n
  BY <1>0, <1>1
<1>3. [k \in 1..m |-> files[<<id, k - 1>>]] = Append(ss, s)
  <2> DEFINE tt == [k \in 1..m |-> files[<<id, k - 1>>]]
  <2>1. /\ tt \in Seq(Seq(Record)) /\ Len(tt) = m
    BY FilesAre
  <2>2. /\ Append(ss, s) \in Seq(Seq(Record)) /\ Len(Append(ss, s)) = m
        /\ Append(ss, s)[m] = s /\ \A k \in 1..n : Append(ss, s)[k] = ss[k]
    <3> HIDE DEF n, ss, s
    <3> QED  BY <1>0, <1>1, <1>2
  <2>3. \A k \in 1..m : tt[k] = Append(ss, s)[k]
    <3> TAKE k \in 1..m
    <3>1. CASE k \in 1..n
      BY <2>2, <3>1
    <3>2. CASE k = m
      BY <2>2, <3>2
    <3> QED  BY <3>1, <3>2
  <2> HIDE DEF ss, tt, s
  <2>4. \A k \in 1..Len(tt) : tt[k] = Append(ss, s)[k]
    BY <2>1, <2>3
  <2> QED  BY <2>1, <2>2, <2>4, SeqEqual DEF tt
<1>4. [k \in 1..m |-> files'[<<id, k - 1>>]] = Append(ss, Append(s, r))
  <2> DEFINE tt == [k \in 1..m |-> files'[<<id, k - 1>>]]
  <2>1. Append(s, r) \in Seq(Record)
    BY <1>1
  <2>2. /\ Append(ss, Append(s, r)) \in Seq(Seq(Record)) /\ Len(Append(ss, Append(s, r))) = m
        /\ Append(ss, Append(s, r))[m] = Append(s, r)
        /\ \A k \in 1..n : Append(ss, Append(s, r))[k] = ss[k]
    <3> HIDE DEF n, ss, s
    <3> QED  BY <1>0, <1>2, <2>1
  <2>3. \A k \in 1..m : tt[k] = Append(ss, Append(s, r))[k]
    <3> TAKE k \in 1..m
    <3>1. CASE k \in 1..n
      BY <2>2, <3>1
    <3>2. CASE k = m
      BY <2>2, <3>2
    <3> QED  BY <3>1, <3>2
  <2>4. \A k \in 1..m : tt[k] \in Seq(Record)
    <3>1. \A k \in 1..m : k \in 1..n \/ k = m
      BY <1>0
    <3>2. \A k \in 1..n : ss[k] \in Seq(Record)
      BY <1>1
    <3> HIDE DEF n, ss, s, tt
    <3> QED  BY <2>1, <2>2, <2>3, <3>1, <3>2
  <2>5. tt \in Seq(Seq(Record)) /\ Len(tt) = m
    <3>1. tt = [k \in 1..m |-> tt[k]] /\ m \in Nat
      OBVIOUS
    <3> HIDE DEF tt
    <3> QED  BY <2>4, <3>1, FunctionIsSequence
  <2> HIDE DEF ss, tt, s
  <2>6. \A k \in 1..Len(tt) : tt[k] = Append(ss, Append(s, r))[k]
    BY <2>3, <2>5
  <2> QED  BY <2>2, <2>5, <2>6, SeqEqual DEF tt
<1>5. Append(s, r) \in Seq(Record)
  BY <1>1
<1> HIDE DEF n, ss, s
<1>6. /\ FlattenSeq(Append(ss, s)) = FlattenSeq(ss) \o s
      /\ FlattenSeq(Append(ss, Append(s, r))) = FlattenSeq(ss) \o Append(s, r)
      /\ FlattenSeq(ss) \in Seq(Record)
  BY <1>1, <1>2, <1>5, FlattenAppend
<1>7. FlattenSeq(ss) \o Append(s, r) = Append(FlattenSeq(ss) \o s, r)
  <2> DEFINE f == FlattenSeq(ss)
  <2>1. f \in Seq(Record) /\ <<r>> \in Seq(Record) /\ f \o s \in Seq(Record)
    BY <1>1, <1>6
  <2> HIDE DEF f
  <2>2. Append(s, r) = s \o <<r>> /\ Append(f \o s, r) = (f \o s) \o <<r>>
    BY <1>1, <2>1, AppendIsConcat
  <2>3. f \o (s \o <<r>>) = (f \o s) \o <<r>>
    BY <1>1, <2>1, ConcatAssociative
  <2> QED  BY <2>2, <2>3 DEF f
<1> QED  BY <1>3, <1>4, <1>6, <1>7 DEF Files

\* No files hold no frames.
LEMMA FilesNone == ASSUME NEW id \in Nat  PROVE Files(id, 0) = <<>>
<1>1. [k \in 1..0 |-> files[<<id, k - 1>>]] = <<>>
  OBVIOUS
<1> QED  BY <1>1, FlattenNone DEF Files

\* An id that one session has now has not been another one's before.
LEMMA UniqueBefore ==
  ASSUME TypeInv, [Next]_vars, NEW id, Unique(id)'
  PROVE  Unique(id)
<1>1. CASE FrameArrives
  BY <1>1, IdsGrow DEF Unique
<1>2. CASE sessions' = sessions
  BY <1>2 DEF Unique
<1> QED
  BY <1>1, <1>2, ArrivalSame

\* A frame that is kept belongs to the open session.
LEMMA KeptStep ==
  ASSUME TypeInv, ProtocolInv, ~Flow, Keep
  PROVE  /\ LastRecord \in Record /\ LastRecord.session_id = session
         /\ last.session_id = session /\ session \in Ids /\ phase \in OpenPhases
         /\ session \in Nat \ {0}
         /\ kept' \in Seq(Record)
         /\ \A i \in DOMAIN kept' :
              (i \in DOMAIN kept /\ kept'[i] = kept[i]) \/ kept'[i] = LastRecord
         /\ FramesOf(session, kept') = Append(FramesOf(session, kept), LastRecord)
         /\ \A id \in Nat \ {session} : FramesOf(id, kept') = FramesOf(id, kept)
<1>1. /\ LastRecord \in Record /\ LastRecord.session_id = last.session_id
      /\ kept \in Seq(Record) /\ kept' = Append(kept, LastRecord)
  BY DEF TypeInv, TypeOK, FrameInv, Flow, LastRecord, Record, Keep
<1>2. last.session_id = session /\ session \in Ids /\ phase \in OpenPhases
  BY DEF ProtocolInv
<1>3. session \in Nat \ {0}
  BY <1>2 DEF TypeInv, FrameInv, OpenPhases
<1>4. \A id \in Nat : FramesOf(id, kept') = IF LastRecord.session_id = id
                        THEN Append(FramesOf(id, kept), LastRecord) ELSE FramesOf(id, kept)
  BY <1>1, FramesAppend
<1>5. kept' \in Seq(Record) /\ \A i \in DOMAIN kept' :
        (i \in DOMAIN kept /\ kept'[i] = kept[i]) \/ kept'[i] = LastRecord
  <2> DEFINE r == LastRecord
  <2>1. r \in Record /\ kept' = Append(kept, r)
    BY <1>1
  <2> HIDE DEF r
  <2>2. kept' \in Seq(Record) /\ \A i \in DOMAIN kept' :
        (i \in DOMAIN kept /\ kept'[i] = kept[i]) \/ kept'[i] = r
    BY <1>1, <2>1
  <2> QED  BY <2>2 DEF r
<1> QED  BY <1>1, <1>2, <1>3, <1>4, <1>5

\* Frames are kept when a writer is looked for.
LEMMA KeptSame ==
  ASSUME [Next]_vars, ~(ChangeSession \/ Rotate \/ WriteOn)
  PROVE  kept' = kept
<1>1. CASE GetWriter
  BY <1>1 DEF GetWriter, SkipDisabled, CloseAtEnd, SkipFlow
<1>2. CASE CloseWriter
  BY <1>2 DEF CloseWriter, ResetRegisters, Publish, ClearPath, Step
<1>3. CASE NewWriter \/ WriteFrame \/ EndProcessing
  BY <1>3 DEF NewWriter, CreateFile, SetPath, SetSession, WriteFrame, EndProcessing, Step
<1> QED
  BY <1>1, <1>2, <1>3 DEF Next, FrameArrives, SOFileWriter, set_disable, set_file_dur, Tick, vars

\* Only sessions that started have files and frames.
LEMMA NamedStep ==
  ASSUME TypeInv, ProtocolInv, NamedInv, [Next]_vars
  PROVE  NamedInv'
<1>1. CASE FrameArrives
  <2>1. UNCHANGED <<files, kept>> /\ Ids \subseteq Ids'
    BY <1>1, IdsGrow DEF FrameArrives, diskVars
  <2> QED  BY <2>1 DEF NamedInv
<1>2. CASE ChangeSession \/ Rotate \/ WriteOn
  <2>1. ~Flow /\ Keep /\ sessions' = sessions /\ files' = files
    BY <1>2 DEF ChangeSession, Rotate, WriteOn, Decides, diskVars
  <2>2. \A i \in DOMAIN kept' : kept'[i].session_id \in Ids
    BY <2>1, KeptStep DEF NamedInv
  <2> QED  BY <2>1, <2>2 DEF NamedInv, Ids
<1>3. CASE CreateFile
  <2>1. /\ ~Flow /\ UNCHANGED <<kept, sessions>>
        /\ DOMAIN files' = DOMAIN files \cup {<<last.session_id, NextSeq>>}
    BY <1>3, FileCreated DEF CreateFile, Step
  <2>2. last.session_id \in Ids
    BY <2>1 DEF ProtocolInv
  <2> QED  BY <2>1, <2>2 DEF NamedInv, Ids
<1>4. CASE WriteFrame
  <2>1. DOMAIN files' = DOMAIN files /\ UNCHANGED <<kept, sessions>>
    BY <1>4, FrameWritten DEF WriteFrame, Step
  <2> QED  BY <2>1 DEF NamedInv, Ids
<1>5. CASE ~(FrameArrives \/ ChangeSession \/ Rotate \/ WriteOn \/ CreateFile \/ WriteFrame)
  <2>1. UNCHANGED <<files, kept, sessions>>
    BY <1>5, DiskSame, KeptSame, ArrivalSame
  <2> QED  BY <2>1 DEF NamedInv, Ids
<1> QED
  BY <1>1, <1>2, <1>3, <1>4, <1>5

\* A frame that arrives changes nothing for the sessions before, and a session
\* that starts has neither files nor frames.
LEMMA FiledArrival ==
  ASSUME TypeInv, ProtocolInv, NamedInv, FrameArrives,
         NEW id \in Nat, Unique(id)', NEW m \in Nat, Filed(id, m)
  PROVE  Filed(id, m)'
<1>1. /\ UNCHANGED <<files, kept, seq, writer>> /\ pc = "ready" /\ pc' = "called"
      /\ FrameInv /\ Protocol!Next
  BY DEF FrameArrives, writerVars, diskVars, TypeInv
<1>2. ~InHand /\ ~InHand' /\ ~Opening /\ ~Opening'
  BY <1>1 DEF InHand, Opening, Closing
<1>3. FilesOf(id)' = FilesOf(id) /\ Files(id, m)' = Files(id, m)
  BY <1>1 DEF FilesOf, Files
<1>4. ASSUME (phase \in OpenPhases)', session' = id, m # 0  PROVE writer = <<id, m - 1>>
  <2>1. CASE Starts
    <3>1. <<id, 0>> \in FilesOf(id)
      <4>1. 1 \in 1..m /\ 1 - 1 = 0
        BY <1>4
      <4> QED  BY <4>1 DEF Filed
    <3>2. id \in Ids
      BY <3>1 DEF FilesOf, NamedInv
    <3>3. PICK i \in DOMAIN sessions : sessions[i] = id
      BY <3>2 DEF Ids
    <3> QED  BY <1>4, <2>1, <3>3, IdsGrow DEF Unique
  <2>2. CASE ~Starts
    <3>1. session = id /\ phase \in OpenPhases
      BY <1>1, <1>4, <2>2, SessionSteps DEF OpenPhases
    <3> QED  BY <1>2, <1>4, <3>1 DEF Filed
  <2> QED  BY <2>1, <2>2
<1> QED  BY <1>1, <1>2, <1>3, <1>4 DEF Filed

\* The steps between two that look for a writer, create a file or write to it.
LEMMA FiledQuiet ==
  ASSUME UNCHANGED <<files, kept, seq, protocolVars>>,
         InHand' = InHand, Opening' = Opening, Opening => todo' = todo,
         writer' = writer \/ Opening \/ phase = "ended",
         NEW id \in Nat, NEW m \in Nat, Filed(id, m)
  PROVE  Filed(id, m)'
<1>1. /\ FilesOf(id)' = FilesOf(id) /\ Files(id, m)' = Files(id, m)
      /\ UNCHANGED <<last, phase, session, kept, seq>> /\ LastRecord' = LastRecord
  BY DEF FilesOf, Files, LastRecord, protocolVars
<1>2. Opening => NextSeq' = NextSeq
  BY DEF NextSeq
<1>3. writer' = writer \/ Opening \/ phase \notin OpenPhases
  BY DEF OpenPhases
<1>4. FilesOf(id)' = {<<id, k - 1>> : k \in 1..m}
  BY <1>1 DEF Filed
<1>5. FramesOf(id, kept)' =
        IF InHand' /\ last'.session_id = id THEN Append(Files(id, m)', LastRecord')
        ELSE Files(id, m)'
  BY <1>1 DEF Filed
<1>6. Opening' /\ last'.session_id = id => NextSeq' = m
  BY <1>1, <1>2 DEF Filed
<1>7. ~Opening' /\ phase' \in OpenPhases /\ session' = id /\ m # 0 => writer' = <<id, m - 1>>
  BY <1>1, <1>3 DEF Filed
<1> QED  BY <1>4, <1>5, <1>6, <1>7 DEF Filed, OpenPhases

\* A frame for which a writer is looked for is in hand; if the session or the age
\* of the file asks for another file, it has the next number of its session.
LEMMA FiledKeep ==
  ASSUME TypeInv, ProtocolInv, ChangeSession \/ Rotate \/ WriteOn,
         NEW id \in Nat, NEW m \in Nat, Filed(id, m)
  PROVE  Filed(id, m)'
<1>1. /\ ~Flow /\ Keep /\ pc = "called" /\ UNCHANGED <<writer, seq, files, last, phase, session>>
  BY FrameSame DEF ChangeSession, Rotate, WriteOn, Decides, writerVars, diskVars
<1>2. /\ LastRecord \in Record /\ last.session_id = session /\ session \in Nat \ {0}
      /\ phase \in OpenPhases
  BY <1>1, KeptStep
<1>3. ~InHand /\ ~Opening /\ InHand'
  BY <1>1 DEF ChangeSession, Rotate, WriteOn, close_writer, After, InHand, Opening, Closing
<1>4. FilesOf(id)' = FilesOf(id) /\ Files(id, m)' = Files(id, m) /\ LastRecord' = LastRecord
  BY <1>1 DEF FilesOf, Files, LastRecord
<1>5. FramesOf(id, kept) = Files(id, m) /\ FilesOf(id) = {<<id, k - 1>> : k \in 1..m}
  BY <1>3 DEF Filed
<1>6. CASE session # id
  <2>1. FramesOf(id, kept') = FramesOf(id, kept)
    BY <1>1, <1>6, KeptStep
  <2> QED  BY <1>1, <1>2, <1>4, <1>5, <1>6, <2>1 DEF Filed
<1>7. CASE session = id
  <2>1. FramesOf(id, kept') = Append(FramesOf(id, kept), LastRecord)
    BY <1>1, <1>7, KeptStep
  <2>2. m # 0 => writer = <<id, m - 1>>
    BY <1>2, <1>3, <1>7 DEF Filed
  <2>3. writer # NoFile =>
          writer = <<cur_session_id, seq>> /\ cur_session_id \in Nat /\ seq \in Nat
    BY <1>1 DEF TypeInv, RegistersTellFile, TypeOK
  <2>4. Opening' => NextSeq' = m
    <3>1. CASE ChangeSession
      <4>1. cur_session_id # session /\ NextSeq' = 0
        BY <1>2, <3>1 DEF ChangeSession, OtherSession, close_writer, NextSeq
      <4>2. m = 0
        <5> SUFFICES ASSUME m # 0  PROVE FALSE
          OBVIOUS
        <5>1. writer = <<id, m - 1>> /\ writer # NoFile
          BY <2>2, AbsentAssumption
        <5> QED  BY <1>7, <2>3, <4>1, <5>1
      <4> QED  BY <4>1, <4>2
    <3>2. CASE Rotate
      <4>1. cur_session_id = session /\ NextSeq' = seq + 1
        BY <1>1, <1>2, <3>2 DEF Rotate, OtherSession, close_writer, NextSeq
      <4>2. writer # NoFile
        BY <1>1, <1>2, <4>1 DEF TypeInv, RegistersTellFile
      <4>3. writer = <<id, seq>> /\ writer \in DOMAIN files /\ seq \in Nat
        BY <1>7, <2>3, <4>1, <4>2 DEF TypeInv, TypeOK
      <4>4. writer \in FilesOf(id)
        BY <4>3 DEF FilesOf
      <4>5. m # 0
        BY <1>5, <4>4
      <4>6. seq = m - 1
        BY <2>2, <4>3, <4>5
      <4> QED  BY <4>1, <4>3, <4>6
    <3>3. CASE WriteOn
      BY <3>3 DEF WriteOn, Opening, Closing
    <3> QED  BY <3>1, <3>2, <3>3
  <2>5. m # 0 => writer' = <<id, m - 1>>
    BY <1>1, <2>2
  <2> QED  BY <1>1, <1>2, <1>3, <1>4, <1>5, <1>7, <2>1, <2>4, <2>5 DEF Filed
<1> QED  BY <1>6, <1>7

\* A frame written to the open file is the last of the last file.
LEMMA FiledWrite ==
  ASSUME TypeInv, ProtocolInv, WriteFrame, NEW id \in Nat, NEW m \in Nat, Filed(id, m)
  PROVE  Filed(id, m)'
<1>1. /\ pc = "write" /\ pc' = "ready"
      /\ UNCHANGED <<last, phase, session, writer, kept, seq>>
  BY FrameSame DEF WriteFrame, Step, writerVars
<1>2. /\ ~Flow /\ LastRecord \in Record
      /\ writer = <<last.session_id, seq>> /\ writer \in DOMAIN files
      /\ DOMAIN files' = DOMAIN files
      /\ files'[writer] = Append(files[writer], LastRecord)
      /\ \A p \in DOMAIN files \ {writer} : files'[p] = files[p]
  BY FrameWritten
<1>3. /\ last.session_id = session /\ phase \in OpenPhases
      /\ session \in Nat \ {0} /\ seq \in Nat
  BY <1>2 DEF ProtocolInv, TypeInv, TypeOK, FrameInv, Flow
<1>4. InHand /\ ~InHand' /\ ~Opening /\ ~Opening'
  BY <1>1 DEF InHand, Opening, Closing
<1>5. FilesOf(id) = {<<id, k - 1>> : k \in 1..m} /\ FilesOf(id)' = FilesOf(id)
  BY <1>2 DEF Filed, FilesOf
<1>6. \A k \in 1..m : <<id, k - 1>> \in DOMAIN files
  BY <1>5, FilesAre
<1>7. CASE session # id
  <2>1. \A k \in 1..m : files'[<<id, k - 1>>] = files[<<id, k - 1>>]
    BY <1>2, <1>3, <1>6, <1>7
  <2>2. Files(id, m)' = Files(id, m)
    BY <2>1, FilesSame
  <2>3. FramesOf(id, kept) = Files(id, m)
    BY <1>3, <1>7 DEF Filed
  <2> QED  BY <1>1, <1>4, <1>5, <1>7, <2>2, <2>3 DEF Filed
<1>8. CASE session = id
  <2>1. FramesOf(id, kept) = Append(Files(id, m), LastRecord)
    BY <1>3, <1>4, <1>8 DEF Filed
  <2>2. writer \in FilesOf(id)
    BY <1>2, <1>3, <1>8 DEF FilesOf
  <2>3. m # 0
    BY <1>5, <2>2
  <2>4. writer = <<id, m - 1>>
    BY <1>3, <1>4, <1>8, <2>3 DEF Filed
  <2>5. files'[<<id, m - 1>>] = Append(files[<<id, m - 1>>], LastRecord)
    BY <1>2, <2>4
  <2>6. ASSUME NEW k \in 1..(m - 1)  PROVE files'[<<id, k - 1>>] = files[<<id, k - 1>>]
    <3>1. k \in 1..m /\ k - 1 # m - 1
      BY <2>3
    <3>2. <<id, k - 1>> \in DOMAIN files \ {writer}
      BY <1>6, <2>4, <3>1
    <3> QED  BY <1>2, <3>2
  <2>7. Files(id, m)' = Append(Files(id, m), LastRecord)
    BY <1>2, <1>5, <2>3, <2>5, <2>6, LastFileGrows
  <2> QED  BY <1>1, <1>4, <1>5, <1>8, <2>1, <2>4, <2>7 DEF Filed
<1> QED  BY <1>7, <1>8

\* A new file is empty, and the last one of its session.
LEMMA FiledCreate ==
  ASSUME TypeInv, ProtocolInv, CreateFile, NEW id \in Nat, NEW m \in Nat, Filed(id, m)
  PROVE  \E n \in Nat : Filed(id, n)'
<1>1. pc = "create" /\ pc' = "created" /\ UNCHANGED <<last, phase, session, kept>>
  BY FrameSame DEF CreateFile, Step
<1> DEFINE path == <<last.session_id, NextSeq>>
<1>2. /\ ~Flow /\ path \in Path /\ writer' = path
      /\ DOMAIN files' = DOMAIN files \cup {path} /\ files'[path] = <<>>
      /\ \A p \in DOMAIN files \ {path} : files'[p] = files[p]
  BY FileCreated
<1>3. last.session_id = session /\ phase \in OpenPhases
  BY <1>2 DEF ProtocolInv
<1>4. InHand /\ InHand' /\ Opening /\ ~Opening' /\ LastRecord' = LastRecord
  BY <1>1 DEF InHand, Opening, Closing, LastRecord
<1>5. FilesOf(id) = {<<id, k - 1>> : k \in 1..m}
  BY DEF Filed
<1>6. \A k \in 1..m : <<id, k - 1>> \in DOMAIN files
  BY <1>5, FilesAre
<1>7. CASE session # id
  <2>1. \A k \in 1..m : files'[<<id, k - 1>>] = files[<<id, k - 1>>]
    BY <1>2, <1>3, <1>6, <1>7
  <2>2. Files(id, m)' = Files(id, m)
    BY <2>1, FilesSame
  <2>3. FilesOf(id)' = FilesOf(id)
    BY <1>2, <1>3, <1>7 DEF FilesOf
  <2>4. FramesOf(id, kept) = Files(id, m)
    BY <1>3, <1>7 DEF Filed
  <2>5. Filed(id, m)'
    BY <1>1, <1>3, <1>4, <1>5, <1>7, <2>2, <2>3, <2>4 DEF Filed
  <2> QED  BY <2>5
<1>8. CASE session = id
  <2>1. path = <<id, m>> /\ FramesOf(id, kept) = Append(Files(id, m), LastRecord)
    BY <1>3, <1>4, <1>8 DEF Filed
  <2> HIDE DEF path
  <2>2. ASSUME NEW k \in 1..m  PROVE files'[<<id, k - 1>>] = files[<<id, k - 1>>]
    <3>1. k - 1 # m
      OBVIOUS
    <3>2. <<id, k - 1>> \in DOMAIN files \ {path}
      BY <1>6, <2>1, <3>1
    <3> QED  BY <1>2, <3>2
  <2>3. files'[<<id, m>>] = <<>> /\ <<>> \in Seq(Record)
    BY <1>2, <2>1, EmptySeq
  <2>4. Files(id, m + 1)' = Files(id, m) \o <<>> /\ Files(id, m) \in Seq(Record)
    BY <1>5, <2>2, <2>3, FilesMore
  <2>5. Files(id, m + 1)' = Files(id, m)
    BY <2>4, ConcatEmptySeq
  <2>6. FilesOf(id)' = {<<id, k - 1>> : k \in 1..(m + 1)}
    <3>1. FilesOf(id)' = FilesOf(id) \cup {<<id, m>>}
      BY <1>2, <2>1 DEF FilesOf
    <3>2. \A k \in 1..(m + 1) : k \in 1..m \/ k - 1 = m
      OBVIOUS
    <3>3. \A k \in 1..m : k \in 1..(m + 1)
      OBVIOUS
    <3>4. m + 1 \in 1..(m + 1) /\ (m + 1) - 1 = m
      OBVIOUS
    <3> QED  BY <1>5, <3>1, <3>2, <3>3, <3>4
  <2>7. writer' = <<id, (m + 1) - 1>> /\ m + 1 \in Nat
    BY <1>2, <2>1
  <2>8. Filed(id, m + 1)'
    BY <1>1, <1>3, <1>4, <1>8, <2>1, <2>5, <2>6, <2>7 DEF Filed
  <2> QED  BY <2>7, <2>8
<1> QED  BY <1>7, <1>8

\* What the files hold is kept by every step.
LEMMA FiledStep ==
  ASSUME TypeInv, ProtocolInv, NamedInv, FiledInv, [Next]_vars
  PROVE  FiledInv'
<1> SUFFICES ASSUME NEW id \in Nat, Unique(id)'  PROVE \E n \in Nat : Filed(id, n)'
  BY DEF FiledInv
<1>1. PICK m \in Nat : Filed(id, m)
  BY UniqueBefore DEF FiledInv
<1>2. CASE FrameArrives
  BY <1>1, <1>2, FiledArrival
<1>3. CASE ChangeSession \/ Rotate \/ WriteOn
  BY <1>1, <1>3, FiledKeep
<1>4. CASE WriteFrame
  BY <1>1, <1>4, FiledWrite
<1>5. CASE CreateFile
  BY <1>1, <1>5, FiledCreate
<1>6. CASE /\ UNCHANGED <<files, kept, seq, protocolVars>>
           /\ InHand' = InHand /\ Opening' = Opening /\ (Opening => todo' = todo)
           /\ writer' = writer \/ Opening \/ phase = "ended"
  BY <1>1, <1>6, FiledQuiet
<1>7. CASE CloseAtEnd \/ SkipDisabled \/ SkipFlow
  BY <1>6, <1>7 DEF CloseAtEnd, SkipDisabled, SkipFlow, Decides, close_writer, After, writerVars,
     diskVars, InHand, Opening, Closing
<1>8. CASE ClearPath
  <2>1. InHand' = InHand /\ Opening' = Opening
    BY <1>8 DEF ClearPath, Step, After, InHand, Opening, Closing, TypeInv, TypeOK
  <2>2. Opening \/ phase = "ended"
    BY <1>8 DEF ClearPath, Step, Opening, Closing, TypeInv, CallInv, ProtocolInv
  <2> QED
    BY <1>6, <1>8, <2>1, <2>2 DEF ClearPath, Step, diskVars
<1>9. CASE ResetRegisters \/ Publish \/ SetPath \/ SetSession \/ EndProcessing
  BY <1>6, <1>9 DEF ResetRegisters, Publish, SetPath, SetSession, EndProcessing, Step,
     writerVars, diskVars, InHand, Opening, Closing
<1>10. CASE SOFileWriter \/ Tick \/ UNCHANGED vars
  BY <1>6, <1>10 DEF SOFileWriter, set_disable, set_file_dur, Tick, vars, callVars, diskVars,
     writerVars, InHand, Opening, Closing
<1> QED
  BY <1>2, <1>3, <1>4, <1>5, <1>7, <1>8, <1>9, <1>10
     DEF Next, GetWriter, CloseWriter, NewWriter

\* What the files hold is invariant.
LEMMA SessionInvariance == Spec => [](NamedInv /\ FiledInv)
<1>1. Init => NamedInv /\ FiledInv
  <2> SUFFICES ASSUME Init  PROVE NamedInv /\ FiledInv
    OBVIOUS
  <2>1. files = <<>> /\ kept = <<>> /\ sessions = <<>> /\ pc = "ready" /\ DOMAIN files = {}
    BY DEF Init
  <2>2. \A id \in Nat : Filed(id, 0)
    <3> TAKE id \in Nat
    <3>1. FilesOf(id) = {}
      BY <2>1 DEF FilesOf
    <3>2. {<<id, k - 1>> : k \in 1..0} = {}
      OBVIOUS
    <3>3. FramesOf(id, kept) = <<>> /\ Files(id, 0) = <<>>
      BY <2>1, FramesNone, FilesNone
    <3> QED  BY <2>1, <3>1, <3>2, <3>3 DEF Filed, InHand, Opening, Closing
  <2> QED  BY <2>1, <2>2 DEF NamedInv, FiledInv
<1>2. TypeInv /\ ProtocolInv /\ NamedInv /\ FiledInv /\ [Next]_vars => (NamedInv /\ FiledInv)'
  BY NamedStep, FiledStep
<1> QED  BY <1>1, <1>2, TypeInvariant, ProtocolInvariance, PTL DEF Spec

\* A session that no other one shares its id with can be read back from its
\* files, whatever rotations, switches of disable and missed ends there were.
THEOREM SessionsReadBackHolds == Spec => []SessionsReadBack
<1>1. TypeInv /\ FiledInv => SessionsReadBack
  <2> SUFFICES ASSUME TypeInv, FiledInv, pc \in {"ready", "stopped"},
                      NEW i \in DOMAIN sessions, NamesOneSession(sessions[i])
               PROVE  ReadBack(sessions[i]) = FramesOf(sessions[i], kept)
    BY DEF SessionsReadBack
  <2> DEFINE id == sessions[i]
             S == {j \in DOMAIN sessions : sessions[j] = id}
  <2>1. id \in Nat /\ DOMAIN sessions = 1..Len(sessions) /\ Len(sessions) \in Nat
    BY DEF TypeInv, TypeOK
  <2>2. IsFiniteSet(S)
    <3>1. IsFiniteSet(1..Len(sessions)) /\ S \in SUBSET (1..Len(sessions))
      BY <2>1, FS_Interval
    <3> QED  BY <3>1, FS_Subset
  <2>3. Cardinality(S) = 1
    BY DEF NamesOneSession
  <2>4. PICK j : S = {j}
    <3> HIDE DEF S
    <3> QED  BY <2>2, <2>3, FS_Singleton
  <2>5. Unique(id)
    BY <2>4 DEF Unique
  <2> HIDE DEF S, id
  <2>6. PICK m \in Nat : Filed(id, m)
    BY <2>1, <2>5 DEF FiledInv
  <2>7. FilesOf(id) = {<<id, k - 1>> : k \in 1..m} /\ FramesOf(id, kept) = Files(id, m)
    BY <2>6 DEF Filed, InHand, Opening, Closing
  <2>8. Cardinality(FilesOf(id)) = m
    <3> DEFINE f == [k \in 1..m |-> <<id, k - 1>>]
    <3>1. f \in Bijection(1..m, FilesOf(id))
      <4>1. \A k, l \in 1..m : f[k] = f[l] => k = l
        OBVIOUS
      <4>2. \A p \in FilesOf(id) : \E k \in 1..m : f[k] = p
        BY <2>7
      <4>3. f \in [1..m -> FilesOf(id)]
        BY <2>7
      <4> HIDE DEF f
      <4> QED  BY <4>1, <4>2, <4>3 DEF Bijection, Injection, Surjection, IsInjective
    <3>2. ExistsBijection(1..m, FilesOf(id))
      BY <3>1 DEF ExistsBijection
    <3> QED  BY <3>2, FS_CountingElements
  <2> QED  BY <2>7, <2>8 DEF ReadBack, id
<1> QED  BY <1>1, TypeInvariant, SessionInvariance, PTL
=============================================================================
