# smurf-streamer in TLA+

smurf-streamer receives samples and status messages from the SMuRF readout
electronics (rogue / pysmurf), turns them into spt3g G3 frames, groups the frames
into sessions, sends them over the network and writes them to files. These modules
specify that path, check it with TLC and prove its main properties with TLAPS.

Paths below are relative to the repository; `src/SmurfBuilder.cpp` is
`src/src/SmurfBuilder.cpp` in PROJECT.json.

## 1. Inventory

| Component | State | Operations | Interacts with |
|---|---|---|---|
| SmurfTransmitter (`src/SmurfTransmitter.cpp`) | builder pointer, debug switches | `dataTransmit`, `metaTransmit` | called by rogue threads; `AsyncDatum` of the builder |
| SmurfBuilder (`src/SmurfBuilder.cpp`, `include/SmurfBuilder.h`, `include/SmurfSample.h`) | input queue (inherited), `write_stash_`, `read_stash_`, `queue_size_`, `dropped_frames_`, output queue (inherited), `running_` | `ProcessNewData`, `FlushStash`, `FrameFromSamples`, `ProcessStashThread`, constructor, destructor | two threads of its own, the Python GIL, the pipeline thread that takes frames |
| SessionManager (`python/sosmurf/SessionManager.py`) | `session_id`, `end_session_flag`, `frame_num`, `status` | `__call__` on none, Scan and Wiring frames | gets the builder's frames; returns frames to the modules behind |
| G3Rotator / SOFileWriter (`python/sosmurf/SOFileWriter/_SOFileWriter.py`) | `writer`, `cur_path`, `cur_session_id`, `file_start_time`, `seq`, `disable` | `__call__`, `get_writer`, `new_writer`, `close_writer` | frames from the pipeline; `disable` set by rogue threads |
| StreamBase (`python/sosmurf/StreamBase/_StreamBase.py`) | options forwarded to the builder, tags, `open_g3stream` | setters, `startG3Stream` | rogue's update groups and update worker publish the variables as statuses |
| Pipeline (`scripts/stream.py`, `emulate.py`) | none of its own | builds builder - SessionManager - network sender - rotator | spt3g's pipeline thread |
| Stream server (`scripts/stream.py`, `util.setup_server`, `setup_server.sh`) | ports, a PCIe lane, card, root, builder | start-up, shutdown, the builder's destructor | other servers of the crate, which share host and card |
| VariableGroups (`python/sosmurf/util.py`) | register groups | `process`, `template`, `flatten`, `update` | start-up |
| stream_pcie.py, stream_devboard.py, test_emulator.py | | end at `setup_server()`, called without its arguments | |
| DoubleQueue, StreamConfig, SmurfStreamer | | nothing uses them | |

Hard behaviour:

* **Concurrency in the builder.** Transmitter threads, the event thread of
  `G3EventBuilder`, the stash thread, Python threads that hold the GIL, and the
  pipeline thread interleave. `ProcessNewData` releases `queue_lock_` before it takes
  `write_stash_lock_`; `FlushStash` swaps the stashes, then waits for the GIL, then
  emits frames one by one while samples and statuses go on arriving.
* **Ordering.** Statuses go to the output queue at once, samples a flush later. The
  end of a session depends on the order of a status, the samples before it, and the
  keep-alive after it.
* **Limits.** The stash refuses samples above `MAX_BUILDER_QUEUE_SIZE`; the size it
  compares is not initialised by the constructor.
* **Sessions.** Two registers start and stop one session; statuses are partial,
  repeated, and also arrive while no session is active; a stop is only carried out at
  the next frame of type none.
* **Files.** Rotation, the switch `disable` between any two frames; a file is closed and
  opened register by register while other threads read the registers.
* **Options.** `FrameFromSamples` reads seven options for each of three timestreams
  while Python threads set them. No status tells them: of StreamBase's variables only
  the four of the group `stream` in `src/meta_registers.yaml` (lines 77-80) reach the
  stream.
* **Start of the stream.** The command waits for rogue's update queue, which other
  threads and the poll thread fill, and needs the GIL the stash thread wants too.
* **Start-up and teardown.** Ports and lanes are shared; card and root may fail one
  after the other, in the constructor or in `__enter__`, with some of what they need
  taken. The destructor joins a thread that may wait for the GIL the
  destructor holds; `running_` is written by both.

What makes each component correct:

* SmurfBuilder: no accepted sample is lost or duplicated, order is kept, frames are
  uniform, the stashes are bounded, drops are counted, a keep-alive is a barrier,
  everything is flushed eventually, the GIL is returned.
* SessionManager: frames form sessions (start, dump, numbered data and differences,
  end), no data outside a session, the differences rebuild the registers, a stop ends
  the session it belongs to and no other.
* G3Rotator: a file holds frames of one session, in order; every file is closed and
  published once the session ends; no file is overwritten.
* StreamBase: a frame is encoded with the options of one moment, the stream learns the
  last value of each of its variables, the status that opens the stream is complete.
* Pipeline: samples received while a session is open end up in its frames, and a
  stopped session ends.
* Stream server: servers with default ports and lanes do not meet; root and script use
  one transport; what was entered is closed.

PROJECT.json lists every hazard with its line and the properties that cover it.

## 2. Modules

| Module | Role |
|---|---|
| `SmurfBuilder` | transmitter, builder and its threads; core module |
| `SampleChannel` | what the builder promises about samples: a lossy FIFO channel |
| `MCSmurfBuilder` | constants for TLC |
| `SmurfBuilderProofs` | TLAPS theorems about `SmurfBuilder` |
| `SessionManager` | the session state machine, one action per branch of `__call__` |
| `SessionProtocol` | what the modules behind it may rely on, frame by frame |
| `MCSessionManager` | constants for TLC |
| `SessionManagerProofs` | TLAPS theorems about `SessionManager` |
| `G3Rotator` | files of sessions, fed with the frames of `SessionProtocol` |
| `MCG3Rotator` | constants for TLC |
| `G3RotatorProofs` | TLAPS theorems about `G3Rotator` |
| `StreamBase` | variables, update groups and worker, start command, options read by the builder |
| `MCStreamBase` | constants for TLC |
| `StreamBaseProofs` | TLAPS theorems about `StreamBase` |
| `StreamPipeline` | composes `SmurfBuilder` and `SessionManager` |
| `MCStreamPipeline` | constants for TLC |
| `StreamPipelineProofs` | TLAPS theorems about the composition, from those about its parts |
| `StreamServer` | the life of the server processes of a crate |
| `MCStreamServer` | options and configurations for TLC |
| `StreamServerProofs` | TLAPS theorems about `StreamServer` |
| `VariableGroups` | expansion of the metadata register files |
| `MCVariableGroups` | files for TLC |
| `VariableGroupsProofs` | TLAPS theorems about `VariableGroups` |
| `FoldFacts` | induction over the naturals, and what it gives for `FoldLeft`, `MapThenFoldSet` and `FlattenSeq`; used by three of the proof modules |

Definitions with `Mutant` in their name are plausible bugs of the definition they
precede. Nothing uses them; PROJECT.json names, for each property, the one that must
violate it.

### SmurfBuilder

State corresponds field by field: `queue_` and `out_queue_` are the queues of
`G3EventBuilder`; `write_stash_`, `read_stash_`, `queue_size_`, `dropped_frames_` are
the members; `pkt` is the local variable of `ProcessNewData` between its two critical
sections; `start`, `stop` (the last sample looked at) and `nchans` are the locals of
`FlushStash`'s loop and `pc` is the stash thread's position; `gil` is the holder of the GIL. `sent`, `emitted`, `barrier` and
`offered` are history.

A sample keeps the number of channels of its header and its arrival number. A Scan
frame keeps its samples and its number of channels; a keep-alive keeps
`barrier`, the last packet handled when its flush swapped the stashes (the code's
frame carries no such field: it is what the frame *means*).

Steps are the critical sections: `PopPacket` (under `queue_lock_`), `StashSample` /
`DropSample` (under `write_stash_lock_`), `EmitStatus` (one `FrameOut`), `SwapStash`
(both stash locks), `EnsureGil`, and the loop over the stash: `BeginLoop`, one step per
sample that belongs to the frame (`NextSample`), one frame where the number of channels
changes (`EmitSegment`) and one at the end (`EmitLastSegment`); or `EmitAlive` if the
stash is empty. Between `PopPacket` and the step after it any other thread may run. The
local computation of `FrameFromSamples` touches no shared state but
`compression_time_`, `frame_build_time_` and `chan_names_`, which only the stash
thread writes, so it is part of the step that emits its frame.

`queue_size_` starts with any value of `UninitQueueSize`: the constructor does not
assign it. Samples may therefore be dropped before the first swap.

External parts, modelled from their use: `AsyncDatum` appends to an unbounded queue;
`FrameOut` appends to the output queue; `ProcessFrame` (the pipeline) removes its
head; Python threads take a free GIL and release it.

`SampleChannel` is implemented with the mapping pending = rest of the read stash
followed by the write stash, delivered = samples emitted. It allows a refusal only
while a stash full of channels * samples waits (or before the first flush), and
bounds what waits by two stashes and one sample.

### SessionManager

`session_id`, `end_session_flag`, `frame_num` and `status` are the attributes, `out`
the list the last call returned. A call happens only when `out` was passed on
(`Deliver`): the pipeline gives every returned frame to all later modules before the
next call. A status is a partial function from registers to values; the registers
`datfile_open` and `g3stream_open` are 0 or 1. `time` is `time.time()` in seconds; it
may stand still between two sessions.

`view` is a follower: what a later module knows if it believes each frame (`Follow`).
`SessionProtocol` says which frame may come in which phase with which number and
content, and `ProtocolSpec` checks that the followed frames obey it.

### G3Rotator

The rotator is specified against `SessionProtocol`, not against the manager: its
frames are the steps of that protocol (`FrameArrives`), which `ProtocolSpec` shows the
manager to implement, with the manager's session ids (`time.time()` in whole seconds;
`Second` is the number of clock ticks in one). `writer`, `cur_path`, `seq`,
`cur_session_id`, `file_start_time`, `file_dur` and `disable` are the attributes; a
writer and a path are both the pair of session id and sequence number, and
`data_path` and the stream id, which never change, are left out. `files` is the disk,
`published` what the publisher announced; `opened`, `sessions` and `kept` are history.

A call first takes one of the branches of `get_writer` (`SkipDisabled`, `CloseAtEnd`,
`SkipFlow`, `ChangeSession`, `Rotate`, `WriteOn`). Then `close_writer` is
`ResetRegisters`, `Publish` (the `G3Writer` ends its file, which is announced) and
`ClearPath`; `new_writer` is `CreateFile`, `SetPath` and `SetSession`; and `WriteFrame`
ends the call. `todo` is what follows when the file is closed. Between any two of these
steps the clock moves, `disable` and `file_dur` are set and the registers may be read;
assignments of which other threads see only one share its step (the rogue device reads
`cur_path` and `cur_session_id`, neither the start time nor the writer).
A `G3Writer` empties an existing file (external, from its use with no append option).
`EndProcessing` is the pipeline's last call (`core.G3Frame` of type EndProcessing has
neither a session nor flow control): it may come in the middle of a session.

### StreamBase

`value` counts how often a variable was set, so that old and new values differ;
`open_g3stream` is 0 or 1. `Option` are the variables that are forwarded to the builder,
`Stream` those of the group `stream`, and `Polled` those with a polling interval in
`src/meta_registers.yaml`. `updates` and `working` are rogue's update queue and the
batch in its worker's hands, `group` and `deferred` the update groups of the threads
(external, from the use in `_start_g3stream`, whose comment tells what a group is for: a
thread's updates inside a group are queued together when it leaves). `Poll` is rogue's
poll thread, which may queue its variables at any time. The worker reads the values when
it sends, not when it was told (`SendBatch`); a batch without a variable of the group
`stream` makes no status, and the metadata buffer of pysmurf's transmitter may drop one
when it is full (`lost`). `gil = "python"` stands for all Python threads, whose steps are
separate; a frame is built under the GIL in one step per timestream (`BuildTimestream`):
what `FrameFromSamples` ensures and releases is a GIL that `FlushStash` holds already.
`called` and `needs` remember what was pending or sent when a start command was given;
`told` is what a reader of the stream knows.

The wait of the command matters because `open_g3stream` may be on its way already, from
an earlier start and stop or from a poll: its status is read when it is sent, and would
open the stream ahead of what was queued behind it (`StartStatusComplete`; the run of its
mutant, which does not wait, shows this).

### StreamPipeline

The two components side by side. `Take` is one step of spt3g's pipeline: the oldest
frame leaves `out_queue_` and the manager's `__call__` is executed with it, under the
GIL; `PassOn` gives the frames it returned to the modules behind. The builder's frame
and the manager's input correspond by type; a sample is discarded (`placed` in session
0) exactly when the manager has none. `sessions` and `placed` are history.

### StreamServer

`stage` follows `main()`: script, builder, pipeline with the port of the network
sender, choice of the root, constructor and `__enter__` of the card, constructor and
`__enter__` of the root, `pipe.Run`, and the two `with` blocks on the way back. `Try` is
a call that takes ports or a lane: it may get some of them, and go on or fail, for any
reason. What a call that failed had taken (`left`) stays taken until the process ends,
since there is no `__exit__` for it; a lane stays taken even then. `clash` records who
held what was asked for. `running_` and `thread` are the stash thread's loop, `gil` the
process's GIL. A process may exit without destroying the builder, or run the destructor,
which keeps the GIL while it joins.

### VariableGroups

One step for each method of the constructor (`Template`, `Flatten`, `Process`) and one
for `update` with the object of a second file, as `stream.py` uses it. A dict is the
sequence of its items, since Python keeps the order of insertion and a replaced key
keeps its place (`Put`); a key is the sequence of the names its dots separate, so that
`a.b` and `b` below `a` are the same register. A template may stand in any of the names
and in several: the code looks for the first one and fills in its text wherever the key
has it (`Expanded`), so that a template with another text stays as it is written. The
result is compared with `Declared`, the list of declarations read from top to bottom, with
the keys expanded in the same way.

The recursion of the two helpers is over the depth of nesting: `templateTo[n]` and
`flattenTo[n]` do a dict that is at most `n` dicts deep with the help of `n - 1`
(`Dicts`: the dicts of each depth; there is none of depth 0).
`MaxDepth` bounds it; a YAML file is finite, so some value of it fits each file.
`NoClash` excludes files in which two keys of one dict expand to the same key.

## 3. Runs

| Run | Bounds | Shows |
|---|---|---|
| `builder` | 1-2 channels, cap 4, 5 packets, a flush starts below 2 queued frames | safety of every interleaving, and that the channel is implemented |
| `builder_live` | same, cap 3, 4 packets, fair | every stashed sample is framed, silence brings a barrier, the GIL is returned |
| `session` | 3 registers, 2 seconds, sessions of up to 5 tagged frames and the end | session protocol, followers in step, stops belong to sessions |
| `session_restart` (violation) | | an open stream without a session |
| `rotator` | 2 sessions of up to 3 frames and the end, 2 ticks of half a second, file_dur 0 or 1 | files of one session, announced once, numbered, read back complete; what readers of the registers see at every step |
| `rotator_idle` (violation) | | a session id register that outlives its session |
| `rotator_reuse` (violation) | | a file overwritten by a session of the same second |
| `stream_base` | 1 option, 1 tag, `open_g3stream` polled, 2 threads, 2 timestreams, 3 sets, groups or commands, polls of an empty queue, 1 frame, fair | options of one moment, the stream's last values, complete opening statuses, the start command gets through |
| `pipeline` | 1 channel, cap 2, 4 packets, one register, fair | data of a session is in that session, a stopped session ends |
| `server` | 2 neighbouring slots, 4 sets of options, 3 transports, 2 configurations, fair | ports and lanes, what is closed, the destructor |
| `server_transport` (violation) | 1 slot, with and without the option `comm_type` | the root over another transport than the one prepared |
| `variable_groups` | files of 1-2 items out of 6 keys, up to 3 dicts deep, 4 second files | every register gets what its last declaration says |

Why the bounds are enough. With a cap of 4 and samples of 1 and 2 channels a stash is
full with 2, 3 or 4 samples, below the cap by one, and above it by one; both stashes can
be full at once, with one more packet to be dropped; a change of the channel count
falls at each place of a stash, and twice in it. Five packets allow samples before and after a
status on both sides of a swap. The number of flushes is not bounded. `MaxOutQueue`
only stops an idle flush from filling the queue without end; it delays a flush, as a
slow thread would. In `session` behaviours are endless: any number of sessions with
all 27 partial statuses of three registers; the length of one session is bounded by
`MaxFrameNum`, which leaves two data or difference frames more than the shortest
session has. `MaxTime` = 1 gives sessions in the same and in different seconds.
In `rotator` two sessions may start in the same or in different seconds, a session
may fill three files, and `disable` may be switched between any two steps, those of closing and opening a file included, so that each session may lose its start,
its end or frames between; a third session meets no state that the second does not.

The files of `variable_groups` have plain, dotted, indexed and templated keys, with a
template in the last or another name, twice or two of them, in every pair and order, each over leaves and groups, so that two declarations of one register
meet in every way two items can.

In `stream_base` three sets, groups or commands suffice for two threads to meet in the
queue: a start while the other defers, a start after a stop, an update that is set
again while the worker holds it. Option and tag stand for the two kinds of variable,
two timestreams for three, since the code does the same for each. `MaxSets` bounds what
clients do; polls are not bounded in number, `MaxUpdates` only keeps a poll from adding
to a queue that holds a batch. In `pipeline` four packets allow start, data, stop and data, or start,
stop and start, with every flush and delivery between them; frames in the queue are
bounded as in `builder`, the clock stands still since ids play no role. In `server`
one configuration gives one slot the port that is the other's by default, so that
servers do clash when they are told to.

Deadlock is checked in every run but those of `variable_groups`, `pipeline` and
`server`: a program is done, has failed or has exited there, or its
input has reached the bound and every frame was handed on.

Fairness (`FairSpec`). The event thread, the stash thread and the pipeline loop for
ever (`WF`). The stash thread asks for the GIL again and again until it gets it, and
CPython makes a holder give the GIL up when another thread waits, so `EnsureGil` is
strongly fair and `PythonReleasesGil` weakly fair. Nothing is assumed of the
transmitter: input may stop at any time. In `StreamPipeline` the pipeline's call needs
the GIL and gets it in the same way (`SF_vars(Take)`). In `StreamBase` rogue's worker
and the start command need it again and again (`SF`), the stash thread gives it back
(`WF`); nobody is made to set a variable, to poll, to enter or to leave a group.
`StartOpensStream` has the premise that the update queue is empty again and again: the
group of the command defers the updates of its own thread only, and without the premise
TLC finds polls that keep the queue filled for ever. In
`StreamServer` only a sleeping stash thread wakes and a join that can return does
(`WF`): nothing obliges a server to get on or to end.

## 4. Findings

* `session_restart`: `end_session_flag` survives a start. After stop - start - none
  frame the session ends although `open_g3stream` is 1; a repeated 1 is no difference,
  so no session starts until the register was 0 once more. The same state is reached
  when one register opens while the other closes.
* `rotator_idle`: `disable` is tested before anything else, so an END frame that passes
  while it is set does not close the file. The id stays until the next session starts,
  and the file is announced only then.
* `rotator_reuse`: ids are whole seconds; a session restarted within one second
  truncates `<id>_000` of the first, and may leave later files of the first beside its
  own. All theorems below hold in that case too; only `SessionsReadBack` excludes it.
* `server_transport`: `setup_server` hands the option `comm_type` to the script, `main()`
  chooses the root by `sys_config.yml` alone. With an option that differs from the
  configuration the hardware is prepared for one transport and the root uses the other.

Seen while modelling, and not the subject of a run:

* The stash's size is compared before a sample is added, so its channels * samples may
  exceed the cap by one sample.
* `FrameFromSamples` labels frames by Counter2, but `GetTimingParadigm` always answers
  low precision; frames and samples may disagree.
* `read_stash_lock_` is held while `FlushStash` waits for the GIL. Only the stash thread
  takes that lock, so it is harmless.
* The destructor holds the GIL while it joins. A stash thread that waits for the GIL, or
  has not begun and then overwrites `running_`, never ends. `JoinReturns` says when the
  join does return.
* Samples that arrived behind the barrier of the keep-alive and before the stop may be
  discarded (`SessionHoldsItsData` says which may not).
* `EndProcessing` leaves the last file open in the rotator's books: when the pipeline
  stops inside a session, its last file is not announced.
* A root or card whose `__enter__` fails half way gets no `__exit__`: the ports are free
  when the process ends, the lane is not closed at all. `NothingLeftOpen` excepts it.
* A key with two different templates keeps the second one literally (`re.search` finds
  the first, `replace` fills in its text), although `src/meta_registers.yaml:2` says that
  templates are expanded. The file has no such key.
* The example in the docstring of `VariableGroups` does not load: YAML reads `(3, 1)` as a
  text, which has no bits (`TextLeaf`, `Fail`).
* `emulate.py` reads `vgs.data` although `vgs` may be `None`; `stream.py` ignores the
  register file of `sys_config.yml` if the default file does not exist.

## 5. Proofs

`SmurfBuilderProofs` proves, for all constants that satisfy the module's assumptions
(every sample has at least one channel and, as the field of the header is finite, no
more than some greatest number; the cap is positive, sizes are naturals):

* `TypeCorrect`. `TypeOK` alone is not inductive: a flush could start with the
  iterators behind the read stash. `FlushControl` adds that the iterators are at the
  beginning outside the loop, and the read stash empty between flushes.
* `StashIsBounded`. Inductive with `Len(write_stash_) <= queue_size_`: every sample
  counts for at least one channel, and an uninitialised value is no less than 0.
* `SamplesConserved`. Inductive with the types; a segment's length is the distance of
  the iterators (`EmittedGrows`).
* `SamplesStayInOrder`. `QueueInv` says that packets are numbered as they came and
  that the popped packet is the next one; `OrderInv` that what is stashed or framed
  was handled before. One lemma for each kind of step says how it moves sample
  numbers: `StashAddsId`, `SwapKeepsIds`, `EmitMovesIds` (by `FlushMovesIds`),
  `BystanderMovesNothing`.
* `KeepAliveIsBarrier`. `BarrierInv`: the barrier of the current flush is no less than
  that of any queued keep-alive, and samples stashed after the swap are newer.
* `StatusIsNotOvertaken`. `StatusInv`: frames hold handled samples only, so a status
  that is handled now is newer than all of them.
* `QueueSizeIsExact`. `LoadInv` adds that `queue_size_` never counts less than the write
  stash holds, garbage included, and that a stash overshoots the cap by less than a
  sample. The weight of a stash is a fold over it: `WeightAppend` says what one sample
  more adds, `WeightConcat` that concatenations add up.
* `ImplementsChannel`. Each step maps to a step of `SampleChannel` or a stutter: a sample
  is accepted or refused, the first swap starts the channel, the frames of a flush deliver
  segments, and nothing else is seen of it. `LoadInv` gives what a refusal may count on
  and the bound on what waits.
* `FramesAreUniform`. `LoopInv` is the loop's invariant: the cached number of channels is
  that of every sample from `start` to `stop`. It makes a segment uniform
  (`SegmentIsUniform`); frames in the queue are never touched again.

`SessionManagerProofs` proves for all registers, values and bounds `TypeCorrect`,
`StopStaysInSession` (together, since an end frame is tagged with a session only
because a pending stop implies one), `OpenUntilStoppedHolds`, and that the manager
implements the protocol:

* `FollowersStayInStep` and `ImplementsProtocol` rest on `FollowInv`, which says what
  `out` may hold while a follower is behind: one tagged frame (`OneBehind`), the rest of
  the three opening frames (`Starting`) or of the four closing ones (`Ending`). Each
  delivery is then exactly one step of `SessionProtocol` (`DeliverFollowed`), every
  other step a stutter. That a difference suffices to rebuild the registers is
  `DiffSuffices`; that the first number is 0 and ids are seconds shown by the clock is
  `NumbersInv`.

`G3RotatorProofs` proves five invariants for every clock, duration and number of
sessions. `TypeInv` adds to the types what a frame looks like (`FrameInv`: it has a
flow control field or a session id that is not 0, which follows from the protocol's
steps) and what the registers, the writer and the frame in hand are at each step of a
call (`CallInv`); `RegistersTellFileHolds` is a part of it, and with it, a
frame of the current session always finds its writer. `PublishedOnceHolds` and
`OneSessionPerFileHolds` are inductive relative to it; `NumberedWithoutHoleHolds`
needs `NumberInv`, that the number about to be used follows the last file's, which in
turn rests on `PublishedOnce`: the open file is the last one created (`OpenIsLast`).

`SessionsReadBackHolds` is about the concatenation of a session's files. `FiledInv`: the
files of a session whose id is its own are numbered 0 to some `m - 1` and hold, in this
order, what was kept of it, except for the frame in hand while the next file is about to
be created; as long as the session is open the writer has its last file. `ProtocolInv`
adds that tagged frames belong to the session that is open, `NamedInv` that only sessions
that started have files. A file grows (`LastFileGrows`), or one is added (`FilesMore`);
`FramesAppend` says what a frame does to those kept.

`StreamPipelineProofs` first shows that every step of the composition is a step or a
stutter of each component (`BuilderImplemented`, `ManagerImplemented`), so that the
theorems about the parts hold in the whole. `SessionsHoldTheirData` then needs what
relates the two (`SessionInv`): the current session is the last one and not over
(`SessionControl`); what is still queued or stashed is newer than the barrier of every
session that is over (`OverIsOver`, from `AliveIsBarrier`); what was placed in a session
is older than the status that opens any later one (`PlacedIsOld`, from
`StatusNotOvertaken`).

`StreamBaseProofs` proves for any number of threads, options, tags and timestreams:

* `OptionsAreOfOneMoment`. `BuildInv`: while the stash thread builds it holds the GIL,
  nothing is set, and every timestream so far has the options as they are.
* `StreamTellsAll`, `StartStatusIsComplete`. `ToldInv` says of a variable of `Stream`
  what the stream will know (`Knows`) once the statuses on their way have arrived: its value if
  nothing is queued or deferred (`Settled`), what a start command saw, once its wait is
  over (`CalledInv`), what the opening command saw (`NeedsInv`), and what each status on
  its way owes (`OwedInv`). One lemma per conjunct, all by `KnowledgeStep`.

`StreamServerProofs` proves for every set of slots up to 1000, options and
configurations: `TypeCorrect` (with `GilInv`, that the stash thread does not emit while
the destructor joins), `DefaultsNeverMeet` and `NothingStaysOpen`. `Orderly` bounds what
a server may hold at each stage, apart from what calls that failed have left; `TryOrderly`
shows it for a call that may fail half way. Two servers that go by their defaults want
disjoint things (`DefaultsDisjoint`), so a clash involves an option.

`VariableGroupsProofs` proves both invariants for every set of files and every depth.
The state is simple (`StageInv`: at each stage the data are the composition of the steps
so far, applied to the files), the functions are not. Two lists of items are the `Same`
if every key has the same last value in both (`LastIs`). Then:

* a dict into which items are put is the same as the dict followed by the items, and
  keeps its keys single (`SamePutAll`, by induction over the items);
* lists that are the same piece by piece are the same flattened (`FlattenSame`), and
  below one group's key (`UnderSame`: a key behind the group's determines its rest);
* so, by induction over the depth, what `flatten` makes of what `template` makes of a
  dict is the same as `Declared` of the dict (`DictsAsDeclared`), for which `template`
  may not merge two groups (`NoClash`, used in `PutDistinct`);
* `process` keeps lists the same (`ProcessSame`), and a mask's groups are the names of
  its bits (`GroupsAre`).

The lemmas named `...ToIs` show that the functions defined by recursion exist.

`FoldFacts`. TLAPS does not instantiate induction theorems that take an operator.
Induction is done with sets instead: a set of naturals that holds 0 and every successor
is all of Nat (`InductiveSet`, from the well-foundedness of `<`). A fold is then the last
state of a run (`Runs`) of steps that are functions on one set: the run exists, is unique,
and a longer sequence takes one step more (`ResultExtends`).

Every theorem rests on the named assumptions about the constants in the module it is
about, which TLC evaluates on the instances above.

Every invariant and every action property that a passing run checks, and both
refinements, have a theorem. Only model-checked are the liveness properties
(`EverySampleFlushed`, `SilenceBringsBarrier`, `PythonNotShutOut`, `StartOpensStream`,
`StopEndsSession`, `JoinReturns`), which need fairness and ENABLED, beyond the provers
used.

## 6. Not modelled

* Contents of timestreams, how they are encoded and compressed, time stamps, debug
  output: data that no property needs.
* A packet with zero channels: rogue's channel mapper starts with one channel. Such
  packets would not count against the cap.
* Input queue limits: the base class only warns about them.
* A clock that is set back. A failure of `new_writer`: the exception ends the pipeline.
* The cache of spt3g's network sender and its clients: external, and nothing in the
  repository reads it.
* What pysmurf's shell functions, roots and card do inside (a constructor or `__enter__`
  takes some of its ports or its lane, or fails), argument parsing, reading YAML and
  the template expression: external or pure data.
* `stream_pcie.py`, `stream_devboard.py`, `test_emulator.py`, `SmurfStreamer`,
  `DoubleQueue`, `StreamConfig`: unused, or ending before they begin.
* Packaging, bindings, operator scripts.

## 7. Left

* The rotator composed with the pipeline: today it stands behind `SessionProtocol`,
  which the manager is proved to implement.
* A server that is restarted while rogue's ports of the old process are in use.
* `SampleChannel` for the whole pipeline: what the composition promises of the samples
  of one session.
