---------------------------- MODULE StreamServer -----------------------------
(***************************************************************************)
(* The stream servers of a crate, one process per slot, from the start of  *)
(* the script to the end of the process.                                   *)
(*                                                                         *)
(* A server prepares the hardware with a shell script, creates the builder *)
(* and with it the stash thread, builds the pipeline, makes and enters the *)
(* PCIe card and pysmurf's root, and runs.  Each of these may fail half    *)
(* way; the with blocks that were entered are then left in reverse order.  *)
(* At the end the builder may be destroyed: its destructor joins the stash *)
(* thread and holds the GIL all the while.  The servers share the ports of *)
(* the host and the lanes of the card.                                     *)
(***************************************************************************)
EXTENDS Integers

CONSTANTS
  Slot,      \* slots of the crate that have a server
  CommType,  \* values of comm_type
  Argv,      \* the options a server may be started with
  SlotCfg,   \* the stream_ports, by slot, that sys_config.yml may tell
  None       \* an option that is not given, a thing that does not exist

ASSUME SlotAssumption == Slot \subseteq 0..1000
ASSUME CommAssumption == {"eth", "pcie"} \subseteq CommType /\ "emulation" \notin CommType
ASSUME NoneAssumption == None \notin CommType \cup Int

Option(S) == S \cup {None}

ASSUME ConfigAssumption ==
  /\ \A a \in Argv : /\ a.emulate \in BOOLEAN /\ a.comm_type \in Option(CommType)
                     /\ a.stream_port \in Option(Nat) /\ a.lane \in Option(Nat)
  /\ \A cfg \in SlotCfg : \A s \in Slot : cfg[s] \in Option(Nat)

Default(option, value) == IF option = None THEN value ELSE option

VARIABLES
  comm_type,  \* comm_type of sys_config.yml
  slot_cfg,   \* slot |-> stream_port of sys_config.yml, or None
  argv,       \* slot |-> the options the server was started with
  stage,      \* slot |-> how far main() has come
  prepared,   \* slot |-> the transport setup_server.sh prepared, or None
  root,       \* slot |-> the transport of the open root, or None
  held,       \* slot |-> ports and lanes the server has taken
  left,       \* aux: slot |-> what a call that failed had taken by then
  running_,   \* slot |-> SmurfBuilder::running_
  thread,     \* slot |-> where the stash thread is
  gil,        \* slot |-> who holds the GIL of the process
  clash       \* aux: slot |-> servers that held what this one asked for

configVars == <<comm_type, slot_cfg, argv>>
threadVars == <<running_, thread, gil>>
vars == <<configVars, stage, prepared, root, held, left, threadVars, clash>>

Init ==
  /\ comm_type \in CommType
  /\ slot_cfg \in SlotCfg /\ argv \in [Slot -> Argv]
  /\ stage = [s \in Slot |-> "start"]
  /\ prepared = [s \in Slot |-> None] /\ root = [s \in Slot |-> None]
  /\ held = [s \in Slot |-> {}] /\ left = [s \in Slot |-> {}]
  /\ clash = [s \in Slot |-> {}]
  /\ running_ = [s \in Slot |-> FALSE]  \* uninitialised: written before it is read
  /\ thread = [s \in Slot |-> "none"] /\ gil = [s \in Slot |-> "free"]

-----------------------------------------------------------------------------
(* What a server asks for *)

stream_port(s) == Default(argv[s].stream_port, Default(slot_cfg[s], 4530 + s))
lane(s) == Default(argv[s].lane, s - 2)

server_portMutant(s) == 9000 + s  \* the next slot's ports overlap
server_port(s) == 9000 + s * 3

\* rogue's server takes three ports from server_port on.
Ports(s) == {<<"port", server_port(s) + i>> : i \in 0..2}
Lane(s) == {<<"lane", lane(s)>>}

\* A port or lane that another server has taken is an error.
Taken(s, things) == {t \in Slot \ {s} : held[t] \cap things # {}}

\* What a call may have got, which takes ports in the order of their numbers.
Parts(s, things) ==
  {part \in SUBSET {x \in things : Taken(s, {x}) = {}} :
     \A x \in part : \A y \in things : y[2] < x[2] => y \in part}

Step(s, from, to) ==
  /\ stage[s] = from /\ stage' = [stage EXCEPT ![s] = to]
  /\ gil[s] = "free"
  /\ UNCHANGED configVars

\* Tries to take things, gets some of them, and goes on if it has those it needs;
\* or fails, for whatever reason and with whatever it has by then.
Try(s, from, to, back, things, needed) ==
  \E part \in Parts(s, things) :
    /\ held' = [held EXCEPT ![s] = @ \cup part]
    /\ \/ /\ Step(s, from, to)
          /\ needed \subseteq held'[s]
          /\ UNCHANGED <<left, clash>>
       \/ /\ Step(s, from, back)
          /\ left' = [left EXCEPT ![s] = @ \cup (things \cap held'[s])]
          /\ clash' = [clash EXCEPT ![s] = Taken(s, things)]

-----------------------------------------------------------------------------
(* main() *)

Transport(s) == Default(argv[s].comm_type, comm_type)

setup_server(s) ==
  /\ \/ /\ Step(s, "start", "builder")
        /\ prepared' = [prepared EXCEPT ![s] = IF argv[s].emulate THEN None ELSE Transport(s)]
     \/ Step(s, "start", "exited") /\ ~argv[s].emulate /\ UNCHANGED prepared
  /\ UNCHANGED <<root, held, threadVars, left, clash>>

CreateBuilder(s) ==
  /\ Step(s, "builder", "pipeline")
  /\ thread' = [thread EXCEPT ![s] = "start"]
  /\ UNCHANGED <<prepared, root, held, running_, gil, left, clash>>

\* The network sender binds its port; a meta register file may be unreadable.
BuildPipeline(s) ==
  /\ LET port == {<<"port", stream_port(s)>>} IN
       Try(s, "pipeline", "choose", "end", port, port)
  /\ UNCHANGED <<prepared, root, threadVars>>

ChooseRoot(s) ==
  /\ \/ argv[s].emulate /\ Step(s, "choose", "root")
     \/ ~argv[s].emulate /\ comm_type \in {"eth", "pcie"} /\ Step(s, "choose", "card")
     \/ ~argv[s].emulate /\ comm_type \notin {"eth", "pcie"} /\ Step(s, "choose", "end")
  /\ UNCHANGED <<prepared, root, held, left, threadVars, clash>>

\* Of a with statement, the constructor may take things, and __enter__ must have
\* them all.  If either fails there is no __exit__: what it has taken stays taken.
NewCard(s) ==
  /\ Try(s, "card", "enter_card", "end", Lane(s), {})
  /\ UNCHANGED <<prepared, root, threadVars>>

EnterCard(s) ==
  /\ Try(s, "enter_card", "root", "end", Lane(s), Lane(s))
  /\ UNCHANGED <<prepared, root, threadVars>>

LeavingMutant(s) == "end"  \* a root that fails leaves the card open

\* The card, if there is one, was entered before the root was made.
Leaving(s) == IF argv[s].emulate THEN "end" ELSE "close_card"

NewRoot(s) ==
  /\ Try(s, "root", "enter_root", Leaving(s), Ports(s), {})
  /\ UNCHANGED <<prepared, root, threadVars>>

EnterRoot(s) ==
  /\ Try(s, "enter_root", "run", Leaving(s), Ports(s), Ports(s))
  /\ root' = [root EXCEPT ![s] = IF stage'[s] # "run" THEN None
                                 ELSE IF argv[s].emulate THEN "emulation" ELSE comm_type]
  /\ UNCHANGED <<prepared, threadVars>>

\* pipe.Run() has returned, or was left by an exception.
CloseRoot(s) ==
  /\ Step(s, "run", Leaving(s))
  /\ root' = [root EXCEPT ![s] = None]
  /\ held' = [held EXCEPT ![s] = @ \ Ports(s)]
  /\ UNCHANGED <<prepared, threadVars, left, clash>>

CloseCard(s) ==
  /\ Step(s, "close_card", "end")
  /\ held' = [held EXCEPT ![s] = @ \ Lane(s)]
  /\ UNCHANGED <<prepared, root, threadVars, left, clash>>

\* When the process ends its ports are free again; only the card's __exit__ closes
\* a lane.
Closed(s) == [held EXCEPT ![s] = @ \cap Lane(s)]

\* The process may end without destroying the builder.
Exit(s) ==
  /\ Step(s, "end", "exited")
  /\ thread' = [thread EXCEPT ![s] = "none"]
  /\ held' = Closed(s)
  /\ UNCHANGED <<prepared, root, running_, gil, left, clash>>

Destroy(s) ==
  /\ Step(s, "end", "join")
  /\ gil' = [gil EXCEPT ![s] = "main"]
  /\ running_' = [running_ EXCEPT ![s] = FALSE]
  /\ UNCHANGED <<prepared, root, held, thread, left, clash>>

Join(s) ==
  /\ stage[s] = "join" /\ thread[s] = "none"
  /\ stage' = [stage EXCEPT ![s] = "exited"]
  /\ gil' = [gil EXCEPT ![s] = "free"]
  /\ held' = Closed(s)
  /\ UNCHANGED <<configVars, prepared, root, running_, thread, left, clash>>

-----------------------------------------------------------------------------
(* The stash thread *)

ThreadStep(s, from, to) ==
  /\ thread[s] = from /\ thread' = [thread EXCEPT ![s] = to]
  /\ UNCHANGED <<configVars, stage, prepared, root, held, left, clash>>

Begin(s) ==
  /\ ThreadStep(s, "start", "wait_gil")
  /\ running_' = [running_ EXCEPT ![s] = TRUE]
  /\ UNCHANGED gil

EnsureGil(s) ==
  /\ ThreadStep(s, "wait_gil", "emit")
  /\ gil[s] = "free" /\ gil' = [gil EXCEPT ![s] = "stash"]
  /\ UNCHANGED running_

EmitMutant(s) ==  \* an early return keeps the GIL
  ThreadStep(s, "emit", "sleep") /\ UNCHANGED <<running_, gil>>

Emit(s) ==
  /\ ThreadStep(s, "emit", "sleep")
  /\ gil' = [gil EXCEPT ![s] = "free"]
  /\ UNCHANGED running_

GoOnMutant(s) == TRUE
GoOn(s) == running_[s]

Wake(s) ==
  /\ ThreadStep(s, "sleep", IF GoOn(s) THEN "wait_gil" ELSE "none")
  /\ UNCHANGED <<running_, gil>>

main(s) ==
  \/ setup_server(s) \/ CreateBuilder(s) \/ BuildPipeline(s) \/ ChooseRoot(s)
  \/ NewCard(s) \/ EnterCard(s) \/ NewRoot(s) \/ EnterRoot(s)
  \/ CloseRoot(s) \/ CloseCard(s)
  \/ Exit(s) \/ Destroy(s) \/ Join(s)
ProcessStashThread(s) == Begin(s) \/ EnsureGil(s) \/ Emit(s) \/ Wake(s)

Next == \E s \in Slot : main(s) \/ ProcessStashThread(s)

Spec == Init /\ [][Next]_vars

\* The stash thread is scheduled, and the destructor returns when it can.
FairSpec ==
  Spec /\ \A s \in Slot : WF_vars(Wake(s)) /\ WF_vars(Join(s))

-----------------------------------------------------------------------------
(* Properties *)

Thing == {"port", "lane"} \X Int

\* Every variable keeps its type; the stash thread holds the GIL exactly while
\* it emits, and the main thread never gives it up inside the destructor.
TypeOK ==
  /\ comm_type \in CommType /\ slot_cfg \in SlotCfg /\ argv \in [Slot -> Argv]
  /\ stage \in [Slot -> {"start", "builder", "pipeline", "choose", "card", "enter_card",
                         "root", "enter_root", "run", "close_card", "end", "join", "exited"}]
  /\ prepared \in [Slot -> Option(CommType)]
  /\ root \in [Slot -> Option(CommType \cup {"emulation"})]
  /\ held \in [Slot -> SUBSET Thing] /\ left \in [Slot -> SUBSET Thing]
  /\ clash \in [Slot -> SUBSET Slot]
  /\ running_ \in [Slot -> BOOLEAN]
  /\ thread \in [Slot -> {"none", "start", "wait_gil", "emit", "sleep"}]
  /\ \A s \in Slot : gil[s] = IF thread[s] = "emit" THEN "stash"
                              ELSE IF stage[s] = "join" THEN "main" ELSE "free"

\* stream.py: "make sure that server port maps to slot".  Servers that were given
\* neither a port nor a lane never ask for a port or a lane of one another,
\* whatever other servers do.
Defaults(s) == /\ argv[s].stream_port = None /\ slot_cfg[s] = None
               /\ argv[s].lane = None
DefaultsNeverClash ==
  \A s \in Slot : \A t \in clash[s] : ~(Defaults(s) /\ Defaults(t))

\* However startup or shutdown goes wrong, a server that has left its with blocks
\* has closed what it had entered: the root is closed, and a port or a lane is
\* still taken only if the call that took it failed itself.
NothingLeftOpen ==
  \A s \in Slot : stage[s] \in {"end", "join", "exited"} =>
    root[s] = None /\ held[s] \subseteq {<<"port", stream_port(s)>>} \cup left[s]

\* A destructor that finds the stash thread asleep returns: the thread sees
\* running_ when it wakes up, and leaves without asking for the GIL.
JoinReturns ==
  \A s \in Slot : stage[s] = "join" /\ thread[s] = "sleep" ~> stage[s] = "exited"

(* What comments of the code say and the code does not do *)

\* util.py, setup_server: "Replaces any of these args with defaults from
\* sys_config", comm_type among them: an option overrides the default, and the root
\* speaks over the transport that the script has prepared.
RootMatchesSetup == \A s \in Slot : root[s] \in CommType => root[s] = prepared[s]
=============================================================================
