-------------------------- MODULE StreamServerProofs --------------------------
(***************************************************************************)
(* Theorems about StreamServer, for every set of slots, every option the   *)
(* servers may be started with and every configuration of the crate.       *)
(***************************************************************************)
EXTENDS StreamServer, TLAPS

(* Types *)

\* Ports and lanes are numbers.
LEMMA ThingTypes ==
  ASSUME slot_cfg \in SlotCfg, argv \in [Slot -> Argv], NEW s \in Slot
  PROVE  <<"port", stream_port(s)>> \in Thing /\ Lane(s) \subseteq Thing /\ Ports(s) \subseteq Thing
<1>1. /\ s \in Int /\ argv[s] \in Argv
      /\ argv[s].stream_port \in Nat \cup {None} /\ argv[s].lane \in Nat \cup {None}
      /\ slot_cfg[s] \in Nat \cup {None}
  BY SlotAssumption, ConfigAssumption DEF Option
<1>2. stream_port(s) \in Int /\ lane(s) \in Int /\ server_port(s) \in Int
  BY <1>1 DEF stream_port, lane, server_port, Default
<1>3. \A i \in 0..2 : server_port(s) + i \in Int
  BY <1>2
<1> QED  BY <1>2, <1>3 DEF Ports, Lane, Thing

\* Inside the destructor the stash thread has no GIL to emit with.
GilInv ==
  /\ gil \in [Slot -> {"free", "main", "stash"}]
  /\ \A s \in Slot : stage[s] = "join" => thread[s] # "emit"

TypeInv == TypeOK /\ GilInv

\* What one server does is nothing to the others.
OthersAlone(s) ==
  /\ UNCHANGED configVars
  /\ \A t \in Slot \ {s} :
       /\ stage'[t] = stage[t] /\ prepared'[t] = prepared[t] /\ root'[t] = root[t]
       /\ held'[t] = held[t] /\ running_'[t] = running_[t] /\ thread'[t] = thread[t]
       /\ gil'[t] = gil[t] /\ clash'[t] = clash[t] /\ left'[t] = left[t]

\* The states a server's main thread moves between.
Stage == {"start", "builder", "pipeline", "choose", "card", "enter_card",
          "root", "enter_root", "run", "close_card", "end", "join", "exited"}

\* What the steps that only move the main thread have in common.
LEMMA StepType ==
  ASSUME TypeInv, NEW s \in Slot, NEW from \in Stage \ {"join"}, NEW to \in Stage \ {"join"},
         Step(s, from, to), UNCHANGED threadVars
  PROVE  /\ stage' \in [Slot -> Stage]
         /\ \A t \in Slot \ {s} : stage'[t] = stage[t]
         /\ stage[s] = from /\ stage'[s] = to /\ UNCHANGED configVars
         /\ GilInv'
         /\ \A t \in Slot : gil'[t] = IF thread'[t] = "emit" THEN "stash"
                                      ELSE IF stage'[t] = "join" THEN "main" ELSE "free"
BY DEF Step, TypeInv, TypeOK, GilInv, threadVars, Stage

\* What a server has tried to take, it has taken or left.
HeldType ==
  /\ held \in [Slot -> SUBSET Thing] /\ left \in [Slot -> SUBSET Thing]
  /\ clash \in [Slot -> SUBSET Slot]

\* Whoever tries to take something goes on, or goes back and tells whose it was.
LEMMA TryType ==
  ASSUME TypeInv, NEW s \in Slot, NEW from, NEW to, NEW back, NEW things \in SUBSET Thing,
         NEW needed, Try(s, from, to, back, things, needed)
  PROVE  /\ Step(s, from, to) \/ Step(s, from, back)
         /\ HeldType'
         /\ \A t \in Slot \ {s} : held'[t] = held[t] /\ clash'[t] = clash[t] /\ left'[t] = left[t]
<1>1. HeldType /\ Taken(s, things) \subseteq Slot
  BY DEF TypeInv, TypeOK, HeldType, Taken
<1>2. PICK part \in Parts(s, things) : held' = [held EXCEPT ![s] = @ \cup part]
  BY DEF Try
<1>3. part \subseteq Thing
  BY <1>2 DEF Parts
<1>4. held' \in [Slot -> SUBSET Thing] /\ \A t \in Slot \ {s} : held'[t] = held[t]
  BY <1>1, <1>2, <1>3 DEF HeldType
<1>5. CASE Step(s, from, to) /\ UNCHANGED <<left, clash>>
  BY <1>1, <1>4, <1>5 DEF HeldType
<1>6. CASE /\ Step(s, from, back)
           /\ left' = [left EXCEPT ![s] = @ \cup (things \cap held'[s])]
           /\ clash' = [clash EXCEPT ![s] = Taken(s, things)]
  BY <1>1, <1>4, <1>6 DEF HeldType
<1> QED  BY <1>5, <1>6 DEF Try

\* The steps at which main() asks for ports or a lane.
Tries(s) == BuildPipeline(s) \/ NewCard(s) \/ EnterCard(s) \/ NewRoot(s) \/ EnterRoot(s)

LEMMA TrySteps ==
  ASSUME TypeInv, NEW s \in Slot, Tries(s)
  PROVE  TypeInv' /\ OthersAlone(s)
<1> DEFINE Moved == /\ \E from, to \in Stage \ {"join"} : Step(s, from, to)
                    /\ HeldType'
                    /\ \A t \in Slot \ {s} : /\ held'[t] = held[t] /\ clash'[t] = clash[t]
                                             /\ left'[t] = left[t]
<1>0. /\ {<<"port", stream_port(s)>>} \in SUBSET Thing /\ Lane(s) \in SUBSET Thing
      /\ Ports(s) \in SUBSET Thing /\ Leaving(s) \in Stage \ {"join"}
      /\ UNCHANGED <<prepared, threadVars>>
  BY ThingTypes DEF TypeInv, TypeOK, Leaving, Stage, Tries, BuildPipeline, NewCard, EnterCard,
                    NewRoot, EnterRoot
<1>1. Moved
  <2>1. ASSUME NEW f \in Stage \ {"join"}, NEW t \in Stage \ {"join"},
               NEW back \in Stage \ {"join"}, NEW things \in SUBSET Thing, NEW needed,
               Try(s, f, t, back, things, needed)
        PROVE  Moved
    BY <2>1, TryType
  <2> HIDE DEF Moved
  <2>2. CASE BuildPipeline(s)
    <3>1. Try(s, "pipeline", "choose", "end", {<<"port", stream_port(s)>>},
              {<<"port", stream_port(s)>>})
      BY <2>2 DEF BuildPipeline
    <3> QED  BY <1>0, <2>1, <3>1 DEF Stage
  <2>3. CASE NewCard(s)
    BY <1>0, <2>1, <2>3 DEF NewCard, Stage
  <2>4. CASE EnterCard(s)
    BY <1>0, <2>1, <2>4 DEF EnterCard, Stage
  <2>5. CASE NewRoot(s)
    BY <1>0, <2>1, <2>5 DEF NewRoot, Stage
  <2>6. CASE EnterRoot(s)
    BY <1>0, <2>1, <2>6 DEF EnterRoot, Stage
  <2> QED  BY <2>2, <2>3, <2>4, <2>5, <2>6 DEF Tries
<1>2. /\ root' \in [Slot -> Option(CommType \cup {"emulation"})]
      /\ \A t \in Slot \ {s} : root'[t] = root[t]
  <2>1. root \in [Slot -> Option(CommType \cup {"emulation"})] /\ comm_type \in CommType
    BY DEF TypeInv, TypeOK
  <2> QED  BY <2>1 DEF Tries, BuildPipeline, NewCard, EnterCard, NewRoot, EnterRoot, Option
<1>3. /\ stage' \in [Slot -> Stage] /\ UNCHANGED configVars /\ GilInv'
      /\ \A t \in Slot \ {s} : stage'[t] = stage[t]
      /\ \A t \in Slot : gil'[t] = IF thread'[t] = "emit" THEN "stash"
                                   ELSE IF stage'[t] = "join" THEN "main" ELSE "free"
  BY <1>0, <1>1, StepType
<1>4. TypeInv'
  BY <1>0, <1>1, <1>2, <1>3 DEF TypeInv, TypeOK, HeldType, Stage, threadVars, configVars
<1> QED  BY <1>0, <1>1, <1>2, <1>3, <1>4 DEF OthersAlone, threadVars

\* The other steps of main() that leave the stash thread alone.
LEMMA QuietSteps ==
  ASSUME TypeInv, NEW s \in Slot,
         \/ setup_server(s) \/ ChooseRoot(s) \/ CloseRoot(s) \/ CloseCard(s)
  PROVE  TypeInv' /\ OthersAlone(s)
<1>0. /\ UNCHANGED <<threadVars, clash, left>>
      /\ left \in [Slot -> SUBSET Thing] /\ clash \in [Slot -> SUBSET Slot]
      /\ prepared \in [Slot -> Option(CommType)] /\ held \in [Slot -> SUBSET Thing]
      /\ root \in [Slot -> Option(CommType \cup {"emulation"})]
      /\ argv[s] \in Argv /\ comm_type \in CommType /\ Leaving(s) \in Stage \ {"join"}
  BY DEF TypeInv, TypeOK, setup_server, ChooseRoot, CloseRoot, CloseCard, Leaving, Stage
<1>1. PICK from \in Stage \ {"join"}, to \in Stage \ {"join"} : Step(s, from, to)
  BY <1>0 DEF setup_server, ChooseRoot, CloseRoot, CloseCard, Stage
<1>2. /\ prepared' \in [Slot -> Option(CommType)]
      /\ \A t \in Slot \ {s} : prepared'[t] = prepared[t]
  <2>1. argv[s].comm_type \in Option(CommType)
    BY <1>0, ConfigAssumption
  <2>2. Transport(s) \in CommType
    BY <1>0, <2>1 DEF Transport, Default, Option
  <2>3. CASE setup_server(s)
    BY <1>0, <2>2, <2>3 DEF setup_server, Option
  <2>4. CASE ChooseRoot(s) \/ CloseRoot(s) \/ CloseCard(s)
    BY <1>0, <2>4 DEF ChooseRoot, CloseRoot, CloseCard
  <2> QED  BY <2>3, <2>4
<1>3. /\ root' \in [Slot -> Option(CommType \cup {"emulation"})]
      /\ held' \in [Slot -> SUBSET Thing]
      /\ \A t \in Slot \ {s} : root'[t] = root[t] /\ held'[t] = held[t]
  BY <1>0 DEF setup_server, ChooseRoot, CloseRoot, CloseCard, Option
<1>4. /\ stage' \in [Slot -> Stage] /\ UNCHANGED configVars /\ GilInv'
      /\ \A t \in Slot \ {s} : stage'[t] = stage[t]
      /\ \A t \in Slot : gil'[t] = IF thread'[t] = "emit" THEN "stash"
                                   ELSE IF stage'[t] = "join" THEN "main" ELSE "free"
  BY <1>0, <1>1, StepType
<1>5. TypeInv'
  BY <1>0, <1>2, <1>3, <1>4 DEF TypeInv, TypeOK, Stage, threadVars, configVars
<1> QED  BY <1>0, <1>2, <1>3, <1>4, <1>5 DEF OthersAlone, threadVars

\* The steps by which the builder's thread comes, runs and goes.
LEMMA ThreadSteps ==
  ASSUME TypeInv, NEW s \in Slot,
         \/ CreateBuilder(s) \/ Exit(s) \/ Destroy(s) \/ Join(s) \/ ProcessStashThread(s)
  PROVE  TypeInv' /\ OthersAlone(s)
<1>0. /\ UNCHANGED <<configVars, prepared, root, clash, left>>
      /\ stage \in [Slot -> Stage] /\ held \in [Slot -> SUBSET Thing]
      /\ running_ \in [Slot -> BOOLEAN]
      /\ thread \in [Slot -> {"none", "start", "wait_gil", "emit", "sleep"}]
  BY DEF TypeInv, TypeOK, Stage, CreateBuilder, Exit, Destroy, Join, Step,
         ProcessStashThread, Begin, EnsureGil, Emit, Wake, ThreadStep
<1>1. /\ stage' \in [Slot -> Stage] /\ held' \in [Slot -> SUBSET Thing]
      /\ \A t \in Slot \ {s} : stage'[t] = stage[t] /\ held'[t] = held[t]
  BY <1>0 DEF Stage, CreateBuilder, Exit, Destroy, Join, Closed, Step,
              ProcessStashThread, Begin, EnsureGil, Emit, Wake, ThreadStep
<1>2. /\ running_' \in [Slot -> BOOLEAN]
      /\ \A t \in Slot \ {s} : running_'[t] = running_[t]
  BY <1>0 DEF CreateBuilder, Exit, Destroy, Join,
              ProcessStashThread, Begin, EnsureGil, Emit, Wake, ThreadStep
<1>3. /\ thread' \in [Slot -> {"none", "start", "wait_gil", "emit", "sleep"}]
      /\ \A t \in Slot \ {s} : thread'[t] = thread[t]
  BY <1>0 DEF CreateBuilder, Exit, Destroy, Join,
              ProcessStashThread, Begin, EnsureGil, Emit, Wake, ThreadStep
<1>4. /\ gil' \in [Slot -> {"free", "main", "stash"}]
      /\ \A t \in Slot \ {s} : gil'[t] = gil[t]
  BY DEF TypeInv, GilInv, threadVars, CreateBuilder, Exit, Destroy, Join,
         ProcessStashThread, Begin, EnsureGil, Emit, Wake, ThreadStep
<1>5. /\ gil'[s] = IF thread'[s] = "emit" THEN "stash"
                   ELSE IF stage'[s] = "join" THEN "main" ELSE "free"
      /\ stage'[s] = "join" => thread'[s] # "emit"
  <2>0. /\ gil[s] = IF thread[s] = "emit" THEN "stash"
                    ELSE IF stage[s] = "join" THEN "main" ELSE "free"
        /\ stage[s] = "join" => thread[s] # "emit"
        /\ gil \in [Slot -> {"free", "main", "stash"}]
    BY DEF TypeInv, TypeOK, GilInv
  <2>1. CASE CreateBuilder(s)
    BY <1>0, <2>0, <2>1 DEF CreateBuilder, Step
  <2>2. CASE Exit(s)
    BY <1>0, <2>0, <2>2 DEF Exit, Step
  <2>3. CASE Destroy(s)
    BY <1>0, <2>0, <2>3 DEF Destroy, Step
  <2>4. CASE Join(s)
    BY <1>0, <2>0, <2>4 DEF Join
  <2>5. CASE Begin(s) \/ Wake(s)
    BY <1>0, <2>0, <2>5 DEF Begin, Wake, ThreadStep
  <2>6. CASE EnsureGil(s)
    BY <1>0, <2>0, <2>6 DEF EnsureGil, ThreadStep
  <2>7. CASE Emit(s)
    BY <1>0, <2>0, <2>7 DEF Emit, ThreadStep
  <2> QED  BY <2>1, <2>2, <2>3, <2>4, <2>5, <2>6, <2>7 DEF ProcessStashThread
<1>6. \A t \in Slot :
        /\ gil'[t] = IF thread'[t] = "emit" THEN "stash"
                     ELSE IF stage'[t] = "join" THEN "main" ELSE "free"
        /\ stage'[t] = "join" => thread'[t] # "emit"
  <2>1. \A t \in Slot :
          /\ gil[t] = IF thread[t] = "emit" THEN "stash"
                      ELSE IF stage[t] = "join" THEN "main" ELSE "free"
          /\ stage[t] = "join" => thread[t] # "emit"
    BY DEF TypeInv, TypeOK, GilInv
  <2> TAKE t \in Slot
  <2>2. CASE t = s
    BY <1>5, <2>2
  <2>3. CASE t # s
    BY <1>1, <1>3, <1>4, <2>1, <2>3
  <2> QED  BY <2>2, <2>3
<1>7. TypeOK'
  BY <1>0, <1>1, <1>2, <1>3, <1>6 DEF TypeInv, TypeOK, Stage, configVars
<1>8. TypeInv'
  BY <1>4, <1>6, <1>7 DEF TypeInv, GilInv
<1> QED  BY <1>0, <1>1, <1>2, <1>3, <1>4, <1>8 DEF OthersAlone

\* Init and every step keep the types.
LEMMA TypeInvariance == Spec => []TypeInv
<1>1. Init => TypeInv
  BY DEF Init, TypeInv, TypeOK, GilInv, Option
<1>2. TypeInv /\ [Next]_vars => TypeInv'
  <2> SUFFICES ASSUME TypeInv, [Next]_vars
               PROVE  TypeInv'
    OBVIOUS
  <2>1. ASSUME NEW s \in Slot, main(s) \/ ProcessStashThread(s)
        PROVE  TypeInv'
    BY <2>1, TrySteps, QuietSteps, ThreadSteps DEF main, Tries
  <2>2. CASE UNCHANGED vars
    BY <2>2 DEF TypeInv, TypeOK, GilInv, vars, configVars, threadVars
  <2> QED  BY <2>1, <2>2 DEF Next
<1> QED  BY <1>1, <1>2, PTL DEF Spec

\* Every variable keeps its type; the GIL is where the stash thread and the
\* destructor say it is.
THEOREM TypeCorrect == Spec => []TypeOK
BY TypeInvariance, PTL DEF TypeInv

-----------------------------------------------------------------------------
(* Startup and shutdown *)

\* What a server may have taken, by the stage it has reached.
MayHold(s) ==
  {<<"port", stream_port(s)>>} \cup left[s]
  \cup {x \in Lane(s) : /\ stage[s] \in {"enter_card", "root", "enter_root", "run", "close_card"}
                        /\ ~argv[s].emulate}
  \cup {x \in Ports(s) : stage[s] \in {"enter_root", "run"}}

\* All that a server may ever take.
Wants(s) == {<<"port", stream_port(s)>>} \cup Lane(s) \cup Ports(s)

\* A server's progress, what it holds and its root go together.
Orderly(s) ==
  /\ stage[s] \in {"card", "enter_card", "close_card"} => ~argv[s].emulate
  /\ held[s] \subseteq MayHold(s) /\ left[s] \subseteq Wants(s)
  /\ stage[s] # "run" => root[s] = None

\* Servers that go by their defaults have found no one in their way but servers that do not.
Undisturbed(s) == \A t \in clash[s] : ~(Defaults(s) /\ Defaults(t))

ServerInv == \A s \in Slot : Orderly(s) /\ Undisturbed(s)

\* Slots a whole number of ports apart, from two bases far enough apart.
LEMMA DefaultsDisjoint ==
  ASSUME NEW s \in Slot, NEW t \in Slot, s # t, Defaults(s), Defaults(t)
  PROVE  Wants(s) \cap Wants(t) = {}
<1>0. s \in 0..1000 /\ t \in 0..1000
  BY SlotAssumption
<1>1. \A r \in {s, t} : /\ stream_port(r) = 4530 + r /\ lane(r) = r - 2
                        /\ server_port(r) = 9000 + r * 3
  BY DEF Defaults, stream_port, lane, server_port, Default
<1>2. \A i, j \in 0..2 : 9000 + s * 3 + i # 9000 + t * 3 + j
  BY <1>0
<1>3. \A i \in 0..2 : 9000 + s * 3 + i # 4530 + t /\ 9000 + t * 3 + i # 4530 + s
  BY <1>0
<1>4. Ports(s) = {<<"port", 9000 + s * 3 + i>> : i \in 0..2}
  BY <1>1 DEF Ports
<1>5. Ports(t) = {<<"port", 9000 + t * 3 + i>> : i \in 0..2}
  BY <1>1 DEF Ports
<1>6. Ports(s) \cap Ports(t) = {}
  BY <1>2, <1>4, <1>5
<1>7. /\ <<"port", 4530 + t>> \notin Ports(s) /\ <<"port", 4530 + s>> \notin Ports(t)
      /\ \A n : <<"lane", n>> \notin Ports(s) \cup Ports(t)
  BY <1>3, <1>4, <1>5
<1>8. /\ <<"port", 4530 + s>> # <<"port", 4530 + t>> /\ <<"lane", s - 2>> # <<"lane", t - 2>>
      /\ \A m, n : <<"port", m>> # <<"lane", n>>
  BY <1>0
<1> QED  BY <1>1, <1>6, <1>7, <1>8 DEF Wants, Lane

\* A server that finds things taken finds them with one that asked for them too.
LEMMA ClashIsDeserved ==
  ASSUME TypeInv, ServerInv, NEW s \in Slot, NEW things \in SUBSET Wants(s),
         NEW t \in Taken(s, things)
  PROVE  ~(Defaults(s) /\ Defaults(t))
<1>1. t \in Slot \ {s} /\ held[t] \cap things # {}
  BY DEF Taken
<1>2. held[t] \subseteq Wants(t)
  BY <1>1 DEF ServerInv, Orderly, MayHold, Wants
<1> QED  BY <1>1, <1>2, DefaultsDisjoint

\* What a server wants does not change while it runs.
LEMMA WantsStay ==
  ASSUME UNCHANGED configVars, NEW s \in Slot
  PROVE  /\ stream_port(s)' = stream_port(s) /\ Lane(s)' = Lane(s) /\ Ports(s)' = Ports(s)
         /\ Wants(s)' = Wants(s) /\ Leaving(s)' = Leaving(s)
         /\ Defaults(s)' <=> Defaults(s)
         /\ argv'[s] = argv[s] /\ comm_type' = comm_type
BY DEF configVars, stream_port, lane, Lane, Ports, server_port, Wants, Leaving, Defaults, Default

\* The step of one server leaves the others in order.
LEMMA OthersStayOrderly ==
  ASSUME ServerInv, NEW s \in Slot, OthersAlone(s), NEW t \in Slot \ {s}
  PROVE  Orderly(t)' /\ Undisturbed(t)'
<1>1. UNCHANGED configVars
  BY DEF OthersAlone
<1>2. /\ stage'[t] = stage[t] /\ prepared'[t] = prepared[t] /\ root'[t] = root[t]
      /\ held'[t] = held[t] /\ clash'[t] = clash[t] /\ left'[t] = left[t]
  BY DEF OthersAlone
<1>3. Orderly(t)'
  <2>1. MayHold(t)' = MayHold(t)
    BY <1>1, <1>2, WantsStay DEF MayHold
  <2> QED  BY <1>1, <1>2, <2>1, WantsStay DEF ServerInv, Orderly
<1>4. \A u \in Slot : Defaults(u)' <=> Defaults(u)
  BY <1>1, WantsStay
<1>5. Undisturbed(t)'
  BY <1>2, <1>4, <1>1 DEF ServerInv, Undisturbed, Defaults, configVars
<1> QED  BY <1>3, <1>5

\* What a try does to the server that tries.
LEMMA TryOutcome ==
  ASSUME TypeInv, ServerInv, NEW s \in Slot, NEW things \in SUBSET Wants(s), NEW from, NEW to,
         NEW back, NEW needed, Try(s, from, to, back, things, needed)
  PROVE  /\ Undisturbed(s)' /\ stage[s] = from /\ UNCHANGED configVars
         /\ held'[s] \subseteq held[s] \cup things /\ left'[s] \subseteq left[s] \cup things
         /\ \/ stage'[s] = to /\ left'[s] = left[s]
            \/ stage'[s] = back /\ left'[s] = left[s] \cup (things \cap held'[s])
<1>0. /\ stage \in [Slot -> Stage] /\ HeldType /\ Undisturbed(s)
  BY DEF TypeInv, TypeOK, HeldType, Stage, ServerInv
<1>1. PICK part \in Parts(s, things) : held' = [held EXCEPT ![s] = @ \cup part]
  BY DEF Try
<1>2. held'[s] \subseteq held[s] \cup things
  BY <1>0, <1>1 DEF Parts, HeldType
<1>3. CASE Step(s, from, to) /\ UNCHANGED <<left, clash>>
  <2>1. stage[s] = from /\ stage'[s] = to /\ UNCHANGED configVars
    BY <1>0, <1>3 DEF Step
  <2> QED  BY <1>0, <1>2, <1>3, <2>1 DEF Undisturbed, Defaults, configVars
<1>4. CASE /\ Step(s, from, back)
           /\ left' = [left EXCEPT ![s] = @ \cup (things \cap held'[s])]
           /\ clash' = [clash EXCEPT ![s] = Taken(s, things)]
  <2>1. stage[s] = from /\ stage'[s] = back /\ UNCHANGED configVars
    BY <1>0, <1>4 DEF Step
  <2>2. left'[s] = left[s] \cup (things \cap held'[s]) /\ clash'[s] = Taken(s, things)
    BY <1>0, <1>4 DEF HeldType
  <2>3. \A t \in clash'[s] : ~(Defaults(s) /\ Defaults(t))
    BY <2>2, ClashIsDeserved
  <2> QED  BY <1>2, <2>1, <2>2, <2>3 DEF Undisturbed, Defaults, configVars
<1> QED  BY <1>3, <1>4 DEF Try

\* Taking things, or failing to, a server stays in order.
LEMMA TryOrderly ==
  ASSUME TypeInv, ServerInv, NEW s \in Slot, Tries(s)
  PROVE  Orderly(s)' /\ Undisturbed(s)'
<1>0. /\ Orderly(s)
      /\ root \in [Slot -> Option(CommType \cup {"emulation"})]
  BY DEF ServerInv, TypeInv, TypeOK
<1> DEFINE P == {<<"port", stream_port(s)>>}
           Same == /\ P' = P /\ Lane(s)' = Lane(s) /\ Ports(s)' = Ports(s) /\ Wants(s)' = Wants(s)
                   /\ argv'[s] = argv[s]
<1>1. UNCHANGED configVars => Same
  BY WantsStay
<1>2. P \subseteq Wants(s) /\ Lane(s) \subseteq Wants(s) /\ Ports(s) \subseteq Wants(s)
  BY DEF Wants
<1>3. CASE BuildPipeline(s)
  <2>1. Try(s, "pipeline", "choose", "end", P, P) /\ UNCHANGED root
    BY <1>3 DEF BuildPipeline
  <2>2. /\ Undisturbed(s)' /\ Same /\ stage[s] = "pipeline" /\ stage'[s] \in {"choose", "end"}
        /\ held'[s] \subseteq held[s] \cup P
        /\ left[s] \subseteq left'[s] /\ left'[s] \subseteq left[s] \cup P
    <3> HIDE DEF P, Same
    <3>1. P \in SUBSET Wants(s)
      BY <1>2
    <3>2. /\ Undisturbed(s)' /\ stage[s] = "pipeline" /\ UNCHANGED configVars
          /\ held'[s] \subseteq held[s] \cup P /\ left'[s] \subseteq left[s] \cup P
          /\ \/ stage'[s] = "choose" /\ left'[s] = left[s]
             \/ stage'[s] = "end" /\ left'[s] = left[s] \cup (P \cap held'[s])
      BY <2>1, <3>1, TryOutcome
    <3> QED  BY <1>1, <3>2
  <2> QED  BY <1>0, <1>2, <2>1, <2>2 DEF Orderly, MayHold
<1>4. CASE NewCard(s) \/ EnterCard(s)
  <2>1. /\ UNCHANGED root
        /\ \/ Try(s, "card", "enter_card", "end", Lane(s), {})
           \/ Try(s, "enter_card", "root", "end", Lane(s), Lane(s))
    BY <1>4 DEF NewCard, EnterCard
  <2>2. /\ Undisturbed(s)' /\ Same /\ stage[s] \in {"card", "enter_card"}
        /\ held'[s] \subseteq held[s] \cup Lane(s)
        /\ left'[s] \subseteq left[s] \cup Lane(s)
        /\ \/ stage'[s] \in {"enter_card", "root"} /\ left'[s] = left[s]
           \/ stage'[s] = "end" /\ left'[s] = left[s] \cup (Lane(s) \cap held'[s])
    <3> HIDE DEF P, Same
    <3>1. CASE Try(s, "card", "enter_card", "end", Lane(s), {})
      BY <1>1, <1>2, <3>1, TryOutcome
    <3>2. CASE Try(s, "enter_card", "root", "end", Lane(s), Lane(s))
      BY <1>1, <1>2, <3>2, TryOutcome
    <3> QED  BY <2>1, <3>1, <3>2
  <2>3. ~argv[s].emulate /\ held[s] \subseteq P \cup left[s] \cup Lane(s) /\ root[s] = None
    BY <1>0, <2>2 DEF Orderly, MayHold
  <2> HIDE DEF P
  <2>4. held'[s] \subseteq MayHold(s)'
    <3>1. P \cup left'[s] \subseteq MayHold(s)'
      BY <2>2 DEF MayHold, P
    <3>2. stage'[s] \in {"enter_card", "root"} => Lane(s) \subseteq MayHold(s)'
      BY <2>2, <2>3 DEF MayHold
    <3> QED  BY <2>2, <2>3, <3>1, <3>2
  <2> QED  BY <1>0, <1>2, <2>1, <2>2, <2>3, <2>4 DEF Orderly
<1>5. CASE NewRoot(s) \/ EnterRoot(s)
  <2>1. \/ Try(s, "root", "enter_root", Leaving(s), Ports(s), {})
        \/ Try(s, "enter_root", "run", Leaving(s), Ports(s), Ports(s))
    BY <1>5 DEF NewRoot, EnterRoot
  <2>2. /\ Undisturbed(s)' /\ Same /\ stage[s] \in {"root", "enter_root"}
        /\ held'[s] \subseteq held[s] \cup Ports(s)
        /\ left'[s] \subseteq left[s] \cup Ports(s)
        /\ \/ stage'[s] \in {"enter_root", "run"} /\ left'[s] = left[s]
           \/ stage'[s] = Leaving(s) /\ left'[s] = left[s] \cup (Ports(s) \cap held'[s])
    <3> HIDE DEF P, Same
    <3>1. CASE Try(s, "root", "enter_root", Leaving(s), Ports(s), {})
      BY <1>1, <1>2, <3>1, TryOutcome
    <3>2. CASE Try(s, "enter_root", "run", Leaving(s), Ports(s), Ports(s))
      BY <1>1, <1>2, <3>2, TryOutcome
    <3> QED  BY <2>1, <3>1, <3>2
  <2>3. root'[s] = None \/ stage'[s] = "run"
    BY <1>0, <1>5, <2>2 DEF NewRoot, EnterRoot, Orderly
  <2>4. held[s] \subseteq P \cup left[s] \cup {x \in Lane(s) : ~argv[s].emulate} \cup Ports(s)
    BY <1>0, <2>2 DEF Orderly, MayHold
  <2>5. held'[s] \subseteq MayHold(s)'
    <3>1. P \cup left'[s] \subseteq MayHold(s)'
      BY <2>2 DEF MayHold
    <3>2. {x \in Lane(s) : ~argv[s].emulate} \subseteq MayHold(s)'
      BY <2>2 DEF MayHold, Leaving
    <3>3. stage'[s] \in {"enter_root", "run"} => Ports(s) \subseteq MayHold(s)'
      BY <2>2 DEF MayHold
    <3> HIDE DEF P
    <3> QED  BY <2>2, <2>4, <3>1, <3>2, <3>3
  <2>6. left'[s] \subseteq Wants(s)' /\ (stage'[s] = "close_card" => ~argv'[s].emulate)
    BY <1>0, <1>2, <2>2 DEF Orderly, Leaving
  <2> QED  BY <2>2, <2>3, <2>5, <2>6 DEF Orderly, Leaving
<1> QED  BY <1>3, <1>4, <1>5 DEF Tries

\* So it does in the other steps.
LEMMA OthersOrderly ==
  ASSUME TypeInv, ServerInv, NEW s \in Slot,
         \/ setup_server(s) \/ ChooseRoot(s) \/ CloseRoot(s) \/ CloseCard(s)
         \/ CreateBuilder(s) \/ Exit(s) \/ Destroy(s) \/ Join(s) \/ ProcessStashThread(s)
  PROVE  Orderly(s)' /\ Undisturbed(s)'
<1>0. /\ Orderly(s) /\ Undisturbed(s) /\ UNCHANGED <<configVars, clash, left>>
      /\ stage \in [Slot -> Stage] /\ held \in [Slot -> SUBSET Thing]
      /\ prepared \in [Slot -> Option(CommType)]
      /\ root \in [Slot -> Option(CommType \cup {"emulation"})]
  BY DEF ServerInv, TypeInv, TypeOK, Stage, setup_server, ChooseRoot, CloseRoot, CloseCard,
         CreateBuilder, Exit, Destroy, Join, ProcessStashThread, Begin, EnsureGil, Emit, Wake,
         Step, ThreadStep
<1>1. Undisturbed(s)'
  BY <1>0 DEF Undisturbed, Defaults, configVars
<1>2. /\ stream_port(s)' = stream_port(s) /\ Lane(s)' = Lane(s) /\ Ports(s)' = Ports(s)
      /\ Wants(s)' = Wants(s) /\ argv'[s] = argv[s]
  BY <1>0, WantsStay
<1>3. CASE setup_server(s)
  BY <1>0, <1>1, <1>2, <1>3 DEF setup_server, Step, Orderly, MayHold
<1>4. CASE ChooseRoot(s)
  BY <1>0, <1>1, <1>2, <1>4 DEF ChooseRoot, Step, Orderly, MayHold
<1>5. CASE CloseRoot(s)
  BY <1>0, <1>1, <1>2, <1>5 DEF CloseRoot, Leaving, Step, Orderly, MayHold
<1>6. CASE CloseCard(s)
  BY <1>0, <1>1, <1>2, <1>6 DEF CloseCard, Step, Orderly, MayHold
<1>7. CASE CreateBuilder(s)
  BY <1>0, <1>1, <1>2, <1>7 DEF CreateBuilder, Step, Orderly, MayHold
<1>8. CASE Exit(s) \/ Destroy(s) \/ Join(s)
  BY <1>0, <1>1, <1>2, <1>8 DEF Exit, Destroy, Join, Closed, Step, Orderly, MayHold
<1>9. CASE ProcessStashThread(s)
  <2>1. UNCHANGED <<configVars, stage, prepared, root, held, clash, left>>
    BY <1>9 DEF ProcessStashThread, Begin, EnsureGil, Emit, Wake, ThreadStep
  <2> QED  BY <1>0, <1>1, <1>2, <2>1 DEF Orderly, MayHold
<1> QED  BY <1>3, <1>4, <1>5, <1>6, <1>7, <1>8, <1>9

\* Every server stays in order and undisturbed.
LEMMA ServerInvariance == Spec => []ServerInv
<1>1. Init => ServerInv
  BY DEF Init, ServerInv, Orderly, Undisturbed, MayHold
<1>2. TypeInv /\ ServerInv /\ [Next]_vars => ServerInv'
  <2> SUFFICES ASSUME TypeInv, ServerInv, [Next]_vars
               PROVE  ServerInv'
    OBVIOUS
  <2>1. ASSUME NEW s \in Slot, main(s) \/ ProcessStashThread(s)
        PROVE  ServerInv'
    <3>1. Orderly(s)' /\ Undisturbed(s)'
      BY <2>1, TryOrderly, OthersOrderly DEF main, Tries
    <3>2. OthersAlone(s)
      BY <2>1, TrySteps, QuietSteps, ThreadSteps DEF main, Tries
    <3>3. \A t \in Slot \ {s} : Orderly(t)' /\ Undisturbed(t)'
      BY <3>2, OthersStayOrderly
    <3> QED  BY <3>1, <3>3 DEF ServerInv
  <2>2. CASE UNCHANGED vars
    <3>1. \A s \in Slot : MayHold(s)' = MayHold(s)
      BY <2>2, WantsStay DEF MayHold, vars
    <3> QED  BY <2>2, <3>1, WantsStay DEF ServerInv, Orderly, Undisturbed, Defaults, vars, configVars
  <2> QED  BY <2>1, <2>2 DEF Next
<1> QED  BY <1>1, <1>2, TypeInvariance, PTL DEF Spec

\* Servers of a crate that were given no ports and no lane never meet.
THEOREM DefaultsNeverMeet == Spec => []DefaultsNeverClash
<1>1. ServerInv => DefaultsNeverClash
  BY DEF ServerInv, Undisturbed, DefaultsNeverClash
<1> QED  BY <1>1, ServerInvariance, PTL

\* However startup or shutdown goes wrong, between two calls or within one, a server
\* past its with blocks has closed its root and holds nothing but the port of the
\* pipeline and what the calls that failed had taken.
THEOREM NothingStaysOpen == Spec => []NothingLeftOpen
<1>1. ServerInv => NothingLeftOpen
  BY DEF ServerInv, Orderly, MayHold, NothingLeftOpen
<1> QED  BY <1>1, ServerInvariance, PTL
=============================================================================
