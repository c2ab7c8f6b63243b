--------------------------- MODULE EnvDispatcher ---------------------------
(***************************************************************************)
(* The agent's command handlers: internal/envlifecycle/dispatcher.go, run  *)
(* the way internal/flexctlagent/agent.go runs them, one goroutine per     *)
(* command with no ordering between them, over one shared GPU allocator    *)
(* and the node's Docker daemon.                                           *)
(*                                                                         *)
(* Every Docker call, every allocator call and every send is a step of its *)
(* own, so handlers interleave at each of them.  The order of the calls in *)
(* a handler, success and failure, is a table (HandleCreate, HandleStart,  *)
(* HandleStop, HandleDelete); the actions below are the calls.             *)
(*                                                                         *)
(* The Docker daemon is external.  A call that fails has no effect.  What  *)
(* may fail, and what the environment may do, is the constant Faults, so   *)
(* that one module serves the runs that assume a well behaved environment  *)
(* and the ones that assume nothing.                                       *)
(*                                                                         *)
(* Left out: image pulls, the text of errors and logs, the container       *)
(* environment and the labels no handler branches on.                      *)
(***************************************************************************)
EXTENDS GPUPool

CONSTANTS Commands,     \* the commands the control plane may send, each once
          NoCommand,    \* the creator of a container that does not exist
          Faults,       \* what may go wrong, a subset of FaultKinds
          MaxRestarts   \* bound on agent restarts

CommandNames == {"create", "start", "stop", "delete"}

(***************************************************************************)
(* Docker calls that may fail on their own, and five liberties of the      *)
(* environment:                                                            *)
(*   overlap   a command for an environment is sent while another one for  *)
(*             it is in progress;                                          *)
(*   early     it is sent once the earlier one has reported, though its    *)
(*             handler may have steps left;                                *)
(*   again     Start is sent to an environment last reported ready;        *)
(*   exit      a container's process ends by itself;                       *)
(*   restart   the agent process dies and is started again.                *)
(***************************************************************************)
FaultKinds == {"mk", "up", "health", "down", "rm", "inspect",
               "overlap", "early", "again", "exit", "restart"}

(* A command: what to do, to which environment, with how many GPUs. *)
ASSUME CommandsAssumption ==
    /\ \A c \in Commands : /\ c.op \in CommandNames
                           /\ c.env \in Envs
                           /\ c.count \in Counts
    /\ NoCommand \notin Commands
(* The number of indices that a label lists may be asked for. *)
ASSUME LabelsAssumption == \A S \in SUBSET GPUs : Cardinality(S) \in Counts
ASSUME FaultsAssumption == Faults \subseteq FaultKinds
ASSUME MaxRestartsAssumption == MaxRestarts \in Nat

VARIABLES
    allocated,  \* the GPU allocator's map
    dev,        \* environment -> its dev container, flex-env-<id>
    sidecar,    \* environment -> its sidecar container, flex-net-<id>
    volume,     \* environment -> does its volume exist
    stage,      \* command -> the call its handler makes next
    picked,     \* command -> the GPU indices its handler goes on with
    label,      \* command -> the gpu_indices label HandleStart has read
    answer,     \* command -> the result its handler has sent
    reported,   \* environment -> the last result sent about it
    restarts    \* agent restarts so far

vars == <<allocated, dev, sidecar, volume, stage, picked, label, answer,
          reported, restarts>>

Alloc == INSTANCE GPUAllocator

-----------------------------------------------------------------------------
(* The handlers: for each call, the next one after success and failure.  A
   command waits until the agent receives it. *)

Both(next) == [ok |-> next, err |-> next]

(* Mutated form of Undo: a failed handler ends without sending its error. *)
UndoSilent == [undoRmDev       |-> Both("undoStopSidecar"),
               undoStopSidecar |-> Both("undoRmSidecar"),
               undoRmSidecar   |-> Both("release"),
               release         |-> Both("done"),
               sendError       |-> Both("done"),
               sendReady       |-> Both("done")]

(* Mutated form of Undo: the GPUs of a failed handler stay reserved. *)
UndoKeepsGPUs == [undoRmDev       |-> Both("undoStopSidecar"),
                  undoStopSidecar |-> Both("undoRmSidecar"),
                  undoRmSidecar   |-> Both("sendError"),
                  release         |-> Both("sendError"),
                  sendError       |-> Both("done"),
                  sendReady       |-> Both("done")]

(* What HandleCreate and HandleStart share: undoing the work of a failure. *)
Undo == [undoRmDev       |-> Both("undoStopSidecar"),
         undoStopSidecar |-> Both("undoRmSidecar"),
         undoRmSidecar   |-> Both("release"),
         release         |-> Both("sendError"),
         sendError       |-> Both("done"),
         sendReady       |-> Both("done")]

(* Mutated form of HandleCreate: a dev container that does not start stays. *)
HandleCreateKeepsDev ==
    [waiting      |-> Both("allocate"),
     allocate     |-> [ok |-> "mkSidecar",    err |-> "sendError"],
     mkSidecar    |-> [ok |-> "startSidecar", err |-> "release"],
     startSidecar |-> [ok |-> "health",       err |-> "undoRmSidecar"],
     health       |-> [ok |-> "mkDev",        err |-> "undoStopSidecar"],
     mkDev        |-> [ok |-> "startDev",     err |-> "undoStopSidecar"],
     startDev     |-> [ok |-> "sendReady",    err |-> "undoStopSidecar"]]

HandleCreate ==
    [waiting      |-> Both("allocate"),
     allocate     |-> [ok |-> "mkSidecar",    err |-> "sendError"],
     mkSidecar    |-> [ok |-> "startSidecar", err |-> "release"],
     startSidecar |-> [ok |-> "health",       err |-> "undoRmSidecar"],
     health       |-> [ok |-> "mkDev",        err |-> "undoStopSidecar"],
     mkDev        |-> [ok |-> "startDev",     err |-> "undoStopSidecar"],
     startDev     |-> [ok |-> "sendReady",    err |-> "undoRmDev"]]

HandleStart ==
    [waiting        |-> Both("inspectDev"),
     inspectDev     |-> [ok |-> "inspectSidecar", err |-> "sendError"],
     inspectSidecar |-> [ok |-> "allocate",       err |-> "sendError"],
     allocate       |-> [ok |-> "rmSidecar",      err |-> "sendError"],
     rmSidecar      |-> [ok |-> "mkSidecar",      err |-> "sendErrorFirst"],
     mkSidecar      |-> [ok |-> "startSidecar",   err |-> "sendErrorFirst"],
     startSidecar   |-> [ok |-> "health",         err |-> "undoRmSidecar"],
     health         |-> [ok |-> "rmDev",          err |-> "undoStopSidecar"],
     rmDev          |-> [ok |-> "mkDev",          err |-> "undoStopSidecar"],
     mkDev          |-> [ok |-> "startDev",       err |-> "undoStopSidecar"],
     startDev       |-> [ok |-> "sendReady",      err |-> "undoRmDev"],
     sendErrorFirst |-> Both("lateRelease"),
     lateRelease    |-> Both("done")]

(* Mutated form of HandleStop: the GPUs are released before the stop. *)
HandleStopReleaseFirst ==
    [waiting     |-> Both("release"),
     release     |-> Both("stopDev"),
     stopDev     |-> Both("stopSidecar"),
     stopSidecar |-> Both("sendStopped"),
     sendStopped |-> Both("done")]

(* Mutated form of HandleStop: the sidecar is stopped before its dev. *)
HandleStopSidecarFirst ==
    [waiting     |-> Both("stopSidecar"),
     stopSidecar |-> Both("stopDev"),
     stopDev     |-> Both("release"),
     release     |-> Both("sendStopped"),
     sendStopped |-> Both("done")]

(* HandleStop logs the failures of its two calls and goes on. *)
HandleStop ==
    [waiting     |-> Both("stopDev"),
     stopDev     |-> Both("stopSidecar"),
     stopSidecar |-> Both("release"),
     release     |-> Both("sendStopped"),
     sendStopped |-> Both("done")]

(* Mutated form of HandleDelete: the volume goes before its container. *)
HandleDeleteVolumeFirst ==
    [waiting     |-> Both("stopDev"),
     stopDev     |-> Both("stopSidecar"),
     stopSidecar |-> Both("rmVolume"),
     rmVolume    |-> Both("rmDev"),
     rmDev       |-> Both("rmSidecar"),
     rmSidecar   |-> Both("release"),
     release     |-> Both("sendDeleted"),
     sendDeleted |-> Both("done")]

(* HandleDelete ignores the failure of every call. *)
HandleDelete ==
    [waiting     |-> Both("stopDev"),
     stopDev     |-> Both("stopSidecar"),
     stopSidecar |-> Both("rmDev"),
     rmDev       |-> Both("rmSidecar"),
     rmSidecar   |-> Both("rmVolume"),
     rmVolume    |-> Both("release"),
     release     |-> Both("sendDeleted"),
     sendDeleted |-> Both("done")]

Handler == [create |-> HandleCreate, start |-> HandleStart,
            stop |-> HandleStop, delete |-> HandleDelete]

After(c) == IF stage[c] \in DOMAIN Handler[c.op]
            THEN Handler[c.op][stage[c]]
            ELSE Undo[stage[c]]

(* The calls that name a container by the id its creation returned; the    *)
(* others name it by its well-known name.                                  *)
ById == {"startSidecar", "health", "startDev",
         "undoRmDev", "undoStopSidecar", "undoRmSidecar"}

(* The stages of the handler of c. *)
StagesOf(c) == DOMAIN Handler[c.op]
               \cup (IF c.op \in {"create", "start"} THEN DOMAIN Undo ELSE {})

Ended == {"done", "killed"}

Active(c) == stage[c] \notin Ended \cup {"waiting"}

-----------------------------------------------------------------------------
(* Containers.  A container is identified by the command that created it;  *)
(* "crashed" is Docker's "exited" when the process ended by itself.        *)

States == {"none", "created", "running", "exited", "crashed"}

Container == [by : Commands \cup {NoCommand}, state : States,
              gpus : SUBSET GPUs, label : SUBSET GPUs]

NoContainer == [by |-> NoCommand, state |-> "none", gpus |-> {}, label |-> {}]

NewContainer(c, gpus, labelled) ==
    [by |-> c, state |-> "created", gpus |-> gpus, label |-> labelled]

(* The call of c finds its container among box. *)
Found(c, box) ==
    IF stage[c] \in ById THEN box[c.env].by = c ELSE box[c.env] # NoContainer

(* Stopping a container that does not run changes nothing. *)
Stopped(k) == IF k.state \in {"running", "crashed"}
              THEN [k EXCEPT !.state = "exited"] ELSE k

-----------------------------------------------------------------------------
Goto(c, s) == stage' = [stage EXCEPT ![c] = s]

(* The call of c succeeds (its effect is beside this) or fails without effect
   because it must (fails) or because the environment lets it (fault). *)
Ok(c) == Goto(c, After(c).ok)

Err(c, fails, fault) ==
    /\ fails \/ fault \in Faults
    /\ Goto(c, After(c).err)
    /\ UNCHANGED <<allocated, dev, sidecar, volume, picked, label>>

Local == UNCHANGED <<answer, reported, restarts>>

(***************************************************************************)
(* The agent's receive loop starts the handler of a command.  What the     *)
(* control plane's user does decides when: without the liberties of Faults *)
(* a user creates first, waits for the last command on the environment to  *)
(* end, never touches a deleted one and starts only what is not ready.     *)
(***************************************************************************)
MayFollow(c, d) ==
    \/ "overlap" \in Faults
    \/ stage[d] \in Ended \cup {"waiting"}
    \/ "early" \in Faults /\ answer[d] # "none"

Paced(c) ==
    /\ \A d \in Commands \ {c} : d.env = c.env => MayFollow(c, d)
    /\ \/ "overlap" \in Faults
       \/ c.op = "create"
       \/ \E d \in Commands : /\ d.op = "create" /\ d.env = c.env
                              /\ stage[d] # "waiting"
    /\ "overlap" \in Faults \/ reported[c.env] # "deleted"
    /\ c.op = "start" /\ reported[c.env] = "ready" => "again" \in Faults

Receive(c) ==
    /\ stage[c] = "waiting"
    /\ Paced(c)
    /\ Ok(c)
    /\ UNCHANGED <<allocated, dev, sidecar, volume, picked, label>>
    /\ Local

InspectDev(c) ==
    /\ stage[c] = "inspectDev"
    /\ \/ /\ Found(c, dev)
          /\ Ok(c)
          /\ label' = [label EXCEPT ![c] = dev[c.env].label]
          /\ UNCHANGED <<allocated, dev, sidecar, volume, picked>>
       \/ Err(c, ~Found(c, dev), "inspect")
    /\ Local

InspectSidecar(c) ==
    /\ stage[c] = "inspectSidecar"
    /\ \/ /\ Found(c, sidecar)
          /\ Ok(c)
          /\ UNCHANGED <<allocated, dev, sidecar, volume, picked, label>>
       \/ Err(c, ~Found(c, sidecar), "inspect")
    /\ Local

(* Mutated form of Wanted: StartEnv carries no count. *)
WantedByCommand(c) == c.count

(* HandleStart asks for as many GPUs as the old label lists, and does not
   ask at all when it lists none. *)
Wanted(c) == IF c.op = "start" THEN Cardinality(label[c]) ELSE c.count

(* Mutated form of Allocate: HandleStart reserves the indices its old label
   lists instead of free ones. *)
AllocateByLabel(c) ==
    /\ stage[c] = "allocate"
    /\ \/ /\ c.op = "start"
          /\ allocated' = [allocated EXCEPT ![c.env] = label[c]]
          /\ picked' = [picked EXCEPT ![c] = label[c]]
          /\ Ok(c)
       \/ /\ c.op # "start"
          /\ Alloc!Allocate(c.env, Wanted(c))
          /\ picked' = [picked EXCEPT ![c] = allocated'[c.env]]
          /\ Ok(c)
    /\ UNCHANGED <<dev, sidecar, volume, label>>
    /\ Local

(* Mutated form of Allocate: HandleStart reserves free indices and goes on
   with the ones of its old label. *)
AllocateKeepsLabel(c) ==
    /\ stage[c] = "allocate"
    /\ \/ /\ Alloc!Allocate(c.env, Wanted(c))
          /\ picked' = [picked EXCEPT ![c] = IF c.op = "start" THEN label[c]
                                             ELSE allocated'[c.env]]
          /\ Ok(c)
       \/ /\ Alloc!Insufficient(Wanted(c))
          /\ Goto(c, After(c).err)
          /\ UNCHANGED <<allocated, picked>>
    /\ UNCHANGED <<dev, sidecar, volume, label>>
    /\ Local

Allocate(c) ==
    /\ stage[c] = "allocate"
    /\ \/ /\ c.op = "start" /\ label[c] = {}
          /\ Ok(c)
          /\ UNCHANGED <<allocated, picked>>
       \/ /\ ~(c.op = "start" /\ label[c] = {})
          /\ Alloc!Allocate(c.env, Wanted(c))
          /\ picked' = [picked EXCEPT ![c] = allocated'[c.env]]
          /\ Ok(c)
       \/ /\ ~(c.op = "start" /\ label[c] = {})
          /\ Alloc!Insufficient(Wanted(c))
          /\ Goto(c, After(c).err)
          /\ UNCHANGED <<allocated, picked>>
    /\ UNCHANGED <<dev, sidecar, volume, label>>
    /\ Local

CreateSidecar(c) ==
    /\ stage[c] = "mkSidecar"
    /\ \/ /\ sidecar[c.env] = NoContainer
          /\ sidecar' = [sidecar EXCEPT ![c.env] = NewContainer(c, {}, {})]
          /\ Ok(c)
          /\ UNCHANGED <<allocated, dev, volume, picked, label>>
       \/ Err(c, sidecar[c.env] # NoContainer, "mk")
    /\ Local

StartSidecar(c) ==
    /\ stage[c] = "startSidecar"
    /\ \/ /\ Found(c, sidecar)
          /\ sidecar' = [sidecar EXCEPT ![c.env].state = "running"]
          /\ Ok(c)
          /\ UNCHANGED <<allocated, dev, volume, picked, label>>
       \/ Err(c, ~Found(c, sidecar), "up")
    /\ Local

(* Polling ends with a tailnet address or at the deadline. *)
WaitSidecarHealth(c) ==
    /\ stage[c] = "health"
    /\ LET up == Found(c, sidecar) /\ sidecar[c.env].state = "running" IN
       \/ /\ up
          /\ Ok(c)
          /\ UNCHANGED <<allocated, dev, sidecar, volume, picked, label>>
       \/ Err(c, ~up, "health")
    /\ Local

(* The volume comes into being with the first container that mounts it.    *)
(* HandleStart gives the new container the GPUs just reserved and the      *)
(* labels of the old one.                                                  *)
CreateDev(c) ==
    /\ stage[c] = "mkDev"
    /\ \/ /\ dev[c.env] = NoContainer
          /\ dev' = [dev EXCEPT ![c.env] =
                       NewContainer(c, picked[c], IF c.op = "start"
                                                  THEN label[c] ELSE picked[c])]
          /\ volume' = [volume EXCEPT ![c.env] = TRUE]
          /\ Ok(c)
          /\ UNCHANGED <<allocated, sidecar, picked, label>>
       \/ Err(c, dev[c.env] # NoContainer, "mk")
    /\ Local

(* The dev container lives in the network of the container named like its
   sidecar, which has to run. *)
StartDev(c) ==
    /\ stage[c] = "startDev"
    /\ LET can == Found(c, dev) /\ sidecar[c.env].state = "running" IN
       \/ /\ can
          /\ dev' = [dev EXCEPT ![c.env].state = "running"]
          /\ Ok(c)
          /\ UNCHANGED <<allocated, sidecar, volume, picked, label>>
       \/ Err(c, ~can, "up")
    /\ Local

StopDev(c) ==
    /\ stage[c] = "stopDev"
    /\ \/ /\ Found(c, dev)
          /\ dev' = [dev EXCEPT ![c.env] = Stopped(@)]
          /\ Ok(c)
          /\ UNCHANGED <<allocated, sidecar, volume, picked, label>>
       \/ Err(c, ~Found(c, dev), "down")
    /\ Local

StopSidecar(c) ==
    /\ stage[c] \in {"stopSidecar", "undoStopSidecar"}
    /\ \/ /\ Found(c, sidecar)
          /\ sidecar' = [sidecar EXCEPT ![c.env] = Stopped(@)]
          /\ Ok(c)
          /\ UNCHANGED <<allocated, dev, volume, picked, label>>
       \/ Err(c, ~Found(c, sidecar), "down")
    /\ Local

RemoveDev(c) ==
    /\ stage[c] \in {"rmDev", "undoRmDev"}
    /\ \/ /\ Found(c, dev)
          /\ dev' = [dev EXCEPT ![c.env] = NoContainer]
          /\ Ok(c)
          /\ UNCHANGED <<allocated, sidecar, volume, picked, label>>
       \/ Err(c, ~Found(c, dev), "rm")
    /\ Local

RemoveSidecar(c) ==
    /\ stage[c] \in {"rmSidecar", "undoRmSidecar"}
    /\ \/ /\ Found(c, sidecar)
          /\ sidecar' = [sidecar EXCEPT ![c.env] = NoContainer]
          /\ Ok(c)
          /\ UNCHANGED <<allocated, dev, volume, picked, label>>
       \/ Err(c, ~Found(c, sidecar), "rm")
    /\ Local

(* Docker refuses to remove a volume a container still mounts. *)
RemoveVolume(c) ==
    /\ stage[c] = "rmVolume"
    /\ LET can == volume[c.env] /\ dev[c.env] = NoContainer IN
       \/ /\ can
          /\ volume' = [volume EXCEPT ![c.env] = FALSE]
          /\ Ok(c)
          /\ UNCHANGED <<allocated, dev, sidecar, picked, label>>
       \/ Err(c, ~can, "rm")
    /\ Local

Release(c) ==
    /\ stage[c] \in {"release", "lateRelease"}
    /\ Alloc!Release(c.env)
    /\ Ok(c)
    /\ UNCHANGED <<dev, sidecar, volume, picked, label>>
    /\ Local

Result == [sendReady |-> "ready", sendError |-> "error",
           sendErrorFirst |-> "error",
           sendStopped |-> "stopped", sendDeleted |-> "deleted"]

Send(c) ==
    /\ stage[c] \in DOMAIN Result
    /\ answer' = [answer EXCEPT ![c] = Result[stage[c]]]
    /\ reported' = [reported EXCEPT ![c.env] = Result[stage[c]]]
    /\ Ok(c)
    /\ UNCHANGED <<allocated, dev, sidecar, volume, picked, label, restarts>>

Handle(c) ==
    \/ InspectDev(c) \/ InspectSidecar(c) \/ Allocate(c)
    \/ CreateSidecar(c) \/ StartSidecar(c) \/ WaitSidecarHealth(c)
    \/ CreateDev(c) \/ StartDev(c) \/ StopDev(c) \/ StopSidecar(c)
    \/ RemoveDev(c) \/ RemoveSidecar(c) \/ RemoveVolume(c)
    \/ Release(c) \/ Send(c)

(* The agent dies with its handlers; containers and volumes stay.  The new
   process starts with a new allocator. *)
Restart ==
    /\ "restart" \in Faults
    /\ restarts < MaxRestarts
    /\ restarts' = restarts + 1
    /\ Alloc!NewGPUAllocator
    /\ stage' = [c \in Commands |-> IF Active(c) THEN "killed" ELSE stage[c]]
    /\ UNCHANGED <<dev, sidecar, volume, picked, label, answer, reported>>

DevExits(e) ==
    /\ "exit" \in Faults
    /\ dev[e].state = "running"
    /\ dev' = [dev EXCEPT ![e].state = "crashed"]
    /\ UNCHANGED <<allocated, sidecar, volume, stage, picked, label>>
    /\ Local

SidecarExits(e) ==
    /\ "exit" \in Faults
    /\ sidecar[e].state = "running"
    /\ sidecar' = [sidecar EXCEPT ![e].state = "crashed"]
    /\ UNCHANGED <<allocated, dev, volume, stage, picked, label>>
    /\ Local

-----------------------------------------------------------------------------
Init ==
    /\ allocated = Alloc!Empty
    /\ dev = [e \in Envs |-> NoContainer]
    /\ sidecar = [e \in Envs |-> NoContainer]
    /\ volume = [e \in Envs |-> FALSE]
    /\ stage = [c \in Commands |-> "waiting"]
    /\ picked = [c \in Commands |-> {}]
    /\ label = [c \in Commands |-> {}]
    /\ answer = [c \in Commands |-> "none"]
    /\ reported = [e \in Envs |-> "none"]
    /\ restarts = 0

Next ==
    \/ \E c \in Commands : Receive(c) \/ Handle(c)
    \/ Restart
    \/ \E e \in Envs : DevExits(e) \/ SidecarExits(e)

Spec == Init /\ [][Next]_vars

(* A handler's calls return: Docker answers, the allocator's mutex is held *)
(* for a few instructions and health polling has a deadline.               *)
FairSpec == Spec /\ \A c \in Commands : WF_vars(Handle(c))

-----------------------------------------------------------------------------
Answers == {"none", "ready", "error", "stopped", "deleted"}

TypeOK ==
    /\ allocated \in [Envs -> SUBSET GPUs]
    /\ dev \in [Envs -> Container]
    /\ sidecar \in [Envs -> Container]
    /\ volume \in [Envs -> BOOLEAN]
    /\ DOMAIN stage = Commands
    /\ \A c \in Commands : stage[c] \in StagesOf(c) \cup Ended
    /\ picked \in [Commands -> SUBSET GPUs]
    /\ label \in [Commands -> SUBSET GPUs]
    /\ answer \in [Commands -> Answers]
    /\ reported \in [Envs -> Answers]
    /\ restarts \in 0..MaxRestarts

(* No handler is working on e. *)
Quiet(e) == \A c \in Commands : c.env = e => ~Active(c)

Running(e) == dev[e].state = "running"

(***************************************************************************)
(* The handlers as EnvHandlers has them, each with one step that counts.   *)
(* A handler of stop or delete is decided once it has stopped the dev      *)
(* container, one of create or start once that runs or the first call has  *)
(* failed.  Until then the dev container counts as it was before, after    *)
(* that as it is going to be.                                              *)
(***************************************************************************)
Decided(c) == IF c.op \in {"stop", "delete"} THEN stage[c] # "stopDev"
              ELSE stage[c] \in DOMAIN Undo \cup {"sendErrorFirst"}

JobOf(c) ==
    CASE stage[c] = "waiting"                 -> "none"
      [] stage[c] \in {"lateRelease", "done"} -> "done"
      [] stage[c] = "killed"                  -> "killed"
      [] OTHER -> IF Decided(c) THEN "reporting" ELSE "running"

ResultOf(c) ==
    LET built == IF stage[c] = "sendReady" THEN "ready" ELSE "error" IN
    CASE JobOf(c) = "done"      -> answer[c]
      [] JobOf(c) = "reporting" -> [create |-> built, start |-> built,
                                    stop |-> "stopped", delete |-> "deleted"][c.op]
      [] OTHER                  -> "none"

(* A start has removed the old container and the new one does not run yet. *)
Replacing(e) ==
    \E c \in Commands : c.env = e /\ c.op = "start"
                         /\ stage[c] \in {"mkDev", "startDev"}

(* A container nobody has seen running, or one about to be removed. *)
Discarded(e) ==
    \E c \in Commands :
        /\ c.env = e
        /\ \/ c.op = "create" /\ stage[c] = "startDev"
           \/ c.op = "delete" /\ stage[c] \in {"stopSidecar", "rmDev"}
           \/ stage[c] = "undoRmDev"

BoxOf(e) == IF Running(e) THEN "running"
            ELSE IF ~Replacing(e) /\ (Discarded(e) \/ dev[e] = NoContainer)
                 THEN "none" ELSE "stopped"

Handlers == INSTANCE EnvHandlers
    WITH Requests <- Commands,
         Faults   <- {"fail"} \cup (Faults \cap {"exit"}),
         box      <- [e \in Envs |-> BoxOf(e)],
         job      <- [c \in Commands |-> JobOf(c)],
         result   <- [c \in Commands |-> ResultOf(c)]

(* Call by call, the handlers do what the control plane's side of the model
   takes for one step: a create that fails leaves no dev container, a start
   that fails leaves the old one or none, a stop or delete reports what it has
   done, and each command is executed once (refinement of EnvHandlers). *)
HandlersSpec == Handlers!Spec

(* The handlers use the allocator only as it promises: whatever they, Docker
   and restarts do, the reservations change by Allocate, Release and
   NewGPUAllocator alone (refinement of GPUAllocator). *)
AllocatorSpec == Alloc!Spec

(* No GPU index is reserved for two environments, however many handlers call
   Allocate and Release and in whatever order. *)
AllocatedDisjoint == Alloc!AllocatedDisjoint

(* Allocate picks what the code's list operations pick, the first of the free
   indices in ascending order, whatever the handlers have left reserved. *)
PicksLowest == Alloc!PicksLowest

(* No GPU leaks: once no handler works on an environment, it has GPUs
   reserved only if its dev container was started and no command has stopped
   it since.  Every path of every handler that gives up releases. *)
NoGPULeak ==
    \A e \in Envs : Quiet(e) /\ allocated[e] # {}
                     => dev[e].state \in {"running", "crashed"}

(* A running dev container uses only GPUs reserved for its environment: the
   comment in HandleStart, "so the dev container and sendReady reflect the
   actual current allocation". *)
RunningIsReserved ==
    \A e \in Envs : Running(e) => dev[e].gpus \subseteq allocated[e]

(* Two running dev containers never share a GPU. *)
GpuExclusive ==
    \A e, f \in Envs : e # f /\ Running(e) /\ Running(f)
                        => dev[e].gpus \cap dev[f].gpus = {}

(* A running dev container has the network of a running sidecar: the order in
   which the handlers stop, remove and start the pair. *)
DevHasNetwork ==
    \A e \in Envs : Running(e) => sidecar[e].state = "running"

(* After EnvReady the dev container runs, on exactly the reserved GPUs; that its
   sidecar runs too is DevHasNetwork. *)
ReadyIsRunning ==
    \A e \in Envs : Quiet(e) /\ reported[e] = "ready"
                     => Running(e) /\ dev[e].gpus = allocated[e]

(* After EnvStopped or EnvError nothing of the environment runs and no GPU is
   reserved for it: the cleanup paths of the handlers are complete. *)
FailedHoldsNothing ==
    \A e \in Envs : Quiet(e) /\ reported[e] \in {"stopped", "error"}
                     => /\ ~Running(e) /\ sidecar[e].state # "running"
                        /\ allocated[e] = {}

(* After EnvDeleted there is no container, no volume and no reservation. *)
DeletedLeavesNothing ==
    \A e \in Envs : Quiet(e) /\ reported[e] = "deleted"
                     => /\ dev[e] = NoContainer /\ sidecar[e] = NoContainer
                        /\ ~volume[e] /\ allocated[e] = {}

(* The labels tell how many GPUs an environment has, which is all HandleStart
   takes from them: what RestoreFromDocker reads for a dev container is as much
   as the container was given, through any number of stops and starts. *)
LabelKeepsCount ==
    LET labelled == {e \in Envs : dev[e] # NoContainer}
        restored == Alloc!RestoreFromDocker([e \in labelled |-> dev[e].label])
    IN  \A e \in labelled :
            Cardinality(restored[e]) = Cardinality(dev[e].gpus)

(* Every command received is answered, unless the agent process dies. *)
EveryCommandAnswered ==
    \A c \in Commands :
        Active(c) ~> (answer[c] # "none" \/ stage[c] = "killed")
=============================================================================
