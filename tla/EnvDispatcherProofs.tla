------------------------ MODULE EnvDispatcherProofs ------------------------
(* Theorems about the agent's command handlers, for any number of environments,
   GPUs and commands, and for every set of faults. *)
EXTENDS EnvDispatcher, FiniteSetTheorems, TLAPS

AllocatorFacts == INSTANCE GPUAllocatorProofs

(***************************************************************************)
(* The stages at which a handler is bound to release the GPUs of its       *)
(* environment or to start the dev container that uses them.               *)
(***************************************************************************)
Owing == {"mkSidecar", "startSidecar", "health", "mkDev", "startDev",
          "rmSidecar", "rmDev", "stopDev", "stopSidecar", "rmVolume",
          "undoRmDev", "undoStopSidecar", "undoRmSidecar",
          "release", "lateRelease", "sendErrorFirst"}

(* Where the tables lead: to a stage of the same handler or to its end, and
   from an owing stage to another one, except by the release itself or by a
   successful start of the dev container. *)
LEMMA Routes ==
  ASSUME NEW c \in Commands, stage[c] \in StagesOf(c)
  PROVE  /\ After(c).ok \in StagesOf(c) \cup Ended
         /\ After(c).err \in StagesOf(c) \cup Ended
         /\ stage[c] \in Owing \ {"release", "lateRelease"}
              => After(c).err \in Owing
         /\ stage[c] \in Owing \ {"release", "lateRelease", "startDev"}
              => After(c).ok \in Owing
         /\ stage[c] = "allocate" => After(c).ok \in Owing
<1>1. CASE c.op = "create"
  BY <1>1 DEF After, StagesOf, Handler, HandleCreate, Undo, Both, Ended, Owing
<1>2. CASE c.op = "start"
  BY <1>2 DEF After, StagesOf, Handler, HandleStart, Undo, Both, Ended, Owing
<1>3. CASE c.op = "stop"
  BY <1>3 DEF After, StagesOf, Handler, HandleStop, Undo, Both, Ended, Owing
<1>4. CASE c.op = "delete"
  BY <1>4 DEF After, StagesOf, Handler, HandleDelete, Undo, Both, Ended, Owing
<1> QED BY <1>1, <1>2, <1>3, <1>4, CommandsAssumption DEF CommandNames

LEMMA StageMoves ==
  ASSUME TypeOK, NEW c \in Commands, stage[c] \in StagesOf(c),
         Goto(c, After(c).ok) \/ Goto(c, After(c).err)
  PROVE  /\ DOMAIN stage' = Commands
         /\ \A d \in Commands : stage'[d] \in StagesOf(d) \cup Ended
<1>1. /\ After(c).ok \in StagesOf(c) \cup Ended
      /\ After(c).err \in StagesOf(c) \cup Ended
  BY Routes
<1> QED BY <1>1 DEF TypeOK, Goto

(* A stage at which some call is made is a stage of the handler. *)
LEMMA CallStage ==
  ASSUME TypeOK, NEW c \in Commands, stage[c] \notin Ended
  PROVE  stage[c] \in StagesOf(c)
BY DEF TypeOK

LEMMA ContainerFacts ==
  /\ NoContainer \in Container
  /\ \A c \in Commands : \A g, l \in SUBSET GPUs :
        NewContainer(c, g, l) \in Container
  /\ \A k \in Container : Stopped(k) \in Container
  /\ \A k \in Container : \A s \in States :
        [k EXCEPT !.state = s] \in Container
BY DEF NoContainer, Container, NewContainer, Stopped, States

(* The steps that only move one stage and touch at most a container box. *)
LEMMA BoxUpdate ==
  ASSUME NEW box \in [Envs -> Container], NEW e \in Envs
  PROVE  /\ [box EXCEPT ![e] = NoContainer] \in [Envs -> Container]
         /\ [box EXCEPT ![e] = Stopped(@)] \in [Envs -> Container]
         /\ \A s \in States : [box EXCEPT ![e].state = s] \in [Envs -> Container]
         /\ \A k \in Container : [box EXCEPT ![e] = k] \in [Envs -> Container]
<1>1. box[e] \in Container
  OBVIOUS
<1>2. /\ NoContainer \in Container
      /\ Stopped(box[e]) \in Container
      /\ \A s \in States : [box[e] EXCEPT !.state = s] \in Container
  BY <1>1, ContainerFacts
<1> QED BY <1>2

LEMMA TypeInductive == TypeOK /\ [Next]_vars => TypeOK'
<1> SUFFICES ASSUME TypeOK, [Next]_vars
             PROVE  TypeOK'
  OBVIOUS
<1> USE CommandsAssumption
<1>1. ASSUME NEW c \in Commands, Receive(c)
      PROVE  TypeOK'
  BY <1>1, StageMoves, CallStage DEF Receive, Ok, Local, TypeOK, Ended
<1>2. ASSUME NEW c \in Commands, InspectDev(c)
      PROVE  TypeOK'
  BY <1>2, StageMoves, CallStage
     DEF InspectDev, Ok, Err, Local, TypeOK, Ended, Container
<1>3. ASSUME NEW c \in Commands, InspectSidecar(c)
      PROVE  TypeOK'
  BY <1>3, StageMoves, CallStage
     DEF InspectSidecar, Ok, Err, Local, TypeOK, Ended
<1>4. ASSUME NEW c \in Commands, Allocate(c)
      PROVE  TypeOK'
  <2>1. Alloc!LowestFree(Wanted(c)) \subseteq GPUs
    BY DEF Alloc!LowestFree, Alloc!Free
  <2>2. /\ allocated' \in [Envs -> SUBSET GPUs]
        /\ picked' \in [Commands -> SUBSET GPUs]
    BY <1>4, <2>1 DEF Allocate, Alloc!Allocate, TypeOK
  <2> QED BY <1>4, <2>2, StageMoves, CallStage
          DEF Allocate, Ok, Local, TypeOK, Ended
<1>5. ASSUME NEW c \in Commands, CreateSidecar(c)
      PROVE  TypeOK'
  <2>1. NewContainer(c, {}, {}) \in Container
    BY ContainerFacts
  <2>2. sidecar' \in [Envs -> Container]
    BY <1>5, <2>1, BoxUpdate DEF CreateSidecar, Err, TypeOK
  <2> QED BY <1>5, <2>2, StageMoves, CallStage
          DEF CreateSidecar, Ok, Err, Local, TypeOK, Ended
<1>6. ASSUME NEW c \in Commands, StartSidecar(c)
      PROVE  TypeOK'
  <2>1. [sidecar EXCEPT ![c.env].state = "running"] \in [Envs -> Container]
    BY BoxUpdate DEF TypeOK, States
  <2>2. sidecar' \in [Envs -> Container]
    BY <1>6, <2>1 DEF StartSidecar, Err, TypeOK
  <2> QED BY <1>6, <2>2, StageMoves, CallStage
          DEF StartSidecar, Ok, Err, Local, TypeOK, Ended
<1>7. ASSUME NEW c \in Commands, WaitSidecarHealth(c)
      PROVE  TypeOK'
  BY <1>7, StageMoves, CallStage
     DEF WaitSidecarHealth, Ok, Err, Local, TypeOK, Ended
<1>8. ASSUME NEW c \in Commands, CreateDev(c)
      PROVE  TypeOK'
  <2>1. NewContainer(c, picked[c], IF c.op = "start" THEN label[c]
                                   ELSE picked[c]) \in Container
    BY ContainerFacts DEF TypeOK
  <2>2. dev' \in [Envs -> Container]
    BY <1>8, <2>1, BoxUpdate DEF CreateDev, Err, TypeOK
  <2>3. volume' \in [Envs -> BOOLEAN]
    BY <1>8, Zenon DEF CreateDev, Err, TypeOK
  <2> QED BY <1>8, <2>2, <2>3, StageMoves, CallStage
          DEF CreateDev, Ok, Err, Local, TypeOK, Ended
<1>9. ASSUME NEW c \in Commands, StartDev(c)
      PROVE  TypeOK'
  <2>1. [dev EXCEPT ![c.env].state = "running"] \in [Envs -> Container]
    BY BoxUpdate DEF TypeOK, States
  <2>2. dev' \in [Envs -> Container]
    BY <1>9, <2>1 DEF StartDev, Err, TypeOK
  <2> QED BY <1>9, <2>2, StageMoves, CallStage
          DEF StartDev, Ok, Err, Local, TypeOK, Ended
<1>10. ASSUME NEW c \in Commands, StopDev(c)
       PROVE  TypeOK'
  <2>1. dev' \in [Envs -> Container]
    BY <1>10, BoxUpdate DEF StopDev, Err, TypeOK
  <2> QED BY <1>10, <2>1, StageMoves, CallStage
          DEF StopDev, Ok, Err, Local, TypeOK, Ended
<1>11. ASSUME NEW c \in Commands, StopSidecar(c)
       PROVE  TypeOK'
  <2>1. sidecar' \in [Envs -> Container]
    BY <1>11, BoxUpdate DEF StopSidecar, Err, TypeOK
  <2> QED BY <1>11, <2>1, StageMoves, CallStage
          DEF StopSidecar, Ok, Err, Local, TypeOK, Ended
<1>12. ASSUME NEW c \in Commands, RemoveDev(c)
       PROVE  TypeOK'
  <2>1. dev' \in [Envs -> Container]
    BY <1>12, BoxUpdate DEF RemoveDev, Err, TypeOK
  <2> QED BY <1>12, <2>1, StageMoves, CallStage
          DEF RemoveDev, Ok, Err, Local, TypeOK, Ended
<1>13. ASSUME NEW c \in Commands, RemoveSidecar(c)
       PROVE  TypeOK'
  <2>1. sidecar' \in [Envs -> Container]
    BY <1>13, BoxUpdate DEF RemoveSidecar, Err, TypeOK
  <2> QED BY <1>13, <2>1, StageMoves, CallStage
          DEF RemoveSidecar, Ok, Err, Local, TypeOK, Ended
<1>14. ASSUME NEW c \in Commands, RemoveVolume(c)
       PROVE  TypeOK'
  <2>1. volume' \in [Envs -> BOOLEAN]
    BY <1>14, Zenon DEF RemoveVolume, Err, TypeOK
  <2> QED BY <1>14, <2>1, StageMoves, CallStage
          DEF RemoveVolume, Ok, Err, Local, TypeOK, Ended
<1>15. ASSUME NEW c \in Commands, Release(c)
       PROVE  TypeOK'
  BY <1>15, StageMoves, CallStage
     DEF Release, Alloc!Release, Ok, Local, TypeOK, Ended
<1>16. ASSUME NEW c \in Commands, Send(c)
       PROVE  TypeOK'
  <2>1. /\ stage[c] \notin Ended
        /\ Result[stage[c]] \in Answers
    BY <1>16 DEF Send, Result, Answers, Ended
  <2>2. /\ answer' \in [Commands -> Answers]
        /\ reported' \in [Envs -> Answers]
    BY <1>16, <2>1 DEF Send, TypeOK
  <2> QED BY <1>16, <2>1, <2>2, StageMoves, CallStage DEF Send, Ok, TypeOK
<1>17. CASE Restart
  <2>1. restarts' \in 0..MaxRestarts
    BY <1>17, MaxRestartsAssumption DEF Restart, TypeOK
  <2>2. /\ DOMAIN stage' = Commands
        /\ \A c \in Commands : stage'[c] \in StagesOf(c) \cup Ended
    BY <1>17 DEF Restart, TypeOK, Ended
  <2>3. allocated' \in [Envs -> SUBSET GPUs]
    BY <1>17 DEF Restart, Alloc!NewGPUAllocator, Alloc!Empty
  <2> QED BY <1>17, <2>1, <2>2, <2>3 DEF Restart, TypeOK
<1>18. ASSUME NEW e \in Envs, DevExits(e)
       PROVE  TypeOK'
  <2>1. dev' \in [Envs -> Container]
    BY <1>18, BoxUpdate DEF DevExits, TypeOK, States
  <2> QED BY <1>18, <2>1 DEF DevExits, Local, TypeOK
<1>19. ASSUME NEW e \in Envs, SidecarExits(e)
       PROVE  TypeOK'
  <2>1. sidecar' \in [Envs -> Container]
    BY <1>19, BoxUpdate DEF SidecarExits, TypeOK, States
  <2> QED BY <1>19, <2>1 DEF SidecarExits, Local, TypeOK
<1>20. CASE UNCHANGED vars
  BY <1>20 DEF vars, TypeOK
<1> QED
  BY <1>1, <1>2, <1>3, <1>4, <1>5, <1>6, <1>7, <1>8, <1>9, <1>10, <1>11,
     <1>12, <1>13, <1>14, <1>15, <1>16, <1>17, <1>18, <1>19, <1>20
     DEF Next, Handle

(* The state of the handlers, the containers and the reservations stays within
   its declared types, and a handler within its own table (dispatcher.go). *)
THEOREM TypeCorrect == Spec => []TypeOK
<1>1. Init => TypeOK
  <2> SUFFICES ASSUME Init
               PROVE  TypeOK
    OBVIOUS
  <2>1. /\ allocated \in [Envs -> SUBSET GPUs]
        /\ dev \in [Envs -> Container]
        /\ sidecar \in [Envs -> Container]
    BY ContainerFacts DEF Init, Alloc!Empty
  <2>2. /\ DOMAIN stage = Commands
        /\ \A c \in Commands : stage[c] = "waiting"
    BY DEF Init
  <2>3. \A c \in Commands : "waiting" \in StagesOf(c)
    BY CommandsAssumption
       DEF CommandNames, StagesOf, Handler, HandleCreate, HandleStart,
           HandleStop, HandleDelete
  <2>4. volume \in [Envs -> BOOLEAN]
    BY Zenon DEF Init
  <2>5. restarts \in 0..MaxRestarts
    BY MaxRestartsAssumption DEF Init
  <2> QED BY <2>1, <2>2, <2>3, <2>4, <2>5 DEF Init, TypeOK, Answers
<1> QED BY <1>1, TypeInductive, PTL DEF Spec

-----------------------------------------------------------------------------
(* The handlers implement the allocator's specification. *)

LEMMA AllocatorStep ==
  ASSUME TypeOK, [Next]_vars
  PROVE  [Alloc!Next]_allocated
<1> USE CommandsAssumption
<1>1. ASSUME NEW c \in Commands, Allocate(c)
      PROVE  [Alloc!Next]_allocated
  <2>1. Wanted(c) \in Counts
    BY LabelsAssumption, CountsAssumption DEF Wanted, TypeOK
  <2>2. Alloc!Allocate(c.env, Wanted(c)) \/ UNCHANGED allocated
    BY <1>1 DEF Allocate
  <2> QED BY <2>1, <2>2 DEF Alloc!Next
<1>2. ASSUME NEW c \in Commands, Release(c)
      PROVE  [Alloc!Next]_allocated
  BY <1>2 DEF Release, Alloc!Next
<1>3. CASE Restart
  BY <1>3 DEF Restart, Alloc!Next
<1>4. ASSUME NEW c \in Commands,
             \/ Receive(c) \/ InspectDev(c) \/ InspectSidecar(c)
             \/ CreateSidecar(c) \/ StartSidecar(c) \/ WaitSidecarHealth(c)
             \/ CreateDev(c) \/ StartDev(c) \/ StopDev(c) \/ StopSidecar(c)
             \/ RemoveDev(c) \/ RemoveSidecar(c) \/ RemoveVolume(c) \/ Send(c)
      PROVE  UNCHANGED allocated
  BY <1>4 DEF Receive, InspectDev, InspectSidecar, CreateSidecar, StartSidecar,
              WaitSidecarHealth, CreateDev, StartDev, StopDev, StopSidecar,
              RemoveDev, RemoveSidecar, RemoveVolume, Send, Err
<1>5. ASSUME NEW e \in Envs, DevExits(e) \/ SidecarExits(e)
      PROVE  UNCHANGED allocated
  BY <1>5 DEF DevExits, SidecarExits
<1>6. CASE UNCHANGED vars
  BY <1>6 DEF vars
<1> QED BY <1>1, <1>2, <1>3, <1>4, <1>5, <1>6 DEF Next, Handle

(* Handlers, restarts and Docker failures in any interleaving use the
   reservations only through Allocate, Release and a new allocator. *)
THEOREM ImplementsAllocator == Spec => AllocatorSpec
<1>1. Init => Alloc!Init
  BY DEF Init, Alloc!Init
<1>2. TypeOK /\ [Next]_vars => [Alloc!Next]_allocated
  BY AllocatorStep
<1> QED BY <1>1, <1>2, TypeCorrect, PTL DEF Spec, AllocatorSpec, Alloc!Spec

(* Every step keeps the reservations disjoint, because it is a step of the
   allocator and Allocate takes only what nobody holds. *)
LEMMA DisjointStep ==
  ASSUME TypeOK, AllocatedDisjoint, [Next]_vars
  PROVE  AllocatedDisjoint'
<1> USE DEF AllocatedDisjoint, Alloc!AllocatedDisjoint, TypeOK
<1>1. [Alloc!Next]_allocated
  BY AllocatorStep
<1>2. ASSUME NEW e \in Envs, NEW n \in Counts, Alloc!Allocate(e, n)
      PROVE  AllocatedDisjoint'
  <2>1. \A f \in Envs : Alloc!LowestFree(n) \cap allocated[f] = {}
    BY DEF Alloc!LowestFree, Alloc!Free, Alloc!Used
  <2>2. allocated' = [allocated EXCEPT ![e] = Alloc!LowestFree(n)]
    BY <1>2 DEF Alloc!Allocate
  <2> QED BY <2>1, <2>2
<1>3. ASSUME NEW e \in Envs, Alloc!Release(e)
      PROVE  AllocatedDisjoint'
  BY <1>3 DEF Alloc!Release
<1>4. CASE Alloc!NewGPUAllocator
  BY <1>4 DEF Alloc!NewGPUAllocator, Alloc!Empty
<1>5. CASE UNCHANGED allocated
  BY <1>5
<1> QED BY <1>1, <1>2, <1>3, <1>4, <1>5 DEF Alloc!Next

(* No GPU index is ever reserved for two environments, whatever handlers,
   Docker and restarts do (GPUAllocator as the handlers use it). *)
THEOREM ReservationsDisjoint == Spec => []AllocatedDisjoint
<1>1. Init => AllocatedDisjoint
  BY DEF Init, Alloc!Empty, AllocatedDisjoint, Alloc!AllocatedDisjoint
<1>2. TypeOK /\ AllocatedDisjoint /\ [Next]_vars => AllocatedDisjoint'
  BY DisjointStep
<1> QED BY <1>1, <1>2, TypeCorrect, PTL DEF Spec

(* What the allocator is for: as long as running dev containers use only GPUs
   reserved for their environments, no two of them share one. *)
THEOREM ReservedIsExclusive == Spec => [](RunningIsReserved => GpuExclusive)
<1>1. AllocatedDisjoint => (RunningIsReserved => GpuExclusive)
  BY DEF AllocatedDisjoint, Alloc!AllocatedDisjoint, RunningIsReserved, GpuExclusive
<1> QED BY <1>1, ReservationsDisjoint, PTL

-----------------------------------------------------------------------------
(***************************************************************************)
(* No GPU leaks.  The invariant of the runs says nothing while a handler   *)
(* works; the inductive one says who is going to release: reserved GPUs    *)
(* belong to a dev container that was started, or some handler of the      *)
(* environment is at an owing stage.                                       *)
(***************************************************************************)
Accounted(e) == \/ allocated[e] = {}
                \/ dev[e].state \in {"running", "crashed"}
                \/ \E c \in Commands : c.env = e /\ stage[c] \in Owing

LeakInv == \A e \in Envs : Accounted(e)

(* A step of c that leaves reservations and dev containers alone, or that
   starts at an owing stage, keeps the account as long as it does not leave
   the owing stages. *)
LEMMA OwingMove ==
  ASSUME TypeOK, LeakInv, NEW c \in Commands, NEW s, Goto(c, s),
         UNCHANGED allocated,
         stage[c] \in Owing => s \in Owing,
         UNCHANGED dev \/ (stage[c] \in Owing
                           /\ \A e \in Envs \ {c.env} : dev'[e] = dev[e])
  PROVE  LeakInv'
<1> SUFFICES ASSUME NEW e \in Envs
             PROVE  Accounted(e)'
  BY DEF LeakInv
<1>1. stage' = [stage EXCEPT ![c] = s] /\ DOMAIN stage = Commands
  BY DEF Goto, TypeOK
<1>2. CASE \E d \in Commands : d.env = e /\ stage[d] \in Owing
  BY <1>1, <1>2 DEF Accounted
<1>3. CASE ~\E d \in Commands : d.env = e /\ stage[d] \in Owing
  <2>1. dev'[e] = dev[e]
    BY <1>3
  <2> QED BY <1>3, <2>1 DEF LeakInv, Accounted
<1> QED BY <1>2, <1>3

LEMMA LeakInductive == TypeOK /\ LeakInv /\ [Next]_vars => LeakInv'
<1> SUFFICES ASSUME TypeOK, LeakInv, [Next]_vars
             PROVE  LeakInv'
  OBVIOUS
<1> USE CommandsAssumption
<1>1. ASSUME NEW c \in Commands,
             \/ Receive(c) \/ InspectDev(c) \/ InspectSidecar(c)
             \/ CreateSidecar(c) \/ StartSidecar(c) \/ WaitSidecarHealth(c)
             \/ CreateDev(c) \/ StopDev(c) \/ StopSidecar(c)
             \/ RemoveDev(c) \/ RemoveSidecar(c) \/ RemoveVolume(c) \/ Send(c)
      PROVE  LeakInv'
  <2>1. stage[c] \in StagesOf(c) /\ stage[c] \notin {"release", "lateRelease",
                                                    "startDev"}
    BY <1>1, CallStage
       DEF Receive, InspectDev, InspectSidecar, CreateSidecar, StartSidecar,
           WaitSidecarHealth, CreateDev, StopDev, StopSidecar, RemoveDev,
           RemoveSidecar, RemoveVolume, Send, Result, Ended
  <2>2. stage[c] \in Owing => After(c).ok \in Owing /\ After(c).err \in Owing
    BY <2>1, Routes
  <2>3. UNCHANGED allocated
    BY <1>1 DEF Receive, InspectDev, InspectSidecar, CreateSidecar,
                StartSidecar, WaitSidecarHealth, CreateDev, StopDev,
                StopSidecar, RemoveDev, RemoveSidecar, RemoveVolume, Send, Err
  <2>4. Goto(c, After(c).ok) \/ Goto(c, After(c).err)
    BY <1>1 DEF Receive, InspectDev, InspectSidecar, CreateSidecar,
                StartSidecar, WaitSidecarHealth, CreateDev, StopDev,
                StopSidecar, RemoveDev, RemoveSidecar, RemoveVolume, Send,
                Ok, Err
  <2>5. \/ UNCHANGED dev
        \/ CreateDev(c) \/ StopDev(c) \/ RemoveDev(c)
    BY <1>1 DEF Receive, InspectDev, InspectSidecar, CreateSidecar,
                StartSidecar, WaitSidecarHealth, StopSidecar, RemoveSidecar,
                RemoveVolume, Send, Err
  <2>6. CreateDev(c) \/ StopDev(c) \/ RemoveDev(c)
          => stage[c] \in Owing /\ \A e \in Envs \ {c.env} : dev'[e] = dev[e]
    BY DEF CreateDev, StopDev, RemoveDev, Err, Owing, TypeOK
  <2> QED BY <2>2, <2>3, <2>4, <2>5, <2>6, OwingMove
<1>2. ASSUME NEW c \in Commands, Allocate(c)
      PROVE  LeakInv'
  <2>1. stage[c] = "allocate" /\ stage[c] \in StagesOf(c)
    BY <1>2, CallStage DEF Allocate, Ended
  <2>2. After(c).ok \in Owing /\ stage[c] \notin Owing
    BY <2>1, Routes DEF Owing
  <2>3. CASE Goto(c, After(c).ok)
    <3>1. stage'[c] \in Owing /\ UNCHANGED dev
      BY <1>2, <2>2, <2>3 DEF Goto, Allocate, TypeOK
    <3>2. \A e \in Envs \ {c.env} : allocated'[e] = allocated[e]
      BY <1>2 DEF Allocate, Alloc!Allocate, TypeOK
    <3>3. \A d \in Commands : d # c => stage'[d] = stage[d]
      BY <2>3 DEF Goto, TypeOK
    <3> QED BY <2>2, <3>1, <3>2, <3>3 DEF LeakInv, Accounted
  <2>4. CASE UNCHANGED allocated /\ Goto(c, After(c).err)
    BY <1>2, <2>2, <2>4, OwingMove DEF Allocate
  <2> QED BY <1>2, <2>3, <2>4 DEF Allocate, Ok
<1>3. ASSUME NEW c \in Commands, StartDev(c)
      PROVE  LeakInv'
  <2>1. /\ stage[c] = "startDev" /\ stage[c] \in StagesOf(c)
        /\ stage[c] \in Owing /\ UNCHANGED allocated
    BY <1>3, CallStage DEF StartDev, Err, Ended, Owing
  <2>2. CASE dev' = [dev EXCEPT ![c.env].state = "running"] /\ Ok(c)
    <3>1. dev'[c.env].state = "running"
      BY <2>2 DEF TypeOK, Container
    <3>2. \A e \in Envs \ {c.env} : dev'[e] = dev[e]
      BY <2>2 DEF TypeOK
    <3>3. \A d \in Commands : d # c => stage'[d] = stage[d]
      BY <2>2 DEF Ok, Goto, TypeOK
    <3> QED BY <2>1, <3>1, <3>2, <3>3 DEF LeakInv, Accounted
  <2>3. CASE Goto(c, After(c).err) /\ UNCHANGED dev
    BY <2>1, <2>3, Routes, OwingMove
  <2> QED BY <1>3, <2>2, <2>3 DEF StartDev, Err
<1>4. ASSUME NEW c \in Commands, Release(c)
      PROVE  LeakInv'
  <2>1. /\ allocated'[c.env] = {} /\ UNCHANGED dev
        /\ \A e \in Envs \ {c.env} : allocated'[e] = allocated[e]
        /\ \A d \in Commands : d # c => stage'[d] = stage[d]
    BY <1>4 DEF Release, Alloc!Release, Ok, Goto, TypeOK
  <2> QED BY <2>1 DEF LeakInv, Accounted
<1>5. CASE Restart
  BY <1>5 DEF Restart, Alloc!NewGPUAllocator, Alloc!Empty, LeakInv, Accounted
<1>6. ASSUME NEW e \in Envs, DevExits(e)
      PROVE  LeakInv'
  <2>1. /\ dev'[e].state = "crashed"
        /\ \A f \in Envs \ {e} : dev'[f] = dev[f]
        /\ UNCHANGED <<allocated, stage>>
    BY <1>6 DEF DevExits, TypeOK, Container
  <2> QED BY <2>1 DEF LeakInv, Accounted
<1>7. ASSUME NEW e \in Envs, SidecarExits(e)
      PROVE  LeakInv'
  BY <1>7 DEF SidecarExits, LeakInv, Accounted
<1>8. CASE UNCHANGED vars
  BY <1>8 DEF vars, LeakInv, Accounted
<1> QED BY <1>1, <1>2, <1>3, <1>4, <1>5, <1>6, <1>7, <1>8 DEF Next, Handle

(* No path of any handler forgets to release, whatever the others, Docker and
   restarts do meanwhile: without a handler at work, GPUs are reserved only
   for a dev container that was started and not stopped by a command. *)
THEOREM GPUsNeverLeak == Spec => []NoGPULeak
<1>1. Init => LeakInv
  BY DEF Init, Alloc!Empty, LeakInv, Accounted
<1>2. TypeOK /\ LeakInv => NoGPULeak
  BY DEF LeakInv, Accounted, NoGPULeak, Quiet, Active, Owing, Ended
<1> QED BY <1>1, <1>2, LeakInductive, TypeCorrect, PTL DEF Spec
-----------------------------------------------------------------------------
(***************************************************************************)
(* The labels keep the count.  A dev container has as many GPUs as its     *)
(* label lists; that it stays so through HandleStart needs what the        *)
(* handler holds between its calls: nothing picked while it still reads,   *)
(* and as many picked as its label lists from Allocate to CreateDev.       *)
(***************************************************************************)
Reading == {"waiting", "inspectDev", "inspectSidecar", "allocate"}

Carrying == {"rmSidecar", "mkSidecar", "startSidecar", "health", "rmDev",
             "mkDev"}

Carried(c) == c.op = "start" =>
    /\ stage[c] \in Reading => picked[c] = {}
    /\ stage[c] \in Carrying => Cardinality(picked[c]) = Cardinality(label[c])

LabelInv ==
    /\ \A e \in Envs : Cardinality(dev[e].label) = Cardinality(dev[e].gpus)
    /\ \A c \in Commands : Carried(c)

(* GPUAllocator is instantiated twice, as a component and for its theorems;
   the two copies of the finite-set operators are the ordinary ones. *)
LEMMA SameFiniteSets ==
  /\ \A S : Alloc!Cardinality(S) = Cardinality(S)
  /\ \A S : AllocatorFacts!Cardinality(S) = Cardinality(S)
  /\ \A S : AllocatorFacts!IsFiniteSet(S) <=> IsFiniteSet(S)
<1>1. \A S : Alloc!Cardinality(S) = Cardinality(S)
  BY DEF Cardinality, Alloc!Cardinality
<1>2. \A S : AllocatorFacts!Cardinality(S) = Cardinality(S)
  BY DEF Cardinality, AllocatorFacts!Cardinality
<1>3. \A S : AllocatorFacts!IsFiniteSet(S) <=> IsFiniteSet(S)
  BY DEF IsFiniteSet, AllocatorFacts!IsFiniteSet
<1> QED BY <1>1, <1>2, <1>3

LEMMA SameLowest ==
  /\ Alloc!Free = AllocatorFacts!Free
  /\ \A n : Alloc!LowestFree(n) = AllocatorFacts!LowestFree(n)
<1>1. Alloc!Free = AllocatorFacts!Free
  BY DEF Alloc!Free, AllocatorFacts!Free, Alloc!Used, AllocatorFacts!Used
<1>2. \A S : Alloc!Cardinality(S) = AllocatorFacts!Cardinality(S)
  BY SameFiniteSets
<1>3. ASSUME NEW n, NEW g
      PROVE  g \in Alloc!LowestFree(n) <=> g \in AllocatorFacts!LowestFree(n)
  BY <1>1, <1>2 DEF Alloc!LowestFree, AllocatorFacts!LowestFree
<1>4. ASSUME NEW n
      PROVE  Alloc!LowestFree(n) = AllocatorFacts!LowestFree(n)
  BY <1>3
<1> QED BY <1>1, <1>4

(* Whatever handlers, Docker and restarts have done to the reservations, the
   indices Allocate picks are the first n of the free ones in ascending order,
   free[:count] (allocator.go). *)
THEOREM HandlersPickLowest == Spec => []PicksLowest
<1>1. TypeOK => PicksLowest
  <2> SUFFICES ASSUME TypeOK
               PROVE  PicksLowest
    OBVIOUS
  <2>1. AllocatorFacts!PicksLowest
    BY AllocatorFacts!LowestAreFirst, SameFiniteSets, GPUsAssumption, CountsAssumption
    DEF TypeOK, AllocatorFacts!TypeOK
  <2>2. Alloc!Cardinality(Alloc!Free) = AllocatorFacts!Cardinality(AllocatorFacts!Free)
    BY SameLowest, SameFiniteSets
  <2> QED BY <2>1, <2>2, SameLowest
          DEF PicksLowest, Alloc!PicksLowest, AllocatorFacts!PicksLowest
<1> QED BY <1>1, TypeCorrect, PTL

LEMMA AllocateCounts ==
  ASSUME TypeOK, NEW e \in Envs, NEW n \in Counts, Alloc!Allocate(e, n)
  PROVE  Cardinality(allocated'[e]) = n
<1>1. Alloc!LowestFree(n) = AllocatorFacts!LowestFree(n)
  BY SameLowest
<1>2. Alloc!Insufficient(n) <=> AllocatorFacts!Insufficient(n)
  BY SameFiniteSets DEF Alloc!Insufficient, AllocatorFacts!Insufficient,
    Alloc!Free, AllocatorFacts!Free, Alloc!Used, AllocatorFacts!Used
<1>3. AllocatorFacts!Allocate(e, n)
  BY <1>1, <1>2 DEF Alloc!Allocate, AllocatorFacts!Allocate
<1> QED BY <1>3, SameFiniteSets, AllocatorFacts!GrantsWhatIsAsked, GPUsAssumption,
           CountsAssumption DEF TypeOK, AllocatorFacts!TypeOK

(* The way of HandleStart through the two groups of stages. *)
LEMMA StartRoutes ==
  ASSUME NEW c \in Commands, stage[c] \in StagesOf(c), c.op = "start"
  PROVE  /\ After(c).ok \in Reading => stage[c] \in Reading
         /\ After(c).err \in Reading => stage[c] \in Reading
         /\ After(c).ok \in Carrying => stage[c] \in Carrying \cup {"allocate"}
         /\ After(c).err \notin Carrying
         /\ stage[c] \in {"inspectDev", "allocate"} => After(c).err = "sendError"
         /\ stage[c] = "inspectDev" => After(c).ok = "inspectSidecar"
         /\ stage[c] = "allocate" => After(c).ok = "rmSidecar"
BY DEF After, StagesOf, Handler, HandleStart, Undo, Both, Reading, Carrying

(* A step that leaves what every handler holds alone and that is not the
   allocation keeps the groups in order. *)
LEMMA CarriedMove ==
  ASSUME TypeOK, LabelInv, NEW c \in Commands, stage[c] \in StagesOf(c),
         stage[c] # "allocate", Goto(c, After(c).ok) \/ Goto(c, After(c).err),
         UNCHANGED <<picked, label>>
  PROVE  \A d \in Commands : Carried(d)'
<1> SUFFICES ASSUME NEW d \in Commands
             PROVE  Carried(d)'
  OBVIOUS
<1>1. CASE d # c
  BY <1>1 DEF Goto, TypeOK, LabelInv, Carried
<1>2. CASE d = c /\ c.op = "start"
  <2>1. stage'[c] = After(c).ok \/ stage'[c] = After(c).err
    BY DEF Goto, TypeOK
  <2> QED BY <1>2, <2>1, StartRoutes DEF LabelInv, Carried
<1>3. CASE d = c /\ c.op # "start"
  BY <1>3 DEF Carried
<1> QED BY <1>1, <1>2, <1>3

LEMMA LabelInductive == TypeOK /\ LabelInv /\ [Next]_vars => LabelInv'
<1> SUFFICES ASSUME TypeOK, LabelInv, [Next]_vars
             PROVE  LabelInv'
  OBVIOUS
<1> USE CommandsAssumption
<1>1. ASSUME NEW c \in Commands,
             \/ Receive(c) \/ InspectSidecar(c) \/ CreateSidecar(c)
             \/ StartSidecar(c) \/ WaitSidecarHealth(c) \/ StartDev(c)
             \/ StopDev(c) \/ StopSidecar(c) \/ RemoveDev(c)
             \/ RemoveSidecar(c) \/ RemoveVolume(c) \/ Release(c) \/ Send(c)
      PROVE  LabelInv'
  <2>1. stage[c] \in StagesOf(c) /\ stage[c] # "allocate"
    BY <1>1, CallStage
       DEF Receive, InspectSidecar, CreateSidecar, StartSidecar,
           WaitSidecarHealth, StartDev, StopDev, StopSidecar, RemoveDev,
           RemoveSidecar, RemoveVolume, Release, Send, Result, Ended
  <2>2. /\ Goto(c, After(c).ok) \/ Goto(c, After(c).err)
        /\ UNCHANGED <<picked, label>>
    BY <1>1 DEF Receive, InspectSidecar, CreateSidecar, StartSidecar,
                WaitSidecarHealth, StartDev, StopDev, StopSidecar, RemoveDev,
                RemoveSidecar, RemoveVolume, Release, Send, Ok, Err
  <2>3. \/ UNCHANGED dev
        \/ dev' = [dev EXCEPT ![c.env].state = "running"]
        \/ dev' = [dev EXCEPT ![c.env] = Stopped(@)]
        \/ dev' = [dev EXCEPT ![c.env] = NoContainer]
    BY <1>1 DEF Receive, InspectSidecar, CreateSidecar, StartSidecar,
                WaitSidecarHealth, StartDev, StopDev, StopSidecar, RemoveDev,
                RemoveSidecar, RemoveVolume, Release, Send, Err
  <2>4. \A e \in Envs : Cardinality(dev'[e].label) = Cardinality(dev'[e].gpus)
    <3> SUFFICES ASSUME NEW e \in Envs
                 PROVE  \/ /\ dev'[e].label = dev[e].label
                           /\ dev'[e].gpus = dev[e].gpus
                        \/ dev'[e].label = {} /\ dev'[e].gpus = {}
      BY DEF LabelInv
    <3>1. CASE dev'[e] = dev[e]
      BY <3>1
    <3>2. CASE e = c.env /\ dev'[e] # dev[e]
      BY <2>3, <3>2 DEF TypeOK, Container, NoContainer, Stopped
    <3> QED BY <2>3, <3>1, <3>2 DEF TypeOK
  <2> QED BY <2>1, <2>2, <2>4, CarriedMove DEF LabelInv
<1>2. ASSUME NEW c \in Commands, InspectDev(c)
      PROVE  LabelInv'
  <2>1. stage[c] = "inspectDev" /\ stage[c] \in StagesOf(c) /\ UNCHANGED dev
    BY <1>2, CallStage DEF InspectDev, Err, Ended
  <2>2. CASE Err(c, ~Found(c, dev), "inspect")
    BY <2>1, <2>2, CarriedMove DEF Err, LabelInv
  <2>3. CASE Ok(c) /\ label' = [label EXCEPT ![c] = dev[c.env].label]
             /\ UNCHANGED picked
    <3>1. \A d \in Commands \ {c} : Carried(d)'
      BY <2>3 DEF Ok, Goto, TypeOK, LabelInv, Carried
    <3>2. c.op = "start" => stage'[c] = "inspectSidecar" /\ picked'[c] = {}
      BY <2>1, <2>3, StartRoutes DEF Ok, Goto, TypeOK, LabelInv, Carried, Reading
    <3>3. Carried(c)'
      BY <3>2 DEF Carried, Carrying
    <3> QED BY <2>1, <3>1, <3>3 DEF LabelInv
  <2> QED BY <1>2, <2>2, <2>3 DEF InspectDev
<1>3. ASSUME NEW c \in Commands, Allocate(c)
      PROVE  LabelInv'
  <2>1. stage[c] = "allocate" /\ stage[c] \in StagesOf(c)
        /\ UNCHANGED <<dev, label>>
    BY <1>3, CallStage DEF Allocate, Ended
  <2>2. \A d \in Commands \ {c} : Carried(d)'
    BY <1>3 DEF Allocate, Ok, Goto, TypeOK, LabelInv, Carried
  <2>3. Carried(c)'
    <3> SUFFICES ASSUME c.op = "start"
                 PROVE  Carried(c)'
      BY DEF Carried
    <3>1. CASE Goto(c, After(c).err)
      BY <2>1, <3>1, StartRoutes DEF Goto, TypeOK, Carried, Reading, Carrying
    <3>2. CASE label[c] = {} /\ Ok(c) /\ UNCHANGED picked
      BY <2>1, <3>2, StartRoutes
         DEF Ok, Goto, TypeOK, LabelInv, Carried, Reading, Carrying
    <3>3. CASE /\ Alloc!Allocate(c.env, Wanted(c)) /\ Ok(c)
               /\ picked' = [picked EXCEPT ![c] = allocated'[c.env]]
      <4>1. Wanted(c) = Cardinality(label[c]) /\ Wanted(c) \in Counts
        BY LabelsAssumption, CountsAssumption DEF Wanted, TypeOK
      <4>2. Cardinality(allocated'[c.env]) = Cardinality(label[c])
        BY <3>3, <4>1, AllocateCounts
      <4>3. stage'[c] = "rmSidecar" /\ picked'[c] = allocated'[c.env]
        BY <2>1, <3>3, StartRoutes DEF Ok, Goto, TypeOK
      <4> QED BY <2>1, <4>2, <4>3 DEF Carried, Reading
    <3> QED BY <1>3, <3>1, <3>2, <3>3 DEF Allocate
  <2> QED BY <2>1, <2>2, <2>3 DEF LabelInv
<1>4. ASSUME NEW c \in Commands, CreateDev(c)
      PROVE  LabelInv'
  <2>1. /\ stage[c] = "mkDev" /\ stage[c] \in StagesOf(c)
        /\ Goto(c, After(c).ok) \/ Goto(c, After(c).err)
        /\ UNCHANGED <<picked, label>>
    BY <1>4, CallStage DEF CreateDev, Ok, Err, Ended
  <2>2. Cardinality(picked[c])
          = Cardinality(IF c.op = "start" THEN label[c] ELSE picked[c])
    BY <2>1 DEF LabelInv, Carried, Carrying
  <2>3. \A e \in Envs : Cardinality(dev'[e].label) = Cardinality(dev'[e].gpus)
    BY <1>4, <2>2 DEF CreateDev, Err, NewContainer, TypeOK, LabelInv
  <2> QED BY <2>1, <2>3, CarriedMove DEF LabelInv
<1>5. CASE Restart
  BY <1>5 DEF Restart, TypeOK, LabelInv, Carried, Reading, Carrying
<1>6. ASSUME NEW e \in Envs, DevExits(e)
      PROVE  LabelInv'
  BY <1>6 DEF DevExits, TypeOK, Container, LabelInv, Carried
<1>7. ASSUME NEW e \in Envs, SidecarExits(e)
      PROVE  LabelInv'
  BY <1>7 DEF SidecarExits, LabelInv, Carried
<1>8. CASE UNCHANGED vars
  BY <1>8 DEF vars, LabelInv, Carried
<1> QED BY <1>1, <1>2, <1>3, <1>4, <1>5, <1>6, <1>7, <1>8 DEF Next, Handle

LEMMA LabelsInvariant == Spec => []LabelInv
<1>1. Init => LabelInv
  <2> SUFFICES ASSUME Init
               PROVE  LabelInv
    OBVIOUS
  <2>1. \A e \in Envs : dev[e].label = {} /\ dev[e].gpus = {}
    BY DEF Init, NoContainer
  <2>2. \A c \in Commands : stage[c] = "waiting" /\ picked[c] = {}
    BY DEF Init
  <2> QED BY <2>1, <2>2 DEF LabelInv, Carried, Carrying
<1> QED BY <1>1, LabelInductive, TypeCorrect, PTL DEF Spec

(* What a dev container's label lists is always as much as the container was
   given, through any interleaving of creates, starts, stops, deletes, Docker
   failures and restarts: HandleStart may rely on the label's length. *)
THEOREM LabelsKeepCount == Spec => []LabelKeepsCount
<1>1. TypeOK /\ LabelInv => LabelKeepsCount
  BY DEF LabelInv, LabelKeepsCount, Alloc!RestoreFromDocker
<1> QED BY <1>1, LabelsInvariant, TypeCorrect, PTL
=============================================================================
