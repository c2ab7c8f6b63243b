------------------------- MODULE EnvAnswersProofs -------------------------
(***************************************************************************)
(* What the agent's answers are worth, for any number of environments,     *)
(* GPUs and commands.  Theorems about the commands of an orderly control   *)
(* plane: it sends each environment one create (the id is a fresh UUID)    *)
(* and then one command at a time.  Docker may fail to create, start,      *)
(* inspect or remove a container, the sidecar may never become healthy and *)
(* containers may exit, but what Docker is told to stop it stops.  A       *)
(* theorem that needs containers not to exit, or removals to succeed, says *)
(* so.                                                                     *)
(***************************************************************************)
EXTENDS EnvDispatcherProofs

Orderly ==
    /\ Faults \subseteq {"mk", "up", "health", "inspect", "rm", "exit"}
    /\ \A c, d \in Commands :
          c.op = "create" /\ d.op = "create" /\ c.env = d.env => c = d

(* No container exits by itself; what Docker is told to remove it removes. *)
NoExits  == "exit" \notin Faults
Removing == "rm" \notin Faults

-----------------------------------------------------------------------------
(***************************************************************************)
(* What is there of an environment: nothing that runs or is reserved, the  *)
(* whole pair on its GPUs, or nothing at all.                              *)
(***************************************************************************)
DevOff(e) == dev[e].state # "running"
NetOff(e) == sidecar[e].state # "running"
Off(e)    == DevOff(e) /\ NetOff(e) /\ allocated[e] = {}

Up(e) == /\ dev[e].gpus = allocated[e]
         /\ NoExits => Running(e) /\ sidecar[e].state = "running"

Gone(e) == /\ dev[e] = NoContainer /\ sidecar[e] = NoContainer
           /\ ~volume[e] /\ allocated[e] = {}

(* What the last answer tells about an environment no handler works on. *)
Settled(e) ==
    /\ reported[e] = "ready" => Up(e)
    /\ reported[e] \in {"none", "stopped", "error", "deleted"} => Off(e)
    /\ reported[e] = "deleted" /\ Removing => Gone(e)

(* What a handler of create or start has done at each of its stages. *)
NetMine(c) == sidecar[c.env].by = c

Holds(c) == picked[c] = allocated[c.env]

BuildsUp(c) ==
    /\ stage[c] \in {"inspectDev", "inspectSidecar", "allocate", "sendError"}
         => Off(c.env)
    /\ stage[c] \in {"rmSidecar", "mkSidecar", "startSidecar", "health", "rmDev",
                     "mkDev"} => DevOff(c.env) /\ Holds(c)
    /\ stage[c] \in {"rmSidecar", "mkSidecar", "startSidecar", "undoRmSidecar",
                     "release", "sendErrorFirst", "lateRelease"}
         => DevOff(c.env) /\ NetOff(c.env)
    /\ stage[c] \in {"startSidecar", "undoStopSidecar", "undoRmDev", "health",
                     "rmDev", "mkDev", "startDev"} => DevOff(c.env) /\ NetMine(c)
    /\ stage[c] \in {"health", "rmDev", "mkDev", "startDev"}
         => (NoExits => sidecar[c.env].state = "running")
    /\ stage[c] = "startDev" => dev[c.env].gpus = allocated[c.env]
    /\ stage[c] = "sendReady" => Up(c.env)
    /\ stage[c] = "lateRelease" => reported[c.env] = "error"

(* What a handler of stop or delete has done at each of its stages. *)
TakesDown(c) ==
    /\ stage[c] = "stopDev" => Up(c.env) \/ Off(c.env)
    /\ stage[c] = "stopSidecar" => DevOff(c.env)
    /\ stage[c] \in {"release", "rmDev", "rmSidecar", "rmVolume"}
         => DevOff(c.env) /\ NetOff(c.env)
    /\ stage[c] \in {"sendStopped", "sendDeleted"} => Off(c.env)
    /\ c.op = "delete" /\ Removing =>
         /\ stage[c] \in {"rmSidecar", "rmVolume", "release", "sendDeleted"}
              => dev[c.env] = NoContainer
         /\ stage[c] \in {"rmVolume", "release", "sendDeleted"}
              => sidecar[c.env] = NoContainer
         /\ stage[c] \in {"release", "sendDeleted"} => ~volume[c.env]

Work(c) == IF c.op \in {"create", "start"} THEN BuildsUp(c) ELSE TakesDown(c)

(* The control plane's pace: one handler at a time works on an environment,
   and its create comes before the other commands and answers. *)
Begun(e) == \E d \in Commands : /\ d.op = "create" /\ d.env = e
                                /\ stage[d] # "waiting"

OneAtATime ==
    \A c, d \in Commands : Active(c) /\ Active(d) /\ c.env = d.env => c = d

CreateFirst ==
    /\ \A c \in Commands : stage[c] # "waiting" => Begun(c.env)
    /\ \A e \in Envs : reported[e] # "none" => Begun(e)

(***************************************************************************)
(* The inductive invariant: while a handler works, what it has done so     *)
(* far; while none does, what the last answer tells.                       *)
(***************************************************************************)
AnswersInv ==
    /\ OneAtATime
    /\ CreateFirst
    /\ \A c \in Commands : Active(c) => Work(c)
    /\ \A e \in Envs : Quiet(e) => Settled(e)
-----------------------------------------------------------------------------
(* Which handlers know a stage, and where they go from it. *)
LEMMA NextStages ==
  ASSUME NEW c \in Commands, stage[c] \in StagesOf(c)
  PROVE  LET ok == After(c).ok
             err == After(c).err
             s == stage[c]
         IN
    /\ s = "waiting" => /\ c.op = "create" => ok = "allocate"
                        /\ c.op = "start" => ok = "inspectDev"
                        /\ c.op \in {"stop", "delete"} => ok = "stopDev"
    /\ s = "inspectDev" => c.op = "start" /\ ok = "inspectSidecar"
    /\ s = "inspectSidecar" => c.op = "start" /\ ok = "allocate"
    /\ s \in {"inspectDev", "inspectSidecar", "allocate"} => err = "sendError"
    /\ s = "allocate" => \/ c.op = "create" /\ ok = "mkSidecar"
                         \/ c.op = "start" /\ ok = "rmSidecar"
    /\ s = "mkSidecar" => /\ c.op \in {"create", "start"}
                          /\ ok = "startSidecar"
                          /\ err \in {"release", "sendErrorFirst"}
    /\ s = "startSidecar" => /\ c.op \in {"create", "start"}
                             /\ ok = "health" /\ err = "undoRmSidecar"
    /\ s = "health" => /\ \/ c.op = "create" /\ ok = "mkDev"
                          \/ c.op = "start" /\ ok = "rmDev"
                       /\ err = "undoStopSidecar"
    /\ s = "mkDev" => /\ c.op \in {"create", "start"}
                      /\ ok = "startDev" /\ err = "undoStopSidecar"
    /\ s = "startDev" => /\ c.op \in {"create", "start"}
                         /\ ok = "sendReady" /\ err = "undoRmDev"
    /\ s = "stopDev" => /\ c.op \in {"stop", "delete"}
                        /\ ok = "stopSidecar" /\ err = "stopSidecar"
    /\ s = "stopSidecar" => \/ c.op = "stop" /\ ok = "release" /\ err = "release"
                            \/ c.op = "delete" /\ ok = "rmDev" /\ err = "rmDev"
    /\ s = "undoStopSidecar" => /\ c.op \in {"create", "start"}
                                /\ ok = "undoRmSidecar" /\ err = "undoRmSidecar"
    /\ s = "rmDev" => \/ c.op = "start" /\ ok = "mkDev" /\ err = "undoStopSidecar"
                      \/ c.op = "delete" /\ ok = "rmSidecar" /\ err = "rmSidecar"
    /\ s = "undoRmDev" => /\ c.op \in {"create", "start"}
                          /\ ok = "undoStopSidecar" /\ err = "undoStopSidecar"
    /\ s = "rmSidecar" => \/ /\ c.op = "start"
                             /\ ok = "mkSidecar" /\ err = "sendErrorFirst"
                          \/ c.op = "delete" /\ ok = "rmVolume" /\ err = "rmVolume"
    /\ s = "undoRmSidecar" => /\ c.op \in {"create", "start"}
                              /\ ok = "release" /\ err = "release"
    /\ s = "rmVolume" => c.op = "delete" /\ ok = "release" /\ err = "release"
    /\ s = "release" => \/ c.op \in {"create", "start"} /\ ok = "sendError"
                        \/ c.op = "stop" /\ ok = "sendStopped"
                        \/ c.op = "delete" /\ ok = "sendDeleted"
    /\ s \in {"release", "lateRelease"} => err = ok
    /\ s = "lateRelease" => c.op = "start" /\ ok = "done"
    /\ s = "sendErrorFirst" => c.op = "start" /\ ok = "lateRelease"
    /\ s \in {"sendReady", "sendError"} => c.op \in {"create", "start"} /\ ok = "done"
    /\ s = "sendStopped" => c.op = "stop" /\ ok = "done"
    /\ s = "sendDeleted" => c.op = "delete" /\ ok = "done"
<1>1. CASE c.op = "create"
  BY <1>1 DEF After, StagesOf, Handler, HandleCreate, Undo, Both
<1>2. CASE c.op = "start"
  <2>1. CASE stage[c] \in DOMAIN HandleStart
    <3>1. After(c) = HandleStart[stage[c]]
      BY <1>2, <2>1 DEF After, Handler
    <3> QED BY <1>2, <2>1, <3>1, SMTT(30) DEF HandleStart, Both
  <2>2. CASE stage[c] \in DOMAIN Undo \ DOMAIN HandleStart
    <3>1. After(c) = Undo[stage[c]]
      BY <1>2, <2>2 DEF After, Handler
    <3> QED BY <1>2, <2>2, <3>1, SMTT(30) DEF HandleStart, Undo, Both
  <2> QED BY <1>2, <2>1, <2>2 DEF StagesOf, Handler
<1>3. CASE c.op = "stop"
  BY <1>3 DEF After, StagesOf, Handler, HandleStop, Undo, Both
<1>4. CASE c.op = "delete"
  BY <1>4 DEF After, StagesOf, Handler, HandleDelete, Undo, Both
<1> QED BY <1>1, <1>2, <1>3, <1>4, CommandsAssumption DEF CommandNames

LEMMA NeverWaitsAgain ==
  ASSUME NEW c \in Commands, stage[c] \in StagesOf(c)
  PROVE  After(c).ok # "waiting" /\ After(c).err # "waiting"
<1>1. CASE c.op = "create"
  BY <1>1 DEF After, StagesOf, Handler, HandleCreate, Undo, Both
<1>2. CASE c.op = "start"
  BY <1>2, SMTT(30) DEF After, StagesOf, Handler, HandleStart, Undo, Both
<1>3. CASE c.op = "stop"
  BY <1>3 DEF After, StagesOf, Handler, HandleStop, Undo, Both
<1>4. CASE c.op = "delete"
  BY <1>4 DEF After, StagesOf, Handler, HandleDelete, Undo, Both
<1> QED BY <1>1, <1>2, <1>3, <1>4, CommandsAssumption DEF CommandNames

-----------------------------------------------------------------------------
(* A step of one handler concerns its own environment and its own state. *)
Spares(c) ==
    /\ \A e \in Envs \ {c.env} :
          /\ allocated'[e] = allocated[e] /\ dev'[e] = dev[e]
          /\ sidecar'[e] = sidecar[e] /\ volume'[e] = volume[e]
          /\ reported'[e] = reported[e]
    /\ \A d \in Commands \ {c} : stage'[d] = stage[d] /\ picked'[d] = picked[d]

LEMMA SparesOthers ==
  ASSUME TypeOK, NEW c \in Commands, Receive(c) \/ Handle(c)
  PROVE  Spares(c)
<1> USE CommandsAssumption
<1>1. \A e \in Envs \ {c.env} : allocated'[e] = allocated[e]
  BY DEF Handle, Receive, InspectDev, InspectSidecar, Allocate, CreateSidecar,
         StartSidecar, WaitSidecarHealth, CreateDev, StartDev, StopDev,
         StopSidecar, RemoveDev, RemoveSidecar, RemoveVolume, Release, Send,
         Err, Alloc!Allocate, Alloc!Release, TypeOK
<1>2. \A e \in Envs \ {c.env} : dev'[e] = dev[e]
  BY DEF Handle, Receive, InspectDev, InspectSidecar, Allocate, CreateSidecar,
         StartSidecar, WaitSidecarHealth, CreateDev, StartDev, StopDev,
         StopSidecar, RemoveDev, RemoveSidecar, RemoveVolume, Release, Send,
         Err, TypeOK
<1>3. \A e \in Envs \ {c.env} : sidecar'[e] = sidecar[e]
  BY DEF Handle, Receive, InspectDev, InspectSidecar, Allocate, CreateSidecar,
         StartSidecar, WaitSidecarHealth, CreateDev, StartDev, StopDev,
         StopSidecar, RemoveDev, RemoveSidecar, RemoveVolume, Release, Send,
         Err, TypeOK
<1>4. \A e \in Envs \ {c.env} : volume'[e] = volume[e]
  <2>1. \/ UNCHANGED volume
        \/ volume' = [volume EXCEPT ![c.env] = TRUE]
        \/ volume' = [volume EXCEPT ![c.env] = FALSE]
    BY DEF Handle, Receive, InspectDev, InspectSidecar, Allocate,
           CreateSidecar, StartSidecar, WaitSidecarHealth, CreateDev, StartDev,
           StopDev, StopSidecar, RemoveDev, RemoveSidecar, RemoveVolume,
           Release, Send, Err
  <2> QED BY <2>1, Zenon DEF TypeOK
<1>5. \A e \in Envs \ {c.env} : reported'[e] = reported[e]
  BY DEF Handle, Receive, InspectDev, InspectSidecar, Allocate, CreateSidecar,
         StartSidecar, WaitSidecarHealth, CreateDev, StartDev, StopDev,
         StopSidecar, RemoveDev, RemoveSidecar, RemoveVolume, Release, Send,
         Local, TypeOK
<1>6. \A d \in Commands \ {c} : picked'[d] = picked[d]
  BY DEF Handle, Receive, InspectDev, InspectSidecar, Allocate, CreateSidecar,
         StartSidecar, WaitSidecarHealth, CreateDev, StartDev, StopDev,
         StopSidecar, RemoveDev, RemoveSidecar, RemoveVolume, Release, Send,
         Err, TypeOK
<1>7. \A d \in Commands \ {c} : stage'[d] = stage[d]
  BY DEF Handle, Receive, InspectDev, InspectSidecar, Allocate, CreateSidecar,
         StartSidecar, WaitSidecarHealth, CreateDev, StartDev, StopDev,
         StopSidecar, RemoveDev, RemoveSidecar, RemoveVolume, Release, Send,
         Ok, Err, Goto, TypeOK
<1> QED BY <1>1, <1>2, <1>3, <1>4, <1>5, <1>6, <1>7 DEF Spares

(* What a step of the handler of c owes its environment. *)
Outcome(c) == IF Active(c)' THEN Work(c)' ELSE Settled(c.env)'

(* It is all there is to show: the other environments do not change, and the
   other handlers of this one are not at work. *)
LEMMA OutcomeSuffices ==
  ASSUME TypeOK, AnswersInv, NEW c \in Commands, Spares(c), Outcome(c),
         \A d \in Commands \ {c} : d.env = c.env => ~Active(d)
  PROVE  /\ OneAtATime'
         /\ \A d \in Commands : Active(d)' => Work(d)'
         /\ \A e \in Envs : Quiet(e)' => Settled(e)'
<1> USE CommandsAssumption
<1>1. \A d \in Commands \ {c} : Active(d)' <=> Active(d)
  BY DEF Spares, Active
<1>2. OneAtATime'
  BY <1>1 DEF AnswersInv, OneAtATime
<1>3. ASSUME NEW d \in Commands, Active(d)'
      PROVE  Work(d)'
  <2>1. CASE d = c
    BY <1>3, <2>1 DEF Outcome
  <2>2. CASE d # c
    <3>1. Active(d) /\ Work(d) /\ d.env \in Envs \ {c.env}
      BY <1>1, <1>3, <2>2 DEF AnswersInv
    <3> QED BY <2>2, <3>1
            DEF Spares, Work, BuildsUp, TakesDown, Off, DevOff, NetOff, Up,
                Running, NetMine, Holds
  <2> QED BY <2>1, <2>2
<1>4. ASSUME NEW e \in Envs, Quiet(e)'
      PROVE  Settled(e)'
  <2>1. CASE e = c.env
    BY <1>4, <2>1 DEF Outcome, Quiet
  <2>2. CASE e # c.env
    <3>1. Settled(e)
      BY <1>1, <1>4, <2>2 DEF AnswersInv, Quiet
    <3> QED BY <2>2, <3>1
            DEF Spares, Settled, Off, DevOff, NetOff, Up, Gone, Running
  <2> QED BY <2>1, <2>2
<1> QED BY <1>2, <1>3, <1>4

-----------------------------------------------------------------------------
(* Each call of a handler does what the next stage relies on. *)
LEMMA CallOutcome ==
  ASSUME TypeOK, LabelInv, Orderly, NEW c \in Commands, Active(c), Work(c),
         Handle(c)
  PROVE  Outcome(c)
<1> USE CommandsAssumption
<1>a. /\ stage[c] \in StagesOf(c)
      /\ c.env \in Envs /\ c.op \in CommandNames
      /\ dev[c.env] \in Container /\ sidecar[c.env] \in Container
      /\ \A s : Goto(c, s) => stage'[c] = s
  BY CallStage DEF Active, TypeOK, Goto
<1>b. "down" \notin Faults
  BY DEF Orderly
<1>1. CASE InspectDev(c)
  <2>1. /\ UNCHANGED <<allocated, dev, sidecar>>
        /\ stage[c] \in {"inspectDev", "inspectSidecar"}
        /\ Goto(c, After(c).ok) \/ Goto(c, After(c).err)
    BY <1>1 DEF InspectDev, Ok, Err
  <2>2. Off(c.env)' /\ c.op = "start"
    BY <1>a, <2>1, NextStages DEF Work, BuildsUp, Off, DevOff, NetOff
  <2>3. stage'[c] \in {"inspectSidecar", "allocate", "sendError"}
    BY <1>a, <2>1, NextStages
  <2> QED BY <2>2, <2>3 DEF Outcome, Active, Ended, Work, BuildsUp
<1>2. CASE InspectSidecar(c)
  <2>1. /\ UNCHANGED <<allocated, dev, sidecar>>
        /\ stage[c] \in {"inspectDev", "inspectSidecar"}
        /\ Goto(c, After(c).ok) \/ Goto(c, After(c).err)
    BY <1>2 DEF InspectSidecar, Ok, Err
  <2>2. Off(c.env)' /\ c.op = "start"
    BY <1>a, <2>1, NextStages DEF Work, BuildsUp, Off, DevOff, NetOff
  <2>3. stage'[c] \in {"inspectSidecar", "allocate", "sendError"}
    BY <1>a, <2>1, NextStages
  <2> QED BY <2>2, <2>3 DEF Outcome, Active, Ended, Work, BuildsUp
<1>3. CASE Allocate(c)
  <2>1. /\ UNCHANGED <<dev, sidecar>> /\ stage[c] = "allocate"
        /\ c.op \in {"create", "start"} /\ Off(c.env)
    BY <1>a, <1>3, NextStages DEF Allocate, Work, BuildsUp
  <2>2. CASE Goto(c, After(c).err) /\ UNCHANGED allocated
    <3>1. stage'[c] = "sendError" /\ Off(c.env)'
      BY <1>a, <2>1, <2>2, NextStages DEF Off, DevOff, NetOff
    <3> QED BY <2>1, <3>1 DEF Outcome, Active, Ended, Work, BuildsUp
  <2>3. CASE Ok(c)
    <3>1. stage'[c] \in {"mkSidecar", "rmSidecar"}
      BY <1>a, <2>1, <2>3, NextStages DEF Ok
    <3>2. Holds(c)'
      <4>1. CASE UNCHANGED <<allocated, picked>> /\ c.op = "start"
        BY <2>1, <4>1 DEF Holds, Off, LabelInv, Carried, Reading
      <4>2. CASE picked' = [picked EXCEPT ![c] = allocated'[c.env]]
        BY <4>2 DEF Holds, TypeOK
      <4> QED BY <1>3, <2>1, <2>3, <4>1, <4>2, <1>a, NextStages DEF Allocate, Ok
    <3>3. DevOff(c.env)' /\ NetOff(c.env)'
      BY <2>1 DEF Off, DevOff, NetOff
    <3> QED BY <2>1, <3>1, <3>2, <3>3
            DEF Outcome, Active, Ended, Work, BuildsUp
  <2> QED BY <1>3, <2>2, <2>3 DEF Allocate
<1>4. CASE CreateSidecar(c)
  <2>1. /\ UNCHANGED <<allocated, dev, picked>> /\ stage[c] = "mkSidecar"
        /\ c.op \in {"create", "start"}
        /\ DevOff(c.env) /\ NetOff(c.env) /\ Holds(c)
    BY <1>a, <1>4, NextStages DEF CreateSidecar, Err, Work, BuildsUp
  <2>2. DevOff(c.env)' /\ Holds(c)'
    BY <2>1 DEF DevOff, Holds
  <2>3. CASE Goto(c, After(c).err) /\ UNCHANGED sidecar
    <3>1. stage'[c] \in {"release", "sendErrorFirst"} /\ NetOff(c.env)'
      BY <1>a, <2>1, <2>3, NextStages DEF NetOff
    <3> QED BY <2>1, <2>2, <3>1 DEF Outcome, Active, Ended, Work, BuildsUp
  <2>4. CASE Ok(c) /\ sidecar' = [sidecar EXCEPT ![c.env] = NewContainer(c, {}, {})]
    <3>1. stage'[c] = "startSidecar"
      BY <1>a, <2>1, <2>4, NextStages DEF Ok
    <3>2. NetOff(c.env)' /\ NetMine(c)'
      BY <1>a, <2>4 DEF NetOff, NetMine, NewContainer, TypeOK
    <3> QED BY <2>1, <2>2, <3>1, <3>2 DEF Outcome, Active, Ended, Work, BuildsUp
  <2> QED BY <1>4, <2>3, <2>4 DEF CreateSidecar, Err
<1>5. CASE StartSidecar(c)
  <2>1. /\ UNCHANGED <<allocated, dev, picked>> /\ stage[c] = "startSidecar"
        /\ c.op \in {"create", "start"}
        /\ DevOff(c.env) /\ NetOff(c.env) /\ Holds(c) /\ NetMine(c)
    BY <1>a, <1>5, NextStages DEF StartSidecar, Err, Work, BuildsUp
  <2>2. DevOff(c.env)' /\ Holds(c)'
    BY <2>1 DEF DevOff, Holds
  <2>3. CASE Goto(c, After(c).err) /\ UNCHANGED sidecar
    <3>1. stage'[c] = "undoRmSidecar" /\ NetOff(c.env)'
      BY <1>a, <2>1, <2>3, NextStages DEF NetOff
    <3> QED BY <2>1, <2>2, <3>1 DEF Outcome, Active, Ended, Work, BuildsUp
  <2>4. CASE Ok(c) /\ sidecar' = [sidecar EXCEPT ![c.env].state = "running"]
    <3>1. stage'[c] = "health"
      BY <1>a, <2>1, <2>4, NextStages DEF Ok
    <3>2. sidecar'[c.env].state = "running" /\ NetMine(c)'
      BY <1>a, <2>1, <2>4 DEF NetMine, Container, TypeOK
    <3> QED BY <2>1, <2>2, <3>1, <3>2 DEF Outcome, Active, Ended, Work, BuildsUp
  <2> QED BY <1>5, <2>3, <2>4 DEF StartSidecar, Err
<1>6. CASE WaitSidecarHealth(c)
  <2>1. /\ UNCHANGED <<allocated, dev, sidecar, picked>> /\ stage[c] = "health"
        /\ c.op \in {"create", "start"}
        /\ DevOff(c.env) /\ Holds(c) /\ NetMine(c)
        /\ NoExits => sidecar[c.env].state = "running"
    BY <1>a, <1>6, NextStages DEF WaitSidecarHealth, Err, Work, BuildsUp
  <2>2. /\ DevOff(c.env)' /\ Holds(c)' /\ NetMine(c)'
        /\ NoExits => sidecar'[c.env].state = "running"
    BY <2>1 DEF DevOff, Holds, NetMine
  <2>3. stage'[c] \in {"rmDev", "mkDev", "undoStopSidecar"}
    BY <1>a, <1>6, <2>1, NextStages DEF WaitSidecarHealth, Ok, Err
  <2> QED BY <2>1, <2>2, <2>3 DEF Outcome, Active, Ended, Work, BuildsUp
<1>7. CASE CreateDev(c)
  <2>1. /\ UNCHANGED <<allocated, sidecar, picked>> /\ stage[c] = "mkDev"
        /\ c.op \in {"create", "start"}
        /\ DevOff(c.env) /\ Holds(c) /\ NetMine(c)
        /\ NoExits => sidecar[c.env].state = "running"
    BY <1>a, <1>7, NextStages DEF CreateDev, Err, Work, BuildsUp
  <2>2. NetMine(c)' /\ (NoExits => sidecar'[c.env].state = "running")
    BY <2>1 DEF NetMine
  <2>3. CASE Goto(c, After(c).err) /\ UNCHANGED dev
    <3>1. stage'[c] = "undoStopSidecar" /\ DevOff(c.env)'
      BY <1>a, <2>1, <2>3, NextStages DEF DevOff
    <3> QED BY <2>1, <2>2, <3>1 DEF Outcome, Active, Ended, Work, BuildsUp
  <2>4. CASE Ok(c) /\ dev' = [dev EXCEPT ![c.env] =
                                NewContainer(c, picked[c],
                                  IF c.op = "start" THEN label[c] ELSE picked[c])]
    <3>1. stage'[c] = "startDev"
      BY <1>a, <2>1, <2>4, NextStages DEF Ok
    <3>2. DevOff(c.env)' /\ dev'[c.env].gpus = allocated'[c.env]
      BY <1>a, <2>1, <2>4 DEF DevOff, Holds, NewContainer, TypeOK
    <3> QED BY <2>1, <2>2, <3>1, <3>2 DEF Outcome, Active, Ended, Work, BuildsUp
  <2> QED BY <1>7, <2>3, <2>4 DEF CreateDev, Err
<1>8. CASE StartDev(c)
  <2>1. /\ UNCHANGED <<allocated, sidecar, picked>> /\ stage[c] = "startDev"
        /\ c.op \in {"create", "start"} /\ DevOff(c.env) /\ NetMine(c)
        /\ dev[c.env].gpus = allocated[c.env]
        /\ NoExits => sidecar[c.env].state = "running"
    BY <1>a, <1>8, NextStages DEF StartDev, Err, Work, BuildsUp
  <2>2. CASE Goto(c, After(c).err) /\ UNCHANGED dev
    <3>1. stage'[c] = "undoRmDev" /\ DevOff(c.env)' /\ NetMine(c)'
      BY <1>a, <2>1, <2>2, NextStages DEF DevOff, NetMine
    <3> QED BY <2>1, <3>1 DEF Outcome, Active, Ended, Work, BuildsUp
  <2>3. CASE Ok(c) /\ dev' = [dev EXCEPT ![c.env].state = "running"]
    <3>1. stage'[c] = "sendReady"
      BY <1>a, <2>1, <2>3, NextStages DEF Ok
    <3>2. Up(c.env)'
      BY <1>a, <2>1, <2>3 DEF Up, Running, Container, TypeOK
    <3> QED BY <2>1, <3>1, <3>2 DEF Outcome, Active, Ended, Work, BuildsUp
  <2> QED BY <1>8, <2>2, <2>3 DEF StartDev, Err
<1>9. CASE StopDev(c)
  <2>1. stage[c] = "stopDev" /\ c.op \in {"stop", "delete"}
    BY <1>a, <1>9, NextStages DEF StopDev
  <2>2. stage'[c] = "stopSidecar"
    BY <1>a, <1>9, <2>1, NextStages DEF StopDev, Ok, Err
  <2>3. DevOff(c.env)'
    BY <1>a, <1>b, <1>9, <2>1
       DEF StopDev, Err, Found, ById, DevOff, NoContainer, Stopped, Container,
           TypeOK
  <2> QED BY <2>1, <2>2, <2>3 DEF Outcome, Active, Ended, Work, TakesDown
<1>10. CASE StopSidecar(c)
  <2>1. /\ stage[c] \in {"stopSidecar", "undoStopSidecar"} /\ UNCHANGED dev
        /\ DevOff(c.env) /\ (stage[c] = "undoStopSidecar" => NetMine(c))
    BY <1>a, <1>10, NextStages
       DEF StopSidecar, Err, CommandNames, Work, BuildsUp, TakesDown
  <2>2. DevOff(c.env)'
    BY <2>1 DEF DevOff
  <2>3. NetOff(c.env)'
    BY <1>a, <1>b, <1>10, <2>1
       DEF StopSidecar, Err, Found, ById, NetOff, NetMine, NoContainer, Stopped,
           Container, TypeOK
  <2>4. \/ c.op = "stop" /\ stage'[c] = "release"
        \/ c.op = "delete" /\ stage'[c] = "rmDev"
        \/ c.op \in {"create", "start"} /\ stage'[c] = "undoRmSidecar"
    BY <1>a, <1>10, <2>1, NextStages DEF StopSidecar, Ok, Err
  <2> QED BY <2>2, <2>3, <2>4
          DEF Outcome, Active, Ended, Work, BuildsUp, TakesDown
<1>11. CASE RemoveDev(c)
  <2>1. /\ stage[c] \in {"rmDev", "undoRmDev"}
        /\ UNCHANGED <<allocated, sidecar, picked>>
    BY <1>11 DEF RemoveDev, Err
  <2>2. \/ dev'[c.env] = NoContainer
        \/ dev'[c.env] = dev[c.env] /\ (stage[c] = "undoRmDev" \/ ~Removing)
    BY <1>a, <1>11 DEF RemoveDev, Err, Found, ById, TypeOK, Removing
  <2>3. DevOff(c.env)'
    BY <1>a, <2>1, <2>2, NextStages
       DEF DevOff, NoContainer, Work, BuildsUp, TakesDown
  <2>4. CASE c.op = "delete"
    <3>1. /\ stage[c] = "rmDev" /\ stage'[c] = "rmSidecar"
          /\ Removing => dev'[c.env] = NoContainer
      BY <1>a, <1>11, <2>1, <2>2, <2>4, NextStages DEF RemoveDev, Ok, Err
    <3>2. NetOff(c.env)'
      BY <2>1, <2>4, <3>1 DEF NetOff, Work, TakesDown
    <3> QED BY <2>3, <2>4, <3>1, <3>2 DEF Outcome, Active, Ended, Work, TakesDown
  <2>5. CASE c.op # "delete"
    <3>1. /\ c.op \in {"create", "start"}
          /\ stage'[c] \in {"mkDev", "undoStopSidecar"}
          /\ stage'[c] = "mkDev" => stage[c] = "rmDev"
      BY <1>a, <1>11, <2>1, <2>5, NextStages DEF RemoveDev, Ok, Err
    <3>2. /\ NetMine(c)'
          /\ stage[c] = "rmDev" =>
                Holds(c)' /\ (NoExits => sidecar'[c.env].state = "running")
      BY <2>1, <3>1 DEF NetMine, Holds, Work, BuildsUp
    <3> QED BY <2>3, <3>1, <3>2 DEF Outcome, Active, Ended, Work, BuildsUp
  <2> QED BY <2>4, <2>5
<1>12. CASE RemoveSidecar(c)
  <2>1. /\ stage[c] \in {"rmSidecar", "undoRmSidecar"}
        /\ UNCHANGED <<allocated, dev, picked>>
        /\ DevOff(c.env) /\ NetOff(c.env)
    BY <1>a, <1>12, NextStages
       DEF RemoveSidecar, Err, Work, BuildsUp, TakesDown
  <2>2. \/ sidecar'[c.env] = NoContainer
        \/ /\ sidecar'[c.env] = sidecar[c.env]
           /\ stage[c] = "undoRmSidecar" \/ ~Removing
    BY <1>a, <1>12 DEF RemoveSidecar, Err, Found, ById, TypeOK, Removing
  <2>3. DevOff(c.env)' /\ NetOff(c.env)'
    BY <2>1, <2>2 DEF DevOff, NetOff, NoContainer
  <2>4. CASE c.op = "delete"
    <3>1. /\ stage[c] = "rmSidecar" /\ stage'[c] = "rmVolume"
          /\ Removing => sidecar'[c.env] = NoContainer
      BY <1>a, <1>12, <2>1, <2>2, <2>4, NextStages DEF RemoveSidecar, Ok, Err
    <3>2. Removing => dev'[c.env] = NoContainer
      BY <2>1, <2>4, <3>1 DEF Work, TakesDown
    <3> QED BY <2>3, <2>4, <3>1, <3>2 DEF Outcome, Active, Ended, Work, TakesDown
  <2>5. CASE c.op # "delete"
    <3>1. /\ c.op \in {"create", "start"}
          /\ stage'[c] \in {"mkSidecar", "sendErrorFirst", "release"}
          /\ stage'[c] = "mkSidecar" => stage[c] = "rmSidecar"
      BY <1>a, <1>12, <2>1, <2>5, NextStages DEF RemoveSidecar, Ok, Err
    <3>2. stage[c] = "rmSidecar" => Holds(c)'
      BY <2>1, <3>1 DEF Holds, Work, BuildsUp
    <3> QED BY <2>3, <3>1, <3>2 DEF Outcome, Active, Ended, Work, BuildsUp
  <2> QED BY <2>4, <2>5
<1>13. CASE RemoveVolume(c)
  <2>1. /\ stage[c] = "rmVolume" /\ c.op = "delete"
        /\ UNCHANGED <<dev, sidecar>>
    BY <1>a, <1>13, NextStages DEF RemoveVolume, Err
  <2>2. stage'[c] = "release"
    BY <1>a, <1>13, <2>1, NextStages DEF RemoveVolume, Ok, Err
  <2>3. /\ Removing => dev'[c.env] = NoContainer /\ sidecar'[c.env] = NoContainer
        /\ DevOff(c.env)' /\ NetOff(c.env)'
    BY <2>1 DEF Work, TakesDown, DevOff, NetOff
  <2>4. Removing => ~volume'[c.env]
    <3>1. Removing => \/ volume' = [volume EXCEPT ![c.env] = FALSE]
                      \/ UNCHANGED volume /\ ~volume[c.env]
      BY <1>13, <2>1, <2>3 DEF RemoveVolume, Err, Removing
    <3> QED BY <1>a, <3>1, Zenon DEF TypeOK
  <2> QED BY <2>1, <2>2, <2>3, <2>4 DEF Outcome, Active, Ended, Work, TakesDown
<1>14. CASE Release(c)
  <2>1. /\ stage[c] \in {"release", "lateRelease"}
        /\ UNCHANGED <<dev, sidecar, volume, reported>>
        /\ DevOff(c.env) /\ NetOff(c.env)
    BY <1>a, <1>14, NextStages
       DEF Release, Local, CommandNames, Work, BuildsUp, TakesDown
  <2>2. Off(c.env)'
    BY <1>a, <1>14, <2>1
       DEF Release, Alloc!Release, Off, DevOff, NetOff, TypeOK
  <2>3. stage'[c] = After(c).ok
    BY <1>a, <1>14 DEF Release, Ok
  <2>4. CASE stage[c] = "lateRelease"
    <3>1. stage'[c] = "done" /\ reported'[c.env] = "error"
      BY <1>a, <2>1, <2>3, <2>4, NextStages DEF Work, BuildsUp
    <3> QED BY <2>2, <3>1 DEF Outcome, Active, Ended, Settled
  <2>5. CASE stage[c] = "release" /\ c.op = "delete"
    <3>1. /\ stage'[c] = "sendDeleted"
          /\ Removing => /\ dev'[c.env] = NoContainer /\ sidecar'[c.env] = NoContainer
                         /\ ~volume'[c.env]
      BY <1>a, <2>1, <2>3, <2>5, NextStages DEF Work, TakesDown
    <3> QED BY <2>2, <2>5, <3>1
            DEF Outcome, Active, Ended, Work, TakesDown
  <2>6. CASE stage[c] = "release" /\ c.op # "delete"
    <3>1. \/ c.op = "stop" /\ stage'[c] = "sendStopped"
          \/ c.op \in {"create", "start"} /\ stage'[c] = "sendError"
      BY <1>a, <2>3, <2>6, NextStages
    <3> QED BY <2>2, <3>1 DEF Outcome, Active, Ended, Work, BuildsUp, TakesDown
  <2> QED BY <2>1, <2>4, <2>5, <2>6
<1>15. CASE Send(c)
  <2>1. /\ stage[c] \in DOMAIN Result
        /\ UNCHANGED <<allocated, dev, sidecar, volume>>
        /\ reported'[c.env] = Result[stage[c]]
        /\ stage'[c] = After(c).ok
    BY <1>a, <1>15 DEF Send, Ok, TypeOK
  <2>2. CASE stage[c] = "sendErrorFirst"
    <3>1. /\ c.op = "start" /\ stage'[c] = "lateRelease"
          /\ reported'[c.env] = "error"
          /\ DevOff(c.env) /\ NetOff(c.env)
      BY <1>a, <2>1, <2>2, NextStages DEF Result, Work, BuildsUp
    <3>2. DevOff(c.env)' /\ NetOff(c.env)'
      BY <2>1, <3>1 DEF DevOff, NetOff
    <3> QED BY <3>1, <3>2 DEF Outcome, Active, Ended, Work, BuildsUp
  <2>3. CASE stage[c] = "sendReady"
    <3>1. stage'[c] = "done" /\ reported'[c.env] = "ready" /\ Up(c.env)
      BY <1>a, <2>1, <2>3, NextStages DEF Result, Work, BuildsUp
    <3> QED BY <2>1, <3>1 DEF Outcome, Active, Ended, Settled, Up, Running
  <2>4. CASE stage[c] \in {"sendError", "sendStopped"}
    <3>1. /\ stage'[c] = "done" /\ reported'[c.env] \in {"error", "stopped"}
          /\ Off(c.env)
      BY <1>a, <2>1, <2>4, NextStages DEF Result, Work, BuildsUp, TakesDown
    <3> QED BY <2>1, <3>1
            DEF Outcome, Active, Ended, Settled, Off, DevOff, NetOff
  <2>5. CASE stage[c] = "sendDeleted"
    <3>1. /\ stage'[c] = "done" /\ reported'[c.env] = "deleted" /\ Off(c.env)
          /\ Removing => Gone(c.env)
      BY <1>a, <2>1, <2>5, NextStages DEF Result, Work, TakesDown, Gone, Off
    <3> QED BY <2>1, <3>1
            DEF Outcome, Active, Ended, Settled, Gone, Off, DevOff, NetOff
  <2> QED BY <2>1, <2>2, <2>3, <2>4, <2>5 DEF Result
<1> QED
  BY <1>1, <1>2, <1>3, <1>4, <1>5, <1>6, <1>7, <1>8, <1>9, <1>10, <1>11, <1>12,
     <1>13, <1>14, <1>15
     DEF Handle

(* A command that may begin finds its environment as its handler expects. *)
LEMMA ReceiveOutcome ==
  ASSUME TypeOK, Orderly, AnswersInv, NEW c \in Commands, Receive(c)
  PROVE  /\ \A d \in Commands \ {c} : d.env = c.env => ~Active(d)
         /\ Outcome(c)
         /\ Begun(c.env)'
<1> USE CommandsAssumption
<1>1. /\ stage[c] = "waiting" /\ stage[c] \in StagesOf(c)
      /\ c.env \in Envs /\ c.op \in CommandNames
      /\ stage' = [stage EXCEPT ![c] = After(c).ok]
      /\ UNCHANGED <<allocated, dev, sidecar, volume, picked, reported>>
  BY CallStage DEF Receive, Ok, Goto, Local, Ended
<1>2. {"overlap", "early", "again"} \cap Faults = {}
  BY DEF Orderly
<1>3. /\ \A d \in Commands \ {c} : d.env = c.env => ~Active(d)
      /\ c.op # "create" => Begun(c.env)
      /\ reported[c.env] # "deleted"
      /\ ~(c.op = "start" /\ reported[c.env] = "ready")
  BY <1>2 DEF Receive, Paced, MayFollow, Active, Begun
<1>4. Settled(c.env)
  BY <1>1, <1>3 DEF AnswersInv, Quiet, Active
<1>5. c.op = "create" => reported[c.env] = "none"
  BY <1>1 DEF AnswersInv, CreateFirst, Begun, Orderly
<1>6. Off(c.env) \/ (Up(c.env) /\ c.op \in {"stop", "delete"})
  BY <1>1, <1>3, <1>4, <1>5 DEF Settled, TypeOK, Answers, CommandNames
<1>7. Off(c.env)' \/ (Up(c.env)' /\ c.op \in {"stop", "delete"})
  BY <1>1, <1>6 DEF Off, DevOff, NetOff, Up, Running
<1>8. \/ c.op = "create" /\ stage'[c] = "allocate"
      \/ c.op = "start" /\ stage'[c] = "inspectDev"
      \/ c.op \in {"stop", "delete"} /\ stage'[c] = "stopDev"
  BY <1>1, NextStages DEF CommandNames, TypeOK
<1>9. Outcome(c)
  BY <1>7, <1>8 DEF Outcome, Active, Ended, Work, BuildsUp, TakesDown
<1>10. Begun(c.env)'
  BY <1>1, <1>3, <1>8 DEF Begun, TypeOK
<1> QED BY <1>3, <1>9, <1>10

(* An exit changes the state of one container and nothing else. *)
LEMMA ExitStep ==
  ASSUME NEW box \in [Envs -> Container], NEW after, NEW e \in Envs,
         box[e].state = "running", after = [box EXCEPT ![e].state = "crashed"],
         NEW f \in Envs
  PROVE  /\ after[f].gpus = box[f].gpus /\ after[f].by = box[f].by
         /\ \/ after[f] = box[f]
            \/ box[f].state = "running" /\ after[f].state = "crashed"
<1>1. CASE f # e
  <2>1. after[f] = box[f]
    BY <1>1 DEF Container
  <2> QED BY <2>1
<1>2. CASE f = e
  <2>1. box[e] \in Container
    OBVIOUS
  <2>2. after[e] = [box[e] EXCEPT !.state = "crashed"]
    OBVIOUS
  <2>3. /\ after[e].gpus = box[e].gpus /\ after[e].by = box[e].by
        /\ after[e].state = "crashed"
    BY <2>1, <2>2 DEF Container
  <2> QED BY <1>2, <2>3
<1> QED BY <1>1, <1>2

(* A container that exits disturbs nothing that is claimed while containers may
   exit: what was off stays off, and nothing but a state changes. *)
LEMMA ExitsHarmless ==
  ASSUME TypeOK, AnswersInv, NEW e \in Envs, DevExits(e) \/ SidecarExits(e)
  PROVE  AnswersInv'
<1> USE CommandsAssumption
<1>1. /\ UNCHANGED <<allocated, volume, stage, picked, reported>> /\ ~NoExits
      /\ \/ /\ dev' = [dev EXCEPT ![e].state = "crashed"]
            /\ dev[e].state = "running" /\ UNCHANGED sidecar
         \/ /\ sidecar' = [sidecar EXCEPT ![e].state = "crashed"]
            /\ sidecar[e].state = "running" /\ UNCHANGED dev
  BY DEF DevExits, SidecarExits, Local, NoExits
<1>2. ASSUME NEW f \in Envs
      PROVE  /\ dev'[f].gpus = dev[f].gpus /\ sidecar'[f].by = sidecar[f].by
             /\ DevOff(f) => DevOff(f)'
             /\ NetOff(f) => NetOff(f)'
             /\ dev[f] = NoContainer => dev'[f] = NoContainer
             /\ sidecar[f] = NoContainer => sidecar'[f] = NoContainer
  <2>1. dev[f] \in Container /\ sidecar[f] \in Container
    BY DEF TypeOK
  <2>2. NoContainer.state = "none"
    BY DEF NoContainer
  <2>3. /\ dev'[f].gpus = dev[f].gpus
        /\ \/ dev'[f] = dev[f]
           \/ dev[f].state = "running" /\ dev'[f].state = "crashed"
    <3>1. CASE dev' = dev
      BY <3>1, Zenon
    <3>2. CASE dev[e].state = "running" /\ dev' = [dev EXCEPT ![e].state = "crashed"]
      <4>1. dev \in [Envs -> Container]
        BY DEF TypeOK
      <4> QED BY <3>2, <4>1, ExitStep DEF Container
    <3> QED BY <1>1, <3>1, <3>2
  <2>4. /\ sidecar'[f].by = sidecar[f].by
        /\ \/ sidecar'[f] = sidecar[f]
           \/ sidecar[f].state = "running" /\ sidecar'[f].state = "crashed"
    <3>1. CASE sidecar' = sidecar
      BY <3>1, Zenon
    <3>2. CASE /\ sidecar[e].state = "running"
               /\ sidecar' = [sidecar EXCEPT ![e].state = "crashed"]
      <4>1. sidecar \in [Envs -> Container]
        BY DEF TypeOK
      <4> QED BY <3>2, <4>1, ExitStep DEF Container
    <3> QED BY <1>1, <3>1, <3>2
  <2> QED BY <2>2, <2>3, <2>4 DEF DevOff, NetOff
<1>3. ASSUME NEW f \in Envs
      PROVE  /\ Off(f) => Off(f)'
             /\ Up(f) => Up(f)'
             /\ Gone(f) => Gone(f)'
  BY <1>1, <1>2 DEF Off, Up, Gone
<1>4. \A f \in Envs : Settled(f) => Settled(f)'
  BY <1>1, <1>3 DEF Settled
<1>5. \A c \in Commands : Active(c)' <=> Active(c)
  BY <1>1 DEF Active
<1>6. ASSUME NEW c \in Commands, Work(c)
      PROVE  Work(c)'
  <2>1. c.env \in Envs /\ c.op \in CommandNames
    OBVIOUS
  <2>2. CASE c.op \in {"create", "start"}
    BY <1>1, <1>2, <1>3, <1>6, <2>1, <2>2 DEF Work, BuildsUp, NetMine, Holds
  <2>3. CASE c.op \in {"stop", "delete"}
    BY <1>1, <1>2, <1>3, <1>6, <2>1, <2>3 DEF Work, TakesDown
  <2> QED BY <2>1, <2>2, <2>3 DEF CommandNames
<1>7. OneAtATime' /\ CreateFirst'
  BY <1>1, <1>5 DEF AnswersInv, OneAtATime, CreateFirst, Begun
<1> QED BY <1>4, <1>5, <1>6, <1>7 DEF AnswersInv, Quiet

(* A handler that makes a call is at work, and moves along its table. *)
LEMMA HandleStages ==
  ASSUME NEW c \in Commands, Handle(c)
  PROVE  stage[c] \in {"inspectDev", "inspectSidecar", "allocate", "rmSidecar",
                       "mkSidecar", "startSidecar", "health", "rmDev", "mkDev",
                       "startDev", "stopDev", "stopSidecar", "undoRmDev",
                       "undoStopSidecar", "undoRmSidecar", "rmVolume", "release",
                       "lateRelease"} \cup DOMAIN Result
BY DEF Handle, InspectDev, InspectSidecar, Allocate, CreateSidecar, StartSidecar,
       WaitSidecarHealth, CreateDev, StartDev, StopDev, StopSidecar, RemoveDev,
       RemoveSidecar, RemoveVolume, Release, Send

LEMMA HandleMoves ==
  ASSUME TypeOK, NEW c \in Commands, Handle(c)
  PROVE  /\ Active(c) /\ stage[c] \in StagesOf(c)
         /\ stage'[c] = After(c).ok \/ stage'[c] = After(c).err
         /\ stage'[c] # "waiting"
<1>1. Active(c)
  BY HandleStages DEF Result, Active, Ended
<1>2. stage[c] \in StagesOf(c)
  BY <1>1, CallStage DEF Active
<1>3. stage'[c] = After(c).ok \/ stage'[c] = After(c).err
  BY DEF Handle, InspectDev, InspectSidecar, Allocate, CreateSidecar,
         StartSidecar, WaitSidecarHealth, CreateDev, StartDev, StopDev,
         StopSidecar, RemoveDev, RemoveSidecar, RemoveVolume, Release, Send,
         Ok, Err, Goto, TypeOK
<1> QED BY <1>1, <1>2, <1>3, NeverWaitsAgain

(* No handler goes back to waiting, and none answers before it began. *)
LEMMA CreateStaysFirst ==
  ASSUME TypeOK, AnswersInv, NEW c \in Commands, Receive(c) \/ Handle(c),
         Spares(c), Begun(c.env)'
  PROVE  CreateFirst'
<1> USE CommandsAssumption
<1>1. ASSUME NEW e \in Envs, Begun(e)
      PROVE  Begun(e)'
  BY <1>1 DEF Spares, Begun
<1>2. ASSUME NEW d \in Commands, stage'[d] # "waiting"
      PROVE  Begun(d.env)'
  BY <1>1, <1>2 DEF Spares, AnswersInv, CreateFirst
<1>3. ASSUME NEW e \in Envs, reported'[e] # "none"
      PROVE  Begun(e)'
  BY <1>1, <1>3 DEF Spares, AnswersInv, CreateFirst
<1> QED BY <1>2, <1>3 DEF CreateFirst

LEMMA AnswersInductive ==
  ASSUME TypeOK, LabelInv, Orderly, AnswersInv, [Next]_vars
  PROVE  AnswersInv'
<1> USE CommandsAssumption
<1>1. ASSUME NEW c \in Commands, Receive(c)
      PROVE  AnswersInv'
  <2>1. Spares(c)
    BY <1>1, SparesOthers
  <2> QED BY <1>1, <2>1, ReceiveOutcome, OutcomeSuffices, CreateStaysFirst
          DEF AnswersInv
<1>2. ASSUME NEW c \in Commands, Handle(c)
      PROVE  AnswersInv'
  <2>1. Spares(c)
    BY <1>2, SparesOthers
  <2>2. Active(c) /\ stage'[c] # "waiting"
    BY <1>2, HandleMoves
  <2>3. Work(c) /\ \A d \in Commands \ {c} : d.env = c.env => ~Active(d)
    BY <2>2 DEF AnswersInv, OneAtATime
  <2>4. Outcome(c)
    BY <1>2, <2>2, <2>3, CallOutcome
  <2>5. Begun(c.env)'
    <3>1. Begun(c.env)
      BY <2>2 DEF AnswersInv, CreateFirst, Active
    <3> QED BY <2>1, <2>2, <3>1 DEF Spares, Begun
  <2> QED BY <1>2, <2>1, <2>3, <2>4, <2>5, OutcomeSuffices, CreateStaysFirst
          DEF AnswersInv
<1>3. CASE Restart
  BY <1>3 DEF Restart, Orderly
<1>4. ASSUME NEW e \in Envs, DevExits(e) \/ SidecarExits(e)
      PROVE  AnswersInv'
  BY <1>4, ExitsHarmless
<1>5. CASE UNCHANGED vars
  <2>1. \A c \in Commands : (Active(c)' <=> Active(c)) /\ (Work(c)' <=> Work(c))
    BY <1>5 DEF vars, Active, Work, BuildsUp, TakesDown, Off, DevOff, NetOff, Up,
                Running, NetMine, Holds
  <2>2. \A e \in Envs : Settled(e)' <=> Settled(e)
    BY <1>5 DEF vars, Settled, Off, DevOff, NetOff, Up, Gone, Running
  <2>3. CreateFirst'
    BY <1>5 DEF vars, AnswersInv, CreateFirst, Begun
  <2> QED BY <2>1, <2>2, <2>3 DEF AnswersInv, OneAtATime, Quiet
<1> QED BY <1>1, <1>2, <1>3, <1>4, <1>5 DEF Next

(* What the invariant says of the answers, whatever else may fail. *)
LEMMA AnswersMean ==
  ASSUME TypeOK, AnswersInv
  PROVE  /\ RunningIsReserved /\ FailedHoldsNothing
         /\ NoExits => DevHasNetwork /\ ReadyIsRunning
         /\ Removing => DeletedLeavesNothing
<1> USE CommandsAssumption
<1>1. ASSUME NEW e \in Envs
      PROVE  Running(e) => Up(e)
  <2>1. CASE Quiet(e)
    <3>1. Settled(e) /\ reported[e] \in Answers
      BY <2>1 DEF AnswersInv, TypeOK
    <3> QED BY <3>1 DEF Settled, Answers, Off, DevOff, Running
  <2>2. CASE ~Quiet(e)
    <3>1. PICK c \in Commands : c.env = e /\ Active(c)
      BY <2>2 DEF Quiet
    <3>2. Work(c) /\ stage[c] \in StagesOf(c) /\ stage[c] # "waiting"
      BY <3>1, CallStage DEF AnswersInv, Active
    <3>3. CASE c.op \in {"create", "start"}
      BY <3>1, <3>2, <3>3
         DEF StagesOf, Handler, HandleCreate, HandleStart, Undo, Work, BuildsUp,
             Off, DevOff, Running
    <3>4. CASE c.op \in {"stop", "delete"}
      BY <3>1, <3>2, <3>4
         DEF StagesOf, Handler, HandleStop, HandleDelete, Work, TakesDown, Off,
             DevOff, Running
    <3> QED BY <3>3, <3>4 DEF CommandNames
  <2> QED BY <2>1, <2>2
<1>2. RunningIsReserved
  BY <1>1 DEF RunningIsReserved, Up
<1>3. NoExits => DevHasNetwork
  BY <1>1 DEF DevHasNetwork, Up
<1>4. /\ FailedHoldsNothing
      /\ NoExits => ReadyIsRunning
      /\ Removing => DeletedLeavesNothing
  BY DEF AnswersInv, Settled, Up, Off, Gone, DevOff, NetOff, Running,
         ReadyIsRunning, FailedHoldsNothing, DeletedLeavesNothing
<1> QED BY <1>2, <1>3, <1>4

LEMMA AnswersHold ==
  ASSUME Orderly
  PROVE  Spec => [](TypeOK /\ AnswersInv)
<1>1. Init => AnswersInv
  <2> SUFFICES ASSUME Init
               PROVE  AnswersInv
    OBVIOUS
  <2>1. /\ \A e \in Envs : /\ dev[e] = NoContainer /\ sidecar[e] = NoContainer
                           /\ allocated[e] = {} /\ reported[e] = "none"
        /\ \A c \in Commands : stage[c] = "waiting"
    BY DEF Init, Alloc!Empty
  <2> QED BY <2>1 DEF AnswersInv, OneAtATime, CreateFirst, Active, Settled, Off,
                      DevOff, NetOff, NoContainer
<1>2. TypeOK /\ LabelInv /\ AnswersInv /\ [Next]_vars => AnswersInv'
  BY AnswersInductive
<1>3. Spec => []LabelInv
  BY LabelsInvariant
<1> QED BY <1>1, <1>2, <1>3, TypeCorrect, PTL DEF Spec

(* Under an orderly control plane a running dev container uses only GPUs
   reserved for its environment, at every step of every handler, though
   containers exit and removals fail: the comment in HandleStart about the
   actual current allocation (dispatcher.go). *)
THEOREM OrderlyRunsReserved ==
  ASSUME Orderly
  PROVE  Spec => []RunningIsReserved
BY AnswersHold, AnswersMean, PTL

(* And so no two running dev containers ever share a GPU. *)
THEOREM OrderlyExclusive ==
  ASSUME Orderly
  PROVE  Spec => []GpuExclusive
BY OrderlyRunsReserved, ReservedIsExclusive, PTL

(* As long as no container exits by itself, a dev container runs only while the
   sidecar whose network it uses runs: no handler starts it too early or stops
   the sidecar first, even if it cannot remove an old container. *)
THEOREM OrderlyHasNetwork ==
  ASSUME Orderly, NoExits
  PROVE  Spec => []DevHasNetwork
BY AnswersHold, AnswersMean, PTL

(* As long as no container exits by itself, what EnvReady tells is true until
   the next command: the dev container runs on exactly the GPUs reserved for it. *)
THEOREM ReadyMeansRunning ==
  ASSUME Orderly, NoExits
  PROVE  Spec => []ReadyIsRunning
BY AnswersHold, AnswersMean, PTL

(* EnvStopped and EnvError leave nothing running and nothing reserved, though
   containers exit and removals fail: every cleanup path of HandleCreate,
   HandleStart and HandleStop is complete. *)
THEOREM FailureMeansNothing ==
  ASSUME Orderly
  PROVE  Spec => []FailedHoldsNothing
BY AnswersHold, AnswersMean, PTL

(* If Docker removes what it is told to, EnvDeleted leaves no container, no
   volume and no reservation; HandleDelete ignores every error, so the
   condition is needed. *)
THEOREM DeletedMeansNothing ==
  ASSUME Orderly, Removing
  PROVE  Spec => []DeletedLeavesNothing
BY AnswersHold, AnswersMean, PTL

-----------------------------------------------------------------------------
(***************************************************************************)
(* The handlers implement EnvHandlers.  The mapping counts a dev container *)
(* as what it is going to be, so the proof needs to know where it is while *)
(* a handler is at work: a create finds none, a start has seen one, and    *)
(* what they start or undo is their own.                                   *)
(***************************************************************************)
DevKnown(c) ==
    /\ c.op = "create" /\ stage[c] \in {"allocate", "mkSidecar", "startSidecar",
                                        "health"} => dev[c.env] = NoContainer
    /\ c.op = "start" /\ stage[c] \in {"inspectSidecar", "allocate", "rmSidecar",
                                       "mkSidecar", "startSidecar", "health", "rmDev"}
         => dev[c.env] # NoContainer
    /\ stage[c] = "mkDev" => dev[c.env] = NoContainer
    /\ stage[c] \in {"startDev", "undoRmDev"} => dev[c.env].by = c

DevInv ==
    /\ \A e \in Envs : ~Begun(e) => dev[e] = NoContainer
    /\ \A c \in Commands : Active(c) => DevKnown(c)

(* What a call does to the dev container, and what it answers. *)
DevCall(c) ==
    /\ \/ stage'[c] = After(c).ok
       \/ stage'[c] = After(c).err /\ stage[c] \notin DOMAIN Result
    /\ stage[c] = "inspectDev" /\ dev[c.env] = NoContainer
         => stage'[c] = After(c).err
    /\ stage[c] = "mkDev" =>
         \/ stage'[c] = After(c).err /\ dev'[c.env] = dev[c.env]
         \/ /\ stage'[c] = After(c).ok
            /\ dev'[c.env].by = c /\ dev'[c.env].state = "created"
    /\ stage[c] = "startDev" =>
         \/ stage'[c] = After(c).err /\ dev'[c.env] = dev[c.env]
         \/ stage'[c] = After(c).ok /\ dev'[c.env].state = "running"
    /\ stage[c] = "stopDev" =>
         /\ dev'[c.env].state # "running"
         /\ dev'[c.env] = NoContainer <=> dev[c.env] = NoContainer
    /\ stage[c] \in {"rmDev", "undoRmDev"} => dev'[c.env] = NoContainer
    /\ stage[c] = "rmDev" /\ dev[c.env] # NoContainer => stage'[c] = After(c).ok
    /\ stage[c] \notin {"mkDev", "startDev", "stopDev", "rmDev", "undoRmDev"}
         => dev'[c.env] = dev[c.env]
    /\ answer'[c] = IF stage[c] \in DOMAIN Result THEN Result[stage[c]]
                    ELSE answer[c]
    /\ \A d \in Commands \ {c} : answer'[d] = answer[d]

LEMMA DevCalls ==
  ASSUME TypeOK, Orderly, Removing, NEW c \in Commands, DevKnown(c), Handle(c)
  PROVE  DevCall(c)
<1> USE CommandsAssumption
<1>a. /\ c.env \in Envs /\ dev[c.env] \in Container
      /\ \A s : Goto(c, s) => stage'[c] = s
      /\ "down" \notin Faults /\ "rm" \notin Faults
      /\ NoContainer.by # c /\ NoContainer.state = "none"
      /\ DOMAIN Result = {"sendReady", "sendError", "sendErrorFirst",
                          "sendStopped", "sendDeleted"}
  BY DEF TypeOK, Goto, Orderly, Removing, NoContainer, Result
<1>1. ASSUME \/ InspectDev(c) \/ InspectSidecar(c) \/ Allocate(c)
             \/ CreateSidecar(c) \/ StartSidecar(c) \/ WaitSidecarHealth(c)
             \/ StopSidecar(c) \/ RemoveSidecar(c) \/ RemoveVolume(c)
             \/ Release(c)
      PROVE  DevCall(c)
  <2>1. /\ dev' = dev /\ answer' = answer
        /\ Goto(c, After(c).ok) \/ Goto(c, After(c).err)
        /\ stage[c] \notin {"mkDev", "startDev", "stopDev", "rmDev", "undoRmDev",
                            "sendReady", "sendError", "sendErrorFirst",
                            "sendStopped", "sendDeleted"}
    BY <1>1 DEF InspectDev, InspectSidecar, Allocate, CreateSidecar, StartSidecar,
                WaitSidecarHealth, StopSidecar, RemoveSidecar, RemoveVolume,
                Release, Ok, Err, Local
  <2>2. stage[c] = "inspectDev" /\ dev[c.env] = NoContainer
          => Goto(c, After(c).err)
    BY <1>1 DEF InspectDev, InspectSidecar, Allocate, CreateSidecar, StartSidecar,
                WaitSidecarHealth, StopSidecar, RemoveSidecar, RemoveVolume,
                Release, Found, ById, Err
  <2> QED BY <1>a, <2>1, <2>2 DEF DevCall
<1>2. CASE CreateDev(c)
  <2>1. stage[c] = "mkDev" /\ answer' = answer
    BY <1>2 DEF CreateDev, Local
  <2>2. CASE Goto(c, After(c).err) /\ dev' = dev
    BY <1>a, <2>1, <2>2 DEF DevCall
  <2>3. CASE /\ Goto(c, After(c).ok)
             /\ \E g, l : dev' = [dev EXCEPT ![c.env] = NewContainer(c, g, l)]
    <3>1. dev'[c.env].by = c /\ dev'[c.env].state = "created"
      BY <1>a, <2>3 DEF NewContainer, TypeOK
    <3> QED BY <1>a, <2>1, <2>3, <3>1 DEF DevCall
  <2> QED BY <1>2, <2>2, <2>3 DEF CreateDev, Ok, Err
<1>3. CASE StartDev(c)
  <2>1. stage[c] = "startDev" /\ answer' = answer
    BY <1>3 DEF StartDev, Local
  <2>2. CASE Goto(c, After(c).err) /\ dev' = dev
    BY <1>a, <2>1, <2>2 DEF DevCall
  <2>3. CASE Goto(c, After(c).ok) /\ dev' = [dev EXCEPT ![c.env].state = "running"]
    <3>1. dev'[c.env].state = "running"
      BY <1>a, <2>3 DEF Container, TypeOK
    <3> QED BY <1>a, <2>1, <2>3, <3>1 DEF DevCall
  <2> QED BY <1>3, <2>2, <2>3 DEF StartDev, Ok, Err
<1>4. CASE StopDev(c)
  <2>1. /\ stage[c] = "stopDev" /\ answer' = answer
        /\ Goto(c, After(c).ok) \/ Goto(c, After(c).err)
    BY <1>4 DEF StopDev, Local, Ok, Err
  <2>2. dev'[c.env] = Stopped(dev[c.env])
    <3>1. CASE dev' = dev /\ dev[c.env] = NoContainer
      BY <1>a, <3>1 DEF Stopped
    <3>2. CASE dev' = [dev EXCEPT ![c.env] = Stopped(@)]
      BY <1>a, <3>2 DEF TypeOK
    <3> QED BY <1>a, <1>4, <2>1, <3>1, <3>2 DEF StopDev, Err, Found, ById
  <2>3. /\ Stopped(dev[c.env]).state # "running"
        /\ Stopped(dev[c.env]) = NoContainer <=> dev[c.env] = NoContainer
    BY <1>a DEF Stopped, Container
  <2> QED BY <1>a, <2>1, <2>2, <2>3 DEF DevCall
<1>5. CASE RemoveDev(c)
  <2>1. stage[c] \in {"rmDev", "undoRmDev"} /\ answer' = answer
    BY <1>5 DEF RemoveDev, Local
  <2>2. CASE Goto(c, After(c).ok) /\ dev' = [dev EXCEPT ![c.env] = NoContainer]
    <3>1. dev'[c.env] = NoContainer
      BY <1>a, <2>2 DEF TypeOK
    <3> QED BY <1>a, <2>1, <2>2, <3>1 DEF DevCall
  <2>3. CASE Goto(c, After(c).err) /\ dev' = dev /\ ~Found(c, dev)
    <3>1. stage[c] = "rmDev" /\ dev[c.env] = NoContainer
      BY <2>1, <2>3 DEF Found, ById, DevKnown
    <3> QED BY <1>a, <2>1, <2>3, <3>1 DEF DevCall
  <2> QED BY <1>5, <1>a, <2>2, <2>3 DEF RemoveDev, Ok, Err
<1>6. CASE Send(c)
  <2>1. /\ stage[c] \in DOMAIN Result /\ dev' = dev /\ Goto(c, After(c).ok)
        /\ answer' = [answer EXCEPT ![c] = Result[stage[c]]]
    BY <1>6 DEF Send, Ok
  <2>2. answer'[c] = Result[stage[c]] /\ \A d \in Commands \ {c} : answer'[d] = answer[d]
    BY <2>1 DEF TypeOK
  <2> QED BY <1>a, <2>1, <2>2 DEF DevCall
<1> QED BY <1>1, <1>2, <1>3, <1>4, <1>5, <1>6 DEF Handle

(* Each handler leaves the dev container where its next stage expects it. *)
LEMMA DevInductive ==
  ASSUME TypeOK, Orderly, Removing, AnswersInv, AnswersInv', DevInv, [Next]_vars
  PROVE  DevInv'
<1> USE CommandsAssumption
<1>1. ASSUME NEW c \in Commands, Receive(c) \/ Handle(c), DevKnown(c)',
             \A d \in Commands \ {c} : Active(d) /\ d.env = c.env => dev' = dev
      PROVE  DevInv'
  <2>1. Spares(c)
    BY <1>1, SparesOthers
  <2>2. ASSUME NEW d \in Commands \ {c}, Active(d)'
        PROVE  DevKnown(d)'
    <3>1. Active(d) /\ DevKnown(d) /\ dev'[d.env] = dev[d.env] /\ stage'[d] = stage[d]
      BY <1>1, <2>1, <2>2 DEF Spares, Active, DevInv
    <3> QED BY <3>1 DEF DevKnown
  <2>3. ASSUME NEW e \in Envs, ~Begun(e)'
        PROVE  dev'[e] = NoContainer
    <3>1. stage'[c] # "waiting"
      <4>1. CASE Receive(c)
        BY <4>1, NeverWaitsAgain, CallStage DEF Receive, Ok, Goto, TypeOK, Ended
      <4>2. CASE Handle(c)
        BY <4>2, HandleMoves
      <4> QED BY <1>1, <4>1, <4>2
    <3>2. e # c.env
      BY <2>3, <3>1 DEF AnswersInv, CreateFirst
    <3>3. ~Begun(e)
      BY <2>1, <2>3, <3>2 DEF Spares, Begun
    <3> QED BY <2>1, <3>2, <3>3 DEF Spares, DevInv
  <2> QED BY <1>1, <2>2, <2>3 DEF DevInv
<1>2. ASSUME NEW c \in Commands, Receive(c)
      PROVE  DevInv'
  <2>1. /\ dev' = dev /\ stage'[c] = After(c).ok /\ stage[c] = "waiting"
        /\ stage[c] \in StagesOf(c)
    BY <1>2, CallStage DEF Receive, Ok, Goto, TypeOK, Ended
  <2>2. c.op = "create" => dev[c.env] = NoContainer
    BY <2>1 DEF DevInv, Begun, Orderly
  <2>3. DevKnown(c)'
    BY <2>1, <2>2, NextStages DEF DevKnown, CommandNames
  <2> QED BY <1>1, <1>2, <2>1, <2>3
<1>3. ASSUME NEW c \in Commands, Handle(c)
      PROVE  DevInv'
  <2>1. /\ Active(c) /\ stage[c] \in StagesOf(c) /\ DevKnown(c)
        /\ \A d \in Commands \ {c} : d.env = c.env => ~Active(d)
    BY <1>3, HandleMoves DEF AnswersInv, OneAtATime, DevInv
  <2>2. DevCall(c)
    BY <1>3, <2>1, DevCalls
  <2>3. DevKnown(c)'
    <3>1. CASE stage[c] = "mkDev"
      BY <2>1, <2>2, <3>1, NextStages DEF DevCall, DevKnown
    <3>2. CASE stage[c] \in {"startDev", "stopDev", "rmDev", "undoRmDev"}
      BY <2>1, <2>2, <3>2, NextStages DEF DevCall, DevKnown
    <3>3. CASE stage[c] \in {"inspectDev", "inspectSidecar", "allocate"}
      BY <2>1, <2>2, <3>3, NextStages DEF DevCall, DevKnown
    <3>4. CASE stage[c] \in {"rmSidecar", "mkSidecar", "startSidecar", "health"}
      BY <2>1, <2>2, <3>4, NextStages DEF DevCall, DevKnown
    <3>5. CASE stage[c] \in {"stopSidecar", "undoStopSidecar", "undoRmSidecar"}
      <4>1. stage'[c] \in {"release", "undoRmSidecar"} \/ c.op = "delete"
        BY <2>1, <2>2, <3>5, NextStages DEF DevCall
      <4>2. stage'[c] \in {"release", "rmDev", "undoRmSidecar"}
        BY <2>1, <2>2, <3>5, NextStages DEF DevCall
      <4> QED BY <4>1, <4>2 DEF DevKnown
    <3>6. CASE stage[c] \in {"rmVolume", "release", "lateRelease"}
      <4>1. stage'[c] \in {"release", "sendError", "sendStopped", "sendDeleted", "done"}
        BY <2>1, <2>2, <3>6, NextStages DEF DevCall
      <4> QED BY <4>1 DEF DevKnown
    <3>7. CASE stage[c] \in DOMAIN Result
      <4>1. stage'[c] \in {"done", "lateRelease"}
        BY <2>1, <2>2, <3>7, NextStages DEF DevCall, Result
      <4> QED BY <4>1 DEF DevKnown
    <3> QED BY <1>3, <3>1, <3>2, <3>3, <3>4, <3>5, <3>6, <3>7, HandleStages
  <2> QED BY <1>1, <1>3, <2>1, <2>3
<1>4. ASSUME NEW e \in Envs, DevExits(e) \/ SidecarExits(e)
      PROVE  DevInv'
  <2>1. stage' = stage
    BY <1>4 DEF DevExits, SidecarExits
  <2>2. ASSUME NEW f \in Envs
        PROVE  /\ dev'[f].by = dev[f].by
               /\ dev'[f] = NoContainer <=> dev[f] = NoContainer
    <3>1. CASE dev' = dev
      BY <3>1, Zenon
    <3>2. CASE dev[e].state = "running" /\ dev' = [dev EXCEPT ![e].state = "crashed"]
      <4>1. dev \in [Envs -> Container] /\ NoContainer.state = "none"
        BY DEF TypeOK, NoContainer
      <4>2. /\ dev'[f].by = dev[f].by
            /\ \/ dev'[f] = dev[f]
               \/ dev[f].state = "running" /\ dev'[f].state = "crashed"
        BY <3>2, <4>1, ExitStep DEF Container
      <4> QED BY <4>1, <4>2
    <3> QED BY <1>4, <3>1, <3>2 DEF DevExits, SidecarExits
  <2> QED BY <2>1, <2>2 DEF DevInv, DevKnown, Begun, Active
<1>5. CASE Restart
  BY <1>5 DEF Restart, Orderly
<1>6. CASE UNCHANGED vars
  BY <1>6 DEF vars, DevInv, DevKnown, Begun, Active
<1> QED BY <1>2, <1>3, <1>4, <1>5, <1>6 DEF Next

(* The dev container of the environment the handler of c works on alone, as
   the mapping counts it. *)
OwnBox(c) ==
    IF Running(c.env) THEN "running"
    ELSE IF c.op = "start" /\ stage[c] \in {"mkDev", "startDev"} THEN "stopped"
    ELSE IF \/ dev[c.env] = NoContainer
            \/ c.op = "create" /\ stage[c] = "startDev"
            \/ c.op = "delete" /\ stage[c] \in {"stopSidecar", "rmDev"}
            \/ stage[c] = "undoRmDev"
         THEN "none" ELSE "stopped"

(* A step of one handler concerns its own part of the mapping. *)
LEMMA MapsOwn ==
  ASSUME TypeOK, NEW c \in Commands, Spares(c),
         \A d \in Commands \ {c} : answer'[d] = answer[d],
         \A d \in Commands \ {c} : d.env = c.env => ~Active(d)
  PROVE  /\ BoxOf(c.env) = OwnBox(c) /\ BoxOf(c.env)' = OwnBox(c)'
         /\ \A e \in Envs \ {c.env} : BoxOf(e)' = BoxOf(e)
         /\ \A d \in Commands \ {c} :
               JobOf(d)' = JobOf(d) /\ ResultOf(d)' = ResultOf(d)
<1> USE CommandsAssumption
<1>1. \A d \in Commands \ {c} : stage'[d] = stage[d] /\ (Active(d)' <=> Active(d))
  BY DEF Spares, Active
<1>2. /\ Replacing(c.env) <=> c.op = "start" /\ stage[c] \in {"mkDev", "startDev"}
      /\ Discarded(c.env) <=> \/ c.op = "create" /\ stage[c] = "startDev"
                              \/ c.op = "delete" /\ stage[c] \in {"stopSidecar", "rmDev"}
                              \/ stage[c] = "undoRmDev"
  BY DEF Replacing, Discarded, Active, Ended
<1>3. /\ Replacing(c.env)' <=> c.op = "start" /\ stage'[c] \in {"mkDev", "startDev"}
      /\ Discarded(c.env)' <=> \/ c.op = "create" /\ stage'[c] = "startDev"
                               \/ c.op = "delete" /\ stage'[c] \in {"stopSidecar", "rmDev"}
                               \/ stage'[c] = "undoRmDev"
  BY <1>1 DEF Replacing, Discarded, Active, Ended
<1>4. BoxOf(c.env) = OwnBox(c)
  BY <1>2 DEF BoxOf, OwnBox
<1>5. BoxOf(c.env)' = OwnBox(c)'
  BY <1>3 DEF BoxOf, OwnBox
<1>6. ASSUME NEW e \in Envs \ {c.env}
      PROVE  BoxOf(e)' = BoxOf(e)
  <2>1. (Replacing(e)' <=> Replacing(e)) /\ (Discarded(e)' <=> Discarded(e))
    BY <1>1 DEF Replacing, Discarded
  <2>2. dev'[e] = dev[e]
    BY DEF Spares
  <2> QED BY <2>1, <2>2 DEF BoxOf, Running
<1>7. ASSUME NEW d \in Commands \ {c}
      PROVE  JobOf(d)' = JobOf(d) /\ ResultOf(d)' = ResultOf(d)
  <2>1. JobOf(d)' = JobOf(d)
    BY <1>1 DEF JobOf, Decided
  <2> QED BY <1>1, <2>1 DEF ResultOf
<1> QED BY <1>4, <1>5, <1>6, <1>7

(* Where a handler is and what it reports, by its stage. *)
Steady == {"waiting", "lateRelease", "done", "killed"}

Mapped(c) ==
    /\ stage[c] = "waiting" => JobOf(c) = "none" /\ ResultOf(c) = "none"
    /\ stage[c] \in {"lateRelease", "done"}
         => JobOf(c) = "done" /\ ResultOf(c) = answer[c]
    /\ stage[c] \notin Steady /\ ~Decided(c)
         => JobOf(c) = "running" /\ ResultOf(c) = "none"
    /\ stage[c] \notin Steady /\ Decided(c) =>
         /\ JobOf(c) = "reporting"
         /\ ResultOf(c) = IF c.op = "stop" THEN "stopped"
                          ELSE IF c.op = "delete" THEN "deleted"
                          ELSE IF stage[c] = "sendReady" THEN "ready" ELSE "error"

LEMMA Mapping == \A c \in Commands : Mapped(c)
<1> SUFFICES ASSUME NEW c \in Commands
             PROVE  Mapped(c)
  OBVIOUS
<1>1. /\ stage[c] = "waiting" => JobOf(c) = "none"
      /\ stage[c] \in {"lateRelease", "done"} => JobOf(c) = "done"
      /\ stage[c] \notin Steady =>
           JobOf(c) = IF Decided(c) THEN "reporting" ELSE "running"
  BY DEF JobOf, Steady
<1>2. /\ JobOf(c) = "done" => ResultOf(c) = answer[c]
      /\ JobOf(c) \in {"none", "running"} => ResultOf(c) = "none"
      /\ JobOf(c) = "reporting" =>
           ResultOf(c) = IF c.op = "stop" THEN "stopped"
                         ELSE IF c.op = "delete" THEN "deleted"
                         ELSE IF stage[c] = "sendReady" THEN "ready" ELSE "error"
  <2>1. c.op \in {"create", "start", "stop", "delete"}
    BY CommandsAssumption DEF CommandNames
  <2>2. CASE JobOf(c) = "done"
    BY <2>2 DEF ResultOf
  <2>3. CASE JobOf(c) \in {"none", "running"}
    BY <2>3 DEF ResultOf
  <2>4. CASE JobOf(c) = "reporting"
    BY <2>1, <2>4 DEF ResultOf
  <2> QED BY <2>2, <2>3, <2>4
<1> QED BY <1>1, <1>2 DEF Mapped

LEMMA MappingNext == (\A c \in Commands : Mapped(c))'
BY Mapping, PTL

(* What EnvHandlers lets a handler make of the dev container. *)
LEMMA Allowed ==
  ASSUME NEW c \in Commands
  PROVE  LET may == Handlers!Outcomes(c)
             was == BoxOf(c.env)
         IN
    /\ c.op = "create" => <<"running", "ready">> \in may /\ <<"none", "error">> \in may
    /\ c.op = "start" => <<was, "error">> \in may
    /\ c.op = "start" /\ was # "none"
         => <<"running", "ready">> \in may /\ <<"none", "error">> \in may
    /\ c.op = "stop"
         => <<IF was = "none" THEN "none" ELSE "stopped", "stopped">> \in may
    /\ c.op = "delete" => <<"none", "deleted">> \in may
<1> USE CommandsAssumption
<1>1. [e \in Envs |-> BoxOf(e)][c.env] = BoxOf(c.env)
  OBVIOUS
<1>2. CASE c.op = "create"
  BY <1>1, <1>2 DEF Handlers!Outcomes, Handlers!If
<1>3. CASE c.op = "start"
  BY <1>1, <1>3 DEF Handlers!Outcomes, Handlers!If
<1>4. CASE c.op = "stop"
  BY <1>1, <1>4 DEF Handlers!Outcomes, Handlers!If
<1>5. CASE c.op = "delete"
  BY <1>1, <1>5 DEF Handlers!Outcomes, Handlers!If
<1> QED BY <1>2, <1>3, <1>4, <1>5 DEF CommandNames

(* The step of EnvHandlers that a step of the handler of c is. *)
Kept(c)     == /\ OwnBox(c)' = OwnBox(c) /\ JobOf(c)' = JobOf(c)
               /\ ResultOf(c)' = ResultOf(c)
Executed(c) == /\ JobOf(c) = "running" /\ JobOf(c)' = "reporting"
               /\ <<OwnBox(c)', ResultOf(c)'>> \in Handlers!Outcomes(c)
Sent(c)     == /\ JobOf(c) = "reporting" /\ JobOf(c)' = "done"
               /\ OwnBox(c)' = OwnBox(c) /\ ResultOf(c)' = ResultOf(c)

LEMMA CallMaps ==
  ASSUME TypeOK, Orderly, Removing, NEW c \in Commands, Handle(c), Work(c),
         DevKnown(c), BoxOf(c.env) = OwnBox(c)
  PROVE  Kept(c) \/ Executed(c) \/ Sent(c)
<1> USE CommandsAssumption
<1> DEFINE s == stage[c]
           t == stage'[c]
           ok == After(c).ok
           err == After(c).err
           is == dev[c.env]
           will == dev'[c.env]
<1>1. Mapped(c) /\ Mapped(c)'
  <2>1. Mapped(c)
    BY Mapping
  <2>2. Mapped(c)'
    BY MappingNext
  <2> QED BY <2>1, <2>2
<1>2. stage[c] \in StagesOf(c) /\ DevCall(c)
  BY HandleMoves, DevCalls
<1>3. NoContainer.state = "none"
  BY DEF NoContainer
<1>4. DOMAIN Undo = {"undoRmDev", "undoStopSidecar", "undoRmSidecar", "release",
                     "sendError", "sendReady"}
  BY DEF Undo
<1>5. DOMAIN Result = {"sendReady", "sendError", "sendErrorFirst", "sendStopped",
                       "sendDeleted"}
  BY DEF Result
<1>6. CASE /\ c.op \in {"create", "start"}
           /\ s \in {"inspectDev", "inspectSidecar", "allocate", "rmSidecar",
                     "mkSidecar", "startSidecar", "health"}
  <2>1. is.state # "running" /\ will = is
    BY <1>2, <1>6 DEF DevCall, Work, BuildsUp, Off, DevOff
  <2>2. \/ t \in {"inspectSidecar", "allocate", "rmSidecar", "mkSidecar",
                  "startSidecar", "health"}
        \/ t = "rmDev" /\ c.op = "start"
        \/ t = "mkDev" /\ c.op = "create"
        \/ t \in {"sendError", "sendErrorFirst", "release", "undoRmSidecar",
                  "undoStopSidecar"}
    BY <1>2, <1>6, NextStages DEF DevCall
  <2>3. OwnBox(c) = IF is = NoContainer THEN "none" ELSE "stopped"
    BY <1>6, <2>1 DEF OwnBox, Running
  <2>4. OwnBox(c)' = OwnBox(c)
    BY <1>6, <2>1, <2>2, <2>3 DEF OwnBox, Running
  <2>5. JobOf(c) = "running" /\ ResultOf(c) = "none"
    BY <1>1, <1>4, <1>6 DEF Mapped, Decided, Steady
  <2>6. CASE t \in {"inspectSidecar", "allocate", "rmSidecar", "mkSidecar",
                    "startSidecar", "health", "rmDev", "mkDev"}
    BY <1>1, <1>4, <1>6, <2>4, <2>5, <2>6 DEF Mapped, Decided, Steady, Kept
  <2>7. CASE t \in {"sendError", "sendErrorFirst", "release", "undoRmSidecar",
                    "undoStopSidecar"}
    <3>1. JobOf(c)' = "reporting" /\ ResultOf(c)' = "error"
      BY <1>1, <1>4, <1>6, <2>7 DEF Mapped, Decided, Steady
    <3>2. c.op = "create" => OwnBox(c) = "none"
      <4>1. c.op = "create" => is = NoContainer
        BY <1>2, <1>6, NextStages DEF DevKnown
      <4> QED BY <2>3, <4>1
    <3> QED BY <1>6, <2>4, <2>5, <3>1, <3>2, Allowed DEF Executed
  <2> QED BY <2>2, <2>6, <2>7
<1>7. CASE c.op = "start" /\ s = "rmDev"
  <2>1. is.state # "running" /\ is # NoContainer /\ will = NoContainer /\ t = "mkDev"
    BY <1>2, <1>7, NextStages DEF DevCall, DevKnown, Work, BuildsUp, DevOff
  <2>2. OwnBox(c) = "stopped" /\ OwnBox(c)' = "stopped"
    BY <1>3, <1>7, <2>1 DEF OwnBox, Running
  <2> QED BY <1>1, <1>4, <1>7, <2>1, <2>2 DEF Mapped, Decided, Steady, Kept
<1>8. CASE s = "mkDev"
  <2>1. c.op \in {"create", "start"} /\ is = NoContainer
    BY <1>2, <1>8, NextStages DEF DevKnown
  <2>2. OwnBox(c) = IF c.op = "create" THEN "none" ELSE "stopped"
    BY <1>3, <1>8, <2>1 DEF OwnBox, Running
  <2>3. JobOf(c) = "running" /\ ResultOf(c) = "none"
    BY <1>1, <1>4, <1>8, <2>1 DEF Mapped, Decided, Steady
  <2>4. CASE t = "startDev" /\ will.state = "created"
    <3>1. OwnBox(c)' = OwnBox(c)
      BY <2>1, <2>2, <2>4 DEF OwnBox, Running
    <3> QED BY <1>1, <1>4, <2>1, <2>3, <2>4, <3>1 DEF Mapped, Decided, Steady, Kept
  <2>5. CASE t = "undoStopSidecar" /\ will = NoContainer
    <3>1. OwnBox(c)' = "none"
      BY <1>3, <2>5 DEF OwnBox, Running
    <3>2. JobOf(c)' = "reporting" /\ ResultOf(c)' = "error"
      BY <1>1, <1>4, <2>1, <2>5 DEF Mapped, Decided, Steady
    <3> QED BY <2>1, <2>2, <2>3, <3>1, <3>2, Allowed DEF Executed
  <2> QED BY <1>2, <1>8, <2>1, <2>4, <2>5, NextStages DEF DevCall
<1>9. CASE s = "startDev"
  <2>1. /\ c.op \in {"create", "start"} /\ is.state # "running"
        /\ \/ t = "undoRmDev" /\ will = is
           \/ t = "sendReady" /\ will.state = "running"
    BY <1>2, <1>9, NextStages DEF DevCall, Work, BuildsUp, DevOff
  <2>2. OwnBox(c) = IF c.op = "create" THEN "none" ELSE "stopped"
    BY <1>9, <2>1 DEF OwnBox, Running
  <2>3. JobOf(c) = "running"
    BY <1>1, <1>4, <1>9, <2>1 DEF Mapped, Decided, Steady
  <2>4. CASE t = "undoRmDev" /\ will = is
    <3>1. OwnBox(c)' = "none"
      BY <2>1, <2>4 DEF OwnBox, Running
    <3>2. JobOf(c)' = "reporting" /\ ResultOf(c)' = "error"
      BY <1>1, <1>4, <2>1, <2>4 DEF Mapped, Decided, Steady
    <3> QED BY <2>1, <2>2, <2>3, <3>1, <3>2, Allowed DEF Executed
  <2>5. CASE t = "sendReady" /\ will.state = "running"
    <3>1. OwnBox(c)' = "running"
      BY <2>5 DEF OwnBox, Running
    <3>2. JobOf(c)' = "reporting" /\ ResultOf(c)' = "ready"
      BY <1>1, <1>4, <2>1, <2>5 DEF Mapped, Decided, Steady
    <3> QED BY <2>1, <2>2, <2>3, <3>1, <3>2, Allowed DEF Executed
  <2> QED BY <2>1, <2>4, <2>5
<1>10. CASE /\ c.op \in {"create", "start"}
            /\ s \in {"undoRmDev", "undoStopSidecar", "undoRmSidecar", "release"}
  <2>1. t \in {"undoStopSidecar", "undoRmSidecar", "release", "sendError"}
    BY <1>2, <1>10, NextStages DEF DevCall
  <2>2. is.state # "running"
    BY <1>10 DEF Work, BuildsUp, DevOff
  <2>3. IF s = "undoRmDev" THEN will = NoContainer ELSE will = is
    BY <1>2, <1>10 DEF DevCall
  <2>4. OwnBox(c)' = OwnBox(c)
    BY <1>3, <1>10, <2>1, <2>2, <2>3 DEF OwnBox, Running
  <2> QED BY <1>1, <1>4, <1>10, <2>1, <2>4 DEF Mapped, Decided, Steady, Kept
<1>11. CASE s \in DOMAIN Result
  <2>1. t \in {"done", "lateRelease"} /\ will = is /\ answer'[c] = Result[s]
    BY <1>2, <1>5, <1>11, NextStages DEF DevCall
  <2>2. OwnBox(c)' = OwnBox(c)
    BY <1>5, <1>11, <2>1 DEF OwnBox, Running
  <2>3. \/ c.op = "stop" /\ s = "sendStopped"
        \/ c.op = "delete" /\ s = "sendDeleted"
        \/ c.op \in {"create", "start"} /\ s \in {"sendReady", "sendError", "sendErrorFirst"}
    BY <1>2, <1>5, <1>11, NextStages
  <2>4. JobOf(c) = "reporting" /\ ResultOf(c) = Result[s]
    BY <1>1, <1>4, <2>3 DEF Mapped, Decided, Steady, Result
  <2> QED BY <1>1, <2>1, <2>2, <2>4 DEF Mapped, Sent
<1>12. CASE s = "lateRelease"
  <2>1. t = "done" /\ will = is /\ answer'[c] = answer[c]
    BY <1>2, <1>5, <1>12, NextStages DEF DevCall
  <2>2. OwnBox(c)' = OwnBox(c)
    BY <1>12, <2>1 DEF OwnBox, Running
  <2> QED BY <1>1, <1>12, <2>1, <2>2 DEF Mapped, Kept
<1>13. CASE s = "stopDev"
  <2>1. /\ c.op \in {"stop", "delete"} /\ t = "stopSidecar"
        /\ will.state # "running" /\ (will = NoContainer <=> is = NoContainer)
    BY <1>2, <1>13, NextStages DEF DevCall
  <2>2. OwnBox(c) = "none" <=> is = NoContainer
    BY <1>3, <1>13, <2>1 DEF OwnBox, Running
  <2>3. OwnBox(c)' = IF c.op = "delete" \/ is = NoContainer THEN "none" ELSE "stopped"
    BY <2>1 DEF OwnBox, Running
  <2>4. /\ JobOf(c) = "running" /\ JobOf(c)' = "reporting"
        /\ ResultOf(c)' = IF c.op = "stop" THEN "stopped" ELSE "deleted"
    BY <1>1, <1>13, <2>1 DEF Mapped, Decided, Steady
  <2> QED BY <2>1, <2>2, <2>3, <2>4, Allowed DEF Executed
<1>14. CASE /\ c.op \in {"stop", "delete"}
            /\ s \in {"stopSidecar", "rmDev", "rmSidecar", "rmVolume", "release"}
  <2>1. t \in {"rmDev", "rmSidecar", "rmVolume", "release", "sendStopped", "sendDeleted"}
    BY <1>2, <1>14, NextStages DEF DevCall
  <2>2. /\ c.op = "stop" => t # "rmDev" /\ s # "rmDev"
        /\ s = "stopSidecar" /\ c.op = "delete" => t = "rmDev"
        /\ s = "rmDev" => t = "rmSidecar"
        /\ s \notin {"stopSidecar", "rmDev"} => t # "rmDev"
    BY <1>2, <1>14, NextStages DEF DevCall
  <2>3. is.state # "running"
    BY <1>14 DEF Work, TakesDown, DevOff
  <2>4. IF s = "rmDev" THEN will = NoContainer ELSE will = is
    BY <1>2, <1>14 DEF DevCall
  <2>5. OwnBox(c)' = OwnBox(c)
    BY <1>3, <1>14, <2>1, <2>2, <2>3, <2>4 DEF OwnBox, Running
  <2> QED BY <1>1, <1>14, <2>1, <2>5 DEF Mapped, Decided, Steady, Kept
<1>15. c.op \in {"create", "start", "stop", "delete"}
  BY DEF CommandNames
<1>16. /\ s \in {"inspectDev", "inspectSidecar", "allocate", "mkSidecar",
                 "startSidecar", "health"} => c.op \in {"create", "start"}
       /\ s = "rmSidecar" => c.op \in {"start", "delete"}
       /\ s = "rmDev" => c.op \in {"start", "delete"}
       /\ s \in {"stopSidecar", "rmVolume"} => c.op \in {"stop", "delete"}
       /\ s \in {"undoRmDev", "undoStopSidecar", "undoRmSidecar"}
            => c.op \in {"create", "start"}
  BY <1>2, NextStages
<1> QED BY <1>6, <1>7, <1>8, <1>9, <1>10, <1>11, <1>12, <1>13, <1>14, <1>15, <1>16,
           HandleStages

(* Every step of the handlers is a step of EnvHandlers, or none. *)
Boxes   == [e \in Envs |-> BoxOf(e)]
Jobs    == [c \in Commands |-> JobOf(c)]
Results == [c \in Commands |-> ResultOf(c)]

LEMMA HandlersStep ==
  ASSUME TypeOK, Orderly, Removing, AnswersInv, DevInv, [Next]_vars
  PROVE  Handlers!Next \/ UNCHANGED <<Boxes, Jobs, Results>>
<1> USE CommandsAssumption
<1>1. ASSUME NEW c \in Commands, Spares(c),
             \A d \in Commands \ {c} : answer'[d] = answer[d],
             \A d \in Commands \ {c} : d.env = c.env => ~Active(d)
      PROVE  /\ Boxes' = [Boxes EXCEPT ![c.env] = OwnBox(c)']
             /\ Jobs' = [Jobs EXCEPT ![c] = JobOf(c)']
             /\ Results' = [Results EXCEPT ![c] = ResultOf(c)']
             /\ Boxes[c.env] = OwnBox(c) /\ BoxOf(c.env) = OwnBox(c)
  BY <1>1, MapsOwn DEF Boxes, Jobs, Results
<1>2. \A c \in Commands : Jobs[c] = JobOf(c) /\ Results[c] = ResultOf(c)
  BY DEF Jobs, Results
<1>3. ASSUME NEW c \in Commands, Receive(c)
      PROVE  Handlers!Next
  <2>1. /\ stage[c] = "waiting" /\ dev' = dev /\ answer' = answer
        /\ stage'[c] = After(c).ok /\ stage[c] \in StagesOf(c)
    BY <1>3, CallStage DEF Receive, Local, Ok, Goto, TypeOK, Ended
  <2>2. stage'[c] \in {"allocate", "inspectDev", "stopDev"}
        /\ (stage'[c] = "stopDev" <=> c.op \in {"stop", "delete"})
    BY <2>1, NextStages DEF CommandNames
  <2>3. Spares(c) /\ \A d \in Commands \ {c} : d.env = c.env => ~Active(d)
    BY <1>3, SparesOthers, ReceiveOutcome
  <2>4. OwnBox(c)' = OwnBox(c)
    BY <2>1, <2>2 DEF OwnBox, Running
  <2>5. JobOf(c) = "none" /\ JobOf(c)' = "running" /\ ResultOf(c)' = ResultOf(c)
    <3>1. DOMAIN Undo = {"undoRmDev", "undoStopSidecar", "undoRmSidecar", "release",
                         "sendError", "sendReady"}
      BY DEF Undo
    <3>2. Mapped(c) /\ Mapped(c)'
      BY Mapping, MappingNext
    <3> QED BY <2>1, <2>2, <3>1, <3>2 DEF Mapped, Decided, Steady, CommandNames
  <2>6. /\ UNCHANGED <<Boxes, Results>> /\ Jobs[c] = "none"
        /\ Jobs' = [Jobs EXCEPT ![c] = "running"]
    <3>1. /\ Boxes' = [Boxes EXCEPT ![c.env] = OwnBox(c)']
          /\ Jobs' = [Jobs EXCEPT ![c] = JobOf(c)']
          /\ Results' = [Results EXCEPT ![c] = ResultOf(c)']
          /\ Boxes[c.env] = OwnBox(c)
      BY <1>1, <2>1, <2>3
    <3> QED BY <1>2, <2>4, <2>5, <3>1 DEF Boxes, Results
  <2>7. Handlers!Receive(c)
    BY <2>6 DEF Handlers!Receive, Boxes, Jobs, Results
  <2> QED BY <2>7 DEF Handlers!Next
<1>4. ASSUME NEW c \in Commands, Handle(c)
      PROVE  Handlers!Next \/ UNCHANGED <<Boxes, Jobs, Results>>
  <2>1. /\ Spares(c) /\ Work(c) /\ DevKnown(c)
        /\ \A d \in Commands \ {c} : d.env = c.env => ~Active(d)
    BY <1>4, SparesOthers, HandleMoves DEF AnswersInv, OneAtATime, DevInv
  <2>2. \A d \in Commands \ {c} : answer'[d] = answer[d]
    BY <1>4, <2>1, DevCalls DEF DevCall
  <2>3. /\ Boxes' = [Boxes EXCEPT ![c.env] = OwnBox(c)']
        /\ Jobs' = [Jobs EXCEPT ![c] = JobOf(c)']
        /\ Results' = [Results EXCEPT ![c] = ResultOf(c)']
        /\ Boxes[c.env] = OwnBox(c) /\ BoxOf(c.env) = OwnBox(c)
    BY <1>1, <2>1, <2>2
  <2>4. CASE Kept(c)
    BY <1>2, <2>3, <2>4 DEF Kept, Boxes, Jobs, Results
  <2>5. CASE Executed(c)
    <3>1. Handlers!Execute(c)
      BY <1>2, <2>3, <2>5 DEF Executed, Handlers!Execute, Boxes, Jobs, Results
    <3> QED BY <3>1 DEF Handlers!Next
  <2>6. CASE Sent(c)
    <3>1. /\ UNCHANGED <<Boxes, Results>> /\ Jobs[c] = "reporting"
          /\ Jobs' = [Jobs EXCEPT ![c] = "done"]
      BY <1>2, <2>3, <2>6 DEF Sent, Boxes, Results
    <3>2. Handlers!Report(c)
      BY <3>1 DEF Handlers!Report, Boxes, Jobs, Results
    <3> QED BY <3>2 DEF Handlers!Next
  <2> QED BY <1>4, <2>1, <2>3, <2>4, <2>5, <2>6, CallMaps
<1>5. ASSUME NEW e \in Envs, DevExits(e)
      PROVE  Handlers!Next
  <2>1. /\ UNCHANGED <<stage, answer>> /\ "exit" \in Faults
        /\ dev[e].state = "running"
        /\ dev' = [dev EXCEPT ![e].state = "crashed"]
    BY <1>5 DEF DevExits, Local
  <2>2. dev \in [Envs -> Container] /\ NoContainer.state = "none"
    BY DEF TypeOK, NoContainer
  <2>3. ~Replacing(e) /\ ~Discarded(e)
    <3>1. ASSUME NEW c \in Commands, c.env = e, stage[c] \in {"mkDev", "startDev",
                 "undoRmDev"} \/ (c.op = "delete" /\ stage[c] \in {"stopSidecar", "rmDev"})
          PROVE  FALSE
      <4>1. Active(c) /\ stage[c] \in StagesOf(c)
        BY <3>1, CallStage DEF Active, Ended
      <4>2. Work(c)
        BY <4>1 DEF AnswersInv
      <4> QED BY <2>1, <3>1, <4>1, <4>2, NextStages
              DEF Work, BuildsUp, TakesDown, DevOff
    <3> QED BY <3>1 DEF Replacing, Discarded
  <2>4. \A f \in Envs : /\ Replacing(f)' <=> Replacing(f)
                        /\ Discarded(f)' <=> Discarded(f)
    BY <2>1 DEF Replacing, Discarded
  <2>5. \A f \in Envs : BoxOf(f)' = IF f = e THEN "stopped" ELSE BoxOf(f)
    <3>1. \A f \in Envs \ {e} : dev'[f] = dev[f]
      BY <2>1, <2>2 DEF Container
    <3>2. dev'[e].state = "crashed"
      BY <2>1, <2>2 DEF Container
    <3> QED BY <2>2, <2>3, <2>4, <3>1, <3>2 DEF BoxOf, Running
  <2>6. BoxOf(e) = "running"
    BY <2>1 DEF BoxOf, Running
  <2>7. /\ Boxes[e] = "running" /\ Boxes' = [Boxes EXCEPT ![e] = "stopped"]
        /\ UNCHANGED <<Jobs, Results>>
    BY <2>1, <2>5, <2>6 DEF Boxes, Jobs, Results, JobOf, ResultOf, Decided
  <2>8. Handlers!ContainerDies(e)
    BY <2>1, <2>7 DEF Handlers!ContainerDies, Boxes, Jobs, Results
  <2> QED BY <2>8 DEF Handlers!Next
<1>6. CASE UNCHANGED <<dev, stage, answer>>
  <2>1. \A e \in Envs : BoxOf(e)' = BoxOf(e)
    BY <1>6 DEF BoxOf, Running, Replacing, Discarded
  <2>2. \A c \in Commands : JobOf(c)' = JobOf(c)
    BY <1>6 DEF JobOf, Decided
  <2>3. \A c \in Commands : ResultOf(c)' = ResultOf(c)
    BY <1>6, <2>2 DEF ResultOf
  <2> QED BY <2>1, <2>2, <2>3 DEF Boxes, Jobs, Results
<1>7. ASSUME NEW e \in Envs, SidecarExits(e)
      PROVE  UNCHANGED <<dev, stage, answer>>
  BY <1>7 DEF SidecarExits, Local
<1>8. CASE Restart
  BY <1>8 DEF Restart, Orderly
<1> QED BY <1>3, <1>4, <1>5, <1>6, <1>7, <1>8 DEF Next, vars

(* Under an orderly control plane, and if Docker removes what it is told to, the
   handlers of dispatcher.go do call by call what EnvHandlers has them do in
   one step, whatever else fails and however handlers of different
   environments interleave: every command is executed once, a create that fails
   leaves no dev container, a start that fails the old one or none, and the
   result sent is the one decided when the container changed. *)
THEOREM HandlersAsPromised ==
  ASSUME Orderly, Removing
  PROVE  Spec => HandlersSpec
<1>1. Init => Handlers!Init /\ DevInv
  <2> SUFFICES ASSUME Init
               PROVE  Handlers!Init /\ DevInv
    OBVIOUS
  <2>1. /\ \A e \in Envs : dev[e] = NoContainer
        /\ \A c \in Commands : stage[c] = "waiting"
        /\ NoContainer.state = "none"
    BY DEF Init, NoContainer
  <2>2. \A e \in Envs : BoxOf(e) = "none"
    BY <2>1 DEF BoxOf, Running, Replacing, Discarded
  <2>3. \A c \in Commands : JobOf(c) = "none" /\ ResultOf(c) = "none"
    BY <2>1, Mapping DEF Mapped
  <2>4. Handlers!Init
    BY <2>2, <2>3 DEF Handlers!Init
  <2>5. DevInv
    BY <2>1 DEF DevInv, Active
  <2> QED BY <2>4, <2>5
<1>2. TypeOK /\ AnswersInv /\ AnswersInv' /\ DevInv /\ [Next]_vars => DevInv'
  BY DevInductive
<1>3. TypeOK /\ AnswersInv /\ DevInv /\ [Next]_vars
        => [Handlers!Next]_<<Boxes, Jobs, Results>>
  BY HandlersStep
<1> QED BY <1>1, <1>2, <1>3, AnswersHold, PTL
        DEF Spec, HandlersSpec, Handlers!Spec, Boxes, Jobs, Results

=============================================================================
