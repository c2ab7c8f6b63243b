---------------------------- MODULE EnvHandlers ----------------------------
(***************************************************************************)
(* What the control plane may expect of the agent's command handlers       *)
(* (internal/envlifecycle/dispatcher.go), as an abstract specification: a  *)
(* handler begins at most once for each command, changes the environment's *)
(* dev container in one step, decides with it what to report, and reports. *)
(*                                                                         *)
(* AgentStream is built on it.  EnvDispatcher has the handlers call by     *)
(* call, and implements it.                                                *)
(***************************************************************************)
CONSTANTS Envs,      \* environment ids
          Requests,  \* commands [op, env]
          Faults     \* those of "fail", "stick" and "exit" that may happen

VARIABLES
    box,     \* environment -> its dev container: none, running or stopped
    job,     \* command -> where its handler is
    result   \* command -> what its handler is going to report, or reported

(***************************************************************************)
(* What a handler makes of the dev container and what it will report.  A   *)
(* failed create leaves nothing; start needs a container, and fails before *)
(* or after it has replaced it; either may fail to remove the container it *)
(* has made.  Stop and delete report success whatever becomes of the       *)
(* container.                                                              *)
(***************************************************************************)
If(fault, outcomes) == IF fault \in Faults THEN outcomes ELSE {}

Outcomes(r) ==
    LET was == box[r.env]
        stopped == IF was = "none" THEN "none" ELSE "stopped"
        undone == {<<"none", "error">>} \cup If("stick", {<<"stopped", "error">>}) IN
    CASE r.op = "create" -> {<<"running", "ready">>} \cup If("fail", undone)
      [] r.op = "start" /\ was = "none" -> {<<"none", "error">>}
      [] r.op = "start" /\ was # "none" ->
            {<<"running", "ready">>} \cup If("fail", {<<was, "error">>} \cup undone)
      [] r.op = "stop" -> {<<stopped, "stopped">>}
                          \cup If("stick", {<<was, "stopped">>})
      [] r.op = "delete" -> {<<"none", "deleted">>}
            \cup If("stick", {<<was, "deleted">>, <<stopped, "deleted">>})

Receive(r) ==
    /\ job[r] = "none"
    /\ job' = [job EXCEPT ![r] = "running"]
    /\ UNCHANGED <<box, result>>

Execute(r) ==
    /\ job[r] = "running"
    /\ \E o \in Outcomes(r) :
          /\ box' = [box EXCEPT ![r.env] = o[1]]
          /\ result' = [result EXCEPT ![r] = o[2]]
    /\ job' = [job EXCEPT ![r] = "reporting"]

Report(r) ==
    /\ job[r] = "reporting"
    /\ job' = [job EXCEPT ![r] = "done"]
    /\ UNCHANGED <<box, result>>

ContainerDies(e) ==
    /\ "exit" \in Faults
    /\ box[e] = "running"
    /\ box' = [box EXCEPT ![e] = "stopped"]
    /\ UNCHANGED <<job, result>>

(* The handlers die with their agent; the containers stay as they are. *)
AgentRestarts ==
    /\ job' = [r \in Requests |-> IF job[r] \in {"running", "reporting"}
                                   THEN "killed" ELSE job[r]]
    /\ UNCHANGED <<box, result>>

-----------------------------------------------------------------------------
Init ==
    /\ box = [e \in Envs |-> "none"]
    /\ job = [r \in Requests |-> "none"]
    /\ result = [r \in Requests |-> "none"]

Next ==
    \/ \E r \in Requests : Receive(r) \/ Execute(r) \/ Report(r)
    \/ \E e \in Envs : ContainerDies(e)
    \/ AgentRestarts

Spec == Init /\ [][Next]_<<box, job, result>>
=============================================================================
