-------------------------- MODULE MCEnvDispatcher --------------------------
(* Values for the constants of EnvDispatcher: two environments on one node. *)
EXTENDS EnvDispatcher

CONSTANTS e1, e2

Cmd(i, name, e, n) == [id |-> i, op |-> name, env |-> e, count |-> n]

TwoEnvs == {e1, e2}
TwoGPUs == {0, 1}
UpToTwo == 0..2

(* The whole life of one environment, stopped and started twice, beside
   another that takes and gives back a GPU meanwhile. *)
TwoLives == {Cmd(1, "create", e1, 1), Cmd(2, "stop", e1, 0),
             Cmd(3, "start", e1, 0), Cmd(4, "stop", e1, 0),
             Cmd(5, "start", e1, 0), Cmd(6, "delete", e1, 0),
             Cmd(7, "create", e2, 1), Cmd(8, "stop", e2, 0)}

(* Create and start of one environment racing each other, beside the create
   of another that wants both GPUs. *)
Contention == {Cmd(1, "create", e1, 1), Cmd(2, "start", e1, 0),
               Cmd(3, "create", e2, 2)}

TwoCreates == {Cmd(1, "create", e1, 1), Cmd(2, "create", e2, 1)}

(* Docker calls that may fail without breaking what the handlers promise. *)
DockerFails == {"mk", "up", "health", "inspect"}

Restarts   == {"restart"}
Everything == FaultKinds
=============================================================================
