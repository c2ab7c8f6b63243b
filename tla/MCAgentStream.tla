--------------------------- MODULE MCAgentStream ---------------------------
(* Values for the constants of AgentStream. *)
EXTENDS AgentStream

CONSTANT e1

Req(i, o, e) == [id |-> i, op |-> o, env |-> e]

OneEnv == {e1}

(* An environment is created, stopped, started and deleted, in any order the
   rows allow. *)
OneLife == {Req(1, "create", e1), Req(2, "stop", e1), Req(3, "start", e1),
            Req(4, "delete", e1)}
CreateDelete == {Req(1, "create", e1), Req(2, "delete", e1)}
NoRequests == {}

Orderly == {"fail", "hs", "exit"}
Chaos == FaultKinds
Late  == {"late"}
=============================================================================
