---------------------------- MODULE AgentStream ----------------------------
(***************************************************************************)
(* The control plane and one agent: the HTTP handlers that change an       *)
(* environment (internal/envs), the dispatcher that forwards them and the  *)
(* gRPC handler Stream with its registry (internal/agentstream), the rows  *)
(* of envs and nodes, and the agent's connection loop                      *)
(* (internal/flexctlagent).  Nodes do not share state, so one is enough.   *)
(*                                                                         *)
(* A connection is a number: the agent opens 1, 2, ... one after the       *)
(* other, while the control plane may still run the handler of an earlier  *)
(* one.  Messages keep their order on a connection.  When the link breaks, *)
(* what the agent has not read is lost and the control plane keeps what    *)
(* has reached it; each side notices in its own time.                      *)
(*                                                                         *)
(* A command handler of the agent is two steps here, what it does to the   *)
(* environment's dev container and its report, sent on the stream the      *)
(* command came by: the abstract handlers of EnvHandlers, which            *)
(* EnvDispatcher implements call by call.  Left out: ssh keys and          *)
(* templates, acknowledgements of heartbeats, the text of messages.        *)
(***************************************************************************)
EXTENDS Integers, Sequences, FiniteSets

CONSTANTS Envs,         \* environment ids
          Requests,     \* HTTP requests [op, env], each made at most once
          MaxConns,     \* bound on connections
          MaxRestarts,  \* bound on restarts, both sides together
          Faults        \* what may go wrong, a subset of FaultKinds

(***************************************************************************)
(*   impatient  a user acts on an environment before its last action has   *)
(*              come to rest;                                              *)
(*   again      a user starts an environment that is running;              *)
(*   early      an action is dispatched while the agent is registering;    *)
(*   blind      ... or while the link is broken and nobody has noticed;    *)
(*   busy       the link breaks while commands or results are under way;   *)
(*   late       the agent is back before the old handler has returned;     *)
(*   exit       containers die while the agent is disconnected;            *)
(*   fail       a call a handler of the agent depends on fails;            *)
(*   stick      a container is not stopped or not removed;                 *)
(*   list       the agent cannot list its containers for the snapshot;     *)
(*   db         a statement of the control plane's database fails;         *)
(*   hs         Headscale refuses a preauth key;                           *)
(*   restart    the agent or the control plane is killed and restarted.    *)
(***************************************************************************)
FaultKinds == {"impatient", "again", "early", "blind", "busy", "late", "exit",
               "fail", "stick", "list", "db", "hs", "restart"}

ASSUME RequestsAssumption ==
    \A r \in Requests : /\ r.op \in {"create", "stop", "start", "delete"}
                        /\ r.env \in Envs
ASSUME BoundsAssumption == MaxConns \in Nat /\ MaxRestarts \in Nat

Conns == 1..MaxConns
NoConn == 0

VARIABLES
    db,         \* environment -> status of its row in envs, or "absent"
    node,       \* status of the agent's row in nodes
    registry,   \* Server.streams for the node: a connection or NoConn
    srv,        \* connection -> where its Stream handler is
    lost,       \* connection -> rows the snapshot's handler has yet to mark
    link,       \* connection -> "none", "up" or "down"
    toAgent,    \* connection -> control messages not yet received
    toServer,   \* connection -> agent messages not yet received
    conn,       \* the agent's connection, or NoConn while it backs off
    phase,      \* where runOnce is on that connection
    listed,     \* the running environments the agent has listed for it
    synced,     \* connection -> has its snapshot been dealt with
    box,        \* environment -> its dev container on the node
    job,        \* request -> where the agent's handler of its command is
    via,        \* request -> the connection its command came by
    result,     \* request -> what its handler is going to report
    http,       \* request -> where its HTTP handler is
    got,        \* request -> the stream its HTTP handler has looked up
    restarts    \* restarts so far

server == <<db, node, registry, srv, lost, synced>>
wires  == <<link, toAgent, toServer>>
agent  == <<conn, phase, listed, box, job, via, result>>
users  == <<http, got>>
vars   == <<server, wires, agent, users, restarts>>

(* The agent's command handlers, each with one step that counts. *)
Handlers == INSTANCE EnvHandlers

-----------------------------------------------------------------------------
(* Messages: Ack and commands (the requests) one way, the rest the other. *)
Ack == [type |-> "ack"]
Register == [type |-> "register"]
Heartbeat == [type |-> "heartbeat"]
Snapshot(ids) == [type |-> "snapshot", running |-> ids]
Report(r) == [type |-> result[r], env |-> r.env]

(* An acknowledgement is no command. *)
ASSUME AckAssumption == Ack \notin Requests

(* Mutated form of Status: the report's own name. *)
StatusAsReported == [ready |-> "ready", stopped |-> "stopped", error |-> "error",
                     deleted |-> "deleted"]

(* What each report makes of the row. *)
Status == [ready |-> "running", stopped |-> "stopped", error |-> "error",
           deleted |-> "absent"]

InWire(m, s) == \E i \in DOMAIN s : s[i] = m

(* Sending on a broken link loses the message; the sender is not told. *)
Send(wire, k, m) == IF link[k] = "up" THEN [wire EXCEPT ![k] = Append(@, m)]
                                      ELSE wire

(* The steps of a request under way: look the row up, find the stream, send
   the command, or remove the row. *)
InHand == {"find", "route", "send", "remove"}

(* Nothing about e is under way anywhere. *)
Settled(e) ==
    \A r \in Requests : r.env = e =>
        /\ http[r] \notin InHand
        /\ job[r] \notin {"running", "reporting"}
        /\ \A k \in Conns :
              /\ ~InWire(r, toAgent[k])
              /\ \A t \in DOMAIN Status : ~InWire([type |-> t, env |-> e], toServer[k])

(* The agent is registered, its snapshot dealt with and its link intact. *)
Connected ==
    /\ conn # NoConn
    /\ phase = "up" /\ link[conn] = "up" /\ srv[conn] = "serving"
    /\ synced[conn] /\ lost[conn] = {}

-----------------------------------------------------------------------------
(* The HTTP handlers and EnvsDispatcher. *)

Http(r, s) == http' = [http EXCEPT ![r] = s]

(* envs.Create inserts the row and then completes it with a second statement,
   whose failure leaves the row behind; the other actions look the row up and
   answer 404 without it. *)
Begin(r) ==
    /\ http[r] = "idle"
    /\ "impatient" \in Faults \/ Settled(r.env)
    /\ r.op = "start" /\ db[r.env] = "running" => "again" \in Faults
    /\ \/ /\ r.op = "create"
          /\ db[r.env] = "absent"
          /\ db' = [db EXCEPT ![r.env] = "creating"]
          /\ Http(r, "find") \/ ("db" \in Faults /\ Http(r, "failed"))
       \/ /\ r.op # "create" /\ db[r.env] # "absent"
          /\ Http(r, "find")
          /\ UNCHANGED db
       \/ /\ (r.op # "create" /\ db[r.env] = "absent") \/ "db" \in Faults
          /\ Http(r, "failed")
          /\ UNCHANGED db
    /\ UNCHANGED <<node, registry, srv, lost, synced, wires, agent, got, restarts>>

(* Mutated form of Undispatched: no rollback. *)
UndispatchedFails(r) == Http(r, "failed")

(* A create that cannot be dispatched is rolled back, the others just fail. *)
Undispatched(r) == Http(r, IF r.op = "create" THEN "remove" ELSE "failed")

(* Create and Start obtain a preauth key, which Headscale may refuse. *)
CreatePreAuthKeyFails(r) == "hs" \in Faults /\ r.op \in {"create", "start"}

(* EnvsDispatcher reads the row again and obtains the key. *)
Find(r) ==
    /\ http[r] = "find"
    /\ \/ /\ db[r.env] # "absent"
          /\ Http(r, "route")
       \/ /\ \/ db[r.env] = "absent" \/ "db" \in Faults
             \/ CreatePreAuthKeyFails(r)
          /\ Undispatched(r)
    /\ UNCHANGED <<server, wires, agent, got, restarts>>

(* streamFor.  Without a stream Delete removes the row itself. *)
Route(r) ==
    /\ http[r] = "route"
    /\ IF registry = NoConn
       THEN /\ IF r.op = "delete" THEN Http(r, "remove") ELSE Undispatched(r)
            /\ UNCHANGED got
       ELSE /\ "early" \in Faults \/ srv[registry] # "accepted"
            /\ "blind" \in Faults \/ link[registry] = "up"
            /\ got' = [got EXCEPT ![r] = registry]
            /\ Http(r, "send")
    /\ UNCHANGED <<server, wires, agent, restarts>>

(* Mutated form of SendCommand: a command that was sent is sent again. *)
SendCommandAgain(r) ==
    /\ http[r] = "send"
    /\ srv[got[r]] # "closed"
    /\ toAgent' = Send(toAgent, got[r], r)
    /\ Http(r, IF InWire(r, toAgent[got[r]]) THEN "done" ELSE "send")
    /\ UNCHANGED <<server, link, toServer, agent, got, restarts>>

(* ls.Send fails once the handler has returned or knows of the broken link;
   until then a command sent on a broken link is lost unnoticed. *)
SendCommand(r) ==
    /\ http[r] = "send"
    /\ LET k == got[r] IN
       \/ /\ srv[k] # "closed"
          /\ link[k] = "up" \/ srv[k] \in {"accepted", "serving"}
          /\ toAgent' = Send(toAgent, k, r)
          /\ Http(r, "done")
       \/ /\ srv[k] = "closed" \/ link[k] = "down"
          /\ Undispatched(r)
          /\ UNCHANGED toAgent
    /\ UNCHANGED <<server, link, toServer, agent, got, restarts>>

(* The rollback of a create, and Delete for an agent that is offline. *)
RemoveRow(r) ==
    /\ http[r] = "remove"
    /\ \/ /\ db' = [db EXCEPT ![r.env] = "absent"]
          /\ Http(r, IF r.op = "delete" /\ db[r.env] # "absent"
                     THEN "done" ELSE "failed")
       \/ /\ "db" \in Faults
          /\ Http(r, "failed")
          /\ UNCHANGED db
    /\ UNCHANGED <<node, registry, srv, lost, synced, wires, agent, got, restarts>>

-----------------------------------------------------------------------------
(* The agent: runOnce, its receive loop and its command handlers. *)

Connect ==
    /\ conn = NoConn
    /\ \E k \in Conns :
          /\ link[k] = "none" /\ \A j \in Conns : j < k => link[j] # "none"
          /\ conn' = k
          /\ link' = [link EXCEPT ![k] = "up"]
          /\ toServer' = [toServer EXCEPT ![k] = <<Register>>]
    /\ phase' = "registering"
    /\ UNCHANGED <<server, toAgent, listed, box, job, via, result, users, restarts>>

(* The first message received ends the wait for RegisterAck, whatever it is. *)
ReceiveFirst ==
    /\ conn # NoConn /\ phase = "registering"
    /\ toAgent[conn] # <<>>
    /\ toAgent' = [toAgent EXCEPT ![conn] = Tail(@)]
    /\ phase' = "list"
    /\ UNCHANGED <<server, link, toServer, conn, listed, box, job, via, result,
                   users, restarts>>

(* BuildEnvStateSnapshot: without a list there is no snapshot. *)
ListRunning ==
    /\ conn # NoConn /\ phase = "list"
    /\ \/ /\ listed' = {e \in Envs : box[e] = "running"}
          /\ phase' = "announce"
       \/ /\ "list" \in Faults
          /\ phase' = "up"
          /\ UNCHANGED listed
    /\ UNCHANGED <<server, wires, conn, box, job, via, result, users, restarts>>

Announce ==
    /\ conn # NoConn /\ phase = "announce"
    /\ toServer' = Send(toServer, conn, Snapshot(listed))
    /\ phase' = "up"
    /\ UNCHANGED <<server, link, toAgent, conn, listed, box, job, via, result,
                   users, restarts>>

(* One heartbeat on the wire is as good as many. *)
Beat ==
    /\ conn # NoConn /\ phase = "up"
    /\ link[conn] = "up" /\ ~InWire(Heartbeat, toServer[conn])
    /\ toServer' = Send(toServer, conn, Heartbeat)
    /\ UNCHANGED <<server, link, toAgent, agent, users, restarts>>

(* Each command gets a handler of its own, bound to this stream. *)
ReceiveCommand ==
    /\ conn # NoConn /\ phase = "up"
    /\ toAgent[conn] # <<>>
    /\ LET m == Head(toAgent[conn]) IN
          IF m \in Requests
          THEN /\ job' = [job EXCEPT ![m] = "running"]
               /\ via' = [via EXCEPT ![m] = conn]
          ELSE UNCHANGED <<job, via>>
    /\ toAgent' = [toAgent EXCEPT ![conn] = Tail(@)]
    /\ UNCHANGED <<server, link, toServer, conn, phase, listed, box, result, users,
                   restarts>>

(* The handler does its work. *)
Execute(r) ==
    /\ Handlers!Execute(r)
    /\ UNCHANGED <<server, wires, conn, phase, listed, via, users, restarts>>

SendReport(r) ==
    /\ job[r] = "reporting"
    /\ toServer' = Send(toServer, via[r], Report(r))
    /\ job' = [job EXCEPT ![r] = "done"]
    /\ UNCHANGED <<server, link, toAgent, conn, phase, listed, box, via, result,
                   users, restarts>>

(* The stream ends for the agent: its link is down or the server is gone. *)
Disconnect ==
    /\ conn # NoConn /\ link[conn] = "down"
    /\ conn' = NoConn
    /\ phase' = "idle"
    /\ toAgent' = [toAgent EXCEPT ![conn] = <<>>]
    /\ UNCHANGED <<server, link, toServer, listed, box, job, via, result, users,
                   restarts>>

(* The link breaks.  A prefix of what the agent sent has arrived. *)
Break(k) ==
    /\ link[k] = "up"
    /\ "busy" \in Faults \/ \A e \in Envs : Settled(e)
    /\ link' = [link EXCEPT ![k] = "down"]
    /\ toAgent' = [toAgent EXCEPT ![k] = <<>>]
    /\ \E n \in 0..Len(toServer[k]) :
          toServer' = [toServer EXCEPT ![k] = SubSeq(@, 1, n)]
    /\ UNCHANGED <<server, agent, users, restarts>>

(* The host goes down and comes back with its containers stopped. *)
ContainerDies(e) ==
    /\ "exit" \in Faults
    /\ conn = NoConn
    /\ box[e] = "running"
    /\ box' = [box EXCEPT ![e] = "stopped"]
    /\ UNCHANGED <<server, wires, conn, phase, listed, job, via, result, users,
                   restarts>>

-----------------------------------------------------------------------------
(* The control plane: Stream, one handler per connection. *)

Srv(k, s) == srv' = [srv EXCEPT ![k] = s]

(* Statements run in the stream's context fail once it is cancelled. *)
MayFail(k) == "db" \in Faults \/ link[k] = "down"

(* The node's token is accepted and the stream registered, before the first
   message is read; by a slow handler, after the agent has hung up. *)
RegisterStream(k) ==
    /\ srv[k] = "none"
    /\ link[k] = "up" \/ ("late" \in Faults /\ link[k] = "down")
    /\ "late" \in Faults \/ \A j \in Conns \ {k} : srv[j] \in {"none", "closed"}
    /\ registry' = k
    /\ Srv(k, "accepted")
    /\ UNCHANGED <<db, node, lost, synced, wires, agent, users, restarts>>

(* AuthenticateNodeToken cannot read the database: the stream is refused. *)
Refuse(k) ==
    /\ srv[k] = "none" /\ link[k] = "up"
    /\ "db" \in Faults
    /\ Srv(k, "closed")
    /\ link' = [link EXCEPT ![k] = "down"]
    /\ UNCHANGED <<db, node, registry, lost, synced, toAgent, toServer, agent,
                   users, restarts>>

UpdateRegister == node' = "online"

(* UpdateRegister, then RegisterAck. *)
Registered(k) ==
    /\ srv[k] = "accepted"
    /\ toServer[k] # <<>> /\ Head(toServer[k]) = Register
    /\ toServer' = [toServer EXCEPT ![k] = Tail(@)]
    /\ \/ /\ UpdateRegister
          /\ toAgent' = Send(toAgent, k, Ack)
          /\ Srv(k, "serving")
       \/ /\ MayFail(k)
          /\ Srv(k, "offline")
          /\ UNCHANGED <<node, toAgent>>
    /\ UNCHANGED <<db, registry, lost, synced, link, agent, users, restarts>>

(* Mutated form of Mark: the row is inserted when it is missing. *)
MarkUpserts(e, s) == db' = [db EXCEPT ![e] = s]

(* MarkRunning, MarkStopped, MarkError, Delete: each changes the row by its
   id alone, and finds nothing to change once the row is gone. *)
Mark(e, s) == db' = IF db[e] = "absent" THEN db ELSE [db EXCEPT ![e] = s]

(* Mutated form of RecordHeartbeat: last_seen_at only. *)
RecordHeartbeatTimeOnly == UNCHANGED node

RecordHeartbeat == node' = "online"

(* Mutated form of Unreported: rows in error are looked for instead. *)
UnreportedErrors(ids) == {e \in Envs : db[e] = "error"} \ ids

(* ListRunningOnNode against the snapshot. *)
Unreported(ids) == {e \in Envs : db[e] = "running"} \ ids

ReceiveMessage(k) ==
    /\ srv[k] = "serving" /\ lost[k] = {}
    /\ toServer[k] # <<>>
    /\ toServer' = [toServer EXCEPT ![k] = Tail(@)]
    /\ LET m == Head(toServer[k]) IN
          \/ /\ m.type = "heartbeat"
             /\ RecordHeartbeat
             /\ UNCHANGED <<db, lost, synced>>
          \/ /\ m.type = "snapshot"
             /\ lost' = [lost EXCEPT ![k] = Unreported(m.running)]
             /\ synced' = [synced EXCEPT ![k] = TRUE]
             /\ UNCHANGED <<db, node>>
          \/ /\ m.type \in DOMAIN Status
             /\ Mark(m.env, Status[m.type])
             /\ UNCHANGED <<node, lost, synced>>
          \/ /\ MayFail(k)
             /\ UNCHANGED <<db, node, lost, synced>>
    /\ UNCHANGED <<registry, srv, link, toAgent, agent, users, restarts>>

(* The loop over the running rows the snapshot does not list. *)
MarkLost(k) ==
    /\ srv[k] = "serving"
    /\ \E e \in lost[k] :
          /\ lost' = [lost EXCEPT ![k] = @ \ {e}]
          /\ Mark(e, "error") \/ (MayFail(k) /\ UNCHANGED db)
    /\ UNCHANGED <<node, registry, srv, synced, wires, agent, users, restarts>>

(* The handler returns: first the node is marked offline, then whatever
   stream is registered for the node is removed. *)
EndStream(k) ==
    /\ srv[k] \in {"accepted", "serving"}
    /\ link[k] = "down" /\ lost[k] = {}
    /\ Srv(k, "offline")
    /\ toServer' = [toServer EXCEPT ![k] = <<>>]
    /\ UNCHANGED <<db, node, registry, lost, synced, link, toAgent, agent, users,
                   restarts>>

(* Mutated form of MarkOffline: the row is left as it is. *)
MarkOfflineForgotten(k) ==
    /\ srv[k] = "offline"
    /\ Srv(k, "unregister")
    /\ UNCHANGED <<db, node, registry, lost, synced, wires, agent, users, restarts>>

MarkOffline(k) ==
    /\ srv[k] = "offline"
    /\ node' = "offline" \/ ("db" \in Faults /\ UNCHANGED node)
    /\ Srv(k, "unregister")
    /\ UNCHANGED <<db, registry, lost, synced, wires, agent, users, restarts>>

(* Mutated form of UnregisterStream: the entry stays. *)
UnregisterStreamForgotten(k) ==
    /\ srv[k] = "unregister"
    /\ Srv(k, "closed")
    /\ link' = [link EXCEPT ![k] = "down"]
    /\ toServer' = [toServer EXCEPT ![k] = <<>>]
    /\ UNCHANGED <<db, node, registry, lost, synced, toAgent, agent, users, restarts>>

(* The stream is closed for the agent too. *)
UnregisterStream(k) ==
    /\ srv[k] = "unregister"
    /\ registry' = NoConn
    /\ Srv(k, "closed")
    /\ link' = [link EXCEPT ![k] = "down"]
    /\ toServer' = [toServer EXCEPT ![k] = <<>>]
    /\ UNCHANGED <<db, node, lost, synced, toAgent, agent, users, restarts>>

-----------------------------------------------------------------------------
(* Restarts.  Every connection of the process that dies breaks. *)

Cut(ks) == /\ link' = [k \in Conns |-> IF k \in ks /\ link[k] = "up"
                                        THEN "down" ELSE link[k]]
           /\ toAgent' = [k \in Conns |-> IF k \in ks THEN <<>> ELSE toAgent[k]]

AgentRestarts ==
    /\ "restart" \in Faults /\ restarts < MaxRestarts
    /\ restarts' = restarts + 1
    /\ Cut({conn} \cap Conns)
    /\ conn' = NoConn /\ phase' = "idle"
    /\ job' = [r \in Requests |-> IF job[r] \in {"running", "reporting"}
                                   THEN "killed" ELSE job[r]]
    /\ UNCHANGED <<server, toServer, listed, box, via, result, users>>

(* No deferred call runs: the node's row keeps its status, rows of creates
   that were being dispatched stay. *)
ControlPlaneRestarts ==
    /\ "restart" \in Faults /\ restarts < MaxRestarts
    /\ restarts' = restarts + 1
    /\ Cut(Conns)
    /\ toServer' = [k \in Conns |-> <<>>]
    /\ registry' = NoConn
    /\ srv' = [k \in Conns |-> IF link[k] = "none" THEN "none" ELSE "closed"]
    /\ lost' = [k \in Conns |-> {}]
    /\ http' = [r \in Requests |-> IF http[r] \in InHand THEN "killed" ELSE http[r]]
    /\ UNCHANGED <<db, node, synced, agent, got>>

-----------------------------------------------------------------------------
Init ==
    /\ db = [e \in Envs |-> "absent"]
    /\ node = "offline"
    /\ registry = NoConn
    /\ srv = [k \in Conns |-> "none"]
    /\ lost = [k \in Conns |-> {}]
    /\ link = [k \in Conns |-> "none"]
    /\ toAgent = [k \in Conns |-> <<>>]
    /\ toServer = [k \in Conns |-> <<>>]
    /\ conn = NoConn /\ phase = "idle" /\ listed = {}
    /\ synced = [k \in Conns |-> FALSE]
    /\ box = [e \in Envs |-> "none"]
    /\ job = [r \in Requests |-> "none"]
    /\ via = [r \in Requests |-> NoConn]
    /\ result = [r \in Requests |-> "none"]
    /\ http = [r \in Requests |-> "idle"]
    /\ got = [r \in Requests |-> NoConn]
    /\ restarts = 0

UserStep(r) == Begin(r) \/ Find(r) \/ Route(r) \/ SendCommand(r) \/ RemoveRow(r)

AgentStep == Connect \/ ReceiveFirst \/ ListRunning \/ Announce \/ Beat
             \/ ReceiveCommand \/ Disconnect

JobStep(r) == Execute(r) \/ SendReport(r)

Accept(k) == RegisterStream(k) \/ Refuse(k)

Serve(k) == Registered(k) \/ ReceiveMessage(k) \/ MarkLost(k) \/ EndStream(k)
            \/ MarkOffline(k) \/ UnregisterStream(k)

Next ==
    \/ \E r \in Requests : UserStep(r) \/ JobStep(r)
    \/ AgentStep
    \/ \E k \in Conns : Accept(k) \/ Serve(k) \/ Break(k)
    \/ \E e \in Envs : ContainerDies(e)
    \/ AgentRestarts \/ ControlPlaneRestarts

Spec == Init /\ [][Next]_vars

(***************************************************************************)
(* The agent retries for ever and beats on a ticker; the control plane's   *)
(* handlers are scheduled, and the transport reports a broken link to both *)
(* ends in the end.  Nothing obliges a user to act or a link to break.     *)
(***************************************************************************)
FairSpec ==
    /\ Spec
    /\ WF_vars(Connect) /\ WF_vars(ReceiveFirst) /\ WF_vars(ListRunning)
    /\ WF_vars(Announce) /\ WF_vars(Beat) /\ WF_vars(ReceiveCommand)
    /\ WF_vars(Disconnect)
    /\ \A k \in Conns : WF_vars(link[k] = "up" /\ Accept(k)) /\ WF_vars(Serve(k))

-----------------------------------------------------------------------------
Statuses == {"absent", "creating", "running", "stopped", "error"}

TypeOK ==
    /\ db \in [Envs -> Statuses]
    /\ node \in {"online", "offline"}
    /\ registry \in Conns \cup {NoConn}
    /\ srv \in [Conns -> {"none", "accepted", "serving", "offline",
                           "unregister", "closed"}]
    /\ lost \in [Conns -> SUBSET Envs]
    /\ synced \in [Conns -> BOOLEAN]
    /\ link \in [Conns -> {"none", "up", "down"}]
    /\ conn \in Conns \cup {NoConn}
    /\ phase \in {"idle", "registering", "list", "announce", "up"}
    /\ listed \subseteq Envs
    /\ box \in [Envs -> {"none", "running", "stopped"}]
    /\ job \in [Requests -> {"none", "running", "reporting", "done", "killed"}]
    /\ via \in [Requests -> Conns \cup {NoConn}]
    /\ result \in [Requests -> {"none"} \cup DOMAIN Status]
    /\ http \in [Requests -> InHand \cup {"idle", "failed", "done", "killed"}]
    /\ got \in [Requests -> Conns \cup {NoConn}]
    /\ restarts \in 0..MaxRestarts
    /\ \A k \in Conns :
          /\ \A i \in DOMAIN toAgent[k] : toAgent[k][i] \in Requests \cup {Ack}
          /\ \A i \in DOMAIN toServer[k] :
                \/ toServer[k][i].type \in {"register", "heartbeat"}
                \/ toServer[k][i].type = "snapshot"
                   /\ toServer[k][i].running \subseteq Envs
                \/ toServer[k][i].type \in DOMAIN Status
                   /\ toServer[k][i].env \in Envs

(* Whatever becomes of connections, rows and processes, the agent executes a
   command at most once, in one step of EnvHandlers, and reports what that step
   has decided; nothing else touches a container (refinement of EnvHandlers). *)
HandlersSpec == Handlers!Spec

(* streamFor never hands out the stream of a handler that has returned, for
   all that a new connection may overtake the end of an old one. *)
RegistryNotStale ==
    registry # NoConn =>
        srv[registry] \in {"accepted", "serving", "offline", "unregister"}

(* Only a create request brings a row into being: a late EnvReady, EnvStopped,
   EnvError or snapshot never revives a deleted environment. *)
NoResurrection ==
    [][\A e \in Envs : db[e] = "absent" /\ db'[e] # "absent" =>
          \E r \in Requests : r.op = "create" /\ r.env = e
                               /\ http[r] = "idle"]_vars

(* A create that was answered with an error leaves no row and no container. *)
FailedCreateLeavesNothing ==
    \A r \in Requests : r.op = "create" /\ http[r] = "failed" =>
        db[r.env] = "absent" /\ box[r.env] = "none"

(* Reconnecting reconciles: when the agent is connected, its snapshot dealt
   with and nothing under way, a row says "running" exactly if its container
   runs, and none is left in creation ("both sides' states agree after
   node_resync"). *)
RowsAgree ==
    \A e \in Envs : Connected /\ Settled(e) /\ db[e] # "absent" =>
        /\ db[e] = "running" <=> box[e] = "running"
        /\ db[e] # "creating"

(* EnvsDispatcher.Delete takes a missing stream for "agent offline": a node
   whose agent is connected and served has its stream registered. *)
RegistryServes == Connected => registry = conn

(* A node whose agent stays connected ends up online for good, though the
   handler of an older connection may mark it offline. *)
ConnectedEndsOnline ==
    <>[](conn # NoConn /\ link[conn] = "up") => <>[](node = "online")

(* A node whose agent stays away ends up offline for good. *)
GoneEndsOffline == <>[](conn = NoConn) => <>[](node = "offline")
=============================================================================
