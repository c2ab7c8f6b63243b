------------------------- MODULE AgentStreamProofs -------------------------
(***************************************************************************)
(* What holds between the control plane and an agent for any number of     *)
(* environments, requests and connections, whatever goes wrong.            *)
(***************************************************************************)
EXTENDS AgentStream, SequenceTheorems, TLAPS

(***************************************************************************)
(* Types.  TypeOK speaks of the messages on the wires; that a wire is a    *)
(* sequence at all is what makes it inductive.                             *)
(***************************************************************************)
Commands == Requests \cup {Ack}

Reports == [type : DOMAIN Status, env : Envs]

Messages == {Register, Heartbeat} \cup [type : {"snapshot"}, running : SUBSET Envs]
            \cup Reports

Wired == /\ toAgent \in [Conns -> Seq(Commands)]
         /\ toServer \in [Conns -> Seq(Messages)]
         /\ \A r \in Requests : job[r] = "reporting" => result[r] # "none"

TypeInv == TypeOK /\ Wired

(* What Send, Tail and a prefix make of a wire. *)
LEMMA WireUpdates ==
  ASSUME NEW M, NEW wire \in [Conns -> Seq(M)], NEW k
  PROVE  /\ \A m \in M : [wire EXCEPT ![k] = Append(@, m)] \in [Conns -> Seq(M)]
         /\ \A m \in M : Send(wire, k, m) \in [Conns -> Seq(M)]
         /\ wire[k] # <<>> => [wire EXCEPT ![k] = Tail(@)] \in [Conns -> Seq(M)]
         /\ [wire EXCEPT ![k] = <<>>] \in [Conns -> Seq(M)]
         /\ k \in Conns => \A n \in 0..Len(wire[k]) :
               [wire EXCEPT ![k] = SubSeq(@, 1, n)] \in [Conns -> Seq(M)]
         /\ k \in Conns /\ wire[k] # <<>> => Head(wire[k]) \in M
<1>1. CASE k \notin Conns
  BY <1>1 DEF Send
<1>2. CASE k \in Conns
  <2>1. wire[k] \in Seq(M)
    BY <1>2
  <2>2. \A n \in 0..Len(wire[k]) : SubSeq(wire[k], 1, n) \in Seq(M)
    BY <2>1
  <2> QED BY <1>2, <2>1, <2>2 DEF Send
<1> QED BY <1>1, <1>2

LEMMA MessageTypes ==
  /\ Register \in Messages /\ Heartbeat \in Messages
  /\ \A ids \in SUBSET Envs : Snapshot(ids) \in Messages
  /\ \A r \in Requests : result[r] \in DOMAIN Status => Report(r) \in Messages
  /\ \A m \in Messages :
        \/ m.type \in {"register", "heartbeat"}
        \/ m.type = "snapshot" /\ m.running \subseteq Envs
        \/ m.type \in DOMAIN Status /\ m.env \in Envs
  /\ \A m \in Messages : m.type \in DOMAIN Status => m \in Reports /\ m.env \in Envs
  /\ \A m \in Messages : m.type = "snapshot" => m.running \subseteq Envs
BY RequestsAssumption
   DEF Messages, Reports, Register, Heartbeat, Snapshot, Report, Status

(* Typed wires give the part of TypeOK that is about messages. *)
LEMMA WiresTyped ==
  ASSUME NEW ta \in [Conns -> Seq(Commands)], NEW ts \in [Conns -> Seq(Messages)]
  PROVE  \A k \in Conns :
          /\ \A i \in DOMAIN ta[k] : ta[k][i] \in Requests \cup {Ack}
          /\ \A i \in DOMAIN ts[k] :
                \/ ts[k][i].type \in {"register", "heartbeat"}
                \/ ts[k][i].type = "snapshot" /\ ts[k][i].running \subseteq Envs
                \/ ts[k][i].type \in DOMAIN Status /\ ts[k][i].env \in Envs
<1> SUFFICES ASSUME NEW k \in Conns
             PROVE  /\ \A i \in DOMAIN ta[k] : ta[k][i] \in Commands
                    /\ \A i \in DOMAIN ts[k] : ts[k][i] \in Messages
  BY MessageTypes DEF Commands
<1> QED OBVIOUS

LEMMA StreamTypes == TypeInv /\ [Next]_vars => TypeInv'
<1> SUFFICES ASSUME TypeInv, [Next]_vars
             PROVE  TypeInv'
  OBVIOUS
<1> USE RequestsAssumption, BoundsAssumption
<1>t. TypeOK /\ Wired
  BY DEF TypeInv
<1> DEFINE Scalars ==
      /\ db \in [Envs -> Statuses]
      /\ node \in {"online", "offline"}
      /\ registry \in Conns \cup {NoConn}
      /\ srv \in [Conns -> {"none", "accepted", "serving", "offline",
                             "unregister", "closed"}]
      /\ lost \in [Conns -> SUBSET Envs]
      /\ link \in [Conns -> {"none", "up", "down"}]
      /\ conn \in Conns \cup {NoConn}
      /\ phase \in {"idle", "registering", "list", "announce", "up"}
      /\ listed \subseteq Envs
      /\ box \in [Envs -> {"none", "running", "stopped"}]
      /\ job \in [Requests -> {"none", "running", "reporting", "done", "killed"}]
      /\ via \in [Requests -> Conns \cup {NoConn}]
      /\ result \in [Requests -> {"none"} \cup DOMAIN Status]
      /\ http \in [Requests -> InHand \cup {"idle", "failed", "done", "killed"}]
      /\ got \in [Requests -> Conns \cup {NoConn}]
      /\ restarts \in 0..MaxRestarts
<1>s. Scalars /\ synced \in [Conns -> BOOLEAN]
  BY <1>t DEF TypeOK
<1>w. Scalars' /\ synced' \in [Conns -> BOOLEAN] /\ Wired' => TypeInv'
  BY WiresTyped DEF TypeInv, TypeOK, Wired
<1>1. ASSUME NEW r \in Requests, Begin(r)
      PROVE  TypeInv'
  <2>1. db' \in [Envs -> Statuses]
    BY <1>s, <1>1 DEF Begin, Statuses
  <2>2. http' \in [Requests -> InHand \cup {"idle", "failed", "done", "killed"}]
    BY <1>s, <1>1 DEF Begin, Http, InHand
  <2> QED BY <1>s, <1>t, <1>w, <1>1, <2>1, <2>2 DEF Begin, Wired, wires, agent
<1>2. ASSUME NEW r \in Requests, Find(r)
      PROVE  TypeInv'
  BY <1>s, <1>t, <1>w, <1>2
     DEF Find, Undispatched, Http, InHand, Wired, server, wires, agent, users
<1>3. ASSUME NEW r \in Requests, Route(r)
      PROVE  TypeInv'
  BY <1>s, <1>t, <1>w, <1>3
     DEF Route, Undispatched, Http, InHand, Wired, server, wires, agent, users
<1>4. ASSUME NEW r \in Requests, SendCommand(r)
      PROVE  TypeInv'
  <2>1. r \in Commands
    BY DEF Commands
  <2>2. toAgent' \in [Conns -> Seq(Commands)]
    <3>1. toAgent' = Send(toAgent, got[r], r) \/ UNCHANGED toAgent
      BY <1>4 DEF SendCommand
    <3>2. toAgent \in [Conns -> Seq(Commands)]
      BY <1>t DEF Wired
    <3>3. Send(toAgent, got[r], r) \in [Conns -> Seq(Commands)]
      BY <2>1, <3>2, WireUpdates
    <3> QED BY <3>1, <3>2, <3>3
  <2> QED BY <1>s, <1>t, <1>w, <1>4, <2>2
          DEF SendCommand, Undispatched, Http, InHand, Wired, server, agent
<1>5. ASSUME NEW r \in Requests, RemoveRow(r)
      PROVE  TypeInv'
  BY <1>s, <1>t, <1>w, <1>5
     DEF RemoveRow, Http, InHand, Statuses, Wired, server, wires, agent, users
<1>6. CASE Connect
  <2>1. <<Register>> \in Seq(Messages)
    BY MessageTypes
  <2>2. toServer' \in [Conns -> Seq(Messages)]
    BY <1>t, <1>6, <2>1 DEF Connect, Wired
  <2> QED BY <1>s, <1>t, <1>w, <1>6, <2>2 DEF Connect, Wired, server, users
<1>7. CASE ReceiveFirst
  <2>1. toAgent' \in [Conns -> Seq(Commands)]
    BY <1>s, <1>t, <1>7, WireUpdates DEF ReceiveFirst, Wired
  <2> QED BY <1>s, <1>t, <1>w, <1>7, <2>1
          DEF ReceiveFirst, Wired, server, wires, agent, users
<1>8. CASE ListRunning
  BY <1>s, <1>t, <1>w, <1>8
     DEF ListRunning, Wired, server, wires, agent, users
<1>9. CASE Announce
  <2>1. toServer' \in [Conns -> Seq(Messages)]
    BY <1>s, <1>t, <1>9, WireUpdates, MessageTypes DEF Announce, Wired
  <2> QED BY <1>s, <1>t, <1>w, <1>9, <2>1
          DEF Announce, Wired, server, wires, agent, users
<1>10. CASE Beat
  <2>1. toServer' \in [Conns -> Seq(Messages)]
    BY <1>s, <1>t, <1>10, WireUpdates, MessageTypes DEF Beat, Wired
  <2> QED BY <1>s, <1>t, <1>w, <1>10, <2>1
          DEF Beat, Wired, server, wires, agent, users
<1>11. CASE ReceiveCommand
  <2>1. toAgent' \in [Conns -> Seq(Commands)]
    BY <1>s, <1>t, <1>11, WireUpdates DEF ReceiveCommand, Wired
  <2>2. /\ job' \in [Requests -> {"none", "running", "reporting", "done", "killed"}]
        /\ via' \in [Requests -> Conns \cup {NoConn}]
        /\ \A r \in Requests : job'[r] = "reporting" => job[r] = "reporting"
    BY <1>s, <1>11 DEF ReceiveCommand
  <2> QED BY <1>s, <1>t, <1>w, <1>11, <2>1, <2>2
          DEF ReceiveCommand, Wired, server, users
<1>12. CASE Disconnect
  <2>1. toAgent' \in [Conns -> Seq(Commands)]
    BY <1>s, <1>t, <1>12, WireUpdates DEF Disconnect, Wired
  <2> QED BY <1>s, <1>t, <1>w, <1>12, <2>1
          DEF Disconnect, Wired, server, wires, agent, users
<1>13. ASSUME NEW r \in Requests, Execute(r)
      PROVE  TypeInv'
  <2>1. \A o \in Handlers!Outcomes(r) :
           o[1] \in {"none", "running", "stopped"} /\ o[2] \in DOMAIN Status
    BY <1>s DEF Handlers!Outcomes, Handlers!If, Status
  <2>2. PICK o \in Handlers!Outcomes(r) :
           /\ box' = [box EXCEPT ![r.env] = o[1]]
           /\ result' = [result EXCEPT ![r] = o[2]]
    BY <1>13 DEF Execute, Handlers!Execute
  <2>3. o[2] # "none"
    BY <2>1 DEF Status
  <2>4. \A x \in Requests : job'[x] = "reporting" => result'[x] # "none"
    BY <1>s, <1>t, <1>13, <2>2, <2>3 DEF Execute, Handlers!Execute, Wired
  <2> QED BY <1>s, <1>t, <1>w, <1>13, <2>1, <2>2, <2>4
          DEF Execute, Handlers!Execute, Wired, server, wires, users
<1>14. ASSUME NEW r \in Requests, SendReport(r)
      PROVE  TypeInv'
  <2>1. result[r] \in DOMAIN Status
    BY <1>s, <1>t, <1>14 DEF SendReport, Wired
  <2>2. toServer' \in [Conns -> Seq(Messages)]
    BY <1>t, <1>14, <2>1, MessageTypes, WireUpdates DEF SendReport, Wired
  <2> QED BY <1>s, <1>t, <1>w, <1>14, <2>2
          DEF SendReport, Wired, server, users
<1>15. ASSUME NEW k \in Conns, RegisterStream(k)
      PROVE  TypeInv'
  BY <1>s, <1>t, <1>w, <1>15
     DEF RegisterStream, Srv, Wired, server, wires, agent, users
<1>16. ASSUME NEW k \in Conns, Refuse(k)
      PROVE  TypeInv'
  BY <1>s, <1>t, <1>w, <1>16
     DEF Refuse, Srv, Wired, server, wires, agent, users
<1>17. ASSUME NEW k \in Conns, Registered(k)
      PROVE  TypeInv'
  <2>1. Ack \in Commands
    BY DEF Commands
  <2>2. /\ toServer' \in [Conns -> Seq(Messages)]
        /\ toAgent' \in [Conns -> Seq(Commands)]
    <3>1. /\ toServer[k] # <<>>
          /\ toServer' = [toServer EXCEPT ![k] = Tail(@)]
          /\ toAgent' = Send(toAgent, k, Ack) \/ UNCHANGED toAgent
      BY <1>17 DEF Registered
    <3>2. /\ toAgent \in [Conns -> Seq(Commands)]
          /\ toServer \in [Conns -> Seq(Messages)]
      BY <1>t DEF Wired
    <3>3. Send(toAgent, k, Ack) \in [Conns -> Seq(Commands)]
      BY <2>1, <3>2, WireUpdates
    <3> QED BY <3>1, <3>2, <3>3, WireUpdates
  <2> QED BY <1>s, <1>t, <1>w, <1>17, <2>2
          DEF Registered, UpdateRegister, Srv, Wired, agent, users
<1>18. ASSUME NEW k \in Conns, ReceiveMessage(k)
      PROVE  TypeInv'
  <2>1. toServer' \in [Conns -> Seq(Messages)]
    BY <1>t, <1>18, WireUpdates DEF ReceiveMessage, Wired
  <2>2. Head(toServer[k]) \in Messages
    BY <1>t, <1>18, WireUpdates DEF ReceiveMessage, Wired
  <2>3. \A x \in DOMAIN Status : Status[x] \in Statuses
    BY DEF Status, Statuses
  <2>4. db' \in [Envs -> Statuses]
    BY <1>s, <1>18, <2>2, <2>3, MessageTypes DEF ReceiveMessage, Mark
  <2>5. lost' \in [Conns -> SUBSET Envs]
    BY <1>s, <1>18 DEF ReceiveMessage, Unreported
  <2>6. node' \in {"online", "offline"}
    BY <1>s, <1>18 DEF ReceiveMessage, RecordHeartbeat
  <2>7. synced' = [synced EXCEPT ![k] = TRUE] \/ UNCHANGED synced
    BY <1>18 DEF ReceiveMessage
  <2>8. synced' \in [Conns -> BOOLEAN]
    BY <1>s, <2>7, Zenon
  <2> QED BY <1>s, <1>t, <1>w, <1>18, <2>1, <2>4, <2>5, <2>6, <2>8
          DEF ReceiveMessage, Wired, agent, users
<1>19. ASSUME NEW k \in Conns, MarkLost(k)
      PROVE  TypeInv'
  BY <1>s, <1>t, <1>w, <1>19
     DEF MarkLost, Mark, Statuses, Wired, server, wires, agent, users
<1>20. ASSUME NEW k \in Conns, EndStream(k)
      PROVE  TypeInv'
  <2>1. toServer' \in [Conns -> Seq(Messages)]
    BY <1>s, <1>t, <1>20, WireUpdates DEF EndStream, Wired
  <2> QED BY <1>s, <1>t, <1>w, <1>20, <2>1
          DEF EndStream, Srv, Wired, server, wires, agent, users
<1>21. ASSUME NEW k \in Conns, MarkOffline(k)
      PROVE  TypeInv'
  BY <1>s, <1>t, <1>w, <1>21
     DEF MarkOffline, Srv, Wired, server, wires, agent, users
<1>22. ASSUME NEW k \in Conns, UnregisterStream(k)
      PROVE  TypeInv'
  <2>1. toServer' \in [Conns -> Seq(Messages)]
    BY <1>s, <1>t, <1>22, WireUpdates DEF UnregisterStream, Wired
  <2> QED BY <1>s, <1>t, <1>w, <1>22, <2>1
          DEF UnregisterStream, Srv, Wired, server, wires, agent, users
<1>23. ASSUME NEW k \in Conns, Break(k)
      PROVE  TypeInv'
  <2>1. /\ toServer' \in [Conns -> Seq(Messages)]
        /\ toAgent' \in [Conns -> Seq(Commands)]
    BY <1>t, <1>23, WireUpdates DEF Break, Wired
  <2> QED BY <1>s, <1>t, <1>w, <1>23, <2>1 DEF Break, Wired, server, agent, users
<1>24. ASSUME NEW e \in Envs, ContainerDies(e)
      PROVE  TypeInv'
  BY <1>s, <1>t, <1>w, <1>24
     DEF ContainerDies, Wired, server, wires, agent, users
<1>25. CASE AgentRestarts
  <2>1. toAgent' \in [Conns -> Seq(Commands)]
    BY <1>t, <1>25 DEF AgentRestarts, Cut, Wired
  <2>2. restarts' \in 0..MaxRestarts
    BY <1>s, <1>25 DEF AgentRestarts
  <2> QED BY <1>s, <1>t, <1>w, <1>25, <2>1, <2>2
          DEF AgentRestarts, Cut, Wired, server, users
<1>26. CASE ControlPlaneRestarts
  <2>1. /\ toAgent' \in [Conns -> Seq(Commands)]
        /\ toServer' \in [Conns -> Seq(Messages)]
    BY <1>t, <1>26 DEF ControlPlaneRestarts, Cut, Wired
  <2>2. restarts' \in 0..MaxRestarts
    BY <1>s, <1>26 DEF ControlPlaneRestarts
  <2> QED BY <1>s, <1>t, <1>w, <1>26, <2>1, <2>2
          DEF ControlPlaneRestarts, Cut, Wired, agent, InHand
<1>27. CASE UNCHANGED vars
  BY <1>s, <1>t, <1>w, <1>27
     DEF vars, Wired, server, wires, agent, users
<1> QED
  BY <1>1, <1>2, <1>3, <1>4, <1>5, <1>6, <1>7, <1>8, <1>9, <1>10, <1>11,
     <1>12, <1>13, <1>14, <1>15, <1>16, <1>17, <1>18, <1>19, <1>20, <1>21,
     <1>22, <1>23, <1>24, <1>25, <1>26, <1>27
     DEF Next, UserStep, JobStep, AgentStep, Accept, Serve

LEMMA TypesStart == Init => TypeInv
<1> SUFFICES ASSUME Init
             PROVE  TypeInv
  OBVIOUS
<1>1. Wired
  BY DEF Init, Wired
<1>2. synced \in [Conns -> BOOLEAN]
  BY Zenon DEF Init
<1> QED BY <1>1, <1>2, WiresTyped, BoundsAssumption
        DEF Init, TypeInv, TypeOK, Wired, Statuses

(* Rows, wires, handlers and streams stay within their declared types: only
   commands reach an agent, and what it sends names its own environments. *)
THEOREM StreamTypeCorrect == Spec => []TypeOK
<1>1. TypeInv => TypeOK
  BY DEF TypeInv
<1> QED BY <1>1, TypesStart, StreamTypes, PTL DEF Spec

-----------------------------------------------------------------------------
(* The registered stream's handler is at work: RegistryNotStale with the types
   it rests on. *)
Registering ==
    /\ registry \in Conns \cup {NoConn}
    /\ srv \in [Conns -> {"none", "accepted", "serving", "offline",
                           "unregister", "closed"}]
    /\ RegistryNotStale

LEMMA RegistryInductive == Registering /\ [Next]_vars => Registering'
<1> SUFFICES ASSUME Registering, [Next]_vars
             PROVE  Registering'
  OBVIOUS
<1> USE BoundsAssumption DEF Registering, RegistryNotStale, Conns, NoConn
<1>1. ASSUME NEW k \in Conns, RegisterStream(k)
      PROVE  Registering'
  BY <1>1 DEF RegisterStream, Srv
<1>2. ASSUME NEW k \in Conns, Refuse(k)
      PROVE  Registering'
  BY <1>2 DEF Refuse, Srv
<1>3. ASSUME NEW k \in Conns, Registered(k)
      PROVE  Registering'
  BY <1>3 DEF Registered, Srv
<1>4. ASSUME NEW k \in Conns, EndStream(k)
      PROVE  Registering'
  BY <1>4 DEF EndStream, Srv
<1>5. ASSUME NEW k \in Conns, MarkOffline(k)
      PROVE  Registering'
  BY <1>5 DEF MarkOffline, Srv
<1>6. ASSUME NEW k \in Conns, UnregisterStream(k)
      PROVE  Registering'
  BY <1>6 DEF UnregisterStream, Srv
<1>7. CASE ControlPlaneRestarts
  BY <1>7 DEF ControlPlaneRestarts
<1>8. ASSUME UNCHANGED <<registry, srv>>
      PROVE  Registering'
  BY <1>8
<1>9. ASSUME NEW r \in Requests, UserStep(r) \/ JobStep(r)
      PROVE  UNCHANGED <<registry, srv>>
  BY <1>9 DEF UserStep, JobStep, Begin, Find, Route, SendCommand, RemoveRow,
              Execute, Handlers!Execute, SendReport, server
<1>10. CASE AgentStep \/ AgentRestarts \/ UNCHANGED vars
       \/ \E e \in Envs : ContainerDies(e)
  BY <1>8, <1>10 DEF AgentStep, Connect, ReceiveFirst, ListRunning, Announce,
              Beat, ReceiveCommand, Disconnect, AgentRestarts, ContainerDies,
              vars, server
<1>11. ASSUME NEW k \in Conns, ReceiveMessage(k) \/ MarkLost(k) \/ Break(k)
       PROVE  UNCHANGED <<registry, srv>>
  BY <1>11 DEF ReceiveMessage, MarkLost, Break, server
<1> QED BY <1>1, <1>2, <1>3, <1>4, <1>5, <1>6, <1>7, <1>8, <1>9, <1>10, <1>11
        DEF Next, Accept, Serve

(* streamFor never hands out the stream of a handler that has returned, however
   connections overtake each other, links break and either side restarts. *)
THEOREM StreamsNotStale == Spec => []RegistryNotStale
<1>1. Init => Registering
  BY BoundsAssumption DEF Init, Registering, RegistryNotStale, Conns, NoConn
<1>2. Registering => RegistryNotStale
  BY DEF Registering
<1> QED BY <1>1, <1>2, RegistryInductive, PTL DEF Spec

-----------------------------------------------------------------------------
(* The rows of envs. *)
Rows == db \in [Envs -> Statuses]

(* The actions that leave the rows alone. *)
LEMMA RowsUntouched ==
  ASSUME [Next]_vars,
         ~ \E r \in Requests : Begin(r) \/ RemoveRow(r),
         ~ \E k \in Conns : ReceiveMessage(k) \/ MarkLost(k)
  PROVE  UNCHANGED db
<1>1. ASSUME NEW r \in Requests, Find(r) \/ Route(r) \/ SendCommand(r) \/ JobStep(r)
      PROVE  UNCHANGED db
  BY <1>1 DEF Find, Route, SendCommand, JobStep, Execute, Handlers!Execute,
              SendReport, server
<1>2. CASE AgentStep \/ AgentRestarts \/ UNCHANGED vars
      \/ \E e \in Envs : ContainerDies(e)
  BY <1>2 DEF AgentStep, Connect, ReceiveFirst, ListRunning, Announce, Beat,
              ReceiveCommand, Disconnect, AgentRestarts, ContainerDies, vars, server
<1>3. ASSUME NEW k \in Conns,
             \/ Accept(k) \/ Registered(k) \/ EndStream(k) \/ MarkOffline(k)
             \/ UnregisterStream(k) \/ Break(k)
      PROVE  UNCHANGED db
  BY <1>3 DEF Accept, RegisterStream, Refuse, Registered, EndStream, MarkOffline,
              UnregisterStream, Break, server
<1>4. CASE ControlPlaneRestarts
  BY <1>4 DEF ControlPlaneRestarts
<1> QED BY <1>1, <1>2, <1>3, <1>4 DEF Next, UserStep, Serve

(* A report or a snapshot changes the rows through Mark, if at all. *)
LEMMA MessagesMark ==
  ASSUME Rows, NEW k \in Conns, ReceiveMessage(k) \/ MarkLost(k)
  PROVE  Rows' /\ \A e \in Envs : db[e] = "absent" => db'[e] = "absent"
<1>1. ASSUME NEW e, NEW s \in Statuses, Mark(e, s)
      PROVE  Rows' /\ \A x \in Envs : db[x] = "absent" => db'[x] = "absent"
  BY <1>1 DEF Mark, Rows
<1>2. \A t \in DOMAIN Status : Status[t] \in Statuses
  BY DEF Status, Statuses
<1>3. "error" \in Statuses
  BY DEF Statuses
<1>4. CASE ReceiveMessage(k)
  <2>1. \/ UNCHANGED db
        \/ \E m : m.type \in DOMAIN Status /\ Mark(m.env, Status[m.type])
    BY <1>4 DEF ReceiveMessage
  <2> QED BY <2>1, <1>1, <1>2 DEF Rows
<1>5. CASE MarkLost(k)
  <2>1. UNCHANGED db \/ \E e : Mark(e, "error")
    BY <1>5 DEF MarkLost
  <2> QED BY <2>1, <1>1, <1>3 DEF Rows
<1> QED BY <1>4, <1>5

LEMMA RowsInductive == Rows /\ [Next]_vars => Rows'
<1> SUFFICES ASSUME Rows, [Next]_vars
             PROVE  Rows'
  OBVIOUS
<1>1. ASSUME NEW r \in Requests, Begin(r) \/ RemoveRow(r)
      PROVE  Rows'
  BY <1>1, RequestsAssumption DEF Begin, RemoveRow, Rows, Statuses
<1> QED BY <1>1, MessagesMark, RowsUntouched DEF Rows

(* Only a create request brings a row into being: whatever was lost, delayed or
   overtaken, no report and no snapshot revives a deleted environment. *)
THEOREM RowsNotRevived == Spec => NoResurrection
<1>1. Init => Rows
  BY DEF Init, Rows, Statuses
<1>2. Rows /\ [Next]_vars =>
        [\A e \in Envs : db[e] = "absent" /\ db'[e] # "absent" =>
            \E r \in Requests : r.op = "create" /\ r.env = e
                                 /\ http[r] = "idle"]_vars
  <2> SUFFICES ASSUME Rows, [Next]_vars, NEW e \in Envs,
                      db[e] = "absent", db'[e] # "absent"
               PROVE  \E r \in Requests : r.op = "create" /\ r.env = e
                                           /\ http[r] = "idle"
    OBVIOUS
  <2>1. PICK r \in Requests : Begin(r) \/ RemoveRow(r)
    BY MessagesMark, RowsUntouched
  <2>2. Begin(r)
    BY <2>1 DEF RemoveRow, Rows
  <2>3. db' = [db EXCEPT ![r.env] = "creating"] /\ r.op = "create"
        /\ http[r] = "idle"
    BY <2>2 DEF Begin
  <2> QED BY <2>3 DEF Rows
<1> QED BY <1>1, <1>2, RowsInductive, PTL DEF Spec, NoResurrection

-----------------------------------------------------------------------------
(***************************************************************************)
(* Reconciliation.  The rest is about orderly use: an environment has one  *)
(* create (its id is a fresh UUID), a user acts on it when its last action *)
(* has come to rest, and a link breaks when nothing is under way.  What a  *)
(* handler depends on may fail, Headscale may refuse a key and containers  *)
(* may die while the agent is away.                                        *)
(***************************************************************************)
OrderlyUse ==
    /\ Faults \subseteq {"fail", "hs", "exit"}
    /\ \A r, q \in Requests :
          r.op = "create" /\ q.op = "create" /\ r.env = q.env => r = q

(* The agent's connection is one whose link is intact. *)
Online == conn # NoConn /\ link[conn] = "up"

Live == {"accepted", "serving", "offline", "unregister"}

(* Connections: one link at a time, one handler at a time, the registered one;
   a handler that gives up does so because its link is down. *)
Lines ==
    /\ \A k \in Conns : link[k] = "up" => conn = k
    /\ conn # NoConn => link[conn] # "none"
    /\ \A k \in Conns : srv[k] \in Live <=> registry = k
    /\ \A k \in Conns : srv[k] \in {"offline", "unregister", "closed"}
                         => link[k] = "down"
    /\ \A k \in Conns : link[k] = "none" => srv[k] = "none"
    /\ \A k \in Conns : srv[k] \in {"none", "accepted"} => ~synced[k]
    /\ \A k \in Conns : lost[k] # {} => srv[k] = "serving"
    /\ Online /\ phase # "registering" => srv[conn] = "serving"

(* What is on the wire to the agent: the acknowledgement before everything
   else, each command once. *)
Downlink ==
    /\ \A k \in Conns : toAgent[k] # <<>>
          => k = conn /\ link[k] = "up" /\ srv[k] \notin {"none", "accepted"}
    /\ Online /\ phase = "registering" /\ srv[conn] = "serving"
          => toAgent[conn] # <<>> /\ Head(toAgent[conn]) = Ack
    /\ \A k \in Conns : \A i \in DOMAIN toAgent[k] :
          toAgent[k][i] = Ack => phase = "registering"
    /\ \A k \in Conns : \A i, j \in DOMAIN toAgent[k] :
          toAgent[k][i] = toAgent[k][j] => i = j

(* What is on the wire to the control plane: the registration, then the
   snapshot, then everything else. *)
About(e, m) == \E t \in DOMAIN Status : m = [type |-> t, env |-> e]

Uplink ==
    /\ Online /\ phase \in {"registering", "list", "announce"} =>
          /\ ~synced[conn] /\ lost[conn] = {}
          /\ IF srv[conn] = "serving" THEN toServer[conn] = <<>>
                                      ELSE toServer[conn] = <<Register>>
    /\ \A k \in Conns : \A i \in DOMAIN toServer[k] :
          toServer[k][i].type = "snapshot"
             => i = 1 /\ srv[k] = "serving" /\ ~synced[k]
    /\ \A k \in Conns : \A i \in DOMAIN toServer[k] : \A e \in Envs :
          About(e, toServer[k][i])
             => /\ Online /\ k = conn /\ phase = "up"
                /\ \E r \in Requests : r.env = e
    /\ \A k \in Conns : \A i, j \in DOMAIN toServer[k] : \A e \in Envs :
          About(e, toServer[k][i]) /\ About(e, toServer[k][j]) => i = j

(* A request under way is at one place, and an environment has one. *)
Sent(r) == \E k \in Conns : InWire(r, toAgent[k])
Doing(r) == job[r] \in {"running", "reporting"}
Moving(r) == http[r] \in InHand \/ Sent(r) \/ Doing(r)
Told(e) == \E k \in Conns : \E i \in DOMAIN toServer[k] : About(e, toServer[k][i])

Flow ==
    /\ \A r \in Requests : http[r] # "done" => job[r] = "none" /\ ~Sent(r)
    /\ \A r \in Requests : Sent(r) => job[r] = "none"
    /\ \A r \in Requests : Doing(r) => Online /\ via[r] = conn /\ phase = "up"
    /\ \A r \in Requests : http[r] = "send"
          => Online /\ got[r] = conn /\ srv[conn] = "serving"
    /\ \A r, q \in Requests : r.env = q.env /\ Moving(r) /\ Moving(q) => r = q
    /\ \A r \in Requests : Told(r.env) => ~Moving(r)

(* What the container is while a request has not been executed, and what the
   handler reports of it. *)
Unborn(e) == \A r \in Requests : r.op = "create" /\ r.env = e => http[r] = "idle"

Untried(e) == \A r \in Requests : r.env = e => http[r] \in {"idle", "failed"}

Boxes ==
    /\ \A e \in Envs : Unborn(e)
          => db[e] = "absent" /\ box[e] = "none" /\ Untried(e)
    /\ \A r \in Requests : r.op = "create" /\ http[r] \in InHand \cup {"failed"}
          => /\ box[r.env] = "none"
             /\ \A q \in Requests \ {r} : q.env = r.env
                   => http[q] \in {"idle", "failed"}
    /\ \A r \in Requests : r.op = "create" /\ http[r] = "failed"
          => db[r.env] = "absent"
    /\ \A r \in Requests : r.op = "start" /\ Moving(r) /\ job[r] # "reporting"
          => box[r.env] # "running"
    /\ \A r \in Requests : job[r] = "reporting"
          => (result[r] = "ready" <=> box[r.env] = "running")
    /\ \A k \in Conns : \A i \in DOMAIN toServer[k] :
          toServer[k][i].type \in DOMAIN Status
             => (toServer[k][i].type = "ready"
                  <=> box[toServer[k][i].env] = "running")

(* No handler has changed the container since the last report about it was
   applied. *)
Plain(e) == ~Told(e) /\ \A r \in Requests : r.env = e => job[r] # "reporting"

(* The control plane is going to learn that e does not run. *)
Pending(e) ==
    \/ ~Online
    \/ phase \in {"registering", "list"}
    \/ phase = "announce" /\ e \notin listed
    \/ \E i \in DOMAIN toServer[conn] : /\ toServer[conn][i].type = "snapshot"
                                        /\ e \notin toServer[conn][i].running
    \/ e \in lost[conn]

Agreement ==
    /\ \A e \in Envs : Plain(e) /\ db[e] # "absent" /\ box[e] = "running"
          => db[e] = "running"
    /\ \A e \in Envs : Plain(e) /\ db[e] = "running" /\ box[e] # "running"
          => Pending(e)
    /\ \A e \in Envs : db[e] = "creating"
          => Told(e) \/ \E r \in Requests : r.env = e /\ Moving(r)
    /\ \A r \in Requests : db[r.env] = "creating" /\ http[r] \in InHand
          => r.op = "create"

Snapshots ==
    /\ conn # NoConn /\ phase = "announce"
          => \A e \in Envs : e \in listed <=> box[e] = "running"
    /\ \A k \in Conns : \A i \in DOMAIN toServer[k] : \A e \in Envs :
          toServer[k][i].type = "snapshot" /\ Plain(e) =>
             /\ box[e] = "running" => e \in toServer[k][i].running
             /\ link[k] = "up" /\ e \in toServer[k][i].running
                  => box[e] = "running"
    /\ \A k \in Conns : \A e \in lost[k] : Plain(e) => box[e] # "running"

UseInv == /\ Lines /\ Downlink /\ Uplink /\ Flow
          /\ Boxes /\ Agreement /\ Snapshots

-----------------------------------------------------------------------------
(* What cannot happen in orderly use. *)
LEMMA OrderlyFaults ==
  ASSUME OrderlyUse
  PROVE  Faults \cap {"impatient", "again", "early", "blind", "busy", "late",
                      "stick", "list", "db", "restart"} = {}
BY DEF OrderlyUse

(* Sequences, index by index. *)
LEMMA AppendIndex ==
  ASSUME NEW M, NEW s \in Seq(M), NEW m \in M
  PROVE  /\ DOMAIN Append(s, m) = DOMAIN s \cup {Len(s) + 1}
         /\ Len(s) + 1 \notin DOMAIN s /\ Len(s) \in Nat
         /\ \A i \in DOMAIN s : Append(s, m)[i] = s[i]
         /\ Append(s, m)[Len(s) + 1] = m
         /\ Append(s, m) # <<>>
         /\ s # <<>> => Head(Append(s, m)) = Head(s)
         /\ s = <<>> => Append(s, m) = <<m>> /\ Len(s) + 1 = 1
<1>1. /\ DOMAIN Append(s, m) = DOMAIN s \cup {Len(s) + 1}
      /\ Len(s) + 1 \notin DOMAIN s /\ Len(s) \in Nat
      /\ \A i \in DOMAIN s : Append(s, m)[i] = s[i]
      /\ Append(s, m)[Len(s) + 1] = m
  OBVIOUS
<1>2. /\ Append(s, m) # <<>>
      /\ s # <<>> => Head(Append(s, m)) = Head(s)
  OBVIOUS
<1>3. s = <<>> => Append(s, m) = <<m>> /\ Len(s) + 1 = 1
  OBVIOUS
<1> QED BY <1>1, <1>2, <1>3

LEMMA TailIndex ==
  ASSUME NEW M, NEW s \in Seq(M), s # <<>>
  PROVE  /\ 1 \in DOMAIN s /\ Head(s) = s[1]
         /\ \A i \in DOMAIN Tail(s) : /\ i \in Nat \ {0}
                                      /\ i + 1 \in DOMAIN s
                                      /\ Tail(s)[i] = s[i + 1]
         /\ \A j \in DOMAIN s : /\ j \in Nat \ {0}
                                /\ j # 1 => /\ j - 1 \in DOMAIN Tail(s)
                                            /\ Tail(s)[j - 1] = s[j]
OBVIOUS

LEMMA PrefixIndex ==
  ASSUME NEW M, NEW s \in Seq(M), NEW n \in 0..Len(s)
  PROVE  \A i \in DOMAIN SubSeq(s, 1, n) :
            i \in DOMAIN s /\ SubSeq(s, 1, n)[i] = s[i]
OBVIOUS

(* The parts of the state each group of actions leaves alone. *)
LEMMA UsersSpare ==
  ASSUME NEW r \in Requests, UserStep(r)
  PROVE  /\ UNCHANGED <<node, registry, srv, lost, synced, link, toServer, agent>>
         /\ \A q \in Requests \ {r} : TypeInv => http'[q] = http[q]
BY DEF UserStep, Begin, Find, Route, SendCommand, RemoveRow, Undispatched, Http,
       server, wires, agent, TypeInv, TypeOK

LEMMA JobsSpare ==
  ASSUME NEW r \in Requests, JobStep(r)
  PROVE  UNCHANGED <<server, link, toAgent, conn, phase, listed, via, users>>
BY DEF JobStep, Execute, Handlers!Execute, SendReport, wires, server

LEMMA AgentSpares ==
  ASSUME AgentStep
  PROVE  UNCHANGED <<server, box, result, users>>
BY DEF AgentStep, Connect, ReceiveFirst, ListRunning, Announce, Beat,
       ReceiveCommand, Disconnect, agent

LEMMA ServerSpares ==
  ASSUME NEW k \in Conns, Accept(k) \/ Serve(k) \/ Break(k)
  PROVE  UNCHANGED <<agent, users>>
BY DEF Accept, RegisterStream, Refuse, Serve, Registered, ReceiveMessage,
       MarkLost, EndStream, MarkOffline, UnregisterStream, Break

(* Connections and handlers, step by step. *)
LEMMA LinesStep ==
  ASSUME TypeInv, OrderlyUse, UseInv, [Next]_vars
  PROVE  Lines'
<1> USE RequestsAssumption, BoundsAssumption
<1>t. TypeOK /\ Lines /\ Downlink /\ Uplink
  BY DEF TypeInv, UseInv
<1>0. ASSUME UNCHANGED <<link, conn, srv, registry, synced, lost, phase>>
      PROVE  Lines'
  BY <1>t, <1>0 DEF Lines, Online
<1>1. ASSUME NEW r \in Requests, UserStep(r) \/ JobStep(r)
      PROVE  Lines'
  BY <1>0, <1>1, UsersSpare, JobsSpare DEF server, agent
<1>2. CASE Connect
  BY <1>t, <1>2 DEF Connect, Lines, Online, TypeOK, server, Conns, NoConn
<1>3. CASE ReceiveFirst
  <2>1. srv[conn] = "serving"
    BY <1>t, <1>3 DEF ReceiveFirst, Lines, Downlink, TypeOK
  <2> QED BY <1>t, <1>3, <2>1 DEF ReceiveFirst, Lines, Online, server
<1>4. CASE ListRunning \/ Announce
  BY <1>t, <1>4 DEF ListRunning, Announce, Lines, Online, server, wires
<1>5. CASE Beat \/ ReceiveCommand
  BY <1>0, <1>5 DEF Beat, ReceiveCommand, server, agent
<1>6. CASE Disconnect
  BY <1>t, <1>6 DEF Disconnect, Lines, Online, server, Conns, NoConn
<1>7. ASSUME NEW k \in Conns, RegisterStream(k)
      PROVE  Lines'
  <2>1. /\ link[k] = "up" /\ registry' = k /\ srv[k] = "none"
        /\ srv' = [srv EXCEPT ![k] = "accepted"]
        /\ \A j \in Conns \ {k} : srv[j] \in {"none", "closed"}
        /\ UNCHANGED <<lost, synced, link, conn, phase>>
    BY <1>7, OrderlyFaults DEF RegisterStream, Srv, wires, agent
  <2>2. \A j \in Conns : srv'[j] \in Live <=> registry' = j
    BY <1>t, <2>1 DEF Live, TypeOK
  <2> QED BY <1>t, <2>1, <2>2 DEF Lines, Online, TypeOK
<1>8. ASSUME NEW k \in Conns, Refuse(k)
      PROVE  FALSE
  BY <1>8, OrderlyFaults DEF Refuse
<1>9. ASSUME NEW k \in Conns, Registered(k)
      PROVE  Lines'
  <2>1. /\ srv[k] = "accepted"
        /\ \/ srv' = [srv EXCEPT ![k] = "serving"]
           \/ srv' = [srv EXCEPT ![k] = "offline"] /\ link[k] = "down"
        /\ UNCHANGED <<registry, lost, synced, link, conn, phase>>
    BY <1>9, OrderlyFaults DEF Registered, MayFail, Srv, agent
  <2> QED BY <1>t, <2>1 DEF Lines, Live, Online, TypeOK
<1>10. ASSUME NEW k \in Conns, ReceiveMessage(k)
       PROVE  Lines'
  <2>1. /\ srv[k] = "serving" /\ UNCHANGED <<registry, srv, link, conn, phase>>
        /\ \A j \in Conns \ {k} : lost'[j] = lost[j]
        /\ UNCHANGED synced \/ synced' = [synced EXCEPT ![k] = TRUE]
    BY <1>t, <1>10 DEF ReceiveMessage, agent, TypeOK
  <2>2. \A j \in Conns \ {k} : synced'[j] = synced[j]
    BY <1>t, <2>1, Zenon DEF TypeOK
  <2> QED BY <1>t, <2>1, <2>2 DEF Lines, Online, TypeOK
<1>11. ASSUME NEW k \in Conns, MarkLost(k)
       PROVE  Lines'
  <2>1. /\ srv[k] = "serving"
        /\ UNCHANGED <<registry, srv, link, conn, phase, synced>>
        /\ \A j \in Conns \ {k} : lost'[j] = lost[j]
    BY <1>t, <1>11 DEF MarkLost, agent, wires, TypeOK
  <2> QED BY <1>t, <2>1 DEF Lines, Online, TypeOK
<1>12. ASSUME NEW k \in Conns, EndStream(k) \/ MarkOffline(k)
       PROVE  Lines'
  <2>1. /\ srv[k] \in Live /\ link[k] = "down" /\ lost[k] = {}
        /\ \/ srv' = [srv EXCEPT ![k] = "offline"]
           \/ srv' = [srv EXCEPT ![k] = "unregister"]
        /\ UNCHANGED <<registry, lost, synced, link, conn, phase>>
    BY <1>t, <1>12 DEF EndStream, MarkOffline, Srv, Live, Lines, wires, agent,
                       TypeOK
  <2> QED BY <1>t, <2>1 DEF Lines, Live, Online, TypeOK
<1>13. ASSUME NEW k \in Conns, UnregisterStream(k)
       PROVE  Lines'
  <2>1. /\ srv[k] = "unregister" /\ link[k] = "down" /\ registry = k
        /\ srv' = [srv EXCEPT ![k] = "closed"] /\ registry' = NoConn
        /\ link' = link
        /\ UNCHANGED <<lost, synced, conn, phase>>
    BY <1>t, <1>13 DEF UnregisterStream, Srv, Lines, Live, agent, TypeOK
  <2>2. NoConn \notin Conns
    BY DEF NoConn, Conns
  <2> QED BY <1>t, <2>1, <2>2 DEF Lines, Live, Online, TypeOK
<1>14. ASSUME NEW k \in Conns, Break(k)
       PROVE  Lines'
  BY <1>t, <1>14 DEF Break, Lines, Online, server, agent, TypeOK
<1>15. ASSUME NEW e \in Envs, ContainerDies(e)
       PROVE  Lines'
  BY <1>0, <1>15 DEF ContainerDies, server, wires
<1>16. CASE AgentRestarts \/ ControlPlaneRestarts
  BY <1>16, OrderlyFaults DEF AgentRestarts, ControlPlaneRestarts
<1>17. CASE UNCHANGED vars
  BY <1>0, <1>17 DEF vars, server, wires, agent
<1> QED
  BY <1>1, <1>2, <1>3, <1>4, <1>5, <1>6, <1>7, <1>8, <1>9, <1>10, <1>11, <1>12,
     <1>13, <1>14, <1>15, <1>16, <1>17
     DEF Next, AgentStep, Accept, Serve

(* The wire to the agent, step by step. *)
LEMMA DownlinkStep ==
  ASSUME TypeInv, OrderlyUse, UseInv, [Next]_vars
  PROVE  Downlink'
<1> USE RequestsAssumption, BoundsAssumption
<1>t. /\ TypeOK /\ Lines /\ Downlink /\ Flow
      /\ toAgent \in [Conns -> Seq(Commands)]
      /\ \A k \in Conns : toAgent[k] \in Seq(Commands)
      /\ NoConn \notin Conns
  BY DEF TypeInv, Wired, UseInv, NoConn, Conns
<1>0. ASSUME UNCHANGED <<toAgent, conn, link, srv, phase>>
      PROVE  Downlink'
  BY <1>t, <1>0 DEF Downlink, Online
<1>1. ASSUME NEW r \in Requests, SendCommand(r)
      PROVE  Downlink'
  <2>1. /\ Online /\ srv[conn] = "serving" /\ conn \in Conns
        /\ toAgent' = [toAgent EXCEPT ![conn] = Append(@, r)]
           \/ UNCHANGED toAgent
        /\ UNCHANGED <<conn, link, srv, phase>>
    BY <1>t, <1>1 DEF SendCommand, Send, Flow, Online, server, agent, TypeOK
  <2>2. CASE UNCHANGED toAgent
    BY <1>0, <2>1, <2>2
  <2>3. CASE toAgent' = [toAgent EXCEPT ![conn] = Append(@, r)]
    <3> DEFINE s == toAgent[conn]
    <3>1. r \in Commands /\ r # Ack
      BY AckAssumption DEF Commands
    <3>2. \A i \in DOMAIN s : s[i] # r
      BY <1>t, <1>1, <2>1 DEF SendCommand, Flow, Sent, InWire
    <3>3. /\ toAgent'[conn] = Append(s, r)
          /\ \A k \in Conns \ {conn} : toAgent'[k] = toAgent[k]
      BY <1>t, <2>1, <2>3
    <3>4. s \in Seq(Commands)
      BY <1>t, <2>1
    <3> HIDE DEF s
    <3>5. /\ toAgent'[conn] # <<>>
          /\ s # <<>> => Head(toAgent'[conn]) = Head(s)
          /\ \A i \in DOMAIN toAgent'[conn] : toAgent'[conn][i] = Ack
                => i \in DOMAIN s /\ s[i] = Ack
          /\ \A i, j \in DOMAIN toAgent'[conn] :
                toAgent'[conn][i] = toAgent'[conn][j] =>
                   i = j \/ (i \in DOMAIN s /\ j \in DOMAIN s /\ s[i] = s[j])
      BY <3>1, <3>2, <3>3, <3>4, AppendIndex
    <3>6. /\ \A k \in Conns : toAgent'[k] # <<>>
              => k = conn' /\ link'[k] = "up" /\ srv'[k] \notin {"none", "accepted"}
          /\ \A k \in Conns \ {conn} : toAgent'[k] = <<>>
      BY <1>t, <2>1, <3>3 DEF Downlink, Online
    <3>7. Online' /\ phase' = "registering" /\ srv'[conn'] = "serving"
          => toAgent'[conn] # <<>> /\ Head(toAgent'[conn]) = Ack
      <4>1. Online /\ phase = "registering" => s # <<>> /\ Head(s) = Ack
        BY <1>t, <2>1 DEF Downlink, s
      <4> QED BY <2>1, <3>5, <4>1 DEF Online
    <3>8. /\ \A i \in DOMAIN s : s[i] = Ack => phase = "registering"
          /\ \A i, j \in DOMAIN s : s[i] = s[j] => i = j
      BY <1>t, <2>1 DEF Downlink, s
    <3>9. /\ \A i \in DOMAIN toAgent'[conn] :
                toAgent'[conn][i] = Ack => phase' = "registering"
          /\ \A i, j \in DOMAIN toAgent'[conn] :
                toAgent'[conn][i] = toAgent'[conn][j] => i = j
      BY <2>1, <3>5, <3>8
    <3> QED BY <2>1, <3>6, <3>7, <3>9 DEF Downlink
  <2> QED BY <2>1, <2>2, <2>3
<1>2. ASSUME NEW r \in Requests, UserStep(r), ~SendCommand(r)
      PROVE  Downlink'
  BY <1>0, <1>2 DEF UserStep, Begin, Find, Route, RemoveRow, server, wires, agent
<1>3. ASSUME NEW r \in Requests, JobStep(r)
      PROVE  Downlink'
  BY <1>0, <1>3, JobsSpare DEF server
<1>4. CASE Connect
  <2>1. /\ conn = NoConn /\ conn' \in Conns /\ srv[conn'] = "none"
        /\ UNCHANGED <<toAgent, srv>> /\ phase' = "registering"
    BY <1>t, <1>4 DEF Connect, Lines, server
  <2> QED BY <1>t, <2>1 DEF Downlink, Online
<1>5. CASE ReceiveFirst
  <2> DEFINE s == toAgent[conn]
  <2>1. /\ conn \in Conns /\ s # <<>> /\ s \in Seq(Commands)
        /\ phase = "registering" /\ phase' = "list"
        /\ toAgent' = [toAgent EXCEPT ![conn] = Tail(s)]
        /\ UNCHANGED <<conn, link, srv>>
    BY <1>t, <1>5 DEF ReceiveFirst, TypeOK, server
  <2>2. link[conn] = "up" /\ srv[conn] = "serving" /\ Head(s) = Ack
    BY <1>t, <2>1 DEF Downlink, Lines, Online, TypeOK
  <2>3. /\ toAgent'[conn] = Tail(s)
        /\ \A k \in Conns \ {conn} : toAgent'[k] = toAgent[k]
    BY <1>t, <2>1
  <2>4. \A i, j \in DOMAIN s : s[i] = s[j] => i = j
    BY <1>t, <2>1 DEF Downlink
  <2> HIDE DEF s
  <2>5. /\ \A i \in DOMAIN Tail(s) : Tail(s)[i] # Ack
        /\ \A i, j \in DOMAIN Tail(s) : Tail(s)[i] = Tail(s)[j] => i = j
    BY <2>1, <2>2, <2>4, TailIndex
  <2>6. \A k \in Conns \ {conn} : toAgent[k] = <<>>
    BY <1>t DEF Downlink
  <2> QED BY <1>t, <2>1, <2>2, <2>3, <2>5, <2>6 DEF Downlink, Online
<1>6. CASE ListRunning \/ Announce
  BY <1>t, <1>6 DEF ListRunning, Announce, Downlink, Online, server, wires
<1>7. CASE Beat
  BY <1>0, <1>7 DEF Beat, server, agent
<1>8. CASE ReceiveCommand
  <2> DEFINE s == toAgent[conn]
  <2>1. /\ conn \in Conns /\ s # <<>> /\ s \in Seq(Commands)
        /\ phase = "up"
        /\ toAgent' = [toAgent EXCEPT ![conn] = Tail(s)]
        /\ UNCHANGED <<conn, link, srv, phase>>
    BY <1>t, <1>8 DEF ReceiveCommand, TypeOK, server
  <2>2. /\ toAgent'[conn] = Tail(s)
        /\ \A k \in Conns \ {conn} : toAgent'[k] = toAgent[k]
    BY <1>t, <2>1
  <2>3. \A i, j \in DOMAIN s : s[i] = s[j] => i = j
    BY <1>t, <2>1 DEF Downlink
  <2>4. \A i \in DOMAIN s : s[i] # Ack
    BY <1>t, <2>1 DEF Downlink
  <2>5. link[conn] = "up" /\ srv[conn] \notin {"none", "accepted"}
    BY <1>t, <2>1 DEF Downlink
  <2> HIDE DEF s
  <2>6. /\ \A i \in DOMAIN Tail(s) : Tail(s)[i] # Ack
        /\ \A i, j \in DOMAIN Tail(s) : Tail(s)[i] = Tail(s)[j] => i = j
    BY <2>1, <2>3, <2>4, TailIndex
  <2> QED BY <1>t, <2>1, <2>2, <2>5, <2>6 DEF Downlink, Online
<1>9. CASE Disconnect
  <2>1. /\ conn \in Conns /\ conn' = NoConn
        /\ toAgent' = [toAgent EXCEPT ![conn] = <<>>]
    BY <1>t, <1>9 DEF Disconnect, TypeOK
  <2>2. \A k \in Conns : toAgent'[k] = <<>>
    BY <1>t, <2>1 DEF Downlink
  <2> QED BY <2>1, <2>2 DEF Downlink, Online
<1>10. ASSUME NEW k \in Conns, RegisterStream(k)
       PROVE  Downlink'
  BY <1>t, <1>10 DEF RegisterStream, Srv, Downlink, Online, wires, agent, TypeOK
<1>11. ASSUME NEW k \in Conns, Refuse(k)
       PROVE  FALSE
  BY <1>11, OrderlyFaults DEF Refuse
<1>12. ASSUME NEW k \in Conns, Registered(k)
       PROVE  Downlink'
  <2>1. /\ srv[k] = "accepted" /\ toAgent[k] = <<>>
        /\ UNCHANGED <<conn, link, phase>>
        /\ \/ /\ srv' = [srv EXCEPT ![k] = "serving"]
              /\ toAgent' = Send(toAgent, k, Ack)
           \/ /\ srv' = [srv EXCEPT ![k] = "offline"] /\ link[k] = "down"
              /\ UNCHANGED toAgent
    BY <1>t, <1>12, OrderlyFaults
       DEF Registered, MayFail, Srv, Downlink, agent, TypeOK
  <2>2. CASE link[k] = "up" /\ srv' = [srv EXCEPT ![k] = "serving"]
             /\ toAgent' = Send(toAgent, k, Ack)
    <3>1. conn = k /\ phase = "registering"
      BY <1>t, <2>1, <2>2 DEF Lines, Online
    <3>2. toAgent' = [toAgent EXCEPT ![k] = <<Ack>>]
      BY <1>t, <2>1, <2>2 DEF Send
    <3> QED BY <1>t, <2>1, <2>2, <3>1, <3>2 DEF Downlink, Online, TypeOK
  <2>3. CASE link[k] # "up"
    <3>1. UNCHANGED toAgent /\ \A j \in Conns \ {k} : srv'[j] = srv[j]
      BY <1>t, <2>1, <2>3 DEF Send, TypeOK
    <3> QED BY <1>t, <2>1, <2>3, <3>1 DEF Downlink, Online, TypeOK
  <2> QED BY <1>t, <2>1, <2>2, <2>3
<1>13. ASSUME NEW k \in Conns, ReceiveMessage(k) \/ MarkLost(k)
       PROVE  Downlink'
  BY <1>0, <1>13 DEF ReceiveMessage, MarkLost, wires, agent
<1>14. ASSUME NEW k \in Conns, EndStream(k) \/ MarkOffline(k)
       PROVE  Downlink'
  <2>1. /\ link[k] = "down" /\ UNCHANGED <<toAgent, conn, link, phase>>
        /\ \A j \in Conns \ {k} : srv'[j] = srv[j]
    BY <1>t, <1>14 DEF EndStream, MarkOffline, Srv, Lines, wires, agent, TypeOK
  <2> QED BY <1>t, <2>1 DEF Downlink, Online, TypeOK
<1>15. ASSUME NEW k \in Conns, UnregisterStream(k)
       PROVE  Downlink'
  <2>1. /\ link[k] = "down" /\ UNCHANGED <<toAgent, conn, link, phase>>
        /\ \A j \in Conns \ {k} : srv'[j] = srv[j]
    BY <1>t, <1>15 DEF UnregisterStream, Srv, Lines, agent, TypeOK
  <2> QED BY <1>t, <2>1 DEF Downlink, Online, TypeOK
<1>16. ASSUME NEW k \in Conns, Break(k)
       PROVE  Downlink'
  <2>1. /\ conn = k /\ link' = [link EXCEPT ![k] = "down"]
        /\ toAgent' = [toAgent EXCEPT ![k] = <<>>]
        /\ UNCHANGED <<conn, srv, phase>>
    BY <1>t, <1>16 DEF Break, Lines, server, agent
  <2>2. \A j \in Conns : toAgent'[j] = <<>>
    BY <1>t, <2>1 DEF Downlink
  <2>3. ~Online'
    BY <1>t, <2>1 DEF Online, TypeOK
  <2> QED BY <2>2, <2>3 DEF Downlink
<1>17. ASSUME NEW e \in Envs, ContainerDies(e)
       PROVE  Downlink'
  BY <1>0, <1>17 DEF ContainerDies, server, wires
<1>18. CASE AgentRestarts \/ ControlPlaneRestarts
  BY <1>18, OrderlyFaults DEF AgentRestarts, ControlPlaneRestarts
<1>19. CASE UNCHANGED vars
  BY <1>0, <1>19 DEF vars, server, wires, agent
<1> QED
  BY <1>1, <1>2, <1>3, <1>4, <1>5, <1>6, <1>7, <1>8, <1>9, <1>10, <1>11, <1>12,
     <1>13, <1>14, <1>15, <1>16, <1>17, <1>18, <1>19
     DEF Next, AgentStep, Accept, Serve

(* What a message is about, and what Settled says of it. *)
LEMMA AboutMeans ==
  /\ \A m \in Messages, e \in Envs :
        About(e, m) <=> m.type \in DOMAIN Status /\ m.env = e
  /\ \A m \in Messages : m.type \in DOMAIN Status =>
        m.env \in Envs /\ About(m.env, m) /\ m.type # "snapshot"
<1>1. \A m \in Messages : m.type \in DOMAIN Status => m \in Reports /\ m.env \in Envs
  BY MessageTypes
<1>2. ASSUME NEW m \in Messages, NEW e \in Envs
      PROVE  About(e, m) <=> m.type \in DOMAIN Status /\ m.env = e
  <2>1. ASSUME About(e, m)
        PROVE  m.type \in DOMAIN Status /\ m.env = e
    BY <2>1 DEF About
  <2>2. ASSUME m.type \in DOMAIN Status, m.env = e
        PROVE  About(e, m)
    <3>1. m \in Reports
      BY <1>1, <2>2
    <3>2. m = [type |-> m.type, env |-> m.env]
      BY <3>1 DEF Reports
    <3> QED BY <2>2, <3>2 DEF About
  <2> QED BY <2>1, <2>2
<1>3. "snapshot" \notin DOMAIN Status
  BY DEF Status
<1> QED BY <1>1, <1>2, <1>3

LEMMA NotAbout ==
  \A e \in Envs : /\ ~About(e, Register) /\ ~About(e, Heartbeat)
                  /\ \A ids : ~About(e, Snapshot(ids))
BY DEF About, Register, Heartbeat, Snapshot, Status

LEMMA SettledMeans ==
  ASSUME Uplink, NEW e \in Envs
  PROVE  Settled(e) <=> /\ ~Told(e)
                        /\ \A r \in Requests : r.env = e => ~Moving(r)
<1>1. ASSUME Settled(e), Told(e)
      PROVE  FALSE
  <2>1. PICK k \in Conns : \E i \in DOMAIN toServer[k] : About(e, toServer[k][i])
    BY <1>1 DEF Told
  <2>2. PICK r \in Requests : r.env = e
    BY <2>1 DEF Uplink
  <2> QED BY <1>1, <2>1, <2>2 DEF Settled, About, InWire
<1>2. ASSUME Settled(e), NEW r \in Requests, r.env = e
      PROVE  ~Moving(r)
  BY <1>2 DEF Settled, Moving, Sent, Doing
<1>3. ASSUME ~Told(e), \A r \in Requests : r.env = e => ~Moving(r)
      PROVE  Settled(e)
  BY <1>3 DEF Settled, Moving, Sent, Doing, Told, About, InWire
<1> QED BY <1>1, <1>2, <1>3

LEMMA UplinkStep ==
  ASSUME TypeInv, OrderlyUse, UseInv, [Next]_vars
  PROVE  Uplink'
<1> USE RequestsAssumption, BoundsAssumption
<1>t. /\ TypeOK /\ Lines /\ Downlink /\ Uplink /\ Flow
      /\ toServer \in [Conns -> Seq(Messages)]
      /\ \A k \in Conns : toServer[k] \in Seq(Messages)
      /\ NoConn \notin Conns
  BY DEF TypeInv, Wired, UseInv, NoConn, Conns
<1>0. ASSUME UNCHANGED <<toServer, conn, link, srv, phase, synced, lost>>
      PROVE  Uplink'
  BY <1>t, <1>0 DEF Uplink, Online
<1>1. ASSUME NEW r \in Requests, UserStep(r) \/ Execute(r)
      PROVE  Uplink'
  BY <1>0, <1>1, UsersSpare DEF Execute, Handlers!Execute, server, wires, agent
<1>a. ASSUME conn \in Conns, Online, phase' = "up", NEW m \in Messages,
             toServer' = [toServer EXCEPT ![conn] = Append(@, m)],
             UNCHANGED <<conn, link, srv, synced, lost>>,
             m.type = "snapshot" => /\ toServer[conn] = <<>> /\ ~synced[conn]
                                    /\ srv[conn] = "serving",
             \A e \in Envs : About(e, m) =>
                /\ \E r \in Requests : r.env = e
                /\ ~Told(e)
                /\ phase = "up"
      PROVE  Uplink'
  <2> DEFINE s == toServer[conn]
  <2>1. s \in Seq(Messages)
    BY <1>t, <1>a
  <2>2. /\ toServer'[conn] = Append(s, m)
        /\ \A k \in Conns \ {conn} : toServer'[k] = toServer[k]
    BY <1>t, <1>a
  <2>3. Online' /\ conn' = conn
    BY <1>a DEF Online
  <2>4. \A e \in Envs : About(e, m) => \A i \in DOMAIN s : ~About(e, s[i])
    BY <1>a DEF Told
  <2>5. /\ \A i \in DOMAIN s : s[i].type = "snapshot"
              => i = 1 /\ srv[conn] = "serving" /\ ~synced[conn]
        /\ \A i \in DOMAIN s : \A e \in Envs :
              About(e, s[i]) => \E r \in Requests : r.env = e
        /\ \A i, j \in DOMAIN s : \A e \in Envs :
              About(e, s[i]) /\ About(e, s[j]) => i = j
    BY <1>t, <1>a DEF Uplink
  <2>6. m.type = "snapshot" => s = <<>>
    BY <1>a
  <2> HIDE DEF s
  <2>7. \A i \in DOMAIN Append(s, m) : Append(s, m)[i].type = "snapshot"
              => i = 1 /\ srv[conn] = "serving" /\ ~synced[conn]
    BY <1>a, <2>1, <2>5, <2>6, AppendIndex
  <2>8. \A i \in DOMAIN Append(s, m) : \A e \in Envs :
              About(e, Append(s, m)[i]) => \E r \in Requests : r.env = e
    BY <1>a, <2>1, <2>5, AppendIndex
  <2>9. \A i, j \in DOMAIN Append(s, m) : \A e \in Envs :
              About(e, Append(s, m)[i]) /\ About(e, Append(s, m)[j]) => i = j
    BY <2>1, <2>4, <2>5, AppendIndex
  <2>10. \A k \in Conns \ {conn} : \A i \in DOMAIN toServer[k] : \A e \in Envs :
            ~About(e, toServer[k][i])
    BY <1>t DEF Uplink
  <2>11. \A k \in Conns : \A i \in DOMAIN toServer'[k] :
          toServer'[k][i].type = "snapshot"
             => i = 1 /\ srv'[k] = "serving" /\ ~synced'[k]
    BY <1>t, <1>a, <2>2, <2>7 DEF Uplink
  <2>12. \A k \in Conns : \A i \in DOMAIN toServer'[k] : \A e \in Envs :
          About(e, toServer'[k][i])
             => /\ Online' /\ k = conn' /\ phase' = "up"
                /\ \E r \in Requests : r.env = e
    BY <1>a, <2>2, <2>3, <2>8, <2>10
  <2>13. \A k \in Conns : \A i, j \in DOMAIN toServer'[k] : \A e \in Envs :
          About(e, toServer'[k][i]) /\ About(e, toServer'[k][j]) => i = j
    BY <2>2, <2>9, <2>10
  <2>14. ~(phase' \in {"registering", "list", "announce"})
    BY <1>a
  <2> QED BY <2>11, <2>12, <2>13, <2>14 DEF Uplink, About
<1>2. ASSUME NEW r \in Requests, SendReport(r)
      PROVE  Uplink'
  <2>1. Online /\ via[r] = conn /\ phase = "up" /\ conn \in Conns
    BY <1>t, <1>2 DEF SendReport, Flow, Doing, Online, TypeOK
  <2>2. result[r] \in DOMAIN Status
    BY <1>2 DEF SendReport, TypeInv, Wired, TypeOK
  <2>3. Report(r) \in Messages /\ Report(r).type # "snapshot"
    BY <2>2, MessageTypes DEF Report, Status
  <2>4. \A e \in Envs : About(e, Report(r)) => e = r.env
    BY DEF About, Report
  <2>5. ~Told(r.env)
    BY <1>t, <1>2 DEF SendReport, Flow, Moving, Doing
  <2>6. /\ toServer' = [toServer EXCEPT ![conn] = Append(@, Report(r))]
        /\ UNCHANGED <<conn, link, srv, synced, lost, phase>>
    BY <1>2, <2>1 DEF SendReport, Send, Online, server
  <2> QED BY <1>a, <2>1, <2>3, <2>4, <2>5, <2>6
<1>3. CASE Connect
  <2>1. /\ conn = NoConn /\ conn' \in Conns /\ link[conn'] = "none"
        /\ toServer' = [toServer EXCEPT ![conn'] = <<Register>>]
        /\ UNCHANGED <<srv, synced, lost>>
    BY <1>t, <1>3 DEF Connect, server
  <2>2. srv[conn'] = "none" /\ ~synced[conn'] /\ lost[conn'] = {}
    BY <1>t, <2>1 DEF Lines
  <2>3. \A k \in Conns : \A i \in DOMAIN toServer[k] : \A e \in Envs :
          ~About(e, toServer[k][i])
    BY <1>t, <2>1 DEF Uplink, Online
  <2>4. /\ toServer'[conn'] = <<Register>>
        /\ \A k \in Conns \ {conn'} : toServer'[k] = toServer[k]
    BY <1>t, <2>1
  <2>5. \A k \in Conns : \A i \in DOMAIN toServer'[k] : \A e \in Envs :
          ~About(e, toServer'[k][i])
    BY <2>3, <2>4, NotAbout
  <2>6. Register.type # "snapshot"
    BY DEF Register
  <2>7. \A k \in Conns : \A i \in DOMAIN toServer'[k] :
          toServer'[k][i].type = "snapshot"
             => i = 1 /\ srv'[k] = "serving" /\ ~synced'[k]
    BY <1>t, <2>1, <2>4, <2>6 DEF Uplink
  <2> QED BY <2>1, <2>2, <2>4, <2>5, <2>7 DEF Uplink, About
<1>4. CASE ReceiveFirst
  <2>1. srv[conn] = "serving"
    BY <1>t, <1>4 DEF ReceiveFirst, Lines, Downlink, TypeOK
  <2> QED BY <1>t, <1>4, <2>1 DEF ReceiveFirst, Uplink, Online, server
<1>5. CASE ListRunning
  <2>1. phase = "list" /\ phase' = "announce"
        /\ UNCHANGED <<toServer, conn, link, srv, synced, lost>>
    BY <1>5, OrderlyFaults DEF ListRunning, server, wires
  <2> QED BY <1>t, <2>1 DEF Uplink, Online
<1>6. CASE Announce
  <2>1. /\ conn \in Conns /\ phase = "announce" /\ phase' = "up"
        /\ toServer' = Send(toServer, conn, Snapshot(listed))
        /\ UNCHANGED <<conn, link, srv, synced, lost>>
    BY <1>t, <1>6 DEF Announce, server, TypeOK
  <2>2. CASE ~Online
    BY <1>t, <2>1, <2>2 DEF Send, Uplink, Online
  <2>3. CASE Online
    <3>1. /\ srv[conn] = "serving" /\ toServer[conn] = <<>> /\ ~synced[conn]
      BY <1>t, <2>1, <2>3 DEF Lines, Uplink
    <3>2. Snapshot(listed) \in Messages
      BY <1>t, MessageTypes DEF TypeOK
    <3>3. toServer' = [toServer EXCEPT ![conn] = Append(@, Snapshot(listed))]
      BY <2>1, <2>3 DEF Send, Online
    <3> QED BY <1>a, <2>1, <2>3, <3>1, <3>2, <3>3, NotAbout
  <2> QED BY <2>2, <2>3
<1>7. CASE Beat
  <2>1. /\ conn \in Conns /\ phase = "up" /\ Online
        /\ toServer' = [toServer EXCEPT ![conn] = Append(@, Heartbeat)]
        /\ UNCHANGED <<conn, link, srv, synced, lost, phase>>
    BY <1>t, <1>7 DEF Beat, Send, Online, server, agent, TypeOK
  <2>2. Heartbeat \in Messages /\ Heartbeat.type # "snapshot"
    BY MessageTypes DEF Heartbeat
  <2> QED BY <1>a, <2>1, <2>2, NotAbout
<1>8. CASE ReceiveCommand
  BY <1>0, <1>8 DEF ReceiveCommand, server
<1>9. CASE Disconnect
  BY <1>t, <1>9 DEF Disconnect, Uplink, Online, server
<1>10. ASSUME NEW k \in Conns, RegisterStream(k)
       PROVE  Uplink'
  <2>1. /\ srv[k] = "none" /\ srv' = [srv EXCEPT ![k] = "accepted"]
        /\ UNCHANGED <<toServer, conn, link, phase, synced, lost>>
    BY <1>10 DEF RegisterStream, Srv, wires, agent
  <2> QED BY <1>t, <2>1 DEF Uplink, Online, TypeOK
<1>11. ASSUME NEW k \in Conns, Refuse(k)
       PROVE  FALSE
  BY <1>11, OrderlyFaults DEF Refuse
<1>b. ASSUME NEW k \in Conns, toServer[k] # <<>>,
             toServer' = [toServer EXCEPT ![k] = Tail(@)],
             UNCHANGED <<conn, link, phase>>
      PROVE  /\ \A i \in DOMAIN toServer'[k] : toServer'[k][i].type # "snapshot"
             /\ \A j \in Conns : \A i \in DOMAIN toServer'[j] : \A e \in Envs :
                  About(e, toServer'[j][i])
                    => /\ Online' /\ j = conn' /\ phase' = "up"
                       /\ \E r \in Requests : r.env = e
             /\ \A j \in Conns : \A i, h \in DOMAIN toServer'[j] : \A e \in Envs :
                  About(e, toServer'[j][i]) /\ About(e, toServer'[j][h]) => i = h
             /\ \A j \in Conns \ {k} : toServer'[j] = toServer[j]
             /\ toServer'[k] = Tail(toServer[k])
  <2> DEFINE s == toServer[k]
  <2>1. s \in Seq(Messages) /\ s # <<>>
    BY <1>t, <1>b
  <2>2. /\ toServer'[k] = Tail(s)
        /\ \A j \in Conns \ {k} : toServer'[j] = toServer[j]
    BY <1>t, <1>b
  <2>3. /\ \A i \in DOMAIN s : s[i].type = "snapshot" => i = 1
        /\ \A i \in DOMAIN s : \A e \in Envs : About(e, s[i])
              => /\ Online /\ k = conn /\ phase = "up"
                 /\ \E r \in Requests : r.env = e
        /\ \A i, j \in DOMAIN s : \A e \in Envs :
              About(e, s[i]) /\ About(e, s[j]) => i = j
    BY <1>t DEF Uplink
  <2> HIDE DEF s
  <2>4. \A i \in DOMAIN Tail(s) : Tail(s)[i].type # "snapshot"
    <3>1. SUFFICES ASSUME NEW i \in DOMAIN Tail(s)
                   PROVE  Tail(s)[i].type # "snapshot"
      OBVIOUS
    <3>2. i \in Nat \ {0} /\ i + 1 \in DOMAIN s /\ Tail(s)[i] = s[i + 1]
      BY <2>1, TailIndex
    <3> QED BY <2>3, <3>2
  <2>5. \A i \in DOMAIN Tail(s) : \A e \in Envs : About(e, Tail(s)[i])
              => /\ Online /\ k = conn /\ phase = "up"
                 /\ \E r \in Requests : r.env = e
    BY <2>1, <2>3, TailIndex
  <2>6. \A i, j \in DOMAIN Tail(s) : \A e \in Envs :
              About(e, Tail(s)[i]) /\ About(e, Tail(s)[j]) => i = j
    <3>1. SUFFICES ASSUME NEW i \in DOMAIN Tail(s), NEW j \in DOMAIN Tail(s),
                          NEW e \in Envs,
                          About(e, Tail(s)[i]), About(e, Tail(s)[j])
                   PROVE  i = j
      OBVIOUS
    <3>2. /\ i \in Nat /\ i + 1 \in DOMAIN s /\ Tail(s)[i] = s[i + 1]
          /\ j \in Nat /\ j + 1 \in DOMAIN s /\ Tail(s)[j] = s[j + 1]
      BY <2>1, TailIndex
    <3>3. i + 1 = j + 1
      BY <2>3, <3>1, <3>2
    <3> QED BY <3>2, <3>3
  <2>7. (Online' <=> Online) /\ conn' = conn /\ phase' = phase
    BY <1>b DEF Online
  <2>8. \A j \in Conns \ {k} : \A i \in DOMAIN toServer'[j] : \A e \in Envs :
           About(e, toServer'[j][i])
             => /\ Online /\ j = conn /\ phase = "up"
                /\ \E r \in Requests : r.env = e
    BY <1>t, <2>2 DEF Uplink
  <2>9. \A j \in Conns \ {k} : \A i, h \in DOMAIN toServer'[j] : \A e \in Envs :
           About(e, toServer'[j][i]) /\ About(e, toServer'[j][h]) => i = h
    BY <1>t, <2>2 DEF Uplink
  <2>10. toServer'[k] = Tail(toServer[k])
    BY <2>2 DEF s
  <2>11. \A i \in DOMAIN toServer'[k] : toServer'[k][i].type # "snapshot"
    BY <2>2, <2>4
  <2>12. \A j \in Conns : \A i \in DOMAIN toServer'[j] : \A e \in Envs :
           About(e, toServer'[j][i])
             => /\ Online' /\ j = conn' /\ phase' = "up"
                /\ \E r \in Requests : r.env = e
    BY <2>2, <2>5, <2>7, <2>8
  <2>13. \A j \in Conns : \A i, h \in DOMAIN toServer'[j] : \A e \in Envs :
           About(e, toServer'[j][i]) /\ About(e, toServer'[j][h]) => i = h
    BY <2>2, <2>6, <2>9
  <2> QED BY <2>2, <2>10, <2>11, <2>12, <2>13
<1>12. ASSUME NEW k \in Conns, Registered(k)
       PROVE  Uplink'
  <2>1. /\ srv[k] = "accepted" /\ toServer[k] # <<>>
        /\ toServer' = [toServer EXCEPT ![k] = Tail(@)]
        /\ UNCHANGED <<conn, link, phase, synced, lost>>
        /\ \/ srv' = [srv EXCEPT ![k] = "serving"]
           \/ srv' = [srv EXCEPT ![k] = "offline"] /\ link[k] = "down"
    BY <1>12, OrderlyFaults DEF Registered, MayFail, Srv, agent
  <2>2. Online /\ conn = k => phase = "registering" /\ toServer[k] = <<Register>>
    BY <1>t, <2>1 DEF Lines, Uplink
  <2>3. Online /\ conn = k => toServer'[k] = <<>> /\ srv'[k] = "serving"
    BY <1>t, <2>1, <2>2 DEF Online, TypeOK
  <2>4. Online' /\ phase' \in {"registering", "list", "announce"} =>
          /\ ~synced'[conn'] /\ lost'[conn'] = {}
          /\ IF srv'[conn'] = "serving" THEN toServer'[conn'] = <<>>
                                      ELSE toServer'[conn'] = <<Register>>
    BY <1>t, <2>1, <2>3 DEF Online, TypeOK, Uplink
  <2>5. \A j \in Conns : \A i \in DOMAIN toServer'[j] :
          toServer'[j][i].type = "snapshot"
             => i = 1 /\ srv'[j] = "serving" /\ ~synced'[j]
    BY <1>t, <1>b, <2>1 DEF Uplink, TypeOK
  <2> QED BY <1>b, <2>1, <2>4, <2>5 DEF Uplink, About
<1>13. ASSUME NEW k \in Conns, ReceiveMessage(k)
       PROVE  Uplink'
  <2>1. /\ srv[k] = "serving" /\ toServer[k] # <<>>
        /\ toServer' = [toServer EXCEPT ![k] = Tail(@)]
        /\ UNCHANGED <<conn, link, phase, srv>>
        /\ UNCHANGED synced \/ synced' = [synced EXCEPT ![k] = TRUE]
        /\ \A j \in Conns \ {k} : lost'[j] = lost[j]
    BY <1>t, <1>13 DEF ReceiveMessage, agent, TypeOK
  <2>2. \A j \in Conns \ {k} : synced'[j] = synced[j]
    BY <1>t, <2>1, Zenon DEF TypeOK
  <2>3. Online' /\ phase' \in {"registering", "list", "announce"} =>
          /\ ~synced'[conn'] /\ lost'[conn'] = {}
          /\ IF srv'[conn'] = "serving" THEN toServer'[conn'] = <<>>
                                      ELSE toServer'[conn'] = <<Register>>
    BY <1>t, <2>1, <2>2 DEF Online, TypeOK, Uplink
  <2>4. \A j \in Conns : \A i \in DOMAIN toServer'[j] :
          toServer'[j][i].type = "snapshot"
             => i = 1 /\ srv'[j] = "serving" /\ ~synced'[j]
    BY <1>t, <1>b, <2>1, <2>2 DEF Uplink, TypeOK
  <2> QED BY <1>b, <2>1, <2>3, <2>4 DEF Uplink, About
<1>14. ASSUME NEW k \in Conns, MarkLost(k)
       PROVE  Uplink'
  <2>1. /\ UNCHANGED <<toServer, conn, link, srv, phase, synced>>
        /\ \A j \in Conns : lost[j] = {} => lost'[j] = {}
    BY <1>t, <1>14 DEF MarkLost, wires, agent, TypeOK
  <2>2. Online' /\ phase' \in {"registering", "list", "announce"} =>
          /\ ~synced'[conn'] /\ lost'[conn'] = {}
          /\ IF srv'[conn'] = "serving" THEN toServer'[conn'] = <<>>
                                      ELSE toServer'[conn'] = <<Register>>
    BY <1>t, <2>1 DEF Online, TypeOK, Uplink
  <2>3. (Online' <=> Online) /\ conn' = conn /\ phase' = phase
    BY <2>1 DEF Online
  <2>4. /\ \A j \in Conns : \A i \in DOMAIN toServer'[j] :
          toServer'[j][i].type = "snapshot"
             => i = 1 /\ srv'[j] = "serving" /\ ~synced'[j]
        /\ \A j \in Conns : \A i \in DOMAIN toServer'[j] : \A e \in Envs :
            About(e, toServer'[j][i])
             => /\ Online' /\ j = conn' /\ phase' = "up"
                /\ \E r \in Requests : r.env = e
        /\ \A j \in Conns : \A i, h \in DOMAIN toServer'[j] : \A e \in Envs :
            About(e, toServer'[j][i]) /\ About(e, toServer'[j][h]) => i = h
    BY <1>t, <2>1, <2>3 DEF Uplink
  <2> QED BY <2>2, <2>4 DEF Uplink, About
<1>15. ASSUME NEW k \in Conns,
              EndStream(k) \/ MarkOffline(k) \/ UnregisterStream(k)
       PROVE  Uplink'
  <2>1. /\ link[k] = "down" /\ UNCHANGED <<conn, link, phase, synced, lost>>
        /\ \A j \in Conns \ {k} : srv'[j] = srv[j] /\ toServer'[j] = toServer[j]
        /\ \/ toServer'[k] = <<>>
           \/ toServer'[k] = toServer[k] /\ srv[k] = "offline"
    BY <1>t, <1>15 DEF EndStream, MarkOffline, UnregisterStream, Srv, Lines,
                       wires, agent, TypeOK
  <2>2. \A i \in DOMAIN toServer'[k] :
           /\ toServer'[k][i].type # "snapshot"
           /\ \A e \in Envs : ~About(e, toServer'[k][i])
    BY <1>t, <2>1 DEF Uplink, Online
  <2>3. (Online' <=> Online) /\ conn' = conn /\ (Online => conn # k)
    BY <2>1 DEF Online
  <2>4. Online' /\ phase' \in {"registering", "list", "announce"} =>
          /\ ~synced'[conn'] /\ lost'[conn'] = {}
          /\ IF srv'[conn'] = "serving" THEN toServer'[conn'] = <<>>
                                      ELSE toServer'[conn'] = <<Register>>
    BY <1>t, <2>1, <2>3 DEF Online, TypeOK, Uplink
  <2>5. \A j \in Conns : \A i \in DOMAIN toServer'[j] :
          toServer'[j][i].type = "snapshot"
             => i = 1 /\ srv'[j] = "serving" /\ ~synced'[j]
    BY <1>t, <2>1, <2>2 DEF Uplink
  <2>6. /\ \A j \in Conns : \A i \in DOMAIN toServer'[j] : \A e \in Envs :
            About(e, toServer'[j][i])
             => /\ Online' /\ j = conn' /\ phase' = "up"
                /\ \E r \in Requests : r.env = e
        /\ \A j \in Conns : \A i, h \in DOMAIN toServer'[j] : \A e \in Envs :
            About(e, toServer'[j][i]) /\ About(e, toServer'[j][h]) => i = h
    BY <1>t, <2>1, <2>2, <2>3 DEF Uplink
  <2> QED BY <2>4, <2>5, <2>6 DEF Uplink, About
<1>16. ASSUME NEW k \in Conns, Break(k)
       PROVE  Uplink'
  <2>1. /\ conn = k /\ link' = [link EXCEPT ![k] = "down"]
        /\ UNCHANGED <<conn, srv, phase, synced, lost>>
        /\ \A e \in Envs : Settled(e)
    BY <1>t, <1>16, OrderlyFaults DEF Break, Lines, server, agent
  <2>2. PICK n \in 0..Len(toServer[k]) :
            toServer' = [toServer EXCEPT ![k] = SubSeq(@, 1, n)]
    BY <1>16 DEF Break
  <2>3. \A j \in Conns : \A i \in DOMAIN toServer'[j] :
            i \in DOMAIN toServer[j] /\ toServer'[j][i] = toServer[j][i]
    BY <1>t, <2>2, PrefixIndex
  <2>4. \A j \in Conns : \A i \in DOMAIN toServer'[j] : \A e \in Envs :
            ~About(e, toServer'[j][i])
    BY <1>t, <2>1, <2>3, SettledMeans DEF Told
  <2>5. ~Online'
    BY <1>t, <2>1 DEF Online, TypeOK
  <2>6. \A j \in Conns : \A i \in DOMAIN toServer'[j] :
          toServer'[j][i].type = "snapshot"
             => i = 1 /\ srv'[j] = "serving" /\ ~synced'[j]
    BY <1>t, <2>1, <2>3 DEF Uplink
  <2> QED BY <2>4, <2>5, <2>6 DEF Uplink, About
<1>17. ASSUME NEW e \in Envs, ContainerDies(e)
       PROVE  Uplink'
  BY <1>0, <1>17 DEF ContainerDies, server, wires
<1>18. CASE AgentRestarts \/ ControlPlaneRestarts
  BY <1>18, OrderlyFaults DEF AgentRestarts, ControlPlaneRestarts
<1>19. CASE UNCHANGED vars
  BY <1>0, <1>19 DEF vars, server, wires, agent
<1> QED
  BY <1>1, <1>2, <1>3, <1>4, <1>5, <1>6, <1>7, <1>8, <1>9, <1>10, <1>11, <1>12,
     <1>13, <1>14, <1>15, <1>16, <1>17, <1>18, <1>19
     DEF Next, JobStep, AgentStep, Accept, Serve

(* How a command gets on the wire to the agent and off it. *)
LEMMA SentStep ==
  ASSUME TypeInv, OrderlyUse, UseInv, [Next]_vars, NEW q \in Requests
  PROVE  /\ Sent(q)' /\ ~Sent(q) => SendCommand(q)
         /\ Sent(q) /\ ~Sent(q)' => ReceiveCommand /\ q = Head(toAgent[conn])
         /\ ReceiveCommand /\ q = Head(toAgent[conn]) => Sent(q) /\ ~Sent(q)'
<1> USE RequestsAssumption, BoundsAssumption
<1>t. /\ TypeOK /\ Lines /\ Downlink /\ Uplink /\ Flow
      /\ toAgent \in [Conns -> Seq(Commands)]
      /\ \A k \in Conns : toAgent[k] \in Seq(Commands)
      /\ q # Ack
  BY AckAssumption DEF TypeInv, Wired, UseInv
<1>0. ASSUME UNCHANGED toAgent
      PROVE  Sent(q)' <=> Sent(q)
  BY <1>0 DEF Sent, InWire
<1>s. ASSUME NEW k \in Conns, InWire(q, toAgent'[k]) <=> InWire(q, toAgent[k]),
             \A j \in Conns \ {k} : toAgent'[j] = toAgent[j]
      PROVE  Sent(q)' <=> Sent(q)
  <2>1. \A j \in Conns : InWire(q, toAgent'[j]) <=> InWire(q, toAgent[j])
    BY <1>s
  <2> QED BY <2>1 DEF Sent, InWire
<1>e. ASSUME NEW k \in Conns, toAgent' = [toAgent EXCEPT ![k] = <<>>],
             link[k] = "down" \/ \A e \in Envs : Settled(e)
      PROVE  Sent(q)' <=> Sent(q)
  <2>1. ~InWire(q, toAgent[k])
    BY <1>t, <1>e DEF Downlink, Settled, InWire
  <2>2. /\ \A j \in Conns \ {k} : toAgent'[j] = toAgent[j]
        /\ toAgent'[k] = <<>>
    BY <1>t, <1>e
  <2> QED BY <1>s, <2>1, <2>2 DEF InWire
<1>a. ASSUME NEW k \in Conns, NEW m \in Commands, q # m,
             toAgent' = [toAgent EXCEPT ![k] = Append(@, m)]
      PROVE  Sent(q)' <=> Sent(q)
  <2> DEFINE s == toAgent[k]
  <2>1. /\ \A j \in Conns \ {k} : toAgent'[j] = toAgent[j]
        /\ toAgent'[k] = Append(s, m) /\ s \in Seq(Commands)
    BY <1>t, <1>a
  <2> HIDE DEF s
  <2>2. InWire(q, Append(s, m)) <=> InWire(q, s)
    BY <1>a, <2>1, AppendIndex DEF InWire
  <2>3. InWire(q, toAgent'[k]) <=> InWire(q, toAgent[k])
    BY <2>1, <2>2 DEF s
  <2> QED BY <1>s, <2>1, <2>3
<1>b. ASSUME NEW k \in Conns, toAgent[k] # <<>>,
             toAgent' = [toAgent EXCEPT ![k] = Tail(@)]
      PROVE  /\ q # Head(toAgent[k]) => (Sent(q)' <=> Sent(q))
             /\ q = Head(toAgent[k]) => Sent(q) /\ ~Sent(q)'
  <2> DEFINE s == toAgent[k]
  <2>1. /\ \A j \in Conns \ {k} : toAgent'[j] = toAgent[j]
        /\ toAgent'[k] = Tail(s) /\ s \in Seq(Commands) /\ s # <<>>
    BY <1>t, <1>b
  <2>2. \A i, j \in DOMAIN s : s[i] = s[j] => i = j
    BY <1>t DEF Downlink
  <2>3. \A j \in Conns \ {k} : toAgent[j] = <<>>
    BY <1>t, <1>b DEF Downlink
  <2> HIDE DEF s
  <2>4. 1 \in DOMAIN s /\ Head(s) = s[1]
    BY <2>1, TailIndex
  <2>5. ASSUME q # Head(s)
        PROVE  InWire(q, Tail(s)) <=> InWire(q, s)
    <3>1. ASSUME NEW i \in DOMAIN s, s[i] = q
          PROVE  InWire(q, Tail(s))
      <4>1. i # 1
        BY <2>4, <2>5, <3>1
      <4>2. i - 1 \in DOMAIN Tail(s) /\ Tail(s)[i - 1] = s[i]
        BY <2>1, <4>1, TailIndex
      <4> QED BY <3>1, <4>2 DEF InWire
    <3>2. ASSUME NEW i \in DOMAIN Tail(s), Tail(s)[i] = q
          PROVE  InWire(q, s)
      BY <2>1, <3>2, TailIndex DEF InWire
    <3> QED BY <3>1, <3>2 DEF InWire
  <2>6. ASSUME q = Head(s)
        PROVE  InWire(q, s) /\ ~InWire(q, Tail(s))
    <3>1. InWire(q, s)
      BY <2>4, <2>6 DEF InWire
    <3>2. ASSUME NEW i \in DOMAIN Tail(s), Tail(s)[i] = q
          PROVE  FALSE
      <4>1. i \in Nat \ {0} /\ i + 1 \in DOMAIN s /\ Tail(s)[i] = s[i + 1]
        BY <2>1, TailIndex
      <4>2. i + 1 = 1
        BY <2>2, <2>4, <2>6, <3>2, <4>1
      <4> QED BY <4>1, <4>2
    <3> QED BY <3>1, <3>2 DEF InWire
  <2>7. q # Head(s) => (InWire(q, toAgent'[k]) <=> InWire(q, toAgent[k]))
    BY <2>1, <2>5 DEF s
  <2>8. q = Head(s) => InWire(q, toAgent[k]) /\ ~InWire(q, toAgent'[k])
    BY <2>1, <2>6 DEF s
  <2>9. \A j \in Conns \ {k} : ~InWire(q, toAgent'[j])
    BY <2>1, <2>3 DEF InWire
  <2>10. q = Head(s) => Sent(q) /\ ~Sent(q)'
    BY <2>8, <2>9 DEF Sent, InWire
  <2>11. q # Head(s) => (Sent(q)' <=> Sent(q))
    BY <1>s, <2>1, <2>7
  <2> QED BY <2>10, <2>11 DEF s
<1>1. ASSUME NEW r \in Requests, SendCommand(r)
      PROVE  (q = r /\ ~Sent(q)) \/ (Sent(q)' <=> Sent(q))
  <2>1. /\ http[r] = "send" /\ r \in Commands
        /\ \/ UNCHANGED toAgent
           \/ toAgent' = [toAgent EXCEPT ![got[r]] = Append(@, r)]
    BY <1>t, <1>1 DEF SendCommand, Send, Commands
  <2>2. got[r] \in Conns /\ ~Sent(r)
    BY <1>t, <2>1 DEF Flow, Online, TypeOK
  <2> QED BY <1>0, <1>a, <2>1, <2>2
<1>2. ASSUME NEW r \in Requests, UserStep(r) \/ JobStep(r), ~SendCommand(r)
      PROVE  UNCHANGED toAgent
  BY <1>2, JobsSpare DEF UserStep, Begin, Find, Route, RemoveRow, wires
<1>3. ASSUME ReceiveFirst
      PROVE  Sent(q)' <=> Sent(q)
  <2>1. /\ conn \in Conns /\ toAgent[conn] # <<>>
        /\ toAgent' = [toAgent EXCEPT ![conn] = Tail(@)]
    BY <1>t, <1>3 DEF ReceiveFirst, TypeOK
  <2>2. Head(toAgent[conn]) = Ack
    BY <1>t, <1>3, <2>1 DEF ReceiveFirst, Downlink, Lines, Online, TypeOK
  <2> QED BY <1>t, <1>b, <2>1, <2>2
<1>4. ASSUME ReceiveCommand
      PROVE  /\ q # Head(toAgent[conn]) => (Sent(q)' <=> Sent(q))
             /\ q = Head(toAgent[conn]) => Sent(q) /\ ~Sent(q)'
  <2>1. /\ conn \in Conns /\ toAgent[conn] # <<>>
        /\ toAgent' = [toAgent EXCEPT ![conn] = Tail(@)]
    BY <1>t, <1>4 DEF ReceiveCommand, TypeOK
  <2> QED BY <1>b, <2>1
<1>5. ASSUME Connect \/ ListRunning \/ Announce \/ Beat
      PROVE  UNCHANGED toAgent
  BY <1>5 DEF Connect, ListRunning, Announce, Beat, wires
<1>6. ASSUME Disconnect
      PROVE  Sent(q)' <=> Sent(q)
  BY <1>t, <1>e, <1>6 DEF Disconnect, TypeOK
<1>7. ASSUME NEW k \in Conns, Refuse(k)
      PROVE  FALSE
  BY <1>7, OrderlyFaults DEF Refuse
<1>8. ASSUME NEW k \in Conns, Registered(k)
      PROVE  Sent(q)' <=> Sent(q)
  <2>1. \/ UNCHANGED toAgent
        \/ toAgent' = [toAgent EXCEPT ![k] = Append(@, Ack)]
    BY <1>8 DEF Registered, Send
  <2>2. Ack \in Commands
    BY DEF Commands
  <2> QED BY <1>t, <1>0, <1>a, <2>1, <2>2
<1>9. ASSUME NEW k \in Conns,
             \/ RegisterStream(k) \/ ReceiveMessage(k) \/ MarkLost(k)
             \/ EndStream(k) \/ MarkOffline(k) \/ UnregisterStream(k)
      PROVE  UNCHANGED toAgent
  BY <1>9 DEF RegisterStream, ReceiveMessage, MarkLost, EndStream, MarkOffline,
              UnregisterStream, wires
<1>10. ASSUME NEW k \in Conns, Break(k)
       PROVE  Sent(q)' <=> Sent(q)
  BY <1>t, <1>e, <1>10, OrderlyFaults DEF Break
<1>11. ASSUME (\E e \in Envs : ContainerDies(e)) \/ UNCHANGED vars
       PROVE  UNCHANGED toAgent
  BY <1>11 DEF ContainerDies, vars, wires
<1>12. ASSUME AgentRestarts \/ ControlPlaneRestarts
       PROVE  FALSE
  BY <1>12, OrderlyFaults DEF AgentRestarts, ControlPlaneRestarts
<1>13. ReceiveCommand /\ q = Head(toAgent[conn]) => Sent(q) /\ ~Sent(q)'
  BY <1>4
<1>14. \/ Sent(q)' <=> Sent(q)
       \/ SendCommand(q) /\ ~Sent(q)
       \/ ReceiveCommand /\ q = Head(toAgent[conn])
  BY <1>0, <1>1, <1>2, <1>3, <1>4, <1>5, <1>6, <1>7, <1>8, <1>9, <1>10, <1>11,
     <1>12 DEF Next, UserStep, AgentStep, Accept, Serve
<1> QED BY <1>13, <1>14

(* How a report gets on the wire to the control plane and off it. *)
LEMMA ToldStep ==
  ASSUME TypeInv, OrderlyUse, UseInv, [Next]_vars, NEW x \in Envs
  PROVE  /\ Told(x)' /\ ~Told(x) => \E r \in Requests : SendReport(r) /\ r.env = x
         /\ Told(x) /\ ~Told(x)' => \E k \in Conns :
               ReceiveMessage(k) /\ About(x, Head(toServer[k]))
         /\ \A r \in Requests : SendReport(r) /\ r.env = x => Told(x)'
         /\ \A k \in Conns : ReceiveMessage(k) /\ About(x, Head(toServer[k]))
               => Told(x) /\ ~Told(x)'
<1> USE RequestsAssumption, BoundsAssumption
<1>t. /\ TypeOK /\ Lines /\ Downlink /\ Uplink /\ Flow
      /\ toServer \in [Conns -> Seq(Messages)]
      /\ \A k \in Conns : toServer[k] \in Seq(Messages)
  BY DEF TypeInv, Wired, UseInv
<1> DEFINE Has(s) == \E i \in DOMAIN s : About(x, s[i])
<1>d. /\ Told(x) <=> \E k \in Conns : Has(toServer[k])
      /\ Told(x)' <=> \E k \in Conns : Has(toServer'[k])
  BY DEF Told, About
<1>0. ASSUME UNCHANGED toServer
      PROVE  Told(x)' <=> Told(x)
  BY <1>0 DEF Told, About
<1>s. ASSUME NEW k \in Conns, Has(toServer'[k]) <=> Has(toServer[k]),
             \A j \in Conns \ {k} : toServer'[j] = toServer[j]
      PROVE  Told(x)' <=> Told(x)
  <2>1. \A j \in Conns : Has(toServer'[j]) <=> Has(toServer[j])
    BY <1>s
  <2> HIDE DEF Has
  <2> QED BY <1>d, <2>1
<1>e. ASSUME NEW k \in Conns, toServer' = [toServer EXCEPT ![k] = <<>>],
             link[k] = "down"
      PROVE  Told(x)' <=> Told(x)
  <2>1. ~Has(toServer[k])
    BY <1>t, <1>e DEF Uplink, Online
  <2>2. /\ \A j \in Conns \ {k} : toServer'[j] = toServer[j]
        /\ toServer'[k] = <<>>
    BY <1>t, <1>e
  <2> QED BY <1>s, <2>1, <2>2
<1>a. ASSUME NEW k \in Conns, NEW m \in Messages,
             toServer' = [toServer EXCEPT ![k] = Append(@, m)]
      PROVE  /\ ~About(x, m) => (Told(x)' <=> Told(x))
             /\ About(x, m) => Told(x)'
  <2> DEFINE s == toServer[k]
  <2>1. /\ \A j \in Conns \ {k} : toServer'[j] = toServer[j]
        /\ toServer'[k] = Append(s, m) /\ s \in Seq(Messages)
    BY <1>t, <1>a
  <2> HIDE DEF s
  <2>2. /\ ~About(x, m) => (Has(Append(s, m)) <=> Has(s))
        /\ About(x, m) => Has(Append(s, m))
    BY <2>1, AppendIndex
  <2> HIDE DEF Has
  <2>3. /\ ~About(x, m) => (Has(toServer'[k]) <=> Has(toServer[k]))
        /\ About(x, m) => Has(toServer'[k])
    BY <2>1, <2>2 DEF s
  <2> QED BY <1>d, <1>s, <2>1, <2>3
<1>b. ASSUME NEW k \in Conns, toServer[k] # <<>>,
             toServer' = [toServer EXCEPT ![k] = Tail(@)]
      PROVE  /\ ~About(x, Head(toServer[k])) => (Told(x)' <=> Told(x))
             /\ About(x, Head(toServer[k])) => Told(x) /\ ~Told(x)'
  <2> DEFINE s == toServer[k]
  <2>1. /\ \A j \in Conns \ {k} : toServer'[j] = toServer[j]
        /\ toServer'[k] = Tail(s) /\ s \in Seq(Messages) /\ s # <<>>
    BY <1>t, <1>b
  <2>2. /\ \A i, j \in DOMAIN s : About(x, s[i]) /\ About(x, s[j]) => i = j
        /\ Has(s) => \A j \in Conns \ {k} : ~Has(toServer[j])
    BY <1>t DEF Uplink
  <2> HIDE DEF s
  <2>3. 1 \in DOMAIN s /\ Head(s) = s[1]
    BY <2>1, TailIndex
  <2>4. ASSUME ~About(x, Head(s))
        PROVE  Has(Tail(s)) <=> Has(s)
    <3>1. ASSUME NEW i \in DOMAIN s, About(x, s[i])
          PROVE  Has(Tail(s))
      <4>1. i # 1
        BY <2>3, <2>4, <3>1
      <4>2. i - 1 \in DOMAIN Tail(s) /\ Tail(s)[i - 1] = s[i]
        BY <2>1, <4>1, TailIndex
      <4> QED BY <3>1, <4>2
    <3>2. ASSUME NEW i \in DOMAIN Tail(s), About(x, Tail(s)[i])
          PROVE  Has(s)
      BY <2>1, <3>2, TailIndex
    <3> QED BY <3>1, <3>2
  <2>5. ASSUME About(x, Head(s))
        PROVE  Has(s) /\ ~Has(Tail(s))
    <3>1. Has(s)
      BY <2>3, <2>5
    <3>2. ASSUME NEW i \in DOMAIN Tail(s), About(x, Tail(s)[i])
          PROVE  FALSE
      <4>1. i \in Nat \ {0} /\ i + 1 \in DOMAIN s /\ Tail(s)[i] = s[i + 1]
        BY <2>1, TailIndex
      <4>2. i + 1 = 1
        BY <2>2, <2>3, <2>5, <3>2, <4>1
      <4> QED BY <4>1, <4>2
    <3> QED BY <3>1, <3>2
  <2> HIDE DEF Has
  <2>6. ~About(x, Head(s)) => (Has(toServer'[k]) <=> Has(toServer[k]))
    BY <2>1, <2>4 DEF s
  <2>7. About(x, Head(s)) => /\ Has(toServer[k]) /\ ~Has(toServer'[k])
                             /\ \A j \in Conns \ {k} : ~Has(toServer'[j])
    BY <2>1, <2>2, <2>5 DEF s
  <2>8. About(x, Head(s)) => Told(x) /\ ~Told(x)'
    BY <1>d, <2>7
  <2>9. ~About(x, Head(s)) => (Told(x)' <=> Told(x))
    BY <1>s, <2>1, <2>6
  <2> QED BY <2>8, <2>9 DEF s
<1> HIDE DEF Has
<1>1. ASSUME NEW r \in Requests, SendReport(r)
      PROVE  /\ r.env # x => (Told(x)' <=> Told(x))
             /\ r.env = x => Told(x)'
  <2>1. Online /\ via[r] = conn /\ conn \in Conns
    BY <1>t, <1>1 DEF SendReport, Flow, Doing, Online, TypeOK
  <2>2. result[r] \in DOMAIN Status
    BY <1>1 DEF SendReport, TypeInv, Wired, TypeOK
  <2>3. Report(r) \in Messages
    BY <2>2, MessageTypes
  <2>4. About(x, Report(r)) <=> r.env = x
    BY <2>2 DEF About, Report
  <2>5. toServer' = [toServer EXCEPT ![conn] = Append(@, Report(r))]
    BY <1>1, <2>1 DEF SendReport, Send, Online
  <2> QED BY <1>a, <2>1, <2>3, <2>4, <2>5
<1>2. ASSUME NEW r \in Requests, UserStep(r) \/ Execute(r)
      PROVE  UNCHANGED toServer
  BY <1>2, UsersSpare DEF Execute, Handlers!Execute, wires
<1>3. ASSUME Connect
      PROVE  Told(x)' <=> Told(x)
  <2>1. PICK k \in Conns : /\ conn = NoConn
                           /\ toServer' = [toServer EXCEPT ![k] = <<Register>>]
    BY <1>3 DEF Connect
  <2>2. \A j \in Conns : ~Has(toServer[j])
    BY <1>t, <2>1 DEF Uplink, Online, Has
  <2>3. /\ toServer'[k] = <<Register>>
        /\ \A j \in Conns \ {k} : toServer'[j] = toServer[j]
    BY <1>t, <2>1
  <2>4. ~Has(toServer'[k])
    BY <2>3, NotAbout DEF Has
  <2> QED BY <1>s, <2>2, <2>3, <2>4
<1>4. ASSUME Announce \/ Beat
      PROVE  Told(x)' <=> Told(x)
  <2>1. PICK m \in Messages : /\ ~About(x, m)
                              /\ toServer' = Send(toServer, conn, m)
    <3>1. CASE Announce
      <4>1. Snapshot(listed) \in Messages
        BY <1>t, MessageTypes DEF TypeOK
      <4> QED BY <3>1, <4>1, NotAbout DEF Announce
    <3>2. CASE Beat
      BY <3>2, MessageTypes, NotAbout DEF Beat
    <3> QED BY <1>4, <3>1, <3>2
  <2>2. conn \in Conns
    BY <1>t, <1>4 DEF Announce, Beat, TypeOK
  <2>3. UNCHANGED toServer
        \/ toServer' = [toServer EXCEPT ![conn] = Append(@, m)]
    BY <2>1 DEF Send
  <2> QED BY <1>0, <1>a, <2>1, <2>2, <2>3
<1>5. ASSUME ReceiveFirst \/ ListRunning \/ ReceiveCommand \/ Disconnect
      PROVE  UNCHANGED toServer
  BY <1>5 DEF ReceiveFirst, ListRunning, ReceiveCommand, Disconnect, wires
<1>6. ASSUME NEW k \in Conns, Refuse(k)
      PROVE  FALSE
  BY <1>6, OrderlyFaults DEF Refuse
<1>7. ASSUME NEW k \in Conns, Registered(k)
      PROVE  Told(x)' <=> Told(x)
  <2>1. /\ toServer[k] # <<>> /\ Head(toServer[k]) = Register
        /\ toServer' = [toServer EXCEPT ![k] = Tail(@)]
    BY <1>7 DEF Registered
  <2> QED BY <1>b, <2>1, NotAbout
<1>8. ASSUME NEW k \in Conns, ReceiveMessage(k)
      PROVE  /\ ~About(x, Head(toServer[k])) => (Told(x)' <=> Told(x))
             /\ About(x, Head(toServer[k])) => Told(x) /\ ~Told(x)'
  <2>1. /\ toServer[k] # <<>> /\ toServer' = [toServer EXCEPT ![k] = Tail(@)]
    BY <1>8 DEF ReceiveMessage
  <2> QED BY <1>b, <2>1
<1>9. ASSUME NEW k \in Conns, RegisterStream(k) \/ MarkLost(k) \/ MarkOffline(k)
      PROVE  UNCHANGED toServer
  BY <1>9 DEF RegisterStream, MarkLost, MarkOffline, wires
<1>10. ASSUME NEW k \in Conns, EndStream(k) \/ UnregisterStream(k)
       PROVE  Told(x)' <=> Told(x)
  BY <1>t, <1>e, <1>10 DEF EndStream, UnregisterStream, Lines
<1>11. ASSUME NEW k \in Conns, Break(k)
       PROVE  Told(x)' <=> Told(x)
  <2>1. \A e \in Envs : Settled(e)
    BY <1>11, OrderlyFaults DEF Break
  <2>2. PICK n \in 0..Len(toServer[k]) :
            toServer' = [toServer EXCEPT ![k] = SubSeq(@, 1, n)]
    BY <1>11 DEF Break
  <2>3. ~Told(x)
    BY <1>t, <2>1, SettledMeans
  <2>4. \A j \in Conns : \A i \in DOMAIN toServer'[j] :
            i \in DOMAIN toServer[j] /\ toServer'[j][i] = toServer[j][i]
    BY <1>t, <2>2, PrefixIndex
  <2>5. \A j \in Conns : Has(toServer'[j]) => Has(toServer[j])
    BY <2>4 DEF Has
  <2> QED BY <1>d, <2>3, <2>5
<1>12. ASSUME (\E e \in Envs : ContainerDies(e)) \/ UNCHANGED vars
       PROVE  UNCHANGED toServer
  BY <1>12 DEF ContainerDies, vars, wires
<1>13. ASSUME AgentRestarts \/ ControlPlaneRestarts
       PROVE  FALSE
  BY <1>13, OrderlyFaults DEF AgentRestarts, ControlPlaneRestarts
<1>14. \/ Told(x)' <=> Told(x)
       \/ Told(x)' /\ \E r \in Requests : SendReport(r) /\ r.env = x
       \/ \E k \in Conns : ReceiveMessage(k) /\ About(x, Head(toServer[k]))
  BY <1>0, <1>1, <1>2, <1>3, <1>4, <1>5, <1>6, <1>7, <1>8, <1>9, <1>10, <1>11,
     <1>12, <1>13 DEF Next, JobStep, AgentStep, Accept, Serve
<1> QED BY <1>1, <1>8, <1>14

(* What stays on the wires when no request and no handler moves. *)
LEMMA WiresKept ==
  ASSUME TypeInv, OrderlyUse, UseInv, [Next]_vars
  PROVE  /\ UNCHANGED http => \A q \in Requests : Sent(q)' => Sent(q)
         /\ UNCHANGED job => \A q \in Requests : Sent(q) => Sent(q)'
         /\ UNCHANGED job => \A e \in Envs : Told(e)' => Told(e)
<1>t. TypeOK /\ Flow
  BY DEF TypeInv, UseInv
<1>1. ASSUME NEW q \in Requests, SendCommand(q)
      PROVE  http' # http
  BY <1>t, <1>1 DEF SendCommand, Undispatched, Http, TypeOK
<1>2. ASSUME NEW q \in Requests, Sent(q), ReceiveCommand, q = Head(toAgent[conn])
      PROVE  job' # job
  BY <1>t, <1>2 DEF ReceiveCommand, Flow, TypeOK
<1>3. ASSUME NEW r \in Requests, SendReport(r)
      PROVE  job' # job
  BY <1>t, <1>3 DEF SendReport, TypeOK
<1> QED BY <1>1, <1>2, <1>3, SentStep, ToldStep

LEMMA FlowStep ==
  ASSUME TypeInv, OrderlyUse, UseInv, [Next]_vars
  PROVE  Flow'
<1> USE RequestsAssumption, BoundsAssumption
<1>t. /\ TypeOK /\ Lines /\ Downlink /\ Uplink /\ Flow
      /\ NoConn \notin Conns
  BY DEF TypeInv, UseInv, NoConn, Conns
<1>f. ASSUME \A r \in Requests : http'[r] # "done" => job'[r] = "none" /\ ~Sent(r)',
             \A r \in Requests : Sent(r)' => job'[r] = "none",
             \A r \in Requests : Doing(r)' => Online' /\ via'[r] = conn'
                                              /\ phase' = "up",
             \A r \in Requests : http'[r] = "send"
                => Online' /\ got'[r] = conn' /\ srv'[conn'] = "serving",
             \A r, q \in Requests : r.env = q.env /\ Moving(r)' /\ Moving(q)'
                => r = q,
             \A r \in Requests : Told(r.env)' => ~Moving(r)'
      PROVE  Flow'
  BY <1>f DEF Flow
<1>m. \A q \in Requests : Moving(q)' <=> http'[q] \in InHand \/ Sent(q)' \/ Doing(q)'
  BY DEF Moving
<1>j. \A q \in Requests : Doing(q)' <=> job'[q] \in {"running", "reporting"}
  BY DEF Doing
<1>k. ASSUME UNCHANGED <<http, job, via, got>>,
             (\E r \in Requests : Doing(r))
                => Online' /\ conn' = conn /\ phase' = "up",
             (\E r \in Requests : http[r] = "send")
                => Online' /\ conn' = conn /\ srv'[conn] = "serving"
      PROVE  Flow'
  <2>1. \A q \in Requests : Sent(q)' => Sent(q)
    BY <1>k, WiresKept
  <2>2. \A e \in Envs : Told(e)' => Told(e)
    BY <1>k, WiresKept
  <2>3. \A q \in Requests : Doing(q)' <=> Doing(q)
    BY <1>k DEF Doing
  <2>4. \A q \in Requests : Moving(q)' => Moving(q)
    BY <1>k, <1>m, <2>1, <2>3 DEF Moving
  <2> QED BY <1>t, <1>k, <1>f, <2>1, <2>2, <2>3, <2>4 DEF Flow
<1>h. ASSUME NEW r \in Requests, UserStep(r), ~SendCommand(r),
             http'[r] # "done" \/ http[r] = "remove",
             http'[r] = "send"
                => Online' /\ got'[r] = conn' /\ srv'[conn'] = "serving",
             http'[r] \in InHand => http[r] \in InHand \/ Settled(r.env),
             http[r] # "done"
      PROVE  Flow'
  <2>1. UNCHANGED <<toAgent, toServer, job, via, conn, phase, link, srv>>
    BY <1>h DEF UserStep, Begin, Find, Route, RemoveRow, server, wires, agent
  <2>2. /\ \A q \in Requests : Sent(q)' <=> Sent(q)
        /\ \A e \in Envs : Told(e)' <=> Told(e)
        /\ \A q \in Requests : Doing(q)' <=> Doing(q)
        /\ Online' <=> Online
    BY <2>1 DEF Sent, InWire, Told, About, Doing, Online
  <2>3. \A q \in Requests \ {r} : http'[q] = http[q] /\ got'[q] = got[q]
    BY <1>t, <1>h DEF UserStep, Begin, Find, Route, RemoveRow, Undispatched, Http,
                      TypeOK
  <2>4. \A q \in Requests \ {r} : Moving(q)' <=> Moving(q)
    BY <1>m, <2>2, <2>3 DEF Moving
  <2>5. Moving(r)' => Moving(r) \/ Settled(r.env)
    BY <1>h, <1>m, <2>2 DEF Moving
  <2>6. Settled(r.env) => /\ ~Told(r.env)
                          /\ \A q \in Requests : q.env = r.env => ~Moving(q)
    BY <1>t, SettledMeans
  <2>7. job[r] = "none" /\ ~Sent(r)
    BY <1>t, <1>h DEF Flow
  <2>8. \A p, q \in Requests : p.env = q.env /\ Moving(p)' /\ Moving(q)' => p = q
    BY <1>t, <2>4, <2>5, <2>6 DEF Flow
  <2>9. \A q \in Requests : Told(q.env)' => ~Moving(q)'
    BY <1>t, <2>2, <2>4, <2>5, <2>6 DEF Flow
  <2>10. \A q \in Requests : http'[q] = "send"
                => Online' /\ got'[q] = conn' /\ srv'[conn'] = "serving"
    BY <1>t, <1>h, <2>1, <2>2, <2>3 DEF Flow
  <2>11. \A q \in Requests : Doing(q)' => Online' /\ via'[q] = conn' /\ phase' = "up"
    BY <1>t, <2>1, <2>2 DEF Flow
  <2>12. \A q \in Requests : Sent(q)' => job'[q] = "none"
    BY <1>t, <2>1, <2>2 DEF Flow
  <2>13. \A q \in Requests : http'[q] # "done" => job'[q] = "none" /\ ~Sent(q)'
    BY <1>t, <2>1, <2>2, <2>3, <2>7 DEF Flow
  <2> QED BY <1>f, <2>8, <2>9, <2>10, <2>11, <2>12, <2>13
<1>1. ASSUME NEW r \in Requests, Begin(r)
      PROVE  Flow'
  <2>1. http[r] = "idle" /\ http'[r] \in {"find", "failed"} /\ Settled(r.env)
    BY <1>t, <1>1, OrderlyFaults DEF Begin, Http, TypeOK
  <2>2. ~SendCommand(r) /\ UserStep(r)
    BY <1>1, <2>1 DEF SendCommand, UserStep
  <2> QED BY <1>h, <2>1, <2>2
<1>2. ASSUME NEW r \in Requests, Find(r)
      PROVE  Flow'
  <2>1. http[r] = "find" /\ http'[r] \in {"route", "remove", "failed"}
    BY <1>t, <1>2 DEF Find, Undispatched, Http, TypeOK
  <2>2. ~SendCommand(r) /\ UserStep(r)
    BY <1>2, <2>1 DEF SendCommand, UserStep
  <2> QED BY <1>h, <2>1, <2>2 DEF InHand
<1>3. ASSUME NEW r \in Requests, Route(r)
      PROVE  Flow'
  <2>1. http[r] = "route" /\ http'[r] \in {"send", "remove", "failed"}
    BY <1>t, <1>3 DEF Route, Undispatched, Http, TypeOK
  <2>2. ~SendCommand(r) /\ UserStep(r)
    BY <1>3, <2>1 DEF SendCommand, UserStep
  <2>3. ASSUME http'[r] = "send"
        PROVE  Online' /\ got'[r] = conn' /\ srv'[conn'] = "serving"
    <3>1. /\ registry # NoConn /\ got'[r] = registry /\ link[registry] = "up"
          /\ srv[registry] # "accepted"
          /\ UNCHANGED <<conn, link, srv>>
      BY <1>t, <1>3, <2>3, OrderlyFaults
         DEF Route, Undispatched, Http, server, wires, agent, TypeOK
    <3>2. registry \in Conns
      BY <1>t, <3>1 DEF TypeOK
    <3>3. conn = registry /\ srv[registry] = "serving"
      BY <1>t, <3>1, <3>2 DEF Lines, Live, TypeOK
    <3> QED BY <1>t, <3>1, <3>2, <3>3 DEF Online
  <2> QED BY <1>h, <2>1, <2>2, <2>3 DEF InHand
<1>4. ASSUME NEW r \in Requests, RemoveRow(r)
      PROVE  Flow'
  <2>1. http[r] = "remove" /\ http'[r] \in {"done", "failed"}
    BY <1>t, <1>4 DEF RemoveRow, Http, TypeOK
  <2>2. ~SendCommand(r) /\ UserStep(r)
    BY <1>4, <2>1 DEF SendCommand, UserStep
  <2> QED BY <1>h, <2>1, <2>2 DEF InHand
<1>5. ASSUME NEW r \in Requests, SendCommand(r)
      PROVE  Flow'
  <2>1. /\ Online /\ got[r] = conn /\ srv[conn] = "serving" /\ conn \in Conns
        /\ job[r] = "none" /\ http[r] = "send"
    BY <1>t, <1>5 DEF SendCommand, Flow, Online, TypeOK
  <2>2. /\ http' = [http EXCEPT ![r] = "done"]
        /\ UNCHANGED <<toServer, job, via, conn, phase, link, srv, got>>
    BY <1>t, <1>5, <2>1 DEF SendCommand, Online, Http, server, agent
  <2>3. /\ http'[r] = "done"
        /\ \A q \in Requests \ {r} : http'[q] = http[q]
    BY <1>t, <2>2 DEF TypeOK
  <2>4. /\ \A e \in Envs : Told(e)' <=> Told(e)
        /\ \A q \in Requests : Doing(q)' <=> Doing(q)
        /\ Online' <=> Online
    BY <2>2 DEF Told, About, Doing, Online
  <2>5. \A q \in Requests \ {r} : Sent(q)' => Sent(q)
    <3>1. \A q \in Requests \ {r} : ~SendCommand(q)
      BY <1>t, <2>3 DEF SendCommand, Undispatched, Http, TypeOK
    <3> QED BY <3>1, SentStep
  <2>6. \A q \in Requests : Moving(q)' => Moving(q)
    BY <1>m, <2>1, <2>3, <2>4, <2>5 DEF Moving, InHand
  <2>7. \A q \in Requests : http'[q] # "done" => job'[q] = "none" /\ ~Sent(q)'
    BY <1>t, <2>2, <2>3, <2>5 DEF Flow
  <2>8. \A q \in Requests : Sent(q)' => job'[q] = "none"
    BY <1>t, <2>1, <2>2, <2>5 DEF Flow
  <2>9. \A q \in Requests : Doing(q)' => Online' /\ via'[q] = conn' /\ phase' = "up"
    BY <1>t, <2>2, <2>4 DEF Flow
  <2>10. \A q \in Requests : http'[q] = "send"
                => Online' /\ got'[q] = conn' /\ srv'[conn'] = "serving"
    BY <1>t, <2>2, <2>3, <2>4 DEF Flow
  <2>11. \A p, q \in Requests : p.env = q.env /\ Moving(p)' /\ Moving(q)' => p = q
    BY <1>t, <2>6 DEF Flow
  <2>12. \A q \in Requests : Told(q.env)' => ~Moving(q)'
    BY <1>t, <2>4, <2>6 DEF Flow
  <2> QED BY <1>f, <2>7, <2>8, <2>9, <2>10, <2>11, <2>12
<1>6. ASSUME NEW r \in Requests, Execute(r)
      PROVE  Flow'
  <2>1. /\ job[r] = "running" /\ job' = [job EXCEPT ![r] = "reporting"]
        /\ UNCHANGED <<toAgent, toServer, http, via, conn, phase, link, srv, got>>
    BY <1>6 DEF Execute, Handlers!Execute, server, wires, users
  <2>2. /\ job'[r] = "reporting" /\ \A q \in Requests \ {r} : job'[q] = job[q]
    BY <1>t, <2>1 DEF TypeOK
  <2>3. /\ \A q \in Requests : Sent(q)' <=> Sent(q)
        /\ \A e \in Envs : Told(e)' <=> Told(e)
        /\ Online' <=> Online
    BY <2>1 DEF Sent, InWire, Told, About, Online
  <2>4. \A q \in Requests : Doing(q)' <=> Doing(q)
    BY <1>j, <2>1, <2>2 DEF Doing
  <2>5. \A q \in Requests : Moving(q)' <=> Moving(q)
    BY <1>m, <2>1, <2>3, <2>4 DEF Moving
  <2>6. http[r] = "done" /\ ~Sent(r)
    BY <1>t, <2>1 DEF Flow
  <2>7. /\ \A q \in Requests : http'[q] # "done" => job'[q] = "none" /\ ~Sent(q)'
        /\ \A q \in Requests : Sent(q)' => job'[q] = "none"
    BY <1>t, <2>1, <2>2, <2>3, <2>6 DEF Flow
  <2>8. /\ \A q \in Requests : Doing(q)' => Online' /\ via'[q] = conn' /\ phase' = "up"
        /\ \A q \in Requests : http'[q] = "send"
                => Online' /\ got'[q] = conn' /\ srv'[conn'] = "serving"
    BY <1>t, <2>1, <2>3, <2>4 DEF Flow
  <2>9. /\ \A p, q \in Requests : p.env = q.env /\ Moving(p)' /\ Moving(q)' => p = q
        /\ \A q \in Requests : Told(q.env)' => ~Moving(q)'
    BY <1>t, <2>3, <2>5 DEF Flow
  <2> QED BY <1>f, <2>7, <2>8, <2>9
<1>7. ASSUME NEW r \in Requests, SendReport(r)
      PROVE  Flow'
  <2>1. /\ job[r] = "reporting" /\ job' = [job EXCEPT ![r] = "done"]
        /\ UNCHANGED <<toAgent, http, via, conn, phase, link, srv, got>>
    BY <1>7 DEF SendReport, server, users
  <2>2. /\ job'[r] = "done" /\ \A q \in Requests \ {r} : job'[q] = job[q]
    BY <1>t, <2>1 DEF TypeOK
  <2>3. /\ \A q \in Requests : Sent(q)' <=> Sent(q)
        /\ Online' <=> Online
    BY <2>1 DEF Sent, InWire, Online
  <2>4. http[r] = "done" /\ ~Sent(r) /\ Moving(r)
    BY <1>t, <2>1 DEF Flow, Moving, Doing
  <2>5. /\ ~Doing(r)' /\ \A q \in Requests \ {r} : Doing(q)' <=> Doing(q)
    BY <1>j, <2>2 DEF Doing
  <2>6. /\ ~Moving(r)' /\ \A q \in Requests \ {r} : Moving(q)' <=> Moving(q)
    BY <1>m, <2>1, <2>3, <2>4, <2>5 DEF Moving, InHand
  <2>7. \A e \in Envs : Told(e)' => Told(e) \/ e = r.env
    <3>1. \A q \in Requests : SendReport(q) => q = r
      BY <1>t, <2>2 DEF SendReport, TypeOK
    <3> QED BY <3>1, ToldStep
  <2>8. \A q \in Requests \ {r} : q.env = r.env => ~Moving(q)
    BY <1>t, <2>4 DEF Flow
  <2>9. /\ \A q \in Requests : http'[q] # "done" => job'[q] = "none" /\ ~Sent(q)'
        /\ \A q \in Requests : Sent(q)' => job'[q] = "none"
    BY <1>t, <2>1, <2>2, <2>3, <2>4 DEF Flow
  <2>10. /\ \A q \in Requests : Doing(q)' => Online' /\ via'[q] = conn' /\ phase' = "up"
         /\ \A q \in Requests : http'[q] = "send"
                => Online' /\ got'[q] = conn' /\ srv'[conn'] = "serving"
    BY <1>t, <2>1, <2>3, <2>5 DEF Flow
  <2>11. \A p, q \in Requests : p.env = q.env /\ Moving(p)' /\ Moving(q)' => p = q
    BY <1>t, <2>6 DEF Flow
  <2>12. \A q \in Requests : Told(q.env)' => ~Moving(q)'
    BY <1>t, <2>6, <2>7, <2>8 DEF Flow
  <2> QED BY <1>f, <2>9, <2>10, <2>11, <2>12
<1>8. CASE ReceiveCommand
  <2>1. /\ conn \in Conns /\ toAgent[conn] # <<>> /\ phase = "up"
        /\ UNCHANGED <<toServer, http, conn, phase, link, srv, got>>
    BY <1>t, <1>8 DEF ReceiveCommand, TypeOK, server, users
  <2>2. Online
    BY <1>t, <2>1 DEF Downlink, Online
  <2>3. PICK r \in Requests : r = Head(toAgent[conn])
    <3> DEFINE r == Head(toAgent[conn])
    <3>1. toAgent[conn] \in Seq(Commands)
      BY <2>1 DEF TypeInv, Wired
    <3>2. r \in Commands /\ 1 \in DOMAIN toAgent[conn] /\ r = toAgent[conn][1]
      BY <2>1, <3>1
    <3>3. r # Ack
      BY <1>t, <2>1, <3>2 DEF Downlink
    <3> QED BY <3>2, <3>3 DEF Commands
  <2>4. /\ job' = [job EXCEPT ![r] = "running"]
        /\ via' = [via EXCEPT ![r] = conn]
    BY <1>8, <2>3 DEF ReceiveCommand
  <2>5. Sent(r) /\ ~Sent(r)'
    BY <1>8, <2>3, SentStep
  <2>6. \A q \in Requests : Sent(q)' => Sent(q)
    BY <2>1, WiresKept
  <2>7. /\ job'[r] = "running" /\ via'[r] = conn
        /\ \A q \in Requests \ {r} : job'[q] = job[q] /\ via'[q] = via[q]
    BY <1>t, <2>3, <2>4 DEF TypeOK
  <2>8. /\ \A e \in Envs : Told(e)' <=> Told(e)
        /\ Online' <=> Online
        /\ \A q \in Requests \ {r} : Doing(q)' <=> Doing(q)
    BY <1>j, <2>1, <2>7 DEF Told, About, Online, Doing
  <2>9. \A q \in Requests : Moving(q)' => Moving(q)
    BY <1>m, <2>1, <2>5, <2>6, <2>8 DEF Moving
  <2>10. http[r] = "done"
    BY <1>t, <2>3, <2>5 DEF Flow
  <2>11. /\ \A q \in Requests : http'[q] # "done" => job'[q] = "none" /\ ~Sent(q)'
         /\ \A q \in Requests : Sent(q)' => job'[q] = "none"
    BY <1>t, <2>1, <2>5, <2>6, <2>7, <2>10 DEF Flow
  <2>12. \A q \in Requests : Doing(q)' => Online' /\ via'[q] = conn' /\ phase' = "up"
    BY <1>t, <2>1, <2>2, <2>7, <2>8 DEF Flow
  <2>13. \A q \in Requests : http'[q] = "send"
                => Online' /\ got'[q] = conn' /\ srv'[conn'] = "serving"
    BY <1>t, <2>1, <2>2, <2>8 DEF Flow
  <2>14. /\ \A p, q \in Requests : p.env = q.env /\ Moving(p)' /\ Moving(q)' => p = q
         /\ \A q \in Requests : Told(q.env)' => ~Moving(q)'
    BY <1>t, <2>8, <2>9 DEF Flow
  <2> QED BY <1>f, <2>11, <2>12, <2>13, <2>14
<1>9. ASSUME UNCHANGED <<http, job, via, got>>, ~Online
      PROVE  Flow'
  BY <1>t, <1>9, <1>k DEF Flow
<1>10. ASSUME UNCHANGED <<http, job, via, got, conn, link, srv>>,
              phase # "up" \/ phase' = "up"
       PROVE  Flow'
  BY <1>t, <1>10, <1>k DEF Flow, Online
<1>11. CASE Connect \/ Disconnect
  BY <1>9, <1>11 DEF Connect, Disconnect, Online, users
<1>12. CASE ReceiveFirst \/ ListRunning \/ Announce \/ Beat
  BY <1>10, <1>12 DEF ReceiveFirst, ListRunning, Announce, Beat, server, wires,
                      agent, users
<1>13. ASSUME NEW k \in Conns,
              UNCHANGED <<http, job, via, got, conn, phase, link>>,
              \A j \in Conns \ {k} : srv'[j] = srv[j],
              srv'[k] = "serving" \/ srv[k] # "serving" \/ link[k] = "down"
       PROVE  Flow'
  <2>1. Online' <=> Online
    BY <1>13 DEF Online
  <2>2. conn = k => srv'[k] = "serving" \/ srv[k] # "serving" \/ ~Online
    BY <1>13 DEF Online
  <2>3. Online => conn \in Conns
    BY <1>t DEF Online, TypeOK
  <2> QED BY <1>t, <1>13, <1>k, <2>1, <2>2, <2>3 DEF Flow
<1>14. ASSUME NEW k \in Conns, Accept(k) \/ Serve(k)
       PROVE  Flow'
  <2>1. /\ UNCHANGED <<http, job, via, got, conn, phase>>
    BY <1>14, ServerSpares DEF agent, users
  <2>2. UNCHANGED link /\ \A j \in Conns \ {k} : srv'[j] = srv[j]
    BY <1>t, <1>14, OrderlyFaults
       DEF Accept, RegisterStream, Refuse, Serve, Registered, ReceiveMessage,
           MarkLost, EndStream, MarkOffline, UnregisterStream, Srv, wires, Lines,
           TypeOK
  <2>3. srv'[k] = "serving" \/ srv[k] # "serving" \/ link[k] = "down"
    BY <1>t, <1>14, OrderlyFaults
       DEF Accept, RegisterStream, Refuse, Serve, Registered, ReceiveMessage,
           MarkLost, EndStream, MarkOffline, UnregisterStream, Srv
  <2> QED BY <1>13, <2>1, <2>2, <2>3
<1>15. ASSUME NEW k \in Conns, Break(k)
       PROVE  Flow'
  <2>1. \A r \in Requests : ~Moving(r)
    BY <1>t, <1>15, OrderlyFaults, SettledMeans DEF Break
  <2>2. \A r \in Requests : http[r] # "send" /\ ~Doing(r)
    BY <2>1 DEF Moving, InHand
  <2> QED BY <1>k, <1>15, <2>2, ServerSpares DEF agent, users
<1>16. ASSUME NEW e \in Envs, ContainerDies(e)
       PROVE  Flow'
  BY <1>10, <1>16 DEF ContainerDies, server, wires, users
<1>17. CASE AgentRestarts \/ ControlPlaneRestarts
  BY <1>17, OrderlyFaults DEF AgentRestarts, ControlPlaneRestarts
<1>18. CASE UNCHANGED vars
  BY <1>10, <1>18 DEF vars, server, wires, agent, users
<1> QED
  BY <1>1, <1>2, <1>3, <1>4, <1>5, <1>6, <1>7, <1>8, <1>11, <1>12, <1>14, <1>15,
     <1>16, <1>17, <1>18
     DEF Next, UserStep, JobStep, AgentStep

-----------------------------------------------------------------------------
(* Which action changes a request, a handler, a container or a row. *)
LEMMA HttpChange ==
  ASSUME TypeInv, OrderlyUse, [Next]_vars, NEW q \in Requests, http'[q] # http[q]
  PROVE  UserStep(q)
<1>1. \A r \in Requests : UserStep(r) => q = r
  BY UsersSpare
<1>2. ~UNCHANGED http
  OBVIOUS
<1>3. \A r \in Requests : ~JobStep(r)
  BY <1>2, JobsSpare DEF users
<1>4. ~AgentStep /\ \A k \in Conns : ~(Accept(k) \/ Serve(k) \/ Break(k))
  BY <1>2, AgentSpares, ServerSpares DEF users
<1>5. \A e \in Envs : ~ContainerDies(e)
  BY <1>2 DEF ContainerDies, users
<1>6. ~UNCHANGED vars
  BY <1>2 DEF vars, users
<1>7. ~AgentRestarts /\ ~ControlPlaneRestarts
  BY OrderlyFaults DEF AgentRestarts, ControlPlaneRestarts
<1> QED BY <1>1, <1>3, <1>4, <1>5, <1>6, <1>7 DEF Next

LEMMA JobChange ==
  ASSUME TypeInv, OrderlyUse, [Next]_vars, NEW q \in Requests,
         job'[q] # job[q] \/ result'[q] # result[q]
  PROVE  \/ ReceiveCommand /\ q = Head(toAgent[conn]) /\ job'[q] = "running"
            /\ result'[q] = result[q]
         \/ Execute(q)
         \/ SendReport(q) /\ result'[q] = result[q]
<1>t. TypeOK
  BY DEF TypeInv
<1>1. ~UNCHANGED <<job, result>>
  OBVIOUS
<1>2. \A r \in Requests : ~UserStep(r)
  BY <1>1, UsersSpare DEF agent
<1>3. \A k \in Conns : ~(Accept(k) \/ Serve(k) \/ Break(k))
  BY <1>1, ServerSpares DEF agent
<1>4. ASSUME AgentStep
      PROVE  ReceiveCommand /\ q = Head(toAgent[conn]) /\ job'[q] = "running"
             /\ result'[q] = result[q]
  <2>1. result' = result
    BY <1>4, AgentSpares
  <2>2. ReceiveCommand
    BY <1>1, <1>4, <2>1 DEF AgentStep, Connect, ReceiveFirst, ListRunning,
                            Announce, Beat, Disconnect, agent
  <2> QED BY <1>t, <2>1, <2>2 DEF ReceiveCommand, TypeOK
<1>5. \A e \in Envs : ~ContainerDies(e)
  BY <1>1 DEF ContainerDies
<1>6. ~UNCHANGED vars
  BY <1>1 DEF vars, agent
<1>7. ~AgentRestarts /\ ~ControlPlaneRestarts
  BY OrderlyFaults DEF AgentRestarts, ControlPlaneRestarts
<1>8. ASSUME NEW r \in Requests, JobStep(r)
      PROVE  Execute(q) \/ (SendReport(q) /\ result'[q] = result[q])
  <2>1. CASE Execute(r)
    <3>1. \A p \in Requests \ {r} : job'[p] = job[p] /\ result'[p] = result[p]
      BY <1>t, <2>1 DEF Execute, Handlers!Execute, TypeOK
    <3>2. q = r
      BY <3>1
    <3> QED BY <2>1, <3>2
  <2>2. CASE SendReport(r)
    <3>1. result' = result /\ \A p \in Requests \ {r} : job'[p] = job[p]
      BY <1>t, <2>2 DEF SendReport, TypeOK
    <3> QED BY <2>2, <3>1
  <2> QED BY <1>8, <2>1, <2>2 DEF JobStep
<1> QED BY <1>2, <1>3, <1>4, <1>5, <1>6, <1>7, <1>8 DEF Next

LEMMA BoxChange ==
  ASSUME TypeInv, OrderlyUse, [Next]_vars, NEW x \in Envs, box'[x] # box[x]
  PROVE  (\E r \in Requests : Execute(r) /\ r.env = x) \/ ContainerDies(x)
<1>t. TypeOK
  BY DEF TypeInv
<1>1. ~UNCHANGED box
  OBVIOUS
<1>2. \A r \in Requests : ~UserStep(r)
  BY <1>1, UsersSpare DEF agent
<1>3. ~AgentStep /\ \A k \in Conns : ~(Accept(k) \/ Serve(k) \/ Break(k))
  BY <1>1, AgentSpares, ServerSpares DEF agent
<1>4. ASSUME NEW r \in Requests, JobStep(r)
      PROVE  Execute(r) /\ r.env = x
  BY <1>t, <1>4 DEF JobStep, Execute, Handlers!Execute, SendReport, TypeOK
<1>5. ASSUME NEW e \in Envs, ContainerDies(e)
      PROVE  e = x
  BY <1>t, <1>5 DEF ContainerDies, TypeOK
<1>6. ~UNCHANGED vars
  BY <1>1 DEF vars, agent
<1>7. ~AgentRestarts /\ ~ControlPlaneRestarts
  BY OrderlyFaults DEF AgentRestarts, ControlPlaneRestarts
<1> QED BY <1>2, <1>3, <1>4, <1>5, <1>6, <1>7 DEF Next

LEMMA RowChange ==
  ASSUME TypeInv, OrderlyUse, [Next]_vars, NEW x \in Envs, db'[x] # db[x]
  PROVE  \/ \E r \in Requests : /\ Begin(r) /\ r.op = "create" /\ r.env = x
                                /\ db[x] = "absent" /\ db'[x] = "creating"
                                /\ http'[r] = "find"
         \/ \E r \in Requests : RemoveRow(r) /\ r.env = x /\ db'[x] = "absent"
         \/ \E k \in Conns : /\ ReceiveMessage(k) /\ About(x, Head(toServer[k]))
                             /\ db'[x] = Status[Head(toServer[k]).type]
                             /\ db[x] # "absent"
         \/ \E k \in Conns : /\ MarkLost(k) /\ x \in lost[k]
                             /\ db'[x] = "error" /\ db[x] # "absent"
<1>t. TypeOK /\ toServer \in [Conns -> Seq(Messages)]
  BY DEF TypeInv, Wired
<1>1. ~UNCHANGED db
  OBVIOUS
<1>2. ASSUME NEW r \in Requests, Begin(r)
      PROVE  /\ r.op = "create" /\ r.env = x /\ db[x] = "absent"
             /\ db'[x] = "creating" /\ http'[r] = "find"
  BY <1>t, <1>1, <1>2, OrderlyFaults DEF Begin, Http, TypeOK
<1>3. ASSUME NEW r \in Requests, RemoveRow(r)
      PROVE  r.env = x /\ db'[x] = "absent"
  BY <1>t, <1>1, <1>3 DEF RemoveRow, TypeOK
<1>4. ASSUME NEW k \in Conns, ReceiveMessage(k)
      PROVE  /\ About(x, Head(toServer[k]))
             /\ db'[x] = Status[Head(toServer[k]).type]
             /\ db[x] # "absent"
  <2> DEFINE m == Head(toServer[k])
  <2>1. m \in Messages
    BY <1>t, <1>4, WireUpdates DEF ReceiveMessage
  <2>2. m.type \in DOMAIN Status /\ Mark(m.env, Status[m.type])
    BY <1>1, <1>4 DEF ReceiveMessage
  <2> HIDE DEF m
  <2>3. m.env \in Envs /\ About(m.env, m)
    BY <2>1, <2>2, AboutMeans
  <2>4. /\ m.env = x /\ db'[x] = Status[m.type] /\ db[x] # "absent"
    BY <1>t, <2>2, <2>3 DEF Mark, TypeOK
  <2> QED BY <2>3, <2>4 DEF m
<1>5. ASSUME NEW k \in Conns, MarkLost(k)
      PROVE  x \in lost[k] /\ db'[x] = "error" /\ db[x] # "absent"
  BY <1>t, <1>1, <1>5 DEF MarkLost, Mark, TypeOK
<1> QED BY <1>1, <1>2, <1>3, <1>4, <1>5, RowsUntouched

LEMMA MovingStep ==
  ASSUME TypeInv, OrderlyUse, UseInv, [Next]_vars, NEW q \in Requests,
         Moving(q)', ~Moving(q)
  PROVE  Begin(q) /\ http'[q] = "find"
<1>t. TypeOK /\ Flow
  BY DEF TypeInv, UseInv
<1>1. CASE Sent(q)'
  <2>1. SendCommand(q)
    BY <1>1, SentStep DEF Moving
  <2> QED BY <2>1 DEF SendCommand, Moving, InHand
<1>2. CASE Doing(q)'
  <2>1. job'[q] \in {"running", "reporting"} /\ job'[q] # job[q]
    BY <1>2 DEF Doing, Moving
  <2>2. ReceiveCommand /\ q = Head(toAgent[conn])
    BY <1>t, <2>1, JobChange DEF Moving, Doing, Execute, Handlers!Execute, SendReport
  <2> QED BY <2>2, SentStep DEF Moving
<1>3. CASE http'[q] \in InHand
  <2>1. http'[q] # http[q] /\ http[q] \notin InHand
    BY <1>3 DEF Moving
  <2>2. Begin(q)
    BY <2>1, HttpChange DEF UserStep, Find, Route, SendCommand, RemoveRow, InHand
  <2> QED BY <1>t, <1>3, <2>2 DEF Begin, Http, TypeOK, InHand
<1> QED BY <1>1, <1>2, <1>3 DEF Moving

(* A report that is applied comes by the agent's own connection, no snapshot
   is left on any, and the row takes its status. *)
LEMMA ReportApplied ==
  ASSUME TypeInv, OrderlyUse, UseInv, NEW x \in Envs, NEW k \in Conns,
         ReceiveMessage(k), About(x, Head(toServer[k]))
  PROVE  /\ Online /\ k = conn /\ phase = "up"
         /\ \A j \in Conns : lost[j] = {}
         /\ \A j \in Conns : \A i \in DOMAIN toServer[j] :
               toServer[j][i].type # "snapshot"
         /\ UNCHANGED lost
         /\ db'[x] = IF db[x] = "absent" THEN "absent"
                     ELSE Status[Head(toServer[k]).type]
         /\ Head(toServer[k]).type \in DOMAIN Status
         /\ Head(toServer[k]).type = "ready" <=> box[x] = "running"
         /\ UNCHANGED <<box, job, http, srv, link, conn, phase, result>>
<1>t. /\ TypeOK /\ Lines /\ Uplink /\ Boxes
      /\ toServer[k] \in Seq(Messages)
  BY DEF TypeInv, Wired, UseInv
<1> DEFINE m == Head(toServer[k])
<1>1. /\ srv[k] = "serving" /\ lost[k] = {} /\ toServer[k] # <<>>
      /\ UNCHANGED <<box, job, http, srv, link, conn, phase, result>>
  BY DEF ReceiveMessage, agent, users
<1>2. m \in Messages /\ 1 \in DOMAIN toServer[k] /\ m = toServer[k][1]
  BY <1>t, <1>1
<1>3. /\ m.type \in DOMAIN Status /\ m.env = x /\ m.type # "snapshot"
      /\ m.type # "heartbeat"
  BY <1>2, AboutMeans DEF Status
<1>4. Online /\ k = conn /\ phase = "up"
  BY <1>t, <1>2 DEF Uplink
<1>5. \A j \in Conns : srv[j] = "serving" => j = k
  BY <1>t, <1>1 DEF Lines, Live, TypeOK
<1>6. \A j \in Conns : lost[j] = {}
  BY <1>t, <1>1, <1>5 DEF Lines
<1>7. \A j \in Conns : \A i \in DOMAIN toServer[j] :
         toServer[j][i].type # "snapshot"
  BY <1>t, <1>2, <1>3, <1>5 DEF Uplink
<1>8. UNCHANGED lost /\ Mark(x, Status[m.type])
  BY <1>3, <1>4, OrderlyFaults DEF ReceiveMessage, MayFail, Online
<1>9. db'[x] = IF db[x] = "absent" THEN "absent" ELSE Status[m.type]
  BY <1>t, <1>8 DEF Mark, TypeOK
<1>10. m.type = "ready" <=> box[x] = "running"
  BY <1>t, <1>2, <1>3 DEF Boxes
<1> QED BY <1>1, <1>3, <1>4, <1>6, <1>7, <1>8, <1>9, <1>10

(* Where the messages to the control plane come from. *)
LEMMA MessageStep ==
  ASSUME TypeInv, OrderlyUse, UseInv, [Next]_vars,
         NEW k \in Conns, NEW i \in DOMAIN toServer'[k]
  PROVE  \/ \E j \in DOMAIN toServer[k] : toServer[k][j] = toServer'[k][i]
         \/ toServer'[k][i].type \in {"register", "heartbeat"}
         \/ /\ Announce /\ Online /\ k = conn
            /\ toServer'[k][i] = Snapshot(listed)
         \/ \E r \in Requests : SendReport(r) /\ toServer'[k][i] = Report(r)
<1> USE RequestsAssumption, BoundsAssumption
<1> DEFINE Old == \E j \in DOMAIN toServer[k] : toServer[k][j] = toServer'[k][i]
<1>t. /\ TypeOK /\ Lines /\ Uplink /\ Flow
      /\ toServer \in [Conns -> Seq(Messages)]
      /\ \A j \in Conns : toServer[j] \in Seq(Messages)
  BY DEF TypeInv, Wired, UseInv
<1>0. ASSUME UNCHANGED toServer
      PROVE  Old
  BY <1>0
<1>a. ASSUME NEW l \in Conns, NEW m \in Messages,
             toServer' = [toServer EXCEPT ![l] = Append(@, m)]
      PROVE  Old \/ (k = l /\ toServer'[k][i] = m)
  <2>1. CASE k = l
    <3> DEFINE s == toServer[k]
    <3>1. s \in Seq(Messages) /\ toServer'[k] = Append(s, m)
      BY <1>t, <1>a, <2>1
    <3> HIDE DEF s
    <3>2. i \in DOMAIN Append(s, m)
      BY <3>1
    <3>3. (i \in DOMAIN s /\ Append(s, m)[i] = s[i]) \/ Append(s, m)[i] = m
      BY <3>1, <3>2, AppendIndex
    <3> QED BY <2>1, <3>1, <3>3 DEF s
  <2>2. CASE k # l
    BY <1>t, <1>a, <2>2
  <2> QED BY <2>1, <2>2
<1>b. ASSUME NEW l \in Conns, toServer[l] # <<>>,
             toServer' = [toServer EXCEPT ![l] = Tail(@)]
      PROVE  Old
  <2>1. CASE k = l
    <3> DEFINE s == toServer[k]
    <3>1. s \in Seq(Messages) /\ toServer'[k] = Tail(s) /\ s # <<>>
      BY <1>t, <1>b, <2>1
    <3> HIDE DEF s
    <3>2. i + 1 \in DOMAIN s /\ Tail(s)[i] = s[i + 1]
      BY <3>1, TailIndex
    <3> QED BY <3>1, <3>2 DEF s
  <2>2. CASE k # l
    BY <1>t, <1>b, <2>2
  <2> QED BY <2>1, <2>2
<1>e. ASSUME NEW l \in Conns, toServer' = [toServer EXCEPT ![l] = <<>>]
      PROVE  Old
  <2>1. k # l
    BY <1>t, <1>e
  <2> QED BY <1>t, <1>e, <2>1
<1> HIDE DEF Old
<1>1. ASSUME NEW r \in Requests, SendReport(r)
      PROVE  Old \/ toServer'[k][i] = Report(r)
  <2>1. Online /\ via[r] = conn /\ conn \in Conns
    BY <1>t, <1>1 DEF SendReport, Flow, Doing, Online, TypeOK
  <2>2. result[r] \in DOMAIN Status
    BY <1>1 DEF SendReport, TypeInv, Wired, TypeOK
  <2>3. Report(r) \in Messages
    BY <2>2, MessageTypes
  <2>4. toServer' = [toServer EXCEPT ![conn] = Append(@, Report(r))]
    BY <1>1, <2>1 DEF SendReport, Send, Online
  <2> QED BY <1>a, <2>1, <2>3, <2>4
<1>2. ASSUME NEW r \in Requests, UserStep(r) \/ Execute(r)
      PROVE  UNCHANGED toServer
  BY <1>2, UsersSpare DEF Execute, Handlers!Execute, wires
<1>3. ASSUME Connect
      PROVE  Old \/ toServer'[k][i].type = "register"
  <2>1. PICK l \in Conns : toServer' = [toServer EXCEPT ![l] = <<Register>>]
    BY <1>3 DEF Connect
  <2>2. CASE k = l
    <3>1. toServer'[k] = <<Register>>
      BY <1>t, <2>1, <2>2
    <3>2. toServer'[k][i] = Register
      BY <3>1
    <3> QED BY <3>2 DEF Register
  <2>3. CASE k # l
    <3>1. toServer'[k] = toServer[k]
      BY <1>t, <2>1, <2>3
    <3> QED BY <3>1 DEF Old
  <2> QED BY <2>2, <2>3
<1>4. ASSUME Announce
      PROVE  Old \/ (Online /\ k = conn /\ toServer'[k][i] = Snapshot(listed))
  <2>1. Snapshot(listed) \in Messages /\ conn \in Conns /\ conn # NoConn
    BY <1>t, <1>4, MessageTypes DEF TypeOK, Announce
  <2>2. UNCHANGED toServer \/ (link[conn] = "up" /\
           toServer' = [toServer EXCEPT ![conn] = Append(@, Snapshot(listed))])
    BY <1>4 DEF Announce, Send
  <2> QED BY <1>0, <1>a, <2>1, <2>2 DEF Online
<1>5. ASSUME Beat
      PROVE  Old \/ toServer'[k][i].type = "heartbeat"
  <2>1. Heartbeat \in Messages /\ conn \in Conns
    BY <1>t, <1>5, MessageTypes DEF TypeOK, Beat
  <2>2. UNCHANGED toServer
        \/ toServer' = [toServer EXCEPT ![conn] = Append(@, Heartbeat)]
    BY <1>5 DEF Beat, Send
  <2>3. Old \/ toServer'[k][i] = Heartbeat
    BY <1>0, <1>a, <2>1, <2>2
  <2> QED BY <2>3 DEF Heartbeat
<1>6. ASSUME ReceiveFirst \/ ListRunning \/ ReceiveCommand \/ Disconnect
      PROVE  UNCHANGED toServer
  BY <1>6 DEF ReceiveFirst, ListRunning, ReceiveCommand, Disconnect, wires
<1>7. ASSUME NEW l \in Conns, Accept(l) \/ Serve(l)
      PROVE  Old
  <2>1. CASE Registered(l) \/ ReceiveMessage(l)
    BY <1>b, <2>1 DEF Registered, ReceiveMessage
  <2>2. CASE EndStream(l) \/ UnregisterStream(l)
    BY <1>e, <2>2 DEF EndStream, UnregisterStream
  <2>3. CASE Accept(l) \/ MarkLost(l) \/ MarkOffline(l)
    BY <1>0, <2>3 DEF Accept, RegisterStream, Refuse, MarkLost, MarkOffline, wires
  <2> QED BY <1>7, <2>1, <2>2, <2>3 DEF Serve
<1>8. ASSUME NEW l \in Conns, Break(l)
      PROVE  Old
  <2>1. PICK n \in 0..Len(toServer[l]) :
            toServer' = [toServer EXCEPT ![l] = SubSeq(@, 1, n)]
    BY <1>8 DEF Break
  <2>2. i \in DOMAIN toServer[k] /\ toServer'[k][i] = toServer[k][i]
    BY <1>t, <2>1, PrefixIndex
  <2> QED BY <2>2 DEF Old
<1>9. ASSUME (\E e \in Envs : ContainerDies(e)) \/ UNCHANGED vars
      PROVE  UNCHANGED toServer
  BY <1>9 DEF ContainerDies, vars, wires
<1>10. ~AgentRestarts /\ ~ControlPlaneRestarts
  BY OrderlyFaults DEF AgentRestarts, ControlPlaneRestarts
<1>11. \/ Old \/ toServer'[k][i].type \in {"register", "heartbeat"}
       \/ Announce /\ Online /\ k = conn /\ toServer'[k][i] = Snapshot(listed)
       \/ \E r \in Requests : SendReport(r) /\ toServer'[k][i] = Report(r)
  BY <1>0, <1>1, <1>2, <1>3, <1>4, <1>5, <1>6, <1>7, <1>8, <1>9, <1>10
     DEF Next, JobStep, AgentStep
<1> QED BY <1>11 DEF Old

(* The states a request passes through. *)
LEMMA RequestStages ==
  ASSUME TypeInv, OrderlyUse, NEW q \in Requests, UserStep(q)
  PROVE  /\ http'[q] # "idle"
         /\ Begin(q) \/ http[q] \in InHand
         /\ Begin(q) => /\ http[q] = "idle" /\ http'[q] \in {"find", "failed"}
                        /\ Settled(q.env)
                        /\ q.op = "create" => http'[q] = "find"
                        /\ http'[q] = "find" =>
                              \/ q.op = "create" /\ db[q.env] = "absent"
                              \/ q.op # "create" /\ db[q.env] # "absent"
                        /\ q.op = "start" => db[q.env] # "running"
         /\ q.op = "create" /\ http'[q] = "failed" =>
               RemoveRow(q) /\ db'[q.env] = "absent"
         /\ http[q] \in InHand /\ http'[q] \notin InHand =>
               \/ RemoveRow(q) /\ db'[q.env] = "absent"
               \/ SendCommand(q) /\ http'[q] = "done"
               \/ q.op # "create"
<1>t. TypeOK /\ q.env \in Envs
  BY RequestsAssumption DEF TypeInv
<1>1. CASE Begin(q)
  <2>1. /\ http[q] = "idle" /\ http'[q] \in {"find", "failed"} /\ Settled(q.env)
        /\ q.op = "create" => http'[q] = "find"
        /\ http'[q] = "find" => \/ q.op = "create" /\ db[q.env] = "absent"
                                \/ q.op # "create" /\ db[q.env] # "absent"
        /\ q.op = "start" => db[q.env] # "running"
    BY <1>t, <1>1, OrderlyFaults DEF Begin, Http, TypeOK
  <2> QED BY <1>1, <2>1 DEF InHand
<1>2. CASE Find(q)
  BY <1>t, <1>2 DEF Find, Undispatched, Http, InHand, TypeOK, Begin
<1>3. CASE Route(q)
  BY <1>t, <1>3 DEF Route, Undispatched, Http, InHand, TypeOK, Begin
<1>4. CASE SendCommand(q)
  BY <1>t, <1>4 DEF SendCommand, Undispatched, Http, InHand, TypeOK, Begin
<1>5. CASE RemoveRow(q)
  <2>1. /\ http[q] = "remove" /\ http'[q] \in {"done", "failed"}
        /\ db'[q.env] = "absent"
    BY <1>t, <1>5, OrderlyFaults DEF RemoveRow, Http, TypeOK
  <2> QED BY <1>5, <2>1 DEF Begin, InHand
<1> QED BY <1>1, <1>2, <1>3, <1>4, <1>5 DEF UserStep

LEMMA BoxesStep ==
  ASSUME TypeInv, OrderlyUse, UseInv, [Next]_vars
  PROVE  Boxes'
<1> USE RequestsAssumption
<1>t. /\ TypeOK /\ Lines /\ Uplink /\ Flow /\ Boxes /\ Agreement
      /\ Flow'
  BY FlowStep DEF TypeInv, UseInv
<1>e. \A q \in Requests : Execute(q) => /\ Moving(q) /\ http[q] = "done"
                                        /\ job[q] = "running"
                                        /\ job'[q] = "reporting"
  BY <1>t DEF Execute, Handlers!Execute, Moving, Doing, Flow, TypeOK
<1>o. \A r, q \in Requests :
          r.op = "create" /\ q.op = "create" /\ r.env = q.env => r = q
  BY DEF OrderlyUse
<1>1. ASSUME NEW e \in Envs, Unborn(e)'
      PROVE  db'[e] = "absent" /\ box'[e] = "none" /\ Untried(e)'
  <2>0. \A r \in Requests : r.op = "create" /\ r.env = e => http'[r] = "idle"
    BY <1>1 DEF Unborn
  <2>1. Unborn(e)
    BY <2>0, HttpChange, RequestStages DEF Unborn
  <2>2. db[e] = "absent" /\ box[e] = "none" /\ Untried(e)
    BY <1>t, <2>1 DEF Boxes
  <2>3. db'[e] = "absent"
    BY <2>0, <2>2, RowChange
  <2>4. box'[e] = "none"
    BY <1>e, <2>2, BoxChange DEF Untried, ContainerDies
  <2>5. ASSUME NEW q \in Requests, q.env = e
        PROVE  http'[q] \in {"idle", "failed"}
    <3>1. CASE http'[q] = http[q]
      BY <2>2, <2>5, <3>1 DEF Untried
    <3>2. CASE http'[q] # http[q]
      <4>1. UserStep(q) /\ http[q] \notin InHand
        BY <2>2, <2>5, <3>2, HttpChange DEF Untried, InHand
      <4> QED BY <2>0, <2>2, <2>5, <4>1, RequestStages
    <3> QED BY <3>1, <3>2
  <2> QED BY <2>3, <2>4, <2>5 DEF Untried
<1>2. ASSUME NEW r \in Requests, r.op = "create",
             http'[r] \in InHand \cup {"failed"}
      PROVE  /\ box'[r.env] = "none"
             /\ \A q \in Requests \ {r} : q.env = r.env
                   => http'[q] \in {"idle", "failed"}
  <2>1. CASE Begin(r)
    <3>1. http[r] = "idle" /\ UNCHANGED box
      BY <2>1 DEF Begin, agent
    <3>2. Unborn(r.env)
      BY <1>2, <1>o, <3>1 DEF Unborn
    <3>3. box[r.env] = "none" /\ Untried(r.env)
      BY <1>t, <3>2 DEF Boxes
    <3>4. \A q \in Requests \ {r} : http'[q] = http[q]
      BY <2>1, UsersSpare DEF UserStep
    <3> QED BY <3>1, <3>3, <3>4 DEF Untried
  <2>2. CASE http[r] \in InHand \cup {"failed"}
    <3>1. /\ box[r.env] = "none"
          /\ \A q \in Requests \ {r} : q.env = r.env
                => http[q] \in {"idle", "failed"}
      BY <1>t, <1>2, <2>2 DEF Boxes
    <3>2. http[r] # "done"
      BY <2>2 DEF InHand
    <3>3. box'[r.env] = "none"
      BY <1>e, <3>1, <3>2, BoxChange DEF ContainerDies
    <3>4. ASSUME NEW q \in Requests \ {r}, q.env = r.env
          PROVE  http'[q] \in {"idle", "failed"}
      <4>1. CASE http'[q] = http[q]
        BY <3>1, <3>4, <4>1
      <4>2. CASE http'[q] # http[q]
        <5>1. UserStep(q) /\ http[q] \notin InHand
          BY <3>1, <3>4, <4>2, HttpChange DEF InHand
        <5>2. /\ Settled(r.env) /\ http'[q] \in {"find", "failed"}
              /\ http'[q] = "find" => \/ q.op = "create" /\ db[q.env] = "absent"
                                      \/ q.op # "create" /\ db[q.env] # "absent"
          BY <3>4, <5>1, RequestStages
        <5>3. http[r] = "failed"
          BY <1>t, <2>2, <5>2, SettledMeans DEF Moving
        <5>4. db[q.env] = "absent"
          BY <1>t, <1>2, <3>4, <5>3 DEF Boxes
        <5> QED BY <1>2, <1>o, <3>4, <5>2, <5>4
      <4> QED BY <4>1, <4>2
    <3> QED BY <3>3, <3>4
  <2>3. Begin(r) \/ http[r] \in InHand \cup {"failed"}
    BY <1>2, HttpChange, RequestStages
  <2> QED BY <2>1, <2>2, <2>3
<1>3. ASSUME NEW r \in Requests, r.op = "create", http'[r] = "failed"
      PROVE  db'[r.env] = "absent"
  <2>1. CASE http[r] = "failed"
    <3>1. db[r.env] = "absent"
      BY <1>t, <1>3, <2>1 DEF Boxes
    <3>2. \A q \in Requests : Begin(q) /\ q.op = "create" => q.env # r.env
      BY <1>3, <1>o, <2>1 DEF Begin
    <3> QED BY <3>1, <3>2, RowChange
  <2>2. CASE http[r] # "failed"
    BY <1>3, <2>2, HttpChange, RequestStages
  <2> QED BY <2>1, <2>2
<1>4. ASSUME NEW r \in Requests, r.op = "start", Moving(r)', job'[r] # "reporting"
      PROVE  box'[r.env] # "running"
  <2>1. CASE Moving(r)
    <3>1. job[r] # "reporting"
      <4>1. SUFFICES ASSUME job[r] = "reporting"
                     PROVE  FALSE
        OBVIOUS
      <4>2. SendReport(r)
        BY <1>t, <1>4, <1>e, <4>1, JobChange, SentStep DEF Flow
      <4>3. job'[r] = "done" /\ http'[r] = http[r] /\ http[r] = "done"
        BY <1>t, <4>1, <4>2 DEF SendReport, users, Flow, TypeOK
      <4>4. ~Sent(r)' /\ ~Doing(r)' /\ http'[r] \notin InHand
        BY <1>t, <4>3 DEF Flow, Doing, InHand
      <4> QED BY <1>4, <4>4 DEF Moving
    <3>2. box[r.env] # "running"
      BY <1>t, <1>4, <2>1, <3>1 DEF Boxes
    <3>3. \A q \in Requests : Execute(q) /\ q.env = r.env => FALSE
      BY <1>t, <1>4, <1>e, <2>1 DEF Flow
    <3>4. ContainerDies(r.env) => box'[r.env] # "running"
      BY <3>2 DEF ContainerDies
    <3> QED BY <3>2, <3>3, <3>4, BoxChange
  <2>2. CASE ~Moving(r)
    <3>1. Begin(r) /\ http'[r] = "find"
      BY <1>4, <2>2, MovingStep
    <3>2. Settled(r.env) /\ db[r.env] \notin {"absent", "running"}
      BY <1>4, <3>1, RequestStages DEF UserStep
    <3>3. Plain(r.env)
      BY <1>t, <3>2, SettledMeans DEF Plain, Moving, Doing
    <3>4. box[r.env] # "running"
      BY <1>t, <3>2, <3>3 DEF Agreement
    <3> QED BY <3>1, <3>4 DEF Begin, agent
  <2> QED BY <2>1, <2>2
<1>5. ASSUME NEW r \in Requests, job'[r] = "reporting"
      PROVE  result'[r] = "ready" <=> box'[r.env] = "running"
  <2>1. CASE Execute(r)
    <3>1. PICK o \in Handlers!Outcomes(r) :
             /\ box' = [box EXCEPT ![r.env] = o[1]]
             /\ result' = [result EXCEPT ![r] = o[2]]
      BY <2>1 DEF Execute, Handlers!Execute
    <3>2. r.op = "start" => box[r.env] # "running"
      BY <1>t, <1>e, <2>1 DEF Boxes
    <3>3. o[2] = "ready" <=> o[1] = "running"
      BY <1>t, <3>2, OrderlyFaults DEF Handlers!Outcomes, Handlers!If, TypeOK
    <3>4. box'[r.env] = o[1] /\ result'[r] = o[2]
      BY <1>t, <3>1 DEF TypeOK
    <3> QED BY <3>3, <3>4
  <2>2. CASE ~Execute(r)
    <3>1. job[r] = "reporting" /\ result'[r] = result[r]
      BY <1>t, <1>5, <2>2, JobChange DEF SendReport, TypeOK
    <3>2. Moving(r) /\ conn # NoConn
      BY <1>t, <3>1 DEF Moving, Doing, Flow, Online
    <3>3. \A q \in Requests : Execute(q) /\ q.env = r.env => FALSE
      BY <1>t, <1>e, <2>2, <3>2 DEF Flow
    <3>4. box'[r.env] = box[r.env]
      BY <3>2, <3>3, BoxChange DEF ContainerDies
    <3> QED BY <1>t, <3>1, <3>4 DEF Boxes
  <2> QED BY <2>1, <2>2
<1>6. ASSUME NEW k \in Conns, NEW i \in DOMAIN toServer'[k],
             toServer'[k][i].type \in DOMAIN Status
      PROVE  toServer'[k][i].type = "ready"
                <=> box'[toServer'[k][i].env] = "running"
  <2> DEFINE m == toServer'[k][i]
  <2>1. CASE \E j \in DOMAIN toServer[k] : toServer[k][j] = m
    <3>1. PICK j \in DOMAIN toServer[k] : toServer[k][j] = m
      BY <2>1
    <3>2. m \in Messages
      BY <3>1 DEF TypeInv, Wired
    <3>3. m.env \in Envs /\ About(m.env, m)
      BY <1>6, <3>2, AboutMeans
    <3>4. Told(m.env) /\ conn # NoConn
      BY <1>t, <3>1, <3>3 DEF Told, Uplink, Online
    <3>5. \A q \in Requests : Execute(q) => q.env # m.env
      BY <1>t, <1>e, <3>4 DEF Flow
    <3>6. box'[m.env] = box[m.env]
      BY <3>3, <3>4, <3>5, BoxChange DEF ContainerDies
    <3> QED BY <1>t, <1>6, <3>1, <3>6 DEF Boxes
  <2>2. ASSUME NEW r \in Requests, SendReport(r), m = Report(r)
        PROVE  m.type = "ready" <=> box'[m.env] = "running"
    BY <1>t, <2>2 DEF SendReport, Report, Boxes
  <2>3. m.type \notin {"register", "heartbeat", "snapshot"}
    BY <1>6 DEF Status
  <2>4. m # Snapshot(listed)
    BY <2>3 DEF Snapshot
  <2> QED BY <2>1, <2>2, <2>3, <2>4, MessageStep
<1> QED BY <1>1, <1>2, <1>3, <1>4, <1>5, <1>6 DEF Boxes

(* A container comes to rest when the report about it is applied, and then
   only dies. *)
LEMMA PlainStep ==
  ASSUME TypeInv, OrderlyUse, UseInv, [Next]_vars, NEW x \in Envs, Plain(x)'
  PROVE  /\ ~Plain(x) => \E k \in Conns :
               ReceiveMessage(k) /\ About(x, Head(toServer[k]))
         /\ box'[x] = box[x] \/ ContainerDies(x)
<1> USE RequestsAssumption
<1>t. TypeOK /\ Flow
  BY DEF TypeInv, UseInv
<1>0. ~Told(x)' /\ \A r \in Requests : r.env = x => job'[r] # "reporting"
  BY DEF Plain
<1>1. ASSUME NEW r \in Requests, r.env = x, job[r] = "reporting"
      PROVE  FALSE
  <2>1. ~Sent(r) /\ ~Execute(r)
    BY <1>t, <1>1 DEF Flow, Execute, Handlers!Execute
  <2>2. SendReport(r)
    BY <1>0, <1>1, <2>1, JobChange, SentStep
  <2> QED BY <1>0, <1>1, <2>2, ToldStep
<1>2. \A r \in Requests : Execute(r) => r.env # x
  BY <1>t, <1>0 DEF Execute, Handlers!Execute, TypeOK
<1> QED BY <1>0, <1>1, <1>2, ToldStep, BoxChange DEF Plain

(* What is going to tell the control plane that a container does not run does
   not get lost: it is a link to come, the list to be made, the snapshot on its
   way or the loop over the rows it does not name. *)
LEMMA PendingStep ==
  ASSUME TypeInv, OrderlyUse, UseInv, [Next]_vars, NEW x \in Envs,
         Pending(x), db[x] = "running", db'[x] = "running", box[x] # "running"
  PROVE  Pending(x)'
<1> USE RequestsAssumption, BoundsAssumption
<1>t. /\ TypeOK /\ Lines /\ Downlink /\ Uplink /\ Flow
      /\ toServer \in [Conns -> Seq(Messages)]
      /\ \A k \in Conns : toServer[k] \in Seq(Messages)
      /\ NoConn \notin Conns
  BY DEF TypeInv, Wired, UseInv, NoConn, Conns
<1> DEFINE Tells(s) == \E i \in DOMAIN s : /\ s[i].type = "snapshot"
                                           /\ x \notin s[i].running
<1>d. /\ \/ ~Online \/ phase \in {"registering", "list"}
         \/ phase = "announce" /\ x \notin listed
         \/ Tells(toServer[conn]) \/ x \in lost[conn]
      /\ \/ ~Online' \/ phase' \in {"registering", "list"}
         \/ phase' = "announce" /\ x \notin listed'
         \/ Tells(toServer'[conn']) \/ x \in lost'[conn']
         => Pending(x)'
  BY DEF Pending
<1> HIDE DEF Tells
<1>0. ASSUME UNCHANGED <<conn, link, phase, listed>>,
             Online /\ Tells(toServer[conn])
                => Tells(toServer'[conn]) \/ x \in lost'[conn],
             Online /\ x \in lost[conn] => x \in lost'[conn]
      PROVE  Pending(x)'
  <2>1. Online' => Online
    BY <1>0 DEF Online
  <2> QED BY <1>0, <1>d, <2>1
<1>a. ASSUME NEW k \in Conns, NEW m \in Messages,
             toServer' = [toServer EXCEPT ![k] = Append(@, m)]
      PROVE  Tells(toServer[k]) => Tells(toServer'[k])
  <2> DEFINE s == toServer[k]
  <2>1. s \in Seq(Messages) /\ toServer'[k] = Append(s, m)
    BY <1>t, <1>a
  <2> HIDE DEF s
  <2>2. Tells(s) => Tells(Append(s, m))
    BY <2>1, AppendIndex DEF Tells
  <2> QED BY <2>1, <2>2 DEF s
<1>c. Online => conn \in Conns
  BY <1>t DEF Online, TypeOK
<1>1. ASSUME NEW r \in Requests, UserStep(r) \/ Execute(r)
      PROVE  Pending(x)'
  BY <1>0, <1>1, UsersSpare DEF Execute, Handlers!Execute, server, wires, agent
<1>2. ASSUME NEW r \in Requests, SendReport(r)
      PROVE  Pending(x)'
  <2>1. Online /\ via[r] = conn
    BY <1>t, <1>2 DEF SendReport, Flow, Doing
  <2>2. result[r] \in DOMAIN Status
    BY <1>2 DEF SendReport, TypeInv, Wired, TypeOK
  <2>3. Report(r) \in Messages
    BY <2>2, MessageTypes
  <2>4. /\ toServer' = [toServer EXCEPT ![conn] = Append(@, Report(r))]
        /\ UNCHANGED <<conn, link, phase, listed, lost>>
    BY <1>2, <2>1 DEF SendReport, Send, Online, server
  <2> QED BY <1>0, <1>a, <1>c, <2>1, <2>3, <2>4
<1>3. CASE Connect
  BY <1>d, <1>3 DEF Connect
<1>4. CASE ReceiveFirst
  BY <1>d, <1>4 DEF ReceiveFirst
<1>5. CASE ListRunning
  BY <1>d, <1>5, OrderlyFaults DEF ListRunning
<1>6. CASE Announce
  <2>1. /\ phase = "announce" /\ conn' = conn /\ conn # NoConn
        /\ toServer' = Send(toServer, conn, Snapshot(listed))
        /\ UNCHANGED link
    BY <1>6 DEF Announce
  <2>2. CASE ~Online
    BY <1>d, <2>1, <2>2 DEF Online
  <2>3. CASE Online
    <3>1. toServer[conn] = <<>> /\ lost[conn] = {}
      BY <1>t, <2>1, <2>3 DEF Lines, Uplink
    <3>2. x \notin listed
      BY <1>d, <2>1, <2>3, <3>1 DEF Tells
    <3>3. toServer'[conn] = <<Snapshot(listed)>>
      BY <1>t, <1>c, <2>1, <2>3, <3>1 DEF Send, Online
    <3>4. Tells(<<Snapshot(listed)>>)
      BY <3>2 DEF Tells, Snapshot
    <3> QED BY <1>d, <2>1, <3>3, <3>4
  <2> QED BY <2>2, <2>3
<1>7. CASE Beat
  <2>1. /\ conn \in Conns
        /\ toServer' = [toServer EXCEPT ![conn] = Append(@, Heartbeat)]
        /\ UNCHANGED <<conn, link, phase, listed, lost>>
    BY <1>t, <1>7 DEF Beat, Send, server, agent, TypeOK
  <2> QED BY <1>0, <1>a, <2>1, MessageTypes
<1>8. CASE ReceiveCommand
  BY <1>0, <1>8 DEF ReceiveCommand, server
<1>9. CASE Disconnect
  BY <1>d, <1>9 DEF Disconnect, Online
<1>10. ASSUME NEW k \in Conns, Accept(k) \/ MarkOffline(k)
       PROVE  Pending(x)'
  BY <1>0, <1>10, OrderlyFaults DEF Accept, RegisterStream, Refuse, MarkOffline,
                                    wires, agent
<1>11. ASSUME NEW k \in Conns, UNCHANGED <<conn, link, phase, listed>>,
              Online => conn # k,
              \A j \in Conns \ {k} : toServer'[j] = toServer[j]
                                     /\ lost'[j] = lost[j]
       PROVE  Pending(x)'
  BY <1>0, <1>c, <1>11
<1>12. ASSUME NEW k \in Conns, Registered(k)
       PROVE  Pending(x)'
  <2>1. /\ UNCHANGED <<conn, link, phase, listed, lost>> /\ srv[k] = "accepted"
        /\ \A j \in Conns \ {k} : toServer'[j] = toServer[j]
    BY <1>t, <1>12 DEF Registered, agent
  <2>2. ~Tells(toServer[k])
    BY <1>t, <2>1 DEF Uplink, Tells
  <2> QED BY <1>0, <1>c, <2>1, <2>2
<1>13. ASSUME NEW k \in Conns, ReceiveMessage(k)
       PROVE  Pending(x)'
  <2>1. /\ UNCHANGED <<conn, link, phase, listed>> /\ lost[k] = {}
        /\ toServer[k] # <<>>
        /\ \A j \in Conns \ {k} : toServer'[j] = toServer[j]
        /\ \A j \in Conns \ {k} : lost'[j] = lost[j]
    BY <1>t, <1>13 DEF ReceiveMessage, agent, TypeOK
  <2>2. CASE Online /\ conn = k /\ Tells(toServer[k])
    <3>1. PICK i \in DOMAIN toServer[k] : /\ toServer[k][i].type = "snapshot"
                                          /\ x \notin toServer[k][i].running
      BY <2>2 DEF Tells
    <3>2. i = 1
      BY <1>t, <3>1 DEF Uplink
    <3>3. Head(toServer[k]) = toServer[k][i]
      BY <1>t, <2>1, <3>2
    <3>4. lost' = [lost EXCEPT ![k] = Unreported(Head(toServer[k]).running)]
      BY <1>13, <2>2, <3>1, <3>3, OrderlyFaults
         DEF ReceiveMessage, MayFail, Online, Status
    <3>5. x \in Unreported(Head(toServer[k]).running)
      BY <3>1, <3>3 DEF Unreported
    <3>6. x \in lost'[k]
      BY <1>t, <3>4, <3>5 DEF TypeOK
    <3> QED BY <1>0, <2>1, <2>2, <3>6
  <2>3. CASE Online /\ conn = k /\ ~Tells(toServer[k])
    BY <1>0, <2>1, <2>3
  <2>4. CASE Online => conn # k
    BY <1>11, <2>1, <2>4
  <2> QED BY <2>2, <2>3, <2>4
<1>14. ASSUME NEW k \in Conns, MarkLost(k)
       PROVE  Pending(x)'
  <2>1. PICK e \in lost[k] :
           /\ lost' = [lost EXCEPT ![k] = @ \ {e}]
           /\ Mark(e, "error") \/ (MayFail(k) /\ UNCHANGED db)
    BY <1>14 DEF MarkLost
  <2>2. UNCHANGED <<conn, link, phase, listed, toServer>>
    BY <1>14 DEF MarkLost, wires, agent
  <2>3. CASE Online /\ conn = k
    <3>1. Mark(e, "error")
      BY <2>1, <2>3, OrderlyFaults DEF MayFail, Online
    <3>2. e # x
      BY <1>t, <3>1 DEF Mark, TypeOK
    <3>3. x \in lost[k] => x \in lost'[k]
      BY <1>t, <2>1, <3>2 DEF TypeOK
    <3> QED BY <1>0, <2>2, <2>3, <3>3
  <2>4. CASE Online => conn # k
    <3>1. \A j \in Conns \ {k} : lost'[j] = lost[j]
      BY <1>t, <2>1 DEF TypeOK
    <3> QED BY <1>11, <2>2, <2>4, <3>1
  <2> QED BY <2>3, <2>4
<1>15. ASSUME NEW k \in Conns, EndStream(k) \/ UnregisterStream(k)
       PROVE  Pending(x)'
  <2>1. /\ UNCHANGED <<conn, link, phase, listed, lost>> /\ link[k] = "down"
        /\ \A j \in Conns \ {k} : toServer'[j] = toServer[j]
    BY <1>t, <1>15 DEF EndStream, UnregisterStream, Lines, agent, TypeOK
  <2> QED BY <1>11, <2>1 DEF Online
<1>16. ASSUME NEW k \in Conns, Break(k)
       PROVE  Pending(x)'
  <2>1. conn = k /\ conn' = conn /\ link' = [link EXCEPT ![k] = "down"]
    BY <1>t, <1>16 DEF Break, Lines, agent
  <2>2. ~Online'
    BY <1>t, <2>1 DEF Online, TypeOK
  <2> QED BY <1>d, <2>2
<1>17. ASSUME NEW e \in Envs, ContainerDies(e)
       PROVE  Pending(x)'
  BY <1>0, <1>17 DEF ContainerDies, server, wires
<1>18. CASE AgentRestarts \/ ControlPlaneRestarts
  BY <1>18, OrderlyFaults DEF AgentRestarts, ControlPlaneRestarts
<1>19. CASE UNCHANGED vars
  BY <1>0, <1>19 DEF vars, server, wires, agent
<1> QED
  BY <1>1, <1>2, <1>3, <1>4, <1>5, <1>6, <1>7, <1>8, <1>9, <1>10, <1>12, <1>13,
     <1>14, <1>15, <1>16, <1>17, <1>18, <1>19
     DEF Next, JobStep, AgentStep, Serve

LEMMA AgreementStep ==
  ASSUME TypeInv, OrderlyUse, UseInv, [Next]_vars
  PROVE  Agreement'
<1> USE RequestsAssumption
<1>t. /\ TypeOK /\ Lines /\ Uplink /\ Flow /\ Boxes /\ Agreement /\ Snapshots
      /\ Flow'
  BY FlowStep DEF TypeInv, UseInv
<1>o. \A r, q \in Requests :
          r.op = "create" /\ q.op = "create" /\ r.env = q.env => r = q
  BY DEF OrderlyUse
<1>s. Status["ready"] = "running"
      /\ \A y \in DOMAIN Status : /\ Status[y] # "creating"
                                  /\ Status[y] = "running" => y = "ready"
  BY DEF Status
<1>b. ASSUME NEW r \in Requests, Begin(r), r.op = "create"
      PROVE  /\ db[r.env] = "absent" /\ box[r.env] = "none" /\ Untried(r.env)
  <2>1. http[r] = "idle"
    BY <1>b DEF Begin
  <2>2. Unborn(r.env)
    BY <1>b, <1>o, <2>1 DEF Unborn
  <2> QED BY <1>t, <2>2 DEF Boxes
<1>1. ASSUME NEW e \in Envs, Plain(e)', db'[e] # "absent", box'[e] = "running"
      PROVE  db'[e] = "running"
  <2>1. box[e] = "running" /\ ~ContainerDies(e)
    BY <1>t, <1>1, PlainStep DEF ContainerDies, TypeOK
  <2>2. CASE ~Plain(e)
    BY <1>1, <1>s, <2>1, <2>2, PlainStep, ReportApplied
  <2>3. CASE Plain(e) /\ db'[e] = db[e]
    BY <1>t, <1>1, <2>1, <2>3 DEF Agreement
  <2>4. CASE Plain(e) /\ db'[e] # db[e]
    <3>1. \A r \in Requests : Begin(r) /\ r.op = "create" => r.env # e
      BY <1>b, <2>1
    <3>2. \A k \in Conns : e \notin lost[k]
      BY <1>t, <2>1, <2>4 DEF Snapshots
    <3>3. ASSUME NEW k \in Conns, ReceiveMessage(k), About(e, Head(toServer[k]))
          PROVE  db'[e] = "running"
      BY <1>1, <1>s, <2>1, <3>3, ReportApplied
    <3> QED BY <1>1, <2>4, <3>1, <3>2, <3>3, RowChange
  <2> QED BY <2>2, <2>3, <2>4
<1>2. ASSUME NEW e \in Envs, Plain(e)', db'[e] = "running", box'[e] # "running"
      PROVE  Pending(e)'
  <2>1. CASE ContainerDies(e)
    BY <2>1 DEF ContainerDies, Pending, Online
  <2>2. CASE ~ContainerDies(e)
    <3>1. box[e] # "running"
      BY <1>2, <2>2, PlainStep
    <3>2. \A k \in Conns : ~(ReceiveMessage(k) /\ About(e, Head(toServer[k])))
      BY <1>2, <1>s, <3>1, ReportApplied
    <3>3. Plain(e)
      BY <1>2, <3>2, PlainStep
    <3>4. db[e] = "running"
      BY <1>2, <3>2, RowChange
    <3>5. Pending(e)
      BY <1>t, <3>1, <3>3, <3>4 DEF Agreement
    <3> QED BY <1>2, <3>1, <3>4, <3>5, PendingStep
  <2> QED BY <2>1, <2>2
<1>3. ASSUME NEW e \in Envs, db'[e] = "creating"
      PROVE  Told(e)' \/ \E r \in Requests : r.env = e /\ Moving(r)'
  <2>1. CASE db[e] # "creating"
    <3>1. PICK r \in Requests : r.env = e /\ http'[r] = "find"
      <4>1. \A k \in Conns : ReceiveMessage(k) /\ About(e, Head(toServer[k]))
                => Head(toServer[k]).type \in DOMAIN Status
        BY ReportApplied
      <4> QED BY <1>3, <1>s, <2>1, <4>1, RowChange
    <3>2. Moving(r)'
      BY <3>1 DEF Moving, InHand
    <3> QED BY <3>1, <3>2
  <2>2. CASE db[e] = "creating" /\ Told(e)
    <3>1. \A k \in Conns : ~(ReceiveMessage(k) /\ About(e, Head(toServer[k])))
      BY <1>3, <1>s, <2>2, ReportApplied
    <3> QED BY <2>2, <3>1, ToldStep
  <2>3. CASE db[e] = "creating" /\ ~Told(e)
    <3>1. PICK r \in Requests : r.env = e /\ Moving(r)
      BY <1>t, <2>3 DEF Agreement
    <3>2. SUFFICES ASSUME ~Moving(r)'
                   PROVE  Told(e)'
      BY <3>1
    <3>3. http'[r] \notin InHand /\ ~Sent(r)' /\ ~Doing(r)'
      BY <3>2 DEF Moving
    <3>4. CASE http[r] \in InHand
      <4>1. r.op = "create"
        BY <1>t, <2>3, <3>1, <3>4 DEF Agreement
      <4>2. UserStep(r)
        BY <3>3, <3>4, HttpChange
      <4>3. SendCommand(r) /\ http'[r] = "done"
        BY <1>3, <3>1, <3>3, <3>4, <4>1, <4>2, RequestStages
      <4>4. link[got[r]] = "up" /\ got[r] \in Conns /\ r \in Commands
        BY <1>t, <4>3 DEF SendCommand, Flow, Online, TypeOK, Commands
      <4>5. toAgent' = [toAgent EXCEPT ![got[r]] = Append(@, r)]
        BY <1>t, <4>1, <4>3, <4>4
           DEF SendCommand, Send, Undispatched, Http, TypeOK
      <4>6. toAgent \in [Conns -> Seq(Commands)]
        BY DEF TypeInv, Wired
      <4>7. InWire(r, toAgent'[got[r]])
        <5> DEFINE s == toAgent[got[r]]
        <5>1. s \in Seq(Commands) /\ toAgent'[got[r]] = Append(s, r)
          BY <4>4, <4>5, <4>6
        <5> HIDE DEF s
        <5>2. InWire(r, Append(s, r))
          BY <4>4, <5>1, AppendIndex DEF InWire
        <5> QED BY <5>1, <5>2
      <4>8. Sent(r)'
        BY <4>4, <4>7 DEF Sent, InWire
      <4> QED BY <3>3, <4>8
    <3>5. CASE Sent(r)
      <4>1. ReceiveCommand /\ r = Head(toAgent[conn])
        BY <3>3, <3>5, SentStep
      <4>2. job'[r] = "running"
        BY <1>t, <4>1 DEF ReceiveCommand, TypeOK
      <4> QED BY <3>3, <4>2 DEF Doing
    <3>6. CASE Doing(r)
      <4>1. job'[r] # job[r] /\ job'[r] # "running" /\ job'[r] # "reporting"
        BY <3>3, <3>6 DEF Doing
      <4>2. SendReport(r)
        BY <1>t, <4>1, JobChange DEF Execute, Handlers!Execute, TypeOK
      <4> QED BY <3>1, <4>2, ToldStep
    <3> QED BY <3>1, <3>4, <3>5, <3>6 DEF Moving
  <2> QED BY <2>1, <2>2, <2>3
<1>4. ASSUME NEW r \in Requests, db'[r.env] = "creating", http'[r] \in InHand
      PROVE  r.op = "create"
  <2>1. CASE db[r.env] = "creating"
    <3>1. ~Settled(r.env)
      BY <1>t, <2>1, SettledMeans DEF Agreement
    <3>2. http[r] \in InHand
      BY <1>4, <3>1, HttpChange, RequestStages
    <3> QED BY <1>t, <2>1, <3>2 DEF Agreement
  <2>2. CASE db[r.env] # "creating"
    <3>1. PICK q \in Requests : /\ Begin(q) /\ q.op = "create" /\ q.env = r.env
      <4>1. \A k \in Conns :
               ReceiveMessage(k) /\ About(r.env, Head(toServer[k]))
                => Head(toServer[k]).type \in DOMAIN Status
        BY ReportApplied
      <4> QED BY <1>4, <1>s, <2>2, <4>1, RowChange
    <3>2. http[r] \notin InHand
      BY <1>b, <3>1 DEF Untried, InHand
    <3>3. \A p \in Requests \ {q} : http'[p] = http[p]
      BY <3>1, UsersSpare DEF UserStep
    <3> QED BY <1>4, <3>1, <3>2, <3>3
  <2> QED BY <2>1, <2>2
<1> QED BY <1>1, <1>2, <1>3, <1>4 DEF Agreement

LEMMA SnapshotsStep ==
  ASSUME TypeInv, OrderlyUse, UseInv, [Next]_vars
  PROVE  Snapshots'
<1> USE RequestsAssumption, BoundsAssumption
<1>t. /\ TypeOK /\ Lines /\ Uplink /\ Flow /\ Snapshots
      /\ toServer \in [Conns -> Seq(Messages)]
      /\ NoConn \notin Conns
  BY DEF TypeInv, Wired, UseInv, NoConn, Conns
<1>1. ASSUME conn' # NoConn, phase' = "announce", NEW e \in Envs
      PROVE  e \in listed' <=> box'[e] = "running"
  <2>1. CASE ListRunning
    BY <2>1, OrderlyFaults DEF ListRunning
  <2>2. CASE ~ListRunning
    <3>1. AgentStep => UNCHANGED <<conn, phase, listed, box>>
      BY <1>1, <2>2 DEF AgentStep, Connect, ReceiveFirst, Announce, Beat,
                        ReceiveCommand, Disconnect, agent
    <3>2. \A r \in Requests : JobStep(r) => UNCHANGED <<conn, phase, listed>>
      BY JobsSpare
    <3>3. \A r \in Requests : UserStep(r) => UNCHANGED <<conn, phase, listed>>
      BY UsersSpare DEF agent
    <3>4. \A k \in Conns : Accept(k) \/ Serve(k) \/ Break(k)
             => UNCHANGED <<conn, phase, listed>>
      BY ServerSpares DEF agent
    <3>5. \A x \in Envs : ContainerDies(x) => UNCHANGED <<conn, phase, listed>>
      BY DEF ContainerDies
    <3>6. ~AgentRestarts /\ ~ControlPlaneRestarts
      BY OrderlyFaults DEF AgentRestarts, ControlPlaneRestarts
    <3>7. UNCHANGED vars => UNCHANGED <<conn, phase, listed>>
      BY DEF vars, agent
    <3>8. UNCHANGED <<conn, phase, listed>>
      BY <3>1, <3>2, <3>3, <3>4, <3>5, <3>6, <3>7 DEF Next
    <3>9. \A r \in Requests : ~Execute(r)
      BY <1>t, <1>1, <3>8 DEF Execute, Handlers!Execute, Flow, Doing
    <3>10. ~ContainerDies(e)
      BY <1>1, <3>8 DEF ContainerDies
    <3>11. box'[e] = box[e]
      BY <3>9, <3>10, BoxChange
    <3> QED BY <1>t, <1>1, <3>8, <3>11 DEF Snapshots
  <2> QED BY <2>1, <2>2
<1>2. ASSUME NEW k \in Conns, NEW i \in DOMAIN toServer'[k], NEW e \in Envs,
             toServer'[k][i].type = "snapshot", Plain(e)'
      PROVE  /\ box'[e] = "running" => e \in toServer'[k][i].running
             /\ link'[k] = "up" /\ e \in toServer'[k][i].running
                  => box'[e] = "running"
  <2>1. CASE \E j \in DOMAIN toServer[k] : toServer[k][j] = toServer'[k][i]
    <3>1. PICK j \in DOMAIN toServer[k] : toServer[k][j] = toServer'[k][i]
      BY <2>1
    <3>2. srv[k] = "serving"
      BY <1>t, <1>2, <3>1 DEF Uplink
    <3>3. Plain(e)
      BY <1>2, <3>1, PlainStep, ReportApplied
    <3>4. /\ box[e] = "running" => e \in toServer'[k][i].running
          /\ link[k] = "up" /\ e \in toServer'[k][i].running
               => box[e] = "running"
      BY <1>t, <1>2, <3>1, <3>3 DEF Snapshots
    <3>5. link'[k] = "up" => link[k] = "up"
      <4>1. link[k] # "none"
        BY <1>t, <3>2 DEF Lines
      <4>2. \A r \in Requests : UserStep(r) \/ JobStep(r) => UNCHANGED link
        BY UsersSpare, JobsSpare
      <4>3. AgentStep => UNCHANGED link \/ link'[k] = link[k]
        BY <1>t, <4>1 DEF AgentStep, Connect, ReceiveFirst, ListRunning, Announce,
                          Beat, ReceiveCommand, Disconnect, wires, TypeOK
      <4>4. \A l \in Conns : Accept(l) \/ Serve(l) \/ Break(l)
               => link'[k] = link[k] \/ link'[k] = "down"
        BY <1>t DEF Accept, RegisterStream, Refuse, Serve, Registered,
                    ReceiveMessage, MarkLost, EndStream, MarkOffline,
                    UnregisterStream, Break, wires, TypeOK
      <4>5. (\E x \in Envs : ContainerDies(x)) \/ UNCHANGED vars => UNCHANGED link
        BY DEF ContainerDies, vars, wires
      <4>6. ~AgentRestarts /\ ~ControlPlaneRestarts
        BY OrderlyFaults DEF AgentRestarts, ControlPlaneRestarts
      <4> QED BY <4>2, <4>3, <4>4, <4>5, <4>6 DEF Next
    <3>6. CASE box'[e] = box[e]
      BY <3>4, <3>5, <3>6
    <3>7. CASE ContainerDies(e)
      <4>1. conn = NoConn /\ box'[e] = "stopped" /\ UNCHANGED link
        BY <1>t, <3>7 DEF ContainerDies, wires, TypeOK
      <4>2. link[k] # "up"
        BY <1>t, <4>1 DEF Lines
      <4> QED BY <4>1, <4>2
    <3> QED BY <1>2, <3>6, <3>7, PlainStep
  <2>2. CASE Announce /\ toServer'[k][i] = Snapshot(listed)
    <3>1. e \in listed <=> box[e] = "running"
      BY <1>t, <2>2 DEF Announce, Snapshots
    <3>2. box' = box /\ Snapshot(listed).running = listed
      BY <2>2 DEF Announce, Snapshot
    <3> QED BY <2>2, <3>1, <3>2
  <2>3. ASSUME NEW r \in Requests, SendReport(r), toServer'[k][i] = Report(r)
        PROVE  FALSE
    <3>1. result[r] \in DOMAIN Status
      BY <2>3 DEF SendReport, TypeInv, Wired, TypeOK
    <3> QED BY <1>2, <2>3, <3>1 DEF Report, Status
  <2> QED BY <1>2, <2>1, <2>2, <2>3, MessageStep
<1>3. ASSUME NEW k \in Conns, NEW e \in lost'[k], Plain(e)'
      PROVE  box'[e] # "running"
  <2>0. e \in Envs
    BY <1>3, StreamTypes DEF TypeInv, TypeOK
  <2>1. CASE e \in lost[k]
    <3>1. Plain(e)
      BY <1>3, <2>0, <2>1, PlainStep, ReportApplied
    <3>2. box[e] # "running"
      BY <1>t, <2>1, <3>1 DEF Snapshots
    <3> QED BY <1>t, <1>3, <2>0, <3>2, PlainStep DEF ContainerDies, TypeOK
  <2>2. CASE e \notin lost[k]
    <3>1. ReceiveMessage(k) /\ Head(toServer[k]).type = "snapshot"
          /\ e \notin Head(toServer[k]).running
      <4>1. ~UNCHANGED lost
        BY <1>3, <2>2
      <4>2. \A r \in Requests : ~UserStep(r) /\ ~JobStep(r)
        BY <4>1, UsersSpare, JobsSpare DEF server
      <4>3. ~AgentStep /\ \A x \in Envs : ~ContainerDies(x)
        BY <4>1, AgentSpares DEF ContainerDies, server
      <4>4. ~AgentRestarts /\ ~ControlPlaneRestarts /\ ~UNCHANGED vars
        BY <4>1, OrderlyFaults DEF AgentRestarts, ControlPlaneRestarts, vars, server
      <4>5. \A l \in Conns : ~Accept(l) /\ ~Break(l)
        BY <4>1 DEF Accept, RegisterStream, Refuse, Break, server
      <4>6. PICK l \in Conns : Serve(l)
        BY <4>2, <4>3, <4>4, <4>5 DEF Next
      <4>7. ~MarkLost(l)
        <5>1. SUFFICES ASSUME MarkLost(l)
                       PROVE  FALSE
          OBVIOUS
        <5>2. PICK x \in lost[l] : lost' = [lost EXCEPT ![l] = @ \ {x}]
          BY <5>1 DEF MarkLost
        <5>3. e \in lost[k]
          BY <1>t, <1>3, <5>2 DEF TypeOK
        <5> QED BY <2>2, <5>3
      <4>8. ReceiveMessage(l)
        BY <4>1, <4>6, <4>7 DEF Serve, Registered, EndStream, MarkOffline,
                                UnregisterStream
      <4>9. /\ Head(toServer[l]).type = "snapshot"
            /\ lost' = [lost EXCEPT ![l] = Unreported(Head(toServer[l]).running)]
        BY <4>1, <4>8 DEF ReceiveMessage
      <4>10. l = k
        BY <1>t, <1>3, <2>2, <4>9 DEF TypeOK
      <4>11. e \in Unreported(Head(toServer[k]).running)
        BY <1>t, <1>3, <4>9, <4>10 DEF TypeOK
      <4> QED BY <4>8, <4>9, <4>10, <4>11 DEF Unreported
    <3>2. Head(toServer[k]) = toServer[k][1] /\ 1 \in DOMAIN toServer[k]
      <4>1. toServer[k] \in Seq(Messages) /\ toServer[k] # <<>>
        BY <1>t, <3>1 DEF ReceiveMessage
      <4> QED BY <4>1
    <3>3. UNCHANGED box
      BY <3>1 DEF ReceiveMessage, agent
    <3>4. Plain(e)
      <4>1. \A l \in Conns : ReceiveMessage(l) /\ About(e, Head(toServer[l]))
               => FALSE
        BY <2>0, <3>1, <3>2, ReportApplied
      <4> QED BY <1>3, <2>0, <4>1, PlainStep
    <3> QED BY <1>t, <2>0, <3>1, <3>2, <3>3, <3>4 DEF Snapshots
  <2> QED BY <2>1, <2>2
<1> QED BY <1>1, <1>2, <1>3 DEF Snapshots

LEMMA UseInductive ==
  ASSUME OrderlyUse
  PROVE  TypeInv /\ UseInv /\ [Next]_vars => (TypeInv /\ UseInv)'
BY StreamTypes, LinesStep, DownlinkStep, UplinkStep, FlowStep, BoxesStep,
   AgreementStep, SnapshotsStep DEF UseInv

LEMMA UseStarts == Init => TypeInv /\ UseInv
<1> SUFFICES ASSUME Init
             PROVE  TypeInv /\ UseInv
  OBVIOUS
<1>1. /\ \A k \in Conns : /\ toAgent[k] = <<>> /\ toServer[k] = <<>>
                          /\ link[k] = "none" /\ srv[k] = "none" /\ lost[k] = {}
      /\ conn = NoConn /\ NoConn \notin Conns /\ registry = NoConn
      /\ \A r \in Requests : http[r] = "idle" /\ job[r] = "none"
      /\ \A e \in Envs : db[e] = "absent" /\ box[e] = "none"
  BY DEF Init, NoConn, Conns
<1>2. \A k \in Conns : ~synced[k]
  BY Zenon DEF Init
<1>3. ~Online /\ (\A r \in Requests : ~Sent(r) /\ ~Moving(r))
      /\ \A e \in Envs : ~Told(e)
  BY <1>1 DEF Online, Sent, InWire, Moving, Doing, InHand, Told
<1>4. Lines
  BY <1>1, <1>2, <1>3 DEF Lines, Live
<1>5. Downlink /\ Uplink
  BY <1>1, <1>3 DEF Downlink, Uplink
<1>6. Flow
  BY <1>1, <1>3 DEF Flow, Doing
<1>7. Boxes
  BY <1>1, <1>3 DEF Boxes, Untried, InHand
<1>8. Agreement /\ Snapshots
  BY <1>1, <1>3, RequestsAssumption DEF Agreement, Snapshots
<1>9. TypeInv
  BY TypesStart
<1> QED BY <1>4, <1>5, <1>6, <1>7, <1>8, <1>9 DEF UseInv

LEMMA UseHolds ==
  ASSUME OrderlyUse
  PROVE  Spec => [](TypeInv /\ UseInv)
BY UseStarts, UseInductive, PTL DEF Spec

(* Reconnecting reconciles.  In orderly use, whatever a handler depends on may
   fail and whichever containers die while the agent is away: once the agent is
   connected, its snapshot dealt with and nothing about an environment under
   way, the row says "running" exactly if the container runs, and is not left
   in creation. *)
THEOREM ReconnectReconciles ==
  ASSUME OrderlyUse
  PROVE  Spec => []RowsAgree
<1>1. TypeInv /\ UseInv => RowsAgree
  <2> SUFFICES ASSUME TypeInv, UseInv, NEW e \in Envs,
                      Connected, Settled(e), db[e] # "absent"
               PROVE  /\ db[e] = "running" <=> box[e] = "running"
                      /\ db[e] # "creating"
    BY DEF RowsAgree
  <2>1. /\ TypeOK /\ Uplink /\ Agreement
    BY DEF TypeInv, UseInv
  <2>2. ~Told(e) /\ \A r \in Requests : r.env = e => ~Moving(r)
    BY <2>1, SettledMeans
  <2>3. Plain(e)
    BY <2>2 DEF Plain, Moving, Doing
  <2>4. conn \in Conns /\ phase = "up" /\ Online /\ synced[conn] /\ lost[conn] = {}
    BY <2>1 DEF Connected, TypeOK, Online
  <2>5. \A i \in DOMAIN toServer[conn] : toServer[conn][i].type # "snapshot"
    BY <2>1, <2>4 DEF Uplink
  <2>6. ~Pending(e)
    BY <2>4, <2>5 DEF Pending
  <2> QED BY <2>1, <2>2, <2>3, <2>6 DEF Agreement
<1> QED BY <1>1, UseHolds, PTL

(* A create answered with an error, because there is no agent, no key or no
   stream, leaves neither a row nor a container behind. *)
THEOREM FailedCreateClean ==
  ASSUME OrderlyUse
  PROVE  Spec => []FailedCreateLeavesNothing
<1>1. UseInv => FailedCreateLeavesNothing
  BY DEF UseInv, Boxes, FailedCreateLeavesNothing
<1> QED BY <1>1, UseHolds, PTL

-----------------------------------------------------------------------------
(***************************************************************************)
(* Each command at most once, whatever goes wrong: a command is on one     *)
(* wire in one place, and neither sent again nor in a handler's hands      *)
(* while it is there.                                                      *)
(***************************************************************************)
Alone ==
    \A j, k \in Conns : \A m \in DOMAIN toAgent[j], n \in DOMAIN toAgent[k] :
        toAgent[j][m] = toAgent[k][n] /\ toAgent[j][m] \in Requests
          => j = k /\ m = n

OnceInv ==
    /\ \A r \in Requests : http[r] # "done" => job[r] = "none" /\ ~Sent(r)
    /\ \A r \in Requests : Sent(r) => job[r] = "none"
    /\ Alone

(* A step that adds no command: each wire to the agent keeps its commands, in
   their places or one further on, or loses them. *)
Drawn(k) ==
    \E d \in {0, 1} : \A i \in DOMAIN toAgent'[k] : toAgent'[k][i] \in Requests =>
        i + d \in DOMAIN toAgent[k] /\ toAgent[k][i + d] = toAgent'[k][i]

LEMMA DrawnKeeps ==
  ASSUME TypeInv, TypeInv', Alone, \A k \in Conns : Drawn(k)
  PROVE  Alone' /\ \A r \in Requests : Sent(r)' => Sent(r)
<1>1. ASSUME NEW k \in Conns
      PROVE  \A i \in DOMAIN toAgent'[k] : i \in Int
  <2>1. toAgent'[k] \in Seq(Commands)
    BY <1>1 DEF TypeInv, Wired, Conns
  <2> QED BY <2>1
<1>2. Alone'
  <2> SUFFICES ASSUME NEW j \in Conns, NEW k \in Conns,
                      NEW m \in DOMAIN toAgent'[j], NEW n \in DOMAIN toAgent'[k],
                      toAgent'[j][m] = toAgent'[k][n], toAgent'[j][m] \in Requests
               PROVE  j = k /\ m = n
    BY DEF Alone, Conns
  <2>1. PICK d \in {0, 1} :
           \A i \in DOMAIN toAgent'[j] : toAgent'[j][i] \in Requests =>
              i + d \in DOMAIN toAgent[j] /\ toAgent[j][i + d] = toAgent'[j][i]
    BY DEF Drawn
  <2>2. PICK c \in {0, 1} :
           \A i \in DOMAIN toAgent'[k] : toAgent'[k][i] \in Requests =>
              i + c \in DOMAIN toAgent[k] /\ toAgent[k][i + c] = toAgent'[k][i]
    BY DEF Drawn
  <2>3. j = k
    BY <2>1, <2>2 DEF Alone
  <2>4. n + d \in DOMAIN toAgent[j] /\ toAgent[j][n + d] = toAgent[j][m + d]
        /\ m + d \in DOMAIN toAgent[j] /\ toAgent[j][m + d] \in Requests
    BY <2>1, <2>3
  <2>5. m + d = n + d
    BY <2>4 DEF Alone
  <2> QED BY <1>1, <2>3, <2>5
<1>3. ASSUME NEW r \in Requests, Sent(r)'
      PROVE  Sent(r)
  <2>1. PICK k \in Conns : \E i \in DOMAIN toAgent'[k] : toAgent'[k][i] = r
    BY <1>3 DEF Sent, InWire, Conns
  <2> QED BY <2>1 DEF Drawn, Sent, InWire
<1> QED BY <1>2, <1>3

(* What becomes of one wire. *)
LEMMA DrawnWire ==
  ASSUME TypeInv, NEW k \in Conns,
         \/ toAgent'[k] = toAgent[k]
         \/ toAgent'[k] = <<>>
         \/ toAgent'[k] = Append(toAgent[k], Ack)
         \/ toAgent[k] # <<>> /\ toAgent'[k] = Tail(toAgent[k])
  PROVE  Drawn(k)
<1>1. toAgent[k] \in Seq(Commands) /\ Ack \in Commands /\ Ack \notin Requests
  BY AckAssumption DEF TypeInv, Wired, Commands
<1>2. \A i \in DOMAIN toAgent[k] : i \in Nat
  BY <1>1
<1>3. CASE toAgent'[k] = toAgent[k] \/ toAgent'[k] = <<>>
  <2>1. \A i \in DOMAIN toAgent'[k] : /\ i + 0 \in DOMAIN toAgent[k]
                                      /\ toAgent[k][i + 0] = toAgent'[k][i]
    BY <1>2, <1>3
  <2> QED BY <2>1 DEF Drawn
<1>4. CASE toAgent'[k] = Append(toAgent[k], Ack)
  <2>1. \A i \in DOMAIN toAgent'[k] : toAgent'[k][i] \in Requests =>
           i + 0 \in DOMAIN toAgent[k] /\ toAgent[k][i + 0] = toAgent'[k][i]
    BY <1>1, <1>2, <1>4, AppendIndex
  <2> QED BY <2>1 DEF Drawn
<1>5. CASE toAgent[k] # <<>> /\ toAgent'[k] = Tail(toAgent[k])
  <2>1. \A i \in DOMAIN toAgent'[k] :
           i + 1 \in DOMAIN toAgent[k] /\ toAgent[k][i + 1] = toAgent'[k][i]
    BY <1>1, <1>5, TailIndex
  <2> QED BY <2>1 DEF Drawn
<1> QED BY <1>3, <1>4, <1>5

LEMMA WiresDrawn ==
  ASSUME TypeInv, [Next]_vars, \A r \in Requests : ~SendCommand(r)
  PROVE  \A k \in Conns : Drawn(k)
<1> SUFFICES ASSUME NEW k \in Conns
             PROVE  \/ toAgent'[k] = toAgent[k]
                    \/ toAgent'[k] = <<>>
                    \/ toAgent'[k] = Append(toAgent[k], Ack)
                    \/ toAgent[k] # <<>> /\ toAgent'[k] = Tail(toAgent[k])
  BY DrawnWire
<1>t. toAgent \in [Conns -> Seq(Commands)]
  BY DEF TypeInv, Wired
<1>1. ASSUME NEW r \in Requests, UserStep(r) \/ JobStep(r)
      PROVE  UNCHANGED toAgent
  BY <1>1, JobsSpare DEF UserStep, Begin, Find, Route, RemoveRow, wires
<1>2. CASE Connect \/ ListRunning \/ Announce \/ Beat
  BY <1>2 DEF Connect, ListRunning, Announce, Beat, wires
<1>3. CASE ReceiveFirst \/ ReceiveCommand
  BY <1>t, <1>3 DEF ReceiveFirst, ReceiveCommand
<1>4. CASE Disconnect
  BY <1>t, <1>4 DEF Disconnect
<1>5. ASSUME NEW j \in Conns, Accept(j) \/ (Serve(j) /\ ~Registered(j))
      PROVE  UNCHANGED toAgent
  BY <1>5 DEF Accept, RegisterStream, Refuse, Serve, ReceiveMessage, MarkLost,
              EndStream, MarkOffline, UnregisterStream, wires
<1>6. ASSUME NEW j \in Conns, Registered(j)
      PROVE  \/ toAgent'[k] = toAgent[k]
             \/ toAgent'[k] = Append(toAgent[k], Ack)
  BY <1>t, <1>6 DEF Registered, Send
<1>7. ASSUME NEW j \in Conns, Break(j)
      PROVE  toAgent'[k] = toAgent[k] \/ toAgent'[k] = <<>>
  BY <1>t, <1>7 DEF Break
<1>8. ASSUME NEW e \in Envs, ContainerDies(e)
      PROVE  UNCHANGED toAgent
  BY <1>8 DEF ContainerDies, wires
<1>9. CASE AgentRestarts \/ ControlPlaneRestarts
  BY <1>9 DEF AgentRestarts, ControlPlaneRestarts, Cut
<1>10. CASE UNCHANGED vars
  BY <1>10 DEF vars, wires
<1> QED
  BY <1>1, <1>2, <1>3, <1>4, <1>5, <1>6, <1>7, <1>8, <1>9, <1>10
     DEF Next, AgentStep

(* A command in hand that is sent is on its wire in one place. *)
LEMMA SendOnce ==
  ASSUME TypeInv, TypeInv', OnceInv, NEW r \in Requests, SendCommand(r)
  PROVE  OnceInv'
<1> USE RequestsAssumption
<1>1. /\ http[r] = "send" /\ job[r] = "none" /\ ~Sent(r)
      /\ UNCHANGED job
      /\ \A q \in Requests \ {r} : http'[q] = http[q]
      /\ \/ UNCHANGED toAgent
         \/ /\ got[r] \in Conns /\ http'[r] = "done"
            /\ toAgent' = [toAgent EXCEPT ![got[r]] = Append(@, r)]
  <2>1. /\ http[r] = "send" /\ job[r] = "none" /\ ~Sent(r)
        /\ UNCHANGED job
        /\ \A q \in Requests \ {r} : http'[q] = http[q]
    BY DEF OnceInv, SendCommand, Undispatched, Http, agent, TypeInv, TypeOK
  <2>2. \/ UNCHANGED toAgent
        \/ /\ http'[r] = "done"
           /\ toAgent' = [toAgent EXCEPT ![got[r]] = Append(@, r)]
    BY DEF SendCommand, Send, Http, TypeInv, TypeOK
  <2>3. toAgent \in [Conns -> Seq(Commands)]
    BY DEF TypeInv, Wired
  <2>4. got[r] \notin Conns
          => [toAgent EXCEPT ![got[r]] = Append(@, r)] = toAgent
    BY <2>3
  <2> QED BY <2>1, <2>2, <2>4
<1>2. CASE UNCHANGED toAgent
  <2>1. Alone' /\ \A q \in Requests : Sent(q)' <=> Sent(q)
    BY <1>2 DEF OnceInv, Alone, Sent, InWire
  <2> QED BY <1>1, <2>1 DEF OnceInv
<1>3. CASE /\ got[r] \in Conns /\ http'[r] = "done"
           /\ toAgent' = [toAgent EXCEPT ![got[r]] = Append(@, r)]
  <2> DEFINE k == got[r]
             s == toAgent[k]
  <2>1. /\ k \in Conns /\ s \in Seq(Commands) /\ r \in Commands
        /\ toAgent'[k] = Append(s, r)
        /\ \A j \in Conns \ {k} : toAgent'[j] = toAgent[j]
    BY <1>3 DEF TypeInv, Wired, Commands
  <2>2. \A j \in Conns : \A i \in DOMAIN toAgent[j] : toAgent[j][i] # r
    BY <1>1 DEF Sent, InWire
  <2> HIDE DEF k, s
  <2>3. /\ \A i \in DOMAIN toAgent'[k] :
              \/ i \in DOMAIN s /\ toAgent'[k][i] = s[i]
              \/ i = Len(s) + 1 /\ toAgent'[k][i] = r
        /\ Len(s) + 1 \notin DOMAIN s
    BY <2>1, AppendIndex
  <2>4. \A j \in Conns : \A i \in DOMAIN toAgent'[j] :
           \/ i \in DOMAIN toAgent[j] /\ toAgent'[j][i] = toAgent[j][i]
           \/ j = k /\ i = Len(s) + 1 /\ toAgent'[j][i] = r
    BY <2>1, <2>3 DEF s
  <2>5. Alone'
    <3> SUFFICES ASSUME NEW j \in Conns, NEW l \in Conns,
                        NEW m \in DOMAIN toAgent'[j], NEW n \in DOMAIN toAgent'[l],
                        toAgent'[j][m] = toAgent'[l][n],
                        toAgent'[j][m] \in Requests
                 PROVE  j = l /\ m = n
      BY DEF Alone, Conns
    <3> QED BY <2>2, <2>4 DEF OnceInv, Alone
  <2>6. \A q \in Requests \ {r} : Sent(q)' => Sent(q)
    BY <2>4 DEF Sent, InWire, Conns
  <2> QED BY <1>1, <1>3, <2>5, <2>6 DEF OnceInv
<1> QED BY <1>1, <1>2, <1>3

(* The first of its wire, once received, is on none. *)
LEMMA ReceivedOnce ==
  ASSUME TypeInv, TypeInv', Alone, ReceiveCommand,
         NEW r \in Requests, r = Head(toAgent[conn])
  PROVE  Sent(r) /\ ~Sent(r)'
<1> DEFINE s == toAgent[conn]
<1>1. /\ conn \in Conns /\ s \in Seq(Commands) /\ s # <<>>
      /\ toAgent'[conn] = Tail(s)
      /\ \A j \in Conns \ {conn} : toAgent'[j] = toAgent[j]
  BY DEF ReceiveCommand, TypeInv, TypeOK, Wired
<1>2. 1 \in DOMAIN s /\ s[1] = r
  BY <1>1, TailIndex
<1>3. Sent(r)
  BY <1>1, <1>2 DEF Sent, InWire
<1>4. \A j \in Conns : \A i \in DOMAIN toAgent[j] :
         toAgent[j][i] = r => j = conn /\ i = 1
  BY <1>1, <1>2 DEF Alone
<1>5. \A i \in DOMAIN Tail(s) : i # 0 /\ i \in Nat /\ i + 1 \in DOMAIN s
                                /\ Tail(s)[i] = s[i + 1]
  BY <1>1, TailIndex
<1>6. \A i \in DOMAIN toAgent'[conn] : toAgent'[conn][i] # r
  BY <1>1, <1>4, <1>5
<1>7. \A j \in Conns : \A i \in DOMAIN toAgent'[j] : toAgent'[j][i] # r
  BY <1>1, <1>4, <1>6
<1>8. ~ \E j \in Conns : \E i \in DOMAIN toAgent'[j] : toAgent'[j][i] = r
  BY <1>7
<1> QED BY <1>3, <1>8 DEF Sent, InWire, Conns

LEMMA OnceInductive ==
  ASSUME TypeInv, TypeInv', OnceInv, [Next]_vars
  PROVE  OnceInv'
<1> USE RequestsAssumption
<1>1. CASE \E r \in Requests : SendCommand(r)
  BY <1>1, SendOnce
<1>2. CASE \A r \in Requests : ~SendCommand(r)
  <2>1. Alone' /\ \A q \in Requests : Sent(q)' => Sent(q)
    BY <1>2, WiresDrawn, DrawnKeeps DEF OnceInv
  <2>2. ASSUME \A q \in Requests : http'[q] # "done" => http[q] # "done",
               \A q \in Requests : job[q] = "none" => job'[q] = "none"
        PROVE  OnceInv'
    BY <2>1, <2>2 DEF OnceInv
  <2>3. ASSUME NEW r \in Requests, UserStep(r)
        PROVE  OnceInv'
    <3>1. http[r] # "done" /\ UNCHANGED job
          /\ \A q \in Requests \ {r} : http'[q] = http[q]
      BY <2>3, UsersSpare
         DEF UserStep, Begin, Find, Route, SendCommand, RemoveRow, agent
    <3> QED BY <2>2, <3>1
  <2>4. ASSUME NEW r \in Requests, JobStep(r)
        PROVE  OnceInv'
    <3>1. /\ UNCHANGED http
          /\ job[r] # "none" /\ \A q \in Requests \ {r} : job'[q] = job[q]
      BY <2>4, JobsSpare
         DEF JobStep, Execute, Handlers!Execute, SendReport, users, TypeInv, TypeOK
    <3> QED BY <2>2, <3>1
  <2>5. ASSUME ReceiveCommand
        PROVE  OnceInv'
    <3>1. /\ UNCHANGED http
          /\ Head(toAgent[conn]) \notin Requests => UNCHANGED job
          /\ \A q \in Requests : q # Head(toAgent[conn]) => job'[q] = job[q]
      BY <2>5 DEF ReceiveCommand, users, TypeInv, TypeOK
    <3>2. CASE Head(toAgent[conn]) \notin Requests
      BY <2>2, <3>1, <3>2
    <3>3. ASSUME NEW r \in Requests, r = Head(toAgent[conn])
          PROVE  OnceInv'
      <4>1. Sent(r) /\ ~Sent(r)' /\ http[r] = "done"
        BY <2>5, <3>3, ReceivedOnce DEF OnceInv
      <4> QED BY <2>1, <3>1, <3>3, <4>1 DEF OnceInv
    <3> QED BY <3>2, <3>3
  <2>6. ASSUME AgentStep, ~ReceiveCommand
        PROVE  OnceInv'
    <3>1. UNCHANGED <<http, job>>
      BY <2>6 DEF AgentStep, Connect, ReceiveFirst, ListRunning, Announce, Beat,
                  Disconnect, agent, users
    <3> QED BY <2>2, <3>1
  <2>7. ASSUME NEW k \in Conns, Accept(k) \/ Serve(k) \/ Break(k)
        PROVE  OnceInv'
    BY <2>2, <2>7, ServerSpares DEF agent, users
  <2>8. ASSUME NEW e \in Envs, ContainerDies(e)
        PROVE  OnceInv'
    BY <2>2, <2>8 DEF ContainerDies, users
  <2>9. CASE AgentRestarts
    BY <2>2, <2>9 DEF AgentRestarts, users
  <2>10. CASE ControlPlaneRestarts
    BY <2>2, <2>10 DEF ControlPlaneRestarts, InHand, agent
  <2>11. CASE UNCHANGED vars
    BY <2>2, <2>11 DEF vars, users, agent
  <2> QED BY <2>3, <2>4, <2>5, <2>6, <2>7, <2>8, <2>9, <2>10, <2>11 DEF Next
<1> QED BY <1>1, <1>2

(* Lost, delayed and overtaken messages, reconnections and restarts of either
   side notwithstanding, the agent runs each command's handler at most once, its
   effect and its report are one of those EnvHandlers allows, and nothing else
   touches a container: runOnce starts one handler per command received
   (agent.go), and EnvsDispatcher sends each once (stream.go). *)
THEOREM HandlersRunOnce == Spec => HandlersSpec
<1>1. Init => Handlers!Init /\ OnceInv
  <2> SUFFICES ASSUME Init
               PROVE  Handlers!Init /\ OnceInv
    OBVIOUS
  <2>1. \A k \in Conns : toAgent[k] = <<>>
    BY DEF Init
  <2>2. Alone /\ \A r \in Requests : ~Sent(r)
    BY <2>1 DEF Alone, Sent, InWire
  <2> QED BY <2>2 DEF Init, Handlers!Init, OnceInv
<1>2. TypeInv /\ OnceInv /\ [Next]_vars
        => [Handlers!Next]_<<box, job, result>>
  <2> SUFFICES ASSUME TypeInv, TypeInv', OnceInv, [Next]_vars
               PROVE  Handlers!Next \/ UNCHANGED <<box, job, result>>
    BY StreamTypes
  <2>1. ASSUME NEW r \in Requests, Execute(r)
        PROVE  Handlers!Next
    BY <2>1 DEF Execute, Handlers!Next
  <2>2. ASSUME NEW r \in Requests, SendReport(r)
        PROVE  Handlers!Next
    BY <2>2 DEF SendReport, Handlers!Report, Handlers!Next
  <2>3. ASSUME ReceiveCommand
        PROVE  Handlers!Next \/ UNCHANGED <<box, job, result>>
    <3> DEFINE r == Head(toAgent[conn])
    <3>1. UNCHANGED <<box, result>>
      BY <2>3 DEF ReceiveCommand
    <3>2. CASE r \notin Requests
      BY <2>3, <3>1, <3>2 DEF ReceiveCommand
    <3>3. CASE r \in Requests
      <4>1. job[r] = "none"
        BY <2>3, <3>3, ReceivedOnce DEF OnceInv
      <4>2. job' = [job EXCEPT ![r] = "running"]
        BY <2>3, <3>3 DEF ReceiveCommand
      <4>3. Handlers!Receive(r)
        BY <3>1, <4>1, <4>2 DEF Handlers!Receive
      <4> QED BY <3>3, <4>3 DEF Handlers!Next
    <3> QED BY <3>2, <3>3
  <2>4. ASSUME AgentStep, ~ReceiveCommand
        PROVE  UNCHANGED <<box, job, result>>
    BY <2>4 DEF AgentStep, Connect, ReceiveFirst, ListRunning, Announce, Beat,
                Disconnect, agent
  <2>5. ASSUME NEW e \in Envs, ContainerDies(e)
        PROVE  Handlers!Next
    BY <2>5 DEF ContainerDies, Handlers!ContainerDies, Handlers!Next
  <2>6. CASE AgentRestarts
    BY <2>6 DEF AgentRestarts, Handlers!AgentRestarts, Handlers!Next
  <2>7. ASSUME NEW r \in Requests, UserStep(r)
        PROVE  UNCHANGED <<box, job, result>>
    BY <2>7, UsersSpare DEF agent
  <2>8. ASSUME NEW k \in Conns, Accept(k) \/ Serve(k) \/ Break(k)
        PROVE  UNCHANGED <<box, job, result>>
    BY <2>8, ServerSpares DEF agent
  <2>9. CASE ControlPlaneRestarts \/ UNCHANGED vars
    BY <2>9 DEF ControlPlaneRestarts, vars, agent
  <2> QED BY <2>1, <2>2, <2>3, <2>4, <2>5, <2>6, <2>7, <2>8, <2>9
          DEF Next, JobStep
<1>3. TypeInv /\ TypeInv' /\ OnceInv /\ [Next]_vars => OnceInv'
  BY OnceInductive
<1> QED BY <1>1, <1>2, <1>3, TypesStart, StreamTypes, PTL
        DEF Spec, HandlersSpec, Handlers!Spec
=============================================================================
