-------------------------- MODULE DeviceLoginProofs --------------------------
(***************************************************************************)
(* For any number of machines, keys, commands and faults: what a completed *)
(* login has set up stays until the machine logs out, and a logout that    *)
(* meets no failure removes all of it.  Both need the machines of a user   *)
(* to have device names of their own, which nothing in the code sees to:   *)
(* logout finds row and nodes by name, whatever machine made them.  And    *)
(* the ssh config: the block is in it, whole and once, when login says so, *)
(* and no word of the user's is lost.                                      *)
(***************************************************************************)
EXTENDS DeviceLogin, SequenceTheorems, WellFoundedInduction, TLAPS

NamesDisjoint == \A l, m \in Machines : l # m => NamesOf[l] \cap NamesOf[m] = {}

(* TypeOK in two halves: the commands, and what they work on. *)
Places == LoggingIn \cup LoggingOut \cup {"idle"}

CommandVars == [name : Names \cup {None}, known : SUBSET Keys, dev : Ids \cup {None},
                seen : SUBSET [id : Ids, name : Names], ok : BOOLEAN]

Fits(m, p, c) ==
    /\ p \in Places /\ c \in CommandVars
    /\ p \in LoggingIn => c.name \in NamesOf[m]
    /\ p \in Deleting => c.name # None /\ c.dev # None

Running ==
    /\ pc \in [Machines -> Places] /\ cmd \in [Machines -> CommandVars]
    /\ \A m \in Machines : Fits(m, pc[m], cmd[m])

Stored ==
    /\ rows \in [Names -> Ids \cup {None}]
    /\ nodes \subseteq [id : Ids, name : Names]
    /\ keys \subseteq Keys
    /\ config \in [Machines -> Names \cup {Torn, None}]
    /\ state \in [Machines -> Ids \cup {None}]
    /\ count \in [Machines -> Nat] /\ \A m \in Machines : count[m] <= Commands[m]
    /\ session \in [Machines -> {"in", "leaving", "out"}]

LEMMA TypeHalves == TypeOK <=> Running /\ Stored
BY DEF TypeOK, Running, Stored, Fits, Places, CommandVars

(* A step of one command leaves the others alone. *)
LEMMA Moved ==
  ASSUME Running, NEW m \in Machines, NEW p, NEW c, Fits(m, p, c), Set(m, p, c)
  PROVE  /\ Running'
         /\ pc'[m] = p /\ cmd'[m] = c
         /\ \A l \in Machines : l # m => pc'[l] = pc[l] /\ cmd'[l] = cmd[l]
BY DEF Running, Fits, Set, Goto

LEMMA MovedOn ==
  ASSUME Running, NEW m \in Machines, NEW p, Fits(m, p, cmd[m]), Then(m, p)
  PROVE  /\ Running'
         /\ pc'[m] = p /\ cmd'[m] = cmd[m]
         /\ \A l \in Machines : l # m => pc'[l] = pc[l] /\ cmd'[l] = cmd[l]
BY DEF Running, Fits, Then, Goto

(* The assignments to a command's variables. *)
LEMMA Assigned ==
  ASSUME NEW c \in CommandVars
  PROVE  /\ \A n \in Names \cup {None} :
                /\ [c EXCEPT !.name = n] \in CommandVars
                /\ [c EXCEPT !.name = n].name = n
                /\ [c EXCEPT !.name = n].dev = c.dev
                /\ [c EXCEPT !.name = n].seen = c.seen
         /\ \A k \in SUBSET Keys :
                /\ [c EXCEPT !.known = k] \in CommandVars
                /\ [c EXCEPT !.known = k].name = c.name
                /\ [c EXCEPT !.known = k].seen = c.seen
         /\ \A d \in Ids \cup {None} :
                /\ [c EXCEPT !.dev = d] \in CommandVars
                /\ [c EXCEPT !.dev = d].name = c.name
                /\ [c EXCEPT !.dev = d].dev = d
                /\ [c EXCEPT !.dev = d].seen = c.seen
         /\ [c EXCEPT !.ok = FALSE] \in CommandVars
         /\ [c EXCEPT !.ok = FALSE].name = c.name
         /\ [c EXCEPT !.ok = FALSE].dev = c.dev
         /\ [c EXCEPT !.ok = FALSE].seen = c.seen
         /\ [c EXCEPT !.ok = FALSE].ok = FALSE
BY DEF CommandVars

LEMMA SeenAssigned ==
  ASSUME NEW c \in CommandVars, NEW x \in SUBSET [id : Ids, name : Names]
  PROVE  /\ [c EXCEPT !.seen = x] \in CommandVars
         /\ [c EXCEPT !.seen = x].name = c.name
         /\ [c EXCEPT !.seen = x].dev = c.dev
         /\ [c EXCEPT !.seen = x].seen = x
         /\ [c EXCEPT !.seen = x].ok = c.ok
BY DEF CommandVars

LEMMA FreshFits ==
  /\ Fresh \in CommandVars
  /\ Fresh.name = None /\ Fresh.dev = None /\ Fresh.seen = {} /\ Fresh.ok = TRUE
  /\ \A m \in Machines : Fits(m, "idle", Fresh)
BY DEF Fresh, CommandVars, Fits, Places, LoggingIn, LoggingOut, Uploading, Deleting

LEMMA TypeInit == Init => TypeOK
<1> SUFFICES ASSUME Init PROVE Running /\ Stored
  BY TypeHalves
<1>1. Running
  BY FreshFits DEF Init, Running, Places
<1>2. Stored
  BY CommandsAssumption DEF Init, Stored
<1> QED BY <1>1, <1>2

LEMMA RunningInductive == TypeOK /\ [Next]_vars => Running'
<1> SUFFICES ASSUME TypeOK, [Next]_vars
             PROVE  Running'
  OBVIOUS
<1>0. Running /\ Stored
  BY TypeHalves
<1>a. ASSUME NEW m \in Machines
      PROVE  /\ cmd[m] \in CommandVars /\ Fits(m, pc[m], cmd[m])
             /\ NamesOf[m] \subseteq Names
  BY <1>0, NamesOfAssumption DEF Running
<1>c. ASSUME NEW m \in Machines
      PROVE  /\ Warned(m) \in CommandVars /\ Warned(m).seen = cmd[m].seen
             /\ Warned(m).name = cmd[m].name /\ Warned(m).dev = cmd[m].dev
  BY <1>a, Assigned DEF Warned
<1>b. ASSUME NEW m \in Machines, Exit(m)
      PROVE  Running'
  BY <1>0, <1>b, FreshFits, Moved DEF Exit
<1> USE DEF Places, LoggingIn, LoggingOut, Uploading, Deleting
<1>1. ASSUME NEW m \in Machines, Login(m)
      PROVE  Running'
  <2>1. PICK n \in NamesOf[m] : Set(m, "list keys", [Fresh EXCEPT !.name = n])
    BY <1>1 DEF Login
  <2>2. [Fresh EXCEPT !.name = n] \in CommandVars /\ [Fresh EXCEPT !.name = n].name = n
    BY <1>a DEF Fresh, CommandVars
  <2>3. Fits(m, "list keys", [Fresh EXCEPT !.name = n])
    BY <2>2 DEF Fits
  <2> QED BY <1>0, <2>1, <2>3, Moved
<1>2. ASSUME NEW m \in Machines, ListSSHKeys(m)
      PROVE  Running'
  <2>1. /\ [cmd[m] EXCEPT !.known = keys] \in CommandVars
        /\ [cmd[m] EXCEPT !.known = keys].name = cmd[m].name
    BY <1>0, <1>a, Assigned DEF Stored
  <2>2. /\ Fits(m, "add key", [cmd[m] EXCEPT !.known = keys])
        /\ Fits(m, "pair", Warned(m))
    BY <1>2, <1>a, <1>c, <2>1 DEF ListSSHKeys, Fits
  <2> QED BY <1>0, <1>2, <2>2, Moved DEF ListSSHKeys
<1>3. ASSUME NEW m \in Machines, AddSSHKey(m)
      PROVE  Running'
  <2>1. PICK i \in Missing(m) :
            \/ Set(m, "add key", [cmd[m] EXCEPT !.known = @ \cup {KeysOf[m][i]}])
            \/ Set(m, "pair", Warned(m))
    BY <1>3 DEF AddSSHKey
  <2>2. cmd[m].known \cup {KeysOf[m][i]} \in SUBSET Keys
    BY <1>a, KeysOfAssumption DEF CommandVars, Missing
  <2>3. /\ [cmd[m] EXCEPT !.known = @ \cup {KeysOf[m][i]}] \in CommandVars
        /\ [cmd[m] EXCEPT !.known = @ \cup {KeysOf[m][i]}].name = cmd[m].name
    BY <1>a, <2>2, Assigned
  <2>4. /\ Fits(m, "add key", [cmd[m] EXCEPT !.known = @ \cup {KeysOf[m][i]}])
        /\ Fits(m, "pair", Warned(m))
    BY <1>3, <1>a, <1>c, <2>3 DEF AddSSHKey, Fits
  <2> QED BY <1>0, <2>1, <2>4, Moved
<1>4. ASSUME NEW m \in Machines, KeysUploaded(m) \/ UpsertDevice(m)
      PROVE  Running'
  <2>1. Fits(m, "pair", cmd[m]) /\ Fits(m, "preauth key", cmd[m])
    BY <1>4, <1>a DEF KeysUploaded, UpsertDevice, Fits
  <2> QED BY <1>0, <1>4, <2>1, MovedOn DEF KeysUploaded, UpsertDevice
<1>5. ASSUME NEW m \in Machines, CreatePreAuthKey(m) \/ PairDeviceFails(m)
      PROVE  Running'
  <2>1. CreatePreAuthKey(m) => Fits(m, "join", cmd[m])
    BY <1>a DEF CreatePreAuthKey, Fits
  <2> QED BY <1>0, <1>5, <1>b, <2>1, MovedOn DEF CreatePreAuthKey, PairDeviceFails
<1>6. ASSUME NEW m \in Machines, Join(m) \/ UpsertSSHConfig(m) \/ Persist(m)
      PROVE  Running'
  <2>1. /\ Join(m) => Fits(m, "upsert", cmd[m])
        /\ UpsertSSHConfig(m) => Fits(m, "write config", cmd[m])
    BY <1>a DEF Join, UpsertSSHConfig, Fits
  <2> QED BY <1>0, <1>6, <1>b, <2>1, MovedOn DEF Join, UpsertSSHConfig, WriteFile, WriteFails, Persist
<1>7. ASSUME NEW m \in Machines, Logout(m)
      PROVE  Running'
  <2>1. ReadClientConfig(m) \in Names \cup {None}
    BY <1>0 DEF ReadClientConfig, Stored
  <2>2. Fits(m, "list", [Fresh EXCEPT !.name = ReadClientConfig(m)])
    BY <2>1, FreshFits, Assigned DEF Fits
  <2> QED BY <1>0, <1>7, <2>2, Moved DEF Logout
<1>8. ASSUME NEW m \in Machines, ListDevices(m)
      PROVE  Running'
  <2>1. Fits(m, "remove state", cmd[m]) /\ Fits(m, "remove state", Warned(m))
    BY <1>a, Assigned DEF Fits, Warned
  <2>2. CASE /\ cmd[m].name # None /\ rows[cmd[m].name] # None
             /\ Set(m, "lookup", [cmd[m] EXCEPT !.dev = rows[cmd[m].name]])
    <3>1. rows[cmd[m].name] \in Ids \cup {None}
      BY <1>0, <1>a, <2>2 DEF Stored, CommandVars
    <3>2. Fits(m, "lookup", [cmd[m] EXCEPT !.dev = rows[cmd[m].name]])
      BY <1>a, <2>2, <3>1, Assigned DEF Fits
    <3> QED BY <1>0, <2>2, <3>2, Moved
  <2> QED BY <1>0, <1>8, <2>1, <2>2, Moved, MovedOn DEF ListDevices
<1>9. ASSUME NEW m \in Machines, ByID(m)
      PROVE  Running'
  <2>1. Fits(m, "remove state", cmd[m]) /\ Fits(m, "list nodes", cmd[m])
    BY <1>9, <1>a DEF ByID, Fits
  <2> QED BY <1>0, <1>9, <2>1, MovedOn DEF ByID
<1>10. ASSUME NEW m \in Machines, ListNodes(m)
       PROVE  Running'
  <2>1. Matching(m) \in SUBSET [id : Ids, name : Names]
    BY <1>0 DEF Matching, Stored
  <2>2. /\ [cmd[m] EXCEPT !.seen = Matching(m)] \in CommandVars
        /\ [cmd[m] EXCEPT !.seen = Matching(m)].name = cmd[m].name
        /\ [cmd[m] EXCEPT !.seen = Matching(m)].dev = cmd[m].dev
    BY <1>a, <2>1, SeenAssigned
  <2>3. /\ Fits(m, "delete node", [cmd[m] EXCEPT !.seen = Matching(m)])
        /\ Fits(m, "delete node", Warned(m))
    BY <1>10, <1>a, <1>c, <2>2 DEF ListNodes, Fits
  <2> QED BY <1>0, <1>10, <2>3, Moved DEF ListNodes
<1>11. ASSUME NEW m \in Machines, DeleteNode(m)
       PROVE  Running'
  <2>1. PICK x \in cmd[m].seen :
            \/ Set(m, "delete node", [cmd[m] EXCEPT !.seen = @ \ {x}])
            \/ Set(m, "delete node", [Warned(m) EXCEPT !.seen = @ \ {x}])
    BY <1>11 DEF DeleteNode
  <2>2. /\ cmd[m].seen \ {x} \in SUBSET [id : Ids, name : Names]
        /\ Warned(m).seen \ {x} \in SUBSET [id : Ids, name : Names]
    BY <1>a, <1>c DEF CommandVars
  <2>a. /\ [cmd[m] EXCEPT !.seen = @ \ {x}] \in CommandVars
        /\ [cmd[m] EXCEPT !.seen = @ \ {x}].name = cmd[m].name
        /\ [cmd[m] EXCEPT !.seen = @ \ {x}].dev = cmd[m].dev
    BY <1>a, <2>2, SeenAssigned
  <2>b. /\ [Warned(m) EXCEPT !.seen = @ \ {x}] \in CommandVars
        /\ [Warned(m) EXCEPT !.seen = @ \ {x}].name = cmd[m].name
        /\ [Warned(m) EXCEPT !.seen = @ \ {x}].dev = cmd[m].dev
    BY <1>a, <2>2 DEF CommandVars, Warned
  <2>3. /\ Fits(m, "delete node", [cmd[m] EXCEPT !.seen = @ \ {x}])
        /\ Fits(m, "delete node", [Warned(m) EXCEPT !.seen = @ \ {x}])
    BY <1>11, <1>a, <2>a, <2>b DEF DeleteNode, Fits
  <2> QED BY <1>0, <2>1, <2>3, Moved
<1>12. ASSUME NEW m \in Machines, DeleteDevice(m) \/ DeleteDeviceFails(m)
       PROVE  Running'
  <2>1. Fits(m, "remove state", cmd[m]) /\ Fits(m, "remove state", Warned(m))
    BY <1>a, Assigned DEF Fits, Warned
  <2> QED BY <1>0, <1>12, <2>1, Moved, MovedOn DEF DeleteDevice, DeleteDeviceFails
<1>13. ASSUME NEW m \in Machines, RemoveState(m) \/ RemoveSSHConfigBlock(m) \/ RemoveConfig(m)
       PROVE  Running'
  <2>1. Fits(m, "remove block", cmd[m]) /\ Fits(m, "remove config", cmd[m])
    BY <1>a DEF Fits
  <2> QED BY <1>0, <1>13, <1>b, <2>1, MovedOn
          DEF RemoveState, RemoveSSHConfigBlock, RemoveConfig, WriteFile, WriteFails
<1>14. ASSUME NEW m \in Machines, Kill(m)
       PROVE  Running'
  BY <1>14, <1>b DEF Kill
<1>15. ASSUME UNCHANGED <<pc, cmd>>
       PROVE  Running'
  BY <1>0, <1>15 DEF Running, Fits
<1> QED BY <1>1, <1>2, <1>3, <1>4, <1>5, <1>6, <1>7, <1>8, <1>9, <1>10, <1>11, <1>12,
           <1>13, <1>14, <1>15
        DEF Next, LoginStep, LogoutStep, Edit, KeyAdd, KeyRm, vars

LEMMA StoredInductive == TypeOK /\ [Next]_vars => Stored'
<1> SUFFICES ASSUME TypeOK, [Next]_vars
             PROVE  Stored'
  OBVIOUS
<1>0. Running /\ Stored
  BY TypeHalves
<1>a. ASSUME NEW m \in Machines
      PROVE  <<m, count[m]>> \in Ids /\ (pc[m] \in LoggingIn => cmd[m].name \in Names)
  BY <1>0, CommandsAssumption, NamesOfAssumption DEF Stored, Ids, Running, Fits
<1> USE DEF server, files
<1>1. ASSUME NEW m \in Machines, Login(m) \/ Logout(m)
      PROVE  Stored'
  <2>1. count' = [count EXCEPT ![m] = @ + 1] /\ count[m] < Commands[m]
    BY <1>1 DEF Login, Logout
  <2>2. count' \in [Machines -> Nat] /\ \A l \in Machines : count'[l] <= Commands[l]
    <3>a. count[m] \in Nat /\ Commands[m] \in Nat
      BY <1>0, CommandsAssumption DEF Stored
    <3>1. count[m] + 1 \in Nat /\ count[m] + 1 <= Commands[m]
      BY <2>1, <3>a
    <3>2. \A l \in Machines : count'[l] = IF l = m THEN count[m] + 1 ELSE count[l]
      BY <1>0, <2>1 DEF Stored
    <3>3. count' \in [Machines -> Nat]
      BY <1>0, <2>1, <3>1 DEF Stored
    <3> QED BY <1>0, <3>1, <3>2, <3>3 DEF Stored
  <2> QED BY <1>0, <1>1, <2>2 DEF Login, Logout, Stored
<1>2. ASSUME NEW m \in Machines, AddSSHKey(m)
      PROVE  Stored'
  <2>1. \A i \in Missing(m) : KeysOf[m][i] \in Keys
    BY KeysOfAssumption DEF Missing
  <2>2. PICK i \in Missing(m) : keys' = keys \cup {KeysOf[m][i]} \/ keys' = keys
    BY <1>2 DEF AddSSHKey, Insert, Duplicate
  <2> QED BY <1>0, <1>2, <2>1, <2>2 DEF AddSSHKey, Stored
<1>3. ASSUME NEW m \in Machines, UpsertDevice(m) \/ DeleteDevice(m)
      PROVE  Stored'
  BY <1>0, <1>3, <1>a DEF UpsertDevice, DeleteDevice, Stored
<1>4. ASSUME NEW m \in Machines, Join(m)
      PROVE  Stored'
  <2>1. CASE Register(m)
    <3>1. (IF \E x \in nodes : x.id = state[m] THEN state[m] ELSE <<m, count[m]>>) \in Ids
      BY <1>0, <1>a DEF Stored
    <3>2. cmd[m].name \in Names
      BY <1>4, <1>a DEF Join, LoggingIn
    <3> QED BY <1>0, <1>4, <2>1, <3>1, <3>2 DEF Join, Register, Stored
  <2>2. CASE UNCHANGED <<nodes, state>>
    BY <1>0, <1>4, <2>2 DEF Join, Stored
  <2> QED BY <1>4, <2>1, <2>2 DEF Join, StartFails
<1>5. ASSUME NEW m \in Machines, Persist(m) \/ RemoveConfig(m)
      PROVE  Stored'
  BY <1>0, <1>5, <1>a DEF Persist, WriteClientConfig, RemoveConfig, Stored, LoggingIn
<1>6. ASSUME NEW m \in Machines, DeleteNode(m) \/ RemoveState(m)
      PROVE  Stored'
  BY <1>0, <1>6 DEF DeleteNode, RemoveState, Stored
<1>7. ASSUME NEW m \in Machines, NEW k \in Keys, KeyAdd(m, k) \/ KeyRm(m, k)
      PROVE  Stored'
  BY <1>0, <1>7 DEF KeyAdd, KeyRm, Insert, Stored
<1>8. ASSUME UNCHANGED <<rows, nodes, keys, config, state, count, session>>
      PROVE  Stored'
  BY <1>0, <1>8 DEF Stored
<1> QED BY <1>1, <1>2, <1>3, <1>4, <1>5, <1>6, <1>7, <1>8
        DEF Next, LoginStep, LogoutStep, ListSSHKeys, KeysUploaded, CreatePreAuthKey,
            PairDeviceFails, UpsertSSHConfig, ListDevices, ByID, ListNodes,
            DeleteDeviceFails, RemoveSSHConfigBlock, Kill, Edit, vars

LEMMA TypeInductive == TypeOK /\ [Next]_vars => TypeOK'
<1>1. TypeOK' <=> Running' /\ Stored'
  BY DEF TypeOK, Running, Stored, Fits, Places, CommandVars
<1> QED BY <1>1, RunningInductive, StoredInductive

(* Every command is at one of its steps with the variables that step needs: a
   login has a name of its machine, and Delete only runs for a device that was
   found. *)
THEOREM LoginTypes == Spec => []TypeOK
BY TypeInit, TypeInductive, PTL DEF Spec

-----------------------------------------------------------------------------
(* What belongs to a machine: the names it uses, its nodes, its tsnet state. *)
Owned(m) ==
    /\ config[m] \in NamesOf[m] \cup {Torn, None}
    /\ cmd[m].name \in NamesOf[m] \cup {None}
    /\ cmd[m].dev # None => cmd[m].name # None
    /\ state[m] # None => state[m][1] = m
    /\ \A x \in cmd[m].seen : x.id[1] = m

NodesOwned == \A x \in nodes : x.name \in NamesOf[x.id[1]]

(* What a login has set up by the step it is at, and what a completed one has. *)
Paired == {"preauth key", "join", "upsert", "write config"}
Joined == {"upsert", "write config"}

Kept(m) ==
    /\ pc[m] \in LoggingOut => session[m] # "in"
    /\ pc[m] \in Paired => rows[cmd[m].name] # None
    /\ pc[m] \in Joined => \E x \in nodes : x.id = state[m]
    /\ session[m] = "in" /\ config[m] \in Names =>
           (\E x \in nodes : x.id = state[m]) /\ rows[config[m]] # None

(* What a logout has removed by the step it is at. *)
Removing == {"remove state", "remove block", "remove config"}

Cleared(m) ==
    /\ pc[m] = "list" => cmd[m].dev = None
    /\ pc[m] \in Deleting => rows[cmd[m].name] = cmd[m].dev
    /\ pc[m] = "delete node" /\ cmd[m].ok => Matching(m) \subseteq cmd[m].seen
    /\ pc[m] \in Removing /\ cmd[m].ok /\ cmd[m].dev # None =>
           rows[cmd[m].name] = None /\ Matching(m) = {}

LoginInv ==
    /\ TypeOK /\ NodesOwned
    /\ \A m \in Machines : Owned(m) /\ Kept(m) /\ Cleared(m)

(* The steps of one machine. *)
Step(m) ==
    \/ Login(m) \/ LoginStep(m) \/ Logout(m) \/ LogoutStep(m) \/ Kill(m) \/ Edit(m)
    \/ \E k \in Keys : KeyAdd(m, k) \/ KeyRm(m, k)

(* A step of another machine changes nothing of m's: not its command and files,
   nor a row of a name of its, nor a node of its. *)
Untouched(m) ==
    /\ pc'[m] = pc[m] /\ cmd'[m] = cmd[m]
    /\ config'[m] = config[m] /\ state'[m] = state[m] /\ session'[m] = session[m]
    /\ \A n \in NamesOf[m] : rows'[n] = rows[n]
    /\ \A x : x.id[1] = m => (x \in nodes' <=> x \in nodes)

LEMMA StepOfOther ==
  ASSUME NamesDisjoint, LoginInv, NEW l \in Machines, NEW m \in Machines, l # m, Step(l)
  PROVE  Untouched(m)
<1>0. Running /\ Stored
  BY TypeHalves DEF LoginInv
<1> USE DEF server, files
<1>1. pc'[m] = pc[m] /\ cmd'[m] = cmd[m]
  <2>1. pc' = pc \/ \E p : pc' = [pc EXCEPT ![l] = p]
    BY DEF Step, LoginStep, LogoutStep, Login, ListSSHKeys, AddSSHKey, KeysUploaded,
           UpsertDevice, CreatePreAuthKey, PairDeviceFails, Join, UpsertSSHConfig,
           WriteFile, WriteFails, Persist, Logout, ListDevices, ByID, ListNodes, DeleteNode,
           DeleteDevice, DeleteDeviceFails, RemoveState, RemoveSSHConfigBlock,
           RemoveConfig, Kill, Edit, KeyAdd, KeyRm, Set, Then, Exit, Goto
  <2>2. cmd' = cmd \/ \E c : cmd' = [cmd EXCEPT ![l] = c]
    BY DEF Step, LoginStep, LogoutStep, Login, ListSSHKeys, AddSSHKey, KeysUploaded,
           UpsertDevice, CreatePreAuthKey, PairDeviceFails, Join, UpsertSSHConfig,
           WriteFile, WriteFails, Persist, Logout, ListDevices, ByID, ListNodes, DeleteNode,
           DeleteDevice, DeleteDeviceFails, RemoveState, RemoveSSHConfigBlock,
           RemoveConfig, Kill, Edit, KeyAdd, KeyRm, Set, Then, Exit
  <2> QED BY <1>0, <2>1, <2>2 DEF Running
<1>2. config'[m] = config[m] /\ state'[m] = state[m] /\ session'[m] = session[m]
  BY <1>0 DEF Step, LoginStep, LogoutStep, Login, ListSSHKeys, AddSSHKey, KeysUploaded,
           UpsertDevice, CreatePreAuthKey, PairDeviceFails, Join, Register, StartFails,
           UpsertSSHConfig, Persist, WriteClientConfig, Logout, ListDevices, ByID,
           ListNodes, DeleteNode, DeleteDevice, DeleteDeviceFails, RemoveState,
           RemoveSSHConfigBlock, RemoveConfig, Kill, Edit, KeyAdd, KeyRm, Stored
<1>3. \A n \in NamesOf[m] : rows'[n] = rows[n]
  <2>1. rows' = rows \/ (cmd[l].name \in NamesOf[l] /\ \E r : rows' = [rows EXCEPT ![cmd[l].name] = r])
    <3>1. CASE UpsertDevice(l) \/ DeleteDevice(l)
      <4>1. cmd[l].name \in NamesOf[l]
        BY <1>0, <3>1 DEF UpsertDevice, DeleteDevice, Running, Fits, LoggingIn, Deleting,
                          LoginInv, Owned
      <4> QED BY <3>1, <4>1 DEF UpsertDevice, DeleteDevice
    <3> QED
      BY <3>1 DEF Step, LoginStep, LogoutStep, Login, ListSSHKeys, AddSSHKey, KeysUploaded,
           CreatePreAuthKey, PairDeviceFails, Join, UpsertSSHConfig, Persist, Logout,
           ListDevices, ByID, ListNodes, DeleteNode, DeleteDeviceFails, RemoveState,
           RemoveSSHConfigBlock, RemoveConfig, Kill, Edit, KeyAdd, KeyRm
  <2> QED BY <1>0, <2>1, NamesOfAssumption DEF Stored, NamesDisjoint
<1>4. \A x : x.id[1] = m => (x \in nodes' <=> x \in nodes)
  <2>1. CASE Join(l)
    <3>1. CASE Register(l)
      <4>1. PICK new : /\ new[1] = l
                       /\ nodes' = {x \in nodes : x.id # new} \cup {[id |-> new, name |-> cmd[l].name]}
        <5>1. (IF \E x \in nodes : x.id = state[l] THEN state[l] ELSE <<l, count[l]>>)[1] = l
          BY <1>0, NoneAssumption DEF LoginInv, Owned, Stored, Ids
        <5> QED BY <3>1, <5>1 DEF Register
      <4> QED BY <4>1
    <3> QED BY <2>1, <3>1 DEF Join, StartFails
  <2>2. CASE DeleteNode(l)
    <3>1. PICK x \in cmd[l].seen : nodes' = nodes \/ nodes' = {y \in nodes : y.id # x.id}
      BY <2>2 DEF DeleteNode
    <3>2. x.id[1] = l
      BY DEF LoginInv, Owned
    <3> QED BY <3>1, <3>2
  <2>3. ~Join(l) /\ ~DeleteNode(l) => nodes' = nodes
    BY DEF Step, LoginStep, LogoutStep, Login, ListSSHKeys, AddSSHKey, KeysUploaded,
           UpsertDevice, CreatePreAuthKey, PairDeviceFails, UpsertSSHConfig, Persist,
           Logout, ListDevices, ByID, ListNodes, DeleteDevice, DeleteDeviceFails,
           RemoveState, RemoveSSHConfigBlock, RemoveConfig, Kill, Edit, KeyAdd, KeyRm
  <2> QED BY <2>1, <2>2, <2>3
<1> QED BY <1>1, <1>2, <1>3, <1>4 DEF Untouched

LEMMA NodesStayOwned ==
  ASSUME LoginInv, [Next]_vars
  PROVE  NodesOwned'
<1>0. Running /\ Stored
  BY TypeHalves DEF LoginInv
<1> USE DEF server, files
<1>1. ASSUME NEW m \in Machines, Join(m)
      PROVE  NodesOwned'
  <2>1. CASE Register(m)
    <3>1. PICK new : /\ new[1] = m
                     /\ nodes' = {x \in nodes : x.id # new} \cup {[id |-> new, name |-> cmd[m].name]}
      <4>1. (IF \E x \in nodes : x.id = state[m] THEN state[m] ELSE <<m, count[m]>>)[1] = m
        BY <1>0, NoneAssumption DEF LoginInv, Owned, Stored, Ids
      <4> QED BY <2>1, <4>1 DEF Register
    <3>2. cmd[m].name \in NamesOf[m]
      BY <1>0, <1>1 DEF Join, Running, Fits, LoggingIn
    <3> QED BY <3>1, <3>2 DEF LoginInv, NodesOwned
  <2> QED BY <1>1, <2>1 DEF Join, StartFails, LoginInv, NodesOwned
<1>2. ASSUME NEW m \in Machines, DeleteNode(m)
      PROVE  NodesOwned'
  BY <1>2 DEF DeleteNode, LoginInv, NodesOwned
<1>3. CASE UNCHANGED nodes
  BY <1>3 DEF LoginInv, NodesOwned
<1> QED BY <1>1, <1>2, <1>3
        DEF Next, LoginStep, LogoutStep, Login, ListSSHKeys, AddSSHKey, KeysUploaded,
            UpsertDevice, CreatePreAuthKey, PairDeviceFails, UpsertSSHConfig, Persist,
            Logout, ListDevices, ByID, ListNodes, DeleteDevice, DeleteDeviceFails,
            RemoveState, RemoveSSHConfigBlock, RemoveConfig, Kill, Edit, KeyAdd, KeyRm, vars

(* A machine that is not touched keeps its part of the invariant. *)
LEMMA UntouchedKeeps ==
  ASSUME NamesDisjoint, LoginInv, NodesOwned', nodes' \subseteq [id : Ids, name : Names],
         NEW m \in Machines, Untouched(m)
  PROVE  Owned(m)' /\ Kept(m)' /\ Cleared(m)'
<1>0. Running /\ Stored
  BY TypeHalves DEF LoginInv
<1>1. Owned(m)'
  BY DEF Untouched, LoginInv, Owned
<1>2. cmd[m].name # None => rows'[cmd[m].name] = rows[cmd[m].name]
  BY DEF Untouched, LoginInv, Owned
<1>3. pc[m] \in Paired \cup Deleting => cmd[m].name # None
  BY <1>0, NamesOfAssumption, NoneAssumption
     DEF Running, Fits, Paired, LoggingIn, Deleting
<1>4. config[m] \in Names => rows'[config[m]] = rows[config[m]]
  BY NoneAssumption, TornAssumption DEF Untouched, LoginInv, Owned
<1>5. (\E x \in nodes : x.id = state[m]) => (\E x \in nodes' : x.id = state'[m])
  <2> SUFFICES ASSUME NEW x \in nodes, x.id = state[m]
               PROVE  x \in nodes' /\ state'[m] = state[m]
    OBVIOUS
  <2>1. state[m][1] = m
    BY <1>0, NoneAssumption DEF Stored, Ids, LoginInv, Owned
  <2> QED BY <2>1 DEF Untouched
<1>6. Kept(m)'
  BY <1>2, <1>3, <1>4, <1>5 DEF Untouched, LoginInv, Kept
<1>7. cmd[m].name # None => Matching(m)' \subseteq Matching(m)
  <2> SUFFICES ASSUME cmd[m].name # None, NEW x \in nodes', x.name = cmd[m].name
               PROVE  x \in nodes
    BY DEF Matching, Untouched
  <2>1. cmd[m].name \in NamesOf[m] /\ x.name \in NamesOf[x.id[1]] /\ x.id[1] \in Machines
    BY DEF LoginInv, Owned, NodesOwned, Ids
  <2>2. x.id[1] = m
    BY <2>1 DEF NamesDisjoint
  <2> QED BY <2>2 DEF Untouched
<1>8. Cleared(m)'
  BY <1>2, <1>3, <1>7 DEF Untouched, LoginInv, Owned, Cleared, Deleting
<1> QED BY <1>1, <1>6, <1>8

(* A command that ends leaves nothing to be kept for it. *)
LEMMA Exited ==
  ASSUME Running, NEW m \in Machines, Exit(m)
  PROVE  pc'[m] = "idle" /\ cmd'[m] = Fresh
BY DEF Running, Exit, Set, Goto

LEMMA WentOn ==
  ASSUME Running, NEW m \in Machines, NEW p, Then(m, p)
  PROVE  pc'[m] = p /\ cmd'[m] = cmd[m]
BY DEF Running, Then, Goto

LEMMA WasSet ==
  ASSUME Running, NEW m \in Machines, NEW p, NEW c, Set(m, p, c)
  PROVE  pc'[m] = p /\ cmd'[m] = c
BY DEF Running, Set, Goto

LEMMA OwnLoginStep ==
  ASSUME NamesDisjoint, LoginInv, NEW m \in Machines, Login(m) \/ LoginStep(m)
  PROVE  Owned(m)' /\ Kept(m)' /\ Cleared(m)'
<1>0. Running /\ Stored
  BY TypeHalves DEF LoginInv
<1>a. cmd[m] \in CommandVars /\ Fits(m, pc[m], cmd[m]) /\ Owned(m) /\ Kept(m) /\ Cleared(m)
  BY <1>0 DEF LoginInv, Running
<1>b. /\ Warned(m).name = cmd[m].name /\ Warned(m).dev = cmd[m].dev
      /\ Warned(m).seen = cmd[m].seen
  BY <1>a, Assigned DEF Warned
<1>c. NamesOf[m] \subseteq Names /\ None \notin NamesOf[m]
  BY NamesOfAssumption, NoneAssumption
<1> USE DEF server, files, Paired, Joined, Removing, LoggingIn, LoggingOut, Deleting, Uploading
<1>1. CASE Login(m)
  <2>1. PICK n \in NamesOf[m] : Set(m, "list keys", [Fresh EXCEPT !.name = n])
    BY <1>1 DEF Login
  <2>2. /\ [Fresh EXCEPT !.name = n].name = n /\ [Fresh EXCEPT !.name = n].dev = None
        /\ [Fresh EXCEPT !.name = n].seen = {}
    BY DEF Fresh
  <2>3. /\ pc'[m] = "list keys" /\ cmd'[m].name = n /\ cmd'[m].dev = None
        /\ cmd'[m].seen = {}
    BY <1>0, <2>1, <2>2, WasSet
  <2> QED BY <1>1, <1>a, <2>3 DEF Login, Owned, Kept, Cleared
<1>2. CASE ListSSHKeys(m) \/ AddSSHKey(m) \/ KeysUploaded(m)
  <2>1. /\ pc'[m] \in {"add key", "pair"} /\ cmd'[m].name = cmd[m].name
        /\ cmd'[m].dev = cmd[m].dev /\ cmd'[m].seen = cmd[m].seen
    <3>1. ASSUME NEW k, Set(m, "add key", [cmd[m] EXCEPT !.known = k])
          PROVE  /\ pc'[m] = "add key" /\ cmd'[m].name = cmd[m].name
                 /\ cmd'[m].dev = cmd[m].dev /\ cmd'[m].seen = cmd[m].seen
      <4>1. /\ [cmd[m] EXCEPT !.known = k].name = cmd[m].name
            /\ [cmd[m] EXCEPT !.known = k].dev = cmd[m].dev
            /\ [cmd[m] EXCEPT !.known = k].seen = cmd[m].seen
        BY <1>a DEF CommandVars
      <4> QED BY <1>0, <3>1, <4>1, WasSet
    <3>2. CASE Set(m, "pair", Warned(m))
      BY <1>0, <1>b, <3>2, WasSet
    <3>3. CASE Then(m, "pair")
      BY <1>0, <3>3, WentOn
    <3> QED BY <1>2, <3>1, <3>2, <3>3 DEF ListSSHKeys, AddSSHKey, KeysUploaded
  <2>2. UNCHANGED <<rows, nodes, config, state, session>>
    BY <1>2 DEF ListSSHKeys, AddSSHKey, KeysUploaded
  <2> QED BY <1>a, <2>1, <2>2 DEF Owned, Kept, Cleared
<1>3. CASE UpsertDevice(m)
  <2>1. pc'[m] = "preauth key" /\ cmd'[m] = cmd[m]
    BY <1>0, <1>3, WentOn DEF UpsertDevice
  <2>2. \A n \in Names : (rows[n] # None => rows'[n] # None)
    BY <1>0, <1>3, NoneAssumption, CommandsAssumption DEF UpsertDevice, Stored
  <2>3. cmd[m].name \in Names /\ rows'[cmd[m].name] # None
    <3>1. cmd[m].name \in Names
      BY <1>3, <1>a, <1>c DEF UpsertDevice, Fits
    <3>2. <<m, count[m]>> # None
      BY <1>0, NoneAssumption DEF Stored
    <3> QED BY <1>0, <1>3, <3>1, <3>2 DEF UpsertDevice, Stored
  <2> QED BY <1>3, <1>a, <2>1, <2>2, <2>3 DEF UpsertDevice, Owned, Kept, Cleared
<1>4. CASE CreatePreAuthKey(m) /\ Then(m, "join")
  <2>1. pc'[m] = "join" /\ cmd'[m] = cmd[m]
    BY <1>0, <1>4, WentOn
  <2> QED BY <1>4, <1>a, <2>1 DEF CreatePreAuthKey, Owned, Kept, Cleared
<1>5. CASE PairDeviceFails(m) \/ (CreatePreAuthKey(m) /\ Exit(m))
  <2>1. pc'[m] = "idle" /\ cmd'[m] = Fresh
    BY <1>0, <1>5, Exited DEF PairDeviceFails
  <2> QED BY <1>5, <1>a, <2>1, FreshFits
          DEF PairDeviceFails, CreatePreAuthKey, Owned, Kept, Cleared
<1>6. CASE Join(m)
  <2>1. CASE Register(m)
    <3>1. PICK new : /\ new[1] = m /\ state' = [state EXCEPT ![m] = new]
                     /\ nodes' = {x \in nodes : x.id # new} \cup {[id |-> new, name |-> cmd[m].name]}
      <4>1. (IF \E x \in nodes : x.id = state[m] THEN state[m] ELSE <<m, count[m]>>)[1] = m
        BY <1>0, NoneAssumption DEF LoginInv, Owned, Stored, Ids
      <4> QED BY <2>1, <4>1 DEF Register
    <3>2. state'[m] = new /\ \E x \in nodes' : x.id = state'[m]
      <4>1. state'[m] = new
        BY <1>0, <3>1 DEF Stored
      <4>2. [id |-> new, name |-> cmd[m].name] \in nodes'
        BY <3>1
      <4> QED BY <4>1, <4>2
    <3>3. CASE Then(m, "upsert")
      <4>1. pc'[m] = "upsert" /\ cmd'[m] = cmd[m]
        BY <1>0, <3>3, WentOn
      <4> QED BY <1>6, <1>a, <3>1, <3>2, <4>1 DEF Join, Owned, Kept, Cleared
    <3>4. CASE Exit(m)
      <4>1. pc'[m] = "idle" /\ cmd'[m] = Fresh
        BY <1>0, <3>4, Exited
      <4> QED BY <1>6, <1>a, <3>1, <3>2, <4>1, FreshFits DEF Join, Owned, Kept, Cleared
    <3> QED BY <1>6, <3>3, <3>4 DEF Join
  <2>2. CASE ~Register(m)
    <3>1. pc'[m] = "idle" /\ cmd'[m] = Fresh
      BY <1>0, <1>6, <2>2, Exited DEF Join
    <3> QED BY <1>6, <1>a, <2>2, <3>1, FreshFits DEF Join, StartFails, Owned, Kept, Cleared
  <2> QED BY <2>1, <2>2
<1>7. CASE UpsertSSHConfig(m)
  <2>1. \/ pc'[m] = "write config" /\ cmd'[m] = cmd[m]
        \/ pc'[m] = "idle" /\ cmd'[m] = Fresh
    BY <1>0, <1>7, Exited, WentOn DEF UpsertSSHConfig, WriteFile, WriteFails
  <2> QED BY <1>7, <1>a, <2>1, FreshFits DEF UpsertSSHConfig, Owned, Kept, Cleared
<1>8. CASE Persist(m)
  <2>1. pc'[m] = "idle" /\ cmd'[m] = Fresh
    BY <1>0, <1>8, Exited DEF Persist
  <2>2. cmd[m].name \in NamesOf[m]
    BY <1>8, <1>a DEF Persist, Fits
  <2>3. config'[m] = cmd[m].name \/ (config'[m] = Torn /\ session'[m] = session[m])
    BY <1>0, <1>8 DEF Persist, WriteClientConfig, Stored
  <2> QED BY <1>8, <1>a, <2>1, <2>2, <2>3, FreshFits, TornAssumption
          DEF Persist, Owned, Kept, Cleared
<1> QED BY <1>1, <1>2, <1>3, <1>4, <1>5, <1>6, <1>7, <1>8 DEF LoginStep, CreatePreAuthKey

LEMMA OwnLogoutStep ==
  ASSUME NamesDisjoint, LoginInv, NEW m \in Machines, Logout(m) \/ LogoutStep(m)
  PROVE  Owned(m)' /\ Kept(m)' /\ Cleared(m)'
<1>0. Running /\ Stored
  BY TypeHalves DEF LoginInv
<1>a. cmd[m] \in CommandVars /\ Fits(m, pc[m], cmd[m]) /\ Owned(m) /\ Kept(m) /\ Cleared(m)
  BY <1>0 DEF LoginInv, Running
<1>b. /\ Warned(m) \in CommandVars /\ Warned(m).name = cmd[m].name
      /\ Warned(m).dev = cmd[m].dev /\ Warned(m).seen = cmd[m].seen /\ Warned(m).ok = FALSE
  BY <1>a, Assigned DEF Warned
<1>c. NamesOf[m] \subseteq Names /\ None \notin NamesOf[m]
  BY NamesOfAssumption, NoneAssumption
<1> USE DEF server, files, Paired, Joined, Removing, LoggingIn, LoggingOut, Deleting, Uploading
<1>1. CASE Logout(m)
  <2> DEFINE n == ReadClientConfig(m)
  <2>1. n \in NamesOf[m] \cup {None}
    BY <1>a DEF Owned, ReadClientConfig
  <2> HIDE DEF n
  <2>2. /\ [Fresh EXCEPT !.name = n].name = n /\ [Fresh EXCEPT !.name = n].dev = None
        /\ [Fresh EXCEPT !.name = n].seen = {}
    BY DEF Fresh
  <2>3. /\ pc'[m] = "list" /\ cmd'[m].name = n /\ cmd'[m].dev = None
        /\ cmd'[m].seen = {} /\ session'[m] = "leaving"
    BY <1>0, <1>1, <2>2, WasSet DEF Logout, Stored, n
  <2> QED BY <1>1, <1>a, <2>1, <2>3 DEF Logout, Owned, Kept, Cleared
<1>2. CASE ListDevices(m)
  <2>1. CASE /\ cmd[m].name # None /\ rows[cmd[m].name] # None
             /\ Set(m, "lookup", [cmd[m] EXCEPT !.dev = rows[cmd[m].name]])
    <3> DEFINE c == [cmd[m] EXCEPT !.dev = rows[cmd[m].name]]
    <3>1. /\ c.name = cmd[m].name /\ c.seen = cmd[m].seen /\ c.dev = rows[cmd[m].name]
      BY <1>a DEF CommandVars
    <3>2. pc'[m] = "lookup" /\ cmd'[m] = c
      BY <1>0, <2>1, WasSet
    <3> HIDE DEF c
    <3> QED BY <1>2, <1>a, <2>1, <3>1, <3>2 DEF ListDevices, Owned, Kept, Cleared
  <2>2. CASE Then(m, "remove state")
    <3>1. pc'[m] = "remove state" /\ cmd'[m] = cmd[m]
      BY <1>0, <2>2, WentOn
    <3> QED BY <1>2, <1>a, <3>1 DEF ListDevices, Owned, Kept, Cleared
  <2>3. CASE Set(m, "remove state", Warned(m))
    <3>1. pc'[m] = "remove state" /\ cmd'[m] = Warned(m)
      BY <1>0, <2>3, WasSet
    <3> QED BY <1>2, <1>a, <1>b, <3>1 DEF ListDevices, Owned, Kept, Cleared
  <2> QED BY <1>2, <2>1, <2>2, <2>3 DEF ListDevices
<1>3. CASE ByID(m)
  <2>1. pc'[m] = "list nodes" /\ cmd'[m] = cmd[m]
    BY <1>0, <1>3, <1>a, WentOn DEF ByID, Cleared
  <2> QED BY <1>3, <1>a, <2>1 DEF ByID, Owned, Kept, Cleared
<1>4. CASE ListNodes(m)
  <2>1. CASE Set(m, "delete node", [cmd[m] EXCEPT !.seen = Matching(m)])
    <3> DEFINE c == [cmd[m] EXCEPT !.seen = Matching(m)]
    <3>1. /\ c.name = cmd[m].name /\ c.dev = cmd[m].dev /\ c.seen = Matching(m)
      BY <1>a DEF CommandVars
    <3>2. pc'[m] = "delete node" /\ cmd'[m] = c
      BY <1>0, <2>1, WasSet
    <3>3. \A x \in Matching(m) : x.id[1] = m
      <4> SUFFICES ASSUME NEW x \in nodes, x.name = cmd[m].name
                   PROVE  x.id[1] = m
        BY DEF Matching
      <4>1. x.name \in NamesOf[x.id[1]] /\ x.id[1] \in Machines
        BY <1>0 DEF LoginInv, NodesOwned, Stored, Ids
      <4>2. cmd[m].name \in NamesOf[m]
        BY <1>4, <1>a DEF ListNodes, Fits, Owned
      <4> QED BY <4>1, <4>2 DEF NamesDisjoint
    <3> HIDE DEF c
    <3>4. Matching(m)' = Matching(m)
      BY <1>4, <3>1, <3>2 DEF ListNodes, Matching
    <3> QED BY <1>4, <1>a, <3>1, <3>2, <3>3, <3>4 DEF ListNodes, Owned, Kept, Cleared
  <2>2. CASE Set(m, "delete node", Warned(m))
    <3>1. pc'[m] = "delete node" /\ cmd'[m] = Warned(m)
      BY <1>0, <2>2, WasSet
    <3> QED BY <1>4, <1>a, <1>b, <3>1 DEF ListNodes, Owned, Kept, Cleared
  <2> QED BY <1>4, <2>1, <2>2 DEF ListNodes
<1>5. CASE DeleteNode(m)
  <2>1. PICK x \in cmd[m].seen :
            \/ /\ nodes' = {y \in nodes : y.id # x.id}
               /\ Set(m, "delete node", [cmd[m] EXCEPT !.seen = @ \ {x}])
            \/ Set(m, "delete node", [Warned(m) EXCEPT !.seen = @ \ {x}])
    BY <1>5 DEF DeleteNode
  <2>2. /\ [cmd[m] EXCEPT !.seen = @ \ {x}].name = cmd[m].name
        /\ [cmd[m] EXCEPT !.seen = @ \ {x}].dev = cmd[m].dev
        /\ [cmd[m] EXCEPT !.seen = @ \ {x}].seen = cmd[m].seen \ {x}
        /\ [cmd[m] EXCEPT !.seen = @ \ {x}].ok = cmd[m].ok
    BY <1>a DEF CommandVars
  <2>3. /\ [Warned(m) EXCEPT !.seen = @ \ {x}].name = cmd[m].name
        /\ [Warned(m) EXCEPT !.seen = @ \ {x}].dev = cmd[m].dev
        /\ [Warned(m) EXCEPT !.seen = @ \ {x}].seen = cmd[m].seen \ {x}
        /\ [Warned(m) EXCEPT !.seen = @ \ {x}].ok = FALSE
    BY <1>a DEF CommandVars, Warned
  <2>4. /\ pc'[m] = "delete node" /\ cmd'[m].name = cmd[m].name
        /\ cmd'[m].dev = cmd[m].dev /\ cmd'[m].seen = cmd[m].seen \ {x}
        /\ cmd'[m].ok => cmd[m].ok /\ nodes' = {y \in nodes : y.id # x.id}
    BY <1>0, <2>1, <2>2, <2>3, WasSet
  <2>5. cmd'[m].ok => Matching(m)' \subseteq Matching(m) \ {x}
    BY <2>4 DEF Matching
  <2> QED BY <1>5, <1>a, <2>4, <2>5 DEF DeleteNode, Owned, Kept, Cleared
<1>6. CASE DeleteDevice(m)
  <2>1. pc'[m] = "remove state" /\ cmd'[m] = cmd[m]
    BY <1>0, <1>6, WentOn DEF DeleteDevice
  <2>2. cmd[m].name \in Names /\ rows'[cmd[m].name] = None
    BY <1>0, <1>6, <1>a, <1>c DEF DeleteDevice, Fits, Owned, Cleared, Stored
  <2>3. Matching(m)' = Matching(m)
    BY <1>6, <2>1 DEF DeleteDevice, Matching
  <2> QED BY <1>6, <1>a, <2>1, <2>2, <2>3 DEF DeleteDevice, Owned, Kept, Cleared
<1>7. CASE DeleteDeviceFails(m)
  <2>1. pc'[m] = "remove state" /\ cmd'[m] = Warned(m)
    BY <1>0, <1>7, WasSet DEF DeleteDeviceFails
  <2> QED BY <1>7, <1>a, <1>b, <2>1 DEF DeleteDeviceFails, Owned, Kept, Cleared
<1>8. CASE RemoveState(m)
  <2>1. pc'[m] = "remove block" /\ cmd'[m] = cmd[m] /\ state'[m] = None
    BY <1>0, <1>8, WentOn DEF RemoveState, Stored
  <2>2. Matching(m)' = Matching(m)
    BY <1>8, <2>1 DEF RemoveState, Matching
  <2> QED BY <1>8, <1>a, <2>1, <2>2 DEF RemoveState, Owned, Kept, Cleared
<1>9. CASE RemoveSSHConfigBlock(m)
  <2>1. \/ pc'[m] = "remove config" /\ cmd'[m] = cmd[m]
        \/ pc'[m] = "idle" /\ cmd'[m] = Fresh
    BY <1>0, <1>9, Exited, WentOn DEF RemoveSSHConfigBlock, WriteFile, WriteFails
  <2>2. cmd'[m] = cmd[m] => Matching(m)' = Matching(m)
    BY <1>9 DEF RemoveSSHConfigBlock, Matching
  <2> QED BY <1>9, <1>a, <2>1, <2>2, FreshFits DEF RemoveSSHConfigBlock, Owned, Kept, Cleared
<1>10. CASE RemoveConfig(m)
  <2>1. /\ pc'[m] = "idle" /\ cmd'[m] = Fresh
        /\ config'[m] = None /\ session'[m] = "out"
    BY <1>0, <1>10, Exited DEF RemoveConfig, Stored
  <2> QED BY <1>10, <1>a, <2>1, FreshFits DEF RemoveConfig, Owned, Kept, Cleared
<1> QED BY <1>1, <1>2, <1>3, <1>4, <1>5, <1>6, <1>7, <1>8, <1>9, <1>10 DEF LogoutStep

LEMMA LoginInvInit == Init => LoginInv
<1> SUFFICES ASSUME Init PROVE LoginInv
  OBVIOUS
<1>1. \A m \in Machines : /\ pc[m] = "idle" /\ cmd[m] = Fresh /\ config[m] = None
                          /\ state[m] = None /\ session[m] = "out"
  BY DEF Init
<1>2. \A m \in Machines : Owned(m) /\ Kept(m) /\ Cleared(m)
  BY <1>1, FreshFits, NoneAssumption
     DEF Owned, Kept, Cleared, LoggingOut, Deleting, Paired, Joined, Removing
<1>3. NodesOwned
  BY DEF Init, NodesOwned
<1> QED BY <1>2, <1>3, TypeInit DEF LoginInv

LEMMA LoginInvInductive ==
  ASSUME NamesDisjoint, LoginInv, [Next]_vars
  PROVE  LoginInv'
<1>0. Running /\ Stored
  BY TypeHalves DEF LoginInv
<1>1. TypeOK' /\ NodesOwned'
  BY TypeInductive, NodesStayOwned DEF LoginInv
<1>2. nodes' \subseteq [id : Ids, name : Names]
  BY <1>1 DEF TypeOK
<1>3. ASSUME NEW m \in Machines, UNCHANGED <<rows, nodes, config, state, session, pc, cmd>>
      PROVE  Owned(m)' /\ Kept(m)' /\ Cleared(m)'
  <2>0. Owned(m) /\ Kept(m) /\ Cleared(m)
    BY DEF LoginInv
  <2>1. Matching(m)' = Matching(m)
    BY <1>3 DEF Matching
  <2>2. Owned(m)'
    BY <1>3, <2>0 DEF Owned
  <2>3. Kept(m)'
    BY <1>3, <2>0 DEF Kept
  <2>4. Cleared(m)'
    BY <1>3, <2>0, <2>1 DEF Cleared
  <2> QED BY <2>2, <2>3, <2>4
<1>4. ASSUME NEW l \in Machines, Step(l), NEW m \in Machines
      PROVE  Owned(m)' /\ Kept(m)' /\ Cleared(m)'
  <2>1. CASE l # m
    BY <1>1, <1>2, <1>4, <2>1, StepOfOther, UntouchedKeeps
  <2>2. CASE l = m /\ (Login(m) \/ LoginStep(m))
    BY <2>2, OwnLoginStep
  <2>3. CASE l = m /\ (Logout(m) \/ LogoutStep(m))
    BY <2>3, OwnLogoutStep
  <2>4. CASE l = m /\ Kill(m)
    <3>1. pc'[m] = "idle" /\ cmd'[m] = Fresh
      BY <1>0, <2>4, Exited DEF Kill
    <3> QED BY <2>4, <3>1, FreshFits
            DEF Kill, server, files, LoginInv, Owned, Kept, Cleared, LoggingOut, Deleting,
                Paired, Joined, Removing
  <2>5. CASE UNCHANGED <<rows, nodes, config, state, session, pc, cmd>>
    BY <2>5, <1>3
  <2> QED BY <1>4, <2>1, <2>2, <2>3, <2>4, <2>5 DEF Step, Edit, KeyAdd, KeyRm, server, files
<1>5. CASE UNCHANGED vars
  BY <1>1, <1>5, <1>3 DEF vars, server, files, LoginInv
<1> QED BY <1>1, <1>4, <1>5 DEF Next, Step, LoginInv

(* What a completed login has set up, the node its tsnet state is of and the row
   of its name, is there until the machine's own logout: through failed and
   killed logins, and whatever other machines do, if no two share a name. *)
THEOREM LoggedInStaysKnown ==
  ASSUME NamesDisjoint
  PROVE  Spec => []LoggedInIsKnown
<1>1. LoginInv => LoggedInIsKnown
  BY DEF LoginInv, Kept, LoggedInIsKnown
<1>2. LoginInv /\ [Next]_vars => LoginInv'
  BY LoginInvInductive
<1> QED BY <1>1, <1>2, LoginInvInit, PTL DEF Spec

(* A logout that finds its device and meets no failure leaves no row and no node
   of the name, if no other machine uses it. *)
THEOREM LogoutIsClean ==
  ASSUME NamesDisjoint
  PROVE  Spec => []CleanLogout
<1>1. LoginInv => CleanLogout
  BY DEF LoginInv, Cleared, CleanLogout, Removing
<1>2. LoginInv /\ [Next]_vars => LoginInv'
  BY LoginInvInductive
<1> QED BY <1>1, <1>2, LoginInvInit, PTL DEF Spec

-----------------------------------------------------------------------------
(* Keys that a login takes for uploaded are on the server. *)
KnownIsThere == \A m \in Machines : pc[m] = "add key" => cmd[m].known \subseteq keys

NoRemovals == \A m \in Machines : "rm" \notin Faults[m]

LEMMA KnownInductive ==
  ASSUME NoRemovals, TypeOK, KnownIsThere, [Next]_vars
  PROVE  KnownIsThere'
<1>0. Running
  BY TypeHalves
<1> USE DEF server, files
<1>1. ASSUME NEW l \in Machines, ListSSHKeys(l)
      PROVE  KnownIsThere'
  <2>1. [cmd[l] EXCEPT !.known = keys].known = keys
    BY <1>0 DEF Running, CommandVars
  <2> QED BY <1>0, <1>1, <2>1 DEF ListSSHKeys, Set, Goto, Running, KnownIsThere
<1>2. ASSUME NEW l \in Machines, AddSSHKey(l)
      PROVE  KnownIsThere'
  <2>1. PICK i \in Missing(l) :
            \/ /\ Insert(KeysOf[l][i])
               /\ Set(l, "add key", [cmd[l] EXCEPT !.known = @ \cup {KeysOf[l][i]}])
            \/ /\ keys \subseteq keys'
               /\ Set(l, "pair", Warned(l))
    BY <1>2 DEF AddSSHKey, Insert, Duplicate
  <2>2. [cmd[l] EXCEPT !.known = @ \cup {KeysOf[l][i]}].known = cmd[l].known \cup {KeysOf[l][i]}
    BY <1>0 DEF Running, CommandVars
  <2> QED BY <1>0, <1>2, <2>1, <2>2 DEF AddSSHKey, Insert, Set, Goto, Running, KnownIsThere
<1>3. ASSUME NEW l \in Machines, NEW k \in Keys, KeyAdd(l, k) \/ KeyRm(l, k)
      PROVE  KnownIsThere'
  BY <1>3 DEF KeyAdd, KeyRm, Insert, KnownIsThere, NoRemovals, Uploading
<1>4. ASSUME NEW l \in Machines, Step(l), ~ListSSHKeys(l), ~AddSSHKey(l), keys' = keys
      PROVE  KnownIsThere'
  <2>1. \/ UNCHANGED <<pc, cmd>>
        \/ \E p, c : p # "add key" /\ Set(l, p, c)
        \/ \E p : p # "add key" /\ Then(l, p)
    BY <1>4 DEF Step, LoginStep, LogoutStep, Login, KeysUploaded,
           UpsertDevice, CreatePreAuthKey, PairDeviceFails, Join, UpsertSSHConfig,
           WriteFile, WriteFails, Persist, Logout, ListDevices, ByID, ListNodes, DeleteNode,
           DeleteDevice, DeleteDeviceFails, RemoveState, RemoveSSHConfigBlock,
           RemoveConfig, Kill, Edit, KeyAdd, KeyRm, Exit
  <2> QED BY <1>0, <1>4, <2>1 DEF Set, Then, Goto, Running, KnownIsThere
<1>5. CASE UNCHANGED vars
  BY <1>5 DEF vars, KnownIsThere
<1>6. ASSUME NEW l \in Machines, Step(l)
      PROVE  ListSSHKeys(l) \/ AddSSHKey(l) \/ keys' = keys
             \/ \E k \in Keys : KeyAdd(l, k) \/ KeyRm(l, k)
  BY <1>6 DEF Step, LoginStep, LogoutStep, Login, KeysUploaded, UpsertDevice,
            CreatePreAuthKey, PairDeviceFails, Join, UpsertSSHConfig, Persist, Logout,
            ListDevices, ByID, ListNodes, DeleteNode, DeleteDevice, DeleteDeviceFails,
            RemoveState, RemoveSSHConfigBlock, RemoveConfig, Kill, Edit
<1>7. Next => \E l \in Machines : Step(l)
  BY DEF Next, Step
<1> QED BY <1>1, <1>2, <1>3, <1>4, <1>5, <1>6, <1>7

(* A login without a warning has all the machine's keys on the server, whatever
   other machines upload meanwhile, if no key is removed while it uploads. *)
THEOREM QuietMeansUploaded ==
  ASSUME NoRemovals
  PROVE  Spec => QuietLoginUploads
<1>1. Init => TypeOK /\ KnownIsThere
  BY TypeInit DEF Init, KnownIsThere
<1>2. TypeOK /\ KnownIsThere /\ [Next]_vars => (TypeOK /\ KnownIsThere)'
  BY TypeInductive, KnownInductive
<1>3. TypeOK /\ KnownIsThere /\ [Next]_vars =>
        [\A m \in Machines : pc[m] = "add key" /\ pc'[m] = "pair" /\ cmd'[m].ok =>
             \A i \in DOMAIN KeysOf[m] : KeysOf[m][i] \in keys']_vars
  <2> SUFFICES ASSUME TypeOK, KnownIsThere, Next, NEW m \in Machines,
                      pc[m] = "add key", pc'[m] = "pair", cmd'[m].ok
               PROVE  \A i \in DOMAIN KeysOf[m] : KeysOf[m][i] \in keys'
    BY DEF vars, server, files
  <2>0. Running
    BY TypeHalves
  <2>1. PICK l \in Machines : Step(l)
    BY DEF Next, Step
  <2>2. l = m
    <3>1. pc' = pc \/ \E p : pc' = [pc EXCEPT ![l] = p]
      BY <2>1 DEF Step, LoginStep, LogoutStep, Login, ListSSHKeys, AddSSHKey, KeysUploaded,
             UpsertDevice, CreatePreAuthKey, PairDeviceFails, Join, UpsertSSHConfig,
             WriteFile, WriteFails, Persist, Logout, ListDevices, ByID, ListNodes, DeleteNode,
             DeleteDevice, DeleteDeviceFails, RemoveState, RemoveSSHConfigBlock,
             RemoveConfig, Kill, Edit, KeyAdd, KeyRm, Set, Then, Exit, Goto, server, files
    <3> QED BY <2>0, <3>1 DEF Running
  <2>3. AddSSHKey(m) \/ KeysUploaded(m) \/ Kill(m) \/ UNCHANGED pc
    BY <2>1, <2>2 DEF Step, LoginStep, LogoutStep, Login, ListSSHKeys,
           UpsertDevice, CreatePreAuthKey, PairDeviceFails, Join, UpsertSSHConfig,
           Persist, Logout, ListDevices, ByID, ListNodes, DeleteNode,
           DeleteDevice, DeleteDeviceFails, RemoveState, RemoveSSHConfigBlock,
           RemoveConfig, Edit, KeyAdd, KeyRm, Deleting, server, files
  <2>4. ~Kill(m)
    BY <2>0, Exited DEF Kill
  <2>5. ~AddSSHKey(m)
    <3>1. Warned(m).ok = FALSE
      BY <2>0 DEF Running, CommandVars, Warned
    <3> QED BY <2>0, <3>1, WasSet DEF AddSSHKey
  <2>6. KeysUploaded(m)
    BY <2>3, <2>4, <2>5
  <2> QED BY <2>6 DEF KeysUploaded, Missing, KnownIsThere, server, files
<1> QED BY <1>1, <1>2, <1>3, PTL DEF Spec, QuietLoginUploads
-----------------------------------------------------------------------------
(* The ssh config: the least number of a set, for the CHOOSEs of SSHConfig. *)
LEMMA Least ==
  ASSUME NEW T \in SUBSET Nat, T # {}
  PROVE  \E n \in T : \A k \in T : n <= k
<1> DEFINE R == OpToRel(<, Nat)
<1>1. IsWellFoundedOn(R, Nat)
  BY NatLessThanWellFounded
<1>2. PICK n \in T : \A k \in T : ~(<<k, n>> \in R)
  <2> HIDE DEF R
  <2> QED BY <1>1, WFMin
<1>3. \A k \in T : ~(k < n)
  BY <1>2 DEF OpToRel
<1> QED BY <1>3

(* TrimRight cuts off blanks at the end and nothing else. *)
LEMMA Trimmed ==
  ASSUME NEW f \in Seq(Tokens)
  PROVE  \E n \in 0..Len(f) :
             /\ TrimRight(f) = SubSeq(f, 1, n)
             /\ \A i \in (n + 1)..Len(f) : f[i] = Blank
<1> DEFINE T == {n \in 0..Len(f) : \A i \in (n + 1)..Len(f) : f[i] = Blank}
           G == {SubSeq(f, 1, n) : n \in 0..Len(f)}
           P(g) == ~EndsIn(g, Blank) /\ \A i \in (Len(g) + 1)..Len(f) : f[i] = Blank
<1>0. /\ Len(f) \in Nat
      /\ \A n \in 0..Len(f) : /\ Len(SubSeq(f, 1, n)) = n
                              /\ \A i \in 1..n : SubSeq(f, 1, n)[i] = f[i]
  OBVIOUS
<1>1. Len(f) \in T /\ T \in SUBSET Nat
  BY <1>0
<1>2. PICK n \in T : \A k \in T : n <= k
  BY <1>1, Least
<1>3. ~EndsIn(SubSeq(f, 1, n), Blank)
  <2> SUFFICES ASSUME EndsIn(SubSeq(f, 1, n), Blank) PROVE FALSE
    OBVIOUS
  <2>1. n > 0
    BY <1>0 DEF EndsIn
  <2>2. f[n] = Blank
    BY <1>0, <2>1 DEF EndsIn
  <2>3. n - 1 \in T
    BY <1>0, <2>1, <2>2
  <2>4. n <= n - 1
    <3> HIDE DEF T
    <3> QED BY <1>2, <2>3
  <2>5. n \in Nat
    BY <1>0
  <2> QED BY <2>4, <2>5
<1>4. SubSeq(f, 1, n) \in G /\ P(SubSeq(f, 1, n))
  BY <1>0, <1>3
<1>5. TrimRight(f) = CHOOSE g \in G : P(g)
  BY DEF TrimRight
<1>6. TrimRight(f) \in G /\ P(TrimRight(f))
  <2> HIDE DEF G, P
  <2> QED BY <1>4, <1>5
<1>7. PICK k \in 0..Len(f) : TrimRight(f) = SubSeq(f, 1, k)
  BY <1>6
<1> QED BY <1>0, <1>6, <1>7

(* What the commands make of an ssh config, whole or torn, and what the user adds:
   one begin marker at most, and an end marker only with its block before it. *)
Shape(f) ==
    /\ \A i, j \in DOMAIN f : f[i] = Begin /\ f[j] = Begin => i = j
    /\ \A i \in DOMAIN f : f[i] = End => i > 2 /\ f[i - 2] = Begin /\ f[i - 1] = Body

Whole(f) == f \in Seq(Tokens) /\ Shape(f)

LEMMA PrefixWhole ==
  ASSUME NEW f, Whole(f), NEW n \in 0..Len(f)
  PROVE  Whole(SubSeq(f, 1, n))
<1>1. f \in Seq(Tokens) /\ Len(f) \in Nat
  BY DEF Whole
<1>2. /\ SubSeq(f, 1, n) \in Seq(Tokens) /\ Len(SubSeq(f, 1, n)) = n
      /\ \A i \in 1..n : SubSeq(f, 1, n)[i] = f[i]
  BY <1>1
<1>3. DOMAIN SubSeq(f, 1, n) = 1..n /\ 1..n \subseteq DOMAIN f
  BY <1>1, <1>2
<1> QED BY <1>1, <1>2, <1>3 DEF Whole, Shape

(* A block between two stretches without markers of its own. *)
LEMMA Assembled ==
  ASSUME NEW a \in Seq(Tokens), NEW c \in Seq(Tokens), NEW block \in {renderBlock, <<>>},
         ~Has(a, Begin), ~Has(a, End), ~Has(c, Begin), ~Has(c, End)
  PROVE  /\ Whole(a \o block \o c)
         /\ Words(a) \cup Words(c) \subseteq Words(a \o block \o c)
         /\ block = renderBlock =>
                LET h == a \o block \o c
                    i == Len(a) + 1
                IN  /\ i \in 1..(Len(h) - 2)
                    /\ h[i] = Begin /\ h[i + 1] = Body /\ h[i + 2] = End
<1> DEFINE h == a \o block \o c
<1>1. /\ block \in Seq(Tokens) /\ Len(block) \in {0, 4}
      /\ \A i \in DOMAIN block : /\ block[i] = Begin => i = 1
                                 /\ block[i] = End =>
                                        i = 3 /\ block[1] = Begin /\ block[2] = Body
      /\ (block = renderBlock => /\ Len(block) = 4
                                 /\ block[1] = Begin /\ block[2] = Body /\ block[3] = End)
  <2>1. {Begin, Body, End, NL} \subseteq Tokens /\ {Begin, Body} \cap {End, NL} = {} /\ End # NL
        /\ Begin # Body
    BY DEF Tokens, Markers, Begin, Body, End, NL
  <2>2. CASE block = <<>>
    <3>1. renderBlock # <<>>
      BY DEF renderBlock
    <3> QED BY <2>2, <3>1
  <2>3. CASE block = renderBlock
    <3>1. /\ Len(block) = 4 /\ DOMAIN block = 1..4
          /\ block[1] = Begin /\ block[2] = Body /\ block[3] = End /\ block[4] = NL
      BY <2>3 DEF renderBlock
    <3>2. block \in Seq(Tokens)
      BY <2>1, <2>3 DEF renderBlock
    <3>3. \A i \in 1..4 : i = 1 \/ i = 2 \/ i = 3 \/ i = 4
      OBVIOUS
    <3>4. ASSUME NEW i \in DOMAIN block
          PROVE  (block[i] = Begin => i = 1) /\ (block[i] = End => i = 3)
      BY <2>1, <3>1, <3>3
    <3> QED BY <3>1, <3>2, <3>4
  <2> QED BY <2>2, <2>3
<1>2. /\ h \in Seq(Tokens) /\ Len(h) = Len(a) + Len(block) + Len(c)
      /\ Len(a) \in Nat /\ Len(c) \in Nat /\ Len(block) \in Nat
      /\ \A i \in 1..Len(a) : h[i] = a[i]
      /\ \A i \in 1..Len(block) : h[Len(a) + i] = block[i]
      /\ \A i \in 1..Len(c) : h[Len(a) + Len(block) + i] = c[i]
  <2>1. /\ a \o block \in Seq(Tokens) /\ Len(a \o block) = Len(a) + Len(block)
        /\ Len(a) \in Nat /\ Len(c) \in Nat /\ Len(block) \in Nat
        /\ \A i \in 1..Len(a) : (a \o block)[i] = a[i]
        /\ \A i \in 1..Len(block) : (a \o block)[Len(a) + i] = block[i]
    BY <1>1
  <2> HIDE DEF h
  <2>2. h = (a \o block) \o c
    BY DEF h
  <2>3. ASSUME NEW b \in Seq(Tokens)
        PROVE  /\ b \o c \in Seq(Tokens) /\ Len(b \o c) = Len(b) + Len(c)
               /\ \A i \in 1..Len(b) : (b \o c)[i] = b[i]
               /\ \A i \in 1..Len(c) : (b \o c)[Len(b) + i] = c[i]
    OBVIOUS
  <2> QED BY <2>1, <2>2, <2>3
<1> HIDE DEF h
<1>3. ASSUME NEW i \in DOMAIN h
      PROVE  \/ i \in 1..Len(a) /\ h[i] = a[i] /\ i \in DOMAIN a
             \/ \E k \in DOMAIN block : i = Len(a) + k /\ h[i] = block[k]
             \/ \E k \in DOMAIN c : i = Len(a) + Len(block) + k /\ h[i] = c[k]
  <2>1. /\ i \in 1..Len(h) /\ DOMAIN a = 1..Len(a)
        /\ DOMAIN c = 1..Len(c) /\ DOMAIN block = 1..Len(block)
    BY <1>1, <1>2
  <2>2. CASE i \in 1..Len(a)
    BY <1>2, <2>1, <2>2
  <2>3. CASE i \in (Len(a) + 1)..(Len(a) + Len(block))
    <3>1. i - Len(a) \in 1..Len(block) /\ i = Len(a) + (i - Len(a))
      BY <1>2, <2>3
    <3> QED BY <1>2, <2>1, <3>1
  <2>4. CASE i \in (Len(a) + Len(block) + 1)..Len(h)
    <3>1. /\ i - Len(a) - Len(block) \in 1..Len(c)
          /\ i = Len(a) + Len(block) + (i - Len(a) - Len(block))
      BY <1>2, <2>4
    <3> QED BY <1>2, <2>1, <3>1
  <2> QED BY <1>2, <2>1, <2>2, <2>3, <2>4
<1>4. ASSUME NEW i \in DOMAIN h
      PROVE  /\ h[i] = Begin => i = Len(a) + 1
             /\ h[i] = End => /\ i = Len(a) + 3
                              /\ h[i - 2] = Begin /\ h[i - 1] = Body
  <2>1. h[i] = Begin => i = Len(a) + 1
    BY <1>1, <1>3 DEF Has
  <2>2. ASSUME h[i] = End
        PROVE  i = Len(a) + 3 /\ h[i - 2] = Begin /\ h[i - 1] = Body
    <3>1. i = Len(a) + 3 /\ block[1] = Begin /\ block[2] = Body /\ 3 \in DOMAIN block
      BY <1>1, <1>3, <2>2 DEF Has
    <3>2. /\ 1 \in 1..Len(block) /\ 2 \in 1..Len(block)
          /\ i - 2 = Len(a) + 1 /\ i - 1 = Len(a) + 2
      BY <1>1, <1>2, <3>1
    <3> QED BY <1>2, <3>1, <3>2
  <2> QED BY <2>1, <2>2
<1>5. Whole(h)
  <2>1. \A i, j \in DOMAIN h : h[i] = Begin /\ h[j] = Begin => i = j
    BY <1>4
  <2>2. Len(a) + 3 > 2
    BY <1>2
  <2>3. \A i \in DOMAIN h : h[i] = End => i > 2 /\ h[i - 2] = Begin /\ h[i - 1] = Body
    BY <1>4, <2>2
  <2> QED BY <1>2, <2>1, <2>3 DEF Whole, Shape
<1>6. Words(a) \cup Words(c) \subseteq Words(h)
  <2>1. DOMAIN a = 1..Len(a) /\ DOMAIN c = 1..Len(c) /\ DOMAIN h = 1..Len(h)
    BY <1>2
  <2>2. \A i \in DOMAIN a : i \in DOMAIN h /\ h[i] = a[i]
    BY <1>2, <2>1
  <2>3. \A i \in DOMAIN c : \E k \in DOMAIN h : h[k] = c[i]
    <3> TAKE i \in DOMAIN c
    <3>1. Len(a) + Len(block) + i \in DOMAIN h
      BY <1>2, <2>1
    <3> QED BY <1>2, <2>1, <3>1
  <2> QED BY <2>2, <2>3 DEF Words
<1>7. ASSUME block = renderBlock
      PROVE  /\ Len(a) + 1 \in 1..(Len(h) - 2)
             /\ h[Len(a) + 1] = Begin /\ h[Len(a) + 1 + 1] = Body /\ h[Len(a) + 1 + 2] = End
  <2>0. Len(block) = 4
    BY <1>1, <1>7
  <2>1. 1 \in 1..Len(block) /\ 2 \in 1..Len(block) /\ 3 \in 1..Len(block)
    BY <2>0
  <2>2. Len(a) + 1 + 1 = Len(a) + 2 /\ Len(a) + 1 + 2 = Len(a) + 3
    BY <1>2
  <2>3. Len(a) + 1 \in 1..(Len(h) - 2)
    BY <1>2, <2>0
  <2> QED BY <1>1, <1>2, <1>7, <2>1, <2>2, <2>3
<1> QED BY <1>5, <1>6, <1>7 DEF h

(* A block at i is in the file, once. *)
LEMMA BlockAt ==
  ASSUME NEW f, Whole(f), NEW i \in 1..(Len(f) - 2),
         f[i] = Begin, f[i + 1] = Body, f[i + 2] = End
  PROVE  HasBlock(f)
<1>1. f \in Seq(Tokens) /\ Len(f) \in Nat
  BY DEF Whole
<1>2. /\ SubSeq(f, i, i + 2) \in Seq(Tokens) /\ Len(SubSeq(f, i, i + 2)) = 3
      /\ SubSeq(f, i, i + 2)[1] = f[i] /\ SubSeq(f, i, i + 2)[2] = f[i + 1]
      /\ SubSeq(f, i, i + 2)[3] = f[i + 2]
  BY <1>1
<1>3. SubSeq(f, i, i + 2) = <<Begin, Body, End>>
  <2> DEFINE g == SubSeq(f, i, i + 2)
  <2>1. g \in Seq(Tokens) /\ Len(g) = 3 /\ g[1] = Begin /\ g[2] = Body /\ g[3] = End
    BY <1>2
  <2> HIDE DEF g
  <2>2. <<Begin, Body, End>> \in Seq(Tokens)
    BY DEF Tokens, Markers
  <2>3. \A k \in 1..3 : k = 1 \/ k = 2 \/ k = 3
    OBVIOUS
  <2>4. \A k \in 1..3 : g[k] = <<Begin, Body, End>>[k]
    BY <2>1, <2>3
  <2>5. g = <<Begin, Body, End>>
    BY <2>1, <2>2, <2>4, SeqEqual
  <2> QED BY <2>5 DEF g
<1> QED BY <1>3 DEF HasBlock, Whole, Shape

(* The block is put behind a file that has none. *)
LEMMA AppendedBlock ==
  ASSUME NEW f, Whole(f), ~Has(f, Begin)
  PROVE  /\ Whole(appendBlock(f, renderBlock)) /\ HasBlock(appendBlock(f, renderBlock))
         /\ Words(f) \subseteq Words(appendBlock(f, renderBlock))
<1>1. f \in Seq(Tokens) /\ NL \in Tokens /\ NL # Begin /\ NL # End
  BY DEF Whole, Tokens, NL, Begin, End
<1>2. ~Has(f, End)
  <2> SUFFICES ASSUME NEW i \in DOMAIN f, f[i] = End PROVE FALSE
    BY DEF Has
  <2>1. i > 2 /\ f[i - 2] = Begin /\ i - 2 \in DOMAIN f
    BY <1>1 DEF Whole, Shape
  <2> QED BY <2>1 DEF Has
<1> DEFINE ended == IF f # <<>> /\ ~EndsIn(f, NL) THEN Append(f, NL) ELSE f
           a == IF f # <<>> THEN Append(ended, NL) ELSE ended
<1>3. ASSUME NEW g \in Seq(Tokens), ~Has(g, Begin), ~Has(g, End)
      PROVE  /\ Append(g, NL) \in Seq(Tokens)
             /\ ~Has(Append(g, NL), Begin) /\ ~Has(Append(g, NL), End)
             /\ Words(g) \subseteq Words(Append(g, NL))
  <2>1. /\ Append(g, NL) \in Seq(Tokens) /\ Len(Append(g, NL)) = Len(g) + 1 /\ Len(g) \in Nat
        /\ \A i \in 1..Len(g) : Append(g, NL)[i] = g[i]
        /\ Append(g, NL)[Len(g) + 1] = NL
    BY <1>1
  <2>2. /\ DOMAIN g = 1..Len(g) /\ DOMAIN Append(g, NL) = 1..(Len(g) + 1)
        /\ \A i \in 1..(Len(g) + 1) : i \in 1..Len(g) \/ i = Len(g) + 1
        /\ 1..Len(g) \subseteq 1..(Len(g) + 1)
    BY <2>1
  <2> HIDE DEF ended, a
  <2>3. ~Has(Append(g, NL), Begin) /\ ~Has(Append(g, NL), End)
    BY <1>1, <1>3, <2>1, <2>2 DEF Has
  <2>4. Words(g) \subseteq Words(Append(g, NL))
    BY <2>1, <2>2 DEF Words
  <2> QED BY <2>1, <2>3, <2>4
<1>4. /\ ended \in Seq(Tokens) /\ ~Has(ended, Begin) /\ ~Has(ended, End)
      /\ Words(f) \subseteq Words(ended)
  BY <1>1, <1>2, <1>3
<1>5. /\ a \in Seq(Tokens) /\ ~Has(a, Begin) /\ ~Has(a, End)
      /\ Words(f) \subseteq Words(a)
  <2> HIDE DEF ended
  <2> QED BY <1>1, <1>2, <1>3, <1>4
<1>6. appendBlock(f, renderBlock) = a \o renderBlock
  BY DEF appendBlock
<1> HIDE DEF a, ended
<1>7. renderBlock \in Seq(Tokens)
  BY DEF renderBlock, Tokens, Markers
<1>8. a \o renderBlock \o <<>> = a \o renderBlock
  <2>1. a \o renderBlock \in Seq(Tokens)
    BY <1>5, <1>7
  <2> QED BY <2>1
<1>9. <<>> \in Seq(Tokens) /\ ~Has(<<>>, Begin) /\ ~Has(<<>>, End)
  BY DEF Has
<1>10. /\ Whole(a \o renderBlock) /\ Words(a) \subseteq Words(a \o renderBlock)
       /\ LET h == a \o renderBlock
              i == Len(a) + 1
          IN  /\ i \in 1..(Len(h) - 2)
              /\ h[i] = Begin /\ h[i + 1] = Body /\ h[i + 2] = End
  BY <1>5, <1>8, <1>9, Assembled
<1> QED BY <1>5, <1>6, <1>10, BlockAt

(* A word, and a newline, of the user's. *)
LEMMA WordAdded ==
  ASSUME NEW f, Whole(f), NEW w \in NewWords
  PROVE  /\ Whole(f \o <<w, NL>>)
         /\ Words(f \o <<w, NL>>) = Words(f) \cup {w}
         /\ Has(f \o <<w, NL>>, Begin) => Has(f, Begin)
<1> DEFINE h == f \o <<w, NL>>
<1>1. /\ f \in Seq(Tokens) /\ {w, NL} \subseteq Tokens
      /\ {w, NL} \cap Markers = {} /\ w \notin Markers \cup {NL, Blank}
  BY WordsAssumption DEF Whole, Tokens, Text, Markers, NL, Begin, Body, End
<1>2. /\ h \in Seq(Tokens) /\ Len(h) = Len(f) + 2 /\ Len(f) \in Nat
      /\ \A i \in 1..Len(f) : h[i] = f[i]
      /\ h[Len(f) + 1] = w /\ h[Len(f) + 2] = NL
  BY <1>1
<1> HIDE DEF h
<1>3. /\ DOMAIN f = 1..Len(f) /\ DOMAIN h = 1..(Len(f) + 2)
      /\ \A i \in DOMAIN h : i \in DOMAIN f \/ i = Len(f) + 1 \/ i = Len(f) + 2
      /\ \A i \in DOMAIN f : i \in DOMAIN h /\ h[i] = f[i]
      /\ Len(f) + 1 \in DOMAIN h
  BY <1>2
<1>4. \A i \in DOMAIN h : h[i] \in Markers => i \in DOMAIN f /\ h[i] = f[i]
  BY <1>1, <1>2, <1>3
<1>5. Shape(h)
  <2>1. Begin \in Markers /\ End \in Markers
    BY DEF Markers
  <2>2. \A i, j \in DOMAIN h : h[i] = Begin /\ h[j] = Begin => i = j
    BY <1>4, <2>1 DEF Whole, Shape
  <2>3. ASSUME NEW i \in DOMAIN h, h[i] = End
        PROVE  i > 2 /\ h[i - 2] = Begin /\ h[i - 1] = Body
    <3>1. i \in DOMAIN f /\ i > 2 /\ f[i - 2] = Begin /\ f[i - 1] = Body
      BY <1>4, <2>1, <2>3 DEF Whole, Shape
    <3>2. i - 2 \in 1..Len(f) /\ i - 1 \in 1..Len(f)
      BY <1>2, <1>3, <3>1
    <3> QED BY <1>2, <3>1, <3>2
  <2> QED BY <2>2, <2>3 DEF Shape
<1>6. Words(h) = Words(f) \cup {w}
  BY <1>1, <1>2, <1>3 DEF Words
<1>7. Has(h, Begin) => Has(f, Begin)
  BY <1>4 DEF Has, Markers
<1> QED BY <1>2, <1>5, <1>6, <1>7 DEF h, Whole

(* Trimming leaves words and block where they are. *)
LEMMA TrimmedWhole ==
  ASSUME NEW h, Whole(h)
  PROVE  /\ Whole(TrimRight(h)) /\ Words(h) \subseteq Words(TrimRight(h))
         /\ \A i \in 1..(Len(h) - 2) :
                h[i] = Begin /\ h[i + 1] = Body /\ h[i + 2] = End => HasBlock(TrimRight(h))
<1>1. h \in Seq(Tokens) /\ Len(h) \in Nat
  BY DEF Whole
<1>2. PICK n \in 0..Len(h) : /\ TrimRight(h) = SubSeq(h, 1, n)
                             /\ \A i \in (n + 1)..Len(h) : h[i] = Blank
  BY <1>1, Trimmed
<1> DEFINE g == SubSeq(h, 1, n)
<1>3. /\ g \in Seq(Tokens) /\ Len(g) = n /\ \A i \in 1..n : g[i] = h[i]
  BY <1>1
<1>4. Whole(g)
  BY PrefixWhole
<1> HIDE DEF g
<1>5. ASSUME NEW i \in 1..Len(h), h[i] # Blank
      PROVE  i \in 1..n
  BY <1>1, <1>2, <1>5
<1>6. Words(h) \subseteq Words(g)
  <2>1. DOMAIN h = 1..Len(h) /\ DOMAIN g = 1..n
    BY <1>1, <1>3
  <2> QED BY <1>3, <1>5, <2>1 DEF Words
<1>7. ASSUME NEW i \in 1..(Len(h) - 2), h[i] = Begin, h[i + 1] = Body, h[i + 2] = End
      PROVE  HasBlock(g)
  <2>1. i + 2 \in 1..Len(h) /\ End # Blank
    BY <1>1 DEF End, Blank
  <2>2. i + 2 \in 1..n
    BY <1>5, <1>7, <2>1
  <2>3. i \in 1..n /\ i + 1 \in 1..n /\ i \in 1..(Len(g) - 2)
    BY <1>1, <1>3, <2>2
  <2>4. g[i] = Begin /\ g[i + 1] = Body /\ g[i + 2] = End
    BY <1>3, <1>7, <2>2, <2>3
  <2> QED BY <1>4, <2>3, <2>4, BlockAt
<1> QED BY <1>2, <1>4, <1>6, <1>7 DEF g

(* A block is replaced, or taken out, with its marker lines and nothing else. *)
LEMMA ReplacedBlock ==
  ASSUME NEW f, Whole(f), Has(f, Begin), NEW block \in {renderBlock, <<>>}
  PROVE  /\ Whole(replaceBlock(f, block)) /\ Words(f) \subseteq Words(replaceBlock(f, block))
         /\ block = renderBlock =>
                \/ HasBlock(replaceBlock(f, block))
                \/ Has(replaceBlock(f, block), Begin) /\ ~Has(replaceBlock(f, block), End)
<1>1. f \in Seq(Tokens) /\ Len(f) \in Nat /\ DOMAIN f = 1..Len(f)
  BY DEF Whole
<1> DEFINE b == Index(f, Begin)
<1>2. b \in 1..Len(f) /\ f[b] = Begin /\ \A i \in 1..Len(f) : f[i] = Begin => i = b
  <2>1. PICK i \in DOMAIN f : f[i] = Begin
    BY DEF Has
  <2>2. \A j \in DOMAIN f : f[j] = Begin => j = i
    BY <2>1 DEF Whole, Shape
  <2>3. \A j \in 1..(i - 1) : f[j] # Begin
    BY <1>1, <2>2
  <2>4. b \in DOMAIN f /\ f[b] = Begin
    BY <2>1, <2>3 DEF Index
  <2> HIDE DEF b
  <2> QED BY <1>1, <2>2, <2>4
<1>3. \A i \in 1..Len(f) : f[i] = End => i = b + 2 /\ f[b + 1] = Body
  <2> HIDE DEF b
  <2> SUFFICES ASSUME NEW i \in 1..Len(f), f[i] = End
               PROVE  i = b + 2 /\ f[b + 1] = Body
    OBVIOUS
  <2>1. i > 2 /\ f[i - 2] = Begin /\ f[i - 1] = Body
    BY <1>1 DEF Whole, Shape
  <2>2. i - 2 \in 1..Len(f)
    BY <1>1, <2>1
  <2>3. i - 2 = b
    BY <1>2, <2>1, <2>2
  <2>4. i = b + 2 /\ i - 1 = b + 1
    BY <2>3
  <2> QED BY <2>1, <2>4
<1> DEFINE r == From(f, b)
<1>4. /\ r \in Seq(Tokens) /\ Len(r) = Len(f) - b + 1 /\ DOMAIN r = 1..(Len(f) - b + 1)
      /\ \A k \in 1..(Len(f) - b + 1) : r[k] = f[b + k - 1]
  <2> HIDE DEF b
  <2> QED BY <1>1, <1>2 DEF From
<1>5. ASSUME NEW k \in DOMAIN r, r[k] = End
      PROVE  k = 3 /\ b + 2 \in 1..Len(f) /\ f[b + 2] = End /\ f[b + 1] = Body
  <2> HIDE DEF b, r
  <2>1. b + k - 1 \in 1..Len(f) /\ f[b + k - 1] = End
    BY <1>1, <1>2, <1>4, <1>5
  <2>2. b + k - 1 = b + 2 /\ f[b + 1] = Body
    BY <1>3, <2>1
  <2>3. k = 3
    BY <1>2, <1>4, <2>2
  <2> QED BY <2>1, <2>2, <2>3
<1>6. CASE ~Has(r, End)
  <2>1. replaceBlock(f, block) = f
    BY <1>6 DEF replaceBlock
  <2>2. ~Has(f, End)
    <3> HIDE DEF b, r
    <3> SUFFICES ASSUME NEW i \in DOMAIN f, f[i] = End PROVE FALSE
      BY DEF Has
    <3>1. i = b + 2
      BY <1>1, <1>3
    <3>2. 3 \in DOMAIN r /\ b + 3 - 1 = i
      BY <1>1, <1>2, <1>4, <3>1
    <3>3. r[3] = End
      BY <1>4, <3>2
    <3> QED BY <1>6, <3>2, <3>3 DEF Has
  <2> QED BY <2>1, <2>2
<1>7. CASE Has(r, End)
  <2> DEFINE e      == b - 1 + Index(r, End)
             last   == IF e < Len(f) /\ f[e + 1] = NL THEN e + 1 ELSE e
             before == SubSeq(f, 1, b - 1)
             after  == From(f, last + 1)
             kept   == IF block = <<>> /\ EndsIn(before, NL) /\ after = <<>>
                       THEN SubSeq(before, 1, b - 2) ELSE before
             h      == kept \o block \o after
  <2>1. replaceBlock(f, block) = TrimRight(h)
    BY <1>7 DEF replaceBlock
  <2> HIDE DEF b, r
  <2>2. Index(r, End) = 3 /\ b + 2 \in 1..Len(f) /\ f[b + 2] = End /\ f[b + 1] = Body
    <3>1. PICK k \in DOMAIN r : r[k] = End
      BY <1>7 DEF Has
    <3>2. k = 3 /\ b + 2 \in 1..Len(f) /\ f[b + 2] = End /\ f[b + 1] = Body
      BY <1>5, <3>1
    <3>3. \A j \in 1..(3 - 1) : j \in DOMAIN r /\ j # 3
      BY <1>4, <3>1, <3>2
    <3>4. \A j \in 1..(3 - 1) : r[j] # End
      BY <1>5, <3>3
    <3>5. Index(r, End) \in DOMAIN r /\ r[Index(r, End)] = End
      BY <3>1, <3>2, <3>4 DEF Index
    <3> QED BY <1>5, <3>2, <3>5
  <2>3. e = b + 2
    BY <1>2, <2>2
  <2> HIDE DEF e
  <2>4. last \in {b + 2, b + 3} /\ last \in 1..Len(f) /\ (last = b + 3 => f[b + 3] = NL)
    BY <1>1, <1>2, <2>2, <2>3
  <2> HIDE DEF last
  <2>5. /\ before \in Seq(Tokens) /\ Len(before) = b - 1
        /\ \A i \in 1..(b - 1) : before[i] = f[i]
    BY <1>1, <1>2
  <2>6. /\ after \in Seq(Tokens) /\ Len(after) = Len(f) - last
        /\ \A i \in 1..(Len(f) - last) : after[i] = f[last + i]
    <3> DEFINE m == last + 1
               n == Len(f)
    <3>1. last \in Nat /\ Len(f) \in Nat /\ last <= Len(f)
      BY <1>1, <2>4
    <3>2. /\ m \in Int /\ n \in Int
          /\ n - m + 1 = Len(f) - last /\ (~(m <= n) => Len(f) - last = 0)
          /\ \A i \in 1..(Len(f) - last) : m + i - 1 = last + i
      BY <3>1
    <3>3. \A i \in m..n : f[i] \in Tokens
      <4>1. m..n \subseteq 1..Len(f)
        BY <1>1, <3>1
      <4> HIDE DEF m, n
      <4> QED BY <1>1, <4>1
    <3> HIDE DEF m, n
    <3>4. /\ SubSeq(f, m, n) \in Seq(Tokens)
          /\ Len(SubSeq(f, m, n)) = IF m <= n THEN n - m + 1 ELSE 0
          /\ \A i \in 1..(n - m + 1) : SubSeq(f, m, n)[i] = f[m + i - 1]
      BY <3>2, <3>3, SubSeqProperties
    <3>5. /\ Len(SubSeq(f, m, n)) = Len(f) - last
          /\ \A i \in 1..(Len(f) - last) : SubSeq(f, m, n)[i] = f[last + i]
      BY <3>2, <3>4
    <3>6. after = SubSeq(f, m, n)
      BY DEF From, m, n
    <3> QED BY <3>4, <3>5, <3>6
  <2> HIDE DEF before, after
  <2>7. /\ kept \in Seq(Tokens) /\ Len(kept) \in {b - 2, b - 1} /\ Len(kept) \in Nat
        /\ \A i \in 1..Len(kept) : kept[i] = f[i]
        /\ Len(kept) = b - 2 => f[b - 1] = NL
    <3>1. CASE block = <<>> /\ EndsIn(before, NL) /\ after = <<>>
      <4>1. b - 1 > 0 /\ before[b - 1] = NL
        BY <1>2, <2>5, <3>1 DEF EndsIn
      <4>2. f[b - 1] = NL /\ b - 2 \in 0..Len(before)
        BY <1>2, <2>5, <4>1
      <4>3. kept = SubSeq(before, 1, b - 2)
        BY <3>1
      <4>4. /\ SubSeq(before, 1, b - 2) \in Seq(Tokens) /\ Len(SubSeq(before, 1, b - 2)) = b - 2
            /\ \A i \in 1..(b - 2) : SubSeq(before, 1, b - 2)[i] = before[i]
        BY <1>2, <2>5, <4>2
      <4> HIDE DEF kept
      <4> QED BY <1>2, <2>5, <4>2, <4>3, <4>4
    <3>2. CASE ~(block = <<>> /\ EndsIn(before, NL) /\ after = <<>>)
      <4>1. kept = before
        BY <3>2
      <4> HIDE DEF kept
      <4> QED BY <1>2, <2>5, <4>1
    <3> QED BY <3>1, <3>2
  <2> HIDE DEF kept
  <2>8. /\ DOMAIN kept = 1..Len(kept) /\ DOMAIN after = 1..Len(after)
        /\ \A i \in 1..Len(kept) : i \in 1..Len(f) /\ i < b
        /\ \A i \in 1..Len(after) : last + i \in 1..Len(f) /\ last + i > b + 2
    BY <1>1, <1>2, <2>4, <2>6, <2>7
  <2>9. b # b + 2 /\ \A i \in 1..Len(f) : i < b \/ i > b + 2 => f[i] # Begin /\ f[i] # End
    BY <1>2, <1>3
  <2>10. ~Has(kept, Begin) /\ ~Has(kept, End)
    <3>1. \A i \in 1..Len(kept) : kept[i] # Begin /\ kept[i] # End
      BY <2>7, <2>8, <2>9
    <3> QED BY <2>8, <3>1 DEF Has
  <2>11. ~Has(after, Begin) /\ ~Has(after, End)
    <3>1. \A i \in 1..Len(after) : after[i] # Begin /\ after[i] # End
      BY <2>6, <2>8, <2>9
    <3> QED BY <2>8, <3>1 DEF Has
  <2>12. Words(f) \subseteq Words(kept) \cup Words(after)
    <3> SUFFICES ASSUME NEW i \in 1..Len(f), f[i] \notin Markers \cup {NL, Blank}
                 PROVE  \/ \E k \in 1..Len(kept) : kept[k] = f[i]
                        \/ \E k \in 1..Len(after) : after[k] = f[i]
      BY <1>1, <2>8 DEF Words
    <3>1. i # b /\ i # b + 1 /\ i # b + 2
      BY <1>2, <2>2 DEF Markers
    <3>2. ~(i = b + 3 /\ last = b + 3) /\ ~(i = b - 1 /\ Len(kept) = b - 2)
      BY <2>4, <2>7
    <3>3. i \in 1..Len(kept) \/ i > last
      BY <1>1, <1>2, <2>4, <2>7, <3>1, <3>2
    <3>4. ASSUME i > last
          PROVE  i - last \in 1..Len(after) /\ last + (i - last) = i
      BY <1>1, <2>4, <2>6, <3>4
    <3> QED BY <2>6, <2>7, <3>3, <3>4
  <2>13. /\ Whole(h) /\ Words(kept) \cup Words(after) \subseteq Words(h)
         /\ block = renderBlock => \E i \in 1..(Len(h) - 2) :
                                       h[i] = Begin /\ h[i + 1] = Body /\ h[i + 2] = End
    BY <2>6, <2>7, <2>10, <2>11, Assembled
  <2> HIDE DEF h
  <2> QED BY <2>1, <2>12, <2>13, TrimmedWhole
<1> QED BY <1>6, <1>7

-----------------------------------------------------------------------------
(* The ssh configs the machines start with are what flexctl or no one has put a
   block in, *)
StartsWhole == \A m \in Machines : \A f \in FilesOf[m] : Shape(f)

(* and where writes are torn they have none yet, nor does the user write to them
   once they do.  UpsertSSHConfig makes no backup of a file with a block. *)
BackupsSuffice ==
    \A m \in Machines : "torn" \in Faults[m] =>
        "edit" \notin Faults[m] /\ \A f \in FilesOf[m] : ~Has(f, Begin)

(* The inductive invariant: once a file has a block, all of the user's words are
   in its backups, if a write may be torn. *)
FilesInv ==
    /\ DOMAIN ssh = Machines /\ DOMAIN saved = Machines /\ DOMAIN words = Machines
    /\ \A m \in Machines : Whole(ssh[m])
    /\ UpdatedHasBlock

Covered(m) ==
    /\ words[m] \subseteq Words(ssh[m]) \cup saved[m]
    /\ "torn" \in Faults[m] /\ Has(ssh[m], Begin) => words[m] \subseteq saved[m]

(* What a step may do to a machine's ssh config: nothing, ... *)
Left(m) ==
    /\ ssh'[m] = ssh[m] /\ saved'[m] = saved[m] /\ words'[m] = words[m]
    /\ pc'[m] = "write config" => pc[m] = "write config"

(* ... write what UpsertSSHConfig or RemoveSSHConfigBlock make of it, or a part
   of it, *)
Written(m, g) ==
    \/ ssh'[m] = g
    \/ /\ "torn" \in Faults[m] /\ pc'[m] # "write config"
       /\ \E n \in 0..(Len(g) - 1) : ssh'[m] = SubSeq(g, 1, n)

UpsertedIt(m) ==
    /\ saved'[m] = IF BackedUp(ssh[m]) THEN saved[m] \cup Words(ssh[m]) ELSE saved[m]
    /\ words'[m] = words[m]
    /\ Written(m, Upserted(ssh[m]))

RemovedIt(m) ==
    /\ Has(ssh[m], Begin) /\ pc'[m] # "write config"
    /\ saved'[m] = saved[m] \cup Words(ssh[m]) /\ words'[m] = words[m]
    /\ Written(m, Removed(ssh[m]))

(* ... or add a word. *)
EditedIt(m) ==
    /\ pc'[m] # "write config" /\ saved'[m] = saved[m]
    /\ Has(ssh[m], Begin) => "edit" \in Faults[m]
    /\ \E w \in NewWords : /\ ssh'[m] = ssh[m] \o <<w, NL>>
                           /\ words'[m] = words[m] \cup {w}

LEMMA FileSteps ==
  ASSUME TypeOK, FilesInv, NEW l \in Machines, Step(l), NEW m \in Machines
  PROVE  Left(m) \/ UpsertedIt(m) \/ RemovedIt(m) \/ EditedIt(m)
<1>0. Running
  BY TypeHalves
<1>1. CASE UpsertSSHConfig(l)
  <2>1. CASE WriteFile(l, Upserted(ssh[l])) /\ Then(l, "write config")
    BY <1>0, <1>1, <2>1 DEF UpsertSSHConfig, WriteFile, Then, Goto, Running, FilesInv,
         Left, UpsertedIt, Written
  <2>2. CASE WriteFails(l, Upserted(ssh[l])) /\ Exit(l)
    BY <1>0, <1>1, <2>2 DEF UpsertSSHConfig, WriteFile, WriteFails, Exit, Set, Goto, Running,
         FilesInv, Left, UpsertedIt, Written
  <2> QED BY <1>1, <2>1, <2>2 DEF UpsertSSHConfig
<1>2. CASE RemoveSSHConfigBlock(l)
  <2>1. /\ \A k \in Machines : k # l => pc'[k] = pc[k]
        /\ pc'[l] # "write config"
    BY <1>0, <1>2 DEF RemoveSSHConfigBlock, Then, Exit, Set, Goto, Running
  <2>2. CASE UNCHANGED <<ssh, saved>>
    BY <1>2, <2>1, <2>2 DEF RemoveSSHConfigBlock, Left
  <2>3. CASE /\ Has(ssh[l], Begin)
             /\ saved' = [saved EXCEPT ![l] = @ \cup Words(ssh[l])]
             /\ WriteFile(l, Removed(ssh[l])) \/ WriteFails(l, Removed(ssh[l]))
    BY <1>2, <2>1, <2>3 DEF RemoveSSHConfigBlock, WriteFile, WriteFails, FilesInv,
         Left, RemovedIt, Written
  <2> QED BY <1>2, <2>2, <2>3 DEF RemoveSSHConfigBlock
<1>3. CASE Edit(l)
  <2>1. PICK w \in NewWords : /\ ssh' = [ssh EXCEPT ![l] = @ \o <<w, NL>>]
                              /\ words' = [words EXCEPT ![l] = @ \cup {w}]
    BY <1>3 DEF Edit
  <2> QED BY <1>3, <2>1 DEF Edit, FilesInv, Left, EditedIt
<1>4. ASSUME ~UpsertSSHConfig(l), ~RemoveSSHConfigBlock(l), ~Edit(l)
      PROVE  UNCHANGED <<ssh, saved, words>>
  BY <1>4 DEF Step, LoginStep, LogoutStep, Login, ListSSHKeys, AddSSHKey, KeysUploaded,
         UpsertDevice, CreatePreAuthKey, PairDeviceFails, Join, Persist, Logout, ListDevices,
         ByID, ListNodes, DeleteNode, DeleteDevice, DeleteDeviceFails, RemoveState,
         RemoveConfig, Kill, KeyAdd, KeyRm, files
<1>5. ASSUME ~UpsertSSHConfig(l), ~RemoveSSHConfigBlock(l), ~Edit(l)
      PROVE  \/ UNCHANGED pc
             \/ \E p : p # "write config" /\ Goto(l, p)
  BY <1>5 DEF Step, LoginStep, LogoutStep, Login, ListSSHKeys, AddSSHKey, KeysUploaded,
         UpsertDevice, CreatePreAuthKey, PairDeviceFails, Join, Persist, Logout, ListDevices,
         ByID, ListNodes, DeleteNode, DeleteDevice, DeleteDeviceFails, RemoveState,
         RemoveConfig, Kill, KeyAdd, KeyRm, Set, Then, Exit
<1> QED BY <1>0, <1>1, <1>2, <1>3, <1>4, <1>5 DEF Left, Goto, Running

(* The files keep their shape, and an updated one has the block. *)
LEMMA WholeKept ==
  ASSUME NEW m \in Machines, Whole(ssh[m]),
         Left(m) \/ UpsertedIt(m) \/ RemovedIt(m) \/ EditedIt(m)
  PROVE  /\ Whole(ssh'[m])
         /\ ~Left(m) /\ pc'[m] = "write config" =>
                HasBlock(ssh'[m]) \/ (Has(ssh'[m], Begin) /\ ~Has(ssh'[m], End))
<1>1. /\ Whole(Upserted(ssh[m])) /\ Words(ssh[m]) \subseteq Words(Upserted(ssh[m]))
      /\ \/ HasBlock(Upserted(ssh[m]))
         \/ Has(Upserted(ssh[m]), Begin) /\ ~Has(Upserted(ssh[m]), End)
  BY AppendedBlock, ReplacedBlock DEF Upserted
<1>2. Has(ssh[m], Begin) => Whole(Removed(ssh[m]))
  BY ReplacedBlock DEF Removed
<1>3. ASSUME NEW g, Whole(g), Written(m, g)
      PROVE  Whole(ssh'[m]) /\ (pc'[m] = "write config" => ssh'[m] = g)
  <2>1. Len(g) \in Nat
    BY <1>3 DEF Whole
  <2>2. \A n \in 0..(Len(g) - 1) : n \in 0..Len(g)
    BY <2>1
  <2> QED BY <1>3, <2>2, PrefixWhole DEF Written
<1>4. CASE UpsertedIt(m)
  BY <1>1, <1>3, <1>4 DEF UpsertedIt
<1>5. CASE RemovedIt(m)
  BY <1>2, <1>3, <1>5 DEF RemovedIt
<1>6. CASE EditedIt(m)
  <2>1. PICK w \in NewWords : ssh'[m] = ssh[m] \o <<w, NL>>
    BY <1>6 DEF EditedIt
  <2>2. Whole(ssh[m] \o <<w, NL>>)
    BY WordAdded
  <2> QED BY <1>6, <2>1, <2>2 DEF EditedIt
<1>7. CASE Left(m)
  BY <1>7 DEF Left
<1> QED BY <1>4, <1>5, <1>6, <1>7

LEMMA FilesInductive == TypeOK /\ FilesInv /\ [Next]_vars => FilesInv'
<1> SUFFICES ASSUME TypeOK, FilesInv, [Next]_vars PROVE FilesInv'
  OBVIOUS
<1>1. ASSUME NEW l \in Machines, Step(l)
      PROVE  FilesInv'
  <2>1. DOMAIN ssh' = Machines /\ DOMAIN saved' = Machines /\ DOMAIN words' = Machines
    BY <1>1 DEF Step, LoginStep, LogoutStep, Login, ListSSHKeys, AddSSHKey, KeysUploaded,
         UpsertDevice, CreatePreAuthKey, PairDeviceFails, Join, UpsertSSHConfig, WriteFile,
         WriteFails, Persist, Logout, ListDevices, ByID, ListNodes, DeleteNode, DeleteDevice,
         DeleteDeviceFails, RemoveState, RemoveSSHConfigBlock, RemoveConfig, Kill, Edit,
         KeyAdd, KeyRm, files, FilesInv
  <2>2. ASSUME NEW m \in Machines
        PROVE  /\ Whole(ssh'[m])
               /\ pc'[m] = "write config" =>
                      HasBlock(ssh'[m]) \/ (Has(ssh'[m], Begin) /\ ~Has(ssh'[m], End))
    <3>1. Whole(ssh[m])
      BY DEF FilesInv
    <3>2. Left(m) \/ UpsertedIt(m) \/ RemovedIt(m) \/ EditedIt(m)
      BY <1>1, FileSteps
    <3>3. Left(m) /\ pc'[m] = "write config" =>
              HasBlock(ssh'[m]) \/ (Has(ssh'[m], Begin) /\ ~Has(ssh'[m], End))
      BY DEF Left, FilesInv, UpdatedHasBlock
    <3> QED BY <3>1, <3>2, <3>3, WholeKept
  <2> QED BY <2>1, <2>2 DEF FilesInv, UpdatedHasBlock
<1>2. CASE UNCHANGED vars
  BY <1>2 DEF vars, files, FilesInv, UpdatedHasBlock
<1>3. Next => \E l \in Machines : Step(l)
  BY DEF Next, Step
<1> QED BY <1>1, <1>2, <1>3

LEMMA FilesStart ==
  ASSUME StartsWhole
  PROVE  Init => FilesInv
<1> SUFFICES ASSUME Init PROVE FilesInv
  OBVIOUS
<1>1. DOMAIN ssh = Machines /\ DOMAIN saved = Machines /\ DOMAIN words = Machines
  BY DEF Init
<1>2. \A m \in Machines : ssh[m] \in FilesOf[m] /\ pc[m] = "idle"
  BY DEF Init
<1> QED BY <1>1, <1>2, FilesAssumption DEF FilesInv, Whole, StartsWhole, UpdatedHasBlock

(* When login says the ssh config is updated, the block is in it, whole and once,
   through torn writes, killed commands and the user's edits of the file - or a
   torn write has left a begin marker without its end - if the file did not start
   with markers that are not flexctl's. *)
THEOREM UpdatedIsThere ==
  ASSUME StartsWhole
  PROVE  Spec => []UpdatedHasBlock
<1>1. FilesInv => UpdatedHasBlock
  BY DEF FilesInv
<1> QED BY <1>1, TypeInit, TypeInductive, FilesStart, FilesInductive, PTL DEF Spec

(* No word of the user's is lost: it is in the file or in a backup, wherever a
   command is killed or a write torn - if, where writes are torn, the file did not
   have a block before flexctl made the first backup and has not been edited
   since. *)
THEOREM TextIsKept ==
  ASSUME StartsWhole, BackupsSuffice
  PROVE  Spec => []UserTextKept
<1> DEFINE Inv == TypeOK /\ FilesInv /\ \A m \in Machines : Covered(m)
<1>1. Init => Inv
  <2>1. ASSUME Init, NEW m \in Machines
        PROVE  Covered(m)
    BY <2>1 DEF Init, Covered, BackupsSuffice
  <2> QED BY <2>1, TypeInit, FilesStart
<1>2. ASSUME Inv, [Next]_vars
      PROVE  Inv'
  <2>1. ASSUME NEW l \in Machines, Step(l), NEW m \in Machines
        PROVE  Covered(m)'
    <3>0. Whole(ssh[m]) /\ Covered(m)
      BY <1>2 DEF FilesInv
    <3>1. Left(m) \/ UpsertedIt(m) \/ RemovedIt(m) \/ EditedIt(m)
      BY <1>2, <2>1, FileSteps
    <3>2. CASE Left(m)
      BY <3>0, <3>2 DEF Left, Covered
    <3>3. CASE UpsertedIt(m)
      <4>1. Words(ssh[m]) \subseteq Words(Upserted(ssh[m]))
        BY <3>0, AppendedBlock, ReplacedBlock DEF Upserted
      <4>2. "torn" \notin Faults[m] => Words(ssh[m]) \subseteq Words(ssh'[m])
        BY <3>3, <4>1 DEF UpsertedIt, Written
      <4>3. Words(<<>>) = {}
        BY DEF Words
      <4>4. "torn" \in Faults[m] => words[m] \subseteq saved'[m]
        BY <3>0, <3>3, <4>3 DEF UpsertedIt, Covered, BackedUp
      <4>5. saved[m] \subseteq saved'[m] /\ words'[m] = words[m]
        BY <3>3 DEF UpsertedIt
      <4> QED BY <3>0, <4>2, <4>4, <4>5 DEF Covered
    <3>4. CASE RemovedIt(m)
      BY <3>0, <3>4 DEF RemovedIt, Covered
    <3>5. CASE EditedIt(m)
      <4>1. PICK w \in NewWords : /\ ssh'[m] = ssh[m] \o <<w, NL>>
                                  /\ words'[m] = words[m] \cup {w}
        BY <3>5 DEF EditedIt
      <4>2. /\ Words(ssh'[m]) = Words(ssh[m]) \cup {w}
            /\ Has(ssh'[m], Begin) => Has(ssh[m], Begin)
        BY <3>0, <4>1, WordAdded
      <4> QED BY <3>0, <3>5, <4>1, <4>2 DEF EditedIt, Covered, BackupsSuffice
    <3> QED BY <3>1, <3>2, <3>3, <3>4, <3>5
  <2>2. ASSUME UNCHANGED vars
        PROVE  \A m \in Machines : Covered(m)'
    <3>1. UNCHANGED <<ssh, saved, words>>
      BY <2>2 DEF vars, files
    <3>2. ASSUME NEW m \in Machines
          PROVE  Covered(m)'
      BY <1>2, <3>1 DEF Covered
    <3> QED BY <3>2
  <2>3. Next => \E l \in Machines : Step(l)
    BY DEF Next, Step
  <2>4. \A m \in Machines : Covered(m)'
    BY <1>2, <2>1, <2>2, <2>3
  <2> QED BY <1>2, <2>4, TypeInductive, FilesInductive
<1>3. Inv => UserTextKept
  BY DEF Covered, UserTextKept
<1> QED BY <1>1, <1>2, <1>3, PTL DEF Spec
=============================================================================
