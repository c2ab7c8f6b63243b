----------------------------- MODULE DeviceLogin -----------------------------
(***************************************************************************)
(* A user's machines: `flexctl login`, `flexctl logout` and `flexctl key`  *)
(* (internal/flexctlcli) against the control plane's devices and ssh keys  *)
(* (internal/devices, internal/sshkeys) and Headscale's nodes.             *)
(*                                                                         *)
(* A command is a sequence of steps, one for each request, each statement  *)
(* or Headscale call of a request that takes several, and each local file  *)
(* or directory it changes.  A command killed at a step, a request that is *)
(* cut off and a local error end it there: the server gives up a request   *)
(* whose client is gone.  A machine runs one command at a time.            *)
(*                                                                         *)
(* All machines are one user's: every statement and every list of nodes is *)
(* restricted to the user's.  A device name stands for the hostname made   *)
(* of it; names are valid, since Pair refuses others before it does        *)
(* anything.  Pre-auth keys are used at once or never.  A session that has *)
(* expired is a request that fails.                                        *)
(***************************************************************************)
EXTENDS SSHConfig

CONSTANTS Machines,
          Names,
          NamesOf,      \* machine -> the device names it is logged in under
          Keys,
          KeysOf,       \* machine -> its public keys, in the order of upload
          FilesOf,      \* machine -> the ssh configs it may start with
          NewWords,     \* words the user may add to an ssh config
          Commands,     \* machine -> bound on its logins and logouts
          None,
          Faults        \* machine -> what may go wrong on it, from FaultKinds

(***************************************************************************)
(*   api    a request of a command fails, with or without its effect;      *)
(*   hs     a call to Headscale fails, with or without its effect;         *)
(*   kill   a command is killed between two steps;                         *)
(*   torn   a command is killed, or the disk full, while it writes a file, *)
(*          which then holds a part of what was to be written or nothing;  *)
(*   edit   the user writes to an ssh config that has the block in it;     *)
(*   rm     keys are removed while its login uploads.                      *)
(***************************************************************************)
FaultKinds == {"api", "hs", "kill", "torn", "edit", "rm"}

ASSUME NamesOfAssumption == NamesOf \in [Machines -> SUBSET Names]
ASSUME KeysOfAssumption == \A m \in Machines : KeysOf[m] \in Seq(Keys)
ASSUME CommandsAssumption == Commands \in [Machines -> Nat]
ASSUME NoneAssumption == None \notin Names /\ None \notin Machines \X Nat

(* The tokens of ssh configs.  Editors write neither markers nor blank lines of
   their own, and what a file starts with is a sequence. *)
Text == NewWords \cup UNION {Words(f) : f \in UNION {FilesOf[m] : m \in Machines}}
Tokens == Markers \cup {NL, Blank} \cup Text

ASSUME WordsAssumption == NewWords \cap (Markers \cup {NL, Blank}) = {}
ASSUME FilesAssumption == \A m \in Machines : FilesOf[m] \subseteq Seq(Tokens)

(* The config after a torn write: ReadClientConfig finds no hostname in it. *)
Torn == "torn"
ASSUME TornAssumption == Torn \notin Names /\ Torn # None

VARIABLES
    rows,      \* name -> the id of its row of devices, or None
    nodes,     \* Headscale's nodes, [id, name] records
    keys,      \* the keys with a row in ssh_keys
    config,    \* machine -> client.toml: the device name in it, Torn or None
    state,     \* machine -> the node its tsnet directory is the state of, or None
    ssh,       \* machine -> its ssh config
    saved,     \* machine -> the user's words that are in some backup of it
    words,     \* machine -> the words the user has written to it
    pc,        \* machine -> where its command is
    cmd,       \* machine -> the command's variables
    count,     \* machine -> logins and logouts so far
    session    \* machine -> "in" from the end of a login to the next logout

server == <<rows, nodes, keys>>
files  == <<config, state, ssh, saved, words>>
vars   == <<server, files, pc, cmd, count, session>>

Ids == Machines \X Nat

(* Where a login and a logout may be. *)
Uploading  == {"list keys", "add key"}
LoggingIn  == Uploading \cup {"pair", "preauth key", "join", "upsert", "write config"}
Deleting   == {"lookup", "list nodes", "delete node"}
LoggingOut == Deleting \cup {"list", "remove state", "remove block", "remove config"}

(* The variables of a command: the device name it works on, the keys it is done
   with, the device it has found, the nodes Delete has yet to delete, and whether
   no request has failed. *)
Fresh == [name |-> None, known |-> {}, dev |-> None, seen |-> {}, ok |-> TRUE]

Goto(m, p) == pc' = [pc EXCEPT ![m] = p]

(* The command goes on at p, with a change of its variables or without. *)
Set(m, p, c) == Goto(m, p) /\ cmd' = [cmd EXCEPT ![m] = c]
Then(m, p) == Goto(m, p) /\ UNCHANGED cmd

(* A request has failed, and the command goes on. *)
Warned(m) == [cmd[m] EXCEPT !.ok = FALSE]

(* The command ends. *)
Exit(m) == Set(m, "idle", Fresh)

(* do: an error of the connection, a status of 400 or more, or an answer that
   does not arrive in time. *)
RequestFails(m) == "api" \in Faults[m]
HeadscaleFails(m) == "hs" \in Faults[m]

-----------------------------------------------------------------------------
(* `flexctl login` has a session; one that cannot get it changes nothing. *)
Login(m) ==
    /\ pc[m] = "idle" /\ count[m] < Commands[m]
    /\ count' = [count EXCEPT ![m] = @ + 1]
    /\ \E n \in NamesOf[m] : Set(m, "list keys", [Fresh EXCEPT !.name = n])
    /\ UNCHANGED <<server, files, session>>

(* autoUploadKeys: first the keys the server has.  Whatever fails is a warning. *)
ListSSHKeys(m) ==
    /\ pc[m] = "list keys"
    /\ \/ Set(m, "add key", [cmd[m] EXCEPT !.known = keys])
       \/ RequestFails(m) /\ Set(m, "pair", Warned(m))
    /\ UNCHANGED <<server, files, count, session>>

(* The files with a key that is not among them, by position. *)
Missing(m) == {i \in DOMAIN KeysOf[m] : KeysOf[m][i] \notin cmd[m].known}

(* The row of a key, which is unique: a second one is refused. *)
Insert(k) == k \notin keys /\ keys' = keys \cup {k}
Duplicate(k) == k \in keys /\ UNCHANGED keys

(* Mutated form of AddSSHKey: an error is passed over. *)
AddSSHKeyQuiet(m) ==
    /\ pc[m] = "add key"
    /\ \E i \in Missing(m) :
        /\ Insert(KeysOf[m][i]) \/ Duplicate(KeysOf[m][i]) \/ (RequestFails(m) /\ UNCHANGED keys)
        /\ Set(m, "add key", [cmd[m] EXCEPT !.known = @ \cup {KeysOf[m][i]}])
    /\ UNCHANGED <<rows, nodes, files, count, session>>

(* The first missing key is added.  One that has got there in the meantime is a
   duplicate, and like any error ends the upload. *)
AddSSHKey(m) ==
    /\ pc[m] = "add key"
    /\ \E i \in Missing(m) :
        /\ \A j \in Missing(m) : i <= j
        /\ \/ /\ Insert(KeysOf[m][i])
              /\ Set(m, "add key", [cmd[m] EXCEPT !.known = @ \cup {KeysOf[m][i]}])
           \/ /\ \/ Duplicate(KeysOf[m][i])
                 \/ RequestFails(m) /\ (Insert(KeysOf[m][i]) \/ UNCHANGED keys)
              /\ Set(m, "pair", Warned(m))
    /\ UNCHANGED <<rows, nodes, files, count, session>>

KeysUploaded(m) ==
    /\ pc[m] = "add key" /\ Missing(m) = {}
    /\ Then(m, "pair")
    /\ UNCHANGED <<server, files, count, session>>

(* Pair: the row is inserted, or the one of that name kept ... *)
UpsertDevice(m) ==
    /\ pc[m] = "pair"
    /\ rows' = [rows EXCEPT ![cmd[m].name] = IF @ = None THEN <<m, count[m]>> ELSE @]
    /\ Then(m, "preauth key")
    /\ UNCHANGED <<nodes, keys, files, count, session>>

(* ... and a key made; if that fails the row stays. *)
CreatePreAuthKey(m) ==
    /\ pc[m] = "preauth key"
    /\ \/ Then(m, "join")
       \/ HeadscaleFails(m) /\ Exit(m)
    /\ UNCHANGED <<server, files, count, session>>

(* PairDevice fails before, between or after the two. *)
PairDeviceFails(m) ==
    /\ pc[m] \in {"pair", "preauth key"}
    /\ RequestFails(m)
    /\ Exit(m)
    /\ UNCHANGED <<server, files, count, session>>

(* A tsnet node comes up: the state in its directory is used as long as Headscale
   knows the node, which then takes the new hostname; otherwise a node is
   registered with the pre-auth key. *)
Register(m) ==
    LET new == IF \E x \in nodes : x.id = state[m] THEN state[m] ELSE <<m, count[m]>>
    IN  /\ state' = [state EXCEPT ![m] = new]
        /\ nodes' = {x \in nodes : x.id # new} \cup {[id |-> new, name |-> cmd[m].name]}

(* Start does not return a node that is not up, registered or not. *)
StartFails(m) == HeadscaleFails(m) /\ (Register(m) \/ UNCHANGED <<nodes, state>>)

Join(m) ==
    /\ pc[m] = "join"
    /\ \/ Register(m) /\ Then(m, "upsert")
       \/ StartFails(m) /\ Exit(m)
    /\ UNCHANGED <<rows, keys, config, ssh, saved, words, count, session>>

(* os.WriteFile of g over m's ssh config, which truncates the file first. *)
WriteFile(m, g) == ssh' = [ssh EXCEPT ![m] = g]

WriteFails(m, g) ==
    /\ "torn" \in Faults[m]
    /\ \E n \in 0..(Len(g) - 1) : WriteFile(m, SubSeq(g, 1, n))

(* Login ends when the write fails. *)
UpsertSSHConfig(m) ==
    /\ pc[m] = "upsert"
    /\ saved' = [saved EXCEPT ![m] = IF BackedUp(ssh[m]) THEN @ \cup Words(ssh[m]) ELSE @]
    /\ \/ WriteFile(m, Upserted(ssh[m])) /\ Then(m, "write config")
       \/ WriteFails(m, Upserted(ssh[m])) /\ Exit(m)
    /\ UNCHANGED <<server, config, state, words, count, session>>

(* client.toml after WriteClientConfig, which may be killed too, before the
   hostname is in the file or after it. *)
WriteClientConfig(m) ==
    \/ /\ config' = [config EXCEPT ![m] = cmd[m].name]
       /\ session' = [session EXCEPT ![m] = "in"]
    \/ /\ "torn" \in Faults[m]
       /\ config' \in {[config EXCEPT ![m] = Torn], [config EXCEPT ![m] = cmd[m].name]}
       /\ UNCHANGED session

(* The last step of login. *)
Persist(m) ==
    /\ pc[m] = "write config"
    /\ WriteClientConfig(m)
    /\ Exit(m)
    /\ UNCHANGED <<server, state, ssh, saved, words, count>>

-----------------------------------------------------------------------------
(* The device name in client.toml.  A file without it is no error. *)
ReadClientConfig(m) == IF config[m] = Torn THEN None ELSE config[m]

(* `flexctl logout`; without a config there is nothing to do. *)
Logout(m) ==
    /\ pc[m] = "idle" /\ count[m] < Commands[m]
    /\ config[m] # None
    /\ count' = [count EXCEPT ![m] = @ + 1]
    /\ session' = [session EXCEPT ![m] = "leaving"]
    /\ Set(m, "list", [Fresh EXCEPT !.name = ReadClientConfig(m)])
    /\ UNCHANGED <<server, files>>

(* Mutated form of ListDevices: that no device is found is not looked at. *)
ListDevicesAny(m) ==
    /\ pc[m] = "list"
    /\ cmd[m].name # None
    /\ Set(m, "lookup", [cmd[m] EXCEPT !.dev = rows[cmd[m].name]])
    /\ UNCHANGED <<server, files, count, session>>

(* The user's device with the config's hostname is looked for; a config without
   one finds none, and may lack the control plane to ask. *)
ListDevices(m) ==
    /\ pc[m] = "list"
    /\ \/ /\ cmd[m].name # None
          /\ rows[cmd[m].name] # None
          /\ Set(m, "lookup", [cmd[m] EXCEPT !.dev = rows[cmd[m].name]])
       \/ /\ cmd[m].name # None
          /\ rows[cmd[m].name] = None
          /\ Then(m, "remove state")
       \/ /\ cmd[m].name = None \/ RequestFails(m)
          /\ Set(m, "remove state", Warned(m))
    /\ UNCHANGED <<server, files, count, session>>

(* Delete: the row may be gone since ... *)
ByID(m) ==
    /\ pc[m] = "lookup"
    /\ Then(m, IF rows[cmd[m].name] = cmd[m].dev THEN "list nodes" ELSE "remove state")
    /\ UNCHANGED <<server, files, count, session>>

(* Mutated form of Matching: all nodes of the user. *)
MatchingAll(m) == nodes

(* The nodes Delete is after: those of the hostname, whatever machine they are. *)
Matching(m) == {x \in nodes : x.name = cmd[m].name}

(* Mutated form of ListNodes: the first match will do. *)
ListNodesFirst(m) ==
    /\ pc[m] = "list nodes"
    /\ \/ \E x \in Matching(m) : Set(m, "delete node", [cmd[m] EXCEPT !.seen = {x}])
       \/ Matching(m) = {} /\ Then(m, "delete node")
    /\ UNCHANGED <<server, files, count, session>>

(* ... the nodes are listed, if Headscale answers ... *)
ListNodes(m) ==
    /\ pc[m] = "list nodes"
    /\ \/ Set(m, "delete node", [cmd[m] EXCEPT !.seen = Matching(m)])
       \/ HeadscaleFails(m) /\ Set(m, "delete node", Warned(m))
    /\ UNCHANGED <<server, files, count, session>>

(* ... deleted one by one, as far as Headscale does it ... *)
DeleteNode(m) ==
    /\ pc[m] = "delete node"
    /\ \E x \in cmd[m].seen :
        \/ /\ nodes' = {y \in nodes : y.id # x.id}
           /\ Set(m, "delete node", [cmd[m] EXCEPT !.seen = @ \ {x}])
        \/ /\ HeadscaleFails(m)
           /\ nodes' \in {nodes, {y \in nodes : y.id # x.id}}
           /\ Set(m, "delete node", [Warned(m) EXCEPT !.seen = @ \ {x}])
    /\ UNCHANGED <<rows, keys, files, count, session>>

(* ... and then the row, by its id. *)
DeleteDevice(m) ==
    /\ pc[m] = "delete node" /\ cmd[m].seen = {}
    /\ rows' = [rows EXCEPT ![cmd[m].name] = IF @ = cmd[m].dev THEN None ELSE @]
    /\ Then(m, "remove state")
    /\ UNCHANGED <<nodes, keys, files, count, session>>

(* The request ends early; logout does not look at the error. *)
DeleteDeviceFails(m) ==
    /\ pc[m] \in Deleting
    /\ RequestFails(m)
    /\ Set(m, "remove state", Warned(m))
    /\ UNCHANGED <<server, files, count, session>>

(* The session is dropped, which leaves no trace, and the tsnet state removed. *)
RemoveState(m) ==
    /\ pc[m] = "remove state"
    /\ state' = [state EXCEPT ![m] = None]
    /\ Then(m, "remove block")
    /\ UNCHANGED <<server, config, ssh, saved, words, count, session>>

(* Logout does not look at the error of this either, unless it was killed. *)
RemoveSSHConfigBlock(m) ==
    /\ pc[m] = "remove block"
    /\ \/ /\ Has(ssh[m], Begin)
          /\ saved' = [saved EXCEPT ![m] = @ \cup Words(ssh[m])]
          /\ \/ WriteFile(m, Removed(ssh[m])) /\ Then(m, "remove config")
             \/ /\ WriteFails(m, Removed(ssh[m]))
                /\ Then(m, "remove config") \/ Exit(m)
       \/ /\ Has(ssh[m], Begin) => "torn" \in Faults[m]
          /\ Then(m, "remove config") /\ UNCHANGED <<ssh, saved>>
    /\ UNCHANGED <<server, config, state, words, count, session>>

(* The last step of logout. *)
RemoveConfig(m) ==
    /\ pc[m] = "remove config"
    /\ config' = [config EXCEPT ![m] = None]
    /\ session' = [session EXCEPT ![m] = "out"]
    /\ Exit(m)
    /\ UNCHANGED <<server, state, ssh, saved, words, count>>

-----------------------------------------------------------------------------
Kill(m) ==
    /\ "kill" \in Faults[m]
    /\ pc[m] # "idle"
    /\ Exit(m)
    /\ UNCHANGED <<server, files, count, session>>

(* `flexctl key add` and `flexctl key rm`. *)
KeyAdd(m, k) ==
    /\ pc[m] = "idle" /\ config[m] \in Names
    /\ Insert(k)
    /\ UNCHANGED <<rows, nodes, files, pc, cmd, count, session>>

KeyRm(m, k) ==
    /\ pc[m] = "idle" /\ config[m] \in Names
    /\ \A l \in Machines : pc[l] \in Uploading => "rm" \in Faults[l]
    /\ k \in keys /\ keys' = keys \ {k}
    /\ UNCHANGED <<rows, nodes, files, pc, cmd, count, session>>

(* The user adds a word to the ssh config, in an editor. *)
Edit(m) ==
    /\ pc[m] = "idle"
    /\ Has(ssh[m], Begin) => "edit" \in Faults[m]
    /\ \E w \in NewWords \ words[m] :
        /\ ssh' = [ssh EXCEPT ![m] = @ \o <<w, NL>>]
        /\ words' = [words EXCEPT ![m] = @ \cup {w}]
    /\ UNCHANGED <<server, config, state, saved, pc, cmd, count, session>>

-----------------------------------------------------------------------------
Init ==
    /\ rows = [n \in Names |-> None] /\ nodes = {} /\ keys = {}
    /\ config = [m \in Machines |-> None] /\ state = [m \in Machines |-> None]
    /\ ssh \in {f \in [Machines -> UNION {FilesOf[m] : m \in Machines}] :
                    \A m \in Machines : f[m] \in FilesOf[m]}
    /\ saved = [m \in Machines |-> {}]
    /\ words = [m \in Machines |-> Words(ssh[m])]
    /\ pc = [m \in Machines |-> "idle"] /\ cmd = [m \in Machines |-> Fresh]
    /\ count = [m \in Machines |-> 0]
    /\ session = [m \in Machines |-> "out"]

LoginStep(m) ==
    \/ ListSSHKeys(m) \/ AddSSHKey(m) \/ KeysUploaded(m)
    \/ UpsertDevice(m) \/ CreatePreAuthKey(m) \/ PairDeviceFails(m)
    \/ Join(m) \/ UpsertSSHConfig(m) \/ Persist(m)

LogoutStep(m) ==
    \/ ListDevices(m) \/ ByID(m) \/ ListNodes(m) \/ DeleteNode(m)
    \/ DeleteDevice(m) \/ DeleteDeviceFails(m)
    \/ RemoveState(m) \/ RemoveSSHConfigBlock(m) \/ RemoveConfig(m)

Next ==
    \E m \in Machines :
        \/ Login(m) \/ LoginStep(m)
        \/ Logout(m) \/ LogoutStep(m)
        \/ Kill(m) \/ Edit(m)
        \/ \E k \in Keys : KeyAdd(m, k) \/ KeyRm(m, k)

Spec == Init /\ [][Next]_vars

-----------------------------------------------------------------------------
TypeOK ==
    /\ rows \in [Names -> Ids \cup {None}]
    /\ nodes \subseteq [id : Ids, name : Names]
    /\ keys \subseteq Keys
    /\ config \in [Machines -> Names \cup {Torn, None}]
    /\ state \in [Machines -> Ids \cup {None}]
    /\ pc \in [Machines -> LoggingIn \cup LoggingOut \cup {"idle"}]
    /\ cmd \in [Machines -> [name : Names \cup {None}, known : SUBSET Keys,
                              dev : Ids \cup {None}, seen : SUBSET [id : Ids, name : Names],
                              ok : BOOLEAN]]
    /\ count \in [Machines -> Nat]
    /\ \A m \in Machines : /\ count[m] <= Commands[m]
                           /\ pc[m] \in LoggingIn => cmd[m].name \in NamesOf[m]
                           /\ pc[m] \in Deleting => cmd[m].name # None /\ cmd[m].dev # None
    /\ session \in [Machines -> {"in", "leaving", "out"}]

(* The config is written last and removed last, so a machine that has completed
   a login has, until it logs out, what `flexctl proxy` and `flexctl logout`
   need: a tsnet state whose node Headscale knows, since proxy starts without a
   pre-auth key, and a row by which logout finds the device.  No failed or killed
   login in between, and no command of another machine, takes them away. *)
LoggedInIsKnown ==
    \A m \in Machines : session[m] = "in" /\ config[m] \in Names =>
        /\ \E x \in nodes : x.id = state[m]
        /\ rows[config[m]] # None

(* A logout that finds its device and meets no failure leaves neither the row nor
   any node of the hostname, orphans of earlier logouts that did fail included:
   "Removes the device from Headscale". *)
CleanLogout ==
    \A m \in Machines :
        pc[m] = "remove config" /\ cmd[m].ok /\ cmd[m].dev # None =>
            rows[cmd[m].name] = None /\ Matching(m) = {}

(* A login that does not warn has all the machine's keys on the server, whatever
   another machine uploads meanwhile. *)
QuietLoginUploads ==
    [][\A m \in Machines : pc[m] = "add key" /\ pc'[m] = "pair" /\ cmd'[m].ok =>
           \A i \in DOMAIN KeysOf[m] : KeysOf[m][i] \in keys']_vars

(* "Existing content outside the markers is preserved": whatever the user has
   written is in the ssh config or in a backup of it, wherever a command is
   killed. *)
UserTextKept == \A m \in Machines : words[m] \subseteq Words(ssh[m]) \cup saved[m]

(* "~/.ssh/config updated": when login says so the file holds the block, whole and
   once, whatever earlier commands have left there - unless that is a begin
   marker without its end, which replaceBlock does not touch. *)
UpdatedHasBlock ==
    \A m \in Machines : pc[m] = "write config" =>
        \/ HasBlock(ssh[m])
        \/ Has(ssh[m], Begin) /\ ~Has(ssh[m], End)
=============================================================================
