# A TLA+ model of flexctl

flexctl rents GPU containers: a control plane keeps users, nodes and
environments in PostgreSQL, an agent on each GPU node runs the containers, and
Headscale (a tailnet) connects users' machines to them.  This directory models
the parts of it that change state, checks them with TLC on small instances and
proves the main safety results with TLAPS for every instance.

## The system

| Component | State | Operations | Talks to | What is hard |
|---|---|---|---|---|
| GPU allocator (`envlifecycle/allocator.go`) | map environment -> GPU indices, a mutex | Allocate, Release, RestoreFromDocker (never called) | the handlers | a process restart forgets it |
| Agent command handlers (`envlifecycle/dispatcher.go`) | none of its own; Docker's containers and volumes | HandleCreate, HandleStart, HandleStop, HandleDelete, BuildEnvStateSnapshot | allocator, Docker, the stream | one goroutine per command, no order between them; every call may fail and be half undone |
| Agent connection loop (`flexctlagent/agent.go`) | the current stream | connect, register, snapshot, heartbeat, receive, back off | control plane | reconnects overtake the end of the old stream; results are bound to the stream the command came by |
| Stream server (`agentstream/server.go`) | registry node -> stream | Stream (one handler per connection), EnvsDispatcher | agents, envs, nodes | two handlers of one node at once; deferred clean-up |
| Environments (`envs/`) | rows with a status | create, stop, start, delete, Mark... | EnvsDispatcher | row, command and container change at different times |
| Nodes (`nodes/`) | pair tokens, nodes | CreatePairToken, PairNode, AuthenticateNodeToken, RecordHeartbeat, MarkOffline | `flexctl join`, Stream | concurrent transactions on one token |
| Users and policy (`users/`, `policy/`, `headscale/`) | user rows, Headscale users, the policy in force | Signup, OnUserCreated, Refresh, Initialize, HardDelete | Headscale | a read and a push without a lock; a rollback that can fail |
| Devices, ssh keys (`devices/`, `sshkeys/`) | device and key rows, Headscale's nodes | Pair, List, Delete; Add, List, Delete | Headscale, `flexctl` | a request of several statements and calls, without a transaction |
| `flexctl login`, `logout`, `key` (`flexctlcli/`) | client.toml, tsnet state, ssh config, backups | login, logout, key add and rm | control plane, Headscale | killed anywhere; files are truncated before they are written; errors that are warnings or ignored |
| ssh config block (`flexctlcli/sshconfig.go`) | the user's file | UpsertSSHConfig, RemoveSSHConfigBlock | login, logout | replaced by markers, over and over, in a file the user edits |
| Proxy (`flextsnet/server.go`, `flexctlcli/proxy.go`) | a connection with a send buffer, two goroutines | startWithRetry, Dial, Pipe, the deferred Close | ssh, tsnet | each side ends, resets or vanishes while a goroutine is blocked; the buffer goes with the process |
| Sidecar, sessions, templates, audit log, GPU detection, `flexctl ssh`, `env list` | | commands, single statements, formats | | not modelled |

What makes each part right, in one line: the allocator never hands out an index
twice; whatever a handler reports is true of the node, and it gives back what it
took; the registry refers to live streams; rows and containers agree after a
reconnect; a pair token makes one node; the policy knows every user; a machine
that is logged in can be reached and removed, and logging out leaves nothing;
the user's ssh config survives; a proxy ends when stdin
does and reports a session that was cut off.

## Modules

* `GPUPool` - the node's environments, GPU indices and request sizes, the
  constants that the next two modules share.
* `GPUAllocator` - the allocator, each method one atomic step (each holds the
  mutex for its whole body).  It is the abstract specification of what
  `EnvDispatcher` does to the reservations, and checked there.
* `EnvDispatcher` - the four handlers over the allocator and Docker.  The order
  of calls of a handler, success and failure, is a table (`HandleCreate`,
  `HandleStart`, `HandleStop`, `HandleDelete`, with the common clean-up `Undo`);
  every Docker call, allocator call and send is an action, so handlers
  interleave wherever the goroutines can.  Containers know who created them:
  calls by id (`ById`) do not touch a namesake made by another handler.
  `INSTANCE GPUAllocator` maps `allocated` to itself.
* `EnvHandlers` - what the handlers promise: a command is received and executed
  at most once, its dev container changes in one step, which also decides what
  will be reported, and is then reported.  `AgentStream` is built on its `Execute`
  and implements it; `EnvDispatcher` implements it call by call (`BoxOf`, `JobOf`,
  `ResultOf`): a handler of stop or delete counts as decided once it has stopped
  the dev container, one of create or start once that runs or a call has failed;
  until then the container counts as it was before, after that as it is going to
  be.
* `AgentStream` - HTTP handlers, EnvsDispatcher, registry and Stream handlers
  on one side, `runOnce` and its command handlers on the other, over connections
  that break.  A command handler is two steps here (effect, report), those of
  `EnvHandlers`.
* `NodePairing` - `PairNode` statement by statement at READ COMMITTED, with row
  locks, rollbacks, crashes, and `flexctl join`.
* `PairLedger` - what pairing promises, without requests or transactions: in one
  step a token is spent and a node entered under a free name.  `NodePairing`
  implements it (`spent <- used`, `members <- nodes`): only `CreatePairToken` and
  `Commit` are steps of the ledger.
* `UserPolicy` - signup, its rollback, the two halves of Refresh, and
  Initialize at start-up.  Headscale calls and statements fail with or without
  effect, the rollback's `DELETE` included, and once the request's context has ended
  (the client hangs up, or the 30 seconds of `middleware.Timeout` are over) all of
  them fail.
* `SSHConfig` - the ssh config block as operators on files of tokens (markers,
  body, newlines, blanks, words of the user).
* `DeviceLogin` (extends `SSHConfig`) - a user's machines running `login`,
  `logout` and `key` against device rows, Headscale's nodes and key rows; every
  request, statement, Headscale call and file of a command is a step.
* `ProxyPipe` - one `flexctl proxy`: start, dial, the two goroutines of `Pipe`
  and the channel they report on, between ssh and the remote sshd.  A `Write` to
  the connection fills a send buffer inside the process, the network empties it
  (`Transmit`) when it can, and the deferred `srv.Close` (`Exit`) drops what is
  left of it.
* `MC...` - values of the constants for TLC.
* `...Proofs` - theorems, a module for each of the above; `EnvAnswersProofs`
  (extends `EnvDispatcherProofs`) holds those about what the agent's answers are
  worth.

The environment's liberties are the constant `Faults` of each module: a run says
which faults and user behaviour it admits.  The theorems hold for every value,
or say by a named hypothesis for which.  `Mutated form of` marks definitions that no specification uses: each
is a plausible slip in the code and is there to show that a property notices it.

### Correspondence

* A key with an empty slice and no key at all are the same reservation; slices
  of GPU indices are sets (only which ones Allocate picks depends on order).
* A container is `[by, state, gpus, label]`; Docker's behaviour is modelled from
  how the handlers use it: names are unique, a volume in use cannot be removed,
  a dev container starts only in the network of a running sidecar, a stop or
  removal that does not find its container fails.  A failing call has no effect.
* Rows are their status; "absent" is no row.  Identifiers, hostnames, keys,
  template data, texts of errors, logs and the audit log are left out.
* Node pairing: a token stands for its hash, expiry is an event.
* A policy is the tags it declares and the pairs of tags it lets through; the
  port and the tags' owner are the same in all of them.  `emptyPolicy` is what
  Refresh pushes when there is no user.
* Devices: a name stands for the hostname `<slug>-device-<name>`; names are valid.
  A node is known to Headscale by an id that the tsnet state directory holds; a
  node that comes up with a known state keeps its id and takes the new hostname.
  A key is its fingerprint.  Login's and logout's own session requests change
  nothing here; an expired session is a request that fails.
* A torn write leaves any part of the text, tokens being whole; a cut marker is
  text that no longer matches, so it is like no marker.  A backup made within the
  same second as another has its name and would replace it: backups are modelled
  as all different.
* The proxy's data are counted in chunks.  A write goes into the send buffer
  whatever has become of the remote, and waits while `Buffer` chunks are unsent; a
  chunk that reaches a remote that has closed draws a reset, after which writes
  fail, and so does giving up a remote that has vanished.  A remote that is there
  may take nothing for ever, and ssh need not read its output.  SIGPIPE ends a proxy that writes to a
  stdout nobody reads.

## Runs

| Run | Instance | Shows |
|---|---|---|
| `dispatcher_paced` | two environments of 1 GPU on a node with 2; six commands for one, two for the other; create, start, health and inspect calls fail | if the commands of one environment do not overlap, every answer is true (`ReadyIsRunning`, `FailedHoldsNothing`, `DeletedLeavesNothing`), running containers use only reserved GPUs, which makes them exclusive (`ReservedIsExclusive`), a dev container always has its network; refinement of `EnvHandlers` |
| `dispatcher_contention` | create and start of one environment racing each other and a create of another that wants both GPUs; every fault, one restart | refinement of `GPUAllocator`; disjoint reservations, made of the first indices of the ascending list of free ones; `NoGPULeak`, `LabelKeepsCount`; every command is answered |
| `stream_orderly` | one environment through its life, two connections, links that break between actions | rows and containers agree after each reconnect; a failed create leaves nothing; no command is executed twice (refinement of `EnvHandlers`) |
| `stream_chaos` | a create and a delete, two connections, one restart of either side, every fault | no stale stream in the registry, no row revived |
| `stream_liveness` | three connections, old handlers overlapping new ones | the node's status converges |
| `pairing` | four joins, two tokens, colliding names, aborts and crashes | single use, a stored node token has its node, no join waits for ever, refinement of `PairLedger` |
| `policy_serial` | three signups over two slugs, failing Headscale calls and statements, requests that are cancelled or time out, two kills of the control plane | signed-up users are recognised, a row left of a failed signup is in the log, Initialize repairs |
| `device_login` | two machines with one key in common; on one, four commands with failing requests and Headscale calls, kills and torn writes; on the other, two commands and a change of name | a logged-in machine keeps its row and node; a logout without failures leaves neither; no warning means all keys uploaded; the user's words survive; the block is there, once |
| `proxy` | three writes of ssh, two of the remote, a send buffer for one, every way for either to end | Pipe's first report is the cause; without an error one side's data are complete; the proxy ends with stdin |
| `dispatcher_restart` (violation) | two creates, one restart | the GPU of a running container is given away |
| `stream_late` (violation) | two connections | the old handler unregisters the new stream |
| `proxy_remote` (violation) | a remote that closes, an ssh that keeps stdin open | Pipe waits for the goroutine that reads stdin |

`CHECK_DEADLOCK FALSE` stands where the environment may stop: commands,
requests, connections, signups and logins are finite in number, and a proxy
ends.  Node pairing has an
explicit final stutter (`Over`) instead and is checked for deadlock.

### Bounds

Each command, request, join and signup happens at most once; `MaxConns`,
`MaxRestarts` bound connections and restarts.  Two environments and two GPUs are
enough for one to hold what the other asks for and for a start to get other
GPUs than before; two connections for an old handler to meet a new one, three
for a second hand-over; one environment suffices on a stream because rows of
different environments are touched by separate statements.  A token presented
three times meets a lock, a rollback and a used row; two tokens and one name
meet the unique key.  `Commands` bounds a machine's logins and logouts: four let
a login meet what a failed login, a failed or killed logout and a torn file have
left, and one machine without faults is enough to be disturbed.  Three writes of
ssh and a buffer for one let a write meet a full buffer and leave a chunk to be
dropped.  Of three signups two want the same slug and the third's policy must keep
or leave out theirs; with two kills the second may hit the boot after the first.

### Fairness

* `EnvDispatcher`: weak fairness of each handler.  Docker calls return, the
  mutex is held for a few instructions and health polling has a deadline.
  Nothing obliges a command to be sent.
* `AgentStream`: weak fairness of the agent's loop (it retries for ever and
  beats on a ticker), of the server's handlers, and of the acceptance of a
  connection that is up.  Links need not break and users need not act.
* `NodePairing`: strong fairness for the row lock, which PostgreSQL grants in
  queue order, weak for the rest of a request.
* `ProxyPipe`: weak fairness of each goroutine of Pipe, of Pipe itself and of the
  return of the command, that is, of Go's scheduler.  A goroutine that writes to
  stdout is not obliged to get on (ssh need not read), the network need not send,
  and nothing obliges ssh or the remote to write or to end; in particular there
  are no keepalives: the managed ssh block sets them, but `flexctl ssh` starts the
  same proxy without that block.  `StdinEndEndsProxy` therefore excepts behaviours
  in which a goroutine is `Stalled` for ever by an end that takes nothing.  Start,
  Retry and Dial have no fairness: the command's context has no deadline, and tsnet
  may take its time to come up.

## Disagreements between the code and what it says

Three are runs (`findings` in `PROJECT.json`).  Others met while modelling:

* The platform design promises that reconnecting makes both sides' states agree
  (2026-05-10-flexctl-platform-design.md:363) and that environments in creation
  are looked up again (:364).  The snapshot's handler only marks running rows the
  agent does not list: a create lost with the link stays in creation for ever.
  `RowsAgree` shows it in `AgentStream_orderly.cfg` once `busy` is in `Faults`.
* OnUserCreated "refreshes the ACL policy so the user's tags are recognized"
  (policy.go:78-80) and Refresh is "Idempotent and safe to call repeatedly"
  (policy.go:44-45), but reads the slugs and pushes the policy without a lock: of
  two overlapping signups the one that read first may push last and drop the
  other.  `SignedUpRecognized` shows it once `overlap` is in `Faults`.
* Two machines of a user with the same device name - `sanitizeDeviceName` calls
  every host it cannot name "device" - share a row, and their nodes a hostname:
  the logout of one deletes the row and the nodes of both (devices/service.go:183).
  `CleanLogout` and `LoggedInIsKnown` fail with overlapping `NamesOf`.
* "any orphan Headscale node will be reconciled on the user's next `flexctl
  login` (which re-pairs and supersedes stale entries by hostname)"
  (devices/service.go:177-179): Pair deletes no node, and login registers a new
  one beside the orphan.  The next logout that succeeds deletes both
  (`CleanLogout`).
* `flexctl logout` prints "Logged out." whatever failed, and removes client.toml,
  by whose hostname alone the device could be found again; the repository's
  README says it "Removes the device from Headscale".  A logout repeated after
  one that was killed behind the deletion of the row finds no device and leaves
  the nodes that the first could not delete.  A login killed before client.toml
  is written leaves row, node, state and ssh block to a logout that says "already
  logged out".
* A begin marker without an end marker makes replaceBlock return the file as it
  is (sshconfig.go:107-110), and login prints that ~/.ssh/config was updated
  (login.go:108); `UpdatedHasBlock` makes an exception of it.
* A backup is made only of a file without a block (sshconfig.go:47), so what the
  user adds beside the block is lost when the next login's write is torn (fault
  `edit` with `torn`).
* Pipe's comment says it "Returns when either side closes" (server.go:56-57): the
  run `proxy_remote`.  The end of the remote does not return it, as only the
  goroutine that reads stdin closes the connection; that ends when stdin does or a
  write fails.  The ServerAlive options of the managed block make ssh write and
  then exit; `flexctl ssh` (ssh.go:40-46) does not set them.  When a write to a
  finished remote fails first, output that has arrived but was not read is
  dropped with the connection.
* The proxy returns from Pipe as soon as stdin has been written to the connection
  and the other goroutine has met the Close; the deferred `srv.Close`
  (proxy.go:39) then takes the network stack down with whatever it has not sent.
  The last input of a session may be lost by a proxy that exits without an error:
  `SuccessIsComplete` says that all of it was written, not that it arrived.
* `sanitizeDeviceName` does not bound the length to the 32 characters that Pair
  accepts (devices/service.go:26): a host with a longer name cannot log in without
  `--device-name`.
* Run's comment says "cap at BackoffMax" (agent.go); the jitter is added after the
  cap, so a delay may be a quarter longer.
* The design's failure table (environment lifecycle design, section 12) has a
  failed stop reported as an error; `HandleStop` logs it, releases the GPUs and
  sends EnvStopped (dispatcher.go:192-203).
* Where replacing the sidecar fails, `HandleStart` sends EnvError before it
  releases (dispatcher.go:243, 261).  A start sent in between loses its
  reservation while its container runs (fault `early`).
* `HandleStart` copies the old labels to the new container (dispatcher.go:293):
  `gpu_indices` is right in number (`LabelKeepsCount`) but may list other GPUs
  than the container has, so that calling `RestoreFromDocker`, which nothing
  does, would restore the wrong ones.
* `runOnce` takes any first message for RegisterAck (agent.go:143-144), and
  Stream registers the connection before it acknowledges (server.go:107): a
  command dispatched in between is dropped (fault `early` of `AgentStream`).
* "the signup handler will compensate by deleting the user row"
  (users/handlers.go:21-22): the rollback is one statement made with the request's
  context, and that it failed is only logged (users/handlers.go:187-189).  A client
  that hangs up, a request that takes longer than 30 seconds or a database error
  leaves a row that keeps slug and email taken.  `LeftoverIsLogged` says that this is all:
  no row stays without a line in the log.
* CreateUser takes every 400 and 409 for ErrUserAlreadyExists
  (headscale/client.go:68), so that a user Headscale refused for another reason is
  signed up without one there.  `SignedUpRecognized` shows it once `odd` is in
  `Faults`.

## Proofs

All theorems hold for every value of the constants that satisfies the named
assumptions.  Those are properties of the data and not of behaviour: GPU indices
are a finite set of integers and requests natural numbers (`GPUsAssumption`,
`CountsAssumption`), as many GPUs as a label can list may be asked for
(`LabelsAssumption`), the acknowledgement of a registration is no command
(`AckAssumption`), an ssh config is a sequence of tokens and a word of the user's
is not a marker (`FilesAssumption`, `WordsAssumption`), and the like.  A theorem
that is not about every set of faults, or every use, has a hypothesis with a name:

| Hypothesis | Says | Why |
|---|---|---|
| `Orderly` (`EnvAnswersProofs`) | one create per environment; its commands one after the other, and no start of one that was reported ready; Docker stops what it is told to and the agent does not restart.  Creating, starting, inspecting, removing and health checks may fail, and containers may exit by themselves | ids are fresh UUIDs (`envs/service.go`), and a user who waits for an answer sends one command at a time, which nothing enforces.  The excluded faults make answers untrue: `HandleStop` reports success after a failed stop, and a restart forgets the reservations (`dispatcher_restart`) |
| `NoExits` (`EnvAnswersProofs`) | no container exits by itself | nothing tells the agent when one does: a ready environment may not run any more |
| `Removing` (`EnvAnswersProofs`) | Docker removes what it is told to | `HandleDelete` ignores every error and reports EnvDeleted |
| `OrderlyUse` (`AgentStreamProofs`) | one create per environment; users act on one at rest, and not in the way of a connection that is being set up or lost; links break when nothing is under way, and the old handler has returned when the agent is back; neither side restarts, statements, listings, stops and removals do not fail.  Handlers of creates and starts and Headscale may fail, containers may exit while the agent is away | as above.  A link that breaks under a command loses it for good, see the first disagreement |
| `NamesDisjoint`, `NoRemovals` (`DeviceLoginProofs`) | machines of a user have device names of their own; no key is removed during an upload | for the names see the disagreements; login lists the keys once and does not see one go |
| `StartsWhole` (`DeviceLoginProofs`) | an ssh config starts with at most one begin marker and no end marker but that of a block | markers are flexctl's own |
| `BackupsSuffice` (`DeviceLoginProofs`) | where writes may be torn the file starts without a block, and the user leaves it alone while it has one | a file with a block is not backed up before it is overwritten |

The hypotheses are satisfied by the runs that check the same properties, which
differ from them only in being small.

* `AllocatorSafe`: `GPUAllocator` keeps reservations disjoint and in range.
  `TypeOK /\ AllocatedDisjoint` is inductive, since `LowestFree` picks from
  `Free`, the complement of everybody's reservation, the caller's own included.
* `GrantsWhatIsAsked`: the rank of an index among the free ones, the number of
  free indices below it, maps them one to one onto `0..Cardinality(Free)-1`
  (`RankBijective`), so exactly n have a rank below n (`LowestCount`), and they are
  below the others (`LowestBelow`).
* `HandlersPickLowest`: the code sorts the free indices and takes the first n.  In
  every ascending list of them the k-th has rank k-1 (`ListRank`, `LowestAreFirst`), so these are
  the indices of rank below n.
* `TypeCorrect`: every command is at a stage of its own handler.  The stages are
  part of the type invariant, because `After` looks them up in the tables.
* `ImplementsAllocator`: every step of `EnvDispatcher` is an allocator step or
  leaves the reservations alone.  The one fact needed is that the number of
  indices a label lists is a legal request (`LabelsAssumption`).
  `ReservationsDisjoint` follows by the argument of `AllocatorSafe`, and from that
  `ReservedIsExclusive`: running containers that use only what is reserved for
  them share no GPU.
* `GPUsNeverLeak`: `NoGPULeak` is not inductive, since an active handler may
  hold a reservation for a container it has yet to start.  The strengthening
  says that as long as an environment has GPUs and no started dev container,
  some handler of it is at a stage from which it is bound to start one or to
  call Release.
* `LabelsKeepCount` (every fault): `LabelKeepsCount` is about containers, but a
  start carries the number from the old container's label to the new one, through
  a reservation.  `LabelInv` adds that from `Allocate` until the container is made
  the handler holds as many GPUs as the label it has read lists, which is where
  `GrantsWhatIsAsked` comes in.
* `OrderlyRunsReserved`, `FailureMeansNothing` (`Orderly`), `OrderlyHasNetwork`,
  `ReadyMeansRunning` (and `NoExits`), `DeletedMeansNothing` (and `Removing`): what is true when an
  answer is sent has been made so many calls earlier.  `AnswersInv` therefore says
  for each stage of each handler what there is of its environment - nothing
  running or reserved, the sidecar, the pair on exactly the reserved GPUs, a part
  already removed (`BuildsUp`, `TakesDown`) - and for an environment without a
  handler that its last answer is true (`Settled`).  `OrderlyExclusive` follows
  with `ReservedIsExclusive`.
* `HandlersAsPromised` (`Orderly`, `Removing`): every call of `EnvDispatcher` is a
  step of `EnvHandlers` or none, through the mapping above.  `AnswersInv` gives that
  one handler at a time works on an environment and that what it works on does not
  run; `DevInv` adds where the dev container is: a create finds none, a start
  has seen one until it removes it, and what a handler starts or undoes is its
  own.  A delete is decided at its stop, before the removal, which is why removals
  must not fail: whether one will would have to be known in advance.
* `HandlersRunOnce` (every fault): `AgentStream` implements `EnvHandlers`.  A command
  is received only if its handler has not begun; the invariant `OnceInv` says that
  a request has put its command on at most one wire, once, and that on a wire or
  before it is sent no handler of it has begun.
* `StreamTypeCorrect`: with the wires (`Wired`), whose messages become the
  receivers' state.
* `ReconnectReconciles`, `FailedCreateClean` (`OrderlyUse`): `RowsAgree` relates a
  row to a container, and between them are a request, two wires, a handler and a
  snapshot.  `UseInv` has a part for each: one link, one handler and one registered
  stream at a time (`Lines`); the order and uniqueness of what is on the wires
  (`Downlink`, `Uplink`); that a request under way is at one place and the only
  one of its environment (`Flow`); what its container is there and what will be
  reported of it (`Boxes`); that a row may be wrong only while a report is under
  way or a snapshot that leaves the container out is still to come
  (`Agreement`, `Pending`); and that a snapshot under way is what the agent has,
  unless a report follows it (`Snapshots`).
* `StreamsNotStale`: the registry refers to a connection whose handler has yet
  to unregister.
* `RowsNotRevived`: an action property from the actions alone: `Mark` leaves an
  absent row absent.
* `SingleUse`, `JoinedHasNode`: the inductive invariant says that a join
  between its lock and its commit holds the token's lock, that past validation
  its token is unused, that used tokens are those of committed nodes, and that a
  join answered with 201 has its node.
* `InitializeRepairs`: while the control plane boots no request is in hand, so
  the rows are still what `BootRead` read.
* `PairingImplementsLedger`: under the same invariant, strengthened by what a join
  between insert and commit has reserved of its owner's names, every step of
  `NodePairing` is a step of `PairLedger` or leaves tokens and nodes alone.
* `FailedSignupUndone` (every fault): a signup that ends with an error goes through
  the rollback or has failed in its insert.  With the type invariant
  (`PolicyTypes`), by which the row of a slug is that of the one signup that has it,
  `LeftoverIsLogged` is inductive.
* `LoggedInStaysKnown`, `LogoutIsClean` (for device names that differ between
  machines, `NamesDisjoint`): the inductive invariant says, machine by machine,
  that nodes of a name belong to the machine with that name, that a machine has a
  node and a row from the end of a login until its own logout starts to delete,
  and that a logout without failures has seen every node it has yet to delete.
  That another machine's step leaves all of it alone (`StepOfOther`) is where the
  names are needed.
* `QuietMeansUploaded` (when no key is removed during an upload, `NoRemovals`):
  every key a login has ticked off is on the server.
* `UpdatedIsThere` (`StartsWhole`, every fault): every file the commands or an
  editor make has the shape that `StartsWhole` asks of the first, torn writes
  included, since a prefix of such a file is one (`PrefixWhole`).  For files of
  that shape `AppendedBlock`, `ReplacedBlock` and `TrimmedWhole` say what the
  operators of `SSHConfig` return: begin marker and end marker are where Index
  finds them, replacing takes out these lines and nothing else, and TrimRight
  takes blanks only.
* `TextIsKept` (`StartsWhole`, `BackupsSuffice`): by the same lemmas no write that
  succeeds drops a word.  One that is torn may, so the invariant `Covered` adds
  that, where writes are torn, a file with a block has all words in backups.
* `CauseComesFirst`, `ProxyTypes`: the connection is closed only after the report
  of the goroutine that closes it, so a "closed" report has another before it.
* `NilMeansComplete`: a report of nil must stay true until Pipe returns.  The
  invariant counts every chunk: what ssh has written is in stdin, in the
  goroutine's hands or handed to the connection; what the remote has sent is on the
  wire, in the other's hands or in stdout, as long as nothing was dropped.  A copy
  that ended without an error has therefore passed all on (`InputDone`, `OutputDone`),
  and both stay so, since its source has ended.  That the first report is not
  "closed" completes it.
* `SerialSignupsRecognized` (without the faults `overlap` and `odd`): at most one
  signup is in hand, so what it has read includes every signed-up user, and a user
  that was not created is not taken for one that exists.

Only model-checked: the liveness properties (every command is answered, the
node's status converges, no join waits for ever, a proxy ends with stdin), which the prover
does not reach.  All other properties of the passing runs are theorems.

## Not modelled

The length of the backoff and the CSV form of labels are left out: nothing else
depends on them.  So are sessions and passwords (cryptography), templates and the
audit log (single statements), GPU detection (parsing the output of nvidia-smi),
the sidecar command (a sequence of programs in a container, which the handlers
see as a container that gets healthy or does not), `flexctl ssh` and `env list`
(they read and print), and the generated protocol code.  Graceful shutdown is
left out: it waits for agent streams, which do not end by themselves, so it lasts
until the process is killed; a kill is modelled.

## Plan

Done: `GPUAllocator` over `GPUPool`, `EnvDispatcher` (refines it and `EnvHandlers`), `AgentStream`
(refines `EnvHandlers`), `NodePairing` (refines `PairLedger`), `UserPolicy`,
`DeviceLogin` over `SSHConfig`, `ProxyPipe`, in this order, with the theorems above.

What is left:

1. `ReconnectReconciles` for rows that are not in creation when links break under
   commands.
2. `HandlersAsPromised` with removals that fail, which needs a variable that
   remembers whether the container ran when the delete began.
