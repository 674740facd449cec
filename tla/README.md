# hyperwake-core in TLA+

A verification development kept beside the engine (`src/`, Node), its native
runtime supervisor (`runtime/native/`, Python) and the guest agent
(`guest/mola-guest/`, Go). Paths below are relative to the repository. The
modules are plain TLA+, checked with TLC on small instances and, where said so,
proved with TLAPS for every value of the constants.

## 1. The system

One *engine* process serves HTTP. It keeps a registry of machines in
`machines.json`, drives one *supervisor* process over a Unix socket, and answers
the guests' heartbeats. The supervisor owns the machines' directories and their
QEMU processes. A *control plane* (CP) far away calls the private host API; a
person or an MCP client calls the local `/v1` API on the same registry and the
same supervisor.

    CP ---- private host API ---+                        +-- machine.json, disks, identity.img
    person, MCP -- /v1 API -----+-- engine -- socket -- supervisor -- QEMU, running.marker
    guest agent -- /guest ------+     |                  +-- snapshots, retained disks
    viewer, ssh -- tickets -----+  machines.json

### Components

| Component | State | Operations | Talks to |
|---|---|---|---|
| **Private host API** (`src/host-api.js`, `src/host-storage.js`) | per id: a record with `generation`, `incarnation_generation`, the journal `operations`, `fenced`, `deleted`, `desired_state`, `boot_id`, `previous_boot_ids`; a lock chain per id | create, start, shutdown, force-stop, destroy; snapshot, restore, fence, import, seal, delete; GET; desktop, ssh, actions | supervisor (awaited calls), registry, tickets |
| **Registry** (`src/state.js`) | the records in memory, `machines.json` | flush (write a temporary file, rename) | disk |
| **Runtime client** (`src/runtime.js`) | the supervisor child | one HTTP call per verb with a 120 s abort; `settle` = force-stop, then poll | supervisor |
| **Supervisor** (`runtime/native/host.py`) | machine directory, `running.marker`, process identity receipt, `identity.img`, snapshots, retained disks; one lock per machine and one admission lock | create, start, stop, destroy, reseed, snapshot verbs, fence, describe, list | QEMU by QMP, file system |
| **Guest protocol, engine half** (`src/guest.js`) | token hash, enrolment key, `boot_id`, heartbeat time, capabilities, challenge | register, heartbeat, shutdown-ack | registry |
| **Guest daemon** (`guest/mola-guest/internal/daemon`) | enrolment key, machine token, state file, backoff | enrol, recover, heartbeat loop, obey `desired_state` | engine |
| **Local machine API** (`src/server.js`, `src/api.js`) | the same registry, without locks | create with compensation, start, stop, delete, adoption of orphans | supervisor |
| **Access tickets** (`src/desktop.js`, `src/ssh.js`) | tickets by hash, active transports | mint, redeem, validate, revoke | host API, sockets |
| **Guest image** (`src/image.js`) | the image directory, its staging sibling, `installed.json` | fetch by parts, write sparsely, verify, install, notice a newer build | network, disk |
| **MCP client** (`src/mcp`) | the bytes of an unfinished line | stdio framing, sessions, tools, the wait for readiness | `/v1` API |
| **Uninstaller** (`src/uninstall.js`) | the survey: processes, directories | survey, confirm, delete through the engine or by signals, remove | engine, processes, disk |
| **Automation, preflight, paths, keys, CLI** | none that lasts | sequential input and output | everything |

### What is hard

* *Interleaving.* A mutation holds its id's lock over several awaited supervisor
  calls. GETs, heartbeats, ticket redemption and the `/v1` routes take no lock.
* *Ambiguous calls.* After the 120 s abort, or a crash of the engine, nobody
  knows whether the supervisor carried a call out; it may still do so.
* *Crashes* of the engine (between intent, effect and result), of the supervisor
  and of the host; QEMU outlives the first two.
* *Retries, duplicates and late commands.* The CP repeats commands with the same
  `operation_id` until it gets an answer; commands of a deleted incarnation may
  arrive after the id was reused.
* *Partial failure.* destroy and restore are several supervisor calls; a flush
  may throw after memory has changed. A local create that fails half-way is
  compensated, and the compensation may fail too.
* *Identity that travels.* A restored disk carries the guest's credentials of an
  earlier time, or of another computer.
* *Streams cut anywhere.* The image arrives in parts and chunks of any length
  from a publisher that may change builds; MCP frames arrive split or joined.

### What makes each component correct

* Host API: the intent of every runtime call is durable before the call; at most
  one operation is unresolved and none overtakes it; a retry never repeats what
  was settled and is answered the same; "stopped" is only told when QEMU is gone
  and nothing may still start it; "ready" speaks of this boot; a fence holds; a
  delayed command never touches a newer disk; whatever is unresolved can be
  resolved by retrying.
* Supervisor: "stopped" needs evidence; every mutation does at each of its steps
  what its contract allows, whatever crashed before; the host's limits hold; a
  disk that was to be kept is kept.
* Guest protocol: a guest that lost an answer, or whose disk was replaced, enrols
  again; a replayed registration token yields nothing without the key; nothing of
  a revoked identity survives; a guest that is to stop does.
* Local API: no machine without a record, no record forgotten before the machine
  is gone, no deleted machine comes back, and nothing of the host API is touched.
  (A create that outlives its engine breaks the first and the third: section 5.)
* Access tickets: used once, and no transport survives a mutation of its
  machine.
* Image: what is installed is one verified build; a refresh takes nothing before
  its replacement is whole.
* MCP: each request answered once, in order and under its id; no tool call hangs
  for ever.
* Uninstaller: no disk is taken from under a machine that was seen to run and was
  not killed.

## 2. The modules

| Module | What it is |
|---|---|
| `HostRuntime` | The supervisor as the engine knows it, for one machine: a record of the facts the engine can learn, and per mutation the set of possible *outcomes* (next machine and reply). Pure operators. |
| `HostApi` | The private host API, the registry and the runtime client for one managed id, composed with `HostRuntime`, a guest that reports and powers off, and the faults. |
| `HostApiReady` | `HostApi` with a history variable, the launches its record has disowned, and what readiness promises in terms of it. |
| `Journal` | The abstract specification of `machines.json`: operations are accepted one at a time in generation order, resolved once, never forgotten. `HostApi` implements it. |
| `HostRuntimeProofs` | What `HostRuntime`'s operators yield and preserve: the lemmas `HostApiProofs` and `LocalApiProofs` share. |
| `HostApiProofs` | The theorems about `HostApi` and their proofs: about its journal, and then what relates the journal to the machine: what is told of it, what is lost, what a fence holds, when it is ready (`HostApiReady`). |
| `AccessTickets` | Desktop and SSH tickets of one managed machine against the mutations that wait for the same lock: mint, redeem, validate, dial, revoke. |
| `AccessTicketsProofs` | The theorems about `AccessTickets` and their proofs. |
| `Runner` | The supervisor itself, over several machines: its directories, markers, processes and what it holds of them in memory, one action per change on disk. It is checked against `HostRuntime`. |
| `LocalApi` | The `/v1` machine routes with compensation, and the adoption of machines at start, composed with `HostRuntime` for each machine. |
| `LocalApiProofs` | The theorems about `LocalApi` and their proofs. |
| `GuestProtocol` | The guest daemon and its store, composed with the engine's half of the guest protocol, the network between them, and restores. |
| `GuestProtocolProofs` | The theorems about `GuestProtocol` and their proofs. |
| `RunnerProofs` | The theorems about `Runner` and their proofs. |
| `ImageInstall` | `mola start` and the download of the guest image: publisher, parts, chunks, sparse writer, staging directory, installation. |
| `Uninstaller` | `mola uninstall`, composed with `ImageInstall` and with QEMU processes the engine starts. |
| `InstallProofs` | The theorems about `ImageInstall` and `Uninstaller`, the sparse writer included, and their proofs. |
| `Mcp` | The MCP server: byte stream, session, tools, and the engine they call. |
| `McpProofs` | The theorems about `Mcp` and their proofs. |
| `MC*` | The constants of the runs: requests, tickets, calls, builds, frames. |

### How HostApi corresponds to the code

*State.* `mem` and `disk` are the record in the engine's memory and in
`machines.json`. `ops` is the set of journalled requests: a request value stands
for its fingerprint, `<<verb, op>>` for its key. `result` is the stored answer.
`inc` is `incarnation_generation`. `token` names the credential generation:
`registration_token` and everything derived from it, replaced by create and
restore, null after destroy. `boot_id` and `previous` hold launch numbers, which
stand for the random boot ids guests report; `fresh` stands for the heartbeat
conditions of `hostDescription` (after `boot_requested_at`, younger than a
minute, all capabilities).

*Control.* `handler` is the mutation that holds the lock of the id: its `pc`
names the await it is at, its `reply` the answer of that await ("none" before it
leaves or is observed, "sent" while a call is in flight). Everything between two
awaits of the JavaScript is one action, including the flush at its end, because
JavaScript runs it without interruption and `flush` is synchronous. Thus
`ReceiveNew` is the whole synchronous head of `mutate` or `storageOperation`:
checks, generation, journal entry, flush. A create, a snapshot or a restore asks
the runtime before it is accepted (`ReceiveProbed`, then `CreateVacated`,
`CreateUnheld`, `CreateAccepted`, `StorageAccepted` or `ProbeRefuses`).
`ReceiveRetry` and `ReceiveReplay` are the two answers to a known operation id.
A request that is refused outright changes nothing and has no action.

*Runtime calls.* `queue` holds the mutations in flight at the supervisor.
`CallLeaves` sends one, `RuntimeCarriesOut` performs the first and answers if
somebody still waits, `CallTimesOut` is the 120 s abort: the handler throws and
the call stays in the queue. `RuntimeFails` is a 4xx/5xx that left the machine
as it was (or fenced, which the supervisor writes first). An effect whose answer
is an error is a `CallTimesOut` followed by `RuntimeCarriesOut`.

*Observations.* `describe` and `list` are `ProbeAnswers`; what they may answer is
`Observed` (truth, and "unknown" while a mutation holds the machine's lock) and,
as a fault, `Evasive` (unknown, no answer, the other live status). A describe is
never wrong about "stopped": `Runner` checks that of `host.py`. One reply of
`Runner` is coarser here: a stop of a machine whose QMP socket is missing is
answered 404 (`host.py:668`), which the engine takes for an error everywhere but
in `settle`, where it goes on to poll and gives up; `RuntimeFails` answers an
error at once. Either way the operation stays unresolved.

*Guest.* `GuestReports` sends a heartbeat of the present boot, `HeartbeatHandled`
applies it any time later if its credential still holds, `HeartbeatAges` is the
minute passing, `GuestGoesDown` a guest that powers off because it was told to
(or, with `SelfPowerOff`, because it wants to).

*Faults.* `EngineCrashes` replaces memory by disk and drops handler, reader and
heartbeats; the supervisor dies with the engine unless `Orphans`, in which case
its calls move to `orphans` and may be carried out at any later time. `HostRestarts`
also ends QEMU. `FlushThrows` leaves the change in memory and ends the handler.

### How AccessTickets corresponds to the code

*The lock.* `line` is the promise chain of the id (`host-api.js:62-67`): the
first request holds the lock, `pc` names the await it is at, `seen` the answer of
its describe. `Enters` is the call of `locked`, `Releases` its end.

*Tickets.* `ticket[t].state` says where the code holds the ticket: in the map of
unredeemed ones ("minted"), in the set of active targets ("redeemed" while it is
validated, "allowed" or "denied" between the answer of the validation and the
continuation that reads it, "dialing" and "open"), or nowhere. Redemption takes
no lock and is one step; it ends in the call of `validateDesktop`, which waits in
the line. `revoked` is the flag of the entry, `gen` and `boot` its binding.
`launch` and `far` are kept by the model alone: the QEMU the ticket was minted
for, and the one that listened on the port when the transport connected. The two
kinds differ in how they are minted (SSH asks for no readiness, takes its
binding, and then waits for the key to be delivered) and share the rest.

*Mutations.* `Accepts` is the synchronous head of `mutate` or `storageOperation`
up to the first await, revocation included; `Retries` the same for a pending
operation; `StartCalls` what a start does between its describe and its runtime
call; `CarriesOut`, `CallLost` and `Settles` are as in `HostApi`. A flush that
throws leaves memory changed. What is dropped from `HostApi` is what no ticket
depends on: operation ids, results, incarnations, credentials, and the times that
readiness compares (`MayBeReady` holds whenever a ready machine is possible).

*Left out.* Tickets minted through `/v1` have no binding and take no lock.

### How Runner corresponds to the code

*State.* `folder[i]` is `machines/<id>`: whether it and its `machine.json` are
there, the disk (named after the specification it was cloned for), the token in
`identity.img`, and the flags `fenced` and `retaining_disk`. `staging[i]` is
`.creating-<id>` with the intent it names, `retained[i]` the kept disk, `marker`
and `sock` the files `running.marker` and the QMP socket, `qemu[i]` the process,
`child[i]` whether the supervisor holds its `Popen`.

*Control.* `job` is the mutation that holds the locks of `Handler.dispatch`. Its
`pc` is the next change on disk, so that a crash (`Crashes`, `HostReboots`), or a
call that fails (`CallFails`), falls between any two: `Create` decides,
`Discards`, `Builds` and `Publishes` carry it out; `StartBegins` admits, `Marks`,
`Spawns`, `Receipts` and `Looks` launch; `Flags`, `Renames` and `Removes` are the
steps of a destroy, `rmtree` in any order. GETs run beside it (`Describes`); they
matter because they clear markers. A start that counts machines may meet the lock
of any of them taken, and then counts it.

*Contract.* `Abs(i)` maps a machine's files and process to the record of
`HostRuntime`. At each step of a mutation that record is one of the outcomes the
contract allows from the record at its beginning (`before`), up to QEMU's own
exit. A machine whose removal was cut short is outside the contract (`Half`):
see section 5.

*Left out.* Snapshot files, the content of disks, QEMU's arguments, ports.

### How LocalApi corresponds to the code

`records` is the registry and `machines.json` together: each change and its flush
are one turn of the event loop. `worker[w]` is a request at one of its awaits,
with the answer of that await; `calls[i]` the calls at the engine's supervisor for a
machine, the first holding its lock, a new one inserted anywhere behind it, as
threads do. `EngineStarts` is the reconciliation before `listen` ("blind" when the
list failed, which the code ignores). `EngineCrashes` ends the supervisor too, or
moves its calls to `orphans`: the lock is an `RLock` of that process
(`host.py:116-119`), and the next engine spawns another supervisor over the same
directories (`runtime.js:76-83`), so that `OrphanCarriesOut` does what is left of
them at any time, beside whatever the new supervisor does, or never. `strays` is
history: the ids whose machine such a create made. `RollsBack`, `Settles`, `PollSettles`, `SettleGivesUp`,
`Destroyed` and `TornDown` serve both delete and the compensation of a create,
which run the same code. Initially the runtime may hold a machine no record
names, as after a hard kill or a lost `machines.json`.

### How GuestProtocol corresponds to the code

`stored` is the guest's state directory, on a disk that a restore replaces by its
own past or by the disk of another computer (`Foreign`); the write of the token
and that of the computer id are two steps, as are the removals of
`ClearIdentity`. `guest` is the daemon's place in `Run`, with the number of its
boot and the seed it booted with. `net` holds requests; a `live` one is waited
for, any other was abandoned by a reboot or a timeout and may be handled at any
time or never. `Replays` is a registration repeated by somebody, at will without
an enrolment key, and with one, which costs a fault. The engine handles a request in one step (`Register`,
`Heartbeat`, `ShutdownAck`), `Restore` is the rotation of `host-storage.js:51-59`.
Crashes of the engine need no action: its state is the file, and the challenges
it forgets decide nothing in the model, since whoever has the key can answer a
new one. A registration the daemon waits for is never refused, as a restore needs
the guest to be off; the daemon's handling of a refusal is thus not in the model.

### How ImageInstall and Uninstaller correspond to the code

An image directory is its files, as bits, and the build `installed.json` records.
`Connects` fetches a part of whatever is published *now*; `Chunk(n)` passes any
number of its bits to the digest and to the sparse writer, which keeps a tail
shorter than a block (`pending`), writes blocks that hold a one and skips the
others; `Closed` ends the file, `Closes` verifies it (`Mismatches` is the digest that
differs) and extends it to `sparse_bytes`. `Removes` takes the old image file by
file, `Renames` puts the staged one in its place; each of the steps may throw into
`Catches`. An uninstaller may take files of the staging directory meanwhile: what
is written to a file without a name is lost (`Linked`), and a file that is not
there any more fails the step that names it (`StagingGone`). `Leaves` forgets what
the command read. The digest is taken over the bits written: compression is left out.

`Uninstaller` adds the processes by name, one of which is not ours, and the machines
that have a disk. `un` is the command: where it is, what it found, what is left to
delete through the engine, what is left to remove; `killed` and `unseen` are kept by
the model alone. `Survey` takes the processes that ps tells, or none when ps fails
(`uninstall.js:76-80`); an engine that serves may boot others at any time, also one
that did not answer within four seconds. `EngineLists`, `Deleted` and
`RemovesAfterEngine` go through the engine, whatever it answers; `EngineAbsent`
goes past it, sends SIGTERM and waits; `Insists` is the ps that shows none, or the
SIGKILL after ten seconds, at which nobody waits for the processes to end, and
`PsFails` the ps that fails. The removal is a step per disk and per file
(`RemovesDisk`, `RemovesRuntime`, `RemovesImage`, `RemovesStaging`), in which engine,
processes and download go on, and which may be cut short (`RemovalFails`, and
`RemovalEnds` where a download adds files to a directory that was already read).
A token file that is missing is one more way to `EngineAbsent`, and no state.

### How Mcp corresponds to the code

`wire` is text not yet read, two pieces and a newline per frame, so that a chunk
may end inside a frame; `buffer` is what `frames` holds between chunks. A chunk is
made text by itself (`stdio.js:42`; nothing sets the encoding of the stream), so that
one that ends within the bytes of a character spoils it. Where the pieces of a line
meet, a `wide` frame has such a character in its id: `Breaks` says which ids a chunk
spoils, `broken` which were, and `IdOf` that the answer carries another one. What is
spoilt in an argument has no effect of its own here: it is what the engine then
refuses (`Refused`) or the guest runs (`GuestRuns`). A frame is served to its end before the next is taken (`stdio.js:65-99`). `server` is the
tool call: one HTTP call ("calling"), or the polls of `waitForReady`
("polling"); `CallTimesOut` is the abort of a call, `EngineIsDown` its refusal.
`Elsewhere` is what other clients do to the machine meanwhile, `GuestBeats` and
`BeatAges` its heartbeats. `out` is what was written, by id and class of answer.

### Assumptions about the environment

* Mutations of one machine are carried out in the order they arrive at one
  supervisor (its per-machine lock), each atomically as far as the engine can
  tell; while one is under way a describe says "unknown" (`host.py:641-646`).
* Calls that a killed engine's supervisor goes on to carry out are always considered
  in `LocalApi`, and in `HostApi` where `Orphans` is TRUE. Two supervisors at once are
  otherwise ruled out.
* A heartbeat of a boot that was never heard before does not outlive that boot
  (`Surviving`): it would have to be in flight while the guest is powered off,
  the supervisor starts another QEMU and the engine answers a GET. Late
  heartbeats of a boot already heard are kept.
* A host restart takes longer than the minute a heartbeat stays fresh.
* `MOLA_IMAGE_REF` does not change. `desktop`, `actions` and `ssh` take the lock
  without changing the journal: `HostApi` leaves them out, `AccessTickets` has
  all but the actions. Snapshot chunks are read and written without journal
  entries.
* In `AccessTickets` the supervisor ends with its engine; what one that survives
  may do is said under "Disagreements without a run".
* In `HostApi` registration is folded into the credential: a guest that runs from
  an identity image with the current token is enrolled. `GuestProtocol` is about
  what that takes.
* `Runner`: one supervisor at a time; QEMU has opened its socket or ended before
  the supervisor looks (0.3 s); no launch takes as long as a restart of the
  supervisor; a process identity (start time and boot id) is never used twice.
  What was renamed or removed stays so after a crash of the host.
* `GuestProtocol`: the guest's shutdown command works (`daemon.go:420`), and no
  registration fails for good.
* `ImageInstall`: one `mola start` at a time; the digest tells contents apart, and
  each artifact has one; a write writes all it is given.
* `Uninstaller`: the system gives no pid of the survey to another program while
  the question is open.

## 3. The runs

### The host API and its tickets

Operation ids `a`, `b`, `c`; at most two calls in flight (the abandoned one and
its retry), at most two launches of QEMU, or three; the fault budget `MaxFaults` is shared
by crashes, timeouts, failures, evasive answers and failing flushes. Two calls
and two launches are what it takes for one boot, or one command, to be mistaken
for another; the request sets contain each command whose confusion with another
the code guards against.

| Run | Requests and switches | Shows |
|---|---|---|
| `HostApiLifecycle` | two incarnations: create, three starts, force-stop, destroy, re-creation reusing an operation id, second destroy; 1 fault | The journal discipline end to end, with one fault anywhere, and that `machines.json` implements `Journal` |
| `HostApiBoots` | create, two starts, a stop, a restore; heartbeats; guests that power themselves off; 3 launches; 1 fault; `ReadySpec` | Identity rotation and readiness |
| `HostApiFaults` | create, start, fence, restore; heartbeats; flushes may throw, supervisors may outlive their engine; 2 faults | What still holds under the worst faults |
| `HostApiLive` | create, start, snapshot, shutdown, two destroys (one keeping the disk), re-creation; 1 fault; `LiveSpec` | No operation is stuck for ever |
| `AccessTickets` | one ticket of either kind; start, stop, destroy, restore, fence in any order; late heartbeats, reboots; 2 requests in the line, 2 calls, 2 generations, 2 boots; 1 fault; `LiveSpec` | Revocation against validations and dials in progress, and that nobody waits behind himself |
| `HostApiReadyRace` | create, two starts, a force-stop; heartbeats; no faults | Violated: section 5 |

Tickets meet each other only in the line for the lock, where a second one
would be one more request that reads the record; the proofs cover any number.

### The other components

| Run | Bounds | Why they are enough | Shows |
|---|---|---|---|
| `Supervisor` | two machines that together exceed both limits; two specifications, both kinds of destroy and every other mutation for one, create, start and stop for the other; 2 launches each, 2 faults | a crash and the crash of what recovers from it; a second specification and a second launch are what a stale staging directory, disk or marker can be mistaken for | the supervisor meets its contract step by step, the limits hold, kept disks are kept |
| `LocalApi` | three ids: one to be created, one the host API manages, one it destroyed, any of which the runtime may hold at start; 2 requests at once, 2 launches, 1 fault | the races need two requests; a start refused at a limit, and a poll that gives up behind an abandoned call, cost no fault, so that one still leaves room for partial failures, or for a crash that leaves calls to an old supervisor, on top of them | compensation, deletion and adoption without locks |
| `GuestProtocol` | 2 boots, 2 restores, 2 requests nobody waits for, 2 lost answers or registrations repeated with a key, 6 tokens | a third seed is needed for a request that is two restores late; six tokens are one more than record, disk, answer and requests can hold | identity across restores, forks and lost answers |
| `Installation` | two artifacts, two builds of one version that differ in both and in how they are split into parts; blocks of 2 bits, files of up to 4, a hole at the end; one machine; 1 failure or crash | a part that fails because the publisher changed the build costs no fault, so that all three attempts of a part can fail; every way to cut a part into chunks happens; machines do not meet, and what the uninstaller may do wrong with one it does between two steps, in which one QEMU can end and another start | the installed image, and what an uninstall takes |
| `Mcp` | every sequence of three frames of fifteen kinds, two of them with an id that a chunk can break, every way to cut the text; 2 polls, 2 boots | three frames make create, start_task, check_task; a split frame beside a bad one; and a notification between two requests | framing, the session, the wait for readiness |
| `ImageLost` | as `Installation` | | Violated: section 5 |

`Supervisor` has 3.4 million states, `Mcp` half a million; `Installation`
has 7.6 million and takes the longest, two to three minutes.

### The properties

Each is commented in its module with the lines it is about.

*`HostApi`*

* `CallsArePending`: every runtime call in flight belongs to an operation that is
  unresolved *in the file*.
* `OnePending`: in memory and in the file, at most one operation is unresolved, it
  is of the current generation, and no operation id stands for two requests.
* `BootNeedsPendingStart`, `DiskNeedsPendingDestroy`: QEMU is only launched, and a
  disk only removed, while an operation that asks for it is unresolved.
* `StoppedIsEvidence`: whatever would be answered "stopped" now is off.
* `ReadyIsNotDisowned` (`HostApiReady`): whatever would be answered ready now rests on
  a report of a launch later than all there had been when a boot was last prepared
  or an identity last minted, so never on one from before the last start of a
  machine seen off, the last restore or the creation. `ReadyIsThisBoot`, that it is
  a report of the QEMU that is booted now, is what the README claims and the code
  does not keep (section 5).
* `FenceIsStopEvidence`: from a settled fence until destroy, QEMU is off.
* `ReplaysAgree`: all settled answers to one request are equal.
* `SeedMatches`: with nothing unresolved, the identity image carries the record's
  token.
* `TombstoneIsGone`: a record marked deleted has no machine.
* `JournalSpec`: refinement of `Journal` by the file.
* `PendingSettles`: an unresolved operation is settled some time.

*`AccessTickets`*

* `TransportsDieFirst`: while a call that stops, starts, restores or removes the
  machine can still be carried out, no transport to it is open or being opened.
* `ReachesItsLaunch`: an open transport leads to the QEMU its ticket was minted
  for, although the next one listens on the same port and late heartbeats can
  make the binding match again.
* `NobodyWaitsForEver`: whoever asked for a ticket or came with one is answered.

*`Runner`*

* `MeetsContract`: at each of its steps a mutation has done to its machine what
  `HostRuntime` allows, and it is answered accordingly; a describe is truthful or
  evasive, and never says "stopped" of a machine whose QEMU lives, by whatever
  supervisor launched it. This joins `Runner` to the modules above: what they
  assume of the supervisor is what it does.
* `LimitsHold`: never more machines or memory than configured.
* `KeptDiskSurvives`: a disk destroy was asked to keep is there until a destroy
  may delete it.

*`LocalApi`*

* `NothingNameless`: once an engine has listed the runtime's machines, every
  machine has a record that names it, unless a create that outlived its engine made it.
* `FailedCreateIsFlagged`: a create that was answered with an error leaves no
  machine, nor will one appear, unless its record says so.
* `DeletedStaysGone`: a machine whose delete was answered with 200 never comes
  back, neither its disk nor its record, but by a create that outlived its engine.
* `ManagedIsUntouched`: nothing here touches a machine of the host API.
* `FlaggedIsDeleted`: what needs cleaning up is gone in the end if somebody
  goes on deleting it.

*`GuestProtocol`*

* `RestoreRevokes`: nothing of the time before a restore survives it, neither a
  credential nor the report of a guest.
* `ForkIsItself`: a guest never speaks as the computer its disk came from.
* `EveryBootIsHeard`: every boot that lasts enrols and reports.
* `StopIsObeyed`: a guest that is to stop does, unless it is to run again first.

*`ImageInstall` and `Uninstaller`*

* `FinalIsOneBuild`: what is installed is bit for bit one published build.
* `RefreshNeedsStaged`: a refresh takes nothing of an image before its replacement
  lies verified beside it (an uninstaller does).
* `SilenceIsCurrent`: a start that says nothing of a newer build has the root
  file system that is published, though two builds may share a version.
* `StoppedBeforeRemoval`: where no engine answered, the uninstaller takes a disk from
  under a living QEMU only if it sent that QEMU SIGKILL, or no ps has shown it: it
  was started since, or ps failed.

*`Mcp`*

* `AnsweredOnceInOrder`: however the stream is cut, requests are answered once
  each and in order, a bad frame costs only itself, and the answer carries the id
  that was sent unless a chunk ended within a character of it.
* `ReadyHasReported`: a machine reported ready has a guest that has reported, and
  not a QEMU alone.
* `ToolsReturn`: no tool call hangs for ever, whatever the engine does.

Deadlock is checked in every run but two: in `GuestProtocol` the boots are
bounded and a guest that is off may stay off, and in `Mcp` a session that was sent all
its frames is over. No symmetry is used: requests, tickets, machines and builds
play different parts.

### Fairness

*Host API.* `LiveSpec` adds weak fairness of: `Retry` (the CP repeats an unresolved
command, which `host-api.js:202-203` demands of it), `CallLeaves`, `ProbeAnswers`,
`HandlerSteps` (Node's event loop), `RuntimeCarriesOut` (the supervisor answers
or the call is aborted) and `QuitCompletes` (QEMU ends after `quit`). Nothing is
assumed of guests, of other requests, of GETs, and faults are finitely many. A
start that meets a limit is *not* assumed to succeed some time: it is settled as
refused.

*Tickets.* Weak fairness of the steps of the lock's holder (the event loop, the
describe's answer), of `CarriesOut` (the supervisor answers or the call is given
up) and of each ticket's continuation. Clients, guests and mutations may do
nothing at all.

*Local API.* Weak fairness of the handlers, of the runtime's calls and of a QEMU
that was told to quit. Strong fairness of two things: a poll finds the machine
stopped sooner or later if it keeps meeting it stopped (a poll that always falls
between two starts would need two callers in step for ever), and whoever was
told that a machine needs cleaning up asks again (`server.js:216-219` keeps the
record for that purpose).

*Guest.* The daemon runs while its guest does, and the engine handles the request
the daemon waits for. A request may be given up only finitely often. Nobody has
to boot the guest, and requests nobody waits for need not be handled.

*MCP.* The event loop goes on, and a call ends, by its abort signal if not
before; the deadline of the wait fires. The engine may be silent for ever.

`Supervisor` and `Installation` check no liveness: a start may be refused,
and a download may fail, for ever.

## 4. The proofs

Every invariant named here was checked with TLC on an instance before it was
proved. Hypotheses beside the assumptions of the modules' constants are named at
each theorem, and are there because TLC finds the theorem false without them.

### The host API

`HostRuntimeProofs` holds what the outcomes of `HostRuntime` are: which operations
can make, launch, seal or remove a machine, or change its identity image, and
with which reply.

`HostApiProofs` is about every finite set of requests and every bound. Five
theorems are about the journal.

* `TypeCorrect`: `Spec => []TypeOK`.
* `JournalHoldsOnePending`: `Spec => []OnePending`, with failing flushes and
  surviving supervisors. `OnePending` is not inductive: a create, a snapshot or a
  restore is checked, waits for the runtime and is journalled later, and the
  journal could move in between. The invariant `JournalInv` adds that a request
  that waits in a probe is still admissible in memory (`Checked`; it is because
  the handler holds the lock), and that a handler past its acceptance works for
  an operation that is unresolved (`Running`).
* `IntentPrecedesCall`: without failing flushes, `Spec => []CallsArePending`, also
  when supervisors survive. `CallInv` adds that all queued calls belong to
  operations unresolved in memory, and that the queue is empty whenever the
  handler has the answer of a call, or is at the polls of a destroy or at its
  report (`Quiet`); `InStep` that memory and file agree.
* `BootsArePending`: without surviving supervisors, failing flushes included,
  `Spec => BootNeedsPendingStart`. `PlaceInv` says which kind of request may be at
  which place of the handler; a launch is then the effect of the head of the
  queue, which `CallInv` says is unresolved.
* `FileImplementsJournal`: without failing flushes, `Spec => JournalSpec`: Init
  maps to Init, and each step to `Accept`, `Resolve` or a stutter.

The others are about the machine. All of them but `ReplaysAreTheSame` rest on `CoreInv`: the invariants above and `SentInv`, that a
handler waits for the last call that left and that every queued call carries the
record's token.

* `DisksAreDestroyed`: without surviving supervisors, `Spec =>
  DiskNeedsPendingDestroy`.
* `StoppedMeansGone`: without surviving supervisors, `Spec => []StoppedIsEvidence`,
  also when flushes throw. `AnswerInv` says that what an answer in the handler's
  hand says of the machine is still so when the handler acts on it; `ReadInv`
  does the same for a GET, which holds no lock: while the journal has gained no
  operation since the GET began, and has nothing unresolved, the machine the GET
  saw off has not been launched. This is what the revision that `describe`
  compares (`host-api.js`) is for, and why it must contain the operations.
* `ReplaysAreTheSame`: without failing flushes, `Spec => []ReplaysAgree`.
  `ReplayInv`: what callers were told is what the journal holds.
* `TombstonesAreGone` and `SeedsMatch`: without failing flushes and surviving
  supervisors, `TombstoneIsGone` and `SeedMatches`. `ImageInv` says when a machine
  holds the record's identity image (whenever no create, restore or destroy is
  unresolved, and under a create as soon as it exists), and that whatever the
  handler learned of it still holds.
* `FencesHold`: without surviving supervisors, `Spec => []FenceIsStopEvidence`, also
  when flushes throw. Then memory may know of a fence that the file has
  forgotten, or the reverse; `FenceInv` is therefore about both records, and about
  launches in progress.
* `FencesOutliveEngines`: the same property with surviving supervisors, where no
  request destroys the machine. `SealInv`: an answered fence has sealed the
  machine at the runtime, and only a destroy breaks the seal. Neither hypothesis
  of the two theorems can be dropped: where a supervisor survives *and* the
  machine is destroyed, TLC finds a create that it carries out while the destroy
  is unresolved, and a start of the machine so made.
* `ReadyMeansNotDisowned`: `ReadySpec => []ReadyIsNotDisowned`, without failing flushes
  and surviving supervisors; callers start a machine when they like, and guests
  power themselves off. The engine does not count launches: it disowns the boot id
  it has heard of, and the history variable `disowned` says what that must come to.
  `HeardInv` says that the record's boot id, and that of every report on its way with
  the record's credential, is of a launch since or is listed in `previous`; and that
  what is on its way from a machine that is off has been heard, so that a start which
  lists what was heard lists it all. `MintInv` says that nothing carries a token that
  was not minted, so that a new one silences every earlier report; `PrepareInv` that
  a start which was told "stopped" prepares its boot while the machine is off. That ready is of *this* boot
  does not follow, as the run `HostApiReadyRace` shows.

### The supervisor

`RunnerProofs` holds three, for any number of machines, any mutations and any
number of crashes, reboots and failing calls:

* `KeptDiskHolds`: `Spec => []KeptDiskSurvives`. `StepInv` says, of the mutation
  in progress, that a create is under way only where no disk is kept, that a
  disk about to be renamed overwrites none, and that what is about to be removed
  is not what is kept.
* `ContractHolds`: `Spec => []MeetsContract`, the refinement of `HostRuntime`, step
  by step. `HostInv` says that a process has a marker and the marker no other
  boot, which is why `describe` is right about "stopped"; `AtWork` what is known of
  the host at each place of a mutation; `Course` what the mutation has made so
  far of the machine it began with, and that it will be answered with a reply
  that `HostRuntime` allows for that (`Served`).
* `LimitsAlwaysHold`: `Spec => []LimitsHold`. `AdmitInv` adds that, from the count
  of a start to its launch, its machine still fits with all that live: only a
  launch makes a machine live, and only the holder of `runner.lock` launches. The
  count itself is right because what is seen to be stopped does not live
  (`SeenIsOff`). The memory is a sum over a set, which the library computes with a
  fold: `SumsExist` and `TotalUnfolds` say what that fold is, from the fact that
  among some finite sets one is minimal, and `TotalWithout` and `TotalGrows` that
  the order of counting does not matter and that fewer machines need no more.

### The local API

`LocalApiProofs` holds five, for any number of ids and of requests served at the
same time: `LocalTypeCorrect`, `MachinesAreNamed`, `FailedCreatesAreFlagged`,
`DeletedMachinesStayGone` and `ManagedMachinesAreUntouched`. There is no lock that
an argument could rest on. `LineInv` says instead that a create is the first call
at its machine, which has a record, and that nobody waits for two calls;
`WorkInv` that a destroy that succeeded leaves neither a machine nor a call of this
engine that could make one (`Quiet`), unless an orphaned create made it anew, and
that a create that is being served has a record, or neither a machine nor any call
that could make one (`Absent`); `ToldInv` what callers were told of an id.
`OrphanInv` bounds what supervisors of killed engines can do: of an id they hold one
create at most, and while they do, or after it was carried out, no engine has another.

### Tickets and guests

`AccessTicketsProofs` holds three, for every set of tickets and every bound, with
lost calls, failing flushes and crashes:

* `TicketsTypeCorrect`: `Spec => []TicketsTypeOK`, with `Held`: the lock is only
  held by a request in its line.
* `RevocationHolds`: `Spec => []TransportsDieFirst`. Revocation happens once, in
  front of the call, so the invariant must say that nothing comes back: while a
  call of a revoking operation is in flight every ticket is `Cut` (not
  connected, and revoked if it was allowed), and while the handler is past the
  revocation and holds the lock every ticket is also `Clean` (not minted, and
  revoked if it is being validated). `CallsInv` ties the calls to the pending
  operation, `HolderInv` the pending operation to the holder.
* `BindingHolds`: `Spec => []ReachesItsLaunch`. `LaunchInv` says that a ticket
  that may still be dialled is of the last launch, except while a start is
  pending, when a validation cannot succeed. A launch is the effect of a start
  call, at which all tickets are `Cut`; when the start settles they are still
  `Clean`. The boot id plays no part: the proof shows that revocation alone keeps
  transports from reaching another QEMU.

`GuestProtocolProofs` holds three, for any number of boots, restores, lost answers
and late requests, under `TokensSuffice`: outside any finite set there is a
token that is not in it, which is what 32 random bytes stand for.

* `ForkHolds`: `Spec => []ForkIsItself`. `ForkInv` says that a daemon that holds
  another computer's identity has got no further than discarding it, and that no
  request carries that computer's token.
* `RestoreHolds`: `Spec => []RestoreRevokes`. `RevokeInv` orders the seeds: no
  request, guest or credential is of a later seed than the record's; a
  registration succeeds with the record's own; and a request that authenticates
  with the current token was sent by a guest that booted with the current seed,
  which needs that a new token is on no disk and in no request.
* `GuestTypeCorrect`: `Spec => []GuestTypeOK`, which bounds the requests nobody
  waits for. `WaitInv`: at most one request is waited for, by a daemon that has
  no answer yet.

### The image and the uninstaller

`InstallProofs` is about any builds, artifacts, parts, chunks and sizes of blocks,
and any number of failures.

* `FlushedIs`: flushing bits at a position leaves what was before it, and puts the
  bits there, of which a tail of zeroes is perhaps not written. From it
  `ChunkWrites` and `CloseWrites`: what the digest covers is, at every moment, what
  is in the file and what the writer holds back (`Written`), and in the end the
  file alone.
* `ImagesAreWhole`: `Spec => []FinalIsOneBuild`. `StagedInv` says that the artifacts
  before the one being fetched are those of the manifest, whatever parts the
  publisher served, since each was verified against the digest; and that in front
  of the removal of the old image the whole of one build lies staged, or what an
  uninstaller left of it (`OneBuild`).
* `RefreshesAreStaged`: `Spec => RefreshNeedsStaged`, from the same invariant.
* `SilenceMeansCurrent`: `Spec => SilenceIsCurrent`: what `imageStatus` compares are
  the digests of what is published now and of what installed.json *records*; that
  the latter is what is on disk is `FinalIsOneBuild`.
* `NothingRunsUnderRemoval`: `Spec => StoppedBeforeRemoval`. `Known` says that where no
  engine answered, a QEMU that runs was found by the survey or is unseen until the
  wait is over, and was sent SIGKILL or is unseen from then on, whatever boots and
  ends between the steps.
* `InstallTypeCorrect`: `Spec => []InstallTypeOK`.

That a flushed prefix has a last block with a one in it needs the greatest member
of a bounded set of numbers. `LeastExists` derives it from the library's theorem
that strict inclusion is well-founded on the finite sets; the induction theorems
proper take an operator, which the provers cannot instantiate.

### The MCP server

`McpProofs` is about any frames, any number of them and any polls.

* `AnswersAreInOrder`: `Spec => []AnsweredOnceInOrder`. `McpInv` says that for some
  number n the first n frames were taken and the text of the others, in order, is
  what is buffered followed by what is not read yet (`Rests`); that a chunk may
  end anywhere then no longer matters for the lines, since reading moves text from
  one to the other. It matters for ids: a chunk breaks only ids of frames that were
  not taken, as only their text is left (`RestsLater`), so that what has been
  answered stays what is owed (`AnsweredOfFirst`). `out` is what the first n frames are owed, or the first n - 1 while a tool
  is waited for or once a frame ended the session (`Place`). `FirstLine` is the
  step that counts: the buffer is cut at the first newline in it, which is that
  of frame n + 1 because no frame contains one.
* `McpTypeCorrect`: `Spec => []McpTypeOK`, and `ReadyWasHeard`: `Spec =>
  ReadyHasReported`, from the same invariant and `MachineInv`: a fresh heartbeat is
  one of a boot.

`Answered`, what frames are owed, is a recursive function of which the provers
must be told that it exists; `LeastExists`, as under `InstallProofs`, gives the
least number of frames without one.

### What is only model-checked

Every invariant and every property of steps that a run checks is also proved,
under the hypotheses named above: where these exclude surviving supervisors or
failing flushes and a run includes them, the run says more on its instance.
Liveness under fairness is beyond the prover, and is only model-checked:
`PendingSettles`, `NobodyWaitsForEver`, `FlaggedIsDeleted`, `EveryBootIsHeard`,
`StopIsObeyed` and `ToolsReturn`.

## 5. Findings

| Run | The code | What is said |
|---|---|---|
| `HostApiReadyRace` | a start whose describe still sees the old QEMU going away does not disown its boot; if QEMU is gone when the start arrives, the new boot is ready on the old boot's heartbeat. | `README.md:290-291`: "Readiness requires a fresh guest heartbeat from a new boot after start" |
| `ImageLost` | a refresh removes the old image and then renames the new one into its place (`image.js:252-253`); killed in between it leaves no image. | `README.md:183-185`: "an interrupted refresh leaves the image you already had" |

What the code does keep is checked by passing runs, over the same behaviours:
`ReadyIsNotDisowned`, and `RefreshNeedsStaged`, which only speaks of the moment
before the removal.

### Disagreements without a run

Seen in the models, or in the code while it was modelled. The first four are
reproduced by giving a `HostApi` run other switches.

* `FlushFaults`, with `CallsArePending`: `flush` throws after the journal entry
  is in memory (`host-api.js:220-221`); a retry finds it there, skips the flush and
  calls the runtime. A crash now leaves a machine no record names.
  `host-api.js:52` says "Intent and credentials are saved before runtime work."
* `FlushFaults`, with `ReplaysAgree`: the result is put on the operation before
  the flush that throws (`host-api.js:278-279`) and replayed from memory; after a
  crash the operation runs again and may answer otherwise. `README.md:271-272` says
  that replays return the saved response "even across service restarts".
* `Orphans`, with `StoppedIsEvidence`: a supervisor that outlives a killed engine
  carries out a start after its retry, and a stop, were settled
  (`README.md:277-279` is about never releasing capacity early).
* `SelfPowerOff`, with `ReadyIsThisBoot`: the boot is disowned once per operation; a
  retry that launches a second QEMU, after the guest has powered itself off, is
  ready on the first one's heartbeat.
* `LocalApi`: a create is in flight when the engine is killed, and its supervisor lives
  on. The next engine answers a DELETE of the id with 200, as there is no such machine
  (`host.py:386-388`); then the old supervisor renames its staging directory into place
  (`host.py:308`). The machine is back, without a name until the next start of an
  engine adopts it (`server.js:47-50`).
* `/v1` presents a machine whose describe failed as ready or booting, by its
  heartbeat alone (`api.js:31-39`), and not as "unknown", which the comment
  (`api.js:24-29`) is about.
* A local start does not reset the heartbeat (`server.js:225-228`), so that a machine
  stopped and started within a minute is ready before it has booted; the wait of
  `mcp/engine.js:101-104` is meant to prevent that. `ReadyHasReported` therefore
  speaks of any boot of the machine, not of the last.
* `shutdown-ack` sets `desired_state` to "stopped" whatever was commanded since
  (`server.js:113-115`): a start answered in between is undone at the first beat.
* A destroy cut short after `machine.json` was removed (`host.py:400`, `rmtree`
  in any order) leaves a directory that later destroys answer with 404 and
  creates refuse; `host-api.js:266` takes destroy for idempotent.
* A create cut short while it writes its intent, or while it discards an old
  staging directory, leaves files without an intent, which every retry refuses as
  "Unrecognized" (`host.py:279-284`); the comment above it says that a crash
  "retries the same ID".
* After a crash between the launch of QEMU and its receipt, or anywhere on a host
  without `/proc`, the machine stays "unknown" until the supervisor's QMP reaches
  it; if QEMU is gone it stays so for ever. This is deliberate.
* An `rm` of the old image that is interrupted can leave `root.ext4` without the
  other files, which counts as an installed image (`image.js:253`, `:30`).
* The uninstaller takes disks from under machines that run where it sees none: a
  machine started after a survey that found none, as the wait is skipped
  (`uninstall.js:167`), or by an engine that did not answer in time; every machine
  when ps fails (`uninstall.js:76-80`); and through the engine those whose DELETE was
  answered 409 or 5xx, as the status is printed and the removal goes on
  (`uninstall.js:151-163`). `StoppedBeforeRemoval` names the first three and leaves out
  the last.
* An uninstaller beside a download that runs on may take some of the files it has
  staged; the rest is then installed (`image.js:252-254` looks at no file), and if it has
  `root.ext4` it counts as an image.
* A string id with a character of several bytes, at which a chunk of the stream ends,
  is answered under another id, and an argument is changed alike: `buffer += chunk`
  decodes each Buffer by itself (`stdio.js:42`). The comment (`stdio.js:5-7`) says
  "stdin arrives in arbitrary chunks that split lines wherever they like, so we
  buffer".
* A registration token in use is accepted again with any enrolment key, without a proof
  that it is the machine's (`guest.js:38-42`); the comment there says that a "replayed
  token must not mint a second credential", and that a machine recovers "by proving
  possession of its enrolment key". `GuestProtocol` has such replays (`Replays`), as
  often as the faults allow; a guest they lock out enrols again in the same way.
* A frame `null` ends the MCP session (`stdio.js:77` destructures it);
  `AnsweredOnceInOrder` says what is answered up to it.

## 6. Not modelled, and the plan

What may still be modelled, in this order:

1. `SnapshotStore`: the files of a snapshot, chunks, manifest and seal
   (`host.py:418-588`), and their composition with restore.
2. The local routes and the guest in one module: a stop acknowledged late, the
   heartbeat of the boot before, desktop tickets and guest actions of `/v1`.
3. Two `mola start` at once; an engine restarted with another `MOLA_IMAGE_REF`;
   pids used twice under an uninstaller.
4. Theorems: abstract specifications of the MCP session (a server that takes frames
   and answers in order) and of tickets, as `Journal` is one of `machines.json`,
   with proofs that the modules implement them.

Left out for good: the installation of SSH keys in the guest, its configuration
and capability probes, automation over SSH, preflight checks, path computation,
Python discovery, the command line's parsing and printing, the noVNC page and the
offline refresh of a disk image, which are sequential input and output without
state of their own; request validation and HTTP authentication, which decide
before any state is read; and what a command does inside the guest.
