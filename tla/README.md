# A TLA+ model of the podsim server

podsim simulates a network of small autonomous pods. One server process (`cmd/serve`) owns a shared
session: a project (network, demand, policies), a running simulation, save points and the counters that
clients see. Browsers and native clients send commands over HTTP and read the session through a stream of
full frames and deltas. The server keeps the session in a state file, so that a restart goes on where the
last process ended.

This directory models the parts of the program in which several actors meet, checks them with TLC on small
instances and proves the central results with TLAPS for every size.

## 1. The system

### Components

| Component | Source | State | Operations | What makes it correct |
|---|---|---|---|---|
| Session commands | `internal/session/session.go` | epoch, revision, one receipt per client, `restoredSequences`, project with revision and origin, generation, simulation | `Apply` with its decisions and twelve command handlers, `step`, `Close` | a command runs at most once in an epoch, a retry gets its first reply, the client limit counts every client once |
| Save points | `internal/session/checkpoint.go` | up to eight entries, the last ID | `captureCheckpoint`, `rewind` | a rewind brings back the state of the capture, project revisions name one project, IDs are new |
| State saves and restores | `internal/session/persist.go`, `state_file.go` | `persistence` (mutex, last and saved revision, nudge channel), the encoder's cached project | `SaveState`, `RunStateSaver`, `saveBeforeReply`, `NewFromStore`, `installRestored` | what a reply confirms survives a crash, an epoch goes on only from its last state, a bad state cannot stop the server for ever |
| Process life | `cmd/serve/state.go`, `main.go` | the project file | open, stop the clock and the saver, final save | nothing changes between the copy of the final save and the exit |
| State store | `internal/statestore` | the state file, its backup, rejected copies, temporary files, the directory | `Open`, `Read`, `Write`, `Reject`, `Backup` | a stop or a power loss leaves an old or a new state, never a torn one; a rejected state is kept |
| State stream | `internal/session/stream.go` | current frame, history ring, cached full frame, retention budget, subscribers with credit | publisher goroutine, one handler per socket | what is sent applies at the client, memory is bounded, clients catch up, a stop ends |
| Stream client | `internal/remote/stream.go` | frame, stream position, topology | receive, acknowledge, reconnect | never shows an older state, never refuses a correct server |
| Frames and codecs | `internal/session/stream_*.go`, `protocol.go` | what a frame, a delta and an assembled state hold | encode, apply, assemble | the client's frame is the publisher's, nothing of the server is refused |
| Traffic | `internal/sim`: `traffic`, `berths`, `platoon`, `debris`, `state_physical`, ... | pods, owners of track, platoon links, debris | the stages of `Step`, trips, incidents, export and restore | pods stay apart, reservations are exact, every pod arrives |
| Fleet | `internal/sim`: `dispatch`, `faults`, `emergencies`, `pickup_*`, `state_logical`, ... | queue, parties aboard, holds, fault and emergency records | submission, dispatch, boarding, swaps, positioning, faults, evacuation, restore | every order is in one place and ends, a withdrawn pod takes no work, what is saved can be restored |
| Command client | `internal/remote/client.go` | queue, sequence, retry timer | queue, send, retry | an uncertain command is not lost and not run twice |
| Rail, park and ride | `internal/rail`, `internal/parkride` | connection and car ledgers | reserve, board, miss, hold, release | nothing is counted twice |
| Editor, project files, views, telemetry, tools | the rest | documents, caches | – | pure or sequential; see section 5 |

### How they interact

* HTTP handlers call `Session.Apply`. It decides and applies under `Session.mu`, releases the lock, nudges
  the saver (a channel with one slot) and, for a changed project, starts a save and waits up to two
  seconds for it before it replies.
* `RunStateSaver`, the handlers and the final save call `SaveState`. `persistence.mu` orders them;
  `Session.mu` is held only for the copy, so commands run while a copy is written.
* The project file and the state file are written by different steps. A start compares them.
* The clock goroutine calls `step` under `Session.mu`, which runs `Simulation.Step`: faults and debris,
  dispatch, supply, admission and reservation, motion. Commands and ticks change the frame that the publisher
  captures at most every 50 ms.
* The publisher and the connection handlers share `statePublisher.mu`. A socket write runs without it and
  holds a reference to its payload.
* Clients load the topology over HTTP, beside the stream; the project revision ties the two together.
* Close stops commands and streams; `stopStateSaving` then waits for the saver and makes the final save.

### What is hard here

Delayed and repeated commands across a restart that has lost the replies; a save whose copy is older than
the session when the write ends; a reply that times out while its save goes on; two files that change at
different times; kills and power losses in every gap; reference counts of payloads that a blocked socket
holds; a subscriber that falls behind the history while the stream ID and sequence change; a shutdown that
meets a handshake; pods that reserve cells, junctions and berths in different orders, in platoons that form
and dissolve; an order whose pod fails, is evacuated or is restored between two steps of its trip.
`PROJECT.json` lists these hazards, each at its line, with the properties that cover it.

## 2. Modules

| Module | Models |
|---|---|
| `SessionCommands` | what one command does to the session value: pure operators from a session value to a set of outcomes |
| `Session` | the session over several server processes: commands, receipts, savers, store, project file, crash, start |
| `SavePoints` | one process seen through its commands, with histories of what was shown and captured |
| `StateStore` | the files: temporary file, rename, directory sync, backup, rejected copies, over kills and power losses |
| `AtomicStore` | the abstract register that `Session` relies on |
| `Stream` | publisher, connection handlers, sockets and clients |
| `Frames`, `FrameStream` | the content of frames and deltas; a session, a publisher and a client that exchange them |
| `Traffic`, `TrafficRestore` | reservations, platoons, berths, motion and incidents; export and restore of the pods |
| `Fleet` | orders from submission to their end, with faults, emergencies and restores |
| `Lists` | entries of a list at some of its indexes, for `Fleet` and `Frames` |
| `ListProofs`, `SessionCommandProofs`, `SessionProofs`, `SavePointsProofs`, `StateStoreProofs`, `StreamProofs`, `FrameStreamProofs`, `FleetProofs` | theorems, see section 4 |
| `MCSession`, `MCSessions`, `MCSavePoints`, `MCStateStore`, `MCStorage`, `MCStream`, `MCTraffic`, `MCFleet`, `MCFrames` | instances for the `.cfg` files |

`Session` and `SavePoints` both extend `SessionCommands`, so the same definitions of the commands are
checked in depth (save points, rewinds, demos on two networks and two demand settings) and in breadth
(crashes, savers, concurrent calls). `MCSessions` and `MCStorage` put several instances side by side in one
run: a variable `part`, fixed by the initial state, says which of them a behaviour explores.

Definitions named after a `Mutant:` comment are plausible bugs. No specification uses them; each one stands
for a defect that some property must detect.

### Session: state and actions

| TLA+ | Code |
|---|---|
| `phase`, `closed`, `starts`, `epoch`, `revision` | process life, `Session.closed`, `serverStart`, `Session.epoch`, `Session.revision` |
| `session` | the `Session` fields that commands change |
| `receipts`, `restored` | `Session.receipts`, `Session.restoredSequences` (0 for an absent client) |
| `handler` | an `Apply` call after `applyCommand` returned |
| `save`, `captured` | where each caller of `SaveState` is, and the copy of the one that holds `persistence.mu` |
| `saver`, `persist`, `cache` | nudge slot and pending timer, the `persistence` struct, the project cache of the encoder |
| `store`, `projectFile` | the state file, the file of `-project` |
| `runs`, `seen`, `confirmed`, `fileRevision`, `restores` | histories for the properties |

`Decision` is the switch of `applyCommand`, in its order. A command that it refuses changes nothing and
leaves no receipt: it is a stuttering step. `ReplayCommand` is the exact retry, `ApplyCommand` everything
from `s.apply` to the stored receipt, `NudgeSaver` and `ReplyAfterSave` the rest of `Apply` without the
lock. `BeginSave` is `SaveState` up to the copy (or its early return), `FinishSave` and `FailSave` the two
ends of the write; a failed write may still have replaced the file, which is what a failed directory sync
does. `TakeNudge`, `SavePeriodic` and `SaveFinal` are the savers. `Stop` ends the process in any state.
`StartNew`, `StartUnreadable`, `StartRejected` and `StartRestored` are the outcomes of `NewFromStore`;
`FinishStart` and `FailStart` its startup save. A start that ends with an error before it changes anything
(a state of a newer version, a preserved or too large state) is a stuttering step too.

Senders are not modelled as programs. Any client may deliver any sequence with any epoch that was ever
issued, and a retry of its last command, at any time: this includes every loss, duplicate, delay and
reordering. A project command is based on the current project revision or the one before, and on a page of
this process or the one before; older ones take the same branch.

A project is the triple (net, demand, policy), because a restore replaces demand, tolerates a policy change
and refuses another net. A simulation is the project whose network, weights and policies it runs, the pause
flag and the demo flag. `fleet` stands for trip, fault, clearFault, emergency and speed, which change only
the inside of the simulation and may be refused for reasons below this model.

At the end of a process `runs` and `seen` forget the epochs that are not in the store. An epoch is a fresh
random identifier and a process gets an old one only from the store, so these epochs are over.

### StateStore: state and actions

`entry` is the file of each key that the process sees; `survivors` are the files that a power loss may leave
there: the old and the new one until the directory is synced. `root` says whether the directory of the store
itself survives, `temporary` counts the temporary files that killed processes left, and `call` is the call in
progress of each of the two writers: the goroutine that holds the store, and the command that replaces the
project file (which `saveProject` renames without a sync). Every system call is a step, and a kill or a power
loss can come between any two. `kept`, `begun` and `loaded` are what the callers were told; the refinement maps
them to the variables of `AtomicStore`.

### Stream: state and actions

`source` is what `presentationFrame` would return; `frame`, `stream`, `sequence`, `history`, `full`,
`needFull`, `retained`, `released` are the publisher's fields; `payloads` are the reference-counted
encodings; `work` is where the publisher goroutine is inside `publish`, `admitEncoded` and `retain`;
`subs` are the subscribers on the server, `writers` the order in which writes started; `peers`, `inbox`,
`controls`, `shown` are the clients and the sockets.

One action is what the code does under `statePublisher.mu` at once. A publication is `Capture` (or
`EarlyWake`, which republishes the current frame for a new subscriber), `Admit` or `Shed` and
`WaitReleased`, then `InstallDelta`, `InstallFull` or `ReplaceLarge`, then `CheckFull` and
`InstallExtra`. Handlers interleave with all of them: `Register`, `Accept`, `Hello`, `StartWrite`,
`AskFull`, `FinishWrite`, `StartHeartbeat`, `ReadControl`, `Expire`, `Leave`. Clients `Receive`,
`AnswerHeartbeat` and can lose the connection at any time (`LoseConnection`).

Abstractions:

* A frame is (project revision, generation, contract, version). A delta remembers the frame it was made
  from; applied to another one it gives `Corrupt`. That a delta applied to its base gives the next frame is
  what `FrameStream` checks.
* The wake channels are left out. They shorten waits only: a handler looks again after a second, the
  publisher after 50 ms. The channel `released`, on which `admitEncoded` really waits, is in the model.
* Timers are nondeterministic: `Expire` may fire whenever something is outstanding.
* A client opens its next connection when the server has dropped the old one; an overlap of the two is a
  second member of `Conns`.
* The client side of a message is available as soon as its write starts, so acknowledgments can arrive
  before the write returns.

### Frames and FrameStream

`Frames` holds pure operators: what `presentationFrame` puts in a frame, which groups a delta carries, what
`ApplyStream` and the assembler accept and keep. A slice is a set of at most one sequence, so that nil and
empty stay different. `FrameStream` runs a small session (orders, boarding, driving, faults, debris,
emergencies, project changes, demo, restart), captures its frames and delivers them as full or delta
envelopes; the client asks for the topology when the project is a new one. The credit and the retention of
the envelopes are left to `Stream`. `sameChain` compares the order contract and no other marker, as the code
does. A demo keeps the markers of the topology. `boardings` are never sent as null.

The session of `FrameStream` is as fine as the checks of a frame are: a faulted pod neither departs nor arrives nor
unloads, a fault that ends gives its pod back to its emergency, an evacuation ends the emergency of its pod, a party
that an unload leaves behind starts another leg at that station, a route identity grows with each route and stays at
the largest counter, and a pod at that identity leaves no frame.

### Traffic and TrafficRestore

A lane is a row of cells with resources: tracks, nodes, conflict zones, berths. One tick is a sequence of the
stages of `Step`: faults and debris, admission and berth choice, reservation, platoons, motion, release. A pod
moves by at most one half cell a tick, and in the safety scenes any pod may stay behind; the motion kernel is
replaced by any travel within the limit it computes. Left out: speeds, turns, speed limits, the platoon
horizon, classes with different lengths, coast ceilings, the second routing pass, junction groups, depots and
unloading timers. Routes are the fixed ones of `RoadTo`.

`TrafficRestore` adds a restart between two ticks: `ExportState` writes each pod with the part of its route
that can still hold a resource, `RestoreState` derives the reservations again, demotes a pod that cannot keep
its place to a berth and falls back to the logical tier. Every tail has one length, so that the saved start of
the origin follows from the others; decode errors, waiting orders, counters and the link checks of groups,
depots, turns and speed limits are left out. `recorded` says whether the scene has the boarding contract; the
block budget is scaled down. A refused state and the logical tier both start with the pods at their first
berths and without records.

### Fleet

`queue`, `pods`, `completed`, `interrupted`, `faults`, `emergencies` are the collections of `Simulation`;
`stage` and `index` say where a tick is: between two calls, in the dispatch pass of a tick or of a command, in
swaps and positioning, or in motion. Travel times, detours, the start of a diversion, the benefit, budget and
cooldown of a swap and the cadence of emergency handling are nondeterministic. The stations that a fault cuts
off are a set recorded with it. One vehicle class; the demo, depots and platoons are left out, as are the
commands that exist for tests only (`InterruptRider`, `IncidentForTest`) and the mark of an interrupted order in
`placeDemoted`, which no state reaches. A grant and the departure it allows are one step, as in `Step`.

The operations map a state, the record `Now` of the six collections, to a state or to the set of possible
ones, since one step of the code is a chain of them. The loops over the pods are `InFleetOrder`, those over
orders `QueueAll`: recursive functions on numbers, which both TLC and the provers can follow.

## 3. Runs

Every run finishes in a few minutes with two workers. Sizes are distinct states.

| Run | Properties | Instance |
|---|---|---|
| `sessions` | `SimulationRunsProject`, `AtMostOnce`, `ClientsCountedOnce`, `RestoreLoopBounded`, `EpochCountersNeverGoBack` | three parts: 1 client with 2 sequences over 4 processes; 3 clients against a limit of 2 over a restart; demand and demo commands with a project file; 0.7 M |
| `saves` | `TypeOK`, `ConfirmedChangeSurvives`, `SavedProjectIsCaptured` | 2 concurrent `Apply` calls, saver and final save, 2 networks, 2 processes; 0.9 M |
| `live` | `ProjectChangeEventuallySaved` | `FairSpec`, one process; 52 k |
| `storage` | `ProjectsIdentified`, `NewestPointsRetained`, `RewindRestoresCapture`, `NeverTorn`, `RejectedStateKept`, `RegisterImplemented` | save points on 2 networks and 2 demands; files with 2 states, 4 processes, 4 calls; 0.9 M |
| `stream` | `PublicationsApply`, `ControlsAccepted` | 1 connection reused, 3 frames, 2 sources and contracts, history of 1, sequence wraps at 3, a heartbeat; 1.7 M |
| `pressure` | `RetentionAccounted`, `PressureHasOwner` | 2 connections blocked in writes; 1.6 M |
| `streamlive` | `TypeOK`, `ConnectedClientsCatchUp`, `StopsEventually` | `FairSpec`, 3 frames, history of 1, credit of 1, Close at every point; 67 k |
| `traffic` | `OwnersExact`, `PlatoonsSound`, `Separation`, `EveryPodArrives`, `RestartKeepsPods` | 3 pods on a ring of two stations with two berths each and a by-pass lane, 12 scenes; 0.14 M |
| `fleet` | `OrdersAccounted`, `SaveContractHolds`, `IncidentsConsistent`, `BoundPodServes`, `WithdrawnIsNoSupply` | 2 pods, 3 stations, 2 or 3 orders, 6 settings; 0.47 M |
| `fleetlive` | `EveryOrderEnds` | `FairSpec`, 2 settings with a fault, an emergency and a restore; 47 k |
| `frames` | `FrameMirrored`, `PublicationsAccepted`, `RoutesOfTheirProject`, `EventuallyShown` | 3 networks with different markers, 7 scenes; 0.12 M |
| `freshstore` | `DirectoryStays` (violated) | a kill between making the directory and its first sync; 0.7 k |

What they show, in words:

* **At most once.** `session.go` promises that "older sequences never replay". Receipts are not saved; only
  the highest sequence of each client is. `AtMostOnce` holds across restarts because an epoch goes on only
  after a *final* save, which nothing follows. `EpochCountersNeverGoBack` is the other half: a client that
  sees the same epoch never sees a smaller revision, project revision, generation or save point ID.
* **What `stateSaved: true` means.** `docs/operations.md` says that a restore "cannot go back to the state
  before the command". `ConfirmedChangeSurvives` states this against the store, and adds that the project
  file still matches the stored state unless a later command replaced it, so that the next start does not
  throw the state away. `ProjectChangeEventuallySaved` says that an unconfirmed change reaches the store too,
  although the nudge channel drops values and saves fail and wait.
* **The files.** `RegisterImplemented`: what a start reads is the last confirmed state or one whose write was
  begun later, wherever kills and power losses fall. `NeverTorn` includes the project file, whose directory is
  never synced. `RejectedStateKept`: `Reject` deletes only what it has durably copied, and the pruning of old
  copies does not take that one.
* **A finding.** `freshstore`: the comment at `statestore.go:439` says that the directories that `Open` made
  are synced. A process that is killed before its first sync leaves a directory that the next process finds and
  takes for an old one; its parents are never synced, and a power loss can take the directory with confirmed
  states in it.
* **One revision, one project.** The state encoder caches the encoded project by (epoch, project revision)
  and clients cache the topology by the same key. `SavedProjectIsCaptured` and `ProjectsIdentified`
  show that the key is sufficient, also after rewinds.
* **The fleet runs the project.** `SimulationRunsProject` follows the weights through demand changes, demo,
  reset, rewind and both restore tiers with a project file that changed in between.
* **Streams.** `PublicationsApply`: a client never has cause to refuse a message, and each delta meets its
  base, through eviction, new streams and a wrapped sequence. `ControlsAccepted`: the server never refuses a
  correct client. `RetentionAccounted`: the references and the retained bytes kept by hand equal what they
  count. `PressureHasOwner`: the error "stream retention has no lease owner" cannot occur.
* **Frames.** `FrameMirrored`: along every chain of full and delta envelopes the client has the publisher's
  frame. `PublicationsAccepted`: the checks of the client never refuse what the simulation shows.
  `RoutesOfTheirProject`: routes are never drawn on the network of another project.
* **Traffic.** `OwnersExact`: the owners that the stages of `Step` keep by hand are those that the retention
  rules give, so no reservation leaks and none is lost. `Separation` and `PlatoonsSound` are the safety of the
  track; `EveryPodArrives` the absence of a standstill; `RestartKeepsPods` says that a restart within its
  budget keeps every pod where it was.
* **Orders.** `OrdersAccounted`: every order is in exactly one place at every point of a tick.
  `SaveContractHolds` is `checkContract`: what the fleet would save is always restorable. `EveryOrderEnds`: no
  order waits for ever for a pod that it lost.

### Bounds

`MaxSequence`, `MaxRevision`, `MaxTick`, `MaxStarts` bound `Session`; `MaxProjectRevision`,
`MaxGeneration`, `MaxCheckpoint` bound `SavePoints`; `MaxStoreStarts`, `MaxStoreCalls` bound `StateStore`;
`MaxVersion`, `MaxSource`, `MaxStream`, `MaxHeartbeat` bound `Stream`; the fields of `Scenes` and `Options`
(trips, incidents, restarts, orders, faults, steps) and `MaxWire` bound the other modules. They appear only in
guards. The limits of the code (`ClientLimit`, `CheckpointLimit`, `KeepRejected`, `RestoreLoopAttempts`,
`HistoryCount`, `HistoryBytes`, `MaxMessage`, `CreditCount`, `CreditBytes`, `MaxCounter`, `Connections`,
`PlatoonLimit`, `PartyLimit`, `MaxStops`) are parameters set small, so that each limit is met and passed: a
third client against a limit of two, a third save point against two, a second rejected copy against one, a
second delta against a history of one, a fourth publication against a largest counter of three. Four processes
are enough for a final save, a restore that keeps the epoch, a restore from a state that is not final, and a
third restore in a row. In `pressure` a message may be larger than the history, and the budget is the history
plus two messages as in the code: then two blocked full frames and a third encoding do not fit. Three pods on
the ring meet at merges, at the diverge before the by-pass, in a platoon and at an occupied berth; two pods and
three stations let a trip lose its pod, share a ride and be picked up on the way.

The theorems of section 4 remove the bounds for the properties they state.

`CHECK_DEADLOCK FALSE` is set where the system may stop: a server past its last start, a publisher that
ended, a scene or an option whose trips, orders and steps are used up.

### Fairness

`Session!Fairness`: an `Apply` call goes on after it released the lock and returns from its wait at the
latest after two seconds (WF); a goroutine that waits for `persistence.mu` gets it, since Go hands a mutex
over to a waiter after one millisecond (SF of `BeginSave`); a store call ends within its timeout (WF), and
a store that is tried again and again takes some write (SF of `FinishSave` – an assumption on the disk, and
the only one that the code does not control); the timers of the saver fire (WF). No command, no stop and
no close is fair.

`Stream!Fairness`: goroutines run and writes end by their deadline (WF); the capture deadline is kept
across early wakes, so a stream of early wakes cannot postpone it (SF of `Capture`); a client that stays
connected reads and answers (WF). Losses, timeouts, failures and commands are not fair.
In `ConnectedClientsCatchUp`, `OutOfStreams` ends the obligation when the model has used its last stream
ID; the code has no such limit. The liveness instance of the stream has one connection, with which
the budget is never exceeded: `Shed` and `WaitReleased` are covered by the safety run `pressure` only.

`Traffic`: the clock runs `Step` again and again, so its stages go on; one of them is always enabled. Trips and
incidents are not fair, and `EveryPodArrives` speaks of the scenes in which pods that may move do so.

`Fleet!Fairness`: ticks go on; a pod that could move again and again moves in the end (the motion of `Traffic`);
a deferral has a deadline. Commands and faults are not fair; `EveryOrderEnds` asks that the faults are over.

`FrameStream`: in the scenes marked `fair`, the client receives, reconnects and asks for the topology (WF) and
the publisher captures (SF, since its timer does not wait for this client).

## 4. Proofs

All theorems hold for every value of the constants that satisfies the named assumptions of the modules; TLC
evaluates those assumptions on every run of an extending module. They say that bounds and limits are natural
numbers, that sets of connections and clients are finite, that markers such as `None` are not data, that
message sizes are between 1 and `MaxMessage`, and that an order goes from one passenger station to another.
`FrameStreamAssumption` also says that a fleet lists each pod once and that a project with faults or emergencies has
interruptions: the groups of an incident ask for the network's interruptions first (`internal/sim/prepared.go`).

| Module | Theorems | Inductive invariant |
|---|---|---|
| `SessionProofs` | `TypeCorrect`, `CommandsRunAtMostOnce`, `Invariance` | `Inv` = `TypeOK`, `SaveInv`, `RunsInv` |
| | `SimulationFollowsProject`, `SavedProjectsAreCaptured`, `ConfirmedChangesSurvive`, `RestoresBounded`, `EpochCountersGrow`, `ClientsStayAccounted` | `AllInv` = `Inv`, `ProjectInv`, `SeenInv`, `ConfirmedInv`, `RestoreInv`, `ClientsAccounted` |
| `SavePointsProofs` | `ProjectsStayIdentified`, `NewestPointsStay`, `RewindsRestore` | types, soundness of the session value, `ShownInv`, `CapturesInv` |
| `StateStoreProofs` | `FilesNeverTorn`, `RejectedStateStays`, `ConfirmedDirectoryStays`, `StoreImplementsRegister` | `FilesInv`; `StoreInv` adds `RegisterHolds`, `CallAhead`, `RootSound` |
| `StreamProofs` | `RetentionIsAccounted`, `PressureHasAnOwner`, `PublisherInvariant` | `PublisherInv` = `TypeInv`, `WorkInv`, `LeaseInv`, `SocketInv` |
| | `PublicationsAreApplied`, `ControlsAreAccepted`, `StreamInvariant` | `Inv` = `PublisherInv`, `ChainInv`, `ConnInv` |
| | `TypesHold`, `CreditInvariant` | `CreditInv`, beside `PublisherInv` |
| `FrameStreamProofs` | `ClientMirrorsThePublisher`, `ShownRoutesAreOfTheirProject`, `FramesInductive` | `FrameInv`: `SessionSound`, `SessionGood`, `PublisherSound`, `ConnectionSound`, the assembler and `ShownSound` |
| | `PublicationsAreAccepted` | `AcceptInv` (`WireSound`, `RevisionsSound`, `ClassesListed`), beside `FrameInv` |
| `FleetProofs` | `FleetAccountsForOrders`, `FleetKeepsTheContract`, `FleetIncidentsAgree`, `FleetPodsServe`, `WithdrawnTakesNobody`, `FleetInductive` | `Inv` = `Good(Now, J, submitted)`: `PodGood`, `Incident`, `QueueGood`, `Split` |

`SessionCommandProofs` holds the lemmas about the commands that two of these modules use, `ListProofs` those about
`Selected`, which `Fleet` and `FrameStream` share. The inductive invariants were checked by TLC on a small
instance before they were proved, except for the parts of `FrameInv` that say that a chain of frames exists: TLC
cannot enumerate those, and checked only what follows from them.

**Session.** `AtMostOnce` alone is not inductive: nothing in it says that a sequence that ran will be refused.

* `Covers(f, e)` says that the sequences `f` bound every command that ran in epoch `e`. `RunsInv` asks it of
  the last known sequences of the running session, of a copy for a final save, and of a stored final state. A
  command runs only above its client's last sequence, so it has not run before.
* A stored *periodic* state need not cover its epoch, and does not: commands run after it. It is harmless
  because `KeepEpoch` asks for `store.final`; all other starts take a new epoch, in which nothing ran.
* A copy for a final save stays covering while it is written only if nothing runs meanwhile. `SaveInv` gives
  that: the final save is not idle only in a closed session, and one saver writes at a time. A stored final
  state of the running epoch implies `closed`: the startup save of the next process overwrites it before the
  server is up. Without this clause a crash of a continued epoch could go back to the old final state.
* `ProjectInv` ties the running simulation, the copy, the encoder's cache and the stored state to projects: two
  values with one epoch and one project revision have one project. `SeenInv` bounds what an epoch showed by the
  counters of the session, of the copy and of a stored final state. `ConfirmedInv` follows a confirmed revision
  through the copy, `persist` and the store; `RestoreInv` counts restores against the stored attempts.

**Save points.** Revisions and origins identify projects because a rewind that changes the project takes a new
revision, while the origin comes back with the project. `CapturesInv` relates each retained entry to the
history of captures.

**Files.** `FilesInv` holds of every process: no step makes a torn file visible, so `FilesNeverTorn` has no
condition. The register, the rejected copies and the directory need `KillBeforeSync = FALSE`: no process is
killed between making the directory and its first sync. The condition is a hypothesis of the theorems and not an
assumption of the module; `freshstore` shows that the code needs it. `StoreImplementsRegister` is the refinement:
every step of the files maps to a step of `AtomicStore` or to a stutter. `CallAhead` says what a call in progress
may still leave behind, `RegisterHolds` that every file a power loss can leave under the state key is the kept
state or one begun later.

**Retention.** `LeaseInv` says that the publisher holds a payload in one place only (history, cached full frame
or pending encoding), that its references are this place and its writers, and that `retained` is the sum of the
sizes of the live payloads. `WorkInv` adds what the publisher checked when it made a pending encoding: an extra
full frame meets no cached one. Sums of sizes are folds of the community modules; their equations are proved by a
smallest counterexample over the subsets of a finite set, because induction over data is out of the prover's
reach. `PressureHasAnOwner` follows: without writers, a publisher that let go of everything retains nothing, and
one message always fits.

**Messages.** `ChainInv` says that the n-th payload of the history is the delta to the n-th last sequence, that
each delta starts from the frame of the one before, and that the last one ends in the current frame, as the
cached full frame does; a pending payload is the encoding of the pending frame. `ConnInv` is about one
connection: `Linked`, each message on the way follows from where the one before leaves the client; `Piped`,
the answers and the messages on the way are together, in order, exactly what the handler waits for, and the
position of the handler is where the last message leaves the client; `Placed`, a handler that is at the current
stream is at a frame from which the next delta starts. `PublicationsApply` is `Linked` for the first message,
`ControlsAccepted` is `Piped` for the first answer.

**Credit.** The bytes of a connection grow with a message and shrink by the fold over the messages that an
acknowledgment covers. `CreditInv` says that they are the sum of the messages still kept, so the subtraction stays
a natural number. The fold is evaluated by its definition over sets of indexes; `FoldEquation` and the lemmas after it
show that it is the sum of a prefix.

**Frames.** `FrameMirrored` compares two frames at one sequence, but says nothing of the envelopes between. `Chain`
does: with the client's frame as number 0, each envelope carries a frame of the publisher, in full or as the delta of
the frame of the envelope before, and the last one is the frame of the publisher. `Mirrors` allows what the code
does: a list that is empty in the frame of the publisher is absent after the wire. The central lemma is that applying
`MakeDelta(a, b)` to a mirror of `a` gives a mirror of `b`, for each group and each vehicle; it needs that all frames
are made by `MakeFrame` (`Made`) and that a delta is made only between frames of the same pods. `SessionSound` says
what `MakeFrame` needs from the world. `TopologyOf` and `ShownSound` follow the project revision: the assembler keeps
the routes it expanded only with the topology they belong to, and a topology that arrives late is of the project that
its revision names, since a revision is never used again.

`PublicationsAccepted` is about the simulation as much as about the stream, because the client checks a frame against
what a simulation may show. The argument has four parts.

* `SessionGood` is what the simulation keeps, of the current world and of a save point: a vehicle is at a station or
  on the lane of its route, its boarding records are one for each party with the berth where it boarded, only
  parties that share are together, a purpose has the hold that owns it, the holds agree with the records, and the
  serials of the records grow. Each step of the session keeps it: boarding, arriving, faults and debris that end in
  any order, an evacuation during an emergency, an unload that sends parties back to the queue.
* `Valid` is a frame that passes every check of the client. `FrameValid`: the frame of a good session is valid.
  `MirrorsValid`: so is what a client makes of it.
* `DeltaFitsMirror`: the delta of two frames of one chain fits every mirror of the first one; with `WireSound`, the
  positions of the envelopes follow each other, so the first one under way always has a candidate.
* `RevisionsSound`: what is under way is not older than what is shown, and the publisher's frame is not older than
  either, through reconnections and restarts. A client therefore never finds a state stale.

**Fleet.** One invariant proves all five properties, because each of them needs the others: an order stays in one
place only if riders that leave a pod are the ones its stops and marks name, a pod that serves a trip is empty only
if its flags agree with its riders, and a restore keeps a trip's pod only if the holds agree with the records. `Good`
is about a state that the operations pass on, so it holds between the operations of one tick as well, not only
between two calls, where the properties are stated.

* `PodGood` is what a save checks, by the phase of the pod, and more. The checks alone are not inductive: they leave
  open that a recovery drive belongs to a fault, that an unload belongs to an emergency, that an occupied pod on
  its way is bound for a passenger station and that only an empty pod on its way is released, on which the next
  operations rely.
* `QueueGood` asks of each trip that it can count on the pods it names (`TripOK`: the pod serves the pickup and is
  not the excluded one, the awaited pod is in service) and that no two trips name one pod.
* `Incident` ties holds, marks and records; `Split` puts each order in exactly one place.

Each operation has a lemma with the invariant before and after it, and with what it leaves alone: whose parties
shrink (`Shrinks`), whose holds stay (`HoldsStay`), which trips loosen (`Loosened`). `Leaves`, `Rebinds` and
`Edits` are the general shapes of a change, each proved once: pods and trips change and keep their promises,
riders leave a pod for the queue, the completed or the interrupted orders. The loops go
by the lemma `Loop`, an induction over 1, ..., n that rests on the least member of a set of numbers (`LeastMember`).
`WithdrawnTakesNobody` is the action property: along the chain of a step, the party of a pod that keeps a hold only
shrinks.

Only model-checked:

* All liveness (`ProjectChangeEventuallySaved`, `ConnectedClientsCatchUp`, `StopsEventually`,
  `EveryPodArrives`, `EveryOrderEnds`, `EventuallyShown`): fairness is out of the prover's reach.
* `MCSessions.ClientsCountedOnce`: the theorem `ClientsStayAccounted` is the same statement for every instance.
* `TrafficRestore`: recursive operators over data, which a module with a theorem cannot reach.
* `Traffic` (`OwnersExact`, `PlatoonsSound`, `Separation`): no theorem. The owners of a resource are folds over the
  routes of all pods and the limits of travel are minima over cells and predecessors; an inductive invariant has to
  say what each stage of a tick has claimed so far of every cell, junction and berth.

## 5. Not modelled, and why

* **Encodings**: JSON and gzip layouts, size limits, number formats, wire records of saved orders and faults.
  Pure functions, for which the repository has table and fuzz tests.
* **Kinematics** of pods: floating point. Traffic takes any travel within the computed limit.
* **The command client** of `internal/remote/client.go`: `Session` admits every sequence of deliveries that a
  client can cause, so its safety does not depend on the client; the client's own queue is not checked.
* **Route search, costs and estimates** of the simulation: nondeterministic choices in `Fleet`, fixed routes in
  `Traffic`. Demand arrivals, depots, station groups and the demo's own traffic.
* **Rail connections and park and ride**: ledgers of one simulation without concurrency; in the plan.
* **Editor, project files, presets, views, telemetry, command-line tools**: sequential or display only.
* Log messages, metrics, save statistics, back-off times.

## 6. Plan

1. `ParkRide`: the holds and the places of `internal/parkride` (P: conservation), and the ledger of
   `internal/rail`.
2. `CommandClient`: queue, sequence and retries of `internal/remote/client.go`, composed with the decisions of
   `Session`, against an abstract service that runs each command at most once and answers it.
3. Theorems about `Traffic`: `OwnersExact`, then `PlatoonsSound` and `Separation` from it. (P)
4. HTTP admission of large bodies, the speed clock with its batch size, the place-search limiter.
