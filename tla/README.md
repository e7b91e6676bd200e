# TLA+ verification of rfb

rfb runs commands in sandboxes: a host library and CLI (`rfb`), a runtime that
lives in the guest (`rfb-runtime`), and an adapter for agents (`rfb-adk`).
Sandboxes are Firecracker VMs started from snapshots on this host (ZeroBoot) or
created by forkd controllers on other hosts (forkd, cluster). This directory
holds TLA+ models of the parts of rfb whose correctness depends on interleavings,
failures and bounds, the TLC runs that check them and the proofs TLAPS checks.

`PROJECT.json` lists components, runs, mutants, the definition-to-source map,
findings, hazards and theorems in machine-readable form.

## Inventory

| Component | State | Operations | What is hard about it | What makes it correct |
|---|---|---|---|---|
| ZeroBoot session pool (`rfb/src/zeroboot/provider.rs`, `SessionPool`) | `busy`, `dead` flags, semaphore `free`, each session's `alive` | `acquire`, drop of `PooledSession`, reader task death | lock-free scan, a slot dying at any moment, cancelled waiters | exclusive slots, permits match live slots, nobody waits for ever, the all-dead error is true |
| Guest runtime service (`rfb-runtime/src/runtime_service`) | handshake, active sessions, completed and cancelled results with tombstones, the executor | `handle`, `spawn_turn`, `complete_turn`, `cancel_active`, `abandon_active_turn`, `replay_cached_turn` | at-least-once delivery, bounded memory, shutdown in any state | a finished request is not run again, no session stays wedged |
| Framed guest connection (`guest_connection.rs`) | turn worker, result channel, detached task | serve loop, worker, two bounded waits | disconnect during a turn, panics, late results, several connections | the one executor is never duplicated and comes home, nothing starts after shutdown |
| forkd cluster provider (`rfb/src/cluster.rs`) | per node `inflight`, `failures`, `next_trial_ms`; rotating cursor | create with failover, probe, reconcile, release, drop of a handle | several callers on the same atomics, indeterminate create failures, stale clocks | counters equal reservations, one half-open trial per interval, no sandbox in use is deleted |
| ZBRT guest connection (`zeroboot_connection.rs`) | handshake, the active turn, remembered requests, worker channel | dispatch loop, filesystem RPCs, cancel, teardown | backpressure, cancel during a turn, panics, disconnects | one turn at a time, one terminal frame per turn, a turn left behind is stopped |
| ZBRT host session (`provider.rs`, `ZeroBootSession`) | in-flight map, turn lock, dropped-bytes ledger | turn, stream, cancel, health, demux | late frames of an abandoned request, full channels | frames reach their request, truncated output is reported, the guest is free when the lock is |
| Host vsock client (`host_vsock.rs`, `vsock_relay.rs`) | relay identity, one shared session or one-shot connections, `poisoned` | connect, turn, file read and write, shutdown | deadlines and dropped futures between and inside frames, a replaced relay socket | every operation gets its own answer, nothing is read from a stream that lost its alignment |
| VM lifecycle (`provider.rs`) | work and fork directories, directory locks, parent snapshot and its identity | scavenge, prepare, restore, open, fork, drop | a crash between two file operations, two processes on one directory, one baked relay path | no half-written snapshot is restored, directories in use stay, a pool talks to its own VM |
| Firecracker controller (`firecracker_core/firecracker`) | child, forking thread, API socket and its identity, snapshot files | spawn, configure, restore with fallback, snapshot, kill, drop | failure at every call, PDEATHSIG tied to a thread, files that grow while they are polled | no child without an owner, a snapshot is that of this call |
| Workspace executor (`workspace_executor/`) | child process group, cancel flag, size cache per root | exec, cancel, write, list, find, grep | kill and reap races, pipes held by descendants, the cache shared by executors | nothing of a failed command survives, output is whole, the size limit is checked against the truth |
| Guest agent (`agent/`) | connection permits, a command and its pipes | token line, dispatch, exec, stream | stop, deadline, exit and hang-up race | the end line follows all output |
| Codecs and text helpers (`codec.rs`, `zeroboot_protocol.rs`, `utf8_boundary.rs`, `glob.rs`) | none | encode, decode, split, match | boundaries of lengths and of code points | decode inverts encode, nothing is split inside a character |
| Guest clients (`rfb/src/forkd/guest.rs`, `rfb/src/client/zbrt.rs`) | warm connections | request, exec, stream, stop | stale and dying connections, retries | a caller sees its own answer, a request runs twice only where documented |
| forkd commands (`rfb/src/cli/forkd`) | none of their own; controller's sandboxes, snapshot directory, binding record | acceptance, workload and benchmark gates, backend-up, snapshot create, delete, bind | lost answers, overlapping invocations | success leaves nothing behind, a binding vouches for what was measured |
| Image build (`rfb/src/cli/image_build`) | temporary image, output and three companions | four entry points of some twenty stages | failure or kill at any stage, overlapping builds | the output is a whole, verified image |
| Orchestration (`orchestration.rs`) | session table, generations, one lock | create, cancel, destroy, reap | provisioning outlives its caller | every worker is owned or reaped, the session stays usable |
| ADK adapter (`rfb-adk`) | sandbox state, registered tools, history, inbox, abort flag | agent loop, start and stop tools | overlapping tools at awaits, abort between calls | tools belong to a live sandbox, the history is well-formed |
| CLI dispatch, SDKs, TUI, guest boot, interpreters, web bench | none that outlives a command | | | not modelled: I/O |

How they interact: a caller of a ZeroBoot sandbox makes a VM (`VmLifecycle`, whose
VM is a `Firecracker` child), takes a session from its pool and runs a turn on it
over ZBRT; in the guest every connection owns a runtime service whose executor a
worker thread borrows for the turn, and the executor supervises the command. A
cluster caller gets a forkd sandbox on one of several controllers and talks to the
agent in it by lines of JSON. In production
`guest_vsock::run` gives every connection its own `RuntimeService`; the service
is nevertheless written to be shared (`dispatcher::serve` takes an
`Arc<Mutex<RuntimeService>>`, and the repository's tests share it), and
`GuestConnection` models the shared case, which contains the other.

## Modules

Each component's module is a specification of its own, with its own type
invariant and properties. The MC modules put several of them into one model: they
share no variables, so a behaviour of such a model is a behaviour of one component,
named by the variable `scene`, while the others keep their initial values. The
state space is the sum of the components', not the product.

| MC module | Scenes |
|---|---|
| MCPool | `pool` (SessionPool), `image` (ImageBuild) |
| MCGuest | `together`, `apart` (GuestConnection with one session or two), `serial` (SerialRuntime), `exec` (WorkspaceExec), `files` (WorkspaceFiles), `stream` (AgentStream), `scan` (Scan), `codec` (Codec) |
| MCZbrtGuest | ZbrtGuest |
| MCZbrtHost | `zbrt` (ZbrtHost against ZbrtPeer), `framed` (HostVsock) |
| MCVm | `sandboxes` (VmLifecycle), `controller` (Firecracker) |
| MCHost | `cluster`, `pair` (Cluster with one node or two), `requests` (ForkdGuest), `gates` (ForkdGates), `snapshots` (ForkdSnapshots), `session` (Orchestration), `agent` (AgentLoop), `client` (ZbrtClient) |

### SessionPool, SessionPoolProofs

One process per caller of `acquire`. Every atomic access is an action of its
own: the permit (`TakePermit`), the load of `dead[i]` (`LoadDead`), the
compare-exchange on `busy[i]` (`TryClaim`), the liveness check (`CheckAlive`), the
two stores and the `forget` of a condemnation (`MarkDead`, `ClearBusy`, `Retire`,
the last one with the all-dead check and `close`), and the two halves of a drop
(`DropFlag`, then the permit field, `DropPermit`). Flags are sets of slots.
`ConnectionDies` is the reader task's `alive.store(false)`. Loads are
sequentially consistent: the Relaxed loads of the all-dead check could in theory
let two condemners miss each other, which the model does not show.

### RuntimeService, SerialRuntime, GuestConnection, GuestConnectionProofs

`RuntimeService` holds the methods of the struct as operators from the struct (a
record) to the struct and the kind of answer. Both caches are sequences of
entries in insertion order; the eviction loops run at most once per insert and
are one step. Payloads, sequence numbers and texts are dropped.

`SerialRuntime` drives it through `handle` only, with an arbitrary executor: a turn
completes, fails, or answers with events that do not end it.

`GuestConnection` models the serve loop: one action per lock section, so a
StartTurn is `RecvStart` (lookup) and `Claim` (claim), and a result is `TakeResult`
and `Settle`. A turn runs in a worker that ends, fails, is cancelled or panics.
Leaving the loop with a turn in flight starts the detached task: `wait1`,
`FirstWaitElapses`, `AbandonAndWait`, `wait2`, `SecondWaitElapses`. A failed write
is part of each answering action (`AfterWrite`). Time moves in units of 30 s.

### Cluster, ClusterProofs

One process per caller of `create_sandbox_with`, one for `probe()`. `BeginCreate`
reads `now_ms` and orders the candidates; `AttemptHealthy`, `LoadGate` and
`ClaimTrial` are `claim_trial`; `CreateOk`/`ReturnHandle`, `Rejected`,
`NodeFault`/`Strike`/`Trip` the three outcomes with each store apart;
`ReconcileList`, `ReconcileDelete`, `ReconcileFails` the cleanup; `Abort` the drop of
the future at an await. The controllers are external: `Land` and `LandLate` create
a sandbox independently of what the caller sees. The failure counter is kept up
to FAILURE_TRIP, which is all that is ever compared. One clock unit is a second.

### ZbrtWire, ZbrtPeer, ZbrtGuest, ZbrtHost, ZbrtGuestProofs, ZbrtHostProofs

The two ends of a ZBRT connection are checked one at a time, against the promise
that lies between them. `ZbrtPeer` is that promise: one turn at a time, its Output
frames, one terminal frame, one answer to every other request, and no turn ended
by the answer to a Cancel. `ZbrtGuest` (the serve loop of `zeroboot_connection.rs`,
with a `RuntimeService` of its own) is shown to implement it whatever the host
sends (`ServesAsPeer`, a refinement); `ZbrtHost` (`ZeroBootSession`, its reader task,
`ZeroBootStream`) is checked with `ZbrtPeer` as the other end. `ZbrtWire` has the
frames and the relay stream: a bounded ordered buffer each way, a half-close and a
break that loses what is under way.

In `ZbrtGuest` the loop writes what it owes (`owed`) before it takes anything else,
and takes worker messages before a panic before a frame, as the biased `select!`
does. A process runs in a worker (`SpawnWorker`, `WorkerWrites`, `WorkerEnds`,
`WorkerPanics`); a builtin runs on the spot (`RunBuiltin`). A chunk dropped by
`try_send` changes nothing and is a stutter.

In `ZbrtHost` `begin_turn` is three actions (`BeginTurn`, `Register`, `Publish`), so a
future dropped before its guard exists is an outcome of its own (`orphan`). A future
dropped inside `write_request` (752-762) tears the frame on a stream that stays in use;
the model drops the frame whole, and what follows a torn one, a guest that finds no
`MAGIC` and takes nothing more, is a `Break` after that. The reader routes by kind (`RouteEnd`, `RouteOutput`, `RouteAck`, `DropUnknown`) and
delivers terminals in a second step (`Deliver`), which may give up on a full
channel. Bytes are counted in Output frames. Health stands for `health()`, `fs()` and
`cancel()`, which are the same exchange.

### HostVsock

`VsockClient` and the two clients over it. The shared session is one connection
behind a mutex: an operation takes it, sends its frames with increasing sequence
numbers and reads until one answers it (`TurnTakes`, `ReadTakes`, `WriteTakes`,
`ShutdownTakes`); the one-shot client connects, greets, does one operation and shuts
down. `Deadline`, `RecvTimesOut`, `WriteCut` and `DropFuture` are the four ways an
operation ends early, and `Poisons` what they leave. The other end is the guest's
serve loop reduced to what it answers (`GuestServes`, `GuestTurnEnds`).
`RelayReplaced` puts another socket at the pinned path.

### VmLifecycle, Firecracker, VmProofs

`VmLifecycle`: processes (`Host`) that each drive one sandbox (`Box`) at a time
through scavenging, the snapshot directory's lock, the reuse or making of the
parent snapshot (`Prepare`, `Discard`, `Boot`, `Dump`, `DumpEnds`, `Stamp`), the work
directory with its lock, `Restore`, the opening of the pool, `BeginFork` to
`RetireOriginal`, and drop. `Crash` kills a process between any two steps: locks are
released, its VMs die by PDEATHSIG, files stay. `Rebuild` replaces kernel, rootfs
or firecracker. A snapshot file is who wrote it, from which assets, and whether it
is whole.

`Firecracker`: one child from spawn to reap. The thread that forks the child
(PDEATHSIG is tied to it), the guard or handle that owns it, the API calls left to
make, the name of the API socket and its captured identity, and for `snapshot()`
the two growing files and the sizes seen at the last poll. The child is external.

### WorkspaceExec, WorkspaceFiles, AgentStream, GuestCommandProofs

`WorkspaceExec`: `exec_inner` from the arguments (`Exec`) and the input it validates with
the child already running (`Validate`) through its poll loop (`Check`, `Poll`, `Wait`),
where `poll` and the reads may fail, over a child and one background process, which is
in the child's group or in a session of its own and may hold the pipes.
`WorkspaceFiles`: executors on one root with the cached total and the lock around a
write; commands change files in between, and so do processes that a command has left
running (`left`): only an error return kills the group, and no process in a session
of its own (`process.rs` 380-382). `AgentStream`:
the agent's `exec` (`Join` ...) and `stream` (the `select!` branches, the draining),
with a client that sends lines in two segments, stops, or leaves.

### ForkdGuest, ZbrtClient

The two guest clients with their warm pools. In `ForkdGuest` the answers carry no
id, so a request is numbered to see a mix-up; the agent's accept, token and
dispatch steps are the other end. `ZbrtClient` has the control calls with their one
retry, exec over pooled connections (probed when idle), and a stream with `stop()`.

### ForkdGates, ForkdSnapshots, ImageBuild

Commands of the CLI that run side by side on shared state. `ForkdGates` has the
acceptance, workload and benchmark gates, the provider's create and delete, and
`backend-up`, over one external controller whose answers may be lost or late.
`ForkdSnapshots` has snapshot-create, -delete, -bind and the acceptance of the record.
The copy of the rootfs goes through a temporary name of its own (`TempOf`) that a delete
of the directory takes with it, after which the rename fails (`CopyRename`). A binding
that finds a typed record at the controller takes it as claimed and measures nothing
(`BindList`), as the code does; `whole` stands for the fields other than memory and
device state, those measured again (kernel, input rootfs, firecracker) included.
`ImageBuild` has the stages of `build_rootfs`, `build_from_script`, `build_all` and
`build` as a sequence per kind (`Order`, `StagingOrder`); an image is a function from
the paths that contracts speak of to what was put there.

### Orchestration, AgentLoop, HostProofs

`Orchestration`: creates without a lock, cancels and destroys under one, the detached
provisioning task and the reaper. Each call is a future its caller may drop at an await
(`DropCreate`, `DropStop`); spawned tasks go on. `AgentLoop`: rounds of model answers and tool
calls with the inbox and abort flag; the start and stop tools are split at their
awaits, and a second user of the session calls them at the same time.

### Scan, Codec

Loops as transitions, one step per iteration, and encoders as operators, checked
over all small inputs against references: matching by cases, the whole tree, the
undivided text, the inverse. A ZBRT payload is a list of typed fields; RFB1 frames
carry sizes before and after compression.

## Runs

| Run | Checks | Instance | Result |
|---|---|---|---|
| pool | TypeOK, OneOwnerPerSlot, PermitFindsSlot, AllDeadIsTrue, HealthyPoolNeverParks; PublishedTrue | 2 mortal slots, 4 callers; 2 builds out of 4 kinds | holds |
| pool_parked | NoCallerParksForever | 2 slots, one may die, 3 callers | violated |
| guest | GuestTypeOK, ExecutorConserved, NoSessionWedged, RecentNeverReruns, ShutdownHolds, ExecutorComesHome; ExecSettles, ReturnsUnlessDetached; SizeAccounted; EndsWhole; AlgorithmsAgree | 2 connections, 3 requests, limits of 1, panics, turns within the waits; a command with a descendant; 2 executors, 2 files; inputs of up to 4 | holds |
| guest_long_turn | LostOnlyByPanic | turns of up to 60 units (1800 s) | violated |
| exec_drain | ExecReturns | one command, one descendant | violated |
| zbrt_guest | TypeOK, TeardownStopsTurn, ServesAsPeer, TerminalReaches | 2 turns, 1 control id, all capacities 1 | holds |
| zbrt_host | ClientTypeOK, CleanExitIsWhole, TurnOwned, InnocentNeverRefused; FramedClientTrue | an exec, a stream, a control call; up to 2 Output frames, channel, budget and limit of 1; 3 framed operations, 2 of them lost | holds |
| vm | TypeOK, UsedDirsStand, PoolReachesOwnVm, RestoresTrue; ControllerTrue | 2 processes, 3 sandboxes, 1 fork directory, 1 rebuild, 1 crash; 3 children, 2 snapshots | holds |
| host | HostTypeOK, InflightIsReservations, TrialsSpacedByCallerClock, RequestsTrue, ClientSeesItsOwn, PassLeavesNothing, SnapshotsBacked, WorkerAccounted, AgentKeepsSession | 2 callers on 1 or 2 nodes; 2 tasks on 3 connections; 2 invocations, 2 sandboxes, 1 fault; 2 makers and a binder; 2 creates, 2 stops; 2 runs of the loop; 3 client calls | holds |
| cluster_reconcile | ReconcileSparesHeld | 1 node, 1 caller | violated |
| backend_sweep | SweepsOwnController | 2 invocations | violated |
| session_wedge | NoWedge | 3 creates, 2 stops | violated |

What the less obvious properties say:

- **HealthyPoolNeverParks**: as long as every connection stays alive, every blocked
  caller is served. **PublishedTrue**: the image at the output path was assembled and
  checked as a whole, and with no other build running its companions are its own.
- **RecentNeverReruns**, **ExecutorConserved**, **ShutdownHolds**: a request a cache or
  a tombstone remembers is not run again; the executor is in exactly one place; once
  shut down, nothing starts and a worker out there has been told.
- **EndsWhole**: a stream or exec that ends by itself has sent all the child wrote,
  and one that was ended leaves nobody of its group. **ExecSettles** is the same of
  the workspace executor. **SizeAccounted**: a write is let through only if the files
  as they are, with the write, are within the limit, unless commands are running; and with
  no command running the cached total is exact. It excepts the time after an append that
  failed half way (`torn`) and after a process that outlived its command changed a file
  (`stray`), until the tree is walked again: in both the code's total is wrong.
- **UsedDirsStand**, **PoolReachesOwnVm**: nobody removes a directory in use, and a pool
  never reaches another sandbox's guest. **RestoresTrue**: what is restored was written
  completely by one process (RestoredWhole), and a fork continues the state it was made
  from (ForkKeepsState). **ControllerTrue**: a live Firecracker is owned, or the thread
  PDEATHSIG watches is gone (ChildHasKeeper), and a snapshot reports the files of that
  call (SnapshotIsFresh).
- **RequestsTrue** (WarmAnswersOwn and GatedAtMostOnce), **ClientSeesItsOwn**,
  **FramedClientTrue**: an answer belongs to the operation that gets it, on warm, shared
  and reused connections, and a request runs once, or twice only where its connection
  died under it. HostTypeOK holds, beside the types, the accounting of
  InflightIsReservations on two nodes.
- **PassLeavesNothing**: a gate that passes has no sandbox left at the controller.
  **SnapshotsBacked**: no snapshot is booted from a torn copy, and what an acceptance calls
  verified was measured, or claimed by the controller in a typed record.
  **WorkerAccounted**: a worker that is up is in the table, with a call, with a destroy
  or with the reaper, unless its own create or destroy was dropped by the caller; and the
  table names no worker that somebody destroyed or gave up.
  **AgentKeepsSession**: at rest a registered sandbox tool reaches the session's sandbox
  (not every tool need be registered, see below), and when the model is asked again every call in the history has its answer,
  unless an abort cut in.

Bounds. Two slots let two callers disagree about a slot while the other is free,
and four callers leave one to be starved. A cache limit of 1 with three requests
evicts both from results and from tombstones. Two callers are enough for every
race on one node's atomics, which are pairwise; FAILURE_TRIP is 1 or 2 instead of
3, so that a node trips within the bound. `MaxTime` and `MaxBoxes` bound the clock
and the sandboxes ever created; `MaxTurn` is the longest legal turn. In the ZBRT
runs every buffer holds one frame, so each of them is full in some state; two turns
are enough for one to be in the way of the other, and `MaxOutput` (1 or 2) exceeds or
reaches each limit. In `ZbrtGuest` ids come back, so that a remembered request is
evicted and refused; `ZbrtHost` uses each id once, as `new_request_id` does. Two
processes and three sandboxes give one to scavenge while another forks into a
second; one crash suffices because a crashed process does nothing more, and
`MaxBuild` 2 makes one snapshot stale. Three spawns cover the fallback restore and
one more; two snapshots leave old files in the way. `MaxChunk` exceeds
`CaptureLimit`. Two executors and a limit below the sum of two full files make
the cache matter. Warm pools of one overflow with two callers. A pattern and a text
of up to four symbols backtrack twice, and four bytes hold the longest character.

Fairness. `SessionPool!FairSpec`: tasks that can go on are polled, holders finish,
and tokio's semaphore is FIFO, so a waiter to whom a permit is offered again and
again gets one (strong fairness of `TakePermit`). `GuestConnection!FairSpec`: weak
fairness of the serve loop's own steps and of the end of a turn, which its
deadline guarantees; clients need not do anything. `WorkspaceExec!WxFairSpec`: the
executor's thread runs and time passes, in `poll(2)` too; processes owe nothing.
`ZbrtGuest!Spec`: weak fairness of
the serve loop, of the teardown timer, of the end of a command (its deadline) and
of the peer reading what it is sent; without the last one a terminal frame may
stay in the transport for ever, and `write_frame_async` has no timeout.

### What the violated runs show

- **pool_parked.** Two callers that both loaded `dead[i]` as false
  claim slot `i` one after the other and condemn it twice, retiring two permits.
  One live slot is then never offered again, and in the end a caller waits for
  ever with a live connection idle (`provider.rs` 1022-1025, 1089-1092).
- **guest_long_turn.** The second detached wait is 90 s, not the 1800 s its comment
  gives; a longer turn whose client left drops the executor.
- **cluster_reconcile.** Even a single sequential caller loses a sandbox it holds:
  created within the second before a later attempt that fails without landing, it
  is the unique match of the window.
- **exec_drain.** A descendant that called `setsid` and holds the pipes is not reached
  by `kill_group`; every closing window begins the next and `exec` never returns, although
  the comments call the window bounded (`process.rs` 236-239, 249-252).
- **backend_sweep.** `controller_started` is set by a successful spawn, whoever answers
  on the port: a controller that was only slow, or one that another invocation
  started, has its sandboxes deleted (`backend_up.rs` 153-158, 442-450).
- **session_wedge.** A cancel between a create's read of the generation and its insert
  finds nothing to cancel but raises the generation; if the provisioning then fails, no
  branch removes the placeholder, and every later create returns it until the session
  is destroyed (`orchestration.rs` 302-306). No caller drops its call in this behaviour.

### Seen while modelling, without a run of its own

- A StartTurn redelivered while its cancelled turn runs is told `turn.cancelled` from
  the placeholder, and `turn.completed` later if the worker finishes after all
  (`runtime_service/mod.rs` 396). After `abandon_active_turn` (460) neither Cancel nor
  Shutdown reaches the worker.
- The half-open gate is re-armed from a `now_ms` read before earlier candidates were
  awaited, so by the wall clock two trials can follow one another at once
  (`cluster.rs` 723); by the callers' clock they are spaced.
- A dropped stream or future, a stream that times out, and output over the limit give
  back the turn lock without a Cancel, and the next command may be refused
  (`provider.rs` 1338, 1395). `write_request` (759) is not bounded by the deadline.
- Chunks the guest's own `try_send` drops under backpressure (`zeroboot_connection.rs`
  590) are missing from a clean result; the biased select (148) lets output starve
  Cancel frames.
- `ensure_parent_snapshot` stamps the identity of the assets as they are after the dump
  (`provider.rs` 2500), so a rebuild during the dump labels an old snapshot as new; a
  discard stopped half way may leave the old `identity.json` (2443, `torn` in the model);
  a fork that cannot get the lock leaves its directory (2943-2949).
- `attach_api_child` without a socket identity drops the child unreaped
  (`firecracker/mod.rs` 638-645): it dies by PDEATHSIG and stays a zombie.
- A dropped future does not poison the vsock session (`host_vsock.rs` 306); only the ids
  protect the next operation. A one-shot client's Shutdown ends the guest's whole service.
- The agent has no idle timeout: warm pools can hold all 64 permits (`agent/mod.rs`
  103-131). A client that stops reading makes the agent kill the child only, not its
  group (`agent/stream.rs` 327-339).
- A read failure on a reused connection is retried although the guest may have served
  the request, so an append can run twice (`client/zbrt.rs` 389-407, comment 326-338).
- Payload files are installed after the contract was verified (`image_build/build.rs` 702
  against 583-643); overwrite is refused at the start only, and concurrent publishers can
  mix image and companions.
- A partial record passes `--require-provenance` (`dispatch.rs` 284); a failing repeat of
  snapshot-create removes the rootfs of a ready snapshot (`snapshot.rs` 543-547).
- A dropped call of the runtime manager cleans up nothing. `create_for_session` dropped at
  its await (`orchestration.rs` 257-261) detaches the provisioning task: its worker comes up
  with nobody, and the placeholder stays until the session is destroyed. Dropped while it
  settles it forgets its worker too. A dropped `destroy_for_session` (371-379) has the worker
  in a local only and loses it; a dropped cancel leaves the handle at `Cancelling`
  (337-353). These are the workers WorkerAccounted excepts (`Forsaken`). A detached task
  whose `cleanup_with_retry` gives up drops the error (`let _`, 274, 323): its worker is
  `lost` in the model and nobody is told.
- A command whose result comes back has its guard disarmed without a kill (`process.rs`
  380-382). What it left running, with its output redirected, may write after `exec` dropped
  the cached total for the last time; if a write has measured the tree in between, the total is
  too small until the next command, and `max_workspace_bytes` can be exceeded meanwhile. The
  comment at 26-30 means the second invalidation to exclude exactly that, and says a command's
  changes are settled once its child has exited (`SizeSettled`, which holds only without `stray`).
- The comments on `ChildGuard` (`process.rs` 142-144, 584-587) count a reader failure among
  the guarded paths, but the guard is disarmed before the read results are looked at
  (382-392), so that error leaves the group alone. A failing `poll` does kill it.
- `sandbox_stop` takes no lock (`rfb-adk/src/session.rs` 191-209): one that found no sandbox
  unregisters the tools that a start on another task has just registered. The sandbox then
  stays up with no tools, and a new start only answers `reused`, until somebody stops it. The
  comment at 156-157 excludes "sandbox there but tools unregistered", which is true of starts
  among themselves only. AgentKeepsSession allows this state.
- An abort between tool calls leaves calls without answers in the history (`loop_agent.rs` 334-340).
- The workspace grep stops at its limit without setting `truncated` (`dispatch.rs` 296-299).

## Proofs

`SessionPoolProofs` proves, for every number of slots and callers and whichever
slots die: TypeOK, OneOwnerPerSlot, PermitFindsSlot and AllDeadIsTrue. The
inductive invariant adds that a busy slot has exactly one owner, that condemned
slots are not alive, and a counting fact: for every suffix `i..NSlots` of the pool,
the callers that hold a permit and stand at or after `i` are at most as many as the
uncondemned slots there, available permits included for the whole pool. A scan
moves past slot `i` only when `i` is condemned or owned by a counted caller at `i`,
which carries the bound to the next suffix. The fact explains why double
condemnation is harmless to PermitFindsSlot: it only makes permits fewer.

`ClusterProofs` proves, for every number of nodes and callers, both strategies and
every interval, threshold and bound: TypeOK, InflightIsReservations and
TrialsSpacedByCallerClock. The inductive invariant has four parts besides the
types. `GateInv`: since the last trial of a node its gate is at least that trial's
`now_ms` plus the interval; only a success clears the gate, and the memory of the
trial with it. `SeenInv`: a caller between the load and the compare-exchange of
`claim_trial` has seen a gate that is zero or not after its own `now_ms`. Together
they give the spacing, because a compare-exchange that succeeds saw the gate as it
is. `IdInv`: the sandboxes of the handles and of the creates under way are all
different; without it the handle that takes over a guard might be one that exists
already, and the count would drop. `CountInv`: the accounting itself.
The module also proves ClientSeesItsOwn of the SDK client, for every number of calls and
connections, every pool capacity and number of Outputs. The stream (`StreamInv`) has a point that
splits its pieces: those up to it were given or are in `pending`, in order, and those after it are
on their way (`Pieces`); the guest's end is the last of the frames but for a CancelAck
(`EndIsLast`), and an Exit that is given or pending is the last event (`ExitEnds`), so the
reordering that `stop()` might do, events first taken by it and given later, cannot happen. The calls
(`CallsInv`): every connection is unopened, once in the pool and clean, with one call, or
dropped (`LinkKept`, `WarmKept`, `CallKept`); what is on a call's connection is its request or the
answer to it with the end last (`Awaits`), so what goes back to the pool is empty; and a
request is on at most one connection, dropped ones included, and was taken by a guest before only
if its first connection died under the read and this is the retry (`AskedSo`).

`GuestConnectionProofs` proves, for every number of connections, sessions and requests,
every cache limit and both with and without panics: ExecutorConserved, RecentNeverReruns,
ShutdownHolds, TypeOK and NoPhantomTurn. The inductive invariant `IInv` has these parts.
`Conns`: what each connection's program counter says of its worker, channel and turn.
`BooksHeld`: until a Shutdown clears the caches, the completed cache and the tombstones are
exactly the windows of the last 2 x LIMIT recorded keys. This is what makes RecentNeverReruns inductive: eviction
from the cache is insertion among the tombstones, so a key leaves the memory only with
2 x LIMIT newer ones behind it. `OnePlace`: the executor is in one of the places it may be.
`ActiveTurn`: a session is active only while the executor is out, on the turn of the connection
that carries it, or lost. `Stoppable`: the cancel flag of a turn on the books is at hand, and set
once the runtime has shut down. `OnlyOutlastersLose` says which turns lose the
executor: every step that drops it is the end of a worker whose connection is gone and whose turn
has run for both waits of the detached task and longer, 30 s + 90 s in the code; all others bring
it home, whatever the waits and the longest turn are. An invariant (`Timed`) relates how long a
detached task has waited to how long its turn has run. guest_long_turn is the rest: a legal turn
of up to 1800 s may outlast them.

`ZbrtHostProofs` proves TurnOwned, CleanExitIsWhole and TypeOK, for every set of turns, streams
and control calls and every capacity, against every peer `ZbrtPeer` allows. TurnOwned is
inductive once the types of the three variables it speaks of are known: the lock is taken
only when free, and the published id is replaced only by the turn that has the lock.
CleanExitIsWhole follows a turn's Output frames from the guest over the wire and the turn's
channel to the caller. `WholeInv` says of every turn whose call may still end with an exit code:
its Execute is written once (`AskedOnce`), before the guest accepts it there is no output of it
anywhere (`FreshIsClean`), its Exit comes once, after all its Output (`ExitIsLast`), no Exit
follows an Error before which output was lost, since reading the Error forgets the loss
(`ErrorIsApart`), what the peer wrote has come, is on its way, or the turn is marked as lossy
(`Accounted`), and the reader knows the call (`Known`). A turn that ended well is over on the
guest too and has all of its output (`EndedWell`).
The module also proves InnocentNeverRefused (`LoyalInv`): a call that left early has left for good
(`EarlyIsOver`), and while nobody has, every turn is in order (`InOrder`): the guest has a turn or is
about to get it only while its call waits, and gets it once; where an end of it is on its way the
guest is through with it; and a Cancel aims only at a turn that was published. So an Execute finds
the guest free. And it proves FramedClientTrue of `HostVsock`, for every number of
operations and every way they end (`FramedInv`): unless a future was dropped, a read position
inside a frame comes with a poisoned session on which nothing is awaited any more (`Resynced`).

`ZbrtGuestProofs` proves TypeOK, TeardownStopsTurn and the refinement ServesAsPeer, for every set
of requests and turns, every capacity and every retention of results. Its inductive invariant adds
to the types that without a turn there is no worker and nothing of one in the channel
(`IdleIsClean`), that the service's books have the connection's turn, with its flag at hand and
set if the turn is recorded as cancelled (`OnTheBooks`), that a worker's result is its last message
(`ResultIsLast`), and that the loop is left on a connection that ends, with nothing half written,
and sets the flag before it waits for the worker (`LeavesInOrder`, which is TeardownStopsTurn in
the making). The refinement maps the frames still owed to frames on their way: the loop takes
nothing else before it has written them, so the peer's answer is given when it is owed, and every
step of the loop is a step of `ZbrtPeer` or a stutter, whatever the host sends. The safety part
of the refinement is all there is: `ZbrtPeer` promises no liveness.

`GuestCommandProofs` proves ExecSettles and EndsWhole, for every amount of output, capture limit
and number of pieces and lines. For the workspace executor (`ExecInv`): a command without a
child has written nothing and left nobody (`HasChild`), what was written is in the pipe,
captured, or over the limit (`Held`), both pipes end together, when nobody is left to write to
either and nothing is in them (`EndOfFile`), and an error return has killed the group while a
good one has read both pipes to their end, unless a read failed (`Settled`). For the agent (`StreamInv`): where the
handler is says how far the command is (`StagesAgree`), a pipe it no longer reads has been read to
its end (`ClosedIsRead`), an exit line waits for both pipes or for a drain that was cut short, and
a deadline or a stop has killed the group (`EndsClean`).

`VmProofs` proves, for every number of processes, sandboxes, forks, kills and rebuilds,
UsedDirsStand, PoolReachesOwnVm and VmTypeOK. The argument of `VmInv` is ownership:
everything a process works on is its own (`Claims`), a scavenger takes only what is nobody's,
two scavengers never take the same directory (`OneReaper`), and a checkpoint has the owner of its
siblings (`BoxInv`), so no step of one process touches a directory of another. For the pool, the
flock is held from its acquisition until the sessions are open (`Locked`), and while it is held
nobody else binds a relay name (`Bound`); unlinking a name, which needs no lock, can only
leave it free. The proof is organised by this: `Spares` states what a step must leave to the
others, one lemma shows that it suffices, and each action then only owes its own process.
RestoredWhole and ForkKeepsState, which make up RestoresTrue, need what is in a snapshot directory (`SnapInv`): while the parent
snapshot is being prepared there is no `identity.json`, so a crash leaves files nobody trusts
(`Tidy`); a stamped directory holds the files of one whole dump (`Earned`), unless a discard was cut
short; who writes there holds the flock or owns the fork directory; and a fork directory is filled
once, by its fork, and never prepared anew (`Copied`), so what both sandboxes restore is the state
of the original.
The module also proves ChildHasKeeper and SnapshotIsFresh (ControllerTrue), for every bound on spawns, snapshots and file sizes, and whatever the
child and the filesystem do. ChildHasKeeper needs one more fact: between the spawn and
the handle the child belongs to a guard, or attaching might adopt a child whose holder
has left. SnapshotIsFresh needs: while the sizes are polled, a file that is not empty was
written by this attempt, because both were removed before the request.

`HostProofs` has five machines. WorkerAccounted, for every number of creates, cancels and
destroys of a session: the invariant adds `TableWorker`, that a worker in the
table belongs to the handle's own call and that call is over, so that a call which
settles overwrites nobody else's worker; and `TaskInv`, that a worker is up only after
its task ended well, that a running task has its call or a detached task waiting for
it, and that a call settles with its own worker or with none; `CallHands` and `StopHands`, that
whoever may destroy a worker shares it with nobody who could still hand it out, so no handle ever
names one that is gone. A call that is dropped keeps nothing but the exception made for it
(`Forsaken`). PassLeavesNothing, for every
number of invocations, rounds and controller faults: an invocation that may still pass has no
create out and owns at most the sandbox it has in hand (`HandOnly`); a create that was not
answered and a destroy that was not confirmed both end this for good, since `failed` and the
result are never taken back (`GateShape`). AgentKeepsSession, for every number of rounds, runs
and calls: one actor starts at a time and only without a sandbox (`StartsAlone`), the tools
it has registered reach its VM unless a stop has removed them (`FillsOwn`), and a tool left without
a sandbox is one that a stop will still come to (`StopsClear`); during a round the history is the
model's message with the answers so far, and the calls left are the rest of it (`Answering`).
SnapshotsBacked, for every number of commands, tags and artifacts: the evidence a command has in
hand and that of the record are of the command's own tag or of the tag its manifest names, and a
record that calls itself verified has the manifest's digests, of memory and device state both
(`EvidenceInv`); an acceptance insists that tag and manifest agree, so the evidence is of the
snapshot it accepts; and a temporary copy whose command is about to rename it is whole or
gone, its name being nobody else's (`CopiesWhole`). WarmAnswersOwn and
GatedAtMostOnce (RequestsTrue), for every number of tasks, requests and connections of the forkd guest client
(`FgInv`): a connection is not opened yet, in the pool once, with one task, or closed (`Owned`);
what is on it, each way, is its owner's request or that request's answer, and nothing at all in the
pool, since a connection goes back only after a whole exchange (`Shapes`); and a request that is
still to be sent or waits on a connection has not been run and waits nowhere else (`Once`). Behind
a gate nothing is run before the right token (`Guarded`).

`SessionPoolProofs` also proves PublishedTrue of the image builds, for every set of builds and
of jobs, however many overlap, fail or die. `IbInv` goes by stages: `Fits` says what a build's
image already holds at each stage (the forbidden paths are gone from `format` on, the entry point
is the runtime from `marker` on, and at `digest` the image is whole, but for the paths its payload covers),
so the rename publishes nothing less. `Books` is for the companions: while
one build at a time has published since the last rename, the digest it computed is that of the
published image, and each companion it has written so far is too.

Assumptions: at least one slot (asserted by the code) and one node (`new` refuses
none), finitely many callers, a positive `FAILURE_TRIP` and any interval, zero too, positive
cache limits and waits, at least one round of a gate, for
ZBRT disjoint request ids, a transport that holds a frame, a worker channel and a cache that hold
one entry; that every build's job is one the command line can ask for;
that the marks for "none" and the
base directory are no process, sandbox or directory; and that bounds are natural numbers.

Only model-checked:

- liveness (HealthyPoolNeverParks, ExecutorComesHome, ReturnsUnlessDetached, TerminalReaches),
  which is out of the prover's reach;
- AlgorithmsAgree: its references in Scan and Codec are recursive;
- SizeAccounted: the size is a fold over the files, and what a fold computes needs induction over data;
- the properties of an MC module that put several machines together
  (GuestTypeOK, ClientTypeOK, HostTypeOK, NoSessionWedged). For the framed guest, the ZBRT host
  session, the VMs, the forkd guest client and the cluster the parts are proved by the theorems above.

## Not modelled

PROJECT.json gives a reason for every component. In the modelled ones: weak memory
orderings in the pool; malformed payloads, which every handler answers with an
error and no change of state; the guest's accept loops and their retry budgets;
legacy `Result` frames; message contents, byte counts and texts; the asset checks of
`verification.rs`; path policies; the agent's and the workspace's plain file
operations, which read or replace one file under no shared state but the size
cache; the reader threads of the non-Unix build; argument handling, reports, web
bench, SDKs, TUI, interpreters and guest boot.

## Plan

Done: every component whose operations change shared state has a module and a run; proofs
of the pool, the cluster's accounting, the framed guest connection, both ends of a ZBRT session,
the framed client, supervised commands, the sandboxes, their snapshots and Firecracker, gates,
bindings, the forkd guest client and the SDK client, workers, the agent's session and the image builds.

1. An abstract sandbox above VmLifecycle and the clients: what a caller may rely on.
2. The accept loops with their retry budgets, and opening a ZBRT session against
   a VM that is still booting.
