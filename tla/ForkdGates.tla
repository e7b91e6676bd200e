----------------------------- MODULE ForkdGates -----------------------------
(******************************************************************************)
(* Sandboxes of one forkd controller: the controller's HTTP client            *)
(* (rfb/src/forkd/controller.rs, provider.rs) and the commands that run on it *)
(* (rfb/src/cli/forkd): the acceptance, workload and benchmark gates, the     *)
(* provider's create and delete, and backend-up, which starts the controller. *)
(* The controller is external: it may be off, may answer, or may be too slow  *)
(* for a client that waits; a request may be carried out after, or without,   *)
(* its answer.                                                                *)
(******************************************************************************)
EXTENDS Naturals, FiniteSets

CONSTANTS
  Run,       \* invocations of the commands
  Rounds,    \* sandboxes of a workload, iterations of a benchmark
  MaxMade,   \* sandboxes the controller ever makes
  MaxFaults  \* times the controller stops or stalls

ASSUME GatesAssumption == Rounds \in Nat \ {0} /\ MaxMade \in Nat /\ MaxFaults \in Nat

VARIABLES
  ctl,    \* the controller: "off", "slow" or "up"
  ctlBy,  \* who started it: an invocation, or "other"
  live,   \* the sandboxes it knows, [id, owner]
  vm,     \* the ids whose virtual machine runs
  late,   \* invocations with a create that is still to be carried out
  snap,   \* the snapshot: "absent", "building", "ready", "failed"
  made, faults,
  inv     \* invocation -> its state

fgavars == <<ctl, ctlBy, live, vm, late, snap, made, faults, inv>>
machine == <<ctl, ctlBy, snap, faults>>

Gates == {"acceptance", "workload", "benchmark"}
Held == 1..MaxMade
Fresh(k) == [kind |-> k, pc |-> "start", sid |-> 0, left |-> Rounds, created |-> {},
             todo |-> {}, quiet |-> FALSE, failed |-> FALSE, spawned |-> FALSE, res |-> "none"]
Kind == [r \in Run |-> inv[r].kind]

FgaTypeOK ==
  /\ ctl \in {"off", "slow", "up"} /\ ctlBy \in Run \cup {"other"}
  /\ live \subseteq [id : Held, owner : Run] /\ vm \subseteq Held /\ late \subseteq Run
  /\ snap \in {"absent", "building", "ready", "failed"}
  /\ made \in 0..MaxMade /\ faults \in 0..MaxFaults
  /\ \A r \in Run : /\ inv[r].sid \in 0..MaxMade /\ inv[r].created \subseteq Held
                    /\ inv[r].left \in 0..Rounds

FgaInit ==
  /\ ctl \in {"off", "up"} /\ ctlBy = "other"
  /\ live = {} /\ vm = {} /\ late = {}
  /\ snap \in {"absent", "ready"} /\ made = 0 /\ faults = 0
  /\ inv \in [Run -> {Fresh(k) : k \in Gates \cup {"provider", "backend_up"}}]

\* A request sent now can be answered in time, whole and decodable.
Answers == ctl = "up"
\* snapshot_ready_in: the snapshot is listed as ready and bootable.
SnapshotReady == Answers /\ snap = "ready"
Listed == {s.id : s \in live}
OwnedBy(r) == {s \in live : s.owner = r}
Go(r, f) == inv' = [inv EXCEPT ![r] = f]
At(r, pc) == inv[r].pc = pc
To(r, pc) == [inv[r] EXCEPT !.pc = pc]
Done(r, res) == [inv[r] EXCEPT !.pc = "done", !.res = res]

-----------------------------------------------------------------------------
(* The controller *)

\* create_sandbox carried out.  All sandboxes share one TAP device: with one
\* alive, the controller refuses the next (503).
Makes(r) ==
  /\ live = {} /\ made < MaxMade
  /\ made' = made + 1
  /\ live' = {[id |-> made + 1, owner |-> r]}
  /\ vm' = vm \cup {made + 1}

\* A create whose client has given up is carried out, or refused, later.
LateCreate(r) ==
  /\ ctl # "off" /\ r \in late
  /\ late' = late \ {r}
  /\ \/ Makes(r)
     \/ live # {} /\ UNCHANGED <<made, live, vm>>
  /\ UNCHANGED <<machine, inv>>

\* The controller stops, stalls or recovers; a snapshot being built ends.
ControllerFault ==
  /\ faults < MaxFaults /\ ctl = "up"
  /\ ctl' \in {"off", "slow"} /\ faults' = faults + 1
  /\ UNCHANGED <<ctlBy, live, vm, late, snap, made, inv>>

ControllerRecovers ==
  /\ ctl = "slow" /\ ctl' = "up"
  /\ UNCHANGED <<ctlBy, live, vm, late, snap, made, faults, inv>>

SnapshotBuilt ==
  /\ ctl # "off" /\ snap = "building" /\ snap' \in {"ready", "failed"}
  /\ UNCHANGED <<ctl, ctlBy, live, vm, late, made, faults, inv>>

-----------------------------------------------------------------------------
(* Creating a sandbox *)

\* How a create ends for its client: answered, carried out with the answer lost
\* or unusable, given up with the request still to be carried out, or refused.
CreateRequest(r, answered, failed) ==
  \/ Answers /\ Makes(r) /\ Go(r, answered) /\ UNCHANGED late
  \/ ctl # "off" /\ Makes(r) /\ Go(r, failed) /\ UNCHANGED late
  \/ ctl # "off" /\ late' = late \cup {r} /\ Go(r, failed) /\ UNCHANGED <<live, vm, made>>
  \/ Go(r, failed) /\ UNCHANGED <<live, vm, made, late>>

\* acceptance: the snapshot must be listed as ready.  Without it, an acceptance
\* that does not require a VM is skipped.
AcceptancePreflight(r) ==
  /\ At(r, "start") /\ Kind[r] = "acceptance"
  /\ \/ SnapshotReady /\ Go(r, To(r, "create"))
     \/ Answers /\ snap # "ready" /\ Go(r, Done(r, "skipped"))
     \/ Go(r, Done(r, "fail"))
  /\ UNCHANGED <<machine, live, vm, late, made>>

\* The workload's preflight also wants the host's tools, the benchmark's does not;
\* either ends the gate.
Preflight(r) ==
  /\ At(r, "start") /\ Kind[r] \in {"workload", "benchmark"}
  /\ \/ SnapshotReady /\ Go(r, To(r, "create"))
     \/ Go(r, Done(r, "fail"))
  /\ UNCHANGED <<machine, live, vm, late, made>>

\* The end of an iteration of a workload or a benchmark: the next one, the orphan
\* check, or the benchmark's verdict, which needs every sample of every iteration.
NextRound(r, failed) ==
  LET f == [inv[r] EXCEPT !.sid = 0, !.failed = failed, !.left = @ - 1,
                            !.todo = {}, !.quiet = FALSE]
  IN IF inv[r].left > 1 THEN [f EXCEPT !.pc = "create"]
     ELSE IF Kind[r] = "workload" THEN [f EXCEPT !.pc = "orphans"]
     ELSE [f EXCEPT !.pc = "done", !.res = IF failed THEN "fail" ELSE "pass"]

\* A gate without a sandbox: an error, a workload's sweep, a benchmark's next round.
CreateFailed(r) ==
  CASE Kind[r] = "acceptance" -> Done(r, "fail")
    [] Kind[r] = "workload" -> [inv[r] EXCEPT !.pc = "sweep", !.failed = TRUE]
    [] Kind[r] = "benchmark" -> NextRound(r, TRUE)

GateCreate(r) ==
  /\ At(r, "create") /\ Kind[r] \in Gates
  /\ CreateRequest(r, [To(r, "ready") EXCEPT !.sid = made + 1], CreateFailed(r))
  /\ UNCHANGED machine

\* wait_for_guest_ready: the guest answers a ping or the deadline passes, and then
\* the sandbox is destroyed and that destroy's result ignored.  A workload lists a
\* sandbox among its own only once it is ready.
GuestReady(r) ==
  /\ At(r, "ready")
  /\ \/ /\ inv[r].sid \in vm
        /\ Go(r, [To(r, "gate") EXCEPT !.created = @ \cup {inv[r].sid}])
     \/ Go(r, [To(r, "destroy") EXCEPT !.quiet = TRUE, !.failed = TRUE])
  /\ UNCHANGED <<machine, live, vm, late, made>>

\* The guest calls of an acceptance: a failing one skips the rest, and the sandbox
\* is destroyed either way.
AcceptanceGate(r) ==
  /\ At(r, "gate") /\ Kind[r] = "acceptance"
  /\ \/ inv[r].sid \in vm /\ Go(r, To(r, "destroy"))
     \/ Go(r, [To(r, "destroy") EXCEPT !.failed = TRUE])
  /\ UNCHANGED <<machine, live, vm, late, made>>

\* A workload's failing call leaves the iteration without a destroy: the sweep follows.
WorkloadGate(r) ==
  /\ At(r, "gate") /\ Kind[r] = "workload"
  /\ \/ inv[r].sid \in vm /\ Go(r, To(r, "destroy"))
     \/ Go(r, [To(r, "sweep") EXCEPT !.failed = TRUE])
  /\ UNCHANGED <<machine, live, vm, late, made>>

\* A benchmark counts a failing call and goes on to the cleanup.
BenchmarkGate(r) ==
  /\ At(r, "gate") /\ Kind[r] = "benchmark"
  /\ \E ok \in {FALSE} \cup {inv[r].sid \in vm} :
       Go(r, [To(r, "destroy") EXCEPT !.failed = @ \/ ~ok])
  /\ UNCHANGED <<machine, live, vm, late, made>>

-----------------------------------------------------------------------------
(* Destroying a sandbox *)

\* What follows destroy_sandbox, by gate and by where it was called.
AfterDestroy(r, ok) ==
  LET failed == inv[r].failed \/ ~ok
  IN IF inv[r].todo # {} THEN [inv[r] EXCEPT !.pc = "sweeping", !.todo = @ \ {inv[r].sid}]
     ELSE CASE Kind[r] = "acceptance" -> Done(r, IF failed THEN "fail" ELSE "pass")
            [] Kind[r] = "provider" -> Done(r, IF ok THEN "pass" ELSE "fail")
            [] Kind[r] = "benchmark" -> NextRound(r, failed)
            [] Kind[r] = "workload" -> IF inv[r].quiet \/ ~ok
                                         THEN [inv[r] EXCEPT !.pc = "sweep", !.failed = TRUE]
                                         ELSE NextRound(r, failed)

\* delete_sandbox: success and 404 are both success.  Any other answer, or none,
\* is confirmed against the list; the provider's own delete is not.
Delete(r) ==
  /\ At(r, "destroy")
  /\ LET unsure == IF Kind[r] = "provider" THEN AfterDestroy(r, FALSE) ELSE To(r, "confirm")
         gone == live' = {s \in live : s.id # inv[r].sid} /\ vm' = vm \ {inv[r].sid}
     IN \/ Answers /\ gone /\ Go(r, AfterDestroy(r, TRUE))
        \/ ctl # "off" /\ gone /\ Go(r, unsure)
        \/ Go(r, unsure) /\ UNCHANGED <<live, vm>>
  /\ UNCHANGED <<machine, late, made>>

\* Mutant of Confirmed: an unavailable list counts as an empty one.
ConfirmedBlindly(r, answered) == answered => inv[r].sid \notin Listed

\* destroy_sandbox's reconciliation: gone only if the list was read and lacks it.
Confirmed(r, answered) == answered /\ inv[r].sid \notin Listed

Confirm(r) ==
  /\ At(r, "confirm")
  /\ \E answered \in {FALSE} \cup {Answers} : Go(r, AfterDestroy(r, Confirmed(r, answered)))
  /\ UNCHANGED <<machine, live, vm, late, made>>

\* After a failed iteration a workload lists the sandboxes and destroys its own.
Sweep(r) ==
  /\ At(r, "sweep")
  /\ \E mine \in {{}} \cup (IF Answers THEN {Listed \cap inv[r].created} ELSE {}) :
       Go(r, IF mine = {} THEN NextRound(r, TRUE) ELSE [To(r, "sweeping") EXCEPT !.todo = mine])
  /\ UNCHANGED <<machine, live, vm, late, made>>

SweepNext(r) ==
  /\ At(r, "sweeping")
  /\ IF inv[r].todo = {} THEN Go(r, NextRound(r, TRUE))
     ELSE \E s \in inv[r].todo : Go(r, [To(r, "destroy") EXCEPT !.sid = s])
  /\ UNCHANGED <<machine, live, vm, late, made>>

\* The workload's last look: no list is a failure.
OrphanCheck(r) ==
  /\ At(r, "orphans")
  /\ \/ Go(r, Done(r, "fail"))
     \/ /\ Answers
        /\ Go(r, Done(r, IF inv[r].failed \/ Listed \cap inv[r].created # {} THEN "fail"
                       ELSE "pass"))
  /\ UNCHANGED <<machine, live, vm, late, made>>

-----------------------------------------------------------------------------
(* The provider *)

\* ForkdClient::create: the answered sandbox's id and address must be valid; an
\* invalid one, like every other failure, is an error without a delete.
ProviderCreate(r) ==
  /\ At(r, "start") /\ Kind[r] = "provider"
  /\ CreateRequest(r, [To(r, "held") EXCEPT !.sid = made + 1], Done(r, "fail"))
  /\ UNCHANGED machine

ProviderDelete(r) ==
  /\ At(r, "held") /\ Go(r, To(r, "destroy"))
  /\ UNCHANGED <<machine, live, vm, late, made>>

-----------------------------------------------------------------------------
(* backend-up *)

\* Arguments, rootfs, kernel, root, controller binary and TAP device first: any of
\* them ends the command.
Prepare(r) ==
  /\ At(r, "start") /\ Kind[r] = "backend_up"
  /\ \/ Go(r, To(r, "probe")) \/ Go(r, Done(r, "fail"))
  /\ UNCHANGED <<machine, live, vm, late, made>>

\* controller_reachable: one probe, and one more with a longer timeout.
Probe(r) ==
  /\ inv[r].pc \in {"probe", "probe2"}
  /\ \/ Answers /\ Go(r, To(r, "wait"))
     \/ ~Answers /\ Go(r, To(r, IF At(r, "probe") THEN "probe2" ELSE "kill"))
  /\ UNCHANGED <<machine, live, vm, late, made>>

\* kill_leftover_firecrackers: every machine of this state directory.
KillLeftovers(r) ==
  /\ At(r, "kill") /\ vm' = {} /\ Go(r, To(r, "spawn"))
  /\ UNCHANGED <<machine, live, late, made>>

\* spawn_controller: the child is not waited for.  If the port is taken it dies at
\* once and nobody notices.
SpawnController(r) ==
  /\ At(r, "spawn")
  /\ \/ /\ IF ctl = "off" THEN ctl' = "slow" /\ ctlBy' = r ELSE UNCHANGED <<ctl, ctlBy>>
        /\ Go(r, [To(r, "wait") EXCEPT !.spawned = TRUE])
     \/ Go(r, Done(r, "fail")) /\ UNCHANGED <<ctl, ctlBy>>
  /\ UNCHANGED <<live, vm, late, snap, made, faults>>

\* wait_controller, then the sweep of a controller this invocation started: of what
\* it lists, or of nothing if the list fails.
WaitController(r) ==
  /\ At(r, "wait")
  /\ \/ /\ Answers
        /\ IF inv[r].spawned
             THEN \E todo \in {{}, Listed} : Go(r, [To(r, "clearing") EXCEPT !.todo = todo])
             ELSE Go(r, To(r, "snapshot"))
     \/ ~Answers /\ Go(r, Done(r, "fail"))
  /\ UNCHANGED <<machine, live, vm, late, made>>

\* clear_stale_sandboxes: deletes one by one, results ignored.
ClearStale(r) ==
  /\ At(r, "clearing")
  /\ IF inv[r].todo = {} THEN Go(r, To(r, "snapshot")) /\ UNCHANGED <<live, vm>>
     ELSE \E s \in inv[r].todo :
            /\ Go(r, [inv[r] EXCEPT !.todo = @ \ {s}])
            /\ \/ ctl # "off" /\ live' = {x \in live : x.id # s} /\ vm' = vm \ {s}
               \/ UNCHANGED <<live, vm>>
  /\ UNCHANGED <<machine, late, made>>

\* The snapshot is created through the forkd binary unless it is seen to be ready.
EnsureSnapshot(r) ==
  /\ At(r, "snapshot")
  /\ \/ SnapshotReady /\ Go(r, To(r, "provenance")) /\ UNCHANGED snap
     \/ ctl # "off" /\ snap' = "building" /\ Go(r, To(r, "building"))
     \/ Go(r, Done(r, "fail")) /\ UNCHANGED snap
  /\ UNCHANGED <<ctl, ctlBy, live, vm, late, made, faults>>

\* wait_snapshot: a failed build is waited for like one that goes on.
WaitSnapshot(r) ==
  /\ At(r, "building")
  /\ \/ SnapshotReady /\ Go(r, To(r, "provenance"))
     \/ Go(r, Done(r, "fail"))
  /\ UNCHANGED <<machine, live, vm, late, made>>

\* --require-provenance is asked again once the snapshot is ready.
RequireProvenance(r) ==
  /\ At(r, "provenance")
  /\ \/ Go(r, Done(r, "pass")) \/ Go(r, Done(r, "fail"))
  /\ UNCHANGED <<machine, live, vm, late, made>>

FgaNext ==
  \/ ControllerFault \/ ControllerRecovers \/ SnapshotBuilt
  \/ \E r \in Run :
       \/ LateCreate(r) \/ AcceptancePreflight(r) \/ Preflight(r) \/ GateCreate(r) \/ GuestReady(r)
       \/ AcceptanceGate(r) \/ WorkloadGate(r) \/ BenchmarkGate(r)
       \/ Delete(r) \/ Confirm(r) \/ Sweep(r) \/ SweepNext(r) \/ OrphanCheck(r)
       \/ ProviderCreate(r) \/ ProviderDelete(r)
       \/ Prepare(r) \/ Probe(r) \/ KillLeftovers(r) \/ SpawnController(r)
       \/ WaitController(r) \/ ClearStale(r) \/ EnsureSnapshot(r) \/ WaitSnapshot(r)
       \/ RequireProvenance(r)

FgaSpec == FgaInit /\ [][FgaNext]_fgavars

-----------------------------------------------------------------------------
(* A gate that reports PASS, and a provider whose delete succeeded, has no    *)
(* sandbox left at the controller and none still to be made, whatever answers *)
(* were lost on the way (cli/forkd/sandbox.rs destroy_sandbox, workload.rs,   *)
(* acceptance.rs, benchmark.rs).                                              *)
PassLeavesNothing ==
  \A r \in Run : inv[r].res = "pass" => OwnedBy(r) = {} /\ r \notin late

(* backend-up sweeps the sandboxes only of a controller it started itself  *)
(* (cli/forkd/backend_up.rs:151, clear_stale_sandboxes_if_spawned).        *)
SweepsOwnController ==
  \A r \in Run : At(r, "clearing") /\ inv[r].todo \cap Listed # {} => ctlBy = r
=============================================================================
