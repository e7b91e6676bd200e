----------------------------- MODULE Firecracker -----------------------------
(****************************************************************************)
(* The controller of one Firecracker child: spawn on a PDEATHSIG holder     *)
(* thread, readiness, configuration over the API socket, snapshots, kill    *)
(* and drop (rfb-runtime/src/firecracker_core/firecracker).                 *)
(*                                                                          *)
(* The child is external: it may bind its socket, refuse a call or die at   *)
(* any time, and writes snapshot files while the controller polls them.     *)
(* Sockets and file contents are named by the spawn or the snapshot attempt *)
(* that made them.                                                          *)
(****************************************************************************)
EXTENDS Integers, Sequences

CONSTANTS
  MaxSpawns,  \* children ever started
  MaxShots,   \* snapshots ever attempted
  Full        \* the size of a completely written file

VARIABLES
  build,   \* which Firecracker is installed
  at,      \* where the controller is
  kind,    \* what it was asked for
  left,    \* API calls still to make
  child,   \* the child process
  holder,  \* the thread that forked it: none, parked or exited
  keeper,  \* who must kill and reap the child
  spawns,  \* children started so far: names the present one
  name,    \* the spawn whose socket has the API path; 0 if none
  ident,   \* FirecrackerVm.socket_identity
  shots,   \* snapshots attempted so far
  outs,    \* the two output files: attempt that wrote it and size
  seen,    \* sizes at the previous poll, stable polls
  result   \* what snapshot() returned: 0, or the attempts of its two files

fcvars == <<build, at, kind, left, child, holder, keeper, spawns, name, ident, shots, outs,
            seen, result>>

Kinds == {"boot", "runtime", "restore", "bare"}
Alive == {"started", "listening", "running", "paused"}
NoOut == [shot |-> 0, size |-> 0]
NoSizes == <<0, 0>>

\* The API calls of boot_internal, restore_with_config and restore_bare.
Calls(k) ==
  CASE k = "boot" -> <<"machine-config", "boot-source", "drives", "actions">>
    [] k = "runtime" -> <<"machine-config", "boot-source", "drives", "vsock", "actions">>
    [] k = "restore" -> <<"machine-config", "drives", "vsock", "load">>
    [] k = "bare" -> <<"load">>

FcTypeOK ==
  /\ build \in {"upstream", "patched"}
  /\ at \in {"idle", "spawn", "ready", "attach", "config", "post", "up", "pause", "create", "poll"}
  /\ kind \in Kinds
  /\ left \in UNION {{SubSeq(Calls(k), i, Len(Calls(k))) : i \in 1..6} : k \in Kinds}
  /\ child \in Alive \cup {"none", "dead", "reaped"}
  /\ holder \in {"none", "parked", "exited"}
  /\ keeper \in {"none", "guard", "vm"}
  /\ spawns \in 0..MaxSpawns /\ name \in 0..MaxSpawns /\ ident \in 0..MaxSpawns
  /\ shots \in 0..MaxShots
  /\ outs \in [{"vmstate", "mem"} -> [shot : 0..MaxShots, size : 0..Full]]
  /\ seen \in [sizes : (0..Full) \X (0..Full), stable : 0..2]
  /\ result \in (0..MaxShots) \X (0..MaxShots)

FcInit ==
  /\ build \in {"upstream", "patched"}
  /\ at = "idle" /\ kind = "boot" /\ left = <<>>
  /\ child = "none" /\ holder = "none" /\ keeper = "none"
  /\ spawns = 0 /\ name = 0 /\ ident = 0 /\ shots = 0
  /\ outs = [f \in {"vmstate", "mem"} |-> NoOut]
  /\ seen = [sizes |-> NoSizes, stable |-> 0]
  /\ result = NoSizes

snapvars == <<shots, outs, seen, result>>

-----------------------------------------------------------------------------
(* Construction *)

\* boot_internal removes a stale socket at the API path and, for the controller
\* entry points, old snapshot files; the restores start from a new work directory.
Start(k) ==
  /\ at = "idle" /\ spawns < MaxSpawns /\ k # "bare"
  /\ keeper = "none" /\ child \notin Alive
  /\ kind' = k
  /\ name' = IF k = "restore" THEN name ELSE 0
  /\ outs' = IF k = "boot" THEN [f \in DOMAIN outs |-> NoOut] ELSE outs
  /\ at' = "spawn"
  /\ UNCHANGED <<build, left, child, holder, keeper, spawns, ident, shots, seen, result>>

\* spawn_api: the holder thread forks the child and hands it over in a
\* ChildGuard, or reports that it could not and exits.
Spawn ==
  /\ at = "spawn"
  /\ \/ /\ spawns' = spawns + 1
        /\ child' = "started" /\ holder' = "parked" /\ keeper' = "guard"
        /\ at' = "ready"
     \/ /\ at' = "idle" /\ UNCHANGED <<spawns, child, holder, keeper>>
  /\ UNCHANGED <<build, kind, left, name, ident, snapvars>>

\* Mutant of Dismiss: the guard forgets the child.
DismissForgets ==
  /\ keeper' = "none" /\ ident' = 0 /\ at' = "idle" /\ left' = <<>>
  /\ UNCHANGED <<child, holder>>

\* ChildGuard::drop and FirecrackerVm::drop: kill and reap the child, unlink the
\* socket if it is still the VM's own, then let the holder go.
Dismiss ==
  /\ child' = "reaped"
  /\ holder' = "exited"
  /\ keeper' = "none" /\ ident' = 0 /\ at' = "idle" /\ left' = <<>>

Unlinked == IF keeper = "vm" /\ name = ident THEN 0 ELSE name

\* The socket deadline passes or the child is found dead: the guard drops.
NotReady ==
  /\ at = "ready"
  /\ Dismiss /\ UNCHANGED name
  /\ UNCHANGED <<build, kind, spawns, snapvars>>

\* A connection to the API path succeeds.
Ready ==
  /\ at = "ready" /\ name = spawns /\ child = "listening"
  /\ at' = "attach"
  /\ UNCHANGED <<build, kind, left, child, holder, keeper, spawns, name, ident, snapvars>>

\* attach_api_child takes the identity of the socket; without one the bare Child
\* is dropped unreaped and the holder's channel with it, so PDEATHSIG takes it.
Attach ==
  /\ at = "attach"
  /\ IF name # 0
       THEN /\ keeper' = "vm" /\ ident' = name
            /\ at' = "config" /\ left' = Calls(kind)
            /\ UNCHANGED holder
       ELSE /\ keeper' = "none" /\ holder' = "exited" /\ at' = "idle" /\ UNCHANGED <<left, ident>>
  /\ UNCHANGED <<build, kind, child, spawns, name, snapvars>>

\* api_request: the socket must be the one captured, and the child must answer.
Answers == name = ident /\ child \in Alive

\* A request fails: the VM under construction, or the handle, is dropped.
CallFails ==
  /\ at \in {"config", "post"}
  /\ name' = Unlinked
  /\ Dismiss
  /\ UNCHANGED <<build, kind, spawns, snapvars>>

\* A configuration call is accepted.  Upstream refuses PUT /actions, and POST is
\* tried; the patched build refuses a load after devices were configured.
Call ==
  /\ at = "config" /\ Answers /\ left # <<>>
  /\ LET c == Head(left)
         refused == c = "load" /\ kind = "restore" /\ build = "patched"
     IN /\ ~refused
        /\ IF c = "actions" /\ build = "upstream"
             THEN at' = "post" /\ UNCHANGED <<left, child>>
             ELSE /\ left' = Tail(left)
                  /\ at' = IF Tail(left) = <<>> THEN "up" ELSE "config"
                  /\ child' = IF c \in {"actions", "load"} THEN "running" ELSE child
  /\ UNCHANGED <<build, kind, holder, keeper, spawns, name, ident, snapvars>>

\* api_start falls back to POST /actions.
Post ==
  /\ at = "post" /\ Answers
  /\ left' = Tail(left) /\ at' = "up" /\ child' = "running"
  /\ UNCHANGED <<build, kind, holder, keeper, spawns, name, ident, snapvars>>

\* restore_from_snapshot: on "boot-specific resources" the configured child is
\* dropped and a second one does a bare load.
FallBack ==
  /\ at = "config" /\ Answers /\ spawns < MaxSpawns
  /\ kind = "restore" /\ build = "patched" /\ left = <<"load">>
  /\ child' = "reaped" /\ holder' = "exited" /\ keeper' = "none"
  /\ name' = Unlinked /\ ident' = 0 /\ left' = <<>>
  /\ kind' = "bare" /\ at' = "spawn"
  /\ UNCHANGED <<build, spawns, snapvars>>

-----------------------------------------------------------------------------
(* snapshot_create with wait_stable: the controller's snapshot() *)

\* PATCH /vm pauses the VM.
Pause ==
  /\ at = "up" /\ kind = "boot" /\ Answers /\ shots < MaxShots
  /\ child' = "paused"
  /\ shots' = shots + 1
  /\ result' = NoSizes
  /\ at' = "create"
  /\ UNCHANGED <<build, kind, left, holder, keeper, spawns, name, ident, outs, seen>>

\* Mutant of CreateSnapshot: outputs of an earlier attempt stay.
CreateOverOld ==
  /\ at = "create" /\ Answers
  /\ at' = "poll" /\ seen' = [sizes |-> NoSizes, stable |-> 0]
  /\ UNCHANGED <<build, kind, left, child, holder, keeper, spawns, name, ident, shots, outs,
                 result>>

\* Old outputs are removed, then PUT /snapshot/create is accepted.
CreateSnapshot ==
  /\ at = "create" /\ Answers
  /\ outs' = [f \in DOMAIN outs |-> NoOut]
  /\ at' = "poll" /\ seen' = [sizes |-> NoSizes, stable |-> 0]
  /\ UNCHANGED <<build, kind, left, child, holder, keeper, spawns, name, ident, shots, result>>

\* A request of snapshot() fails: the handle stays with its owner.
SnapshotFails ==
  /\ at = "create"
  /\ outs' \in {outs, [f \in DOMAIN outs |-> NoOut]}
  /\ at' = "up"
  /\ UNCHANGED <<build, kind, left, child, holder, keeper, spawns, name, ident, shots, seen,
                 result>>

Sizes == LET s == <<outs["vmstate"].size, outs["mem"].size>>
         IN IF s[1] > 0 /\ s[2] > 0 THEN s ELSE NoSizes

\* Mutant of Poll: one unchanged poll too many is waited for.
PollOnceMore ==
  /\ at = "poll"
  /\ LET n == IF Sizes # NoSizes /\ Sizes = seen.sizes THEN seen.stable + 1 ELSE 0
     IN /\ seen' = [sizes |-> Sizes, stable |-> n]
        /\ IF n > 2
             THEN at' = "up" /\ result' = <<outs["vmstate"].shot, outs["mem"].shot>>
             ELSE UNCHANGED <<at, result>>
  /\ UNCHANGED <<build, kind, left, child, holder, keeper, spawns, name, ident, shots, outs>>

\* One poll: two unchanged, non-empty polls in a row end the wait.
Poll ==
  /\ at = "poll"
  /\ LET n == IF Sizes # NoSizes /\ Sizes = seen.sizes THEN seen.stable + 1 ELSE 0
     IN /\ seen' = [sizes |-> Sizes, stable |-> n]
        /\ IF n = 2
             THEN at' = "up" /\ result' = <<outs["vmstate"].shot, outs["mem"].shot>>
             ELSE UNCHANGED <<at, result>>
  /\ UNCHANGED <<build, kind, left, child, holder, keeper, spawns, name, ident, shots, outs>>

\* The deadline passes first: the outputs are removed.
PollTimesOut ==
  /\ at = "poll"
  /\ outs' = [f \in DOMAIN outs |-> NoOut]
  /\ at' = "up"
  /\ UNCHANGED <<build, kind, left, child, holder, keeper, spawns, name, ident, shots, seen,
                 result>>

-----------------------------------------------------------------------------
(* Teardown and the environment *)

\* kill(): the child is killed and reaped, the handle stays.
Kill ==
  /\ at = "up" /\ child # "reaped"
  /\ child' = "reaped"
  /\ UNCHANGED <<build, at, kind, left, holder, keeper, spawns, name, ident, snapvars>>

\* The handle is dropped.
Drop ==
  /\ at = "up"
  /\ name' = Unlinked
  /\ Dismiss
  /\ UNCHANGED <<build, kind, spawns, snapvars>>

\* The child binds its API socket; it exits if the path is taken.
Listen ==
  /\ child = "started"
  /\ IF name = 0 THEN name' = spawns /\ child' = "listening"
                 ELSE child' = "dead" /\ UNCHANGED name
  /\ UNCHANGED <<build, at, kind, left, holder, keeper, spawns, ident, snapvars>>

\* The child exits by itself, leaving the name of its socket.
ChildDies ==
  /\ child \in Alive
  /\ child' = "dead"
  /\ UNCHANGED <<build, at, kind, left, holder, keeper, spawns, name, ident, snapvars>>

\* Somebody removes the API socket's name, with the work directory or alone.
NameGone ==
  /\ name # 0
  /\ name' = 0
  /\ UNCHANGED <<build, at, kind, left, child, holder, keeper, spawns, ident, snapvars>>

\* The child writes a snapshot file a bit further.
ChildWrites(f) ==
  /\ at = "poll" /\ child = "paused"
  /\ outs[f].shot # shots \/ outs[f].size < Full
  /\ outs' = [outs EXCEPT ![f] = [shot |-> shots,
                                  size |-> IF @.shot = shots THEN @.size + 1 ELSE 1]]
  /\ UNCHANGED <<build, at, kind, left, child, holder, keeper, spawns, name, ident, shots, seen,
                 result>>

\* PDEATHSIG: the thread that forked the child is gone.
ParentThreadGone ==
  /\ holder = "exited" /\ child \in Alive
  /\ child' = "dead"
  /\ UNCHANGED <<build, at, kind, left, holder, keeper, spawns, name, ident, snapvars>>

FcNext ==
  \/ \E k \in Kinds : Start(k)
  \/ Spawn \/ NotReady \/ Ready \/ Attach \/ Call \/ Post \/ CallFails \/ FallBack
  \/ Pause \/ CreateSnapshot \/ SnapshotFails \/ Poll \/ PollTimesOut
  \/ Kill \/ Drop \/ Listen \/ ChildDies \/ NameGone \/ ParentThreadGone
  \/ \E f \in DOMAIN outs : ChildWrites(f)

FcSpec == FcInit /\ [][FcNext]_fcvars

-----------------------------------------------------------------------------
(* Properties *)

\* No Firecracker outlives its owner on any path: a live child belongs to a guard
\* or a VM handle, or the thread that PDEATHSIG watches has exited; and while it
\* has an owner that thread is parked, so no healthy VM is killed by it.
ChildHasKeeper ==
  child \in Alive => (IF keeper = "none" THEN holder = "exited" ELSE holder = "parked")

\* snapshot() never reports the outputs of an earlier attempt as its own.
SnapshotIsFresh == result # NoSizes => result = <<shots, shots>>

\* A controller answers for its child, and its snapshot for its files (spawn_api,
\* snapshot_create).
ControllerTrue == ChildHasKeeper /\ SnapshotIsFresh

=============================================================================
