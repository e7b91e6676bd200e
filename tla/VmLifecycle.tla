----------------------------- MODULE VmLifecycle -----------------------------
(****************************************************************************)
(* The life of ZeroBoot sandboxes on one host: hot and cold creates, forks  *)
(* and drops by several processes that share the snapshot directory and the *)
(* temporary directory (rfb/src/zeroboot/provider.rs).                      *)
(*                                                                          *)
(* A box is one sandbox: its work directory, its Firecracker VM and its     *)
(* pool of sessions.  `Base` is the snapshot directory of the shard; a fork *)
(* directory holds the checkpoint of one fork.  Every restored VM binds the *)
(* relay name baked into the snapshot it is loaded from, so sandboxes hand  *)
(* one name to each other.  Asset contents are version numbers, which are   *)
(* also what `snapshot_identity` hashes them to.                            *)
(****************************************************************************)
EXTENDS Integers, FiniteSets

CONSTANTS
  Host,      \* processes that use the provider
  Box,       \* sandboxes
  Fork,      \* fork directories
  MaxBuild,  \* asset versions
  MaxFaults  \* how often a process is killed or the assets are replaced

VARIABLES
  assets,    \* the content of kernel, rootfs and firecracker now
  files,     \* dir -> its parent/vmstate, parent/memory.bin, identity.json
  relay,     \* dir -> the box whose socket has the relay name baked there
  lock,      \* the process that holds the flock on Base/parent.lock
  place,     \* work and fork directories: missing, made, lock file inside
  owner,     \* the process that uses the directory
  vm,        \* box -> what its VM runs
  sess,      \* box -> the guests that the sessions of its pool reach
  ckpt,      \* box -> the ForkCheckpoint it shares
  pc,        \* where each process is
  dir,       \* the directory it restores from
  box,       \* the box it builds or drops
  orig,      \* the box it forks
  kids,      \* the boxes its fork has restored so far
  staged,    \* the rootfs version the parent VM booted
  swept,     \* processes whose scavenger has run
  crashes,   \* processes killed so far
  rebuilds,  \* times the assets were replaced so far
  torn       \* a removal of parent/ stopped half way

vars == <<assets, files, relay, lock, place, owner, vm, sess, ckpt, pc, dir, box,
          orig, kids, staged, swept, crashes, rebuilds, torn>>

local == <<dir, box, orig, kids, staged, swept>>
world == <<assets, crashes, rebuilds, torn>>

Base == "base"
None == "none"
Dir == {Base} \cup Fork
Work == Box \cup Fork                      \* what the scavenger may remove
Builds == 1..MaxBuild

ASSUME VmAssumption ==
  /\ MaxBuild \in Nat \ {0} /\ MaxFaults \in Nat
  /\ Box \cap Fork = {}
  /\ None \notin Host \cup Box \cup Fork /\ Base \notin Box \cup Fork

Content == [rootfs : 0..MaxBuild, state : {"boot"} \cup Fork,
            relay : Dir \cup {None}, whole : BOOLEAN]
NoFile == [rootfs |-> 0, state |-> "boot", relay |-> None, whole |-> FALSE]
Empty == [vmstate |-> NoFile, mem |-> NoFile, ident |-> 0]
Half(c) == [c EXCEPT !.whole = FALSE]

Labels == {"idle", "scan", "reap", "lock", "ensure", "discard", "boot", "dump",
           "dumped", "stamp", "retire", "work", "worklock", "restore", "open", "extra",
           "forklock", "kill", "unlink"}

VmTypeOK ==
  /\ assets \in Builds
  /\ files \in [Dir -> [vmstate : Content, mem : Content, ident : 0..MaxBuild]]
  /\ relay \in [Dir -> Box \cup {None}]
  /\ lock \in Host \cup {None}
  /\ place \in [Work -> {"none", "bare", "locked"}]
  /\ owner \in [Work -> Host \cup {None}]
  /\ vm \in [Box -> Content]
  /\ sess \in [Box -> SUBSET Box]
  /\ ckpt \in [Box -> Fork \cup {None}]
  /\ pc \in [Host -> Labels]
  /\ dir \in [Host -> Dir \cup {None}]
  /\ box \in [Host -> Work \cup {None}]
  /\ orig \in [Host -> Box \cup {None}]
  /\ kids \in [Host -> SUBSET Box]
  /\ staged \in [Host -> 0..MaxBuild]
  /\ swept \subseteq Host
  /\ crashes \in 0..MaxFaults
  /\ rebuilds \in 0..MaxFaults
  /\ torn \in BOOLEAN

VmInit ==
  /\ assets = 1
  /\ files = [d \in Dir |-> Empty]
  /\ relay = [d \in Dir |-> None]
  /\ lock = None
  /\ place = [w \in Work |-> "none"]
  /\ owner = [w \in Work |-> None]
  /\ vm = [b \in Box |-> NoFile]
  /\ sess = [b \in Box |-> {}]
  /\ ckpt = [b \in Box |-> None]
  /\ pc = [p \in Host |-> "idle"]
  /\ dir = [p \in Host |-> None]
  /\ box = [p \in Host |-> None]
  /\ orig = [p \in Host |-> None]
  /\ kids = [p \in Host |-> {}]
  /\ staged = [p \in Host |-> 0]
  /\ swept = {}
  /\ crashes = 0 /\ rebuilds = 0
  /\ torn = FALSE

Goto(p, l) == pc' = [pc EXCEPT ![p] = l]
At(p, l) == pc[p] = l

Running(b) == vm[b] # NoFile
\* Boxes a process may use, drop or fork: built, and not being taken down.
Up(p) == {b \in Box : /\ owner[b] = p /\ Running(b) /\ b # box[p]
                      /\ b # orig[p] /\ b \notin kids[p]}

-----------------------------------------------------------------------------
(* create_zero_boot: the scavenger, then the lock of the snapshot directory *)

\* A create: the first one of a process scavenges.  `d` is the shard (hot) or
\* None (cold).
Create(p, d) ==
  /\ At(p, "idle")
  /\ dir' = [dir EXCEPT ![p] = d]
  /\ Goto(p, IF p \notin swept THEN "scan" ELSE IF d = None THEN "work" ELSE "lock")
  /\ swept' = swept \cup {p}
  /\ UNCHANGED <<files, relay, lock, place, owner, vm, sess, ckpt, box, orig, kids,
                 staged, world>>

\* Mutant of Held: the scavenger trusts the lock file's presence and marker.
HeldByNobody(w) == FALSE

\* A live process holds the flock of its lock file from before the file has
\* its final name; a scavenger holds it while it removes the directory.
Held(w) == owner[w] # None \/ \E q \in Host : At(q, "reap") /\ box[q] = w

\* scavenge_stale_in: a directory with a lock file that nobody holds is taken.
\* Others are skipped, and so may this one be (an I/O error, a listing that does
\* not have it yet).
ScavengeTake(p, w) ==
  /\ At(p, "scan")
  /\ place[w] = "locked" /\ ~Held(w)
  /\ box' = [box EXCEPT ![p] = w]
  /\ Goto(p, "reap")
  /\ UNCHANGED <<files, relay, lock, place, owner, vm, sess, ckpt, dir, orig, kids,
                 staged, swept, world>>

\* The directory is removed with everything in it.
ScavengeRemove(p) ==
  /\ At(p, "reap")
  /\ place' = [place EXCEPT ![box[p]] = "none"]
  /\ files' = IF box[p] \in Fork THEN [files EXCEPT ![box[p]] = Empty] ELSE files
  /\ box' = [box EXCEPT ![p] = None]
  /\ Goto(p, "scan")
  /\ UNCHANGED <<relay, lock, owner, vm, sess, ckpt, dir, orig, kids, staged, swept, world>>

ScavengeDone(p) ==
  /\ At(p, "scan")
  /\ Goto(p, IF dir[p] = None THEN "work" ELSE "lock")
  /\ UNCHANGED <<files, relay, lock, place, owner, vm, sess, ckpt, local, world>>

\* Mutant of AcquireDir: the create goes on without the flock.
EnterDir(p) ==
  /\ At(p, "lock")
  /\ lock' = p
  /\ Goto(p, IF orig[p] = None THEN "ensure" ELSE "dump")
  /\ UNCHANGED <<files, relay, place, owner, vm, sess, ckpt, local, world>>

\* SnapshotDirLock::acquire.
AcquireDir(p) ==
  /\ At(p, "lock")
  /\ lock = None
  /\ lock' = p
  /\ Goto(p, IF orig[p] = None THEN "ensure" ELSE "dump")
  /\ UNCHANGED <<files, relay, place, owner, vm, sess, ckpt, local, world>>

-----------------------------------------------------------------------------
(* Taking sandboxes down, and the ends of create and fork *)

\* Checkpoints whose last sibling is in S: their ForkCheckpoint is dropped.
LastOf(S) == {f \in Fork : /\ \E b \in S : ckpt[b] = f
                           /\ \A b \in Box \ S : ckpt[b] # f}

\* The boxes in S (work directory, VM, relay name if it is still theirs) and
\* the fork directories in F go away.
TakeDown(S, F) ==
  /\ place' = [w \in Work |-> IF w \in S \cup F THEN "none" ELSE place[w]]
  /\ vm' = [b \in Box |-> IF b \in S THEN NoFile ELSE vm[b]]
  /\ sess' = [b \in Box |-> IF b \in S THEN {} ELSE sess[b]]
  /\ ckpt' = [b \in Box |-> IF b \in S THEN None ELSE ckpt[b]]
  /\ relay' = [d \in Dir |-> IF relay[d] \in S THEN None ELSE relay[d]]
  /\ files' = [d \in Dir |-> IF d \in F THEN Empty ELSE files[d]]

\* The call returns: the process is idle, the directory lock released.
Leave(p) ==
  /\ lock' = IF lock = p THEN None ELSE lock
  /\ dir' = [dir EXCEPT ![p] = None]
  /\ box' = [box EXCEPT ![p] = None]
  /\ orig' = [orig EXCEPT ![p] = None]
  /\ kids' = [kids EXCEPT ![p] = {}]
  /\ staged' = [staged EXCEPT ![p] = 0]
  /\ Goto(p, "idle")

\* A create or fork fails: what it built is dropped, for a fork the original
\* too.  The checkpoint goes with it, except when the directory lock could not
\* be had: that early return leaves the fork directory behind.
Fails(p) ==
  /\ pc[p] \in {"lock", "ensure", "boot", "dump", "dumped", "stamp", "retire", "worklock",
                "restore", "open", "extra", "forklock"}
  /\ At(p, "lock") => lock # None
  /\ LET S == ({box[p], orig[p]} \cup kids[p]) \ {None}
         F == LastOf(S) \cup IF At(p, "lock") THEN {} ELSE {dir[p]} \cap Fork
     IN /\ TakeDown(S, F)
        /\ owner' = [w \in Work |-> IF w \in S \cup F \cup {dir[p]} THEN None ELSE owner[w]]
  /\ Leave(p)
  /\ UNCHANGED <<swept, world>>

-----------------------------------------------------------------------------
(* ensure_parent_snapshot *)

Stored(d) == files[d].vmstate # NoFile /\ files[d].mem # NoFile

\* Mutant of Reuse: the files' presence is enough.
ReuseUnstamped(p) ==
  /\ At(p, "ensure")
  /\ Stored(dir[p])
  /\ Goto(p, "work")
  /\ UNCHANGED <<files, relay, lock, place, owner, vm, sess, ckpt, local, world>>

\* A stored snapshot whose identity.json matches the assets is used as it is.
Reuse(p) ==
  /\ At(p, "ensure")
  /\ Stored(dir[p]) /\ files[dir[p]].ident = assets
  /\ Goto(p, "work")
  /\ UNCHANGED <<files, relay, lock, place, owner, vm, sess, ckpt, local, world>>

\* Another one is discarded, an absent or incomplete one prepared.
Prepare(p) ==
  /\ At(p, "ensure")
  /\ ~(Stored(dir[p]) /\ files[dir[p]].ident = assets)
  /\ Goto(p, IF Stored(dir[p]) THEN "discard" ELSE "boot")
  /\ UNCHANGED <<files, relay, lock, place, owner, vm, sess, ckpt, local, world>>

\* remove_dir_all(parent) removes the files in any order; it may fail half way,
\* and its error is ignored.
Discard(p) ==
  /\ At(p, "discard")
  /\ LET f == files[dir[p]] IN
     \/ /\ f = Empty /\ Goto(p, "boot") /\ UNCHANGED <<files, torn>>
     \/ /\ f # Empty /\ Goto(p, "boot") /\ torn' = TRUE /\ UNCHANGED files
     \/ /\ \E g \in {[f EXCEPT !.vmstate = NoFile], [f EXCEPT !.mem = NoFile],
                     [f EXCEPT !.ident = 0]} :
             g # f /\ files' = [files EXCEPT ![dir[p]] = g]
        /\ UNCHANGED <<pc, torn>>
  /\ UNCHANGED <<relay, lock, place, owner, vm, sess, ckpt, local, assets, crashes, rebuilds>>

\* The parent VM boots from a private copy of the rootfs and takes the relay
\* name of the directory, which its own drop removes again.
Boot(p) ==
  /\ At(p, "boot")
  /\ staged' = [staged EXCEPT ![p] = assets]
  /\ relay' = [relay EXCEPT ![dir[p]] = None]
  /\ Goto(p, "dump")
  /\ UNCHANGED <<files, lock, place, owner, vm, sess, ckpt, dir, box, orig, kids,
                 swept, world>>

\* What a snapshot taken now would hold: the parent VM, or the forked sandbox.
Image(p) ==
  IF orig[p] # None /\ Running(orig[p])
    THEN [vm[orig[p]] EXCEPT !.state = dir[p]]
    ELSE [rootfs |-> staged[p], state |-> "boot", relay |-> dir[p], whole |-> TRUE]

\* create_snapshot writes vmstate and memory.bin ...
Dump(p) ==
  /\ At(p, "dump")
  /\ files' = [files EXCEPT ![dir[p]].vmstate = Half(Image(p)),
                            ![dir[p]].mem = Half(Image(p))]
  /\ Goto(p, "dumped")
  /\ UNCHANGED <<relay, lock, place, owner, vm, sess, ckpt, local, world>>

\* ... completely, after which a parent VM is killed.
DumpEnds(p) ==
  /\ At(p, "dumped")
  /\ files' = [files EXCEPT ![dir[p]].vmstate = Image(p), ![dir[p]].mem = Image(p)]
  /\ Goto(p, "stamp")
  /\ UNCHANGED <<relay, lock, place, owner, vm, sess, ckpt, local, world>>

\* Mutant of Stamp: the checkpoint of a fork has no identity.json.
StampParentOnly(p) ==
  /\ At(p, "stamp")
  /\ files' = IF orig[p] = None THEN [files EXCEPT ![dir[p]].ident = assets] ELSE files
  /\ staged' = [staged EXCEPT ![p] = 0]
  /\ Goto(p, IF orig[p] # None /\ Running(orig[p]) THEN "retire" ELSE "work")
  /\ UNCHANGED <<relay, lock, place, owner, vm, sess, ckpt, dir, box, orig, kids, swept, world>>

\* identity.json is written last, with the identity of the assets as they are
\* now.  A fork goes on to drop the original, a create to restore.
Stamp(p) ==
  /\ At(p, "stamp")
  /\ files' = [files EXCEPT ![dir[p]].ident = assets]
  /\ staged' = [staged EXCEPT ![p] = 0]
  /\ Goto(p, IF orig[p] # None /\ Running(orig[p]) THEN "retire" ELSE "work")
  /\ UNCHANGED <<relay, lock, place, owner, vm, sess, ckpt, dir, box, orig, kids, swept, world>>

-----------------------------------------------------------------------------
(* restore_and_open and boot_and_open *)

\* create_work_dir: a fresh temporary directory ...
MakeWork(p, b) ==
  /\ At(p, "work")
  /\ place[b] = "none" /\ owner[b] = None /\ \A d \in Dir : relay[d] # b
  /\ \A q \in Host : box[q] # b
  /\ place' = [place EXCEPT ![b] = "bare"]
  /\ owner' = [owner EXCEPT ![b] = p]
  /\ box' = [box EXCEPT ![p] = b]
  /\ Goto(p, "worklock")
  /\ UNCHANGED <<files, relay, lock, vm, sess, ckpt, dir, orig, kids, staged, swept,
                 world>>

\* ... in which create_owned_lock puts a lock file that is already flocked.
LockWork(p) ==
  /\ At(p, "worklock")
  /\ place' = [place EXCEPT ![box[p]] = "locked"]
  /\ Goto(p, "restore")
  /\ UNCHANGED <<files, relay, lock, owner, vm, sess, ckpt, local, world>>

\* The VM is loaded from the snapshot and binds the baked relay name, whoever
\* had it; without a snapshot directory it boots with a relay of its own.
Restore(p) ==
  /\ At(p, "restore")
  /\ LET b == box[p]
         f == files[dir[p]]
         c == IF dir[p] = None
                THEN [rootfs |-> assets, state |-> "boot", relay |-> None, whole |-> TRUE]
                ELSE [f.vmstate EXCEPT !.whole = @ /\ f.mem = f.vmstate]
     IN /\ dir[p] # None => f.vmstate # NoFile
        /\ vm' = [vm EXCEPT ![b] = c]
        /\ relay' = [d \in Dir |-> IF d = c.relay THEN b ELSE relay[d]]
  /\ Goto(p, "open")
  /\ UNCHANGED <<files, lock, place, owner, sess, ckpt, local, world>>

\* The guest a new connection to the relay name of b reaches.
Reached(b) == IF vm[b].relay = None THEN b ELSE relay[vm[b].relay]

\* open_primary_pool: the primary session ...
OpenPrimary(p) ==
  /\ At(p, "open")
  /\ LET g == Reached(box[p]) IN
     /\ g # None /\ Running(g)
     /\ sess' = [sess EXCEPT ![box[p]] = {g}]
  /\ Goto(p, "extra")
  /\ UNCHANGED <<files, relay, lock, place, owner, vm, ckpt, local, world>>

\* ... then the others, and the sandbox is ready.  A fork restores twice.
OpenExtra(p) ==
  /\ At(p, "extra")
  /\ LET b == box[p]
         g == Reached(b)
         forking == dir[p] \in Fork
         ready == ~forking \/ kids[p] # {}
         D == IF forking /\ ready THEN {orig[p]} ELSE {}
         S == [ckpt EXCEPT ![b] = IF forking THEN dir[p] ELSE None]
         F == {f \in LastOf(D) : \A c \in Box \ D : S[c] # f}
     IN /\ g # None /\ Running(g)
        /\ sess' = [sess EXCEPT ![b] = @ \cup {g}]
        /\ ckpt' = [c \in Box |-> IF c \in D THEN None ELSE S[c]]
        /\ owner' = [w \in Work |-> IF w \in D \cup F THEN None ELSE owner[w]]
        /\ place' = [w \in Work |-> IF w \in F THEN "none" ELSE place[w]]
        /\ files' = [d \in Dir |-> IF d \in F THEN Empty ELSE files[d]]
        /\ IF ready
             THEN Leave(p)
             ELSE /\ kids' = [kids EXCEPT ![p] = @ \cup {b}]
                  /\ box' = [box EXCEPT ![p] = None]
                  /\ Goto(p, "ensure")
                  /\ UNCHANGED <<lock, dir, orig, staged>>
  /\ UNCHANGED <<relay, vm, swept, world>>

-----------------------------------------------------------------------------
(* fork *)

\* fork() makes the directory of the checkpoint ...
BeginFork(p, b, f) ==
  /\ At(p, "idle")
  /\ b \in Up(p) /\ vm[b].relay # None
  /\ place[f] = "none" /\ \A c \in Box : vm[c].state # f /\ vm[c].relay # f
  /\ place' = [place EXCEPT ![f] = "bare"]
  /\ owner' = [owner EXCEPT ![f] = p]
  /\ orig' = [orig EXCEPT ![p] = b]
  /\ dir' = [dir EXCEPT ![p] = f]
  /\ Goto(p, "forklock")
  /\ UNCHANGED <<files, relay, lock, vm, sess, ckpt, box, kids, staged, swept, world>>

\* ... with its liveness marker, then waits for the lock of the base directory.
LockFork(p) ==
  /\ At(p, "forklock")
  /\ place' = [place EXCEPT ![dir[p]] = "locked"]
  /\ Goto(p, "lock")
  /\ UNCHANGED <<files, relay, lock, owner, vm, sess, ckpt, local, world>>

\* drop(pool): the checkpointed VM is torn down before the two restores.
RetireOriginal(p) ==
  /\ At(p, "retire")
  /\ LET b == orig[p] IN
     /\ place' = [place EXCEPT ![b] = "none"]
     /\ vm' = [vm EXCEPT ![b] = NoFile]
     /\ sess' = [sess EXCEPT ![b] = {}]
     /\ relay' = [d \in Dir |-> IF relay[d] = b THEN None ELSE relay[d]]
  /\ Goto(p, "ensure")
  /\ UNCHANGED <<files, lock, owner, ckpt, local, world>>

-----------------------------------------------------------------------------
(* Dropping a sandbox: not under any lock *)

\* The primary session's fields go in order: the work directory ...
DropWork(p, b) ==
  /\ At(p, "idle")
  /\ b \in Up(p)
  /\ place' = [place EXCEPT ![b] = "none"]
  /\ box' = [box EXCEPT ![p] = b]
  /\ Goto(p, "kill")
  /\ UNCHANGED <<files, relay, lock, owner, vm, sess, ckpt, dir, orig, kids, staged,
                 swept, world>>

\* The drop of b is over; its checkpoint, if b was the last sibling, goes too.
DropEnds(p) ==
  /\ LET F == LastOf({box[p]}) IN
     /\ place' = [w \in Work |-> IF w \in F THEN "none" ELSE place[w]]
     /\ files' = [d \in Dir |-> IF d \in F THEN Empty ELSE files[d]]
     /\ owner' = [w \in Work |-> IF w \in F \cup {box[p]} THEN None ELSE owner[w]]
  /\ ckpt' = [ckpt EXCEPT ![box[p]] = None]
  /\ Leave(p)
  /\ UNCHANGED <<swept, world>>

\* ... then the VM, which is killed; remove_owned_socket compares the identity
\* of the name with that of the VM's own socket ...
KillVm(p) ==
  /\ At(p, "kill")
  /\ LET b == box[p]
         r == vm[b].relay
     IN /\ vm' = [vm EXCEPT ![b] = NoFile]
        /\ sess' = [sess EXCEPT ![b] = {}]
        /\ UNCHANGED relay
        /\ IF \E d \in Dir : d = r /\ relay[d] = b
             THEN /\ dir' = [dir EXCEPT ![p] = r]
                  /\ Goto(p, "unlink")
                  /\ UNCHANGED <<files, lock, place, owner, ckpt, box, orig, kids, staged, swept,
                                 world>>
             ELSE DropEnds(p)

\* ... and unlinks the name, which may have changed hands since.
Unlink(p) ==
  /\ At(p, "unlink")
  /\ relay' = [relay EXCEPT ![dir[p]] = None]
  /\ DropEnds(p)
  /\ UNCHANGED <<vm, sess>>

-----------------------------------------------------------------------------
(* The environment *)

\* The process is killed: the kernel closes its lock files and its VMs get
\* PDEATHSIG; directories, files and socket names stay.
Crash(p) ==
  /\ crashes + rebuilds < MaxFaults
  /\ crashes' = crashes + 1
  /\ LET mine == {b \in Box : owner[b] = p} IN
     /\ vm' = [b \in Box |-> IF b \in mine THEN NoFile ELSE vm[b]]
     /\ sess' = [b \in Box |-> IF b \in mine THEN {} ELSE sess[b]]
     /\ ckpt' = [b \in Box |-> IF b \in mine THEN None ELSE ckpt[b]]
  /\ owner' = [w \in Work |-> IF owner[w] = p THEN None ELSE owner[w]]
  /\ torn' = (torn \/ (At(p, "discard") /\ files[dir[p]] # Empty))
  /\ swept' = swept \ {p}
  /\ Leave(p)
  /\ UNCHANGED <<files, relay, place, assets, rebuilds>>

\* Kernel, rootfs or firecracker are replaced, possibly by an older version.
Rebuild(v) ==
  /\ crashes + rebuilds < MaxFaults
  /\ rebuilds' = rebuilds + 1
  /\ v # assets
  /\ assets' = v
  /\ UNCHANGED <<files, relay, lock, place, owner, vm, sess, ckpt, pc, local, crashes, torn>>

VmNext ==
  \/ \E p \in Host :
       \/ \E d \in {Base, None} : Create(p, d)
       \/ \E w \in Work : ScavengeTake(p, w)
       \/ ScavengeRemove(p) \/ ScavengeDone(p) \/ AcquireDir(p) \/ Fails(p)
       \/ Reuse(p) \/ Prepare(p) \/ Discard(p) \/ Boot(p) \/ Dump(p) \/ DumpEnds(p) \/ Stamp(p)
       \/ \E b \in Box : MakeWork(p, b) \/ DropWork(p, b)
       \/ LockWork(p) \/ Restore(p) \/ OpenPrimary(p) \/ OpenExtra(p)
       \/ \E b \in Box, f \in Fork : BeginFork(p, b, f)
       \/ LockFork(p) \/ RetireOriginal(p)
       \/ KillVm(p) \/ Unlink(p) \/ Crash(p)
  \/ \E v \in Builds : Rebuild(v)

VmSpec == VmInit /\ [][VmNext]_vars

-----------------------------------------------------------------------------
(* Properties *)

\* Whatever scavengers, forks and drops overlap, a sandbox in use keeps its
\* work directory, and the checkpoint that backs a fork's memory stays until
\* the last sibling is gone.
UsedDirsStand ==
  \A b \in Box :
    /\ Running(b) /\ (\A p \in Host : At(p, "kill") => box[p] # b) => place[b] = "locked"
    /\ ckpt[b] # None => place[ckpt[b]] = "locked"

\* Every session of a pool reaches the VM of its own sandbox, although all
\* sandboxes of a shard are reached through one baked relay name.
PoolReachesOwnVm == \A b \in Box : sess[b] \subseteq {b}

\* identity.json, "written last", marks a snapshot complete: no VM is loaded
\* from half-written or mismatched files, whichever process was killed while it
\* prepared them.  (A discard that stops half way may leave an identity.json
\* that a later snapshot has not earned; see `torn`.)
RestoredWhole == ~torn => \A b \in Box : Running(b) => vm[b].whole

\* Both sandboxes a fork returns continue the state of the original, unless the
\* assets were replaced meanwhile (then the restore boots a fresh parent).
ForkKeepsState ==
  rebuilds = 0 => \A b \in Box : ckpt[b] # None /\ Running(b) => vm[b].state = ckpt[b]

\* What a sandbox is restored from is whole, and what a fork asked for
\* (ensure_parent_snapshot, fork).
RestoresTrue == RestoredWhole /\ ForkKeepsState

=============================================================================
