------------------------------ MODULE VmProofs ------------------------------
(***************************************************************************)
(* Proofs about the virtual machines of a host: the sandboxes of several   *)
(* processes (VmLifecycle), for any number of processes, sandboxes, forks, *)
(* kills and rebuilds, and the controller of one Firecracker (Firecracker),*)
(* for every bound on spawns, snapshots and sizes.                         *)
(***************************************************************************)
EXTENDS VmLifecycle, Firecracker, TLAPS

-----------------------------------------------------------------------------
(* The sandboxes of a host *)

Building == {"worklock", "restore", "open", "extra"}
Preparing == {"ensure", "discard", "boot", "dump", "dumped", "stamp", "retire"}

\* A fork is under way: outside a drop, `dir` is the directory a process restores from.
Forking(p) == dir[p] \in Fork /\ pc[p] # "unlink"

\* Where a process is says which of its locals are set.
Locals(p) ==
  /\ pc[p] \in Building \cup {"kill", "unlink"} => box[p] \in Box
  /\ pc[p] \notin Building \cup {"kill", "unlink", "reap"} => box[p] = None
  /\ pc[p] \in {"idle", "scan", "reap", "kill", "unlink"} => orig[p] = None /\ kids[p] = {}
  /\ pc[p] \in {"idle", "scan", "reap", "kill"} => dir[p] \notin Fork
  /\ pc[p] \in Preparing \cup {"lock", "forklock", "unlink"} => dir[p] \in Dir
  /\ orig[p] # None => dir[p] \in Fork
  /\ dir[p] \in Fork /\ pc[p] # "unlink" => orig[p] # None
  /\ orig[p] \notin kids[p] /\ box[p] \notin kids[p]
  /\ orig[p] # None => box[p] # orig[p]

\* What a process works on is its own, and a directory it removes is nobody's.
Claims(p) ==
  /\ pc[p] \in Building \cup {"kill", "unlink"} => owner[box[p]] = p
  /\ orig[p] # None => owner[orig[p]] = p
  /\ \A b \in kids[p] : owner[b] = p
  /\ Forking(p) => owner[dir[p]] = p
  /\ pc[p] = "reap" =>
       box[p] \in Work /\ owner[box[p]] = None /\ place[box[p]] = "locked"

\* The directories a process works in have their lock files, and the checkpoint of a
\* fork belongs to nobody but the boxes restored so far.
Standing(p) ==
  /\ pc[p] \in {"restore", "open", "extra"} => place[box[p]] = "locked"
  /\ Forking(p) =>
       /\ pc[p] # "forklock" => place[dir[p]] = "locked"
       /\ \A b \in Box : ckpt[b] = dir[p] => b \in kids[p]

\* The VM that is replaced, or has been killed, no longer runs.
Retired(p) ==
  /\ pc[p] \in Building \cup {"ensure", "discard", "boot", "work"} /\ orig[p] # None
       => ~Running(orig[p])
  /\ pc[p] = "unlink" => ~Running(box[p])

\* The flock of the snapshot directory is held from its acquisition to the sessions,
\* and while it is held nobody else binds the relay name.
Locked(p) ==
  /\ pc[p] \in Preparing => lock = p
  /\ pc[p] \in Building \cup {"work"} /\ dir[p] # None => lock = p
Bound(p) ==
  pc[p] \in {"open", "extra"} /\ vm[box[p]].relay # None =>
    /\ dir[p] # None
    /\ relay[vm[box[p]].relay] \in {box[p], None}

HostInv(p) == Locals(p) /\ Claims(p) /\ Standing(p) /\ Retired(p) /\ Locked(p) /\ Bound(p)

\* A box that runs has an owner and its work directory, unless it is being dropped; the
\* checkpoint of a box has the same owner; its sessions reach it.
BoxInv(b) ==
  /\ Running(b) => owner[b] # None
  /\ Running(b) => place[b] = "locked" \/ \E p \in Host : At(p, "kill") /\ box[p] = b
  /\ ckpt[b] # None =>
       owner[b] # None /\ owner[ckpt[b]] = owner[b] /\ place[ckpt[b]] = "locked"
  /\ sess[b] \subseteq {b}

\* Two scavengers never remove the same directory.
OneReaper ==
  \A p, q \in Host : At(p, "reap") /\ At(q, "reap") /\ box[p] = box[q] => p = q

\* A fork directory that is not there is nobody's.
ForksHeld == \A f \in Fork : place[f] = "none" => owner[f] = None

VmInv ==
  VmTypeOK /\ OneReaper /\ ForksHeld /\ (\A p \in Host : HostInv(p)) /\ (\A b \in Box : BoxInv(b))
-----------------------------------------------------------------------------
(* Types *)

\* The types in two parts: who has what, and what is in the files and the VMs.
Places ==
  /\ relay \in [Dir -> Box \cup {None}] /\ lock \in Host \cup {None}
  /\ place \in [Work -> {"none", "bare", "locked"}] /\ owner \in [Work -> Host \cup {None}]
  /\ sess \in [Box -> SUBSET Box] /\ ckpt \in [Box -> Fork \cup {None}]
  /\ pc \in [Host -> Labels] /\ dir \in [Host -> Dir \cup {None}]
  /\ box \in [Host -> Work \cup {None}] /\ orig \in [Host -> Box \cup {None}]
  /\ kids \in [Host -> SUBSET Box] /\ swept \subseteq Host
Snapshot == [vmstate : Content, mem : Content, ident : 0..MaxBuild]
Contents ==
  /\ assets \in Builds /\ files \in [Dir -> Snapshot] /\ vm \in [Box -> Content]
  /\ staged \in [Host -> 0..MaxBuild]
Counts == crashes \in 0..MaxFaults /\ rebuilds \in 0..MaxFaults /\ torn \in BOOLEAN

LEMMA VmTypesSplit == VmTypeOK <=> Places /\ Contents /\ Counts
BY DEF VmTypeOK, Places, Contents, Counts, Snapshot

LEMMA VmTypesAfter ==
  ASSUME Places', Contents', Counts'
  PROVE  VmTypeOK'
BY DEF VmTypeOK, Places, Contents, Counts, Snapshot

\* A step that leaves the files, the VMs and the counts alone.
LEMMA ContentsKept ==
  ASSUME Contents, Counts, UNCHANGED <<assets, files, vm, staged, crashes, rebuilds, torn>>
  PROVE  Contents' /\ Counts'
<1>1. Contents'
  BY DEF Contents
<1> QED
  BY <1>1 DEF Counts

\* The names are apart.
LEMMA Names ==
  /\ None \notin Work /\ None \notin Dir /\ None \notin Host /\ Base \notin Work
  /\ Box \subseteq Work /\ Fork \subseteq Work /\ Fork \subseteq Dir /\ Base \in Dir
  /\ \A b \in Box : b \notin Fork
  /\ \A d \in Dir : d \in Fork \/ d = Base
BY VmAssumption DEF Work, Dir, None, Base

LEMMA Emptiness ==
  NoFile \in Content /\ Empty \in Snapshot /\ NoFile.relay = None
<1>1. 0 \in 0..MaxBuild
  BY VmAssumption
<1>2. NoFile \in Content
  BY <1>1 DEF NoFile, Content
<1> QED
  BY <1>1, <1>2 DEF Empty, Snapshot, NoFile

-----------------------------------------------------------------------------
(* A step of one process, seen by the others *)

\* What a step must leave to a process that does not take it.
Spares(q) ==
  /\ pc'[q] = pc[q] /\ dir'[q] = dir[q] /\ box'[q] = box[q]
  /\ orig'[q] = orig[q] /\ kids'[q] = kids[q]
  /\ \A w \in Work : owner[w] = q => owner'[w] = q /\ place'[w] = place[w]
  /\ \A b \in Box : owner[b] = q => vm'[b] = vm[b]
  /\ \A b \in Box : ckpt'[b] \in {ckpt[b], None} \/ owner[ckpt'[b]] # q
  /\ lock = q => lock' = q
  /\ lock = q => \A d \in Dir : relay'[d] \in {relay[d], None}
  /\ pc[q] = "reap" => owner'[box[q]] = owner[box[q]] /\ place'[box[q]] = place[box[q]]

LEMMA Spared ==
  ASSUME Places, Contents, NEW q \in Host, HostInv(q), Spares(q)
  PROVE  HostInv(q)'
<1> USE DEF HostInv
<1>1. Locals(q)'
  BY DEF Spares, Locals
<1>2. Claims(q)'
  BY Names DEF Spares, Claims, Locals, Forking, Places
<1>3. Standing(q)'
  <2>1. pc[q] \in {"restore", "open", "extra"} => place'[box[q]] = "locked"
    BY Names DEF Spares, Claims, Locals, Standing, Building
  <2>2. ASSUME Forking(q)
        PROVE  /\ pc[q] # "forklock" => place'[dir[q]] = "locked"
               /\ \A b \in Box : ckpt'[b] = dir[q] => b \in kids[q]
    <3>1. dir[q] \in Fork /\ owner[dir[q]] = q /\ dir[q] # None /\ dir[q] \in Work
      BY <2>2, Names DEF Claims, Forking
    <3>2. pc[q] # "forklock" => place'[dir[q]] = "locked"
      BY <2>2, <3>1 DEF Spares, Standing
    <3>3. \A b \in Box : ckpt'[b] = dir[q] => ckpt[b] = dir[q]
      BY <3>1 DEF Spares
    <3> QED
      BY <2>2, <3>2, <3>3 DEF Standing
  <2>3. Forking(q)' => Forking(q)
    BY DEF Spares, Forking
  <2> QED
    BY <2>1, <2>2, <2>3 DEF Standing, Spares
<1>4. Retired(q)'
  BY Names DEF Spares, Claims, Locals, Retired, Running, Places
<1>5. Locked(q)'
  BY DEF Spares, Locked
<1>6. Bound(q)'
  <2>1. SUFFICES ASSUME pc[q] \in {"open", "extra"}, vm'[box[q]].relay # None
                 PROVE  dir[q] # None /\ relay'[vm'[box[q]].relay] \in {box[q], None}
    BY DEF Spares, Bound
  <2>2. box[q] \in Box /\ owner[box[q]] = q
    BY <2>1 DEF Locals, Claims, Building
  <2>3. vm'[box[q]] = vm[box[q]]
    BY <2>2 DEF Spares
  <2>4. dir[q] # None /\ relay[vm[box[q]].relay] \in {box[q], None}
    BY <2>1, <2>3 DEF Bound
  <2>5. lock = q
    BY <2>1, <2>4 DEF Locked, Building
  <2>6. vm[box[q]].relay \in Dir
    BY <2>1, <2>2, <2>3 DEF Contents, Content
  <2>7. relay'[vm[box[q]].relay] \in {relay[vm[box[q]].relay], None}
    BY <2>5, <2>6 DEF Spares
  <2> QED
    BY <2>3, <2>4, <2>7
<1> QED
  BY <1>1, <1>2, <1>3, <1>4, <1>5, <1>6

\* What is left to show of a step of p.
LEMMA StepOf ==
  ASSUME VmInv, NEW p \in Host, VmTypeOK', OneReaper', ForksHeld', HostInv(p)',
         \A q \in Host \ {p} : Spares(q),
         \A b \in Box : BoxInv(b)'
  PROVE  VmInv'
<1>1. ASSUME NEW q \in Host, q # p PROVE HostInv(q)'
  BY <1>1, Spared, VmTypesSplit DEF VmInv
<1>2. \A q \in Host : HostInv(q)'
  BY <1>1
<1> QED
  BY <1>2 DEF VmInv

\* A step of p that only moves on: it may set `dir`, take or keep the directory lock,
\* and clear relay names, but leaves every directory, VM and session alone.
MovesOn(p) ==
  /\ UNCHANGED <<place, owner, vm, sess, ckpt, box, orig, kids>>
  /\ \A q \in Host \ {p} : pc'[q] = pc[q] /\ dir'[q] = dir[q]
  /\ pc[p] \notin {"kill", "reap"} /\ pc'[p] \notin {"kill", "reap"}
  /\ \A d \in Dir : relay'[d] \in {relay[d], None}
  /\ lock' = lock \/ lock = None

LEMMA MovingOn ==
  ASSUME VmInv, NEW p \in Host, MovesOn(p), VmTypeOK', HostInv(p)'
  PROVE  VmInv'
<1>1. OneReaper'
  BY DEF VmInv, OneReaper, MovesOn, At
<1>4. ForksHeld'
  BY DEF VmInv, ForksHeld, MovesOn
<1>2. \A q \in Host \ {p} : Spares(q)
  BY Names DEF MovesOn, Spares
<1>3. \A b \in Box : BoxInv(b)'
  BY DEF VmInv, BoxInv, MovesOn, At, Running
<1> QED
  BY <1>1, <1>4, <1>2, <1>3, StepOf

-----------------------------------------------------------------------------
(* Steps that only move on *)

LEMMA Going ==
  ASSUME Places, NEW p \in Host, NEW l, Goto(p, l)
  PROVE  pc'[p] = l /\ \A q \in Host \ {p} : pc'[q] = pc[q]
BY DEF Goto, Places

\* What the proofs below need to know before a step of p.
LEMMA Before ==
  ASSUME VmInv, NEW p \in Host
  PROVE  /\ Places /\ Contents /\ Counts /\ VmTypeOK /\ OneReaper /\ ForksHeld
         /\ Locals(p) /\ Claims(p) /\ Standing(p) /\ Retired(p) /\ Locked(p) /\ Bound(p)
BY VmTypesSplit DEF VmInv, HostInv

LEMMA CreateKeeps ==
  ASSUME VmInv, NEW p \in Host, NEW d \in {Base, None}, Create(p, d)
  PROVE  VmInv'
<1>0. /\ Places /\ Contents /\ Counts /\ VmTypeOK
      /\ Locals(p) /\ Claims(p) /\ Standing(p) /\ Retired(p) /\ Locked(p) /\ Bound(p)
  BY Before
<1>1. pc[p] = "idle" /\ (pc'[p] = "scan" \/ (d = None /\ pc'[p] = "work")
                          \/ (d # None /\ pc'[p] = "lock"))
      /\ \A q \in Host \ {p} : pc'[q] = pc[q]
  BY <1>0, Going DEF Create, At
<1>2. dir'[p] = d /\ \A q \in Host \ {p} : dir'[q] = dir[q]
  BY <1>0 DEF Create, Places
<1>3. MovesOn(p)
  BY <1>1, <1>2 DEF Create, MovesOn
<1>4. VmTypeOK'
  <2>1. Places'
    BY <1>0, Names DEF Create, Goto, Places, Labels
  <2> QED
    BY <1>0, <2>1, ContentsKept, VmTypesAfter DEF Create, local, world
<1>5. HostInv(p)'
  <2>1. d \notin Fork /\ (d # None => d \in Dir)
    BY Names DEF Work
  <2>2. box'[p] = None /\ orig'[p] = None /\ kids'[p] = {}
    BY <1>0, <1>1 DEF Create, Locals, Building
  <2> QED
    BY <1>1, <1>2, <2>1, <2>2
       DEF HostInv, Locals, Claims, Standing, Retired, Locked, Bound, Forking, Building, Preparing
<1> QED
  BY <1>3, <1>4, <1>5, MovingOn

LEMMA ScavengeDoneKeeps ==
  ASSUME VmInv, NEW p \in Host, ScavengeDone(p)
  PROVE  VmInv'
<1>0. /\ Places /\ Contents /\ Counts /\ VmTypeOK
      /\ Locals(p) /\ Claims(p) /\ Standing(p) /\ Retired(p) /\ Locked(p) /\ Bound(p)
  BY Before
<1>1. pc[p] = "scan" /\ ((dir[p] = None /\ pc'[p] = "work") \/ (dir[p] # None /\ pc'[p] = "lock"))
      /\ \A q \in Host \ {p} : pc'[q] = pc[q]
  BY <1>0, Going DEF ScavengeDone, At
<1>2. dir' = dir
  BY DEF ScavengeDone, local
<1>3. MovesOn(p)
  BY <1>1, <1>2 DEF ScavengeDone, MovesOn, local
<1>4. VmTypeOK'
  <2>1. Places'
    BY <1>0 DEF ScavengeDone, local, Goto, Places, Labels
  <2> QED
    BY <1>0, <2>1, ContentsKept, VmTypesAfter DEF ScavengeDone, local, world
<1>5. HostInv(p)'
  <2>1. dir[p] \notin Fork /\ (dir[p] # None => dir[p] \in Dir)
    BY <1>0, <1>1 DEF Locals, Places
  <2>2. box'[p] = None /\ orig'[p] = None /\ kids'[p] = {}
    BY <1>0, <1>1 DEF ScavengeDone, local, Locals, Building
  <2> QED
    BY <1>1, <1>2, <2>1, <2>2
       DEF HostInv, Locals, Claims, Standing, Retired, Locked, Bound, Forking, Building, Preparing
<1> QED
  BY <1>3, <1>4, <1>5, MovingOn

LEMMA AcquireDirKeeps ==
  ASSUME VmInv, NEW p \in Host, AcquireDir(p)
  PROVE  VmInv'
<1>0. /\ Places /\ Contents /\ Counts /\ VmTypeOK
      /\ Locals(p) /\ Claims(p) /\ Standing(p) /\ Retired(p) /\ Locked(p) /\ Bound(p)
  BY Before
<1>1. pc[p] = "lock" /\ ((orig[p] = None /\ pc'[p] = "ensure") \/ (orig[p] # None /\ pc'[p] = "dump"))
      /\ \A q \in Host \ {p} : pc'[q] = pc[q]
  BY <1>0, Going DEF AcquireDir, At
<1>2. UNCHANGED <<dir, box, orig, kids, place, owner, vm, ckpt>> /\ lock' = p
  BY DEF AcquireDir, local
<1>3. MovesOn(p)
  BY <1>1, <1>2 DEF AcquireDir, MovesOn, local
<1>4. VmTypeOK'
  <2>1. Places'
    BY <1>0 DEF AcquireDir, local, Goto, Places, Labels
  <2> QED
    BY <1>0, <2>1, ContentsKept, VmTypesAfter DEF AcquireDir, local, world
<1>5. HostInv(p)'
  BY <1>0, <1>1, <1>2
     DEF HostInv, Locals, Claims, Standing, Retired, Locked, Bound, Forking, Building, Preparing
<1> QED
  BY <1>3, <1>4, <1>5, MovingOn

\* Preparing, under the lock: the next label is another one of these.
Onward(p) ==
  \/ pc[p] \in {"ensure", "discard", "boot"} /\ pc'[p] \in {"work", "discard", "boot", "dump"}
  \/ pc[p] \in {"dump", "dumped"} /\ pc'[p] \in {"dumped", "stamp"}
  \/ pc[p] = "stamp" /\ pc'[p] = "retire"
  \/ pc[p] = "stamp" /\ pc'[p] = "work" /\ (orig[p] # None => ~Running(orig[p]))

LEMMA PreparingOn ==
  ASSUME VmInv, NEW p \in Host, Onward(p), VmTypeOK',
         UNCHANGED <<lock, place, owner, vm, sess, ckpt, dir, box, orig, kids>>,
         \A q \in Host \ {p} : pc'[q] = pc[q],
         \A d \in Dir : relay'[d] \in {relay[d], None}
  PROVE  VmInv'
<1>0. /\ Locals(p) /\ Claims(p) /\ Standing(p) /\ Retired(p) /\ Locked(p) /\ Bound(p)
  BY Before
<1>1. MovesOn(p)
  BY DEF MovesOn, Onward
<1>2. HostInv(p)'
  BY <1>0 DEF Onward, HostInv, Locals, Claims, Standing, Retired, Locked, Bound, Forking,
              Building, Preparing, Running
<1> QED
  BY <1>1, <1>2, MovingOn

LEMMA ReuseKeeps ==
  ASSUME VmInv, NEW p \in Host, Reuse(p) \/ Prepare(p)
  PROVE  VmInv'
<1>0. Places /\ Contents /\ Counts
  BY Before
<1>1. Onward(p) /\ \A q \in Host \ {p} : pc'[q] = pc[q]
  BY <1>0, Going DEF Reuse, Prepare, At, Onward
<1>2. VmTypeOK'
  <2>1. Places'
    BY <1>0 DEF Reuse, Prepare, local, Goto, Places, Labels
  <2> QED
    BY <1>0, <2>1, ContentsKept, VmTypesAfter DEF Reuse, Prepare, local, world
<1>3. UNCHANGED <<relay, lock, place, owner, vm, sess, ckpt, dir, box, orig, kids>>
  BY DEF Reuse, Prepare, local
<1> QED
  BY <1>1, <1>2, <1>3, PreparingOn

LEMMA BootKeeps ==
  ASSUME VmInv, NEW p \in Host, Boot(p)
  PROVE  VmInv'
<1>0. Places /\ Contents /\ Counts
  BY Before
<1>1. Onward(p) /\ \A q \in Host \ {p} : pc'[q] = pc[q]
  BY <1>0, Going DEF Boot, At, Onward
<1>2. VmTypeOK'
  <2>1. Places'
    BY <1>0 DEF Boot, Goto, Places, Labels
  <2>2. assets \in 0..MaxBuild
    BY <1>0, VmAssumption DEF Contents, Builds
  <2>3. Contents' /\ Counts'
    BY <1>0, <2>2 DEF Boot, world, Contents, Counts
  <2> QED
    BY <2>1, <2>3, VmTypesAfter
<1>3. UNCHANGED <<lock, place, owner, vm, sess, ckpt, dir, box, orig, kids>>
  BY DEF Boot
<1>4. \A d \in Dir : relay'[d] \in {relay[d], None}
  BY <1>0 DEF Boot, Places
<1> QED
  BY <1>1, <1>2, <1>3, <1>4, PreparingOn

\* A process that prepares a snapshot only writes into its files.
LEMMA Filing ==
  ASSUME VmInv, NEW p \in Host, Onward(p), \A q \in Host \ {p} : pc'[q] = pc[q],
         UNCHANGED <<relay, lock, place, owner, vm, sess, ckpt, dir, box, orig, kids, swept>>,
         UNCHANGED <<assets, crashes, rebuilds>>,
         pc' \in [Host -> Labels], torn' \in BOOLEAN,
         files' \in [Dir -> Snapshot], staged' \in [Host -> 0..MaxBuild]
  PROVE  VmInv'
<1>0. Places /\ Contents /\ Counts
  BY Before
<1>1. Places'
  BY <1>0 DEF Places
<1>2. Contents'
  BY <1>0 DEF Contents
<1>3. Counts'
  BY <1>0 DEF Counts
<1>4. VmTypeOK'
  BY <1>1, <1>2, <1>3, VmTypesAfter
<1>5. \A d \in Dir : relay'[d] \in {relay[d], None}
  OBVIOUS
<1> QED
  BY <1>4, <1>5, PreparingOn

LEMMA DiscardKeeps ==
  ASSUME VmInv, NEW p \in Host, Discard(p)
  PROVE  VmInv'
<1>0. Places /\ Contents /\ Counts /\ Locals(p)
  BY Before
<1>1. pc[p] = "discard" /\ dir[p] \in Dir
  BY <1>0 DEF Discard, At, Locals, Preparing
<1>2. /\ Onward(p) /\ \A q \in Host \ {p} : pc'[q] = pc[q]
      /\ pc' \in [Host -> Labels]
  <2>1. CASE UNCHANGED pc
    BY <1>0, <1>1, <2>1 DEF Onward, Places
  <2>2. CASE Goto(p, "boot")
    BY <1>0, <1>1, <2>2, Going DEF Onward, Goto, Places, Labels
  <2> QED
    BY <2>1, <2>2 DEF Discard
<1>3. torn' \in BOOLEAN
  BY <1>0 DEF Discard, Counts
<1>4. files' \in [Dir -> Snapshot]
  <2>1. files \in [Dir -> Snapshot] /\ files[dir[p]] \in Snapshot
    BY <1>0, <1>1 DEF Contents
  <2>2. 0 \in 0..MaxBuild
    BY VmAssumption
  <2>3. /\ [files[dir[p]] EXCEPT !.vmstate = NoFile] \in Snapshot
        /\ [files[dir[p]] EXCEPT !.mem = NoFile] \in Snapshot
        /\ [files[dir[p]] EXCEPT !.ident = 0] \in Snapshot
    BY <2>1, <2>2, Emptiness DEF Snapshot
  <2>4. \/ files' = files
        \/ \E g \in Snapshot : files' = [files EXCEPT ![dir[p]] = g]
    BY <2>3 DEF Discard
  <2> QED
    BY <2>1, <2>4
<1>5. staged' \in [Host -> 0..MaxBuild]
  BY <1>0 DEF Discard, local, Contents
<1>6. UNCHANGED <<relay, lock, place, owner, vm, sess, ckpt, dir, box, orig, kids, swept>>
  BY DEF Discard, local
<1>7. UNCHANGED <<assets, crashes, rebuilds>>
  BY DEF Discard
<1> QED
  BY <1>2, <1>3, <1>4, <1>5, <1>6, <1>7, Filing

LEMMA ImageIs ==
  ASSUME Places, Contents, NEW p \in Host, Locals(p), pc[p] \in {"dump", "dumped"}
  PROVE  Image(p) \in Content /\ Half(Image(p)) \in Content
<1>1. dir[p] \in Dir /\ (orig[p] # None => dir[p] \in Fork /\ orig[p] \in Box)
  BY DEF Locals, Preparing, Places
<1>2. Image(p) \in Content
  <2>1. CASE orig[p] # None /\ Running(orig[p])
    <3>1. vm[orig[p]] \in Content
      BY <1>1, <2>1 DEF Contents
    <3> QED
      BY <1>1, <2>1, <3>1 DEF Image, Content
  <2>2. CASE ~(orig[p] # None /\ Running(orig[p]))
    <3>1. staged[p] \in 0..MaxBuild
      BY DEF Contents
    <3> QED
      BY <1>1, <2>2, <3>1 DEF Image, Content
  <2> QED
    BY <2>1, <2>2
<1> QED
  BY <1>2 DEF Half, Content

LEMMA DumpKeeps ==
  ASSUME VmInv, NEW p \in Host, Dump(p) \/ DumpEnds(p)
  PROVE  VmInv'
<1>0. Places /\ Contents /\ Counts /\ Locals(p)
  BY Before
<1>1. /\ pc[p] \in {"dump", "dumped"} /\ Onward(p) /\ \A q \in Host \ {p} : pc'[q] = pc[q]
      /\ pc' \in [Host -> Labels]
  <2>1. (pc[p] = "dump" /\ Goto(p, "dumped")) \/ (pc[p] = "dumped" /\ Goto(p, "stamp"))
    BY DEF Dump, DumpEnds, At
  <2> QED
    BY <1>0, <2>1, Going DEF Onward, Goto, Places, Labels
<1>2. files' \in [Dir -> Snapshot]
  <2>1. PICK c \in Content : files' = [files EXCEPT ![dir[p]].vmstate = c, ![dir[p]].mem = c]
    BY <1>0, <1>1, ImageIs DEF Dump, DumpEnds
  <2>2. files \in [Dir -> Snapshot]
    BY <1>0 DEF Contents
  <2> QED
    BY <2>1, <2>2 DEF Snapshot
<1>3. torn' \in BOOLEAN /\ staged' \in [Host -> 0..MaxBuild]
  BY <1>0 DEF Dump, DumpEnds, local, world, Contents, Counts
<1>4. UNCHANGED <<relay, lock, place, owner, vm, sess, ckpt, dir, box, orig, kids, swept>>
  BY DEF Dump, DumpEnds, local
<1>5. UNCHANGED <<assets, crashes, rebuilds>>
  BY DEF Dump, DumpEnds, world
<1> QED
  BY <1>1, <1>2, <1>3, <1>4, <1>5, Filing

LEMMA StampKeeps ==
  ASSUME VmInv, NEW p \in Host, Stamp(p)
  PROVE  VmInv'
<1>0. Places /\ Contents /\ Counts /\ Locals(p)
  BY Before
<1>1. /\ Onward(p) /\ \A q \in Host \ {p} : pc'[q] = pc[q]
      /\ pc' \in [Host -> Labels]
  <2>1. /\ pc[p] = "stamp"
        /\ \/ Goto(p, "retire")
           \/ Goto(p, "work") /\ ~(orig[p] # None /\ Running(orig[p]))
    BY DEF Stamp, At
  <2> QED
    BY <1>0, <2>1, Going DEF Onward, Goto, Places, Labels
<1>2. files' \in [Dir -> Snapshot]
  <2>1. assets \in 0..MaxBuild /\ files \in [Dir -> Snapshot]
    BY <1>0, VmAssumption DEF Contents, Builds
  <2> QED
    BY <2>1 DEF Stamp, Snapshot
<1>3. torn' \in BOOLEAN
  BY <1>0 DEF Stamp, world, Counts
<1>4. staged' \in [Host -> 0..MaxBuild]
  <2>1. 0 \in 0..MaxBuild /\ staged \in [Host -> 0..MaxBuild]
    BY <1>0, VmAssumption DEF Contents
  <2> QED
    BY <2>1 DEF Stamp
<1>5. UNCHANGED <<relay, lock, place, owner, vm, sess, ckpt, dir, box, orig, kids, swept>>
  BY DEF Stamp
<1>6. UNCHANGED <<assets, crashes, rebuilds>>
  BY DEF Stamp, world
<1> QED
  BY <1>1, <1>2, <1>3, <1>4, <1>5, <1>6, Filing

-----------------------------------------------------------------------------
(* The scavenger, and the directories of creates and forks *)

LEMMA ScavengeTakeKeeps ==
  ASSUME VmInv, NEW p \in Host, NEW w \in Work, ScavengeTake(p, w)
  PROVE  VmInv'
<1>0. /\ Places /\ Contents /\ Counts /\ OneReaper /\ ForksHeld
      /\ Locals(p) /\ Claims(p) /\ Standing(p) /\ Retired(p) /\ Locked(p) /\ Bound(p)
  BY Before
<1>1. pc[p] = "scan" /\ pc'[p] = "reap" /\ \A q \in Host \ {p} : pc'[q] = pc[q]
  BY <1>0, Going DEF ScavengeTake, At
<1>2. box'[p] = w /\ \A q \in Host \ {p} : box'[q] = box[q]
  BY <1>0 DEF ScavengeTake, Places
<1>3. /\ place[w] = "locked" /\ owner[w] = None
      /\ \A q \in Host : pc[q] = "reap" => box[q] # w
  BY DEF ScavengeTake, Held, At
<1>4. UNCHANGED <<relay, lock, place, owner, vm, sess, ckpt, dir, orig, kids>>
  BY DEF ScavengeTake
<1>5. OneReaper'
  BY <1>0, <1>1, <1>2, <1>3 DEF OneReaper, At
<1>6. ForksHeld'
  BY <1>0, <1>4 DEF ForksHeld
<1>7. \A q \in Host \ {p} : Spares(q)
  BY <1>1, <1>2, <1>4 DEF Spares
<1>8. HostInv(p)'
  <2>1. orig'[p] = None /\ kids'[p] = {} /\ dir'[p] \notin Fork
    BY <1>0, <1>1, <1>4 DEF Locals
  <2> QED
    BY <1>1, <1>2, <1>3, <1>4, <2>1
       DEF HostInv, Locals, Claims, Standing, Retired, Locked, Bound, Forking, Building, Preparing
<1>9. \A b \in Box : BoxInv(b)'
  BY <1>1, <1>2, <1>4 DEF VmInv, BoxInv, At, Running
<1>10. VmTypeOK'
  <2>1. Places'
    BY <1>0 DEF ScavengeTake, Goto, Places, Labels
  <2> QED
    BY <1>0, <2>1, ContentsKept, VmTypesAfter DEF ScavengeTake, world
<1> QED
  BY <1>5, <1>6, <1>7, <1>8, <1>9, <1>10, StepOf

LEMMA ScavengeRemoveKeeps ==
  ASSUME VmInv, NEW p \in Host, ScavengeRemove(p)
  PROVE  VmInv'
<1>0. /\ Places /\ Contents /\ Counts /\ OneReaper /\ ForksHeld
      /\ Locals(p) /\ Claims(p) /\ Standing(p) /\ Retired(p) /\ Locked(p) /\ Bound(p)
  BY Before
<1>1. pc[p] = "reap" /\ pc'[p] = "scan" /\ \A q \in Host \ {p} : pc'[q] = pc[q]
  BY <1>0, Going DEF ScavengeRemove, At
<1>2. box'[p] = None /\ \A q \in Host \ {p} : box'[q] = box[q]
  BY <1>0 DEF ScavengeRemove, Places
<1>3. box[p] \in Work /\ owner[box[p]] = None
  BY <1>0, <1>1 DEF Claims
<1>4. UNCHANGED <<relay, lock, owner, vm, sess, ckpt, dir, orig, kids>>
  BY DEF ScavengeRemove
<1>5. \A x \in Work : x # box[p] => place'[x] = place[x]
  BY <1>0 DEF ScavengeRemove, Places
<1>6. OneReaper'
  BY <1>0, <1>1, <1>2 DEF OneReaper, At
<1>7. ForksHeld'
  BY <1>0, <1>3, <1>4, <1>5, Names DEF ForksHeld
<1>8. ASSUME NEW q \in Host, q # p PROVE Spares(q)
  <2>1. pc[q] = "reap" => box[q] # box[p] /\ box[q] \in Work
    BY <1>0, <1>1, <1>8 DEF OneReaper, At, VmInv, HostInv, Claims
  <2>2. \A x \in Work : owner[x] = q => x # box[p]
    BY <1>3, <1>8, Names
  <2> QED
    BY <1>1, <1>2, <1>4, <1>5, <1>8, <2>1, <2>2 DEF Spares
<1>9. HostInv(p)'
  <2>1. orig'[p] = None /\ kids'[p] = {} /\ dir'[p] \notin Fork
    BY <1>0, <1>1, <1>4 DEF Locals
  <2> QED
    BY <1>1, <1>2, <2>1
       DEF HostInv, Locals, Claims, Standing, Retired, Locked, Bound, Forking, Building, Preparing
<1>10. ASSUME NEW b \in Box PROVE BoxInv(b)'
  <2>1. BoxInv(b)
    BY DEF VmInv
  <2>2. owner[b] # None => place'[b] = place[b]
    BY <1>3, <1>5, Names
  <2>3. ckpt[b] # None => ckpt[b] \in Work
    BY <1>0, Names DEF Places
  <2>4. ckpt[b] # None => place'[ckpt[b]] = place[ckpt[b]]
    BY <1>3, <1>5, <2>1, <2>3 DEF BoxInv
  <2> QED
    BY <1>1, <1>2, <1>4, <2>1, <2>2, <2>4 DEF BoxInv, At, Running
<1>11. VmTypeOK'
  <2>1. Places'
    BY <1>0 DEF ScavengeRemove, Goto, Places, Labels
  <2>2. files' \in [Dir -> Snapshot]
    BY <1>0, Emptiness DEF ScavengeRemove, Contents
  <2>3. Contents' /\ Counts'
    BY <1>0, <2>2 DEF ScavengeRemove, world, Contents, Counts
  <2> QED
    BY <2>1, <2>3, VmTypesAfter
<1> QED
  BY <1>6, <1>7, <1>8, <1>9, <1>10, <1>11, StepOf

LEMMA MakeWorkKeeps ==
  ASSUME VmInv, NEW p \in Host, NEW b \in Box, MakeWork(p, b)
  PROVE  VmInv'
<1>0. /\ Places /\ Contents /\ Counts /\ OneReaper /\ ForksHeld
      /\ Locals(p) /\ Claims(p) /\ Standing(p) /\ Retired(p) /\ Locked(p) /\ Bound(p)
  BY Before
<1>1. pc[p] = "work" /\ pc'[p] = "worklock" /\ \A q \in Host \ {p} : pc'[q] = pc[q]
  BY <1>0, Going DEF MakeWork, At
<1>2. box'[p] = b /\ \A q \in Host \ {p} : box'[q] = box[q]
  BY <1>0, Names DEF MakeWork, Places
<1>3. owner[b] = None /\ b \in Work /\ \A q \in Host : box[q] # b
  BY Names DEF MakeWork
<1>4. UNCHANGED <<relay, lock, vm, sess, ckpt, dir, orig, kids>>
  BY DEF MakeWork
<1>5. /\ \A x \in Work : x # b => place'[x] = place[x] /\ owner'[x] = owner[x]
      /\ owner'[b] = p
  BY <1>0, <1>3 DEF MakeWork, Places
<1>6. OneReaper'
  BY <1>0, <1>1, <1>2 DEF OneReaper, At
<1>7. ForksHeld'
  BY <1>0, <1>5, Names DEF ForksHeld
<1>8. ASSUME NEW q \in Host, q # p PROVE Spares(q)
  <2>1. pc[q] = "reap" => box[q] # b /\ box[q] \in Work
    BY <1>3 DEF VmInv, HostInv, Claims
  <2>2. \A x \in Work : owner[x] = q => x # b
    BY <1>3, <1>8, Names
  <2> QED
    BY <1>1, <1>2, <1>4, <1>5, <1>8, <2>1, <2>2 DEF Spares
<1>9. HostInv(p)'
  <2>1. /\ b \notin kids[p] /\ orig[p] # b /\ \A c \in kids[p] : c # b /\ c \in Work
        /\ p # None /\ b \notin Fork
    BY <1>0, <1>3, Names DEF Claims, Places
  <2>2. orig[p] # None => orig[p] \in Work
    BY <1>0, Names DEF Places
  <2>3. Locals(p)'
    BY <1>0, <1>1, <1>2, <1>4, <2>1 DEF Locals, Building, Preparing
  <2>4. Claims(p)'
    BY <1>0, <1>1, <1>2, <1>4, <1>5, <2>1, <2>2, Names DEF Claims, Forking, Building
  <2>5. Standing(p)'
    BY <1>0, <1>1, <1>2, <1>4, <1>5, <2>1, Names DEF Standing, Forking
  <2>6. Retired(p)' /\ Locked(p)' /\ Bound(p)'
    BY <1>0, <1>1, <1>4 DEF Retired, Locked, Bound, Running, Building, Preparing
  <2> QED
    BY <2>3, <2>4, <2>5, <2>6 DEF HostInv
<1>10. ASSUME NEW c \in Box PROVE BoxInv(c)'
  <2>1. BoxInv(c)
    BY DEF VmInv
  <2>2. ckpt[c] # None => ckpt[c] \in Work /\ ckpt[c] # b
    BY <1>0, Names DEF Places
  <2>3. c = b => ~Running(c) /\ ckpt[c] = None
    BY <1>3, <2>1 DEF BoxInv
  <2>4. c # b => place'[c] = place[c] /\ owner'[c] = owner[c]
    BY <1>5, Names
  <2> QED
    BY <1>1, <1>2, <1>4, <1>5, <2>1, <2>2, <2>3, <2>4 DEF BoxInv, At, Running
<1>11. VmTypeOK'
  <2>1. Places'
    BY <1>0, <1>3 DEF MakeWork, Goto, Places, Labels
  <2> QED
    BY <1>0, <2>1, ContentsKept, VmTypesAfter DEF MakeWork, world
<1> QED
  BY <1>6, <1>7, <1>8, <1>9, <1>10, <1>11, StepOf

LEMMA LockWorkKeeps ==
  ASSUME VmInv, NEW p \in Host, LockWork(p)
  PROVE  VmInv'
<1>0. /\ Places /\ Contents /\ Counts /\ OneReaper /\ ForksHeld
      /\ Locals(p) /\ Claims(p) /\ Standing(p) /\ Retired(p) /\ Locked(p) /\ Bound(p)
  BY Before
<1>1. pc[p] = "worklock" /\ pc'[p] = "restore" /\ \A q \in Host \ {p} : pc'[q] = pc[q]
  BY <1>0, Going DEF LockWork, At
<1>2. UNCHANGED <<relay, lock, owner, vm, sess, ckpt, dir, box, orig, kids>>
  BY DEF LockWork, local
<1>3. box[p] \in Box /\ owner[box[p]] = p /\ box[p] \in Work
  BY <1>0, <1>1, Names DEF Locals, Claims, Building
<1>4. /\ \A x \in Work : x # box[p] => place'[x] = place[x]
      /\ place'[box[p]] = "locked"
  BY <1>0, <1>3 DEF LockWork, Places
<1>5. OneReaper'
  BY <1>0, <1>1, <1>2 DEF OneReaper, At
<1>6. ForksHeld'
  BY <1>0, <1>2, <1>3, <1>4, Names DEF ForksHeld
<1>7. ASSUME NEW q \in Host, q # p PROVE Spares(q)
  <2>1. pc[q] = "reap" => box[q] # box[p] /\ box[q] \in Work
    BY <1>3, Names DEF VmInv, HostInv, Claims
  <2> QED
    BY <1>1, <1>2, <1>3, <1>4, <1>7, <2>1 DEF Spares
<1>8. HostInv(p)'
  <2>1. Locals(p)' /\ Claims(p)'
    BY <1>0, <1>1, <1>2 DEF Locals, Claims, Forking, Building, Preparing
  <2>2. Standing(p)'
    BY <1>0, <1>1, <1>2, <1>3, <1>4, Names DEF Standing, Forking
  <2>3. Retired(p)' /\ Locked(p)' /\ Bound(p)'
    BY <1>0, <1>1, <1>2 DEF Retired, Locked, Bound, Running, Building, Preparing
  <2> QED
    BY <2>1, <2>2, <2>3 DEF HostInv
<1>9. ASSUME NEW c \in Box PROVE BoxInv(c)'
  <2>1. BoxInv(c)
    BY DEF VmInv
  <2>2. ckpt[c] # None => ckpt[c] \in Work
    BY <1>0, Names DEF Places
  <2> QED
    BY <1>1, <1>2, <1>4, <2>1, <2>2, Names DEF BoxInv, At, Running
<1>10. VmTypeOK'
  <2>1. Places'
    BY <1>0 DEF LockWork, local, Goto, Places, Labels
  <2> QED
    BY <1>0, <2>1, ContentsKept, VmTypesAfter DEF LockWork, local, world
<1> QED
  BY <1>5, <1>6, <1>7, <1>8, <1>9, <1>10, StepOf

\* What a restore loads: the files' content, or a cold boot's.
Loaded(p) ==
  IF dir[p] = None
    THEN [rootfs |-> assets, state |-> "boot", relay |-> None, whole |-> TRUE]
    ELSE [files[dir[p]].vmstate EXCEPT !.whole = @ /\ files[dir[p]].mem = files[dir[p]].vmstate]

LEMMA LoadedIs ==
  ASSUME Places, Contents, NEW p \in Host
  PROVE  Loaded(p) \in Content /\ (dir[p] = None => Loaded(p).relay = None)
<1>1. CASE dir[p] = None
  <2>1. assets \in 0..MaxBuild
    BY VmAssumption DEF Contents, Builds
  <2> QED
    BY <1>1, <2>1 DEF Loaded, Content
<1>2. CASE dir[p] # None
  <2>1. files[dir[p]] \in Snapshot
    BY <1>2 DEF Places, Contents
  <2>2. files[dir[p]].vmstate \in Content
    BY <2>1 DEF Snapshot
  <2> QED
    BY <1>2, <2>2 DEF Loaded, Content
<1> QED
  BY <1>1, <1>2

LEMMA RestoreKeeps ==
  ASSUME VmInv, NEW p \in Host, Restore(p)
  PROVE  VmInv'
<1>0. /\ Places /\ Contents /\ Counts /\ OneReaper /\ ForksHeld
      /\ Locals(p) /\ Claims(p) /\ Standing(p) /\ Retired(p) /\ Locked(p) /\ Bound(p)
  BY Before
<1>1. pc[p] = "restore" /\ pc'[p] = "open" /\ \A q \in Host \ {p} : pc'[q] = pc[q]
  BY <1>0, Going DEF Restore, At
<1>2. UNCHANGED <<lock, place, owner, sess, ckpt, dir, box, orig, kids>>
  BY DEF Restore, local
<1>3. /\ box[p] \in Box /\ owner[box[p]] = p /\ place[box[p]] = "locked"
      /\ dir[p] # None => lock = p
  BY <1>0, <1>1 DEF Locals, Claims, Standing, Locked, Building
<1>4. /\ vm' = [vm EXCEPT ![box[p]] = Loaded(p)]
      /\ relay' = [d \in Dir |-> IF d = Loaded(p).relay THEN box[p] ELSE relay[d]]
  BY DEF Restore, Loaded
<1>5. PICK c \in Content : c = Loaded(p) /\ (dir[p] = None => c.relay = None)
  BY <1>0, LoadedIs
<1>6. vm'[box[p]] = c /\ \A b \in Box : b # box[p] => vm'[b] = vm[b]
  BY <1>0, <1>3, <1>4, <1>5 DEF Contents
<1>7. \A d \in Dir : relay'[d] = IF d = c.relay THEN box[p] ELSE relay[d]
  BY <1>4, <1>5
<1>8. OneReaper'
  BY <1>0, <1>1, <1>2 DEF OneReaper, At
<1>9. ForksHeld'
  BY <1>0, <1>2 DEF ForksHeld
<1>10. ASSUME NEW q \in Host, q # p PROVE Spares(q)
  <2>1. lock = q => \A d \in Dir : relay'[d] = relay[d]
    BY <1>3, <1>5, <1>7, <1>10, Names
  <2>2. \A b \in Box : owner[b] = q => vm'[b] = vm[b]
    BY <1>3, <1>6, <1>10
  <2> QED
    BY <1>1, <1>2, <1>10, <2>1, <2>2 DEF Spares
<1>11. HostInv(p)'
  <2>1. Locals(p)' /\ Claims(p)' /\ Standing(p)' /\ Locked(p)'
    BY <1>0, <1>1, <1>2 DEF Locals, Claims, Standing, Locked, Forking, Building, Preparing
  <2>2. orig[p] # None => vm'[orig[p]] = vm[orig[p]]
    BY <1>0, <1>6 DEF Locals, Places
  <2>3. Retired(p)'
    BY <1>0, <1>1, <1>2, <2>2 DEF Retired, Running, Building
  <2>4. c.relay # None => c.relay \in Dir /\ dir[p] # None
    BY <1>5 DEF Content
  <2>5. c.relay # None => relay'[c.relay] = box[p]
    BY <1>7, <2>4
  <2>6. Bound(p)'
    BY <1>2, <1>6, <2>4, <2>5 DEF Bound
  <2> QED
    BY <2>1, <2>3, <2>6 DEF HostInv
<1>12. ASSUME NEW b \in Box PROVE BoxInv(b)'
  <2>1. BoxInv(b)
    BY DEF VmInv
  <2>2. p # None
    BY Names
  <2> QED
    BY <1>1, <1>2, <1>3, <1>6, <2>1, <2>2 DEF BoxInv, At, Running
<1>13. VmTypeOK'
  <2>1. relay' \in [Dir -> Box \cup {None}]
    BY <1>0, <1>3, <1>4 DEF Places
  <2>2. Places'
    BY <1>0, <2>1 DEF Restore, local, Goto, Places, Labels
  <2>3. vm' \in [Box -> Content]
    BY <1>0, <1>4, <1>5 DEF Contents
  <2>4. Contents' /\ Counts'
    BY <1>0, <2>3 DEF Restore, local, world, Contents, Counts
  <2> QED
    BY <2>2, <2>4, VmTypesAfter
<1> QED
  BY <1>8, <1>9, <1>10, <1>11, <1>12, <1>13, StepOf

\* The session a process opens reaches the box it builds: nobody else has bound the
\* name since the restore.
LEMMA ReachesOwn ==
  ASSUME Places, Contents, NEW p \in Host, Locals(p), Bound(p), pc[p] \in {"open", "extra"},
         Reached(box[p]) # None
  PROVE  Reached(box[p]) = box[p] /\ box[p] \in Box
BY DEF Reached, Bound, Locals, Building

LEMMA OpenPrimaryKeeps ==
  ASSUME VmInv, NEW p \in Host, OpenPrimary(p)
  PROVE  VmInv'
<1>0. /\ Places /\ Contents /\ Counts /\ OneReaper /\ ForksHeld
      /\ Locals(p) /\ Claims(p) /\ Standing(p) /\ Retired(p) /\ Locked(p) /\ Bound(p)
  BY Before
<1>1. pc[p] = "open" /\ pc'[p] = "extra" /\ \A q \in Host \ {p} : pc'[q] = pc[q]
  BY <1>0, Going DEF OpenPrimary, At
<1>2. UNCHANGED <<relay, lock, place, owner, vm, ckpt, dir, box, orig, kids>>
  BY DEF OpenPrimary, local
<1>3. box[p] \in Box /\ sess' = [sess EXCEPT ![box[p]] = {box[p]}]
  BY <1>0, <1>1, ReachesOwn DEF OpenPrimary
<1>4. OneReaper'
  BY <1>0, <1>1, <1>2 DEF OneReaper, At
<1>5. ForksHeld'
  BY <1>0, <1>2 DEF ForksHeld
<1>6. \A q \in Host \ {p} : Spares(q)
  BY <1>1, <1>2 DEF Spares
<1>7. HostInv(p)'
  BY <1>0, <1>1, <1>2
     DEF HostInv, Locals, Claims, Standing, Retired, Locked, Bound, Forking, Building, Preparing,
         Running
<1>8. ASSUME NEW b \in Box PROVE BoxInv(b)'
  <2>1. BoxInv(b)
    BY DEF VmInv
  <2>2. sess'[b] \subseteq {b}
    BY <1>0, <1>3, <2>1 DEF BoxInv, Places
  <2> QED
    BY <1>1, <1>2, <2>1, <2>2 DEF BoxInv, At, Running
<1>9. VmTypeOK'
  <2>1. sess' \in [Box -> SUBSET Box]
    BY <1>0, <1>3 DEF Places
  <2>2. Places'
    BY <1>0, <2>1 DEF OpenPrimary, local, Goto, Places, Labels
  <2> QED
    BY <1>0, <2>2, ContentsKept, VmTypesAfter DEF OpenPrimary, local, world
<1> QED
  BY <1>4, <1>5, <1>6, <1>7, <1>8, <1>9, StepOf

-----------------------------------------------------------------------------
(* Forks and drops *)

LEMMA BeginForkKeeps ==
  ASSUME VmInv, NEW p \in Host, NEW b \in Box, NEW f \in Fork, BeginFork(p, b, f)
  PROVE  VmInv'
<1>0. /\ Places /\ Contents /\ Counts /\ OneReaper /\ ForksHeld
      /\ Locals(p) /\ Claims(p) /\ Standing(p) /\ Retired(p) /\ Locked(p) /\ Bound(p)
  BY Before
<1>1. pc[p] = "idle" /\ pc'[p] = "forklock" /\ \A q \in Host \ {p} : pc'[q] = pc[q]
  BY <1>0, Going DEF BeginFork, At
<1>2. UNCHANGED <<relay, lock, vm, sess, ckpt, box, kids>>
  BY DEF BeginFork
<1>3. /\ place[f] = "none" /\ owner[f] = None /\ f \in Work /\ f \in Dir /\ f # None
      /\ owner[b] = p /\ b # None /\ b # f /\ b \in Work
  BY <1>0, Names DEF BeginFork, Up, ForksHeld
<1>4. /\ \A x \in Work : x # f => place'[x] = place[x] /\ owner'[x] = owner[x]
      /\ place'[f] = "bare" /\ owner'[f] = p
  BY <1>0, <1>3 DEF BeginFork, Places
<1>5. /\ orig'[p] = b /\ dir'[p] = f
      /\ \A q \in Host \ {p} : orig'[q] = orig[q] /\ dir'[q] = dir[q]
  BY <1>0 DEF BeginFork, Places
<1>6. OneReaper'
  BY <1>0, <1>1, <1>2 DEF OneReaper, At
<1>7. ForksHeld'
  BY <1>0, <1>4, Names DEF ForksHeld
<1>8. ASSUME NEW q \in Host, q # p PROVE Spares(q)
  <2>1. pc[q] = "reap" => box[q] # f /\ box[q] \in Work
    BY <1>3 DEF VmInv, HostInv, Claims
  <2>2. \A x \in Work : owner[x] = q => x # f
    BY <1>3, Names
  <2> QED
    BY <1>1, <1>2, <1>4, <1>5, <1>8, <2>1, <2>2 DEF Spares
<1>9. \A c \in Box : ckpt[c] # f
  BY <1>3 DEF VmInv, BoxInv
<1>10. HostInv(p)'
  <2>1. box'[p] = None /\ kids'[p] = {}
    BY <1>0, <1>1, <1>2 DEF Locals, Building
  <2>2. owner'[b] = p
    BY <1>3, <1>4
  <2> QED
    BY <1>1, <1>2, <1>3, <1>4, <1>5, <1>9, <2>1, <2>2
       DEF HostInv, Locals, Claims, Standing, Retired, Locked, Bound, Forking, Building, Preparing
<1>11. ASSUME NEW c \in Box PROVE BoxInv(c)'
  <2>1. BoxInv(c)
    BY DEF VmInv
  <2>2. ckpt[c] # None => ckpt[c] \in Work /\ ckpt[c] # f
    BY <1>0, <1>9, Names DEF Places
  <2>3. place'[c] = place[c] /\ owner'[c] = owner[c]
    BY <1>4, Names
  <2> QED
    BY <1>1, <1>2, <1>4, <2>1, <2>2, <2>3 DEF BoxInv, At, Running
<1>12. VmTypeOK'
  <2>1. Places'
    BY <1>0, <1>3 DEF BeginFork, Goto, Places, Labels
  <2> QED
    BY <1>0, <2>1, ContentsKept, VmTypesAfter DEF BeginFork, world
<1> QED
  BY <1>6, <1>7, <1>8, <1>10, <1>11, <1>12, StepOf

LEMMA LockForkKeeps ==
  ASSUME VmInv, NEW p \in Host, LockFork(p)
  PROVE  VmInv'
<1>0. /\ Places /\ Contents /\ Counts /\ OneReaper /\ ForksHeld
      /\ Locals(p) /\ Claims(p) /\ Standing(p) /\ Retired(p) /\ Locked(p) /\ Bound(p)
  BY Before
<1>1. pc[p] = "forklock" /\ pc'[p] = "lock" /\ \A q \in Host \ {p} : pc'[q] = pc[q]
  BY <1>0, Going DEF LockFork, At
<1>2. UNCHANGED <<relay, lock, owner, vm, sess, ckpt, dir, box, orig, kids>>
  BY DEF LockFork, local
<1>3. dir[p] \in Work => place'[dir[p]] = "locked"
  BY <1>0 DEF LockFork, Places
<1>4. \A x \in Work : x # dir[p] => place'[x] = place[x]
  BY <1>0 DEF LockFork, Places
<1>5. \A x \in Work : x = dir[p] => owner[x] = p
  BY <1>0, <1>1, Names DEF Claims, Locals, Forking, Preparing
<1>6. OneReaper'
  BY <1>0, <1>1, <1>2 DEF OneReaper, At
<1>7. ForksHeld'
  BY <1>0, <1>2, <1>3, <1>4, Names DEF ForksHeld
<1>8. ASSUME NEW q \in Host, q # p PROVE Spares(q)
  <2>1. pc[q] = "reap" => box[q] # dir[p] /\ box[q] \in Work
    BY <1>5, Names DEF VmInv, HostInv, Claims
  <2> QED
    BY <1>1, <1>2, <1>4, <1>5, <1>8, <2>1 DEF Spares
<1>9. HostInv(p)'
  <2>1. Locals(p)' /\ Claims(p)'
    BY <1>0, <1>1, <1>2 DEF Locals, Claims, Forking, Building, Preparing
  <2>2. Standing(p)'
    BY <1>0, <1>1, <1>2, <1>3, Names DEF Standing, Forking
  <2>3. Retired(p)' /\ Locked(p)' /\ Bound(p)'
    BY <1>0, <1>1, <1>2 DEF Retired, Locked, Bound, Running, Building, Preparing
  <2> QED
    BY <2>1, <2>2, <2>3 DEF HostInv
<1>10. ASSUME NEW c \in Box PROVE BoxInv(c)'
  <2>1. BoxInv(c)
    BY DEF VmInv
  <2>2. ckpt[c] # None => ckpt[c] \in Work
    BY <1>0, Names DEF Places
  <2> QED
    BY <1>1, <1>2, <1>3, <1>4, <2>1, <2>2, Names DEF BoxInv, At, Running
<1>11. VmTypeOK'
  <2>1. Places'
    BY <1>0 DEF LockFork, local, Goto, Places, Labels
  <2> QED
    BY <1>0, <2>1, ContentsKept, VmTypesAfter DEF LockFork, local, world
<1> QED
  BY <1>6, <1>7, <1>8, <1>9, <1>10, <1>11, StepOf

LEMMA RetireOriginalKeeps ==
  ASSUME VmInv, NEW p \in Host, RetireOriginal(p)
  PROVE  VmInv'
<1>0. /\ Places /\ Contents /\ Counts /\ OneReaper /\ ForksHeld
      /\ Locals(p) /\ Claims(p) /\ Standing(p) /\ Retired(p) /\ Locked(p) /\ Bound(p)
  BY Before
<1>1. pc[p] = "retire" /\ pc'[p] = "ensure" /\ \A q \in Host \ {p} : pc'[q] = pc[q]
  BY <1>0, Going DEF RetireOriginal, At
<1>2. UNCHANGED <<lock, owner, ckpt, dir, box, orig, kids>>
  BY DEF RetireOriginal, local
<1>3. /\ \A x \in Work : x # orig[p] => place'[x] = place[x]
      /\ \A b \in Box : vm'[b] = IF b = orig[p] THEN NoFile ELSE vm[b]
      /\ \A b \in Box : sess'[b] = IF b = orig[p] THEN {} ELSE sess[b]
      /\ \A d \in Dir : relay'[d] \in {relay[d], None}
  BY <1>0 DEF RetireOriginal, Places, Contents
<1>4. \A x \in Work : x = orig[p] => owner[x] = p /\ x \in Box
  BY <1>0, Names DEF Claims, Places
<1>5. OneReaper'
  BY <1>0, <1>1, <1>2 DEF OneReaper, At
<1>6. ForksHeld'
  BY <1>0, <1>2, <1>3, <1>4, Names DEF ForksHeld
<1>7. ASSUME NEW q \in Host, q # p PROVE Spares(q)
  <2>1. pc[q] = "reap" => box[q] # orig[p] /\ box[q] \in Work
    BY <1>4, Names DEF VmInv, HostInv, Claims
  <2>2. \A b \in Box : owner[b] = q => vm'[b] = vm[b]
    BY <1>3, <1>4, <1>7, Names
  <2> QED
    BY <1>1, <1>2, <1>3, <1>4, <1>7, <2>1, <2>2 DEF Spares
<1>8. HostInv(p)'
  <2>1. Locals(p)' /\ Claims(p)' /\ Locked(p)' /\ Bound(p)'
    BY <1>0, <1>1, <1>2 DEF Locals, Claims, Locked, Bound, Forking, Building, Preparing
  <2>2. dir[p] \in Fork => place'[dir[p]] = place[dir[p]]
    BY <1>3, <1>4, Names
  <2>3. Standing(p)'
    BY <1>0, <1>1, <1>2, <2>2 DEF Standing, Forking
  <2>4. Retired(p)'
    BY <1>0, <1>1, <1>2, <1>3 DEF Retired, Running, Places
  <2> QED
    BY <2>1, <2>3, <2>4 DEF HostInv
<1>9. ASSUME NEW c \in Box PROVE BoxInv(c)'
  <2>1. BoxInv(c)
    BY DEF VmInv
  <2>2. ckpt[c] # None => ckpt[c] \in Work /\ ckpt[c] \notin Box
    BY <1>0, Names DEF Places
  <2>3. ckpt[c] # None => place'[ckpt[c]] = place[ckpt[c]]
    BY <1>3, <1>4, <2>2
  <2>4. c # orig[p] => place'[c] = place[c]
    BY <1>3, Names
  <2> QED
    BY <1>1, <1>2, <1>3, <2>1, <2>3, <2>4 DEF BoxInv, At, Running
<1>10. VmTypeOK'
  <2>1. relay' \in [Dir -> Box \cup {None}] /\ sess' \in [Box -> SUBSET Box]
    BY <1>0 DEF RetireOriginal, Places
  <2>2. Places'
    BY <1>0, <2>1 DEF RetireOriginal, local, Goto, Places, Labels
  <2>3. vm' \in [Box -> Content]
    BY <1>0, Emptiness DEF RetireOriginal, Contents
  <2>4. Contents' /\ Counts'
    BY <1>0, <2>3 DEF RetireOriginal, local, world, Contents, Counts
  <2> QED
    BY <2>2, <2>4, VmTypesAfter
<1> QED
  BY <1>5, <1>6, <1>7, <1>8, <1>9, <1>10, StepOf

LEMMA DropWorkKeeps ==
  ASSUME VmInv, NEW p \in Host, NEW b \in Box, DropWork(p, b)
  PROVE  VmInv'
<1>0. /\ Places /\ Contents /\ Counts /\ OneReaper /\ ForksHeld
      /\ Locals(p) /\ Claims(p) /\ Standing(p) /\ Retired(p) /\ Locked(p) /\ Bound(p)
  BY Before
<1>1. pc[p] = "idle" /\ pc'[p] = "kill" /\ \A q \in Host \ {p} : pc'[q] = pc[q]
  BY <1>0, Going DEF DropWork, At
<1>2. UNCHANGED <<relay, lock, owner, vm, sess, ckpt, dir, orig, kids>>
  BY DEF DropWork
<1>3. owner[b] = p /\ b \in Work
  BY Names DEF DropWork, Up
<1>4. \A x \in Work : x # b => place'[x] = place[x]
  BY <1>0 DEF DropWork, Places
<1>5. box'[p] = b /\ \A q \in Host \ {p} : box'[q] = box[q]
  BY <1>0, <1>3 DEF DropWork, Places
<1>6. OneReaper'
  BY <1>0, <1>1, <1>5 DEF OneReaper, At
<1>7. ForksHeld'
  BY <1>0, <1>2, <1>4, Names DEF ForksHeld
<1>8. ASSUME NEW q \in Host, q # p PROVE Spares(q)
  <2>1. pc[q] = "reap" => box[q] # b /\ box[q] \in Work
    BY <1>3, Names DEF VmInv, HostInv, Claims
  <2> QED
    BY <1>1, <1>2, <1>3, <1>4, <1>5, <1>8, <2>1 DEF Spares
<1>9. HostInv(p)'
  <2>1. orig'[p] = None /\ kids'[p] = {} /\ dir'[p] \notin Fork
    BY <1>0, <1>1, <1>2 DEF Locals
  <2> QED
    BY <1>1, <1>2, <1>3, <1>5, <2>1
       DEF HostInv, Locals, Claims, Standing, Retired, Locked, Bound, Forking, Building, Preparing
<1>10. ASSUME NEW c \in Box PROVE BoxInv(c)'
  <2>1. BoxInv(c)
    BY DEF VmInv
  <2>2. ckpt[c] # None => ckpt[c] \in Work /\ ckpt[c] # b
    BY <1>0, Names DEF Places
  <2>3. c # b => place'[c] = place[c]
    BY <1>4, Names
  <2> QED
    BY <1>1, <1>2, <1>4, <1>5, <2>1, <2>2, <2>3 DEF BoxInv, At, Running
<1>11. VmTypeOK'
  <2>1. Places'
    BY <1>0, <1>3 DEF DropWork, Goto, Places, Labels
  <2> QED
    BY <1>0, <2>1, ContentsKept, VmTypesAfter DEF DropWork, world
<1> QED
  BY <1>6, <1>7, <1>8, <1>9, <1>10, <1>11, StepOf

-----------------------------------------------------------------------------
(* Steps that give things up *)

\* A step of p that touches only what p owns.
Only(p) ==
  /\ \A w \in Work : owner[w] # p => owner'[w] = owner[w] /\ place'[w] = place[w]
  /\ \A b \in Box : owner[b] # p => vm'[b] = vm[b] /\ ckpt'[b] = ckpt[b] /\ sess'[b] = sess[b]
  /\ \A b \in Box : ckpt'[b] \in {ckpt[b], None} \/ owner[ckpt'[b]] = p
  /\ \A d \in Dir : relay'[d] \in {relay[d], None}
  /\ \A q \in Host \ {p} : /\ pc'[q] = pc[q] /\ dir'[q] = dir[q] /\ box'[q] = box[q]
                           /\ orig'[q] = orig[q] /\ kids'[q] = kids[q]
                           /\ lock = q => lock' = q
  /\ pc'[p] # "reap"

LEMMA KillerOwns ==
  ASSUME VmInv, NEW q \in Host, pc[q] = "kill"
  PROVE  owner[box[q]] = q
BY DEF VmInv, HostInv, Claims

\* Then the others notice nothing, and what is left to show is about p's own things.
LEMMA OwnStep ==
  ASSUME VmInv, NEW p \in Host, Only(p), VmTypeOK', HostInv(p)',
         \A f \in Fork : owner[f] = p /\ place'[f] = "none" => owner'[f] = None,
         \A b \in Box : owner[b] = p => BoxInv(b)'
  PROVE  VmInv'
<1>0. Places /\ OneReaper /\ ForksHeld
  BY Before
<1>1. ASSUME NEW q \in Host, q # p PROVE Spares(q)
  <2>1. pc[q] = "reap" => box[q] \in Work /\ owner[box[q]] # p
    BY Names DEF VmInv, HostInv, Claims
  <2>2. \A b \in Box : ckpt'[b] \in {ckpt[b], None} \/ owner[ckpt'[b]] # q
    BY <1>1 DEF Only
  <2>3. \A w \in Work : owner[w] = q => owner'[w] = q /\ place'[w] = place[w]
    BY <1>1 DEF Only
  <2>4. \A b \in Box : owner[b] = q => vm'[b] = vm[b]
    BY <1>1 DEF Only
  <2>5. \A d \in Dir : relay'[d] \in {relay[d], None}
    BY DEF Only
  <2>6. /\ pc'[q] = pc[q] /\ dir'[q] = dir[q] /\ box'[q] = box[q]
        /\ orig'[q] = orig[q] /\ kids'[q] = kids[q] /\ (lock = q => lock' = q)
    BY <1>1 DEF Only
  <2>7. pc[q] = "reap" => owner'[box[q]] = owner[box[q]] /\ place'[box[q]] = place[box[q]]
    BY <2>1 DEF Only
  <2> QED
    BY <2>2, <2>3, <2>4, <2>5, <2>6, <2>7 DEF Spares
<1>2. OneReaper'
  BY <1>0 DEF OneReaper, Only, At
<1>3. ForksHeld'
  <2>1. ASSUME NEW f \in Fork, owner[f] # p, place'[f] = "none" PROVE owner'[f] = None
    BY <1>0, <2>1, Names DEF ForksHeld, Only
  <2> QED
    BY <2>1 DEF ForksHeld
<1>4. ASSUME NEW b \in Box, owner[b] # p PROVE BoxInv(b)'
  <2>1. BoxInv(b)
    BY DEF VmInv
  <2>2. vm'[b] = vm[b] /\ ckpt'[b] = ckpt[b] /\ sess'[b] = sess[b]
    BY <1>4 DEF Only
  <2>3. owner'[b] = owner[b] /\ place'[b] = place[b]
    BY <1>4, Names DEF Only
  <2>4. ckpt[b] # None => ckpt[b] \in Work /\ owner[ckpt[b]] # p
    BY <1>0, <1>4, <2>1, Names DEF BoxInv, Places
  <2>5. ckpt[b] # None => owner'[ckpt[b]] = owner[ckpt[b]] /\ place'[ckpt[b]] = place[ckpt[b]]
    BY <2>4 DEF Only
  <2>6. ASSUME NEW q \in Host, pc[q] = "kill", box[q] = b PROVE pc'[q] = "kill" /\ box'[q] = b
    <3>1. q # p
      BY <1>4, <2>6, KillerOwns
    <3> QED
      BY <2>6, <3>1 DEF Only
  <2> QED
    BY <2>1, <2>2, <2>3, <2>5, <2>6 DEF BoxInv, At, Running
<1> QED
  BY <1>1, <1>2, <1>3, <1>4, StepOf

\* After the call has returned nothing of p is under way.
LEMMA Left ==
  ASSUME Places, Contents, NEW p \in Host, Leave(p)
  PROVE  /\ HostInv(p)' /\ pc'[p] = "idle"
         /\ \A q \in Host \ {p} : /\ pc'[q] = pc[q] /\ dir'[q] = dir[q] /\ box'[q] = box[q]
                                  /\ orig'[q] = orig[q] /\ kids'[q] = kids[q]
                                  /\ lock = q => lock' = q
         /\ lock' \in Host \cup {None} /\ pc' \in [Host -> Labels]
         /\ dir' \in [Host -> Dir \cup {None}] /\ box' \in [Host -> Work \cup {None}]
         /\ orig' \in [Host -> Box \cup {None}] /\ kids' \in [Host -> SUBSET Box]
         /\ staged' \in [Host -> 0..MaxBuild]
<1>1. pc'[p] = "idle" /\ \A q \in Host \ {p} : pc'[q] = pc[q]
  BY Going DEF Leave
<1>2. dir'[p] = None /\ box'[p] = None /\ orig'[p] = None /\ kids'[p] = {}
  BY DEF Leave, Places
<1>3. \A q \in Host \ {p} : /\ dir'[q] = dir[q] /\ box'[q] = box[q]
                            /\ orig'[q] = orig[q] /\ kids'[q] = kids[q]
                            /\ lock = q => lock' = q
  BY DEF Leave, Places
<1>4. HostInv(p)'
  BY <1>1, <1>2, Names
     DEF HostInv, Locals, Claims, Standing, Retired, Locked, Bound, Forking, Building, Preparing
<1>5. /\ lock' \in Host \cup {None} /\ pc' \in [Host -> Labels]
      /\ dir' \in [Host -> Dir \cup {None}] /\ box' \in [Host -> Work \cup {None}]
      /\ orig' \in [Host -> Box \cup {None}] /\ kids' \in [Host -> SUBSET Box]
  BY DEF Leave, Goto, Places, Labels
<1>6. staged' \in [Host -> 0..MaxBuild]
  BY VmAssumption DEF Leave, Contents
<1> QED
  BY <1>1, <1>3, <1>4, <1>5, <1>6

\* The checkpoints whose last sibling is one of p's boxes are p's.
LEMMA LastIsOwn ==
  ASSUME VmInv, NEW p \in Host, NEW S \in SUBSET Box, \A b \in S : owner[b] = p
  PROVE  \A f \in LastOf(S) : f \in Fork /\ owner[f] = p
BY Names DEF LastOf, VmInv, BoxInv

LEMMA CrashKeeps ==
  ASSUME VmInv, NEW p \in Host, Crash(p)
  PROVE  VmInv'
<1>0. Places /\ Contents /\ Counts
  BY Before
<1>1. Leave(p)
  BY DEF Crash
<1>2. /\ HostInv(p)' /\ pc'[p] = "idle"
      /\ \A q \in Host \ {p} : /\ pc'[q] = pc[q] /\ dir'[q] = dir[q] /\ box'[q] = box[q]
                               /\ orig'[q] = orig[q] /\ kids'[q] = kids[q]
                               /\ lock = q => lock' = q
  BY <1>0, <1>1, Left
<1>3. /\ place' = place /\ relay' = relay
      /\ \A w \in Work : owner'[w] = IF owner[w] = p THEN None ELSE owner[w]
  BY DEF Crash
<1>4. \A b \in Box : /\ vm'[b] = IF owner[b] = p THEN NoFile ELSE vm[b]
                     /\ sess'[b] = IF owner[b] = p THEN {} ELSE sess[b]
                     /\ ckpt'[b] = IF owner[b] = p THEN None ELSE ckpt[b]
  BY DEF Crash
<1>5. Only(p)
  <2>1. \A w \in Work : owner[w] # p => owner'[w] = owner[w] /\ place'[w] = place[w]
    BY <1>3
  <2>2. \A b \in Box : owner[b] # p => vm'[b] = vm[b] /\ ckpt'[b] = ckpt[b] /\ sess'[b] = sess[b]
    BY <1>4
  <2>3. \A b \in Box : ckpt'[b] \in {ckpt[b], None}
    BY <1>4
  <2> QED
    BY <1>2, <1>3, <2>1, <2>2, <2>3 DEF Only
<1>6. \A f \in Fork : owner[f] = p /\ place'[f] = "none" => owner'[f] = None
  BY <1>3, Names
<1>7. \A b \in Box : owner[b] = p => BoxInv(b)'
  BY <1>4 DEF BoxInv, Running
<1>8. VmTypeOK'
  <2>1. /\ lock' \in Host \cup {None} /\ pc' \in [Host -> Labels]
        /\ dir' \in [Host -> Dir \cup {None}] /\ box' \in [Host -> Work \cup {None}]
        /\ orig' \in [Host -> Box \cup {None}] /\ kids' \in [Host -> SUBSET Box]
        /\ staged' \in [Host -> 0..MaxBuild]
    BY <1>0, <1>1, Left
  <2>2. owner' \in [Work -> Host \cup {None}]
    BY <1>0 DEF Crash, Places
  <2>3. sess' \in [Box -> SUBSET Box] /\ ckpt' \in [Box -> Fork \cup {None}]
    BY <1>0 DEF Crash, Places
  <2>4. swept' \subseteq Host
    BY <1>0 DEF Crash, Places
  <2>5. Places'
    BY <1>0, <1>3, <2>1, <2>2, <2>3, <2>4 DEF Places
  <2>6. vm' \in [Box -> Content]
    BY <1>0, Emptiness DEF Crash, Contents
  <2>7. Contents'
    BY <1>0, <2>1, <2>6 DEF Crash, Contents
  <2>8. torn' \in BOOLEAN
    BY Zenon DEF Crash
  <2>9. crashes' \in 0..MaxFaults /\ rebuilds' \in 0..MaxFaults
    BY <1>0, VmAssumption DEF Crash, Counts
  <2> QED
    BY <2>5, <2>7, <2>8, <2>9, VmTypesAfter DEF Counts
<1> QED
  BY <1>2, <1>5, <1>6, <1>7, <1>8, OwnStep

LEMMA RebuildKeeps ==
  ASSUME VmInv, NEW v \in Builds, Rebuild(v)
  PROVE  VmInv'
<1>0. Places /\ Contents /\ Counts
  BY VmTypesSplit DEF VmInv
<1>1. UNCHANGED <<files, relay, lock, place, owner, vm, sess, ckpt, pc, dir, box, orig, kids,
                  staged, swept>>
  BY DEF Rebuild, local
<1>2. VmTypeOK'
  <2>1. Places' /\ Contents'
    BY <1>0, <1>1 DEF Rebuild, Places, Contents
  <2>2. rebuilds' \in 0..MaxFaults
    BY <1>0, VmAssumption DEF Rebuild, Counts
  <2>3. Counts'
    BY <1>0, <2>2 DEF Rebuild, Counts
  <2> QED
    BY <2>1, <2>3, VmTypesAfter
<1>3. OneReaper' /\ ForksHeld'
  BY <1>1 DEF VmInv, OneReaper, ForksHeld, At
<1>4. \A p \in Host : HostInv(p)'
  BY <1>1 DEF VmInv, HostInv, Locals, Claims, Standing, Retired, Locked, Bound, Forking, Running
<1>5. \A b \in Box : BoxInv(b)'
  BY <1>1 DEF VmInv, BoxInv, Running, At
<1> QED
  BY <1>2, <1>3, <1>4, <1>5 DEF VmInv

LEMMA FailsKeeps ==
  ASSUME VmInv, NEW p \in Host, Fails(p)
  PROVE  VmInv'
<1>0. /\ Places /\ Contents /\ Counts /\ ForksHeld
      /\ Locals(p) /\ Claims(p) /\ Standing(p)
  BY Before
<1> DEFINE S == ({box[p], orig[p]} \cup kids[p]) \ {None}
           F == LastOf(S) \cup IF At(p, "lock") THEN {} ELSE {dir[p]} \cap Fork
<1>1. /\ TakeDown(S, F) /\ Leave(p) /\ UNCHANGED <<swept, assets, crashes, rebuilds, torn>>
      /\ owner' = [w \in Work |-> IF w \in S \cup F \cup {dir[p]} THEN None ELSE owner[w]]
      /\ pc[p] \in {"lock", "ensure", "boot", "dump", "dumped", "stamp", "retire", "worklock",
                    "restore", "open", "extra", "forklock"}
  BY Zenon DEF Fails, world
<1>2. S \in SUBSET Box /\ \A b \in S : owner[b] = p
  <2>1. box[p] # None => box[p] \in Box /\ owner[box[p]] = p
    BY <1>0, <1>1 DEF Locals, Claims, Building
  <2>2. orig[p] # None => orig[p] \in Box /\ owner[orig[p]] = p
    BY <1>0 DEF Claims, Places
  <2>3. kids[p] \subseteq Box /\ \A b \in kids[p] : owner[b] = p
    BY <1>0 DEF Claims, Places
  <2> QED
    BY <2>1, <2>2, <2>3
<1>3. \A b \in kids[p] : b \in S
  BY <1>0, Names DEF Places
<1>4. dir[p] \in Fork => owner[dir[p]] = p /\ \A b \in Box : ckpt[b] = dir[p] => b \in S
  BY <1>0, <1>1, <1>3 DEF Claims, Standing, Forking
<1> HIDE DEF S
<1>5. \A f \in LastOf(S) : f \in Fork /\ owner[f] = p
  BY <1>2, LastIsOwn
<1>6. F \subseteq Fork /\ \A f \in F : owner[f] = p /\ \A b \in Box \ S : ckpt[b] # f
  BY <1>4, <1>5 DEF LastOf
<1> HIDE DEF F
<1>7. /\ \A w \in Work : place'[w] = IF w \in S \cup F THEN "none" ELSE place[w]
      /\ \A b \in Box : vm'[b] = IF b \in S THEN NoFile ELSE vm[b]
      /\ \A b \in Box : sess'[b] = IF b \in S THEN {} ELSE sess[b]
      /\ \A b \in Box : ckpt'[b] = IF b \in S THEN None ELSE ckpt[b]
      /\ \A d \in Dir : relay'[d] = IF relay[d] \in S THEN None ELSE relay[d]
      /\ \A w \in Work : owner'[w] = IF w \in S \cup F \cup {dir[p]} THEN None ELSE owner[w]
  BY <1>1 DEF TakeDown
<1>8. /\ HostInv(p)' /\ pc'[p] = "idle"
      /\ \A q \in Host \ {p} : /\ pc'[q] = pc[q] /\ dir'[q] = dir[q] /\ box'[q] = box[q]
                               /\ orig'[q] = orig[q] /\ kids'[q] = kids[q]
                               /\ lock = q => lock' = q
  BY <1>0, <1>1, Left
<1>9. dir[p] \in Work => dir[p] \in Fork
  BY <1>0, Names DEF Places
<1>10. Only(p)
  <2>1. \A w \in Work : w \in S \cup F \cup {dir[p]} => owner[w] = p
    BY <1>2, <1>4, <1>6, <1>9
  <2>2. \A w \in Work : owner[w] # p => owner'[w] = owner[w] /\ place'[w] = place[w]
    BY <1>7, <2>1
  <2>3. \A b \in Box : owner[b] # p => vm'[b] = vm[b] /\ ckpt'[b] = ckpt[b] /\ sess'[b] = sess[b]
    BY <1>2, <1>7
  <2>4. \A b \in Box : ckpt'[b] \in {ckpt[b], None}
    BY <1>7
  <2>5. \A d \in Dir : relay'[d] \in {relay[d], None}
    BY <1>7
  <2> QED
    BY <1>8, <2>2, <2>3, <2>4, <2>5 DEF Only
<1>11. \A f \in Fork : owner[f] = p /\ place'[f] = "none" => owner'[f] = None
  BY <1>0, <1>7, Names DEF ForksHeld
<1>12. ASSUME NEW b \in Box, owner[b] = p PROVE BoxInv(b)'
  <2>1. CASE b \in S
    BY <1>7, <2>1 DEF BoxInv, Running
  <2>2. CASE b \notin S
    <3>1. BoxInv(b)
      BY DEF VmInv
    <3>2. b \notin S \cup F \cup {dir[p]} /\ b \in Work
      BY <1>6, <1>9, <2>2, Names
    <3>3. vm'[b] = vm[b] /\ sess'[b] = sess[b] /\ ckpt'[b] = ckpt[b]
          /\ place'[b] = place[b] /\ owner'[b] = owner[b]
      BY <1>7, <2>2, <3>2
    <3>4. ASSUME ckpt[b] # None
          PROVE  place'[ckpt[b]] = place[ckpt[b]] /\ owner'[ckpt[b]] = owner[ckpt[b]]
      <4>1. ckpt[b] \in Fork /\ ckpt[b] \in Work /\ ckpt[b] \notin S
        BY <1>0, <1>2, <3>4, Names DEF Places
      <4>2. ckpt[b] \notin F /\ ckpt[b] # dir[p]
        BY <1>4, <1>6, <2>2, <4>1
      <4> QED
        BY <1>7, <4>1, <4>2
    <3>5. \A q \in Host : pc[q] = "kill" => box[q] # b
      BY <1>1, <1>12, KillerOwns
    <3> QED
      BY <3>1, <3>3, <3>4, <3>5 DEF BoxInv, Running, At
  <2> QED
    BY <2>1, <2>2
<1>13. VmTypeOK'
  <2>1. /\ lock' \in Host \cup {None} /\ pc' \in [Host -> Labels]
        /\ dir' \in [Host -> Dir \cup {None}] /\ box' \in [Host -> Work \cup {None}]
        /\ orig' \in [Host -> Box \cup {None}] /\ kids' \in [Host -> SUBSET Box]
        /\ staged' \in [Host -> 0..MaxBuild]
    BY <1>0, <1>1, Left
  <2>2. owner' \in [Work -> Host \cup {None}]
    BY <1>0, <1>1 DEF Places
  <2>3. sess' \in [Box -> SUBSET Box] /\ ckpt' \in [Box -> Fork \cup {None}]
    BY <1>0, <1>1 DEF TakeDown, Places
  <2>4. relay' \in [Dir -> Box \cup {None}] /\ place' \in [Work -> {"none", "bare", "locked"}]
    BY <1>0, <1>1 DEF TakeDown, Places
  <2>5. Places'
    BY <1>0, <1>1, <2>1, <2>2, <2>3, <2>4 DEF Places
  <2>6. vm' \in [Box -> Content] /\ files' \in [Dir -> Snapshot]
    BY <1>0, <1>1, Emptiness DEF TakeDown, Contents
  <2>7. Contents' /\ Counts'
    BY <1>0, <1>1, <2>1, <2>6 DEF Contents, Counts
  <2> QED
    BY <2>5, <2>7, VmTypesAfter
<1> QED
  BY <1>8, <1>10, <1>11, <1>12, <1>13, OwnStep

\* The end of a drop, the VM being gone.
LEMMA DropEndsKeeps ==
  ASSUME VmInv, NEW p \in Host, pc[p] \in {"kill", "unlink"}, DropEnds(p),
         vm' \in [Box -> Content], sess' \in [Box -> SUBSET Box],
         relay' \in [Dir -> Box \cup {None}],
         vm'[box[p]] = NoFile, sess'[box[p]] = {} \/ sess'[box[p]] = sess[box[p]],
         \A b \in Box : b # box[p] => vm'[b] = vm[b] /\ sess'[b] = sess[b],
         \A d \in Dir : relay'[d] \in {relay[d], None}
  PROVE  VmInv'
<1>0. /\ Places /\ Contents /\ Counts /\ ForksHeld
      /\ Locals(p) /\ Claims(p) /\ Standing(p)
  BY Before
<1>1. box[p] \in Box /\ owner[box[p]] = p /\ box[p] \in Work
  BY <1>0, Names DEF Locals, Claims
<1>2. \A f \in LastOf({box[p]}) : f \in Fork /\ owner[f] = p
  BY <1>1, LastIsOwn
<1>3. PICK F : F = LastOf({box[p]})
  OBVIOUS
<1>4. F \subseteq Fork /\ \A f \in F : owner[f] = p /\ \A b \in Box : b # box[p] => ckpt[b] # f
  BY <1>2, <1>3 DEF LastOf
<1>5. /\ place' = [w \in Work |-> IF w \in F THEN "none" ELSE place[w]]
      /\ files' = [d \in Dir |-> IF d \in F THEN Empty ELSE files[d]]
      /\ owner' = [w \in Work |-> IF w \in F \cup {box[p]} THEN None ELSE owner[w]]
      /\ ckpt' = [ckpt EXCEPT ![box[p]] = None]
      /\ Leave(p) /\ UNCHANGED <<swept, assets, crashes, rebuilds, torn>>
  BY <1>3 DEF DropEnds, world
<1>6. /\ \A w \in Work : place'[w] = IF w \in F THEN "none" ELSE place[w]
      /\ \A w \in Work : owner'[w] = IF w \in F \cup {box[p]} THEN None ELSE owner[w]
      /\ \A b \in Box : ckpt'[b] = IF b = box[p] THEN None ELSE ckpt[b]
  BY <1>0, <1>5 DEF Places
<1>7. /\ HostInv(p)' /\ pc'[p] = "idle"
      /\ \A q \in Host \ {p} : /\ pc'[q] = pc[q] /\ dir'[q] = dir[q] /\ box'[q] = box[q]
                               /\ orig'[q] = orig[q] /\ kids'[q] = kids[q]
                               /\ lock = q => lock' = q
  BY <1>0, <1>5, Left
<1>8. Only(p)
  <2>1. \A w \in Work : owner[w] # p => owner'[w] = owner[w] /\ place'[w] = place[w]
    BY <1>1, <1>4, <1>6
  <2>2. \A b \in Box : owner[b] # p => vm'[b] = vm[b] /\ ckpt'[b] = ckpt[b] /\ sess'[b] = sess[b]
    BY <1>1, <1>6
  <2>3. \A b \in Box : ckpt'[b] \in {ckpt[b], None}
    BY <1>6
  <2> QED
    BY <1>7, <2>1, <2>2, <2>3 DEF Only
<1>9. \A f \in Fork : owner[f] = p /\ place'[f] = "none" => owner'[f] = None
  BY <1>0, <1>6, Names DEF ForksHeld
<1>10. ASSUME NEW b \in Box, owner[b] = p PROVE BoxInv(b)'
  <2>1. BoxInv(b)
    BY DEF VmInv
  <2>2. CASE b = box[p]
    BY <1>6, <2>1, <2>2 DEF BoxInv, Running
  <2>3. CASE b # box[p]
    <3>1. b \notin F \cup {box[p]} /\ b \in Work
      BY <1>4, <2>3, Names
    <3>2. vm'[b] = vm[b] /\ sess'[b] = sess[b] /\ ckpt'[b] = ckpt[b]
          /\ place'[b] = place[b] /\ owner'[b] = owner[b]
      BY <1>6, <2>3, <3>1
    <3>3. ASSUME ckpt[b] # None
          PROVE  place'[ckpt[b]] = place[ckpt[b]] /\ owner'[ckpt[b]] = owner[ckpt[b]]
      <4>1. ckpt[b] \in Fork /\ ckpt[b] \in Work /\ ckpt[b] # box[p]
        BY <1>0, <1>1, <3>3, Names DEF Places
      <4>2. ckpt[b] \notin F
        BY <1>4, <2>3
      <4> QED
        BY <1>6, <4>1, <4>2
    <3>4. \A q \in Host : pc[q] = "kill" => box[q] # b
      BY <1>10, <2>3, KillerOwns
    <3> QED
      BY <2>1, <3>2, <3>3, <3>4 DEF BoxInv, Running, At
  <2> QED
    BY <2>2, <2>3
<1>11. VmTypeOK'
  <2>1. /\ lock' \in Host \cup {None} /\ pc' \in [Host -> Labels]
        /\ dir' \in [Host -> Dir \cup {None}] /\ box' \in [Host -> Work \cup {None}]
        /\ orig' \in [Host -> Box \cup {None}] /\ kids' \in [Host -> SUBSET Box]
        /\ staged' \in [Host -> 0..MaxBuild]
    BY <1>0, <1>5, Left
  <2>2. /\ owner' \in [Work -> Host \cup {None}] /\ ckpt' \in [Box -> Fork \cup {None}]
        /\ place' \in [Work -> {"none", "bare", "locked"}]
    BY <1>0, <1>5 DEF Places
  <2>3. Places'
    BY <1>0, <1>5, <2>1, <2>2 DEF Places
  <2>4. files' \in [Dir -> Snapshot]
    BY <1>0, <1>5, Emptiness DEF Contents
  <2>5. Contents' /\ Counts'
    BY <1>0, <1>5, <2>1, <2>4 DEF Contents, Counts
  <2> QED
    BY <2>3, <2>5, VmTypesAfter
<1> QED
  BY <1>7, <1>8, <1>9, <1>10, <1>11, OwnStep

LEMMA UnlinkKeeps ==
  ASSUME VmInv, NEW p \in Host, Unlink(p)
  PROVE  VmInv'
<1>0. Places /\ Contents /\ Retired(p) /\ Locals(p)
  BY Before
<1>1. pc[p] = "unlink" /\ DropEnds(p) /\ UNCHANGED <<vm, sess>>
  BY DEF Unlink, At
<1>2. box[p] \in Box /\ vm[box[p]] = NoFile
  BY <1>0, <1>1 DEF Retired, Running, Locals
<1>3. relay' \in [Dir -> Box \cup {None}] /\ \A d \in Dir : relay'[d] \in {relay[d], None}
  BY <1>0 DEF Unlink, Places
<1>4. vm' \in [Box -> Content] /\ sess' \in [Box -> SUBSET Box]
  BY <1>0, <1>1 DEF Places, Contents
<1> QED
  BY <1>1, <1>2, <1>3, <1>4, DropEndsKeeps

LEMMA KillVmKeeps ==
  ASSUME VmInv, NEW p \in Host, KillVm(p)
  PROVE  VmInv'
<1>0. /\ Places /\ Contents /\ Counts /\ ForksHeld
      /\ Locals(p) /\ Claims(p) /\ Standing(p)
  BY Before
<1>1. /\ pc[p] = "kill" /\ vm' = [vm EXCEPT ![box[p]] = NoFile]
      /\ sess' = [sess EXCEPT ![box[p]] = {}] /\ relay' = relay
  BY DEF KillVm, At
<1>2. box[p] \in Box /\ owner[box[p]] = p
  BY <1>0, <1>1 DEF Locals, Claims
<1>3. /\ vm' \in [Box -> Content] /\ sess' \in [Box -> SUBSET Box]
      /\ vm'[box[p]] = NoFile /\ sess'[box[p]] = {}
      /\ \A b \in Box : b # box[p] => vm'[b] = vm[b] /\ sess'[b] = sess[b]
  BY <1>0, <1>1, <1>2, Emptiness DEF Places, Contents
<1>4. relay' \in [Dir -> Box \cup {None}] /\ \A d \in Dir : relay'[d] \in {relay[d], None}
  BY <1>0, <1>1 DEF Places
<1>5. CASE DropEnds(p)
  BY <1>1, <1>3, <1>4, <1>5, DropEndsKeeps
<1>6. CASE ~DropEnds(p)
  <2>1. PICK d \in Dir : dir' = [dir EXCEPT ![p] = d]
    BY <1>6 DEF KillVm
  <2>2. /\ Goto(p, "unlink")
        /\ UNCHANGED <<files, lock, place, owner, ckpt, box, orig, kids, staged, swept, assets,
                       crashes, rebuilds, torn>>
    BY <1>6 DEF KillVm, world
  <2>3. pc'[p] = "unlink" /\ \A q \in Host \ {p} : pc'[q] = pc[q]
    BY <1>0, <2>2, Going
  <2>4. dir'[p] = d /\ \A q \in Host \ {p} : dir'[q] = dir[q]
    BY <1>0, <2>1 DEF Places
  <2>5. Only(p)
    BY <1>2, <1>3, <1>4, <2>2, <2>3, <2>4 DEF Only
  <2>6. \A f \in Fork : owner[f] = p /\ place'[f] = "none" => owner'[f] = None
    BY <1>0, <2>2 DEF ForksHeld
  <2>7. HostInv(p)'
    <3>1. orig'[p] = None /\ kids'[p] = {} /\ box'[p] = box[p] /\ owner' = owner
      BY <1>0, <1>1, <2>2 DEF Locals
    <3> QED
      BY <1>2, <1>3, <2>3, <2>4, <3>1
         DEF HostInv, Locals, Claims, Standing, Retired, Locked, Bound, Forking, Building,
             Preparing, Running
  <2>8. ASSUME NEW b \in Box, owner[b] = p PROVE BoxInv(b)'
    <3>1. BoxInv(b)
      BY DEF VmInv
    <3>2. CASE b = box[p]
      BY <1>3, <2>2, <3>1, <3>2 DEF BoxInv, Running
    <3>3. CASE b # box[p]
      <4>1. \A q \in Host : pc[q] = "kill" => box[q] # b
        BY <2>8, <3>3, KillerOwns
      <4> QED
        BY <1>3, <2>2, <3>1, <3>3, <4>1 DEF BoxInv, Running, At
    <3> QED
      BY <3>2, <3>3
  <2>9. VmTypeOK'
    <3>1. dir' \in [Host -> Dir \cup {None}] /\ pc' \in [Host -> Labels]
      BY <1>0, <2>1, <2>2 DEF Places, Goto, Labels
    <3>2. Places'
      BY <1>0, <1>3, <1>4, <2>2, <3>1 DEF Places
    <3>3. Contents' /\ Counts'
      BY <1>0, <1>3, <2>2 DEF Contents, Counts
    <3> QED
      BY <3>2, <3>3, VmTypesAfter
  <2> QED
    BY <2>5, <2>6, <2>7, <2>8, <2>9, OwnStep
<1> QED
  BY <1>5, <1>6

LEMMA OpenExtraKeeps ==
  ASSUME VmInv, NEW p \in Host, OpenExtra(p)
  PROVE  VmInv'
<1>0. /\ Places /\ Contents /\ Counts /\ ForksHeld
      /\ Locals(p) /\ Claims(p) /\ Standing(p) /\ Retired(p) /\ Locked(p) /\ Bound(p)
  BY Before
<1> DEFINE b == box[p]
           forking == dir[p] \in Fork
           ready == ~forking \/ kids[p] # {}
           D == IF forking /\ ready THEN {orig[p]} ELSE {}
           S == [ckpt EXCEPT ![b] = IF forking THEN dir[p] ELSE None]
           F == {f \in LastOf(D) : \A c \in Box \ D : S[c] # f}
<1>1. pc[p] = "extra" /\ b \in Box /\ owner[b] = p /\ place[b] = "locked" /\ b \in Work
  BY <1>0, Names DEF OpenExtra, At, Locals, Claims, Standing, Building
<1>2. /\ Reached(b) # None
      /\ sess' = [sess EXCEPT ![b] = @ \cup {Reached(b)}]
      /\ ckpt' = [c \in Box |-> IF c \in D THEN None ELSE S[c]]
      /\ owner' = [w \in Work |-> IF w \in D \cup F THEN None ELSE owner[w]]
      /\ place' = [w \in Work |-> IF w \in F THEN "none" ELSE place[w]]
      /\ files' = [d \in Dir |-> IF d \in F THEN Empty ELSE files[d]]
      /\ \/ ready /\ Leave(p)
         \/ /\ ~ready
            /\ kids' = [kids EXCEPT ![p] = @ \cup {b}]
            /\ box' = [box EXCEPT ![p] = None]
            /\ Goto(p, "ensure")
            /\ UNCHANGED <<lock, dir, orig, staged>>
      /\ UNCHANGED <<relay, vm, swept, assets, crashes, rebuilds, torn>>
  BY Zenon DEF OpenExtra, world
<1>3. Reached(b) = b
  BY <1>0, <1>1, <1>2, ReachesOwn
<1>4. \A c \in Box : S[c] = IF c = b THEN (IF forking THEN dir[p] ELSE None) ELSE ckpt[c]
  BY <1>0, <1>1 DEF Places
<1> HIDE DEF S
<1>5. \A c \in D : c = orig[p] /\ c # b /\ c \in Box /\ owner[c] = p /\ ~Running(c)
  BY <1>0, <1>1 DEF Locals, Claims, Retired, Building, Places
<1>6. D \in SUBSET Box
  BY <1>5
<1>7. F \subseteq Fork /\ \A f \in F : owner[f] = p /\ \A c \in Box \ D : S[c] # f
  <2>1. \A f \in LastOf(D) : f \in Fork /\ owner[f] = p
    BY <1>5, <1>6, LastIsOwn
  <2> QED
    BY <2>1
<1>8. b \notin D /\ (forking => dir[p] \notin F)
  BY <1>1, <1>4, <1>5, <1>7
<1>9. D # {} => ready
  OBVIOUS
<1> HIDE DEF D, F
<1>10. /\ \A c \in Box : sess'[c] = IF c = b THEN sess[c] \cup {c} ELSE sess[c]
       /\ \A c \in Box : ckpt'[c] = IF c \in D THEN None ELSE S[c]
       /\ \A w \in Work : owner'[w] = IF w \in D \cup F THEN None ELSE owner[w]
       /\ \A w \in Work : place'[w] = IF w \in F THEN "none" ELSE place[w]
  BY <1>0, <1>1, <1>2, <1>3 DEF Places
<1>11. forking => owner[dir[p]] = p /\ place[dir[p]] = "locked"
  BY <1>0, <1>1 DEF Claims, Standing, Forking
<1>12. /\ pc'[p] # "reap"
       /\ \A q \in Host \ {p} : /\ pc'[q] = pc[q] /\ dir'[q] = dir[q] /\ box'[q] = box[q]
                                /\ orig'[q] = orig[q] /\ kids'[q] = kids[q]
                                /\ lock = q => lock' = q
  <2>1. CASE Leave(p)
    BY <1>0, <2>1, Left
  <2>2. CASE ~Leave(p)
    <3>1. Goto(p, "ensure")
      BY <1>2, <2>2
    <3> QED
      BY <1>0, <1>2, <2>2, <3>1, Going DEF Places
  <2> QED
    BY <2>1, <2>2
<1>13. Only(p)
  <2>1. \A w \in Work : owner[w] # p => owner'[w] = owner[w] /\ place'[w] = place[w]
    BY <1>5, <1>7, <1>10
  <2>2. \A c \in Box : owner[c] # p => c # b /\ c \notin D
    BY <1>1, <1>5
  <2>3. \A c \in Box : owner[c] # p => vm'[c] = vm[c] /\ ckpt'[c] = ckpt[c] /\ sess'[c] = sess[c]
    BY <1>2, <1>4, <1>10, <2>2
  <2>4. \A c \in Box : ckpt'[c] \in {ckpt[c], None} \/ owner[ckpt'[c]] = p
    BY <1>4, <1>10, <1>11
  <2>5. \A d \in Dir : relay'[d] \in {relay[d], None}
    BY <1>2
  <2> QED
    BY <1>12, <2>1, <2>3, <2>4, <2>5 DEF Only
<1>14. \A f \in Fork : owner[f] = p /\ place'[f] = "none" => owner'[f] = None
  BY <1>0, <1>7, <1>10, Names DEF ForksHeld
<1>15. ASSUME NEW c \in Box, owner[c] = p PROVE BoxInv(c)'
  <2>1. BoxInv(c)
    BY DEF VmInv
  <2>2. c \in Work /\ c \notin F
    BY <1>7, Names
  <2>3. place'[c] = place[c] /\ sess'[c] \subseteq {c} /\ vm'[c] = vm[c]
    <3>1. sess[c] \subseteq {c}
      BY <2>1 DEF BoxInv
    <3>2. sess'[c] \subseteq {c}
      BY <1>10, <3>1
    <3> QED
      BY <1>2, <1>10, <2>2, <3>2
  <2>4. CASE c \in D
    BY <1>5, <1>10, <2>3, <2>4 DEF BoxInv, Running
  <2>5. CASE c \notin D
    <3>1. owner'[c] = p /\ ckpt'[c] = S[c] /\ p # None
      BY <1>10, <1>15, <2>2, <2>5, Names
    <3>2. \A q \in Host : pc[q] = "kill" => box[q] # c
      BY <1>1, <1>15, KillerOwns
    <3>3. Running(c) => place[c] = "locked"
      BY <2>1, <3>2 DEF BoxInv, At
    <3>4. ASSUME S[c] # None
          PROVE  owner'[S[c]] = p /\ place'[S[c]] = "locked"
      <4>1. S[c] \in Fork /\ owner[S[c]] = p /\ place[S[c]] = "locked"
        BY <1>0, <1>4, <1>11, <1>15, <2>1, <3>4 DEF BoxInv, Places
      <4>2. S[c] \notin F /\ S[c] \notin D /\ S[c] \in Work
        BY <1>5, <1>7, <2>5, <4>1, Names
      <4> QED
        BY <1>10, <4>1, <4>2
    <3> QED
      BY <2>3, <3>1, <3>3, <3>4 DEF BoxInv, Running
  <2> QED
    BY <2>4, <2>5
<1>16. HostInv(p)'
  <2>1. CASE Leave(p)
    BY <1>0, <2>1, Left
  <2>2. CASE ~Leave(p)
    <3>1. /\ ~ready /\ kids' = [kids EXCEPT ![p] = @ \cup {b}] /\ box' = [box EXCEPT ![p] = None]
          /\ Goto(p, "ensure") /\ UNCHANGED <<lock, dir, orig, vm>>
      BY <1>2, <2>2
    <3>2. D = {} /\ F = {}
      BY <1>9, <3>1 DEF D, F, LastOf
    <3>3. kids'[p] = {b} /\ box'[p] = None /\ pc'[p] = "ensure" /\ forking
      BY <1>0, <3>1, Going DEF Places
    <3>4. /\ \A w \in Work : owner'[w] = owner[w] /\ place'[w] = place[w]
          /\ \A c \in Box : ckpt'[c] = S[c]
      BY <1>10, <3>2
    <3>5. dir[p] \in Work /\ dir[p] \in Dir /\ dir[p] # None /\ b # None /\ kids[p] = {}
      BY <1>1, <3>1, Names
    <3>6. orig[p] # None /\ orig[p] \in Box /\ orig[p] \in Work /\ orig[p] # b
      BY <1>0, <1>1, <3>3, Names DEF Locals, Places
    <3>7. \A c \in Box : ckpt'[c] = dir[p] => c = b
      BY <1>0, <1>1, <1>4, <3>3, <3>4, <3>5 DEF Standing, Forking
    <3>8. lock = p
      BY <1>0, <1>1, <3>5 DEF Locked, Building
    <3>9. Locals(p)'
      BY <1>1, <3>1, <3>3, <3>5, <3>6 DEF Locals, Building
    <3>10. Claims(p)'
      BY <1>0, <1>1, <1>11, <3>1, <3>3, <3>4, <3>5, <3>6 DEF Claims, Forking, Building
    <3>11. Standing(p)'
      BY <1>11, <3>1, <3>3, <3>4, <3>5, <3>7 DEF Standing, Forking
    <3>12. Retired(p)' /\ Locked(p)' /\ Bound(p)'
      BY <1>0, <1>1, <3>1, <3>3, <3>8 DEF Retired, Locked, Bound, Running, Building
    <3> QED
      BY <3>9, <3>10, <3>11, <3>12 DEF HostInv
  <2> QED
    BY <2>1, <2>2
<1>17. VmTypeOK'
  <2>1. /\ lock' \in Host \cup {None} /\ pc' \in [Host -> Labels]
        /\ dir' \in [Host -> Dir \cup {None}] /\ box' \in [Host -> Work \cup {None}]
        /\ orig' \in [Host -> Box \cup {None}] /\ kids' \in [Host -> SUBSET Box]
        /\ staged' \in [Host -> 0..MaxBuild]
    <3>1. CASE Leave(p)
      BY <1>0, <3>1, Left
    <3>2. CASE ~Leave(p)
      <4>1. /\ kids' = [kids EXCEPT ![p] = @ \cup {b}] /\ box' = [box EXCEPT ![p] = None]
            /\ Goto(p, "ensure") /\ UNCHANGED <<lock, dir, orig, staged>>
        BY <1>2, <3>2
      <4> QED
        BY <1>0, <1>1, <4>1 DEF Places, Contents, Goto, Labels
    <3> QED
      BY <3>1, <3>2
  <2>2. /\ owner' \in [Work -> Host \cup {None}]
        /\ place' \in [Work -> {"none", "bare", "locked"}]
    BY <1>0, <1>2 DEF Places
  <2>3. ckpt' \in [Box -> Fork \cup {None}]
    <3>1. \A c \in Box : S[c] \in Fork \cup {None}
      BY <1>0, <1>4 DEF Places
    <3> QED
      BY <1>2, <3>1
  <2>4. sess' \in [Box -> SUBSET Box]
    BY <1>0, <1>1, <1>2, <1>3 DEF Places
  <2>5. Places'
    BY <1>0, <1>2, <2>1, <2>2, <2>3, <2>4 DEF Places
  <2>6. files' \in [Dir -> Snapshot]
    BY <1>0, <1>2, Emptiness DEF Contents
  <2>7. Contents' /\ Counts'
    BY <1>0, <1>2, <2>1, <2>6 DEF Contents, Counts
  <2> QED
    BY <2>5, <2>7, VmTypesAfter
<1> QED
  BY <1>13, <1>14, <1>15, <1>16, <1>17, OwnStep

-----------------------------------------------------------------------------
(* The theorems about sandboxes *)

LEMMA VmStart == VmInit => VmInv
<1> SUFFICES ASSUME VmInit PROVE VmInv
  OBVIOUS
<1>1. Places
  BY Names DEF VmInit, Places, Labels
<1>2. Contents
  <2>1. 0 \in 0..MaxBuild /\ 1 \in 1..MaxBuild
    BY VmAssumption
  <2> QED
    BY <2>1, Emptiness DEF VmInit, Contents, Builds
<1>3. Counts
  <2>1. torn \in BOOLEAN
    BY Zenon DEF VmInit
  <2> QED
    BY <2>1, VmAssumption DEF VmInit, Counts
<1>4. OneReaper /\ ForksHeld
  BY Names DEF VmInit, OneReaper, ForksHeld, At
<1>5. ASSUME NEW p \in Host PROVE HostInv(p)
  BY Names DEF VmInit, HostInv, Locals, Claims, Standing, Retired, Locked, Bound, Forking,
               Building, Preparing
<1>6. ASSUME NEW b \in Box PROVE BoxInv(b)
  BY DEF VmInit, BoxInv, Running
<1> QED
  BY <1>1, <1>2, <1>3, <1>4, <1>5, <1>6, VmTypesSplit DEF VmInv

LEMMA VmStep ==
  ASSUME VmInv, [VmNext]_vars
  PROVE  VmInv'
<1>1. CASE UNCHANGED vars
  <2>1. UNCHANGED <<assets, files, relay, lock, place, owner, vm, sess, ckpt, pc, dir, box, orig,
                    kids, staged, swept, crashes, rebuilds, torn>>
    BY <1>1 DEF vars
  <2>2. VmTypeOK'
    BY <2>1 DEF VmInv, VmTypeOK
  <2>3. OneReaper' /\ ForksHeld'
    BY <2>1 DEF VmInv, OneReaper, ForksHeld, At
  <2>4. \A p \in Host : HostInv(p)'
    BY <2>1 DEF VmInv, HostInv, Locals, Claims, Standing, Retired, Locked, Bound, Forking, Running
  <2>5. \A b \in Box : BoxInv(b)'
    BY <2>1 DEF VmInv, BoxInv, Running, At
  <2> QED
    BY <2>2, <2>3, <2>4, <2>5 DEF VmInv
<1>2. ASSUME NEW v \in Builds, Rebuild(v) PROVE VmInv'
  BY <1>2, RebuildKeeps
<1>3. ASSUME NEW p \in Host, NEW d \in {Base, None}, Create(p, d) PROVE VmInv'
  BY <1>3, CreateKeeps
<1>4. ASSUME NEW p \in Host, NEW w \in Work, ScavengeTake(p, w) PROVE VmInv'
  BY <1>4, ScavengeTakeKeeps
<1>5. ASSUME NEW p \in Host, NEW b \in Box, MakeWork(p, b) \/ DropWork(p, b) PROVE VmInv'
  BY <1>5, MakeWorkKeeps, DropWorkKeeps
<1>6. ASSUME NEW p \in Host, NEW b \in Box, NEW f \in Fork, BeginFork(p, b, f) PROVE VmInv'
  BY <1>6, BeginForkKeeps
<1>7. ASSUME NEW p \in Host,
             ScavengeRemove(p) \/ ScavengeDone(p) \/ AcquireDir(p) \/ Fails(p) \/ Crash(p)
      PROVE  VmInv'
  BY <1>7, ScavengeRemoveKeeps, ScavengeDoneKeeps, AcquireDirKeeps, FailsKeeps, CrashKeeps
<1>8. ASSUME NEW p \in Host,
             \/ Reuse(p) \/ Prepare(p) \/ Discard(p) \/ Boot(p) \/ Dump(p) \/ DumpEnds(p)
             \/ Stamp(p)
      PROVE  VmInv'
  BY <1>8, ReuseKeeps, DiscardKeeps, BootKeeps, DumpKeeps, StampKeeps
<1>9. ASSUME NEW p \in Host,
             LockWork(p) \/ Restore(p) \/ OpenPrimary(p) \/ OpenExtra(p)
      PROVE  VmInv'
  BY <1>9, LockWorkKeeps, RestoreKeeps, OpenPrimaryKeeps, OpenExtraKeeps
<1>10. ASSUME NEW p \in Host, LockFork(p) \/ RetireOriginal(p) \/ KillVm(p) \/ Unlink(p)
       PROVE  VmInv'
  BY <1>10, LockForkKeeps, RetireOriginalKeeps, KillVmKeeps, UnlinkKeeps
<1> QED
  BY <1>1, <1>2, <1>3, <1>4, <1>5, <1>6, <1>7, <1>8, <1>9, <1>10 DEF VmNext

\* The inductive invariant of the sandboxes of a host (provider.rs), for any number of
\* processes, sandboxes, forks, kills and rebuilds.
THEOREM VmInductive == VmSpec => []VmInv
BY VmStart, VmStep, PTL DEF VmSpec

\* Every variable keeps its type.
THEOREM VmTypes == VmSpec => []VmTypeOK
BY VmInductive, PTL DEF VmInv

\* However scavengers, forks, drops and kills overlap, a sandbox in use keeps its work
\* directory and a fork's checkpoint stays until its last sibling is gone
\* (scavenge_stale_in, ForkCheckpoint).
THEOREM DirsStand == VmSpec => []UsedDirsStand
<1>1. VmInv => UsedDirsStand
  BY DEF VmInv, BoxInv, UsedDirsStand, At
<1> QED
  BY <1>1, VmInductive, PTL

\* Every session of a pool reaches the VM of its own sandbox, although the sandboxes of
\* a shard hand one baked relay name to each other (restore_and_open).
THEOREM PoolsReachOwn == VmSpec => []PoolReachesOwnVm
<1>1. VmInv => PoolReachesOwnVm
  BY DEF VmInv, BoxInv, PoolReachesOwnVm
<1> QED
  BY <1>1, VmInductive, PTL

-----------------------------------------------------------------------------
(* What is restored: snapshots are whole, and a fork continues its original *)

\* A snapshot that may be loaded; the checkpoint f of a fork.
Good(s) == s.vmstate.whole /\ s.mem = s.vmstate
Copy(c, f) == c.state = f /\ c.relay # None
Checkpoint(s, f) == Copy(s.vmstate, f) /\ Copy(s.mem, f)

\* A fork directory that is not there has no files.
ForksBare == \A f \in Fork : place[f] = "none" => files[f] = Empty

\* A box that is being built has no checkpoint yet.
Plain(p) == pc[p] \in Building => ckpt[box[p]] = None

\* A snapshot has no identity.json while it is prepared, is whole when it gets one,
\* and whole when a VM is loaded from it.
Tidy(p) ==
  /\ pc[p] \in {"boot", "dump", "dumped", "stamp"} => files[dir[p]].ident = 0
  /\ dir[p] \in Fork /\ pc[p] \in {"forklock", "lock"} => files[dir[p]].ident = 0
  /\ pc[p] = "stamp" => Good(files[dir[p]])
  /\ pc[p] \in {"work", "worklock", "restore"} /\ dir[p] # None => Good(files[dir[p]])

\* identity.json marks a snapshot whole, unless it is being discarded.
Earned(d) ==
  files[d].ident # 0 => Good(files[d]) \/ \E p \in Host : pc[p] = "discard" /\ dir[p] = d

\* A fork never prepares its directory anew: until it is retired the original is there to
\* be copied, then its checkpoint is, with the identity of the assets.
Copied(p) ==
  Forking(p) =>
    /\ pc[p] \notin {"discard", "boot"}
    /\ pc[p] \in {"forklock", "lock", "dump", "dumped", "stamp", "retire"} =>
         vm[orig[p]].relay # None
    /\ pc[p] \in {"stamp", "retire", "ensure", "work"} \cup Building =>
         Checkpoint(files[dir[p]], dir[p])
    /\ pc[p] \in {"retire", "ensure", "work"} \cup Building => files[dir[p]].ident = assets
    /\ pc[p] \in {"open", "extra"} => vm[box[p]].state = dir[p]

Whole(b) == Running(b) => vm[b].whole
Continues(b) == ckpt[b] # None /\ Running(b) => vm[b].state = ckpt[b]

SnapInv ==
  /\ ForksBare /\ \A p \in Host : Plain(p)
  /\ ~torn => /\ \A p \in Host : Tidy(p)
              /\ \A d \in Dir : Earned(d)
              /\ \A b \in Box : Whole(b)
  /\ rebuilds = 0 => (\A p \in Host : Copied(p)) /\ (\A b \in Box : Continues(b))

-----------------------------------------------------------------------------
(* What a step of one process leaves to the others *)

Filling == {"discard", "dump", "dumped", "stamp"}

\* A step of p writes the snapshot it prepares and removes fork directories that are its
\* own or nobody's, and leaves the boxes of others alone.
Reach(p) ==
  /\ \A q \in Host \ {p} : /\ pc'[q] = pc[q] /\ dir'[q] = dir[q] /\ box'[q] = box[q]
                           /\ orig'[q] = orig[q]
  /\ \A b \in Box : owner[b] \in {p, None} \/ (vm'[b] = vm[b] /\ ckpt'[b] = ckpt[b])
  /\ \A d \in Dir : \/ files'[d] = files[d]
                    \/ d = dir[p] /\ pc[p] \in Filling
                    \/ d \in Fork /\ owner[d] \in {p, None}

\* Who restores from a directory, or forks into one, finds it as it left it.
LEMMA FilesKept ==
  ASSUME VmInv, NEW p \in Host, Reach(p), NEW q \in Host, q # p, dir[q] \in Dir,
         pc[q] # "unlink",
         dir[q] \in Fork \/ pc[q] \in Preparing \cup Building \cup {"work"}
  PROVE  files'[dir[q]] = files[dir[q]]
<1>1. Locked(p) /\ Locked(q) /\ Claims(p) /\ Claims(q) /\ p # None /\ q # None
  BY Before, Names
<1>2. dir[q] \in Fork => owner[dir[q]] = q
  BY <1>1 DEF Claims, Forking
<1>3. ASSUME dir[q] = dir[p], pc[p] \in Filling PROVE FALSE
  <2>1. CASE dir[q] \in Fork
    <3>1. owner[dir[p]] = p
      BY <1>1, <1>3, <2>1 DEF Claims, Forking, Filling
    <3> QED
      BY <1>2, <1>3, <2>1, <3>1
  <2>2. CASE dir[q] \notin Fork
    <3>1. lock = q
      BY <1>1, <2>2, Names DEF Locked
    <3>2. lock = p
      BY <1>1, <1>3 DEF Locked, Filling, Preparing
    <3> QED
      BY <3>1, <3>2
  <2> QED
    BY <2>1, <2>2
<1>4. ~(dir[q] \in Fork /\ owner[dir[q]] \in {p, None})
  BY <1>1, <1>2
<1> QED
  BY <1>3, <1>4 DEF Reach

\* The boxes a process works on stay as they are.
LEMMA BoxesKept ==
  ASSUME VmInv, NEW p \in Host, Reach(p), NEW q \in Host, q # p
  PROVE  /\ orig[q] # None => vm'[orig[q]] = vm[orig[q]]
         /\ pc[q] \in Building =>
              vm'[box[q]] = vm[box[q]] /\ ckpt'[box[q]] = ckpt[box[q]]
<1>1. Claims(q) /\ Places /\ Locals(q) /\ q # None
  BY Before, Names
<1>2. orig[q] # None => orig[q] \in Box /\ owner[orig[q]] = q
  BY <1>1 DEF Claims, Places
<1>3. pc[q] \in Building => box[q] \in Box /\ owner[box[q]] = q
  BY <1>1 DEF Claims, Locals
<1> QED
  BY <1>1, <1>2, <1>3 DEF Reach

LEMMA PlainElsewhere ==
  ASSUME VmInv, NEW p \in Host, Reach(p), NEW q \in Host, q # p, Plain(q)
  PROVE  Plain(q)'
BY BoxesKept DEF Plain, Reach

LEMMA TidyElsewhere ==
  ASSUME VmInv, NEW p \in Host, Reach(p), NEW q \in Host, q # p, Tidy(q)
  PROVE  Tidy(q)'
<1>1. Places /\ Locals(q)
  BY Before
<1>2. pc'[q] = pc[q] /\ dir'[q] = dir[q]
  BY DEF Reach
<1>3. pc[q] \in {"boot", "dump", "dumped", "stamp"} => files'[dir[q]] = files[dir[q]]
  BY <1>1, FilesKept DEF Locals, Preparing
<1>4. dir[q] \in Fork /\ pc[q] \in {"forklock", "lock"} => files'[dir[q]] = files[dir[q]]
  BY FilesKept, Names
<1>5. pc[q] \in {"work", "worklock", "restore"} /\ dir[q] # None
        => files'[dir[q]] = files[dir[q]]
  BY <1>1, FilesKept DEF Building, Places
<1> QED
  BY <1>2, <1>3, <1>4, <1>5 DEF Tidy

LEMMA CopiedElsewhere ==
  ASSUME VmInv, NEW p \in Host, Reach(p), NEW q \in Host, q # p, Copied(q), assets' = assets
  PROVE  Copied(q)'
<1>1. Places /\ Locals(q)
  BY Before
<1>2. pc'[q] = pc[q] /\ dir'[q] = dir[q] /\ orig'[q] = orig[q] /\ box'[q] = box[q]
  BY DEF Reach
<1>3. Forking(q)' <=> Forking(q)
  BY <1>2 DEF Forking
<1>4. Forking(q) => files'[dir[q]] = files[dir[q]] /\ vm'[orig[q]] = vm[orig[q]]
  BY <1>1, FilesKept, BoxesKept, Names DEF Forking, Locals
<1>5. pc[q] \in {"open", "extra"} => vm'[box[q]] = vm[box[q]]
  BY BoxesKept DEF Building
<1> QED
  BY <1>2, <1>3, <1>4, <1>5 DEF Copied

\* What is left to show of a step of p.
LEMMA SnapStep ==
  ASSUME VmInv, SnapInv, NEW p \in Host, Reach(p), ForksBare', Plain(p)',
         ~torn' => ~torn, rebuilds' = 0 => rebuilds = 0 /\ assets' = assets,
         ~torn' => Tidy(p)', rebuilds' = 0 => Copied(p)',
         ~torn' => \A d \in Dir :
           \/ Earned(d)' \/ files'[d] = Empty
           \/ files'[d] = files[d] /\ ~(pc[p] = "discard" /\ dir[p] = d),
         ~torn' => \A b \in Box : Whole(b)',
         rebuilds' = 0 => \A b \in Box : Continues(b)'
  PROVE  SnapInv'
<1>1. \A q \in Host : Plain(q)'
  BY PlainElsewhere DEF SnapInv
<1>2. ASSUME ~torn' PROVE \A q \in Host : Tidy(q)'
  BY <1>2, TidyElsewhere DEF SnapInv
<1>3. ASSUME ~torn', NEW d \in Dir PROVE Earned(d)'
  <2>1. CASE files'[d] = Empty
    BY <2>1 DEF Earned, Empty
  <2>2. CASE files'[d] = files[d] /\ ~(pc[p] = "discard" /\ dir[p] = d)
    <3>1. Earned(d)
      BY <1>3 DEF SnapInv
    <3>2. ASSUME NEW q \in Host, pc[q] = "discard", dir[q] = d
          PROVE  pc'[q] = "discard" /\ dir'[q] = d
      BY <2>2, <3>2 DEF Reach
    <3> QED
      BY <2>2, <3>1, <3>2 DEF Earned
  <2> QED
    BY <1>3, <2>1, <2>2
<1>4. ASSUME rebuilds' = 0 PROVE \A q \in Host : Copied(q)'
  BY <1>4, CopiedElsewhere DEF SnapInv
<1> QED
  BY <1>1, <1>2, <1>3, <1>4 DEF SnapInv

\* VMs and checkpoints that only go away.
LEMMA BoxesGo ==
  ASSUME SnapInv, ~torn' => ~torn, rebuilds' = 0 => rebuilds = 0,
         \A b \in Box : vm'[b] \in {vm[b], NoFile} /\ ckpt'[b] \in {ckpt[b], None}
  PROVE  /\ ~torn' => \A b \in Box : Whole(b)'
         /\ rebuilds' = 0 => \A b \in Box : Continues(b)'
<1>1. ASSUME ~torn', NEW b \in Box PROVE Whole(b)'
  <2>1. Whole(b)
    BY <1>1 DEF SnapInv
  <2> QED
    BY <2>1 DEF Whole, Running
<1>2. ASSUME rebuilds' = 0, NEW b \in Box PROVE Continues(b)'
  <2>1. Continues(b)
    BY <1>2 DEF SnapInv
  <2> QED
    BY <2>1 DEF Continues, Running
<1> QED
  BY <1>1, <1>2

\* A step that leaves files and VMs alone.
LEMMA Quietly ==
  ASSUME VmInv, SnapInv, NEW p \in Host,
         UNCHANGED <<assets, files, vm, ckpt, rebuilds, torn>>,
         \A q \in Host \ {p} : /\ pc'[q] = pc[q] /\ dir'[q] = dir[q] /\ box'[q] = box[q]
                               /\ orig'[q] = orig[q],
         \A f \in Fork : place'[f] = "none" => place[f] = "none",
         pc[p] # "discard", Plain(p)', ~torn => Tidy(p)', rebuilds = 0 => Copied(p)'
  PROVE  SnapInv'
<1>1. Reach(p)
  BY DEF Reach
<1>2. ForksBare'
  BY DEF SnapInv, ForksBare
<1>3. /\ ~torn' => \A b \in Box : Whole(b)'
      /\ rebuilds' = 0 => \A b \in Box : Continues(b)'
  BY BoxesGo
<1> QED
  BY <1>1, <1>2, <1>3, SnapStep

\* Nothing is asked of a process that is idle.
LEMMA IdleSnap ==
  ASSUME NEW p \in Host, pc'[p] = "idle", dir'[p] = None
  PROVE  Plain(p)' /\ Tidy(p)' /\ Copied(p)'
BY Names DEF Plain, Tidy, Copied, Forking, Building

\* A call that returns and takes down boxes and fork directories of its process.
LEMMA Quitting ==
  ASSUME VmInv, SnapInv, NEW p \in Host, Leave(p), NEW F \in SUBSET Fork,
         \A f \in F : owner[f] = p,
         \A d \in Dir : files'[d] = IF d \in F THEN Empty ELSE files[d],
         \A f \in Fork : f \notin F => place'[f] = place[f],
         \A b \in Box : owner[b] = p \/ (vm'[b] = vm[b] /\ ckpt'[b] = ckpt[b]),
         \A b \in Box : vm'[b] \in {vm[b], NoFile} /\ ckpt'[b] \in {ckpt[b], None},
         pc[p] # "discard", UNCHANGED <<assets, rebuilds, torn>>
  PROVE  SnapInv'
<1>0. Places /\ Contents
  BY Before
<1>1. /\ pc'[p] = "idle" /\ dir'[p] = None
      /\ \A q \in Host \ {p} : /\ pc'[q] = pc[q] /\ dir'[q] = dir[q] /\ box'[q] = box[q]
                               /\ orig'[q] = orig[q]
  <2>1. dir'[p] = None
    BY <1>0 DEF Leave, Places
  <2> QED
    BY <1>0, <2>1, Left
<1>2. Plain(p)' /\ Tidy(p)' /\ Copied(p)'
  BY <1>1, IdleSnap
<1>3. Reach(p)
  BY <1>1 DEF Reach
<1>4. ForksBare'
  BY Names DEF SnapInv, ForksBare
<1>5. /\ ~torn' => \A b \in Box : Whole(b)'
      /\ rebuilds' = 0 => \A b \in Box : Continues(b)'
  BY BoxesGo
<1>6. \A d \in Dir : \/ files'[d] = Empty
                     \/ files'[d] = files[d] /\ ~(pc[p] = "discard" /\ dir[p] = d)
  OBVIOUS
<1> QED
  BY <1>2, <1>3, <1>4, <1>5, <1>6, SnapStep

-----------------------------------------------------------------------------
(* The invariant of the snapshots, step by step *)

LEMMA CreateSnap ==
  ASSUME VmInv, SnapInv, NEW p \in Host, NEW d \in {Base, None}, Create(p, d)
  PROVE  SnapInv'
<1>0. Places /\ Locals(p)
  BY Before
<1>1. pc[p] = "idle" /\ (pc'[p] = "scan" \/ (d = None /\ pc'[p] = "work")
                          \/ (d # None /\ pc'[p] = "lock"))
      /\ \A q \in Host \ {p} : pc'[q] = pc[q]
  BY <1>0, Going DEF Create, At
<1>2. dir'[p] = d /\ (\A q \in Host \ {p} : dir'[q] = dir[q]) /\ d \notin Fork
  BY <1>0, Names DEF Create, Places, Work
<1>3. Plain(p)' /\ Tidy(p)' /\ Copied(p)'
  BY <1>1, <1>2 DEF Plain, Tidy, Copied, Forking, Building
<1>4. UNCHANGED <<assets, files, vm, ckpt, rebuilds, torn, place, box, orig>>
  BY DEF Create, world
<1> QED
  BY <1>1, <1>2, <1>3, <1>4, Quietly

LEMMA ScavengeSnap ==
  ASSUME VmInv, SnapInv, NEW p \in Host,
         (\E w \in Work : ScavengeTake(p, w)) \/ ScavengeDone(p)
  PROVE  SnapInv'
<1>0. Places /\ Locals(p)
  BY Before
<1>1. /\ pc[p] = "scan" /\ \A q \in Host \ {p} : pc'[q] = pc[q] /\ box'[q] = box[q]
      /\ \/ pc'[p] = "reap" \/ (dir[p] = None /\ pc'[p] = "work")
         \/ (dir[p] # None /\ pc'[p] = "lock")
  <2>1. CASE \E w \in Work : ScavengeTake(p, w)
    BY <1>0, <2>1, Going DEF ScavengeTake, At, Places
  <2>2. CASE ScavengeDone(p)
    BY <1>0, <2>2, Going DEF ScavengeDone, At, local
  <2> QED
    BY <2>1, <2>2
<1>2. UNCHANGED <<assets, files, vm, ckpt, rebuilds, torn, place, dir, orig>>
  BY DEF ScavengeTake, ScavengeDone, world, local
<1>3. dir[p] \notin Fork
  BY <1>0, <1>1 DEF Locals
<1>4. Plain(p)' /\ Tidy(p)' /\ Copied(p)'
  BY <1>1, <1>2, <1>3 DEF Plain, Tidy, Copied, Forking, Building
<1> QED
  BY <1>1, <1>2, <1>4, Quietly

LEMMA ScavengeRemoveSnap ==
  ASSUME VmInv, SnapInv, NEW p \in Host, ScavengeRemove(p)
  PROVE  SnapInv'
<1>0. Places /\ Contents /\ Locals(p) /\ Claims(p)
  BY Before
<1>1. pc[p] = "reap" /\ pc'[p] = "scan" /\ \A q \in Host \ {p} : pc'[q] = pc[q]
  BY <1>0, Going DEF ScavengeRemove, At
<1>2. \A q \in Host \ {p} : box'[q] = box[q]
  BY <1>0 DEF ScavengeRemove, Places
<1>3. box[p] \in Work /\ owner[box[p]] = None
  BY <1>0, <1>1 DEF Claims
<1>4. UNCHANGED <<vm, ckpt, dir, orig, assets, rebuilds, torn>>
  BY DEF ScavengeRemove, world
<1>5. \A f \in Fork : f # box[p] => place'[f] = place[f]
  BY <1>0, Names DEF ScavengeRemove, Places
<1>6. \A d \in Dir : files'[d] = IF d \in Fork /\ d = box[p] THEN Empty ELSE files[d]
  BY <1>0, Names DEF ScavengeRemove, Contents
<1>7. Reach(p)
  BY <1>1, <1>2, <1>3, <1>4, <1>6 DEF Reach
<1>8. ForksBare'
  BY <1>5, <1>6, Names DEF SnapInv, ForksBare
<1>9. dir[p] \notin Fork
  BY <1>0, <1>1 DEF Locals
<1>10. Plain(p)' /\ Tidy(p)' /\ Copied(p)'
  BY <1>1, <1>4, <1>9 DEF Plain, Tidy, Copied, Forking, Building
<1>11. /\ ~torn' => \A b \in Box : Whole(b)'
       /\ rebuilds' = 0 => \A b \in Box : Continues(b)'
  BY <1>4, BoxesGo
<1>12. \A d \in Dir : \/ files'[d] = Empty
                      \/ files'[d] = files[d] /\ ~(pc[p] = "discard" /\ dir[p] = d)
  BY <1>1, <1>6
<1> QED
  BY <1>4, <1>7, <1>8, <1>10, <1>11, <1>12, SnapStep

LEMMA AcquireSnap ==
  ASSUME VmInv, SnapInv, NEW p \in Host, AcquireDir(p)
  PROVE  SnapInv'
<1>0. Places /\ Locals(p)
  BY Before
<1>1. pc[p] = "lock" /\ ((orig[p] = None /\ pc'[p] = "ensure") \/ (orig[p] # None /\ pc'[p] = "dump"))
      /\ \A q \in Host \ {p} : pc'[q] = pc[q]
  BY <1>0, Going DEF AcquireDir, At
<1>2. UNCHANGED <<dir, box, orig, place, vm, ckpt, files, assets, rebuilds, torn>>
  BY DEF AcquireDir, local, world
<1>3. orig[p] # None <=> dir[p] \in Fork
  BY <1>0, <1>1 DEF Locals
<1>4. Plain(p)'
  BY <1>1 DEF Plain, Building
<1>5. ASSUME ~torn PROVE Tidy(p)'
  <2>1. Tidy(p)
    BY <1>5 DEF SnapInv
  <2> QED
    BY <1>1, <1>2, <1>3, <2>1 DEF Tidy
<1>6. ASSUME rebuilds = 0 PROVE Copied(p)'
  <2>1. Copied(p)
    BY <1>6 DEF SnapInv
  <2> QED
    BY <1>1, <1>2, <1>3, <2>1 DEF Copied, Forking, Building
<1> QED
  BY <1>1, <1>2, <1>4, <1>5, <1>6, Quietly

LEMMA FailsSnap ==
  ASSUME VmInv, SnapInv, NEW p \in Host, Fails(p)
  PROVE  SnapInv'
<1>0. Places /\ Contents /\ Locals(p) /\ Claims(p)
  BY Before
<1> DEFINE S == ({box[p], orig[p]} \cup kids[p]) \ {None}
           F == LastOf(S) \cup IF At(p, "lock") THEN {} ELSE {dir[p]} \cap Fork
<1>1. /\ TakeDown(S, F) /\ Leave(p) /\ UNCHANGED <<assets, rebuilds, torn>>
      /\ pc[p] \in {"lock", "ensure", "boot", "dump", "dumped", "stamp", "retire", "worklock",
                    "restore", "open", "extra", "forklock"}
  BY Zenon DEF Fails, world
<1>2. S \in SUBSET Box /\ \A b \in S : owner[b] = p
  <2>1. box[p] # None => box[p] \in Box /\ owner[box[p]] = p
    BY <1>0, <1>1 DEF Locals, Claims, Building
  <2>2. orig[p] # None => orig[p] \in Box /\ owner[orig[p]] = p
    BY <1>0 DEF Claims, Places
  <2>3. kids[p] \subseteq Box /\ \A b \in kids[p] : owner[b] = p
    BY <1>0 DEF Claims, Places
  <2> QED
    BY <2>1, <2>2, <2>3
<1> HIDE DEF S
<1>3. \A f \in LastOf(S) : f \in Fork /\ owner[f] = p
  BY <1>2, LastIsOwn
<1>4. dir[p] \in Fork => owner[dir[p]] = p
  BY <1>0, <1>1 DEF Claims, Forking
<1>5. F \in SUBSET Fork /\ \A f \in F : owner[f] = p
  BY <1>3, <1>4
<1> HIDE DEF F
<1>6. /\ \A w \in Work : place'[w] = IF w \in S \cup F THEN "none" ELSE place[w]
      /\ \A b \in Box : vm'[b] = IF b \in S THEN NoFile ELSE vm[b]
      /\ \A b \in Box : ckpt'[b] = IF b \in S THEN None ELSE ckpt[b]
      /\ \A d \in Dir : files'[d] = IF d \in F THEN Empty ELSE files[d]
  BY <1>1 DEF TakeDown
<1>7. \A f \in Fork : f \notin F => place'[f] = place[f]
  BY <1>2, <1>6, Names
<1>8. \A b \in Box : owner[b] = p \/ (vm'[b] = vm[b] /\ ckpt'[b] = ckpt[b])
  BY <1>2, <1>6
<1>9. \A b \in Box : vm'[b] \in {vm[b], NoFile} /\ ckpt'[b] \in {ckpt[b], None}
  BY <1>6
<1> QED
  BY <1>1, <1>5, <1>6, <1>7, <1>8, <1>9, Quitting

\* Who looks at a snapshot under the lock finds nobody else discarding it.
LEMMA NobodyDiscards ==
  ASSUME VmInv, NEW p \in Host, pc[p] = "ensure"
  PROVE  \A q \in Host : pc[q] # "discard"
<1>1. ASSUME NEW q \in Host, pc[q] = "discard" PROVE FALSE
  <2>1. lock = p /\ lock = q
    BY <1>1, Before DEF Locked, Preparing
  <2> QED
    BY <1>1, <2>1
<1> QED
  BY <1>1

LEMMA GoodIsStored ==
  ASSUME NEW d, Good(files[d])
  PROVE  Stored(d)
<1>1. ~NoFile.whole
  BY Zenon DEF NoFile
<1>2. files[d].vmstate # NoFile
  BY <1>1, Zenon DEF Good
<1> QED
  BY <1>2 DEF Good, Stored

LEMMA CheckpointIsStored ==
  ASSUME NEW d, NEW f, Checkpoint(files[d], f)
  PROVE  Stored(d)
BY Emptiness DEF Checkpoint, Copy, Stored

LEMMA ReuseSnap ==
  ASSUME VmInv, SnapInv, NEW p \in Host, Reuse(p)
  PROVE  SnapInv'
<1>0. Places /\ Contents /\ Locals(p)
  BY Before
<1>1. pc[p] = "ensure" /\ pc'[p] = "work" /\ \A q \in Host \ {p} : pc'[q] = pc[q]
  BY <1>0, Going DEF Reuse, At
<1>2. UNCHANGED <<dir, box, orig, place, vm, ckpt, files, assets, rebuilds, torn>>
  BY DEF Reuse, local, world
<1>3. Plain(p)'
  BY <1>1 DEF Plain, Building
<1>4. dir[p] \in Dir /\ files[dir[p]].ident = assets /\ assets # 0
  BY <1>0, <1>1, VmAssumption DEF Locals, Preparing, Reuse, Contents, Builds
<1>5. ASSUME ~torn PROVE Tidy(p)'
  <2>1. Earned(dir[p])
    BY <1>4, <1>5 DEF SnapInv
  <2>2. Good(files[dir[p]])
    BY <1>1, <1>4, <2>1, NobodyDiscards DEF Earned
  <2> QED
    BY <1>1, <1>2, <2>2 DEF Tidy
<1>6. ASSUME rebuilds = 0 PROVE Copied(p)'
  <2>1. Copied(p)
    BY <1>6 DEF SnapInv
  <2> QED
    BY <1>1, <1>2, <2>1 DEF Copied, Forking, Building
<1> QED
  BY <1>1, <1>2, <1>3, <1>5, <1>6, Quietly

LEMMA PrepareSnap ==
  ASSUME VmInv, SnapInv, NEW p \in Host, Prepare(p)
  PROVE  SnapInv'
<1>0. Places /\ Contents /\ Locals(p)
  BY Before
<1>1. /\ pc[p] = "ensure" /\ \A q \in Host \ {p} : pc'[q] = pc[q]
      /\ pc'[p] = IF Stored(dir[p]) THEN "discard" ELSE "boot"
  BY <1>0, Going DEF Prepare, At
<1>2. UNCHANGED <<dir, box, orig, place, vm, ckpt, files, assets, rebuilds, torn>>
  BY DEF Prepare, local, world
<1>3. Plain(p)'
  BY <1>1 DEF Plain, Building
<1>4. dir[p] \in Dir
  BY <1>0, <1>1 DEF Locals, Preparing
<1>5. ASSUME ~torn PROVE Tidy(p)'
  <2>1. Earned(dir[p])
    BY <1>4, <1>5 DEF SnapInv
  <2>2. ~Stored(dir[p]) => files[dir[p]].ident = 0
    BY <1>1, <2>1, NobodyDiscards, GoodIsStored DEF Earned
  <2> QED
    BY <1>1, <1>2, <2>2 DEF Tidy
<1>6. ASSUME rebuilds = 0 PROVE Copied(p)'
  <2>1. Copied(p)
    BY <1>6 DEF SnapInv
  <2>2. Forking(p) => Checkpoint(files[dir[p]], dir[p]) /\ files[dir[p]].ident = assets
    BY <1>1, <2>1 DEF Copied
  <2>3. ~Forking(p)
    BY <2>2, CheckpointIsStored DEF Prepare
  <2>4. ~Forking(p)'
    BY <1>1, <1>2, <2>3 DEF Forking
  <2> QED
    BY <2>4 DEF Copied
<1> QED
  BY <1>1, <1>2, <1>3, <1>5, <1>6, Quietly

\* A step that prepares the snapshot of p, under the lock.
LEMMA Fills ==
  ASSUME VmInv, SnapInv, NEW p \in Host, pc[p] \in Filling,
         \A q \in Host \ {p} : pc'[q] = pc[q],
         UNCHANGED <<place, vm, ckpt, dir, box, orig, assets, rebuilds>>,
         \A d \in Dir : d # dir[p] => files'[d] = files[d],
         Plain(p)', ~torn' => ~torn, ~torn' => Tidy(p)' /\ Earned(dir[p])',
         rebuilds = 0 => Copied(p)'
  PROVE  SnapInv'
<1>0. Standing(p)
  BY Before
<1>1. Reach(p)
  BY DEF Reach
<1>2. dir[p] \in Fork => place[dir[p]] = "locked"
  BY <1>0 DEF Standing, Forking, Filling
<1>3. ForksBare'
  BY <1>2, Names DEF SnapInv, ForksBare
<1>4. /\ ~torn' => \A b \in Box : Whole(b)'
      /\ rebuilds' = 0 => \A b \in Box : Continues(b)'
  BY BoxesGo
<1>5. ~torn' => \A d \in Dir : \/ Earned(d)'
                               \/ files'[d] = files[d] /\ ~(pc[p] = "discard" /\ dir[p] = d)
  OBVIOUS
<1> QED
  BY <1>1, <1>3, <1>4, <1>5, SnapStep

LEMMA DiscardSnap ==
  ASSUME VmInv, SnapInv, NEW p \in Host, Discard(p)
  PROVE  SnapInv'
<1>0. Places /\ Contents /\ Locals(p)
  BY Before
<1>1. pc[p] = "discard" /\ UNCHANGED <<place, vm, ckpt, dir, box, orig, assets, rebuilds>>
  BY DEF Discard, At, local
<1>2. pc'[p] \in {"discard", "boot"} /\ \A q \in Host \ {p} : pc'[q] = pc[q]
  <2>1. CASE UNCHANGED pc
    BY <1>1, <2>1
  <2>2. CASE Goto(p, "boot")
    BY <1>0, <2>2, Going
  <2> QED
    BY <2>1, <2>2 DEF Discard
<1>3. \A d \in Dir : d # dir[p] => files'[d] = files[d]
  <2>1. files' = files \/ \E g : files' = [files EXCEPT ![dir[p]] = g]
    BY DEF Discard
  <2> QED
    BY <1>0, <2>1 DEF Contents
<1>4. Plain(p)'
  BY <1>2 DEF Plain, Building
<1>5. ~torn' => ~torn
  BY Zenon DEF Discard
<1>6. ASSUME ~torn' PROVE pc'[p] = "discard" \/ files'[dir[p]].ident = 0
  <2>1. CASE UNCHANGED pc
    BY <1>1, <2>1
  <2>2. CASE pc' # pc
    <3>1. files[dir[p]] = Empty /\ files' = files
      BY <1>6, <2>2, Zenon DEF Discard
    <3> QED
      BY <3>1 DEF Empty
  <2> QED
    BY <2>1, <2>2
<1>7. ASSUME ~torn' PROVE Tidy(p)' /\ Earned(dir[p])'
  <2>1. Tidy(p)'
    BY <1>1, <1>2, <1>6, <1>7 DEF Tidy
  <2>2. dir'[p] = dir[p]
    BY <1>1
  <2>3. Earned(dir[p])'
    BY <1>6, <1>7, <2>2 DEF Earned
  <2> QED
    BY <2>1, <2>3
<1>8. ASSUME rebuilds = 0 PROVE Copied(p)'
  <2>1. Copied(p)
    BY <1>8 DEF SnapInv
  <2>2. ~Forking(p)'
    BY <1>1, <1>2, <2>1 DEF Copied, Forking
  <2> QED
    BY <2>2 DEF Copied
<1> QED
  BY <1>1, <1>2, <1>3, <1>4, <1>5, <1>7, <1>8, Fills DEF Filling

LEMMA BootSnap ==
  ASSUME VmInv, SnapInv, NEW p \in Host, Boot(p)
  PROVE  SnapInv'
<1>0. Places /\ Locals(p)
  BY Before
<1>1. pc[p] = "boot" /\ pc'[p] = "dump" /\ \A q \in Host \ {p} : pc'[q] = pc[q]
  BY <1>0, Going DEF Boot, At
<1>2. UNCHANGED <<dir, box, orig, place, vm, ckpt, files, assets, rebuilds, torn>>
  BY DEF Boot, world
<1>3. Plain(p)'
  BY <1>1 DEF Plain, Building
<1>4. ASSUME ~torn PROVE Tidy(p)'
  <2>1. Tidy(p)
    BY <1>4 DEF SnapInv
  <2> QED
    BY <1>1, <1>2, <2>1 DEF Tidy
<1>5. ASSUME rebuilds = 0 PROVE Copied(p)'
  <2>1. Copied(p)
    BY <1>5 DEF SnapInv
  <2>2. ~Forking(p)'
    BY <1>1, <1>2, <2>1 DEF Copied, Forking
  <2> QED
    BY <2>2 DEF Copied
<1> QED
  BY <1>1, <1>2, <1>3, <1>4, <1>5, Quietly

\* What the files of p are after one of the two steps of a dump.
LEMMA DumpWrites ==
  ASSUME VmInv, NEW p \in Host, NEW c, dir[p] \in Dir,
         files' = [files EXCEPT ![dir[p]].vmstate = c, ![dir[p]].mem = c]
  PROVE  /\ \A d \in Dir : d # dir[p] => files'[d] = files[d]
         /\ files'[dir[p]].vmstate = c /\ files'[dir[p]].mem = c
         /\ files'[dir[p]].ident = files[dir[p]].ident
<1>1. Contents
  BY Before
<1>2. files[dir[p]] \in Snapshot
  BY <1>1 DEF Contents
<1> QED
  BY <1>1, <1>2 DEF Contents, Snapshot

LEMMA DumpSnap ==
  ASSUME VmInv, SnapInv, NEW p \in Host, Dump(p)
  PROVE  SnapInv'
<1>0. Places /\ Contents /\ Locals(p)
  BY Before
<1>1. pc[p] = "dump" /\ pc'[p] = "dumped" /\ \A q \in Host \ {p} : pc'[q] = pc[q]
  BY <1>0, Going DEF Dump, At
<1>2. UNCHANGED <<dir, box, orig, place, vm, ckpt, assets, rebuilds, torn>>
  BY DEF Dump, local, world
<1>3. dir[p] \in Dir
  BY <1>0, <1>1 DEF Locals, Preparing
<1>4. /\ \A d \in Dir : d # dir[p] => files'[d] = files[d]
      /\ files'[dir[p]].ident = files[dir[p]].ident
  BY <1>3, DumpWrites DEF Dump
<1>5. Plain(p)'
  BY <1>1 DEF Plain, Building
<1>6. ASSUME ~torn PROVE Tidy(p)' /\ Earned(dir[p])'
  <2>1. files'[dir[p]].ident = 0
    BY <1>1, <1>4, <1>6 DEF SnapInv, Tidy
  <2> QED
    BY <1>1, <1>2, <2>1 DEF Tidy, Earned
<1>7. ASSUME rebuilds = 0 PROVE Copied(p)'
  <2>1. Copied(p)
    BY <1>7 DEF SnapInv
  <2> QED
    BY <1>1, <1>2, <2>1 DEF Copied, Forking, Building
<1> QED
  BY <1>1, <1>2, <1>4, <1>5, <1>6, <1>7, Fills DEF Filling

\* The image of a dump is whole, and that of a fork continues the original.
LEMMA ImageWhole ==
  ASSUME VmInv, NEW p \in Host, orig[p] # None => Whole(orig[p])
  PROVE  Image(p).whole
<1>0. Places /\ Contents
  BY Before
<1>1. CASE orig[p] # None /\ Running(orig[p])
  <2>1. vm[orig[p]] \in Content /\ vm[orig[p]].whole
    BY <1>0, <1>1 DEF Places, Contents, Whole
  <2>2. Image(p) = [vm[orig[p]] EXCEPT !.state = dir[p]]
    BY <1>1 DEF Image
  <2>3. Image(p).whole = vm[orig[p]].whole
    BY <2>1, <2>2 DEF Content
  <2> QED
    BY <2>1, <2>3
<1>2. CASE ~(orig[p] # None /\ Running(orig[p]))
  BY <1>2, Zenon DEF Image
<1> QED
  BY <1>1, <1>2

LEMMA ImageCopies ==
  ASSUME VmInv, NEW p \in Host, Forking(p), vm[orig[p]].relay # None
  PROVE  Copy(Image(p), dir[p])
<1>0. Places /\ Contents /\ Locals(p)
  BY Before
<1>1. orig[p] # None /\ orig[p] \in Box
  BY <1>0 DEF Forking, Locals, Places
<1>2. Running(orig[p])
  BY Emptiness DEF Running
<1>3. vm[orig[p]] \in Content
  BY <1>0, <1>1 DEF Contents
<1> QED
  BY <1>1, <1>2, <1>3 DEF Image, Copy, Content

LEMMA DumpEndsSnap ==
  ASSUME VmInv, SnapInv, NEW p \in Host, DumpEnds(p)
  PROVE  SnapInv'
<1>0. Places /\ Contents /\ Locals(p)
  BY Before
<1>1. pc[p] = "dumped" /\ pc'[p] = "stamp" /\ \A q \in Host \ {p} : pc'[q] = pc[q]
  BY <1>0, Going DEF DumpEnds, At
<1>2. UNCHANGED <<dir, box, orig, place, vm, ckpt, assets, rebuilds, torn>>
  BY DEF DumpEnds, local, world
<1>3. dir[p] \in Dir
  BY <1>0, <1>1 DEF Locals, Preparing
<1>4. /\ \A d \in Dir : d # dir[p] => files'[d] = files[d]
      /\ files'[dir[p]].ident = files[dir[p]].ident
      /\ files'[dir[p]].vmstate = Image(p) /\ files'[dir[p]].mem = Image(p)
  BY <1>3, DumpWrites DEF DumpEnds
<1>5. Plain(p)'
  BY <1>1 DEF Plain, Building
<1>6. ASSUME ~torn PROVE Tidy(p)' /\ Earned(dir[p])'
  <2>1. files'[dir[p]].ident = 0
    BY <1>1, <1>4, <1>6 DEF SnapInv, Tidy
  <2>2. orig[p] # None => Whole(orig[p])
    BY <1>0, <1>6 DEF SnapInv, Places
  <2>3. Good(files[dir[p]])'
    BY <1>2, <1>4, <2>2, ImageWhole DEF Good
  <2>4. Good(files'[dir'[p]])
    BY <1>2, <2>3 DEF Good
  <2> QED
    BY <1>1, <1>2, <2>1, <2>4 DEF Tidy, Earned
<1>7. ASSUME rebuilds = 0 PROVE Copied(p)'
  <2>1. Copied(p)
    BY <1>7 DEF SnapInv
  <2>2. Forking(p)' <=> Forking(p)
    BY <1>1, <1>2 DEF Forking
  <2>3. Forking(p) => Checkpoint(files'[dir[p]], dir[p])
    BY <1>1, <1>4, <2>1, ImageCopies DEF Copied, Checkpoint
  <2> QED
    BY <1>1, <1>2, <2>1, <2>2, <2>3 DEF Copied, Building
<1> QED
  BY <1>1, <1>2, <1>4, <1>5, <1>6, <1>7, Fills DEF Filling

LEMMA StampSnap ==
  ASSUME VmInv, SnapInv, NEW p \in Host, Stamp(p)
  PROVE  SnapInv'
<1>0. Places /\ Contents /\ Locals(p)
  BY Before
<1>1. /\ pc[p] = "stamp" /\ \A q \in Host \ {p} : pc'[q] = pc[q]
      /\ pc'[p] = IF orig[p] # None /\ Running(orig[p]) THEN "retire" ELSE "work"
  BY <1>0, Going DEF Stamp, At
<1>2. UNCHANGED <<dir, box, orig, place, vm, ckpt, assets, rebuilds, torn>>
  BY DEF Stamp, world
<1>3. dir[p] \in Dir
  BY <1>0, <1>1 DEF Locals, Preparing
<1>4. /\ \A d \in Dir : d # dir[p] => files'[d] = files[d]
      /\ files'[dir[p]].ident = assets
      /\ files'[dir[p]].vmstate = files[dir[p]].vmstate
      /\ files'[dir[p]].mem = files[dir[p]].mem
  <2>1. files[dir[p]] \in Snapshot
    BY <1>0, <1>3 DEF Contents
  <2> QED
    BY <1>0, <1>3, <2>1 DEF Stamp, Contents, Snapshot
<1>5. Plain(p)'
  BY <1>1 DEF Plain, Building
<1>6. ASSUME ~torn PROVE Tidy(p)' /\ Earned(dir[p])'
  <2>1. Good(files[dir[p]])
    BY <1>1, <1>6 DEF SnapInv, Tidy
  <2>2. Good(files'[dir[p]])
    BY <1>4, <2>1 DEF Good
  <2> QED
    BY <1>1, <1>2, <2>2 DEF Tidy, Earned
<1>7. ASSUME rebuilds = 0 PROVE Copied(p)'
  <2>1. Copied(p)
    BY <1>7 DEF SnapInv
  <2>2. Forking(p)' <=> Forking(p)
    BY <1>1, <1>2 DEF Forking
  <2>3. Forking(p) => Checkpoint(files'[dir[p]], dir[p])
    BY <1>1, <1>4, <2>1 DEF Copied, Checkpoint
  <2> QED
    BY <1>1, <1>2, <1>4, <2>1, <2>2, <2>3 DEF Copied, Building
<1> QED
  BY <1>1, <1>2, <1>4, <1>5, <1>6, <1>7, Fills DEF Filling

LEMMA WorkSnap ==
  ASSUME VmInv, SnapInv, NEW p \in Host, NEW b \in Box, MakeWork(p, b)
  PROVE  SnapInv'
<1>0. Places /\ Locals(p)
  BY Before
<1>1. pc[p] = "work" /\ pc'[p] = "worklock" /\ \A q \in Host \ {p} : pc'[q] = pc[q]
  BY <1>0, Going DEF MakeWork, At
<1>2. UNCHANGED <<dir, orig, vm, ckpt, files, assets, rebuilds, torn>>
  BY DEF MakeWork, world
<1>3. box'[p] = b /\ \A q \in Host \ {p} : box'[q] = box[q]
  BY <1>0, Names DEF MakeWork, Places
<1>4. \A f \in Fork : place'[f] = place[f]
  BY <1>0, Names DEF MakeWork, Places
<1>5. Plain(p)'
  <2>1. ckpt[b] = None
    BY DEF MakeWork, VmInv, BoxInv
  <2> QED
    BY <1>2, <1>3, <2>1 DEF Plain
<1>6. ASSUME ~torn PROVE Tidy(p)'
  <2>1. Tidy(p)
    BY <1>6 DEF SnapInv
  <2> QED
    BY <1>1, <1>2, <2>1 DEF Tidy
<1>7. ASSUME rebuilds = 0 PROVE Copied(p)'
  <2>1. Copied(p)
    BY <1>7 DEF SnapInv
  <2> QED
    BY <1>1, <1>2, <2>1 DEF Copied, Forking, Building
<1> QED
  BY <1>1, <1>2, <1>3, <1>4, <1>5, <1>6, <1>7, Quietly

\* The lock file of the work directory, and the primary session.
LEMMA BuildSnap ==
  ASSUME VmInv, SnapInv, NEW p \in Host, LockWork(p) \/ OpenPrimary(p)
  PROVE  SnapInv'
<1>0. Places /\ Locals(p)
  BY Before
<1>1. /\ \/ pc[p] = "worklock" /\ pc'[p] = "restore"
         \/ pc[p] = "open" /\ pc'[p] = "extra"
      /\ \A q \in Host \ {p} : pc'[q] = pc[q]
  BY <1>0, Going DEF LockWork, OpenPrimary, At
<1>2. UNCHANGED <<dir, box, orig, vm, ckpt, files, assets, rebuilds, torn>>
  BY DEF LockWork, OpenPrimary, local, world
<1>3. \A f \in Fork : place'[f] = place[f]
  BY <1>0, <1>1, Names DEF LockWork, OpenPrimary, Places, Locals, Building
<1>4. Plain(p)'
  BY <1>1, <1>2 DEF SnapInv, Plain, Building
<1>5. ASSUME ~torn PROVE Tidy(p)'
  <2>1. Tidy(p)
    BY <1>5 DEF SnapInv
  <2> QED
    BY <1>1, <1>2, <2>1 DEF Tidy
<1>6. ASSUME rebuilds = 0 PROVE Copied(p)'
  <2>1. Copied(p)
    BY <1>6 DEF SnapInv
  <2> QED
    BY <1>1, <1>2, <2>1 DEF Copied, Forking, Building
<1> QED
  BY <1>1, <1>2, <1>3, <1>4, <1>5, <1>6, Quietly

\* A VM loaded from a good snapshot is whole, and from a checkpoint continues it.
LEMMA LoadedWhole ==
  ASSUME VmInv, NEW p \in Host, dir[p] # None => Good(files[dir[p]])
  PROVE  Loaded(p).whole
<1>0. Places /\ Contents
  BY Before
<1>1. CASE dir[p] = None
  BY <1>1, Zenon DEF Loaded
<1>2. CASE dir[p] # None
  <2>1. files[dir[p]] \in Snapshot
    BY <1>0, <1>2 DEF Places, Contents
  <2>2. files[dir[p]].vmstate \in Content
    BY <2>1 DEF Snapshot
  <2>3. Loaded(p).whole =
          (files[dir[p]].vmstate.whole /\ files[dir[p]].mem = files[dir[p]].vmstate)
    BY <1>2, <2>2 DEF Loaded, Content
  <2> QED
    BY <1>2, <2>3, Zenon DEF Good
<1> QED
  BY <1>1, <1>2

LEMMA LoadedCopies ==
  ASSUME VmInv, NEW p \in Host, Forking(p), Checkpoint(files[dir[p]], dir[p])
  PROVE  Loaded(p).state = dir[p]
<1>0. Places /\ Contents
  BY Before
<1>1. dir[p] # None /\ dir[p] \in Dir
  BY Names DEF Forking
<1>2. files[dir[p]] \in Snapshot
  BY <1>0, <1>1 DEF Contents
<1>3. files[dir[p]].vmstate \in Content
  BY <1>2 DEF Snapshot
<1> QED
  BY <1>1, <1>3 DEF Loaded, Content, Checkpoint, Copy

LEMMA RestoreSnap ==
  ASSUME VmInv, SnapInv, NEW p \in Host, Restore(p)
  PROVE  SnapInv'
<1>0. Places /\ Contents /\ Locals(p) /\ Claims(p)
  BY Before
<1>1. pc[p] = "restore" /\ pc'[p] = "open" /\ \A q \in Host \ {p} : pc'[q] = pc[q]
  BY <1>0, Going DEF Restore, At
<1>2. UNCHANGED <<dir, box, orig, place, ckpt, files, assets, rebuilds, torn>>
  BY DEF Restore, local, world
<1>3. box[p] \in Box /\ owner[box[p]] = p
  BY <1>0, <1>1 DEF Locals, Claims, Building
<1>4. vm' = [vm EXCEPT ![box[p]] = Loaded(p)]
  BY DEF Restore, Loaded
<1>5. vm'[box[p]] = Loaded(p) /\ \A b \in Box : b # box[p] => vm'[b] = vm[b]
  BY <1>0, <1>3, <1>4 DEF Contents
<1>6. Reach(p)
  BY <1>1, <1>2, <1>3, <1>5 DEF Reach
<1>7. ForksBare'
  BY <1>2 DEF SnapInv, ForksBare
<1>8. ckpt[box[p]] = None
  BY <1>1 DEF SnapInv, Plain, Building
<1>9. Plain(p)'
  BY <1>2, <1>8 DEF Plain
<1>10. Tidy(p)'
  BY <1>1 DEF Tidy
<1>11. ASSUME rebuilds = 0 PROVE Copied(p)'
  <2>1. Copied(p)
    BY <1>11 DEF SnapInv
  <2>2. Forking(p)' <=> Forking(p)
    BY <1>1, <1>2 DEF Forking
  <2>3. Forking(p) => vm'[box[p]].state = dir[p]
    BY <1>1, <1>5, <2>1, LoadedCopies DEF Copied, Building
  <2> QED
    BY <1>1, <1>2, <2>1, <2>2, <2>3 DEF Copied, Building
<1>12. ASSUME ~torn, NEW b \in Box PROVE Whole(b)'
  <2>1. Whole(b)
    BY <1>12 DEF SnapInv
  <2>2. CASE b = box[p]
    <3>1. dir[p] # None => Good(files[dir[p]])
      BY <1>1, <1>12 DEF SnapInv, Tidy
    <3>2. vm'[b].whole
      BY <1>5, <2>2, <3>1, LoadedWhole
    <3> QED
      BY <3>2 DEF Whole
  <2>3. CASE b # box[p]
    BY <1>5, <2>1, <2>3 DEF Whole, Running
  <2> QED
    BY <2>2, <2>3
<1>13. ASSUME rebuilds = 0, NEW b \in Box PROVE Continues(b)'
  <2>1. Continues(b)
    BY <1>13 DEF SnapInv
  <2> QED
    BY <1>2, <1>5, <1>8, <2>1 DEF Continues, Running
<1> QED
  BY <1>1, <1>2, <1>6, <1>7, <1>9, <1>10, <1>11, <1>12, <1>13, SnapStep

LEMMA OpenExtraSnap ==
  ASSUME VmInv, SnapInv, NEW p \in Host, OpenExtra(p)
  PROVE  SnapInv'
<1>0. Places /\ Contents /\ Locals(p) /\ Claims(p)
  BY Before
<1> DEFINE b == box[p]
           forking == dir[p] \in Fork
           ready == ~forking \/ kids[p] # {}
           D == IF forking /\ ready THEN {orig[p]} ELSE {}
           S == [ckpt EXCEPT ![b] = IF forking THEN dir[p] ELSE None]
           F == {f \in LastOf(D) : \A c \in Box \ D : S[c] # f}
<1>1. pc[p] = "extra" /\ b \in Box /\ owner[b] = p
  BY <1>0 DEF OpenExtra, At, Locals, Claims, Building
<1>2. /\ ckpt' = [c \in Box |-> IF c \in D THEN None ELSE S[c]]
      /\ place' = [w \in Work |-> IF w \in F THEN "none" ELSE place[w]]
      /\ files' = [d \in Dir |-> IF d \in F THEN Empty ELSE files[d]]
      /\ \/ ready /\ Leave(p)
         \/ /\ ~ready
            /\ box' = [box EXCEPT ![p] = None]
            /\ Goto(p, "ensure")
            /\ UNCHANGED <<dir, orig>>
      /\ UNCHANGED <<vm, assets, rebuilds, torn>>
  BY Zenon DEF OpenExtra, world
<1>3. \A c \in Box : S[c] = IF c = b THEN (IF forking THEN dir[p] ELSE None) ELSE ckpt[c]
  BY <1>0, <1>1 DEF Places
<1> HIDE DEF S
<1>4. \A c \in D : c \in Box /\ owner[c] = p
  BY <1>0 DEF Locals, Claims, Places
<1>5. F \in SUBSET Fork /\ \A f \in F : owner[f] = p
  <2>1. \A f \in LastOf(D) : f \in Fork /\ owner[f] = p
    BY <1>4, LastIsOwn
  <2> QED
    BY <2>1
<1>6. ~ready => F = {}
  BY DEF LastOf
<1> HIDE DEF D, F
<1>7. /\ \A c \in Box : ckpt'[c] = IF c \in D THEN None ELSE S[c]
      /\ \A w \in Work : place'[w] = IF w \in F THEN "none" ELSE place[w]
      /\ \A d \in Dir : files'[d] = IF d \in F THEN Empty ELSE files[d]
  BY <1>2
<1>8. \A q \in Host \ {p} : /\ pc'[q] = pc[q] /\ dir'[q] = dir[q] /\ box'[q] = box[q]
                            /\ orig'[q] = orig[q]
  <2>1. CASE Leave(p)
    BY <1>0, <2>1, Left
  <2>2. CASE ~Leave(p)
    <3>1. Goto(p, "ensure")
      BY <1>2, <2>2
    <3> QED
      BY <1>0, <1>2, <2>2, <3>1, Going DEF Places
  <2> QED
    BY <2>1, <2>2
<1>9. Reach(p)
  <2>1. \A c \in Box : owner[c] \in {p, None} \/ (vm'[c] = vm[c] /\ ckpt'[c] = ckpt[c])
    BY <1>1, <1>2, <1>3, <1>4, <1>7
  <2> QED
    BY <1>5, <1>7, <1>8, <2>1 DEF Reach
<1>10. ForksBare'
  BY <1>7, Names DEF SnapInv, ForksBare
<1>11. Plain(p)' /\ Tidy(p)' /\ (rebuilds = 0 => Copied(p)')
  <2>1. CASE ready
    <3>1. pc'[p] = "idle" /\ dir'[p] = None
      BY <1>0, <1>2, <2>1, Left DEF Leave, Places
    <3> QED
      BY <3>1, IdleSnap
  <2>2. CASE ~ready
    <3>1. pc'[p] = "ensure" /\ dir' = dir /\ orig' = orig
      BY <1>0, <1>2, <2>2, Going
    <3>2. files'[dir[p]] = files[dir[p]]
      BY <1>6, <1>7, <2>2, Names
    <3>3. Plain(p)' /\ Tidy(p)'
      BY <3>1 DEF Plain, Tidy, Building
    <3>4. ASSUME rebuilds = 0 PROVE Copied(p)'
      <4>1. Copied(p)
        BY <3>4 DEF SnapInv
      <4> QED
        BY <1>1, <1>2, <3>1, <3>2, <4>1 DEF Copied, Forking, Building
    <3> QED
      BY <3>3, <3>4
  <2> QED
    BY <2>1, <2>2
<1>12. ASSUME ~torn, NEW c \in Box PROVE Whole(c)'
  BY <1>2, <1>12 DEF SnapInv, Whole, Running
<1>13. ASSUME rebuilds = 0, NEW c \in Box PROVE Continues(c)'
  <2>1. Continues(c) /\ Copied(p)
    BY <1>13 DEF SnapInv
  <2>2. forking => vm[b].state = dir[p]
    BY <1>1, <2>1 DEF Copied, Forking
  <2>3. Running(c)' <=> Running(c)
    BY <1>2 DEF Running
  <2> QED
    BY <1>2, <1>3, <1>7, <2>1, <2>2, <2>3 DEF Continues
<1>14. \A d \in Dir : \/ files'[d] = Empty
                      \/ files'[d] = files[d] /\ ~(pc[p] = "discard" /\ dir[p] = d)
  BY <1>1, <1>7
<1> QED
  BY <1>2, <1>9, <1>10, <1>11, <1>12, <1>13, <1>14, SnapStep

LEMMA BeginForkSnap ==
  ASSUME VmInv, SnapInv, NEW p \in Host, NEW b \in Box, NEW f \in Fork, BeginFork(p, b, f)
  PROVE  SnapInv'
<1>0. Places /\ Locals(p)
  BY Before
<1>1. pc[p] = "idle" /\ pc'[p] = "forklock" /\ \A q \in Host \ {p} : pc'[q] = pc[q]
  BY <1>0, Going DEF BeginFork, At
<1>2. UNCHANGED <<box, vm, ckpt, files, assets, rebuilds, torn>>
  BY DEF BeginFork, world
<1>3. /\ orig'[p] = b /\ dir'[p] = f
      /\ \A q \in Host \ {p} : orig'[q] = orig[q] /\ dir'[q] = dir[q]
  BY <1>0 DEF BeginFork, Places
<1>4. place[f] = "none" /\ vm[b].relay # None
  BY DEF BeginFork
<1>5. \A g \in Fork : place'[g] = "none" => place[g] = "none"
  BY <1>0, <1>4, Names DEF BeginFork, Places
<1>6. files[f].ident = 0
  BY <1>4 DEF SnapInv, ForksBare, Empty
<1>7. Plain(p)' /\ Tidy(p)' /\ Copied(p)'
  BY <1>1, <1>2, <1>3, <1>4, <1>6 DEF Plain, Tidy, Copied, Forking, Building
<1> QED
  BY <1>1, <1>2, <1>3, <1>5, <1>7, Quietly

LEMMA LockForkSnap ==
  ASSUME VmInv, SnapInv, NEW p \in Host, LockFork(p)
  PROVE  SnapInv'
<1>0. Places /\ Locals(p)
  BY Before
<1>1. pc[p] = "forklock" /\ pc'[p] = "lock" /\ \A q \in Host \ {p} : pc'[q] = pc[q]
  BY <1>0, Going DEF LockFork, At
<1>2. UNCHANGED <<dir, box, orig, vm, ckpt, files, assets, rebuilds, torn>>
  BY DEF LockFork, local, world
<1>3. \A f \in Fork : place'[f] = "none" => place[f] = "none"
  BY <1>0, Names DEF LockFork, Places
<1>4. Plain(p)'
  BY <1>1 DEF Plain, Building
<1>5. ASSUME ~torn PROVE Tidy(p)'
  <2>1. Tidy(p)
    BY <1>5 DEF SnapInv
  <2> QED
    BY <1>1, <1>2, <2>1 DEF Tidy
<1>6. ASSUME rebuilds = 0 PROVE Copied(p)'
  <2>1. Copied(p)
    BY <1>6 DEF SnapInv
  <2> QED
    BY <1>1, <1>2, <2>1 DEF Copied, Forking, Building
<1> QED
  BY <1>1, <1>2, <1>3, <1>4, <1>5, <1>6, Quietly

LEMMA RetireSnap ==
  ASSUME VmInv, SnapInv, NEW p \in Host, RetireOriginal(p)
  PROVE  SnapInv'
<1>0. Places /\ Contents /\ Locals(p) /\ Claims(p)
  BY Before
<1>1. pc[p] = "retire" /\ pc'[p] = "ensure" /\ \A q \in Host \ {p} : pc'[q] = pc[q]
  BY <1>0, Going DEF RetireOriginal, At
<1>2. UNCHANGED <<dir, box, orig, ckpt, files, assets, rebuilds, torn>>
  BY DEF RetireOriginal, local, world
<1>3. \A b \in Box : vm'[b] = IF b = orig[p] THEN NoFile ELSE vm[b]
  BY <1>0 DEF RetireOriginal, Contents
<1>4. \A b \in Box : b = orig[p] => owner[b] = p
  BY <1>0, Names DEF Claims
<1>5. \A f \in Fork : place'[f] = place[f]
  BY <1>0, Names DEF RetireOriginal, Places
<1>6. Reach(p)
  BY <1>1, <1>2, <1>3, <1>4 DEF Reach
<1>7. ForksBare'
  BY <1>2, <1>5 DEF SnapInv, ForksBare
<1>8. Plain(p)' /\ Tidy(p)'
  BY <1>1 DEF Plain, Tidy, Building
<1>9. ASSUME rebuilds = 0 PROVE Copied(p)'
  <2>1. Copied(p)
    BY <1>9 DEF SnapInv
  <2> QED
    BY <1>1, <1>2, <2>1 DEF Copied, Forking, Building
<1>10. /\ ~torn' => \A b \in Box : Whole(b)'
       /\ rebuilds' = 0 => \A b \in Box : Continues(b)'
  BY <1>2, <1>3, BoxesGo
<1>11. \A d \in Dir : files'[d] = files[d] /\ ~(pc[p] = "discard" /\ dir[p] = d)
  BY <1>1, <1>2
<1> QED
  BY <1>2, <1>6, <1>7, <1>8, <1>9, <1>10, <1>11, SnapStep

LEMMA DropWorkSnap ==
  ASSUME VmInv, SnapInv, NEW p \in Host, NEW b \in Box, DropWork(p, b)
  PROVE  SnapInv'
<1>0. Places /\ Locals(p)
  BY Before
<1>1. pc[p] = "idle" /\ pc'[p] = "kill" /\ \A q \in Host \ {p} : pc'[q] = pc[q]
  BY <1>0, Going DEF DropWork, At
<1>2. UNCHANGED <<dir, orig, vm, ckpt, files, assets, rebuilds, torn>>
  BY DEF DropWork, world
<1>3. \A q \in Host \ {p} : box'[q] = box[q]
  BY <1>0 DEF DropWork, Places
<1>4. \A f \in Fork : place'[f] = place[f]
  BY <1>0, Names DEF DropWork, Places
<1>5. dir[p] \notin Fork
  BY <1>0, <1>1 DEF Locals
<1>6. Plain(p)' /\ Tidy(p)' /\ Copied(p)'
  BY <1>1, <1>2, <1>5 DEF Plain, Tidy, Copied, Forking, Building
<1> QED
  BY <1>1, <1>2, <1>3, <1>4, <1>6, Quietly

\* The end of a drop, the VM being gone.
LEMMA DropEndsSnap ==
  ASSUME VmInv, SnapInv, NEW p \in Host, pc[p] \in {"kill", "unlink"}, DropEnds(p),
         vm'[box[p]] \in {vm[box[p]], NoFile},
         \A b \in Box : b # box[p] => vm'[b] = vm[b]
  PROVE  SnapInv'
<1>0. Places /\ Locals(p) /\ Claims(p)
  BY Before
<1>1. box[p] \in Box /\ owner[box[p]] = p
  BY <1>0 DEF Locals, Claims
<1>2. PICK F : F = LastOf({box[p]})
  OBVIOUS
<1>3. F \in SUBSET Fork /\ \A f \in F : owner[f] = p
  BY <1>1, <1>2, LastIsOwn
<1>4. /\ \A w \in Work : place'[w] = IF w \in F THEN "none" ELSE place[w]
      /\ \A d \in Dir : files'[d] = IF d \in F THEN Empty ELSE files[d]
      /\ Leave(p) /\ UNCHANGED <<assets, rebuilds, torn>>
  BY <1>2 DEF DropEnds, world
<1>5. \A b \in Box : ckpt'[b] = IF b = box[p] THEN None ELSE ckpt[b]
  BY <1>0 DEF DropEnds, Places
<1>6. \A f \in Fork : f \notin F => place'[f] = place[f]
  BY <1>4, Names
<1>7. \A b \in Box : owner[b] = p \/ (vm'[b] = vm[b] /\ ckpt'[b] = ckpt[b])
  BY <1>1, <1>5
<1>8. \A b \in Box : vm'[b] \in {vm[b], NoFile} /\ ckpt'[b] \in {ckpt[b], None}
  BY <1>5
<1>9. pc[p] # "discard"
  OBVIOUS
<1> QED
  BY <1>3, <1>4, <1>6, <1>7, <1>8, <1>9, Quitting

LEMMA UnlinkSnap ==
  ASSUME VmInv, SnapInv, NEW p \in Host, Unlink(p)
  PROVE  SnapInv'
BY DropEndsSnap DEF Unlink, At

LEMMA KillVmSnap ==
  ASSUME VmInv, SnapInv, NEW p \in Host, KillVm(p)
  PROVE  SnapInv'
<1>0. Places /\ Contents /\ Locals(p) /\ Claims(p)
  BY Before
<1>1. pc[p] = "kill" /\ vm' = [vm EXCEPT ![box[p]] = NoFile]
  BY DEF KillVm, At
<1>2. box[p] \in Box /\ owner[box[p]] = p
  BY <1>0, <1>1 DEF Locals, Claims
<1>3. vm'[box[p]] = NoFile /\ \A b \in Box : b # box[p] => vm'[b] = vm[b]
  BY <1>0, <1>1, <1>2 DEF Contents
<1>4. CASE DropEnds(p)
  BY <1>1, <1>3, <1>4, DropEndsSnap
<1>5. CASE ~DropEnds(p)
  <2>1. PICK d \in Dir : dir' = [dir EXCEPT ![p] = d]
    BY <1>5 DEF KillVm
  <2>2. /\ Goto(p, "unlink")
        /\ UNCHANGED <<files, place, ckpt, box, orig, assets, rebuilds, torn>>
    BY <1>5 DEF KillVm, world
  <2>3. pc'[p] = "unlink" /\ \A q \in Host \ {p} : pc'[q] = pc[q]
    BY <1>0, <2>2, Going
  <2>4. \A q \in Host \ {p} : dir'[q] = dir[q]
    BY <1>0, <2>1 DEF Places
  <2>5. Reach(p)
    BY <1>2, <1>3, <2>2, <2>3, <2>4 DEF Reach
  <2>6. ForksBare'
    BY <2>2 DEF SnapInv, ForksBare
  <2>7. Plain(p)' /\ Tidy(p)' /\ Copied(p)'
    BY <2>3 DEF Plain, Tidy, Copied, Forking, Building
  <2>8. /\ ~torn' => \A b \in Box : Whole(b)'
        /\ rebuilds' = 0 => \A b \in Box : Continues(b)'
    BY <1>3, <2>2, BoxesGo
  <2>9. \A e \in Dir : files'[e] = files[e] /\ ~(pc[p] = "discard" /\ dir[p] = e)
    BY <1>1, <2>2
  <2> QED
    BY <2>2, <2>5, <2>6, <2>7, <2>8, <2>9, SnapStep
<1> QED
  BY <1>4, <1>5

LEMMA CrashSnap ==
  ASSUME VmInv, SnapInv, NEW p \in Host, Crash(p)
  PROVE  SnapInv'
<1>0. Places /\ Contents
  BY Before
<1>1. Leave(p) /\ UNCHANGED <<files, place, assets, rebuilds>>
  BY DEF Crash
<1>2. /\ pc'[p] = "idle" /\ dir'[p] = None
      /\ \A q \in Host \ {p} : /\ pc'[q] = pc[q] /\ dir'[q] = dir[q] /\ box'[q] = box[q]
                               /\ orig'[q] = orig[q]
  BY <1>0, <1>1, Left DEF Leave, Places
<1>3. \A b \in Box : /\ vm'[b] = IF owner[b] = p THEN NoFile ELSE vm[b]
                     /\ ckpt'[b] = IF owner[b] = p THEN None ELSE ckpt[b]
  BY DEF Crash
<1>4. /\ ~torn' => ~torn
      /\ ~torn' /\ pc[p] = "discard" => files[dir[p]] = Empty
  BY Zenon DEF Crash, At
<1>5. Reach(p)
  BY <1>1, <1>2, <1>3 DEF Reach
<1>6. ForksBare'
  BY <1>1 DEF SnapInv, ForksBare
<1>7. Plain(p)' /\ Tidy(p)' /\ Copied(p)'
  BY <1>2, IdleSnap
<1>8. \A b \in Box : vm'[b] \in {vm[b], NoFile} /\ ckpt'[b] \in {ckpt[b], None}
  BY <1>3
<1>9. /\ ~torn' => \A b \in Box : Whole(b)'
      /\ rebuilds' = 0 => \A b \in Box : Continues(b)'
  BY <1>1, <1>4, <1>8, BoxesGo
<1>10. ~torn' => \A d \in Dir :
         \/ files'[d] = Empty
         \/ files'[d] = files[d] /\ ~(pc[p] = "discard" /\ dir[p] = d)
  BY <1>1, <1>4
<1> QED
  BY <1>1, <1>4, <1>5, <1>6, <1>7, <1>9, <1>10, SnapStep

LEMMA RebuildSnap ==
  ASSUME VmInv, SnapInv, NEW v \in Builds, Rebuild(v)
  PROVE  SnapInv'
<1>1. UNCHANGED <<files, place, vm, ckpt, pc, dir, box, orig, torn>>
  BY DEF Rebuild, local
<1>2. rebuilds' # 0
  <2>1. Counts
    BY VmTypesSplit DEF VmInv
  <2> QED
    BY <2>1, VmAssumption DEF Rebuild, Counts
<1>3. ForksBare' /\ \A p \in Host : Plain(p)'
  BY <1>1 DEF SnapInv, ForksBare, Plain
<1>4. ASSUME ~torn
      PROVE  /\ \A p \in Host : Tidy(p)'
             /\ \A d \in Dir : Earned(d)'
             /\ \A b \in Box : Whole(b)'
  BY <1>1, <1>4 DEF SnapInv, Tidy, Earned, Whole, Running
<1> QED
  BY <1>1, <1>2, <1>3, <1>4 DEF SnapInv

LEMMA SnapStart == VmInit => SnapInv
<1> SUFFICES ASSUME VmInit PROVE SnapInv
  OBVIOUS
<1>1. ForksBare
  BY Names DEF VmInit, ForksBare
<1>2. ASSUME NEW p \in Host PROVE Plain(p) /\ Tidy(p) /\ Copied(p)
  BY Names DEF VmInit, Plain, Tidy, Copied, Forking, Building
<1>3. ASSUME NEW d \in Dir PROVE Earned(d)
  BY DEF VmInit, Earned, Empty
<1>4. ASSUME NEW b \in Box PROVE Whole(b) /\ Continues(b)
  BY DEF VmInit, Whole, Continues, Running
<1> QED
  BY <1>1, <1>2, <1>3, <1>4 DEF SnapInv

LEMMA SnapNext ==
  ASSUME VmInv, SnapInv, [VmNext]_vars
  PROVE  SnapInv'
<1>1. CASE UNCHANGED vars
  <2>1. UNCHANGED <<assets, files, place, vm, ckpt, pc, dir, box, orig, rebuilds, torn>>
    BY <1>1 DEF vars
  <2>2. ForksBare' /\ \A p \in Host : Plain(p)'
    BY <2>1 DEF SnapInv, ForksBare, Plain
  <2>3. ASSUME ~torn
        PROVE  /\ \A p \in Host : Tidy(p)'
               /\ \A d \in Dir : Earned(d)'
               /\ \A b \in Box : Whole(b)'
    BY <2>1, <2>3 DEF SnapInv, Tidy, Earned, Whole, Running
  <2>4. ASSUME rebuilds = 0
        PROVE  (\A p \in Host : Copied(p)') /\ (\A b \in Box : Continues(b)')
    BY <2>1, <2>4 DEF SnapInv, Copied, Forking, Continues, Running
  <2> QED
    BY <2>1, <2>2, <2>3, <2>4 DEF SnapInv
<1>2. ASSUME NEW v \in Builds, Rebuild(v) PROVE SnapInv'
  BY <1>2, RebuildSnap
<1>3. ASSUME NEW p \in Host, NEW d \in {Base, None}, Create(p, d) PROVE SnapInv'
  BY <1>3, CreateSnap
<1>4. ASSUME NEW p \in Host, NEW w \in Work, ScavengeTake(p, w) PROVE SnapInv'
  BY <1>4, ScavengeSnap
<1>5. ASSUME NEW p \in Host, NEW b \in Box, MakeWork(p, b) \/ DropWork(p, b) PROVE SnapInv'
  BY <1>5, WorkSnap, DropWorkSnap
<1>6. ASSUME NEW p \in Host, NEW b \in Box, NEW f \in Fork, BeginFork(p, b, f) PROVE SnapInv'
  BY <1>6, BeginForkSnap
<1>7. ASSUME NEW p \in Host,
             ScavengeRemove(p) \/ ScavengeDone(p) \/ AcquireDir(p) \/ Fails(p) \/ Crash(p)
      PROVE  SnapInv'
  BY <1>7, ScavengeRemoveSnap, ScavengeSnap, AcquireSnap, FailsSnap, CrashSnap
<1>8. ASSUME NEW p \in Host,
             \/ Reuse(p) \/ Prepare(p) \/ Discard(p) \/ Boot(p) \/ Dump(p) \/ DumpEnds(p)
             \/ Stamp(p)
      PROVE  SnapInv'
  BY <1>8, ReuseSnap, PrepareSnap, DiscardSnap, BootSnap, DumpSnap, DumpEndsSnap, StampSnap
<1>9. ASSUME NEW p \in Host,
             LockWork(p) \/ Restore(p) \/ OpenPrimary(p) \/ OpenExtra(p)
      PROVE  SnapInv'
  BY <1>9, BuildSnap, RestoreSnap, OpenExtraSnap
<1>10. ASSUME NEW p \in Host, LockFork(p) \/ RetireOriginal(p) \/ KillVm(p) \/ Unlink(p)
       PROVE  SnapInv'
  BY <1>10, LockForkSnap, RetireSnap, KillVmSnap, UnlinkSnap
<1> QED
  BY <1>1, <1>2, <1>3, <1>4, <1>5, <1>6, <1>7, <1>8, <1>9, <1>10 DEF VmNext

\* The invariant of the snapshots, for any number of processes, kills and rebuilds.
THEOREM SnapInductive == VmSpec => []SnapInv
<1>1. VmInv /\ SnapInv /\ [VmNext]_vars => SnapInv'
  BY SnapNext
<1> QED
  BY <1>1, SnapStart, VmInductive, PTL DEF VmSpec

\* However creates, forks, kills and replaced assets overlap, no VM is loaded from
\* half-written or mismatched files, unless a discard was cut short
\* (ensure_parent_snapshot writes identity.json last).
THEOREM SnapshotsWhole == VmSpec => []RestoredWhole
<1>1. SnapInv => RestoredWhole
  BY DEF SnapInv, Whole, RestoredWhole
<1> QED
  BY <1>1, SnapInductive, PTL

\* Both sandboxes of a fork continue the state of the original while the assets stay
\* (fork: the checkpoint is dumped, stamped and only then restored twice).
THEOREM ForksContinue == VmSpec => []ForkKeepsState
<1>1. SnapInv => ForkKeepsState
  BY DEF SnapInv, Continues, ForkKeepsState
<1> QED
  BY <1>1, SnapInductive, PTL

\* What a sandbox is restored from is whole and, after a fork, the original's
\* (restore_and_open, fork).
THEOREM RestoresAreTrue == VmSpec => []RestoresTrue
BY SnapshotsWhole, ForksContinue, PTL DEF RestoresTrue

-----------------------------------------------------------------------------
(* The Firecracker controller *)

\* Between the spawn and the handle the child belongs to a guard.  Without this the
\* handle attach_api_child makes might take over a child whose holder has left.
Guarding == at \in {"ready", "attach"} => keeper = "guard"

KeeperInv == ChildHasKeeper /\ Guarding

\* While the files are polled, a file that is not empty was written by this attempt;
\* a result is that of the latest attempt.
FreshInv ==
  /\ SnapshotIsFresh
  /\ DOMAIN outs = {"vmstate", "mem"}
  /\ at = "poll" => \A f \in DOMAIN outs : outs[f].size > 0 => outs[f].shot = shots

-----------------------------------------------------------------------------

\* With no child there is nothing to keep.
LEMMA KeeperInit == FcInit => KeeperInv
  BY DEF FcInit, KeeperInv, ChildHasKeeper, Guarding, Alive

\* Every step keeps the child with its keeper.
LEMMA KeeperStep == KeeperInv /\ [FcNext]_fcvars => KeeperInv'
<1> SUFFICES ASSUME KeeperInv, [FcNext]_fcvars PROVE KeeperInv'
  OBVIOUS
<1> USE DEF KeeperInv, ChildHasKeeper, Guarding, Alive
<1>1. ASSUME NEW k \in Kinds, Start(k) PROVE KeeperInv'
  BY <1>1 DEF Start
<1>2. CASE Spawn
  BY <1>2 DEF Spawn
<1>3. CASE NotReady
  BY <1>3 DEF NotReady, Dismiss
<1>4. CASE Ready
  BY <1>4 DEF Ready
<1>5. CASE Attach
  BY <1>5 DEF Attach
<1>6. CASE Call
  <2>1. child \in Alive /\ child' \in Alive /\ at = "config"
    BY <1>6 DEF Call, Answers
  <2>2. at' \notin {"ready", "attach"} /\ UNCHANGED <<keeper, holder>>
    BY <1>6 DEF Call
  <2> QED
    BY <2>1, <2>2
<1>7. CASE Post
  BY <1>7 DEF Post, Answers
<1>8. CASE CallFails
  BY <1>8 DEF CallFails, Dismiss
<1>9. CASE FallBack
  BY <1>9 DEF FallBack
<1>10. CASE Pause
  BY <1>10 DEF Pause, Answers
<1>11. CASE CreateSnapshot
  BY <1>11 DEF CreateSnapshot
<1>12. CASE SnapshotFails
  BY <1>12 DEF SnapshotFails
<1>13. CASE Poll
  <2>1. at' \in {"up", "poll"} /\ UNCHANGED <<child, holder, keeper>>
    BY <1>13 DEF Poll
  <2> QED
    BY <2>1
<1>14. CASE PollTimesOut
  BY <1>14 DEF PollTimesOut
<1>15. CASE Kill
  BY <1>15 DEF Kill
<1>16. CASE Drop
  BY <1>16 DEF Drop, Dismiss
<1>17. CASE Listen
  BY <1>17 DEF Listen
<1>18. CASE ChildDies
  BY <1>18 DEF ChildDies
<1>19. CASE NameGone
  BY <1>19 DEF NameGone
<1>20. CASE ParentThreadGone
  BY <1>20 DEF ParentThreadGone
<1>21. ASSUME NEW f \in DOMAIN outs, ChildWrites(f) PROVE KeeperInv'
  BY <1>21 DEF ChildWrites
<1>22. CASE UNCHANGED fcvars
  BY <1>22 DEF fcvars
<1> QED
  BY <1>1, <1>2, <1>3, <1>4, <1>5, <1>6, <1>7, <1>8, <1>9, <1>10, <1>11, <1>12, <1>13, <1>14,
     <1>15, <1>16, <1>17, <1>18, <1>19, <1>20, <1>21, <1>22 DEF FcNext

\* No Firecracker is left without an owner on any path of start-up, failure, fallback
\* and drop, and the PDEATHSIG thread stays while it has one (spawn_api, ChildGuard,
\* FirecrackerVm).
THEOREM FirecrackerKept == FcSpec => []ChildHasKeeper
<1>1. KeeperInv => ChildHasKeeper
  BY DEF KeeperInv
<1> QED
  BY <1>1, KeeperInit, KeeperStep, PTL DEF FcSpec

-----------------------------------------------------------------------------

\* No snapshot has been asked for.
LEMMA FreshInit == FcInit => FreshInv
  BY DEF FcInit, FreshInv, SnapshotIsFresh, NoSizes

\* What is not the snapshot's own leaves the files, the attempt and the result alone,
\* and does not enter the polling.
LEMMA ElsewhereFresh ==
  ASSUME FreshInv, UNCHANGED <<shots, outs, result>>, at' = "poll" => at = "poll"
  PROVE  FreshInv'
  BY DEF FreshInv, SnapshotIsFresh

\* Every step keeps the files of the polling its own.
LEMMA FreshStep == FreshInv /\ [FcNext]_fcvars => FreshInv'
<1> SUFFICES ASSUME FreshInv, [FcNext]_fcvars PROVE FreshInv'
  OBVIOUS
<1>1. ASSUME NEW k \in Kinds, Start(k) PROVE FreshInv'
  <2>1. DOMAIN outs' = {"vmstate", "mem"} /\ at' = "spawn" /\ UNCHANGED <<shots, result>>
    BY <1>1 DEF Start, FreshInv
  <2> QED
    BY <2>1 DEF FreshInv, SnapshotIsFresh
<1>2. CASE Spawn \/ NotReady \/ Ready \/ Attach \/ Call \/ Post \/ CallFails \/ FallBack
  <2>1. UNCHANGED <<shots, outs, result>>
    BY <1>2 DEF Spawn, NotReady, Ready, Attach, Call, Post, CallFails, FallBack, snapvars
  <2>2. at' # "poll"
    BY <1>2 DEF Spawn, NotReady, Ready, Attach, Call, Post, CallFails, FallBack, Dismiss
  <2> QED
    BY <2>1, <2>2, ElsewhereFresh
<1>3. CASE Pause
  BY <1>3 DEF Pause, FreshInv, SnapshotIsFresh, NoSizes
<1>4. CASE CreateSnapshot
  BY <1>4 DEF CreateSnapshot, FreshInv, SnapshotIsFresh, NoOut
<1>5. CASE SnapshotFails \/ PollTimesOut
  BY <1>5 DEF SnapshotFails, PollTimesOut, FreshInv, SnapshotIsFresh
<1>6. CASE Poll
  <2>1. UNCHANGED <<outs, shots>> /\ at = "poll"
    BY <1>6 DEF Poll
  <2>2. result' # result => Sizes # NoSizes /\ result' = <<outs["vmstate"].shot, outs["mem"].shot>>
    BY <1>6 DEF Poll
  <2>3. Sizes # NoSizes => outs["vmstate"].size > 0 /\ outs["mem"].size > 0
    BY DEF Sizes
  <2>4. result' # result => result' = <<shots, shots>>
    BY <2>1, <2>2, <2>3 DEF FreshInv
  <2> QED
    BY <2>1, <2>4 DEF FreshInv, SnapshotIsFresh
<1>7. CASE Kill \/ Drop \/ Listen \/ ChildDies \/ NameGone \/ ParentThreadGone
  <2>1. UNCHANGED <<shots, outs, result>>
    BY <1>7 DEF Kill, Drop, Listen, ChildDies, NameGone, ParentThreadGone, snapvars
  <2>2. at' = "poll" => at = "poll"
    BY <1>7 DEF Kill, Drop, Listen, ChildDies, NameGone, ParentThreadGone, Dismiss
  <2> QED
    BY <2>1, <2>2, ElsewhereFresh
<1>8. ASSUME NEW f \in DOMAIN outs, ChildWrites(f) PROVE FreshInv'
  <2>1. UNCHANGED <<at, shots, result>>
    BY <1>8 DEF ChildWrites
  <2>2. DOMAIN outs' = DOMAIN outs /\ outs'[f].shot = shots
    BY <1>8 DEF ChildWrites
  <2>3. \A g \in DOMAIN outs : g # f => outs'[g] = outs[g]
    BY <1>8 DEF ChildWrites
  <2> QED
    BY <2>1, <2>2, <2>3 DEF FreshInv, SnapshotIsFresh
<1>9. CASE UNCHANGED fcvars
  BY <1>9, ElsewhereFresh DEF fcvars
<1> QED
  BY <1>1, <1>2, <1>3, <1>4, <1>5, <1>6, <1>7, <1>8, <1>9 DEF FcNext

\* A snapshot() that succeeds reports the files of this very call, although it only
\* watches sizes and older outputs may lie at the same paths (snapshot_create).
THEOREM FirecrackerFresh == FcSpec => []SnapshotIsFresh
<1>1. FreshInv => SnapshotIsFresh
  BY DEF FreshInv
<1> QED
  BY <1>1, FreshInit, FreshStep, PTL DEF FcSpec

\* A controller answers for its child and for the files of its snapshots (spawn_api,
\* snapshot_create).
THEOREM ControllerIsTrue == FcSpec => []ControllerTrue
BY FirecrackerKept, FirecrackerFresh, PTL DEF ControllerTrue

=============================================================================
