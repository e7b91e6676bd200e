--------------------------- MODULE ForkdSnapshots ---------------------------
(*******************************************************************************)
(* Snapshots of a forkd host and the records that bind them to an artifact     *)
(* (rfb/src/cli/forkd/snapshot.rs, snapshot_paths.rs, binding.rs and the       *)
(* provenance gate of cli/dispatch.rs).  Commands run side by side on one      *)
(* snapshot directory: snapshot-create, which hands the forkd binary a private *)
(* copy of the rootfs, snapshot-delete, snapshot-bind, and an acceptance with  *)
(* --require-provenance.  A snapshot's files have the digests of its version.  *)
(*******************************************************************************)
EXTENDS Naturals

CONSTANTS
  Maker,   \* invocations of snapshot-create
  Binder,  \* invocations of snapshot-bind, each followed by an acceptance
  Tag,     \* snapshot tags
  MaxVer   \* snapshots ever built

ASSUME VerAssumption == MaxVer \in Nat

VARIABLES
  disk,    \* tag -> the private rootfs, memory.bin and vmstate of its directory
  temp,    \* command -> the temporary copy it makes beside the target, "none" when absent
  daemon,  \* tag -> what the controller lists
  record,  \* the binding file, Nothing at first
  built,   \* snapshots built so far
  cmd      \* command -> its state

fsvars == <<disk, temp, daemon, record, built, cmd>>

Command == Maker \cup Binder
Nothing == [tag |-> "none"]
Ver == 0..MaxVer
\* A manifest: the tag it names and the version whose digests it expects.
Artifact == [tag : Tag, ver : Ver \ {0}]
Evidence == [tag : Tag, mem : Ver, state : Ver, whole : BOOLEAN]
NoFiles == [rootfs |-> "none", mem |-> 0, state |-> 0]
NoEvidence(t) == [tag |-> t, mem |-> 0, state |-> 0, whole |-> FALSE]

Begin(pc, t, a) == [pc |-> pc, tag |-> t, artifact |-> a, evidence |-> NoEvidence(t),
                    res |-> "none"]

FsTypeOK ==
  /\ disk \in [Tag -> [rootfs : {"none", "torn", "copy", "booted"}, mem : Ver, state : Ver]]
  /\ temp \in [Command -> {"none", "part", "whole"}]
  /\ daemon \in [Tag -> [ready : BOOLEAN, typed : BOOLEAN, ver : Ver]]
  /\ record # Nothing => record.tag \in Tag /\ record.artifact \in Artifact
                          /\ record.evidence \in Evidence
  /\ built \in Ver
  /\ \A c \in Command : cmd[c].tag \in Tag /\ cmd[c].artifact.tag \in Tag \cup {"none"}

FsInit ==
  /\ disk = [t \in Tag |-> NoFiles] /\ temp = [c \in Command |-> "none"]
  /\ daemon = [t \in Tag |-> [ready |-> FALSE, typed |-> FALSE, ver |-> 0]]
  /\ record = Nothing /\ built = 0
  /\ cmd \in {f \in [Command -> {Begin("create", t, Nothing) : t \in Tag}
                                 \cup {Begin("bind", t, a) : t \in Tag, a \in Artifact}] :
                \A c \in Command : c \in Maker <=> f[c].pc = "create"}

Goto(c, pc) == cmd' = [cmd EXCEPT ![c].pc = pc]
Ends(c, res) == cmd' = [cmd EXCEPT ![c].pc = "done", ![c].res = res]
TagOf(c) == cmd[c].tag

-----------------------------------------------------------------------------
(* snapshot-create *)

\* resolve_asset: the flag, else the environment, else the preferred file of resx,
\* else the first file listed there.  The first that is present decides: if it is
\* empty, has the wrong checksum or is a vsock image, the command fails.
Resolved(source) ==
  LET present == {i \in 1..4 : source[i] # "absent"}
  IN present # {} /\ source[CHOOSE i \in present : \A j \in present : i <= j] = "good"

\* Every argument and asset is resolved before anything is copied.
ResolveAll(c) ==
  /\ cmd[c].pc = "create"
  /\ \E source \in [1..4 -> {"absent", "bad", "good"}] :
       IF Resolved(source) THEN Goto(c, "copying") ELSE Ends(c, "fail")
  /\ UNCHANGED <<disk, temp, daemon, record, built>>

\* Mutant of TempOf: the name depends on the target only.
TempByTag(c) == CHOOSE d \in Command : TagOf(d) = TagOf(c)

\* temp_copy_target: a name beside the target that no other command uses.
TempOf(c) == c
Temporary(c, content) == temp' = [temp EXCEPT ![TempOf(c)] = content]

\* copy_rootfs_to: the copy begins, or cannot.
CopyBegin(c) ==
  /\ cmd[c].pc = "copying"
  /\ \/ Goto(c, "copyend") /\ Temporary(c, "part")
     \/ Ends(c, "fail") /\ Temporary(c, "none")
  /\ UNCHANGED <<disk, daemon, record, built>>

\* The bytes are all there, unless the name has gone with the directory; a copy that
\* fails is removed.
CopyEnd(c) ==
  /\ cmd[c].pc = "copyend"
  /\ \/ /\ Goto(c, "rename")
        /\ Temporary(c, IF temp[TempOf(c)] = "none" THEN "none" ELSE "whole")
     \/ Ends(c, "fail") /\ Temporary(c, "none")
  /\ UNCHANGED <<disk, daemon, record, built>>

\* The rename puts what the name holds in place, over whatever is there.  It fails if a
\* snapshot-delete has removed the directory, and may fail anyway; the name is removed.
CopyRename(c) ==
  /\ cmd[c].pc = "rename"
  /\ \/ /\ temp[TempOf(c)] # "none" /\ Goto(c, "boot")
        /\ disk' = [disk EXCEPT ![TagOf(c)].rootfs =
                      IF temp[TempOf(c)] = "whole" THEN "copy" ELSE "torn"]
     \/ Ends(c, "fail") /\ UNCHANGED disk
  /\ Temporary(c, "none")
  /\ UNCHANGED <<daemon, record, built>>

\* forkd snapshot (external): boots the copy and writes the memory, then the device
\* state, and lists the snapshot.
BootWrites(c) ==
  /\ cmd[c].pc = "boot" /\ built < MaxVer /\ disk[TagOf(c)].rootfs # "none"
  /\ built' = built + 1
  /\ disk' = [disk EXCEPT ![TagOf(c)].rootfs = "booted", ![TagOf(c)].mem = built + 1]
  /\ Goto(c, "state") /\ UNCHANGED <<temp, daemon, record>>

\* The binary ends well, or badly after its work is done (killed at the wall clock).
BootEnds(c) ==
  /\ cmd[c].pc = "state"
  /\ LET v == disk[TagOf(c)].mem
     IN /\ disk' = [disk EXCEPT ![TagOf(c)].state = v]
        /\ \E typed \in BOOLEAN :
             daemon' = [daemon EXCEPT ![TagOf(c)] = [ready |-> TRUE, typed |-> typed, ver |-> v]]
  /\ Goto(c, "info") \/ Goto(c, "clean")
  /\ UNCHANGED <<temp, record, built>>

\* The binary fails before it has built anything.
BootFails(c) ==
  /\ cmd[c].pc = "boot" /\ Goto(c, "clean")
  /\ UNCHANGED <<disk, temp, daemon, record, built>>

\* run_forkd_checked failed: the private copy is removed.
CleanCopy(c) ==
  /\ cmd[c].pc = "clean" /\ Ends(c, "fail")
  /\ disk' = [disk EXCEPT ![TagOf(c)].rootfs = "none"]
  /\ UNCHANGED <<temp, daemon, record, built>>

\* provenance_state: complete only for a typed record with the digests; a record that
\* cannot be fetched or read counts as unavailable.
Complete(t) == {FALSE} \cup {daemon[t].typed}

\* The info record after the create.  With --require-provenance anything but a
\* complete record fails the command; the snapshot stays.
PostCreateInfo(c) ==
  /\ cmd[c].pc = "info"
  /\ \E strict \in BOOLEAN, complete \in Complete(TagOf(c)) :
       Ends(c, IF strict /\ ~complete THEN "fail" ELSE "ok")
  /\ UNCHANGED <<disk, temp, daemon, record, built>>

\* snapshot-delete: forkd rmi removes the snapshot and its directory, temporary copies
\* included.
SnapshotDelete(t) ==
  /\ daemon[t].ready
  /\ daemon' = [daemon EXCEPT ![t].ready = FALSE]
  /\ disk' = [disk EXCEPT ![t] = NoFiles]
  /\ temp' = [c \in Command |-> IF TagOf(c) = t THEN "none" ELSE temp[c]]
  /\ UNCHANGED <<record, built, cmd>>

-----------------------------------------------------------------------------
(* snapshot-bind *)

\* The tag must be listed as ready; the detail's provenance comes before the list's.
\* A typed record is taken as it is, otherwise the files are measured.
BindList(c) ==
  /\ cmd[c].pc = "bind"
  /\ LET d == daemon[TagOf(c)]
     IN IF ~d.ready THEN Ends(c, "fail")
        ELSE IF d.typed
          THEN \E whole \in BOOLEAN :
                 cmd' = [cmd EXCEPT ![c].pc = "write", ![c].evidence =
                           [tag |-> TagOf(c), mem |-> d.ver, state |-> d.ver, whole |-> whole]]
          ELSE Goto(c, "memory")
  /\ UNCHANGED <<disk, temp, daemon, record, built>>

\* host_observed_provenance measures the directory of the tag the manifest names,
\* file by file; a missing file ends the command.  The other fields are measured again,
\* now or with the device state, or are the manifest's own: all fit or some do not.
MeasureMemory(c) ==
  /\ cmd[c].pc = "memory"
  /\ LET m == disk[cmd[c].artifact.tag].mem
     IN IF m = 0 THEN Ends(c, "fail")
        ELSE \E whole \in BOOLEAN :
               cmd' = [cmd EXCEPT ![c].pc = "vmstate", ![c].evidence =
                         [tag |-> cmd[c].artifact.tag, mem |-> m, state |-> 0, whole |-> whole]]
  /\ UNCHANGED <<disk, temp, daemon, record, built>>

MeasureState(c) ==
  /\ cmd[c].pc = "vmstate"
  /\ LET s == disk[cmd[c].artifact.tag].state
     IN IF s = 0 THEN Ends(c, "fail")
        ELSE cmd' = [cmd EXCEPT ![c].pc = "write", ![c].evidence.state = s]
  /\ UNCHANGED <<disk, temp, daemon, record, built>>

\* Mutant of Verified: the device state is not compared.
VerifiedMemory(e, a) == e.whole /\ e.mem = a.ver

\* verified: no field of the typed record is missing or differs from the manifest.
Verified(e, a) == e.whole /\ e.mem = a.ver /\ e.state = a.ver

\* With --require-provenance a record that is not verified is not written.  The controller's
\* digest, or that of the measured directory if it has none, is not compared here.
BindWrite(c) ==
  /\ cmd[c].pc = "write"
  /\ LET ok == Verified(cmd[c].evidence, cmd[c].artifact)
     IN \/ ~ok /\ Ends(c, "fail") /\ UNCHANGED record
        \/ /\ Goto(c, "bound")
           /\ \E digest \in {daemon[TagOf(c)].ver, cmd[c].evidence.mem} :
              record' = [tag |-> TagOf(c), artifact |-> cmd[c].artifact,
                         evidence |-> cmd[c].evidence, digest |-> digest,
                         verification |-> IF ok THEN "verified" ELSE "partial"]
  /\ UNCHANGED <<disk, temp, daemon, built>>

-----------------------------------------------------------------------------
(* The provenance gate of an acceptance *)

\* Mutant of Loads: the manifest's own tag is not compared.
LoadsAnyTag(t, a) ==
  /\ record # Nothing /\ record.tag = t
  /\ record.verification = "verified" => record.digest = record.artifact.ver
  /\ record.artifact = a

\* load_snapshot_binding with a manifest: the record is for the tag, a verified one
\* has the manifest's snapshot digest, and the manifest is the one it was made for
\* and names the tag.
Loads(t, a) ==
  /\ record # Nothing /\ record.tag = t
  /\ record.verification = "verified" => record.digest = record.artifact.ver
  /\ record.artifact = a /\ a.tag = t

\* A bind is followed by an acceptance with its tag and manifest, under
\* --require-provenance.
Accept(c) ==
  /\ cmd[c].pc = "bound"
  /\ IF Loads(TagOf(c), cmd[c].artifact)
       THEN cmd' = [cmd EXCEPT ![c].pc = "accept", ![c].res = record.verification,
                               ![c].evidence = record.evidence]
       ELSE cmd' = [cmd EXCEPT ![c].pc = "accept", ![c].res = "refused"]
  /\ UNCHANGED <<disk, temp, daemon, record, built>>

FsNext ==
  \/ \E c \in Command :
       \/ ResolveAll(c) \/ CopyBegin(c) \/ CopyEnd(c) \/ CopyRename(c) \/ BootWrites(c)
       \/ BootEnds(c) \/ BootFails(c) \/ CleanCopy(c) \/ PostCreateInfo(c)
       \/ BindList(c) \/ MeasureMemory(c) \/ MeasureState(c) \/ BindWrite(c) \/ Accept(c)
  \/ \E t \in Tag : SnapshotDelete(t)

FsSpec == FsInit /\ [][FsNext]_fsvars

-----------------------------------------------------------------------------
(* The rootfs that forkd boots is never a half written copy, whichever creates *)
(* and deletes of the tag run side by side (snapshot_paths.rs copy_rootfs_to).  *)
CopyWhole == \A t \in Tag : disk[t].rootfs # "torn"

(* An acceptance that went on with a verified record: the memory and the device *)
(* state of that very tag were seen with the manifest's digests when it was     *)
(* written (binding.rs snapshot_bind, validate_binding).                        *)
AcceptedIsBacked ==
  \A c \in Command :
    cmd[c].pc = "accept" /\ cmd[c].res = "verified" =>
      LET e == cmd[c].evidence
      IN e.tag = TagOf(c) /\ e.mem = cmd[c].artifact.ver /\ e.state = cmd[c].artifact.ver

\* Side by side, `snapshot create` never boots from a half-written copy, and what an
\* acceptance calls verified was measured, memory and device state both, of that tag
\* (snapshot_paths.rs copy_rootfs_to, binding.rs).
SnapshotsBacked == CopyWhole /\ AcceptedIsBacked

=============================================================================
