----------------------------- MODULE ImageBuild -----------------------------
(******************************************************************************)
(* rfb-cli image: builds of a root filesystem image                           *)
(* (rfb/src/cli/image_build).  Several rfb-cli processes build towards one    *)
(* output path, from one runtime binary and one staging directory.            *)
(*                                                                            *)
(* A build assembles a temporary image beside the output with debugfs, one    *)
(* stage after the other, and renames it over the output; the three           *)
(* companions of the image (artifact sidecar, checksum, manifest) are written *)
(* after that.  An image is a function from the paths the contracts speak of  *)
(* to what is there; the digest of an image is the image.                     *)
(******************************************************************************)
EXTENDS Naturals, Sequences, FiniteSets

CONSTANTS
  Builder,  \* rfb-cli processes
  Jobs,     \* what they may be asked to build
  MaxEdits  \* bound: edits of the staging directory

\* The contract modes, and the kinds of build the CLI can be asked for.
Modes == {"rfb-vsock", "forkd-agent", "zeroboot-zbrt"}
Path == {"install", "boot", "sh", "marker", "forbidden", "applet", "python", "staged"}
Job == [kind : {"rootfs", "script", "all", "staging"}, mode : Modes, force : BOOLEAN,
        py : BOOLEAN, features : SUBSET {"py", "other"}, extra : SUBSET Path,
        sidecar : {"mode", "oci"}]

ASSUME JobsAssumption == Jobs \subseteq Job /\ MaxEdits \in Nat

VARIABLES
  binary,    \* features compiled into the runtime binary, Absent before
  edits,     \* the staged file's version
  job,       \* builder -> what it builds
  bat,       \* builder -> its stage
  img,       \* builder -> its temporary image
  dig,       \* builder -> the digest it has computed
  out,       \* the published image
  side,      \* the digest in the artifact sidecar
  check,     \* the digest in the checksum file
  manifest,  \* the digest in the compact manifest
  alone      \* history: one builder at most was in its publishing stages
             \* since the published image was replaced, and it did not fail

ibvars == <<binary, edits, job, bat, img, dig, out, side, check, manifest, alone>>

Absent == {"absent"}

Nothing == [from |-> "nothing", ver |-> {}, exec |-> FALSE]
File(f, v, x) == [from |-> f, ver |-> v, exec |-> x]
NoFiles == [p \in Path |-> Nothing]
NoJob == [kind |-> "none", mode |-> "none", force |-> FALSE, py |-> FALSE,
          features |-> {}, extra |-> {}, sidecar |-> "none"]
NoImage == [by |-> "nobody", job |-> NoJob, gate |-> {}, files |-> NoFiles]

\* The path each mode boots: forkd boots a hard link to the installed binary.
Entrypoint(mode) == IF mode = "forkd-agent" THEN "boot" ELSE "install"

-----------------------------------------------------------------------------
(* Stages *)

\* Mutant of Order: the image is published before its userland is in.
OrderPublishEarly ==
  <<"static", "gate", "format", "layout", "runtime", "marker", "verify",
    "digest", "persist", "userland", "link", "extra", "sidecar", "checksum", "compact",
    "boot", "done">>

\* The stages of build_from_script and build_all; build_rootfs alone starts at
\* the gate and ends after the compact manifest.
Order ==
  <<"static", "gate", "format", "layout", "runtime", "marker", "verify", "userland",
    "link", "extra", "digest", "persist", "sidecar", "checksum", "compact", "boot", "done">>

\* build of a staging manifest.
StagingOrder ==
  <<"validate", "gate", "format", "inject", "digest", "persist", "sidecar", "done">>

StageAfter(o, s) == o[(CHOOSE i \in DOMAIN o : o[i] = s) + 1]
After(b) ==
  LET s == StageAfter(IF job[b].kind = "staging" THEN StagingOrder ELSE Order, bat[b])
  IN IF s = "boot" /\ job[b].kind # "all" THEN "done" ELSE s

Publishing == {"sidecar", "checksum", "compact"}

IbTypeOK ==
  /\ binary \in (SUBSET {"py", "other"}) \cup {Absent}
  /\ edits \in 0..MaxEdits
  /\ \A b \in Builder :
       /\ job[b] \in Jobs \cup {NoJob}
       /\ bat[b] \in {Order[i] : i \in DOMAIN Order}
                      \cup {StagingOrder[i] : i \in DOMAIN StagingOrder}
                      \cup {"idle"}
       /\ img[b].by \in {b, "nobody"}
  /\ alone \in BOOLEAN

IbInit ==
  /\ binary \in {Absent, {}, {"py"}} /\ edits = 0
  /\ job = [b \in Builder |-> NoJob]
  /\ bat = [b \in Builder |-> "idle"]
  /\ img = [b \in Builder |-> NoImage] /\ dig = [b \in Builder |-> NoImage]
  /\ out = NoImage /\ side = NoImage /\ check = NoImage /\ manifest = NoImage
  /\ alone = TRUE

shared == <<binary, edits, out, side, check, manifest, alone>>
published == <<out, side, check, manifest, alone>>

-----------------------------------------------------------------------------
(* Contract data *)

\* The artifact manifest a build constructs: for_rootfs by mode, for_image from
\* the transport and protocol of the staging manifest.
ArtifactFor(j) ==
  IF j.sidecar = "oci"
  THEN [backend |-> "rfb1", transport |-> "oci", protocol |-> "rfb1", port |-> 5000,
        entrypoint |-> "staged"]
  ELSE CASE j.mode = "forkd-agent" -> [backend |-> "forkd", transport |-> "tcp",
                                       protocol |-> "forkd", port |-> 8888, entrypoint |-> "boot"]
         [] j.mode = "rfb-vsock" -> [backend |-> "rfb1", transport |-> "vsock",
                                     protocol |-> "rfb1", port |-> 5000, entrypoint |-> "install"]
         [] OTHER -> [backend |-> "zeroboot", transport |-> "virtio-vsock",
                      protocol |-> "zbrt", port |-> 5000, entrypoint |-> "install"]

\* check_file of the rootfs entry: the file at the path, if there is one, must
\* have the recorded digest.
CheckFile(d) == out # NoImage => out = d

\* validate_schema, and validate with the contract of each backend on top.
ValidateSchema(a, d) ==
  /\ a.backend \in {"forkd", "rfb1", "zeroboot"} /\ a.port # 0
  /\ CheckFile(d)

Validate(a, d) ==
  /\ ValidateSchema(a, d)
  /\ a.transport \in {"tcp", "vsock", "virtio-vsock", "oci"}
  /\ a.backend = "forkd" => a.transport = "tcp" /\ a.protocol = "forkd"
  /\ a.backend = "rfb1" => a.transport = "vsock" /\ a.protocol = "rfb1"
  /\ a.backend = "zeroboot" => a.transport = "virtio-vsock" /\ a.protocol = "zbrt"
  /\ a.port = IF a.backend = "forkd" THEN 8888 ELSE 5000
  /\ a.entrypoint # ""

\* stat_is_executable_regular
ExecutableRegular(f) == f.from # "nothing" /\ f.exec

\* What build_rootfs checks of an image it has assembled: the entrypoint, the
\* installed runtime against the source, the markers, and that a ZeroBoot image
\* has no trace of the other runtimes.
Verified(mode, files, source) ==
  /\ ExecutableRegular(files[Entrypoint(mode)])
  /\ files["install"] = File("runtime", source, TRUE)
  /\ mode # "forkd-agent" => files["marker"] = File("marker", {mode}, FALSE)
  /\ mode = "zeroboot-zbrt" => files["forbidden"] = Nothing

-----------------------------------------------------------------------------
(* Building blocks *)

PutFiles(b, ps, f) ==
  [img EXCEPT ![b].files = [p \in Path |-> IF p \in ps THEN f ELSE @[p]]]
\* clear_inode and debugfs write with mode 0755.
ForceWrite(b, ps, f) == PutFiles(b, ps, File(f.from, f.ver, TRUE))
\* clear_inode and debugfs ln: both names share the inode, and a later write to
\* one of them makes a new inode.
InstallHardlink(b, source, link) == PutFiles(b, {link}, img[b].files[source])

Advance(b) == bat' = [bat EXCEPT ![b] = After(b)]
\* Every error drops the NamedTempFile: the output is as it was.
Abort(b) == bat' = [bat EXCEPT ![b] = "done"] /\ img' = [img EXCEPT ![b] = NoImage]

-----------------------------------------------------------------------------
(* Actions *)

\* image build-rootfs, build-script, build-all or build of a staging manifest.
StartBuild(b, j) ==
  /\ bat[b] = "idle" /\ j \in Jobs
  /\ job' = [job EXCEPT ![b] = j]
  /\ bat' = [bat EXCEPT ![b] = CASE j.kind = "staging" -> "validate"
                               [] j.kind = "rootfs" -> "gate"
                               [] OTHER -> "static"]
  /\ UNCHANGED <<shared, img, dig>>

\* build_static_runtime: cargo replaces the binary in the shared target
\* directory by one with this job's features.
BuildStatic(b) ==
  /\ bat[b] = "static"
  /\ binary' = job[b].features
  /\ Advance(b)
  /\ UNCHANGED <<edits, job, img, dig, published>>

\* manifest validate: the staged files have the sizes and digests recorded,
\* which are those of version 0 here.
ValidateManifest(b) ==
  /\ bat[b] = "validate"
  /\ IF edits = 0 THEN Advance(b) /\ UNCHANGED img ELSE Abort(b)
  /\ UNCHANGED <<shared, job, dig>>

\* The conditions before anything is created: an output that exists is only
\* replaced with --force, the binary is there and has the interpreter asked for.
Gate(b) ==
  /\ bat[b] = "gate"
  /\ IF /\ out = NoImage \/ job[b].force
        /\ job[b].kind # "staging" => binary # Absent
        /\ job[b].py => "py" \in binary
       THEN /\ img' = [img EXCEPT ![b] = [by |-> b, job |-> job[b], gate |-> binary,
                                          files |-> NoFiles]]
            /\ Advance(b)
       ELSE Abort(b)
  /\ UNCHANGED <<shared, job, dig>>

\* truncate and mke2fs on the temporary image.
Format(b) ==
  /\ bat[b] = "format"
  /\ Advance(b)
  /\ UNCHANGED <<shared, job, img, dig>>

\* The base directories and /bin/sh, if rfb-busybox lies next to the binary.
Layout(b) ==
  /\ bat[b] = "layout"
  /\ \/ img' = ForceWrite(b, {"sh"}, File("busybox", {}, FALSE))
     \/ UNCHANGED img
  /\ Advance(b)
  /\ UNCHANGED <<shared, job, dig>>

\* The runtime binary as it is now; forkd's entrypoint is a link to it.
InstallRuntime(b) ==
  /\ bat[b] = "runtime"
  /\ LET names == IF job[b].mode = "forkd-agent" THEN {"install", "boot"} ELSE {"install"}
     IN img' = ForceWrite(b, names, File("runtime", binary, TRUE))
  /\ Advance(b)
  /\ UNCHANGED <<shared, job, dig>>

\* write_marker: the protocol markers of the rfb-vsock and ZBRT modes.
WriteMarkers(b) ==
  /\ bat[b] = "marker"
  /\ img' = IF job[b].mode = "forkd-agent" THEN img
            ELSE PutFiles(b, {"marker"}, File("marker", {job[b].mode}, FALSE))
  /\ Advance(b)
  /\ UNCHANGED <<shared, job, dig>>

Verify(b) ==
  /\ bat[b] = "verify"
  /\ IF Verified(job[b].mode, img[b].files, binary)
       THEN Advance(b) /\ UNCHANGED img
       ELSE Abort(b)
  /\ UNCHANGED <<shared, job, dig>>

\* The applets of a ZBRT image; rfb-mini-tools must lie next to the binary.
InstallUserland(b) ==
  /\ bat[b] = "userland"
  /\ IF job[b].mode = "zeroboot-zbrt"
       THEN \/ img' = ForceWrite(b, {"applet"}, File("mini", {}, FALSE)) /\ Advance(b)
            \/ Abort(b)
       ELSE Advance(b) /\ UNCHANGED img
  /\ UNCHANGED <<shared, job, dig>>

\* /bin/python3 and /bin/lua link to the entrypoint.
LinkInterpreters(b) ==
  /\ bat[b] = "link"
  /\ img' = IF job[b].py THEN InstallHardlink(b, Entrypoint(job[b].mode), "python") ELSE img
  /\ Advance(b)
  /\ UNCHANGED <<shared, job, dig>>

\* install_site_dir and install_extra_files: each payload replaces what is at
\* its path and is compared with its source; a script's [files] get mode 0644.
InstallPayload(b) ==
  /\ bat[b] = "extra"
  /\ img' = PutFiles(b, job[b].extra, File("host", {}, FALSE))
  /\ Advance(b)
  /\ UNCHANGED <<shared, job, dig>>

\* Mutant of Inject: the copied bytes are not compared with the manifest.
InjectUnchecked(b) ==
  /\ bat[b] = "inject"
  /\ img' = PutFiles(b, {"staged"}, File("staged", {edits}, TRUE))
  /\ Advance(b)
  /\ UNCHANGED <<shared, job, dig>>

\* debugfs write of the staged files, each read back and compared with the size
\* and digest of the manifest.
Inject(b) ==
  /\ bat[b] = "inject"
  /\ IF edits = 0
       THEN img' = PutFiles(b, {"staged"}, File("staged", {edits}, TRUE)) /\ Advance(b)
       ELSE Abort(b)
  /\ UNCHANGED <<shared, job, dig>>

Digest(b) ==
  /\ bat[b] = "digest"
  /\ dig' = [dig EXCEPT ![b] = img[b]]
  /\ Advance(b)
  /\ UNCHANGED <<shared, job, img>>

\* persist renames the temporary image over the output, whatever is there now.
Persist(b) ==
  /\ bat[b] = "persist"
  /\ out' = img[b]
  /\ Advance(b)
  /\ alone' = (\A c \in Builder \ {b} : bat[c] \notin Publishing)
  /\ UNCHANGED <<binary, edits, job, img, dig, side, check, manifest>>

\* for_rootfs or for_image; validate (validate_schema for a staging manifest)
\* compares the output's digest; write_sidecar replaces the sidecar.
WriteSidecar(b) ==
  /\ bat[b] = "sidecar"
  /\ LET a == ArtifactFor(job[b])
     IN IF IF job[b].kind = "staging" THEN ValidateSchema(a, dig[b]) ELSE Validate(a, dig[b])
          THEN side' = dig[b] /\ Advance(b) /\ UNCHANGED <<img, alone>>
          ELSE Abort(b) /\ alone' = FALSE /\ UNCHANGED side
  /\ UNCHANGED <<binary, edits, job, dig, out, check, manifest>>

\* Mutant of WriteChecksum: a checksum file that is there is kept.
WriteChecksumOnce(b) ==
  /\ bat[b] = "checksum"
  /\ check' = IF check = NoImage THEN dig[b] ELSE check
  /\ Advance(b)
  /\ UNCHANGED <<binary, edits, job, img, dig, out, side, manifest, alone>>

\* atomic_write of the checksum file.
WriteChecksum(b) ==
  /\ bat[b] = "checksum"
  /\ check' = dig[b]
  /\ Advance(b)
  /\ UNCHANGED <<binary, edits, job, img, dig, out, side, manifest, alone>>

\* atomic_write of the compact manifest.
WriteManifest(b) ==
  /\ bat[b] = "compact"
  /\ manifest' = dig[b]
  /\ Advance(b)
  /\ UNCHANGED <<binary, edits, job, img, dig, out, side, check, alone>>

\* build_all with --kernel: check_kernel, then the boot verification, which
\* reads the output again.
BootCheck(b) ==
  /\ bat[b] = "boot"
  /\ IF out.job.mode = "zeroboot-zbrt" /\ ExecutableRegular(out.files["install"])
       THEN Advance(b) /\ UNCHANGED img
       ELSE Abort(b)
  /\ UNCHANGED <<shared, job, dig>>

\* A tool fails, the disk is full, or the process is killed (its temporary
\* image is left on the disk then): the build ends where it is.
BuildFails(b) ==
  /\ bat[b] \notin {"idle", "done"}
  /\ Abort(b)
  /\ alone' = (alone /\ bat[b] \notin Publishing)
  /\ UNCHANGED <<binary, edits, job, dig, out, side, check, manifest>>

\* Someone edits the staging directory.
EditStaging ==
  /\ edits < MaxEdits
  /\ edits' = edits + 1
  /\ UNCHANGED <<binary, job, bat, img, dig, published>>

IbNext ==
  \/ \E b \in Builder :
       \/ \E j \in Jobs : StartBuild(b, j)
       \/ BuildStatic(b) \/ ValidateManifest(b) \/ Gate(b) \/ Format(b) \/ Layout(b)
       \/ InstallRuntime(b) \/ WriteMarkers(b) \/ Verify(b) \/ InstallUserland(b)
       \/ LinkInterpreters(b) \/ InstallPayload(b) \/ Inject(b) \/ Digest(b)
       \/ Persist(b) \/ WriteSidecar(b) \/ WriteChecksum(b) \/ WriteManifest(b)
       \/ BootCheck(b) \/ BuildFails(b)
  \/ EditStaging

IbSpec == IbInit /\ [][IbNext]_ibvars

-----------------------------------------------------------------------------
(* Properties *)

\* What an image must hold on the paths no payload file was mapped to.
Whole(i) ==
  LET ours(p, ok) == p \in i.job.extra \/ ok
      mode == i.job.mode
      entry == Entrypoint(mode)
  IN IF i.job.kind = "staging"
       THEN i.files["staged"] = File("staged", {0}, TRUE)
       ELSE /\ ours(entry, ExecutableRegular(i.files[entry]))
            /\ ours("install", i.files["install"].from = "runtime")
            /\ ours("marker", mode = "forkd-agent" \/ i.files["marker"].from = "marker")
            /\ ours("forbidden", i.files["forbidden"] = Nothing)
            /\ ours("applet", mode = "zeroboot-zbrt" => i.files["applet"].from = "mini")
            /\ i.job.py /\ {entry, "python"} \cap i.job.extra = {}
                 => /\ i.files["python"] = i.files[entry]
                    /\ i.files["python"].ver = i.gate => "py" \in i.files["python"].ver

\* The image at the output path is at all times one that some build assembled
\* completely and checked, whatever fails, dies or runs beside it (persist as
\* the last step of the assembly); a staged image holds what its manifest says.
PublishedWhole == out # NoImage => Whole(out)

\* Once the last publisher of the output has finished and no other build was
\* publishing at the same time, the sidecar, the checksum and the manifest are
\* those of the image that is there.
CompanionsAgree ==
  alone /\ out # NoImage /\ (\A b \in Builder : bat[b] \notin Publishing)
    => /\ side = out
       /\ out.job.kind # "staging" => check = out /\ manifest = out

\* The image at the output path is one that some build assembled completely and
\* checked, whatever fails, dies or runs beside it, and with no other build running its
\* sidecar, checksum and manifest are its own (image_build/build.rs).
PublishedTrue == IbTypeOK /\ PublishedWhole /\ CompanionsAgree

=============================================================================
