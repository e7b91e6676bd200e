-------------------------------- MODULE MCPool --------------------------------
(***************************************************************************)
(* Small instances of SessionPool and ImageBuild in one model: a behaviour *)
(* is one of the callers of a sandbox's session pool, or one of the builds *)
(* of the image that sandboxes boot from.                                  *)
(***************************************************************************)
EXTENDS SessionPool, ImageBuild

VARIABLE scene

\* The builds the image scene chooses from: kind, contract mode, --force, python as an
\* applet, features of the runtime binary, payload files over contract paths, sidecar.
Build(kind, mode, force, py, features, extra, sidecar) ==
  [kind |-> kind, mode |-> mode, force |-> force, py |-> py, features |-> features,
   extra |-> extra, sidecar |-> sidecar]

MCJobs ==
  { Build("rootfs", "zeroboot-zbrt", FALSE, TRUE, {}, {}, "mode"),
    Build("script", "forkd-agent", TRUE, TRUE, {"py"}, {"applet"}, "mode"),
    Build("all", "zeroboot-zbrt", TRUE, FALSE, {"other"}, {}, "mode"),
    Build("staging", "rfb-vsock", TRUE, FALSE, {}, {}, "oci") }

PoolInit ==
  /\ scene \in {"pool", "image"}
  /\ Init /\ IbInit
  /\ scene = "pool" => binary = Absent

PoolNext ==
  /\ \/ scene = "pool" /\ Next /\ UNCHANGED ibvars
     \/ scene = "image" /\ IbNext /\ UNCHANGED vars
     \/ scene = "image" /\ UNCHANGED <<vars, ibvars>>      \* the builds may come to rest
  /\ UNCHANGED scene

\* The pool's fairness is the one of its module; nothing is asked of the builds.
PoolSpec ==
  /\ PoolInit /\ [][PoolNext]_<<scene, vars, ibvars>>
  /\ \A p \in Proc : /\ WF_vars(scene = "pool" /\ Progress(p))
                     /\ SF_vars(scene = "pool" /\ TakePermit(p))

=============================================================================
