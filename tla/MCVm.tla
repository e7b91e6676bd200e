-------------------------------- MODULE MCVm --------------------------------
(****************************************************************************)
(* Small instances of VmLifecycle and Firecracker in one model: a behaviour *)
(* is one of the sandboxes on a host, or one of a single VM's controller.   *)
(****************************************************************************)
EXTENDS VmLifecycle, Firecracker, TLC

VARIABLE scene

machines == <<vars, fcvars>>

Init ==
  /\ scene \in {"sandboxes", "controller"}
  /\ VmInit /\ FcInit
  /\ scene # "controller" => build = "patched"

Next ==
  /\ \/ scene = "sandboxes" /\ VmNext /\ UNCHANGED fcvars
     \/ scene = "controller" /\ FcNext /\ UNCHANGED vars
     \/ UNCHANGED machines      \* every machine may come to rest
  /\ UNCHANGED scene

Spec == Init /\ [][Next]_<<scene, machines>>

\* Processes and sandboxes are interchangeable.
Names == Permutations(Host) \cup Permutations(Box)

\* Every variable of the two machines keeps its type.
TypeOK ==
  CASE scene = "sandboxes" -> VmTypeOK
    [] scene = "controller" -> FcTypeOK

=============================================================================
