------------------------------- MODULE MCGuest -------------------------------
(*****************************************************************************)
(* The guest's machines other than the ZBRT connection, each in a small      *)
(* instance.  They share no state, so a behaviour of this model is one of a  *)
(* single machine: `scene` says which, and the others keep their initial     *)
(* values.                                                                   *)
(*                                                                           *)
(* The runtime service comes three times over the same variables: behind two *)
(* framed connections that share one session or have one each, and driven by *)
(* a single caller, where more requests fit and the caches hold two results. *)
(*****************************************************************************)
EXTENDS GuestConnection, WorkspaceExec, WorkspaceFiles, AgentStream, Scan, Codec

CONSTANTS s1, s2, r1, r2, r3, blank

Apart == INSTANCE GuestConnection WITH Session <- {s1, s2}, Request <- {r1}
Serial == INSTANCE SerialRuntime
            WITH Session <- {s1, s2}, Request <- {r1, r2, r3, blank}, CompletedLimit <- 2

\* Not used: TLC evaluates the constant definitions of RuntimeService once and for all
\* unless the module itself is instantiated, and the instances above need their own.
Service == INSTANCE RuntimeService

VARIABLE scene

machines == <<vars, wxvars, wfvars, asvars, m, io>>

\* The scenes in which a command, a stream or a computation comes to its end.
Ending == {"exec", "files", "stream", "scan", "codec"}

NoConnections ==
  /\ pc = [c \in Conn |-> "loop"] /\ turn = [c \in Conn |-> NoTurn]
  /\ worker = [c \in Conn |-> "none"] /\ result = [c \in Conn |-> "none"]
  /\ age = [c \in Conn |-> 0] /\ waited = [c \in Conn |-> 0] /\ lost = "no"

GuestInit ==
  /\ scene \in {"together", "apart", "serial"} \cup Ending
  /\ CASE scene = "apart" -> Apart!Init
       [] scene = "serial" -> Serial!Init /\ NoConnections
       [] OTHER -> Init
  /\ WxInit
  /\ WfInit /\ (scene # "files" => \A f \in Name : size[f] = 0)
  /\ AsInit /\ (scene # "stream" => mode = "exec")
  /\ IF scene = "scan" THEN ScInit ELSE m = GlobStart(<<>>, <<>>)
  /\ IF scene = "codec" THEN CdInit ELSE io = [what |-> "nothing"]

GuestNext ==
  /\ \/ /\ \/ scene = "together" /\ Next
           \/ scene = "apart" /\ Apart!Next
           \/ scene = "serial" /\ Serial!Next /\ UNCHANGED <<conns, lost>>
        /\ UNCHANGED <<wxvars, wfvars, asvars, m, io>>
     \/ scene = "exec" /\ WxNext /\ UNCHANGED <<vars, wfvars, asvars, m, io>>
     \/ scene = "files" /\ WfNext /\ UNCHANGED <<vars, wxvars, asvars, m, io>>
     \/ scene = "stream" /\ AsNext /\ UNCHANGED <<vars, wxvars, wfvars, m, io>>
     \/ scene = "scan" /\ ScNext /\ UNCHANGED <<vars, wxvars, wfvars, asvars, io>>
     \/ scene = "codec" /\ CdNext /\ UNCHANGED <<vars, wxvars, wfvars, asvars, m>>
     \/ scene \in Ending /\ UNCHANGED machines
  /\ UNCHANGED scene

\* The fairness of each machine is the one its module justifies.
GuestSpec ==
  /\ GuestInit /\ [][GuestNext]_<<scene, machines>>
  /\ \A c \in Conn :
       /\ WF_vars(scene = "together" /\ Internal(c))
       /\ WF_vars(scene = "together" /\ \E r \in Results : WorkerEnds(c, r))
       /\ WF_vars(scene = "apart" /\ Apart!Internal(c))
       /\ WF_vars(scene = "apart" /\ \E r \in Results : Apart!WorkerEnds(c, r))
  /\ WF_wxvars(scene = "exec" /\ ExecThread) /\ WF_wxvars(scene = "exec" /\ DeadlinePasses)
  /\ SF_wxvars(scene = "exec" /\ WindowPasses)

-----------------------------------------------------------------------------
(* What the run checks, besides what the modules themselves state *)

\* Every machine keeps its types, the bounds of the service's result caches and
\* tombstones included.
GuestTypeOK ==
  CASE scene = "together" -> TypeOK
    [] scene = "apart" -> Apart!TypeOK
    [] scene = "serial" -> Serial!TypeOK
    [] scene = "exec" -> WxTypeOK
    [] scene = "files" -> WfTypeOK
    [] scene = "stream" -> AsTypeOK
    [] OTHER -> TRUE

\* No session stays wedged on a request that is over: when the executor is at home no
\* session has an active turn, and with a single caller no settled request is active.
NoSessionWedged ==
  CASE scene = "serial" -> Serial!SettledNotActive
    [] scene = "apart" -> Apart!NoPhantomTurn
    [] OTHER -> NoPhantomTurn

\* The pure algorithms agree with their reference definitions on every bounded
\* input: the glob matcher's backtracking with matching by cases, a search's answer
\* and its truncation flag with the whole tree, the incremental UTF-8 splitter with
\* the undivided text, and every codec with its inverse (glob.rs, search.rs,
\* utf8_boundary.rs, zeroboot_protocol.rs, codec.rs).
AlgorithmsAgree ==
  CASE scene = "scan" -> GlobIsRight /\ CutIsTold /\ ChunksJoin
    [] scene = "codec" -> CodecsAgree
    [] OTHER -> TRUE

=============================================================================
