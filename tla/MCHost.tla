------------------------------- MODULE MCHost -------------------------------
(***************************************************************************)
(* The host's machines other than ZeroBoot's, each in a small instance.    *)
(* They share no state, so a behaviour of this model is one of a single    *)
(* machine: `scene` says which, and the others keep their initial values.  *)
(*                                                                         *)
(* The forkd cluster comes twice, over the same variables: one node with   *)
(* release() and probe() in use, and a pair of nodes to fail over between, *)
(* in a time too short for a tripped node to be tried again.               *)
(***************************************************************************)
EXTENDS Cluster, ForkdGuest, ForkdGates, ForkdSnapshots, Orchestration, AgentLoop, ZbrtClient,
        TLC

Pair == INSTANCE Cluster WITH NNodes <- 2, LeastInflight <- TRUE, Releases <- FALSE,
                              Probes <- FALSE, FailureTrip <- 2, MaxTime <- 0

VARIABLE scene

machines == <<vars, fgvars, fgavars, fsvars, orvars, alvars, zcvars>>

\* The scenes whose commands and calls come to an end.
Ending == {"requests", "gates", "snapshots", "session", "agent", "client"}

HostInit ==
  /\ scene \in {"cluster", "pair"} \cup Ending
  /\ IF scene = "pair" THEN Pair!Init ELSE Init
  /\ FgInit /\ (scene # "requests" => ~gated /\ token = "none")
  /\ IF scene = "gates" THEN FgaInit
     ELSE /\ ctl = "off" /\ ctlBy = "other" /\ live = {} /\ vm = {} /\ late = {}
          /\ snap = "absent" /\ made = 0 /\ faults = 0
          /\ inv = [r \in Run |-> Fresh("acceptance")]
  /\ FsInit /\ (scene # "snapshots" =>
                  cmd = [c \in Command |-> IF c \in Maker THEN Begin("create", "s", Nothing)
                                           ELSE Begin("bind", "s", CHOOSE a \in Artifact : TRUE)])
  /\ OrInit /\ AlInit
  /\ ZcInit /\ (scene # "client" => s.cut)

HostNext ==
  /\ \/ /\ scene = "cluster" /\ Next
        /\ UNCHANGED <<fgvars, fgavars, fsvars, orvars, alvars, zcvars>>
     \/ /\ scene = "pair" /\ Pair!Next
        /\ UNCHANGED <<fgvars, fgavars, fsvars, orvars, alvars, zcvars>>
     \/ /\ scene = "requests" /\ FgNext
        /\ UNCHANGED <<vars, fgavars, fsvars, orvars, alvars, zcvars>>
     \/ /\ scene = "gates" /\ FgaNext
        /\ UNCHANGED <<vars, fgvars, fsvars, orvars, alvars, zcvars>>
     \/ /\ scene = "snapshots" /\ FsNext
        /\ UNCHANGED <<vars, fgvars, fgavars, orvars, alvars, zcvars>>
     \/ /\ scene = "session" /\ OrNext
        /\ UNCHANGED <<vars, fgvars, fgavars, fsvars, alvars, zcvars>>
     \/ /\ scene = "agent" /\ AlNext
        /\ UNCHANGED <<vars, fgvars, fgavars, fsvars, orvars, zcvars>>
     \/ /\ scene = "client" /\ ZcNext
        /\ UNCHANGED <<vars, fgvars, fgavars, fsvars, orvars, alvars>>
     \/ scene \in Ending /\ UNCHANGED machines
  /\ UNCHANGED scene

HostSpec == HostInit /\ [][HostNext]_<<scene, machines>>

\* The callers of the cluster are interchangeable.
Callers == Permutations(Proc)

\* Every machine keeps its types: no counter of the cluster passes zero, no warm
\* pool outgrows its capacity, no lock or placeholder has an impossible owner.  With
\* two nodes to fail over between, both counters are the guards and handles left.
HostTypeOK ==
  CASE scene = "cluster" -> TypeOK
    [] scene = "pair" -> Pair!TypeOK /\ Pair!InflightIsReservations
    [] scene = "requests" -> FgTypeOK
    [] scene = "gates" -> FgaTypeOK
    [] scene = "snapshots" -> FsTypeOK
    [] scene = "session" -> OrTypeOK
    [] scene = "agent" -> AlTypeOK
    [] scene = "client" -> ZcTypeOK

=============================================================================
