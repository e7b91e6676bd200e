-------------------------------- MODULE Cluster --------------------------------
(***************************************************************************)
(* The forkd cluster provider (rfb/src/cluster.rs): scheduling of sandbox  *)
(* creates over controller nodes with failover, half-open recovery of      *)
(* tripped nodes, reconciliation after indeterminate failures, and the     *)
(* in-flight counters.                                                     *)
(*                                                                         *)
(* Each process is a caller of create_sandbox_with; one more process calls *)
(* probe().  Their awaits, and the atomic accesses other callers can come  *)
(* between, are separate actions.  The controllers are external: a create  *)
(* request may land (the sandbox exists) whatever its caller gets to see,  *)
(* even after the caller has given up on it.                               *)
(***************************************************************************)
EXTENDS Integers, FiniteSets, Sequences

CONSTANTS
  NNodes,            \* number of nodes
  Proc,              \* callers
  Interval,          \* recovery_interval, in clock units
  FailureTrip,       \* FAILURE_TRIP
  LeastInflight,     \* strategy: LeastInflight, or RoundRobin
  Releases,          \* whether callers also use the compatibility release()
  Probes,            \* whether somebody calls probe()
  MaxTime, MaxBoxes  \* bounds of the model

ASSUME NNodesAssumption == NNodes \in Nat \ {0}
ASSUME ProcAssumption == IsFiniteSet(Proc)
ASSUME IntervalAssumption == Interval \in Nat
ASSUME TripAssumption == FailureTrip \in Nat \ {0}
ASSUME FlagsAssumption == {LeastInflight, Releases, Probes} \subseteq BOOLEAN
ASSUME BoundsAssumption == MaxTime \in Nat /\ MaxBoxes \in Nat

Nodes == 0..(NNodes - 1)
BoxIds == 1..MaxBoxes

VARIABLES
  clock,        \* wall clock; one unit stands for one second
  inflight, failures, gate,     \* NodeState: inflight, failures, next_trial_ms
  cursor,       \* ClusterProvider.cursor, modulo the number of nodes
  call,         \* the locals of each caller (see Call)
  probe,        \* the locals of the prober
  boxes,        \* sandboxes that exist on the nodes
  held,         \* ClusterSandbox handles: <<sandbox, node>>
  stray,        \* per node, requests given up by their caller that may yet land
  nextId,
  trial         \* history: the now_ms of the last half-open trial of a node
                \* since its gate was cleared

world == <<boxes, held, stray, nextId>>
vars == <<clock, inflight, failures, gate, cursor, call, probe, world, trial>>

Times == 0..MaxTime
Box == [id : BoxIds, node : Nodes, created : Times]
Call == [at      : {"idle", "next", "cas", "await", "open", "strike", "trip",
                    "list", "delete"},
         now     : Times,              \* now_ms, read once per call
         cands   : Seq(Nodes),         \* candidates left
         node    : Nodes,              \* the node of this attempt
         seen    : Nat,                \* the gate it loaded
         started : Times,              \* attempt_started_unix
         until   : Times,              \* now_unix of reconcile()
         landed  : 0..MaxBoxes,        \* the sandbox its request created, or 0
         target  : 0..MaxBoxes]        \* the orphan it is about to delete
Idle == [at |-> "idle", now |-> 0, cands |-> << >>, node |-> 0, seen |-> 0,
         started |-> 0, until |-> 0, landed |-> 0, target |-> 0]
NoTrial == -1
NotProbing == [at |-> "idle", node |-> 0, now |-> 0]

\* The types of the state; no counter goes below zero, and the failure count,
\* of which only its comparison with FAILURE_TRIP matters, is kept up to there.
TypeOK ==
  /\ clock \in Times
  /\ inflight \in [Nodes -> Nat]
  /\ failures \in [Nodes -> 0..FailureTrip]
  /\ gate \in [Nodes -> Nat]
  /\ cursor \in Nodes
  /\ call \in [Proc -> Call]
  /\ probe \in [at : {"idle", "judge", "open", "arm"}, node : Nodes, now : Times]
  /\ boxes \in SUBSET Box
  /\ held \in SUBSET (BoxIds \X Nodes)
  /\ stray \in [Nodes -> 0..MaxBoxes]
  /\ nextId \in 1..(MaxBoxes + 1)
  /\ trial \in [Nodes -> Times \cup {NoTrial}]

Init ==
  /\ clock = 0
  /\ inflight = [n \in Nodes |-> 0]
  /\ failures = [n \in Nodes |-> 0]
  /\ gate = [n \in Nodes |-> 0]
  /\ cursor = 0
  /\ call = [p \in Proc |-> Idle]
  /\ probe = NotProbing
  /\ boxes = {}
  /\ held = {}
  /\ stray = [n \in Nodes |-> 0]
  /\ nextId = 1
  /\ trial = [n \in Nodes |-> NoTrial]

\* The locals of caller p become c.
Becomes(p, c) == call' = [call EXCEPT ![p] = c]

Larger(a, b) == IF a >= b THEN a ELSE b
Capped(i, bound) == IF i < bound THEN i + 1 ELSE bound

-----------------------------------------------------------------------------
(* Scheduling *)

Tripped(n) == failures[n] >= FailureTrip

\* admissible()
Admissible(n, t) == ~Tripped(n) \/ gate[n] = 0 \/ t >= gate[n]

\* Rotation from the cursor, then a stable sort by load.
Offset(n) == (n - cursor) % NNodes
Before(m, n) ==
  IF LeastInflight /\ inflight[m] # inflight[n]
    THEN inflight[m] < inflight[n]
    ELSE Offset(m) < Offset(n)

\* candidate_order(): the admissible nodes in that order (there is exactly one).
CandidateOrders(t) ==
  LET C == {n \in Nodes : Admissible(n, t)}
  IN  {s \in [1..Cardinality(C) -> C] :
         \A i, j \in 1..Cardinality(C) : i < j => Before(s[i], s[j])}

\* A call begins: now_ms is read and the candidates are ordered.
BeginCreate(p) ==
  /\ call[p].at = "idle"
  /\ \E order \in CandidateOrders(clock) :
       Becomes(p, [Idle EXCEPT !.at = "next", !.now = clock, !.cands = order])
  /\ cursor' = (cursor + 1) % NNodes
  /\ UNCHANGED <<clock, inflight, failures, gate, probe, world, trial>>

\* Out of candidates, the call fails with the last error.
GiveUp(p) ==
  /\ call[p].at = "next"
  /\ call[p].cands = << >>
  /\ Becomes(p, Idle)
  /\ UNCHANGED <<clock, inflight, failures, gate, cursor, probe, world, trial>>

\* The loop moves on to its next candidate; only now_ms outlives an attempt.
Onward(p, left) == [Idle EXCEPT !.at = "next", !.now = call[p].now, !.cands = left]

\* InflightGuard::arm, and the create request goes out.
Attempt(p, n) ==
  /\ inflight' = [inflight EXCEPT ![n] = @ + 1]
  /\ Becomes(p, [call[p] EXCEPT !.at = "await", !.node = n, !.seen = 0,
                                 !.cands = Tail(call[p].cands), !.started = clock])

\* The next candidate is not tripped: it is attempted.
AttemptHealthy(p) ==
  /\ call[p].at = "next"
  /\ call[p].cands # << >>
  /\ ~Tripped(Head(call[p].cands))
  /\ Attempt(p, Head(call[p].cands))
  /\ UNCHANGED <<clock, failures, gate, cursor, probe, world, trial>>

\* claim_trial() on a tripped candidate: the gate is loaded; a candidate whose
\* gate has moved past now_ms is skipped.
LoadGate(p) ==
  LET n == Head(call[p].cands)
  IN  /\ call[p].at = "next"
      /\ call[p].cands # << >>
      /\ Tripped(n)
      /\ \/ /\ gate[n] # 0 /\ call[p].now < gate[n]
            /\ Becomes(p, Onward(p, Tail(call[p].cands)))
         \/ /\ gate[n] = 0 \/ call[p].now >= gate[n]
            /\ Becomes(p, [call[p] EXCEPT !.at = "cas", !.seen = gate[n]])
      /\ UNCHANGED <<clock, inflight, failures, gate, cursor, probe, world, trial>>

\* Mutant of ClaimTrial: a store takes the place of the compare-exchange.
ClaimByStore(p) ==
  LET n == Head(call[p].cands)
  IN  /\ call[p].at = "cas"
      /\ gate' = [gate EXCEPT ![n] = call[p].now + Interval]
      /\ trial' = [trial EXCEPT ![n] = call[p].now]
      /\ Attempt(p, n)
      /\ UNCHANGED <<clock, failures, cursor, probe, world>>

\* claim_trial(): one caller wins the compare-exchange on the gate, and the
\* losers move on.
ClaimTrial(p) ==
  LET n == Head(call[p].cands)
  IN  /\ call[p].at = "cas"
      /\ \/ /\ gate[n] = call[p].seen
            /\ gate' = [gate EXCEPT ![n] = call[p].now + Interval]
            /\ trial' = [trial EXCEPT ![n] = call[p].now]
            /\ Attempt(p, n)
         \/ /\ gate[n] # call[p].seen
            /\ Becomes(p, Onward(p, Tail(call[p].cands)))
            /\ UNCHANGED <<gate, inflight, trial>>
      /\ UNCHANGED <<clock, failures, cursor, probe, world>>

-----------------------------------------------------------------------------
(* The controllers *)

Created(n) == [id |-> nextId, node |-> n, created |-> clock]

\* The node creates the sandbox a caller is waiting for.
Land(p) ==
  /\ call[p].at = "await"
  /\ call[p].landed = 0
  /\ nextId <= MaxBoxes
  /\ boxes' = boxes \cup {Created(call[p].node)}
  /\ Becomes(p, [call[p] EXCEPT !.landed = nextId])
  /\ nextId' = nextId + 1
  /\ UNCHANGED <<clock, inflight, failures, gate, cursor, probe, held, stray, trial>>

\* The node creates the sandbox of a request whose caller has given up.
LandLate(n) ==
  /\ stray[n] > 0
  /\ nextId <= MaxBoxes
  /\ boxes' = boxes \cup {Created(n)}
  /\ nextId' = nextId + 1
  /\ stray' = [stray EXCEPT ![n] = @ - 1]
  /\ UNCHANGED <<clock, inflight, failures, gate, cursor, call, probe, held, trial>>

-----------------------------------------------------------------------------
(* The answers *)

\* Mutant of Decrement: plain fetch_sub.
DecrementWrapping(i) == i - 1

\* saturating_decrement()
Decrement(i) == IF i = 0 THEN 0 ELSE i - 1

DropGuard(p) == inflight' = [inflight EXCEPT ![call[p].node] = Decrement(@)]

\* A request given up by its caller may still be on its way.
Forsake(p) ==
  stray' = [stray EXCEPT ![call[p].node] =
              IF call[p].landed = 0 THEN Capped(@, MaxBoxes) ELSE @]

\* Ok: failures.store(0) ...
CreateOk(p) ==
  /\ call[p].at = "await"
  /\ call[p].landed # 0
  /\ failures' = [failures EXCEPT ![call[p].node] = 0]
  /\ Becomes(p, [call[p] EXCEPT !.at = "open"])
  /\ UNCHANGED <<clock, inflight, gate, cursor, probe, world, trial>>

\* ... next_trial_ms.store(0), and the handle takes over the guard.
ReturnHandle(p) ==
  /\ call[p].at = "open"
  /\ gate' = [gate EXCEPT ![call[p].node] = 0]
  /\ trial' = [trial EXCEPT ![call[p].node] = NoTrial]
  /\ held' = held \cup {<<call[p].landed, call[p].node>>}
  /\ Becomes(p, Idle)
  /\ UNCHANGED <<clock, inflight, failures, cursor, probe, boxes, stray, nextId>>

\* 4xx or a refusal: the guard is dropped and the error goes to the caller.
Rejected(p) ==
  /\ call[p].at = "await"
  /\ call[p].landed = 0
  /\ DropGuard(p)
  /\ Becomes(p, Idle)
  /\ UNCHANGED <<clock, failures, gate, cursor, probe, world, trial>>

\* Mutant of NodeFault: the reservation is kept while the call fails over.
FaultKeepingGuard(p) ==
  /\ call[p].at = "await"
  /\ Forsake(p)
  /\ Becomes(p, [call[p] EXCEPT !.at = "strike"])
  /\ UNCHANGED <<clock, inflight, failures, gate, cursor, probe, boxes, held, nextId,
                 trial>>

\* Transport error, timeout, 5xx or an undecodable answer: the guard is dropped
\* before anything else.  The sandbox may exist, or come to exist.
NodeFault(p) ==
  /\ call[p].at = "await"
  /\ DropGuard(p)
  /\ Forsake(p)
  /\ Becomes(p, [call[p] EXCEPT !.at = "strike"])
  /\ UNCHANGED <<clock, failures, gate, cursor, probe, boxes, held, nextId, trial>>

\* failures.fetch_add(1).  Short of FAILURE_TRIP, reconcile() begins.
Strike(p) ==
  LET n == call[p].node
  IN  /\ call[p].at = "strike"
      /\ failures' = [failures EXCEPT ![n] = Capped(@, FailureTrip)]
      /\ \/ /\ failures[n] + 1 >= FailureTrip
            /\ Becomes(p, [call[p] EXCEPT !.at = "trip"])
         \/ /\ failures[n] + 1 < FailureTrip
            /\ Becomes(p, [call[p] EXCEPT !.at = "list", !.until = clock])
      /\ UNCHANGED <<clock, inflight, gate, cursor, probe, world, trial>>

\* next_trial_ms.fetch_max(now_ms + interval), and reconcile() begins.
Trip(p) ==
  /\ call[p].at = "trip"
  /\ gate' = [gate EXCEPT ![call[p].node] = Larger(@, call[p].now + Interval)]
  /\ Becomes(p, [call[p] EXCEPT !.at = "list", !.until = clock])
  /\ UNCHANGED <<clock, inflight, failures, cursor, probe, world, trial>>

\* The filter of reconcile(): the attempt's window.  All sandboxes carry the
\* configured tag and a creation time.
Matches(p) ==
  {b \in boxes : /\ b.node = call[p].node
                 /\ b.created >= call[p].started - 1
                 /\ b.created <= call[p].until + 1}

\* reconcile(): the listing answers.  A unique match is an orphan.
ReconcileList(p) ==
  /\ call[p].at = "list"
  /\ \/ /\ Cardinality(Matches(p)) = 1
        /\ \E b \in Matches(p) :
             Becomes(p, [call[p] EXCEPT !.at = "delete", !.target = b.id])
     \/ /\ Cardinality(Matches(p)) # 1
        /\ Becomes(p, Onward(p, call[p].cands))
  /\ UNCHANGED <<clock, inflight, failures, gate, cursor, probe, world, trial>>

\* reconcile(): the delete answers.
ReconcileDelete(p) ==
  /\ call[p].at = "delete"
  /\ boxes' = {b \in boxes : b.id # call[p].target}
  /\ Becomes(p, Onward(p, call[p].cands))
  /\ UNCHANGED <<clock, inflight, failures, gate, cursor, probe, held, stray, nextId,
                 trial>>

\* The listing or the delete fails: a warning, and on to the next candidate.
ReconcileFails(p) ==
  /\ call[p].at \in {"list", "delete"}
  /\ Becomes(p, Onward(p, call[p].cands))
  /\ UNCHANGED <<clock, inflight, failures, gate, cursor, probe, world, trial>>

\* The caller drops the create future at an await: the guard goes with it.
Abort(p) ==
  /\ \/ call[p].at = "await" /\ DropGuard(p) /\ Forsake(p)
     \/ call[p].at \in {"list", "delete"} /\ UNCHANGED <<inflight, stray>>
  /\ Becomes(p, Idle)
  /\ UNCHANGED <<clock, failures, gate, cursor, probe, boxes, held, nextId, trial>>

-----------------------------------------------------------------------------
(* Handles, probes, time *)

\* Drop of a ClusterSandbox.
DropHandle(h) ==
  /\ held' = held \ {h}
  /\ inflight' = [inflight EXCEPT ![h[2]] = Decrement(@)]
  /\ UNCHANGED <<clock, failures, gate, cursor, call, probe, boxes, stray, nextId, trial>>

\* release(), which may come on top of the guard of the same sandbox.
Release(n) ==
  /\ Releases
  /\ inflight' = [inflight EXCEPT ![n] = Decrement(@)]
  /\ UNCHANGED <<clock, failures, gate, cursor, call, probe, world, trial>>

\* probe(): every node has answered, and now_ms is read.
BeginProbe ==
  /\ Probes
  /\ probe.at = "idle"
  /\ probe' = [at |-> "judge", node |-> 0, now |-> clock]
  /\ UNCHANGED <<clock, inflight, failures, gate, cursor, call, world, trial>>

\* probe() moves on to the next node.
ProbeNext ==
  probe' = IF probe.node + 1 \in Nodes
             THEN [probe EXCEPT !.at = "judge", !.node = @ + 1]
             ELSE NotProbing

\* probe(): a node that answered is cleared, one that did not and is tripped is
\* gated anew.
ProbeJudge ==
  /\ probe.at = "judge"
  /\ \/ /\ failures' = [failures EXCEPT ![probe.node] = 0]
        /\ probe' = [probe EXCEPT !.at = "open"]
     \/ /\ Tripped(probe.node)
        /\ probe' = [probe EXCEPT !.at = "arm"]
        /\ UNCHANGED failures
     \/ /\ ~Tripped(probe.node)
        /\ ProbeNext
        /\ UNCHANGED failures
  /\ UNCHANGED <<clock, inflight, gate, cursor, call, world, trial>>

ProbeOpen ==
  /\ probe.at = "open"
  /\ gate' = [gate EXCEPT ![probe.node] = 0]
  /\ trial' = [trial EXCEPT ![probe.node] = NoTrial]
  /\ ProbeNext
  /\ UNCHANGED <<clock, inflight, failures, cursor, call, world>>

ProbeArm ==
  /\ probe.at = "arm"
  /\ gate' = [gate EXCEPT ![probe.node] = Larger(@, probe.now + Interval)]
  /\ ProbeNext
  /\ UNCHANGED <<clock, inflight, failures, cursor, call, world, trial>>

\* delete_on(), the way an operator removes a sandbox.
DeleteOn(b) ==
  /\ boxes' = boxes \ {b}
  /\ UNCHANGED <<clock, inflight, failures, gate, cursor, call, probe, held, stray,
                 nextId, trial>>

Tick ==
  /\ clock < MaxTime
  /\ clock' = clock + 1
  /\ UNCHANGED <<inflight, failures, gate, cursor, call, probe, world, trial>>

Create(p) ==
  \/ BeginCreate(p) \/ GiveUp(p) \/ AttemptHealthy(p) \/ LoadGate(p) \/ ClaimTrial(p)
  \/ CreateOk(p) \/ ReturnHandle(p) \/ Rejected(p) \/ NodeFault(p)
  \/ Strike(p) \/ Trip(p) \/ ReconcileList(p) \/ ReconcileDelete(p)
  \/ ReconcileFails(p) \/ Abort(p)

Next ==
  \/ \E p \in Proc : Create(p) \/ Land(p)
  \/ \E n \in Nodes : LandLate(n) \/ Release(n)
  \/ BeginProbe \/ ProbeJudge \/ ProbeOpen \/ ProbeArm
  \/ \E h \in held : DropHandle(h)
  \/ \E b \in boxes : DeleteOn(b)
  \/ Tick

Spec == Init /\ [][Next]_vars

-----------------------------------------------------------------------------
(* Properties *)

Guards(n) == {p \in Proc : call[p].at \in {"await", "open"} /\ call[p].node = n}
HandlesOn(n) == {h \in held : h[2] = n}
Reservations(n) == Cardinality(Guards(n)) + Cardinality(HandlesOn(n))

\* The in-flight counter of a node (cluster.rs InflightGuard) is the number of
\* its reservations: attempts under way plus handles not yet dropped, whatever
\* fails, is rejected, or is dropped half-way.  release() on top of a guard can
\* only lower it.
InflightIsReservations ==
  \A n \in Nodes : /\ inflight[n] <= Reservations(n)
                   /\ ~Releases => inflight[n] = Reservations(n)

Claims(p) == call[p].at = "cas" /\ call'[p].at = "await"

\* By the callers' own now_ms, two half-open trials of a node (claim_trial) whose
\* gate no success cleared in between are at least recovery_interval apart: a
\* burst of creates probes at most once.
TrialsSpacedByCallerClock ==
  [][\A p \in Proc :
       LET last == trial[Head(call[p].cands)]
       IN  Claims(p) => last = NoTrial \/ call[p].now >= last + Interval]_vars

\* reconcile() never deletes a sandbox whose handle some caller holds: "prefer a
\* leaked sandbox over a wrongly deleted one" (cluster.rs, Reconciliation).
ReconcileSparesHeld ==
  [][\A p \in Proc :
       call[p].at = "delete" /\ call'[p].at = "next" =>
         \A h \in held : (\E b \in boxes : b.id = h[1]) => \E b \in boxes' : b.id = h[1]]_vars

=============================================================================
