----------------------------- MODULE SessionPool -----------------------------
(*****************************************************************************)
(* The pool of ZBRT sessions a ZeroBoot sandbox keeps to one guest           *)
(* (`SessionPool`, rfb/src/zeroboot/provider.rs).                            *)
(*                                                                           *)
(* Each call of `acquire` is a process.  It waits for a permit of the        *)
(* semaphore `free`, then scans the slots first-fit: it loads `dead[i]` and, *)
(* if that is false, tries a compare-exchange on `busy[i]`.  The load and    *)
(* the compare-exchange are two atomic accesses, so they are two actions,    *)
(* and so are the two stores and the `forget` with which a claimer condemns  *)
(* a slot whose connection has died, and the two halves of the drop of a     *)
(* `PooledSession` (its Drop clears `busy`, the permit field goes after it). *)
(* The loads are modelled as sequentially consistent.                        *)
(*****************************************************************************)
EXTENDS Integers, FiniteSets

CONSTANTS
  NSlots,     \* number of pooled sessions (sessions.len(), asserted > 0)
  Proc,       \* concurrent callers of acquire
  Mortal      \* slots whose connection may die during the run

ASSUME NSlotsAssumption == NSlots \in Nat \ {0}
ASSUME ProcAssumption == IsFiniteSet(Proc)
ASSUME MortalAssumption == Mortal \subseteq 1..NSlots

Slots == 1..NSlots

VARIABLES
  alive,      \* slots whose ZeroBootSession.alive flag its reader task left set
  dead,       \* slots whose SessionPool.dead flag is set: condemned
  busy,       \* slots whose SessionPool.busy flag is set
  permits,    \* available permits of SessionPool.free
  closed,     \* SessionPool.free has been closed
  pc,         \* where each caller is
  at          \* the slot it is looking at or has claimed; NSlots+1 past the end

vars == <<alive, dead, busy, permits, closed, pc, at>>

Outcomes == {"alldead", "nofree"}      \* the two ProviderError::Unavailable

Labels == {"idle", "parked", "load", "cas", "claimed", "doomed", "marked",
           "retiring", "held", "dropped"} \cup Outcomes

\* Every variable keeps its type; in particular the scan index never passes
\* the end of the pool by more than one and permits are never negative.
TypeOK ==
  /\ alive \in SUBSET Slots
  /\ dead \in SUBSET Slots
  /\ busy \in SUBSET Slots
  /\ permits \in Nat
  /\ closed \in BOOLEAN
  /\ pc \in [Proc -> Labels]
  /\ at \in [Proc -> 1..(NSlots + 1)]

Init ==
  /\ alive = Slots
  /\ dead = {}
  /\ busy = {}
  /\ permits = NSlots
  /\ closed = FALSE
  /\ pc = [p \in Proc |-> "idle"]
  /\ at = [p \in Proc |-> 1]

Goto(p, l) == pc' = [pc EXCEPT ![p] = l]

-----------------------------------------------------------------------------
(* acquire() *)

\* A caller asks for a slot and blocks on the semaphore.
Acquire(p) ==
  /\ pc[p] = "idle"
  /\ Goto(p, "parked")
  /\ UNCHANGED <<alive, dead, busy, permits, closed, at>>

\* Mutant of TakePermit: the semaphore is consulted but not waited for.
TakeWithoutPermit(p) ==
  /\ pc[p] = "parked"
  /\ ~closed
  /\ permits' = permits - 1
  /\ at' = [at EXCEPT ![p] = 1]
  /\ Goto(p, "load")
  /\ UNCHANGED <<alive, dead, busy, closed>>

\* acquire_owned() hands out a permit; the scan starts at the first slot.
TakePermit(p) ==
  /\ pc[p] = "parked"
  /\ ~closed
  /\ permits > 0
  /\ permits' = permits - 1
  /\ at' = [at EXCEPT ![p] = 1]
  /\ Goto(p, "load")
  /\ UNCHANGED <<alive, dead, busy, closed>>

\* acquire_owned() on a closed semaphore fails, for new and blocked callers.
SeeClosed(p) ==
  /\ pc[p] = "parked"
  /\ closed
  /\ Goto(p, "alldead")
  /\ UNCHANGED <<alive, dead, busy, permits, closed, at>>

\* The future is dropped at its only await point.
CancelWait(p) ==
  /\ pc[p] = "parked"
  /\ Goto(p, "idle")
  /\ UNCHANGED <<alive, dead, busy, permits, closed, at>>

\* position() has run past the last slot: the permit is dropped and the call
\* fails.  The code calls this branch unreachable; the model leaves it open.
NoSlot(p) ==
  /\ permits' = permits + 1
  /\ Goto(p, "nofree")
  /\ UNCHANGED at

\* position(): load dead[i]; a condemned slot is skipped.
LoadDead(p) ==
  /\ pc[p] = "load"
  /\ IF at[p] \notin Slots
       THEN NoSlot(p)
       ELSE /\ IF at[p] \in dead
                 THEN at' = [at EXCEPT ![p] = @ + 1] /\ UNCHANGED pc
                 ELSE Goto(p, "cas") /\ UNCHANGED at
            /\ UNCHANGED permits
  /\ UNCHANGED <<alive, dead, busy, closed>>

\* Mutant of TryClaim: a plain store takes the place of the compare-exchange.
StoreBusy(p) ==
  /\ pc[p] = "cas"
  /\ busy' = busy \cup {at[p]}
  /\ Goto(p, "claimed")
  /\ UNCHANGED <<alive, dead, permits, closed, at>>

\* position(): compare_exchange(busy[i], false, true).
TryClaim(p) ==
  /\ pc[p] = "cas"
  /\ IF at[p] \in busy
       THEN /\ at' = [at EXCEPT ![p] = @ + 1]
            /\ Goto(p, "load")
            /\ UNCHANGED busy
       ELSE /\ busy' = busy \cup {at[p]}
            /\ Goto(p, "claimed")
            /\ UNCHANGED at
  /\ UNCHANGED <<alive, dead, permits, closed>>

\* The claimer checks the connection before handing the slot out.
CheckAlive(p) ==
  /\ pc[p] = "claimed"
  /\ Goto(p, IF at[p] \in alive THEN "held" ELSE "doomed")
  /\ UNCHANGED <<alive, dead, busy, permits, closed, at>>

\* Condemning a slot: dead[slot].store(true) ...
MarkDead(p) ==
  /\ pc[p] = "doomed"
  /\ dead' = dead \cup {at[p]}
  /\ Goto(p, "marked")
  /\ UNCHANGED <<alive, busy, permits, closed, at>>

\* ... busy[slot].store(false) ...
ClearBusy(p) ==
  /\ pc[p] = "marked"
  /\ busy' = busy \ {at[p]}
  /\ Goto(p, "retiring")
  /\ UNCHANGED <<alive, dead, permits, closed, at>>

\* Mutant of Retire: the permit of a condemned slot is dropped, not forgotten.
RetireByDrop(p) ==
  /\ pc[p] = "retiring"
  /\ permits' = permits + 1
  /\ IF dead = Slots
       THEN closed' = TRUE /\ Goto(p, "alldead")
       ELSE UNCHANGED closed /\ Goto(p, "parked")
  /\ UNCHANGED <<alive, dead, busy, at>>

\* Mutant of Retire: `any` in place of `all` over the dead flags.
RetireClosingEarly(p) ==
  /\ pc[p] = "retiring"
  /\ closed' = TRUE
  /\ Goto(p, "alldead")
  /\ UNCHANGED <<alive, dead, busy, permits, at>>

\* ... permit.forget() takes the permit out of circulation, and close() when every slot is condemned; otherwise
\* the loop waits for another permit.
Retire(p) ==
  /\ pc[p] = "retiring"
  /\ IF dead = Slots
       THEN closed' = TRUE /\ Goto(p, "alldead")
       ELSE UNCHANGED closed /\ Goto(p, "parked")
  /\ UNCHANGED <<alive, dead, busy, permits, at>>

-----------------------------------------------------------------------------
(* Drop of a PooledSession, and the environment *)

\* Drop for PooledSession clears the busy flag first ...
DropFlag(p) ==
  /\ pc[p] = "held"
  /\ busy' = busy \ {at[p]}
  /\ Goto(p, "dropped")
  /\ UNCHANGED <<alive, dead, permits, closed, at>>

\* Mutant of DropPermit: the permit is lost with the session.
DropLeakingPermit(p) ==
  /\ pc[p] = "dropped"
  /\ Goto(p, "idle")
  /\ UNCHANGED <<alive, dead, busy, permits, closed, at>>

\* ... and its fields, the permit among them, are dropped afterwards.
DropPermit(p) ==
  /\ pc[p] = "dropped"
  /\ permits' = permits + 1
  /\ Goto(p, "idle")
  /\ UNCHANGED <<alive, dead, busy, closed, at>>

\* The caller has seen the error and may call again.
Return(p) ==
  /\ pc[p] \in Outcomes
  /\ Goto(p, "idle")
  /\ UNCHANGED <<alive, dead, busy, permits, closed, at>>

\* The reader task of slot s ends: alive.store(false).
ConnectionDies(s) ==
  /\ s \in Mortal
  /\ s \in alive
  /\ alive' = alive \ {s}
  /\ UNCHANGED <<dead, busy, permits, closed, pc, at>>

Next ==
  \/ \E p \in Proc :
       \/ Acquire(p) \/ TakePermit(p) \/ SeeClosed(p) \/ CancelWait(p)
       \/ LoadDead(p) \/ TryClaim(p) \/ CheckAlive(p)
       \/ MarkDead(p) \/ ClearBusy(p) \/ Retire(p)
       \/ DropFlag(p) \/ DropPermit(p) \/ Return(p)
  \/ \E s \in Slots : ConnectionDies(s)

Spec == Init /\ [][Next]_vars

(* The executor polls a runnable task again, holders finish their turn, and  *)
(* tokio's semaphore serves waiters in FIFO order: a waiter that a permit is *)
(* available to again and again gets one.                                    *)
Progress(p) ==
  \/ SeeClosed(p) \/ LoadDead(p) \/ TryClaim(p) \/ CheckAlive(p)
  \/ MarkDead(p) \/ ClearBusy(p) \/ Retire(p) \/ DropFlag(p) \/ DropPermit(p)
  \/ Return(p)

FairSpec ==
  /\ Spec
  /\ \A p \in Proc : WF_vars(Progress(p)) /\ SF_vars(TakePermit(p))

-----------------------------------------------------------------------------
(* Properties *)

Owning == {"claimed", "doomed", "marked", "held"}

\* Two callers never own one slot: the session a PooledSession wraps serves a
\* single turn, whatever acquires, drops and condemnations overlap.
OneOwnerPerSlot ==
  \A p, q \in Proc :
    (pc[p] \in Owning /\ pc[q] \in Owning /\ at[p] = at[q]) => p = q

\* The branch "no live pooled guest connection is free" is unreachable: a
\* caller with a permit always finds a slot, however slots are condemned and
\* released while it scans past them.
PermitFindsSlot == \A p \in Proc : pc[p] # "nofree"

\* The error "all pooled guest connections are dead" is only ever returned
\* when no connection is alive, and the semaphore is closed only then.
AllDeadIsTrue ==
  (closed \/ \E p \in Proc : pc[p] = "alldead") => alive = {}

\* A blocked caller of acquire() is eventually given a slot or the all-dead
\* error: an available permit stands for every free live slot, and close()
\* wakes the others "instead of parking forever".
NoCallerParksForever ==
  \A p \in Proc : pc[p] = "parked" ~> pc[p] # "parked"

\* While every connection stays alive no slot is condemned, no permit is retired, and
\* every caller that waits for a permit gets a slot (acquire, drop of PooledSession).
HealthyPoolNeverParks == [](alive = Slots) => NoCallerParksForever

=============================================================================
