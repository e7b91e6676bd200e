--------------------------- MODULE Orchestration ---------------------------
(********************************************************************************)
(* The host's runtime manager for one session                                   *)
(* (rfb-runtime/src/orchestration.rs): callers that create the session's        *)
(* worker, callers that cancel or destroy it, the detached provisioning task    *)
(* of each create and the tasks that destroy workers nobody wants any more.     *)
(* A create takes no lock; cancel and destroy share one.  Each caller makes one *)
(* call, so a caller names the worker it provisions.  Every call is a future    *)
(* that its caller may drop at any await; tasks that were spawned go on.        *)
(********************************************************************************)
EXTENDS Naturals

CONSTANTS
  Creator,  \* calls of create_for_session
  Stopper   \* calls of cancel_for_session and destroy_for_session

VARIABLES
  entry,   \* the session's handle: status, vm_id, worker
  gen,     \* its lifecycle generation
  lock,    \* the stopper that holds the manager's lock
  task,    \* creator -> its provisioning task
  worker,  \* creator -> its worker: "none", "up", "gone" (destroyed), "lost" (destroy kept failing)
  reaper,  \* creators whose task, or worker, a detached task will clean up
  cr,      \* creator -> its state
  st       \* stopper -> its state

orvars == <<entry, gen, lock, task, worker, reaper, cr, st>>

Nobody == "nobody"

\* The mark for "no worker" (None in the handle) is no worker's name.
ASSUME NobodyAssumption == Nobody \notin Creator

Empty == [status |-> "none", vm |-> Nobody, worker |-> Nobody]
Placeholder(c) == [status |-> "Provisioning", vm |-> c, worker |-> Nobody]

\* A call that is over, or dropped, has no locals any more.
Gone(pc, status) == [pc |-> pc, gen |-> 0, status |-> status, worker |-> Nobody]
Return(c, status) == [cr EXCEPT ![c] = Gone("done", status)]
Leave(d, status) == [st EXCEPT ![d] = [pc |-> "done", status |-> status, worker |-> Nobody]]

OrTypeOK ==
  /\ entry.status \in {"none", "Provisioning", "Running", "Cancelling", "Stopped", "Failed"}
  /\ entry.vm \in Creator \cup {Nobody} /\ entry.worker \in Creator \cup {Nobody}
  /\ gen \in Nat /\ lock \in Stopper \cup {Nobody}
  /\ task \in [Creator -> {"none", "running", "ok", "err"}]
  /\ worker \in [Creator -> {"none", "up", "gone", "lost"}]
  /\ reaper \subseteq Creator
  /\ \A c \in Creator :
       cr[c].pc \in {"enter", "generation", "insert", "await", "settle", "done", "dropped"}
  /\ \A d \in Stopper :
       st[d].pc \in {"enter", "look", "mark", "cancel", "finish", "remove", "destroy", "done",
                     "dropped"}

OrInit ==
  /\ entry = Empty /\ gen = 1 /\ lock = Nobody
  /\ task = [c \in Creator |-> "none"] /\ worker = [c \in Creator |-> "none"]
  /\ reaper = {}
  /\ cr = [c \in Creator |-> [pc |-> "enter", gen |-> 0, status |-> "none", worker |-> Nobody]]
  /\ st = [d \in Stopper |-> [pc |-> "enter", status |-> "none", worker |-> Nobody]]

-----------------------------------------------------------------------------
(* create_for_session *)

\* A handle that is there is returned, whatever its status.
Enter(c) ==
  /\ cr[c].pc = "enter"
  /\ cr' = IF entry # Empty THEN Return(c, entry.status) ELSE [cr EXCEPT ![c].pc = "generation"]
  /\ UNCHANGED <<entry, gen, lock, task, worker, reaper, st>>

\* The generation is read before the placeholder is in the table.
ReadGeneration(c) ==
  /\ cr[c].pc = "generation"
  /\ cr' = [cr EXCEPT ![c].pc = "insert", ![c].gen = gen]
  /\ UNCHANGED <<entry, gen, lock, task, worker, reaper, st>>

\* Under the table's lock: another caller's handle wins; otherwise the placeholder
\* goes in and the provisioning task starts.
Insert(c) ==
  /\ cr[c].pc = "insert"
  /\ IF entry # Empty
       THEN cr' = Return(c, entry.status) /\ UNCHANGED <<entry, task>>
       ELSE /\ entry' = Placeholder(c)
            /\ task' = [task EXCEPT ![c] = "running"]
            /\ cr' = [cr EXCEPT ![c].pc = "await"]
  /\ UNCHANGED <<gen, lock, worker, reaper, st>>

\* adapter.provision (external) ends.
Provisioned(c) ==
  /\ task[c] = "running"
  /\ \/ task' = [task EXCEPT ![c] = "ok"] /\ worker' = [worker EXCEPT ![c] = "up"]
     \/ task' = [task EXCEPT ![c] = "err"] /\ UNCHANGED worker
  /\ UNCHANGED <<entry, gen, lock, reaper, cr, st>>

\* The task ended in time.
Awaited(c) ==
  /\ cr[c].pc = "await" /\ task[c] \in {"ok", "err"}
  /\ cr' = [cr EXCEPT ![c].pc = "settle",
                      ![c].status = IF task[c] = "ok" THEN "Running" ELSE "Failed",
                      ![c].worker = IF task[c] = "ok" THEN c ELSE Nobody]
  /\ UNCHANGED <<entry, gen, lock, task, worker, reaper, st>>

\* Mutant of TimedOut: the task is dropped with nobody to clean up after it.
TimedOutForgets(c) ==
  /\ cr[c].pc = "await"
  /\ cr' = [cr EXCEPT ![c].pc = "settle", ![c].status = "Failed"]
  /\ UNCHANGED <<entry, gen, lock, task, worker, reaper, st>>

\* provision_timeout_seconds passed: a detached task waits on and destroys a worker
\* that comes late.
TimedOut(c) ==
  /\ cr[c].pc = "await"
  /\ cr' = [cr EXCEPT ![c].pc = "settle", ![c].status = "Failed"]
  /\ reaper' = reaper \cup {c}
  /\ UNCHANGED <<entry, gen, lock, task, worker, st>>

\* The table is still this call's: no cancel or destroy since, and its own handle.
Mine(c) == gen = cr[c].gen /\ entry.vm = c

\* Under the table's lock: the result goes in if the entry is still this call's.
\* Otherwise a worker is destroyed by a detached task, the call's own placeholder is
\* dropped with it, and the table's handle, if any, is returned.
Settle(c) ==
  /\ cr[c].pc = "settle"
  /\ LET h == cr[c]
         stale == entry.vm = c /\ entry.status = "Provisioning"
     IN \/ /\ Mine(c)
           /\ entry' = [status |-> h.status, vm |-> c, worker |-> h.worker]
           /\ cr' = Return(c, h.status) /\ UNCHANGED reaper
        \/ /\ ~Mine(c) /\ h.worker = Nobody
           /\ cr' = Return(c, h.status) /\ UNCHANGED <<entry, reaper>>
        \/ /\ ~Mine(c) /\ h.worker # Nobody
           /\ entry' = IF stale THEN Empty ELSE entry
           /\ cr' = Return(c, IF entry' = Empty THEN h.status ELSE entry'.status)
           /\ reaper' = reaper \cup {c}
  /\ UNCHANGED <<gen, lock, task, worker, st>>

\* The caller drops its future.  Nothing is cleaned up: a task that is provisioning is
\* only detached, a worker in hand is forgotten, and the placeholder stays.  (Before the
\* placeholder is in, a drop leaves nothing: the call never goes on.)
DropCreate(c) ==
  /\ cr[c].pc \in {"await", "settle"}
  /\ cr' = [cr EXCEPT ![c] = Gone("dropped", "none")]
  /\ UNCHANGED <<entry, gen, lock, task, worker, reaper, st>>

\* A detached task: cleanup_with_retry destroys the worker, or gives up and tells nobody.
Reap(c) ==
  /\ c \in reaper /\ task[c] # "running"
  /\ reaper' = reaper \ {c}
  /\ IF task[c] = "ok" THEN worker' \in {[worker EXCEPT ![c] = w] : w \in {"gone", "lost"}}
     ELSE UNCHANGED worker
  /\ UNCHANGED <<entry, gen, lock, task, cr, st>>

-----------------------------------------------------------------------------
(* cancel_for_session and destroy_for_session *)

\* Under the manager's lock the generation is raised, session or no session.
StopAt(d, pc) ==
  /\ st[d].pc = "enter" /\ lock = Nobody
  /\ lock' = d /\ gen' = gen + 1
  /\ st' = [st EXCEPT ![d].pc = pc]
  /\ UNCHANGED <<entry, task, worker, reaper, cr>>

\* The worker is read from the table.
CancelLook(d) ==
  /\ st[d].pc = "look"
  /\ IF entry = Empty
       THEN st' = Leave(d, "none") /\ lock' = Nobody
       ELSE st' = [st EXCEPT ![d].pc = "mark", ![d].worker = entry.worker] /\ UNCHANGED lock
  /\ UNCHANGED <<entry, gen, task, worker, reaper, cr>>

CancelMark(d) ==
  /\ st[d].pc = "mark"
  /\ IF entry = Empty
       THEN st' = Leave(d, "none") /\ lock' = Nobody /\ UNCHANGED entry
       ELSE /\ entry' = [entry EXCEPT !.status = "Cancelling"]
            /\ st' = [st EXCEPT ![d].pc = IF st[d].worker # Nobody THEN "cancel" ELSE "finish",
                                ![d].status = "Stopped"]
            /\ UNCHANGED lock
  /\ UNCHANGED <<gen, task, worker, reaper, cr>>

\* cleanup_with_retry over adapter.cancel: the worker stays, stopped or not.
CancelCleanup(d) ==
  /\ st[d].pc = "cancel"
  /\ \E s \in {"Stopped", "Failed"} : st' = [st EXCEPT ![d].pc = "finish", ![d].status = s]
  /\ UNCHANGED <<entry, gen, lock, task, worker, reaper, cr>>

CancelFinish(d) ==
  /\ st[d].pc = "finish"
  /\ entry' = IF entry = Empty THEN Empty ELSE [entry EXCEPT !.status = st[d].status]
  /\ st' = Leave(d, IF entry = Empty THEN "none" ELSE st[d].status)
  /\ lock' = Nobody
  /\ UNCHANGED <<gen, task, worker, reaper, cr>>

\* The handle leaves the table before its worker is destroyed.
DestroyRemove(d) ==
  /\ st[d].pc = "remove"
  /\ entry' = Empty
  /\ IF entry.worker = Nobody
       THEN st' = Leave(d, entry.status) /\ lock' = Nobody
       ELSE st' = [st EXCEPT ![d].pc = "destroy", ![d].worker = entry.worker] /\ UNCHANGED lock
  /\ UNCHANGED <<gen, task, worker, reaper, cr>>

\* cleanup_with_retry over adapter.destroy: a worker it gives up on is reported.
DestroyCleanup(d) ==
  /\ st[d].pc = "destroy"
  /\ \/ worker' = [worker EXCEPT ![st[d].worker] = "gone"] /\ st' = Leave(d, "Stopped")
     \/ worker' = [worker EXCEPT ![st[d].worker] = "lost"] /\ st' = Leave(d, "Failed")
  /\ lock' = Nobody
  /\ UNCHANGED <<entry, gen, task, reaper, cr>>

\* The caller drops its future once it has the lock, and the lock with it.  A cancel leaves the handle as it
\* is.  A destroy has the worker in a local only; the call to the adapter that is cut
\* short may have been carried out.
DropStop(d) ==
  /\ st[d].pc \notin {"enter", "done", "dropped"}
  /\ lock' = IF lock = d THEN Nobody ELSE lock
  /\ LET left == IF st[d].pc = "destroy" THEN st[d].worker ELSE Nobody
     IN /\ st' = [st EXCEPT ![d] = [pc |-> "dropped", status |-> "none", worker |-> left]]
        /\ \/ UNCHANGED worker
           \/ left # Nobody /\ worker' = [worker EXCEPT ![left] = "gone"]
  /\ UNCHANGED <<entry, gen, task, reaper, cr>>

OrNext ==
  \/ \E c \in Creator :
       \/ Enter(c) \/ ReadGeneration(c) \/ Insert(c) \/ Provisioned(c) \/ Awaited(c)
       \/ TimedOut(c) \/ Settle(c) \/ Reap(c) \/ DropCreate(c)
  \/ \E d \in Stopper :
       \/ StopAt(d, "look") \/ StopAt(d, "remove")
       \/ CancelLook(d) \/ CancelMark(d) \/ CancelCleanup(d) \/ CancelFinish(d)
       \/ DestroyRemove(d) \/ DestroyCleanup(d) \/ DropStop(d)

OrSpec == OrInit /\ [][OrNext]_orvars

-----------------------------------------------------------------------------
\* The worker of a create that was dropped, or of a destroy dropped before it was done.
Forsaken(c) ==
  \/ cr[c].pc = "dropped"
  \/ \E d \in Stopper : st[d].pc = "dropped" /\ st[d].worker = c

\* A worker that is up has somebody who will hand it out or destroy it.
AnsweredFor ==
  \A c \in Creator : worker[c] = "up" =>
    \/ entry.worker = c
    \/ cr[c].pc = "await"
    \/ cr[c].pc = "settle" /\ cr[c].worker = c
    \/ c \in reaper
    \/ \E d \in Stopper : st[d].pc = "destroy" /\ st[d].worker = c
    \/ Forsaken(c)

\* The session's handle names a worker that is up.
HandleUp == entry.worker # Nobody => worker[entry.worker] = "up"

(* A worker that is up has somebody who will hand it out or destroy it: the         *)
(* session's handle, the call that provisioned it, a detached task or a destroy in  *)
(* progress.  The only ones without are those whose own create was dropped by its   *)
(* caller, or whose destroy was; what times out, or is overtaken by a cancel, a     *)
(* destroy or another call being dropped, never loses one.  And a handle never      *)
(* names a worker that somebody has destroyed or given up (orchestration.rs         *)
(* create_for_session, destroy_for_session).  A worker whose destroy failed until   *)
(* the retries were used up is "lost" and not claimed.                              *)
WorkerAccounted == AnsweredFor /\ HandleUp

(* While no caller drops its call, a placeholder belongs to a create that will       *)
(* replace it: none is left behind to wedge the session ("a stale placeholder left   *)
(* behind would wedge the session forever").                                         *)
NoWedge ==
  /\ entry.status = "Provisioning" /\ lock = Nobody
  /\ (\A c \in Creator : cr[c].pc # "dropped") /\ (\A d \in Stopper : st[d].pc # "dropped")
  => cr[entry.vm].pc \in {"await", "settle"}
=============================================================================
