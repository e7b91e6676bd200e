------------------------------ MODULE HostProofs ------------------------------
(*****************************************************************************)
(* Proofs about the host's side of a session: the runtime manager loses no   *)
(* worker, a gate that passes leaves no sandbox, the agent's tools and       *)
(* history stay those of its session, an accepted binding was measured, and  *)
(* a request over a warm forkd connection runs once and gets its own answer, *)
(* for every number of calls, rounds, sandboxes, commands and connections.   *)
(*****************************************************************************)
EXTENDS Orchestration, ForkdGates, AgentLoop, ForkdSnapshots, ForkdGuest, Integers,
        FiniteSetTheorems, SequenceTheorems, TLAPS

-----------------------------------------------------------------------------
(* The runtime manager *)

Status == {"none", "Provisioning", "Running", "Cancelling", "Stopped", "Failed"}
CallState == [pc : {"enter", "generation", "insert", "await", "settle", "done", "dropped"},
              gen : Nat, status : Status, worker : Creator \cup {Nobody}]
StopState == [pc : {"enter", "look", "mark", "cancel", "finish", "remove", "destroy", "done",
                    "dropped"},
              status : Status, worker : Creator \cup {Nobody}]
Handle == [status : Status, vm : Creator \cup {Nobody}, worker : Creator \cup {Nobody}]

\* The types, as far as the proof needs them.
OrTypes ==
  /\ entry \in Handle /\ gen \in Nat
  /\ task \in [Creator -> {"none", "running", "ok", "err"}]
  /\ worker \in [Creator -> {"none", "up", "gone", "lost"}]
  /\ reaper \subseteq Creator
  /\ cr \in [Creator -> CallState]
  /\ st \in [Stopper -> StopState]

\* The table's worker was put there by the call that owns the handle, which is over:
\* so a call that settles overwrites no other call's worker.
TableWorker ==
  entry.worker # Nobody => entry.worker = entry.vm /\ cr[entry.worker].pc = "done"

\* A worker is up only when its task ended well, a task that runs has its call or a
\* detached task waiting for it unless the call was dropped, a call starts its task
\* once, and it settles with its own worker or none.
TaskInv ==
  \A c \in Creator :
    /\ worker[c] = "up" => task[c] = "ok"
    /\ task[c] = "running" => cr[c].pc \in {"await", "dropped"} \/ c \in reaper
    /\ cr[c].pc \in {"enter", "generation", "insert"} => task[c] = "none"
    /\ cr[c].worker \in {Nobody, c}

\* Who may destroy a worker has it from nobody who still hands it out: a detached task
\* and a call never hold the same one, and a destroy holds one that left the table.
CallHands ==
  \A c \in Creator :
    /\ cr[c].pc \in {"enter", "generation", "insert", "await"} => cr[c].worker = Nobody
    /\ cr[c].pc = "await" /\ task[c] = "ok" => worker[c] = "up"
    /\ cr[c].pc = "settle" /\ cr[c].worker = c => worker[c] = "up"
    /\ c \in reaper => /\ entry.worker # c /\ cr[c].pc \in {"settle", "done", "dropped"}
                       /\ cr[c].pc = "settle" => cr[c].worker = Nobody

StopHands ==
  \A d \in Stopper : st[d].pc = "destroy" =>
    st[d].worker \in Creator /\ st[d].worker # entry.worker /\ cr[st[d].worker].pc = "done"

OrInv ==
  /\ OrTypes /\ TableWorker /\ TaskInv /\ CallHands /\ StopHands
  /\ AnsweredFor /\ HandleUp

-----------------------------------------------------------------------------

\* An unknown session has no worker.
LEMMA OrInvInit == OrInit => OrInv
<1> SUFFICES ASSUME OrInit PROVE OrInv
  OBVIOUS
<1>1. OrTypes
  <2>1. entry \in Handle
    BY DEF OrInit, Empty, Handle, Status
  <2>2. cr \in [Creator -> CallState]
    BY DEF OrInit, CallState, Status
  <2>3. st \in [Stopper -> StopState]
    BY DEF OrInit, StopState, Status
  <2> QED
    BY <2>1, <2>2, <2>3 DEF OrInit, OrTypes
<1>2. TableWorker /\ HandleUp
  BY DEF OrInit, TableWorker, HandleUp, Empty
<1>3. TaskInv /\ AnsweredFor
  BY DEF OrInit, TaskInv, AnsweredFor
<1>4. CallHands /\ StopHands
  BY DEF OrInit, CallHands, StopHands
<1> QED
  BY <1>1, <1>2, <1>3, <1>4 DEF OrInv

\* What a step of one call's own state leaves alone.
LEMMA CallFrame ==
  ASSUME OrInv, NEW c \in Creator, NEW r \in CallState, cr' = [cr EXCEPT ![c] = r]
  PROVE  /\ cr' \in [Creator -> CallState] /\ cr'[c] = r
         /\ \A x \in Creator : x # c => cr'[x] = cr[x]
  BY DEF OrInv, OrTypes

\* Enter and ReadGeneration: the call has started nothing yet.
LEMMA EarlySteps ==
  ASSUME OrInv, NEW c \in Creator, Enter(c) \/ ReadGeneration(c)
  PROVE  OrInv'
<1>1. PICK r \in CallState : /\ cr' = [cr EXCEPT ![c] = r]
                             /\ r.pc \in {"generation", "insert", "done"} /\ r.worker = Nobody
  BY DEF OrInv, OrTypes, CallHands, CallState, Handle, Enter, ReadGeneration, Return, Gone
<1>2. UNCHANGED <<entry, gen, task, worker, reaper, st>>
  BY DEF Enter, ReadGeneration
<1>3. cr[c].pc \in {"enter", "generation"}
  BY DEF Enter, ReadGeneration
<1>4. /\ cr' \in [Creator -> CallState] /\ cr'[c] = r
      /\ \A x \in Creator : x # c => cr'[x] = cr[x]
  BY <1>1, CallFrame
<1>5. OrTypes'
  BY <1>2, <1>4 DEF OrInv, OrTypes
<1>6. TableWorker'
  BY <1>2, <1>3, <1>4 DEF OrInv, OrTypes, TableWorker, Handle
<1>7. TaskInv'
  BY <1>1, <1>2, <1>3, <1>4 DEF OrInv, TaskInv
<1>8. CallHands'
  BY <1>1, <1>2, <1>3, <1>4, NobodyAssumption
     DEF OrInv, OrTypes, TableWorker, TaskInv, CallHands
<1>9. StopHands'
  BY <1>1, <1>2, <1>3, <1>4, NobodyAssumption DEF OrInv, OrTypes, TableWorker, StopHands
<1>10. AnsweredFor'
  BY <1>1, <1>2, <1>3, <1>4, NobodyAssumption DEF OrInv, OrTypes, TaskInv, AnsweredFor, Forsaken
<1>11. HandleUp'
  BY <1>1, <1>2, <1>3, <1>4, NobodyAssumption
     DEF OrInv, OrTypes, Handle, TableWorker, CallHands, StopHands, HandleUp
<1> QED
  BY <1>5, <1>6, <1>7, <1>8, <1>9, <1>10, <1>11 DEF OrInv

\* Insert: the table is empty, so no worker leaves it.
LEMMA InsertStep ==
  ASSUME OrInv, NEW c \in Creator, Insert(c)
  PROVE  OrInv'
<1>1. CASE entry # Empty
  <2>1. PICK r \in CallState : /\ cr' = [cr EXCEPT ![c] = r]
                               /\ r.pc = "done" /\ r.worker = Nobody
    BY <1>1 DEF OrInv, OrTypes, CallState, Handle, Insert, Return, Gone
  <2>2. UNCHANGED <<entry, gen, task, worker, reaper, st>> /\ cr[c].pc = "insert"
    BY <1>1 DEF Insert
  <2>3. /\ cr' \in [Creator -> CallState] /\ cr'[c] = r
        /\ \A x \in Creator : x # c => cr'[x] = cr[x]
    BY <2>1, CallFrame
  <2>4. OrTypes'
    BY <2>2, <2>3 DEF OrInv, OrTypes
  <2>5. TableWorker'
    BY <2>1, <2>2, <2>3 DEF OrInv, OrTypes, TableWorker, Handle
  <2>6. TaskInv'
    BY <2>1, <2>2, <2>3 DEF OrInv, TaskInv
  <2>7. CallHands'
    BY <2>1, <2>2, <2>3, NobodyAssumption DEF OrInv, OrTypes, TableWorker, TaskInv, CallHands
  <2>8. StopHands'
    BY <2>1, <2>2, <2>3, NobodyAssumption DEF OrInv, OrTypes, TableWorker, StopHands
  <2>9. AnsweredFor'
    BY <2>1, <2>2, <2>3, NobodyAssumption DEF OrInv, OrTypes, TaskInv, AnsweredFor, Forsaken
  <2>10. HandleUp'
    BY <2>1, <2>2, <2>3, NobodyAssumption
     DEF OrInv, OrTypes, Handle, TableWorker, CallHands, StopHands, HandleUp
  <2> QED
    BY <2>4, <2>5, <2>6, <2>7, <2>8, <2>9, <2>10 DEF OrInv
<1>2. CASE entry = Empty
  <2>1. PICK r \in CallState : /\ cr' = [cr EXCEPT ![c] = r]
                               /\ r.pc = "await" /\ r.worker = cr[c].worker
    BY <1>2 DEF OrInv, OrTypes, CallState, Insert
  <2>2. /\ UNCHANGED <<gen, worker, reaper, st>> /\ cr[c].pc = "insert"
        /\ entry' = Placeholder(c) /\ task' = [task EXCEPT ![c] = "running"]
    BY <1>2 DEF Insert
  <2>3. /\ cr' \in [Creator -> CallState] /\ cr'[c] = r
        /\ \A x \in Creator : x # c => cr'[x] = cr[x]
    BY <2>1, CallFrame
  <2>4. entry' \in Handle /\ entry'.worker = Nobody
    BY <2>2 DEF Placeholder, Handle, Status
  <2>5. OrTypes'
    BY <2>2, <2>3, <2>4 DEF OrInv, OrTypes
  <2>6. TableWorker'
    BY <2>4 DEF TableWorker
  <2>7. worker[c] # "up"
    BY <2>2 DEF OrInv, TaskInv
  <2>8. TaskInv'
    BY <2>1, <2>2, <2>3, <2>7 DEF OrInv, OrTypes, TaskInv
  <2>9. entry.worker \notin Creator
    BY <1>2, NobodyAssumption DEF Empty
  <2>10. CallHands'
    BY <2>1, <2>2, <2>3, <2>4, <2>7, <2>9, NobodyAssumption
       DEF OrInv, OrTypes, TableWorker, TaskInv, CallHands
  <2>11. StopHands'
    BY <2>1, <2>2, <2>3, <2>4, <2>7, <2>9, NobodyAssumption
       DEF OrInv, OrTypes, TableWorker, StopHands
  <2>12. AnsweredFor'
    BY <2>1, <2>2, <2>3, <2>4, <2>7, <2>9, NobodyAssumption
       DEF OrInv, OrTypes, TaskInv, AnsweredFor, Forsaken
  <2>13. HandleUp'
    BY <2>1, <2>2, <2>3, <2>4, <2>7, <2>9, NobodyAssumption
     DEF OrInv, OrTypes, Handle, TableWorker, CallHands, StopHands, HandleUp
  <2> QED
    BY <2>5, <2>6, <2>8, <2>10, <2>11, <2>12, <2>13 DEF OrInv
<1> QED
  BY <1>1, <1>2

\* Provisioned: whoever waits for the task accounts for the worker.
LEMMA ProvisionedStep ==
  ASSUME OrInv, NEW c \in Creator, Provisioned(c)
  PROVE  OrInv'
<1>1. /\ UNCHANGED <<entry, gen, reaper, cr, st>> /\ task[c] = "running"
      /\ \/ task' = [task EXCEPT ![c] = "ok"] /\ worker' = [worker EXCEPT ![c] = "up"]
         \/ task' = [task EXCEPT ![c] = "err"] /\ UNCHANGED worker
  BY DEF Provisioned
<1>2. OrTypes'
  BY <1>1 DEF OrInv, OrTypes
<1>3. TableWorker'
  BY <1>1 DEF OrInv, TableWorker
<1>4. TaskInv'
  BY <1>1 DEF OrInv, OrTypes, TaskInv
<1>5. CallHands'
  BY <1>1, NobodyAssumption DEF OrInv, OrTypes, TableWorker, TaskInv, CallHands
<1>6. StopHands'
  BY <1>1, NobodyAssumption DEF OrInv, OrTypes, TableWorker, StopHands
<1>7. AnsweredFor'
  BY <1>1, NobodyAssumption DEF OrInv, OrTypes, TaskInv, AnsweredFor, Forsaken
<1>8. HandleUp'
  BY <1>1, NobodyAssumption
     DEF OrInv, OrTypes, Handle, TableWorker, CallHands, StopHands, HandleUp
<1> QED
  BY <1>2, <1>3, <1>4, <1>5, <1>6, <1>7, <1>8 DEF OrInv

\* Awaited and TimedOut: the worker is the call's, or is the detached task's.
LEMMA AwaitSteps ==
  ASSUME OrInv, NEW c \in Creator, Awaited(c) \/ TimedOut(c)
  PROVE  OrInv'
<1>1. PICK r \in CallState :
        /\ cr' = [cr EXCEPT ![c] = r] /\ r.pc = "settle"
        /\ \/ reaper' = reaper \cup {c} /\ r.worker = cr[c].worker
           \/ reaper' = reaper /\ task[c] = "ok" /\ r.worker = c
           \/ reaper' = reaper /\ task[c] = "err" /\ r.worker = Nobody
  BY DEF OrInv, OrTypes, CallState, Status, Awaited, TimedOut
<1>2. /\ UNCHANGED <<entry, gen, task, worker, st>> /\ cr[c].pc = "await"
      /\ reaper \subseteq reaper' /\ reaper' \subseteq Creator
  BY DEF OrInv, OrTypes, Awaited, TimedOut
<1>3. /\ cr' \in [Creator -> CallState] /\ cr'[c] = r
      /\ \A x \in Creator : x # c => cr'[x] = cr[x]
  BY <1>1, CallFrame
<1>4. OrTypes'
  BY <1>2, <1>3 DEF OrInv, OrTypes
<1>5. TableWorker'
  BY <1>2, <1>3 DEF OrInv, OrTypes, TableWorker, Handle
<1>6. TaskInv'
  BY <1>1, <1>2, <1>3 DEF OrInv, TaskInv
<1>7. CallHands'
  BY <1>1, <1>2, <1>3, NobodyAssumption DEF OrInv, OrTypes, TableWorker, TaskInv, CallHands
<1>8. StopHands'
  BY <1>1, <1>2, <1>3, NobodyAssumption DEF OrInv, OrTypes, TableWorker, StopHands
<1>9. AnsweredFor'
  BY <1>1, <1>2, <1>3, NobodyAssumption DEF OrInv, OrTypes, TaskInv, AnsweredFor, Forsaken
<1>10. HandleUp'
  BY <1>1, <1>2, <1>3, NobodyAssumption
     DEF OrInv, OrTypes, Handle, TableWorker, CallHands, StopHands, HandleUp
<1> QED
  BY <1>4, <1>5, <1>6, <1>7, <1>8, <1>9, <1>10 DEF OrInv

\* Settle: the call's worker goes into the table or to a detached task, and the table
\* it overwrites holds no worker.
LEMMA SettleStep ==
  ASSUME OrInv, NEW c \in Creator, Settle(c)
  PROVE  OrInv'
<1>1. PICK r \in CallState : /\ cr' = [cr EXCEPT ![c] = r]
                             /\ r.pc = "done" /\ r.worker = Nobody
  <2>1. entry' \in Handle
    BY DEF OrInv, OrTypes, Settle, Handle, CallState, Empty, Status
  <2> QED
    BY <2>1 DEF OrInv, OrTypes, CallState, Handle, Settle, Return, Gone
<1>2. UNCHANGED <<gen, task, worker, st>> /\ cr[c].pc = "settle"
  BY DEF Settle
<1>3. /\ cr' \in [Creator -> CallState] /\ cr'[c] = r
      /\ \A x \in Creator : x # c => cr'[x] = cr[x]
  BY <1>1, CallFrame
<1>4. entry.vm = c => entry.worker = Nobody
  BY <1>2 DEF OrInv, TableWorker
<1>5. /\ entry' \in Handle /\ reaper \subseteq reaper' /\ reaper' \subseteq reaper \cup {c}
      /\ \/ entry'.worker = cr[c].worker /\ entry'.vm = c /\ entry.vm = c /\ reaper' = reaper
         \/ /\ cr[c].worker = Nobody \/ c \in reaper'
            /\ entry' = entry \/ (entry'.worker = Nobody /\ entry.vm = c)
  BY DEF OrInv, OrTypes, Settle, Mine, Handle, CallState, Empty, Status
<1>6. OrTypes'
  BY <1>2, <1>3, <1>5 DEF OrInv, OrTypes
<1>7. TableWorker'
  BY <1>1, <1>2, <1>3, <1>5 DEF OrInv, OrTypes, TableWorker, TaskInv, Handle
<1>8. TaskInv'
  BY <1>1, <1>2, <1>3, <1>5 DEF OrInv, TaskInv
<1>9. CallHands'
  BY <1>1, <1>2, <1>3, <1>4, <1>5, NobodyAssumption
     DEF OrInv, OrTypes, TableWorker, TaskInv, CallHands
<1>10. StopHands'
  BY <1>1, <1>2, <1>3, <1>4, <1>5, NobodyAssumption
     DEF OrInv, OrTypes, TableWorker, TaskInv, StopHands
<1>11. AnsweredFor'
  BY <1>1, <1>2, <1>3, <1>4, <1>5, NobodyAssumption
     DEF OrInv, OrTypes, TaskInv, AnsweredFor, Forsaken
<1>12. HandleUp'
  BY <1>1, <1>2, <1>3, <1>4, <1>5, NobodyAssumption
     DEF OrInv, OrTypes, Handle, TableWorker, TaskInv, CallHands, HandleUp
<1> QED
  BY <1>6, <1>7, <1>8, <1>9, <1>10, <1>11, <1>12 DEF OrInv

\* Reap: the worker it stops accounting for is gone, or was never there.
LEMMA ReapStep ==
  ASSUME OrInv, NEW c \in Creator, Reap(c)
  PROVE  OrInv'
<1>1. /\ UNCHANGED <<entry, gen, task, cr, st>> /\ task[c] # "running"
      /\ c \in reaper /\ reaper' = reaper \ {c}
  BY DEF Reap
<1>2. /\ worker' \in [Creator -> {"none", "up", "gone", "lost"}] /\ worker'[c] # "up"
      /\ \A x \in Creator : x # c => worker'[x] = worker[x]
  BY DEF OrInv, OrTypes, TaskInv, Reap
<1>3. OrTypes'
  BY <1>1, <1>2 DEF OrInv, OrTypes
<1>4. TableWorker'
  BY <1>1 DEF OrInv, TableWorker
<1>5. TaskInv'
  BY <1>1, <1>2 DEF OrInv, TaskInv
<1>6. CallHands'
  BY <1>1, <1>2, NobodyAssumption DEF OrInv, OrTypes, TableWorker, TaskInv, CallHands
<1>7. StopHands'
  BY <1>1, <1>2, NobodyAssumption DEF OrInv, OrTypes, TableWorker, StopHands
<1>8. AnsweredFor'
  BY <1>1, <1>2, NobodyAssumption DEF OrInv, OrTypes, TaskInv, AnsweredFor, Forsaken
<1>9. HandleUp'
  BY <1>1, <1>2, NobodyAssumption
     DEF OrInv, OrTypes, Handle, TableWorker, CallHands, StopHands, HandleUp
<1> QED
  BY <1>3, <1>4, <1>5, <1>6, <1>7, <1>8, <1>9 DEF OrInv

\* DropCreate: the worker of a call that was dropped is its own affair.
LEMMA DropCreateStep ==
  ASSUME OrInv, NEW c \in Creator, DropCreate(c)
  PROVE  OrInv'
<1>1. PICK r \in CallState : /\ cr' = [cr EXCEPT ![c] = r]
                             /\ r.pc = "dropped" /\ r.worker = Nobody
  <2>1. Gone("dropped", "none") \in CallState
    BY DEF Gone, CallState, Status
  <2> QED
    BY <2>1 DEF DropCreate, Gone
<1>2. UNCHANGED <<entry, gen, task, worker, reaper, st>> /\ cr[c].pc \in {"await", "settle"}
  BY DEF DropCreate
<1>3. /\ cr' \in [Creator -> CallState] /\ cr'[c] = r
      /\ \A x \in Creator : x # c => cr'[x] = cr[x]
  BY <1>1, CallFrame
<1>4. OrTypes'
  BY <1>2, <1>3 DEF OrInv, OrTypes
<1>5. TableWorker'
  BY <1>2, <1>3 DEF OrInv, OrTypes, TableWorker, Handle
<1>6. TaskInv'
  BY <1>1, <1>2, <1>3 DEF OrInv, TaskInv
<1>7. CallHands'
  BY <1>1, <1>2, <1>3, NobodyAssumption DEF OrInv, OrTypes, TableWorker, TaskInv, CallHands
<1>8. StopHands'
  BY <1>1, <1>2, <1>3, NobodyAssumption DEF OrInv, OrTypes, TableWorker, StopHands
<1>9. AnsweredFor'
  BY <1>1, <1>2, <1>3, NobodyAssumption DEF OrInv, OrTypes, TaskInv, AnsweredFor, Forsaken
<1>10. HandleUp'
  BY <1>1, <1>2, <1>3, NobodyAssumption
     DEF OrInv, OrTypes, Handle, TableWorker, CallHands, StopHands, HandleUp
<1> QED
  BY <1>4, <1>5, <1>6, <1>7, <1>8, <1>9, <1>10 DEF OrInv

-----------------------------------------------------------------------------

\* What a step of one stopper's own state leaves alone.
LEMMA StopFrame ==
  ASSUME OrInv, NEW d \in Stopper, NEW r \in StopState, st' = [st EXCEPT ![d] = r]
  PROVE  /\ st' \in [Stopper -> StopState] /\ st'[d] = r
         /\ \A x \in Stopper : x # d => st'[x] = st[x]
  BY DEF OrInv, OrTypes

\* A cancel, and the start of a destroy, take no worker out of the table.
LEMMA CancelSteps ==
  ASSUME OrInv, NEW d \in Stopper, NEW pc \in {"look", "remove"},
         StopAt(d, pc) \/ CancelLook(d) \/ CancelMark(d) \/ CancelCleanup(d) \/ CancelFinish(d)
  PROVE  OrInv'
<1>1. PICK r \in StopState : st' = [st EXCEPT ![d] = r] /\ r.pc # "destroy"
  BY DEF OrInv, OrTypes, StopState, Handle, Status, StopAt, CancelLook, CancelMark, CancelCleanup,
         CancelFinish, Leave
<1>2. UNCHANGED <<task, worker, reaper, cr>> /\ st[d].pc \notin {"destroy", "dropped"}
  BY DEF StopAt, CancelLook, CancelMark, CancelCleanup, CancelFinish
<1>3. gen' \in Nat
  BY DEF OrInv, OrTypes, StopAt, CancelLook, CancelMark, CancelCleanup, CancelFinish
<1>4. entry' \in Handle /\ entry'.vm = entry.vm /\ entry'.worker = entry.worker
  BY DEF OrInv, OrTypes, StopState, Handle, Status, StopAt, CancelLook, CancelMark, CancelCleanup,
         CancelFinish
<1>5. /\ st' \in [Stopper -> StopState] /\ st'[d] = r
      /\ \A x \in Stopper : x # d => st'[x] = st[x]
  BY <1>1, StopFrame
<1>6. OrTypes'
  BY <1>2, <1>3, <1>4, <1>5 DEF OrInv, OrTypes
<1>7. TableWorker'
  BY <1>2, <1>4 DEF OrInv, TableWorker
<1>8. TaskInv'
  BY <1>2 DEF OrInv, TaskInv
<1>9. CallHands'
  BY <1>1, <1>2, <1>4, <1>5, NobodyAssumption
     DEF OrInv, OrTypes, TableWorker, TaskInv, CallHands
<1>10. StopHands'
  BY <1>1, <1>2, <1>4, <1>5, NobodyAssumption DEF OrInv, OrTypes, TableWorker, StopHands
<1>11. AnsweredFor'
  BY <1>2, <1>4, <1>5 DEF OrInv, AnsweredFor, Forsaken
<1>12. HandleUp'
  BY <1>1, <1>2, <1>4, <1>5, NobodyAssumption
     DEF OrInv, OrTypes, Handle, TableWorker, CallHands, StopHands, HandleUp
<1> QED
  BY <1>6, <1>7, <1>8, <1>9, <1>10, <1>11, <1>12 DEF OrInv

\* DestroyRemove: the worker the table loses is the destroy's.
LEMMA DestroyRemoveStep ==
  ASSUME OrInv, NEW d \in Stopper, DestroyRemove(d)
  PROVE  OrInv'
<1>1. PICK r \in StopState : /\ st' = [st EXCEPT ![d] = r]
                             /\ entry.worker # Nobody => r.pc = "destroy" /\ r.worker = entry.worker
                             /\ entry.worker = Nobody => r.pc = "done"
  BY DEF OrInv, OrTypes, StopState, Handle, DestroyRemove, Leave
<1>2. UNCHANGED <<gen, task, worker, reaper, cr>> /\ st[d].pc = "remove" /\ entry' = Empty
  BY DEF DestroyRemove
<1>3. /\ st' \in [Stopper -> StopState] /\ st'[d] = r
      /\ \A x \in Stopper : x # d => st'[x] = st[x]
  BY <1>1, StopFrame
<1>4. entry' \in Handle /\ entry'.worker = Nobody
  BY <1>2 DEF Empty, Handle, Status
<1>5. OrTypes'
  BY <1>2, <1>3, <1>4 DEF OrInv, OrTypes
<1>6. TableWorker'
  BY <1>4 DEF TableWorker
<1>7. TaskInv'
  BY <1>2 DEF OrInv, TaskInv
<1>8. CallHands'
  BY <1>1, <1>2, <1>3, <1>4, NobodyAssumption
     DEF OrInv, OrTypes, TableWorker, TaskInv, CallHands
<1>9. StopHands'
  BY <1>1, <1>2, <1>3, <1>4, NobodyAssumption DEF OrInv, OrTypes, Handle, TableWorker, StopHands
<1>10. AnsweredFor'
  BY <1>1, <1>2, <1>3, <1>4, NobodyAssumption DEF OrInv, OrTypes, TaskInv, AnsweredFor, Forsaken
<1>11. HandleUp'
  BY <1>1, <1>2, <1>3, <1>4, NobodyAssumption
     DEF OrInv, OrTypes, Handle, TableWorker, CallHands, StopHands, HandleUp
<1> QED
  BY <1>5, <1>6, <1>7, <1>8, <1>9, <1>10, <1>11 DEF OrInv

\* DestroyCleanup: the worker it lets go of is gone or reported lost.
LEMMA DestroyCleanupStep ==
  ASSUME OrInv, NEW d \in Stopper, DestroyCleanup(d)
  PROVE  OrInv'
<1>1. PICK r \in StopState : st' = [st EXCEPT ![d] = r] /\ r.pc = "done"
  BY DEF OrInv, OrTypes, StopState, Status, DestroyCleanup, Leave
<1>2. UNCHANGED <<entry, gen, task, reaper, cr>> /\ st[d].pc = "destroy"
  BY DEF DestroyCleanup
<1>3. /\ st' \in [Stopper -> StopState] /\ st'[d] = r
      /\ \A x \in Stopper : x # d => st'[x] = st[x]
  BY <1>1, StopFrame
<1>4. PICK w \in {"gone", "lost"} : worker' = [worker EXCEPT ![st[d].worker] = w]
  BY DEF DestroyCleanup
<1>5. /\ worker' \in [Creator -> {"none", "up", "gone", "lost"}]
      /\ \A c \in Creator : worker'[c] = worker[c]
                              \/ (worker'[c] \in {"gone", "lost"} /\ st[d].worker = c)
      /\ \A c \in Creator : worker'[c] = "up" => worker[c] = "up" /\ c # st[d].worker
  BY <1>4 DEF OrInv, OrTypes
<1>6. OrTypes'
  BY <1>2, <1>3, <1>5 DEF OrInv, OrTypes
<1>7. TableWorker'
  BY <1>2 DEF OrInv, TableWorker
<1>8. TaskInv'
  BY <1>2, <1>5 DEF OrInv, TaskInv
<1>9. CallHands'
  BY <1>1, <1>2, <1>3, <1>5, NobodyAssumption DEF OrInv, OrTypes, CallHands, StopHands
<1>10. StopHands'
  BY <1>1, <1>2, <1>3, <1>5, NobodyAssumption DEF OrInv, OrTypes, TableWorker, StopHands
<1>11. AnsweredFor'
  BY <1>1, <1>2, <1>3, <1>5, NobodyAssumption DEF OrInv, OrTypes, TaskInv, AnsweredFor, Forsaken
<1>12. HandleUp'
  BY <1>1, <1>2, <1>3, <1>5, NobodyAssumption
     DEF OrInv, OrTypes, Handle, TableWorker, CallHands, StopHands, HandleUp
<1> QED
  BY <1>6, <1>7, <1>8, <1>9, <1>10, <1>11, <1>12 DEF OrInv

\* DropStop: a destroy that is dropped keeps its worker in its own state only.
LEMMA DropStopStep ==
  ASSUME OrInv, NEW d \in Stopper, DropStop(d)
  PROVE  OrInv'
<1>1. PICK r \in StopState :
        /\ st' = [st EXCEPT ![d] = r] /\ r.pc = "dropped"
        /\ st[d].pc = "destroy" => r.worker = st[d].worker
  <2> DEFINE left == IF st[d].pc = "destroy" THEN st[d].worker ELSE Nobody
             r == [pc |-> "dropped", status |-> "none", worker |-> left]
  <2>1. r \in StopState /\ r.pc = "dropped" /\ r.worker = left
    BY DEF OrInv, OrTypes, StopState, Status
  <2>2. st' = [st EXCEPT ![d] = r]
    BY DEF DropStop
  <2> QED
    BY <2>1, <2>2
<1>2. UNCHANGED <<entry, gen, task, reaper, cr>> /\ st[d].pc \notin {"done", "dropped"}
  BY DEF DropStop
<1>3. /\ st' \in [Stopper -> StopState] /\ st'[d] = r
      /\ \A x \in Stopper : x # d => st'[x] = st[x]
  BY <1>1, StopFrame
<1>4. /\ worker' \in [Creator -> {"none", "up", "gone", "lost"}]
      /\ \A c \in Creator : worker'[c] = worker[c]
                              \/ (worker'[c] = "gone" /\ st[d].pc = "destroy" /\ st[d].worker = c)
  BY DEF OrInv, OrTypes, DropStop
<1>5. OrTypes'
  BY <1>2, <1>3, <1>4 DEF OrInv, OrTypes
<1>6. TableWorker'
  BY <1>2 DEF OrInv, TableWorker
<1>7. TaskInv'
  BY <1>2, <1>4 DEF OrInv, TaskInv
<1>8. CallHands'
  BY <1>1, <1>2, <1>3, <1>4, NobodyAssumption DEF OrInv, OrTypes, CallHands, StopHands
<1>9. StopHands'
  BY <1>1, <1>2, <1>3, <1>4, NobodyAssumption DEF OrInv, OrTypes, TableWorker, StopHands
<1>10. AnsweredFor'
  BY <1>1, <1>2, <1>3, <1>4, NobodyAssumption DEF OrInv, OrTypes, TaskInv, AnsweredFor, Forsaken
<1>11. HandleUp'
  BY <1>1, <1>2, <1>3, <1>4, NobodyAssumption
     DEF OrInv, OrTypes, Handle, TableWorker, CallHands, StopHands, HandleUp
<1> QED
  BY <1>5, <1>6, <1>7, <1>8, <1>9, <1>10, <1>11 DEF OrInv

\* Every step of the manager keeps the invariant.
LEMMA OrInvStep == OrInv /\ [OrNext]_orvars => OrInv'
<1> SUFFICES ASSUME OrInv, [OrNext]_orvars PROVE OrInv'
  OBVIOUS
<1>1. ASSUME NEW c \in Creator,
             \/ Enter(c) \/ ReadGeneration(c) \/ Insert(c) \/ Provisioned(c) \/ Awaited(c)
             \/ TimedOut(c) \/ Settle(c) \/ Reap(c) \/ DropCreate(c)
      PROVE  OrInv'
  BY <1>1, EarlySteps, InsertStep, ProvisionedStep, AwaitSteps, SettleStep, ReapStep,
     DropCreateStep
<1>2. ASSUME NEW d \in Stopper,
             \/ StopAt(d, "look") \/ StopAt(d, "remove")
             \/ CancelLook(d) \/ CancelMark(d) \/ CancelCleanup(d) \/ CancelFinish(d)
      PROVE  OrInv'
  BY <1>2, CancelSteps
<1>3. ASSUME NEW d \in Stopper, DestroyRemove(d) \/ DestroyCleanup(d) \/ DropStop(d)
      PROVE  OrInv'
  BY <1>3, DestroyRemoveStep, DestroyCleanupStep, DropStopStep
<1>4. CASE UNCHANGED orvars
  BY <1>4 DEF orvars, OrInv, OrTypes, TableWorker, TaskInv, CallHands, StopHands,
         AnsweredFor, HandleUp, Forsaken
<1> QED
  BY <1>1, <1>2, <1>3, <1>4 DEF OrNext

\* A worker that is up has somebody who will hand it out or destroy it, unless its own
\* create or its own destroy was dropped by the caller, and the session's handle names
\* none that was destroyed (create_for_session, cancel_for_session,
\* destroy_for_session), for every number of callers and however long provisioning takes.
THEOREM NoWorkerLost == OrSpec => []WorkerAccounted
<1>1. OrInv => WorkerAccounted
  BY DEF OrInv, WorkerAccounted
<1> QED
  BY OrInvInit, OrInvStep, <1>1, PTL DEF OrSpec

-----------------------------------------------------------------------------
(* The gates *)

GateState ==
  [kind : Gates \cup {"provider", "backend_up"},
   pc : {"start", "create", "ready", "gate", "destroy", "confirm", "sweep", "sweeping", "orphans",
         "held", "probe", "probe2", "kill", "spawn", "wait", "clearing", "snapshot", "building",
         "provenance", "done"},
   sid : Nat, left : Int, created : SUBSET Nat, todo : SUBSET Nat,
   quiet : BOOLEAN, failed : BOOLEAN, spawned : BOOLEAN,
   res : {"none", "pass", "fail", "skipped"}]

\* Where an invocation stands by itself: which command is where, that a sweep and a
\* destroy of a guest that did not come up are those of a failed gate, and that only
\* an invocation that is over has a result.
GateShape(f) ==
  /\ f.kind = "provider" => f.pc \in {"start", "held", "destroy", "done"}
  /\ f.kind = "backend_up" => f.pc \in {"start", "probe", "probe2", "kill", "spawn", "wait",
                                        "clearing", "snapshot", "building", "provenance", "done"}
  /\ f.kind \in Gates => f.pc \in {"start", "create", "ready", "gate", "destroy", "confirm",
                                    "sweep", "sweeping", "orphans", "done"}
  /\ f.kind \notin Gates => ~f.failed
  /\ f.pc \in {"sweep", "sweeping", "orphans"} => f.kind = "workload"
  /\ f.todo # {} => f.kind \in {"workload", "backend_up"}
  /\ f.pc \in {"sweep", "sweeping"} \/ f.quiet \/ (f.kind # "backend_up" /\ f.todo # {})
       => f.failed
  /\ f.res = "none" <=> f.pc # "done"
  /\ f.res = "pass" => ~f.failed

\* An invocation that may still pass, or did.
Sound(f) == ~f.failed /\ f.res \in {"none", "pass"}
Holding == {"ready", "gate", "destroy", "confirm", "held"}

\* Such an invocation has no create still to be carried out, and owns at most the
\* sandbox it has in hand.
HandOnly(r) ==
  Sound(inv[r]) =>
    /\ r \notin late
    /\ \A s \in live : s.owner = r => s.id = inv[r].sid /\ inv[r].pc \in Holding

GateInv ==
  /\ inv \in [Run -> GateState] /\ made \in Nat
  /\ live \subseteq [id : Nat, owner : Run]
  /\ \A r \in Run : GateShape(inv[r]) /\ HandOnly(r)

-----------------------------------------------------------------------------
(* The agent's session *)

Actor == {"loop", "side"}
ToolCall == [at : {"idle", "lock", "boot", "register", "set", "unregister"}, vm : Nat,
             todo : SUBSET SandboxTools]
Starting(a) == op[a].at \in {"boot", "register", "set"}
Filling(a) == op[a].at \in {"register", "set"}

SessionTypes ==
  /\ tools \in [SandboxTools -> Nat] /\ sandbox \in Nat /\ booted \in Nat
  /\ op \in [Actor -> ToolCall]

\* One actor starts at a time, and only while there is no sandbox; the tools it has
\* registered reach its VM unless a stop removed them; and without a sandbox a tool
\* is left only to a stop that is still to come to it.
StartsAlone == \A a \in Actor : Starting(a) => bootLock = a /\ sandbox = 0
FillsOwn ==
  \A a \in Actor : Filling(a) =>
    /\ op[a].vm # 0 /\ (op[a].at = "set" => op[a].todo = {})
    /\ \A t \in SandboxTools \ op[a].todo : tools[t] \in {0, op[a].vm}
ToolsOfSandbox == sandbox # 0 => \A t \in SandboxTools : tools[t] \in {0, sandbox}
StopsClear ==
  sandbox = 0 /\ (\A a \in Actor : ~Filling(a)) =>
    \A t \in SandboxTools :
      tools[t] = 0 \/ \E a \in Actor : op[a].at = "unregister" /\ t \in op[a].todo

SessionInv == SessionTypes /\ StartsAlone /\ FillsOwn /\ ToolsOfSandbox /\ StopsClear

Entry == [role : {"model", "tool", "user"}, calls : Seq(Called)]
LoopState == [pc : {"top", "model", "tools", "Done", "MaxRounds", "Aborted", "Err"},
              round : Nat, calls : Seq(Called), runs : Nat]
HistoryTypes ==
  /\ hist \in Seq(Entry) /\ inbox \in Seq({"", "steer"})
  /\ run \in LoopState

\* A tool call of the loop that is under way is the next of the round.
LoopCalls ==
  op["loop"].at # "idle" =>
    /\ run.pc = "tools" /\ run.calls # <<>>
    /\ Head(run.calls) = IF op["loop"].at = "unregister" THEN "sandbox_stop" ELSE "sandbox_start"

\* During a round, the history is the model's message with the answers so far, and
\* the calls left are the rest of it.
Answering ==
  run.pc = "tools" =>
    /\ hist # <<>> /\ hist[1].role = "model"
    /\ Len(hist) - 1 + Len(run.calls) = Len(hist[1].calls)
    /\ \A i \in 2..Len(hist) : hist[i] = Message("tool", <<hist[1].calls[i - 1]>>)
    /\ \A j \in 1..Len(run.calls) : run.calls[j] = hist[1].calls[Len(hist) - 1 + j]

\* Outside one, n calls were answered: all, unless an abort came between.
Answered(n) ==
  LET asked == hist[1].calls
  IN  /\ n <= Len(asked) /\ n < Len(hist) /\ (n = Len(asked) \/ cut)
      /\ \A i \in 2..Len(hist) : hist[i].role = "tool" <=> i <= n + 1
      /\ \A j \in 1..n : hist[j + 1].calls = <<asked[j]>>
Rested == run.pc # "tools" /\ hist # <<>> /\ hist[1].role = "model" => \E n \in Nat : Answered(n)

HistoryInv == HistoryTypes /\ LoopCalls /\ Answering /\ Rested

-----------------------------------------------------------------------------
(* The agent's session: its tools *)

\* A new session has no sandbox, no tool and nobody in it.
LEMMA SessionInit == AlInit => SessionInv
<1> SUFFICES ASSUME AlInit PROVE SessionInv
  OBVIOUS
<1>1. op \in [Actor -> ToolCall] /\ \A a \in Actor : op[a].at = "idle"
  BY DEF AlInit, IdleOp, ToolCall, Actor
<1>2. SessionTypes
  BY <1>1 DEF AlInit, NoTools, SessionTypes
<1> QED
  BY <1>1, <1>2
     DEF AlInit, NoTools, SessionInv, StartsAlone, FillsOwn, ToolsOfSandbox, StopsClear,
     Starting, Filling

\* A call that ends, or that comes to wait for the boot lock or fails to boot,
\* changes neither tools nor sandbox.
LEMMA IdleStep ==
  ASSUME SessionInv, NEW a \in Actor, NEW o \in ToolCall, op' = [op EXCEPT ![a] = o],
         o.at \in {"idle", "lock"}, op[a].at \in {"idle", "lock", "boot"},
         UNCHANGED <<tools, sandbox, booted>>,
         \A b \in Actor : b # a /\ Starting(b) => bootLock' = bootLock
  PROVE  SessionInv'
<1>1. op' \in [Actor -> ToolCall] /\ op'[a] = o /\ \A b \in Actor : b # a => op'[b] = op[b]
  BY DEF SessionInv, SessionTypes
<1>2. SessionTypes'
  BY <1>1 DEF SessionInv, SessionTypes
<1>3. StartsAlone'
  BY <1>1 DEF SessionInv, StartsAlone, Starting
<1>4. FillsOwn'
  BY <1>1 DEF SessionInv, FillsOwn, Filling
<1>5. ToolsOfSandbox'
  BY DEF SessionInv, ToolsOfSandbox
<1>6. StopsClear'
  BY <1>1 DEF SessionInv, StopsClear, Filling
<1> QED
  BY <1>2, <1>3, <1>4, <1>5, <1>6 DEF SessionInv

\* The steps of the session's tools.
LEMMA LocksStep ==
  ASSUME SessionInv, NEW a \in Actor, StartLocks(a)
  PROVE  SessionInv'
<1>0. op[a].at = "lock" /\ bootLock = NoHolder /\ UNCHANGED <<tools, sandbox, booted>>
  BY DEF StartLocks
<1>1. CASE sandbox # 0
  <2>1. op' = [op EXCEPT ![a] = IdleOp] /\ bootLock' = bootLock
    BY <1>1 DEF StartLocks, Returns
  <2>2. IdleOp \in ToolCall /\ IdleOp.at = "idle"
    BY DEF IdleOp, ToolCall
  <2> QED
    BY <1>0, <2>1, <2>2, IdleStep
<1>2. CASE sandbox = 0
  <2>1. bootLock' = a /\ op' = [op EXCEPT ![a].at = "boot"]
    BY <1>2 DEF StartLocks
  <2>2. /\ op' \in [Actor -> ToolCall] /\ op'[a].at = "boot"
        /\ \A b \in Actor : b # a => op'[b] = op[b]
    BY <2>1 DEF SessionInv, SessionTypes, ToolCall
  <2>3. \A b \in Actor : ~Starting(b)
    BY <1>0 DEF SessionInv, StartsAlone, NoHolder, Actor
  <2>4. SessionTypes'
    BY <1>0, <2>2 DEF SessionInv, SessionTypes
  <2>5. StartsAlone'
    BY <1>0, <1>2, <2>1, <2>2, <2>3 DEF StartsAlone, Starting
  <2>6. FillsOwn'
    BY <2>2, <2>3 DEF FillsOwn, Filling, Starting
  <2>7. ToolsOfSandbox' /\ StopsClear'
    BY <1>0, <2>2, <2>3 DEF SessionInv, ToolsOfSandbox, StopsClear, Filling, Starting
  <2> QED
    BY <2>4, <2>5, <2>6, <2>7 DEF SessionInv
<1> QED
  BY <1>1, <1>2

LEMMA BootsStep ==
  ASSUME SessionInv, NEW a \in Actor, StartBoots(a)
  PROVE  SessionInv'
<1>0. op[a].at = "boot" /\ UNCHANGED <<tools, sandbox>>
  BY DEF StartBoots
<1>1. \A b \in Actor : b # a => ~Starting(b)
  BY <1>0 DEF SessionInv, StartsAlone, Starting
<1>2. CASE /\ op' = [op EXCEPT ![a] = IdleOp] /\ booted' = booted
  <2>1. IdleOp \in ToolCall /\ IdleOp.at = "idle"
    BY DEF IdleOp, ToolCall
  <2> QED
    BY <1>0, <1>1, <1>2, <2>1, IdleStep
<1>3. CASE /\ booted' = booted + 1 /\ bootLock' = bootLock
           /\ op' = [op EXCEPT ![a] = [at |-> "register", vm |-> booted', todo |-> SandboxTools]]
  <2>1. [at |-> "register", vm |-> booted', todo |-> SandboxTools] \in ToolCall /\ booted' # 0
    BY <1>3 DEF SessionInv, SessionTypes, ToolCall
  <2>2. /\ op' \in [Actor -> ToolCall] /\ op'[a].at = "register" /\ op'[a].vm # 0
        /\ op'[a].todo = SandboxTools /\ \A b \in Actor : b # a => op'[b] = op[b]
    BY <1>3, <2>1 DEF SessionInv, SessionTypes
  <2>3. SessionTypes'
    BY <1>0, <1>3, <2>2 DEF SessionInv, SessionTypes
  <2>4. StartsAlone'
    BY <1>0, <1>1, <1>3, <2>2 DEF SessionInv, StartsAlone, Starting
  <2>5. FillsOwn'
    BY <1>1, <2>2 DEF FillsOwn, Filling, Starting
  <2>6. ToolsOfSandbox' /\ StopsClear'
    BY <1>0, <2>2 DEF SessionInv, ToolsOfSandbox, StopsClear, Filling
  <2> QED
    BY <2>3, <2>4, <2>5, <2>6 DEF SessionInv
<1> QED
  BY <1>2, <1>3 DEF StartBoots, Returns

LEMMA RegistersStep ==
  ASSUME SessionInv, NEW a \in Actor, StartRegisters(a)
  PROVE  SessionInv'
<1>0. op[a].at = "register" /\ UNCHANGED <<sandbox, booted, bootLock>>
  BY DEF StartRegisters
<1>1. PICK t \in op[a].todo :
        /\ tools' = [tools EXCEPT ![t] = op[a].vm]
        /\ op' = [op EXCEPT ![a].todo = @ \ {t},
                            ![a].at = IF op[a].todo = {t} THEN "set" ELSE "register"]
  BY DEF StartRegisters
<1>2. op[a] \in ToolCall /\ t \in SandboxTools
  BY DEF SessionInv, SessionTypes, ToolCall
<1>3. /\ op' \in [Actor -> ToolCall] /\ op'[a].at \in {"register", "set"}
      /\ op'[a].vm = op[a].vm /\ op'[a].todo = op[a].todo \ {t}
      /\ (op'[a].at = "set" => op[a].todo = {t})
      /\ \A b \in Actor : b # a => op'[b] = op[b]
  BY <1>1, <1>2 DEF SessionInv, SessionTypes, ToolCall
<1>4. /\ tools' \in [SandboxTools -> Nat] /\ tools'[t] = op[a].vm
      /\ \A u \in SandboxTools : u # t => tools'[u] = tools[u]
  BY <1>1, <1>2 DEF SessionInv, SessionTypes, ToolCall
<1>5. sandbox = 0 /\ \A b \in Actor : b # a => ~Starting(b)
  BY <1>0 DEF SessionInv, StartsAlone, Starting
<1>6. SessionTypes'
  BY <1>0, <1>3, <1>4 DEF SessionInv, SessionTypes
<1>7. StartsAlone'
  BY <1>0, <1>3, <1>5 DEF SessionInv, StartsAlone, Starting
<1>8. FillsOwn'
  BY <1>0, <1>3, <1>4, <1>5 DEF SessionInv, FillsOwn, Filling, Starting
<1>9. ToolsOfSandbox' /\ StopsClear'
  BY <1>0, <1>3, <1>5 DEF ToolsOfSandbox, StopsClear, Filling
<1> QED
  BY <1>6, <1>7, <1>8, <1>9 DEF SessionInv

LEMMA SetsStep ==
  ASSUME SessionInv, NEW a \in Actor, StartSets(a)
  PROVE  SessionInv'
<1>0. /\ op[a].at = "set" /\ UNCHANGED <<tools, booted>> /\ sandbox' = op[a].vm
      /\ op' = [op EXCEPT ![a] = IdleOp]
  BY DEF StartSets, Returns
<1>1. /\ op' \in [Actor -> ToolCall] /\ op'[a].at = "idle"
      /\ \A b \in Actor : b # a => op'[b] = op[b]
  BY <1>0 DEF SessionInv, SessionTypes, ToolCall, IdleOp
<1>2. /\ op[a].vm # 0 /\ op[a].vm \in Nat /\ \A t \in SandboxTools : tools[t] \in {0, op[a].vm}
  BY <1>0 DEF SessionInv, SessionTypes, ToolCall, FillsOwn, Filling
<1>3. \A b \in Actor : b # a => ~Starting(b)
  BY <1>0 DEF SessionInv, StartsAlone, Starting
<1>4. SessionTypes'
  BY <1>0, <1>1, <1>2 DEF SessionInv, SessionTypes
<1>5. StartsAlone' /\ FillsOwn'
  BY <1>1, <1>3 DEF StartsAlone, FillsOwn, Starting, Filling
<1>6. ToolsOfSandbox' /\ StopsClear'
  BY <1>0, <1>2 DEF ToolsOfSandbox, StopsClear
<1> QED
  BY <1>4, <1>5, <1>6 DEF SessionInv

\* A stop takes the sandbox while nobody starts one, or finds none.
LEMMA TakesStep ==
  ASSUME SessionInv, NEW a \in Actor, op[a].at = "idle", StopTakes(a)
  PROVE  SessionInv'
<1>0. /\ UNCHANGED <<tools, booted, bootLock>> /\ sandbox' = 0
      /\ op' = [op EXCEPT ![a] = [at |-> "unregister", vm |-> sandbox, todo |-> SandboxTools]]
  BY DEF StopTakes
<1>1. /\ op' \in [Actor -> ToolCall] /\ op'[a].at = "unregister" /\ op'[a].todo = SandboxTools
      /\ \A b \in Actor : b # a => op'[b] = op[b]
  BY <1>0 DEF SessionInv, SessionTypes, ToolCall
<1>2. SessionTypes'
  BY <1>0, <1>1 DEF SessionInv, SessionTypes
<1>3. StartsAlone' /\ FillsOwn'
  BY <1>0, <1>1 DEF SessionInv, StartsAlone, FillsOwn, Starting, Filling
<1>4. ToolsOfSandbox' /\ StopsClear'
  BY <1>0, <1>1 DEF ToolsOfSandbox, StopsClear
<1> QED
  BY <1>2, <1>3, <1>4 DEF SessionInv

LEMMA UnregistersStep ==
  ASSUME SessionInv, NEW a \in Actor, StopUnregisters(a)
  PROVE  SessionInv'
<1>0. op[a].at = "unregister" /\ UNCHANGED <<sandbox, booted, bootLock>>
  BY DEF StopUnregisters
<1>1. PICK t \in op[a].todo :
        /\ tools' = [tools EXCEPT ![t] = 0]
        /\ \/ op[a].todo = {t} /\ op' = [op EXCEPT ![a] = IdleOp]
           \/ op' = [op EXCEPT ![a].todo = @ \ {t}]
  BY DEF StopUnregisters, Returns
<1>2. op[a] \in ToolCall /\ t \in SandboxTools
  BY DEF SessionInv, SessionTypes, ToolCall
<1>3. /\ op' \in [Actor -> ToolCall] /\ op'[a].at \in {"idle", "unregister"}
      /\ \A u \in op[a].todo : u # t => op'[a].at = "unregister" /\ u \in op'[a].todo
      /\ \A b \in Actor : b # a => op'[b] = op[b]
  BY <1>0, <1>1, <1>2 DEF SessionInv, SessionTypes, ToolCall, IdleOp
<1>4. /\ tools' \in [SandboxTools -> Nat] /\ tools'[t] = 0
      /\ \A u \in SandboxTools : u # t => tools'[u] = tools[u]
  BY <1>1, <1>2 DEF SessionInv, SessionTypes
<1>5. SessionTypes'
  BY <1>0, <1>3, <1>4 DEF SessionInv, SessionTypes
<1>6. StartsAlone'
  BY <1>0, <1>3 DEF SessionInv, StartsAlone, Starting
<1>7. FillsOwn'
  BY <1>0, <1>3, <1>4 DEF SessionInv, FillsOwn, Filling
<1>8. ToolsOfSandbox'
  BY <1>0, <1>4 DEF SessionInv, ToolsOfSandbox
<1>9. StopsClear'
  BY <1>0, <1>3, <1>4 DEF SessionInv, StopsClear, Filling
<1> QED
  BY <1>5, <1>6, <1>7, <1>8, <1>9 DEF SessionInv

\* A step that leaves the session alone.
LEMMA SessionStays ==
  ASSUME SessionInv, UNCHANGED <<session, op>>
  PROVE  SessionInv'
  BY DEF session, SessionInv, SessionTypes, StartsAlone, FillsOwn, ToolsOfSandbox, StopsClear,
         Starting, Filling

LEMMA SessionStep == SessionInv /\ [AlNext]_alvars => SessionInv'
<1> SUFFICES ASSUME SessionInv, [AlNext]_alvars PROVE SessionInv'
  OBVIOUS
<1>1. ASSUME NEW a \in Actor,
             \/ StartLocks(a) \/ StartBoots(a) \/ StartRegisters(a) \/ StartSets(a)
             \/ StopUnregisters(a)
      PROVE  SessionInv'
  BY <1>1, LocksStep, BootsStep, RegistersStep, SetsStep, UnregistersStep
<1>2. ASSUME NEW a \in Actor, op[a] = IdleOp, op' = [op EXCEPT ![a].at = "lock"],
             UNCHANGED session
      PROVE  SessionInv'
  <2> DEFINE o == [at |-> "lock", vm |-> 0, todo |-> {}]
  <2>1. o \in ToolCall /\ o.at = "lock"
    BY DEF ToolCall
  <2>2. op' = [op EXCEPT ![a] = o]
    <3>1. [IdleOp EXCEPT !.at = "lock"] = o
      BY DEF IdleOp
    <3>2. op' = [op EXCEPT ![a] = [op[a] EXCEPT !.at = "lock"]]
      BY <1>2, Zenon
    <3> QED
      BY <1>2, <3>1, <3>2, Zenon
  <2>3. op[a].at = "idle"
    BY <1>2 DEF IdleOp
  <2>4. UNCHANGED <<tools, sandbox, booted, bootLock>>
    BY <1>2 DEF session
  <2> HIDE DEF o
  <2> QED
    BY <2>1, <2>2, <2>3, <2>4, IdleStep
<1>3. ASSUME NEW a \in Actor, op[a] = IdleOp, StopTakes(a) PROVE SessionInv'
  BY <1>3, TakesStep DEF IdleOp
<1>4. CASE SideCalls
  BY <1>2, <1>3, <1>4 DEF SideCalls, Actor
<1>5. CASE RunsTool
  <2>1. "loop" \in Actor /\ op["loop"] = IdleOp
    BY <1>5 DEF RunsTool, Actor
  <2>2. \/ UNCHANGED <<session, op>>
        \/ op' = [op EXCEPT !["loop"].at = "lock"] /\ UNCHANGED session
        \/ StopTakes("loop")
    BY <1>5 DEF RunsTool
  <2> QED
    BY <1>2, <1>3, <2>1, <2>2, SessionStays
<1>6. CASE RoundStarts \/ ModelAnswers \/ RoundEnds \/ RunsAgain \/ Steers \/ Aborts
  BY <1>6, SessionStays DEF RoundStarts, ModelAnswers, RoundEnds, RunsAgain, Steers, Aborts
<1>7. CASE UNCHANGED alvars
  BY <1>7, SessionStays DEF alvars, session
<1> QED
  BY <1>1, <1>4, <1>5, <1>6, <1>7 DEF AlNext, Actor

LEMMA SessionKept == SessionInv => SessionTools
  BY DEF SessionInv, SessionTypes, ToolCall, SessionTools, ToolsOfSandbox, StopsClear, Filling,
         NoTools, Actor

-----------------------------------------------------------------------------
(* The agent's session: its history *)

LEMMA SeqFacts ==
  ASSUME NEW S, NEW q \in Seq(S)
  PROVE  /\ DOMAIN q = 1..Len(q) /\ Len(q) \in Nat /\ (q # <<>> <=> Len(q) > 0) /\ (q = <<>> => Len(q) = 0)
         /\ q # <<>> => /\ Tail(q) \in Seq(S) /\ Len(Tail(q)) = Len(q) - 1 /\ Head(q) = q[1]
                        /\ q[1] \in S /\ \A j \in 1..(Len(q) - 1) : Tail(q)[j] = q[j + 1]
  OBVIOUS

LEMMA SingleSeq == ASSUME NEW S PROVE <<>> \in Seq(S) /\ \A x \in S : <<x>> \in Seq(S)
  OBVIOUS

LEMMA CopiesSeq ==
  ASSUME NEW S, NEW x \in S, NEW k \in Nat
  PROVE  LET q == [i \in 1..k |-> x]
         IN  q \in Seq(S) /\ Len(q) = k /\ \A i \in 1..k : q[i] = x
  OBVIOUS

LEMMA HistoryInit == AlInit => HistoryInv
<1> SUFFICES ASSUME AlInit PROVE HistoryInv
  OBVIOUS
<1>1. op["loop"].at = "idle"
  BY DEF AlInit, IdleOp
<1>2. /\ hist = <<>> /\ hist \in Seq(Entry) /\ inbox \in Seq({"", "steer"})
      /\ <<>> \in Seq(Called) /\ MaxRuns \in Nat
  BY AgentAssumption DEF AlInit
<1>3. HistoryTypes /\ run.pc = "top"
  BY <1>2 DEF AlInit, HistoryTypes, LoopState
<1> QED
  BY <1>1, <1>2, <1>3 DEF HistoryInv, LoopCalls, Answering, Rested

\* A step that leaves history and loop alone.
LEMMA HistoryStays ==
  ASSUME HistoryInv, UNCHANGED <<hist, run, cut>>, inbox' \in Seq({"", "steer"}), LoopCalls'
  PROVE  HistoryInv'
  BY DEF HistoryInv, HistoryTypes, Answering, Rested, Answered

\* The answer to the next call of the round.
LEMMA BackfillStep ==
  ASSUME HistoryInv, NEW t, Backfill(t), run.pc = "tools", run.calls # <<>>, t = Head(run.calls),
         UNCHANGED <<inbox, cut>>, op'["loop"].at = "idle"
  PROVE  HistoryInv'
<1>1. /\ hist \in Seq(Entry) /\ hist # <<>> /\ run.calls \in Seq(Called) /\ run.calls # <<>>
      /\ Len(hist) \in Nat /\ Len(hist) > 0 /\ Len(run.calls) \in Nat /\ Len(run.calls) > 0
  <2>1. hist \in Seq(Entry) /\ hist # <<>> /\ run \in LoopState
    BY DEF HistoryInv, HistoryTypes, Answering
  <2>2. run.calls \in Seq(Called)
    BY <2>1 DEF LoopState
  <2> QED
    BY <2>1, <2>2, SeqFacts
<1>2. t \in Called /\ Message("tool", <<t>>) \in Entry /\ t = run.calls[1]
  <2>1. t \in Called /\ t = run.calls[1]
    BY <1>1, SeqFacts
  <2>2. <<t>> \in Seq(Called)
    BY <2>1
  <2> QED
    BY <2>1, <2>2 DEF Entry, Message
<1>3. hist' = Append(hist, Message("tool", <<t>>)) /\ run' = [run EXCEPT !.calls = Tail(@)]
  BY DEF Backfill
<1>4. /\ hist' \in Seq(Entry) /\ Len(hist') = Len(hist) + 1
      /\ \A i \in 1..Len(hist) : hist'[i] = hist[i]
      /\ hist'[Len(hist) + 1] = Message("tool", <<t>>)
  BY <1>1, <1>2, <1>3
<1>5. /\ run'.calls \in Seq(Called) /\ Len(run'.calls) = Len(run.calls) - 1
      /\ \A j \in 1..Len(run'.calls) : run'.calls[j] = run.calls[j + 1]
  <2>1. run'.calls = Tail(run.calls)
    BY <1>3 DEF HistoryInv, HistoryTypes, LoopState
  <2> QED
    BY <1>1, <2>1, SeqFacts
<1>6. HistoryTypes' /\ run'.pc = "tools"
  <2>1. run' \in LoopState /\ run'.pc = "tools"
    BY <1>1, <1>3, SeqFacts DEF HistoryInv, HistoryTypes, LoopState
  <2> QED
    BY <1>4, <2>1 DEF HistoryInv, HistoryTypes
<1>7. hist'[1] = hist[1] /\ hist' # <<>>
  BY <1>1, <1>4
<1>8. /\ hist[1].role = "model" /\ Len(hist) - 1 + Len(run.calls) = Len(hist[1].calls)
      /\ \A i \in 2..Len(hist) : hist[i] = Message("tool", <<hist[1].calls[i - 1]>>)
      /\ \A j \in 1..Len(run.calls) : run.calls[j] = hist[1].calls[Len(hist) - 1 + j]
  BY DEF HistoryInv, Answering
<1>9. t = hist[1].calls[Len(hist)]
  BY <1>1, <1>2, <1>8
<1>10. \A i \in 2..Len(hist') : hist'[i] = Message("tool", <<hist'[1].calls[i - 1]>>)
  <2> SUFFICES ASSUME NEW i \in 2..Len(hist')
               PROVE  hist'[i] = Message("tool", <<hist'[1].calls[i - 1]>>)
    OBVIOUS
  <2>1. CASE i \in 2..Len(hist)
    BY <1>1, <1>4, <1>7, <1>8, <2>1
  <2>2. CASE i = Len(hist) + 1
    BY <1>1, <1>4, <1>7, <1>9, <2>2
  <2> QED
    BY <1>1, <1>4, <2>1, <2>2
<1>11. \A j \in 1..Len(run'.calls) : run'.calls[j] = hist'[1].calls[Len(hist') - 1 + j]
  <2> SUFFICES ASSUME NEW j \in 1..Len(run'.calls)
               PROVE  run'.calls[j] = hist'[1].calls[Len(hist') - 1 + j]
    OBVIOUS
  <2>1. j + 1 \in 1..Len(run.calls) /\ run'.calls[j] = run.calls[j + 1]
    <3>1. Len(run.calls) \in Nat /\ Len(run'.calls) = Len(run.calls) - 1
      BY <1>1, <1>5
    <3>2. j \in Nat /\ 1 <= j /\ j <= Len(run.calls) - 1
      BY <3>1
    <3>3. run'.calls[j] = run.calls[j + 1]
      BY <1>5
    <3> QED
      BY <3>1, <3>2, <3>3
  <2>2. run.calls[j + 1] = hist[1].calls[Len(hist) - 1 + (j + 1)]
    BY <1>8, <2>1
  <2>3. Len(hist) - 1 + (j + 1) = Len(hist') - 1 + j
    BY <1>1, <1>4
  <2> QED
    BY <1>7, <2>1, <2>2, <2>3
<1>12. Answering'
  BY <1>1, <1>4, <1>5, <1>7, <1>8, <1>10, <1>11 DEF Answering
<1> QED
  BY <1>6, <1>12 DEF HistoryInv, LoopCalls, Rested

\* The round is over, or an abort cuts it short: what was answered is what stands.
LEMMA RestStep ==
  ASSUME HistoryInv, run.pc = "tools", run.calls = <<>> \/ cut', UNCHANGED <<hist, inbox>>,
         HistoryTypes', run'.pc # "tools", op'["loop"].at = "idle"
  PROVE  HistoryInv'
<1>1. /\ hist \in Seq(Entry) /\ hist # <<>> /\ Len(hist) \in Nat /\ Len(hist) > 0
      /\ Len(run.calls) \in Nat /\ (run.calls = <<>> => Len(run.calls) = 0)
  <2>1. hist \in Seq(Entry) /\ hist # <<>> /\ run \in LoopState
    BY DEF HistoryInv, HistoryTypes, Answering
  <2>2. run.calls \in Seq(Called)
    BY <2>1 DEF LoopState
  <2> QED
    BY <2>1, <2>2, SeqFacts
<1>2. /\ hist[1].role = "model" /\ Len(hist) - 1 + Len(run.calls) = Len(hist[1].calls)
      /\ \A i \in 2..Len(hist) : hist[i] = Message("tool", <<hist[1].calls[i - 1]>>)
  BY DEF HistoryInv, Answering
<1>3. \A i \in 2..Len(hist) : hist[i].role = "tool" /\ hist[i].calls = <<hist[1].calls[i - 1]>>
  <2> SUFFICES ASSUME NEW i \in 2..Len(hist)
               PROVE  hist[i].role = "tool" /\ hist[i].calls = <<hist[1].calls[i - 1]>>
    OBVIOUS
  <2>1. \A x : Message("tool", x).role = "tool" /\ Message("tool", x).calls = x
    BY DEF Message
  <2>2. hist[i] = Message("tool", <<hist[1].calls[i - 1]>>)
    BY <1>2
  <2> QED
    BY <2>1, <2>2
<1>4. \A j \in 1..(Len(hist) - 1) : hist[j + 1].calls = <<hist[1].calls[j]>>
  <2> SUFFICES ASSUME NEW j \in 1..(Len(hist) - 1)
               PROVE  hist[j + 1].calls = <<hist[1].calls[j]>>
    OBVIOUS
  <2>1. j + 1 \in 2..Len(hist) /\ (j + 1) - 1 = j
    BY <1>1
  <2> QED
    BY <1>3, <2>1
<1>5. Len(hist) - 1 \in Nat /\ Answered(Len(hist) - 1)'
  BY <1>1, <1>2, <1>3, <1>4 DEF Answered
<1>6. Rested'
  BY <1>5 DEF Rested
<1> QED
  BY <1>6 DEF HistoryInv, LoopCalls, Answering

\* Outside a round the loop moves on without touching the history.
LEMMA PauseStep ==
  ASSUME HistoryInv, run.pc # "tools", UNCHANGED <<hist, cut, op>>, HistoryTypes',
         run'.pc # "tools"
  PROVE  HistoryInv'
  BY DEF HistoryInv, LoopCalls, Answering, Rested, Answered

\* The steering messages follow the answers.
LEMMA SteeredStep ==
  ASSUME HistoryInv, run.pc # "tools", NEW k \in Nat,
         hist' = hist \o [i \in 1..k |-> Message("user", <<>>)], UNCHANGED <<cut, op>>,
         inbox' = <<>>, run' = [run EXCEPT !.pc = "model"]
  PROVE  HistoryInv'
<1> DEFINE users == [i \in 1..k |-> Message("user", <<>>)]
<1>1. PICK u \in Entry : u = Message("user", <<>>) /\ u.role = "user"
  <2>1. [role |-> "user", calls |-> <<>>] \in Entry
    BY DEF Entry
  <2> QED
    BY <2>1 DEF Message
<1>2. users \in Seq(Entry) /\ Len(users) = k /\ \A i \in 1..k : users[i].role = "user"
  <2>1. users = [i \in 1..k |-> u]
    BY <1>1
  <2> HIDE DEF users
  <2>2. users \in Seq(Entry) /\ Len(users) = k /\ \A i \in 1..k : users[i] = u
    BY <2>1, CopiesSeq
  <2> QED
    BY <1>1, <2>2
<1>3. hist \in Seq(Entry) /\ Len(hist) \in Nat
  <2>1. hist \in Seq(Entry)
    BY DEF HistoryInv, HistoryTypes
  <2> QED
    BY <2>1, SeqFacts
<1> HIDE DEF users
<1>4. /\ hist' \in Seq(Entry) /\ Len(hist') = Len(hist) + k
      /\ \A i \in 1..Len(hist) : hist'[i] = hist[i]
      /\ \A i \in (Len(hist) + 1)..(Len(hist) + k) : hist'[i] = users[i - Len(hist)]
  BY <1>2, <1>3 DEF users
<1>5. \A i \in (Len(hist) + 1)..(Len(hist) + k) : hist'[i].role = "user"
  <2> SUFFICES ASSUME NEW i \in (Len(hist) + 1)..(Len(hist) + k) PROVE hist'[i].role = "user"
    OBVIOUS
  <2>1. i - Len(hist) \in 1..k
    BY <1>3
  <2> QED
    BY <1>2, <1>4, <2>1
<1>6. HistoryTypes' /\ run'.pc = "model"
  <2>1. run' \in LoopState /\ run'.pc = "model"
    BY DEF HistoryInv, HistoryTypes, LoopState
  <2> QED
    BY <1>4, <2>1 DEF HistoryTypes
<1>7. Rested'
  <2> SUFFICES ASSUME hist' # <<>>, hist'[1].role = "model" PROVE \E n \in Nat : Answered(n)'
    BY DEF Rested
  <2>1. Len(hist') > 0
    BY <1>4
  <2>2. Len(hist) > 0 /\ hist # <<>> /\ hist'[1] = hist[1]
    <3>1. CASE Len(hist) = 0
      BY <1>3, <1>4, <1>5, <2>1, <3>1
    <3> QED
      BY <1>3, <1>4, <3>1
  <2>3. PICK n \in Nat : Answered(n)
    BY <2>2 DEF HistoryInv, Rested
  <2>4. /\ n <= Len(hist[1].calls) /\ n < Len(hist) /\ (n = Len(hist[1].calls) \/ cut)
        /\ \A i \in 2..Len(hist) : hist[i].role = "tool" <=> i <= n + 1
        /\ \A j \in 1..n : hist[j + 1].calls = <<hist[1].calls[j]>>
    BY <2>3 DEF Answered
  <2>5. \A i \in 2..Len(hist') : hist'[i].role = "tool" <=> i <= n + 1
    <3> SUFFICES ASSUME NEW i \in 2..Len(hist') PROVE hist'[i].role = "tool" <=> i <= n + 1
      OBVIOUS
    <3>1. CASE i <= Len(hist)
      BY <1>3, <1>4, <2>4, <3>1
    <3>2. CASE i > Len(hist)
      <4>1. hist'[i].role = "user" /\ ~(i <= n + 1)
        BY <1>3, <1>4, <1>5, <2>4, <3>2
      <4> QED
        BY <4>1
    <3> QED
      BY <1>3, <1>4, <3>1, <3>2
  <2>6. \A j \in 1..n : hist'[j + 1].calls = <<hist[1].calls[j]>>
    <3> SUFFICES ASSUME NEW j \in 1..n PROVE hist'[j + 1].calls = <<hist[1].calls[j]>>
      OBVIOUS
    <3>1. j + 1 \in 1..Len(hist)
      BY <1>3, <2>4
    <3>2. hist'[j + 1] = hist[j + 1]
      BY <1>4, <3>1
    <3> QED
      BY <2>4, <3>2
  <2>8. n < Len(hist')
    BY <1>3, <1>4, <2>4
  <2>7. Answered(n)'
    BY <2>2, <2>4, <2>5, <2>6, <2>8 DEF Answered
  <2> QED
    BY <2>7
<1> QED
  BY <1>6, <1>7 DEF HistoryInv, LoopCalls, Answering

\* A tool call ends: the loop's own with its answer, the other's without a trace.
LEMMA ReturnStep ==
  ASSUME SessionTypes, HistoryInv, NEW a \in Actor, NEW t, Returns(a, t), op[a].at # "idle",
         t = IF op[a].at = "unregister" THEN "sandbox_stop" ELSE "sandbox_start",
         UNCHANGED <<inbox, cut>>
  PROVE  HistoryInv'
<1>1. op' = [op EXCEPT ![a] = IdleOp] /\ "loop" \in Actor
  BY DEF Returns, Actor
<1>2. CASE a = "loop"
  <2>1. op'["loop"].at = "idle"
    BY <1>1, <1>2 DEF SessionTypes, IdleOp
  <2>2. Backfill(t)
    BY <1>2 DEF Returns
  <2>3. run.pc = "tools" /\ run.calls # <<>> /\ t = Head(run.calls)
    BY <1>2 DEF HistoryInv, LoopCalls
  <2> QED
    BY <2>1, <2>2, <2>3, BackfillStep
<1>3. CASE a # "loop"
  <2>1. op'["loop"] = op["loop"] /\ UNCHANGED <<hist, run>>
    BY <1>1, <1>3 DEF SessionTypes, Returns
  <2>2. LoopCalls' /\ inbox' \in Seq({"", "steer"})
    BY <2>1 DEF HistoryInv, HistoryTypes, LoopCalls
  <2> QED
    BY <2>1, <2>2, HistoryStays
<1> QED
  BY <1>2, <1>3

\* A tool call goes on.
LEMMA GoesOnStep ==
  ASSUME SessionTypes, HistoryInv, NEW a \in Actor, NEW f, op' = [op EXCEPT ![a] = f],
         op[a].at # "idle", f.at # "idle", f.at = "unregister" <=> op[a].at = "unregister",
         UNCHANGED <<hist, run, inbox, cut>>
  PROVE  HistoryInv'
<1>1. op'["loop"] = IF a = "loop" THEN f ELSE op["loop"]
  BY DEF SessionTypes, Actor
<1>2. LoopCalls' /\ inbox' \in Seq({"", "steer"})
  BY <1>1 DEF HistoryInv, HistoryTypes, LoopCalls
<1> QED
  BY <1>2, HistoryStays

\* The steps of a tool call.
LEMMA CallSteps ==
  ASSUME SessionTypes, HistoryInv, NEW a \in Actor,
         \/ StartLocks(a) \/ StartBoots(a) \/ StartRegisters(a) \/ StartSets(a)
         \/ StopUnregisters(a)
  PROVE  HistoryInv'
<1>0. op[a] \in ToolCall
  BY DEF SessionTypes
<1>1. CASE StartLocks(a)
  <2>1. op[a].at = "lock" /\ UNCHANGED <<inbox, cut>>
    BY <1>1 DEF StartLocks
  <2>2. CASE Returns(a, "sandbox_start")
    BY <2>1, <2>2, ReturnStep
  <2>3. CASE op' = [op EXCEPT ![a].at = "boot"] /\ UNCHANGED <<hist, run>>
    <3>1. [op[a] EXCEPT !.at = "boot"].at = "boot"
      BY <1>0 DEF ToolCall
    <3>2. op' = [op EXCEPT ![a] = [op[a] EXCEPT !.at = "boot"]]
      BY <2>3, Zenon
    <3> QED
      BY <2>1, <2>3, <3>1, <3>2, GoesOnStep
  <2> QED
    BY <1>1, <2>2, <2>3 DEF StartLocks
<1>2. CASE StartBoots(a)
  <2>1. op[a].at = "boot" /\ UNCHANGED <<inbox, cut>>
    BY <1>2 DEF StartBoots
  <2>2. CASE Returns(a, "sandbox_start")
    BY <2>1, <2>2, ReturnStep
  <2>3. CASE /\ op' = [op EXCEPT ![a] = [at |-> "register", vm |-> booted', todo |-> SandboxTools]]
             /\ UNCHANGED <<hist, run>>
    <3> DEFINE f == [at |-> "register", vm |-> booted', todo |-> SandboxTools]
    <3>1. f.at = "register" /\ op' = [op EXCEPT ![a] = f]
      BY <2>3
    <3> HIDE DEF f
    <3> QED
      BY <2>1, <2>3, <3>1, GoesOnStep
  <2> QED
    BY <1>2, <2>2, <2>3 DEF StartBoots
<1>3. CASE StartRegisters(a)
  <2>1. op[a].at = "register" /\ UNCHANGED <<hist, run, inbox, cut>>
    BY <1>3 DEF StartRegisters
  <2>2. PICK t : op' = [op EXCEPT ![a].todo = @ \ {t},
                                  ![a].at = IF op[a].todo = {t} THEN "set" ELSE "register"]
    BY <1>3 DEF StartRegisters
  <2>3. op' \in [Actor -> ToolCall] /\ op'[a].at \in {"register", "set"}
        /\ \A b \in Actor : b # a => op'[b] = op[b]
    BY <1>0, <2>2 DEF SessionTypes, ToolCall
  <2>4. op' = [op EXCEPT ![a] = op'[a]]
    BY <2>3 DEF SessionTypes
  <2> QED
    BY <2>1, <2>3, <2>4, GoesOnStep
<1>4. CASE StartSets(a)
  BY <1>4, ReturnStep DEF StartSets
<1>5. CASE StopUnregisters(a)
  <2>1. op[a].at = "unregister" /\ UNCHANGED <<inbox, cut>>
    BY <1>5 DEF StopUnregisters
  <2>2. CASE Returns(a, "sandbox_stop")
    BY <2>1, <2>2, ReturnStep
  <2>3. ASSUME NEW t, op' = [op EXCEPT ![a].todo = @ \ {t}], UNCHANGED <<hist, run>>
        PROVE  HistoryInv'
    <3>1. [op[a] EXCEPT !.todo = @ \ {t}].at = "unregister"
      BY <1>0, <2>1 DEF ToolCall
    <3>2. op' = [op EXCEPT ![a] = [op[a] EXCEPT !.todo = @ \ {t}]]
      BY <2>3, Zenon
    <3> QED
      BY <2>1, <2>3, <3>1, <3>2, GoesOnStep
  <2> QED
    BY <1>5, <2>2, <2>3 DEF StopUnregisters
<1> QED
  BY <1>1, <1>2, <1>3, <1>4, <1>5

\* The loop begins a tool call, answers a plain one, or is aborted.
LEMMA RunsToolStep ==
  ASSUME SessionTypes, HistoryInv, RunsTool
  PROVE  HistoryInv'
<1>1. run.pc = "tools" /\ op["loop"] = IdleOp /\ op["loop"].at = "idle" /\ run.calls # <<>>
  BY DEF RunsTool, IdleOp
<1>2. run \in LoopState /\ "loop" \in Actor /\ inbox \in Seq({"", "steer"})
  BY DEF HistoryInv, HistoryTypes, Actor
<1>3. CASE /\ aborted /\ End("Aborted") /\ cut' = TRUE
           /\ UNCHANGED <<session, op, side, inbox, aborted, hist>>
  <2>1. run' \in LoopState /\ run'.pc = "Aborted"
    BY <1>2, <1>3 DEF End, LoopState
  <2>2. HistoryTypes'
    BY <1>3, <2>1 DEF HistoryInv, HistoryTypes
  <2> QED
    BY <1>1, <1>3, <2>1, <2>2, RestStep
<1>4. CASE /\ Head(run.calls) = "sandbox_start" /\ op' = [op EXCEPT !["loop"].at = "lock"]
           /\ UNCHANGED <<session, side, inbox, aborted, hist, run, cut>>
  <2>1. op'["loop"].at = "lock"
    BY <1>2, <1>4 DEF SessionTypes, ToolCall
  <2>2. LoopCalls'
    BY <1>1, <1>4, <2>1 DEF LoopCalls
  <2> QED
    BY <1>2, <1>4, <2>2, HistoryStays
<1>5. CASE Head(run.calls) = "sandbox_stop" /\ StopTakes("loop")
  <2>1. op'["loop"].at = "unregister" /\ UNCHANGED <<inbox, hist, run, cut>>
    BY <1>2, <1>5 DEF SessionTypes, StopTakes
  <2>2. LoopCalls'
    BY <1>1, <1>5, <2>1 DEF LoopCalls
  <2> QED
    BY <1>2, <2>1, <2>2, HistoryStays
<1>6. CASE Backfill(Head(run.calls)) /\ UNCHANGED <<session, op, side, inbox, aborted, cut>>
  BY <1>1, <1>6, BackfillStep
<1> QED
  BY <1>3, <1>4, <1>5, <1>6 DEF RunsTool

\* A round begins: the limit, an abort, or the model with the steering messages.
LEMMA RoundStartsStep ==
  ASSUME SessionTypes, HistoryInv, RoundStarts
  PROVE  HistoryInv'
<1> DEFINE K == {i \in DOMAIN inbox : inbox[i] # ""}
<1>1. Cardinality(K) \in Nat
  <2>0. inbox \in Seq({"", "steer"})
    BY DEF HistoryInv, HistoryTypes
  <2>1. DOMAIN inbox = 1..Len(inbox) /\ Len(inbox) \in Nat
    BY <2>0, SeqFacts
  <2>2. IsFiniteSet(1..Len(inbox))
    BY <2>1, FS_Interval
  <2>3. IsFiniteSet(K)
    BY <2>1, <2>2, FS_Subset
  <2> QED
    BY <2>3, FS_CardinalityType
<1>2. run.pc = "top" /\ run \in LoopState /\ UNCHANGED <<cut, op>>
  BY DEF RoundStarts, HistoryInv, HistoryTypes
<1>3. \/ (End("MaxRounds") \/ End("Aborted")) /\ UNCHANGED <<inbox, hist>>
      \/ /\ inbox' = <<>> /\ End("model")
         /\ hist' = hist \o [i \in 1..Cardinality(K) |-> Message("user", <<>>)]
  BY DEF RoundStarts
<1> HIDE DEF K
<1>4. CASE (End("MaxRounds") \/ End("Aborted")) /\ UNCHANGED <<inbox, hist>>
  <2>1. run' \in LoopState /\ run'.pc \in {"MaxRounds", "Aborted"}
    BY <1>2, <1>4 DEF End, LoopState
  <2>2. HistoryTypes'
    BY <1>4, <2>1 DEF HistoryInv, HistoryTypes
  <2> QED
    BY <1>2, <1>4, <2>1, <2>2, PauseStep
<1>5. CASE /\ inbox' = <<>> /\ End("model")
           /\ hist' = hist \o [i \in 1..Cardinality(K) |-> Message("user", <<>>)]
  BY <1>1, <1>2, <1>5, SteeredStep DEF End
<1> QED
  BY <1>3, <1>4, <1>5

\* The model's message is the new last one of the history.
LEMMA ModelAnswersStep ==
  ASSUME SessionTypes, HistoryInv, ModelAnswers
  PROVE  HistoryInv'
<1>1. run.pc = "model" /\ run \in LoopState /\ UNCHANGED <<op, inbox>>
  BY DEF ModelAnswers, HistoryInv, HistoryTypes
<1>2. CASE End("Err") /\ UNCHANGED <<hist, cut>>
  <2>1. run' \in LoopState /\ run'.pc = "Err"
    BY <1>1, <1>2 DEF End, LoopState
  <2>2. HistoryTypes'
    BY <1>1, <1>2, <2>1 DEF HistoryInv, HistoryTypes
  <2> QED
    BY <1>1, <1>2, <2>1, <2>2, PauseStep
<1>3. ASSUME NEW asked \in Replies, hist' = <<Message("model", asked)>>, cut' = FALSE,
             run' = [run EXCEPT !.calls = asked, !.pc = IF asked = <<>> THEN "Done" ELSE "tools"]
      PROVE  HistoryInv'
  <2>1. asked \in Seq(Called)
    <3>1. PICK n \in 0..2 : asked \in [1..n -> Called]
      BY <1>3 DEF Replies
    <3> QED
      BY <3>1
  <2>2. PICK m \in Entry : m = Message("model", asked) /\ m.role = "model" /\ m.calls = asked
    <3>1. [role |-> "model", calls |-> asked] \in Entry
      BY <2>1 DEF Entry
    <3> QED
      BY <3>1 DEF Message
  <2>3. hist' \in Seq(Entry) /\ Len(hist') = 1 /\ hist'[1] = m /\ hist' # <<>>
    BY <1>3, <2>2
  <2>4. /\ run' \in LoopState /\ run'.calls = asked
        /\ run'.pc = IF asked = <<>> THEN "Done" ELSE "tools"
    BY <1>1, <1>3, <2>1 DEF LoopState
  <2>5. HistoryTypes'
    BY <1>1, <2>3, <2>4 DEF HistoryInv, HistoryTypes
  <2>6. LoopCalls'
    BY <1>1 DEF HistoryInv, LoopCalls
  <2>7. Len(asked) \in Nat /\ (asked = <<>> => Len(asked) = 0)
    BY <2>1, SeqFacts
  <2>8. Answering'
    BY <2>2, <2>3, <2>4, <2>7 DEF Answering
  <2>9. asked = <<>> => Answered(0)'
    BY <2>2, <2>3, <2>7 DEF Answered
  <2>10. Rested'
    BY <2>4, <2>9 DEF Rested
  <2> QED
    BY <2>5, <2>6, <2>8, <2>10 DEF HistoryInv
<1> QED
  BY <1>2, <1>3 DEF ModelAnswers

LEMMA HistoryStep == SessionInv /\ HistoryInv /\ [AlNext]_alvars => HistoryInv'
<1> SUFFICES ASSUME SessionTypes, HistoryInv, [AlNext]_alvars PROVE HistoryInv'
  BY DEF SessionInv
<1>0. run \in LoopState /\ inbox \in Seq({"", "steer"})
  BY DEF HistoryInv, HistoryTypes
<1>01. run.round \in Nat /\ run.runs \in Nat
  BY <1>0 DEF LoopState
<1>1. CASE SideCalls
  <2>1. UNCHANGED <<hist, run, inbox, cut>>
    BY <1>1 DEF SideCalls, StopTakes
  <2>2. op'["loop"] = op["loop"]
    BY <1>1 DEF SideCalls, StopTakes, SessionTypes, Actor
  <2>3. LoopCalls'
    BY <2>1, <2>2 DEF HistoryInv, LoopCalls
  <2> QED
    BY <1>0, <2>1, <2>3, HistoryStays
<1>2. CASE RoundEnds
  <2>0. /\ run.pc = "tools" /\ run.calls = <<>> /\ UNCHANGED <<hist, inbox, op>>
        /\ run' = [run EXCEPT !.pc = "top", !.round = @ + 1]
    BY <1>2 DEF RoundEnds
  <2>1. run' \in LoopState /\ run'.pc = "top"
    <3>1. run.round + 1 \in Nat
      BY <1>01
    <3> QED
      BY <1>0, <2>0, <3>1 DEF LoopState
  <2>2. HistoryTypes'
    BY <2>0, <2>1 DEF HistoryInv, HistoryTypes
  <2>3. op'["loop"].at = "idle"
    BY <2>0 DEF HistoryInv, LoopCalls
  <2> QED
    BY <2>0, <2>1, <2>2, <2>3, RestStep
<1>3. CASE RunsAgain
  <2>1. run.pc # "tools" /\ UNCHANGED <<hist, cut, op, inbox>>
    BY <1>3 DEF RunsAgain
  <2>2. run' \in LoopState /\ run'.pc = "top"
    <3>1. /\ run.runs > 1
          /\ run' = [run EXCEPT !.pc = "top", !.round = 0, !.calls = <<>>, !.runs = @ - 1]
      BY <1>3 DEF RunsAgain
    <3>2. <<>> \in Seq(Called)
      BY SingleSeq
    <3>3. run.runs - 1 \in Nat
      <4>1. run.runs > 1
        BY <3>1
      <4> QED
        BY <1>01, <4>1
    <3> QED
      BY <1>0, <3>1, <3>2, <3>3 DEF LoopState
  <2>3. HistoryTypes'
    BY <2>1, <2>2 DEF HistoryInv, HistoryTypes
  <2> QED
    BY <2>1, <2>2, <2>3, PauseStep
<1>4. CASE Steers \/ Aborts \/ UNCHANGED alvars
  <2>1. UNCHANGED <<hist, run, cut, op>> /\ inbox' \in Seq({"", "steer"})
    <3>1. \A x \in {"", "steer"} : <<x>> \in Seq({"", "steer"})
      BY SingleSeq, Zenon
    <3> QED
      BY <1>0, <1>4, <3>1 DEF Steers, Aborts, alvars
  <2>2. LoopCalls'
    BY <2>1 DEF HistoryInv, LoopCalls
  <2> QED
    BY <2>1, <2>2, HistoryStays
<1> QED
  BY <1>1, <1>2, <1>3, <1>4, CallSteps, RunsToolStep, RoundStartsStep, ModelAnswersStep
     DEF AlNext, Actor

LEMMA HistoryKept == HistoryInv => HistoryPaired
<1> SUFFICES ASSUME HistoryInv, hist # <<>>, hist[1].role = "model"
             PROVE  \E n \in 0..Len(hist[1].calls) :
                      /\ n < Len(hist)
                      /\ \A i \in 2..Len(hist) : hist[i].role = "tool" <=> i <= n + 1
                      /\ \A j \in 1..n : hist[j + 1].calls = <<hist[1].calls[j]>>
                      /\ run.pc = "model" => n = Len(hist[1].calls) \/ cut
  BY DEF HistoryPaired
<1>1. hist \in Seq(Entry) /\ hist[1] \in Entry
  <2>1. hist \in Seq(Entry)
    BY DEF HistoryInv, HistoryTypes
  <2> QED
    BY <2>1, SeqFacts
<1>2. Len(hist[1].calls) \in Nat /\ Len(hist) \in Nat /\ Len(hist) > 0
  BY <1>1, SeqFacts DEF Entry
<1>3. CASE run.pc # "tools"
  <2>1. PICK n \in Nat : Answered(n)
    BY <1>3 DEF HistoryInv, Rested
  <2>2. n \in 0..Len(hist[1].calls)
    BY <1>2, <2>1 DEF Answered
  <2> QED
    BY <2>1, <2>2 DEF Answered
<1>4. CASE run.pc = "tools"
  <2> DEFINE n == Len(hist) - 1
  <2>1. /\ Len(hist) - 1 + Len(run.calls) = Len(hist[1].calls)
        /\ \A i \in 2..Len(hist) : hist[i] = Message("tool", <<hist[1].calls[i - 1]>>)
    BY <1>4 DEF HistoryInv, Answering
  <2>2. Len(run.calls) \in Nat
    BY SeqFacts DEF HistoryInv, HistoryTypes, LoopState
  <2>3. \A x : Message("tool", x).role = "tool" /\ Message("tool", x).calls = x
    BY DEF Message
  <2>4. \A i \in 2..Len(hist) : hist[i].role = "tool" /\ i <= n + 1
    <3> SUFFICES ASSUME NEW i \in 2..Len(hist) PROVE hist[i].role = "tool" /\ i <= n + 1
      OBVIOUS
    <3>1. hist[i] = Message("tool", <<hist[1].calls[i - 1]>>) /\ i <= n + 1
      BY <1>2, <2>1
    <3> QED
      BY <2>3, <3>1
  <2>5. \A j \in 1..n : hist[j + 1].calls = <<hist[1].calls[j]>>
    <3> SUFFICES ASSUME NEW j \in 1..n PROVE hist[j + 1].calls = <<hist[1].calls[j]>>
      OBVIOUS
    <3>1. j + 1 \in 2..Len(hist) /\ (j + 1) - 1 = j
      BY <1>2
    <3> QED
      BY <2>1, <2>3, <3>1
  <2>6. n \in 0..Len(hist[1].calls) /\ n < Len(hist)
    BY <1>2, <2>1, <2>2
  <2> HIDE DEF n
  <2> QED
    BY <1>4, <2>4, <2>5, <2>6
<1> QED
  BY <1>3, <1>4

\* The agent's registered tools reach the session's own sandbox and its history has
\* an answer for every call of the model unless an abort came between
\* (rfb-adk/src/session.rs, loop_agent.rs), for every number of rounds, runs and
\* calls of the other user.
THEOREM AgentSession == AlSpec => []AgentKeepsSession
<1>1. AlInit => SessionInv /\ HistoryInv
  BY SessionInit, HistoryInit
<1>2. SessionInv /\ HistoryInv /\ [AlNext]_alvars => (SessionInv /\ HistoryInv)'
  BY SessionStep, HistoryStep
<1>3. SessionInv /\ HistoryInv => AgentKeepsSession
  BY SessionKept, HistoryKept DEF AgentKeepsSession
<1> QED
  BY <1>1, <1>2, <1>3, PTL DEF AlSpec

-----------------------------------------------------------------------------
(* The gates *)

LEMMA GateInit == FgaInit => GateInv
<1> SUFFICES ASSUME FgaInit PROVE GateInv
  OBVIOUS
<1>1. \A k \in Gates \cup {"provider", "backend_up"} :
        Fresh(k) \in GateState /\ GateShape(Fresh(k))
  BY GatesAssumption DEF Fresh, GateState, GateShape, Gates
<1>2. \A r \in Run : inv[r] \in GateState /\ GateShape(inv[r])
  BY <1>1 DEF FgaInit
<1>3. inv \in [Run -> GateState]
  BY <1>1 DEF FgaInit
<1> QED
  BY <1>2, <1>3 DEF FgaInit, GateInv, HandOnly

\* A step of one invocation: what it owes is that its new state has the shape, and that
\* if it may still pass it has nothing out but what it holds.
LEMMA Advance ==
  ASSUME GateInv, NEW r \in Run, NEW f \in GateState, inv' = [inv EXCEPT ![r] = f], GateShape(f),
         made' \in Nat, live' \subseteq [id : Nat, owner : Run],
         \A s \in live' : s \in live \/ s.owner = r, late' \subseteq late \cup {r},
         Sound(f) => /\ r \notin late'
                     /\ \A s \in live' : s.owner = r => s.id = f.sid /\ f.pc \in Holding
  PROVE  GateInv'
<1>1. inv' \in [Run -> GateState] /\ inv'[r] = f /\ \A q \in Run : q # r => inv'[q] = inv[q]
  BY DEF GateInv
<1>2. ASSUME NEW q \in Run PROVE GateShape(inv'[q]) /\ HandOnly(q)'
  <2>1. CASE q = r
    BY <1>1, <2>1 DEF HandOnly, Sound
  <2>2. CASE q # r
    <3>1. inv'[q] = inv[q] /\ GateShape(inv[q]) /\ HandOnly(q)
      BY <1>1, <2>2 DEF GateInv
    <3>2. ASSUME Sound(inv'[q])
          PROVE  q \notin late' /\ \A s \in live' : s.owner = q =>
                    s.id = inv'[q].sid /\ inv'[q].pc \in Holding
      BY <2>2, <3>1, <3>2 DEF HandOnly
    <3> QED
      BY <3>1, <3>2 DEF HandOnly
  <2> QED
    BY <2>1, <2>2
<1> QED
  BY <1>1, <1>2 DEF GateInv

\* An invocation goes on while it keeps what it holds, or has nothing.
LEMMA Keeps ==
  ASSUME GateInv, NEW r \in Run, NEW f \in GateState, inv' = [inv EXCEPT ![r] = f], GateShape(f),
         UNCHANGED <<made, late>>, live' \subseteq live,
         Sound(f) => /\ Sound(inv[r])
                     /\ \/ f.sid = inv[r].sid /\ f.pc \in Holding
                        \/ inv[r].pc \notin Holding
                        \/ \A s \in live' : s.owner = r => s.id # inv[r].sid
  PROVE  GateInv'
<1>1. /\ made' \in Nat /\ live' \subseteq [id : Nat, owner : Run] /\ late' \subseteq late \cup {r}
      /\ \A s \in live' : s \in live \/ s.owner = r
  BY DEF GateInv
<1>2. ASSUME Sound(f)
      PROVE  r \notin late' /\ \A s \in live' : s.owner = r => s.id = f.sid /\ f.pc \in Holding
  BY <1>2 DEF GateInv, HandOnly
<1> QED
  BY <1>1, <1>2, Advance

\* What CreateRequest does, however it ends: an answered create is in hand, any other
\* is the end of passing.
LEMMA Creates ==
  ASSUME GateInv, NEW r \in Run, NEW f \in GateState, NEW g \in GateState,
         CreateRequest(r, f, g), GateShape(f), GateShape(g), ~Sound(g),
         Sound(f) => Sound(inv[r]), inv[r].pc \notin Holding, f.sid = made + 1, f.pc \in Holding
  PROVE  GateInv'
<1>0. made \in Nat /\ live \subseteq [id : Nat, owner : Run]
  BY DEF GateInv
<1>1. ASSUME Makes(r)
      PROVE  /\ made' \in Nat /\ live' \subseteq [id : Nat, owner : Run]
             /\ \A s \in live' : s.owner = r /\ s.id = made + 1
  BY <1>0, <1>1 DEF Makes
<1>2. CASE Makes(r) /\ Go(r, f) /\ UNCHANGED late
  <2>1. Sound(f) => r \notin late'
    BY <1>2 DEF GateInv, HandOnly
  <2>2. inv' = [inv EXCEPT ![r] = f] /\ late' \subseteq late \cup {r}
    BY <1>2 DEF Go
  <2> QED
    BY <1>1, <1>2, <2>1, <2>2, Advance
<1>3. CASE Makes(r) /\ Go(r, g) /\ UNCHANGED late
  <2>1. inv' = [inv EXCEPT ![r] = g] /\ late' \subseteq late \cup {r}
    BY <1>3 DEF Go
  <2> QED
    BY <1>1, <1>3, <2>1, Advance
<1>4. CASE Go(r, g) /\ late' \subseteq late \cup {r} /\ UNCHANGED <<live, vm, made>>
  <2>1. inv' = [inv EXCEPT ![r] = g]
    BY <1>4 DEF Go
  <2> QED
    BY <1>0, <1>4, <2>1, Advance
<1> QED
  BY <1>2, <1>3, <1>4 DEF CreateRequest

\* Nobody's state changes: what is live only shrinks, or a late create of an invocation
\* that can no longer pass is carried out.
LEMMA ControllerSteps ==
  ASSUME GateInv, \/ ControllerFault \/ ControllerRecovers \/ SnapshotBuilt
                  \/ UNCHANGED fgavars \/ \E r \in Run : LateCreate(r)
  PROVE  GateInv'
<1>1. CASE ControllerFault \/ ControllerRecovers \/ SnapshotBuilt \/ UNCHANGED fgavars
  <2>1. UNCHANGED <<live, late, made, inv>>
    BY <1>1 DEF ControllerFault, ControllerRecovers, SnapshotBuilt, fgavars
  <2> QED
    BY <2>1 DEF GateInv, HandOnly
<1>2. ASSUME NEW r \in Run, LateCreate(r) PROVE GateInv'
  <2>1. /\ inv' = inv /\ late' \subseteq late /\ r \in late /\ made \in Nat
        /\ live \subseteq [id : Nat, owner : Run]
    BY <1>2 DEF LateCreate, GateInv
  <2>2. /\ made' \in Nat /\ live' \subseteq [id : Nat, owner : Run]
        /\ \A s \in live' : s \in live \/ s.owner = r
    BY <1>2, <2>1 DEF LateCreate, Makes
  <2>3. ~Sound(inv[r])
    BY <2>1 DEF GateInv, HandOnly
  <2>4. ASSUME NEW q \in Run, Sound(inv[q])
        PROVE  q \notin late' /\ \A s \in live' : s.owner = q =>
                 s.id = inv[q].sid /\ inv[q].pc \in Holding
    <3>1. q # r /\ HandOnly(q)
      BY <2>3, <2>4 DEF GateInv
    <3> QED
      BY <2>1, <2>2, <2>4, <3>1 DEF HandOnly
  <2>5. \A q \in Run : HandOnly(q)'
    BY <2>1, <2>4 DEF HandOnly
  <2> QED
    BY <2>1, <2>2, <2>5 DEF GateInv
<1> QED
  BY <1>1, <1>2

\* The state of one invocation, for the steps that read it.
LEMMA Stands ==
  ASSUME GateInv, NEW r \in Run
  PROVE  inv[r] \in GateState /\ GateShape(inv[r]) /\ Kind[r] = inv[r].kind
  BY DEF GateInv, Kind

\* The next round of a workload or benchmark forgets the sandbox and keeps the failure.
LEMMA Rounding ==
  ASSUME GateInv, NEW r \in Run, NEW b \in BOOLEAN, inv[r].kind \in {"workload", "benchmark"},
         inv[r].pc # "done"
  PROVE  /\ NextRound(r, b) \in GateState /\ GateShape(NextRound(r, b))
         /\ Sound(NextRound(r, b)) => ~b
<1> DEFINE f == [inv[r] EXCEPT !.sid = 0, !.failed = b, !.left = @ - 1, !.todo = {}, !.quiet = FALSE]
<1>1. inv[r] \in GateState /\ GateShape(inv[r]) /\ Kind[r] = inv[r].kind
  BY Stands
<1>2. inv[r].res = "none" /\ inv[r].left - 1 \in Int
  BY <1>1 DEF GateState, GateShape
<1>3. /\ f \in GateState /\ f.kind = inv[r].kind /\ f.failed = b /\ f.todo = {} /\ f.quiet = FALSE
      /\ f.res = "none"
  BY <1>1, <1>2 DEF GateState
<1>4. NextRound(r, b) = IF inv[r].left > 1 THEN [f EXCEPT !.pc = "create"]
                        ELSE IF inv[r].kind = "workload" THEN [f EXCEPT !.pc = "orphans"]
                        ELSE [f EXCEPT !.pc = "done", !.res = IF b THEN "fail" ELSE "pass"]
  BY <1>1 DEF NextRound
<1> HIDE DEF f
<1>5. CASE NextRound(r, b) = [f EXCEPT !.pc = "create"]
  BY <1>3, <1>5 DEF GateState, GateShape, Gates, Sound
<1>7. CASE inv[r].kind = "workload" /\ NextRound(r, b) = [f EXCEPT !.pc = "orphans"]
  BY <1>3, <1>7 DEF GateState, GateShape, Gates, Sound
<1>6. CASE NextRound(r, b) = [f EXCEPT !.pc = "done", !.res = IF b THEN "fail" ELSE "pass"]
  BY <1>3, <1>6 DEF GateState, GateShape, Gates, Sound
<1> QED
  BY <1>4, <1>5, <1>6, <1>7, Zenon

\* After a destroy only one that is known to have worked leaves the gate able to pass.
LEMMA Destroyed ==
  ASSUME GateInv, NEW r \in Run, NEW ok \in BOOLEAN, inv[r].pc \in {"destroy", "confirm"}
  PROVE  /\ AfterDestroy(r, ok) \in GateState /\ GateShape(AfterDestroy(r, ok))
         /\ Sound(AfterDestroy(r, ok)) => ok /\ Sound(inv[r])
<1>1. inv[r] \in GateState /\ GateShape(inv[r]) /\ Kind[r] = inv[r].kind
  BY Stands
<1>2. /\ inv[r].kind \in {"acceptance", "workload", "benchmark", "provider"} /\ inv[r].res = "none"
      /\ inv[r].failed \in BOOLEAN
  BY <1>1 DEF GateState, GateShape, Gates
<1> DEFINE b == inv[r].failed \/ ~ok
<1>3. CASE inv[r].todo # {}
  <2>1. AfterDestroy(r, ok) = [inv[r] EXCEPT !.pc = "sweeping", !.todo = @ \ {inv[r].sid}]
    BY <1>3 DEF AfterDestroy
  <2>2. inv[r].failed /\ inv[r].kind = "workload"
    BY <1>1, <1>2, <1>3 DEF GateShape, Gates
  <2>3. AfterDestroy(r, ok) \in GateState
    BY <1>1, <2>1 DEF GateState
  <2>4. GateShape(AfterDestroy(r, ok)) /\ ~Sound(AfterDestroy(r, ok))
    BY <1>1, <1>2, <2>1, <2>2 DEF GateState, GateShape, Gates, Sound
  <2> QED
    BY <2>3, <2>4
<1>4. CASE inv[r].todo = {} /\ inv[r].kind = "acceptance"
  <2>1. AfterDestroy(r, ok) = Done(r, IF b THEN "fail" ELSE "pass")
    BY <1>1, <1>4 DEF AfterDestroy
  <2> QED
    BY <1>1, <1>2, <1>4, <2>1 DEF Done, GateState, GateShape, Gates, Sound
<1>5. CASE inv[r].todo = {} /\ inv[r].kind = "workload" /\ (inv[r].quiet \/ ~ok)
  <2>1. AfterDestroy(r, ok) = [inv[r] EXCEPT !.pc = "sweep", !.failed = TRUE]
    BY <1>1, <1>5 DEF AfterDestroy
  <2> QED
    BY <1>1, <1>2, <1>5, <2>1 DEF GateState, GateShape, Gates, Sound
<1>6. CASE /\ inv[r].todo = {} /\ inv[r].kind \in {"workload", "benchmark"}
           /\ ~(inv[r].kind = "workload" /\ (inv[r].quiet \/ ~ok))
  <2>1. AfterDestroy(r, ok) = NextRound(r, b)
    BY <1>1, <1>6 DEF AfterDestroy
  <2>2. b \in BOOLEAN /\ (~b => ok /\ Sound(inv[r]))
    BY <1>2 DEF Sound
  <2> HIDE DEF b
  <2> QED
    BY <1>6, <2>1, <2>2, Rounding
<1>7. CASE inv[r].todo = {} /\ inv[r].kind = "provider"
  <2>1. AfterDestroy(r, ok) = Done(r, IF ok THEN "pass" ELSE "fail")
    BY <1>1, <1>7 DEF AfterDestroy
  <2>2. ~inv[r].failed
    BY <1>1, <1>7 DEF GateShape, Gates
  <2> QED
    BY <1>1, <1>2, <1>7, <2>1, <2>2 DEF Done, GateState, GateShape, Gates, Sound
<1> QED
  BY <1>2, <1>3, <1>4, <1>5, <1>6, <1>7

\* The end of an invocation that does not pass.
LEMMA Fails ==
  ASSUME GateInv, NEW r \in Run, NEW e \in {"fail", "skipped"}, inv[r].pc # "done"
  PROVE  Done(r, e) \in GateState /\ GateShape(Done(r, e)) /\ ~Sound(Done(r, e))
<1>1. inv[r] \in GateState /\ GateShape(inv[r])
  BY Stands
<1> QED
  BY <1>1 DEF Done, GateState, GateShape, Sound, Gates

\* An invocation moves to another place of its command, and nothing else changes.
LEMMA Moves ==
  ASSUME GateInv, NEW r \in Run, NEW pc, Go(r, To(r, pc)), To(r, pc) \in GateState,
         GateShape(To(r, pc)), UNCHANGED <<live, late, made>>,
         pc \in Holding \/ inv[r].pc \notin Holding
  PROVE  GateInv'
<1>1. inv[r] \in GateState
  BY Stands
<1>2. /\ To(r, pc).pc = pc /\ To(r, pc).sid = inv[r].sid /\ To(r, pc).failed = inv[r].failed
      /\ To(r, pc).res = inv[r].res
  BY <1>1 DEF To, GateState
<1> QED
  BY <1>2, Keeps DEF Go, Sound

\* The gates up to a sandbox that is ready.
LEMMA GateBegins ==
  ASSUME GateInv, NEW r \in Run,
         AcceptancePreflight(r) \/ Preflight(r) \/ GateCreate(r) \/ GuestReady(r)
  PROVE  GateInv'
<1>0. inv[r] \in GateState /\ GateShape(inv[r]) /\ Kind[r] = inv[r].kind
  BY Stands
<1>1. CASE AcceptancePreflight(r) \/ Preflight(r)
  <2>1. /\ inv[r].pc = "start" /\ inv[r].kind \in Gates /\ UNCHANGED <<live, late, made>>
        /\ \/ Go(r, To(r, "create"))
           \/ \E e \in {"fail", "skipped"} : Go(r, Done(r, e))
    BY <1>0, <1>1 DEF AcceptancePreflight, Preflight, At, Gates
  <2>2. ASSUME NEW e \in {"fail", "skipped"}, Go(r, Done(r, e)) PROVE GateInv'
    BY <2>1, <2>2, Fails, Keeps DEF Go
  <2>3. CASE Go(r, To(r, "create"))
    <3>1. To(r, "create") \in GateState /\ GateShape(To(r, "create"))
      BY <1>0, <2>1 DEF To, GateState, GateShape, Gates
    <3> QED
      BY <2>1, <2>3, <3>1, Moves DEF Holding
  <2> QED
    BY <2>1, <2>2, <2>3
<1>2. CASE GateCreate(r)
  <2> DEFINE f == [To(r, "ready") EXCEPT !.sid = made + 1]
             g == CreateFailed(r)
  <2>1. /\ inv[r].pc = "create" /\ inv[r].kind \in Gates /\ CreateRequest(r, f, g)
        /\ made + 1 \in Nat
    BY <1>0, <1>2 DEF GateCreate, At, GateInv
  <2>2. /\ f \in GateState /\ GateShape(f) /\ f.sid = made + 1 /\ f.pc = "ready"
        /\ f.failed = inv[r].failed /\ f.res = inv[r].res
    BY <1>0, <2>1 DEF To, GateState, GateShape, Gates
  <2>3. g \in GateState /\ GateShape(g) /\ ~Sound(g)
    <3>1. CASE inv[r].kind = "acceptance"
      BY <1>0, <2>1, <3>1, Fails DEF CreateFailed
    <3>2. CASE inv[r].kind = "workload"
      <4>1. g = [inv[r] EXCEPT !.pc = "sweep", !.failed = TRUE]
        BY <1>0, <3>2 DEF CreateFailed
      <4> HIDE DEF g
      <4> QED
        BY <1>0, <2>1, <3>2, <4>1 DEF GateState, GateShape, Gates, Sound
    <3>3. CASE inv[r].kind = "benchmark"
      BY <1>0, <2>1, <3>3, Rounding DEF CreateFailed
    <3> QED
      BY <2>1, <3>1, <3>2, <3>3 DEF Gates
  <2> HIDE DEF f, g
  <2>4. inv[r].pc \notin Holding /\ f.pc \in Holding /\ (Sound(f) => Sound(inv[r]))
    BY <2>1, <2>2 DEF Holding, Sound
  <2> QED
    BY <2>1, <2>2, <2>3, <2>4, Creates
<1>3. CASE GuestReady(r)
  <2>1. inv[r].pc = "ready" /\ inv[r].kind \in Gates /\ UNCHANGED <<live, late, made>>
    BY <1>0, <1>3 DEF GuestReady, At, GateState, GateShape
  <2>2. ASSUME NEW f, Go(r, f), \/ f = [To(r, "gate") EXCEPT !.created = @ \cup {inv[r].sid}]
                                \/ f = [To(r, "destroy") EXCEPT !.quiet = TRUE, !.failed = TRUE]
        PROVE  GateInv'
    <3>1. /\ f \in GateState /\ GateShape(f) /\ f.sid = inv[r].sid /\ f.pc \in Holding
          /\ (Sound(f) => Sound(inv[r]))
      <4>1. CASE f = [To(r, "gate") EXCEPT !.created = @ \cup {inv[r].sid}]
        <5>1. inv[r].created \cup {inv[r].sid} \in SUBSET Nat
          BY <1>0 DEF GateState
        <5>2. f = [inv[r] EXCEPT !.pc = "gate", !.created = inv[r].created \cup {inv[r].sid}]
          BY <1>0, <4>1 DEF To, GateState
        <5> QED
          BY <1>0, <2>1, <5>1, <5>2 DEF GateState, GateShape, Gates, Holding, Sound
      <4>2. CASE f = [To(r, "destroy") EXCEPT !.quiet = TRUE, !.failed = TRUE]
        BY <1>0, <2>1, <4>2 DEF To, GateState, GateShape, Gates, Holding, Sound
      <4> QED
        BY <2>2, <4>1, <4>2
    <3> QED
      BY <2>1, <2>2, <3>1, Keeps DEF Go
  <2> QED
    BY <1>3, <2>2 DEF GuestReady
<1> QED
  BY <1>1, <1>2, <1>3

\* The guest calls of the three gates.
LEMMA GateCalls ==
  ASSUME GateInv, NEW r \in Run, AcceptanceGate(r) \/ WorkloadGate(r) \/ BenchmarkGate(r)
  PROVE  GateInv'
<1>0. inv[r] \in GateState /\ GateShape(inv[r]) /\ Kind[r] = inv[r].kind
  BY Stands
<1>1. inv[r].pc = "gate" /\ inv[r].kind \in Gates /\ UNCHANGED <<live, late, made>>
  BY <1>0 DEF AcceptanceGate, WorkloadGate, BenchmarkGate, At, Gates
<1>2. ASSUME NEW b \in BOOLEAN, b = inv[r].failed \/ b = TRUE,
             Go(r, [To(r, "destroy") EXCEPT !.failed = b])
      PROVE  GateInv'
  <2> DEFINE f == [To(r, "destroy") EXCEPT !.failed = b]
  <2>1. /\ f \in GateState /\ GateShape(f) /\ f.sid = inv[r].sid /\ f.pc \in Holding
        /\ (Sound(f) => Sound(inv[r]))
    BY <1>0, <1>1, <1>2 DEF To, GateState, GateShape, Gates, Holding, Sound
  <2> QED
    BY <1>1, <1>2, <2>1, Keeps DEF Go
<1>3. CASE Go(r, To(r, "destroy"))
  <2>1. To(r, "destroy") \in GateState /\ GateShape(To(r, "destroy"))
    BY <1>0, <1>1 DEF To, GateState, GateShape, Gates
  <2> QED
    BY <1>1, <1>3, <2>1, Moves DEF Holding
<1>4. CASE Kind[r] = "workload" /\ Go(r, [To(r, "sweep") EXCEPT !.failed = TRUE])
  <2> DEFINE f == [To(r, "sweep") EXCEPT !.failed = TRUE]
  <2>1. f \in GateState /\ GateShape(f) /\ ~Sound(f)
    BY <1>0, <1>1, <1>4 DEF To, GateState, GateShape, Gates, Sound
  <2> QED
    BY <1>1, <1>4, <2>1, Keeps DEF Go
<1>5. CASE BenchmarkGate(r)
  <2>1. PICK ok \in {FALSE} \cup {inv[r].sid \in vm} :
          Go(r, [To(r, "destroy") EXCEPT !.failed = @ \/ ~ok])
    BY <1>5 DEF BenchmarkGate
  <2>2. To(r, "destroy").failed = inv[r].failed /\ inv[r].failed \in BOOLEAN
    BY <1>0 DEF To, GateState
  <2>3. PICK b \in BOOLEAN : b = (inv[r].failed \/ ~ok)
    OBVIOUS
  <2>4. Go(r, [To(r, "destroy") EXCEPT !.failed = b])
    BY <2>1, <2>2, <2>3, Zenon
  <2>5. b = inv[r].failed \/ b = TRUE
    BY <2>2, <2>3
  <2> QED
    BY <1>2, <2>4, <2>5
<1> QED
  BY <1>2, <1>3, <1>4, <1>5 DEF AcceptanceGate, WorkloadGate

\* A destroy that worked, or that the list confirms, has left nothing in hand.
LEMMA Destroys ==
  ASSUME GateInv, NEW r \in Run, Delete(r) \/ Confirm(r)
  PROVE  GateInv'
<1>0. inv[r] \in GateState /\ GateShape(inv[r]) /\ Kind[r] = inv[r].kind
  BY Stands
<1>1. CASE Delete(r)
  <2>1. inv[r].pc = "destroy" /\ UNCHANGED <<late, made>>
    BY <1>1 DEF Delete, At
  <2>2. CASE /\ live' = {s \in live : s.id # inv[r].sid} /\ Go(r, AfterDestroy(r, TRUE))
    <3>1. /\ AfterDestroy(r, TRUE) \in GateState /\ GateShape(AfterDestroy(r, TRUE))
          /\ Sound(AfterDestroy(r, TRUE)) => Sound(inv[r])
      BY <2>1, Destroyed
    <3>2. live' \subseteq live /\ \A s \in live' : s.id # inv[r].sid
      BY <2>2
    <3> QED
      BY <2>1, <2>2, <3>1, <3>2, Keeps DEF Go
  <2>3. CASE /\ Kind[r] = "provider" /\ live' \subseteq live /\ Go(r, AfterDestroy(r, FALSE))
    <3>1. /\ AfterDestroy(r, FALSE) \in GateState /\ GateShape(AfterDestroy(r, FALSE))
          /\ ~Sound(AfterDestroy(r, FALSE))
      BY <2>1, Destroyed
    <3> QED
      BY <2>1, <2>3, <3>1, Keeps DEF Go
  <2>4. CASE /\ Kind[r] # "provider" /\ live' \subseteq live /\ Go(r, To(r, "confirm"))
    <3>1. inv[r].kind \in Gates
      BY <1>0, <2>1, <2>4 DEF GateState, GateShape
    <3>2. /\ To(r, "confirm") \in GateState /\ GateShape(To(r, "confirm"))
          /\ To(r, "confirm").pc \in Holding /\ To(r, "confirm").sid = inv[r].sid
          /\ Sound(To(r, "confirm")) => Sound(inv[r])
      BY <1>0, <2>1, <3>1 DEF To, GateState, GateShape, Gates, Sound, Holding
    <3> QED
      BY <2>1, <2>4, <3>2, Keeps DEF Go
  <2> QED
    BY <1>1, <2>2, <2>3, <2>4 DEF Delete
<1>2. CASE Confirm(r)
  <2>1. inv[r].pc = "confirm" /\ UNCHANGED <<live, late, made>>
    BY <1>2 DEF Confirm, At
  <2>2. PICK answered \in {FALSE} \cup {Answers} :
          Go(r, AfterDestroy(r, Confirmed(r, answered)))
    BY <1>2 DEF Confirm
  <2>3. Confirmed(r, answered) \in BOOLEAN
    BY DEF Confirmed
  <2>4. Confirmed(r, answered) => \A s \in live' : s.id # inv[r].sid
    BY <2>1 DEF Confirmed, Listed
  <2>5. PICK ok \in BOOLEAN : ok = Confirmed(r, answered)
    BY <2>3
  <2>6. /\ AfterDestroy(r, ok) \in GateState /\ GateShape(AfterDestroy(r, ok))
        /\ Sound(AfterDestroy(r, ok)) => ok /\ Sound(inv[r])
    BY <2>1, Destroyed
  <2>7. inv' = [inv EXCEPT ![r] = AfterDestroy(r, ok)]
    BY <2>2, <2>5 DEF Go
  <2> QED
    BY <2>1, <2>4, <2>5, <2>6, <2>7, Keeps
<1> QED
  BY <1>1, <1>2

\* The sweep of a workload that failed, and its last look.
LEMMA Sweeps ==
  ASSUME GateInv, NEW r \in Run, Sweep(r) \/ SweepNext(r) \/ OrphanCheck(r)
  PROVE  GateInv'
<1>0. inv[r] \in GateState /\ GateShape(inv[r]) /\ Kind[r] = inv[r].kind
  BY Stands
<1>1. /\ inv[r].pc \in {"sweep", "sweeping", "orphans"} /\ UNCHANGED <<live, late, made>>
      /\ inv[r].kind \in Gates
  BY <1>0 DEF Sweep, SweepNext, OrphanCheck, At, GateState, GateShape
<1>2. CASE inv[r].kind = "workload" /\ Go(r, NextRound(r, TRUE))
  <2>1. /\ NextRound(r, TRUE) \in GateState /\ GateShape(NextRound(r, TRUE))
        /\ ~Sound(NextRound(r, TRUE))
    BY <1>1, <1>2, Rounding
  <2> QED
    BY <1>1, <1>2, <2>1, Keeps DEF Go
<1>3. ASSUME NEW mine \in SUBSET Nat, inv[r].pc = "sweep", Go(r, [To(r, "sweeping") EXCEPT !.todo = mine])
      PROVE  GateInv'
  <2> DEFINE f == [To(r, "sweeping") EXCEPT !.todo = mine]
  <2>1. f \in GateState /\ GateShape(f) /\ ~Sound(f)
    BY <1>0, <1>1, <1>3 DEF To, GateState, GateShape, Gates, Sound
  <2> QED
    BY <1>1, <1>3, <2>1, Keeps DEF Go
<1>4. ASSUME NEW s \in Nat, inv[r].pc = "sweeping", Go(r, [To(r, "destroy") EXCEPT !.sid = s])
      PROVE  GateInv'
  <2> DEFINE f == [To(r, "destroy") EXCEPT !.sid = s]
  <2>1. f \in GateState /\ GateShape(f) /\ ~Sound(f)
    BY <1>0, <1>1, <1>4 DEF To, GateState, GateShape, Gates, Sound
  <2> QED
    BY <1>1, <1>4, <2>1, Keeps DEF Go
<1>5. ASSUME NEW e \in {"pass", "fail"}, inv[r].pc = "orphans", Go(r, Done(r, e)),
             e = "pass" => ~inv[r].failed
      PROVE  GateInv'
  <2>1. Done(r, e) \in GateState /\ GateShape(Done(r, e)) /\ (Sound(Done(r, e)) => Sound(inv[r]))
    BY <1>0, <1>1, <1>5 DEF Done, GateState, GateShape, Gates, Sound
  <2>2. inv[r].pc \notin Holding
    BY <1>5 DEF Holding
  <2> QED
    BY <1>1, <1>5, <2>1, <2>2, Keeps DEF Go
<1>6. inv[r].kind = "workload" /\ inv[r].created \subseteq Nat /\ inv[r].todo \subseteq Nat
  <2>1. inv[r].kind = "workload"
    BY <1>0, <1>1 DEF GateShape, Gates
  <2> QED
    BY <1>0, <2>1 DEF GateState
<1>7. CASE Sweep(r)
  <2>1. PICK mine \in {{}} \cup (IF Answers THEN {Listed \cap inv[r].created} ELSE {}) :
          Go(r, IF mine = {} THEN NextRound(r, TRUE) ELSE [To(r, "sweeping") EXCEPT !.todo = mine])
    BY <1>7 DEF Sweep
  <2>2. mine \in SUBSET Nat /\ inv[r].pc = "sweep"
    BY <1>6, <1>7, <2>1 DEF Sweep, At
  <2> QED
    BY <1>2, <1>3, <1>6, <2>1, <2>2
<1>8. CASE SweepNext(r)
  BY <1>2, <1>4, <1>6, <1>8 DEF SweepNext, At
<1>9. CASE OrphanCheck(r)
  <2>1. inv[r].pc = "orphans"
    BY <1>9 DEF OrphanCheck, At
  <2>2. \/ Go(r, Done(r, "fail"))
        \/ Go(r, Done(r, IF inv[r].failed \/ Listed \cap inv[r].created # {} THEN "fail"
                         ELSE "pass"))
    BY <1>9 DEF OrphanCheck
  <2> QED
    BY <1>5, <2>1, <2>2
<1> QED
  BY <1>7, <1>8, <1>9

\* The provider's create and delete.
LEMMA ProviderSteps ==
  ASSUME GateInv, NEW r \in Run, ProviderCreate(r) \/ ProviderDelete(r)
  PROVE  GateInv'
<1>0. inv[r] \in GateState /\ GateShape(inv[r]) /\ Kind[r] = inv[r].kind
  BY Stands
<1>1. CASE ProviderCreate(r)
  <2> DEFINE f == [To(r, "held") EXCEPT !.sid = made + 1]
             g == Done(r, "fail")
  <2>1. /\ inv[r].pc = "start" /\ inv[r].kind = "provider" /\ CreateRequest(r, f, g)
        /\ made + 1 \in Nat
    BY <1>0, <1>1 DEF ProviderCreate, At, GateInv
  <2>2. /\ f \in GateState /\ GateShape(f) /\ f.sid = made + 1 /\ f.pc = "held"
        /\ f.failed = inv[r].failed /\ f.res = inv[r].res
    BY <1>0, <2>1 DEF To, GateState, GateShape, Gates
  <2>3. g \in GateState /\ GateShape(g) /\ ~Sound(g)
    BY <2>1, Fails
  <2> HIDE DEF f, g
  <2>4. inv[r].pc \notin Holding /\ f.pc \in Holding /\ (Sound(f) => Sound(inv[r]))
    BY <2>1, <2>2 DEF Holding, Sound
  <2> QED
    BY <2>1, <2>2, <2>3, <2>4, Creates
<1>2. CASE ProviderDelete(r)
  <2>1. inv[r].pc = "held" /\ Go(r, To(r, "destroy")) /\ UNCHANGED <<live, late, made>>
    BY <1>2 DEF ProviderDelete, At
  <2>2. inv[r].kind = "provider"
    BY <1>0, <2>1 DEF GateState, GateShape, Gates
  <2>3. To(r, "destroy") \in GateState /\ GateShape(To(r, "destroy"))
    BY <1>0, <2>1, <2>2 DEF To, GateState, GateShape, Gates
  <2> QED
    BY <2>1, <2>3, Moves DEF Holding
<1> QED
  BY <1>1, <1>2

BackendUpAt == {"probe", "probe2", "kill", "spawn", "wait", "clearing", "snapshot", "building",
                "provenance"}

\* A step of backend-up, which never holds a sandbox of its own.
LEMMA BackendMoves ==
  ASSUME GateInv, NEW r \in Run, NEW f, Go(r, f), inv[r].kind = "backend_up",
         inv[r].pc # "done", UNCHANGED <<late, made>>, live' \subseteq live,
         \/ \E pc \in BackendUpAt, w \in BOOLEAN, todo \in SUBSET Nat :
              f = [inv[r] EXCEPT !.pc = pc, !.spawned = w, !.todo = todo]
         \/ \E e \in {"pass", "fail"} : f = Done(r, e)
  PROVE  GateInv'
<1>0. inv[r] \in GateState /\ GateShape(inv[r])
  BY Stands
<1>1. inv[r].pc \notin Holding /\ inv[r].res = "none" /\ ~inv[r].failed
  BY <1>0 DEF GateState, GateShape, Gates, Holding
<1>2. f \in GateState /\ GateShape(f)
  <2>1. ASSUME NEW pc \in BackendUpAt, NEW w \in BOOLEAN, NEW todo \in SUBSET Nat,
               f = [inv[r] EXCEPT !.pc = pc, !.spawned = w, !.todo = todo]
        PROVE  f \in GateState /\ GateShape(f)
    <3>1. f \in GateState
      BY <1>0, <2>1 DEF BackendUpAt, GateState
    <3>2. /\ f.kind = "backend_up" /\ f.pc \in BackendUpAt /\ f.res = "none" /\ ~f.failed
          /\ f.quiet = inv[r].quiet
      BY <1>0, <1>1, <2>1 DEF GateState
    <3>3. ~f.quiet
      BY <1>0, <1>1, <3>2 DEF GateShape
    <3> QED
      BY <3>1, <3>2, <3>3 DEF BackendUpAt, GateShape, Gates
  <2>2. ASSUME NEW e \in {"pass", "fail"}, f = Done(r, e)
        PROVE  f \in GateState /\ GateShape(f)
    BY <1>0, <1>1, <2>2 DEF Done, GateState, GateShape, Gates
  <2> QED
    BY <2>1, <2>2
<1>3. Sound(inv[r])
  BY <1>1 DEF Sound
<1> QED
  BY <1>1, <1>2, <1>3, Keeps DEF Go

LEMMA BackendSteps ==
  ASSUME GateInv, NEW r \in Run,
         \/ Prepare(r) \/ Probe(r) \/ KillLeftovers(r) \/ SpawnController(r)
         \/ WaitController(r) \/ ClearStale(r) \/ EnsureSnapshot(r) \/ WaitSnapshot(r)
         \/ RequireProvenance(r)
  PROVE  GateInv'
<1>0. inv[r] \in GateState /\ GateShape(inv[r]) /\ Kind[r] = inv[r].kind
  BY Stands
<1>1. inv[r].pc \in {"start"} \cup BackendUpAt /\ (inv[r].pc = "start" => inv[r].kind = "backend_up")
  BY <1>0 DEF Prepare, Probe, KillLeftovers, SpawnController, WaitController, ClearStale,
     EnsureSnapshot, WaitSnapshot, RequireProvenance, At, BackendUpAt
<1>2. inv[r].kind = "backend_up" /\ inv[r].pc # "done"
  BY <1>0, <1>1 DEF GateState, GateShape, Gates, BackendUpAt
<1>3. UNCHANGED <<late, made>> /\ live' \subseteq live
  BY DEF Prepare, Probe, KillLeftovers, SpawnController, WaitController, ClearStale,
     EnsureSnapshot, WaitSnapshot, RequireProvenance
<1>4. inv[r].spawned \in BOOLEAN /\ inv[r].todo \in SUBSET Nat /\ Listed \in SUBSET Nat
  <2>1. live \subseteq [id : Nat, owner : Run]
    BY DEF GateInv
  <2> QED
    BY <1>0, <2>1 DEF GateState, Listed
<1>5. ASSUME NEW e \in {"pass", "fail"}, Go(r, Done(r, e)) PROVE GateInv'
  BY <1>2, <1>3, <1>5, BackendMoves
<1>6. ASSUME NEW pc \in BackendUpAt, NEW w \in BOOLEAN, NEW todo \in SUBSET Nat, NEW f, Go(r, f),
             f = [inv[r] EXCEPT !.pc = pc, !.spawned = w, !.todo = todo]
      PROVE  GateInv'
  BY <1>2, <1>3, <1>6, BackendMoves
<1>7. ASSUME NEW pc \in BackendUpAt, Go(r, To(r, pc)) PROVE GateInv'
  <2>1. To(r, pc) = [inv[r] EXCEPT !.pc = pc, !.spawned = inv[r].spawned, !.todo = inv[r].todo]
    BY <1>0 DEF To, GateState
  <2> QED
    BY <1>4, <1>6, <1>7, <2>1
<1>8. CASE SpawnController(r)
  <2>1. CASE Go(r, [To(r, "wait") EXCEPT !.spawned = TRUE])
    <3>1. /\ [To(r, "wait") EXCEPT !.spawned = TRUE]
               = [inv[r] EXCEPT !.pc = "wait", !.spawned = TRUE, !.todo = inv[r].todo]
          /\ "wait" \in BackendUpAt
      BY <1>0 DEF To, GateState, BackendUpAt
    <3> QED
      BY <1>4, <1>6, <2>1, <3>1
  <2> QED
    BY <1>5, <1>8, <2>1 DEF SpawnController
<1>9. CASE WaitController(r)
  <2>1. ASSUME NEW todo \in {{}, Listed}, Go(r, [To(r, "clearing") EXCEPT !.todo = todo])
        PROVE  GateInv'
    <3>1. /\ [To(r, "clearing") EXCEPT !.todo = todo]
               = [inv[r] EXCEPT !.pc = "clearing", !.spawned = inv[r].spawned, !.todo = todo]
          /\ "clearing" \in BackendUpAt
      BY <1>0 DEF To, GateState, BackendUpAt
    <3>2. todo \in SUBSET Nat
      BY <1>4
    <3> QED
      BY <1>4, <1>6, <2>1, <3>1, <3>2
  <2>2. "snapshot" \in BackendUpAt
    BY DEF BackendUpAt
  <2> QED
    BY <1>5, <1>7, <1>9, <2>1, <2>2 DEF WaitController
<1>10. CASE ClearStale(r)
  <2>1. ASSUME NEW s, Go(r, [inv[r] EXCEPT !.todo = @ \ {s}]) PROVE GateInv'
    <3>1. inv[r].pc = "clearing" /\ "clearing" \in BackendUpAt
      BY <1>10 DEF ClearStale, At, BackendUpAt
    <3>2. [inv[r] EXCEPT !.todo = @ \ {s}]
            = [inv[r] EXCEPT !.pc = "clearing", !.spawned = inv[r].spawned, !.todo = inv[r].todo \ {s}]
      BY <1>0, <3>1 DEF GateState
    <3>3. inv[r].todo \ {s} \in SUBSET Nat
      BY <1>4
    <3> QED
      BY <1>4, <1>6, <2>1, <3>1, <3>2, <3>3
  <2>2. "snapshot" \in BackendUpAt
    BY DEF BackendUpAt
  <2> QED
    BY <1>7, <1>10, <2>1, <2>2 DEF ClearStale
<1>11. CASE Prepare(r) \/ Probe(r) \/ KillLeftovers(r)
  <2>1. {"probe", "probe2", "kill", "spawn", "wait"} \subseteq BackendUpAt
    BY DEF BackendUpAt
  <2> QED
    BY <1>5, <1>7, <1>11, <2>1 DEF Prepare, Probe, KillLeftovers
<1>12. CASE EnsureSnapshot(r) \/ WaitSnapshot(r) \/ RequireProvenance(r)
  <2>1. {"provenance", "building"} \subseteq BackendUpAt
    BY DEF BackendUpAt
  <2> QED
    BY <1>5, <1>7, <1>12, <2>1 DEF EnsureSnapshot, WaitSnapshot, RequireProvenance
<1> QED
  BY <1>8, <1>9, <1>10, <1>11, <1>12

LEMMA GateStep == GateInv /\ [FgaNext]_fgavars => GateInv'
<1> SUFFICES ASSUME GateInv, [FgaNext]_fgavars PROVE GateInv'
  OBVIOUS
<1>1. CASE \/ ControllerFault \/ ControllerRecovers \/ SnapshotBuilt \/ UNCHANGED fgavars
           \/ \E r \in Run : LateCreate(r)
  BY <1>1, ControllerSteps
<1>2. ASSUME NEW r \in Run,
             \/ AcceptancePreflight(r) \/ Preflight(r) \/ GateCreate(r) \/ GuestReady(r)
             \/ AcceptanceGate(r) \/ WorkloadGate(r) \/ BenchmarkGate(r)
      PROVE  GateInv'
  BY <1>2, GateBegins, GateCalls
<1>3. ASSUME NEW r \in Run,
             \/ Delete(r) \/ Confirm(r) \/ Sweep(r) \/ SweepNext(r) \/ OrphanCheck(r)
             \/ ProviderCreate(r) \/ ProviderDelete(r)
      PROVE  GateInv'
  BY <1>3, Destroys, Sweeps, ProviderSteps
<1>4. ASSUME NEW r \in Run,
             \/ Prepare(r) \/ Probe(r) \/ KillLeftovers(r) \/ SpawnController(r)
             \/ WaitController(r) \/ ClearStale(r) \/ EnsureSnapshot(r) \/ WaitSnapshot(r)
             \/ RequireProvenance(r)
      PROVE  GateInv'
  BY <1>4, BackendSteps
<1> QED
  BY <1>1, <1>2, <1>3, <1>4 DEF FgaNext

\* A gate that passes, or a provider whose delete succeeded, has no sandbox left at the
\* controller and no create still to be carried out (cli/forkd/sandbox.rs, workload.rs,
\* acceptance.rs, benchmark.rs), for every number of invocations, rounds and faults.
THEOREM GatesLeaveNothing == FgaSpec => []PassLeavesNothing
<1>1. GateInv => PassLeavesNothing
  <2> SUFFICES ASSUME GateInv, NEW r \in Run, inv[r].res = "pass"
               PROVE  OwnedBy(r) = {} /\ r \notin late
    BY DEF PassLeavesNothing
  <2>1. inv[r].pc = "done" /\ Sound(inv[r])
    BY DEF GateInv, GateShape, Sound
  <2> QED
    BY <2>1 DEF GateInv, HandOnly, OwnedBy, Holding
<1> QED
  BY GateInit, GateStep, <1>1, PTL DEF FgaSpec

-----------------------------------------------------------------------------
(* Snapshots and their bindings *)

Binding == [tag : Tag, artifact : Artifact, evidence : Evidence, digest : Ver,
            verification : {"verified", "partial"}]
CmdState == [pc : {"create", "copying", "copyend", "rename", "boot", "state", "info", "clean",
                   "bind", "memory", "vmstate", "write", "bound", "accept", "done"},
             tag : Tag, artifact : Artifact \cup {Nothing}, evidence : Evidence,
             res : {"none", "fail", "ok", "verified", "partial", "refused"}]

FsTypes ==
  /\ disk \in [Tag -> [rootfs : {"none", "copy", "booted"}, mem : Ver, state : Ver]]
  /\ temp \in [Command -> {"none", "part", "whole"}]
  /\ daemon \in [Tag -> [ready : BOOLEAN, typed : BOOLEAN, ver : Ver]]
  /\ built \in Ver
  /\ cmd \in [Command -> CmdState]
  /\ record \in Binding \cup {Nothing}

\* Only a binder, which has a manifest, measures, writes and accepts.
BindersBind ==
  \A c \in Command :
    cmd[c].pc \in {"bind", "memory", "vmstate", "write", "bound", "accept"}
      => cmd[c].artifact \in Artifact

\* The evidence is of the command's tag or of the tag its manifest names.
EvidenceIsOf(e, t, a) == e.tag \in {t, a.tag}

\* What a command has in hand is of its own tags, and so is what the record says; a
\* record that calls itself verified has the manifest's digests.
EvidenceInv ==
  /\ \A c \in Command :
       cmd[c].pc \in {"vmstate", "write"} => EvidenceIsOf(cmd[c].evidence, TagOf(c), cmd[c].artifact)
  /\ record # Nothing =>
       /\ EvidenceIsOf(record.evidence, record.tag, record.artifact)
       /\ record.verification = "verified" => Verified(record.evidence, record.artifact)

\* The temporary copy that a command is about to put in place is whole, or has gone with
\* its directory: nobody else writes to its name.
CopiesWhole == \A c \in Command : cmd[c].pc = "rename" => temp[c] # "part"

FsInv == FsTypes /\ BindersBind /\ EvidenceInv /\ AcceptedIsBacked /\ CopiesWhole

\* A step that only moves the commands between stages that need no evidence.
LEMMA CmdMoves ==
  ASSUME FsInv, NEW c \in Command, NEW x \in CmdState, cmd' = [cmd EXCEPT ![c] = x],
         x.pc \in {"bind", "memory", "vmstate", "write", "bound", "accept"}
           => x.artifact \in Artifact,
         x.pc \in {"vmstate", "write"} => EvidenceIsOf(x.evidence, x.tag, x.artifact),
         x.pc = "accept" /\ x.res = "verified" =>
           x.evidence.tag = x.tag /\ x.evidence.mem = x.artifact.ver
             /\ x.evidence.state = x.artifact.ver,
         UNCHANGED record
  PROVE  /\ cmd' \in [Command -> CmdState] /\ BindersBind' /\ EvidenceInv' /\ AcceptedIsBacked'
         /\ x.pc # "rename" /\ UNCHANGED temp => CopiesWhole'
<1>1. cmd' \in [Command -> CmdState] /\ cmd'[c] = x /\ \A d \in Command \ {c} : cmd'[d] = cmd[d]
  BY DEF FsInv, FsTypes
<1>2. BindersBind'
  BY <1>1 DEF FsInv, BindersBind
<1>3. EvidenceInv'
  BY <1>1 DEF FsInv, EvidenceInv, TagOf
<1>4. AcceptedIsBacked'
  BY <1>1 DEF FsInv, AcceptedIsBacked, TagOf
<1>5. x.pc # "rename" /\ UNCHANGED temp => CopiesWhole'
  BY <1>1 DEF FsInv, CopiesWhole
<1> QED
  BY <1>1, <1>2, <1>3, <1>4, <1>5

LEMMA FsInvInit == FsInit => FsInv
<1> SUFFICES ASSUME FsInit PROVE FsInv
  OBVIOUS
<1>1. \A t \in Tag : NoEvidence(t) \in Evidence
  BY VerAssumption DEF NoEvidence, Evidence, Ver
<1>2. \A c \in Command : cmd[c] \in CmdState /\ cmd[c].pc \in {"create", "bind"}
                         /\ (cmd[c].pc = "bind" => cmd[c].artifact \in Artifact)
  BY <1>1 DEF FsInit, Begin, CmdState
<1>3. cmd \in [Command -> CmdState]
  BY <1>2 DEF FsInit
<1>4. FsTypes
  BY <1>3, VerAssumption DEF FsInit, FsTypes, NoFiles, Ver
<1> QED
  BY <1>2, <1>4 DEF FsInit, FsInv, BindersBind, EvidenceInv, AcceptedIsBacked, CopiesWhole

\* A command of snapshot-create moves on, or anything ends.
LEMMA Steps ==
  ASSUME FsInv, NEW c \in Command, UNCHANGED record,
         \/ \E pc \in {"copying", "copyend", "rename", "boot", "state", "info", "clean"} : Goto(c, pc)
         \/ \E res \in {"fail", "ok"} : Ends(c, res)
  PROVE  /\ cmd' \in [Command -> CmdState] /\ BindersBind' /\ EvidenceInv' /\ AcceptedIsBacked'
         /\ cmd'[c].pc # "rename" /\ UNCHANGED temp => CopiesWhole'
         /\ \A d \in Command : d # c => cmd'[d] = cmd[d]
<1>0. cmd \in [Command -> CmdState]
  BY DEF FsInv, FsTypes
<1>1. CASE \E pc \in {"copying", "copyend", "rename", "boot", "state", "info", "clean"} : Goto(c, pc)
  <2>1. PICK pc \in {"copying", "copyend", "rename", "boot", "state", "info", "clean"} : Goto(c, pc)
    BY <1>1
  <2> DEFINE x == [cmd[c] EXCEPT !.pc = pc]
  <2>2. x \in CmdState /\ x.pc = pc
    BY DEF FsInv, FsTypes, CmdState
  <2>3. cmd' = [cmd EXCEPT ![c] = x]
    BY <2>1 DEF Goto
  <2> HIDE DEF x
  <2> QED
    BY <1>0, <2>2, <2>3, CmdMoves
<1>2. CASE \E res \in {"fail", "ok"} : Ends(c, res)
  <2>1. PICK res \in {"fail", "ok"} : Ends(c, res)
    BY <1>2
  <2> DEFINE x == [cmd[c] EXCEPT !.pc = "done", !.res = res]
  <2>2. x \in CmdState /\ x.pc = "done"
    BY DEF FsInv, FsTypes, CmdState
  <2>3. cmd' = [cmd EXCEPT ![c] = x]
    BY <2>1 DEF Ends
  <2> HIDE DEF x
  <2> QED
    BY <1>0, <2>2, <2>3, CmdMoves
<1> QED
  BY <1>1, <1>2

\* A command that ends and changes nothing else.
LEMMA EndSteps ==
  ASSUME FsInv, NEW c \in Command, Ends(c, "fail"), UNCHANGED <<temp, record>>
  PROVE  /\ cmd' \in [Command -> CmdState] /\ BindersBind' /\ EvidenceInv' /\ AcceptedIsBacked'
         /\ CopiesWhole'
<1>1. cmd'[c].pc # "rename"
  BY DEF FsInv, FsTypes, CmdState, Ends
<1> QED
  BY <1>1, Steps

\* Only snapshot-bind writes the record, from evidence of its own tags, and only a
\* record that fits the tag and the manifest is accepted.
LEMMA FsStep == FsInv /\ [FsNext]_fsvars => FsInv'
<1> SUFFICES ASSUME FsInv, [FsNext]_fsvars PROVE FsInv'
  OBVIOUS
<1> USE VerAssumption
<1>t. FsTypes
  BY DEF FsInv
<1> DEFINE Others == UNCHANGED <<disk, temp, daemon, built>>
<1>1. ASSUME NEW c \in Command, ResolveAll(c) \/ BootFails(c) \/ PostCreateInfo(c)
      PROVE  FsInv'
  <2>1. Others /\ UNCHANGED record
    BY <1>1 DEF ResolveAll, BootFails, PostCreateInfo
  <2>2. \/ \E pc \in {"copying", "clean"} : Goto(c, pc)
        \/ \E res \in {"fail", "ok"} : Ends(c, res)
    BY <1>1 DEF ResolveAll, BootFails, PostCreateInfo
  <2>3. cmd'[c].pc # "rename"
    BY <1>t, <2>2 DEF FsTypes, CmdState, Goto, Ends
  <2> QED
    BY <1>t, <2>1, <2>2, <2>3, Steps DEF FsInv, FsTypes
<1>2. ASSUME NEW c \in Command, CopyBegin(c) \/ CopyEnd(c) \/ CopyRename(c) \/ CleanCopy(c)
      PROVE  FsInv'
  <2>1. /\ UNCHANGED <<daemon, record, built>>
        /\ \/ \E pc \in {"copyend", "rename", "boot"} : Goto(c, pc)
           \/ Ends(c, "fail")
    BY <1>2 DEF CopyBegin, CopyEnd, CopyRename, CleanCopy
  <2>2. /\ cmd' \in [Command -> CmdState] /\ BindersBind' /\ EvidenceInv' /\ AcceptedIsBacked'
        /\ \A d \in Command : d # c => cmd'[d] = cmd[d]
    BY <2>1, Steps
  <2>3. TagOf(c) \in Tag
    BY <1>t DEF FsTypes, CmdState, TagOf
  <2>4. CopyRename(c) => temp[c] # "part"
    BY DEF CopyRename, FsInv, CopiesWhole
  <2>5. PICK content \in {"none", "part", "whole"} :
          /\ temp' = [temp EXCEPT ![c] = content]
          /\ Goto(c, "rename") => content # "part"
    <3>1. CASE CleanCopy(c)
      <4>1. temp' = [temp EXCEPT ![c] = temp[c]] /\ temp[c] \in {"none", "part", "whole"}
        BY <1>t, <3>1 DEF CleanCopy, FsTypes
      <4>2. ~Goto(c, "rename")
        BY <1>t, <3>1 DEF CleanCopy, Goto, Ends, FsTypes, CmdState
      <4> QED
        BY <4>1, <4>2
    <3>2. CASE ~CleanCopy(c)
      <4>1. CopyBegin(c) => ~Goto(c, "rename")
        BY <1>t DEF CopyBegin, Goto, Ends, FsTypes, CmdState
      <4>2. CopyRename(c) => ~Goto(c, "rename")
        BY <1>t DEF CopyRename, Goto, Ends, FsTypes, CmdState
      <4> QED
        BY <1>2, <1>t, <3>2, <4>1, <4>2 DEF CopyBegin, CopyEnd, CopyRename, Temporary, TempOf
    <3> QED
      BY <3>1, <3>2
  <2>6. PICK f \in {"none", "copy"} :
          disk' = disk \/ disk' = [disk EXCEPT ![TagOf(c)].rootfs = f]
    BY <1>2, <1>t, <2>4 DEF CopyBegin, CopyEnd, CopyRename, CleanCopy, TempOf, FsTypes
  <2>7. disk' \in [Tag -> [rootfs : {"none", "copy", "booted"}, mem : Ver, state : Ver]]
    BY <1>t, <2>3, <2>6 DEF FsTypes
  <2>8. FsTypes'
    BY <1>t, <2>1, <2>2, <2>5, <2>7 DEF FsTypes
  <2>9. CopiesWhole'
    <3>1. cmd'[c].pc = "rename" => Goto(c, "rename")
      BY <1>t, <2>1 DEF FsTypes, CmdState, Goto, Ends
    <3> QED
      BY <1>t, <2>2, <2>5, <3>1 DEF FsInv, FsTypes, CopiesWhole
  <2> QED
    BY <2>2, <2>8, <2>9 DEF FsInv
<1>3. ASSUME NEW c \in Command, BootWrites(c) \/ BootEnds(c) PROVE FsInv'
  <2>0. /\ UNCHANGED <<temp, record>>
        /\ \E pc \in {"state", "info", "clean"} : Goto(c, pc)
    BY <1>3 DEF BootWrites, BootEnds
  <2>1. /\ cmd' \in [Command -> CmdState] /\ BindersBind' /\ EvidenceInv' /\ AcceptedIsBacked'
        /\ CopiesWhole'
    <3>1. cmd'[c].pc # "rename"
      BY <1>t, <2>0 DEF FsTypes, CmdState, Goto
    <3> QED
      BY <2>0, <3>1, Steps
  <2>2. TagOf(c) \in Tag
    BY <1>t DEF FsTypes, CmdState, TagOf
  <2>3. CASE BootWrites(c)
    <3>1. built + 1 \in Ver
      BY <2>3, <1>t DEF BootWrites, FsTypes, Ver
    <3>2. disk' = [disk EXCEPT ![TagOf(c)].rootfs = "booted", ![TagOf(c)].mem = built + 1]
      BY <2>3 DEF BootWrites
    <3>3. disk' \in [Tag -> [rootfs : {"none", "copy", "booted"}, mem : Ver, state : Ver]]
      BY <1>t, <2>2, <3>1, <3>2 DEF FsTypes
    <3>4. built' \in Ver /\ UNCHANGED <<temp, daemon, record>>
      BY <2>3, <3>1 DEF BootWrites
    <3>5. FsTypes'
      BY <1>t, <2>1, <3>3, <3>4 DEF FsTypes
    <3> QED
      BY <2>1, <3>5 DEF FsInv
  <2>4. CASE BootEnds(c)
    <3>1. disk[TagOf(c)].mem \in Ver
      BY <1>t, <2>2 DEF FsTypes
    <3>2. FsTypes'
      BY <2>0, <2>4, <1>t, <2>1, <2>2, <3>1 DEF BootEnds, FsTypes
    <3> QED
      BY <2>1, <3>2 DEF FsInv
  <2> QED
    BY <1>3, <2>3, <2>4
<1>4. ASSUME NEW t \in Tag, SnapshotDelete(t) PROVE FsInv'
  <2>1. NoFiles \in [rootfs : {"none", "copy", "booted"}, mem : Ver, state : Ver]
    BY DEF NoFiles, Ver
  <2>2. daemon' \in [Tag -> [ready : BOOLEAN, typed : BOOLEAN, ver : Ver]]
    BY <1>4, <1>t DEF SnapshotDelete, FsTypes
  <2>3. FsTypes'
    BY <1>4, <1>t, <2>1, <2>2 DEF SnapshotDelete, FsTypes
  <2> QED
    BY <1>4, <2>3
       DEF SnapshotDelete, FsInv, FsTypes, BindersBind, EvidenceInv, AcceptedIsBacked,
           CopiesWhole, TagOf
<1>5. ASSUME NEW c \in Command, BindList(c) PROVE FsInv'
  <2>1. Others /\ UNCHANGED record
    BY <1>5 DEF BindList
  <2>2. cmd[c] \in CmdState /\ cmd[c].pc = "bind" /\ cmd[c].artifact \in Artifact
    BY <1>5, <1>t DEF BindList, FsTypes, FsInv, BindersBind
  <2>3. CASE Ends(c, "fail")
    BY <1>t, <2>1, <2>3, EndSteps DEF FsInv, FsTypes
  <2>4. CASE Goto(c, "memory")
    <3> DEFINE x == [cmd[c] EXCEPT !.pc = "memory"]
    <3>1. x \in CmdState /\ x.pc = "memory" /\ x.artifact \in Artifact
      BY <2>2 DEF CmdState
    <3>2. cmd' = [cmd EXCEPT ![c] = x]
      BY <2>4 DEF Goto
    <3> HIDE DEF x
    <3> QED
      BY <1>t, <2>1, <3>1, <3>2, CmdMoves DEF FsInv, FsTypes
  <2>5. ASSUME NEW whole \in BOOLEAN,
               LET d == daemon[TagOf(c)]
               IN cmd' = [cmd EXCEPT ![c].pc = "write", ![c].evidence =
                           [tag |-> TagOf(c), mem |-> d.ver, state |-> d.ver, whole |-> whole]]
        PROVE  FsInv'
    <3> DEFINE e == [tag |-> TagOf(c), mem |-> daemon[TagOf(c)].ver,
                     state |-> daemon[TagOf(c)].ver, whole |-> whole]
               x == [cmd[c] EXCEPT !.pc = "write", !.evidence = e]
    <3>1. e \in Evidence /\ e.tag = TagOf(c)
      BY <2>2, <1>t DEF FsTypes, CmdState, Evidence, TagOf
    <3>2. cmd' = [cmd EXCEPT ![c] = x]
      BY <2>5
    <3> HIDE DEF e
    <3>3. x \in CmdState /\ x.pc = "write" /\ x.artifact \in Artifact /\ x.tag = TagOf(c)
          /\ x.evidence = e
      BY <2>2, <3>1 DEF CmdState, TagOf
    <3> HIDE DEF x
    <3> QED
      BY <1>t, <2>1, <3>1, <3>2, <3>3, CmdMoves DEF FsInv, FsTypes, EvidenceIsOf
  <2> QED
    BY <1>5, <2>3, <2>4, <2>5 DEF BindList
<1>6. ASSUME NEW c \in Command, MeasureMemory(c) PROVE FsInv'
  <2>1. Others /\ UNCHANGED record
    BY <1>6 DEF MeasureMemory
  <2>2. cmd[c] \in CmdState /\ cmd[c].pc = "memory" /\ cmd[c].artifact \in Artifact
    BY <1>6, <1>t DEF MeasureMemory, FsTypes, FsInv, BindersBind
  <2>3. CASE Ends(c, "fail")
    BY <1>t, <2>1, <2>3, EndSteps DEF FsInv, FsTypes
  <2>4. CASE ~Ends(c, "fail")
    <3>0. PICK whole \in BOOLEAN :
            cmd' = [cmd EXCEPT ![c].pc = "vmstate", ![c].evidence =
                     [tag |-> cmd[c].artifact.tag, mem |-> disk[cmd[c].artifact.tag].mem,
                      state |-> 0, whole |-> whole]]
      BY <1>6, <2>4 DEF MeasureMemory
    <3> DEFINE e == [tag |-> cmd[c].artifact.tag, mem |-> disk[cmd[c].artifact.tag].mem,
                     state |-> 0, whole |-> whole]
               x == [cmd[c] EXCEPT !.pc = "vmstate", !.evidence = e]
    <3>1. e \in Evidence
      BY <2>2, <1>t DEF FsTypes, Artifact, Evidence, Ver
    <3>2. cmd' = [cmd EXCEPT ![c] = x]
      BY <3>0
    <3> HIDE DEF e
    <3>3. x \in CmdState /\ x.pc = "vmstate" /\ x.artifact \in Artifact
          /\ x.evidence = e /\ x.artifact = cmd[c].artifact
      BY <2>2, <3>1 DEF CmdState
    <3>4. EvidenceIsOf(x.evidence, x.tag, x.artifact)
      BY <3>3 DEF EvidenceIsOf, e
    <3> HIDE DEF x
    <3> QED
      BY <1>t, <2>1, <3>2, <3>3, <3>4, CmdMoves DEF FsInv, FsTypes
  <2> QED
    BY <2>3, <2>4
<1>7. ASSUME NEW c \in Command, MeasureState(c) PROVE FsInv'
  <2>1. Others /\ UNCHANGED record
    BY <1>7 DEF MeasureState
  <2>2. /\ cmd[c] \in CmdState /\ cmd[c].pc = "vmstate" /\ cmd[c].artifact \in Artifact
        /\ EvidenceIsOf(cmd[c].evidence, cmd[c].tag, cmd[c].artifact)
    BY <1>7, <1>t DEF MeasureState, FsTypes, FsInv, BindersBind, EvidenceInv, TagOf
  <2>3. CASE Ends(c, "fail")
    BY <1>t, <2>1, <2>3, EndSteps DEF FsInv, FsTypes
  <2>4. CASE ~Ends(c, "fail")
    <3> DEFINE e == [cmd[c].evidence EXCEPT !.state = disk[cmd[c].artifact.tag].state]
               x == [cmd[c] EXCEPT !.pc = "write", !.evidence = e]
    <3>1. e \in Evidence /\ e.tag = cmd[c].evidence.tag
      BY <2>2, <1>t DEF FsTypes, Artifact, Evidence, CmdState
    <3>2. cmd' = [cmd EXCEPT ![c] = x]
      <4>1. cmd' = [cmd EXCEPT ![c].pc = "write",
                               ![c].evidence.state = disk[cmd[c].artifact.tag].state]
        BY <1>7, <2>4 DEF MeasureState
      <4> QED
        BY <1>t, <2>2, <4>1 DEF FsTypes, CmdState, Evidence
    <3> HIDE DEF e
    <3>3. x \in CmdState /\ x.pc = "write" /\ x.artifact = cmd[c].artifact
          /\ x.evidence = e /\ x.tag = cmd[c].tag
      BY <2>2, <3>1 DEF CmdState
    <3>4. EvidenceIsOf(x.evidence, x.tag, x.artifact)
      BY <2>2, <3>1, <3>3 DEF EvidenceIsOf
    <3> HIDE DEF x
    <3> QED
      BY <1>t, <2>1, <2>2, <3>2, <3>3, <3>4, CmdMoves DEF FsInv, FsTypes
  <2> QED
    BY <2>3, <2>4
<1>8. ASSUME NEW c \in Command, BindWrite(c) PROVE FsInv'
  <2>1. Others
    BY <1>8 DEF BindWrite
  <2>2. /\ cmd[c] \in CmdState /\ cmd[c].pc = "write" /\ cmd[c].artifact \in Artifact
        /\ EvidenceIsOf(cmd[c].evidence, cmd[c].tag, cmd[c].artifact)
    BY <1>8, <1>t DEF BindWrite, FsTypes, FsInv, BindersBind, EvidenceInv, TagOf
  <2>3. CASE Ends(c, "fail") /\ UNCHANGED record
    BY <1>t, <2>1, <2>3, EndSteps DEF FsInv, FsTypes
  <2>4. CASE Goto(c, "bound") /\ ~UNCHANGED record
    <3> DEFINE x == [cmd[c] EXCEPT !.pc = "bound"]
               ok == Verified(cmd[c].evidence, cmd[c].artifact)
    <3>1. x \in CmdState /\ x.pc = "bound" /\ x.artifact \in Artifact
      BY <2>2 DEF CmdState
    <3>2. cmd' = [cmd EXCEPT ![c] = x]
      BY <2>4 DEF Goto
    <3>3. PICK digest \in {daemon[TagOf(c)].ver, cmd[c].evidence.mem} :
            record' = [tag |-> TagOf(c), artifact |-> cmd[c].artifact,
                       evidence |-> cmd[c].evidence, digest |-> digest,
                       verification |-> IF ok THEN "verified" ELSE "partial"]
      BY <1>8, <2>4 DEF BindWrite
    <3>4. digest \in Ver
      BY <1>t, <2>2 DEF FsTypes, CmdState, Evidence, TagOf
    <3>5. record' \in Binding
      BY <2>2, <3>3, <3>4 DEF Binding, CmdState, TagOf
    <3>6. /\ EvidenceIsOf(record'.evidence, record'.tag, record'.artifact)
          /\ record'.verification = "verified" => Verified(record'.evidence, record'.artifact)
      BY <2>2, <3>3 DEF TagOf
    <3> HIDE DEF x
    <3>7. cmd' \in [Command -> CmdState] /\ cmd'[c] = x /\ \A d \in Command \ {c} : cmd'[d] = cmd[d]
      BY <1>t, <3>1, <3>2 DEF FsTypes
    <3>8. EvidenceInv'
      BY <3>1, <3>6, <3>7 DEF FsInv, EvidenceInv, TagOf
    <3>9. BindersBind' /\ AcceptedIsBacked'
      BY <3>1, <3>7 DEF FsInv, BindersBind, AcceptedIsBacked, TagOf
    <3>10. CopiesWhole'
      BY <2>1, <3>1, <3>7 DEF FsInv, CopiesWhole
    <3> QED
      BY <1>t, <2>1, <3>5, <3>7, <3>8, <3>9, <3>10 DEF FsInv, FsTypes
  <2>5. CASE Goto(c, "bound") /\ UNCHANGED record
    <3> DEFINE x == [cmd[c] EXCEPT !.pc = "bound"]
    <3>1. x \in CmdState /\ x.pc = "bound" /\ x.artifact \in Artifact
      BY <2>2 DEF CmdState
    <3>2. cmd' = [cmd EXCEPT ![c] = x]
      BY <2>5 DEF Goto
    <3> HIDE DEF x
    <3> QED
      BY <1>t, <2>1, <2>5, <3>1, <3>2, CmdMoves DEF FsInv, FsTypes
  <2> QED
    BY <1>8, <2>3, <2>4, <2>5 DEF BindWrite
<1>9. ASSUME NEW c \in Command, Accept(c) PROVE FsInv'
  <2>1. Others /\ UNCHANGED record
    BY <1>9 DEF Accept
  <2>2. cmd[c] \in CmdState /\ cmd[c].pc = "bound" /\ cmd[c].artifact \in Artifact
    BY <1>9, <1>t DEF Accept, FsTypes, FsInv, BindersBind
  <2>3. CASE Loads(TagOf(c), cmd[c].artifact)
    <3> DEFINE x == [cmd[c] EXCEPT !.pc = "accept", !.res = record.verification,
                                   !.evidence = record.evidence]
    <3>1. record \in Binding /\ record # Nothing
      BY <1>t, <2>3 DEF FsTypes, Loads
    <3>2. cmd' = [cmd EXCEPT ![c] = x]
      BY <1>9, <2>3 DEF Accept
    <3>3. /\ x \in CmdState /\ x.pc = "accept" /\ x.artifact = cmd[c].artifact
          /\ x.tag = cmd[c].tag /\ x.evidence = record.evidence /\ x.res = record.verification
      BY <2>2, <3>1 DEF CmdState, Binding
    <3>4. x.res = "verified" => /\ x.evidence.tag = x.tag /\ x.evidence.mem = x.artifact.ver
                                /\ x.evidence.state = x.artifact.ver
      BY <2>3, <3>1, <3>3 DEF FsInv, EvidenceInv, EvidenceIsOf, Verified, Loads, TagOf
    <3> HIDE DEF x
    <3> QED
      BY <1>t, <2>1, <2>2, <3>2, <3>3, <3>4, CmdMoves DEF FsInv, FsTypes
  <2>4. CASE ~Loads(TagOf(c), cmd[c].artifact)
    <3> DEFINE x == [cmd[c] EXCEPT !.pc = "accept", !.res = "refused"]
    <3>1. x \in CmdState /\ x.pc = "accept" /\ x.artifact \in Artifact /\ x.res = "refused"
      BY <2>2 DEF CmdState
    <3>2. cmd' = [cmd EXCEPT ![c] = x]
      BY <1>9, <2>4 DEF Accept
    <3> HIDE DEF x
    <3> QED
      BY <1>t, <2>1, <3>1, <3>2, CmdMoves DEF FsInv, FsTypes
  <2> QED
    BY <2>3, <2>4
<1>10. CASE UNCHANGED fsvars
  BY <1>10
     DEF fsvars, FsInv, FsTypes, BindersBind, EvidenceInv, AcceptedIsBacked, CopiesWhole, TagOf
<1> QED
  BY <1>1, <1>2, <1>3, <1>4, <1>5, <1>6, <1>7, <1>8, <1>9, <1>10 DEF FsNext

\* However many creates, deletes, binds and acceptances run side by side on however many
\* tags: no snapshot is booted from a half-written copy, and an acceptance that calls its
\* snapshot verified rests on the digests of that tag's memory and device state
\* (snapshot_paths.rs copy_rootfs_to, binding.rs snapshot_bind, load_snapshot_binding).
THEOREM BindingsBacked == FsSpec => []SnapshotsBacked
<1>1. FsInv => SnapshotsBacked
  BY DEF FsInv, FsTypes, SnapshotsBacked, CopyWhole
<1> QED
  BY <1>1, FsInvInit, FsStep, PTL DEF FsSpec

-----------------------------------------------------------------------------
(* The forkd guest client *)

AgentLine == [kind : {"authok", "answer", "error"}, op : 0..MaxCalls]
AgentEnd == [srv : {"none", "backlog", "auth", "serve", "run", "closed"}, up : Seq(0..Auth),
             down : Seq(AgentLine), op : 0..MaxCalls, warm : BOOLEAN]
Busy == {"auth", "sent"}

FgTypes ==
  /\ calls \in 0..MaxCalls /\ aopened \in 0..MaxOpen
  /\ gtask \in [Task -> [at : {"idle", "pick", "auth", "sent"}, op : 0..MaxCalls,
                         conn : 0..MaxOpen]]
  /\ apool \in Seq(AgentConn)
  /\ aconn \in [AgentConn -> AgentEnd]
  /\ ran \in [GuestCall -> Nat] /\ got \in [GuestCall -> 0..MaxCalls]

\* A connection with nothing under way in either direction.
Quiet(x) == x.srv = "serve" /\ x.up = <<>> /\ x.down = <<>>

\* A connection that carries request o: on its way, running, answered or refused.
Carries(x, o) ==
  \/ x.srv \in {"backlog", "auth", "serve"} /\ x.up = <<o>> /\ x.down = <<>>
  \/ x.srv = "run" /\ x.op = o /\ x.up = <<>> /\ x.down = <<>>
  \/ /\ x.srv = "serve" /\ x.up = <<>>
     /\ \E kind \in {"answer", "error"} : x.down = <<Line(kind, o)>>
  \/ x.srv = "closed" /\ x.up = <<o>> /\ x.down = <<Line("error", 0)>>

\* A connection whose auth line is on its way, was taken or was refused.
Greets(x) ==
  \/ x.srv \in {"backlog", "auth", "serve"} /\ x.up = <<Auth>> /\ x.down = <<>>
  \/ x.srv = "serve" /\ x.up = <<>> /\ x.down \in {<<Line("authok", 0)>>, <<Line("error", 0)>>}
  \/ x.srv = "closed" /\ x.up = <<Auth>> /\ x.down = <<Line("error", 0)>>

\* A connection the client has closed.
Left(x) == x.up = <<Eof>> \/ \E r \in 1..Auth : x.up = <<r, Eof>>

\* Every connection is unopened, in the pool once, with one task, or closed.
Owned ==
  /\ \A i, j \in DOMAIN apool : apool[i] = apool[j] => i = j
  /\ Range(apool) \subseteq 1..aopened
  /\ \A t \in Task : gtask[t].at \in Busy =>
       gtask[t].conn \in 1..aopened /\ gtask[t].conn \notin Range(apool)
  /\ \A t, u \in Task : gtask[t].at \in Busy /\ gtask[u].at \in Busy
       /\ gtask[t].conn = gtask[u].conn => t = u

\* What is on a connection is its owner's.
Shapes ==
  /\ \A k \in AgentConn : k > aopened => aconn[k] = NoConn
  /\ \A k \in Range(apool) : Quiet(aconn[k])
  /\ \A t \in Task : /\ gtask[t].at = "sent" => Carries(aconn[gtask[t].conn], gtask[t].op)
                     /\ gtask[t].at = "auth" => Greets(aconn[gtask[t].conn])
  /\ \A k \in 1..aopened :
       k \notin Range(apool) /\ (\A t \in Task : gtask[t].at \in Busy => gtask[t].conn # k)
         => Left(aconn[k])

\* The request o waits in connection k.
Waits(x, o) == x.up # <<>> /\ x.up[1] = o

\* A request that is still to be sent, or waits, has not run and waits nowhere else.
Once ==
  /\ \A o \in GuestCall : ran[o] <= 1 /\ (o > calls => ran[o] = 0)
  /\ \A k \in AgentConn : \A o \in GuestCall :
       Waits(aconn[k], o) => /\ o <= calls /\ ran[o] = 0
                             /\ \A l \in AgentConn : Waits(aconn[l], o) => l = k
  /\ \A t \in Task : gtask[t].at # "idle" => gtask[t].op \in 1..calls
  /\ \A t \in Task : gtask[t].at \in {"pick", "auth"} =>
       ran[gtask[t].op] = 0 /\ \A k \in AgentConn : ~Waits(aconn[k], gtask[t].op)
  /\ \A t, u \in Task : gtask[t].at # "idle" /\ gtask[u].at # "idle"
       /\ gtask[t].op = gtask[u].op => t = u

\* Without its token nobody is served by a gated agent.
Guarded ==
  gated /\ token # "good" =>
    /\ \A k \in AgentConn : aconn[k].srv \notin {"serve", "run"}
    /\ \A o \in GuestCall : ran[o] = 0

FgInv == FgTypes /\ Owned /\ Shapes /\ Once /\ Guarded /\ WarmAnswersOwn

-----------------------------------------------------------------------------

\* Single, Double, Rest sequences.
LEMMA Single ==
  ASSUME NEW a
  PROVE  /\ <<a>> # <<>> /\ Head(<<a>>) = a /\ <<a>>[1] = a
         /\ Tail(<<a>>) = <<>> /\ Append(<<>>, a) = <<a>>
OBVIOUS

LEMMA Double ==
  ASSUME NEW a, NEW b
  PROVE  <<a, b>> # <<>> /\ Head(<<a, b>>) = a /\ <<a, b>>[1] = a
OBVIOUS

LEMMA Rest == ASSUME NEW a, NEW b PROVE Tail(<<a, b>>) = <<b>>
OBVIOUS

LEMMA Longer == ASSUME NEW a, NEW b PROVE Append(<<a>>, b) = <<a, b>>
<1> DEFINE S == {a, b}
<1>1. <<a>> \in Seq(S) /\ <<a, b>> \in Seq(S) /\ b \in S
  OBVIOUS
<1>2. Len(<<a>>) = 1 /\ Len(<<a, b>>) = 2 /\ <<a>>[1] = a
  OBVIOUS
<1>3. <<a, b>>[1] = a /\ <<a, b>>[2] = b
  OBVIOUS
<1> HIDE DEF S
<1>4. /\ Append(<<a>>, b) \in Seq(S) /\ Len(Append(<<a>>, b)) = 2
      /\ Append(<<a>>, b)[1] = a /\ Append(<<a>>, b)[2] = b
  BY <1>1, <1>2, AppendProperties
<1>5. \A i \in 1..Len(Append(<<a>>, b)) : Append(<<a>>, b)[i] = <<a, b>>[i]
  BY <1>3, <1>4
<1> QED
  BY <1>1, <1>2, <1>4, <1>5, SeqEqual

\* A line is an element of its type.
LEMMA LineType ==
  ASSUME NEW x \in AgentEnd, NEW kind \in {"authok", "answer", "error"}, NEW o \in 0..MaxCalls
  PROVE  Append(x.down, Line(kind, o)) \in Seq(AgentLine)
<1>1. Line(kind, o) \in AgentLine
  BY DEF Line, AgentLine
<1> QED
  BY <1>1 DEF AgentEnd

\* The agent's end of one connection changes, and what it was to its owner it stays.
LEMMA AgentEndMoves ==
  ASSUME FgInv, NEW k \in AgentConn, NEW y \in AgentEnd, aconn' = [aconn EXCEPT ![k] = y],
         UNCHANGED <<gtask, apool, aopened>>,
         aconn[k] # NoConn,
         Quiet(aconn[k]) => Quiet(y),
         \A o \in GuestCall : Carries(aconn[k], o) => Carries(y, o),
         Greets(aconn[k]) => Greets(y),
         Left(aconn[k]) => Left(y)
  PROVE  aconn' \in [AgentConn -> AgentEnd] /\ Owned' /\ Shapes'
<1>1. aconn' \in [AgentConn -> AgentEnd] /\ aconn'[k] = y
      /\ \A l \in AgentConn \ {k} : aconn'[l] = aconn[l]
  BY DEF FgInv, FgTypes
<1>2. Owned'
  BY DEF FgInv, Owned
<1>3. \A l \in AgentConn : l > aopened => aconn'[l] = NoConn
  BY <1>1 DEF FgInv, Shapes
<1>4. \A l \in Range(apool) : Quiet(aconn'[l])
  <2>1. Range(apool) \subseteq AgentConn
    BY DEF FgInv, FgTypes, Range
  <2> QED
    BY <1>1, <2>1 DEF FgInv, Shapes
<1>5. \A t \in Task : /\ gtask[t].at = "sent" => Carries(aconn'[gtask[t].conn], gtask[t].op)
                      /\ gtask[t].at = "auth" => Greets(aconn'[gtask[t].conn])
  <2> SUFFICES ASSUME NEW t \in Task
               PROVE  /\ gtask[t].at = "sent" => Carries(aconn'[gtask[t].conn], gtask[t].op)
                      /\ gtask[t].at = "auth" => Greets(aconn'[gtask[t].conn])
    OBVIOUS
  <2>1. gtask[t].at \in Busy => gtask[t].conn \in AgentConn /\ gtask[t].op \in GuestCall
    BY FgAssumption DEF FgInv, Owned, FgTypes, Once, Busy, AgentConn, GuestCall
  <2> QED
    BY <1>1, <2>1 DEF FgInv, Shapes, Busy
<1>6. \A l \in 1..aopened :
        l \notin Range(apool) /\ (\A t \in Task : gtask[t].at \in Busy => gtask[t].conn # l)
          => Left(aconn'[l])
  <2>1. 1..aopened \subseteq AgentConn
    BY FgAssumption DEF FgInv, FgTypes, AgentConn
  <2> QED
    BY <1>1, <2>1 DEF FgInv, Shapes
<1> QED
  BY <1>1, <1>2, <1>3, <1>4, <1>5, <1>6 DEF Shapes

\* What a connection may be.
LEMMA Classes ==
  ASSUME FgInv, NEW k \in AgentConn
  PROVE  \/ \E t \in Task : gtask[t].at = "sent" /\ Carries(aconn[k], gtask[t].op)
         \/ Greets(aconn[k]) \/ Left(aconn[k]) \/ Quiet(aconn[k]) \/ aconn[k] = NoConn
<1>1. CASE k > aopened
  BY <1>1 DEF FgInv, Shapes
<1>2. CASE ~(k > aopened) /\ k \in Range(apool)
  BY <1>2 DEF FgInv, Shapes
<1>3. CASE \E t \in Task : gtask[t].at \in Busy /\ gtask[t].conn = k
  BY <1>3 DEF FgInv, Shapes, Busy
<1>4. CASE ~(k > aopened) /\ k \notin Range(apool)
           /\ \A t \in Task : gtask[t].at \in Busy => gtask[t].conn # k
  <2>1. k \in 1..aopened
    BY <1>4, FgAssumption DEF FgInv, FgTypes, AgentConn
  <2> QED
    BY <1>4, <2>1 DEF FgInv, Shapes
<1> QED
  BY <1>1, <1>2, <1>3, <1>4

\* Nothing comes to wait that did not wait, and nothing runs.
LEMMA NothingNewWaits ==
  ASSUME FgInv, UNCHANGED <<gtask, calls, ran>>,
         \A l \in AgentConn : \A o \in GuestCall : Waits(aconn'[l], o) => Waits(aconn[l], o)
  PROVE  Once'
<1>1. \A t \in Task : gtask[t].at # "idle" => gtask[t].op \in GuestCall
  BY DEF FgInv, Once, FgTypes, GuestCall
<1> QED
  BY <1>1 DEF FgInv, Once

\* A connection ages in the pool.
LEMMA AgesKeeps == ASSUME FgInv, NEW k \in AgentConn, Ages(k) PROVE FgInv'
<1> DEFINE y == [aconn[k] EXCEPT !.warm = FALSE]
<1>1. aconn[k] \in AgentEnd
  BY DEF FgInv, FgTypes
<1>2. y \in AgentEnd /\ y.srv = aconn[k].srv /\ y.up = aconn[k].up /\ y.down = aconn[k].down
      /\ y.op = aconn[k].op
  BY <1>1 DEF AgentEnd
<1>3. aconn' = [aconn EXCEPT ![k] = y]
  BY DEF Ages
<1>4. aconn[k] # NoConn
  <2>1. Quiet(aconn[k])
    BY DEF Ages, FgInv, Shapes
  <2> QED
    BY <2>1 DEF Quiet, NoConn
<1> HIDE DEF y
<1>5. /\ Quiet(aconn[k]) => Quiet(y)
      /\ \A o \in GuestCall : Carries(aconn[k], o) => Carries(y, o)
      /\ Greets(aconn[k]) => Greets(y)
      /\ Left(aconn[k]) => Left(y)
  BY <1>2 DEF Quiet, Carries, Greets, Left
<1>8. aconn' \in [AgentConn -> AgentEnd] /\ Owned' /\ Shapes'
  BY <1>2, <1>3, <1>4, <1>5, AgentEndMoves DEF Ages
<1>6. \A l \in AgentConn : aconn'[l].up = aconn[l].up /\ aconn'[l].srv = aconn[l].srv
  BY <1>2, <1>3 DEF FgInv, FgTypes
<1>7. Once'
  BY <1>6, NothingNewWaits DEF Ages, Waits
<1> QED
  BY <1>6, <1>7, <1>8 DEF Ages, FgInv, FgTypes, Guarded, WarmAnswersOwn

\* A permit is free for the connection that has waited longest.
LEMMA AcceptsKeeps == ASSUME FgInv, NEW k \in AgentConn, AgentAccepts(k) PROVE FgInv'
<1> DEFINE y == [aconn[k] EXCEPT !.srv = IF gated THEN "auth" ELSE "serve"]
<1>1. aconn[k] \in AgentEnd /\ aconn[k].srv = "backlog"
  BY DEF FgInv, FgTypes, AgentAccepts
<1>2. /\ y \in AgentEnd /\ y.srv = IF gated THEN "auth" ELSE "serve"
      /\ y.up = aconn[k].up /\ y.down = aconn[k].down /\ y.op = aconn[k].op
  BY <1>1 DEF AgentEnd
<1>3. aconn' = [aconn EXCEPT ![k] = y]
  BY DEF AgentAccepts
<1> HIDE DEF y
<1>8. aconn[k] # NoConn
  BY <1>1 DEF NoConn
<1>9. /\ Quiet(aconn[k]) => Quiet(y)
      /\ \A o \in GuestCall : Carries(aconn[k], o) => Carries(y, o)
      /\ Greets(aconn[k]) => Greets(y)
      /\ Left(aconn[k]) => Left(y)
  BY <1>1, <1>2 DEF Quiet, Carries, Greets, Left
<1>4. aconn' \in [AgentConn -> AgentEnd] /\ Owned' /\ Shapes'
  BY <1>2, <1>3, <1>8, <1>9, AgentEndMoves DEF AgentAccepts
<1>5. /\ \A l \in AgentConn : aconn'[l].up = aconn[l].up
      /\ aconn'[k] = y /\ \A l \in AgentConn \ {k} : aconn'[l] = aconn[l]
  BY <1>2, <1>3 DEF FgInv, FgTypes
<1>6. Once'
  BY <1>5, NothingNewWaits DEF AgentAccepts, Waits
<1>7. Guarded'
  BY <1>2, <1>5 DEF AgentAccepts, FgInv, Guarded
<1> QED
  BY <1>4, <1>6, <1>7 DEF AgentAccepts, FgInv, FgTypes, WarmAnswersOwn

\* The first line is checked.
LEMMA TokenKeeps == ASSUME FgInv, NEW k \in AgentConn, CheckToken(k) PROVE FgInv'
<1> DEFINE x == aconn[k]
<1>1. x \in AgentEnd /\ x.srv = "auth"
  BY DEF FgInv, FgTypes, CheckToken
<1>2. \E y \in AgentEnd : aconn' = [aconn EXCEPT ![k] = y] /\ y.op = x.op
        /\ \/ /\ x.up # <<>> /\ Head(x.up) = Auth /\ token = "good"
              /\ y.srv = "serve" /\ y.up = Tail(x.up) /\ y.down = Append(x.down, Line("authok", 0))
           \/ /\ x.up # <<>> /\ y.srv = "closed" /\ y.up = x.up
              /\ y.down = Append(x.down, Line("error", 0))
           \/ x.up = <<>> /\ y.srv = "closed" /\ y.up = x.up /\ y.down = x.down
  <2>1. CASE x.up # <<>> /\ Head(x.up) = Auth /\ token = "good"
    <3> DEFINE y == [x EXCEPT !.srv = "serve", !.up = Tail(@), !.down = Append(@, Line("authok", 0))]
    <3>1. y \in AgentEnd
      <4>1. Tail(x.up) \in Seq(0..Auth)
        <5>1. x.up \in Seq(0..Auth)
          BY <1>1 DEF AgentEnd
        <5> HIDE DEF x
        <5> QED
          BY <2>1, <5>1, HeadTailProperties
      <4>2. Append(x.down, Line("authok", 0)) \in Seq(AgentLine)
        <5>1. 0 \in 0..MaxCalls
          BY FgAssumption
        <5> HIDE DEF x
        <5> QED
          BY <1>1, <5>1, LineType
      <4> QED
        BY <1>1, <4>1, <4>2 DEF AgentEnd
    <3>2. aconn' = [aconn EXCEPT ![k] = y]
      BY <2>1 DEF CheckToken
    <3> QED
      BY <1>1, <2>1, <3>1, <3>2 DEF AgentEnd
  <2>2. CASE x.up # <<>> /\ ~(Head(x.up) = Auth /\ token = "good")
    <3> DEFINE y == [x EXCEPT !.srv = "closed", !.down = Append(@, Line("error", 0))]
    <3>1. y \in AgentEnd
      <4>1. Append(x.down, Line("error", 0)) \in Seq(AgentLine)
        <5>1. 0 \in 0..MaxCalls
          BY FgAssumption
        <5> HIDE DEF x
        <5> QED
          BY <1>1, <5>1, LineType
      <4> QED
        BY <1>1, <4>1 DEF AgentEnd
    <3>2. aconn' = [aconn EXCEPT ![k] = y]
      BY <2>2 DEF CheckToken
    <3> QED
      BY <1>1, <2>2, <3>1, <3>2 DEF AgentEnd
  <2>3. CASE x.up = <<>>
    <3> DEFINE y == [x EXCEPT !.srv = "closed"]
    <3>1. y \in AgentEnd
      BY <1>1 DEF AgentEnd
    <3>2. aconn' = [aconn EXCEPT ![k] = y]
      BY <2>3 DEF CheckToken
    <3> QED
      BY <1>1, <2>3, <3>1, <3>2 DEF AgentEnd
  <2> QED
    BY <2>1, <2>2, <2>3
<1>3. PICK y \in AgentEnd : aconn' = [aconn EXCEPT ![k] = y] /\ y.op = x.op
        /\ \/ /\ x.up # <<>> /\ Head(x.up) = Auth /\ token = "good"
              /\ y.srv = "serve" /\ y.up = Tail(x.up) /\ y.down = Append(x.down, Line("authok", 0))
           \/ /\ x.up # <<>> /\ y.srv = "closed" /\ y.up = x.up
              /\ y.down = Append(x.down, Line("error", 0))
           \/ x.up = <<>> /\ y.srv = "closed" /\ y.up = x.up /\ y.down = x.down
  BY <1>2
<1>4. x # NoConn /\ ~Quiet(x)
  BY <1>1 DEF NoConn, Quiet
<1>5. \A o \in GuestCall : Carries(x, o) => Carries(y, o)
  <2> SUFFICES ASSUME NEW o \in GuestCall, Carries(x, o) PROVE Carries(y, o)
    OBVIOUS
  <2>1. x.up = <<o>> /\ x.down = <<>>
    BY <1>1 DEF Carries
  <2>2. Head(x.up) # Auth /\ Append(x.down, Line("error", 0)) = <<Line("error", 0)>>
    BY <2>1, Single, Double, Rest, FgAssumption DEF GuestCall, Auth
  <2> QED
    BY <1>3, <2>1, <2>2, Single, Double, Rest DEF Carries
<1>6. Greets(x) => Greets(y)
  <2> SUFFICES ASSUME Greets(x) PROVE Greets(y)
    OBVIOUS
  <2>1. x.up = <<Auth>> /\ x.down = <<>>
    BY <1>1 DEF Greets
  <2>2. /\ Tail(x.up) = <<>> /\ x.up # <<>>
        /\ Append(x.down, Line("error", 0)) = <<Line("error", 0)>>
        /\ Append(x.down, Line("authok", 0)) = <<Line("authok", 0)>>
    BY <2>1, Single, Double, Rest
  <2> QED
    BY <1>3, <2>1, <2>2 DEF Greets
<1>7. Left(x) => Left(y)
  <2> SUFFICES ASSUME Left(x) PROVE Left(y)
    OBVIOUS
  <2>1. CASE y.up = x.up
    BY <2>1 DEF Left
  <2>2. CASE Head(x.up) = Auth /\ y.up = Tail(x.up)
    <3>1. x.up # <<Eof>>
      BY <2>2, Single, Double, Rest, FgAssumption DEF Eof, Auth
    <3>2. PICK r \in 1..Auth : x.up = <<r, Eof>>
      BY <3>1 DEF Left
    <3>3. Tail(x.up) = <<Eof>>
      BY <3>2, Single, Double, Rest
    <3> QED
      BY <2>2, <3>3 DEF Left
  <2> QED
    BY <1>3, <2>1, <2>2
<1>8. \A o \in GuestCall : Waits(y, o) => Waits(x, o)
  <2> SUFFICES ASSUME NEW o \in GuestCall, Waits(y, o), x.up # <<>>, Head(x.up) = Auth,
                      y.up = Tail(x.up)
               PROVE  FALSE
    BY <1>3 DEF Waits
  <2> HIDE DEF x
  <2>1. \/ \E t \in Task : gtask[t].at = "sent" /\ Carries(x, gtask[t].op)
        \/ Greets(x) \/ Left(x) \/ Quiet(x) \/ x = NoConn
    BY Classes DEF x
  <2>2. CASE \E t \in Task : gtask[t].at = "sent" /\ Carries(x, gtask[t].op)
    <3>1. PICK t \in Task : gtask[t].at = "sent" /\ Carries(x, gtask[t].op)
      BY <2>2
    <3>2. x.up = <<gtask[t].op>> /\ gtask[t].op \in GuestCall
      BY <1>1, <3>1 DEF Carries, FgInv, Once, FgTypes, GuestCall
    <3> QED
      BY <3>2, Single, Double, Rest, FgAssumption DEF GuestCall, Auth
  <2>3. CASE Greets(x)
    <3>1. x.up = <<Auth>>
      BY <1>1, <2>3 DEF Greets
    <3> QED
      BY <3>1, Single, Double, Rest DEF Waits
  <2>4. CASE Left(x)
    <3>1. x.up # <<Eof>>
      BY Single, Double, Rest, FgAssumption DEF Eof, Auth
    <3>2. PICK r \in 1..Auth : x.up = <<r, Eof>>
      BY <2>4, <3>1 DEF Left
    <3> QED
      BY <3>2, Single, Double, Rest, FgAssumption DEF Waits, Eof, GuestCall
  <2> QED
    BY <1>1, <1>4, <2>1, <2>2, <2>3, <2>4 DEF x
<1>9. aconn' \in [AgentConn -> AgentEnd] /\ Owned' /\ Shapes'
  BY <1>3, <1>4, <1>5, <1>6, <1>7, AgentEndMoves DEF CheckToken
<1>10. aconn'[k] = y /\ \A l \in AgentConn \ {k} : aconn'[l] = aconn[l]
  BY <1>3 DEF FgInv, FgTypes
<1>11. Once'
  BY <1>8, <1>10, NothingNewWaits DEF CheckToken
<1>12. Guarded'
  BY <1>3, <1>10 DEF CheckToken, FgInv, Guarded
<1> QED
  BY <1>9, <1>11, <1>12 DEF CheckToken, FgInv, FgTypes, WarmAnswersOwn

\* Behind the first line of a connection nothing waits but the end of the stream.
LEMMA LastLine ==
  ASSUME FgInv, NEW k \in AgentConn, aconn[k].up # <<>>
  PROVE  \/ Tail(aconn[k].up) = <<>> /\ \E r \in 0..Auth : aconn[k].up = <<r>>
         \/ Tail(aconn[k].up) = <<Eof>> /\ \E r \in 1..Auth : aconn[k].up = <<r, Eof>>
<1> DEFINE x == aconn[k]
<1>1. CASE \E t \in Task : gtask[t].at = "sent" /\ Carries(x, gtask[t].op)
  <2>1. PICK t \in Task : gtask[t].at = "sent" /\ Carries(x, gtask[t].op)
    BY <1>1
  <2>2. x.up = <<gtask[t].op>> /\ gtask[t].op \in 0..Auth
    BY <2>1, FgAssumption DEF Carries, FgInv, Once, FgTypes, Auth
  <2> QED
    BY <2>2, Single
<1>2. CASE Greets(x)
  <2>1. x.up = <<Auth>> /\ Auth \in 0..Auth
    BY <1>2, FgAssumption DEF Greets, Auth
  <2> QED
    BY <2>1, Single
<1>3. CASE x.up = <<Eof>>
  <2>1. Eof \in 0..Auth
    BY FgAssumption DEF Eof, Auth
  <2> QED
    BY <1>3, <2>1, Single
<1>4. CASE \E r \in 1..Auth : x.up = <<r, Eof>>
  BY <1>4, Rest
<1> QED
  BY <1>1, <1>2, <1>3, <1>4, Classes DEF Left, Quiet, NoConn

LEMMA TailWaitsNot ==
  ASSUME FgInv, NEW k \in AgentConn, aconn[k].up # <<>>, NEW o \in GuestCall
  PROVE  ~(Tail(aconn[k].up) # <<>> /\ Tail(aconn[k].up)[1] = o)
BY LastLine, Single, FgAssumption DEF Eof, GuestCall

\* The agent takes a line.
LEMMA DispatchKeeps == ASSUME FgInv, NEW k \in AgentConn, Dispatch(k) PROVE FgInv'
<1> DEFINE x == aconn[k]
           r == Head(x.up)
<1>1. x \in AgentEnd /\ x.srv = "serve" /\ x.up # <<>> /\ x.up \in Seq(0..Auth)
  BY DEF FgInv, FgTypes, Dispatch, AgentEnd
<1>2. r \in 0..Auth /\ Tail(x.up) \in Seq(0..Auth)
  BY <1>1, HeadTailProperties
<1>3. x # NoConn /\ ~Quiet(x)
  BY <1>1 DEF NoConn, Quiet
<1>4. ~(gated /\ token # "good")
  BY <1>1 DEF FgInv, Guarded
<1>5. \A o \in GuestCall : Carries(x, o) => x.up = <<o>> /\ r = o /\ x.down = <<>>
  BY <1>1, Single DEF Carries
<1>6. Greets(x) => x.up = <<Auth>> /\ r = Auth /\ x.down = <<>>
  BY <1>1, Single DEF Greets
<1>7. Left(x) => r = Eof \/ Tail(x.up) = <<Eof>>
  <2>1. x.up = <<Eof>> => r = Eof
    BY Single
  <2>2. \A q \in 1..Auth : x.up = <<q, Eof>> => Tail(x.up) = <<Eof>>
    BY Rest
  <2> QED
    BY <2>1, <2>2 DEF Left
<1>8. CASE r \in GuestCall
  <2> DEFINE y == [x EXCEPT !.srv = "run", !.up = Tail(@), !.op = r]
  <2>1. /\ y \in AgentEnd /\ y.srv = "run" /\ y.up = Tail(x.up) /\ y.down = x.down /\ y.op = r
    <3>1. r \in 0..MaxCalls
      BY <1>8, FgAssumption DEF GuestCall
    <3> HIDE DEF r
    <3> QED
      BY <1>1, <1>2, <3>1 DEF AgentEnd
  <2>2. aconn' = [aconn EXCEPT ![k] = y] /\ ran' = [ran EXCEPT ![r] = @ + 1]
    BY <1>8 DEF Dispatch
  <2> HIDE DEF y
  <2>3. \A o \in GuestCall : Carries(x, o) => Carries(y, o)
    BY <1>5, <2>1, Single DEF Carries
  <2>4. ~Greets(x)
    BY <1>6, <1>8, FgAssumption DEF Auth, GuestCall
  <2>5. Left(x) => Left(y)
    BY <1>7, <1>8, <2>1 DEF Left, Eof, GuestCall
  <2>6. aconn' \in [AgentConn -> AgentEnd] /\ Owned' /\ Shapes'
    BY <1>3, <2>1, <2>2, <2>3, <2>4, <2>5, AgentEndMoves DEF Dispatch
  <2>7. aconn'[k] = y /\ \A l \in AgentConn \ {k} : aconn'[l] = aconn[l]
    BY <2>2 DEF FgInv, FgTypes
  <2>8. \A o \in GuestCall : ~Waits(y, o)
    BY <1>1, <2>1, TailWaitsNot DEF Waits
  <2>9. Waits(x, r)
    BY <1>1 DEF Waits
  <2>10. ran[r] = 0 /\ r <= calls /\ \A l \in AgentConn \ {k} : ~Waits(aconn[l], r)
    BY <1>8, <2>9 DEF FgInv, Once
  <2>11. ran' \in [GuestCall -> Nat] /\ ran'[r] = 1 /\ \A o \in GuestCall \ {r} : ran'[o] = ran[o]
    BY <1>8, <2>2, <2>10 DEF FgInv, FgTypes
  <2>12. \A t \in Task : gtask[t].at \in {"pick", "auth"} => gtask[t].op # r
    BY <2>9 DEF FgInv, Once
  <2>13. Once'
    <3>1. calls' = calls /\ gtask' = gtask /\ calls \in Int /\ GuestCall \subseteq Int /\ r \in Int
      BY <1>8 DEF Dispatch, FgInv, FgTypes, GuestCall
    <3>2. \A o \in GuestCall : ran'[o] <= 1 /\ (o > calls' => ran'[o] = 0)
      BY <2>10, <2>11, <3>1 DEF FgInv, Once
    <3>3. \A l \in AgentConn : \A o \in GuestCall :
            Waits(aconn'[l], o) => l # k /\ o # r /\ Waits(aconn[l], o)
      BY <2>7, <2>8, <2>10
    <3>4. \A l \in AgentConn : \A o \in GuestCall :
            Waits(aconn'[l], o) => /\ o <= calls' /\ ran'[o] = 0
                                   /\ \A m \in AgentConn : Waits(aconn'[m], o) => m = l
      BY <2>11, <3>1, <3>3 DEF FgInv, Once
    <3>5. \A t \in Task : gtask[t].at # "idle" => gtask[t].op \in GuestCall
      BY DEF FgInv, Once, FgTypes, GuestCall
    <3>6. \A t \in Task : gtask'[t].at \in {"pick", "auth"} =>
            ran'[gtask'[t].op] = 0 /\ \A l \in AgentConn : ~Waits(aconn'[l], gtask'[t].op)
      BY <2>11, <2>12, <3>1, <3>3, <3>5 DEF FgInv, Once
    <3> QED
      BY <3>1, <3>2, <3>4, <3>6 DEF FgInv, Once
  <2> QED
    BY <1>4, <2>6, <2>11, <2>13 DEF Dispatch, FgInv, FgTypes, Guarded, WarmAnswersOwn
<1>9. CASE r = Eof
  <2> DEFINE y == [x EXCEPT !.srv = "closed"]
  <2>1. y \in AgentEnd /\ y.up = x.up
    BY <1>1 DEF AgentEnd
  <2>2. aconn' = [aconn EXCEPT ![k] = y] /\ ran' = ran
    BY <1>9 DEF Dispatch, Eof, GuestCall
  <2> HIDE DEF y
  <2>3. ~Greets(x) /\ \A o \in GuestCall : ~Carries(x, o)
    BY <1>5, <1>6, <1>9, FgAssumption DEF Eof, Auth, GuestCall
  <2>4. aconn' \in [AgentConn -> AgentEnd] /\ Owned' /\ Shapes'
    BY <1>3, <2>1, <2>2, <2>3, AgentEndMoves DEF Dispatch, Left
  <2>5. aconn'[k] = y /\ \A l \in AgentConn \ {k} : aconn'[l] = aconn[l]
    BY <2>2 DEF FgInv, FgTypes
  <2>6. Once'
    BY <2>1, <2>2, <2>5, NothingNewWaits DEF Dispatch, Waits
  <2> QED
    BY <1>4, <2>2, <2>4, <2>6 DEF Dispatch, FgInv, FgTypes, Guarded, WarmAnswersOwn
<1>10. CASE r \notin GuestCall /\ r # Eof
  <2> DEFINE y == [x EXCEPT !.up = Tail(@), !.down = Append(@, Line("error", 0))]
  <2>1. Append(x.down, Line("error", 0)) \in Seq(AgentLine)
    <3>1. 0 \in 0..MaxCalls
      BY FgAssumption
    <3> HIDE DEF x
    <3> QED
      BY <1>1, <3>1, LineType
  <2>2. y \in AgentEnd /\ y.srv = "serve" /\ y.up = Tail(x.up) /\ y.down = Append(x.down, Line("error", 0))
    BY <1>1, <1>2, <2>1 DEF AgentEnd
  <2>3. aconn' = [aconn EXCEPT ![k] = y] /\ ran' = ran
    BY <1>10 DEF Dispatch
  <2> HIDE DEF y
  <2>4. \A o \in GuestCall : ~Carries(x, o)
    BY <1>5, <1>10
  <2>5. Greets(x) => Greets(y)
    BY <1>6, <2>2, Single DEF Greets
  <2>6. Left(x) => Left(y)
    BY <1>7, <1>10, <2>2 DEF Left
  <2>7. aconn' \in [AgentConn -> AgentEnd] /\ Owned' /\ Shapes'
    BY <1>3, <2>2, <2>3, <2>4, <2>5, <2>6, AgentEndMoves DEF Dispatch
  <2>8. aconn'[k] = y /\ \A l \in AgentConn \ {k} : aconn'[l] = aconn[l]
    BY <2>3 DEF FgInv, FgTypes
  <2>9. \A o \in GuestCall : ~Waits(y, o)
    BY <1>1, <2>2, TailWaitsNot DEF Waits
  <2>10. Once'
    BY <2>3, <2>8, <2>9, NothingNewWaits DEF Dispatch
  <2> QED
    BY <1>4, <2>3, <2>7, <2>10 DEF Dispatch, FgInv, FgTypes, Guarded, WarmAnswersOwn
<1> QED
  BY <1>8, <1>9, <1>10

\* An action ends with its line.
LEMMA AnswerKeeps ==
  ASSUME FgInv, NEW k \in AgentConn, NEW kind \in {"answer", "error"}, Answer(k, kind)
  PROVE  FgInv'
<1> DEFINE x == aconn[k]
           y == [x EXCEPT !.srv = "serve", !.op = 0, !.down = Append(@, Line(kind, x.op))]
<1>1. x \in AgentEnd /\ x.srv = "run" /\ x.op \in 0..MaxCalls
  BY DEF FgInv, FgTypes, Answer, AgentEnd
<1>2. Append(x.down, Line(kind, x.op)) \in Seq(AgentLine)
  <2> HIDE DEF x
  <2> QED
    BY <1>1, LineType
<1>3. /\ y \in AgentEnd /\ y.srv = "serve" /\ y.up = x.up
      /\ y.down = Append(x.down, Line(kind, x.op))
  <2>1. 0 \in 0..MaxCalls
    BY FgAssumption
  <2> QED
    BY <1>1, <1>2, <2>1 DEF AgentEnd
<1>4. aconn' = [aconn EXCEPT ![k] = y]
  BY DEF Answer
<1> HIDE DEF y
<1>5. x # NoConn /\ ~Quiet(x) /\ ~Greets(x)
  BY <1>1 DEF NoConn, Quiet, Greets
<1>6. \A o \in GuestCall : Carries(x, o) => Carries(y, o)
  BY <1>1, <1>3, Single DEF Carries
<1>7. aconn' \in [AgentConn -> AgentEnd] /\ Owned' /\ Shapes'
  BY <1>3, <1>4, <1>5, <1>6, AgentEndMoves DEF Answer, Left
<1>8. aconn'[k] = y /\ \A l \in AgentConn \ {k} : aconn'[l] = aconn[l]
  BY <1>4 DEF FgInv, FgTypes
<1>9. Once'
  BY <1>3, <1>8, NothingNewWaits DEF Answer, Waits
<1> QED
  BY <1>1, <1>7, <1>9 DEF Answer, FgInv, FgTypes, Guarded, WarmAnswersOwn

-----------------------------------------------------------------------------

\* A task in a call has a request and, once connected, a connection.
LEMMA InCall ==
  ASSUME FgInv, NEW t \in Task
  PROVE  /\ gtask[t].at # "idle" => gtask[t].op \in GuestCall /\ gtask[t].op <= calls
         /\ gtask[t].at \in Busy => gtask[t].conn \in AgentConn /\ gtask[t].conn \in 1..aopened
BY FgAssumption DEF FgInv, Owned, Once, FgTypes, Busy, AgentConn, GuestCall

\* The client closes a connection on which it has written one line at most.
LEMMA Closing ==
  ASSUME FgInv, NEW k \in AgentConn, aconn' = Close(k),
         \/ Quiet(aconn[k]) \/ Greets(aconn[k])
         \/ \E o \in GuestCall : Carries(aconn[k], o)
  PROVE  /\ aconn' \in [AgentConn -> AgentEnd] /\ Left(aconn'[k])
         /\ aconn'[k].srv = aconn[k].srv
         /\ \A l \in AgentConn \ {k} : aconn'[l] = aconn[l]
         /\ \A o \in GuestCall : Waits(aconn'[k], o) => Waits(aconn[k], o)
<1> DEFINE x == aconn[k]
           y == [x EXCEPT !.up = Append(@, Eof)]
<1>1. x \in AgentEnd /\ x.up \in Seq(0..Auth) /\ Eof \in 0..Auth
  BY FgAssumption DEF FgInv, FgTypes, AgentEnd, Eof, Auth
<1>2. Append(x.up, Eof) \in Seq(0..Auth)
  BY <1>1, AppendProperties
<1>3. y \in AgentEnd /\ y.srv = x.srv /\ y.up = Append(x.up, Eof)
  BY <1>1, <1>2 DEF AgentEnd
<1>4. aconn' = [aconn EXCEPT ![k] = y]
  BY DEF Close, Sent
<1>5. x.up = <<>> \/ \E r \in 1..Auth : x.up = <<r>>
  <2>1. Auth \in 1..Auth /\ GuestCall \subseteq 1..Auth
    BY FgAssumption DEF Auth, GuestCall
  <2> QED
    BY <2>1 DEF Quiet, Greets, Carries
<1>6. CASE x.up = <<>>
  <2>1. y.up = <<Eof>>
    BY <1>3, <1>6, Single
  <2>2. \A o \in GuestCall : ~Waits(y, o)
    BY <2>1, Single DEF Waits, Eof, GuestCall
  <2> HIDE DEF y
  <2>3. aconn'[k] = y /\ aconn' \in [AgentConn -> AgentEnd]
        /\ \A l \in AgentConn \ {k} : aconn'[l] = aconn[l]
    BY <1>3, <1>4 DEF FgInv, FgTypes
  <2> QED
    BY <1>3, <2>1, <2>2, <2>3 DEF Left
<1>7. CASE \E r \in 1..Auth : x.up = <<r>>
  <2>1. PICK r \in 1..Auth : x.up = <<r>>
    BY <1>7
  <2>2. y.up = <<r, Eof>>
    BY <1>3, <2>1, Longer
  <2>3. \A o \in GuestCall : Waits(y, o) => Waits(x, o)
    BY <2>1, <2>2, Single, Double DEF Waits
  <2> HIDE DEF y
  <2>4. aconn'[k] = y /\ aconn' \in [AgentConn -> AgentEnd]
        /\ \A l \in AgentConn \ {k} : aconn'[l] = aconn[l]
    BY <1>3, <1>4 DEF FgInv, FgTypes
  <2> QED
    BY <1>3, <2>2, <2>3, <2>4 DEF Left
<1> QED
  BY <1>5, <1>6, <1>7

\* A call that is over takes its connection with it.
LEMMA HangsUp ==
  ASSUME FgInv, NEW t \in Task, gtask[t].at \in Busy, gtask' = [gtask EXCEPT ![t] = Free],
         aconn' = Close(gtask[t].conn), UNCHANGED <<gated, token, calls, apool, aopened, ran>>,
         got' \in [GuestCall -> 0..MaxCalls], WarmAnswersOwn'
  PROVE  FgInv'
<1> DEFINE k == gtask[t].conn
<1>1. k \in AgentConn /\ gtask[t].op \in GuestCall
  BY InCall DEF Busy
<1>2. /\ aconn' \in [AgentConn -> AgentEnd] /\ Left(aconn'[k]) /\ aconn'[k].srv = aconn[k].srv
      /\ \A l \in AgentConn \ {k} : aconn'[l] = aconn[l]
      /\ \A o \in GuestCall : Waits(aconn'[k], o) => Waits(aconn[k], o)
  <2>1. Greets(aconn[k]) \/ \E o \in GuestCall : Carries(aconn[k], o)
    BY <1>1 DEF FgInv, Shapes, Busy
  <2> HIDE DEF k
  <2> QED
    BY <1>1, <2>1, Closing DEF k
<1>3. /\ gtask'[t] = Free /\ \A u \in Task \ {t} : gtask'[u] = gtask[u]
      /\ gtask' \in [Task -> [at : {"idle", "pick", "auth", "sent"}, op : 0..MaxCalls,
                              conn : 0..MaxOpen]]
  <2>1. Free \in [at : {"idle", "pick", "auth", "sent"}, op : 0..MaxCalls, conn : 0..MaxOpen]
    BY FgAssumption DEF Free
  <2> QED
    BY <2>1 DEF FgInv, FgTypes
<1>4. gtask'[t].at = "idle"
  BY <1>3 DEF Free
<1>5. FgTypes'
  BY <1>2, <1>3 DEF FgInv, FgTypes
<1>6. Owned'
  BY <1>3, <1>4 DEF FgInv, Owned, Busy
<1>7. Shapes'
  <2>1. \A l \in AgentConn : l > aopened' => aconn'[l] = NoConn
    <3>1. ~(k > aopened)
      BY InCall DEF FgInv, FgTypes
    <3> QED
      BY <1>2, <3>1 DEF FgInv, Shapes
  <2>2. \A l \in Range(apool') : Quiet(aconn'[l])
    <3>1. k \notin Range(apool) /\ Range(apool) \subseteq AgentConn
      BY DEF FgInv, Owned, FgTypes, Range
    <3> QED
      BY <1>2, <3>1 DEF FgInv, Shapes
  <2>3. \A u \in Task : /\ gtask'[u].at = "sent" => Carries(aconn'[gtask'[u].conn], gtask'[u].op)
                        /\ gtask'[u].at = "auth" => Greets(aconn'[gtask'[u].conn])
    <3> SUFFICES ASSUME NEW u \in Task, gtask'[u].at \in Busy
                 PROVE  /\ gtask'[u].at = "sent" => Carries(aconn'[gtask'[u].conn], gtask'[u].op)
                        /\ gtask'[u].at = "auth" => Greets(aconn'[gtask'[u].conn])
      BY DEF Busy
    <3>1. u # t /\ gtask'[u] = gtask[u]
      BY <1>3, <1>4 DEF Busy
    <3>2. gtask[u].conn # k /\ gtask[u].conn \in AgentConn
      BY <3>1, InCall DEF FgInv, Owned
    <3> QED
      BY <1>2, <3>1, <3>2 DEF FgInv, Shapes
  <2>4. \A l \in 1..aopened' :
          l \notin Range(apool') /\ (\A u \in Task : gtask'[u].at \in Busy => gtask'[u].conn # l)
            => Left(aconn'[l])
    <3> SUFFICES ASSUME NEW l \in 1..aopened, l \notin Range(apool), l # k,
                        \A u \in Task : gtask'[u].at \in Busy => gtask'[u].conn # l
                 PROVE  Left(aconn'[l])
      BY <1>2
    <3>1. \A u \in Task : gtask[u].at \in Busy => gtask[u].conn # l
      BY <1>3
    <3>2. l \in AgentConn
      BY FgAssumption DEF FgInv, FgTypes, AgentConn
    <3> QED
      BY <1>2, <3>1, <3>2 DEF FgInv, Shapes
  <2> QED
    BY <2>1, <2>2, <2>3, <2>4 DEF Shapes
<1>8. Once'
  <2>1. \A l \in AgentConn : \A o \in GuestCall : Waits(aconn'[l], o) => Waits(aconn[l], o)
    BY <1>2
  <2>2. \A u \in Task : gtask'[u].at # "idle" =>
          u # t /\ gtask'[u] = gtask[u] /\ gtask[u].op \in GuestCall
    BY <1>3, <1>4, InCall
  <2> QED
    BY <2>1, <2>2 DEF FgInv, Once
<1>9. Guarded'
  BY <1>2 DEF FgInv, Guarded
<1> QED
  BY <1>5, <1>6, <1>7, <1>8, <1>9 DEF FgInv

LEMMA GiveUpKeeps == ASSUME FgInv, NEW t \in Task, GiveUpCall(t) PROVE FgInv'
BY HangsUp DEF GiveUpCall, Busy, FgInv, FgTypes, WarmAnswersOwn

\* A request begins with a number of its own, or none gets a connection.
LEMMA RequestKeeps == ASSUME FgInv, NEW t \in Task, Request(t) \/ OpenFails(t) PROVE FgInv'
<1>1. CASE Request(t)
  <2> DEFINE n == calls + 1
             y == [at |-> "pick", op |-> n, conn |-> 0]
  <2>1. n \in GuestCall /\ n \in 0..MaxCalls /\ 0 \in 0..MaxOpen /\ calls' = n /\ n > calls
    BY <1>1, FgAssumption DEF Request, FgInv, FgTypes, GuestCall
  <2>2. gtask' = [gtask EXCEPT ![t] = y]
    BY <1>1, <2>1 DEF Request
  <2>3. y \in [at : {"idle", "pick", "auth", "sent"}, op : 0..MaxCalls, conn : 0..MaxOpen]
    BY <2>1
  <2>4. /\ gtask'[t] = y /\ \A u \in Task \ {t} : gtask'[u] = gtask[u]
        /\ gtask' \in [Task -> [at : {"idle", "pick", "auth", "sent"}, op : 0..MaxCalls,
                                conn : 0..MaxOpen]]
    BY <2>2, <2>3 DEF FgInv, FgTypes
  <2>5. gtask'[t].at = "pick" /\ gtask'[t].op = n /\ gtask[t].at = "idle"
    BY <1>1, <2>4 DEF Request
  <2>6. FgTypes'
    BY <1>1, <2>1, <2>4 DEF Request, FgInv, FgTypes
  <2>7. Owned'
    BY <1>1, <2>4, <2>5 DEF Request, FgInv, Owned, Busy
  <2>8. Shapes'
    <3>1. \A u \in Task : gtask'[u].at \in Busy <=> gtask[u].at \in Busy
      BY <2>4, <2>5 DEF Busy
    <3>2. \A u \in Task : gtask[u].at \in Busy => gtask'[u] = gtask[u]
      BY <2>4, <2>5 DEF Busy
    <3> QED
      BY <1>1, <3>1, <3>2 DEF Request, FgInv, Shapes, Busy
  <2>9. Once'
    <3>1. calls \in Nat /\ GuestCall \subseteq Nat /\ aconn' = aconn /\ ran' = ran
      BY <1>1 DEF Request, FgInv, FgTypes, GuestCall
    <3>2. ran[n] = 0 /\ \A l \in AgentConn : ~Waits(aconn[l], n)
      BY <2>1, <3>1 DEF FgInv, Once
    <3>3. \A u \in Task \ {t} : gtask[u].at # "idle" => gtask[u].op \in 1..calls /\ gtask[u].op # n
      BY <2>1, <3>1 DEF FgInv, Once
    <3>4. \A o \in GuestCall : ran[o] <= 1 /\ (o > n => ran[o] = 0)
      BY <2>1, <3>1 DEF FgInv, Once
    <3>5. \A k \in AgentConn : \A o \in GuestCall :
            Waits(aconn[k], o) => /\ o <= n /\ ran[o] = 0
                                  /\ \A l \in AgentConn : Waits(aconn[l], o) => l = k
      BY <2>1, <3>1 DEF FgInv, Once
    <3>6. \A u \in Task : gtask'[u].at # "idle" => gtask'[u].op \in 1..n
      BY <2>1, <2>4, <2>5, <3>1, <3>3
    <3>7. \A u \in Task : gtask'[u].at \in {"pick", "auth"} =>
            ran[gtask'[u].op] = 0 /\ \A k \in AgentConn : ~Waits(aconn[k], gtask'[u].op)
      BY <2>4, <2>5, <3>2 DEF FgInv, Once
    <3>8. \A u, v \in Task : gtask'[u].at # "idle" /\ gtask'[v].at # "idle"
            /\ gtask'[u].op = gtask'[v].op => u = v
      BY <2>4, <2>5, <3>3 DEF FgInv, Once
    <3> QED
      BY <2>1, <3>1, <3>4, <3>5, <3>6, <3>7, <3>8 DEF Once
  <2> QED
    BY <1>1, <2>6, <2>7, <2>8, <2>9 DEF Request, FgInv, Guarded, WarmAnswersOwn
<1>2. CASE OpenFails(t)
  <2>1. Free \in [at : {"idle", "pick", "auth", "sent"}, op : 0..MaxCalls, conn : 0..MaxOpen]
    BY FgAssumption DEF Free
  <2>2. /\ gtask'[t] = Free /\ \A u \in Task \ {t} : gtask'[u] = gtask[u]
        /\ gtask' \in [Task -> [at : {"idle", "pick", "auth", "sent"}, op : 0..MaxCalls,
                                conn : 0..MaxOpen]]
    BY <1>2, <2>1 DEF OpenFails, FgInv, FgTypes
  <2>3. gtask'[t].at = "idle" /\ gtask[t].at = "pick"
    BY <1>2, <2>2 DEF OpenFails, Free
  <2>4. FgTypes'
    BY <1>2, <2>2 DEF OpenFails, FgInv, FgTypes
  <2>5. Owned'
    BY <1>2, <2>2, <2>3 DEF OpenFails, FgInv, Owned, Busy
  <2>6. Shapes'
    <3>1. \A u \in Task : gtask'[u].at \in Busy <=> gtask[u].at \in Busy
      BY <2>2, <2>3 DEF Busy
    <3>2. \A u \in Task : gtask[u].at \in Busy => gtask'[u] = gtask[u]
      BY <2>2, <2>3 DEF Busy
    <3> QED
      BY <1>2, <3>1, <3>2 DEF OpenFails, FgInv, Shapes, Busy
  <2>7. Once'
    BY <1>2, <2>2, <2>3 DEF OpenFails, FgInv, Once
  <2> QED
    BY <1>2, <2>4, <2>5, <2>6, <2>7 DEF OpenFails, FgInv, Guarded, WarmAnswersOwn
<1> QED
  BY <1>1, <1>2

-----------------------------------------------------------------------------
(* The pool is a stack without duplicates. *)

LEMMA PoolPop ==
  ASSUME NEW S, NEW p \in Seq(S), p # <<>>, \A i, j \in DOMAIN p : p[i] = p[j] => i = j
  PROVE  /\ Front(p) \in Seq(S)
         /\ \A i, j \in DOMAIN Front(p) : Front(p)[i] = Front(p)[j] => i = j
         /\ Last(p) \in S /\ Last(p) \in Range(p) /\ Range(Front(p)) = Range(p) \ {Last(p)}
<1>1. Len(p) \in Nat \ {0} /\ DOMAIN p = 1..Len(p)
  BY EmptySeq, LenProperties
<1>2. /\ Front(p) \in Seq(S) /\ Len(Front(p)) = Len(p) - 1
      /\ \A i \in 1..(Len(p) - 1) : Front(p)[i] = p[i]
  BY <1>1, SubSeqProperties DEF Front
<1>3. DOMAIN Front(p) = 1..(Len(p) - 1)
  BY <1>2, LenProperties
<1>4. Last(p) = p[Len(p)] /\ Len(p) \in 1..Len(p)
  BY <1>1 DEF Last
<1>5. Range(Front(p)) = {p[i] : i \in 1..(Len(p) - 1)}
  BY <1>2, <1>3 DEF Range
<1>6. Range(p) = {p[i] : i \in 1..Len(p)}
  BY <1>1 DEF Range
<1>7. Range(Front(p)) = Range(p) \ {Last(p)}
  BY <1>1, <1>4, <1>5, <1>6
<1>8. Last(p) \in Range(p)
  BY <1>4, <1>6
<1>9. Last(p) \in S
  BY <1>4, ElementOfSeq
<1> QED
  BY <1>1, <1>2, <1>3, <1>7, <1>8, <1>9

LEMMA PoolPush ==
  ASSUME NEW S, NEW p \in Seq(S), NEW k \in S, k \notin Range(p),
         \A i, j \in DOMAIN p : p[i] = p[j] => i = j
  PROVE  /\ Append(p, k) \in Seq(S)
         /\ \A i, j \in DOMAIN Append(p, k) : Append(p, k)[i] = Append(p, k)[j] => i = j
         /\ Range(Append(p, k)) = Range(p) \cup {k}
<1> DEFINE q == Append(p, k)
<1>1. Len(p) \in Nat /\ DOMAIN p = 1..Len(p)
  BY LenProperties
<1>2. /\ q \in Seq(S) /\ Len(q) = Len(p) + 1 /\ q[Len(p) + 1] = k
      /\ \A i \in 1..Len(p) : q[i] = p[i]
  BY AppendProperties
<1> HIDE DEF q
<1>3. DOMAIN q = 1..(Len(p) + 1)
  BY <1>2, LenProperties
<1>4. \A i \in 1..Len(p) : p[i] # k
  BY <1>1 DEF Range
<1>5. Range(q) = Range(p) \cup {k}
  <2>1. Range(q) = {q[i] : i \in 1..(Len(p) + 1)} /\ Range(p) = {p[i] : i \in 1..Len(p)}
    BY <1>1, <1>3 DEF Range
  <2>2. 1..(Len(p) + 1) = 1..Len(p) \cup {Len(p) + 1}
    BY <1>1
  <2> QED
    BY <1>2, <2>1, <2>2
<1>6. \A i, j \in DOMAIN q : q[i] = q[j] => i = j
  BY <1>1, <1>2, <1>3, <1>4
<1> QED
  BY <1>2, <1>5, <1>6 DEF q

-----------------------------------------------------------------------------

\* Task t is given connection k, which no other task has and which is no longer in the
\* pool, with end y: it holds t's request, or only the auth line.
Dials(t, k, y, at) ==
  /\ gtask[t].at \in {"pick", "auth"} /\ (gtask[t].at = "auth" => gtask[t].conn = k)
  /\ gtask' = [gtask EXCEPT ![t] = [at |-> at, op |-> gtask[t].op, conn |-> k]]
  /\ aconn' = [aconn EXCEPT ![k] = y]
  /\ \A u \in Task \ {t} : gtask[u].at \in Busy => gtask[u].conn # k
  /\ apool' \in Seq(AgentConn) /\ Range(apool') = Range(apool) \ {k}
  /\ \A i, j \in DOMAIN apool' : apool'[i] = apool'[j] => i = j
  /\ aopened' \in 0..MaxOpen /\ aopened <= aopened' /\ k <= aopened'
  /\ \A l \in AgentConn \ {k} : l <= aopened' => l <= aopened
  /\ at = "sent" => Carries(y, gtask[t].op)
  /\ at = "auth" => Greets(y)
  /\ y.srv \in {"serve", "run"} => y.srv = aconn[k].srv
  /\ UNCHANGED <<gated, token, calls, ran, got>>

\* A task that has sent nothing writes its first line on a connection nobody else has.
LEMMA FirstLine ==
  ASSUME FgInv, NEW t \in Task, NEW k \in AgentConn, NEW y \in AgentEnd, NEW at \in Busy,
         Dials(t, k, y, at)
  PROVE  FgInv'
<1> SUFFICES
      ASSUME gtask[t].at \in {"pick", "auth"}, gtask[t].at = "auth" => gtask[t].conn = k,
             gtask' = [gtask EXCEPT ![t] = [at |-> at, op |-> gtask[t].op, conn |-> k]],
             aconn' = [aconn EXCEPT ![k] = y],
             \A u \in Task \ {t} : gtask[u].at \in Busy => gtask[u].conn # k,
             apool' \in Seq(AgentConn), aopened' \in 0..MaxOpen, aopened <= aopened',
             \A i, j \in DOMAIN apool' : apool'[i] = apool'[j] => i = j,
             Range(apool') = Range(apool) \ {k}, k <= aopened',
             \A l \in AgentConn \ {k} : l <= aopened' => l <= aopened,
             at = "sent" => Carries(y, gtask[t].op),
             at = "auth" => Greets(y),
             y.srv \in {"serve", "run"} => y.srv = aconn[k].srv,
             UNCHANGED <<gated, token, calls, ran, got>>
      PROVE  FgInv'
  BY Zenon DEF Dials
<1> DEFINE o == gtask[t].op
           z == [at |-> at, op |-> o, conn |-> k]
<1>1. o \in GuestCall /\ o <= calls /\ k \in 1..MaxOpen
  BY InCall DEF AgentConn
<1>2. /\ gtask'[t] = z /\ \A u \in Task \ {t} : gtask'[u] = gtask[u]
      /\ gtask' \in [Task -> [at : {"idle", "pick", "auth", "sent"}, op : 0..MaxCalls,
                              conn : 0..MaxOpen]]
  <2>1. z \in [at : {"idle", "pick", "auth", "sent"}, op : 0..MaxCalls, conn : 0..MaxOpen]
    BY <1>1, FgAssumption DEF Busy, GuestCall
  <2> HIDE DEF z
  <2> QED
    BY <2>1 DEF FgInv, FgTypes, z
<1>3. /\ aconn'[k] = y /\ aconn' \in [AgentConn -> AgentEnd]
      /\ \A l \in AgentConn \ {k} : aconn'[l] = aconn[l]
  BY DEF FgInv, FgTypes
<1>4. gtask'[t].at = at /\ gtask'[t].op = o /\ gtask'[t].conn = k
  BY <1>2
<1> HIDE DEF z, o
<1>5. FgTypes'
  BY <1>2, <1>3 DEF FgInv, FgTypes
<1>6. Owned'
  <2>1. Range(apool') \subseteq 1..aopened'
    BY FgAssumption DEF FgInv, Owned, FgTypes
  <2>2. \A u \in Task : gtask'[u].at \in Busy =>
          gtask'[u].conn \in 1..aopened' /\ gtask'[u].conn \notin Range(apool')
    <3> SUFFICES ASSUME NEW u \in Task, gtask'[u].at \in Busy
                 PROVE  gtask'[u].conn \in 1..aopened' /\ gtask'[u].conn \notin Range(apool')
      OBVIOUS
    <3>1. CASE u = t
      BY <1>1, <1>4, <3>1
    <3>2. CASE u # t
      <4>1. gtask'[u] = gtask[u] /\ gtask[u].conn \in 1..aopened /\ gtask[u].conn \notin Range(apool)
        BY <1>2, <3>2 DEF FgInv, Owned
      <4> QED
        BY <4>1 DEF FgInv, FgTypes
    <3> QED
      BY <3>1, <3>2
  <2>3. \A u, v \in Task : gtask'[u].at \in Busy /\ gtask'[v].at \in Busy
          /\ gtask'[u].conn = gtask'[v].conn => u = v
    BY <1>2, <1>4 DEF FgInv, Owned
  <2> QED
    BY <2>1, <2>2, <2>3 DEF Owned
<1>7. Shapes'
  <2>1. \A l \in AgentConn : l > aopened' => aconn'[l] = NoConn
    <3> SUFFICES ASSUME NEW l \in AgentConn, l > aopened' PROVE aconn'[l] = NoConn
      OBVIOUS
    <3>1. l # k /\ l > aopened
      BY <1>1 DEF FgInv, FgTypes, AgentConn
    <3> QED
      BY <1>3, <3>1 DEF FgInv, Shapes
  <2>2. \A l \in Range(apool') : Quiet(aconn'[l])
    <3> SUFFICES ASSUME NEW l \in Range(apool') PROVE Quiet(aconn'[l])
      OBVIOUS
    <3>1. l # k /\ l \in Range(apool)
      OBVIOUS
    <3>2. l \in AgentConn
      BY <3>1 DEF FgInv, FgTypes, Range
    <3> QED
      BY <1>3, <3>1, <3>2 DEF FgInv, Shapes
  <2>3. \A u \in Task : /\ gtask'[u].at = "sent" => Carries(aconn'[gtask'[u].conn], gtask'[u].op)
                        /\ gtask'[u].at = "auth" => Greets(aconn'[gtask'[u].conn])
    <3> SUFFICES ASSUME NEW u \in Task, gtask'[u].at \in Busy
                 PROVE  /\ gtask'[u].at = "sent" => Carries(aconn'[gtask'[u].conn], gtask'[u].op)
                        /\ gtask'[u].at = "auth" => Greets(aconn'[gtask'[u].conn])
      BY DEF Busy
    <3>1. CASE u = t
      BY <1>3, <1>4, <3>1 DEF o
    <3>2. CASE u # t
      <4>1. gtask'[u] = gtask[u] /\ gtask[u].conn # k /\ gtask[u].conn \in AgentConn
        BY <1>2, <3>2, InCall
      <4> QED
        BY <1>3, <4>1 DEF FgInv, Shapes
    <3> QED
      BY <3>1, <3>2
  <2>4. \A l \in 1..aopened' :
          l \notin Range(apool') /\ (\A u \in Task : gtask'[u].at \in Busy => gtask'[u].conn # l)
            => Left(aconn'[l])
    <3> SUFFICES ASSUME NEW l \in 1..aopened', l \notin Range(apool'),
                        \A u \in Task : gtask'[u].at \in Busy => gtask'[u].conn # l
                 PROVE  Left(aconn'[l])
      OBVIOUS
    <3>1. l # k
      BY <1>4
    <3>2. l \in AgentConn
      BY FgAssumption DEF AgentConn
    <3>3. l \in 1..aopened /\ l \notin Range(apool)
      BY <3>1, <3>2 DEF FgInv, FgTypes
    <3>4. \A u \in Task : gtask[u].at \in Busy => gtask[u].conn # l
      BY <1>2, <3>1 DEF Busy
    <3> QED
      BY <1>3, <3>1, <3>2, <3>3, <3>4 DEF FgInv, Shapes
  <2> QED
    BY <2>1, <2>2, <2>3, <2>4 DEF Shapes
<1>8. \A q \in GuestCall : Waits(y, q) => at = "sent" /\ q = o
  <2> SUFFICES ASSUME NEW q \in GuestCall, Waits(y, q) PROVE at = "sent" /\ q = o
    OBVIOUS
  <2>1. CASE at = "sent"
    <3>1. y.up = <<>> \/ y.up = <<o>>
      BY <2>1 DEF Carries, o
    <3> QED
      BY <2>1, <3>1, Single DEF Waits
  <2>2. CASE at = "auth"
    <3>1. y.up = <<>> \/ y.up = <<Auth>>
      BY <2>2 DEF Greets
    <3>2. Auth # q
      BY FgAssumption DEF Auth, GuestCall
    <3> QED
      BY <3>1, <3>2, Single DEF Waits
  <2> QED
    BY <2>1, <2>2 DEF Busy
<1>9. Once'
  <2>1. ran[o] = 0 /\ \A l \in AgentConn : ~Waits(aconn[l], o)
    BY DEF FgInv, Once, o
  <2>2. \A l \in AgentConn : \A q \in GuestCall :
          Waits(aconn'[l], q) => Waits(aconn[l], q) \/ (l = k /\ q = o /\ at = "sent")
    BY <1>3, <1>8
  <2>3. \A l \in AgentConn : \A q \in GuestCall :
          Waits(aconn'[l], q) => /\ q <= calls /\ ran[q] = 0
                                 /\ \A m \in AgentConn : Waits(aconn'[m], q) => m = l
    BY <1>1, <2>1, <2>2 DEF FgInv, Once
  <2>4. \A u \in Task : gtask'[u].at # "idle" => gtask[u].at # "idle" /\ gtask'[u].op = gtask[u].op
    BY <1>2, <1>4 DEF o
  <2>5. \A u \in Task : gtask'[u].at # "idle" => gtask'[u].op \in 1..calls
    BY <2>4 DEF FgInv, Once
  <2>6. \A u, v \in Task : gtask'[u].at # "idle" /\ gtask'[v].at # "idle"
          /\ gtask'[u].op = gtask'[v].op => u = v
    BY <2>4 DEF FgInv, Once
  <2>7. \A u \in Task : gtask'[u].at \in {"pick", "auth"} =>
          ran[gtask'[u].op] = 0 /\ \A l \in AgentConn : ~Waits(aconn'[l], gtask'[u].op)
    <3> SUFFICES ASSUME NEW u \in Task, gtask'[u].at \in {"pick", "auth"}
                 PROVE  ran[gtask'[u].op] = 0
                        /\ \A l \in AgentConn : ~Waits(aconn'[l], gtask'[u].op)
      OBVIOUS
    <3>1. gtask[u].at \in {"pick", "auth"} /\ gtask'[u].op = gtask[u].op /\ gtask[u].op \in GuestCall
      BY <1>2, <1>4, <2>4, InCall
    <3>2. gtask[u].op = o => u = t
      BY <3>1 DEF FgInv, Once, o
    <3>3. ~(at = "sent" /\ gtask[u].op = o)
      BY <1>4, <3>2
    <3> QED
      BY <2>2, <3>1, <3>3 DEF FgInv, Once
  <2> QED
    BY <2>3, <2>5, <2>6, <2>7 DEF FgInv, Once
<1>10. Guarded'
  BY <1>3 DEF FgInv, Guarded
<1> QED
  BY <1>5, <1>6, <1>7, <1>9, <1>10 DEF FgInv, WarmAnswersOwn

\* The last connection of the pool is used, or closed when it is too old.
LEMMA BorrowKeeps == ASSUME FgInv, NEW t \in Task, Borrow(t) PROVE FgInv'
<1> DEFINE k == Last(apool)
           o == gtask[t].op
<1>1. /\ apool \in Seq(AgentConn) /\ apool # <<>> /\ gtask[t].at = "pick"
      /\ \A i, j \in DOMAIN apool : apool[i] = apool[j] => i = j
  BY DEF Borrow, FgInv, FgTypes, Owned
<1>2. /\ apool' \in Seq(AgentConn) /\ Range(apool') = Range(apool) \ {k}
      /\ \A i, j \in DOMAIN apool' : apool'[i] = apool'[j] => i = j
      /\ k \in AgentConn /\ k \in Range(apool)
  BY <1>1, PoolPop DEF Borrow
<1>3. k \in 1..aopened /\ \A u \in Task : gtask[u].at \in Busy => gtask[u].conn # k
  BY <1>2 DEF FgInv, Owned
<1>4. Quiet(aconn[k])
  BY <1>2 DEF FgInv, Shapes
<1>5. aopened \in 0..MaxOpen
  BY DEF FgInv, FgTypes
<1>6. CASE aconn[k].warm
  <2> DEFINE y == [aconn[k] EXCEPT !.up = Append(@, o)]
  <2>1. o \in GuestCall /\ o \in 0..Auth
    BY <1>1, InCall, FgAssumption DEF GuestCall, Auth
  <2>2. aconn[k] \in AgentEnd /\ aconn[k].up = <<>> /\ aconn[k].down = <<>>
        /\ aconn[k].srv = "serve" /\ Append(<<>>, o) = <<o>>
    BY <1>2, <1>4, Single DEF FgInv, FgTypes, Quiet
  <2>3. <<o>> \in Seq(0..Auth)
    BY <2>1
  <2>4. y \in AgentEnd /\ y.up = <<o>> /\ y.down = <<>> /\ y.srv = "serve"
    BY <2>2, <2>3 DEF AgentEnd
  <2>5. aconn' = [aconn EXCEPT ![k] = y]
    BY <1>6 DEF Borrow, Sent
  <2>6. gtask' = [gtask EXCEPT ![t] = [at |-> "sent", op |-> o, conn |-> k]]
    BY <1>6 DEF Borrow, FgInv, FgTypes
  <2>7. Carries(y, o)
    BY <2>4 DEF Carries
  <2> HIDE DEF y, k
  <2>8. UNCHANGED <<gated, token, calls, aopened, ran, got>> /\ "sent" \in Busy
    BY DEF Borrow, Busy
  <2>9. \A l \in AgentConn \ {k} : l <= aopened' => l <= aopened
    BY <2>8
  <2>10. aopened <= aopened' /\ k <= aopened'
    BY <1>3, <1>5, <2>8
  <2> DEFINE at == "sent"
  <2>11. at \in Busy /\ at # "auth" /\ gtask[t].at # "auth" /\ aopened' \in 0..MaxOpen
    BY <1>1, <1>5, <2>8
  <2>12. gtask' = [gtask EXCEPT ![t] = [at |-> at, op |-> gtask[t].op, conn |-> k]]
    BY <2>6
  <2> HIDE DEF at
  <2>13. Dials(t, k, y, at)
    BY <1>1, <1>2, <1>3, <2>2, <2>4, <2>5, <2>7, <2>8, <2>9, <2>10, <2>11, <2>12 DEF Dials
  <2> QED
    BY <1>2, <2>4, <2>11, <2>13, FirstLine
<1>7. CASE ~aconn[k].warm
  <2>1. aconn' = Close(k) /\ gtask' = gtask
    BY <1>7 DEF Borrow
  <2>2. /\ aconn' \in [AgentConn -> AgentEnd] /\ Left(aconn'[k]) /\ aconn'[k].srv = aconn[k].srv
        /\ \A l \in AgentConn \ {k} : aconn'[l] = aconn[l]
        /\ \A q \in GuestCall : Waits(aconn'[k], q) => Waits(aconn[k], q)
    <3> HIDE DEF k
    <3> QED
      BY <1>2, <1>4, <2>1, Closing
  <2> HIDE DEF k
  <2>3. UNCHANGED <<gated, token, calls, aopened, ran, got>>
    BY DEF Borrow
  <2>4. FgTypes'
    BY <1>2, <2>1, <2>2, <2>3 DEF FgInv, FgTypes
  <2>5. Owned'
    BY <1>2, <2>1, <2>3 DEF FgInv, Owned
  <2>6. Shapes'
    <3>1. \A l \in AgentConn : l > aopened' => aconn'[l] = NoConn
      BY <1>3, <1>5, <2>2, <2>3 DEF FgInv, Shapes
    <3>2. \A l \in Range(apool') : Quiet(aconn'[l])
      <4>1. Range(apool) \subseteq AgentConn
        BY <1>1 DEF Range
      <4> QED
        BY <1>2, <2>2, <4>1 DEF FgInv, Shapes
    <3>3. \A u \in Task : /\ gtask'[u].at = "sent" => Carries(aconn'[gtask'[u].conn], gtask'[u].op)
                          /\ gtask'[u].at = "auth" => Greets(aconn'[gtask'[u].conn])
      BY <1>3, <2>1, <2>2, InCall DEF FgInv, Shapes, Busy
    <3>4. \A l \in 1..aopened' :
            l \notin Range(apool') /\ (\A u \in Task : gtask'[u].at \in Busy => gtask'[u].conn # l)
              => Left(aconn'[l])
      <4>1. 1..aopened' \subseteq AgentConn
        BY <1>5, <2>3, FgAssumption DEF AgentConn
      <4> QED
        BY <1>2, <2>1, <2>2, <2>3, <4>1 DEF FgInv, Shapes
    <3> QED
      BY <3>1, <3>2, <3>3, <3>4 DEF Shapes
  <2>7. Once'
    BY <2>1, <2>2, <2>3, NothingNewWaits
  <2> QED
    BY <2>2, <2>3, <2>4, <2>5, <2>6, <2>7 DEF FgInv, Guarded, WarmAnswersOwn
<1> QED
  BY <1>6, <1>7

\* A task's record once it has a connection.
LEMMA Dialled ==
  ASSUME NEW r \in [at : {"idle", "pick", "auth", "sent"}, op : 0..MaxCalls,
                    conn : 0..MaxOpen],
         NEW at \in {"auth", "sent"}, NEW k \in 0..MaxOpen
  PROVE  [r EXCEPT !.at = at, !.conn = k] = [at |-> at, op |-> r.op, conn |-> k]
<1> DEFINE r1 == [at |-> at, op |-> r.op, conn |-> r.conn]
<1>1. [r EXCEPT !.at = at] = r1
  <2>1. [r EXCEPT !.at = "auth"] = [at |-> "auth", op |-> r.op, conn |-> r.conn]
    OBVIOUS
  <2>2. [r EXCEPT !.at = "sent"] = [at |-> "sent", op |-> r.op, conn |-> r.conn]
    OBVIOUS
  <2> QED
    BY <2>1, <2>2
<1>2. /\ r1 \in [at : {"idle", "pick", "auth", "sent"}, op : 0..MaxCalls, conn : 0..MaxOpen]
      /\ r1.at = at /\ r1.op = r.op
  OBVIOUS
<1>3. [r EXCEPT !.at = at, !.conn = k] = [r1 EXCEPT !.conn = k]
  BY <1>1
<1> HIDE DEF r1
<1>4. [r1 EXCEPT !.conn = k] = [at |-> r1.at, op |-> r1.op, conn |-> k]
  BY <1>2
<1> QED
  BY <1>2, <1>3, <1>4

\* A new connection; the auth line goes first.
LEMMA OpenKeeps == ASSUME FgInv, NEW t \in Task, Open(t) PROVE FgInv'
<1> DEFINE k == aopened + 1
           o == gtask[t].op
           first == IF token = "none" THEN o ELSE Auth
           at == IF token = "none" THEN "sent" ELSE "auth"
           y == [NoConn EXCEPT !.srv = "backlog", !.up = <<first>>]
<1>1. aopened' = k /\ k \in AgentConn /\ k \in 0..MaxOpen /\ aopened \in 0..MaxOpen /\ aopened < k
      /\ gtask[t].at = "pick"
  BY FgAssumption DEF Open, FgInv, FgTypes, AgentConn
<1>2. aconn[k] = NoConn
  BY <1>1 DEF FgInv, Shapes
<1>3. o \in GuestCall /\ o \in 0..Auth /\ Auth \in 0..Auth /\ 0 \in 0..MaxCalls
  BY <1>1, InCall, FgAssumption DEF GuestCall, Auth
<1>4. <<first>> \in Seq(0..Auth)
  BY <1>3
<1>5. y \in AgentEnd /\ y.srv = "backlog" /\ y.up = <<first>> /\ y.down = <<>>
  <2>1. NoConn \in AgentEnd /\ NoConn.down = <<>>
    BY <1>3, EmptySeq DEF AgentEnd, NoConn
  <2> HIDE DEF first
  <2> QED
    BY <1>4, <2>1 DEF AgentEnd
<1>6. aconn' = [aconn EXCEPT ![k] = y]
  <2>1. aconn' = [aconn EXCEPT ![k].srv = "backlog", ![k].up = <<first>>]
    BY <1>1 DEF Open
  <2>2. aconn' = [aconn EXCEPT ![k] = [aconn[k] EXCEPT !.srv = "backlog", !.up = <<first>>]]
    <3> HIDE DEF k, first
    <3> QED
      BY <1>1, <2>1 DEF FgInv, FgTypes
  <2> QED
    BY <1>2, <2>2
<1>7. gtask' = [gtask EXCEPT ![t] = [at |-> at, op |-> o, conn |-> k]]
  <2>1. gtask' = [gtask EXCEPT ![t].at = at, ![t].conn = k]
    BY <1>1 DEF Open
  <2>2. gtask[t] \in [at : {"idle", "pick", "auth", "sent"}, op : 0..MaxCalls,
                      conn : 0..MaxOpen]
    BY DEF FgInv, FgTypes
  <2>3. at \in {"auth", "sent"}
    OBVIOUS
  <2> HIDE DEF at, k
  <2>4. gtask' = [gtask EXCEPT ![t] = [gtask[t] EXCEPT !.at = at, !.conn = k]]
    BY <2>1 DEF FgInv, FgTypes
  <2>5. [gtask[t] EXCEPT !.at = at, !.conn = k] = [at |-> at, op |-> o, conn |-> k]
    BY <1>1, <2>2, <2>3, Dialled
  <2> QED
    BY <2>4, <2>5
<1>8. at = "sent" => Carries(y, o)
  <2> HIDE DEF y
  <2> QED
    BY <1>5 DEF Carries
<1>9. at = "auth" => Greets(y)
  <2> HIDE DEF y
  <2> QED
    BY <1>5 DEF Greets
<1>10. \A u \in Task : gtask[u].at \in Busy => gtask[u].conn # k
  BY <1>1, InCall
<1>11. /\ UNCHANGED <<gated, token, calls, ran, got>> /\ apool' = apool
       /\ at \in Busy /\ y.srv \notin {"serve", "run"}
  <2> HIDE DEF y
  <2> QED
    BY <1>5 DEF Open, Busy
<1>12. k \notin Range(apool)
  BY <1>1 DEF FgInv, Owned
<1>13. /\ apool' \in Seq(AgentConn) /\ Range(apool') = Range(apool) \ {k}
       /\ \A i, j \in DOMAIN apool' : apool'[i] = apool'[j] => i = j
  BY <1>11, <1>12 DEF FgInv, FgTypes, Owned
<1>14. /\ \A l \in AgentConn \ {k} : l <= aopened' => l <= aopened
       /\ aopened' \in 0..MaxOpen /\ aopened <= aopened' /\ k <= aopened'
  BY <1>1 DEF AgentConn
<1> HIDE DEF k, y, at
<1>15. Dials(t, k, y, at)
  BY <1>1, <1>5, <1>6, <1>7, <1>8, <1>9, <1>10, <1>11, <1>13, <1>14 DEF Dials
<1> QED
  BY <1>1, <1>5, <1>11, <1>15, FirstLine

\* The auth line is answered.
LEMMA ReadAuthKeeps == ASSUME FgInv, NEW t \in Task, ReadAuth(t) PROVE FgInv'
<1> DEFINE k == gtask[t].conn
           o == gtask[t].op
           d == aconn[k].down
<1>1. gtask[t].at = "auth" /\ gtask[t].at \in Busy /\ d # <<>>
  BY DEF ReadAuth, Busy
<1>2. k \in AgentConn /\ k \in 1..aopened /\ o \in GuestCall /\ aconn[k] \in AgentEnd
  BY <1>1, InCall DEF FgInv, FgTypes
<1>3. CASE Head(d).kind = "authok"
  <2> DEFINE y == [aconn[k] EXCEPT !.down = Tail(d), !.up = Append(@, o)]
  <2>1. Greets(aconn[k])
    BY <1>1 DEF FgInv, Shapes
  <2>2. d = <<Line("authok", 0)>> /\ aconn[k].up = <<>> /\ aconn[k].srv = "serve"
    <3>1. d # <<Line("error", 0)>>
      BY <1>3, Single DEF Line
    <3> QED
      BY <1>1, <2>1, <3>1 DEF Greets
  <2>3. Tail(d) = <<>> /\ Append(aconn[k].up, o) = <<o>>
    BY <2>2, Single
  <2>4. <<o>> \in Seq(0..Auth)
    <3>1. o \in 0..Auth
      BY <1>2, FgAssumption DEF GuestCall, Auth
    <3> QED
      BY <3>1
  <2>5. y \in AgentEnd /\ y.up = <<o>> /\ y.down = <<>> /\ y.srv = "serve"
    <3>1. Tail(d) \in Seq(AgentLine) /\ Append(aconn[k].up, o) \in Seq(0..Auth)
      BY <2>3, <2>4, EmptySeq
    <3> QED
      BY <1>2, <2>2, <2>3, <3>1 DEF AgentEnd
  <2>6. aconn' = [aconn EXCEPT ![k] = y]
    BY <1>3 DEF ReadAuth
  <2>7. gtask' = [gtask EXCEPT ![t] = [at |-> "sent", op |-> o, conn |-> k]]
    BY <1>3 DEF ReadAuth, FgInv, FgTypes
  <2> HIDE DEF y
  <2>8. Carries(y, o)
    BY <2>5 DEF Carries
  <2>9. \A u \in Task \ {t} : gtask[u].at \in Busy => gtask[u].conn # k
    BY <1>1 DEF FgInv, Owned
  <2>10. /\ UNCHANGED <<gated, token, calls, ran, got>> /\ apool' = apool /\ aopened' = aopened
         /\ "sent" \in Busy
    BY DEF ReadAuth, Busy
  <2>11. /\ apool' \in Seq(AgentConn) /\ Range(apool') = Range(apool) \ {k}
         /\ \A i, j \in DOMAIN apool' : apool'[i] = apool'[j] => i = j
    BY <1>1, <2>10 DEF FgInv, FgTypes, Owned
  <2>12. /\ \A l \in AgentConn \ {k} : l <= aopened' => l <= aopened
         /\ aopened' \in 0..MaxOpen /\ aopened <= aopened' /\ k <= aopened'
    BY <1>2, <2>10 DEF FgInv, FgTypes
  <2>13. gtask[t].conn = k /\ gtask[t].at \in {"pick", "auth"}
         /\ (y.srv \in {"serve", "run"} => y.srv = aconn[k].srv)
    BY <1>1, <2>2, <2>5
  <2> DEFINE at == "sent"
  <2>14. /\ at \in Busy /\ at # "auth"
         /\ gtask' = [gtask EXCEPT ![t] = [at |-> at, op |-> gtask[t].op, conn |-> k]]
    BY <2>7, <2>10
  <2> HIDE DEF k, d, at
  <2>15. gtask[t].at \in {"pick", "auth"} /\ (gtask[t].at = "auth" => gtask[t].conn = k)
    BY <2>13
  <2>16. (at = "sent" => Carries(y, gtask[t].op)) /\ (at = "auth" => Greets(y))
         /\ (y.srv \in {"serve", "run"} => y.srv = aconn[k].srv)
    BY <2>8, <2>13, <2>14
  <2>17. Dials(t, k, y, at)
    BY <2>6, <2>9, <2>10, <2>11, <2>12, <2>14, <2>15, <2>16 DEF Dials
  <2> QED
    BY <1>2, <2>5, <2>14, <2>17, FirstLine
<1>4. CASE Head(d).kind # "authok"
  BY <1>1, <1>4, HangsUp DEF ReadAuth, FgInv, FgTypes, WarmAnswersOwn
<1> QED
  BY <1>3, <1>4

\* The line that answers a request, and where its connection goes.
LEMMA ReadAnswerKeeps == ASSUME FgInv, NEW t \in Task, ReadAnswer(t) PROVE FgInv'
<1> DEFINE k == gtask[t].conn
           o == gtask[t].op
           d == aconn[k].down
           l == Head(d)
<1>1. gtask[t].at = "sent" /\ gtask[t].at \in Busy /\ d # <<>>
      /\ gtask' = [gtask EXCEPT ![t] = Free]
      /\ UNCHANGED <<gated, token, calls, aopened, ran>>
  BY DEF ReadAnswer, Busy
<1>2. k \in AgentConn /\ k \in 1..aopened /\ o \in GuestCall /\ aconn[k] \in AgentEnd
  BY <1>1, InCall DEF FgInv, FgTypes
<1>3. Carries(aconn[k], o)
  BY <1>1 DEF FgInv, Shapes
<1>4. CASE l.kind # "answer"
  BY <1>1, <1>4, HangsUp DEF ReadAnswer, FgInv, FgTypes, WarmAnswersOwn
<1>5. CASE l.kind = "answer"
  <2>1. got' = [got EXCEPT ![o] = l.op]
    BY <1>5 DEF ReadAnswer
  <2>2. aconn[k].srv = "serve" /\ aconn[k].up = <<>> /\ \E kind \in {"answer", "error"} : d = <<Line(kind, o)>>
    <3>1. d # <<Line("error", 0)>>
      BY <1>5, Single DEF Line
    <3> QED
      BY <1>1, <1>3, <3>1 DEF Carries
  <2>3. l.op = o /\ Tail(d) = <<>>
    BY <2>2, Single DEF Line
  <2>4. o \in 0..MaxCalls
    BY <1>2, FgAssumption DEF GuestCall
  <2>5. got' \in [GuestCall -> 0..MaxCalls] /\ WarmAnswersOwn'
    <3>1. got' = [got EXCEPT ![o] = o]
      BY <2>1, <2>3
    <3> HIDE DEF o
    <3> QED
      BY <1>2, <2>4, <3>1 DEF FgInv, FgTypes, WarmAnswersOwn
  <2>6. CASE aconn' = Close(k) /\ UNCHANGED apool
    BY <1>1, <2>5, <2>6, HangsUp
  <2>7. CASE /\ apool' = Append(apool, k)
             /\ aconn' = [aconn EXCEPT ![k].down = Tail(d), ![k].warm = TRUE]
    <3> DEFINE y == [aconn[k] EXCEPT !.down = Tail(d), !.warm = TRUE]
    <3>1. y \in AgentEnd /\ Quiet(y) /\ y.srv = aconn[k].srv /\ y.up = <<>>
      <4>1. Tail(d) \in Seq(AgentLine)
        BY <2>3, EmptySeq
      <4> QED
        BY <1>2, <2>2, <2>3, <4>1 DEF AgentEnd, Quiet
    <3>2. aconn' = [aconn EXCEPT ![k] = y]
      BY <2>7
    <3> HIDE DEF y
    <3>3. /\ aconn'[k] = y /\ aconn' \in [AgentConn -> AgentEnd]
          /\ \A m \in AgentConn \ {k} : aconn'[m] = aconn[m]
      BY <1>2, <3>1, <3>2 DEF FgInv, FgTypes
    <3>4. /\ gtask'[t] = Free /\ \A u \in Task \ {t} : gtask'[u] = gtask[u]
          /\ gtask' \in [Task -> [at : {"idle", "pick", "auth", "sent"}, op : 0..MaxCalls,
                                  conn : 0..MaxOpen]]
      <4>1. Free \in [at : {"idle", "pick", "auth", "sent"}, op : 0..MaxCalls, conn : 0..MaxOpen]
        BY FgAssumption DEF Free
      <4> QED
        BY <1>1, <4>1 DEF FgInv, FgTypes
    <3>5. gtask'[t].at = "idle"
      BY <3>4 DEF Free
    <3>6. k \notin Range(apool)
      BY <1>1 DEF FgInv, Owned
    <3>7. /\ apool' \in Seq(AgentConn) /\ Range(apool') = Range(apool) \cup {k}
          /\ \A i, j \in DOMAIN apool' : apool'[i] = apool'[j] => i = j
      <4>1. apool \in Seq(AgentConn) /\ \A i, j \in DOMAIN apool : apool[i] = apool[j] => i = j
        BY DEF FgInv, FgTypes, Owned
      <4> HIDE DEF k
      <4> QED
        BY <1>2, <2>7, <3>6, <4>1, PoolPush
    <3>8. \A u \in Task : gtask'[u].at \in Busy =>
            u # t /\ gtask'[u] = gtask[u] /\ gtask[u].at \in Busy /\ gtask[u].conn # k
      BY <1>1, <3>4, <3>5 DEF FgInv, Owned, Busy
    <3> HIDE DEF k
    <3>9. FgTypes'
      BY <1>1, <2>5, <3>3, <3>4, <3>7 DEF FgInv, FgTypes
    <3>10. Owned'
      BY <1>1, <1>2, <3>7, <3>8 DEF FgInv, Owned
    <3>11. Shapes'
      <4>1. \A m \in AgentConn : m > aopened' => aconn'[m] = NoConn
        <5>1. ~(k > aopened)
          BY <1>2 DEF FgInv, FgTypes
        <5> QED
          BY <1>1, <3>3, <5>1 DEF FgInv, Shapes
      <4>2. \A m \in Range(apool') : Quiet(aconn'[m])
        <5>1. Range(apool) \subseteq AgentConn
          BY DEF FgInv, FgTypes, Range
        <5> QED
          BY <3>1, <3>3, <3>7, <5>1 DEF FgInv, Shapes
      <4>3. \A u \in Task : /\ gtask'[u].at = "sent" => Carries(aconn'[gtask'[u].conn], gtask'[u].op)
                            /\ gtask'[u].at = "auth" => Greets(aconn'[gtask'[u].conn])
        <5> SUFFICES ASSUME NEW u \in Task, gtask'[u].at \in Busy
                     PROVE  /\ gtask'[u].at = "sent" => Carries(aconn'[gtask'[u].conn], gtask'[u].op)
                            /\ gtask'[u].at = "auth" => Greets(aconn'[gtask'[u].conn])
          BY DEF Busy
        <5>1. gtask'[u] = gtask[u] /\ gtask[u].conn # k /\ gtask[u].conn \in AgentConn
          BY <3>8, InCall
        <5> QED
          BY <3>3, <5>1 DEF FgInv, Shapes
      <4>4. \A m \in 1..aopened' :
              m \notin Range(apool') /\ (\A u \in Task : gtask'[u].at \in Busy => gtask'[u].conn # m)
                => Left(aconn'[m])
        <5> SUFFICES ASSUME NEW m \in 1..aopened, m \notin Range(apool), m # k,
                            \A u \in Task : gtask'[u].at \in Busy => gtask'[u].conn # m
                     PROVE  Left(aconn'[m])
          BY <1>1, <3>7
        <5>1. \A u \in Task : gtask[u].at \in Busy => gtask[u].conn # m
          BY <3>4 DEF k
        <5>2. m \in AgentConn
          BY FgAssumption DEF FgInv, FgTypes, AgentConn
        <5> QED
          BY <3>3, <5>1, <5>2 DEF FgInv, Shapes
      <4> QED
        BY <4>1, <4>2, <4>3, <4>4 DEF Shapes
    <3>12. Once'
      <4>1. \A m \in AgentConn : \A q \in GuestCall : Waits(aconn'[m], q) => Waits(aconn[m], q)
        BY <3>1, <3>3 DEF Waits
      <4>2. \A u \in Task : gtask'[u].at # "idle" =>
              u # t /\ gtask'[u] = gtask[u] /\ gtask[u].op \in GuestCall
        BY <3>4, <3>5, InCall
      <4> QED
        BY <1>1, <4>1, <4>2 DEF FgInv, Once
    <3>13. Guarded'
      BY <1>1, <3>1, <3>3 DEF FgInv, Guarded
    <3> QED
      BY <2>5, <3>9, <3>10, <3>11, <3>12, <3>13 DEF FgInv
  <2> QED
    BY <1>5, <2>6, <2>7 DEF ReadAnswer
<1> QED
  BY <1>4, <1>5

-----------------------------------------------------------------------------

LEMMA FgInvInit == FgInit => FgInv
<1> SUFFICES ASSUME FgInit PROVE FgInv
  OBVIOUS
<1>1. /\ Free \in [at : {"idle", "pick", "auth", "sent"}, op : 0..MaxCalls, conn : 0..MaxOpen]
      /\ Free.at = "idle" /\ 0 \in 0..MaxCalls /\ 0 \in 0..MaxOpen
  BY FgAssumption DEF Free
<1>2. NoConn \in AgentEnd /\ NoConn.up = <<>> /\ NoConn.srv = "none"
  BY <1>1, EmptySeq DEF NoConn, AgentEnd
<1>3. FgTypes
  BY <1>1, <1>2 DEF FgInit, FgTypes
<1>4. Range(apool) = {}
  BY DEF FgInit, Range
<1>5. \A t \in Task : gtask[t].at = "idle"
  BY <1>1 DEF FgInit
<1>6. \A k \in AgentConn : aconn[k] = NoConn
  BY DEF FgInit
<1>7. Owned
  BY <1>4, <1>5 DEF FgInit, Owned, Busy
<1>8. Shapes
  <2>1. aopened = 0 /\ 1..aopened = {}
    BY DEF FgInit
  <2> QED
    BY <1>4, <1>5, <1>6, <2>1 DEF Shapes
<1>9. Once
  BY <1>2, <1>5, <1>6 DEF FgInit, Once, Waits
<1>10. Guarded
  BY <1>2, <1>6 DEF FgInit, Guarded
<1> QED
  BY <1>3, <1>7, <1>8, <1>9, <1>10 DEF FgInit, FgInv, WarmAnswersOwn

LEMMA FgStep == FgInv /\ [FgNext]_fgvars => FgInv'
<1> SUFFICES ASSUME FgInv, [FgNext]_fgvars PROVE FgInv'
  OBVIOUS
<1>1. CASE UNCHANGED fgvars
  BY <1>1 DEF fgvars, FgInv, FgTypes, Owned, Shapes, Once, Guarded, WarmAnswersOwn
<1>2. CASE FgNext
  BY <1>2, RequestKeeps, BorrowKeeps, OpenKeeps, ReadAuthKeeps, ReadAnswerKeeps, GiveUpKeeps,
     AgesKeeps, AcceptsKeeps, TokenKeeps, DispatchKeeps, AnswerKeeps DEF FgNext
<1> QED
  BY <1>1, <1>2

\* Although lines carry no id, a request returns its own answer or none, for every number
\* of tasks, requests and connections and whatever the guest does
\* (forkd/guest.rs request_with_read_timeout, exchange).
THEOREM RequestsAnswered == FgSpec => []WarmAnswersOwn
BY FgInvInit, FgStep, PTL DEF FgSpec, FgInv

\* A request is executed once at most, and never for a client without the token of a
\* gated agent (forkd/guest.rs request_with_read_timeout, agent/mod.rs authenticate).
THEOREM RequestsRunOnce == FgSpec => []GatedAtMostOnce
<1>1. FgInv => GatedAtMostOnce
  BY DEF FgInv, FgTypes, Once, Guarded, GatedAtMostOnce
<1> QED
  BY <1>1, FgInvInit, FgStep, PTL DEF FgSpec

\* Whatever connections are warm, gated, given up or lost, a caller gets its own answer,
\* to a request that ran once at most (forkd/guest.rs).
THEOREM RequestsAreTrue == FgSpec => []RequestsTrue
BY RequestsAnswered, RequestsRunOnce, PTL DEF RequestsTrue

=============================================================================
