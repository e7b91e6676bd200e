---------------------------- MODULE GuestConnection ----------------------------
(***************************************************************************)
(* Framed RFB1 connections over one RuntimeService                         *)
(* (rfb-runtime/src/guest_connection.rs `serve`, the seam                  *)
(* guest_vsock::dispatcher::serve).                                        *)
(*                                                                         *)
(* Every connection runs the serve loop.  A StartTurn is looked up in the  *)
(* caches in one lock section and claimed in another; the claim moves the  *)
(* executor into a blocking worker, whose result comes back over a channel *)
(* and is applied in a third section.  When the loop ends with a turn in   *)
(* flight, a detached task waits for the result: DETACHED_TURN_WAIT first, *)
(* then it abandons the bookkeeping and waits once more.  The clock `Tick` *)
(* drives those two waits and the age of the turn, in units of 30 seconds. *)
(***************************************************************************)
EXTENDS RuntimeService, FiniteSets

CONSTANTS
  Conn,            \* connections
  TurnWait,        \* DETACHED_TURN_WAIT
  SecondWait,      \* the second wait, DETACHED_TURN_WAIT + 60 s
  MaxTurn,         \* longest legal turn, RuntimeLimits::max_runtime_seconds
  Panics           \* whether a worker may panic

ASSUME TimeAssumption == /\ TurnWait \in Nat \ {0} /\ SecondWait \in Nat \ {0}
                         /\ MaxTurn \in Nat
ASSUME PanicsAssumption == Panics \in BOOLEAN

VARIABLES
  svc,          \* the shared service struct
  pc,           \* where each connection's serve loop or detached task is
  turn,         \* the turn a connection looks up, claims or has in flight
  worker,       \* its worker: none, running, sent (result queued), panicked
  result,       \* the result queued or received
  age,          \* how long the worker has been running
  waited,       \* how long the detached task has been in its current wait
  lost,         \* how the executor was lost: no, panic, dropped
  done, called, reran  \* history, as in SerialRuntime

conns == <<pc, turn, worker, result, age, waited>>
history == <<done, called, reran>>
vars == <<svc, conns, lost, history>>

(* Locations.  loop: the select! of serve.  claim: a lookup said "not a      *)
(* replay".  settle/reap: a result (a dead worker) was taken from the select *)
(* and the lock is awaited.  wait1, wait2: the waits of the detached task;   *)
(* settled/reaped are its lock sections, lapsed the one after the first wait *)
(* elapsed.  over: everything returned, the result receiver is dropped.      *)
Locations == {"loop", "claim", "settle", "reap",
              "wait1", "wait2", "settled", "reaped", "lapsed", "over"}

Results == {"completed", "cancelled", "failed"}    \* of WorkspaceGuestExecutor

NoTurn == <<NoReq, NoReq>>

\* Types of the state, the bounds of the result caches and tombstones included.
TypeOK ==
  /\ ServiceType(svc)
  /\ pc \in [Conn -> Locations]
  /\ turn \in [Conn -> Key \cup {NoTurn}]
  /\ worker \in [Conn -> {"none", "running", "sent", "panicked"}]
  /\ result \in [Conn -> Results \cup {"none"}]
  /\ age \in [Conn -> 0..MaxTurn]
  /\ waited \in [Conn -> 0..(TurnWait + SecondWait)]
  /\ lost \in {"no", "panic", "dropped"}
  /\ done \in Seq(Key) /\ called \in Seq(Key) /\ reran \subseteq Key

Init ==
  /\ svc = FreshService
  /\ pc = [c \in Conn |-> "loop"]
  /\ turn = [c \in Conn |-> NoTurn]
  /\ worker = [c \in Conn |-> "none"]
  /\ result = [c \in Conn |-> "none"]
  /\ age = [c \in Conn |-> 0]
  /\ waited = [c \in Conn |-> 0]
  /\ lost = "no"
  /\ done = << >> /\ called = << >> /\ reran = {}

-----------------------------------------------------------------------------
(* Leaving the loop and answering *)

\* worker_active of the serve loop: a claimed turn that nobody has taken back.
InFlight(c) == worker[c] # "none" /\ pc[c] = "loop"

\* Mutant of Leaving: the loop returns and drops the result receiver.
LeavingForGood(c) == "over"

\* `break`: the detached task takes over iff a turn is in flight.
Leaving(c) == IF InFlight(c) THEN "wait1" ELSE "over"

\* After a response the loop goes on, or the write failed and it ends.
AfterWrite(c) ==
  \E written \in BOOLEAN :
    pc' = [pc EXCEPT ![c] = IF written THEN "loop" ELSE Leaving(c)]

-----------------------------------------------------------------------------
(* Frames *)

RecvHello(c, v) ==
  /\ pc[c] = "loop"
  /\ svc' = HandleHello(svc, v).svc
  /\ AfterWrite(c)
  /\ UNCHANGED <<turn, worker, result, age, waited, lost, history>>

\* StartTurn with no turn of this connection in flight: first lock section.
\* A replay writes the cached terminal; with a turn in flight, or after
\* shutdown, handle() refuses.
RecvStart(c, k) ==
  LET r == ReplayCachedTurn(svc, k)
  IN  /\ pc[c] = "loop"
      /\ IF InFlight(c) THEN AfterWrite(c) /\ UNCHANGED turn
         ELSE IF r.ans = "none"
           THEN /\ pc' = [pc EXCEPT ![c] = "claim"]
                /\ turn' = [turn EXCEPT ![c] = k]
           ELSE AfterWrite(c) /\ UNCHANGED turn
      /\ UNCHANGED <<svc, worker, result, age, waited, lost, history>>

\* Second lock section: spawn_turn, then the worker starts.  A failure to
\* write the refusal is ignored.
Claim(c) ==
  LET k == turn[c]
      r == SpawnTurn(svc, k)
  IN  /\ pc[c] = "claim"
      /\ pc' = [pc EXCEPT ![c] = "loop"]
      /\ svc' = r.svc
      /\ IF r.ans = "claimed"
           THEN /\ worker' = [worker EXCEPT ![c] = "running"]
                /\ age' = [age EXCEPT ![c] = 0]
                /\ reran' = IF Listed(done, k) \/ Listed(called, k)
                              THEN reran \cup {k} ELSE reran
                /\ UNCHANGED turn
           ELSE /\ turn' = [turn EXCEPT ![c] = NoTurn]
                /\ UNCHANGED <<worker, age, reran>>
      /\ UNCHANGED <<result, waited, lost, done, called>>

\* The executor's own cancel() only knows a turn while it runs, so with the
\* executor home it always refuses.
RecvCancel(c, k) ==
  LET r == HandleCancelFrame(svc, k, FALSE)
  IN  /\ pc[c] = "loop"
      /\ svc' = r.svc
      /\ called' = RememberCancelled(called, k, svc, svc')
      /\ AfterWrite(c)
      /\ UNCHANGED <<turn, worker, result, age, waited, lost, done, reran>>

RecvShutdown(c) ==
  /\ pc[c] = "loop"
  /\ svc' = HandleShutdown(svc)
  /\ pc' = [pc EXCEPT ![c] = Leaving(c)]
  /\ UNCHANGED <<turn, worker, result, age, waited, lost, history>>

\* End of stream, a read error, or a failed write of another answer.
Hangup(c) ==
  /\ pc[c] = "loop"
  /\ pc' = [pc EXCEPT ![c] = Leaving(c)]
  /\ UNCHANGED <<svc, turn, worker, result, age, waited, lost, history>>

-----------------------------------------------------------------------------
(* The worker *)

\* start_turn returns and the result is sent; with the receiver gone the send
\* fails and the executor in it is dropped.  The executor reports
\* "request cancelled" only after it saw the flag.
WorkerEnds(c, r) ==
  /\ worker[c] = "running"
  /\ r = "cancelled" => svc.flag
  /\ IF pc[c] = "over"
       THEN /\ worker' = [worker EXCEPT ![c] = "none"]
            /\ turn' = [turn EXCEPT ![c] = NoTurn]
            /\ lost' = "dropped"
            /\ UNCHANGED result
       ELSE /\ worker' = [worker EXCEPT ![c] = "sent"]
            /\ result' = [result EXCEPT ![c] = r]
            /\ UNCHANGED <<turn, lost>>
  /\ age' = [age EXCEPT ![c] = 0]
  /\ UNCHANGED <<svc, pc, waited, history>>

WorkerPanics(c) ==
  /\ Panics
  /\ worker[c] = "running"
  /\ worker' = [worker EXCEPT ![c] = "panicked"]
  /\ age' = [age EXCEPT ![c] = 0]
  /\ lost' = "panic"
  /\ UNCHANGED <<svc, pc, turn, result, waited, history>>

-----------------------------------------------------------------------------
(* The select! branches of the worker, and the detached task *)

TakeResult(c) ==
  /\ worker[c] = "sent"
  /\ pc[c] \in {"loop", "wait1", "wait2"}
  /\ pc' = [pc EXCEPT ![c] = IF pc[c] = "loop" THEN "settle" ELSE "settled"]
  /\ worker' = [worker EXCEPT ![c] = "none"]
  /\ waited' = [waited EXCEPT ![c] = 0]
  /\ UNCHANGED <<svc, turn, result, age, lost, history>>

\* complete_turn, from the loop (the answer is written) or from the detached
\* task (nobody is there to read it).
Settle(c) ==
  LET k == turn[c]
      r == CompleteTurn(svc, k, result[c])
  IN  /\ pc[c] \in {"settle", "settled"}
      /\ svc' = r.svc
      /\ IF pc[c] = "settle"
           THEN AfterWrite(c)
           ELSE pc' = [pc EXCEPT ![c] = "over"]
      /\ turn' = [turn EXCEPT ![c] = NoTurn]
      /\ result' = [result EXCEPT ![c] = "none"]
      /\ done' = RememberDone(done, k, svc, svc')
      /\ called' = RememberCancelled(called, k, svc, svc')
      /\ UNCHANGED <<worker, age, waited, lost, reran>>

\* The join handle (or the closed channel) reports a worker that died without
\* a result.  In the second wait nothing is left to abandon.
SeeDeadWorker(c) ==
  /\ worker[c] = "panicked"
  /\ pc[c] \in {"loop", "wait1", "wait2"}
  /\ pc' = [pc EXCEPT ![c] =
              CASE pc[c] = "loop" -> "reap" [] pc[c] = "wait1" -> "reaped"
                [] OTHER -> "over"]
  /\ worker' = [worker EXCEPT ![c] = "none"]
  /\ turn' = [turn EXCEPT ![c] = NoTurn]
  /\ waited' = [waited EXCEPT ![c] = 0]
  /\ UNCHANGED <<svc, result, age, lost, history>>

\* abandon_active_turn
Reap(c) ==
  /\ pc[c] \in {"reap", "reaped"}
  /\ svc' = AbandonActiveTurn(svc)
  /\ IF pc[c] = "reap" THEN AfterWrite(c)
                       ELSE pc' = [pc EXCEPT ![c] = "over"]
  /\ UNCHANGED <<turn, worker, result, age, waited, lost, history>>

\* The first wait elapses: the bookkeeping is abandoned under the lock, then
\* the task waits once more for the late delivery.
FirstWaitElapses(c) ==
  /\ pc[c] = "wait1"
  /\ waited[c] = TurnWait
  /\ worker[c] = "running"
  /\ pc' = [pc EXCEPT ![c] = "lapsed"]
  /\ waited' = [waited EXCEPT ![c] = 0]
  /\ UNCHANGED <<svc, turn, worker, result, age, lost, history>>

AbandonAndWait(c) ==
  /\ pc[c] = "lapsed"
  /\ svc' = AbandonActiveTurn(svc)
  /\ pc' = [pc EXCEPT ![c] = "wait2"]
  /\ UNCHANGED <<turn, worker, result, age, waited, lost, history>>

\* Mutant of SecondWaitElapses: there is no second wait.
SecondWaitSkipped(c) ==
  /\ pc[c] = "wait2"
  /\ worker[c] = "running"
  /\ pc' = [pc EXCEPT ![c] = "over"]
  /\ waited' = [waited EXCEPT ![c] = 0]
  /\ UNCHANGED <<svc, turn, worker, result, age, lost, history>>

\* The second wait elapses: the task ends and the receiver is dropped.
SecondWaitElapses(c) ==
  /\ pc[c] = "wait2"
  /\ waited[c] = SecondWait
  /\ worker[c] = "running"
  /\ pc' = [pc EXCEPT ![c] = "over"]
  /\ waited' = [waited EXCEPT ![c] = 0]
  /\ UNCHANGED <<svc, turn, worker, result, age, lost, history>>

\* A client connects again.
Connect(c) ==
  /\ pc[c] = "over"
  /\ worker[c] = "none"
  /\ pc' = [pc EXCEPT ![c] = "loop"]
  /\ UNCHANGED <<svc, turn, worker, result, age, waited, lost, history>>

-----------------------------------------------------------------------------
(* Time *)

Waiting(c) == pc[c] \in {"wait1", "wait2"}
WaitLimit(c) == IF pc[c] = "wait1" THEN TurnWait ELSE SecondWait

\* Thirty seconds pass.  Timers fire when they are due and a turn ends by its
\* deadline; both happen before time goes on.
Tick ==
  /\ \E c \in Conn : worker[c] = "running"
  /\ \A c \in Conn : worker[c] = "running" => age[c] < MaxTurn
  /\ \A c \in Conn : Waiting(c) => waited[c] < WaitLimit(c)
  /\ age' = [c \in Conn |-> IF worker[c] = "running" THEN age[c] + 1 ELSE age[c]]
  /\ waited' = [c \in Conn |-> IF Waiting(c) THEN waited[c] + 1 ELSE waited[c]]
  /\ UNCHANGED <<svc, pc, turn, worker, result, lost, history>>

Serve(c) ==
  \/ \E v \in {1, 2} : RecvHello(c, v)
  \/ \E k \in Key : RecvStart(c, k) \/ RecvCancel(c, k)
  \/ RecvShutdown(c) \/ Hangup(c) \/ Connect(c)

Internal(c) ==
  \/ Claim(c) \/ TakeResult(c) \/ Settle(c) \/ SeeDeadWorker(c) \/ Reap(c)
  \/ FirstWaitElapses(c) \/ AbandonAndWait(c) \/ SecondWaitElapses(c)

Next ==
  \/ \E c \in Conn : Serve(c) \/ Internal(c)
  \/ \E c \in Conn, r \in Results : WorkerEnds(c, r)
  \/ \E c \in Conn : WorkerPanics(c)
  \/ Tick

Spec == Init /\ [][Next]_vars

(* The tokio runtime polls every task that can go on, and a turn ends by its *)
(* deadline.  Clients need not do anything.                                  *)
FairSpec ==
  /\ Spec
  /\ \A c \in Conn : WF_vars(Internal(c))
  /\ \A c \in Conn : WF_vars(\E r \in Results : WorkerEnds(c, r))

-----------------------------------------------------------------------------
(* Properties *)

Carries(c) == worker[c] \in {"running", "sent"} \/ pc[c] \in {"settle", "settled"}

\* There is one executor: it is home, or with exactly one connection (in its
\* worker, its channel or its hands), or lost, and never in two places.
ExecutorConserved ==
  LET carriers == {c \in Conn : Carries(c)}
  IN  /\ Cardinality(carriers) + (IF svc.home THEN 1 ELSE 0)
           + (IF lost = "no" THEN 0 ELSE 1) = 1

\* No phantom turn: with the executor home no session is active, so a failed,
\* cancelled or abandoned turn never wedges its session.
NoPhantomTurn == svc.home => \A s \in Session : svc.active[s] = NoReq

\* A request among the last 2 x LIMIT recorded completions or cancellations is
\* not executed again, although lookup and claim are two lock sections.
RecentNeverReruns == reran = {}

\* After Shutdown no turn starts, although StartTurn bypasses handle(); and a worker
\* whose turn is still on the books when the runtime has shut down has been asked to
\* stop, and its cancel flag is not reset under it.
ShutdownReachesWorker ==
  \A c \in Conn :
    (svc.shutdown /\ worker[c] = "running" /\ svc.active[turn[c][1]] = turn[c][2])
      => svc.flag
ShutdownHolds ==
  [][/\ svc.shutdown => svc'.shutdown /\ (svc.home => svc'.home)
     /\ ShutdownReachesWorker']_vars

\* "the in-flight worker's late complete_turn is the single workspace
\* executor's only way home": the executor is lost to a panic only.
LostOnlyByPanic == lost # "dropped"

\* A claimed executor comes home, whatever clients do, unless its worker panics.
ExecutorComesHome == ~svc.home ~> svc.home \/ lost = "panic"

=============================================================================
