----------------------------- MODULE SerialRuntime -----------------------------
(*****************************************************************************)
(* RuntimeService driven by one caller through `handle` alone: every turn    *)
(* runs to its result under the caller's lock, so the executor never leaves  *)
(* the service.  The executor is any GuestExecutor: a turn may end, fail, or *)
(* answer with events that do not end it (`started`), and its cancel() may   *)
(* succeed or fail.                                                          *)
(*****************************************************************************)
EXTENDS RuntimeService

VARIABLES
  svc,          \* the service struct
  done,         \* window of the keys most recently completed
  called,       \* window of the keys most recently cancelled
  reran         \* keys that were executed although a window lists them

vars == <<svc, done, called, reran>>

\* Types of the state, the bounds of the result caches and tombstones included.
TypeOK ==
  /\ ServiceType(svc)
  /\ done \in Seq(Key) /\ called \in Seq(Key)
  /\ reran \subseteq Key

Init == svc = FreshService /\ done = << >> /\ called = << >> /\ reran = {}

Hello(v) ==
  /\ svc' = HandleHello(svc, v).svc
  /\ UNCHANGED <<done, called, reran>>

StartTurn(k, result) ==
  /\ svc' = HandleStart(svc, k, result).svc
  /\ reran' = IF StartRuns(svc, k) /\ (Listed(done, k) \/ Listed(called, k))
                THEN reran \cup {k} ELSE reran
  /\ done' = RememberDone(done, k, svc, svc')
  /\ UNCHANGED called

Cancel(k, stopped) ==
  /\ svc' = HandleCancelFrame(svc, k, stopped).svc
  /\ called' = RememberCancelled(called, k, svc, svc')
  /\ UNCHANGED <<done, reran>>

Shutdown ==
  /\ svc' = HandleShutdown(svc)
  /\ UNCHANGED <<done, called, reran>>

Next ==
  \/ \E v \in {1, 2} : Hello(v)
  \/ \E k \in Key, r \in {"completed", "started", "failed"} : StartTurn(k, r)
  \/ \E k \in Key, b \in BOOLEAN : Cancel(k, b)
  \/ Shutdown

Spec == Init /\ [][Next]_vars

\* A request whose end is among the last 2 x LIMIT recorded completions or
\* cancellations is never executed again, however often it is redelivered: the
\* result caches and their tombstones together remember that many.
RecentNeverReruns == reran = {}

\* A session has one active request, and a request that is over is not active:
\* no session stays wedged on a completed or cancelled request.
SettledNotActive ==
  \A k \in Key : Settled(svc, k) => svc.active[k[1]] # k[2]

=============================================================================
