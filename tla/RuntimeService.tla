---------------------------- MODULE RuntimeService ----------------------------
(****************************************************************************)
(* The guest runtime state machine (rfb-runtime/src/runtime_service).       *)
(*                                                                          *)
(* `RuntimeService` is a plain struct behind a mutex, so each public method *)
(* is an operator that takes the struct as a record and returns the new     *)
(* record with the answer.  The modules of the connections that own the     *)
(* mutex (GuestConnection) apply them one lock section at a time.           *)
(*                                                                          *)
(* A key is the pair (session_id, request_id).  Response payloads, event    *)
(* sequence numbers and error texts are abstracted to the answer's kind:    *)
(*   completed, cancelled - the terminal event of the turn                  *)
(*   started              - events of a turn that go on (no terminal event) *)
(*   error                - RuntimeMessage::Error                           *)
(*   ack, empty           - acknowledgement, no response                    *)
(****************************************************************************)
EXTENDS Integers, Sequences

CONSTANTS
  Session, Request,     \* identifiers a client uses
  Blank,                \* an identifier that trims to the empty string
  NoReq,                \* no active request
  CompletedLimit,       \* COMPLETED_LIMIT
  CancelledLimit        \* CANCELLED_LIMIT

ASSUME NoReqAssumption == NoReq \notin Request
ASSUME LimitAssumption == /\ CompletedLimit \in Nat \ {0}
                          /\ CancelledLimit \in Nat \ {0}

Key == Session \X Request

\* validate_identity()
ValidIdentity(k) == k[1] # Blank /\ k[2] # Blank

Terminals == {"completed", "cancelled"}          \* response_completes_turn
Answers == Terminals \cup {"started", "error", "ack", "empty"}

\* The struct right after with_executor().
FreshService ==
  [ ready            |-> FALSE,       \* protocol_ready
    completed        |-> << >>,       \* completed_requests in completed_order
    evicted          |-> << >>,       \* evicted_requests
    active           |-> [s \in Session |-> NoReq],       \* active_sessions
    cancelled        |-> << >>,       \* cancelled_sessions in cancelled_order
    evictedCancelled |-> << >>,       \* evicted_cancelled
    shutdown         |-> FALSE,
    home             |-> TRUE,        \* executor is Some
    armed            |-> FALSE,       \* turn_cancel is Some
    flag             |-> FALSE ]      \* the executor's shared cancel flag

Entry == [key : Key, resp : Answers]

\* The struct's type, and the bounds that keep a long-lived daemon's
\* bookkeeping from growing.
ServiceType(s) ==
  /\ s.ready \in BOOLEAN /\ s.shutdown \in BOOLEAN /\ s.home \in BOOLEAN
  /\ s.armed \in BOOLEAN /\ s.flag \in BOOLEAN
  /\ s.completed \in Seq(Entry) /\ s.cancelled \in Seq(Entry)
  /\ s.evicted \in Seq(Key) /\ s.evictedCancelled \in Seq(Key)
  /\ Len(s.completed) <= CompletedLimit /\ Len(s.evicted) <= CompletedLimit
  /\ Len(s.cancelled) <= CancelledLimit /\ Len(s.evictedCancelled) <= CancelledLimit
  /\ s.active \in [Session -> Request \cup {NoReq}]

-----------------------------------------------------------------------------
(* The two bounded result caches *)

Listed(q, k) == \E i \in DOMAIN q : q[i] = k
Cached(cache, k) == \E i \in DOMAIN cache : cache[i].key = k
CachedResp(cache, k) == cache[CHOOSE i \in DOMAIN cache : cache[i].key = k].resp

\* HashMap insert that keeps the position of a key already present.
Put(cache, k, r) ==
  IF Cached(cache, k)
    THEN [i \in DOMAIN cache |->
            IF cache[i].key = k THEN [key |-> k, resp |-> r] ELSE cache[i]]
    ELSE Append(cache, [key |-> k, resp |-> r])

\* Mutant of Evicting: the cache keeps one result too many.
EvictingLate(cache, limit) == IF Len(cache) > limit + 1 THEN Tail(cache) ELSE cache

\* An insert adds at most one entry, so one round of the eviction loops is all
\* they ever do: the oldest result goes, its key becomes a tombstone, and the
\* oldest tombstone goes when there are too many.
Evicting(cache, limit) == IF Len(cache) > limit THEN Tail(cache) ELSE cache

Tombstones(cache, tombs, limit) ==
  IF Len(cache) > limit
    THEN LET t == Append(tombs, cache[1].key)
         IN  IF Len(t) > limit THEN Tail(t) ELSE t
    ELSE tombs

\* Mutant of RecordCompleted: the evicted key leaves no tombstone.
RecordWithoutTombstone(s, k, r) ==
  LET c == Put(s.completed, k, r)
  IN  [s EXCEPT !.completed = Evicting(c, CompletedLimit)]

RecordCompleted(s, k, r) ==
  LET c == Put(s.completed, k, r)
  IN  [s EXCEPT !.completed = Evicting(c, CompletedLimit),
                !.evicted = Tombstones(c, @, CompletedLimit)]

RecordCancelled(s, k, r) ==
  LET c == Put(s.cancelled, k, r)
  IN  [s EXCEPT !.cancelled = Evicting(c, CancelledLimit),
                !.evictedCancelled = Tombstones(c, @, CancelledLimit)]

-----------------------------------------------------------------------------
(* The methods.  Reply(s, a) is the struct afterwards with the answer. *)

Reply(s, a) == [svc |-> s, ans |-> a]
Refuse(s) == Reply(s, "error")

\* handle(Hello): a bad version errors this connection only.
HandleHello(s, version) ==
  IF s.shutdown \/ version # 1 THEN Refuse(s)
  ELSE Reply([s EXCEPT !.ready = TRUE], "ack")

\* replay_cached_turn(): "none" means not a replay.
ReplayCachedTurn(s, k) ==
  IF s.shutdown \/ ~ValidIdentity(k) THEN Refuse(s)
  ELSE IF Cached(s.completed, k) THEN Reply(s, CachedResp(s.completed, k))
  ELSE IF Listed(s.evicted, k) \/ Listed(s.evictedCancelled, k) THEN Refuse(s)
  ELSE IF Cached(s.cancelled, k)
    THEN Reply(s, IF CachedResp(s.cancelled, k) = "empty" THEN "cancelled"
                  ELSE CachedResp(s.cancelled, k))
  ELSE Reply(s, "none")

\* What spawn_turn and handle_start refuse a key for.
Settled(s, k) ==
  \/ Cached(s.completed, k) \/ Listed(s.evicted, k)
  \/ Cached(s.cancelled, k) \/ Listed(s.evictedCancelled, k)

\* The claim itself: the executor is taken out with its cancel flag reset.
Claimed(s, k) ==
  Reply([s EXCEPT !.home = FALSE, !.armed = TRUE, !.flag = FALSE,
                  !.active[k[1]] = k[2]], "claimed")

\* Mutant of SpawnTurn: the shutdown guard of handle() is not mirrored.
SpawnAfterShutdown(s, k) ==
  IF \/ Settled(s, k) \/ s.active[k[1]] # NoReq \/ ~s.ready \/ ~s.home
    THEN Refuse(s)
    ELSE Claimed(s, k)

\* Mutant of SpawnTurn: the executor is shared with the worker, not moved.
SpawnKeepingExecutor(s, k) ==
  IF \/ s.shutdown \/ Settled(s, k) \/ s.active[k[1]] # NoReq \/ ~s.ready
    THEN Refuse(s)
    ELSE Reply([Claimed(s, k).svc EXCEPT !.home = s.home], "claimed")

\* spawn_turn()
SpawnTurn(s, k) ==
  IF \/ s.shutdown
     \/ ~ValidIdentity(k)
     \/ Settled(s, k)
     \/ s.active[k[1]] # NoReq
     \/ ~s.ready
     \/ ~s.home
    THEN Refuse(s)
    ELSE Claimed(s, k)

\* cancel_active(): the placeholder stands for "terminal not recorded yet".
CancelActive(s, k) ==
  IF ~ValidIdentity(k) THEN Refuse(s)
  ELSE IF Cached(s.cancelled, k) THEN Reply(s, "empty")
  ELSE IF s.active[k[1]] # k[2] THEN Refuse(s)
  ELSE Reply(RecordCancelled([s EXCEPT !.flag = s.armed \/ @], k, "empty"), "empty")

\* Mutant of HandleCancel: the cancelled turn's session is left active.
CancelKeepingActive(s, k, stopped) ==
  IF ~ValidIdentity(k) THEN Refuse(s)
  ELSE IF Cached(s.cancelled, k) THEN Reply(s, CachedResp(s.cancelled, k))
  ELSE IF s.active[k[1]] # k[2] \/ ~stopped THEN Refuse(s)
  ELSE Reply(RecordCancelled(s, k, "cancelled"), "cancelled")

\* handle_cancel(), the executor being home; `stopped` is what its cancel()
\* answers.
HandleCancel(s, k, stopped) ==
  IF ~ValidIdentity(k) THEN Refuse(s)
  ELSE IF Cached(s.cancelled, k) THEN Reply(s, CachedResp(s.cancelled, k))
  ELSE IF s.active[k[1]] # k[2] \/ ~stopped THEN Refuse(s)
  ELSE Reply(RecordCancelled([s EXCEPT !.active[k[1]] = NoReq], k, "cancelled"),
             "cancelled")

\* abandon_active_turn()
AbandonActiveTurn(s) ==
  [s EXCEPT !.active = [t \in Session |-> NoReq], !.armed = FALSE]

\* What a worker's result is answered with.
TurnAnswer(result, cancelled) ==
  CASE result \in {"completed", "started"} -> result
    [] result = "cancelled" \/ (result = "failed" /\ cancelled) -> "cancelled"
    [] OTHER -> "error"

\* Mutant of CompleteTurn: a failed turn leaves its session active.
CompleteKeepingFailed(s, k, result) ==
  LET was == Cached(s.cancelled, k)
      a   == TurnAnswer(result, was)
      nxt == [s EXCEPT !.home = TRUE, !.armed = FALSE,
                       !.active[k[1]] = IF a \in Terminals THEN NoReq ELSE @]
  IN  Reply(CASE was -> RecordCancelled(nxt, k, a)
              [] ~was /\ a \in Terminals -> RecordCompleted(nxt, k, a)
              [] OTHER -> nxt,
            a)

\* complete_turn(): the executor comes home, and the turn's end is recorded.
CompleteTurn(s, k, result) ==
  LET was == Cached(s.cancelled, k)
      a   == TurnAnswer(result, was)
      nxt == [s EXCEPT !.home = TRUE, !.armed = FALSE,
                       !.active[k[1]] =
                         IF a \in Terminals \cup {"error"} THEN NoReq ELSE @]
  IN  Reply(CASE was -> RecordCancelled(nxt, k, a)
              [] ~was /\ a \in Terminals -> RecordCompleted(nxt, k, a)
              [] OTHER -> nxt,
            a)

\* Whether handle_start, with the executor home, runs the turn.
StartRuns(s, k) ==
  ~s.shutdown /\ s.ready /\ ValidIdentity(k) /\ ~Settled(s, k) /\ s.active[k[1]] = NoReq

\* handle(StartTurn) with the executor home: the turn runs under the lock.
HandleStart(s, k, result) ==
  IF s.shutdown \/ ~s.ready \/ ~ValidIdentity(k) THEN Refuse(s)
  ELSE IF Settled(s, k) THEN ReplayCachedTurn(s, k)
  ELSE IF s.active[k[1]] # NoReq THEN Refuse(s)
  ELSE LET a  == IF result \in {"completed", "started"} THEN result ELSE "error"
           nxt == [s EXCEPT !.flag = FALSE,
                           !.active[k[1]] = IF a = "started" THEN k[2] ELSE NoReq]
       IN  Reply(IF a = "completed" THEN RecordCompleted(nxt, k, a) ELSE nxt, a)

\* Mutant of HandleShutdown: the worker that has the executor is not asked to
\* stop.
ShutdownSilently(s) ==
  IF s.home
    THEN [FreshService EXCEPT !.ready = s.ready, !.shutdown = TRUE, !.flag = s.flag]
    ELSE [s EXCEPT !.shutdown = TRUE]

\* handle(Shutdown): with the executor home the bookkeeping is cleared, with
\* the executor out the running turn is asked to stop.
HandleShutdown(s) ==
  IF s.home
    THEN [FreshService EXCEPT !.ready = s.ready, !.shutdown = TRUE,
                              !.armed = s.armed, !.flag = s.armed \/ s.flag]
    ELSE [s EXCEPT !.shutdown = TRUE, !.flag = s.armed \/ @]

\* handle(Cancel), whichever way the executor is.
HandleCancelFrame(s, k, stopped) ==
  IF s.shutdown THEN Refuse(s)
  ELSE IF ~s.home THEN CancelActive(s, k)
  ELSE IF ~s.ready THEN Refuse(s)
  ELSE HandleCancel(s, k, stopped)

-----------------------------------------------------------------------------
(* History: the reference the caches are compared with.  A window lists the *)
(* keys most recently recorded as completed (cancelled), oldest first, as   *)
(* many as results and tombstones together are meant to remember.           *)

LastN(q, n) == IF Len(q) > n THEN SubSeq(q, Len(q) - n + 1, Len(q)) ELSE q

Remember(win, k, before, after, n) ==
  IF Cached(after, k) /\ ~Cached(before, k) THEN LastN(Append(win, k), n) ELSE win

RememberDone(win, k, s, t) ==
  Remember(win, k, s.completed, t.completed, 2 * CompletedLimit)

RememberCancelled(win, k, s, t) ==
  Remember(win, k, s.cancelled, t.cancelled, 2 * CancelledLimit)

=============================================================================
