------------------------------- MODULE ZbrtGuest -------------------------------
(****************************************************************************)
(* The guest end of a ZBRT connection                                       *)
(* (rfb-runtime/src/zeroboot_connection.rs `serve`).                        *)
(*                                                                          *)
(* The serve loop owns a RuntimeService of its own.  It writes what it owes *)
(* (`owed`) before it takes anything else; then it takes, in this order, a  *)
(* message of the turn's worker, the end of a panicked worker, a frame.     *)
(****************************************************************************)
EXTENDS ZbrtWire, RuntimeService

CONSTANTS
  WorkerCap,         \* WORKER_CHANNEL_CAPACITY
  Retention,         \* TERMINATED_RETENTION
  MaxOutput          \* output chunks of a turn

ASSUME GuestAssumption ==
  /\ WorkerCap \in Nat \ {0} /\ Retention \in Nat \ {0} /\ MaxOutput \in Nat
  /\ Turn \subseteq Request
  /\ Cardinality(Session) = 1

VARIABLES
  svc,          \* the connection's RuntimeService
  gpc,          \* serve, teardown, reaping (waits for the worker), gone
  greeted,      \* handshaked
  active,       \* active_id; worker_active is active # None
  known,        \* requests: absent, open, terminated
  order,        \* terminated_order
  worker,       \* none, running, panicked
  outbox,       \* the worker channel
  owed,         \* frames the serve loop is writing
  wrote         \* history: Output frames written for each turn

guest == <<svc, gpc, greeted, active, known, order, worker, outbox, owed, wrote>>

KeyOf(t) == <<CHOOSE s \in Session : TRUE, t>>

Messages == [kind : {"output"}, id : Turn]
              \cup [kind : {"completed", "cancelled", "failed"}, id : Turn]

GuestType ==
  /\ ServiceType(svc)
  /\ gpc \in {"serve", "teardown", "reaping", "gone"}
  /\ greeted \in BOOLEAN
  /\ active \in Turn \cup {None}
  /\ known \in [Turn -> {"absent", "open", "terminated"}]
  /\ order \in Seq(Turn) /\ Len(order) <= Retention
  /\ worker \in {"none", "running", "panicked"}
  /\ outbox \in Seq(Messages) /\ Len(outbox) <= WorkerCap
  /\ owed \in Seq([kind : Answer, id : Id])
  /\ wrote \in [Turn -> 0..MaxOutput]

GuestInit ==
  /\ svc = FreshService
  /\ gpc = "serve"
  /\ greeted = FALSE
  /\ active = None
  /\ known = [t \in Turn |-> "absent"]
  /\ order = << >>
  /\ worker = "none"
  /\ outbox = << >>
  /\ owed = << >>
  /\ wrote = [t \in Turn |-> 0]

-----------------------------------------------------------------------------
(* The loop *)

Serving == gpc = "serve" /\ owed = << >>

\* The loop ends: straight away, or with the teardown of the active turn.
Leave ==
  IF active = None THEN gpc' = "gone" /\ link' = "cut"
                   ELSE gpc' = "teardown" /\ UNCHANGED link

\* write_frame_async: the peer is slow, takes the frame, or is gone.
WriteOwed ==
  /\ gpc = "serve"
  /\ owed # << >>
  /\ \/ /\ link # "cut"
        /\ Len(down) < WireCap
        /\ down' = Append(down, Head(owed))
        /\ owed' = Tail(owed)
        /\ UNCHANGED <<gpc, link>>
     \/ /\ link = "cut"
        /\ Leave
        /\ owed' = << >>
        /\ UNCHANGED down
  /\ UNCHANGED <<up, svc, greeted, active, known, order, worker, outbox, wrote>>

\* End of stream or a read error.
ReadFails ==
  /\ Serving
  /\ link = "cut" \/ (link = "fin" /\ up = << >>)
  /\ Leave
  /\ UNCHANGED <<up, down, svc, greeted, active, known, order, worker, outbox, owed, wrote>>

\* The biased select!: a frame is taken when the worker has nothing to say.
Takes(kind, i) ==
  /\ Serving
  /\ up # << >>
  /\ Head(up) = Frame(kind, i)
  /\ active # None => outbox = << >> /\ worker # "panicked"
  /\ up' = Tail(up)

-----------------------------------------------------------------------------
(* Frames *)

\* handle_hello, after the service's own handshake.
TakeHello(i) ==
  /\ Takes("Hello", i)
  /\ svc' = HandleHello(svc, 1).svc
  /\ greeted' = TRUE
  /\ owed' = <<Frame("HelloAck", i)>>
  /\ UNCHANGED <<down, link, gpc, active, known, order, worker, outbox, wrote>>

\* terminal_frame()
EndFrame(t, ans) == Frame(IF ans \in Terminals THEN "Exit" ELSE "Error", t)

\* Mutant of Terminate: nothing is forgotten.
TerminateKeeping(t) ==
  /\ order' = Append(order, t)
  /\ known' = [known EXCEPT ![t] = "terminated"]

\* A terminal frame is owed; the request is remembered as terminated, the
\* oldest such is forgotten when there are too many.
Terminate(t) ==
  LET q == Append(order, t)
      k == [known EXCEPT ![t] = "terminated"]
  IN  IF Len(q) > Retention
        THEN order' = Tail(q) /\ known' = [k EXCEPT ![Head(q)] = "absent"]
        ELSE order' = q /\ known' = k

\* handle_execute: fail closed before the handshake, with a turn active, on a
\* known id, or when the service refuses.
RefuseExecute(t) ==
  /\ Takes("Execute", t)
  /\ \/ ~greeted \/ active # None \/ known[t] # "absent"
     \/ SpawnTurn(svc, KeyOf(t)).ans # "claimed"
  /\ owed' = <<Frame("Error", t)>>
  /\ UNCHANGED <<down, link, svc, gpc, greeted, active, known, order, worker, outbox, wrote>>

Accepts(t) ==
  /\ Takes("Execute", t)
  /\ greeted /\ active = None /\ known[t] = "absent"
  /\ SpawnTurn(svc, KeyOf(t)).ans = "claimed"

\* handle_execute: a process is run by a worker.
SpawnWorker(t) ==
  /\ Accepts(t)
  /\ svc' = SpawnTurn(svc, KeyOf(t)).svc
  /\ known' = [known EXCEPT ![t] = "open"]
  /\ wrote' = [wrote EXCEPT ![t] = 0]
  /\ active' = t
  /\ worker' = "running"
  /\ UNCHANGED <<down, link, gpc, greeted, order, outbox, owed>>

\* handle_execute: a builtin is run on the spot, and may panic.
RunBuiltin(t, n, r) ==
  LET claimed == SpawnTurn(svc, KeyOf(t)).svc
      c == CompleteTurn(claimed, KeyOf(t), r)
  IN  /\ Accepts(t)
      /\ IF r = "panic"
           THEN /\ svc' = AbandonActiveTurn(claimed)
                /\ owed' = <<Frame("Error", t)>>
                /\ wrote' = [wrote EXCEPT ![t] = 0]
           ELSE /\ svc' = c.svc
                /\ owed' = Append([i \in 1..n |-> Frame("Output", t)], EndFrame(t, c.ans))
                /\ wrote' = [wrote EXCEPT ![t] = n]
      /\ Terminate(t)
      /\ UNCHANGED <<down, link, gpc, greeted, active, worker, outbox>>

\* What handle_cancel finds: nothing to cancel, a target that is not the active
\* request, or the active request.
Discharged(i) == i \in Turn /\ known[i] = "terminated"
Mismatch(i) == active # None /\ i \in Turn /\ i # active /\ ~Discharged(i)
Hits(i) == active # None /\ (i \notin Turn \/ i = active)

\* Mutant of TakeCancel: the cancelled turn is answered at once.
CancelAnswersTurn(i) ==
  /\ Takes("Cancel", i)
  /\ IF greeted /\ Hits(i)
       THEN /\ svc' = CancelActive(svc, KeyOf(active)).svc
            /\ owed' = <<Frame("CancelAck", i), Frame("Exit", active)>>
       ELSE /\ owed' = <<Frame(IF ~greeted \/ Mismatch(i) THEN "Error" ELSE "CancelAck", i)>>
            /\ UNCHANGED svc
  /\ UNCHANGED <<down, link, gpc, greeted, active, known, order, worker, outbox, wrote>>

\* handle_cancel
TakeCancel(i) ==
  /\ Takes("Cancel", i)
  /\ IF greeted /\ Hits(i)
       THEN LET c == CancelActive(svc, KeyOf(active))
            IN  /\ svc' = c.svc
                /\ owed' = <<Frame(IF c.ans = "error" THEN "Error" ELSE "CancelAck", i)>>
       ELSE /\ owed' = <<Frame(IF ~greeted \/ Mismatch(i) THEN "Error" ELSE "CancelAck", i)>>
            /\ UNCHANGED svc
  /\ UNCHANGED <<down, link, gpc, greeted, active, known, order, worker, outbox, wrote>>

TakeHealth(i) ==
  /\ Takes("Health", i)
  /\ owed' = <<Frame(IF greeted THEN "HealthAck" ELSE "Error", i)>>
  /\ UNCHANGED <<down, link, svc, gpc, greeted, active, known, order, worker, outbox, wrote>>

\* handle_fs: refused while the executor is out; a tree walk is also cut short
\* by a cancel flag that no turn has reset since, and any operation may fail.
TakeFs(i) ==
  /\ Takes("Fs", i)
  /\ \E k \in IF greeted /\ svc.ready /\ svc.home THEN {"FsResult", "Error"} ELSE {"Error"} :
       owed' = <<Frame(k, i)>>
  /\ UNCHANGED <<down, link, svc, gpc, greeted, active, known, order, worker, outbox, wrote>>

-----------------------------------------------------------------------------
(* The worker *)

\* The command writes a chunk.  try_send: with the channel full, or its receiver
\* gone, the chunk is dropped (and nothing changes).
WorkerWrites ==
  /\ worker = "running"
  /\ gpc # "gone"
  /\ Len(outbox) < WorkerCap
  /\ wrote[active] + Len(outbox) < MaxOutput
  /\ outbox' = Append(outbox, [kind |-> "output", id |-> active])
  /\ UNCHANGED <<wire, svc, gpc, greeted, active, known, order, worker, owed, wrote>>

\* Mutant of WorkerEnds: the result is sent with try_send, as the output is.
WorkerEndsTrying(r) ==
  /\ worker = "running"
  /\ r = "cancelled" => svc.flag
  /\ outbox' = IF Len(outbox) < WorkerCap /\ gpc # "gone"
                 THEN Append(outbox, [kind |-> r, id |-> active]) ELSE outbox
  /\ worker' = "none"
  /\ UNCHANGED <<wire, svc, gpc, greeted, active, known, order, owed, wrote>>

\* start_turn returns; blocking_send waits for room, and fails with the
\* receiver gone.  The executor reports a cancel only when it saw the flag.
WorkerEnds(r) ==
  /\ worker = "running"
  /\ r = "cancelled" => svc.flag
  /\ \/ /\ gpc # "gone"
        /\ Len(outbox) < WorkerCap
        /\ outbox' = Append(outbox, [kind |-> r, id |-> active])
     \/ /\ gpc = "gone"
        /\ UNCHANGED outbox
  /\ worker' = "none"
  /\ UNCHANGED <<wire, svc, gpc, greeted, active, known, order, owed, wrote>>

WorkerPanics ==
  /\ worker = "running"
  /\ worker' = "panicked"
  /\ UNCHANGED <<wire, svc, gpc, greeted, active, known, order, outbox, owed, wrote>>

\* A chunk of the active turn is forwarded.
ForwardOutput ==
  /\ Serving
  /\ active # None /\ outbox # << >> /\ Head(outbox).kind = "output"
  /\ outbox' = Tail(outbox)
  /\ owed' = <<Frame("Output", active)>>
  /\ wrote' = [wrote EXCEPT ![active] = @ + 1]
  /\ UNCHANGED <<wire, svc, gpc, greeted, active, known, order, worker>>

\* The terminal result: the turn is over before its frame is written.
TakeResult ==
  LET c == CompleteTurn(svc, KeyOf(active), Head(outbox).kind)
  IN  /\ Serving
      /\ active # None /\ outbox # << >> /\ Head(outbox).kind # "output"
      /\ outbox' = Tail(outbox)
      /\ svc' = c.svc
      /\ owed' = <<EndFrame(active, c.ans)>>
      /\ Terminate(active)
      /\ active' = None
      /\ UNCHANGED <<wire, gpc, greeted, worker, wrote>>

\* The join handle reports a panic: the executor is gone for good, the request
\* fails closed, and its entry stays open.
TakePanic ==
  /\ Serving
  /\ active # None /\ outbox = << >> /\ worker = "panicked"
  /\ worker' = "none"
  /\ svc' = AbandonActiveTurn(svc)
  /\ owed' = <<Frame("Error", active)>>
  /\ active' = None
  /\ UNCHANGED <<wire, gpc, greeted, known, order, outbox, wrote>>

-----------------------------------------------------------------------------
(* Teardown *)

\* Mutant of Teardown: the worker is waited for but not told.
TeardownSilently ==
  /\ gpc = "teardown"
  /\ gpc' = "reaping"
  /\ UNCHANGED <<wire, svc, greeted, active, known, order, worker, outbox, owed, wrote>>

\* teardown_active: the flag first ...
Teardown ==
  /\ gpc = "teardown"
  /\ gpc' = "reaping"
  /\ svc' = CancelActive(svc, KeyOf(active)).svc
  /\ UNCHANGED <<wire, greeted, active, known, order, worker, outbox, owed, wrote>>

\* ... then the worker's messages are drained up to its result, and serve
\* returns ...
Reap ==
  /\ gpc = "reaping"
  /\ outbox # << >>
  /\ outbox' = Tail(outbox)
  /\ IF Head(outbox).kind = "output" THEN UNCHANGED <<gpc, link>>
                                     ELSE gpc' = "gone" /\ link' = "cut"
  /\ UNCHANGED <<up, down, svc, greeted, active, known, order, worker, owed, wrote>>

\* ... or does so after ACTIVE_TEARDOWN_TIMEOUT.
ReapTimeout ==
  /\ gpc = "reaping"
  /\ gpc' = "gone" /\ link' = "cut"
  /\ outbox' = << >>
  /\ UNCHANGED <<up, down, svc, greeted, active, known, order, worker, owed, wrote>>

Serve ==
  \/ WriteOwed \/ ReadFails
  \/ \E t \in Turn : RefuseExecute(t) \/ SpawnWorker(t)
  \/ \E t \in Turn, n \in 0..MaxOutput, r \in {"completed", "failed", "panic"} :
       RunBuiltin(t, n, r)
  \/ \E i \in Turn \cup Ctl : TakeCancel(i)
  \/ \E i \in Ctl : TakeHello(i) \/ TakeHealth(i) \/ TakeFs(i)
  \/ ForwardOutput \/ TakeResult \/ TakePanic
  \/ Teardown \/ Reap

Work == \E r \in {"completed", "cancelled", "failed"} : WorkerEnds(r)

GuestNext == Serve \/ ReapTimeout \/ Work \/ WorkerWrites \/ WorkerPanics

vars == <<wire, guest>>

Init == WireInit /\ GuestInit

\* serve() has returned and the worker is done.
Gone == gpc = "gone" /\ worker # "running" /\ UNCHANGED vars

\* The host uses an id for one request at a time; a targeted Cancel reuses it.
Fresh(f) ==
  \/ f.kind = "Cancel" /\ f.id \in Turn
  \/ \A j \in DOMAIN (down \o owed) : (down \o owed)[j].id # f.id

Client == Drive /\ (Len(up') > Len(up) => Fresh(up'[Len(up')])) /\ UNCHANGED guest

Next == GuestNext \/ Client \/ Gone

(* The serve loop and the worker run; a command ends, because the executor *)
(* bounds every turn by its deadline; the peer reads what it is sent.      *)
Spec ==
  /\ Init /\ [][Next]_vars
  /\ WF_vars(Serve) /\ WF_vars(ReapTimeout) /\ WF_vars(Work)
  /\ WF_vars(DriveReads /\ UNCHANGED guest)

-----------------------------------------------------------------------------
(* Properties *)

\* Types of the connection's state and of its service, with the bounds of the
\* worker channel and of the remembered requests.
TypeOK == WireType /\ GuestType

\* Frames the serve loop is still writing count as on their way.
Peer == INSTANCE ZbrtPeer
          WITH down <- IF link = "cut" THEN down ELSE down \o owed,
               WireCap <- WireCap + MaxOutput + 1, met <- greeted, cur <- active

\* Against any host the connection does only what ZbrtPeer allows: one turn at a
\* time, its Output before its one terminal frame and none after, one answer to
\* every other request, and no turn ended by the answer to a Cancel.
ServesAsPeer == Peer!PeerSpec

\* A turn that outlives its connection has been told to stop
\* (zeroboot_connection.rs teardown_active).
TeardownStopsTurn == gpc \in {"reaping", "gone"} /\ worker = "running" => svc.flag

\* Every accepted turn's terminal frame reaches the host while the connection
\* stands, also when its worker panics or its output fills the worker channel.
TerminalReaches ==
  \A t \in Turn :
    active = t ~> link = "cut" \/ (\E k \in Ends : down # << >> /\ Head(down) = Frame(k, t))

=============================================================================
