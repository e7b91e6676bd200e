------------------------------- MODULE ZbrtHost -------------------------------
(*****************************************************************************)
(* The host end of a ZBRT connection (rfb/src/zeroboot/provider.rs,          *)
(* ZeroBootSession, its reader task and ZeroBootStream), against the guest   *)
(* end that ZbrtPeer describes.                                              *)
(*                                                                           *)
(* A request is registered in the inflight map, written, and answered over   *)
(* its own bounded channel, which the reader task fills.  exec() and         *)
(* stream() also hold the turn lock and publish their id in active_turn.     *)
(* Callers wait with a deadline, drop their futures whenever they like, stop *)
(* streams, and cancel whatever turn is published.  Requests are numbered:   *)
(* each id is used once.  The session is open: its Hello exchange is done.   *)
(*****************************************************************************)
EXTENDS ZbrtPeer

CONSTANTS
  Stream,            \* the turns started with stream()
  ChanCap,           \* FRAME_CHANNEL_CAPACITY
  Budget,            \* DEMUX_REQUEST_BYTE_BUDGET, in Output frames
  OutputLimit        \* MAX_EXEC_OUTPUT_BYTES, in Output frames

ASSUME HostAssumption ==
  /\ Stream \subseteq Turn
  /\ ChanCap \in Nat \ {0} /\ OutputLimit \in Nat /\ Budget \in Nat

Exec == Turn \ Stream

VARIABLES
  at,           \* where each request's call is
  chan,         \* the frames queued for it
  inflight,     \* ids registered in the inflight map
  turnLock,     \* who holds turn_lock
  activeTurn,   \* the published id
  reader,       \* the reader task: reading, dead, over, or the terminal frame it delivers
  admitted,     \* Output frames admitted to each channel
  lossy,        \* requests that lost Output frames (the keys of `dropped`)
  aim,          \* the target each call of cancel_active() read, or None
  outcome,      \* how each call ended: with exit code (ok), otherwise by a terminal
                \* frame (failed), early without one, or orphaned: before its guard
  got           \* Output frames each turn's caller consumed

calls == <<at, chan, inflight, turnLock, activeTurn, outcome, got>>
routing == <<reader, admitted, lossy>>
host == <<calls, routing, aim>>
vars == <<wire, peer, host>>

Guarded == {"send", "wait", "cancel", "drain"}     \* a guard exists

HostType ==
  /\ at \in [Id -> {"new", "queue", "registered", "aim", "ended"} \cup Guarded]
  /\ chan \in [Id -> Seq([kind : Answer, id : Id])]
  /\ \A i \in Id : Len(chan[i]) <= ChanCap
  /\ inflight \in SUBSET Id
  /\ turnLock \in Turn \cup {None} /\ activeTurn \in Turn \cup {None}
  /\ reader.at \in {"read", "deliver", "dead", "over"}
  /\ admitted \in [Turn -> 0..Budget]
  /\ lossy \in SUBSET Turn
  /\ aim \in [Ctl -> Turn \cup {None}]
  /\ outcome \in [Id -> {"none", "ok", "failed", "early", "orphan"}]
  /\ got \in [Turn -> 0..OutputLimit]

\* ZeroBootSession::open has returned.
HostInit ==
  /\ at = [i \in Id |-> "new"]
  /\ chan = [i \in Id |-> << >>]
  /\ inflight = {}
  /\ turnLock = None /\ activeTurn = None
  /\ reader = [at |-> "read"]
  /\ admitted = [t \in Turn |-> 0]
  /\ lossy = {}
  /\ aim = [i \in Ctl |-> None]
  /\ outcome = [i \in Id |-> "none"]
  /\ got = [t \in Turn |-> 0]

-----------------------------------------------------------------------------
(* Starting and ending a call *)

\* exchange(): registered and guarded in one go.
BeginExchange(i) ==
  /\ at[i] = "new"
  /\ inflight' = inflight \cup {i}
  /\ at' = [at EXCEPT ![i] = "send"]
  /\ UNCHANGED <<wire, peer, chan, turnLock, activeTurn, outcome, got, routing, aim>>

\* begin_turn(): queue on the turn lock ...
BeginTurn(t) ==
  /\ at[t] = "new"
  /\ at' = [at EXCEPT ![t] = "queue"]
  /\ UNCHANGED <<wire, peer, chan, inflight, turnLock, activeTurn, outcome, got, routing,
                 aim>>

\* ... register the channel ...
Register(t) ==
  /\ at[t] = "queue"
  /\ turnLock = None
  /\ turnLock' = t
  /\ inflight' = inflight \cup {t}
  /\ at' = [at EXCEPT ![t] = "registered"]
  /\ UNCHANGED <<wire, peer, chan, activeTurn, outcome, got, routing, aim>>

\* ... publish the id, and build the guard.
Publish(t) ==
  /\ at[t] = "registered"
  /\ activeTurn' = t
  /\ at' = [at EXCEPT ![t] = "send"]
  /\ UNCHANGED <<wire, peer, chan, inflight, turnLock, outcome, got, routing, aim>>

\* A call ends: its receiver is dropped, and with its guard the registration and
\* the turn lock.  InflightGuard leaves the removal to a task when the map's lock
\* is contended; until then frames go to a closed channel instead of nowhere.
End(i, why) ==
  /\ at' = [at EXCEPT ![i] = "ended"]
  /\ chan' = [chan EXCEPT ![i] = << >>]
  /\ outcome' = [outcome EXCEPT ![i] = why]
  /\ got' = IF i \in Turn /\ why # "ok" THEN [got EXCEPT ![i] = 0] ELSE got
  /\ inflight' = IF why = "orphan" THEN inflight ELSE inflight \ {i}
  /\ turnLock' = IF turnLock = i THEN None ELSE turnLock
  /\ UNCHANGED activeTurn

\* Mutant of Unpublish: whatever is published is cleared.
UnpublishAny(t) ==
  /\ at[t] = "ended"
  /\ outcome[t] # "orphan"
  /\ activeTurn # None
  /\ activeTurn' = None
  /\ UNCHANGED <<wire, peer, at, chan, inflight, turnLock, outcome, got, routing, aim>>

\* Drop of TurnGuard: active_turn is cleared, on the spot or, when its lock is
\* contended, by a task that may run when another turn is published already.
Unpublish(t) ==
  /\ at[t] = "ended"
  /\ activeTurn = t
  /\ activeTurn' = None
  /\ UNCHANGED <<wire, peer, at, chan, inflight, turnLock, outcome, got, routing, aim>>

-----------------------------------------------------------------------------
(* Writing *)

\* write_request(): the frame goes out, is lost on a dead connection, or
\* (Failing) the write reports the death.
Sends(kind, i) ==
  \/ link = "open" /\ Len(up) < WireCap /\ up' = Append(up, Frame(kind, i))
  \/ link = "cut" /\ UNCHANGED up
Failing == link # "open"

\* health(), fs() and cancel() are the same exchange.
KindOf(i) == IF i \in Turn THEN "Execute" ELSE "Health"

Send(i) ==
  /\ at[i] = "send"
  /\ \/ /\ Sends(KindOf(i), i)
        /\ at' = [at EXCEPT ![i] = "wait"]
        /\ UNCHANGED <<chan, inflight, turnLock, activeTurn, outcome, got>>
     \/ Failing /\ End(i, "early") /\ UNCHANGED up
  /\ UNCHANGED <<down, link, peer, routing, aim>>

\* send_cancel_target() of a timed-out exec or a stopped stream, whose failure
\* is left to the drain.
SendCancel(t) ==
  /\ at[t] = "cancel"
  /\ Sends("Cancel", t) \/ (Failing /\ UNCHANGED up)
  /\ at' = [at EXCEPT ![t] = "drain"]
  /\ UNCHANGED <<down, link, peer, chan, inflight, turnLock, activeTurn, outcome, got, routing,
                 aim>>

\* cancel_active(): the published turn is read ...
ReadActive(i) ==
  /\ at[i] = "new"
  /\ activeTurn # None
  /\ aim' = [aim EXCEPT ![i] = activeTurn]
  /\ at' = [at EXCEPT ![i] = "aim"]
  /\ UNCHANGED <<wire, peer, chan, inflight, turnLock, activeTurn, outcome, got, routing>>

\* ... then its Cancel written.  The answer goes to the turn's own channel.
CancelActiveTurn(i) ==
  /\ at[i] = "aim"
  /\ Sends("Cancel", aim[i]) \/ (Failing /\ UNCHANGED up)
  /\ at' = [at EXCEPT ![i] = "ended"]
  /\ aim' = [aim EXCEPT ![i] = None]
  /\ UNCHANGED <<down, link, peer, chan, inflight, turnLock, activeTurn, outcome, got, routing>>

\* close(): the write half is shut down.
Close ==
  /\ link = "open"
  /\ link' = "fin"
  /\ UNCHANGED <<up, down, peer, host>>

-----------------------------------------------------------------------------
(* Waiting *)

Skip(i) ==
  /\ chan' = [chan EXCEPT ![i] = Tail(@)]
  /\ UNCHANGED <<at, inflight, turnLock, activeTurn, outcome>>

\* exec(), next_event() or exchange() takes the frame that ends the call: for an
\* exchange any frame does.
TakeEnd(i) ==
  LET f == Head(chan[i])
  IN  /\ at[i] = "wait" /\ chan[i] # << >>
      /\ f.kind \in Ends \/ i \notin Turn
      /\ End(i, IF f.kind = "Error" THEN "failed" ELSE "ok")
      /\ UNCHANGED <<wire, peer, routing, aim>>

\* Output, which beyond the limit is an error.
TakeOutput(t) ==
  /\ at[t] = "wait" /\ chan[t] # << >>
  /\ Head(chan[t]).kind = "Output"
  /\ IF got[t] + 1 > OutputLimit
       THEN End(t, "early")
       ELSE Skip(t) /\ got' = [got EXCEPT ![t] = @ + 1]
  /\ UNCHANGED <<wire, peer, routing, aim>>

\* Mutant of TakeAck: exec takes the acknowledgement of a cancel for its end.
TakeAckAsEnd(t) ==
  /\ at[t] = "wait" /\ chan[t] # << >>
  /\ Head(chan[t]).kind \in Acks
  /\ End(t, "failed")
  /\ UNCHANGED <<wire, peer, routing, aim>>

\* The acknowledgement of a cancel: exec passes over it, next_event reports an
\* unexpected frame and goes on.
TakeAck(t) ==
  /\ at[t] = "wait" /\ chan[t] # << >>
  /\ Head(chan[t]).kind \in Acks
  /\ Skip(t)
  /\ UNCHANGED <<wire, peer, got, routing, aim>>

\* The drain of a timed-out exec or of stop(): everything but the terminal is
\* skipped.
Drain(t) ==
  /\ at[t] = "drain" /\ chan[t] # << >>
  /\ \/ Head(chan[t]).kind \in Ends /\ End(t, "failed")
     \/ Head(chan[t]).kind \notin Ends /\ Skip(t) /\ UNCHANGED got
  /\ UNCHANGED <<wire, peer, routing, aim>>

\* recv() answers None: every sender of the channel is gone.
SeeClosed(i) ==
  /\ at[i] \in {"wait", "drain"}
  /\ chan[i] = << >>
  /\ i \notin inflight
  /\ ~(reader.at = "deliver" /\ reader.frame.id = i)
  /\ End(i, "early")
  /\ UNCHANGED <<wire, peer, routing, aim>>

\* The deadline passes, with frames queued or not: an exec cancels and drains,
\* a stream and an exchange just end, and so does a drain.
Timeout(i) ==
  /\ \/ /\ at[i] = "wait" /\ i \in Exec
        /\ at' = [at EXCEPT ![i] = "cancel"]
        /\ UNCHANGED <<chan, inflight, turnLock, activeTurn, outcome, got>>
     \/ /\ at[i] = "drain" \/ (at[i] = "wait" /\ i \notin Exec)
        /\ End(i, "early")
  /\ UNCHANGED <<wire, peer, routing, aim>>

\* ZeroBootStream::stop
Stop(t) ==
  /\ t \in Stream
  /\ at[t] = "wait"
  /\ at' = [at EXCEPT ![t] = "cancel"]
  /\ UNCHANGED <<wire, peer, chan, inflight, turnLock, activeTurn, outcome, got, routing,
                 aim>>

\* The caller drops its future or its stream.  A turn that is registered but
\* has no guard yet only gives back the lock.  The frame being written is dropped
\* whole: one that is torn in the middle of write_request leaves a stream the guest
\* takes no frame from any more, which is this step and a Break after it.
Abandon(i) ==
  /\ at[i] \in {"queue", "registered"} \cup Guarded
  /\ End(i, IF at[i] \in Guarded THEN "early" ELSE "orphan")
  /\ UNCHANGED <<wire, peer, routing, aim>>

-----------------------------------------------------------------------------
(* The reader task *)

Full(i) == Len(chan[i]) >= ChanCap

\* try_send into a closed channel goes nowhere.
Push(f) ==
  chan' = IF at[f.id] = "ended" THEN chan ELSE [chan EXCEPT ![f.id] = Append(@, f)]

Settle(i) ==
  /\ admitted' = IF i \in Turn THEN [admitted EXCEPT ![i] = 0] ELSE admitted
  /\ lossy' = lossy \ {i}

\* A frame for an id that is not registered is dropped with its accounts.
DropUnknown(f) ==
  /\ f.id \notin inflight
  /\ Settle(f.id)
  /\ UNCHANGED <<reader, chan>>

\* terminal_frame(): with output lost, the end becomes an Error.
RouteEnd(f) ==
  /\ f.id \in inflight
  /\ f.kind \in Ends
  /\ reader' = [at |-> "deliver",
                frame |-> IF f.id \in lossy THEN Frame("Error", f.id) ELSE f]
  /\ Settle(f.id)
  /\ UNCHANGED chan

\* Mutant of RouteOutput: output that finds the channel full is just dropped.
RouteForgetting(f) ==
  /\ f.id \in inflight
  /\ f.kind = "Output"
  /\ admitted' = [admitted EXCEPT ![f.id] = IF @ < Budget THEN @ + 1 ELSE @]
  /\ IF Full(f.id) THEN UNCHANGED chan ELSE Push(f)
  /\ UNCHANGED <<reader, lossy>>

\* Output within the budget goes into the channel; what exceeds the budget or
\* finds the channel full is lost, and remembered.
RouteOutput(f) ==
  /\ f.id \in inflight
  /\ f.kind = "Output"
  /\ \/ /\ admitted[f.id] >= Budget
        /\ lossy' = lossy \cup {f.id}
        /\ UNCHANGED <<admitted, chan>>
     \/ /\ admitted[f.id] < Budget
        /\ admitted' = [admitted EXCEPT ![f.id] = @ + 1]
        /\ \/ Full(f.id) /\ lossy' = lossy \cup {f.id} /\ UNCHANGED chan
           \/ ~Full(f.id) /\ Push(f) /\ UNCHANGED lossy
  /\ UNCHANGED reader

\* Mutant of RouteAck: the channel is taken to have room for a small frame.
RouteAckAnyway(f) ==
  /\ f.id \in inflight
  /\ f.kind \in Acks
  /\ Push(f)
  /\ UNCHANGED <<reader, admitted, lossy>>

\* An acknowledgement is dropped when the channel is full.
RouteAck(f) ==
  /\ f.id \in inflight
  /\ f.kind \in Acks
  /\ IF Full(f.id) THEN UNCHANGED chan ELSE Push(f)
  /\ UNCHANGED <<reader, admitted, lossy>>

ReadFrame ==
  LET f == Head(down)
  IN  /\ reader.at = "read"
      /\ down # << >>
      /\ down' = Tail(down)
      /\ DropUnknown(f) \/ RouteEnd(f) \/ RouteOutput(f) \/ RouteAck(f)
      /\ UNCHANGED <<up, link, peer, at, inflight, turnLock, activeTurn, outcome, got,
                     aim>>

\* deliver_terminal(): into the channel when it has room, nowhere when it is
\* closed, and nowhere when it stays full for TERMINAL_DELIVERY_WINDOW.
Deliver ==
  /\ reader.at = "deliver"
  /\ IF Full(reader.frame.id) THEN UNCHANGED chan ELSE Push(reader.frame)
  /\ reader' = [at |-> "read"]
  /\ UNCHANGED <<wire, peer, at, inflight, turnLock, activeTurn, outcome, got, admitted, lossy,
                 aim>>

\* The connection is gone: alive is cleared ...
ReaderEnds ==
  /\ reader.at = "read"
  /\ link = "cut"
  /\ reader' = [at |-> "dead"]
  /\ UNCHANGED <<wire, peer, calls, admitted, lossy, aim>>

\* ... then every channel is closed.
CloseChannels ==
  /\ reader.at = "dead"
  /\ reader' = [at |-> "over"]
  /\ inflight' = {}
  /\ UNCHANGED <<wire, peer, at, chan, turnLock, activeTurn, outcome, got, admitted, lossy,
                 aim>>

-----------------------------------------------------------------------------

Init == WireInit /\ PeerInit /\ met = TRUE /\ HostInit

Consume(i) == TakeEnd(i) \/ (i \in Turn /\ (TakeOutput(i) \/ TakeAck(i) \/ Drain(i)))

Reader == ReadFrame \/ Deliver \/ ReaderEnds \/ CloseChannels

Cleanup == \E t \in Turn : Unpublish(t)

\* Every call has been made, and is over.
Finished == (\A i \in Id : at[i] = "ended") /\ UNCHANGED vars

Next ==
  \/ \E i \in Id : \/ Send(i) \/ Consume(i) \/ SeeClosed(i)
                   \/ Timeout(i) \/ Abandon(i)
  \/ \E t \in Turn : BeginTurn(t) \/ Register(t) \/ Publish(t) \/ SendCancel(t) \/ Stop(t)
  \/ \E i \in Ctl : BeginExchange(i) \/ ReadActive(i) \/ CancelActiveTurn(i)
  \/ Close \/ Reader \/ Cleanup
  \/ PeerNext /\ UNCHANGED host
  \/ Break /\ UNCHANGED <<peer, host>>
  \/ Finished

Spec == Init /\ [][Next]_vars

-----------------------------------------------------------------------------
(* Properties *)

\* Types of the session's state and of the wire, with the bounds of the demux
\* channels and of the byte budget.
TypeOK == WireType /\ HostType

\* A result with an exit code has every Output frame the guest wrote for it:
\* what the host's reader drops, over the budget or on a full channel, turns
\* the end into an error (provider.rs spawn_reader, terminal_frame).
CleanExitIsWhole == \A t \in Turn : outcome[t] = "ok" => got[t] = wrote[t]

\* While every caller leaves its turn by a terminal frame, also after a timeout
\* (exec's cancel and drain), no Execute finds a turn under way on the guest: the
\* turn lock is not given back before the guest is free.
InnocentNeverRefused ==
  [][\A t \in Turn : PeerRefuses(t) /\ cur # None =>
       \E u \in Turn : outcome[u] = "early"]_vars

\* The turn lock is held by a turn under way and by no other, and the turn that
\* may be running on the guest is the one cancel_active() targets, although an
\* earlier turn's guard may be cleared late (TurnGuard, begin_turn).
TurnOwned ==
  \A t \in Turn :
    /\ turnLock = t <=> at[t] \in {"registered"} \cup Guarded
    /\ at[t] \in Guarded => activeTurn = t

=============================================================================
