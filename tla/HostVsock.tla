------------------------------ MODULE HostVsock ------------------------------
(*****************************************************************************)
(* The host end of an RFB1 connection (rfb-runtime/src/host_vsock.rs): the   *)
(* shared session, one mutex-guarded connection for many operations, and the *)
(* one-shot client, one connection per operation.  The guest end is the      *)
(* RuntimeService behind one serving connection.                             *)
(*                                                                           *)
(* An operation is named by a number, which stands for its fresh session id  *)
(* and request id.  A frame has its type, its sequence, the request it names *)
(* (0: an empty request id) and, for an event, how it ends the turn.         *)
(*****************************************************************************)
EXTENDS Integers, Sequences, SequencesExt

CONSTANTS
  MaxOps,  \* operations made
  MaxLost  \* deadlines, timeouts and dropped futures

VARIABLES
  hmode,            \* shared or oneshot
  hat,              \* where the caller that holds the connection is
  hop,              \* the operation under way
  hops,             \* operations begun so far
  hseq,             \* next_sequence
  held,             \* oneshot: the result that waits for finish()
  poisoned,         \* HostSession.poisoned
  midframe,         \* the host's read position is inside a frame
  cut,              \* the host's last write stopped inside a frame
  toGuest, toHost,  \* frames under way
  pinned, uds,      \* captured and current identity of the relay socket
  gs,               \* the guest's RuntimeService
  gturn,            \* the turn its worker runs
  gopen,            \* the guest serves the connection
  losses,           \* deadlines, timeouts and dropped futures so far
  odd               \* history: an answer taken from another request, garbage read

hvars == <<hmode, hat, hop, hops, hseq, held, poisoned, midframe, cut, toGuest, toHost,
           pinned, uds, gs, gturn, gopen, losses, odd>>
guest == <<gs, gturn, gopen>>

Ops == 1..MaxOps
G == INSTANCE RuntimeService WITH
       Session <- Ops, Request <- Ops, Blank <- -1, NoReq <- 0,
       CompletedLimit <- MaxOps, CancelledLimit <- MaxOps

Kinds1 == {"turn", "read", "write", "shutdown"}
NoOp == [kind |-> "none", id |-> 0, seq |-> 0]
VFrame(t, s, i, e) == [type |-> t, seq |-> s, id |-> i, end |-> e]
Plain(t, s, i) == VFrame(t, s, i, "none")
Eof == Plain("eof", 0, 0)

HvTypeOK ==
  /\ hmode \in {"shared", "oneshot"}
  /\ hat \in {"down", "dial", "relay", "hello", "caps", "free", "wait", "finish"}
  /\ hop.kind \in Kinds1 \cup {"none"} /\ hop.id \in 0..MaxOps /\ hop.seq \in 0..MaxOps + 3
  /\ hops \in 0..MaxOps /\ hseq \in 3..MaxOps + 3
  /\ held \in {"none", "ok", "err"}
  /\ poisoned \in BOOLEAN /\ midframe \in BOOLEAN /\ cut \in BOOLEAN
  /\ pinned \in 0..2 /\ uds \in 1..2
  /\ G!ServiceType(gs)
  /\ gturn.id \in 0..MaxOps /\ gopen \in BOOLEAN
  /\ losses \in 0..MaxLost
  /\ odd \subseteq {"answer", "garbage", "dropped"}

HvInit ==
  /\ hmode \in {"shared", "oneshot"}
  /\ hat = "down" /\ hop = NoOp /\ hops = 0 /\ hseq = 3 /\ held = "none"
  /\ poisoned = FALSE /\ midframe = FALSE /\ cut = FALSE
  /\ toGuest = <<>> /\ toHost = <<>>
  /\ pinned \in {0, 1} /\ uds = 1
  /\ gs = G!FreshService /\ gturn = NoOp /\ gopen = FALSE
  /\ losses = 0 /\ odd = {}

-----------------------------------------------------------------------------
(* Connecting *)

\* VsockClient::connect: the relay must be the pinned socket ...
Validate ==
  /\ hat = "down" /\ ~gopen /\ hops < MaxOps
  /\ hmode = "shared" => hops = 0
  /\ pinned \in {0, uds}
  /\ hat' = "dial"
  /\ hop' = IF hmode = "oneshot" THEN [NoOp EXCEPT !.id = hops + 1] ELSE NoOp
  /\ hops' = IF hmode = "oneshot" THEN hops + 1 ELSE hops
  /\ UNCHANGED <<hmode, hseq, held, poisoned, midframe, cut, toGuest, toHost, pinned, uds, guest,
                 losses, odd>>

\* ... but whatever has the name when it is dialled answers.
Dial ==
  /\ hat = "dial"
  /\ hat' \in {"relay", "down"}
  /\ UNCHANGED <<hmode, hop, hops, hseq, held, poisoned, midframe, cut, toGuest, toHost, pinned,
                 uds, guest, losses, odd>>

\* perform_relay_handshake: OK with a port and Hello is sent, or a refusal, an
\* over-long or cut line, or the deadline.
Relay ==
  /\ hat = "relay"
  /\ \/ /\ hat' = "hello" /\ gopen' = TRUE
        /\ toGuest' = <<Plain("hello", 1, 0)>> /\ toHost' = <<>>
        /\ midframe' = FALSE /\ cut' = FALSE
     \/ /\ hat' = "down"
        /\ UNCHANGED <<gopen, toGuest, toHost, midframe, cut>>
  /\ UNCHANGED <<hmode, hop, hops, hseq, held, poisoned, pinned, uds, gs, gturn, losses, odd>>

\* The connection is dropped: the guest sees the end of the stream.
Hang ==
  /\ hat' = "down" /\ hop' = NoOp /\ held' = "none"
  /\ toGuest' = Append(toGuest, Eof) /\ toHost' = <<>>
  /\ UNCHANGED <<midframe, cut>>

Write(f) == toGuest' = Append(toGuest, f)
Reading == toHost # <<>> /\ ~midframe /\ Head(toHost) # Eof

\* HostClient::connect: HelloAck, then Capabilities; anything else ends it.
Negotiate ==
  /\ hmode = "shared" /\ hat \in {"hello", "caps"} /\ Reading
  /\ LET f == Head(toHost)
     IN IF f.type # hat \/ f.seq # (IF hat = "hello" THEN 1 ELSE 2) THEN Hang
        ELSE /\ toHost' = Tail(toHost)
             /\ IF hat = "hello" THEN hat' = "caps" /\ Write(Plain("caps", 2, 0))
                                 ELSE hat' = "free" /\ UNCHANGED toGuest
             /\ UNCHANGED <<hop, held, midframe, cut>>
  /\ UNCHANGED <<hmode, hops, hseq, poisoned, pinned, uds, guest, losses, odd>>

\* begin(): HelloAck is enough.
Greet ==
  /\ hmode = "oneshot" /\ hat = "hello" /\ Reading
  /\ IF Head(toHost).type # "hello" \/ Head(toHost).seq # 1 THEN Hang
       ELSE /\ hat' = "free" /\ toHost' = Tail(toHost)
            /\ UNCHANGED <<hop, held, toGuest, midframe, cut>>
  /\ UNCHANGED <<hmode, hops, hseq, poisoned, pinned, uds, guest, losses, odd>>

-----------------------------------------------------------------------------
(* Operations *)

\* turn, read_workspace_file, write_workspace_file or shutdown takes the mutex,
\* allocates a sequence and sends its request.  A poisoned session refuses.
Begin(k) ==
  /\ hmode = "shared" /\ hat = "free" /\ hops < MaxOps
  /\ hops' = hops + 1 /\ hseq' = hseq + 1
  /\ IF poisoned THEN UNCHANGED <<hat, hop, toGuest>>
       ELSE /\ hop' = [kind |-> k, id |-> hops', seq |-> hseq]
            /\ hat' = "wait" /\ Write(Plain(k, hseq, hops'))
  /\ UNCHANGED <<hmode, held, poisoned, midframe, cut, toHost, pinned, uds, guest, losses, odd>>

\* The one-shot client sends its one request as sequence 2.
BeginOneShot(k) ==
  /\ hmode = "oneshot" /\ hat = "free" /\ k # "shutdown"
  /\ hop' = [hop EXCEPT !.kind = k, !.seq = 2]
  /\ hat' = "wait" /\ Write(Plain(k, 2, hop.id))
  /\ UNCHANGED <<hmode, hops, hseq, held, poisoned, midframe, cut, toHost, pinned, uds, guest,
                 losses, odd>>

\* How each operation takes a frame: ok, err, or skip and read on.
TurnTakes(f) ==
  IF f.type # "event" /\ f.seq # hop.seq THEN "err"
  ELSE IF f.type = "error" /\ f.id \in {0, hop.id} THEN "err"
  ELSE IF f.type = "event" /\ f.id = hop.id /\ f.end # "none"
    THEN IF f.end = "completed" THEN "ok" ELSE "err"
  ELSE "skip"

ReadTakes(f) ==
  IF f.seq = hop.seq /\ f.type = "file" /\ f.id = hop.id THEN "ok" ELSE "err"

WriteTakes(f) ==
  IF f.seq # hop.seq THEN "err"
  ELSE IF f.type = "ack" THEN (IF f.id = hop.id THEN "ok" ELSE "err")
  ELSE IF f.type = "error" /\ f.id \in {0, hop.id} THEN "err"
  ELSE "skip"

ShutdownTakes(f) == IF f.type = "shutdown" /\ f.seq = hop.seq THEN "ok" ELSE "err"

\* Mutant of TakesFrame: the answers are told apart by their type alone.
TakesByType(f) ==
  CASE hop.kind = "turn" -> IF f.type = "event" /\ f.end = "completed" THEN "ok"
                            ELSE IF f.type = "error" \/ f.end # "none" THEN "err" ELSE "skip"
    [] hop.kind = "read" -> IF f.type = "file" THEN "ok" ELSE "err"
    [] hop.kind = "write" -> IF f.type = "ack" THEN "ok" ELSE "err"
    [] OTHER -> ShutdownTakes(f)

TakesFrame(f) ==
  CASE hop.kind = "turn" -> TurnTakes(f)
    [] hop.kind = "read" -> ReadTakes(f)
    [] hop.kind = "write" -> WriteTakes(f)
    [] OTHER -> ShutdownTakes(f)

\* The one-shot client has the same rules, with the fixed sequence.
TurnOnce(f) == TurnTakes(f)
ReadOnce(f) == ReadTakes(f)
WriteOnce(f) == WriteTakes(f)

\* An operation's end: the mutex is free, or the one-shot client sends Shutdown.
EndOp(r) ==
  IF hmode = "shared"
    THEN hat' = "free" /\ hop' = NoOp /\ UNCHANGED <<held, toGuest>>
    ELSE hat' = "finish" /\ held' = r /\ Write(Plain("shutdown", 3, 0)) /\ UNCHANGED hop

\* recv() returns the next frame.
Receive ==
  /\ hat = "wait" /\ Reading
  /\ LET f == Head(toHost)
         t == IF hmode = "shared" THEN TakesFrame(f)
              ELSE CASE hop.kind = "turn" -> TurnOnce(f)
                     [] hop.kind = "read" -> ReadOnce(f)
                     [] hop.kind = "write" -> WriteOnce(f)
     IN /\ IF t = "skip" THEN UNCHANGED <<hat, hop, held, toGuest>> ELSE EndOp(t)
        /\ odd' = IF t = "ok" /\ hop.kind # "shutdown" /\ f.id # hop.id
                    THEN odd \cup {"answer"} ELSE odd
  /\ toHost' = Tail(toHost)
  /\ UNCHANGED <<hmode, hops, hseq, poisoned, midframe, cut, pinned, uds, guest, losses>>

\* finish(): the acknowledgement, or an error that only an Ok result is lost to.
Finish ==
  /\ hat = "finish" /\ Reading
  /\ Hang
  /\ UNCHANGED <<hmode, hops, hseq, poisoned, pinned, uds, guest, losses, odd>>

\* read_frame fails: the stream is at its end, or what is read is not a frame.
ReadFails ==
  /\ hat \in {"hello", "caps", "wait", "finish"}
  /\ toHost # <<>> /\ (midframe \/ Head(toHost) = Eof)
  /\ odd' = IF midframe THEN odd \cup {"garbage"} ELSE odd
  /\ IF hat = "wait"
       THEN EndOp("err") /\ UNCHANGED <<toHost, midframe, cut>>
       ELSE Hang
  /\ UNCHANGED <<hmode, hops, hseq, poisoned, pinned, uds, guest, losses>>

\* The turn's own deadline passes between two frames: no poison, no Cancel.
Deadline ==
  /\ hat = "wait" /\ hop.kind = "turn" /\ losses < MaxLost
  /\ losses' = losses + 1
  /\ EndOp("err")
  /\ UNCHANGED <<hmode, hops, hseq, poisoned, midframe, cut, toHost, pinned, uds, guest, odd>>

\* Mutant of Poisons: a timeout leaves the session usable.
PoisonsNothing == FALSE
\* HostSession::recv and send poison the session on a timeout.
Poisons == hmode = "shared"

\* recv() times out, perhaps inside a frame.
RecvTimesOut ==
  /\ hat = "wait" /\ losses < MaxLost
  /\ losses' = losses + 1
  /\ poisoned' = Poisons
  /\ midframe' \in {midframe, toHost # <<>>}
  /\ EndOp("err")
  /\ UNCHANGED <<hmode, hops, hseq, cut, toHost, pinned, uds, guest, odd>>

\* The request is written in part only: the write times out (poison), or its
\* future is dropped (none).
WriteCut(timeout) ==
  /\ hat = "wait" /\ losses < MaxLost /\ ~cut /\ hmode = "shared"
  /\ toGuest # <<>> /\ Last(toGuest).id = hop.id
  /\ losses' = losses + 1
  /\ cut' = TRUE
  /\ toGuest' = Append(Front(toGuest), Plain("part", 0, 0))
  /\ poisoned' = (IF timeout THEN Poisons ELSE poisoned)
  /\ hat' = "free" /\ hop' = NoOp
  /\ odd' = IF timeout THEN odd ELSE odd \cup {"dropped"}
  /\ UNCHANGED <<hmode, hops, hseq, held, midframe, toHost, pinned, uds, guest>>

\* The caller drops the operation's future while it waits for an answer.
DropFuture ==
  /\ hat = "wait" /\ losses < MaxLost
  /\ losses' = losses + 1
  /\ odd' = odd \cup {"dropped"}
  /\ IF hmode = "oneshot" THEN Hang
       ELSE /\ midframe' \in {midframe, toHost # <<>>}
            /\ hat' = "free" /\ hop' = NoOp
            /\ UNCHANGED <<held, toGuest, toHost, cut>>
  /\ UNCHANGED <<hmode, hops, hseq, poisoned, pinned, uds, guest>>

\* The last handle is dropped.
DropSession ==
  /\ hat = "free" /\ hmode = "shared"
  /\ Hang
  /\ UNCHANGED <<hmode, hops, hseq, poisoned, pinned, uds, guest, losses, odd>>

-----------------------------------------------------------------------------
(* The guest's serving loop *)

\* One request is answered, all its answers carrying its sequence.
GuestServes ==
  /\ gopen /\ toGuest # <<>>
  /\ LET m == Head(toGuest)
         key == <<m.id, m.id>>
         error == <<Plain("error", m.seq, m.id)>>
         ready == gs.home /\ gs.ready /\ ~gs.shutdown
         put(s) == toHost' = toHost \o s
     IN CASE m.type \in {"eof", "part"} ->
               /\ gopen' = FALSE /\ put(<<Eof>>) /\ UNCHANGED <<gs, gturn>>
          [] m.type = "hello" ->
               LET r == G!HandleHello(gs, 1)
               IN /\ gs' = r.svc
                  /\ put(IF r.ans = "ack" THEN <<Plain("hello", 1, 0)>> ELSE error)
                  /\ UNCHANGED <<gturn, gopen>>
          [] m.type = "caps" ->
               put(<<Plain("caps", 2, 0)>>) /\ UNCHANGED <<gs, gturn, gopen>>
          [] m.type = "turn" ->
               LET r == G!SpawnTurn(gs, key)
               IN /\ gs' = r.svc
                  /\ IF r.ans = "claimed"
                       THEN gturn' = [kind |-> "turn", id |-> m.id, seq |-> m.seq] /\ put(<<>>)
                       ELSE UNCHANGED gturn /\ put(error)
                  /\ UNCHANGED gopen
          [] m.type \in {"read", "write"} ->
               /\ \/ ready /\ put(<<Plain(IF m.type = "read" THEN "file" ELSE "ack", m.seq, m.id)>>)
                  \/ put(error)
               /\ UNCHANGED <<gs, gturn, gopen>>
          [] m.type = "shutdown" ->
               /\ gs' = G!HandleShutdown(gs) /\ gopen' = FALSE
               /\ put(<<Plain("shutdown", m.seq, 0), Eof>>) /\ UNCHANGED gturn
  /\ toGuest' = Tail(toGuest)
  /\ UNCHANGED <<hmode, hat, hop, hops, hseq, held, poisoned, midframe, cut, pinned, uds,
                 losses, odd>>

\* The worker's turn ends; its events are written if the connection still is.
GuestTurnEnds(result) ==
  /\ gturn # NoOp
  /\ result = "cancelled" => gs.flag
  /\ LET r == G!CompleteTurn(gs, <<gturn.id, gturn.id>>, result)
         out == IF r.ans = "error" THEN <<Plain("error", gturn.seq, gturn.id)>>
                ELSE <<Plain("event", gturn.seq, gturn.id),
                       VFrame("event", gturn.seq, gturn.id, r.ans)>>
     IN /\ gs' = r.svc
        /\ toHost' = IF gopen THEN toHost \o out ELSE toHost
  /\ gturn' = NoOp
  /\ UNCHANGED <<hmode, hat, hop, hops, hseq, held, poisoned, midframe, cut, toGuest, pinned, uds,
                 gopen, losses, odd>>

\* The relay socket is created again.
RelayReplaced ==
  /\ uds = 1 /\ hops = 0
  /\ uds' = 2
  /\ UNCHANGED <<hmode, hat, hop, hops, hseq, held, poisoned, midframe, cut, toGuest, toHost,
                 pinned, guest, losses, odd>>

HvNext ==
  \/ Validate \/ Dial \/ Relay \/ Negotiate \/ Greet
  \/ \E k \in Kinds1 : Begin(k) \/ BeginOneShot(k)
  \/ Receive \/ Finish \/ ReadFails \/ Deadline \/ RecvTimesOut
  \/ \E b \in BOOLEAN : WriteCut(b)
  \/ DropFuture \/ DropSession \/ GuestServes \/ RelayReplaced
  \/ \E r \in {"completed", "failed", "cancelled"} : GuestTurnEnds(r)

HvSpec == HvInit /\ [][HvNext]_hvars

-----------------------------------------------------------------------------
(* Properties *)

\* An operation that succeeds was answered by the guest's answer to that very
\* operation, whatever stale frames earlier deadlines, errors and dropped
\* futures left in the stream.
OwnAnswer == "answer" \notin odd

\* A timed-out operation poisons the shared session, so nothing is decoded from
\* the middle of a frame.  (A dropped future poisons nothing; see `odd`.)
NoGarbageRead == hmode = "shared" /\ "garbage" \in odd => "dropped" \in odd

\* The framed client returns to each operation the answer the guest gave to that
\* operation, and after a frame that was cut off reads nothing more from the stream
\* (host_vsock.rs).
FramedClientTrue == OwnAnswer /\ NoGarbageRead

=============================================================================
