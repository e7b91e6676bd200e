----------------------------- MODULE ZbrtClient -----------------------------
(**********************************************************************************)
(* The SDK client's ZBRT guest (rfb/src/client/zbrt.rs): calls of health, fs      *)
(* and exec over a pool of warm connections, with the one retry on a fresh        *)
(* connection, and a stream with its stop().  The guest at the other end of a     *)
(* connection answers in order (ZbrtPeer promises no less); a connection may die  *)
(* at any time, before or after the guest has served what it carries, and lose or *)
(* deliver what was on the way; a deadline may pass whenever nothing has come.    *)
(**********************************************************************************)
EXTENDS Naturals, Sequences, SequencesExt

CONSTANTS
  Control, Exec,  \* calls of fs() and health(), calls of exec()
  MaxConn,        \* bound: connections opened
  PoolCap,        \* capacity of exec_pool
  MaxOut          \* bound: Output frames of a turn; MAX_EXEC_FRAMES is one less

ASSUME ClientAssumption == MaxConn \in Nat /\ PoolCap \in Nat /\ MaxOut \in Nat

VARIABLES
  zconn,    \* connection -> whether it lives, and the frames each way
  zpool,    \* exec_pool, a stack
  zopened,  \* connections opened so far
  zcall,    \* call -> where it is
  served,   \* call -> how often a guest has taken its request
  died,     \* calls whose connection died while they read
  s         \* the stream: the frames to come, what stop() buffered, what was given

zcvars == <<zconn, zpool, zopened, zcall, served, died, s>>

ClientCall == Control \cup Exec
ClientConn == 1..MaxConn
Frame(kind, id) == [kind |-> kind, id |-> id]
Piece(n) == [kind |-> "Output", n |-> n]  \* the n-th Output of a stream
Outputs(n, id) == [i \in 1..n |-> Frame("Output", id)]

ZcTypeOK ==
  /\ \A k \in ClientConn : zconn[k].life \in {"none", "open", "dead", "dropped"}
  /\ zpool \in Seq(ClientConn) /\ Len(zpool) <= PoolCap /\ zopened \in 0..MaxConn
  /\ \A c \in ClientCall : /\ zcall[c].pc \in {"borrow", "write", "read", "done"}
                     /\ zcall[c].attempt \in {0, 1} /\ zcall[c].out \in 0..MaxOut
  /\ died \subseteq ClientCall
  /\ s.pc \in {"poll", "stop", "over"}

\* A stream has a connection of its own, so a behaviour is one of the calls or one of
\* a stream.
ZcInit ==
  /\ zconn = [k \in ClientConn |-> [life |-> "none", up |-> <<>>, down |-> <<>>]]
  /\ zpool = <<>> /\ zopened = 0 /\ died = {}
  /\ served = [c \in ClientCall |-> 0]
  /\ \E streams \in BOOLEAN :
       /\ zcall = [c \in ClientCall |-> [pc |-> IF streams THEN "done" ELSE "borrow", attempt |-> 0,
                                  k |-> 0, out |-> 0, res |-> "?"]]
       /\ s = [pc |-> IF streams THEN "poll" ELSE "over", guest |-> "running", wrote |-> 0,
               down |-> <<>>, cut |-> ~streams, started |-> FALSE, terminal |-> FALSE,
               cancelSent |-> FALSE, pending |-> <<>>, given |-> <<>>]

-----------------------------------------------------------------------------
(* The connections and the guest behind them (external) *)

\* How a guest may answer a call: a turn with its Output frames first.
AnswersTo(c) ==
  IF c \in Control THEN {<<Frame(e, c)>> : e \in {"Ack", "Error"}}
  ELSE {Outputs(n, c) \o <<Frame(e, c)>> : n \in 0..MaxOut, e \in {"Exit", "Error"}}

\* The guest takes a request and answers it; a request that was on the way when the
\* client dropped the connection is taken too, and nobody reads the answer.
GuestServes(k) ==
  /\ zconn[k].life \in {"open", "dropped"} /\ zconn[k].up # <<>>
  /\ LET c == Head(zconn[k].up)
     IN  /\ served' = [served EXCEPT ![c] = @ + 1]
         /\ \E a \in AnswersTo(c) :
              zconn' = [zconn EXCEPT ![k].up = Tail(@),
                                   ![k].down = IF zconn[k].life = "open" THEN @ \o a ELSE @]
  /\ UNCHANGED <<zpool, zopened, zcall, died, s>>

\* A connection dies, and with it what it carried to the guest and some of what it
\* carried back.
ConnDies(k) ==
  /\ zconn[k].life = "open"
  /\ \E n \in 0..Len(zconn[k].down) :
       zconn' = [zconn EXCEPT ![k] = [life |-> "dead", up |-> <<>>, down |-> SubSeq(@.down, 1, n)]]
  /\ UNCHANGED <<zpool, zopened, zcall, served, died, s>>

-----------------------------------------------------------------------------
(* control_exchange and exec *)

Drop(f, k) == [f EXCEPT ![k].life = "dropped", ![k].down = <<>>]
AnswerCall(c, res) == zcall' = [zcall EXCEPT ![c].pc = "done", ![c].res = res]
Pops == zpool' = SubSeq(zpool, 1, Len(zpool) - 1)

\* borrow_exec: the last connection of the pool, at once when it was used within a
\* second ...
BorrowHot(c) ==
  /\ zcall[c].pc = "borrow" /\ zpool # <<>> /\ Pops
  /\ zcall' = [zcall EXCEPT ![c].pc = "write", ![c].k = Last(zpool)]
  /\ UNCHANGED <<zconn, zopened, served, died, s>>

\* ... and after a second Hello otherwise; one that does not answer it in time, or
\* with another frame, is dropped and the next one tried.
BorrowProbed(c) ==
  /\ zcall[c].pc = "borrow" /\ zpool # <<>> /\ Pops
  /\ LET k == Last(zpool)
     IN \/ /\ zconn[k].life = "open" /\ zconn[k].up = <<>> /\ zconn[k].down = <<>>
           /\ zcall' = [zcall EXCEPT ![c].pc = "write", ![c].k = k]
           /\ UNCHANGED zconn
        \/ zconn' = Drop(zconn, k) /\ UNCHANGED zcall
  /\ UNCHANGED <<zopened, served, died, s>>

\* connect and handshake, when the pool is empty.
Connects(c) ==
  /\ zcall[c].pc = "borrow" /\ zpool = <<>>
  /\ \/ /\ zopened < MaxConn /\ zopened' = zopened + 1
        /\ zconn' = [zconn EXCEPT ![zopened'].life = "open"]
        /\ zcall' = [zcall EXCEPT ![c].pc = "write", ![c].k = zopened']
     \/ AnswerCall(c, "error") /\ UNCHANGED <<zconn, zopened>>
  /\ UNCHANGED <<zpool, served, died, s>>

\* The call goes on with another connection, if this was the first attempt.
Again(c) ==
  IF zcall[c].attempt = 1 THEN AnswerCall(c, "error")
  ELSE zcall' = [zcall EXCEPT ![c].pc = "borrow", ![c].attempt = 1]

\* write_frame, within its deadline or not.
Writes(c) ==
  LET k == zcall[c].k
  IN  /\ zcall[c].pc = "write"
      /\ \/ /\ zconn[k].life = "open"
            /\ zconn' = [zconn EXCEPT ![k].up = Append(@, c)]
            /\ zcall' = [zcall EXCEPT ![c].pc = "read"]
         \/ Again(c) /\ zconn' = Drop(zconn, k)
      /\ UNCHANGED <<zpool, zopened, served, died, s>>

\* Mutant of Repays: a connection goes back whatever is left on it.
RepaysAny(k) ==
  /\ zpool' = IF Len(zpool) < PoolCap THEN Append(zpool, k) ELSE zpool
  /\ UNCHANGED zconn

\* repay_exec: a full pool drops the connection.
Repays(k) ==
  IF Len(zpool) < PoolCap
    THEN zpool' = Append(zpool, k) /\ zconn' = [zconn EXCEPT ![k].down = Tail(@)]
    ELSE UNCHANGED zpool /\ zconn' = Drop(zconn, k)

\* The next frame: one of another request ends the call; so does an answer, and the
\* connection goes back to the pool unless it was a turn's Error.
Reads(c) ==
  LET k == zcall[c].k
      f == Head(zconn[k].down)
      over == f.kind = "Output" /\ zcall[c].out + 1 >= MaxOut
  IN  /\ zcall[c].pc = "read" /\ zconn[k].down # <<>>
      /\ \/ /\ f.id # c \/ (c \in Exec /\ (f.kind = "Error" \/ over))
            /\ AnswerCall(c, IF f.id # c THEN "foreign" ELSE "error")
            /\ zconn' = Drop(zconn, k) /\ UNCHANGED zpool
         \/ /\ f.id = c /\ f.kind = "Output" /\ ~over
            /\ zcall' = [zcall EXCEPT ![c].out = @ + 1]
            /\ zconn' = [zconn EXCEPT ![k].down = Tail(@)] /\ UNCHANGED zpool
         \/ /\ f.id = c /\ (f.kind \in {"Ack", "Exit"} \/ (c \in Control /\ f.kind = "Error"))
            /\ AnswerCall(c, f.kind) /\ Repays(k)
      /\ UNCHANGED <<zopened, served, died, s>>

\* Mutant of Retryable: a deadline is retried too.
RetryableAlways(c, dead) == c \in Control

\* retryable_read_failure: the connection died; a deadline is not retried, and an
\* exec that was written never.
Retryable(c, dead) == c \in Control /\ dead

\* No frame came: the connection is dead, or the deadline passed.
ReadFails(c) ==
  LET k == zcall[c].k
      dead == zconn[k].life = "dead"
  IN  /\ zcall[c].pc = "read" /\ zconn[k].down = <<>>
      /\ died' = IF dead THEN died \cup {c} ELSE died
      /\ IF Retryable(c, dead) THEN Again(c) ELSE AnswerCall(c, "error")
      /\ zconn' = Drop(zconn, k)
      /\ UNCHANGED <<zpool, zopened, served, s>>

-----------------------------------------------------------------------------
(* ZbrtStream *)

\* The guest of the stream: Output, then Exit or Error; a CancelAck for a Cancel; or
\* the connection is cut (external).
StreamGuest ==
  /\ ~s.cut
  /\ \/ /\ s.guest = "running" /\ s.wrote < MaxOut
        /\ s' = [s EXCEPT !.wrote = @ + 1,
                        !.down = Append(@, Piece(s.wrote + 1))]
     \/ /\ s.guest = "running"
        /\ \E e \in {"Exit", "Error"} :
             s' = [s EXCEPT !.guest = e, !.down = Append(@, [kind |-> e, n |-> 0])]
     \/ /\ s.cancelSent /\ \A i \in DOMAIN s.down : s.down[i].kind # "CancelAck"
        /\ s' = [s EXCEPT !.down = Append(@, [kind |-> "CancelAck", n |-> 0])]
     \/ s' = [s EXCEPT !.cut = TRUE]
  /\ UNCHANGED <<zconn, zpool, zopened, zcall, served, died>>

Gives(e, after) == s' = [after EXCEPT !.given = Append(@, e)]
Over(after) == s' = [after EXCEPT !.pc = "over"]

\* next_event: what stop() buffered, then Started, then the frames.
NextEvent ==
  /\ s.pc = "poll"
  /\ LET read == [s EXCEPT !.down = Tail(@)]
     IN \/ s.pending # <<>> /\ Gives(Head(s.pending), [s EXCEPT !.pending = Tail(@)])
        \/ s.pending = <<>> /\ s.terminal /\ Over(s)
        \/ /\ s.pending = <<>> /\ ~s.terminal /\ ~s.started
           /\ Gives([kind |-> "Started", n |-> 0], [s EXCEPT !.started = TRUE])
        \/ /\ s.pending = <<>> /\ ~s.terminal /\ s.started
           /\ \/ s.down = <<>> /\ Over(s)      \* closed, or the deadline
              \/ /\ s.down # <<>>
                 /\ LET f == Head(s.down)
                    IN \/ f.kind = "Output" /\ Gives(f, read)
                       \/ f.kind = "Exit" /\ Gives(f, [read EXCEPT !.terminal = TRUE])
                       \/ f.kind = "Error" /\ Over(read)
                       \/ f.kind = "CancelAck" /\ s' = read
  /\ UNCHANGED <<zconn, zpool, zopened, zcall, served, died>>

\* stop: the Cancel is written once; a failed write leaves it to be tried again.
Stop ==
  /\ s.pc = "poll" /\ ~s.terminal /\ ~s.cancelSent
  /\ s' = IF s.cut THEN s ELSE [s EXCEPT !.cancelSent = TRUE, !.pc = "stop"]
  /\ UNCHANGED <<zconn, zpool, zopened, zcall, served, died>>

\* Mutant of Buffers: Output that comes before the CancelAck is skipped.
BuffersNothing(f, after) == s' = after

\* An event that comes before the CancelAck waits for next_event.
Buffers(f, after) == s' = [after EXCEPT !.pending = Append(@, f)]

\* stop waits for the CancelAck, the end of the turn or the end of the connection.
StopReads ==
  /\ s.pc = "stop"
  /\ LET read == [s EXCEPT !.down = Tail(@)]
         back == [s EXCEPT !.pc = "poll"]
         readBack == [s EXCEPT !.pc = "poll", !.down = Tail(@)]
     IN \/ /\ s.down = <<>>
           /\ s' = IF s.cut THEN [back EXCEPT !.terminal = TRUE] ELSE back   \* EOF, deadline
        \/ /\ s.down # <<>>
           /\ LET f == Head(s.down)
              IN \/ f.kind = "CancelAck" /\ s' = readBack
                 \/ f.kind = "Output" /\ Buffers(f, read)
                 \/ f.kind = "Exit" /\ s' = [readBack EXCEPT !.terminal = TRUE,
                                                             !.pending = Append(@, f)]
                 \/ f.kind = "Error" /\ s' = [readBack EXCEPT !.terminal = TRUE]
  /\ UNCHANGED <<zconn, zpool, zopened, zcall, served, died>>

ZcNext ==
  \/ \E k \in ClientConn : GuestServes(k) \/ ConnDies(k)
  \/ \E c \in ClientCall : \/ BorrowHot(c) \/ BorrowProbed(c) \/ Connects(c) \/ Writes(c)
                     \/ Reads(c) \/ ReadFails(c)
  \/ StreamGuest \/ NextEvent \/ Stop \/ StopReads

-----------------------------------------------------------------------------
(* Properties *)

\* A warm connection carries nothing of an earlier call, so no call ever meets an
\* answer that is not its own (client/zbrt.rs control_exchange, exec).
WarmIsClean ==
  /\ \A i \in DOMAIN zpool : zconn[zpool[i]].up = <<>> /\ zconn[zpool[i]].down = <<>>
  /\ \A c \in ClientCall : zcall[c].res # "foreign"

\* A request is served once, and a second time only where the first connection died
\* under it ("Only failures that prove the request was never processed are
\* retried" is not what a dead connection proves).
TwiceOnlyByDeath ==
  \A c \in ClientCall : served[c] > 1 => c \in Control /\ c \in died /\ served[c] = 2

\* The caller of a stream sees every Output once and in order, across stop() too,
\* and its Exit only after the last of them.
StreamInOrder ==
  LET events == s.given \o s.pending
      at(n) == {i \in DOMAIN events : events[i] = Piece(n)}
      exits == {i \in DOMAIN s.given : s.given[i].kind = "Exit"}
  IN  /\ \A i \in DOMAIN events : events[i].kind = "Output" =>
           LET n == events[i].n
           IN  at(n) = {i} /\ (n > 1 => \E j \in at(n - 1) : j < i)
      /\ exits # {} => exits = {Len(s.given)} /\ \A n \in 1..s.wrote : at(n) # {}

\* What the SDK client's callers see.
ClientSeesItsOwn == WarmIsClean /\ TwiceOnlyByDeath /\ StreamInOrder

ZcSpec == ZcInit /\ [][ZcNext]_zcvars
=============================================================================
