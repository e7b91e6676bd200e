---------------------------- MODULE ZbrtGuestProofs ----------------------------
(****************************************************************************)
(* Proofs about the guest end of a ZBRT connection, for every set of turns  *)
(* and calls, every capacity and every amount of output: it implements      *)
(* ZbrtPeer, whatever the host sends, and a turn that outlives it has been  *)
(* told to stop.                                                            *)
(****************************************************************************)
EXTENDS ZbrtGuest, FiniteSetTheorems, SequenceTheorems, TLAPS

\* The service struct as a record; ServiceType speaks of its fields and bounds.
Service ==
  [ready : BOOLEAN, completed : Seq(Entry), evicted : Seq(Key),
   active : [Session -> Request \cup {NoReq}], cancelled : Seq(Entry),
   evictedCancelled : Seq(Key), shutdown : BOOLEAN, home : BOOLEAN, armed : BOOLEAN,
   flag : BOOLEAN]
Sane(s) == s \in Service /\ ServiceType(s)

\* The connection's one session.
Ses == CHOOSE s \in Session : TRUE

-----------------------------------------------------------------------------
(* The inductive invariant *)

Types == WireType /\ GuestType /\ svc \in Service

\* Without a turn there is no worker, and nothing of one in the channel.
IdleIsClean == active = None => worker = "none" /\ outbox = << >>

\* The service's books have the connection's turn, its flag is at hand, and a turn
\* that is recorded as cancelled has been told so.
OnTheBooks ==
  active # None =>
    /\ ValidIdentity(KeyOf(active)) /\ svc.active[Ses] = active /\ svc.armed
    /\ Cached(svc.cancelled, KeyOf(active)) => svc.flag

\* The result is the worker's last message, and all its chunks fit the turn.
ResultIsLast ==
  \A i \in 1..Len(outbox) :
    IF outbox[i].kind = "output" THEN wrote[active] + i <= MaxOutput
                                 ELSE i = Len(outbox) /\ worker = "none"

\* The loop is left on a connection that ends, with nothing half written; only a
\* turn makes it tear down, and its flag is set before it is waited for.
LeavesInOrder ==
  /\ gpc # "serve" => owed = << >> /\ link # "open"
  /\ gpc \in {"teardown", "reaping"} => active # None
  /\ gpc \in {"reaping", "gone"} /\ active # None => svc.flag

IInv == Types /\ IdleIsClean /\ OnTheBooks /\ ResultIsLast /\ LeavesInOrder

-----------------------------------------------------------------------------
(* The runtime service: its caches, and the methods the connection calls *)

\* A result that is recorded is found again, and the cache and its tombstones keep
\* their bounds.
LEMMA PutCaches ==
  ASSUME NEW cache \in Seq(Entry), NEW k \in Key, NEW r \in Answers
  PROVE  /\ Put(cache, k, r) \in Seq(Entry) /\ Cached(Put(cache, k, r), k)
         /\ Cached(cache, k) => Len(Put(cache, k, r)) = Len(cache)
         /\ ~Cached(cache, k) => Put(cache, k, r) = Append(cache, [key |-> k, resp |-> r])
<1> DEFINE e == [key |-> k, resp |-> r]
<1>1. e \in Entry /\ e.key = k
  BY DEF Entry
<1>2. CASE Cached(cache, k)
  <2>1. PICK n \in 1..Len(cache) : cache[n].key = k
    BY <1>2 DEF Cached
  <2>2. Put(cache, k, r) = [i \in 1..Len(cache) |-> IF cache[i].key = k THEN e ELSE cache[i]]
    BY <1>2 DEF Put
  <2>3. \A i \in 1..Len(cache) : cache[i] \in Entry
    OBVIOUS
  <2> HIDE DEF e
  <2>4. /\ Put(cache, k, r) \in Seq(Entry) /\ Len(Put(cache, k, r)) = Len(cache)
        /\ DOMAIN Put(cache, k, r) = 1..Len(cache) /\ Put(cache, k, r)[n] = e
    BY <1>1, <2>1, <2>2, <2>3
  <2> QED
    BY <1>1, <1>2, <2>4 DEF Cached
<1>3. CASE ~Cached(cache, k)
  <2>1. Put(cache, k, r) = Append(cache, e)
    BY <1>3 DEF Put
  <2> HIDE DEF e
  <2>2. /\ Append(cache, e) \in Seq(Entry) /\ Len(cache) + 1 \in DOMAIN Append(cache, e)
        /\ Append(cache, e)[Len(cache) + 1] = e
    BY <1>1, AppendProperties
  <2> QED
    BY <1>1, <1>3, <2>1, <2>2 DEF Cached, e
<1> QED
  BY <1>2, <1>3

LEMMA RecordBounds ==
  ASSUME NEW cache \in Seq(Entry), NEW tombs \in Seq(Key), NEW limit \in Nat \ {0},
         Len(cache) <= limit, Len(tombs) <= limit, NEW k \in Key, NEW r \in Answers,
         NEW c, c = Put(cache, k, r)
  PROVE  /\ Evicting(c, limit) \in Seq(Entry) /\ Len(Evicting(c, limit)) <= limit
         /\ Cached(Evicting(c, limit), k)
         /\ Tombstones(c, tombs, limit) \in Seq(Key) /\ Len(Tombstones(c, tombs, limit)) <= limit
<1>1. c \in Seq(Entry) /\ Cached(c, k) /\ Len(c) \in Nat /\ Len(c) <= limit + 1
  <2>1. Cached(cache, k) => Len(c) = Len(cache)
    BY PutCaches
  <2>2. ~Cached(cache, k) => c = Append(cache, [key |-> k, resp |-> r])
    BY PutCaches
  <2>3. [key |-> k, resp |-> r] \in Entry
    BY DEF Entry
  <2>4. ~Cached(cache, k) => Len(c) = Len(cache) + 1
    BY <2>2, <2>3, AppendProperties
  <2>5. c \in Seq(Entry) /\ Cached(c, k)
    BY PutCaches
  <2>6. Len(c) \in Nat /\ Len(cache) \in Nat
    BY <2>5
  <2>7. Len(c) = Len(cache) \/ Len(c) = Len(cache) + 1
    BY <2>1, <2>4
  <2> QED
    BY <2>5, <2>6, <2>7
<1>2. CASE Len(c) <= limit
  BY <1>1, <1>2 DEF Evicting, Tombstones
<1>3. CASE Len(c) = limit + 1
  <2>1. Evicting(c, limit) = Tail(c)
    BY <1>1, <1>3 DEF Evicting
  <2>2. c # << >> /\ c[1] \in Entry
    BY <1>1, <1>3
  <2>3. Tail(c) \in Seq(Entry) /\ Len(Tail(c)) = limit /\ \A i \in 1..limit : Tail(c)[i] = c[i + 1]
    BY <1>1, <1>3, <2>2, HeadTailProperties
  <2>4. c[limit + 1].key = k
    <3>4. Cached(cache, k) => Len(c) = Len(cache)
      BY PutCaches
    <3>5. Len(c) # Len(cache)
      BY <1>3
    <3>1. ~Cached(cache, k)
      BY <3>4, <3>5
    <3>2. c = Append(cache, [key |-> k, resp |-> r]) /\ [key |-> k, resp |-> r] \in Entry
      BY <3>1, PutCaches DEF Entry
    <3>3. Len(cache) = limit /\ c[Len(cache) + 1] = [key |-> k, resp |-> r]
      BY <1>3, <3>2, AppendProperties
    <3> QED
      BY <3>3
  <2>5. limit \in DOMAIN Tail(c) /\ Tail(c)[limit].key = k
    BY <2>3, <2>4
  <2> DEFINE t == Append(tombs, c[1].key)
  <2>6. t \in Seq(Key) /\ Len(t) = Len(tombs) + 1
    BY <2>2, AppendProperties DEF Entry
  <2>7. Tombstones(c, tombs, limit) = IF Len(t) > limit THEN Tail(t) ELSE t
    BY <1>1, <1>3 DEF Tombstones
  <2> HIDE DEF t
  <2>8. Tombstones(c, tombs, limit) \in Seq(Key) /\ Len(Tombstones(c, tombs, limit)) <= limit
    <3>1. CASE Len(t) > limit
      <4>1. t # << >> /\ Tail(t) \in Seq(Key) /\ Len(Tail(t)) = Len(t) - 1
        BY <2>6, <3>1, HeadTailProperties
      <4> QED
        BY <2>6, <2>7, <3>1, <4>1
    <3> QED
      BY <2>6, <2>7, <3>1
  <2> QED
    BY <2>1, <2>3, <2>5, <2>8 DEF Cached
<1> QED
  BY <1>1, <1>2, <1>3

LEMMA SesHolds == Ses \in Session /\ \A t \in Turn : KeyOf(t) = <<Ses, t>> /\ KeyOf(t) \in Key
<1>1. Session # {}
  BY GuestAssumption, FS_EmptySet
<1>2. Ses \in Session
  BY <1>1 DEF Ses
<1> QED
  BY <1>2, GuestAssumption DEF Ses, KeyOf, Key

\* RecordCancelled and RecordCompleted change the books only.
LEMMA RecordCancelledKeeps ==
  ASSUME NEW s, Sane(s), NEW k \in Key, NEW r \in Answers, NEW t, t = RecordCancelled(s, k, r)
  PROVE  /\ Sane(t) /\ Cached(t.cancelled, k)
         /\ t.active = s.active /\ t.armed = s.armed /\ t.flag = s.flag
<1> DEFINE c == Put(s.cancelled, k, r)
           e == Evicting(c, CancelledLimit)
           m == Tombstones(c, s.evictedCancelled, CancelledLimit)
<1>1. s \in Service /\ ServiceType(s) /\ CancelledLimit \in Nat \ {0}
  BY LimitAssumption DEF Sane
<1>2. /\ e \in Seq(Entry) /\ Len(e) <= CancelledLimit /\ Cached(e, k)
      /\ m \in Seq(Key) /\ Len(m) <= CancelledLimit
  <2>1. /\ s.cancelled \in Seq(Entry) /\ s.evictedCancelled \in Seq(Key)
        /\ Len(s.cancelled) <= CancelledLimit /\ Len(s.evictedCancelled) <= CancelledLimit
    BY <1>1 DEF ServiceType
  <2> QED
    BY <1>1, <2>1, RecordBounds
<1>3. t = [s EXCEPT !.cancelled = e, !.evictedCancelled = m]
  BY <1>1 DEF RecordCancelled, Service
<1> HIDE DEF c, e, m
<1>4. /\ t \in Service /\ t.cancelled = e /\ t.evictedCancelled = m
      /\ t.active = s.active /\ t.armed = s.armed /\ t.flag = s.flag
      /\ t.completed = s.completed /\ t.evicted = s.evicted
      /\ t.ready = s.ready /\ t.shutdown = s.shutdown /\ t.home = s.home
  BY <1>1, <1>2, <1>3 DEF Service
<1> QED
  BY <1>1, <1>2, <1>4 DEF Sane, ServiceType

LEMMA RecordCompletedKeeps ==
  ASSUME NEW s, Sane(s), NEW k \in Key, NEW r \in Answers
  PROVE  Sane(RecordCompleted(s, k, r))
<1> DEFINE c == Put(s.completed, k, r)
           e == Evicting(c, CompletedLimit)
           m == Tombstones(c, s.evicted, CompletedLimit)
           t == RecordCompleted(s, k, r)
<1>1. s \in Service /\ ServiceType(s) /\ CompletedLimit \in Nat \ {0}
  BY LimitAssumption DEF Sane
<1>2. /\ e \in Seq(Entry) /\ Len(e) <= CompletedLimit
      /\ m \in Seq(Key) /\ Len(m) <= CompletedLimit
  <2>1. /\ s.completed \in Seq(Entry) /\ s.evicted \in Seq(Key)
        /\ Len(s.completed) <= CompletedLimit /\ Len(s.evicted) <= CompletedLimit
    BY <1>1 DEF ServiceType
  <2> QED
    BY <1>1, <2>1, RecordBounds
<1>3. t = [s EXCEPT !.completed = e, !.evicted = m]
  BY <1>1 DEF RecordCompleted, Service
<1> HIDE DEF c, e, m, t
<1>4. /\ t \in Service /\ t.completed = e /\ t.evicted = m
      /\ t.active = s.active /\ t.armed = s.armed /\ t.flag = s.flag
      /\ t.cancelled = s.cancelled /\ t.evictedCancelled = s.evictedCancelled
      /\ t.ready = s.ready /\ t.shutdown = s.shutdown /\ t.home = s.home
  BY <1>1, <1>2, <1>3 DEF Service
<1> QED
  BY <1>1, <1>2, <1>4 DEF Sane, ServiceType, t

\* handle(Hello), which leaves the turn alone.
LEMMA HelloKeeps ==
  ASSUME NEW s, Sane(s), NEW t, t = HandleHello(s, 1).svc
  PROVE  /\ Sane(t) /\ t.active = s.active /\ t.armed = s.armed /\ t.flag = s.flag
         /\ t.cancelled = s.cancelled
<1>1. t = s \/ t = [s EXCEPT !.ready = TRUE]
  BY DEF HandleHello, Refuse, Reply
<1> QED
  BY <1>1 DEF Sane, Service, ServiceType

\* spawn_turn(), when it claims.
LEMMA SpawnClaims ==
  ASSUME NEW s, Sane(s), NEW k \in Key, SpawnTurn(s, k).ans = "claimed",
         NEW t, t = SpawnTurn(s, k).svc
  PROVE  /\ Sane(t) /\ ValidIdentity(k) /\ t.active[k[1]] = k[2] /\ t.armed
         /\ ~Cached(t.cancelled, k)
<1>1. /\ t = Claimed(s, k).svc /\ ValidIdentity(k) /\ ~Cached(s.cancelled, k)
  BY DEF SpawnTurn, Refuse, Reply, Settled
<1>2. s \in Service /\ k[1] \in Session /\ k[2] \in Request
  BY DEF Sane, Key
<1> DEFINE act == [s.active EXCEPT ![k[1]] = k[2]]
<1>3. act \in [Session -> Request \cup {NoReq}] /\ act[k[1]] = k[2]
  BY <1>2 DEF Service
<1>4. t = [s EXCEPT !.home = FALSE, !.armed = TRUE, !.flag = FALSE, !.active = act]
  BY <1>1, <1>2 DEF Claimed, Reply, Service
<1> HIDE DEF act
<1>5. /\ t \in Service /\ t.active = act /\ t.armed /\ ~t.flag
      /\ t.completed = s.completed /\ t.evicted = s.evicted
      /\ t.cancelled = s.cancelled /\ t.evictedCancelled = s.evictedCancelled
  BY <1>2, <1>3, <1>4 DEF Service
<1>6. ServiceType(t)
  BY <1>5 DEF Sane, Service, ServiceType
<1> QED
  BY <1>1, <1>3, <1>5, <1>6 DEF Sane

\* cancel_active(): the turn on the books is told to stop and its cancel recorded.
LEMMA CancelTells ==
  ASSUME NEW s, Sane(s), NEW k \in Key, ValidIdentity(k), s.active[k[1]] = k[2], s.armed,
         Cached(s.cancelled, k) => s.flag, NEW t, t = CancelActive(s, k).svc
  PROVE  /\ Sane(t) /\ CancelActive(s, k).ans = "empty"
         /\ t.active = s.active /\ t.armed /\ t.flag
<1>1. CASE Cached(s.cancelled, k)
  BY <1>1 DEF CancelActive, Reply
<1>2. CASE ~Cached(s.cancelled, k)
  <2> DEFINE u == [s EXCEPT !.flag = s.armed \/ s.flag]
  <2>1. t = RecordCancelled(u, k, "empty") /\ CancelActive(s, k).ans = "empty"
    BY <1>2 DEF CancelActive, Reply, Sane, Service
  <2>2. u \in Service /\ u.active = s.active /\ u.armed /\ u.flag
    BY DEF Sane, Service
  <2>3. ServiceType(u)
    BY DEF Sane, Service, ServiceType
  <2> HIDE DEF u
  <2>4. Sane(u) /\ "empty" \in Answers
    BY <2>2, <2>3 DEF Sane, Answers
  <2>5. Sane(t) /\ t.active = u.active /\ t.armed = u.armed /\ t.flag = u.flag
    BY <2>1, <2>4, RecordCancelledKeeps
  <2> QED
    BY <2>1, <2>2, <2>5
<1> QED
  BY <1>1, <1>2

\* complete_turn()
LEMMA CompleteKeeps ==
  ASSUME NEW s, Sane(s), NEW k \in Key, NEW res \in {"completed", "cancelled", "failed"}
  PROVE  Sane(CompleteTurn(s, k, res).svc)
<1> DEFINE was == Cached(s.cancelled, k)
           a == TurnAnswer(res, was)
           act == [s.active EXCEPT ![k[1]] = NoReq]
           u == [s EXCEPT !.home = TRUE, !.armed = FALSE, !.active = act]
<1>1. s \in Service /\ k[1] \in Session
  BY DEF Sane, Key
<1>2. a \in Terminals \cup {"error"} /\ a \in Answers
  BY DEF TurnAnswer, Terminals, Answers
<1>3. act \in [Session -> Request \cup {NoReq}]
  BY <1>1 DEF Service
<1>4. CompleteTurn(s, k, res).svc =
        CASE was -> RecordCancelled(u, k, a)
          [] ~was /\ a \in Terminals -> RecordCompleted(u, k, a)
          [] OTHER -> u
  BY <1>1, <1>2 DEF CompleteTurn, Reply, Service
<1> HIDE DEF act
<1>5. /\ u \in Service /\ u.active = act
      /\ u.completed = s.completed /\ u.evicted = s.evicted
      /\ u.cancelled = s.cancelled /\ u.evictedCancelled = s.evictedCancelled
  BY <1>1, <1>3 DEF Service
<1>6. Sane(u)
  BY <1>5 DEF Sane, Service, ServiceType
<1> HIDE DEF was, a, u
<1>7. /\ was => Sane(RecordCancelled(u, k, a))
      /\ Sane(RecordCompleted(u, k, a))
  BY <1>2, <1>6, RecordCancelledKeeps, RecordCompletedKeeps
<1> QED
  BY <1>4, <1>6, <1>7

\* abandon_active_turn()
LEMMA AbandonKeeps ==
  ASSUME NEW s, Sane(s)
  PROVE  Sane(AbandonActiveTurn(s))
<1> DEFINE act == [x \in Session |-> NoReq]
           t == AbandonActiveTurn(s)
<1>1. act \in [Session -> Request \cup {NoReq}] /\ t = [s EXCEPT !.active = act, !.armed = FALSE]
  BY DEF AbandonActiveTurn
<1> HIDE DEF act, t
<1>2. /\ t \in Service /\ t.active = act
      /\ t.completed = s.completed /\ t.evicted = s.evicted
      /\ t.cancelled = s.cancelled /\ t.evictedCancelled = s.evictedCancelled
  BY <1>1 DEF Sane, Service
<1> QED
  BY <1>1, <1>2 DEF Sane, Service, ServiceType, t

-----------------------------------------------------------------------------
(* The types *)

LEMMA SeqMoves ==
  ASSUME NEW S, NEW q \in Seq(S)
  PROVE  /\ Len(q) \in Nat
         /\ q # << >> => /\ Head(q) \in S /\ Head(q) = q[1] /\ Len(q) > 0
                         /\ Tail(q) \in Seq(S) /\ Len(Tail(q)) = Len(q) - 1
                         /\ \A i \in 1..(Len(q) - 1) : Tail(q)[i] = q[i + 1]
         /\ \A x \in S : /\ Append(q, x) \in Seq(S) /\ Len(Append(q, x)) = Len(q) + 1
                         /\ Append(q, x)[Len(q) + 1] = x
                         /\ \A i \in 1..Len(q) : Append(q, x)[i] = q[i]
<1>1. \A x \in S : /\ Append(q, x) \in Seq(S) /\ Len(Append(q, x)) = Len(q) + 1
                   /\ Append(q, x)[Len(q) + 1] = x
                   /\ \A i \in 1..Len(q) : Append(q, x)[i] = q[i]
  BY AppendProperties
<1>2. q # << >> => /\ Head(q) \in S /\ Head(q) = q[1] /\ Len(q) > 0
                   /\ Tail(q) \in Seq(S) /\ Len(Tail(q)) = Len(q) - 1
                   /\ \A i \in 1..(Len(q) - 1) : Tail(q)[i] = q[i + 1]
  BY HeadTailProperties, EmptySeq
<1> QED
  BY <1>1, <1>2

\* The frames of a request and of an answer.
LEMMA FramesTyped ==
  /\ \A k \in Requests, i \in Id : Frame(k, i) \in [kind : Requests, id : Id]
  /\ \A k \in Answer, i \in Id : Frame(k, i) \in [kind : Answer, id : Id]
  BY DEF Frame

\* A turn run on the spot: its output and its end.
LEMMA BurstTyped ==
  ASSUME NEW t \in Turn, NEW n \in 0..MaxOutput, NEW k \in Ends,
         NEW fs, fs = Append([j \in 1..n |-> Frame("Output", t)], Frame(k, t))
  PROVE  fs \in Seq([kind : Answer, id : Id]) /\ Len(fs) = n + 1
<1> DEFINE S == [kind : Answer, id : Id]
<1>1. n \in Nat
  BY GuestAssumption
<1>2. PICK o \in S : o = Frame("Output", t)
  BY FramesTyped DEF Answer, Id
<1>3. PICK e \in S : e = Frame(k, t)
  BY FramesTyped DEF Answer, Id
<1>4. PICK q : q = [j \in 1..n |-> o]
  OBVIOUS
<1>6. fs = Append(q, e)
  BY <1>2, <1>3, <1>4
<1> HIDE DEF S
<1>5. q \in Seq(S) /\ Len(q) = n
  BY <1>1, <1>4
<1>7. Append(q, e) \in Seq(S) /\ Len(Append(q, e)) = n + 1
  BY <1>5, SeqMoves
<1> QED
  BY <1>6, <1>7 DEF S

\* Whatever the answer, the frame that ends a turn is an Exit or an Error.
LEMMA EndTyped ==
  ASSUME NEW t \in Turn, NEW a
  PROVE  EndFrame(t, a) = Frame("Exit", t) \/ EndFrame(t, a) = Frame("Error", t)
  BY DEF EndFrame

\* The loop takes a frame; the memory of ended requests keeps its bound.
LEMMA TakesTyped ==
  ASSUME Types, NEW kind, NEW i, Takes(kind, i)
  PROVE  up' \in Seq([kind : Requests, id : Id]) /\ Len(up') <= WireCap
<1>1. /\ up \in Seq([kind : Requests, id : Id]) /\ Len(up) <= WireCap /\ WireCap \in Nat
      /\ up # << >> /\ up' = Tail(up)
  BY WireAssumption DEF Types, WireType, Takes
<1> QED
  BY <1>1, SeqMoves

LEMMA TerminateTyped ==
  ASSUME Types, NEW t \in Turn, Terminate(t)
  PROVE  /\ known' \in [Turn -> {"absent", "open", "terminated"}]
         /\ order' \in Seq(Turn) /\ Len(order') <= Retention
<1> DEFINE q == Append(order, t)
           k == [known EXCEPT ![t] = "terminated"]
<1>1. /\ order \in Seq(Turn) /\ Len(order) <= Retention /\ Retention \in Nat \ {0}
      /\ known \in [Turn -> {"absent", "open", "terminated"}]
  BY GuestAssumption DEF Types, GuestType
<1>2. q \in Seq(Turn) /\ Len(q) = Len(order) + 1 /\ k \in [Turn -> {"absent", "open", "terminated"}]
  BY <1>1, SeqMoves
<1>3. CASE Len(q) > Retention
  <2>1. order' = Tail(q) /\ known' = [k EXCEPT ![Head(q)] = "absent"]
    BY <1>3 DEF Terminate
  <2> HIDE DEF q, k
  <2>2. Tail(q) \in Seq(Turn) /\ Len(Tail(q)) = Len(q) - 1
    BY <1>1, <1>2, <1>3, SeqMoves
  <2> QED
    BY <1>1, <1>2, <1>3, <2>1, <2>2
<1>4. CASE ~(Len(q) > Retention)
  <2>1. order' = q /\ known' = k
    BY <1>4 DEF Terminate
  <2> HIDE DEF q, k
  <2> QED
    BY <1>1, <1>2, <1>4, <2>1
<1> QED
  BY <1>3, <1>4

\* A step of the host or of the relay keeps the wire's types.
LEMMA DriveTyped ==
  ASSUME WireType, Drive
  PROVE  WireType'
<1>1. /\ up \in Seq([kind : Requests, id : Id]) /\ Len(up) <= WireCap /\ WireCap \in Nat
      /\ down \in Seq([kind : Answer, id : Id]) /\ Len(down) <= WireCap
      /\ link \in {"open", "fin", "cut"}
  BY WireAssumption DEF WireType
<1>2. ASSUME NEW f \in [kind : Requests, id : Id], DriveWrites(f) PROVE WireType'
  <2>1. Append(up, f) \in Seq([kind : Requests, id : Id]) /\ Len(Append(up, f)) = Len(up) + 1
    BY <1>1, SeqMoves
  <2>2. Len(up) \in Nat /\ Len(up) < WireCap
    BY <1>1, <1>2 DEF DriveWrites
  <2>3. Len(Append(up, f)) <= WireCap
    BY <1>1, <2>1, <2>2
  <2> QED
    BY <1>1, <1>2, <2>1, <2>3 DEF DriveWrites, WireType
<1>3. CASE DriveReads
  <2>1. Tail(down) \in Seq([kind : Answer, id : Id]) /\ Len(Tail(down)) = Len(down) - 1
    BY <1>1, <1>3, SeqMoves DEF DriveReads
  <2> QED
    BY <1>1, <1>3, <2>1 DEF DriveReads, WireType
<1>4. CASE DriveCloses
  BY <1>1, <1>4 DEF DriveCloses, WireType
<1>5. CASE Break
  BY <1>1, <1>5 DEF Break, WireType
<1>6. /\ \A t \in Turn : /\ Frame("Execute", t) \in [kind : Requests, id : Id]
                         /\ Frame("Cancel", t) \in [kind : Requests, id : Id]
      /\ \A i \in Ctl, k \in CtlKind : Frame(k, i) \in [kind : Requests, id : Id]
  BY FramesTyped DEF Requests, CtlKind, Id
<1> QED
  BY <1>2, <1>3, <1>4, <1>5, <1>6 DEF Drive

\* What an action that takes a frame or answers leaves as it was.
LEMMA TypesFromParts ==
  ASSUME Types,
         up' \in Seq([kind : Requests, id : Id]) /\ Len(up') <= WireCap,
         down' \in Seq([kind : Answer, id : Id]) /\ Len(down') <= WireCap,
         link' \in {"open", "fin", "cut"}, Sane(svc'),
         gpc' \in {"serve", "teardown", "reaping", "gone"}, greeted' \in BOOLEAN,
         active' \in Turn \cup {None},
         known' \in [Turn -> {"absent", "open", "terminated"}],
         order' \in Seq(Turn) /\ Len(order') <= Retention,
         worker' \in {"none", "running", "panicked"},
         outbox' \in Seq(Messages) /\ Len(outbox') <= WorkerCap,
         owed' \in Seq([kind : Answer, id : Id]), wrote' \in [Turn -> 0..MaxOutput]
  PROVE  Types'
  BY DEF Types, WireType, GuestType, Sane

\* The types, one by one.
LEMMA TypesGive ==
  ASSUME Types
  PROVE  /\ up \in Seq([kind : Requests, id : Id]) /\ Len(up) <= WireCap
         /\ down \in Seq([kind : Answer, id : Id]) /\ Len(down) <= WireCap
         /\ link \in {"open", "fin", "cut"} /\ Sane(svc)
         /\ gpc \in {"serve", "teardown", "reaping", "gone"} /\ greeted \in BOOLEAN
         /\ active \in Turn \cup {None}
         /\ known \in [Turn -> {"absent", "open", "terminated"}]
         /\ order \in Seq(Turn) /\ Len(order) <= Retention
         /\ worker \in {"none", "running", "panicked"}
         /\ outbox \in Seq(Messages) /\ Len(outbox) <= WorkerCap
         /\ owed \in Seq([kind : Answer, id : Id]) /\ wrote \in [Turn -> 0..MaxOutput]
  BY DEF Types, WireType, GuestType, Sane

LEMMA OneFrame ==
  ASSUME NEW k \in Answer, NEW i \in Id
  PROVE  <<Frame(k, i)>> \in Seq([kind : Answer, id : Id])
<1>1. PICK f \in [kind : Answer, id : Id] : f = Frame(k, i)
  BY FramesTyped
<1> QED
  BY <1>1

\* The frame that is taken carries an id of the wire.
LEMMA TypesNext ==
  ASSUME IInv, [Next]_vars
  PROVE  Types'
<1> USE TypesGive DEF IInv
<1>1. CASE WriteOwed
  <2>1. CASE link # "cut"
    <3>1. /\ down' = Append(down, Head(owed)) /\ owed' = Tail(owed) /\ owed # << >>
          /\ Len(down) < WireCap /\ gpc' = gpc /\ link' = link
      BY <1>1, <2>1 DEF WriteOwed
    <3>2. Head(owed) \in [kind : Answer, id : Id] /\ Tail(owed) \in Seq([kind : Answer, id : Id])
      BY <3>1, SeqMoves
    <3>5. PICK f \in [kind : Answer, id : Id] : f = Head(owed)
      BY <3>2
    <3>6. /\ Append(down, f) \in Seq([kind : Answer, id : Id])
          /\ Len(Append(down, f)) = Len(down) + 1 /\ Len(down) \in Nat
      BY SeqMoves
    <3>3. /\ Append(down, Head(owed)) \in Seq([kind : Answer, id : Id])
          /\ Len(Append(down, Head(owed))) = Len(down) + 1 /\ Len(down) \in Nat
      BY <3>5, <3>6
    <3>4. Len(down') <= WireCap
      BY <3>1, <3>3, WireAssumption
    <3> QED
      BY <1>1, <3>1, <3>2, <3>3, <3>4, TypesFromParts DEF WriteOwed
  <2>2. CASE link = "cut"
    BY <1>1, <2>2, TypesFromParts DEF WriteOwed, Leave
  <2> QED
    BY <2>1, <2>2
<1>2. CASE ReadFails
  BY <1>2, TypesFromParts DEF ReadFails, Leave
<1>3. ASSUME NEW t \in Turn, RefuseExecute(t) PROVE Types'
  <2>1. <<Frame("Error", t)>> \in Seq([kind : Answer, id : Id])
    BY OneFrame DEF Answer, Ends, Id
  <2> QED
    BY <1>3, <2>1, TakesTyped, TypesFromParts DEF RefuseExecute
<1>4. ASSUME NEW t \in Turn, SpawnWorker(t) PROVE Types'
  <2>1. Sane(SpawnTurn(svc, KeyOf(t)).svc)
    BY <1>4, SesHolds, SpawnClaims DEF SpawnWorker, Accepts
  <2>2. /\ [known EXCEPT ![t] = "open"] \in [Turn -> {"absent", "open", "terminated"}]
        /\ [wrote EXCEPT ![t] = 0] \in [Turn -> 0..MaxOutput]
    BY GuestAssumption
  <2>3. up' \in Seq([kind : Requests, id : Id]) /\ Len(up') <= WireCap
    BY <1>4, TakesTyped DEF SpawnWorker, Accepts
  <2> QED
    BY <1>4, <2>1, <2>2, <2>3, TypesFromParts DEF SpawnWorker
<1>5. ASSUME NEW t \in Turn, NEW n \in 0..MaxOutput, NEW r \in {"completed", "failed", "panic"},
             RunBuiltin(t, n, r)
      PROVE  Types'
  <2> DEFINE claimed == SpawnTurn(svc, KeyOf(t)).svc
             c == CompleteTurn(claimed, KeyOf(t), r)
  <2>1. Sane(claimed) /\ KeyOf(t) \in Key
    BY <1>5, SesHolds, SpawnClaims DEF RunBuiltin, Accepts
  <2>2. up' \in Seq([kind : Requests, id : Id]) /\ Len(up') <= WireCap
    BY <1>5, TakesTyped DEF RunBuiltin, Accepts
  <2>3. /\ known' \in [Turn -> {"absent", "open", "terminated"}]
        /\ order' \in Seq(Turn) /\ Len(order') <= Retention
    BY <1>5, TerminateTyped DEF RunBuiltin
  <2> HIDE DEF claimed
  <2>4. CASE r = "panic"
    <3>1. /\ svc' = AbandonActiveTurn(claimed) /\ owed' = <<Frame("Error", t)>>
          /\ wrote' = [wrote EXCEPT ![t] = 0]
      BY <1>5, <2>4 DEF RunBuiltin, claimed
    <3>2. Sane(svc')
      BY <2>1, <3>1, AbandonKeeps
    <3>3. owed' \in Seq([kind : Answer, id : Id])
      BY <3>1, OneFrame DEF Answer, Ends, Id
    <3>4. wrote' \in [Turn -> 0..MaxOutput]
      BY <3>1, GuestAssumption
    <3> QED
      BY <1>5, <2>2, <2>3, <3>2, <3>3, <3>4, TypesFromParts DEF RunBuiltin
  <2>5. CASE r # "panic"
    <3>1. /\ svc' = c.svc /\ wrote' = [wrote EXCEPT ![t] = n]
          /\ owed' = Append([i \in 1..n |-> Frame("Output", t)], EndFrame(t, c.ans))
      BY <1>5, <2>5 DEF RunBuiltin, claimed
    <3>2. Sane(svc')
      BY <2>1, <2>5, <3>1, CompleteKeeps
    <3>3. owed' \in Seq([kind : Answer, id : Id])
      BY <3>1, EndTyped, BurstTyped DEF Ends
    <3>4. wrote' \in [Turn -> 0..MaxOutput]
      BY <3>1, GuestAssumption
    <3> QED
      BY <1>5, <2>2, <2>3, <3>2, <3>3, <3>4, TypesFromParts DEF RunBuiltin
  <2> QED
    BY <2>4, <2>5
<1>6. ASSUME NEW i \in Id, TakeCancel(i) PROVE Types'
  <2>1. up' \in Seq([kind : Requests, id : Id]) /\ Len(up') <= WireCap
    BY <1>6, TakesTyped DEF TakeCancel
  <2>2. owed' \in Seq([kind : Answer, id : Id])
    <3>1. owed' = <<Frame("Error", i)>> \/ owed' = <<Frame("CancelAck", i)>>
      BY <1>6 DEF TakeCancel
    <3>2. i \in Id /\ "Error" \in Answer /\ "CancelAck" \in Answer
      BY DEF Answer, Ends, Acks, Id
    <3> QED
      BY <3>1, <3>2, OneFrame
  <2>3. Sane(svc')
    <3>1. svc' = svc \/ (active # None /\ svc' = CancelActive(svc, KeyOf(active)).svc)
      BY <1>6 DEF TakeCancel, Hits
    <3>2. CASE active # None /\ svc' = CancelActive(svc, KeyOf(active)).svc
      <4>1. KeyOf(active) \in Key /\ KeyOf(active)[1] = Ses /\ KeyOf(active)[2] = active
        BY <3>2, SesHolds
      <4> QED
        BY <3>2, <4>1, CancelTells DEF OnTheBooks
    <3> QED
      BY <3>1, <3>2
  <2> QED
    BY <1>6, <2>1, <2>2, <2>3, TypesFromParts DEF TakeCancel
<1>7. ASSUME NEW i \in Ctl, TakeHello(i) PROVE Types'
  <2>1. <<Frame("HelloAck", i)>> \in Seq([kind : Answer, id : Id])
    BY OneFrame DEF Answer, Acks, Id
  <2>2. Sane(HandleHello(svc, 1).svc)
    BY HelloKeeps
  <2> QED
    BY <1>7, <2>1, <2>2, TakesTyped, TypesFromParts DEF TakeHello
<1>8. ASSUME NEW i \in Ctl, TakeHealth(i) PROVE Types'
  <2>1. owed' \in Seq([kind : Answer, id : Id])
    <3>1. owed' = <<Frame("Error", i)>> \/ owed' = <<Frame("HealthAck", i)>>
      BY <1>8 DEF TakeHealth
    <3>2. i \in Id /\ "Error" \in Answer /\ "HealthAck" \in Answer
      BY DEF Answer, Ends, Acks, Id
    <3> QED
      BY <3>1, <3>2, OneFrame
  <2> QED
    BY <1>8, <2>1, TakesTyped, TypesFromParts DEF TakeHealth
<1>9. ASSUME NEW i \in Ctl, TakeFs(i) PROVE Types'
  <2>1. owed' \in Seq([kind : Answer, id : Id])
    <3>1. owed' = <<Frame("Error", i)>> \/ owed' = <<Frame("FsResult", i)>>
      BY <1>9 DEF TakeFs
    <3>2. i \in Id /\ "Error" \in Answer /\ "FsResult" \in Answer
      BY DEF Answer, Ends, Acks, Id
    <3> QED
      BY <3>1, <3>2, OneFrame
  <2> QED
    BY <1>9, <2>1, TakesTyped, TypesFromParts DEF TakeFs
<1>10. CASE ForwardOutput
  <2>1. /\ active \in Turn /\ outbox # << >> /\ outbox[1].kind = "output"
        /\ outbox' = Tail(outbox) /\ owed' = <<Frame("Output", active)>>
        /\ wrote' = [wrote EXCEPT ![active] = @ + 1]
    BY <1>10, SeqMoves DEF ForwardOutput
  <2>2. Tail(outbox) \in Seq(Messages) /\ Len(Tail(outbox)) <= WorkerCap /\ Len(outbox) > 0
    BY <2>1, SeqMoves, GuestAssumption
  <2>3. wrote[active] + 1 <= MaxOutput
    BY <2>1, <2>2 DEF ResultIsLast
  <2>4. wrote' \in [Turn -> 0..MaxOutput]
    BY <2>1, <2>3, GuestAssumption
  <2>5. owed' \in Seq([kind : Answer, id : Id])
    BY <2>1, OneFrame DEF Answer, Id
  <2> QED
    BY <1>10, <2>1, <2>2, <2>4, <2>5, TypesFromParts DEF ForwardOutput, wire
<1>11. CASE TakeResult
  <2> DEFINE c == CompleteTurn(svc, KeyOf(active), Head(outbox).kind)
  <2>1. /\ active \in Turn /\ outbox # << >> /\ Head(outbox).kind # "output" /\ Terminate(active)
        /\ outbox' = Tail(outbox) /\ owed' = <<EndFrame(active, c.ans)>> /\ svc' = c.svc
    BY <1>11 DEF TakeResult
  <2>2. Head(outbox).kind \in {"completed", "cancelled", "failed"}
    BY <2>1, SeqMoves DEF Messages
  <2>3. Sane(c.svc)
    BY <2>1, <2>2, SesHolds, CompleteKeeps
  <2>4. Tail(outbox) \in Seq(Messages) /\ Len(Tail(outbox)) <= WorkerCap
    BY <2>1, SeqMoves, GuestAssumption
  <2>5. <<EndFrame(active, c.ans)>> \in Seq([kind : Answer, id : Id])
    <3> HIDE DEF c
    <3>1. EndFrame(active, c.ans) = Frame("Exit", active) \/ EndFrame(active, c.ans) = Frame("Error", active)
      BY <2>1, EndTyped
    <3> QED
      BY <2>1, <3>1, OneFrame DEF Answer, Ends, Id
  <2>6. /\ known' \in [Turn -> {"absent", "open", "terminated"}]
        /\ order' \in Seq(Turn) /\ Len(order') <= Retention
    BY <2>1, TerminateTyped
  <2> HIDE DEF c
  <2> QED
    BY <1>11, <2>1, <2>3, <2>4, <2>5, <2>6, TypesFromParts DEF TakeResult, wire
<1>12. CASE TakePanic
  <2>1. <<Frame("Error", active)>> \in Seq([kind : Answer, id : Id])
    BY <1>12, OneFrame DEF TakePanic, Answer, Ends, Id
  <2>2. Sane(AbandonActiveTurn(svc))
    BY AbandonKeeps
  <2> QED
    BY <1>12, <2>1, <2>2, TypesFromParts DEF TakePanic, wire
<1>13. CASE Teardown
  <2>1. active \in Turn /\ svc' = CancelActive(svc, KeyOf(active)).svc
    BY <1>13 DEF Teardown, LeavesInOrder
  <2>2. KeyOf(active) \in Key /\ KeyOf(active)[1] = Ses /\ KeyOf(active)[2] = active
    BY <2>1, SesHolds
  <2>3. Sane(svc')
    BY <2>1, <2>2, CancelTells, WireAssumption DEF OnTheBooks
  <2> QED
    BY <1>13, <2>3, TypesFromParts DEF Teardown, wire
<1>14. CASE Reap
  <2>1. Tail(outbox) \in Seq(Messages) /\ Len(Tail(outbox)) <= WorkerCap
    BY <1>14, SeqMoves, GuestAssumption DEF Reap
  <2> QED
    BY <1>14, <2>1, TypesFromParts DEF Reap
<1>15. CASE ReapTimeout
  <2>1. << >> \in Seq(Messages) /\ Len(<< >>) <= WorkerCap
    BY GuestAssumption
  <2> QED
    BY <1>15, <2>1, TypesFromParts DEF ReapTimeout
<1>16. ASSUME NEW r \in {"completed", "cancelled", "failed"}, WorkerEnds(r) PROVE Types'
  <2>1. active \in Turn
    BY <1>16 DEF WorkerEnds, IdleIsClean
  <2>2. [kind |-> r, id |-> active] \in Messages
    BY <2>1 DEF Messages
  <2>3. Append(outbox, [kind |-> r, id |-> active]) \in Seq(Messages)
        /\ Len(Append(outbox, [kind |-> r, id |-> active])) = Len(outbox) + 1 /\ Len(outbox) \in Nat
    BY <2>2, SeqMoves
  <2>4. outbox' \in Seq(Messages) /\ Len(outbox') <= WorkerCap
    <3>1. CASE outbox' = outbox
      BY <3>1
    <3>2. CASE Len(outbox) < WorkerCap /\ outbox' = Append(outbox, [kind |-> r, id |-> active])
      BY <2>3, <3>2, GuestAssumption
    <3> QED
      BY <1>16, <3>1, <3>2 DEF WorkerEnds
  <2> QED
    BY <1>16, <2>4, TypesFromParts DEF WorkerEnds, wire
<1>17. CASE WorkerWrites
  <2>1. active \in Turn
    BY <1>17 DEF WorkerWrites, IdleIsClean
  <2>2. [kind |-> "output", id |-> active] \in Messages
    BY <2>1 DEF Messages
  <2>3. Append(outbox, [kind |-> "output", id |-> active]) \in Seq(Messages)
        /\ Len(Append(outbox, [kind |-> "output", id |-> active])) = Len(outbox) + 1
        /\ Len(outbox) \in Nat
    BY <2>2, SeqMoves
  <2>4. outbox' \in Seq(Messages) /\ Len(outbox') <= WorkerCap
    BY <1>17, <2>3, GuestAssumption DEF WorkerWrites
  <2> QED
    BY <1>17, <2>4, TypesFromParts DEF WorkerWrites, wire
<1>18. CASE WorkerPanics
  BY <1>18, TypesFromParts DEF WorkerPanics, wire
<1>19. CASE Client
  BY <1>19, DriveTyped DEF Client, guest, Types, GuestType
<1>20. CASE UNCHANGED vars
  BY <1>20 DEF vars, wire, guest, Types, WireType, GuestType
<1> QED
  BY <1>1, <1>2, <1>3, <1>4, <1>5, <1>6, <1>7, <1>8, <1>9, <1>10, <1>11, <1>12, <1>13, <1>14,
     <1>15, <1>16, <1>17, <1>18, <1>19, <1>20
     DEF Next, GuestNext, Serve, Work, Gone, Id

-----------------------------------------------------------------------------
(* The shape of a turn *)

Shape == IdleIsClean /\ OnTheBooks /\ ResultIsLast /\ LeavesInOrder

\* The books of the turn stand.
SameTurn ==
  /\ active' = active /\ svc'.active = svc.active /\ svc'.armed = svc.armed
  /\ svc'.flag = svc.flag /\ svc'.cancelled = svc.cancelled

LEMMA TurnStands ==
  ASSUME OnTheBooks, SameTurn
  PROVE  OnTheBooks'
  BY DEF OnTheBooks, SameTurn, KeyOf, ValidIdentity

\* A step of the loop that touches neither the turn nor its worker.
LEMMA ShapeStands ==
  ASSUME Shape, SameTurn, UNCHANGED <<worker, outbox, gpc>>,
         active # None => wrote' = wrote,
         gpc # "serve" => owed' = << >> /\ (link # "open" => link' # "open")
  PROVE  Shape'
<1>1. OnTheBooks'
  BY TurnStands DEF Shape
<1>2. IdleIsClean'
  BY DEF Shape, IdleIsClean, SameTurn
<1>3. ResultIsLast'
  <2>1. CASE active = None
    BY <2>1 DEF Shape, IdleIsClean, ResultIsLast
  <2>2. CASE active # None
    BY <2>2 DEF Shape, ResultIsLast, SameTurn
  <2> QED
    BY <2>1, <2>2
<1>4. LeavesInOrder'
  BY DEF Shape, LeavesInOrder, SameTurn
<1> QED
  BY <1>1, <1>2, <1>3, <1>4 DEF Shape

\* A turn that is over leaves nothing behind.
LEMMA ShapeOfIdle ==
  ASSUME active' = None, worker' = "none", outbox' = << >>, gpc' = "serve"
  PROVE  Shape'
<1>1. ResultIsLast'
  BY DEF ResultIsLast
<1> QED
  BY <1>1 DEF Shape, IdleIsClean, OnTheBooks, LeavesInOrder

\* The loop ends.
LEMMA ShapeOfLeaving ==
  ASSUME Shape, Leave, gpc = "serve", link # "open", owed' = << >>,
         UNCHANGED <<svc, active, worker, outbox, wrote>>
  PROVE  Shape'
<1>1. OnTheBooks'
  BY TurnStands DEF Shape, SameTurn
<1>2. IdleIsClean' /\ ResultIsLast'
  BY DEF Shape, IdleIsClean, ResultIsLast
<1>3. LeavesInOrder'
  BY DEF Leave, LeavesInOrder
<1> QED
  BY <1>1, <1>2, <1>3 DEF Shape

\* The active turn is told to stop.
LEMMA Told ==
  ASSUME Types, Shape, active # None, active' = active, svc' = CancelActive(svc, KeyOf(active)).svc
  PROVE  OnTheBooks' /\ svc'.flag /\ CancelActive(svc, KeyOf(active)).ans = "empty"
<1>1. active \in Turn /\ Sane(svc)
  BY TypesGive
<1>2. KeyOf(active) \in Key /\ KeyOf(active)[1] = Ses /\ KeyOf(active)[2] = active
  BY <1>1, SesHolds
<1>3. /\ svc'.active = svc.active /\ svc'.armed /\ svc'.flag
      /\ CancelActive(svc, KeyOf(active)).ans = "empty"
  BY <1>1, <1>2, CancelTells DEF Shape, OnTheBooks
<1> QED
  BY <1>3 DEF Shape, OnTheBooks, KeyOf

\* The worker puts a message into its channel.
LEMMA ShapeOfMessage ==
  ASSUME Types, Shape, worker = "running", NEW k \in {"output", "completed", "cancelled", "failed"},
         outbox' = Append(outbox, [kind |-> k, id |-> active]),
         k = "output" => worker' = worker /\ wrote[active] + Len(outbox) < MaxOutput,
         k # "output" => worker' = "none",
         UNCHANGED <<svc, gpc, active, owed, link, wrote>>
  PROVE  Shape'
<1>1. active \in Turn /\ outbox \in Seq(Messages)
  BY TypesGive DEF Shape, IdleIsClean
<1> DEFINE m == [kind |-> k, id |-> active]
<1>2. m \in Messages /\ m.kind = k
  BY <1>1 DEF Messages
<1>3. /\ Len(outbox') = Len(outbox) + 1 /\ outbox'[Len(outbox) + 1] = m /\ Len(outbox) \in Nat
      /\ \A i \in 1..Len(outbox) : outbox'[i] = outbox[i]
  BY <1>1, <1>2, SeqMoves
<1> HIDE DEF m
<1>4. IdleIsClean' /\ active' # None
  BY <1>1, WireAssumption DEF IdleIsClean
<1>5. ResultIsLast'
  <2> SUFFICES ASSUME NEW i \in 1..(Len(outbox) + 1)
               PROVE  IF outbox'[i].kind = "output" THEN wrote[active] + i <= MaxOutput
                        ELSE i = Len(outbox) + 1 /\ worker' = "none"
    BY <1>3 DEF ResultIsLast
  <2>1. CASE i \in 1..Len(outbox)
    <3>1. outbox[i].kind = "output" /\ wrote[active] + i <= MaxOutput
      BY <2>1 DEF Shape, ResultIsLast
    <3> QED
      BY <1>3, <2>1, <3>1
  <2>2. CASE i = Len(outbox) + 1
    <3>1. wrote[active] \in Nat /\ MaxOutput \in Nat
      BY <1>1, TypesGive, GuestAssumption
    <3> QED
      BY <1>2, <1>3, <2>2, <3>1
  <2> QED
    BY <1>3, <2>1, <2>2
<1>6. OnTheBooks'
  BY TurnStands DEF Shape, SameTurn
<1>7. LeavesInOrder'
  BY DEF Shape, LeavesInOrder
<1> QED
  BY <1>4, <1>5, <1>6, <1>7 DEF Shape

\* The head of the channel is taken.
LEMMA TailIsLast ==
  ASSUME Types, Shape, outbox # << >>, outbox' = Tail(outbox), UNCHANGED <<active, worker>>,
         active \in Turn,
         Head(outbox).kind = "output" => wrote'[active] \in {wrote[active], wrote[active] + 1}
  PROVE  ResultIsLast'
<1>1. /\ outbox \in Seq(Messages) /\ Len(outbox) \in Nat /\ Len(outbox) > 0
      /\ Len(outbox') = Len(outbox) - 1 /\ Head(outbox) = outbox[1]
      /\ \A i \in 1..(Len(outbox) - 1) : outbox'[i] = outbox[i + 1]
  BY TypesGive, SeqMoves
<1> SUFFICES ASSUME NEW i \in 1..(Len(outbox) - 1)
             PROVE  IF outbox'[i].kind = "output" THEN wrote'[active] + i <= MaxOutput
                      ELSE i = Len(outbox) - 1 /\ worker = "none"
  BY <1>1 DEF ResultIsLast
<1>2. i + 1 \in 1..Len(outbox) /\ 1 \in 1..Len(outbox) /\ 1 # Len(outbox)
  BY <1>1
<1>3. outbox[1].kind = "output"
  BY <1>2 DEF Shape, ResultIsLast
<1>4. IF outbox[i + 1].kind = "output" THEN wrote[active] + (i + 1) <= MaxOutput
        ELSE i + 1 = Len(outbox) /\ worker = "none"
  BY <1>2 DEF Shape, ResultIsLast
<1>5. wrote[active] \in Nat /\ MaxOutput \in Nat /\ outbox'[i] = outbox[i + 1]
  BY <1>1, TypesGive, GuestAssumption
<1>6. wrote'[active] = wrote[active] \/ wrote'[active] = wrote[active] + 1
  BY <1>1, <1>3
<1>7. CASE outbox[i + 1].kind = "output"
  <2>1. wrote[active] + (i + 1) <= MaxOutput
    BY <1>4, <1>7
  <2>2. wrote'[active] + i <= MaxOutput
    BY <1>5, <1>6, <2>1
  <2> QED
    BY <1>5, <1>7, <2>2
<1>8. CASE outbox[i + 1].kind # "output"
  <2>1. i + 1 = Len(outbox) /\ worker = "none"
    BY <1>4, <1>8
  <2>4. PICK n \in Nat : n = Len(outbox)
    BY <1>1
  <2>5. i \in 1..(n - 1) /\ i + 1 = n
    BY <2>1, <2>4
  <2>6. i = n - 1
    BY <2>5
  <2>2. i = Len(outbox) - 1
    BY <2>4, <2>6
  <2>3. outbox'[i].kind # "output"
    BY <1>5, <1>8
  <2> QED
    BY <2>1, <2>2, <2>3
<1> QED
  BY <1>7, <1>8

\* After the result nothing is left in the channel.
LEMMA ResultEmpties ==
  ASSUME Types, Shape, outbox # << >>, Head(outbox).kind # "output"
  PROVE  Tail(outbox) = << >> /\ worker = "none"
<1>1. outbox \in Seq(Messages) /\ Head(outbox) = outbox[1] /\ Len(outbox) \in Nat /\ Len(outbox) > 0
  BY TypesGive, SeqMoves
<1>2. 1 = Len(outbox) /\ worker = "none"
  <2>1. 1 \in 1..Len(outbox)
    BY <1>1
  <2> QED
    BY <1>1, <2>1 DEF Shape, ResultIsLast
<1>3. Tail(outbox) \in Seq(Messages) /\ Len(Tail(outbox)) = 0
  BY <1>1, <1>2, SeqMoves
<1> QED
  BY <1>2, <1>3, EmptySeq

LEMMA ShapeNext ==
  ASSUME IInv, [Next]_vars
  PROVE  Shape'
<1>0. Types /\ Shape
  BY DEF IInv, Shape
<1> USE <1>0
<1>1. CASE WriteOwed
  <2>1. gpc = "serve" /\ UNCHANGED <<svc, active, worker, outbox, wrote>>
    BY <1>1 DEF WriteOwed
  <2>2. CASE link # "cut"
    BY <1>1, <2>1, <2>2, ShapeStands DEF WriteOwed, SameTurn
  <2>3. CASE link = "cut"
    BY <1>1, <2>1, <2>3, ShapeOfLeaving DEF WriteOwed
  <2> QED
    BY <2>2, <2>3
<1>2. CASE ReadFails
  BY <1>2, ShapeOfLeaving DEF ReadFails, Serving
<1>3. ASSUME NEW t \in Turn, RefuseExecute(t) PROVE Shape'
  BY <1>3, ShapeStands DEF RefuseExecute, Takes, Serving, SameTurn
<1>4. ASSUME NEW t \in Turn, SpawnWorker(t) PROVE Shape'
  <2>1. /\ gpc = "serve" /\ gpc' = gpc /\ active = None /\ active' = t /\ worker' = "running"
        /\ outbox' = outbox /\ svc' = SpawnTurn(svc, KeyOf(t)).svc
        /\ SpawnTurn(svc, KeyOf(t)).ans = "claimed"
    BY <1>4 DEF SpawnWorker, Accepts, Takes, Serving
  <2>2. outbox = << >>
    BY <2>1 DEF Shape, IdleIsClean
  <2>3. /\ ValidIdentity(KeyOf(t)) /\ svc'.active[Ses] = t /\ svc'.armed
        /\ ~Cached(svc'.cancelled, KeyOf(t))
    <3>1. KeyOf(t) \in Key /\ KeyOf(t)[1] = Ses /\ KeyOf(t)[2] = t /\ Sane(svc)
      BY SesHolds, TypesGive
    <3> QED
      BY <2>1, <3>1, SpawnClaims
  <2>4. OnTheBooks'
    BY <2>1, <2>3 DEF OnTheBooks, KeyOf
  <2>5. IdleIsClean' /\ ResultIsLast' /\ LeavesInOrder'
    BY <2>1, <2>2, WireAssumption DEF IdleIsClean, ResultIsLast, LeavesInOrder
  <2> QED
    BY <2>4, <2>5 DEF Shape
<1>5. ASSUME NEW t \in Turn, NEW n \in 0..MaxOutput, NEW r \in {"completed", "failed", "panic"},
             RunBuiltin(t, n, r)
      PROVE  Shape'
  <2>1. active = None /\ gpc = "serve" /\ UNCHANGED <<gpc, active, worker, outbox>>
    BY <1>5 DEF RunBuiltin, Accepts, Takes, Serving
  <2>2. worker = "none" /\ outbox = << >>
    BY <2>1 DEF Shape, IdleIsClean
  <2> QED
    BY <2>1, <2>2, ShapeOfIdle
<1>6. ASSUME NEW i \in Id, TakeCancel(i) PROVE Shape'
  <2>1. gpc = "serve" /\ UNCHANGED <<gpc, active, worker, outbox, wrote>>
    BY <1>6 DEF TakeCancel, Takes, Serving
  <2>2. CASE svc' = svc
    BY <2>1, <2>2, ShapeStands DEF SameTurn
  <2>3. CASE active # None /\ svc' = CancelActive(svc, KeyOf(active)).svc
    <3>1. OnTheBooks'
      BY <2>1, <2>3, Told
    <3>2. IdleIsClean' /\ ResultIsLast' /\ LeavesInOrder'
      BY <2>1 DEF Shape, IdleIsClean, ResultIsLast, LeavesInOrder
    <3> QED
      BY <3>1, <3>2 DEF Shape
  <2> QED
    BY <1>6, <2>2, <2>3 DEF TakeCancel, Hits
<1>7. ASSUME NEW i \in Ctl, TakeHello(i) PROVE Shape'
  <2>1. SameTurn
    BY <1>7, HelloKeeps, TypesGive DEF TakeHello, SameTurn
  <2> QED
    BY <1>7, <2>1, ShapeStands DEF TakeHello, Takes, Serving
<1>8. ASSUME NEW i \in Ctl, TakeHealth(i) \/ TakeFs(i) PROVE Shape'
  BY <1>8, ShapeStands DEF TakeHealth, TakeFs, Takes, Serving, SameTurn
<1>10. CASE ForwardOutput
  <2>1. /\ gpc = "serve" /\ active \in Turn /\ outbox # << >> /\ outbox' = Tail(outbox)
        /\ UNCHANGED <<svc, gpc, active, worker>> /\ Head(outbox).kind = "output"
        /\ wrote' = [wrote EXCEPT ![active] = @ + 1]
    BY <1>10, TypesGive DEF ForwardOutput, Serving
  <2>2. wrote'[active] = wrote[active] + 1
    BY <2>1, TypesGive
  <2>3. ResultIsLast'
    BY <2>1, <2>2, TailIsLast
  <2>4. IdleIsClean' /\ LeavesInOrder'
    BY <2>1, WireAssumption DEF IdleIsClean, LeavesInOrder
  <2>5. OnTheBooks'
    BY <2>1, TurnStands DEF Shape, SameTurn
  <2> QED
    BY <2>3, <2>4, <2>5 DEF Shape
<1>11. CASE TakeResult
  <2>1. /\ gpc' = "serve" /\ active' = None /\ outbox # << >> /\ outbox' = Tail(outbox)
        /\ worker' = worker /\ Head(outbox).kind # "output"
    BY <1>11 DEF TakeResult, Serving
  <2> QED
    BY <2>1, ResultEmpties, ShapeOfIdle
<1>12. CASE TakePanic
  BY <1>12, ShapeOfIdle DEF TakePanic, Serving
<1>13. CASE Teardown
  <2>1. /\ gpc = "teardown" /\ gpc' = "reaping" /\ svc' = CancelActive(svc, KeyOf(active)).svc
        /\ UNCHANGED <<active, worker, outbox, owed, wrote, link>>
    BY <1>13 DEF Teardown, wire
  <2>2. active # None /\ owed = << >> /\ link # "open"
    BY <2>1 DEF Shape, LeavesInOrder
  <2>3. OnTheBooks' /\ svc'.flag
    BY <2>1, <2>2, Told
  <2>4. IdleIsClean' /\ ResultIsLast' /\ LeavesInOrder'
    BY <2>1, <2>2, <2>3 DEF Shape, IdleIsClean, ResultIsLast, LeavesInOrder
  <2> QED
    BY <2>3, <2>4 DEF Shape
<1>14. CASE Reap
  <2>1. /\ gpc = "reaping" /\ gpc' \in {"reaping", "gone"} /\ outbox # << >>
        /\ outbox' = Tail(outbox) /\ (link' = link \/ link' = "cut")
        /\ UNCHANGED <<svc, active, worker, owed, wrote>>
    BY <1>14 DEF Reap
  <2>2. active \in Turn /\ owed = << >> /\ link # "open" /\ svc.flag
    BY <2>1, TypesGive DEF Shape, LeavesInOrder
  <2>3. ResultIsLast'
    BY <2>1, <2>2, TailIsLast
  <2>4. IdleIsClean' /\ LeavesInOrder'
    BY <2>1, <2>2, WireAssumption DEF IdleIsClean, LeavesInOrder
  <2>5. OnTheBooks'
    BY <2>1, TurnStands DEF Shape, SameTurn
  <2> QED
    BY <2>3, <2>4, <2>5 DEF Shape
<1>15. CASE ReapTimeout
  <2>1. /\ gpc = "reaping" /\ gpc' = "gone" /\ outbox' = << >> /\ link' = "cut"
        /\ UNCHANGED <<svc, active, worker, owed, wrote>>
    BY <1>15 DEF ReapTimeout
  <2>2. active # None /\ owed = << >> /\ svc.flag
    BY <2>1 DEF Shape, LeavesInOrder
  <2>3. IdleIsClean' /\ ResultIsLast' /\ LeavesInOrder'
    BY <2>1, <2>2 DEF IdleIsClean, ResultIsLast, LeavesInOrder
  <2>5. OnTheBooks'
    BY <2>1, TurnStands DEF Shape, SameTurn
  <2> QED
    BY <2>3, <2>5 DEF Shape
<1>16. ASSUME NEW r \in {"completed", "cancelled", "failed"}, WorkerEnds(r) PROVE Shape'
  <2>1. /\ worker = "running" /\ worker' = "none"
        /\ UNCHANGED <<svc, gpc, active, owed, link, wrote>>
    BY <1>16 DEF WorkerEnds, wire
  <2>2. CASE outbox' = Append(outbox, [kind |-> r, id |-> active])
    BY <2>1, <2>2, ShapeOfMessage
  <2>3. CASE outbox' = outbox
    <3>1. OnTheBooks'
      BY <2>1, TurnStands DEF Shape, SameTurn
    <3>2. IdleIsClean' /\ ResultIsLast' /\ LeavesInOrder'
      BY <2>1, <2>3 DEF Shape, IdleIsClean, ResultIsLast, LeavesInOrder
    <3> QED
      BY <3>1, <3>2 DEF Shape
  <2> QED
    BY <1>16, <2>2, <2>3 DEF WorkerEnds
<1>17. CASE WorkerWrites
  BY <1>17, ShapeOfMessage DEF WorkerWrites, wire
<1>18. CASE WorkerPanics
  <2>1. worker = "running" /\ worker' = "panicked" /\ UNCHANGED <<svc, gpc, active, outbox, owed, link, wrote>>
    BY <1>18 DEF WorkerPanics, wire
  <2>2. OnTheBooks'
    BY <2>1, TurnStands DEF Shape, SameTurn
  <2>3. IdleIsClean' /\ ResultIsLast' /\ LeavesInOrder'
    BY <2>1 DEF Shape, IdleIsClean, ResultIsLast, LeavesInOrder
  <2> QED
    BY <2>2, <2>3 DEF Shape
<1>19. CASE Client
  <2>1. UNCHANGED <<svc, gpc, active, worker, outbox, owed, wrote>>
    BY <1>19 DEF Client, guest
  <2>2. link # "open" => link' # "open"
    BY <1>19 DEF Client, Drive, DriveWrites, DriveReads, DriveCloses, Break
  <2> QED
    BY <2>1, <2>2, ShapeStands DEF SameTurn, Shape, LeavesInOrder
<1>20. CASE UNCHANGED vars
  BY <1>20, ShapeStands DEF vars, wire, guest, SameTurn, Shape, LeavesInOrder
<1> QED
  BY <1>1, <1>2, <1>3, <1>4, <1>5, <1>6, <1>7, <1>8, <1>10, <1>11, <1>12, <1>13, <1>14,
     <1>15, <1>16, <1>17, <1>18, <1>19, <1>20
     DEF Next, GuestNext, Serve, Work, Gone, Id

LEMMA Initially == Init => IInv
<1> SUFFICES ASSUME Init PROVE IInv
  OBVIOUS
<1>1. Sane(svc)
  <2>1. [s \in Session |-> NoReq] \in [Session -> Request \cup {NoReq}]
    OBVIOUS
  <2>2. svc \in Service
    BY <2>1 DEF Init, GuestInit, FreshService, Service
  <2> QED
    BY <2>1, <2>2, LimitAssumption DEF Init, GuestInit, FreshService, Sane, ServiceType
<1>2. Types
  <2>1. WireType
    BY WireAssumption DEF Init, WireInit, WireType
  <2>2. /\ order \in Seq(Turn) /\ outbox \in Seq(Messages) /\ owed \in Seq([kind : Answer, id : Id])
        /\ Len(order) = 0 /\ Len(outbox) = 0
    BY DEF Init, GuestInit
  <2>3. wrote \in [Turn -> 0..MaxOutput]
    BY GuestAssumption DEF Init, GuestInit
  <2>4. known \in [Turn -> {"absent", "open", "terminated"}]
    BY DEF Init, GuestInit
  <2>5. Len(order) <= Retention /\ Len(outbox) <= WorkerCap
    BY <2>2, GuestAssumption
  <2>6. GuestType
    BY <1>1, <2>2, <2>3, <2>4, <2>5 DEF Init, GuestInit, GuestType, Sane
  <2> QED
    BY <1>1, <2>1, <2>6 DEF Types, Sane
<1>3. Shape
  BY DEF Init, GuestInit, WireInit, Shape, IdleIsClean, OnTheBooks, ResultIsLast, LeavesInOrder
<1> QED
  BY <1>2, <1>3 DEF IInv, Shape

\* The inductive invariant holds.
THEOREM Inductive == Spec => []IInv
<1>1. IInv /\ [Next]_vars => IInv'
  BY TypesNext, ShapeNext DEF IInv, Shape
<1> QED
  BY <1>1, Initially, PTL DEF Spec

\* The guest end keeps its types and bounds: the worker channel and the memory of ended
\* requests stay within their limits, for every limit.
THEOREM ConnectionTypes == Spec => []TypeOK
<1>1. IInv => TypeOK
  BY DEF IInv, Types, TypeOK
<1> QED
  BY <1>1, Inductive, PTL

\* A turn that outlives its connection has been told to stop.
THEOREM TurnIsStopped == Spec => []TeardownStopsTurn
<1>1. IInv => TeardownStopsTurn
  BY DEF IInv, IdleIsClean, LeavesInOrder, TeardownStopsTurn
<1> QED
  BY <1>1, Inductive, PTL

-----------------------------------------------------------------------------
(* The connection does what ZbrtPeer allows *)

\* What the host has still to read, the abstract peer's frames to the host.
Coming == IF link = "cut" THEN down ELSE down \o owed
PeerStep == Peer!PeerNext \/ (Peer!Drive /\ UNCHANGED Peer!peer)
PeerVars == <<Peer!wire, Peer!peer>>

\* Writing the first of the frames that are owed, and reading the first that was written,
\* leave the rest in order.
LEMMA WriteMoves ==
  ASSUME NEW S, NEW q \in Seq(S), NEW o \in Seq(S), o # << >>
  PROVE  Append(q, Head(o)) \o Tail(o) = q \o o
<1>1. /\ Head(o) = o[1] /\ Head(o) \in S /\ Tail(o) \in Seq(S) /\ Len(o) > 0 /\ Len(o) \in Nat
      /\ Len(Tail(o)) = Len(o) - 1
      /\ \A i \in 1..(Len(o) - 1) : Tail(o)[i] = o[i + 1]
  BY SeqMoves
<1>2. PICK x \in S : x = Head(o)
  BY <1>1
<1>3. PICK t \in Seq(S) : t = Tail(o)
  BY <1>1
<1>4. PICK a \in Seq(S) : a = Append(q, x)
  BY SeqMoves
<1>5. /\ Len(a) = Len(q) + 1 /\ a[Len(q) + 1] = x /\ Len(q) \in Nat
      /\ \A i \in 1..Len(q) : a[i] = q[i]
  BY <1>4, SeqMoves
<1>6. /\ a \o t \in Seq(S) /\ q \o o \in Seq(S)
      /\ Len(a \o t) = Len(a) + Len(t) /\ Len(q \o o) = Len(q) + Len(o)
      /\ \A i \in 1..(Len(a) + Len(t)) : (a \o t)[i] = IF i <= Len(a) THEN a[i] ELSE t[i - Len(a)]
      /\ \A i \in 1..(Len(q) + Len(o)) : (q \o o)[i] = IF i <= Len(q) THEN q[i] ELSE o[i - Len(q)]
  BY ConcatProperties
<1>7. Len(t) = Len(o) - 1 /\ \A i \in 1..(Len(o) - 1) : t[i] = o[i + 1]
  BY <1>1, <1>3
<1>8. Len(a \o t) = Len(q \o o)
  BY <1>1, <1>5, <1>6, <1>7
<1>9. ASSUME NEW i \in 1..(Len(q) + Len(o)) PROVE (a \o t)[i] = (q \o o)[i]
  <2>0. Len(a) + Len(t) = Len(q) + Len(o)
    BY <1>1, <1>5, <1>7
  <2>1. CASE i <= Len(q)
    <3>1. i \in 1..Len(q) /\ i <= Len(a)
      BY <1>5, <2>1
    <3> QED
      BY <1>5, <1>6, <2>0, <2>1, <3>1
  <2>2. CASE i = Len(q) + 1
    <3>1. (a \o t)[i] = x
      BY <1>5, <1>6, <2>0, <2>2
    <3>2. (q \o o)[i] = o[1]
      <4>1. ~(i <= Len(q)) /\ i - Len(q) = 1
        BY <1>5, <2>2
      <4> QED
        BY <1>6, <4>1
    <3> QED
      BY <1>1, <1>2, <3>1, <3>2
  <2>3. CASE i > Len(q) + 1
    <3>1. i - Len(a) \in 1..(Len(o) - 1) /\ (i - Len(a)) + 1 = i - Len(q)
          /\ ~(i <= Len(a)) /\ ~(i <= Len(q))
      BY <1>1, <1>5, <2>3
    <3>2. (a \o t)[i] = t[i - Len(a)] /\ (q \o o)[i] = o[i - Len(q)]
      BY <1>6, <2>0, <3>1
    <3> QED
      BY <1>7, <3>1, <3>2
  <2>4. Len(q) \in Nat /\ Len(o) \in Nat
    BY <1>1, <1>5
  <2>5. i <= Len(q) \/ i = Len(q) + 1 \/ i > Len(q) + 1
    BY <2>4
  <2> QED
    BY <2>1, <2>2, <2>3, <2>5
<1>10. a \o t = q \o o
  <2>1. \A i \in 1..Len(q \o o) : (a \o t)[i] = (q \o o)[i]
    BY <1>6, <1>9
  <2> QED
    BY <1>6, <1>8, <2>1, SeqEqual
<1> QED
  BY <1>2, <1>3, <1>4, <1>10

LEMMA ReadMoves ==
  ASSUME NEW S, NEW q \in Seq(S), NEW o \in Seq(S), q # << >>
  PROVE  q \o o # << >> /\ Tail(q \o o) = Tail(q) \o o
<1>1. /\ Tail(q) \in Seq(S) /\ Len(q) > 0 /\ Len(q) \in Nat /\ Len(Tail(q)) = Len(q) - 1
      /\ \A i \in 1..(Len(q) - 1) : Tail(q)[i] = q[i + 1]
  BY SeqMoves
<1>2. PICK t \in Seq(S) : t = Tail(q)
  BY <1>1
<1>3. PICK c \in Seq(S) : c = q \o o
  BY ConcatProperties
<1>4. /\ t \o o \in Seq(S) /\ Len(t \o o) = Len(t) + Len(o) /\ Len(c) = Len(q) + Len(o)
      /\ \A i \in 1..(Len(t) + Len(o)) : (t \o o)[i] = IF i <= Len(t) THEN t[i] ELSE o[i - Len(t)]
      /\ \A i \in 1..(Len(q) + Len(o)) : c[i] = IF i <= Len(q) THEN q[i] ELSE o[i - Len(q)]
  BY <1>3, ConcatProperties
<1>5. c # << >> /\ Len(o) \in Nat
  BY <1>1, <1>4
<1>6. /\ Tail(c) \in Seq(S) /\ Len(Tail(c)) = Len(c) - 1
      /\ \A i \in 1..(Len(c) - 1) : Tail(c)[i] = c[i + 1]
  BY <1>5, SeqMoves
<1>7. Len(t) = Len(q) - 1 /\ \A i \in 1..(Len(q) - 1) : t[i] = q[i + 1]
  BY <1>1, <1>2
<1>8. ASSUME NEW i \in 1..(Len(q) - 1 + Len(o)) PROVE Tail(c)[i] = (t \o o)[i]
  <2>0. i + 1 \in 1..(Len(q) + Len(o)) /\ i \in 1..(Len(t) + Len(o)) /\ i \in 1..(Len(c) - 1)
    BY <1>1, <1>4, <1>5, <1>7
  <2>1. CASE i <= Len(q) - 1
    BY <1>1, <1>4, <1>6, <1>7, <2>0, <2>1
  <2>2. CASE i > Len(q) - 1
    <3>1. ~(i + 1 <= Len(q)) /\ ~(i <= Len(t)) /\ (i + 1) - Len(q) = i - Len(t)
      BY <1>1, <1>7, <2>2
    <3> QED
      BY <1>4, <1>6, <2>0, <3>1
  <2>4. Len(q) \in Nat /\ Len(o) \in Nat
    BY <1>1, <1>5
  <2>5. i <= Len(q) - 1 \/ i > Len(q) - 1
    BY <2>4
  <2> QED
    BY <2>1, <2>2, <2>5
<1>9. Tail(c) = t \o o
  <2>1. Len(Tail(c)) = Len(q) - 1 + Len(o) /\ Len(t \o o) = Len(q) - 1 + Len(o)
    BY <1>1, <1>4, <1>5, <1>6, <1>7
  <2> QED
    BY <1>4, <1>6, <1>8, <2>1, SeqEqual
<1> QED
  BY <1>2, <1>3, <1>5, <1>9

\* An answer is owed: the abstract peer says it at once.
LEMMA Answered ==
  ASSUME Types, Serving, NEW fs \in Seq([kind : Answer, id : Id]), Len(fs) <= MaxOutput + 1,
         owed' = fs, UNCHANGED <<down, link>>
  PROVE  Peer!Says(fs)
<1>1. CASE link = "cut"
  BY <1>1 DEF Peer!Says
<1>2. CASE link # "cut"
  <2>1. down \o owed = down
    BY TypesGive DEF Serving
  <2>2. Len(down) \in Nat /\ Len(down) <= WireCap /\ Len(fs) \in Nat
    BY TypesGive
  <2>3. Len(down) + Len(fs) <= WireCap + MaxOutput + 1
    BY <2>2, WireAssumption, GuestAssumption
  <2> QED
    BY <1>2, <2>1, <2>3 DEF Peer!Says
<1> QED
  BY <1>1, <1>2

\* Steps that the abstract peer does not see.
LEMMA Hidden ==
  ASSUME up' = up, Coming' = Coming, link' = link, greeted' = greeted, active' = active,
         wrote' = wrote
  PROVE  UNCHANGED PeerVars
  BY DEF Coming, PeerVars, Peer!wire, Peer!peer

\* With nothing owed the connection may be left.
LEMMA Leaves ==
  ASSUME Types, owed = << >>, owed' = << >>, link # "open", link' \in {link, "cut"},
         UNCHANGED <<up, down, greeted, active, wrote>>
  PROVE  PeerStep \/ UNCHANGED PeerVars
<1>1. down \o << >> = down
  BY TypesGive
<1>2. Coming' = down /\ Coming = down
  BY <1>1 DEF Coming
<1>3. CASE link' = link
  BY <1>2, <1>3, Hidden
<1>4. CASE link' = "cut"
  <2>1. Peer!PeerLeaves
    BY <1>2, <1>4 DEF Coming, Peer!PeerLeaves, Peer!peer
  <2> QED
    BY <2>1 DEF PeerStep, Peer!PeerNext
<1> QED
  BY <1>3, <1>4

\* A request other than Execute is answered with one frame.
LEMMA Replies ==
  ASSUME Types, NEW i \in Id, NEW k \in CtlKind, Takes(k, i), NEW a \in {AckOf(k), "Error"},
         owed' = <<Frame(a, i)>>,
         a = "Error" => i \in Ctl \/ active \notin {None, i} \/ ~greeted,
         greeted' = (greeted \/ k = "Hello"), UNCHANGED <<down, link, active, wrote>>
  PROVE  PeerStep
<1>1. Serving /\ Peer!Takes(k, i)
  BY DEF Takes, Peer!Takes, Frame, Peer!Frame
<1>2. a \in Answer
  BY DEF CtlKind, AckOf, Answer, Acks, Ends
<1>3. <<Frame(a, i)>> \in Seq([kind : Answer, id : Id]) /\ Len(<<Frame(a, i)>>) <= MaxOutput + 1
  BY <1>2, OneFrame, GuestAssumption
<1>4. Peer!Says(<<Frame(a, i)>>)
  BY <1>1, <1>3, Answered
<1>5. Peer!AckOf(k) = AckOf(k) /\ Peer!Frame(a, i) = Frame(a, i) /\ Peer!CtlKind = CtlKind
      /\ Peer!Id = Id
  BY DEF Peer!AckOf, AckOf, Peer!Frame, Frame, Peer!CtlKind, CtlKind, Peer!Id, Id
<1>6. Peer!PeerReplies(i)
  BY <1>1, <1>4, <1>5 DEF Peer!PeerReplies
<1> QED
  BY <1>5, <1>6 DEF PeerStep, Peer!PeerNext

LEMMA RefinesInit == Init => Peer!WireInit /\ Peer!PeerInit /\ greeted = FALSE
  BY DEF Init, WireInit, GuestInit, Peer!WireInit, Peer!PeerInit

\* A step of the host, or a break, is the same for the abstract peer.
LEMMA DriveRefines ==
  ASSUME IInv, Drive, UNCHANGED guest
  PROVE  PeerStep
<1>0. /\ down \in Seq([kind : Answer, id : Id]) /\ owed \in Seq([kind : Answer, id : Id])
      /\ Len(up) \in Nat
  BY TypesGive DEF IInv
<1>1. owed' = owed /\ UNCHANGED Peer!peer
  BY DEF guest, Peer!peer
<1>2. ASSUME NEW f, DriveWrites(f) PROVE Peer!DriveWrites(f)
  <2>1. Len(up) < WireCap + MaxOutput + 1
    BY <1>0, <1>2, WireAssumption, GuestAssumption DEF DriveWrites
  <2> QED
    BY <1>1, <1>2, <2>1 DEF DriveWrites, Peer!DriveWrites
<1>3. DriveReads => Peer!DriveReads
  <2> SUFFICES ASSUME DriveReads PROVE Peer!DriveReads
    OBVIOUS
  <2>1. CASE link = "cut"
    BY <2>1 DEF DriveReads, Peer!DriveReads
  <2>2. CASE link # "cut"
    <3>1. down \o owed # << >> /\ Tail(down \o owed) = Tail(down) \o owed
      BY <1>0, ReadMoves DEF DriveReads
    <3> QED
      BY <1>1, <2>2, <3>1 DEF DriveReads, Peer!DriveReads
  <2> QED
    BY <2>1, <2>2
<1>4. DriveCloses => Peer!DriveCloses
  BY <1>1 DEF DriveCloses, Peer!DriveCloses
<1>5. Break => Peer!Break
  BY <1>1 DEF Break, Peer!Break
<1>6. Drive => Peer!Drive
  BY <1>2, <1>3, <1>4, <1>5 DEF Drive, Peer!Drive, Frame, Peer!Frame, CtlKind, Peer!CtlKind
<1> QED
  BY <1>1, <1>6 DEF PeerStep

\* Every step of the connection is one of the abstract peer, or none that it sees.
LEMMA RefinesStep ==
  ASSUME IInv, [Next]_vars
  PROVE  PeerStep \/ UNCHANGED PeerVars
<1>0. Types /\ Shape
  BY DEF IInv, Shape
<1> USE <1>0
<1>a. \A k \in {"Exit", "Error", "Output"}, t \in Turn :
        <<Frame(k, t)>> \in Seq([kind : Answer, id : Id]) /\ Len(<<Frame(k, t)>>) <= MaxOutput + 1
  BY OneFrame, GuestAssumption DEF Answer, Ends, Id
<1>b. \A k, i : Peer!Frame(k, i) = Frame(k, i)
  BY DEF Frame, Peer!Frame
<1>1. CASE WriteOwed
  <2>1. CASE link # "cut"
    <3>1. Append(down, Head(owed)) \o Tail(owed) = down \o owed
      BY <1>1, WriteMoves, TypesGive DEF WriteOwed
    <3>2. Coming' = Coming
      BY <1>1, <2>1, <3>1 DEF WriteOwed, Coming
    <3> QED
      BY <1>1, <2>1, <3>2, Hidden DEF WriteOwed
  <2>2. CASE link = "cut"
    BY <1>1, <2>2, Hidden DEF WriteOwed, Leave, Coming
  <2> QED
    BY <2>1, <2>2
<1>2. CASE ReadFails
  BY <1>2, Leaves DEF ReadFails, Serving, Leave
<1>3. ASSUME NEW t \in Turn, RefuseExecute(t) PROVE PeerStep
  <2>1. Peer!Takes("Execute", t) /\ Peer!Says(<<Frame("Error", t)>>)
    BY <1>3, <1>a, <1>b, Answered DEF RefuseExecute, Takes, Peer!Takes
  <2>2. Peer!PeerRefuses(t)
    BY <1>3, <1>b, <2>1 DEF RefuseExecute, Peer!PeerRefuses
  <2> QED
    BY <2>2 DEF PeerStep, Peer!PeerNext
<1>4. ASSUME NEW t \in Turn, SpawnWorker(t) PROVE PeerStep
  <2>1. Peer!Takes("Execute", t) /\ active = None
    BY <1>4, <1>b DEF SpawnWorker, Accepts, Takes, Peer!Takes
  <2>2. Peer!PeerStarts(t)
    BY <1>4, <2>1 DEF SpawnWorker, Peer!PeerStarts
  <2> QED
    BY <2>2 DEF PeerStep, Peer!PeerNext
<1>5. ASSUME NEW t \in Turn, NEW n \in 0..MaxOutput, NEW r \in {"completed", "failed", "panic"},
             RunBuiltin(t, n, r)
      PROVE  PeerStep
  <2> DEFINE c == CompleteTurn(SpawnTurn(svc, KeyOf(t)).svc, KeyOf(t), r)
  <2>1. Peer!Takes("Execute", t) /\ active = None /\ Serving /\ UNCHANGED <<link, down, greeted, active>>
    BY <1>5, <1>b DEF RunBuiltin, Accepts, Takes, Peer!Takes
  <2>2. PICK m \in 0..MaxOutput, k \in Ends :
          /\ owed' = Append([j \in 1..m |-> Frame("Output", t)], Frame(k, t))
          /\ wrote' = [wrote EXCEPT ![t] = m]
    <3>1. CASE r = "panic"
      <4>1. owed' = <<Frame("Error", t)>> /\ wrote' = [wrote EXCEPT ![t] = 0]
        BY <1>5, <3>1 DEF RunBuiltin
      <4>2. <<Frame("Error", t)>> = Append([j \in 1..0 |-> Frame("Output", t)], Frame("Error", t))
        OBVIOUS
      <4>3. 0 \in 0..MaxOutput /\ "Error" \in Ends
        BY GuestAssumption DEF Ends
      <4> QED
        BY <4>1, <4>2, <4>3
    <3>2. CASE r # "panic"
      <4>1. /\ wrote' = [wrote EXCEPT ![t] = n]
            /\ owed' = Append([i \in 1..n |-> Frame("Output", t)], EndFrame(t, c.ans))
        BY <1>5, <3>2 DEF RunBuiltin
      <4>2. \E k \in Ends : EndFrame(t, c.ans) = Frame(k, t)
        BY EndTyped DEF Ends
      <4> QED
        BY <4>1, <4>2
    <3> QED
      BY <3>1, <3>2
  <2>3. owed' \in Seq([kind : Answer, id : Id]) /\ Len(owed') <= MaxOutput + 1
    <3>1. owed' \in Seq([kind : Answer, id : Id]) /\ Len(owed') = m + 1
      BY <2>2, BurstTyped
    <3> QED
      BY <3>1, GuestAssumption
  <2>4. Peer!Says(Append([j \in 1..m |-> Frame("Output", t)], Frame(k, t)))
    BY <2>1, <2>2, <2>3, Answered
  <2>5. Peer!PeerRuns(t)
    <3>1. k \in Peer!Ends
      BY DEF Ends, Peer!Ends
    <3> QED
      BY <1>b, <2>1, <2>2, <2>4, <3>1 DEF Peer!PeerRuns
  <2> QED
    BY <2>5 DEF PeerStep, Peer!PeerNext
<1>6. ASSUME NEW i \in Id, TakeCancel(i) PROVE PeerStep
  <2>1. /\ Takes("Cancel", i) /\ "Cancel" \in CtlKind /\ AckOf("Cancel") = "CancelAck"
        /\ greeted' = (greeted \/ "Cancel" = "Hello")
        /\ UNCHANGED <<down, link, active, wrote>>
    BY <1>6, TypesGive DEF TakeCancel, CtlKind, AckOf
  <2>2. CASE greeted /\ Hits(i)
    <3>1. owed' = <<Frame("CancelAck", i)>>
      BY <1>6, <2>2, Told DEF TakeCancel, Hits
    <3> QED
      BY <2>1, <3>1, Replies
  <2>3. CASE ~(greeted /\ Hits(i))
    <3>1. CASE ~greeted \/ Mismatch(i)
      <4>1. owed' = <<Frame("Error", i)>>
        BY <1>6, <2>3, <3>1 DEF TakeCancel
      <4>2. active \notin {None, i} \/ ~greeted
        BY <3>1 DEF Mismatch
      <4> QED
        BY <2>1, <4>1, <4>2, Replies
    <3>2. CASE ~(~greeted \/ Mismatch(i))
      <4>1. owed' = <<Frame("CancelAck", i)>>
        BY <1>6, <2>3, <3>2 DEF TakeCancel
      <4> QED
        BY <2>1, <4>1, Replies
    <3> QED
      BY <3>1, <3>2
  <2> QED
    BY <2>2, <2>3
<1>7. ASSUME NEW i \in Ctl, TakeHello(i) PROVE PeerStep
  <2>1. /\ Takes("Hello", i) /\ "Hello" \in CtlKind /\ AckOf("Hello") = "HelloAck" /\ i \in Id
        /\ greeted' = (greeted \/ "Hello" = "Hello") /\ owed' = <<Frame("HelloAck", i)>>
        /\ UNCHANGED <<down, link, active, wrote>>
    BY <1>7 DEF TakeHello, CtlKind, AckOf, Id
  <2> QED
    BY <2>1, Replies
<1>8. ASSUME NEW i \in Ctl, TakeHealth(i) PROVE PeerStep
  <2>1. /\ Takes("Health", i) /\ "Health" \in CtlKind /\ AckOf("Health") = "HealthAck" /\ i \in Id
        /\ greeted' = (greeted \/ "Health" = "Hello")
        /\ UNCHANGED <<down, link, active, wrote>>
    BY <1>8, TypesGive DEF TakeHealth, CtlKind, AckOf, Id
  <2>2. PICK a \in {"HealthAck", "Error"} : owed' = <<Frame(a, i)>>
    BY <1>8 DEF TakeHealth
  <2> QED
    BY <2>1, <2>2, Replies
<1>9. ASSUME NEW i \in Ctl, TakeFs(i) PROVE PeerStep
  <2>1. /\ Takes("Fs", i) /\ "Fs" \in CtlKind /\ AckOf("Fs") = "FsResult" /\ i \in Id
        /\ greeted' = (greeted \/ "Fs" = "Hello")
        /\ UNCHANGED <<down, link, active, wrote>>
    BY <1>9, TypesGive DEF TakeFs, CtlKind, AckOf, Id
  <2>2. PICK a \in {"FsResult", "Error"} : owed' = <<Frame(a, i)>>
    BY <1>9 DEF TakeFs
  <2> QED
    BY <2>1, <2>2, Replies
<1>10. CASE ForwardOutput
  <2>1. /\ Serving /\ active \in Turn /\ active # None /\ outbox # << >>
        /\ Head(outbox).kind = "output" /\ owed' = <<Frame("Output", active)>>
        /\ wrote' = [wrote EXCEPT ![active] = @ + 1]
        /\ UNCHANGED <<up, down, link, greeted, active>>
    BY <1>10, TypesGive DEF ForwardOutput, wire
  <2>2. wrote[active] < MaxOutput
    <3>1. Head(outbox) = outbox[1] /\ Len(outbox) > 0 /\ Len(outbox) \in Nat
      BY <2>1, TypesGive, SeqMoves
    <3>2. wrote[active] + 1 <= MaxOutput
      BY <2>1, <3>1 DEF Shape, ResultIsLast
    <3>3. wrote[active] \in Nat
      BY <2>1, TypesGive, GuestAssumption
    <3> QED
      BY <3>2, <3>3, GuestAssumption
  <2>3. Peer!Says(<<Frame("Output", active)>>)
    BY <1>a, <2>1, Answered
  <2>4. Peer!PeerWrites
    BY <1>b, <2>1, <2>2, <2>3 DEF Peer!PeerWrites
  <2> QED
    BY <2>4 DEF PeerStep, Peer!PeerNext
<1>11. CASE TakeResult \/ TakePanic
  <2>1. /\ Serving /\ active \in Turn /\ active # None /\ active' = None
        /\ UNCHANGED <<up, down, link, greeted, wrote>>
    BY <1>11, TypesGive DEF TakeResult, TakePanic, wire
  <2>2. PICK k \in Ends : owed' = <<Frame(k, active)>>
    <3>1. CASE TakePanic
      BY <3>1 DEF TakePanic, Ends
    <3>2. CASE TakeResult
      <4>1. PICK a : owed' = <<EndFrame(active, a)>>
        BY <3>2 DEF TakeResult
      <4> QED
        BY <2>1, <4>1, EndTyped DEF Ends
    <3> QED
      BY <1>11, <3>1, <3>2
  <2>3. Peer!Says(<<Frame(k, active)>>)
    BY <1>a, <2>1, <2>2, Answered DEF Ends
  <2>4. Peer!PeerEnds
    <3>1. k \in Peer!Ends
      BY DEF Ends, Peer!Ends
    <3> QED
      BY <1>b, <2>1, <2>3, <3>1 DEF Peer!PeerEnds
  <2> QED
    BY <2>4 DEF PeerStep, Peer!PeerNext
<1>12. CASE Teardown \/ WorkerWrites \/ WorkerPanics
  BY <1>12, Hidden DEF Teardown, WorkerWrites, WorkerPanics, wire, Coming
<1>13. ASSUME NEW r \in {"completed", "cancelled", "failed"}, WorkerEnds(r)
       PROVE  UNCHANGED PeerVars
  BY <1>13, Hidden DEF WorkerEnds, wire, Coming
<1>14. CASE Reap \/ ReapTimeout
  <2>1. owed = << >> /\ link # "open"
    BY <1>14 DEF Shape, LeavesInOrder, Reap, ReapTimeout
  <2> QED
    BY <1>14, <2>1, Leaves DEF Reap, ReapTimeout
<1>15. CASE Client
  BY <1>15, DriveRefines DEF Client
<1>16. CASE UNCHANGED vars
  BY <1>16, Hidden DEF vars, wire, guest, Coming
<1> QED
  BY <1>1, <1>2, <1>3, <1>4, <1>5, <1>6, <1>7, <1>8, <1>9, <1>10, <1>11, <1>12, <1>13, <1>14,
     <1>15, <1>16
     DEF Next, GuestNext, Serve, Work, Gone, Id

\* Against any host the connection does only what ZbrtPeer allows.
THEOREM GuestServesAsPeer == Spec => ServesAsPeer
<1>1. Init => Peer!WireInit /\ Peer!PeerInit /\ greeted = FALSE
  BY RefinesInit
<1>2. IInv /\ [Next]_vars => [Peer!PeerNext \/ (Peer!Drive /\ UNCHANGED Peer!peer)]_<<Peer!wire, Peer!peer>>
  BY RefinesStep DEF PeerStep, PeerVars
<1> QED
  BY <1>1, <1>2, Inductive, PTL DEF Spec, ServesAsPeer, Peer!PeerSpec

=============================================================================
