---------------------------- MODULE ClusterProofs ----------------------------
(******************************************************************************)
(* Proofs about Cluster, for every number of nodes and callers, either        *)
(* scheduling strategy, and every interval and threshold.                     *)
(*                                                                            *)
(* Spacing of trials rests on the gate: since the last trial it has been at   *)
(* least that trial's now_ms + Interval, and a caller about to claim has seen *)
(* a gate that is zero or not after its own now_ms.  A compare-exchange that  *)
(* succeeds saw the gate as it is.                                            *)
(*                                                                            *)
(* The accounting needs that a sandbox is handed out once: the identifiers of *)
(* the handles and of the creates under way are all different.                *)
(*                                                                            *)
(* They come after the proofs about the other client on the host, ZbrtClient, *)
(* for every number of calls, connections, pooled connections and Outputs.  A *)
(* stream's pieces are split at one point: those its caller has or will be    *)
(* given, and those still on their way.  A call's connection is its own until *)
(* it is dropped or back in the pool, clean; what is on it is the call's      *)
(* request or the answer to it.                                               *)
(******************************************************************************)
EXTENDS Cluster, ZbrtClient, FiniteSetTheorems, SequenceTheorems, TLAPS

-----------------------------------------------------------------------------
(* The SDK client's stream *)

Event == [kind : {"Output", "Exit", "Error", "CancelAck", "Started"}, n : Nat]
Ends == {"Exit", "Error"}
StreamTypes ==
  s \in [pc : {"poll", "stop", "over"}, guest : {"running", "Exit", "Error"}, wrote : Nat,
         down : Seq(Event), cut : BOOLEAN, started : BOOLEAN, terminal : BOOLEAN,
         cancelSent : BOOLEAN, pending : Seq(Event), given : Seq(Event)]

\* What next_event has given, or will before it reads on.
Then(g, p) == g \o p
Events == Then(s.given, s.pending)

\* The pieces up to t are in e, in order.
Taken(e, t) ==
  /\ \A i \in DOMAIN e : e[i].kind = "Output" => e[i].n \in 1..t
  /\ \A n \in 1..t : \E i \in DOMAIN e : e[i] = Piece(n)
  /\ \A i, j \in DOMAIN e :
       e[i].kind = "Output" /\ e[j].kind = "Output" /\ i < j => e[i].n < e[j].n

\* The pieces after t up to w are in f, in order.
OnTheWay(f, t, w) ==
  /\ \A i \in DOMAIN f : f[i].kind = "Output" => f[i].n \in (t + 1)..w
  /\ \A n \in (t + 1)..w : \E i \in DOMAIN f : f[i] = Piece(n)
  /\ \A i, j \in DOMAIN f :
       f[i].kind = "Output" /\ f[j].kind = "Output" /\ i < j => f[i].n < f[j].n

HasExit(e) == \E i \in DOMAIN e : e[i].kind = "Exit"

\* After t pieces the caller goes on with the next one, and has its Exit after the last.
Pieces ==
  \E t \in 0..s.wrote : /\ Taken(Events, t)
                        /\ s.pc # "over" => OnTheWay(s.down, t, s.wrote)
                        /\ HasExit(Events) => t = s.wrote

\* The end of the turn is written once, after the last piece.
EndIsLast ==
  \A i \in DOMAIN s.down : s.down[i].kind \in Ends =>
    /\ s.guest # "running" /\ ~s.terminal
    /\ \A j \in DOMAIN s.down : j > i => s.down[j].kind = "CancelAck"

\* The Exit the caller is given, or will be, is the last event, and nothing follows it.
ExitEnds ==
  \A i \in DOMAIN Events : Events[i].kind = "Exit" =>
    /\ i = Len(Events) /\ s.terminal /\ s.guest # "running"
    /\ \A j \in DOMAIN s.down : s.down[j].kind = "CancelAck"

\* Nothing ends a stream for its caller but the guest or the loss of the connection.
EndsForCause == s.terminal => s.guest # "running" \/ s.cut

StreamInv ==
  StreamTypes /\ Pieces /\ EndIsLast /\ ExitEnds /\ EndsForCause

-----------------------------------------------------------------------------
(* The pieces on their way *)

LEMMA PieceIs == ASSUME NEW f \in Event, f.kind = "Output" PROVE f = Piece(f.n)
BY DEF Event, Piece

LEMMA SeqAppend ==
  ASSUME NEW S, NEW e \in Seq(S), NEW f \in S
  PROVE  /\ Append(e, f) \in Seq(S) /\ Len(Append(e, f)) = Len(e) + 1 /\ Len(e) \in Nat
         /\ DOMAIN e = 1..Len(e) /\ DOMAIN Append(e, f) = 1..(Len(e) + 1)
         /\ Append(e, f)[Len(e) + 1] = f /\ \A i \in 1..Len(e) : Append(e, f)[i] = e[i]
OBVIOUS

LEMMA SeqTail ==
  ASSUME NEW S, NEW e \in Seq(S), e # <<>>
  PROVE  /\ Tail(e) \in Seq(S) /\ Head(e) \in S /\ Head(e) = e[1] /\ Len(e) \in Nat \ {0}
         /\ DOMAIN e = 1..Len(e) /\ DOMAIN Tail(e) = 1..(Len(e) - 1)
         /\ Len(Tail(e)) = Len(e) - 1
         /\ \A i \in 1..(Len(e) - 1) : Tail(e)[i] = e[i + 1]
OBVIOUS

LEMMA TakesPiece ==
  ASSUME NEW t \in Nat, NEW e \in Seq(Event), Taken(e, t)
  PROVE  Taken(Append(e, Piece(t + 1)), t + 1)
<1> DEFINE f == Piece(t + 1)
           a == Append(e, f)
<1>1. f \in Event /\ f.kind = "Output" /\ f.n = t + 1
  BY DEF Event, Piece
<1>2. /\ DOMAIN e = 1..Len(e) /\ DOMAIN a = 1..(Len(e) + 1) /\ Len(e) \in Nat
      /\ a[Len(e) + 1] = f /\ \A i \in 1..Len(e) : a[i] = e[i]
  BY <1>1, SeqAppend
<1> HIDE DEF a, f
<1>3. \A i \in DOMAIN a : a[i].kind = "Output" => a[i].n \in 1..(t + 1)
  BY <1>1, <1>2 DEF Taken
<1>4. \A n \in 1..(t + 1) : \E i \in DOMAIN a : a[i] = Piece(n)
  <2>1. TAKE n \in 1..(t + 1)
  <2>2. CASE n = t + 1
    BY <1>2, <2>2 DEF f
  <2>3. CASE n # t + 1
    <3>1. n \in 1..t
      BY <2>3
    <3>2. PICK i \in DOMAIN e : e[i] = Piece(n)
      BY <3>1 DEF Taken
    <3> QED
      BY <1>2, <3>2
  <2> QED
    BY <2>2, <2>3
<1>5. \A i, j \in DOMAIN a :
        a[i].kind = "Output" /\ a[j].kind = "Output" /\ i < j => a[i].n < a[j].n
  <2>1. TAKE i, j \in DOMAIN a
  <2>2. HAVE a[i].kind = "Output" /\ a[j].kind = "Output" /\ i < j
  <2>3. i \in 1..Len(e) /\ a[i] = e[i]
    BY <1>2, <2>2
  <2>4. CASE j = Len(e) + 1
    <3>1. e[i].n \in 1..t
      BY <1>2, <2>2, <2>3 DEF Taken
    <3> QED
      BY <1>1, <1>2, <2>3, <2>4, <3>1
  <2>5. CASE j # Len(e) + 1
    <3>1. j \in 1..Len(e) /\ a[j] = e[j]
      BY <1>2, <2>5
    <3>2. \A x, y \in DOMAIN e :
            e[x].kind = "Output" /\ e[y].kind = "Output" /\ x < y => e[x].n < e[y].n
      BY DEF Taken
    <3> QED
      BY <1>2, <2>2, <2>3, <3>1, <3>2
  <2> QED
    BY <2>4, <2>5
<1> QED
  BY <1>3, <1>4, <1>5 DEF Taken, a, f

LEMMA TakesOther ==
  ASSUME NEW t \in Nat, NEW e \in Seq(Event), NEW f \in Event, f.kind # "Output", Taken(e, t)
  PROVE  Taken(Append(e, f), t)
<1> DEFINE a == Append(e, f)
<1>1. /\ DOMAIN e = 1..Len(e) /\ DOMAIN a = 1..(Len(e) + 1) /\ Len(e) \in Nat
      /\ a[Len(e) + 1] = f /\ \A i \in 1..Len(e) : a[i] = e[i]
  BY SeqAppend
<1> HIDE DEF a
<1>2. \A i \in DOMAIN a : a[i].kind = "Output" => i \in DOMAIN e /\ a[i] = e[i]
  BY <1>1
<1>3. \A n \in 1..t : \E i \in DOMAIN a : a[i] = Piece(n)
  BY <1>1 DEF Taken
<1> QED
  BY <1>2, <1>3 DEF Taken, a

LEMMA HeadOnTheWay ==
  ASSUME NEW t \in Nat, NEW w \in Nat, NEW f \in Seq(Event), f # <<>>, OnTheWay(f, t, w)
  PROVE  /\ Head(f).kind = "Output" =>
              Head(f) = Piece(t + 1) /\ t + 1 \in 0..w /\ OnTheWay(Tail(f), t + 1, w)
         /\ Head(f).kind # "Output" => OnTheWay(Tail(f), t, w)
<1> DEFINE r == Tail(f)
<1>1. /\ Head(f) \in Event /\ Head(f) = f[1] /\ DOMAIN f = 1..Len(f) /\ Len(f) \in Nat \ {0}
      /\ DOMAIN r = 1..(Len(f) - 1) /\ \A i \in 1..(Len(f) - 1) : r[i] = f[i + 1]
  BY SeqTail
<1> HIDE DEF r
<1>2. \A i, j \in DOMAIN r :
        r[i].kind = "Output" /\ r[j].kind = "Output" /\ i < j => r[i].n < r[j].n
  <2>1. TAKE i, j \in DOMAIN r
  <2>2. i + 1 \in DOMAIN f /\ j + 1 \in DOMAIN f /\ r[i] = f[i + 1] /\ r[j] = f[j + 1]
    BY <1>1
  <2>3. \A x, y \in DOMAIN f :
          f[x].kind = "Output" /\ f[y].kind = "Output" /\ x < y => f[x].n < f[y].n
    BY DEF OnTheWay
  <2>4. i < j => i + 1 < j + 1
    BY <1>1
  <2> QED
    BY <2>2, <2>3, <2>4
<1>3. \A n \in (t + 1)..w : Piece(n) # f[1] => \E i \in DOMAIN r : r[i] = Piece(n)
  <2>1. TAKE n \in (t + 1)..w
  <2>2. HAVE Piece(n) # f[1]
  <2>3. PICK i \in DOMAIN f : f[i] = Piece(n)
    BY DEF OnTheWay
  <2>4. i - 1 \in DOMAIN r /\ r[i - 1] = f[i]
    BY <1>1, <2>2, <2>3
  <2> QED
    BY <2>3, <2>4
<1>4. \A i \in DOMAIN r : r[i].kind = "Output" => r[i].n \in (t + 1)..w
  <2>1. \A i \in DOMAIN r : i + 1 \in DOMAIN f /\ r[i] = f[i + 1]
    BY <1>1
  <2>2. \A i \in DOMAIN f : f[i].kind = "Output" => f[i].n \in (t + 1)..w
    BY DEF OnTheWay
  <2> QED
    BY <2>1, <2>2
<1>5. CASE Head(f).kind # "Output"
  <2>1. \A n \in (t + 1)..w : Piece(n) # f[1]
    BY <1>1, <1>5 DEF Piece
  <2>2. \A n \in (t + 1)..w : \E i \in DOMAIN r : r[i] = Piece(n)
    BY <1>3, <2>1
  <2> QED
    BY <1>2, <1>4, <1>5, <2>2 DEF OnTheWay, r
<1>6. CASE Head(f).kind = "Output"
  <2>1. f[1] = Piece(f[1].n) /\ f[1].n \in (t + 1)..w
    BY <1>1, <1>6, PieceIs DEF OnTheWay
  <2>2. f[1].n = t + 1
    <3>1. PICK i \in DOMAIN f : f[i] = Piece(t + 1)
      BY <2>1 DEF OnTheWay
    <3>2. f[i].kind = "Output" /\ f[i].n = t + 1
      BY <3>1 DEF Piece
    <3>3. 1 < i => f[1].n < f[i].n
      BY <1>1, <1>6, <3>2 DEF OnTheWay
    <3> QED
      BY <1>1, <2>1, <3>2, <3>3
  <2>3. \A i \in DOMAIN r : r[i].kind = "Output" => r[i].n \in (t + 2)..w
    <3>1. TAKE i \in DOMAIN r
    <3>2. HAVE r[i].kind = "Output"
    <3>3. i + 1 \in DOMAIN f /\ 1 \in DOMAIN f /\ 1 < i + 1 /\ r[i] = f[i + 1]
      BY <1>1
    <3>4. f[1].n < f[i + 1].n
      BY <1>1, <1>6, <3>2, <3>3 DEF OnTheWay
    <3> QED
      BY <1>4, <2>2, <3>2, <3>3, <3>4
  <2>4. \A n \in (t + 2)..w : \E i \in DOMAIN r : r[i] = Piece(n)
    <3>1. TAKE n \in (t + 2)..w
    <3>2. Piece(n) # f[1]
      BY <2>2 DEF Piece
    <3> QED
      BY <1>3, <3>2
  <2>5. OnTheWay(r, t + 1, w)
    <3>1. (t + 1) + 1 = t + 2
      OBVIOUS
    <3> QED
      BY <1>2, <2>3, <2>4, <3>1 DEF OnTheWay
  <2> QED
    BY <1>1, <1>6, <2>1, <2>2, <2>5 DEF r
<1> QED
  BY <1>5, <1>6

LEMMA SendsPiece ==
  ASSUME NEW t \in Nat, NEW w \in Nat, t <= w, NEW f \in Seq(Event), OnTheWay(f, t, w)
  PROVE  OnTheWay(Append(f, Piece(w + 1)), t, w + 1)
<1> DEFINE p == Piece(w + 1)
           a == Append(f, p)
<1>1. p \in Event /\ p.kind = "Output" /\ p.n = w + 1
  BY DEF Event, Piece
<1>2. /\ DOMAIN f = 1..Len(f) /\ DOMAIN a = 1..(Len(f) + 1) /\ Len(f) \in Nat
      /\ a[Len(f) + 1] = p /\ \A i \in 1..Len(f) : a[i] = f[i]
  BY <1>1, SeqAppend
<1> HIDE DEF a, p
<1>3. \A i \in DOMAIN a : a[i].kind = "Output" => a[i].n \in (t + 1)..(w + 1)
  BY <1>1, <1>2 DEF OnTheWay
<1>4. \A n \in (t + 1)..(w + 1) : \E i \in DOMAIN a : a[i] = Piece(n)
  <2>1. TAKE n \in (t + 1)..(w + 1)
  <2>2. CASE n = w + 1
    BY <1>2, <2>2 DEF p
  <2>3. CASE n # w + 1
    <3>1. n \in (t + 1)..w
      BY <2>3
    <3>2. PICK i \in DOMAIN f : f[i] = Piece(n)
      BY <3>1 DEF OnTheWay
    <3> QED
      BY <1>2, <3>2
  <2> QED
    BY <2>2, <2>3
<1>5. \A i, j \in DOMAIN a :
        a[i].kind = "Output" /\ a[j].kind = "Output" /\ i < j => a[i].n < a[j].n
  <2>1. TAKE i, j \in DOMAIN a
  <2>2. HAVE a[i].kind = "Output" /\ a[j].kind = "Output" /\ i < j
  <2>3. i \in 1..Len(f) /\ a[i] = f[i]
    BY <1>2, <2>2
  <2>4. CASE j = Len(f) + 1
    <3>1. f[i].n \in (t + 1)..w
      BY <1>2, <2>2, <2>3 DEF OnTheWay
    <3> QED
      BY <1>1, <1>2, <2>3, <2>4, <3>1
  <2>5. CASE j # Len(f) + 1
    <3>1. j \in 1..Len(f) /\ a[j] = f[j]
      BY <1>2, <2>5
    <3>2. \A x, y \in DOMAIN f :
            f[x].kind = "Output" /\ f[y].kind = "Output" /\ x < y => f[x].n < f[y].n
      BY DEF OnTheWay
    <3> QED
      BY <1>2, <2>2, <2>3, <3>1, <3>2
  <2> QED
    BY <2>4, <2>5
<1> QED
  BY <1>3, <1>4, <1>5 DEF OnTheWay, a, p

LEMMA SendsOther ==
  ASSUME NEW t \in Nat, NEW w \in Nat, NEW f \in Seq(Event), NEW p \in Event,
         p.kind # "Output", OnTheWay(f, t, w)
  PROVE  OnTheWay(Append(f, p), t, w)
<1> DEFINE a == Append(f, p)
<1>1. /\ DOMAIN f = 1..Len(f) /\ DOMAIN a = 1..(Len(f) + 1) /\ Len(f) \in Nat
      /\ a[Len(f) + 1] = p /\ \A i \in 1..Len(f) : a[i] = f[i]
  BY SeqAppend
<1> HIDE DEF a
<1>2. \A i \in DOMAIN a : a[i].kind = "Output" => i \in DOMAIN f /\ a[i] = f[i]
  BY <1>1
<1>3. \A n \in (t + 1)..w : \E i \in DOMAIN a : a[i] = Piece(n)
  BY <1>1 DEF OnTheWay
<1> QED
  BY <1>2, <1>3 DEF OnTheWay, a

LEMMA GivenAndPending ==
  ASSUME NEW g \in Seq(Event), NEW p \in Seq(Event)
  PROVE  /\ Then(g, p) \in Seq(Event) /\ Len(Then(g, p)) = Len(g) + Len(p)
         /\ DOMAIN g = 1..Len(g) /\ DOMAIN Then(g, p) = 1..Len(Then(g, p))
         /\ Len(g) \in Nat /\ Len(p) \in Nat
         /\ \A i \in 1..Len(g) : Then(g, p)[i] = g[i]
<1>1. g \o p \in Seq(Event) /\ Len(g \o p) = Len(g) + Len(p)
      /\ \A i \in 1..Len(g) : (g \o p)[i] = g[i]
  OBVIOUS
<1> DEFINE e == Then(g, p)
<1>2. e \in Seq(Event) /\ Len(e) = Len(g) + Len(p) /\ \A i \in 1..Len(g) : e[i] = g[i]
  BY <1>1 DEF Then
<1> HIDE DEF e
<1>3. DOMAIN e = 1..Len(e) /\ DOMAIN g = 1..Len(g) /\ Len(g) \in Nat /\ Len(p) \in Nat
  BY <1>2
<1> QED
  BY <1>2, <1>3 DEF e

LEMMA NextIsGiven ==
  ASSUME NEW g \in Seq(Event), NEW p \in Seq(Event), p # <<>>
  PROVE  Then(Append(g, Head(p)), Tail(p)) = Then(g, p)
BY DEF Then

LEMMA GivenThenPending ==
  ASSUME NEW g \in Seq(Event), NEW p \in Seq(Event), NEW f \in Event
  PROVE  /\ Then(g, Append(p, f)) = Append(Then(g, p), f)
         /\ p = <<>> => Then(Append(g, f), p) = Append(Then(g, p), f)
<1>1. Then(g, Append(p, f)) = Append(Then(g, p), f)
  BY DEF Then
<1>2. p = <<>> => Then(Append(g, f), p) = Append(Then(g, p), f)
  BY DEF Then
<1> QED
  BY <1>1, <1>2

LEMMA EventsTyped ==
  ASSUME StreamTypes
  PROVE  /\ Events \in Seq(Event) /\ s.down \in Seq(Event) /\ s.wrote \in Nat
         /\ s.given \in Seq(Event) /\ s.pending \in Seq(Event)
         /\ Len(Events) \in Nat /\ DOMAIN Events = 1..Len(Events)
         /\ DOMAIN s.down = 1..Len(s.down)
<1>1. s.given \in Seq(Event) /\ s.pending \in Seq(Event) /\ s.down \in Seq(Event) /\ s.wrote \in Nat
  BY DEF StreamTypes
<1>2. Events \in Seq(Event)
  BY <1>1, GivenAndPending DEF Events
<1> QED
  BY <1>1, <1>2

\* The stream does not read, and nothing new is given.
LEMMA StreamRests ==
  ASSUME StreamInv, StreamTypes', Events' = Events,
         s'.down = s.down, s'.wrote = s.wrote, s'.guest = s.guest,
         s'.pc # "over" => s.pc # "over", s.cut => s'.cut, s.terminal => s'.terminal,
         s'.terminal => s.terminal \/ (s.down = <<>> /\ s'.cut)
  PROVE  StreamInv'
<1>1. Pieces'
  BY DEF StreamInv, Pieces
<1>2. s.down = <<>> => DOMAIN s.down = {}
  OBVIOUS
<1>3. EndIsLast'
  BY <1>2 DEF StreamInv, EndIsLast
<1>4. ExitEnds'
  BY DEF StreamInv, ExitEnds
<1>5. EndsForCause'
  BY DEF StreamInv, EndsForCause
<1> QED
  BY <1>1, <1>3, <1>4, <1>5 DEF StreamInv

\* The reader takes a frame that is not the end of the turn.
LEMMA EndStaysLast ==
  ASSUME StreamTypes, EndIsLast, s.down # <<>>, s'.down = Tail(s.down),
         s'.guest = s.guest, s'.terminal = s.terminal
  PROVE  EndIsLast'
<1>1. /\ s.down \in Seq(Event) /\ DOMAIN s.down = 1..Len(s.down) /\ Len(s.down) \in Nat \ {0}
      /\ DOMAIN s'.down = 1..(Len(s.down) - 1)
      /\ \A i \in 1..(Len(s.down) - 1) : s'.down[i] = s.down[i + 1]
  BY EventsTyped, SeqTail
<1>2. \A j \in DOMAIN s'.down : j + 1 \in DOMAIN s.down /\ s'.down[j] = s.down[j + 1]
  BY <1>1
<1>3. ASSUME NEW i \in DOMAIN s'.down, s'.down[i].kind \in Ends
      PROVE  /\ s'.guest # "running" /\ ~s'.terminal
             /\ \A j \in DOMAIN s'.down : j > i => s'.down[j].kind = "CancelAck"
  <2>1. /\ s.guest # "running" /\ ~s.terminal
        /\ \A j \in DOMAIN s.down : j > i + 1 => s.down[j].kind = "CancelAck"
    BY <1>2, <1>3 DEF EndIsLast
  <2>2. \A j \in DOMAIN s'.down : j > i => j + 1 > i + 1
    BY <1>1, <1>3
  <2> QED
    BY <1>2, <2>1, <2>2
<1> QED
  BY <1>3 DEF EndIsLast

\* An Output is read and given, now or after what waits already.
LEMMA StreamTakesPiece ==
  ASSUME StreamInv, StreamTypes', s.pc # "over", s.down # <<>>, Head(s.down).kind = "Output",
         Events' = Append(Events, Head(s.down)), s'.down = Tail(s.down),
         s'.wrote = s.wrote, s'.guest = s.guest, s'.cut = s.cut, s'.terminal = s.terminal
  PROVE  StreamInv'
<1> DEFINE f == Head(s.down)
<1>0. /\ Events \in Seq(Event) /\ s.down \in Seq(Event) /\ s.wrote \in Nat /\ StreamTypes
  BY EventsTyped DEF StreamInv
<1>1. /\ f \in Event /\ f = s.down[1] /\ DOMAIN s.down = 1..Len(s.down) /\ Len(s.down) \in Nat \ {0}
      /\ DOMAIN s'.down = 1..(Len(s.down) - 1)
      /\ \A i \in 1..(Len(s.down) - 1) : s'.down[i] = s.down[i + 1]
  BY <1>0, SeqTail
<1>2. /\ DOMAIN Events = 1..Len(Events) /\ DOMAIN Events' = 1..(Len(Events) + 1)
      /\ Len(Events) \in Nat /\ Len(Events') = Len(Events) + 1
      /\ Events'[Len(Events) + 1] = f /\ \A i \in 1..Len(Events) : Events'[i] = Events[i]
  BY <1>0, <1>1, SeqAppend
<1>3. \A i \in DOMAIN Events : Events[i].kind # "Exit"
  BY <1>1 DEF StreamInv, ExitEnds
<1>4. \A i \in DOMAIN Events' : Events'[i].kind # "Exit"
  BY <1>2, <1>3
<1>5. Pieces'
  <2>1. PICK t \in 0..s.wrote : Taken(Events, t) /\ OnTheWay(s.down, t, s.wrote)
    BY DEF StreamInv, Pieces
  <2>2. t \in Nat
    BY <1>0
  <2>3. f = Piece(t + 1) /\ t + 1 \in 0..s.wrote /\ OnTheWay(Tail(s.down), t + 1, s.wrote)
    BY <1>0, <2>1, <2>2, HeadOnTheWay
  <2>4. Taken(Events', t + 1)
    BY <1>0, <2>1, <2>2, <2>3, TakesPiece
  <2>5. ~HasExit(Events')
    BY <1>4 DEF HasExit
  <2> DEFINE u == t + 1
  <2>6. u \in 0..s'.wrote /\ Taken(Events', u) /\ OnTheWay(s'.down, u, s'.wrote)
    BY <2>3, <2>4
  <2> HIDE DEF u
  <2> QED
    BY <2>5, <2>6 DEF Pieces
<1>6. EndIsLast'
  BY EndStaysLast DEF StreamInv
<1>7. ExitEnds'
  BY <1>4 DEF ExitEnds
<1>8. EndsForCause'
  BY DEF StreamInv, EndsForCause
<1> QED
  BY <1>5, <1>6, <1>7, <1>8 DEF StreamInv

\* The Exit is read and given, now or after what waits already.
LEMMA StreamTakesExit ==
  ASSUME StreamInv, StreamTypes', s.pc # "over", s.down # <<>>, Head(s.down).kind = "Exit",
         Events' = Append(Events, Head(s.down)), s'.down = Tail(s.down), s'.terminal,
         s'.wrote = s.wrote, s'.guest = s.guest
  PROVE  StreamInv'
<1> DEFINE f == Head(s.down)
<1>0. /\ Events \in Seq(Event) /\ s.down \in Seq(Event) /\ s.wrote \in Nat /\ StreamTypes
  BY EventsTyped DEF StreamInv
<1>1. /\ f \in Event /\ f = s.down[1] /\ DOMAIN s.down = 1..Len(s.down) /\ Len(s.down) \in Nat \ {0}
      /\ DOMAIN s'.down = 1..(Len(s.down) - 1)
      /\ \A i \in 1..(Len(s.down) - 1) : s'.down[i] = s.down[i + 1]
  BY <1>0, SeqTail
<1>2. /\ DOMAIN Events = 1..Len(Events) /\ DOMAIN Events' = 1..(Len(Events) + 1)
      /\ Len(Events) \in Nat /\ Len(Events') = Len(Events) + 1
      /\ Events'[Len(Events) + 1] = f /\ \A i \in 1..Len(Events) : Events'[i] = Events[i]
  BY <1>0, <1>1, SeqAppend
<1>3. /\ s.guest # "running"
      /\ \A j \in DOMAIN s.down : j > 1 => s.down[j].kind = "CancelAck"
      /\ \A i \in DOMAIN Events : Events[i].kind # "Exit"
  <2>1. 1 \in DOMAIN s.down /\ s.down[1].kind \in Ends /\ s.down[1].kind # "CancelAck"
    BY <1>1 DEF Ends
  <2> QED
    BY <2>1 DEF StreamInv, EndIsLast, ExitEnds
<1>4. \A j \in DOMAIN s'.down : s'.down[j].kind = "CancelAck"
  <2>1. \A j \in DOMAIN s'.down : j + 1 \in DOMAIN s.down /\ j + 1 > 1 /\ s'.down[j] = s.down[j + 1]
    BY <1>1
  <2> QED
    BY <1>3, <2>1
<1>5. Pieces'
  <2>1. PICK t \in 0..s.wrote : Taken(Events, t) /\ OnTheWay(s.down, t, s.wrote)
    BY DEF StreamInv, Pieces
  <2>2. t \in Nat
    BY <1>0
  <2>3. OnTheWay(Tail(s.down), t, s.wrote)
    BY <1>0, <2>1, <2>2, HeadOnTheWay
  <2>4. Taken(Events', t)
    BY <1>0, <1>1, <2>1, <2>2, TakesOther
  <2>5. t = s.wrote
    <3>1. t + 1 \notin (t + 1)..s.wrote
      <4> SUFFICES ASSUME t + 1 \in (t + 1)..s.wrote PROVE FALSE
        OBVIOUS
      <4>1. PICK i \in DOMAIN s'.down : s'.down[i] = Piece(t + 1)
        BY <2>3 DEF OnTheWay
      <4> QED
        BY <1>4, <4>1 DEF Piece
    <3> QED
      BY <1>0, <3>1
  <2> QED
    BY <2>1, <2>3, <2>4, <2>5 DEF Pieces
<1>6. EndIsLast'
  BY <1>4 DEF EndIsLast, Ends
<1>7. ExitEnds'
  BY <1>2, <1>3, <1>4 DEF ExitEnds
<1>8. EndsForCause'
  BY <1>3 DEF EndsForCause
<1> QED
  BY <1>5, <1>6, <1>7, <1>8 DEF StreamInv

\* A CancelAck or an Error is read: nothing is given for it.
LEMMA StreamPasses ==
  ASSUME StreamInv, StreamTypes', s.pc # "over", s.down # <<>>,
         \/ Head(s.down).kind = "CancelAck" /\ s'.terminal = s.terminal
         \/ Head(s.down).kind = "Error" /\ s'.terminal \in {s.terminal, TRUE},
         Events' = Events, s'.down = Tail(s.down),
         s'.wrote = s.wrote, s'.guest = s.guest, s'.cut = s.cut
  PROVE  StreamInv'
<1>0. /\ Events \in Seq(Event) /\ s.down \in Seq(Event) /\ s.wrote \in Nat /\ StreamTypes
  BY EventsTyped DEF StreamInv
<1>1. /\ Head(s.down) = s.down[1] /\ DOMAIN s.down = 1..Len(s.down) /\ Len(s.down) \in Nat \ {0}
      /\ DOMAIN s'.down = 1..(Len(s.down) - 1)
      /\ \A i \in 1..(Len(s.down) - 1) : s'.down[i] = s.down[i + 1]
  BY <1>0, SeqTail
<1>2. \A j \in DOMAIN s'.down : j + 1 \in DOMAIN s.down /\ j + 1 > 1 /\ s'.down[j] = s.down[j + 1]
  BY <1>1
<1>3. Head(s.down).kind = "Error" =>
        s.guest # "running" /\ \A j \in DOMAIN s'.down : s'.down[j].kind = "CancelAck"
  <2>1. 1 \in DOMAIN s.down
    BY <1>1
  <2> QED
    BY <1>1, <1>2, <2>1 DEF StreamInv, EndIsLast, Ends
<1>4. Pieces'
  <2>1. PICK t \in 0..s.wrote : Taken(Events, t) /\ OnTheWay(s.down, t, s.wrote)
                                /\ (HasExit(Events) => t = s.wrote)
    BY DEF StreamInv, Pieces
  <2>2. t \in Nat
    BY <1>0
  <2>a. Head(s.down).kind # "Output"
    OBVIOUS
  <2>3. OnTheWay(Tail(s.down), t, s.wrote)
    BY <1>0, <2>1, <2>2, <2>a, HeadOnTheWay
  <2> QED
    BY <2>1, <2>3 DEF Pieces
<1>5. EndIsLast'
  <2>1. CASE Head(s.down).kind = "Error"
    <3>1. \A i \in DOMAIN s'.down : s'.down[i].kind \notin Ends
      BY <1>3, <2>1 DEF Ends
    <3> QED
      BY <3>1 DEF EndIsLast
  <2>2. CASE Head(s.down).kind = "CancelAck" /\ s'.terminal = s.terminal
    BY <2>2, EndStaysLast DEF StreamInv
  <2> QED
    BY <2>1, <2>2
<1>6. ExitEnds'
  <2>1. s.terminal => s'.terminal
    OBVIOUS
  <2>2. \A j \in DOMAIN s'.down : \E k \in DOMAIN s.down : s'.down[j] = s.down[k]
    BY <1>2
  <2> QED
    BY <2>1, <2>2 DEF StreamInv, ExitEnds
<1>7. EndsForCause'
  BY <1>3 DEF StreamInv, EndsForCause
<1> QED
  BY <1>4, <1>5, <1>6, <1>7 DEF StreamInv

\* Started is given, before anything is read or after what stop() buffered.
LEMMA StreamGivesStarted ==
  ASSUME StreamInv, StreamTypes', NEW f \in Event, f.kind = "Started", ~s.terminal,
         Events' = Append(Events, f), s'.down = s.down, s'.pc = s.pc,
         s'.wrote = s.wrote, s'.guest = s.guest, s'.cut = s.cut, s'.terminal = s.terminal
  PROVE  StreamInv'
<1>0. /\ Events \in Seq(Event) /\ s.wrote \in Nat /\ StreamTypes
  BY EventsTyped DEF StreamInv
<1>1. /\ DOMAIN Events = 1..Len(Events) /\ DOMAIN Events' = 1..(Len(Events) + 1)
      /\ Len(Events) \in Nat
      /\ Events'[Len(Events) + 1] = f /\ \A i \in 1..Len(Events) : Events'[i] = Events[i]
  BY <1>0, SeqAppend
<1>2. \A i \in DOMAIN Events' : Events'[i].kind # "Exit"
  BY <1>1 DEF StreamInv, ExitEnds
<1>3. Pieces'
  <2>1. PICK t \in 0..s.wrote : Taken(Events, t) /\ (s.pc # "over" => OnTheWay(s.down, t, s.wrote))
    BY DEF StreamInv, Pieces
  <2>2. Taken(Events', t)
    BY <1>0, <2>1, TakesOther
  <2> QED
    BY <1>2, <2>1, <2>2 DEF Pieces, HasExit
<1>4. EndIsLast' /\ EndsForCause'
  BY DEF StreamInv, EndIsLast, EndsForCause
<1>5. ExitEnds'
  BY <1>2 DEF ExitEnds
<1> QED
  BY <1>3, <1>4, <1>5 DEF StreamInv

\* The guest writes a frame.
LEMMA StreamGuestWrites ==
  ASSUME StreamInv, StreamTypes', NEW f \in Event, ~s.cut, s'.down = Append(s.down, f),
         \/ s.guest = "running" /\ f = Piece(s.wrote + 1) /\ s'.wrote = s.wrote + 1
            /\ s'.guest = s.guest
         \/ s.guest = "running" /\ f.kind \in Ends /\ s'.wrote = s.wrote /\ s'.guest = f.kind
         \/ f.kind = "CancelAck" /\ s'.wrote = s.wrote /\ s'.guest = s.guest,
         Events' = Events, s'.pc = s.pc, s'.cut = s.cut, s'.terminal = s.terminal
  PROVE  StreamInv'
<1>0. /\ s.down \in Seq(Event) /\ s.wrote \in Nat /\ StreamTypes
  BY EventsTyped DEF StreamInv
<1>1. /\ DOMAIN s.down = 1..Len(s.down) /\ DOMAIN s'.down = 1..(Len(s.down) + 1)
      /\ Len(s.down) \in Nat
      /\ s'.down[Len(s.down) + 1] = f /\ \A i \in 1..Len(s.down) : s'.down[i] = s.down[i]
  BY <1>0, SeqAppend
<1>2. s'.guest = "running" => s.guest = "running"
  BY DEF Ends
<1>3. s.guest = "running" => ~s.terminal /\ ~HasExit(Events)
                             /\ \A i \in DOMAIN s.down : s.down[i].kind \notin Ends
  BY DEF StreamInv, EndsForCause, ExitEnds, HasExit, EndIsLast
<1>4. Pieces'
  <2>1. PICK t \in 0..s.wrote : Taken(Events, t) /\ (s.pc # "over" => OnTheWay(s.down, t, s.wrote))
                                /\ (HasExit(Events) => t = s.wrote)
    BY DEF StreamInv, Pieces
  <2>2. t \in 0..s'.wrote
    BY <1>0
  <2>3. s.pc # "over" => OnTheWay(s'.down, t, s'.wrote)
    <3>1. CASE f = Piece(s.wrote + 1) /\ s'.wrote = s.wrote + 1
      BY <1>0, <2>1, <3>1, SendsPiece
    <3>2. CASE f.kind # "Output" /\ s'.wrote = s.wrote
      BY <1>0, <2>1, <3>2, SendsOther
    <3> QED
      BY <3>1, <3>2 DEF Ends
  <2>4. HasExit(Events) => t = s'.wrote
    BY <1>3, <2>1
  <2> QED
    BY <2>1, <2>2, <2>3, <2>4 DEF Pieces
<1>5. EndIsLast'
  <2>1. CASE s.guest = "running" /\ f.kind = "Output"
    <3>1. \A i \in DOMAIN s'.down : s'.down[i].kind \notin Ends
      BY <1>1, <1>3, <2>1 DEF Ends
    <3> QED
      BY <3>1 DEF EndIsLast
  <2>2. CASE s.guest = "running" /\ f.kind \in Ends /\ s'.guest = f.kind
    <3>1. \A i \in DOMAIN s'.down : s'.down[i].kind \in Ends => i = Len(s.down) + 1
      BY <1>1, <1>3, <2>2
    <3>2. \A j \in DOMAIN s'.down : ~(j > Len(s.down) + 1)
      BY <1>1
    <3>3. s'.guest # "running" /\ ~s'.terminal
      BY <1>3, <2>2 DEF Ends
    <3> QED
      BY <3>1, <3>2, <3>3 DEF EndIsLast
  <2>3. CASE f.kind = "CancelAck" /\ s'.guest = s.guest
    <3>1. ASSUME NEW i \in DOMAIN s'.down, s'.down[i].kind \in Ends
          PROVE  /\ s'.guest # "running" /\ ~s'.terminal
                 /\ \A j \in DOMAIN s'.down : j > i => s'.down[j].kind = "CancelAck"
      <4>1. i \in DOMAIN s.down /\ s.down[i].kind \in Ends
        BY <1>1, <2>3, <3>1 DEF Ends
      <4>2. s.guest # "running" /\ ~s.terminal
            /\ \A j \in DOMAIN s.down : j > i => s.down[j].kind = "CancelAck"
        BY <4>1 DEF StreamInv, EndIsLast
      <4>3. \A j \in DOMAIN s'.down : j \notin DOMAIN s.down => s'.down[j].kind = "CancelAck"
        BY <1>1, <2>3
      <4>4. \A j \in DOMAIN s.down : s'.down[j] = s.down[j]
        BY <1>1
      <4> QED
        BY <2>3, <4>2, <4>3, <4>4
    <3> QED
      BY <3>1 DEF EndIsLast
  <2> QED
    BY <2>1, <2>2, <2>3 DEF Piece
<1>6. ExitEnds'
  <2>1. CASE s.guest = "running"
    BY <1>3, <2>1 DEF ExitEnds, HasExit
  <2>2. CASE f.kind = "CancelAck" /\ s'.guest = s.guest
    BY <1>1, <2>2 DEF StreamInv, ExitEnds
  <2> QED
    BY <2>1, <2>2
<1>7. EndsForCause'
  BY <1>3 DEF StreamInv, EndsForCause
<1> QED
  BY <1>4, <1>5, <1>6, <1>7 DEF StreamInv

LEMMA StreamGuestStep == StreamInv /\ StreamGuest => StreamInv'
<1> SUFFICES ASSUME StreamInv, StreamGuest PROVE StreamInv'
  OBVIOUS
<1>1. StreamTypes /\ ~s.cut
  BY DEF StreamInv, StreamGuest
<1>2. s.wrote \in Nat /\ s.down \in Seq(Event)
  BY <1>1, EventsTyped
<1>3. CASE /\ s.guest = "running"
           /\ s' = [s EXCEPT !.wrote = @ + 1,
                             !.down = Append(@, [kind |-> "Output", n |-> s.wrote + 1])]
  <2> DEFINE f == Piece(s.wrote + 1)
  <2>1. f \in Event /\ f = [kind |-> "Output", n |-> s.wrote + 1]
    BY <1>2 DEF Event, Piece
  <2>2. Append(s.down, f) \in Seq(Event) /\ s.wrote + 1 \in Nat
    BY <1>2, <2>1
  <2> HIDE DEF f
  <2>3. s' = [s EXCEPT !.wrote = s.wrote + 1, !.down = Append(s.down, f)]
    BY <1>3, <2>1
  <2>4. StreamTypes'
    BY <1>1, <2>2, <2>3 DEF StreamTypes
  <2>5. /\ s'.down = Append(s.down, f) /\ s'.wrote = s.wrote + 1 /\ s'.guest = s.guest
        /\ s'.pc = s.pc /\ s'.cut = s.cut /\ s'.terminal = s.terminal /\ Events' = Events
    BY <1>1, <2>3 DEF StreamTypes, Events
  <2> QED
    BY <1>1, <1>3, <2>1, <2>4, <2>5, StreamGuestWrites DEF f
<1>4. ASSUME NEW e \in {"Exit", "Error"}, s.guest = "running",
             s' = [s EXCEPT !.guest = e, !.down = Append(@, [kind |-> e, n |-> 0])]
      PROVE  StreamInv'
  <2> DEFINE f == [kind |-> e, n |-> 0]
  <2>1. f \in Event /\ f.kind \in Ends /\ f.kind = e
    BY DEF Event, Ends
  <2> HIDE DEF f
  <2>2. Append(s.down, f) \in Seq(Event)
    BY <1>2, <2>1
  <2>3. s' = [s EXCEPT !.guest = e, !.down = Append(s.down, f)]
    BY <1>4 DEF f
  <2>4. StreamTypes'
    BY <1>1, <2>2, <2>3 DEF StreamTypes
  <2>5. /\ s'.down = Append(s.down, f) /\ s'.wrote = s.wrote /\ s'.guest = f.kind
        /\ s'.pc = s.pc /\ s'.cut = s.cut /\ s'.terminal = s.terminal /\ Events' = Events
    BY <1>1, <2>1, <2>3 DEF StreamTypes, Events
  <2> QED
    BY <1>1, <1>4, <2>1, <2>4, <2>5, StreamGuestWrites
<1>5. CASE s' = [s EXCEPT !.down = Append(@, [kind |-> "CancelAck", n |-> 0])]
  <2> DEFINE f == [kind |-> "CancelAck", n |-> 0]
  <2>1. f \in Event /\ f.kind = "CancelAck"
    BY DEF Event
  <2> HIDE DEF f
  <2>2. Append(s.down, f) \in Seq(Event)
    BY <1>2, <2>1
  <2>3. s' = [s EXCEPT !.down = Append(s.down, f)]
    BY <1>5 DEF f
  <2>4. StreamTypes'
    BY <1>1, <2>2, <2>3 DEF StreamTypes
  <2>5. /\ s'.down = Append(s.down, f) /\ s'.wrote = s.wrote /\ s'.guest = s.guest
        /\ s'.pc = s.pc /\ s'.cut = s.cut /\ s'.terminal = s.terminal /\ Events' = Events
    BY <1>1, <2>3 DEF StreamTypes, Events
  <2> QED
    BY <1>1, <2>1, <2>4, <2>5, StreamGuestWrites
<1>6. CASE s' = [s EXCEPT !.cut = TRUE]
  <2>1. StreamTypes' /\ Events' = Events /\ s'.down = s.down /\ s'.wrote = s.wrote
        /\ s'.guest = s.guest /\ s'.pc = s.pc /\ s'.cut /\ s'.terminal = s.terminal
    BY <1>1, <1>6 DEF StreamTypes, Events
  <2> QED
    BY <2>1, StreamRests
<1> QED
  BY <1>3, <1>4, <1>5, <1>6 DEF StreamGuest, Piece

LEMMA NextEventStep == StreamInv /\ NextEvent => StreamInv'
<1> SUFFICES ASSUME StreamInv, NextEvent PROVE StreamInv'
  OBVIOUS
<1> DEFINE f == Head(s.down)
           read == [s EXCEPT !.down = Tail(s.down)]
<1>1. StreamTypes /\ s.pc = "poll"
  BY DEF StreamInv, NextEvent
<1>2. /\ s.wrote \in Nat /\ s.down \in Seq(Event) /\ s.given \in Seq(Event)
      /\ s.pending \in Seq(Event)
  BY <1>1, EventsTyped
<1>3. CASE /\ s.pending # <<>>
           /\ s' = [s EXCEPT !.pending = Tail(s.pending), !.given = Append(s.given, Head(s.pending))]
  <2>1. /\ Tail(s.pending) \in Seq(Event) /\ Head(s.pending) \in Event
        /\ Append(s.given, Head(s.pending)) \in Seq(Event)
    BY <1>2, <1>3
  <2>2. StreamTypes'
    BY <1>1, <1>3, <2>1 DEF StreamTypes
  <2>3. /\ s'.down = s.down /\ s'.wrote = s.wrote /\ s'.guest = s.guest /\ s'.pc = s.pc
        /\ s'.cut = s.cut /\ s'.terminal = s.terminal
        /\ Events' = Then(Append(s.given, Head(s.pending)), Tail(s.pending))
    BY <1>1, <1>3 DEF StreamTypes, Events
  <2>4. Events' = Events
    BY <1>2, <1>3, <2>3, NextIsGiven DEF Events
  <2> QED
    BY <1>1, <2>2, <2>3, <2>4, StreamRests
<1>4. CASE s' = [s EXCEPT !.pc = "over"]
  <2>1. StreamTypes' /\ Events' = Events /\ s'.down = s.down /\ s'.wrote = s.wrote
        /\ s'.guest = s.guest /\ s'.pc = "over" /\ s'.cut = s.cut /\ s'.terminal = s.terminal
    BY <1>1, <1>4 DEF StreamTypes, Events
  <2> QED
    BY <2>1, StreamRests
<1>5. CASE /\ s.pending = <<>> /\ ~s.terminal
           /\ s' = [s EXCEPT !.started = TRUE,
                             !.given = Append(s.given, [kind |-> "Started", n |-> 0])]
  <2> DEFINE e == [kind |-> "Started", n |-> 0]
  <2>1. e \in Event /\ e.kind = "Started"
    BY DEF Event
  <2> HIDE DEF e
  <2>2. Append(s.given, e) \in Seq(Event)
    BY <1>2, <2>1
  <2>3. s' = [s EXCEPT !.started = TRUE, !.given = Append(s.given, e)]
    BY <1>5 DEF e
  <2>4. StreamTypes'
    BY <1>1, <2>2, <2>3 DEF StreamTypes
  <2>5. /\ s'.down = s.down /\ s'.wrote = s.wrote /\ s'.guest = s.guest /\ s'.pc = s.pc
        /\ s'.cut = s.cut /\ s'.terminal = s.terminal /\ Events' = Then(Append(s.given, e), s.pending)
    BY <1>1, <2>3 DEF StreamTypes, Events
  <2>6. Events' = Append(Events, e)
    BY <1>2, <1>5, <2>1, <2>5, GivenThenPending DEF Events
  <2> QED
    BY <1>5, <2>1, <2>4, <2>5, <2>6, StreamGivesStarted
<1>6. ASSUME s.down # <<>>
      PROVE  /\ f \in Event /\ Tail(s.down) \in Seq(Event)
             /\ Append(s.given, f) \in Seq(Event)
             /\ s.pending = <<>> => Then(Append(s.given, f), s.pending) = Append(Events, f)
  <2>1. f \in Event /\ Tail(s.down) \in Seq(Event)
    BY <1>2, <1>6, SeqTail
  <2> HIDE DEF f
  <2> QED
    BY <1>2, <2>1, GivenThenPending, SeqAppend DEF Events
<1>7. CASE /\ s.pending = <<>> /\ s.down # <<>> /\ f.kind = "Output"
           /\ s' = [s EXCEPT !.down = Tail(s.down), !.given = Append(s.given, f)]
  <2> HIDE DEF f
  <2>1. StreamTypes'
    BY <1>1, <1>6, <1>7 DEF StreamTypes
  <2>2. /\ s'.down = Tail(s.down) /\ s'.wrote = s.wrote /\ s'.guest = s.guest /\ s'.pc = s.pc
        /\ s'.cut = s.cut /\ s'.terminal = s.terminal /\ Events' = Then(Append(s.given, f), s.pending)
    BY <1>1, <1>7 DEF StreamTypes, Events
  <2> QED
    BY <1>1, <1>6, <1>7, <2>1, <2>2, StreamTakesPiece DEF f
<1>8. CASE /\ s.pending = <<>> /\ s.down # <<>> /\ f.kind = "Exit"
           /\ s' = [s EXCEPT !.down = Tail(s.down), !.terminal = TRUE, !.given = Append(s.given, f)]
  <2> HIDE DEF f
  <2>1. StreamTypes'
    BY <1>1, <1>6, <1>8 DEF StreamTypes
  <2>2. /\ s'.down = Tail(s.down) /\ s'.wrote = s.wrote /\ s'.guest = s.guest /\ s'.pc = s.pc
        /\ s'.terminal /\ Events' = Then(Append(s.given, f), s.pending)
    BY <1>1, <1>8 DEF StreamTypes, Events
  <2> QED
    BY <1>1, <1>6, <1>8, <2>1, <2>2, StreamTakesExit DEF f
<1>9. CASE /\ s.down # <<>> /\ f.kind = "Error"
           /\ s' = [s EXCEPT !.down = Tail(s.down), !.pc = "over"]
  <2>1. StreamTypes' /\ Events' = Events /\ s'.down = Tail(s.down) /\ s'.wrote = s.wrote
        /\ s'.guest = s.guest /\ s'.cut = s.cut /\ s'.terminal = s.terminal
    BY <1>1, <1>6, <1>9 DEF StreamTypes, Events
  <2> QED
    BY <1>1, <1>9, <2>1, StreamPasses
<1>10. CASE s.down # <<>> /\ f.kind = "CancelAck" /\ s' = read
  <2>1. StreamTypes' /\ Events' = Events /\ s'.down = Tail(s.down) /\ s'.wrote = s.wrote
        /\ s'.guest = s.guest /\ s'.cut = s.cut /\ s'.terminal = s.terminal
    BY <1>1, <1>6, <1>10 DEF StreamTypes, Events
  <2> QED
    BY <1>1, <1>10, <2>1, StreamPasses
<1> QED
  BY <1>3, <1>4, <1>5, <1>7, <1>8, <1>9, <1>10 DEF NextEvent, Gives, Over

LEMMA StopStep == StreamInv /\ Stop => StreamInv'
<1> SUFFICES ASSUME StreamInv, Stop PROVE StreamInv'
  OBVIOUS
<1>1. StreamTypes /\ s.pc = "poll"
  BY DEF StreamInv, Stop
<1>2. CASE s' = s
  BY <1>2 DEF StreamInv, StreamTypes, Pieces, EndIsLast, ExitEnds, EndsForCause, Events
<1>3. CASE s' = [s EXCEPT !.cancelSent = TRUE, !.pc = "stop"]
  <2>1. StreamTypes' /\ Events' = Events /\ s'.down = s.down /\ s'.wrote = s.wrote
        /\ s'.guest = s.guest /\ s'.cut = s.cut /\ s'.terminal = s.terminal
    BY <1>1, <1>3 DEF StreamTypes, Events
  <2> QED
    BY <1>1, <2>1, StreamRests
<1> QED
  BY <1>2, <1>3 DEF Stop

LEMMA StopReadsStep == StreamInv /\ StopReads => StreamInv'
<1> SUFFICES ASSUME StreamInv, StopReads PROVE StreamInv'
  OBVIOUS
<1> DEFINE f == Head(s.down)
<1>1. StreamTypes /\ s.pc = "stop"
  BY DEF StreamInv, StopReads
<1>2. /\ s.wrote \in Nat /\ s.down \in Seq(Event) /\ s.given \in Seq(Event)
      /\ s.pending \in Seq(Event)
  BY <1>1, EventsTyped
<1>3. CASE /\ s.down = <<>>
           /\ s' = IF s.cut THEN [s EXCEPT !.pc = "poll", !.terminal = TRUE]
                            ELSE [s EXCEPT !.pc = "poll"]
  <2>1. StreamTypes' /\ Events' = Events /\ s'.down = s.down /\ s'.wrote = s.wrote
        /\ s'.guest = s.guest /\ s'.cut = s.cut
        /\ s'.terminal = IF s.cut THEN TRUE ELSE s.terminal
    BY <1>1, <1>3 DEF StreamTypes, Events
  <2> QED
    BY <1>1, <1>3, <2>1, StreamRests
<1>4. ASSUME s.down # <<>>
      PROVE  /\ f \in Event /\ Tail(s.down) \in Seq(Event)
             /\ Append(s.pending, f) \in Seq(Event)
             /\ Then(s.given, Append(s.pending, f)) = Append(Events, f)
  <2>1. f \in Event /\ Tail(s.down) \in Seq(Event)
    BY <1>2, <1>4, SeqTail
  <2> HIDE DEF f
  <2> QED
    BY <1>2, <2>1, GivenThenPending, SeqAppend DEF Events
<1>5. CASE /\ s.down # <<>> /\ f.kind = "CancelAck"
           /\ s' = [s EXCEPT !.pc = "poll", !.down = Tail(s.down)]
  <2>1. StreamTypes' /\ Events' = Events /\ s'.down = Tail(s.down) /\ s'.wrote = s.wrote
        /\ s'.guest = s.guest /\ s'.cut = s.cut /\ s'.terminal = s.terminal
    BY <1>1, <1>4, <1>5 DEF StreamTypes, Events
  <2> QED
    BY <1>1, <1>5, <2>1, StreamPasses
<1>6. CASE /\ s.down # <<>> /\ f.kind = "Output"
           /\ s' = [s EXCEPT !.down = Tail(s.down), !.pending = Append(s.pending, f)]
  <2> HIDE DEF f
  <2>1. StreamTypes'
    BY <1>1, <1>4, <1>6 DEF StreamTypes
  <2>2. /\ s'.down = Tail(s.down) /\ s'.wrote = s.wrote /\ s'.guest = s.guest /\ s'.pc = s.pc
        /\ s'.cut = s.cut /\ s'.terminal = s.terminal /\ Events' = Then(s.given, Append(s.pending, f))
    BY <1>1, <1>6 DEF StreamTypes, Events
  <2> QED
    BY <1>1, <1>4, <1>6, <2>1, <2>2, StreamTakesPiece DEF f
<1>7. CASE /\ s.down # <<>> /\ f.kind = "Exit"
           /\ s' = [s EXCEPT !.pc = "poll", !.down = Tail(s.down), !.terminal = TRUE,
                             !.pending = Append(s.pending, f)]
  <2> HIDE DEF f
  <2>1. StreamTypes'
    BY <1>1, <1>4, <1>7 DEF StreamTypes
  <2>2. /\ s'.down = Tail(s.down) /\ s'.wrote = s.wrote /\ s'.guest = s.guest
        /\ s'.terminal /\ Events' = Then(s.given, Append(s.pending, f))
    BY <1>1, <1>7 DEF StreamTypes, Events
  <2> QED
    BY <1>1, <1>4, <1>7, <2>1, <2>2, StreamTakesExit DEF f
<1>8. CASE /\ s.down # <<>> /\ f.kind = "Error"
           /\ s' = [s EXCEPT !.pc = "poll", !.down = Tail(s.down), !.terminal = TRUE]
  <2>1. StreamTypes' /\ Events' = Events /\ s'.down = Tail(s.down) /\ s'.wrote = s.wrote
        /\ s'.guest = s.guest /\ s'.cut = s.cut /\ s'.terminal = TRUE
    BY <1>1, <1>4, <1>8 DEF StreamTypes, Events
  <2> QED
    BY <1>1, <1>8, <2>1, StreamPasses
<1> QED
  BY <1>3, <1>5, <1>6, <1>7, <1>8 DEF StopReads, Buffers

LEMMA StreamSeen == StreamInv => StreamInOrder
<1> SUFFICES ASSUME StreamInv PROVE StreamInOrder
  OBVIOUS
<1> DEFINE at(n) == {i \in DOMAIN Events : Events[i] = Piece(n)}
           exits == {i \in DOMAIN s.given : s.given[i].kind = "Exit"}
<1>1. /\ StreamTypes /\ Events \in Seq(Event) /\ DOMAIN Events = 1..Len(Events)
      /\ Len(Events) \in Nat /\ s.wrote \in Nat
  BY EventsTyped DEF StreamInv
<1>2. PICK t \in 0..s.wrote : Taken(Events, t) /\ (HasExit(Events) => t = s.wrote)
  BY DEF StreamInv, Pieces
<1>3. ASSUME NEW i \in DOMAIN Events, Events[i].kind = "Output"
      PROVE  LET n == Events[i].n
             IN  at(n) = {i} /\ (n > 1 => \E j \in at(n - 1) : j < i)
  <2> DEFINE n == Events[i].n
  <2>1. Events[i] \in Event /\ Events[i] = Piece(n) /\ n \in 1..t
    BY <1>1, <1>2, <1>3, PieceIs DEF Taken
  <2>2. \A j \in DOMAIN Events : j < i \/ j = i \/ i < j
    BY <1>1
  <2>3. \A k : Piece(k).kind = "Output" /\ Piece(k).n = k
    BY DEF Piece
  <2> HIDE DEF n
  <2>4. \A j \in at(n) : j = i
    <3>1. TAKE j \in at(n)
    <3>2. Events[j].kind = "Output" /\ Events[j].n = n
      BY <2>3
    <3>3. j < i => Events[j].n < Events[i].n
      BY <1>2, <1>3, <3>2 DEF Taken
    <3>4. i < j => Events[i].n < Events[j].n
      BY <1>2, <1>3, <3>2 DEF Taken
    <3> QED
      BY <2>1, <2>2, <3>2, <3>3, <3>4 DEF n
  <2>5. ASSUME n > 1 PROVE \E j \in at(n - 1) : j < i
    <3>1. n - 1 \in 1..t
      BY <2>1, <2>5
    <3>2. PICK j \in DOMAIN Events : Events[j] = Piece(n - 1)
      BY <1>2, <3>1 DEF Taken
    <3>3. Events[j].kind = "Output" /\ Events[j].n = n - 1
      BY <2>3, <3>2
    <3>4. i < j => Events[i].n < Events[j].n
      BY <1>2, <1>3, <3>3 DEF Taken
    <3>5. j < i
      BY <2>1, <2>2, <3>3, <3>4 DEF n
    <3> QED
      BY <3>2, <3>5
  <2> QED
    BY <2>1, <2>4, <2>5 DEF n
<1>4. ASSUME exits # {}
      PROVE  exits = {Len(s.given)} /\ \A n \in 1..s.wrote : at(n) # {}
  <2>1. s.given \in Seq(Event) /\ s.pending \in Seq(Event)
    BY <1>1, EventsTyped
  <2>3. /\ Len(Events) = Len(s.given) + Len(s.pending) /\ Len(s.given) \in Nat
        /\ Len(s.pending) \in Nat /\ DOMAIN s.given = 1..Len(s.given)
        /\ \A i \in 1..Len(s.given) : Events[i] = s.given[i]
    BY <2>1, GivenAndPending DEF Events
  <2>2. ASSUME NEW i \in exits
        PROVE  i \in DOMAIN Events /\ Events[i].kind = "Exit" /\ i \in 1..Len(s.given)
    <3>1. i \in DOMAIN s.given /\ s.given[i].kind = "Exit"
      OBVIOUS
    <3>2. i \in 1..Len(s.given)
      BY <3>1, <2>3
    <3> DEFINE m == Len(s.given)
               n == Len(s.pending)
    <3>3. i \in 1..(m + n)
      <4>1. m \in Nat /\ n \in Nat /\ i \in 1..m
        BY <2>3, <3>2
      <4> HIDE DEF m, n
      <4> QED
        BY <4>1
    <3>4. i \in DOMAIN Events
      BY <1>1, <2>3, <3>3
    <3> QED
      BY <2>3, <3>1, <3>2, <3>4
  <2>4. \A i \in exits : i = Len(Events)
    BY <2>2 DEF StreamInv, ExitEnds
  <2>5. ASSUME NEW i \in exits PROVE i = Len(s.given)
    <3> DEFINE m == Len(s.given)
               n == Len(s.pending)
    <3>1. m \in Nat /\ n \in Nat /\ i \in 1..m /\ i = m + n
      BY <2>2, <2>3, <2>4
    <3> HIDE DEF m, n
    <3>2. i = m
      BY <3>1
    <3> QED
      BY <3>2 DEF m
  <2>6. t = s.wrote
    BY <1>2, <1>4, <2>2 DEF HasExit
  <2>7. \A n \in 1..s.wrote : at(n) # {}
    BY <1>2, <2>6 DEF Taken
  <2> QED
    BY <1>4, <2>5, <2>7
<1> QED
  BY <1>3, <1>4 DEF StreamInOrder, Events, Then

-----------------------------------------------------------------------------
(* The SDK client's calls *)

Frames == [kind : {"Ack", "Error", "Exit", "Output"}, id : ClientCall]
Link == [life : {"none", "open", "dead", "dropped"}, up : Seq(ClientCall), down : Seq(Frames)]
Request == [pc : {"borrow", "write", "read", "done"}, attempt : {0, 1}, k : 0..MaxConn,
            out : Nat, res : {"?", "error", "foreign", "Ack", "Error", "Exit"}]

CallTypes ==
  /\ zconn \in [ClientConn -> Link] /\ zcall \in [ClientCall -> Request]
  /\ zpool \in Seq(ClientConn) /\ Len(zpool) <= PoolCap
  /\ zopened \in 0..MaxConn
  /\ served \in [ClientCall -> Nat] /\ died \subseteq ClientCall

Has(c, k) == zcall[c].pc \in {"write", "read"} /\ zcall[c].k = k
Asked(c) == \E k \in ClientConn : zconn[k].up = <<c>>
Clean(k) == zconn[k].up = <<>> /\ zconn[k].down = <<>>

\* What is on a connection is c's request or the answer to it, its end last.
Awaits(k, c) ==
  /\ zconn[k].up \in {<<>>, <<c>>}
  /\ zconn[k].up = <<c>> => zconn[k].down = <<>>
  /\ \A i \in DOMAIN zconn[k].down :
       /\ zconn[k].down[i].id = c
       /\ zconn[k].down[i].kind # "Output" => i = Len(zconn[k].down)

\* Every connection is not opened yet, in the pool once, with one call, or dropped.
LinkKept(k) ==
  /\ zconn[k].life = "none" <=> k > zopened
  /\ zconn[k].life = "none" => zconn[k].up = <<>>
  /\ zconn[k].life \in {"none", "dropped"} => zconn[k].down = <<>>
  /\ zconn[k].life = "dead" => zconn[k].up = <<>>
  /\ zconn[k].up # <<>> => \E c \in ClientCall : zconn[k].up = <<c>>
  /\ zconn[k].up # <<>> /\ zconn[k].life = "open" => \E c \in ClientCall : Has(c, k)
LinksKept == \A k \in ClientConn : LinkKept(k)
WarmKept ==
  \A i \in DOMAIN zpool :
    /\ zconn[zpool[i]].life \in {"open", "dead"} /\ Clean(zpool[i])
    /\ \A j \in DOMAIN zpool : zpool[i] = zpool[j] => i = j
    /\ \A c \in ClientCall : ~Has(c, zpool[i])
CallKept(c) ==
  zcall[c].pc \in {"write", "read"} =>
    /\ zcall[c].k \in ClientConn /\ zconn[zcall[c].k].life \in {"open", "dead"}
    /\ zcall[c].pc = "write" => Clean(zcall[c].k)
    /\ zcall[c].pc = "read" => Awaits(zcall[c].k, c)
    /\ \A d \in ClientCall : Has(d, zcall[c].k) => d = c
CallsKept == \A c \in ClientCall : CallKept(c)

\* A request is asked again only after its connection died under it.
Excused(c) == c \in Control /\ c \in died /\ zcall[c].attempt = 1
AskedSo(c) ==
  /\ \A k, l \in ClientConn : zconn[k].up = <<c>> /\ zconn[l].up = <<c>> => k = l
  /\ served[c] \in 0..2
  /\ served[c] = 2 => ~Asked(c) /\ Excused(c)
  /\ served[c] = 1 /\ Asked(c) => Excused(c)
  /\ zcall[c].pc \in {"borrow", "write"} =>
       ~Asked(c) /\ served[c] < 2 /\ (served[c] = 1 => Excused(c))
  /\ zcall[c].pc = "read" => \A k \in ClientConn : zconn[k].up = <<c>> => k = zcall[c].k
AskedOnce == \A c \in ClientCall : AskedSo(c)

NoForeign == \A c \in ClientCall : zcall[c].res # "foreign"

CallsInv ==
  CallTypes /\ LinksKept /\ WarmKept /\ CallsKept /\ AskedOnce /\ NoForeign

LEMMA SingleIs ==
  ASSUME NEW c \in ClientCall
  PROVE  /\ <<c>> \in Seq(ClientCall) /\ <<c>> # <<>> /\ Head(<<c>>) = c /\ Tail(<<c>>) = <<>>
         /\ Append(<<>>, c) = <<c>> /\ \A d : <<d>> = <<c>> => d = c
<1>1. <<c>> \in Seq(ClientCall) /\ <<c>> # <<>> /\ Head(<<c>>) = c /\ Tail(<<c>>) = <<>>
  OBVIOUS
<1>2. Append(<<>>, c) = <<c>>
  OBVIOUS
<1>3. \A d : <<d>> = <<c>> => d = c
  OBVIOUS
<1> QED
  BY <1>1, <1>2, <1>3

\* A step that touches one call and one connection, which is nobody else's.
LEMMA OnlyTouches ==
  ASSUME CallsInv, NEW c \in ClientCall, NEW k \in ClientConn, CallTypes',
         \A l \in ClientConn \ {k} : zconn'[l] = zconn[l] /\ (l > zopened' <=> l > zopened),
         \A d \in ClientCall \ {c} : /\ zcall'[d] = zcall[d] /\ served'[d] = served[d]
                                     /\ ~Has(d, k),
         died \subseteq died', \A l \in ClientConn : Has(c, l)' => l = k,
         \/ zconn'[k].up = zconn[k].up
         \/ zconn[k].up \in {<<>>, <<c>>} /\ zconn'[k].up \in {<<>>, <<c>>},
         LinkKept(k)', CallKept(c)', AskedSo(c)', WarmKept', zcall'[c].res # "foreign",
         \A l \in ClientConn : Has(c, l) => l = k
  PROVE  CallsInv'
<1>1. \A d \in ClientCall \ {c}, l \in ClientConn : Has(d, l)' <=> Has(d, l)
  BY DEF Has
<1>2. \A d \in ClientCall \ {c} : zconn[k].up = <<d>> <=> zconn'[k].up = <<d>>
  <2>1. \A d \in ClientCall \ {c} : <<d>> # <<c>> /\ <<d>> # <<>>
    BY SingleIs
  <2> QED
    BY <2>1
<1>3. \A d \in ClientCall \ {c}, l \in ClientConn : zconn'[l].up = <<d>> <=> zconn[l].up = <<d>>
  BY <1>2
<1>4. LinksKept'
  <2>1. ASSUME NEW l \in ClientConn \ {k} PROVE LinkKept(l)'
    <3>1. LinkKept(l) /\ zconn'[l] = zconn[l] /\ (l > zopened' <=> l > zopened)
      BY DEF CallsInv, LinksKept
    <3>2. ASSUME zconn[l].up # <<>>, zconn[l].life = "open"
          PROVE  \E d \in ClientCall : Has(d, l)'
      <4>1. PICK d \in ClientCall : Has(d, l)
        BY <3>1, <3>2 DEF LinkKept
      <4> QED
        BY <1>1, <3>2, <4>1
    <3> QED
      BY <3>1, <3>2 DEF LinkKept
  <2> QED
    BY <2>1 DEF LinksKept
<1>5. CallsKept'
  <2>1. ASSUME NEW d \in ClientCall \ {c} PROVE CallKept(d)'
    <3>1. CASE zcall[d].pc \in {"write", "read"}
      <4>1. PICK l \in ClientConn : l = zcall[d].k
        BY <3>1 DEF CallsInv, CallsKept, CallKept
      <4>2. Has(d, l) /\ CallKept(d)
        BY <3>1, <4>1 DEF CallsInv, CallsKept, Has
      <4>3. l # k /\ zconn'[l] = zconn[l] /\ zcall'[d] = zcall[d]
        BY <4>2
      <4>4. /\ zconn[l].life \in {"open", "dead"} /\ (zcall[d].pc = "write" => Clean(l))
            /\ (zcall[d].pc = "read" => Awaits(l, d)) /\ \A e \in ClientCall : Has(e, l) => e = d
        BY <3>1, <4>1, <4>2 DEF CallKept
      <4>5. (Clean(l)' <=> Clean(l)) /\ (Awaits(l, d)' <=> Awaits(l, d))
        BY <4>3 DEF Clean, Awaits
      <4>6. \A e \in ClientCall : Has(e, l)' => e = d
        BY <1>1, <4>3, <4>4
      <4>7. zcall'[d].k = l /\ zcall'[d].pc = zcall[d].pc /\ zconn'[l].life \in {"open", "dead"}
        BY <4>1, <4>3, <4>4
      <4>8. /\ Clean(zcall[d].k)' <=> Clean(l)'
            /\ Awaits(zcall[d].k, d)' <=> Awaits(l, d)'
            /\ \A e \in ClientCall : Has(e, zcall[d].k)' <=> Has(e, l)'
        BY <4>7 DEF Clean, Awaits, Has
      <4> QED
        BY <4>4, <4>5, <4>6, <4>7, <4>8 DEF CallKept
    <3>2. CASE zcall[d].pc \notin {"write", "read"}
      BY <3>2 DEF CallKept
    <3> QED
      BY <3>1, <3>2
  <2> QED
    BY <2>1 DEF CallsKept
<1>6. AskedOnce'
  <2>1. ASSUME NEW d \in ClientCall \ {c} PROVE AskedSo(d)'
    <3>1. AskedSo(d) /\ zcall'[d] = zcall[d] /\ served'[d] = served[d]
      BY DEF CallsInv, AskedOnce
    <3>2. Asked(d)' <=> Asked(d)
      BY <1>3 DEF Asked
    <3>3. Excused(d) => Excused(d)'
      BY <3>1 DEF Excused
    <3> QED
      BY <1>3, <3>1, <3>2, <3>3 DEF AskedSo
  <2> QED
    BY <2>1 DEF AskedOnce
<1>7. NoForeign'
  BY DEF CallsInv, NoForeign
<1> QED
  BY <1>4, <1>5, <1>6, <1>7 DEF CallsInv

\* The pool as it was, or without its last connection, while the others are left alone.
LEMMA WarmStays ==
  ASSUME CallsInv, NEW c \in ClientCall, NEW k \in ClientConn,
         \A l \in ClientConn \ {k} : zconn'[l] = zconn[l],
         \A d \in ClientCall \ {c} : zcall'[d] = zcall[d],
         \A l \in ClientConn : Has(c, l)' => l = k,
         \A i \in DOMAIN zpool' : i \in DOMAIN zpool /\ zpool'[i] = zpool[i] /\ zpool[i] # k
  PROVE  WarmKept'
<1>1. \A i \in DOMAIN zpool' : /\ i \in DOMAIN zpool /\ zpool'[i] = zpool[i]
                               /\ zpool[i] \in ClientConn \ {k}
  BY DEF CallsInv, CallTypes
<1>2. \A i \in DOMAIN zpool' : zconn'[zpool'[i]] = zconn[zpool[i]]
  BY <1>1
<1>3. ASSUME NEW i \in DOMAIN zpool', NEW d \in ClientCall PROVE ~Has(d, zpool[i])'
  <2>1. zpool'[i] = zpool[i] /\ zpool[i] \in ClientConn \ {k} /\ i \in DOMAIN zpool
    BY <1>1
  <2>2. CASE d = c
    BY <2>1, <2>2 DEF Has
  <2>3. CASE d # c
    <3>1. ~Has(d, zpool[i])
      BY <2>1 DEF CallsInv, WarmKept
    <3> QED
      BY <2>1, <2>3, <3>1 DEF Has
  <2> QED
    BY <2>2, <2>3
<1>4. ASSUME NEW i \in DOMAIN zpool'
      PROVE  /\ zconn'[zpool'[i]].life \in {"open", "dead"}
             /\ zconn'[zpool'[i]].up = <<>> /\ zconn'[zpool'[i]].down = <<>>
  <2>1. i \in DOMAIN zpool /\ zconn'[zpool'[i]] = zconn[zpool[i]]
    BY <1>1, <1>2
  <2> QED
    BY <2>1 DEF CallsInv, WarmKept, Clean
<1>5. \A i, j \in DOMAIN zpool' : zpool'[i] = zpool'[j] => i = j
  BY <1>1 DEF CallsInv, WarmKept
<1> QED
  BY <1>3, <1>4, <1>5 DEF WarmKept, Clean

\* The types after a step that touches one call and one connection.
LEMMA TypesKept ==
  ASSUME CallTypes, NEW c \in ClientCall, NEW k \in ClientConn, NEW l \in Link, NEW q \in Request,
         zconn' = [zconn EXCEPT ![k] = l], zcall' = [zcall EXCEPT ![c] = q],
         zpool' \in Seq(ClientConn), Len(zpool') <= PoolCap, zopened' \in 0..MaxConn,
         served' \in [ClientCall -> Nat], died' \subseteq ClientCall
  PROVE  /\ CallTypes' /\ zconn'[k] = l /\ zcall'[c] = q
         /\ \A m \in ClientConn \ {k} : zconn'[m] = zconn[m]
         /\ \A d \in ClientCall \ {c} : zcall'[d] = zcall[d]
BY DEF CallTypes

\* The connection of a call that writes or reads is the call's alone.
LEMMA MyConnection ==
  ASSUME CallsInv, NEW c \in ClientCall, zcall[c].pc \in {"write", "read"}
  PROVE  LET k == zcall[c].k
         IN  /\ k \in ClientConn /\ zconn[k].life \in {"open", "dead"} /\ ~(k > zopened)
             /\ \A d \in ClientCall \ {c} : ~Has(d, k)
             /\ \A l \in ClientConn : Has(c, l) => l = k
             /\ \A i \in DOMAIN zpool : zpool[i] # k
<1> DEFINE k == zcall[c].k
<1>1. k \in ClientConn /\ zconn[k].life \in {"open", "dead"}
      /\ \A d \in ClientCall : Has(d, k) => d = c
  BY DEF CallsInv, CallsKept, CallKept
<1>2. ~(k > zopened)
  BY <1>1 DEF CallsInv, LinksKept, LinkKept
<1>3. Has(c, k) /\ \A l \in ClientConn : Has(c, l) => l = k
  BY DEF Has
<1>4. \A i \in DOMAIN zpool : zpool[i] # k
  BY <1>3 DEF CallsInv, WarmKept
<1> QED
  BY <1>1, <1>2, <1>3, <1>4

\* The connection on top of the pool is nobody's and clean.
LEMMA TopOfPool ==
  ASSUME CallsInv, zpool # <<>>, Pops
  PROVE  LET k == Last(zpool)
         IN  /\ k \in ClientConn /\ zconn[k].life \in {"open", "dead"} /\ ~(k > zopened)
             /\ Clean(k) /\ \A d \in ClientCall : ~Has(d, k)
             /\ zpool' \in Seq(ClientConn) /\ Len(zpool') <= PoolCap
             /\ \A i \in DOMAIN zpool' : i \in DOMAIN zpool /\ zpool'[i] = zpool[i] /\ zpool[i] # k
<1> DEFINE n == Len(zpool)
           k == Last(zpool)
<1>1. zpool \in Seq(ClientConn) /\ n \in Nat \ {0} /\ n \in DOMAIN zpool /\ k = zpool[n]
  <2>1. zpool \in Seq(ClientConn)
    BY DEF CallsInv, CallTypes
  <2> QED
    BY <2>1 DEF Last
<1>2. /\ zpool' \in Seq(ClientConn) /\ Len(zpool') = n - 1
      /\ \A i \in 1..(n - 1) : zpool'[i] = zpool[i]
  <2>1. zpool' = SubSeq(zpool, 1, n - 1) /\ \A i \in 1..(n - 1) : zpool[i] \in ClientConn
    BY <1>1 DEF Pops
  <2> HIDE DEF n
  <2>2. n \in Nat \ {0}
    BY <1>1
  <2> QED
    BY <2>1, <2>2, SubSeqProperties
<1>3. DOMAIN zpool' = 1..(n - 1) /\ DOMAIN zpool = 1..n
  BY <1>1, <1>2
<1>4. /\ k \in ClientConn /\ zconn[k].life \in {"open", "dead"} /\ Clean(k)
      /\ \A d \in ClientCall : ~Has(d, k)
      /\ \A i \in DOMAIN zpool : zpool[i] = k => i = n
  BY <1>1 DEF CallsInv, WarmKept, CallTypes
<1>5. ~(k > zopened)
  BY <1>4 DEF CallsInv, LinksKept, LinkKept
<1>6. \A i \in DOMAIN zpool' : i \in DOMAIN zpool /\ zpool'[i] = zpool[i] /\ zpool[i] # k
  BY <1>1, <1>2, <1>3, <1>4
<1>7. Len(zpool') <= PoolCap
  BY <1>1, <1>2, ClientAssumption DEF CallsInv, CallTypes
<1> QED
  BY <1>2, <1>4, <1>5, <1>6, <1>7

LEMMA CallsInvInit == ZcInit => CallsInv
<1> SUFFICES ASSUME ZcInit PROVE CallsInv
  OBVIOUS
<1>1. /\ \A k \in ClientConn : zconn[k] = [life |-> "none", up |-> <<>>, down |-> <<>>]
      /\ zpool = <<>> /\ zopened = 0 /\ died = {} /\ \A c \in ClientCall : served[c] = 0
      /\ \A c \in ClientCall : /\ zcall[c].pc \in {"borrow", "done"} /\ zcall[c].res = "?"
  BY DEF ZcInit
<1>2. CallTypes
  <2>1. PICK streams \in BOOLEAN :
          zcall = [c \in ClientCall |-> [pc |-> IF streams THEN "done" ELSE "borrow",
                                         attempt |-> 0, k |-> 0, out |-> 0, res |-> "?"]]
    BY DEF ZcInit
  <2>2. zcall \in [ClientCall -> Request]
    BY <2>1, ClientAssumption DEF Request
  <2>3. zconn \in [ClientConn -> Link]
    <3>1. [life |-> "none", up |-> <<>>, down |-> <<>>] \in Link
      BY DEF Link
    <3> QED
      BY <3>1 DEF ZcInit
  <2>4. served \in [ClientCall -> Nat]
    BY DEF ZcInit
  <2>5. zpool \in Seq(ClientConn) /\ Len(zpool) <= PoolCap /\ zopened \in 0..MaxConn
    BY <1>1, ClientAssumption
  <2> QED
    BY <1>1, <2>2, <2>3, <2>4, <2>5 DEF CallTypes
<1>3. LinksKept
  <2>1. \A k \in ClientConn : k > zopened
    BY <1>1 DEF ClientConn
  <2> QED
    BY <1>1, <2>1 DEF LinksKept, LinkKept
<1>4. WarmKept
  BY <1>1 DEF WarmKept
<1>5. CallsKept
  BY <1>1 DEF CallsKept, CallKept
<1>6. \A c \in ClientCall : ~Asked(c)
  BY <1>1, SingleIs DEF Asked
<1>7. AskedOnce
  <2>1. \A c \in ClientCall, k \in ClientConn : zconn[k].up # <<c>>
    BY <1>6 DEF Asked
  <2> QED
    BY <1>1, <1>6, <2>1 DEF AskedOnce, AskedSo
<1>8. NoForeign
  BY <1>1 DEF NoForeign
<1> QED
  BY <1>2, <1>3, <1>4, <1>5, <1>7, <1>8 DEF CallsInv

\* What a call that drops its connection leaves of it.
LEMMA DropIs ==
  ASSUME CallTypes, NEW k \in ClientConn
  PROVE  LET l == [zconn[k] EXCEPT !.life = "dropped", !.down = <<>>]
         IN  /\ l \in Link /\ Drop(zconn, k) = [zconn EXCEPT ![k] = l]
             /\ l.life = "dropped" /\ l.up = zconn[k].up /\ l.down = <<>>
<1> DEFINE r == zconn[k]
           l == [r EXCEPT !.life = "dropped", !.down = <<>>]
<1>1. r \in Link /\ zconn \in [ClientConn -> Link]
  BY DEF CallTypes
<1>2. Drop(zconn, k) = [zconn EXCEPT ![k] = l]
  BY <1>1 DEF Drop
<1>3. l \in Link
  <2>1. <<>> \in Seq(Frames)
    OBVIOUS
  <2> DEFINE e == <<>>
  <2> HIDE DEF e
  <2>2. [r EXCEPT !.life = "dropped", !.down = e] \in Link
    BY <1>1, <2>1 DEF Link, e
  <2> QED
    BY <2>2 DEF e
<1>4. l.life = "dropped" /\ l.up = r.up /\ l.down = <<>>
  BY <1>1 DEF Link
<1> QED
  BY <1>2, <1>3, <1>4

\* A call takes a connection that is clean and nobody's.
LEMMA TakesClean ==
  ASSUME CallsInv, NEW c \in ClientCall, NEW k \in ClientConn, zcall[c].pc = "borrow",
         zcall' = [zcall EXCEPT ![c].pc = "write", ![c].k = k],
         NEW l \in Link, zconn' = [zconn EXCEPT ![k] = l], l.life \in {"open", "dead"},
         l.up = <<>>, l.down = <<>>, zconn[k].up = <<>>,
         zopened' \in 0..MaxConn, ~(k > zopened'),
         \A m \in ClientConn \ {k} : m > zopened' <=> m > zopened,
         \A d \in ClientCall : ~Has(d, k),
         zpool' \in Seq(ClientConn), Len(zpool') <= PoolCap,
         \A i \in DOMAIN zpool' : i \in DOMAIN zpool /\ zpool'[i] = zpool[i] /\ zpool[i] # k,
         UNCHANGED <<served, died>>
  PROVE  CallsInv'
<1> DEFINE q == [zcall[c] EXCEPT !.pc = "write", !.k = k]
<1>1. /\ q \in Request /\ q.pc = "write" /\ q.k = k /\ q.res # "foreign"
      /\ q.attempt = zcall[c].attempt
      /\ zcall' = [zcall EXCEPT ![c] = q]
  <2>1. zcall[c] \in Request /\ zcall[c].res # "foreign" /\ zcall \in [ClientCall -> Request]
    BY DEF CallsInv, CallTypes, NoForeign
  <2>2. k \in 0..MaxConn
    BY ClientAssumption DEF ClientConn
  <2>3. q \in Request /\ q.pc = "write" /\ q.k = k
    BY <2>1, <2>2 DEF Request
  <2>4. q.res = zcall[c].res /\ q.attempt = zcall[c].attempt
    BY <2>1 DEF Request
  <2>5. zcall' = [zcall EXCEPT ![c] = q]
    BY <2>1
  <2> QED
    BY <2>1, <2>3, <2>4, <2>5
<1> HIDE DEF q
<1>2. /\ CallTypes' /\ zconn'[k] = l /\ zcall'[c] = q
      /\ \A m \in ClientConn \ {k} : zconn'[m] = zconn[m]
      /\ \A d \in ClientCall \ {c} : zcall'[d] = zcall[d]
  <2>1. CallTypes /\ served' \in [ClientCall -> Nat] /\ died' \subseteq ClientCall
    BY DEF CallsInv, CallTypes
  <2>2. zconn' = [zconn EXCEPT ![k] = l] /\ l \in Link /\ zconn \in [ClientConn -> Link]
    BY <2>1 DEF CallTypes
  <2>3. zcall' = [zcall EXCEPT ![c] = q] /\ q \in Request /\ zcall \in [ClientCall -> Request]
    BY <1>1, <2>1 DEF CallTypes
  <2>4. zconn' \in [ClientConn -> Link] /\ zconn'[k] = l
    BY <2>2
  <2>5. zcall' \in [ClientCall -> Request] /\ zcall'[c] = q
    BY <2>3
  <2>6. /\ \A m \in ClientConn \ {k} : zconn'[m] = zconn[m]
        /\ \A d \in ClientCall \ {c} : zcall'[d] = zcall[d]
    BY <2>2, <2>3
  <2> QED
    BY <2>1, <2>4, <2>5, <2>6 DEF CallTypes
<1>3. \A m \in ClientConn : Has(c, m)' => m = k
  BY <1>1, <1>2 DEF Has
<1>4. WarmKept'
  BY <1>2, <1>3, WarmStays
<1>5. LinkKept(k)'
  BY <1>2 DEF LinkKept
<1>6. \A d \in ClientCall : Has(d, k)' => d = c
  BY <1>2 DEF Has
<1>7. CallKept(c)'
  BY <1>1, <1>2, <1>6 DEF CallKept, Clean
<1>8. AskedSo(c)'
  <2>1. AskedSo(c) /\ (Excused(c)' <=> Excused(c))
    BY <1>1, <1>2 DEF CallsInv, AskedOnce, Excused
  <2>2. \A m \in ClientConn : zconn'[m].up = zconn[m].up
    BY <1>2
  <2>3. Asked(c)' <=> Asked(c)
    BY <2>2 DEF Asked
  <2> QED
    BY <1>1, <1>2, <2>1, <2>2, <2>3 DEF AskedSo
<1>9. \A m \in ClientConn : Has(c, m) => m = k
  BY DEF Has
<1>10. /\ \A m \in ClientConn \ {k} : zconn'[m] = zconn[m] /\ (m > zopened' <=> m > zopened)
       /\ \A d \in ClientCall \ {c} : /\ zcall'[d] = zcall[d] /\ served'[d] = served[d]
                                     /\ ~Has(d, k)
       /\ died \subseteq died' /\ zconn'[k].up = zconn[k].up /\ zcall'[c].res # "foreign"
  BY <1>1, <1>2
<1> QED
  BY <1>2, <1>3, <1>4, <1>5, <1>7, <1>8, <1>9, <1>10, OnlyTouches

LEMMA BorrowHotStep == ASSUME CallsInv, NEW c \in ClientCall, BorrowHot(c) PROVE CallsInv'
<1> DEFINE k == Last(zpool)
<1>1. zpool # <<>> /\ Pops /\ UNCHANGED <<zconn, zopened, served, died>>
  BY DEF BorrowHot
<1>2. /\ k \in ClientConn /\ zconn[k].life \in {"open", "dead"} /\ ~(k > zopened)
      /\ zconn[k].up = <<>> /\ zconn[k].down = <<>> /\ \A d \in ClientCall : ~Has(d, k)
      /\ zpool' \in Seq(ClientConn) /\ Len(zpool') <= PoolCap
      /\ \A i \in DOMAIN zpool' : i \in DOMAIN zpool /\ zpool'[i] = zpool[i] /\ zpool[i] # k
  BY <1>1, TopOfPool DEF Clean
<1>3. zcall[c].pc = "borrow" /\ zcall' = [zcall EXCEPT ![c].pc = "write", ![c].k = k]
  BY DEF BorrowHot
<1>4. /\ zconn[k] \in Link /\ zconn' = [zconn EXCEPT ![k] = zconn[k]] /\ zopened' \in 0..MaxConn
  BY <1>1, <1>2 DEF CallsInv, CallTypes
<1> HIDE DEF k
<1> QED
  BY <1>1, <1>2, <1>3, <1>4, TakesClean

\* A call drops its connection, or one it borrowed, and goes on without it or ends.
LEMMA LetsGo ==
  ASSUME CallsInv, NEW c \in ClientCall, NEW k \in ClientConn, ~(k > zopened), zopened' = zopened,
         NEW l \in Link, zconn' = [zconn EXCEPT ![k] = l],
         l.life = "dropped", l.up = zconn[k].up, l.down = <<>>,
         NEW q \in Request, zcall' = [zcall EXCEPT ![c] = q], q.pc \in {"borrow", "done"},
         q.res # "foreign",
         \A d \in ClientCall \ {c} : ~Has(d, k), \A m \in ClientConn : Has(c, m) => m = k,
         zpool' \in Seq(ClientConn), Len(zpool') <= PoolCap,
         \A i \in DOMAIN zpool' : i \in DOMAIN zpool /\ zpool'[i] = zpool[i] /\ zpool[i] # k,
         died \subseteq died', died' \subseteq ClientCall, served' = served, AskedSo(c)'
  PROVE  CallsInv'
<1>1. /\ CallTypes' /\ zconn'[k] = l /\ zcall'[c] = q
      /\ \A m \in ClientConn \ {k} : zconn'[m] = zconn[m]
      /\ \A d \in ClientCall \ {c} : zcall'[d] = zcall[d]
  <2>1. CallTypes /\ zconn \in [ClientConn -> Link] /\ zcall \in [ClientCall -> Request]
    BY DEF CallsInv, CallTypes
  <2>2. /\ zconn' \in [ClientConn -> Link] /\ zconn'[k] = l
        /\ \A m \in ClientConn \ {k} : zconn'[m] = zconn[m]
    BY <2>1
  <2>3. /\ zcall' \in [ClientCall -> Request] /\ zcall'[c] = q
        /\ \A d \in ClientCall \ {c} : zcall'[d] = zcall[d]
    BY <2>1
  <2> QED
    BY <2>1, <2>2, <2>3 DEF CallTypes
<1>2. \A m \in ClientConn : ~Has(c, m)'
  BY <1>1 DEF Has
<1>3. WarmKept'
  BY <1>1, <1>2, WarmStays
<1>4. LinkKept(k)'
  BY <1>1 DEF CallsInv, LinksKept, LinkKept
<1>5. CallKept(c)'
  BY <1>1 DEF CallKept
<1>6. /\ \A m \in ClientConn \ {k} : zconn'[m] = zconn[m] /\ (m > zopened' <=> m > zopened)
      /\ \A d \in ClientCall \ {c} : /\ zcall'[d] = zcall[d] /\ served'[d] = served[d]
                                     /\ ~Has(d, k)
      /\ zconn'[k].up = zconn[k].up /\ zcall'[c].res # "foreign"
      /\ \A m \in ClientConn : Has(c, m)' => m = k
  BY <1>1, <1>2
<1> QED
  BY <1>1, <1>3, <1>4, <1>5, <1>6, OnlyTouches

LEMMA BorrowProbedStep == ASSUME CallsInv, NEW c \in ClientCall, BorrowProbed(c) PROVE CallsInv'
<1> DEFINE k == Last(zpool)
<1>1. zcall[c].pc = "borrow" /\ zpool # <<>> /\ Pops /\ UNCHANGED <<zopened, served, died>>
  BY DEF BorrowProbed
<1>2. /\ k \in ClientConn /\ zconn[k].life \in {"open", "dead"} /\ ~(k > zopened)
      /\ zconn[k].up = <<>> /\ zconn[k].down = <<>> /\ \A d \in ClientCall : ~Has(d, k)
      /\ zpool' \in Seq(ClientConn) /\ Len(zpool') <= PoolCap
      /\ \A i \in DOMAIN zpool' : i \in DOMAIN zpool /\ zpool'[i] = zpool[i] /\ zpool[i] # k
  BY <1>1, TopOfPool DEF Clean
<1>3. CASE zcall' = [zcall EXCEPT ![c].pc = "write", ![c].k = k] /\ UNCHANGED zconn
  <2>1. /\ zconn[k] \in Link /\ zconn' = [zconn EXCEPT ![k] = zconn[k]] /\ zopened' \in 0..MaxConn
    BY <1>1, <1>2, <1>3 DEF CallsInv, CallTypes
  <2> HIDE DEF k
  <2> QED
    BY <1>1, <1>2, <1>3, <2>1, TakesClean
<1>4. CASE zconn' = Drop(zconn, k) /\ UNCHANGED zcall
  <2> DEFINE l == [zconn[k] EXCEPT !.life = "dropped", !.down = <<>>]
  <2>1. /\ l \in Link /\ zconn' = [zconn EXCEPT ![k] = l]
        /\ l.life = "dropped" /\ l.up = zconn[k].up /\ l.down = <<>>
    BY <1>2, <1>4, DropIs DEF CallsInv
  <2> HIDE DEF l, k
  <2>2. zcall[c] \in Request /\ zcall' = [zcall EXCEPT ![c] = zcall[c]] /\ zcall[c].res # "foreign"
    BY <1>4 DEF CallsInv, CallTypes, NoForeign
  <2>3. \A m \in ClientConn : zconn'[m].up = zconn[m].up
    BY <1>2, <2>1 DEF CallsInv, CallTypes
  <2>4. AskedSo(c)'
    BY <1>1, <1>4, <2>3 DEF CallsInv, AskedOnce, AskedSo, Asked, Excused
  <2>5. \A m \in ClientConn : Has(c, m) => m = k
    BY <1>1 DEF Has
  <2>6. zcall[c].pc \in {"borrow", "done"} /\ died' \subseteq ClientCall /\ died \subseteq died'
    BY <1>1 DEF CallsInv, CallTypes
  <2> QED
    BY <1>1, <1>2, <2>1, <2>2, <2>4, <2>5, <2>6, LetsGo
<1> QED
  BY <1>3, <1>4 DEF BorrowProbed

LEMMA ConnectsStep == ASSUME CallsInv, NEW c \in ClientCall, Connects(c) PROVE CallsInv'
<1>1. zcall[c].pc = "borrow" /\ zpool = <<>> /\ UNCHANGED <<zpool, served, died>>
  BY DEF Connects
<1>2. CASE /\ zopened < MaxConn /\ zopened' = zopened + 1
           /\ zconn' = [zconn EXCEPT ![zopened'].life = "open"]
           /\ zcall' = [zcall EXCEPT ![c].pc = "write", ![c].k = zopened']
  <2> DEFINE k == zopened'
             l == [zconn[k] EXCEPT !.life = "open"]
  <2>1. zopened \in Nat /\ MaxConn \in Nat /\ k = zopened + 1 /\ zopened < MaxConn
    BY <1>2, ClientAssumption DEF CallsInv, CallTypes
  <2>2. k \in ClientConn /\ k \in 0..MaxConn /\ ~(k > k) /\ k > zopened
    BY <2>1 DEF ClientConn
  <2>3. \A m \in ClientConn \ {k} : m > k <=> m > zopened
    BY <2>1 DEF ClientConn
  <2>4. zconn[k].life = "none" /\ zconn[k].up = <<>> /\ zconn[k].down = <<>>
    <3>1. LinkKept(k)
      BY <2>2 DEF CallsInv, LinksKept
    <3> HIDE DEF k
    <3> QED
      BY <2>2, <3>1 DEF LinkKept
  <2>5. \A d \in ClientCall : ~Has(d, k)
    <3> HIDE DEF k
    <3> QED
      BY <2>4 DEF CallsInv, CallsKept, CallKept, Has
  <2>6. zconn[k] \in Link /\ zconn \in [ClientConn -> Link]
    BY <2>2 DEF CallsInv, CallTypes
  <2>7. l \in Link /\ l.life = "open" /\ l.up = <<>> /\ l.down = <<>>
    <3> DEFINE r == zconn[k]
    <3>1. r \in Link /\ r.up = <<>> /\ r.down = <<>>
      BY <2>4, <2>6
    <3> HIDE DEF r
    <3>2. [r EXCEPT !.life = "open"] \in Link /\ [r EXCEPT !.life = "open"].life = "open"
          /\ [r EXCEPT !.life = "open"].up = r.up /\ [r EXCEPT !.life = "open"].down = r.down
      BY <3>1 DEF Link
    <3> QED
      BY <3>1, <3>2 DEF r
  <2>8. zconn' = [zconn EXCEPT ![k] = l]
    BY <1>2, <2>6
  <2>9. /\ zpool' \in Seq(ClientConn) /\ Len(zpool') <= PoolCap
        /\ \A i \in DOMAIN zpool' : i \in DOMAIN zpool /\ zpool'[i] = zpool[i] /\ zpool[i] # k
    BY <1>1 DEF CallsInv, CallTypes
  <2>10. zcall' = [zcall EXCEPT ![c].pc = "write", ![c].k = k]
    BY <1>2
  <2> HIDE DEF l
  <2> QED
    BY <1>1, <2>2, <2>3, <2>4, <2>5, <2>7, <2>8, <2>9, <2>10, TakesClean
<1>3. CASE AnswerCall(c, "error") /\ UNCHANGED <<zconn, zopened>>
  <2>1. zcall[c] \in Request /\ zcall \in [ClientCall -> Request]
    BY DEF CallsInv, CallTypes
  <2> DEFINE q == [zcall[c] EXCEPT !.pc = "done", !.res = "error"]
  <2>2. q \in Request /\ q.pc = "done" /\ q.attempt = zcall[c].attempt /\ q.res = "error"
    BY <2>1 DEF Request
  <2>3. zcall' = [zcall EXCEPT ![c] = q]
    BY <1>3, <2>1 DEF AnswerCall
  <2> HIDE DEF q
  <2>4. /\ zcall' \in [ClientCall -> Request] /\ zcall'[c] = q
        /\ \A d \in ClientCall \ {c} : zcall'[d] = zcall[d]
    BY <2>1, <2>2, <2>3
  <2>5. \A d \in ClientCall, m \in ClientConn : Has(d, m)' <=> Has(d, m)
    BY <1>1, <2>2, <2>4 DEF Has
  <2>6. CallTypes'
    BY <1>1, <1>3, <2>4 DEF CallsInv, CallTypes
  <2>7. LinksKept' /\ WarmKept'
    BY <1>1, <1>3, <2>5 DEF CallsInv, LinksKept, LinkKept, WarmKept, Clean
  <2>8. CallsKept'
    <3>1. ASSUME NEW d \in ClientCall, zcall'[d].pc \in {"write", "read"} PROVE CallKept(d)'
      <4>1. d # c /\ zcall'[d] = zcall[d] /\ zcall[d].k \in ClientConn
        BY <2>2, <2>4, <3>1 DEF CallsInv, CallsKept, CallKept
      <4>2. \A e \in ClientCall : Has(e, zcall[d].k)' => e = d
        BY <2>5, <3>1, <4>1 DEF CallsInv, CallsKept, CallKept
      <4> QED
        BY <1>3, <3>1, <4>1, <4>2 DEF CallsInv, CallsKept, CallKept, Clean, Awaits, Has
    <3> QED
      BY <3>1 DEF CallsKept, CallKept
  <2>9. AskedOnce'
    <3>1. ASSUME NEW d \in ClientCall PROVE AskedSo(d)'
      <4>1. AskedSo(d) /\ (Asked(d)' <=> Asked(d)) /\ zcall'[d].attempt = zcall[d].attempt
            /\ (zcall'[d].pc \in {"borrow", "write", "read"} => zcall'[d] = zcall[d])
        BY <1>3, <2>2, <2>4 DEF CallsInv, AskedOnce, Asked
      <4> QED
        BY <1>1, <1>3, <4>1 DEF AskedSo, Excused
    <3> QED
      BY <3>1 DEF AskedOnce
  <2>10. NoForeign'
    BY <2>2, <2>4 DEF CallsInv, NoForeign
  <2> QED
    BY <2>6, <2>7, <2>8, <2>9, <2>10 DEF CallsInv
<1> QED
  BY <1>2, <1>3 DEF Connects

\* A call ends, or asks again, and drops its connection.
LEMMA CallerLeaves ==
  ASSUME CallsInv, NEW c \in ClientCall, zcall[c].pc \in {"write", "read"},
         zconn' = Drop(zconn, zcall[c].k),
         NEW q \in Request, zcall' = [zcall EXCEPT ![c] = q], q.res # "foreign",
         \/ q.pc = "done" /\ q.attempt = zcall[c].attempt
         \/ /\ q.pc = "borrow" /\ q.attempt = 1 /\ ~Asked(c) /\ served[c] < 2
            /\ served[c] = 1 => c \in Control /\ c \in died',
         died' \in {died, died \cup {c}}, UNCHANGED <<zpool, zopened, served>>
  PROVE  CallsInv'
<1> DEFINE k == zcall[c].k
           l == [zconn[k] EXCEPT !.life = "dropped", !.down = <<>>]
<1>1. /\ k \in ClientConn /\ zconn[k].life \in {"open", "dead"} /\ ~(k > zopened)
      /\ \A d \in ClientCall \ {c} : ~Has(d, k)
      /\ \A m \in ClientConn : Has(c, m) => m = k
      /\ \A i \in DOMAIN zpool : zpool[i] # k
  BY MyConnection
<1>2. /\ l \in Link /\ zconn' = [zconn EXCEPT ![k] = l]
      /\ l.life = "dropped" /\ l.up = zconn[k].up /\ l.down = <<>>
  BY <1>1, DropIs DEF CallsInv
<1> HIDE DEF k, l
<1>3. \A m \in ClientConn : zconn'[m].up = zconn[m].up
  BY <1>1, <1>2 DEF CallsInv, CallTypes
<1>4. Asked(c)' <=> Asked(c)
  BY <1>3 DEF Asked
<1>5. zcall'[c] = q /\ died \subseteq died' /\ died' \subseteq ClientCall
  BY DEF CallsInv, CallTypes
<1>6. Excused(c) => Excused(c)'
  BY <1>5 DEF Excused
<1>7. AskedSo(c)
  BY DEF CallsInv, AskedOnce
<1>8. q.pc = "borrow" => ~Asked(c) /\ served[c] < 2 /\ (served[c] = 1 => Excused(c)')
  BY <1>5 DEF Excused
<1>9. AskedSo(c)'
  BY <1>3, <1>4, <1>5, <1>6, <1>7, <1>8 DEF AskedSo
<1>10. /\ zpool' \in Seq(ClientConn) /\ Len(zpool') <= PoolCap
       /\ \A i \in DOMAIN zpool' : i \in DOMAIN zpool /\ zpool'[i] = zpool[i] /\ zpool[i] # k
  BY <1>1 DEF CallsInv, CallTypes
<1>11. q.pc \in {"borrow", "done"} /\ zopened' = zopened /\ served' = served
  OBVIOUS
<1> QED
  BY <1>1, <1>2, <1>5, <1>9, <1>10, <1>11, LetsGo

LEMMA AnswerIs ==
  ASSUME CallsInv, NEW c \in ClientCall, NEW res \in {"error", "Ack", "Error", "Exit"},
         AnswerCall(c, res)
  PROVE  \E q \in Request : /\ zcall' = [zcall EXCEPT ![c] = q]
                            /\ q.pc = "done" /\ q.attempt = zcall[c].attempt /\ q.res = res
<1> DEFINE q == [zcall[c] EXCEPT !.pc = "done", !.res = res]
<1>1. zcall[c] \in Request /\ zcall \in [ClientCall -> Request]
  BY DEF CallsInv, CallTypes
<1>2. q \in Request /\ q.pc = "done" /\ q.attempt = zcall[c].attempt /\ q.res = res
  BY <1>1 DEF Request
<1>3. zcall' = [zcall EXCEPT ![c] = q]
  BY <1>1 DEF AnswerCall
<1> HIDE DEF q
<1> QED
  BY <1>2, <1>3

LEMMA AgainIs ==
  ASSUME CallsInv, NEW c \in ClientCall, Again(c)
  PROVE  \E q \in Request : /\ zcall' = [zcall EXCEPT ![c] = q] /\ q.res # "foreign"
                            /\ \/ q.pc = "done" /\ q.attempt = zcall[c].attempt
                               \/ q.pc = "borrow" /\ q.attempt = 1 /\ zcall[c].attempt = 0
<1>1. CASE zcall[c].attempt = 1
  <2>1. AnswerCall(c, "error")
    BY <1>1 DEF Again
  <2> QED
    BY <2>1, AnswerIs
<1>2. CASE zcall[c].attempt # 1
  <2> DEFINE q == [zcall[c] EXCEPT !.pc = "borrow", !.attempt = 1]
  <2>1. zcall[c] \in Request /\ zcall \in [ClientCall -> Request] /\ zcall[c].res # "foreign"
    BY DEF CallsInv, CallTypes, NoForeign
  <2>2. q \in Request /\ q.pc = "borrow" /\ q.attempt = 1 /\ q.res = zcall[c].res
    BY <2>1 DEF Request
  <2>3. zcall[c].attempt = 0
    BY <1>2, <2>1 DEF Request
  <2>4. zcall' = [zcall EXCEPT ![c] = q]
    BY <1>2, <2>1 DEF Again
  <2> HIDE DEF q
  <2> QED
    BY <2>1, <2>2, <2>3, <2>4
<1> QED
  BY <1>1, <1>2

\* A step of a call on a connection it keeps.
LEMMA KeepsOn ==
  ASSUME CallsInv, NEW c \in ClientCall, NEW k \in ClientConn, k = zcall[c].k,
         zcall[c].pc \in {"write", "read"},
         NEW l \in Link, zconn' = [zconn EXCEPT ![k] = l],
         NEW q \in Request, zcall' = [zcall EXCEPT ![c] = q], q.k = k, q.pc = "read",
         q.res = zcall[c].res, q.attempt = zcall[c].attempt, l.life = zconn[k].life,
         \/ l.up = zconn[k].up
         \/ l.up = <<c>> /\ zconn[k].up = <<>> /\ zcall[c].pc = "write" /\ l.life = "open",
         Awaits(k, c)', UNCHANGED <<zpool, zopened, served, died>>
  PROVE  CallsInv'
<1>1. /\ k \in ClientConn /\ zconn[k].life \in {"open", "dead"} /\ ~(k > zopened)
      /\ \A d \in ClientCall \ {c} : ~Has(d, k)
      /\ \A m \in ClientConn : Has(c, m) => m = k
      /\ \A i \in DOMAIN zpool : zpool[i] # k
  BY MyConnection
<1>3. CallTypes /\ zconn \in [ClientConn -> Link] /\ zcall \in [ClientCall -> Request]
  BY DEF CallsInv, CallTypes
<1>4. /\ zconn' \in [ClientConn -> Link] /\ zconn'[k] = l
      /\ \A m \in ClientConn \ {k} : zconn'[m] = zconn[m]
  BY <1>1, <1>3
<1>5. /\ zcall' \in [ClientCall -> Request] /\ zcall'[c] = q
      /\ \A d \in ClientCall \ {c} : zcall'[d] = zcall[d]
  BY <1>3
<1>6. CallTypes'
  BY <1>3, <1>4, <1>5 DEF CallTypes
<1>7. \A m \in ClientConn : Has(c, m)' => m = k
  BY <1>5 DEF Has
<1>8. WarmKept'
  BY <1>1, <1>4, <1>5, <1>7, WarmStays
<1>9. \A d \in ClientCall : Has(d, k)' => d = c
  BY <1>1, <1>5 DEF Has
<1>10. Has(c, k)'
  BY <1>5 DEF Has
<1>11. LinkKept(k)'
  BY <1>1, <1>4, <1>10 DEF CallsInv, LinksKept, LinkKept
<1>12. CallKept(c)'
  BY <1>1, <1>4, <1>5, <1>9 DEF CallKept
<1>13. AskedSo(c) /\ (Excused(c)' <=> Excused(c))
  BY <1>5 DEF CallsInv, AskedOnce, Excused
<1>14. AskedSo(c)'
  <2>1. CASE l.up = zconn[k].up
    <3>1. \A m \in ClientConn : zconn'[m].up = zconn[m].up
      BY <1>4, <2>1
    <3>2. Asked(c)' <=> Asked(c)
      BY <3>1 DEF Asked
    <3>3. \A m \in ClientConn : zconn[m].up = <<c>> => m = k
      <4>1. zcall[c].pc = "write" => ~Asked(c)
        BY <1>13 DEF AskedSo
      <4> QED
        BY <1>13, <4>1 DEF AskedSo, Asked
    <3> QED
      BY <1>5, <1>13, <3>1, <3>2, <3>3 DEF AskedSo
  <2>2. CASE l.up = <<c>> /\ zcall[c].pc = "write"
    <3>1. ~Asked(c) /\ served[c] < 2 /\ (served[c] = 1 => Excused(c))
      BY <1>13, <2>2 DEF AskedSo
    <3>2. \A m \in ClientConn : zconn'[m].up = <<c>> => m = k
      BY <1>4, <3>1 DEF Asked
    <3> QED
      BY <1>5, <1>13, <3>1, <3>2 DEF AskedSo
  <2> QED
    BY <2>1, <2>2
<1>15. /\ \A m \in ClientConn \ {k} : zconn'[m] = zconn[m] /\ (m > zopened' <=> m > zopened)
       /\ \A d \in ClientCall \ {c} : /\ zcall'[d] = zcall[d] /\ served'[d] = served[d]
                                      /\ ~Has(d, k)
       /\ \/ zconn'[k].up = zconn[k].up
          \/ zconn[k].up \in {<<>>, <<c>>} /\ zconn'[k].up \in {<<>>, <<c>>}
       /\ died \subseteq died' /\ zcall'[c].res # "foreign"
  BY <1>1, <1>4, <1>5 DEF CallsInv, NoForeign
<1> QED
  BY <1>1, <1>6, <1>7, <1>8, <1>11, <1>12, <1>14, <1>15, OnlyTouches

LEMMA WritesStep == ASSUME CallsInv, NEW c \in ClientCall, Writes(c) PROVE CallsInv'
<1>1. PICK k \in ClientConn : k = zcall[c].k
  BY MyConnection DEF Writes
<1>2. zcall[c].pc = "write" /\ UNCHANGED <<zpool, zopened, served, died>>
  BY DEF Writes
<1>3. zconn[k].up = <<>> /\ zconn[k].down = <<>>
  BY <1>1, <1>2 DEF CallsInv, CallsKept, CallKept, Clean
<1>4. zconn[k] \in Link /\ zcall[c] \in Request /\ zconn \in [ClientConn -> Link]
      /\ zcall \in [ClientCall -> Request]
  BY DEF CallsInv, CallTypes
<1>5. CASE /\ zconn[k].life = "open" /\ zconn' = [zconn EXCEPT ![k].up = Append(@, c)]
           /\ zcall' = [zcall EXCEPT ![c].pc = "read"]
  <2> DEFINE u == Append(zconn[k].up, c)
             l == [zconn[k] EXCEPT !.up = u]
             q == [zcall[c] EXCEPT !.pc = "read"]
  <2>1. u = <<c>> /\ u \in Seq(ClientCall)
    BY <1>3, SingleIs
  <2>2. zconn' = [zconn EXCEPT ![k] = l]
    BY <1>4, <1>5
  <2>3. zcall' = [zcall EXCEPT ![c] = q]
    BY <1>4, <1>5
  <2> HIDE DEF u
  <2>4. l \in Link /\ l.up = u /\ l.life = "open" /\ l.down = <<>>
    BY <1>3, <1>4, <1>5, <2>1 DEF Link
  <2>5. /\ q \in Request /\ q.pc = "read" /\ q.k = k /\ q.res = zcall[c].res
        /\ q.attempt = zcall[c].attempt
    BY <1>1, <1>4 DEF Request
  <2> HIDE DEF l, q
  <2>6. zconn'[k] = l
    BY <1>4, <2>2
  <2>7. Awaits(k, c)'
    BY <2>1, <2>4, <2>6 DEF Awaits
  <2>8. /\ l \in Link /\ l.life = zconn[k].life /\ l.life = "open"
        /\ l.up = <<c>> /\ zconn[k].up = <<>>
    BY <1>3, <1>5, <2>1, <2>4
  <2>9. zcall[c].pc \in {"write", "read"} /\ UNCHANGED <<zpool, zopened, served, died>>
    BY <1>2
  <2> QED
    BY <1>1, <1>2, <2>2, <2>3, <2>5, <2>7, <2>8, <2>9, KeepsOn
<1>6. CASE Again(c) /\ zconn' = Drop(zconn, k)
  <2>1. PICK q \in Request : /\ zcall' = [zcall EXCEPT ![c] = q] /\ q.res # "foreign"
                             /\ \/ q.pc = "done" /\ q.attempt = zcall[c].attempt
                                \/ q.pc = "borrow" /\ q.attempt = 1 /\ zcall[c].attempt = 0
    BY <1>6, AgainIs
  <2>2. ~Asked(c) /\ served[c] < 2 /\ (served[c] = 1 => c \in Control /\ c \in died)
    BY <1>2 DEF CallsInv, AskedOnce, AskedSo, Excused
  <2> QED
    BY <1>1, <1>2, <1>6, <2>1, <2>2, CallerLeaves
<1> QED
  BY <1>1, <1>5, <1>6 DEF Writes

LEMMA ReadFailsStep == ASSUME CallsInv, NEW c \in ClientCall, ReadFails(c) PROVE CallsInv'
<1>1. PICK k \in ClientConn : k = zcall[c].k
  BY MyConnection DEF ReadFails
<1>2. /\ zcall[c].pc = "read" /\ zconn' = Drop(zconn, k) /\ UNCHANGED <<zpool, zopened, served>>
      /\ died' = IF zconn[k].life = "dead" THEN died \cup {c} ELSE died
  BY <1>1 DEF ReadFails
<1>3. CASE c \in Control /\ zconn[k].life = "dead"
  <2>1. Again(c)
    BY <1>1, <1>3 DEF ReadFails, Retryable
  <2>2. PICK q \in Request : /\ zcall' = [zcall EXCEPT ![c] = q] /\ q.res # "foreign"
                             /\ \/ q.pc = "done" /\ q.attempt = zcall[c].attempt
                                \/ q.pc = "borrow" /\ q.attempt = 1 /\ zcall[c].attempt = 0
    BY <2>1, AgainIs
  <2>3. zconn[k].up = <<>>
    BY <1>3 DEF CallsInv, LinksKept, LinkKept
  <2>4. AskedSo(c)
    BY DEF CallsInv, AskedOnce
  <2>5. ~Asked(c)
    BY <1>1, <1>2, <2>3, <2>4, SingleIs DEF AskedSo, Asked
  <2>6. zcall[c].attempt = 0 => served[c] < 2
    BY <2>4 DEF AskedSo, Excused
  <2>7. c \in died' /\ died' \in {died, died \cup {c}}
    BY <1>2, <1>3
  <2> QED
    BY <1>1, <1>2, <1>3, <2>2, <2>5, <2>6, <2>7, CallerLeaves
<1>4. CASE ~(c \in Control /\ zconn[k].life = "dead")
  <2>1. AnswerCall(c, "error")
    BY <1>1, <1>4 DEF ReadFails, Retryable
  <2>2. PICK q \in Request : /\ zcall' = [zcall EXCEPT ![c] = q]
                             /\ q.pc = "done" /\ q.attempt = zcall[c].attempt /\ q.res = "error"
    BY <2>1, AnswerIs
  <2> QED
    BY <1>1, <1>2, <2>2, CallerLeaves
<1> QED
  BY <1>3, <1>4

\* A connection goes back to the pool after a whole exchange.
LEMMA GoesBack ==
  ASSUME CallsInv, NEW c \in ClientCall, NEW k \in ClientConn, k = zcall[c].k,
         zcall[c].pc = "read", Len(zpool) < PoolCap, zpool' = Append(zpool, k),
         NEW l \in Link, zconn' = [zconn EXCEPT ![k] = l], l.life = zconn[k].life,
         l.up = <<>>, zconn[k].up = <<>>, l.down = <<>>,
         NEW q \in Request, zcall' = [zcall EXCEPT ![c] = q], q.pc = "done",
         q.attempt = zcall[c].attempt, q.res # "foreign", UNCHANGED <<zopened, served, died>>
  PROVE  CallsInv'
<1>1. /\ zconn[k].life \in {"open", "dead"} /\ ~(k > zopened)
      /\ \A d \in ClientCall \ {c} : ~Has(d, k)
      /\ \A m \in ClientConn : Has(c, m) => m = k
      /\ \A i \in DOMAIN zpool : zpool[i] # k
  BY MyConnection
<1>2. /\ CallTypes /\ zconn \in [ClientConn -> Link] /\ zcall \in [ClientCall -> Request]
      /\ zpool \in Seq(ClientConn)
  BY DEF CallsInv, CallTypes
<1>3. /\ zconn' \in [ClientConn -> Link] /\ zconn'[k] = l
      /\ \A m \in ClientConn \ {k} : zconn'[m] = zconn[m]
  BY <1>2
<1>4. /\ zcall' \in [ClientCall -> Request] /\ zcall'[c] = q
      /\ \A d \in ClientCall \ {c} : zcall'[d] = zcall[d]
  BY <1>2
<1>5. /\ zpool' \in Seq(ClientConn) /\ Len(zpool') = Len(zpool) + 1 /\ Len(zpool) \in Nat
      /\ DOMAIN zpool = 1..Len(zpool) /\ DOMAIN zpool' = 1..(Len(zpool) + 1)
      /\ zpool'[Len(zpool) + 1] = k /\ \A i \in 1..Len(zpool) : zpool'[i] = zpool[i]
  BY <1>2, SeqAppend
<1>6. CallTypes'
  BY <1>2, <1>3, <1>4, <1>5, ClientAssumption DEF CallTypes
<1>7. \A m \in ClientConn : ~Has(c, m)'
  BY <1>4 DEF Has
<1>8. \A m \in ClientConn, d \in ClientCall : Has(d, m)' => Has(d, m) /\ d # c
  BY <1>4, <1>7 DEF Has
<1>9. WarmKept'
  <2>1. ASSUME NEW i \in DOMAIN zpool'
        PROVE  /\ zpool'[i] \in ClientConn /\ zconn'[zpool'[i]].life \in {"open", "dead"}
               /\ zconn'[zpool'[i]].up = <<>> /\ zconn'[zpool'[i]].down = <<>>
               /\ \A j \in DOMAIN zpool' : zpool'[i] = zpool'[j] => i = j
               /\ \A d \in ClientCall : ~Has(d, zpool[i])'
    <3>1. CASE i = Len(zpool) + 1
      <4>1. \A d \in ClientCall : ~Has(d, k)'
        BY <1>1, <1>8
      <4>2. \A d \in ClientCall : ~Has(d, zpool[i])'
        BY <1>5, <3>1, <4>1 DEF Has
      <4>3. \A j \in DOMAIN zpool' : zpool'[i] = zpool'[j] => i = j
        BY <1>1, <1>5, <3>1
      <4> QED
        BY <1>1, <1>3, <1>5, <3>1, <4>2, <4>3
    <3>2. CASE i # Len(zpool) + 1
      <4>1. i \in DOMAIN zpool /\ zpool'[i] = zpool[i] /\ zpool[i] \in ClientConn \ {k}
        BY <1>1, <1>2, <1>5, <3>2
      <4>2. /\ zconn[zpool[i]].life \in {"open", "dead"} /\ Clean(zpool[i])
            /\ \A j \in DOMAIN zpool : zpool[i] = zpool[j] => i = j
            /\ \A d \in ClientCall : ~Has(d, zpool[i])
        BY <4>1 DEF CallsInv, WarmKept
      <4>3. zconn'[zpool'[i]] = zconn[zpool[i]]
        BY <1>3, <4>1
      <4>4. \A d \in ClientCall : ~Has(d, zpool[i])'
        BY <1>4, <1>7, <4>1, <4>2 DEF Has
      <4>5. \A j \in DOMAIN zpool' : zpool'[i] = zpool'[j] => i = j
        BY <1>5, <4>1, <4>2
      <4> QED
        BY <4>1, <4>2, <4>3, <4>4, <4>5 DEF Clean
    <3> QED
      BY <3>1, <3>2
  <2> QED
    BY <2>1 DEF WarmKept, Clean
<1>10. LinkKept(k)'
  BY <1>1, <1>3 DEF LinkKept
<1>11. CallKept(c)'
  BY <1>4 DEF CallKept
<1>12. AskedSo(c)'
  <2>1. \A m \in ClientConn : zconn'[m].up = zconn[m].up
    BY <1>3
  <2>2. Asked(c)' <=> Asked(c)
    BY <2>1 DEF Asked
  <2>3. AskedSo(c) /\ (Excused(c)' <=> Excused(c))
    BY <1>4 DEF CallsInv, AskedOnce, Excused
  <2> QED
    BY <1>4, <2>1, <2>2, <2>3 DEF AskedSo
<1>13. /\ \A m \in ClientConn \ {k} : zconn'[m] = zconn[m] /\ (m > zopened' <=> m > zopened)
       /\ \A d \in ClientCall \ {c} : /\ zcall'[d] = zcall[d] /\ served'[d] = served[d]
                                      /\ ~Has(d, k)
       /\ \A m \in ClientConn : Has(c, m)' => m = k
       /\ died \subseteq died' /\ zcall'[c].res # "foreign" /\ zconn'[k].up = zconn[k].up
  BY <1>1, <1>3, <1>4, <1>7
<1> QED
  BY <1>1, <1>6, <1>9, <1>10, <1>11, <1>12, <1>13, OnlyTouches

LEMMA ReadsStep == ASSUME CallsInv, NEW c \in ClientCall, Reads(c) PROVE CallsInv'
<1>1. PICK k \in ClientConn : k = zcall[c].k
  BY MyConnection DEF Reads
<1> DEFINE f == Head(zconn[k].down)
<1>2. zcall[c].pc = "read" /\ zconn[k].down # <<>> /\ UNCHANGED <<zopened, served, died>>
  BY <1>1 DEF Reads
<1>3. zconn[k] \in Link /\ zcall[c] \in Request /\ zconn \in [ClientConn -> Link]
      /\ zcall \in [ClientCall -> Request] /\ zcall[c].res # "foreign"
  BY DEF CallsInv, CallTypes, NoForeign
<1>4. Awaits(k, c)
  BY <1>1, <1>2 DEF CallsInv, CallsKept, CallKept
<1>5. /\ Tail(zconn[k].down) \in Seq(Frames) /\ f = zconn[k].down[1] /\ f \in Frames
      /\ Len(zconn[k].down) \in Nat \ {0} /\ DOMAIN zconn[k].down = 1..Len(zconn[k].down)
      /\ DOMAIN Tail(zconn[k].down) = 1..(Len(zconn[k].down) - 1)
      /\ Len(Tail(zconn[k].down)) = Len(zconn[k].down) - 1
      /\ \A i \in 1..(Len(zconn[k].down) - 1) : Tail(zconn[k].down)[i] = zconn[k].down[i + 1]
  <2>1. zconn[k].down \in Seq(Frames)
    BY <1>3 DEF Link
  <2> QED
    BY <1>2, <2>1, SeqTail
<1>6. f.id = c /\ (f.kind # "Output" => Len(zconn[k].down) = 1)
  <2>1. 1 \in DOMAIN zconn[k].down /\ f = zconn[k].down[1]
    BY <1>5
  <2> HIDE DEF f
  <2>2. zconn[k].down[1].id = c /\ (zconn[k].down[1].kind # "Output" => 1 = Len(zconn[k].down))
    BY <1>4, <2>1 DEF Awaits
  <2> QED
    BY <2>1, <2>2
<1>7. zconn[k].up = <<>>
  BY <1>2, <1>4 DEF Awaits
<1> DEFINE l == [zconn[k] EXCEPT !.down = Tail(@)]
<1>8. l \in Link /\ l.life = zconn[k].life /\ l.up = zconn[k].up /\ l.down = Tail(zconn[k].down)
  <2> DEFINE r == zconn[k]
             t == Tail(r.down)
  <2>1. r \in Link /\ t \in Seq(Frames)
    BY <1>3, <1>5
  <2> HIDE DEF r, t
  <2>2. /\ [r EXCEPT !.down = t] \in Link /\ [r EXCEPT !.down = t].life = r.life
        /\ [r EXCEPT !.down = t].up = r.up /\ [r EXCEPT !.down = t].down = t
    BY <2>1 DEF Link
  <2>3. l = [r EXCEPT !.down = t]
    BY DEF r, t
  <2> QED
    BY <2>2, <2>3 DEF r, t
<1>9. CASE AnswerCall(c, "error") /\ zconn' = Drop(zconn, k) /\ UNCHANGED zpool
  <2>1. PICK q \in Request : /\ zcall' = [zcall EXCEPT ![c] = q]
                             /\ q.pc = "done" /\ q.attempt = zcall[c].attempt /\ q.res = "error"
    BY <1>9, AnswerIs
  <2> HIDE DEF f, l
  <2> QED
    BY <1>1, <1>2, <1>9, <2>1, CallerLeaves
<1>10. CASE /\ f.kind = "Output" /\ zcall' = [zcall EXCEPT ![c].out = @ + 1]
            /\ zconn' = [zconn EXCEPT ![k].down = Tail(@)] /\ UNCHANGED zpool
  <2> DEFINE q == [zcall[c] EXCEPT !.out = @ + 1]
  <2>1. /\ q \in Request /\ q.pc = "read" /\ q.k = k /\ q.res = zcall[c].res
        /\ q.attempt = zcall[c].attempt
    <3> DEFINE r == zcall[c]
    <3>1. r \in Request /\ r.pc = "read" /\ r.k = k
      BY <1>1, <1>2, <1>3
    <3> HIDE DEF r
    <3>2. [r EXCEPT !.out = @ + 1] \in Request
      BY <3>1 DEF Request
    <3>3. /\ [r EXCEPT !.out = @ + 1].pc = r.pc /\ [r EXCEPT !.out = @ + 1].k = r.k
          /\ [r EXCEPT !.out = @ + 1].res = r.res /\ [r EXCEPT !.out = @ + 1].attempt = r.attempt
      BY <3>1 DEF Request
    <3> QED
      BY <3>1, <3>2, <3>3 DEF r
  <2>2. zcall' = [zcall EXCEPT ![c] = q]
    BY <1>3, <1>10
  <2>3. zconn' = [zconn EXCEPT ![k] = l]
    BY <1>3, <1>10
  <2>4. zconn'[k] = l
    BY <1>3, <2>3
  <2> HIDE DEF q, l, f
  <2>5. Awaits(k, c)'
    <3> DEFINE d == zconn[k].down
               t == Tail(d)
    <3>1. /\ Len(d) \in Nat \ {0} /\ DOMAIN d = 1..Len(d) /\ DOMAIN t = 1..(Len(d) - 1)
          /\ Len(t) = Len(d) - 1 /\ \A i \in 1..(Len(d) - 1) : t[i] = d[i + 1]
      BY <1>5
    <3>2. \A i \in DOMAIN d : d[i].id = c /\ (d[i].kind # "Output" => i = Len(d))
      BY <1>4 DEF Awaits
    <3>3. zconn'[k].up = <<>> /\ zconn'[k].down = t
      BY <1>7, <1>8, <2>4
    <3> HIDE DEF d, t
    <3>4. \A i \in DOMAIN t : i + 1 \in DOMAIN d /\ t[i] = d[i + 1]
      BY <3>1
    <3>5. \A i \in DOMAIN t : t[i].id = c /\ (t[i].kind # "Output" => i = Len(t))
      BY <3>1, <3>2, <3>4
    <3> QED
      BY <3>3, <3>5, SingleIs DEF Awaits
  <2>6. zcall[c].pc \in {"write", "read"} /\ UNCHANGED <<zpool, zopened, served, died>>
    BY <1>2, <1>10
  <2> QED
    BY <1>1, <1>8, <2>1, <2>2, <2>3, <2>5, <2>6, KeepsOn
<1>11. CASE f.kind \in {"Ack", "Exit", "Error"} /\ AnswerCall(c, f.kind) /\ Repays(k)
  <2>1. PICK q \in Request : /\ zcall' = [zcall EXCEPT ![c] = q] /\ q.pc = "done"
                             /\ q.attempt = zcall[c].attempt /\ q.res # "foreign"
    BY <1>11, AnswerIs
  <2>2. l.down = <<>>
    BY <1>3, <1>5, <1>6, <1>8, <1>11 DEF Link
  <2>3. CASE Len(zpool) < PoolCap
    <3>1. zpool' = Append(zpool, k) /\ zconn' = [zconn EXCEPT ![k] = l]
      BY <1>3, <1>11, <2>3 DEF Repays
    <3> HIDE DEF f, l
    <3> QED
      BY <1>1, <1>2, <1>7, <1>8, <2>1, <2>2, <2>3, <3>1, GoesBack
  <2>4. CASE ~(Len(zpool) < PoolCap)
    <3>1. UNCHANGED zpool /\ zconn' = Drop(zconn, k)
      BY <1>11, <2>4 DEF Repays
    <3> HIDE DEF f, l
    <3> QED
      BY <1>1, <1>2, <2>1, <3>1, CallerLeaves
  <2> QED
    BY <2>3, <2>4
<1>12. \/ /\ AnswerCall(c, IF f.id # c THEN "foreign" ELSE "error")
          /\ zconn' = Drop(zconn, k) /\ UNCHANGED zpool
       \/ /\ f.kind = "Output" /\ zcall' = [zcall EXCEPT ![c].out = @ + 1]
          /\ zconn' = [zconn EXCEPT ![k].down = Tail(@)] /\ UNCHANGED zpool
       \/ f.kind \in {"Ack", "Exit", "Error"} /\ AnswerCall(c, f.kind) /\ Repays(k)
  BY <1>1 DEF Reads
<1> HIDE DEF f, l
<1> QED
  BY <1>6, <1>9, <1>10, <1>11, <1>12

LEMMA ConnDiesStep == ASSUME CallsInv, NEW k \in ClientConn, ConnDies(k) PROVE CallsInv'
<1>1. zconn[k].life = "open" /\ UNCHANGED <<zpool, zopened, zcall, served, died>>
  BY DEF ConnDies
<1>2. /\ CallTypes /\ zconn \in [ClientConn -> Link] /\ zconn[k] \in Link
      /\ zconn[k].down \in Seq(Frames) /\ Len(zconn[k].down) \in Nat
      /\ DOMAIN zconn[k].down = 1..Len(zconn[k].down)
  BY DEF CallsInv, CallTypes, Link
<1>3. PICK n \in 0..Len(zconn[k].down) :
        zconn' = [zconn EXCEPT ![k] = [life |-> "dead", up |-> <<>>,
                                       down |-> SubSeq(zconn[k].down, 1, n)]]
  BY <1>2 DEF ConnDies
<1> DEFINE d == SubSeq(zconn[k].down, 1, n)
           l == [life |-> "dead", up |-> <<>>, down |-> d]
<1>4. /\ d \in Seq(Frames) /\ Len(d) = n /\ \A i \in 1..n : d[i] = zconn[k].down[i]
  BY <1>2, <1>3, SubSeqProperties
<1>5. DOMAIN d = 1..n
  BY <1>4
<1> HIDE DEF d
<1>6. l \in Link /\ l.life = "dead" /\ l.up = <<>> /\ l.down = d
  BY <1>4 DEF Link
<1>7. zconn' = [zconn EXCEPT ![k] = l]
  BY <1>3 DEF d
<1> HIDE DEF l
<1>8. /\ zconn' \in [ClientConn -> Link] /\ zconn'[k] = l
      /\ \A m \in ClientConn \ {k} : zconn'[m] = zconn[m]
  BY <1>2, <1>6, <1>7
<1>9. CallTypes'
  BY <1>1, <1>2, <1>8 DEF CallTypes
<1>10. \A e \in ClientCall, m \in ClientConn : Has(e, m)' <=> Has(e, m)
  BY <1>1 DEF Has
<1>11. \A m \in ClientConn : zconn'[m].up # <<>> => m # k /\ zconn'[m] = zconn[m]
  BY <1>6, <1>8
<1>12. LinksKept'
  <2>1. ASSUME NEW m \in ClientConn PROVE LinkKept(m)'
    <3>1. LinkKept(m) /\ LinkKept(k)
      BY DEF CallsInv, LinksKept
    <3>2. CASE m = k
      BY <1>1, <1>6, <1>8, <3>1, <3>2 DEF LinkKept
    <3>3. CASE m # k
      BY <1>1, <1>8, <1>10, <3>1, <3>3 DEF LinkKept
    <3> QED
      BY <3>2, <3>3
  <2> QED
    BY <2>1 DEF LinksKept
<1>13. Clean(k) => Clean(k)'
  <2>1. zconn[k].down = <<>> => d = <<>>
    BY <1>2, <1>3, <1>4
  <2> QED
    BY <1>6, <1>8, <2>1 DEF Clean
<1>14. \A m \in ClientConn : Clean(m) => Clean(m)'
  BY <1>8, <1>13 DEF Clean
<1>15. \A m \in ClientConn : zconn[m].life \in {"open", "dead"} => zconn'[m].life \in {"open", "dead"}
  BY <1>6, <1>8
<1>16. WarmKept'
  <2>1. ASSUME NEW i \in DOMAIN zpool
        PROVE  /\ zconn'[zpool[i]].life \in {"open", "dead"} /\ zconn'[zpool[i]].up = <<>>
               /\ zconn'[zpool[i]].down = <<>> /\ \A e \in ClientCall : ~Has(e, zpool[i])
    <3>1. /\ zpool[i] \in ClientConn /\ zconn[zpool[i]].life \in {"open", "dead"}
          /\ Clean(zpool[i]) /\ \A e \in ClientCall : ~Has(e, zpool[i])
      BY DEF CallsInv, CallTypes, WarmKept
    <3>2. \A m \in ClientConn : Clean(m) => zconn'[m].up = <<>> /\ zconn'[m].down = <<>>
      BY <1>14 DEF Clean
    <3> QED
      BY <1>15, <3>1, <3>2
  <2> QED
    BY <1>1, <2>1 DEF CallsInv, WarmKept, Clean, Has
<1>17. CallsKept'
  <2>1. ASSUME NEW c \in ClientCall, zcall[c].pc \in {"write", "read"} PROVE CallKept(c)'
    <3>1. PICK m \in ClientConn : m = zcall[c].k
      BY <2>1 DEF CallsInv, CallsKept, CallKept
    <3>2. /\ zconn[m].life \in {"open", "dead"} /\ (zcall[c].pc = "write" => Clean(m))
          /\ (zcall[c].pc = "read" => Awaits(m, c)) /\ \A e \in ClientCall : Has(e, m) => e = c
      BY <2>1, <3>1 DEF CallsInv, CallsKept, CallKept
    <3>3. Awaits(m, c) => Awaits(m, c)'
      <4>1. CASE m = k
        BY <1>2, <1>3, <1>4, <1>5, <1>6, <1>8, <4>1 DEF Awaits
      <4>2. CASE m # k
        BY <1>8, <4>2 DEF Awaits
      <4> QED
        BY <4>1, <4>2
    <3>4. /\ zcall'[c] = zcall[c] /\ zconn'[m].life \in {"open", "dead"}
          /\ (zcall'[c].pc = "write" => Clean(m)') /\ (zcall'[c].pc = "read" => Awaits(m, c)')
          /\ \A e \in ClientCall : Has(e, m)' => e = c
      BY <1>1, <1>10, <1>14, <1>15, <3>2, <3>3
    <3> QED
      BY <3>1, <3>4 DEF CallKept, Clean, Awaits, Has
  <2> QED
    BY <1>1, <2>1 DEF CallsKept, CallKept
<1>18. AskedOnce'
  <2>1. ASSUME NEW c \in ClientCall PROVE AskedSo(c)'
    <3>1. AskedSo(c) /\ (Excused(c)' <=> Excused(c))
      BY <1>1 DEF CallsInv, AskedOnce, Excused
    <3>2. \A m \in ClientConn : zconn'[m].up = <<c>> => zconn[m].up = <<c>>
      BY <1>11, SingleIs
    <3>3. Asked(c)' => Asked(c)
      BY <3>2 DEF Asked
    <3> QED
      BY <1>1, <3>1, <3>2, <3>3 DEF AskedSo
  <2> QED
    BY <2>1 DEF AskedOnce
<1>19. NoForeign'
  BY <1>1 DEF CallsInv, NoForeign
<1> QED
  BY <1>9, <1>12, <1>16, <1>17, <1>18, <1>19 DEF CallsInv

\* An answer is of the call it answers, with its end last.
LEMMA AnswersShape ==
  ASSUME NEW c \in ClientCall, NEW a \in AnswersTo(c)
  PROVE  /\ a \in Seq(Frames)
         /\ \A i \in DOMAIN a : a[i].id = c /\ (a[i].kind # "Output" => i = Len(a))
<1>1. CASE c \in Control
  <2>1. PICK e \in {"Ack", "Error"} : a = <<Frame(e, c)>>
    BY <1>1 DEF AnswersTo
  <2>2. Frame(e, c) \in Frames /\ Frame(e, c).id = c
    BY DEF Frame, Frames
  <2> QED
    BY <2>1, <2>2
<1>2. CASE c \notin Control
  <2>1. PICK n \in 0..MaxOut, e \in {"Exit", "Error"} : a = Outputs(n, c) \o <<Frame(e, c)>>
    BY <1>2 DEF AnswersTo
  <2> DEFINE o == Outputs(n, c)
             f == Frame(e, c)
  <2>2. n \in Nat /\ a = o \o <<f>>
    BY <2>1, ClientAssumption
  <2>3. f \in Frames /\ f.id = c
    BY DEF Frame, Frames
  <2>4. /\ o \in Seq(Frames) /\ Len(o) = n
        /\ \A i \in 1..n : o[i].id = c /\ o[i].kind = "Output"
    BY <2>2 DEF Outputs, Frame, Frames
  <2> HIDE DEF o, f
  <2>5. <<f>> \in Seq(Frames) /\ Len(<<f>>) = 1 /\ <<f>>[1] = f
    BY <2>3
  <2>6. /\ a \in Seq(Frames) /\ Len(a) = n + 1 /\ a[n + 1] = f
        /\ \A i \in 1..n : a[i] = o[i]
    BY <2>2, <2>4, <2>5
  <2>7. DOMAIN a = 1..(n + 1)
    BY <2>2, <2>6
  <2>8. \A i \in DOMAIN a : a[i].id = c /\ (a[i].kind # "Output" => i = Len(a))
    BY <2>2, <2>3, <2>4, <2>6, <2>7
  <2> QED
    BY <2>6, <2>8
<1> QED
  BY <1>1, <1>2

LEMMA GuestServesStep == ASSUME CallsInv, NEW k \in ClientConn, GuestServes(k) PROVE CallsInv'
<1>1. /\ zconn[k].life \in {"open", "dropped"} /\ zconn[k].up # <<>>
      /\ UNCHANGED <<zpool, zopened, zcall, died>>
  BY DEF GuestServes
<1>2. PICK c \in ClientCall : zconn[k].up = <<c>>
  BY <1>1 DEF CallsInv, LinksKept, LinkKept
<1>3. Head(zconn[k].up) = c /\ Tail(zconn[k].up) = <<>> /\ <<c>> # <<>>
  BY <1>2, SingleIs
<1>4. served' = [served EXCEPT ![c] = @ + 1]
  BY <1>3 DEF GuestServes
<1>5. PICK a \in Seq(Frames) :
        /\ \A i \in DOMAIN a : a[i].id = c /\ (a[i].kind # "Output" => i = Len(a))
        /\ zconn' = [zconn EXCEPT ![k].up = Tail(@),
                       ![k].down = IF zconn[k].life = "open" THEN @ \o a ELSE @]
  <2>1. PICK a \in AnswersTo(c) :
          zconn' = [zconn EXCEPT ![k].up = Tail(@),
                      ![k].down = IF zconn[k].life = "open" THEN @ \o a ELSE @]
    BY <1>3 DEF GuestServes
  <2> QED
    BY <2>1, AnswersShape
<1>6. /\ CallTypes /\ zconn \in [ClientConn -> Link] /\ zconn[k] \in Link
      /\ served \in [ClientCall -> Nat]
  BY DEF CallsInv, CallTypes
<1>7. zconn[k].down = <<>>
  <2>1. CASE zconn[k].life = "dropped"
    BY <2>1 DEF CallsInv, LinksKept, LinkKept
  <2>2. CASE zconn[k].life = "open"
    <3>1. PICK d \in ClientCall : Has(d, k)
      BY <1>1, <2>2 DEF CallsInv, LinksKept, LinkKept
    <3>2. CallKept(d)
      BY DEF CallsInv, CallsKept
    <3> QED
      BY <1>1, <1>2, <3>1, <3>2, SingleIs DEF CallKept, Has, Clean, Awaits
  <2> QED
    BY <1>1, <2>1, <2>2
<1>8. /\ zconn[k].life = "open" => zcall[c].pc = "read" /\ Has(c, k)
      /\ \A d \in ClientCall \ {c} : ~Has(d, k)
  <2>1. ASSUME NEW d \in ClientCall, Has(d, k) PROVE d = c /\ zcall[c].pc = "read"
    <3>1. CallKept(d)
      BY DEF CallsInv, CallsKept
    <3> QED
      BY <1>1, <1>2, <2>1, <3>1, SingleIs DEF CallKept, Has, Clean, Awaits
  <2>2. zconn[k].life = "open" => \E d \in ClientCall : Has(d, k)
    BY <1>1 DEF CallsInv, LinksKept, LinkKept
  <2> QED
    BY <2>1, <2>2
<1> DEFINE b == IF zconn[k].life = "open" THEN a ELSE <<>>
           l == [zconn[k] EXCEPT !.up = <<>>, !.down = b]
<1>9. b \in Seq(Frames) /\ \A i \in DOMAIN b : b[i].id = c /\ (b[i].kind # "Output" => i = Len(b))
  BY <1>5
<1>10. zconn' = [zconn EXCEPT ![k] = l]
  <2>1. <<>> \o a = a
    BY <1>5
  <2>2. zconn' = [zconn EXCEPT ![k].up = <<>>, ![k].down = b]
    BY <1>3, <1>5, <1>7, <2>1
  <2> HIDE DEF b
  <2> QED
    BY <1>6, <2>2
<1>11. l \in Link /\ l.life = zconn[k].life /\ l.up = <<>> /\ l.down = b
  <2> DEFINE r == zconn[k]
             e == <<>>
             x == [r EXCEPT !.up = e, !.down = b]
  <2>1. r \in Link /\ e \in Seq(ClientCall)
    BY <1>6
  <2>2. l = x
    OBVIOUS
  <2> HIDE DEF r, e, b, l
  <2>3. x \in Link /\ x.life = r.life /\ x.up = e /\ x.down = b
    BY <1>9, <2>1 DEF Link
  <2> HIDE DEF x
  <2>4. l \in Link /\ l.life = r.life /\ l.up = e /\ l.down = b
    BY <2>2, <2>3
  <2> QED
    BY <2>4 DEF r, e
<1>12. b # <<>> => zconn[k].life = "open"
  OBVIOUS
<1> HIDE DEF l, b
<1>13. /\ zconn' \in [ClientConn -> Link] /\ zconn'[k] = l
       /\ \A m \in ClientConn \ {k} : zconn'[m] = zconn[m]
  BY <1>6, <1>10, <1>11
<1>14. /\ served' \in [ClientCall -> Nat] /\ served'[c] = served[c] + 1
       /\ \A d \in ClientCall \ {c} : served'[d] = served[d]
  BY <1>4, <1>6
<1>15. CallTypes'
  BY <1>1, <1>6, <1>13, <1>14 DEF CallTypes
<1>16. AskedSo(c) /\ Asked(c) /\ (Excused(c)' <=> Excused(c))
  BY <1>1, <1>2 DEF CallsInv, AskedOnce, Asked, Excused
<1>17. zcall[c].pc \in {"write", "read"} => zcall[c].pc = "read" /\ k = zcall[c].k
  BY <1>2, <1>16 DEF AskedSo
<1>18. \A m \in ClientConn : /\ Has(c, m) => m = k
                             /\ Has(c, m)' => m = k
  BY <1>1, <1>17 DEF Has
<1>19. \A i \in DOMAIN zpool : zpool[i] # k
  BY <1>1 DEF CallsInv, WarmKept, Clean
<1>20. WarmKept'
  BY <1>1, <1>13, <1>18, <1>19, WarmStays
<1>21. LinkKept(k)'
  <2>1. LinkKept(k) /\ zconn[k].life # "none"
    BY <1>1 DEF CallsInv, LinksKept
  <2> QED
    BY <1>1, <1>11, <1>12, <1>13, <2>1 DEF LinkKept
<1>22. CallKept(c)'
  <2>1. CASE zcall[c].pc \in {"write", "read"}
    <3>1. /\ zcall'[c].pc = "read" /\ zcall'[c].k = k /\ zconn[k].life \in {"open", "dead"}
          /\ \A d \in ClientCall : Has(d, k)' => d = c
      BY <1>1, <1>8, <1>17, <2>1 DEF CallsInv, CallsKept, CallKept, Has
    <3>2. Awaits(k, c)'
      BY <1>3, <1>9, <1>11, <1>13 DEF Awaits
    <3> QED
      BY <1>11, <1>13, <3>1, <3>2 DEF CallKept
  <2>2. CASE zcall[c].pc \notin {"write", "read"}
    BY <1>1, <2>2 DEF CallKept
  <2> QED
    BY <2>1, <2>2
<1>23. AskedSo(c)'
  <2>1. \A m \in ClientConn : zconn'[m].up # <<c>>
    <3>1. ASSUME NEW m \in ClientConn, m # k PROVE zconn[m].up # <<c>>
      BY <1>2, <1>16, <3>1 DEF AskedSo
    <3> QED
      BY <1>3, <1>11, <1>13, <3>1
  <2>2. ~Asked(c)'
    BY <2>1 DEF Asked
  <2>3. served[c] \in 0..1 /\ (served[c] = 1 => Excused(c)) /\ zcall[c].pc \notin {"borrow", "write"}
    BY <1>16 DEF AskedSo
  <2> QED
    BY <1>1, <1>14, <1>16, <2>1, <2>2, <2>3 DEF AskedSo
<1>24. /\ \A m \in ClientConn \ {k} : zconn'[m] = zconn[m] /\ (m > zopened' <=> m > zopened)
       /\ \A d \in ClientCall \ {c} : /\ zcall'[d] = zcall[d] /\ served'[d] = served[d]
                                      /\ ~Has(d, k)
       /\ zconn[k].up \in {<<>>, <<c>>} /\ zconn'[k].up \in {<<>>, <<c>>}
       /\ died \subseteq died' /\ zcall'[c].res # "foreign"
  BY <1>1, <1>2, <1>8, <1>11, <1>13, <1>14 DEF CallsInv, NoForeign
<1> QED
  BY <1>15, <1>18, <1>20, <1>21, <1>22, <1>23, <1>24, OnlyTouches

LEMMA CallsInvStays == ASSUME CallsInv, UNCHANGED <<zconn, zpool, zopened, zcall, served, died>>
                       PROVE CallsInv'
<1>1. CallTypes'
  BY DEF CallsInv, CallTypes
<1>2. LinksKept'
  BY DEF CallsInv, LinksKept, LinkKept, Has
<1>3. WarmKept'
  BY DEF CallsInv, WarmKept, Clean, Has
<1>4. CallsKept'
  BY DEF CallsInv, CallsKept, CallKept, Clean, Awaits, Has
<1>5. AskedOnce'
  BY DEF CallsInv, AskedOnce, AskedSo, Asked, Excused
<1>6. NoForeign'
  BY DEF CallsInv, NoForeign
<1> QED
  BY <1>1, <1>2, <1>3, <1>4, <1>5, <1>6 DEF CallsInv

LEMMA CallsSeen == CallsInv => WarmIsClean /\ TwiceOnlyByDeath
<1> SUFFICES ASSUME CallsInv PROVE WarmIsClean /\ TwiceOnlyByDeath
  OBVIOUS
<1>1. WarmIsClean
  BY DEF CallsInv, WarmKept, NoForeign, WarmIsClean, Clean
<1>2. TwiceOnlyByDeath
  BY DEF CallsInv, AskedOnce, AskedSo, Excused, TwiceOnlyByDeath
<1> QED
  BY <1>1, <1>2

-----------------------------------------------------------------------------
(* What the SDK client's callers see *)

LEMMA StreamInvInit == ZcInit => StreamInv
<1> SUFFICES ASSUME ZcInit PROVE StreamInv
  OBVIOUS
<1>1. PICK streams \in BOOLEAN :
        s = [pc |-> IF streams THEN "poll" ELSE "over", guest |-> "running", wrote |-> 0,
             down |-> <<>>, cut |-> ~streams, started |-> FALSE, terminal |-> FALSE,
             cancelSent |-> FALSE, pending |-> <<>>, given |-> <<>>]
  BY DEF ZcInit
<1>2. /\ s.pc \in {"poll", "over"} /\ s.guest = "running" /\ s.wrote = 0 /\ s.down = <<>>
      /\ ~s.terminal /\ s.pending = <<>> /\ s.given = <<>>
  BY <1>1
<1>3. StreamTypes
  <2>1. <<>> \in Seq(Event)
    OBVIOUS
  <2> DEFINE e == <<>>
  <2> HIDE DEF e
  <2>2. s = [pc |-> IF streams THEN "poll" ELSE "over", guest |-> "running", wrote |-> 0,
             down |-> e, cut |-> ~streams, started |-> FALSE, terminal |-> FALSE,
             cancelSent |-> FALSE, pending |-> e, given |-> e]
    BY <1>1 DEF e
  <2>3. e \in Seq(Event) /\ (~streams) \in BOOLEAN
      /\ (IF streams THEN "poll" ELSE "over") \in {"poll", "over"}
    BY <2>1 DEF e
  <2> QED
    BY <2>2, <2>3 DEF StreamTypes
<1>4. Events = <<>>
  BY <1>2 DEF Events, Then
<1>5. Pieces
  <2>1. 0 \in 0..s.wrote /\ Taken(Events, 0)
    BY <1>2, <1>4 DEF Taken
  <2>2. OnTheWay(s.down, 0, s.wrote)
    BY <1>2 DEF OnTheWay
  <2>3. ~HasExit(Events)
    BY <1>4 DEF HasExit
  <2> QED
    BY <2>1, <2>2, <2>3 DEF Pieces
<1>6. EndIsLast
  BY <1>2 DEF EndIsLast
<1>7. ExitEnds
  BY <1>4 DEF ExitEnds
<1>8. EndsForCause
  BY <1>2 DEF EndsForCause
<1> QED
  BY <1>3, <1>5, <1>6, <1>7, <1>8 DEF StreamInv

LEMMA StreamInvStays == ASSUME StreamInv, UNCHANGED s PROVE StreamInv'
<1>1. StreamTypes'
  BY DEF StreamInv, StreamTypes
<1>2. Events' = Events
  BY DEF Events
<1>3. Pieces' /\ EndIsLast' /\ ExitEnds' /\ EndsForCause'
  BY <1>2 DEF StreamInv, Pieces, EndIsLast, ExitEnds, EndsForCause
<1> QED
  BY <1>1, <1>3 DEF StreamInv

ZcInv == CallsInv /\ StreamInv

LEMMA ZcInvNext == ZcInv /\ [ZcNext]_zcvars => ZcInv'
<1> SUFFICES ASSUME ZcInv, [ZcNext]_zcvars PROVE ZcInv'
  OBVIOUS
<1>1. CallsInv /\ StreamInv
  BY DEF ZcInv
<1>2. CASE UNCHANGED zcvars
  BY <1>1, <1>2, CallsInvStays, StreamInvStays DEF zcvars, ZcInv
<1>3. ASSUME NEW k \in ClientConn, GuestServes(k) \/ ConnDies(k) PROVE ZcInv'
  <2>1. UNCHANGED s
    BY <1>3 DEF GuestServes, ConnDies
  <2> QED
    BY <1>1, <1>3, <2>1, GuestServesStep, ConnDiesStep, StreamInvStays DEF ZcInv
<1>4. ASSUME NEW c \in ClientCall,
             \/ BorrowHot(c) \/ BorrowProbed(c) \/ Connects(c) \/ Writes(c)
             \/ Reads(c) \/ ReadFails(c)
      PROVE  ZcInv'
  <2>1. UNCHANGED s
    BY <1>4 DEF BorrowHot, BorrowProbed, Connects, Writes, Reads, ReadFails
  <2>2. CallsInv'
    BY <1>1, <1>4, BorrowHotStep, BorrowProbedStep, ConnectsStep, WritesStep, ReadsStep,
       ReadFailsStep
  <2> QED
    BY <1>1, <2>1, <2>2, StreamInvStays DEF ZcInv
<1>5. CASE StreamGuest \/ NextEvent \/ Stop \/ StopReads
  <2>1. UNCHANGED <<zconn, zpool, zopened, zcall, served, died>>
    BY <1>5 DEF StreamGuest, NextEvent, Stop, StopReads
  <2>2. StreamInv'
    BY <1>1, <1>5, StreamGuestStep, NextEventStep, StopStep, StopReadsStep
  <2> QED
    BY <1>1, <2>1, <2>2, CallsInvStays DEF ZcInv
<1> QED
  BY <1>2, <1>3, <1>4, <1>5 DEF ZcNext

\* A call of the SDK client only ever meets its own answer, its request is run a second time
\* only where its connection died under it, and a stream's caller sees every Output once and
\* in order, its Exit last (rfb/src/client/zbrt.rs).
THEOREM CallersSeeOwnAnswers == ZcSpec => []ClientSeesItsOwn
<1>1. ZcInit => ZcInv
  BY CallsInvInit, StreamInvInit DEF ZcInv
<1>2. ZcInv => ClientSeesItsOwn
  BY CallsSeen, StreamSeen DEF ZcInv, ClientSeesItsOwn
<1> QED
  BY <1>1, ZcInvNext, <1>2, PTL DEF ZcSpec

-----------------------------------------------------------------------------
(* The cluster *)

\* Since the last trial of a node its gate has not fallen.
GateInv == \A n \in Nodes : trial[n] # NoTrial => gate[n] >= trial[n] + Interval

\* A caller about to claim has seen a gate that lets it pass.
SeenInv ==
  \A p \in Proc : call[p].at = "cas" =>
    /\ call[p].seen = 0 \/ call[p].seen <= call[p].now
    /\ call[p].cands # << >>

\* The caller's InflightGuard is armed.
Reserving(p) == call[p].at \in {"await", "open"}

\* No two handles or creates under way share a sandbox.
IdInv ==
  /\ \A p \in Proc : call[p].at \in {"idle", "next", "cas"} => call[p].landed = 0
  /\ \A p \in Proc : call[p].at = "open" => call[p].landed # 0
  /\ \A p \in Proc : call[p].landed < nextId
  /\ \A h \in held : h[1] < nextId
  /\ \A p \in Proc, h \in held : Reserving(p) => h[1] # call[p].landed
  /\ \A p, q \in Proc :
       Reserving(p) /\ Reserving(q) /\ call[p].landed # 0
         /\ call[p].landed = call[q].landed => p = q

\* The accounting, over finitely many handles.
CountInv == IsFiniteSet(held) /\ InflightIsReservations

ClusterInv == TypeOK /\ GateInv /\ SeenInv /\ IdInv /\ CountInv

-----------------------------------------------------------------------------

USE NNodesAssumption, ProcAssumption, IntervalAssumption, TripAssumption,
    FlagsAssumption, BoundsAssumption
    DEF Nodes, BoxIds, Times

\* The records the model builds by hand are of their types.
LEMMA ConstantRecords == /\ Idle \in Call /\ Idle.at = "idle" /\ Idle.landed = 0
                         /\ NotProbing \in [at : {"idle", "judge", "open", "arm"},
                                            node : Nodes, now : Times]
  BY DEF Idle, NotProbing, Call

\* The fields of a call.
LEMMA CallFields ==
  ASSUME NEW c \in Call
  PROVE  /\ c.now \in Nat /\ c.now \in Times
         /\ c.cands \in Seq(Nodes)
         /\ c.node \in Nodes
         /\ c.seen \in Nat
         /\ c.landed \in Nat /\ c.landed \in 0..MaxBoxes
  BY DEF Call

\* The record a call starts with, and the one it goes on with.
LEMMA FreshRecord ==
  ASSUME NEW t \in Times, NEW left \in Seq(Nodes),
         NEW d, d = [Idle EXCEPT !.at = "next", !.now = t, !.cands = left]
  PROVE  d \in Call /\ d.at = "next" /\ d.landed = 0
<1>1. PICK c \in Call : c = Idle /\ c.landed = 0
  BY ConstantRecords
<1>2. d = [c EXCEPT !.at = "next", !.now = t, !.cands = left]
  BY <1>1, Zenon
<1>3. d \in Call /\ d.at = "next" /\ d.landed = c.landed
  BY <1>2 DEF Call
<1> QED
  BY <1>1, <1>3

\* What a call takes along to its next candidate.
LEMMA OnwardRecord ==
  ASSUME TypeOK, NEW p \in Proc, NEW left \in Seq(Nodes)
  PROVE  /\ Onward(p, left) \in Call
         /\ Onward(p, left).at = "next" /\ Onward(p, left).landed = 0
<1>1. PICK t \in Times : t = call[p].now
  BY CallFields DEF TypeOK
<1>2. PICK d : /\ d = Onward(p, left)
               /\ d = [Idle EXCEPT !.at = "next", !.now = t, !.cands = left]
  BY <1>1, Zenon DEF Onward
<1>3. d = [Idle EXCEPT !.at = "next", !.now = t, !.cands = left]
  BY <1>2, Zenon
<1>4. d \in Call /\ d.at = "next" /\ d.landed = 0
  BY ONLY <1>3, FreshRecord, Zenon
<1> QED
  BY <1>2, <1>4, Zenon

\* The initial state satisfies the invariant.
LEMMA ClusterInvInit == Init => ClusterInv
<1> SUFFICES ASSUME Init PROVE ClusterInv
  OBVIOUS
<1>1. TypeOK
  <2>1. 0 \in Nodes /\ 0 \in Times
    OBVIOUS
  <2> QED
    BY <2>1, ConstantRecords DEF Init, TypeOK
<1>2. GateInv /\ SeenInv
  BY DEF Init, GateInv, SeenInv, Idle
<1>3. IdInv
  BY DEF Init, IdInv, Idle, Reserving
<1>4. CountInv
  <2>1. \A n \in Nodes : Guards(n) = {} /\ HandlesOn(n) = {}
    BY DEF Init, Guards, HandlesOn, Idle
  <2>2. \A n \in Nodes : inflight[n] = 0
    BY DEF Init
  <2>5. \A n \in Nodes : Reservations(n) = 0
    BY <2>1, FS_EmptySet DEF Reservations
  <2>3. InflightIsReservations
    BY <2>2, <2>5 DEF InflightIsReservations
  <2>4. IsFiniteSet(held)
    BY FS_EmptySet DEF Init
  <2> QED
    BY <2>3, <2>4 DEF CountInv
<1> QED
  BY <1>1, <1>2, <1>3, <1>4 DEF ClusterInv

-----------------------------------------------------------------------------
(* What a change of one caller's locals does to each part of the invariant *)

\* The locals of one caller change, those of the others stay.
LEMMA BecomesEffect ==
  ASSUME TypeOK, NEW p \in Proc, NEW c \in Call, Becomes(p, c)
  PROVE  /\ call' \in [Proc -> Call]
         /\ call'[p] = c
         /\ \A q \in Proc : q # p => call'[q] = call[q]
<1>1. call \in [Proc -> Call]
  BY DEF TypeOK
<1> QED
  BY <1>1 DEF Becomes

\* A caller that neither claims a sandbox nor changes its own keeps the
\* identifiers apart.
LEMMA IdKeep ==
  ASSUME TypeOK, IdInv, NEW p \in Proc, NEW c \in Call, Becomes(p, c),
         nextId' = nextId, held' = held,
         c.landed \in {0, call[p].landed},
         c.at \in {"idle", "next", "cas"} => c.landed = 0,
         c.at = "open" => c.landed # 0,
         c.at \in {"await", "open"} => Reserving(p) \/ c.landed = 0
  PROVE  IdInv'
<1>1. /\ call'[p] = c
      /\ \A q \in Proc : q # p => call'[q] = call[q]
  BY BecomesEffect
<1>2. \A q \in Proc : call[q].landed \in Nat /\ call[q].landed < nextId
  BY CallFields DEF TypeOK, IdInv
<1>3. nextId \in Nat /\ nextId >= 1
  BY DEF TypeOK
<1>4. \A q \in Proc : call'[q].landed < nextId'
  BY <1>1, <1>2, <1>3
<1>5. \A h \in held : h[1] # 0
  <2>1. held \in SUBSET (BoxIds \X Nodes)
    BY DEF TypeOK
  <2> QED
    BY <2>1
<1>6. \A q \in Proc, h \in held : call'[q].at \in {"await", "open"} => h[1] # call'[q].landed
  BY <1>1, <1>5 DEF IdInv, Reserving
<1>7. ASSUME NEW q \in Proc, NEW r \in Proc, Reserving(q)', Reserving(r)',
             call'[q].landed # 0, call'[q].landed = call'[r].landed
      PROVE  q = r
  <2>1. ASSUME NEW x \in {q, r} PROVE Reserving(x) /\ call'[x].landed = call[x].landed
    BY <1>1, <1>7, <2>1 DEF Reserving
  <2> QED
    BY <1>7, <2>1 DEF IdInv
<1>8. \A q \in Proc : call'[q].at \in {"idle", "next", "cas"} => call'[q].landed = 0
  BY <1>1 DEF IdInv
<1>12. \A q \in Proc : call'[q].at = "open" => call'[q].landed # 0
  BY <1>1 DEF IdInv
<1>9. \A h \in held' : h[1] < nextId'
  BY DEF IdInv
<1>10. \A q \in Proc, h \in held' : Reserving(q)' => h[1] # call'[q].landed
  BY <1>6 DEF Reserving
<1>11. \A q, r \in Proc :
         Reserving(q)' /\ Reserving(r)' /\ call'[q].landed # 0
           /\ call'[q].landed = call'[r].landed => q = r
  BY <1>7
<1> QED
  BY <1>4, <1>8, <1>9, <1>10, <1>11, <1>12, Zenon DEF IdInv

\* The reservations of a node are finitely many.
LEMMA ReservationsFinite ==
  ASSUME IsFiniteSet(held), NEW n
  PROVE  /\ IsFiniteSet(Guards(n)) /\ Cardinality(Guards(n)) \in Nat
         /\ IsFiniteSet(HandlesOn(n)) /\ Cardinality(HandlesOn(n)) \in Nat
         /\ Reservations(n) \in Nat
<1>1. Guards(n) \subseteq Proc /\ HandlesOn(n) \subseteq held
  BY DEF Guards, HandlesOn
<1>2. IsFiniteSet(Guards(n)) /\ IsFiniteSet(HandlesOn(n))
  BY <1>1, FS_Subset
<1>3. Cardinality(Guards(n)) \in Nat /\ Cardinality(HandlesOn(n)) \in Nat
  BY <1>2, FS_CardinalityType
<1> QED
  BY <1>2, <1>3 DEF Reservations

\* A caller that keeps its reservation, or keeps having none, changes no count.
LEMMA CountKeep ==
  ASSUME TypeOK, CountInv, NEW p \in Proc, NEW c \in Call, Becomes(p, c),
         inflight' = inflight, held' = held,
         c.at \in {"await", "open"} <=> Reserving(p),
         Reserving(p) => c.node = call[p].node
  PROVE  CountInv'
<1>1. /\ call'[p] = c
      /\ \A q \in Proc : q # p => call'[q] = call[q]
  BY BecomesEffect
<1>2. \A n \in Nodes : Guards(n)' = Guards(n)
  BY <1>1 DEF Guards, Reserving
<1>3. \A n \in Nodes : HandlesOn(n)' = HandlesOn(n)
  BY DEF HandlesOn
<1>4. \A n \in Nodes : Reservations(n)' = Reservations(n)
  BY <1>2, <1>3 DEF Reservations
<1> QED
  BY <1>4 DEF CountInv, InflightIsReservations

\* InflightGuard::arm counts the reservation it makes.
LEMMA CountEnter ==
  ASSUME TypeOK, CountInv, NEW p \in Proc, NEW c \in Call, Becomes(p, c),
         ~Reserving(p), c.at = "await", c.node \in Nodes,
         inflight' = [inflight EXCEPT ![c.node] = @ + 1], held' = held
  PROVE  CountInv'
<1>1. /\ call'[p] = c
      /\ \A q \in Proc : q # p => call'[q] = call[q]
  BY BecomesEffect
<1>2. \A n \in Nodes : n # c.node => Guards(n)' = Guards(n)
  BY <1>1 DEF Guards, Reserving
<1>3. Guards(c.node)' = Guards(c.node) \cup {p} /\ p \notin Guards(c.node)
  BY <1>1 DEF Guards, Reserving
<1>4. \A n \in Nodes : HandlesOn(n)' = HandlesOn(n)
  BY DEF HandlesOn
<1>5. IsFiniteSet(held)
  BY DEF CountInv
<1>6. Cardinality(Guards(c.node)') = Cardinality(Guards(c.node)) + 1
  BY <1>3, <1>5, ReservationsFinite, FS_AddElement
<1>7. \A n \in Nodes : Reservations(n)' = Reservations(n) + (IF n = c.node THEN 1 ELSE 0)
  <2>1. \A n \in Nodes : /\ Cardinality(Guards(n)) \in Nat
                         /\ Cardinality(HandlesOn(n)) \in Nat
    BY <1>5, ReservationsFinite
  <2>2. \A n \in Nodes : Cardinality(HandlesOn(n))' = Cardinality(HandlesOn(n))
    BY <1>4
  <2>3. \A n \in Nodes : Cardinality(Guards(n))'
                           = Cardinality(Guards(n)) + (IF n = c.node THEN 1 ELSE 0)
    BY <1>2, <1>6, <2>1
  <2> QED
    BY <2>1, <2>2, <2>3 DEF Reservations
<1>8. \A n \in Nodes : inflight'[n] = inflight[n] + (IF n = c.node THEN 1 ELSE 0)
  <2>1. inflight \in [Nodes -> Nat]
    BY DEF TypeOK
  <2> QED
    BY <2>1
<1>9. \A n \in Nodes : inflight[n] \in Nat /\ Reservations(n) \in Nat
  BY <1>5, ReservationsFinite DEF TypeOK
<1>10. InflightIsReservations'
  BY <1>7, <1>8, <1>9 DEF CountInv, InflightIsReservations
<1> QED
  BY <1>5, <1>10 DEF CountInv

\* One reservation fewer on a node, with the counter lowered.
LEMMA CountDrops ==
  ASSUME TypeOK, CountInv, NEW m \in Nodes,
         IsFiniteSet(held'),
         Reservations(m) >= 1,
         \A n \in Nodes : Reservations(n)' = Reservations(n) - (IF n = m THEN 1 ELSE 0),
         inflight' = [inflight EXCEPT ![m] = Decrement(@)]
  PROVE  CountInv'
<1>1. inflight \in [Nodes -> Nat]
  BY DEF TypeOK
<1>2. \A n \in Nodes : Reservations(n) \in Nat
  BY ReservationsFinite DEF CountInv
<1>3. \A n \in Nodes : n # m => inflight'[n] = inflight[n]
  BY <1>1
<1>4. inflight'[m] = IF inflight[m] = 0 THEN 0 ELSE inflight[m] - 1
  BY <1>1 DEF Decrement
<1>5. \A n \in Nodes : /\ inflight[n] <= Reservations(n)
                       /\ ~Releases => inflight[n] = Reservations(n)
  BY DEF CountInv, InflightIsReservations
<1>6. ASSUME NEW n \in Nodes
      PROVE  /\ inflight'[n] <= Reservations(n)'
             /\ ~Releases => inflight'[n] = Reservations(n)'
  <2>1. CASE n = m
    BY <1>1, <1>2, <1>4, <1>5, <2>1
  <2>2. CASE n # m
    BY <1>1, <1>2, <1>3, <1>5, <2>2
  <2> QED
    BY <2>1, <2>2
<1> QED
  BY <1>6 DEF CountInv, InflightIsReservations

\* A caller's guard is dropped with its attempt.
LEMMA CountLeave ==
  ASSUME TypeOK, CountInv, NEW p \in Proc, NEW c \in Call, Becomes(p, c),
         Reserving(p), c.at \notin {"await", "open"}, DropGuard(p), held' = held
  PROVE  CountInv'
<1>0. PICK m \in Nodes : m = call[p].node
  BY CallFields DEF TypeOK
<1>1. /\ call'[p] = c
      /\ \A q \in Proc : q # p => call'[q] = call[q]
  BY BecomesEffect
<1>2. \A n \in Nodes : n # m => Guards(n)' = Guards(n)
  BY <1>0, <1>1 DEF Guards, Reserving
<1>3. Guards(m)' = Guards(m) \ {p} /\ p \in Guards(m)
  BY <1>0, <1>1 DEF Guards, Reserving
<1>4. \A n \in Nodes : HandlesOn(n)' = HandlesOn(n)
  BY DEF HandlesOn
<1>5. IsFiniteSet(held) /\ IsFiniteSet(held')
  BY DEF CountInv
<1>6. \A n \in Nodes : /\ IsFiniteSet(Guards(n))
                       /\ Cardinality(Guards(n)) \in Nat
                       /\ Cardinality(HandlesOn(n)) \in Nat
  BY <1>5, ReservationsFinite
<1>7. Cardinality(Guards(m))' = Cardinality(Guards(m)) - 1
  <2>1. Cardinality(Guards(m) \ {p}) = Cardinality(Guards(m)) - 1
    BY <1>3, <1>6, FS_RemoveElement
  <2> QED
    BY <1>3, <2>1, Zenon
<1>8. Cardinality(Guards(m)) >= 1
  <2>1. Cardinality(Guards(m))' \in Nat
    <3>1. IsFiniteSet(Guards(m) \ {p})
      BY <1>0, <1>6, FS_RemoveElement
    <3> QED
      BY <1>3, <3>1, FS_CardinalityType
  <2> QED
    BY <1>0, <1>6, <1>7, <2>1
<1>9. Reservations(m) >= 1
  BY <1>0, <1>6, <1>8 DEF Reservations
<1>10. \A n \in Nodes : Cardinality(HandlesOn(n))' = Cardinality(HandlesOn(n))
  BY <1>4
<1>11. \A n \in Nodes : Cardinality(Guards(n))'
                           = Cardinality(Guards(n)) - (IF n = m THEN 1 ELSE 0)
  BY <1>2, <1>6, <1>7
<1>12. \A n \in Nodes : Reservations(n)' = Reservations(n) - (IF n = m THEN 1 ELSE 0)
  BY <1>6, <1>10, <1>11 DEF Reservations
<1>13. inflight' = [inflight EXCEPT ![m] = Decrement(@)]
  BY <1>0 DEF DropGuard
<1> QED
  BY <1>0, <1>5, <1>9, <1>12, <1>13, CountDrops

\* The handle takes over the guard of the create that returns it.
LEMMA CountHandOver ==
  ASSUME TypeOK, CountInv, IdInv, NEW p \in Proc, NEW c \in Call, Becomes(p, c),
         call[p].at = "open", c.at = "idle", inflight' = inflight,
         held' = held \cup {<<call[p].landed, call[p].node>>}
  PROVE  CountInv'
<1>0. PICK m \in Nodes : m = call[p].node
  BY CallFields DEF TypeOK
<1>1. /\ call'[p] = c
      /\ \A q \in Proc : q # p => call'[q] = call[q]
  BY BecomesEffect
<1>2. PICK h : h = <<call[p].landed, m>> /\ h \notin held /\ h[2] = m
  <2>1. \A g \in held : g[1] # call[p].landed
    BY DEF IdInv, Reserving
  <2>2. <<call[p].landed, m>>[1] = call[p].landed /\ <<call[p].landed, m>>[2] = m
    OBVIOUS
  <2> QED
    BY <2>1, <2>2, Zenon
<1>3. held' = held \cup {h}
  BY <1>0, <1>2
<1>4. \A n \in Nodes : n # m => Guards(n)' = Guards(n) /\ HandlesOn(n)' = HandlesOn(n)
  BY <1>0, <1>1, <1>2, <1>3 DEF Guards, HandlesOn
<1>5. Guards(m)' = Guards(m) \ {p} /\ p \in Guards(m)
  BY <1>0, <1>1 DEF Guards
<1>6. HandlesOn(m)' = HandlesOn(m) \cup {h} /\ h \notin HandlesOn(m)
  BY <1>2, <1>3 DEF HandlesOn
<1>7. IsFiniteSet(held) /\ IsFiniteSet(held')
  BY <1>3, FS_AddElement DEF CountInv
<1>8. \A n \in Nodes : /\ IsFiniteSet(Guards(n)) /\ IsFiniteSet(HandlesOn(n))
                       /\ Cardinality(Guards(n)) \in Nat
                       /\ Cardinality(HandlesOn(n)) \in Nat
  BY <1>7, ReservationsFinite
<1>9. Cardinality(Guards(m))' = Cardinality(Guards(m)) - 1
  <2>1. Cardinality(Guards(m) \ {p}) = Cardinality(Guards(m)) - 1
    BY <1>5, <1>8, FS_RemoveElement
  <2> QED
    BY <1>5, <2>1, Zenon
<1>10. Cardinality(HandlesOn(m))' = Cardinality(HandlesOn(m)) + 1
  <2>1. Cardinality(HandlesOn(m) \cup {h}) = Cardinality(HandlesOn(m)) + 1
    BY <1>6, <1>8, FS_AddElement
  <2> QED
    BY <1>6, <2>1, Zenon
<1>11. \A n \in Nodes : Reservations(n)' = Reservations(n)
  <2>1. Reservations(m)' = Reservations(m)
    BY <1>8, <1>9, <1>10 DEF Reservations
  <2>2. \A n \in Nodes : n # m => Reservations(n)' = Reservations(n)
    BY <1>4 DEF Reservations
  <2> QED
    BY <2>1, <2>2
<1> QED
  BY <1>7, <1>11 DEF CountInv, InflightIsReservations

\* Drop of a handle.
LEMMA CountDropHandle ==
  ASSUME TypeOK, CountInv, NEW h \in held, call' = call, held' = held \ {h},
         inflight' = [inflight EXCEPT ![h[2]] = Decrement(@)]
  PROVE  CountInv'
<1>0. PICK m \in Nodes : m = h[2]
  BY DEF TypeOK
<1>1. \A n \in Nodes : Guards(n)' = Guards(n)
  BY DEF Guards
<1>2. \A n \in Nodes : n # m => HandlesOn(n)' = HandlesOn(n)
  BY <1>0 DEF HandlesOn
<1>3. HandlesOn(m)' = HandlesOn(m) \ {h} /\ h \in HandlesOn(m)
  BY <1>0 DEF HandlesOn
<1>4. IsFiniteSet(held) /\ IsFiniteSet(held')
  BY FS_RemoveElement DEF CountInv
<1>5. \A n \in Nodes : /\ IsFiniteSet(HandlesOn(n))
                       /\ Cardinality(Guards(n)) \in Nat
                       /\ Cardinality(HandlesOn(n)) \in Nat
  BY <1>4, ReservationsFinite
<1>6. /\ Cardinality(HandlesOn(m) \ {h}) = Cardinality(HandlesOn(m)) - 1
      /\ IsFiniteSet(HandlesOn(m) \ {h})
  BY <1>3, <1>5, FS_RemoveElement
<1>7. Cardinality(HandlesOn(m)) >= 1
  BY <1>5, <1>6, FS_CardinalityType
<1>8. Cardinality(HandlesOn(m))' = Cardinality(HandlesOn(m)) - 1
  BY <1>3, <1>6, Zenon
<1>9. \A n \in Nodes : Cardinality(Guards(n))' = Cardinality(Guards(n))
  BY <1>1
<1>10. \A n \in Nodes : Cardinality(HandlesOn(n))'
                           = Cardinality(HandlesOn(n)) - (IF n = m THEN 1 ELSE 0)
  BY <1>2, <1>5, <1>8
<1>11. \A n \in Nodes : Reservations(n)' = Reservations(n) - (IF n = m THEN 1 ELSE 0)
  BY <1>5, <1>9, <1>10 DEF Reservations
<1>12. Reservations(m) >= 1
  BY <1>5, <1>7 DEF Reservations
<1>13. inflight' = [inflight EXCEPT ![m] = Decrement(@)]
  BY <1>0
<1> QED
  BY <1>4, <1>11, <1>12, <1>13, CountDrops

\* release() lowers the counter of a node and no reservation.
LEMMA CountRelease ==
  ASSUME TypeOK, CountInv, NEW m \in Nodes, Releases, call' = call, held' = held,
         inflight' = [inflight EXCEPT ![m] = Decrement(@)]
  PROVE  CountInv'
<1>1. inflight \in [Nodes -> Nat]
  BY DEF TypeOK
<1>2. \A n \in Nodes : inflight'[n] \in Nat /\ inflight'[n] <= inflight[n]
  BY <1>1 DEF Decrement
<1>3. \A n \in Nodes : Guards(n)' = Guards(n) /\ HandlesOn(n)' = HandlesOn(n)
  BY DEF Guards, HandlesOn
<1>4. \A n \in Nodes : Reservations(n)' = Reservations(n)
  BY <1>3 DEF Reservations
<1>5. \A n \in Nodes : Reservations(n) \in Nat
  BY ReservationsFinite DEF CountInv
<1> QED
  BY <1>1, <1>2, <1>4, <1>5 DEF CountInv, InflightIsReservations

\* Steps that leave callers and handles alone.
LEMMA CountStill ==
  ASSUME CountInv, call' = call, held' = held, inflight' = inflight
  PROVE  CountInv'
  BY DEF CountInv, InflightIsReservations, Reservations, Guards, HandlesOn

-----------------------------------------------------------------------------
(* The gate and what callers saw of it *)

\* A caller that is not about to claim puts no condition on the gate.
LEMMA SeenKeep ==
  ASSUME TypeOK, SeenInv, NEW p \in Proc, NEW c \in Call, Becomes(p, c), c.at # "cas"
  PROVE  SeenInv'
  BY BecomesEffect DEF SeenInv

\* A gate that does not fall keeps the trials apart.
LEMMA GateRises ==
  ASSUME TypeOK, GateInv, trial' = trial,
         \A n \in Nodes : gate'[n] \in Nat /\ gate'[n] >= gate[n]
  PROVE  GateInv'
<1>1. \A n \in Nodes : gate[n] \in Nat /\ (trial[n] # NoTrial => trial[n] \in Nat)
  <2>1. gate \in [Nodes -> Nat] /\ trial \in [Nodes -> Times \cup {NoTrial}]
    BY DEF TypeOK
  <2> QED
    BY <2>1
<1> QED
  BY <1>1 DEF GateInv

\* A gate that is cleared takes the memory of the trial with it.
LEMMA GateClears ==
  ASSUME TypeOK, GateInv, NEW m \in Nodes,
         gate' = [gate EXCEPT ![m] = 0], trial' = [trial EXCEPT ![m] = NoTrial]
  PROVE  GateInv'
<1>1. /\ \A n \in Nodes : n # m => gate'[n] = gate[n] /\ trial'[n] = trial[n]
      /\ trial'[m] = NoTrial
  BY DEF TypeOK
<1> QED
  BY <1>1 DEF GateInv

\* A trial sets the gate an interval past its caller's now_ms.
LEMMA GateClaims ==
  ASSUME TypeOK, GateInv, NEW m \in Nodes, NEW t \in Times,
         gate' = [gate EXCEPT ![m] = t + Interval], trial' = [trial EXCEPT ![m] = t]
  PROVE  GateInv'
<1>1. /\ \A n \in Nodes : n # m => gate'[n] = gate[n] /\ trial'[n] = trial[n]
      /\ trial'[m] = t /\ gate'[m] = t + Interval
  BY DEF TypeOK
<1> QED
  BY <1>1 DEF GateInv

-----------------------------------------------------------------------------
(* The types, variable by variable *)

\* Decrement and Capped keep the counters in their ranges.
LEMMA CounterTypes ==
  ASSUME TypeOK
  PROVE  /\ \A n \in Nodes : [inflight EXCEPT ![n] = Decrement(@)] \in [Nodes -> Nat]
         /\ \A n \in Nodes : [inflight EXCEPT ![n] = @ + 1] \in [Nodes -> Nat]
         /\ \A n \in Nodes : [failures EXCEPT ![n] = Capped(@, FailureTrip)]
                               \in [Nodes -> 0..FailureTrip]
         /\ \A n \in Nodes : [failures EXCEPT ![n] = 0] \in [Nodes -> 0..FailureTrip]
<1>1. inflight \in [Nodes -> Nat] /\ failures \in [Nodes -> 0..FailureTrip]
  BY DEF TypeOK
<1>2. \A i \in Nat : Decrement(i) \in Nat
  BY DEF Decrement
<1>3. \A i \in 0..FailureTrip : Capped(i, FailureTrip) \in 0..FailureTrip
  BY DEF Capped
<1>4. \A n \in Nodes : [inflight EXCEPT ![n] = Decrement(@)] \in [Nodes -> Nat]
  BY <1>1, <1>2
<1>5. \A n \in Nodes : [inflight EXCEPT ![n] = @ + 1] \in [Nodes -> Nat]
  BY <1>1
<1>6. \A n \in Nodes : [failures EXCEPT ![n] = Capped(@, FailureTrip)]
                         \in [Nodes -> 0..FailureTrip]
  BY <1>1, <1>3
<1>7. \A n \in Nodes : [failures EXCEPT ![n] = 0] \in [Nodes -> 0..FailureTrip]
  BY <1>1
<1> QED
  BY <1>4, <1>5, <1>6, <1>7

\* The gates stay natural numbers.
LEMMA GateTypes ==
  ASSUME TypeOK
  PROVE  /\ \A n \in Nodes : [gate EXCEPT ![n] = 0] \in [Nodes -> Nat]
         /\ \A n \in Nodes, t \in Times : [gate EXCEPT ![n] = t + Interval] \in [Nodes -> Nat]
<1>1. gate \in [Nodes -> Nat]
  BY DEF TypeOK
<1> QED
  BY <1>1

\* fetch_max on a gate.
LEMMA GateMax ==
  ASSUME TypeOK, NEW m \in Nodes, NEW t \in Times,
         gate' = [gate EXCEPT ![m] = Larger(@, t + Interval)]
  PROVE  /\ gate' \in [Nodes -> Nat]
         /\ \A n \in Nodes : gate'[n] \in Nat /\ gate'[n] >= gate[n]
<1>1. gate \in [Nodes -> Nat]
  BY DEF TypeOK
<1>2. Larger(gate[m], t + Interval) \in Nat /\ Larger(gate[m], t + Interval) >= gate[m]
  BY <1>1 DEF Larger
<1> QED
  BY <1>1, <1>2

\* A request given up by its caller is counted up to the bound.
LEMMA StrayType ==
  ASSUME TypeOK, NEW p \in Proc, Forsake(p)
  PROVE  stray' \in [Nodes -> 0..MaxBoxes]
<1>1. stray \in [Nodes -> 0..MaxBoxes] /\ call[p].node \in Nodes
  BY CallFields DEF TypeOK
<1> QED
  BY <1>1 DEF Forsake, Capped

-----------------------------------------------------------------------------
(* One lemma per action of a caller *)

\* A caller's step that only moves it to a place without a reservation and
\* without a sandbox of its own.
LEMMA QuietStep ==
  ASSUME ClusterInv, NEW p \in Proc, NEW c \in Call, Becomes(p, c),
         ~Reserving(p), c.at \notin {"await", "open", "cas"},
         c.landed \in {0, call[p].landed}, c.at \in {"idle", "next"} => c.landed = 0,
         UNCHANGED <<clock, inflight, failures, gate, probe, world, trial>>,
         cursor' \in Nodes
  PROVE  ClusterInv'
<1>1. TypeOK'
  BY BecomesEffect DEF ClusterInv, TypeOK, world
<1>2. GateInv' /\ SeenInv'
  BY SeenKeep DEF ClusterInv, GateInv
<1>3. IdInv'
  BY IdKeep DEF ClusterInv, world
<1>4. CountInv'
  BY CountKeep DEF ClusterInv, world
<1> QED
  BY <1>1, <1>2, <1>3, <1>4 DEF ClusterInv

\* The candidate list is a sequence of nodes.
LEMMA OrdersAreSequences == \A t : CandidateOrders(t) \subseteq Seq(Nodes)
<1> SUFFICES ASSUME NEW t PROVE CandidateOrders(t) \subseteq Seq(Nodes)
  OBVIOUS
<1> DEFINE C == {n \in Nodes : Admissible(n, t)}
<1>1. IsFiniteSet(Nodes)
  BY FS_Interval
<1>2. Cardinality(C) \in Nat
  BY <1>1, FS_Subset, FS_CardinalityType
<1>3. CandidateOrders(t) \subseteq [1..Cardinality(C) -> C]
  BY DEF CandidateOrders
<1> HIDE DEF C
<1>4. C \subseteq Nodes
  BY DEF C
<1>5. ASSUME NEW f \in [1..Cardinality(C) -> C] PROVE f \in Seq(Nodes)
  <2>1. f \in [1..Cardinality(C) -> Nodes]
    BY <1>4
  <2> QED
    BY <1>2, <2>1, SeqDef, Zenon
<1> QED
  BY <1>3, <1>5

\* A call begins with the candidates in order.
LEMMA BeginCreateKeeps ==
  ASSUME ClusterInv, NEW p \in Proc, BeginCreate(p)
  PROVE  ClusterInv'
<1>1. PICK order \in CandidateOrders(clock) :
        Becomes(p, [Idle EXCEPT !.at = "next", !.now = clock, !.cands = order])
  BY DEF BeginCreate
<1>2. order \in Seq(Nodes) /\ clock \in Times
  BY <1>1, OrdersAreSequences DEF ClusterInv, TypeOK
<1>3. PICK c : /\ c = [Idle EXCEPT !.at = "next", !.now = clock, !.cands = order]
               /\ Becomes(p, c)
  BY <1>1, Zenon
<1>4. c \in Call /\ c.at = "next" /\ c.landed = 0
  BY <1>2, <1>3, FreshRecord, Zenon
<1>5. cursor' \in Nodes
  <2>1. \A a \in Nat : a % NNodes \in Nodes
    OBVIOUS
  <2>2. cursor + 1 \in Nat
    BY DEF ClusterInv, TypeOK
  <2> QED
    BY <2>1, <2>2 DEF BeginCreate
<1>6. ~Reserving(p)
  BY DEF BeginCreate, Reserving
<1> QED
  BY <1>3, <1>4, <1>5, <1>6, QuietStep DEF BeginCreate

\* GiveUp, and a caller that leaves reconcile().
LEMMA ToIdleKeeps ==
  ASSUME ClusterInv, NEW p \in Proc, Becomes(p, Idle), ~Reserving(p),
         UNCHANGED <<clock, inflight, failures, gate, cursor, probe, world, trial>>
  PROVE  ClusterInv'
<1>1. cursor' \in Nodes
  BY DEF ClusterInv, TypeOK
<1> QED
  BY <1>1, ConstantRecords, QuietStep

\* The loop goes on to the next candidate.
LEMMA OnwardKeeps ==
  ASSUME ClusterInv, NEW p \in Proc, NEW left \in Seq(Nodes), Becomes(p, Onward(p, left)),
         ~Reserving(p),
         UNCHANGED <<clock, inflight, failures, gate, cursor, probe, world, trial>>
  PROVE  ClusterInv'
<1>1. cursor' \in Nodes
  BY DEF ClusterInv, TypeOK
<1>2. /\ Onward(p, left) \in Call
      /\ Onward(p, left).at = "next" /\ Onward(p, left).landed = 0
  BY OnwardRecord DEF ClusterInv
<1> QED
  BY <1>1, <1>2, QuietStep

\* The next candidate is a node.
LEMMA HeadIsNode ==
  ASSUME TypeOK, NEW p \in Proc, call[p].cands # << >>
  PROVE  Head(call[p].cands) \in Nodes /\ Tail(call[p].cands) \in Seq(Nodes)
<1>1. call[p].cands \in Seq(Nodes)
  BY CallFields DEF TypeOK
<1> QED
  BY <1>1, HeadTailProperties

\* What arming the guard makes of the call.
LEMMA AttemptRecord ==
  ASSUME ClusterInv, NEW p \in Proc, NEW n \in Nodes, Attempt(p, n),
         call[p].cands # << >>
  PROVE  \E c \in Call : /\ Becomes(p, c) /\ c.at = "await" /\ c.node = n
                         /\ c.landed = call[p].landed
<1>1. PICK b \in Call : b = call[p]
  BY DEF ClusterInv, TypeOK
<1>2. PICK left \in Seq(Nodes) : left = Tail(call[p].cands)
  BY HeadIsNode DEF ClusterInv
<1>3. PICK t \in Times : t = clock
  BY DEF ClusterInv, TypeOK
<1>4. PICK c : /\ Becomes(p, c)
               /\ c = [b EXCEPT !.at = "await", !.node = n, !.seen = 0,
                                !.cands = left, !.started = t]
  BY <1>1, <1>2, <1>3, Zenon DEF Attempt
<1>5. c \in Call /\ c.at = "await" /\ c.node = n /\ c.landed = b.landed
  BY <1>4 DEF Call
<1> QED
  BY <1>1, <1>4, <1>5, Zenon

\* Arming the guard, with whatever it does to the gate.
LEMMA AttemptKeeps ==
  ASSUME ClusterInv, NEW p \in Proc, NEW n \in Nodes, Attempt(p, n),
         call[p].at \in {"next", "cas"}, call[p].cands # << >>,
         UNCHANGED <<clock, failures, cursor, probe, world>>,
         gate' \in [Nodes -> Nat], trial' \in [Nodes -> Times \cup {NoTrial}], GateInv'
  PROVE  ClusterInv'
<1>1. PICK c \in Call : /\ Becomes(p, c) /\ c.at = "await" /\ c.node = n
                       /\ c.landed = call[p].landed
  BY AttemptRecord
<1>2. inflight' = [inflight EXCEPT ![n] = @ + 1]
  BY DEF Attempt
<1>3. TypeOK'
  <2>1. inflight' \in [Nodes -> Nat]
    BY <1>2, CounterTypes DEF ClusterInv
  <2>2. call' \in [Proc -> Call]
    BY <1>1, BecomesEffect DEF ClusterInv
  <2> QED
    BY <2>1, <2>2 DEF ClusterInv, TypeOK, world
<1>4. SeenInv'
  BY <1>1, SeenKeep DEF ClusterInv
<1>5. c.landed = 0 /\ ~Reserving(p)
  BY <1>1 DEF ClusterInv, IdInv, Reserving
<1>6. IdInv'
  BY <1>1, <1>5, IdKeep DEF ClusterInv, world
<1>7. CountInv'
  BY <1>1, <1>2, <1>5, CountEnter DEF ClusterInv, world
<1> QED
  BY <1>3, <1>4, <1>6, <1>7 DEF ClusterInv

\* An attempt on a node that is not tripped.
LEMMA AttemptHealthyKeeps ==
  ASSUME ClusterInv, NEW p \in Proc, AttemptHealthy(p)
  PROVE  ClusterInv'
<1>1. PICK n \in Nodes : n = Head(call[p].cands)
  BY HeadIsNode DEF ClusterInv, AttemptHealthy
<1>2. gate' \in [Nodes -> Nat] /\ trial' \in [Nodes -> Times \cup {NoTrial}] /\ GateInv'
  BY DEF AttemptHealthy, ClusterInv, TypeOK, GateInv
<1> QED
  BY <1>1, <1>2, AttemptKeeps DEF AttemptHealthy

\* The load of claim_trial(): what the caller saw lets it pass.
LEMMA LoadGateKeeps ==
  ASSUME ClusterInv, NEW p \in Proc, LoadGate(p)
  PROVE  ClusterInv'
<1>0. Head(call[p].cands) \in Nodes /\ Tail(call[p].cands) \in Seq(Nodes)
  BY HeadIsNode DEF ClusterInv, LoadGate
<1>1. PICK b \in Call : b = call[p]
  BY DEF ClusterInv, TypeOK
<1>2. PICK g \in Nat : g = gate[Head(call[p].cands)]
  BY <1>0 DEF ClusterInv, TypeOK
<1>3. ~Reserving(p) /\ call[p].landed = 0
  BY DEF LoadGate, Reserving, ClusterInv, IdInv
<1>4. CASE Becomes(p, Onward(p, Tail(call[p].cands)))
  BY <1>0, <1>3, <1>4, OnwardKeeps DEF LoadGate
<1>5. CASE /\ g = 0 \/ call[p].now >= g
           /\ Becomes(p, [b EXCEPT !.at = "cas", !.seen = g])
  <2>1. PICK c : c = [b EXCEPT !.at = "cas", !.seen = g] /\ Becomes(p, c)
    BY <1>5, Zenon
  <2>2. /\ c \in Call /\ c.at = "cas" /\ c.seen = g /\ c.now = b.now
        /\ c.cands = b.cands /\ c.landed = b.landed
    BY <2>1 DEF Call
  <2>3. /\ call' \in [Proc -> Call] /\ call'[p] = c
        /\ \A q \in Proc : q # p => call'[q] = call[q]
    BY <2>1, <2>2, BecomesEffect DEF ClusterInv
  <2>4. TypeOK'
    BY <2>3 DEF LoadGate, ClusterInv, TypeOK, world
  <2>5. GateInv'
    BY DEF LoadGate, ClusterInv, GateInv
  <2>6. SeenInv'
    <3>1. c.seen = 0 \/ c.seen <= c.now
      BY <1>1, <1>2, <1>5, <2>2, CallFields
    <3>2. c.cands # << >>
      BY <1>1, <2>2 DEF LoadGate
    <3> QED
      BY <2>3, <3>1, <3>2 DEF ClusterInv, SeenInv
  <2>7. IdInv'
    BY <1>1, <1>3, <2>1, <2>2, IdKeep DEF LoadGate, ClusterInv, world
  <2>8. CountInv'
    BY <1>3, <2>1, <2>2, CountKeep DEF LoadGate, ClusterInv, world
  <2> QED
    BY <2>4, <2>5, <2>6, <2>7, <2>8 DEF ClusterInv
<1> QED
  BY <1>1, <1>2, <1>4, <1>5 DEF LoadGate

\* The compare-exchange of claim_trial(), won or lost.
LEMMA ClaimTrialKeeps ==
  ASSUME ClusterInv, NEW p \in Proc, ClaimTrial(p)
  PROVE  ClusterInv'
<1>0. call[p].cands # << >> /\ ~Reserving(p)
  BY DEF ClaimTrial, ClusterInv, SeenInv, Reserving
<1>1. Tail(call[p].cands) \in Seq(Nodes)
  BY <1>0, HeadIsNode DEF ClusterInv
<1>2. PICK n \in Nodes : n = Head(call[p].cands)
  BY <1>0, HeadIsNode DEF ClusterInv
<1>3. PICK t \in Times : t = call[p].now
  BY CallFields DEF ClusterInv, TypeOK
<1>4. CASE Becomes(p, Onward(p, Tail(call[p].cands))) /\ UNCHANGED <<gate, inflight, trial>>
  BY <1>0, <1>1, <1>4, OnwardKeeps DEF ClaimTrial
<1>5. CASE /\ gate' = [gate EXCEPT ![n] = t + Interval]
           /\ trial' = [trial EXCEPT ![n] = t]
           /\ Attempt(p, n)
  <2>1. gate' \in [Nodes -> Nat]
    BY <1>5, GateTypes DEF ClusterInv
  <2>2. trial' \in [Nodes -> Times \cup {NoTrial}]
    BY <1>5 DEF ClusterInv, TypeOK
  <2>3. GateInv'
    BY <1>5, GateClaims DEF ClusterInv
  <2> QED
    BY <1>0, <1>5, <2>1, <2>2, <2>3, AttemptKeeps DEF ClaimTrial
<1> QED
  BY <1>2, <1>3, <1>4, <1>5 DEF ClaimTrial

\* A new identifier is larger than any in use.
LEMMA LandKeeps ==
  ASSUME ClusterInv, NEW p \in Proc, Land(p)
  PROVE  ClusterInv'
<1>1. PICK b \in Call : b = call[p]
  BY DEF ClusterInv, TypeOK
<1>2. PICK i \in 1..MaxBoxes : i = nextId
  BY DEF Land, ClusterInv, TypeOK
<1>3. PICK c : c = [b EXCEPT !.landed = i] /\ Becomes(p, c)
  BY <1>1, <1>2, Zenon DEF Land
<1>4. c \in Call /\ c.at = b.at /\ c.node = b.node /\ c.landed = i
  <2>1. i \in 0..MaxBoxes
    BY <1>2
  <2> QED
    BY <1>3, <2>1 DEF Call
<1>5. /\ call' \in [Proc -> Call] /\ call'[p] = c
      /\ \A q \in Proc : q # p => call'[q] = call[q]
  BY <1>3, <1>4, BecomesEffect DEF ClusterInv
<1>6. TypeOK'
  <2>1. boxes' \in SUBSET Box
    <3>1. Created(call[p].node) \in Box
      BY <1>1, <1>2, CallFields DEF Created, Box, ClusterInv, TypeOK
    <3> QED
      BY <3>1 DEF Land, ClusterInv, TypeOK
  <2>2. nextId' \in 1..(MaxBoxes + 1)
    BY <1>2 DEF Land
  <2> QED
    BY <1>5, <2>1, <2>2 DEF Land, ClusterInv, TypeOK
<1>7. GateInv' /\ SeenInv'
  <2>1. c.at # "cas"
    BY <1>1, <1>4 DEF Land
  <2> QED
    BY <1>3, <1>4, <2>1, SeenKeep DEF Land, ClusterInv, GateInv
<1>8. IdInv'
  <2>1. /\ nextId \in Nat /\ nextId' = nextId + 1 /\ held' = held
        /\ \A q \in Proc : call[q].landed \in Nat /\ call[q].landed < nextId
        /\ \A h \in held : h[1] \in Nat /\ h[1] < nextId
    <3>1. nextId \in Nat /\ nextId' = nextId + 1 /\ held' = held
      BY <1>2 DEF Land
    <3>2. \A q \in Proc : call[q].landed \in Nat
      BY CallFields DEF ClusterInv, TypeOK
    <3>3. \A h \in held : h[1] \in Nat
      <4>1. held \in SUBSET (BoxIds \X Nodes)
        BY DEF ClusterInv, TypeOK
      <4> QED
        BY <4>1
    <3> QED
      BY <3>1, <3>2, <3>3 DEF ClusterInv, IdInv
  <2>2. \A q \in Proc : call'[q].at \in {"idle", "next", "cas"} => call'[q].landed = 0
    BY <1>1, <1>4, <1>5 DEF Land, ClusterInv, IdInv
  <2>3. \A q \in Proc : call'[q].at = "open" => call'[q].landed # 0
    BY <1>4, <1>5 DEF ClusterInv, IdInv
  <2>4. \A q \in Proc : call'[q].landed < nextId'
    BY <1>2, <1>4, <1>5, <2>1
  <2>5. \A h \in held' : h[1] < nextId'
    BY <2>1
  <2>6. \A q \in Proc, h \in held' : Reserving(q)' => h[1] # call'[q].landed
    BY <1>2, <1>4, <1>5, <2>1 DEF ClusterInv, IdInv, Reserving
  <2>7. \A q, r \in Proc :
          Reserving(q)' /\ Reserving(r)' /\ call'[q].landed # 0
            /\ call'[q].landed = call'[r].landed => q = r
    <3> SUFFICES ASSUME NEW q \in Proc, NEW r \in Proc, Reserving(q)', Reserving(r)',
                        call'[q].landed # 0, call'[q].landed = call'[r].landed
                 PROVE  q = r
      BY Zenon
    <3>1. \A x \in Proc : x # p => call'[x].landed # i
      BY <1>2, <1>5, <2>1
    <3>2. CASE q = p \/ r = p
      BY <1>4, <1>5, <3>1, <3>2
    <3>3. CASE q # p /\ r # p
      <4>1. Reserving(q) /\ Reserving(r) /\ call'[q] = call[q] /\ call'[r] = call[r]
        BY <1>5, <3>3 DEF Reserving
      <4> QED
        BY <4>1 DEF ClusterInv, IdInv
    <3> QED
      BY <3>2, <3>3
  <2> QED
    BY <2>2, <2>3, <2>4, <2>5, <2>6, <2>7, Zenon DEF IdInv
<1>9. CountInv'
  BY <1>1, <1>3, <1>4, CountKeep DEF Land, ClusterInv, Reserving
<1> QED
  BY <1>6, <1>7, <1>8, <1>9 DEF ClusterInv

\* failures.store(0) after a create that landed.
LEMMA CreateOkKeeps ==
  ASSUME ClusterInv, NEW p \in Proc, CreateOk(p)
  PROVE  ClusterInv'
<1>1. PICK b \in Call : b = call[p] /\ b.node \in Nodes
  BY CallFields DEF ClusterInv, TypeOK
<1>2. PICK c : c = [b EXCEPT !.at = "open"] /\ Becomes(p, c)
  BY <1>1, Zenon DEF CreateOk
<1>3. c \in Call /\ c.at = "open" /\ c.node = b.node /\ c.landed = b.landed
  BY <1>2 DEF Call
<1>4. TypeOK'
  <2>1. failures' \in [Nodes -> 0..FailureTrip]
    BY <1>1, CounterTypes DEF CreateOk, ClusterInv
  <2>2. call' \in [Proc -> Call]
    BY <1>2, <1>3, BecomesEffect DEF ClusterInv
  <2> QED
    BY <2>1, <2>2 DEF CreateOk, ClusterInv, TypeOK, world
<1>5. GateInv' /\ SeenInv'
  BY <1>2, <1>3, SeenKeep DEF CreateOk, ClusterInv, GateInv
<1>6. IdInv'
  BY <1>1, <1>2, <1>3, IdKeep DEF CreateOk, ClusterInv, Reserving, world
<1>7. CountInv'
  BY <1>1, <1>2, <1>3, CountKeep DEF CreateOk, ClusterInv, Reserving, world
<1> QED
  BY <1>4, <1>5, <1>6, <1>7 DEF ClusterInv

\* The handle is returned: its identifier moves from the caller to the handles.
LEMMA ReturnHandleKeeps ==
  ASSUME ClusterInv, NEW p \in Proc, ReturnHandle(p)
  PROVE  ClusterInv'
<1>0. Idle \in Call /\ Idle.at = "idle" /\ Idle.landed = 0 /\ Becomes(p, Idle)
  BY ConstantRecords DEF ReturnHandle
<1>1. PICK m \in Nodes : m = call[p].node
  BY CallFields DEF ClusterInv, TypeOK
<1>2. PICK i \in 1..MaxBoxes : i = call[p].landed /\ i < nextId
  <2>1. call[p].landed \in 0..MaxBoxes
    BY CallFields DEF ClusterInv, TypeOK
  <2>2. call[p].landed # 0 /\ call[p].landed < nextId
    BY DEF ReturnHandle, ClusterInv, IdInv
  <2> QED
    BY <2>1, <2>2
<1>3. held' = held \cup {<<i, m>>}
  BY <1>1, <1>2 DEF ReturnHandle
<1>4. /\ call' \in [Proc -> Call] /\ call'[p] = Idle
      /\ \A q \in Proc : q # p => call'[q] = call[q]
  BY <1>0, BecomesEffect DEF ClusterInv
<1>5. TypeOK'
  <2>1. gate' \in [Nodes -> Nat]
    BY <1>1, GateTypes DEF ReturnHandle, ClusterInv
  <2>2. trial' \in [Nodes -> Times \cup {NoTrial}]
    BY <1>1 DEF ReturnHandle, ClusterInv, TypeOK
  <2>3. held' \in SUBSET (BoxIds \X Nodes)
    <3>1. held \in SUBSET (BoxIds \X Nodes)
      BY DEF ClusterInv, TypeOK
    <3>2. <<i, m>> \in BoxIds \X Nodes
      BY <1>2
    <3> QED
      BY <1>3, <3>1, <3>2, Zenon
  <2> QED
    BY <1>4, <2>1, <2>2, <2>3 DEF ReturnHandle, ClusterInv, TypeOK
<1>6. GateInv'
  BY <1>1, GateClears DEF ReturnHandle, ClusterInv
<1>7. SeenInv'
  BY <1>0, SeenKeep DEF ClusterInv
<1>8. IdInv'
  <2>1. \A h \in held' : h \in held \/ h[1] = i
    BY <1>3
  <2>2. nextId' = nextId
    BY DEF ReturnHandle
  <2>3. \A q \in Proc : call'[q].at \in {"idle", "next", "cas"} => call'[q].landed = 0
    BY <1>0, <1>4 DEF ClusterInv, IdInv
  <2>4. \A q \in Proc : call'[q].at = "open" => call'[q].landed # 0
    BY <1>0, <1>4 DEF ClusterInv, IdInv
  <2>5. \A q \in Proc : call'[q].landed < nextId'
    <3>1. nextId \in 1..(MaxBoxes + 1)
      BY DEF ClusterInv, TypeOK
    <3>2. \A q \in Proc : call[q].landed < nextId
      BY DEF ClusterInv, IdInv
    <3> QED
      BY <1>0, <1>4, <2>2, <3>1, <3>2
  <2>6. \A h \in held' : h[1] < nextId'
    BY <1>2, <2>1, <2>2 DEF ClusterInv, IdInv
  <2>7. ASSUME NEW q \in Proc, NEW h \in held', Reserving(q)'
        PROVE  h[1] # call'[q].landed
    <3>1. q # p /\ call'[q] = call[q] /\ Reserving(q)
      BY <1>0, <1>4, <2>7 DEF Reserving
    <3>2. Reserving(p)
      BY DEF ReturnHandle, Reserving
    <3>3. CASE h \in held
      BY <3>1, <3>3 DEF ClusterInv, IdInv
    <3>4. CASE h[1] = i
      BY <1>2, <3>1, <3>2, <3>4 DEF ClusterInv, IdInv
    <3> QED
      BY <2>1, <3>3, <3>4
  <2>8. ASSUME NEW q \in Proc, NEW r \in Proc, Reserving(q)', Reserving(r)',
               call'[q].landed # 0, call'[q].landed = call'[r].landed
        PROVE  q = r
    <3>1. /\ call'[q] = call[q] /\ Reserving(q)
          /\ call'[r] = call[r] /\ Reserving(r)
      BY <1>0, <1>4, <2>8 DEF Reserving
    <3> QED
      BY <2>8, <3>1 DEF ClusterInv, IdInv
  <2> QED
    BY <2>3, <2>4, <2>5, <2>6, <2>7, <2>8, Zenon DEF IdInv
<1>9. CountInv'
  BY <1>0, CountHandOver DEF ReturnHandle, ClusterInv
<1> QED
  BY <1>5, <1>6, <1>7, <1>8, <1>9 DEF ClusterInv

\* A caller without a reservation goes to another such place, whatever it does to
\* the failure counts, the sandboxes and, upwards, to the gates.
LEMMA UnreservedStep ==
  ASSUME ClusterInv, NEW p \in Proc, NEW c \in Call, Becomes(p, c),
         ~Reserving(p), c.at \notin {"await", "open", "cas"},
         c.landed \in {0, call[p].landed}, c.at \in {"idle", "next"} => c.landed = 0,
         UNCHANGED <<clock, inflight, cursor, probe, held, stray, nextId, trial>>,
         failures' \in [Nodes -> 0..FailureTrip],
         gate' \in [Nodes -> Nat], GateInv',
         boxes' \in SUBSET Box
  PROVE  ClusterInv'
<1>1. TypeOK'
  BY BecomesEffect DEF ClusterInv, TypeOK
<1>2. SeenInv'
  BY SeenKeep DEF ClusterInv
<1>3. IdInv'
  BY IdKeep DEF ClusterInv
<1>4. CountInv'
  BY CountKeep DEF ClusterInv
<1> QED
  BY <1>1, <1>2, <1>3, <1>4 DEF ClusterInv

\* A caller drops its guard.
LEMMA LeaveStep ==
  ASSUME ClusterInv, NEW p \in Proc, NEW c \in Call, Becomes(p, c),
         Reserving(p), c.at \in {"idle", "strike"},
         c.landed \in {0, call[p].landed}, c.at = "idle" => c.landed = 0,
         DropGuard(p), stray' \in [Nodes -> 0..MaxBoxes],
         UNCHANGED <<clock, failures, gate, cursor, probe, boxes, held, nextId, trial>>
  PROVE  ClusterInv'
<1>1. TypeOK'
  <2>1. call[p].node \in Nodes
    BY CallFields DEF ClusterInv, TypeOK
  <2>2. inflight' \in [Nodes -> Nat]
    BY <2>1, CounterTypes DEF DropGuard, ClusterInv
  <2> QED
    BY <2>2, BecomesEffect DEF ClusterInv, TypeOK
<1>2. GateInv' /\ SeenInv'
  BY SeenKeep DEF ClusterInv, GateInv
<1>3. IdInv'
  BY IdKeep DEF ClusterInv
<1>4. CountInv'
  BY CountLeave DEF ClusterInv
<1> QED
  BY <1>1, <1>2, <1>3, <1>4 DEF ClusterInv

\* 4xx: the attempt ends with its guard.
LEMMA RejectedKeeps ==
  ASSUME ClusterInv, NEW p \in Proc, Rejected(p)
  PROVE  ClusterInv'
<1>1. Reserving(p) /\ stray' \in [Nodes -> 0..MaxBoxes]
  BY DEF Rejected, Reserving, world, ClusterInv, TypeOK
<1> QED
  BY <1>1, ConstantRecords, LeaveStep DEF Rejected, world

\* A node fault: the guard is dropped and the request may still be on its way.
LEMMA NodeFaultKeeps ==
  ASSUME ClusterInv, NEW p \in Proc, NodeFault(p)
  PROVE  ClusterInv'
<1>1. PICK b \in Call : b = call[p]
  BY DEF ClusterInv, TypeOK
<1>2. PICK c : c = [b EXCEPT !.at = "strike"] /\ Becomes(p, c)
  BY <1>1, Zenon DEF NodeFault
<1>3. c \in Call /\ c.at = "strike" /\ c.landed = b.landed
  BY <1>2 DEF Call
<1>4. stray' \in [Nodes -> 0..MaxBoxes]
  BY StrayType DEF NodeFault, ClusterInv
<1>5. Reserving(p)
  BY DEF NodeFault, Reserving
<1> QED
  BY <1>1, <1>2, <1>3, <1>4, <1>5, LeaveStep DEF NodeFault

\* What reconcile() starts with.
LEMMA ListRecord ==
  ASSUME TypeOK, NEW p \in Proc,
         Becomes(p, [call[p] EXCEPT !.at = "list", !.until = clock])
  PROVE  \E c \in Call : Becomes(p, c) /\ c.at = "list" /\ c.landed = call[p].landed
<1>1. PICK b \in Call : b = call[p]
  BY DEF TypeOK
<1>2. PICK t \in Times : t = clock
  BY DEF TypeOK
<1>3. PICK c : c = [b EXCEPT !.at = "list", !.until = t] /\ Becomes(p, c)
  BY <1>1, <1>2, Zenon
<1>4. c \in Call /\ c.at = "list" /\ c.landed = b.landed
  BY <1>3 DEF Call
<1> QED
  BY <1>1, <1>3, <1>4, Zenon

\* failures.fetch_add(1).
LEMMA StrikeKeeps ==
  ASSUME ClusterInv, NEW p \in Proc, Strike(p)
  PROVE  ClusterInv'
<1>1. PICK b \in Call : b = call[p] /\ b.node \in Nodes
  BY CallFields DEF ClusterInv, TypeOK
<1>2. PICK c \in Call : Becomes(p, c) /\ c.at \in {"trip", "list"} /\ c.landed = call[p].landed
  <2>1. CASE Becomes(p, [call[p] EXCEPT !.at = "trip"])
    <3>1. PICK c : c = [b EXCEPT !.at = "trip"] /\ Becomes(p, c)
      BY <1>1, <2>1, Zenon
    <3>2. c \in Call /\ c.at = "trip" /\ c.landed = b.landed
      BY <3>1 DEF Call
    <3> QED
      BY <1>1, <3>1, <3>2, Zenon
  <2>2. CASE Becomes(p, [call[p] EXCEPT !.at = "list", !.until = clock])
    BY <2>2, ListRecord, Zenon DEF ClusterInv
  <2> QED
    BY <2>1, <2>2, Zenon DEF Strike
<1>3. failures' \in [Nodes -> 0..FailureTrip]
  BY <1>1, CounterTypes DEF Strike, ClusterInv
<1>4. gate' \in [Nodes -> Nat] /\ GateInv' /\ boxes' \in SUBSET Box
  BY DEF Strike, ClusterInv, TypeOK, GateInv, world
<1>5. ~Reserving(p)
  BY DEF Strike, Reserving
<1> QED
  BY <1>2, <1>3, <1>4, <1>5, UnreservedStep DEF Strike, world

\* next_trial_ms.fetch_max.
LEMMA TripKeeps ==
  ASSUME ClusterInv, NEW p \in Proc, Trip(p)
  PROVE  ClusterInv'
<1>1. PICK c \in Call : Becomes(p, c) /\ c.at = "list" /\ c.landed = call[p].landed
  BY ListRecord DEF Trip, ClusterInv
<1>2. PICK m \in Nodes, t \in Times : m = call[p].node /\ t = call[p].now
  BY CallFields DEF ClusterInv, TypeOK
<1>3. gate' = [gate EXCEPT ![m] = Larger(@, t + Interval)]
  BY <1>2 DEF Trip
<1>4. /\ gate' \in [Nodes -> Nat]
      /\ \A n \in Nodes : gate'[n] \in Nat /\ gate'[n] >= gate[n]
  BY <1>3, GateMax DEF ClusterInv
<1>5. GateInv'
  BY <1>4, GateRises DEF Trip, ClusterInv
<1>6. failures' \in [Nodes -> 0..FailureTrip] /\ boxes' \in SUBSET Box
  BY DEF Trip, ClusterInv, TypeOK, world
<1>7. ~Reserving(p)
  BY DEF Trip, Reserving
<1> QED
  BY <1>1, <1>4, <1>5, <1>6, <1>7, UnreservedStep DEF Trip, world

\* The listing of reconcile().
LEMMA ReconcileListKeeps ==
  ASSUME ClusterInv, NEW p \in Proc, ReconcileList(p)
  PROVE  ClusterInv'
<1>1. PICK b \in Call : b = call[p] /\ b.cands \in Seq(Nodes)
  BY CallFields DEF ClusterInv, TypeOK
<1>2. ~Reserving(p)
  BY DEF ReconcileList, Reserving
<1>3. CASE Becomes(p, Onward(p, call[p].cands))
  BY <1>1, <1>2, <1>3, OnwardKeeps DEF ReconcileList
<1>4. CASE \E x \in Matches(p) :
             Becomes(p, [call[p] EXCEPT !.at = "delete", !.target = x.id])
  <2>1. PICK x \in Matches(p) :
          Becomes(p, [call[p] EXCEPT !.at = "delete", !.target = x.id])
    BY <1>4
  <2>2. x \in Box
    BY <2>1 DEF Matches, ClusterInv, TypeOK
  <2>3. PICK i \in 0..MaxBoxes : i = x.id
    BY <2>2 DEF Box
  <2>4. PICK c : c = [b EXCEPT !.at = "delete", !.target = i] /\ Becomes(p, c)
    BY <1>1, <2>1, <2>3, Zenon
  <2>5. c \in Call /\ c.at = "delete" /\ c.landed = b.landed
    BY <2>4 DEF Call
  <2>6. cursor' \in Nodes
    BY DEF ReconcileList, ClusterInv, TypeOK
  <2> QED
    BY <1>1, <1>2, <2>4, <2>5, <2>6, QuietStep DEF ReconcileList
<1> QED
  BY <1>3, <1>4 DEF ReconcileList

\* The delete of reconcile().
LEMMA ReconcileDeleteKeeps ==
  ASSUME ClusterInv, NEW p \in Proc, ReconcileDelete(p)
  PROVE  ClusterInv'
<1>1. PICK left \in Seq(Nodes) : left = call[p].cands
  BY CallFields DEF ClusterInv, TypeOK
<1>2. PICK c \in Call : Becomes(p, c) /\ c.at = "next" /\ c.landed = 0
  BY <1>1, OnwardRecord, Zenon DEF ReconcileDelete, ClusterInv
<1>3. failures' \in [Nodes -> 0..FailureTrip] /\ gate' \in [Nodes -> Nat] /\ GateInv'
  BY DEF ReconcileDelete, ClusterInv, TypeOK, GateInv
<1>4. boxes' \in SUBSET Box
  BY DEF ReconcileDelete, ClusterInv, TypeOK
<1>5. ~Reserving(p)
  BY DEF ReconcileDelete, Reserving
<1> QED
  BY <1>2, <1>3, <1>4, <1>5, UnreservedStep DEF ReconcileDelete

\* reconcile() fails.
LEMMA ReconcileFailsKeeps ==
  ASSUME ClusterInv, NEW p \in Proc, ReconcileFails(p)
  PROVE  ClusterInv'
<1>1. call[p].cands \in Seq(Nodes)
  BY CallFields DEF ClusterInv, TypeOK
<1>2. ~Reserving(p)
  BY DEF ReconcileFails, Reserving
<1> QED
  BY <1>1, <1>2, OnwardKeeps DEF ReconcileFails

\* The create future is dropped.
LEMMA AbortKeeps ==
  ASSUME ClusterInv, NEW p \in Proc, Abort(p)
  PROVE  ClusterInv'
<1>1. CASE call[p].at = "await" /\ DropGuard(p) /\ Forsake(p)
  <2>1. stray' \in [Nodes -> 0..MaxBoxes]
    BY <1>1, StrayType DEF ClusterInv
  <2>2. Reserving(p)
    BY <1>1 DEF Reserving
  <2> QED
    BY <1>1, <2>1, <2>2, ConstantRecords, LeaveStep DEF Abort
<1>2. CASE call[p].at \in {"list", "delete"} /\ UNCHANGED <<inflight, stray>>
  <2>1. ~Reserving(p)
    BY <1>2 DEF Reserving
  <2> QED
    BY <1>2, <2>1, ToIdleKeeps DEF Abort, world
<1> QED
  BY <1>1, <1>2 DEF Abort

-----------------------------------------------------------------------------
(* The steps that touch no caller *)

\* Identifiers stay apart when no caller moves and no handle is added.
LEMMA AsideStep ==
  ASSUME ClusterInv, call' = call, held' \subseteq held, nextId' >= nextId,
         TypeOK', GateInv', CountInv'
  PROVE  ClusterInv'
<1>1. SeenInv'
  BY DEF ClusterInv, SeenInv
<1>2. nextId \in Nat /\ nextId' \in Nat
  BY DEF ClusterInv, TypeOK
<1>3. \A p \in Proc : call[p].landed \in Nat
  BY CallFields DEF ClusterInv, TypeOK
<1>4. \A h \in held : h[1] \in Nat
  <2>1. held \subseteq BoxIds \X Nodes
    BY Zenon DEF ClusterInv, TypeOK
  <2> QED
    BY <2>1
<1>5. \A p \in Proc : call'[p].landed < nextId'
  BY <1>2, <1>3 DEF ClusterInv, IdInv
<1>6. \A h \in held' : h[1] < nextId'
  <2>1. \A h \in held : h[1] < nextId
    BY DEF ClusterInv, IdInv
  <2>2. ASSUME NEW h \in held' PROVE h[1] < nextId'
    <3>1. PICK i \in Nat : i = h[1] /\ i < nextId
      BY <1>4, <2>1
    <3> QED
      BY <1>2, <3>1
  <2> QED
    BY <2>2
<1>7. IdInv'
  <2>1. IdInv
    BY DEF ClusterInv
  <2>2. \A p \in Proc : Reserving(p)' <=> Reserving(p)
    BY DEF Reserving
  <2>3. \A p \in Proc, h \in held' : Reserving(p)' => h[1] # call'[p].landed
    BY <2>1, <2>2 DEF IdInv
  <2>4. \A p, q \in Proc :
          Reserving(p)' /\ Reserving(q)' /\ call'[p].landed # 0
            /\ call'[p].landed = call'[q].landed => p = q
    BY <2>1, <2>2 DEF IdInv
  <2>5. /\ \A p \in Proc : call'[p].at \in {"idle", "next", "cas"} => call'[p].landed = 0
        /\ \A p \in Proc : call'[p].at = "open" => call'[p].landed # 0
    BY <2>1 DEF IdInv
  <2> QED
    BY <1>5, <1>6, <2>3, <2>4, <2>5, Zenon DEF IdInv
<1> QED
  BY <1>1, <1>7 DEF ClusterInv

\* A late create, a dropped handle, release(), delete_on() and time.
LEMMA WorldKeeps ==
  ASSUME ClusterInv,
         \/ \E n \in Nodes : LandLate(n) \/ Release(n)
         \/ \E h \in held : DropHandle(h)
         \/ \E b \in boxes : DeleteOn(b)
         \/ Tick
  PROVE  ClusterInv'
<1>0. nextId \in Nat
  BY DEF ClusterInv, TypeOK
<1>1. ASSUME NEW n \in Nodes, LandLate(n) PROVE ClusterInv'
  <2>1. PICK i \in 1..MaxBoxes : i = nextId
    BY <1>1 DEF LandLate, ClusterInv, TypeOK
  <2>2. Created(n) \in Box
    BY <2>1 DEF Created, Box, ClusterInv, TypeOK
  <2>3. boxes' \in SUBSET Box
    BY <1>1, <2>2 DEF LandLate, ClusterInv, TypeOK
  <2>4. nextId' \in 1..(MaxBoxes + 1) /\ nextId' >= nextId
    BY <1>1, <2>1 DEF LandLate
  <2>5. stray' \in [Nodes -> 0..MaxBoxes]
    <3>1. stray \in [Nodes -> 0..MaxBoxes]
      BY DEF ClusterInv, TypeOK
    <3> QED
      BY <1>1, <3>1 DEF LandLate
  <2>6. TypeOK'
    BY <1>1, <2>3, <2>4, <2>5 DEF LandLate, ClusterInv, TypeOK
  <2>7. GateInv' /\ CountInv'
    BY <1>1, CountStill DEF LandLate, ClusterInv, GateInv
  <2> QED
    BY <1>1, <2>4, <2>6, <2>7, AsideStep DEF LandLate
<1>2. ASSUME NEW n \in Nodes, Release(n) PROVE ClusterInv'
  <2>1. inflight' \in [Nodes -> Nat]
    BY <1>2, CounterTypes DEF Release, ClusterInv
  <2>2. TypeOK'
    BY <1>2, <2>1 DEF Release, ClusterInv, TypeOK, world
  <2>3. GateInv'
    BY <1>2 DEF Release, ClusterInv, GateInv
  <2>4. CountInv'
    BY <1>2, CountRelease DEF Release, ClusterInv, world
  <2> QED
    BY <1>0, <1>2, <2>2, <2>3, <2>4, AsideStep DEF Release, world
<1>3. ASSUME NEW h \in held, DropHandle(h) PROVE ClusterInv'
  <2>1. h[2] \in Nodes
    BY DEF ClusterInv, TypeOK
  <2>2. inflight' \in [Nodes -> Nat]
    BY <1>3, <2>1, CounterTypes DEF DropHandle, ClusterInv
  <2>3. TypeOK'
    BY <1>3, <2>2 DEF DropHandle, ClusterInv, TypeOK
  <2>4. GateInv'
    BY <1>3 DEF DropHandle, ClusterInv, GateInv
  <2>5. CountInv'
    BY <1>3, CountDropHandle DEF DropHandle, ClusterInv
  <2> QED
    BY <1>0, <1>3, <2>3, <2>4, <2>5, AsideStep DEF DropHandle
<1>4. ASSUME NEW b \in boxes, DeleteOn(b) PROVE ClusterInv'
  <2>1. TypeOK'
    BY <1>4 DEF DeleteOn, ClusterInv, TypeOK
  <2>2. GateInv' /\ CountInv'
    BY <1>4, CountStill DEF DeleteOn, ClusterInv, GateInv
  <2> QED
    BY <1>0, <1>4, <2>1, <2>2, AsideStep DEF DeleteOn
<1>5. ASSUME Tick PROVE ClusterInv'
  <2>1. clock' \in Times
    BY <1>5 DEF Tick, ClusterInv, TypeOK
  <2>2. TypeOK'
    BY <1>5, <2>1 DEF Tick, ClusterInv, TypeOK, world
  <2>3. GateInv' /\ CountInv'
    BY <1>5, CountStill DEF Tick, ClusterInv, GateInv, world
  <2> QED
    BY <1>0, <1>5, <2>2, <2>3, AsideStep DEF Tick, world
<1> QED
  BY <1>1, <1>2, <1>3, <1>4, <1>5

\* probe() goes from node to node.
LEMMA ProbeNextType ==
  ASSUME TypeOK, ProbeNext
  PROVE  probe' \in [at : {"idle", "judge", "open", "arm"}, node : Nodes, now : Times]
<1>1. PICK r \in [at : {"idle", "judge", "open", "arm"}, node : Nodes, now : Times] :
        r = probe
  BY DEF TypeOK
<1>2. CASE probe.node + 1 \in Nodes
  <2>1. PICK m \in Nodes : m = r.node + 1
    BY <1>1, <1>2
  <2>2. probe' = [r EXCEPT !.at = "judge", !.node = m]
    BY <1>1, <1>2, <2>1, Zenon DEF ProbeNext
  <2> QED
    BY <2>2
<1>3. CASE probe.node + 1 \notin Nodes
  BY <1>3, ConstantRecords, Zenon DEF ProbeNext
<1> QED
  BY <1>2, <1>3

\* The steps of probe().
LEMMA ProbeKeeps ==
  ASSUME ClusterInv, BeginProbe \/ ProbeJudge \/ ProbeOpen \/ ProbeArm
  PROVE  ClusterInv'
<1>0. nextId \in Nat
  BY DEF ClusterInv, TypeOK
<1>1. PICK r \in [at : {"idle", "judge", "open", "arm"}, node : Nodes, now : Times] :
        r = probe
  BY DEF ClusterInv, TypeOK
<1>2. PICK m \in Nodes, t \in Times : m = probe.node /\ t = probe.now
  BY <1>1
<1>3. /\ call' = call /\ held' = held /\ nextId' = nextId /\ CountInv'
      /\ UNCHANGED <<clock, inflight, cursor, boxes, stray>>
  <2>1. UNCHANGED <<clock, inflight, cursor, call, world>>
    BY Zenon DEF BeginProbe, ProbeJudge, ProbeOpen, ProbeArm
  <2> QED
    BY <2>1, CountStill DEF world, ClusterInv
<1>4. probe' \in [at : {"idle", "judge", "open", "arm"}, node : Nodes, now : Times]
  <2>1. CASE BeginProbe
    BY <2>1 DEF BeginProbe, ClusterInv, TypeOK
  <2>2. CASE ProbeNext
    BY <2>2, ProbeNextType DEF ClusterInv
  <2>3. CASE probe' = [r EXCEPT !.at = "open"] \/ probe' = [r EXCEPT !.at = "arm"]
    BY <2>3
  <2> QED
    BY <1>1, <2>1, <2>2, <2>3, Zenon DEF ProbeJudge, ProbeOpen, ProbeArm
<1>5. failures' \in [Nodes -> 0..FailureTrip]
  <2>1. CASE failures' = failures
    BY <2>1 DEF ClusterInv, TypeOK
  <2>2. CASE failures' = [failures EXCEPT ![m] = 0]
    BY <2>2, CounterTypes DEF ClusterInv
  <2> QED
    BY <1>2, <2>1, <2>2, Zenon DEF BeginProbe, ProbeJudge, ProbeOpen, ProbeArm
<1>6. /\ gate' \in [Nodes -> Nat]
      /\ trial' \in [Nodes -> Times \cup {NoTrial}]
      /\ GateInv'
  <2>1. CASE gate' = gate /\ trial' = trial
    BY <2>1 DEF ClusterInv, TypeOK, GateInv
  <2>2. CASE gate' = [gate EXCEPT ![m] = 0] /\ trial' = [trial EXCEPT ![m] = NoTrial]
    <3>1. gate' \in [Nodes -> Nat]
      BY <2>2, GateTypes DEF ClusterInv
    <3>2. trial' \in [Nodes -> Times \cup {NoTrial}]
      BY <2>2 DEF ClusterInv, TypeOK
    <3> QED
      BY <2>2, <3>1, <3>2, GateClears DEF ClusterInv
  <2>3. CASE gate' = [gate EXCEPT ![m] = Larger(@, t + Interval)] /\ trial' = trial
    <3>1. /\ gate' \in [Nodes -> Nat]
          /\ \A n \in Nodes : gate'[n] \in Nat /\ gate'[n] >= gate[n]
      BY <2>3, GateMax DEF ClusterInv
    <3>2. trial' \in [Nodes -> Times \cup {NoTrial}]
      BY <2>3 DEF ClusterInv, TypeOK
    <3> QED
      BY <2>3, <3>1, <3>2, GateRises DEF ClusterInv
  <2> QED
    BY <1>2, <2>1, <2>2, <2>3, Zenon DEF BeginProbe, ProbeJudge, ProbeOpen, ProbeArm
<1>7. TypeOK'
  BY <1>3, <1>4, <1>5, <1>6 DEF ClusterInv, TypeOK
<1> QED
  BY <1>0, <1>3, <1>6, <1>7, AsideStep

-----------------------------------------------------------------------------

\* Every step preserves the invariant.
LEMMA ClusterInvNext == ClusterInv /\ [Next]_vars => ClusterInv'
<1> SUFFICES ASSUME ClusterInv, [Next]_vars PROVE ClusterInv'
  OBVIOUS
<1>1. ASSUME NEW p \in Proc, Create(p) PROVE ClusterInv'
  <2>1. CASE BeginCreate(p)
    BY <2>1, BeginCreateKeeps
  <2>2. CASE GiveUp(p)
    <3>1. ~Reserving(p)
      BY <2>2 DEF GiveUp, Reserving
    <3> QED
      BY <2>2, <3>1, ToIdleKeeps DEF GiveUp
  <2>3. CASE AttemptHealthy(p)
    BY <2>3, AttemptHealthyKeeps
  <2>4. CASE LoadGate(p)
    BY <2>4, LoadGateKeeps
  <2>5. CASE ClaimTrial(p)
    BY <2>5, ClaimTrialKeeps
  <2>6. CASE CreateOk(p)
    BY <2>6, CreateOkKeeps
  <2>7. CASE ReturnHandle(p)
    BY <2>7, ReturnHandleKeeps
  <2>8. CASE Rejected(p)
    BY <2>8, RejectedKeeps
  <2>9. CASE NodeFault(p)
    BY <2>9, NodeFaultKeeps
  <2>10. CASE Strike(p)
    BY <2>10, StrikeKeeps
  <2>11. CASE Trip(p)
    BY <2>11, TripKeeps
  <2>12. CASE ReconcileList(p)
    BY <2>12, ReconcileListKeeps
  <2>13. CASE ReconcileDelete(p)
    BY <2>13, ReconcileDeleteKeeps
  <2>14. CASE ReconcileFails(p)
    BY <2>14, ReconcileFailsKeeps
  <2>15. CASE Abort(p)
    BY <2>15, AbortKeeps
  <2> QED
    BY <1>1, <2>1, <2>2, <2>3, <2>4, <2>5, <2>6, <2>7, <2>8, <2>9, <2>10, <2>11,
       <2>12, <2>13, <2>14, <2>15, Zenon DEF Create
<1>2. ASSUME NEW p \in Proc, Land(p) PROVE ClusterInv'
  BY <1>2, LandKeeps
<1>3. CASE BeginProbe \/ ProbeJudge \/ ProbeOpen \/ ProbeArm
  BY <1>3, ProbeKeeps
<1>4. CASE \/ \E n \in Nodes : LandLate(n) \/ Release(n)
           \/ \E h \in held : DropHandle(h)
           \/ \E b \in boxes : DeleteOn(b)
           \/ Tick
  BY <1>4, WorldKeeps, Zenon
<1>5. CASE UNCHANGED vars
  <2>1. TypeOK' /\ GateInv'
    BY <1>5 DEF vars, world, ClusterInv, TypeOK, GateInv
  <2>2. CountInv'
    BY <1>5, CountStill DEF vars, world, ClusterInv
  <2>3. nextId' >= nextId
    BY <1>5 DEF vars, world, ClusterInv, TypeOK
  <2> QED
    BY <1>5, <2>1, <2>2, <2>3, AsideStep DEF vars, world
<1> QED
  BY <1>1, <1>2, <1>3, <1>4, <1>5, Zenon DEF Next

\* In every execution the invariant holds.
THEOREM ClusterInvariant == Spec => []ClusterInv
<1> QED
  BY ClusterInvInit, ClusterInvNext, PTL DEF Spec

\* The counters of cluster.rs stay in their ranges, a saturating decrement never
\* passing zero, whatever the callers, the controllers and probe() do.
THEOREM ClusterTypes == Spec => []TypeOK
<1>1. ClusterInv => TypeOK
  BY DEF ClusterInv
<1> QED
  BY <1>1, ClusterInvariant, PTL

\* The in-flight counter of every node is the number of its armed guards and
\* undropped handles (InflightGuard, Drop of ClusterSandbox); with release() in
\* use it is never more.
THEOREM InflightAccounting == Spec => []InflightIsReservations
<1>1. ClusterInv => InflightIsReservations
  BY DEF ClusterInv, CountInv
<1> QED
  BY <1>1, ClusterInvariant, PTL

\* A caller that goes from the compare-exchange to its attempt has won it.
LEMMA ClaimIsTrial ==
  ASSUME ClusterInv, Next, NEW p \in Proc, Claims(p)
  PROVE  call[p].cands # << >> /\ gate[Head(call[p].cands)] = call[p].seen
<1>0. call[p].cands # << >>
  BY DEF Claims, ClusterInv, SeenInv
<1>1. call' # call
  BY DEF Claims
<1>2. PICK q \in Proc : Create(q) \/ Land(q)
  BY <1>1, Zenon DEF Next, LandLate, Release, BeginProbe, ProbeJudge, ProbeOpen, ProbeArm,
                     DropHandle, DeleteOn, Tick
<1>3. PICK c : Becomes(q, c)
  BY <1>2, Zenon DEF Create, BeginCreate, GiveUp, AttemptHealthy, LoadGate, ClaimTrial, CreateOk,
              ReturnHandle, Rejected, NodeFault, Strike, Trip, ReconcileList,
              ReconcileDelete, ReconcileFails, Abort, Land, Attempt
<1>4. q = p
  <2>1. call \in [Proc -> Call]
    BY DEF ClusterInv, TypeOK
  <2> QED
    BY <1>3, <2>1 DEF Becomes, Claims
<1>5. ClaimTrial(p)
  <2>1. call[p].at = "cas"
    BY DEF Claims
  <2> QED
    BY <1>2, <1>4, <2>1 DEF Create, BeginCreate, GiveUp, AttemptHealthy, LoadGate, CreateOk,
              ReturnHandle, Rejected, NodeFault, Strike, Trip, ReconcileList,
              ReconcileDelete, ReconcileFails, Abort, Land
<1>6. CASE Becomes(p, Onward(p, Tail(call[p].cands)))
  <2>1. /\ Onward(p, Tail(call[p].cands)) \in Call
        /\ Onward(p, Tail(call[p].cands)).at = "next"
    BY <1>0, HeadIsNode, OnwardRecord DEF ClusterInv
  <2>2. call'[p].at = "next"
    BY <1>6, <2>1, BecomesEffect DEF ClusterInv
  <2> QED
    BY <2>2 DEF Claims
<1> QED
  BY <1>0, <1>5, <1>6 DEF ClaimTrial

\* Two half-open trials of a node whose gate no success cleared in between are an
\* interval apart by their callers' now_ms (claim_trial).
THEOREM TrialSpacing == Spec => TrialsSpacedByCallerClock
<1> DEFINE Spaced == \A p \in Proc :
              LET last == trial[Head(call[p].cands)]
              IN  Claims(p) => last = NoTrial \/ call[p].now >= last + Interval
<1>1. ASSUME ClusterInv, Next, NEW p \in Proc, Claims(p),
             trial[Head(call[p].cands)] # NoTrial
      PROVE  call[p].now >= trial[Head(call[p].cands)] + Interval
  <2>1. call[p].cands # << >> /\ gate[Head(call[p].cands)] = call[p].seen
    BY <1>1, ClaimIsTrial
  <2>2. PICK n \in Nodes : n = Head(call[p].cands)
    BY <1>1, <2>1, HeadIsNode DEF ClusterInv
  <2>3. call[p].now \in Nat /\ gate[n] \in Nat /\ trial[n] \in Nat
    <3>1. call[p].now \in Nat
      BY <1>1, CallFields DEF ClusterInv, TypeOK
    <3>2. gate[n] \in Nat
      BY <1>1 DEF ClusterInv, TypeOK
    <3>3. trial[n] \in Times
      BY <1>1, <2>2 DEF ClusterInv, TypeOK
    <3> QED
      BY <3>1, <3>2, <3>3
  <2>4. gate[n] >= trial[n] + Interval
    BY <1>1, <2>2 DEF ClusterInv, GateInv
  <2>5. call[p].seen = 0 \/ call[p].seen <= call[p].now
    BY <1>1 DEF Claims, ClusterInv, SeenInv
  <2>6. gate[n] = call[p].seen
    BY <2>1, <2>2
  <2>7. gate[n] <= call[p].now
    BY <2>3, <2>5, <2>6
  <2> QED
    BY <2>2, <2>3, <2>4, <2>7
<1>2. ClusterInv /\ Next => Spaced
  BY <1>1, Zenon
<1> QED
  BY <1>2, ClusterInvariant, PTL DEF Spec, TrialsSpacedByCallerClock

=============================================================================
