---------------------------- MODULE ZbrtHostProofs ----------------------------
(*****************************************************************************)
(* Proofs about ZbrtHost, for every set of turns, streams and control calls, *)
(* every capacity, and whatever the guest and the transport do; and about    *)
(* HostVsock, the framed client.                                             *)
(*****************************************************************************)
EXTENDS ZbrtHost, HostVsock, FiniteSetTheorems, SequenceTheorems, TLAPS

\* What the proof needs of the types.
TurnTypes ==
  /\ at \in [Id -> {"new", "queue", "registered", "aim", "ended"} \cup Guarded]
  /\ turnLock \in Turn \cup {None}
  /\ activeTurn \in Turn \cup {None}

\* TurnOwned is inductive once the types are known: the lock is handed over only
\* when nobody holds it, and the published id is replaced only by its holder.
TurnInv == TurnTypes /\ TurnOwned

-----------------------------------------------------------------------------

USE WireAssumption

\* An open session with no call made satisfies the invariant.
LEMMA TurnInvInit == Init => TurnInv
  BY DEF Init, HostInit, TurnInv, TurnTypes, TurnOwned, Guarded, Id

\* One call moves from one guarded place to another: nothing of the lock changes.
LEMMA MoveWithinGuard ==
  ASSUME TurnInv, NEW i \in Id, NEW l \in Guarded, at[i] \in Guarded,
         at' = [at EXCEPT ![i] = l],
         turnLock' = turnLock, activeTurn' = activeTurn
  PROVE  TurnInv'
  BY DEF TurnInv, TurnTypes, TurnOwned, Guarded, Id

\* A call ends: the lock it held is given back with its place.
LEMMA EndKeeps ==
  ASSUME TurnInv, NEW i \in Id, NEW why, End(i, why)
  PROVE  TurnInv'
<1>1. TurnTypes'
  BY DEF TurnInv, TurnTypes, End, Guarded
<1>2. ASSUME NEW t \in Turn
      PROVE  /\ turnLock' = t <=> at'[t] \in {"registered"} \cup Guarded
             /\ at'[t] \in Guarded => activeTurn' = t
  <2>1. CASE t = i
    BY <2>1 DEF TurnInv, TurnTypes, TurnOwned, End, Guarded, Id
  <2>2. CASE t # i
    <3>1. at'[t] = at[t] /\ activeTurn' = activeTurn
      BY <2>2 DEF TurnInv, TurnTypes, End, Id
    <3>2. turnLock' = t <=> turnLock = t
      BY <2>2 DEF TurnInv, TurnTypes, End
    <3> QED
      BY <3>1, <3>2 DEF TurnInv, TurnOwned
  <2> QED
    BY <2>1, <2>2
<1> QED
  BY <1>1, <1>2 DEF TurnInv, TurnOwned

\* A step that touches neither the places nor the lock nor the published turn.
LEMMA ElsewhereKeeps ==
  ASSUME TurnInv, UNCHANGED <<at, turnLock, activeTurn>>
  PROVE  TurnInv'
  BY DEF TurnInv, TurnTypes, TurnOwned

\* A call that is no turn under way moves to a place without a guard, or a
\* control call to any place.
LEMMA MoveOutside ==
  ASSUME TurnInv, NEW i \in Id,
         NEW l \in {"new", "queue", "registered", "aim", "ended"} \cup Guarded,
         i \in Turn => /\ at[i] \notin {"registered"} \cup Guarded
                       /\ l \notin {"registered"} \cup Guarded,
         at' = [at EXCEPT ![i] = l],
         turnLock' = turnLock, activeTurn' = activeTurn
  PROVE  TurnInv'
  BY DEF TurnInv, TurnTypes, TurnOwned, Guarded, Id

\* The calls' own steps: starting, writing, waiting and leaving.
LEMMA CallStepKeeps ==
  ASSUME TurnInv, NEW i \in Id,
         Send(i) \/ TakeEnd(i) \/ SeeClosed(i) \/ Timeout(i) \/ Abandon(i)
  PROVE  TurnInv'
<1>1. CASE Send(i)
  <2>1. CASE End(i, "early")
    BY <2>1, EndKeeps
  <2>2. CASE at' = [at EXCEPT ![i] = "wait"] /\ UNCHANGED <<turnLock, activeTurn>>
    BY <1>1, <2>2, MoveWithinGuard DEF Send, Guarded
  <2> QED
    BY <1>1, <2>1, <2>2 DEF Send
<1>2. CASE TakeEnd(i)
  <2>1. PICK why : End(i, why)
    BY <1>2 DEF TakeEnd
  <2> QED
    BY <2>1, EndKeeps
<1>3. CASE SeeClosed(i)
  BY <1>3, EndKeeps DEF SeeClosed
<1>4. CASE Timeout(i)
  <2>1. CASE End(i, "early")
    BY <2>1, EndKeeps
  <2>2. CASE at[i] = "wait" /\ at' = [at EXCEPT ![i] = "cancel"]
               /\ UNCHANGED <<turnLock, activeTurn>>
    BY <2>2, MoveWithinGuard DEF Guarded
  <2> QED
    BY <1>4, <2>1, <2>2 DEF Timeout
<1>5. CASE Abandon(i)
  <2>1. PICK why : End(i, why)
    BY <1>5 DEF Abandon
  <2> QED
    BY <2>1, EndKeeps
<1> QED
  BY <1>1, <1>2, <1>3, <1>4, <1>5

\* The steps only turns take.
LEMMA TurnStepKeeps ==
  ASSUME TurnInv, NEW t \in Turn,
         \/ BeginTurn(t) \/ Register(t) \/ Publish(t) \/ SendCancel(t) \/ Stop(t)
         \/ TakeOutput(t) \/ TakeAck(t) \/ Drain(t) \/ Unpublish(t)
  PROVE  TurnInv'
<1>0. t \in Id
  BY DEF Id
<1>1. CASE BeginTurn(t)
  BY <1>0, <1>1, MoveOutside DEF BeginTurn, Guarded
<1>2. CASE Register(t)
  BY <1>2 DEF Register, TurnInv, TurnTypes, TurnOwned, Guarded, Id
<1>3. CASE Publish(t)
  BY <1>3 DEF Publish, TurnInv, TurnTypes, TurnOwned, Guarded, Id
<1>4. CASE SendCancel(t)
  BY <1>0, <1>4, MoveWithinGuard DEF SendCancel, Guarded
<1>5. CASE Stop(t)
  BY <1>0, <1>5, MoveWithinGuard DEF Stop, Guarded
<1>6. CASE TakeOutput(t)
  <2>1. End(t, "early") \/ UNCHANGED <<at, turnLock, activeTurn>>
    BY <1>6 DEF TakeOutput, Skip
  <2> QED
    BY <1>0, <2>1, EndKeeps, ElsewhereKeeps
<1>7. CASE TakeAck(t)
  BY <1>7, ElsewhereKeeps DEF TakeAck, Skip
<1>8. CASE Drain(t)
  <2>1. End(t, "failed") \/ UNCHANGED <<at, turnLock, activeTurn>>
    BY <1>8 DEF Drain, Skip
  <2> QED
    BY <1>0, <2>1, EndKeeps, ElsewhereKeeps
<1>9. CASE Unpublish(t)
  BY <1>9 DEF Unpublish, TurnInv, TurnTypes, TurnOwned, Guarded, Id
<1> QED
  BY <1>1, <1>2, <1>3, <1>4, <1>5, <1>6, <1>7, <1>8, <1>9

\* The steps only control calls take: they never touch the turn lock.
LEMMA CtlStepKeeps ==
  ASSUME TurnInv, NEW i \in Ctl,
         BeginExchange(i) \/ ReadActive(i) \/ CancelActiveTurn(i)
  PROVE  TurnInv'
<1>0. i \in Id /\ i \notin Turn
  BY DEF Id
<1>1. CASE BeginExchange(i)
  BY <1>0, <1>1, MoveOutside DEF BeginExchange, Guarded
<1>2. CASE ReadActive(i)
  BY <1>0, <1>2, MoveOutside DEF ReadActive
<1>3. CASE CancelActiveTurn(i)
  BY <1>0, <1>3, MoveOutside DEF CancelActiveTurn
<1> QED
  BY <1>1, <1>2, <1>3

\* Every step of the host, the guest or the transport keeps the invariant.
LEMMA TurnInvNext == TurnInv /\ [Next]_vars => TurnInv'
<1> SUFFICES ASSUME TurnInv, [Next]_vars PROVE TurnInv'
  OBVIOUS
<1>1. ASSUME NEW i \in Id,
             Send(i) \/ Consume(i) \/ SeeClosed(i) \/ Timeout(i) \/ Abandon(i)
      PROVE  TurnInv'
  BY <1>1, CallStepKeeps, TurnStepKeeps DEF Consume
<1>2. ASSUME NEW t \in Turn,
             BeginTurn(t) \/ Register(t) \/ Publish(t) \/ SendCancel(t) \/ Stop(t)
      PROVE  TurnInv'
  BY <1>2, TurnStepKeeps
<1>3. ASSUME NEW i \in Ctl, BeginExchange(i) \/ ReadActive(i) \/ CancelActiveTurn(i)
      PROVE  TurnInv'
  BY <1>3, CtlStepKeeps
<1>4. CASE Close
  BY <1>4, ElsewhereKeeps DEF Close, host, calls
<1>5. CASE Reader
  BY <1>5, ElsewhereKeeps
     DEF Reader, ReadFrame, Deliver, ReaderEnds, CloseChannels, calls
<1>6. CASE Cleanup
  BY <1>6, TurnStepKeeps DEF Cleanup
<1>7. CASE UNCHANGED host
  BY <1>7, ElsewhereKeeps DEF host, calls
<1>8. CASE UNCHANGED vars
  BY <1>8, <1>7 DEF vars
<1> QED
  BY <1>1, <1>2, <1>3, <1>4, <1>5, <1>6, <1>7, <1>8 DEF Next, Finished

\* The turn lock belongs to exactly one turn under way, and that turn is the one
\* cancel_active() would hit, whatever futures are dropped and however late an
\* earlier TurnGuard clears the published id (provider.rs begin_turn, TurnGuard).
THEOREM TurnOwnership == Spec => []TurnOwned
<1>1. TurnInv => TurnOwned
  BY DEF TurnInv
<1> QED
  BY <1>1, TurnInvInit, TurnInvNext, PTL DEF Spec

-----------------------------------------------------------------------------
(* Counting the frames of a sequence *)

Has(q, f) == \E i \in 1..Len(q) : q[i] = f
Where(q, f) == {i \in 1..Len(q) : q[i] = f}
Count(q, f) == Cardinality(Where(q, f))

\* r is q with g after it.
Grew(q, r, g) ==
  /\ Len(r) = Len(q) + 1 /\ r[Len(q) + 1] = g
  /\ \A i \in 1..Len(q) : r[i] = q[i]

LEMMA GrewBy ==
  ASSUME NEW S, NEW q \in Seq(S), NEW g \in S
  PROVE  /\ Append(q, g) \in Seq(S) /\ Grew(q, Append(q, g), g)
         /\ q \o <<g>> \in Seq(S) /\ Grew(q, q \o <<g>>, g)
<1>1. Append(q, g) \in Seq(S) /\ Grew(q, Append(q, g), g)
  BY AppendProperties DEF Grew
<1>2. <<g>> \in Seq(S) /\ Len(<<g>>) = 1 /\ <<g>>[1] = g
  OBVIOUS
<1>3. /\ q \o <<g>> \in Seq(S) /\ Len(q \o <<g>>) = Len(q) + 1
      /\ \A i \in 1..(Len(q) + 1) :
           (q \o <<g>>)[i] = IF i <= Len(q) THEN q[i] ELSE <<g>>[i - Len(q)]
  BY <1>2, ConcatProperties
<1> DEFINE c == q \o <<g>>
<1> HIDE DEF c
<1>4. Len(q) \in Nat /\ c[Len(q) + 1] = g
  BY <1>2, <1>3 DEF c
<1>5. \A i \in 1..Len(q) : c[i] = q[i]
  BY <1>3 DEF c
<1> QED
  BY <1>1, <1>3, <1>4, <1>5 DEF Grew, c

LEMMA CountFinite ==
  ASSUME NEW S, NEW q \in Seq(S), NEW f
  PROVE  /\ IsFiniteSet(Where(q, f)) /\ Count(q, f) \in Nat
         /\ Count(q, f) = 0 <=> ~Has(q, f)
<1>1. IsFiniteSet(1..Len(q))
  BY FS_Interval
<1>2. IsFiniteSet(Where(q, f))
  BY <1>1, FS_Subset DEF Where
<1>3. Where(q, f) = {} <=> ~Has(q, f)
  BY DEF Where, Has
<1> QED
  BY <1>2, <1>3, FS_EmptySet, FS_CardinalityType DEF Count

LEMMA CountGrew ==
  ASSUME NEW S, NEW q \in Seq(S), NEW r \in Seq(S), NEW g, Grew(q, r, g), NEW f
  PROVE  /\ g = f => Count(r, f) = Count(q, f) + 1
         /\ g # f => Count(r, f) = Count(q, f)
<1>1. CASE g = f
  <2>1. Where(r, f) = Where(q, f) \cup {Len(q) + 1}
    <3>1. \A i : i \in 1..Len(r) <=> i \in 1..Len(q) \/ i = Len(q) + 1
      BY DEF Grew
    <3> QED
      BY <1>1, <3>1 DEF Where, Grew
  <2>2. Len(q) + 1 \notin Where(q, f)
    BY DEF Where
  <2> QED
    BY <1>1, <2>1, <2>2, CountFinite, FS_AddElement DEF Count
<1>2. CASE g # f
  <2>1. Where(r, f) = Where(q, f)
    <3>1. \A i : i \in 1..Len(r) <=> i \in 1..Len(q) \/ i = Len(q) + 1
      BY DEF Grew
    <3> QED
      BY <1>2, <3>1 DEF Where, Grew
  <2> QED
    BY <1>2, <2>1 DEF Count
<1> QED
  BY <1>1, <1>2

\* The rest of a sequence, position by position.
LEMMA TailFields ==
  ASSUME NEW S, NEW q \in Seq(S), q # << >>
  PROVE  /\ Tail(q) \in Seq(S) /\ Len(q) \in Nat \ {0} /\ Len(Tail(q)) = Len(q) - 1
         /\ Head(q) = q[1] /\ q[1] \in S
         /\ \A i \in 1..Len(Tail(q)) : i + 1 \in 1..Len(q) /\ Tail(q)[i] = q[i + 1]
         /\ \A i \in 1..Len(q) : i # 1 => i - 1 \in 1..Len(Tail(q)) /\ Tail(q)[i - 1] = q[i]
<1>1. /\ Tail(q) \in Seq(S) /\ Len(q) \in Nat \ {0} /\ Len(Tail(q)) = Len(q) - 1
      /\ \A i \in 1..Len(Tail(q)) : Tail(q)[i] = q[i + 1]
  BY HeadTailProperties, EmptySeq
<1>2. \A i \in 1..Len(q) : i # 1 => i - 1 \in 1..Len(Tail(q)) /\ Tail(q)[i - 1] = q[i]
  BY <1>1
<1>3. \A i \in 1..Len(Tail(q)) : i + 1 \in 1..Len(q)
  BY <1>1
<1>4. Head(q) = q[1] /\ q[1] \in S
  BY <1>1
<1> QED
  BY <1>1, <1>2, <1>3, <1>4

LEMMA CountTail ==
  ASSUME NEW S, NEW q \in Seq(S), q # << >>, NEW f
  PROVE  /\ q[1] = f => Count(q, f) = Count(Tail(q), f) + 1
         /\ q[1] # f => Count(q, f) = Count(Tail(q), f)
         /\ Has(Tail(q), f) => Has(q, f)
         /\ Has(q, f) /\ q[1] # f => Has(Tail(q), f)
<1> DEFINE W == Where(Tail(q), f)
           V == Where(q, f) \ {1}
           shift == [i \in W |-> i + 1]
<1>0. /\ Tail(q) \in Seq(S) /\ Len(q) \in Nat \ {0} /\ Len(Tail(q)) = Len(q) - 1
      /\ \A i \in 1..Len(Tail(q)) : i + 1 \in 1..Len(q) /\ Tail(q)[i] = q[i + 1]
      /\ \A i \in 1..Len(q) : i # 1 => i - 1 \in 1..Len(Tail(q)) /\ Tail(q)[i - 1] = q[i]
  BY TailFields
<1>1. \A i \in W : i \in Nat \ {0} /\ i + 1 \in V
  BY <1>0 DEF Where
<1>2. \A j \in V : j - 1 \in W /\ (j - 1) + 1 = j
  BY <1>0 DEF Where
<1>3. shift \in Bijection(W, V)
  <2> HIDE DEF W, V
  <2>1. shift \in [W -> V]
    BY <1>1
  <2>2. IsInjective(shift)
    BY <1>1 DEF IsInjective
  <2>3. \A j \in V : \E i \in W : shift[i] = j
    BY <1>2
  <2> QED
    BY <2>1, <2>2, <2>3 DEF Bijection, Injection, Surjection
<1>4. IsFiniteSet(W) /\ Cardinality(V) = Cardinality(W)
  <2>1. IsFiniteSet(W)
    BY <1>0, CountFinite
  <2>2. ExistsBijection(W, V)
    BY <1>3 DEF ExistsBijection
  <2> HIDE DEF W, V
  <2> QED
    BY <2>1, <2>2, FS_Bijection
<1>5. 1 \in Where(q, f) <=> q[1] = f
  BY <1>0 DEF Where
<1>6. IsFiniteSet(Where(q, f)) /\ Cardinality(Where(q, f)) \in Nat
  BY CountFinite DEF Count
<1>7. Cardinality(V) = IF q[1] = f THEN Count(q, f) - 1 ELSE Count(q, f)
  BY <1>5, <1>6, FS_RemoveElement DEF Count
<1>8. Has(Tail(q), f) => Has(q, f)
  BY <1>0 DEF Has
<1>9. Has(q, f) /\ q[1] # f => Has(Tail(q), f)
  BY <1>0 DEF Has
<1> QED
  BY <1>4, <1>6, <1>7, <1>8, <1>9 DEF Count

\* q, then n frames f and a frame g.
Run(q, f, n, g) == q \o Append([j \in 1..n |-> f], g)

\* r is q, then n frames f and a frame g, position by position.
RunOf(q, r, f, n, g) ==
  /\ Len(q) \in Nat /\ Len(r) = Len(q) + n + 1 /\ r[Len(q) + n + 1] = g
  /\ \A i \in 1..Len(q) : r[i] = q[i]
  /\ \A i \in (Len(q) + 1)..(Len(q) + n) : r[i] = f

LEMMA RunFields ==
  ASSUME NEW S, NEW q \in Seq(S), NEW f \in S, NEW g \in S, NEW n \in Nat,
         NEW r, r = Run(q, f, n, g)
  PROVE  r \in Seq(S) /\ RunOf(q, r, f, n, g)
<1> DEFINE o == [j \in 1..n |-> f]
           a == Append(o, g)
<1>1. o \in Seq(S) /\ Len(o) = n
  OBVIOUS
<1>2. a \in Seq(S) /\ Len(a) = n + 1 /\ a[n + 1] = g /\ \A i \in 1..n : a[i] = f
  BY <1>1, AppendProperties
<1>r. r = q \o a
  BY DEF Run
<1> HIDE DEF a
<1>3. /\ r \in Seq(S) /\ Len(r) = Len(q) + (n + 1)
      /\ \A i \in 1..(Len(q) + (n + 1)) :
           r[i] = IF i <= Len(q) THEN q[i] ELSE a[i - Len(q)]
  <2>1. PICK b \in Seq(S) : b = a
    BY <1>2
  <2>2. /\ q \o b \in Seq(S) /\ Len(q \o b) = Len(q) + Len(b)
        /\ \A i \in 1..(Len(q) + Len(b)) :
             (q \o b)[i] = IF i <= Len(q) THEN q[i] ELSE b[i - Len(q)]
    BY ConcatProperties
  <2>3. r = q \o b
    BY <1>r, <2>1
  <2> QED
    BY <1>2, <2>1, <2>2, <2>3
<1>4. PICK m \in Nat : m = Len(q)
  OBVIOUS
<1>5. r[m + n + 1] = g
  BY <1>2, <1>3, <1>4
<1>6. \A i \in 1..m : r[i] = q[i]
  BY <1>3, <1>4
<1>7. \A i \in (m + 1)..(m + n) : r[i] = f
  <2> SUFFICES ASSUME NEW i \in (m + 1)..(m + n) PROVE r[i] = f
    OBVIOUS
  <2>1. i - m \in 1..n /\ i \in 1..(m + (n + 1)) /\ ~(i <= m)
    OBVIOUS
  <2> QED
    BY <1>2, <1>3, <1>4, <2>1
<1> QED
  BY <1>3, <1>4, <1>5, <1>6, <1>7 DEF RunOf

LEMMA CountRun ==
  ASSUME NEW S, NEW q \in Seq(S), NEW f \in S, NEW g \in S, NEW n \in Nat, f # g, ~Has(q, f),
         NEW r, r = Run(q, f, n, g)
  PROVE  r \in Seq(S) /\ RunOf(q, r, f, n, g) /\ Count(r, f) = n
<1>3. r \in Seq(S) /\ RunOf(q, r, f, n, g)
  BY RunFields
<1>4. PICK m \in Nat : m = Len(q)
  OBVIOUS
<1>5. Len(r) = m + n + 1 /\ r[m + n + 1] = g
  BY <1>3, <1>4 DEF RunOf
<1>6. \A i \in 1..m : r[i] = q[i]
  BY <1>3, <1>4 DEF RunOf
<1>7. \A i \in (m + 1)..(m + n) : r[i] = f
  BY <1>3, <1>4 DEF RunOf
<1>8. Where(r, f) = (m + 1)..(m + n)
  <2>1. \A i \in 1..Len(r) : i \in 1..m \/ i \in (m + 1)..(m + n) \/ i = m + n + 1
    <3>1. Len(r) = m + n + 1
      BY <1>5
    <3>2. \A i \in 1..(m + n + 1) : i \in 1..m \/ i \in (m + 1)..(m + n) \/ i = m + n + 1
      OBVIOUS
    <3> QED
      BY <3>1, <3>2
  <2>2. \A i \in (m + 1)..(m + n) : i \in 1..Len(r)
    BY <1>5
  <2>3. \A i \in 1..m : r[i] # f
    BY <1>4, <1>6 DEF Has
  <2> QED
    BY <1>5, <1>7, <2>1, <2>2, <2>3 DEF Where
<1>9. Count(r, f) = n
  BY <1>8, FS_Interval DEF Count
<1> QED
  BY <1>3, <1>9

-----------------------------------------------------------------------------
(* A result with an exit code is whole: the invariant *)

Wired == [kind : Answer, id : Id]
Asked == [kind : Requests, id : Id]
Told == {f \in Wired : f.kind = "Output" => f.id \in Turn}
For(i) == {f \in Wired : f.id = i}

\* Types, with what the deliveries and the calls of cancel_active() under way hold.
Types ==
  /\ TypeOK
  /\ down \in Seq(Told)
  /\ reader.at = "deliver" => reader.frame \in Wired /\ reader.frame.kind \in Ends
  /\ \A i \in Ctl : at[i] = "aim" => aim[i] \in Turn
  /\ \A i \in Id : chan[i] \in Seq(For(i))
  /\ met = TRUE /\ cur \in Turn \cup {None} /\ wrote \in [Turn -> Nat]

\* The frames of a turn that the argument is about.
Ask(t) == Frame("Execute", t)
Out(t) == Frame("Output", t)
Exit(t) == Frame("Exit", t)
Err(t) == Frame("Error", t)

\* In the sequence q no g comes after an f, and no h after an f and a g.
Never(q, f, g) == \A i, j \in 1..Len(q) : i < j /\ q[i] = f => q[j] # g
NeverThird(q, f, g, h) ==
  \A i, j, k \in 1..Len(q) : i < j /\ j < k /\ q[i] = f /\ q[j] = g => q[k] # h

\* The call of t may still end with an exit code; its Execute is not sent yet;
\* the Execute is still to reach the guest; the guest is through with the turn.
Live(t) == at[t] \in {"new", "queue", "registered", "send", "wait"}
Unsent(t) == at[t] \in {"new", "queue", "registered", "send"}
Fresh(t) == Unsent(t) \/ Has(up, Ask(t))
Over(t) == cur # t /\ ~Fresh(t)

\* The reader has the turn's exit in hand.
InHand(t) == reader.at = "deliver" /\ reader.frame = Exit(t)

\* The Execute is written once ...
AskedOnce(t) ==
  /\ Never(up, Ask(t), Ask(t))
  /\ Unsent(t) => ~Has(up, Ask(t))

\* ... before the guest accepts it there is no output of the turn anywhere ...
FreshIsClean(t) ==
  Fresh(t) => /\ cur # t /\ got[t] = 0 /\ t \notin lossy
              /\ ~Has(chan[t], Out(t)) /\ ~Has(down, Out(t))

\* ... its exit comes once, after all of the turn's output ...
ExitIsLast(t) ==
  /\ Never(down, Exit(t), Out(t)) /\ Never(down, Exit(t), Exit(t))
  /\ Never(chan[t], Exit(t), Out(t))
  /\ Has(down, Exit(t)) \/ InHand(t) \/ Has(chan[t], Exit(t)) => Over(t)
  /\ InHand(t) \/ Has(chan[t], Exit(t)) => ~Has(down, Out(t))

\* ... no exit follows an Error before which output was lost: reading the Error
\* forgets the loss ...
ErrorIsApart(t) ==
  /\ NeverThird(down, Out(t), Err(t), Exit(t))
  /\ t \in lossy => Never(down, Err(t), Exit(t))
  /\ cur = t => Never(down, Out(t), Err(t))
  /\ cur = t /\ t \in lossy => ~Has(down, Err(t))

\* ... and output that is not lost is on its way or has come.
Accounted(t) ==
  /\ Has(down, Exit(t)) \/ (cur = t /\ link # "cut") =>
       \/ t \in lossy
       \/ got[t] + Count(chan[t], Out(t)) + Count(down, Out(t)) = wrote[t]
  /\ InHand(t) \/ Has(chan[t], Exit(t)) => got[t] + Count(chan[t], Out(t)) = wrote[t]

\* The reader knows the call until it is over.
Known(t) ==
  at[t] \in {"registered", "send", "wait"} => t \in inflight \/ reader.at = "over"

LiveInv(t) ==
  /\ AskedOnce(t) /\ FreshIsClean(t) /\ ExitIsLast(t)
  /\ ErrorIsApart(t) /\ Accounted(t) /\ Known(t)

\* A turn that has ended well is over on the guest too.
EndedWell(t) == outcome[t] = "ok" => at[t] = "ended" /\ Over(t) /\ got[t] = wrote[t]

WholeInv == Types /\ \A t \in Turn : (Live(t) => LiveInv(t)) /\ EndedWell(t)

-----------------------------------------------------------------------------
(* The types *)

LEMMA TypesInit == Init => Types
<1> SUFFICES ASSUME Init PROVE Types
  OBVIOUS
<1>1. WireType
  BY DEF Init, WireInit, WireType
<1>2. HostType
  BY HostAssumption DEF Init, HostInit, HostType, Guarded
<1>3. wrote \in [Turn -> Nat] /\ cur = None /\ met = TRUE
  BY DEF Init, PeerInit
<1>4. reader.at = "read" /\ \A i \in Ctl : at[i] = "new"
  BY DEF Init, HostInit, Id
<1>5. \A i \in Id : chan[i] \in Seq(For(i))
  BY DEF Init, HostInit
<1> QED
  BY <1>1, <1>2, <1>3, <1>4, <1>5 DEF Types, TypeOK, Init, WireInit

\* A call that ends.
LEMMA EndTypes ==
  ASSUME Types, NEW i \in Id, NEW why \in {"ok", "failed", "early", "orphan"}, End(i, why),
         UNCHANGED <<wire, peer, routing, aim>>
  PROVE  Types'
<1>1. WireType'
  BY DEF Types, TypeOK, WireType, wire
<1>2. /\ at' \in [Id -> {"new", "queue", "registered", "aim", "ended"} \cup Guarded]
      /\ outcome' \in [Id -> {"none", "ok", "failed", "early", "orphan"}]
  BY DEF Types, TypeOK, HostType, End
<1>3. /\ inflight' \in SUBSET Id
      /\ turnLock' \in Turn \cup {None} /\ activeTurn' \in Turn \cup {None}
  BY DEF Types, TypeOK, HostType, End
<1>6. got' \in [Turn -> 0..OutputLimit]
  BY HostAssumption DEF Types, TypeOK, HostType, End
<1>7. chan \in [Id -> Seq(Wired)] /\ \A j \in Id : Len(chan[j]) <= ChanCap
  BY DEF Types, TypeOK, HostType, Wired
<1>8. << >> \in Seq(Wired) /\ Len(<< >>) <= ChanCap
  BY HostAssumption
<1>9. chan' \in [Id -> Seq(Wired)] /\ \A j \in Id : Len(chan'[j]) <= ChanCap
  BY <1>7, <1>8 DEF End
<1>10. \A j \in Id : chan'[j] \in Seq(For(j))
  BY <1>7 DEF Types, End
<1>4. HostType'
  BY <1>2, <1>3, <1>6, <1>9 DEF Types, TypeOK, HostType, routing, Wired
<1>5. \A j \in Ctl : at'[j] = "aim" => aim'[j] \in Turn
  BY DEF Types, TypeOK, HostType, End, Id
<1> QED
  BY <1>1, <1>4, <1>5, <1>10 DEF Types, TypeOK, wire, routing, peer

\* A call that moves on.
LEMMA MoveTypes ==
  ASSUME Types, NEW i \in Id, NEW l \in {"queue", "registered"} \cup Guarded,
         at' = [at EXCEPT ![i] = l],
         inflight' \in SUBSET Id, turnLock' \in Turn \cup {None}, activeTurn' \in Turn \cup {None},
         up' \in Seq(Asked), Len(up') <= WireCap,
         UNCHANGED <<down, link, peer, chan, outcome, got, routing, aim>>
  PROVE  Types'
<1>1. WireType'
  BY DEF Types, TypeOK, WireType, Asked
<1>2. at' \in [Id -> {"new", "queue", "registered", "aim", "ended"} \cup Guarded]
  BY DEF Types, TypeOK, HostType
<1>3. HostType'
  BY <1>2 DEF Types, TypeOK, HostType, routing
<1>4. \A j \in Ctl : at'[j] = "aim" => aim'[j] \in Turn
  BY DEF Types, TypeOK, HostType, Id, Guarded
<1> QED
  BY <1>1, <1>3, <1>4 DEF Types, TypeOK, routing, peer

LEMMA SendsTypes ==
  ASSUME Types, NEW k \in Requests, NEW i \in Id, Sends(k, i) \/ UNCHANGED up
  PROVE  up' \in Seq(Asked) /\ Len(up') <= WireCap
<1>1. Frame(k, i) \in Asked
  BY DEF Frame, Asked
<1>2. up \in Seq(Asked) /\ Len(up) <= WireCap
  BY DEF Types, TypeOK, WireType, Asked
<1>3. Append(up, Frame(k, i)) \in Seq(Asked) /\ Len(Append(up, Frame(k, i))) = Len(up) + 1
  BY <1>1, <1>2, AppendProperties
<1> QED
  BY <1>2, <1>3 DEF Sends

\* The calls' own steps.
LEMMA CallTypes ==
  ASSUME Types, NEW i \in Id,
         Send(i) \/ TakeEnd(i) \/ SeeClosed(i) \/ Timeout(i) \/ Abandon(i)
  PROVE  Types'
<1> USE DEF wire
<1>0. inflight \in SUBSET Id /\ turnLock \in Turn \cup {None} /\ activeTurn \in Turn \cup {None}
  BY DEF Types, TypeOK, HostType
<1>u. up \in Seq(Asked) /\ Len(up) <= WireCap
  BY DEF Types, TypeOK, WireType, Asked
<1>1. CASE Send(i)
  <2>1. CASE End(i, "early") /\ UNCHANGED up
    BY <1>1, <2>1, EndTypes DEF Send
  <2>2. CASE Sends(KindOf(i), i) /\ at' = [at EXCEPT ![i] = "wait"]
               /\ UNCHANGED <<chan, inflight, turnLock, activeTurn, outcome, got>>
    <3>1. KindOf(i) \in Requests
      BY DEF KindOf, Requests, CtlKind
    <3>2. up' \in Seq(Asked) /\ Len(up') <= WireCap
      BY <2>2, <3>1, SendsTypes
    <3>3. "wait" \in {"queue", "registered"} \cup Guarded
      BY DEF Guarded
    <3> QED
      BY <1>0, <1>1, <2>2, <3>2, <3>3, MoveTypes DEF Send
  <2> QED
    BY <1>1, <2>1, <2>2 DEF Send
<1>2. CASE TakeEnd(i)
  <2>1. PICK why \in {"ok", "failed", "early", "orphan"} : End(i, why)
    BY <1>2 DEF TakeEnd
  <2> QED
    BY <1>2, <2>1, EndTypes DEF TakeEnd
<1>3. CASE SeeClosed(i)
  BY <1>3, EndTypes DEF SeeClosed
<1>4. CASE Timeout(i)
  <2>1. CASE End(i, "early")
    BY <1>4, <2>1, EndTypes DEF Timeout
  <2>2. CASE at' = [at EXCEPT ![i] = "cancel"]
               /\ UNCHANGED <<chan, inflight, turnLock, activeTurn, outcome, got>>
    <3>1. "cancel" \in {"queue", "registered"} \cup Guarded
      BY DEF Guarded
    <3> QED
      BY <1>0, <1>u, <1>4, <2>2, <3>1, MoveTypes DEF Timeout
  <2> QED
    BY <1>4, <2>1, <2>2 DEF Timeout
<1>5. CASE Abandon(i)
  <2>1. PICK why \in {"ok", "failed", "early", "orphan"} : End(i, why)
    BY <1>5 DEF Abandon
  <2> QED
    BY <1>5, <2>1, EndTypes DEF Abandon
<1> QED
  BY <1>1, <1>2, <1>3, <1>4, <1>5

\* One frame less in one channel.
LEMMA SkipTypes ==
  ASSUME Types, NEW t \in Turn, chan[t] # << >>, Skip(t), got' \in [Turn -> 0..OutputLimit],
         UNCHANGED <<wire, peer, routing, aim>>
  PROVE  Types'
<1>0. t \in Id
  BY DEF Id
<1>1. chan \in [Id -> Seq(Wired)] /\ \A j \in Id : Len(chan[j]) <= ChanCap
  BY DEF Types, TypeOK, HostType, Wired
<1>2. Tail(chan[t]) \in Seq(Wired) /\ Len(Tail(chan[t])) <= ChanCap
  BY <1>0, <1>1, TailFields, HostAssumption
<1>3. chan' \in [Id -> Seq(Wired)] /\ \A j \in Id : Len(chan'[j]) <= ChanCap
  BY <1>0, <1>1, <1>2 DEF Skip
<1>5. Tail(chan[t]) \in Seq(For(t))
  BY <1>0, TailFields DEF Types
<1>6. \A j \in Id : chan'[j] \in Seq(For(j))
  BY <1>0, <1>1, <1>5 DEF Types, Skip
<1>4. WireType' /\ HostType'
  BY <1>3 DEF Types, TypeOK, WireType, HostType, wire, routing, Skip, Wired
<1> QED
  BY <1>4, <1>6 DEF Types, TypeOK, Skip, wire, routing, peer

\* The steps only turns take.
LEMMA TurnTypesKeep ==
  ASSUME Types, NEW t \in Turn,
         \/ BeginTurn(t) \/ Register(t) \/ Publish(t) \/ SendCancel(t) \/ Stop(t)
         \/ TakeOutput(t) \/ TakeAck(t) \/ Drain(t) \/ Unpublish(t)
  PROVE  Types'
<1> USE DEF wire
<1>0. inflight \in SUBSET Id /\ turnLock \in Turn \cup {None} /\ activeTurn \in Turn \cup {None}
      /\ got \in [Turn -> 0..OutputLimit] /\ t \in Id
  BY DEF Types, TypeOK, HostType, Id
<1>u. up \in Seq(Asked) /\ Len(up) <= WireCap
  BY DEF Types, TypeOK, WireType, Asked
<1>g. {"queue", "registered", "send", "wait", "cancel", "drain"} \subseteq
        {"queue", "registered"} \cup Guarded
  BY DEF Guarded
<1>1. CASE BeginTurn(t)
  BY <1>0, <1>u, <1>g, <1>1, MoveTypes DEF BeginTurn
<1>2. CASE Register(t)
  <2>1. inflight' \in SUBSET Id /\ turnLock' \in Turn \cup {None} /\ activeTurn' = activeTurn
    BY <1>0, <1>2 DEF Register
  <2> QED
    BY <1>0, <1>u, <1>g, <1>2, <2>1, MoveTypes DEF Register
<1>3. CASE Publish(t)
  BY <1>0, <1>u, <1>g, <1>3, MoveTypes DEF Publish
<1>4. CASE SendCancel(t)
  <2>1. Sends("Cancel", t) \/ UNCHANGED up
    BY <1>4 DEF SendCancel
  <2>2. up' \in Seq(Asked) /\ Len(up') <= WireCap
    BY <1>0, <2>1, SendsTypes DEF Requests, CtlKind
  <2> QED
    BY <1>0, <1>g, <1>4, <2>2, MoveTypes DEF SendCancel
<1>5. CASE Stop(t)
  BY <1>0, <1>u, <1>g, <1>5, MoveTypes DEF Stop
<1>6. CASE TakeOutput(t)
  <2>1. CASE End(t, "early")
    BY <1>0, <1>6, <2>1, EndTypes DEF TakeOutput
  <2>2. CASE Skip(t) /\ got[t] + 1 <= OutputLimit /\ got' = [got EXCEPT ![t] = @ + 1]
    <3>1. got' \in [Turn -> 0..OutputLimit]
      BY <1>0, <2>2, HostAssumption
    <3> QED
      BY <1>6, <2>2, <3>1, SkipTypes DEF TakeOutput
  <2> QED
    BY <1>0, <1>6, <2>1, <2>2, HostAssumption DEF TakeOutput
<1>7. CASE TakeAck(t)
  BY <1>0, <1>7, SkipTypes DEF TakeAck
<1>8. CASE Drain(t)
  <2>1. CASE End(t, "failed")
    BY <1>0, <1>8, <2>1, EndTypes DEF Drain
  <2>2. CASE Skip(t) /\ UNCHANGED got
    BY <1>0, <1>8, <2>2, SkipTypes DEF Drain
  <2> QED
    BY <1>8, <2>1, <2>2 DEF Drain
<1>9. CASE Unpublish(t)
  BY <1>9 DEF Unpublish, Types, TypeOK, WireType, HostType, routing, peer
<1> QED
  BY <1>1, <1>2, <1>3, <1>4, <1>5, <1>6, <1>7, <1>8, <1>9

\* The steps only control calls take.
LEMMA CtlTypes ==
  ASSUME Types, NEW i \in Ctl, BeginExchange(i) \/ ReadActive(i) \/ CancelActiveTurn(i)
  PROVE  Types'
<1> USE DEF wire
<1>0. inflight \in SUBSET Id /\ turnLock \in Turn \cup {None} /\ activeTurn \in Turn \cup {None}
      /\ i \in Id
  BY DEF Types, TypeOK, HostType, Id
<1>u. up \in Seq(Asked) /\ Len(up) <= WireCap
  BY DEF Types, TypeOK, WireType, Asked
<1>1. CASE BeginExchange(i)
  <2>1. inflight' \in SUBSET Id /\ "send" \in {"queue", "registered"} \cup Guarded
    BY <1>0, <1>1 DEF BeginExchange, Guarded
  <2> QED
    BY <1>0, <1>u, <1>1, <2>1, MoveTypes DEF BeginExchange
<1>2. CASE ReadActive(i)
  <2>1. /\ at' \in [Id -> {"new", "queue", "registered", "aim", "ended"} \cup Guarded]
        /\ aim' \in [Ctl -> Turn \cup {None}]
    BY <1>2 DEF ReadActive, Types, TypeOK, HostType
  <2>2. \A j \in Ctl : at'[j] = "aim" => aim'[j] \in Turn
    BY <1>0, <1>2 DEF ReadActive, Types, TypeOK, HostType, Id
  <2> QED
    BY <1>2, <2>1, <2>2
       DEF ReadActive, Types, TypeOK, WireType, HostType, routing, peer
<1>3. CASE CancelActiveTurn(i)
  <2>0. aim[i] \in Id
    BY <1>3 DEF CancelActiveTurn, Types, Id
  <2>1. Sends("Cancel", aim[i]) \/ UNCHANGED up
    BY <1>3 DEF CancelActiveTurn
  <2>2. up' \in Seq(Asked) /\ Len(up') <= WireCap
    BY <2>0, <2>1, SendsTypes DEF Requests, CtlKind
  <2>3. /\ at' \in [Id -> {"new", "queue", "registered", "aim", "ended"} \cup Guarded]
        /\ aim' \in [Ctl -> Turn \cup {None}]
    BY <1>3 DEF CancelActiveTurn, Types, TypeOK, HostType
  <2>4. \A j \in Ctl : at'[j] = "aim" => aim'[j] \in Turn
    BY <1>0, <1>3 DEF CancelActiveTurn, Types, TypeOK, HostType, Id
  <2> QED
    BY <1>3, <2>2, <2>3, <2>4
       DEF CancelActiveTurn, Types, TypeOK, WireType, HostType, routing, peer, Asked
<1> QED
  BY <1>1, <1>2, <1>3

\* One frame more in a channel with room, or none.
LEMMA PushTypes ==
  ASSUME Types, NEW f \in Wired, (~Full(f.id) /\ Push(f)) \/ UNCHANGED chan
  PROVE  /\ chan' \in [Id -> Seq(Wired)] /\ \A j \in Id : Len(chan'[j]) <= ChanCap
         /\ \A j \in Id : chan'[j] \in Seq(For(j))
<1>0. \A j \in Id : chan[j] \in Seq(For(j))
  BY DEF Types
<1>1. chan \in [Id -> Seq(Wired)] /\ \A j \in Id : Len(chan[j]) <= ChanCap
  BY DEF Types, TypeOK, HostType, Wired
<1>2. PICK j \in Id : j = f.id
  BY DEF Wired
<1>3. /\ Append(chan[j], f) \in Seq(Wired)
      /\ Len(Append(chan[j], f)) = Len(chan[j]) + 1 /\ Len(chan[j]) \in Nat
  BY <1>1, AppendProperties
<1>5. Append(chan[j], f) \in Seq(For(j))
  BY <1>0, <1>2, AppendProperties DEF For
<1>4. CASE ~Full(j) /\ chan' = [chan EXCEPT ![j] = Append(chan[j], f)]
  <2>1. Len(Append(chan[j], f)) <= ChanCap
    BY <1>3, <1>4, HostAssumption DEF Full
  <2>2. \A l \in Id : chan'[l] = IF l = j THEN Append(chan[j], f) ELSE chan[l]
    BY <1>1, <1>4
  <2>3. \A l \in Id : chan'[l] \in Seq(For(l))
    BY <1>0, <1>5, <2>2
  <2>4. chan' \in [Id -> Seq(Wired)] /\ \A l \in Id : Len(chan'[l]) <= ChanCap
    BY <1>1, <1>3, <1>4, <2>1
  <2> QED
    BY <2>3, <2>4
<1> QED
  BY <1>0, <1>1, <1>2, <1>4 DEF Push

\* The reader task.
LEMMA ReaderTypes ==
  ASSUME Types, Reader
  PROVE  Types'
<1> USE DEF wire
<1>1. CASE ReadFrame
  <2>0. down \in Seq(Told) /\ down \in Seq(Wired) /\ Len(down) <= WireCap
    BY DEF Types, TypeOK, WireType, Wired
  <2>1. PICK f \in Told : f = Head(down)
    BY <1>1, <2>0, TailFields DEF ReadFrame
  <2>2. down' \in Seq(Told) /\ down' \in Seq(Wired) /\ Len(down') <= WireCap
    BY <1>1, <2>0, TailFields, WireAssumption DEF ReadFrame
  <2>3. WireType'
    BY <1>1, <2>2 DEF ReadFrame, Types, TypeOK, WireType, Wired
  <2>4. (~Full(f.id) /\ Push(f)) \/ UNCHANGED chan
    BY <1>1, <2>1 DEF ReadFrame, DropUnknown, RouteEnd, RouteOutput, RouteAck
  <2>5. chan' \in [Id -> Seq(Wired)] /\ (\A j \in Id : Len(chan'[j]) <= ChanCap)
        /\ \A j \in Id : chan'[j] \in Seq(For(j))
    BY <2>4, PushTypes DEF Told
  <2>6. f \in Wired /\ f.id \in Id /\ (f.kind = "Output" => f.id \in Turn)
    BY DEF Wired, Told
  <2>a. DropUnknown(f) \/ RouteEnd(f) \/ RouteOutput(f) \/ RouteAck(f)
    BY <1>1, <2>1 DEF ReadFrame
  <2>7. admitted' \in [Turn -> 0..Budget]
    <3>1. admitted \in [Turn -> 0..Budget]
      BY DEF Types, TypeOK, HostType
    <3>2. CASE Settle(f.id) \/ UNCHANGED admitted
      BY <3>1, <3>2, HostAssumption DEF Settle
    <3>3. CASE RouteOutput(f)
      BY <3>1, <3>3, HostAssumption DEF RouteOutput
    <3> QED
      BY <2>a, <3>2, <3>3 DEF DropUnknown, RouteEnd, RouteAck
  <2>8. lossy' \in SUBSET Turn
    <3>1. lossy \in SUBSET Turn
      BY DEF Types, TypeOK, HostType
    <3> QED
      BY <2>a, <2>6, <3>1 DEF DropUnknown, RouteEnd, RouteOutput, RouteAck, Settle
  <2>9. /\ reader'.at \in {"read", "deliver"}
        /\ reader'.at = "deliver" => reader'.frame \in Wired /\ reader'.frame.kind \in Ends
    <3>1. CASE UNCHANGED reader
      BY <1>1, <3>1 DEF ReadFrame
    <3>2. CASE RouteEnd(f)
      BY <2>6, <3>2 DEF RouteEnd, Frame, Wired, Answer, Ends
    <3> QED
      BY <2>a, <3>1, <3>2 DEF DropUnknown, RouteOutput, RouteAck
  <2> QED
    BY <1>1, <2>2, <2>3, <2>5, <2>7, <2>8, <2>9
       DEF ReadFrame, Types, TypeOK, HostType, peer, Wired
<1>2. CASE Deliver
  <2>1. PICK f \in Wired : f = reader.frame
    BY <1>2 DEF Deliver, Types
  <2>2. (~Full(f.id) /\ Push(f)) \/ UNCHANGED chan
    BY <1>2, <2>1 DEF Deliver
  <2>3. chan' \in [Id -> Seq(Wired)] /\ (\A j \in Id : Len(chan'[j]) <= ChanCap)
        /\ \A j \in Id : chan'[j] \in Seq(For(j))
    BY <2>2, PushTypes
  <2>4. reader'.at = "read"
    BY <1>2 DEF Deliver
  <2> QED
    BY <1>2, <2>3, <2>4 DEF Deliver, Types, TypeOK, WireType, HostType, peer, Wired
<1>3. CASE ReaderEnds
  <2>1. reader'.at = "dead"
    BY <1>3 DEF ReaderEnds
  <2> QED
    BY <1>3, <2>1 DEF ReaderEnds, Types, TypeOK, WireType, HostType, peer, calls
<1>4. CASE CloseChannels
  <2>1. reader'.at = "over"
    BY <1>4 DEF CloseChannels
  <2> QED
    BY <1>4, <2>1 DEF CloseChannels, Types, TypeOK, WireType, HostType, peer
<1> QED
  BY <1>1, <1>2, <1>3, <1>4 DEF Reader

\* What the guest says, and what it takes.
LEMMA SaysOne ==
  ASSUME Types, NEW g \in Told, Says(<<g>>)
  PROVE  /\ down' \in Seq(Told) /\ down' \in Seq(Wired) /\ Len(down') <= WireCap
         /\ (link # "cut" /\ Grew(down, down', g)) \/ (link = "cut" /\ UNCHANGED down)
<1>0. down \in Seq(Told) /\ down \in Seq(Wired) /\ Len(down) <= WireCap
  BY DEF Types, TypeOK, WireType, Wired
<1>1. /\ down \o <<g>> \in Seq(Told) /\ down \o <<g>> \in Seq(Wired)
      /\ Grew(down, down \o <<g>>, g)
  BY <1>0, GrewBy DEF Told
<1>2. Len(<<g>>) = 1 /\ Len(down) \in Nat
  BY <1>0
<1>3. CASE link # "cut" /\ Len(down) + Len(<<g>>) <= WireCap /\ down' = down \o <<g>>
  BY <1>1, <1>2, <1>3 DEF Grew
<1> QED
  BY <1>0, <1>3 DEF Says

LEMMA TakesTypes ==
  ASSUME Types, NEW k, NEW i, Takes(k, i)
  PROVE  up' \in Seq(Asked) /\ Len(up') <= WireCap
<1>1. up \in Seq(Asked) /\ Len(up) <= WireCap
  BY DEF Types, TypeOK, WireType, Asked
<1> QED
  BY <1>1, TailFields, WireAssumption DEF Takes

LEMMA FrameTold ==
  /\ \A k \in Answer \ {"Output"}, i \in Id : Frame(k, i) \in Told
  /\ \A t \in Turn : Frame("Output", t) \in Told
  BY DEF Frame, Told, Wired, Answer, Id

\* The guest's own run of a turn: n Output frames, then its end.
LEMMA SaysRun ==
  ASSUME Types, NEW t \in Turn, NEW n \in Nat, NEW k \in Ends,
         NEW o, o = [j \in 1..n |-> Frame("Output", t)],
         Says(Append(o, Frame(k, t)))
  PROVE  /\ down' \in Seq(Told) /\ down' \in Seq(Wired) /\ Len(down') <= WireCap
         /\ (link # "cut" /\ down' = down \o Append(o, Frame(k, t)))
              \/ (link = "cut" /\ UNCHANGED down)
<1>0. down \in Seq(Told) /\ Len(down) <= WireCap
  BY DEF Types, TypeOK, WireType, Wired
<1>1. Frame("Output", t) \in Told /\ Frame(k, t) \in Told
  BY FrameTold DEF Ends, Answer, Id
<1>2. o \in Seq(Told)
  BY <1>1
<1>3. PICK a \in Seq(Told) : a = Append(o, Frame(k, t))
  BY <1>1, <1>2, AppendProperties
<1>4. down \o a \in Seq(Told) /\ Len(down \o a) = Len(down) + Len(a)
  BY <1>0, ConcatProperties
<1>5. \A q : q \in Seq(Told) => q \in Seq(Wired)
  BY DEF Told
<1> QED
  BY <1>0, <1>3, <1>4, <1>5 DEF Says

LEMMA PeerTypes ==
  ASSUME Types, PeerNext, UNCHANGED host
  PROVE  Types'
<1> USE DEF wire
<1>h. /\ HostType' /\ link \in {"open", "fin", "cut"}
      /\ reader' = reader /\ at' = at /\ aim' = aim /\ chan' = chan
  BY DEF host, calls, routing, Types, TypeOK, WireType, HostType
<1>d. down \in Seq(Told) /\ down \in Seq(Wired) /\ Len(down) <= WireCap
  BY DEF Types, TypeOK, WireType, Wired
<1>u. up \in Seq(Asked) /\ Len(up) <= WireCap
  BY DEF Types, TypeOK, WireType, Asked
<1>0. ASSUME down' \in Seq(Told), down' \in Seq(Wired), Len(down') <= WireCap,
             up' \in Seq(Asked), Len(up') <= WireCap, link' \in {"open", "fin", "cut"},
             met' = TRUE, cur' \in Turn \cup {None}, wrote' \in [Turn -> Nat]
      PROVE  Types'
  BY <1>h, <1>0 DEF Types, TypeOK, WireType, Wired, Asked
<1> DEFINE P == /\ met = TRUE /\ cur \in Turn \cup {None} /\ wrote \in [Turn -> Nat]
<1>p. P
  BY DEF Types
<1>1. ASSUME NEW t \in Turn, PeerRefuses(t) PROVE Types'
  <2>1. Frame("Error", t) \in Told
    BY FrameTold DEF Answer, Ends, Id
  <2>2. down' \in Seq(Told) /\ down' \in Seq(Wired) /\ Len(down') <= WireCap
    BY <1>1, <2>1, SaysOne DEF PeerRefuses
  <2> QED
    BY <1>0, <1>1, <1>h, <1>p, <2>2, TakesTypes DEF PeerRefuses
<1>2. ASSUME NEW t \in Turn, PeerStarts(t) PROVE Types'
  <2>1. wrote' \in [Turn -> Nat]
    BY <1>2, <1>p DEF PeerStarts
  <2> QED
    BY <1>0, <1>2, <1>h, <1>d, <1>p, <2>1, TakesTypes DEF PeerStarts
<1>3. ASSUME NEW t \in Turn, PeerRuns(t) PROVE Types'
  <2>1. PICK n \in 0..MaxOutput, k \in Ends :
          /\ Says(Append([j \in 1..n |-> Frame("Output", t)], Frame(k, t)))
          /\ wrote' = [wrote EXCEPT ![t] = n]
    BY <1>3 DEF PeerRuns
  <2>2. n \in Nat
    BY PeerAssumption
  <2>3. down' \in Seq(Told) /\ down' \in Seq(Wired) /\ Len(down') <= WireCap
    BY <2>1, <2>2, SaysRun
  <2>4. wrote' \in [Turn -> Nat]
    BY <1>p, <2>1, <2>2
  <2> QED
    BY <1>0, <1>3, <1>h, <1>p, <2>3, <2>4, TakesTypes DEF PeerRuns
<1>4. CASE PeerWrites
  <2>0. PICK t \in Turn : t = cur
    BY <1>4, <1>p DEF PeerWrites
  <2>1. Frame("Output", t) \in Told
    BY FrameTold
  <2>2. down' \in Seq(Told) /\ down' \in Seq(Wired) /\ Len(down') <= WireCap
    BY <1>4, <2>0, <2>1, SaysOne DEF PeerWrites
  <2>3. wrote' \in [Turn -> Nat]
    BY <1>4, <1>p, <2>0 DEF PeerWrites
  <2> QED
    BY <1>0, <1>4, <1>h, <1>u, <1>p, <2>2, <2>3 DEF PeerWrites
<1>5. CASE PeerEnds
  <2>0. PICK t \in Turn : t = cur
    BY <1>5, <1>p DEF PeerEnds
  <2>1. PICK k \in Ends : Says(<<Frame(k, t)>>)
    BY <1>5, <2>0 DEF PeerEnds
  <2>2. Frame(k, t) \in Told
    BY FrameTold DEF Answer, Ends, Id
  <2>3. down' \in Seq(Told) /\ down' \in Seq(Wired) /\ Len(down') <= WireCap
    BY <2>1, <2>2, SaysOne
  <2> QED
    BY <1>0, <1>5, <1>h, <1>u, <1>p, <2>3 DEF PeerEnds
<1>6. CASE PeerLeaves
  BY <1>0, <1>6, <1>d, <1>u, <1>p DEF PeerLeaves, peer
<1>7. ASSUME NEW i \in Id, PeerReplies(i) PROVE Types'
  <2>1. PICK k \in CtlKind : /\ Takes(k, i)
                             /\ Says(<<Frame(AckOf(k), i)>>) \/ Says(<<Frame("Error", i)>>)
                             /\ met' = (met \/ k = "Hello")
    BY <1>7 DEF PeerReplies
  <2>2. Frame(AckOf(k), i) \in Told /\ Frame("Error", i) \in Told
    <3>1. AckOf(k) \in Answer \ {"Output"}
      BY DEF CtlKind, AckOf, Answer, Acks, Ends
    <3> QED
      BY <3>1, FrameTold DEF Answer, Ends
  <2>3. down' \in Seq(Told) /\ down' \in Seq(Wired) /\ Len(down') <= WireCap
    BY <2>1, <2>2, SaysOne
  <2>4. met' = TRUE
    BY <1>p, <2>1
  <2> QED
    BY <1>0, <1>7, <1>h, <1>p, <2>1, <2>3, <2>4, TakesTypes DEF PeerReplies
<1> QED
  BY <1>1, <1>2, <1>3, <1>4, <1>5, <1>6, <1>7 DEF PeerNext

LEMMA TypesNext == Types /\ [Next]_vars => Types'
<1> SUFFICES ASSUME Types, [Next]_vars PROVE Types'
  OBVIOUS
<1>1. ASSUME NEW i \in Id,
             Send(i) \/ Consume(i) \/ SeeClosed(i) \/ Timeout(i) \/ Abandon(i)
      PROVE  Types'
  BY <1>1, CallTypes, TurnTypesKeep DEF Consume
<1>2. ASSUME NEW t \in Turn,
             BeginTurn(t) \/ Register(t) \/ Publish(t) \/ SendCancel(t) \/ Stop(t)
      PROVE  Types'
  BY <1>2, TurnTypesKeep
<1>3. ASSUME NEW i \in Ctl, BeginExchange(i) \/ ReadActive(i) \/ CancelActiveTurn(i)
      PROVE  Types'
  BY <1>3, CtlTypes
<1>4. CASE Close
  BY <1>4 DEF Close, host, calls, routing, peer, Types, TypeOK, WireType, HostType
<1>5. CASE Reader
  BY <1>5, ReaderTypes
<1>6. CASE Cleanup
  BY <1>6, TurnTypesKeep DEF Cleanup
<1>7. CASE PeerNext /\ UNCHANGED host
  BY <1>7, PeerTypes
<1>8. CASE Break /\ UNCHANGED <<peer, host>>
  <2>1. up' = << >> /\ down' = << >> /\ link' = "cut" /\ WireType' /\ down' \in Seq(Told)
    BY <1>8 DEF Break, WireType
  <2> QED
    BY <1>8, <2>1 DEF host, calls, routing, peer, Types, TypeOK, HostType
<1>9. CASE UNCHANGED vars
  BY <1>9 DEF vars, wire, host, calls, routing, peer, Types, TypeOK, WireType, HostType
<1> QED
  BY <1>1, <1>2, <1>3, <1>4, <1>5, <1>6, <1>7, <1>8, <1>9 DEF Next, Finished

\* Every channel, the wire, the byte budget and the captured output stay within
\* their bounds, whatever the guest sends and whoever stops reading
\* (provider.rs FRAME_CHANNEL_CAPACITY, DEMUX_REQUEST_BYTE_BUDGET).
THEOREM SessionTypes == Spec => []TypeOK
<1>1. Types => TypeOK
  BY DEF Types
<1> QED
  BY <1>1, TypesInit, TypesNext, PTL DEF Spec

-----------------------------------------------------------------------------
(* Order in a sequence that loses its head or grows *)

LEMMA OrderTail ==
  ASSUME NEW S, NEW q \in Seq(S), q # << >>, NEW f, NEW g, NEW h
  PROVE  /\ Never(q, f, g) => Never(Tail(q), f, g)
         /\ Never(q, f, g) /\ q[1] = f => ~Has(Tail(q), g)
         /\ NeverThird(q, f, g, h) => NeverThird(Tail(q), f, g, h)
         /\ NeverThird(q, f, g, h) /\ q[1] = f => Never(Tail(q), g, h)
<1>0. /\ Tail(q) \in Seq(S) /\ Len(q) \in Nat \ {0} /\ 1 \in 1..Len(q)
      /\ \A i \in 1..Len(Tail(q)) : i + 1 \in 1..Len(q) /\ Tail(q)[i] = q[i + 1] /\ 1 < i + 1
  BY TailFields
<1>s. \A i, j \in 1..Len(Tail(q)) : i < j => i + 1 < j + 1
  OBVIOUS
<1>1. Never(q, f, g) => Never(Tail(q), f, g)
  BY <1>0, <1>s DEF Never
<1>2. Never(q, f, g) /\ q[1] = f => ~Has(Tail(q), g)
  BY <1>0 DEF Never, Has
<1>3. NeverThird(q, f, g, h) => NeverThird(Tail(q), f, g, h)
  BY <1>0, <1>s DEF NeverThird
<1>4. NeverThird(q, f, g, h) /\ q[1] = f => Never(Tail(q), g, h)
  BY <1>0, <1>s DEF NeverThird, Never
<1> QED
  BY <1>1, <1>2, <1>3, <1>4

LEMMA OrderGrew ==
  ASSUME NEW S, NEW q \in Seq(S), NEW r \in Seq(S), NEW n, Grew(q, r, n),
         NEW f, NEW g, NEW h
  PROVE  /\ Has(r, f) <=> Has(q, f) \/ n = f
         /\ Never(q, f, g) /\ (n # g \/ ~Has(q, f)) => Never(r, f, g)
         /\ NeverThird(q, f, g, h) /\ (n # h \/ Never(q, f, g)) => NeverThird(r, f, g, h)
<1>0. /\ \A i : i \in 1..Len(r) <=> i \in 1..Len(q) \/ i = Len(q) + 1
      /\ \A i \in 1..Len(q) : r[i] = q[i] /\ i < Len(q) + 1
      /\ r[Len(q) + 1] = n
  BY DEF Grew
<1>l. \A i, j \in 1..Len(r) : i < j => i \in 1..Len(q)
  BY DEF Grew
<1>1. Has(r, f) <=> Has(q, f) \/ n = f
  BY <1>0 DEF Has
<1>2. Never(q, f, g) /\ (n # g \/ ~Has(q, f)) => Never(r, f, g)
  BY <1>0, <1>l DEF Never, Has
<1>3. NeverThird(q, f, g, h) /\ (n # h \/ Never(q, f, g)) => NeverThird(r, f, g, h)
  <2> SUFFICES ASSUME NeverThird(q, f, g, h), n # h \/ Never(q, f, g),
                      NEW i \in 1..Len(r), NEW j \in 1..Len(r), NEW k \in 1..Len(r),
                      i < j, j < k, r[i] = f, r[j] = g
               PROVE  r[k] # h
    BY DEF NeverThird
  <2>1. i \in 1..Len(q) /\ j \in 1..Len(q) /\ q[i] = f /\ q[j] = g
    BY <1>0, <1>l
  <2>2. CASE k \in 1..Len(q)
    BY <1>0, <2>1, <2>2 DEF NeverThird
  <2>3. CASE k = Len(q) + 1
    BY <1>0, <2>1, <2>3 DEF Never
  <2> QED
    BY <1>0, <2>2, <2>3
<1> QED
  BY <1>1, <1>2, <1>3

LEMMA HasHead ==
  ASSUME NEW S, NEW q \in Seq(S), q # << >>, NEW f, q[1] = f
  PROVE  Has(q, f)
<1>1. 1 \in 1..Len(q)
  BY TailFields
<1> QED
  BY <1>1 DEF Has

LEMMA HasGrew ==
  ASSUME NEW S, NEW q \in Seq(S), NEW r \in Seq(S), NEW n, Grew(q, r, n), NEW f
  PROVE  Has(r, f) <=> Has(q, f) \/ n = f
  BY OrderGrew

LEMMA NeverGrew ==
  ASSUME NEW S, NEW q \in Seq(S), NEW r \in Seq(S), NEW n, Grew(q, r, n), NEW f, NEW g,
         Never(q, f, g), n # g \/ ~Has(q, f)
  PROVE  Never(r, f, g)
  BY OrderGrew

\* r is q as far as the frames of F go.
Same(q, r, F) ==
  /\ \A f \in F : Count(r, f) = Count(q, f) /\ (Has(r, f) <=> Has(q, f))
  /\ \A f, g \in F : Never(q, f, g) => Never(r, f, g)
  /\ \A f, g, h \in F : NeverThird(q, f, g, h) => NeverThird(r, f, g, h)

LEMMA SameTail ==
  ASSUME NEW S, NEW q \in Seq(S), q # << >>, NEW F, q[1] \notin F
  PROVE  Same(q, Tail(q), F)
<1>1. ASSUME NEW f \in F
      PROVE  Count(Tail(q), f) = Count(q, f) /\ (Has(Tail(q), f) <=> Has(q, f))
  BY CountTail
<1> QED
  BY <1>1, OrderTail DEF Same

\* r is q and then frames that are none of F.
Padded(q, r, F) ==
  /\ Len(r) >= Len(q)
  /\ \A i \in 1..Len(q) : r[i] = q[i]
  /\ \A i \in (Len(q) + 1)..Len(r) : r[i] \notin F

LEMMA SamePadded ==
  ASSUME NEW S, NEW q \in Seq(S), NEW r \in Seq(S), NEW F, Padded(q, r, F)
  PROVE  Same(q, r, F)
<1>0. ASSUME NEW f \in F, NEW i \in 1..Len(r), r[i] = f
      PROVE  i \in 1..Len(q) /\ q[i] = f
  <2>1. i \in 1..Len(q) \/ i \in (Len(q) + 1)..Len(r)
    BY DEF Padded
  <2> QED
    BY <1>0, <2>1 DEF Padded
<1>1. \A i \in 1..Len(q) : i \in 1..Len(r) /\ r[i] = q[i]
  BY DEF Padded
<1>2. ASSUME NEW f \in F
      PROVE  Count(r, f) = Count(q, f) /\ (Has(r, f) <=> Has(q, f))
  <2>1. Where(r, f) = Where(q, f)
    BY <1>0, <1>1 DEF Where
  <2> QED
    BY <1>0, <1>1, <2>1 DEF Count, Has
<1>3. ASSUME NEW f \in F, NEW g \in F, Never(q, f, g) PROVE Never(r, f, g)
  BY <1>0, <1>3 DEF Never
<1>4. ASSUME NEW f \in F, NEW g \in F, NEW h \in F, NeverThird(q, f, g, h)
      PROVE  NeverThird(r, f, g, h)
  BY <1>0, <1>4 DEF NeverThird
<1> QED
  BY <1>2, <1>3, <1>4 DEF Same

LEMMA SameGrew ==
  ASSUME NEW S, NEW q \in Seq(S), NEW r \in Seq(S), NEW n, Grew(q, r, n), NEW F, n \notin F
  PROVE  Same(q, r, F)
<1>1. Len(r) >= Len(q) /\ \A i \in (Len(q) + 1)..Len(r) : i = Len(q) + 1
  BY DEF Grew
<1>2. Padded(q, r, F)
  BY <1>1 DEF Padded, Grew
<1> QED
  BY <1>2, SamePadded

LEMMA SameItself ==
  ASSUME NEW q, NEW F
  PROVE  Same(q, q, F)
  BY DEF Same

-----------------------------------------------------------------------------
(* What a step does to one turn *)

Typed(t) ==
  /\ chan[t] \in Seq(Wired) /\ down \in Seq(Wired) /\ up \in Seq(Asked)
  /\ got[t] \in Nat /\ wrote[t] \in Nat

LEMMA TypedTurn ==
  ASSUME Types, NEW t \in Turn
  PROVE  Typed(t)
<1>1. t \in Id
  BY DEF Id
<1>2. got[t] \in Nat /\ wrote[t] \in Nat
  BY HostAssumption DEF Types, TypeOK, HostType
<1>3. chan[t] \in Seq(Wired)
  BY <1>1 DEF Types, TypeOK, HostType, Wired
<1>4. down \in Seq(Wired) /\ up \in Seq(Asked)
  BY DEF Types, TypeOK, WireType, Wired, Asked
<1> QED
  BY <1>2, <1>3, <1>4 DEF Typed

LEMMA TypedAfter ==
  ASSUME Types', NEW t \in Turn
  PROVE  Typed(t)'
<1>1. t \in Id
  BY DEF Id
<1>2. got'[t] \in Nat /\ wrote'[t] \in Nat
  BY HostAssumption DEF Types, TypeOK, HostType
<1>3. chan'[t] \in Seq(Wired)
  BY <1>1 DEF Types, TypeOK, HostType, Wired
<1>4. down' \in Seq(Wired) /\ up' \in Seq(Asked)
  BY DEF Types, TypeOK, WireType, Wired, Asked
<1> QED
  BY <1>2, <1>3, <1>4 DEF Typed

LEMMA FramesDiffer ==
  ASSUME NEW t
  PROVE  Out(t) # Exit(t) /\ Out(t) # Err(t) /\ Exit(t) # Err(t)
  BY DEF Out, Exit, Err, Frame

\* The turn does not become fresh again, and the reader knows it as before.
Still(t) == AskedOnce(t)' /\ (Fresh(t)' => Fresh(t)) /\ Known(t)'

\* Nothing else of the turn changes.
Aside(t) ==
  /\ Same(down, down', {Out(t), Exit(t), Err(t)})
  /\ Same(chan[t], chan'[t], {Out(t), Exit(t)})
  /\ got'[t] = got[t] /\ wrote'[t] = wrote[t]
  /\ t \in lossy' <=> t \in lossy
  /\ InHand(t)' => InHand(t)
  /\ cur' = t <=> cur = t
  /\ link' = "cut" \/ link # "cut"

LEMMA AsideKeeps ==
  ASSUME NEW t, LiveInv(t), Still(t), Aside(t)
  PROVE  LiveInv(t)'
<1>1. FreshIsClean(t)'
  BY DEF LiveInv, FreshIsClean, Still, Aside, Same
<1>2. ExitIsLast(t)'
  BY DEF LiveInv, ExitIsLast, Over, Still, Aside, Same
<1>3. ErrorIsApart(t)'
  BY DEF LiveInv, ErrorIsApart, Aside, Same
<1>4. Accounted(t)'
  BY DEF LiveInv, Accounted, Aside, Same
<1> QED
  BY <1>1, <1>2, <1>3, <1>4 DEF LiveInv, Still

\* The caller consumes an Output frame.
LEMMA ConsumedKeeps ==
  ASSUME NEW t, LiveInv(t), Typed(t), Typed(t)', Still(t),
         chan[t] # << >>, chan[t][1] = Out(t), chan'[t] = Tail(chan[t]), got'[t] = got[t] + 1,
         UNCHANGED <<down, link, cur, wrote, lossy, reader>>
  PROVE  LiveInv(t)'
<1>1. /\ Has(chan[t], Out(t)) /\ Count(chan[t], Out(t)) = Count(chan'[t], Out(t)) + 1
      /\ Has(chan'[t], Exit(t)) => Has(chan[t], Exit(t))
      /\ Never(chan[t], Exit(t), Out(t)) => Never(chan'[t], Exit(t), Out(t))
  <2>1. Has(chan[t], Out(t))
    BY HasHead DEF Typed
  <2>2. /\ Count(chan[t], Out(t)) = Count(chan'[t], Out(t)) + 1
        /\ Has(chan'[t], Exit(t)) => Has(chan[t], Exit(t))
    BY CountTail DEF Typed
  <2>3. Never(chan[t], Exit(t), Out(t)) => Never(chan'[t], Exit(t), Out(t))
    BY OrderTail DEF Typed
  <2> QED
    BY <2>1, <2>2, <2>3
<1>2. ~Fresh(t)
  BY <1>1 DEF LiveInv, FreshIsClean
<1>3. InHand(t)' <=> InHand(t)
  BY DEF InHand
<1>4. ExitIsLast(t)'
  BY <1>1, <1>3 DEF LiveInv, ExitIsLast, Over, Still
<1>5. Accounted(t)'
  <2>1. Count(chan'[t], Out(t)) \in Nat /\ Count(down, Out(t)) \in Nat
    BY CountFinite DEF Typed
  <2>3. got[t] \in Nat
    BY DEF Typed
  <2>2. got'[t] + Count(chan'[t], Out(t)) = got[t] + Count(chan[t], Out(t))
    BY <1>1, <2>1, <2>3
  <2> QED
    BY <1>1, <1>3, <2>2 DEF LiveInv, Accounted
<1>6. ErrorIsApart(t)'
  BY DEF LiveInv, ErrorIsApart
<1>7. FreshIsClean(t)'
  BY <1>2 DEF Still, FreshIsClean
<1> QED
  BY <1>4, <1>5, <1>6, <1>7 DEF LiveInv, Still

\* The reader moves an Output frame into the channel ...
LEMMA PushedKeeps ==
  ASSUME NEW t, LiveInv(t), Typed(t), Typed(t)', Still(t),
         down # << >>, down[1] = Out(t), down' = Tail(down), Grew(chan[t], chan'[t], Out(t)),
         ~InHand(t)', UNCHANGED <<link, cur, wrote, lossy, got>>
  PROVE  LiveInv(t)'
<1>1. /\ Has(down, Out(t)) /\ Count(down, Out(t)) = Count(down', Out(t)) + 1
      /\ Has(down', Exit(t)) => Has(down, Exit(t))
      /\ Has(down', Err(t)) => Has(down, Err(t))
  <2>1. Has(down, Out(t))
    BY HasHead DEF Typed
  <2> QED
    BY <2>1, CountTail DEF Typed
<1>2. ~Fresh(t) /\ ~Has(chan[t], Exit(t))
  BY <1>1 DEF LiveInv, FreshIsClean, ExitIsLast
<1>3. /\ ~Has(chan'[t], Exit(t)) /\ Count(chan'[t], Out(t)) = Count(chan[t], Out(t)) + 1
      /\ Never(chan[t], Exit(t), Out(t)) => Never(chan'[t], Exit(t), Out(t))
  <2>1. Out(t) # Exit(t)
    BY FramesDiffer
  <2>2. ~Has(chan'[t], Exit(t))
    BY <1>2, <2>1, OrderGrew DEF Typed
  <2>3. Count(chan'[t], Out(t)) = Count(chan[t], Out(t)) + 1
    BY CountGrew DEF Typed
  <2>4. Never(chan[t], Exit(t), Out(t)) => Never(chan'[t], Exit(t), Out(t))
    BY <1>2, OrderGrew DEF Typed
  <2> QED
    BY <2>2, <2>3, <2>4
<1>4. ExitIsLast(t)'
  <2>1. Never(down', Exit(t), Out(t)) /\ Never(down', Exit(t), Exit(t))
    BY OrderTail DEF LiveInv, ExitIsLast, Typed
  <2> QED
    BY <1>1, <1>2, <1>3, <2>1 DEF LiveInv, ExitIsLast, Over, Still
<1>5. Accounted(t)'
  <2>1. /\ Count(chan[t], Out(t)) \in Nat /\ Count(chan'[t], Out(t)) \in Nat
        /\ Count(down, Out(t)) \in Nat /\ Count(down', Out(t)) \in Nat
    BY CountFinite DEF Typed
  <2>2. got[t] + Count(chan'[t], Out(t)) + Count(down', Out(t))
          = got[t] + Count(chan[t], Out(t)) + Count(down, Out(t))
    <3>1. PICK n \in Nat, c \in Nat, d \in Nat :
            n = got[t] /\ c = Count(chan[t], Out(t)) /\ d = Count(down', Out(t))
      BY <2>1 DEF Typed
    <3>2. n + (c + 1) + d = n + c + (d + 1)
      OBVIOUS
    <3> QED
      BY <1>1, <1>3, <3>1, <3>2
  <2> QED
    BY <1>1, <1>3, <2>2 DEF LiveInv, Accounted
<1>6. ErrorIsApart(t)'
  <2>1. NeverThird(down', Out(t), Err(t), Exit(t))
    BY OrderTail DEF LiveInv, ErrorIsApart, Typed
  <2>2. t \in lossy => Never(down', Err(t), Exit(t))
    BY OrderTail DEF LiveInv, ErrorIsApart, Typed
  <2>3. cur = t => Never(down', Out(t), Err(t))
    BY OrderTail DEF LiveInv, ErrorIsApart, Typed
  <2> QED
    BY <1>1, <2>1, <2>2, <2>3 DEF LiveInv, ErrorIsApart
<1>7. FreshIsClean(t)'
  BY <1>2 DEF Still, FreshIsClean
<1> QED
  BY <1>4, <1>5, <1>6, <1>7 DEF LiveInv, Still

\* ... or loses it, and remembers.
LEMMA LostKeeps ==
  ASSUME NEW t, LiveInv(t), Typed(t), Typed(t)', Still(t),
         down # << >>, down[1] = Out(t), down' = Tail(down), t \in lossy',
         ~InHand(t)', chan'[t] = chan[t], UNCHANGED <<link, cur, wrote, got>>
  PROVE  LiveInv(t)'
<1>1. /\ Has(down, Out(t))
      /\ Has(down', Exit(t)) => Has(down, Exit(t))
      /\ Has(down', Err(t)) => Has(down, Err(t))
  <2>1. Has(down, Out(t))
    BY HasHead DEF Typed
  <2> QED
    BY <2>1, CountTail DEF Typed
<1>2. ~Fresh(t) /\ ~Has(chan[t], Exit(t))
  BY <1>1 DEF LiveInv, FreshIsClean, ExitIsLast
<1>4. ExitIsLast(t)'
  <2>1. Never(down', Exit(t), Out(t)) /\ Never(down', Exit(t), Exit(t))
    BY OrderTail DEF LiveInv, ExitIsLast, Typed
  <2> QED
    BY <1>1, <1>2, <2>1 DEF LiveInv, ExitIsLast, Over, Still
<1>5. Accounted(t)'
  BY <1>2 DEF LiveInv, Accounted
<1>6. ErrorIsApart(t)'
  <2>1. NeverThird(down', Out(t), Err(t), Exit(t)) /\ Never(down', Err(t), Exit(t))
    BY OrderTail DEF LiveInv, ErrorIsApart, Typed
  <2>3. cur = t => Never(down', Out(t), Err(t)) /\ ~Has(down', Err(t))
    BY OrderTail DEF LiveInv, ErrorIsApart, Typed
  <2> QED
    BY <2>1, <2>3 DEF ErrorIsApart
<1>7. FreshIsClean(t)'
  BY <1>2 DEF Still, FreshIsClean
<1> QED
  BY <1>4, <1>5, <1>6, <1>7 DEF LiveInv, Still

\* The reader takes the turn's exit in hand, unless output was lost.
LEMMA ExitReadKeeps ==
  ASSUME NEW t, LiveInv(t), Typed(t), Typed(t)', Still(t), ~InHand(t),
         down # << >>, down[1] = Exit(t), down' = Tail(down), t \notin lossy',
         InHand(t)' => t \notin lossy,
         chan'[t] = chan[t], UNCHANGED <<link, cur, wrote, got>>
  PROVE  LiveInv(t)'
<1>0. Out(t) # Exit(t)
  BY FramesDiffer
<1>1. /\ Has(down, Exit(t)) /\ ~Has(down', Exit(t)) /\ ~Has(down', Out(t))
      /\ Count(down, Out(t)) = 0
  <2>1. Has(down, Exit(t))
    BY HasHead DEF Typed
  <2>2. ~Has(down', Exit(t)) /\ ~Has(down', Out(t))
    BY OrderTail DEF LiveInv, ExitIsLast, Typed
  <2>3. Count(down, Out(t)) = Count(down', Out(t))
    BY <1>0, CountTail DEF Typed
  <2>4. Count(down', Out(t)) = 0
    BY <2>2, CountFinite DEF Typed
  <2> QED
    BY <2>1, <2>2, <2>3, <2>4
<1>2. cur # t /\ ~Fresh(t) /\ ~Fresh(t)'
  BY <1>1 DEF LiveInv, ExitIsLast, Over, Still
<1>3. ExitIsLast(t)'
  <2>1. Never(down', Exit(t), Out(t)) /\ Never(down', Exit(t), Exit(t))
    BY OrderTail DEF LiveInv, ExitIsLast, Typed
  <2> QED
    BY <1>1, <1>2, <2>1 DEF LiveInv, ExitIsLast, Over
<1>4. Accounted(t)'
  <2>1. t \notin lossy => got[t] + Count(chan[t], Out(t)) + Count(down, Out(t)) = wrote[t]
    BY <1>1 DEF LiveInv, Accounted
  <2>2. Count(chan[t], Out(t)) \in Nat /\ got[t] \in Nat
    BY CountFinite DEF Typed
  <2>3. t \notin lossy => got[t] + Count(chan[t], Out(t)) = wrote[t]
    BY <1>1, <2>1, <2>2
  <2> QED
    BY <1>1, <1>2, <2>3 DEF LiveInv, Accounted
<1>5. ErrorIsApart(t)'
  <2>1. NeverThird(down', Out(t), Err(t), Exit(t))
    BY OrderTail DEF LiveInv, ErrorIsApart, Typed
  <2> QED
    BY <1>2, <2>1 DEF ErrorIsApart
<1> QED
  BY <1>2, <1>3, <1>4, <1>5 DEF LiveInv, Still, FreshIsClean

\* The reader takes an Error of the turn: what it forgets no longer matters.
LEMMA ErrReadKeeps ==
  ASSUME NEW t, LiveInv(t), Typed(t), Typed(t)', Still(t),
         down # << >>, down[1] = Err(t), down' = Tail(down), t \notin lossy',
         ~InHand(t)', chan'[t] = chan[t], UNCHANGED <<link, cur, wrote, got>>
  PROVE  LiveInv(t)'
<1>0. Out(t) # Err(t) /\ Exit(t) # Err(t)
  BY FramesDiffer
<1>1. /\ Has(down, Err(t))
      /\ Has(down', Exit(t)) => Has(down, Exit(t)) /\ t \notin lossy
      /\ Has(down', Out(t)) => Has(down, Out(t))
      /\ Count(down', Out(t)) = Count(down, Out(t))
  <2>1. Has(down, Err(t))
    BY HasHead DEF Typed
  <2>2. /\ Has(down', Exit(t)) => Has(down, Exit(t))
        /\ Has(down', Out(t)) => Has(down, Out(t))
        /\ Count(down', Out(t)) = Count(down, Out(t))
    BY <1>0, CountTail DEF Typed
  <2>3. t \in lossy => ~Has(down', Exit(t))
    BY OrderTail DEF LiveInv, ErrorIsApart, Typed
  <2> QED
    BY <2>1, <2>2, <2>3
<1>2. cur = t => t \notin lossy
  BY <1>1 DEF LiveInv, ErrorIsApart
<1>3. ExitIsLast(t)'
  <2>1. Never(down', Exit(t), Out(t)) /\ Never(down', Exit(t), Exit(t))
    BY OrderTail DEF LiveInv, ExitIsLast, Typed
  <2> QED
    BY <1>1, <2>1 DEF LiveInv, ExitIsLast, Over, Still
<1>4. Accounted(t)'
  BY <1>1, <1>2 DEF LiveInv, Accounted
<1>5. ErrorIsApart(t)'
  <2>1. NeverThird(down', Out(t), Err(t), Exit(t))
    BY OrderTail DEF LiveInv, ErrorIsApart, Typed
  <2>2. cur = t => Never(down', Out(t), Err(t))
    BY OrderTail DEF LiveInv, ErrorIsApart, Typed
  <2> QED
    BY <2>1, <2>2 DEF ErrorIsApart
<1>6. FreshIsClean(t)'
  BY <1>1 DEF LiveInv, Still, FreshIsClean
<1> QED
  BY <1>3, <1>4, <1>5, <1>6 DEF LiveInv, Still

\* The exit in hand goes into the channel.
LEMMA DeliveredKeeps ==
  ASSUME NEW t, LiveInv(t), Typed(t), Typed(t)', Still(t),
         InHand(t), ~InHand(t)', Grew(chan[t], chan'[t], Exit(t)),
         UNCHANGED <<down, link, cur, wrote, got, lossy>>
  PROVE  LiveInv(t)'
<1>0. Out(t) # Exit(t)
  BY FramesDiffer
<1>1. /\ Count(chan'[t], Out(t)) = Count(chan[t], Out(t))
      /\ Has(chan'[t], Out(t)) => Has(chan[t], Out(t))
      /\ Never(chan[t], Exit(t), Out(t)) => Never(chan'[t], Exit(t), Out(t))
  <2>1. Count(chan'[t], Out(t)) = Count(chan[t], Out(t))
    BY <1>0, CountGrew DEF Typed
  <2>2. Has(chan'[t], Out(t)) => Has(chan[t], Out(t))
    BY <1>0, HasGrew DEF Typed
  <2>3. Never(chan[t], Exit(t), Out(t)) => Never(chan'[t], Exit(t), Out(t))
    BY <1>0, OrderGrew DEF Typed
  <2> QED
    BY <2>1, <2>2, <2>3
<1>2. cur # t /\ ~Fresh(t) /\ ~Fresh(t)'
  BY DEF LiveInv, ExitIsLast, Over, Still
<1>3. ExitIsLast(t)'
  BY <1>1, <1>2 DEF LiveInv, ExitIsLast, Over
<1>4. Accounted(t)'
  <2>1. got[t] + Count(chan[t], Out(t)) = wrote[t]
    BY DEF LiveInv, Accounted
  <2>2. ~Has(down, Exit(t)) \/ t \in lossy
          \/ got[t] + Count(chan'[t], Out(t)) + Count(down, Out(t)) = wrote[t]
    BY <1>1 DEF LiveInv, Accounted
  <2> QED
    BY <1>1, <1>2, <2>1, <2>2 DEF Accounted
<1>5. ErrorIsApart(t)'
  BY DEF LiveInv, ErrorIsApart
<1> QED
  BY <1>2, <1>3, <1>4, <1>5 DEF LiveInv, Still, FreshIsClean

\* Nothing the guest does touches the calls.
Calls(t) ==
  chan'[t] = chan[t] /\ got'[t] = got[t] /\ lossy' = lossy /\ reader' = reader /\ link' = link

\* The guest writes output of the turn.
LEMMA WroteKeeps ==
  ASSUME NEW t, LiveInv(t), Typed(t), Typed(t)', Still(t), Calls(t),
         cur = t, cur' = t, wrote'[t] = wrote[t] + 1,
         (link # "cut" /\ Grew(down, down', Out(t))) \/ (link = "cut" /\ down' = down)
  PROVE  LiveInv(t)'
<1>0. Out(t) # Exit(t) /\ Out(t) # Err(t)
  BY FramesDiffer
<1>1. ~Fresh(t) /\ ~Fresh(t)'
  BY DEF LiveInv, FreshIsClean, Still
<1>2. /\ ~Has(down, Exit(t)) /\ ~InHand(t) /\ ~Has(chan[t], Exit(t)) /\ ~InHand(t)'
  BY DEF LiveInv, ExitIsLast, Over, Calls, InHand
<1>3. /\ ~Has(down', Exit(t)) /\ (Has(down', Err(t)) <=> Has(down, Err(t)))
      /\ Never(down', Exit(t), Out(t)) /\ Never(down', Exit(t), Exit(t))
      /\ NeverThird(down', Out(t), Err(t), Exit(t)) /\ Never(down', Out(t), Err(t))
      /\ t \in lossy => Never(down', Err(t), Exit(t))
  <2>1. CASE Grew(down, down', Out(t))
    <3>1. ~Has(down', Exit(t)) /\ (Has(down', Err(t)) <=> Has(down, Err(t)))
      BY <1>0, <1>2, <2>1, OrderGrew DEF Typed
    <3>2. Never(down', Exit(t), Out(t)) /\ Never(down', Exit(t), Exit(t))
      BY <1>2, <2>1, OrderGrew DEF Typed, LiveInv, ExitIsLast
    <3>3. NeverThird(down', Out(t), Err(t), Exit(t)) /\ Never(down', Out(t), Err(t))
      BY <1>0, <2>1, OrderGrew DEF Typed, LiveInv, ErrorIsApart
    <3>4. t \in lossy => Never(down', Err(t), Exit(t))
      BY <1>0, <2>1, OrderGrew DEF Typed, LiveInv, ErrorIsApart
    <3> QED
      BY <3>1, <3>2, <3>3, <3>4
  <2>2. CASE down' = down
    BY <1>2, <2>2 DEF LiveInv, ExitIsLast, ErrorIsApart
  <2> QED
    BY <2>1, <2>2
<1>4. ExitIsLast(t)'
  BY <1>2, <1>3 DEF LiveInv, ExitIsLast, Calls
<1>5. Accounted(t)'
  <2>1. CASE link = "cut"
    BY <1>2, <1>3, <2>1 DEF Accounted, Calls
  <2>2. CASE link # "cut" /\ Grew(down, down', Out(t))
    <3>1. PICK n \in Nat, c \in Nat, d \in Nat, w \in Nat :
            /\ n = got[t] /\ c = Count(chan[t], Out(t)) /\ d = Count(down, Out(t))
            /\ w = wrote[t]
      BY CountFinite DEF Typed
    <3>2. Count(down', Out(t)) = d + 1
      BY <2>2, <3>1, CountGrew DEF Typed
    <3>3. t \in lossy \/ n + c + d = w
      BY <2>2, <3>1 DEF LiveInv, Accounted
    <3>4. t \in lossy \/ n + c + (d + 1) = w + 1
      BY <3>3
    <3> QED
      BY <1>2, <1>3, <3>1, <3>2, <3>4 DEF Accounted, Calls
  <2> QED
    BY <2>1, <2>2
<1>6. ErrorIsApart(t)'
  BY <1>3 DEF LiveInv, ErrorIsApart, Calls
<1> QED
  BY <1>1, <1>4, <1>5, <1>6 DEF LiveInv, Still, FreshIsClean

\* The guest ends the turn.
LEMMA EndedKeeps ==
  ASSUME NEW t, LiveInv(t), Typed(t), Typed(t)', Still(t), Calls(t),
         cur = t, cur' # t, wrote' = wrote, NEW g \in {Exit(t), Err(t)},
         (link # "cut" /\ Grew(down, down', g)) \/ (link = "cut" /\ down' = down)
  PROVE  LiveInv(t)'
<1>0. Out(t) # Exit(t) /\ Out(t) # Err(t) /\ Exit(t) # Err(t)
  BY FramesDiffer
<1>1. ~Fresh(t) /\ ~Fresh(t)'
  BY DEF LiveInv, FreshIsClean, Still
<1>2. /\ ~Has(down, Exit(t)) /\ ~InHand(t) /\ ~Has(chan[t], Exit(t)) /\ ~InHand(t)'
  BY DEF LiveInv, ExitIsLast, Over, Calls, InHand
<1>3. /\ Never(down', Exit(t), Out(t)) /\ Never(down', Exit(t), Exit(t))
      /\ NeverThird(down', Out(t), Err(t), Exit(t))
      /\ t \in lossy => Never(down', Err(t), Exit(t))
  <2>1. CASE Grew(down, down', g)
    <3>2. Never(down', Exit(t), Out(t))
      BY <1>2, <2>1, OrderGrew DEF Typed, LiveInv, ExitIsLast
    <3>5. Never(down', Exit(t), Exit(t))
      BY <1>2, <2>1, OrderGrew DEF Typed, LiveInv, ExitIsLast
    <3>3. NeverThird(down', Out(t), Err(t), Exit(t))
      <4>1. NeverThird(down, Out(t), Err(t), Exit(t)) /\ Never(down, Out(t), Err(t))
        BY DEF LiveInv, ErrorIsApart
      <4> QED
        BY <2>1, <4>1, OrderGrew DEF Typed
    <3>4. t \in lossy => Never(down', Err(t), Exit(t))
      <4>1. t \in lossy => Never(down, Err(t), Exit(t)) /\ ~Has(down, Err(t))
        BY DEF LiveInv, ErrorIsApart
      <4> QED
        BY <2>1, <4>1, OrderGrew DEF Typed
    <3> QED
      BY <3>2, <3>3, <3>4, <3>5
  <2>2. CASE down' = down
    BY <1>2, <2>2 DEF LiveInv, ExitIsLast, ErrorIsApart
  <2> QED
    BY <2>1, <2>2
<1>4. ExitIsLast(t)'
  BY <1>1, <1>2, <1>3 DEF LiveInv, ExitIsLast, Calls, Over
<1>5. Accounted(t)'
  <2>1. CASE link = "cut"
    BY <1>2, <2>1 DEF Accounted, Calls
  <2>2. CASE link # "cut" /\ Grew(down, down', g)
    <3>1. Count(down', Out(t)) = Count(down, Out(t))
      BY <1>0, <2>2, CountGrew DEF Typed
    <3>2. t \in lossy \/ got[t] + Count(chan[t], Out(t)) + Count(down, Out(t)) = wrote[t]
      BY <2>2 DEF LiveInv, Accounted
    <3> QED
      BY <1>2, <3>1, <3>2 DEF Accounted, Calls
  <2> QED
    BY <2>1, <2>2
<1>6. ErrorIsApart(t)'
  BY <1>3 DEF ErrorIsApart, Calls
<1> QED
  BY <1>1, <1>4, <1>5, <1>6 DEF LiveInv, Still, FreshIsClean

\* The guest refuses the turn, or a cancel of it while another runs.
LEMMA RefusedKeeps ==
  ASSUME NEW t, LiveInv(t), Typed(t), Typed(t)', Still(t), Calls(t),
         cur # t, cur' = cur, wrote' = wrote,
         Grew(down, down', Err(t)) \/ down' = down
  PROVE  LiveInv(t)'
<1>0. Out(t) # Exit(t) /\ Out(t) # Err(t) /\ Exit(t) # Err(t)
  BY FramesDiffer
<1>1. InHand(t)' <=> InHand(t)
  BY DEF Calls, InHand
<1>2. /\ Has(down', Exit(t)) <=> Has(down, Exit(t))
      /\ Has(down', Out(t)) <=> Has(down, Out(t))
      /\ Count(down', Out(t)) = Count(down, Out(t))
      /\ Never(down', Exit(t), Out(t)) /\ Never(down', Exit(t), Exit(t))
      /\ NeverThird(down', Out(t), Err(t), Exit(t))
      /\ t \in lossy => Never(down', Err(t), Exit(t))
  <2>1. CASE Grew(down, down', Err(t))
    <3>1. /\ Has(down', Exit(t)) <=> Has(down, Exit(t))
          /\ Has(down', Out(t)) <=> Has(down, Out(t))
      BY <1>0, <2>1, HasGrew DEF Typed
    <3>2. Count(down', Out(t)) = Count(down, Out(t))
      BY <1>0, <2>1, CountGrew DEF Typed
    <3>n. Never(down, Exit(t), Out(t)) /\ Never(down, Exit(t), Exit(t))
      BY DEF LiveInv, ExitIsLast
    <3>3. Never(down', Exit(t), Out(t))
      BY <1>0, <2>1, <3>n, NeverGrew DEF Typed
    <3>4. Never(down', Exit(t), Exit(t))
      BY <1>0, <2>1, <3>n, NeverGrew DEF Typed
    <3>5. NeverThird(down', Out(t), Err(t), Exit(t))
      BY <1>0, <2>1, OrderGrew DEF Typed, LiveInv, ErrorIsApart
    <3>6. t \in lossy => Never(down', Err(t), Exit(t))
      BY <1>0, <2>1, OrderGrew DEF Typed, LiveInv, ErrorIsApart
    <3> QED
      BY <3>1, <3>2, <3>3, <3>4, <3>5, <3>6
  <2>2. CASE down' = down
    BY <2>2 DEF LiveInv, ExitIsLast, ErrorIsApart
  <2> QED
    BY <2>1, <2>2
<1>4. ExitIsLast(t)'
  BY <1>1, <1>2 DEF LiveInv, ExitIsLast, Calls, Over, Still
<1>5. Accounted(t)'
  BY <1>1, <1>2 DEF LiveInv, Accounted, Calls
<1>6. ErrorIsApart(t)'
  BY <1>2 DEF ErrorIsApart, Calls
<1>7. FreshIsClean(t)'
  BY <1>2 DEF LiveInv, FreshIsClean, Calls, Still
<1> QED
  BY <1>4, <1>5, <1>6, <1>7 DEF LiveInv, Still

\* The guest starts the turn.
LEMMA StartedKeeps ==
  ASSUME NEW t, LiveInv(t), Typed(t), Typed(t)', Still(t), Calls(t),
         Fresh(t), ~Fresh(t)', cur' = t, wrote'[t] = 0, down' = down
  PROVE  LiveInv(t)'
<1>1. /\ got[t] = 0 /\ t \notin lossy /\ ~Has(chan[t], Out(t)) /\ ~Has(down, Out(t))
      /\ ~Has(down, Exit(t)) /\ ~InHand(t) /\ ~InHand(t)' /\ ~Has(chan[t], Exit(t))
  BY DEF LiveInv, FreshIsClean, ExitIsLast, Over, Calls, InHand
<1>2. Count(chan[t], Out(t)) = 0 /\ Count(down, Out(t)) = 0
  BY <1>1, CountFinite DEF Typed
<1>3. Never(down, Out(t), Err(t))
  BY <1>1 DEF Never, Has
<1>4. ExitIsLast(t)'
  BY <1>1 DEF LiveInv, ExitIsLast, Calls
<1>5. Accounted(t)'
  BY <1>1, <1>2 DEF Accounted, Calls
<1>6. ErrorIsApart(t)'
  BY <1>1, <1>3 DEF LiveInv, ErrorIsApart, Calls
<1> QED
  BY <1>4, <1>5, <1>6 DEF LiveInv, Still, FreshIsClean

\* The guest runs the turn on the spot.
LEMMA RanKeeps ==
  ASSUME NEW t, LiveInv(t), Typed(t), Typed(t)', Still(t), Calls(t),
         Fresh(t), ~Fresh(t)', cur # t, cur' = cur, NEW n \in Nat, wrote'[t] = n,
         NEW k \in Ends, Out(t) \in Wired, Frame(k, t) \in Wired,
         \/ link # "cut" /\ down' = Run(down, Out(t), n, Frame(k, t))
         \/ link = "cut" /\ down' = down
  PROVE  LiveInv(t)'
<1>0. Out(t) # Exit(t) /\ Out(t) # Err(t) /\ Exit(t) # Err(t) /\ Frame(k, t) \in {Exit(t), Err(t)}
  BY FramesDiffer DEF Exit, Err, Ends
<1>1. /\ got[t] = 0 /\ t \notin lossy /\ ~Has(chan[t], Out(t)) /\ ~Has(down, Out(t))
      /\ ~Has(down, Exit(t)) /\ ~InHand(t) /\ ~InHand(t)' /\ ~Has(chan[t], Exit(t))
  BY DEF LiveInv, FreshIsClean, ExitIsLast, Over, Calls, InHand
<1>2. CASE link = "cut" /\ down' = down
  <2>1. ExitIsLast(t)'
    BY <1>1, <1>2 DEF LiveInv, ExitIsLast, Calls
  <2>2. Accounted(t)'
    BY <1>1, <1>2 DEF Accounted, Calls
  <2>3. ErrorIsApart(t)'
    BY <1>1, <1>2 DEF LiveInv, ErrorIsApart, Calls
  <2> QED
    BY <2>1, <2>2, <2>3 DEF LiveInv, Still, FreshIsClean
<1>3. CASE down' = Run(down, Out(t), n, Frame(k, t))
  <2> DEFINE m == Len(down)
             g == Frame(k, t)
  <2>1. /\ m \in Nat /\ Len(down') = m + n + 1 /\ down'[m + n + 1] = g
        /\ \A i \in 1..m : down'[i] = down[i]
        /\ \A i \in (m + 1)..(m + n) : down'[i] = Out(t)
        /\ Count(down', Out(t)) = n
    <3>1. down \in Seq(Wired)
      BY DEF Typed
    <3>2. PICK f \in Wired, e \in Wired : f = Out(t) /\ e = Frame(k, t)
      OBVIOUS
    <3>3. f # e /\ ~Has(down, f)
      BY <1>0, <1>1, <3>2
    <3>4. down' = Run(down, f, n, e)
      BY <1>3, <3>2
    <3>7. PICK q \in Seq(Wired) : q = down
      BY <3>1
    <3>8. PICK r : r = down'
      OBVIOUS
    <3>6. r = Run(q, f, n, e) /\ ~Has(q, f)
      BY <3>3, <3>4, <3>7, <3>8
    <3>5. RunOf(q, r, f, n, e) /\ Count(r, f) = n
      BY <3>3, <3>6, CountRun
    <3> QED
      BY <3>2, <3>5, <3>7, <3>8 DEF RunOf
  <2> HIDE DEF m, g
  <2>2. \A i \in 1..Len(down') : i \in 1..m \/ i \in (m + 1)..(m + n) \/ i = m + n + 1
    BY <2>1
  \* An exit is the last frame, and an Error after output too.
  <2>3. ASSUME NEW i \in 1..Len(down'), down'[i] = Exit(t) PROVE i = m + n + 1 /\ g = Exit(t)
    BY <1>0, <1>1, <2>1, <2>2, <2>3 DEF Has, m
  <2>4. ASSUME NEW i \in 1..Len(down'), NEW j \in 1..Len(down'), i < j,
               down'[i] = Out(t), down'[j] = Err(t)
        PROVE  j = m + n + 1 /\ g = Err(t)
    <3>1. i \notin 1..m
      BY <1>1, <2>1, <2>4 DEF Has, m
    <3>2. j \notin 1..m
      BY <2>1, <3>1, <2>4
    <3> QED
      BY <1>0, <2>1, <2>2, <2>4, <3>2
  <2>5. \A i, j \in 1..Len(down') : i < j => i # m + n + 1
    BY <2>1
  <2>6. Never(down', Exit(t), Out(t)) /\ Never(down', Exit(t), Exit(t))
    BY <2>3, <2>5 DEF Never
  <2>7. NeverThird(down', Out(t), Err(t), Exit(t))
    BY <2>4, <2>5 DEF NeverThird
  <2>8. ExitIsLast(t)'
    BY <1>1, <2>6 DEF LiveInv, ExitIsLast, Calls, Over
  <2>9. Accounted(t)'
    <3>1. Count(chan[t], Out(t)) = 0
      BY <1>1, CountFinite DEF Typed
    <3> QED
      BY <1>1, <2>1, <3>1 DEF Accounted, Calls
  <2>10. ErrorIsApart(t)'
    BY <1>1, <2>7 DEF ErrorIsApart, Calls
  <2> QED
    BY <2>8, <2>9, <2>10 DEF LiveInv, Still, FreshIsClean
<1> QED
  BY <1>2, <1>3

\* The connection breaks.
LEMMA BrokeKeeps ==
  ASSUME NEW t, LiveInv(t), Still(t), down' = << >>, link' = "cut",
         chan'[t] = chan[t], got'[t] = got[t], UNCHANGED <<lossy, reader, cur, wrote>>
  PROVE  LiveInv(t)'
<1>1. InHand(t)' <=> InHand(t)
  BY DEF InHand
<1>2. Len(down') = 0 /\ \A i : i \notin 1..Len(down')
  OBVIOUS
<1>3. \A f, g, h : /\ ~Has(down', f) /\ Never(down', f, g) /\ NeverThird(down', f, g, h)
  BY <1>2 DEF Has, Never, NeverThird
<1>4. ExitIsLast(t)'
  BY <1>1, <1>3 DEF LiveInv, ExitIsLast, Over, Still
<1>5. Accounted(t)'
  BY <1>1, <1>3 DEF LiveInv, Accounted
<1>6. ErrorIsApart(t)'
  BY <1>3 DEF ErrorIsApart
<1>7. FreshIsClean(t)'
  BY <1>3 DEF LiveInv, FreshIsClean, Still
<1> QED
  BY <1>4, <1>5, <1>6, <1>7 DEF LiveInv, Still

-----------------------------------------------------------------------------
(* Every step, for one turn whose call goes on *)

LEMMA AskKept ==
  ASSUME NEW t, AskedOnce(t), Unsent(t)' <=> Unsent(t), Same(up, up', {Ask(t)})
  PROVE  AskedOnce(t)' /\ (Fresh(t)' <=> Fresh(t))
  BY DEF AskedOnce, Fresh, Same

\* A frame that is not the turn's Execute is written, or nothing is.
LEMMA OtherSent ==
  ASSUME Types, Types', NEW t, NEW k \in Requests, NEW i \in Id, Frame(k, i) # Ask(t),
         Sends(k, i) \/ UNCHANGED up
  PROVE  Same(up, up', {Ask(t)})
<1>1. up \in Seq(Asked) /\ up' \in Seq(Asked) /\ Frame(k, i) \in Asked
  BY DEF Types, TypeOK, WireType, Asked, Frame
<1>2. CASE up' = Append(up, Frame(k, i))
  <2>1. Grew(up, up', Frame(k, i))
    BY <1>1, <1>2, GrewBy
  <2> QED
    BY <1>1, <2>1, SameGrew
<1>3. CASE UNCHANGED up
  BY <1>3, SameItself
<1> QED
  BY <1>2, <1>3 DEF Sends

\* Another call moves.
LEMMA QuietKeeps ==
  ASSUME NEW t, LiveInv(t), Unsent(t)' <=> Unsent(t), Known(t)',
         chan'[t] = chan[t], got'[t] = got[t], Same(up, up', {Ask(t)}),
         UNCHANGED <<down, link, peer, reader, lossy>>
  PROVE  LiveInv(t)'
<1>1. Still(t)
  BY AskKept DEF LiveInv, Still
<1>2. InHand(t)' <=> InHand(t)
  BY DEF InHand
<1>3. Same(down, down', {Out(t), Exit(t), Err(t)}) /\ Same(chan[t], chan'[t], {Out(t), Exit(t)})
  BY SameItself
<1>4. Aside(t)
  BY <1>2, <1>3 DEF Aside, peer
<1> QED
  BY <1>1, <1>4, AsideKeeps

\* What another call's end leaves alone.
LEMMA OtherEnds ==
  ASSUME Types, NEW t \in Turn, NEW i \in Id, i # t, NEW why, End(i, why)
  PROVE  /\ at'[t] = at[t] /\ chan'[t] = chan[t] /\ got'[t] = got[t]
         /\ t \in inflight' <=> t \in inflight
<1>1. t \in Id
  BY DEF Id
<1>2. at'[t] = at[t] /\ chan'[t] = chan[t]
  BY <1>1 DEF End, Types, TypeOK, HostType
<1>3. got'[t] = got[t]
  BY DEF End, Types, TypeOK, HostType
<1> QED
  BY <1>2, <1>3 DEF End

\* A call ends or moves: the turn's own call is then no longer live, another's
\* leaves it alone.
LEMMA OtherCallKeeps ==
  ASSUME Types, NEW t \in Turn, NEW i \in Id, i # t, LiveInv(t), Same(up, up', {Ask(t)}),
         at'[t] = at[t], chan'[t] = chan[t], got'[t] = got[t],
         t \in inflight' <=> t \in inflight,
         UNCHANGED <<down, link, peer, routing>>
  PROVE  LiveInv(t)'
<1>1. (Unsent(t)' <=> Unsent(t)) /\ Known(t)'
  BY DEF Unsent, Known, LiveInv, routing
<1> QED
  BY <1>1, QuietKeeps DEF routing

LEMMA EndStep ==
  ASSUME Types, NEW t \in Turn, Live(t)', Live(t) => LiveInv(t),
         NEW i \in Id, NEW why, End(i, why), Same(up, up', {Ask(t)}),
         UNCHANGED <<down, link, peer, routing>>
  PROVE  LiveInv(t)'
<1>1. i # t
  BY DEF Live, End, Types, TypeOK, HostType, Id
<1>2. /\ at'[t] = at[t] /\ chan'[t] = chan[t] /\ got'[t] = got[t]
      /\ t \in inflight' <=> t \in inflight
  BY <1>1, OtherEnds
<1>3. LiveInv(t)
  BY <1>2 DEF Live
<1> QED
  BY <1>1, <1>2, <1>3, OtherCallKeeps

\* A call moves to a place l.
LEMMA MoveStep ==
  ASSUME Types, NEW t \in Turn, Live(t)', Live(t) => LiveInv(t),
         NEW i \in Id, NEW l, at' = [at EXCEPT ![i] = l], Same(up, up', {Ask(t)}),
         i = t => (Unsent(t)' <=> Unsent(t)) /\ (Live(t) => Known(t)') /\ Live(t),
         i # t => (t \in inflight' <=> t \in inflight),
         UNCHANGED <<down, link, peer, routing, chan, got>>
  PROVE  LiveInv(t)'
<1>1. CASE i = t
  BY <1>1, QuietKeeps DEF routing
<1>2. CASE i # t
  <2>1. at'[t] = at[t]
    BY <1>2 DEF Types, TypeOK, HostType, Id
  <2>2. LiveInv(t)
    BY <2>1 DEF Live
  <2> QED
    BY <1>2, <2>1, <2>2, OtherCallKeeps
<1> QED
  BY <1>1, <1>2

LEMMA FrameEqual ==
  ASSUME NEW k, NEW l, NEW i, NEW j, Frame(k, i) = Frame(l, j)
  PROVE  k = l /\ i = j
  BY DEF Frame

\* The turn's Execute is written.
LEMMA SentKeeps ==
  ASSUME Types, Types', NEW t \in Turn, LiveInv(t), at[t] = "send", at'[t] = "wait",
         Sends("Execute", t),
         UNCHANGED <<down, link, peer, routing, chan, got, inflight>>
  PROVE  LiveInv(t)'
<1>1. Unsent(t) /\ ~Unsent(t)' /\ ~Has(up, Ask(t)) /\ Never(up, Ask(t), Ask(t))
  BY DEF Unsent, LiveInv, AskedOnce
<1>2. Never(up', Ask(t), Ask(t))
  <2>1. CASE up' = Append(up, Ask(t))
    <3>1. up \in Seq(Asked) /\ up' \in Seq(Asked) /\ Ask(t) \in Asked
      BY DEF Types, TypeOK, WireType, Asked, Frame, Ask, Requests, Id
    <3>2. Grew(up, up', Ask(t))
      BY <2>1, <3>1, GrewBy
    <3> QED
      BY <1>1, <3>1, <3>2, NeverGrew
  <2>2. CASE UNCHANGED up
    BY <1>1, <2>2
  <2> QED
    BY <2>1, <2>2 DEF Sends, Ask
<1>3. Still(t)
  BY <1>1, <1>2 DEF Still, AskedOnce, Fresh, Known, LiveInv, routing
<1>4. InHand(t)' <=> InHand(t)
  BY DEF InHand, routing
<1>5. Same(down, down', {Out(t), Exit(t), Err(t)}) /\ Same(chan[t], chan'[t], {Out(t), Exit(t)})
  BY SameItself
<1>6. Aside(t)
  BY <1>4, <1>5 DEF Aside, peer, routing
<1> QED
  BY <1>3, <1>6, AsideKeeps

LEMMA CallStepLive ==
  ASSUME Types, Types', NEW t \in Turn, Live(t)', Live(t) => LiveInv(t), NEW i \in Id,
         Send(i) \/ TakeEnd(i) \/ SeeClosed(i) \/ Timeout(i) \/ Abandon(i)
  PROVE  LiveInv(t)'
<1> USE DEF wire
<1>0. Same(up, up, {Ask(t)}) /\ t \in Id
  BY SameItself DEF Id
<1>1. CASE Send(i)
  <2>1. CASE End(i, "early") /\ UNCHANGED up
    BY <1>0, <1>1, <2>1, EndStep DEF Send
  <2>2. CASE Sends(KindOf(i), i) /\ at' = [at EXCEPT ![i] = "wait"]
               /\ UNCHANGED <<chan, inflight, turnLock, activeTurn, outcome, got>>
    <3>1. CASE i = t
      <4>1. at[t] = "send" /\ at'[t] = "wait" /\ Sends("Execute", t)
        BY <1>0, <1>1, <2>2, <3>1 DEF Send, KindOf, Types, TypeOK, HostType
      <4>2. LiveInv(t)
        BY <4>1 DEF Live
      <4> QED
        BY <1>1, <2>2, <4>1, <4>2, SentKeeps DEF Send
    <3>2. CASE i # t
      <4>1. Frame(KindOf(i), i) # Ask(t) /\ KindOf(i) \in Requests
        BY <3>2, FrameEqual DEF Ask, KindOf, Requests, CtlKind
      <4>2. Same(up, up', {Ask(t)})
        BY <2>2, <4>1, OtherSent
      <4> QED
        BY <1>1, <2>2, <3>2, <4>2, MoveStep DEF Send
    <3> QED
      BY <3>1, <3>2
  <2> QED
    BY <1>1, <2>1, <2>2 DEF Send
<1>2. CASE TakeEnd(i)
  <2>1. PICK why : End(i, why)
    BY <1>2 DEF TakeEnd
  <2> QED
    BY <1>0, <1>2, <2>1, EndStep DEF TakeEnd
<1>3. CASE SeeClosed(i)
  BY <1>0, <1>3, EndStep DEF SeeClosed
<1>4. CASE Timeout(i)
  <2>1. CASE End(i, "early")
    BY <1>0, <1>4, <2>1, EndStep DEF Timeout
  <2>2. CASE at' = [at EXCEPT ![i] = "cancel"]
               /\ UNCHANGED <<chan, inflight, turnLock, activeTurn, outcome, got>>
    <3>1. i # t
      BY <1>0, <2>2 DEF Live, Types, TypeOK, HostType
    <3> QED
      BY <1>0, <1>4, <2>2, <3>1, MoveStep DEF Timeout
  <2> QED
    BY <1>4, <2>1, <2>2 DEF Timeout
<1>5. CASE Abandon(i)
  <2>1. PICK why : End(i, why)
    BY <1>5 DEF Abandon
  <2> QED
    BY <1>0, <1>5, <2>1, EndStep DEF Abandon
<1> QED
  BY <1>1, <1>2, <1>3, <1>4, <1>5

\* A frame of a channel, by its kind.
LEMMA ChanHead ==
  ASSUME Types, NEW i \in Id, chan[i] # << >>
  PROVE  /\ chan[i] \in Seq(Wired) /\ Head(chan[i]) = chan[i][1]
         /\ chan[i][1].kind \in Answer /\ chan[i][1] = Frame(chan[i][1].kind, i)
<1>1. chan[i] \in Seq(For(i)) /\ chan[i] \in Seq(Wired)
  BY DEF Types, TypeOK, HostType, Wired
<1>2. Head(chan[i]) = chan[i][1] /\ chan[i][1] \in For(i)
  BY <1>1, TailFields
<1> QED
  BY <1>1, <1>2 DEF For, Wired, Frame

\* The frame at the head of another call's channel is skipped.
LEMMA SkipOther ==
  ASSUME Types, NEW t \in Turn, NEW u \in Turn, u # t, Live(t)', Live(t) => LiveInv(t), Skip(u),
         got'[t] = got[t], UNCHANGED <<wire, peer, routing>>
  PROVE  LiveInv(t)'
<1>1. chan'[t] = chan[t] /\ at' = at /\ u \in Id
  BY DEF Skip, Types, TypeOK, HostType, Id
<1>2. Same(up, up', {Ask(t)}) /\ LiveInv(t)
  BY <1>1, SameItself DEF wire, Live
<1> QED
  BY <1>1, <1>2, OtherCallKeeps DEF Skip, wire

LEMMA TakeStepLive ==
  ASSUME Types, Types', NEW t \in Turn, Live(t)', Live(t) => LiveInv(t), NEW u \in Turn,
         TakeOutput(u) \/ TakeAck(u) \/ Drain(u)
  PROVE  LiveInv(t)'
<1> USE DEF wire
<1>0. Same(up, up, {Ask(t)}) /\ t \in Id /\ u \in Id
  BY SameItself DEF Id
<1>1. ASSUME NEW why, End(u, why), UNCHANGED <<wire, peer, routing, aim>> PROVE LiveInv(t)'
  BY <1>0, <1>1, EndStep
<1>2. CASE TakeOutput(u) /\ Skip(u) /\ got' = [got EXCEPT ![u] = @ + 1]
  <2>1. CASE u = t
    <3>1. at[t] = "wait" /\ at' = at /\ chan[t] # << >> /\ chan[t][1] = Out(t)
      BY <1>0, <1>2, <2>1, ChanHead DEF TakeOutput, Skip, Out
    <3>2. LiveInv(t) /\ Typed(t) /\ Typed(t)'
      BY <3>1, TypedTurn, TypedAfter DEF Live
    <3>3. chan'[t] = Tail(chan[t]) /\ got'[t] = got[t] + 1
      BY <1>0, <1>2, <2>1 DEF Skip, Types, TypeOK, HostType
    <3>4. Unsent(t)' <=> Unsent(t)
      BY <3>1 DEF Unsent
    <3>5. UNCHANGED <<down, link, cur, wrote, lossy, reader, inflight, up>>
      BY <1>2 DEF TakeOutput, Skip, routing, peer
    <3>6. Still(t)
      BY <1>0, <3>1, <3>2, <3>4, <3>5, AskKept DEF Still, LiveInv, Known
    <3> QED
      BY <3>1, <3>2, <3>3, <3>5, <3>6, ConsumedKeeps
  <2>2. CASE u # t
    <3>1. got'[t] = got[t]
      BY <1>2, <2>2 DEF Types, TypeOK, HostType
    <3> QED
      BY <1>2, <2>2, <3>1, SkipOther DEF TakeOutput
  <2> QED
    BY <2>1, <2>2
<1>3. CASE TakeAck(u)
  <2>1. CASE u = t
    <3>1. /\ at[t] = "wait" /\ at' = at /\ chan[t] # << >> /\ chan[t] \in Seq(Wired)
          /\ chan[t][1].kind \in Acks
      BY <1>0, <1>3, <2>1, ChanHead DEF TakeAck, Skip
    <3>2. chan[t][1] \notin {Out(t), Exit(t)}
      BY <3>1 DEF Out, Exit, Frame, Acks
    <3>3. chan'[t] = Tail(chan[t])
      BY <1>0, <1>3, <2>1 DEF TakeAck, Skip, Types, TypeOK, HostType
    <3>4. Same(chan[t], chan'[t], {Out(t), Exit(t)})
      BY <3>1, <3>2, <3>3, SameTail
    <3>5. LiveInv(t) /\ (Unsent(t)' <=> Unsent(t))
      BY <3>1 DEF Live, Unsent
    <3>6. UNCHANGED <<down, link, cur, wrote, lossy, reader, inflight, up, got>>
      BY <1>3 DEF TakeAck, Skip, routing, peer
    <3>7. Still(t)
      BY <1>0, <3>1, <3>5, <3>6, AskKept DEF Still, LiveInv, Known
    <3>8. (InHand(t)' <=> InHand(t)) /\ Same(down, down', {Out(t), Exit(t), Err(t)})
      BY <3>6, SameItself DEF InHand
    <3>9. Aside(t)
      BY <3>4, <3>6, <3>8 DEF Aside
    <3> QED
      BY <3>5, <3>7, <3>9, AsideKeeps
  <2>2. CASE u # t
    BY <1>3, <2>2, SkipOther DEF TakeAck
  <2> QED
    BY <2>1, <2>2
<1>4. CASE Drain(u) /\ Skip(u) /\ UNCHANGED got
  <2>1. u # t
    BY <1>4 DEF Drain, Skip, Live
  <2> QED
    BY <1>4, <2>1, SkipOther DEF Drain
<1> QED
  BY <1>1, <1>2, <1>3, <1>4 DEF TakeOutput, Drain

LEMMA TurnStepLive ==
  ASSUME Types, Types', NEW t \in Turn, Live(t)', Live(t) => LiveInv(t), NEW u \in Turn,
         \/ BeginTurn(u) \/ Register(u) \/ Publish(u) \/ SendCancel(u) \/ Stop(u)
         \/ Unpublish(u)
  PROVE  LiveInv(t)'
<1> USE DEF wire
<1>0. Same(up, up, {Ask(t)}) /\ t \in Id /\ u \in Id /\ at \in [Id -> {"new", "queue",
        "registered", "aim", "ended"} \cup Guarded]
  BY SameItself DEF Id, Types, TypeOK, HostType
<1>1. CASE BeginTurn(u)
  <2>1. u = t => (Unsent(t)' <=> Unsent(t)) /\ (Live(t) => Known(t)') /\ Live(t)
    BY <1>0, <1>1 DEF BeginTurn, Unsent, Known, Live
  <2> QED
    BY <1>0, <1>1, <2>1, MoveStep DEF BeginTurn
<1>2. CASE Register(u)
  <2>1. u = t => (Unsent(t)' <=> Unsent(t)) /\ (Live(t) => Known(t)') /\ Live(t)
    BY <1>0, <1>2 DEF Register, Unsent, Known, Live
  <2>2. u # t => (t \in inflight' <=> t \in inflight)
    BY <1>2 DEF Register
  <2> QED
    BY <1>0, <1>2, <2>1, <2>2, MoveStep DEF Register
<1>3. CASE Publish(u)
  <2>1. u = t => (Unsent(t)' <=> Unsent(t)) /\ (Live(t) => Known(t)') /\ Live(t)
    BY <1>0, <1>3 DEF Publish, Unsent, Known, Live, LiveInv, routing
  <2> QED
    BY <1>0, <1>3, <2>1, MoveStep DEF Publish
<1>4. CASE SendCancel(u)
  <2>1. u # t
    BY <1>0, <1>4 DEF SendCancel, Live
  <2>2. Frame("Cancel", u) # Ask(t) /\ "Cancel" \in Requests
    BY <2>1, FrameEqual DEF Ask, Requests, CtlKind
  <2>3. Sends("Cancel", u) \/ UNCHANGED up
    BY <1>4 DEF SendCancel
  <2>4. Same(up, up', {Ask(t)})
    BY <1>0, <2>2, <2>3, OtherSent
  <2> QED
    BY <1>0, <1>4, <2>1, <2>4, MoveStep DEF SendCancel
<1>5. CASE Stop(u)
  <2>1. u # t
    BY <1>0, <1>5 DEF Stop, Live
  <2> QED
    BY <1>0, <1>5, <2>1, MoveStep DEF Stop
<1>6. CASE Unpublish(u)
  <2>1. LiveInv(t) /\ (Unsent(t)' <=> Unsent(t)) /\ Known(t)'
    BY <1>6 DEF Unpublish, Live, Unsent, Known, LiveInv, routing
  <2> QED
    BY <1>0, <1>6, <2>1, QuietKeeps DEF Unpublish, routing
<1> QED
  BY <1>1, <1>2, <1>3, <1>4, <1>5, <1>6

LEMMA CtlStepLive ==
  ASSUME Types, Types', NEW t \in Turn, Live(t)', Live(t) => LiveInv(t), NEW i \in Ctl,
         BeginExchange(i) \/ ReadActive(i) \/ CancelActiveTurn(i)
  PROVE  LiveInv(t)'
<1> USE DEF wire
<1>0. Same(up, up, {Ask(t)}) /\ i # t /\ i \in Id
  BY SameItself DEF Id
<1>1. CASE BeginExchange(i)
  <2>1. t \in inflight' <=> t \in inflight
    BY <1>0, <1>1 DEF BeginExchange
  <2> QED
    BY <1>0, <1>1, <2>1, MoveStep DEF BeginExchange
<1>2. CASE ReadActive(i)
  BY <1>0, <1>2, MoveStep DEF ReadActive
<1>3. CASE CancelActiveTurn(i)
  <2>0. aim[i] \in Id
    BY <1>3 DEF CancelActiveTurn, Types, Id
  <2>1. Frame("Cancel", aim[i]) # Ask(t) /\ "Cancel" \in Requests
    BY FrameEqual DEF Ask, Requests, CtlKind
  <2>2. Sends("Cancel", aim[i]) \/ UNCHANGED up
    BY <1>3 DEF CancelActiveTurn
  <2>3. Same(up, up', {Ask(t)})
    BY <2>0, <2>1, <2>2, OtherSent
  <2> QED
    BY <1>0, <1>3, <2>3, MoveStep DEF CancelActiveTurn
<1> QED
  BY <1>1, <1>2, <1>3

\* The reader takes a frame off the wire.
LEMMA ReadLive ==
  ASSUME Types, Types', NEW t \in Turn, LiveInv(t), Live(t), ReadFrame
  PROVE  LiveInv(t)'
<1> DEFINE f == down[1]
<1>0. /\ down \in Seq(Wired) /\ down # << >> /\ down' = Tail(down)
      /\ f = Head(down) /\ f.kind \in Answer /\ f = Frame(f.kind, f.id) /\ f.id \in Id
      /\ reader.at = "read" /\ t \in Id
  <2>1. down \in Seq(Wired) /\ down # << >> /\ down' = Tail(down) /\ reader.at = "read"
    BY DEF ReadFrame, Types, TypeOK, WireType, Wired
  <2>2. f = Head(down) /\ f \in Wired
    BY <2>1, TailFields
  <2> QED
    BY <2>1, <2>2 DEF Wired, Frame, Id
<1> HIDE DEF f
<1>1. UNCHANGED <<up, link, cur, wrote, at, inflight, got>>
  BY DEF ReadFrame, peer
<1>2. Typed(t) /\ Typed(t)'
  BY TypedTurn, TypedAfter
<1>3. DropUnknown(f) \/ RouteEnd(f) \/ RouteOutput(f) \/ RouteAck(f)
  BY <1>0 DEF ReadFrame
<1>k. Known(t)'
  BY <1>0, <1>1 DEF LiveInv, Known
<1>4. Still(t) /\ ~InHand(t)
  <2>1. (Unsent(t)' <=> Unsent(t)) /\ Same(up, up', {Ask(t)}) /\ ~InHand(t)
    BY <1>0, <1>1, SameItself DEF Unsent, InHand
  <2> QED
    BY <1>k, <2>1, AskKept DEF Still, LiveInv
<1>5. ASSUME f \notin {Out(t), Exit(t), Err(t)}, t \in lossy' <=> t \in lossy, ~InHand(t)',
             Same(chan[t], chan'[t], {Out(t), Exit(t)})
      PROVE  LiveInv(t)'
  <2>1. Same(down, down', {Out(t), Exit(t), Err(t)})
    BY <1>0, <1>5, SameTail DEF f
  <2>2. Aside(t)
    BY <1>1, <1>5, <2>1 DEF Aside
  <2> QED
    BY <1>4, <2>2, AsideKeeps
<1>6. CASE f.id # t
  <2>1. f \notin {Out(t), Exit(t), Err(t)}
    BY <1>6 DEF Out, Exit, Err, Frame
  <2>2. t \in lossy' <=> t \in lossy
    BY <1>3, <1>6 DEF DropUnknown, RouteEnd, RouteOutput, RouteAck, Settle
  <2>3. chan'[t] = chan[t]
    BY <1>0, <1>3, <1>6 DEF DropUnknown, RouteEnd, RouteOutput, RouteAck, Push, Types, TypeOK, HostType
  <2>4. ~InHand(t)'
    <3>1. CASE UNCHANGED reader
      BY <1>0, <3>1 DEF InHand
    <3>2. CASE RouteEnd(f)
      <4>1. reader'.frame.id = f.id
        BY <3>2 DEF RouteEnd, Frame
      <4>2. Exit(t).id = t
        BY DEF Exit, Frame
      <4> QED
        BY <1>6, <4>1, <4>2 DEF InHand
    <3> QED
      BY <1>3, <3>1, <3>2 DEF DropUnknown, RouteOutput, RouteAck
  <2>5. Same(chan[t], chan'[t], {Out(t), Exit(t)})
    BY <2>3, SameItself
  <2> QED
    BY <1>5, <2>1, <2>2, <2>4, <2>5
<1>7. CASE f.id = t /\ DropUnknown(f)
  <2>1. t \notin inflight /\ chan' = chan /\ reader' = reader /\ t \notin lossy'
    BY <1>7 DEF DropUnknown, Settle
  <2>2. Fresh(t)
    BY <1>0, <2>1 DEF LiveInv, Known, Live, Fresh, Unsent
  <2>3. Has(down, f)
    BY <1>0, HasHead DEF f
  <2>4. f # Out(t) /\ f # Exit(t) /\ t \notin lossy
    BY <2>2, <2>3 DEF LiveInv, FreshIsClean, ExitIsLast, Over
  <2>5. ~InHand(t)' /\ Same(chan[t], chan'[t], {Out(t), Exit(t)})
    BY <1>0, <2>1, SameItself DEF InHand
  <2>6. CASE f = Err(t)
    BY <1>0, <1>1, <1>2, <1>4, <2>1, <2>5, <2>6, ErrReadKeeps DEF f
  <2>7. CASE f # Err(t)
    BY <1>5, <2>1, <2>4, <2>5, <2>7
  <2> QED
    BY <2>6, <2>7
<1>8. CASE f.id = t /\ RouteEnd(f)
  <2>1. chan' = chan /\ t \notin lossy' /\ f \in {Exit(t), Err(t)}
    BY <1>0, <1>8 DEF RouteEnd, Settle, Ends, Exit, Err
  <2>2. CASE f = Exit(t)
    <3>1. InHand(t)' => t \notin lossy
      <4>1. t \in lossy => reader'.frame = Err(t)
        BY <1>8 DEF RouteEnd, Err
      <4> QED
        BY <4>1, FramesDiffer DEF InHand
    <3> QED
      BY <1>0, <1>1, <1>2, <1>4, <2>1, <2>2, <3>1, ExitReadKeeps DEF f
  <2>3. CASE f = Err(t)
    <3>1. ~InHand(t)'
      <4>1. reader'.frame = Err(t)
        BY <1>8, <2>3 DEF RouteEnd, Err
      <4> QED
        BY <4>1, FramesDiffer DEF InHand
    <3> QED
      BY <1>0, <1>1, <1>2, <1>4, <2>1, <2>3, <3>1, ErrReadKeeps DEF f
  <2> QED
    BY <2>1, <2>2, <2>3
<1>p. f.id = t /\ Push(f) => chan'[t] = Append(chan[t], f)
  BY <1>0 DEF Push, Live, Types, TypeOK, HostType
<1>9. CASE f.id = t /\ RouteOutput(f)
  <2>1. f = Out(t) /\ ~InHand(t)'
    BY <1>0, <1>9 DEF RouteOutput, Out, InHand
  <2>2. CASE t \in lossy' /\ UNCHANGED chan
    BY <1>0, <1>1, <1>2, <1>4, <2>1, <2>2, LostKeeps DEF f
  <2>3. CASE Push(f) /\ UNCHANGED lossy
    <3>1. chan[t] \in Seq(Wired) /\ f \in Wired
      BY <1>0, <1>2, TailFields DEF Typed, f
    <3>2. Grew(chan[t], chan'[t], Out(t))
      BY <1>9, <1>p, <2>1, <2>3, <3>1, GrewBy
    <3> QED
      BY <1>0, <1>1, <1>2, <1>4, <2>1, <2>3, <3>2, PushedKeeps DEF f
  <2> QED
    BY <1>9, <2>2, <2>3 DEF RouteOutput
<1>10. CASE f.id = t /\ RouteAck(f)
  <2>1. f \notin {Out(t), Exit(t), Err(t)}
    BY <1>10 DEF RouteAck, Acks, Out, Exit, Err, Frame
  <2>2. UNCHANGED <<reader, lossy>> /\ ~InHand(t)'
    BY <1>0, <1>10 DEF RouteAck, InHand
  <2>3. Same(chan[t], chan'[t], {Out(t), Exit(t)})
    <3>1. CASE UNCHANGED chan
      BY <3>1, SameItself
    <3>2. CASE Push(f)
      <4>1. chan[t] \in Seq(Wired) /\ chan'[t] \in Seq(Wired) /\ f \in Wired
        BY <1>0, <1>2, TailFields DEF Typed, f
      <4>2. Grew(chan[t], chan'[t], f)
        BY <1>10, <1>p, <3>2, <4>1, GrewBy
      <4>3. f \notin {Out(t), Exit(t)}
        BY <2>1
      <4> QED
        BY <4>1, <4>2, <4>3, SameGrew
    <3> QED
      BY <1>10, <3>1, <3>2 DEF RouteAck
  <2> QED
    BY <1>5, <2>1, <2>2, <2>3
<1> QED
  BY <1>3, <1>6, <1>7, <1>8, <1>9, <1>10

\* The reader's other steps.
LEMMA ReaderLive ==
  ASSUME Types, Types', NEW t \in Turn, LiveInv(t), Live(t), Reader
  PROVE  LiveInv(t)'
<1> USE DEF wire
<1>1. CASE ReadFrame
  BY <1>1, ReadLive
<1>0. t \in Id /\ Typed(t) /\ Typed(t)'
  BY TypedTurn, TypedAfter DEF Id
<1>s. Same(up, up, {Ask(t)}) /\ Same(down, down, {Out(t), Exit(t), Err(t)})
        /\ Same(chan[t], chan[t], {Out(t), Exit(t)})
  BY SameItself
<1>2. CASE Deliver
  <2>1. UNCHANGED <<up, down, link, cur, wrote, at, inflight, got, lossy>> /\ reader'.at = "read"
    BY <1>2 DEF Deliver, peer
  <2>2. ~InHand(t)' /\ Known(t)' /\ (Unsent(t)' <=> Unsent(t))
    BY <1>2, <2>1 DEF Deliver, InHand, LiveInv, Known, Unsent
  <2>3. Still(t)
    BY <1>s, <2>1, <2>2, AskKept DEF Still, LiveInv
  <2>4. PICK f \in Wired : f = reader.frame /\ f.kind \in Ends
    BY <1>2 DEF Deliver, Types
  <2>5. ASSUME Same(chan[t], chan'[t], {Out(t), Exit(t)}) PROVE LiveInv(t)'
    <3>1. Aside(t)
      BY <1>s, <2>1, <2>2, <2>5 DEF Aside
    <3> QED
      BY <2>3, <3>1, AsideKeeps
  <2>6. CASE chan'[t] = chan[t]
    BY <1>s, <2>5, <2>6
  <2>7. CASE chan'[t] # chan[t]
    <3>1. f.id = t /\ chan'[t] = Append(chan[t], f)
      <4>1. PICK i \in Id : i = f.id
        BY DEF Wired
      <4>2. chan' = [chan EXCEPT ![i] = Append(chan[i], f)]
        BY <1>2, <2>4, <2>7, <4>1 DEF Deliver, Push
      <4>3. chan'[t] = IF t = i THEN Append(chan[i], f) ELSE chan[t]
        BY <1>0, <4>2 DEF Types, TypeOK, HostType
      <4> QED
        BY <2>7, <4>1, <4>3
    <3>2. Grew(chan[t], chan'[t], f)
      BY <1>0, <3>1, GrewBy DEF Typed
    <3>3. f = Frame(f.kind, t)
      BY <3>1 DEF Wired, Frame
    <3>4. CASE f.kind = "Exit"
      <4>1. f = Exit(t) /\ InHand(t)
        BY <1>2, <2>4, <3>3, <3>4 DEF Exit, InHand, Deliver
      <4> QED
        BY <1>0, <2>1, <2>2, <2>3, <3>2, <4>1, DeliveredKeeps
    <3>5. CASE f.kind = "Error"
      <4>1. f \notin {Out(t), Exit(t)}
        BY <3>5 DEF Out, Exit, Frame
      <4>2. chan[t] \in Seq(Wired) /\ chan'[t] \in Seq(Wired)
        BY <1>0 DEF Typed
      <4> QED
        BY <2>5, <3>2, <4>1, <4>2, SameGrew
    <3> QED
      BY <2>4, <3>4, <3>5 DEF Ends
  <2> QED
    BY <2>6, <2>7
<1>3. CASE ReaderEnds \/ CloseChannels
  <2>1. UNCHANGED <<up, down, link, cur, wrote, at, chan, got, lossy>>
    BY <1>3 DEF ReaderEnds, CloseChannels, calls, peer
  <2>2. ~InHand(t)' /\ Known(t)' /\ (Unsent(t)' <=> Unsent(t))
    BY <1>3, <2>1 DEF ReaderEnds, CloseChannels, calls, InHand, LiveInv, Known, Unsent
  <2>3. Still(t)
    BY <1>s, <2>1, <2>2, AskKept DEF Still, LiveInv
  <2>4. Aside(t)
    BY <1>s, <2>1, <2>2 DEF Aside
  <2> QED
    BY <2>3, <2>4, AsideKeeps
<1> QED
  BY <1>1, <1>2, <1>3 DEF Reader

\* The guest takes the turn's Execute, or another request.
LEMMA TakenAsk ==
  ASSUME Types, Types', NEW t \in Turn, LiveInv(t), UNCHANGED host, Takes("Execute", t)
  PROVE  Fresh(t) /\ ~Fresh(t)' /\ Still(t)
<1>1. up \in Seq(Asked) /\ up # << >> /\ up[1] = Ask(t) /\ up' = Tail(up)
  <2>1. up \in Seq(Asked) /\ up # << >> /\ up' = Tail(up)
    BY DEF Types, TypeOK, WireType, Asked, Takes
  <2>2. Head(up) = up[1]
    BY <2>1, TailFields
  <2> QED
    BY <2>1, <2>2 DEF Takes, Ask
<1>2. Has(up, Ask(t))
  BY <1>1, HasHead
<1>3. Never(up', Ask(t), Ask(t)) /\ ~Has(up', Ask(t))
  BY <1>1, OrderTail DEF LiveInv, AskedOnce
<1>4. ~Unsent(t) /\ ~Unsent(t)'
  BY <1>2 DEF LiveInv, AskedOnce, Unsent, host, calls
<1>5. Known(t)'
  BY DEF LiveInv, Known, host, calls, routing
<1> QED
  BY <1>2, <1>3, <1>4, <1>5 DEF Fresh, Still, AskedOnce

LEMMA TakenOther ==
  ASSUME Types, Types', NEW t \in Turn, LiveInv(t), UNCHANGED host,
         NEW k, NEW i, (Takes(k, i) /\ Frame(k, i) # Ask(t)) \/ UNCHANGED up
  PROVE  Still(t)
<1>1. Same(up, up', {Ask(t)})
  <2>1. CASE UNCHANGED up
    BY <2>1, SameItself
  <2>2. CASE Takes(k, i) /\ Frame(k, i) # Ask(t)
    <3>1. up \in Seq(Asked) /\ up # << >> /\ up' = Tail(up)
      BY <2>2 DEF Types, TypeOK, WireType, Asked, Takes
    <3>2. Head(up) = up[1]
      BY <3>1, TailFields
    <3>3. up[1] \notin {Ask(t)}
      BY <2>2, <3>2 DEF Takes
    <3> QED
      BY <3>1, <3>3, SameTail
  <2> QED
    BY <2>1, <2>2
<1>2. (Unsent(t)' <=> Unsent(t)) /\ Known(t)'
  BY DEF LiveInv, Known, Unsent, host, calls, routing
<1> QED
  BY <1>1, <1>2, AskKept DEF Still, LiveInv

\* The guest says something about another request, or nothing.
LEMMA OtherSaid ==
  ASSUME NEW t \in Turn, LiveInv(t), Still(t), UNCHANGED host,
         Same(down, down', {Out(t), Exit(t), Err(t)}), wrote'[t] = wrote[t],
         cur' = t <=> cur = t, link' = "cut" \/ link # "cut"
  PROVE  LiveInv(t)'
<1>1. Same(chan[t], chan'[t], {Out(t), Exit(t)}) /\ (InHand(t)' <=> InHand(t))
  BY SameItself DEF host, calls, routing, InHand
<1>2. Aside(t)
  BY <1>1 DEF Aside, host, calls, routing
<1> QED
  BY <1>2, AsideKeeps

LEMMA OneMore ==
  ASSUME Types, Types', NEW t \in Turn, NEW g, g \notin {Out(t), Exit(t), Err(t)},
         (link # "cut" /\ Grew(down, down', g)) \/ (link = "cut" /\ UNCHANGED down)
  PROVE  Same(down, down', {Out(t), Exit(t), Err(t)})
<1>1. down \in Seq(Wired) /\ down' \in Seq(Wired)
  BY DEF Types, TypeOK, WireType, Wired
<1>2. CASE Grew(down, down', g)
  BY <1>1, <1>2, SameGrew
<1>3. CASE UNCHANGED down
  BY <1>3, SameItself
<1> QED
  BY <1>2, <1>3

\* The guest runs another turn on the spot.
LEMMA RunMore ==
  ASSUME Types, Types', NEW t \in Turn, NEW u \in Turn, u # t, NEW n \in Nat, NEW k \in Ends,
         \/ link # "cut" /\ down' = Run(down, Out(u), n, Frame(k, u))
         \/ link = "cut" /\ UNCHANGED down
  PROVE  Same(down, down', {Out(t), Exit(t), Err(t)})
<1>1. down \in Seq(Wired) /\ down' \in Seq(Wired)
  BY DEF Types, TypeOK, WireType, Wired
<1>2. CASE down' = Run(down, Out(u), n, Frame(k, u))
  <2>1. PICK f \in Wired, e \in Wired, q \in Seq(Wired), r \in Seq(Wired) :
          f = Out(u) /\ e = Frame(k, u) /\ q = down /\ r = down'
    BY <1>1 DEF Out, Frame, Wired, Answer, Ends, Id
  <2>2. r = Run(q, f, n, e)
    BY <1>2, <2>1
  <2>3. RunOf(q, r, f, n, e)
    BY <2>2, RunFields
  <2>4. f \notin {Out(t), Exit(t), Err(t)} /\ e \notin {Out(t), Exit(t), Err(t)}
    BY <2>1 DEF Out, Exit, Err, Frame
  <2>5. \A i \in (Len(q) + 1)..Len(r) : i \in (Len(q) + 1)..(Len(q) + n) \/ i = Len(q) + n + 1
    BY <2>3 DEF RunOf
  <2>6. Padded(q, r, {Out(t), Exit(t), Err(t)})
    <3> DEFINE F == {Out(t), Exit(t), Err(t)}
    <3> HIDE DEF F
    <3>1. f \notin F /\ e \notin F
      BY <2>4 DEF F
    <3>2. Len(r) >= Len(q)
      BY <2>3 DEF RunOf
    <3>3. Padded(q, r, F)
      BY <2>3, <2>5, <3>1, <3>2 DEF RunOf, Padded
    <3> QED
      BY <3>3 DEF F
  <2>7. Same(q, r, {Out(t), Exit(t), Err(t)})
    BY <2>6, SamePadded
  <2> QED
    BY <2>1, <2>7
<1>3. CASE UNCHANGED down
  BY <1>3, SameItself
<1> QED
  BY <1>2, <1>3

LEMMA PeerLive ==
  ASSUME Types, Types', NEW t \in Turn, LiveInv(t), PeerNext, UNCHANGED host
  PROVE  LiveInv(t)'
<1> USE DEF wire
<1>0. /\ t \in Id /\ Typed(t) /\ Typed(t)' /\ wrote \in [Turn -> Nat]
      /\ cur \in Turn \cup {None} /\ met = TRUE /\ None \notin Turn /\ t # None
  BY TypedTurn, TypedAfter DEF Id, Types
<1>c. link' = link => Calls(t)
  BY DEF Calls, host, calls, routing
<1>f. ASSUME NEW k, NEW u, u # t PROVE Frame(k, u) \notin {Out(t), Exit(t), Err(t)}
  BY <1>f DEF Out, Exit, Err, Frame
<1>1. ASSUME NEW u \in Turn, PeerRefuses(u) PROVE LiveInv(t)'
  <2>1. Frame("Error", u) \in Told
    BY FrameTold DEF Answer, Ends, Id
  <2>2. \/ link # "cut" /\ Grew(down, down', Frame("Error", u))
        \/ link = "cut" /\ UNCHANGED down
    BY <1>1, <2>1, SaysOne DEF PeerRefuses
  <2>3. Takes("Execute", u) /\ UNCHANGED <<link, met, cur, wrote>>
    BY <1>1 DEF PeerRefuses
  <2>4. CASE u = t
    <3>1. Fresh(t) /\ Still(t)
      BY <2>3, <2>4, TakenAsk
    <3>2. cur # t
      BY <3>1 DEF LiveInv, FreshIsClean
    <3> QED
      BY <1>0, <1>c, <2>2, <2>3, <2>4, <3>1, <3>2, RefusedKeeps DEF Err
  <2>5. CASE u # t
    <3>1. Still(t)
      BY <2>3, <2>5, FrameEqual, TakenOther DEF Ask
    <3>2. Same(down, down', {Out(t), Exit(t), Err(t)})
      BY <1>f, <2>2, <2>5, OneMore
    <3> QED
      BY <2>3, <3>1, <3>2, OtherSaid
  <2> QED
    BY <2>4, <2>5
<1>2. ASSUME NEW u \in Turn, PeerStarts(u) PROVE LiveInv(t)'
  <2>1. Takes("Execute", u) /\ cur = None /\ cur' = u /\ UNCHANGED <<down, link>>
    BY <1>2 DEF PeerStarts
  <2>2. CASE u = t
    <3>1. Fresh(t) /\ ~Fresh(t)' /\ Still(t)
      BY <2>1, <2>2, TakenAsk
    <3>2. wrote'[t] = 0
      BY <1>0, <1>2, <2>2 DEF PeerStarts
    <3> QED
      BY <1>0, <1>c, <2>1, <2>2, <3>1, <3>2, StartedKeeps
  <2>3. CASE u # t
    <3>1. Still(t)
      BY <2>1, <2>3, FrameEqual, TakenOther DEF Ask
    <3>2. Same(down, down', {Out(t), Exit(t), Err(t)}) /\ wrote'[t] = wrote[t]
      BY <1>0, <1>2, <2>3, SameItself DEF PeerStarts
    <3>3. cur' = t <=> cur = t
      BY <1>0, <2>1, <2>3
    <3> QED
      BY <2>1, <3>1, <3>2, <3>3, OtherSaid
  <2> QED
    BY <2>2, <2>3
<1>3. ASSUME NEW u \in Turn, PeerRuns(u) PROVE LiveInv(t)'
  <2>1. Takes("Execute", u) /\ cur = None /\ cur' = cur /\ link' = link
    BY <1>3 DEF PeerRuns
  <2>2. PICK n \in 0..MaxOutput, k \in Ends :
          /\ Says(Append([j \in 1..n |-> Frame("Output", u)], Frame(k, u)))
          /\ wrote' = [wrote EXCEPT ![u] = n]
    BY <1>3 DEF PeerRuns
  <2>3. n \in Nat
    BY PeerAssumption
  <2>4. \/ link # "cut" /\ down' = Run(down, Out(u), n, Frame(k, u))
        \/ link = "cut" /\ UNCHANGED down
    BY <2>2, <2>3, SaysRun DEF Run, Out
  <2>5. CASE u = t
    <3>1. Fresh(t) /\ ~Fresh(t)' /\ Still(t)
      BY <2>1, <2>5, TakenAsk
    <3>2. wrote'[t] = n /\ cur # t
      BY <1>0, <2>1, <2>2, <2>5
    <3>3. Out(t) \in Wired /\ Frame(k, t) \in Wired
      BY <1>0 DEF Out, Frame, Wired, Answer, Ends
    <3> QED
      BY <1>0, <1>c, <2>1, <2>3, <2>4, <2>5, <3>1, <3>2, <3>3, RanKeeps
  <2>6. CASE u # t
    <3>1. Still(t)
      BY <2>1, <2>6, FrameEqual, TakenOther DEF Ask
    <3>2. Same(down, down', {Out(t), Exit(t), Err(t)})
      BY <2>3, <2>4, <2>6, RunMore
    <3>3. wrote'[t] = wrote[t]
      BY <1>0, <2>2, <2>6
    <3> QED
      BY <2>1, <3>1, <3>2, <3>3, OtherSaid
  <2> QED
    BY <2>5, <2>6
<1>4. CASE PeerWrites
  <2>0. PICK u \in Turn : u = cur
    BY <1>0, <1>4 DEF PeerWrites
  <2>1. Frame("Output", u) \in Told
    BY FrameTold
  <2>2. \/ link # "cut" /\ Grew(down, down', Frame("Output", u))
        \/ link = "cut" /\ UNCHANGED down
    BY <1>4, <2>0, <2>1, SaysOne DEF PeerWrites
  <2>3. UNCHANGED <<up, link, cur>> /\ wrote' = [wrote EXCEPT ![u] = wrote[u] + 1]
    BY <1>4, <2>0 DEF PeerWrites
  <2>4. Still(t)
    BY <2>3, TakenOther
  <2>5. CASE u = t
    <3>1. wrote'[t] = wrote[t] + 1
      BY <1>0, <2>3, <2>5
    <3> QED
      BY <1>0, <1>c, <2>0, <2>2, <2>3, <2>4, <2>5, <3>1, WroteKeeps DEF Out
  <2>6. CASE u # t
    <3>1. wrote'[t] = wrote[t]
      BY <1>0, <2>3, <2>6
    <3>2. Same(down, down', {Out(t), Exit(t), Err(t)})
      BY <1>f, <2>2, <2>6, OneMore
    <3> QED
      BY <2>3, <2>4, <3>1, <3>2, OtherSaid
  <2> QED
    BY <2>5, <2>6
<1>5. CASE PeerEnds
  <2>0. PICK u \in Turn : u = cur
    BY <1>0, <1>5 DEF PeerEnds
  <2>1. PICK k \in Ends : Says(<<Frame(k, u)>>)
    BY <1>5, <2>0 DEF PeerEnds
  <2>2. Frame(k, u) \in Told
    BY FrameTold DEF Answer, Ends, Id
  <2>3. \/ link # "cut" /\ Grew(down, down', Frame(k, u))
        \/ link = "cut" /\ UNCHANGED down
    BY <2>1, <2>2, SaysOne
  <2>4. UNCHANGED <<up, link, wrote>> /\ cur' = None
    BY <1>5 DEF PeerEnds
  <2>5. Still(t)
    BY <2>4, TakenOther
  <2>6. CASE u = t
    <3>1. PICK g \in {Exit(t), Err(t)} : g = Frame(k, t)
      BY DEF Exit, Err, Ends
    <3> QED
      BY <1>0, <1>c, <2>0, <2>3, <2>4, <2>5, <2>6, <3>1, EndedKeeps
  <2>7. CASE u # t
    <3>2. Same(down, down', {Out(t), Exit(t), Err(t)})
      BY <1>f, <2>3, <2>7, OneMore
    <3> QED
      BY <1>0, <2>0, <2>4, <2>5, <2>7, <3>2, OtherSaid
  <2> QED
    BY <2>6, <2>7
<1>6. CASE PeerLeaves
  <2>1. UNCHANGED <<up, down, cur, wrote>> /\ link' = "cut"
    BY <1>6 DEF PeerLeaves, peer
  <2>2. Still(t)
    BY <2>1, TakenOther
  <2>3. Same(down, down', {Out(t), Exit(t), Err(t)})
    BY <2>1, SameItself
  <2> QED
    BY <2>1, <2>2, <2>3, OtherSaid
<1>7. ASSUME NEW i \in Id, PeerReplies(i) PROVE LiveInv(t)'
  <2>1. PICK k \in CtlKind :
          /\ Takes(k, i)
          /\ \/ Says(<<Frame(AckOf(k), i)>>)
             \/ (i \in Ctl \/ cur \notin {None, i} \/ ~met) /\ Says(<<Frame("Error", i)>>)
    BY <1>7 DEF PeerReplies
  <2>2. UNCHANGED <<link, cur, wrote>>
    BY <1>7 DEF PeerReplies
  <2>3. Still(t)
    <3>1. k # "Execute"
      BY DEF CtlKind
    <3>2. Frame(k, i) # Ask(t)
      BY <3>1, FrameEqual DEF Ask
    <3> QED
      BY <2>1, <3>2, TakenOther
  <2>4. CASE Says(<<Frame(AckOf(k), i)>>)
    <3>1. AckOf(k) \in Answer \ {"Output"} /\ AckOf(k) \notin {"Output", "Exit", "Error"}
      BY DEF CtlKind, AckOf, Answer, Acks, Ends
    <3>2. Frame(AckOf(k), i) \in Told
      BY <3>1, FrameTold
    <3>3. Frame(AckOf(k), i) \notin {Out(t), Exit(t), Err(t)}
      BY <3>1 DEF Out, Exit, Err, Frame
    <3>4. \/ link # "cut" /\ Grew(down, down', Frame(AckOf(k), i))
          \/ link = "cut" /\ UNCHANGED down
      BY <2>4, <3>2, SaysOne
    <3>5. Same(down, down', {Out(t), Exit(t), Err(t)})
      BY <3>3, <3>4, OneMore
    <3> QED
      BY <2>2, <2>3, <3>5, OtherSaid
  <2>5. CASE (i \in Ctl \/ cur \notin {None, i} \/ ~met) /\ Says(<<Frame("Error", i)>>)
    <3>1. Frame("Error", i) \in Told
      BY FrameTold DEF Answer, Ends
    <3>2. \/ link # "cut" /\ Grew(down, down', Frame("Error", i))
          \/ link = "cut" /\ UNCHANGED down
      BY <2>5, <3>1, SaysOne
    <3>3. CASE i = t
      <4>1. cur # t
        BY <1>0, <2>5, <3>3
      <4> QED
        BY <1>0, <1>c, <2>2, <2>3, <3>2, <3>3, <4>1, RefusedKeeps DEF Err
    <3>4. CASE i # t
      <4>1. Same(down, down', {Out(t), Exit(t), Err(t)})
        BY <1>f, <3>2, <3>4, OneMore
      <4> QED
        BY <2>2, <2>3, <4>1, OtherSaid
    <3> QED
      BY <3>3, <3>4
  <2> QED
    BY <2>1, <2>4, <2>5
<1> QED
  BY <1>1, <1>2, <1>3, <1>4, <1>5, <1>6, <1>7 DEF PeerNext

LEMMA LiveNext ==
  ASSUME Types, Types', NEW t \in Turn, Live(t) => LiveInv(t), [Next]_vars
  PROVE  Live(t)' => LiveInv(t)'
<1> SUFFICES ASSUME Live(t)' PROVE LiveInv(t)'
  OBVIOUS
<1> USE DEF wire
<1>s. Same(up, up, {Ask(t)}) /\ Same(down, down, {Out(t), Exit(t), Err(t)})
        /\ Same(chan[t], chan[t], {Out(t), Exit(t)})
  BY SameItself
<1>1. ASSUME NEW i \in Id,
             Send(i) \/ Consume(i) \/ SeeClosed(i) \/ Timeout(i) \/ Abandon(i)
      PROVE  LiveInv(t)'
  BY <1>1, CallStepLive, TakeStepLive DEF Consume
<1>2. ASSUME NEW u \in Turn,
             BeginTurn(u) \/ Register(u) \/ Publish(u) \/ SendCancel(u) \/ Stop(u)
      PROVE  LiveInv(t)'
  BY <1>2, TurnStepLive
<1>3. ASSUME NEW i \in Ctl, BeginExchange(i) \/ ReadActive(i) \/ CancelActiveTurn(i)
      PROVE  LiveInv(t)'
  BY <1>3, CtlStepLive
<1>h. UNCHANGED host => /\ LiveInv(t) /\ (Unsent(t)' <=> Unsent(t)) /\ Known(t)'
                        /\ InHand(t)' <=> InHand(t)
  BY DEF host, calls, routing, Live, LiveInv, Unsent, Known, InHand
<1>4. CASE Close \/ UNCHANGED vars
  <2>1. UNCHANGED <<up, down, peer, host>> /\ (link' = "cut" \/ link # "cut")
    BY <1>4 DEF Close, vars
  <2>2. Still(t)
    BY <1>h, <1>s, <2>1, AskKept DEF Still, LiveInv
  <2> QED
    BY <1>h, <1>s, <2>1, <2>2, OtherSaid DEF peer
<1>5. CASE Reader
  <2>1. at' = at
    BY <1>5 DEF Reader, ReadFrame, Deliver, ReaderEnds, CloseChannels, calls
  <2> QED
    BY <1>5, <2>1, ReaderLive DEF Live
<1>6. CASE Cleanup
  BY <1>6, TurnStepLive DEF Cleanup
<1>7. CASE PeerNext /\ UNCHANGED host
  BY <1>7, <1>h, PeerLive
<1>8. CASE Break /\ UNCHANGED <<peer, host>>
  <2>1. up' = << >> /\ down' = << >> /\ link' = "cut" /\ LiveInv(t)
    BY <1>8, <1>h DEF Break
  <2>2. ~Has(up', Ask(t)) /\ Never(up', Ask(t), Ask(t))
    BY <2>1 DEF Has, Never
  <2>3. Still(t)
    BY <1>8, <1>h, <2>2 DEF Still, AskedOnce, Fresh
  <2> QED
    BY <1>8, <2>1, <2>3, BrokeKeeps DEF host, calls, routing, peer
<1> QED
  BY <1>1, <1>2, <1>3, <1>4, <1>5, <1>6, <1>7, <1>8 DEF Next, Finished

LEMMA LiveInit ==
  ASSUME Init, NEW t \in Turn
  PROVE  LiveInv(t) /\ EndedWell(t)
<1>0. t \in Id /\ None \notin Turn
  BY DEF Id
<1>1. /\ up = << >> /\ down = << >> /\ chan[t] = << >> /\ at[t] = "new" /\ got[t] = 0
      /\ lossy = {} /\ reader.at = "read" /\ cur # t /\ outcome[t] = "none"
  BY <1>0 DEF Init, WireInit, PeerInit, HostInit
<1>2. \A f, g, h : ~Has(<< >>, f) /\ Never(<< >>, f, g) /\ NeverThird(<< >>, f, g, h)
  BY DEF Has, Never, NeverThird
<1> QED
  BY <1>1, <1>2 DEF LiveInv, AskedOnce, FreshIsClean, ExitIsLast, ErrorIsApart, Accounted, Known,
                    EndedWell, InHand

\* A call ends well only on the turn's exit, behind all of its output.
LEMMA EndsWell ==
  ASSUME Types, NEW t \in Turn, LiveInv(t), TakeEnd(t), outcome'[t] = "ok"
  PROVE  EndedWell(t)'
<1>0. t \in Id
  BY DEF Id
<1>1. at[t] = "wait" /\ chan[t] # << >> /\ at'[t] = "ended" /\ UNCHANGED <<wire, peer>>
  BY <1>0 DEF TakeEnd, End, Types, TypeOK, HostType
<1>2. chan[t] \in Seq(Wired) /\ chan[t][1] = Exit(t)
  <2>1. /\ chan[t] \in Seq(Wired) /\ Head(chan[t]) = chan[t][1]
        /\ chan[t][1] = Frame(chan[t][1].kind, t)
    BY <1>0, <1>1, ChanHead
  <2>2. outcome'[t] = IF Head(chan[t]).kind = "Error" THEN "failed" ELSE "ok"
    BY <1>0 DEF TakeEnd, End, Types, TypeOK, HostType
  <2>3. chan[t][1].kind = "Exit"
    BY <2>1, <2>2 DEF TakeEnd, Ends
  <2> QED
    BY <2>1, <2>3 DEF Exit
<1>3. Has(chan[t], Exit(t)) /\ ~Has(Tail(chan[t]), Out(t))
  <2>1. Has(chan[t], Exit(t))
    BY <1>1, <1>2, HasHead
  <2>2. Never(chan[t], Exit(t), Out(t))
    BY DEF LiveInv, ExitIsLast
  <2>3. ~Has(Tail(chan[t]), Out(t))
    BY <1>1, <1>2, <2>2, OrderTail
  <2> QED
    BY <2>1, <2>3
<1>4. Count(chan[t], Out(t)) = 0
  <2>1. Exit(t) # Out(t) /\ Tail(chan[t]) \in Seq(Wired)
    BY <1>1, <1>2, FramesDiffer, TailFields
  <2>2. Count(chan[t], Out(t)) = Count(Tail(chan[t]), Out(t))
    BY <1>1, <1>2, <2>1, CountTail
  <2> QED
    BY <1>3, <2>1, <2>2, CountFinite
<1>5. got[t] = wrote[t]
  <2>1. got[t] + Count(chan[t], Out(t)) = wrote[t] /\ got[t] \in Nat
    BY <1>3, TypedTurn DEF LiveInv, Accounted, Typed
  <2> QED
    BY <1>4, <2>1
<1>6. got'[t] = got[t]
  BY <1>0 DEF TakeEnd, End, Types, TypeOK, HostType
<1>7. cur # t /\ ~Has(up, Ask(t))
  BY <1>3 DEF LiveInv, ExitIsLast, Over, Fresh
<1> QED
  BY <1>1, <1>5, <1>6, <1>7 DEF EndedWell, Over, Fresh, Unsent, wire, peer

\* Nothing becomes of a turn that has ended, and another call's outcome is its own.
LEMMA EndedKept ==
  ASSUME NEW t \in Turn, EndedWell(t),
         outcome'[t] = "ok" => outcome[t] = "ok",
         outcome[t] = "ok" => /\ at'[t] = at[t] /\ got'[t] = got[t] /\ wrote'[t] = wrote[t]
                              /\ cur' # t /\ ~Has(up', Ask(t))
  PROVE  EndedWell(t)'
  BY DEF EndedWell, Over, Fresh, Unsent

LEMMA NoAskSent ==
  ASSUME Types, Types', NEW t \in Turn, ~Has(up, Ask(t)), Same(up, up', {Ask(t)})
  PROVE  ~Has(up', Ask(t))
  BY DEF Same

\* The calls' own steps.
LEMMA EndedCall ==
  ASSUME Types, Types', NEW t \in Turn, Live(t) => LiveInv(t), EndedWell(t), NEW i \in Id,
         \/ Send(i) \/ TakeEnd(i) \/ SeeClosed(i) \/ Timeout(i) \/ Abandon(i)
         \/ i \in Turn /\ (TakeOutput(i) \/ TakeAck(i) \/ Drain(i))
  PROVE  EndedWell(t)'
<1> USE DEF wire
<1>0. /\ t \in Id /\ outcome \in [Id -> {"none", "ok", "failed", "early", "orphan"}]
      /\ at \in [Id -> {"new", "queue", "registered", "aim", "ended"} \cup Guarded]
      /\ got \in [Turn -> 0..OutputLimit]
      /\ outcome[t] = "ok" => at[t] = "ended" /\ cur # t /\ ~Has(up, Ask(t))
  BY DEF Id, Types, TypeOK, HostType, EndedWell, Over, Fresh
<1>1. UNCHANGED <<peer, down, link>> /\ at[i] # "ended"
  BY DEF Send, TakeEnd, SeeClosed, Timeout, Abandon, TakeOutput, TakeAck, Drain, Guarded
<1>2. CASE TakeEnd(i) /\ i = t
  <2>1. CASE outcome'[t] = "ok"
    <3>1. LiveInv(t)
      BY <1>2 DEF TakeEnd, Live
    <3> QED
      BY <1>2, <2>1, <3>1, EndsWell
  <2>2. CASE outcome'[t] # "ok"
    BY <2>2 DEF EndedWell
  <2> QED
    BY <2>1, <2>2
<1>3. CASE i # t
  <2>1. outcome'[t] = outcome[t] /\ at'[t] = at[t] /\ got'[t] = got[t]
    BY <1>0, <1>3 DEF Send, TakeEnd, SeeClosed, Timeout, Abandon, TakeOutput, TakeAck, Drain,
                      End, Skip
  <2>2. outcome[t] = "ok" => ~Has(up', Ask(t))
    <3>1. CASE UNCHANGED up
      BY <1>0, <3>1
    <3>2. CASE Sends(KindOf(i), i)
      <4>1. Frame(KindOf(i), i) # Ask(t) /\ KindOf(i) \in Requests
        BY <1>3, FrameEqual DEF Ask, KindOf, Requests, CtlKind
      <4>2. Same(up, up', {Ask(t)})
        BY <3>2, <4>1, OtherSent
      <4> QED
        BY <1>0, <4>2, NoAskSent
    <3> QED
      BY <3>1, <3>2 DEF Send, TakeEnd, SeeClosed, Timeout, Abandon, TakeOutput, TakeAck, Drain
  <2> QED
    BY <1>0, <1>1, <2>1, <2>2, EndedKept DEF peer
<1>4. CASE i = t /\ ~TakeEnd(i)
  <2>1. outcome[t] # "ok"
    BY <1>0, <1>1, <1>4
  <2>2. outcome'[t] # "ok"
    <3>1. ASSUME NEW why \in {"failed", "early", "orphan"}, End(t, why) PROVE outcome'[t] # "ok"
      BY <1>0, <3>1 DEF End
    <3>2. CASE UNCHANGED outcome
      BY <2>1, <3>2
    <3>3. CASE Abandon(t)
      BY <3>1, <3>3 DEF Abandon
    <3> QED
      BY <1>4, <3>1, <3>2, <3>3
         DEF Send, SeeClosed, Timeout, TakeOutput, TakeAck, Drain, Skip
  <2> QED
    BY <2>2 DEF EndedWell
<1> QED
  BY <1>2, <1>3, <1>4

LEMMA EndedNext ==
  ASSUME Types, Types', NEW t \in Turn, Live(t) => LiveInv(t), EndedWell(t), [Next]_vars
  PROVE  EndedWell(t)'
<1> USE DEF wire
<1>0. /\ t \in Id /\ None \notin Turn /\ wrote \in [Turn -> Nat]
      /\ at \in [Id -> {"new", "queue", "registered", "aim", "ended"} \cup Guarded]
      /\ outcome[t] = "ok" => at[t] = "ended" /\ cur # t /\ ~Has(up, Ask(t))
  BY DEF Id, Types, TypeOK, HostType, EndedWell, Over, Fresh
<1>s. Same(up, up, {Ask(t)})
  BY SameItself
<1>1. ASSUME NEW i \in Id,
             Send(i) \/ Consume(i) \/ SeeClosed(i) \/ Timeout(i) \/ Abandon(i)
      PROVE  EndedWell(t)'
  BY <1>1, EndedCall DEF Consume
<1>m. ASSUME NEW i \in Id, at[i] # "ended", NEW l, at' = [at EXCEPT ![i] = l],
             Same(up, up', {Ask(t)}), UNCHANGED <<outcome, got, cur, wrote>>
      PROVE  EndedWell(t)'
  <2>1. outcome[t] = "ok" => at'[t] = at[t]
    BY <1>0, <1>m
  <2>2. outcome[t] = "ok" => ~Has(up', Ask(t))
    BY <1>0, <1>m, NoAskSent
  <2> QED
    BY <1>0, <1>m, <2>1, <2>2, EndedKept
<1>2. ASSUME NEW u \in Turn,
             BeginTurn(u) \/ Register(u) \/ Publish(u) \/ SendCancel(u) \/ Stop(u)
      PROVE  EndedWell(t)'
  <2>1. u \in Id /\ at[u] # "ended" /\ UNCHANGED <<outcome, got, cur, wrote>>
    BY <1>2 DEF Id, BeginTurn, Register, Publish, SendCancel, Stop, peer
  <2>2. PICK l : at' = [at EXCEPT ![u] = l]
    BY <1>2 DEF BeginTurn, Register, Publish, SendCancel, Stop
  <2>3. Sends("Cancel", u) \/ UNCHANGED up
    BY <1>2 DEF BeginTurn, Register, Publish, SendCancel, Stop
  <2>4. Frame("Cancel", u) # Ask(t) /\ "Cancel" \in Requests
    BY FrameEqual DEF Ask, Requests, CtlKind
  <2>5. Same(up, up', {Ask(t)})
    BY <2>1, <2>3, <2>4, OtherSent
  <2> QED
    BY <1>m, <2>1, <2>2, <2>5
<1>3. ASSUME NEW i \in Ctl, BeginExchange(i) \/ ReadActive(i) \/ CancelActiveTurn(i)
      PROVE  EndedWell(t)'
  <2>1. i \in Id /\ at[i] # "ended" /\ UNCHANGED <<outcome, got, cur, wrote>>
    BY <1>3 DEF Id, BeginExchange, ReadActive, CancelActiveTurn, peer
  <2>2. PICK l : at' = [at EXCEPT ![i] = l]
    BY <1>3 DEF BeginExchange, ReadActive, CancelActiveTurn
  <2>3. CASE UNCHANGED up
    BY <1>m, <1>s, <2>1, <2>2, <2>3
  <2>4. CASE CancelActiveTurn(i)
    <3>1. PICK j \in Id : j = aim[i]
      BY <2>4 DEF CancelActiveTurn, Types, Id
    <3>2. Sends("Cancel", j) \/ UNCHANGED up
      BY <2>4, <3>1 DEF CancelActiveTurn
    <3>3. Frame("Cancel", j) # Ask(t) /\ "Cancel" \in Requests
      BY FrameEqual DEF Ask, Requests, CtlKind
    <3>4. Same(up, up', {Ask(t)})
      BY <3>2, <3>3, OtherSent
    <3> QED
      BY <1>m, <2>1, <2>2, <3>4
  <2> QED
    BY <1>3, <2>3, <2>4 DEF BeginExchange, ReadActive
<1>4. CASE Close \/ Reader \/ Cleanup \/ UNCHANGED vars
  <2>1. UNCHANGED <<up, cur, wrote, at, got, outcome>>
    BY <1>4 DEF Close, Reader, ReadFrame, Deliver, ReaderEnds, CloseChannels, Cleanup, Unpublish,
                vars, host, calls, peer
  <2> QED
    BY <1>0, <2>1, EndedKept
<1>5. CASE PeerNext /\ UNCHANGED host
  <2>1. UNCHANGED <<at, got, outcome>>
    BY <1>5 DEF host, calls
  <2>2. CASE outcome[t] # "ok"
    BY <2>1, <2>2 DEF EndedWell
  <2>3. CASE outcome[t] = "ok"
    <3>1. up \in Seq(Asked)
      BY DEF Types, TypeOK, WireType, Asked
    <3>2. ASSUME NEW k, NEW i, Takes(k, i) PROVE ~Has(up', Ask(t)) /\ Frame(k, i) # Ask(t)
      <4>1. up # << >> /\ up' = Tail(up) /\ up[1] = Frame(k, i)
        BY <3>1, <3>2, TailFields DEF Takes
      <4>2. Has(up, Frame(k, i))
        BY <3>1, <4>1, HasHead
      <4>3. ~Has(Tail(up), Ask(t))
        BY <1>0, <2>3, <3>1, <4>1, CountTail
      <4> QED
        BY <1>0, <2>3, <4>1, <4>2, <4>3
    <3>3. ~Has(up', Ask(t))
      BY <1>0, <1>5, <2>3, <3>2 DEF PeerNext, PeerRefuses, PeerStarts, PeerRuns, PeerWrites,
                                     PeerEnds, PeerLeaves, PeerReplies
    <3>4. ASSUME NEW u \in Turn, PeerStarts(u) \/ PeerRuns(u)
          PROVE  cur' # t /\ wrote'[t] = wrote[t]
      <4>1. Takes("Execute", u)
        BY <3>4 DEF PeerStarts, PeerRuns
      <4>2. u # t
        BY <3>2, <4>1 DEF Ask
      <4> QED
        BY <1>0, <2>3, <3>4, <4>2 DEF PeerStarts, PeerRuns
    <3>5. cur' # t /\ wrote'[t] = wrote[t]
      <4>1. CASE PeerWrites
        BY <1>0, <2>3, <4>1 DEF PeerWrites
      <4>2. CASE PeerEnds
        BY <1>0, <2>3, <4>2 DEF PeerEnds
      <4> QED
        BY <1>0, <1>5, <2>3, <3>4, <4>1, <4>2
           DEF PeerNext, PeerRefuses, PeerLeaves, PeerReplies, peer
    <3> QED
      BY <2>1, <3>3, <3>5, EndedKept
  <2> QED
    BY <2>2, <2>3
<1>6. CASE Break /\ UNCHANGED <<peer, host>>
  <2>1. ~Has(up', Ask(t))
    BY <1>6 DEF Break, Has
  <2> QED
    BY <1>0, <1>6, <2>1, EndedKept DEF peer, host, calls
<1> QED
  BY <1>1, <1>2, <1>3, <1>4, <1>5, <1>6 DEF Next, Finished

\* A result with an exit code has every Output frame the guest wrote for its turn,
\* for every capacity of the channels, the wire and the budget: whatever the reader
\* drops, over the budget or on a full channel, however turns, cancels, timeouts,
\* stops and a breaking connection interleave (provider.rs spawn_reader,
\* terminal_frame, deliver_terminal, exec).
THEOREM WholeResults == Spec => []CleanExitIsWhole
<1>1. Init => WholeInv
  BY TypesInit, LiveInit DEF WholeInv
<1>2. WholeInv /\ [Next]_vars => WholeInv'
  <2> SUFFICES ASSUME WholeInv, [Next]_vars PROVE WholeInv'
    OBVIOUS
  <2>1. Types /\ Types'
    BY TypesNext DEF WholeInv
  <2>2. ASSUME NEW t \in Turn PROVE (Live(t)' => LiveInv(t)') /\ EndedWell(t)'
    BY <2>1, LiveNext, EndedNext DEF WholeInv
  <2> QED
    BY <2>1, <2>2 DEF WholeInv
<1>3. WholeInv => CleanExitIsWhole
  BY DEF WholeInv, EndedWell, CleanExitIsWhole
<1> QED
  BY <1>1, <1>2, <1>3, PTL DEF Spec

-----------------------------------------------------------------------------
(* Nobody is refused for a turn that its caller has seen end *)

NobodyEarly == \A u \in Turn : outcome[u] # "early"

\* A call that left early is over, and stays so.
EarlyIsOver == \A u \in Turn : outcome[u] = "early" => at[u] = "ended"

\* The call of t has sent its Execute and waits; an end of t is on its way to it;
\* t is published, or a Cancel aims at it.
Awaits(t) == at[t] \in {"wait", "cancel", "drain"}
EndNear(t) ==
  \/ \E k \in Ends : Has(down, Frame(k, t)) \/ Has(chan[t], Frame(k, t))
  \/ reader.at = "deliver" /\ reader.frame.id = t
Aimed(t) ==
  \/ activeTurn = t
  \/ \E k \in CtlKind : Has(up, Frame(k, t))
  \/ \E i \in Ctl : at[i] = "aim" /\ aim[i] = t

\* The guest has a turn, or is about to get it, only while its call waits, and gets it
\* once; where an end of it is, the guest is through with it; and it is cancelled only
\* after it was published.
InOrder(t) ==
  /\ cur = t \/ Has(up, Ask(t)) => Awaits(t)
  /\ Never(up, Ask(t), Ask(t)) /\ (cur = t => ~Has(up, Ask(t)))
  /\ EndNear(t) => Over(t)
  /\ Aimed(t) => at[t] \notin {"new", "queue", "registered"}

LoyalInv == EarlyIsOver /\ (NobodyEarly => \A t \in Turn : InOrder(t))

LEMMA LoyalInit == Init => LoyalInv
<1> SUFFICES ASSUME Init PROVE LoyalInv
  OBVIOUS
<1>1. /\ up = << >> /\ down = << >> /\ reader.at = "read" /\ cur = None /\ activeTurn = None
      /\ \A i \in Id : at[i] = "new" /\ chan[i] = << >> /\ outcome[i] = "none"
  BY DEF Init, WireInit, PeerInit, HostInit
<1>2. \A f, g : ~Has(<< >>, f) /\ Never(<< >>, f, g)
  BY DEF Has, Never
<1>3. ASSUME NEW t \in Turn PROVE InOrder(t) /\ outcome[t] # "early"
  <2>1. t \in Id /\ t # None
    BY DEF Id
  <2>2. ~EndNear(t) /\ ~Aimed(t)
    BY <1>1, <1>2, <2>1 DEF EndNear, Aimed, Id
  <2> QED
    BY <1>1, <1>2, <2>1, <2>2 DEF InOrder
<1> QED
  BY <1>3 DEF LoyalInv, EarlyIsOver

\* A step that leaves the calls that are over alone.
LEMMA EarlyStays ==
  ASSUME Types, EarlyIsOver, [Next]_vars
  PROVE  EarlyIsOver' /\ (NobodyEarly' => NobodyEarly)
<1>0. /\ outcome \in [Id -> {"none", "ok", "failed", "early", "orphan"}]
      /\ at \in [Id -> {"new", "queue", "registered", "aim", "ended"} \cup Guarded]
      /\ \A u \in Turn : u \in Id
  BY DEF Types, TypeOK, HostType, Id
<1>1. ASSUME UNCHANGED outcome, NEW i \in Id, at[i] # "ended", NEW l, at' = [at EXCEPT ![i] = l]
      PROVE  EarlyIsOver' /\ (NobodyEarly' => NobodyEarly)
  BY <1>0, <1>1 DEF EarlyIsOver, NobodyEarly
<1>2. ASSUME UNCHANGED <<outcome, at>>
      PROVE  EarlyIsOver' /\ (NobodyEarly' => NobodyEarly)
  BY <1>2 DEF EarlyIsOver, NobodyEarly
<1>3. ASSUME NEW i \in Id, at[i] # "ended", NEW why, End(i, why)
      PROVE  EarlyIsOver' /\ (NobodyEarly' => NobodyEarly)
  BY <1>0, <1>3 DEF EarlyIsOver, NobodyEarly, End
<1>4. ASSUME NEW i \in Id,
             Send(i) \/ Consume(i) \/ SeeClosed(i) \/ Timeout(i) \/ Abandon(i)
      PROVE  EarlyIsOver' /\ (NobodyEarly' => NobodyEarly)
  <2>1. at[i] # "ended"
    BY <1>4 DEF Send, Consume, TakeEnd, TakeOutput, TakeAck, Drain, SeeClosed, Timeout, Abandon,
                Guarded
  <2>2. \/ \E why : End(i, why)
        \/ UNCHANGED outcome /\ \E l : at' = [at EXCEPT ![i] = l]
        \/ UNCHANGED <<outcome, at>>
    BY <1>4 DEF Send, Consume, TakeEnd, TakeOutput, TakeAck, Drain, SeeClosed, Timeout, Abandon,
                Skip
  <2> QED
    BY <1>1, <1>2, <1>3, <2>1, <2>2
<1>5. ASSUME NEW u \in Turn,
             BeginTurn(u) \/ Register(u) \/ Publish(u) \/ SendCancel(u) \/ Stop(u)
      PROVE  EarlyIsOver' /\ (NobodyEarly' => NobodyEarly)
  <2>1. at[u] # "ended" /\ UNCHANGED outcome /\ \E l : at' = [at EXCEPT ![u] = l]
    BY <1>5 DEF BeginTurn, Register, Publish, SendCancel, Stop
  <2> QED
    BY <1>0, <1>1, <2>1
<1>6. ASSUME NEW i \in Ctl, BeginExchange(i) \/ ReadActive(i) \/ CancelActiveTurn(i)
      PROVE  EarlyIsOver' /\ (NobodyEarly' => NobodyEarly)
  <2>1. at[i] # "ended" /\ UNCHANGED outcome /\ \E l : at' = [at EXCEPT ![i] = l]
    BY <1>6 DEF BeginExchange, ReadActive, CancelActiveTurn
  <2> QED
    BY <1>1, <2>1 DEF Id
<1>7. CASE Close \/ Reader \/ Cleanup \/ Finished \/ UNCHANGED vars
  <2>1. UNCHANGED <<outcome, at>>
    BY <1>7 DEF Close, Reader, ReadFrame, Deliver, ReaderEnds, CloseChannels, Cleanup, Unpublish,
                Finished, vars, host, calls
  <2> QED
    BY <1>2, <2>1
<1>8. CASE PeerNext /\ UNCHANGED host
  BY <1>2, <1>8 DEF host, calls
<1>9. CASE Break /\ UNCHANGED <<peer, host>>
  BY <1>2, <1>9 DEF host, calls
<1> QED
  BY <1>4, <1>5, <1>6, <1>7, <1>8, <1>9 DEF Next

\* Nothing of the turn changes but that frames of it are gone.
LEMMA OrderKept ==
  ASSUME NEW t, InOrder(t), at'[t] = at[t], cur' = t <=> cur = t,
         Has(up', Ask(t)) => Has(up, Ask(t)), Never(up', Ask(t), Ask(t)),
         EndNear(t)' => EndNear(t), Aimed(t)' => Aimed(t)
  PROVE  InOrder(t)'
<1>1. EndNear(t)' => Over(t)'
  BY DEF InOrder, Over, Fresh, Unsent
<1> QED
  BY <1>1 DEF InOrder, Awaits

\* A frame that is none of F is written, or nothing is.
LEMMA ForeignSent ==
  ASSUME Types, Types', NEW F, NEW k \in Requests, NEW i \in Id, Frame(k, i) \notin F,
         Sends(k, i) \/ UNCHANGED up
  PROVE  Same(up, up', F)
<1>1. up \in Seq(Asked) /\ up' \in Seq(Asked) /\ Frame(k, i) \in Asked
  BY DEF Types, TypeOK, WireType, Asked, Frame
<1>2. CASE up' = Append(up, Frame(k, i))
  <2>1. Grew(up, up', Frame(k, i))
    BY <1>1, <1>2, GrewBy
  <2> QED
    BY <1>1, <2>1, SameGrew
<1>3. CASE UNCHANGED up
  BY <1>3, SameItself
<1> QED
  BY <1>2, <1>3 DEF Sends

\* The requests that name t.
Naming(t) == {Frame(k, t) : k \in Requests}

LEMMA NamingSame ==
  ASSUME NEW t, InOrder(t), Same(up, up', Naming(t))
  PROVE  /\ Has(up', Ask(t)) <=> Has(up, Ask(t))
         /\ Never(up', Ask(t), Ask(t))
         /\ \A k \in CtlKind : Has(up', Frame(k, t)) <=> Has(up, Frame(k, t))
<1>1. Ask(t) \in Naming(t) /\ \A k \in CtlKind : Frame(k, t) \in Naming(t)
  BY DEF Naming, Ask, Requests
<1> QED
  BY <1>1 DEF Same, InOrder

\* Another call moves.
LEMMA OtherMoves ==
  ASSUME Types, NEW t \in Turn, InOrder(t), at'[t] = at[t], chan'[t] = chan[t],
         Same(up, up', Naming(t)), UNCHANGED <<down, peer, reader>>,
         activeTurn' = t => activeTurn = t,
         \A i \in Ctl : at'[i] = "aim" /\ aim'[i] = t => Aimed(t)
  PROVE  InOrder(t)'
<1>1. EndNear(t)' => EndNear(t)
  BY DEF EndNear
<1>2. /\ Has(up', Ask(t)) <=> Has(up, Ask(t))
      /\ Never(up', Ask(t), Ask(t))
      /\ \A k \in CtlKind : Has(up', Frame(k, t)) <=> Has(up, Frame(k, t))
  BY NamingSame
<1>3. Aimed(t)' => Aimed(t)
  BY <1>2 DEF Aimed
<1> QED
  BY <1>1, <1>2, <1>3, OrderKept DEF peer

\* The guest is through with the turn when its call ends.
LEMMA EndInOrder ==
  ASSUME Types, NEW t \in Turn, InOrder(t), NEW why, End(t, why), cur # t, ~Has(up, Ask(t)),
         UNCHANGED <<wire, peer, routing, aim>>
  PROVE  InOrder(t)'
<1>1. at'[t] = "ended"
  BY DEF End, Types, TypeOK, HostType, Id
<1>2. Over(t)'
  BY <1>1 DEF Over, Fresh, Unsent, wire, peer
<1>3. Never(up', Ask(t), Ask(t)) /\ cur' # t /\ ~Has(up', Ask(t))
  BY DEF InOrder, wire, peer
<1> QED
  BY <1>1, <1>2, <1>3 DEF InOrder

\* The calls' own steps.
LEMMA CallInOrder ==
  ASSUME Types, Types', NobodyEarly', NEW t \in Turn, InOrder(t), NEW i \in Id,
         \/ Send(i) \/ TakeEnd(i) \/ SeeClosed(i) \/ Timeout(i) \/ Abandon(i)
         \/ i \in Turn /\ (TakeOutput(i) \/ TakeAck(i) \/ Drain(i))
  PROVE  InOrder(t)'
<1> USE DEF wire
<1>0. /\ t \in Id /\ outcome \in [Id -> {"none", "ok", "failed", "early", "orphan"}]
      /\ at \in [Id -> {"new", "queue", "registered", "aim", "ended"} \cup Guarded]
      /\ chan \in [Id -> Seq(Wired)] /\ Same(up, up, Naming(t))
  BY SameItself DEF Id, Types, TypeOK, HostType, Wired
<1>1. UNCHANGED <<peer, down, link, routing, aim>>
  BY DEF Send, TakeEnd, SeeClosed, Timeout, Abandon, TakeOutput, TakeAck, Drain
<1>e. ASSUME End(i, "early"), UNCHANGED up PROVE InOrder(t)'
  <2>1. i # t
    BY <1>0, <1>e DEF End, NobodyEarly
  <2>2. at'[t] = at[t] /\ chan'[t] = chan[t]
    BY <2>1, <1>e, OtherEnds
  <2>3. \A j \in Ctl : at'[j] = "aim" => at[j] = "aim"
    BY <1>0, <1>e DEF End, Id
  <2>4. activeTurn' = activeTurn
    BY <1>e DEF End
  <2> QED
    BY <1>0, <1>1, <1>e, <2>2, <2>3, <2>4, OtherMoves DEF routing, Aimed
<1>o. ASSUME NEW why, End(i, why), i # t, UNCHANGED up PROVE InOrder(t)'
  <2>2. at'[t] = at[t] /\ chan'[t] = chan[t]
    BY <1>o, OtherEnds
  <2>3. \A j \in Ctl : at'[j] = "aim" => at[j] = "aim"
    BY <1>0, <1>o DEF End, Id
  <2>4. activeTurn' = activeTurn
    BY <1>o DEF End
  <2> QED
    BY <1>0, <1>1, <1>o, <2>2, <2>3, <2>4, OtherMoves DEF routing, Aimed
<1>2. CASE Send(i)
  <2>1. CASE End(i, "early") /\ UNCHANGED up
    BY <1>e, <2>1
  <2>2. CASE Sends(KindOf(i), i) /\ at' = [at EXCEPT ![i] = "wait"]
               /\ UNCHANGED <<chan, inflight, turnLock, activeTurn, outcome, got>>
    <3>1. CASE i = t
      <4>1. at[t] = "send" /\ at'[t] = "wait" /\ Sends("Execute", t)
        BY <1>0, <1>2, <2>2, <3>1 DEF Send, KindOf
      <4>2. cur # t /\ ~Has(up, Ask(t)) /\ ~EndNear(t) /\ Never(up, Ask(t), Ask(t))
        BY <4>1 DEF InOrder, Awaits, Over, Fresh, Unsent
      <4>3. ~EndNear(t)' /\ cur' # t
        BY <1>1, <2>2, <4>2 DEF EndNear, peer, routing
      <4>4. Never(up', Ask(t), Ask(t))
        <5>1. CASE up' = Append(up, Ask(t))
          <6>1. up \in Seq(Asked) /\ up' \in Seq(Asked) /\ Ask(t) \in Asked
            BY DEF Types, TypeOK, WireType, Asked, Frame, Ask, Requests, Id
          <6>2. Grew(up, up', Ask(t))
            BY <5>1, <6>1, GrewBy
          <6> QED
            BY <4>2, <6>1, <6>2, NeverGrew
        <5>2. CASE UNCHANGED up
          BY <4>2, <5>2
        <5> QED
          BY <4>1, <5>1, <5>2 DEF Sends, Ask
      <4> QED
        BY <4>1, <4>3, <4>4 DEF InOrder, Awaits
    <3>2. CASE i # t
      <4>1. Frame(KindOf(i), i) \notin Naming(t) /\ KindOf(i) \in Requests
        BY <3>2, FrameEqual DEF Naming, KindOf, Requests, CtlKind
      <4>2. Same(up, up', Naming(t))
        BY <2>2, <4>1, ForeignSent
      <4>3. at'[t] = at[t] /\ \A j \in Ctl : at'[j] = "aim" => at[j] = "aim"
        BY <1>0, <2>2, <3>2 DEF Id
      <4> QED
        BY <1>1, <2>2, <4>2, <4>3, OtherMoves DEF routing, Aimed
    <3> QED
      BY <3>1, <3>2
  <2> QED
    BY <1>2, <2>1, <2>2 DEF Send
<1>n. CASE i = t /\ (TakeEnd(i) \/ Drain(i)) /\ Head(chan[i]).kind \in Ends /\ \E why : End(i, why)
  <2>1. chan[t] \in Seq(For(t)) /\ chan[t] # << >> /\ UNCHANGED up
    BY <1>0, <1>n DEF Types, TakeEnd, Drain
  <2>2. Head(chan[t]) = chan[t][1] /\ chan[t][1] \in For(t)
    BY <2>1, TailFields
  <2>3. PICK k \in Ends : chan[t][1] = Frame(k, t)
    BY <1>n, <2>2 DEF For, Wired, Frame
  <2>4. Has(chan[t], Frame(k, t))
    BY <2>1, <2>3, HasHead
  <2>5. cur # t /\ ~Has(up, Ask(t))
    BY <2>3, <2>4 DEF InOrder, EndNear, Over, Fresh
  <2> QED
    BY <1>1, <1>n, <2>1, <2>5, EndInOrder
<1>k. ASSUME i \in Turn, chan[i] # << >>, Skip(i), UNCHANGED up PROVE InOrder(t)'
  <2>1. at' = at /\ activeTurn' = activeTurn
    BY <1>k DEF Skip
  <2>2. ASSUME NEW f, Has(chan'[t], f) PROVE Has(chan[t], f)
    <3>1. CASE i = t
      <4>1. chan'[t] = Tail(chan[t]) /\ chan[t] \in Seq(Wired) /\ chan[t] # << >>
        BY <1>0, <1>k, <3>1 DEF Skip
      <4> QED
        BY <2>2, <4>1, CountTail
    <3>2. CASE i # t
      BY <1>0, <1>k, <2>2, <3>2 DEF Skip
    <3> QED
      BY <3>1, <3>2
  <2>3. EndNear(t)' => EndNear(t)
    BY <1>1, <2>2 DEF EndNear, routing
  <2>4. Aimed(t)' => Aimed(t)
    BY <1>1, <1>k, <2>1 DEF Aimed
  <2> QED
    BY <1>1, <1>k, <2>1, <2>3, <2>4, OrderKept DEF InOrder, peer
<1>3. CASE TakeEnd(i)
  <2>1. CASE i = t
    BY <1>n, <1>3, <2>1 DEF TakeEnd
  <2>2. CASE i # t
    BY <1>o, <1>3, <2>2 DEF TakeEnd
  <2> QED
    BY <2>1, <2>2
<1>4. CASE SeeClosed(i)
  BY <1>e, <1>4 DEF SeeClosed
<1>5. CASE Timeout(i)
  <2>1. CASE End(i, "early")
    BY <1>e, <1>5, <2>1 DEF Timeout
  <2>2. CASE at[i] = "wait" /\ at' = [at EXCEPT ![i] = "cancel"]
               /\ UNCHANGED <<chan, inflight, turnLock, activeTurn, outcome, got>>
    <3>1. UNCHANGED up
      BY <1>5 DEF Timeout
    <3>2. \A j \in Ctl : at'[j] = "aim" => at[j] = "aim"
      BY <1>0, <2>2 DEF Id
    <3>3. CASE i = t
      <4>1. at[t] = "wait" /\ at'[t] = "cancel"
        BY <1>0, <2>2, <3>3
      <4>2. EndNear(t)' => EndNear(t)
        BY <1>1, <2>2 DEF EndNear, routing
      <4>3. Over(t) => Over(t)'
        BY <1>1, <3>1, <4>1 DEF Over, Fresh, Unsent, peer
      <4> QED
        BY <1>1, <3>1, <4>1, <4>2, <4>3 DEF InOrder, Awaits, peer
    <3>4. CASE i # t
      <4>1. at'[t] = at[t]
        BY <1>0, <2>2, <3>4
      <4> QED
        BY <1>0, <1>1, <2>2, <3>1, <3>2, <4>1, OtherMoves DEF routing, Aimed
    <3> QED
      BY <3>3, <3>4
  <2> QED
    BY <1>5, <2>1, <2>2 DEF Timeout
<1>6. CASE Abandon(i)
  <2>1. CASE at[i] \in Guarded
    BY <1>e, <1>6, <2>1 DEF Abandon
  <2>2. CASE at[i] \notin Guarded /\ i = t
    <3>1. at[t] \in {"queue", "registered"} /\ End(t, "orphan") /\ UNCHANGED up
      BY <1>6, <2>2 DEF Abandon
    <3>2. cur # t /\ ~Has(up, Ask(t))
      BY <3>1 DEF InOrder, Awaits
    <3> QED
      BY <1>1, <3>1, <3>2, EndInOrder
  <2>3. CASE i # t
    BY <1>o, <1>6, <2>3 DEF Abandon
  <2> QED
    BY <2>1, <2>2, <2>3
<1>7. CASE i \in Turn /\ TakeOutput(i)
  BY <1>e, <1>k, <1>7 DEF TakeOutput
<1>8. CASE i \in Turn /\ TakeAck(i)
  BY <1>k, <1>8 DEF TakeAck
<1>9. CASE i \in Turn /\ Drain(i)
  <2>1. CASE Head(chan[i]).kind \in Ends /\ End(i, "failed")
    BY <1>n, <1>o, <1>9, <2>1 DEF Drain
  <2>2. CASE Skip(i)
    BY <1>k, <1>9, <2>2 DEF Drain
  <2> QED
    BY <1>9, <2>1, <2>2 DEF Drain
<1> QED
  BY <1>2, <1>3, <1>4, <1>5, <1>6, <1>7, <1>8, <1>9

\* The turns' other steps.
LEMMA TurnInOrder ==
  ASSUME Types, Types', NEW t \in Turn, InOrder(t), NEW u \in Turn,
         BeginTurn(u) \/ Register(u) \/ Publish(u) \/ SendCancel(u) \/ Stop(u) \/ Unpublish(u)
  PROVE  InOrder(t)'
<1> USE DEF wire
<1>0. /\ t \in Id /\ u \in Id /\ t # None /\ Same(up, up, Naming(t))
      /\ at \in [Id -> {"new", "queue", "registered", "aim", "ended"} \cup Guarded]
  BY SameItself DEF Id, Types, TypeOK, HostType
<1>1. UNCHANGED <<peer, down, link, routing, aim, chan>>
  BY DEF BeginTurn, Register, Publish, SendCancel, Stop, Unpublish
<1>2. \A i \in Ctl : at'[i] = "aim" => at[i] = "aim"
  BY <1>0 DEF BeginTurn, Register, Publish, SendCancel, Stop, Unpublish, Id
<1>3. EndNear(t)' => EndNear(t)
  BY <1>1 DEF EndNear, routing
<1>4. CASE u # t
  <2>1. at'[t] = at[t]
    BY <1>0, <1>4 DEF BeginTurn, Register, Publish, SendCancel, Stop, Unpublish
  <2>2. activeTurn' = t => activeTurn = t
    BY <1>0, <1>4 DEF BeginTurn, Register, Publish, SendCancel, Stop, Unpublish
  <2>3. Sends("Cancel", u) \/ UNCHANGED up
    BY DEF BeginTurn, Register, Publish, SendCancel, Stop, Unpublish
  <2>4. Frame("Cancel", u) \notin Naming(t) /\ "Cancel" \in Requests
    BY <1>4, FrameEqual DEF Naming, Requests, CtlKind
  <2>5. Same(up, up', Naming(t))
    BY <1>0, <2>3, <2>4, ForeignSent
  <2> QED
    BY <1>1, <1>2, <2>1, <2>2, <2>5, OtherMoves DEF routing, Aimed
<1>5. CASE u = t /\ (BeginTurn(u) \/ Register(u) \/ Publish(u))
  <2>1. /\ at[t] \in {"new", "queue", "registered"} /\ UNCHANGED up
        /\ at'[t] \in {"queue", "registered", "send"}
        /\ at'[t] # "send" => activeTurn' = activeTurn
    BY <1>0, <1>5 DEF BeginTurn, Register, Publish
  <2>2. cur # t /\ ~Has(up, Ask(t)) /\ ~EndNear(t) /\ ~Aimed(t)
    BY <2>1 DEF InOrder, Awaits, Over, Fresh, Unsent
  <2>3. at'[t] # "send" => ~Aimed(t)'
    BY <1>1, <1>2, <2>1, <2>2 DEF Aimed
  <2> QED
    BY <1>1, <1>3, <2>1, <2>2, <2>3 DEF InOrder, peer
<1>6. CASE u = t /\ (SendCancel(u) \/ Stop(u))
  <2>1. at[t] \in {"wait", "cancel"} /\ at'[t] \in {"cancel", "drain"}
    BY <1>0, <1>6 DEF SendCancel, Stop
  <2>2. Sends("Cancel", t) \/ UNCHANGED up
    BY <1>6 DEF SendCancel, Stop
  <2>3. Frame("Cancel", t) \notin {Ask(t)} /\ "Cancel" \in Requests
    BY FrameEqual DEF Ask, Requests, CtlKind
  <2>4. Same(up, up', {Ask(t)})
    BY <1>0, <2>2, <2>3, ForeignSent
  <2>5. (Has(up', Ask(t)) <=> Has(up, Ask(t))) /\ Never(up', Ask(t), Ask(t))
    BY <2>4 DEF Same, InOrder
  <2>6. Over(t) => Over(t)'
    BY <1>1, <2>1, <2>5 DEF Over, Fresh, Unsent, peer
  <2> QED
    BY <1>1, <1>3, <2>1, <2>5, <2>6 DEF InOrder, Awaits, peer
<1>7. CASE u = t /\ Unpublish(u)
  <2>1. UNCHANGED <<at, up>> /\ activeTurn' # t
    BY <1>0, <1>7 DEF Unpublish
  <2>2. Aimed(t)' => Aimed(t)
    BY <1>1, <2>1 DEF Aimed
  <2> QED
    BY <1>1, <1>3, <2>1, <2>2, OrderKept DEF InOrder, peer
<1> QED
  BY <1>4, <1>5, <1>6, <1>7

\* Control calls, and cancel_active() of whatever turn is published.
LEMMA CtlInOrder ==
  ASSUME Types, Types', NEW t \in Turn, InOrder(t), NEW i \in Ctl,
         BeginExchange(i) \/ ReadActive(i) \/ CancelActiveTurn(i)
  PROVE  InOrder(t)'
<1> USE DEF wire
<1>i. t \in Id /\ i \in Id /\ t # i
  BY DEF Id
<1>s. Same(up, up, Naming(t))
  BY SameItself
<1>0. /\ t \in Id /\ i \in Id /\ t # i /\ Same(up, up, Naming(t))
      /\ at \in [Id -> {"new", "queue", "registered", "aim", "ended"} \cup Guarded]
      /\ aim \in [Ctl -> Turn \cup {None}]
  BY <1>i, <1>s DEF Types, TypeOK, HostType
<1>1. UNCHANGED <<peer, down, link, routing, chan, activeTurn>> /\ at'[t] = at[t]
  BY <1>0 DEF BeginExchange, ReadActive, CancelActiveTurn
<1>2. CASE BeginExchange(i)
  <2>1. \A j \in Ctl : at'[j] = "aim" => at[j] = "aim"
    BY <1>0, <1>2 DEF BeginExchange, Id
  <2>2. UNCHANGED <<up, aim>>
    BY <1>2 DEF BeginExchange
  <2> QED
    BY <1>0, <1>1, <2>1, <2>2, OtherMoves DEF routing, Aimed
<1>3. CASE ReadActive(i)
  <2>1. \A j \in Ctl : at'[j] = "aim" /\ aim'[j] = t => Aimed(t)
    BY <1>0, <1>3 DEF ReadActive, Id, Aimed
  <2>2. UNCHANGED up
    BY <1>3 DEF ReadActive
  <2> QED
    BY <1>0, <1>1, <2>1, <2>2, OtherMoves DEF routing
<1>4. CASE CancelActiveTurn(i)
  <2>1. \A j \in Ctl : at'[j] = "aim" /\ aim'[j] = t => at[j] = "aim" /\ aim[j] = t
    BY <1>0, <1>4 DEF CancelActiveTurn, Id
  <2>2. PICK j \in Id : j = aim[i] /\ at[i] = "aim"
    BY <1>4 DEF CancelActiveTurn, Types, Id
  <2>3. Sends("Cancel", j) \/ UNCHANGED up
    BY <1>4, <2>2 DEF CancelActiveTurn
  <2>4. CASE j # t
    <3>1. Frame("Cancel", j) \notin Naming(t) /\ "Cancel" \in Requests
      BY <2>4, FrameEqual DEF Naming, Requests, CtlKind
    <3>2. Same(up, up', Naming(t))
      BY <2>3, <3>1, ForeignSent
    <3> QED
      BY <1>1, <2>1, <3>2, OtherMoves DEF routing, Aimed
  <2>5. CASE j = t
    <3>1. Aimed(t)
      BY <2>2, <2>5 DEF Aimed
    <3>2. Frame("Cancel", t) \notin {Ask(t)} /\ "Cancel" \in Requests
      BY FrameEqual DEF Ask, Requests, CtlKind
    <3>3. Same(up, up', {Ask(t)})
      BY <1>0, <2>3, <2>5, <3>2, ForeignSent
    <3>4. (Has(up', Ask(t)) => Has(up, Ask(t))) /\ Never(up', Ask(t), Ask(t))
      BY <3>3 DEF Same, InOrder
    <3>5. EndNear(t)' => EndNear(t)
      BY <1>1 DEF EndNear, routing
    <3> QED
      BY <1>1, <3>1, <3>4, <3>5, OrderKept DEF peer
  <2> QED
    BY <2>4, <2>5
<1> QED
  BY <1>2, <1>3, <1>4

\* The reader moves an end of the turn on, or drops it.
LEMMA ReaderInOrder ==
  ASSUME Types, Types', NEW t \in Turn, InOrder(t), Reader
  PROVE  InOrder(t)'
<1>0. /\ t \in Id /\ chan \in [Id -> Seq(Wired)] /\ down \in Seq(Told) /\ down \in Seq(Wired)
      /\ \A i \in Id : chan'[i] \in Seq(Wired)
  BY DEF Id, Types, TypeOK, WireType, HostType, Wired
<1>1. UNCHANGED <<peer, up, at, activeTurn, aim>>
  BY DEF Reader, ReadFrame, Deliver, ReaderEnds, CloseChannels, wire, calls
<1>2. Aimed(t)' => Aimed(t)
  BY <1>1 DEF Aimed
<1>p. ASSUME NEW f \in Wired, Push(f), NEW g, g # f, Has(chan'[t], g) PROVE Has(chan[t], g)
  <2>1. CASE chan' = chan
    BY <1>p, <2>1
  <2>2. CASE chan' = [chan EXCEPT ![f.id] = Append(@, f)]
    <3>1. CASE f.id = t
      <4>1. chan'[t] = Append(chan[t], f) /\ chan[t] \in Seq(Wired) /\ chan'[t] \in Seq(Wired)
        BY <1>0, <2>2, <3>1
      <4>2. Grew(chan[t], chan'[t], f)
        BY <4>1, GrewBy
      <4> QED
        BY <1>p, <4>1, <4>2, HasGrew
    <3>2. CASE f.id # t
      BY <1>0, <1>p, <2>2, <3>2
    <3> QED
      BY <3>1, <3>2
  <2> QED
    BY <1>p, <2>1, <2>2 DEF Push
<1>3. EndNear(t)' => EndNear(t)
  <2>1. CASE ReadFrame
    <3> DEFINE f == Head(down)
    <3>1. /\ down # << >> /\ down' = Tail(down) /\ f = down[1] /\ f \in Wired
          /\ DropUnknown(f) \/ RouteEnd(f) \/ RouteOutput(f) \/ RouteAck(f)
      BY <1>0, <2>1, TailFields DEF ReadFrame
    <3>2. Has(down, f)
      BY <1>0, <3>1, HasHead
    <3>3. \A g : Has(down', g) => Has(down, g)
      BY <1>0, <3>1, CountTail
    <3> HIDE DEF f
    <3>4. f = Frame(f.kind, f.id)
      BY <3>1 DEF Wired, Frame
    <3>5. CASE DropUnknown(f)
      BY <3>3, <3>5 DEF DropUnknown, EndNear
    <3>6. CASE RouteEnd(f)
      <4>1. reader'.frame.id = f.id /\ f.kind \in Ends /\ UNCHANGED chan
        BY <3>6 DEF RouteEnd, Frame
      <4>2. f.id = t => EndNear(t)
        BY <3>2, <3>4, <4>1 DEF EndNear
      <4> QED
        BY <3>3, <4>1, <4>2 DEF EndNear
    <3>7. CASE RouteOutput(f) \/ RouteAck(f)
      <4>1. UNCHANGED reader /\ f.kind \notin Ends /\ (Push(f) \/ UNCHANGED chan)
        BY <3>7 DEF RouteOutput, RouteAck, Ends, Acks
      <4>2. ASSUME NEW k \in Ends, Has(chan'[t], Frame(k, t)) PROVE Has(chan[t], Frame(k, t))
        <5>1. Frame(k, t) # f
          BY <4>1 DEF Frame
        <5> QED
          BY <1>p, <3>1, <4>1, <4>2, <5>1
      <4> QED
        BY <3>3, <4>1, <4>2 DEF EndNear
    <3> QED
      BY <3>1, <3>5, <3>6, <3>7
  <2>2. CASE Deliver
    <3>1. /\ reader.at = "deliver" /\ reader.frame \in Wired /\ reader'.at = "read"
          /\ UNCHANGED down /\ (Push(reader.frame) \/ UNCHANGED chan)
      BY <2>2 DEF Deliver, Types, wire
    <3>2. CASE reader.frame.id = t
      BY <3>1, <3>2 DEF EndNear
    <3>3. CASE reader.frame.id # t
      <4>1. ASSUME NEW k \in Ends, Has(chan'[t], Frame(k, t)) PROVE Has(chan[t], Frame(k, t))
        <5>1. Frame(k, t) # reader.frame
          BY <3>3 DEF Frame
        <5> QED
          BY <1>p, <3>1, <4>1, <5>1
      <4> QED
        BY <3>1, <4>1 DEF EndNear
    <3> QED
      BY <3>2, <3>3
  <2>3. CASE ReaderEnds \/ CloseChannels
    BY <2>3 DEF ReaderEnds, CloseChannels, EndNear, wire, calls
  <2> QED
    BY <2>1, <2>2, <2>3 DEF Reader
<1> QED
  BY <1>1, <1>2, <1>3, OrderKept DEF InOrder, peer

\* The guest takes a request, or none.
Shrank == \A f : (Has(up', f) => Has(up, f)) /\ (Never(up, f, f) => Never(up', f, f))

LEMMA TakenShrinks ==
  ASSUME Types, NEW k, NEW i, Takes(k, i) \/ UNCHANGED up
  PROVE  Shrank /\ (Takes(k, i) => Has(up, Frame(k, i)))
<1>1. CASE UNCHANGED up /\ ~Takes(k, i)
  BY <1>1 DEF Shrank
<1>2. CASE Takes(k, i)
  <2>1. up \in Seq(Asked) /\ up # << >> /\ up' = Tail(up)
    BY <1>2 DEF Types, TypeOK, WireType, Asked, Takes
  <2>2. Head(up) = up[1]
    BY <2>1, TailFields
  <2>3. Has(up, Frame(k, i))
    BY <1>2, <2>1, <2>2, HasHead DEF Takes
  <2>4. Shrank
    BY <2>1, CountTail, OrderTail DEF Shrank
  <2> QED
    BY <2>3, <2>4
<1> QED
  BY <1>1, <1>2

\* The guest deals with somebody else.
LEMMA GuestElsewhere ==
  ASSUME NEW t \in Turn, InOrder(t), UNCHANGED host, Shrank, cur' = t <=> cur = t,
         Same(down, down', {Out(t), Exit(t), Err(t)})
  PROVE  InOrder(t)'
<1>1. \A k \in Ends : Frame(k, t) \in {Out(t), Exit(t), Err(t)}
  BY DEF Ends, Exit, Err
<1>2. EndNear(t)' => EndNear(t)
  BY <1>1 DEF EndNear, Same, host, calls, routing
<1>3. Aimed(t)' => Aimed(t)
  BY DEF Aimed, Shrank, host, calls
<1> QED
  BY <1>2, <1>3, OrderKept DEF InOrder, Shrank, host, calls

\* The guest is through with the turn.
LEMMA GuestThrough ==
  ASSUME NEW t \in Turn, InOrder(t), UNCHANGED host, Shrank, cur' # t, ~Has(up', Ask(t)),
         ~Unsent(t)
  PROVE  InOrder(t)'
<1>1. Over(t)'
  BY DEF Over, Fresh, Unsent, host, calls
<1>2. Aimed(t)' => Aimed(t)
  BY DEF Aimed, Shrank, host, calls
<1> QED
  BY <1>1, <1>2 DEF InOrder, Shrank, host, calls

\* The guest takes the turn's Execute.
LEMMA AskTaken ==
  ASSUME Types, NEW t \in Turn, InOrder(t), Takes("Execute", t)
  PROVE  Has(up, Ask(t)) /\ cur # t /\ ~Has(up', Ask(t)) /\ ~Unsent(t)
<1>1. up \in Seq(Asked) /\ up # << >> /\ up' = Tail(up)
  BY DEF Types, TypeOK, WireType, Asked, Takes
<1>2. up[1] = Ask(t)
  BY <1>1, TailFields DEF Takes, Ask
<1>3. Has(up, Ask(t))
  BY <1>1, <1>2, HasHead
<1>4. ~Has(up', Ask(t))
  BY <1>1, <1>2, OrderTail DEF InOrder
<1> QED
  BY <1>3, <1>4 DEF InOrder, Awaits, Unsent

\* The guest's steps.
LEMMA PeerInOrder ==
  ASSUME Types, Types', TurnInv, \A u \in Turn : InOrder(u), NEW t \in Turn,
         PeerNext, UNCHANGED host
  PROVE  InOrder(t)'
<1> USE DEF wire
<1>0. /\ t \in Id /\ InOrder(t) /\ cur \in Turn \cup {None} /\ met = TRUE /\ t # None
  BY DEF Id, Types
<1>f. ASSUME NEW k, NEW u, u # t PROVE Frame(k, u) \notin {Out(t), Exit(t), Err(t)}
  BY <1>f DEF Out, Exit, Err, Frame
<1>1. ASSUME NEW u \in Turn, PeerRefuses(u) PROVE InOrder(t)'
  <2>1. Takes("Execute", u) /\ cur' = cur /\ Shrank
    BY <1>1, TakenShrinks DEF PeerRefuses
  <2>2. CASE u = t
    BY <1>0, <2>1, <2>2, AskTaken, GuestThrough
  <2>3. CASE u # t
    <3>1. Frame("Error", u) \in Told
      BY FrameTold DEF Answer, Ends, Id
    <3>2. \/ link # "cut" /\ Grew(down, down', Frame("Error", u))
          \/ link = "cut" /\ UNCHANGED down
      BY <1>1, <3>1, SaysOne DEF PeerRefuses
    <3>3. Same(down, down', {Out(t), Exit(t), Err(t)})
      BY <1>f, <2>3, <3>2, OneMore
    <3> QED
      BY <1>0, <2>1, <3>3, GuestElsewhere
  <2> QED
    BY <2>2, <2>3
<1>2. ASSUME NEW u \in Turn, PeerStarts(u) PROVE InOrder(t)'
  <2>1. Takes("Execute", u) /\ cur = None /\ cur' = u /\ UNCHANGED down /\ Shrank
    BY <1>2, TakenShrinks DEF PeerStarts
  <2>2. CASE u = t
    <3>1. Has(up, Ask(t)) /\ ~Has(up', Ask(t))
      BY <1>0, <2>1, <2>2, AskTaken
    <3>2. Awaits(t) /\ ~EndNear(t)
      BY <1>0, <3>1 DEF InOrder, Over, Fresh
    <3>3. Awaits(t)' /\ ~EndNear(t)'
      BY <2>1, <3>2 DEF Awaits, EndNear, host, calls, routing
    <3>4. Never(up', Ask(t), Ask(t))
      BY <1>0, <2>1 DEF InOrder, Shrank
    <3> QED
      BY <2>1, <2>2, <3>1, <3>3, <3>4 DEF InOrder, Awaits
  <2>3. CASE u # t
    <3>1. Same(down, down', {Out(t), Exit(t), Err(t)})
      BY <2>1, SameItself
    <3> QED
      BY <1>0, <2>1, <2>3, <3>1, GuestElsewhere
  <2> QED
    BY <2>2, <2>3
<1>3. ASSUME NEW u \in Turn, PeerRuns(u) PROVE InOrder(t)'
  <2>1. Takes("Execute", u) /\ cur = None /\ cur' = cur /\ Shrank
    BY <1>3, TakenShrinks DEF PeerRuns
  <2>2. CASE u = t
    BY <1>0, <2>1, <2>2, AskTaken, GuestThrough
  <2>3. CASE u # t
    <3>1. PICK n \in 0..MaxOutput, k \in Ends :
            Says(Append([j \in 1..n |-> Frame("Output", u)], Frame(k, u)))
      BY <1>3 DEF PeerRuns
    <3>2. n \in Nat
      BY PeerAssumption
    <3>3. \/ link # "cut" /\ down' = Run(down, Out(u), n, Frame(k, u))
          \/ link = "cut" /\ UNCHANGED down
      BY <3>1, <3>2, SaysRun DEF Run, Out
    <3>4. Same(down, down', {Out(t), Exit(t), Err(t)})
      BY <2>3, <3>2, <3>3, RunMore
    <3> QED
      BY <1>0, <2>1, <3>4, GuestElsewhere
  <2> QED
    BY <2>2, <2>3
<1>4. CASE PeerWrites
  <2>1. PICK u \in Turn : u = cur
    BY <1>0, <1>4 DEF PeerWrites
  <2>2. UNCHANGED <<up, cur>> /\ Shrank
    BY <1>4 DEF PeerWrites, Shrank
  <2>3. Frame("Output", u) \in Told
    BY FrameTold
  <2>4. \/ link # "cut" /\ Grew(down, down', Frame("Output", u))
        \/ link = "cut" /\ UNCHANGED down
    BY <1>4, <2>1, <2>3, SaysOne DEF PeerWrites
  <2>5. down \in Seq(Wired) /\ down' \in Seq(Wired)
    BY DEF Types, TypeOK, WireType, Wired
  <2>6. ASSUME NEW k \in Ends, Has(down', Frame(k, t)) PROVE Has(down, Frame(k, t))
    <3>1. Frame("Output", u) # Frame(k, t)
      BY FrameEqual DEF Ends
    <3> QED
      BY <2>4, <2>5, <2>6, <3>1, HasGrew
  <2>7. EndNear(t)' => EndNear(t)
    BY <2>6 DEF EndNear, host, calls, routing
  <2>8. Aimed(t)' => Aimed(t)
    BY <2>2 DEF Aimed, host, calls
  <2> QED
    BY <1>0, <2>2, <2>7, <2>8, OrderKept DEF InOrder, host, calls
<1>5. CASE PeerEnds
  <2>1. PICK u \in Turn : u = cur
    BY <1>0, <1>5 DEF PeerEnds
  <2>2. UNCHANGED up /\ cur' = None /\ Shrank
    BY <1>5 DEF PeerEnds, Shrank
  <2>3. CASE u = t
    <3>1. ~Has(up', Ask(t)) /\ ~Unsent(t)
      BY <1>0, <2>1, <2>2, <2>3 DEF InOrder, Awaits, Unsent
    <3> QED
      BY <1>0, <2>2, <3>1, GuestThrough
  <2>4. CASE u # t
    <3>1. PICK k \in Ends : Says(<<Frame(k, u)>>)
      BY <1>5, <2>1 DEF PeerEnds
    <3>2. Frame(k, u) \in Told
      BY FrameTold DEF Answer, Ends, Id
    <3>3. \/ link # "cut" /\ Grew(down, down', Frame(k, u))
          \/ link = "cut" /\ UNCHANGED down
      BY <3>1, <3>2, SaysOne
    <3>4. Same(down, down', {Out(t), Exit(t), Err(t)})
      BY <1>f, <2>4, <3>3, OneMore
    <3> QED
      BY <1>0, <2>1, <2>2, <2>4, <3>4, GuestElsewhere
  <2> QED
    BY <2>3, <2>4
<1>6. CASE PeerLeaves
  <2>1. UNCHANGED <<up, down, cur>> /\ Shrank
    BY <1>6 DEF PeerLeaves, peer, Shrank
  <2>2. Same(down, down', {Out(t), Exit(t), Err(t)})
    BY <2>1, SameItself
  <2> QED
    BY <1>0, <2>1, <2>2, GuestElsewhere
<1>7. ASSUME NEW i \in Id, PeerReplies(i) PROVE InOrder(t)'
  <2>1. PICK k \in CtlKind :
          /\ Takes(k, i)
          /\ \/ Says(<<Frame(AckOf(k), i)>>)
             \/ (i \in Ctl \/ cur \notin {None, i} \/ ~met) /\ Says(<<Frame("Error", i)>>)
    BY <1>7 DEF PeerReplies
  <2>2. cur' = cur /\ Shrank /\ Has(up, Frame(k, i))
    BY <1>7, <2>1, TakenShrinks DEF PeerReplies
  <2>3. CASE Says(<<Frame(AckOf(k), i)>>)
    <3>1. AckOf(k) \in Answer \ {"Output"} /\ AckOf(k) \notin {"Output", "Exit", "Error"}
      BY DEF CtlKind, AckOf, Answer, Acks, Ends
    <3>2. Frame(AckOf(k), i) \in Told
      BY <3>1, FrameTold
    <3>3. Frame(AckOf(k), i) \notin {Out(t), Exit(t), Err(t)}
      BY <3>1 DEF Out, Exit, Err, Frame
    <3>4. \/ link # "cut" /\ Grew(down, down', Frame(AckOf(k), i))
          \/ link = "cut" /\ UNCHANGED down
      BY <2>3, <3>2, SaysOne
    <3>5. Same(down, down', {Out(t), Exit(t), Err(t)})
      BY <3>3, <3>4, OneMore
    <3> QED
      BY <1>0, <2>2, <3>5, GuestElsewhere
  <2>4. CASE i = t /\ cur \notin {None, t}
    <3>1. PICK u \in Turn : u = cur /\ u # t
      BY <1>0, <2>4
    <3>2. at[u] \in Guarded
      BY <3>1 DEF InOrder, Awaits, Guarded
    <3>3. at[t] \notin {"registered"} \cup Guarded
      BY <3>1, <3>2 DEF TurnInv, TurnOwned
    <3>4. at[t] \notin {"new", "queue", "registered"}
      BY <1>0, <2>2, <2>4 DEF InOrder, Aimed
    <3>5. ~Unsent(t) /\ ~Has(up, Ask(t))
      BY <1>0, <3>3, <3>4 DEF InOrder, Awaits, Unsent, Guarded
    <3>6. ~Has(up', Ask(t))
      BY <2>2, <3>5 DEF Shrank
    <3> QED
      BY <1>0, <2>2, <2>4, <3>5, <3>6, GuestThrough
  <2>5. CASE i # t /\ Says(<<Frame("Error", i)>>)
    <3>1. Frame("Error", i) \in Told
      BY FrameTold DEF Answer, Ends
    <3>2. \/ link # "cut" /\ Grew(down, down', Frame("Error", i))
          \/ link = "cut" /\ UNCHANGED down
      BY <2>5, <3>1, SaysOne
    <3>3. Same(down, down', {Out(t), Exit(t), Err(t)})
      BY <1>f, <2>5, <3>2, OneMore
    <3> QED
      BY <1>0, <2>2, <3>3, GuestElsewhere
  <2> QED
    BY <1>0, <2>1, <2>3, <2>4, <2>5
<1> QED
  BY <1>1, <1>2, <1>3, <1>4, <1>5, <1>6, <1>7 DEF PeerNext

LEMMA LoyalNext ==
  ASSUME Types, Types', TurnInv, LoyalInv, [Next]_vars
  PROVE  LoyalInv'
<1>1. EarlyIsOver' /\ (NobodyEarly' => NobodyEarly)
  BY EarlyStays DEF LoyalInv
<1> SUFFICES ASSUME NobodyEarly', NEW t \in Turn PROVE InOrder(t)'
  BY <1>1 DEF LoyalInv
<1>2. InOrder(t) /\ \A u \in Turn : InOrder(u)
  BY <1>1 DEF LoyalInv
<1>3. ASSUME NEW i \in Id,
             Send(i) \/ Consume(i) \/ SeeClosed(i) \/ Timeout(i) \/ Abandon(i)
      PROVE  InOrder(t)'
  BY <1>2, <1>3, CallInOrder DEF Consume
<1>4. ASSUME NEW u \in Turn,
             BeginTurn(u) \/ Register(u) \/ Publish(u) \/ SendCancel(u) \/ Stop(u)
      PROVE  InOrder(t)'
  BY <1>2, <1>4, TurnInOrder
<1>5. ASSUME NEW i \in Ctl, BeginExchange(i) \/ ReadActive(i) \/ CancelActiveTurn(i)
      PROVE  InOrder(t)'
  BY <1>2, <1>5, CtlInOrder
<1>6. CASE Close \/ UNCHANGED vars
  <2>1. UNCHANGED <<up, down, peer, host>> /\ Shrank
    BY <1>6 DEF Close, vars, wire, Shrank
  <2>2. Same(down, down', {Out(t), Exit(t), Err(t)})
    BY <2>1, SameItself
  <2> QED
    BY <1>2, <2>1, <2>2, GuestElsewhere DEF peer
<1>7. CASE Reader
  BY <1>2, <1>7, ReaderInOrder
<1>8. CASE Cleanup
  BY <1>2, <1>8, TurnInOrder DEF Cleanup
<1>9. CASE PeerNext /\ UNCHANGED host
  BY <1>2, <1>9, PeerInOrder
<1>10. CASE Break /\ UNCHANGED <<peer, host>>
  <2>1. \A f : ~Has(up', f) /\ Never(up', f, f) /\ ~Has(down', f)
    BY <1>10 DEF Break, Has, Never
  <2>2. EndNear(t)' => EndNear(t)
    BY <1>10, <2>1 DEF EndNear, host, calls, routing
  <2>3. Aimed(t)' => Aimed(t)
    BY <1>10, <2>1 DEF Aimed, host, calls
  <2> QED
    BY <1>2, <1>10, <2>1, <2>2, <2>3, OrderKept DEF host, calls, peer
<1> QED
  BY <1>3, <1>4, <1>5, <1>6, <1>7, <1>8, <1>9, <1>10 DEF Next, Finished

\* As long as every caller leaves its turn by a terminal frame, however late and
\* whatever it cancelled before, no Execute finds another turn under way on the
\* guest: exec's timeout and stop() keep the turn lock until the guest is through,
\* and a Cancel that arrives late never makes a caller think so too soon
\* (provider.rs exec, stop, cancel_active, TurnGuard).
THEOREM NobodyRefused == Spec => InnocentNeverRefused
<1> DEFINE I == Types /\ TurnInv /\ LoyalInv
           A == \A t \in Turn : PeerRefuses(t) /\ cur # None =>
                  \E u \in Turn : outcome[u] = "early"
<1>1. Init => I
  BY TypesInit, TurnInvInit, LoyalInit
<1>2. I /\ [Next]_vars => I'
  BY TypesNext, TurnInvNext, LoyalNext
<1>3. I => A
  <2> SUFFICES ASSUME I, NEW t \in Turn, PeerRefuses(t), cur # None, NobodyEarly PROVE FALSE
    BY DEF NobodyEarly
  <2>1. PICK u \in Turn : u = cur
    BY DEF Types
  <2>2. InOrder(t) /\ InOrder(u)
    BY DEF LoyalInv
  <2>3. Has(up, Ask(t)) /\ cur # t
    BY <2>2, AskTaken DEF PeerRefuses
  <2>4. at[t] \in Guarded /\ at[u] \in Guarded
    BY <2>1, <2>2, <2>3 DEF InOrder, Awaits, Guarded
  <2> QED
    BY <2>1, <2>3, <2>4 DEF TurnInv, TurnOwned
<1>4. I /\ [Next]_vars => [A]_vars
  BY <1>3
<1> HIDE DEF I
<1> QED
  BY <1>1, <1>2, <1>4, PTL DEF Spec, InnocentNeverRefused

-----------------------------------------------------------------------------
(* The framed client *)

\* What keeps garbage from being read: unless a future was dropped, a read position
\* inside a frame comes with a poisoned session that sends, and so awaits, no more.
Resynced ==
  /\ "garbage" \notin odd
  /\ midframe => poisoned /\ hat \in {"free", "down", "dial", "relay"}

FramedInv ==
  /\ hmode \in {"shared", "oneshot"}
  /\ hops \in Nat /\ hseq \in Nat /\ hop \in [kind : Kinds1 \cup {"none"}, id : Nat, seq : Nat]
  /\ hat = "wait" => hop.kind \in Kinds1 /\ (hmode = "oneshot" => hop.kind # "shutdown")
  /\ OwnAnswer
  /\ hmode = "shared" => "dropped" \in odd \/ Resynced

\* No step of the client or the guest makes a shared session read inside a frame.
LEMMA FramedStep == FramedInv /\ [HvNext]_hvars => FramedInv'
<1> SUFFICES ASSUME FramedInv, [HvNext]_hvars PROVE FramedInv'
  OBVIOUS
<1> USE DEF FramedInv, OwnAnswer, Resynced, NoOp, Kinds1
<1>1. CASE Validate
  BY <1>1 DEF Validate
<1>2. CASE Dial
  BY <1>2 DEF Dial
<1>3. CASE Relay
  BY <1>3 DEF Relay
<1>4. CASE Negotiate
  BY <1>4 DEF Negotiate, Hang, Write, Reading
<1>5. CASE Greet
  BY <1>5 DEF Greet, Hang
<1>6. ASSUME NEW k \in Kinds1, Begin(k) PROVE FramedInv'
  BY <1>6 DEF Begin
<1>7. ASSUME NEW k \in Kinds1, BeginOneShot(k) PROVE FramedInv'
  BY <1>7 DEF BeginOneShot
<1>8. CASE Receive
  <2> DEFINE f == Head(toHost)
             t == IF hmode = "shared" THEN TakesFrame(f)
                  ELSE CASE hop.kind = "turn" -> TurnOnce(f)
                         [] hop.kind = "read" -> ReadOnce(f)
                         [] hop.kind = "write" -> WriteOnce(f)
  <2>1. hop.kind \in Kinds1 /\ (hmode = "oneshot" => hop.kind # "shutdown")
    BY <1>8 DEF Receive
  <2>2. t = "ok" => hop.kind = "shutdown" \/ f.id = hop.id
    BY <2>1 DEF TakesFrame, TurnTakes, ReadTakes, WriteTakes, TurnOnce, ReadOnce, WriteOnce
  <2>3. OwnAnswer'
    BY <1>8, <2>2 DEF Receive
  <2>4. odd \subseteq odd' /\ odd' \subseteq odd \cup {"answer"}
    BY <1>8 DEF Receive
  <2>5. /\ hat' \in {hat, "free", "finish"} /\ (hat' = "wait" => hop' = hop)
        /\ hop' \in {hop, NoOp} /\ hat = "wait"
        /\ UNCHANGED <<hmode, midframe, poisoned, hops, hseq>>
    BY <1>8 DEF Receive, EndOp
  <2> QED
    BY <2>3, <2>4, <2>5
<1>9. CASE Finish
  BY <1>9 DEF Finish, Hang
<1>10. CASE ReadFails
  BY <1>10 DEF ReadFails, EndOp, Hang
<1>11. CASE Deadline
  BY <1>11 DEF Deadline, EndOp
<1>12. CASE RecvTimesOut
  <2>1. /\ poisoned' = (hmode = "shared") /\ hmode' = hmode /\ odd' = odd
        /\ UNCHANGED <<hops, hseq>>
    BY <1>12 DEF RecvTimesOut, Poisons
  <2>2. hop' \in {hop, NoOp} /\ hat' = IF hmode = "shared" THEN "free" ELSE "finish"
    BY <1>12 DEF RecvTimesOut, EndOp
  <2>3. CASE hmode = "shared"
    <3>1. poisoned' /\ hat' = "free"
      BY <2>1, <2>2, <2>3
    <3> QED
      BY <2>1, <2>2, <2>3, <3>1
  <2>4. CASE hmode = "oneshot"
    BY <2>1, <2>2, <2>4
  <2> QED
    BY <2>3, <2>4
<1>13. ASSUME NEW b \in BOOLEAN, WriteCut(b) PROVE FramedInv'
  BY <1>13 DEF WriteCut, Poisons
<1>14. CASE DropFuture
  BY <1>14 DEF DropFuture, Hang
<1>15. CASE DropSession
  BY <1>15 DEF DropSession, Hang
<1>16. CASE GuestServes
  BY <1>16 DEF GuestServes
<1>17. CASE RelayReplaced
  BY <1>17 DEF RelayReplaced
<1>18. ASSUME NEW r \in {"completed", "failed", "cancelled"}, GuestTurnEnds(r) PROVE FramedInv'
  BY <1>18 DEF GuestTurnEnds
<1>19. CASE UNCHANGED hvars
  BY <1>19 DEF hvars
<1> QED
  BY <1>1, <1>2, <1>3, <1>4, <1>5, <1>6, <1>7, <1>8, <1>9, <1>10, <1>11, <1>12, <1>13, <1>14,
     <1>15, <1>16, <1>17, <1>18, <1>19 DEF HvNext

\* Every operation of the framed client that succeeds has the answer to that very
\* operation, and a shared session reads nothing from the middle of a frame unless a
\* future was dropped, for every number of operations and losses (host_vsock.rs).
THEOREM FramedAnswers == HvSpec => []FramedClientTrue
<1>1. HvInit => FramedInv
  BY DEF HvInit, FramedInv, OwnAnswer, Resynced, NoOp
<1>2. FramedInv => FramedClientTrue
  BY DEF FramedInv, Resynced, FramedClientTrue, OwnAnswer, NoGarbageRead
<1> QED
  BY <1>1, <1>2, FramedStep, PTL DEF HvSpec

=============================================================================
