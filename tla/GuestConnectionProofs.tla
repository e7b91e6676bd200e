------------------------- MODULE GuestConnectionProofs -------------------------
(****************************************************************************)
(* Proofs about the framed connections and the runtime service they share,  *)
(* for every number of connections, sessions and requests and every size of *)
(* the result caches.                                                       *)
(****************************************************************************)
EXTENDS GuestConnection, FiniteSetTheorems, SequenceTheorems, TLAPS

\* The service struct as a record; ServiceType only speaks of its fields.
Service ==
  [ready : BOOLEAN, completed : Seq(Entry), evicted : Seq(Key),
   active : [Session -> Request \cup {NoReq}], cancelled : Seq(Entry),
   evictedCancelled : Seq(Key), shutdown : BOOLEAN, home : BOOLEAN, armed : BOOLEAN,
   flag : BOOLEAN]

\* One result cache with its tombstones, and the window of keys it is compared with:
\* the window is the tombstones followed by the keys of the cached results, so the two
\* remember exactly the last 2 x LIMIT recordings, in their order.
Window(win, tombs, cache, limit) ==
  /\ win \in Seq(Key) /\ tombs \in Seq(Key) /\ cache \in Seq(Entry)
  /\ Len(tombs) <= limit /\ Len(cache) <= limit
  /\ tombs # << >> => Len(cache) = limit
  /\ Len(win) = Len(tombs) + Len(cache)
  /\ \A i \in 1..Len(tombs) : win[i] = tombs[i]
  /\ \A i \in 1..Len(cache) : win[Len(tombs) + i] = cache[i].key

\* t is the sequence s with x after it, or s with its first element gone and x after it.
Grew(s, t, x) ==
  /\ Len(t) = Len(s) + 1 /\ t[Len(s) + 1] = x
  /\ \A i \in 1..Len(s) : t[i] = s[i]
Slid(s, t, x) ==
  /\ Len(t) = Len(s) /\ t[Len(s)] = x
  /\ \A i \in 1..Len(s) : i # Len(s) => t[i] = s[i + 1]

-----------------------------------------------------------------------------
(* The bounded caches *)

\* What the window lists, the cache or its tombstones have.
LEMMA WindowListed ==
  ASSUME NEW win, NEW tombs, NEW cache, NEW limit \in Nat \ {0}, NEW k,
         Window(win, tombs, cache, limit), Listed(win, k)
  PROVE  Listed(tombs, k) \/ Cached(cache, k)
<1>1. PICK i \in DOMAIN win : win[i] = k
  BY DEF Listed
<1>2. i \in 1..(Len(tombs) + Len(cache))
  BY DEF Window
<1>3. CASE i <= Len(tombs)
  <2>1. i \in DOMAIN tombs /\ tombs[i] = k
    BY <1>1, <1>2, <1>3 DEF Window
  <2> QED
    BY <2>1 DEF Listed
<1>4. CASE i > Len(tombs)
  <2>1. i - Len(tombs) \in 1..Len(cache) /\ win[Len(tombs) + (i - Len(tombs))] = k
    BY <1>1, <1>2, <1>4 DEF Window
  <2>2. i - Len(tombs) \in DOMAIN cache /\ cache[i - Len(tombs)].key = k
    BY <2>1 DEF Window
  <2> QED
    BY <2>2 DEF Cached
<1> QED
  BY <1>2, <1>3, <1>4 DEF Window

\* A result under a key that is cached replaces the old one in its place.
LEMMA PutReplaces ==
  ASSUME NEW cache \in Seq(Entry), NEW k \in Key, NEW r \in Answers, Cached(cache, k)
  PROVE  /\ Put(cache, k, r) \in Seq(Entry) /\ Len(Put(cache, k, r)) = Len(cache)
         /\ \A i \in 1..Len(cache) : Put(cache, k, r)[i].key = cache[i].key
<1> DEFINE c == Put(cache, k, r)
<1>1. c = [i \in 1..Len(cache) |->
             IF cache[i].key = k THEN [key |-> k, resp |-> r] ELSE cache[i]]
  BY DEF Put
<1>2. \A i \in 1..Len(cache) : cache[i] \in Entry
  OBVIOUS
<1>3. \A i \in 1..Len(cache) : c[i] \in Entry
  BY <1>1, <1>2 DEF Entry
<1>4. c \in Seq(Entry) /\ Len(c) = Len(cache)
  BY <1>1, <1>3
<1>5. \A i \in 1..Len(cache) : c[i].key = cache[i].key
  BY <1>1
<1> QED
  BY <1>4, <1>5

\* Appending, and appending with the first element dropped.
LEMMA AppendGrows ==
  ASSUME NEW S, NEW s \in Seq(S), NEW x \in S
  PROVE  /\ Append(s, x) \in Seq(S) /\ Append(s, x) # << >> /\ Grew(s, Append(s, x), x)
BY AppendProperties DEF Grew

LEMMA TailSlides ==
  ASSUME NEW S, NEW s \in Seq(S), NEW x \in S, NEW n \in Nat \ {0}, Len(s) = n
  PROVE  Tail(Append(s, x)) \in Seq(S) /\ Slid(s, Tail(Append(s, x)), x)
<1> DEFINE a == Append(s, x)
<1>1. a \in Seq(S) /\ a # << >> /\ Len(a) = n + 1 /\ a[n + 1] = x /\ \A i \in 1..n : a[i] = s[i]
  BY AppendGrows DEF Grew
<1> HIDE DEF a
<1>2. /\ Tail(a) \in Seq(S) /\ Len(Tail(a)) = n
      /\ \A i \in 1..n : Tail(a)[i] = a[i + 1]
  BY <1>1, HeadTailProperties
<1>3. \A i \in 1..n : i # n => Tail(a)[i] = s[i + 1]
  BY <1>1, <1>2
<1> QED
  BY <1>1, <1>2, <1>3 DEF Slid, a

\* The oldest result goes out of a full cache and becomes the newest tombstone.
LEMMA EvictingFields ==
  ASSUME NEW limit \in Nat \ {0}, NEW cache \in Seq(Entry), NEW tombs \in Seq(Key),
         NEW e \in Entry, Len(cache) = limit, Len(tombs) <= limit
  PROVE  /\ Evicting(Append(cache, e), limit) \in Seq(Entry)
         /\ Slid(cache, Evicting(Append(cache, e), limit), e)
         /\ Tombstones(Append(cache, e), tombs, limit) \in Seq(Key)
         /\ Len(tombs) < limit =>
              Grew(tombs, Tombstones(Append(cache, e), tombs, limit), cache[1].key)
         /\ Len(tombs) = limit =>
              Slid(tombs, Tombstones(Append(cache, e), tombs, limit), cache[1].key)
<1> DEFINE c == Append(cache, e)
           t == Append(tombs, cache[1].key)
<1>1. c \in Seq(Entry) /\ Len(c) = limit + 1 /\ c[1] = cache[1]
  BY AppendGrows DEF Grew
<1>2. cache[1].key \in Key
  <2>1. 1 \in 1..limit /\ cache[1] \in Entry
    OBVIOUS
  <2> QED
    BY <2>1 DEF Entry
<1>3. t \in Seq(Key) /\ Len(t) = Len(tombs) + 1 /\ Grew(tombs, t, cache[1].key)
  BY <1>2, AppendGrows DEF Grew
<1>4. Evicting(c, limit) = Tail(c)
  BY <1>1 DEF Evicting
<1>5. Tombstones(c, tombs, limit) = IF Len(t) > limit THEN Tail(t) ELSE t
  BY <1>1 DEF Tombstones
<1>6. Tail(c) \in Seq(Entry) /\ Slid(cache, Tail(c), e)
  BY TailSlides
<1>7. Len(tombs) = limit => Tail(t) \in Seq(Key) /\ Slid(tombs, Tail(t), cache[1].key)
  BY <1>2, TailSlides
<1> HIDE DEF c, t
<1>8. CASE Len(tombs) < limit
  <2>1. Tombstones(c, tombs, limit) = t
    BY <1>3, <1>5, <1>8
  <2> QED
    BY <1>3, <1>4, <1>6, <1>8, <2>1 DEF c
<1>9. CASE Len(tombs) = limit
  <2>1. Tombstones(c, tombs, limit) = Tail(t)
    BY <1>3, <1>5, <1>9
  <2> QED
    BY <1>4, <1>6, <1>7, <1>9, <2>1 DEF c
<1> QED
  BY <1>8, <1>9

\* Recording a new key when the cache is full: the window drops its oldest key when it
\* is full too.
LEMMA WindowShifts ==
  ASSUME NEW limit \in Nat \ {0}, NEW win, NEW tombs, NEW cache,
         NEW e \in Entry, NEW w \in Seq(Key), NEW c2 \in Seq(Entry), NEW t2 \in Seq(Key),
         Window(win, tombs, cache, limit), Len(cache) = limit,
         Grew(win, w, e.key), Slid(cache, c2, e),
         Len(tombs) < limit => Grew(tombs, t2, cache[1].key),
         Len(tombs) = limit => Slid(tombs, t2, cache[1].key)
  PROVE  Window(LastN(w, 2 * limit), t2, c2, limit)
<1>1. /\ win \in Seq(Key) /\ tombs \in Seq(Key) /\ cache \in Seq(Entry)
      /\ Len(tombs) \in 0..limit /\ Len(win) = Len(tombs) + limit
      /\ \A i \in 1..Len(tombs) : win[i] = tombs[i]
      /\ \A i \in 1..limit : win[Len(tombs) + i] = cache[i].key
  BY DEF Window
<1>0. PICK n \in 0..limit : n = Len(tombs)
  BY <1>1
<1>2. Len(w) = n + limit + 1 /\ w[n + limit + 1] = e.key
  BY <1>0, <1>1 DEF Grew
<1>3. \A i \in 1..n : w[i] = tombs[i]
  BY <1>0, <1>1 DEF Grew
<1>4. \A i \in 1..limit : w[n + i] = cache[i].key
  <2> SUFFICES ASSUME NEW i \in 1..limit PROVE w[n + i] = cache[i].key
    OBVIOUS
  <2>1. n + i \in 1..Len(win)
    BY <1>0, <1>1
  <2>2. win[n + i] = cache[i].key
    BY <1>0, <1>1
  <2> QED
    BY <2>1, <2>2 DEF Grew
<1>a. /\ Len(c2) = limit /\ c2[limit] = e
      /\ \A i \in 1..limit : i # limit => c2[i] = cache[i + 1]
  BY DEF Slid
<1>5. \A i \in 1..limit : w[n + 1 + i] = c2[i].key
  <2> SUFFICES ASSUME NEW i \in 1..limit PROVE w[n + 1 + i] = c2[i].key
    OBVIOUS
  <2>1. CASE i = limit
    BY <1>2, <1>a, <2>1
  <2>2. CASE i # limit
    <3>1. i + 1 \in 1..limit /\ n + (i + 1) = n + 1 + i
      BY <2>2
    <3>2. w[n + (i + 1)] = cache[i + 1].key
      BY <1>4, <3>1
    <3> QED
      BY <1>a, <2>2, <3>1, <3>2
  <2> QED
    BY <2>1, <2>2
<1>6. w[n + 1] = cache[1].key
  BY <1>4
<1>7. CASE n < limit
  <2>1. LastN(w, 2 * limit) = w
    BY <1>2, <1>7 DEF LastN
  <2>2. Len(t2) = n + 1 /\ t2[n + 1] = cache[1].key /\ \A i \in 1..n : t2[i] = tombs[i]
    BY <1>0, <1>7 DEF Grew
  <2>3. \A i \in 1..(n + 1) : w[i] = t2[i]
    <3> SUFFICES ASSUME NEW i \in 1..(n + 1) PROVE w[i] = t2[i]
      OBVIOUS
    <3>1. i \in 1..n \/ i = n + 1
      OBVIOUS
    <3> QED
      BY <1>3, <1>6, <2>2, <3>1
  <2>4. \A i \in 1..limit : w[Len(t2) + i] = c2[i].key
    BY <1>5, <2>2
  <2>5. Len(w) = Len(t2) + Len(c2) /\ Len(t2) <= limit /\ Len(c2) = limit
    BY <1>2, <1>7, <1>a, <2>2
  <2>6. \A i \in 1..Len(t2) : w[i] = t2[i]
    BY <2>2, <2>3
  <2> QED
    BY <2>1, <2>4, <2>5, <2>6 DEF Window
<1>8. CASE n = limit
  <2> DEFINE v == SubSeq(w, 2, 2 * limit + 1)
  <2>1. LastN(w, 2 * limit) = v
    <3>1. Len(w) > 2 * limit /\ Len(w) - 2 * limit + 1 = 2 /\ Len(w) = 2 * limit + 1
      BY <1>2, <1>8
    <3> QED
      BY <3>1 DEF LastN
  <2>2. /\ v \in Seq(Key) /\ Len(v) = 2 * limit
        /\ \A i \in 1..(2 * limit) : v[i] = w[i + 1]
    <3>1. \A i \in 2..(2 * limit + 1) : w[i] \in Key
      BY <1>2, <1>8
    <3> QED
      BY <3>1, SubSeqProperties
  <2> HIDE DEF v
  <2>3. /\ Len(t2) = limit /\ t2[limit] = cache[1].key
        /\ \A i \in 1..limit : i # limit => t2[i] = tombs[i + 1]
    BY <1>0, <1>8 DEF Slid
  <2>4. \A i \in 1..limit : v[i] = t2[i]
    <3>2. \A i \in 1..limit : v[i] = w[i + 1]
      <4> SUFFICES ASSUME NEW i \in 1..limit PROVE v[i] = w[i + 1]
        OBVIOUS
      <4>1. i \in 1..(2 * limit)
        OBVIOUS
      <4> QED
        BY <2>2, <4>1
    <3> SUFFICES ASSUME NEW i \in 1..limit PROVE w[i + 1] = t2[i]
      BY <3>2
    <3>1. i = limit \/ i + 1 \in 1..n
      BY <1>8
    <3> QED
      BY <1>3, <1>6, <1>8, <2>3, <3>1
  <2>5. \A i \in 1..limit : v[limit + i] = c2[i].key
    <3> SUFFICES ASSUME NEW i \in 1..limit PROVE v[limit + i] = c2[i].key
      OBVIOUS
    <3>1. limit + i \in 1..(2 * limit) /\ (limit + i) + 1 = n + 1 + i
      BY <1>8
    <3>2. v[limit + i] = w[n + 1 + i]
      BY <2>2, <3>1
    <3> QED
      BY <1>5, <3>2
  <2>6. Len(v) = Len(t2) + Len(c2) /\ Len(t2) <= limit /\ Len(c2) = limit
    BY <1>a, <2>2, <2>3
  <2> QED
    BY <2>1, <2>2, <2>3, <2>4, <2>5, <2>6 DEF Window
<1> QED
  BY <1>7, <1>8

\* Recording a key moves the window on with the cache and its tombstones.
LEMMA WindowRecords ==
  ASSUME NEW limit \in Nat \ {0}, NEW win, NEW tombs, NEW cache, NEW k \in Key, NEW r \in Answers,
         NEW c, c = Put(cache, k, r), Window(win, tombs, cache, limit)
  PROVE  Window(Remember(win, k, cache, Evicting(c, limit), 2 * limit),
                Tombstones(c, tombs, limit), Evicting(c, limit), limit)
<1> DEFINE e == [key |-> k, resp |-> r]
<1>0. /\ win \in Seq(Key) /\ tombs \in Seq(Key) /\ cache \in Seq(Entry)
      /\ Len(tombs) <= limit /\ Len(cache) <= limit /\ Len(win) = Len(tombs) + Len(cache)
      /\ \A i \in 1..Len(tombs) : win[i] = tombs[i]
      /\ \A i \in 1..Len(cache) : win[Len(tombs) + i] = cache[i].key
  BY DEF Window
<1>1. CASE Cached(cache, k)
  <2>1. /\ c \in Seq(Entry) /\ Len(c) = Len(cache)
        /\ \A i \in 1..Len(cache) : c[i].key = cache[i].key
    BY <1>0, <1>1, PutReplaces
  <2>2. Evicting(c, limit) = c /\ Tombstones(c, tombs, limit) = tombs
    BY <1>0, <2>1 DEF Evicting, Tombstones
  <2>3. Remember(win, k, cache, c, 2 * limit) = win
    BY <1>1 DEF Remember
  <2> QED
    BY <2>1, <2>2, <2>3 DEF Window
<1>2. CASE ~Cached(cache, k)
  <2>1. c = Append(cache, e) /\ e \in Entry /\ e.key = k
    BY <1>2 DEF Put, Entry
  <2> HIDE DEF e
  <2> DEFINE w == Append(win, k)
  <2>2. w \in Seq(Key) /\ Grew(win, w, k)
    BY <1>0, AppendGrows
  <2>3. CASE Len(cache) < limit
    <3>1. /\ c \in Seq(Entry) /\ Len(c) = Len(cache) + 1
          /\ c[Len(cache) + 1] = e /\ \A i \in 1..Len(cache) : c[i] = cache[i]
      BY <1>0, <2>1, AppendGrows DEF Grew
    <3>2. Evicting(c, limit) = c /\ Tombstones(c, tombs, limit) = tombs
      BY <1>0, <2>3, <3>1 DEF Evicting, Tombstones
    <3>3. Cached(c, k)
      BY <1>0, <2>1, <3>1 DEF Cached
    <3>4. tombs = << >> /\ Len(tombs) = 0
      BY <1>0, <2>3 DEF Window
    <3>5. Remember(win, k, cache, c, 2 * limit) = w
      BY <1>0, <1>2, <2>2, <2>3, <3>3, <3>4 DEF Remember, LastN, Grew
    <3> HIDE DEF w
    <3>6. \A i \in 1..Len(c) : w[Len(tombs) + i] = c[i].key
      <4> SUFFICES ASSUME NEW i \in 1..(Len(cache) + 1) PROVE w[i] = c[i].key
        BY <1>0, <3>1, <3>4
      <4>1. i \in 1..Len(cache) \/ i = Len(cache) + 1
        BY <1>0
      <4>2. Len(win) = Len(cache) /\ \A j \in 1..Len(cache) : win[j] = cache[j].key
        BY <1>0, <3>4
      <4> QED
        BY <2>1, <2>2, <3>1, <4>1, <4>2 DEF Grew
    <3> QED
      BY <1>0, <2>2, <2>3, <3>1, <3>2, <3>4, <3>5, <3>6 DEF Window, Grew
  <2>4. CASE Len(cache) = limit
    <3> DEFINE c2 == Evicting(c, limit)
               t2 == Tombstones(c, tombs, limit)
    <3>0. /\ c2 \in Seq(Entry) /\ Slid(cache, c2, e) /\ t2 \in Seq(Key)
          /\ Len(tombs) < limit => Grew(tombs, t2, cache[1].key)
          /\ Len(tombs) = limit => Slid(tombs, t2, cache[1].key)
      BY <1>0, <2>1, <2>4, EvictingFields
    <3> HIDE DEF c2, t2, w
    <3>b. Cached(c2, k)
      BY <2>1, <2>4, <3>0 DEF Cached, Slid
    <3>c. Window(LastN(w, 2 * limit), t2, c2, limit)
      BY <2>1, <2>2, <2>4, <3>0, WindowShifts
    <3>1. Cached(c2, k) /\ Window(LastN(w, 2 * limit), t2, c2, limit)
      BY <3>b, <3>c
    <3>2. Remember(win, k, cache, c2, 2 * limit) = LastN(w, 2 * limit)
      BY <1>2, <3>1 DEF Remember, w
    <3> QED
      BY <3>1, <3>2 DEF c2, t2
  <2> QED
    BY <1>0, <2>3, <2>4
<1> QED
  BY <1>1, <1>2

-----------------------------------------------------------------------------
(* The methods of the service *)

\* The bounded bookkeeping of the service: each cache with its tombstones is what some
\* window lists.
Books(s) ==
  /\ s \in Service
  /\ \E win : Window(win, s.evicted, s.completed, CompletedLimit)
  /\ \E win : Window(win, s.evictedCancelled, s.cancelled, CancelledLimit)

\* The service remembers the windows d of completed and c of cancelled requests.
Remembers(s, d, c) ==
  /\ Window(d, s.evicted, s.completed, CompletedLimit)
  /\ Window(c, s.evictedCancelled, s.cancelled, CancelledLimit)

\* The fields that are not bookkeeping of results.
SameControl(s, t) ==
  /\ t.ready = s.ready /\ t.active = s.active /\ t.shutdown = s.shutdown
  /\ t.home = s.home /\ t.armed = s.armed /\ t.flag = s.flag

\* A window is a sequence of keys whatever is remembered, and stands when nothing is.
LEMMA RememberKeys ==
  ASSUME NEW win \in Seq(Key), NEW k \in Key, NEW before, NEW after, NEW n \in Nat
  PROVE  /\ Remember(win, k, before, after, n) \in Seq(Key)
         /\ before = after => Remember(win, k, before, after, n) = win
<1> DEFINE w == Append(win, k)
<1>1. w \in Seq(Key)
  BY AppendGrows
<1>2. LastN(w, n) \in Seq(Key)
  <2> HIDE DEF w
  <2>1. CASE Len(w) > n
    <3>1. \A i \in (Len(w) - n + 1)..Len(w) : w[i] \in Key
      BY <1>1, <2>1
    <3>2. Len(w) - n + 1 \in Nat /\ Len(w) \in Nat
      BY <1>1, <2>1
    <3> QED
      BY <1>1, <2>1, <3>1, <3>2, SubSeqProperties DEF LastN
  <2>2. CASE ~(Len(w) > n)
    BY <1>1, <2>2 DEF LastN
  <2> QED
    BY <2>1, <2>2
<1> QED
  BY <1>2 DEF Remember

LEMMA RecordCompletedFields ==
  ASSUME NEW s, Books(s), NEW k \in Key, NEW r \in Answers,
         NEW t, t = RecordCompleted(s, k, r)
  PROVE  /\ Books(t) /\ SameControl(s, t) /\ t.cancelled = s.cancelled
         /\ \A d, c : Remembers(s, d, c) => Remembers(t, RememberDone(d, k, s, t), c)
<1> DEFINE p == Put(s.completed, k, r)
<1>1. s \in Service /\ CompletedLimit \in Nat \ {0}
  BY LimitAssumption DEF Books
<1>2. t = [s EXCEPT !.completed = Evicting(p, CompletedLimit),
                    !.evicted = Tombstones(p, s.evicted, CompletedLimit)]
  BY <1>1 DEF RecordCompleted, Service
<1>3. /\ t.completed = Evicting(p, CompletedLimit)
      /\ t.evicted = Tombstones(p, s.evicted, CompletedLimit)
      /\ t.cancelled = s.cancelled /\ t.evictedCancelled = s.evictedCancelled
      /\ SameControl(s, t)
  BY <1>1, <1>2 DEF Service, SameControl
<1> HIDE DEF p
<1>4. \A win : Window(win, s.evicted, s.completed, CompletedLimit)
                 => Window(RememberDone(win, k, s, t), t.evicted, t.completed, CompletedLimit)
  BY <1>1, <1>3, WindowRecords DEF RememberDone, p
<1>5. t.completed \in Seq(Entry) /\ t.evicted \in Seq(Key)
  BY <1>4 DEF Books, Window
<1>6. t \in Service
  BY <1>1, <1>2, <1>3, <1>5 DEF Service
<1>7. Books(t)
  BY <1>3, <1>4, <1>6 DEF Books
<1> QED
  BY <1>3, <1>4, <1>7 DEF Remembers

LEMMA RecordCancelledFields ==
  ASSUME NEW s, Books(s), NEW k \in Key, NEW r \in Answers,
         NEW t, t = RecordCancelled(s, k, r)
  PROVE  /\ Books(t) /\ SameControl(s, t) /\ t.completed = s.completed
         /\ \A d, c : Remembers(s, d, c) => Remembers(t, d, RememberCancelled(c, k, s, t))
<1> DEFINE p == Put(s.cancelled, k, r)
<1>1. s \in Service /\ CancelledLimit \in Nat \ {0}
  BY LimitAssumption DEF Books
<1>2. t = [s EXCEPT !.cancelled = Evicting(p, CancelledLimit),
                    !.evictedCancelled = Tombstones(p, s.evictedCancelled, CancelledLimit)]
  BY <1>1 DEF RecordCancelled, Service
<1>3. /\ t.cancelled = Evicting(p, CancelledLimit)
      /\ t.evictedCancelled = Tombstones(p, s.evictedCancelled, CancelledLimit)
      /\ t.completed = s.completed /\ t.evicted = s.evicted
      /\ SameControl(s, t)
  BY <1>1, <1>2 DEF Service, SameControl
<1> HIDE DEF p
<1>4. \A win : Window(win, s.evictedCancelled, s.cancelled, CancelledLimit)
                 => Window(RememberCancelled(win, k, s, t), t.evictedCancelled, t.cancelled,
                           CancelledLimit)
  BY <1>1, <1>3, WindowRecords DEF RememberCancelled, p
<1>5. t.cancelled \in Seq(Entry) /\ t.evictedCancelled \in Seq(Key)
  BY <1>4 DEF Books, Window
<1>6. t \in Service
  BY <1>1, <1>2, <1>3, <1>5 DEF Service
<1>7. Books(t)
  BY <1>3, <1>4, <1>6 DEF Books
<1> QED
  BY <1>3, <1>4, <1>7 DEF Remembers

\* The fields that are bookkeeping of results.
SameBooks(s, t) ==
  /\ t.completed = s.completed /\ t.evicted = s.evicted
  /\ t.cancelled = s.cancelled /\ t.evictedCancelled = s.evictedCancelled

LEMMA BooksStand ==
  ASSUME NEW s, NEW t \in Service, Books(s), SameBooks(s, t)
  PROVE  Books(t) /\ \A d, c : Remembers(s, d, c) => Remembers(t, d, c)
BY DEF Books, Remembers, SameBooks

\* handle(Hello)
LEMMA HelloFields ==
  ASSUME NEW s, Books(s), NEW v, NEW t, t = HandleHello(s, v).svc
  PROVE  /\ Books(t) /\ \A d, c : Remembers(s, d, c) => Remembers(t, d, c)
         /\ t.active = s.active /\ t.shutdown = s.shutdown /\ t.home = s.home
         /\ t.armed = s.armed /\ t.flag = s.flag
<1>1. t = s \/ t = [s EXCEPT !.ready = TRUE]
  BY DEF HandleHello, Refuse, Reply
<1>2. /\ t \in Service /\ SameBooks(s, t)
      /\ t.active = s.active /\ t.shutdown = s.shutdown /\ t.home = s.home
      /\ t.armed = s.armed /\ t.flag = s.flag
  BY <1>1 DEF Books, Service, SameBooks
<1> QED
  BY <1>2, BooksStand

\* The active sessions once the session of key k is on request r.
Occupied(active, k, r) == [active EXCEPT ![k[1]] = r]

\* spawn_turn(): what it claims for and what the claim changes.
LEMMA SpawnFields ==
  ASSUME NEW s, Books(s), NEW k \in Key, NEW t, t = SpawnTurn(s, k).svc
  PROVE  /\ SpawnTurn(s, k).ans # "claimed" => t = s
         /\ SpawnTurn(s, k).ans = "claimed" =>
              /\ ~s.shutdown /\ ~Settled(s, k) /\ s.home
              /\ Books(t) /\ \A d, c : Remembers(s, d, c) => Remembers(t, d, c)
              /\ t.active = Occupied(s.active, k, k[2]) /\ t.shutdown = s.shutdown
              /\ ~t.home /\ t.armed /\ ~t.flag
<1>1. k[1] \in Session /\ k[2] \in Request
  BY DEF Key
<1>2. s \in Service
  BY DEF Books
<1>3. CASE SpawnTurn(s, k) = Refuse(s)
  BY <1>3 DEF Refuse, Reply
<1>4. CASE /\ SpawnTurn(s, k) = Claimed(s, k)
           /\ ~s.shutdown /\ ~Settled(s, k) /\ s.home
  <2> DEFINE act == Occupied(s.active, k, k[2])
  <2>0. act \in [Session -> Request \cup {NoReq}]
    BY <1>1, <1>2 DEF Service, Occupied
  <2>1. t = [s EXCEPT !.home = FALSE, !.armed = TRUE, !.flag = FALSE, !.active = act]
    BY <1>2, <1>4 DEF Claimed, Reply, Service, Occupied
  <2> HIDE DEF act
  <2>2. /\ t \in Service /\ SameBooks(s, t)
        /\ t.active = act /\ t.shutdown = s.shutdown
        /\ ~t.home /\ t.armed /\ ~t.flag
    BY <1>2, <2>0, <2>1 DEF Service, SameBooks
  <2> QED
    BY <1>4, <2>2, BooksStand DEF Claimed, Reply, act
<1> QED
  BY <1>3, <1>4 DEF SpawnTurn

\* handle(Cancel) from a connection: the executor's own cancel() refuses, so the control
\* state only ever gains the cancel flag.
AskedToStop(s) == [s EXCEPT !.flag = s.armed \/ s.flag]

LEMMA CancelCases ==
  ASSUME NEW s \in Service, NEW k \in Key
  PROVE  \/ HandleCancelFrame(s, k, FALSE).svc = s
         \/ HandleCancelFrame(s, k, FALSE).svc = RecordCancelled(AskedToStop(s), k, "empty")
BY DEF HandleCancelFrame, HandleCancel, CancelActive, Refuse, Reply, Service, AskedToStop

LEMMA CancelFields ==
  ASSUME NEW s, Books(s), NEW k \in Key, NEW t,
         t = s \/ t = RecordCancelled(AskedToStop(s), k, "empty")
  PROVE  /\ Books(t)
         /\ \A d, c : Remembers(s, d, c) => Remembers(t, d, RememberCancelled(c, k, s, t))
         /\ t.active = s.active /\ t.shutdown = s.shutdown /\ t.home = s.home
         /\ t.armed = s.armed /\ (s.flag => t.flag)
<1>1. s \in Service
  BY DEF Books
<1>3. CASE t = s
  <2>1. \A d, c : Remembers(s, d, c) => RememberCancelled(c, k, s, t) = c
    <3>1. s.cancelled = t.cancelled /\ 2 * CancelledLimit \in Nat
      BY <1>3, LimitAssumption
    <3> QED
      BY <3>1, RememberKeys DEF RememberCancelled, Remembers, Window
  <2> QED
    BY <1>3, <2>1
<1>4. CASE t = RecordCancelled(AskedToStop(s), k, "empty")
  <2> DEFINE u == AskedToStop(s)
  <2>1. /\ u \in Service /\ SameBooks(s, u)
        /\ u.active = s.active /\ u.shutdown = s.shutdown /\ u.home = s.home
        /\ u.armed = s.armed
    BY <1>1 DEF Service, SameBooks, AskedToStop
  <2>2. s.flag => u.flag
    BY <1>1 DEF Service, AskedToStop
  <2>3. Books(u) /\ \A d, c : Remembers(s, d, c) => Remembers(u, d, c)
    BY <2>1, BooksStand
  <2>4. /\ Books(t) /\ SameControl(u, t)
        /\ \A d, c : Remembers(u, d, c) => Remembers(t, d, RememberCancelled(c, k, u, t))
    BY <1>4, <2>3, RecordCancelledFields DEF Answers
  <2>5. \A c : RememberCancelled(c, k, u, t) = RememberCancelled(c, k, s, t)
    BY <2>1 DEF RememberCancelled, SameBooks
  <2> QED
    BY <2>1, <2>2, <2>3, <2>4, <2>5 DEF SameControl
<1> QED
  BY <1>3, <1>4

\* complete_turn(): the executor comes home and the session is free, whatever the result.
LEMMA CompleteFields ==
  ASSUME NEW s, Books(s), NEW k \in Key, NEW res \in Results,
         NEW t, t = CompleteTurn(s, k, res).svc
  PROVE  /\ Books(t)
         /\ \A d, c : Remembers(s, d, c) =>
              Remembers(t, RememberDone(d, k, s, t), RememberCancelled(c, k, s, t))
         /\ t.active = Occupied(s.active, k, NoReq) /\ t.shutdown = s.shutdown
         /\ t.home /\ ~t.armed /\ t.flag = s.flag
<1>1. s \in Service /\ k[1] \in Session
  BY DEF Books, Key
<1> DEFINE was == Cached(s.cancelled, k)
           a == TurnAnswer(res, was)
           u == [s EXCEPT !.home = TRUE, !.armed = FALSE, !.active[k[1]] = NoReq]
<1>2. a \in Terminals \cup {"error"}
  BY DEF TurnAnswer, Results, Terminals
<1>3. a \in Answers
  BY <1>2 DEF Answers
<1>4. t = CASE was -> RecordCancelled(u, k, a)
            [] ~was /\ a \in Terminals -> RecordCompleted(u, k, a)
            [] OTHER -> u
  BY <1>1, <1>2 DEF CompleteTurn, Reply
<1>5. /\ u \in Service /\ SameBooks(s, u)
      /\ u.active = Occupied(s.active, k, NoReq) /\ u.shutdown = s.shutdown
      /\ u.home /\ ~u.armed /\ u.flag = s.flag
  BY <1>1 DEF Service, SameBooks, Occupied
<1> HIDE DEF was, a, u
<1>6. Books(u) /\ \A d, c : Remembers(s, d, c) => Remembers(u, d, c)
  BY <1>5, BooksStand
<1>7. \A d, c : Remembers(s, d, c) =>
        /\ t.completed = s.completed => RememberDone(d, k, s, t) = d
        /\ t.cancelled = s.cancelled => RememberCancelled(c, k, s, t) = c
  BY RememberKeys, LimitAssumption DEF RememberCancelled, RememberDone, Remembers, Window
<1>8. \A d, c : /\ RememberCancelled(c, k, u, t) = RememberCancelled(c, k, s, t)
                /\ RememberDone(d, k, u, t) = RememberDone(d, k, s, t)
  BY <1>5 DEF RememberCancelled, RememberDone, SameBooks
<1>9. CASE was
  <2>1. /\ Books(t) /\ SameControl(u, t) /\ t.completed = u.completed
        /\ \A d, c : Remembers(u, d, c) => Remembers(t, d, RememberCancelled(c, k, u, t))
    BY <1>3, <1>4, <1>6, <1>9, RecordCancelledFields
  <2> QED
    BY <1>5, <1>6, <1>7, <1>8, <2>1 DEF SameControl, SameBooks
<1>10. CASE ~was /\ a \in Terminals
  <2>1. /\ Books(t) /\ SameControl(u, t) /\ t.cancelled = u.cancelled
        /\ \A d, c : Remembers(u, d, c) => Remembers(t, RememberDone(d, k, u, t), c)
    BY <1>3, <1>4, <1>6, <1>10, RecordCompletedFields
  <2> QED
    BY <1>5, <1>6, <1>7, <1>8, <2>1 DEF SameControl, SameBooks
<1>11. CASE ~was /\ a \notin Terminals
  <2>1. t = u
    BY <1>4, <1>11
  <2> QED
    BY <1>5, <1>6, <1>7, <2>1 DEF SameBooks
<1> QED
  BY <1>9, <1>10, <1>11

\* handle(Shutdown): with the executor home it is a fresh service.
LEMMA ShutdownFields ==
  ASSUME NEW s, Books(s), NEW t, t = HandleShutdown(s)
  PROVE  /\ Books(t) /\ t.shutdown /\ t.home = s.home
         /\ t.armed = s.armed /\ (s.armed \/ s.flag => t.flag)
         /\ s.home => \A x \in Session : t.active[x] = NoReq
         /\ ~s.home => t.active = s.active
<1>1. s \in Service
  BY DEF Books
<1>2. CASE s.home
  <2>1. t = [FreshService EXCEPT !.ready = s.ready, !.shutdown = TRUE,
                                 !.armed = s.armed, !.flag = s.armed \/ s.flag]
    BY <1>2 DEF HandleShutdown
  <2>2. /\ t \in Service /\ t.shutdown /\ t.home
        /\ t.armed = s.armed
        /\ t.active = [x \in Session |-> NoReq]
        /\ t.completed = << >> /\ t.evicted = << >>
        /\ t.cancelled = << >> /\ t.evictedCancelled = << >>
    <3>1. PICK f \in BOOLEAN : f = (s.armed \/ s.flag)
      OBVIOUS
    <3>2. /\ << >> \in Seq(Entry) /\ << >> \in Seq(Key)
          /\ [x \in Session |-> NoReq] \in [Session -> Request \cup {NoReq}]
      OBVIOUS
    <3>3. t = [ready |-> s.ready, completed |-> << >>, evicted |-> << >>,
               active |-> [x \in Session |-> NoReq], cancelled |-> << >>,
               evictedCancelled |-> << >>, shutdown |-> TRUE, home |-> TRUE,
               armed |-> s.armed, flag |-> f]
      BY <2>1, <3>1 DEF FreshService
    <3> QED
      BY <1>1, <3>2, <3>3 DEF Service
  <2>5. t.flag = (s.armed \/ s.flag)
    BY <2>1 DEF FreshService
  <2>3. \A n \in Nat : Window(<< >>, << >>, << >>, n)
    BY DEF Window
  <2>4. Books(t)
    BY <2>2, <2>3, LimitAssumption DEF Books
  <2> QED
    BY <1>2, <2>2, <2>4, <2>5
<1>3. CASE ~s.home
  <2>1. t = [s EXCEPT !.shutdown = TRUE, !.flag = s.armed \/ s.flag]
    BY <1>1, <1>3 DEF HandleShutdown, Service
  <2>2. /\ t \in Service /\ SameBooks(s, t) /\ t.active = s.active /\ t.shutdown
        /\ t.home = s.home /\ t.armed = s.armed
    BY <1>1, <2>1 DEF Service, SameBooks
  <2>4. s.armed \/ s.flag => t.flag
    BY <1>1, <2>1 DEF Service
  <2> QED
    BY <1>3, <2>2, <2>4, BooksStand
<1> QED
  BY <1>1, <1>2, <1>3 DEF Service

\* abandon_active_turn()
LEMMA AbandonFields ==
  ASSUME NEW s, Books(s), NEW t, t = AbandonActiveTurn(s)
  PROVE  /\ Books(t) /\ \A d, c : Remembers(s, d, c) => Remembers(t, d, c)
         /\ t.active = [x \in Session |-> NoReq] /\ t.shutdown = s.shutdown
         /\ t.home = s.home /\ ~t.armed /\ t.flag = s.flag
<1>1. /\ t \in Service /\ SameBooks(s, t)
      /\ t.active = [x \in Session |-> NoReq] /\ t.shutdown = s.shutdown
      /\ t.home = s.home /\ ~t.armed /\ t.flag = s.flag
  BY DEF Books, Service, SameBooks, AbandonActiveTurn
<1> QED
  BY <1>1, BooksStand

-----------------------------------------------------------------------------
(* The inductive invariant *)

\* Types of the connections.
ConnTypes ==
  /\ pc \in [Conn -> Locations]
  /\ turn \in [Conn -> Key \cup {NoTurn}]
  /\ worker \in [Conn -> {"none", "running", "sent", "panicked"}]
  /\ result \in [Conn -> Results \cup {"none"}]
  /\ age \in [Conn -> 0..MaxTurn]
  /\ waited \in [Conn -> 0..(TurnWait + SecondWait)]
  /\ lost \in {"no", "panic", "dropped"}

\* What each location of the serve loop and of the detached task says about the worker
\* and its turn.
Located(c) ==
  /\ pc[c] \in {"claim", "settle", "settled", "reap", "reaped"} => worker[c] = "none"
  /\ pc[c] \in {"wait1", "wait2", "lapsed"} => worker[c] # "none"
  /\ pc[c] = "over" => worker[c] # "sent"
  /\ Carries(c) \/ pc[c] = "claim" => turn[c] \in Key
  /\ worker[c] = "sent" \/ pc[c] \in {"settle", "settled"} => result[c] \in Results
Conns == ConnTypes /\ \A c \in Conn : Located(c)

\* The executor is in exactly one place, without counting.
OnePlace ==
  /\ svc.home => lost = "no"
  /\ svc.home \/ lost # "no" => \A c \in Conn : ~Carries(c)
  /\ ~svc.home /\ lost = "no" => \E c \in Conn : Carries(c)
  /\ \A c, d \in Conn : Carries(c) /\ Carries(d) => c = d

\* A session is active only while the executor is out, on the turn of the connection
\* that has it (or had it, when it was lost).
ActiveTurn ==
  \A s \in Session : svc.active[s] # NoReq =>
    /\ ~svc.home
    /\ lost # "no" \/ \E c \in Conn : Carries(c) /\ turn[c] = <<s, svc.active[s]>>

\* The cancel flag of a turn on the books is at hand, and set once the service has shut
\* down.
OnBooks(c) == worker[c] = "running" /\ svc.active[turn[c][1]] = turn[c][2]
Stoppable == \A c \in Conn : OnBooks(c) => svc.armed /\ (svc.shutdown => svc.flag)

\* The bookkeeping is bounded, and until Shutdown clears the caches they and their
\* tombstones are the two windows.
BooksHeld ==
  /\ Books(svc) /\ done \in Seq(Key) /\ called \in Seq(Key)
  /\ ~svc.shutdown => Remembers(svc, done, called)

IInv == Conns /\ BooksHeld /\ OnePlace /\ ActiveTurn /\ Stoppable /\ reran = {}

\* How long a detached task has waited tells how long its turn has been running.
Timed ==
  \A c \in Conn :
    /\ pc[c] \notin {"wait1", "wait2"} => waited[c] = 0
    /\ pc[c] = "wait1" => waited[c] <= TurnWait
    /\ pc[c] = "wait2" => waited[c] <= SecondWait
    /\ worker[c] = "running" =>
         /\ pc[c] = "wait1" => age[c] >= waited[c]
         /\ pc[c] \in {"lapsed", "wait2"} => age[c] >= TurnWait + waited[c]
         /\ pc[c] = "over" => age[c] >= TurnWait + SecondWait

-----------------------------------------------------------------------------
(* The connections *)

LEMMA InitHolds == Init => IInv /\ Timed
<1> SUFFICES ASSUME Init PROVE IInv /\ Timed
  OBVIOUS
<1>1. Conns
  BY TimeAssumption DEF Init, Conns, ConnTypes, Located, Locations, Carries
<1>2. FreshService \in Service
  BY DEF FreshService, Service
<1>3. BooksHeld
  <2>1. \A n \in Nat : Window(<< >>, << >>, << >>, n)
    BY DEF Window
  <2> QED
    BY <1>2, <2>1, LimitAssumption DEF Init, BooksHeld, Books, Remembers, FreshService
<1>4. OnePlace /\ ActiveTurn /\ Stoppable /\ reran = {}
  BY DEF Init, OnePlace, ActiveTurn, Stoppable, OnBooks, Carries, FreshService
<1>5. Timed
  BY TimeAssumption DEF Init, Timed
<1> QED
  BY <1>1, <1>3, <1>4, <1>5 DEF IInv

\* Where a response leads.
LEMMA AnswerLeads ==
  ASSUME NEW c \in Conn, AfterWrite(c)
  PROVE  \E l \in {"loop", Leaving(c)} : pc' = [pc EXCEPT ![c] = l]
BY DEF AfterWrite

LEMMA ConnsNext == Conns /\ [Next]_vars => Conns'
<1> SUFFICES ASSUME Conns, [Next]_vars PROVE Conns'
  OBVIOUS
<1> USE DEF Conns, ConnTypes, Located, Locations, Carries, NoTurn, Leaving, InFlight
<1>1. ASSUME NEW c \in Conn, NEW v, RecvHello(c, v) PROVE Conns'
  <2>1. PICK l \in {"loop", Leaving(c)} : pc' = [pc EXCEPT ![c] = l]
    BY <1>1, AnswerLeads DEF RecvHello
  <2> QED
    BY <1>1, <2>1 DEF RecvHello
<1>2. ASSUME NEW c \in Conn, NEW k \in Key, RecvStart(c, k) PROVE Conns'
  <2>1. CASE AfterWrite(c) /\ UNCHANGED turn
    <3>1. PICK l \in {"loop", Leaving(c)} : pc' = [pc EXCEPT ![c] = l]
      BY <2>1, AnswerLeads
    <3> QED
      BY <1>2, <2>1, <3>1 DEF RecvStart
  <2>2. CASE /\ ~InFlight(c) /\ pc' = [pc EXCEPT ![c] = "claim"]
             /\ turn' = [turn EXCEPT ![c] = k]
    BY <1>2, <2>2 DEF RecvStart
  <2> QED
    BY <1>2, <2>1, <2>2 DEF RecvStart
<1>3. ASSUME NEW c \in Conn, NEW k \in Key, RecvCancel(c, k) PROVE Conns'
  <2>1. PICK l \in {"loop", Leaving(c)} : pc' = [pc EXCEPT ![c] = l]
    BY <1>3, AnswerLeads DEF RecvCancel
  <2> QED
    BY <1>3, <2>1 DEF RecvCancel
<1>4. ASSUME NEW c \in Conn, RecvShutdown(c) PROVE Conns'
  BY <1>4 DEF RecvShutdown
<1>5. ASSUME NEW c \in Conn, Hangup(c) PROVE Conns'
  BY <1>5 DEF Hangup
<1>6. ASSUME NEW c \in Conn, Connect(c) PROVE Conns'
  BY <1>6 DEF Connect
<1>7. ASSUME NEW c \in Conn, Claim(c) PROVE Conns'
  BY <1>7, TimeAssumption DEF Claim
<1>8. ASSUME NEW c \in Conn, TakeResult(c) PROVE Conns'
  BY <1>8, TimeAssumption DEF TakeResult
<1>9. ASSUME NEW c \in Conn, Settle(c) PROVE Conns'
  <2>1. PICK l \in {"loop", "over"} : pc' = [pc EXCEPT ![c] = l]
    BY <1>9, AnswerLeads DEF Settle
  <2> QED
    BY <1>9, <2>1 DEF Settle
<1>10. ASSUME NEW c \in Conn, SeeDeadWorker(c) PROVE Conns'
  BY <1>10, TimeAssumption DEF SeeDeadWorker
<1>11. ASSUME NEW c \in Conn, Reap(c) PROVE Conns'
  <2>1. PICK l \in {"loop", "over"} : pc' = [pc EXCEPT ![c] = l]
    BY <1>11, AnswerLeads DEF Reap
  <2> QED
    BY <1>11, <2>1 DEF Reap
<1>12. ASSUME NEW c \in Conn, FirstWaitElapses(c) PROVE Conns'
  BY <1>12, TimeAssumption DEF FirstWaitElapses
<1>13. ASSUME NEW c \in Conn, AbandonAndWait(c) PROVE Conns'
  BY <1>13 DEF AbandonAndWait
<1>14. ASSUME NEW c \in Conn, SecondWaitElapses(c) PROVE Conns'
  BY <1>14, TimeAssumption DEF SecondWaitElapses
<1>15. ASSUME NEW c \in Conn, NEW r \in Results, WorkerEnds(c, r) PROVE Conns'
  BY <1>15, TimeAssumption DEF WorkerEnds
<1>16. ASSUME NEW c \in Conn, WorkerPanics(c) PROVE Conns'
  BY <1>16, TimeAssumption DEF WorkerPanics
<1>17. ASSUME Tick PROVE Conns'
  <2>1. age' \in [Conn -> 0..MaxTurn]
    BY <1>17, TimeAssumption DEF Tick
  <2>2. waited' \in [Conn -> 0..(TurnWait + SecondWait)]
    BY <1>17, TimeAssumption DEF Tick, Waiting, WaitLimit
  <2> QED
    BY <1>17, <2>1, <2>2 DEF Tick
<1>18. CASE UNCHANGED vars
  BY <1>18 DEF vars, conns
<1> QED
  BY <1>1, <1>2, <1>3, <1>4, <1>5, <1>6, <1>7, <1>8, <1>9, <1>10, <1>11, <1>12, <1>13,
     <1>14, <1>15, <1>16, <1>17, <1>18 DEF Next, Serve, Internal

-----------------------------------------------------------------------------
(* The bookkeeping *)

\* Steps that leave the service and its windows alone.
LEMMA BooksUntouched ==
  ASSUME BooksHeld, svc' = svc, done' = done, called' = called
  PROVE  BooksHeld'
BY DEF BooksHeld, Books, Remembers

\* What the two lock sections do that claim a turn and take its end.
LEMMA ClaimEffect ==
  ASSUME Conns, Books(svc), NEW c \in Conn, Claim(c)
  PROVE  /\ turn[c] \in Key /\ worker[c] = "none" /\ pc[c] = "claim"
         /\ pc' = [pc EXCEPT ![c] = "loop"]
         /\ \/ /\ svc' = svc /\ worker' = worker /\ reran' = reran
               /\ turn' = [turn EXCEPT ![c] = NoTurn]
            \/ /\ ~svc.shutdown /\ ~Settled(svc, turn[c]) /\ svc.home
               /\ Books(svc') /\ \A d, e : Remembers(svc, d, e) => Remembers(svc', d, e)
               /\ svc'.active = Occupied(svc.active, turn[c], turn[c][2])
               /\ svc'.shutdown = svc.shutdown
               /\ ~svc'.home /\ svc'.armed /\ ~svc'.flag
               /\ worker' = [worker EXCEPT ![c] = "running"] /\ turn' = turn
               /\ reran' = IF Listed(done, turn[c]) \/ Listed(called, turn[c])
                             THEN reran \cup {turn[c]} ELSE reran
<1>1. turn[c] \in Key /\ worker[c] = "none" /\ pc[c] = "claim"
  BY DEF Claim, Conns, Located
<1>2. PICK k \in Key : k = turn[c]
  BY <1>1
<1>3. PICK t : t = SpawnTurn(svc, k).svc
  OBVIOUS
<1>4. svc' = t /\ pc' = [pc EXCEPT ![c] = "loop"]
  BY <1>2, <1>3 DEF Claim
<1>5. CASE SpawnTurn(svc, k).ans = "claimed"
  <2>1. /\ worker' = [worker EXCEPT ![c] = "running"] /\ turn' = turn
        /\ reran' = IF Listed(done, k) \/ Listed(called, k) THEN reran \cup {k} ELSE reran
    BY <1>2, <1>5 DEF Claim
  <2>2. /\ ~svc.shutdown /\ ~Settled(svc, k) /\ svc.home
        /\ Books(t) /\ \A d, e : Remembers(svc, d, e) => Remembers(t, d, e)
        /\ t.active = Occupied(svc.active, k, k[2]) /\ t.shutdown = svc.shutdown
        /\ ~t.home /\ t.armed /\ ~t.flag
    BY <1>3, <1>5, SpawnFields
  <2> QED
    BY <1>1, <1>2, <1>4, <2>1, <2>2
<1>6. CASE SpawnTurn(svc, k).ans # "claimed"
  <2>1. worker' = worker /\ reran' = reran /\ turn' = [turn EXCEPT ![c] = NoTurn]
    BY <1>2, <1>6 DEF Claim
  <2>2. t = svc
    BY <1>3, <1>6, SpawnFields
  <2> QED
    BY <1>1, <1>4, <2>1, <2>2
<1> QED
  BY <1>5, <1>6

LEMMA SettleEffect ==
  ASSUME Conns, Books(svc), NEW c \in Conn, Settle(c)
  PROVE  /\ turn[c] \in Key /\ worker[c] = "none" /\ pc[c] \in {"settle", "settled"}
         /\ \A d, e : Remembers(svc, d, e) =>
              Remembers(svc', RememberDone(d, turn[c], svc, svc'),
                              RememberCancelled(e, turn[c], svc, svc'))
         /\ Books(svc') /\ svc'.active = Occupied(svc.active, turn[c], NoReq)
         /\ svc'.shutdown = svc.shutdown
         /\ svc'.home /\ ~svc'.armed /\ svc'.flag = svc.flag
<1>1. /\ turn[c] \in Key /\ result[c] \in Results
      /\ worker[c] = "none" /\ pc[c] \in {"settle", "settled"}
  BY DEF Settle, Conns, Located, Carries
<1>2. PICK k \in Key, r \in Results : k = turn[c] /\ r = result[c]
  BY <1>1
<1>3. PICK t : t = CompleteTurn(svc, k, r).svc
  OBVIOUS
<1>4. svc' = t
  BY <1>2, <1>3 DEF Settle
<1>5. /\ Books(t)
      /\ \A d, e : Remembers(svc, d, e) =>
           Remembers(t, RememberDone(d, k, svc, t), RememberCancelled(e, k, svc, t))
      /\ t.active = Occupied(svc.active, k, NoReq) /\ t.shutdown = svc.shutdown
      /\ t.home /\ ~t.armed /\ t.flag = svc.flag
  BY <1>3, CompleteFields
<1> QED
  BY <1>1, <1>2, <1>4, <1>5

LEMMA BooksNext == Conns /\ BooksHeld /\ [Next]_vars => BooksHeld'
<1> SUFFICES ASSUME Conns, BooksHeld, [Next]_vars PROVE BooksHeld'
  OBVIOUS
<1>0. 2 * CompletedLimit \in Nat /\ 2 * CancelledLimit \in Nat
  BY LimitAssumption
<1>1. ASSUME NEW c \in Conn, NEW v, RecvHello(c, v) PROVE BooksHeld'
  <2>1. svc' = HandleHello(svc, v).svc /\ done' = done /\ called' = called
    BY <1>1 DEF RecvHello, history
  <2> QED
    BY <2>1, HelloFields DEF BooksHeld
<1>2. ASSUME NEW c \in Conn, NEW k \in Key, RecvCancel(c, k) PROVE BooksHeld'
  <2>1. /\ svc' = svc \/ svc' = RecordCancelled(AskedToStop(svc), k, "empty")
        /\ called' = RememberCancelled(called, k, svc, svc') /\ done' = done
    BY <1>2, CancelCases DEF RecvCancel, BooksHeld, Books
  <2>2. called' \in Seq(Key)
    BY <1>0, <2>1, RememberKeys DEF BooksHeld, RememberCancelled
  <2> QED
    BY <2>1, <2>2, CancelFields DEF BooksHeld
<1>3. ASSUME NEW c \in Conn, RecvShutdown(c) PROVE BooksHeld'
  <2>1. svc' = HandleShutdown(svc) /\ done' = done /\ called' = called
    BY <1>3 DEF RecvShutdown, history
  <2> QED
    BY <2>1, ShutdownFields DEF BooksHeld
<1>4. ASSUME NEW c \in Conn, Claim(c) PROVE BooksHeld'
  <2>1. done' = done /\ called' = called
    BY <1>4 DEF Claim
  <2> QED
    BY <1>4, <2>1, ClaimEffect DEF BooksHeld
<1>5. ASSUME NEW c \in Conn, Settle(c) PROVE BooksHeld'
  <2>1. turn[c] \in Key /\ result[c] \in Results
    BY <1>5 DEF Settle, Conns, Located, Carries
  <2>2. /\ done' = RememberDone(done, turn[c], svc, svc')
        /\ called' = RememberCancelled(called, turn[c], svc, svc')
    BY <1>5 DEF Settle
  <2>3. done' \in Seq(Key) /\ called' \in Seq(Key)
    BY <1>0, <2>1, <2>2, RememberKeys DEF BooksHeld, RememberCancelled, RememberDone
  <2> QED
    BY <1>5, <2>2, <2>3, SettleEffect DEF BooksHeld
<1>6. ASSUME NEW c \in Conn, Reap(c) \/ AbandonAndWait(c) PROVE BooksHeld'
  <2>1. svc' = AbandonActiveTurn(svc) /\ done' = done /\ called' = called
    BY <1>6 DEF Reap, AbandonAndWait, history
  <2> QED
    BY <2>1, AbandonFields DEF BooksHeld
<1>7. ASSUME NEW c \in Conn,
             \/ (\E k \in Key : RecvStart(c, k)) \/ Hangup(c) \/ Connect(c)
             \/ TakeResult(c) \/ SeeDeadWorker(c) \/ FirstWaitElapses(c)
             \/ SecondWaitElapses(c) \/ (\E r \in Results : WorkerEnds(c, r))
             \/ WorkerPanics(c)
      PROVE  BooksHeld'
  <2>1. svc' = svc /\ done' = done /\ called' = called
    BY <1>7 DEF RecvStart, Hangup, Connect, TakeResult, SeeDeadWorker, FirstWaitElapses,
                SecondWaitElapses, WorkerEnds, WorkerPanics, history
  <2> QED
    BY <2>1, BooksUntouched
<1>8. ASSUME Tick PROVE BooksHeld'
  BY <1>8, BooksUntouched DEF Tick, history
<1>9. CASE UNCHANGED vars
  BY <1>9, BooksUntouched DEF vars, history
<1> QED
  BY <1>1, <1>2, <1>3, <1>4, <1>5, <1>6, <1>7, <1>8, <1>9 DEF Next, Serve, Internal

-----------------------------------------------------------------------------
(* The executor *)

\* Steps after which the same connections have the executor and the same turn of it.
CarriersStand ==
  \A d \in Conn : /\ Carries(d)' <=> Carries(d)
                  /\ Carries(d) => turn'[d] = turn[d]

\* The executor stays where it is, and sessions only become free.
LEMMA PlaceStands ==
  ASSUME OnePlace, ActiveTurn, CarriersStand, svc'.home = svc.home, lost' = lost,
         \A s \in Session : svc'.active[s] # NoReq => svc'.active[s] = svc.active[s]
  PROVE  OnePlace' /\ ActiveTurn'
<1>1. OnePlace'
  BY DEF OnePlace, CarriersStand
<1>2. ActiveTurn'
  BY DEF ActiveTurn, CarriersStand
<1> QED
  BY <1>1, <1>2

LEMMA PlaceNext ==
  ASSUME Conns, BooksHeld, OnePlace, ActiveTurn, [Next]_vars
  PROVE  OnePlace' /\ ActiveTurn'
<1>0. /\ pc \in [Conn -> Locations] /\ turn \in [Conn -> Key \cup {NoTurn}]
      /\ worker \in [Conn -> {"none", "running", "sent", "panicked"}]
      /\ \A c \in Conn : Located(c)
      /\ Books(svc) /\ svc.active \in [Session -> Request \cup {NoReq}]
  BY DEF Conns, ConnTypes, BooksHeld, Books, Service
<1>1. ASSUME NEW c \in Conn, NEW v, RecvHello(c, v) PROVE OnePlace' /\ ActiveTurn'
  <2>1. PICK l \in {"loop", Leaving(c)} : pc' = [pc EXCEPT ![c] = l]
    BY <1>1, AnswerLeads DEF RecvHello
  <2>2. CarriersStand
    BY <1>0, <1>1, <2>1 DEF RecvHello, CarriersStand, Carries, Leaving
  <2>3. svc'.home = svc.home /\ lost' = lost /\ svc'.active = svc.active
    BY <1>0, <1>1, HelloFields DEF RecvHello
  <2> QED
    BY <2>2, <2>3, PlaceStands
<1>2. ASSUME NEW c \in Conn, NEW k \in Key, RecvStart(c, k) PROVE OnePlace' /\ ActiveTurn'
  <2>1. CarriersStand
    <3>1. CASE AfterWrite(c) /\ UNCHANGED turn
      <4>1. PICK l \in {"loop", Leaving(c)} : pc' = [pc EXCEPT ![c] = l]
        BY <3>1, AnswerLeads
      <4> QED
        BY <1>0, <1>2, <3>1, <4>1 DEF RecvStart, CarriersStand, Carries, Leaving
    <3>2. CASE /\ ~InFlight(c) /\ pc' = [pc EXCEPT ![c] = "claim"]
               /\ turn' = [turn EXCEPT ![c] = k]
      BY <1>0, <1>2, <3>2 DEF RecvStart, CarriersStand, Carries, InFlight
    <3> QED
      BY <1>2, <3>1, <3>2 DEF RecvStart
  <2> QED
    BY <1>2, <2>1, PlaceStands DEF RecvStart
<1>3. ASSUME NEW c \in Conn, NEW k \in Key, RecvCancel(c, k) PROVE OnePlace' /\ ActiveTurn'
  <2>1. PICK l \in {"loop", Leaving(c)} : pc' = [pc EXCEPT ![c] = l]
    BY <1>3, AnswerLeads DEF RecvCancel
  <2>2. CarriersStand
    BY <1>0, <1>3, <2>1 DEF RecvCancel, CarriersStand, Carries, Leaving
  <2>3. svc' = svc \/ svc' = RecordCancelled(AskedToStop(svc), k, "empty")
    BY <1>0, <1>3, CancelCases DEF RecvCancel, Books
  <2>4. svc'.home = svc.home /\ svc'.active = svc.active
    BY <1>0, <2>3, CancelFields
  <2>5. lost' = lost
    BY <1>3 DEF RecvCancel
  <2> QED
    BY <2>2, <2>4, <2>5, PlaceStands
<1>4. ASSUME NEW c \in Conn, RecvShutdown(c) PROVE OnePlace' /\ ActiveTurn'
  <2>1. CarriersStand
    BY <1>0, <1>4 DEF RecvShutdown, CarriersStand, Carries, Leaving
  <2>2. svc' = HandleShutdown(svc) /\ lost' = lost
    BY <1>4 DEF RecvShutdown
  <2>3. /\ svc'.home = svc.home
        /\ \A s \in Session : svc'.active[s] # NoReq => svc'.active[s] = svc.active[s]
    BY <1>0, <2>2, ShutdownFields
  <2> QED
    BY <2>1, <2>2, <2>3, PlaceStands
<1>5. ASSUME NEW c \in Conn, Claim(c) PROVE OnePlace' /\ ActiveTurn'
  <2>0. PICK k \in Key : k = turn[c]
    BY <1>0, <1>5, ClaimEffect
  <2>1. worker[c] = "none" /\ pc[c] = "claim" /\ pc' = [pc EXCEPT ![c] = "loop"] /\ lost' = lost
    BY <1>0, <1>5, ClaimEffect DEF Claim
  <2>2. CASE svc' = svc /\ worker' = worker /\ turn' = [turn EXCEPT ![c] = NoTurn]
    <3>1. CarriersStand
      BY <1>0, <2>1, <2>2 DEF CarriersStand, Carries
    <3> QED
      BY <2>1, <2>2, <3>1, PlaceStands
  <2>3. CASE /\ svc.home /\ ~svc'.home
             /\ svc'.active = Occupied(svc.active, k, k[2])
             /\ worker' = [worker EXCEPT ![c] = "running"] /\ turn' = turn
    <3>3. \A d \in Conn : Carries(d)' <=> d = c
      BY <1>0, <2>1, <2>3 DEF Carries, OnePlace
    <3>4. lost' = "no"
      BY <2>1, <2>3 DEF OnePlace
    <3>5. OnePlace'
      BY <2>3, <3>3, <3>4 DEF OnePlace
    <3>6. \A s \in Session : svc'.active[s] # NoReq => s = k[1] /\ svc'.active[s] = k[2]
      BY <1>0, <2>3 DEF ActiveTurn, Occupied
    <3>7. k = <<k[1], k[2]>>
      BY DEF Key
    <3>8. ActiveTurn'
      BY <2>0, <2>3, <3>3, <3>6, <3>7 DEF ActiveTurn
    <3> QED
      BY <3>5, <3>8
  <2> QED
    BY <1>0, <1>5, <2>0, <2>2, <2>3, ClaimEffect
<1>6. ASSUME NEW c \in Conn, Settle(c) PROVE OnePlace' /\ ActiveTurn'
  <2>0. PICK k \in Key : k = turn[c]
    BY <1>0, <1>6, SettleEffect
  <2>1. worker[c] = "none" /\ pc[c] \in {"settle", "settled"} /\ Carries(c)
    BY <1>0, <1>6, SettleEffect DEF Carries
  <2>2. svc'.home /\ svc'.active = Occupied(svc.active, k, NoReq)
    BY <1>0, <1>6, <2>0, SettleEffect
  <2>3. PICK l \in {"loop", "over"} : pc' = [pc EXCEPT ![c] = l]
    BY <1>6, AnswerLeads DEF Settle, Leaving, InFlight
  <2>4. worker' = worker /\ lost' = lost
    BY <1>6 DEF Settle
  <2>5. lost = "no" /\ \A d \in Conn : Carries(d) => d = c
    BY <2>1 DEF OnePlace
  <2>6. \A d \in Conn : ~Carries(d)'
    BY <1>0, <2>1, <2>3, <2>4, <2>5 DEF Carries
  <2>7. OnePlace'
    BY <2>2, <2>4, <2>5, <2>6 DEF OnePlace
  <2>8. \A s \in Session : svc.active[s] # NoReq => s = k[1]
    BY <2>0, <2>5 DEF ActiveTurn
  <2>9. \A s \in Session : svc'.active[s] = NoReq
    BY <1>0, <2>2, <2>8 DEF Occupied
  <2> QED
    BY <2>7, <2>9 DEF ActiveTurn
<1>7. ASSUME NEW c \in Conn, Reap(c) \/ AbandonAndWait(c) PROVE OnePlace' /\ ActiveTurn'
  <2>1. svc'.home = svc.home /\ svc'.active = [x \in Session |-> NoReq]
    BY <1>0, <1>7, AbandonFields DEF Reap, AbandonAndWait
  <2>2. /\ pc[c] \in {"reap", "reaped", "lapsed"}
        /\ \E l \in {"loop", "over", "wait2"} : pc' = [pc EXCEPT ![c] = l]
    BY <1>7, AnswerLeads DEF Reap, AbandonAndWait, Leaving, InFlight
  <2>3. CarriersStand /\ lost' = lost
    BY <1>0, <1>7, <2>2 DEF Reap, AbandonAndWait, CarriersStand, Carries
  <2> QED
    BY <2>1, <2>3, PlaceStands
<1>8. ASSUME NEW c \in Conn,
             \/ Hangup(c) \/ Connect(c) \/ TakeResult(c) \/ SeeDeadWorker(c)
             \/ FirstWaitElapses(c) \/ SecondWaitElapses(c)
      PROVE  OnePlace' /\ ActiveTurn'
  <2>1. svc' = svc /\ lost' = lost
    BY <1>8 DEF Hangup, Connect, TakeResult, SeeDeadWorker, FirstWaitElapses,
                SecondWaitElapses
  <2>2. CarriersStand
    BY <1>0, <1>8 DEF Hangup, Connect, TakeResult, SeeDeadWorker, FirstWaitElapses,
                      SecondWaitElapses, CarriersStand, Carries, Leaving
  <2> QED
    BY <2>1, <2>2, PlaceStands
<1>9. ASSUME NEW c \in Conn, NEW r \in Results, WorkerEnds(c, r) PROVE OnePlace' /\ ActiveTurn'
  <2>1. CASE pc[c] = "over"
    <3>1. /\ worker' = [worker EXCEPT ![c] = "none"] /\ lost' = "dropped" /\ pc' = pc
          /\ svc' = svc
      BY <1>9, <2>1 DEF WorkerEnds
    <3>2. Carries(c)
      BY <1>9 DEF WorkerEnds, Carries
    <3>3. \A d \in Conn : ~Carries(d)'
      BY <1>0, <2>1, <3>1, <3>2 DEF Carries, OnePlace
    <3>4. ~svc.home
      BY <3>2 DEF OnePlace
    <3> QED
      BY <3>1, <3>3, <3>4 DEF OnePlace, ActiveTurn
  <2>2. CASE pc[c] # "over"
    <3>1. CarriersStand /\ svc' = svc /\ lost' = lost
      BY <1>0, <1>9, <2>2 DEF WorkerEnds, CarriersStand, Carries
    <3> QED
      BY <3>1, PlaceStands
  <2> QED
    BY <2>1, <2>2
<1>10. ASSUME NEW c \in Conn, WorkerPanics(c) PROVE OnePlace' /\ ActiveTurn'
  <2>1. /\ worker' = [worker EXCEPT ![c] = "panicked"] /\ lost' = "panic" /\ pc' = pc
        /\ svc' = svc /\ worker[c] = "running"
    BY <1>10 DEF WorkerPanics
  <2>2. Carries(c) /\ pc[c] \notin {"settle", "settled"}
    BY <1>0, <2>1 DEF Carries, Located
  <2>3. \A d \in Conn : ~Carries(d)'
    BY <1>0, <2>1, <2>2 DEF Carries, OnePlace
  <2>4. ~svc.home
    BY <2>2 DEF OnePlace
  <2> QED
    BY <2>1, <2>3, <2>4 DEF OnePlace, ActiveTurn
<1>11. CASE Tick \/ UNCHANGED vars
  <2>1. CarriersStand /\ svc' = svc /\ lost' = lost
    BY <1>11 DEF Tick, vars, conns, CarriersStand, Carries
  <2> QED
    BY <2>1, PlaceStands
<1> QED
  BY <1>1, <1>2, <1>3, <1>4, <1>5, <1>6, <1>7, <1>8, <1>9, <1>10, <1>11
     DEF Next, Serve, Internal

-----------------------------------------------------------------------------
(* The cancel flag *)

\* No turn comes on the books, and the flag stands.
LEMMA StopStands ==
  ASSUME Stoppable, \A c \in Conn : OnBooks(c)' => OnBooks(c),
         svc'.armed = svc.armed, svc'.shutdown = svc.shutdown, svc.flag => svc'.flag
  PROVE  Stoppable'
BY DEF Stoppable

LEMMA StoppableNext ==
  ASSUME Conns, Conns', BooksHeld, OnePlace, Stoppable, [Next]_vars
  PROVE  Stoppable'
<1>0. /\ turn \in [Conn -> Key \cup {NoTurn}]
      /\ worker \in [Conn -> {"none", "running", "sent", "panicked"}]
      /\ Books(svc) /\ svc \in Service
  BY DEF Conns, ConnTypes, BooksHeld, Books
<1>1. ASSUME NEW c \in Conn, NEW v, RecvHello(c, v) PROVE Stoppable'
  <2>1. /\ svc'.active = svc.active /\ svc'.armed = svc.armed
        /\ svc'.shutdown = svc.shutdown /\ svc'.flag = svc.flag
    BY <1>0, <1>1, HelloFields DEF RecvHello
  <2>2. \A d \in Conn : OnBooks(d)' => OnBooks(d)
    BY <1>1, <2>1 DEF RecvHello, OnBooks
  <2> QED
    BY <2>1, <2>2, StopStands
<1>2. ASSUME NEW c \in Conn, NEW k \in Key, RecvCancel(c, k) PROVE Stoppable'
  <2>1. svc' = svc \/ svc' = RecordCancelled(AskedToStop(svc), k, "empty")
    BY <1>0, <1>2, CancelCases DEF RecvCancel
  <2>2. /\ svc'.active = svc.active /\ svc'.armed = svc.armed
        /\ svc'.shutdown = svc.shutdown /\ (svc.flag => svc'.flag)
    BY <1>0, <2>1, CancelFields
  <2>3. \A d \in Conn : OnBooks(d)' => OnBooks(d)
    BY <1>2, <2>2 DEF RecvCancel, OnBooks
  <2> QED
    BY <2>2, <2>3, StopStands
<1>3. ASSUME NEW c \in Conn, RecvShutdown(c) PROVE Stoppable'
  <2>1. /\ svc'.armed = svc.armed /\ (svc.armed \/ svc.flag => svc'.flag)
        /\ svc.home => \A x \in Session : svc'.active[x] = NoReq
        /\ ~svc.home => svc'.active = svc.active
    BY <1>0, <1>3, ShutdownFields DEF RecvShutdown
  <2>2. CASE svc.home
    <3>1. \A d \in Conn : ~OnBooks(d)'
      <4> SUFFICES ASSUME NEW d \in Conn PROVE ~OnBooks(d)'
        OBVIOUS
      <4>1. Located(d)'
        BY DEF Conns
      <4> QED
        BY <2>1, <2>2, <4>1, NoReqAssumption DEF Located, Carries, OnBooks, Key
    <3> QED
      BY <3>1 DEF Stoppable
  <2>3. CASE ~svc.home
    <3>1. \A d \in Conn : OnBooks(d)' => OnBooks(d)
      BY <1>3, <2>1, <2>3 DEF RecvShutdown, OnBooks
    <3> QED
      BY <2>1, <3>1 DEF Stoppable
  <2> QED
    BY <2>2, <2>3
<1>4. ASSUME NEW c \in Conn, Claim(c) PROVE Stoppable'
  <2>1. worker[c] = "none" /\ turn[c] \in Key
    BY <1>0, <1>4, ClaimEffect
  <2>2. CASE svc' = svc /\ worker' = worker /\ turn' = [turn EXCEPT ![c] = NoTurn]
    <3>1. \A d \in Conn : OnBooks(d)' => OnBooks(d)
      BY <1>0, <2>1, <2>2 DEF OnBooks
    <3> QED
      BY <2>2, <3>1, StopStands
  <2>3. CASE ~svc.shutdown /\ svc'.shutdown = svc.shutdown /\ svc'.armed
    BY <2>3 DEF Stoppable
  <2> QED
    BY <1>0, <1>4, <2>2, <2>3, ClaimEffect
<1>5. ASSUME NEW c \in Conn, Settle(c) PROVE Stoppable'
  <2>1. worker[c] = "none" /\ pc[c] \in {"settle", "settled"} /\ worker' = worker
    BY <1>0, <1>5, SettleEffect DEF Settle
  <2>2. \A d \in Conn : worker[d] # "running"
    BY <2>1 DEF OnePlace, Carries
  <2> QED
    BY <2>1, <2>2 DEF Stoppable, OnBooks
<1>6. ASSUME NEW c \in Conn, Reap(c) \/ AbandonAndWait(c) PROVE Stoppable'
  <2>1. svc'.active = [x \in Session |-> NoReq]
    BY <1>0, <1>6, AbandonFields DEF Reap, AbandonAndWait
  <2>2. \A d \in Conn : ~OnBooks(d)'
    <3> SUFFICES ASSUME NEW d \in Conn PROVE ~OnBooks(d)'
      OBVIOUS
    <3>1. Located(d)'
      BY DEF Conns
    <3> QED
      BY <2>1, <3>1, NoReqAssumption DEF Located, Carries, OnBooks, Key
  <2> QED
    BY <2>2 DEF Stoppable
<1>7. ASSUME NEW c \in Conn, NEW k \in Key, RecvStart(c, k) PROVE Stoppable'
  <2>1. turn' = turn \/ (worker[c] = "none" /\ turn' = [turn EXCEPT ![c] = k])
    BY <1>7 DEF RecvStart, InFlight
  <2>2. \A d \in Conn : OnBooks(d)' => OnBooks(d)
    BY <1>0, <1>7, <2>1 DEF RecvStart, OnBooks
  <2> QED
    BY <1>7, <2>2, StopStands DEF RecvStart
<1>8. ASSUME NEW c \in Conn,
             \/ Hangup(c) \/ Connect(c) \/ TakeResult(c) \/ SeeDeadWorker(c)
             \/ FirstWaitElapses(c) \/ SecondWaitElapses(c)
             \/ (\E r \in Results : WorkerEnds(c, r)) \/ WorkerPanics(c)
      PROVE  Stoppable'
  <2>1. /\ svc' = svc
        /\ \A d \in Conn : worker'[d] = "running" => worker[d] = "running" /\ turn'[d] = turn[d]
    BY <1>0, <1>8 DEF Hangup, Connect, TakeResult, SeeDeadWorker, FirstWaitElapses,
                      SecondWaitElapses, WorkerEnds, WorkerPanics
  <2>2. \A d \in Conn : OnBooks(d)' => OnBooks(d)
    BY <2>1 DEF OnBooks
  <2> QED
    BY <2>1, <2>2, StopStands
<1>9. CASE Tick \/ UNCHANGED vars
  <2>1. svc' = svc /\ worker' = worker /\ turn' = turn
    BY <1>9 DEF Tick, vars, conns
  <2>2. \A d \in Conn : OnBooks(d)' => OnBooks(d)
    BY <2>1 DEF OnBooks
  <2> QED
    BY <2>1, <2>2, StopStands
<1> QED
  BY <1>1, <1>2, <1>3, <1>4, <1>5, <1>6, <1>7, <1>8, <1>9 DEF Next, Serve, Internal

-----------------------------------------------------------------------------
(* Nothing recent runs again *)

\* The claim's own lookup is what keeps a key that was recorded between the two lock
\* sections from running.
LEMMA RerunsNext ==
  ASSUME Conns, BooksHeld, reran = {}, [Next]_vars
  PROVE  reran' = {}
<1>1. ASSUME NEW c \in Conn, Claim(c) PROVE reran' = {}
  <2>1. PICK k \in Key : k = turn[c]
    BY <1>1, ClaimEffect DEF BooksHeld
  <2>2. CASE reran' = reran
    BY <2>2
  <2>3. CASE /\ ~svc.shutdown /\ ~Settled(svc, k)
             /\ reran' = IF Listed(done, k) \/ Listed(called, k) THEN reran \cup {k} ELSE reran
    <3>1. Remembers(svc, done, called)
      BY <2>3 DEF BooksHeld
    <3>2. ~Listed(done, k)
      BY <2>3, <3>1, WindowListed, LimitAssumption DEF Remembers, Settled
    <3>3. ~Listed(called, k)
      BY <2>3, <3>1, WindowListed, LimitAssumption DEF Remembers, Settled
    <3> QED
      BY <2>3, <3>2, <3>3
  <2> QED
    BY <1>1, <2>1, <2>2, <2>3, ClaimEffect DEF BooksHeld
<1>2. ASSUME NEW c \in Conn, Serve(c) \/ Internal(c), ~Claim(c) PROVE reran' = {}
  BY <1>2 DEF Serve, Internal, RecvHello, RecvStart, RecvCancel, RecvShutdown, Hangup, Connect,
              TakeResult, Settle, SeeDeadWorker, Reap, FirstWaitElapses, AbandonAndWait,
              SecondWaitElapses, history
<1>3. CASE \/ \E c \in Conn, r \in Results : WorkerEnds(c, r)
           \/ \E c \in Conn : WorkerPanics(c)
           \/ Tick \/ UNCHANGED vars
  BY <1>3 DEF WorkerEnds, WorkerPanics, Tick, vars, history
<1> QED
  BY <1>1, <1>2, <1>3 DEF Next

-----------------------------------------------------------------------------
(* The theorems *)

\* The invariant is inductive.
THEOREM Inductive == Spec => []IInv
<1>1. Init => IInv
  BY InitHolds
<1>2. IInv /\ [Next]_vars => IInv'
  BY ConnsNext, BooksNext, PlaceNext, StoppableNext, RerunsNext DEF IInv
<1> QED
  BY <1>1, <1>2, PTL DEF Spec

\* The state keeps its types, and the result caches and tombstones their bounds, however
\* long the daemon lives (RuntimeService::record_completed, record_cancelled).
THEOREM GuestTypes == Spec => []TypeOK
<1>1. IInv => TypeOK
  <2> SUFFICES ASSUME IInv PROVE TypeOK
    OBVIOUS
  <2>1. ServiceType(svc)
    BY DEF IInv, BooksHeld, Books, Window, Service, ServiceType
  <2> QED
    BY <2>1 DEF IInv, Conns, ConnTypes, BooksHeld, TypeOK
<1> QED
  BY <1>1, Inductive, PTL

\* There is one executor, in one place: at home, with one connection, or lost
\* (spawn_turn takes it out of the service, complete_turn puts it back).
THEOREM OneExecutor == Spec => []ExecutorConserved
<1>1. IInv => ExecutorConserved
  <2> SUFFICES ASSUME IInv PROVE ExecutorConserved
    OBVIOUS
  <2> DEFINE carriers == {c \in Conn : Carries(c)}
  <2>1. OnePlace /\ svc.home \in BOOLEAN
    BY DEF IInv, BooksHeld, Books, Service
  <2>2. CASE svc.home \/ lost # "no"
    <3>1. carriers = {}
      BY <2>1, <2>2 DEF OnePlace
    <3>2. Cardinality(carriers) = 0
      BY <3>1, FS_EmptySet
    <3>3. svc.home <=> lost = "no"
      BY <2>1, <2>2 DEF OnePlace
    <3> HIDE DEF carriers
    <3> QED
      BY <2>2, <3>2, <3>3 DEF ExecutorConserved, carriers
  <2>3. CASE ~svc.home /\ lost = "no"
    <3>1. PICK c \in Conn : carriers = {c}
      BY <2>1, <2>3 DEF OnePlace
    <3>2. Cardinality(carriers) = 1
      BY <3>1, FS_Singleton
    <3> HIDE DEF carriers
    <3> QED
      BY <2>3, <3>2 DEF ExecutorConserved, carriers
  <2> QED
    BY <2>2, <2>3
<1> QED
  BY <1>1, Inductive, PTL

\* With the executor home no session is active: complete_turn and abandon_active_turn
\* clear every claim that spawn_turn made.
THEOREM NoPhantom == Spec => []NoPhantomTurn
<1>1. IInv => NoPhantomTurn
  BY DEF IInv, ActiveTurn, NoPhantomTurn
<1> QED
  BY <1>1, Inductive, PTL

\* A request among the last 2 x LIMIT recorded completions or cancellations does not run
\* again, for every size of the caches: the caches and the tombstones together are
\* exactly the window of those keys.
THEOREM NeverReruns == Spec => []RecentNeverReruns
<1>1. IInv => RecentNeverReruns
  BY DEF IInv, RecentNeverReruns
<1> QED
  BY <1>1, Inductive, PTL

\* After Shutdown no turn starts, and the worker on the books is asked to stop.
THEOREM ShutdownStands == Spec => ShutdownHolds
<1> DEFINE Holds == /\ svc.shutdown => svc'.shutdown /\ (svc.home => svc'.home)
                    /\ ShutdownReachesWorker'
<1>1. IInv /\ IInv' /\ [Next]_vars => [Holds]_vars
  <2> SUFFICES ASSUME IInv, IInv', [Next]_vars PROVE [Holds]_vars
    OBVIOUS
  <2>0. Conns /\ BooksHeld /\ Books(svc) /\ svc \in Service
    BY DEF IInv, BooksHeld, Books
  <2>1. ShutdownReachesWorker'
    BY DEF IInv, Stoppable, OnBooks, ShutdownReachesWorker
  <2>2. ASSUME NEW c \in Conn, NEW v, RecvHello(c, v)
        PROVE  svc'.shutdown = svc.shutdown /\ svc'.home = svc.home
    BY <2>0, <2>2, HelloFields DEF RecvHello
  <2>3. ASSUME NEW c \in Conn, NEW k \in Key, RecvCancel(c, k)
        PROVE  svc'.shutdown = svc.shutdown /\ svc'.home = svc.home
    <3>1. svc' = svc \/ svc' = RecordCancelled(AskedToStop(svc), k, "empty")
      BY <2>0, <2>3, CancelCases DEF RecvCancel
    <3> QED
      BY <2>0, <3>1, CancelFields
  <2>4. ASSUME NEW c \in Conn, RecvShutdown(c)
        PROVE  svc'.shutdown /\ svc'.home = svc.home
    BY <2>0, <2>4, ShutdownFields DEF RecvShutdown
  <2>5. ASSUME NEW c \in Conn, Claim(c)
        PROVE  svc'.shutdown = svc.shutdown /\ (svc' = svc \/ ~svc.shutdown)
    BY <2>0, <2>5, ClaimEffect
  <2>6. ASSUME NEW c \in Conn, Settle(c)
        PROVE  svc'.shutdown = svc.shutdown /\ svc'.home
    BY <2>0, <2>6, SettleEffect
  <2>7. ASSUME NEW c \in Conn, Reap(c) \/ AbandonAndWait(c)
        PROVE  svc'.shutdown = svc.shutdown /\ svc'.home = svc.home
    BY <2>0, <2>7, AbandonFields DEF Reap, AbandonAndWait
  <2>8. ASSUME NEW c \in Conn,
               \/ (\E k \in Key : RecvStart(c, k)) \/ Hangup(c) \/ Connect(c)
               \/ TakeResult(c) \/ SeeDeadWorker(c) \/ FirstWaitElapses(c)
               \/ SecondWaitElapses(c) \/ (\E r \in Results : WorkerEnds(c, r))
               \/ WorkerPanics(c)
        PROVE  svc' = svc
    BY <2>8 DEF RecvStart, Hangup, Connect, TakeResult, SeeDeadWorker, FirstWaitElapses,
                SecondWaitElapses, WorkerEnds, WorkerPanics
  <2>9. ASSUME Tick \/ UNCHANGED vars PROVE svc' = svc
    BY <2>9 DEF Tick, vars
  <2>10. svc.shutdown => svc'.shutdown /\ (svc.home => svc'.home)
    BY <2>2, <2>3, <2>4, <2>5, <2>6, <2>7, <2>8, <2>9 DEF Next, Serve, Internal
  <2> QED
    BY <2>1, <2>10
<1> QED
  BY <1>1, Inductive, PTL DEF Spec, ShutdownHolds

-----------------------------------------------------------------------------
(* How the executor may be lost *)

LEMMA TimedNext == Conns /\ Timed /\ [Next]_vars => Timed'
<1> SUFFICES ASSUME Conns, Timed, [Next]_vars PROVE Timed'
  OBVIOUS
<1> USE TimeAssumption DEF Timed
<1>0. /\ pc \in [Conn -> Locations]
      /\ worker \in [Conn -> {"none", "running", "sent", "panicked"}]
      /\ age \in [Conn -> 0..MaxTurn] /\ waited \in [Conn -> 0..(TurnWait + SecondWait)]
      /\ \A c \in Conn : Located(c)
  BY DEF Conns, ConnTypes
<1>1. ASSUME NEW c \in Conn, pc[c] \in {"loop", "settle", "reap"},
             NEW l \in {"loop", Leaving(c)}, pc' = [pc EXCEPT ![c] = l],
             UNCHANGED <<worker, age, waited>>
      PROVE  Timed'
  <2>1. pc[c] # "loop" => worker[c] = "none"
    BY <1>0, <1>1 DEF Located
  <2>2. waited[c] = 0
    BY <1>1
  <2> QED
    BY <1>0, <1>1, <2>1, <2>2 DEF Leaving, InFlight
<1>2. ASSUME NEW c \in Conn, (\E v : RecvHello(c, v)) \/ (\E k \in Key : RecvCancel(c, k))
      PROVE  Timed'
  BY <1>1, <1>2, AnswerLeads DEF RecvHello, RecvCancel
<1>3. ASSUME NEW c \in Conn, NEW k \in Key, RecvStart(c, k) PROVE Timed'
  <2>1. CASE AfterWrite(c)
    BY <1>1, <1>3, <2>1, AnswerLeads DEF RecvStart
  <2>2. CASE ~InFlight(c) /\ pc' = [pc EXCEPT ![c] = "claim"]
    BY <1>0, <1>3, <2>2 DEF RecvStart, InFlight
  <2> QED
    BY <1>3, <2>1, <2>2 DEF RecvStart
<1>4. ASSUME NEW c \in Conn, RecvShutdown(c) \/ Hangup(c) PROVE Timed'
  BY <1>1, <1>4 DEF RecvShutdown, Hangup
<1>5. ASSUME NEW c \in Conn, Connect(c) PROVE Timed'
  BY <1>0, <1>5 DEF Connect
<1>6. ASSUME NEW c \in Conn, Claim(c) PROVE Timed'
  BY <1>0, <1>6 DEF Claim
<1>7. ASSUME NEW c \in Conn, TakeResult(c) \/ SeeDeadWorker(c) PROVE Timed'
  BY <1>0, <1>7 DEF TakeResult, SeeDeadWorker
<1>8. ASSUME NEW c \in Conn, Settle(c) \/ Reap(c) PROVE Timed'
  <2>1. /\ pc[c] \in {"settle", "settled", "reap", "reaped"} /\ worker[c] = "none"
        /\ UNCHANGED <<worker, age, waited>> /\ waited[c] = 0
    BY <1>0, <1>8 DEF Settle, Reap, Located
  <2>2. PICK l \in {"loop", "over"} : pc' = [pc EXCEPT ![c] = l]
    BY <1>8, <2>1, AnswerLeads DEF Settle, Reap, Leaving, InFlight
  <2> QED
    BY <1>0, <2>1, <2>2
<1>9. ASSUME NEW c \in Conn, FirstWaitElapses(c) PROVE Timed'
  BY <1>0, <1>9 DEF FirstWaitElapses
<1>10. ASSUME NEW c \in Conn, AbandonAndWait(c) PROVE Timed'
  BY <1>0, <1>10 DEF AbandonAndWait
<1>11. ASSUME NEW c \in Conn, SecondWaitElapses(c) PROVE Timed'
  BY <1>0, <1>11 DEF SecondWaitElapses
<1>12. ASSUME NEW c \in Conn, (\E r \in Results : WorkerEnds(c, r)) \/ WorkerPanics(c)
       PROVE  Timed'
  BY <1>0, <1>12 DEF WorkerEnds, WorkerPanics
<1>13. ASSUME Tick PROVE Timed'
  <2> SUFFICES ASSUME NEW d \in Conn
               PROVE  /\ pc[d] \notin {"wait1", "wait2"} => waited'[d] = 0
                      /\ pc[d] = "wait1" => waited'[d] <= TurnWait
                      /\ pc[d] = "wait2" => waited'[d] <= SecondWait
                      /\ worker[d] = "running" =>
                           /\ pc[d] = "wait1" => age'[d] >= waited'[d]
                           /\ pc[d] \in {"lapsed", "wait2"} => age'[d] >= TurnWait + waited'[d]
                           /\ pc[d] = "over" => age'[d] >= TurnWait + SecondWait
    BY <1>13 DEF Tick
  <2>1. /\ worker[d] = "running" => age'[d] = age[d] + 1
        /\ Waiting(d) => waited'[d] = waited[d] + 1 /\ waited[d] < WaitLimit(d)
        /\ ~Waiting(d) => waited'[d] = waited[d]
    BY <1>13 DEF Tick
  <2>2. age[d] \in Nat /\ waited[d] \in Nat
    BY <1>0
  <2> QED
    BY <2>1, <2>2 DEF Waiting, WaitLimit
<1>14. CASE UNCHANGED vars
  BY <1>14 DEF vars, conns
<1> QED
  BY <1>2, <1>3, <1>4, <1>5, <1>6, <1>7, <1>8, <1>9, <1>10, <1>11, <1>12, <1>13, <1>14
     DEF Next, Serve, Internal

\* A step that drops the executor is the end of a worker whose connection is gone and
\* whose turn has outlasted both waits of the detached task.
Outlasted(c) ==
  worker[c] = "running" /\ pc[c] = "over" /\ age[c] >= TurnWait + SecondWait
DroppedByOutlaster == lost' = "dropped" /\ lost # "dropped" => \E c \in Conn : Outlasted(c)

\* The executor is dropped only when a turn ends that has run for the two waits of the
\* detached task and longer (DETACHED_TURN_WAIT and the second wait of
\* guest_connection.rs, 30 s and 90 s): whenever a turn ends before that, whatever the
\* clients do and wherever its connection is, the late complete_turn brings it home.
\* Turns may legally run for 1800 s, so the waits do not cover them all.
THEOREM OnlyOutlastersLose == Spec => [][DroppedByOutlaster]_vars
<1>1. Init => Timed
  BY InitHolds
<1>2. IInv /\ Timed /\ [Next]_vars => Timed'
  BY TimedNext DEF IInv
<1>3. IInv /\ Timed /\ [Next]_vars => DroppedByOutlaster
  <2> SUFFICES ASSUME IInv, Timed, [Next]_vars, lost' = "dropped", lost # "dropped"
               PROVE  \E c \in Conn : Outlasted(c)
    BY DEF DroppedByOutlaster
  <2>1. ASSUME NEW c \in Conn, NEW r \in Results, WorkerEnds(c, r) PROVE Outlasted(c)
    <3>1. worker[c] = "running" /\ pc[c] = "over"
      BY <2>1 DEF WorkerEnds
    <3> QED
      BY <3>1 DEF Timed, Outlasted
  <2>2. ASSUME NEW c \in Conn, Serve(c) \/ Internal(c) PROVE lost' = lost
    BY <2>2 DEF Serve, Internal, RecvHello, RecvStart, RecvCancel, RecvShutdown, Hangup, Connect,
                Claim, TakeResult, Settle, SeeDeadWorker, Reap, FirstWaitElapses,
                AbandonAndWait, SecondWaitElapses
  <2>3. ASSUME NEW c \in Conn, WorkerPanics(c) PROVE lost' = "panic"
    BY <2>3 DEF WorkerPanics
  <2>4. ASSUME Tick \/ UNCHANGED vars PROVE lost' = lost
    BY <2>4 DEF Tick, vars
  <2> QED
    BY <2>1, <2>2, <2>3, <2>4 DEF Next
<1> QED
  BY <1>1, <1>2, <1>3, Inductive, PTL DEF Spec

=============================================================================
