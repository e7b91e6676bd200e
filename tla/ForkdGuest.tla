----------------------------- MODULE ForkdGuest -----------------------------
(***************************************************************************)
(* The NDJSON requests of forkd: tasks that share one ForkdGuestClient and *)
(* its pool of warm connections (rfb/src/forkd/guest.rs), and the guest    *)
(* agent that serves them (rfb-runtime/src/agent/mod.rs).                  *)
(*                                                                         *)
(* Lines carry no request id: an answer belongs to whatever the connection *)
(* last asked.  A request is its operation's number; the line that answers *)
(* it carries that number here so that a mix-up can be seen.               *)
(***************************************************************************)
EXTENDS Integers, Sequences, FiniteSets, SequencesExt

CONSTANTS
  Task,      \* callers that share the client
  MaxCalls,  \* requests made
  MaxOpen,   \* connections opened
  Permits,   \* MAX_CONNECTIONS of the agent
  WarmCap    \* connections kept warm (16)

ASSUME FgAssumption == MaxCalls \in Nat /\ MaxOpen \in Nat

VARIABLES
  gated,    \* the agent has a token
  token,    \* FORKD_AGENT_TOKEN of the client: none, good, bad
  calls,    \* requests begun
  gtask,    \* task -> where it is, its request, its connection
  apool,    \* warm connections, the last one is borrowed first
  aopened,  \* connections opened
  aconn,    \* connection -> both directions and the agent's end
  ran,      \* history: how often the agent executed each request
  got       \* history: the request whose answer each request returned

fgvars == <<gated, token, calls, gtask, apool, aopened, aconn, ran, got>>

GuestCall == 1..MaxCalls
AgentConn == 1..MaxOpen
Free == [at |-> "idle", op |-> 0, conn |-> 0]
NoConn == [srv |-> "none", up |-> <<>>, down |-> <<>>, op |-> 0, warm |-> TRUE]
Auth == MaxCalls + 1          \* the auth line
Eof == 0
Line(k, o) == [kind |-> k, op |-> o]

FgTypeOK ==
  /\ gated \in BOOLEAN /\ token \in {"none", "good", "bad"}
  /\ calls \in 0..MaxCalls /\ aopened \in 0..MaxOpen
  /\ gtask \in [Task -> [at : {"idle", "pick", "auth", "sent"}, op : 0..MaxCalls,
                        conn : 0..MaxOpen]]
  /\ Range(apool) \subseteq AgentConn /\ Len(apool) <= WarmCap
  /\ \A k \in AgentConn : /\ aconn[k].srv \in {"none", "backlog", "auth", "serve", "run", "closed"}
                     /\ aconn[k].up \in Seq(0..Auth) /\ aconn[k].op \in 0..MaxCalls
  /\ ran \in [GuestCall -> 0..MaxCalls] /\ got \in [GuestCall -> 0..MaxCalls]

FgInit ==
  /\ gated \in BOOLEAN /\ token \in {"none", "good", "bad"}
  /\ calls = 0 /\ aopened = 0 /\ apool = <<>>
  /\ gtask = [t \in Task |-> Free]
  /\ aconn = [k \in AgentConn |-> NoConn]
  /\ ran = [o \in GuestCall |-> 0] /\ got = [o \in GuestCall |-> 0]

-----------------------------------------------------------------------------
(* The client *)

Sent(k, r) == [aconn EXCEPT ![k].up = Append(@, r)]
Close(k) == Sent(k, Eof)

\* request_with_read_timeout
Request(t) ==
  /\ gtask[t].at = "idle" /\ calls < MaxCalls
  /\ calls' = calls + 1
  /\ gtask' = [gtask EXCEPT ![t] = [at |-> "pick", op |-> calls', conn |-> 0]]
  /\ UNCHANGED <<gated, token, apool, aopened, aconn, ran, got>>

\* The most recently returned connection is borrowed if it was used within the
\* last second; an older one is closed and the next one tried.
Borrow(t) ==
  /\ gtask[t].at = "pick" /\ apool # <<>>
  /\ LET k == Last(apool)
     IN IF aconn[k].warm
          THEN /\ gtask' = [gtask EXCEPT ![t].at = "sent", ![t].conn = k]
               /\ aconn' = Sent(k, gtask[t].op)
          ELSE aconn' = Close(k) /\ UNCHANGED gtask
  /\ apool' = Front(apool)
  /\ UNCHANGED <<gated, token, calls, aopened, ran, got>>

\* With the pool empty a connection is opened; the auth line goes first.
Open(t) ==
  /\ gtask[t].at = "pick" /\ apool = <<>> /\ aopened < MaxOpen
  /\ aopened' = aopened + 1
  /\ aconn' = [aconn EXCEPT ![aopened'].srv = "backlog",
                          ![aopened'].up = <<IF token = "none" THEN gtask[t].op ELSE Auth>>]
  /\ gtask' = [gtask EXCEPT ![t].at = IF token = "none" THEN "sent" ELSE "auth",
                          ![t].conn = aopened']
  /\ UNCHANGED <<gated, token, calls, apool, ran, got>>

\* connect fails or times out.
OpenFails(t) ==
  /\ gtask[t].at = "pick" /\ apool = <<>>
  /\ gtask' = [gtask EXCEPT ![t] = Free]
  /\ UNCHANGED <<gated, token, calls, apool, aopened, aconn, ran, got>>

\* authenticate: only {"action":"auth","ok":true} lets the request out.
ReadAuth(t) ==
  /\ gtask[t].at = "auth"
  /\ LET k == gtask[t].conn
         d == aconn[k].down
     IN /\ d # <<>>
        /\ IF Head(d).kind = "authok"
             THEN /\ aconn' = [aconn EXCEPT ![k].down = Tail(d),
                                          ![k].up = Append(@, gtask[t].op)]
                  /\ gtask' = [gtask EXCEPT ![t].at = "sent"]
             ELSE aconn' = Close(k) /\ gtask' = [gtask EXCEPT ![t] = Free]
  /\ UNCHANGED <<gated, token, calls, apool, aopened, ran, got>>

\* exchange reads up to the terminal line.  An answer returns the connection to
\* the pool if nothing more is buffered (what is still in the socket does not
\* count) and there is room; an error line drops it.
ReadAnswer(t) ==
  /\ gtask[t].at = "sent"
  /\ LET k == gtask[t].conn
         d == aconn[k].down
         l == Head(d)
     IN /\ d # <<>>
        /\ IF l.kind = "answer"
             THEN /\ got' = [got EXCEPT ![gtask[t].op] = l.op]
                  /\ \/ /\ Len(apool) < WarmCap
                        /\ apool' = Append(apool, k)
                        /\ aconn' = [aconn EXCEPT ![k].down = Tail(d), ![k].warm = TRUE]
                     \/ /\ Len(apool) = WarmCap \/ Len(d) > 1
                        /\ aconn' = Close(k) /\ UNCHANGED apool
             ELSE aconn' = Close(k) /\ UNCHANGED <<got, apool>>
        /\ gtask' = [gtask EXCEPT ![t] = Free]
  /\ UNCHANGED <<gated, token, calls, aopened, ran>>

\* Mutant of GiveUpCall: the connection goes back to the pool.
GiveUpKeeping(t) ==
  /\ gtask[t].at \in {"auth", "sent"} /\ Len(apool) < WarmCap
  /\ apool' = Append(apool, gtask[t].conn)
  /\ gtask' = [gtask EXCEPT ![t] = Free]
  /\ UNCHANGED <<gated, token, calls, aopened, aconn, ran, got>>

\* Mutant of GiveUpCall: the request is tried again on another connection.
GiveUpRetrying(t) ==
  /\ gtask[t].at \in {"auth", "sent"}
  /\ aconn' = Close(gtask[t].conn)
  /\ gtask' = [gtask EXCEPT ![t].at = "pick", ![t].conn = 0]
  /\ UNCHANGED <<gated, token, calls, apool, aopened, ran, got>>

\* A timeout, the guest's end of stream, or a dropped future: the connection
\* goes with the call, which is never tried again.
GiveUpCall(t) ==
  /\ gtask[t].at \in {"auth", "sent"}
  /\ aconn' = Close(gtask[t].conn)
  /\ gtask' = [gtask EXCEPT ![t] = Free]
  /\ UNCHANGED <<gated, token, calls, apool, aopened, ran, got>>

\* A second passes for a connection in the pool.
Ages(k) ==
  /\ k \in Range(apool) /\ aconn[k].warm
  /\ aconn' = [aconn EXCEPT ![k].warm = FALSE]
  /\ UNCHANGED <<gated, token, calls, gtask, apool, aopened, ran, got>>

-----------------------------------------------------------------------------
(* The agent *)

Serving == {k \in AgentConn : aconn[k].srv \in {"auth", "serve", "run"}}

\* run_with_token: a connection is accepted once there is a permit for it.
AgentAccepts(k) ==
  /\ aconn[k].srv = "backlog" /\ Cardinality(Serving) < Permits
  /\ \A j \in AgentConn : aconn[j].srv = "backlog" => k <= j
  /\ aconn' = [aconn EXCEPT ![k].srv = IF gated THEN "auth" ELSE "serve"]
  /\ UNCHANGED <<gated, token, calls, gtask, apool, aopened, ran, got>>

\* Mutant of CheckToken: a first line that is not an auth line is let through.
CheckTokenLeniently(k) ==
  /\ aconn[k].srv = "auth"
  /\ aconn' = IF aconn[k].up # <<>> /\ Head(aconn[k].up) = Auth /\ token = "good"
               THEN [aconn EXCEPT ![k].srv = "serve", ![k].up = Tail(@),
                                 ![k].down = Append(@, Line("authok", 0))]
               ELSE [aconn EXCEPT ![k].srv = "serve"]
  /\ UNCHANGED <<gated, token, calls, gtask, apool, aopened, ran, got>>

\* authenticate: the first line must be the right token within AUTH_TIMEOUT.
CheckToken(k) ==
  /\ aconn[k].srv = "auth"
  /\ \/ /\ aconn[k].up # <<>> /\ Head(aconn[k].up) = Auth /\ token = "good"
        /\ aconn' = [aconn EXCEPT ![k].srv = "serve", ![k].up = Tail(@),
                                ![k].down = Append(@, Line("authok", 0))]
     \/ /\ aconn[k].up # <<>> /\ ~(Head(aconn[k].up) = Auth /\ token = "good")
        /\ aconn' = [aconn EXCEPT ![k].srv = "closed",
                                ![k].down = Append(@, Line("error", 0))]
     \/ /\ aconn[k].up = <<>>
        /\ aconn' = [aconn EXCEPT ![k].srv = "closed"]
  /\ UNCHANGED <<gated, token, calls, gtask, apool, aopened, ran, got>>

\* handle_connection takes a line: an action is executed, an auth line it did
\* not ask for is an unknown action, the end of the stream ends it.
Dispatch(k) ==
  /\ aconn[k].srv = "serve" /\ aconn[k].up # <<>>
  /\ LET r == Head(aconn[k].up)
     IN IF r \in GuestCall
          THEN /\ aconn' = [aconn EXCEPT ![k].srv = "run", ![k].up = Tail(@), ![k].op = r]
               /\ ran' = [ran EXCEPT ![r] = @ + 1]
          ELSE /\ aconn' = IF r = Eof THEN [aconn EXCEPT ![k].srv = "closed"]
                          ELSE [aconn EXCEPT ![k].up = Tail(@),
                                            ![k].down = Append(@, Line("error", 0))]
               /\ UNCHANGED ran
  /\ UNCHANGED <<gated, token, calls, gtask, apool, aopened, got>>

\* The action ends and its one line is written, an answer or an error.  A peer
\* that is gone is noticed only now.
Answer(k, kind) ==
  /\ aconn[k].srv = "run"
  /\ aconn' = [aconn EXCEPT ![k].srv = "serve", ![k].op = 0,
                          ![k].down = Append(@, Line(kind, aconn[k].op))]
  /\ UNCHANGED <<gated, token, calls, gtask, apool, aopened, ran, got>>

FgNext ==
  \/ \E t \in Task : \/ Request(t) \/ Borrow(t) \/ Open(t) \/ OpenFails(t)
                     \/ ReadAuth(t) \/ ReadAnswer(t) \/ GiveUpCall(t)
  \/ \E k \in AgentConn : \/ Ages(k) \/ AgentAccepts(k) \/ CheckToken(k) \/ Dispatch(k)
                     \/ \E kind \in {"answer", "error"} : Answer(k, kind)

FgSpec == FgInit /\ [][FgNext]_fgvars

-----------------------------------------------------------------------------
(* Properties *)

\* Although lines carry no id, a request only ever returns its own answer: a
\* warm connection has no answer of an earlier, abandoned request in it
\* (forkd/guest.rs, the return of a connection to the pool).
WarmAnswersOwn == \A o \in GuestCall : got[o] \in {0, o}

\* A request is executed at most once, however its connection fails, and never
\* for a client without the token of a gated agent (forkd/guest.rs, agent/mod.rs).
GatedAtMostOnce == \A o \in GuestCall : ran[o] <= IF gated /\ token # "good" THEN 0 ELSE 1

\* A caller of a forkd guest gets its own answer, to a request that ran once at most
\* (forkd/guest.rs).
RequestsTrue == WarmAnswersOwn /\ GatedAtMostOnce

=============================================================================
