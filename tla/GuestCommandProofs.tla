------------------------- MODULE GuestCommandProofs -------------------------
(***************************************************************************)
(* What the two command runners of the guest promise, for outputs of any   *)
(* length: the workspace executor (WorkspaceExec) settles a command, and   *)
(* the agent's terminal line (AgentStream) comes after the output it is    *)
(* the end of.                                                             *)
(***************************************************************************)
EXTENDS WorkspaceExec, AgentStream, TLAPS

-----------------------------------------------------------------------------
(* The workspace executor *)

\* A command without a child has written nothing and left nobody; the loop has one.
HasChild ==
  /\ at = "idle" => child = "none" /\ answer = "none"
  /\ at \in {"spawned", "check", "poll", "wait"} => child # "none"
  /\ child = "none" => bg = "none" /\ finished = {} /\ \A s \in Stream : wrote[s] = 0

\* Everything written is in the pipe, captured, or over the capture limit.
Kept(n) == IF n > CaptureLimit THEN CaptureLimit ELSE n
Held ==
  \A s \in Stream :
    unread[s] <= wrote[s] /\ data[s] = Kept(wrote[s] - unread[s])

\* Unless a read failed, both pipes end together, when nobody is left to write to
\* either; nothing is in them then, and nothing comes after.
EndOfFile ==
  /\ ~failure => finished = {} \/ finished = Stream
  /\ ~failure /\ finished = Stream => ~Writers /\ \A s \in Stream : unread[s] = 0
  /\ at = "wait" => finished = Stream

\* An error return but for a failed read has killed the group; a good one has read both
\* pipes to their end, or never had a process.
Settled ==
  /\ answer # "none" => at = "returned"
  /\ answer \in {"refused", "cancelled", "timeout", "broken"} =>
       child \in {"none", "reaped"} /\ bg # "group"
  /\ answer = "ok" => child = "none" \/ (finished = Stream /\ ~failure)

ExecInv == WxTypeOK /\ HasChild /\ Held /\ EndOfFile /\ Settled

\* Steps that leave the pipes alone keep what is held.
LEMMA HeldKept ==
  ASSUME Held, UNCHANGED <<wrote, unread, data>>
  PROVE  Held'
BY DEF Held, Kept

\* A poll moves everything from the open pipes into the captures.
LEMMA PollHolds ==
  ASSUME WxTypeOK, Held, NEW F \in SUBSET Stream,
         data' = [s \in Stream |-> IF s \in F THEN data[s] ELSE Captured(s)],
         unread' = [s \in Stream |-> IF s \in F THEN unread[s] ELSE 0],
         wrote' = wrote
  PROVE  Held' /\ data' \in [Stream -> 0..CaptureLimit] /\ unread' \in [Stream -> 0..MaxChunk]
<1>1. SUFFICES ASSUME NEW s \in Stream
               PROVE  /\ unread'[s] <= wrote'[s] /\ data'[s] = Kept(wrote'[s] - unread'[s])
                      /\ data'[s] \in 0..CaptureLimit /\ unread'[s] \in 0..MaxChunk
  BY DEF Held, Kept
<1>2. /\ wrote[s] \in 0..MaxChunk /\ unread[s] \in 0..MaxChunk /\ data[s] \in 0..CaptureLimit
      /\ unread[s] <= wrote[s] /\ data[s] = Kept(wrote[s] - unread[s])
  BY DEF WxTypeOK, Held
<1>3. CASE s \in F
  BY <1>2, <1>3 DEF Kept
<1>4. CASE s \notin F
  BY <1>2, <1>4, ExecAssumption DEF Kept, Captured
<1> QED
  BY <1>3, <1>4

\* A write adds one chunk to the pipe and to what has been written.
LEMMA WriteHolds ==
  ASSUME WxTypeOK, Held, NEW s \in Stream, Write(s)
  PROVE  Held' /\ wrote' \in [Stream -> 0..MaxChunk] /\ unread' \in [Stream -> 0..MaxChunk]
<1>1. SUFFICES ASSUME NEW u \in Stream
               PROVE  /\ unread'[u] <= wrote'[u] /\ data'[u] = Kept(wrote'[u] - unread'[u])
                      /\ wrote'[u] \in 0..MaxChunk /\ unread'[u] \in 0..MaxChunk
  BY DEF Held, Write, Kept, WxTypeOK
<1>2. /\ wrote[u] \in 0..MaxChunk /\ unread[u] \in 0..MaxChunk /\ data[u] \in 0..CaptureLimit
      /\ unread[u] <= wrote[u] /\ data[u] = Kept(wrote[u] - unread[u])
  BY DEF WxTypeOK, Held
<1>3. data' = data
  BY DEF Write, reads
<1>4. CASE u = s
  <2>1. wrote'[u] = wrote[u] + 1 /\ unread'[u] = unread[u] + 1 /\ wrote[u] < MaxChunk
    BY <1>4 DEF Write, WxTypeOK
  <2> QED
    BY <1>2, <1>3, <2>1, ExecAssumption DEF Kept
<1>5. CASE u # s
  <2>1. wrote'[u] = wrote[u] /\ unread'[u] = unread[u]
    BY <1>5 DEF Write, WxTypeOK
  <2> QED
    BY <1>2, <1>3, <2>1 DEF Kept
<1> QED
  BY <1>4, <1>5

\* Every step of the executor, of its processes and of the clock keeps ExecInv.
LEMMA ExecStep ==
  ASSUME ExecInv, [WxNext]_wxvars
  PROVE  ExecInv'
<1> USE DEF ExecInv
<1>1. CASE Exec
  <2>1. Held'
    BY <1>1, HeldKept DEF Exec, pipes, reads
  <2>2. WxTypeOK'
    BY <1>1 DEF Exec, pipes, reads, WxTypeOK
  <2>3. HasChild' /\ Settled'
    BY <1>1 DEF Exec, pipes, reads, HasChild, Settled
  <2>4. EndOfFile'
    BY <1>1 DEF Exec, pipes, reads, HasChild, EndOfFile, Writers, BgAlive, Stream, Settled
  <2> QED
    BY <2>1, <2>2, <2>3, <2>4
<1>2. CASE Validate
  <2>1. Held'
    BY <1>2, HeldKept DEF Validate, pipes, reads
  <2>2. WxTypeOK'
    BY <1>2 DEF Validate, procs, pipes, reads, FailWith, WxTypeOK
  <2>3. HasChild' /\ Settled'
    BY <1>2 DEF Validate, procs, pipes, reads, FailWith, HasChild, Settled
  <2>4. EndOfFile'
    BY <1>2 DEF Validate, procs, pipes, reads, FailWith, EndOfFile, Writers, BgAlive
  <2> QED
    BY <2>1, <2>2, <2>3, <2>4
<1>3. CASE Check
  <2>1. Held'
    BY <1>3, HeldKept DEF Check, pipes, reads
  <2>2. WxTypeOK'
    BY <1>3 DEF Check, pipes, reads, FailWith, KillGroup, WxTypeOK
  <2>3. HasChild' /\ Settled'
    BY <1>3 DEF Check, pipes, reads, FailWith, KillGroup, HasChild, Settled
  <2>4. EndOfFile'
    BY <1>3 DEF Check, pipes, reads, FailWith, KillGroup, EndOfFile, Writers, BgAlive
  <2> QED
    BY <2>1, <2>2, <2>3, <2>4
<1>4. CASE Poll
  <2>1. CASE FailWith("broken") /\ UNCHANGED <<unread, reads>>
    <3>1. Held'
      BY <1>4, <2>1, HeldKept DEF Poll, reads
    <3>2. WxTypeOK'
      BY <1>4, <2>1 DEF Poll, reads, FailWith, WxTypeOK
    <3>3. HasChild' /\ Settled'
      BY <1>4, <2>1 DEF Poll, reads, FailWith, HasChild, Settled
    <3>4. EndOfFile'
      BY <1>4, <2>1 DEF Poll, reads, FailWith, EndOfFile, Writers, BgAlive
    <3> QED
      BY <3>1, <3>2, <3>3, <3>4
  <2>2. ASSUME NEW F \in SUBSET (Stream \ finished),
               data' = [s \in Stream |-> IF s \in finished \cup F THEN data[s] ELSE Captured(s)],
               unread' = [s \in Stream |-> IF s \in finished \cup F THEN unread[s] ELSE 0],
               finished' = (IF Writers THEN finished \cup F ELSE Stream),
               failure' = (failure \/ F # {}),
               at' = (IF finished' = Stream THEN "wait" ELSE "check"),
               UNCHANGED <<answer, procs>>
        PROVE  ExecInv'
    <3>1. wrote' = wrote /\ finished \cup F \in SUBSET Stream
      BY <1>4 DEF Poll, WxTypeOK
    <3>2. Held' /\ data' \in [Stream -> 0..CaptureLimit] /\ unread' \in [Stream -> 0..MaxChunk]
      BY <2>2, <3>1, PollHolds
    <3>3. failure' \in BOOLEAN
      BY <2>2 DEF WxTypeOK
    <3>4. WxTypeOK'
      BY <1>4, <2>2, <3>1, <3>2, <3>3 DEF Poll, procs, WxTypeOK
    <3>5. HasChild' /\ Settled'
      BY <1>4, <2>2 DEF Poll, procs, HasChild, Settled, Stream
    <3>6. EndOfFile'
      BY <1>4, <2>2 DEF Poll, procs, EndOfFile, Writers, BgAlive, WxTypeOK, Stream
    <3> QED
      BY <3>2, <3>4, <3>5, <3>6
  <2> QED
    BY <1>4, <2>1, <2>2 DEF Poll
<1>5. CASE Wait
  <2>1. Held'
    BY <1>5, HeldKept DEF Wait, pipes, reads
  <2>2. WxTypeOK'
    BY <1>5 DEF Wait, pipes, reads, FailWith, WxTypeOK
  <2>3. HasChild' /\ Settled'
    BY <1>5 DEF Wait, pipes, reads, FailWith, HasChild, Settled, EndOfFile
  <2>4. EndOfFile'
    BY <1>5 DEF Wait, pipes, reads, FailWith, EndOfFile, Writers, BgAlive
  <2> QED
    BY <2>1, <2>2, <2>3, <2>4
<1>6. ASSUME NEW s \in Stream, Write(s) PROVE ExecInv'
  <2>1. Held' /\ wrote' \in [Stream -> 0..MaxChunk] /\ unread' \in [Stream -> 0..MaxChunk]
    BY <1>6, WriteHolds
  <2>2. WxTypeOK'
    BY <1>6, <2>1 DEF Write, procs, reads, WxTypeOK
  <2>3. HasChild' /\ Settled'
    BY <1>6 DEF Write, procs, reads, HasChild, Settled, Writers, BgAlive
  <2>4. EndOfFile'
    BY <1>6 DEF Write, procs, reads, EndOfFile, Writers, BgAlive, Stream
  <2> QED
    BY <2>1, <2>2, <2>3, <2>4
<1>7. CASE CloseStdio
  BY <1>7, HeldKept
     DEF CloseStdio, pipes, reads, WxTypeOK, HasChild, EndOfFile, Settled, Writers, BgAlive
<1>8. CASE Fork
  <2>1. Held'
    BY <1>8, HeldKept DEF Fork, pipes, reads
  <2>2. WxTypeOK'
    BY <1>8 DEF Fork, pipes, reads, WxTypeOK
  <2>3. HasChild' /\ Settled'
    BY <1>8 DEF Fork, pipes, reads, HasChild, Settled
  <2>4. EndOfFile'
    BY <1>8 DEF Fork, pipes, reads, EndOfFile, Writers, BgAlive
  <2> QED
    BY <2>1, <2>2, <2>3, <2>4
<1>9. CASE Exit
  <2>1. Held'
    BY <1>9, HeldKept DEF Exit, pipes, reads
  <2>2. WxTypeOK'
    BY <1>9 DEF Exit, pipes, reads, WxTypeOK
  <2>3. HasChild' /\ Settled'
    BY <1>9 DEF Exit, pipes, reads, HasChild, Settled, BgAlive
  <2>4. EndOfFile'
    BY <1>9 DEF Exit, pipes, reads, EndOfFile, Writers, BgAlive
  <2> QED
    BY <2>1, <2>2, <2>3, <2>4
<1>10. CASE DeadlinePasses \/ WindowPasses \/ Cancel
  <2>1. Held'
    BY <1>10, HeldKept DEF DeadlinePasses, WindowPasses, Cancel, pipes, reads
  <2>2. WxTypeOK'
    BY <1>10 DEF DeadlinePasses, WindowPasses, Cancel, procs, pipes, reads, WxTypeOK
  <2>3. HasChild' /\ Settled'
    BY <1>10 DEF DeadlinePasses, WindowPasses, Cancel, procs, pipes, reads, HasChild, Settled
  <2>4. EndOfFile'
    BY <1>10 DEF DeadlinePasses, WindowPasses, Cancel, procs, pipes, reads, EndOfFile, Writers, BgAlive
  <2> QED
    BY <2>1, <2>2, <2>3, <2>4
<1>11. CASE UNCHANGED wxvars
  BY <1>11, HeldKept
     DEF wxvars, WxTypeOK, HasChild, EndOfFile, Settled, Writers, BgAlive
<1> QED
  BY <1>1, <1>2, <1>3, <1>4, <1>5, <1>6, <1>7, <1>8, <1>9, <1>10, <1>11 DEF WxNext, ExecThread

\* In every behaviour of the workspace executor (process.rs exec_inner) the pipes,
\* the captures and the processes agree in the way ExecInv says.
THEOREM ExecInductive == WxSpec => []ExecInv
<1>1. WxInit => ExecInv
  <2>1. WxInit => Held
    BY ExecAssumption DEF WxInit, Held, Kept
  <2>2. WxInit => WxTypeOK
    <3>1. WxInit => {cancel, late, drainLate, closed, bgHolds, failure} \subseteq BOOLEAN
      BY Zenon DEF WxInit
    <3> QED
      BY <3>1, ExecAssumption DEF WxInit, WxTypeOK
  <2>3. WxInit => HasChild /\ Settled
    BY DEF WxInit, HasChild, Settled
  <2>4. WxInit => EndOfFile
    BY DEF WxInit, EndOfFile, Stream
  <2> QED
    BY <2>1, <2>2, <2>3, <2>4 DEF ExecInv
<1> QED
  BY <1>1, ExecStep, PTL DEF WxSpec

\* The executor's state keeps its types, whatever the command writes.
THEOREM ExecTypes == WxSpec => []WxTypeOK
BY ExecInductive, PTL DEF ExecInv

\* A command that was refused, cancelled, timed out or could not be polled or waited for
\* leaves nobody of its process group, and a result holds all that was written up to the
\* capture limit, for every amount of output, every limit, and every order of exits,
\* forks, deadlines, windows and failed reads.
THEOREM CommandsSettle == WxSpec => []ExecSettles
<1>1. ExecInv => ExecSettles
  BY DEF ExecInv, ExecSettles, ErrorKillsGroup, ResultIsWhole, WxTypeOK, HasChild, Held, Kept,
         EndOfFile, Settled
<1> QED
  BY <1>1, ExecInductive, PTL

-----------------------------------------------------------------------------
(* The guest agent's exec and stream *)

\* Where the handler is says how far the command is.
StagesAgree ==
  /\ sat = "new" => cmd = "none"
  /\ sat = "loop" => cmd \in {"running", "exited"}
  /\ sat = "join" => cmd # "none"
  /\ sat = "drain" => cmd = "reaped" /\ end \in {"exit", "stopped", "timeout"}
  /\ sat \in {"new", "loop", "join"} => end = "none"
  /\ cmd = "none" => kin = "none"

\* A pipe the handler no longer reads has been read to its end, and nobody is left to
\* write to it.
ClosedIsRead ==
  cmd # "none" =>
    \A p \in Pipe \ piped :
      sentout[p] = printed[p] /\ cmd # "running" /\ kin # "alive"

\* An exit line waits for both pipes or for two drains cut short; a deadline or a stop
\* has killed the group.
EndsClean ==
  /\ sat = "over" /\ end = "exit" => cmd = "reaped" /\ (tries = 0 => piped = {})
  /\ end \in {"timeout", "stopped"} => cmd = "reaped" /\ kin # "alive"

\* The types in two parts, the handler with its command and the line with its client.
HandlerTypes ==
  /\ mode \in {"exec", "stream"}
  /\ sat \in {"new", "loop", "join", "drain", "over"}
  /\ cmd \in {"none", "running", "exited", "reaped"} /\ kin \in {"none", "alive", "gone"}
  /\ printed \in [Pipe -> 0..MaxPieces] /\ sentout \in [Pipe -> 0..MaxPieces]
  /\ piped \subseteq Pipe /\ tries \in 0..2
  /\ end \in {"none", "exit", "stopped", "timeout", "failed"}

Segment == {"stop", "in", "stop1", "stop2", "eof"}
LineTypes ==
  /\ segs \in Seq(Segment) /\ half \in {"", "stop1"}
  /\ lines \in 0..MaxLines
Flags == cstop \in BOOLEAN /\ cterm \in BOOLEAN /\ chere \in BOOLEAN

LEMMA TypesSplit == AsTypeOK <=> HandlerTypes /\ LineTypes /\ Flags
BY DEF AsTypeOK, HandlerTypes, LineTypes, Flags, Segment, Ends

StreamInv == HandlerTypes /\ LineTypes /\ Flags /\ StagesAgree /\ ClosedIsRead /\ EndsClean

\* Reading a pipe takes a chunk that was printed, or latches the end of the pipe.
LEMMA ReadsHold ==
  ASSUME HandlerTypes, ClosedIsRead, NEW p \in Pipe, Reads(p), UNCHANGED <<cmd, kin, printed>>
  PROVE  /\ ClosedIsRead'
         /\ sentout' \in [Pipe -> 0..MaxPieces]
         /\ piped' \subseteq piped
<1>1. CASE Readable(p) /\ sentout' = [sentout EXCEPT ![p] = @ + 1] /\ UNCHANGED piped
  <2>1. p \in piped /\ sentout[p] \in 0..MaxPieces /\ printed[p] \in 0..MaxPieces
        /\ sentout[p] < printed[p]
    BY <1>1 DEF Readable, HandlerTypes
  <2>2. sentout[p] + 1 \in 0..MaxPieces
    BY <2>1, StreamAssumption
  <2>3. sentout' \in [Pipe -> 0..MaxPieces]
    BY <1>1, <2>2 DEF HandlerTypes
  <2>4. \A q \in Pipe \ piped : sentout'[q] = sentout[q]
    BY <1>1, <2>1 DEF HandlerTypes
  <2> QED
    BY <1>1, <2>3, <2>4 DEF ClosedIsRead
<1>2. CASE AtEof(p) /\ piped' = piped \ {p} /\ UNCHANGED sentout
  BY <1>2 DEF AtEof, ClosedIsRead, HandlerTypes
<1> QED
  BY <1>1, <1>2 DEF Reads

LEMMA TailStays ==
  ASSUME NEW S, NEW q \in Seq(S), q # <<>>
  PROVE  Tail(q) \in Seq(S)
OBVIOUS

\* The handler's steps leave the client alone and consume the line.
LEMMA LineKept ==
  ASSUME LineTypes, Flags, UNCHANGED client,
         segs' = segs \/ (segs # <<>> /\ segs' = Tail(segs)),
         half' = half \/ half' \in {"", "stop1"}
  PROVE  LineTypes' /\ Flags'
<1>1. segs' \in Seq(Segment)
  <2>1. segs \in Seq(Segment)
    BY DEF LineTypes
  <2>2. segs # <<>> => Tail(segs) \in Seq(Segment)
    BY <2>1, TailStays
  <2> QED
    BY <2>1, <2>2
<1>2. LineTypes'
  BY <1>1 DEF LineTypes, client
<1>3. Flags'
  BY DEF Flags, client
<1> QED
  BY <1>2, <1>3

\* Every step of the handler, the command and the client keeps StreamInv.
LEMMA StreamStep ==
  ASSUME StreamInv, [AsNext]_asvars
  PROVE  StreamInv'
<1> USE DEF StreamInv
<1>1. CASE Spawn
  <2>1. LineTypes' /\ Flags'
    BY <1>1, LineKept DEF Spawn
  <2>2. HandlerTypes'
    BY <1>1 DEF Spawn, HandlerTypes
  <2>3. StagesAgree' /\ EndsClean'
    BY <1>1 DEF Spawn, StagesAgree, EndsClean
  <2>4. ClosedIsRead'
    BY <1>1 DEF Spawn, StagesAgree, ClosedIsRead
  <2> QED
    BY <2>1, <2>2, <2>3, <2>4
<1>2. ASSUME NEW p \in Pipe, ChildWrites(p) PROVE StreamInv'
  <2>1. printed[p] \in 0..MaxPieces /\ printed[p] < MaxPieces /\ cmd = "running"
    BY <1>2 DEF ChildWrites, HandlerTypes
  <2>2. printed[p] + 1 \in 0..MaxPieces
    BY <2>1, StreamAssumption
  <2>3. HandlerTypes'
    BY <1>2, <2>2 DEF ChildWrites, HandlerTypes
  <2>4. LineTypes' /\ Flags'
    BY <1>2, LineKept DEF ChildWrites
  <2>5. StagesAgree' /\ EndsClean'
    BY <1>2 DEF ChildWrites, StagesAgree, EndsClean
  <2>6. ClosedIsRead'
    BY <1>2, <2>1 DEF ChildWrites, ClosedIsRead
  <2> QED
    BY <2>3, <2>4, <2>5, <2>6
<1>3. CASE ChildForks \/ ChildExits \/ KinExits
  <2>1. LineTypes' /\ Flags'
    BY <1>3, LineKept DEF ChildForks, ChildExits, KinExits
  <2>2. HandlerTypes'
    BY <1>3 DEF ChildForks, ChildExits, KinExits, HandlerTypes
  <2>3. StagesAgree' /\ EndsClean'
    BY <1>3 DEF ChildForks, ChildExits, KinExits, StagesAgree, EndsClean
  <2>4. ClosedIsRead'
    BY <1>3 DEF ChildForks, ChildExits, KinExits, ClosedIsRead, StagesAgree
  <2> QED
    BY <2>1, <2>2, <2>3, <2>4
<1>4. ASSUME NEW p \in Pipe, Join(p) \/ PipeBranch(p) \/ DrainReads(p) PROVE StreamInv'
  <2>1. /\ Reads(p)
        /\ UNCHANGED <<mode, sat, cmd, kin, printed, tries, end, segs, client>>
        /\ half' = half \/ half' = ""
    BY <1>4 DEF Join, PipeBranch, DrainReads, proc
  <2>2. ClosedIsRead' /\ sentout' \in [Pipe -> 0..MaxPieces] /\ piped' \subseteq piped
    BY <2>1, ReadsHold
  <2>3. HandlerTypes'
    BY <2>1, <2>2 DEF HandlerTypes
  <2>4. LineTypes' /\ Flags'
    BY <2>1, LineKept
  <2>5. StagesAgree' /\ EndsClean'
    BY <2>1, <2>2 DEF StagesAgree, EndsClean
  <2> QED
    BY <2>2, <2>3, <2>4, <2>5
<1>5. CASE JoinWait \/ Joined \/ ExecDeadline
  <2>1. LineTypes' /\ Flags'
    BY <1>5, LineKept DEF JoinWait, Joined, ExecDeadline
  <2>2. HandlerTypes'
    BY <1>5 DEF JoinWait, Joined, ExecDeadline, proc, HandlerTypes
  <2>3. StagesAgree' /\ EndsClean'
    BY <1>5 DEF JoinWait, Joined, ExecDeadline, proc, StagesAgree, EndsClean
  <2>4. ClosedIsRead'
    BY <1>5 DEF JoinWait, Joined, ExecDeadline, proc, ClosedIsRead, StagesAgree
  <2> QED
    BY <2>1, <2>2, <2>3, <2>4
<1>6. CASE WaitBranch \/ DeadlineBranch
  <2>1. LineTypes' /\ Flags'
    BY <1>6, LineKept DEF WaitBranch, DeadlineBranch
  <2>2. HandlerTypes'
    BY <1>6 DEF WaitBranch, DeadlineBranch, Terminated, HandlerTypes
  <2>3. StagesAgree' /\ EndsClean'
    BY <1>6 DEF WaitBranch, DeadlineBranch, Terminated, StagesAgree, EndsClean
  <2>4. ClosedIsRead'
    BY <1>6 DEF WaitBranch, DeadlineBranch, Terminated, ClosedIsRead, StagesAgree
  <2> QED
    BY <2>1, <2>2, <2>3, <2>4
<1>7. CASE LineBranch
  <2>1. /\ sat = "loop" /\ segs # <<>> /\ segs' = Tail(segs)
        /\ half' = "stop1" \/ half' = ""
        /\ \/ Terminated /\ sat' = "drain" /\ end' = "stopped"
           \/ UNCHANGED <<sat, cmd, kin, end>>
        /\ UNCHANGED <<mode, printed, sentout, piped, tries, client>>
    BY <1>7 DEF LineBranch
  <2>2. LineTypes' /\ Flags'
    BY <2>1, LineKept
  <2>3. HandlerTypes'
    BY <2>1 DEF Terminated, HandlerTypes
  <2>4. StagesAgree' /\ EndsClean'
    BY <2>1 DEF Terminated, StagesAgree, EndsClean
  <2>5. ClosedIsRead'
    BY <2>1 DEF Terminated, ClosedIsRead, StagesAgree
  <2> QED
    BY <2>2, <2>3, <2>4, <2>5
<1>8. CASE DrainCap \/ Drained \/ WriteFails
  <2>1. LineTypes' /\ Flags'
    BY <1>8, LineKept DEF DrainCap, Drained, WriteFails
  <2>2. HandlerTypes'
    BY <1>8 DEF DrainCap, Drained, WriteFails, Terminated, proc, HandlerTypes
  <2>3. StagesAgree'
    BY <1>8 DEF DrainCap, Drained, WriteFails, Terminated, proc, StagesAgree
  <2>4. EndsClean'
    BY <1>8 DEF DrainCap, Drained, WriteFails, Terminated, proc, HandlerTypes, StagesAgree, EndsClean
  <2>5. ClosedIsRead'
    BY <1>8 DEF DrainCap, Drained, WriteFails, Terminated, proc, ClosedIsRead, StagesAgree
  <2> QED
    BY <2>1, <2>2, <2>3, <2>4, <2>5
<1>9. CASE ClientInput \/ ClientStop \/ ClientSeesEnd \/ ClientLeaves
  <2>1. UNCHANGED <<mode, sat, cmd, kin, printed, sentout, piped, tries, end, half>>
    BY <1>9 DEF ClientInput, ClientStop, ClientSeesEnd, ClientLeaves, proc
  <2>2. segs' \in Seq(Segment)
    <3>1. segs \in Seq(Segment)
      BY DEF LineTypes
    <3>2. \A g \in Segment : Append(segs, g) \in Seq(Segment)
      BY <3>1
    <3>3. segs \o <<"stop1", "stop2">> \in Seq(Segment)
      BY <3>1 DEF Segment
    <3>4. \/ segs' = segs \/ segs' = segs \o <<"stop1", "stop2">>
          \/ \E g \in {"in", "stop", "eof"} : segs' = Append(segs, g)
      BY <1>9 DEF ClientInput, ClientStop, ClientSeesEnd, ClientLeaves
    <3>5. {"in", "stop", "eof"} \subseteq Segment
      BY DEF Segment
    <3> QED
      BY <3>1, <3>2, <3>3, <3>4, <3>5
  <2>3. lines' \in 0..MaxLines
    <3>1. lines' = lines \/ (lines < MaxLines /\ lines' = lines + 1)
      BY <1>9 DEF ClientInput, ClientStop, ClientSeesEnd, ClientLeaves
    <3>2. lines \in 0..MaxLines
      BY DEF LineTypes
    <3> QED
      BY <3>1, <3>2, StreamAssumption
  <2>4. Flags'
    BY <1>9 DEF ClientInput, ClientStop, ClientSeesEnd, ClientLeaves, Flags
  <2>5. LineTypes'
    BY <2>1, <2>2, <2>3 DEF LineTypes
  <2>6. HandlerTypes' /\ StagesAgree' /\ ClosedIsRead' /\ EndsClean'
    BY <2>1 DEF HandlerTypes, StagesAgree, ClosedIsRead, EndsClean
  <2> QED
    BY <2>4, <2>5, <2>6
<1>10. CASE UNCHANGED asvars
  <2>1. LineTypes' /\ Flags'
    BY <1>10, LineKept DEF asvars, client
  <2> QED
    BY <1>10, <2>1 DEF asvars, HandlerTypes, StagesAgree, ClosedIsRead, EndsClean
<1> QED
  BY <1>1, <1>2, <1>3, <1>4, <1>5, <1>6, <1>7, <1>8, <1>9, <1>10 DEF AsNext

\* In every behaviour of the agent's exec and stream handlers (process_exec.rs,
\* stream.rs) the handler, the pipes and the processes agree in the way StreamInv says.
THEOREM StreamInductive == AsSpec => []StreamInv
<1>1. AsInit => StreamInv
  <2>1. AsInit => HandlerTypes
    <3>1. 0 \in 0..MaxPieces
      BY StreamAssumption
    <3>2. AsInit => printed \in [Pipe -> 0..MaxPieces] /\ sentout \in [Pipe -> 0..MaxPieces]
      BY <3>1 DEF AsInit
    <3>3. AsInit => piped \subseteq Pipe /\ tries \in 0..2
      <4>1. AsInit => piped = {} /\ tries = 0
        BY DEF AsInit
      <4> QED
        BY <4>1
    <3> QED
      BY <3>2, <3>3 DEF AsInit, HandlerTypes
  <2>2. AsInit => LineTypes
    <3>1. 0 \in 0..MaxLines
      BY StreamAssumption
    <3>2. AsInit => segs \in Seq(Segment)
      <4>1. AsInit => segs = <<>>
        BY DEF AsInit
      <4> QED
        BY <4>1
    <3> QED
      BY <3>1, <3>2 DEF AsInit, LineTypes
  <2>3. AsInit => Flags
    BY DEF AsInit, Flags
  <2>4. AsInit => StagesAgree /\ EndsClean
    BY DEF AsInit, StagesAgree, EndsClean
  <2>5. AsInit => ClosedIsRead
    BY DEF AsInit, ClosedIsRead
  <2> QED
    BY <2>1, <2>2, <2>3, <2>4, <2>5 DEF StreamInv
<1> QED
  BY <1>1, StreamStep, PTL DEF AsSpec

\* The handler's state keeps its types, whatever the command and the client do.
THEOREM StreamTypes == AsSpec => []AsTypeOK
BY StreamInductive, TypesSplit, PTL DEF StreamInv

\* An exit line whose drain was not cut short follows all output of the child, and a
\* command ended by its deadline or by a stop leaves no process behind, for every
\* amount of output and every number of input lines.
THEOREM StreamsEndWhole == AsSpec => []EndsWhole
<1>1. StreamInv => EndsWhole
  <2>1. SUFFICES ASSUME StreamInv, sat = "over", end = "exit", tries = 0
                 PROVE  sentout = printed
    BY DEF StreamInv, EndsClean, EndsWhole
  <2>2. \A p \in Pipe : sentout[p] = printed[p]
    BY <2>1 DEF StreamInv, EndsClean, ClosedIsRead
  <2> QED
    <3>1. sentout \in [Pipe -> 0..MaxPieces] /\ printed \in [Pipe -> 0..MaxPieces]
      BY <2>1 DEF StreamInv, HandlerTypes
    <3> QED
      BY <3>1, <2>2
<1> QED
  BY <1>1, StreamInductive, PTL

=============================================================================
