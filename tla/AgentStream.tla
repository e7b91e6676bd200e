----------------------------- MODULE AgentStream -----------------------------
(*****************************************************************************)
(* One command of the guest agent, run by `exec` or `stream`                 *)
(* (rfb-runtime/src/agent/process_exec.rs, stream.rs), and the client that   *)
(* reads the stream (ForkdGuestStream, rfb/src/forkd/guest.rs).              *)
(*                                                                           *)
(* The child leads its own process group; `kin` stands for a descendant that *)
(* keeps the inherited pipes open.  Output is counted in chunks.  A line the *)
(* client sends may arrive in two segments.                                  *)
(*****************************************************************************)
EXTENDS Integers, Sequences

CONSTANTS
  MaxPieces,  \* chunks written per pipe
  MaxLines    \* lines the client sends

ASSUME StreamAssumption == MaxPieces \in Nat /\ MaxLines \in Nat

VARIABLES
  mode,     \* exec or stream
  sat,      \* where the handler is
  cmd,      \* none, running, exited, reaped
  kin,      \* none, alive, gone
  printed,  \* chunks the child has written to each pipe
  sentout,  \* chunks read off each pipe, to emit (stream) or capture (exec)
  piped,    \* pipes the handler still reads
  tries,    \* drains that ran into DRAIN_CAP
  end,      \* the terminal line: none, exit, stopped, timeout, failed
  segs,     \* segments of lines on the way to the agent
  half,     \* the part of a line that read_line_bounded has buffered
  lines,    \* lines the client has sent
  cstop,    \* ForkdGuestStream.stopped
  cterm,    \* ForkdGuestStream.terminal
  chere     \* the client still holds the connection

asvars == <<mode, sat, cmd, kin, printed, sentout, piped, tries, end, segs, half, lines, cstop,
            cterm, chere>>
proc == <<cmd, kin, printed>>
client == <<lines, cstop, cterm, chere>>

Pipe == {"out", "err"}
Ends == {"exit", "stopped", "timeout", "failed"}

AsTypeOK ==
  /\ mode \in {"exec", "stream"}
  /\ sat \in {"new", "loop", "join", "drain", "over"}
  /\ cmd \in {"none", "running", "exited", "reaped"} /\ kin \in {"none", "alive", "gone"}
  /\ printed \in [Pipe -> 0..MaxPieces] /\ sentout \in [Pipe -> 0..MaxPieces]
  /\ piped \subseteq Pipe /\ tries \in 0..2
  /\ end \in {"none"} \cup Ends
  /\ segs \in Seq({"stop", "in", "stop1", "stop2", "eof"}) /\ half \in {"", "stop1"}
  /\ lines \in 0..MaxLines
  /\ cstop \in BOOLEAN /\ cterm \in BOOLEAN /\ chere \in BOOLEAN

AsInit ==
  /\ mode \in {"exec", "stream"} /\ sat = "new"
  /\ cmd = "none" /\ kin = "none"
  /\ printed = [p \in Pipe |-> 0] /\ sentout = [p \in Pipe |-> 0] /\ piped = {}
  /\ tries = 0 /\ end = "none" /\ segs = <<>> /\ half = ""
  /\ lines = 0 /\ cstop = FALSE /\ cterm = FALSE /\ chere = TRUE

-----------------------------------------------------------------------------
(* The command *)

\* command_from and spawn; a request that does not validate, a PTY or a builtin
\* never gets a child and is over at once.
Spawn ==
  /\ sat = "new"
  /\ \/ /\ cmd' = "running" /\ piped' = Pipe /\ UNCHANGED end
        /\ sat' = IF mode = "exec" THEN "join" ELSE "loop"
     \/ /\ sat' = "over" /\ end' = "failed" /\ UNCHANGED <<cmd, piped>>
  /\ UNCHANGED <<mode, kin, printed, sentout, tries, segs, half, client>>

ChildWrites(p) ==
  /\ cmd = "running" /\ printed[p] < MaxPieces
  /\ printed' = [printed EXCEPT ![p] = @ + 1]
  /\ UNCHANGED <<mode, sat, cmd, kin, sentout, piped, tries, end, segs, half, client>>

ChildForks ==
  /\ cmd = "running" /\ kin = "none"
  /\ kin' = "alive"
  /\ UNCHANGED <<mode, sat, cmd, printed, sentout, piped, tries, end, segs, half, client>>

ChildExits ==
  /\ cmd = "running"
  /\ cmd' = "exited"
  /\ UNCHANGED <<mode, sat, kin, printed, sentout, piped, tries, end, segs, half, client>>

KinExits ==
  /\ kin = "alive"
  /\ kin' = "gone"
  /\ UNCHANGED <<mode, sat, cmd, printed, sentout, piped, tries, end, segs, half, client>>

\* A read returns a chunk, or the end once nobody holds the write end.
Readable(p) == p \in piped /\ sentout[p] < printed[p]
AtEof(p) == p \in piped /\ sentout[p] = printed[p] /\ cmd # "running" /\ kin # "alive"

\* Both pipes are read into bounded captures or emitted as lines; the end of a
\* pipe is latched.
Reads(p) ==
  \/ Readable(p) /\ sentout' = [sentout EXCEPT ![p] = @ + 1] /\ UNCHANGED piped
  \/ AtEof(p) /\ piped' = piped \ {p} /\ UNCHANGED sentout

\* terminate: SIGKILL to the process group.  Child::id() is None once the child
\* has been waited for, and then nothing is killed.
Terminated ==
  /\ cmd' = "reaped"
  /\ kin' = IF kin = "alive" /\ cmd # "reaped" THEN "gone" ELSE kin

-----------------------------------------------------------------------------
(* exec *)

\* The wait future: both captures and the exit status, concurrently.
Join(p) ==
  /\ sat = "join" /\ Reads(p)
  /\ UNCHANGED <<mode, sat, proc, tries, end, segs, half, client>>

JoinWait ==
  /\ sat = "join" /\ cmd = "exited"
  /\ cmd' = "reaped"
  /\ UNCHANGED <<mode, sat, kin, printed, sentout, piped, tries, end, segs, half, client>>

Joined ==
  /\ sat = "join" /\ cmd = "reaped" /\ piped = {}
  /\ sat' = "over" /\ end' = "exit"
  /\ UNCHANGED <<mode, proc, sentout, piped, tries, segs, half, client>>

\* Mutant of ExecDeadline: only the child is killed.
ExecDeadlineChild ==
  /\ sat = "join"
  /\ cmd' = "reaped" /\ sat' = "over" /\ end' = "timeout"
  /\ UNCHANGED <<mode, kin, printed, sentout, piped, tries, segs, half, client>>

\* The deadline, always set, passes: terminate_id kills the group by the id taken
\* at the start, whether or not the child has been waited for.
ExecDeadline ==
  /\ sat = "join"
  /\ cmd' = "reaped" /\ kin' = IF kin = "alive" THEN "gone" ELSE kin
  /\ sat' = "over" /\ end' = "timeout"
  /\ UNCHANGED <<mode, printed, sentout, piped, tries, segs, half, client>>

-----------------------------------------------------------------------------
(* stream: the select loop.  A branch that completes drops the line read of the *)
(* others, and with it what that had buffered.                                  *)

PipeBranch(p) ==
  /\ sat = "loop" /\ Reads(p)
  /\ half' = ""
  /\ UNCHANGED <<mode, sat, proc, tries, end, segs, client>>

\* Mutant of WaitBranch: the terminal line does not wait for the pipes.
WaitWithoutDrain ==
  /\ sat = "loop" /\ cmd = "exited"
  /\ cmd' = "reaped"
  /\ sat' = "over" /\ end' = "exit" /\ half' = ""
  /\ UNCHANGED <<mode, kin, printed, sentout, piped, tries, segs, client>>

WaitBranch ==
  /\ sat = "loop" /\ cmd = "exited"
  /\ cmd' = "reaped"
  /\ sat' = "drain" /\ end' = "exit" /\ half' = ""
  /\ UNCHANGED <<mode, kin, printed, sentout, piped, tries, segs, client>>

\* The request's timeout, if it has one; a stdin forward that blocks for
\* STDIN_FORWARD_TIMEOUT ends the stream like a stop.
DeadlineBranch ==
  /\ sat = "loop"
  /\ Terminated
  /\ sat' = "drain" /\ end' \in {"timeout", "stopped"} /\ half' = ""
  /\ UNCHANGED <<mode, printed, sentout, piped, tries, segs, client>>

\* read_line_bounded: the first segment of a line only fills the buffer; a line
\* that is not JSON is ignored.
LineBranch ==
  /\ sat = "loop" /\ segs # <<>>
  /\ LET g == Head(segs)
         stop == g = "stop" \/ g = "eof" \/ (g = "stop2" /\ half = "stop1")
     IN /\ segs' = Tail(segs)
        /\ half' = IF g = "stop1" THEN g ELSE ""
        /\ IF stop THEN Terminated /\ sat' = "drain" /\ end' = "stopped"
                   ELSE UNCHANGED <<sat, cmd, kin, end>>
  /\ UNCHANGED <<mode, printed, sentout, piped, tries, client>>

\* drain_streams_bounded: both pipes to their end, the terminal line after that.
DrainReads(p) ==
  /\ sat = "drain" /\ Reads(p)
  /\ UNCHANGED <<mode, sat, proc, tries, end, segs, half, client>>

\* DRAIN_CAP passes, over a pipe that somebody keeps open or a client that reads
\* slowly: the chunk being emitted is lost, terminate, and one more try.
DrainCap ==
  /\ sat = "drain" /\ piped # {}
  /\ tries < 2 /\ tries' = tries + 1
  /\ Terminated
  /\ UNCHANGED <<mode, sat, printed, sentout, piped, end, segs, half, client>>

Drained ==
  /\ sat = "drain" /\ (piped = {} \/ tries = 2)
  /\ sat' = "over"
  /\ UNCHANGED <<mode, proc, sentout, piped, tries, end, segs, half, client>>

\* A write fails because the client is gone: the child is killed on drop, alone.
WriteFails ==
  /\ sat \in {"loop", "drain"} /\ ~chere
  /\ cmd' = "reaped" /\ sat' = "over" /\ end' = "failed"
  /\ UNCHANGED <<mode, kin, printed, sentout, piped, tries, segs, half, client>>

-----------------------------------------------------------------------------
(* The client *)

ClientInput ==
  /\ mode = "stream" /\ chere /\ ~cterm /\ ~cstop /\ lines < MaxLines
  /\ lines' = lines + 1
  /\ segs' = Append(segs, "in")
  /\ UNCHANGED <<mode, sat, proc, sentout, piped, tries, end, half, cstop, cterm, chere>>

\* stop() is sent once: `stopped` is latched when its write succeeded.
ClientStop ==
  /\ mode = "stream" /\ chere /\ ~cterm /\ ~cstop
  /\ cstop' = TRUE
  /\ segs' \in {Append(segs, "stop"), segs \o <<"stop1", "stop2">>}
  /\ UNCHANGED <<mode, sat, proc, sentout, piped, tries, end, half, lines, cterm, chere>>

\* next_event returns the line with exit_code.
ClientSeesEnd ==
  /\ chere /\ sat = "over" /\ end # "none" /\ ~cterm
  /\ cterm' = TRUE
  /\ UNCHANGED <<mode, sat, proc, sentout, piped, tries, end, segs, half, lines, cstop, chere>>

ClientLeaves ==
  /\ chere
  /\ chere' = FALSE
  /\ segs' = Append(segs, "eof")
  /\ UNCHANGED <<mode, sat, proc, sentout, piped, tries, end, half, lines, cstop, cterm>>

AsNext ==
  \/ Spawn \/ ChildForks \/ ChildExits \/ KinExits
  \/ \E p \in Pipe : ChildWrites(p) \/ Join(p) \/ PipeBranch(p) \/ DrainReads(p)
  \/ JoinWait \/ Joined \/ ExecDeadline \/ WaitBranch \/ DeadlineBranch \/ LineBranch
  \/ DrainCap \/ Drained \/ WriteFails
  \/ ClientInput \/ ClientStop \/ ClientSeesEnd \/ ClientLeaves

AsSpec == AsInit /\ [][AsNext]_asvars

-----------------------------------------------------------------------------
(* Properties *)

\* "Always drain both pipes before the terminal frame so output and exit status
\* cannot race": unless the drain was cut short, a stream's exit line follows all
\* output of the child, and a command that ran into a deadline or was stopped
\* leaves no process behind.
EndsWhole ==
  sat = "over" =>
    /\ end = "exit" /\ tries = 0 => sentout = printed
    /\ end \in {"timeout", "stopped"} => cmd = "reaped" /\ kin # "alive"

=============================================================================
