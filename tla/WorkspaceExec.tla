--------------------------- MODULE WorkspaceExec ---------------------------
(****************************************************************************)
(* One command of the workspace executor                                    *)
(* (rfb-runtime/src/workspace_executor/process.rs): the poll loop over the  *)
(* child's two pipes, the deadline, the closing window after the child has  *)
(* exited, cancellation, and the guard that kills what is left on an error. *)
(*                                                                          *)
(* The child may start a background process, in its process group or in a   *)
(* session of its own, that keeps the inherited pipes or not.               *)
(****************************************************************************)
EXTENDS Naturals, FiniteSets

CONSTANTS
  MaxChunk,     \* chunks written to each pipe
  CaptureLimit  \* chunks captured of each stream (max_event_bytes)

ASSUME ExecAssumption == MaxChunk \in Nat /\ CaptureLimit \in Nat

VARIABLES
  at,         \* idle, spawned, check, poll, wait, returned
  answer,     \* what exec returned
  cancel,     \* cancel_requested
  late,       \* the command's deadline has passed
  drain,      \* none, cap (child has exited), killed (group has been killed)
  drainLate,  \* the closing window has passed
  child,      \* none, running, exited, reaped
  closed,     \* the child has closed its own ends of the pipes
  bg,         \* the background process: none, group, session, dead
  bgHolds,    \* it holds the inherited pipes
  wrote,      \* stream -> chunks written
  unread,     \* stream -> chunks in the pipe
  data,       \* stream -> chunks captured
  finished,   \* streams at end of file, or given up
  failure     \* reading a stream has failed

wxvars == <<at, answer, cancel, late, drain, drainLate, child, closed, bg, bgHolds,
            wrote, unread, data, finished, failure>>
procs == <<child, closed, bg, bgHolds>>
pipes == <<wrote, unread>>
reads == <<data, finished, failure>>

Stream == {"stdout", "stderr"}
BgAlive == bg \in {"group", "session"}
\* Someone holds the write end of the pipes.
Writers == (child = "running" /\ ~closed) \/ (BgAlive /\ bgHolds)

WxTypeOK ==
  /\ at \in {"idle", "spawned", "check", "poll", "wait", "returned"}
  /\ answer \in {"none", "ok", "cancelled", "timeout", "refused", "nospawn", "broken", "unread"}
  /\ drain \in {"none", "cap", "killed"}
  /\ child \in {"none", "running", "exited", "reaped"}
  /\ bg \in {"none", "group", "session", "dead"}
  /\ {cancel, late, drainLate, closed, bgHolds, failure} \subseteq BOOLEAN
  /\ wrote \in [Stream -> 0..MaxChunk] /\ unread \in [Stream -> 0..MaxChunk]
  /\ data \in [Stream -> 0..CaptureLimit] /\ finished \subseteq Stream

WxInit ==
  /\ at = "idle" /\ answer = "none" /\ drain = "none" /\ child = "none" /\ bg = "none"
  /\ cancel = FALSE /\ late = FALSE /\ drainLate = FALSE /\ closed = FALSE /\ bgHolds = FALSE
  /\ wrote = [s \in Stream |-> 0] /\ unread = [s \in Stream |-> 0]
  /\ data = [s \in Stream |-> 0] /\ finished = {} /\ failure = FALSE

-----------------------------------------------------------------------------
(* Ends *)

\* Mutant of KillGroup: only the leader is signalled.
KillLeader ==
  /\ child' = IF child = "running" THEN "exited" ELSE child
  /\ UNCHANGED <<closed, bg, bgHolds>>

\* kill_group: SIGKILL to everything in the child's process group.
KillGroup ==
  /\ child' = IF child = "running" THEN "exited" ELSE child
  /\ bg' = IF bg = "group" THEN "dead" ELSE bg
  /\ UNCHANGED <<closed, bgHolds>>

\* Mutant of FailWith: only the direct child is killed.
FailChildOnly(why) ==
  /\ answer' = why /\ at' = "returned"
  /\ child' = "reaped"
  /\ UNCHANGED <<closed, bg, bgHolds>>

\* An error return: the armed ChildGuard kills the group and reaps the child.
FailWith(why) ==
  /\ answer' = why /\ at' = "returned"
  /\ child' = "reaped"
  /\ bg' = IF bg = "group" THEN "dead" ELSE bg
  /\ UNCHANGED <<closed, bgHolds>>

-----------------------------------------------------------------------------
(* The executor *)

\* exec_inner up to the spawn: malformed arguments, a zero timeout, an earlier
\* cancellation and a bad cwd are refused; a builtin answers without a process;
\* a command that cannot be spawned is a result with exit code -1.
Exec ==
  /\ at = "idle"
  /\ \/ answer' = "refused" /\ at' = "returned" /\ UNCHANGED child
     \/ ~cancel /\ answer' \in {"ok", "nospawn"} /\ at' = "returned" /\ UNCHANGED child
     \/ ~cancel /\ at' = "spawned" /\ child' = "running" /\ UNCHANGED answer
  /\ UNCHANGED <<cancel, late, drain, drainLate, closed, bg, bgHolds, pipes, reads>>

\* The input is validated when the child runs already; the deadline counts from here.
Validate ==
  /\ at = "spawned"
  /\ \/ FailWith("refused")
     \/ at' = "check" /\ UNCHANGED <<answer, procs>>
  /\ UNCHANGED <<cancel, late, drain, drainLate, pipes, reads>>

\* Mutant of Check: the loop ends when the child has exited.
CheckWithoutDrain ==
  /\ at = "check"
  /\ \/ /\ cancel
        /\ FailWith("cancelled") /\ UNCHANGED <<drain, drainLate>>
     \/ /\ ~cancel /\ late
        /\ FailWith("timeout") /\ UNCHANGED <<drain, drainLate>>
     \/ /\ ~cancel /\ ~late
        /\ at' = IF child = "exited" THEN "wait" ELSE "poll"
        /\ child' = IF child = "exited" THEN "reaped" ELSE child
        /\ UNCHANGED <<answer, drain, drainLate, closed, bg, bgHolds>>
  /\ UNCHANGED <<cancel, late, pipes, reads>>

\* The head of the loop.  Once the child has been seen to exit only the closing
\* window counts, not the command's deadline: when the window has passed the
\* group is killed and another window begins.
Check ==
  /\ at = "check"
  /\ \/ /\ cancel
        /\ FailWith("cancelled") /\ UNCHANGED <<drain, drainLate>>
     \/ /\ ~cancel /\ drain = "none" /\ late
        /\ FailWith("timeout") /\ UNCHANGED <<drain, drainLate>>
     \/ /\ ~cancel /\ drain # "none" /\ drainLate
        /\ KillGroup
        /\ drain' = "killed" /\ drainLate' = FALSE
        /\ UNCHANGED <<at, answer>>
     \/ /\ ~cancel /\ IF drain = "none" THEN ~late ELSE ~drainLate
        /\ at' = "poll"
        /\ IF drain = "none" /\ child = "exited"
             THEN drain' = "cap" /\ drainLate' = FALSE /\ child' = "reaped"
             ELSE UNCHANGED <<drain, drainLate, child>>
        /\ UNCHANGED <<answer, closed, bg, bgHolds>>
  /\ UNCHANGED <<cancel, late, pipes, reads>>

\* capture_chunk: what is over the limit is read and forwarded, not kept.
Captured(s) ==
  IF data[s] + unread[s] > CaptureLimit THEN CaptureLimit ELSE data[s] + unread[s]

\* poll and the reads: every readable pipe is emptied; with no writer left the read
\* after that is the end of file.  poll itself may fail, and so may the reads of the
\* streams in F, which then are done with.
Poll ==
  /\ at = "poll"
  /\ \/ FailWith("broken") /\ UNCHANGED <<unread, reads>>
     \/ \E F \in SUBSET (Stream \ finished) :
          /\ data' = [s \in Stream |-> IF s \in finished \cup F THEN data[s] ELSE Captured(s)]
          /\ unread' = [s \in Stream |-> IF s \in finished \cup F THEN unread[s] ELSE 0]
          /\ finished' = IF Writers THEN finished \cup F ELSE Stream
          /\ failure' = (failure \/ F # {})
          /\ at' = IF finished' = Stream THEN "wait" ELSE "check"
          /\ UNCHANGED <<answer, procs>>
  /\ UNCHANGED <<cancel, late, drain, drainLate, wrote>>

\* Both pipes are at their end; the child may still run.  The guard is disarmed when
\* the child has been reaped, before a failed read is looked at.
Wait ==
  /\ at = "wait"
  /\ \/ /\ child \in {"exited", "reaped"}
        /\ child' = "reaped" /\ at' = "returned"
        /\ answer' = IF failure THEN "unread" ELSE "ok"
        /\ UNCHANGED <<closed, bg, bgHolds>>
     \/ /\ child = "running" /\ cancel
        /\ FailWith("cancelled")
     \/ /\ child = "running" /\ ~cancel /\ late
        /\ FailWith("timeout")
     \/ FailWith("broken")
  /\ UNCHANGED <<cancel, late, drain, drainLate, pipes, reads>>

-----------------------------------------------------------------------------
(* The processes, the clock, the host *)

Write(s) ==
  /\ Writers /\ wrote[s] < MaxChunk
  /\ wrote' = [wrote EXCEPT ![s] = @ + 1]
  /\ unread' = [unread EXCEPT ![s] = @ + 1]
  /\ UNCHANGED <<at, answer, cancel, late, drain, drainLate, procs, reads>>

CloseStdio ==
  /\ child = "running" /\ ~closed
  /\ closed' = TRUE
  /\ UNCHANGED <<at, answer, cancel, late, drain, drainLate, child, bg, bgHolds, pipes, reads>>

Fork ==
  /\ child = "running" /\ bg = "none"
  /\ bg' \in {"group", "session"}
  /\ bgHolds' \in (IF closed THEN {FALSE} ELSE BOOLEAN)
  /\ UNCHANGED <<at, answer, cancel, late, drain, drainLate, child, closed, pipes, reads>>

Exit ==
  /\ \/ child = "running" /\ child' = "exited" /\ UNCHANGED bg
     \/ BgAlive /\ bg' = "dead" /\ UNCHANGED child
  /\ UNCHANGED <<at, answer, cancel, late, drain, drainLate, closed, bgHolds, pipes, reads>>

DeadlinePasses ==
  /\ at \in {"check", "poll", "wait"} /\ ~late
  /\ late' = TRUE
  /\ UNCHANGED <<at, answer, cancel, drain, drainLate, procs, pipes, reads>>

\* The loop spends its time in poll(2).
WindowPasses ==
  /\ at = "poll" /\ drain # "none" /\ ~drainLate
  /\ drainLate' = TRUE
  /\ UNCHANGED <<at, answer, cancel, late, drain, procs, pipes, reads>>

Cancel ==
  /\ ~cancel /\ at # "returned"
  /\ cancel' = TRUE
  /\ UNCHANGED <<at, answer, late, drain, drainLate, procs, pipes, reads>>

ExecThread == Exec \/ Validate \/ Check \/ Poll \/ Wait

WxNext ==
  \/ ExecThread \/ DeadlinePasses \/ WindowPasses \/ Cancel
  \/ \E s \in Stream : Write(s)
  \/ CloseStdio \/ Fork \/ Exit

\* The executor's thread runs and time passes, in poll(2) too; the commands owe nothing, and
\* nobody need cancel.
WxFairness ==
  WF_wxvars(ExecThread) /\ WF_wxvars(DeadlinePasses) /\ SF_wxvars(WindowPasses)
WxSpec == WxInit /\ [][WxNext]_wxvars
WxFairSpec == WxSpec /\ WxFairness

-----------------------------------------------------------------------------
(* Properties *)

\* A command that is refused after its spawn, was cancelled, timed out or could not be
\* polled or waited for leaves no process of its group behind, not even one its child
\* has left in the background (ChildGuard).  A failed read of a pipe ("unread") is not
\* covered: the child is reaped by then, and the guard disarmed before the error returns.
ErrorKillsGroup ==
  answer \in {"refused", "cancelled", "timeout", "broken"} =>
    child \in {"none", "reaped"} /\ bg # "group"

\* A result holds everything written to the pipes, by the child and by what it
\* left behind, up to the capture limit.
ResultIsWhole ==
  answer = "ok" =>
    \A s \in Stream : data[s] = IF wrote[s] > CaptureLimit THEN CaptureLimit ELSE wrote[s]

\* A command that the executor reports as failed leaves nobody of its process group
\* running, whatever failed but the reading of its pipes, and one that it reports as
\* finished has delivered what was written to them (process.rs exec_inner, ChildGuard).
ExecSettles == ErrorKillsGroup /\ ResultIsWhole

\* A command returns if what it leaves running stays in its process group: the
\* deadline ends a running child, the closing window a background process.
ReturnsUnlessDetached == [](bg # "session") => (at = "check" ~> at = "returned")

\* A command returns whatever it leaves running: "a bounded closing window",
\* "another short bounded window" (process.rs:236, 251).  A background process in
\* a session of its own keeps the pipes open and every window begins the next.
ExecReturns == at = "check" ~> at = "returned"
=============================================================================
