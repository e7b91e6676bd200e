------------------------------ MODULE AgentLoop ------------------------------
(**********************************************************************************)
(* The ADK agent loop and the sandbox it starts on demand                         *)
(* (rfb-adk/src/loop_agent.rs, session.rs): agent_loop with its steering          *)
(* inbox, abort flag and history owned by the caller, and the tools sandbox_start *)
(* and sandbox_stop over a session that somebody else, "side", uses at the same   *)
(* time.  The model's answers are external and arbitrary; which VM a tool of the  *)
(* round's dispatch table still reaches is left out.                              *)
(**********************************************************************************)
EXTENDS Naturals, Sequences, FiniteSets

CONSTANTS
  MaxRounds,  \* LoopOptions.max_rounds
  MaxRuns,    \* bound: calls of agent_loop on the same history
  MaxSide     \* bound: tool calls of the other user of the session

ASSUME AgentAssumption == {MaxRounds, MaxRuns, MaxSide} \subseteq Nat

VARIABLES
  tools,     \* Toolset: sandbox tool -> the VM its handle reaches, 0 if not registered
  sandbox,   \* SandboxState.sandbox: a VM or 0
  bootLock,  \* who holds boot_lock
  booted,    \* VMs booted so far
  op,        \* actor -> the session tool it is in
  side,      \* tool calls left to the other user
  inbox,     \* SteeringInbox: messages, "" for a blank one
  aborted,   \* AbortFlag
  hist,      \* messages, from the last one of the model on: earlier ones never change
  run,       \* agent_loop: pc, round, the calls left, runs left
  cut        \* whether an abort left tool calls of that message unanswered

alvars == <<tools, sandbox, bootLock, booted, op, side, inbox, aborted, hist, run, cut>>
session == <<tools, sandbox, bootLock, booted>>

SandboxTools == {"read", "bash"}        \* SANDBOX_TOOL_NAMES, of which two suffice
Called == {"sandbox_start", "sandbox_stop", "read", "unknown"}
NoHolder == "nobody"
IdleOp == [at |-> "idle", vm |-> 0, todo |-> {}]
NoTools == [t \in SandboxTools |-> 0]
Replies == UNION {[1..n -> Called] : n \in 0..2}

AlTypeOK ==
  /\ tools \in [SandboxTools -> 0..booted] /\ sandbox \in 0..booted
  /\ bootLock \in {NoHolder, "loop", "side"} /\ booted \in Nat /\ side \in 0..MaxSide
  /\ \A a \in {"loop", "side"} :
       op[a].at \in {"idle", "lock", "boot", "register", "set", "unregister"}
  /\ inbox \in Seq({"", "steer"}) /\ aborted \in BOOLEAN
  /\ run.pc \in {"top", "model", "tools", "Done", "MaxRounds", "Aborted", "Err"}
  /\ cut \in BOOLEAN

AlInit ==
  /\ tools = NoTools /\ sandbox = 0 /\ bootLock = NoHolder /\ booted = 0
  /\ op = [a \in {"loop", "side"} |-> IdleOp] /\ side = MaxSide
  /\ inbox = <<>> /\ aborted = FALSE /\ hist = <<>> /\ cut = FALSE
  /\ run = [pc |-> "top", round |-> 0, calls |-> <<>>, runs |-> MaxRuns]

-----------------------------------------------------------------------------
(* What a tool call of the loop leaves in the history *)

Message(role, calls) == [role |-> role, calls |-> calls]

\* Mutant of Backfill: a failed call has no answer.
BackfillIfKnown(t) ==
  /\ hist' = IF t = "unknown" THEN hist ELSE Append(hist, Message("tool", <<t>>))
  /\ run' = [run EXCEPT !.calls = Tail(@)]

\* The result, or the error as data, goes into the history.
Backfill(t) ==
  /\ hist' = Append(hist, Message("tool", <<t>>))
  /\ run' = [run EXCEPT !.calls = Tail(@)]

\* The tool call of actor a returns.
Returns(a, t) ==
  /\ op' = [op EXCEPT ![a] = IdleOp]
  /\ IF a = "loop" THEN Backfill(t) /\ UNCHANGED side
                   ELSE side' = side - 1 /\ UNCHANGED <<hist, run>>

-----------------------------------------------------------------------------
(* sandbox_start and sandbox_stop, by either actor *)

\* Mutant of StartLocks: the boot lock is not taken.
StartLocksNot(a) ==
  /\ op[a].at = "lock"
  /\ IF sandbox # 0
       THEN Returns(a, "sandbox_start") /\ UNCHANGED bootLock
       ELSE op' = [op EXCEPT ![a].at = "boot"] /\ UNCHANGED <<bootLock, hist, run, side>>
  /\ UNCHANGED <<tools, sandbox, booted, inbox, aborted, cut>>

\* boot_lock is taken; a sandbox that is there is used again.
StartLocks(a) ==
  /\ op[a].at = "lock" /\ bootLock = NoHolder
  /\ IF sandbox # 0
       THEN Returns(a, "sandbox_start") /\ UNCHANGED bootLock
       ELSE /\ bootLock' = a /\ op' = [op EXCEPT ![a].at = "boot"]
            /\ UNCHANGED <<hist, run, side>>
  /\ UNCHANGED <<tools, sandbox, booted, inbox, aborted, cut>>

\* default_boot: the provider creates a VM and it answers a ping, or the error goes
\* to the caller.
StartBoots(a) ==
  /\ op[a].at = "boot"
  /\ \/ /\ booted' = booted + 1
        /\ op' = [op EXCEPT ![a] = [at |-> "register", vm |-> booted', todo |-> SandboxTools]]
        /\ UNCHANGED <<bootLock, hist, run, side>>
     \/ Returns(a, "sandbox_start") /\ bootLock' = NoHolder /\ UNCHANGED booted
  /\ UNCHANGED <<tools, sandbox, inbox, aborted, cut>>

\* The tools are registered one by one.
StartRegisters(a) ==
  /\ op[a].at = "register"
  /\ \E t \in op[a].todo :
       /\ tools' = [tools EXCEPT ![t] = op[a].vm]
       /\ op' = [op EXCEPT ![a].todo = @ \ {t},
                           ![a].at = IF op[a].todo = {t} THEN "set" ELSE "register"]
  /\ UNCHANGED <<sandbox, bootLock, booted, side, inbox, aborted, hist, run, cut>>

StartSets(a) ==
  /\ op[a].at = "set"
  /\ sandbox' = op[a].vm /\ bootLock' = NoHolder
  /\ Returns(a, "sandbox_start")
  /\ UNCHANGED <<tools, booted, inbox, aborted, cut>>

\* sandbox_stop takes the sandbox without boot_lock ...
StopTakes(a) ==
  /\ sandbox' = 0
  /\ op' = [op EXCEPT ![a] = [at |-> "unregister", vm |-> sandbox, todo |-> SandboxTools]]
  /\ UNCHANGED <<tools, bootLock, booted, side, inbox, aborted, hist, run, cut>>

\* ... then unregisters the tools one by one; the handle is dropped at the end.
StopUnregisters(a) ==
  /\ op[a].at = "unregister"
  /\ \E t \in op[a].todo :
       /\ tools' = [tools EXCEPT ![t] = 0]
       /\ IF op[a].todo = {t} THEN Returns(a, "sandbox_stop")
          ELSE op' = [op EXCEPT ![a].todo = @ \ {t}] /\ UNCHANGED <<hist, run, side>>
  /\ UNCHANGED <<sandbox, bootLock, booted, inbox, aborted, cut>>

\* The other user calls one of the two.
SideCalls ==
  /\ op["side"] = IdleOp /\ side > 0
  /\ \/ /\ op' = [op EXCEPT !["side"].at = "lock"]
        /\ UNCHANGED <<session, side, inbox, aborted, hist, run, cut>>
     \/ StopTakes("side")

-----------------------------------------------------------------------------
(* agent_loop *)

End(outcome) == run' = [run EXCEPT !.pc = outcome]

\* The abort flag, then the steering messages, blank ones left out; the model is
\* asked.
RoundStarts ==
  /\ run.pc = "top"
  /\ LET news == Cardinality({i \in DOMAIN inbox : inbox[i] # ""})
     IN \/ run.round = MaxRounds /\ End("MaxRounds") /\ UNCHANGED <<inbox, hist>>
        \/ run.round < MaxRounds /\ aborted /\ End("Aborted") /\ UNCHANGED <<inbox, hist>>
        \/ /\ run.round < MaxRounds /\ ~aborted
           /\ inbox' = <<>>
           /\ hist' = hist \o [i \in 1..news |-> Message("user", <<>>)]
           /\ End("model")
  /\ UNCHANGED <<session, op, side, aborted, cut>>

\* The model fails, or its whole answer is one message; no call in it ends the loop.
ModelAnswers ==
  /\ run.pc = "model"
  /\ \/ End("Err") /\ UNCHANGED <<hist, cut>>
     \/ \E calls \in Replies :
          /\ hist' = <<Message("model", calls)>> /\ cut' = FALSE
          /\ run' = [run EXCEPT !.calls = calls, !.pc = IF calls = <<>> THEN "Done" ELSE "tools"]
  /\ UNCHANGED <<session, op, side, inbox, aborted>>

\* Between two tool calls the loop looks at the abort flag, then runs the next one,
\* or answers that it knows no such tool.
RunsTool ==
  /\ run.pc = "tools" /\ op["loop"] = IdleOp /\ run.calls # <<>>
  /\ LET t == Head(run.calls)
     IN \/ /\ aborted /\ End("Aborted") /\ cut' = TRUE
           /\ UNCHANGED <<session, op, side, inbox, aborted, hist>>
        \/ /\ ~aborted /\ t = "sandbox_start"
           /\ op' = [op EXCEPT !["loop"].at = "lock"]
           /\ UNCHANGED <<session, side, inbox, aborted, hist, run, cut>>
        \/ ~aborted /\ t = "sandbox_stop" /\ StopTakes("loop")
        \/ /\ ~aborted /\ t \in {"read", "unknown"}
           /\ Backfill(t)
           /\ UNCHANGED <<session, op, side, inbox, aborted, cut>>

RoundEnds ==
  /\ run.pc = "tools" /\ run.calls = <<>>
  /\ run' = [run EXCEPT !.pc = "top", !.round = @ + 1]
  /\ UNCHANGED <<session, op, side, inbox, aborted, hist, cut>>

\* The caller runs the loop again on the history it owns, with a fresh abort flag.
RunsAgain ==
  /\ run.pc \in {"Done", "MaxRounds", "Aborted", "Err"} /\ run.runs > 1
  /\ run' = [run EXCEPT !.pc = "top", !.round = 0, !.calls = <<>>,
                        !.runs = @ - 1]
  /\ aborted' = FALSE
  /\ UNCHANGED <<session, op, side, inbox, hist, cut>>

\* The user steers, or aborts, at any time.
Steers ==
  /\ inbox = <<>> /\ \E s \in {"", "steer"} : inbox' = <<s>>
  /\ UNCHANGED <<session, op, side, aborted, hist, run, cut>>

Aborts ==
  /\ ~aborted /\ aborted' = TRUE
  /\ UNCHANGED <<session, op, side, inbox, hist, run, cut>>

AlNext ==
  \/ \E a \in {"loop", "side"} :
       \/ StartLocks(a) \/ StartBoots(a) \/ StartRegisters(a) \/ StartSets(a)
       \/ StopUnregisters(a)
  \/ SideCalls \/ RoundStarts \/ ModelAnswers \/ RunsTool \/ RoundEnds
  \/ RunsAgain \/ Steers \/ Aborts

AlSpec == AlInit /\ [][AlNext]_alvars

-----------------------------------------------------------------------------
(* Properties *)

\* Whatever starts and stops overlap, a registered tool reaches the session's own
\* sandbox and no other, and a session without one has no tool left
\* (rfb-adk/src/session.rs).  A sandbox may be left without its tools: by a stop that
\* overlaps its start.
SessionTools ==
  /\ \A t \in SandboxTools : sandbox # 0 => tools[t] \in {0, sandbox}
  /\ (sandbox = 0 /\ \A a \in {"loop", "side"} : op[a].at \in {"idle", "lock", "boot"})
       => tools = NoTools

\* The history stays one the model can read: the tool messages after a model message
\* answer its calls in order, failed and unknown ones too, and when the model is
\* asked again all of them are answered, unless an abort came between
\* (rfb-adk/src/loop_agent.rs).
HistoryPaired ==
  hist # <<>> /\ hist[1].role = "model" =>
    LET calls == hist[1].calls
    IN \E n \in 0..Len(calls) :
         /\ n < Len(hist)
         /\ \A i \in 2..Len(hist) : hist[i].role = "tool" <=> i <= n + 1
         /\ \A j \in 1..n : hist[j + 1].calls = <<calls[j]>>
         /\ run.pc = "model" => n = Len(calls) \/ cut

\* The agent's session: its tools and its history.
AgentKeepsSession == SessionTools /\ HistoryPaired
=============================================================================
