--------------------------- MODULE WorkspaceFiles ---------------------------
(******************************************************************************)
(* The size limit of a workspace that several executors share                 *)
(* (rfb-runtime/src/workspace_executor): writes, appends, reads and searches  *)
(* of every pooled connection, commands whose processes change the files      *)
(* behind their back, some of them when the command is long over, and the     *)
(* cached total that the limit is checked against.                            *)
(******************************************************************************)
EXTENDS Naturals, FiniteSets, FiniteSetsExt

CONSTANTS
  Executor,  \* executors on one workspace root, one per connection
  Name,      \* files
  MaxSize,   \* size of the largest file
  Limit      \* max_workspace_bytes

VARIABLES
  size,    \* file -> its size, 0 when absent
  cache,   \* workspace_size_cache: Unknown or the total
  holder,  \* the executor that holds the cache's lock, None
  op,      \* executor -> what it is doing
  left,    \* processes of a command whose exec is over still run
  torn,    \* history: an append failed half way and no walk since
  stray    \* history: such a process changed a file and no walk since

wfvars == <<size, cache, holder, op, left, torn, stray>>

Unknown == Limit + Cardinality(Name) * MaxSize + 1
None == "none"
Idle == [at |-> "idle", file |-> None, bytes |-> 0, append |-> FALSE, total |-> 0]
Total == MapThenSumSet(LAMBDA f : size[f], Name)
Running == {e \in Executor : op[e].at \in {"command", "reaped"}}

WfTypeOK ==
  /\ size \in [Name -> 0..MaxSize]
  /\ cache \in 0..Unknown /\ holder \in Executor \cup {None}
  /\ \A e \in Executor : /\ op[e].at \in {"idle", "write", "command", "reaped"}
                         /\ op[e].bytes \in 0..MaxSize
  /\ {left, torn, stray} \subseteq BOOLEAN

WfInit ==
  /\ size \in [Name -> {0, 1}]
  /\ cache = Unknown /\ holder = None
  /\ left = FALSE /\ torn = FALSE /\ stray = FALSE
  /\ op = [e \in Executor |-> Idle]

-----------------------------------------------------------------------------
(* Writing *)

\* Mutant of Projected: an append is counted like a replacement.
ProjectedReplacing(f, n, append, used) == used - size[f] + n

\* filesystem_write: the total after the write.  An append adds to the file.
Projected(f, n, append, used) ==
  IF append THEN used + n
  ELSE (IF used > size[f] THEN used - size[f] ELSE 0) + n

\* The cache's lock is taken, the file measured and the tree walked if there is
\* no cached total; a write over the limit is refused.
BeginWrite(e, f, n, append) ==
  /\ op[e] = Idle /\ holder = None
  /\ append => size[f] + n <= MaxSize
  /\ LET used == IF cache = Unknown THEN Total ELSE cache
         after == Projected(f, n, append, used)
     IN /\ cache' = used
        /\ torn' = (torn /\ cache # Unknown) /\ stray' = (stray /\ cache # Unknown)
        /\ IF after > Limit
             THEN UNCHANGED <<holder, op>>
             ELSE /\ holder' = e
                  /\ op' = [op EXCEPT ![e] = [at |-> "write", file |-> f, bytes |-> n,
                                               append |-> append, total |-> after]]
  /\ UNCHANGED <<size, left>>

\* write_atomic renames a temporary file over the old one; an append is in place.
\* A process of some command may have changed the file in between.
EndWrite(e) ==
  /\ op[e].at = "write"
  /\ LET f == op[e].file
         n == IF op[e].append THEN size[f] + op[e].bytes ELSE op[e].bytes
     IN n <= MaxSize /\ size' = [size EXCEPT ![f] = n]
  /\ cache' = op[e].total
  /\ holder' = None
  /\ op' = [op EXCEPT ![e] = Idle]
  /\ UNCHANGED <<left, torn, stray>>

\* The write fails (no space, a directory in the way).  A replacement leaves the
\* old file; of an append some bytes may stay.  The cache is left as it was.
WriteBreaks(e) ==
  /\ op[e].at = "write"
  /\ \/ UNCHANGED <<size, torn>>
     \/ \E n \in 1..op[e].bytes - 1 :
          /\ op[e].append /\ size[op[e].file] + n <= MaxSize
          /\ size' = [size EXCEPT ![op[e].file] = @ + n]
          /\ torn' = TRUE
  /\ holder' = None
  /\ op' = [op EXCEPT ![e] = Idle]
  /\ UNCHANGED <<cache, left, stray>>

-----------------------------------------------------------------------------
(* Commands *)

\* exec: the cached total does not survive a command.
BeginCommand(e) ==
  /\ op[e] = Idle /\ holder = None
  /\ cache' = Unknown /\ torn' = FALSE /\ stray' = FALSE
  /\ op' = [op EXCEPT ![e].at = "command"]
  /\ UNCHANGED <<size, holder, left>>

\* A process of a command that runs, or that another has left behind, writes, truncates
\* or removes a file.
Mutate(f, n) ==
  /\ left \/ \E e \in Executor : op[e].at = "command"
  /\ size' = [size EXCEPT ![f] = n]
  /\ stray' = (stray \/ Running = {})
  /\ UNCHANGED <<cache, holder, op, left, torn>>

\* exec_inner is over.  Its child is reaped, but a result leaves what the child started
\* running, and an error kills no process that has left the group.
ReapCommand(e) ==
  /\ op[e].at = "command"
  /\ op' = [op EXCEPT ![e].at = "reaped"]
  /\ left' \in {left, TRUE}
  /\ UNCHANGED <<size, cache, holder, torn, stray>>

\* Mutant of EndCommand: the total is dropped before the command only.
EndCommandQuietly(e) ==
  /\ op[e].at = "reaped" /\ holder = None
  /\ op' = [op EXCEPT ![e] = Idle]
  /\ UNCHANGED <<size, cache, holder, left, torn, stray>>

\* exec drops the total once more: a write of another connection may have walked
\* the tree while the command ran.
EndCommand(e) ==
  /\ op[e].at = "reaped" /\ holder = None
  /\ cache' = Unknown /\ torn' = FALSE /\ stray' = FALSE
  /\ op' = [op EXCEPT ![e] = Idle]
  /\ UNCHANGED <<size, holder, left>>

\* The last process left behind ends.
LeftExits ==
  /\ left
  /\ left' = FALSE
  /\ UNCHANGED <<size, cache, holder, op, torn, stray>>

WfNext ==
  \/ \E e \in Executor :
       \/ \E f \in Name, n \in 0..MaxSize, append \in BOOLEAN : BeginWrite(e, f, n, append)
       \/ EndWrite(e) \/ WriteBreaks(e) \/ BeginCommand(e) \/ ReapCommand(e) \/ EndCommand(e)
  \/ \E f \in Name, n \in 0..MaxSize : Mutate(f, n)
  \/ LeftExits

WfSpec == WfInit /\ [][WfNext]_wfvars

-----------------------------------------------------------------------------
(* Properties *)

\* With no command running the cached total is the size of the workspace: "once the child
\* process has exited (...), its changes to the workspace are settled" (process.rs:26-30).
\* A process that the command has left running breaks it.
SizeSettled ==
  Running = {} /\ holder = None /\ ~torn => cache \in {Unknown, Total}

\* No interleaving of writes with the commands of other connections leaves a total
\* behind that is too small.  (A failed append and a process that outlives its command
\* are the exceptions.)
CacheExact == ~stray => SizeSettled

\* max_workspace_bytes bounds the workspace and not one connection: the total that a
\* write relies on is exact whenever no command runs, and a write that no command
\* runs beside does not bring the workspace over the limit; unless, since the tree was
\* last walked, an append failed half way or a process that outlived its command
\* changed a file (filesystem.rs, process.rs exec).
SizeAccounted ==
  [][/\ CacheExact'
     /\ \A e \in Executor :
          op[e].at = "write" /\ op'[e].at = "idle" /\ Running = {} /\ ~torn /\ ~stray
            /\ size' # size => Total' <= Limit]_wfvars
=============================================================================
