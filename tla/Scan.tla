-------------------------------- MODULE Scan --------------------------------
(******************************************************************************)
(* The loops over names, directories and bytes that both guest agents share:  *)
(* glob_matches and the bounded searches (rfb-runtime/src/glob.rs,            *)
(* agent/search.rs, workspace_executor/dispatch.rs) and the decoder that cuts *)
(* an output stream at character boundaries (utf8_boundary.rs).  Each loop    *)
(* runs on every input up to the bounds, one iteration per step.              *)
(******************************************************************************)
EXTENDS Integers, Sequences, FiniteSets, SequencesExt

CONSTANTS
  MaxText,  \* characters of a pattern and of a name
  MaxTree,  \* entries of a directory tree
  MaxBytes  \* bytes of an output stream

VARIABLE m  \* the loop that runs: its inputs and its locals

-----------------------------------------------------------------------------
(* glob_matches *)

Star == "*"
GlobStart(p, t) == [loop |-> "glob", p |-> p, t |-> t, pi |-> 1, ti |-> 1,
                    star |-> 0, mark |-> 1, res |-> "?"]

\* The pattern p matches the text t.
Matches[p \in Seq({"a", "b", Star}), t \in Seq({"a", "b"})] ==
  IF p = <<>> THEN t = <<>>
  ELSE IF Head(p) = Star
         THEN Matches[Tail(p), t] \/ (t # <<>> /\ Matches[p, Tail(t)])
         ELSE t # <<>> /\ Head(t) = Head(p) /\ Matches[Tail(p), Tail(t)]

\* Mutant of GlobBacktrack: the star swallows nothing more.
GlobBacktrackOnce ==
  /\ m.star # 0
  /\ m' = [m EXCEPT !.pi = m.star + 1, !.ti = m.ti + 1]

\* A mismatch after a star: the star takes one character more.
GlobBacktrack ==
  /\ m.star # 0
  /\ m' = [m EXCEPT !.pi = m.star + 1, !.mark = @ + 1, !.ti = m.mark + 1]

GlobStep ==
  /\ m.loop = "glob" /\ m.res = "?" /\ m.ti <= Len(m.t)
  /\ LET more == m.pi <= Len(m.p)
     IN \/ /\ more /\ m.p[m.pi] = Star
           /\ m' = [m EXCEPT !.star = m.pi, !.mark = m.ti, !.pi = @ + 1]
        \/ /\ more /\ m.p[m.pi] # Star /\ m.p[m.pi] = m.t[m.ti]
           /\ m' = [m EXCEPT !.pi = @ + 1, !.ti = @ + 1]
        \/ /\ ~(more /\ m.p[m.pi] \in {Star, m.t[m.ti]})
           /\ GlobBacktrack \/ (m.star = 0 /\ m' = [m EXCEPT !.res = "no"])

\* What is left of the pattern must be stars.
GlobEnd ==
  /\ m.loop = "glob" /\ m.res = "?" /\ m.ti > Len(m.t)
  /\ m' = [m EXCEPT !.res = IF \A i \in m.pi..Len(m.p) : m.p[i] = Star THEN "yes" ELSE "no"]

-----------------------------------------------------------------------------
(* Searches *)

\* An entry of the tree in walking order: whether it matches, and whether it is a
\* symbolic link (for a grep: a link or a file over the scan cap), which is
\* passed over.
TreeEntry == [hit : BOOLEAN, skip : BOOLEAN]
SearchStart(k, tree, max) == [loop |-> "search", kind |-> k, tree |-> tree, max |-> max,
                              i |-> 1, out |-> 0, cut |-> FALSE, res |-> "?"]

Ended(r) == [m EXCEPT !.res = r]

\* Mutant of FindStep: the cap ends the walk like the end of the tree.
FindStepSilent ==
  /\ m.kind = "find"
  /\ LET e == m.tree[m.i]
     IN IF ~e.skip /\ m.out >= m.max
          THEN m' = Ended("done")
          ELSE m' = [m EXCEPT !.i = @ + 1, !.out = IF e.hit /\ ~e.skip THEN @ + 1 ELSE @]

\* bounded_name_walk: the cap is tested before the entry is looked at.
FindStep ==
  /\ m.kind = "find"
  /\ LET e == m.tree[m.i]
     IN IF ~e.skip /\ m.out >= m.max
          THEN m' = [Ended("done") EXCEPT !.cut = TRUE]
          ELSE m' = [m EXCEPT !.i = @ + 1, !.out = IF e.hit /\ ~e.skip THEN @ + 1 ELSE @]

\* list: every entry counts; there is one more than max.
ListStep ==
  /\ m.kind = "ls"
  /\ IF m.out >= m.max
       THEN m' = [Ended("done") EXCEPT !.cut = TRUE]
       ELSE m' = [m EXCEPT !.i = @ + 1, !.out = @ + 1]

\* The agent's ls reads up to 2 * max + 1 entries, sorts, and cuts to max.
AgentListStep ==
  /\ m.kind = "agent-ls"
  /\ IF m.out >= 2 * m.max + 1
       THEN m' = [Ended("done") EXCEPT !.cut = TRUE, !.out = m.max]
       ELSE m' = [m EXCEPT !.i = @ + 1, !.out = @ + 1]

\* grep_walk of the agent ends with the match that reaches the cap.
AgentGrepStep ==
  /\ m.kind = "agent-grep"
  /\ LET hit == m.tree[m.i].hit /\ ~m.tree[m.i].skip
     IN IF hit /\ m.out + 1 >= m.max
          THEN m' = [Ended("done") EXCEPT !.cut = TRUE, !.out = @ + 1, !.i = @ + 1]
          ELSE m' = [m EXCEPT !.i = @ + 1, !.out = IF hit THEN @ + 1 ELSE @]

\* grep of the workspace executor leaves the loop at the cap and does not say so.
GrepStep ==
  /\ m.kind = "grep"
  /\ LET hit == m.tree[m.i].hit /\ ~m.tree[m.i].skip
     IN IF hit /\ m.out + 1 >= m.max
          THEN m' = [Ended("done") EXCEPT !.out = @ + 1, !.i = @ + 1]
          ELSE m' = [m EXCEPT !.i = @ + 1, !.out = IF hit THEN @ + 1 ELSE @]

SearchStep ==
  /\ m.loop = "search" /\ m.res = "?" /\ m.i <= Len(m.tree)
  /\ FindStep \/ ListStep \/ AgentListStep \/ AgentGrepStep \/ GrepStep

\* The cancel flag is read at every entry by find and grep.
SearchCancelled ==
  /\ m.loop = "search" /\ m.res = "?" /\ m.kind \in {"find", "grep"}
  /\ m' = Ended("cancelled")

\* At the end of a directory a walk that has max matches reports the cap, whether
\* or not anything was left out.
SearchEnd ==
  /\ m.loop = "search" /\ m.res = "?" /\ m.i > Len(m.tree)
  /\ m' = [Ended("done") EXCEPT
             !.cut = @ \/ (m.kind \in {"find", "agent-grep"} /\ m.out >= m.max)
                       \/ (m.kind = "agent-ls" /\ m.out > m.max),
             !.out = IF m.kind = "agent-ls" /\ m.out > m.max THEN m.max ELSE @]

-----------------------------------------------------------------------------
(* Utf8ChunkDecoder *)

\* Byte classes: ASCII, continuation, the lead of two, three or four bytes, and
\* bytes that never begin a character.
Byte == {"A", "C", "2", "3", "4", "X"}
Expected(b) == CASE b = "A" -> 1 [] b = "2" -> 2 [] b = "3" -> 3 [] b = "4" -> 4
DecodeStart(s) == [loop |-> "utf8", s |-> s, read |-> 0, pending |-> <<>>, sent |-> <<>>]

\* Mutant of SafeSplit: a lead byte is sought in the last two bytes only.
SafeSplitNear(bs) ==
  LET n == Len(bs)
      leads == {i \in 1..n : i > n - 2 /\ bs[i] # "C"}
      l == CHOOSE i \in leads : \A j \in leads : j <= i
  IN IF leads = {} \/ bs[l] = "X" THEN n
     ELSE IF n - l + 1 < Expected(bs[l]) THEN l - 1 ELSE n

\* utf8_safe_split: the last byte of the last three that is no continuation
\* decides; if it leads a character that is not all there, the cut is before it.
SafeSplit(bs) ==
  LET n == Len(bs)
      leads == {i \in 1..n : i > n - 3 /\ bs[i] # "C"}
      l == CHOOSE i \in leads : \A j \in leads : j <= i
  IN IF leads = {} \/ bs[l] = "X" THEN n
     ELSE IF n - l + 1 < Expected(bs[l]) THEN l - 1 ELSE n

\* decode_bytes of a chunk of k bytes.
Decode(k) ==
  /\ m.loop = "utf8" /\ k > 0 /\ m.read + k <= Len(m.s)
  /\ LET bs == m.pending \o SubSeq(m.s, m.read + 1, m.read + k)
         cut == SafeSplit(bs)
     IN m' = [m EXCEPT !.read = @ + k, !.pending = SubSeq(bs, cut + 1, Len(bs)),
                       !.sent = Append(@, SubSeq(bs, 1, cut))]

\* flush_bytes at the end of the stream.
Flush ==
  /\ m.loop = "utf8" /\ m.read = Len(m.s) /\ m.pending # <<>>
  /\ m' = [m EXCEPT !.pending = <<>>, !.sent = Append(@, m.pending)]

-----------------------------------------------------------------------------
Upto(S, n) == UNION {[1..k -> S] : k \in 0..n}

ScInit ==
  \/ m \in {GlobStart(p, t) : p \in Upto({"a", "b", Star}, MaxText),
                              t \in Upto({"a", "b"}, MaxText)}
  \/ m \in {SearchStart(k, t, x) : k \in {"find", "ls", "agent-ls", "agent-grep", "grep"},
                                   t \in Upto(TreeEntry, MaxTree), x \in 1..2}
  \/ m \in {DecodeStart(s) : s \in Upto(Byte, MaxBytes)}

ScNext ==
  \/ GlobStep \/ GlobEnd
  \/ SearchStep \/ SearchCancelled \/ SearchEnd
  \/ \E k \in 1..MaxBytes : Decode(k)
  \/ Flush

-----------------------------------------------------------------------------
(* Properties *)

\* The backtracking loop decides what the pattern means (PROTOCOL.md 2.5a).
GlobIsRight == m.loop = "glob" /\ m.res # "?" => (m.res = "yes") = Matches[m.p, m.t]

Hits == Cardinality({i \in DOMAIN m.tree :
          (m.tree[i].hit \/ m.kind \in {"ls", "agent-ls"})
            /\ (~m.tree[i].skip \/ m.kind \in {"ls", "agent-ls"})})

\* A find or a listing that leaves something out says so, and a result is never
\* longer than asked for.  (The workspace executor's grep keeps silent.)
CutIsTold ==
  m.loop = "search" /\ m.res = "done" =>
    /\ m.out <= m.max
    /\ m.out < Hits /\ m.kind # "grep" => m.cut

\* No byte of a stream is lost, repeated or moved, however it is chunked, and no
\* chunk ends inside a character that the stream completes.
Concat == FoldLeft(LAMBDA a, b : a \o b, <<>>, m.sent)
ChunksJoin ==
  m.loop = "utf8" =>
    /\ Concat \o m.pending = SubSeq(m.s, 1, m.read)
    /\ Len(m.pending) < 4
    /\ m.pending # <<>> \/ m.read < Len(m.s) =>
         LET c == Len(Concat)
         IN \A i \in 1..c :
              m.s[i] \in {"2", "3", "4"} /\ i + Expected(m.s[i]) - 1 <= Len(m.s)
                /\ (\A j \in i + 1..i + Expected(m.s[i]) - 1 : m.s[j] = "C")
              => i + Expected(m.s[i]) - 1 <= c
=============================================================================
