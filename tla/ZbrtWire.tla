------------------------------- MODULE ZbrtWire -------------------------------
(***************************************************************************)
(* What the two ends of a ZBRT connection share: the frames, and the relay *)
(* stream that carries them, one bounded ordered buffer each way.          *)
(***************************************************************************)
EXTENDS Integers, Sequences, FiniteSets

CONSTANTS
  Turn,              \* request ids of exec() and stream() calls
  Ctl,               \* request ids of health(), fs() and cancel() calls
  None,              \* no request
  WireCap            \* frames the transport buffers each way

ASSUME WireAssumption ==
  /\ WireCap \in Nat \ {0}
  /\ Turn \cap Ctl = {}
  /\ None \notin Turn \cup Ctl

Id == Turn \cup Ctl

\* Kind, the ones the two ends exchange.  A Cancel whose id is a turn names
\* that turn as its target; any other cancels whatever is active.
CtlKind == {"Hello", "Health", "Fs", "Cancel"}
Requests == {"Execute"} \cup CtlKind
Ends == {"Exit", "Error"}              \* the frames that end a turn
Acks == {"HelloAck", "HealthAck", "FsResult", "CancelAck"}
Answer == {"Output"} \cup Ends \cup Acks

Frame(k, i) == [kind |-> k, id |-> i]
AckOf(k) == CASE k = "Hello" -> "HelloAck"   [] k = "Health" -> "HealthAck"
                [] k = "Fs" -> "FsResult"      [] k = "Cancel" -> "CancelAck"

VARIABLES
  up, down,     \* frames to the guest, frames to the host
  link          \* open; fin: the host has shut its half down; cut

wire == <<up, down, link>>

WireType ==
  /\ up \in Seq([kind : Requests, id : Id]) /\ Len(up) <= WireCap
  /\ down \in Seq([kind : Answer, id : Id]) /\ Len(down) <= WireCap
  /\ link \in {"open", "fin", "cut"}

WireInit == up = << >> /\ down = << >> /\ link = "open"

-----------------------------------------------------------------------------
(* The relay breaking, and a host that sends and does anything it can. *)

\* What is under way is lost: a frame that still arrives might as well have done
\* so before the break.
Break == link # "cut" /\ link' = "cut" /\ up' = << >> /\ down' = << >>

DriveWrites(f) == link = "open" /\ Len(up) < WireCap /\ up' = Append(up, f)
                    /\ UNCHANGED <<down, link>>
DriveReads == down # << >> /\ down' = Tail(down) /\ UNCHANGED <<up, link>>
DriveCloses == link = "open" /\ link' = "fin" /\ UNCHANGED <<up, down>>

Drive ==
  \/ \E t \in Turn : DriveWrites(Frame("Execute", t)) \/ DriveWrites(Frame("Cancel", t))
  \/ \E i \in Ctl, k \in CtlKind : DriveWrites(Frame(k, i))
  \/ DriveReads \/ DriveCloses \/ Break

=============================================================================
