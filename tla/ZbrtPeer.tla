------------------------------- MODULE ZbrtPeer -------------------------------
(*****************************************************************************)
(* What the guest end of a ZBRT connection promises the host.                *)
(*                                                                           *)
(* It runs one turn at a time.  An accepted Execute is followed by that      *)
(* turn's Output frames and then by one terminal frame; any other request is *)
(* answered with one frame, at once.  ZbrtGuest is checked to implement this *)
(* against an arbitrary host (Drive), and ZbrtHost is checked against it.    *)
(*****************************************************************************)
EXTENDS ZbrtWire

CONSTANT MaxOutput       \* bound: Output frames of a turn

ASSUME PeerAssumption == MaxOutput \in Nat

VARIABLES
  met,          \* hands have been shaken
  cur,          \* the turn under way
  wrote         \* Output frames written for each turn

peer == <<met, cur, wrote>>

PeerInit ==
  /\ cur = None
  /\ wrote = [t \in Turn |-> 0]

\* On a broken connection the frames go nowhere.
Says(fs) ==
  \/ link # "cut" /\ Len(down) + Len(fs) <= WireCap /\ down' = down \o fs
  \/ link = "cut" /\ UNCHANGED down

Takes(kind, i) ==
  /\ up # << >>
  /\ Head(up) = Frame(kind, i)
  /\ up' = Tail(up)

\* A turn is refused, for whatever reason and always while another runs ...
PeerRefuses(t) ==
  /\ Takes("Execute", t)
  /\ Says(<<Frame("Error", t)>>)
  /\ UNCHANGED <<link, met, cur, wrote>>

\* ... starts, or is run on the spot.
PeerStarts(t) ==
  /\ Takes("Execute", t)
  /\ cur = None
  /\ cur' = t
  /\ wrote' = [wrote EXCEPT ![t] = 0]
  /\ UNCHANGED <<down, link, met>>

PeerRuns(t) ==
  /\ Takes("Execute", t)
  /\ cur = None
  /\ \E n \in 0..MaxOutput, k \in Ends :
       /\ Says(Append([j \in 1..n |-> Frame("Output", t)], Frame(k, t)))
       /\ wrote' = [wrote EXCEPT ![t] = n]
  /\ UNCHANGED <<link, met, cur>>

PeerWrites ==
  /\ cur # None
  /\ wrote[cur] < MaxOutput
  /\ Says(<<Frame("Output", cur)>>)
  /\ wrote' = [wrote EXCEPT ![cur] = @ + 1]
  /\ UNCHANGED <<up, link, met, cur>>

PeerEnds ==
  /\ cur # None
  /\ \E k \in Ends : Says(<<Frame(k, cur)>>)
  /\ cur' = None
  /\ UNCHANGED <<up, link, met, wrote>>

\* A cancel does not end the turn it hits; it fails only when it names one that
\* does not run while another does.
PeerReplies(i) ==
  /\ \E k \in CtlKind :
       /\ Takes(k, i)
       /\ \/ Says(<<Frame(AckOf(k), i)>>)
          \/ /\ i \in Ctl \/ cur \notin {None, i} \/ ~met
             /\ Says(<<Frame("Error", i)>>)
       /\ met' = (met \/ k = "Hello")
  /\ UNCHANGED <<link, cur, wrote>>

\* The guest goes away: asked to, or because the connection broke.
PeerLeaves ==
  /\ link # "open"
  /\ link' = "cut"
  /\ UNCHANGED <<up, down, peer>>

PeerNext ==
  \/ \E t \in Turn : PeerRefuses(t) \/ PeerStarts(t) \/ PeerRuns(t)
  \/ PeerWrites \/ PeerEnds \/ PeerLeaves
  \/ \E i \in Id : PeerReplies(i)

PeerSpec ==
  /\ WireInit /\ PeerInit /\ met = FALSE
  /\ [][PeerNext \/ (Drive /\ UNCHANGED peer)]_<<wire, peer>>

=============================================================================
