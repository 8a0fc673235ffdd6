------------------------------ MODULE LossyLog ------------------------------
(***************************************************************************)
(* What the event log promises its reader, without rings, channels and     *)
(* caches.  Events wait in one line and are written in the order they      *)
(* happened.  None is lost while the agent listens, unless Room earlier    *)
(* ones are still waiting.  One that is left out as a repetition has its   *)
(* equal in the log, less than TTL ago; and no two equals in the log are   *)
(* closer than that.                                                       *)
(***************************************************************************)
EXTENDS Naturals, SequencesExt

CONSTANTS
  KeyOf(_),      \* what makes two events equal
  Coalesced(_),  \* whether repetitions of an event are left out
  TTL,           \* for how long
  Room           \* how many events can wait before one is lost

VARIABLES
  happened,   \* how many events there have been
  pending,    \* the events that wait to be written, oldest first
  lines,      \* the log: events with the time they were written
  now,
  listening   \* the agent has not begun to stop

logVars == <<happened, pending, lines, now, listening>>

LogInit ==
  /\ happened = 0
  /\ pending = <<>>
  /\ lines = <<>>
  /\ now = 0
  /\ listening = TRUE

Repeats(e) ==
  /\ Coalesced(e)
  /\ \E i \in DOMAIN lines :
       /\ Coalesced(lines[i].ev)
       /\ KeyOf(lines[i].ev) = KeyOf(e)
       /\ now - lines[i].at < TTL

Happen ==
  /\ happened' = happened + 1
  /\ \/ pending' # <<>> /\ pending = Front(pending')
     \/ (~ listening \/ Len(pending) >= Room) /\ UNCHANGED pending
  /\ UNCHANGED <<lines, now, listening>>

Lose ==
  /\ \E i \in DOMAIN pending :
       /\ ~ listening \/ i > Room
       /\ pending' = RemoveAt(pending, i)
  /\ UNCHANGED <<happened, lines, now, listening>>

(* Once the agent stops listening, events that wait may be forgotten.      *)
Forget ==
  /\ ~ listening
  /\ \E n \in 0 .. Len(pending) : pending' = SubSeq(pending, 1, n)
  /\ UNCHANGED <<happened, lines, now, listening>>

Record ==
  /\ pending # <<>>
  /\ ~ Repeats(Head(pending))
  /\ lines' = Append(lines, [ev |-> Head(pending), at |-> now])
  /\ pending' = Tail(pending)
  /\ UNCHANGED <<happened, now, listening>>

LeaveOut ==
  /\ pending # <<>>
  /\ Repeats(Head(pending))
  /\ pending' = Tail(pending)
  /\ UNCHANGED <<happened, lines, now, listening>>

Pass == now' > now /\ UNCHANGED <<happened, pending, lines, listening>>
Stop == listening' = FALSE /\ UNCHANGED <<happened, pending, lines, now>>

LogNext == Happen \/ Lose \/ Forget \/ Record \/ LeaveOut \/ Pass \/ Stop

LogSpec == LogInit /\ [][LogNext]_logVars
=============================================================================
