------------------------------ MODULE RunTalk --------------------------------
(***************************************************************************)
(* The two ways a run talks: what people say to it while it works           *)
(* (Interjections) and what its watchers see of it (RunStream).  The code   *)
(* joins the two only by the run's id, so a behaviour is one of the one or  *)
(* one of the other.                                                        *)
(***************************************************************************)
EXTENDS Interjections

CONSTANTS Watched, MaxEvents, InsertFails

ASSUME WatchedAssumption == MaxEvents \in Nat \ {0} /\ InsertFails \in BOOLEAN

VARIABLES side, task, tails, pushed, flying, asks, terminal, backlog, bus, watch, chan,
          sender, got, copied, joined

shown == <<task, tails, pushed, flying, asks, terminal, backlog, bus, watch, chan, sender,
           got, copied, joined>>

Stream == INSTANCE RunStream WITH Run <- Watched, post <- watch

TalkInit == side \in {"said", "shown"} /\ Init /\ Stream!Init

TalkNext ==
  \/ side = "said" /\ Next /\ UNCHANGED <<side, shown>>
  \/ side = "shown" /\ Stream!Next /\ UNCHANGED <<side, vars>>

\* Nothing that is owed fairness is enabled on the side that stays where it began.
TalkSpec ==
  /\ TalkInit /\ [][TalkNext]_<<side, vars, shown>>
  /\ Fairness /\ Stream!Fairness

\* emit, subscribe, park: whatever the two mutexes let through, nothing overtakes
\* but the announcement of an approval and what overtakes that.
InOrder == Stream!InOrder

\* subscribe: everything copied is there, and everything sent after the sender
\* joined, but for an announcement that comes after finish; between copy and
\* joining, events are missing.
Seam == Stream!Seam

\* A subscribed stream comes to an end.
StreamEnds == Stream!StreamEnds
=============================================================================
