------------------------------ MODULE RunStream ------------------------------
(***************************************************************************)
(* The events of a run and the stream that shows them (RunManager::emit,   *)
(* subscribe and finish in runs.rs, post_message's subscription and        *)
(* run_stream in routes/messages.rs).                                      *)
(*                                                                         *)
(* emit pushes an event on the run's backlog and then sends it to the      *)
(* senders on the run's bus; subscribe copies the backlog into a fresh     *)
(* channel and then puts its sender on the bus.  Backlog and bus are two   *)
(* mutexes, so a subscription falls anywhere between the two halves of an  *)
(* emit, and so does another emit: park announces an approval after it was *)
(* committed, when decide_approval may have resumed the run or the sweep   *)
(* have failed it, and they emit too.  finish drops the bus, and one       *)
(* backlog_ttl later a task drops the backlog and whatever a late          *)
(* subscriber put back on the bus.                                         *)
(***************************************************************************)
EXTENDS Naturals, Sequences

CONSTANTS Run,         \* run ids; each post subscribes once to its own run
          MaxEvents,   \* bound: events a run emits, the terminal one included
          InsertFails  \* TRUE: the insert of the run's row may fail

Event == 1 .. MaxEvents

VARIABLES
  task,      \* what drives the run
  tails,     \* parks that committed an approval and have yet to announce it
  pushed,    \* events pushed on the backlog so far: the e-th one is event e
  flying,    \* events pushed and not yet sent on the bus
  asks,      \* the events that are ApprovalNeeded, from the tail of a park
  terminal,  \* the event that is Done or Error, or 0
  backlog,   \* RunManager.backlog: the entry of the run, if it has one
  bus,       \* RunManager.bus: no entry, or whether the sender is on it
  post,      \* where the post is that started the run
  chan,      \* what the post's channel holds
  sender,    \* the channel still has a sender
  got,       \* history: the events the stream has yielded
  copied,    \* history: `pushed` when the backlog was copied
  joined     \* history: the events sent before the sender was put on the bus

vars == <<task, tails, pushed, flying, asks, terminal, backlog, bus, post, chan,
          sender, got, copied, joined>>
runVars == <<task, tails, asks, terminal>>
streamVars == <<post, chan, sender, got, copied, joined>>

TaskPC == {"none", "run", "parked", "refused", "finish", "timer", "gone"}
PostPC == {"idle", "subscribe", "register", "stream", "over"}
NoEntry == [kept |-> FALSE]
Kept(n) == [kept |-> TRUE, events |-> n]
BusState == {"none", "empty", "sender"}

TypeOK ==
  /\ task \in [Run -> TaskPC]
  /\ tails \in [Run -> 0 .. MaxEvents]
  /\ pushed \in [Run -> 0 .. MaxEvents]
  /\ flying \in [Run -> SUBSET Event]
  /\ asks \in [Run -> SUBSET Event]
  /\ \A r \in Run : \A e \in flying[r] \cup asks[r] : e <= pushed[r]
  /\ terminal \in [Run -> 0 .. MaxEvents]
  /\ DOMAIN backlog = Run
  /\ \A r \in Run : backlog[r] \in {NoEntry, Kept(pushed[r])}
  /\ bus \in [Run -> BusState]
  /\ post \in [Run -> PostPC]
  /\ chan \in [Run -> Seq(Event)]
  /\ sender \in [Run -> BOOLEAN]
  /\ got \in [Run -> Seq(Event)]
  /\ copied \in [Run -> 0 .. MaxEvents]
  /\ joined \in [Run -> SUBSET Event]

Init ==
  /\ task = [r \in Run |-> "none"]
  /\ tails = [r \in Run |-> 0]
  /\ pushed = [r \in Run |-> 0]
  /\ flying = [r \in Run |-> {}]
  /\ asks = [r \in Run |-> {}]
  /\ terminal = [r \in Run |-> 0]
  /\ backlog = [r \in Run |-> NoEntry]
  /\ bus = [r \in Run |-> "none"]
  /\ post = [r \in Run |-> "idle"]
  /\ chan = [r \in Run |-> <<>>]
  /\ sender = [r \in Run |-> FALSE]
  /\ got = [r \in Run |-> <<>>]
  /\ copied = [r \in Run |-> 0]
  /\ joined = [r \in Run |-> {}]

-----------------------------------------------------------------------------
(***************************************************************************)
(* Emitting                                                                *)
(***************************************************************************)

\* emit's first half: the event goes on the backlog.
PushBacklog(r) ==
  /\ pushed' = [pushed EXCEPT ![r] = @ + 1]
  /\ flying' = [flying EXCEPT ![r] = @ \cup {pushed[r] + 1}]
  /\ backlog' = [backlog EXCEPT ![r] = Kept(pushed[r] + 1)]
  /\ UNCHANGED <<bus, streamVars>>

\* Slip: the terminal event is left to the backlog.
SendBusUntilLast(r, e) ==
  /\ e \in flying[r]
  /\ flying' = [flying EXCEPT ![r] = @ \ {e}]
  /\ chan' = [chan EXCEPT ![r] = IF bus[r] = "sender" /\ post[r] = "stream" /\ e # terminal[r]
                                 THEN Append(@, e) ELSE @]
  /\ UNCHANGED <<runVars, pushed, backlog, bus, post, sender, got, copied, joined>>

\* emit's second half: the event goes to the senders on the bus; the sender
\* of a stream that is over fails and is dropped from the bus.
SendBus(r, e) ==
  /\ e \in flying[r]
  /\ flying' = [flying EXCEPT ![r] = @ \ {e}]
  /\ IF bus[r] = "sender" /\ post[r] = "stream"
     THEN chan' = [chan EXCEPT ![r] = Append(@, e)] /\ UNCHANGED bus
     ELSE /\ bus' = [bus EXCEPT ![r] = IF @ = "sender" THEN "empty" ELSE @]
          /\ UNCHANGED chan
  /\ UNCHANGED <<runVars, pushed, backlog, post, sender, got, copied, joined>>

\* Whoever drives the run emits one event after the other: its last emit is
\* over.  (What may still be under way is the announcement of an approval.)
EmitOver(r) == flying[r] \subseteq asks[r]

\* Bound: n more events fit, beside the announcements that are due.
Room(r, n) == pushed[r] + tails[r] + n <= MaxEvents

-----------------------------------------------------------------------------
(***************************************************************************)
(* The run                                                                 *)
(***************************************************************************)

\* start_inner: the row is inserted and the task spawned ...
Start(r) ==
  /\ task[r] = "none"
  /\ EmitOver(r)
  /\ task' = [task EXCEPT ![r] = "run"]
  /\ post' = [post EXCEPT ![r] = "subscribe"]
  /\ UNCHANGED <<tails, pushed, flying, asks, terminal, backlog, bus, chan, sender, got, copied, joined>>

\* ... after a notice was emitted, if the gate had a warning ...
Notice(r) ==
  /\ task[r] = "none"
  /\ pushed[r] = 0
  /\ Room(r, 2)
  /\ PushBacklog(r)
  /\ UNCHANGED runVars

\* ... or the insert failed, which is told as the run's error; nothing is
\* spawned and finish is not called.
StartFails(r) ==
  /\ InsertFails
  /\ task[r] = "none"
  /\ pushed[r] = 0
  /\ Room(r, 1)
  /\ PushBacklog(r)
  /\ terminal' = [terminal EXCEPT ![r] = pushed[r] + 1]
  /\ task' = [task EXCEPT ![r] = "refused"]
  /\ UNCHANGED <<tails, asks>>

\* The failed start returns to the post when its emit is over.
Refused(r) ==
  /\ task[r] = "refused"
  /\ post[r] = "idle"
  /\ EmitOver(r)
  /\ post' = [post EXCEPT ![r] = "subscribe"]
  /\ UNCHANGED <<runVars, pushed, flying, backlog, bus, chan, sender, got, copied, joined>>

\* The task emits deltas, tool calls, notices ...
Emit(r) ==
  /\ task[r] = "run"
  /\ EmitOver(r)
  /\ Room(r, 2)
  /\ PushBacklog(r)
  /\ UNCHANGED runVars

\* ... parks: from the commit of the approval on it can be decided or expire ...
Park(r) ==
  /\ task[r] = "run"
  /\ EmitOver(r)
  /\ Room(r, 2)
  /\ task' = [task EXCEPT ![r] = "parked"]
  /\ tails' = [tails EXCEPT ![r] = @ + 1]
  /\ UNCHANGED <<pushed, flying, asks, terminal, backlog, bus, streamVars>>

\* ... while park goes on to tell that it is needed, whatever became of the run ...
Announce(r) ==
  /\ tails[r] > 0
  /\ PushBacklog(r)
  /\ asks' = [asks EXCEPT ![r] = @ \cup {pushed[r] + 1}]
  /\ tails' = [tails EXCEPT ![r] = @ - 1]
  /\ UNCHANGED <<task, terminal>>

\* ... and a decision spawns the task that goes on with the run.
Resume(r) ==
  /\ task[r] = "parked"
  /\ task' = [task EXCEPT ![r] = "run"]
  /\ UNCHANGED <<tails, pushed, flying, asks, terminal, backlog, bus, streamVars>>

\* The run ends with Done or Error: settle, or fail_waiting_run of a parked one.
EmitTerminal(r) ==
  /\ task[r] \in {"run", "parked"}
  /\ EmitOver(r)
  /\ PushBacklog(r)
  /\ terminal' = [terminal EXCEPT ![r] = pushed[r] + 1]
  /\ task' = [task EXCEPT ![r] = "finish"]
  /\ UNCHANGED <<tails, asks>>

\* finish: the run's entry on the bus is dropped, and with it the sender of
\* a stream that is on it; the cleanup is spawned.
Finish(r) ==
  /\ task[r] = "finish"
  /\ EmitOver(r)
  /\ bus' = [bus EXCEPT ![r] = "none"]
  /\ sender' = [sender EXCEPT ![r] = @ /\ bus[r] # "sender"]
  /\ task' = [task EXCEPT ![r] = "timer"]
  /\ UNCHANGED <<tails, pushed, flying, asks, terminal, backlog, post, chan, got, copied, joined>>

\* One backlog_ttl after finish.  Assumed about time: a post, which runs from
\* start to subscribe without an await, and the tail of a park, which runs from
\* the commit to the emit without one, are done by then.
TimeIsUp(r) ==
  /\ task[r] = "timer"
  /\ post[r] \in {"stream", "over"}
  /\ tails[r] = 0
  /\ flying[r] = {}

\* Slip: the cleanup drops the backlog and not the late subscriber.
CleanupHalf(r) ==
  /\ TimeIsUp(r)
  /\ backlog' = [backlog EXCEPT ![r] = NoEntry]
  /\ task' = [task EXCEPT ![r] = "gone"]
  /\ UNCHANGED <<tails, pushed, flying, asks, terminal, bus, sender, post, chan, got, copied, joined>>

\* The backlog goes, and whatever a late subscriber put back on the bus.
Cleanup(r) ==
  /\ TimeIsUp(r)
  /\ backlog' = [backlog EXCEPT ![r] = NoEntry]
  /\ bus' = [bus EXCEPT ![r] = "none"]
  /\ sender' = [sender EXCEPT ![r] = @ /\ bus[r] # "sender"]
  /\ task' = [task EXCEPT ![r] = "gone"]
  /\ UNCHANGED <<tails, pushed, flying, asks, terminal, post, chan, got, copied, joined>>

-----------------------------------------------------------------------------
(***************************************************************************)
(* The stream                                                              *)
(***************************************************************************)

\* subscribe's first half: the backlog so far goes into the channel.
CopyBacklog(r) ==
  /\ post[r] = "subscribe"
  /\ chan' = [chan EXCEPT ![r] = IF backlog[r].kept
                                 THEN [e \in 1 .. backlog[r].events |-> e] ELSE <<>>]
  /\ copied' = [copied EXCEPT ![r] = IF backlog[r].kept THEN backlog[r].events ELSE 0]
  /\ sender' = [sender EXCEPT ![r] = TRUE]
  /\ post' = [post EXCEPT ![r] = "register"]
  /\ UNCHANGED <<runVars, pushed, flying, backlog, bus, got, joined>>

\* Slip: the backlog is replayed once more, to close the gap.
RegisterReplays(r) ==
  /\ post[r] = "register"
  /\ chan' = [chan EXCEPT ![r] = @ \o IF backlog[r].kept
                                     THEN [e \in 1 .. backlog[r].events |-> e] ELSE <<>>]
  /\ bus' = [bus EXCEPT ![r] = "sender"]
  /\ joined' = [joined EXCEPT ![r] = 1 .. pushed[r] \ flying[r]]
  /\ post' = [post EXCEPT ![r] = "stream"]
  /\ UNCHANGED <<runVars, pushed, flying, backlog, sender, got, copied>>

\* subscribe's second half: the sender goes on the bus.
Register(r) ==
  /\ post[r] = "register"
  /\ bus' = [bus EXCEPT ![r] = "sender"]
  /\ joined' = [joined EXCEPT ![r] = 1 .. pushed[r] \ flying[r]]
  /\ post' = [post EXCEPT ![r] = "stream"]
  /\ UNCHANGED <<runVars, pushed, flying, backlog, chan, sender, got, copied>>

\* run_stream yields the next event and stops after a terminal one.
Read(r) ==
  /\ post[r] = "stream"
  /\ chan[r] # <<>>
  /\ got' = [got EXCEPT ![r] = Append(@, Head(chan[r]))]
  /\ chan' = [chan EXCEPT ![r] = Tail(@)]
  /\ post' = [post EXCEPT ![r] = IF Head(chan[r]) = terminal[r] THEN "over" ELSE @]
  /\ UNCHANGED <<runVars, pushed, flying, backlog, bus, sender, copied, joined>>

\* recv gives nothing once the channel is empty and every sender is gone.
ReadEnd(r) ==
  /\ post[r] = "stream"
  /\ chan[r] = <<>>
  /\ ~sender[r]
  /\ post' = [post EXCEPT ![r] = "over"]
  /\ UNCHANGED <<runVars, pushed, flying, backlog, bus, chan, sender, got, copied, joined>>

\* The reader closes the tab.
Disconnect(r) ==
  /\ post[r] = "stream"
  /\ post' = [post EXCEPT ![r] = "over"]
  /\ UNCHANGED <<runVars, pushed, flying, backlog, bus, chan, sender, got, copied, joined>>

-----------------------------------------------------------------------------
EmitterStep(r) ==
  \/ \E e \in Event : SendBus(r, e)
  \/ Refused(r) \/ Emit(r) \/ Park(r) \/ Announce(r) \/ Resume(r) \/ EmitTerminal(r) \/ Finish(r)
ReaderStep(r) == CopyBacklog(r) \/ Register(r) \/ Read(r) \/ ReadEnd(r)
Next == \E r \in Run : \/ Start(r) \/ Notice(r) \/ StartFails(r)
                       \/ EmitterStep(r) \/ Cleanup(r)
                       \/ ReaderStep(r) \/ Disconnect(r)
Spec == Init /\ [][Next]_vars

\* Tasks and handlers are scheduled, a run comes to an end (RunEnds of
\* RunLifecycle), a timer fires; a client reads what it is sent.
Fairness == \A r \in Run : /\ WF_vars(EmitterStep(r)) /\ WF_vars(ReaderStep(r))
                           /\ WF_vars(Cleanup(r))
LiveSpec == Spec /\ Fairness

-----------------------------------------------------------------------------
(***************************************************************************)
(* Properties                                                              *)
(***************************************************************************)

Received(r) == got[r] \o chan[r]
Times(r, e) == {i \in DOMAIN Received(r) : Received(r)[i] = e}
Subscribed(r) == post[r] = "stream"

Once(r, e) == \E i \in Times(r, e) : Times(r, e) = {i}

\* emit, subscribe, park: whatever the two mutexes let through, nothing
\* overtakes but an approval's announcement and what overtakes that.
InOrder ==
  \A r \in Run : \A i, j \in DOMAIN Received(r) :
    i < j /\ Received(r)[i] > Received(r)[j] => asks[r] \cap {Received(r)[i], Received(r)[j]} # {}

\* subscribe: the seam is the only place where the stream differs from the
\* run.  Everything copied is there, once unless it was being sent when the
\* sender joined.  Of the rest, what was sent before the sender joined is
\* missing and what was sent afterwards is there once; only an announcement
\* can come too late, when finish has dropped the bus.
Seam ==
  \A r \in Run : Subscribed(r) =>
    /\ \A e \in 1 .. copied[r] :
         Times(r, e) # {} /\ (e \in joined[r] \cup flying[r] => Once(r, e))
    /\ \A e \in (copied[r] + 1 .. pushed[r]) \ flying[r] :
         IF e \in joined[r]
         THEN Times(r, e) = {}
         ELSE Once(r, e) \/ (e \in asks[r] /\ task[r] \in {"timer", "gone"} /\ Times(r, e) = {})

\* "The stream SUBSCRIBES to the run": a subscribed stream comes to an end,
\* even when the terminal event slipped through the seam.
StreamEnds == \A r \in Run : Subscribed(r) ~> (post[r] = "over")

\* subscribe: "Replays this run's backlog, then streams whatever comes next."
ReplaysThenStreams ==
  \A r \in Run : Subscribed(r) => \A i \in DOMAIN Received(r) : Received(r)[i] = i

=============================================================================
