-------------------------------- MODULE Hooks --------------------------------
(***************************************************************************)
(* Deliveries that trigger one routine (server/src/routes/hooks.rs, the     *)
(* routine triggers of routes/slack.rs, hook_arrivals in store/src/         *)
(* routines.rs).  Every delivery has a handler of its own, the handlers run *)
(* in parallel, and each takes the database's lock several times: for the   *)
(* row, for the runs in flight, for its arrival, for the check of the       *)
(* conditions, to clear the arrivals, and to start the run.                 *)
(*                                                                         *)
(* A routine either fires on any delivery, or holds conditions, one to a    *)
(* kind of sender, which must all arrive within a window of time.           *)
(***************************************************************************)
EXTENDS Integers, Sequences, FiniteSets, SequencesExt

CONSTANTS
  Delivery,
  Kind,         \* the kinds of sender, one condition each
  Window,       \* 60 minutes
  MaxTime, MaxOther,
  MaxFaults     \* bound: crashes and failed statements

ASSUME HookAssumption ==
  /\ {Window, MaxTime, MaxOther, MaxFaults} \subseteq Nat
  /\ Kind # {}

Slack == "slack"

VARIABLES
  now,
  group,      \* the row holds conditions
  post,       \* Delivery -> where its handler is
  arrivals,   \* hook_arrivals of the routine, in the order they were recorded
  runs,       \* the routine's runs, in the order they were started
  faults      \* crashes, and statements of handlers that failed

vars == <<now, group, post, arrivals, runs, faults>>

Time == 0..MaxTime
MaxRuns == Cardinality(Delivery) + MaxOther

Station == {"read", "check", "record", "weigh", "clear", "fire"}
Answered == {"started", "refused", "ignored", "blind", "dead"}

\* before is history: how many runs there were when the handler found none in
\* flight, 0 if it could not look.  Blind is ignored because of a failed read.
Post ==
  [pc : {"idle"} \cup Station \cup Answered, kind : Kind \cup {Slack}, fits : BOOLEAN,
   before : 0..MaxRuns, at : Time]

Arrival == [of : Delivery, kind : Kind, fits : BOOLEAN, at : Time]

\* Lost is a row left running by a process that died; nothing revisits it.
Run == [status : {"running", "waiting", "lost", "over"}, by : Delivery \cup {"other"}]

TypeOK ==
  /\ now \in Time
  /\ group \in BOOLEAN
  /\ post \in [Delivery -> Post]
  /\ arrivals \in Seq(Arrival) /\ Len(arrivals) <= Cardinality(Delivery)
  /\ runs \in Seq(Run) /\ Len(runs) <= MaxRuns
  /\ faults \in 0..MaxFaults

Init ==
  /\ now = 0
  /\ group \in BOOLEAN
  /\ post = [d \in Delivery |-> [pc |-> "idle", kind |-> Slack, fits |-> FALSE, before |-> 0, at |-> 0]]
  /\ arrivals = <<>>
  /\ runs = <<>>
  /\ faults = 0

clock == <<now, group>>
world == <<clock, faults>>
At(d, pc) == post[d].pc = pc
To(d, pc) == post' = [post EXCEPT ![d].pc = pc]
Fault == faults < MaxFaults /\ faults' = faults + 1

-----------------------------------------------------------------------------
(***************************************************************************)
(* post_webhook, one critical section after the other.                     *)
(***************************************************************************)
Arrive(d) ==
  /\ At(d, "idle")
  /\ \E kind \in Kind \cup {Slack}, fits \in BOOLEAN :
       post' = [post EXCEPT ![d] = [@ EXCEPT !.pc = "read", !.kind = kind, !.fits = fits]]
  /\ UNCHANGED <<world, arrivals, runs>>

\* The row, its secret, the signature.  A webhook does not ask whether the
\* routine is switched on; an event of Slack is offered to those that are.
ReadRow(d) ==
  /\ At(d, "read")
  /\ \/ To(d, "check")
     \/ To(d, "ignored")
  /\ UNCHANGED <<world, arrivals, runs>>

\* Slip: a run that waits for an approval is not in flight.
OnlyRunning(r) == r.status \in {"running", "lost"}

InFlight(r) == r.status # "over"

\* In flight, it is refused; an event nobody asked for, a ping or a text the
\* routine's pattern misses is ignored; an event of Slack knows no conditions.
\* A lookup that fails has found nothing in flight.
CheckInFlight(d) ==
  LET goesOn(before) == post' = [post EXCEPT
        ![d].pc = IF group /\ post[d].kind # Slack THEN "record" ELSE "fire", ![d].before = before]
  IN
  /\ At(d, "check")
  /\ IF \E i \in DOMAIN runs : InFlight(runs[i])
     THEN \/ To(d, "refused") /\ UNCHANGED faults
          \/ (To(d, "ignored") \/ goesOn(0)) /\ Fault
     ELSE (To(d, "ignored") \/ goesOn(Len(runs))) /\ UNCHANGED faults
  /\ UNCHANGED <<clock, arrivals, runs>>

\* record_hook_arrival.
Record(d) ==
  /\ At(d, "record")
  /\ \/ /\ arrivals' = Append(arrivals, [of |-> d, kind |-> post[d].kind,
                                         fits |-> post[d].fits, at |-> now])
        /\ post' = [post EXCEPT ![d] = [@ EXCEPT !.pc = "weigh", !.at = now]]
     \/ /\ To(d, "refused")
        /\ UNCHANGED arrivals
  /\ UNCHANGED <<world, runs>>

\* latest_hook_arrival of every kind, each against its condition's pattern.
Fresh(seen, k, since) == {i \in DOMAIN seen : seen[i].kind = k /\ seen[i].at >= since}

Met(seen, since) ==
  \A k \in Kind : \E i \in Fresh(seen, k, since) :
    seen[i].fits /\ \A j \in Fresh(seen, k, since) : j <= i

\* The window is reckoned from a moment between the record and the check.
WeighedIn(d, seen) ==
  \E t \in post[d].at..now :
    To(d, IF Met(seen, t - Window) THEN "clear" ELSE "ignored")

\* Slip: the conditions are weighed without the arrival just recorded.
WeighOthers(d) ==
  /\ At(d, "weigh")
  /\ WeighedIn(d, SelectSeq(arrivals, LAMBDA a : a.of # d))
  /\ UNCHANGED <<world, arrivals, runs>>

\* A read that fails counts as a condition that has not arrived.
Weigh(d) ==
  /\ At(d, "weigh")
  /\ \/ WeighedIn(d, arrivals) /\ UNCHANGED faults
     \/ To(d, "blind") /\ Fault
  /\ UNCHANGED <<clock, arrivals, runs>>

\* clear_hook_arrivals; that it failed is not noticed.
Clear(d) ==
  /\ At(d, "clear")
  /\ To(d, "fire")
  /\ \/ arrivals' = <<>> /\ UNCHANGED faults
     \/ UNCHANGED arrivals /\ Fault
  /\ UNCHANGED <<clock, runs>>

\* fire_webhook_routine, with the row as it was read; nothing is started when
\* the bot is gone.
Fire(d) ==
  /\ At(d, "fire")
  /\ \/ /\ runs' = Append(runs, [status |-> "running", by |-> d])
        /\ To(d, "started")
     \/ /\ To(d, "refused")
        /\ UNCHANGED runs
  /\ UNCHANGED <<world, arrivals>>

-----------------------------------------------------------------------------
(***************************************************************************)
(* The rest of the server.                                                 *)
(***************************************************************************)
\* A tick or a person starts a run of the routine, whatever is in flight.
Other == Cardinality({i \in DOMAIN runs : runs[i].by = "other"})

StartOther ==
  /\ Other < MaxOther
  /\ runs' = Append(runs, [status |-> "running", by |-> "other"])
  /\ UNCHANGED <<world, post, arrivals>>

Becomes(i, from, to) ==
  /\ runs[i].status = from
  /\ runs' = [runs EXCEPT ![i].status = to]
  /\ UNCHANGED <<world, post, arrivals>>

Park(i) == Becomes(i, "running", "waiting")
Resume(i) == Becomes(i, "waiting", "running")
Settle(i) == Becomes(i, "running", "over")
GiveUp(i) == Becomes(i, "waiting", "over")

Tick ==
  /\ now < MaxTime
  /\ now' = now + 1
  /\ UNCHANGED <<group, faults, post, arrivals, runs>>

\* Handlers and drivers die with the process, rows stay.
Crash ==
  /\ Fault
  /\ post' = [d \in Delivery |-> IF post[d].pc \in Station THEN [post[d] EXCEPT !.pc = "dead"] ELSE post[d]]
  /\ runs' = [i \in DOMAIN runs |->
                IF runs[i].status = "running" THEN [runs[i] EXCEPT !.status = "lost"] ELSE runs[i]]
  /\ UNCHANGED <<now, group, arrivals>>

-----------------------------------------------------------------------------
Handle(d) ==
  \/ ReadRow(d) \/ CheckInFlight(d) \/ Record(d)
  \/ Weigh(d) \/ Clear(d) \/ Fire(d)

Next ==
  \/ \E d \in Delivery : Arrive(d) \/ Handle(d)
  \/ \E i \in DOMAIN runs : Park(i) \/ Resume(i) \/ Settle(i) \/ GiveUp(i)
  \/ StartOther \/ Tick \/ Crash

Spec == Init /\ [][Next]_vars

-----------------------------------------------------------------------------
\* Between its arrival and its answer a handler has the arrivals in its hands.
Weighing(d) == post[d].pc \in {"weigh", "clear"}

\* No met group is left behind: when the conditions have all arrived, in any
\* order and through handlers that overlap in any way, one of these handlers
\* finds them (record, then check).  Only after a fault are they left there: the
\* handler that recorded last died before its check, could not read them, or
\* fires on them and failed to clear them.
MetFires ==
  (\A d \in Delivery : ~Weighing(d)) /\ Met(arrivals, now - Window)
    => faults > 0 /\ post[Last(arrivals).of].pc \in {"dead", "blind", "fire", "started", "refused"}

\* The strongest the check for a run in flight promises: a delivery starts a
\* run on top of another only if that one was started during its own handling,
\* or its check failed (before is 0), which lets it pass.  A run found in flight,
\* waiting ones and those a dead process left included, turns a delivery away.
StacksOnlyInOverlap ==
  \A i, j \in DOMAIN runs :
    i < j /\ InFlight(runs[i]) /\ runs[j].by # "other" => i > post[runs[j].by].before

=============================================================================
