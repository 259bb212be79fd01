------------------------------ MODULE Routines ------------------------------
(***************************************************************************)
(* Routines of unattended bots (server/src/routines.rs, the store's and the *)
(* routes' routines.rs, settle in runs.rs).  A tick lists the routines that *)
(* are due under one lock and then works through that list, while people    *)
(* edit, stop, start and delete them, runs settle and somebody signs in:    *)
(* every row it writes may have changed since it was listed.                *)
(*                                                                         *)
(* Ticker is whoever calls fire_due: the timer, which never overlaps with   *)
(* itself (start_scheduler awaits each tick), or POST /api/routines/tick.   *)
(***************************************************************************)
EXTENDS Schedule

CONSTANTS
  Routine,
  Ticker,
  Plans,          \* the schedules people write
  AbsentAfter,    \* ABSENCE_DAYS, in units of time
  MaxTime, MaxLive, MaxEdits

ASSUME RoutineAssumption == {AbsentAfter, MaxTime, MaxLive, MaxEdits} \subseteq Nat

\* The next run of a plan lies ahead, at most nine days (an interval of a week
\* that waits 48 hours for its window).  parse_schedule sees to it, but for a
\* schedule that arrives as JSON, whose interval may be 0; such plans are left out.
ASSUME PlanAssumption ==
  \A p \in Plans, t \in 0..MaxTime : NextRun(p, t) \in (t + 1)..(MaxTime + 9 * Day)

FailureLimit == 3
Time == 0..MaxTime
Gone == [deleted |-> TRUE]      \* the row of a routine that was deleted
Nothing == [listed |-> FALSE]

VARIABLES
  now,
  row,        \* Routine -> its row in routines, or Gone
  lastLogin,  \* the setting last_login_at
  tick,       \* Ticker -> where its fire_due is
  live,       \* Routine -> how many of its runs are running or waiting
  edits,      \* how often people intervened or the server was restarted
  fired       \* history: Routine -> due time -> how often it was fired for it

vars == <<now, row, lastLogin, tick, live, edits, fired>>

Kind == {"prompt", "tool"}
Reason == {"none", "absence", "failures", "spend"}

\* The moments a next run can fall on: one period after the end of the model.
Moment == 0..(MaxTime + 9 * Day)

\* by is history: who switched the routine off when it was last on.
Row == [on : BOOLEAN, kind : Kind, plan : Plans, next : Moment, failures : 0..(FailureLimit + 1),
        reason : Reason, by : Reason \cup {"people"}]

Due == [routine : Routine, kind : Kind, plan : Plans, next : Moment]

AtWork == {"pick", "login", "absent", "move", "gate", "spend", "fire", "tool"}

Idle == [pc |-> "idle"]
TickState ==
  {Idle} \cup [pc : AtWork, at : Time, due : SUBSET Due, cur : Due \cup {Nothing}]

Here(r) == row[r] # Gone
IsInterval(plan) == plan.kind = "interval"

TypeOK ==
  /\ now \in Time
  /\ row \in [Routine -> Row \cup {Gone}]
  /\ lastLogin \in Time
  /\ tick \in [Ticker -> TickState]
  /\ live \in [Routine -> 0..MaxLive]
  /\ edits \in 0..MaxEdits
  /\ fired \in [Routine -> [Time -> Nat]]

\* A routine is created stopped; here each was started once, at the beginning.
Init ==
  /\ now = 0
  /\ row \in [Routine -> {[on |-> TRUE, kind |-> kd, plan |-> p, next |-> NextRun(p, 0),
                           failures |-> 0, reason |-> "none", by |-> "none"] : kd \in Kind, p \in Plans}]
  /\ lastLogin = 0
  /\ tick = [k \in Ticker |-> Idle]
  /\ live = [r \in Routine |-> 0]
  /\ edits = 0
  /\ fired = [r \in Routine |-> [t \in Time |-> 0]]

people == <<lastLogin, edits>>

\* An UPDATE by id: a row that is gone stays gone.
Put(r, new) == row' = IF Here(r) THEN [row EXCEPT ![r] = new] ELSE row

Step(k, pc) == tick' = [tick EXCEPT ![k].pc = pc]
At(k, pc) == tick[k] # Idle /\ tick[k].pc = pc

SwitchOff(q, who) == [q EXCEPT !.on = FALSE, !.by = IF q.on THEN who ELSE @]

-----------------------------------------------------------------------------
(***************************************************************************)
(* fire_due.                                                               *)
(***************************************************************************)
IsDue(r) == Here(r) /\ row[r].on /\ row[r].next <= now

AsListed(r) ==
  [routine |-> r, kind |-> row[r].kind, plan |-> row[r].plan, next |-> row[r].next]

List(k) ==
  /\ tick[k] = Idle
  /\ \E r \in Routine : IsDue(r)
  /\ tick' = [tick EXCEPT ![k] =
       [pc |-> "pick", at |-> now, cur |-> Nothing,
        due |-> {AsListed(r) : r \in {q \in Routine : IsDue(q)}}]]
  /\ UNCHANGED <<now, row, live, people, fired>>

\* Each row in turn as it was listed; only intervals look at the sign-in.
Pick(k) ==
  /\ At(k, "pick")
  /\ \E d \in tick[k].due :
       tick' = [tick EXCEPT ![k] =
         [@ EXCEPT !.pc = IF IsInterval(d.plan) THEN "login" ELSE "move",
                   !.cur = d, !.due = tick[k].due \ {d}]]
  /\ UNCHANGED <<now, row, live, people, fired>>

EndTick(k) ==
  /\ At(k, "pick") /\ tick[k].due = {}
  /\ tick' = [tick EXCEPT ![k] = Idle]
  /\ UNCHANGED <<now, row, live, people, fired>>

ReadLogin(k) ==
  /\ At(k, "login")
  /\ Step(k, IF tick[k].at - lastLogin > AbsentAfter THEN "absent" ELSE "move")
  /\ UNCHANGED <<now, row, live, people, fired>>

\* The row is written by its id, whatever it has become since.
PauseFor(r, reason) == Put(r, [SwitchOff(row[r], reason) EXCEPT !.reason = reason])

PauseAbsent(k) ==
  /\ At(k, "absent")
  /\ PauseFor(tick[k].cur.routine, "absence")
  /\ Step(k, "pick")
  /\ UNCHANGED <<now, live, people, fired>>

\* Slip: the routine is due again from the moment it was due.
RescheduleInPlace(k) ==
  /\ At(k, "move")
  /\ Step(k, "gate")
  /\ UNCHANGED <<now, row, live, people, fired>>

Reschedule(k) ==
  /\ At(k, "move")
  /\ LET r == tick[k].cur.routine
     IN  Put(r, [row[r] EXCEPT !.next = NextRun(tick[k].cur.plan, tick[k].at)])
  /\ Step(k, "gate")
  /\ UNCHANGED <<now, live, people, fired>>

\* The member's ceiling, then the platform's, which awaits the account usage.
Gate(k) ==
  /\ At(k, "gate")
  /\ \/ Step(k, "spend")
     \/ Step(k, IF tick[k].cur.kind = "tool" THEN "tool" ELSE "fire")
  /\ UNCHANGED <<now, row, live, people, fired>>

\* Slip: over the ceiling, the routine is passed over and not paused.
PassOver(k) ==
  /\ At(k, "spend")
  /\ Step(k, "pick")
  /\ UNCHANGED <<now, row, live, people, fired>>

PauseSpend(k) ==
  /\ At(k, "spend")
  /\ PauseFor(tick[k].cur.routine, "spend")
  /\ Step(k, "pick")
  /\ UNCHANGED <<now, live, people, fired>>

CountFire(r, t) == fired' = [fired EXCEPT ![r][t] = @ + 1]

\* fire_routine: a run is started, also if the routine is gone by now; the
\* bot is still there.
Fire(k) ==
  /\ At(k, "fire")
  /\ LET d == tick[k].cur
     IN  /\ live[d.routine] < MaxLive
         /\ live' = [live EXCEPT ![d.routine] = @ + 1]
         /\ CountFire(d.routine, d.next)
  /\ Step(k, "pick")
  /\ UNCHANGED <<now, row, people>>

\* record_routine_run.
Healthy(q) == [q EXCEPT !.failures = 0]
Failed(q) ==
  LET n == IF q.failures > FailureLimit THEN q.failures ELSE q.failures + 1
  IN  IF n >= FailureLimit /\ q.on
      THEN [SwitchOff(q, "failures") EXCEPT !.failures = n, !.reason = "failures"]
      ELSE [q EXCEPT !.failures = n]

Record(r, ok) == Put(r, IF ok THEN Healthy(row[r]) ELSE Failed(row[r]))

\* fire_routine_tool: the tool is refused or broken, finds nothing, or finds
\* something a run has to put into words.
FireTool(k) ==
  /\ At(k, "tool")
  /\ LET d == tick[k].cur
     IN  /\ \/ Record(d.routine, FALSE) /\ UNCHANGED live
            \/ Record(d.routine, TRUE) /\ UNCHANGED live
            \/ /\ live[d.routine] < MaxLive
               /\ live' = [live EXCEPT ![d.routine] = @ + 1]
               /\ UNCHANGED row
         /\ CountFire(d.routine, d.next)
  /\ Step(k, "pick")
  /\ UNCHANGED <<now, people>>

-----------------------------------------------------------------------------
(***************************************************************************)
(* Runs settle; time passes; the server is restarted.                      *)
(***************************************************************************)
\* settle records the outcome.  A run that waited for an approval nobody gave
\* is failed by the sweep, which records nothing.
Settle(r) ==
  /\ live[r] > 0
  /\ live' = [live EXCEPT ![r] = @ - 1]
  /\ \/ \E ok \in BOOLEAN : Record(r, ok)
     \/ UNCHANGED row
  /\ UNCHANGED <<now, tick, people, fired>>

Advance ==
  /\ now < MaxTime
  /\ now' = now + 1
  /\ UNCHANGED <<row, tick, live, people, fired>>

Intervene == edits < MaxEdits /\ edits' = edits + 1

\* Tasks are gone with the process; runs nobody drives are never settled.
Crash ==
  /\ Intervene
  /\ tick' = [k \in Ticker |-> Idle]
  /\ live' = [r \in Routine |-> 0]
  /\ UNCHANGED <<now, row, lastLogin, fired>>

-----------------------------------------------------------------------------
(***************************************************************************)
(* People.                                                                 *)
(***************************************************************************)
\* PATCH of the schedule.
PatchSchedule(r, p) ==
  /\ Here(r) /\ Intervene
  /\ Put(r, [row[r] EXCEPT !.plan = p, !.next = NextRun(p, now)])
  /\ UNCHANGED <<now, lastLogin, tick, live, fired>>

\* PATCH of the kind.
PatchKind(r, kind) ==
  /\ Here(r) /\ Intervene
  /\ Put(r, [row[r] EXCEPT !.kind = kind])
  /\ UNCHANGED <<now, lastLogin, tick, live, fired>>

\* POST active: a start forgives the failures and computes the next run.
Start(r) ==
  /\ Here(r) /\ Intervene
  /\ Put(r, [row[r] EXCEPT !.on = TRUE, !.failures = 0, !.reason = "none",
                           !.next = NextRun(row[r].plan, now)])
  /\ UNCHANGED <<now, lastLogin, tick, live, fired>>

Stop(r) ==
  /\ Here(r) /\ Intervene
  /\ Put(r, SwitchOff(row[r], "people"))
  /\ UNCHANGED <<now, lastLogin, tick, live, fired>>

Delete(r) ==
  /\ Here(r) /\ Intervene
  /\ row' = [row EXCEPT ![r] = Gone]
  /\ UNCHANGED <<now, lastLogin, tick, live, fired>>

\* POST run: whatever the schedule and the switch say.
RunNow(r) ==
  /\ Here(r) /\ Intervene
  /\ live[r] < MaxLive
  /\ live' = [live EXCEPT ![r] = @ + 1]
  /\ UNCHANGED <<now, row, lastLogin, tick, fired>>

\* A sign-in is recorded, and resume_absence_paused starts what was paused for
\* absence.
Resumed(q) ==
  IF q # Gone /\ q.reason = "absence"
  THEN [q EXCEPT !.on = TRUE, !.reason = "none", !.next = NextRun(q.plan, now)] ELSE q

Login ==
  /\ Intervene
  /\ lastLogin' = now
  /\ row' = [r \in Routine |-> Resumed(row[r])]
  /\ UNCHANGED <<now, tick, live, fired>>

-----------------------------------------------------------------------------
TickStep(k) ==
  \/ List(k) \/ Pick(k) \/ EndTick(k) \/ ReadLogin(k) \/ PauseAbsent(k)
  \/ Reschedule(k) \/ Gate(k) \/ PauseSpend(k) \/ Fire(k) \/ FireTool(k)

Next ==
  \/ \E k \in Ticker : TickStep(k)
  \/ \E r \in Routine :
       \/ Settle(r) \/ Start(r) \/ Stop(r) \/ Delete(r) \/ RunNow(r)
       \/ \E p \in Plans : PatchSchedule(r, p)
       \/ \E kind \in Kind : PatchKind(r, kind)
  \/ Advance \/ Crash \/ Login

Spec == Init /\ [][Next]_vars

\* The timer ticks every 30 seconds and its task is scheduled; runs end.
\* Nobody has to intervene, and
\* restarts are counted among the interventions.
LiveSpec ==
  /\ Spec
  /\ \A k \in Ticker : WF_vars(TickStep(k))
  /\ \A r \in Routine : WF_vars(Settle(r))

-----------------------------------------------------------------------------
\* A due time is fired for once, as long as ticks do not overlap: though a tick
\* takes longer than a period, people edit the row it works on or restart the
\* routine, or the server dies between the new due time and the run
\* ("Reschedules BEFORE starting a run ... cannot make its routine fire in a loop").
OncePerDue == \A r \in Routine, t \in Time : fired[r][t] <= 1

\* An active routine shows no reason for a pause and always has a next run,
\* at most a period (of its plan, or of the one it had when a tick listed it)
\* from the last time anybody computed it: none is active and forgotten.
NoneForgotten ==
  \A r \in Routine : Here(r) /\ row[r].on =>
    /\ row[r].reason = "none"
    /\ \E p \in Plans, t \in 0..now : row[r].next = NextRun(p, t)

\* The rows a tick still has to deal with.
Ahead(k) ==
  IF tick[k] = Idle THEN {} ELSE tick[k].due \cup (IF tick[k].pc = "pick" THEN {} ELSE {tick[k].cur})

\* They were due when they were listed, each routine is among them once, and a
\* row is moved on before its routine is fired.
Listed ==
  \A k \in Ticker : tick[k] # Idle =>
    /\ tick[k].at <= now
    /\ tick[k].pc # "pick" => tick[k].cur \in Due /\ tick[k].cur \notin tick[k].due
    /\ \A d \in Ahead(k) : d.next <= tick[k].at
    /\ \A d, e \in Ahead(k) : d.routine = e.routine => d = e
    /\ tick[k].pc \in {"gate", "spend", "fire", "tool"} /\ Here(tick[k].cur.routine)
         => row[tick[k].cur.routine].next > tick[k].cur.next

\* What was fired for is behind whatever may be fired for.
Behind ==
  \A r \in Routine, t \in Time : fired[r][t] > 0 =>
    /\ t <= now
    /\ Here(r) => row[r].next > t
    /\ \A k \in Ticker : tick[k] # Idle =>
         /\ t <= tick[k].at
         /\ \A d \in Ahead(k) : d.routine = r => d.next > t

IInv == TypeOK /\ NoneForgotten /\ Listed /\ Behind /\ OncePerDue

\* Every due routine runs, or is switched off for a reason one can read, once
\* people leave it alone: no tick loses what it took off the list.
Fires(r) == MapThenSumSet(LAMBDA t : fired[r][t], Time)

DueIsServed ==
  \A r \in Routine, n \in 0..MaxTime :
    edits = MaxEdits /\ Here(r) /\ IsDue(r) /\ Fires(r) = n ~> Fires(r) > n \/ ~(Here(r) /\ row[r].on)

\* resume_absence_paused: "Restarts every routine an absence pause switched
\* off, and only those".
OnlyAbsenceIsResumed ==
  [][ Login => \A r \in Routine :
        Here(r) /\ ~row[r].on /\ row'[r].on => row[r].by = "absence" ]_vars

=============================================================================
