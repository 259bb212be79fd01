-------------------------------- MODULE Goals --------------------------------
(***************************************************************************)
(* Goals: work that goes on over many sessions until it is done, stopped or *)
(* out of budget (server/src/goals.rs, store/src/goals.rs and the routes).  *)
(* A tick lists the due goals and works through the rows as it read them; a *)
(* session that ends is counted by settle_goal_run, one lock of the store   *)
(* per statement, while people and the bot itself change the goal.          *)
(* Time is the hour of the day; next is how many hours a goal still waits.  *)
(* Left out: that a statement of settle_goal_run fails; its error is dropped *)
(* and what it was to write is lost.                                        *)
(***************************************************************************)
EXTENDS Naturals, FiniteSets

CONSTANTS
  Goal,
  Session,      \* slots for sessions: so many may be under way at once
  Timer, Route, \* who calls fire_due_goals: the timer of 30 s, or POST tick
  DayLen, QuietFrom, QuietTo,
  Budgets,      \* token budgets people set, 0 for none
  MaxTokens,    \* the most a session spends
  MaxSpent      \* spent_tokens is told apart up to here

NoOne == [nobody |-> TRUE]

ASSUME GoalsAssumption ==
  /\ {DayLen, QuietFrom, QuietTo, MaxTokens, MaxSpent} \subseteq Nat
  /\ 0 < QuietTo /\ QuietTo < QuietFrom /\ QuietFrom < DayLen
  /\ Budgets \subseteq 0..MaxSpent
  /\ Timer # Route /\ NoOne \notin Goal \cup Session

Ticker == {Timer, Route}
NoToolLimit == 3
SessionHours == 1
Gone == [deleted |-> TRUE]
Free == [pc |-> "free"]
Idle == [due |-> {}, fire |-> NoOne]

VARIABLES
  hour,      \* of the day
  ticked,    \* the timer came by in this hour
  goal,      \* Goal -> its row in goals, or Gone
  session,   \* Session -> Free, or a run of a goal
  hook,      \* who holds the mutex of on_run_done
  tick,      \* Ticker -> where its fire_due_goals is
  spell      \* history: Goal -> how many sessions in a row did no work

goals == <<hour, ticked, goal, session, hook, tick, spell>>

\* Done and stopped are both ended; a goal with no deadline has it ahead.
Status == {"active", "paused", "ended"}
Deadline == {"ahead", "past"}
Spent == 0..MaxSpent
Streak == 0..NoToolLimit

Row == [status : Status, budget : Budgets, deadline : Deadline, spent : Spent,
        streak : Streak, next : 0..DayLen]

Settling == {"read", "spend", "count", "pause", "reread", "stop"}
SessionRow == [pc : {"running"} \cup Settling, goal : Goal, streak : Streak]

\* A goal as it was listed: over its budget, and at night how long until morning.
Due == [goal : Goal, over : BOOLEAN, night : 0..DayLen]
TickRow == [due : SUBSET Due, fire : Goal \cup {NoOne}]

GoalsOK ==
  /\ hour \in 0..(DayLen - 1)
  /\ ticked \in BOOLEAN
  /\ goal \in [Goal -> Row \cup {Gone}]
  /\ session \in [Session -> SessionRow \cup {Free}]
  /\ hook \in Session \cup {NoOne}
  /\ tick \in [Ticker -> TickRow]
  /\ spell \in [Goal -> Streak]

\* create_goal makes a goal that is due at once.
GoalsInit ==
  /\ hour = QuietTo
  /\ ticked = FALSE
  /\ goal \in [Goal -> {[status |-> "active", budget |-> b, deadline |-> "ahead", spent |-> 0, streak |-> 0,
                          next |-> 0] : b \in Budgets}]
  /\ session = [s \in Session |-> Free]
  /\ hook = NoOne
  /\ tick = [k \in Ticker |-> Idle]
  /\ spell = [g \in Goal |-> 0]

Here(g) == goal[g] # Gone
Active(g) == Here(g) /\ goal[g].status = "active"

\* Counted as far as it is told apart.
Upto(n, most) == IF n > most THEN most ELSE n

\* Slip: the last token of the budget may be spent twice.
OverrunPast(row) == (row.budget > 0 /\ row.spent > row.budget) \/ row.deadline = "past"

\* budget_overrun.
Overrun(row) == (row.budget > 0 /\ row.spent >= row.budget) \/ row.deadline = "past"

\* Slip: the hour the night ends in is night.
IsQuietToo(h) == h <= QuietTo \/ h >= QuietFrom

IsQuiet(h) == h < QuietTo \/ h >= QuietFrom

\* next_workable_session in quiet hours: the next end of the night, from now.
ToMorning(h) == IF h < QuietTo THEN QuietTo - h ELSE DayLen - h + QuietTo

\* An UPDATE by id: a row that is gone stays gone.
PutGoal(g, row) == goal' = IF Here(g) THEN [goal EXCEPT ![g] = row] ELSE goal

-----------------------------------------------------------------------------
(***************************************************************************)
(* fire_due_goals.                                                         *)
(***************************************************************************)
IsDue(g) == Active(g) /\ goal[g].next = 0

AsListed(g) == [goal |-> g, over |-> Overrun(goal[g]), night |-> IF IsQuiet(hour) THEN ToMorning(hour) ELSE 0]

List(k) ==
  /\ tick[k] = Idle
  /\ tick' = [tick EXCEPT ![k].due = {AsListed(g) : g \in {q \in Goal : IsDue(q)}}]
  /\ ticked' = (ticked \/ k = Timer)
  /\ UNCHANGED <<hour, goal, session, hook, spell>>

\* The next row in hand; it is written whatever it has become since.
Handles(k, d, field, value) ==
  /\ tick[k].fire = NoOne
  /\ d \in tick[k].due
  /\ PutGoal(d.goal, [goal[d.goal] EXCEPT ![field] = value])
  /\ UNCHANGED <<hour, ticked, session, hook, spell>>
Passes(k, d) == tick' = [tick EXCEPT ![k].due = @ \ {d}]

StopOverrun(k, d) == d.over /\ Handles(k, d, "status", "ended") /\ Passes(k, d)
PutOff(k, d) == ~d.over /\ d.night > 0 /\ Handles(k, d, "next", d.night) /\ Passes(k, d)

\* By day the member is over the ceiling, or not.
StopAtCeiling(k, d) == ~d.over /\ d.night = 0 /\ Handles(k, d, "status", "ended") /\ Passes(k, d)
Reschedule(k, d) ==
  /\ ~d.over /\ d.night = 0
  /\ Handles(k, d, "next", SessionHours)
  /\ tick' = [tick EXCEPT ![k] = [due |-> @.due \ {d}, fire |-> d.goal]]

\* start_goal, also for a goal that was closed or deleted meanwhile.
Begin(s, g) ==
  /\ session[s] = Free
  /\ session' = [session EXCEPT ![s] = [pc |-> "running", goal |-> g, streak |-> 0]]

Fire(k) ==
  /\ tick[k].fire # NoOne
  /\ \E s \in Session : Begin(s, tick[k].fire)
  /\ tick' = [tick EXCEPT ![k].fire = NoOne]
  /\ UNCHANGED <<hour, ticked, goal, hook, spell>>

-----------------------------------------------------------------------------
(***************************************************************************)
(* settle_goal_run, called by a run that ends, under the mutex of the hook. *)
(***************************************************************************)
Settles(s, pc) == session[s] # Free /\ session[s].pc = pc
Moves(s, pc) == session' = [session EXCEPT ![s].pc = pc] /\ UNCHANGED hook
Leaves(s) == session' = [session EXCEPT ![s] = Free] /\ hook' = NoOne

\* Slip: two sessions that end together are counted together.
EnterUnlocked(s) ==
  /\ Settles(s, "running")
  /\ session' = [session EXCEPT ![s].pc = "read"]
  /\ hook' = s
  /\ UNCHANGED <<hour, ticked, goal, tick, spell>>

Enter(s) ==
  /\ Settles(s, "running")
  /\ hook = NoOne
  /\ hook' = s
  /\ session' = [session EXCEPT ![s].pc = "read"]
  /\ UNCHANGED <<hour, ticked, goal, tick, spell>>

\* Nothing is counted of a session whose goal is no longer active.
Read(s) ==
  /\ Settles(s, "read")
  /\ LET g == session[s].goal
     IN  IF Active(g)
         THEN session' = [session EXCEPT ![s].pc = "spend", ![s].streak = goal[g].streak] /\ UNCHANGED hook
         ELSE Leaves(s)
  /\ UNCHANGED <<hour, ticked, goal, tick, spell>>

\* The tokens are added in the store.
Spend(s) ==
  /\ Settles(s, "spend")
  /\ LET g == session[s].goal
     IN  \E tokens \in 0..MaxTokens : PutGoal(g, [goal[g] EXCEPT !.spent = Upto(@ + tokens, MaxSpent)])
  /\ Moves(s, "count")
  /\ UNCHANGED <<hour, ticked, tick, spell>>

\* The streak is written from what was read.
Count(s) ==
  /\ Settles(s, "count")
  /\ \E worked \in BOOLEAN :
       LET g == session[s].goal
           streak == IF worked THEN 0 ELSE Upto(session[s].streak + 1, NoToolLimit)
       IN  /\ PutGoal(g, [goal[g] EXCEPT !.streak = streak])
           /\ Moves(s, IF streak >= NoToolLimit THEN "pause" ELSE "reread")
           /\ spell' = [spell EXCEPT ![g] = IF worked \/ ~Here(g) THEN 0 ELSE Upto(@ + 1, NoToolLimit)]
  /\ UNCHANGED <<hour, ticked, tick>>

\* The goal itself, whatever its status is by now.
Closes(s, status) ==
  /\ LET g == session[s].goal IN PutGoal(g, [goal[g] EXCEPT !.status = status])
  /\ Leaves(s)
  /\ UNCHANGED <<hour, ticked, tick, spell>>

Pause(s) == Settles(s, "pause") /\ Closes(s, "paused")

Reread(s) ==
  /\ Settles(s, "reread")
  /\ LET g == session[s].goal IN IF Here(g) /\ Overrun(goal[g]) THEN Moves(s, "stop") ELSE Leaves(s)
  /\ UNCHANGED <<hour, ticked, goal, tick, spell>>

StopGoal(s) == Settles(s, "stop") /\ Closes(s, "ended")

-----------------------------------------------------------------------------
(***************************************************************************)
(* People and the bot; time; restarts.                                     *)
(***************************************************************************)
People(g, row) ==
  /\ goal' = [goal EXCEPT ![g] = row]
  /\ UNCHANGED <<hour, ticked, session, hook, tick>>

\* PATCH or update_goal: any status can follow any other; the streak stays.
PatchStatus(g, status) == Here(g) /\ People(g, [goal[g] EXCEPT !.status = status]) /\ UNCHANGED spell
PatchBudget(g, b) == Here(g) /\ People(g, [goal[g] EXCEPT !.budget = b]) /\ UNCHANGED spell
PatchDeadline(g, d) == Here(g) /\ People(g, [goal[g] EXCEPT !.deadline = d]) /\ UNCHANGED spell
Delete(g) == Here(g) /\ People(g, Gone) /\ UNCHANGED spell

\* Run now, whatever the status, the budget and the hour.
RunNow(g) ==
  /\ Here(g)
  /\ \E s \in Session : Begin(s, g)
  /\ UNCHANGED <<hour, ticked, goal, hook, tick, spell>>

Wait(row) ==
  [row EXCEPT !.next = IF @ = 0 THEN 0 ELSE @ - 1]

\* The timer comes by every 30 seconds, so in every hour of the day; a tick
\* never awaits anything and is over within its hour.
Advance ==
  /\ ticked /\ \A k \in Ticker : tick[k] = Idle
  /\ hour' = (hour + 1) % DayLen
  /\ ticked' = FALSE
  /\ \E passed \in SUBSET {g \in Goal : Here(g) /\ goal[g].deadline = "ahead"} :
       goal' = [g \in Goal |->
                  IF ~Here(g) THEN Gone
                  ELSE IF g \in passed THEN [Wait(goal[g]) EXCEPT !.deadline = "past"]
                  ELSE Wait(goal[g])]
  /\ UNCHANGED <<session, hook, tick, spell>>

\* Runs that were under way are never heard of again: nothing is counted.
ServerRestart ==
  /\ session' = [s \in Session |-> Free]
  /\ hook' = NoOne
  /\ tick' = [k \in Ticker |-> Idle]
  /\ UNCHANGED <<hour, ticked, goal, spell>>

-----------------------------------------------------------------------------
TickGoesOn(k) ==
  \/ \E d \in tick[k].due : StopOverrun(k, d) \/ PutOff(k, d) \/ StopAtCeiling(k, d) \/ Reschedule(k, d)
  \/ Fire(k)
SessionGoesOn(s) == Enter(s) \/ Read(s) \/ Spend(s) \/ Count(s) \/ Pause(s) \/ Reread(s) \/ StopGoal(s)

GoalsNext ==
  \/ \E k \in Ticker : List(k) \/ TickGoesOn(k)
  \/ \E s \in Session : SessionGoesOn(s)
  \/ \E g \in Goal :
       \/ Delete(g) \/ RunNow(g)
       \/ \E status \in Status : PatchStatus(g, status)
       \/ \E b \in Budgets : PatchBudget(g, b)
       \/ \E d \in Deadline : PatchDeadline(g, d)
  \/ Advance \/ ServerRestart

GoalsSpec == GoalsInit /\ [][GoalsNext]_goals

\* The timer's task is scheduled, a tick that began goes on, a run ends (the
\* turn limit, the sweep) and time passes.  The code has no limit to sessions:
\* the start that waits here for a slot gets one that is free again and again.
GoalsLiveSpec ==
  /\ GoalsSpec
  /\ WF_goals(List(Timer))
  /\ \A k \in Ticker : WF_goals(TickGoesOn(k)) /\ SF_goals(Fire(k))
  /\ \A s \in Session : WF_goals(Enter(s)) /\ WF_goals(SessionGoesOn(s))
  /\ WF_goals(Advance)

-----------------------------------------------------------------------------
\* The streak that pauses a goal is the number of sessions in a row that did
\* no work, whatever sessions overlap: a session that lasts longer than the
\* hour until the next, or one more started by hand.  (As long as the writes of
\* settle_goal_run succeed.)
StreakIsTrue ==
  \A g \in Goal : Here(g) => goal[g].streak = spell[g]

Spendthrift(g) == (goal[g].budget > 0 /\ goal[g].spent >= goal[g].budget) \/ goal[g].deadline = "past"

\* A goal that stays active and within its budget is worked on again and again,
\* if the server stays up: no night, no pile of sessions and no other tick
\* keeps it waiting for good.
WorkedOn ==
  \A g \in Goal :
    <>[](Active(g) /\ ~Spendthrift(g)) /\ <>[][~ServerRestart]_goals
      => []<><<\E k \in Ticker : Fire(k) /\ tick[k].fire = g>>_goals

\* A goal out of budget or past its deadline does not stay active for good.
OverrunEnds == \A g \in Goal : []<>~(Active(g) /\ Spendthrift(g)) \/ []<><<ServerRestart>>_goals

=============================================================================
