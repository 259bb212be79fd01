---------------------------- MODULE RoutinesProofs ----------------------------
(***************************************************************************)
(* Proofs about Routines for any set of routines and of plans whose next    *)
(* run lies ahead: as long as only one caller ticks, nothing fires twice    *)
(* for one due time, and no active routine is forgotten.                    *)
(***************************************************************************)
EXTENDS Routines, TLAPS

\* fire_due is called by the timer alone, which awaits each call
\* (start_scheduler).
OneTicker == \A k, l \in Ticker : k = l

Late == {"gate", "spend", "fire", "tool"}
Left(state) == IF state = Idle THEN {} ELSE state.due \cup (IF state.pc = "pick" THEN {} ELSE {state.cur})

\* What anybody may make of a row at moment "at": delete it; leave its next run;
\* or compute a new one.  Who switches it on does so with a new next run, and
\* whoever leaves it on leaves no reason.
Moved(old, new, at) ==
  \/ new = Gone
  \/ /\ old # Gone /\ new \in Row
     /\ new.on => new.reason = "none"
     /\ \/ new.next = old.next /\ (new.on => old.on)
        \/ \E p \in Plans : new.next = NextRun(p, at)

AllMoved(at) == \A r \in Routine : Moved(row[r], row'[r], at)

-----------------------------------------------------------------------------
LEMMA NextRunAhead ==
  ASSUME NEW p \in Plans, NEW t \in Time PROVE NextRun(p, t) \in Moment /\ NextRun(p, t) > t /\ NextRun(p, t) \in Nat
<1>1. NextRun(p, t) \in (t + 1)..(MaxTime + 9 * Day)
  BY PlanAssumption DEF Time
<1>2. t \in Nat /\ MaxTime \in Nat /\ Day \in Nat
  BY RoutineAssumption, CalendarAssumption DEF Time, Day, Hour
<1> QED
  BY <1>1, <1>2 DEF Moment

LEMMA Numbers ==
  /\ MaxTime \in Nat /\ Time \subseteq Nat /\ Moment \subseteq Nat /\ Time \subseteq Moment
<1>1. MaxTime \in Nat /\ Day \in Nat
  BY RoutineAssumption, CalendarAssumption DEF Day, Hour
<1> QED
  BY <1>1 DEF Time, Moment

LEMMA GoneIsNoRow == Gone \notin Row
<1>1. \A q \in Row : "on" \in DOMAIN q
  BY DEF Row
<1>2. "on" \notin DOMAIN Gone
  BY DEF Gone
<1> QED
  BY <1>1, <1>2

\* A tick that is under way, and the row it is at.
LEMMA UnderWay ==
  ASSUME IInv, NEW k \in Ticker, tick[k] # Idle
  PROVE  /\ tick[k] \in [pc : AtWork, at : Time, due : SUBSET Due, cur : Due \cup {Nothing}]
         /\ tick[k].at \in Nat /\ tick[k].at \in Time /\ tick[k].at <= now /\ now \in Nat
         /\ Ahead(k) \subseteq Due
         /\ \A d \in Ahead(k) : d.next \in Nat /\ d.routine \in Routine /\ d.next <= tick[k].at
         /\ tick[k].pc # "pick" => tick[k].cur \in Ahead(k)
<1>1. tick[k] \in [pc : AtWork, at : Time, due : SUBSET Due, cur : Due \cup {Nothing}]
  BY DEF IInv, TypeOK, TickState
<1>2. tick[k].at \in Time /\ tick[k].due \subseteq Due /\ tick[k].at <= now
  BY <1>1 DEF IInv, Listed
<1>3. tick[k].at \in Nat /\ now \in Nat
  BY <1>2, Numbers DEF IInv, TypeOK
<1>4. tick[k].pc # "pick" => tick[k].cur \in Due /\ tick[k].cur \in Ahead(k)
  BY DEF IInv, Listed, Ahead
<1>5. Ahead(k) \subseteq Due
  BY <1>2, <1>4 DEF Ahead
<1>6. \A d \in Ahead(k) : d.next <= tick[k].at
  BY DEF IInv, Listed
<1>7. \A d \in Due : d.next \in Nat /\ d.routine \in Routine
  BY Numbers DEF Due
<1> QED
  BY <1>1, <1>2, <1>3, <1>4, <1>5, <1>6, <1>7

\* A row written as it was read is still listed where it was, and stays ahead of
\* what was fired for.
LEMMA RowsMove ==
  ASSUME IInv, NEW at \in Time, AllMoved(at), at <= now, now' \in Time, now <= now',
         \A k \in Ticker : tick[k] # Idle => tick[k].at <= at,
         \A r \in Routine, t \in Time : fired[r][t] > 0 => t <= at
  PROVE  /\ \A r \in Routine : row'[r] \in Row \cup {Gone}
         /\ NoneForgotten'
         /\ \A r \in Routine : Here(r)' =>
              Here(r) /\ \A t \in Time : fired[r][t] > 0 => row'[r].next > t
         /\ \A k \in Ticker : tick[k] # Idle /\ tick[k].pc \in Late /\ row'[tick[k].cur.routine] # Gone
              => row'[tick[k].cur.routine].next > tick[k].cur.next
<1>0. now \in Nat /\ now' \in Nat /\ at \in Nat
  BY Numbers DEF IInv, TypeOK
<1>1. \A r \in Routine : row'[r] \in Row \cup {Gone}
  BY DEF AllMoved, Moved
<1>2. \A r \in Routine : Here(r)' => Here(r) /\ row[r] \in Row /\ row'[r] \in Row
  BY <1>1 DEF AllMoved, Moved, Here, IInv, TypeOK
<1>3. \A r \in Routine : Here(r)' =>
        \/ row'[r].next = row[r].next /\ (row'[r].on => row[r].on)
        \/ \E p \in Plans : row'[r].next = NextRun(p, at)
  BY DEF AllMoved, Moved, Here
<1>4. NoneForgotten'
  <2> SUFFICES ASSUME NEW r \in Routine, Here(r)', row'[r].on
               PROVE  /\ row'[r].reason = "none"
                      /\ \E p \in Plans, t \in 0..now' : row'[r].next = NextRun(p, t)
    BY DEF NoneForgotten
  <2>1. row'[r].reason = "none"
    BY DEF AllMoved, Moved, Here
  <2>2. CASE row'[r].next = row[r].next /\ row[r].on
    <3>1. PICK p \in Plans, t \in 0..now : row[r].next = NextRun(p, t)
      BY <1>2, <2>2 DEF IInv, NoneForgotten
    <3>2. t \in 0..now'
      BY <1>0
    <3> QED
      BY <2>1, <2>2, <3>1, <3>2
  <2>3. CASE \E p \in Plans : row'[r].next = NextRun(p, at)
    <3>1. at \in 0..now'
      BY <1>0
    <3> QED
      BY <2>1, <2>3, <3>1
  <2> QED
    BY <1>3, <2>1, <2>2, <2>3
<1>5. ASSUME NEW r \in Routine, Here(r)', NEW t \in Time, fired[r][t] > 0 PROVE row'[r].next > t
  <2>1. CASE row'[r].next = row[r].next
    BY <1>2, <1>5, <2>1 DEF IInv, Behind
  <2>2. CASE \E p \in Plans : row'[r].next = NextRun(p, at)
    BY <1>5, <2>2, NextRunAhead, Numbers
  <2> QED
    BY <1>3, <1>5, <2>1, <2>2
<1>6. ASSUME NEW k \in Ticker, tick[k] # Idle, tick[k].pc \in Late, row'[tick[k].cur.routine] # Gone
      PROVE  row'[tick[k].cur.routine].next > tick[k].cur.next
  <2> DEFINE d == tick[k].cur
  <2>1. d \in Due /\ d.routine \in Routine /\ d.next \in Nat /\ d.next <= tick[k].at
        /\ tick[k].at \in Nat
    BY <1>6, UnderWay DEF Late
  <2>2. row'[d.routine] # Gone /\ Here(d.routine)
    BY <1>2, <1>6, <2>1 DEF Here
  <2>3. row[d.routine].next > d.next
    BY <1>6, <2>2 DEF IInv, Listed, Late
  <2>4. CASE row'[d.routine].next = row[d.routine].next
    BY <2>3, <2>4
  <2>5. CASE \E p \in Plans : row'[d.routine].next = NextRun(p, at)
    <3>1. PICK p \in Plans : row'[d.routine].next = NextRun(p, at)
      BY <2>5
    <3>2. NextRun(p, at) > at /\ NextRun(p, at) \in Nat /\ tick[k].at <= at
      BY <1>6, NextRunAhead
    <3> QED
      BY <1>0, <2>1, <3>1, <3>2
  <2>6. row'[d.routine].next = row[d.routine].next \/ \E p \in Plans : row'[d.routine].next = NextRun(p, at)
    BY <1>3, <2>1, <2>2 DEF Here
  <2> QED
    BY <2>4, <2>5, <2>6
<1> QED
  BY <1>1, <1>2, <1>4, <1>5, <1>6

-----------------------------------------------------------------------------
\* The types that most steps leave alone.
Typed ==
  /\ now' \in Time /\ now <= now'
  /\ row' \in [Routine -> Row \cup {Gone}]
  /\ lastLogin' \in Time
  /\ tick' \in [Ticker -> TickState]
  /\ live' \in [Routine -> 0..MaxLive]
  /\ edits' \in 0..MaxEdits

\* A tick goes on through its list: it drops a row or keeps it, and moves it on
\* before it is fired.
GoesOn(k) ==
  \/ tick'[k] = tick[k]
  \/ tick'[k] = Idle
  \/ /\ tick[k] # Idle
     /\ tick'[k].at = tick[k].at
     /\ Left(tick'[k]) \subseteq Left(tick[k])
     /\ tick'[k].pc # "pick" => tick'[k].cur \in Due /\ tick'[k].cur \notin tick'[k].due
     /\ tick'[k].pc \in Late /\ row'[tick'[k].cur.routine] # Gone
          => row'[tick'[k].cur.routine].next > tick'[k].cur.next

\* What RowsMove says of the rows after a step.
RowsAhead ==
  /\ NoneForgotten'
  /\ \A r \in Routine : row'[r] # Gone =>
       row[r] # Gone /\ \A t \in Time : fired[r][t] > 0 => row'[r].next > t
  /\ \A k \in Ticker : tick[k] # Idle /\ tick[k].pc \in Late /\ row'[tick[k].cur.routine] # Gone
       => row'[tick[k].cur.routine].next > tick[k].cur.next

\* The ticks that go on still work through what they listed.
LEMMA TicksKeep ==
  ASSUME IInv, Typed, RowsAhead, \A k \in Ticker : GoesOn(k)
  PROVE  /\ Listed'
         /\ \A k \in Ticker : tick'[k] # Idle =>
              tick[k] # Idle /\ tick'[k].at = tick[k].at /\ Ahead(k)' \subseteq Ahead(k)
<1>1. \A k \in Ticker : tick'[k] # Idle =>
        /\ tick[k] # Idle /\ tick'[k].at = tick[k].at /\ tick[k].at <= now'
        /\ Ahead(k)' \subseteq Ahead(k)
        /\ tick'[k].pc # "pick" => tick'[k].cur \in Due /\ tick'[k].cur \notin tick'[k].due
        /\ tick'[k].pc \in Late /\ row'[tick'[k].cur.routine] # Gone
             => row'[tick'[k].cur.routine].next > tick'[k].cur.next
  <2> SUFFICES ASSUME NEW k \in Ticker, tick'[k] # Idle
      PROVE  /\ tick[k] # Idle /\ tick'[k].at = tick[k].at /\ tick[k].at <= now'
             /\ Ahead(k)' \subseteq Ahead(k)
             /\ tick'[k].pc # "pick" => tick'[k].cur \in Due /\ tick'[k].cur \notin tick'[k].due
             /\ tick'[k].pc \in Late /\ row'[tick'[k].cur.routine] # Gone
                  => row'[tick'[k].cur.routine].next > tick'[k].cur.next
    OBVIOUS
  <2>1. tick[k] # Idle
    BY DEF GoesOn
  <2>2. tick[k].at <= now'
    BY <2>1, UnderWay, Numbers DEF Typed
  <2>3. CASE tick'[k] = tick[k]
    <3>1. Ahead(k)' = Ahead(k)
      BY <2>3 DEF Ahead
    <3>2. tick[k].pc # "pick" => tick[k].cur \in Due /\ tick[k].cur \notin tick[k].due
      BY <2>1 DEF IInv, Listed
    <3>3. tick[k].pc \in Late /\ row'[tick[k].cur.routine] # Gone
             => row'[tick[k].cur.routine].next > tick[k].cur.next
      BY <2>1 DEF RowsAhead
    <3> QED
      BY <2>1, <2>2, <2>3, <3>1, <3>2, <3>3
  <2>4. CASE tick'[k] # tick[k]
    <3>1. Ahead(k)' = Left(tick'[k]) /\ Ahead(k) = Left(tick[k])
      BY DEF Ahead, Left
    <3> QED
      BY <2>1, <2>2, <2>4, <3>1 DEF GoesOn
  <2> QED
    BY <2>3, <2>4
<1>2. Listed'
  <2> SUFFICES ASSUME NEW k \in Ticker, tick'[k] # Idle
      PROVE  /\ tick'[k].at <= now'
             /\ tick'[k].pc # "pick" => tick'[k].cur \in Due /\ tick'[k].cur \notin tick'[k].due
             /\ \A d \in Ahead(k)' : d.next <= tick'[k].at
             /\ \A d, e \in Ahead(k)' : d.routine = e.routine => d = e
             /\ tick'[k].pc \in {"gate", "spend", "fire", "tool"} /\ row'[tick'[k].cur.routine] # Gone
                  => row'[tick'[k].cur.routine].next > tick'[k].cur.next
    BY DEF Listed, Here
  <2>1. /\ \A d \in Ahead(k) : d.next <= tick[k].at
        /\ \A d, e \in Ahead(k) : d.routine = e.routine => d = e
    BY <1>1 DEF IInv, Listed
  <2> QED
    BY <1>1, <2>1 DEF Late
<1> QED
  BY <1>1, <1>2

LEMMA StepKeeps ==
  ASSUME IInv, Typed, RowsAhead, \A k \in Ticker : GoesOn(k), UNCHANGED fired
  PROVE  IInv'
<1>1. TypeOK'
  BY DEF IInv, TypeOK, Typed
<1>2. \A k \in Ticker : tick'[k] # Idle =>
        tick[k] # Idle /\ tick'[k].at = tick[k].at /\ Ahead(k)' \subseteq Ahead(k)
  BY TicksKeep
<1>3. Listed'
  BY TicksKeep
<1>4. Behind'
  <2> SUFFICES ASSUME NEW r \in Routine, NEW t \in Time, fired[r][t] > 0
      PROVE  /\ t <= now'
             /\ row'[r] # Gone => row'[r].next > t
             /\ \A k \in Ticker : tick'[k] # Idle =>
                  /\ t <= tick'[k].at
                  /\ \A d \in Ahead(k)' : d.routine = r => d.next > t
    BY DEF Behind, Here
  <2>1. t <= now /\ now \in Nat /\ now' \in Nat /\ t \in Nat
    BY Numbers DEF IInv, Behind, TypeOK, Typed
  <2>2. \A k \in Ticker : tick[k] # Idle =>
          t <= tick[k].at /\ \A d \in Ahead(k) : d.routine = r => d.next > t
    BY DEF IInv, Behind
  <2>3. t <= now'
    BY <2>1 DEF Typed
  <2>4. row'[r] # Gone => row'[r].next > t
    BY DEF RowsAhead
  <2> QED
    BY <1>2, <2>2, <2>3, <2>4
<1>5. OncePerDue'
  BY DEF IInv, OncePerDue
<1>6. NoneForgotten'
  BY DEF RowsAhead
<1> QED
  BY <1>1, <1>3, <1>4, <1>5, <1>6 DEF IInv

\* A step of anybody who writes rows as of now, the ticks going on.
LEMMA WriteNow ==
  ASSUME IInv, Typed, AllMoved(now), \A k \in Ticker : GoesOn(k), UNCHANGED fired
  PROVE  IInv'
<1>1. now \in Time /\ now \in Nat
  BY Numbers DEF IInv, TypeOK
<1>2. \A k \in Ticker : tick[k] # Idle => tick[k].at <= now
  BY DEF IInv, Listed
<1>3. \A r \in Routine, t \in Time : fired[r][t] > 0 => t <= now
  BY DEF IInv, Behind
<1>4. RowsAhead
  BY <1>1, <1>2, <1>3, RowsMove DEF RowsAhead, Typed, Here
<1> QED
  BY <1>4, StepKeeps
-----------------------------------------------------------------------------
\* A row left as it is has moved, in this sense, from any moment on.
LEMMA SameMoves == ASSUME IInv, NEW at \in Time PROVE \A r \in Routine : Moved(row[r], row[r], at)
<1> SUFFICES ASSUME NEW r \in Routine, row[r] # Gone
             PROVE  row[r] \in Row /\ (row[r].on => row[r].reason = "none")
  BY DEF Moved
<1> QED
  BY DEF IInv, TypeOK, NoneForgotten, Here

\* One row written by its id.
LEMMA PutMoves ==
  ASSUME IInv, NEW r \in Routine, NEW at \in Time, NEW new, Put(r, new),
         Here(r) => Moved(row[r], new, at)
  PROVE  row' \in [Routine -> Row \cup {Gone}] /\ AllMoved(at)
<1>1. row \in [Routine -> Row \cup {Gone}]
  BY DEF IInv, TypeOK
<1>2. CASE ~ Here(r)
  BY <1>1, <1>2, SameMoves DEF Put, AllMoved
<1>3. CASE Here(r)
  <2>1. new \in Row \cup {Gone} /\ row' = [row EXCEPT ![r] = new]
    BY <1>3 DEF Put, Moved
  <2> QED
    BY <1>1, <1>3, <2>1, SameMoves DEF AllMoved
<1> QED
  BY <1>2, <1>3

\* No row written.
LEMMA RowsRest ==
  ASSUME IInv, NEW at \in Time, UNCHANGED row PROVE row' \in [Routine -> Row \cup {Gone}] /\ AllMoved(at)
BY SameMoves DEF IInv, TypeOK, AllMoved

LEMMA HereIsRow == ASSUME IInv, NEW r \in Routine, Here(r) PROVE row[r] \in Row
BY DEF IInv, TypeOK, Here

LEMMA OffMoves ==
  ASSUME NEW q \in Row, NEW who \in Reason \cup {"people"}, NEW reason \in Reason,
         NEW n \in 0..(FailureLimit + 1), NEW at \in Time
  PROVE  /\ Moved(q, SwitchOff(q, who), at)
         /\ Moved(q, [SwitchOff(q, who) EXCEPT !.reason = reason], at)
         /\ Moved(q, [SwitchOff(q, who) EXCEPT !.failures = n, !.reason = reason], at)
<1>1. q # Gone
  BY GoneIsNoRow
<1>2. /\ SwitchOff(q, who) \in Row /\ SwitchOff(q, who).next = q.next
      /\ SwitchOff(q, who).on = FALSE
  BY DEF SwitchOff, Row, Reason
<1> DEFINE z == SwitchOff(q, who)
<1> HIDE DEF z
<1>3. z \in Row /\ z.next = q.next /\ z.on = FALSE
  BY <1>2 DEF z
<1>4. \A y \in {z, [z EXCEPT !.reason = reason], [z EXCEPT !.failures = n, !.reason = reason]} :
        y \in Row /\ y.next = q.next /\ y.on = FALSE
  BY <1>3 DEF Row, Reason
<1> QED
  BY <1>1, <1>4 DEF z, Moved

LEMMA RecordMoves ==
  ASSUME IInv, NEW r \in Routine, NEW ok \in BOOLEAN, NEW at \in Time, Record(r, ok)
  PROVE  row' \in [Routine -> Row \cup {Gone}] /\ AllMoved(at)
<1> DEFINE q == row[r]
<1>1. ASSUME Here(r) PROVE Moved(q, Healthy(q), at)
  <2>1. q \in Row /\ q # Gone /\ (q.on => q.reason = "none")
    BY <1>1, HereIsRow DEF Here, IInv, NoneForgotten
  <2>2. /\ Healthy(q) \in Row /\ Healthy(q).on = q.on
        /\ Healthy(q).reason = q.reason /\ Healthy(q).next = q.next
    BY <2>1 DEF Healthy, Row, FailureLimit
  <2> QED
    BY <2>1, <2>2 DEF Moved
<1>2. ASSUME Here(r) PROVE Moved(q, Failed(q), at)
  <2> DEFINE n == IF q.failures > FailureLimit THEN q.failures ELSE q.failures + 1
  <2>1. q \in Row /\ q # Gone /\ (q.on => q.reason = "none")
    BY <1>2, HereIsRow DEF Here, IInv, NoneForgotten
  <2>2. n \in 0..(FailureLimit + 1)
    BY <2>1 DEF Row, FailureLimit
  <2>3. CASE n >= FailureLimit /\ q.on
    <3>1. Failed(q) = [SwitchOff(q, "failures") EXCEPT !.failures = n, !.reason = "failures"]
      BY <2>3 DEF Failed
    <3>2. "failures" \in Reason
      BY DEF Reason
    <3>3. Moved(q, [SwitchOff(q, "failures") EXCEPT !.failures = n, !.reason = "failures"], at)
      <4> HIDE DEF n, q
      <4> QED
        BY <2>1, <2>2, <3>2, OffMoves
    <3> QED
      BY <3>1, <3>3
  <2>4. CASE ~ (n >= FailureLimit /\ q.on)
    <3>1. Failed(q) = [q EXCEPT !.failures = n]
      BY <2>4 DEF Failed
    <3> HIDE DEF n
    <3>2. /\ [q EXCEPT !.failures = n] \in Row /\ [q EXCEPT !.failures = n].on = q.on
          /\ [q EXCEPT !.failures = n].reason = q.reason /\ [q EXCEPT !.failures = n].next = q.next
      BY <2>1, <2>2 DEF Row
    <3> QED
      BY <2>1, <3>1, <3>2 DEF Moved
  <2> QED
    BY <2>3, <2>4
<1> QED
  BY <1>1, <1>2, PutMoves DEF Record

\* A step of a tick to another station of fire_due.
LEMMA StepIs ==
  ASSUME IInv, NEW k \in Ticker, NEW pc \in AtWork, tick[k] # Idle, Step(k, pc)
  PROVE  /\ tick' \in [Ticker -> TickState] /\ tick'[k] # Idle
         /\ tick'[k].pc = pc /\ tick'[k].at = tick[k].at /\ tick'[k].cur = tick[k].cur
         /\ tick'[k].due = tick[k].due
         /\ \A l \in Ticker \ {k} : tick'[l] = tick[l]
<1>1. tick[k] \in [pc : AtWork, at : Time, due : SUBSET Due, cur : Due \cup {Nothing}]
  BY UnderWay
<1> DEFINE z == [tick[k] EXCEPT !.pc = pc]
<1>2. /\ z \in [pc : AtWork, at : Time, due : SUBSET Due, cur : Due \cup {Nothing}]
      /\ z.pc = pc /\ z.at = tick[k].at /\ z.cur = tick[k].cur /\ z.due = tick[k].due
  BY <1>1
<1>3. tick' = [tick EXCEPT ![k] = z] /\ tick \in [Ticker -> TickState]
  BY DEF Step, IInv, TypeOK
<1>4. z # Idle
  BY <1>2 DEF Idle, AtWork
<1> HIDE DEF z
<1> QED
  BY <1>2, <1>3, <1>4 DEF TickState

\* The types of a step that only moves rows and ticks.
LEMMA TypedStep ==
  ASSUME IInv, UNCHANGED <<now, live, people>>, row' \in [Routine -> Row \cup {Gone}],
         tick' \in [Ticker -> TickState]
  PROVE  Typed
BY Numbers DEF IInv, TypeOK, Typed, people

LEMMA OneMoreLive ==
  ASSUME IInv, NEW r \in Routine, live[r] < MaxLive, live' = [live EXCEPT ![r] = @ + 1]
  PROVE  live' \in [Routine -> 0..MaxLive]
<1>1. live \in [Routine -> 0..MaxLive] /\ MaxLive \in Nat
  BY RoutineAssumption DEF IInv, TypeOK
<1>2. live[r] + 1 \in 0..MaxLive
  BY <1>1
<1> QED
  BY <1>1, <1>2

LEMMA TypedLive ==
  ASSUME IInv, UNCHANGED <<now, people>>, row' \in [Routine -> Row \cup {Gone}],
         tick' \in [Ticker -> TickState], live' \in [Routine -> 0..MaxLive]
  PROVE  Typed
BY Numbers DEF IInv, TypeOK, Typed, people

LEMMA IntervenesOnce == ASSUME IInv, Intervene PROVE edits' \in 0..MaxEdits
<1>1. edits \in 0..MaxEdits /\ MaxEdits \in Nat
  BY RoutineAssumption DEF IInv, TypeOK
<1> QED
  BY <1>1 DEF Intervene

-----------------------------------------------------------------------------
\* fire_due puts the listed rows, as they are, in front of itself.
LEMMA ListIInv == ASSUME IInv, NEW k \in Ticker, List(k) PROVE IInv'
<1> DEFINE due == {AsListed(r) : r \in {q \in Routine : IsDue(q)}}
           z == [pc |-> "pick", at |-> now, cur |-> Nothing, due |-> due]
<1>1. /\ tick[k] = Idle /\ tick' = [tick EXCEPT ![k] = z]
      /\ UNCHANGED <<now, row, live, lastLogin, edits, fired>>
  BY DEF List, people
<1>2. \A d \in due : \E r \in Routine :
        IsDue(r) /\ d = AsListed(r) /\ d \in Due /\ d.routine = r /\ d.next = row[r].next
  BY HereIsRow DEF AsListed, IsDue, Due, Row
<1>3. now \in Time /\ tick \in [Ticker -> TickState]
  BY DEF IInv, TypeOK
<1>4. z \in TickState /\ z # Idle /\ z.pc = "pick" /\ z.at = now /\ z.due = due
  <2> HIDE DEF due
  <2>1. due \in SUBSET Due
    BY <1>2
  <2>2. z \in [pc : AtWork, at : Time, due : SUBSET Due, cur : Due \cup {Nothing}]
    BY <1>3, <2>1 DEF AtWork
  <2>3. z.pc # "idle" /\ Idle.pc = "idle"
    BY DEF Idle
  <2> QED
    BY <2>2, <2>3 DEF TickState
<1>5. /\ tick' \in [Ticker -> TickState] /\ tick'[k] = z
      /\ \A l \in Ticker \ {k} : tick'[l] = tick[l]
  <2> HIDE DEF z
  <2> QED
    BY <1>1, <1>3, <1>4
<1> HIDE DEF z
<1>6. Ahead(k)' = due /\ \A l \in Ticker \ {k} : Ahead(l)' = Ahead(l)
  <2> HIDE DEF due
  <2> QED
    BY <1>4, <1>5 DEF Ahead
<1>7. \A d \in due : d.next <= now
  BY <1>2 DEF IsDue
<1>8. \A d, e \in due : d.routine = e.routine => d = e
  BY <1>2
<1> HIDE DEF due
<1>9. now <= now
  BY <1>3, Numbers
<1>10. Listed'
  <2> SUFFICES ASSUME NEW l \in Ticker, tick'[l] # Idle
      PROVE  /\ tick'[l].at <= now
             /\ tick'[l].pc # "pick" => tick'[l].cur \in Due /\ tick'[l].cur \notin tick'[l].due
             /\ \A d \in Ahead(l)' : d.next <= tick'[l].at
             /\ \A d, e \in Ahead(l)' : d.routine = e.routine => d = e
             /\ tick'[l].pc \in {"gate", "spend", "fire", "tool"} /\ Here(tick'[l].cur.routine)
                  => row[tick'[l].cur.routine].next > tick'[l].cur.next
    BY <1>1 DEF Listed, Here
  <2>1. CASE l = k
    BY <1>4, <1>5, <1>6, <1>7, <1>8, <1>9, <2>1
  <2>2. CASE l # k
    BY <1>5, <1>6, <2>2 DEF IInv, Listed
  <2> QED
    BY <2>1, <2>2
<1>11. Behind'
  <2> SUFFICES ASSUME NEW r \in Routine, NEW t \in Time, fired[r][t] > 0, NEW l \in Ticker, tick'[l] # Idle
      PROVE  /\ t <= tick'[l].at
             /\ \A d \in Ahead(l)' : d.routine = r => d.next > t
    BY <1>1 DEF Behind, IInv, Here
  <2>1. CASE l = k
    <3>1. t <= now
      BY DEF IInv, Behind
    <3>2. ASSUME NEW d \in due, d.routine = r PROVE d.next > t
      BY <1>2, <3>2 DEF IInv, Behind, IsDue
    <3> QED
      BY <1>4, <1>5, <1>6, <2>1, <3>1, <3>2
  <2>2. CASE l # k
    BY <1>5, <1>6, <2>2 DEF IInv, Behind
  <2> QED
    BY <2>1, <2>2
<1>12. TypeOK' /\ NoneForgotten' /\ OncePerDue'
  BY <1>1, <1>5 DEF IInv, TypeOK, NoneForgotten, OncePerDue, Here
<1> QED
  BY <1>10, <1>11, <1>12 DEF IInv

\* The next row is taken off the list, or the list is at its end.
LEMMA PickIInv == ASSUME IInv, NEW k \in Ticker, Pick(k) \/ EndTick(k) PROVE IInv'
<1>1. /\ UNCHANGED <<now, row, live, people, fired>> /\ tick[k] # Idle /\ tick[k].pc = "pick"
      /\ now \in Time
  BY DEF Pick, EndTick, At, IInv, TypeOK
<1>2. tick' \in [Ticker -> TickState] /\ \A l \in Ticker : GoesOn(l)
  <2>1. tick \in [Ticker -> TickState]
    BY DEF IInv, TypeOK
  <2>2. CASE EndTick(k)
    BY <2>1, <2>2 DEF EndTick, GoesOn, TickState
  <2>3. CASE Pick(k)
    <3>1. PICK d \in tick[k].due, pc \in {"login", "move"} :
            tick' = [tick EXCEPT ![k] =
                       [tick[k] EXCEPT !.pc = pc, !.cur = d, !.due = tick[k].due \ {d}]]
      BY <2>3 DEF Pick
    <3> DEFINE z == [tick[k] EXCEPT !.pc = pc, !.cur = d, !.due = tick[k].due \ {d}]
    <3>2. tick[k] \in [pc : AtWork, at : Time, due : SUBSET Due, cur : Due \cup {Nothing}]
      BY <1>1, UnderWay
    <3>3. /\ z \in [pc : AtWork, at : Time, due : SUBSET Due, cur : Due \cup {Nothing}]
          /\ z.pc = pc /\ z.at = tick[k].at /\ z.cur = d /\ z.due = tick[k].due \ {d} /\ d \in Due
      BY <3>1, <3>2 DEF AtWork
    <3>4. tick' = [tick EXCEPT ![k] = z]
      BY <3>1 DEF z
    <3> HIDE DEF z
    <3>5. Left(z) \subseteq Left(tick[k])
      BY <1>1, <3>1, <3>3 DEF Left
    <3>6. tick'[k] = z /\ \A l \in Ticker \ {k} : tick'[l] = tick[l]
      BY <2>1, <3>4
    <3>7. GoesOn(k)
      BY <1>1, <3>1, <3>3, <3>5, <3>6 DEF GoesOn, Late
    <3> QED
      BY <2>1, <3>3, <3>4, <3>6, <3>7 DEF TickState, GoesOn
  <2> QED
    BY <2>2, <2>3
<1> QED
  BY <1>1, <1>2, RowsRest, TypedStep, WriteNow

\* A step to a station where nothing is fired, whatever row it writes.
LEMMA ToStation ==
  ASSUME IInv, NEW k \in Ticker, NEW pc \in AtWork, tick[k] # Idle, Step(k, pc),
         pc = "pick" \/ tick[k].pc # "pick",
         pc \in Late => tick[k].pc \in Late /\ UNCHANGED row
  PROVE  tick' \in [Ticker -> TickState] /\ \A l \in Ticker : GoesOn(l)
<1>1. /\ tick' \in [Ticker -> TickState] /\ tick'[k] # Idle
      /\ tick'[k].pc = pc /\ tick'[k].at = tick[k].at /\ tick'[k].cur = tick[k].cur
      /\ tick'[k].due = tick[k].due
      /\ \A l \in Ticker \ {k} : tick'[l] = tick[l]
  BY StepIs
<1>2. Left(tick'[k]) \subseteq Left(tick[k])
  BY <1>1 DEF Left
<1>3. tick[k].pc # "pick" => tick[k].cur \in Due /\ tick[k].cur \notin tick[k].due
  BY DEF IInv, Listed
<1>4. pc \in Late /\ row'[tick[k].cur.routine] # Gone
        => row'[tick[k].cur.routine].next > tick[k].cur.next
  BY DEF IInv, Listed, Late, Here
<1>5. GoesOn(k)
  BY <1>1, <1>2, <1>3, <1>4 DEF GoesOn
<1> QED
  BY <1>1, <1>5 DEF GoesOn

\* The sign-in and the ceilings are looked at.
LEMMA LookIInv == ASSUME IInv, NEW k \in Ticker, ReadLogin(k) \/ Gate(k) PROVE IInv'
<1>1. PICK pc \in {"absent", "move", "spend", "tool", "fire"} :
        /\ tick[k] # Idle /\ Step(k, pc) /\ UNCHANGED <<now, row, live, people, fired>>
        /\ tick[k].pc # "pick" /\ (pc \in Late => tick[k].pc \in Late)
  BY DEF ReadLogin, Gate, At, Late
<1>2. pc \in AtWork /\ now \in Time
  BY DEF AtWork, IInv, TypeOK
<1> QED
  BY <1>1, <1>2, ToStation, RowsRest, TypedStep, WriteNow

\* A pause switches a row off and leaves its next run.
LEMMA PauseIInv == ASSUME IInv, NEW k \in Ticker, PauseAbsent(k) \/ PauseSpend(k) PROVE IInv'
<1>1. PICK reason \in {"absence", "spend"} :
        /\ tick[k] # Idle /\ tick[k].pc # "pick" /\ Step(k, "pick")
        /\ PauseFor(tick[k].cur.routine, reason) /\ UNCHANGED <<now, live, people, fired>>
  BY DEF PauseAbsent, PauseSpend, At
<1> DEFINE r == tick[k].cur.routine
<1>2. r \in Routine /\ now \in Time /\ "pick" \in AtWork /\ reason \in Reason
  BY <1>1, UnderWay DEF IInv, TypeOK, AtWork, Reason
<1>3. tick' \in [Ticker -> TickState] /\ \A l \in Ticker : GoesOn(l)
  <2>1. "pick" \notin Late
    BY DEF Late
  <2> QED
    BY <1>1, <1>2, <2>1, ToStation
<1>4. row' \in [Routine -> Row \cup {Gone}] /\ AllMoved(now)
  <2>1. Here(r) => Moved(row[r], [SwitchOff(row[r], reason) EXCEPT !.reason = reason], now)
    <3>1. 0 \in 0..(FailureLimit + 1)
      BY DEF FailureLimit
    <3> SUFFICES ASSUME Here(r)
                 PROVE  Moved(row[r], [SwitchOff(row[r], reason) EXCEPT !.reason = reason], now)
      OBVIOUS
    <3>2. row[r] \in Row
      BY <1>2, HereIsRow
    <3> QED
      BY <1>2, <3>1, <3>2, OffMoves
  <2> QED
    BY <1>1, <1>2, <2>1, PutMoves DEF PauseFor
<1> QED
  BY <1>1, <1>3, <1>4, TypedStep, WriteNow

\* The new due time is computed from the moment of the list: it lies ahead of
\* the one that is about to be fired for.
LEMMA RescheduleIInv == ASSUME IInv, OneTicker, NEW k \in Ticker, Reschedule(k) PROVE IInv'
<1> DEFINE d == tick[k].cur
           r == d.routine
           at == tick[k].at
           new == [row[r] EXCEPT !.next = NextRun(d.plan, at)]
<1>1. /\ tick[k] # Idle /\ tick[k].pc = "move" /\ Step(k, "gate") /\ Put(r, new)
      /\ UNCHANGED <<now, live, people, fired>>
  BY DEF Reschedule, At
<1>2. /\ at \in Time /\ at \in Nat /\ at <= now /\ now \in Nat
      /\ d \in Due /\ r \in Routine /\ d.next \in Nat /\ d.next <= at
  BY <1>1, UnderWay
<1>3. d.plan \in Plans
  BY <1>2 DEF Due
<1>4. NextRun(d.plan, at) \in Moment /\ NextRun(d.plan, at) > at /\ NextRun(d.plan, at) \in Nat
  BY <1>2, <1>3, NextRunAhead
<1>5. Here(r) => Moved(row[r], new, at) /\ new.next = NextRun(d.plan, at)
  <2> SUFFICES ASSUME Here(r) PROVE Moved(row[r], new, at) /\ new.next = NextRun(d.plan, at)
    OBVIOUS
  <2>1. row[r] \in Row /\ row[r] # Gone /\ (row[r].on => row[r].reason = "none")
    BY <1>2, HereIsRow DEF Here, IInv, NoneForgotten
  <2>2. new \in Row /\ new.on = row[r].on /\ new.reason = row[r].reason
        /\ new.next = NextRun(d.plan, at)
    BY <1>4, <2>1 DEF Row
  <2> HIDE DEF new
  <2> QED
    BY <1>3, <2>1, <2>2 DEF Moved
<1>6. row' \in [Routine -> Row \cup {Gone}] /\ AllMoved(at)
  <2> HIDE DEF new, r, at
  <2> QED
    BY <1>1, <1>2, <1>5, PutMoves
<1>7. "gate" \in AtWork
  BY DEF AtWork
<1>8. /\ tick' \in [Ticker -> TickState] /\ tick'[k] # Idle
      /\ tick'[k].pc = "gate" /\ tick'[k].at = tick[k].at /\ tick'[k].cur = tick[k].cur
      /\ tick'[k].due = tick[k].due
      /\ \A l \in Ticker \ {k} : tick'[l] = tick[l]
  BY <1>1, <1>7, StepIs
<1>9. Typed
  BY <1>1, <1>6, <1>8, TypedStep
<1>10. RowsAhead
  <2>1. \A l \in Ticker : tick[l] # Idle => tick[l].at <= at
    BY <1>2 DEF OneTicker
  <2>2. \A q \in Routine, t \in Time : fired[q][t] > 0 => t <= at
    BY <1>1 DEF IInv, Behind
  <2>3. now' \in Time /\ now <= now'
    BY <1>9 DEF Typed
  <2> HIDE DEF at
  <2> QED
    BY <1>2, <1>6, <2>1, <2>2, <2>3, RowsMove DEF RowsAhead, Here
<1>11. row'[r] # Gone => row'[r].next > d.next
  <2>1. CASE Here(r)
    <3>1. row' = [row EXCEPT ![r] = new] /\ row \in [Routine -> Row \cup {Gone}]
      BY <1>1, <2>1 DEF Put, IInv, TypeOK
    <3>2. row'[r] = new
      BY <1>2, <3>1
    <3> QED
      BY <1>2, <1>4, <1>5, <2>1, <3>2
  <2>2. CASE ~ Here(r)
    BY <1>1, <2>2 DEF Put, Here
  <2> QED
    BY <2>1, <2>2
<1>12. GoesOn(k)
  <2>1. Left(tick'[k]) \subseteq Left(tick[k])
    BY <1>1, <1>8 DEF Left
  <2>2. tick[k].cur \in Due /\ tick[k].cur \notin tick[k].due
    BY <1>1 DEF IInv, Listed
  <2> QED
    BY <1>1, <1>8, <1>11, <2>1, <2>2 DEF GoesOn
<1>13. \A l \in Ticker : GoesOn(l)
  BY <1>8, <1>12 DEF GoesOn
<1> QED
  BY <1>1, <1>9, <1>10, <1>13, StepKeeps

\* The row has been moved on before it is fired, and the list holds its routine
\* once: nothing fires again for this due time.
LEMMA FiredKeeps ==
  ASSUME IInv, OneTicker, NEW k \in Ticker, At(k, "fire") \/ At(k, "tool"), Step(k, "pick"),
         CountFire(tick[k].cur.routine, tick[k].cur.next), AllMoved(now), Typed
  PROVE  IInv'
<1> DEFINE d == tick[k].cur
           r == d.routine
<1>1. /\ tick[k] # Idle /\ tick[k].pc \in Late /\ tick[k].pc # "pick"
      /\ fired' = [fired EXCEPT ![r][d.next] = @ + 1]
      /\ now \in Time /\ now \in Nat /\ MaxTime \in Nat
  BY Numbers DEF At, Late, CountFire, IInv, TypeOK
<1>2. /\ tick[k].at \in Nat /\ tick[k].at <= now
      /\ d \in Due /\ r \in Routine /\ d.next \in Nat /\ d.next <= tick[k].at /\ d \in Ahead(k)
  BY <1>1, UnderWay
<1>3. d.next \in Time
  BY <1>1, <1>2 DEF Time
<1>4. \A q \in Routine, t \in Time :
        /\ fired[q][t] \in Nat
        /\ fired'[q][t] = IF q = r /\ t = d.next THEN fired[q][t] + 1 ELSE fired[q][t]
  BY <1>1, <1>2, <1>3 DEF IInv, TypeOK
<1>5. fired' \in [Routine -> [Time -> Nat]]
  BY <1>1, <1>2, <1>3 DEF IInv, TypeOK
<1>6. fired[r][d.next] = 0
  <2>1. ~ (fired[r][d.next] > 0)
    BY <1>1, <1>2, <1>3 DEF IInv, Behind
  <2> QED
    BY <1>2, <1>3, <1>4, <2>1
<1>7. "pick" \in AtWork /\ "pick" \notin Late
  BY DEF AtWork, Late
<1>8. /\ tick'[k] # Idle /\ tick'[k].pc = "pick" /\ tick'[k].at = tick[k].at
      /\ tick'[k].due = tick[k].due
  BY <1>1, <1>7, StepIs
<1>9. \A l \in Ticker : GoesOn(l)
  BY <1>1, <1>7, ToStation
<1>10. RowsAhead
  <2>1. \A l \in Ticker : tick[l] # Idle => tick[l].at <= now
    BY DEF IInv, Listed
  <2>2. \A q \in Routine, t \in Time : fired[q][t] > 0 => t <= now
    BY DEF IInv, Behind
  <2>3. now <= now
    BY <1>1
  <2> QED
    BY <1>1, <2>1, <2>2, <2>3, RowsMove DEF RowsAhead, Typed, Here
<1>11. Listed'
  BY <1>9, <1>10, TicksKeep
<1>12. TypeOK' /\ NoneForgotten'
  BY <1>5, <1>10 DEF IInv, TypeOK, Typed, RowsAhead
<1>13. OncePerDue'
  BY <1>4, <1>6 DEF IInv, OncePerDue
<1>14. Behind'
  <2> SUFFICES ASSUME NEW q \in Routine, NEW t \in Time, fired'[q][t] > 0
      PROVE  /\ t <= now'
             /\ row'[q] # Gone => row'[q].next > t
             /\ \A l \in Ticker : tick'[l] # Idle =>
                  /\ t <= tick'[l].at
                  /\ \A e \in Ahead(l)' : e.routine = q => e.next > t
    BY DEF Behind, Here
  <2>1. CASE q = r /\ t = d.next
    <3>1. t <= now'
      BY <1>1, <1>2, <2>1, Numbers DEF Typed
    <3>2. row'[q] # Gone => row'[q].next > t
      BY <1>1, <1>10, <2>1 DEF RowsAhead
    <3>3. t <= tick'[k].at /\ \A e \in Ahead(k)' : e.routine # r
      <4>1. Ahead(k)' = tick[k].due
        BY <1>8 DEF Ahead
      <4>2. tick[k].due \subseteq Ahead(k) /\ d \notin tick[k].due
        BY <1>1 DEF Ahead, IInv, Listed
      <4>3. \A e \in Ahead(k) : e.routine = r => e = d
        BY <1>1, <1>2 DEF IInv, Listed
      <4> QED
        BY <1>2, <1>8, <2>1, <4>1, <4>2, <4>3
    <3> QED
      BY <2>1, <3>1, <3>2, <3>3 DEF OneTicker
  <2>2. CASE ~ (q = r /\ t = d.next)
    <3>1. fired[q][t] > 0
      BY <1>4, <2>2
    <3>2. t <= now /\ t \in Nat /\ now' \in Nat /\ now <= now'
      BY <3>1, Numbers DEF IInv, Behind, Typed
    <3>3. \A l \in Ticker : tick[l] # Idle =>
            t <= tick[l].at /\ \A e \in Ahead(l) : e.routine = q => e.next > t
      BY <3>1 DEF IInv, Behind
    <3>4. \A l \in Ticker : tick'[l] # Idle =>
            tick[l] # Idle /\ tick'[l].at = tick[l].at /\ Ahead(l)' \subseteq Ahead(l)
      BY <1>9, <1>10, TicksKeep
    <3>5. row'[q] # Gone => row'[q].next > t
      BY <1>10, <3>1 DEF RowsAhead
    <3>6. t <= now'
      BY <1>1, <3>2
    <3> QED
      BY <3>3, <3>4, <3>5, <3>6
  <2> QED
    BY <2>1, <2>2
<1> QED
  BY <1>11, <1>12, <1>13, <1>14 DEF IInv

LEMMA FireIInv == ASSUME IInv, OneTicker, NEW k \in Ticker, Fire(k) PROVE IInv'
<1> DEFINE r == tick[k].cur.routine
<1>1. /\ At(k, "fire") /\ Step(k, "pick") /\ tick[k] # Idle /\ tick[k].pc # "pick"
      /\ live[r] < MaxLive /\ live' = [live EXCEPT ![r] = @ + 1]
      /\ CountFire(r, tick[k].cur.next) /\ UNCHANGED <<now, row, people>>
  BY DEF Fire, At
<1>2. r \in Routine /\ now \in Time /\ "pick" \in AtWork
  BY <1>1, UnderWay DEF IInv, TypeOK, AtWork
<1>3. row' \in [Routine -> Row \cup {Gone}] /\ AllMoved(now)
  BY <1>1, <1>2, RowsRest
<1>4. tick' \in [Ticker -> TickState]
  BY <1>1, <1>2, StepIs
<1>5. live' \in [Routine -> 0..MaxLive]
  BY <1>1, <1>2, OneMoreLive
<1>6. Typed
  BY <1>1, <1>3, <1>4, <1>5, TypedLive
<1> QED
  BY <1>1, <1>3, <1>6, FiredKeeps

LEMMA FireToolIInv == ASSUME IInv, OneTicker, NEW k \in Ticker, FireTool(k) PROVE IInv'
<1> DEFINE r == tick[k].cur.routine
<1>1. /\ At(k, "tool") /\ Step(k, "pick") /\ tick[k] # Idle /\ tick[k].pc # "pick"
      /\ CountFire(r, tick[k].cur.next) /\ UNCHANGED <<now, people>>
      /\ \/ Record(r, FALSE) /\ UNCHANGED live
         \/ Record(r, TRUE) /\ UNCHANGED live
         \/ live[r] < MaxLive /\ live' = [live EXCEPT ![r] = @ + 1] /\ UNCHANGED row
  BY DEF FireTool, At
<1>2. r \in Routine /\ now \in Time /\ "pick" \in AtWork
  BY <1>1, UnderWay DEF IInv, TypeOK, AtWork
<1>3. row' \in [Routine -> Row \cup {Gone}] /\ AllMoved(now)
  BY <1>1, <1>2, RowsRest, RecordMoves
<1>4. tick' \in [Ticker -> TickState]
  BY <1>1, <1>2, StepIs
<1>5. live' \in [Routine -> 0..MaxLive]
  <2>1. live \in [Routine -> 0..MaxLive]
    BY DEF IInv, TypeOK
  <2> QED
    BY <1>1, <1>2, <2>1, OneMoreLive
<1>6. Typed
  BY <1>1, <1>3, <1>4, <1>5, TypedLive
<1> QED
  BY <1>1, <1>3, <1>6, FiredKeeps

-----------------------------------------------------------------------------
\* Settling, the clock and the restart leave the rows or record an outcome.
LEMMA SettleIInv == ASSUME IInv, NEW r \in Routine, Settle(r) PROVE IInv'
<1>1. /\ live[r] > 0 /\ live' = [live EXCEPT ![r] = @ - 1]
      /\ (\E ok \in BOOLEAN : Record(r, ok)) \/ UNCHANGED row
      /\ UNCHANGED <<now, tick, people, fired>>
  BY DEF Settle
<1>2. now \in Time /\ tick' \in [Ticker -> TickState] /\ live \in [Routine -> 0..MaxLive] /\ MaxLive \in Nat
  BY <1>1, RoutineAssumption DEF IInv, TypeOK
<1>3. row' \in [Routine -> Row \cup {Gone}] /\ AllMoved(now)
  BY <1>1, <1>2, RowsRest, RecordMoves
<1>4. live' \in [Routine -> 0..MaxLive]
  BY <1>1, <1>2
<1>5. Typed
  BY <1>1, <1>2, <1>3, <1>4, TypedLive
<1> QED
  BY <1>1, <1>3, <1>5, WriteNow DEF GoesOn

LEMMA AdvanceIInv == ASSUME IInv, Advance PROVE IInv'
<1>1. now < MaxTime /\ now' = now + 1 /\ UNCHANGED <<row, tick, live, people, fired>>
  BY DEF Advance
<1>2. now' \in Time /\ now <= now' /\ now \in Time
  BY <1>1, Numbers DEF IInv, TypeOK, Time
<1>3. AllMoved(now)
  BY <1>1, <1>2, RowsRest
<1>4. Typed
  BY <1>1, <1>2 DEF Typed, IInv, TypeOK, people
<1> QED
  BY <1>1, <1>3, <1>4, WriteNow DEF GoesOn

LEMMA CrashIInv == ASSUME IInv, Crash PROVE IInv'
<1>1. /\ tick' = [k \in Ticker |-> Idle] /\ live' = [r \in Routine |-> 0]
      /\ UNCHANGED <<now, row, lastLogin, fired>> /\ edits' \in 0..MaxEdits
  BY IntervenesOnce DEF Crash
<1>2. now \in Time
  BY DEF IInv, TypeOK
<1>3. row' \in [Routine -> Row \cup {Gone}] /\ AllMoved(now)
  BY <1>1, <1>2, RowsRest
<1>4. 0 \in 0..MaxLive
  BY RoutineAssumption
<1>5. Typed
  BY <1>1, <1>2, <1>3, <1>4, Numbers DEF Typed, IInv, TypeOK, TickState
<1> QED
  BY <1>1, <1>3, <1>5, WriteNow DEF GoesOn

\* What people do to rows is one write by id, or one of every row.
LEMMA EditIInv ==
  ASSUME IInv, Intervene, row' \in [Routine -> Row \cup {Gone}], AllMoved(now), lastLogin' \in Time,
         UNCHANGED <<now, tick, fired>>, live' \in [Routine -> 0..MaxLive]
  PROVE  IInv'
<1>1. edits' \in 0..MaxEdits
  BY IntervenesOnce
<1>2. Typed
  BY <1>1, Numbers DEF Typed, IInv, TypeOK
<1> QED
  BY <1>2, WriteNow DEF GoesOn

LEMMA PatchIInv ==
  ASSUME IInv, NEW r \in Routine,
         (\E p \in Plans : PatchSchedule(r, p)) \/ (\E kind \in Kind : PatchKind(r, kind)) \/ Start(r)
  PROVE  IInv'
<1>1. now \in Time
  BY DEF IInv, TypeOK
<1>2. \A p \in Plans : NextRun(p, now) \in Moment
  BY <1>1, NextRunAhead
<1>3. Here(r) /\ row[r] \in Row /\ row[r] # Gone /\ (row[r].on => row[r].reason = "none")
  BY HereIsRow DEF PatchSchedule, PatchKind, Start, IInv, NoneForgotten, Here
<1>4. PICK new : Put(r, new) /\ Moved(row[r], new, now)
  <2>1. ASSUME NEW p \in Plans, PatchSchedule(r, p) PROVE \E new : Put(r, new) /\ Moved(row[r], new, now)
    <3> DEFINE new == [row[r] EXCEPT !.plan = p, !.next = NextRun(p, now)]
    <3>1. Put(r, new)
      BY <2>1 DEF PatchSchedule
    <3>2. new \in Row /\ new.next = NextRun(p, now) /\ new.on = row[r].on /\ new.reason = row[r].reason
      BY <1>2, <1>3 DEF Row
    <3>3. Moved(row[r], new, now)
      BY <1>3, <3>2 DEF Moved
    <3> QED
      BY <3>1, <3>3
  <2>2. ASSUME NEW kind \in Kind, PatchKind(r, kind) PROVE \E new : Put(r, new) /\ Moved(row[r], new, now)
    <3> DEFINE new == [row[r] EXCEPT !.kind = kind]
    <3>1. Put(r, new)
      BY <2>2 DEF PatchKind
    <3>2. new \in Row /\ new.next = row[r].next /\ new.on = row[r].on /\ new.reason = row[r].reason
      BY <1>3 DEF Row
    <3>3. Moved(row[r], new, now)
      BY <1>3, <3>2 DEF Moved
    <3> QED
      BY <3>1, <3>3
  <2>3. ASSUME Start(r) PROVE \E new : Put(r, new) /\ Moved(row[r], new, now)
    <3> DEFINE next == NextRun(row[r].plan, now)
               new == [row[r] EXCEPT !.on = TRUE, !.failures = 0, !.reason = "none", !.next = next]
    <3>1. Put(r, new)
      BY <2>3 DEF Start
    <3>2. row[r].plan \in Plans /\ next \in Moment
      BY <1>2, <1>3 DEF Row
    <3>3. new \in Row /\ new.next = next /\ new.reason = "none"
      <4> HIDE DEF next
      <4> DEFINE q == row[r]
      <4>1. q \in Row /\ 0 \in 0..(FailureLimit + 1) /\ "none" \in Reason
        BY <1>3 DEF FailureLimit, Reason
      <4> HIDE DEF q
      <4>2. [q EXCEPT !.on = TRUE, !.failures = 0, !.reason = "none", !.next = next] \in Row
        BY <3>2, <4>1 DEF Row
      <4> QED
        BY <4>1, <4>2 DEF q, Row
    <3>4. Moved(row[r], new, now)
      BY <1>3, <3>2, <3>3 DEF Moved
    <3> QED
      BY <3>1, <3>4
  <2> QED
    BY <2>1, <2>2, <2>3
<1>5. row' \in [Routine -> Row \cup {Gone}] /\ AllMoved(now)
  BY <1>1, <1>4, PutMoves
<1>6. Intervene /\ UNCHANGED <<now, lastLogin, tick, live, fired>>
  BY DEF PatchSchedule, PatchKind, Start
<1> QED
  BY <1>5, <1>6, EditIInv DEF IInv, TypeOK

LEMMA StopIInv == ASSUME IInv, NEW r \in Routine, Stop(r) \/ Delete(r) PROVE IInv'
<1>1. Here(r) /\ Intervene /\ UNCHANGED <<now, lastLogin, tick, live, fired>> /\ now \in Time
  BY DEF Stop, Delete, IInv, TypeOK
<1>2. row[r] \in Row
  BY <1>1, HereIsRow
<1>3. PICK new : Put(r, new) /\ Moved(row[r], new, now)
  <2>1. CASE Stop(r)
    <3>1. 0 \in 0..(FailureLimit + 1) /\ "none" \in Reason
      BY DEF FailureLimit, Reason
    <3>2. Moved(row[r], SwitchOff(row[r], "people"), now)
      BY <1>1, <1>2, <3>1, OffMoves
    <3> QED
      BY <2>1, <3>2 DEF Stop
  <2>2. CASE Delete(r)
    BY <1>1, <2>2 DEF Delete, Put, Moved
  <2> QED
    BY <2>1, <2>2
<1>4. row' \in [Routine -> Row \cup {Gone}] /\ AllMoved(now)
  BY <1>1, <1>3, PutMoves
<1> QED
  BY <1>1, <1>4, EditIInv DEF IInv, TypeOK

LEMMA RunNowIInv == ASSUME IInv, NEW r \in Routine, RunNow(r) PROVE IInv'
<1>1. /\ Intervene /\ live[r] < MaxLive /\ live' = [live EXCEPT ![r] = @ + 1]
      /\ UNCHANGED <<now, row, lastLogin, tick, fired>> /\ now \in Time
  BY DEF RunNow, IInv, TypeOK
<1>2. row' \in [Routine -> Row \cup {Gone}] /\ AllMoved(now)
  BY <1>1, RowsRest
<1>3. live' \in [Routine -> 0..MaxLive]
  BY <1>1, OneMoreLive
<1> QED
  BY <1>1, <1>2, <1>3, EditIInv DEF IInv, TypeOK

\* The routines a sign-in resumes get a new next run.
LEMMA LoginIInv == ASSUME IInv, Login PROVE IInv'
<1>1. /\ Intervene /\ lastLogin' = now /\ row' = [r \in Routine |-> Resumed(row[r])]
      /\ UNCHANGED <<now, tick, live, fired>> /\ now \in Time
  BY DEF Login, IInv, TypeOK
<1>2. \A r \in Routine : Resumed(row[r]) \in Row \cup {Gone} /\ Moved(row[r], Resumed(row[r]), now)
  <2> SUFFICES ASSUME NEW r \in Routine
               PROVE  Resumed(row[r]) \in Row \cup {Gone} /\ Moved(row[r], Resumed(row[r]), now)
    OBVIOUS
  <2>1. CASE row[r] # Gone /\ row[r].reason = "absence"
    <3> DEFINE new == [row[r] EXCEPT !.on = TRUE, !.reason = "none", !.next = NextRun(row[r].plan, now)]
    <3>1. row[r] \in Row /\ row[r].plan \in Plans /\ Resumed(row[r]) = new
      BY <2>1, HereIsRow DEF Here, Row, Resumed
    <3>2. NextRun(row[r].plan, now) \in Moment
      BY <1>1, <3>1, NextRunAhead
    <3>3. new \in Row /\ new.next = NextRun(row[r].plan, now) /\ new.reason = "none"
      BY <3>1, <3>2 DEF Row, Reason
    <3> HIDE DEF new
    <3> QED
      BY <2>1, <3>1, <3>3 DEF Moved
  <2>2. CASE ~ (row[r] # Gone /\ row[r].reason = "absence")
    <3>1. Resumed(row[r]) = row[r]
      BY <2>2 DEF Resumed
    <3> QED
      BY <1>1, <3>1, SameMoves DEF IInv, TypeOK
  <2> QED
    BY <2>1, <2>2
<1>3. row' \in [Routine -> Row \cup {Gone}] /\ AllMoved(now)
  BY <1>1, <1>2 DEF AllMoved
<1> QED
  BY <1>1, <1>3, EditIInv DEF IInv, TypeOK

-----------------------------------------------------------------------------
LEMMA InitIInv == ASSUME Init PROVE IInv
<1>1. 0 \in Time /\ 0 \in 0..MaxLive /\ 0 \in 0..MaxEdits
  BY RoutineAssumption DEF Time
<1>2. \A r \in Routine : /\ row[r] \in Row /\ row[r].reason = "none"
                         /\ \E p \in Plans : row[r].next = NextRun(p, 0)
  <2>1. \A p \in Plans : NextRun(p, 0) \in Moment
    BY <1>1, NextRunAhead
  <2> SUFFICES ASSUME NEW r \in Routine
               PROVE  /\ row[r] \in Row /\ row[r].reason = "none"
                      /\ \E p \in Plans : row[r].next = NextRun(p, 0)
    OBVIOUS
  <2>2. PICK kd \in Kind, p \in Plans :
          row[r] = [on |-> TRUE, kind |-> kd, plan |-> p, next |-> NextRun(p, 0),
                    failures |-> 0, reason |-> "none", by |-> "none"]
    BY DEF Init
  <2> QED
    BY <2>1, <2>2 DEF Row, Reason, FailureLimit
<1>3. \A r \in Routine, t \in Time : fired[r][t] = 0
  BY DEF Init
<1>4. \A k \in Ticker : tick[k] = Idle
  BY DEF Init
<1>5. TypeOK
  <2>1. \A p \in Plans : NextRun(p, 0) \in Moment
    BY <1>1, NextRunAhead
  <2>2. row \in [Routine -> Row \cup {Gone}]
    BY <1>2 DEF Init
  <2>3. fired \in [Routine -> [Time -> Nat]]
    BY DEF Init
  <2> QED
    BY <1>1, <2>2, <2>3 DEF Init, TypeOK, TickState
<1>6. NoneForgotten
  <2>1. 0 \in 0..now
    BY DEF Init
  <2> QED
    BY <1>2, <2>1 DEF NoneForgotten
<1> QED
  BY <1>3, <1>4, <1>5, <1>6 DEF IInv, Listed, Behind, OncePerDue

LEMMA NextIInv == ASSUME OneTicker, IInv, [Next]_vars PROVE IInv'
<1>1. ASSUME NEW k \in Ticker, TickStep(k) PROVE IInv'
  BY <1>1, ListIInv, PickIInv, LookIInv, PauseIInv, RescheduleIInv, FireIInv, FireToolIInv DEF TickStep
<1>2. ASSUME NEW r \in Routine,
             \/ Settle(r) \/ Start(r) \/ Stop(r) \/ Delete(r) \/ RunNow(r)
             \/ \E p \in Plans : PatchSchedule(r, p)
             \/ \E kind \in Kind : PatchKind(r, kind)
      PROVE IInv'
  BY <1>2, SettleIInv, PatchIInv, StopIInv, RunNowIInv
<1>3. CASE Advance \/ Crash \/ Login
  BY <1>3, AdvanceIInv, CrashIInv, LoginIInv
<1>4. CASE UNCHANGED vars
  <2>1. now \in Time /\ UNCHANGED <<now, row, tick, live, people, fired>>
    BY <1>4 DEF vars, people, IInv, TypeOK
  <2>2. row' \in [Routine -> Row \cup {Gone}] /\ AllMoved(now) /\ tick' \in [Ticker -> TickState]
    BY <2>1, RowsRest DEF IInv, TypeOK
  <2>3. Typed
    BY <2>1, <2>2, TypedStep
  <2> QED
    BY <2>1, <2>2, <2>3, WriteNow DEF GoesOn
<1> QED
  BY <1>1, <1>2, <1>3, <1>4 DEF Next

-----------------------------------------------------------------------------
\* The invariant the other results are read off: rows and ticks keep their types,
\* no active routine is without a reason and a next run, a tick's list stays a
\* list of rows that were due, and all that was fired for is behind.
THEOREM InductiveInvariant == ASSUME OneTicker PROVE Spec => []IInv
<1>1. Init => IInv
  BY InitIInv
<1>2. IInv /\ [Next]_vars => IInv'
  BY NextIInv
<1> QED
  BY <1>1, <1>2, PTL DEF Spec

\* While one caller ticks at a time, a due time is fired for once: whatever
\* people do to the routine meanwhile, and wherever the server dies.
THEOREM FiresOncePerDue == ASSUME OneTicker PROVE Spec => []OncePerDue
<1>1. IInv => OncePerDue
  BY DEF IInv
<1> QED
  BY <1>1, InductiveInvariant, PTL

\* No active routine is forgotten: it shows no reason for a pause, and its next
\* run was computed from a moment that is past.
THEOREM ActiveIsScheduled == ASSUME OneTicker PROVE Spec => []NoneForgotten
<1>1. IInv => NoneForgotten
  BY DEF IInv
<1> QED
  BY <1>1, InductiveInvariant, PTL

=============================================================================
