------------------------- MODULE ObservationsProofs -------------------------
(***************************************************************************)
(* Coordinates meet the screen they were read off, and nothing of a run    *)
(* outlives it, for any number of runs and bots and any limits.            *)
(*                                                                         *)
(* The argument: whatever changes a desktop, deliver apart, holds its lock *)
(* and drops every frame of the bot in the same step, so a frame in the    *)
(* registry is what the desktop shows but for deliver (Current); an action *)
(* takes its frame out under the lock and keeps the lock, so nothing else  *)
(* comes between (Aiming); and a worker owns the lock for as long as it    *)
(* lives, whatever becomes of the run that started it (Captured).          *)
(***************************************************************************)
EXTENDS Observations, FiniteSetTheorems, TLAPS

\* A change keeps the types.
LEMMA ChangedType ==
  ASSUME TypeOK, NEW b \in Bot, NEW n \in Nat, NEW who \in Who,
         NEW frames \in [Run -> Frame \cup {None}], NEW aims \in [Run -> Aim \cup {None}],
         Changed(b, n, who, frames, aims)
  PROVE  /\ frame' \in [Run -> Frame \cup {None}] /\ aim' \in [Run -> Aim \cup {None}]
         /\ shot' \in [Run -> SUBSET Who]
<1>1. \A p \in Frame : [p EXCEPT !.since = @ \cup {who}] \in Frame BY DEF Frame
<1>2. \A p \in Aim : [p EXCEPT !.since = @ \cup {who}] \in Aim BY DEF Aim
<1>3. After(frames, b, n, who) \in [Run -> Frame \cup {None}] BY <1>1 DEF After
<1>4. After(aims, b, n, who) \in [Run -> Aim \cup {None}] BY <1>2 DEF After
<1>5. shot' \in [Run -> SUBSET Who] BY DEF Changed, TypeOK
<1> QED BY <1>3, <1>4, <1>5 DEF Changed

\* It reaches the pictures of its desktop only, and makes none.
LEMMA ChangedLeaves ==
  ASSUME NEW b, NEW n, NEW who, NEW frames, NEW aims, Changed(b, n, who, frames, aims), NEW q \in Run
  PROVE  /\ ~ n > 0 \/ bot[q] # b =>
              frame'[q] = frames[q] /\ aim'[q] = aims[q] /\ shot'[q] = shot[q]
         /\ frames[q] = None => frame'[q] = None
         /\ aims[q] = None => aim'[q] = None
         /\ lease[q] \notin {"child", "shot"} => shot'[q] = shot[q]
         /\ shot'[q] = shot[q] \/ shot'[q] = shot[q] \cup {who}
BY DEF Changed, After

\* What it leaves of a picture it reaches: everything but who changed it.
LEMMA ChangedPictures ==
  ASSUME NEW b, NEW n, NEW who, NEW frames, NEW aims, Changed(b, n, who, frames, aims), NEW q \in Run
  PROVE  /\ frames[q] \in Frame =>
              /\ frame'[q].gen = frames[q].gen /\ frame'[q].bytes = frames[q].bytes
              /\ frame'[q].since \subseteq frames[q].since \cup {who}
         /\ aims[q] \in Aim => aim'[q].since \subseteq aims[q].since \cup {who}
<1>1. /\ frame'[q] = frames[q] \/ frame'[q] = [frames[q] EXCEPT !.since = @ \cup {who}]
      /\ aim'[q] = aims[q] \/ aim'[q] = [aims[q] EXCEPT !.since = @ \cup {who}]
  BY DEF Changed, After
<1>2. ASSUME frames[q] \in Frame
      PROVE  /\ frame'[q].gen = frames[q].gen /\ frame'[q].bytes = frames[q].bytes
             /\ frame'[q].since \subseteq frames[q].since \cup {who}
  BY <1>1, <1>2 DEF Frame
<1>3. ASSUME aims[q] \in Aim PROVE aim'[q].since \subseteq aims[q].since \cup {who}
  BY <1>1, <1>3 DEF Aim
<1> QED BY <1>2, <1>3

\* What Mutate and Ensure leave of the types.
LEMMA MutateType ==
  ASSUME TypeOK, NEW b \in Bot, NEW n \in Nat, NEW m \in Nat, NEW aims \in [Run -> Aim \cup {None}],
         Mutate(b, n, m, aims)
  PROVE  /\ frame' \in [Run -> Frame \cup {None}] /\ aim' \in [Run -> Aim \cup {None}]
         /\ shot' \in [Run -> SUBSET Who] /\ gen' \in [Bot -> Nat]
<1> DEFINE frames == IF n = 0 THEN frame ELSE Invalidated(b)
<1>1. frames \in [Run -> Frame \cup {None}] BY DEF TypeOK, Invalidated
<1>2. Changed(b, m, "others", frames, aims) BY DEF Mutate
<1>3. gen' \in [Bot -> Nat] BY DEF Mutate, TypeOK
<1> HIDE DEF frames
<1> QED BY <1>1, <1>2, <1>3, ChangedType DEF Who

LEMMA EnsureMutates ==
  ASSUME NEW b, NEW n \in Nat, NEW aims, Ensure(b, n, aims)
  PROVE  \E k \in Nat : Mutate(b, k, k, aims)
<1>1. n + 1 \in Nat OBVIOUS
<1> QED BY <1>1 DEF Ensure

LEMMA EnsureType ==
  ASSUME TypeOK, NEW b \in Bot, NEW n \in Nat, NEW aims \in [Run -> Aim \cup {None}],
         Ensure(b, n, aims)
  PROVE  /\ frame' \in [Run -> Frame \cup {None}] /\ aim' \in [Run -> Aim \cup {None}]
         /\ shot' \in [Run -> SUBSET Who] /\ gen' \in [Bot -> Nat] /\ up' \in [Bot -> BOOLEAN]
<1>1. PICK k \in Nat : Mutate(b, k, k, aims) BY EnsureMutates
<1>2. up' \in [Bot -> BOOLEAN] BY DEF Ensure, TypeOK
<1> QED BY <1>1, <1>2, MutateType

\* settle and finish keep the types.
LEMMA EndType ==
  ASSUME TypeOK, NEW r \in Run, End(r)
  PROVE  /\ pc' \in [Run -> PC] /\ stop' \subseteq Run
         /\ frame' \in [Run -> Frame \cup {None}]
         /\ hand' \in [Run -> {"no", "pending", "sent"}]
BY DEF End, Go, TypeOK, PC

\* Every step keeps the type invariant.
LEMMA TypeStep == TypeOK /\ [Next]_vars => TypeOK'
<1> SUFFICES ASSUME TypeOK, [Next]_vars PROVE TypeOK' OBVIOUS
<1> USE LimitAssumption
<1>0. CASE UNCHANGED vars BY <1>0 DEF vars, run, machine, TypeOK
<1>1. ASSUME NEW r \in Run, Halt(r) \/ StopImage(r) \/ Close(r) PROVE TypeOK'
  <2>1. End(r) BY <1>1 DEF Halt, StopImage, Close
  <2> QED BY <1>1, <2>1, EndType DEF Halt, StopImage, Close, machine, TypeOK
<1>2. ASSUME NEW r \in Run, Ask(r) \/ Withhold(r) \/ Dispatch(r) PROVE TypeOK'
  BY <1>2 DEF Ask, Withhold, Dispatch, Go, run, machine, TypeOK, PC
<1>3. ASSUME NEW r \in Run, Answer(r) PROVE TypeOK'
  <2>1. frame' \in [Run -> Frame \cup {None}]
    <3>1. \A f \in Frame : [f EXCEPT !.bytes = FALSE] \in Frame BY DEF Frame
    <3>2. frame[r] # None => frame[r] \in Frame BY DEF TypeOK
    <3>3. [frame EXCEPT ![r].bytes = FALSE] = [frame EXCEPT ![r] = [frame[r] EXCEPT !.bytes = FALSE]]
      OBVIOUS
    <3> QED BY <1>3, <3>1, <3>2, <3>3 DEF Answer, Delivered, TypeOK
  <2>2. pc' \in [Run -> PC] BY <1>3 DEF Answer, Go, TypeOK, PC
  <2>3. hand' \in [Run -> {"no", "pending", "sent"}] BY <1>3 DEF Answer, Delivered, TypeOK
  <2> QED BY <1>3, <2>1, <2>2, <2>3 DEF Answer, run, machine, TypeOK
<1>4. ASSUME NEW r \in Run, Fail(r) \/ Decide(r) PROVE TypeOK'
  <2>1. CASE End(r) BY <1>4, <2>1, EndType DEF Fail, Decide, machine, TypeOK
  <2>2. CASE ~ End(r)
    <3>1. pc' \in [Run -> PC] BY <1>4, <2>2 DEF Fail, Decide, Go, TypeOK, PC
    <3>2. frame' \in [Run -> Frame \cup {None}] /\ hand' \in [Run -> {"no", "pending", "sent"}]
      BY <1>4, <2>2 DEF Fail, Decide, TypeOK
    <3> QED BY <1>4, <2>2, <3>1, <3>2 DEF Fail, Decide, machine, TypeOK
  <2> QED BY <2>1, <2>2
<1>5. ASSUME NEW r \in Run, Claim(r) \/ Admit(r) \/ LeaveQueue(r) \/ LeaveCapture(r) PROVE TypeOK'
  <2>1. pc' \in [Run -> PC]
    BY <1>5 DEF Claim, Admit, LeaveQueue, LeaveCapture, Go, TypeOK, PC
  <2>2. attempts' \in [Run -> 0..MaxAttempts] BY <1>5 DEF Claim, Admit, LeaveQueue, LeaveCapture, run, TypeOK
  <2>3. lease' \in [Run -> {"no", "reserved", "child", "shot"}]
    BY <1>5 DEF Claim, Admit, LeaveQueue, LeaveCapture, TypeOK
  <2> QED BY <1>5, <2>1, <2>2, <2>3 DEF Claim, Admit, LeaveQueue, LeaveCapture, run, machine, TypeOK
<1>6. ASSUME NEW r \in Run, TakeDesk(r) PROVE TypeOK'
  BY <1>6 DEF TakeDesk, Go, Held, run, machine, TypeOK, PC
<1>7. ASSUME NEW r \in Run, Ensured(r) PROVE TypeOK'
  <2>1. Ensure(bot[r], 0, aim) /\ bot[r] \in Bot /\ aim \in [Run -> Aim \cup {None}]
    BY <1>7 DEF Ensured, TypeOK
  <2>2. pc' \in [Run -> PC] /\ lease' \in [Run -> {"no", "reserved", "child", "shot"}]
    BY <1>7 DEF Ensured, Go, TypeOK, PC
  <2>3. desk' \in [Bot -> {Free, Tool} \cup [by : {"ensure", "capture", "act"}, run : Run]]
    BY <1>7 DEF Ensured, Unlock, Held, TypeOK
  <2> QED BY <1>7, <2>1, <2>2, <2>3, EnsureType DEF Ensured, run, TypeOK
<1>8. ASSUME NEW r \in Run, Shoot(r) PROVE TypeOK'
  BY <1>8 DEF Shoot, run, machine, TypeOK
<1>9. ASSUME NEW r \in Run, Reap(r) \/ Dispose(r) PROVE TypeOK'
  BY <1>9 DEF Reap, Dispose, Go, Unlock, run, machine, TypeOK, PC
<1>10. ASSUME NEW r \in Run, Store(r) PROVE TypeOK'
  <2>1. frame' \in [Run -> Frame \cup {None}]
    <3>1. attempts[r] \in Nat /\ gen[bot[r]] \in Nat /\ shot[r] \in SUBSET Who BY DEF TypeOK
    <3>2. [id |-> attempts[r], gen |-> gen[bot[r]], since |-> shot[r], bytes |-> TRUE] \in Frame
      BY <3>1 DEF Frame
    <3> QED BY <1>10, <3>2 DEF Store, TypeOK
  <2> QED BY <1>10, <2>1 DEF Store, Go, Unlock, run, machine, TypeOK, PC
<1>11. ASSUME NEW r \in Run, NEW id \in 0..MaxAttempts, NEW fits \in BOOLEAN, Consume(r, id, fits)
       PROVE  TypeOK'
  <2>1. bot[r] \in Bot /\ gen[bot[r]] \in Nat BY DEF TypeOK
  <2> DEFINE taken == [aim EXCEPT ![r] = [gen |-> gen[bot[r]] + 1, since |-> frame[r].since]]
  <2>2. CASE Mutate(bot[r], 1, 0, taken) /\ frame[r] # None
    <3>1. frame[r].since \in SUBSET Who BY <2>2 DEF TypeOK, Frame
    <3>2. taken \in [Run -> Aim \cup {None}]
      <4>1. [gen |-> gen[bot[r]] + 1, since |-> frame[r].since] \in Aim BY <2>1, <3>1 DEF Aim
      <4> QED BY <4>1 DEF TypeOK
    <3>3. pc' \in [Run -> PC] BY <1>11 DEF Consume, Go, TypeOK, PC
    <3>4. desk' \in [Bot -> {Free, Tool} \cup [by : {"ensure", "capture", "act"}, run : Run]]
      BY <1>11 DEF Consume, Held, TypeOK
    <3>5. up' = up BY <1>11 DEF Consume, machine
    <3>6. /\ frame' \in [Run -> Frame \cup {None}] /\ aim' \in [Run -> Aim \cup {None}]
          /\ shot' \in [Run -> SUBSET Who] /\ gen' \in [Bot -> Nat]
      <4> HIDE DEF taken
      <4> QED BY <2>1, <2>2, <3>2, MutateType
    <3> QED BY <1>11, <3>3, <3>4, <3>5, <3>6 DEF Consume, run, TypeOK
  <2>3. CASE ~ (Mutate(bot[r], 1, 0, taken) /\ frame[r] # None)
    BY <1>11, <2>3 DEF Consume, Go, run, machine, TypeOK, PC
  <2> QED BY <2>2, <2>3
<1>12. ASSUME NEW r \in Run, Act(r) PROVE TypeOK'
  <2> DEFINE others == [aim EXCEPT ![r] = None]
  <2>1. bot[r] \in Bot /\ others \in [Run -> Aim \cup {None}] BY DEF TypeOK
  <2>2. pc' \in [Run -> PC] BY <1>12 DEF Act, Go, TypeOK, PC
  <2>3. desk' \in [Bot -> {Free, Tool} \cup [by : {"ensure", "capture", "act"}, run : Run]]
    BY <1>12, <2>1 DEF Act, Unlock, TypeOK
  <2>4. /\ frame' \in [Run -> Frame \cup {None}] /\ aim' \in [Run -> Aim \cup {None}]
        /\ shot' \in [Run -> SUBSET Who] /\ gen' \in [Bot -> Nat] /\ up' \in [Bot -> BOOLEAN]
    <3>1. Ensure(bot[r], 0, others) \/ (Mutate(bot[r], 0, 1, others) /\ up' = up)
      BY <1>12 DEF Act
    <3> HIDE DEF others
    <3>2. CASE Ensure(bot[r], 0, others) BY <2>1, <3>2, EnsureType
    <3>3. CASE Mutate(bot[r], 0, 1, others) /\ up' = up
      <4>1. up' \in [Bot -> BOOLEAN] BY <3>3 DEF TypeOK
      <4> QED BY <2>1, <3>3, <4>1, MutateType
    <3> QED BY <3>1, <3>2, <3>3
  <2>5. UNCHANGED <<bot, run, hand, lease>> BY <1>12 DEF Act
  <2> QED BY <2>2, <2>3, <2>4, <2>5 DEF run, TypeOK
<1>13. ASSUME NEW b \in Bot, ToolTakes(b) PROVE TypeOK'
  BY <1>13 DEF ToolTakes, run, machine, TypeOK
<1>14. ASSUME NEW b \in Bot, OtherTool(b) PROVE TypeOK'
  <2>1. desk' \in [Bot -> {Free, Tool} \cup [by : {"ensure", "capture", "act"}, run : Run]]
    BY <1>14 DEF OtherTool, ToolRuns, ToolDies, Hibernate, Refresh, Unlock, TypeOK
  <2>2. aim \in [Run -> Aim \cup {None}] BY DEF TypeOK
  <2>3. CASE ToolRuns(b)
    <3>1. PICK extra \in {0, 1} : Ensure(b, extra, aim) BY <2>3 DEF ToolRuns
    <3> QED BY <2>1, <2>2, <2>3, <3>1, EnsureType DEF ToolRuns, run, TypeOK
  <2>4. CASE ToolDies(b)
    <3>1. Invalidated(b) \in [Run -> Frame \cup {None}] BY DEF TypeOK, Invalidated
    <3>2. Changed(b, 1, "others", Invalidated(b), aim) BY <2>4 DEF ToolDies
    <3>3. /\ frame' \in [Run -> Frame \cup {None}] /\ aim' \in [Run -> Aim \cup {None}]
          /\ shot' \in [Run -> SUBSET Who]
      BY <2>2, <3>1, <3>2, ChangedType DEF Who
    <3> QED BY <2>1, <2>4, <3>3 DEF ToolDies, machine, run, TypeOK
  <2>5. CASE Hibernate(b) \/ Refresh(b)
    <3>1. up' \in [Bot -> BOOLEAN] BY <2>5 DEF Hibernate, Refresh, TypeOK
    <3>2. Mutate(b, 1, 1, aim) BY <2>5 DEF Hibernate, Refresh
    <3> QED BY <2>1, <2>2, <2>5, <3>1, <3>2, MutateType DEF Hibernate, Refresh, run, TypeOK
  <2> QED BY <1>14, <2>3, <2>4, <2>5 DEF OtherTool
<1>15. ASSUME NEW b \in Bot, Die(b) PROVE TypeOK'
  BY <1>15 DEF Die, run, TypeOK
<1>16. ASSUME NEW r \in Run, Stop(r) PROVE TypeOK'
  BY <1>16 DEF Stop, machine, TypeOK
<1>17. ASSUME NEW b \in Bot, Deliver(b) PROVE TypeOK'
  <2>1. up' \in [Bot -> BOOLEAN] BY <1>17 DEF Deliver, TypeOK
  <2>2. /\ frame \in [Run -> Frame \cup {None}] /\ aim \in [Run -> Aim \cup {None}]
        /\ Changed(b, 1, "deliver", frame, aim)
    BY <1>17 DEF Deliver, TypeOK
  <2>3. /\ frame' \in [Run -> Frame \cup {None}] /\ aim' \in [Run -> Aim \cup {None}]
        /\ shot' \in [Run -> SUBSET Who]
    BY <2>2, ChangedType DEF Who
  <2> QED BY <1>17, <2>1, <2>3 DEF Deliver, run, TypeOK
<1> QED
  BY <1>0, <1>1, <1>2, <1>3, <1>4, <1>5, <1>6, <1>7, <1>8, <1>9, <1>10, <1>11, <1>12, <1>13, <1>14,
     <1>15, <1>16, <1>17
  DEF Next, RunStep, Task, Model, Locking, Worker

-----------------------------------------------------------------------------
\* A recorded mutation leaves no frame of its desktop, and touches no other.
LEMMA MutateLeaves ==
  ASSUME TypeOK, NEW b \in Bot, NEW n \in Nat, NEW m \in Nat, NEW aims, Mutate(b, n, m, aims),
         n = 0 => m = 0
  PROVE  \A q \in Run : frame'[q] = None \/ (frame'[q] = frame[q] /\ gen'[bot[q]] = gen[bot[q]])
<1> DEFINE frames == IF n = 0 THEN frame ELSE Invalidated(b)
<1> SUFFICES ASSUME NEW q \in Run, frame'[q] # None
             PROVE  frame'[q] = frame[q] /\ gen'[bot[q]] = gen[bot[q]]
    OBVIOUS
<1>1. Changed(b, m, "others", frames, aims) BY DEF Mutate
<1>2. frames[q] # None /\ (~ m > 0 \/ bot[q] # b => frame'[q] = frames[q])
  <2> HIDE DEF frames
  <2> QED BY <1>1, ChangedLeaves
<1>3. bot[q] \in Bot BY DEF TypeOK
<1>4. CASE n = 0
  <2>1. frame'[q] = frame[q] BY <1>2, <1>4
  <2>2. gen' = gen BY <1>4 DEF Mutate, TypeOK
  <2> QED BY <2>1, <2>2
<1>5. CASE n # 0
  <2>1. bot[q] # b /\ frames[q] = frame[q] BY <1>2, <1>5 DEF Invalidated
  <2>2. gen'[bot[q]] = gen[bot[q]] BY <1>3, <2>1 DEF Mutate, TypeOK
  <2> QED BY <1>2, <2>1, <2>2
<1> QED BY <1>4, <1>5

\* Other pictures it reaches only at its desktop, and only those that are there.
LEMMA MutateReaches ==
  ASSUME NEW b, NEW n, NEW m, NEW aims, Mutate(b, n, m, aims)
  PROVE  \A q \in Run :
           /\ bot[q] # b => frame'[q] = frame[q] /\ aim'[q] = aims[q] /\ shot'[q] = shot[q]
           /\ frame[q] = None => frame'[q] = None
           /\ aims[q] = None => aim'[q] = None
           /\ lease[q] \notin {"child", "shot"} => shot'[q] = shot[q]
<1> DEFINE frames == IF n = 0 THEN frame ELSE Invalidated(b)
<1> TAKE q \in Run
<1>1. Changed(b, m, "others", frames, aims) BY DEF Mutate
<1>2. /\ bot[q] # b => frames[q] = frame[q]
      /\ frame[q] = None => frames[q] = None
  BY DEF Invalidated
<1> HIDE DEF frames
<1> QED BY <1>1, <1>2, ChangedLeaves

\* Ensuring a machine does no more.
LEMMA EnsureLeaves ==
  ASSUME TypeOK, NEW b \in Bot, NEW n \in Nat, NEW aims, Ensure(b, n, aims)
  PROVE  \A q \in Run :
           /\ frame'[q] = None \/ (frame'[q] = frame[q] /\ gen'[bot[q]] = gen[bot[q]])
           /\ bot[q] # b => frame'[q] = frame[q] /\ aim'[q] = aims[q] /\ shot'[q] = shot[q]
           /\ frame[q] = None => frame'[q] = None
           /\ aims[q] = None => aim'[q] = None
           /\ lease[q] \notin {"child", "shot"} => shot'[q] = shot[q]
<1>1. PICK k \in Nat : Mutate(b, k, k, aims) BY EnsureMutates
<1>2. \A q \in Run : frame'[q] = None \/ (frame'[q] = frame[q] /\ gen'[bot[q]] = gen[bot[q]])
  BY <1>1, MutateLeaves
<1>3. \A q \in Run :
           /\ bot[q] # b => frame'[q] = frame[q] /\ aim'[q] = aims[q] /\ shot'[q] = shot[q]
           /\ frame[q] = None => frame'[q] = None
           /\ aims[q] = None => aim'[q] = None
           /\ lease[q] \notin {"child", "shot"} => shot'[q] = shot[q]
  BY <1>1, MutateReaches
<1> QED BY <1>2, <1>3

\* No step moves a run to another bot.
LEMMA BotsStay == [Next]_vars => bot' = bot
<1>1. ASSUME NEW r \in Run, Task(r) \/ Model(r) PROVE bot' = bot
  BY <1>1 DEF Task, Model, Halt, Ask, Withhold, Dispatch, StopImage, Claim, Admit, LeaveQueue,
     LeaveCapture, Store, Decide, Answer, Close, Fail
<1>2. ASSUME NEW r \in Run, Locking(r) \/ Worker(r) \/ Stop(r) PROVE bot' = bot
  BY <1>2 DEF Locking, Worker, TakeDesk, Consume, Ensured, Shoot, Reap, Dispose, Act, Stop
<1>3. ASSUME NEW b \in Bot, ToolTakes(b) \/ OtherTool(b) \/ Deliver(b) \/ Die(b) PROVE bot' = bot
  BY <1>3 DEF OtherTool, ToolTakes, ToolRuns, ToolDies, Hibernate, Refresh, Deliver, Die
<1> QED BY <1>1, <1>2, <1>3 DEF vars, Next, RunStep

\* What Current says of a frame.
Shows(q) == frame[q].gen = gen[bot[q]] /\ frame[q].since \subseteq {"deliver"}

\* Every step keeps a frame as it is, gives up its bytes, drops it, or stores one
\* that shows the desktop; only deliver changes the desktop of one that stays.
LEMMA CurrentStep ==
  TypeOK /\ Captured /\ StillFrame /\ Aiming /\ Current /\ [Next]_vars => Current'
<1> SUFFICES ASSUME TypeOK, Captured, StillFrame, Aiming, Current, [Next]_vars,
                    NEW q \in Run, frame'[q] # None
             PROVE  Shows(q)'
    BY DEF Current, Shows
<1>a. bot' = bot BY BotsStay
<1>b. frame[q] # None => Shows(q) BY DEF Current, Shows
<1>c. ASSUME frame'[q] = None \/ (frame'[q] = frame[q] /\ gen'[bot[q]] = gen[bot[q]])
      PROVE  Shows(q)'
  BY <1>a, <1>b, <1>c DEF Shows
<1>0. CASE UNCHANGED vars BY <1>0, <1>c DEF vars, machine
<1>1. ASSUME NEW r \in Run, Task(r) \/ Model(r) \/ Stop(r) \/ TakeDesk(r), ~ Store(r), ~ Answer(r)
      PROVE  Shows(q)'
  <2>1. UNCHANGED machine
    BY <1>1 DEF Task, Model, Halt, Ask, Withhold, Dispatch, StopImage, Claim, Admit, LeaveQueue,
       LeaveCapture, Decide, Close, Fail, Stop, TakeDesk
  <2>2. frame' = frame \/ frame' = [frame EXCEPT ![r] = None]
    BY <1>1 DEF Task, Model, Halt, Ask, Withhold, Dispatch, StopImage, Claim, Admit, LeaveQueue,
       LeaveCapture, Decide, Close, Fail, Stop, TakeDesk, End
  <2> QED BY <2>1, <2>2, <1>c DEF machine, TypeOK
<1>2. ASSUME NEW r \in Run, Answer(r)
      PROVE  Shows(q)'
  <2>1. CASE frame' = frame BY <1>2, <2>1, <1>c DEF Answer, machine
  <2>2. CASE frame' # frame
    <3>1. frame[r] # None /\ frame' = [frame EXCEPT ![r].bytes = FALSE]
      BY <1>2, <2>2 DEF Answer, Delivered
    <3>2. CASE q = r
      <4>1. frame[r] \in Frame BY <3>1 DEF TypeOK
      <4>2. frame'[r] = [frame[r] EXCEPT !.bytes = FALSE] BY <3>1 DEF TypeOK
      <4>3. frame'[r].gen = frame[r].gen /\ frame'[r].since = frame[r].since
        BY <4>1, <4>2 DEF Frame
      <4> QED BY <1>2, <1>a, <1>b, <3>1, <3>2, <4>3 DEF Answer, machine, Shows
    <3>3. CASE q # r
      <4>1. frame'[q] = frame[q] BY <3>1, <3>3 DEF TypeOK
      <4> QED BY <1>2, <4>1, <1>c DEF Answer, machine
    <3> QED BY <3>2, <3>3
  <2> QED BY <2>1, <2>2
<1>3. ASSUME NEW r \in Run, Store(r)
      PROVE  Shows(q)'
  <2>1. shot[r] \subseteq {"deliver"} BY <1>3 DEF Store, StillFrame
  <2>2. CASE q = r BY <1>3, <1>a, <2>1, <2>2 DEF Store, machine, TypeOK, Shows
  <2>3. CASE q # r
    <3>1. frame'[q] = frame[q] BY <1>3, <2>3 DEF Store, TypeOK
    <3> QED BY <1>3, <3>1, <1>c DEF Store, machine
  <2> QED BY <2>2, <2>3
<1>4. ASSUME NEW r \in Run, NEW id \in 0..MaxAttempts, NEW fits \in BOOLEAN, Consume(r, id, fits)
      PROVE  Shows(q)'
  <2>1. bot[r] \in Bot BY DEF TypeOK
  <2>2. CASE \E aims : Mutate(bot[r], 1, 0, aims) BY <2>1, <2>2, <1>c, MutateLeaves
  <2>3. CASE ~ \E aims : Mutate(bot[r], 1, 0, aims)
    BY <1>4, <2>3, <1>c DEF Consume, machine, TypeOK
  <2> QED BY <2>2, <2>3
<1>5. ASSUME NEW r \in Run, Worker(r)
      PROVE  Shows(q)'
  <2>1. bot[r] \in Bot BY DEF TypeOK
  <2>2. CASE \E aims : Ensure(bot[r], 0, aims) BY <2>1, <2>2, <1>c, EnsureLeaves
  <2>3. CASE Shoot(r) \/ Reap(r) \/ Dispose(r)
    BY <2>3, <1>c DEF Shoot, Reap, Dispose, machine
  <2>4. CASE Act(r) /\ ~ \E aims : Ensure(bot[r], 0, aims)
    <3>1. PICK aims : desk[bot[r]] = Held("act", r) /\ Mutate(bot[r], 0, 1, aims)
      BY <2>4 DEF Act
    <3>2. frame[q] # None /\ (bot[q] # bot[r] => frame'[q] = frame[q]) BY <3>1, MutateReaches
    <3>3. bot[q] # bot[r] BY <3>1, <3>2 DEF Aiming
    <3>4. gen' = gen BY <3>1 DEF Mutate, TypeOK
    <3> QED BY <3>2, <3>3, <3>4, <1>c
  <2> QED BY <1>5, <2>2, <2>3, <2>4 DEF Worker, Ensured
<1>6. ASSUME NEW b \in Bot, ToolTakes(b) \/ Die(b)
      PROVE  Shows(q)'
  BY <1>6, <1>c DEF ToolTakes, Die, machine
<1>7. ASSUME NEW b \in Bot, OtherTool(b)
      PROVE  Shows(q)'
  <2>1. CASE ToolRuns(b)
    <3>1. PICK extra \in {0, 1} : Ensure(b, extra, aim) BY <2>1 DEF ToolRuns
    <3> QED BY <3>1, <1>c, EnsureLeaves
  <2>2. CASE Hibernate(b) \/ Refresh(b)
    <3>1. Mutate(b, 1, 1, aim) BY <2>2 DEF Hibernate, Refresh
    <3> QED BY <3>1, <1>c, MutateLeaves
  <2>3. CASE ToolDies(b)
    <3>1. Changed(b, 1, "others", Invalidated(b), aim) BY <2>3 DEF ToolDies
    <3>2. Invalidated(b)[q] # None BY <3>1, ChangedLeaves
    <3>3. bot[q] # b /\ Invalidated(b)[q] = frame[q] BY <3>2 DEF Invalidated
    <3>4. frame'[q] = frame[q] BY <3>1, <3>3, ChangedLeaves
    <3> QED BY <2>3, <3>4, <1>c DEF ToolDies, machine
  <2> QED BY <1>7, <2>1, <2>2, <2>3 DEF OtherTool
<1>8. ASSUME NEW b \in Bot, Deliver(b)
      PROVE  Shows(q)'
  <2>1. Changed(b, 1, "deliver", frame, aim) BY <1>8 DEF Deliver
  <2>2. frame[q] # None BY <2>1, ChangedLeaves
  <2>3. frame[q] \in Frame BY <2>2 DEF TypeOK
  <2>4. frame'[q].gen = frame[q].gen /\ frame'[q].since \subseteq frame[q].since \cup {"deliver"}
    BY <2>1, <2>3, ChangedPictures
  <2> QED BY <1>8, <1>a, <1>b, <2>2, <2>4 DEF Deliver, Shows
<1> QED
  BY <1>0, <1>1, <1>2, <1>3, <1>4, <1>5, <1>6, <1>7, <1>8 DEF Next, RunStep, Task, Model, Locking

-----------------------------------------------------------------------------
\* Whose lock it is, a lock tells.
LEMMA Holders ==
  /\ \A q \in Run, r \in Run, k \in {"ensure", "capture", "act"}, l \in {"ensure", "capture", "act"} :
       Held(k, q) = Held(l, r) => k = l /\ q = r
  /\ \A q \in Run, k \in {"ensure", "capture", "act"} : Held(k, q) # Free /\ Held(k, q) # Tool
<1>1. ASSUME NEW q \in Run, NEW r \in Run, NEW k \in {"ensure", "capture", "act"},
             NEW l \in {"ensure", "capture", "act"}, Held(k, q) = Held(l, r)
      PROVE  k = l /\ q = r
  <2>1. Held(k, q).by = k /\ Held(k, q).run = q BY DEF Held
  <2>2. Held(l, r).by = l /\ Held(l, r).run = r BY DEF Held
  <2> QED BY <1>1, <2>1, <2>2
<1>2. ASSUME NEW q \in Run, NEW k \in {"ensure", "capture", "act"}
      PROVE  Held(k, q) # Free /\ Held(k, q) # Tool
  <2>1. Held(k, q).by = k BY DEF Held
  <2>2. Free.by = "none" /\ Tool.by = "tool" BY DEF Free, Tool
  <2> QED BY <2>1, <2>2
<1> QED BY <1>1, <1>2

\* A worker keeps its lock, and under it only deliver changes the desktop.
LEMMA CapturedStep ==
  TypeOK /\ Owned /\ Captured /\ StillFrame /\ [Next]_vars => Captured' /\ StillFrame'
<1> DEFINE Works(q) == lease[q] \in {"child", "shot"}
           Goal(q) == /\ Works(q)' => desk'[bot'[q]] = Held("capture", q)
                      /\ Works(q)' => shot'[q] \subseteq {"deliver"}
                      /\ shot'[q] # {} => Works(q)'
<1> SUFFICES ASSUME TypeOK, Owned, Captured, StillFrame, [Next]_vars, NEW q \in Run PROVE Goal(q)
    BY DEF Captured, StillFrame
<1>a. bot' = bot BY BotsStay
<1>b. /\ Works(q) => desk[bot[q]] = Held("capture", q)
      /\ Works(q) => shot[q] \subseteq {"deliver"}
      /\ shot[q] # {} => Works(q)
  BY DEF Captured, StillFrame
\* Another's lock is no worker's, so whoever holds it disturbs none.
<1>c. ASSUME NEW b \in Bot, desk[b] # Held("capture", q), lease' = lease,
             \A c \in Bot \ {b} : desk'[c] = desk[c],
             bot[q] # b => shot'[q] = shot[q],
             ~ Works(q) => shot'[q] = shot[q]
      PROVE  Goal(q)
  <2>1. bot[q] \in Bot BY DEF TypeOK
  <2>2. Works(q) => bot[q] # b BY <1>b, <1>c
  <2>3. shot'[q] = shot[q] /\ (Works(q)' <=> Works(q)) BY <1>c, <2>2
  <2>4. Works(q) => desk'[bot[q]] = desk[bot[q]] BY <1>c, <2>1, <2>2
  <2> QED BY <1>a, <1>b, <2>3, <2>4
<1>0. CASE UNCHANGED vars BY <1>0, <1>a, <1>b DEF vars
<1>1. ASSUME NEW r \in Run, Task(r) \/ Model(r) \/ Stop(r), ~ Store(r) PROVE Goal(q)
  <2>1. UNCHANGED <<desk, shot>>
    BY <1>1 DEF Task, Model, Halt, Ask, Withhold, Dispatch, StopImage, Claim, Admit, LeaveQueue,
       LeaveCapture, Decide, Answer, Close, Fail, Stop
  <2>2. lease' = lease \/ (pc[r] = "claimed" /\ lease' = [lease EXCEPT ![r] = "reserved"])
        \/ (pc[r] \in {"queued", "ensuring"} /\ lease' = [lease EXCEPT ![r] = "no"])
    BY <1>1 DEF Task, Model, Halt, Ask, Withhold, Dispatch, StopImage, Claim, Admit, LeaveQueue,
       LeaveCapture, Decide, Answer, Close, Fail, Stop
  <2>3. CASE lease' = lease BY <1>a, <1>b, <2>1, <2>3
  <2>4. CASE lease' # lease
    <3>1. ~ Works(r) BY <2>2, <2>4 DEF Owned
    <3>2. q = r => ~ Works(q)' BY <2>2, <2>4 DEF TypeOK
    <3>3. q # r => lease'[q] = lease[q] BY <2>2 DEF TypeOK
    <3> QED BY <1>a, <1>b, <2>1, <3>1, <3>2, <3>3
  <2> QED BY <2>3, <2>4
<1>2. ASSUME NEW r \in Run, Store(r) \/ Reap(r) \/ Dispose(r) PROVE Goal(q)
  <2>1. desk[bot[r]] = Held("capture", r) /\ bot[r] \in Bot
    BY <1>2 DEF Store, Reap, Dispose, Captured, TypeOK
  <2>2. /\ lease' = [lease EXCEPT ![r] = "no"] /\ desk' = [desk EXCEPT ![bot[r]] = Free]
        /\ shot' = [shot EXCEPT ![r] = {}]
    BY <1>2 DEF Store, Reap, Dispose, Unlock
  <2>3. CASE q = r BY <2>2, <2>3 DEF TypeOK
  <2>4. CASE q # r
    <3>1. desk[bot[r]] # Held("capture", q) BY <2>1, <2>4, Holders
    <3>2. lease'[q] = lease[q] /\ shot'[q] = shot[q] BY <2>2, <2>4 DEF TypeOK
    <3>3. Works(q) => bot[q] # bot[r] BY <3>1, <1>b
    <3>4. bot[q] # bot[r] => desk'[bot[q]] = desk[bot[q]] BY <2>2 DEF TypeOK
    <3> QED BY <1>a, <1>b, <3>2, <3>3, <3>4
  <2> QED BY <2>3, <2>4
<1>3. ASSUME NEW r \in Run, TakeDesk(r) PROVE Goal(q)
  <2>1. desk[bot[r]] # Held("capture", q) BY <1>3, Holders DEF TakeDesk
  <2>2. lease' = lease /\ shot' = shot /\ \A c \in Bot \ {bot[r]} : desk'[c] = desk[c]
    BY <1>3 DEF TakeDesk, TypeOK
  <2> QED BY <2>1, <2>2, <1>c DEF TypeOK
<1>4. ASSUME NEW r \in Run, NEW id \in 0..MaxAttempts, NEW fits \in BOOLEAN, Consume(r, id, fits)
      PROVE  Goal(q)
  <2>1. desk[bot[r]] # Held("capture", q) BY <1>4, Holders DEF Consume
  <2>2. lease' = lease /\ \A c \in Bot \ {bot[r]} : desk'[c] = desk[c]
    BY <1>4 DEF Consume, TypeOK
  <2>3. CASE \E aims : Mutate(bot[r], 1, 0, aims)
    BY <2>1, <2>2, <2>3, <1>c, MutateReaches DEF TypeOK
  <2>4. CASE ~ \E aims : Mutate(bot[r], 1, 0, aims)
    BY <1>4, <2>1, <2>2, <2>4, <1>c DEF Consume, TypeOK
  <2> QED BY <2>3, <2>4
<1>5. ASSUME NEW r \in Run, Ensured(r) PROVE Goal(q)
  <2>1. desk[bot[r]] = Held("ensure", r) /\ bot[r] \in Bot /\ Ensure(bot[r], 0, aim)
    BY <1>5 DEF Ensured, TypeOK
  <2>2. desk[bot[r]] # Held("capture", q) BY <2>1, Holders
  <2>3. \A c \in Bot \ {bot[r]} : desk'[c] = desk[c]
    BY <1>5, <2>1 DEF Ensured, Unlock, TypeOK
  <2>4. /\ bot[q] # bot[r] => shot'[q] = shot[q]
        /\ ~ Works(q) => shot'[q] = shot[q]
    BY <2>1, EnsureLeaves
  <2>5. CASE lease' = lease BY <2>1, <2>2, <2>3, <2>4, <2>5, <1>c
  <2>6. CASE lease' # lease
    <3>1. desk[bot[r]] # Held("capture", r) BY <2>1, Holders
    <3>2. ~ Works(r) BY <3>1 DEF Captured
    <3>3. \/ lease' = [lease EXCEPT ![r] = "no"]
          \/ /\ lease' = [lease EXCEPT ![r] = "child"]
             /\ desk' = [desk EXCEPT ![bot[r]] = Held("capture", r)]
      BY <1>5, <2>6 DEF Ensured
    <3>4. CASE q = r
      <4>1. shot'[q] = {} BY <1>b, <2>4, <3>2, <3>4
      <4>2. Works(q)' => desk'[bot[q]] = Held("capture", q) BY <2>1, <3>3, <3>4 DEF TypeOK
      <4> QED BY <1>a, <4>1, <4>2
    <3>5. CASE q # r
      <4>1. lease'[q] = lease[q] BY <3>3, <3>5 DEF TypeOK
      <4>2. Works(q) => bot[q] # bot[r] BY <1>b, <2>2
      <4>3. bot[q] \in Bot BY DEF TypeOK
      <4>4. Works(q) => desk'[bot[q]] = desk[bot[q]] BY <2>3, <4>2, <4>3
      <4> QED BY <1>a, <1>b, <2>4, <4>1, <4>2, <4>4
    <3> QED BY <3>4, <3>5
  <2> QED BY <2>5, <2>6
<1>6. ASSUME NEW r \in Run, Shoot(r) PROVE Goal(q)
  BY <1>6, <1>a, <1>b DEF Shoot, TypeOK
<1>7. ASSUME NEW r \in Run, Act(r) PROVE Goal(q)
  <2>1. desk[bot[r]] # Held("capture", q) /\ bot[r] \in Bot BY <1>7, Holders DEF Act, TypeOK
  <2>2. /\ bot[q] # bot[r] => shot'[q] = shot[q]
        /\ ~ Works(q) => shot'[q] = shot[q]
    <3>1. (\E aims : Ensure(bot[r], 0, aims)) \/ (\E aims : Mutate(bot[r], 0, 1, aims))
      BY <1>7 DEF Act
    <3> QED BY <2>1, <3>1, EnsureLeaves, MutateReaches
  <2>3. lease' = lease /\ \A c \in Bot \ {bot[r]} : desk'[c] = desk[c]
    BY <1>7 DEF Act, Unlock, TypeOK
  <2> QED BY <2>1, <2>2, <2>3, <1>c
<1>8. ASSUME NEW b \in Bot, ToolTakes(b) \/ Die(b) PROVE Goal(q)
  <2>1. CASE Die(b) BY <2>1, <1>a, <1>b DEF Die
  <2>2. CASE ToolTakes(b)
    <3>1. desk[b] # Held("capture", q) BY <2>2, Holders DEF ToolTakes
    <3>2. lease' = lease /\ shot' = shot /\ \A c \in Bot \ {b} : desk'[c] = desk[c]
      BY <2>2 DEF ToolTakes, TypeOK
    <3> QED BY <3>1, <3>2, <1>c
  <2> QED BY <1>8, <2>1, <2>2
<1>9. ASSUME NEW b \in Bot, OtherTool(b) PROVE Goal(q)
  <2>1. desk[b] # Held("capture", q)
    BY <1>9, Holders DEF OtherTool, ToolRuns, ToolDies, Hibernate, Refresh
  <2>2. lease' = lease /\ \A c \in Bot \ {b} : desk'[c] = desk[c]
    BY <1>9 DEF OtherTool, ToolRuns, ToolDies, Hibernate, Refresh, Unlock, TypeOK
  <2>3. /\ bot[q] # b => shot'[q] = shot[q]
        /\ ~ Works(q) => shot'[q] = shot[q]
    <3>1. CASE ToolRuns(b)
      <4>1. PICK extra \in {0, 1} : Ensure(b, extra, aim) BY <3>1 DEF ToolRuns
      <4> QED BY <4>1, EnsureLeaves
    <3>2. CASE ToolDies(b)
      <4>1. Changed(b, 1, "others", Invalidated(b), aim) BY <3>2 DEF ToolDies
      <4> QED BY <4>1, ChangedLeaves
    <3>3. CASE Hibernate(b) \/ Refresh(b)
      <4>1. Mutate(b, 1, 1, aim) BY <3>3 DEF Hibernate, Refresh
      <4> QED BY <4>1, MutateReaches
    <3> QED BY <1>9, <3>1, <3>2, <3>3 DEF OtherTool
  <2> QED BY <2>1, <2>2, <2>3, <1>c
<1>10. ASSUME NEW b \in Bot, Deliver(b) PROVE Goal(q)
  <2>1. Changed(b, 1, "deliver", frame, aim) /\ lease' = lease /\ desk' = desk
    BY <1>10 DEF Deliver
  <2>2. /\ ~ Works(q) => shot'[q] = shot[q]
        /\ shot'[q] = shot[q] \/ shot'[q] = shot[q] \cup {"deliver"}
    BY <2>1, ChangedLeaves
  <2> QED BY <1>a, <1>b, <2>1, <2>2
<1> QED
  BY <1>0, <1>1, <1>2, <1>3, <1>4, <1>5, <1>6, <1>7, <1>8, <1>9, <1>10
  DEF Next, RunStep, Task, Model, Locking, Worker

\* An action consumes its frame together with all others of the desktop, and
\* keeps the lock until it has acted: what it aims at is what is there.
LEMMA AimingStep == TypeOK /\ Captured /\ Current /\ Aiming /\ [Next]_vars => Aiming'
<1> DEFINE Goal(q) ==
      /\ aim'[q].since \subseteq {"deliver"}
      /\ \A p \in Run : bot'[p] = bot'[q] => frame'[p] = None
<1> SUFFICES ASSUME TypeOK, Captured, Current, Aiming, [Next]_vars,
                    NEW q \in Run, desk'[bot'[q]] = Held("act", q)
             PROVE  Goal(q)
    BY DEF Aiming
<1>a. bot' = bot BY BotsStay
<1>b. /\ bot[q] \in Bot /\ desk'[bot[q]] = Held("act", q)
      /\ desk[bot[q]] = Held("act", q) =>
           aim[q].since \subseteq {"deliver"} /\ \A p \in Run : bot[p] = bot[q] => frame[p] = None
  BY <1>a DEF Aiming, TypeOK
\* What happens at another desktop does not matter.
<1>c. ASSUME desk'[bot[q]] = desk[bot[q]], aim'[q] = aim[q],
             \A p \in Run : bot[p] = bot[q] => frame'[p] = frame[p] \/ frame'[p] = None
      PROVE  Goal(q)
  BY <1>a, <1>b, <1>c
<1>0. CASE UNCHANGED vars BY <1>0, <1>c DEF vars, machine
<1>1. ASSUME NEW r \in Run, Task(r) \/ Model(r) \/ Stop(r), ~ Store(r), ~ Answer(r) PROVE Goal(q)
  <2>1. UNCHANGED <<machine, desk, aim>>
    BY <1>1 DEF Task, Model, Halt, Ask, Withhold, Dispatch, StopImage, Claim, Admit, LeaveQueue,
       LeaveCapture, Decide, Close, Fail, Stop
  <2>2. frame' = frame \/ frame' = [frame EXCEPT ![r] = None]
    BY <1>1 DEF Task, Model, Halt, Ask, Withhold, Dispatch, StopImage, Claim, Admit, LeaveQueue,
       LeaveCapture, Decide, Close, Fail, Stop, End
  <2>3. \A p \in Run : frame'[p] = frame[p] \/ frame'[p] = None BY <2>2 DEF TypeOK
  <2> QED BY <2>1, <2>3, <1>c DEF machine
<1>2. ASSUME NEW r \in Run, Answer(r) PROVE Goal(q)
  <2>1. UNCHANGED <<machine, desk, aim>> BY <1>2 DEF Answer
  <2>2. \A p \in Run : frame[p] = None => frame'[p] = None BY <1>2 DEF Answer, Delivered, TypeOK
  <2> QED BY <1>a, <1>b, <2>1, <2>2 DEF machine
<1>3. ASSUME NEW r \in Run, Store(r) PROVE Goal(q)
  <2>1. bot[r] # bot[q] BY <1>3, <1>b, Holders DEF Store, Unlock, TypeOK
  <2>2. \A p \in Run : bot[p] = bot[q] => frame'[p] = frame[p] BY <1>3, <2>1 DEF Store, TypeOK
  <2> QED BY <1>3, <2>1, <2>2, <1>c DEF Store, Unlock, machine, TypeOK
<1>4. ASSUME NEW r \in Run, Shoot(r) \/ Reap(r) \/ Dispose(r) PROVE Goal(q)
  <2>1. UNCHANGED <<machine, frame, aim>> BY <1>4 DEF Shoot, Reap, Dispose
  <2>2. CASE Shoot(r) BY <2>1, <2>2, <1>c DEF Shoot, machine
  <2>3. CASE Reap(r) \/ Dispose(r)
    <3>1. desk' = [desk EXCEPT ![bot[r]] = Free] BY <2>3 DEF Reap, Dispose, Unlock
    <3>2. bot[r] # bot[q] BY <3>1, <1>b, Holders DEF TypeOK
    <3> QED BY <2>1, <3>1, <3>2, <1>c DEF machine, TypeOK
  <2> QED BY <1>4, <2>2, <2>3
<1>5. ASSUME NEW r \in Run, TakeDesk(r) PROVE Goal(q)
  <2>1. bot[r] # bot[q] BY <1>5, <1>b, Holders DEF TakeDesk, TypeOK
  <2> QED BY <1>5, <2>1, <1>c DEF TakeDesk, machine, TypeOK
<1>6. ASSUME NEW r \in Run, NEW id \in 0..MaxAttempts, NEW fits \in BOOLEAN, Consume(r, id, fits)
      PROVE  Goal(q)
  <2>1. CASE desk' = desk
    <3>1. desk'[bot[r]] # Held("act", r) BY <1>6, <2>1, Holders DEF Consume
    <3>2. UNCHANGED aim /\ (frame' = frame \/ frame' = [frame EXCEPT ![r] = None])
      BY <1>6, <3>1 DEF Consume, TypeOK
    <3>3. \A p \in Run : frame'[p] = frame[p] \/ frame'[p] = None BY <3>2 DEF TypeOK
    <3> QED BY <2>1, <3>2, <3>3, <1>c
  <2>2. CASE desk' # desk
    <3> DEFINE taken == [aim EXCEPT ![r] = [gen |-> gen[bot[r]] + 1, since |-> frame[r].since]]
    <3>1. /\ desk' = [desk EXCEPT ![bot[r]] = Held("act", r)] /\ Mutate(bot[r], 1, 0, taken)
          /\ frame[r] # None
      BY <1>6, <2>2 DEF Consume
    <3>2. aim' = taken /\ frame' = Invalidated(bot[r])
      <4>1. \A p \in Run : aim'[p] = taken[p] /\ frame'[p] = Invalidated(bot[r])[p]
        BY <3>1 DEF Mutate, Changed, After
      <4>2. aim' = [p \in Run |-> aim'[p]] /\ frame' = [p \in Run |-> frame'[p]]
        BY <3>1 DEF Mutate, Changed, After
      <4>3. taken = [p \in Run |-> taken[p]]
            /\ Invalidated(bot[r]) = [p \in Run |-> Invalidated(bot[r])[p]]
        BY DEF TypeOK, Invalidated
      <4> QED BY <4>1, <4>2, <4>3
    <3>3. CASE q = r
      <4>1. aim'[q].since = frame[q].since BY <3>2, <3>3 DEF TypeOK
      <4>2. frame[q].since \subseteq {"deliver"} BY <3>1, <3>3 DEF Current
      <4>3. \A p \in Run : bot[p] = bot[q] => frame'[p] = None
        BY <3>2, <3>3 DEF Invalidated
      <4> QED BY <1>a, <4>1, <4>2, <4>3
    <3>4. CASE q # r
      <4>1. bot[q] # bot[r] BY <1>b, <3>1, <3>4, Holders DEF TypeOK
      <4>2. \A p \in Run : bot[p] = bot[q] => frame'[p] = frame[p]
        BY <3>2, <4>1 DEF Invalidated
      <4>3. aim'[q] = aim[q] /\ desk'[bot[q]] = desk[bot[q]] BY <3>1, <3>2, <3>4, <4>1 DEF TypeOK
      <4> QED BY <4>2, <4>3, <1>c
    <3> QED BY <3>3, <3>4
  <2> QED BY <2>1, <2>2
<1>7. ASSUME NEW r \in Run, Ensured(r) PROVE Goal(q)
  <2>1. bot[r] \in Bot /\ Ensure(bot[r], 0, aim) BY <1>7 DEF Ensured, TypeOK
  <2>2. desk' = [desk EXCEPT ![bot[r]] = Free] \/ desk' = [desk EXCEPT ![bot[r]] = Held("capture", r)]
    BY <1>7 DEF Ensured, Unlock
  <2>3. bot[r] # bot[q] BY <2>1, <2>2, <1>b, Holders DEF TypeOK
  <2>4. desk'[bot[q]] = desk[bot[q]] BY <2>2, <2>3 DEF TypeOK
  <2> QED BY <2>1, <2>3, <2>4, <1>c, EnsureLeaves
<1>8. ASSUME NEW r \in Run, Act(r) PROVE Goal(q)
  <2> DEFINE others == [aim EXCEPT ![r] = None]
  <2>1. desk' = [desk EXCEPT ![bot[r]] = Free] /\ bot[r] \in Bot
    BY <1>8 DEF Act, Unlock, TypeOK
  <2>2. bot[r] # bot[q] BY <2>1, <1>b, Holders DEF TypeOK
  <2>3. desk'[bot[q]] = desk[bot[q]] /\ others[q] = aim[q] BY <2>1, <2>2 DEF TypeOK
  <2>4. Ensure(bot[r], 0, others) \/ Mutate(bot[r], 0, 1, others) BY <1>8 DEF Act
  <2> HIDE DEF others
  <2>5. \A p \in Run : bot[p] # bot[r] => frame'[p] = frame[p] /\ aim'[p] = others[p]
    BY <2>1, <2>4, EnsureLeaves, MutateReaches
  <2> QED BY <2>2, <2>3, <2>5, <1>c
<1>9. ASSUME NEW b \in Bot, ToolTakes(b) \/ Die(b) PROVE Goal(q)
  <2>1. CASE Die(b) BY <2>1, <1>c DEF Die
  <2>2. CASE ToolTakes(b)
    <3>1. b # bot[q] BY <2>2, <1>b, Holders DEF ToolTakes, TypeOK
    <3> QED BY <2>2, <3>1, <1>c DEF ToolTakes, machine, TypeOK
  <2> QED BY <1>9, <2>1, <2>2
<1>10. ASSUME NEW b \in Bot, OtherTool(b) PROVE Goal(q)
  <2>1. desk' = [desk EXCEPT ![b] = Free]
    BY <1>10 DEF OtherTool, ToolRuns, ToolDies, Hibernate, Refresh, Unlock
  <2>2. b # bot[q] BY <2>1, <1>b, Holders DEF TypeOK
  <2>3. desk'[bot[q]] = desk[bot[q]] BY <2>1, <2>2 DEF TypeOK
  <2>4. \A p \in Run : bot[p] # b => frame'[p] = frame[p] /\ aim'[p] = aim[p]
    <3>1. CASE ToolRuns(b)
      <4>1. PICK extra \in {0, 1} : Ensure(b, extra, aim) BY <3>1 DEF ToolRuns
      <4> QED BY <4>1, EnsureLeaves
    <3>2. CASE ToolDies(b)
      <4>1. Changed(b, 1, "others", Invalidated(b), aim) BY <3>2 DEF ToolDies
      <4>2. \A p \in Run : bot[p] # b => Invalidated(b)[p] = frame[p] BY DEF Invalidated
      <4> QED BY <4>1, <4>2, ChangedLeaves
    <3>3. CASE Hibernate(b) \/ Refresh(b)
      <4>1. Mutate(b, 1, 1, aim) BY <3>3 DEF Hibernate, Refresh
      <4> QED BY <4>1, MutateReaches
    <3> QED BY <1>10, <3>1, <3>2, <3>3 DEF OtherTool
  <2> QED BY <2>2, <2>3, <2>4, <1>c
<1>11. ASSUME NEW b \in Bot, Deliver(b) PROVE Goal(q)
  <2>1. Changed(b, 1, "deliver", frame, aim) /\ desk' = desk BY <1>11 DEF Deliver
  <2>2. \A p \in Run : frame[p] = None => frame'[p] = None BY <2>1, ChangedLeaves
  <2>3. CASE aim[q] \in Aim
    <3>1. aim'[q].since \subseteq aim[q].since \cup {"deliver"} BY <2>1, <2>3, ChangedPictures
    <3> QED BY <1>a, <1>b, <2>1, <2>2, <3>1
  <2>4. CASE aim[q] \notin Aim
    <3>1. aim[q] = None BY <2>4 DEF TypeOK
    <3>2. aim'[q] = None BY <2>1, <3>1, ChangedLeaves
    <3> QED BY <1>a, <1>b, <2>1, <2>2, <3>1, <3>2
  <2> QED BY <2>3, <2>4
<1> QED
  BY <1>0, <1>1, <1>2, <1>3, <1>4, <1>5, <1>6, <1>7, <1>8, <1>9, <1>10, <1>11
  DEF Next, RunStep, Task, Model, Locking, Worker

\* A frame is at most lost, and keeps or loses its bytes with it.
Fades(q) ==
  /\ frame[q] = None => frame'[q] = None
  /\ frame'[q] # None => frame'[q].bytes = frame[q].bytes

\* A step at a desktop takes no frame of it and no bytes of one.
LEMMA Pictures ==
  ASSUME TypeOK, NEW q \in Run
  PROVE  /\ \A r \in Run : Ensured(r) \/ Act(r) => Fades(q)
         /\ \A r \in Run, id \in 0..MaxAttempts, fits \in BOOLEAN : Consume(r, id, fits) => Fades(q)
         /\ \A b \in Bot : OtherTool(b) \/ Deliver(b) => Fades(q)
<1>1. ASSUME NEW b \in Bot, NEW n \in Nat, NEW who, NEW aims, NEW frames,
             Changed(b, n, who, frames, aims), frames[q] = None \/ frames[q] = frame[q]
      PROVE  Fades(q)
  <2>1. frames[q] = None => frame'[q] = None BY <1>1, ChangedLeaves
  <2>2. frames[q] # None => frames[q] \in Frame BY <1>1 DEF TypeOK
  <2>3. frames[q] # None => frame'[q].bytes = frames[q].bytes BY <1>1, <2>2, ChangedPictures
  <2> QED BY <1>1, <2>1, <2>3 DEF Fades
<1>2. ASSUME NEW b \in Bot, NEW n \in Nat, NEW m \in Nat, NEW aims, Mutate(b, n, m, aims) PROVE Fades(q)
  <2> DEFINE frames == IF n = 0 THEN frame ELSE Invalidated(b)
  <2>1. Changed(b, m, "others", frames, aims) BY <1>2 DEF Mutate
  <2>2. frames[q] = None \/ frames[q] = frame[q] BY DEF Invalidated
  <2> HIDE DEF frames
  <2> QED BY <2>1, <2>2, <1>1
<1>3. ASSUME NEW b \in Bot, NEW n \in Nat, NEW aims, Ensure(b, n, aims) PROVE Fades(q)
  <2>1. PICK k \in Nat : Mutate(b, k, k, aims) BY <1>3, EnsureMutates
  <2> QED BY <2>1, <1>2
<1>4. ASSUME NEW r \in Run, Ensured(r) \/ Act(r) PROVE Fades(q)
  <2>1. bot[r] \in Bot BY DEF TypeOK
  <2>2. (\E aims : Ensure(bot[r], 0, aims)) \/ (\E aims : Mutate(bot[r], 0, 1, aims))
    BY <1>4 DEF Ensured, Act
  <2> QED BY <2>1, <2>2, <1>2, <1>3
<1>5. ASSUME NEW r \in Run, NEW id \in 0..MaxAttempts, NEW fits \in BOOLEAN, Consume(r, id, fits)
      PROVE  Fades(q)
  <2>1. bot[r] \in Bot BY DEF TypeOK
  <2>2. CASE \E aims : Mutate(bot[r], 1, 0, aims)
    <3> QED BY <2>1, <2>2, <1>2
  <2>3. CASE ~ \E aims : Mutate(bot[r], 1, 0, aims)
    BY <1>5, <2>3 DEF Consume, TypeOK, Fades
  <2> QED BY <2>2, <2>3
<1>6. ASSUME NEW b \in Bot, OtherTool(b) \/ Deliver(b) PROVE Fades(q)
  <2>1. \/ \E extra \in {0, 1} : Ensure(b, extra, aim)
        \/ Mutate(b, 1, 1, aim)
        \/ Changed(b, 1, "others", Invalidated(b), aim)
        \/ Changed(b, 1, "deliver", frame, aim)
    BY <1>6 DEF OtherTool, ToolRuns, ToolDies, Hibernate, Refresh, Deliver
  <2>2. Invalidated(b)[q] = None \/ Invalidated(b)[q] = frame[q] BY DEF Invalidated
  <2>3. ASSUME Mutate(b, 1, 1, aim) PROVE Fades(q) BY <2>3, <1>2
  <2>4. ASSUME NEW extra \in {0, 1}, Ensure(b, extra, aim) PROVE Fades(q) BY <2>4, <1>3
  <2>5. ASSUME Changed(b, 1, "others", Invalidated(b), aim) PROVE Fades(q) BY <2>2, <2>5, <1>1
  <2>6. ASSUME Changed(b, 1, "deliver", frame, aim) PROVE Fades(q) BY <2>6, <1>1
  <2> QED BY <2>1, <2>3, <2>4, <2>5, <2>6
<1> QED BY <1>4, <1>5, <1>6

\* What a turn owns it lets go where it leaves.
LEMMA OwnedStep == TypeOK /\ Owned /\ [Next]_vars => Owned'
<1> DEFINE Goal(q) ==
      /\ hand'[q] = "pending" => pc'[q] = "step"
      /\ hand'[q] = "sent" => pc'[q] = "model"
      /\ lease'[q] = "reserved" <=> pc'[q] \in {"queued", "ensuring"}
      /\ lease'[q] \in {"child", "shot"} =>
           pc'[q] \in {"capturing", "over"} \/ (pc'[q] = "step" /\ q \in stop')
      /\ aim'[q] # None => pc'[q] = "acting"
<1> SUFFICES ASSUME TypeOK, Owned, [Next]_vars, NEW q \in Run PROVE Goal(q)
    BY DEF Owned
<1>b. /\ hand[q] = "pending" => pc[q] = "step"
      /\ hand[q] = "sent" => pc[q] = "model"
      /\ lease[q] = "reserved" <=> pc[q] \in {"queued", "ensuring"}
      /\ lease[q] \in {"child", "shot"} =>
           pc[q] \in {"capturing", "over"} \/ (pc[q] = "step" /\ q \in stop)
      /\ aim[q] # None => pc[q] = "acting"
      /\ hand[q] \in {"no", "pending", "sent"} /\ pc[q] \in PC
      /\ lease[q] \in {"no", "reserved", "child", "shot"}
  BY DEF Owned, TypeOK
<1>0. CASE UNCHANGED vars BY <1>0, <1>b DEF vars, run
<1>1. ASSUME NEW r \in Run, Halt(r) \/ StopImage(r) \/ Ask(r) \/ Withhold(r) \/ Dispatch(r) PROVE Goal(q)
  BY <1>1, <1>b DEF Halt, StopImage, End, Ask, Withhold, Dispatch, Go, run, TypeOK
<1>2. ASSUME NEW r \in Run, Claim(r) \/ Admit(r) \/ LeaveQueue(r) \/ LeaveCapture(r) PROVE Goal(q)
  BY <1>2, <1>b DEF Claim, Admit, LeaveQueue, LeaveCapture, Go, run, TypeOK
<1>3. ASSUME NEW r \in Run, Store(r) \/ Decide(r) PROVE Goal(q)
  BY <1>3, <1>b DEF Store, Decide, End, Go, run, TypeOK
<1>4. ASSUME NEW r \in Run, Model(r) PROVE Goal(q)
  BY <1>4, <1>b DEF Model, Answer, Delivered, Close, Fail, End, Go, run, TypeOK
<1>5. ASSUME NEW r \in Run, TakeDesk(r) \/ Stop(r) PROVE Goal(q)
  BY <1>5, <1>b DEF TakeDesk, Stop, Go, run, TypeOK
<1>6. ASSUME NEW r \in Run, NEW id \in 0..MaxAttempts, NEW fits \in BOOLEAN, Consume(r, id, fits)
      PROVE  Goal(q)
  <2> DEFINE taken == [aim EXCEPT ![r] = [gen |-> gen[bot[r]] + 1, since |-> frame[r].since]]
  <2>1. aim'[q] # None => aim[q] # None \/ (q = r /\ pc'[q] = "acting")
    <3>1. CASE Mutate(bot[r], 1, 0, taken) /\ pc' = [pc EXCEPT ![r] = "acting"]
      <4>1. q # r => taken[q] = aim[q] BY DEF TypeOK
      <4>2. q = r => pc'[q] = "acting" BY <3>1 DEF TypeOK
      <4> HIDE DEF taken
      <4>3. taken[q] = None => aim'[q] = None BY <3>1, MutateReaches
      <4> QED BY <4>1, <4>2, <4>3
    <3>2. CASE ~ (Mutate(bot[r], 1, 0, taken) /\ pc' = [pc EXCEPT ![r] = "acting"])
      BY <1>6, <3>2 DEF Consume, Go
    <3> QED BY <3>1, <3>2
  <2>2. /\ UNCHANGED <<hand, lease, stop>> /\ pc[r] = "act"
        /\ pc' = [pc EXCEPT ![r] = "step"] \/ pc' = [pc EXCEPT ![r] = "acting"]
    BY <1>6 DEF Consume, Go, run
  <2> QED BY <2>1, <2>2, <1>b DEF TypeOK
<1>7. ASSUME NEW r \in Run, Ensured(r) PROVE Goal(q)
  <2>1. Ensure(bot[r], 0, aim) /\ bot[r] \in Bot BY <1>7 DEF Ensured, TypeOK
  <2>2. aim[q] = None => aim'[q] = None BY <2>1, EnsureLeaves
  <2> QED BY <1>7, <1>b, <2>2 DEF Ensured, Go, run, TypeOK
<1>8. ASSUME NEW r \in Run, Shoot(r) \/ Reap(r) \/ Dispose(r) PROVE Goal(q)
  BY <1>8, <1>b DEF Shoot, Reap, Dispose, Go, run, TypeOK
<1>9. ASSUME NEW r \in Run, Act(r) PROVE Goal(q)
  <2> DEFINE others == [aim EXCEPT ![r] = None]
  <2>1. bot[r] \in Bot /\ others[r] = None /\ (aim[q] = None => others[q] = None) BY DEF TypeOK
  <2>2. Ensure(bot[r], 0, others) \/ Mutate(bot[r], 0, 1, others) BY <1>9 DEF Act
  <2> HIDE DEF others
  <2>3. others[q] = None => aim'[q] = None BY <2>1, <2>2, EnsureLeaves, MutateReaches
  <2>4. UNCHANGED <<hand, lease, stop>> /\ pc[r] = "acting" /\ pc' = [pc EXCEPT ![r] = "step"]
    BY <1>9 DEF Act, Go, run
  <2> QED BY <2>1, <2>3, <2>4, <1>b DEF TypeOK
<1>10. ASSUME NEW b \in Bot, ToolTakes(b) \/ Die(b) PROVE Goal(q)
  BY <1>10, <1>b DEF ToolTakes, Die, run
<1>11. ASSUME NEW b \in Bot, OtherTool(b) \/ Deliver(b) PROVE Goal(q)
  <2>1. aim[q] = None => aim'[q] = None
    <3>1. \/ \E extra \in {0, 1} : Ensure(b, extra, aim)
          \/ Mutate(b, 1, 1, aim)
          \/ Changed(b, 1, "others", Invalidated(b), aim)
          \/ Changed(b, 1, "deliver", frame, aim)
      BY <1>11 DEF OtherTool, ToolRuns, ToolDies, Hibernate, Refresh, Deliver
    <3> QED BY <3>1, EnsureLeaves, MutateReaches, ChangedLeaves
  <2>2. UNCHANGED <<pc, run, hand, lease>>
    BY <1>11 DEF OtherTool, ToolRuns, ToolDies, Hibernate, Refresh, Deliver
  <2> QED BY <2>1, <2>2, <1>b DEF run
<1> QED
  BY <1>0, <1>1, <1>2, <1>3, <1>4, <1>5, <1>6, <1>7, <1>8, <1>9, <1>10, <1>11
  DEF Next, RunStep, Task, Model, Locking, Worker

\* Steps that change a desktop but no turn's image keep what is owed.
LEMMA PixelsStep == TypeOK /\ Owned /\ PixelsAreOwed /\ [Next]_vars => PixelsAreOwed'
<1> DEFINE Goal(q) == frame'[q] # None /\ frame'[q].bytes => hand'[q] # "no"
<1> SUFFICES ASSUME TypeOK, Owned, PixelsAreOwed, [Next]_vars, NEW q \in Run PROVE Goal(q)
    BY DEF PixelsAreOwed
<1>b. /\ frame[q] # None /\ frame[q].bytes => hand[q] # "no"
      /\ hand[q] = "pending" => pc[q] = "step"
      /\ hand[q] \in {"no", "pending", "sent"}
  BY DEF Owned, PixelsAreOwed, TypeOK
<1>c. ASSUME frame'[q] = frame[q] \/ frame'[q] = None, hand'[q] = hand[q] PROVE Goal(q)
  BY <1>b, <1>c
<1>0. CASE UNCHANGED vars BY <1>0, <1>c DEF vars
<1>1. ASSUME NEW r \in Run, Halt(r) \/ StopImage(r) \/ Ask(r) \/ Withhold(r) \/ Dispatch(r) PROVE Goal(q)
  BY <1>1, <1>b DEF Halt, StopImage, End, Ask, Withhold, Dispatch, TypeOK
<1>2. ASSUME NEW r \in Run, Claim(r) \/ Admit(r) \/ LeaveQueue(r) \/ LeaveCapture(r) PROVE Goal(q)
  BY <1>2, <1>c DEF Claim, Admit, LeaveQueue, LeaveCapture
<1>3. ASSUME NEW r \in Run, Store(r) \/ Decide(r) PROVE Goal(q)
  BY <1>3, <1>b DEF Store, Decide, End, TypeOK
<1>4. ASSUME NEW r \in Run, Answer(r) PROVE Goal(q)
  <2>1. CASE q = r
    <3>1. CASE frame' = frame
      BY <1>4, <1>b, <2>1, <3>1 DEF Answer, Delivered, TypeOK
    <3>2. CASE frame' # frame
      <4>1. frame[r] # None /\ frame' = [frame EXCEPT ![r].bytes = FALSE]
        BY <1>4, <3>2 DEF Answer, Delivered
      <4>2. frame[r] \in Frame BY <4>1 DEF TypeOK
      <4>3. frame'[r] = [frame[r] EXCEPT !.bytes = FALSE] BY <4>1 DEF TypeOK
      <4>4. frame'[r].bytes = FALSE BY <4>2, <4>3 DEF Frame
      <4> QED BY <2>1, <4>4
    <3> QED BY <3>1, <3>2
  <2>2. CASE q # r BY <1>4, <1>c, <2>2 DEF Answer, Delivered, TypeOK
  <2> QED BY <2>1, <2>2
<1>5. ASSUME NEW r \in Run, Close(r) \/ Fail(r) PROVE Goal(q)
  BY <1>5, <1>b DEF Close, Fail, End, TypeOK
<1>6. ASSUME NEW r \in Run, TakeDesk(r) \/ Stop(r) PROVE Goal(q)
  BY <1>6, <1>c DEF TakeDesk, Stop
<1>7. ASSUME NEW r \in Run, NEW id \in 0..MaxAttempts, NEW fits \in BOOLEAN, Consume(r, id, fits)
      PROVE  Goal(q)
  <2>1. /\ frame[q] = None => frame'[q] = None
        /\ frame'[q] # None => frame'[q].bytes = frame[q].bytes
    BY <1>7, Pictures DEF Fades
  <2> QED BY <1>7, <1>b, <2>1 DEF Consume
<1>8. ASSUME NEW r \in Run, Shoot(r) \/ Reap(r) \/ Dispose(r) PROVE Goal(q)
  BY <1>8, <1>c DEF Shoot, Reap, Dispose
<1>9. ASSUME NEW r \in Run, Ensured(r) \/ Act(r) PROVE Goal(q)
  <2>1. /\ frame[q] = None => frame'[q] = None
        /\ frame'[q] # None => frame'[q].bytes = frame[q].bytes
    BY <1>9, Pictures DEF Fades
  <2> QED BY <1>9, <1>b, <2>1 DEF Ensured, Act
<1>10. ASSUME NEW b \in Bot, ToolTakes(b) \/ Die(b) PROVE Goal(q)
  BY <1>10, <1>c DEF ToolTakes, Die
<1>11. ASSUME NEW b \in Bot, OtherTool(b) \/ Deliver(b) PROVE Goal(q)
  <2>1. /\ frame[q] = None => frame'[q] = None
        /\ frame'[q] # None => frame'[q].bytes = frame[q].bytes
    BY <1>11, Pictures DEF Fades
  <2> QED BY <1>11, <1>b, <2>1 DEF OtherTool, ToolRuns, ToolDies, Hibernate, Refresh, Deliver
<1> QED
  BY <1>0, <1>1, <1>2, <1>3, <1>4, <1>5, <1>6, <1>7, <1>8, <1>9, <1>10, <1>11
  DEF Next, RunStep, Task, Model, Locking, Worker

\* The frame of a run that is over is gone, and nobody stores one or stops it.
LEMMA EndedStep ==
  TypeOK /\ EndedHoldsNothing /\ [Next]_vars /\ TypeOK' /\ Owned' /\ Captured' => EndedHoldsNothing'
<1> DEFINE Goal(q) == pc'[q] = "over" => frame'[q] = None /\ q \notin stop'
<1> SUFFICES ASSUME TypeOK, EndedHoldsNothing, [Next]_vars, TypeOK', Owned', Captured', NEW q \in Run
             PROVE  Goal(q)
    BY DEF EndedHoldsNothing, TypeOK, Owned, Captured
<1>b. pc[q] = "over" => frame[q] = None /\ q \notin stop BY DEF EndedHoldsNothing
<1>c. ASSUME pc'[q] = pc[q], stop' = stop, frame[q] = None => frame'[q] = None PROVE Goal(q)
  BY <1>b, <1>c
<1>0. CASE UNCHANGED vars BY <1>0, <1>c DEF vars, run
<1>1. ASSUME NEW r \in Run, Halt(r) \/ StopImage(r) \/ Ask(r) \/ Withhold(r) \/ Dispatch(r) PROVE Goal(q)
  BY <1>1, <1>b DEF Halt, StopImage, End, Ask, Withhold, Dispatch, Go, run, TypeOK
<1>2. ASSUME NEW r \in Run, Claim(r) \/ Admit(r) \/ LeaveQueue(r) \/ LeaveCapture(r) PROVE Goal(q)
  BY <1>2, <1>b DEF Claim, Admit, LeaveQueue, LeaveCapture, Go, run, TypeOK
<1>3. ASSUME NEW r \in Run, Store(r) \/ Decide(r) PROVE Goal(q)
  BY <1>3, <1>b DEF Store, Decide, End, Go, run, TypeOK
<1>4. ASSUME NEW r \in Run, Model(r) PROVE Goal(q)
  BY <1>4, <1>b DEF Model, Answer, Delivered, Close, Fail, End, Go, run, TypeOK
<1>5. ASSUME NEW r \in Run, TakeDesk(r) \/ Stop(r) PROVE Goal(q)
  BY <1>5, <1>b DEF TakeDesk, Stop, Go, run, TypeOK
<1>6. ASSUME NEW r \in Run, NEW id \in 0..MaxAttempts, NEW fits \in BOOLEAN, Consume(r, id, fits)
      PROVE  Goal(q)
  <2>1. frame[q] = None => frame'[q] = None BY <1>6, Pictures DEF Fades
  <2> QED BY <1>6, <1>b, <2>1 DEF Consume, Go, run, TypeOK
<1>7. ASSUME NEW r \in Run, Ensured(r) \/ Act(r) PROVE Goal(q)
  <2>1. frame[q] = None => frame'[q] = None BY <1>7, Pictures DEF Fades
  <2> QED BY <1>7, <1>b, <2>1 DEF Ensured, Act, Go, run, TypeOK
<1>8. ASSUME NEW r \in Run, Shoot(r) \/ Reap(r) \/ Dispose(r) PROVE Goal(q)
  BY <1>8, <1>b DEF Shoot, Reap, Dispose, Go, run, TypeOK
<1>9. ASSUME NEW b \in Bot, ToolTakes(b) \/ Die(b) PROVE Goal(q)
  BY <1>9, <1>c DEF ToolTakes, Die, run
<1>10. ASSUME NEW b \in Bot, OtherTool(b) \/ Deliver(b) PROVE Goal(q)
  <2>1. frame[q] = None => frame'[q] = None BY <1>10, Pictures DEF Fades
  <2>2. UNCHANGED <<pc, run>>
    BY <1>10 DEF OtherTool, ToolRuns, ToolDies, Hibernate, Refresh, Deliver
  <2> QED BY <2>1, <2>2, <1>c DEF run
<1> QED
  BY <1>0, <1>1, <1>2, <1>3, <1>4, <1>5, <1>6, <1>7, <1>8, <1>9, <1>10
  DEF Next, RunStep, Task, Model, Locking, Worker

-----------------------------------------------------------------------------
\* The invariant holds at first.
LEMMA InitInv == Init => IInv
<1> SUFFICES ASSUME Init PROVE IInv OBVIOUS
<1>1. TypeOK BY LimitAssumption DEF Init, TypeOK, PC, Free
<1>2. Owned /\ Captured /\ Current /\ StillFrame BY DEF Init, Owned, Captured, Current, StillFrame
<1>3. Aiming BY Holders DEF Init, Aiming
<1>4. FreshAction BY <1>3 DEF Aiming, FreshAction
<1>5. PixelsAreOwed /\ EndedHoldsNothing BY DEF Init, PixelsAreOwed, EndedHoldsNothing
<1> QED BY <1>1, <1>2, <1>3, <1>4, <1>5 DEF IInv

\* And every step keeps it.
LEMMA StepInv == IInv /\ [Next]_vars => IInv'
<1> SUFFICES ASSUME IInv, [Next]_vars PROVE IInv' OBVIOUS
<1>1. TypeOK' BY TypeStep DEF IInv
<1>2. Owned' BY OwnedStep DEF IInv
<1>3. Captured' /\ StillFrame' BY CapturedStep DEF IInv
<1>4. Current' BY CurrentStep DEF IInv
<1>5. Aiming' BY AimingStep DEF IInv
<1>6. FreshAction' BY <1>5 DEF Aiming, FreshAction
<1>7. PixelsAreOwed' BY PixelsStep DEF IInv
<1>8. EndedHoldsNothing' BY <1>1, <1>2, <1>3, EndedStep DEF IInv
<1> QED BY <1>1, <1>2, <1>3, <1>4, <1>5, <1>6, <1>7, <1>8 DEF IInv

\* The inductive invariant of the model of captures, frames and desktops, for
\* any runs, bots and limits.
THEOREM InductiveInvariant == Spec => []IInv
BY InitInv, StepInv, PTL DEF Spec

\* Every variable keeps its type: no run claims more captures or images than its
\* limits, and every lock has one of its holders.
THEOREM TypeCorrect == Spec => []TypeOK
<1>1. IInv => TypeOK BY DEF IInv
<1> QED BY <1>1, InductiveInvariant, PTL

\* Coordinates reach the desktop only as it was when the frame was taken, what
\* deliver did to it apart, whatever other runs, tools, the reaper and stops do
\* in between.
THEOREM SafetyFresh == Spec => []FreshAction
<1>1. IInv => FreshAction BY DEF IInv
<1> QED BY <1>1, InductiveInvariant, PTL

\* The bytes of a frame are kept only while the model is owed them.
THEOREM SafetyPixels == Spec => []PixelsAreOwed
<1>1. IInv => PixelsAreOwed BY DEF IInv
<1> QED BY <1>1, InductiveInvariant, PTL

\* A run that is over holds nothing but through a worker that still has the desktop.
THEOREM SafetyEnded == Spec => []EndedHoldsNothing
<1>1. IInv => EndedHoldsNothing BY DEF IInv
<1> QED BY <1>1, InductiveInvariant, PTL

\* Nothing the server does, deliver's printing apart, changes a desktop while a
\* frame of it is taken.
THEOREM CaptureIsStill == Spec => []StillFrame
<1>1. IInv => StillFrame BY DEF IInv
<1> QED BY <1>1, InductiveInvariant, PTL

-----------------------------------------------------------------------------
\* The holders of the permits.  By PixelsAreOwed a retained frame is the turn's.
Pixel == {r \in Run : hand[r] # "no"}
Lease == {r \in Run : lease[r] # "no"}
Sent == {r \in Run : hand[r] = "sent"}

LEMMA Holdings ==
  /\ IsFiniteSet(Pixel) /\ IsFiniteSet(Lease) /\ IsFiniteSet(Sent)
  /\ Cardinality(Pixel) \in Nat /\ Cardinality(Lease) \in Nat /\ Cardinality(Sent) \in Nat
<1>1. Pixel \subseteq Run /\ Lease \subseteq Run /\ Sent \subseteq Run BY DEF Pixel, Lease, Sent
<1>2. IsFiniteSet(Pixel) /\ IsFiniteSet(Lease) /\ IsFiniteSet(Sent)
  BY <1>1, RunAssumption, FS_Subset
<1> QED BY <1>2, FS_CardinalityType

LEMMA HoldingsOf ==
  ASSUME PixelsAreOwed
  PROVE  /\ RetainedInUse = Cardinality(Pixel) + Cardinality(Lease)
         /\ DecodeInUse = Cardinality(Lease) /\ DispatchInUse = Cardinality(Sent)
<1>1. {r \in Run : Pixels(r)} = Pixel BY DEF PixelsAreOwed, Pixels, Pixel
<1> QED BY <1>1 DEF RetainedInUse, DecodeInUse, DispatchInUse, Lease, Sent

\* A step gives permits up, or admits a capture, or turns its lease into a frame.
LEMMA RetainedStep ==
  ASSUME IInv, [Next]_vars
  PROVE  \/ Pixel' \subseteq Pixel /\ Lease' \subseteq Lease
         \/ \E r \in Run : /\ Pixel' = Pixel /\ Lease' = Lease \cup {r}
                          /\ RetainedInUse < MaxRetained /\ DecodeInUse < MaxDecodes
         \/ \E r \in Lease : Pixel' = Pixel \cup {r} /\ Lease' = Lease \ {r}
<1> USE DEF Pixel, Lease
<1>0. CASE UNCHANGED vars BY <1>0 DEF vars
<1>1. ASSUME NEW r \in Run, Halt(r) \/ StopImage(r) \/ Ask(r) \/ Withhold(r) \/ Dispatch(r) \/ Claim(r)
                            \/ LeaveQueue(r) \/ LeaveCapture(r) \/ Decide(r)
      PROVE  Pixel' \subseteq Pixel /\ Lease' \subseteq Lease
  BY <1>1 DEF Halt, StopImage, End, Ask, Withhold, Dispatch, Claim, LeaveQueue, LeaveCapture, Decide,
     IInv, TypeOK
<1>2. ASSUME NEW r \in Run, Model(r) \/ TakeDesk(r) \/ Stop(r)
      PROVE  Pixel' \subseteq Pixel /\ Lease' \subseteq Lease
  BY <1>2 DEF Model, Answer, Delivered, Close, Fail, End, TakeDesk, Stop, IInv, TypeOK
<1>3. ASSUME NEW r \in Run, Worker(r)
      PROVE  Pixel' \subseteq Pixel /\ Lease' \subseteq Lease
  <2>1. CASE Ensured(r)
    <3>1. pc[r] = "ensuring" => lease[r] = "reserved" BY DEF IInv, Owned
    <3> QED BY <2>1, <3>1 DEF Ensured, IInv, TypeOK
  <2> QED BY <1>3, <2>1 DEF Worker, Shoot, Reap, Dispose, Act, IInv, TypeOK
<1>4. ASSUME NEW r \in Run, NEW id \in 0..MaxAttempts, NEW fits \in BOOLEAN, Consume(r, id, fits)
      PROVE  Pixel' \subseteq Pixel /\ Lease' \subseteq Lease
  BY <1>4 DEF Consume
<1>5. ASSUME NEW b \in Bot, ToolTakes(b) \/ Die(b) \/ OtherTool(b) \/ Deliver(b)
      PROVE  Pixel' \subseteq Pixel /\ Lease' \subseteq Lease
  BY <1>5 DEF ToolTakes, Die, OtherTool, ToolRuns, ToolDies, Hibernate, Refresh, Deliver
<1>6. ASSUME NEW r \in Run, Admit(r), lease' # lease
      PROVE  /\ Pixel' = Pixel /\ Lease' = Lease \cup {r}
             /\ RetainedInUse < MaxRetained /\ DecodeInUse < MaxDecodes
  BY <1>6 DEF Admit, IInv, TypeOK
<1>7. ASSUME NEW r \in Run, Admit(r), lease' = lease
      PROVE  Pixel' \subseteq Pixel /\ Lease' \subseteq Lease
  BY <1>7 DEF Admit
<1>8. ASSUME NEW r \in Run, Store(r)
      PROVE  r \in Lease /\ Pixel' = Pixel \cup {r} /\ Lease' = Lease \ {r}
  BY <1>8 DEF Store, IInv, TypeOK
<1> QED
  BY <1>0, <1>1, <1>2, <1>3, <1>4, <1>5, <1>6, <1>7, <1>8
  DEF Next, RunStep, Task, Locking

\* Only a dispatch sends an image, while one is free.
LEMMA SentStep ==
  ASSUME IInv, [Next]_vars
  PROVE  \/ Sent' \subseteq Sent
         \/ \E r \in Run : Sent' = Sent \cup {r} /\ DispatchInUse < MaxDispatches
<1> USE DEF Sent
<1>0. CASE UNCHANGED vars BY <1>0 DEF vars
<1>1. ASSUME NEW r \in Run, Task(r), ~ Dispatch(r) PROVE Sent' \subseteq Sent
  BY <1>1 DEF Task, Halt, StopImage, End, Ask, Withhold, Claim, Admit, LeaveQueue, LeaveCapture, Store,
     Decide, IInv, TypeOK
<1>2. ASSUME NEW r \in Run, Model(r) \/ TakeDesk(r) \/ Stop(r) PROVE Sent' \subseteq Sent
  BY <1>2 DEF Model, Answer, Delivered, Close, Fail, End, TakeDesk, Stop, IInv, TypeOK
<1>3. ASSUME NEW r \in Run, Worker(r) PROVE Sent' \subseteq Sent
  BY <1>3 DEF Worker, Ensured, Shoot, Reap, Dispose, Act
<1>4. ASSUME NEW r \in Run, NEW id \in 0..MaxAttempts, NEW fits \in BOOLEAN, Consume(r, id, fits)
      PROVE  Sent' \subseteq Sent
  BY <1>4 DEF Consume
<1>5. ASSUME NEW b \in Bot, ToolTakes(b) \/ Die(b) \/ OtherTool(b) \/ Deliver(b)
      PROVE  Sent' \subseteq Sent
  BY <1>5 DEF ToolTakes, Die, OtherTool, ToolRuns, ToolDies, Hibernate, Refresh, Deliver
<1>6. ASSUME NEW r \in Run, Dispatch(r)
      PROVE  Sent' = Sent \cup {r} /\ DispatchInUse < MaxDispatches
  BY <1>6 DEF Dispatch, IInv, TypeOK
<1> QED
  BY <1>0, <1>1, <1>2, <1>3, <1>4, <1>5, <1>6 DEF Next, RunStep, Locking

LEMMA OneMore ==
  ASSUME NEW S, NEW x, IsFiniteSet(S)
  PROVE  Cardinality(S \cup {x}) \in Nat /\ Cardinality(S \cup {x}) <= Cardinality(S) + 1
<1>1. Cardinality(S) \in Nat BY FS_CardinalityType
<1>2. Cardinality(S \cup {x}) = IF x \in S THEN Cardinality(S) ELSE Cardinality(S) + 1
  BY FS_AddElement
<1> QED BY <1>1, <1>2

\* No step takes a permit that is not there.
LEMMA BoundedStep == IInv /\ Bounded /\ [Next]_vars => Bounded'
<1> SUFFICES ASSUME IInv, Bounded, [Next]_vars PROVE Bounded' OBVIOUS
<1> USE LimitAssumption
<1>1. PixelsAreOwed /\ PixelsAreOwed' BY StepInv DEF IInv
<1>2. /\ RetainedInUse = Cardinality(Pixel) + Cardinality(Lease)
      /\ DecodeInUse = Cardinality(Lease) /\ DispatchInUse = Cardinality(Sent)
  BY <1>1, HoldingsOf
<1>3. /\ RetainedInUse' = Cardinality(Pixel') + Cardinality(Lease')
      /\ DecodeInUse' = Cardinality(Lease') /\ DispatchInUse' = Cardinality(Sent')
  <2>1. {r \in Run : Pixels(r)'} = Pixel' BY <1>1 DEF PixelsAreOwed, Pixels, Pixel
  <2> QED BY <2>1 DEF RetainedInUse, DecodeInUse, DispatchInUse, Lease, Sent
<1>4. /\ Cardinality(Pixel) \in Nat /\ Cardinality(Lease) \in Nat /\ Cardinality(Sent) \in Nat
      /\ IsFiniteSet(Pixel) /\ IsFiniteSet(Lease) /\ IsFiniteSet(Sent)
  BY Holdings
<1>5. RetainedInUse' <= MaxRetained /\ DecodeInUse' <= MaxDecodes
  <2>1. CASE Pixel' \subseteq Pixel /\ Lease' \subseteq Lease
    <3>1. Cardinality(Pixel') <= Cardinality(Pixel) /\ Cardinality(Lease') <= Cardinality(Lease)
          /\ Cardinality(Pixel') \in Nat /\ Cardinality(Lease') \in Nat
      BY <2>1, <1>4, FS_Subset, FS_CardinalityType
    <3> QED BY <3>1, <1>2, <1>3, <1>4 DEF Bounded
  <2>2. ASSUME NEW r \in Run, Pixel' = Pixel, Lease' = Lease \cup {r},
               RetainedInUse < MaxRetained, DecodeInUse < MaxDecodes
        PROVE  RetainedInUse' <= MaxRetained /\ DecodeInUse' <= MaxDecodes
    <3>1. Cardinality(Lease') <= Cardinality(Lease) + 1 /\ Cardinality(Lease') \in Nat
      BY <2>2, <1>4, OneMore
    <3> QED BY <2>2, <3>1, <1>2, <1>3, <1>4
  <2>3. ASSUME NEW r \in Lease, Pixel' = Pixel \cup {r}, Lease' = Lease \ {r}
        PROVE  RetainedInUse' <= MaxRetained /\ DecodeInUse' <= MaxDecodes
    <3>1. Cardinality(Pixel') <= Cardinality(Pixel) + 1 /\ Cardinality(Pixel') \in Nat
      BY <2>3, <1>4, OneMore
    <3>2. Cardinality(Lease') = Cardinality(Lease) - 1 BY <2>3, <1>4, FS_RemoveElement
    <3> QED BY <3>1, <3>2, <1>2, <1>3, <1>4 DEF Bounded
  <2> QED BY <2>1, <2>2, <2>3, RetainedStep
<1>6. DispatchInUse' <= MaxDispatches
  <2>1. CASE Sent' \subseteq Sent
    <3>1. Cardinality(Sent') <= Cardinality(Sent) /\ Cardinality(Sent') \in Nat
      BY <2>1, <1>4, FS_Subset, FS_CardinalityType
    <3> QED BY <3>1, <1>2, <1>3, <1>4 DEF Bounded
  <2>2. ASSUME NEW r \in Run, Sent' = Sent \cup {r}, DispatchInUse < MaxDispatches
        PROVE  DispatchInUse' <= MaxDispatches
    <3>1. Cardinality(Sent') <= Cardinality(Sent) + 1 /\ Cardinality(Sent') \in Nat
      BY <2>2, <1>4, OneMore
    <3> QED BY <2>2, <3>1, <1>2, <1>3, <1>4
  <2> QED BY <2>1, <2>2, SentStep
<1> QED BY <1>5, <1>6 DEF Bounded

\* The three budgets of frames, captures and dispatches hold for any number of
\* runs, those whose workers outlive them included.
THEOREM SafetyBounded == Spec => []Bounded
<1>1. Init => Bounded
  <2> SUFFICES ASSUME Init PROVE Bounded OBVIOUS
  <2>1. Pixel = {} /\ Lease = {} /\ Sent = {} BY DEF Init, Pixel, Lease, Sent
  <2>2. PixelsAreOwed BY DEF Init, PixelsAreOwed
  <2>3. RetainedInUse = 0 /\ DecodeInUse = 0 /\ DispatchInUse = 0
    BY <2>1, <2>2, HoldingsOf, FS_EmptySet
  <2> QED BY <2>3, LimitAssumption DEF Bounded
<1> QED BY <1>1, BoundedStep, InductiveInvariant, PTL DEF Spec
=============================================================================
