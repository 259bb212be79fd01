----------------------------- MODULE HooksProofs ------------------------------
(***************************************************************************)
(* Proofs about Hooks for any number of deliveries, senders and other runs: *)
(* a delivery starts a run on top of another only if that one was started   *)
(* during its own handling, and no met group of conditions is left behind.  *)
(***************************************************************************)
EXTENDS Hooks, TLAPS

\* What the proof needs of the types; the bounds of TypeOK do not matter.
AnyPost ==
  [pc : {"idle"} \cup Station \cup Answered, kind : Kind \cup {Slack}, fits : BOOLEAN,
   before : Nat, at : Nat]

Shape ==
  /\ now \in Nat /\ faults \in Nat
  /\ runs \in Seq(Run)
  /\ post \in [Delivery -> AnyPost]

\* Whoever looked for runs in flight and found none.
HasChecked(d) == post[d].pc \in {"record", "weigh", "clear", "fire", "started"}

\* The runs there were then are over, and stay so.
Passed ==
  \A d \in Delivery : HasChecked(d) =>
    /\ post[d].before <= Len(runs)
    /\ \A i \in 1..post[d].before : runs[i].status = "over"

\* A run of a delivery was started by its handler, which has answered.
StartedBy ==
  \A j \in DOMAIN runs : runs[j].by # "other" => runs[j].by \in Delivery /\ post[runs[j].by].pc = "started"

IInv == Shape /\ Passed /\ StartedBy

-----------------------------------------------------------------------------
LEMMA InitIInv == Init => IInv
BY DEF Init, IInv, Shape, AnyPost, Passed, StartedBy, HasChecked, Run, Station, Answered

\* A handler goes on without starting a run; the runs it found are the same.
LEMMA HandlerStep ==
  ASSUME IInv, NEW d \in Delivery, runs' = runs, now' = now, faults' \in Nat, post[d].pc # "started",
         NEW p \in AnyPost,
         post' = [post EXCEPT ![d] = p],
         p.pc \in {"record", "weigh", "clear", "fire", "started"} =>
           \/ HasChecked(d) /\ p.before = post[d].before
           \/ p.before = Len(runs) /\ \A i \in DOMAIN runs : ~ InFlight(runs[i])
           \/ p.before = 0
  PROVE  IInv'
<1>1. Shape'
  BY DEF IInv, Shape
<1>2. post'[d] = p /\ \A e \in Delivery \ {d} : post'[e] = post[e]
  BY DEF IInv, Shape
<1>3. Passed'
  <2> SUFFICES ASSUME NEW e \in Delivery, HasChecked(e)'
               PROVE  /\ post'[e].before <= Len(runs)
                      /\ \A i \in 1..post'[e].before : runs[i].status = "over"
    BY DEF Passed
  <2>1. CASE e # d
    BY <2>1, <1>2 DEF IInv, Passed, HasChecked
  <2>2. CASE e = d /\ HasChecked(d) /\ p.before = post[d].before
    BY <2>2, <1>2 DEF IInv, Passed
  <2>3. CASE e = d /\ p.before = Len(runs) /\ \A i \in DOMAIN runs : ~ InFlight(runs[i])
    <3>1. post'[e].before = Len(runs) /\ Len(runs) \in Nat /\ DOMAIN runs = 1..Len(runs)
      BY <2>3, <1>2 DEF IInv, Shape
    <3> QED
      BY <2>3, <3>1 DEF InFlight
  <2>4. CASE e = d /\ p.before = 0
    BY <2>4, <1>2 DEF IInv, Shape
  <2> QED
    BY <1>2, <2>1, <2>2, <2>3, <2>4 DEF HasChecked
<1>4. StartedBy'
  BY <1>2 DEF IInv, StartedBy
<1> QED
  BY <1>1, <1>3, <1>4 DEF IInv

\* A handler that only moves on keeps what it remembers.
LEMMA MovesOn ==
  ASSUME Shape, NEW d \in Delivery, NEW pc \in Station \cup Answered, To(d, pc)
  PROVE  /\ post' = [post EXCEPT ![d] = [post[d] EXCEPT !.pc = pc]]
         /\ [post[d] EXCEPT !.pc = pc] \in AnyPost
         /\ [post[d] EXCEPT !.pc = pc].pc = pc
         /\ [post[d] EXCEPT !.pc = pc].before = post[d].before
<1>1. post[d] \in AnyPost /\ DOMAIN post = Delivery
  BY DEF Shape
<1>2. post' = [post EXCEPT ![d] = [post[d] EXCEPT !.pc = pc]]
  BY <1>1 DEF To
<1>3. [post[d] EXCEPT !.pc = pc] \in AnyPost
  BY <1>1 DEF AnyPost
<1>4. /\ [post[d] EXCEPT !.pc = pc].pc = pc
      /\ [post[d] EXCEPT !.pc = pc].before = post[d].before
  BY <1>1 DEF AnyPost
<1> QED
  BY <1>2, <1>3, <1>4

LEMMA GoesOn ==
  ASSUME IInv, NEW d \in Delivery, runs' = runs, now' = now, faults' \in Nat, post[d].pc # "started",
         NEW pc \in Station \cup Answered, To(d, pc),
         pc \in {"record", "weigh", "clear", "fire", "started"} => HasChecked(d)
  PROVE  IInv'
<1> DEFINE p == [post[d] EXCEPT !.pc = pc]
<1>1. /\ post' = [post EXCEPT ![d] = p] /\ p \in AnyPost
      /\ p.pc = pc /\ p.before = post[d].before
  BY MovesOn DEF IInv
<1> HIDE DEF p
<1> QED
  BY <1>1, HandlerStep

\* post_webhook up to the start of the run.
LEMMA HandleIInv ==
  ASSUME IInv, NEW d \in Delivery,
         Arrive(d) \/ ReadRow(d) \/ CheckInFlight(d) \/ Record(d) \/ Weigh(d) \/ Clear(d)
  PROVE  IInv'
<1> DEFINE Moved(pc) == [post[d] EXCEPT !.pc = pc]
<1>0. runs' = runs /\ now' = now /\ faults' \in Nat /\ post[d].pc # "started"
  <2>1. runs' = runs /\ now' = now /\ post[d].pc # "started"
    BY DEF Arrive, ReadRow, CheckInFlight, Record, Weigh, Clear, At, world, clock
  <2>2. faults' = faults \/ faults' = faults + 1
    BY DEF Arrive, ReadRow, CheckInFlight, Record, Weigh, Clear, world, Fault
  <2> QED
    BY <2>1, <2>2 DEF IInv, Shape
<1>1. CASE Arrive(d)
  <2>1. PICK kind \in Kind \cup {Slack}, fits \in BOOLEAN :
          post' = [post EXCEPT ![d] = [@ EXCEPT !.pc = "read", !.kind = kind, !.fits = fits]]
    BY <1>1 DEF Arrive
  <2> QED
    BY <1>0, <2>1, HandlerStep DEF IInv, Shape, AnyPost, Station
<1>2. CASE ReadRow(d)
  BY <1>0, <1>2, GoesOn DEF ReadRow, Station, Answered
<1>3. CASE CheckInFlight(d)
  <2>1. CASE To(d, "refused") \/ To(d, "ignored")
    BY <1>0, <2>1, GoesOn DEF Answered
  <2>2. ASSUME NEW before \in Nat,
               before = 0 \/ (before = Len(runs) /\ \A i \in DOMAIN runs : ~ InFlight(runs[i])),
               post' = [post EXCEPT
                  ![d].pc = IF group /\ post[d].kind # Slack THEN "record" ELSE "fire",
                  ![d].before = before]
        PROVE  IInv'
    <3>1. PICK pc \in {"record", "fire"} : post' = [post EXCEPT ![d].pc = pc, ![d].before = before]
      BY <2>2
    <3> DEFINE p == [post[d] EXCEPT !.pc = pc, !.before = before]
    <3>2. /\ post' = [post EXCEPT ![d] = p] /\ p.before = before
          /\ p \in AnyPost
      <4>1. post[d] \in AnyPost /\ DOMAIN post = Delivery
        BY DEF IInv, Shape
      <4>3. p.before = before /\ p.pc = pc /\ p.kind = post[d].kind /\ p.fits = post[d].fits
            /\ p.at = post[d].at
        BY <4>1
      <4>4. p \in AnyPost
        BY <4>1 DEF AnyPost, Station
      <4>5. post' = [post EXCEPT ![d] = p]
        BY <3>1, <4>1
      <4> QED
        BY <4>3, <4>4, <4>5
    <3> QED
      BY <1>0, <2>2, <3>2, HandlerStep
  <2>3. Len(runs) \in Nat
    BY DEF IInv, Shape
  <2> QED
    BY <1>3, <2>1, <2>2, <2>3 DEF CheckInFlight
<1>4. CASE Record(d)
  <2>1. At(d, "record")
    BY <1>4 DEF Record
  <2>2. CASE post' = [post EXCEPT ![d] = [@ EXCEPT !.pc = "weigh", !.at = now]]
    <3> DEFINE p == [post[d] EXCEPT !.pc = "weigh", !.at = now]
    <3>1. post[d] \in AnyPost /\ DOMAIN post = Delivery /\ now \in Nat
      BY DEF IInv, Shape
    <3>2. p \in AnyPost /\ p.before = post[d].before
      BY <3>1 DEF AnyPost, Station
    <3>3. post' = [post EXCEPT ![d] = p]
      BY <2>2, <3>1
    <3>4. HasChecked(d)
      BY <2>1 DEF At, HasChecked
    <3> QED
      BY <1>0, <3>2, <3>3, <3>4, HandlerStep
  <2>3. CASE To(d, "refused")
    BY <1>0, <2>3, GoesOn DEF Answered
  <2> QED
    BY <1>4, <2>2, <2>3 DEF Record
<1>5. CASE Weigh(d)
  <2>1. At(d, "weigh") /\ (To(d, "clear") \/ To(d, "ignored") \/ To(d, "blind"))
    BY <1>5 DEF Weigh, WeighedIn
  <2> QED
    BY <1>0, <2>1, GoesOn DEF At, HasChecked, Station, Answered
<1>6. CASE Clear(d)
  BY <1>0, <1>6, GoesOn DEF Clear, At, HasChecked, Station
<1> QED
  BY <1>1, <1>2, <1>3, <1>4, <1>5, <1>6

\* fire_webhook_routine: a run of its own, after all those it found.
LEMMA FireIInv == ASSUME IInv, NEW d \in Delivery, Fire(d) PROVE IInv'
<1>1. post[d].pc = "fire" /\ now' = now /\ faults' = faults
  BY DEF Fire, At, world, clock
<1>2. CASE To(d, "refused") /\ UNCHANGED runs
  BY <1>1, <1>2, GoesOn DEF Answered, IInv, Shape
<1>3. CASE runs' = Append(runs, [status |-> "running", by |-> d]) /\ To(d, "started")
  <2>1. /\ runs' \in Seq(Run) /\ Len(runs') = Len(runs) + 1 /\ Len(runs) \in Nat
        /\ \A i \in 1..Len(runs) : runs'[i] = runs[i]
        /\ runs'[Len(runs) + 1] = [status |-> "running", by |-> d]
    BY <1>3 DEF IInv, Shape, Run
  <2>2. /\ post'[d].pc = "started" /\ post'[d].before = post[d].before
        /\ \A e \in Delivery \ {d} : post'[e] = post[e]
        /\ Shape'
    <3>1. Shape /\ "started" \in Station \cup Answered
      BY DEF IInv, Answered
    <3>2. /\ post' = [post EXCEPT ![d] = [post[d] EXCEPT !.pc = "started"]]
          /\ [post[d] EXCEPT !.pc = "started"] \in AnyPost
          /\ [post[d] EXCEPT !.pc = "started"].pc = "started"
          /\ [post[d] EXCEPT !.pc = "started"].before = post[d].before
      BY <1>3, <3>1, MovesOn
    <3> HIDE DEF IInv
    <3> QED
      BY <1>1, <2>1, <3>1, <3>2 DEF Shape
  <2>3. Passed'
    <3> SUFFICES ASSUME NEW e \in Delivery, HasChecked(e)'
                 PROVE  /\ post'[e].before <= Len(runs')
                        /\ \A i \in 1..post'[e].before : runs'[i].status = "over"
      BY DEF Passed
    <3>1. HasChecked(e) /\ post'[e].before = post[e].before /\ post[e].before \in Nat
      BY <1>1, <2>2 DEF HasChecked, IInv, Shape, AnyPost
    <3>2. post[e].before <= Len(runs) /\ \A i \in 1..post[e].before : runs[i].status = "over"
      BY <3>1 DEF IInv, Passed
    <3> QED
      BY <2>1, <3>1, <3>2
  <2>4. StartedBy'
    <3> SUFFICES ASSUME NEW j \in 1..(Len(runs) + 1), runs'[j].by # "other"
                 PROVE  runs'[j].by \in Delivery /\ post'[runs'[j].by].pc = "started"
      BY <2>1 DEF StartedBy
    <3>1. CASE j = Len(runs) + 1
      BY <2>1, <2>2, <3>1
    <3>2. CASE j \in 1..Len(runs)
      <4>0. DOMAIN runs = 1..Len(runs)
        BY DEF IInv, Shape
      <4>1. runs'[j] = runs[j] /\ j \in DOMAIN runs
        BY <2>1, <3>2, <4>0
      <4>2. runs[j].by \in Delivery /\ post[runs[j].by].pc = "started"
        BY <4>1 DEF IInv, StartedBy
      <4> QED
        BY <1>1, <2>2, <4>1, <4>2
    <3> QED
      BY <2>1, <3>1, <3>2
  <2> QED
    BY <2>2, <2>3, <2>4 DEF IInv
<1> QED
  BY <1>2, <1>3 DEF Fire

-----------------------------------------------------------------------------
\* A run that ends, parks or is resumed keeps its place and its starter, and
\* one that is over stays over.
LEMMA RunsMoveOn ==
  ASSUME IInv, runs' \in Seq(Run), Len(runs') = Len(runs), now' = now, faults' \in Nat,
         \A i \in DOMAIN runs :
           runs'[i].by = runs[i].by /\ (runs[i].status = "over" => runs'[i].status = "over"),
         post' \in [Delivery -> AnyPost],
         \A d \in Delivery : post'[d] = post[d] \/ (post[d].pc # "started" /\ post'[d].pc = "dead")
  PROVE  IInv'
<1>1. Shape'
  BY DEF IInv, Shape
<1>2. DOMAIN runs' = DOMAIN runs /\ DOMAIN runs = 1..Len(runs) /\ Len(runs) \in Nat
  BY DEF IInv, Shape
<1>3. Passed'
  <2> SUFFICES ASSUME NEW d \in Delivery, HasChecked(d)'
               PROVE  /\ post'[d].before <= Len(runs')
                      /\ \A i \in 1..post'[d].before : runs'[i].status = "over"
    BY DEF Passed
  <2>1. post'[d] = post[d] /\ post[d].before \in Nat
    BY DEF HasChecked, IInv, Shape, AnyPost
  <2>2. post[d].before <= Len(runs) /\ \A i \in 1..post[d].before : runs[i].status = "over"
    BY <2>1 DEF HasChecked, IInv, Passed
  <2> QED
    BY <1>2, <2>1, <2>2
<1>4. StartedBy'
  BY <1>2 DEF IInv, StartedBy
<1> QED
  BY <1>1, <1>3, <1>4 DEF IInv

LEMMA RunIInv ==
  ASSUME IInv, NEW i \in DOMAIN runs, Park(i) \/ Resume(i) \/ Settle(i) \/ GiveUp(i) PROVE IInv'
<1>1. PICK to \in {"running", "waiting", "over"} :
        runs[i].status # "over" /\ runs' = [runs EXCEPT ![i].status = to] /\ UNCHANGED <<world, post>>
  BY DEF Park, Resume, Settle, GiveUp, Becomes
<1> DEFINE r == [runs[i] EXCEPT !.status = to]
<1>a. runs[i] \in Run /\ runs \in Seq(Run) /\ i \in 1..Len(runs)
  BY DEF IInv, Shape
<1>b. r \in Run /\ r.by = runs[i].by
  BY <1>a DEF Run
<1>c. runs' = [runs EXCEPT ![i] = r]
  BY <1>1
<1>2. runs' \in Seq(Run) /\ Len(runs') = Len(runs)
  <2> HIDE DEF r
  <2> QED
    BY <1>a, <1>b, <1>c
<1>3. \A k \in DOMAIN runs :
        runs'[k].by = runs[k].by /\ (runs[k].status = "over" => runs'[k].status = "over")
  <2> HIDE DEF r
  <2> QED
    BY <1>1, <1>a, <1>b, <1>c
<1> QED
  BY <1>1, <1>2, <1>3, RunsMoveOn DEF world, clock, IInv, Shape

\* A restart loses the handlers and forgets what was running, not what is over.
LEMMA CrashIInv == ASSUME IInv, Crash PROVE IInv'
<1>1. runs' \in Seq(Run) /\ Len(runs') = Len(runs)
      /\ \A k \in DOMAIN runs :
           runs'[k].by = runs[k].by /\ (runs[k].status = "over" => runs'[k].status = "over")
  <2>1. runs' = [i \in 1..Len(runs) |->
                  IF runs[i].status = "running" THEN [runs[i] EXCEPT !.status = "lost"] ELSE runs[i]]
    BY DEF Crash, IInv, Shape
  <2>2. \A i \in 1..Len(runs) : runs[i] \in Run
    BY DEF IInv, Shape
  <2>3. \A i \in 1..Len(runs) : runs'[i] \in Run
    BY <2>1, <2>2 DEF Run
  <2>4. Len(runs) \in Nat /\ DOMAIN runs = 1..Len(runs)
    BY DEF IInv, Shape
  <2> QED
    BY <2>1, <2>2, <2>3, <2>4 DEF Run
<1>2. /\ post' \in [Delivery -> AnyPost]
      /\ \A d \in Delivery : post'[d] = post[d] \/ (post[d].pc # "started" /\ post'[d].pc = "dead")
  <2>1. post' = [d \in Delivery |-> IF post[d].pc \in Station THEN [post[d] EXCEPT !.pc = "dead"] ELSE post[d]]
    BY DEF Crash
  <2>2. ASSUME NEW d \in Delivery
        PROVE  /\ post'[d] \in AnyPost
               /\ post'[d] = post[d] \/ (post[d].pc # "started" /\ post'[d].pc = "dead")
    <3>1. post[d] \in AnyPost
      BY DEF IInv, Shape
    <3>2. CASE post[d].pc \in Station
      BY <2>1, <3>1, <3>2 DEF AnyPost, Station, Answered
    <3>3. CASE post[d].pc \notin Station
      BY <2>1, <3>1, <3>3
    <3> QED
      BY <3>2, <3>3
  <2> QED
    BY <2>1, <2>2
<1>3. now' = now /\ faults' \in Nat
  BY DEF Crash, Fault, IInv, Shape
<1> QED
  BY <1>1, <1>2, <1>3, RunsMoveOn

\* A run that a tick or a person starts comes after all there are.
LEMMA StartOtherIInv == ASSUME IInv, StartOther PROVE IInv'
<1>1. /\ runs' \in Seq(Run) /\ Len(runs') = Len(runs) + 1 /\ Len(runs) \in Nat
      /\ \A i \in 1..Len(runs) : runs'[i] = runs[i]
      /\ runs'[Len(runs) + 1].by = "other"
      /\ post' = post /\ now' = now /\ faults' = faults
  BY DEF StartOther, IInv, Shape, Run, world, clock
<1>2. Shape'
  BY <1>1 DEF IInv, Shape
<1>3. Passed'
  <2> SUFFICES ASSUME NEW d \in Delivery, HasChecked(d)
               PROVE  /\ post[d].before <= Len(runs')
                      /\ \A i \in 1..post[d].before : runs'[i].status = "over"
    BY <1>1 DEF Passed, HasChecked
  <2>1. post[d].before \in Nat /\ post[d].before <= Len(runs)
        /\ \A i \in 1..post[d].before : runs[i].status = "over"
    BY DEF IInv, Shape, AnyPost, Passed
  <2> QED
    BY <1>1, <2>1
<1>4. StartedBy'
  <2> SUFFICES ASSUME NEW j \in 1..(Len(runs) + 1), runs'[j].by # "other"
               PROVE  runs'[j].by \in Delivery /\ post[runs'[j].by].pc = "started"
    BY <1>1 DEF StartedBy
  <2>1. j \in 1..Len(runs)
    BY <1>1
  <2> QED
    BY <1>1, <2>1 DEF IInv, StartedBy, Shape
<1> QED
  BY <1>2, <1>3, <1>4 DEF IInv

LEMMA NextIInv == IInv /\ [Next]_vars => IInv'
<1> SUFFICES ASSUME IInv, [Next]_vars PROVE IInv'
  OBVIOUS
<1>1. CASE UNCHANGED vars
  BY <1>1 DEF vars, IInv, Shape, Passed, StartedBy, HasChecked
<1>2. CASE Tick
  BY <1>2 DEF Tick, IInv, Shape, Passed, StartedBy, HasChecked
<1>3. ASSUME NEW d \in Delivery, Arrive(d) \/ Handle(d) PROVE IInv'
  BY <1>3, HandleIInv, FireIInv DEF Handle
<1>4. ASSUME NEW i \in DOMAIN runs, Park(i) \/ Resume(i) \/ Settle(i) \/ GiveUp(i) PROVE IInv'
  BY <1>4, RunIInv
<1> QED
  BY <1>1, <1>2, <1>3, <1>4, StartOtherIInv, CrashIInv DEF Next

-----------------------------------------------------------------------------
\* Whatever the deliveries and the other runs, and through restarts: a delivery
\* (post_webhook) starts a run on top of one in flight only if that one was
\* started after the delivery's own check.
THEOREM NoOlderRunUnderneath == Spec => []StacksOnlyInOverlap
<1>1. IInv => StacksOnlyInOverlap
  <2> SUFFICES ASSUME IInv, NEW i \in DOMAIN runs, NEW j \in DOMAIN runs,
                      InFlight(runs[i]), runs[j].by # "other"
               PROVE  i > post[runs[j].by].before
    BY DEF StacksOnlyInOverlap
  <2> DEFINE d == runs[j].by
  <2>1. d \in Delivery /\ HasChecked(d)
    BY DEF IInv, StartedBy, HasChecked
  <2>2. \A k \in 1..post[d].before : runs[k].status = "over"
    BY <2>1 DEF IInv, Passed
  <2>3. post[d].before \in Nat /\ i \in Nat \ {0}
    BY <2>1 DEF IInv, Shape, AnyPost
  <2> QED
    BY <2>2, <2>3 DEF InFlight
<1> QED
  BY <1>1, InitIInv, NextIInv, PTL DEF Spec

-----------------------------------------------------------------------------
(***************************************************************************)
(* No met group is left behind.  Of the handlers whose arrivals are in the *)
(* table, the one that recorded last answers for all of them: it has still *)
(* to weigh them, or found them met, or met with a fault, or weighed all   *)
(* that is there now and found it wanting, which later moments do not mend, *)
(* as arrivals only drop out of the window.                                *)
(***************************************************************************)
AnyArrival == [of : Delivery, kind : Kind \cup {Slack}, fits : BOOLEAN, at : Nat]

Excused == {"dead", "blind", "fire", "started", "refused"}

AnswersFor(d) ==
  \/ post[d].pc = "weigh" /\ post[d].at <= now
  \/ post[d].pc = "clear"
  \/ faults > 0 /\ post[d].pc \in Excused
  \/ post[d].pc = "ignored" /\ \E t \in 0..now : ~ Met(arrivals, t - Window)

InOrder(seen) == \A i, j \in DOMAIN seen : i <= j => seen[i].at <= seen[j].at

MetInv ==
  /\ arrivals \in Seq(AnyArrival)
  /\ InOrder(arrivals)
  /\ \A i \in DOMAIN arrivals : arrivals[i].at <= now
  /\ arrivals # <<>> => AnswersFor(Last(arrivals).of)

LEMMA Recorded ==
  ASSUME NEW seen \in Seq(AnyArrival)
  PROVE  /\ Len(seen) \in Nat /\ DOMAIN seen = 1..Len(seen)
         /\ \A i \in DOMAIN seen : seen[i].of \in Delivery /\ seen[i].at \in Nat
         /\ seen # <<>> => Last(seen).of \in Delivery
<1>1. Len(seen) \in Nat /\ DOMAIN seen = 1..Len(seen) /\ \A i \in DOMAIN seen : seen[i] \in AnyArrival
  OBVIOUS
<1>2. \A a \in AnyArrival : a.of \in Delivery /\ a.at \in Nat
  BY DEF AnyArrival
<1>3. seen # <<>> => Last(seen) \in AnyArrival
  BY DEF Last
<1> QED
  BY <1>1, <1>2, <1>3

\* What is met within a window is met within a longer one.
LEMMA MetBefore ==
  ASSUME NEW seen \in Seq(AnyArrival), InOrder(seen), NEW s \in Int, NEW t \in Int, s <= t, Met(seen, t)
  PROVE  Met(seen, s)
<1>1. DOMAIN seen \subseteq Nat /\ \A i \in DOMAIN seen : seen[i].at \in Nat
  BY Recorded
<1> SUFFICES ASSUME NEW k \in Kind
             PROVE  \E i \in Fresh(seen, k, s) : seen[i].fits /\ \A j \in Fresh(seen, k, s) : j <= i
  BY DEF Met
<1>2. PICK i \in Fresh(seen, k, t) : seen[i].fits /\ \A j \in Fresh(seen, k, t) : j <= i
  BY DEF Met
<1>3. i \in DOMAIN seen /\ seen[i].kind = k /\ seen[i].at >= t
  BY <1>2 DEF Fresh
<1>4. i \in Fresh(seen, k, s)
  BY <1>1, <1>3 DEF Fresh
<1>5. ASSUME NEW j \in Fresh(seen, k, s), ~ (j <= i) PROVE FALSE
  <2>1. j \in DOMAIN seen /\ seen[j].kind = k
    BY <1>5 DEF Fresh
  <2>2. i <= j /\ seen[i].at <= seen[j].at
    BY <1>1, <1>3, <1>5, <2>1 DEF InOrder
  <2>3. seen[j].at >= t
    BY <1>1, <1>3, <2>1, <2>2
  <2>4. j \in Fresh(seen, k, t)
    BY <2>1, <2>3 DEF Fresh
  <2> QED
    BY <1>2, <1>5, <2>4
<1> QED
  BY <1>2, <1>4, <1>5

\* Nothing is met by no arrival at all.
LEMMA NothingIsUnmet == ASSUME NEW s \in Int PROVE ~ Met(<<>>, s)
<1>1. PICK k \in Kind : TRUE
  BY HookAssumption
<1>2. Fresh(<<>>, k, s) = {}
  BY DEF Fresh
<1> QED
  BY <1>1, <1>2 DEF Met

LEMMA InitMet == Init => MetInv
BY DEF Init, MetInv, InOrder

\* The table stays as it is, and so does the handler that answers for it, but
\* for one that meets with a fault or is past one.
LEMMA MetStays ==
  ASSUME MetInv, Shape, now' \in Nat, now <= now', arrivals' = arrivals,
         faults' \in Nat, faults <= faults',
         \A d \in Delivery : AnswersFor(d) =>
           post'[d] = post[d] \/ (faults' > 0 /\ post'[d].pc \in Excused)
  PROVE  MetInv'
<1>1. \A i \in DOMAIN arrivals : arrivals[i].at \in Nat
  BY Recorded DEF MetInv
<1>2. \A i \in DOMAIN arrivals : arrivals[i].at <= now'
  BY <1>1 DEF MetInv, Shape
<1>3. ASSUME NEW d \in Delivery, AnswersFor(d) PROVE AnswersFor(d)'
  <2>1. post[d].at \in Nat /\ now \in Nat /\ 0..now \subseteq 0..now' /\ faults \in Nat
    BY DEF Shape, AnyPost
  <2>2. post'[d] = post[d] \/ (faults' > 0 /\ post'[d].pc \in Excused)
    BY <1>3
  <2>3. CASE faults' > 0 /\ post'[d].pc \in Excused
    BY <2>3 DEF AnswersFor, Excused
  <2>4. CASE post'[d] = post[d] /\ post[d].pc = "weigh" /\ post[d].at <= now
    BY <2>1, <2>4 DEF AnswersFor
  <2>5. CASE post'[d] = post[d] /\ post[d].pc = "clear"
    BY <2>5 DEF AnswersFor
  <2>6. CASE post'[d] = post[d] /\ faults > 0 /\ post[d].pc \in Excused
    BY <2>1, <2>6 DEF AnswersFor, Excused
  <2>7. CASE /\ post'[d] = post[d] /\ post[d].pc = "ignored"
             /\ \E t \in 0..now : ~ Met(arrivals, t - Window)
    <3>1. PICK t \in 0..now : ~ Met(arrivals, t - Window)
      BY <2>7
    <3>2. t \in 0..now' /\ ~ Met(arrivals', t - Window)
      BY <2>1, <3>1
    <3> QED
      BY <2>7, <3>2 DEF AnswersFor
  <2> QED
    BY <1>3, <2>2, <2>3, <2>4, <2>5, <2>6, <2>7 DEF AnswersFor
<1>4. arrivals # <<>> => Last(arrivals).of \in Delivery
  BY Recorded DEF MetInv
<1>5. Last(arrivals)' = Last(arrivals)
  BY DEF Last
<1> QED
  BY <1>2, <1>3, <1>4, <1>5 DEF MetInv, InOrder

\* The handlers that leave the arrivals alone are not the one that answers.
LEMMA AnotherSteps ==
  ASSUME MetInv, Shape, NEW d \in Delivery, now' = now, arrivals' = arrivals,
         faults' \in Nat, faults <= faults',
         post[d].pc \in {"idle", "read", "check", "record"},
         \A e \in Delivery \ {d} : post'[e] = post[e]
  PROVE  MetInv'
<1>1. ~ AnswersFor(d)
  BY DEF AnswersFor, Excused
<1>2. \A e \in Delivery : AnswersFor(e) => post'[e] = post[e]
  BY <1>1
<1>3. now \in Nat
  BY DEF Shape
<1> QED
  BY <1>2, <1>3, MetStays

LEMMA RecordMet == ASSUME MetInv, Shape, NEW d \in Delivery, Record(d) PROVE MetInv'
<1>0. /\ now' = now /\ now \in Nat /\ faults' = faults /\ faults \in Nat
      /\ post[d] \in AnyPost /\ DOMAIN post = Delivery /\ post[d].pc = "record"
  BY DEF Record, At, world, clock, Shape
<1>1. CASE To(d, "refused") /\ UNCHANGED arrivals
  BY <1>0, <1>1, AnotherSteps DEF To
<1>2. CASE /\ arrivals' = Append(arrivals, [of |-> d, kind |-> post[d].kind,
                                         fits |-> post[d].fits, at |-> now])
           /\ post' = [post EXCEPT ![d] = [@ EXCEPT !.pc = "weigh", !.at = now]]
  <2> DEFINE a == [of |-> d, kind |-> post[d].kind, fits |-> post[d].fits, at |-> now]
             n == Len(arrivals)
  <2>1. a \in AnyArrival /\ a.of = d /\ a.at = now
    BY <1>0 DEF AnyPost, AnyArrival
  <2> HIDE DEF a
  <2>2. /\ arrivals \in Seq(AnyArrival) /\ n \in Nat
        /\ \A i \in 1..n : arrivals[i].at \in Nat /\ arrivals[i].at <= now
        /\ \A i, j \in 1..n : i <= j => arrivals[i].at <= arrivals[j].at
    BY Recorded DEF MetInv, InOrder
  <2>3. arrivals' = Append(arrivals, a)
    BY <1>2 DEF a
  <2>4. /\ arrivals' \in Seq(AnyArrival) /\ Len(arrivals') = n + 1 /\ DOMAIN arrivals' = 1..(n + 1)
        /\ arrivals'[n + 1] = a /\ \A i \in 1..n : arrivals'[i] = arrivals[i]
        /\ arrivals' # <<>>
    BY <2>1, <2>2, <2>3
  <2>5. InOrder(arrivals')
    BY <1>0, <2>1, <2>2, <2>4 DEF InOrder
  <2>6. \A i \in DOMAIN arrivals' : arrivals'[i].at <= now'
    BY <1>0, <2>1, <2>2, <2>4
  <2>7. Last(arrivals') = a
    BY <2>4 DEF Last
  <2>8. post'[d].pc = "weigh" /\ post'[d].at = now
    BY <1>0, <1>2 DEF AnyPost
  <2>9. AnswersFor(d)'
    BY <1>0, <2>8 DEF AnswersFor
  <2> QED
    BY <2>1, <2>4, <2>5, <2>6, <2>7, <2>9 DEF MetInv
<1> QED
  BY <1>1, <1>2 DEF Record

\* The check weighs every arrival there is, as of a moment that has come, or
\* cannot read them.
LEMMA WeighMet == ASSUME MetInv, Shape, NEW d \in Delivery, Weigh(d) PROVE MetInv'
<1>0. /\ now' = now /\ arrivals' = arrivals /\ now \in Nat /\ faults \in Nat
      /\ post[d] \in AnyPost /\ DOMAIN post = Delivery /\ post[d].pc = "weigh"
  BY DEF Weigh, At, clock, Shape
<1>1. CASE WeighedIn(d, arrivals) /\ UNCHANGED faults
  <2>1. PICK t \in post[d].at..now : To(d, IF Met(arrivals, t - Window) THEN "clear" ELSE "ignored")
    BY <1>1 DEF WeighedIn
  <2>2. t \in 0..now
    BY <1>0, <2>1 DEF AnyPost
  <2>3. /\ post'[d].pc = IF Met(arrivals, t - Window) THEN "clear" ELSE "ignored"
        /\ \A e \in Delivery \ {d} : post'[e] = post[e]
    BY <1>0, <2>1 DEF To, AnyPost
  <2>4. AnswersFor(d)'
    BY <1>0, <2>2, <2>3 DEF AnswersFor
  <2>5. \A e \in Delivery : AnswersFor(e) => AnswersFor(e)'
    BY <1>0, <1>1, <2>3, <2>4 DEF AnswersFor
  <2>6. arrivals # <<>> => Last(arrivals).of \in Delivery
    BY Recorded DEF MetInv
  <2>7. Last(arrivals)' = Last(arrivals)
    BY <1>0 DEF Last
  <2> QED
    BY <1>0, <2>5, <2>6, <2>7 DEF MetInv, InOrder
<1>2. CASE To(d, "blind") /\ Fault
  <2>1. faults' = faults + 1
    BY <1>2 DEF Fault
  <2>2. post'[d].pc = "blind" /\ \A e \in Delivery \ {d} : post'[e] = post[e]
    BY <1>0, <1>2 DEF To, AnyPost
  <2> QED
    BY <1>0, <2>1, <2>2, MetStays DEF Excused
<1> QED
  BY <1>1, <1>2 DEF Weigh

\* Whoever clears the table leaves nothing to answer for, or fires after a fault.
LEMMA ClearMet == ASSUME MetInv, Shape, NEW d \in Delivery, Clear(d) PROVE MetInv'
<1>1. CASE arrivals' = <<>>
  BY <1>1 DEF MetInv, InOrder
<1>2. CASE UNCHANGED arrivals /\ Fault
  <2>1. /\ now' = now /\ now \in Nat /\ faults' = faults + 1 /\ faults \in Nat
        /\ post[d] \in AnyPost /\ DOMAIN post = Delivery
    BY <1>2 DEF Clear, clock, Fault, Shape
  <2>2. post'[d].pc = "fire" /\ \A e \in Delivery \ {d} : post'[e] = post[e]
    BY <2>1 DEF Clear, To, AnyPost
  <2> QED
    BY <1>2, <2>1, <2>2, MetStays DEF Excused
<1> QED
  BY <1>1, <1>2 DEF Clear

\* Whoever fires does not have the arrivals in hand, unless clearing them failed.
LEMMA FireMet == ASSUME MetInv, Shape, NEW d \in Delivery, Fire(d) PROVE MetInv'
<1>1. /\ now' = now /\ now \in Nat /\ faults' = faults /\ faults \in Nat /\ arrivals' = arrivals
      /\ post[d] \in AnyPost /\ DOMAIN post = Delivery /\ post[d].pc = "fire"
  BY DEF Fire, At, world, clock, Shape
<1>2. post'[d].pc \in {"started", "refused"} /\ \A e \in Delivery \ {d} : post'[e] = post[e]
  BY <1>1 DEF Fire, To, AnyPost
<1>3. AnswersFor(d) => faults > 0
  BY <1>1 DEF AnswersFor
<1> QED
  BY <1>1, <1>2, <1>3, MetStays DEF Excused

LEMMA NextMet == IInv /\ MetInv /\ [Next]_vars => MetInv'
<1> SUFFICES ASSUME Shape, MetInv, [Next]_vars PROVE MetInv'
  BY DEF IInv
<1>1. CASE UNCHANGED vars
  BY <1>1, MetStays DEF vars, Shape
<1>2. CASE Tick
  BY <1>2, MetStays DEF Tick, Shape
<1>3. ASSUME NEW d \in Delivery, Arrive(d) \/ ReadRow(d) \/ CheckInFlight(d) PROVE MetInv'
  <2>1. /\ now' = now /\ arrivals' = arrivals /\ (faults' = faults \/ faults' = faults + 1)
        /\ post[d].pc \in {"idle", "read", "check"} /\ faults \in Nat
        /\ \A e \in Delivery \ {d} : post'[e] = post[e]
    BY <1>3 DEF Arrive, ReadRow, CheckInFlight, Fault, At, To, world, clock, Shape
  <2> QED
    BY <2>1, AnotherSteps
<1>4. ASSUME NEW d \in Delivery, Arrive(d) \/ Handle(d) PROVE MetInv'
  BY <1>3, <1>4, RecordMet, WeighMet, ClearMet, FireMet DEF Handle
<1>5. ASSUME NEW i \in DOMAIN runs, Park(i) \/ Resume(i) \/ Settle(i) \/ GiveUp(i) PROVE MetInv'
  <2>1. UNCHANGED <<world, post, arrivals>>
    BY <1>5 DEF Park, Resume, Settle, GiveUp, Becomes
  <2> QED
    BY <2>1, MetStays DEF world, clock, Shape
<1>6. CASE StartOther
  BY <1>6, MetStays DEF StartOther, world, clock, Shape
<1>7. CASE Crash
  <2>0. now' = now /\ arrivals' = arrivals /\ faults' = faults + 1 /\ faults \in Nat /\ now \in Nat
    BY <1>7 DEF Crash, Fault, Shape
  <2>1. \A d \in Delivery : post'[d] = post[d] \/ post'[d].pc = "dead"
    <3> SUFFICES ASSUME NEW d \in Delivery, post[d].pc \in Station PROVE post'[d].pc = "dead"
      BY <1>7 DEF Crash
    <3> QED
      BY <1>7 DEF Crash, Shape, AnyPost
  <2> QED
    BY <2>0, <2>1, MetStays DEF Excused
<1> QED
  BY <1>1, <1>2, <1>4, <1>5, <1>6, <1>7 DEF Next

\* Whatever handlers overlap in whatever way (record_hook_arrival, then
\* latest_hook_arrival of every kind in post_webhook): when the conditions have
\* all arrived and no handler has them in its hands, there was a fault: the one
\* that recorded last died before its check, could not read them, or fires on
\* them and failed to clear them.
THEOREM SafetyMetFires == Spec => []MetFires
<1>1. IInv /\ MetInv => MetFires
  <2> SUFFICES ASSUME Shape, MetInv, \A d \in Delivery : ~ Weighing(d), Met(arrivals, now - Window)
               PROVE  faults > 0 /\ post[Last(arrivals).of].pc \in Excused
    BY DEF IInv, MetFires, Excused
  <2> DEFINE d == Last(arrivals).of
  <2>0. now \in Nat /\ Window \in Nat
    BY HookAssumption DEF Shape
  <2>1. arrivals # <<>>
    BY <2>0, NothingIsUnmet
  <2>2. d \in Delivery /\ AnswersFor(d)
    BY <2>1, Recorded DEF MetInv
  <2>3. ASSUME NEW t \in 0..now PROVE Met(arrivals, t - Window)
    BY <2>0, MetBefore DEF MetInv
  <2> QED
    BY <2>2, <2>3 DEF AnswersFor, Weighing, Excused
<1>2. Spec => [](IInv /\ MetInv)
  BY InitIInv, NextIInv, InitMet, NextMet, PTL DEF Spec
<1> QED
  BY <1>1, <1>2, PTL

=============================================================================
