------------------------------ MODULE WorkProofs ------------------------------
(***************************************************************************)
(* Work that outlives the run that began it: background jobs, goals and    *)
(* purchases.                                                              *)
(*                                                                         *)
(* Jobs, for any set of jobs and any limit on them: a job reads as done    *)
(* only if its work went well, and a container outlives its job only if it *)
(* was out of reach.  The argument, JobsInv, says where a container can    *)
(* be, who will remove it, and who knows how the work ended.               *)
(*                                                                         *)
(* Goals, for any number of goals and of sessions that overlap: the streak *)
(* that pauses a goal is true.  The argument, GoalsInv: only the session   *)
(* that holds the mutex of the hook settles, so what it read of its goal   *)
(* still stands when it writes.                                            *)
(*                                                                         *)
(* Purchases, for any number of calls, charges and deliveries and any      *)
(* amounts: what counts in a month stays within its highest limit, but for *)
(* what merchants took in excess.  The argument, PurchasingInv, says what  *)
(* a call that goes on unasked has seen, and what a purchase that was      *)
(* marked once is settled with; the sums of the table need an induction,   *)
(* which is done over sets of numbers that have no least member outside.   *)
(***************************************************************************)
EXTENDS Jobs, Goals, Purchasing, WellFoundedInduction, TLAPS

-----------------------------------------------------------------------------
(***************************************************************************)
(* Background jobs                                                         *)
(***************************************************************************)

\* Nothing is under way for a job without a row.
Fresh(j) ==
  row[j] = "none" =>
    /\ starter[j] = "none" /\ queue[j] = "none" /\ claim[j] = "none"
    /\ box[j] = "none" /\ watch[j] = "off" /\ stopper[j] = "none" /\ outcome[j] = "none"

\* A question to a colleague has no container, and nobody watches it.
NoBox(j) ==
  place[j] = "colleague" =>
    starter[j] = "none" /\ queue[j] = "none" /\ box[j] = "none" /\ watch[j] = "off"

\* The work is started once: by the call, or by the wait loop under its claim.
StartedOnce(j) ==
  /\ OnItsWay(j) => box[j] = "none" /\ outcome[j] = "none"
  /\ starter[j] = "spawn" => queue[j] = "none" /\ watch[j] = "off"
  /\ claim[j] = "held" => queue[j] = "wait"
  /\ box[j] = "up" => outcome[j] = "none"

\* Whoever says that the work went well knows it from the container.
Truthful(j) ==
  box[j] = "ok" \/ watch[j] = "ok" \/ row[j] = "done" => outcome[j] = "ok"

\* A container in reach has a watcher, who has not let go of it.
InReach(j) ==
  box[j] # "none" /\ ~ loose[j] =>
    /\ watch[j] # "off"
    /\ row[j] # "running" => watch[j] = "kill"

\* Who has killed, or found nothing to kill, knows of what may still come up or
\* stay.
Killed(j) ==
  /\ watch[j] = "kill" => row[j] # "running"
  /\ stopper[j] = "finish" \/ watch[j] = "expired" =>
       (OnItsWay(j) \/ box[j] # "none" => loose[j])
  /\ starter[j] = "spawn" /\ row[j] # "running" => loose[j]

Good(j) == Fresh(j) /\ NoBox(j) /\ StartedOnce(j) /\ Truthful(j) /\ InReach(j) /\ Killed(j)

JobsInv == JobsOK /\ \A j \in Job : Good(j)

-----------------------------------------------------------------------------
\* What a step on one job does to another: nothing.
SameAt(k) ==
  /\ row'[k] = row[k] /\ place'[k] = place[k] /\ starter'[k] = starter[k]
  /\ box'[k] = box[k] /\ queue'[k] = queue[k] /\ claim'[k] = claim[k]
  /\ watch'[k] = watch[k] /\ stopper'[k] = stopper[k] /\ late'[k] = late[k]
  /\ outcome'[k] = outcome[k] /\ loose'[k] = loose[k]

LEMMA StillGood == ASSUME NEW k \in Job, Good(k), SameAt(k) PROVE Good(k)'
BY DEF Good, SameAt, Fresh, NoBox, StartedOnce, OnItsWay, Truthful, InReach, Killed

\* Putting a truth value on a job.
LEMMA PutLoose ==
  ASSUME JobsOK, NEW j \in Job, NEW b \in BOOLEAN, loose' = Put(loose, j, b)
  PROVE  loose' \in [Job -> BOOLEAN] /\ loose'[j] = b /\ \A k \in Job \ {j} : loose'[k] = loose[k]
BY DEF JobsOK, Put

LEMMA InitJobsInv == JobsInit => JobsInv
BY DEF JobsInit, JobsInv, JobsOK, Good, Fresh, NoBox, StartedOnce, OnItsWay, Truthful, InReach, Killed,
       Outcome, Ended

\* create_job makes a row and nothing else, but for the call that will start it.
LEMMA CreateJobsInv == ASSUME JobsInv, NEW j \in Job, Create(j) PROVE JobsInv'
<1>1. JobsOK' /\ \A k \in Job \ {j} : SameAt(k)
  BY DEF Create, JobsInv, JobsOK, SameAt, Put
<1>2. Good(j)'
  BY DEF Create, JobsInv, JobsOK, Put, Good, Fresh, NoBox, StartedOnce, OnItsWay,
         Truthful, InReach, Killed
<1> QED
  BY <1>1, <1>2, StillGood DEF JobsInv

\* A container that came up for a job that has ended meanwhile was declared out
\* of reach by whoever ended it.
LEMMA StartedJobsInv == ASSUME JobsInv, NEW j \in Job, Started(j) PROVE JobsInv'
<1>1. JobsOK' /\ \A k \in Job \ {j} : SameAt(k)
  BY DEF Started, JobsInv, JobsOK, SameAt, Put
<1>2. Good(j)'
  BY DEF Started, JobsInv, JobsOK, Put, Good, Fresh, NoBox, StartedOnce, OnItsWay,
         Truthful, InReach, Killed
<1> QED
  BY <1>1, <1>2, StillGood DEF JobsInv

\* A docker run that failed leaves no container, or one out of reach.
LEMMA NotStartedJobsInv == ASSUME JobsInv, NEW j \in Job, NotStarted(j) PROVE JobsInv'
<1>1. /\ loose' \in [Job -> BOOLEAN] /\ \A k \in Job \ {j} : loose'[k] = loose[k]
      /\ box' \in [Job -> {"none", "up", "ok", "bad"}] /\ \A k \in Job \ {j} : box'[k] = box[k]
      /\ \/ box'[j] = box[j] /\ loose'[j] = loose[j]
         \/ box'[j] = "up" /\ loose'[j]
  <2>1. CASE UNCHANGED <<box, loose>>
    BY <2>1 DEF JobsInv, JobsOK
  <2>2. CASE box' = Put(box, j, "up") /\ loose' = Put(loose, j, TRUE)
    <3>1. box' \in [Job -> {"none", "up", "ok", "bad"}] /\ box'[j] = "up"
          /\ \A k \in Job \ {j} : box'[k] = box[k]
      BY <2>2 DEF JobsInv, JobsOK, Put
    <3>2. TRUE \in BOOLEAN
      OBVIOUS
    <3> QED
      BY <2>2, <3>1, <3>2, PutLoose DEF JobsInv
  <2> QED
    BY <2>1, <2>2 DEF NotStarted
<1>2. /\ starter[j] = "spawn" /\ starter' = Put(starter, j, "none")
      /\ row' = Put(row, j, "failed") /\ row[j] # "none"
      /\ UNCHANGED <<place, queue, claim, watch, stopper, late, outcome>>
  <2>1. starter[j] = "spawn" /\ row[j] # "none"
    BY DEF NotStarted, JobsInv, Good, Fresh
  <2> QED
    BY <2>1 DEF NotStarted, Finish
<1>3. JobsOK' /\ \A k \in Job \ {j} : SameAt(k)
  BY <1>1, <1>2 DEF JobsInv, JobsOK, SameAt, Put, Ended
<1>4. Good(j)'
  BY <1>1, <1>2 DEF JobsInv, JobsOK, Put, Good, Fresh, NoBox, StartedOnce, OnItsWay, Truthful,
         InReach, Killed
<1> QED
  BY <1>3, <1>4, StillGood DEF JobsInv

\* The wait loop and the watcher take over from the call.
LEMMA QueuedJobsInv == ASSUME JobsInv, NEW j \in Job, Queued(j) PROVE JobsInv'
<1>1. JobsOK' /\ \A k \in Job \ {j} : SameAt(k)
  BY DEF Queued, JobsInv, JobsOK, SameAt, Put
<1>2. Good(j)'
  BY DEF Queued, JobsInv, JobsOK, Put, Good, Fresh, NoBox, StartedOnce, OnItsWay,
         Truthful, InReach, Killed
<1> QED
  BY <1>1, <1>2, StillGood DEF JobsInv

\* The wait loop ends without a container.
LEMMA CancelledJobsInv == ASSUME JobsInv, NEW j \in Job, Cancelled(j) PROVE JobsInv'
<1>1. JobsOK' /\ \A k \in Job \ {j} : SameAt(k)
  BY DEF Cancelled, JobsInv, JobsOK, SameAt, Put
<1>2. Good(j)'
  BY DEF Cancelled, JobsInv, JobsOK, Put, Good, Fresh, NoBox, StartedOnce, OnItsWay,
         Truthful, InReach, Killed
<1> QED
  BY <1>1, <1>2, StillGood DEF JobsInv

\* The claim is given up while the container is still to come.
LEMMA WakesJobsInv == ASSUME JobsInv, NEW j \in Job, Wakes(j) PROVE JobsInv'
<1>1. JobsOK' /\ \A k \in Job \ {j} : SameAt(k)
  BY DEF Wakes, JobsInv, JobsOK, SameAt, Put
<1>2. Good(j)'
  BY DEF Wakes, JobsInv, JobsOK, Put, Good, Fresh, NoBox, StartedOnce, OnItsWay,
         Truthful, InReach, Killed
<1> QED
  BY <1>1, <1>2, StillGood DEF JobsInv

\* A worker that never woke has no container to leave behind.
LEMMA NeverWokeJobsInv == ASSUME JobsInv, NEW j \in Job, NeverWoke(j) PROVE JobsInv'
<1>1. JobsOK' /\ \A k \in Job \ {j} : SameAt(k)
  BY DEF NeverWoke, JobsInv, JobsOK, SameAt, Put, Finish, Ended
<1>2. Good(j)'
  BY DEF NeverWoke, JobsInv, JobsOK, Put, Finish, Good, Fresh, NoBox, StartedOnce,
         OnItsWay, Truthful, InReach, Killed
<1> QED
  BY <1>1, <1>2, StillGood DEF JobsInv

\* The container of the wait loop has a watcher, or is out of reach.
LEMMA StartedLateJobsInv == ASSUME JobsInv, NEW j \in Job, StartedLate(j) PROVE JobsInv'
<1>1. /\ loose' \in [Job -> BOOLEAN] /\ \A k \in Job \ {j} : loose'[k] = loose[k]
      /\ box' \in [Job -> {"none", "up", "ok", "bad"}] /\ \A k \in Job \ {j} : box'[k] = box[k]
      /\ row' \in [Job -> {"none", "running"} \cup Ended] /\ \A k \in Job \ {j} : row'[k] = row[k]
      /\ \/ /\ box'[j] = "up" /\ row'[j] = row[j]
            /\ loose'[j] = (loose[j] \/ watch[j] = "off" \/ row[j] # "running")
         \/ box'[j] = box[j] /\ loose'[j] = loose[j] /\ (row[j] = "none" \/ row'[j] = "failed")
  <2>1. CASE /\ box' = Put(box, j, "up") /\ UNCHANGED row
             /\ loose' = Put(loose, j, loose[j] \/ watch[j] = "off" \/ row[j] # "running")
    <3>1. (loose[j] \/ watch[j] = "off" \/ row[j] # "running") \in BOOLEAN
      OBVIOUS
    <3>2. box' \in [Job -> {"none", "up", "ok", "bad"}] /\ box'[j] = "up"
          /\ \A k \in Job \ {j} : box'[k] = box[k]
      BY <2>1 DEF JobsInv, JobsOK, Put
    <3> QED
      BY <2>1, <3>1, <3>2, PutLoose DEF JobsInv, JobsOK
  <2>2. CASE Finish(j, "failed") /\ UNCHANGED <<box, loose>>
    BY <2>2 DEF JobsInv, JobsOK, Put, Finish, Ended
  <2> QED
    BY <2>1, <2>2 DEF StartedLate
<1>2. queue' = Put(queue, j, "none") /\ queue[j] = "start"
      /\ UNCHANGED <<place, starter, claim, watch, stopper, late, outcome>>
  BY DEF StartedLate
<1>3. JobsOK' /\ \A k \in Job \ {j} : SameAt(k)
  BY <1>1, <1>2 DEF JobsInv, JobsOK, SameAt, Put
<1>4. Good(j)'
  BY <1>1, <1>2 DEF JobsInv, JobsOK, Put, Good, Fresh, NoBox, StartedOnce, OnItsWay,
         Truthful, InReach, Killed
<1> QED
  BY <1>3, <1>4, StillGood DEF JobsInv

-----------------------------------------------------------------------------

\* A container ends once, and how it ended is what really happened.
LEMMA ExitsJobsInv == ASSUME JobsInv, NEW j \in Job, NEW how \in {"ok", "bad"}, Exits(j, how) PROVE JobsInv'
<1>1. JobsOK' /\ \A k \in Job \ {j} : SameAt(k)
  BY DEF Exits, JobsInv, JobsOK, SameAt, Put, Outcome
<1>2. Good(j)'
  BY DEF Exits, JobsInv, JobsOK, Put, Good, Fresh, NoBox, StartedOnce, OnItsWay,
         Truthful, InReach, Killed
<1> QED
  BY <1>1, <1>2, StillGood DEF JobsInv

\* A colleague's answer is the work of its job.
LEMMA AnswersJobsInv ==
  ASSUME JobsInv, NEW j \in Job, NEW how \in {"ok", "bad"}, Answers(j, how) PROVE JobsInv'
<1>1. JobsOK' /\ \A k \in Job \ {j} : SameAt(k)
  BY DEF Answers, JobsInv, JobsOK, SameAt, Put, Finish, Ended, Outcome
<1>2. Good(j)'
  BY DEF Answers, JobsInv, JobsOK, Put, Finish, Good, Fresh, NoBox, StartedOnce,
         OnItsWay, Truthful, InReach, Killed
<1> QED
  BY <1>1, <1>2, StillGood DEF JobsInv

\* Lateness alone changes nothing.
LEMMA TimePassesJobsInv == ASSUME JobsInv, NEW j \in Job, TimePasses(j) PROVE JobsInv'
<1>1. JobsOK' /\ \A k \in Job \ {j} : SameAt(k)
  BY DEF TimePasses, JobsInv, JobsOK, SameAt, Put
<1>2. Good(j)'
  BY DEF TimePasses, JobsInv, JobsOK, Put, Good, Fresh, NoBox, StartedOnce,
         OnItsWay, Truthful, InReach, Killed
<1> QED
  BY <1>1, <1>2, StillGood DEF JobsInv

-----------------------------------------------------------------------------
\* The watcher lets go of a job that has ended: its container is gone or out of reach.
LEMMA PollJobsInv == ASSUME JobsInv, NEW j \in Job, Poll(j) PROVE JobsInv'
<1>1. JobsOK' /\ \A k \in Job \ {j} : SameAt(k)
  BY DEF Poll, Watches, restUnchanged, JobsInv, JobsOK, SameAt, Put
<1>2. Good(j)'
  BY DEF Poll, Watches, restUnchanged, JobsInv, JobsOK, Put, Good, Fresh, NoBox,
         StartedOnce, OnItsWay, Truthful, InReach, Killed
<1> QED
  BY <1>1, <1>2, StillGood DEF JobsInv

\* Only an exit with 0 is taken for one.
LEMMA ProbeJobsInv == ASSUME JobsInv, NEW j \in Job, Probe(j) PROVE JobsInv'
<1>1. JobsOK' /\ \A k \in Job \ {j} : SameAt(k)
  BY DEF Probe, Watches, restUnchanged, JobsInv, JobsOK, SameAt, Put
<1>2. Good(j)'
  BY DEF Probe, Watches, restUnchanged, JobsInv, JobsOK, Put, Good, Fresh, NoBox,
         StartedOnce, OnItsWay, Truthful, InReach, Killed
<1> QED
  BY <1>1, <1>2, StillGood DEF JobsInv

\* What the watcher writes is what it found; the container is removed next.
LEMMA RecordJobsInv == ASSUME JobsInv, NEW j \in Job, Record(j) PROVE JobsInv'
<1>1. JobsOK' /\ \A k \in Job \ {j} : SameAt(k)
  BY DEF Record, Watches, restUnchanged, JobsInv, JobsOK, SameAt, Put, Finish, Ended
<1>2. Good(j)'
  BY DEF Record, Watches, restUnchanged, JobsInv, JobsOK, Put, Finish, Good, Fresh,
         NoBox, StartedOnce, OnItsWay, Truthful, InReach, Killed
<1> QED
  BY <1>1, <1>2, StillGood DEF JobsInv

\* A job past its limit has been killed, or is out of reach.
LEMMA ExpireJobsInv == ASSUME JobsInv, NEW j \in Job, Expire(j) PROVE JobsInv'
<1>1. JobsOK' /\ \A k \in Job \ {j} : SameAt(k)
  BY DEF Expire, Watches, restUnchanged, JobsInv, JobsOK, SameAt, Put, Finish, Ended
<1>2. Good(j)'
  BY DEF Expire, Watches, restUnchanged, JobsInv, JobsOK, Put, Finish, Good, Fresh,
         NoBox, StartedOnce, OnItsWay, Truthful, InReach, Killed
<1> QED
  BY <1>1, <1>2, StillGood DEF JobsInv

\* Whoever removes a container marks the one that is still on its way or there.
LEMMA MissesIs ==
  ASSUME JobsOK, NEW j \in Job, Misses(j)
  PROVE  /\ loose' \in [Job -> BOOLEAN] /\ \A k \in Job \ {j} : loose'[k] = loose[k]
         /\ loose'[j] = (loose[j] \/ OnItsWay(j) \/ box'[j] # "none")
<1>1. (loose[j] \/ OnItsWay(j) \/ box'[j] # "none") \in BOOLEAN
  OBVIOUS
<1> QED
  BY <1>1, PutLoose DEF Misses

\* Whoever kills removes the container or leaves it as it is, or cancels a job
\* that has none yet.
LEMMA KillsHereIs ==
  ASSUME JobsOK, NEW j \in Job, StartedOnce(j), KillsHere(j)
  PROVE  /\ box' \in [Job -> {"none", "up", "ok", "bad"}]
         /\ claim' \in [Job -> {"none", "held", "cancelled"}]
         /\ \A k \in Job \ {j} : box'[k] = box[k] /\ claim'[k] = claim[k]
         /\ box'[j] \in {"none", box[j]} /\ (claim'[j] = "held" => claim[j] = "held")
BY DEF KillsHere, JobsOK, Put, Remove, StartedOnce, OnItsWay

\* The watcher tries to remove the container and is done.
LEMMA CleanUpJobsInv == ASSUME JobsInv, NEW j \in Job, CleanUp(j) PROVE JobsInv'
<1>1. /\ loose' \in [Job -> BOOLEAN] /\ \A k \in Job \ {j} : loose'[k] = loose[k]
      /\ loose'[j] = (loose[j] \/ OnItsWay(j) \/ box'[j] # "none")
  BY MissesIs DEF CleanUp, JobsInv
<1>2. /\ box' \in [Job -> {"none", "up", "ok", "bad"}]
      /\ claim' \in [Job -> {"none", "held", "cancelled"}]
      /\ \A k \in Job \ {j} : box'[k] = box[k] /\ claim'[k] = claim[k]
      /\ box'[j] \in {"none", box[j]} /\ (claim'[j] = "held" => claim[j] = "held")
  BY DEF CleanUp, Remove, JobsInv, JobsOK, Put, restUnchanged
<1>3. /\ watch[j] = "kill" /\ watch' = Put(watch, j, "off")
      /\ UNCHANGED <<row, place, starter, queue, claim, stopper, late, outcome>>
  BY DEF CleanUp, Watches, restUnchanged
<1>8. JobsOK' /\ \A k \in Job \ {j} : SameAt(k)
  BY <1>1, <1>2, <1>3 DEF JobsInv, JobsOK, SameAt, Put
<1>9. Good(j)'
  BY <1>1, <1>2, <1>3 DEF JobsInv, JobsOK, Put, Good, Fresh, NoBox, StartedOnce,
     OnItsWay, Truthful, InReach, Killed
<1> QED
  BY <1>8, <1>9, StillGood DEF JobsInv

\* The watcher kills a job past its limit and keeps its row for the next step.
LEMMA KillLateJobsInv == ASSUME JobsInv, NEW j \in Job, KillLate(j) PROVE JobsInv'
<1>1. /\ loose' \in [Job -> BOOLEAN] /\ \A k \in Job \ {j} : loose'[k] = loose[k]
      /\ loose'[j] = (loose[j] \/ OnItsWay(j) \/ box'[j] # "none")
  BY MissesIs DEF KillLate, JobsInv
<1>2. /\ box' \in [Job -> {"none", "up", "ok", "bad"}]
      /\ claim' \in [Job -> {"none", "held", "cancelled"}]
      /\ \A k \in Job \ {j} : box'[k] = box[k] /\ claim'[k] = claim[k]
      /\ box'[j] \in {"none", box[j]} /\ (claim'[j] = "held" => claim[j] = "held")
  BY KillsHereIs DEF KillLate, JobsInv, Good
<1>3. /\ watch[j] = "late" /\ watch' = Put(watch, j, "expired")
      /\ UNCHANGED <<row, place, starter, queue, stopper, late, outcome>>
  BY DEF KillLate, Watches
<1>8. JobsOK' /\ \A k \in Job \ {j} : SameAt(k)
  BY <1>1, <1>2, <1>3 DEF JobsInv, JobsOK, SameAt, Put
<1>9. Good(j)'
  BY <1>1, <1>2, <1>3 DEF JobsInv, JobsOK, Put, Good, Fresh, NoBox, StartedOnce,
     OnItsWay, Truthful, InReach, Killed
<1> QED
  BY <1>8, <1>9, StillGood DEF JobsInv

\* stop_job has looked at the row and nothing else.
LEMMA StopJobsInv == ASSUME JobsInv, NEW j \in Job, Stop(j) PROVE JobsInv'
<1>1. JobsOK' /\ \A k \in Job \ {j} : SameAt(k)
  BY DEF Stop, JobsInv, JobsOK, SameAt, Put
<1>2. Good(j)'
  BY DEF Stop, JobsInv, JobsOK, Put, Good, Fresh, NoBox, StartedOnce, OnItsWay,
         Truthful, InReach, Killed
<1> QED
  BY <1>1, <1>2, StillGood DEF JobsInv

\* A stop removes the container, here or from another run, and misses only what
\* is on its way or what docker did not remove.
LEMMA StopKillsJobsInv == ASSUME JobsInv, NEW j \in Job, StopKills(j) PROVE JobsInv'
<1>1. /\ loose' \in [Job -> BOOLEAN] /\ \A k \in Job \ {j} : loose'[k] = loose[k]
      /\ loose'[j] = (loose[j] \/ OnItsWay(j) \/ box'[j] # "none")
  BY MissesIs DEF StopKills, JobsInv
<1>2. /\ box' \in [Job -> {"none", "up", "ok", "bad"}]
      /\ claim' \in [Job -> {"none", "held", "cancelled"}]
      /\ \A k \in Job \ {j} : box'[k] = box[k] /\ claim'[k] = claim[k]
      /\ box'[j] \in {"none", box[j]} /\ (claim'[j] = "held" => claim[j] = "held")
  <2>1. CASE KillsHere(j)
    BY <2>1, KillsHereIs DEF JobsInv, Good
  <2>2. CASE Remove(j) /\ UNCHANGED claim
    BY <2>2 DEF Remove, JobsInv, JobsOK, Put
  <2> QED
    BY <2>1, <2>2 DEF StopKills
<1>3. /\ stopper[j] = "kill" /\ stopper' = Put(stopper, j, "finish")
      /\ UNCHANGED <<row, place, starter, queue, watch, late, outcome>>
  BY DEF StopKills
<1>8. JobsOK' /\ \A k \in Job \ {j} : SameAt(k)
  BY <1>1, <1>2, <1>3 DEF JobsInv, JobsOK, SameAt, Put
<1>9. Good(j)'
  BY <1>1, <1>2, <1>3 DEF JobsInv, JobsOK, Put, Good, Fresh, NoBox, StartedOnce,
     OnItsWay, Truthful, InReach, Killed
<1> QED
  BY <1>8, <1>9, StillGood DEF JobsInv

\* A stopped job's container was removed, or is out of reach.
LEMMA StopFinishesJobsInv == ASSUME JobsInv, NEW j \in Job, StopFinishes(j) PROVE JobsInv'
<1>1. JobsOK' /\ \A k \in Job \ {j} : SameAt(k)
  BY DEF StopFinishes, JobsInv, JobsOK, SameAt, Put, Finish, Ended
<1>2. Good(j)'
  BY DEF StopFinishes, JobsInv, JobsOK, Put, Finish, Good, Fresh, NoBox,
         StartedOnce, OnItsWay, Truthful, InReach, Killed
<1> QED
  BY <1>1, <1>2, StillGood DEF JobsInv

\* A restart ends every running job and every task, and all containers are out
\* of reach.
LEMMA RestartJobsInv == ASSUME JobsInv, Restart PROVE JobsInv'
<1>1. /\ starter' = [j \in Job |-> "none"] /\ queue' = [j \in Job |-> "none"]
      /\ claim' = [j \in Job |-> "none"] /\ watch' = [j \in Job |-> "off"]
      /\ stopper' = [j \in Job |-> "none"] /\ UNCHANGED <<place, box, late>>
  BY DEF Restart
<1>2. /\ row' \in [Job -> {"none", "running"} \cup Ended]
      /\ \A j \in Job : row'[j] = IF row[j] = "running" THEN "failed" ELSE row[j]
  BY DEF Restart, JobsInv, JobsOK, Ended
<1>3. /\ outcome' \in [Job -> Outcome]
      /\ \A j \in Job : \/ outcome'[j] = outcome[j]
                        \/ outcome[j] = "none" /\ row[j] # "none" /\ place[j] = "colleague"
  BY DEF Restart, JobsInv, JobsOK, Outcome
<1>4. /\ loose' \in [Job -> BOOLEAN]
      /\ \A j \in Job : loose'[j] = (loose[j] \/ box[j] # "none")
  <2>1. loose' = [j \in Job |-> loose[j] \/ box[j] # "none"]
    BY DEF Restart
  <2>2. \A j \in Job : (loose[j] \/ box[j] # "none") \in BOOLEAN
    OBVIOUS
  <2> QED
    BY <2>1, <2>2
<1>5. JobsOK'
  BY <1>1, <1>2, <1>3, <1>4 DEF JobsInv, JobsOK
<1>6. ASSUME NEW j \in Job PROVE Good(j)'
  BY <1>1, <1>2, <1>3, <1>4 DEF JobsInv, Good, Fresh, NoBox, StartedOnce, OnItsWay, Truthful, InReach,
         Killed
<1> QED
  BY <1>5, <1>6 DEF JobsInv

\* Steps that leave every variable alone leave the invariant alone.
LEMMA StutterJobsInv == ASSUME JobsInv, UNCHANGED jobs PROVE JobsInv'
BY DEF jobs, JobsInv, JobsOK, Good, Fresh, NoBox, StartedOnce, OnItsWay, Truthful, InReach, Killed

LEMMA NextJobsInv == JobsInv /\ [JobsNext]_jobs => JobsInv'
<1> SUFFICES ASSUME JobsInv, [JobsNext]_jobs PROVE JobsInv'
  OBVIOUS
<1>1. CASE UNCHANGED jobs
  BY <1>1, StutterJobsInv
<1>2. CASE Restart
  BY <1>2, RestartJobsInv
<1>3. ASSUME NEW j \in Job, Create(j) \/ StartStep(j) \/ QueueStep(j) PROVE JobsInv'
  BY <1>3, CreateJobsInv, StartedJobsInv, NotStartedJobsInv, QueuedJobsInv, CancelledJobsInv, WakesJobsInv,
     NeverWokeJobsInv, StartedLateJobsInv DEF StartStep, QueueStep
<1>4. ASSUME NEW j \in Job, WatchStep(j) PROVE JobsInv'
  BY <1>4, PollJobsInv, ProbeJobsInv, RecordJobsInv, CleanUpJobsInv, KillLateJobsInv, ExpireJobsInv DEF WatchStep
<1>5. ASSUME NEW j \in Job, Stop(j) \/ StopStep(j) \/ TimePasses(j) PROVE JobsInv'
  BY <1>5, StopJobsInv, StopKillsJobsInv, StopFinishesJobsInv, TimePassesJobsInv DEF StopStep
<1>6. ASSUME NEW j \in Job, NEW how \in {"ok", "bad"}, Exits(j, how) \/ Answers(j, how) PROVE JobsInv'
  BY <1>6, ExitsJobsInv, AnswersJobsInv
<1> QED
  BY <1>1, <1>2, <1>3, <1>4, <1>5, <1>6 DEF JobsNext

-----------------------------------------------------------------------------
\* The inductive invariant: where a job's container can be, who will remove
\* it, and who knows how the work ended, through job_runner.rs, workers.rs
\* and a restart.
THEOREM JobsInvariant == JobsSpec => []JobsInv
<1>1. JobsInit => JobsInv
  BY InitJobsInv
<1>2. JobsInv /\ [JobsNext]_jobs => JobsInv'
  BY NextJobsInv
<1> QED
  BY <1>1, <1>2, PTL DEF JobsSpec

\* A job of any number of jobs reads as done only if its command exited with 0
\* or its colleague answered (watch_shell_job, finish_job).
THEOREM DoneOnlyIfDone == JobsSpec => []DoneIsTrue
<1>1. JobsInv => DoneIsTrue
  BY DEF JobsInv, Good, Truthful, DoneIsTrue
<1> QED
  BY <1>1, JobsInvariant, PTL

\* When nobody is busy with an ended job any more, its container is gone, or it
\* was out of reach of those who ended it (kill, wait_then_spawn).
THEOREM NoContainerForgotten == JobsSpec => []CleanedUp
<1>1. JobsInv => CleanedUp
  BY DEF JobsInv, Good, InReach, CleanedUp, AtRest
<1> QED
  BY <1>1, JobsInvariant, PTL

-----------------------------------------------------------------------------
(***************************************************************************)
(* Goals                                                                   *)
(***************************************************************************)

\* The streak was read and is still to be written.
Counting == {"spend", "count"}

\* Only the session that holds the mutex of the hook settles, and the streak it
\* read of its goal still stands.
Alone(s) ==
  session[s].pc \in Settling =>
    /\ hook = s
    /\ session[s].pc \in Counting /\ Here(session[s].goal) =>
         session[s].streak = goal[session[s].goal].streak

GoalsInv ==
  /\ GoalsOK
  /\ \A s \in Session : session[s] # Free => Alone(s)
  /\ StreakIsTrue

LEMMA RowIsHere == \A entry \in Row : entry # Gone
BY DEF Row, Gone

LEMMA SessionIsNotFree == \A x \in SessionRow : x # Free /\ x.pc # "free"
BY DEF SessionRow, Free, Settling

\* What holds of the streak is left alone by a step that counts no session: it
\* keeps the streak of every goal, whoever settles after it holds the mutex, and
\* who is to write a streak has read it before.
LEMMA Kept ==
  ASSUME GoalsInv, GoalsOK', spell' = spell,
         \A g \in Goal : Here(g)' => Here(g) /\ goal'[g].streak = goal[g].streak,
         \A s \in Session : session'[s] # Free /\ session'[s].pc \in Settling => hook' = s,
         \A s \in Session : session'[s] # Free /\ session'[s].pc \in Counting =>
           /\ session[s] # Free /\ session[s].pc \in Counting
           /\ session'[s].goal = session[s].goal /\ session'[s].streak = session[s].streak
  PROVE  GoalsInv'
<1>1. StreakIsTrue'
  BY DEF GoalsInv, StreakIsTrue
<1>2. ASSUME NEW s \in Session, session'[s] # Free PROVE Alone(s)'
  <2>1. CASE session'[s].pc \in Counting
    <3>1. /\ session[s] # Free /\ session[s].pc \in Counting /\ session[s] \in SessionRow
          /\ session'[s].goal = session[s].goal /\ session'[s].streak = session[s].streak
      BY <1>2, <2>1 DEF GoalsInv, GoalsOK
    <3>2. session[s].goal \in Goal /\ Alone(s) /\ session[s].pc \in Settling
      BY <3>1 DEF GoalsInv, SessionRow, Settling, Counting
    <3> QED
      BY <1>2, <2>1, <3>1, <3>2 DEF Alone, Settling, Counting
  <2>2. CASE session'[s].pc \notin Counting
    BY <1>2, <2>2 DEF Alone
  <2> QED
    BY <2>1, <2>2
<1> QED
  BY <1>1, <1>2 DEF GoalsInv

\* A step that leaves the sessions and the mutex alone.
LEMMA KeptBySome ==
  ASSUME GoalsInv, GoalsOK', spell' = spell, session' = session, hook' = hook,
         \A g \in Goal : Here(g)' => Here(g) /\ goal'[g].streak = goal[g].streak
  PROVE  GoalsInv'
<1>1. ASSUME NEW s \in Session, session'[s] # Free, session'[s].pc \in Settling PROVE hook' = s
  BY <1>1 DEF GoalsInv, Alone
<1> QED
  BY <1>1, Kept

\* A row is put back with a new field, or stays gone.
LEMMA PutIs ==
  ASSUME GoalsOK, NEW g \in Goal, NEW entry, Here(g) => entry \in Row, PutGoal(g, entry)
  PROVE  /\ goal' \in [Goal -> Row \cup {Gone}]
         /\ \A q \in Goal : Here(q)' <=> Here(q)
         /\ Here(g) => goal'[g] = entry
         /\ \A q \in Goal \ {g} : goal'[q] = goal[q]
<1>1. goal \in [Goal -> Row \cup {Gone}]
  BY DEF GoalsOK
<1>2. CASE Here(g)
  <2>1. goal' = [goal EXCEPT ![g] = entry] /\ entry \in Row /\ entry # Gone
    BY <1>2, RowIsHere DEF PutGoal
  <2> QED
    BY <1>1, <1>2, <2>1 DEF Here
<1>3. CASE ~ Here(g)
  BY <1>1, <1>3 DEF PutGoal, Here
<1> QED
  BY <1>2, <1>3

LEMMA InitGoalsInv == GoalsInit => GoalsInv
<1> SUFFICES ASSUME GoalsInit PROVE GoalsInv
  OBVIOUS
<1>1. hour \in 0 .. DayLen - 1 /\ 0 \in Spent /\ 0 \in Streak /\ 0 \in 0 .. DayLen
  BY GoalsAssumption DEF GoalsInit, Spent, Streak, NoToolLimit
<1>2. goal \in [Goal -> Row] /\ \A g \in Goal : goal[g].streak = 0
  BY <1>1 DEF GoalsInit, Row, Status, Deadline
<1>3. GoalsOK
  BY <1>1, <1>2 DEF GoalsInit, GoalsOK, Idle, TickRow
<1> QED
  BY <1>2, <1>3 DEF GoalsInit, GoalsInv, StreakIsTrue, Alone

-----------------------------------------------------------------------------
\* fire_due_goals only reads the goals and puts them off or ends them.
LEMMA ListGoals == ASSUME GoalsInv, NEW k \in Ticker, List(k) PROVE GoalsInv'
<1>1. ASSUME NEW g \in Goal PROVE AsListed(g) \in Due
  <2>1. hour \in Nat /\ hour < DayLen /\ {DayLen, QuietFrom, QuietTo} \subseteq Nat
        /\ QuietTo < QuietFrom /\ QuietFrom < DayLen
    BY GoalsAssumption DEF GoalsInv, GoalsOK
  <2>2. (IF IsQuiet(hour) THEN ToMorning(hour) ELSE 0) \in 0 .. DayLen
    BY <2>1 DEF IsQuiet, ToMorning
  <2>3. Overrun(goal[g]) \in BOOLEAN
    BY DEF Overrun
  <2> QED
    BY <2>2, <2>3 DEF AsListed, Due
<1>2. tick' \in [Ticker -> TickRow]
  <2>1. {AsListed(g) : g \in {q \in Goal : IsDue(q)}} \in SUBSET Due
    BY <1>1
  <2> QED
    BY <2>1 DEF List, GoalsInv, GoalsOK, TickRow
<1>3. ticked' \in BOOLEAN
  BY DEF List
<1>4. GoalsOK'
  BY <1>2, <1>3 DEF List, GoalsInv, GoalsOK
<1> QED
  BY <1>4, KeptBySome DEF List, Here

\* The next row in hand is written; the rest of the tick is a tick.
LEMMA HandlesGoals ==
  ASSUME GoalsInv, NEW k \in Ticker, NEW d \in tick[k].due, NEW field \in {"status", "next"}, NEW value,
         Handles(k, d, field, value), tick' \in [Ticker -> TickRow],
         field = "status" => value \in Status, field = "next" => value \in 0 .. DayLen
  PROVE  GoalsInv'
<1>1. GoalsOK /\ d.goal \in Goal
  BY DEF GoalsInv, GoalsOK, TickRow, Due
<1> DEFINE g == d.goal  entry == [goal[d.goal] EXCEPT ![field] = value]
<1>2. Here(g) => entry \in Row /\ entry.streak = goal[g].streak
  <2> SUFFICES ASSUME Here(g) PROVE entry \in Row /\ entry.streak = goal[g].streak
    OBVIOUS
  <2>1. goal[g] \in Row
    BY <1>1 DEF GoalsOK, Here
  <2> QED
    BY <2>1 DEF Row
<1>3. PutGoal(g, entry)
  BY DEF Handles
<1> HIDE DEF entry
<1>4. /\ goal' \in [Goal -> Row \cup {Gone}]
      /\ \A q \in Goal : Here(q)' <=> Here(q)
      /\ Here(g) => goal'[g] = entry
      /\ \A q \in Goal \ {g} : goal'[q] = goal[q]
  BY <1>1, <1>2, <1>3, PutIs
<1>5. GoalsOK'
  BY <1>1, <1>4 DEF Handles, GoalsOK
<1>6. \A q \in Goal : Here(q)' => Here(q) /\ goal'[q].streak = goal[q].streak
  BY <1>1, <1>2, <1>4
<1> QED
  BY <1>5, <1>6, KeptBySome DEF Handles

\* What is left of the tick.
LEMMA PassesIs ==
  ASSUME GoalsOK, NEW k \in Ticker, NEW d \in tick[k].due, Passes(k, d)
  PROVE  tick' \in [Ticker -> TickRow]
BY DEF Passes, GoalsOK, TickRow

LEMMA DueIs ==
  ASSUME GoalsOK, NEW k \in Ticker, NEW d \in tick[k].due
  PROVE  d.goal \in Goal /\ d.night \in 0 .. DayLen
BY DEF GoalsOK, TickRow, Due

LEMMA TickGoals ==
  ASSUME GoalsInv, NEW k \in Ticker, NEW d \in tick[k].due,
         StopOverrun(k, d) \/ PutOff(k, d) \/ StopAtCeiling(k, d) \/ Reschedule(k, d)
  PROVE  GoalsInv'
<1>1. GoalsOK /\ d.goal \in Goal /\ d.night \in 0 .. DayLen
  BY DueIs DEF GoalsInv
<1>2. CASE StopOverrun(k, d) \/ StopAtCeiling(k, d)
  <2>1. Handles(k, d, "status", "ended") /\ Passes(k, d) /\ "ended" \in Status
    BY <1>2 DEF StopOverrun, StopAtCeiling, Status
  <2>2. tick' \in [Ticker -> TickRow]
    BY <1>1, <2>1, PassesIs
  <2> QED
    BY <2>1, <2>2, HandlesGoals
<1>3. CASE PutOff(k, d)
  <2>1. Handles(k, d, "next", d.night) /\ Passes(k, d)
    BY <1>3 DEF PutOff
  <2>2. tick' \in [Ticker -> TickRow]
    BY <1>1, <2>1, PassesIs
  <2> QED
    BY <1>1, <2>1, <2>2, HandlesGoals
<1>4. CASE Reschedule(k, d)
  <2>1. Handles(k, d, "next", SessionHours) /\ SessionHours \in 0 .. DayLen
    BY <1>4, GoalsAssumption DEF Reschedule, SessionHours
  <2>2. tick' \in [Ticker -> TickRow]
    BY <1>1, <1>4 DEF Reschedule, GoalsOK, TickRow
  <2> QED
    BY <2>1, <2>2, HandlesGoals
<1> QED
  BY <1>2, <1>3, <1>4

\* A session that begins settles nothing yet.
LEMMA BeginsGoals ==
  ASSUME GoalsInv, NEW s \in Session, NEW g \in Goal, Begin(s, g), tick' \in [Ticker -> TickRow],
         UNCHANGED <<hour, ticked, goal, hook, spell>>
  PROVE  GoalsInv'
<1> DEFINE new == [pc |-> "running", goal |-> g, streak |-> 0]
<1>1. new \in SessionRow /\ new.pc = "running"
  BY DEF SessionRow, Streak, NoToolLimit
<1>2. session' = [session EXCEPT ![s] = new]
  BY DEF Begin
<1> HIDE DEF new
<1>3. session' \in [Session -> SessionRow \cup {Free}] /\ session'[s] = new
      /\ \A q \in Session \ {s} : session'[q] = session[q]
  BY <1>1, <1>2 DEF GoalsInv, GoalsOK
<1>4. GoalsOK'
  BY <1>3 DEF GoalsInv, GoalsOK
<1>5. ASSUME NEW q \in Session, session'[q] # Free, session'[q].pc \in Settling
      PROVE  hook' = q /\ session'[q] = session[q]
  <2>1. q # s
    BY <1>1, <1>3, <1>5 DEF Settling
  <2> QED
    BY <1>3, <1>5, <2>1 DEF GoalsInv, Alone
<1>6. \A q \in Session : session'[q] # Free /\ session'[q].pc \in Counting => session'[q] = session[q]
  BY <1>5 DEF Settling, Counting
<1> QED
  BY <1>4, <1>5, <1>6, Kept DEF Here

LEMMA FireGoals == ASSUME GoalsInv, NEW k \in Ticker, Fire(k) PROVE GoalsInv'
<1>1. tick[k].fire \in Goal /\ tick' \in [Ticker -> TickRow]
  BY DEF Fire, GoalsInv, GoalsOK, TickRow
<1> QED
  BY <1>1, BeginsGoals DEF Fire

LEMMA RunNowGoals == ASSUME GoalsInv, NEW g \in Goal, RunNow(g) PROVE GoalsInv'
<1>1. tick' \in [Ticker -> TickRow]
  BY DEF RunNow, GoalsInv, GoalsOK
<1> QED
  BY <1>1, BeginsGoals DEF RunNow

-----------------------------------------------------------------------------
\* The session that settles is the one that holds the mutex.
LEMMA Settler ==
  ASSUME GoalsInv, NEW s \in Session, NEW pc \in Settling, Settles(s, pc)
  PROVE  /\ session[s] \in SessionRow /\ session[s].goal \in Goal /\ hook = s
         /\ \A q \in Session \ {s} : session[q] # Free => session[q].pc \notin Settling
BY DEF GoalsInv, GoalsOK, Settles, Alone, SessionRow, Settling

\* The session goes on, with the mutex, or leaves, without it.
LEMMA GoesOn ==
  ASSUME GoalsInv, NEW s \in Session, NEW new \in SessionRow, session' = [session EXCEPT ![s] = new],
         new.pc \in Settling, hook' = s,
         \A q \in Session \ {s} : session[q] # Free => session[q].pc \notin Settling
  PROVE  /\ session' \in [Session -> SessionRow \cup {Free}]
         /\ session'[s] = new
         /\ \A q \in Session : session'[q] # Free /\ session'[q].pc \in Settling => hook' = q
         /\ \A q \in Session \ {s} : session'[q] # Free => session'[q].pc \notin Settling
BY DEF GoalsInv, GoalsOK

LEMMA LeavesIs ==
  ASSUME GoalsInv, NEW s \in Session, Leaves(s),
         \A q \in Session \ {s} : session[q] # Free => session[q].pc \notin Settling
  PROVE  /\ session' \in [Session -> SessionRow \cup {Free}] /\ hook' \in Session \cup {NoOne}
         /\ session'[s] = Free
         /\ \A q \in Session : session'[q] # Free => session'[q].pc \notin Settling
<1>1. session' = [session EXCEPT ![s] = Free] /\ hook' = NoOne
  BY DEF Leaves
<1>2. session \in [Session -> SessionRow \cup {Free}]
  BY DEF GoalsInv, GoalsOK
<1> QED
  BY <1>1, <1>2

\* The row of a session with another pc.
LEMMA MovesIs ==
  ASSUME GoalsInv, NEW s \in Session, session[s] \in SessionRow, NEW pc \in Settling
  PROVE  \E new \in SessionRow : /\ [session EXCEPT ![s].pc = pc] = [session EXCEPT ![s] = new]
                                 /\ new.pc = pc /\ new.goal = session[s].goal
<1> DEFINE new == [session[s] EXCEPT !.pc = pc]
<1>1. new \in SessionRow /\ new.pc = pc /\ new.goal = session[s].goal
  BY DEF SessionRow
<1>2. [session EXCEPT ![s].pc = pc] = [session EXCEPT ![s] = new]
  OBVIOUS
<1> QED
  BY <1>1, <1>2

\* A session takes the mutex when nobody has it.
LEMMA EnterGoals == ASSUME GoalsInv, NEW s \in Session, Enter(s) PROVE GoalsInv'
<1>1. session[s] \in SessionRow
  BY DEF Enter, Settles, GoalsInv, GoalsOK
<1>2. PICK new \in SessionRow : session' = [session EXCEPT ![s] = new] /\ new.pc = "read"
  BY <1>1, MovesIs DEF Enter, Settling
<1>3. \A q \in Session \ {s} : session[q] # Free => session[q].pc \notin Settling
  BY GoalsAssumption DEF Enter, GoalsInv, Alone
<1>4. /\ session' \in [Session -> SessionRow \cup {Free}]
      /\ session'[s] = new
      /\ \A q \in Session : session'[q] # Free /\ session'[q].pc \in Settling => hook' = q
      /\ \A q \in Session \ {s} : session'[q] # Free => session'[q].pc \notin Settling
  BY <1>2, <1>3, GoesOn DEF Enter, Settling
<1>5. GoalsOK'
  BY <1>4 DEF Enter, GoalsInv, GoalsOK
<1> QED
  BY <1>2, <1>4, <1>5, Kept DEF Enter, Here, Settling, Counting

\* The streak is read as it stands.
LEMMA ReadGoals == ASSUME GoalsInv, NEW s \in Session, Read(s) PROVE GoalsInv'
<1>1. /\ session[s] \in SessionRow /\ session[s].goal \in Goal /\ hook = s
      /\ \A q \in Session \ {s} : session[q] # Free => session[q].pc \notin Settling
  BY Settler DEF Read, Settling
<1> DEFINE g == session[s].goal
<1>2. CASE Active(g)
  <2> DEFINE new == [session[s] EXCEPT !.pc = "spend", !.streak = goal[g].streak]
  <2>1. goal[g] \in Row
    BY <1>1, <1>2 DEF GoalsInv, GoalsOK, Active, Here
  <2>2. new \in SessionRow /\ new.pc = "spend" /\ new.goal = g /\ new.streak = goal[g].streak
    BY <1>1, <2>1 DEF SessionRow, Row, Settling
  <2>3. session' = [session EXCEPT ![s] = new] /\ hook' = s
    BY <1>1, <1>2 DEF Read
  <2> HIDE DEF new
  <2>4. /\ session' \in [Session -> SessionRow \cup {Free}]
        /\ session'[s] = new
        /\ \A q \in Session \ {s} : session'[q] # Free => session'[q].pc \notin Settling
    BY <1>1, <2>2, <2>3, GoesOn DEF Settling
  <2>5. GoalsOK' /\ UNCHANGED <<goal, spell>>
    BY <2>3, <2>4 DEF Read, GoalsInv, GoalsOK
  <2>6. ASSUME NEW q \in Session, session'[q] # Free PROVE Alone(q)'
    <3>1. CASE q = s
      BY <2>2, <2>3, <2>4, <2>5, <3>1 DEF Alone
    <3>2. CASE q # s
      BY <2>4, <2>6, <3>2 DEF Alone
    <3> QED
      BY <3>1, <3>2
  <2>7. StreakIsTrue'
    BY <2>5 DEF GoalsInv, StreakIsTrue, Here
  <2> QED
    BY <2>5, <2>6, <2>7 DEF GoalsInv
<1>3. CASE ~ Active(g)
  <2>1. Leaves(s)
    BY <1>3 DEF Read
  <2>2. /\ session' \in [Session -> SessionRow \cup {Free}] /\ hook' \in Session \cup {NoOne}
        /\ session'[s] = Free
        /\ \A q \in Session : session'[q] # Free => session'[q].pc \notin Settling
    BY <1>1, <2>1, LeavesIs
  <2>3. GoalsOK'
    BY <2>2 DEF Read, GoalsInv, GoalsOK
  <2> QED
    BY <2>2, <2>3, Kept DEF Read, Here, Settling, Counting
<1> QED
  BY <1>2, <1>3

LEMMA UptoIs == ASSUME NEW n \in Nat, NEW most \in Nat PROVE Upto(n, most) \in 0 .. most
BY DEF Upto

\* The session goes on to another statement: it keeps its goal and its streak.
LEMMA MovesOn ==
  ASSUME GoalsInv, NEW s \in Session, NEW pc \in Settling, Settles(s, pc), NEW to \in Settling, Moves(s, to)
  PROVE  /\ session' \in [Session -> SessionRow \cup {Free}] /\ hook' \in Session \cup {NoOne}
         /\ session'[s] # Free /\ session'[s].pc = to
         /\ session'[s].goal = session[s].goal /\ session'[s].streak = session[s].streak
         /\ \A q \in Session : session'[q] # Free /\ session'[q].pc \in Settling => hook' = q
         /\ \A q \in Session \ {s} : session'[q] # Free => session'[q].pc \notin Settling
<1>1. /\ session[s] \in SessionRow /\ hook = s
      /\ \A q \in Session \ {s} : session[q] # Free => session[q].pc \notin Settling
  BY Settler
<1> DEFINE new == [session[s] EXCEPT !.pc = to]
<1>2. new \in SessionRow /\ new.pc = to /\ new.goal = session[s].goal /\ new.streak = session[s].streak
  BY <1>1 DEF SessionRow
<1>3. session' = [session EXCEPT ![s] = new] /\ hook' = s
  BY <1>1 DEF Moves
<1> HIDE DEF new
<1>4. /\ session' \in [Session -> SessionRow \cup {Free}]
      /\ session'[s] = new
      /\ \A q \in Session : session'[q] # Free /\ session'[q].pc \in Settling => hook' = q
      /\ \A q \in Session \ {s} : session'[q] # Free => session'[q].pc \notin Settling
  BY <1>1, <1>2, <1>3, GoesOn
<1> QED
  BY <1>2, <1>3, <1>4, SessionIsNotFree

\* The tokens change no streak.
LEMMA SpendGoals == ASSUME GoalsInv, NEW s \in Session, Spend(s) PROVE GoalsInv'
<1>1. /\ session[s] \in SessionRow /\ session[s].goal \in Goal /\ session[s].pc = "spend" /\ session[s] # Free
  BY Settler DEF Spend, Settles, Settling
<1> DEFINE g == session[s].goal
<1>2. PICK tokens \in 0 .. MaxTokens : PutGoal(g, [goal[g] EXCEPT !.spent = Upto(@ + tokens, MaxSpent)])
  BY DEF Spend
<1>3. PICK entry : entry = [goal[g] EXCEPT !.spent = Upto(@ + tokens, MaxSpent)]
  OBVIOUS
<1>4. Here(g) => entry \in Row /\ entry.streak = goal[g].streak
  <2> SUFFICES ASSUME Here(g) PROVE entry \in Row /\ entry.streak = goal[g].streak
    OBVIOUS
  <2>1. goal[g] \in Row
    BY <1>1 DEF GoalsInv, GoalsOK, Here
  <2>2. goal[g].spent + tokens \in Nat /\ MaxSpent \in Nat
    BY <2>1, GoalsAssumption DEF Row, Spent
  <2>3. Upto(goal[g].spent + tokens, MaxSpent) \in Spent
    BY <2>2, UptoIs DEF Spent
  <2> QED
    BY <1>3, <2>1, <2>3 DEF Row
<1>5. /\ goal' \in [Goal -> Row \cup {Gone}]
      /\ \A q \in Goal : Here(q)' <=> Here(q)
      /\ Here(g) => goal'[g] = entry
      /\ \A q \in Goal \ {g} : goal'[q] = goal[q]
  BY <1>1, <1>2, <1>3, <1>4, PutIs DEF GoalsInv
<1>6. \A q \in Goal : Here(q)' => Here(q) /\ goal'[q].streak = goal[q].streak
  BY <1>1, <1>4, <1>5
<1>7. /\ session' \in [Session -> SessionRow \cup {Free}] /\ hook' \in Session \cup {NoOne}
      /\ session'[s] # Free /\ session'[s].pc = "count"
      /\ session'[s].goal = session[s].goal /\ session'[s].streak = session[s].streak
      /\ \A q \in Session : session'[q] # Free /\ session'[q].pc \in Settling => hook' = q
      /\ \A q \in Session \ {s} : session'[q] # Free => session'[q].pc \notin Settling
  BY MovesOn DEF Spend, Settling
<1>8. GoalsOK' /\ spell' = spell
  BY <1>5, <1>7 DEF Spend, GoalsInv, GoalsOK
<1>9. ASSUME NEW q \in Session, session'[q] # Free, session'[q].pc \in Counting
      PROVE  /\ session[q] # Free /\ session[q].pc \in Counting
             /\ session'[q].goal = session[q].goal /\ session'[q].streak = session[q].streak
  <2>1. q = s
    BY <1>7, <1>9 DEF Counting, Settling
  <2> QED
    BY <1>1, <1>7, <2>1 DEF Counting
<1> QED
  BY <1>6, <1>7, <1>8, <1>9, Kept

\* What is counted is counted of the streak that stands, and of no other goal.
LEMMA CountGoals == ASSUME GoalsInv, NEW s \in Session, Count(s) PROVE GoalsInv'
<1>1. /\ session[s] \in SessionRow /\ session[s].goal \in Goal /\ hook = s
      /\ \A q \in Session \ {s} : session[q] # Free => session[q].pc \notin Settling
  BY Settler DEF Count, Settling
<1> DEFINE g == session[s].goal
<1>2. PICK worked \in BOOLEAN :
        LET streak == IF worked THEN 0 ELSE Upto(session[s].streak + 1, NoToolLimit)
        IN  /\ PutGoal(g, [goal[g] EXCEPT !.streak = streak])
            /\ Moves(s, IF streak >= NoToolLimit THEN "pause" ELSE "reread")
            /\ spell' = [spell EXCEPT ![g] = IF worked \/ ~ Here(g) THEN 0 ELSE Upto(@ + 1, NoToolLimit)]
  BY DEF Count
<1>3. PICK streak : streak = IF worked THEN 0 ELSE Upto(session[s].streak + 1, NoToolLimit)
  OBVIOUS
<1>4. PICK entry : entry = [goal[g] EXCEPT !.streak = streak]
  OBVIOUS
<1>5. PutGoal(g, entry)
  BY <1>2, <1>3, <1>4
<1>6. streak \in Streak
  <2>1. session[s].streak + 1 \in Nat /\ NoToolLimit \in Nat
    BY <1>1 DEF SessionRow, Streak, NoToolLimit
  <2>2. 0 \in Streak
    BY <2>1 DEF Streak
  <2>3. Upto(session[s].streak + 1, NoToolLimit) \in Streak
    BY <2>1, UptoIs DEF Streak
  <2> QED
    BY <1>3, <2>2, <2>3
<1>7. Here(g) => entry \in Row /\ entry.streak = streak
  BY <1>1, <1>4, <1>6 DEF GoalsInv, GoalsOK, Here, Row
<1>8. /\ goal' \in [Goal -> Row \cup {Gone}]
      /\ \A q \in Goal : Here(q)' <=> Here(q)
      /\ Here(g) => goal'[g] = entry
      /\ \A q \in Goal \ {g} : goal'[q] = goal[q]
  BY <1>1, <1>5, <1>7, PutIs DEF GoalsInv
<1>9. spell' \in [Goal -> Streak] /\ \A q \in Goal \ {g} : spell'[q] = spell[q]
  <2>1. spell[g] + 1 \in Nat /\ NoToolLimit \in Nat
    BY <1>1 DEF GoalsInv, GoalsOK, Streak, NoToolLimit
  <2>2. Upto(spell[g] + 1, NoToolLimit) \in Streak
    BY <2>1, UptoIs DEF Streak
  <2>3. 0 \in Streak
    BY <2>1 DEF Streak
  <2> QED
    BY <1>1, <1>2, <2>2, <2>3 DEF GoalsInv, GoalsOK
<1>10. Here(g) => spell'[g] = streak
  <2> SUFFICES ASSUME Here(g) PROVE spell'[g] = streak
    OBVIOUS
  <2>1. session[s].streak = goal[g].streak /\ goal[g].streak = spell[g]
    BY <1>1 DEF Count, Settles, GoalsInv, Alone, StreakIsTrue, Settling, Counting
  <2>2. spell'[g] = IF worked THEN 0 ELSE Upto(spell[g] + 1, NoToolLimit)
    BY <1>1, <1>2 DEF GoalsInv, GoalsOK
  <2> QED
    BY <1>3, <2>1, <2>2
<1>11. StreakIsTrue'
  <2>1. ASSUME NEW q \in Goal, Here(q)' PROVE goal'[q].streak = spell'[q]
    <3>1. CASE q = g
      BY <1>7, <1>8, <1>10, <2>1, <3>1
    <3>2. CASE q # g
      BY <1>8, <1>9, <2>1, <3>2 DEF GoalsInv, StreakIsTrue
    <3> QED
      BY <3>1, <3>2
  <2> QED
    BY <2>1 DEF StreakIsTrue
<1>12. PICK to \in {"pause", "reread"} : Moves(s, to)
  <2>1. CASE streak >= NoToolLimit
    BY <1>2, <1>3, <2>1
  <2>2. CASE ~ (streak >= NoToolLimit)
    BY <1>2, <1>3, <2>2
  <2> QED
    BY <2>1, <2>2
<1>13. /\ session' \in [Session -> SessionRow \cup {Free}] /\ hook' \in Session \cup {NoOne}
       /\ \A q \in Session : session'[q] # Free /\ session'[q].pc \in Settling => hook' = q
       /\ \A q \in Session : session'[q] # Free => session'[q].pc \notin Counting
  <2>1. /\ session' \in [Session -> SessionRow \cup {Free}] /\ hook' \in Session \cup {NoOne}
        /\ session'[s].pc = to
        /\ \A q \in Session : session'[q] # Free /\ session'[q].pc \in Settling => hook' = q
        /\ \A q \in Session \ {s} : session'[q] # Free => session'[q].pc \notin Settling
    BY <1>12, MovesOn DEF Count, Settling
  <2> QED
    BY <1>12, <2>1 DEF Settling, Counting
<1>14. GoalsOK'
  BY <1>8, <1>9, <1>13 DEF Count, GoalsInv, GoalsOK
<1>15. \A q \in Session : session'[q] # Free => Alone(q)'
  BY <1>13 DEF Alone
<1> QED
  BY <1>11, <1>14, <1>15 DEF GoalsInv

\* A session that closes its goal changes no streak and is over.
LEMMA ClosesGoals ==
  ASSUME GoalsInv, NEW s \in Session, NEW pc \in Settling, Settles(s, pc), NEW status \in Status, Closes(s, status)
  PROVE  GoalsInv'
<1>1. /\ session[s] \in SessionRow /\ session[s].goal \in Goal
      /\ \A q \in Session \ {s} : session[q] # Free => session[q].pc \notin Settling
  BY Settler
<1>2. /\ session' \in [Session -> SessionRow \cup {Free}] /\ hook' \in Session \cup {NoOne}
      /\ \A q \in Session : session'[q] # Free => session'[q].pc \notin Settling
  BY <1>1, LeavesIs DEF Closes
<1> DEFINE g == session[s].goal  entry == [goal[g] EXCEPT !.status = status]
<1>3. Here(g) => entry \in Row /\ entry.streak = goal[g].streak
  BY <1>1 DEF GoalsInv, GoalsOK, Here, Row
<1>4. PutGoal(g, entry)
  BY DEF Closes
<1> HIDE DEF entry
<1>5. /\ goal' \in [Goal -> Row \cup {Gone}]
      /\ \A q \in Goal : Here(q)' <=> Here(q)
      /\ Here(g) => goal'[g] = entry
      /\ \A q \in Goal \ {g} : goal'[q] = goal[q]
  BY <1>1, <1>3, <1>4, PutIs DEF GoalsInv
<1>6. \A q \in Goal : Here(q)' => Here(q) /\ goal'[q].streak = goal[q].streak
  BY <1>1, <1>3, <1>5
<1>7. GoalsOK' /\ spell' = spell
  BY <1>2, <1>5 DEF Closes, GoalsInv, GoalsOK
<1> QED
  BY <1>2, <1>6, <1>7, Kept DEF Settling, Counting

\* A session that looks at its goal again writes nothing.
LEMMA RereadGoals == ASSUME GoalsInv, NEW s \in Session, Reread(s) PROVE GoalsInv'
<1>1. /\ session' \in [Session -> SessionRow \cup {Free}] /\ hook' \in Session \cup {NoOne}
      /\ \A q \in Session : session'[q] # Free /\ session'[q].pc \in Settling => hook' = q
      /\ \A q \in Session : session'[q] # Free => session'[q].pc \notin Counting
  <2>1. CASE Leaves(s)
    <3>1. \A q \in Session \ {s} : session[q] # Free => session[q].pc \notin Settling
      BY Settler DEF Reread, Settling
    <3> QED
      BY <2>1, <3>1, LeavesIs DEF Settling, Counting
  <2>2. CASE Moves(s, "stop")
    <3>1. /\ session' \in [Session -> SessionRow \cup {Free}] /\ hook' \in Session \cup {NoOne}
          /\ session'[s].pc = "stop"
          /\ \A q \in Session : session'[q] # Free /\ session'[q].pc \in Settling => hook' = q
          /\ \A q \in Session \ {s} : session'[q] # Free => session'[q].pc \notin Settling
      BY <2>2, MovesOn DEF Reread, Settling
    <3> QED
      BY <3>1 DEF Settling, Counting
  <2> QED
    BY <2>1, <2>2 DEF Reread
<1>2. GoalsOK' /\ UNCHANGED <<goal, spell>>
  BY <1>1 DEF Reread, GoalsInv, GoalsOK
<1> QED
  BY <1>1, <1>2, Kept DEF Here

-----------------------------------------------------------------------------
\* People edit rows or delete them, and no edit is of the streak.
LEMMA PeopleGoals ==
  ASSUME GoalsInv, NEW g \in Goal, NEW entry, People(g, entry), spell' = spell, Here(g),
         entry \in Row, entry.streak = goal[g].streak
  PROVE  GoalsInv'
<1>1. goal' \in [Goal -> Row \cup {Gone}] /\ goal'[g] = entry /\ \A q \in Goal \ {g} : goal'[q] = goal[q]
  BY DEF People, GoalsInv, GoalsOK
<1>2. GoalsOK'
  BY <1>1 DEF People, GoalsInv, GoalsOK
<1>3. \A q \in Goal : Here(q)' => Here(q) /\ goal'[q].streak = goal[q].streak
  BY <1>1 DEF Here
<1> QED
  BY <1>2, <1>3, KeptBySome DEF People

LEMMA EditGoals ==
  ASSUME GoalsInv, NEW g \in Goal,
         \/ Delete(g)
         \/ \E status \in Status : PatchStatus(g, status)
         \/ \E b \in Budgets : PatchBudget(g, b)
         \/ \E d \in Deadline : PatchDeadline(g, d)
  PROVE  GoalsInv'
<1>1. CASE Delete(g)
  <2>1. goal' = [goal EXCEPT ![g] = Gone] /\ UNCHANGED <<hour, ticked, session, hook, tick, spell>>
    BY <1>1 DEF Delete, People
  <2>2. goal' \in [Goal -> Row \cup {Gone}] /\ goal'[g] = Gone /\ \A q \in Goal \ {g} : goal'[q] = goal[q]
    BY <2>1 DEF GoalsInv, GoalsOK
  <2>3. GoalsOK'
    BY <2>1, <2>2 DEF GoalsInv, GoalsOK
  <2> QED
    BY <2>1, <2>2, <2>3, KeptBySome DEF Here
<1>2. ASSUME NEW status \in Status, PatchStatus(g, status) PROVE GoalsInv'
  <2> DEFINE entry == [goal[g] EXCEPT !.status = status]
  <2>1. Here(g) /\ People(g, entry) /\ spell' = spell /\ entry \in Row /\ entry.streak = goal[g].streak
    BY <1>2 DEF PatchStatus, GoalsInv, GoalsOK, Here, Row
  <2> QED
    BY <2>1, PeopleGoals
<1>3. ASSUME NEW b \in Budgets, PatchBudget(g, b) PROVE GoalsInv'
  <2> DEFINE entry == [goal[g] EXCEPT !.budget = b]
  <2>1. Here(g) /\ People(g, entry) /\ spell' = spell /\ entry \in Row /\ entry.streak = goal[g].streak
    BY <1>3 DEF PatchBudget, GoalsInv, GoalsOK, Here, Row
  <2> QED
    BY <2>1, PeopleGoals
<1>4. ASSUME NEW d \in Deadline, PatchDeadline(g, d) PROVE GoalsInv'
  <2> DEFINE entry == [goal[g] EXCEPT !.deadline = d]
  <2>1. Here(g) /\ People(g, entry) /\ spell' = spell /\ entry \in Row /\ entry.streak = goal[g].streak
    BY <1>4 DEF PatchDeadline, GoalsInv, GoalsOK, Here, Row
  <2> QED
    BY <2>1, PeopleGoals
<1> QED
  BY <1>1, <1>2, <1>3, <1>4

\* An hour passes.
LEMMA WaitIs == ASSUME NEW entry \in Row PROVE Wait(entry) \in Row /\ Wait(entry).streak = entry.streak
<1>1. (IF entry.next = 0 THEN 0 ELSE entry.next - 1) \in 0 .. DayLen
  BY GoalsAssumption DEF Row
<1> QED
  BY <1>1 DEF Wait, Row

LEMMA AdvanceGoals == ASSUME GoalsInv, Advance PROVE GoalsInv'
<1>1. hour' \in 0 .. DayLen - 1
  <2>1. hour + 1 \in Nat /\ DayLen \in Nat /\ DayLen > 0
    BY GoalsAssumption DEF GoalsInv, GoalsOK
  <2> QED
    BY <2>1 DEF Advance
<1>2. PICK passed \in SUBSET Goal :
        goal' = [g \in Goal |-> IF ~ Here(g) THEN Gone
                                ELSE IF g \in passed THEN [Wait(goal[g]) EXCEPT !.deadline = "past"]
                                ELSE Wait(goal[g])]
  BY DEF Advance
<1>3. ASSUME NEW g \in Goal
      PROVE  /\ goal'[g] \in Row \cup {Gone}
             /\ Here(g)' => Here(g) /\ goal'[g].streak = goal[g].streak
  <2>1. CASE ~ Here(g)
    BY <1>2, <2>1 DEF Here
  <2>2. CASE Here(g)
    <3>1. Wait(goal[g]) \in Row /\ Wait(goal[g]).streak = goal[g].streak
      BY <2>2, WaitIs DEF GoalsInv, GoalsOK, Here
    <3>2. [Wait(goal[g]) EXCEPT !.deadline = "past"] \in Row
          /\ [Wait(goal[g]) EXCEPT !.deadline = "past"].streak = goal[g].streak
      BY <3>1 DEF Row, Deadline
    <3> QED
      BY <1>2, <2>2, <3>1, <3>2
  <2> QED
    BY <2>1, <2>2
<1>4. goal' \in [Goal -> Row \cup {Gone}]
  BY <1>2, <1>3
<1>5. GoalsOK'
  BY <1>1, <1>4 DEF Advance, GoalsInv, GoalsOK
<1> QED
  BY <1>3, <1>5, KeptBySome DEF Advance

LEMMA ServerRestartGoals == ASSUME GoalsInv, ServerRestart PROVE GoalsInv'
<1>1. \A s \in Session : session'[s] = Free
  BY DEF ServerRestart
<1>2. GoalsOK'
  <2>1. Idle \in TickRow
    BY DEF Idle, TickRow
  <2> QED
    BY <2>1 DEF ServerRestart, GoalsInv, GoalsOK
<1> QED
  BY <1>1, <1>2, Kept DEF ServerRestart, Here

LEMMA NextGoalsInv == GoalsInv /\ [GoalsNext]_goals => GoalsInv'
<1> SUFFICES ASSUME GoalsInv, [GoalsNext]_goals PROVE GoalsInv'
  OBVIOUS
<1>1. ASSUME NEW k \in Ticker, List(k) \/ TickGoesOn(k) PROVE GoalsInv'
  BY <1>1, ListGoals, TickGoals, FireGoals DEF TickGoesOn
<1>2. ASSUME NEW s \in Session, SessionGoesOn(s) PROVE GoalsInv'
  BY <1>2, EnterGoals, ReadGoals, SpendGoals, CountGoals, RereadGoals, ClosesGoals
     DEF SessionGoesOn, Pause, StopGoal, Settling, Status
<1>3. ASSUME NEW g \in Goal, RunNow(g) PROVE GoalsInv'
  BY <1>3, RunNowGoals
<1>4. ASSUME NEW g \in Goal,
             \/ Delete(g)
             \/ \E status \in Status : PatchStatus(g, status)
             \/ \E b \in Budgets : PatchBudget(g, b)
             \/ \E d \in Deadline : PatchDeadline(g, d)
      PROVE GoalsInv'
  BY <1>4, EditGoals
<1>5. CASE UNCHANGED goals
  BY <1>5 DEF goals, GoalsInv, GoalsOK, Alone, StreakIsTrue, Here
<1> QED
  BY <1>1, <1>2, <1>3, <1>4, <1>5, AdvanceGoals, ServerRestartGoals DEF GoalsNext

\* The streak that pauses a goal is the number of sessions in a row that did no
\* work, for any number of goals and of sessions that overlap, and any hours.
THEOREM SafetyStreakIsTrue == GoalsSpec => []StreakIsTrue
<1>1. GoalsInv => StreakIsTrue
  BY DEF GoalsInv
<1> QED
  BY <1>1, InitGoalsInv, NextGoalsInv, PTL DEF GoalsSpec

-----------------------------------------------------------------------------
(***************************************************************************)
(* Sums of sequences                                                       *)
(***************************************************************************)

\* Induction up to a number, over a set: there is no least number outside it.
LEMMA InductionTo ==
  ASSUME NEW most \in Nat, NEW S, 0 \in S, \A n \in 0 .. most - 1 : n \in S => n + 1 \in S
  PROVE  \A n \in 0 .. most : n \in S
<1> DEFINE Bad == {n \in 0 .. most : n \notin S}
<1> SUFFICES ASSUME Bad # {} PROVE FALSE
  OBVIOUS
<1>1. Bad \subseteq Nat
  OBVIOUS
<1>2. PICK x \in Bad : \A y \in Bad : ~ (<<y, x>> \in OpToRel(<, Nat))
  BY <1>1, NatLessThanWellFounded, WFMin
<1>3. x \in 0 .. most /\ x \notin S /\ x \in Nat
  OBVIOUS
<1>4. x # 0 /\ x - 1 \in Nat /\ x - 1 \in 0 .. most - 1 /\ x - 1 < x /\ (x - 1) + 1 = x
  BY <1>3
<1>5. x - 1 \in S
  <2> SUFFICES ASSUME x - 1 \in Bad PROVE FALSE
    BY <1>4
  <2> QED
    BY <1>2, <1>3, <1>4 DEF OpToRel
<1> QED
  BY <1>3, <1>4, <1>5

\* f runs up the numbers, to the n-th.
RunUp(f, numbers, n) == f = [i \in 0 .. n |-> IF i = 0 THEN 0 ELSE f[i - 1] + numbers[i]]

LEMMA RunUpExists ==
  ASSUME NEW numbers \in Seq(Int)
  PROVE  \E f \in [0 .. Len(numbers) -> Int] : RunUp(f, numbers, Len(numbers))
<1> DEFINE S == {n \in 0 .. Len(numbers) : \E f \in [0 .. n -> Int] : RunUp(f, numbers, n)}
<1>1. Len(numbers) \in Nat
  OBVIOUS
<1>2. 0 \in S
  <2> DEFINE f == [i \in 0 .. 0 |-> 0]
  <2>1. RunUp(f, numbers, 0) /\ f \in [0 .. 0 -> Int]
    BY DEF RunUp
  <2> QED
    BY <1>1, <2>1
<1>3. ASSUME NEW n \in 0 .. Len(numbers) - 1, n \in S PROVE n + 1 \in S
  <2>1. n \in Nat /\ n + 1 \in 1 .. Len(numbers) /\ numbers[n + 1] \in Int
    BY <1>1
  <2>2. PICK f \in [0 .. n -> Int] : RunUp(f, numbers, n)
    BY <1>3
  <2> DEFINE g == [i \in 0 .. n + 1 |-> IF i = n + 1 THEN f[n] + numbers[n + 1] ELSE f[i]]
  <2>3. g \in [0 .. n + 1 -> Int]
    BY <2>1, <2>2
  <2>4. ASSUME NEW i \in 0 .. n + 1 PROVE g[i] = IF i = 0 THEN 0 ELSE g[i - 1] + numbers[i]
    <3>1. CASE i = n + 1
      BY <2>1, <3>1
    <3>2. CASE i # n + 1
      <4>1. i \in 0 .. n /\ g[i] = f[i] /\ (i # 0 => i - 1 \in 0 .. n /\ g[i - 1] = f[i - 1])
        BY <2>1, <3>2
      <4>2. f[i] = IF i = 0 THEN 0 ELSE f[i - 1] + numbers[i]
        BY <2>2, <4>1 DEF RunUp
      <4> QED
        BY <4>1, <4>2
    <3> QED
      BY <3>1, <3>2
  <2>5. RunUp(g, numbers, n + 1)
    BY <2>3, <2>4 DEF RunUp
  <2> QED
    BY <2>1, <2>3, <2>5
<1> HIDE DEF S
<1>4. \A n \in 0 .. Len(numbers) : n \in S
  BY <1>1, <1>2, <1>3, InductionTo
<1> QED
  BY <1>1, <1>4 DEF S

\* Total is what any of them ends with.
LEMMA TotalIsSum ==
  ASSUME NEW numbers \in Seq(Int), NEW g \in [0 .. Len(numbers) -> Int], RunUp(g, numbers, Len(numbers))
  PROVE  Total(numbers) = g[Len(numbers)]
<1> DEFINE f == CHOOSE f : f = [i \in 0 .. Len(numbers) |-> IF i = 0 THEN 0 ELSE f[i - 1] + numbers[i]]
<1>1. Total(numbers) = f[Len(numbers)]
  BY DEF Total
<1>2. RunUp(f, numbers, Len(numbers))
  BY DEF RunUp
<1> HIDE DEF f
<1> DEFINE S == {n \in 0 .. Len(numbers) : f[n] = g[n]}
<1>3. Len(numbers) \in Nat
  OBVIOUS
<1>4. \A i \in 0 .. Len(numbers) : /\ f[i] = IF i = 0 THEN 0 ELSE f[i - 1] + numbers[i]
                                   /\ g[i] = IF i = 0 THEN 0 ELSE g[i - 1] + numbers[i]
  BY <1>2 DEF RunUp
<1>5. 0 \in S
  BY <1>3, <1>4
<1>6. ASSUME NEW n \in 0 .. Len(numbers) - 1, n \in S PROVE n + 1 \in S
  <2>1. n + 1 \in 0 .. Len(numbers) /\ n + 1 # 0 /\ (n + 1) - 1 = n
    BY <1>3
  <2>2. f[n + 1] = f[n] + numbers[n + 1] /\ g[n + 1] = g[n] + numbers[n + 1] /\ f[n] = g[n]
    BY <1>4, <1>6, <2>1
  <2> QED
    BY <2>1, <2>2
<1> HIDE DEF S
<1>7. \A n \in 0 .. Len(numbers) : n \in S
  BY <1>3, <1>5, <1>6, InductionTo
<1> QED
  BY <1>1, <1>3, <1>7 DEF S

\* Such an f, from its first to its last.
LEMMA RunUpOf ==
  ASSUME NEW numbers \in Seq(Int)
  PROVE  \E f \in [0 .. Len(numbers) -> Int] :
           /\ Total(numbers) = f[Len(numbers)]
           /\ f[0] = 0
           /\ \A n \in 0 .. Len(numbers) - 1 : f[n + 1] = f[n] + numbers[n + 1]
<1>1. PICK f \in [0 .. Len(numbers) -> Int] : RunUp(f, numbers, Len(numbers))
  BY RunUpExists
<1>2. Len(numbers) \in Nat
  OBVIOUS
<1>3. f[0] = 0
  BY <1>1, <1>2 DEF RunUp
<1>4. ASSUME NEW n \in 0 .. Len(numbers) - 1 PROVE f[n + 1] = f[n] + numbers[n + 1]
  <2>1. n + 1 \in 0 .. Len(numbers) /\ n + 1 # 0 /\ (n + 1) - 1 = n
    BY <1>2
  <2> QED
    BY <1>1, <2>1 DEF RunUp
<1> QED
  BY <1>1, <1>3, <1>4, TotalIsSum

LEMMA TotalType == ASSUME NEW numbers \in Seq(Int) PROVE Total(numbers) \in Int
  BY RunUpOf

\* Of numbers that are not negative the total is not either.
LEMMA TotalNat ==
  ASSUME NEW numbers \in Seq(Int), \A i \in 1 .. Len(numbers) : numbers[i] >= 0
  PROVE  Total(numbers) >= 0
<1>1. PICK f \in [0 .. Len(numbers) -> Int] :
           /\ Total(numbers) = f[Len(numbers)]
           /\ f[0] = 0
           /\ \A n \in 0 .. Len(numbers) - 1 : f[n + 1] = f[n] + numbers[n + 1]
  BY RunUpOf
<1> DEFINE S == {n \in 0 .. Len(numbers) : f[n] >= 0}
<1>2. Len(numbers) \in Nat
  OBVIOUS
<1>3. 0 \in S
  BY <1>1, <1>2
<1>4. ASSUME NEW n \in 0 .. Len(numbers) - 1, n \in S PROVE n + 1 \in S
  <2>1. n + 1 \in 1 .. Len(numbers) /\ f[n] \in Int /\ numbers[n + 1] \in Int
    BY <1>2
  <2>2. f[n + 1] = f[n] + numbers[n + 1] /\ f[n] >= 0 /\ numbers[n + 1] >= 0
    BY <1>1, <1>4, <2>1
  <2> QED
    BY <2>1, <2>2
<1> HIDE DEF S
<1>5. \A n \in 0 .. Len(numbers) : n \in S
  BY <1>2, <1>3, <1>4, InductionTo
<1> QED
  BY <1>1, <1>2, <1>5 DEF S

LEMMA TotalAppend ==
  ASSUME NEW numbers \in Seq(Int), NEW more \in Seq(Int), NEW x \in Int,
         Len(more) = Len(numbers) + 1, more[Len(more)] = x, \A i \in 1 .. Len(numbers) : more[i] = numbers[i]
  PROVE  Total(more) = Total(numbers) + x
<1> DEFINE L == Len(numbers)
<1>1. PICK f \in [0 .. L -> Int] :
           /\ Total(numbers) = f[L]
           /\ f[0] = 0
           /\ \A n \in 0 .. L - 1 : f[n + 1] = f[n] + numbers[n + 1]
  BY RunUpOf
<1>2. PICK g \in [0 .. Len(more) -> Int] :
           /\ Total(more) = g[Len(more)]
           /\ g[0] = 0
           /\ \A n \in 0 .. Len(more) - 1 : g[n + 1] = g[n] + more[n + 1]
  BY RunUpOf
<1> DEFINE S == {n \in 0 .. L : g[n] = f[n]}
<1>3. L \in Nat /\ Len(more) = L + 1
  OBVIOUS
<1>4. 0 \in S
  BY <1>1, <1>2, <1>3
<1>5. ASSUME NEW n \in 0 .. L - 1, n \in S PROVE n + 1 \in S
  <2>1. n + 1 \in 1 .. L /\ n \in 0 .. Len(more) - 1 /\ n + 1 \in 0 .. L
    BY <1>3
  <2>2. f[n + 1] = f[n] + numbers[n + 1] /\ g[n + 1] = g[n] + more[n + 1] /\ more[n + 1] = numbers[n + 1] /\ g[n] = f[n]
    BY <1>1, <1>2, <1>5, <2>1
  <2> QED
    BY <2>1, <2>2
<1> HIDE DEF S
<1>6. \A n \in 0 .. L : n \in S
  BY <1>3, <1>4, <1>5, InductionTo
<1>7. g[L] = f[L]
  BY <1>3, <1>6 DEF S
<1>8. g[L + 1] = g[L] + more[L + 1] /\ more[L + 1] = x
  BY <1>2, <1>3
<1> QED
  BY <1>1, <1>2, <1>3, <1>7, <1>8

\* One number is replaced.
LEMMA TotalReplace ==
  ASSUME NEW numbers \in Seq(Int), NEW other \in Seq(Int), Len(other) = Len(numbers),
         NEW at \in 1 .. Len(numbers), \A i \in 1 .. Len(numbers) \ {at} : other[i] = numbers[i]
  PROVE  Total(other) = Total(numbers) - numbers[at] + other[at]
<1> DEFINE L == Len(numbers)
<1>1. PICK f \in [0 .. L -> Int] :
           /\ Total(numbers) = f[L]
           /\ f[0] = 0
           /\ \A n \in 0 .. L - 1 : f[n + 1] = f[n] + numbers[n + 1]
  BY RunUpOf
<1>2. PICK g \in [0 .. Len(other) -> Int] :
           /\ Total(other) = g[Len(other)]
           /\ g[0] = 0
           /\ \A n \in 0 .. Len(other) - 1 : g[n + 1] = g[n] + other[n + 1]
  BY RunUpOf
<1>3. /\ L \in Nat /\ at \in Nat /\ at > 0 /\ at <= L /\ Len(other) = L
      /\ \A n \in 1 .. L : numbers[n] \in Int /\ other[n] \in Int
  OBVIOUS
<1>d. PICK d \in Int : d = other[at] - numbers[at]
  <2>1. numbers[at] \in Int /\ other[at] \in Int
    BY <1>3
  <2> QED
    BY <2>1
<1>f. ASSUME NEW n \in 0 .. L PROVE f[n] \in Int /\ g[n] \in Int
  <2>1. n \in 0 .. Len(other)
    BY <1>3
  <2> QED
    BY <2>1
<1> DEFINE S == {n \in 0 .. L : g[n] = f[n] + IF n < at THEN 0 ELSE d}
<1>4. 0 \in S
  BY <1>1, <1>2, <1>3
<1>5. ASSUME NEW n \in 0 .. L - 1, n \in S PROVE n + 1 \in S
  <2>1. n \in Nat /\ n + 1 \in 1 .. L /\ n + 1 \in 0 .. L /\ n \in 0 .. L
    BY <1>3
  <2>2. f[n] \in Int /\ g[n] \in Int /\ numbers[n + 1] \in Int /\ other[n + 1] \in Int
    BY <1>3, <1>f, <2>1
  <2>3. f[n + 1] = f[n] + numbers[n + 1] /\ g[n + 1] = g[n] + other[n + 1]
    BY <1>1, <1>2, <1>3
  <2>4. g[n] = f[n] + IF n < at THEN 0 ELSE d
    BY <1>5
  <2>5. CASE n + 1 = at
    <3>c. other[n + 1] = numbers[n + 1] + d
      <4>1. other[at] \in Int /\ numbers[at] \in Int
        BY <1>3
      <4>2. other[at] = numbers[at] + d
        BY <1>d, <4>1
      <4> QED
        BY <2>5, <4>2
    <3>1. n < at /\ ~ (n + 1 < at) /\ other[n + 1] = numbers[n + 1] + d
      <4>1. n < at /\ ~ (n + 1 < at)
        BY <1>3, <2>1, <2>5
      <4> QED
        BY <3>c, <4>1
    <3>a. g[n] = f[n]
      BY <2>2, <2>4, <3>1
    <3>b. \A x, y \in Int : x + (y + d) = (x + y) + d
      BY <1>d
    <3>2. g[n + 1] = f[n + 1] + d
      BY <2>2, <2>3, <3>1, <3>a, <3>b
    <3> QED
      BY <2>1, <3>1, <3>2
  <2>6. CASE n + 1 # at
    <3>1. other[n + 1] = numbers[n + 1] /\ (n + 1 < at <=> n < at)
      BY <1>3, <2>1, <2>6
    <3>2. CASE n < at
      <4>1. g[n] = f[n] /\ f[n + 1] \in Int /\ n + 1 < at
        BY <1>f, <2>1, <2>2, <2>4, <3>1, <3>2
      <4>2. g[n + 1] = f[n + 1]
        BY <2>3, <3>1, <4>1
      <4> QED
        BY <2>1, <4>1, <4>2
    <3>3. CASE ~ (n < at)
      <4>1. g[n] = f[n] + d /\ ~ (n + 1 < at)
        BY <2>4, <3>1, <3>3
      <4>2. \A x, y \in Int : (x + d) + y = (x + y) + d
        BY <1>d
      <4>3. g[n + 1] = f[n + 1] + d
        BY <2>2, <2>3, <3>1, <4>1, <4>2
      <4> QED
        BY <2>1, <4>1, <4>3
    <3> QED
      BY <3>2, <3>3
  <2> QED
    BY <2>5, <2>6
<1> HIDE DEF S
<1>6. \A n \in 0 .. L : n \in S
  BY <1>3, <1>4, <1>5, InductionTo
<1>7. g[L] = f[L] + d /\ f[L] \in Int
  BY <1>3, <1>f, <1>6 DEF S
<1>8. numbers[at] \in Int /\ other[at] \in Int
  BY <1>3
<1> QED
  BY <1>1, <1>2, <1>3, <1>d, <1>7, <1>8

-----------------------------------------------------------------------------
(***************************************************************************)
(* Purchases                                                               *)
(***************************************************************************)

\* What is asked for has an amount; who has a grant was asked; and who goes on
\* unasked would have gone beyond the limit by the sums of the look ahead.
LookedAt(c) ==
  /\ call[c].pc \in {"look", "ask", "granted", "run"} => call[c].amount \in Amounts
  /\ call[c].pc = "granted" => call[c].asked
  /\ call[c].pc = "run" /\ ~ call[c].asked =>
       call[c].sums[1] = 0 \/ call[c].sums[3] + call[c].amount > call[c].sums[1]

\* A purchase has a charge once it was marked, and one that was marked once is
\* settled with what the merchant took for that charge.
MarkedOnce(i) ==
  /\ purchases[i].times = 0 => purchases[i].status = "pending"
  /\ purchases[i].times = 0 <=> purchases[i].charge = Nobody
  /\ purchases[i].status = "settled" /\ purchases[i].times <= 1 =>
       /\ purchases[i].charge \in Charge
       /\ purchases[i].settled = charge[purchases[i].charge].captured
       /\ purchases[i].settled > 0

\* A handler has a charge, and marks a purchase that is there.
Handling(d) ==
  /\ handler[d].pc \in {"find", "mark", "tell"} => handler[d].charge \in Charge
  /\ handler[d].pc = "mark" => handler[d].row \in DOMAIN purchases

\* The limit in force is among those of the month, and months to come have none.
HighIsHighest ==
  /\ settings.limit <= high[month]
  /\ \A m \in Month : m > month => high[m] = 0

PurchasingInv ==
  /\ PurchasingOK
  /\ \A c \in Call : LookedAt(c)
  /\ \A i \in DOMAIN purchases : MarkedOnce(i)
  /\ \A d \in Delivery : Handling(d)
  /\ HighIsHighest
  /\ WithinLimit /\ AskedUnlessMoved

-----------------------------------------------------------------------------
LEMMA AmountsAre == \A x \in Amounts : x \in Nat /\ x > 0
BY PurchasingAssumption

\* What a purchase counts in a month, and how much of that is excess: never
\* more than was approved counts besides.
LEMMA RowCounts ==
  ASSUME NEW m \in Month, NEW entry \in Purchase
  PROVE  CountsIn(m, entry) \in Nat /\ ExcessIn(m, entry) \in Nat
<1>1. entry.amount \in Nat /\ entry.settled \in Nat
  <2>1. entry.amount \in Amounts /\ entry.settled \in Amounts \cup {0}
    BY DEF Purchase
  <2> QED
    BY <2>1, AmountsAre
<1>2. Counts(entry) \in Nat
  BY <1>1 DEF Counts
<1> QED
  BY <1>1, <1>2 DEF CountsIn, ExcessIn

\* The sequences that are summed.
Counted(m, rows) == [i \in DOMAIN rows |-> CountsIn(m, rows[i])]
Exceeding(m, rows) == [i \in DOMAIN rows |-> ExcessIn(m, rows[i])]

LEMMA Summed ==
  ASSUME NEW m \in Month, NEW rows \in Seq(Purchase)
  PROVE  /\ Counted(m, rows) \in Seq(Int) /\ Exceeding(m, rows) \in Seq(Int)
         /\ Len(Counted(m, rows)) = Len(rows) /\ Len(Exceeding(m, rows)) = Len(rows)
         /\ \A i \in 1 .. Len(rows) : /\ Counted(m, rows)[i] = CountsIn(m, rows[i])
                                      /\ Exceeding(m, rows)[i] = ExcessIn(m, rows[i])
                                      /\ CountsIn(m, rows[i]) \in Nat /\ ExcessIn(m, rows[i]) \in Nat
<1>1. DOMAIN rows = 1 .. Len(rows) /\ Len(rows) \in Nat
  OBVIOUS
<1>2. ASSUME NEW i \in 1 .. Len(rows)
      PROVE  CountsIn(m, rows[i]) \in Nat /\ ExcessIn(m, rows[i]) \in Nat
  <2>1. rows[i] \in Purchase
    OBVIOUS
  <2> QED
    BY <2>1, RowCounts
<1>3. /\ Counted(m, rows) = [i \in 1 .. Len(rows) |-> CountsIn(m, rows[i])]
      /\ Exceeding(m, rows) = [i \in 1 .. Len(rows) |-> ExcessIn(m, rows[i])]
  BY <1>1 DEF Counted, Exceeding
<1>4. \A i \in 1 .. Len(rows) : CountsIn(m, rows[i]) \in Int /\ ExcessIn(m, rows[i]) \in Int
  BY <1>2
<1>5. Counted(m, rows) \in [1 .. Len(rows) -> Int] /\ Exceeding(m, rows) \in [1 .. Len(rows) -> Int]
  BY <1>3, <1>4
<1> QED
  BY <1>1, <1>2, <1>3, <1>5

\* Both totals of a month are numbers.
LEMMA TotalsAreNat ==
  ASSUME NEW m \in Month, NEW rows \in Seq(Purchase)
  PROVE  Total(Counted(m, rows)) \in Nat /\ Total(Exceeding(m, rows)) \in Nat
<1>1. \A i \in 1 .. Len(rows) : Counted(m, rows)[i] >= 0 /\ Exceeding(m, rows)[i] >= 0
  BY Summed
<1>2. Total(Counted(m, rows)) \in Int /\ Total(Exceeding(m, rows)) \in Int
  BY Summed, TotalType
<1>3. Total(Counted(m, rows)) >= 0 /\ Total(Exceeding(m, rows)) >= 0
  BY <1>1, Summed, TotalNat
<1> QED
  BY <1>2, <1>3

\* One more purchase.
LEMMA TotalsOfAppend ==
  ASSUME NEW m \in Month, NEW rows \in Seq(Purchase), NEW entry \in Purchase, NEW more, more = Append(rows, entry)
  PROVE  /\ Total(Counted(m, more)) = Total(Counted(m, rows)) + CountsIn(m, entry)
         /\ Total(Exceeding(m, more)) = Total(Exceeding(m, rows)) + ExcessIn(m, entry)
<1>1. /\ more \in Seq(Purchase) /\ Len(more) = Len(rows) + 1 /\ Len(rows) \in Nat /\ more[Len(more)] = entry
      /\ \A i \in 1 .. Len(rows) : more[i] = rows[i] /\ i \in 1 .. Len(more)
  OBVIOUS
<1>2. Len(more) \in 1 .. Len(more)
  BY <1>1
<1>3. CountsIn(m, entry) \in Int /\ ExcessIn(m, entry) \in Int
  BY RowCounts
<1>4. /\ Counted(m, more)[Len(more)] = CountsIn(m, entry) /\ Exceeding(m, more)[Len(more)] = ExcessIn(m, entry)
      /\ \A i \in 1 .. Len(rows) : /\ Counted(m, more)[i] = Counted(m, rows)[i]
                                   /\ Exceeding(m, more)[i] = Exceeding(m, rows)[i]
  <2>1. \A i \in 1 .. Len(more) : /\ Counted(m, more)[i] = CountsIn(m, more[i])
                                   /\ Exceeding(m, more)[i] = ExcessIn(m, more[i])
    BY <1>1, Summed
  <2>2. \A i \in 1 .. Len(rows) : /\ Counted(m, rows)[i] = CountsIn(m, rows[i])
                                   /\ Exceeding(m, rows)[i] = ExcessIn(m, rows[i])
    BY Summed
  <2>3. \A i \in 1 .. Len(rows) : more[i] = rows[i] /\ i \in 1 .. Len(more)
    BY <1>1
  <2>4. more[Len(more)] = entry
    BY <1>1
  <2> QED
    BY <1>2, <2>1, <2>2, <2>3, <2>4
<1>5. /\ Counted(m, rows) \in Seq(Int) /\ Counted(m, more) \in Seq(Int)
      /\ Len(Counted(m, rows)) = Len(rows) /\ Len(Counted(m, more)) = Len(rows) + 1
      /\ Exceeding(m, rows) \in Seq(Int) /\ Exceeding(m, more) \in Seq(Int)
      /\ Len(Exceeding(m, rows)) = Len(rows) /\ Len(Exceeding(m, more)) = Len(rows) + 1
  <2>1. /\ Counted(m, more) \in Seq(Int) /\ Exceeding(m, more) \in Seq(Int)
        /\ Len(Counted(m, more)) = Len(more) /\ Len(Exceeding(m, more)) = Len(more)
    BY <1>1, Summed
  <2>2. /\ Counted(m, rows) \in Seq(Int) /\ Exceeding(m, rows) \in Seq(Int)
        /\ Len(Counted(m, rows)) = Len(rows) /\ Len(Exceeding(m, rows)) = Len(rows)
    BY Summed
  <2>3. Len(more) = Len(rows) + 1
    BY <1>1
  <2> QED
    BY <2>1, <2>2, <2>3
<1>6. Total(Counted(m, more)) = Total(Counted(m, rows)) + CountsIn(m, entry)
  <2>1. /\ Len(Counted(m, more)) = Len(Counted(m, rows)) + 1
        /\ Counted(m, more)[Len(Counted(m, more))] = CountsIn(m, entry)
        /\ \A i \in 1 .. Len(Counted(m, rows)) : Counted(m, more)[i] = Counted(m, rows)[i]
    BY <1>1, <1>4, <1>5
  <2>2. Counted(m, rows) \in Seq(Int) /\ Counted(m, more) \in Seq(Int)
    BY <1>5
  <2> QED
    BY <1>3, <2>1, <2>2, TotalAppend
<1>7. Total(Exceeding(m, more)) = Total(Exceeding(m, rows)) + ExcessIn(m, entry)
  <2>1. /\ Len(Exceeding(m, more)) = Len(Exceeding(m, rows)) + 1
        /\ Exceeding(m, more)[Len(Exceeding(m, more))] = ExcessIn(m, entry)
        /\ \A i \in 1 .. Len(Exceeding(m, rows)) : Exceeding(m, more)[i] = Exceeding(m, rows)[i]
    BY <1>1, <1>4, <1>5
  <2>2. Exceeding(m, rows) \in Seq(Int) /\ Exceeding(m, more) \in Seq(Int)
    BY <1>5
  <2> QED
    BY <1>3, <2>1, <2>2, TotalAppend
<1> QED
  BY <1>6, <1>7

\* One purchase is written anew.
LEMMA TotalsOfReplace ==
  ASSUME NEW m \in Month, NEW rows \in Seq(Purchase), NEW at \in DOMAIN rows, NEW entry \in Purchase,
         NEW other, other = [rows EXCEPT ![at] = entry]
  PROVE  /\ Total(Counted(m, other)) = Total(Counted(m, rows)) - CountsIn(m, rows[at]) + CountsIn(m, entry)
         /\ Total(Exceeding(m, other)) = Total(Exceeding(m, rows)) - ExcessIn(m, rows[at]) + ExcessIn(m, entry)
<1>1. /\ other \in Seq(Purchase) /\ Len(other) = Len(rows) /\ Len(rows) \in Nat /\ other[at] = entry
      /\ at \in 1 .. Len(rows)
      /\ \A i \in 1 .. Len(rows) \ {at} : other[i] = rows[i]
  OBVIOUS
<1>2. /\ Counted(m, other)[at] = CountsIn(m, entry) /\ Exceeding(m, other)[at] = ExcessIn(m, entry)
      /\ Counted(m, rows)[at] = CountsIn(m, rows[at]) /\ Exceeding(m, rows)[at] = ExcessIn(m, rows[at])
      /\ \A i \in 1 .. Len(rows) \ {at} : /\ Counted(m, other)[i] = Counted(m, rows)[i]
                                             /\ Exceeding(m, other)[i] = Exceeding(m, rows)[i]
  <2>1. \A i \in 1 .. Len(rows) : /\ Counted(m, other)[i] = CountsIn(m, other[i])
                                   /\ Exceeding(m, other)[i] = ExcessIn(m, other[i])
    <3>1. \A i \in 1 .. Len(other) : /\ Counted(m, other)[i] = CountsIn(m, other[i])
                                      /\ Exceeding(m, other)[i] = ExcessIn(m, other[i])
      BY <1>1, Summed
    <3>2. Len(other) = Len(rows)
      BY <1>1
    <3> QED
      BY <3>1, <3>2
  <2>2. \A i \in 1 .. Len(rows) : /\ Counted(m, rows)[i] = CountsIn(m, rows[i])
                                   /\ Exceeding(m, rows)[i] = ExcessIn(m, rows[i])
    BY Summed
  <2>3. other[at] = entry /\ at \in 1 .. Len(rows) /\ \A i \in 1 .. Len(rows) \ {at} : other[i] = rows[i]
    BY <1>1
  <2>4. ASSUME NEW i \in 1 .. Len(rows) \ {at}
        PROVE  Counted(m, other)[i] = Counted(m, rows)[i] /\ Exceeding(m, other)[i] = Exceeding(m, rows)[i]
    <3>1. i \in 1 .. Len(rows)
      OBVIOUS
    <3>2. other[i] = rows[i]
      BY <2>3
    <3>3. Counted(m, other)[i] = CountsIn(m, other[i]) /\ Exceeding(m, other)[i] = ExcessIn(m, other[i])
      BY <2>1, <3>1
    <3>4. Counted(m, rows)[i] = CountsIn(m, rows[i]) /\ Exceeding(m, rows)[i] = ExcessIn(m, rows[i])
      BY <2>2, <3>1
    <3> QED
      BY <3>2, <3>3, <3>4
  <2>5. /\ Counted(m, other)[at] = CountsIn(m, entry) /\ Exceeding(m, other)[at] = ExcessIn(m, entry)
        /\ Counted(m, rows)[at] = CountsIn(m, rows[at]) /\ Exceeding(m, rows)[at] = ExcessIn(m, rows[at])
    BY <2>1, <2>2, <2>3
  <2> QED
    BY <2>4, <2>5
<1>3. /\ Counted(m, rows) \in Seq(Int) /\ Counted(m, other) \in Seq(Int)
      /\ Len(Counted(m, rows)) = Len(rows) /\ Len(Counted(m, other)) = Len(rows)
      /\ Exceeding(m, rows) \in Seq(Int) /\ Exceeding(m, other) \in Seq(Int)
      /\ Len(Exceeding(m, rows)) = Len(rows) /\ Len(Exceeding(m, other)) = Len(rows)
  BY <1>1, Summed
<1>4. Total(Counted(m, other)) = Total(Counted(m, rows)) - Counted(m, rows)[at] + Counted(m, other)[at]
  <2>1. Len(Counted(m, other)) = Len(Counted(m, rows)) /\ at \in 1 .. Len(Counted(m, rows))
    BY <1>1, <1>3
  <2>2. \A i \in 1 .. Len(Counted(m, rows)) \ {at} : Counted(m, other)[i] = Counted(m, rows)[i]
    BY <1>2, <1>3
  <2> QED
    BY <1>3, <2>1, <2>2, TotalReplace
<1>5. Total(Exceeding(m, other)) = Total(Exceeding(m, rows)) - Exceeding(m, rows)[at] + Exceeding(m, other)[at]
  <2>1. Len(Exceeding(m, other)) = Len(Exceeding(m, rows)) /\ at \in 1 .. Len(Exceeding(m, rows))
    BY <1>1, <1>3
  <2>2. \A i \in 1 .. Len(Exceeding(m, rows)) \ {at} : Exceeding(m, other)[i] = Exceeding(m, rows)[i]
    BY <1>2, <1>3
  <2> QED
    BY <1>3, <2>1, <2>2, TotalReplace
<1> QED
  BY <1>2, <1>4, <1>5

LEMMA SpentIs ==
  ASSUME NEW m
  PROVE  MonthlySpent(m) = Total(Counted(m, purchases)) /\ Excess(m) = Total(Exceeding(m, purchases))
BY DEF MonthlySpent, Excess, Counted, Exceeding

LEMMA SpentIsNat ==
  ASSUME PurchasingOK, NEW m \in Month
  PROVE  MonthlySpent(m) \in Nat /\ Excess(m) \in Nat
BY SpentIs, TotalsAreNat DEF PurchasingOK

LEMMA SpentWhenAppended ==
  ASSUME purchases \in Seq(Purchase), NEW entry \in Purchase, purchases' = Append(purchases, entry), NEW m \in Month
  PROVE  /\ MonthlySpent(m)' = MonthlySpent(m) + CountsIn(m, entry)
         /\ Excess(m)' = Excess(m) + ExcessIn(m, entry)
<1>1. MonthlySpent(m)' = Total(Counted(m, purchases')) /\ Excess(m)' = Total(Exceeding(m, purchases'))
  BY DEF MonthlySpent, Excess, Counted, Exceeding
<1>2. /\ Total(Counted(m, purchases')) = Total(Counted(m, purchases)) + CountsIn(m, entry)
      /\ Total(Exceeding(m, purchases')) = Total(Exceeding(m, purchases)) + ExcessIn(m, entry)
  BY TotalsOfAppend
<1> QED
  BY <1>1, <1>2, SpentIs

LEMMA SpentWhenRewritten ==
  ASSUME purchases \in Seq(Purchase), NEW at \in DOMAIN purchases, NEW entry \in Purchase,
         purchases' = [purchases EXCEPT ![at] = entry], NEW m \in Month
  PROVE  /\ MonthlySpent(m)' = MonthlySpent(m) - CountsIn(m, purchases[at]) + CountsIn(m, entry)
         /\ Excess(m)' = Excess(m) - ExcessIn(m, purchases[at]) + ExcessIn(m, entry)
<1>1. MonthlySpent(m)' = Total(Counted(m, purchases')) /\ Excess(m)' = Total(Exceeding(m, purchases'))
  BY DEF MonthlySpent, Excess, Counted, Exceeding
<1>2. /\ Total(Counted(m, purchases'))
           = Total(Counted(m, purchases)) - CountsIn(m, purchases[at]) + CountsIn(m, entry)
      /\ Total(Exceeding(m, purchases'))
           = Total(Exceeding(m, purchases)) - ExcessIn(m, purchases[at]) + ExcessIn(m, entry)
  BY TotalsOfReplace
<1> QED
  BY <1>1, <1>2, SpentIs

-----------------------------------------------------------------------------
CallRow == [pc : {"idle", "look", "ask", "granted", "run", "over"},
            amount : Amounts \cup {0}, asked : BOOLEAN, sums : Seq(Nat)]

HandlerRow == [pc : {"idle", "find", "mark", "tell", "over"}, charge : Charge \cup {Nobody}, row : Nat]

\* What LookedAt says of the row of a call.
GoodCall(new) ==
  /\ new.pc \in {"look", "ask", "granted", "run"} => new.amount \in Amounts
  /\ new.pc = "granted" => new.asked
  /\ new.pc = "run" /\ ~ new.asked => new.sums[1] = 0 \/ new.sums[3] + new.amount > new.sums[1]

\* A call goes on and nothing is bought.
LEMMA CallIs ==
  ASSUME PurchasingInv, NEW c \in Call, NEW new \in CallRow, GoodCall(new), call' = [call EXCEPT ![c] = new]
  PROVE  call' \in [Call -> CallRow] /\ \A d \in Call : LookedAt(d)'
<1>1. call \in [Call -> CallRow]
  BY DEF PurchasingInv, PurchasingOK, CallRow
<1>2. call' \in [Call -> CallRow] /\ call'[c] = new /\ \A d \in Call \ {c} : call'[d] = call[d]
  BY <1>1
<1>3. LookedAt(c)'
  BY <1>2 DEF LookedAt, GoodCall
<1>4. \A d \in Call \ {c} : LookedAt(d)'
  BY <1>2 DEF PurchasingInv, LookedAt
<1> QED
  BY <1>2, <1>3, <1>4

\* Nothing that holds of the purchases is touched while they stay as they are.
LEMMA SamePurchases ==
  ASSUME PurchasingInv, PurchasingOK', UNCHANGED <<bot, purchases>>,
         \A c \in Call : LookedAt(c)', \A d \in Delivery : Handling(d)',
         \A a \in Charge : charge[a].captured = 0 \/ charge'[a].captured = charge[a].captured
  PROVE  PurchasingInv'
<1>1. ASSUME NEW i \in DOMAIN purchases PROVE MarkedOnce(i)'
  <2>1. MarkedOnce(i)
    BY DEF PurchasingInv
  <2>2. CASE purchases[i].status = "settled" /\ purchases[i].times <= 1
    <3>1. /\ purchases[i].charge \in Charge
          /\ purchases[i].settled = charge[purchases[i].charge].captured
          /\ purchases[i].settled > 0
      BY <2>1, <2>2 DEF MarkedOnce
    <3>2. charge'[purchases[i].charge].captured = charge[purchases[i].charge].captured
      BY <3>1
    <3> QED
      BY <2>1, <3>1, <3>2 DEF MarkedOnce
  <2>3. CASE ~ (purchases[i].status = "settled" /\ purchases[i].times <= 1)
    BY <2>1, <2>3 DEF MarkedOnce
  <2> QED
    BY <2>2, <2>3
<1>2. \A m \in Month : MonthlySpent(m)' = MonthlySpent(m) /\ Excess(m)' = Excess(m)
  BY DEF MonthlySpent, Excess
<1>3. WithinLimit'
  BY <1>2 DEF PurchasingInv, WithinLimit, bot
<1>4. HighIsHighest' /\ AskedUnlessMoved'
  BY DEF PurchasingInv, HighIsHighest, AskedUnlessMoved, bot
<1> QED
  BY <1>1, <1>3, <1>4 DEF PurchasingInv

LEMMA SameCalls == ASSUME PurchasingInv, call' = call PROVE \A c \in Call : LookedAt(c)'
BY DEF PurchasingInv, LookedAt

LEMMA SameHandlers ==
  ASSUME PurchasingInv, handler' = handler, DOMAIN purchases \subseteq DOMAIN purchases'
  PROVE  \A d \in Delivery : Handling(d)'
BY DEF PurchasingInv, Handling

LEMMA CallGoesOn ==
  ASSUME PurchasingInv, NEW c \in Call, NEW new \in CallRow, GoodCall(new), call' = [call EXCEPT ![c] = new],
         UNCHANGED <<bot, purchases, stripe>>
  PROVE  PurchasingInv'
<1>1. call' \in [Call -> CallRow] /\ \A d \in Call : LookedAt(d)'
  BY CallIs
<1>2. \A d \in Delivery : Handling(d)'
  BY SameHandlers DEF stripe
<1>3. PurchasingOK'
  BY <1>1 DEF PurchasingInv, PurchasingOK, CallRow, bot, stripe
<1> QED
  BY <1>1, <1>2, <1>3, SamePurchases DEF stripe

LEMMA CallRowIs ==
  ASSUME PurchasingInv, NEW c \in Call
  PROVE  call[c] \in CallRow /\ GoodCall(call[c])
BY DEF PurchasingInv, PurchasingOK, CallRow, LookedAt, GoodCall

LEMMA OverIs == [Resting EXCEPT !.pc = "over"] \in CallRow /\ GoodCall([Resting EXCEPT !.pc = "over"])
<1>1. <<>> \in Seq(Nat)
  OBVIOUS
<1> QED
  BY <1>1 DEF Resting, CallRow, GoodCall

LEMMA LimitsAre == \A x \in Limits \cup {0} : x \in Nat
BY PurchasingAssumption

LEMMA LimitIsNat == ASSUME PurchasingOK PROVE settings.limit \in Limits \cup {0} /\ settings.limit \in Nat
<1>1. settings.limit \in Limits \cup {0}
  BY DEF PurchasingOK
<1> QED
  BY <1>1, LimitsAre

LEMMA SumsAre ==
  ASSUME PurchasingInv
  PROVE  Sums \in Seq(Nat) /\ Sums[1] = settings.limit /\ Sums[3] = MonthlySpent(month)
<1>1. settings.limit \in Nat
  BY LimitIsNat DEF PurchasingInv
<1>2. month \in Nat
  BY PurchasingAssumption DEF PurchasingInv, PurchasingOK, Month
<1>3. MonthlySpent(month) \in Nat
  BY SpentIsNat DEF PurchasingInv, PurchasingOK
<1> QED
  BY <1>1, <1>2, <1>3 DEF Sums

LEMMA ProposePurchase ==
  ASSUME PurchasingInv, NEW c \in Call, NEW amount \in Amounts, Propose(c, amount)
  PROVE  PurchasingInv'
<1>1. call[c] \in CallRow /\ GoodCall(call[c])
  BY CallRowIs
<1>2. PICK new : new = [call[c] EXCEPT !.pc = "look", !.amount = amount]
  OBVIOUS
<1>3. new \in CallRow /\ GoodCall(new)
  BY <1>1, <1>2 DEF CallRow, GoodCall
<1>4. call' = [call EXCEPT ![c] = new] /\ UNCHANGED <<bot, purchases, stripe>>
  BY <1>2 DEF Propose
<1> QED
  BY <1>3, <1>4, CallGoesOn

\* A failed read finds too little spent, never too much.
LEMMA ReadTooLittle ==
  ASSUME PurchasingInv, NEW amount \in Amounts, NEW spent \in Readings, WouldExceed(amount, spent)
  PROVE  settings.limit = 0 \/ MonthlySpent(month) + amount > settings.limit
<1>1. MonthlySpent(month) \in Nat /\ settings.limit \in Nat /\ amount \in Nat
  BY SpentIsNat, LimitIsNat, AmountsAre DEF PurchasingInv, PurchasingOK
<1>2. spent \in {0, MonthlySpent(month)}
  BY DEF Readings
<1> QED
  BY <1>1, <1>2 DEF WouldExceed

\* Whatever goes on unasked would exceed the limit, by the sums it goes on with.
LEMMA LookAheadPurchase == ASSUME PurchasingInv, NEW c \in Call, LookAhead(c) PROVE PurchasingInv'
<1>1. call[c] \in CallRow /\ GoodCall(call[c]) /\ call[c].pc = "look"
  BY CallRowIs DEF LookAhead
<1>2. PICK spent \in Readings :
        /\ call' = [call EXCEPT ![c] =
             [@ EXCEPT !.pc = IF WouldExceed(call[c].amount, spent) THEN "run" ELSE "ask", !.sums = Sums]]
        /\ UNCHANGED <<bot, purchases, stripe>>
  BY DEF LookAhead
<1>3. PICK new : new = [call[c] EXCEPT !.pc = IF WouldExceed(call[c].amount, spent) THEN "run" ELSE "ask", !.sums = Sums]
  OBVIOUS
<1>4. new \in CallRow /\ new.amount \in Amounts /\ new.pc = (IF WouldExceed(call[c].amount, spent) THEN "run" ELSE "ask")
      /\ new.sums = Sums /\ new.amount = call[c].amount
  BY <1>1, <1>3, SumsAre DEF CallRow, GoodCall
<1>5. GoodCall(new)
  <2>1. WouldExceed(call[c].amount, spent) => settings.limit = 0 \/ MonthlySpent(month) + call[c].amount > settings.limit
    BY <1>1, ReadTooLittle DEF CallRow, GoodCall
  <2> QED
    BY <1>4, <2>1, SumsAre DEF GoodCall
<1>6. call' = [call EXCEPT ![c] = new]
  BY <1>2, <1>3
<1> QED
  BY <1>2, <1>4, <1>5, <1>6, CallGoesOn

LEMMA DecidePurchase == ASSUME PurchasingInv, NEW c \in Call, Decide(c) \/ Resume(c) PROVE PurchasingInv'
<1>1. call[c] \in CallRow /\ GoodCall(call[c])
  BY CallRowIs
<1>2. CASE CallEnds(c)
  BY <1>2, OverIs, CallGoesOn DEF CallEnds, Decide, Resume
<1>3. CASE Decide(c) /\ ~ CallEnds(c)
  <2>1. PICK new : new = [call[c] EXCEPT !.pc = "granted", !.asked = TRUE]
    OBVIOUS
  <2>2. new \in CallRow /\ GoodCall(new)
    BY <1>1, <1>3, <2>1 DEF CallRow, GoodCall, Decide
  <2>3. call' = [call EXCEPT ![c] = new] /\ UNCHANGED <<bot, purchases, stripe>>
    BY <1>3, <2>1 DEF Decide
  <2> QED
    BY <2>2, <2>3, CallGoesOn
<1>4. CASE Resume(c) /\ ~ CallEnds(c)
  <2>1. PICK new : new = [call[c] EXCEPT !.pc = "run"]
    OBVIOUS
  <2>2. new \in CallRow /\ GoodCall(new)
    BY <1>1, <1>4, <2>1 DEF CallRow, GoodCall, Resume
  <2>3. call' = [call EXCEPT ![c] = new] /\ UNCHANGED <<bot, purchases, stripe>>
    BY <1>4, <2>1 DEF Resume, CallTo
  <2> QED
    BY <2>2, <2>3, CallGoesOn
<1> QED
  BY <1>2, <1>3, <1>4

-----------------------------------------------------------------------------
\* The next is recorded only if it stays below the limit by the sums of this
\* moment: an unasked one is recorded only if the sums moved.
LEMMA RecordsPurchase == ASSUME PurchasingInv, NEW c \in Call, RecordPurchase(c) PROVE PurchasingInv'
<1>1. call[c] \in CallRow /\ GoodCall(call[c]) /\ call[c].pc = "run"
  BY CallRowIs DEF RecordPurchase
<1>2. call' \in [Call -> CallRow] /\ \A d \in Call : LookedAt(d)'
  BY OverIs, CallIs DEF RecordPurchase, CallEnds
<1>3. month \in Month /\ purchases \in Seq(Purchase)
  BY DEF PurchasingInv, PurchasingOK
<1>4. UNCHANGED <<bot, stripe>>
  BY DEF RecordPurchase
<1>5. CASE purchases' = purchases
  <2>1. PurchasingOK'
    BY <1>2, <1>4, <1>5 DEF PurchasingInv, PurchasingOK, CallRow, bot, stripe
  <2>2. \A d \in Delivery : Handling(d)'
    BY <1>4, <1>5, SameHandlers DEF stripe
  <2> QED
    BY <1>2, <1>4, <1>5, <2>1, <2>2, SamePurchases DEF stripe
<1>6. CASE purchases' # purchases
  <2>0. PICK spent \in Readings :
          purchases' = IF WouldExceed(call[c].amount, spent) THEN purchases
                       ELSE Append(purchases, AsPurchase(c, spent))
    BY DEF RecordPurchase
  <2>1. PICK entry : entry = AsPurchase(c, spent)
    OBVIOUS
  <2>2. purchases' = Append(purchases, entry) /\ ~ WouldExceed(call[c].amount, spent)
    BY <1>6, <2>0, <2>1
  <2>3. /\ entry \in Purchase /\ entry.created = month /\ entry.status = "pending" /\ entry.amount = call[c].amount
        /\ entry.charge = Nobody /\ entry.times = 0
        /\ entry.asked = call[c].asked /\ (entry.moved <=> call[c].sums # Sums)
        /\ (entry.blind <=> spent # MonthlySpent(month))
    <3>1. call[c].amount \in Amounts /\ call[c].asked \in BOOLEAN
      BY <1>1 DEF CallRow, GoodCall
    <3>2. (call[c].sums # Sums) \in BOOLEAN /\ (spent # MonthlySpent(month)) \in BOOLEAN
      OBVIOUS
    <3> QED
      BY <1>3, <2>1, <3>1, <3>2 DEF AsPurchase, Purchase
  <2>4. entry.asked \/ entry.moved \/ entry.blind
    <3> SUFFICES ASSUME ~ entry.asked, ~ entry.moved, ~ entry.blind PROVE FALSE
      OBVIOUS
    <3>1. call[c].sums = Sums /\ ~ call[c].asked
      BY <2>3
    <3>2. Sums[1] = 0 \/ Sums[3] + call[c].amount > Sums[1]
      BY <1>1, <3>1 DEF GoodCall
    <3>3. settings.limit = 0 \/ MonthlySpent(month) + call[c].amount > settings.limit
      BY <3>2, SumsAre
    <3>4. spent = MonthlySpent(month)
      BY <2>3
    <3> QED
      BY <2>2, <3>3, <3>4 DEF WouldExceed
  <2>5. /\ purchases' \in Seq(Purchase) /\ Len(purchases) \in Nat
        /\ DOMAIN purchases = 1 .. Len(purchases) /\ DOMAIN purchases' = 1 .. Len(purchases) + 1
        /\ purchases'[Len(purchases) + 1] = entry /\ \A i \in DOMAIN purchases : purchases'[i] = purchases[i]
    BY <1>3, <2>2, <2>3
  <2>6. AskedUnlessMoved'
    BY <2>4, <2>5 DEF PurchasingInv, AskedUnlessMoved
  <2>7. ASSUME NEW i \in DOMAIN purchases' PROVE MarkedOnce(i)'
    <3>1. CASE i = Len(purchases) + 1
      BY <2>3, <2>5, <3>1 DEF MarkedOnce
    <3>2. CASE i # Len(purchases) + 1
      <4>1. i \in DOMAIN purchases /\ purchases'[i] = purchases[i]
        BY <2>5, <3>2
      <4>2. MarkedOnce(i) /\ charge' = charge
        BY <1>4, <4>1 DEF PurchasingInv, stripe
      <4> QED
        BY <4>1, <4>2 DEF MarkedOnce
    <3> QED
      BY <3>1, <3>2
  <2>8. PurchasingOK' /\ HighIsHighest'
    BY <1>2, <1>4, <2>5 DEF PurchasingInv, PurchasingOK, CallRow, bot, stripe, HighIsHighest
  <2>9. \A d \in Delivery : Handling(d)'
    <3>1. DOMAIN purchases \subseteq DOMAIN purchases'
      BY <2>5
    <3> QED
      BY <1>4, <3>1, SameHandlers DEF stripe
  <2>10. WithinLimit'
    <3> SUFFICES ASSUME NEW m \in Month,
                        \A i \in DOMAIN purchases' : purchases'[i].created = m => Plain(purchases'[i])
                 PROVE  MonthlySpent(m)' <= high'[m] + Excess(m)'
      BY DEF WithinLimit
    <3>1. \A i \in DOMAIN purchases : purchases[i].created = m => Plain(purchases[i])
      BY <2>5
    <3>2. MonthlySpent(m) <= high[m] + Excess(m)
      BY <3>1 DEF PurchasingInv, WithinLimit
    <3>3. MonthlySpent(m)' = MonthlySpent(m) + CountsIn(m, entry) /\ Excess(m)' = Excess(m) + ExcessIn(m, entry)
      BY <1>3, <2>2, <2>3, SpentWhenAppended
    <3>4. high'[m] = high[m] /\ high[m] \in Nat
      <4>1. high[m] \in Limits \cup {0}
        BY DEF PurchasingInv, PurchasingOK
      <4> QED
        BY <1>4, <4>1, LimitsAre DEF bot
    <3>5. MonthlySpent(m) \in Nat /\ Excess(m) \in Nat
      BY SpentIsNat DEF PurchasingInv
    <3>6. ExcessIn(m, entry) = 0
      BY <2>3 DEF ExcessIn
    <3>7. CASE m # month
      <4>1. CountsIn(m, entry) = 0
        BY <2>3, <3>7 DEF CountsIn
      <4> QED
        BY <3>2, <3>3, <3>4, <3>5, <3>6, <4>1
    <3>8. CASE m = month
      <4>1. CountsIn(m, entry) = call[c].amount /\ call[c].amount \in Nat
        <5>1. CountsIn(m, entry) = entry.amount
          BY <2>3, <3>8 DEF CountsIn, Counts
        <5> QED
          BY <1>1, <2>3, <5>1, AmountsAre DEF GoodCall
      <4>2. MonthlySpent(m) + call[c].amount <= settings.limit /\ settings.limit \in Nat
        <5>1. entry.created = m /\ ~ entry.blind
          <6>1. Len(purchases) + 1 \in DOMAIN purchases' /\ purchases'[Len(purchases) + 1] = entry /\ entry.created = m
            BY <2>3, <2>5, <3>8
          <6>2. Plain(entry)
            BY <6>1
          <6> QED
            BY <6>1, <6>2 DEF Plain
        <5>2. spent = MonthlySpent(m)
          BY <2>3, <3>8, <5>1
        <5>3. ~ (MonthlySpent(m) + call[c].amount > settings.limit)
          BY <2>2, <5>2 DEF WouldExceed
        <5> QED
          BY <3>5, <4>1, <5>3, LimitIsNat DEF PurchasingInv
      <4>3. settings.limit <= high[m]
        BY <3>8 DEF PurchasingInv, HighIsHighest
      <4> QED
        BY <3>3, <3>4, <3>5, <3>6, <4>1, <4>2, <4>3
    <3> QED
      BY <3>7, <3>8
  <2> QED
    BY <1>2, <2>6, <2>7, <2>8, <2>9, <2>10 DEF PurchasingInv
<1> QED
  BY <1>5, <1>6

-----------------------------------------------------------------------------
\* A purchase that is written anew counts no more than it did, but for excess,
\* unless it was marked twice.
LEMMA Rewritten ==
  ASSUME PurchasingInv, UNCHANGED <<bot, call>>, NEW at \in DOMAIN purchases, NEW entry \in Purchase,
         purchases' = [purchases EXCEPT ![at] = entry],
         entry.created = purchases[at].created, entry.times >= purchases[at].times,
         entry.asked = purchases[at].asked, entry.moved = purchases[at].moved, entry.blind = purchases[at].blind,
         entry.times <= 1 => \A m \in Month : CountsIn(m, entry) + ExcessIn(m, purchases[at])
                                              <= CountsIn(m, purchases[at]) + ExcessIn(m, entry)
  PROVE  /\ purchases' \in Seq(Purchase) /\ DOMAIN purchases' = DOMAIN purchases
         /\ purchases'[at] = entry /\ \A i \in DOMAIN purchases \ {at} : purchases'[i] = purchases[i]
         /\ WithinLimit' /\ AskedUnlessMoved' /\ HighIsHighest' /\ \A c \in Call : LookedAt(c)'
<1>1. purchases \in Seq(Purchase) /\ purchases[at] \in Purchase
  BY DEF PurchasingInv, PurchasingOK
<1>2. /\ purchases' \in Seq(Purchase) /\ DOMAIN purchases' = DOMAIN purchases
      /\ purchases'[at] = entry /\ \A i \in DOMAIN purchases \ {at} : purchases'[i] = purchases[i]
  BY <1>1
<1>3. AskedUnlessMoved'
  BY <1>2 DEF PurchasingInv, AskedUnlessMoved
<1>4. HighIsHighest' /\ \A c \in Call : LookedAt(c)'
  BY DEF PurchasingInv, HighIsHighest, LookedAt, bot
<1>5. WithinLimit'
  <2> SUFFICES ASSUME NEW m \in Month,
                      \A i \in DOMAIN purchases' : purchases'[i].created = m => Plain(purchases'[i])
               PROVE  MonthlySpent(m)' <= high'[m] + Excess(m)'
    BY DEF WithinLimit
  <2>1. purchases[at].times \in Nat /\ entry.times \in Nat
    BY <1>1 DEF Purchase
  <2>2. ASSUME NEW i \in DOMAIN purchases, purchases[i].created = m PROVE Plain(purchases[i])
    <3>1. CASE i = at
      <4>1. Plain(entry) /\ entry.times >= purchases[at].times /\ entry.blind = purchases[at].blind
        BY <1>2, <2>2, <3>1
      <4> QED
        BY <2>1, <3>1, <4>1 DEF Plain
    <3>2. CASE i # at
      BY <1>2, <2>2, <3>2
    <3> QED
      BY <3>1, <3>2
  <2>3. MonthlySpent(m) <= high[m] + Excess(m)
    BY <2>2 DEF PurchasingInv, WithinLimit
  <2>4. /\ MonthlySpent(m)' = MonthlySpent(m) - CountsIn(m, purchases[at]) + CountsIn(m, entry)
        /\ Excess(m)' = Excess(m) - ExcessIn(m, purchases[at]) + ExcessIn(m, entry)
    BY <1>1, SpentWhenRewritten
  <2>5. high'[m] = high[m] /\ high[m] \in Nat
    <3>1. high[m] \in Limits \cup {0}
      BY DEF PurchasingInv, PurchasingOK
    <3> QED
      BY <3>1, LimitsAre DEF bot
  <2>6. MonthlySpent(m) \in Nat /\ Excess(m) \in Nat
    BY SpentIsNat DEF PurchasingInv
  <2>7. /\ CountsIn(m, entry) \in Nat /\ ExcessIn(m, entry) \in Nat
        /\ CountsIn(m, purchases[at]) \in Nat /\ ExcessIn(m, purchases[at]) \in Nat
    BY <1>1, RowCounts
  <2>8. CountsIn(m, entry) + ExcessIn(m, purchases[at]) <= CountsIn(m, purchases[at]) + ExcessIn(m, entry)
    <3>1. CASE entry.created = m
      <4>1. Plain(entry)
        BY <1>2, <3>1
      <4> QED
        BY <4>1 DEF Plain
    <3>2. CASE entry.created # m
      BY <3>2 DEF CountsIn, ExcessIn
    <3> QED
      BY <3>1, <3>2
  <2> HIDE DEF CountsIn, ExcessIn
  <2> QED
    BY <2>3, <2>4, <2>5, <2>6, <2>7, <2>8
<1> QED
  BY <1>2, <1>3, <1>4, <1>5

\* The mark is the first, or there is one mark more.
LEMMA MarkPurchase == ASSUME PurchasingInv, NEW d \in Delivery, Mark(d) PROVE PurchasingInv'
<1> DEFINE at == handler[d].row
<1>1. handler \in [Delivery -> HandlerRow] /\ purchases \in Seq(Purchase)
  BY DEF PurchasingInv, PurchasingOK, HandlerRow
<1>2. /\ at \in DOMAIN purchases /\ purchases[at] \in Purchase /\ MarkedOnce(at)
      /\ handler[d].charge \in Charge /\ handler[d].charge # Nobody
  <2>1. at \in DOMAIN purchases /\ handler[d].charge \in Charge
    BY DEF Mark, PurchasingInv, Handling
  <2> QED
    BY <1>1, <2>1, PurchasingAssumption DEF PurchasingInv
<1>3. PICK entry : entry = [purchases[at] EXCEPT !.status = "authorized", !.charge = handler[d].charge,
                                               !.times = purchases[at].times + 1]
  OBVIOUS
<1>4. /\ entry \in Purchase /\ entry.created = purchases[at].created /\ entry.times = purchases[at].times + 1
      /\ entry.asked = purchases[at].asked /\ entry.moved = purchases[at].moved
      /\ entry.blind = purchases[at].blind
      /\ entry.status = "authorized" /\ entry.charge = handler[d].charge /\ entry.amount = purchases[at].amount
      /\ purchases[at].times \in Nat
  <2>1. purchases[at].times \in Nat
    BY <1>2 DEF Purchase
  <2>2. PICK n \in Nat : n = purchases[at].times + 1
    BY <2>1
  <2>3. entry = [purchases[at] EXCEPT !.status = "authorized", !.charge = handler[d].charge, !.times = n]
    BY <1>3, <2>2
  <2>4. /\ entry \in Purchase /\ entry.created = purchases[at].created /\ entry.times = n
        /\ entry.asked = purchases[at].asked /\ entry.moved = purchases[at].moved
        /\ entry.blind = purchases[at].blind
        /\ entry.status = "authorized" /\ entry.charge = handler[d].charge /\ entry.amount = purchases[at].amount
    BY <1>2, <2>3 DEF Purchase
  <2> QED
    BY <2>1, <2>2, <2>4
<1>5. ASSUME entry.times <= 1, NEW m \in Month
      PROVE  CountsIn(m, entry) + ExcessIn(m, purchases[at]) <= CountsIn(m, purchases[at]) + ExcessIn(m, entry)
  <2>1. purchases[at].times = 0
    BY <1>4, <1>5
  <2>2. purchases[at].status = "pending"
    BY <1>2, <2>1 DEF MarkedOnce
  <2>3. ExcessIn(m, purchases[at]) = 0 /\ ExcessIn(m, entry) = 0
    BY <1>4, <2>2 DEF ExcessIn
  <2>4. CountsIn(m, entry) = CountsIn(m, purchases[at])
    BY <1>4, <2>2 DEF CountsIn, Counts
  <2>5. CountsIn(m, entry) \in Nat
    BY <1>4, RowCounts
  <2> QED
    BY <2>3, <2>4, <2>5
<1>6. purchases' = [purchases EXCEPT ![at] = entry] /\ UNCHANGED <<bot, call, charge>>
  <2>1. purchases' = [purchases EXCEPT ![at] = [purchases[at] EXCEPT !.status = "authorized",
                        !.charge = handler[d].charge, !.times = purchases[at].times + 1]]
    BY DEF Mark
  <2> QED
    BY <1>3, <2>1 DEF Mark
<1>7. entry.times >= purchases[at].times
  BY <1>4
<1>8. /\ purchases' \in Seq(Purchase) /\ DOMAIN purchases' = DOMAIN purchases
      /\ purchases'[at] = entry /\ \A i \in DOMAIN purchases \ {at} : purchases'[i] = purchases[i]
      /\ WithinLimit' /\ AskedUnlessMoved' /\ HighIsHighest' /\ \A c \in Call : LookedAt(c)'
  BY <1>2, <1>4, <1>5, <1>6, <1>7, Rewritten
<1>9. ASSUME NEW i \in DOMAIN purchases' PROVE MarkedOnce(i)'
  <2>1. CASE i = at
    BY <1>2, <1>4, <1>8, <2>1 DEF MarkedOnce
  <2>2. CASE i # at
    <3>1. i \in DOMAIN purchases /\ purchases'[i] = purchases[i] /\ MarkedOnce(i)
      BY <1>8, <2>2 DEF PurchasingInv
    <3> QED
      BY <1>6, <3>1 DEF MarkedOnce
  <2> QED
    BY <2>1, <2>2
<1>10. handler' \in [Delivery -> HandlerRow] /\ \A e \in Delivery : Handling(e)'
  <2>1. PICK new : new = [handler[d] EXCEPT !.pc = "tell"]
    OBVIOUS
  <2>2. new \in HandlerRow /\ new.pc = "tell" /\ new.charge \in Charge
    BY <1>1, <1>2, <2>1 DEF HandlerRow
  <2>3. handler' = [handler EXCEPT ![d] = new]
    BY <2>1 DEF Mark
  <2>4. /\ handler' \in [Delivery -> HandlerRow] /\ handler'[d] = new
        /\ \A e \in Delivery \ {d} : handler'[e] = handler[e]
    BY <1>1, <2>2, <2>3
  <2> QED
    BY <1>8, <2>2, <2>4 DEF PurchasingInv, Handling
<1>11. PurchasingOK'
  BY <1>6, <1>8, <1>10 DEF PurchasingInv, PurchasingOK, HandlerRow, bot
<1> QED
  BY <1>8, <1>9, <1>10, <1>11 DEF PurchasingInv

\* What is settled counts, and what of it was not approved is excess.
LEMMA SettlePurchase == ASSUME PurchasingInv, NEW a \in Charge, Settle(a) PROVE PurchasingInv'
<1>1. PICK at \in DOMAIN purchases :
        /\ purchases[at].charge = a
        /\ purchases' = [purchases EXCEPT ![at] = [@ EXCEPT !.status = "settled", !.settled = charge[a].captured]]
  BY DEF Settle
<1>2. purchases \in Seq(Purchase) /\ purchases[at] \in Purchase /\ MarkedOnce(at) /\ a # Nobody
  BY PurchasingAssumption DEF PurchasingInv, PurchasingOK
<1>3. charge[a].captured \in Amounts /\ charge[a].captured > 0 /\ charge[a].captured \in Nat
  <2>1. charge[a].captured \in Amounts \cup {0} /\ charge[a].captured > 0
    BY DEF Settle, PurchasingInv, PurchasingOK
  <2> QED
    BY <2>1, AmountsAre
<1>4. PICK entry : entry = [purchases[at] EXCEPT !.status = "settled", !.settled = charge[a].captured]
  OBVIOUS
<1>5. /\ entry \in Purchase /\ entry.created = purchases[at].created /\ entry.times = purchases[at].times
      /\ entry.asked = purchases[at].asked /\ entry.moved = purchases[at].moved
      /\ entry.blind = purchases[at].blind
      /\ entry.status = "settled" /\ entry.settled = charge[a].captured /\ entry.charge = a
      /\ entry.amount = purchases[at].amount /\ purchases[at].times \in Nat
      /\ purchases[at].amount \in Amounts
      /\ purchases[at].status \in {"pending", "authorized", "settled"}
  BY <1>1, <1>2, <1>3, <1>4 DEF Purchase
<1>6. ASSUME entry.times <= 1, NEW m \in Month
      PROVE  CountsIn(m, entry) + ExcessIn(m, purchases[at]) <= CountsIn(m, purchases[at]) + ExcessIn(m, entry)
  <2>1. CASE purchases[at].status = "settled"
    <3>1. purchases[at].settled = charge[a].captured
      BY <1>1, <1>2, <1>5, <1>6, <2>1 DEF MarkedOnce
    <3>2. CountsIn(m, entry) = CountsIn(m, purchases[at]) /\ ExcessIn(m, entry) = ExcessIn(m, purchases[at])
      BY <1>5, <2>1, <3>1 DEF CountsIn, Counts, ExcessIn
    <3>3. CountsIn(m, entry) \in Nat /\ ExcessIn(m, entry) \in Nat
      BY <1>5, RowCounts
    <3> QED
      BY <3>2, <3>3
  <2>2. CASE purchases[at].status # "settled"
    <3>1. ExcessIn(m, purchases[at]) = 0
      BY <2>2 DEF ExcessIn
    <3>2. entry.amount \in Nat
      BY <1>5, AmountsAre
    <3>3. CASE entry.created = m
      <4>1. CountsIn(m, purchases[at]) = entry.amount /\ CountsIn(m, entry) = charge[a].captured
        BY <1>5, <2>2, <3>3 DEF CountsIn, Counts
      <4>2. ExcessIn(m, entry) = IF charge[a].captured > entry.amount THEN charge[a].captured - entry.amount ELSE 0
        BY <1>5, <3>3 DEF ExcessIn
      <4> QED
        BY <1>3, <3>1, <3>2, <4>1, <4>2
    <3>4. CASE entry.created # m
      <4>1. CountsIn(m, purchases[at]) = 0 /\ CountsIn(m, entry) = 0 /\ ExcessIn(m, entry) = 0
        BY <1>5, <3>4 DEF CountsIn, ExcessIn
      <4> QED
        BY <3>1, <4>1
    <3> QED
      BY <3>3, <3>4
  <2> QED
    BY <2>1, <2>2
<1>7. purchases' = [purchases EXCEPT ![at] = entry] /\ UNCHANGED <<bot, call, stripe>>
  BY <1>1, <1>4 DEF Settle
<1>8. entry.times >= purchases[at].times
  BY <1>5
<1>9. /\ purchases' \in Seq(Purchase) /\ DOMAIN purchases' = DOMAIN purchases
      /\ purchases'[at] = entry /\ \A i \in DOMAIN purchases \ {at} : purchases'[i] = purchases[i]
      /\ WithinLimit' /\ AskedUnlessMoved' /\ HighIsHighest' /\ \A c \in Call : LookedAt(c)'
  BY <1>5, <1>6, <1>7, <1>8, Rewritten
<1>10. ASSUME NEW i \in DOMAIN purchases' PROVE MarkedOnce(i)'
  <2>1. CASE i = at
    <3>1. purchases[at].times # 0
      BY <1>1, <1>2 DEF MarkedOnce
    <3>2. entry.times # 0 /\ entry.charge = a /\ entry.settled = charge'[a].captured /\ entry.settled > 0
      BY <1>3, <1>5, <1>7, <3>1 DEF stripe
    <3> QED
      BY <1>2, <1>9, <2>1, <3>2 DEF MarkedOnce
  <2>2. CASE i # at
    <3>1. i \in DOMAIN purchases /\ purchases'[i] = purchases[i] /\ MarkedOnce(i)
      BY <1>9, <2>2 DEF PurchasingInv
    <3> QED
      BY <1>7, <3>1 DEF MarkedOnce, stripe
  <2> QED
    BY <2>1, <2>2
<1>11. \A d \in Delivery : Handling(d)'
  BY <1>7, <1>9, SameHandlers DEF stripe
<1>12. PurchasingOK'
  BY <1>7, <1>9 DEF PurchasingInv, PurchasingOK, bot, stripe
<1> QED
  BY <1>9, <1>10, <1>11, <1>12 DEF PurchasingInv

-----------------------------------------------------------------------------
\* What else Stripe and its handlers do touches no purchase.
ChargeRow == [amount : Amounts \cup {0}, answer : {"none", "open", "approved", "declined"},
              captured : Amounts \cup {0}]

LEMMA HandlerGoesOn ==
  ASSUME PurchasingInv, NEW d \in Delivery, NEW new \in HandlerRow, handler' = [handler EXCEPT ![d] = new],
         new.pc \in {"find", "mark", "tell"} => new.charge \in Charge,
         new.pc = "mark" => new.row \in DOMAIN purchases,
         charge' \in [Charge -> ChargeRow], UNCHANGED <<bot, call, purchases>>,
         \A a \in Charge : charge[a].captured = 0 \/ charge'[a].captured = charge[a].captured
  PROVE  PurchasingInv'
<1>1. handler \in [Delivery -> HandlerRow]
  BY DEF PurchasingInv, PurchasingOK, HandlerRow
<1>2. handler' \in [Delivery -> HandlerRow] /\ handler'[d] = new /\ \A e \in Delivery \ {d} : handler'[e] = handler[e]
  BY <1>1
<1>3. \A e \in Delivery : Handling(e)'
  BY <1>2 DEF PurchasingInv, Handling
<1>4. PurchasingOK'
  BY <1>2 DEF PurchasingInv, PurchasingOK, HandlerRow, ChargeRow, bot
<1> QED
  BY <1>3, <1>4, SameCalls, SamePurchases

LEMMA ChargeGoesOn ==
  ASSUME PurchasingInv, NEW a \in Charge, NEW new \in ChargeRow, charge' = [charge EXCEPT ![a] = new],
         charge[a].captured = 0 \/ new.captured = charge[a].captured,
         UNCHANGED <<bot, call, purchases, handler>>
  PROVE  PurchasingInv'
<1>1. charge' \in [Charge -> ChargeRow] /\ charge'[a] = new /\ \A b \in Charge \ {a} : charge'[b] = charge[b]
  BY DEF PurchasingInv, PurchasingOK, ChargeRow
<1>2. PurchasingOK'
  BY <1>1 DEF PurchasingInv, PurchasingOK, ChargeRow, bot
<1>3. \A b \in Charge : charge[b].captured = 0 \/ charge'[b].captured = charge[b].captured
  BY <1>1
<1> QED
  BY <1>2, <1>3, SameCalls, SameHandlers, SamePurchases

LEMMA ChargeRowIs ==
  ASSUME PurchasingInv
  PROVE  charge \in [Charge -> ChargeRow] /\ handler \in [Delivery -> HandlerRow]
BY DEF PurchasingInv, PurchasingOK, ChargeRow, HandlerRow

LEMMA AuthorizePurchase ==
  ASSUME PurchasingInv, NEW a \in Charge, NEW amount \in Amounts, Authorize(a, amount) \/ Capture(a, amount)
  PROVE  PurchasingInv'
<1>1. charge[a] \in ChargeRow
  BY ChargeRowIs
<1>2. CASE Authorize(a, amount)
  <2>1. PICK new : new = [charge[a] EXCEPT !.amount = amount, !.answer = "open"]
    OBVIOUS
  <2>2. new \in ChargeRow /\ new.captured = charge[a].captured
    BY <1>1, <2>1 DEF ChargeRow
  <2>3. charge' = [charge EXCEPT ![a] = new] /\ UNCHANGED <<bot, call, purchases, handler>>
    BY <1>2, <2>1 DEF Authorize
  <2> QED
    BY <2>2, <2>3, ChargeGoesOn
<1>3. CASE Capture(a, amount)
  <2>1. PICK new : new = [charge[a] EXCEPT !.captured = amount]
    OBVIOUS
  <2>2. new \in ChargeRow /\ charge[a].captured = 0
    BY <1>1, <1>3, <2>1 DEF ChargeRow, Capture
  <2>3. charge' = [charge EXCEPT ![a] = new] /\ UNCHANGED <<bot, call, purchases, handler>>
    BY <1>3, <2>1 DEF Capture
  <2> QED
    BY <2>2, <2>3, ChargeGoesOn
<1> QED
  BY <1>2, <1>3

\* Among numbers there is a least.
LEMMA Least == ASSUME NEW S, S \subseteq Nat, S # {} PROVE \E i \in S : \A j \in S : i <= j
<1>1. PICK x \in S : \A y \in S : ~ (<<y, x>> \in OpToRel(<, Nat))
  BY NatLessThanWellFounded, WFMin
<1>2. ASSUME NEW y \in S PROVE x <= y
  <2>1. x \in Nat /\ y \in Nat /\ ~ (y < x)
    BY <1>1 DEF OpToRel
  <2> QED
    BY <2>1
<1> QED
  BY <1>2

LEMMA HandlePurchase ==
  ASSUME PurchasingInv, NEW d \in Delivery, (\E a \in Charge : Deliver(d, a)) \/ Find(d) \/ Tell(d)
  PROVE  PurchasingInv'
<1>1. charge \in [Charge -> ChargeRow] /\ handler[d] \in HandlerRow
  BY ChargeRowIs
<1>2. ASSUME NEW a \in Charge, Deliver(d, a) PROVE PurchasingInv'
  <2>1. PICK new : new = [handler[d] EXCEPT !.pc = "find", !.charge = a]
    OBVIOUS
  <2>2. new \in HandlerRow /\ new.charge = a /\ new.pc = "find"
    BY <1>1, <2>1 DEF HandlerRow
  <2>3. handler' = [handler EXCEPT ![d] = new] /\ UNCHANGED <<bot, call, purchases, charge>>
    BY <1>2, <2>1 DEF Deliver
  <2> QED
    BY <1>1, <2>2, <2>3, HandlerGoesOn
<1>3. CASE Find(d)
  <2> DEFINE found == Matching(charge[handler[d].charge].amount)
  <2>0. handler[d].charge \in Charge
    BY <1>3 DEF Find, PurchasingInv, Handling
  <2>1. CASE found = {}
    <3>1. PICK new : new = [handler[d] EXCEPT !.pc = "tell"]
      OBVIOUS
    <3>2. new \in HandlerRow /\ new.charge \in Charge /\ new.pc = "tell"
      BY <1>1, <2>0, <3>1 DEF HandlerRow
    <3>3. handler' = [handler EXCEPT ![d] = new] /\ UNCHANGED <<bot, call, purchases, charge>>
      BY <1>3, <2>1, <3>1 DEF Find
    <3> QED
      BY <1>1, <3>2, <3>3, HandlerGoesOn
  <2>2. CASE found # {}
    <3>1. PICK at : at = CHOOSE i \in found : \A j \in found : i <= j
      OBVIOUS
    <3>2. at \in found /\ at \in DOMAIN purchases /\ at \in Nat
      <4>1. found \subseteq DOMAIN purchases /\ DOMAIN purchases \subseteq Nat
        <5>1. DOMAIN purchases = 1 .. Len(purchases) /\ Len(purchases) \in Nat
          BY DEF PurchasingInv, PurchasingOK
        <5> QED
          BY <5>1 DEF Matching
      <4> HIDE DEF found
      <4>2. \E i \in found : \A j \in found : i <= j
        BY <2>2, <4>1, Least
      <4> QED
        BY <3>1, <4>1, <4>2
    <3>3. PICK new : new = [handler[d] EXCEPT !.pc = "mark", !.row = at]
      OBVIOUS
    <3>4. new \in HandlerRow /\ new.charge \in Charge /\ new.row = at
      BY <1>1, <2>0, <3>2, <3>3 DEF HandlerRow
    <3>5. handler' = [handler EXCEPT ![d] = new] /\ UNCHANGED <<bot, call, purchases, charge>>
      BY <1>3, <2>2, <3>1, <3>3 DEF Find
    <3> QED
      BY <1>1, <3>2, <3>4, <3>5, HandlerGoesOn
  <2> QED
    BY <2>1, <2>2
<1>4. CASE Tell(d)
  <2>0. handler[d].charge \in Charge
    BY <1>4 DEF Tell, PurchasingInv, Handling
  <2>1. PICK new : new = [pc |-> "over", charge |-> Nobody, row |-> 0]
    OBVIOUS
  <2>2. new \in HandlerRow /\ new.pc = "over"
    BY <2>1 DEF HandlerRow
  <2>3. handler' = [handler EXCEPT ![d] = new] /\ UNCHANGED <<bot, call, purchases>>
    BY <1>4, <2>1 DEF Tell
  <2>4. charge' \in [Charge -> ChargeRow] /\ \A a \in Charge : charge'[a].captured = charge[a].captured
    <3>1. CASE charge' = charge
      BY <1>1, <3>1
    <3>2. CASE charge' # charge
      <4>1. PICK answer \in {"declined", "approved"} :
              charge' = [charge EXCEPT ![handler[d].charge] = [charge[handler[d].charge] EXCEPT !.answer = answer]]
        BY <1>4, <3>2 DEF Tell
      <4>2. PICK told : told = [charge[handler[d].charge] EXCEPT !.answer = answer]
        OBVIOUS
      <4>3. told \in ChargeRow /\ told.captured = charge[handler[d].charge].captured
        BY <1>1, <2>0, <4>2 DEF ChargeRow
      <4>4. charge' = [charge EXCEPT ![handler[d].charge] = told]
        BY <4>1, <4>2
      <4> QED
        BY <1>1, <2>0, <4>3, <4>4
    <3> QED
      BY <3>1, <3>2
  <2> QED
    BY <2>2, <2>3, <2>4, HandlerGoesOn
<1> QED
  BY <1>2, <1>3, <1>4

-----------------------------------------------------------------------------
\* A limit that is changed counts from now, and the highest of a month only rises.
LEMMA HigherPurchase ==
  ASSUME PurchasingInv, UNCHANGED <<call, purchases, stripe>>, PurchasingOK', HighIsHighest',
         \A m \in Month : high'[m] >= high[m]
  PROVE  PurchasingInv'
<1>1. \A c \in Call : LookedAt(c)'
  BY SameCalls
<1>2. \A d \in Delivery : Handling(d)'
  BY SameHandlers DEF stripe
<1>3. \A i \in DOMAIN purchases' : MarkedOnce(i)'
  BY DEF PurchasingInv, MarkedOnce, stripe
<1>4. AskedUnlessMoved'
  BY DEF PurchasingInv, AskedUnlessMoved
<1>5. WithinLimit'
  <2> SUFFICES ASSUME NEW m \in Month,
                      \A i \in DOMAIN purchases : purchases[i].created = m => Plain(purchases[i])
               PROVE  MonthlySpent(m)' <= high'[m] + Excess(m)'
    BY DEF WithinLimit
  <2>1. MonthlySpent(m) <= high[m] + Excess(m)
    BY DEF PurchasingInv, WithinLimit
  <2>2. MonthlySpent(m)' = MonthlySpent(m) /\ Excess(m)' = Excess(m)
    BY DEF MonthlySpent, Excess
  <2>3. MonthlySpent(m) \in Nat /\ Excess(m) \in Nat
    BY SpentIsNat DEF PurchasingInv
  <2>4. high[m] \in Nat /\ high'[m] \in Nat /\ high'[m] >= high[m]
    <3>1. high[m] \in Limits \cup {0} /\ high'[m] \in Limits \cup {0}
      BY DEF PurchasingInv, PurchasingOK
    <3> QED
      BY <3>1, LimitsAre
  <2> QED
    BY <2>1, <2>2, <2>3, <2>4
<1> QED
  BY <1>1, <1>2, <1>3, <1>4, <1>5 DEF PurchasingInv

LEMMA BotIs ==
  ASSUME PurchasingInv
  PROVE  /\ month \in Month /\ MaxMonth \in Nat /\ MaxEdits \in Nat /\ edits \in 0 .. MaxEdits
         /\ settings.limit \in Limits \cup {0} /\ settings.limit \in Nat
         /\ high \in [Month -> Limits \cup {0}] /\ \A m \in Month : high[m] \in Nat
<1>1. MaxMonth \in Nat /\ MaxEdits \in Nat
  BY PurchasingAssumption
<1>2. month \in Month /\ edits \in 0 .. MaxEdits /\ high \in [Month -> Limits \cup {0}]
  BY DEF PurchasingInv, PurchasingOK
<1> QED
  BY <1>1, <1>2, LimitsAre, LimitIsNat DEF PurchasingInv

LEMMA PutSettings ==
  ASSUME PurchasingInv, NEW new \in [canBuy : BOOLEAN, limit : Limits \cup {0}], PutPurchasing(new)
  PROVE  PurchasingInv'
<1>1. new.limit \in Limits \cup {0} /\ new.limit \in Nat
  BY LimitsAre
<1>2. PICK top : top = IF new.limit > high[month] THEN new.limit ELSE high[month]
  OBVIOUS
<1>3. top \in Limits \cup {0} /\ top \in Nat /\ top >= high[month] /\ top >= new.limit
  BY <1>1, <1>2, BotIs
<1>4. high' = [high EXCEPT ![month] = top] /\ settings' = new /\ month' = month /\ UNCHANGED <<call, purchases, stripe>>
  BY <1>2 DEF PutPurchasing
<1>5. high' \in [Month -> Limits \cup {0}] /\ high'[month] = top /\ \A m \in Month \ {month} : high'[m] = high[m]
  BY <1>3, <1>4, BotIs
<1>6. edits' \in 0 .. MaxEdits
  BY BotIs DEF PutPurchasing
<1>7. PurchasingOK'
  BY <1>4, <1>5, <1>6 DEF PurchasingInv, PurchasingOK, stripe
<1>8. HighIsHighest'
  <2>1. \A m \in Month : m > month => m # month
    BY BotIs DEF Month
  <2> QED
    BY <1>3, <1>4, <1>5, <2>1 DEF PurchasingInv, HighIsHighest
<1>9. \A m \in Month : high'[m] >= high[m]
  BY <1>3, <1>5, BotIs
<1> QED
  BY <1>4, <1>7, <1>8, <1>9, HigherPurchase

LEMMA NextMonthPurchase == ASSUME PurchasingInv, NextMonth PROVE PurchasingInv'
<1>1. /\ month + 1 \in Month /\ month + 1 > month /\ month' = month + 1
      /\ high' = [high EXCEPT ![month + 1] = settings.limit] /\ UNCHANGED <<settings, call, purchases, stripe, edits>>
  BY BotIs DEF NextMonth, Month
<1>2. /\ high' \in [Month -> Limits \cup {0}] /\ high'[month + 1] = settings.limit
      /\ \A m \in Month \ {month + 1} : high'[m] = high[m]
  BY <1>1, BotIs
<1>3. PurchasingOK'
  BY <1>1, <1>2 DEF PurchasingInv, PurchasingOK, stripe
<1>4. HighIsHighest'
  <2>1. settings'.limit <= high'[month']
    BY <1>1, <1>2, BotIs
  <2>2. ASSUME NEW m \in Month, m > month' PROVE high'[m] = 0
    <3>1. m > month /\ m # month + 1
      BY <1>1, <2>2, BotIs DEF Month
    <3> QED
      BY <1>2, <3>1 DEF PurchasingInv, HighIsHighest
  <2> QED
    BY <2>1, <2>2 DEF HighIsHighest
<1>5. \A m \in Month : high'[m] >= high[m]
  <2>1. high[month + 1] = 0
    BY <1>1 DEF PurchasingInv, HighIsHighest
  <2> QED
    BY <1>1, <1>2, <2>1, BotIs
<1> QED
  BY <1>1, <1>3, <1>4, <1>5, HigherPurchase

LEMMA InitPurchasingInv == PurchasingInit => PurchasingInv
<1> SUFFICES ASSUME PurchasingInit PROVE PurchasingInv
  OBVIOUS
<1>1. 0 \in Month /\ 0 \in 0 .. MaxEdits /\ \A m \in Month : m > 0 => m # 0
  <2>1. MaxMonth \in Nat /\ MaxEdits \in Nat
    BY PurchasingAssumption
  <2> QED
    BY <2>1 DEF Month
<1>2. settings.limit \in Limits /\ settings.limit \in Nat /\ settings \in [canBuy : BOOLEAN, limit : Limits \cup {0}]
  BY LimitsAre DEF PurchasingInit
<1>3. high = [m \in Month |-> IF m = 0 THEN settings.limit ELSE 0] /\ month = 0 /\ purchases = <<>>
  BY DEF PurchasingInit
<1>4. high \in [Month -> Limits \cup {0}] /\ HighIsHighest
  BY <1>1, <1>2, <1>3 DEF HighIsHighest
<1>5. call = [c \in Call |-> Resting] /\ Resting \in CallRow /\ \A c \in Call : LookedAt(c)
  <2>1. <<>> \in Seq(Nat)
    OBVIOUS
  <2> QED
    BY <2>1 DEF PurchasingInit, Resting, CallRow, LookedAt
<1>6. handler \in [Delivery -> HandlerRow] /\ \A d \in Delivery : Handling(d)
  BY DEF PurchasingInit, HandlerRow, Handling
<1>7. charge \in [Charge -> ChargeRow]
  BY DEF PurchasingInit, ChargeRow
<1>8. PurchasingOK
  BY <1>1, <1>2, <1>3, <1>4, <1>5, <1>6, <1>7 DEF PurchasingInit, PurchasingOK, CallRow, HandlerRow, ChargeRow
<1>9. WithinLimit
  <2> SUFFICES ASSUME NEW m \in Month PROVE MonthlySpent(m) <= high[m] + Excess(m)
    BY DEF WithinLimit
  <2>1. MonthlySpent(m) = Excess(m)
    BY <1>3 DEF MonthlySpent, Excess
  <2>2. MonthlySpent(m) \in Nat /\ high[m] \in Nat
    BY <1>4, <1>8, LimitsAre, SpentIsNat
  <2> QED
    BY <2>1, <2>2
<1>10. AskedUnlessMoved /\ \A i \in DOMAIN purchases : MarkedOnce(i)
  BY <1>3 DEF AskedUnlessMoved
<1> QED
  BY <1>4, <1>5, <1>6, <1>8, <1>9, <1>10 DEF PurchasingInv

LEMMA NextPurchasingInv == PurchasingInv /\ [PurchasingNext]_purchasing => PurchasingInv'
<1> SUFFICES ASSUME PurchasingInv, [PurchasingNext]_purchasing PROVE PurchasingInv'
  OBVIOUS
<1>1. ASSUME NEW c \in Call,
             (\E amount \in Amounts : Propose(c, amount)) \/ LookAhead(c) \/ Decide(c) \/ Resume(c) \/ RecordPurchase(c)
      PROVE  PurchasingInv'
  BY <1>1, ProposePurchase, LookAheadPurchase, DecidePurchase, RecordsPurchase
<1>2. ASSUME NEW a \in Charge, (\E amount \in Amounts : Authorize(a, amount) \/ Capture(a, amount)) \/ Settle(a)
      PROVE  PurchasingInv'
  BY <1>2, AuthorizePurchase, SettlePurchase
<1>3. ASSUME NEW d \in Delivery, (\E a \in Charge : Deliver(d, a)) \/ Find(d) \/ Mark(d) \/ Tell(d)
      PROVE  PurchasingInv'
  BY <1>3, HandlePurchase, MarkPurchase
<1>4. CASE UNCHANGED purchasing
  <2>1. UNCHANGED <<bot, purchases, call, charge, handler>>
    BY <1>4 DEF purchasing, bot
  <2>2. PurchasingOK'
    BY <2>1 DEF PurchasingInv, PurchasingOK, bot
  <2> QED
    BY <2>1, <2>2, SameCalls, SameHandlers, SamePurchases
<1> QED
  BY <1>1, <1>2, <1>3, <1>4, PutSettings, NextMonthPurchase DEF PurchasingNext

THEOREM PurchasingInvariant == PurchasingSpec => []PurchasingInv
BY InitPurchasingInv, NextPurchasingInv, PTL DEF PurchasingSpec

\* What counts in a month stays within its highest limit but for the excess of
\* merchants, for any number of calls that wait for Josh at once, of charges and
\* of deliveries, any amounts and any changes of the limit.
THEOREM SafetyWithinLimit == PurchasingSpec => []WithinLimit
<1>1. PurchasingInv => WithinLimit
  BY DEF PurchasingInv
<1> QED
  BY <1>1, PurchasingInvariant, PTL

\* A purchase Josh was not asked about is one whose sums moved after it was
\* looked at, for any number of calls and any amounts.
THEOREM SafetyAskedUnlessMoved == PurchasingSpec => []AskedUnlessMoved
<1>1. PurchasingInv => AskedUnlessMoved
  BY DEF PurchasingInv
<1> QED
  BY <1>1, PurchasingInvariant, PTL

=============================================================================
