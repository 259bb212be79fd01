-------------------------------- MODULE Jobs --------------------------------
(***************************************************************************)
(* Background jobs: work that outlives the run that started it             *)
(* (server/src/job_runner.rs, store/src/jobs.rs, the docker sandbox and     *)
(* workers.rs).  A shell job is a container and a task that watches it, an  *)
(* agent job is a question to a colleague.  A worker that is asleep queues  *)
(* the job under a claim, which a WorkerSandbox keeps in memory: the one    *)
(* that started the job and its watcher share it, a later run has its own.  *)
(* Everybody who is done with a job writes its row, whatever it says.       *)
(***************************************************************************)
EXTENDS Naturals, FiniteSets

CONSTANTS
  Job,         \* all of one bot
  MaxRunning   \* MAX_RUNNING_JOBS

ASSUME JobsAssumption == MaxRunning \in Nat \ {0}

Place == {"meridian", "worker", "colleague"}
Ended == {"done", "failed", "stopped"}

VARIABLES
  row,      \* Job -> its status in jobs, or "none"
  place,    \* Job -> where the work is done
  starter,  \* Job -> the call that starts it: "none", "spawn"
  box,      \* Job -> its container: "none", "up", or what it exited with
  queue,    \* Job -> the wait loop of a worker: "none", "wait", "start"
  claim,    \* Job -> the claim of the wait loop: "none", "held", "cancelled"
  watch,    \* Job -> where its watcher is
  stopper,  \* Job -> where a stop_job is: "none", "kill", "finish"
  late,     \* Job -> its time is over
  outcome,  \* history: Job -> how its work really ended, if it did
  loose     \* history: Job -> its container is beyond everybody's reach or care

jobs == <<row, place, starter, box, queue, claim, watch, stopper, late, outcome, loose>>
tasks == <<starter, queue, claim, watch, stopper>>

Outcome == {"none", "ok", "bad"}

JobsOK ==
  /\ row \in [Job -> {"none", "running"} \cup Ended]
  /\ place \in [Job -> Place]
  /\ starter \in [Job -> {"none", "spawn"}]
  /\ box \in [Job -> {"none", "up", "ok", "bad"}]
  /\ queue \in [Job -> {"none", "wait", "start"}]
  /\ claim \in [Job -> {"none", "held", "cancelled"}]
  /\ watch \in [Job -> {"off", "poll", "probe", "ok", "bad", "kill", "late", "expired"}]
  /\ stopper \in [Job -> {"none", "kill", "finish"}]
  /\ late \in [Job -> BOOLEAN]
  /\ outcome \in [Job -> Outcome]
  /\ loose \in [Job -> BOOLEAN]

JobsInit ==
  /\ row = [j \in Job |-> "none"]
  /\ place \in [Job -> Place]
  /\ starter = [j \in Job |-> "none"]
  /\ box = [j \in Job |-> "none"]
  /\ queue = [j \in Job |-> "none"]
  /\ claim = [j \in Job |-> "none"]
  /\ watch = [j \in Job |-> "off"]
  /\ stopper = [j \in Job |-> "none"]
  /\ late = [j \in Job |-> FALSE]
  /\ outcome = [j \in Job |-> "none"]
  /\ loose = [j \in Job |-> FALSE]

Put(f, j, value) == [f EXCEPT ![j] = value]

Running == {j \in Job : row[j] = "running"}

\* finish_job: the row is written by its id, whatever its status is by now.
Finish(j, status) == row' = IF row[j] = "none" THEN row ELSE Put(row, j, status)

\* docker rm -f, which may fail or outlast its 20 s; nobody looks at the result.
Remove(j) == box' \in {Put(box, j, "none"), box}

-----------------------------------------------------------------------------
(***************************************************************************)
(* Starting.                                                               *)
(***************************************************************************)
\* create_job counts and inserts under one lock.
Create(j) ==
  /\ row[j] = "none"
  /\ Cardinality(Running) < MaxRunning
  /\ row' = Put(row, j, "running")
  /\ starter' = IF place[j] = "colleague" THEN starter ELSE Put(starter, j, "spawn")
  /\ UNCHANGED <<place, box, queue, claim, watch, stopper, late, outcome, loose>>

\* docker run -d has answered: the watcher is spawned.
Started(j) ==
  /\ starter[j] = "spawn"
  /\ starter' = Put(starter, j, "none")
  /\ box' = Put(box, j, "up")
  /\ watch' = Put(watch, j, "poll")
  /\ UNCHANGED <<row, place, queue, claim, stopper, late, outcome, loose>>

\* It failed, or took longer than 30 s and may come up all the same.
NotStarted(j) ==
  /\ starter[j] = "spawn"
  /\ starter' = Put(starter, j, "none")
  /\ Finish(j, "failed")
  /\ \/ UNCHANGED <<box, loose>>
     \/ box' = Put(box, j, "up") /\ loose' = Put(loose, j, TRUE)
  /\ UNCHANGED <<place, queue, claim, watch, stopper, late, outcome>>

\* The worker is asleep: the wait loop is spawned under its claim.
Queued(j) ==
  /\ starter[j] = "spawn" /\ place[j] = "worker"
  /\ starter' = Put(starter, j, "none")
  /\ claim' = Put(claim, j, "held")
  /\ queue' = Put(queue, j, "wait")
  /\ watch' = Put(watch, j, "poll")
  /\ UNCHANGED <<row, place, box, stopper, late, outcome, loose>>

\* wait_then_spawn after a sleep: cancelled, the worker answers, or the time
\* is over.  The claim is released before the container is started.
Cancelled(j) ==
  /\ queue[j] = "wait" /\ claim[j] = "cancelled"
  /\ queue' = Put(queue, j, "none")
  /\ claim' = Put(claim, j, "none")
  /\ UNCHANGED <<row, place, starter, box, watch, stopper, late, outcome, loose>>

\* The loop looks for the cancellation before it pings, not after.
Wakes(j) ==
  /\ queue[j] = "wait"
  /\ queue' = Put(queue, j, "start")
  /\ claim' = Put(claim, j, "none")
  /\ UNCHANGED <<row, place, starter, box, watch, stopper, late, outcome, loose>>

NeverWoke(j) ==
  /\ queue[j] = "wait" /\ late[j]
  /\ queue' = Put(queue, j, "none")
  /\ claim' = Put(claim, j, "none")
  /\ IF claim[j] = "cancelled" THEN UNCHANGED row ELSE Finish(j, "failed")
  /\ UNCHANGED <<place, starter, box, watch, stopper, late, outcome, loose>>

StartedLate(j) ==
  /\ queue[j] = "start"
  /\ queue' = Put(queue, j, "none")
  /\ \/ /\ box' = Put(box, j, "up")
        /\ loose' = Put(loose, j, loose[j] \/ watch[j] = "off" \/ row[j] # "running")
        /\ UNCHANGED row
     \/ Finish(j, "failed") /\ UNCHANGED <<box, loose>>
  /\ UNCHANGED <<place, starter, claim, watch, stopper, late, outcome>>

-----------------------------------------------------------------------------
(***************************************************************************)
(* The work itself: a container, or a colleague who answers.               *)
(***************************************************************************)
Exits(j, how) ==
  /\ box[j] = "up"
  /\ box' = Put(box, j, how)
  /\ outcome' = Put(outcome, j, how)
  /\ UNCHANGED <<row, place, starter, queue, claim, watch, stopper, late, loose>>

\* The task of start_agent_job; it is over once the answer is written.
Answers(j, how) ==
  /\ place[j] = "colleague" /\ row[j] # "none" /\ outcome[j] = "none"
  /\ outcome' = Put(outcome, j, how)
  /\ Finish(j, IF how = "ok" THEN "done" ELSE "failed")
  /\ UNCHANGED <<place, starter, box, queue, claim, watch, stopper, late, loose>>

TimePasses(j) ==
  /\ row[j] = "running" /\ ~late[j]
  /\ late' = Put(late, j, TRUE)
  /\ UNCHANGED <<row, place, starter, box, queue, claim, watch, stopper, outcome, loose>>

-----------------------------------------------------------------------------
(***************************************************************************)
(* watch_shell_job.                                                        *)
(***************************************************************************)
Watches(j, from, to) == watch[j] = from /\ watch' = Put(watch, j, to)
restUnchanged == <<place, starter, queue, claim, stopper, late, outcome>>

\* Whoever removes a container does not find one that is not there yet, nor
\* notices that one is still there.
OnItsWay(j) == starter[j] = "spawn" \/ queue[j] # "none"
Misses(j) == loose' = Put(loose, j, loose[j] \/ OnItsWay(j) \/ box'[j] # "none")

Poll(j) ==
  /\ Watches(j, "poll", IF row[j] # "running" THEN "off" ELSE IF late[j] THEN "late" ELSE "probe")
  /\ UNCHANGED <<row, box, loose>> /\ UNCHANGED restUnchanged

\* Slip: a container that cannot be inspected has exited well.
ProbeHopes(j) ==
  /\ \/ claim[j] = "held" /\ Watches(j, "probe", "poll")
     \/ claim[j] # "held" /\ box[j] = "up" /\ Watches(j, "probe", "poll")
     \/ claim[j] # "held" /\ box[j] \in {"ok", "bad"} /\ Watches(j, "probe", box[j])
     \/ claim[j] # "held" /\ Watches(j, "probe", "ok")
  /\ UNCHANGED <<row, box, loose>> /\ UNCHANGED restUnchanged

\* Queued counts as running; an inspect that fails, or finds nothing, is a
\* result that is not known.
Probe(j) ==
  /\ \/ claim[j] = "held" /\ Watches(j, "probe", "poll")
     \/ claim[j] # "held" /\ box[j] = "up" /\ Watches(j, "probe", "poll")
     \/ claim[j] # "held" /\ box[j] \in {"ok", "bad"} /\ Watches(j, "probe", box[j])
     \/ claim[j] # "held" /\ Watches(j, "probe", "bad")
  /\ UNCHANGED <<row, box, loose>> /\ UNCHANGED restUnchanged

\* Slip: the container stays.
RecordOnly(j) ==
  /\ \/ Watches(j, "ok", "off") /\ Finish(j, "done")
     \/ Watches(j, "bad", "off") /\ Finish(j, "failed")
  /\ UNCHANGED <<box, loose>> /\ UNCHANGED restUnchanged

\* The log is read, which awaits, and then the result is written.
Record(j) ==
  /\ \/ Watches(j, "ok", "kill") /\ Finish(j, "done")
     \/ Watches(j, "bad", "kill") /\ Finish(j, "failed")
  /\ UNCHANGED <<box, loose>> /\ UNCHANGED restUnchanged

CleanUp(j) ==
  /\ Watches(j, "kill", "off")
  /\ Remove(j)
  /\ Misses(j)
  /\ UNCHANGED row /\ UNCHANGED restUnchanged

\* kill of the sandbox that queued the job cancels it, or else tries to remove.
KillsHere(j) ==
  IF claim[j] = "held"
  THEN claim' = Put(claim, j, "cancelled") /\ UNCHANGED box
  ELSE UNCHANGED claim /\ Remove(j)

\* Slip: a job past its limit is killed and its row left as it is.
KillOnly(j) ==
  /\ Watches(j, "late", "off")
  /\ KillsHere(j)
  /\ Misses(j)
  /\ UNCHANGED <<row, place, starter, queue, stopper, late, outcome>>

KillLate(j) ==
  /\ Watches(j, "late", "expired")
  /\ KillsHere(j)
  /\ Misses(j)
  /\ UNCHANGED <<row, place, starter, queue, stopper, late, outcome>>

Expire(j) ==
  /\ Watches(j, "expired", "off")
  /\ Finish(j, "failed")
  /\ UNCHANGED <<box, loose>> /\ UNCHANGED restUnchanged

WatchStep(j) == Poll(j) \/ Probe(j) \/ Record(j) \/ CleanUp(j) \/ KillLate(j) \/ Expire(j)

-----------------------------------------------------------------------------
(***************************************************************************)
(* stop_job, of any run of the bot; restart.                               *)
(***************************************************************************)
Stop(j) ==
  /\ row[j] = "running" /\ stopper[j] = "none"
  /\ stopper' = Put(stopper, j, IF place[j] = "colleague" THEN "finish" ELSE "kill")
  /\ UNCHANGED <<row, place, starter, box, queue, claim, watch, late, outcome, loose>>

\* In the run that started the job, or in another.
StopKills(j) ==
  /\ stopper[j] = "kill"
  /\ stopper' = Put(stopper, j, "finish")
  /\ KillsHere(j) \/ (place[j] = "worker" /\ Remove(j) /\ UNCHANGED claim)
  /\ Misses(j)
  /\ UNCHANGED <<row, place, starter, queue, watch, late, outcome>>

StopFinishes(j) ==
  /\ stopper[j] = "finish"
  /\ stopper' = Put(stopper, j, "none")
  /\ Finish(j, "stopped")
  /\ UNCHANGED <<place, starter, box, queue, claim, watch, late, outcome, loose>>

\* reap_orphaned_jobs; the tasks are gone, the containers are not.
Restart ==
  /\ row' = [j \in Job |-> IF row[j] = "running" THEN "failed" ELSE row[j]]
  /\ starter' = [j \in Job |-> "none"]
  /\ queue' = [j \in Job |-> "none"]
  /\ claim' = [j \in Job |-> "none"]
  /\ watch' = [j \in Job |-> "off"]
  /\ stopper' = [j \in Job |-> "none"]
  /\ outcome' = [j \in Job |-> IF place[j] = "colleague" /\ row[j] # "none" /\ outcome[j] = "none" THEN "bad" ELSE outcome[j]]
  /\ loose' = [j \in Job |-> loose[j] \/ box[j] # "none"]
  /\ UNCHANGED <<place, box, late>>

-----------------------------------------------------------------------------
StartStep(j) == Started(j) \/ NotStarted(j) \/ Queued(j)
QueueStep(j) == Cancelled(j) \/ Wakes(j) \/ NeverWoke(j) \/ StartedLate(j)
StopStep(j) == StopKills(j) \/ StopFinishes(j)

JobsNext ==
  \/ \E j \in Job :
       \/ Create(j) \/ StartStep(j) \/ QueueStep(j) \/ WatchStep(j) \/ Stop(j) \/ StopStep(j)
       \/ TimePasses(j)
       \/ \E how \in {"ok", "bad"} : Exits(j, how) \/ Answers(j, how)
  \/ Restart

JobsSpec == JobsInit /\ [][JobsNext]_jobs

\* Tasks are scheduled, docker answers or times out, time passes, and a
\* colleague's run ends (it cannot outlast its turn limit).  A command may
\* run for ever, a worker may sleep for ever.
JobsLiveSpec ==
  /\ JobsSpec
  /\ \A j \in Job :
       /\ WF_jobs(StartStep(j)) /\ WF_jobs(WatchStep(j)) /\ WF_jobs(StopStep(j))
       /\ WF_jobs(TimePasses(j)) /\ WF_jobs(\E how \in {"ok", "bad"} : Answers(j, how))

-----------------------------------------------------------------------------
\* A job never reads as done unless its command exited with 0 or the colleague
\* answered: not when docker fails to answer, the worker never wakes, the time
\* is over, or stops and restarts come in between ("Treat the result as
\* unknown, not as success").
DoneIsTrue == \A j \in Job : row[j] = "done" => outcome[j] = "ok"

AtRest(j) == starter[j] = "none" /\ queue[j] = "none" /\ watch[j] = "off" /\ stopper[j] = "none"

\* A container outlives its job only if it was out of reach when the job ended:
\* still starting or queued when it was stopped, started after its time, left
\* behind by a restart, or still there after a docker rm that failed unnoticed.
CleanedUp == \A j \in Job : row[j] \in Ended /\ AtRest(j) /\ box[j] # "none" => loose[j]

\* Every job ends, and gives its place among the bot's running jobs back.
JobEnds == \A j \in Job : row[j] = "running" ~> row[j] \in Ended

\* stop_job of an agent job: "The colleague may still finish its turn, but its
\* answer will be discarded."
StoppedIsDiscarded == [][\A j \in Job : row[j] = "stopped" => row'[j] = "stopped"]_jobs

=============================================================================
