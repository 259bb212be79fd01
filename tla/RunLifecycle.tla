---------------------------- MODULE RunLifecycle ----------------------------
(***************************************************************************)
(* The life of agent runs in crates/server/src/runs.rs: the row of a run,  *)
(* the task that drives it, the approvals it parks on, the requests that   *)
(* decide them, the sweep that expires them and the stop flag.             *)
(*                                                                         *)
(* Every action is one critical section (one `db()` lock, one mutex, or    *)
(* the code between two awaits); everything the code does between two      *)
(* critical sections can interleave with the other actors.                 *)
(*                                                                         *)
(* A run makes at most MaxSteps model calls (MAX_STEPS), parks at most     *)
(* once per call, and a resumed turn keeps counting where the parked one   *)
(* stopped, so the call a run parks on is named by the number of the       *)
(* model call that asked for it: approval[r][k] is the approvals row of    *)
(* the k-th call of r, and task <<r, k>> is the task that resumes it       *)
(* (task <<r, 0>> is the one `start` spawns).                              *)
(***************************************************************************)
EXTENDS Naturals, FiniteSets

CONSTANTS Run,       \* run ids
          Decider,   \* requests that decide an approval
          Sweeper,   \* callers of sweep_approvals that may overlap
          MaxSteps,  \* MAX_STEPS
          Faults     \* the store errors and crashes a behaviour may contain

FaultKind == {"insertRun", "saveResult", "parkRow", "parkApproval",
              "readRow", "claim", "failRow", "crash"}

ASSUME MaxStepsAssumption == MaxSteps \in Nat \ {0}
ASSUME FaultsAssumption == Faults \subseteq FaultKind

Step == 1 .. MaxSteps
Slot == 0 .. MaxSteps

Over == {"done", "failed"}
RowStatus == {"absent", "running", "waiting"} \cup Over
Decided == {"approved", "rejected"}
ApprovalStatus == {"none", "pending", "expired"} \cup Decided

\* Where a task is; "emit" .. "finish" is the common tail of settle and
\* fail_waiting_run, "abort" the shorter tail of a park that failed to save.
Turning == {"resume", "turn", "model", "tools", "saveDone", "saveFailed", "parkRow"}
Closing == {"emit", "hook", "abort", "finish"}
TaskPC == {"none", "ended", "parkApproval", "announce"} \cup Turning \cup Closing

\* A request at work on approval <<r, k>>.
At(p, r, k) == [pc |-> p, run |-> r, step |-> k]
Holding(pcs) == [pc : pcs, run : Run, step : Step]
Idle == [pc |-> "idle"]
Rows == [pc |-> "rows"]
DeciderState == Holding({"taken", "claim", "fallback"}) \cup {Idle}
SweeperState == Holding({"marked", "tail"}) \cup {Idle, Rows}

VARIABLES
  status,     \* runs.status
  approval,   \* approvals.status, per run and step
  aged,       \* approvals older than APPROVAL_TTL_HOURS
  steps,      \* model calls made so far
  pc,         \* where each task is
  stopping,   \* RunManager.stopping
  stopReq,    \* stop requests between the route's check and the insert
  dec,        \* decide_approval calls in flight
  sweep,      \* sweep_approvals calls in flight
  todo,       \* the approvals each of them still has to look at
  executed,   \* history: times the gated call ran
  terminal,   \* history: terminal events emitted
  hooks,      \* history: times on_run_done fired
  cut         \* history: runs whose row the store refused, or a crash left

vars == <<status, approval, aged, steps, pc, stopping, stopReq, dec, sweep,
          todo, executed, terminal, hooks, cut>>
history == <<executed, terminal, hooks, cut>>
store == <<status, approval>>
requests == <<stopReq, dec, sweep, todo>>

Init ==
  /\ status = [r \in Run |-> "absent"]
  /\ approval = [r \in Run |-> [k \in Step |-> "none"]]
  /\ aged = {}
  /\ steps = [r \in Run |-> 0]
  /\ pc = [r \in Run |-> [k \in Slot |-> "none"]]
  /\ stopping = {}
  /\ stopReq = {}
  /\ dec = [d \in Decider |-> Idle]
  /\ sweep = [w \in Sweeper |-> Idle]
  /\ todo = [w \in Sweeper |-> {}]
  /\ executed = [r \in Run |-> [k \in Step |-> 0]]
  /\ terminal = [r \in Run |-> 0]
  /\ hooks = [r \in Run |-> 0]
  /\ cut = {}

-----------------------------------------------------------------------------
(***************************************************************************)
(* The task that drives a run                                              *)
(***************************************************************************)

Move(r, k, from, to) == pc[r][k] = from /\ pc' = [pc EXCEPT ![r][k] = to]

\* The store refuses to read or to write the row of run r (or its approval).
Refused(r, fault) == fault \in Faults /\ cut' = cut \cup {r}

\* start_inner: the row is inserted as running and the task is spawned; a
\* failed insert is reported as the run's own error and nothing is spawned.
Start(r) ==
  /\ \/ /\ status[r] = "absent"
        /\ status' = [status EXCEPT ![r] = "running"]
        /\ Move(r, 0, "none", "turn")
        /\ UNCHANGED terminal
     \/ /\ "insertRun" \in Faults
        /\ Move(r, 0, "none", "ended")
        /\ terminal' = [terminal EXCEPT ![r] = @ + 1]
        /\ UNCHANGED status
  /\ UNCHANGED <<approval, aged, steps, stopping, requests, executed, hooks, cut>>

\* The head of run_turn's loop: the step limit, then take_stop, then the
\* model call that this step is.
Turn(r, k) ==
  /\ \/ /\ steps[r] >= MaxSteps
        /\ Move(r, k, "turn", "saveFailed")
        /\ UNCHANGED <<steps, stopping>>
     \/ /\ steps[r] < MaxSteps
        /\ r \in stopping
        /\ stopping' = stopping \ {r}
        /\ Move(r, k, "turn", "saveFailed")
        /\ UNCHANGED steps
     \/ /\ steps[r] < MaxSteps
        /\ r \notin stopping
        /\ steps' = [steps EXCEPT ![r] = @ + 1]
        /\ Move(r, k, "turn", "model")
        /\ UNCHANGED stopping
  /\ UNCHANGED <<store, aged, requests, history>>

\* The model call ends: an answer, an error (or no answer at all), or a batch
\* of tool calls. A call that carries a screen image also races a stop.
ModelReply(r, k) ==
  /\ \/ /\ \E next \in {"saveDone", "saveFailed", "tools"} : Move(r, k, "model", next)
        /\ UNCHANGED stopping
     \/ /\ r \in stopping
        /\ Move(r, k, "model", "saveFailed")
        /\ stopping' = stopping \ {r}
  /\ UNCHANGED <<store, aged, steps, requests, history>>

\* The batch is decided in order: every call ran or was refused, or the first
\* one that needs a decision pauses the turn, or an escalation failed to save.
ToolBatch(r, k) ==
  /\ \E next \in {"turn", "parkRow", "saveFailed"} : Move(r, k, "tools", next)
  /\ UNCHANGED <<store, aged, steps, stopping, requests, history>>

\* settle writes the row. The UPDATE names the run only, not its old status.
SettleRow(r, k) ==
  /\ \/ /\ Move(r, k, "saveDone", "emit")
        /\ status' = [status EXCEPT ![r] = "done"]
        /\ UNCHANGED cut
     \/ /\ Move(r, k, "saveFailed", "emit")
        /\ status' = [status EXCEPT ![r] = "failed"]
        /\ UNCHANGED cut
     \/ /\ Refused(r, "saveResult")
        /\ Move(r, k, "saveDone", "emit") \/ Move(r, k, "saveFailed", "emit")
        /\ UNCHANGED status
  /\ UNCHANGED <<approval, aged, steps, stopping, requests, executed, terminal, hooks>>

\* Done or Error is emitted, the tail of settle and of fail_waiting_run, and
\* the only event left of a park that could not be saved.
EmitTerminal(r, k) ==
  /\ Move(r, k, "emit", "hook") \/ Move(r, k, "abort", "finish")
  /\ terminal' = [terminal EXCEPT ![r] = @ + 1]
  /\ UNCHANGED <<store, aged, steps, stopping, requests, executed, hooks, cut>>

RunHook(r, k) ==
  /\ Move(r, k, "hook", "finish")
  /\ hooks' = [hooks EXCEPT ![r] = @ + 1]
  /\ UNCHANGED <<store, aged, steps, stopping, requests, executed, terminal, cut>>

Finish(r, k) ==
  /\ Move(r, k, "finish", "ended")
  /\ stopping' = stopping \ {r}
  /\ UNCHANGED <<store, aged, steps, requests, history>>

-----------------------------------------------------------------------------
(***************************************************************************)
(* Parking on a tool call that needs a decision                            *)
(***************************************************************************)

\* park, first write: the row waits.
ParkRow(r, k) ==
  /\ \/ /\ Move(r, k, "parkRow", "parkApproval")
        /\ status' = [status EXCEPT ![r] = "waiting"]
        /\ UNCHANGED cut
     \/ /\ Refused(r, "parkRow")
        /\ Move(r, k, "parkRow", "abort")
        /\ UNCHANGED status
  /\ UNCHANGED <<approval, aged, steps, stopping, requests, executed, terminal, hooks>>

\* park, second write, under a lock of its own: the pending approval.
ParkApproval(r, k) ==
  /\ \/ /\ Move(r, k, "parkApproval", "announce")
        /\ approval' = [approval EXCEPT ![r][steps[r]] = "pending"]
        /\ UNCHANGED cut
     \/ /\ Refused(r, "parkApproval")
        /\ Move(r, k, "parkApproval", "abort")
        /\ UNCHANGED approval
  /\ UNCHANGED <<status, aged, steps, stopping, requests, executed, terminal, hooks>>

\* Slip: park ends with the clean-up that settle ends with.
AnnounceAndFinish(r, k) ==
  /\ Move(r, k, "announce", "ended")
  /\ stopping' = stopping \ {r}
  /\ UNCHANGED <<store, aged, steps, requests, history>>

\* park, last: subscribers hear of the approval, which may be decided, and its
\* run over, by now.
Announce(r, k) ==
  /\ Move(r, k, "announce", "ended")
  /\ UNCHANGED <<store, aged, steps, stopping, requests, history>>

\* Slip: the verdict is not looked at.
ResumeAnyVerdict(r, k) ==
  /\ Move(r, k, "resume", "turn")
  /\ executed' = [executed EXCEPT ![r][k] = @ + 1]
  /\ UNCHANGED <<store, aged, steps, stopping, requests, terminal, hooks, cut>>

\* The task decide_approval spawns: an approved call runs (or is answered by
\* the result that came with the decision) unless it is no longer offered, a
\* rejected one is refused; either way the turn goes on.
Resume(r, k) ==
  /\ Move(r, k, "resume", "turn")
  /\ \/ /\ approval[r][k] = "approved"
        /\ executed' = [executed EXCEPT ![r][k] = @ + 1]
     \/ UNCHANGED executed
  /\ UNCHANGED <<store, aged, steps, stopping, requests, terminal, hooks, cut>>

-----------------------------------------------------------------------------
(***************************************************************************)
(* decide_approval                                                         *)
(***************************************************************************)

\* Slip: a row that was decided before can be decided again.
TakeAny(d, r, k, verdict) ==
  /\ dec[d] = Idle
  /\ approval[r][k] # "none"
  /\ approval' = [approval EXCEPT ![r][k] = verdict]
  /\ dec' = [dec EXCEPT ![d] = At("taken", r, k)]
  /\ UNCHANGED <<status, aged, steps, pc, stopping, stopReq, sweep, todo, history>>

\* take_pending: only a pending row is taken, and it is decided at once.
TakePending(d, r, k, verdict) ==
  /\ dec[d] = Idle
  /\ approval[r][k] = "pending"
  /\ approval' = [approval EXCEPT ![r][k] = verdict]
  /\ dec' = [dec EXCEPT ![d] = At("taken", r, k)]
  /\ UNCHANGED <<status, aged, steps, pc, stopping, stopReq, sweep, todo, history>>

\* The run row is read; a row that is not waiting leaves nothing to resume,
\* and a failed read ends the request with the decision recorded.
ReadRow(d, r, k) ==
  /\ dec[d] = At("taken", r, k)
  /\ \/ /\ status[r] = "waiting"
        /\ dec' = [dec EXCEPT ![d] = At("claim", r, k)]
        /\ UNCHANGED cut
     \/ /\ (status[r] # "waiting" /\ UNCHANGED cut) \/ Refused(r, "readRow")
        /\ dec' = [dec EXCEPT ![d] = Idle]
  /\ UNCHANGED <<store, aged, steps, pc, stopping, stopReq, sweep, todo, executed, terminal, hooks>>

\* Slip: the claim does not mark the row.
ClaimUnmarked(d, r, k) ==
  /\ dec[d] = At("claim", r, k)
  /\ status[r] = "waiting"
  /\ pc' = [pc EXCEPT ![r][k] = "resume"]
  /\ dec' = [dec EXCEPT ![d] = Idle]
  /\ UNCHANGED <<store, aged, steps, stopping, stopReq, sweep, todo, history>>

\* The claim, UPDATE ... AND status = 'waiting': one row changed means this
\* request resumes the run, anything else fails it.
ClaimWaiting(d, r, k) ==
  /\ dec[d] = At("claim", r, k)
  /\ \/ /\ status[r] = "waiting"
        /\ status' = [status EXCEPT ![r] = "running"]
        /\ pc' = [pc EXCEPT ![r][k] = "resume"]
        /\ dec' = [dec EXCEPT ![d] = Idle]
     \/ /\ status[r] # "waiting" \/ "claim" \in Faults
        /\ dec' = [dec EXCEPT ![d] = At("fallback", r, k)]
        /\ UNCHANGED <<status, pc>>
  /\ UNCHANGED <<approval, aged, steps, stopping, stopReq, sweep, todo, history>>

\* fail_waiting_run, AND status = 'waiting': losing that race leaves nothing
\* to fail; otherwise the closing tail follows, in the place of the task that
\* would have resumed this approval.  An UPDATE that fails is logged and that
\* is all: the row still waits, on an approval that is decided or expired.
FailWaitingRun(r, k) ==
  \/ /\ status[r] = "waiting"
     /\ status' = [status EXCEPT ![r] = "failed"]
     /\ pc' = [pc EXCEPT ![r][k] = "emit"]
     /\ UNCHANGED cut
  \/ /\ (status[r] # "waiting" /\ UNCHANGED cut) \/ Refused(r, "failRow")
     /\ UNCHANGED <<status, pc>>

\* Slip: the fallback only reports that the claim failed.
FallbackIgnored(d, r, k) ==
  /\ dec[d] = At("fallback", r, k)
  /\ dec' = [dec EXCEPT ![d] = Idle]
  /\ UNCHANGED <<store, aged, steps, pc, stopping, stopReq, sweep, todo, history>>

ClaimFallback(d, r, k) ==
  /\ dec[d] = At("fallback", r, k)
  /\ FailWaitingRun(r, k)
  /\ dec' = [dec EXCEPT ![d] = Idle]
  /\ UNCHANGED <<approval, aged, steps, stopping, stopReq, sweep, todo, executed, terminal, hooks>>

-----------------------------------------------------------------------------
(***************************************************************************)
(* sweep_approvals, from GET /api/approvals and from finish's delayed task *)
(***************************************************************************)

\* A pending approval passes APPROVAL_TTL_HOURS.
Age(r, k) ==
  /\ approval[r][k] = "pending"
  /\ <<r, k>> \notin aged
  /\ aged' = aged \cup {<<r, k>>}
  /\ UNCHANGED <<store, steps, pc, stopping, requests, history>>

\* list_pending_older_than
SweepList(w) ==
  /\ sweep[w] = Idle
  /\ sweep' = [sweep EXCEPT ![w] = Rows]
  /\ todo' = [todo EXCEPT ![w] = {a \in aged : approval[a[1]][a[2]] = "pending"}]
  /\ UNCHANGED <<store, aged, steps, pc, stopping, stopReq, dec, history>>

\* mark_expired, AND status = 'pending': a decision that landed since the list
\* was read keeps the row out of the sweep's hands.  (A mark or a list that
\* fails leaves the row to the next sweep, as if this one had not come.)
SweepMark(w, r, k) ==
  /\ sweep[w] = Rows
  /\ <<r, k>> \in todo[w]
  /\ todo' = [todo EXCEPT ![w] = @ \ {<<r, k>>}]
  /\ IF approval[r][k] = "pending"
     THEN /\ approval' = [approval EXCEPT ![r][k] = "expired"]
          /\ sweep' = [sweep EXCEPT ![w] = At("marked", r, k)]
     ELSE UNCHANGED <<approval, sweep>>
  /\ UNCHANGED <<status, aged, steps, pc, stopping, stopReq, dec, history>>

\* Slip: the sweep expires the approval and leaves the run.
SweepForgets(w, r, k) ==
  /\ sweep[w] = At("marked", r, k)
  /\ sweep' = [sweep EXCEPT ![w] = At("tail", r, k)]
  /\ UNCHANGED <<store, aged, steps, pc, stopping, stopReq, dec, todo, history>>

SweepFail(w, r, k) ==
  /\ sweep[w] = At("marked", r, k)
  /\ FailWaitingRun(r, k)
  /\ sweep' = [sweep EXCEPT ![w] = At("tail", r, k)]
  /\ UNCHANGED <<approval, aged, steps, stopping, stopReq, dec, todo, executed, terminal, hooks>>

\* The sweep runs fail_waiting_run's tail itself before it goes on.
SweepNextRow(w, r, k) ==
  /\ sweep[w] = At("tail", r, k)
  /\ pc[r][k] \notin Closing
  /\ sweep' = [sweep EXCEPT ![w] = Rows]
  /\ UNCHANGED <<store, aged, steps, pc, stopping, stopReq, dec, todo, history>>

SweepDone(w) ==
  /\ sweep[w] = Rows
  /\ todo[w] = {}
  /\ sweep' = [sweep EXCEPT ![w] = Idle]
  /\ UNCHANGED <<store, aged, steps, pc, stopping, stopReq, dec, todo, history>>

-----------------------------------------------------------------------------
(***************************************************************************)
(* Stop requests and crashes                                               *)
(***************************************************************************)

\* POST /api/runs/:id/stop checks the row, then RunManager::stop inserts.
StopCheck(r) ==
  /\ status[r] \in {"running", "waiting"}
  /\ r \notin stopReq
  /\ stopReq' = stopReq \cup {r}
  /\ UNCHANGED <<store, aged, steps, pc, stopping, dec, sweep, todo, history>>

StopInsert(r) ==
  /\ r \in stopReq
  /\ stopReq' = stopReq \ {r}
  /\ stopping' = stopping \cup {r}
  /\ UNCHANGED <<store, aged, steps, pc, dec, sweep, todo, history>>

\* The process dies and starts again: the rows stay, tasks, requests and maps
\* are gone, and nothing at start-up looks at the rows of runs.  Every run that
\* was started counts as cut short, those with only a tail left included.
Crash ==
  /\ "crash" \in Faults
  /\ pc' = [r \in Run |-> [k \in Slot |-> IF pc[r][k] = "none" THEN "none" ELSE "ended"]]
  /\ stopping' = {}
  /\ stopReq' = {}
  /\ dec' = [d \in Decider |-> Idle]
  /\ sweep' = [w \in Sweeper |-> Idle]
  /\ todo' = [w \in Sweeper |-> {}]
  /\ cut' = cut \cup {r \in Run : status[r] # "absent"}
  /\ UNCHANGED <<store, aged, steps, executed, terminal, hooks>>

-----------------------------------------------------------------------------
TaskStep(r, k) ==
  \/ Turn(r, k) \/ ModelReply(r, k) \/ ToolBatch(r, k)
  \/ SettleRow(r, k) \/ EmitTerminal(r, k) \/ RunHook(r, k) \/ Finish(r, k)
  \/ ParkRow(r, k) \/ ParkApproval(r, k) \/ Announce(r, k)

DecideStep(d) ==
  \E r \in Run, k \in Step :
    ReadRow(d, r, k) \/ ClaimWaiting(d, r, k) \/ ClaimFallback(d, r, k)

SweepStep(w) ==
  \/ SweepList(w) \/ SweepDone(w)
  \/ \E r \in Run, k \in Step :
       SweepMark(w, r, k) \/ SweepFail(w, r, k) \/ SweepNextRow(w, r, k)

Next ==
  \/ \E r \in Run : Start(r) \/ StopCheck(r) \/ StopInsert(r)
  \/ \E r \in Run, k \in Slot : TaskStep(r, k)
  \/ \E r \in Run, k \in Step : Resume(r, k) \/ Age(r, k)
  \/ \E d \in Decider, r \in Run, k \in Step, verdict \in Decided :
       TakePending(d, r, k, verdict)
  \/ \E d \in Decider : DecideStep(d)
  \/ \E w \in Sweeper : SweepStep(w)
  \/ Crash

Spec == Init /\ [][Next]_vars

(***************************************************************************)
(* Spawned tasks and accepted requests are driven to their end by the      *)
(* runtime (model calls and tools carry time limits of their own); clients *)
(* poll GET /api/approvals, so sweeps keep happening; time passes. Nobody  *)
(* has to decide an approval or to stop a run.                             *)
(***************************************************************************)
Fairness ==
  /\ \A r \in Run, k \in Slot : WF_vars(TaskStep(r, k))
  /\ \A r \in Run, k \in Step : WF_vars(Resume(r, k)) /\ WF_vars(Age(r, k))
  /\ \A r \in Run : WF_vars(StopInsert(r))
  /\ \A d \in Decider : WF_vars(DecideStep(d))
  /\ \A w \in Sweeper : WF_vars(SweepStep(w))

FairSpec == Spec /\ Fairness

-----------------------------------------------------------------------------
(***************************************************************************)
(* Properties                                                              *)
(***************************************************************************)

TypeOK ==
  /\ status \in [Run -> RowStatus]
  /\ approval \in [Run -> [Step -> ApprovalStatus]]
  /\ aged \subseteq Run \X Step
  /\ steps \in [Run -> Slot]
  /\ pc \in [Run -> [Slot -> TaskPC]]
  /\ stopping \subseteq Run
  /\ stopReq \subseteq Run
  /\ dec \in [Decider -> DeciderState]
  /\ sweep \in [Sweeper -> SweeperState]
  /\ todo \in [Sweeper -> SUBSET (Run \X Step)]
  /\ executed \in [Run -> [Step -> Nat]]
  /\ terminal \in [Run -> Nat]
  /\ hooks \in [Run -> Nat]
  /\ cut \subseteq Run

\* A task that may still write the row of its run.
Driving(r, k) == pc[r][k] \in Turning \cup {"parkApproval"}

\* The row of a run has one writer at a time: two tasks never drive the same
\* run, and while one does the row says so.  settle and park update the row by
\* its id alone, so nothing else keeps a late task from overwriting the state
\* of a run that a decision, a sweep or a second decision moved on.
OneDriver ==
  /\ \A r \in Run : \A j, k \in Slot : Driving(r, j) /\ Driving(r, k) => j = k
  /\ \A r \in Run, k \in Slot : pc[r][k] \in Turning => status[r] = "running"
  /\ \A r \in Run, k \in Slot : pc[r][k] = "parkApproval" => status[r] = "waiting"

\* A gated call runs at most once, and only if its approval row says approved:
\* not after a rejection, not after the sweep expired it, not twice because two
\* requests decided it (take_pending, the claim in decide_approval).
ExecutedOnceIfApproved ==
  \A r \in Run, k \in Step :
    /\ executed[r][k] <= 1
    /\ executed[r][k] = 1 => approval[r][k] = "approved"

\* Who has to act before a waiting run goes on: the person or the sweep (a
\* pending row), the task that is parking it, or a request at work on it.
HasOwner(r) ==
  \/ \E k \in Step : approval[r][k] = "pending"
  \/ \E k \in Slot : pc[r][k] = "parkApproval"
  \/ \E d \in Decider : dec[d] # Idle /\ dec[d].run = r
  \/ \E w \in Sweeper : sweep[w] \notin {Idle, Rows} /\ sweep[w].run = r

\* No run is stranded: a running row has a task that drives it and a waiting
\* row has somebody who will move it (APPROVAL_TTL_HOURS' doc: nothing else
\* ever revisits a waiting run).  Whatever fails for other runs, only a run
\* whose own row could not be saved (by settle, park or fail_waiting_run) or
\* read (by decide_approval), or that a crash left, is an exception.
NoStrandedRun ==
  \A r \in Run \ cut :
    /\ status[r] = "running" => \E k \in Slot : pc[r][k] \in Turning
    /\ status[r] = "waiting" => HasOwner(r)

\* Subscribers get one terminal event and the room engine one hook per run,
\* however the run ends (settle, fail_waiting_run from the sweep, or from
\* decide_approval): a second hook would advance a room round twice.
ClosedOnce ==
  \A r \in Run : terminal[r] <= 1 /\ hooks[r] <= terminal[r]

\* What is over stays over, and a decision once made is never remade.
Final ==
  [][ \A r \in Run :
        /\ status[r] \in Over => status'[r] = status[r]
        /\ \A k \in Step :
             approval[r][k] \in Decided \cup {"expired"} => approval'[r][k] = approval[r][k] ]_vars

\* Once a stop is recorded the run never calls the model again, whether the
\* stop finds it between calls, in a call, parking, parked or being resumed.
\* (The stop is kept in memory: a crash forgets it, and a waiting run that was
\* cut can still be approved and go on.)
NoCallAfterStop ==
  \A r \in Run, n \in Slot :
    [](r \in stopping /\ steps[r] = n => [](steps[r] = n \/ r \in cut))

\* Whatever a run goes through, calls, parks, decisions, the expiry of an
\* approval nobody decided, it comes to an end, and its end is announced and
\* reaches the room engine exactly once, unless the store refused its row or a
\* crash cut it short.
RunEnds ==
  \A r \in Run :
    status[r] # "absent" ~>
      \/ status[r] \in Over /\ terminal[r] = 1 /\ hooks[r] = 1
      \/ r \in cut

-----------------------------------------------------------------------------
(***************************************************************************)
(* Why it holds: at any moment a run is in one pair of hands.  Either one   *)
(* task works on it, or it waits on the approval of its latest call, which *)
(* is pending, or decided and held by one request, or expired and held by  *)
(* one sweep.                                                              *)
(***************************************************************************)
Busy(r, k) == pc[r][k] \in Turning \cup {"parkApproval"} \cup Closing
Decides(d, r, k) == dec[d] \in {At("taken", r, k), At("claim", r, k), At("fallback", r, k)}
Expires(w, r, k) == sweep[w] = At("marked", r, k)

\* Tasks against the row of their run.
OneTask == \A r \in Run : \A j, k \in Slot : Busy(r, j) /\ Busy(r, k) => j = k

RowOfTask ==
  \A r \in Run, k \in Slot :
    /\ pc[r][k] \in Turning => status[r] = "running"
    /\ pc[r][k] = "parkApproval" => status[r] = "waiting"

NotStarted ==
  \A r \in Run : pc[r][0] = "none" =>
    /\ status[r] = "absent" /\ terminal[r] = 0 /\ hooks[r] = 0
    /\ \A k \in Slot : pc[r][k] = "none"

\* Approvals against the tasks that ask for them and the tasks they resume.
Unasked ==
  \A r \in Run, k \in Slot :
    (Busy(r, k) /\ status[r] = "waiting") \/ pc[r][k] \in {"model", "tools", "parkRow"}
      => steps[r] \in Step /\ approval[r][steps[r]] = "none"

NoLaterCall == \A r \in Run, k \in Step : k > steps[r] => approval[r][k] = "none"

Undecided ==
  \A r \in Run, k \in Step :
    approval[r][k] \in {"none", "pending"} => pc[r][k] = "none" /\ executed[r][k] = 0

Resuming ==
  \A r \in Run, k \in Step :
    pc[r][k] = "resume" => approval[r][k] \in Decided /\ executed[r][k] = 0

\* The one approval a waiting run is on, and who is at work on it.
Awaited(r, k) ==
  /\ status[r] = "waiting"
  /\ k = steps[r]
  /\ pc[r][k] = "none"
  /\ executed[r][k] = 0
  /\ terminal[r] = 0
  /\ hooks[r] = 0

Pending == \A r \in Run, k \in Step : approval[r][k] = "pending" => Awaited(r, k)

OneRequest ==
  /\ \A d \in Decider, r \in Run, k \in Step :
       Decides(d, r, k) => Awaited(r, k) /\ approval[r][k] \in Decided
  /\ \A c, d \in Decider, r \in Run, k \in Step : Decides(c, r, k) /\ Decides(d, r, k) => c = d

OneSweep ==
  /\ \A w \in Sweeper, r \in Run, k \in Step :
       Expires(w, r, k) => Awaited(r, k) /\ approval[r][k] = "expired"
  /\ \A v, w \in Sweeper, r \in Run, k \in Step : Expires(v, r, k) /\ Expires(w, r, k) => v = w

\* What has been told about the end of a run.
Told ==
  \A r \in Run, k \in Slot :
    /\ pc[r][k] \in Turning \cup {"parkApproval", "emit", "abort"} => terminal[r] = 0 /\ hooks[r] = 0
    /\ pc[r][k] = "hook" => terminal[r] = 1 /\ hooks[r] = 0

TaskInv == OneTask /\ RowOfTask /\ NotStarted
ApprovalInv == Unasked /\ NoLaterCall /\ Undecided /\ Resuming /\ ExecutedOnceIfApproved
HolderInv == Pending /\ OneRequest /\ OneSweep
ToldInv == Told /\ ClosedOnce

IInv == TypeOK /\ TaskInv /\ ApprovalInv /\ HolderInv /\ ToldInv

-----------------------------------------------------------------------------
(***************************************************************************)
(* The run as its users see it: an approval counts as asked once its row   *)
(* is there, and a park that is half written still counts as work.         *)
(***************************************************************************)
PhaseOf(r) ==
  CASE status[r] = "absent" -> "absent"
    [] status[r] \in Over -> "over"
    [] status[r] = "waiting" /\ steps[r] \in Step /\ approval[r][steps[r]] # "none" -> "blocked"
    [] OTHER -> "working"

CallOf(r, k) ==
  CASE executed[r][k] # 0 -> "performed"
    [] approval[r][k] = "none" /\ executed[r][k] = 0 -> "unasked"
    [] approval[r][k] = "pending" /\ executed[r][k] = 0 -> "asked"
    [] approval[r][k] = "approved" /\ executed[r][k] = 0 -> "granted"
    [] OTHER -> "refused"

phaseBar == [r \in Run |-> PhaseOf(r)]
callBar == [r \in Run |-> [k \in Step |-> CallOf(r, k)]]

Promise == INSTANCE RunPromise WITH phase <- phaseBar, call <- callBar

\* Each step of the code is a step of RunPromise or invisible to it.
RefinesPromise == Promise!PromiseSpec

=============================================================================
