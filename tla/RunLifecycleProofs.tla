------------------------- MODULE RunLifecycleProofs -------------------------
(***************************************************************************)
(* Proofs about RunLifecycle for every set of runs, requests and sweeps,   *)
(* every step limit and every choice of faults: the type invariant, the    *)
(* inductive invariant IInv, and what follows from it; that the whole is a *)
(* RunPromise; and, for every run whose row the store does not refuse and  *)
(* that no crash cuts short, that it is not stranded and a stop is final.  *)
(*                                                                         *)
(* One lemma per action (or per group of actions with the same effect).    *)
(* Most actions of a task leave approvals and requests alone; for those    *)
(* QuietStepInv keeps the greater part of IInv once and for all.           *)
(***************************************************************************)
EXTENDS RunLifecycle, TLAPS

\* The arithmetic the proofs need of the numbers of calls.
SlotFacts ==
  /\ 0 \in Slot /\ Step \subseteq Slot /\ Slot \subseteq Nat /\ MaxSteps \in Nat
  /\ \A s \in Slot : s < MaxSteps => s + 1 \in Step
  /\ 0 \notin Step

\* Calls are numbered 1 .. MaxSteps (the step counter of run_turn); the task
\* that start spawns is slot 0.
LEMMA SlotsAreNumbers == SlotFacts
BY MaxStepsAssumption, SMT DEF Step, Slot, SlotFacts

\* Task <<r, k>> moves to `to`, no other task moves.
Moved(r, k, to) ==
  /\ pc'[r][k] = to
  /\ \A q \in Run, j \in Slot : q # r \/ j # k => pc'[q][j] = pc[q][j]

\* A task that moves (one await to the next in drive, settle or park) leaves
\* every other task where it is.
LEMMA MoveEffect ==
  ASSUME pc \in [Run -> [Slot -> TaskPC]], NEW r \in Run, NEW k \in Slot, NEW from, NEW to, Move(r, k, from, to)
  PROVE  pc[r][k] = from /\ Moved(r, k, to)
BY DEF Move, Moved

\* A task at work takes a step that leaves approvals and requests alone and
\* the other runs as they are: what the invariant says of approvals and of
\* requests still holds.
QuietStep(r, k, to) ==
  /\ Busy(r, k)
  /\ Moved(r, k, to)
  /\ to \notin {"none", "resume"}
  /\ UNCHANGED <<approval, executed, dec, sweep>>
  /\ \A q \in Run : q # r => /\ status'[q] = status[q] /\ steps'[q] = steps[q]
                             /\ terminal'[q] = terminal[q] /\ hooks'[q] = hooks[q]
  /\ steps'[r] \in {steps[r], steps[r] + 1}

\* The conjuncts of IInv that a quiet step keeps.
QuietInv == OneTask /\ NotStarted /\ NoLaterCall /\ Undecided /\ Resuming /\ ExecutedOnceIfApproved /\ HolderInv

\* Such a step (the bulk of run_turn, settle and park) keeps those conjuncts.
LEMMA QuietStepInv ==
  ASSUME IInv, NEW r \in Run, NEW k \in Slot, NEW to, QuietStep(r, k, to)
  PROVE  QuietInv'
<1>1. SlotFacts /\ steps \in [Run -> Slot] BY SlotsAreNumbers DEF IInv, TypeOK
<1>2. TaskInv /\ ApprovalInv /\ HolderInv BY DEF IInv
<1>3. OneTask' BY <1>2 DEF QuietStep, Moved, TaskInv, OneTask, Busy
<1>4. NotStarted'
  <2>1. pc[r][0] # "none" BY <1>1, <1>2 DEF QuietStep, TaskInv, NotStarted, Busy, Turning, Closing
  <2> QED BY <1>1, <1>2, <2>1 DEF QuietStep, Moved, TaskInv, NotStarted, SlotFacts
<1>5. NoLaterCall'
  <2> SUFFICES ASSUME NEW q \in Run, NEW j \in Step, j > steps'[q] PROVE approval'[q][j] = "none"
    BY DEF NoLaterCall
  <2>1. steps[q] \in Nat /\ j \in Nat BY <1>1 DEF SlotFacts
  <2>2. steps'[q] = steps[q] \/ steps'[q] = steps[q] + 1 BY DEF QuietStep
  <2>3. j > steps[q] BY <2>1, <2>2
  <2> QED BY <1>2, <2>3 DEF QuietStep, ApprovalInv, NoLaterCall
<1>6. Undecided'
  <2>1. pc[r][k] # "none" BY DEF QuietStep, Busy, Turning, Closing
  <2> QED BY <1>1, <1>2, <2>1 DEF QuietStep, Moved, ApprovalInv, Undecided, SlotFacts
<1>7. Resuming' BY <1>1, <1>2 DEF QuietStep, Moved, ApprovalInv, Resuming, SlotFacts
<1>8. ExecutedOnceIfApproved' BY <1>2 DEF QuietStep, ApprovalInv, ExecutedOnceIfApproved
<1>9. ASSUME NEW q \in Run, NEW j \in Step, Awaited(q, j), approval[q][j] # "none"
      PROVE  Awaited(q, j)'
  <2>1. q # r BY <1>2, <1>9 DEF QuietStep, Awaited, ApprovalInv, Unasked
  <2> QED BY <1>1, <1>9, <2>1 DEF QuietStep, Moved, Awaited
<1>10. Pending' BY <1>2, <1>9 DEF QuietStep, HolderInv, Pending
<1>11. OneRequest' BY <1>2, <1>9 DEF QuietStep, HolderInv, OneRequest, Decides, Decided
<1>12. OneSweep' BY <1>2, <1>9 DEF QuietStep, HolderInv, OneSweep, Expires
<1> QED BY <1>3, <1>4, <1>5, <1>6, <1>7, <1>8, <1>10, <1>11, <1>12 DEF QuietInv, HolderInv

\* The head of run_turn's loop (step limit, take_stop, the model call) keeps
\* the invariant: the call it starts has a fresh number, so no approval row yet.
LEMMA TurnInv ==
  ASSUME IInv, NEW r \in Run, NEW k \in Slot, Turn(r, k), TypeOK'
  PROVE  IInv'
<1>1. TypeOK /\ TaskInv /\ ApprovalInv /\ ToldInv /\ SlotFacts BY SlotsAreNumbers DEF IInv
<1>2. PICK to \in {"saveFailed", "model"} :
        /\ pc[r][k] = "turn" /\ Moved(r, k, to)
        /\ to = "saveFailed" => steps' = steps
        /\ to = "model" => steps[r] < MaxSteps /\ steps' = [steps EXCEPT ![r] = steps[r] + 1]
  BY <1>1, MoveEffect DEF Turn, TypeOK
<1>3. UNCHANGED <<status, approval, dec, sweep, executed, terminal, hooks>> BY DEF Turn, store, requests, history
<1>4. \A q \in Run : q # r => steps'[q] = steps[q] BY <1>1, <1>2 DEF TypeOK
<1>5. \/ to = "saveFailed" /\ steps'[r] = steps[r]
      \/ to = "model" /\ steps[r] < MaxSteps /\ steps'[r] = steps[r] + 1
  <2>1. steps \in [Run -> Slot] BY <1>1 DEF TypeOK
  <2>2. CASE to = "saveFailed" BY <1>2, <2>2
  <2>3. CASE to = "model" 
    <3>1. steps' = [steps EXCEPT ![r] = steps[r] + 1] /\ steps[r] < MaxSteps BY <1>2, <2>3
    <3>2. steps'[r] = steps[r] + 1 BY <2>1, <3>1
    <3> QED BY <2>3, <3>1, <3>2
  <2> QED BY <1>2, <2>2, <2>3
<1>6. QuietInv'
  <2>1. Busy(r, k) BY <1>2 DEF Busy, Turning
  <2> QED BY <1>2, <1>3, <1>4, <1>5, <2>1, QuietStepInv DEF QuietStep
<1>7. status[r] = "running" BY <1>1, <1>2 DEF TaskInv, RowOfTask, Turning
<1>8. RowOfTask' BY <1>1, <1>2, <1>3, <1>7 DEF Moved, TaskInv, RowOfTask, Turning
<1>9. Unasked'
  <2>1. to = "model" => steps'[r] \in Step /\ approval[r][steps'[r]] = "none"
    <3> SUFFICES ASSUME to = "model" PROVE steps'[r] \in Step /\ approval[r][steps'[r]] = "none" OBVIOUS
    <3>0. steps[r] \in Slot BY <1>1 DEF TypeOK
    <3>1. steps'[r] = steps[r] + 1 /\ steps[r] \in Nat /\ steps'[r] \in Step BY <1>1, <1>5, <3>0 DEF SlotFacts
    <3> QED BY <1>1, <3>1 DEF ApprovalInv, NoLaterCall
  <2>2. \A j \in Slot : Busy(r, j) => j = k BY <1>1, <1>2 DEF TaskInv, OneTask, Busy, Turning
  <2> QED BY <1>1, <1>2, <1>3, <1>4, <1>7, <2>1, <2>2 DEF Moved, ApprovalInv, Unasked, Busy, Turning
<1>10. ToldInv' BY <1>1, <1>2, <1>3 DEF Moved, ToldInv, Told, ClosedOnce, Turning
<1> QED BY <1>6, <1>8, <1>9, <1>10 DEF QuietInv, IInv, TaskInv, ApprovalInv

\* The end of a model call and the end of a tool batch keep the invariant.
LEMMA AnswerInv ==
  ASSUME IInv, NEW r \in Run, NEW k \in Slot, ModelReply(r, k) \/ ToolBatch(r, k), TypeOK'
  PROVE  IInv'
<1>1. TypeOK /\ TaskInv /\ ApprovalInv /\ ToldInv BY DEF IInv
<1>2. PICK to \in {"saveDone", "saveFailed", "tools", "turn", "parkRow"} :
        pc[r][k] \in {"model", "tools"} /\ Moved(r, k, to)
  BY <1>1, MoveEffect DEF ModelReply, ToolBatch, TypeOK
<1>3. UNCHANGED <<status, approval, steps, dec, sweep, executed, terminal, hooks>>
  BY DEF ModelReply, ToolBatch, store, requests, history
<1>4. QuietInv'
  <2>1. Busy(r, k) BY <1>2 DEF Busy, Turning
  <2> QED BY <1>2, <1>3, <2>1, QuietStepInv DEF QuietStep
<1>5. RowOfTask' BY <1>1, <1>2, <1>3 DEF Moved, TaskInv, RowOfTask, Turning
<1>6. Unasked'
  <2>1. steps[r] \in Step /\ approval[r][steps[r]] = "none" BY <1>1, <1>2 DEF ApprovalInv, Unasked
  <2> QED BY <1>1, <1>2, <1>3, <2>1 DEF Moved, ApprovalInv, Unasked, Busy, Turning
<1>7. ToldInv' BY <1>1, <1>2, <1>3 DEF Moved, ToldInv, Told, ClosedOnce, Turning
<1> QED BY <1>4, <1>5, <1>6, <1>7 DEF QuietInv, IInv, TaskInv, ApprovalInv

\* settle's UPDATE keeps the invariant: the row it overwrites was running.
LEMMA SettleRowInv ==
  ASSUME IInv, NEW r \in Run, NEW k \in Slot, SettleRow(r, k), TypeOK'
  PROVE  IInv'
<1>1. TypeOK /\ TaskInv /\ ApprovalInv /\ ToldInv BY DEF IInv
<1>2. pc[r][k] \in {"saveDone", "saveFailed"} /\ Moved(r, k, "emit")
  BY <1>1, MoveEffect DEF SettleRow, TypeOK
<1>3. UNCHANGED <<approval, steps, dec, sweep, executed, terminal, hooks>>
  BY DEF SettleRow, requests, history
<1>4. status[r] = "running" BY <1>1, <1>2 DEF TaskInv, RowOfTask, Turning
<1>5. status'[r] # "waiting" /\ \A q \in Run : q # r => status'[q] = status[q]
  BY <1>1, <1>4 DEF SettleRow, TypeOK
<1>6. Busy(r, k) BY <1>2 DEF Busy, Turning
<1>7. QuietInv' BY <1>2, <1>3, <1>5, <1>6, QuietStepInv DEF QuietStep
<1>8. \A j \in Slot : Busy(r, j) => j = k BY <1>1, <1>6 DEF TaskInv, OneTask
<1>9. RowOfTask' BY <1>1, <1>2, <1>5, <1>8 DEF Moved, TaskInv, RowOfTask, Busy, Turning
<1>10. Unasked' BY <1>1, <1>2, <1>3, <1>5, <1>8 DEF Moved, ApprovalInv, Unasked, Busy, Turning, Closing
<1>11. ToldInv' BY <1>1, <1>2, <1>3 DEF Moved, ToldInv, Told, ClosedOnce, Turning
<1> QED BY <1>7, <1>9, <1>10, <1>11 DEF QuietInv, IInv, TaskInv, ApprovalInv

\* The tail of settle, park and fail_waiting_run (terminal event, hook, finish)
\* keeps the invariant: each of the three happens once.
LEMMA TailInv ==
  ASSUME IInv, NEW r \in Run, NEW k \in Slot,
         EmitTerminal(r, k) \/ RunHook(r, k) \/ Finish(r, k), TypeOK'
  PROVE  IInv'
<1>1. TypeOK /\ TaskInv /\ ApprovalInv /\ ToldInv BY DEF IInv
<1>2. /\ \/ pc[r][k] = "emit" /\ Moved(r, k, "hook") /\ terminal'[r] = terminal[r] + 1 /\ hooks' = hooks
         \/ pc[r][k] = "abort" /\ Moved(r, k, "finish") /\ terminal'[r] = terminal[r] + 1 /\ hooks' = hooks
         \/ pc[r][k] = "hook" /\ Moved(r, k, "finish") /\ hooks'[r] = hooks[r] + 1 /\ terminal' = terminal
         \/ pc[r][k] = "finish" /\ Moved(r, k, "ended") /\ terminal' = terminal /\ hooks' = hooks
      /\ \A q \in Run : q # r => terminal'[q] = terminal[q] /\ hooks'[q] = hooks[q]
  <2>1. CASE EmitTerminal(r, k)
    <3>1. terminal' = [terminal EXCEPT ![r] = @ + 1] /\ hooks' = hooks
      BY <2>1 DEF EmitTerminal
    <3>2. terminal'[r] = terminal[r] + 1 /\ \A q \in Run : q # r => terminal'[q] = terminal[q]
      BY <1>1, <3>1 DEF TypeOK
    <3>3. \/ pc[r][k] = "emit" /\ Moved(r, k, "hook")
          \/ pc[r][k] = "abort" /\ Moved(r, k, "finish")
      BY <1>1, <2>1, MoveEffect DEF EmitTerminal, TypeOK
    <3> QED BY <3>1, <3>2, <3>3
  <2>2. CASE RunHook(r, k)
    <3>1. /\ hooks'[r] = hooks[r] + 1 /\ terminal' = terminal
          /\ \A q \in Run : q # r => hooks'[q] = hooks[q]
      BY <1>1, <2>2 DEF RunHook, TypeOK
    <3>2. pc[r][k] = "hook" /\ Moved(r, k, "finish")
      BY <1>1, <2>2, MoveEffect DEF RunHook, TypeOK
    <3> QED BY <3>1, <3>2
  <2>3. CASE Finish(r, k) BY <1>1, <2>3, MoveEffect DEF Finish, TypeOK, history
  <2> QED BY <2>1, <2>2, <2>3
<1>3. UNCHANGED <<status, approval, steps, dec, sweep, executed>>
  BY DEF EmitTerminal, RunHook, Finish, store, requests, history
<1>4. Busy(r, k) BY <1>2 DEF Busy, Closing
<1>5. QuietInv' BY <1>2, <1>3, <1>4, QuietStepInv DEF QuietStep
<1>6. RowOfTask' BY <1>1, <1>2, <1>3 DEF Moved, TaskInv, RowOfTask, Turning
<1>7. Unasked' BY <1>1, <1>2, <1>3, <1>4 DEF Moved, ApprovalInv, Unasked, Busy, Turning, Closing
<1>8. ToldInv' 
  <2>1. Told' BY <1>1, <1>2, <1>4 DEF Moved, ToldInv, Told, ClosedOnce, TaskInv, OneTask, Busy, Turning, Closing
  <2>2. terminal[r] \in Nat /\ hooks[r] \in Nat /\ terminal[r] <= 1 /\ hooks[r] <= terminal[r]
    BY <1>1 DEF ToldInv, ClosedOnce, TypeOK
  <2>3. terminal'[r] <= 1 /\ hooks'[r] <= terminal'[r]
    <3>1. pc[r][k] \in {"emit", "abort"} => terminal[r] = 0 /\ hooks[r] = 0
      BY <1>1 DEF ToldInv, Told
    <3>2. pc[r][k] = "hook" => terminal[r] = 1 /\ hooks[r] = 0 BY <1>1 DEF ToldInv, Told
    <3> QED BY <1>2, <2>2, <3>1, <3>2
  <2>4. ClosedOnce' BY <1>1, <1>2, <2>3 DEF ToldInv, ClosedOnce
  <2> QED BY <2>1, <2>4 DEF ToldInv
<1> QED BY <1>5, <1>6, <1>7, <1>8 DEF QuietInv, IInv, TaskInv, ApprovalInv

\* park's first write keeps the invariant.
LEMMA ParkRowInv ==
  ASSUME IInv, NEW r \in Run, NEW k \in Slot, ParkRow(r, k), TypeOK'
  PROVE  IInv'
<1>1. TypeOK /\ TaskInv /\ ApprovalInv /\ ToldInv BY DEF IInv
<1>2. /\ pc[r][k] = "parkRow"
      /\ \/ Moved(r, k, "parkApproval") /\ status'[r] = "waiting"
         \/ Moved(r, k, "abort") /\ status' = status
      /\ \A q \in Run : q # r => status'[q] = status[q]
  BY <1>1, MoveEffect DEF ParkRow, TypeOK
<1>3. UNCHANGED <<approval, steps, dec, sweep, executed, terminal, hooks>>
  BY DEF ParkRow, requests, history
<1>4. steps[r] \in Step /\ approval[r][steps[r]] = "none" BY <1>1, <1>2 DEF ApprovalInv, Unasked
<1>5. Busy(r, k) BY <1>2 DEF Busy, Turning
<1>6. QuietInv' BY <1>2, <1>3, <1>5, QuietStepInv DEF QuietStep
<1>7. \A j \in Slot : Busy(r, j) => j = k BY <1>1, <1>5 DEF TaskInv, OneTask
<1>8. RowOfTask' BY <1>1, <1>2, <1>7 DEF Moved, TaskInv, RowOfTask, Busy, Turning
<1>9. Unasked' BY <1>1, <1>2, <1>3, <1>4, <1>7 DEF Moved, ApprovalInv, Unasked, Busy, Turning, Closing
<1>10. ToldInv' BY <1>1, <1>2, <1>3 DEF Moved, ToldInv, Told, ClosedOnce, Turning
<1> QED BY <1>6, <1>8, <1>9, <1>10 DEF QuietInv, IInv, TaskInv, ApprovalInv

\* ApprovalNeeded may be emitted after the approval was decided; the invariant
\* does not mind.
LEMMA AnnounceInv ==
  ASSUME IInv, NEW r \in Run, NEW k \in Slot, Announce(r, k), TypeOK'
  PROVE  IInv'
<1>1. TypeOK /\ TaskInv /\ ApprovalInv /\ HolderInv /\ ToldInv /\ SlotFacts BY SlotsAreNumbers DEF IInv
<1>2. pc[r][k] = "announce" /\ Moved(r, k, "ended") BY <1>1, MoveEffect DEF Announce, TypeOK
<1>3. UNCHANGED <<status, approval, steps, dec, sweep, executed, terminal, hooks>>
  BY DEF Announce, store, requests, history
<1>4. \A q \in Run, j \in Slot : Busy(q, j)' => Busy(q, j)
  BY <1>2 DEF Moved, Busy, Turning, Closing
<1>5. TaskInv' BY <1>1, <1>2, <1>3, <1>4 DEF Moved, TaskInv, OneTask, RowOfTask, NotStarted, Turning, SlotFacts
<1>6. ApprovalInv'
  <2>1. Unasked' BY <1>1, <1>2, <1>3, <1>4 DEF Moved, ApprovalInv, Unasked
  <2> QED BY <1>1, <1>2, <1>3, <2>1 DEF Moved, ApprovalInv, NoLaterCall, Undecided, Resuming, ExecutedOnceIfApproved, SlotFacts
<1>7. \A q \in Run, j \in Step : Awaited(q, j) => Awaited(q, j)'
  BY <1>1, <1>2, <1>3 DEF Moved, Awaited, SlotFacts
<1>8. HolderInv' BY <1>1, <1>3, <1>7 DEF HolderInv, Pending, OneRequest, OneSweep, Decides, Expires
<1>9. ToldInv' BY <1>1, <1>2, <1>3 DEF Moved, ToldInv, Told, ClosedOnce, Turning
<1> QED BY <1>5, <1>6, <1>8, <1>9 DEF IInv

\* park's second write keeps the invariant: the call had no approval row, the
\* run waits on exactly this one from now on.
LEMMA ParkApprovalInv ==
  ASSUME IInv, NEW r \in Run, NEW k \in Slot, ParkApproval(r, k), TypeOK'
  PROVE  IInv'
<1>1. TypeOK /\ TaskInv /\ ApprovalInv /\ HolderInv /\ ToldInv /\ SlotFacts BY SlotsAreNumbers DEF IInv
<1>2. UNCHANGED <<status, steps, dec, sweep, executed, terminal, hooks>>
  BY DEF ParkApproval, requests, history
<1>3. CASE Move(r, k, "parkApproval", "abort") /\ UNCHANGED approval
  <2>1. pc[r][k] = "parkApproval" /\ Moved(r, k, "abort") BY <1>1, <1>3, MoveEffect DEF TypeOK
  <2>2. Busy(r, k) BY <2>1 DEF Busy
  <2>3. QuietInv' BY <1>2, <1>3, <2>1, <2>2, QuietStepInv DEF QuietStep
  <2>4. RowOfTask' BY <1>1, <1>2, <2>1 DEF Moved, TaskInv, RowOfTask, Turning
  <2>5. Unasked' BY <1>1, <1>2, <1>3, <2>1, <2>2 DEF Moved, ApprovalInv, Unasked, Busy
  <2>6. ToldInv' BY <1>1, <1>2, <2>1 DEF Moved, ToldInv, Told, ClosedOnce, Turning
  <2> QED BY <2>3, <2>4, <2>5, <2>6 DEF QuietInv, IInv, TaskInv, ApprovalInv
<1>4. CASE Move(r, k, "parkApproval", "announce") /\ approval' = [approval EXCEPT ![r][steps[r]] = "pending"]
  <2> DEFINE n == steps[r]
  <2>1. pc[r][k] = "parkApproval" /\ Moved(r, k, "announce") BY <1>1, <1>4, MoveEffect DEF TypeOK
  <2>2. Busy(r, k) /\ status[r] = "waiting" BY <1>1, <2>1 DEF Busy, TaskInv, RowOfTask
  <2>3. n \in Step /\ approval[r][n] = "none" BY <1>1, <2>2 DEF ApprovalInv, Unasked
  <2>4. /\ approval'[r][n] = "pending"
        /\ \A q \in Run, j \in Step : q # r \/ j # n => approval'[q][j] = approval[q][j]
    BY <1>1, <1>4, <2>3 DEF TypeOK
  <2>5. \A q \in Run, j \in Slot : Busy(q, j)' => Busy(q, j) /\ q # r
    BY <1>1, <2>1, <2>2 DEF Moved, Busy, TaskInv, OneTask, Turning, Closing
  <2>6. pc[r][n] = "none" /\ executed[r][n] = 0 /\ terminal[r] = 0 /\ hooks[r] = 0
    BY <1>1, <2>1, <2>3 DEF ApprovalInv, Undecided, ToldInv, Told
  <2>7. TaskInv'
    <3>1. OneTask' BY <1>1, <2>5 DEF TaskInv, OneTask
    <3>2. RowOfTask' BY <1>1, <1>2, <2>1 DEF Moved, TaskInv, RowOfTask, Turning
    <3>3. pc[r][0] # "none" BY <1>1, <2>1 DEF TaskInv, NotStarted
    <3>4. NotStarted' BY <1>1, <1>2, <2>1, <3>3 DEF Moved, TaskInv, NotStarted, SlotFacts
    <3> QED BY <3>1, <3>2, <3>4 DEF TaskInv
  <2>8. ApprovalInv'
    <3>1. Unasked'
      <4> SUFFICES ASSUME NEW q \in Run, NEW j \in Slot,
                          (Busy(q, j) /\ status[q] = "waiting")' \/ pc'[q][j] \in {"model", "tools", "parkRow"}
                   PROVE  steps'[q] \in Step /\ approval'[q][steps'[q]] = "none"
        BY DEF Unasked
      <4>1. Busy(q, j)' BY DEF Busy, Turning
      <4>2. q # r BY <2>5, <4>1
      <4> QED BY <1>1, <1>2, <2>1, <2>4, <2>5, <4>2 DEF Moved, ApprovalInv, Unasked
    <3>2. NoLaterCall'
      <4> SUFFICES ASSUME NEW q \in Run, NEW j \in Step, j > steps[q] PROVE approval'[q][j] = "none"
        BY <1>2 DEF NoLaterCall
      <4>1. q # r \/ j # n BY <1>1, <2>3 DEF SlotFacts
      <4> QED BY <1>1, <2>4, <4>1 DEF ApprovalInv, NoLaterCall
    <3>3. Undecided' BY <1>1, <1>2, <2>1, <2>3, <2>4, <2>6 DEF Moved, ApprovalInv, Undecided, SlotFacts
    <3>4. Resuming' BY <1>1, <1>2, <2>1, <2>4, <2>6 DEF Moved, ApprovalInv, Resuming, SlotFacts
    <3>5. ExecutedOnceIfApproved' BY <1>1, <1>2, <2>3, <2>4, <2>6 DEF ApprovalInv, ExecutedOnceIfApproved
    <3> QED BY <3>1, <3>2, <3>3, <3>4, <3>5 DEF ApprovalInv
  <2>9. \A q \in Run, j \in Step : Awaited(q, j) => Awaited(q, j)'
    BY <1>1, <1>2, <2>1 DEF Moved, Awaited, SlotFacts
  <2>10. Awaited(r, n)' BY <1>1, <1>2, <2>1, <2>2, <2>3, <2>6 DEF Moved, Awaited, SlotFacts
  <2>11. HolderInv'
    <3>1. Pending'
      <4> SUFFICES ASSUME NEW q \in Run, NEW j \in Step, approval'[q][j] = "pending"
                   PROVE  Awaited(q, j)'
        BY DEF Pending
      <4>1. CASE q = r /\ j = n BY <1>2, <2>10, <4>1 DEF Awaited
      <4>2. CASE q # r \/ j # n BY <1>1, <2>4, <2>9, <4>2 DEF HolderInv, Pending
      <4> QED BY <4>1, <4>2
    <3>2. OneRequest' BY <1>1, <1>2, <2>3, <2>4, <2>9 DEF HolderInv, OneRequest, Decides, Decided
    <3>3. OneSweep' BY <1>1, <1>2, <2>3, <2>4, <2>9 DEF HolderInv, OneSweep, Expires
    <3> QED BY <3>1, <3>2, <3>3 DEF HolderInv
  <2>12. ToldInv' BY <1>1, <1>2, <2>1 DEF Moved, ToldInv, Told, ClosedOnce, Turning
  <2> QED BY <2>7, <2>8, <2>11, <2>12 DEF IInv
<1> QED BY <1>3, <1>4 DEF ParkApproval

\* The resumed task runs the gated call for the first and only time.
LEMMA ResumeInv ==
  ASSUME IInv, NEW r \in Run, NEW k \in Step, Resume(r, k), TypeOK'
  PROVE  IInv'
<1>1. TypeOK /\ TaskInv /\ ApprovalInv /\ HolderInv /\ ToldInv /\ SlotFacts BY SlotsAreNumbers DEF IInv
<1>2. UNCHANGED <<status, approval, steps, dec, sweep, terminal, hooks>>
  BY DEF Resume, store, requests
<1>3. k \in Slot /\ pc[r][k] = "resume" /\ Moved(r, k, "turn") BY <1>1, MoveEffect DEF Resume, TypeOK, SlotFacts
<1>4. executed[r][k] = 0 /\ approval[r][k] \in Decided BY <1>1, <1>3 DEF ApprovalInv, Resuming
<1>5. /\ executed'[r][k] = 0 \/ (executed'[r][k] = 1 /\ approval[r][k] = "approved")
      /\ \A q \in Run, j \in Step : q # r \/ j # k => executed'[q][j] = executed[q][j]
  <2>1. CASE executed' = executed BY <1>4, <2>1
  <2>2. CASE approval[r][k] = "approved" /\ executed' = [executed EXCEPT ![r][k] = @ + 1]
    <3>1. executed \in [Run -> [Step -> Nat]] BY <1>1 DEF TypeOK
    <3>2. executed'[r][k] = executed[r][k] + 1 BY <2>2, <3>1
    <3>3. \A q \in Run, j \in Step : q # r \/ j # k => executed'[q][j] = executed[q][j] BY <2>2, <3>1
    <3> QED BY <1>4, <2>2, <3>2, <3>3
  <2> QED BY <2>1, <2>2 DEF Resume
<1>6. Busy(r, k) /\ status[r] = "running" BY <1>1, <1>3 DEF Busy, Turning, TaskInv, RowOfTask
<1>7. TaskInv' BY <1>1, <1>2, <1>3, <1>6 DEF Moved, TaskInv, OneTask, RowOfTask, NotStarted, Busy, Turning, SlotFacts
<1>8. ApprovalInv'
  <2>1. Unasked' BY <1>1, <1>2, <1>3, <1>6 DEF Moved, ApprovalInv, Unasked, Busy
  <2>2. NoLaterCall' BY <1>1, <1>2 DEF ApprovalInv, NoLaterCall
  <2>3. Undecided' BY <1>1, <1>2, <1>3, <1>4, <1>5 DEF Moved, ApprovalInv, Undecided, SlotFacts, Decided
  <2>4. Resuming' BY <1>1, <1>2, <1>3, <1>5 DEF Moved, ApprovalInv, Resuming, SlotFacts
  <2>5. ExecutedOnceIfApproved' BY <1>1, <1>2, <1>5 DEF ApprovalInv, ExecutedOnceIfApproved
  <2> QED BY <2>1, <2>2, <2>3, <2>4, <2>5 DEF ApprovalInv
<1>9. \A q \in Run, j \in Step : Awaited(q, j) => Awaited(q, j)'
  BY <1>1, <1>2, <1>3, <1>5, <1>6 DEF Moved, Awaited, SlotFacts
<1>10. HolderInv' BY <1>1, <1>2, <1>9 DEF HolderInv, Pending, OneRequest, OneSweep, Decides, Expires
<1>11. ToldInv' BY <1>1, <1>2, <1>3 DEF Moved, ToldInv, Told, ClosedOnce, Turning
<1> QED BY <1>7, <1>8, <1>10, <1>11 DEF IInv

\* start_inner spawns the first task of a run that has none.
LEMMA StartInv ==
  ASSUME IInv, NEW r \in Run, Start(r), TypeOK'
  PROVE  IInv'
<1>1. TypeOK /\ TaskInv /\ ApprovalInv /\ HolderInv /\ ToldInv /\ SlotFacts BY SlotsAreNumbers DEF IInv
<1>2. UNCHANGED <<approval, steps, dec, sweep, executed, hooks>>
  BY DEF Start, requests
<1>3. PICK to \in {"turn", "ended"} :
        /\ pc[r][0] = "none" /\ Moved(r, 0, to)
        /\ to = "turn" => status'[r] = "running" /\ terminal' = terminal
        /\ to = "ended" => status'[r] = status[r] /\ terminal'[r] = terminal[r] + 1
  BY <1>1, MoveEffect DEF Start, TypeOK, SlotFacts
<1>4. \A q \in Run : q # r => status'[q] = status[q] /\ terminal'[q] = terminal[q]
  BY <1>1 DEF Start, TypeOK
<1>5. status[r] = "absent" /\ terminal[r] = 0 /\ hooks[r] = 0 /\ \A k \in Slot : pc[r][k] = "none"
  BY <1>1, <1>3 DEF TaskInv, NotStarted
<1>6. \A j \in Slot : ~ Busy(r, j) BY <1>5 DEF Busy, Turning, Closing
<1>7. TaskInv'
  <2>0. \A q \in Run, j \in Slot : Busy(q, j)' => (q = r /\ j = 0) \/ (q # r /\ Busy(q, j))
    BY <1>3, <1>6 DEF Moved, Busy
  <2>1. OneTask' BY <1>1, <2>0 DEF TaskInv, OneTask
  <2>2. RowOfTask' BY <1>1, <1>3, <1>4, <1>5 DEF Moved, TaskInv, RowOfTask, Turning, SlotFacts
  <2>3. NotStarted' BY <1>1, <1>2, <1>3, <1>4 DEF Moved, TaskInv, NotStarted, SlotFacts
  <2> QED BY <2>1, <2>2, <2>3 DEF TaskInv
<1>8. \A q \in Run, j \in Step : pc'[q][j] = pc[q][j] BY <1>1, <1>3 DEF Moved, SlotFacts
<1>9. ApprovalInv'
  <2>1. Unasked' BY <1>1, <1>2, <1>3, <1>4, <1>5 DEF Moved, ApprovalInv, Unasked, Busy, Turning, Closing, SlotFacts
  <2> QED BY <1>1, <1>2, <1>8, <2>1 DEF ApprovalInv, NoLaterCall, Undecided, Resuming, ExecutedOnceIfApproved
<1>10. \A q \in Run, j \in Step : Awaited(q, j) => Awaited(q, j)'
  BY <1>1, <1>2, <1>4, <1>5, <1>8 DEF Awaited
<1>11. HolderInv' BY <1>1, <1>2, <1>10 DEF HolderInv, Pending, OneRequest, OneSweep, Decides, Expires
<1>12. ToldInv'
  <2>1. Told' BY <1>1, <1>2, <1>3, <1>4, <1>5 DEF Moved, ToldInv, Told, Turning, SlotFacts
  <2>2. ClosedOnce' BY <1>1, <1>2, <1>3, <1>4, <1>5 DEF ToldInv, ClosedOnce
  <2> QED BY <2>1, <2>2 DEF ToldInv
<1> QED BY <1>7, <1>9, <1>11, <1>12 DEF IInv

\* A step that neither writes a row nor moves a task.
RequestsOnly == UNCHANGED <<status, approval, steps, pc, executed, terminal, hooks>>

\* What the invariant says of rows, tasks and events does not depend on the
\* requests in flight.
LEMMA RequestsOnlyInv ==
  ASSUME IInv, RequestsOnly
  PROVE  TaskInv' /\ ApprovalInv' /\ ToldInv' /\ Pending'
         /\ \A r \in Run, k \in Step : Awaited(r, k) => Awaited(r, k)'
<1>1. TaskInv' BY DEF IInv, RequestsOnly, TaskInv, OneTask, RowOfTask, NotStarted, Busy
<1>2. ApprovalInv'
  BY DEF IInv, RequestsOnly, ApprovalInv, Unasked, NoLaterCall, Undecided, Resuming, ExecutedOnceIfApproved, Busy
<1>3. ToldInv' BY DEF IInv, RequestsOnly, ToldInv, Told, ClosedOnce
<1>4. \A r \in Run, k \in Step : Awaited(r, k) => Awaited(r, k)' BY DEF RequestsOnly, Awaited
<1>5. Pending' BY <1>4 DEF IInv, HolderInv, Pending, RequestsOnly
<1> QED BY <1>1, <1>2, <1>3, <1>4, <1>5

\* A request between two approvals holds none (decide_approval before its
\* take_pending, sweep_approvals before its mark_expired).
LEMMA IdleHoldsNothing ==
  \A p, r, k : At(p, r, k) # Idle /\ At(p, r, k) # Rows
BY DEF At, Idle, Rows

\* A request holds one approval at a time.
LEMMA AtIsInjective ==
  \A p, q, r, s, j, k : At(p, r, j) = At(q, s, k) <=> p = q /\ r = s /\ j = k
BY DEF At

\* A step after which nobody holds an approval that it did not hold before.
NoNewHolder ==
  /\ \A d \in Decider, r \in Run, k \in Step : Decides(d, r, k)' => Decides(d, r, k)
  /\ \A w \in Sweeper, r \in Run, k \in Step : Expires(w, r, k)' => Expires(w, r, k)

\* A request that lets go of an approval, or holds on to it, keeps the invariant
\* as long as rows and tasks stay as they are.
LEMMA QuietRequestInv ==
  ASSUME IInv, RequestsOnly, NoNewHolder, TypeOK'
  PROVE  IInv'
<1>1. TaskInv' /\ ApprovalInv' /\ ToldInv' /\ Pending'
      /\ \A r \in Run, k \in Step : Awaited(r, k) => Awaited(r, k)'
  BY RequestsOnlyInv
<1>2. HolderInv /\ approval' = approval BY DEF IInv, RequestsOnly
<1>3. OneRequest' BY <1>1, <1>2 DEF HolderInv, OneRequest, NoNewHolder
<1>4. OneSweep' BY <1>1, <1>2 DEF HolderInv, OneSweep, NoNewHolder
<1> QED BY <1>1, <1>3, <1>4 DEF IInv, HolderInv

\* take_pending keeps the invariant: one request decides a pending approval, and
\* the run it belongs to is still waiting on it.
LEMMA TakePendingInv ==
  ASSUME IInv, NEW d \in Decider, NEW r \in Run, NEW k \in Step, NEW verdict \in Decided,
         TakePending(d, r, k, verdict), TypeOK'
  PROVE  IInv'
<1>1. TypeOK /\ TaskInv /\ ApprovalInv /\ HolderInv /\ ToldInv /\ SlotFacts BY SlotsAreNumbers DEF IInv
<1>2. UNCHANGED <<status, steps, pc, sweep, executed, terminal, hooks>> /\ approval[r][k] = "pending"
  BY DEF TakePending, history
<1>3. /\ approval'[r][k] = verdict
      /\ \A q \in Run, j \in Step : q # r \/ j # k => approval'[q][j] = approval[q][j]
  BY <1>1 DEF TakePending, TypeOK
<1>4. /\ dec'[d] = At("taken", r, k)
      /\ \A e \in Decider : e # d => dec'[e] = dec[e]
  BY <1>1 DEF TakePending, TypeOK
<1>5. Awaited(r, k) BY <1>1, <1>2 DEF HolderInv, Pending
<1>6. TaskInv' BY <1>1, <1>2 DEF TaskInv, OneTask, RowOfTask, NotStarted, Busy
<1>7. ApprovalInv'
  <2>0. verdict \in {"approved", "rejected"} BY DEF Decided
  <2>1. Unasked'
    <3> SUFFICES ASSUME NEW q \in Run, NEW j \in Slot,
                        (Busy(q, j) /\ status[q] = "waiting") \/ pc[q][j] \in {"model", "tools", "parkRow"}
                 PROVE  steps[q] \in Step /\ approval'[q][steps[q]] = "none"
      BY <1>2 DEF Unasked, Busy
    <3>1. steps[q] \in Step /\ approval[q][steps[q]] = "none" BY <1>1 DEF ApprovalInv, Unasked
    <3> QED BY <1>2, <1>3, <3>1
  <2>2. NoLaterCall' BY <1>1, <1>2, <1>3, <1>5 DEF ApprovalInv, NoLaterCall, Awaited, SlotFacts
  <2>3. Undecided' BY <1>1, <1>2, <1>3, <2>0 DEF ApprovalInv, Undecided
  <2>4. Resuming' BY <1>1, <1>2, <1>3 DEF ApprovalInv, Resuming
  <2>5. ExecutedOnceIfApproved' BY <1>1, <1>2, <1>3, <1>5 DEF ApprovalInv, ExecutedOnceIfApproved, Awaited
  <2> QED BY <2>1, <2>2, <2>3, <2>4, <2>5 DEF ApprovalInv
<1>8. \A q \in Run, j \in Step : Awaited(q, j) => Awaited(q, j)' BY <1>2 DEF Awaited
<1>9. Pending' BY <1>1, <1>3, <1>8 DEF HolderInv, Pending, Decided
<1>10. OneRequest'
  <2>1. \A e \in Decider, q \in Run, j \in Step : Decides(e, q, j)' =>
          (e = d /\ q = r /\ j = k) \/ (e # d /\ Decides(e, q, j) /\ (q # r \/ j # k))
    <3>1. \A e \in Decider : ~ Decides(e, r, k) BY <1>1, <1>2 DEF HolderInv, OneRequest, Decided
    <3> QED BY <1>4, <3>1, AtIsInjective DEF Decides
  <2>2. \A e \in Decider, q \in Run, j \in Step : Decides(e, q, j)' => Awaited(q, j)' /\ approval'[q][j] \in Decided
    BY <1>1, <1>3, <1>5, <1>8, <2>1 DEF HolderInv, OneRequest
  <2>3. \A c, e \in Decider, q \in Run, j \in Step : Decides(c, q, j)' /\ Decides(e, q, j)' => c = e
    BY <1>1, <2>1 DEF HolderInv, OneRequest
  <2> QED BY <2>2, <2>3 DEF OneRequest
<1>11. OneSweep' BY <1>1, <1>2, <1>3, <1>8 DEF HolderInv, OneSweep, Expires
<1>12. ToldInv' BY <1>1, <1>2 DEF ToldInv, Told, ClosedOnce
<1> QED BY <1>6, <1>7, <1>9, <1>10, <1>11, <1>12 DEF IInv, HolderInv

\* A run leaves waiting, to be resumed by the claim of decide_approval or to be
\* failed by fail_waiting_run: no task and no other request is at work on it.
LEMMA LeaveWaitingInv ==
  ASSUME IInv, NEW r \in Run, NEW k \in Step, NEW to, Awaited(r, k),
         \/ to = "resume" /\ status'[r] = "running" /\ approval[r][k] \in Decided
         \/ to = "emit" /\ status'[r] = "failed" /\ approval[r][k] \in Decided \cup {"expired"},
         \A q \in Run : q # r => status'[q] = status[q],
         Moved(r, k, to),
         UNCHANGED <<approval, steps, executed, terminal, hooks>>,
         NoNewHolder,
         \A d \in Decider : ~ Decides(d, r, k)',
         \A w \in Sweeper : ~ Expires(w, r, k)',
         TypeOK'
  PROVE  IInv'
<1>1. TypeOK /\ TaskInv /\ ApprovalInv /\ HolderInv /\ ToldInv /\ SlotFacts BY SlotsAreNumbers DEF IInv
<1>2. k \in Slot /\ k = steps[r] /\ status[r] = "waiting" /\ pc[r][k] = "none" /\ executed[r][k] = 0
      /\ terminal[r] = 0 /\ hooks[r] = 0
  BY <1>1 DEF Awaited, SlotFacts
<1>3. approval[r][k] \notin {"none", "pending"} BY DEF Decided
<1>4. to \in {"resume", "emit"} OBVIOUS
<1>5. \A j \in Slot : ~ Busy(r, j) BY <1>1, <1>2, <1>3 DEF ApprovalInv, Unasked
<1>6. \A q \in Run, j \in Slot : Busy(q, j)' => (q = r /\ j = k) \/ (q # r /\ Busy(q, j))
  BY <1>2, <1>5 DEF Moved, Busy
<1>7. TaskInv'
  <2>1. OneTask' BY <1>1, <1>6 DEF TaskInv, OneTask
  <2>2. RowOfTask'
    <3> SUFFICES ASSUME NEW q \in Run, NEW j \in Slot
                 PROVE  /\ pc'[q][j] \in Turning => status'[q] = "running"
                        /\ pc'[q][j] = "parkApproval" => status'[q] = "waiting"
      BY DEF RowOfTask
    <3>1. CASE q = r /\ j = k BY <3>1 DEF Moved, Turning
    <3>2. CASE q = r /\ j # k
      <4>1. pc'[q][j] = pc[q][j] /\ ~ Busy(q, j) BY <1>5, <3>2 DEF Moved
      <4> QED BY <4>1 DEF Busy
    <3>3. CASE q # r BY <1>1, <3>3 DEF Moved, TaskInv, RowOfTask
    <3> QED BY <3>1, <3>2, <3>3
  <2>3. pc[r][0] # "none" BY <1>1, <1>2 DEF TaskInv, NotStarted
  <2>4. NotStarted' BY <1>1, <1>4, <2>3 DEF Moved, TaskInv, NotStarted, SlotFacts
  <2> QED BY <2>1, <2>2, <2>4 DEF TaskInv
<1>8. ApprovalInv'
  <2>1. Unasked'
    <3> SUFFICES ASSUME NEW q \in Run, NEW j \in Slot,
                        (Busy(q, j) /\ status[q] = "waiting")' \/ pc'[q][j] \in {"model", "tools", "parkRow"}
                 PROVE  steps'[q] \in Step /\ approval'[q][steps'[q]] = "none"
      BY DEF Unasked
    <3>1. Busy(q, j)' BY DEF Busy, Turning
    <3>2. q # r BY <1>4, <1>6, <3>1 DEF Moved
    <3>3. Busy(q, j) /\ pc'[q][j] = pc[q][j] /\ status'[q] = status[q] BY <1>6, <3>1, <3>2 DEF Moved
    <3> QED BY <1>1, <3>3 DEF ApprovalInv, Unasked
  <2>2. NoLaterCall' BY <1>1 DEF ApprovalInv, NoLaterCall
  <2>3. Undecided' BY <1>1, <1>3 DEF Moved, ApprovalInv, Undecided, SlotFacts
  <2>4. Resuming' BY <1>1, <1>2 DEF Moved, ApprovalInv, Resuming, SlotFacts
  <2>5. ExecutedOnceIfApproved' BY <1>1 DEF ApprovalInv, ExecutedOnceIfApproved
  <2> QED BY <2>1, <2>2, <2>3, <2>4, <2>5 DEF ApprovalInv
<1>9. ASSUME NEW q \in Run, NEW j \in Step, Awaited(q, j), q # r \/ j # k
      PROVE  Awaited(q, j)'
  <2>1. q # r BY <1>2, <1>9 DEF Awaited
  <2> QED BY <1>1, <1>9, <2>1 DEF Moved, Awaited, SlotFacts
<1>10. Pending' BY <1>1, <1>3, <1>9 DEF HolderInv, Pending
<1>11. OneRequest' BY <1>1, <1>9 DEF HolderInv, OneRequest, NoNewHolder
<1>12. OneSweep' BY <1>1, <1>9 DEF HolderInv, OneSweep, NoNewHolder
<1>13. ToldInv' BY <1>1, <1>2, <1>4 DEF Moved, ToldInv, Told, ClosedOnce
<1> QED BY <1>7, <1>8, <1>10, <1>11, <1>12, <1>13 DEF IInv, HolderInv

\* The steps of decide_approval after take_pending keep the invariant.
LEMMA RequestStepInv ==
  ASSUME IInv, NEW d \in Decider, NEW r \in Run, NEW k \in Step,
         ReadRow(d, r, k) \/ ClaimWaiting(d, r, k) \/ ClaimFallback(d, r, k), TypeOK'
  PROVE  IInv'
<1>1. TypeOK /\ HolderInv /\ SlotFacts BY SlotsAreNumbers DEF IInv
<1>2. /\ dec[d] \in {At("taken", r, k), At("claim", r, k), At("fallback", r, k)}
      /\ dec'[d] \in {At("claim", r, k), At("fallback", r, k), Idle}
      /\ \A e \in Decider : e # d => dec'[e] = dec[e]
  BY <1>1 DEF ReadRow, ClaimWaiting, ClaimFallback, TypeOK
<1>3. UNCHANGED <<approval, steps, sweep, executed, terminal, hooks>>
  BY DEF ReadRow, ClaimWaiting, ClaimFallback, store, history
<1>4. Decides(d, r, k) BY <1>2 DEF Decides
<1>5. Awaited(r, k) /\ approval[r][k] \in Decided BY <1>1, <1>4 DEF HolderInv, OneRequest
<1>6. NoNewHolder BY <1>2, <1>3, <1>4, IdleHoldsNothing, AtIsInjective DEF NoNewHolder, Decides, Expires
<1>7. CASE UNCHANGED <<status, pc>> BY <1>3, <1>6, <1>7, QuietRequestInv DEF RequestsOnly
<1>8. ASSUME NEW to, NEW new, dec'[d] = Idle,
             (to = "resume" /\ new = "running") \/ (to = "emit" /\ new = "failed"),
             status' = [status EXCEPT ![r] = new], pc' = [pc EXCEPT ![r][k] = to]
      PROVE  IInv'
  <2>1. status'[r] = new /\ \A q \in Run : q # r => status'[q] = status[q] BY <1>1, <1>8 DEF TypeOK
  <2>2. Moved(r, k, to)
    <3>1. Move(r, k, "none", to) BY <1>5, <1>8 DEF Awaited, Move
    <3> QED BY <1>1, <3>1, MoveEffect DEF TypeOK, SlotFacts
  <2>3. \A e \in Decider : ~ Decides(e, r, k)'
    BY <1>1, <1>2, <1>4, <1>8, IdleHoldsNothing DEF HolderInv, OneRequest, Decides
  <2>4. \A w \in Sweeper : ~ Expires(w, r, k)' BY <1>1, <1>3, <1>5 DEF HolderInv, OneSweep, Expires, Decided
  <2> QED BY <1>3, <1>5, <1>6, <1>8, <2>1, <2>2, <2>3, <2>4, LeaveWaitingInv
<1>9. \/ UNCHANGED <<status, pc>>
      \/ dec'[d] = Idle /\ status' = [status EXCEPT ![r] = "running"] /\ pc' = [pc EXCEPT ![r][k] = "resume"]
      \/ dec'[d] = Idle /\ status' = [status EXCEPT ![r] = "failed"] /\ pc' = [pc EXCEPT ![r][k] = "emit"]
  BY <1>1 DEF ReadRow, ClaimWaiting, ClaimFallback, FailWaitingRun, TypeOK, store
<1>10. CASE dec'[d] = Idle /\ status' = [status EXCEPT ![r] = "running"] /\ pc' = [pc EXCEPT ![r][k] = "resume"]
  BY <1>8, <1>10
<1>11. CASE dec'[d] = Idle /\ status' = [status EXCEPT ![r] = "failed"] /\ pc' = [pc EXCEPT ![r][k] = "emit"]
  BY <1>8, <1>11
<1> QED BY <1>7, <1>9, <1>10, <1>11

\* mark_expired keeps the invariant.
LEMMA SweepMarkInv ==
  ASSUME IInv, NEW w \in Sweeper, NEW r \in Run, NEW k \in Step, SweepMark(w, r, k), TypeOK'
  PROVE  IInv'
<1>1. TypeOK /\ TaskInv /\ ApprovalInv /\ HolderInv /\ ToldInv /\ SlotFacts BY SlotsAreNumbers DEF IInv
<1>2. UNCHANGED <<status, steps, pc, dec, executed, terminal, hooks>> BY DEF SweepMark, history
<1>3. CASE approval[r][k] # "pending"
  <2>1. UNCHANGED <<approval, sweep>> BY <1>3 DEF SweepMark
  <2>2. NoNewHolder BY <1>2, <2>1 DEF NoNewHolder, Decides, Expires
  <2> QED BY <1>2, <2>1, <2>2, QuietRequestInv DEF RequestsOnly
<1>4. CASE approval[r][k] = "pending"
  <2>1. /\ approval'[r][k] = "expired"
        /\ \A q \in Run, j \in Step : q # r \/ j # k => approval'[q][j] = approval[q][j]
    BY <1>1, <1>4 DEF SweepMark, TypeOK
  <2>2. /\ sweep'[w] = At("marked", r, k)
        /\ \A v \in Sweeper : v # w => sweep'[v] = sweep[v]
    BY <1>1, <1>4 DEF SweepMark, TypeOK
  <2>3. Awaited(r, k) BY <1>1, <1>4 DEF HolderInv, Pending
  <2>4. TaskInv' BY <1>1, <1>2 DEF TaskInv, OneTask, RowOfTask, NotStarted, Busy
  <2>5. ApprovalInv'
    <3>1. Unasked'
      <4> SUFFICES ASSUME NEW q \in Run, NEW j \in Slot,
                          (Busy(q, j) /\ status[q] = "waiting") \/ pc[q][j] \in {"model", "tools", "parkRow"}
                   PROVE  steps[q] \in Step /\ approval'[q][steps[q]] = "none"
        BY <1>2 DEF Unasked, Busy
      <4>1. steps[q] \in Step /\ approval[q][steps[q]] = "none" BY <1>1 DEF ApprovalInv, Unasked
      <4> QED BY <1>4, <2>1, <4>1
    <3>2. NoLaterCall' BY <1>1, <1>2, <2>1, <2>3 DEF ApprovalInv, NoLaterCall, Awaited, SlotFacts
    <3>3. Undecided' BY <1>1, <1>2, <2>1 DEF ApprovalInv, Undecided
    <3>4. Resuming' BY <1>1, <1>2, <1>4, <2>1 DEF ApprovalInv, Resuming, Decided
    <3>5. ExecutedOnceIfApproved' BY <1>1, <1>2, <2>1, <2>3 DEF ApprovalInv, ExecutedOnceIfApproved, Awaited
    <3> QED BY <3>1, <3>2, <3>3, <3>4, <3>5 DEF ApprovalInv
  <2>6. \A q \in Run, j \in Step : Awaited(q, j) => Awaited(q, j)' BY <1>2 DEF Awaited
  <2>7. Pending' BY <1>1, <2>1, <2>6 DEF HolderInv, Pending
  <2>8. OneRequest' BY <1>1, <1>2, <1>4, <2>1, <2>6 DEF HolderInv, OneRequest, Decides, Decided
  <2>9. OneSweep'
    <3>1. \A v \in Sweeper, q \in Run, j \in Step : Expires(v, q, j)' =>
            (v = w /\ q = r /\ j = k) \/ (v # w /\ Expires(v, q, j) /\ (q # r \/ j # k))
      <4>1. \A v \in Sweeper : ~ Expires(v, r, k) BY <1>1, <1>4 DEF HolderInv, OneSweep
      <4> QED BY <2>2, <4>1, AtIsInjective DEF Expires
    <3>2. \A v \in Sweeper, q \in Run, j \in Step : Expires(v, q, j)' => Awaited(q, j)' /\ approval'[q][j] = "expired"
      BY <1>1, <2>1, <2>3, <2>6, <3>1 DEF HolderInv, OneSweep
    <3>3. \A v, u \in Sweeper, q \in Run, j \in Step : Expires(v, q, j)' /\ Expires(u, q, j)' => v = u
      BY <1>1, <3>1 DEF HolderInv, OneSweep
    <3> QED BY <3>2, <3>3 DEF OneSweep
  <2>10. ToldInv' BY <1>1, <1>2 DEF ToldInv, Told, ClosedOnce
  <2> QED BY <2>4, <2>5, <2>7, <2>8, <2>9, <2>10 DEF IInv, HolderInv
<1> QED BY <1>3, <1>4

\* The sweep's fail_waiting_run keeps the invariant: the run still waits on the
\* approval the sweep expired.
LEMMA SweepFailInv ==
  ASSUME IInv, NEW w \in Sweeper, NEW r \in Run, NEW k \in Step, SweepFail(w, r, k), TypeOK'
  PROVE  IInv'
<1>1. TypeOK /\ HolderInv /\ SlotFacts BY SlotsAreNumbers DEF IInv
<1>2. /\ sweep[w] = At("marked", r, k) /\ sweep'[w] = At("tail", r, k)
      /\ \A v \in Sweeper : v # w => sweep'[v] = sweep[v]
  BY <1>1 DEF SweepFail, TypeOK
<1>3. UNCHANGED <<approval, steps, dec, executed, terminal, hooks>> BY DEF SweepFail, history
<1>4. Awaited(r, k) /\ approval[r][k] = "expired" BY <1>1, <1>2 DEF HolderInv, OneSweep, Expires
<1>5. NoNewHolder BY <1>2, <1>3, AtIsInjective DEF NoNewHolder, Decides, Expires
<1>6. CASE UNCHANGED <<status, pc>> BY <1>3, <1>5, <1>6, QuietRequestInv DEF RequestsOnly
<1>7. CASE status' = [status EXCEPT ![r] = "failed"] /\ pc' = [pc EXCEPT ![r][k] = "emit"]
  <2>1. status'[r] = "failed" /\ \A q \in Run : q # r => status'[q] = status[q] BY <1>1, <1>7 DEF TypeOK
  <2>2. Moved(r, k, "emit")
    <3>1. Move(r, k, "none", "emit") BY <1>4, <1>7 DEF Awaited, Move
    <3> QED BY <1>1, <3>1, MoveEffect DEF TypeOK, SlotFacts
  <2>3. \A v \in Sweeper : ~ Expires(v, r, k)'
    BY <1>1, <1>2, AtIsInjective DEF HolderInv, OneSweep, Expires
  <2>4. \A d \in Decider : ~ Decides(d, r, k)' BY <1>1, <1>3, <1>4 DEF HolderInv, OneRequest, Decides, Decided
  <2> QED BY <1>3, <1>4, <1>5, <2>1, <2>2, <2>3, <2>4, LeaveWaitingInv
<1> QED BY <1>6, <1>7 DEF SweepFail, FailWaitingRun

\* Stop requests, ageing and the bookkeeping of a sweep keep the invariant.
LEMMA BesideInv ==
  ASSUME IInv, TypeOK',
         \/ \E r \in Run : StopCheck(r) \/ StopInsert(r)
         \/ \E r \in Run, k \in Step : Age(r, k)
         \/ \E w \in Sweeper : SweepList(w) \/ SweepDone(w) \/ \E r \in Run, k \in Step : SweepNextRow(w, r, k)
         \/ UNCHANGED vars
  PROVE  IInv'
<1>1. RequestsOnly /\ dec' = dec
  BY DEF RequestsOnly, StopCheck, StopInsert, Age, SweepList, SweepDone, SweepNextRow, store, requests, history, vars
<1>2. sweep' = sweep \/ \E w \in Sweeper : sweep' = [sweep EXCEPT ![w] = Rows] \/ sweep' = [sweep EXCEPT ![w] = Idle]
  BY DEF StopCheck, StopInsert, Age, SweepList, SweepDone, SweepNextRow, requests, vars
<1>3. sweep \in [Sweeper -> SweeperState] BY DEF IInv, TypeOK
<1>4. NoNewHolder BY <1>1, <1>2, <1>3, IdleHoldsNothing DEF NoNewHolder, Decides, Expires
<1> QED BY <1>1, <1>4, QuietRequestInv

\* A crash keeps the invariant: rows stay, nobody works on them any more.
LEMMA CrashInv ==
  ASSUME IInv, Crash, TypeOK'
  PROVE  IInv'
<1>1. TypeOK /\ TaskInv /\ ApprovalInv /\ HolderInv /\ ToldInv /\ SlotFacts BY SlotsAreNumbers DEF IInv
<1>2. UNCHANGED <<status, approval, steps, executed, terminal, hooks>> BY DEF Crash, store, history
<1>3. \A q \in Run, j \in Slot :
        /\ pc'[q][j] \in {"none", "ended"}
        /\ pc'[q][j] = "none" <=> pc[q][j] = "none"
  BY DEF Crash
<1>4. \A q \in Run, j \in Slot : ~ Busy(q, j)' BY <1>3 DEF Busy, Turning, Closing
<1>5. TaskInv' BY <1>1, <1>2, <1>3, <1>4 DEF TaskInv, OneTask, RowOfTask, NotStarted, Turning, SlotFacts
<1>6. ApprovalInv'
  <2>1. Unasked' BY <1>3, <1>4 DEF Unasked
  <2> QED BY <1>1, <1>2, <1>3, <2>1 DEF ApprovalInv, NoLaterCall, Undecided, Resuming, ExecutedOnceIfApproved, SlotFacts
<1>7. \A q \in Run, j \in Step : Awaited(q, j) => Awaited(q, j)' BY <1>1, <1>2, <1>3 DEF Awaited, SlotFacts
<1>8. Pending' BY <1>1, <1>2, <1>7 DEF HolderInv, Pending
<1>9. \A d \in Decider, q \in Run, j \in Step : ~ Decides(d, q, j)' BY IdleHoldsNothing DEF Crash, Decides
<1>10. \A w \in Sweeper, q \in Run, j \in Step : ~ Expires(w, q, j)' BY IdleHoldsNothing DEF Crash, Expires
<1>11. OneRequest' /\ OneSweep' BY <1>9, <1>10 DEF OneRequest, OneSweep
<1>12. ToldInv' BY <1>1, <1>2, <1>3 DEF ToldInv, Told, ClosedOnce, Turning, SlotFacts
<1> QED BY <1>5, <1>6, <1>8, <1>11, <1>12 DEF IInv, HolderInv

\* Assigning a value of the range keeps the type of a function (a row update).
LEMMA SetType ==
  ASSUME NEW S, NEW V, NEW f \in [S -> V], NEW x, NEW v \in V
  PROVE  [f EXCEPT ![x] = v] \in [S -> V]
OBVIOUS

\* The same for a function of functions (a row per run and call).
LEMMA SetType2 ==
  ASSUME NEW S, NEW T, NEW V, NEW f \in [S -> [T -> V]], NEW x \in S, NEW y, NEW v \in V
  PROVE  [f EXCEPT ![x][y] = v] \in [S -> [T -> V]]
<1>1. [f[x] EXCEPT ![y] = v] \in [T -> V] OBVIOUS
<1> QED BY <1>1

\* A task that moves stays within the places of the code.
LEMMA MoveType ==
  ASSUME pc \in [Run -> [Slot -> TaskPC]], NEW r \in Run, NEW k \in Slot, NEW from, NEW to \in TaskPC,
         Move(r, k, from, to)
  PROVE  pc' \in [Run -> [Slot -> TaskPC]]
BY SetType2 DEF Move

\* Every step of a task keeps the type invariant.
LEMMA TaskType ==
  ASSUME TypeOK, NEW r \in Run, NEW k \in Slot, TaskStep(r, k)
  PROVE  TypeOK'
<1> USE DEF TypeOK, store, requests, history
<1>0. {"ended", "parkApproval", "announce", "turn", "model", "tools", "saveDone", "saveFailed", "parkRow",
       "emit", "hook", "abort", "finish"} \subseteq TaskPC
  BY DEF TaskPC, Turning, Closing
<1>1. CASE Turn(r, k)
  <2>1. steps' \in [Run -> Slot]
    <3>1. CASE steps' = steps BY <3>1
    <3>2. CASE steps[r] < MaxSteps /\ steps' = [steps EXCEPT ![r] = @ + 1]
      <4>1. steps[r] + 1 \in Slot BY <3>2, SlotsAreNumbers DEF SlotFacts
      <4> QED BY <3>2, <4>1, SetType
    <3> QED BY <1>1, <3>1, <3>2 DEF Turn
  <2>2. pc' \in [Run -> [Slot -> TaskPC]] BY <1>0, <1>1, MoveType DEF Turn
  <2>3. stopping' \subseteq Run BY <1>1 DEF Turn
  <2> QED BY <1>1, <2>1, <2>2, <2>3 DEF Turn
<1>2. CASE ModelReply(r, k) BY <1>0, <1>2, MoveType DEF ModelReply
<1>3. CASE ToolBatch(r, k) BY <1>0, <1>3, MoveType DEF ToolBatch
<1>4. CASE SettleRow(r, k)
  <2>1. pc' \in [Run -> [Slot -> TaskPC]] BY <1>0, <1>4, MoveType DEF SettleRow
  <2>2. status' \in [Run -> RowStatus] BY <1>4 DEF SettleRow, RowStatus, Over
  <2> QED BY <1>4, <2>1, <2>2 DEF SettleRow, Refused
<1>5. CASE EmitTerminal(r, k) BY <1>0, <1>5, MoveType DEF EmitTerminal
<1>6. CASE RunHook(r, k) BY <1>0, <1>6, MoveType DEF RunHook
<1>7. CASE Finish(r, k) BY <1>0, <1>7, MoveType DEF Finish
<1>8. CASE ParkRow(r, k)
  <2>1. pc' \in [Run -> [Slot -> TaskPC]] BY <1>0, <1>8, MoveType DEF ParkRow
  <2>2. status' \in [Run -> RowStatus] BY <1>8 DEF ParkRow, RowStatus
  <2> QED BY <1>8, <2>1, <2>2 DEF ParkRow, Refused
<1>9. CASE ParkApproval(r, k)
  <2>1. "pending" \in ApprovalStatus BY DEF ApprovalStatus
  <2>2. approval' \in [Run -> [Step -> ApprovalStatus]]
    <3>1. approval \in [Run -> [Step -> ApprovalStatus]] OBVIOUS
    <3> HIDE DEF TypeOK
    <3> DEFINE k0 == steps[r]
    <3>2. approval' = approval \/ approval' = [approval EXCEPT ![r][k0] = "pending"] BY <1>9 DEF ParkApproval
    <3> HIDE DEF k0
    <3>3. [approval EXCEPT ![r][k0] = "pending"] \in [Run -> [Step -> ApprovalStatus]]
      BY <2>1, <3>1, SetType2
    <3> QED BY <3>1, <3>2, <3>3
  <2>3. pc' \in [Run -> [Slot -> TaskPC]] BY <1>0, <1>9, MoveType DEF ParkApproval
  <2> QED BY <1>9, <2>2, <2>3 DEF ParkApproval, Refused
<1>10. CASE Announce(r, k) BY <1>0, <1>10, MoveType DEF Announce
<1> QED BY <1>1, <1>2, <1>3, <1>4, <1>5, <1>6, <1>7, <1>8, <1>9, <1>10 DEF TaskStep

\* The places a decide_approval or a sweep_approvals can be at.
LEMMA RequestStates ==
  /\ Idle \in DeciderState /\ Idle \in SweeperState /\ Rows \in SweeperState
  /\ \A r \in Run, k \in Step :
       /\ At("taken", r, k) \in DeciderState /\ At("claim", r, k) \in DeciderState
       /\ At("fallback", r, k) \in DeciderState
       /\ At("marked", r, k) \in SweeperState /\ At("tail", r, k) \in SweeperState
BY DEF DeciderState, SweeperState, Holding, At

\* Every step that is not a step of a task keeps the type invariant.
LEMMA OtherType ==
  ASSUME TypeOK, Next, ~ \E r \in Run, k \in Slot : TaskStep(r, k)
  PROVE  TypeOK'
<1> USE DEF TypeOK
<1>0. /\ {"none", "ended", "resume", "turn", "emit"} \subseteq TaskPC
      /\ {"running", "failed"} \subseteq RowStatus
      /\ Decided \cup {"expired"} \subseteq ApprovalStatus
      /\ SlotFacts
  BY SlotsAreNumbers DEF TaskPC, Turning, Closing, RowStatus, Over, ApprovalStatus
<1>1. ASSUME NEW r \in Run, Start(r) PROVE TypeOK'
  <2>1. pc' \in [Run -> [Slot -> TaskPC]] BY <1>0, <1>1, MoveType DEF Start, SlotFacts
  <2>2. status' \in [Run -> RowStatus] BY <1>0, <1>1 DEF Start
  <2>3. terminal' \in [Run -> Nat]
    <3>1. terminal[r] + 1 \in Nat OBVIOUS
    <3> QED BY <1>1, <3>1, SetType DEF Start
  <2> QED BY <1>1, <2>1, <2>2, <2>3 DEF Start, requests
<1>2. ASSUME NEW r \in Run, StopCheck(r) \/ StopInsert(r) PROVE TypeOK'
  BY <1>2 DEF StopCheck, StopInsert, store, history
<1>3. ASSUME NEW r \in Run, NEW k \in Step, Resume(r, k) PROVE TypeOK'
  <2>1. pc' \in [Run -> [Slot -> TaskPC]] BY <1>0, <1>3, MoveType DEF Resume, SlotFacts
  <2>2. executed' \in [Run -> [Step -> Nat]]
    <3>1. CASE executed' = [executed EXCEPT ![r][k] = @ + 1]
      <4>1. [executed[r] EXCEPT ![k] = @ + 1] \in [Step -> Nat] OBVIOUS
      <4> QED BY <3>1, <4>1
    <3> QED BY <1>3, <3>1 DEF Resume
  <2> QED BY <1>3, <2>1, <2>2 DEF Resume, store, requests
<1>4. ASSUME NEW r \in Run, NEW k \in Step, Age(r, k) PROVE TypeOK'
  BY <1>4 DEF Age, store, requests, history
<1>5. ASSUME NEW d \in Decider, NEW r \in Run, NEW k \in Step, NEW verdict \in Decided,
             TakePending(d, r, k, verdict)
      PROVE  TypeOK'
  <2>1. approval' \in [Run -> [Step -> ApprovalStatus]] BY <1>0, <1>5 DEF TakePending
  <2>2. dec' \in [Decider -> DeciderState] BY <1>5, RequestStates DEF TakePending
  <2> QED BY <1>5, <2>1, <2>2 DEF TakePending, history
<1>6. ASSUME NEW d \in Decider, NEW r \in Run, NEW k \in Step,
             ReadRow(d, r, k) \/ ClaimWaiting(d, r, k) \/ ClaimFallback(d, r, k)
      PROVE  TypeOK'
  <2>1. dec' \in [Decider -> DeciderState]
    <3>1. dec' = dec \/ \E x \in {At("claim", r, k), At("fallback", r, k), Idle} : dec' = [dec EXCEPT ![d] = x]
      BY <1>6 DEF ReadRow, ClaimWaiting, ClaimFallback
    <3>2. \A x \in {At("claim", r, k), At("fallback", r, k), Idle} : [dec EXCEPT ![d] = x] \in [Decider -> DeciderState]
      BY RequestStates, SetType
    <3> QED BY <3>1, <3>2
  <2>2. status' \in [Run -> RowStatus]
    BY <1>0, <1>6 DEF ReadRow, ClaimWaiting, ClaimFallback, FailWaitingRun, store
  <2>3. pc' \in [Run -> [Slot -> TaskPC]]
    <3>1. pc' = pc \/ \E x \in {"resume", "emit"} : pc' = [pc EXCEPT ![r][k] = x]
      BY <1>6 DEF ReadRow, ClaimWaiting, ClaimFallback, FailWaitingRun
    <3>2. ASSUME NEW x \in {"resume", "emit"} PROVE [pc EXCEPT ![r][k] = x] \in [Run -> [Slot -> TaskPC]]
      <4>1. x \in TaskPC /\ pc \in [Run -> [Slot -> TaskPC]] /\ k \in Slot BY <1>0 DEF SlotFacts
      <4> HIDE DEF TypeOK
      <4> QED BY <4>1, SetType2
    <3>3. pc \in [Run -> [Slot -> TaskPC]] OBVIOUS
    <3> HIDE DEF TypeOK
    <3> QED BY <3>1, <3>2, <3>3
  <2>4. cut' \subseteq Run BY <1>6 DEF ReadRow, ClaimWaiting, ClaimFallback, FailWaitingRun, Refused, history
  <2> QED BY <1>6, <2>1, <2>2, <2>3, <2>4 DEF ReadRow, ClaimWaiting, ClaimFallback, store, history
<1>7. ASSUME NEW w \in Sweeper, SweepList(w) \/ SweepDone(w) PROVE TypeOK'
  <2>1. sweep' \in [Sweeper -> SweeperState] BY <1>7, RequestStates DEF SweepList, SweepDone
  <2>2. todo' \in [Sweeper -> SUBSET (Run \X Step)]
    <3> DEFINE found == {a \in aged : approval[a[1]][a[2]] = "pending"}
    <3>1. todo \in [Sweeper -> SUBSET (Run \X Step)] /\ found \in SUBSET (Run \X Step) OBVIOUS
    <3>2. todo' = todo \/ todo' = [todo EXCEPT ![w] = found] BY <1>7 DEF SweepList, SweepDone
    <3> HIDE DEF TypeOK, found
    <3> QED BY <3>1, <3>2, SetType
  <2> QED BY <1>7, <2>1, <2>2 DEF SweepList, SweepDone, store, history
<1>8. ASSUME NEW w \in Sweeper, NEW r \in Run, NEW k \in Step, SweepMark(w, r, k) PROVE TypeOK'
  <2>1. sweep' \in [Sweeper -> SweeperState]
    <3>1. [sweep EXCEPT ![w] = At("marked", r, k)] \in [Sweeper -> SweeperState] BY RequestStates, SetType
    <3> QED BY <1>8, <3>1 DEF SweepMark
  <2>2. todo' \in [Sweeper -> SUBSET (Run \X Step)] BY <1>8 DEF SweepMark
  <2>3. approval' \in [Run -> [Step -> ApprovalStatus]]
    <3>1. approval \in [Run -> [Step -> ApprovalStatus]] OBVIOUS
    <3> HIDE DEF TypeOK
    <3>2. [approval EXCEPT ![r][k] = "expired"] \in [Run -> [Step -> ApprovalStatus]] BY <1>0, <3>1, SetType2
    <3>3. approval' = approval \/ approval' = [approval EXCEPT ![r][k] = "expired"] BY <1>8 DEF SweepMark
    <3> QED BY <3>1, <3>2, <3>3
  <2> QED BY <1>8, <2>1, <2>2, <2>3 DEF SweepMark, history
<1>9. ASSUME NEW w \in Sweeper, NEW r \in Run, NEW k \in Step, SweepFail(w, r, k) \/ SweepNextRow(w, r, k)
      PROVE  TypeOK'
  <2>1. sweep' \in [Sweeper -> SweeperState]
    <3>1. \E x \in {At("tail", r, k), Rows} : sweep' = [sweep EXCEPT ![w] = x]
      BY <1>9 DEF SweepFail, SweepNextRow
    <3>2. \A x \in {At("tail", r, k), Rows} : [sweep EXCEPT ![w] = x] \in [Sweeper -> SweeperState]
      BY RequestStates, SetType
    <3> QED BY <3>1, <3>2
  <2>2. status' \in [Run -> RowStatus] BY <1>0, <1>9 DEF SweepFail, FailWaitingRun, SweepNextRow, store
  <2>3. pc' \in [Run -> [Slot -> TaskPC]]
    <3>1. [pc EXCEPT ![r][k] = "emit"] \in [Run -> [Slot -> TaskPC]] BY <1>0, SetType2
    <3> QED BY <1>9, <3>1 DEF SweepFail, FailWaitingRun, SweepNextRow
  <2>4. cut' \subseteq Run BY <1>9 DEF SweepFail, SweepNextRow, FailWaitingRun, Refused, history
  <2> QED BY <1>9, <2>1, <2>2, <2>3, <2>4 DEF SweepFail, SweepNextRow, store, history
<1>10. ASSUME Crash PROVE TypeOK'
  BY <1>0, <1>10, RequestStates DEF Crash, store, history
<1> QED BY <1>1, <1>2, <1>3, <1>4, <1>5, <1>6, <1>7, <1>8, <1>9, <1>10 DEF Next, DecideStep, SweepStep

\* A server that has started no run satisfies the invariant.
LEMMA InitInv == Init => IInv
<1> SUFFICES ASSUME Init PROVE IInv OBVIOUS
<1>1. SlotFacts BY SlotsAreNumbers
<1>2. TypeOK
  BY <1>1 DEF Init, TypeOK, RowStatus, ApprovalStatus, TaskPC, DeciderState, SweeperState, SlotFacts
<1>3. \A r \in Run, j \in Slot : pc[r][j] = "none" /\ ~ Busy(r, j) BY DEF Init, Busy, Turning, Closing
<1>4. TaskInv BY <1>1, <1>3 DEF Init, TaskInv, OneTask, RowOfTask, NotStarted, Turning
<1>5. ApprovalInv
  BY <1>1, <1>3 DEF Init, ApprovalInv, Unasked, NoLaterCall, Undecided, Resuming, ExecutedOnceIfApproved, SlotFacts
<1>6. HolderInv BY IdleHoldsNothing DEF Init, HolderInv, Pending, OneRequest, OneSweep, Decides, Expires
<1>7. ToldInv BY <1>3 DEF Init, ToldInv, Told, ClosedOnce, Turning
<1> QED BY <1>2, <1>4, <1>5, <1>6, <1>7 DEF IInv

\* Every step of the system keeps the type invariant.
LEMMA TypeNext == TypeOK /\ [Next]_vars => TypeOK'
<1> SUFFICES ASSUME TypeOK, [Next]_vars PROVE TypeOK' OBVIOUS
<1>1. CASE UNCHANGED vars BY <1>1 DEF TypeOK, vars
<1>2. CASE \E r \in Run, k \in Slot : TaskStep(r, k) BY <1>2, TaskType
<1>3. CASE Next /\ ~ \E r \in Run, k \in Slot : TaskStep(r, k) BY <1>3, OtherType
<1> QED BY <1>1, <1>2, <1>3

\* Every step of the system keeps the inductive invariant.
LEMMA NextInv == IInv /\ [Next]_vars => IInv'
<1> SUFFICES ASSUME IInv, [Next]_vars PROVE IInv' OBVIOUS
<1>0. TypeOK' BY TypeNext DEF IInv
<1>1. ASSUME NEW r \in Run, NEW k \in Slot, TaskStep(r, k) PROVE IInv'
  BY <1>0, <1>1, TurnInv, AnswerInv, SettleRowInv, TailInv, ParkRowInv, ParkApprovalInv, AnnounceInv DEF TaskStep
<1>2. ASSUME NEW r \in Run, Start(r) PROVE IInv' BY <1>0, <1>2, StartInv
<1>3. ASSUME NEW r \in Run, NEW k \in Step, Resume(r, k) PROVE IInv' BY <1>0, <1>3, ResumeInv
<1>4. ASSUME NEW d \in Decider, NEW r \in Run, NEW k \in Step, NEW verdict \in Decided, TakePending(d, r, k, verdict)
      PROVE  IInv'
  BY <1>0, <1>4, TakePendingInv
<1>5. ASSUME NEW d \in Decider, DecideStep(d) PROVE IInv' BY <1>0, <1>5, RequestStepInv DEF DecideStep
<1>6. ASSUME NEW w \in Sweeper, SweepStep(w) PROVE IInv'
  BY <1>0, <1>6, SweepMarkInv, SweepFailInv, BesideInv DEF SweepStep
<1>7. ASSUME NEW r \in Run, StopCheck(r) \/ StopInsert(r) PROVE IInv' BY <1>0, <1>7, BesideInv
<1>8. ASSUME NEW r \in Run, NEW k \in Step, Age(r, k) PROVE IInv' BY <1>0, <1>8, BesideInv
<1>9. CASE Crash BY <1>0, <1>9, CrashInv
<1>10. CASE UNCHANGED vars BY <1>0, <1>10, BesideInv
<1> QED BY <1>1, <1>2, <1>3, <1>4, <1>5, <1>6, <1>7, <1>8, <1>9, <1>10 DEF Next

\* At any moment a run is in one pair of hands: the one task that drives it, or
\* the one approval it waits on and the one request at work on that approval.
THEOREM InductiveInvariant == Spec => []IInv
BY InitInv, NextInv, PTL DEF Spec

\* Rows, approvals, tasks, requests and counters stay within their types.
THEOREM TypeCorrect == Spec => []TypeOK
BY InitInv, TypeNext, PTL DEF Spec, IInv

\* The safety properties of RunLifecycle are parts of the invariant.
LEMMA InvImplies == IInv => OneDriver /\ ExecutedOnceIfApproved /\ ClosedOnce
BY DEF IInv, TaskInv, OneTask, RowOfTask, Busy, OneDriver, Driving, ApprovalInv, ToldInv

\* No two tasks ever drive the same run, and while one does the row says so:
\* the unconditional UPDATEs of settle and park never overwrite a row that a
\* decision or the sweep moved on.
THEOREM SafetyOneDriver == Spec => []OneDriver
BY InductiveInvariant, InvImplies, PTL

\* A gated call runs at most once and only if it was approved, however decisions,
\* sweeps, retries and crashes interleave.
THEOREM SafetyExecuted == Spec => []ExecutedOnceIfApproved
BY InductiveInvariant, InvImplies, PTL

\* One terminal event and at most one hook per run (settle and the two callers of
\* fail_waiting_run never both close it).
THEOREM SafetyClosed == Spec => []ClosedOnce
BY InductiveInvariant, InvImplies, PTL

\* What one step can do to the store: nothing, move the row of one run that is
\* not over, or move one approval that is not decided yet.
LEMMA StoreStep ==
  ASSUME IInv, [Next]_vars
  PROVE  \/ UNCHANGED store
         \/ \E r \in Run : /\ status[r] \notin Over /\ status' = [status EXCEPT ![r] = status'[r]]
                          /\ approval' = approval
         \/ \E r \in Run, k \in Step :
              /\ approval[r][k] \in {"none", "pending"}
              /\ approval' = [approval EXCEPT ![r][k] = approval'[r][k]]
              /\ status' = status
<1>0. TypeOK /\ TaskInv /\ ApprovalInv BY DEF IInv
<1> DEFINE RowMoves(r) == /\ status[r] \notin Over /\ status' = [status EXCEPT ![r] = status'[r]]
                          /\ approval' = approval
           CallMoves(r, k) == /\ approval[r][k] \in {"none", "pending"}
                              /\ approval' = [approval EXCEPT ![r][k] = approval'[r][k]]
                              /\ status' = status
<1>1. ASSUME NEW r \in Run, NEW k \in Slot, TaskStep(r, k)
      PROVE  UNCHANGED store \/ RowMoves(r) \/ \E j \in Step : CallMoves(r, j)
  <2>1. CASE Turn(r, k) \/ ModelReply(r, k) \/ ToolBatch(r, k) \/ EmitTerminal(r, k) \/ RunHook(r, k)
             \/ Finish(r, k) \/ Announce(r, k)
    BY <2>1 DEF Turn, ModelReply, ToolBatch, EmitTerminal, RunHook, Finish, Announce
  <2>2. CASE SettleRow(r, k) \/ ParkRow(r, k)
    <3>1. pc[r][k] \in Turning BY <2>2 DEF SettleRow, ParkRow, Move, Turning
    <3>2. status[r] \notin Over BY <1>0, <3>1 DEF TaskInv, RowOfTask, Over
    <3> QED BY <1>0, <2>2, <3>2 DEF SettleRow, ParkRow, TypeOK, store
  <2>3. CASE ParkApproval(r, k)
    <3>1. pc[r][k] = "parkApproval" /\ status' = status BY <2>3 DEF ParkApproval, Move
    <3>2. steps[r] \in Step /\ approval[r][steps[r]] = "none"
      BY <1>0, <3>1 DEF TaskInv, RowOfTask, ApprovalInv, Unasked, Busy
    <3>3. approval' = approval \/ approval' = [approval EXCEPT ![r][steps[r]] = "pending"]
      BY <2>3 DEF ParkApproval
    <3>4. CASE approval' = [approval EXCEPT ![r][steps[r]] = "pending"]
      <4>1. approval'[r][steps[r]] = "pending" BY <1>0, <3>2, <3>4 DEF TypeOK
      <4> QED BY <3>1, <3>2, <3>4, <4>1
    <3> QED BY <3>1, <3>3, <3>4 DEF store
  <2> QED BY <1>1, <2>1, <2>2, <2>3 DEF TaskStep
<1>2. ASSUME NEW r \in Run, Start(r) PROVE UNCHANGED store \/ RowMoves(r)
  BY <1>0, <1>2 DEF Start, TypeOK, store, Over
<1>3. ASSUME NEW r \in Run, StopCheck(r) \/ StopInsert(r) PROVE UNCHANGED store
  BY <1>3 DEF StopCheck, StopInsert
<1>4. ASSUME NEW r \in Run, NEW k \in Step, Resume(r, k) \/ Age(r, k) PROVE UNCHANGED store
  BY <1>4 DEF Resume, Age
<1>5. ASSUME NEW d \in Decider, NEW r \in Run, NEW k \in Step, NEW verdict \in Decided, TakePending(d, r, k, verdict)
      PROVE  CallMoves(r, k)
  <2>1. approval' = [approval EXCEPT ![r][k] = verdict] /\ approval[r][k] = "pending" /\ status' = status
    BY <1>5 DEF TakePending
  <2>2. approval'[r][k] = verdict BY <1>0, <2>1 DEF TypeOK
  <2> QED BY <2>1, <2>2
<1>6. ASSUME NEW d \in Decider, NEW r \in Run, NEW k \in Step,
             ReadRow(d, r, k) \/ ClaimWaiting(d, r, k) \/ ClaimFallback(d, r, k)
      PROVE  UNCHANGED store \/ RowMoves(r)
  BY <1>0, <1>6 DEF ReadRow, ClaimWaiting, ClaimFallback, FailWaitingRun, TypeOK, store, Over
<1>7. ASSUME NEW w \in Sweeper, NEW r \in Run, NEW k \in Step, SweepMark(w, r, k)
      PROVE  UNCHANGED store \/ CallMoves(r, k)
  <2>1. CASE approval[r][k] # "pending" BY <1>7, <2>1 DEF SweepMark, store
  <2>2. CASE approval[r][k] = "pending"
    <3>1. approval' = [approval EXCEPT ![r][k] = "expired"] /\ status' = status BY <1>7, <2>2 DEF SweepMark
    <3>2. approval'[r][k] = "expired" BY <1>0, <3>1 DEF TypeOK
    <3> QED BY <2>2, <3>1, <3>2
  <2> QED BY <2>1, <2>2
<1>8. ASSUME NEW w \in Sweeper, NEW r \in Run, NEW k \in Step, SweepFail(w, r, k) \/ SweepNextRow(w, r, k)
      PROVE  UNCHANGED store \/ RowMoves(r)
  BY <1>0, <1>8 DEF SweepFail, SweepNextRow, FailWaitingRun, TypeOK, store, Over
<1>9. ASSUME NEW w \in Sweeper, SweepList(w) \/ SweepDone(w) PROVE UNCHANGED store
  BY <1>9 DEF SweepList, SweepDone
<1> DEFINE Goal == UNCHANGED store \/ (\E r \in Run : RowMoves(r)) \/ \E r \in Run, k \in Step : CallMoves(r, k)
<1> HIDE DEF RowMoves, CallMoves
<1>11. ASSUME \E r \in Run : Start(r) \/ StopCheck(r) \/ StopInsert(r) PROVE Goal BY <1>2, <1>3, <1>11
<1>12. ASSUME \E r \in Run, k \in Slot : TaskStep(r, k) PROVE Goal BY <1>1, <1>12
<1>13. ASSUME \E d \in Decider, r \in Run, k \in Step, verdict \in Decided : TakePending(d, r, k, verdict) PROVE Goal
  BY <1>5, <1>13
<1>14. ASSUME \E d \in Decider : DecideStep(d) PROVE Goal BY <1>6, <1>14 DEF DecideStep
<1>15. ASSUME \E w \in Sweeper : SweepStep(w) PROVE Goal BY <1>7, <1>8, <1>9, <1>15 DEF SweepStep
<1>16. ASSUME \E r \in Run, k \in Step : Resume(r, k) \/ Age(r, k) PROVE Goal BY <1>4, <1>16
<1>17. ASSUME Crash \/ UNCHANGED vars PROVE Goal BY <1>17 DEF Crash, vars, store
<1>18. Goal BY <1>17, <1>11, <1>12, <1>13, <1>14, <1>15, <1>16 DEF Next
<1> QED BY <1>18 DEF RowMoves, CallMoves

\* A run that is over stays as it ended and a decided approval stays as it was
\* decided, whatever is still in flight.
THEOREM FinalStays == Spec => Final
<1> DEFINE Stays == \A r \in Run :
        /\ status[r] \in Over => status'[r] = status[r]
        /\ \A k \in Step :
             approval[r][k] \in Decided \cup {"expired"} => approval'[r][k] = approval[r][k]
<1>1. IInv /\ [Next]_vars => [Stays]_vars
  <2> SUFFICES ASSUME IInv, [Next]_vars PROVE Stays OBVIOUS
  <2>0. TypeOK BY DEF IInv
  <2>1. CASE UNCHANGED store BY <2>1 DEF store
  <2>2. ASSUME NEW r \in Run, status[r] \notin Over, status' = [status EXCEPT ![r] = status'[r]], approval' = approval
        PROVE  Stays
    BY <2>0, <2>2 DEF TypeOK
  <2>3. ASSUME NEW r \in Run, NEW k \in Step, approval[r][k] \in {"none", "pending"},
               approval' = [approval EXCEPT ![r][k] = approval'[r][k]], status' = status
        PROVE  Stays
    <3>1. \A q \in Run, j \in Step : q # r \/ j # k => approval'[q][j] = approval[q][j]
      BY <2>0, <2>3 DEF TypeOK
    <3> QED BY <2>3, <3>1 DEF Decided
  <2> QED BY <2>1, <2>2, <2>3, StoreStep
<1> QED BY <1>1, InductiveInvariant, PTL DEF Spec, Final

-----------------------------------------------------------------------------
(***************************************************************************)
(* RunLifecycle implements RunPromise under the mapping phaseBar, callBar: *)
(* every step of the code is a step of the promise or a stutter.           *)
(***************************************************************************)


\* What phaseBar says of a row.
LEMMA PhaseValues ==
  ASSUME NEW r \in Run
  PROVE  /\ status[r] = "absent" => PhaseOf(r) = "absent"
         /\ status[r] \in Over => PhaseOf(r) = "over"
         /\ status[r] = "running" => PhaseOf(r) = "working"
         /\ status[r] = "waiting" =>
              PhaseOf(r) = IF steps[r] \in Step /\ approval[r][steps[r]] # "none" THEN "blocked" ELSE "working"
BY DEF PhaseOf, Over

\* What callBar says of an approvals row.
LEMMA CallValues ==
  ASSUME NEW r \in Run, NEW k \in Step, executed[r][k] = 0
  PROVE  /\ approval[r][k] = "none" => CallOf(r, k) = "unasked"
         /\ approval[r][k] = "pending" <=> CallOf(r, k) = "asked"
         /\ approval[r][k] = "approved" => CallOf(r, k) = "granted"
         /\ approval[r][k] \in {"rejected", "expired"} => CallOf(r, k) = "refused"
BY DEF CallOf

\* A run whose row and whose approvals stay is in the phase it was in; the step
\* counter only counts while it waits.
LEMMA SamePhase ==
  ASSUME NEW r \in Run, UNCHANGED <<status[r], approval[r]>>, steps'[r] = steps[r] \/ status[r] # "waiting"
  PROVE  PhaseOf(r)' = PhaseOf(r)
BY DEF PhaseOf

\* A call whose approvals row and whose executions stay is as it was.
LEMMA SameCall ==
  ASSUME NEW r \in Run, NEW k \in Step, UNCHANGED <<approval[r][k], executed[r][k]>>
  PROVE  CallOf(r, k)' = CallOf(r, k)
BY DEF CallOf

\* A step that moves one run is one assignment to the abstract phase.
LEMMA PhaseStep ==
  ASSUME NEW r \in Run, \A q \in Run : q # r => PhaseOf(q)' = PhaseOf(q)
  PROVE  phaseBar' = [phaseBar EXCEPT ![r] = PhaseOf(r)']
BY DEF phaseBar

\* A step that moves one call is one assignment to the abstract call.
LEMMA CallStep ==
  ASSUME NEW r \in Run, NEW k \in Step,
         \A q \in Run, j \in Step : q # r \/ j # k => CallOf(q, j)' = CallOf(q, j)
  PROVE  callBar' = [callBar EXCEPT ![r][k] = CallOf(r, k)']
BY DEF callBar

\* Calls that all stay leave the abstract variable as it is.
LEMMA SameCalls ==
  ASSUME \A q \in Run, j \in Step : CallOf(q, j)' = CallOf(q, j)
  PROVE  callBar' = callBar
BY DEF callBar

\* Runs that all stay leave the abstract variable as it is.
LEMMA SamePhases ==
  ASSUME \A q \in Run : PhaseOf(q)' = PhaseOf(q)
  PROVE  phaseBar' = phaseBar
BY DEF phaseBar

\* A server that has started no run is where RunPromise begins.
LEMMA InitPromise == Init => Promise!PromiseInit
<1> SUFFICES ASSUME Init PROVE Promise!PromiseInit OBVIOUS
<1>1. \A r \in Run : PhaseOf(r) = "absent" BY PhaseValues DEF Init
<1>2. \A r \in Run, k \in Step : CallOf(r, k) = "unasked" BY CallValues DEF Init
<1> QED BY <1>1, <1>2 DEF Promise!PromiseInit, phaseBar, callBar

\* A row that moves while no call of its run is undecided is a Begin, a Proceed
\* or an End of RunPromise.
LEMMA RowStepPromise ==
  ASSUME IInv, NEW r \in Run, \A k \in Step : approval[r][k] # "pending",
         \/ status[r] = "absent" /\ status'[r] = "running"
         \/ status[r] = "running" /\ status'[r] \in Over
         \/ status[r] = "waiting" /\ status'[r] \in {"running", "failed"} /\ steps[r] \in Step /\ approval[r][steps[r]] # "none",
         \A q \in Run : q # r => status'[q] = status[q],
         UNCHANGED <<approval, steps, executed>>
  PROVE  Promise!PromiseNext
<1>1. \A q \in Run : q # r => PhaseOf(q)' = PhaseOf(q) BY SamePhase
<1>2. callBar' = callBar BY SameCall, SameCalls
<1>3. phaseBar' = [phaseBar EXCEPT ![r] = PhaseOf(r)'] BY <1>1, PhaseStep
<1>4. phaseBar[r] = PhaseOf(r) /\ \A k \in Step : callBar[r][k] # "asked"
  BY DEF phaseBar, callBar, CallOf
<1>5. CASE status[r] = "absent"
  <2>1. PhaseOf(r) = "absent" /\ PhaseOf(r)' = "working" BY <1>5, PhaseValues DEF PhaseOf, Over
  <2>2. Promise!Begin(r) BY <1>2, <1>3, <1>4, <2>1 DEF Promise!Begin
  <2> QED BY <2>2 DEF Promise!PromiseNext
<1>6. CASE status[r] = "running"
  <2>1. PhaseOf(r) = "working" /\ PhaseOf(r)' = "over" BY <1>6 DEF PhaseOf, Over
  <2>2. Promise!End(r) BY <1>2, <1>3, <1>4, <2>1 DEF Promise!End
  <2> QED BY <2>2 DEF Promise!PromiseNext
<1>7. CASE status[r] = "waiting" /\ status'[r] = "running"
  <2>1. PhaseOf(r) = "blocked" /\ PhaseOf(r)' = "working" BY <1>7 DEF PhaseOf, Over
  <2>2. Promise!Proceed(r) BY <1>2, <1>3, <1>4, <2>1 DEF Promise!Proceed
  <2> QED BY <2>2 DEF Promise!PromiseNext
<1>8. CASE status[r] = "waiting" /\ status'[r] = "failed"
  <2>1. PhaseOf(r) = "blocked" /\ PhaseOf(r)' = "over" BY <1>8 DEF PhaseOf, Over
  <2>2. Promise!End(r) BY <1>2, <1>3, <1>4, <2>1 DEF Promise!End
  <2> QED BY <2>2 DEF Promise!PromiseNext
<1> QED BY <1>5, <1>6, <1>7, <1>8

\* Nothing RunPromise can see.
Invisible == UNCHANGED <<phaseBar, callBar>>

\* Rows, approvals and executions are all that RunPromise sees of the code.
LEMMA UnseenStep ==
  ASSUME UNCHANGED <<status, approval, executed>>, \A q \in Run : steps'[q] = steps[q] \/ status[q] # "waiting"
  PROVE  Invisible
<1>1. phaseBar' = phaseBar BY SamePhase, SamePhases
<1>2. callBar' = callBar BY SameCall, SameCalls
<1> QED BY <1>1, <1>2 DEF Invisible

\* take_pending and mark_expired are the Decide of RunPromise.
LEMMA VerdictPromise ==
  ASSUME IInv, NEW r \in Run, NEW k \in Step, NEW verdict \in Decided \cup {"expired"},
         approval[r][k] = "pending", approval' = [approval EXCEPT ![r][k] = verdict],
         UNCHANGED <<status, steps, executed>>
  PROVE  Promise!PromiseNext
<1>1. approval \in [Run -> [Step -> ApprovalStatus]] BY DEF IInv, TypeOK
<1>2. Awaited(r, k) BY DEF IInv, HolderInv, Pending
<1>3. /\ approval'[r][k] = verdict
      /\ \A q \in Run, j \in Step : q # r \/ j # k => approval'[q][j] = approval[q][j]
  BY <1>1
<1>4. \A q \in Run : q # r => approval'[q] = approval[q] BY <1>1
<1>5. \A q \in Run : PhaseOf(q)' = PhaseOf(q)
  <2>1. PhaseOf(r) = "blocked" BY <1>2, PhaseValues DEF Awaited
  <2>2. PhaseOf(r)' = "blocked" BY <1>2, <1>3 DEF Awaited, PhaseOf, Over, Decided
  <2> QED BY <1>4, <2>1, <2>2, SamePhase
<1>6. phaseBar' = phaseBar BY <1>5, SamePhases
<1>7. phaseBar[r] = "blocked" BY <1>2, PhaseValues DEF phaseBar, Awaited
<1>8. callBar[r][k] = "asked" BY <1>2, CallValues DEF callBar, Awaited
<1>9. callBar' = [callBar EXCEPT ![r][k] = CallOf(r, k)']
  <2>1. \A q \in Run, j \in Step : q # r \/ j # k => CallOf(q, j)' = CallOf(q, j)
    BY <1>3, SameCall
  <2> QED BY <2>1, CallStep
<1>10. CallOf(r, k)' \in {"granted", "refused"}
  BY <1>2, <1>3 DEF CallOf, Awaited, Decided
<1>11. Promise!Decide(r, k) BY <1>6, <1>7, <1>8, <1>9, <1>10 DEF Promise!Decide
<1> QED BY <1>11 DEF Promise!PromiseNext

\* park's second write is the Ask of RunPromise; its first one is invisible.
LEMMA AskPromise ==
  ASSUME IInv, NEW r \in Run, NEW k \in Slot, ParkApproval(r, k)
  PROVE  Invisible \/ Promise!PromiseNext
<1>1. TypeOK BY DEF IInv
<1>2. pc[r][k] = "parkApproval" /\ UNCHANGED <<status, steps, executed>>
  BY DEF ParkApproval, Move, history
<1>3. status[r] = "waiting" /\ steps[r] \in Step /\ approval[r][steps[r]] = "none"
  BY <1>2 DEF IInv, TaskInv, RowOfTask, ApprovalInv, Unasked, Busy
<1>4. CASE approval' = approval BY <1>2, <1>4, UnseenStep
<1>5. CASE approval' = [approval EXCEPT ![r][steps[r]] = "pending"]
  <2>1. PICK n \in Step : n = steps[r] BY <1>3
  <2>2. /\ approval'[r][n] = "pending" /\ approval[r][n] = "none"
        /\ \A q \in Run, j \in Step : q # r \/ j # n => approval'[q][j] = approval[q][j]
        /\ \A q \in Run : q # r => approval'[q] = approval[q]
    BY <1>1, <1>3, <1>5, <2>1 DEF TypeOK
  <2>3. phaseBar' = [phaseBar EXCEPT ![r] = PhaseOf(r)']
    <3>1. \A q \in Run : q # r => PhaseOf(q)' = PhaseOf(q) BY <1>2, <2>2, SamePhase
    <3> QED BY <3>1, PhaseStep
  <2>4. callBar' = [callBar EXCEPT ![r][n] = CallOf(r, n)']
    <3>1. \A q \in Run, j \in Step : q # r \/ j # n => CallOf(q, j)' = CallOf(q, j) BY <1>2, <2>2, SameCall
    <3> QED BY <3>1, CallStep
  <2>5. phaseBar[r] = "working" BY <1>3, <2>1, <2>2, PhaseValues DEF phaseBar
  <2>6. PhaseOf(r)' = "blocked" BY <1>2, <1>3, <2>1, <2>2 DEF PhaseOf, Over
  <2>7. executed[r][n] = 0 BY <2>2 DEF IInv, ApprovalInv, Undecided
  <2>8. callBar[r][n] = "unasked" /\ CallOf(r, n)' = "asked"
    BY <1>2, <2>2, <2>7, CallValues DEF callBar, CallOf
  <2>9. Promise!Ask(r, n) BY <2>3, <2>4, <2>5, <2>6, <2>8 DEF Promise!Ask
  <2> QED BY <2>9 DEF Promise!PromiseNext
<1> QED BY <1>4, <1>5 DEF ParkApproval

\* Resuming an approved call is the Perform of RunPromise.
LEMMA PerformPromise ==
  ASSUME IInv, NEW r \in Run, NEW k \in Step, Resume(r, k)
  PROVE  Invisible \/ Promise!PromiseNext
<1>1. TypeOK BY DEF IInv
<1>2. pc[r][k] = "resume" /\ UNCHANGED <<status, approval, steps>> BY DEF Resume, Move, store
<1>3. status[r] = "running" /\ executed[r][k] = 0
  BY <1>2, SlotsAreNumbers DEF SlotFacts, IInv, TaskInv, RowOfTask, Turning, ApprovalInv, Resuming
<1>4. CASE executed' = executed BY <1>2, <1>4, UnseenStep
<1>5. CASE approval[r][k] = "approved" /\ executed' = [executed EXCEPT ![r][k] = @ + 1]
  <2>1. /\ executed'[r][k] = 1
        /\ \A q \in Run, j \in Step : q # r \/ j # k => executed'[q][j] = executed[q][j]
    <3>1. executed \in [Run -> [Step -> Nat]] BY <1>1 DEF TypeOK
    <3>2. executed'[r][k] = executed[r][k] + 1 BY <1>5, <3>1
    <3>3. \A q \in Run, j \in Step : q # r \/ j # k => executed'[q][j] = executed[q][j] BY <1>5, <3>1
    <3> QED BY <1>3, <3>2, <3>3
  <2>2. phaseBar' = phaseBar BY <1>2, SamePhase, SamePhases
  <2>3. callBar' = [callBar EXCEPT ![r][k] = CallOf(r, k)']
    <3>1. \A q \in Run, j \in Step : q # r \/ j # k => CallOf(q, j)' = CallOf(q, j) BY <1>2, <2>1, SameCall
    <3> QED BY <3>1, CallStep
  <2>4. phaseBar[r] = "working" BY <1>3, PhaseValues DEF phaseBar
  <2>5. callBar[r][k] = "granted" BY <1>3, <1>5, CallValues DEF callBar
  <2>6. CallOf(r, k)' = "performed" BY <1>2, <1>5, <2>1 DEF CallOf
  <2>7. Promise!Perform(r, k) BY <2>2, <2>3, <2>4, <2>5, <2>6 DEF Promise!Perform
  <2> QED BY <2>7 DEF Promise!PromiseNext
<1> QED BY <1>4, <1>5 DEF Resume

\* Every step of a task is a step of RunPromise or invisible to it.
LEMMA TaskPromise ==
  ASSUME IInv, NEW r \in Run, NEW k \in Slot, TaskStep(r, k)
  PROVE  Invisible \/ Promise!PromiseNext
<1>1. TypeOK BY DEF IInv
<1>2. pc[r][k] \in Turning => status[r] = "running" /\ \A j \in Step : approval[r][j] # "pending"
  BY DEF IInv, TaskInv, RowOfTask, HolderInv, Pending, Awaited
<1>3. CASE Turn(r, k)
  <2>1. pc[r][k] \in Turning BY <1>3 DEF Turn, Move, Turning
  <2>2. \A q \in Run : steps'[q] = steps[q] \/ status[q] # "waiting" BY <1>1, <1>2, <1>3, <2>1 DEF Turn, TypeOK
  <2>3. UNCHANGED <<status, approval, executed>> BY <1>3 DEF Turn, store, history
  <2> QED BY <2>2, <2>3, UnseenStep
<1>4. CASE ModelReply(r, k) \/ ToolBatch(r, k) \/ EmitTerminal(r, k) \/ RunHook(r, k) \/ Finish(r, k) \/ Announce(r, k)
  <2>1. UNCHANGED <<status, approval, executed, steps>>
    BY <1>4 DEF ModelReply, ToolBatch, EmitTerminal, RunHook, Finish, Announce, store, history
  <2> QED BY <2>1, UnseenStep
<1>5. CASE SettleRow(r, k)
  <2>1. pc[r][k] \in Turning BY <1>5 DEF SettleRow, Move, Turning
  <2>2. UNCHANGED <<approval, steps, executed>> BY <1>5 DEF SettleRow, history
  <2>3. CASE status' = status BY <2>2, <2>3, UnseenStep
  <2>4. CASE status' # status
    <3>1. status'[r] \in Over /\ \A q \in Run : q # r => status'[q] = status[q]
      BY <1>1, <1>5, <2>4 DEF SettleRow, Over, TypeOK
    <3> QED BY <1>2, <2>1, <2>2, <3>1, RowStepPromise
  <2> QED BY <2>3, <2>4
<1>6. CASE ParkRow(r, k)
  <2>1. pc[r][k] = "parkRow" /\ UNCHANGED <<approval, steps, executed>> BY <1>6 DEF ParkRow, Move, history
  <2>2. status[r] = "running" /\ approval[r][steps[r]] = "none"
    BY <1>2, <2>1 DEF Turning, IInv, ApprovalInv, Unasked
  <2>3. status' = status \/ status' = [status EXCEPT ![r] = "waiting"] BY <1>6 DEF ParkRow
  <2>4. \A q \in Run : PhaseOf(q)' = PhaseOf(q)
    <3>1. PhaseOf(r) = "working" BY <2>2, PhaseValues
    <3>2. PhaseOf(r)' = "working" BY <1>1, <2>1, <2>2, <2>3 DEF PhaseOf, Over, TypeOK
    <3>3. \A q \in Run : q # r => status'[q] = status[q] BY <1>1, <2>3 DEF TypeOK
    <3> QED BY <2>1, <3>1, <3>2, <3>3, SamePhase
  <2>5. phaseBar' = phaseBar BY <2>4, SamePhases
  <2>6. callBar' = callBar BY <2>1, SameCall, SameCalls
  <2> QED BY <2>5, <2>6 DEF Invisible
<1>7. CASE ParkApproval(r, k) BY <1>7, AskPromise
<1> QED BY <1>3, <1>4, <1>5, <1>6, <1>7 DEF TaskStep

\* The claim and fail_waiting_run are its Proceed and its End.
LEMMA LeavePromise ==
  ASSUME IInv, NEW r \in Run, NEW k \in Step, Awaited(r, k), approval[r][k] \notin {"none", "pending"},
         UNCHANGED <<approval, steps, executed>>,
         \/ status' = status
         \/ status' = [status EXCEPT ![r] = "running"]
         \/ status' = [status EXCEPT ![r] = "failed"]
  PROVE  Invisible \/ Promise!PromiseNext
<1>1. status \in [Run -> RowStatus] BY DEF IInv, TypeOK
<1>2. \A j \in Step : approval[r][j] # "pending" BY DEF IInv, HolderInv, Pending, Awaited
<1>3. CASE status' = status BY <1>3, UnseenStep
<1>4. CASE status' # status
  <2>1. status'[r] \in {"running", "failed"} /\ \A q \in Run : q # r => status'[q] = status[q]
    BY <1>1, <1>4
  <2>2. steps[r] \in Step /\ status[r] = "waiting" /\ approval[r][steps[r]] # "none" BY DEF Awaited
  <2> QED BY <1>2, <2>1, <2>2, RowStepPromise
<1> QED BY <1>3, <1>4

\* So is every step of the system.
LEMMA NextPromise == IInv /\ [Next]_vars => Invisible \/ Promise!PromiseNext
<1> SUFFICES ASSUME IInv, [Next]_vars PROVE Invisible \/ Promise!PromiseNext OBVIOUS
<1> DEFINE Goal == Invisible \/ Promise!PromiseNext
<1>0. TypeOK BY DEF IInv
<1>1. ASSUME NEW r \in Run, NEW k \in Slot, TaskStep(r, k) PROVE Goal BY <1>1, TaskPromise
<1>2. ASSUME NEW r \in Run, Start(r) PROVE Goal
  <2>1. UNCHANGED <<approval, steps, executed>> BY <1>2 DEF Start
  <2>2. CASE status' = status BY <2>1, <2>2, UnseenStep
  <2>3. CASE status[r] = "absent" /\ status' = [status EXCEPT ![r] = "running"]
    <3>1. status'[r] = "running" /\ \A q \in Run : q # r => status'[q] = status[q] BY <1>0, <2>3 DEF TypeOK
    <3>2. \A k \in Step : approval[r][k] # "pending" BY <2>3 DEF IInv, HolderInv, Pending, Awaited
    <3> QED BY <2>1, <2>3, <3>1, <3>2, RowStepPromise
  <2> QED BY <1>2, <2>2, <2>3 DEF Start
<1>3. ASSUME NEW r \in Run, StopCheck(r) \/ StopInsert(r) PROVE Goal
  <2>1. UNCHANGED <<status, approval, executed, steps>> BY <1>3 DEF StopCheck, StopInsert, store, history
  <2> QED BY <2>1, UnseenStep
<1>4. ASSUME NEW r \in Run, NEW k \in Step, Resume(r, k) PROVE Goal BY <1>4, PerformPromise
<1>5. ASSUME NEW r \in Run, NEW k \in Step, Age(r, k) PROVE Goal
  <2>1. UNCHANGED <<status, approval, executed, steps>> BY <1>5 DEF Age, store, history
  <2> QED BY <2>1, UnseenStep
<1>6. ASSUME NEW d \in Decider, NEW r \in Run, NEW k \in Step, NEW verdict \in Decided, TakePending(d, r, k, verdict)
      PROVE  Goal
  <2>1. /\ approval[r][k] = "pending" /\ approval' = [approval EXCEPT ![r][k] = verdict]
        /\ UNCHANGED <<status, steps, executed>>
    BY <1>6 DEF TakePending, history
  <2> QED BY <2>1, VerdictPromise
<1>7. ASSUME NEW d \in Decider, NEW r \in Run, NEW k \in Step,
             ReadRow(d, r, k) \/ ClaimWaiting(d, r, k) \/ ClaimFallback(d, r, k)
      PROVE  Goal
  <2>1. Decides(d, r, k) BY <1>7 DEF ReadRow, ClaimWaiting, ClaimFallback, Decides
  <2>2. Awaited(r, k) /\ approval[r][k] \notin {"none", "pending"}
    BY <2>1 DEF IInv, HolderInv, OneRequest, Decided
  <2>3. UNCHANGED <<approval, steps, executed>> BY <1>7 DEF ReadRow, ClaimWaiting, ClaimFallback, store, history
  <2>4. \/ status' = status
        \/ status' = [status EXCEPT ![r] = "running"]
        \/ status' = [status EXCEPT ![r] = "failed"]
    BY <1>7 DEF ReadRow, ClaimWaiting, ClaimFallback, FailWaitingRun, store
  <2> QED BY <2>2, <2>3, <2>4, LeavePromise
<1>8. ASSUME NEW w \in Sweeper, NEW r \in Run, NEW k \in Step, SweepMark(w, r, k) PROVE Goal
  <2>1. UNCHANGED <<status, steps, executed>> BY <1>8 DEF SweepMark, history
  <2>2. CASE approval[r][k] = "pending"
    <3>1. approval' = [approval EXCEPT ![r][k] = "expired"] BY <1>8, <2>2 DEF SweepMark
    <3> QED BY <2>1, <2>2, <3>1, VerdictPromise
  <2>3. CASE approval[r][k] # "pending"
    <3>1. approval' = approval BY <1>8, <2>3 DEF SweepMark
    <3> QED BY <2>1, <3>1, UnseenStep
  <2> QED BY <2>2, <2>3
<1>9. ASSUME NEW w \in Sweeper, NEW r \in Run, NEW k \in Step, SweepFail(w, r, k) PROVE Goal
  <2>1. Expires(w, r, k) BY <1>9 DEF SweepFail, Expires
  <2>2. Awaited(r, k) /\ approval[r][k] \notin {"none", "pending"} BY <2>1 DEF IInv, HolderInv, OneSweep
  <2>3. UNCHANGED <<approval, steps, executed>> BY <1>9 DEF SweepFail, history
  <2>4. status' = status \/ status' = [status EXCEPT ![r] = "failed"] BY <1>9 DEF SweepFail, FailWaitingRun
  <2> QED BY <2>2, <2>3, <2>4, LeavePromise
<1>10. ASSUME NEW w \in Sweeper,
              SweepList(w) \/ SweepDone(w) \/ \E r \in Run, k \in Step : SweepNextRow(w, r, k)
       PROVE  Goal
  <2>1. UNCHANGED <<status, approval, executed, steps>>
    BY <1>10 DEF SweepList, SweepDone, SweepNextRow, store, history
  <2> QED BY <2>1, UnseenStep
<1>11. ASSUME Crash \/ UNCHANGED vars PROVE Goal
  <2>1. UNCHANGED <<status, approval, executed, steps>> BY <1>11 DEF Crash, vars, store, history
  <2> QED BY <2>1, UnseenStep
<1> HIDE DEF Goal
<1>12. ASSUME NEW d \in Decider, DecideStep(d) PROVE Goal BY <1>7, <1>12 DEF DecideStep
<1>13. ASSUME NEW w \in Sweeper, SweepStep(w) PROVE Goal BY <1>8, <1>9, <1>10, <1>13 DEF SweepStep
<1>14. Goal BY <1>1, <1>2, <1>3, <1>4, <1>5, <1>6, <1>11, <1>12, <1>13 DEF Next
<1> QED BY <1>14 DEF Goal

\* The code keeps the promise of RunPromise: work stops while a call waits for its
\* decision, a granted call runs at most once and only then, a refused one never.
THEOREM Refinement == Spec => RefinesPromise
<1>1. IInv /\ [Next]_vars => [Promise!PromiseNext]_(Promise!promiseVars)
  BY NextPromise DEF Invisible, Promise!promiseVars
<1> QED BY <1>1, InitPromise, InductiveInvariant, PTL DEF Spec, RefinesPromise, Promise!PromiseSpec


-----------------------------------------------------------------------------
(***************************************************************************)
(* A run that is not cut is not stranded, and a stop of it is final,       *)
(* whatever happens to the other runs.  (A crash, or a failed write of its *)
(* own row, does strand a run: see README.)                                *)
(***************************************************************************)

\* Who moves a waiting run on; that a sweep's tail still runs is nobody's help.
Owned(r) ==
  \/ \E k \in Step : approval[r][k] = "pending"
  \/ \E k \in Slot : pc[r][k] = "parkApproval"
  \/ \E d \in Decider, k \in Step : Decides(d, r, k)
  \/ \E w \in Sweeper, k \in Step : Expires(w, r, k)

Attended(r) ==
  /\ status[r] = "running" => \E k \in Slot : pc[r][k] \in Turning
  /\ status[r] = "waiting" => Owned(r)
  /\ \A k \in Slot : pc[r][k] \in Closing => pc[r][k] # "abort" /\ status[r] \in Over

Kept(r) == r \in cut \/ Attended(r)
AllAttended == \A r \in Run : Kept(r)

\* A run that was cut (a refused write, a crash) stays cut.
LEMMA CutGrows == ASSUME [Next]_vars PROVE cut \subseteq cut'
<1>1. ASSUME NEW r \in Run, NEW k \in Slot, TaskStep(r, k) PROVE cut \subseteq cut'
  BY <1>1 DEF TaskStep, Turn, ModelReply, ToolBatch, SettleRow, EmitTerminal, RunHook, Finish, ParkRow,
              ParkApproval, Announce, history, Refused
<1>2. ASSUME NEW d \in Decider, DecideStep(d) PROVE cut \subseteq cut'
  BY <1>2 DEF DecideStep, ReadRow, ClaimWaiting, ClaimFallback, FailWaitingRun, history, Refused
<1>3. ASSUME NEW w \in Sweeper, SweepStep(w) PROVE cut \subseteq cut'
  BY <1>3 DEF SweepStep, SweepList, SweepMark, SweepFail, SweepNextRow, SweepDone, FailWaitingRun, history, Refused
<1> QED
  BY <1>1, <1>2, <1>3 DEF Next, Start, StopCheck, StopInsert, Resume, Age, TakePending, Crash, history, vars

\* A run that nobody touches, and whose requests go on.
LEMMA StaysAttended ==
  ASSUME NEW q \in Run, Attended(q), status'[q] = status[q], approval'[q] = approval[q], pc'[q] = pc[q],
         \A d \in Decider, k \in Step : Decides(d, q, k) => Decides(d, q, k)' \/ status[q] # "waiting",
         \A w \in Sweeper, k \in Step : Expires(w, q, k) => Expires(w, q, k)' \/ status[q] # "waiting"
  PROVE  Attended(q)'
<1>1. status[q] = "waiting" /\ Owned(q) => Owned(q)'
  BY DEF Owned
<1> QED
  BY <1>1 DEF Attended

\* A task leaves the other runs alone (every UPDATE of settle and park names
\* its run).
LEMMA TaskFrame ==
  ASSUME TypeOK, NEW r \in Run, NEW k \in Slot, TaskStep(r, k)
  PROVE  /\ dec' = dec /\ sweep' = sweep
         /\ \A q \in Run \ {r} : status'[q] = status[q] /\ approval'[q] = approval[q] /\ pc'[q] = pc[q]
<1>1. dec' = dec /\ sweep' = sweep
  BY DEF TaskStep, Turn, ModelReply, ToolBatch, SettleRow, EmitTerminal, RunHook, Finish, ParkRow,
         ParkApproval, Announce, requests
<1>2. status' = status \/ status' = [status EXCEPT ![r] = status'[r]]
  BY DEF TaskStep, Turn, ModelReply, ToolBatch, SettleRow, EmitTerminal, RunHook, Finish, ParkRow,
         ParkApproval, Announce, store, TypeOK
<1>3. approval' = approval \/ approval' = [approval EXCEPT ![r] = approval'[r]]
  BY DEF TaskStep, Turn, ModelReply, ToolBatch, SettleRow, EmitTerminal, RunHook, Finish, ParkRow,
         ParkApproval, Announce, store, TypeOK
<1>4. \E from, to : Move(r, k, from, to)
  BY DEF TaskStep, Turn, ModelReply, ToolBatch, SettleRow, EmitTerminal, RunHook, Finish, ParkRow,
         ParkApproval, Announce
<1>5. \A q \in Run \ {r} : pc'[q] = pc[q]
  BY <1>4 DEF Move, TypeOK
<1>6. \A q \in Run \ {r} : status'[q] = status[q]
  BY <1>2 DEF TypeOK
<1>7. \A q \in Run \ {r} : approval'[q] = approval[q]
  BY <1>3 DEF TypeOK
<1> QED
  BY <1>1, <1>5, <1>6, <1>7

\* A task that moves, in one of the ways the task of a run that is not cut can.
LEMMA TaskMoves ==
  ASSUME IInv, NEW r \in Run, NEW k \in Slot, TaskStep(r, k), Attended(r), r \notin cut'
  PROVE  \E to \in TaskPC :
           /\ Moved(r, k, to) /\ dec' = dec /\ sweep' = sweep
           /\ \A q \in Run \ {r} : status'[q] = status[q] /\ approval'[q] = approval[q]
           /\ \/ pc[r][k] \in Turning /\ to \in Turning /\ UNCHANGED <<status, approval>>
              \/ pc[r][k] \in Turning /\ to = "emit" /\ status'[r] \in Over /\ UNCHANGED approval
              \/ /\ pc[r][k] \in Closing \cup {"announce"} /\ to \in {"hook", "finish", "ended"}
                 /\ to # "ended" => pc[r][k] \in Closing
                 /\ UNCHANGED <<status, approval>>
              \/ pc[r][k] = "parkRow" /\ to = "parkApproval" /\ status'[r] = "waiting" /\ UNCHANGED approval
              \/ /\ pc[r][k] = "parkApproval" /\ to = "announce" /\ steps[r] \in Step
                 /\ approval'[r][steps[r]] = "pending" /\ UNCHANGED status
<1>0. TypeOK /\ TaskInv /\ ApprovalInv
  BY DEF IInv
<1>1. dec' = dec /\ sweep' = sweep
  BY DEF TaskStep, Turn, ModelReply, ToolBatch, SettleRow, EmitTerminal, RunHook, Finish, ParkRow,
         ParkApproval, Announce, requests
<1>2. CASE Turn(r, k) \/ ModelReply(r, k) \/ ToolBatch(r, k)
  <2>1. PICK to \in {"saveFailed", "model", "saveDone", "tools", "turn", "parkRow"} :
          pc[r][k] \in {"turn", "model", "tools"} /\ Moved(r, k, to)
    BY <1>0, <1>2, MoveEffect DEF Turn, ModelReply, ToolBatch, TypeOK
  <2>2. UNCHANGED <<status, approval>>
    BY <1>2 DEF Turn, ModelReply, ToolBatch, store
  <2> QED
    BY <1>1, <2>1, <2>2 DEF Turning, TaskPC
<1>3. CASE SettleRow(r, k)
  <2>1. /\ pc[r][k] \in {"saveDone", "saveFailed"} /\ Moved(r, k, "emit") /\ approval' = approval
        /\ status' = [status EXCEPT ![r] = "done"] \/ status' = [status EXCEPT ![r] = "failed"]
    BY <1>0, <1>3, MoveEffect DEF SettleRow, TypeOK, Refused
  <2>2. status'[r] \in Over /\ \A q \in Run \ {r} : status'[q] = status[q]
    BY <1>0, <2>1 DEF TypeOK, Over
  <2> QED
    BY <1>1, <2>1, <2>2 DEF Turning, TaskPC, Closing
<1>4. CASE EmitTerminal(r, k) \/ RunHook(r, k) \/ Finish(r, k) \/ Announce(r, k)
  <2>1. pc[r][k] # "abort"
    BY DEF Attended, Closing
  <2>2. \/ pc[r][k] = "emit" /\ Moved(r, k, "hook")
        \/ pc[r][k] = "hook" /\ Moved(r, k, "finish")
        \/ pc[r][k] = "finish" /\ Moved(r, k, "ended")
        \/ pc[r][k] = "announce" /\ Moved(r, k, "ended")
    BY <1>0, <1>4, <2>1, MoveEffect DEF EmitTerminal, RunHook, Finish, Announce, TypeOK
  <2>3. UNCHANGED <<status, approval>>
    BY <1>4 DEF EmitTerminal, RunHook, Finish, Announce, store
  <2> QED
    BY <1>1, <2>2, <2>3 DEF TaskPC, Closing
<1>5. CASE ParkRow(r, k)
  <2>1. /\ pc[r][k] = "parkRow" /\ Moved(r, k, "parkApproval") /\ approval' = approval
        /\ status' = [status EXCEPT ![r] = "waiting"]
    BY <1>0, <1>5, MoveEffect DEF ParkRow, TypeOK, Refused
  <2>2. status'[r] = "waiting" /\ \A q \in Run \ {r} : status'[q] = status[q]
    BY <1>0, <2>1 DEF TypeOK
  <2> QED
    BY <1>1, <2>1, <2>2 DEF TaskPC
<1>6. CASE ParkApproval(r, k)
  <2>1. /\ pc[r][k] = "parkApproval" /\ Moved(r, k, "announce") /\ status' = status
        /\ approval' = [approval EXCEPT ![r][steps[r]] = "pending"]
    BY <1>0, <1>6, MoveEffect DEF ParkApproval, TypeOK, Refused
  <2>2. steps[r] \in Step
    BY <1>0, <2>1 DEF TaskInv, RowOfTask, ApprovalInv, Unasked, Busy
  <2>3. approval'[r][steps[r]] = "pending" /\ \A q \in Run \ {r} : approval'[q] = approval[q]
    BY <1>0, <2>1, <2>2 DEF TypeOK
  <2> QED
    BY <1>1, <2>1, <2>2, <2>3 DEF TaskPC
<1> QED
  BY <1>2, <1>3, <1>4, <1>5, <1>6 DEF TaskStep

\* The run of a task that moves, unless the move cut it.
LEMMA TaskAttends ==
  ASSUME IInv, NEW r \in Run, Attended(r), NEW k \in Slot, TaskStep(r, k), r \notin cut'
  PROVE  Attended(r)'
<1>0. TypeOK /\ TypeOK' /\ TaskInv
  BY TypeNext DEF IInv, Next
<1>1. PICK to \in TaskPC :
        /\ Moved(r, k, to) /\ dec' = dec /\ sweep' = sweep
        /\ \A q \in Run \ {r} : status'[q] = status[q] /\ approval'[q] = approval[q]
        /\ \/ pc[r][k] \in Turning /\ to \in Turning /\ UNCHANGED <<status, approval>>
           \/ pc[r][k] \in Turning /\ to = "emit" /\ status'[r] \in Over /\ UNCHANGED approval
           \/ /\ pc[r][k] \in Closing \cup {"announce"} /\ to \in {"hook", "finish", "ended"}
              /\ to # "ended" => pc[r][k] \in Closing
              /\ UNCHANGED <<status, approval>>
           \/ pc[r][k] = "parkRow" /\ to = "parkApproval" /\ status'[r] = "waiting" /\ UNCHANGED approval
           \/ /\ pc[r][k] = "parkApproval" /\ to = "announce" /\ steps[r] \in Step
              /\ approval'[r][steps[r]] = "pending" /\ UNCHANGED status
  BY TaskMoves
<1>2. \A d \in Decider, q \in Run, j \in Step : Decides(d, q, j)' = Decides(d, q, j)
  BY <1>1 DEF Decides
<1>3. \A w \in Sweeper, q \in Run, j \in Step : Expires(w, q, j)' = Expires(w, q, j)
  BY <1>1 DEF Expires
<1>5. pc'[r][k] = to /\ \A j \in Slot \ {k} : pc'[r][j] = pc[r][j]
  BY <1>1 DEF Moved
<1>6. Attended(r)
  OBVIOUS
<1>7. ASSUME pc[r][k] \in Turning /\ to \in Turning /\ UNCHANGED <<status, approval>> PROVE Attended(r)'
  <2>1. status[r] = "running"
    BY <1>0, <1>7 DEF TaskInv, RowOfTask
  <2>2. to \notin Closing /\ status'[r] = "running"
    BY <1>7, <2>1 DEF Turning, Closing
  <2>3. ASSUME NEW j \in Slot, pc'[r][j] \in Closing PROVE pc'[r][j] # "abort" /\ status'[r] \in Over
    BY <1>5, <1>6, <1>7, <2>2, <2>3 DEF Attended
  <2>4. pc'[r][k] \in Turning
    BY <1>5, <1>7
  <2> QED
    BY <2>2, <2>3, <2>4 DEF Attended
<1>8. ASSUME pc[r][k] \in Turning /\ to = "emit" /\ status'[r] \in Over PROVE Attended(r)'
  <2>1. status'[r] \notin {"running", "waiting"} /\ status[r] = "running"
    BY <1>0, <1>8 DEF Over, TaskInv, RowOfTask
  <2>2. \A j \in Slot : pc'[r][j] # "abort"
    <3>1. \A j \in Slot : pc[r][j] # "abort"
      BY <1>6 DEF Attended, Closing
    <3> QED
      BY <1>5, <1>8, <3>1
  <2> QED
    BY <1>8, <2>1, <2>2 DEF Attended
<1>9. ASSUME /\ pc[r][k] \in Closing \cup {"announce"} /\ to \in {"hook", "finish", "ended"}
             /\ to # "ended" => pc[r][k] \in Closing
             /\ UNCHANGED <<status, approval>>
      PROVE  Attended(r)'
  <2>1. \A j \in Slot : pc[r][j] \in Turning \cup {"parkApproval"} => j # k /\ pc'[r][j] = pc[r][j]
    BY <1>5, <1>9 DEF Turning, Closing
  <2>2. Owned(r) => Owned(r)'
    BY <1>2, <1>3, <1>9, <2>1 DEF Owned
  <2>3. to \in Closing => to # "abort" /\ status[r] \in Over
    BY <1>6, <1>9 DEF Closing, Attended
  <2>4. status'[r] = status[r]
    BY <1>9
  <2>5. status'[r] = "running" => \E j \in Slot : pc'[r][j] \in Turning
    BY <1>6, <2>1, <2>4 DEF Attended
  <2>6. status'[r] = "waiting" => Owned(r)'
    BY <1>6, <2>2, <2>4 DEF Attended
  <2>7. ASSUME NEW j \in Slot, pc'[r][j] \in Closing PROVE pc'[r][j] # "abort" /\ status'[r] \in Over
    BY <1>5, <1>6, <2>3, <2>4, <2>7 DEF Attended
  <2> QED
    BY <2>5, <2>6, <2>7 DEF Attended
<1>10. ASSUME pc[r][k] = "parkRow" /\ to = "parkApproval" /\ status'[r] = "waiting" PROVE Attended(r)'
  <2>1. status[r] = "running"
    BY <1>0, <1>10 DEF TaskInv, RowOfTask, Turning
  <2>2. \A j \in Slot : pc'[r][j] \notin Closing
    BY <1>5, <1>6, <1>10, <2>1 DEF Attended, Over, Closing
  <2>3. Owned(r)'
    BY <1>5, <1>10 DEF Owned
  <2> QED
    BY <1>10, <2>2, <2>3 DEF Attended
<1>11. ASSUME /\ pc[r][k] = "parkApproval" /\ to = "announce" /\ steps[r] \in Step
              /\ approval'[r][steps[r]] = "pending" /\ UNCHANGED status
      PROVE  Attended(r)'
  <2>1. status[r] = "waiting"
    BY <1>0, <1>11 DEF TaskInv, RowOfTask
  <2>2. \A j \in Slot : pc'[r][j] \notin Closing
    BY <1>5, <1>6, <1>11, <2>1 DEF Attended, Over, Closing
  <2>3. Owned(r)'
    BY <1>11 DEF Owned
  <2>4. status'[r] = "waiting"
    BY <1>11, <2>1
  <2> QED
    BY <2>2, <2>3, <2>4 DEF Attended
<1> QED
  BY <1>1, <1>7, <1>8, <1>9, <1>10, <1>11

\* A request or a sweep that moves the row of r, or a decision on it; nothing of
\* the other runs is touched.
LEMMA OneMoves ==
  ASSUME AllAttended, NEW r \in Run, Kept(r)', cut \subseteq cut',
         \A q \in Run \ {r} : status'[q] = status[q] /\ approval'[q] = approval[q] /\ pc'[q] = pc[q],
         \A d \in Decider, q \in Run \ {r}, k \in Step : Decides(d, q, k) => Decides(d, q, k)',
         \A w \in Sweeper, q \in Run \ {r}, k \in Step : Expires(w, q, k) => Expires(w, q, k)'
  PROVE  AllAttended'
<1>1. ASSUME NEW q \in Run, q # r PROVE Kept(q)'
  BY <1>1, StaysAttended DEF AllAttended, Kept
<1> QED
  BY <1>1 DEF AllAttended

\* A run in the hands of a task (drive, run_turn, settle, park).
LEMMA TaskAttended ==
  ASSUME IInv, AllAttended, NEW r \in Run, NEW k \in Slot, TaskStep(r, k)
  PROVE  AllAttended'
<1>1. TypeOK /\ cut \subseteq cut'
  BY CutGrows DEF IInv, Next
<1>2. Kept(r)'
  BY <1>1, TaskAttends DEF AllAttended, Kept
<1> QED
  BY <1>1, <1>2, TaskFrame, OneMoves DEF Decides, Expires

\* start, and what touches neither rows nor tasks.
LEMMA StartAttended == ASSUME IInv, AllAttended, NEW r \in Run, Start(r) PROVE AllAttended'
<1>0. TypeOK /\ TaskInv /\ SlotFacts
  BY SlotsAreNumbers DEF IInv
<1>1. /\ dec' = dec /\ sweep' = sweep /\ approval' = approval /\ cut' = cut /\ Kept(r)
      /\ \A d \in Decider, q \in Run, k \in Step : Decides(d, q, k) => Decides(d, q, k)'
      /\ \A w \in Sweeper, q \in Run, k \in Step : Expires(w, q, k) => Expires(w, q, k)'
  BY DEF Start, requests, Decides, Expires, AllAttended
<1>2. PICK to \in {"turn", "ended"} : pc[r][0] = "none" /\ pc' = [pc EXCEPT ![r][0] = to]
  BY DEF Start, Move
<1>3. /\ pc'[r][0] = to /\ \A j \in Slot \ {0} : pc'[r][j] = "none"
      /\ \A q \in Run \ {r} : pc'[q] = pc[q]
      /\ \A j \in Slot : pc[r][j] = "none"
  BY <1>0, <1>2 DEF TypeOK, TaskInv, NotStarted, SlotFacts
<1>4. status[r] = "absent"
  BY <1>0, <1>2 DEF TaskInv, NotStarted
<1>5. /\ \/ status' = status
         \/ status' = [status EXCEPT ![r] = "running"] /\ to = "turn"
  BY <1>0, <1>2, <1>3 DEF Start, Move, TypeOK, SlotFacts
<1>6. /\ \A q \in Run \ {r} : status'[q] = status[q]
      /\ status'[r] = "absent" \/ (status'[r] = "running" /\ to = "turn")
  BY <1>0, <1>4, <1>5 DEF TypeOK
<1>7. \A j \in Slot : pc'[r][j] \in {"turn", "ended", "none"}
  BY <1>3
<1>8. Kept(r)'
  BY <1>0, <1>3, <1>6, <1>7 DEF Kept, Attended, Turning, Closing, SlotFacts
<1> QED
  BY <1>1, <1>3, <1>6, <1>8, OneMoves

LEMMA ResumeAttended == ASSUME IInv, AllAttended, NEW r \in Run, NEW k \in Step, Resume(r, k) PROVE AllAttended'
<1>0. TypeOK /\ TaskInv /\ SlotFacts /\ k \in Slot
  BY SlotsAreNumbers DEF IInv, SlotFacts
<1>1. /\ UNCHANGED <<dec, sweep, status, approval, cut>> /\ Kept(r)
      /\ pc[r][k] = "resume" /\ pc' = [pc EXCEPT ![r][k] = "turn"]
  BY DEF Resume, requests, store, Move, AllAttended
<1>2. /\ pc'[r][k] = "turn" /\ \A j \in Slot \ {k} : pc'[r][j] = pc[r][j]
      /\ \A q \in Run \ {r} : pc'[q] = pc[q]
  BY <1>0, <1>1 DEF TypeOK
<1>3. status[r] = "running"
  BY <1>0, <1>1 DEF TaskInv, RowOfTask, Turning
<1>4. r \in cut \/ \A j \in Slot : pc'[r][j] \notin Closing
  BY <1>1, <1>2, <1>3 DEF Kept, Attended, Over, Closing
<1>5. Kept(r)'
  BY <1>0, <1>1, <1>2, <1>3, <1>4 DEF Kept, Attended, Turning
<1> QED
  BY <1>1, <1>2, <1>5, OneMoves DEF Decides, Expires

\* take_pending: whoever decides the approval goes on with the run.
LEMMA TakeAttended ==
  ASSUME IInv, AllAttended, NEW d \in Decider, NEW r \in Run, NEW k \in Step, NEW verdict \in Decided,
         TakePending(d, r, k, verdict)
  PROVE  AllAttended'
<1>0. TypeOK /\ Kept(r)
  BY DEF IInv, AllAttended
<1>1. /\ UNCHANGED <<status, pc, sweep, cut>> /\ dec[d] = Idle
      /\ approval' = [approval EXCEPT ![r][k] = verdict]
      /\ dec' = [dec EXCEPT ![d] = At("taken", r, k)]
  BY DEF TakePending, history
<1>2. /\ \A q \in Run \ {r} : approval'[q] = approval[q]
      /\ Decides(d, r, k)'
      /\ \A c \in Decider \ {d} : dec'[c] = dec[c]
  BY <1>0, <1>1 DEF TypeOK, Decides
<1>3. \A c \in Decider, q \in Run, j \in Step : Decides(c, q, j) => Decides(c, q, j)'
  BY <1>1, <1>2, IdleHoldsNothing DEF Decides
<1>4. \A w \in Sweeper, q \in Run, j \in Step : Expires(w, q, j) => Expires(w, q, j)'
  BY <1>1 DEF Expires
<1>5. Owned(r)'
  BY <1>2 DEF Owned
<1>6. Kept(r)'
  BY <1>0, <1>1, <1>5 DEF Kept, Attended
<1> QED
  BY <1>1, <1>2, <1>3, <1>4, <1>6, OneMoves

\* fail_waiting_run: the row it finds waiting is over, and nobody drives it.
LEMMA FailAttended ==
  ASSUME IInv, AllAttended, NEW r \in Run, NEW k \in Step, FailWaitingRun(r, k), approval' = approval
  PROVE  /\ Kept(r)' \/ (status[r] # "waiting" /\ UNCHANGED <<status, pc>>)
         /\ cut \subseteq cut'
         /\ \A q \in Run \ {r} : status'[q] = status[q] /\ pc'[q] = pc[q]
<1>0. TypeOK /\ TaskInv /\ Kept(r) /\ k \in Slot
  BY SlotsAreNumbers DEF IInv, AllAttended, SlotFacts
<1>1. CASE UNCHANGED <<status, pc>> /\ status[r] # "waiting" /\ cut' = cut
  BY <1>0, <1>1
<1>3. CASE UNCHANGED <<status, pc>> /\ Refused(r, "failRow")
  BY <1>0, <1>3 DEF Refused, Kept
<1>2. CASE /\ status[r] = "waiting" /\ cut' = cut
           /\ status' = [status EXCEPT ![r] = "failed"] /\ pc' = [pc EXCEPT ![r][k] = "emit"]
  <2>1. status' = [status EXCEPT ![r] = "failed"] /\ pc' = [pc EXCEPT ![r][k] = "emit"]
    BY <1>2
  <2>2. /\ status'[r] = "failed" /\ pc'[r][k] = "emit" /\ \A j \in Slot \ {k} : pc'[r][j] = pc[r][j]
        /\ \A q \in Run \ {r} : status'[q] = status[q] /\ pc'[q] = pc[q]
    BY <1>0, <2>1 DEF TypeOK
  <2>3. r \in cut \/ \A j \in Slot : pc'[r][j] # "abort"
    BY <1>0, <2>2 DEF Kept, Attended, Closing
  <2> QED
    BY <1>2, <2>2, <2>3 DEF Kept, Attended, Over
<1> QED
  BY <1>1, <1>2, <1>3 DEF FailWaitingRun

\* decide_approval after the decision.
LEMMA DecideAttended ==
  ASSUME IInv, AllAttended, NEW d \in Decider, NEW r \in Run, NEW k \in Step,
         ReadRow(d, r, k) \/ ClaimWaiting(d, r, k) \/ ClaimFallback(d, r, k)
  PROVE  AllAttended'
<1>0. TypeOK /\ TaskInv /\ Kept(r) /\ k \in Slot
  BY SlotsAreNumbers DEF IInv, AllAttended, SlotFacts
<1>1. /\ approval' = approval /\ sweep' = sweep
      /\ dec[d] \in {At("taken", r, k), At("claim", r, k), At("fallback", r, k)}
      /\ \E next \in {Idle, At("claim", r, k), At("fallback", r, k)} : dec' = [dec EXCEPT ![d] = next]
      /\ cut \subseteq cut'
  BY DEF ReadRow, ClaimWaiting, ClaimFallback, FailWaitingRun, Refused, store, history
<1>2. \A w \in Sweeper, q \in Run, j \in Step : Expires(w, q, j) => Expires(w, q, j)'
  BY <1>1 DEF Expires
<1>3. \A c \in Decider \ {d} : dec'[c] = dec[c]
  BY <1>0, <1>1 DEF TypeOK
<1>4. \A q \in Run, j \in Step : Decides(d, q, j) => q = r /\ j = k
  BY <1>1, AtIsInjective DEF Decides
<1>5. \A c \in Decider, q \in Run \ {r}, j \in Step : Decides(c, q, j) => Decides(c, q, j)'
  BY <1>3, <1>4 DEF Decides
<1>6. ASSUME status[r] # "waiting", UNCHANGED <<status, pc>> PROVE Kept(r)'
  BY <1>0, <1>1, <1>6 DEF Kept, Attended
<1>7. ASSUME Decides(d, r, k)', UNCHANGED <<status, pc>> PROVE Kept(r)'
  BY <1>0, <1>1, <1>7 DEF Kept, Attended, Owned
<1>8. CASE ReadRow(d, r, k)
  <2>1. UNCHANGED <<status, pc>>
    BY <1>8 DEF ReadRow, store
  <2>2. status[r] # "waiting" \/ r \in cut' \/ Decides(d, r, k)'
    BY <1>0, <1>8 DEF ReadRow, Refused, TypeOK, Decides
  <2> QED
    BY <1>1, <1>2, <1>5, <1>6, <1>7, <2>1, <2>2, OneMoves DEF Kept
<1>9. CASE ClaimWaiting(d, r, k)
  <2>1. CASE status[r] # "waiting" \/ UNCHANGED <<status, pc>>
    <3>1. UNCHANGED <<status, pc>> /\ Decides(d, r, k)'
      BY <1>0, <1>9, <2>1 DEF ClaimWaiting, TypeOK, Decides
    <3> QED
      BY <1>1, <1>2, <1>5, <1>7, <3>1, OneMoves
  <2>2. CASE status[r] = "waiting" /\ status' = [status EXCEPT ![r] = "running"] /\ pc' = [pc EXCEPT ![r][k] = "resume"]
    <3>1. /\ status'[r] = "running" /\ pc'[r][k] = "resume" /\ \A j \in Slot \ {k} : pc'[r][j] = pc[r][j]
          /\ \A q \in Run \ {r} : status'[q] = status[q] /\ pc'[q] = pc[q]
      BY <1>0, <2>2 DEF TypeOK
    <3>2. r \in cut \/ \A j \in Slot : pc'[r][j] \notin Closing
      BY <1>0, <2>2, <3>1 DEF Kept, Attended, Over, Closing
    <3>3. Kept(r)'
      BY <1>0, <1>1, <3>1, <3>2 DEF Kept, Attended, Turning
    <3> QED
      BY <1>1, <1>2, <1>5, <3>1, <3>3, OneMoves
  <2> QED
    BY <1>9, <2>1, <2>2 DEF ClaimWaiting
<1>10. CASE ClaimFallback(d, r, k)
  <2>1. FailWaitingRun(r, k)
    BY <1>10 DEF ClaimFallback
  <2> QED
    BY <1>1, <1>2, <1>5, <1>6, <2>1, FailAttended, OneMoves
<1> QED
  BY <1>8, <1>9, <1>10

\* The sweep: what it marks it also fails.
LEMMA SweepAttended ==
  ASSUME IInv, AllAttended, NEW w \in Sweeper, SweepStep(w)
  PROVE  AllAttended'
<1>0. TypeOK /\ cut \subseteq cut'
  BY CutGrows DEF IInv, Next
<1>1. CASE SweepList(w) \/ SweepDone(w) \/ \E r \in Run, k \in Step : SweepNextRow(w, r, k)
  <2>1. /\ UNCHANGED <<status, approval, pc, dec>>
        /\ \E next \in {Idle, Rows} : sweep' = [sweep EXCEPT ![w] = next]
        /\ \A r \in Run, k \in Step : ~ Expires(w, r, k)
    BY <1>1, IdleHoldsNothing, AtIsInjective DEF SweepList, SweepDone, SweepNextRow, store, Expires
  <2>2. \A v \in Sweeper, q \in Run, j \in Step : Expires(v, q, j) => Expires(v, q, j)'
    BY <1>0, <2>1 DEF TypeOK, Expires
  <2>3. \A d \in Decider, q \in Run, j \in Step : Decides(d, q, j) => Decides(d, q, j)'
    BY <2>1 DEF Decides
  <2> QED
    BY <1>0, <2>1, <2>2, <2>3, StaysAttended DEF AllAttended, Kept
<1>2. ASSUME NEW r \in Run, NEW k \in Step, SweepMark(w, r, k) PROVE AllAttended'
  <2>1. UNCHANGED <<status, pc, dec>> /\ sweep[w] = Rows /\ Kept(r)
    BY <1>2 DEF SweepMark, AllAttended
  <2>2. \A d \in Decider, q \in Run, j \in Step : Decides(d, q, j) => Decides(d, q, j)'
    BY <2>1 DEF Decides
  <2>3. CASE UNCHANGED <<approval, sweep>>
    <3>1. \A v \in Sweeper, q \in Run, j \in Step : Expires(v, q, j) => Expires(v, q, j)'
      BY <2>3 DEF Expires
    <3> QED
      BY <1>0, <2>1, <2>2, <2>3, <3>1, StaysAttended DEF AllAttended, Kept
  <2>4. CASE approval' = [approval EXCEPT ![r][k] = "expired"] /\ sweep' = [sweep EXCEPT ![w] = At("marked", r, k)]
    <3>1. /\ \A q \in Run \ {r} : approval'[q] = approval[q]
          /\ Expires(w, r, k)' /\ \A v \in Sweeper \ {w} : sweep'[v] = sweep[v]
      BY <1>0, <2>4 DEF TypeOK, Expires
    <3>2. \A v \in Sweeper, q \in Run, j \in Step : Expires(v, q, j) => Expires(v, q, j)'
      BY <2>1, <3>1, IdleHoldsNothing DEF Expires
    <3>3. Owned(r)'
      BY <3>1 DEF Owned
    <3>4. Kept(r)'
      BY <1>0, <2>1, <3>3 DEF Kept, Attended
    <3> QED
      BY <1>0, <2>1, <2>2, <3>1, <3>2, <3>4, OneMoves
  <2> QED
    BY <1>2, <2>3, <2>4 DEF SweepMark
<1>3. ASSUME NEW r \in Run, NEW k \in Step, SweepFail(w, r, k) PROVE AllAttended'
  <2>1. /\ FailWaitingRun(r, k) /\ approval' = approval /\ dec' = dec /\ sweep[w] = At("marked", r, k)
        /\ sweep' = [sweep EXCEPT ![w] = At("tail", r, k)] /\ Kept(r)
    BY <1>3 DEF SweepFail, AllAttended
  <2>2. \A d \in Decider, q \in Run, j \in Step : Decides(d, q, j) => Decides(d, q, j)'
    BY <2>1 DEF Decides
  <2>3. \A v \in Sweeper, q \in Run \ {r}, j \in Step : Expires(v, q, j) => Expires(v, q, j)'
    <3>1. \A v \in Sweeper \ {w} : sweep'[v] = sweep[v]
      BY <1>0, <2>1 DEF TypeOK
    <3> QED
      BY <2>1, <3>1, AtIsInjective DEF Expires
  <2>4. ASSUME status[r] # "waiting", UNCHANGED <<status, pc>> PROVE Kept(r)'
    BY <1>0, <2>1, <2>4 DEF Kept, Attended
  <2> QED
    BY <2>1, <2>2, <2>3, <2>4, FailAttended, OneMoves
<1> QED
  BY <1>1, <1>2, <1>3 DEF SweepStep

LEMMA InitAttended == Init => AllAttended
BY DEF Init, AllAttended, Kept, Attended, Closing

LEMMA NextAttended == ASSUME IInv, AllAttended, [Next]_vars PROVE AllAttended'
<1>1. ASSUME NEW r \in Run, StopCheck(r) \/ StopInsert(r) \/ (\E k \in Step : Age(r, k)) PROVE AllAttended'
  BY <1>1, StaysAttended DEF StopCheck, StopInsert, Age, requests, store, history, Decides, Expires, AllAttended, Kept
<1>2. CASE UNCHANGED vars
  BY <1>2, StaysAttended DEF vars, Decides, Expires, AllAttended, Kept
<1>3. ASSUME Crash PROVE AllAttended'
  <2>1. ASSUME NEW r \in Run, status[r] = "absent" PROVE Attended(r)'
    BY <1>3, <2>1 DEF Crash, Attended, Closing, store, Over
  <2> QED
    BY <1>3, <2>1 DEF Crash, AllAttended, Kept
<1> QED
  BY <1>1, <1>2, <1>3, StartAttended, TaskAttended, ResumeAttended, TakeAttended, DecideAttended, SweepAttended
     DEF Next, DecideStep

\* Every run that is not over has somebody to move it on: a running one its
\* task, a waiting one its approval, a request or a sweep.  Only a run whose
\* own row could not be written (settle, park, fail_waiting_run) or read
\* (decide_approval), or that a crash cut short, is an exception.
THEOREM SafetyNoStrandedRun == Spec => []NoStrandedRun
<1>1. Init => AllAttended
  BY InitAttended
<1>2. IInv /\ AllAttended /\ [Next]_vars => AllAttended'
  BY NextAttended
<1>3. AllAttended => NoStrandedRun
  <2>1. ASSUME NEW r \in Run, Owned(r) PROVE HasOwner(r)
    <3>1. \A p, j : At(p, r, j).run = r
      BY DEF At
    <3>2. (\E d \in Decider, k \in Step : Decides(d, r, k)) => \E d \in Decider : dec[d] # Idle /\ dec[d].run = r
      BY <3>1, IdleHoldsNothing DEF Decides
    <3>3. (\E w \in Sweeper, k \in Step : Expires(w, r, k))
            => \E w \in Sweeper : sweep[w] \notin {Idle, Rows} /\ sweep[w].run = r
      BY <3>1, IdleHoldsNothing DEF Expires
    <3> QED
      BY <2>1, <3>2, <3>3 DEF Owned, HasOwner
  <2> QED
    BY <2>1 DEF AllAttended, Kept, Attended, NoStrandedRun
<1> QED
  BY <1>1, <1>2, <1>3, InductiveInvariant, PTL DEF Spec

-----------------------------------------------------------------------------
\* A run that is over, or is about to be: it calls the model no more.
NoMoreCalls(r) == status[r] \in Over \/ \E k \in Slot : pc[r][k] = "saveFailed"

Stopped(r, n) == r \in cut \/ (steps[r] = n /\ (r \in stopping \/ NoMoreCalls(r)))

\* Only runs with a row are stopped (the route of the stop reads the row).
StopsKnown == \A r \in Run : r \in stopping \cup stopReq => status[r] # "absent"

\* A row, once inserted, is never absent again, and a stop is asked for by id.
LEMMA StopsStayKnown == ASSUME IInv, StopsKnown, [Next]_vars PROVE StopsKnown'
<1>0. TypeOK
  BY DEF IInv
<1>1. ASSUME NEW r \in Run, status[r] # "absent" PROVE status'[r] # "absent"
  <2>1. TypeOK'
    BY <1>0, TypeNext
  <2>2. status' = status \/ \E q \in Run, v \in RowStatus \ {"absent"} : status' = [status EXCEPT ![q] = v]
    <3>1. ASSUME NEW q \in Run, NEW k \in Slot, TaskStep(q, k)
          PROVE  status' = status \/ \E v \in RowStatus \ {"absent"} : status' = [status EXCEPT ![q] = v]
      BY <3>1 DEF TaskStep, Turn, ModelReply, ToolBatch, SettleRow, EmitTerminal, RunHook, Finish, ParkRow,
                  ParkApproval, Announce, store, RowStatus, Over
    <3>2. ASSUME NEW d \in Decider, DecideStep(d)
          PROVE  status' = status \/ \E q \in Run, v \in RowStatus \ {"absent"} : status' = [status EXCEPT ![q] = v]
      BY <3>2 DEF DecideStep, ReadRow, ClaimWaiting, ClaimFallback, FailWaitingRun, store, RowStatus, Over
    <3>3. ASSUME NEW w \in Sweeper, SweepStep(w)
          PROVE  status' = status \/ \E q \in Run, v \in RowStatus \ {"absent"} : status' = [status EXCEPT ![q] = v]
      BY <3>3 DEF SweepStep, SweepList, SweepMark, SweepFail, SweepNextRow, SweepDone, FailWaitingRun, store,
                  RowStatus, Over
    <3> QED
      BY <3>1, <3>2, <3>3 DEF Next, Start, StopCheck, StopInsert, Resume, Age, TakePending, Crash, store, vars,
                              RowStatus, Over
  <2> QED
    BY <1>0, <1>1, <2>2 DEF TypeOK
<1>2. ASSUME NEW r \in Run, r \in stopping' \cup stopReq' PROVE r \in stopping \cup stopReq \/ status[r] # "absent"
  <2>1. ASSUME NEW q \in Run, NEW k \in Slot, TaskStep(q, k) PROVE stopping' \subseteq stopping /\ stopReq' = stopReq
    BY <2>1 DEF TaskStep, Turn, ModelReply, ToolBatch, SettleRow, EmitTerminal, RunHook, Finish, ParkRow,
                ParkApproval, Announce, requests
  <2>2. ASSUME NEW d \in Decider, DecideStep(d) PROVE stopping' = stopping /\ stopReq' = stopReq
    BY <2>2 DEF DecideStep, ReadRow, ClaimWaiting, ClaimFallback
  <2>3. ASSUME NEW w \in Sweeper, SweepStep(w) PROVE stopping' = stopping /\ stopReq' = stopReq
    BY <2>3 DEF SweepStep, SweepList, SweepMark, SweepFail, SweepNextRow, SweepDone
  <2> QED
    BY <1>2, <2>1, <2>2, <2>3 DEF Next, Start, StopCheck, StopInsert, Resume, Age, TakePending, Crash, requests, vars
<1> QED
  BY <1>1, <1>2 DEF StopsKnown

\* Who is not a task neither counts nor, but for a crash, takes a stop back.
LEMMA BesideTheTasks ==
  ASSUME [Next]_vars, ~ \E r \in Run, k \in Slot : TaskStep(r, k)
  PROVE  steps' = steps /\ (Crash \/ stopping \subseteq stopping')
<1> DEFINE Still == steps' = steps /\ stopping \subseteq stopping'
<1>1. ASSUME NEW r \in Run, Start(r) \/ StopCheck(r) \/ StopInsert(r) PROVE Still
  BY <1>1 DEF Start, StopCheck, StopInsert
<1>2. ASSUME NEW r \in Run, NEW k \in Step, Resume(r, k) \/ Age(r, k) PROVE Still
  BY <1>2 DEF Resume, Age
<1>3. ASSUME NEW d \in Decider, NEW r \in Run, NEW k \in Step, NEW v \in Decided, TakePending(d, r, k, v) PROVE Still
  BY <1>3 DEF TakePending
<1>4. ASSUME NEW d \in Decider, DecideStep(d) PROVE Still
  BY <1>4 DEF DecideStep, ReadRow, ClaimWaiting, ClaimFallback
<1>5. ASSUME NEW w \in Sweeper, SweepStep(w) PROVE Still
  BY <1>5 DEF SweepStep, SweepList, SweepMark, SweepFail, SweepNextRow, SweepDone
<1>6. ASSUME Crash PROVE steps' = steps
  BY <1>6 DEF Crash
<1>7. CASE UNCHANGED vars
  BY <1>7 DEF vars
<1> QED
  BY <1>1, <1>2, <1>3, <1>4, <1>5, <1>6, <1>7 DEF Next

\* Only the head of the loop counts, and only while no stop is recorded.
LEMMA StepsStep ==
  ASSUME TypeOK, [Next]_vars, NEW r \in Run
  PROVE  steps'[r] = steps[r] \/ \E k \in Slot : pc[r][k] = "turn" /\ r \notin stopping
<1>1. ASSUME NEW q \in Run, NEW k \in Slot, TaskStep(q, k)
      PROVE  steps' = steps \/ (steps' = [steps EXCEPT ![q] = @ + 1] /\ pc[q][k] = "turn" /\ q \notin stopping)
  BY <1>1 DEF TaskStep, Turn, ModelReply, ToolBatch, SettleRow, EmitTerminal, RunHook, Finish, ParkRow,
              ParkApproval, Announce, Move
<1>2. CASE \E q \in Run, k \in Slot : TaskStep(q, k)
  BY <1>1, <1>2 DEF TypeOK
<1>3. CASE ~ \E q \in Run, k \in Slot : TaskStep(q, k)
  BY <1>3, BesideTheTasks
<1> QED
  BY <1>2, <1>3

\* What is over stays over.
LEMMA OverStays == ASSUME IInv, [Next]_vars, NEW r \in Run, status[r] \in Over PROVE status'[r] \in Over
<1>1. TypeOK
  BY DEF IInv
<1>2. CASE UNCHANGED store
  BY <1>2 DEF store
<1>3. CASE \E q \in Run : status[q] \notin Over /\ status' = [status EXCEPT ![q] = status'[q]]
  BY <1>1, <1>3 DEF TypeOK
<1>4. CASE status' = status
  BY <1>4
<1> QED
  BY <1>2, <1>3, <1>4, StoreStep

\* A turn that ended in failure is saved as one: nothing else happens to it.
LEMMA SaveFailedStays ==
  ASSUME IInv, [Next]_vars, NEW r \in Run \ cut', NEW k \in Slot, pc[r][k] = "saveFailed"
  PROVE  status'[r] \in Over \/ pc'[r][k] = "saveFailed"
<1>0. TypeOK /\ TaskInv /\ SlotFacts
  BY SlotsAreNumbers DEF IInv
<1>1. status[r] = "running"
  BY <1>0 DEF TaskInv, RowOfTask, Turning
<1>2. ASSUME NEW q \in Run, NEW j \in Slot, TaskStep(q, j) PROVE status'[r] \in Over \/ pc'[r][k] = "saveFailed"
  <2>1. CASE q = r /\ j = k
    <3>1. SettleRow(r, k)
      BY <1>2, <2>1 DEF TaskStep, Turn, ModelReply, ToolBatch, EmitTerminal, RunHook, Finish, ParkRow,
                        ParkApproval, Announce, Move
    <3>2. status' = [status EXCEPT ![r] = "failed"]
      BY <3>1 DEF SettleRow, Move, Refused
    <3> QED
      BY <1>0, <3>2 DEF TypeOK, Over
  <2>2. CASE q # r \/ j # k
    <3>1. PICK from, to : Move(q, j, from, to)
      BY <1>2 DEF TaskStep, Turn, ModelReply, ToolBatch, SettleRow, EmitTerminal, RunHook, Finish, ParkRow,
                  ParkApproval, Announce
    <3> QED
      BY <1>0, <2>2, <3>1, MoveEffect DEF Moved, TypeOK
  <2> QED
    BY <2>1, <2>2
<1>3. ASSUME NEW q \in Run, Start(q) PROVE pc'[r][k] = "saveFailed"
  <2>1. q # r
    BY <1>0, <1>3 DEF Start, Move, TaskInv, NotStarted, SlotFacts
  <2> QED
    BY <1>0, <1>3, <2>1, MoveEffect DEF Start, Moved, TypeOK, SlotFacts
<1>4. ASSUME NEW q \in Run, NEW j \in Step, Resume(q, j) PROVE pc'[r][k] = "saveFailed"
  BY <1>0, <1>4 DEF Resume, Move, TypeOK, SlotFacts
<1>5. ASSUME NEW q \in Run, NEW j \in Step, pc' = [pc EXCEPT ![q][j] = pc'[q][j]], status[q] = "waiting"
      PROVE  pc'[r][k] = "saveFailed"
  BY <1>0, <1>1, <1>5 DEF TypeOK
<1>6. ASSUME NEW d \in Decider, NEW q \in Run, NEW j \in Step,
             ReadRow(d, q, j) \/ ClaimWaiting(d, q, j) \/ ClaimFallback(d, q, j)
      PROVE  pc'[r][k] = "saveFailed"
  <2>1. \/ UNCHANGED pc
        \/ status[q] = "waiting" /\ \E to \in {"resume", "emit"} : pc' = [pc EXCEPT ![q][j] = to]
    BY <1>6 DEF ReadRow, ClaimWaiting, ClaimFallback, FailWaitingRun
  <2> QED
    BY <1>0, <1>1, <2>1 DEF TypeOK
<1>7. ASSUME NEW w \in Sweeper, SweepStep(w) PROVE pc'[r][k] = "saveFailed"
  <2>1. \/ UNCHANGED pc
        \/ \E q \in Run, j \in Step : status[q] = "waiting" /\ pc' = [pc EXCEPT ![q][j] = "emit"]
    BY <1>7 DEF SweepStep, SweepList, SweepMark, SweepFail, SweepNextRow, SweepDone, FailWaitingRun
  <2> QED
    BY <1>0, <1>1, <2>1 DEF TypeOK
<1>8. CASE UNCHANGED vars
  BY <1>8 DEF vars
<1>9. ASSUME NEW q \in Run, StopCheck(q) \/ StopInsert(q) \/ (\E j \in Step : Age(q, j)) PROVE pc' = pc
  BY <1>9 DEF StopCheck, StopInsert, Age
<1>10. ASSUME NEW d \in Decider, NEW q \in Run, NEW j \in Step, NEW v \in Decided, TakePending(d, q, j, v) PROVE pc' = pc
  BY <1>10 DEF TakePending
<1>11. ~ Crash
  BY <1>1 DEF Crash
<1> QED
  BY <1>2, <1>3, <1>4, <1>6, <1>7, <1>8, <1>9, <1>10, <1>11 DEF Next, DecideStep

\* Whoever takes the stop out of the set ends the turn with it, or the run is over.
LEMMA StopTaken ==
  ASSUME IInv, AllAttended, [Next]_vars, NEW r \in Run \ cut', r \in stopping, status[r] # "absent"
  PROVE  r \in stopping' \/ NoMoreCalls(r)'
<1>0. TypeOK
  BY DEF IInv
<1>1. ASSUME NEW q \in Run, NEW k \in Slot, TaskStep(q, k) PROVE r \in stopping' \/ NoMoreCalls(r)'
  <2>1. CASE stopping' = stopping \/ q # r
    BY <1>1, <2>1 DEF TaskStep, Turn, ModelReply, ToolBatch, SettleRow, EmitTerminal, RunHook, Finish, ParkRow,
                      ParkApproval, Announce
  <2>2. CASE q = r /\ (Turn(q, k) \/ ModelReply(q, k)) /\ stopping' # stopping
    <3>1. \E from : Move(r, k, from, "saveFailed")
      BY <2>2 DEF Turn, ModelReply
    <3>2. pc'[r][k] = "saveFailed"
      BY <1>0, <2>2, <3>1, MoveEffect DEF Moved, TypeOK
    <3> QED
      BY <3>2 DEF NoMoreCalls
  <2>3. CASE q = r /\ Finish(q, k)
    <3>1. pc[r][k] \in Closing /\ status' = status
      BY <2>3 DEF Finish, Move, Closing, store
    <3>2. status[r] \in Over
      BY <3>1, CutGrows DEF AllAttended, Kept, Attended
    <3> QED
      BY <3>1, <3>2 DEF NoMoreCalls
  <2> QED
    BY <1>1, <2>1, <2>2, <2>3 DEF TaskStep, ToolBatch, SettleRow, EmitTerminal, RunHook, ParkRow, ParkApproval, Announce
<1>2. CASE \E q \in Run, k \in Slot : TaskStep(q, k)
  BY <1>1, <1>2
<1>3. CASE ~ \E q \in Run, k \in Slot : TaskStep(q, k)
  BY <1>3, BesideTheTasks DEF Crash
<1> QED
  BY <1>2, <1>3

LEMMA StoppedStays ==
  ASSUME IInv, AllAttended, StopsKnown, [Next]_vars, NEW r \in Run, NEW n, Stopped(r, n)
  PROVE  Stopped(r, n)'
<1>0. TypeOK /\ TaskInv /\ cut \subseteq cut'
  BY CutGrows DEF IInv
<1>1. CASE r \in cut'
  BY <1>1 DEF Stopped
<1>2. CASE r \notin cut'
  <2>1. steps[r] = n /\ (r \in stopping \/ NoMoreCalls(r))
    BY <1>0, <1>2 DEF Stopped
  <2>2. NoMoreCalls(r) => NoMoreCalls(r)'
    BY <1>2, OverStays, SaveFailedStays DEF NoMoreCalls
  <2>3. r \in stopping \/ ~ \E k \in Slot : pc[r][k] = "turn"
    <3>1. ASSUME NEW k \in Slot, pc[r][k] = "turn", status[r] \in Over PROVE FALSE
      BY <1>0, <3>1 DEF TaskInv, RowOfTask, Turning, Over
    <3>2. ASSUME NEW k \in Slot, NEW j \in Slot, pc[r][k] = "turn", pc[r][j] = "saveFailed" PROVE FALSE
      BY <1>0, <3>2 DEF TaskInv, OneTask, Busy, Turning
    <3> QED
      BY <2>1, <3>1, <3>2 DEF NoMoreCalls
  <2>4. steps'[r] = steps[r]
    BY <1>0, <2>3, StepsStep
  <2>5. r \in stopping => r \in stopping' \/ NoMoreCalls(r)'
    BY <1>2, StopTaken DEF StopsKnown
  <2> QED
    BY <2>1, <2>2, <2>4, <2>5 DEF Stopped
<1> QED
  BY <1>1, <1>2

\* Once a stop is recorded the model is not called again for that run: take_stop,
\* the raced model call and finish are the only ones to take the stop out of the
\* set, and each of them leaves the run at its end.
THEOREM StopIsFinal == Spec => NoCallAfterStop
<1>1. Spec => [](IInv /\ AllAttended /\ StopsKnown)
  <2>1. Init => AllAttended /\ StopsKnown
    BY InitAttended DEF Init, StopsKnown
  <2>2. IInv /\ AllAttended /\ [Next]_vars => AllAttended'
    BY NextAttended
  <2>3. IInv /\ StopsKnown /\ [Next]_vars => StopsKnown'
    BY StopsStayKnown
  <2> QED
    BY <2>1, <2>2, <2>3, InductiveInvariant, PTL DEF Spec
<1>2. ASSUME NEW r \in Run, NEW n \in Slot
      PROVE  Spec => [](r \in stopping /\ steps[r] = n => [](steps[r] = n \/ r \in cut))
  <2>1. r \in stopping /\ steps[r] = n => Stopped(r, n)
    BY DEF Stopped
  <2>2. IInv /\ AllAttended /\ StopsKnown /\ Stopped(r, n) /\ [Next]_vars => Stopped(r, n)'
    BY StoppedStays
  <2>3. Stopped(r, n) => steps[r] = n \/ r \in cut
    BY DEF Stopped
  <2> QED
    BY <1>1, <2>1, <2>2, <2>3, PTL DEF Spec
<1> QED
  BY <1>2 DEF NoCallAfterStop
=============================================================================
