---------------------------- MODULE Interjections ----------------------------
(***************************************************************************)
(* Messages posted into one thread while its bot is at work                *)
(* (routes/messages.rs post_message; RunManager::interject,                *)
(* take_interjections and finish in runs.rs).                              *)
(*                                                                         *)
(* A post appends its message, looks for a running run and builds the      *)
(* prompt of a new one in a single database section.  A running run gets   *)
(* the message: interject checks the row again and pushes the text on the  *)
(* run's queue, which the run drains before each model call.  Otherwise    *)
(* the post starts a run of its own.  The check and the push are two       *)
(* critical sections, and so are the settling of the row and the disposal  *)
(* of the queue.                                                           *)
(***************************************************************************)
EXTENDS Naturals

CONSTANTS Message,   \* the messages posted into the thread, one post each
          Run,       \* run ids
          NoRun,     \* no running run in the thread
          MaxSteps   \* MAX_STEPS

ASSUME NoRunAssumption == NoRun \notin Run
ASSUME MaxStepsAssumption == MaxSteps \in Nat \ {0}

VARIABLES
  row,      \* runs.status
  older,    \* runs.created_at: the runs inserted before this one
  pc,       \* where the task of a run is
  steps,    \* model calls made
  queue,    \* RunManager.interjections
  thread,   \* messages appended to the conversation
  prompt,   \* history: messages in the prompt the run was started with
  heard,    \* history: how often a request of the run quoted the message
  dropped,  \* history: messages disposed of with a queue
  post      \* the post of each message

vars == <<row, older, pc, steps, queue, thread, prompt, heard, dropped, post>>

RowStatus == {"absent", "running", "waiting", "over"}
TaskPC == {"none", "head", "model", "parked", "finish", "gone"}

Posting(p, r, known) == [pc |-> p, run |-> r, known |-> known]
PostState == [pc : {"idle", "interject", "push", "start", "over"},
              run : Run \cup {NoRun}, known : SUBSET Message]

TypeOK ==
  /\ row \in [Run -> RowStatus]
  /\ older \in [Run -> SUBSET Run]
  /\ pc \in [Run -> TaskPC]
  /\ steps \in [Run -> 0 .. MaxSteps]
  /\ queue \in [Run -> SUBSET Message]
  /\ thread \subseteq Message
  /\ prompt \in [Run -> SUBSET Message]
  /\ heard \in [Run -> [Message -> Nat]]
  /\ dropped \subseteq Message
  /\ post \in [Message -> PostState]

Init ==
  /\ row = [r \in Run |-> "absent"]
  /\ older = [r \in Run |-> {}]
  /\ pc = [r \in Run |-> "none"]
  /\ steps = [r \in Run |-> 0]
  /\ queue = [r \in Run |-> {}]
  /\ thread = {}
  /\ prompt = [r \in Run |-> {}]
  /\ heard = [r \in Run |-> [m \in Message |-> 0]]
  /\ dropped = {}
  /\ post = [m \in Message |-> Posting("idle", NoRun, {})]

runVars == <<row, older, pc, steps, prompt, heard, dropped>>

-----------------------------------------------------------------------------
(***************************************************************************)
(* A post                                                                  *)
(***************************************************************************)

Running == {r \in Run : row[r] = "running"}

\* The newest running run of the thread, if any.
Active(r) ==
  IF Running = {} THEN r = NoRun
  ELSE r \in Running /\ Running \subseteq older[r] \cup {r}

At(m, p) == post[m].pc = p
Go(m, p) == post' = [post EXCEPT ![m].pc = p]

\* Slip: the message is appended after the history was read.
PostLate(m) ==
  /\ At(m, "idle")
  /\ thread' = thread \cup {m}
  /\ \E r \in Run \cup {NoRun} :
       /\ Active(r)
       /\ post' = [post EXCEPT ![m] =
                     Posting(IF r = NoRun THEN "start" ELSE "interject", r, thread)]
  /\ UNCHANGED <<runVars, queue>>

\* One database section: append, look for the active run, read the history.
Post(m) ==
  /\ At(m, "idle")
  /\ thread' = thread \cup {m}
  /\ \E r \in Run \cup {NoRun} :
       /\ Active(r)
       /\ post' = [post EXCEPT ![m] =
                     Posting(IF r = NoRun THEN "start" ELSE "interject", r, thread')]
  /\ UNCHANGED <<runVars, queue>>

\* interject's first section: is the run still running?
Recheck(m) ==
  /\ At(m, "interject")
  /\ Go(m, IF row[post[m].run] = "running" THEN "push" ELSE "start")
  /\ UNCHANGED <<runVars, queue, thread>>

\* interject's second section.
Push(m) ==
  /\ At(m, "push")
  /\ queue' = [queue EXCEPT ![post[m].run] = @ \cup {m}]
  /\ Go(m, "over")
  /\ UNCHANGED <<runVars, thread>>

\* start_with_notice: the row is inserted as running with the prompt built
\* in the post's database section, and the task is spawned.  (An insert that
\* fails is told to the caller as the run's error: RunStream has it.)
Start(m, r) ==
  /\ At(m, "start")
  /\ row[r] = "absent"
  /\ row' = [row EXCEPT ![r] = "running"]
  /\ older' = [older EXCEPT ![r] = {q \in Run : row[q] # "absent"}]
  /\ pc' = [pc EXCEPT ![r] = "head"]
  /\ prompt' = [prompt EXCEPT ![r] = post[m].known]
  /\ Go(m, "over")
  /\ UNCHANGED <<steps, queue, thread, heard, dropped>>

-----------------------------------------------------------------------------
(***************************************************************************)
(* The run                                                                 *)
(***************************************************************************)

\* settle writes the row; the queue is still there until finish.
SettleRow(r) ==
  /\ row' = [row EXCEPT ![r] = "over"]
  /\ pc' = [pc EXCEPT ![r] = "finish"]
  /\ UNCHANGED <<older, steps, queue, thread, prompt, heard, dropped, post>>

\* Slip: the prompt is read again with the queue.
DrainRereads(r) ==
  /\ pc[r] = "head"
  /\ steps[r] < MaxSteps
  /\ heard' = [heard EXCEPT ![r] =
                 [m \in Message |-> IF m \in queue[r] THEN @[m] + 1 ELSE @[m]]]
  /\ queue' = [queue EXCEPT ![r] = {}]
  /\ prompt' = [prompt EXCEPT ![r] = thread]
  /\ steps' = [steps EXCEPT ![r] = @ + 1]
  /\ pc' = [pc EXCEPT ![r] = "model"]
  /\ UNCHANGED <<row, older, thread, dropped, post>>

\* The loop head drains the queue into the request of this step.
Drain(r) ==
  /\ pc[r] = "head"
  /\ steps[r] < MaxSteps
  /\ heard' = [heard EXCEPT ![r] =
                 [m \in Message |-> IF m \in queue[r] THEN @[m] + 1 ELSE @[m]]]
  /\ queue' = [queue EXCEPT ![r] = {}]
  /\ steps' = [steps EXCEPT ![r] = @ + 1]
  /\ pc' = [pc EXCEPT ![r] = "model"]
  /\ UNCHANGED <<row, older, thread, prompt, dropped, post>>

\* The step limit or a stop ends the turn before the drain.
EndTurn(r) == pc[r] = "head" /\ SettleRow(r)

\* The model answers, or fails: the turn ends.  What was queued during this
\* call is not looked at.
Answer(r) == pc[r] = "model" /\ SettleRow(r)

\* The model asks for tools: they run and the loop goes round.
Tools(r) ==
  /\ pc[r] = "model"
  /\ pc' = [pc EXCEPT ![r] = "head"]
  /\ UNCHANGED <<row, older, steps, queue, thread, prompt, heard, dropped, post>>

\* ... or one of them needs an approval.
Park(r) ==
  /\ pc[r] = "model"
  /\ row' = [row EXCEPT ![r] = "waiting"]
  /\ pc' = [pc EXCEPT ![r] = "parked"]
  /\ UNCHANGED <<older, steps, queue, thread, prompt, heard, dropped, post>>

\* decide_approval resumes the run; its turn starts at the loop head.
Resume(r) ==
  /\ pc[r] = "parked"
  /\ row' = [row EXCEPT ![r] = "running"]
  /\ pc' = [pc EXCEPT ![r] = "head"]
  /\ UNCHANGED <<older, steps, queue, thread, prompt, heard, dropped, post>>

\* The approval expires and the waiting run fails.
Expire(r) == pc[r] = "parked" /\ SettleRow(r)

\* Slip: finish forgets the queue.
FinishKept(r) ==
  /\ pc[r] = "finish"
  /\ pc' = [pc EXCEPT ![r] = "gone"]
  /\ UNCHANGED <<row, older, steps, thread, queue, prompt, heard, dropped, post>>

\* finish disposes of what is left in the queue.
Finish(r) ==
  /\ pc[r] = "finish"
  /\ dropped' = dropped \cup queue[r]
  /\ queue' = [queue EXCEPT ![r] = {}]
  /\ pc' = [pc EXCEPT ![r] = "gone"]
  /\ UNCHANGED <<row, older, steps, thread, prompt, heard, post>>

-----------------------------------------------------------------------------
PostStep(m) == Post(m) \/ Recheck(m) \/ Push(m) \/ (\E r \in Run : Start(m, r))
RunStep(r) == \/ Drain(r) \/ EndTurn(r) \/ Answer(r) \/ Tools(r)
              \/ Park(r) \/ Resume(r) \/ Expire(r) \/ Finish(r)
Next == (\E m \in Message : PostStep(m)) \/ (\E r \in Run : RunStep(r))
Spec == Init /\ [][Next]_vars

\* Handlers and tasks are scheduled; a model call ends (the port times out);
\* a wait ends (the sweep).  Nobody is obliged to post.
Fairness ==
  /\ \A m \in Message : WF_vars(Recheck(m) \/ Push(m) \/ (\E r \in Run : Start(m, r)))
  /\ \A r \in Run : WF_vars(RunStep(r))
LiveSpec == Spec /\ Fairness

-----------------------------------------------------------------------------
(***************************************************************************)
(* Properties                                                              *)
(***************************************************************************)

\* take_interjections: "each interjection is delivered exactly once" - no
\* message is quoted twice, not even in two runs, and none that was quoted
\* is still queued.
QuotedOnce ==
  \A m \in Message, r \in Run :
    /\ heard[r][m] <= 1
    /\ heard[r][m] = 1 =>
         \A q \in Run : m \notin queue[q] /\ (q # r => heard[q][m] = 0)

\* A run is never told as news what its prompt already contains: the append
\* and the look-up of the active run share a database section, so a run that
\* can be found was prompted before the message existed.
NewsToTheRun ==
  \A m \in Message, r \in Run : heard[r][m] + (IF m \in queue[r] THEN 1 ELSE 0) > 0
                                   => m \notin prompt[r]

\* A message whose post is over started a run, or is queued, or was quoted,
\* or was disposed of: there is no fifth way.
Accounted ==
  \A m \in Message : At(m, "over") =>
    \/ \E r \in Run : m \in prompt[r] \cup queue[r] \/ heard[r][m] > 0
    \/ m \in dropped

\* A message never both joins a run and starts one of its own.
JoinsOrStarts ==
  \A m \in Message : At(m, "start") =>
    \A r \in Run : m \notin queue[r] /\ heard[r][m] = 0

\* The inductive invariant behind these: a message under way is nowhere
\* yet and knows a run that was prompted without it; a message handed over is
\* in one place; a run without a row has nothing.
UnderWay ==
  \A m \in Message :
    /\ At(m, "idle") <=> m \notin thread
    /\ post[m].known \subseteq thread
    /\ m \in thread => m \in post[m].known
    /\ post[m].pc \in {"interject", "push"} =>
         /\ post[m].run \in Run
         /\ row[post[m].run] # "absent"
         /\ m \notin prompt[post[m].run]

OnePlace ==
  \A m \in Message, r \in Run :
    /\ ~At(m, "over") => m \notin queue[r] /\ heard[r][m] = 0
    /\ m \in queue[r] => \A q \in Run : heard[q][m] = 0 /\ (m \in queue[q] => q = r)

NoRowNothing ==
  \A r \in Run :
    /\ prompt[r] \subseteq thread
    /\ row[r] = "absent" =>
         prompt[r] = {} /\ queue[r] = {} /\ \A m \in Message : heard[r][m] = 0

IInv == TypeOK /\ UnderWay /\ OnePlace /\ NoRowNothing
        /\ QuotedOnce /\ NewsToTheRun /\ Accounted

\* A queue does not outlive its run unless the message came after finish.
QueueMoves ==
  \A m \in Message, r \in Run :
    (m \in queue[r] /\ pc[r] # "gone") ~> (m \notin queue[r])

\* interject: "a delivered-too-late message still becomes an ordinary new run
\* rather than vanishing" - no message ends up in a queue nobody will read.
NeverVanishes ==
  /\ dropped = {}
  /\ \A r \in Run : pc[r] = "gone" => queue[r] = {}
=============================================================================
