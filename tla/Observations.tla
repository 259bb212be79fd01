---------------------------- MODULE Observations ----------------------------
(***************************************************************************)
(* Screen observations: a run captures the desktop of its bot's machine    *)
(* (snap_desk), the image goes to the model with the next request, and the *)
(* model may answer with coordinates on that image (desk_act).  The frame  *)
(* is retained in a registry until it is used, replaced or invalidated;    *)
(* admission is bounded by three semaphores; a lock per bot guards its     *)
(* desktop (observations.rs, runs.rs, tools/mod.rs, vm.rs).                *)
(*                                                                         *)
(* A permit is an owned value of its holder and returns when the holder is *)
(* dropped, so the permits in use are counted from the holders.  What a    *)
(* person does in the machine's viewer, and what programs on it draw by    *)
(* themselves, the server does not see; every picture of a desktop keeps   *)
(* as history who in the server has changed it since.  Whatever changes it *)
(* takes its lock and drops its frames, with one exception: deliver prints *)
(* a PDF in the bot's browser without either.                              *)
(***************************************************************************)
EXTENDS Naturals, FiniteSets

CONSTANTS Run, Bot, None,
          MaxRetained,    \* MAX_RETAINED_FRAMES
          MaxDecodes,     \* MAX_CONCURRENT_DECODES
          MaxDispatches,  \* MAX_CONCURRENT_DISPATCHES
          MaxAttempts,    \* MAX_CAPTURE_ATTEMPTS_PER_RUN
          MaxImages,      \* MAX_IMAGE_DISPATCHES_PER_RUN
          MaxChanges      \* bound: generations after which nobody else changes a desktop

ASSUME LimitAssumption ==
  {MaxRetained, MaxDecodes, MaxDispatches, MaxAttempts, MaxImages, MaxChanges} \subseteq Nat
ASSUME RunAssumption == IsFiniteSet(Run)

VARIABLES
  bot,       \* runs.bot_id
  pc,        \* where the run's turn is
  stop,      \* RunManager.stopping
  attempts,  \* runs.screen_capture_attempts
  images,    \* runs.screen_image_dispatches
  frame,     \* ObservationRegistry.frames
  hand,      \* the ScreenObservation the turn owns
  lease,     \* CaptureReservation, CaptureWorkerLease, CapturedObservationFrame
  shot,      \* history: who has changed the desktop since the worker was started, or
             \* took the frame
  aim,       \* the metadata a coordinate action consumed
  desk,      \* who holds the lock of DesktopStateRegistry
  gen,       \* BotDesktopState.generation
  up         \* the machine runs

run == <<attempts, images, stop>>
machine == <<gen, up>>
vars == <<bot, pc, run, frame, hand, lease, shot, aim, desk, machine>>

PC == {"step", "model", "waiting", "snap", "claimed", "queued", "ensuring",
       "capturing", "act", "acting", "over"}
Free == [by |-> "none", run |-> None]
Tool == [by |-> "tool", run |-> None]
Held(kind, r) == [by |-> kind, run |-> r]
Who == {"deliver", "others"}
Frame == [id : Nat, gen : Nat, since : SUBSET Who, bytes : BOOLEAN]
Aim == [gen : Nat, since : SUBSET Who]

Init ==
  /\ bot \in [Run -> Bot]
  /\ pc = [r \in Run |-> "step"] /\ stop = {}
  /\ attempts = [r \in Run |-> 0] /\ images = [r \in Run |-> 0]
  /\ frame = [r \in Run |-> None]
  /\ hand = [r \in Run |-> "no"]
  /\ lease = [r \in Run |-> "no"] /\ shot = [r \in Run |-> {}]
  /\ aim = [r \in Run |-> None]
  /\ desk = [b \in Bot |-> Free]
  /\ gen = [b \in Bot |-> 0]
  /\ up \in [Bot -> BOOLEAN]

-----------------------------------------------------------------------------
\* The permits in use: a frame is retained while the registry or the turn has
\* its bytes, and from its reservation on.
Pixels(r) == hand[r] # "no" \/ (frame[r] # None /\ frame[r].bytes)
DecodeInUse == Cardinality({r \in Run : lease[r] # "no"})
RetainedInUse == Cardinality({r \in Run : Pixels(r)}) + DecodeInUse
DispatchInUse == Cardinality({r \in Run : hand[r] = "sent"})

Invalidated(b) == [r \in Run |-> IF bot[r] = b THEN None ELSE frame[r]]
Go(r, to) == pc' = [pc EXCEPT ![r] = to]
Unlock(b) == desk' = [desk EXCEPT ![b] = Free]

\* Slip: finish does not release the frame.
EndKeepsFrame(r) ==
  /\ Go(r, "over")
  /\ hand' = [hand EXCEPT ![r] = "no"]
  /\ stop' = stop \ {r}
  /\ UNCHANGED frame

\* settle and finish.
End(r) ==
  /\ Go(r, "over")
  /\ frame' = [frame EXCEPT ![r] = None]
  /\ hand' = [hand EXCEPT ![r] = "no"]
  /\ stop' = stop \ {r}

\* History: somebody changes a desktop, n times, and every picture of it keeps
\* that; frames and aims are those that are left.
After(pictures, b, n, who) ==
  [r \in Run |-> IF n > 0 /\ bot[r] = b /\ pictures[r] # None
                 THEN [pictures[r] EXCEPT !.since = @ \cup {who}] ELSE pictures[r]]
Changed(b, n, who, frames, aims) ==
  /\ frame' = After(frames, b, n, who)
  /\ aim' = After(aims, b, n, who)
  /\ shot' = [r \in Run |-> IF n > 0 /\ bot[r] = b /\ lease[r] \in {"child", "shot"}
                            THEN shot[r] \cup {who} ELSE shot[r]]

\* record_desktop_mutation, n times, and the m changes it announces.
Mutate(b, n, m, aims) ==
  /\ Changed(b, m, "others", IF n = 0 THEN frame ELSE Invalidated(b), aims)
  /\ gen' = [gen EXCEPT ![b] = @ + n]

\* Slip: waking the machine is not recorded.
EnsureSilent(b, extra, aims) ==
  \/ Mutate(b, extra, extra, aims) /\ UNCHANGED up
  \/ ~ up[b] /\ Mutate(b, extra, extra + 1, aims) /\ \E ok \in BOOLEAN : up' = [up EXCEPT ![b] = ok]

\* ensure_vm_in_locked: the machine runs, or docker does not answer; one that
\* does not run is started, which counts as a mutation and may fail.  extra:
\* what the holder records besides.
Ensure(b, extra, aims) ==
  \/ Mutate(b, extra, extra, aims) /\ UNCHANGED up
  \/ ~ up[b] /\ Mutate(b, extra + 1, extra + 1, aims) /\ \E ok \in BOOLEAN : up' = [up EXCEPT ![b] = ok]

-----------------------------------------------------------------------------
(***************************************************************************)
(* The turn.                                                               *)
(***************************************************************************)
\* The head of run_turn's loop: a stop ends the run, and so does the ceiling.
Halt(r) ==
  /\ pc[r] = "step"
  /\ End(r)
  /\ UNCHANGED <<bot, attempts, images, lease, shot, aim, desk, machine>>

\* A request without an image.
Ask(r) ==
  /\ pc[r] = "step" /\ r \notin stop /\ hand[r] = "no"
  /\ Go(r, "model")
  /\ UNCHANGED <<bot, run, frame, hand, lease, shot, aim, desk, machine>>

\* The image is not delivered: the model is no longer eligible, the dispatches
\* of the run are used up, or (one is claimed, but) the server's are all busy.
Withhold(r) ==
  /\ pc[r] = "step" /\ r \notin stop /\ hand[r] = "pending"
  /\ \/ UNCHANGED images
     \/ /\ images[r] < MaxImages /\ DispatchInUse >= MaxDispatches
        /\ images' = [images EXCEPT ![r] = @ + 1]
  /\ frame' = [frame EXCEPT ![r] = None]
  /\ hand' = [hand EXCEPT ![r] = "no"]
  /\ Go(r, "model")
  /\ UNCHANGED <<bot, attempts, stop, lease, shot, aim, desk, machine>>

Dispatch(r) ==
  /\ pc[r] = "step" /\ r \notin stop /\ hand[r] = "pending"
  /\ images[r] < MaxImages /\ DispatchInUse < MaxDispatches
  /\ images' = [images EXCEPT ![r] = @ + 1]
  /\ hand' = [hand EXCEPT ![r] = "sent"]
  /\ Go(r, "model")
  /\ UNCHANGED <<bot, attempts, stop, frame, lease, shot, aim, desk, machine>>

\* ObservationDispatch.complete: the registry keeps the metadata only.
Delivered(r) ==
  /\ hand' = [hand EXCEPT ![r] = "no"]
  /\ frame' = IF hand[r] = "sent" /\ frame[r] # None
              THEN [frame EXCEPT ![r].bytes = FALSE] ELSE frame

\* The model asks for a tool, at once or by way of Josh, or for one without a
\* part here.
Answer(r) ==
  /\ pc[r] = "model"
  /\ Delivered(r)
  /\ \E to \in {"step", "snap", "act", "waiting"} : Go(r, to)
  /\ UNCHANGED <<bot, run, lease, shot, aim, desk, machine>>

\* The model answers in words.
Close(r) ==
  /\ pc[r] = "model"
  /\ End(r)
  /\ UNCHANGED <<bot, attempts, images, lease, shot, aim, desk, machine>>

\* A dispatch that is dropped before it completed takes the frame with it; the
\* ladder may start the turn again on another model.
Fail(r) ==
  /\ pc[r] = "model"
  /\ \/ End(r)
     \/ /\ hand' = [hand EXCEPT ![r] = "no"]
        /\ frame' = IF hand[r] = "sent" THEN [frame EXCEPT ![r] = None] ELSE frame
        /\ Go(r, "step")
        /\ UNCHANGED stop
  /\ UNCHANGED <<bot, attempts, images, lease, shot, aim, desk, machine>>

\* Slip: the stop is taken and the stream read on.
StopImageReadsOn(r) ==
  /\ pc[r] = "model" /\ hand[r] = "sent" /\ r \in stop
  /\ stop' = stop \ {r}
  /\ UNCHANGED <<bot, pc, attempts, images, frame, hand, lease, shot, aim, desk, machine>>

\* An image in flight does not keep a stopped run waiting.
StopImage(r) ==
  /\ pc[r] = "model" /\ hand[r] = "sent" /\ r \in stop
  /\ End(r)
  /\ UNCHANGED <<bot, attempts, images, lease, shot, aim, desk, machine>>

\* decide_approval, or the sweep that expires what nobody decided.  Which of the
\* two calls waited is left open until it is approved.
Decide(r) ==
  /\ pc[r] = "waiting"
  /\ \/ \E to \in {"snap", "act", "step"} : Go(r, to) /\ UNCHANGED <<frame, hand, stop>>
     \/ End(r)
  /\ UNCHANGED <<bot, attempts, images, lease, shot, aim, desk, machine>>

-----------------------------------------------------------------------------
(***************************************************************************)
(* A capture.                                                              *)
(***************************************************************************)
\* claim_capture_attempt.
Claim(r) ==
  /\ pc[r] = "snap"
  /\ \/ /\ attempts[r] < MaxAttempts
        /\ attempts' = [attempts EXCEPT ![r] = @ + 1]
        /\ Go(r, "claimed")
     \/ Go(r, "step") /\ UNCHANGED attempts
  /\ UNCHANGED <<bot, images, stop, frame, hand, lease, shot, aim, desk, machine>>

\* Slip: the retained budget alone admits a capture.
AdmitRetained(r) ==
  /\ pc[r] = "claimed"
  /\ \/ /\ r \notin stop /\ RetainedInUse < MaxRetained
        /\ lease' = [lease EXCEPT ![r] = "reserved"]
        /\ Go(r, "queued")
     \/ Go(r, "step") /\ UNCHANGED lease
  /\ UNCHANGED <<bot, run, frame, hand, shot, aim, desk, machine>>

\* try_begin_capture.  Refused: the run is stopped, its model sees no images,
\* there are no machines, or all permits are out.
Admit(r) ==
  /\ pc[r] = "claimed"
  /\ \/ /\ r \notin stop /\ RetainedInUse < MaxRetained /\ DecodeInUse < MaxDecodes
        /\ lease' = [lease EXCEPT ![r] = "reserved"]
        /\ Go(r, "queued")
     \/ Go(r, "step") /\ UNCHANGED lease
  /\ UNCHANGED <<bot, run, frame, hand, shot, aim, desk, machine>>

\* ensure_vm_in_owned gets the lock and hands it to a task of its own.
TakeDesk(r) ==
  /\ pc[r] = "queued" /\ desk[bot[r]] = Free
  /\ desk' = [desk EXCEPT ![bot[r]] = Held("ensure", r)]
  /\ Go(r, "ensuring")
  /\ UNCHANGED <<bot, run, frame, hand, lease, shot, aim, machine>>

\* A stopped run does not wait for the desktop, nor for the task.
LeaveQueue(r) ==
  /\ pc[r] \in {"queued", "ensuring"} /\ r \in stop
  /\ lease' = [lease EXCEPT ![r] = "no"]
  /\ Go(r, "step")
  /\ UNCHANGED <<bot, run, frame, hand, shot, aim, desk, machine>>

\* Slip: the lock is forgotten when nobody waits for the task any more.
EnsuredForNobody(r) ==
  /\ desk[bot[r]] = Held("ensure", r)
  /\ Ensure(bot[r], 0, aim)
  /\ \/ /\ pc[r] = "ensuring" /\ r \notin stop
        /\ lease' = [lease EXCEPT ![r] = "child"]
        /\ desk' = [desk EXCEPT ![bot[r]] = Held("capture", r)]
        /\ Go(r, "capturing")
     \/ /\ pc[r] = "ensuring"
        /\ lease' = [lease EXCEPT ![r] = "no"]
        /\ Unlock(bot[r])
        /\ Go(r, "step")
     \/ pc[r] # "ensuring" /\ UNCHANGED <<desk, lease, pc>>
  /\ UNCHANGED <<bot, run, hand>>

\* The task ends, and a machine that did not start is not told from one that did.
\* The run, if it still waits, puts reservation and lock into
\* the lease of the worker that takes the frame, or gives both up.
Ensured(r) ==
  /\ desk[bot[r]] = Held("ensure", r)
  /\ Ensure(bot[r], 0, aim)
  /\ \/ /\ pc[r] = "ensuring" /\ r \notin stop
        /\ lease' = [lease EXCEPT ![r] = "child"]
        /\ desk' = [desk EXCEPT ![bot[r]] = Held("capture", r)]
        /\ Go(r, "capturing")
     \/ /\ pc[r] = "ensuring"
        /\ lease' = [lease EXCEPT ![r] = "no"]
        /\ Unlock(bot[r])
        /\ Go(r, "step")
     \/ pc[r] # "ensuring" /\ Unlock(bot[r]) /\ UNCHANGED <<lease, pc>>
  /\ UNCHANGED <<bot, run, hand>>

\* ffmpeg delivers.
Shoot(r) ==
  /\ lease[r] = "child" /\ up[bot[r]]
  /\ lease' = [lease EXCEPT ![r] = "shot"]
  /\ shot' = [shot EXCEPT ![r] = {}]
  /\ UNCHANGED <<bot, pc, run, frame, hand, aim, desk, machine>>

\* ffmpeg fails, runs out of time or is killed because nobody waits for it.
Reap(r) ==
  /\ lease[r] = "child"
  /\ lease' = [lease EXCEPT ![r] = "no"]
  /\ shot' = [shot EXCEPT ![r] = {}]
  /\ Unlock(bot[r])
  /\ IF pc[r] = "capturing" THEN Go(r, "step") ELSE UNCHANGED pc
  /\ UNCHANGED <<bot, run, frame, hand, aim, machine>>

\* Slip: the lock stays with the run, which lets it go when it leaves.
LeaveCaptureUnlocks(r) ==
  /\ pc[r] = "capturing" /\ r \in stop
  /\ Unlock(bot[r])
  /\ Go(r, "step")
  /\ UNCHANGED <<bot, run, frame, hand, lease, shot, aim, machine>>

\* A stopped run leaves the worker behind, with permits and lock.
LeaveCapture(r) ==
  /\ pc[r] = "capturing" /\ r \in stop
  /\ Go(r, "step")
  /\ UNCHANGED <<bot, run, frame, hand, lease, shot, aim, desk, machine>>

\* CapturedObservationFrame.dispose: of a stopped run, or nobody's.
Dispose(r) ==
  /\ lease[r] = "shot"
  /\ \/ pc[r] = "capturing" /\ r \in stop /\ Go(r, "step")
     \/ pc[r] # "capturing" /\ UNCHANGED pc
  /\ lease' = [lease EXCEPT ![r] = "no"]
  /\ Unlock(bot[r])
  /\ shot' = [shot EXCEPT ![r] = {}]
  /\ UNCHANGED <<bot, run, frame, hand, aim, machine>>

\* store, then the lock is let go.
Store(r) ==
  /\ lease[r] = "shot" /\ pc[r] = "capturing" /\ r \notin stop
  /\ frame' = [frame EXCEPT ![r] = [id |-> attempts[r], gen |-> gen[bot[r]], since |-> shot[r],
                                    bytes |-> TRUE]]
  /\ hand' = [hand EXCEPT ![r] = "pending"]
  /\ lease' = [lease EXCEPT ![r] = "no"]
  /\ shot' = [shot EXCEPT ![r] = {}]
  /\ Unlock(bot[r])
  /\ Go(r, "step")
  /\ UNCHANGED <<bot, run, aim, machine>>

-----------------------------------------------------------------------------
(***************************************************************************)
(* A coordinate action.                                                    *)
(***************************************************************************)
\* consume_coordinates for the id the model gives (0: one of another run's, or
\* made up), then record_desktop_mutation.  fits: OBSERVATION_MAX_AGE has not
\* passed, and the points lie inside the frame.
Consume(r, id, fits) ==
  LET b == bot[r]
      latest == frame[r] # None /\ frame[r].id = id
      fresh == frame[r].gen = gen[b] /\ fits IN
  /\ pc[r] = "act" /\ desk[b] = Free
  /\ \/ ~ latest /\ Go(r, "step") /\ UNCHANGED <<frame, shot, aim, desk, machine>>
     \/ /\ latest /\ ~ fresh
        /\ frame' = [frame EXCEPT ![r] = None]
        /\ Go(r, "step")
        /\ UNCHANGED <<shot, aim, desk, machine>>
     \/ /\ latest /\ fresh
        /\ Mutate(b, 1, 0, [aim EXCEPT ![r] = [gen |-> gen[b] + 1, since |-> frame[r].since]])
        /\ desk' = [desk EXCEPT ![b] = Held("act", r)]
        /\ Go(r, "acting")
        /\ UNCHANGED up
  /\ UNCHANGED <<bot, run, hand, lease>>

\* The machine is ensured; unless that woke it, xdotool acts on it, or fails.
Act(r) ==
  LET b == bot[r]
      others == [aim EXCEPT ![r] = None] IN
  /\ pc[r] = "acting" /\ desk[b] = Held("act", r)
  /\ \/ Ensure(b, 0, others)
     \/ /\ up[b] /\ gen[b] = aim[r].gen
        /\ Mutate(b, 0, 1, others)
        /\ UNCHANGED up
  /\ Unlock(b)
  /\ Go(r, "step")
  /\ UNCHANGED <<bot, run, hand, lease>>

-----------------------------------------------------------------------------
(***************************************************************************)
(* What else happens to the desktop, and to the runs.                      *)
(***************************************************************************)
\* Any other tool of any run or routine but deliver's PDF, the reaper, and the
\* routes that ensure and refresh a machine wait for the same lock.
ToolTakes(b) ==
  /\ desk[b] = Free /\ gen[b] < MaxChanges /\ \E r \in Run : bot[r] = b
  /\ desk' = [desk EXCEPT ![b] = Tool]
  /\ UNCHANGED <<bot, pc, run, frame, hand, lease, shot, aim, machine>>

\* read_page and a refused command change nothing but a sleeping machine;
\* desk_shell, browse, click, type_text and the keys of desk_act are recorded.
ToolRuns(b) ==
  /\ desk[b] = Tool
  /\ \E extra \in {0, 1} : Ensure(b, extra, aim)
  /\ Unlock(b)
  /\ UNCHANGED <<bot, pc, run, hand, lease>>

\* A browser tool whose worker dies has invalidated what it was about to
\* change, but the generation only advances at its end.
ToolDies(b) ==
  /\ desk[b] = Tool /\ up[b]
  /\ Changed(b, 1, "others", Invalidated(b), aim)
  /\ Unlock(b)
  /\ UNCHANGED <<bot, pc, run, hand, lease, machine>>

\* deliver of a PDF, whoever holds the lock: cdp_for_bot wakes a machine that
\* sleeps, print_pdf opens the page in the bot's browser; neither is recorded.
Deliver(b) ==
  /\ gen[b] < MaxChanges /\ \E r \in Run : bot[r] = b
  /\ Changed(b, 1, "deliver", frame, aim)
  /\ \E ok \in BOOLEAN : up' = [up EXCEPT ![b] = @ \/ ok]
  /\ UNCHANGED <<bot, pc, run, hand, lease, desk, gen>>

\* hibernate_idle_in_tracked, whose docker stop may fail.
Hibernate(b) ==
  /\ desk[b] = Tool
  /\ Mutate(b, 1, 1, aim)
  /\ \E ok \in BOOLEAN : up' = [up EXCEPT ![b] = @ /\ ~ ok]
  /\ Unlock(b)
  /\ UNCHANGED <<bot, pc, run, hand, lease>>

\* refresh_vm_in_tracked finds a machine that was starting stopped.
Refresh(b) ==
  /\ desk[b] = Tool /\ ~ up[b]
  /\ Mutate(b, 1, 1, aim)
  /\ Unlock(b)
  /\ UNCHANGED <<bot, pc, run, hand, lease, up>>

\* The machine dies.
Die(b) ==
  /\ up[b] /\ gen[b] < MaxChanges
  /\ up' = [up EXCEPT ![b] = FALSE]
  /\ UNCHANGED <<bot, pc, run, frame, hand, lease, shot, aim, desk, gen>>

Stop(r) ==
  /\ pc[r] # "over" /\ r \notin stop
  /\ stop' = stop \cup {r}
  /\ UNCHANGED <<bot, pc, attempts, images, frame, hand, lease, shot, aim, desk, machine>>

Model(r) == Answer(r) \/ Close(r) \/ Fail(r)
Task(r) ==
  \/ Halt(r) \/ Ask(r) \/ Withhold(r) \/ Dispatch(r) \/ StopImage(r)
  \/ Claim(r) \/ Admit(r) \/ LeaveQueue(r) \/ LeaveCapture(r) \/ Store(r) \/ Decide(r)
Locking(r) == TakeDesk(r) \/ \E id \in 0..MaxAttempts, fits \in BOOLEAN : Consume(r, id, fits)
Worker(r) == Ensured(r) \/ Shoot(r) \/ Reap(r) \/ Dispose(r) \/ Act(r)
OtherTool(b) == ToolRuns(b) \/ ToolDies(b) \/ Hibernate(b) \/ Refresh(b)

RunStep(r) == Task(r) \/ Model(r) \/ Locking(r) \/ Worker(r) \/ Stop(r)

Next ==
  \/ \E r \in Run : RunStep(r)
  \/ \E b \in Bot : ToolTakes(b) \/ OtherTool(b) \/ Deliver(b) \/ Die(b)

Spec == Init /\ [][Next]_vars

\* The runtime polls every task; docker calls and ffmpeg run under timeouts; the
\* lock of a desktop is fair; an approval is decided or expires.  The model
\* need not answer, and nobody need use another tool or stop anything.
Fairness ==
  /\ \A r \in Run : WF_vars(Task(r)) /\ WF_vars(Worker(r)) /\ SF_vars(Locking(r))
  /\ \A b \in Bot : WF_vars(OtherTool(b))

LiveSpec == Spec /\ Fairness

-----------------------------------------------------------------------------
(***************************************************************************)
(* Properties                                                              *)
(***************************************************************************)
TypeOK ==
  /\ bot \in [Run -> Bot]
  /\ pc \in [Run -> PC] /\ stop \subseteq Run
  /\ attempts \in [Run -> 0..MaxAttempts] /\ images \in [Run -> 0..MaxImages]
  /\ frame \in [Run -> Frame \cup {None}]
  /\ hand \in [Run -> {"no", "pending", "sent"}]
  /\ lease \in [Run -> {"no", "reserved", "child", "shot"}] /\ shot \in [Run -> SUBSET Who]
  /\ aim \in [Run -> Aim \cup {None}]
  /\ desk \in [Bot -> {Free, Tool} \cup [by : {"ensure", "capture", "act"}, run : Run]]
  /\ gen \in [Bot -> Nat]
  /\ up \in [Bot -> BOOLEAN]

\* Coordinates can reach the desktop only while it is as the server left it when
\* the frame was taken, but for what deliver printed on it (or woke it for)
\* since: no other tool, wake or hibernation in between, whichever run or
\* routine made it and however long the action waited for Josh or the lock.
FreshAction ==
  \A r \in Run :
    pc[r] = "acting" /\ desk[bot[r]] = Held("act", r) /\ up[bot[r]] /\ gen[bot[r]] = aim[r].gen =>
      aim[r].since \subseteq {"deliver"}

\* The frame is taken off a desktop that nobody but a deliver of a PDF changes
\* until the worker is gone, also when its run was stopped long before.
StillFrame ==
  \A r \in Run : lease[r] \in {"child", "shot"} => shot[r] \subseteq {"deliver"}

\* The three budgets hold, workers of stopped runs included.
Bounded ==
  /\ RetainedInUse <= MaxRetained
  /\ DecodeInUse <= MaxDecodes
  /\ DispatchInUse <= MaxDispatches

\* The registry keeps the bytes of a frame only while the turn still owes the
\* model that very image: every way a delivery ends gives them up.
PixelsAreOwed ==
  \A r \in Run : frame[r] # None /\ frame[r].bytes => hand[r] # "no"

\* A run that is over has left nothing behind but a worker that still holds its
\* desktop.
EndedHoldsNothing ==
  \A r \in Run : pc[r] = "over" =>
    /\ frame[r] = None /\ hand[r] = "no" /\ r \notin stop /\ aim[r] = None
    /\ lease[r] # "no" => desk[bot[r]] = Held("capture", r)

\* Where the turn is says what it owns; only a stopped run leaves a worker behind.
Owned ==
  \A r \in Run :
    /\ hand[r] = "pending" => pc[r] = "step"
    /\ hand[r] = "sent" => pc[r] = "model"
    /\ lease[r] = "reserved" <=> pc[r] \in {"queued", "ensuring"}
    /\ lease[r] \in {"child", "shot"} =>
         pc[r] \in {"capturing", "over"} \/ (pc[r] = "step" /\ r \in stop)
    /\ aim[r] # None => pc[r] = "acting"

\* The worker of a capture holds the desktop.
Captured ==
  \A r \in Run :
    /\ lease[r] \in {"child", "shot"} => desk[bot[r]] = Held("capture", r)
    /\ shot[r] # {} => lease[r] \in {"child", "shot"}

\* No frame outlives the screen it shows, what deliver does to it apart.
Current ==
  \A r \in Run : frame[r] # None =>
    frame[r].gen = gen[bot[r]] /\ frame[r].since \subseteq {"deliver"}

\* While an action holds the desktop no frame of it is left but the one it
\* consumed, which is still what the desktop shows.
Aiming ==
  \A r \in Run : desk[bot[r]] = Held("act", r) =>
    /\ aim[r].since \subseteq {"deliver"}
    /\ \A q \in Run : bot[q] = bot[r] => frame[q] = None

IInv ==
  /\ TypeOK /\ Owned /\ Captured /\ Current /\ Aiming
  /\ FreshAction /\ StillFrame /\ PixelsAreOwed /\ EndedHoldsNothing

\* Nobody keeps a desktop for ever.
DeskComesFree ==
  \A b \in Bot : desk[b] # Free ~> desk[b] = Free

\* A stop ends the run wherever it finds it, without the model's help when an
\* image is in flight; only a request without an image has to be answered.
StopEnds ==
  \A r \in Run :
    r \in stop /\ ~ (pc[r] = "model" /\ hand[r] = "no") ~> pc[r] = "over"
=============================================================================
