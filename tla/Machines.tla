------------------------------ MODULE Machines ------------------------------
(***************************************************************************)
(* The machine of each bot: a row in vms, a container in docker, and who    *)
(* moves them (vm.rs, store/vms.rs, routes/vms.rs, desk.rs).  A tool takes   *)
(* the desktop lock of its bot, creates or wakes the machine and keeps the  *)
(* lock while it works; a delivery (deliver's pdf) does the same without    *)
(* the lock; the panel settles a row that is starting; the reaper stops     *)
(* what nobody has used; and a bot can be deleted for good, and another one *)
(* be given its name.  A docker call takes effect, or is reported to have    *)
(* failed (with or without effect), before its caller writes the row.       *)
(*                                                                         *)
(* Time is told by stamps: one is fresh, then old, which is idle_ms and     *)
(* more ago, and past once a sweep has started since.                       *)
(***************************************************************************)
EXTENDS Naturals, FiniteSetsExt

CONSTANTS Bot,
          Slots,      \* VmConfig.slots
          MaxUses,    \* bound: requests for a machine
          MaxMishaps  \* bound: restarts of the server and deletions of a bot

ASSUME MachinesAssumption == Slots \in Nat /\ MaxUses \in Nat /\ MaxMishaps \in Nat

VARIABLES
  alive,    \* the bots there are
  row,      \* vms
  box,      \* docker: the container named after the bot, and what its ports are
  desk,     \* who has the bot's desktop lock
  at,       \* where each caller is with the bot's machine
  sweep,    \* the reaper: what it still has to look at, and what it is at
  uses,     \* bound: requests so far
  mishaps,  \* bound: restarts and deletions so far
  excused   \* history: machines that docker, a restart, a deletion or a
            \* delivery beside another caller got in the way of

callers == <<desk, at, sweep>>
limits == <<uses, mishaps>>
machines == <<alive, row, box, callers, limits, excused>>

Slot == 1..Slots
Stamp == {"fresh", "old", "past"}
NoRow == [slot |-> 0, state |-> "none", used |-> "past"]
NoBox == [is |-> "absent", slot |-> 0]
Caller == {"tool", "delivery", "panel"}
Away == [pc |-> "away", slot |-> 0, stamp |-> "past", ok |-> TRUE]
Resting == [todo |-> {}, pc |-> "rest"]

MachinesOK ==
  /\ alive \subseteq Bot /\ excused \subseteq Bot
  /\ row \in [Bot -> [slot : 0..Slots, state : {"none", "new", "starting", "running", "stopped"}, used : Stamp]]
  /\ box \in [Bot -> [is : {"absent", "created", "exited", "running"}, slot : 0..Slots]]
  /\ desk \in [Bot -> {"free", "tool", "panel", "reaper"}]
  /\ at \in [Bot -> [Caller -> [pc : {"away", "inspect", "run", "start", "answered", "has"},
                                slot : 0..Slots, stamp : Stamp, ok : BOOLEAN]]]
  /\ sweep \in [todo : SUBSET Bot, pc : {"rest", "going", "stop", "write"}]
  /\ uses \in 0..MaxUses /\ mishaps \in 0..MaxMishaps

MachinesInit ==
  /\ alive = Bot
  /\ row = [b \in Bot |-> NoRow] /\ box = [b \in Bot |-> NoBox]
  /\ desk = [b \in Bot |-> "free"]
  /\ at = [b \in Bot |-> [k \in Caller |-> Away]]
  /\ sweep = Resting
  /\ uses = 0 /\ mishaps = 0 /\ excused = {}

-----------------------------------------------------------------------------
HasRow(b) == row[b] # NoRow
Awake(b) == row[b].state \in {"running", "starting"}
FreeSlots == Slot \ {row[b].slot : b \in Bot}

\* An UPDATE of a row that is gone does nothing.
Touch(b, stamp, state) ==
  row' = IF HasRow(b) THEN [row EXCEPT ![b] = [@ EXCEPT !.state = state, !.used = stamp]] ELSE row
SetState(b, state) ==
  row' = IF HasRow(b) THEN [row EXCEPT ![b].state = state] ELSE row

Go(b, k, pc) == at' = [at EXCEPT ![b][k].pc = pc]
Answer(b, k, ok) == at' = [at EXCEPT ![b][k].pc = "answered", ![b][k].ok = ok]
Leave(b, k) ==
  /\ at' = [at EXCEPT ![b][k] = Away]
  /\ desk' = IF k = "delivery" THEN desk ELSE [desk EXCEPT ![b] = "free"]

\* What a row without a machine, or a machine without a row, is put down to.
Overlap == {b \in Bot : at'[b]["delivery"].pc # "away" /\ desk'[b] # "free"}
Excuse(more) == excused' = excused \cup more \cup Overlap

-----------------------------------------------------------------------------
(***************************************************************************)
(* Docker.  A container that runs holds its ports.                          *)
(***************************************************************************)
Taken(b, slot) == \E c \in Bot \ {b} : box[c] = [is |-> "running", slot |-> slot]

\* docker run, as it comes out: a name that is taken, ports that are taken (the
\* container stays behind, created), or a machine that runs.
DockerRun(b, slot) ==
  CASE box[b].is # "absent" -> [done |-> FALSE, box |-> box[b]]
    [] box[b].is = "absent" /\ Taken(b, slot) -> [done |-> FALSE, box |-> [is |-> "created", slot |-> slot]]
    [] OTHER -> [done |-> TRUE, box |-> [is |-> "running", slot |-> slot]]

DockerStart(b) ==
  CASE box[b].is \notin {"absent", "running"} /\ ~Taken(b, box[b].slot) ->
         [done |-> TRUE, box |-> [box[b] EXCEPT !.is = "running"]]
    [] OTHER -> [done |-> box[b].is = "running", box |-> box[b]]

DockerStop(b) ==
  [done |-> box[b].is # "absent",
   box |-> IF box[b].is = "running" THEN [box[b] EXCEPT !.is = "exited"] ELSE box[b]]

\* The call comes back as it went, or as failed; a failure excuses.
Called(b, result, ok) ==
  \/ /\ ok = result.done
     /\ box' = [box EXCEPT ![b] = result.box]
     /\ Excuse({})
  \/ /\ ~ok
     /\ box' \in {box, [box EXCEPT ![b] = result.box]}
     /\ Excuse({b})

-----------------------------------------------------------------------------
(***************************************************************************)
(* ensure_vm_in: the row, what docker says of the container, one call, and  *)
(* the row again.  The stamp is taken first and written last.               *)
(***************************************************************************)
Ask(b, k) ==
  /\ k \in {"tool", "delivery"} /\ at[b][k] = Away /\ uses < MaxUses /\ b \in alive
  /\ IF k = "tool" THEN desk[b] = "free" /\ desk' = [desk EXCEPT ![b] = "tool"] ELSE UNCHANGED desk
  /\ HasRow(b) \/ FreeSlots # {}
  /\ LET slot == IF HasRow(b) THEN row[b].slot ELSE Min(FreeSlots) IN
       /\ row' = IF HasRow(b) THEN row
                 ELSE [row EXCEPT ![b] = [slot |-> slot, state |-> "new", used |-> "fresh"]]
       /\ at' = [at EXCEPT ![b][k] = [pc |-> "inspect", slot |-> slot, stamp |-> "fresh", ok |-> TRUE]]
  /\ uses' = uses + 1
  /\ Excuse({})
  /\ UNCHANGED <<alive, box, sweep, mishaps>>

\* An answer that is not understood counts as no container.
Inspect(b, k) ==
  /\ UNCHANGED <<alive, box, sweep, limits, desk>>
  /\ k \in {"tool", "delivery"} /\ at[b][k].pc = "inspect"
  /\ \/ /\ box[b].is = "running"
        /\ Touch(b, at[b][k].stamp, "running") /\ Go(b, k, "has") /\ Excuse({})
     \/ /\ box[b].is \in {"created", "exited"} /\ Go(b, k, "start") /\ Excuse({}) /\ UNCHANGED row
     \/ /\ box[b].is = "absent" /\ Go(b, k, "run") /\ Excuse({}) /\ UNCHANGED row
     \/ /\ Go(b, k, "run") /\ Excuse({b}) /\ UNCHANGED row

Run(b, k) ==
  /\ UNCHANGED <<alive, row, sweep, limits, desk>>
  /\ at[b][k].pc = "run"
  /\ \E ok \in BOOLEAN : Answer(b, k, ok) /\ Called(b, DockerRun(b, at[b][k].slot), ok)

Start(b, k) ==
  /\ UNCHANGED <<alive, row, sweep, limits, desk>>
  /\ at[b][k].pc = "start"
  /\ \E ok \in BOOLEAN : Answer(b, k, ok) /\ Called(b, DockerStart(b), ok)

\* Slip: a machine that was started is not written down.
RecordFailures(b, k) ==
  /\ UNCHANGED <<alive, box, sweep, limits, desk>>
  /\ k \in {"tool", "delivery"} /\ at[b][k].pc = "answered"
  /\ IF at[b][k].ok THEN UNCHANGED row ELSE Touch(b, at[b][k].stamp, "stopped")
  /\ Go(b, k, "has")
  /\ Excuse({})

\* The caller gets its desk either way: ok says whether the machine is up.
Record(b, k) ==
  /\ UNCHANGED <<alive, box, sweep, limits, desk>>
  /\ k \in {"tool", "delivery"} /\ at[b][k].pc = "answered"
  /\ Touch(b, at[b][k].stamp, IF at[b][k].ok THEN "starting" ELSE "stopped")
  /\ Go(b, k, "has")
  /\ Excuse({})

\* The tool is done: with the lock goes the desk.
Release(b, k) ==
  /\ k \in {"tool", "delivery"} /\ at[b][k].pc = "has"
  /\ Leave(b, k)
  /\ Excuse({})
  /\ UNCHANGED <<alive, row, box, sweep, limits>>

-----------------------------------------------------------------------------
\* A request of the viewer marks the machine used, whatever its state.
View(b) ==
  /\ UNCHANGED <<alive, box, callers, mishaps>>
  /\ HasRow(b) /\ b \in alive /\ uses < MaxUses
  /\ row' = [row EXCEPT ![b].used = "fresh"]
  /\ uses' = uses + 1
  /\ Excuse({})

\* refresh_vm_in_tracked, of a row that is starting; looking is not using.
Look(b) ==
  /\ b \in alive /\ row[b].state = "starting" /\ desk[b] = "free"
  /\ desk' = [desk EXCEPT ![b] = "panel"]
  /\ at' = [at EXCEPT ![b]["panel"].pc = "inspect"]
  /\ Excuse({})
  /\ UNCHANGED <<alive, row, box, sweep, limits>>

\* No container, or no answer, changes nothing.
Looked(b) ==
  /\ at[b]["panel"].pc = "inspect"
  /\ \/ /\ box[b].is # "absent"
        /\ Answer(b, "panel", box[b].is = "running") /\ UNCHANGED desk
     \/ Leave(b, "panel")
  /\ Excuse({})
  /\ UNCHANGED <<alive, row, box, sweep, limits>>

Settle(b) ==
  /\ at[b]["panel"].pc = "answered"
  /\ SetState(b, IF at[b]["panel"].ok THEN "running" ELSE "stopped")
  /\ Leave(b, "panel")
  /\ Excuse({})
  /\ UNCHANGED <<alive, box, sweep, limits>>

-----------------------------------------------------------------------------
(***************************************************************************)
(* hibernate_idle_in_tracked, every minute.  What was idle when it started  *)
(* is past; each machine is looked at again under its lock.                 *)
(***************************************************************************)
Passed(stamp) == IF stamp = "fresh" THEN "fresh" ELSE "past"

\* Slip: a machine that is still starting is not the reaper's.
SweepRunning ==
  /\ UNCHANGED <<alive, box, desk, limits>>
  /\ sweep.pc = "rest"
  /\ sweep' = [todo |-> {b \in Bot : row[b].state = "running"}, pc |-> "going"]
  /\ row' = [b \in Bot |-> [row[b] EXCEPT !.used = Passed(@)]]
  /\ at' = [b \in Bot |-> [k \in Caller |-> [at[b][k] EXCEPT !.stamp = Passed(@)]]]
  /\ Excuse({})

Sweep ==
  /\ sweep.pc = "rest"
  /\ sweep' = [todo |-> {b \in Bot : Awake(b)}, pc |-> "going"]
  /\ row' = [b \in Bot |-> [row[b] EXCEPT !.used = Passed(@)]]
  /\ at' = [b \in Bot |-> [k \in Caller |-> [at[b][k] EXCEPT !.stamp = Passed(@)]]]
  /\ UNCHANGED desk
  /\ Excuse({})
  /\ UNCHANGED <<alive, box, limits>>

SweepEnd ==
  /\ sweep = [todo |-> {}, pc |-> "going"]
  /\ sweep' = Resting
  /\ UNCHANGED <<alive, row, box, desk, at, limits, excused>>

\* The machine was used, put to sleep or deleted in the meantime.
Spare(b) ==
  /\ sweep.pc = "going" /\ b \in sweep.todo /\ desk[b] = "free"
  /\ ~Awake(b) \/ row[b].used # "past"
  /\ sweep' = [sweep EXCEPT !.todo = @ \ {b}]
  /\ UNCHANGED <<alive, row, box, desk, at, limits, excused>>

\* Slip: hibernate_idle_in, which does not take the lock.
StopUnlocked(b) ==
  /\ sweep.pc = "going" /\ b \in sweep.todo
  /\ Awake(b) /\ row[b].used = "past"
  /\ desk' = [desk EXCEPT ![b] = "reaper"]
  /\ sweep' = [todo |-> sweep.todo, pc |-> "stop"]
  /\ UNCHANGED at
  /\ Excuse({})
  /\ UNCHANGED <<alive, row, box, limits>>

Doom(b) ==
  /\ sweep.pc = "going" /\ b \in sweep.todo /\ desk[b] = "free"
  /\ Awake(b) /\ row[b].used = "past"
  /\ desk' = [desk EXCEPT ![b] = "reaper"]
  /\ sweep' = [sweep EXCEPT !.pc = "stop"]
  /\ UNCHANGED at
  /\ Excuse({})
  /\ UNCHANGED <<alive, row, box, limits>>

Stop(b) ==
  /\ sweep.pc = "stop" /\ desk[b] = "reaper"
  /\ sweep' = [sweep EXCEPT !.pc = "write"]
  /\ UNCHANGED <<desk, at>>
  /\ \E ok \in BOOLEAN : Called(b, DockerStop(b), ok)
  /\ UNCHANGED <<alive, row, limits>>

\* Whatever docker said.
Asleep(b) ==
  /\ sweep.pc = "write" /\ desk[b] = "reaper"
  /\ SetState(b, "stopped")
  /\ sweep' = [todo |-> sweep.todo \ {b}, pc |-> "going"]
  /\ desk' = [desk EXCEPT ![b] = "free"]
  /\ UNCHANGED at
  /\ Excuse({})
  /\ UNCHANGED <<alive, box, limits>>

-----------------------------------------------------------------------------
\* idle_ms pass: what was fresh is old, stamps still to be written included.
Aged(stamp) == IF stamp = "fresh" THEN "old" ELSE stamp
IdlePasses ==
  /\ \E b \in Bot : "fresh" \in {row[b].used} \cup {at[b][k].stamp : k \in Caller}
  /\ row' = [b \in Bot |-> [row[b] EXCEPT !.used = Aged(@)]]
  /\ at' = [b \in Bot |-> [k \in Caller |-> [at[b][k] EXCEPT !.stamp = Aged(@)]]]
  /\ UNCHANGED <<alive, box, desk, sweep, limits, excused>>

\* hard_delete_bot takes the row; the container stays as it is.
Delete(b) ==
  /\ b \in alive
  /\ mishaps < MaxMishaps
  /\ mishaps' = mishaps + 1
  /\ alive' = alive \ {b}
  /\ row' = [row EXCEPT ![b] = NoRow]
  /\ UNCHANGED callers
  /\ Excuse({b})
  /\ UNCHANGED <<box, uses>>

\* A bot whose name gives it the id of one that was deleted.
Create(b) ==
  /\ b \notin alive
  /\ alive' = alive \cup {b}
  /\ UNCHANGED <<row, box, callers, limits, excused>>

\* The server is killed and started again: locks, calls and the sweep are gone.
Crash ==
  /\ mishaps < MaxMishaps
  /\ mishaps' = mishaps + 1
  /\ excused' = excused \cup {b \in Bot : at[b] # [k \in Caller |-> Away] \/ desk[b] # "free"}
  /\ desk' = [b \in Bot |-> "free"]
  /\ at' = [b \in Bot |-> [k \in Caller |-> Away]]
  /\ sweep' = Resting
  /\ UNCHANGED <<alive, row, box, uses>>

Ensuring(b, k) == Inspect(b, k) \/ Run(b, k) \/ Start(b, k) \/ Record(b, k) \/ Release(b, k)
Looking(b) == Looked(b) \/ Settle(b)
Reaping(b) == Spare(b) \/ Doom(b) \/ Stop(b) \/ Asleep(b)

MachinesNext ==
  \/ \E b \in Bot, k \in Caller : Ask(b, k) \/ Ensuring(b, k)
  \/ \E b \in Bot : View(b) \/ Look(b) \/ Looking(b) \/ Reaping(b) \/ Delete(b) \/ Create(b)
  \/ Sweep \/ SweepEnd \/ IdlePasses \/ Crash

\* Docker calls and tools have time limits, the reaper has a timer, time passes,
\* and the desktop lock is granted in the order it is asked for.
MachinesFair ==
  /\ \A b \in Bot, k \in Caller : WF_machines(Ensuring(b, k))
  /\ \A b \in Bot : WF_machines(Looking(b)) /\ SF_machines(Reaping(b))
  /\ WF_machines(Sweep) /\ WF_machines(SweepEnd) /\ WF_machines(IdlePasses)

MachinesSpec == MachinesInit /\ [][MachinesNext]_machines /\ MachinesFair

-----------------------------------------------------------------------------
\* A tool that was told its machine is up works on a machine that is up, and on
\* its own: neither the reaper nor another caller takes it away under the lock,
\* and its ports lead to it, until docker or a deletion gets in the way.
ToolHasItsMachine ==
  \A b \in Bot \ excused :
    at[b]["tool"].pc = "has" /\ at[b]["tool"].ok
      => box[b] = [is |-> "running", slot |-> at[b]["tool"].slot]

\* A machine nobody is at runs only if its row says so, and so the reaper can
\* find it, unless docker, a restart, a deletion or a delivery got in the way.
NothingRunsUnseen ==
  \A b \in Bot \ excused :
    desk[b] = "free" /\ at[b]["delivery"].pc = "away" /\ box[b].is = "running" => Awake(b)

\* When the requests end, every machine is stopped in the end, with the same
\* exceptions: a tool that keeps its lock long delays the sweep for all others,
\* but cannot keep it from them.
AsleepInTheEnd == <>[](\A b \in Bot : box[b].is = "running" => b \in excused)

\* What next_slot calls "the worst failure this file could have", a port that
\* answers for the wrong bot: it does not hold.  A bot that is deleted leaves
\* its container running; the next row takes its slot, docker cannot publish
\* the ports again, and the desk is handed out although the machine is not up.
NeverTheWrongBot ==
  \A b \in alive : \A c \in Bot \ {b} :
    at[b]["tool"].pc = "has" /\ box[c].is = "running" => box[c].slot # at[b]["tool"].slot

=============================================================================
