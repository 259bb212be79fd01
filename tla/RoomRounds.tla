----------------------------- MODULE RoomRounds -----------------------------
(***************************************************************************)
(* The round engine of a group chat (crates/server/src/rooms.rs), with the *)
(* posts (routes/messages.rs) and the message_bot calls that wake it.      *)
(*                                                                         *)
(* A round hands the turn to every member of the room in order.  The next  *)
(* leg is started by on_run_done when a run of the conversation settles:   *)
(* the round's entry is taken out of `pending`, the answer is deleted if   *)
(* it said nothing, and the entry is put back with one member less before  *)
(* the next run is started.  The entry is keyed by the conversation and    *)
(* does not say which run it waits for, and it takes for granted that the  *)
(* first leg is the owner's; on_run_done runs under a mutex of its own,    *)
(* the posts and start_room_turn do not.  A run whose row could not be     *)
(* inserted, or that came to nothing while parking, never calls it.        *)
(***************************************************************************)
EXTENDS Naturals, Sequences, FiniteSets

CONSTANTS Bot,        \* the members of the room, and others a post may name
          Order,      \* the members in the order of the room: the owner first
          Removable,  \* guests that are archived, then deleted, at some time
          Poster,     \* messages people post into the room
          Caller,     \* message_bot calls that name the room
          MayWait,    \* TRUE: a run may park on an approval
          MayBeQuiet, \* TRUE: a run may answer that it has nothing new
          MaxFaults   \* bound: runs of which the store refuses to write something

ASSUME OrderAssumption == Order \in Seq(Bot) /\ Len(Order) >= 2
ASSUME MayAssumption == MayWait \in BOOLEAN /\ MayBeQuiet \in BOOLEAN /\ MaxFaults \in Nat

NoRound == 0          \* a run that is not a leg of a round
Empty == [round |-> NoRound]
Entry(k, rest) == [round |-> k, remaining |-> rest]
NoHook == [pc |-> "free"]
Unspoken == [first |-> <<>>, guests |-> <<>>]

VARIABLES
  pending,   \* RoomEngine.pending, the entry of this conversation
  runs,      \* the runs of the conversation, in the order of their start
  tail,      \* how many quiet answers the conversation ends with
  hook,      \* the on_run_done call in progress; it holds the hook's mutex
  archived,  \* bots.archived_at
  deleted,   \* bots whose row is gone
  post,      \* the posts in flight
  caller,    \* the message_bot calls in flight
  spoke,     \* history: whose leg each round began with, and the guests in
             \* the order in which they were given the turn
  fate       \* history: what became of each round

vars == <<pending, runs, tail, hook, archived, deleted, post, caller, spoke, fate>>

\* A lost run never calls on_run_done.
RunState == {"running", "waiting", "resumed", "settled", "answered", "over", "lost"}
Answer == {"none", "said", "quiet"}
Refused == {"nothing", "row", "other"}  \* "row": the row says running for ever
Run == [st : RunState, leg : Nat, answer : Answer, refused : Refused]
Spoken == [first : Seq(Bot), guests : Seq(Bot)]
Fate == {"chaining", "complete", "cut", "overwritten"}
Round == 1 .. Len(fate)
Ask(p, k) == [pc |-> p, round |-> k]
AskState == [pc : {"idle", "join", "go", "round", "start", "over"}, round : Nat]

TypeOK ==
  /\ pending \in {Empty} \cup [round : Round, remaining : Seq(Bot)]
  /\ runs \in Seq(Run)
  /\ \A r \in DOMAIN runs : runs[r].leg \in Round \cup {NoRound}
  /\ tail \in Nat
  /\ hook = NoHook \/ /\ hook.pc \in {"silence", "next", "insert", "start"}
                      /\ hook.run \in DOMAIN runs /\ hook.quiet \in BOOLEAN
                      /\ hook.round \in Round
                      /\ hook.remaining \in Seq(Bot)
  /\ deleted \subseteq archived /\ archived \subseteq Removable
  /\ post \in [Poster -> AskState]
  /\ caller \in [Caller -> AskState]
  /\ spoke \in Seq(Spoken) /\ Len(spoke) = Len(fate)
  /\ fate \in Seq(Fate)

Init ==
  /\ pending = Empty
  /\ runs = <<>>
  /\ tail = 0
  /\ hook = NoHook
  /\ archived = {}
  /\ deleted = {}
  /\ post = [p \in Poster |-> Ask("idle", NoRound)]
  /\ caller = [c \in Caller |-> Ask("idle", NoRound)]
  /\ spoke = <<>>
  /\ fate = <<>>

-----------------------------------------------------------------------------
(***************************************************************************)
(* What the three ways to move a round share                               *)
(***************************************************************************)

\* The store refuses to write something of one more run.
Refuses == Cardinality({r \in DOMAIN runs : runs[r].refused # "nothing"}) < MaxFaults

\* runs.start: a run is inserted, a leg of round k; or its insert fails, and
\* nothing runs.
NewRun(k) ==
  \/ runs' = Append(runs, [st |-> "running", leg |-> k, answer |-> "none", refused |-> "nothing"])
  \/ /\ Refuses
     /\ runs' = Append(runs, [st |-> "lost", leg |-> k, answer |-> "none", refused |-> "other"])

\* The leg round k begins with, and the leg of a guest it is handed to.
FirstLeg(b, k) == NewRun(k) /\ spoke' = [spoke EXCEPT ![k].first = Append(@, b)]
GuestLeg(b, k) == NewRun(k) /\ spoke' = [spoke EXCEPT ![k].guests = Append(@, b)]

\* Putting an entry into the map ends whatever other round had one there.
Put(k, rest, was) ==
  /\ pending' = Entry(k, rest)
  /\ fate' = IF pending.round \in {NoRound, k} THEN was
             ELSE [was EXCEPT ![pending.round] = "overwritten"]

\* Slip: the first guest is taken for the owner.
RegisterShort ==
  /\ Put(Len(fate) + 1, Tail(Tail(Order)), Append(fate, "chaining"))
  /\ spoke' = Append(spoke, Unspoken)

\* register: a round of everybody, its first leg about to be started; what is
\* left is everybody but the owner, whoever that leg will be of.
Register ==
  /\ Put(Len(fate) + 1, Tail(Order), Append(fate, "chaining"))
  /\ spoke' = Append(spoke, Unspoken)

-----------------------------------------------------------------------------
(***************************************************************************)
(* Posts                                                                   *)
(***************************************************************************)

Live == {"running", "resumed"}
Running == {r \in DOMAIN runs : runs[r].st \in Live \/ runs[r].refused = "row"}

\* post_message's database section: a run whose row says running is offered
\* the message, otherwise the post goes on to start something.
Post(p) ==
  /\ post[p].pc = "idle"
  /\ tail' = 0
  /\ post' = [post EXCEPT ![p].pc = IF Running = {} THEN "go" ELSE "join"]
  /\ UNCHANGED <<pending, runs, hook, archived, deleted, caller, spoke, fate>>

\* interject looks at the row again.
Interject(p) ==
  /\ post[p].pc = "join"
  /\ post' = [post EXCEPT ![p].pc = IF Running = {} THEN "go" ELSE "over"]
  /\ UNCHANGED <<pending, runs, tail, hook, archived, deleted, caller, spoke, fate>>

\* A post with no mention, or with @everyone, starts a round: the entry first
\* (B9), then a run of the bot it was sent to, which may be any member, or of
\* the first other bot it mentions.
PostRound(p) ==
  /\ post[p].pc = "go"
  /\ Register
  /\ post' = [post EXCEPT ![p] = Ask("start", Len(fate) + 1)]
  /\ UNCHANGED <<runs, tail, hook, archived, deleted, caller>>

PostRoundStart(p) ==
  /\ post[p].pc = "start"
  /\ \E b \in Bot : FirstLeg(b, post[p].round)
  /\ post' = [post EXCEPT ![p].pc = "over"]
  /\ UNCHANGED <<pending, tail, hook, archived, deleted, caller, fate>>

\* A post that mentions another bot starts a run of that bot and no round.
PostMention(p) ==
  /\ post[p].pc = "go"
  /\ NewRun(NoRound)
  /\ post' = [post EXCEPT ![p].pc = "over"]
  /\ UNCHANGED <<pending, tail, hook, archived, deleted, caller, spoke, fate>>

-----------------------------------------------------------------------------
(***************************************************************************)
(* message_bot naming the room: start_room_turn                            *)
(***************************************************************************)

\* The question is posted, whatever comes of the round.
CallerPost(c) ==
  /\ caller[c].pc = "idle"
  /\ tail' = 0
  /\ caller' = [caller EXCEPT ![c].pc = "go"]
  /\ UNCHANGED <<pending, runs, hook, archived, deleted, post, spoke, fate>>

\* B6: no second round while one is pending.
CallerCheck(c) ==
  /\ caller[c].pc = "go"
  /\ caller' = [caller EXCEPT ![c].pc = IF pending = Empty THEN "round" ELSE "over"]
  /\ UNCHANGED <<pending, runs, tail, hook, archived, deleted, post, spoke, fate>>

CallerRegister(c) ==
  /\ caller[c].pc = "round"
  /\ Register
  /\ caller' = [caller EXCEPT ![c] = Ask("start", Len(fate) + 1)]
  /\ UNCHANGED <<runs, tail, hook, archived, deleted, post>>

CallerStart(c) ==
  /\ caller[c].pc = "start"
  /\ FirstLeg(Order[1], caller[c].round)
  /\ caller' = [caller EXCEPT ![c].pc = "over"]
  /\ UNCHANGED <<pending, tail, hook, archived, deleted, post, fate>>

-----------------------------------------------------------------------------
(***************************************************************************)
(* Runs                                                                    *)
(***************************************************************************)

Becomes(r, from, to) == runs[r].st = from /\ runs' = [runs EXCEPT ![r].st = to]
others == <<pending, hook, archived, deleted, post, caller, spoke, fate>>

\* settle writes the row; the answer may be that there is nothing new.
SettleRow(r) ==
  /\ runs[r].st \in Live
  /\ \E a \in {"said"} \cup (IF MayBeQuiet THEN {"quiet"} ELSE {}) :
       runs' = [runs EXCEPT ![r].st = "settled", ![r].answer = a]
  /\ UNCHANGED <<tail, others>>

\* The write is refused: the row says running for ever, nothing is appended and
\* the hook is called all the same.
SettleFails(r) ==
  /\ runs[r].st \in Live
  /\ Refuses
  /\ runs' = [runs EXCEPT ![r].st = "answered", ![r].refused = "row"]
  /\ UNCHANGED <<tail, others>>

\* settle appends the answer.
AppendAnswer(r) ==
  /\ Becomes(r, "settled", "answered")
  /\ tail' = IF runs[r].answer = "quiet" THEN tail + 1 ELSE 0
  /\ UNCHANGED others

AppendFails(r) ==
  /\ runs[r].st = "settled"
  /\ Refuses
  /\ runs' = [runs EXCEPT ![r].st = "answered", ![r].refused = "other"]
  /\ UNCHANGED <<tail, others>>

\* A run parks on an approval (bound: once), and is resumed.
Wait(r) == MayWait /\ Becomes(r, "running", "waiting") /\ UNCHANGED <<tail, others>>
Resume(r) == Becomes(r, "waiting", "resumed") /\ UNCHANGED <<tail, others>>

\* park cannot write the row, or the approval: the run is over without a hook.
ParkFails(r) ==
  /\ MayWait
  /\ runs[r].st \in Live
  /\ Refuses
  /\ \E what \in {"row", "other"} : runs' = [runs EXCEPT ![r].st = "lost", ![r].refused = what]
  /\ UNCHANGED <<tail, others>>

\* Whoever takes up a parked run cannot read or write its row: it waits for ever.
Strand(r) ==
  /\ runs[r].st = "waiting"
  /\ Refuses
  /\ runs' = [runs EXCEPT ![r].st = "lost", ![r].refused = "other"]
  /\ UNCHANGED <<tail, others>>

-----------------------------------------------------------------------------
(***************************************************************************)
(* on_run_done                                                             *)
(***************************************************************************)

InHook(p) == hook.pc = p

\* Nobody needs the answer of a run but its hook, which has it then.
Retires(r) ==
  /\ runs[r].st = "answered"
  /\ runs' = [runs EXCEPT ![r].st = "over", ![r].answer = "none"]

\* Slip: the entry is read and left in the map.
HookTakeKept(r) ==
  /\ hook = NoHook
  /\ Retires(r)
  /\ hook' = IF pending = Empty THEN NoHook
             ELSE [pc |-> "silence", run |-> r, quiet |-> runs[r].answer = "quiet",
                   round |-> pending.round, remaining |-> pending.remaining]
  /\ UNCHANGED <<pending, tail, archived, deleted, post, caller, spoke, fate>>

\* The entry is taken out of the map, if there is one.
HookTake(r) ==
  /\ hook = NoHook
  /\ Retires(r)
  /\ hook' = IF pending = Empty THEN NoHook
             ELSE [pc |-> "silence", run |-> r, quiet |-> runs[r].answer = "quiet",
                   round |-> pending.round, remaining |-> pending.remaining]
  /\ pending' = Empty
  /\ UNCHANGED <<tail, archived, deleted, post, caller, spoke, fate>>

\* If the settled run was quiet, the last message is deleted if it is a quiet
\* answer (anybody's); the round is over if nobody is left.
HookSilence ==
  /\ InHook("silence")
  /\ tail' = IF hook.quiet /\ tail > 0 THEN tail - 1 ELSE tail
  /\ IF hook.remaining = <<>>
     THEN hook' = NoHook /\ fate' = [fate EXCEPT ![hook.round] =
                                       IF @ = "chaining" THEN "complete" ELSE @]
     ELSE hook' = [hook EXCEPT !.pc = "next"] /\ UNCHANGED fate
  /\ UNCHANGED <<pending, runs, archived, deleted, post, caller, spoke>>

\* Slip: the members are gone through from the back.
HookNextLast ==
  /\ InHook("next")
  /\ hook' = [hook EXCEPT !.pc = "insert",
                !.remaining = <<@[Len(@)]>> \o SubSeq(@, 1, Len(@) - 1)]
  /\ UNCHANGED <<pending, runs, tail, archived, deleted, post, caller, spoke, fate>>

\* The next member is looked up; the round is cut short if its row is gone.
HookNext ==
  /\ InHook("next")
  /\ IF Head(hook.remaining) \in deleted
     THEN hook' = NoHook /\ fate' = [fate EXCEPT ![hook.round] =
                                       IF @ = "chaining" THEN "cut" ELSE @]
     ELSE hook' = [hook EXCEPT !.pc = "insert"] /\ UNCHANGED fate
  /\ UNCHANGED <<pending, runs, tail, archived, deleted, post, caller, spoke>>

\* Slip: the entry is put back only while somebody is left after this leg.
HookInsertUnlessLast ==
  /\ InHook("insert")
  /\ IF Len(hook.remaining) = 1 THEN UNCHANGED <<pending, fate>>
     ELSE Put(hook.round, Tail(hook.remaining), fate)
  /\ hook' = [hook EXCEPT !.pc = "start"]
  /\ UNCHANGED <<runs, tail, archived, deleted, post, caller, spoke>>

\* The entry is put back with one member less (B9: before the run starts) ...
HookInsert ==
  /\ InHook("insert")
  /\ Put(hook.round, Tail(hook.remaining), fate)
  /\ hook' = [hook EXCEPT !.pc = "start"]
  /\ UNCHANGED <<runs, tail, archived, deleted, post, caller, spoke>>

\* ... and the member's run is started.
HookStart ==
  /\ InHook("start")
  /\ GuestLeg(Head(hook.remaining), hook.round)
  /\ hook' = NoHook
  /\ UNCHANGED <<pending, tail, archived, deleted, post, caller, fate>>

-----------------------------------------------------------------------------
\* set_archived stamps the row; hard_delete_bot removes an archived bot.
Archive(b) ==
  /\ b \in Removable \ archived
  /\ archived' = archived \cup {b}
  /\ UNCHANGED <<pending, runs, tail, hook, deleted, post, caller, spoke, fate>>

Delete(b) ==
  /\ b \in archived \ deleted
  /\ deleted' = deleted \cup {b}
  /\ UNCHANGED <<pending, runs, tail, hook, archived, post, caller, spoke, fate>>

PostStep(p) == \/ Interject(p) \/ PostRound(p) \/ PostRoundStart(p) \/ PostMention(p)
CallerStep(c) == CallerCheck(c) \/ CallerRegister(c) \/ CallerStart(c)
RunStep(r) == SettleRow(r) \/ AppendAnswer(r) \/ Resume(r) \/ HookTake(r)
FaultStep(r) == SettleFails(r) \/ AppendFails(r) \/ ParkFails(r) \/ Strand(r)
HookStep == HookSilence \/ HookNext \/ HookInsert \/ HookStart
Next ==
  \/ \E p \in Poster : Post(p) \/ PostStep(p)
  \/ \E c \in Caller : CallerPost(c) \/ CallerStep(c)
  \/ \E r \in DOMAIN runs : RunStep(r) \/ Wait(r) \/ FaultStep(r)
  \/ HookStep
  \/ \E b \in Removable : Archive(b) \/ Delete(b)
Spec == Init /\ [][Next]_vars

\* Handlers, tasks and the hook are scheduled; a run ends (RunEnds of
\* RunLifecycle, where the store does not refuse).  Nobody has to post, wait,
\* archive or delete.
\* Every behaviour is finite, so the runtime only has to make progress.
Progress == \/ \E p \in Poster : PostStep(p)
            \/ \E c \in Caller : CallerStep(c)
            \/ \E r \in DOMAIN runs : RunStep(r)
            \/ HookStep
Fairness == WF_vars(Progress)
LiveSpec == Spec /\ Fairness

-----------------------------------------------------------------------------
(***************************************************************************)
(* Properties                                                              *)
(***************************************************************************)

Guests(k) == spoke[k].guests
Turns(k) == Len(Guests(k))

\* The last leg of round k is a lost run.
LegLost(k) ==
  \E r \in DOMAIN runs :
    /\ runs[r].leg = k /\ runs[r].st = "lost"
    /\ \A q \in DOMAIN runs : q > r => runs[q].leg # k

\* on_run_done: the guests are given the turn in the room's order, nobody twice
\* and nobody skipped, and a round has one first leg, however rounds, mentions
\* and hooks overlap.  (The first leg may be any bot's, so a guest may speak
\* before its turn as well; and it may come late: a mention's hook can take the
\* entry between register and start.)
InOrder ==
  \A k \in Round : /\ Guests(k) = SubSeq(Order, 2, Turns(k) + 1)
                   /\ Len(spoke[k].first) <= 1

\* A round is given up as complete only when every guest was given the turn.
CompleteIsAll == \A k \in Round : fate[k] = "complete" => Guests(k) = Tail(Order)

\* B6 and B9: whoever put an entry into the map has started, or will start, a
\* leg of that round, whose hook takes an entry out: start_room_turn is not
\* refused for ever, unless the leg is a lost run.
NoStuckRound ==
  pending # Empty =>
    \/ \E r \in DOMAIN runs : runs[r].leg = pending.round /\ runs[r].st \notin {"over", "lost"}
    \/ \E p \in Poster : post[p] = Ask("start", pending.round)
    \/ \E c \in Caller : caller[c] = Ask("start", pending.round)
    \/ InHook("start") /\ hook.round = pending.round
    \/ LegLost(pending.round)

\* Every round that is not overwritten goes through the whole room, or ends
\* at a member that was deleted, or stays where its leg was a lost run.
RoundEnds ==
  \A k \in 1 .. Cardinality(Poster) + Cardinality(Caller) :
    (k \in Round) ~> (k \in Round /\ (fate[k] # "chaining" \/ LegLost(k)))

\* post_message: a post "hands the turn to every member in order".
EveryMemberInOrder ==
  \A k \in Round : fate[k] = "complete" => spoke[k].first \o Guests(k) = Order

\* on_run_done: "a no-op for any run this engine never register-ed (... an
\* @mention inside a room)".
OnlyLegsAdvance == hook # NoHook => runs[hook.run].leg = hook.round

\* B6: "start_room_turn refuses to start a second round on top of one already
\* chaining".
NoSecondRound ==
  [][\A c \in Caller : caller[c].pc = "round" /\ caller'[c].pc = "start" =>
       \A k \in Round : fate[k] # "chaining"]_vars

=============================================================================
