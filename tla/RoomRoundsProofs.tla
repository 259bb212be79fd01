--------------------------- MODULE RoomRoundsProofs ---------------------------
(***************************************************************************)
(* Proofs about RoomRounds for a room of any size and order, any number of *)
(* posts and message_bot calls, and any guests that may be deleted.        *)
(*                                                                         *)
(* The argument: who is next in a round is known in one place.  Either the *)
(* hook has the round, then what it holds is everybody who has not spoken  *)
(* (HookKnows), or the map has it, with the same list, or with one member  *)
(* less while the hook is about to start that member's run (EntryKnows).   *)
(* A round that was overwritten is in neither place.  And an entry always  *)
(* has a leg of its own round that has had no hook yet, or somebody about  *)
(* to start one (Driven): whoever puts it there starts a leg of that round *)
(* next, and a hook that ends any leg takes the entry with it.             *)
(***************************************************************************)
EXTENDS RoomRounds, SequenceTheorems, TLAPS

\* What the proof needs of the types: the tail and archived bots do not matter.
Places == {"silence", "next", "insert", "start"}
Shape ==
  /\ fate \in Seq(Fate)
  /\ spoke \in Seq(Spoken) /\ Len(spoke) = Len(fate)
  /\ pending \in {Empty} \cup [round : Round, remaining : Seq(Bot)]
  /\ hook \in {NoHook} \cup [pc : Places, run : Nat, quiet : BOOLEAN, round : Round, remaining : Seq(Bot)]
  /\ runs \in Seq(Run)
  /\ post \in [Poster -> AskState] /\ caller \in [Caller -> AskState]

\* Who of round k is still to speak.
Rest(k) == SubSeq(Order, Turns(k) + 2, Len(Order))

\* The hook and the map agree with what was spoken: nobody else knows who is next.
HookKnows ==
  hook # NoHook =>
    /\ hook.remaining = Rest(hook.round)
    /\ hook.pc # "silence" => hook.remaining # <<>>
    /\ hook.pc # "start" => pending.round # hook.round

EntryKnows ==
  pending # Empty =>
    pending.remaining = IF hook # NoHook /\ hook.round = pending.round
                        THEN Tail(hook.remaining) ELSE Rest(pending.round)

\* The first leg of a round is started by the one who registered it.
FirstOnce ==
  /\ \A p \in Poster : post[p].pc = "start" =>
       /\ post[p].round \in Round /\ spoke[post[p].round].first = <<>>
       /\ \A q \in Poster \ {p} : ~ (post[q].pc = "start" /\ post[q].round = post[p].round)
       /\ \A c \in Caller : ~ (caller[c].pc = "start" /\ caller[c].round = post[p].round)
  /\ \A c \in Caller : caller[c].pc = "start" =>
       /\ caller[c].round \in Round /\ spoke[caller[c].round].first = <<>>
       /\ \A d \in Caller \ {c} : ~ (caller[d].pc = "start" /\ caller[d].round = caller[c].round)

Fits == \A k \in Round : Turns(k) <= Len(Order) - 1

\* A leg of round k is about to be started, or its last one has not had its hook.
Starting(k) ==
  \/ \E p \in Poster : post[p] = Ask("start", k)
  \/ \E c \in Caller : caller[c] = Ask("start", k)
  \/ InHook("start") /\ hook.round = k
LastOf(k) ==
  \E r \in DOMAIN runs :
    /\ runs[r].leg = k /\ runs[r].st # "over"
    /\ \A q \in DOMAIN runs : q > r => runs[q].leg # k

\* No hook but the one that takes the entry out lets go of its round.
Driven == pending # Empty => Starting(pending.round) \/ LastOf(pending.round)

IInv == Shape /\ HookKnows /\ EntryKnows /\ FirstOnce /\ Fits /\ InOrder /\ CompleteIsAll /\ Driven

-----------------------------------------------------------------------------
(***************************************************************************)
(* The order of the room                                                   *)
(***************************************************************************)

\* Who is left after n guests spoke.
LEMMA LeftOf ==
  ASSUME NEW n \in Nat, n <= Len(Order) - 1
  PROVE  /\ SubSeq(Order, n + 2, Len(Order)) \in Seq(Bot)
         /\ Len(SubSeq(Order, n + 2, Len(Order))) = Len(Order) - 1 - n
         /\ SubSeq(Order, n + 2, Len(Order)) = <<>> <=> n = Len(Order) - 1
<1>1. Order \in Seq(Bot) /\ Len(Order) \in Nat
  BY OrderAssumption, LenProperties
<1>2. \A i \in n + 2 .. Len(Order) : Order[i] \in Bot
  BY <1>1, ElementOfSeq
<1>3. /\ SubSeq(Order, n + 2, Len(Order)) \in Seq(Bot)
      /\ Len(SubSeq(Order, n + 2, Len(Order)))
           = IF n + 2 <= Len(Order) THEN Len(Order) - (n + 2) + 1 ELSE 0
  BY <1>1, <1>2, SubSeqProperties
<1>4. Len(SubSeq(Order, n + 2, Len(Order))) = Len(Order) - 1 - n
  BY <1>1, <1>3
<1> QED
  BY <1>1, <1>3, <1>4, EmptySeq

\* The next of them takes the turn.
LEMMA NextOf ==
  ASSUME NEW n \in Nat, n < Len(Order) - 1
  PROVE  /\ Head(SubSeq(Order, n + 2, Len(Order))) = Order[n + 2]
         /\ Tail(SubSeq(Order, n + 2, Len(Order))) = SubSeq(Order, n + 3, Len(Order))
         /\ Append(SubSeq(Order, 2, n + 1), Order[n + 2]) = SubSeq(Order, 2, n + 2)
         /\ Order[n + 2] \in Bot
<1>1. Order \in Seq(Bot) /\ Len(Order) \in Nat
  BY OrderAssumption, LenProperties
<1>2. n + 2 \in 1 .. Len(Order) /\ Len(Order) \in n + 2 .. Len(Order) /\ n + 2 + 1 = n + 3
  BY <1>1
<1>3. /\ Head(SubSeq(Order, n + 2, Len(Order))) = Order[n + 2]
      /\ Tail(SubSeq(Order, n + 2, Len(Order))) = SubSeq(Order, n + 3, Len(Order))
  BY <1>1, <1>2, HeadTailOfSubSeq
<1>4. SubSeq(Order, 2, n + 2) = SubSeq(Order, 2, n + 1) \o <<Order[n + 2]>>
  <2>1. 2 \in 1 .. Len(Order) /\ n + 2 \in 2 .. Len(Order) /\ n + 2 - 1 = n + 1
    BY <1>1, <1>2
  <2> QED
    BY <1>1, <2>1, SubSeqRecursiveSecond
<1>5. SubSeq(Order, 2, n + 1) \in Seq(Bot) /\ Order[n + 2] \in Bot
  <2>1. \A i \in 2 .. n + 1 : Order[i] \in Bot
    BY <1>1, <1>2, ElementOfSeq
  <2> QED
    BY <1>1, <1>2, <2>1, SubSeqProperties, ElementOfSeq
<1> QED
  BY <1>3, <1>4, <1>5, AppendIsConcat

LEMMA WholeOrder ==
  /\ SubSeq(Order, 2, Len(Order)) = Tail(Order) /\ SubSeq(Order, 2, 1) = <<>>
  /\ Len(Order) \in Nat /\ Len(Order) >= 2 /\ Tail(Order) \in Seq(Bot)
<1>1. Order \in Seq(Bot) /\ Len(Order) \in Nat /\ Len(Order) >= 2
  BY OrderAssumption, LenProperties
<1>2. Order # <<>>
  BY <1>1, EmptySeq
<1>3. SubSeq(Order, 2, 1) = <<>>
  BY <1>1, SubSeqEmpty
<1> QED
  BY <1>1, <1>2, <1>3, TailIsSubSeq, HeadTailProperties

-----------------------------------------------------------------------------
(***************************************************************************)
(* The steps                                                               *)
(***************************************************************************)

\* What a round knows of itself.
LEMMA RoundFacts ==
  ASSUME IInv, NEW k \in Round
  PROVE  /\ spoke[k] \in Spoken /\ fate[k] \in Fate
         /\ Turns(k) \in Nat /\ Turns(k) <= Len(Order) - 1
         /\ DOMAIN spoke = Round /\ DOMAIN fate = Round
<1>1. Len(spoke) = Len(fate) /\ spoke \in Seq(Spoken) /\ fate \in Seq(Fate)
  BY DEF IInv, Shape
<1>2. DOMAIN spoke = Round /\ DOMAIN fate = Round
  BY <1>1, LenProperties DEF Round
<1>3. spoke[k] \in Spoken /\ fate[k] \in Fate
  BY <1>1, <1>2, ElementOfSeq DEF Round
<1>4. Turns(k) \in Nat
  BY <1>3, LenProperties DEF Turns, Guests
<1> QED
  BY <1>2, <1>3, <1>4 DEF IInv, Fits

\* What the list of runs holds.
LEMMA RunFacts ==
  ASSUME Shape, NEW r \in DOMAIN runs
  PROVE  /\ runs[r] \in Run /\ runs[r].leg \in Nat
         /\ DOMAIN runs = 1 .. Len(runs) /\ Len(runs) \in Nat
<1>1. runs \in Seq(Run)
  BY DEF Shape
<1>2. DOMAIN runs = 1 .. Len(runs) /\ Len(runs) \in Nat
  BY <1>1, LenProperties
<1>3. runs[r] \in Run
  BY <1>1, <1>2, ElementOfSeq
<1> QED
  BY <1>2, <1>3 DEF Run

\* The entry in the map is of a round.
LEMMA PendingRound ==
  ASSUME Shape, pending # Empty
  PROVE  pending.round \in Round /\ pending.round \in Nat \ {NoRound}
BY DEF Shape, Round, NoRound

\* Steps that leave the rounds alone, and start no first leg.
LEMMA Keeps ==
  ASSUME IInv, UNCHANGED <<pending, hook, spoke, fate>>, Driven',
         runs' \in Seq(Run),
         post' \in [Poster -> AskState], caller' \in [Caller -> AskState],
         \A p \in Poster : post'[p].pc = "start" => post'[p] = post[p],
         \A c \in Caller : caller'[c].pc = "start" => caller'[c] = caller[c]
  PROVE  IInv'
<1>1. Shape'
  BY DEF IInv, Shape, Round
<1>2. HookKnows' /\ EntryKnows' /\ Fits'
  BY DEF IInv, HookKnows, EntryKnows, Fits, Rest, Turns, Guests, Round
<1>3. InOrder' /\ CompleteIsAll'
  BY DEF IInv, InOrder, CompleteIsAll, Turns, Guests, Round
<1>4. FirstOnce'
  BY DEF IInv, FirstOnce, Round
<1> QED
  BY <1>1, <1>2, <1>3, <1>4 DEF IInv

\* A leg is added: it is the last of its round, and stays what it is for others.
LEMMA LegAdded ==
  ASSUME Shape, NEW k \in Nat, NewRun(k)
  PROVE  /\ runs' \in Seq(Run) /\ LastOf(k)'
         /\ \A j \in Nat \ {k} : LastOf(j) => LastOf(j)'
<1> DEFINE n == Len(runs)
<1>1. PICK new \in Run : runs' = Append(runs, new) /\ new.leg = k /\ new.st # "over"
  BY DEF NewRun, Run, RunState, Answer, Refused
<1>2. runs \in Seq(Run) /\ n \in Nat /\ DOMAIN runs = 1 .. n
  BY LenProperties DEF Shape
<1>3. /\ runs' \in Seq(Run) /\ Len(runs') = n + 1 /\ runs'[n + 1] = new
      /\ \A q \in 1 .. n : runs'[q] = runs[q]
  BY <1>1, <1>2, AppendProperties
<1>4. DOMAIN runs' = 1 .. n + 1
  BY <1>3, LenProperties
<1> HIDE DEF n
<1>5. LastOf(k)'
  <2>1. n + 1 \in DOMAIN runs' /\ \A q \in DOMAIN runs' : ~ (q > n + 1)
    BY <1>2, <1>4
  <2> QED
    BY <1>1, <1>3, <2>1 DEF LastOf
<1>6. ASSUME NEW j \in Nat \ {k}, LastOf(j) PROVE LastOf(j)'
  <2>1. PICK r \in 1 .. n : /\ runs[r].leg = j /\ runs[r].st # "over"
                            /\ \A q \in 1 .. n : q > r => runs[q].leg # j
    BY <1>2, <1>6 DEF LastOf
  <2>2. r \in DOMAIN runs' /\ runs'[r].leg = j /\ runs'[r].st # "over"
    BY <1>2, <1>3, <1>4, <2>1
  <2>3. ASSUME NEW q \in DOMAIN runs', q > r PROVE runs'[q].leg # j
    <3>1. q = n + 1 \/ q \in 1 .. n
      BY <1>2, <1>4
    <3> QED
      BY <1>1, <1>3, <1>6, <2>1, <2>3, <3>1
  <2> QED
    BY <2>2, <2>3 DEF LastOf
<1> QED
  BY <1>3, <1>5, <1>6

\* A run changes, and is not over.
LEMMA RunChanges ==
  ASSUME Shape, NEW r \in DOMAIN runs, NEW new \in Run, runs' = [runs EXCEPT ![r] = new],
         new.leg = runs[r].leg
  PROVE  /\ runs' \in Seq(Run) /\ DOMAIN runs' = DOMAIN runs
         /\ new.st # "over" => \A j \in Nat : LastOf(j) => LastOf(j)'
<1>1. runs \in Seq(Run) /\ r \in 1 .. Len(runs) /\ DOMAIN runs = 1 .. Len(runs)
  BY LenProperties DEF Shape
<1>2. /\ runs' \in Seq(Run) /\ Len(runs') = Len(runs)
      /\ \A q \in 1 .. Len(runs) : runs'[q] = IF q = r THEN new ELSE runs[q]
  BY <1>1, ExceptSeq
<1>3. DOMAIN runs' = DOMAIN runs
  BY <1>1, <1>2, LenProperties
<1>4. ASSUME new.st # "over", NEW j \in Nat, LastOf(j) PROVE LastOf(j)'
  <2>1. PICK o \in DOMAIN runs : /\ runs[o].leg = j /\ runs[o].st # "over"
                                 /\ \A q \in DOMAIN runs : q > o => runs[q].leg # j
    BY <1>4 DEF LastOf
  <2>2. \A q \in DOMAIN runs : runs'[q].leg = runs[q].leg
    BY <1>1, <1>2
  <2>3. runs'[o].st # "over"
    BY <1>1, <1>2, <1>4, <2>1
  <2> QED
    BY <1>3, <2>1, <2>2, <2>3 DEF LastOf
<1> QED
  BY <1>2, <1>3, <1>4

\* Whoever is not at the round's start keeps its place or its work.
LEMMA Bystanders ==
  ASSUME IInv, UNCHANGED <<pending, hook, spoke, fate, runs>>,
         post' \in [Poster -> AskState], caller' \in [Caller -> AskState],
         \A p \in Poster : post'[p] = post[p] \/ (post[p].pc # "start" /\ post'[p].pc # "start"),
         \A c \in Caller : caller'[c] = caller[c] \/ (caller[c].pc # "start" /\ caller'[c].pc # "start")
  PROVE  IInv'
<1>1. \A k \in Nat : Starting(k) => Starting(k)'
  BY DEF Starting, Ask, InHook
<1>2. \A k \in Nat : LastOf(k) => LastOf(k)'
  BY DEF LastOf
<1>3. Driven'
  BY <1>1, <1>2, PendingRound DEF IInv, Driven
<1> QED
  BY <1>3, Keeps DEF IInv, Shape

\* Posts and message_bot calls up to the registration.
LEMMA AskIInv ==
  ASSUME IInv,
         \/ \E p \in Poster : Post(p) \/ Interject(p)
         \/ \E c \in Caller : CallerPost(c) \/ CallerCheck(c)
  PROVE  IInv'
<1>0. post \in [Poster -> AskState] /\ caller \in [Caller -> AskState]
  BY DEF IInv, Shape
<1>1. ASSUME NEW p \in Poster, Post(p) \/ Interject(p) PROVE IInv'
  <2>1. PICK to \in {"go", "join", "over"} : post' = [post EXCEPT ![p].pc = to]
    BY <1>1 DEF Post, Interject
  <2>2. post[p].pc # "start" /\ UNCHANGED <<pending, hook, spoke, fate, runs, caller>>
    BY <1>1 DEF Post, Interject
  <2>3. /\ post' \in [Poster -> AskState] /\ post'[p].pc = to
        /\ \A q \in Poster \ {p} : post'[q] = post[q]
    BY <1>0, <2>1 DEF AskState
  <2> QED
    BY <1>0, <2>2, <2>3, Bystanders
<1>2. ASSUME NEW c \in Caller, CallerPost(c) \/ CallerCheck(c) PROVE IInv'
  <2>1. PICK to \in {"go", "round", "over"} : caller' = [caller EXCEPT ![c].pc = to]
    BY <1>2 DEF CallerPost, CallerCheck
  <2>2. caller[c].pc # "start" /\ UNCHANGED <<pending, hook, spoke, fate, runs, post>>
    BY <1>2 DEF CallerPost, CallerCheck
  <2>3. /\ caller' \in [Caller -> AskState] /\ caller'[c].pc = to
        /\ \A d \in Caller \ {c} : caller'[d] = caller[d]
    BY <1>0, <2>1 DEF AskState
  <2> QED
    BY <1>0, <2>2, <2>3, Bystanders
<1> QED
  BY <1>1, <1>2

\* A guest is archived, or deleted.
LEMMA ArchiveIInv == ASSUME IInv, NEW b \in Removable, Archive(b) \/ Delete(b) PROVE IInv'
BY Bystanders DEF Archive, Delete, IInv, Shape

\* A mention's run is started: a leg of no round.
LEMMA MentionIInv == ASSUME IInv, NEW p \in Poster, PostMention(p) PROVE IInv'
<1>1. NewRun(NoRound) /\ UNCHANGED <<pending, hook, spoke, fate, caller>>
      /\ post[p].pc = "go" /\ post' = [post EXCEPT ![p].pc = "over"]
  BY DEF PostMention
<1>2. runs' \in Seq(Run) /\ \A j \in Nat \ {NoRound} : LastOf(j) => LastOf(j)'
  BY <1>1, LegAdded DEF IInv, NoRound
<1>3. /\ post' \in [Poster -> AskState] /\ caller' \in [Caller -> AskState] /\ post'[p].pc = "over"
      /\ \A q \in Poster \ {p} : post'[q] = post[q]
  BY <1>1 DEF IInv, Shape, AskState
<1>4. \A j \in Nat : Starting(j) => Starting(j)'
  <2>1. \A q \in Poster, j \in Nat : post[q] = Ask("start", j) => q # p
    BY <1>1 DEF Ask
  <2> QED
    BY <1>1, <1>3, <2>1 DEF Starting, InHook
<1>5. Driven'
  BY <1>1, <1>2, <1>4, PendingRound DEF IInv, Driven
<1> QED
  BY <1>1, <1>2, <1>3, <1>5, Keeps

\* settle, park, decide_approval and the store's refusals.
LEMMA RunIInv ==
  ASSUME IInv, NEW r \in DOMAIN runs,
         SettleRow(r) \/ AppendAnswer(r) \/ Wait(r) \/ Resume(r) \/ FaultStep(r)
  PROVE  IInv'
<1>0. runs[r] \in Run
  BY RunFacts DEF IInv
<1>1. UNCHANGED <<pending, hook, spoke, fate, post, caller>>
  BY DEF SettleRow, AppendAnswer, Wait, Resume, FaultStep, SettleFails, AppendFails, ParkFails,
         Strand, others
<1>2. PICK new \in Run : runs' = [runs EXCEPT ![r] = new] /\ new.leg = runs[r].leg /\ new.st # "over"
  <2>1. CASE SettleRow(r)
    <3>1. PICK a \in {"said", "quiet"} : runs' = [runs EXCEPT ![r].st = "settled", ![r].answer = a]
      BY <2>1 DEF SettleRow
    <3>2. runs' = [runs EXCEPT ![r] = [runs[r] EXCEPT !.st = "settled", !.answer = a]]
      BY <1>0, <3>1
    <3>3. a \in Answer /\ "settled" \in RunState
      BY DEF RunState, Answer
    <3>4. [runs[r] EXCEPT !.st = "settled", !.answer = a] \in Run
      BY <1>0, <3>3 DEF Run
    <3>5. /\ [runs[r] EXCEPT !.st = "settled", !.answer = a].leg = runs[r].leg
          /\ [runs[r] EXCEPT !.st = "settled", !.answer = a].st # "over"
      BY <1>0 DEF Run
    <3> QED
      BY <3>2, <3>4, <3>5
  <2>2. CASE AppendAnswer(r) \/ Wait(r) \/ Resume(r)
    <3>1. PICK s \in {"answered", "waiting", "resumed"} : runs' = [runs EXCEPT ![r].st = s]
      BY <2>2 DEF AppendAnswer, Wait, Resume, Becomes
    <3>2. runs' = [runs EXCEPT ![r] = [runs[r] EXCEPT !.st = s]]
      BY <3>1
    <3>3. s \in RunState /\ s # "over"
      BY DEF RunState
    <3>4. [runs[r] EXCEPT !.st = s] \in Run
      BY <1>0, <3>3 DEF Run
    <3>5. [runs[r] EXCEPT !.st = s].leg = runs[r].leg /\ [runs[r] EXCEPT !.st = s].st # "over"
      BY <1>0, <3>3 DEF Run
    <3> QED
      BY <3>2, <3>4, <3>5
  <2>3. CASE FaultStep(r)
    <3>1. PICK s \in {"answered", "lost"}, w \in {"row", "other"} :
            runs' = [runs EXCEPT ![r].st = s, ![r].refused = w]
      BY <2>3 DEF FaultStep, SettleFails, AppendFails, ParkFails, Strand
    <3>2. runs' = [runs EXCEPT ![r] = [runs[r] EXCEPT !.st = s, !.refused = w]]
      BY <1>0, <3>1
    <3>3. s \in RunState /\ w \in Refused /\ s # "over"
      BY DEF RunState, Refused
    <3>4. [runs[r] EXCEPT !.st = s, !.refused = w] \in Run
      <4>1. [runs[r] EXCEPT !.st = s] \in Run
        BY <1>0, <3>3 DEF Run
      <4> QED
        BY <3>3, <4>1 DEF Run
    <3>5. /\ [runs[r] EXCEPT !.st = s, !.refused = w].leg = runs[r].leg
          /\ [runs[r] EXCEPT !.st = s, !.refused = w].st # "over"
      BY <1>0, <3>3 DEF Run
    <3> QED
      BY <3>2, <3>4, <3>5
  <2> QED
    BY <2>1, <2>2, <2>3
<1>3. runs' \in Seq(Run) /\ \A j \in Nat : LastOf(j) => LastOf(j)'
  BY <1>2, RunChanges DEF IInv
<1>4. \A j \in Nat : Starting(j) => Starting(j)'
  BY <1>1 DEF Starting, InHook
<1>5. Driven'
  BY <1>1, <1>3, <1>4, PendingRound DEF IInv, Driven
<1> QED
  BY <1>1, <1>3, <1>5, Keeps DEF IInv, Shape

\* register: nobody has spoken in the new round, and the map has its guests.
LEMMA RegisterFacts ==
  ASSUME IInv, Register, hook' = hook
  PROVE  /\ fate' \in Seq(Fate) /\ Len(fate') = Len(fate) + 1 /\ Len(fate) \in Nat
         /\ spoke' \in Seq(Spoken) /\ Len(spoke') = Len(fate')
         /\ pending' \in [round : Round', remaining : Seq(Bot)]
         /\ spoke'[Len(fate) + 1].first = <<>>
         /\ \A k \in Round : spoke'[k] = spoke[k]
         /\ HookKnows' /\ EntryKnows' /\ Fits' /\ InOrder' /\ CompleteIsAll'
<1> DEFINE was == Append(fate, "chaining")
           All == Spoken
<1>0. PICK n \in Nat : n = Len(fate)
  BY LenProperties DEF IInv, Shape
<1>1. /\ fate \in Seq(Fate) /\ spoke \in Seq(All) /\ Len(spoke) = n /\ Len(fate) = n
      /\ Round = 1 .. n
  BY <1>0 DEF IInv, Shape, Round
<1>2. Unspoken \in All /\ Unspoken.first = <<>> /\ Unspoken.guests = <<>> /\ "chaining" \in Fate
  BY EmptySeq DEF Unspoken, Fate, Spoken
<1>3. /\ was \in Seq(Fate) /\ Len(was) = n + 1 /\ was[n + 1] = "chaining"
      /\ \A k \in 1 .. n : was[k] = fate[k]
  BY <1>1, <1>2, AppendProperties
<1>4. /\ spoke' \in Seq(All) /\ Len(spoke') = n + 1 /\ spoke'[n + 1] = Unspoken
      /\ \A k \in 1 .. n : spoke'[k] = spoke[k]
  BY <1>1, <1>2, AppendProperties DEF Register
<1>5. pending' = Entry(n + 1, Tail(Order))
  BY <1>0 DEF Register, Put
<1>6. fate' \in Seq(Fate) /\ Len(fate') = n + 1 /\ \A k \in 1 .. n + 1 : fate'[k] = "complete" => was[k] = "complete"
  <2>1. fate' = was \/ (pending # Empty /\ fate' = [was EXCEPT ![pending.round] = "overwritten"])
    BY DEF Register, Put, Empty
  <2>2. CASE fate' = was
    BY <1>3, <2>2
  <2>3. CASE pending # Empty /\ fate' = [was EXCEPT ![pending.round] = "overwritten"]
    <3>1. pending.round \in 1 .. n + 1 /\ "overwritten" \in Fate
      BY <1>1, <2>3 DEF IInv, Shape, Round, Fate
    <3> HIDE DEF was
    <3> QED
      BY <1>3, <2>3, <3>1, ExceptSeq
  <2> QED
    BY <2>1, <2>2, <2>3
<1> HIDE DEF was, All
<1>7. pending' = [round |-> n + 1, remaining |-> Tail(Order)] /\ Tail(Order) \in Seq(Bot)
  BY <1>5, WholeOrder DEF Entry
<1>8. Round' = 1 .. n + 1 /\ pending' \in [round : Round', remaining : Seq(Bot)]
  BY <1>6, <1>7 DEF Round
<1>9. spoke'[n + 1].guests = <<>> /\ Len(spoke'[n + 1].guests) = 0
  BY <1>2, <1>4, EmptySeq
<1>10. HookKnows'
  <2>1. hook # NoHook => hook.round \in 1 .. n
    BY <1>1 DEF IInv, Shape
  <2>2. hook # NoHook => Rest(hook.round)' = Rest(hook.round)
    BY <1>4, <2>1 DEF Rest, Turns, Guests
  <2>3. pending'.round = n + 1
    BY <1>7
  <2> QED
    BY <1>0, <2>1, <2>2, <2>3 DEF IInv, HookKnows
<1>11. EntryKnows'
  <2>1. hook # NoHook => hook.round # n + 1
    BY <1>1 DEF IInv, Shape
  <2>2. Rest(n + 1)' = Tail(Order)
    BY <1>9, WholeOrder DEF Rest, Turns, Guests
  <2>3. pending'.round = n + 1 /\ pending'.remaining = Tail(Order)
    BY <1>7
  <2>4. Rest(pending.round)' = Tail(Order)
    BY <2>2, <2>3 DEF Rest, Turns, Guests
  <2> QED
    BY <2>1, <2>3, <2>4 DEF EntryKnows
<1>12. ASSUME NEW k \in Round'
       PROVE  /\ Turns(k)' <= Len(Order) - 1
              /\ Guests(k)' = SubSeq(Order, 2, Turns(k)' + 1) /\ Len(spoke'[k].first) <= 1
              /\ fate'[k] = "complete" => Guests(k)' = Tail(Order)
  <2>1. CASE k = n + 1
    <3>1. Guests(k)' = <<>> /\ Turns(k)' = 0 /\ spoke'[k].first = <<>>
      BY <1>2, <1>4, <1>9, <2>1 DEF Turns, Guests
    <3>2. fate'[k] # "complete"
      BY <1>3, <1>6, <2>1
    <3>3. Len(Order) \in Nat /\ Len(Order) >= 2 /\ SubSeq(Order, 2, 0 + 1) = <<>>
      BY WholeOrder
    <3> QED
      BY <3>1, <3>2, <3>3
  <2>2. CASE k \in 1 .. n
    <3>1. Guests(k)' = Guests(k) /\ Turns(k)' = Turns(k) /\ spoke'[k] = spoke[k]
          /\ (fate'[k] = "complete" => fate[k] = "complete")
      BY <1>3, <1>4, <1>6, <2>2 DEF Turns, Guests
    <3> QED
      BY <1>1, <2>2, <3>1 DEF IInv, Fits, InOrder, CompleteIsAll
  <2> QED
    BY <1>8, <2>1, <2>2
<1>13. Fits' /\ InOrder' /\ CompleteIsAll'
  BY <1>12 DEF Fits, InOrder, CompleteIsAll
<1> QED
  BY <1>0, <1>1, <1>2, <1>4, <1>6, <1>8, <1>10, <1>11, <1>13 DEF All

\* post_message and start_room_turn register a round ...
LEMMA RegisterIInv ==
  ASSUME IInv, (\E p \in Poster : PostRound(p)) \/ (\E c \in Caller : CallerRegister(c))
  PROVE  IInv'
<1>0. PICK n \in Nat : n = Len(fate)
  BY LenProperties DEF IInv, Shape
<1>1. Register /\ UNCHANGED <<runs, hook>>
  BY DEF PostRound, CallerRegister
<1>2. /\ fate' \in Seq(Fate) /\ Len(fate') = n + 1 /\ Round = 1 .. n /\ Round' = 1 .. n + 1
      /\ spoke' \in Seq(Spoken) /\ Len(spoke') = Len(fate')
      /\ pending' \in [round : Round', remaining : Seq(Bot)]
      /\ spoke'[n + 1].first = <<>>
      /\ \A k \in Round : spoke'[k] = spoke[k]
      /\ HookKnows' /\ EntryKnows' /\ Fits' /\ InOrder' /\ CompleteIsAll'
  BY <1>0, <1>1, RegisterFacts DEF Round
<1>3. hook' \in {NoHook} \cup [pc : Places, run : Nat, quiet : BOOLEAN, round : Round', remaining : Seq(Bot)]
  <2>1. hook \in {NoHook} \cup [pc : Places, run : Nat, quiet : BOOLEAN, round : Round, remaining : Seq(Bot)]
    BY DEF IInv, Shape
  <2>2. Round \subseteq Round'
    BY <1>0, <1>2
  <2> QED
    BY <1>1, <2>1, <2>2
<1>4. post \in [Poster -> AskState] /\ caller \in [Caller -> AskState]
  BY DEF IInv, Shape
<1>7. /\ n + 1 \in Round' /\ spoke'[n + 1].first = <<>>
      /\ \A k \in Round : k # n + 1 /\ k \in Round' /\ spoke'[k] = spoke[k]
  <2>1. n + 1 \in 1 .. n + 1 /\ \A k \in 1 .. n : k # n + 1 /\ k \in 1 .. n + 1
    BY <1>0
  <2> QED
    BY <1>2, <2>1
<1>8. FirstOnce
  BY DEF IInv
<1>9. pending'.round = n + 1
  BY <1>0, <1>1 DEF Register, Put, Entry
<1>5. CASE \E p \in Poster : PostRound(p)
  <2>1. PICK p \in Poster : post' = [post EXCEPT ![p] = Ask("start", n + 1)] /\ caller' = caller
    BY <1>0, <1>5 DEF PostRound
  <2>2. /\ Ask("start", n + 1) \in AskState
        /\ Ask("start", n + 1).pc = "start" /\ Ask("start", n + 1).round = n + 1
    BY DEF Ask, AskState
  <2>3. /\ post' \in [Poster -> AskState] /\ post'[p].pc = "start" /\ post'[p].round = n + 1
        /\ \A q \in Poster \ {p} : post'[q] = post[q]
    BY <1>4, <2>1, <2>2
  <2>4. FirstOnce'
    <3>1. ASSUME NEW q \in Poster, post[q].pc = "start"
          PROVE  /\ post[q].round \in Round' /\ post[q].round # n + 1
                 /\ spoke'[post[q].round].first = <<>>
      BY <1>7, <1>8, <3>1 DEF FirstOnce
    <3>2. ASSUME NEW c \in Caller, caller[c].pc = "start"
          PROVE  /\ caller[c].round \in Round' /\ caller[c].round # n + 1
                 /\ spoke'[caller[c].round].first = <<>>
      BY <1>7, <1>8, <3>2 DEF FirstOnce
    <3>3. ASSUME NEW q \in Poster, post'[q].pc = "start"
          PROVE  /\ post'[q].round \in Round' /\ spoke'[post'[q].round].first = <<>>
                 /\ \A o \in Poster \ {q} : ~ (post'[o].pc = "start" /\ post'[o].round = post'[q].round)
                 /\ \A c \in Caller : ~ (caller'[c].pc = "start" /\ caller'[c].round = post'[q].round)
      <4>1. CASE q = p
        BY <1>7, <2>1, <2>3, <3>1, <3>2, <4>1
      <4>2. CASE q # p
        BY <1>7, <1>8, <2>1, <2>3, <3>1, <3>3, <4>2 DEF FirstOnce
      <4> QED
        BY <4>1, <4>2
    <3>4. ASSUME NEW c \in Caller, caller'[c].pc = "start"
          PROVE  /\ caller'[c].round \in Round' /\ spoke'[caller'[c].round].first = <<>>
                 /\ \A d \in Caller \ {c} : ~ (caller'[d].pc = "start" /\ caller'[d].round = caller'[c].round)
      BY <1>7, <1>8, <2>1, <3>2, <3>4 DEF FirstOnce
    <3> QED
      BY <3>3, <3>4 DEF FirstOnce
  <2>5. Driven'
    BY <1>9, <2>1, <1>4 DEF Driven, Starting
  <2> QED
    BY <1>1, <1>2, <1>3, <1>4, <2>1, <2>3, <2>4, <2>5 DEF IInv, Shape
<1>6. CASE \E c \in Caller : CallerRegister(c)
  <2>1. PICK c \in Caller : caller' = [caller EXCEPT ![c] = Ask("start", n + 1)] /\ post' = post
    BY <1>0, <1>6 DEF CallerRegister
  <2>2. /\ Ask("start", n + 1) \in AskState
        /\ Ask("start", n + 1).pc = "start" /\ Ask("start", n + 1).round = n + 1
    BY DEF Ask, AskState
  <2>3. /\ caller' \in [Caller -> AskState] /\ caller'[c].pc = "start" /\ caller'[c].round = n + 1
        /\ \A d \in Caller \ {c} : caller'[d] = caller[d]
    BY <1>4, <2>1, <2>2
  <2>4. FirstOnce'
    <3>1. ASSUME NEW q \in Poster, post[q].pc = "start"
          PROVE  /\ post[q].round \in Round' /\ post[q].round # n + 1
                 /\ spoke'[post[q].round].first = <<>>
      BY <1>7, <1>8, <3>1 DEF FirstOnce
    <3>2. ASSUME NEW d \in Caller, caller[d].pc = "start"
          PROVE  /\ caller[d].round \in Round' /\ caller[d].round # n + 1
                 /\ spoke'[caller[d].round].first = <<>>
      BY <1>7, <1>8, <3>2 DEF FirstOnce
    <3>3. ASSUME NEW q \in Poster, post'[q].pc = "start"
          PROVE  /\ post'[q].round \in Round' /\ spoke'[post'[q].round].first = <<>>
                 /\ \A o \in Poster \ {q} : ~ (post'[o].pc = "start" /\ post'[o].round = post'[q].round)
                 /\ \A d \in Caller : ~ (caller'[d].pc = "start" /\ caller'[d].round = post'[q].round)
      BY <1>7, <1>8, <2>1, <2>3, <3>1, <3>3 DEF FirstOnce
    <3>4. ASSUME NEW d \in Caller, caller'[d].pc = "start"
          PROVE  /\ caller'[d].round \in Round' /\ spoke'[caller'[d].round].first = <<>>
                 /\ \A e \in Caller \ {d} : ~ (caller'[e].pc = "start" /\ caller'[e].round = caller'[d].round)
      <4>1. CASE d = c
        BY <1>7, <2>1, <2>3, <3>2, <4>1
      <4>2. CASE d # c
        BY <1>7, <1>8, <2>1, <2>3, <3>2, <3>4, <4>2 DEF FirstOnce
      <4> QED
        BY <4>1, <4>2
    <3> QED
      BY <3>3, <3>4 DEF FirstOnce
  <2>5. Driven'
    BY <1>9, <2>1, <1>4 DEF Driven, Starting
  <2> QED
    BY <1>1, <1>2, <1>3, <1>4, <2>1, <2>3, <2>4, <2>5 DEF IInv, Shape
<1> QED
  BY <1>5, <1>6

\* The first leg: what the hook and the map know does not change.
LEMMA FirstLegFacts ==
  ASSUME IInv, NEW k \in Round, NEW b \in Bot, spoke[k].first = <<>>, FirstLeg(b, k),
         UNCHANGED <<pending, hook, fate>>,
         post' \in [Poster -> AskState], caller' \in [Caller -> AskState],
         \A j \in Round \ {k} : Starting(j) => Starting(j)'
  PROVE  /\ Shape' /\ Driven'
         /\ HookKnows' /\ EntryKnows' /\ Fits' /\ InOrder' /\ CompleteIsAll'
         /\ \A j \in Round \ {k} : spoke'[j] = spoke[j]
<1> DEFINE All == Spoken
           new == [spoke[k] EXCEPT !.first = <<b>>]
<1>0. Shape
  BY DEF IInv
<1>1. /\ spoke \in Seq(All) /\ k \in 1 .. Len(spoke) /\ Round = 1 .. Len(spoke) /\ Round' = Round
      /\ spoke[k] \in All
  <2>1. Round = 1 .. Len(spoke) /\ Round' = Round /\ spoke \in Seq(All)
    BY <1>0 DEF Shape, Round
  <2>2. spoke[k] \in All
    BY RoundFacts
  <2> QED
    BY <2>1, <2>2
<1>2. new \in All /\ new.first = <<b>> /\ new.guests = spoke[k].guests /\ Len(<<b>>) = 1
  <2>1. <<b>> \in Seq(Bot) /\ Len(<<b>>) = 1
    OBVIOUS
  <2>2. spoke[k] \in [first : Seq(Bot), guests : Seq(Bot)]
    BY <1>1 DEF Spoken
  <2> HIDE DEF All
  <2>3. new \in [first : Seq(Bot), guests : Seq(Bot)] /\ new.first = <<b>> /\ new.guests = spoke[k].guests
    BY <2>1, <2>2
  <2> QED
    BY <2>1, <2>3 DEF All, Spoken
<1>3. spoke' = [spoke EXCEPT ![k] = new]
  <2>1. Append(spoke[k].first, b) = <<b>>
    OBVIOUS
  <2> QED
    BY <2>1 DEF FirstLeg
<1> HIDE DEF All, new
<1>4. /\ spoke' \in Seq(All) /\ Len(spoke') = Len(spoke)
      /\ \A j \in 1 .. Len(spoke) : spoke'[j] = IF j = k THEN new ELSE spoke[j]
  BY <1>1, <1>2, <1>3, ExceptSeq
<1>5. ASSUME NEW j \in Round
      PROVE  /\ Guests(j)' = Guests(j) /\ Turns(j)' = Turns(j) /\ Rest(j)' = Rest(j)
             /\ Len(spoke'[j].first) \in {1, Len(spoke[j].first)}
  <2>1. Guests(j)' = Guests(j) /\ Len(spoke'[j].first) \in {1, Len(spoke[j].first)}
    BY <1>1, <1>2, <1>4 DEF Guests
  <2> QED
    BY <2>1 DEF Turns, Rest
<1>6. runs' \in Seq(Run) /\ LastOf(k)' /\ \A j \in Round \ {k} : LastOf(j) => LastOf(j)'
  <2>1. k \in Nat /\ Round \subseteq Nat
    BY DEF Round
  <2> QED
    BY <1>0, <2>1, LegAdded DEF FirstLeg
<1>7. Shape'
  BY <1>0, <1>1, <1>4, <1>6 DEF Shape, All
<1>8. HookKnows' /\ EntryKnows'
  <2>1. hook # NoHook => hook.round \in Round
    BY <1>0 DEF Shape
  <2>2. pending # Empty => pending.round \in Round
    BY <1>0 DEF Shape
  <2>3. HookKnows /\ EntryKnows
    BY DEF IInv
  <2>4. HookKnows'
    BY <1>5, <2>1, <2>3 DEF HookKnows
  <2>5. pending # Empty => Rest(pending.round)' = Rest(pending.round)
    BY <1>5, <2>2
  <2>6. EntryKnows'
    BY <2>3, <2>5 DEF EntryKnows
  <2> QED
    BY <2>4, <2>6
<1>9. Fits' /\ InOrder' /\ CompleteIsAll'
  <2>1. Fits /\ InOrder /\ CompleteIsAll
    BY DEF IInv
  <2>2. Fits'
    BY <1>1, <1>5, <2>1 DEF Fits
  <2>3. InOrder'
    <3>1. ASSUME NEW j \in Round PROVE Len(spoke'[j].first) <= 1
      <4>1. Len(spoke[j].first) <= 1
        BY <2>1 DEF InOrder
      <4>2. Len(spoke'[j].first) = 1 \/ Len(spoke'[j].first) = Len(spoke[j].first)
        BY <1>5
      <4>3. 1 <= 1
        OBVIOUS
      <4> QED
        BY <4>1, <4>2, <4>3, Zenon
    <3>2. ASSUME NEW j \in Round PROVE Guests(j)' = SubSeq(Order, 2, Turns(j)' + 1)
      BY <1>5, <2>1 DEF InOrder
    <3> QED
      BY <1>1, <3>1, <3>2 DEF InOrder
  <2>4. CompleteIsAll'
    BY <1>1, <1>5, <2>1 DEF CompleteIsAll
  <2> QED
    BY <2>2, <2>3, <2>4
<1>10. Driven'
  BY <1>0, <1>6, PendingRound DEF IInv, Driven
<1> QED
  BY <1>1, <1>4, <1>7, <1>8, <1>9, <1>10

\* ... and start its first leg, each for its own round.
LEMMA FirstLegIInv ==
  ASSUME IInv, (\E p \in Poster : PostRoundStart(p)) \/ (\E c \in Caller : CallerStart(c))
  PROVE  IInv'
<1>0. post \in [Poster -> AskState] /\ caller \in [Caller -> AskState] /\ FirstOnce
  BY DEF IInv, Shape
<1>1. CASE \E p \in Poster : PostRoundStart(p)
  <2>1. PICK p \in Poster : PostRoundStart(p)
    BY <1>1
  <2>2. /\ post[p].pc = "start" /\ (\E b \in Bot : FirstLeg(b, post[p].round)) /\ UNCHANGED <<pending, hook, fate, caller>>
        /\ post' = [post EXCEPT ![p].pc = "over"]
    BY <2>1 DEF PostRoundStart
  <2>3. /\ post' \in [Poster -> AskState] /\ post'[p].pc = "over"
        /\ \A q \in Poster \ {p} : post'[q] = post[q]
    BY <1>0, <2>2 DEF AskState
  <2>4. PICK k \in Round : k = post[p].round /\ spoke[k].first = <<>>
    BY <1>0, <2>2 DEF FirstOnce
  <2>5. /\ Shape' /\ Driven'
        /\ HookKnows' /\ EntryKnows' /\ Fits' /\ InOrder' /\ CompleteIsAll'
        /\ \A j \in Round \ {k} : spoke'[j] = spoke[j]
    <3>1. \A j \in Round \ {k} : Starting(j) => Starting(j)'
      BY <2>2, <2>3, <2>4 DEF Starting, Ask, InHook
    <3>2. PICK b \in Bot : FirstLeg(b, k)
      BY <2>2, <2>4
    <3> QED
      BY <1>0, <2>2, <2>3, <2>4, <3>1, <3>2, FirstLegFacts
  <2>6. Round' = Round
    BY <2>2 DEF Round
  <2>7. FirstOnce'
    <3>1. ASSUME NEW q \in Poster, post'[q].pc = "start"
          PROVE  /\ q # p /\ post[q].pc = "start" /\ post'[q].round = post[q].round
                 /\ post[q].round \in Round \ {k}
      BY <1>0, <2>2, <2>3, <2>4, <3>1 DEF FirstOnce
    <3>2. ASSUME NEW c \in Caller, caller'[c].pc = "start"
          PROVE  /\ caller[c].pc = "start" /\ caller'[c].round = caller[c].round
                 /\ caller[c].round \in Round \ {k}
      BY <1>0, <2>2, <2>4, <3>2 DEF FirstOnce
    <3> QED
      BY <1>0, <2>5, <2>6, <3>1, <3>2 DEF FirstOnce
  <2> QED
    BY <2>5, <2>7 DEF IInv
<1>2. CASE \E c \in Caller : CallerStart(c)
  <2>1. PICK c \in Caller : CallerStart(c)
    BY <1>2
  <2>2. /\ caller[c].pc = "start" /\ FirstLeg(Order[1], caller[c].round) /\ UNCHANGED <<pending, hook, fate, post>>
        /\ caller' = [caller EXCEPT ![c].pc = "over"]
    BY <2>1 DEF CallerStart
  <2>3. /\ caller' \in [Caller -> AskState] /\ caller'[c].pc = "over"
        /\ \A d \in Caller \ {c} : caller'[d] = caller[d]
    BY <1>0, <2>2 DEF AskState
  <2>4. PICK k \in Round : k = caller[c].round /\ spoke[k].first = <<>>
    BY <1>0, <2>2 DEF FirstOnce
  <2>5. /\ Shape' /\ Driven'
        /\ HookKnows' /\ EntryKnows' /\ Fits' /\ InOrder' /\ CompleteIsAll'
        /\ \A j \in Round \ {k} : spoke'[j] = spoke[j]
    <3>1. \A j \in Round \ {k} : Starting(j) => Starting(j)'
      BY <2>2, <2>3, <2>4 DEF Starting, Ask, InHook
    <3>2. Order[1] \in Bot /\ FirstLeg(Order[1], k)
      BY <2>2, <2>4, WholeOrder, OrderAssumption, ElementOfSeq
    <3> QED
      BY <1>0, <2>2, <2>3, <2>4, <3>1, <3>2, FirstLegFacts
  <2>6. Round' = Round
    BY <2>2 DEF Round
  <2>7. FirstOnce'
    <3>1. ASSUME NEW q \in Poster, post'[q].pc = "start"
          PROVE  /\ post[q].pc = "start" /\ post'[q].round = post[q].round
                 /\ post[q].round \in Round \ {k}
      BY <1>0, <2>2, <2>4, <3>1 DEF FirstOnce
    <3>2. ASSUME NEW d \in Caller, caller'[d].pc = "start"
          PROVE  /\ d # c /\ caller[d].pc = "start" /\ caller'[d].round = caller[d].round
                 /\ caller[d].round \in Round \ {k}
      BY <1>0, <2>2, <2>3, <2>4, <3>2 DEF FirstOnce
    <3> QED
      BY <1>0, <2>5, <2>6, <3>1, <3>2 DEF FirstOnce
  <2> QED
    BY <2>5, <2>7 DEF IInv
<1> QED
  BY <1>1, <1>2

\* Steps that start no leg: the rounds are as they were, but for an end that
\* everybody's leg earned.
LEMMA RoundsKept ==
  ASSUME IInv, UNCHANGED <<spoke, post, caller>>, fate' \in Seq(Fate), Len(fate') = Len(fate),
         \A k \in Round : fate'[k] = "complete" => fate[k] = "complete" \/ Rest(k) = <<>>
  PROVE  /\ FirstOnce' /\ Fits' /\ InOrder' /\ CompleteIsAll'
         /\ Round' = Round /\ \A k \in Round : Rest(k)' = Rest(k)
<1>1. Round' = Round
  BY DEF Round
<1>2. ASSUME NEW k \in Round PROVE Guests(k)' = Guests(k) /\ Turns(k)' = Turns(k) /\ Rest(k)' = Rest(k)
  BY DEF Guests, Turns, Rest
<1>3. FirstOnce /\ Fits /\ InOrder /\ CompleteIsAll
  BY DEF IInv
<1>4. FirstOnce' /\ Fits' /\ InOrder'
  BY <1>1, <1>2, <1>3 DEF FirstOnce, Fits, InOrder
<1>5. ASSUME NEW k \in Round, fate'[k] = "complete" PROVE Guests(k) = Tail(Order)
  <2>1. CASE fate[k] = "complete"
    BY <1>3, <2>1 DEF CompleteIsAll
  <2>2. CASE Rest(k) = <<>>
    <3>1. Turns(k) \in Nat /\ Turns(k) <= Len(Order) - 1
      BY RoundFacts
    <3>2. Turns(k) = Len(Order) - 1 /\ Len(Order) \in Nat
      BY <2>2, <3>1, LeftOf, WholeOrder DEF Rest
    <3>3. Turns(k) + 1 = Len(Order)
      BY <3>2
    <3> QED
      BY <1>3, <3>3, WholeOrder DEF InOrder
  <2> QED
    BY <1>5, <2>1, <2>2
<1> QED
  BY <1>1, <1>2, <1>4, <1>5 DEF CompleteIsAll

\* Ending a round that is still chaining, the other rounds left alone.
LEMMA Ends ==
  ASSUME Shape, NEW k \in Round, NEW f \in {"complete", "cut", "overwritten"},
         fate' = [fate EXCEPT ![k] = f] \/ fate' = fate
  PROVE  /\ fate' \in Seq(Fate) /\ Len(fate') = Len(fate)
         /\ \A j \in Round : fate'[j] = "complete" => fate[j] = "complete" \/ (j = k /\ f = "complete")
<1>1. fate \in Seq(Fate) /\ k \in 1 .. Len(fate) /\ f \in Fate
  BY DEF Shape, Round, Fate
<1>2. CASE fate' = [fate EXCEPT ![k] = f]
  BY <1>1, <1>2, ExceptSeq DEF Round
<1> QED
  BY <1>1, <1>2

LEMMA SameFate == ASSUME Shape, NEW k \in Round PROVE [fate EXCEPT ![k] = fate[k]] = fate
<1>1. PICK n \in Nat : fate \in [1 .. n -> Fate]
  BY SeqDef DEF Shape
<1>2. fate = [i \in 1 .. n |-> fate[i]]
  BY <1>1
<1> QED
  BY <1>1, <1>2

\* on_run_done takes the entry, and with it what the map knew.
LEMMA TakeIInv == ASSUME IInv, NEW r \in DOMAIN runs, HookTake(r) PROVE IInv'
<1>0. Shape /\ EntryKnows
  BY DEF IInv
<1>1. /\ hook = NoHook /\ pending' = Empty /\ UNCHANGED <<post, caller, spoke, fate>>
      /\ hook' = IF pending = Empty THEN NoHook
                 ELSE [pc |-> "silence", run |-> r, quiet |-> runs[r].answer = "quiet",
                       round |-> pending.round, remaining |-> pending.remaining]
      /\ runs' = [runs EXCEPT ![r].st = "over", ![r].answer = "none"]
  BY DEF HookTake, Retires
<1>2. runs' \in Seq(Run) /\ r \in Nat
  <2>1. runs[r] \in Run /\ DOMAIN runs = 1 .. Len(runs)
    BY <1>0, RunFacts
  <2>2. runs' = [runs EXCEPT ![r] = [runs[r] EXCEPT !.st = "over", !.answer = "none"]]
    BY <1>1, <2>1
  <2>3. /\ [runs[r] EXCEPT !.st = "over", !.answer = "none"] \in Run
        /\ [runs[r] EXCEPT !.st = "over", !.answer = "none"].leg = runs[r].leg
    BY <2>1 DEF Run, RunState, Answer
  <2>4. runs' \in Seq(Run)
    BY <1>0, <2>2, <2>3, RunChanges
  <2>5. Len(runs) \in Nat /\ r \in 1 .. Len(runs)
    BY <1>0, RunFacts
  <2> QED
    BY <2>4, <2>5
<1>3. /\ FirstOnce' /\ Fits' /\ InOrder' /\ CompleteIsAll'
      /\ Round' = Round /\ \A k \in Round : Rest(k)' = Rest(k)
  BY <1>0, <1>1, RoundsKept DEF Shape
<1>4. CASE pending = Empty
  <2>1. hook' = NoHook
    BY <1>1, <1>4
  <2> QED
    BY <1>0, <1>1, <1>2, <1>3, <2>1 DEF IInv, Shape, HookKnows, EntryKnows, Driven
<1>5. CASE pending # Empty
  <2>1. PICK k \in Round : k = pending.round /\ pending.remaining \in Seq(Bot)
    BY <1>0, <1>5 DEF Shape
  <2>2. pending.remaining = Rest(k) /\ k # NoRound
    BY <1>0, <1>1, <1>5, <2>1 DEF EntryKnows, Round, NoRound
  <2>3. /\ hook' = [pc |-> "silence", run |-> r, quiet |-> runs[r].answer = "quiet",
                   round |-> k, remaining |-> Rest(k)]
        /\ Rest(k) \in Seq(Bot)
    BY <1>1, <1>5, <2>1, <2>2
  <2>4. pending'.round = NoRound
    BY <1>1 DEF Empty
  <2>5. HookKnows' /\ EntryKnows' /\ Driven'
    BY <1>1, <1>3, <2>2, <2>3, <2>4 DEF HookKnows, EntryKnows, Driven
  <2>6. Shape'
    BY <1>0, <1>1, <1>2, <1>3, <2>3 DEF Shape, Places
  <2> QED
    BY <1>3, <2>5, <2>6 DEF IInv
<1> QED
  BY <1>4, <1>5

\* The hook lets go of a round it did not put back, or goes on with it.
LEMMA HookMoves ==
  ASSUME IInv, hook # NoHook, hook.pc # "start", UNCHANGED <<pending, spoke, runs, post, caller>>,
         fate' \in Seq(Fate), Len(fate') = Len(fate),
         \A k \in Round : fate'[k] = "complete" => fate[k] = "complete" \/ Rest(k) = <<>>,
         \/ hook' = NoHook
         \/ hook.remaining # <<>> /\ \E pc \in {"next", "insert"} : hook' = [hook EXCEPT !.pc = pc]
  PROVE  IInv'
<1>0. Shape /\ HookKnows /\ EntryKnows /\ Driven
  BY DEF IInv
<1>1. /\ FirstOnce' /\ Fits' /\ InOrder' /\ CompleteIsAll'
      /\ Round' = Round /\ \A k \in Round : Rest(k)' = Rest(k)
  BY RoundsKept
<1>2. hook \in [pc : Places, run : Nat, quiet : BOOLEAN, round : Round, remaining : Seq(Bot)]
  BY <1>0 DEF Shape
<1>3. hook.remaining = Rest(hook.round) /\ pending.round # hook.round
  BY <1>0 DEF HookKnows
<1>4. pending # Empty => pending.round \in Round /\ pending.remaining = Rest(pending.round)
  BY <1>0, <1>3 DEF EntryKnows, Shape
<1>5. Driven'
  BY <1>0 DEF Driven, Starting, LastOf, InHook
<1>6. CASE hook' = NoHook
  <2>1. Shape'
    BY <1>0, <1>1, <1>6 DEF Shape
  <2>2. HookKnows' /\ EntryKnows'
    BY <1>1, <1>4, <1>6 DEF HookKnows, EntryKnows
  <2> QED
    BY <1>1, <1>5, <2>1, <2>2 DEF IInv
<1>7. CASE hook.remaining # <<>> /\ \E pc \in {"next", "insert"} : hook' = [hook EXCEPT !.pc = pc]
  <2>1. PICK pc \in {"next", "insert"} : hook' = [hook EXCEPT !.pc = pc]
    BY <1>7
  <2>2. /\ hook' \in [pc : Places, run : Nat, quiet : BOOLEAN, round : Round, remaining : Seq(Bot)]
        /\ hook'.pc = pc /\ hook'.round = hook.round /\ hook'.remaining = hook.remaining
    BY <1>2, <2>1 DEF Places
  <2>3. Shape'
    BY <1>0, <1>1, <2>2 DEF Shape
  <2>4. HookKnows' /\ EntryKnows'
    BY <1>1, <1>2, <1>3, <1>4, <1>7, <2>1, <2>2 DEF HookKnows, EntryKnows
  <2> QED
    BY <1>1, <1>5, <2>3, <2>4 DEF IInv
<1> QED
  BY <1>6, <1>7

LEMMA SilenceIInv == ASSUME IInv, HookSilence PROVE IInv'
<1>0. Shape
  BY DEF IInv
<1>1. hook # NoHook /\ hook.pc = "silence" /\ UNCHANGED <<pending, spoke, runs, post, caller>>
  BY DEF HookSilence, InHook, NoHook
<1>2. PICK k \in Round : k = hook.round /\ hook.remaining = Rest(k)
  BY <1>0, <1>1 DEF IInv, Shape, HookKnows
<1>4. CASE hook.remaining = <<>>
  <2>1. hook' = NoHook /\ fate' = [fate EXCEPT ![k] = IF @ = "chaining" THEN "complete" ELSE @]
    BY <1>2, <1>4 DEF HookSilence
  <2>2. fate' = [fate EXCEPT ![k] = "complete"] \/ fate' = fate
    BY <1>0, <2>1, SameFate
  <2>3. /\ fate' \in Seq(Fate) /\ Len(fate') = Len(fate)
        /\ \A j \in Round : fate'[j] = "complete" => fate[j] = "complete" \/ j = k
    BY <1>0, <2>2, Ends
  <2> QED
    BY <1>1, <1>2, <1>4, <2>1, <2>3, HookMoves
<1>5. CASE hook.remaining # <<>>
  <2>1. hook' = [hook EXCEPT !.pc = "next"] /\ fate' = fate
    BY <1>5 DEF HookSilence
  <2>2. fate' \in Seq(Fate) /\ Len(fate') = Len(fate)
    BY <1>0, <2>1 DEF Shape
  <2> QED
    BY <1>1, <1>5, <2>1, <2>2, HookMoves
<1> QED
  BY <1>4, <1>5

LEMMA NextIInv == ASSUME IInv, HookNext PROVE IInv'
<1>0. Shape
  BY DEF IInv
<1>1. /\ hook # NoHook /\ hook.pc = "next" /\ UNCHANGED <<pending, spoke, post, caller, runs>>
      /\ hook.remaining # <<>>
  BY DEF HookNext, InHook, NoHook, IInv, HookKnows
<1>2. PICK k \in Round : k = hook.round
  BY <1>0, <1>1 DEF Shape
<1>4. /\ \/ hook' = NoHook
         \/ hook' = [hook EXCEPT !.pc = "insert"]
      /\ fate' = [fate EXCEPT ![k] = "cut"] \/ fate' = fate
  BY <1>0, <1>2, SameFate DEF HookNext
<1>5. /\ fate' \in Seq(Fate) /\ Len(fate') = Len(fate)
      /\ \A j \in Round : fate'[j] = "complete" => fate[j] = "complete"
  BY <1>0, <1>4, Ends
<1> QED
  BY <1>1, <1>4, <1>5, HookMoves

\* The entry that is put back lacks the member whose run is about to start.
LEMMA InsertIInv == ASSUME IInv, HookInsert PROVE IInv'
<1>0. Shape /\ HookKnows
  BY DEF IInv
<1>1. /\ hook # NoHook /\ hook.pc = "insert" /\ UNCHANGED <<spoke, post, caller, runs>>
      /\ hook' = [hook EXCEPT !.pc = "start"] /\ Put(hook.round, Tail(hook.remaining), fate)
  BY DEF HookInsert, InHook, NoHook
<1>2. hook \in [pc : Places, run : Nat, quiet : BOOLEAN, round : Round, remaining : Seq(Bot)]
      /\ hook.remaining = Rest(hook.round) /\ hook.remaining # <<>>
  BY <1>0, <1>1 DEF Shape, HookKnows
<1>3. /\ hook' \in [pc : Places, run : Nat, quiet : BOOLEAN, round : Round, remaining : Seq(Bot)] /\ hook'.pc = "start"
      /\ hook'.round = hook.round /\ hook'.remaining = hook.remaining /\ hook' # NoHook
  BY <1>1, <1>2 DEF Places, NoHook
<1>4. Tail(hook.remaining) \in Seq(Bot)
  BY <1>2, HeadTailProperties
<1>5. pending' = [round |-> hook.round, remaining |-> Tail(hook.remaining)]
  BY <1>1 DEF Put, Entry
<1>6. fate' = fate \/ \E k \in Round : fate' = [fate EXCEPT ![k] = "overwritten"]
  <2>1. pending = Empty => pending.round = NoRound
    BY DEF Empty
  <2>2. pending # Empty => pending.round \in Round
    BY <1>0 DEF Shape
  <2> QED
    BY <1>1, <2>1, <2>2 DEF Put
<1>7. /\ fate' \in Seq(Fate) /\ Len(fate') = Len(fate)
      /\ \A j \in Round : fate'[j] = "complete" => fate[j] = "complete"
  <2>1. CASE fate' = fate
    BY <1>0, <2>1 DEF Shape
  <2>2. CASE \E k \in Round : fate' = [fate EXCEPT ![k] = "overwritten"]
    BY <1>0, <2>2, Ends
  <2> QED
    BY <1>6, <2>1, <2>2
<1>8. /\ FirstOnce' /\ Fits' /\ InOrder' /\ CompleteIsAll'
      /\ Round' = Round /\ \A k \in Round : Rest(k)' = Rest(k)
  BY <1>1, <1>7, RoundsKept
<1>9. HookKnows' /\ EntryKnows'
  BY <1>2, <1>3, <1>5, <1>8 DEF HookKnows, EntryKnows
<1>10. Driven'
  BY <1>3, <1>5 DEF Driven, Starting, InHook
<1>11. Shape'
  BY <1>0, <1>1, <1>2, <1>3, <1>4, <1>5, <1>7, <1>8 DEF Shape
<1> QED
  BY <1>8, <1>9, <1>10, <1>11 DEF IInv

\* The next guest has its leg, and everybody who knows who is next agrees.
LEMMA StartIInv == ASSUME IInv, HookStart PROVE IInv'
<1> DEFINE All == Spoken
<1>0. Shape /\ HookKnows /\ EntryKnows /\ FirstOnce /\ Fits /\ InOrder /\ CompleteIsAll
  BY DEF IInv
<1>1. /\ hook # NoHook /\ hook.pc = "start" /\ hook' = NoHook /\ UNCHANGED <<pending, post, caller, fate>>
      /\ GuestLeg(Head(hook.remaining), hook.round)
  BY DEF HookStart, InHook, NoHook
<1>2. PICK k \in Round : k = hook.round /\ hook.remaining = Rest(k) /\ hook.remaining # <<>>
  BY <1>0, <1>1 DEF Shape, HookKnows
<1>3. PICK n \in Nat : n = Turns(k) /\ n < Len(Order) - 1
  <2>1. Turns(k) \in Nat /\ Turns(k) <= Len(Order) - 1 /\ Len(Order) \in Nat
    BY RoundFacts, WholeOrder
  <2>2. Turns(k) # Len(Order) - 1
    BY <1>2, <2>1, LeftOf DEF Rest
  <2> QED
    BY <2>1, <2>2
<1>4. /\ Head(hook.remaining) = Order[n + 2] /\ Order[n + 2] \in Bot
      /\ Tail(hook.remaining) = SubSeq(Order, n + 3, Len(Order))
      /\ Append(Guests(k), Order[n + 2]) = SubSeq(Order, 2, n + 2)
  BY <1>0, <1>2, <1>3, NextOf DEF Rest, InOrder
<1> DEFINE new == [spoke[k] EXCEPT !.guests = Append(@, Order[n + 2])]
<1>5. spoke[k] \in All /\ k \in 1 .. Len(spoke) /\ Round = 1 .. Len(spoke) /\ spoke \in Seq(All)
  BY <1>0, RoundFacts DEF Shape, Round
<1>6. /\ new \in All /\ new.first = spoke[k].first /\ new.guests = SubSeq(Order, 2, n + 2)
      /\ Len(new.guests) = n + 1
  <2>1. /\ Append(spoke[k].guests, Order[n + 2]) \in Seq(Bot)
        /\ Len(Append(spoke[k].guests, Order[n + 2])) = Len(spoke[k].guests) + 1
    <3>1. spoke[k].guests \in Seq(Bot)
      BY <1>5 DEF Spoken
    <3> QED
      BY <1>4, <3>1, AppendProperties
  <2> QED
    BY <1>3, <1>4, <1>5, <2>1 DEF Guests, Turns, Spoken
<1>7. spoke' = [spoke EXCEPT ![k] = new]
  BY <1>1, <1>2, <1>4 DEF GuestLeg
<1> HIDE DEF All, new
<1>8. /\ spoke' \in Seq(All) /\ Len(spoke') = Len(spoke)
      /\ \A j \in 1 .. Len(spoke) : spoke'[j] = IF j = k THEN new ELSE spoke[j]
  BY <1>5, <1>6, <1>7, ExceptSeq
<1>9. runs' \in Seq(Run) /\ LastOf(k)' /\ \A j \in Nat \ {k} : LastOf(j) => LastOf(j)'
  <2>1. k \in Nat
    BY <1>5
  <2> QED
    BY <1>0, <1>1, <1>2, <2>1, LegAdded DEF GuestLeg
<1>10. Round' = Round
  BY <1>1 DEF Round
<1>11. ASSUME NEW j \in Round, j # k
       PROVE  Guests(j)' = Guests(j) /\ Turns(j)' = Turns(j) /\ Rest(j)' = Rest(j)
  BY <1>5, <1>8, <1>11 DEF Guests, Turns, Rest
<1>12. /\ Guests(k)' = SubSeq(Order, 2, n + 2) /\ Turns(k)' = n + 1
       /\ Rest(k)' = SubSeq(Order, n + 3, Len(Order))
  <2>1. Guests(k)' = SubSeq(Order, 2, n + 2) /\ Turns(k)' = n + 1
    BY <1>5, <1>6, <1>8 DEF Guests, Turns
  <2>2. n + 1 + 2 = n + 3
    OBVIOUS
  <2> QED
    BY <2>1, <2>2 DEF Rest
<1>13. \A j \in Round : spoke'[j].first = spoke[j].first
  BY <1>5, <1>6, <1>8
<1>14. FirstOnce'
  BY <1>0, <1>1, <1>10, <1>13 DEF FirstOnce
<1>15. HookKnows' /\ Driven'
  <2>1. \A j \in Nat \ {k} : Starting(j) => Starting(j)'
    BY <1>1, <1>2 DEF Starting, InHook
  <2> QED
    BY <1>0, <1>1, <1>9, <2>1, PendingRound DEF IInv, HookKnows, Driven
<1>16. EntryKnows'
  <2>1. pending # Empty => pending.round \in Round
    BY <1>0 DEF Shape
  <2>2. CASE pending.round = k
    BY <1>0, <1>1, <1>2, <1>4, <1>12, <2>2 DEF EntryKnows
  <2>3. CASE pending.round # k
    <3>1. pending # Empty => pending.remaining = Rest(pending.round)
      BY <1>0, <1>2, <2>3 DEF EntryKnows
    <3> QED
      BY <1>1, <1>11, <2>1, <2>3, <3>1 DEF EntryKnows
  <2> QED
    BY <2>2, <2>3
<1>17. fate[k] # "complete"
  <2>1. Len(Tail(Order)) = Len(Order) - 1 /\ Len(Order) \in Nat
    BY WholeOrder, OrderAssumption, HeadTailProperties, EmptySeq
  <2> QED
    BY <1>0, <1>3, <2>1 DEF CompleteIsAll, Turns
<1>18. ASSUME NEW j \in Round
       PROVE  /\ Turns(j)' <= Len(Order) - 1
              /\ Guests(j)' = SubSeq(Order, 2, Turns(j)' + 1) /\ Len(spoke'[j].first) <= 1
              /\ fate'[j] = "complete" => Guests(j)' = Tail(Order)
  <2>1. CASE j = k
    <3>1. n + 1 + 1 = n + 2 /\ n + 1 <= Len(Order) - 1
      BY <1>3, WholeOrder
    <3> QED
      BY <1>0, <1>1, <1>12, <1>13, <1>17, <2>1, <3>1 DEF InOrder
  <2>2. CASE j # k
    BY <1>0, <1>1, <1>11, <1>13, <2>2 DEF Fits, InOrder, CompleteIsAll
  <2> QED
    BY <2>1, <2>2
<1>19. Fits' /\ InOrder' /\ CompleteIsAll'
  BY <1>10, <1>18 DEF Fits, InOrder, CompleteIsAll
<1>20. Shape'
  BY <1>0, <1>1, <1>8, <1>9, <1>10 DEF Shape, All
<1> QED
  BY <1>14, <1>15, <1>16, <1>19, <1>20 DEF IInv

-----------------------------------------------------------------------------
(***************************************************************************)
(* The theorems                                                            *)
(***************************************************************************)

LEMMA InitIInv == Init => IInv
<1> SUFFICES ASSUME Init PROVE IInv
  OBVIOUS
<1>1. /\ fate = <<>> /\ spoke = <<>> /\ runs = <<>> /\ Len(fate) = 0 /\ Len(spoke) = 0
      /\ pending = Empty /\ hook = NoHook
      /\ \A p \in Poster : post[p].pc = "idle" /\ \A c \in Caller : caller[c].pc = "idle"
  BY EmptySeq DEF Init, Ask
<1>2. Round = {}
  BY <1>1 DEF Round
<1>3. Shape
  BY <1>1, EmptySeq DEF Init, Shape, Ask, AskState, NoRound
<1>4. \A c \in Caller : caller[c].pc = "idle"
  BY DEF Init, Ask
<1> QED
  BY <1>1, <1>2, <1>3, <1>4 DEF IInv, HookKnows, EntryKnows, FirstOnce, Fits, InOrder, CompleteIsAll, Driven

\* Every step keeps what the hook, the map and the askers know.
LEMMA StepIInv == IInv /\ [Next]_vars => IInv'
<1> SUFFICES ASSUME IInv, [Next]_vars PROVE IInv'
  OBVIOUS
<1>1. CASE \E p \in Poster : Post(p) \/ PostStep(p)
  BY <1>1, AskIInv, RegisterIInv, FirstLegIInv, MentionIInv DEF PostStep
<1>2. CASE \E c \in Caller : CallerPost(c) \/ CallerStep(c)
  BY <1>2, AskIInv, RegisterIInv, FirstLegIInv DEF CallerStep
<1>3. CASE \E r \in DOMAIN runs : RunStep(r) \/ Wait(r) \/ FaultStep(r)
  BY <1>3, RunIInv, TakeIInv DEF RunStep
<1>4. CASE HookStep
  BY <1>4, SilenceIInv, NextIInv, InsertIInv, StartIInv DEF HookStep
<1>5. CASE \E b \in Removable : Archive(b) \/ Delete(b)
  BY <1>5, ArchiveIInv
<1>6. CASE UNCHANGED vars
  BY <1>6, Bystanders DEF vars, IInv, Shape
<1> QED
  BY <1>1, <1>2, <1>3, <1>4, <1>5, <1>6 DEF Next

\* The invariant of the round engine: the hook and the map never disagree on
\* which guest is next, and an entry has a leg of its own round, or somebody
\* about to start one.
THEOREM InductiveInvariant == Spec => []IInv
<1>1. Init => IInv
  BY InitIInv
<1>2. IInv /\ [Next]_vars => IInv'
  BY StepIInv
<1> QED
  BY <1>1, <1>2, PTL DEF Spec

\* on_run_done: the guests are handed the turn in the room's order, none of them
\* twice and none skipped, and a round has one first leg, whosever it is.
THEOREM SafetyInOrder == Spec => []InOrder
<1>1. IInv => InOrder
  BY DEF IInv
<1> QED
  BY <1>1, InductiveInvariant, PTL

\* A round that ended as complete handed the turn to every guest.
THEOREM SafetyComplete == Spec => []CompleteIsAll
<1>1. IInv => CompleteIsAll
  BY DEF IInv
<1> QED
  BY <1>1, InductiveInvariant, PTL

\* B6, B9: an entry in the map always has a leg of its round, or somebody about to
\* start one, whose hook will take it out, unless that leg was a lost run.
THEOREM SafetyNoStuckRound == Spec => []NoStuckRound
<1>1. IInv => NoStuckRound
  BY DEF IInv, Driven, Starting, LastOf, NoStuckRound, LegLost
<1> QED
  BY <1>1, InductiveInvariant, PTL
=============================================================================
