----------------------------- MODULE RunTalkProofs -----------------------------
(***************************************************************************)
(* Proofs about both ways a run talks.  Of Interjections, for any set of    *)
(* messages and runs and any step limit: IInv is inductive, and with it     *)
(* every interjection is quoted at most once, is news to the run that hears *)
(* it, and is accounted for.  Of RunStream, for any runs and any number of  *)
(* events: a subscribed stream is what was copied of the backlog followed   *)
(* by what was sent after the sender joined (Streamed), because the sender  *)
(* is on the bus for as long as the run is driven (OnTheBus) and, beside    *)
(* the announcements of approvals, one event is in flight at a time, the    *)
(* last of its kind (OneDriver).                                            *)
(***************************************************************************)
EXTENDS RunTalk, SequenceTheorems, TLAPS

-----------------------------------------------------------------------------
(***************************************************************************)
(* What is said to a run                                                   *)
(***************************************************************************)

\* The fresh state of the model satisfies the inductive invariant.
LEMMA InitIInv == Init => IInv
BY MaxStepsAssumption
   DEF Init, IInv, TypeOK, UnderWay, OnePlace, NoRowNothing, QuotedOnce, NewsToTheRun,
       Accounted, At, Posting, PostState, RowStatus, TaskPC

\* A post's database section keeps the invariant: the run it finds was
\* prompted from an earlier thread.
LEMMA PostIInv == ASSUME IInv, NEW m \in Message, Post(m) PROVE IInv'
<1> USE DEF IInv, At
<1>1. m \notin thread /\ thread' = thread \cup {m}
  BY DEF Post, UnderWay
<1>2. PICK r \in Run \cup {NoRun} :
        /\ Active(r)
        /\ post' = [post EXCEPT ![m] =
              Posting(IF r = NoRun THEN "start" ELSE "interject", r, thread')]
  BY DEF Post
<1>3. r # NoRun => r \in Run /\ row[r] = "running" /\ m \notin prompt[r]
  BY <1>1, <1>2, NoRunAssumption DEF Active, Running, NoRowNothing
<1>4. UNCHANGED <<row, older, pc, steps, prompt, heard, dropped, queue>>
  BY DEF Post, runVars
<1>5. /\ post'[m] = Posting(IF r = NoRun THEN "start" ELSE "interject", r, thread')
      /\ \A n \in Message \ {m} : post'[n] = post[n]
      /\ post' \in [Message -> PostState]
  BY <1>1, <1>2 DEF TypeOK, PostState, Posting
<1>6. TypeOK'
  BY <1>1, <1>4, <1>5 DEF TypeOK
<1>7. UnderWay'
  BY <1>1, <1>3, <1>4, <1>5 DEF UnderWay, Posting
<1>8. OnePlace' /\ Accounted'
  <2>1. post[m].pc # "over" /\ post'[m].pc # "over"
    BY <1>5 DEF Posting, Post
  <2>2. OnePlace'
    BY <2>1, <1>4, <1>5 DEF OnePlace
  <2>3. Accounted'
    BY <2>1, <1>4, <1>5 DEF Accounted
  <2> QED
    BY <2>2, <2>3
<1>9. NoRowNothing' /\ QuotedOnce' /\ NewsToTheRun'
  BY <1>1, <1>4 DEF NoRowNothing, QuotedOnce, NewsToTheRun
<1> QED
  BY <1>6, <1>7, <1>8, <1>9

\* interject's look at the row touches nothing but the post.
LEMMA RecheckIInv == ASSUME IInv, NEW m \in Message, Recheck(m) PROVE IInv'
<1> USE DEF IInv, At, Go
<1>1. UNCHANGED <<row, older, pc, steps, prompt, heard, dropped, queue, thread>>
  BY DEF Recheck, runVars
<1>2. /\ post[m].pc = "interject"
      /\ post'[m].pc \in {"push", "start"}
      /\ post'[m].run = post[m].run /\ post'[m].known = post[m].known
      /\ \A n \in Message \ {m} : post'[n] = post[n]
      /\ post' \in [Message -> PostState]
  <2>1. post[m].pc = "interject" /\ post \in [Message -> PostState]
    BY DEF Recheck, TypeOK
  <2>2. PICK p \in {"push", "start"} : post' = [post EXCEPT ![m].pc = p]
    BY DEF Recheck
  <2> QED
    BY <2>1, <2>2 DEF PostState
<1>3. TypeOK'
  BY <1>1, <1>2 DEF TypeOK
<1>4. UnderWay'
  BY <1>1, <1>2 DEF UnderWay
<1>5. OnePlace' /\ Accounted'
  BY <1>1, <1>2 DEF OnePlace, Accounted
<1>6. NoRowNothing' /\ QuotedOnce' /\ NewsToTheRun'
  BY <1>1 DEF NoRowNothing, QuotedOnce, NewsToTheRun
<1> QED
  BY <1>3, <1>4, <1>5, <1>6

\* The push puts the message in one queue, and it was nowhere before.
LEMMA PushIInv == ASSUME IInv, NEW m \in Message, Push(m) PROVE IInv'
<1> USE DEF IInv, At, Go
<1> DEFINE t == post[m].run
<1>1. UNCHANGED <<row, older, pc, steps, prompt, heard, dropped, thread>>
  BY DEF Push, runVars
<1>2. /\ post[m].pc = "push"
      /\ post'[m].pc = "over"
      /\ post'[m].run = t /\ post'[m].known = post[m].known
      /\ \A n \in Message \ {m} : post'[n] = post[n]
      /\ post' \in [Message -> PostState]
  BY DEF Push, TypeOK, PostState
<1>3. t \in Run /\ row[t] # "absent" /\ m \notin prompt[t]
  BY <1>2 DEF UnderWay
<1>4. /\ queue'[t] = queue[t] \cup {m}
      /\ \A q \in Run \ {t} : queue'[q] = queue[q]
      /\ queue' \in [Run -> SUBSET Message]
  BY <1>3 DEF Push, TypeOK
<1>5. \A q \in Run : m \notin queue[q] /\ heard[q][m] = 0
  BY <1>2 DEF OnePlace
<1> HIDE DEF t
<1>6. TypeOK'
  BY <1>1, <1>2, <1>4 DEF TypeOK
<1>7. UnderWay'
  BY <1>1, <1>2 DEF UnderWay
<1>8. OnePlace'
  BY <1>1, <1>2, <1>4, <1>5 DEF OnePlace
<1>9. NoRowNothing'
  BY <1>1, <1>3, <1>4 DEF NoRowNothing
<1>10. QuotedOnce'
  BY <1>1, <1>4, <1>5 DEF QuotedOnce
<1>11. NewsToTheRun'
  <2> SUFFICES ASSUME NEW n \in Message, NEW q \in Run,
                      heard[q][n] + (IF n \in queue'[q] THEN 1 ELSE 0) > 0
               PROVE  n \notin prompt[q]
    BY <1>1 DEF NewsToTheRun
  <2>1. CASE n = m /\ q = t
    BY <2>1, <1>3
  <2>2. CASE ~(n = m /\ q = t)
    <3>1. n \in queue'[q] <=> n \in queue[q]
      BY <2>2, <1>4
    <3> QED
      BY <3>1 DEF NewsToTheRun
  <2> QED
    BY <2>1, <2>2
<1>12. Accounted'
  BY <1>1, <1>2, <1>3, <1>4 DEF Accounted
<1> QED
  BY <1>6, <1>7, <1>8, <1>9, <1>10, <1>11, <1>12

\* A new run is prompted with what its post knew and has nothing queued.
LEMMA StartIInv == ASSUME IInv, NEW m \in Message, NEW r \in Run, Start(m, r) PROVE IInv'
<1> USE DEF IInv, At, Go
<1>1. UNCHANGED <<steps, queue, thread, heard, dropped>> /\ row[r] = "absent"
  BY DEF Start
<1>2. /\ post[m].pc = "start"
      /\ post'[m].pc = "over"
      /\ post'[m].run = post[m].run /\ post'[m].known = post[m].known
      /\ \A n \in Message \ {m} : post'[n] = post[n]
      /\ post' \in [Message -> PostState]
  BY DEF Start, TypeOK, PostState
<1>3. /\ row'[r] = "running" /\ prompt'[r] = post[m].known
      /\ \A q \in Run \ {r} : row'[q] = row[q] /\ prompt'[q] = prompt[q]
      /\ row' \in [Run -> RowStatus] /\ pc' \in [Run -> TaskPC]
      /\ prompt' \in [Run -> SUBSET Message]
  BY DEF Start, TypeOK, RowStatus, TaskPC, PostState
<1>4. older' \in [Run -> SUBSET Run]
  BY DEF Start, TypeOK
<1>5. TypeOK'
  BY <1>1, <1>2, <1>3, <1>4 DEF TypeOK
<1>6. queue[r] = {} /\ \A n \in Message : heard[r][n] = 0
  BY <1>1 DEF NoRowNothing
<1>7. /\ post[m].known \subseteq thread /\ m \in post[m].known
      /\ \A q \in Run : m \notin queue[q] /\ heard[q][m] = 0
  BY <1>2 DEF UnderWay, OnePlace
<1>8. UnderWay'
  <2> SUFFICES ASSUME NEW n \in Message
               PROVE  /\ post'[n].pc = "idle" <=> n \notin thread
                      /\ post'[n].known \subseteq thread
                      /\ n \in thread => n \in post'[n].known
                      /\ post'[n].pc \in {"interject", "push"} =>
                           /\ post'[n].run \in Run
                           /\ row'[post'[n].run] # "absent"
                           /\ n \notin prompt'[post'[n].run]
    BY <1>1 DEF UnderWay
  <2>1. CASE n = m
    BY <2>1, <1>2 DEF UnderWay
  <2>2. CASE n # m
    BY <2>2, <1>1, <1>2, <1>3 DEF UnderWay
  <2> QED
    BY <2>1, <2>2
<1>9. OnePlace'
  BY <1>1, <1>2, <1>7 DEF OnePlace
<1>10. NoRowNothing'
  BY <1>1, <1>3, <1>7 DEF NoRowNothing
<1>11. QuotedOnce'
  BY <1>1 DEF QuotedOnce
<1>12. NewsToTheRun'
  BY <1>1, <1>3, <1>6 DEF NewsToTheRun
<1>13. Accounted'
  <2> SUFFICES ASSUME NEW n \in Message, post'[n].pc = "over"
               PROVE  \/ \E q \in Run : n \in prompt'[q] \cup queue[q] \/ heard[q][n] > 0
                      \/ n \in dropped
    BY <1>1 DEF Accounted
  <2>1. CASE n = m
    BY <2>1, <1>3, <1>7
  <2>2. CASE n # m
    <3>1. \/ \E q \in Run : n \in prompt[q] \cup queue[q] \/ heard[q][n] > 0
          \/ n \in dropped
      BY <2>2, <1>2 DEF Accounted
    <3>2. prompt[r] = {}
      BY <1>1 DEF NoRowNothing
    <3> QED
      BY <3>1, <3>2, <1>3
  <2> QED
    BY <2>1, <2>2
<1> QED
  BY <1>5, <1>8, <1>9, <1>10, <1>11, <1>12, <1>13

\* The drain moves what is queued for a run into its request, once.
LEMMA DrainIInv == ASSUME IInv, NEW r \in Run, Drain(r) PROVE IInv'
<1> USE DEF IInv, At
<1>1. UNCHANGED <<row, older, thread, prompt, dropped, post>>
  BY DEF Drain
<1>2. /\ queue'[r] = {}
      /\ \A q \in Run \ {r} : queue'[q] = queue[q]
      /\ queue' \in [Run -> SUBSET Message]
  BY DEF Drain, TypeOK
<1>3. /\ \A n \in Message : heard'[r][n] = IF n \in queue[r] THEN heard[r][n] + 1 ELSE heard[r][n]
      /\ \A q \in Run \ {r} : heard'[q] = heard[q]
      /\ heard' \in [Run -> [Message -> Nat]]
  BY DEF Drain, TypeOK
<1>4. TypeOK'
  <2>1. pc' \in [Run -> TaskPC]
    BY DEF Drain, TypeOK, TaskPC
  <2>2. steps' \in [Run -> 0 .. MaxSteps]
    BY MaxStepsAssumption DEF Drain, TypeOK
  <2> QED
    BY <2>1, <2>2, <1>1, <1>2, <1>3 DEF TypeOK
<1>5. UnderWay'
  BY <1>1 DEF UnderWay
<1>6. \A n \in queue[r] : n \in Message /\ row[r] # "absent" /\ n \notin prompt[r]
                          /\ post[n].pc = "over"
                          /\ \A q \in Run : heard[q][n] = 0 /\ (n \in queue[q] => q = r)
  <2> SUFFICES ASSUME NEW n \in queue[r]
               PROVE  n \in Message /\ row[r] # "absent" /\ n \notin prompt[r]
                      /\ post[n].pc = "over"
                      /\ \A q \in Run : heard[q][n] = 0 /\ (n \in queue[q] => q = r)
    OBVIOUS
  <2>1. n \in Message
    BY DEF TypeOK
  <2>2. post[n].pc = "over" /\ \A q \in Run : heard[q][n] = 0 /\ (n \in queue[q] => q = r)
    BY <2>1 DEF OnePlace
  <2>3. n \notin prompt[r]
    BY <2>1, <2>2 DEF NewsToTheRun
  <2> QED
    BY <2>1, <2>2, <2>3 DEF NoRowNothing
<1>7. OnePlace'
  BY <1>1, <1>2, <1>3, <1>6 DEF OnePlace
<1>8. NoRowNothing'
  BY <1>1, <1>2, <1>3, <1>6 DEF NoRowNothing
<1>9. QuotedOnce'
  <2> SUFFICES ASSUME NEW n \in Message, NEW q \in Run
               PROVE  /\ heard'[q][n] <= 1
                      /\ heard'[q][n] = 1 =>
                           \A p \in Run : n \notin queue'[p] /\ (p # q => heard'[p][n] = 0)
    BY DEF QuotedOnce
  <2>1. CASE n \in queue[r]
    BY <2>1, <1>2, <1>3, <1>6
  <2>2. CASE n \notin queue[r]
    <3>1. /\ heard[q][n] <= 1
          /\ heard[q][n] = 1 =>
               \A s \in Run : n \notin queue[s] /\ (s # q => heard[s][n] = 0)
      BY DEF QuotedOnce
    <3>2. \A s \in Run : heard'[s][n] = heard[s][n]
      BY <2>2, <1>3
    <3>3. \A s \in Run : n \in queue'[s] => n \in queue[s]
      BY <1>2
    <3> QED
      BY <3>1, <3>2, <3>3
  <2> QED
    BY <2>1, <2>2
<1>10. NewsToTheRun'
  <2> SUFFICES ASSUME NEW n \in Message, NEW q \in Run,
                      heard'[q][n] + (IF n \in queue'[q] THEN 1 ELSE 0) > 0
               PROVE  n \notin prompt[q]
    BY <1>1 DEF NewsToTheRun
  <2>1. CASE q = r /\ n \in queue[r]
    BY <2>1, <1>6
  <2>2. CASE ~(q = r /\ n \in queue[r])
    <3>1. heard'[q][n] = heard[q][n] /\ (n \in queue'[q] => n \in queue[q])
      BY <2>2, <1>2, <1>3
    <3>2. heard[q][n] \in Nat
      BY DEF TypeOK
    <3>3. heard[q][n] + (IF n \in queue[q] THEN 1 ELSE 0) > 0
      BY <3>1, <3>2
    <3> QED
      BY <3>3 DEF NewsToTheRun
  <2> QED
    BY <2>1, <2>2
<1>11. Accounted'
  <2> SUFFICES ASSUME NEW n \in Message, post[n].pc = "over"
               PROVE  \/ \E q \in Run : n \in prompt[q] \cup queue'[q] \/ heard'[q][n] > 0
                      \/ n \in dropped
    BY <1>1 DEF Accounted
  <2>1. CASE n \in queue[r]
    BY <2>1, <1>3, <1>6
  <2>2. CASE n \notin queue[r]
    BY <2>2, <1>2, <1>3 DEF Accounted
  <2> QED
    BY <2>1, <2>2
<1> QED
  BY <1>4, <1>5, <1>7, <1>8, <1>9, <1>10, <1>11

\* The steps of a run that move only its row and its task.
LEMMA MoveIInv ==
  ASSUME IInv, NEW r \in Run,
         EndTurn(r) \/ Answer(r) \/ Tools(r) \/ Park(r) \/ Resume(r) \/ Expire(r)
  PROVE  IInv'
<1> USE DEF IInv, At
<1>1. UNCHANGED <<older, steps, queue, thread, prompt, heard, dropped, post>>
  BY DEF EndTurn, Answer, Tools, Park, Resume, Expire, SettleRow
<1>2. row' \in [Run -> RowStatus] /\ pc' \in [Run -> TaskPC]
  <2>1. /\ row \in [Run -> RowStatus] /\ pc \in [Run -> TaskPC]
        /\ {"over", "waiting", "running"} \subseteq RowStatus
        /\ {"finish", "head", "parked"} \subseteq TaskPC
    BY DEF TypeOK, RowStatus, TaskPC
  <2> HIDE DEF IInv
  <2>2. CASE SettleRow(r)
    BY <2>1, <2>2 DEF SettleRow
  <2>3. CASE Tools(r)
    BY <2>1, <2>3 DEF Tools
  <2>4. CASE Park(r)
    BY <2>1, <2>4 DEF Park
  <2>5. CASE Resume(r)
    BY <2>1, <2>5 DEF Resume
  <2> QED
    BY <2>2, <2>3, <2>4, <2>5 DEF EndTurn, Answer, Expire
<1>3. \A q \in Run : row'[q] = "absent" => row[q] = "absent"
  BY DEF EndTurn, Answer, Tools, Park, Resume, Expire, SettleRow, TypeOK
<1>4. \A q \in Run : row[q] # "absent" => row'[q] # "absent"
  BY <1>3
<1>5. TypeOK'
  BY <1>1, <1>2 DEF TypeOK
<1>6. UnderWay'
  BY <1>1, <1>4 DEF UnderWay
<1>7. OnePlace' /\ QuotedOnce' /\ NewsToTheRun' /\ Accounted'
  BY <1>1 DEF OnePlace, QuotedOnce, NewsToTheRun, Accounted
<1>8. NoRowNothing'
  BY <1>1, <1>3 DEF NoRowNothing
<1> QED
  BY <1>5, <1>6, <1>7, <1>8

\* finish turns what is queued into what was disposed of.
LEMMA FinishIInv == ASSUME IInv, NEW r \in Run, Finish(r) PROVE IInv'
<1> USE DEF IInv, At
<1>1. UNCHANGED <<row, older, steps, thread, prompt, heard, post>>
  BY DEF Finish
<1>2. /\ queue'[r] = {}
      /\ \A q \in Run \ {r} : queue'[q] = queue[q]
      /\ queue' \in [Run -> SUBSET Message]
      /\ dropped' = dropped \cup queue[r]
  BY DEF Finish, TypeOK
<1>3. TypeOK'
  <2>1. pc' \in [Run -> TaskPC]
    <3>1. pc \in [Run -> TaskPC] /\ "gone" \in TaskPC
      BY DEF TypeOK, TaskPC
    <3> HIDE DEF IInv
    <3> QED
      BY <3>1 DEF Finish
  <2>2. dropped' \subseteq Message
    <3>1. dropped \subseteq Message /\ queue[r] \subseteq Message
      BY DEF TypeOK
    <3> QED
      BY <1>2, <3>1
  <2> QED
    BY <2>1, <2>2, <1>1, <1>2 DEF TypeOK
<1>4. UnderWay'
  BY <1>1 DEF UnderWay
<1>5. OnePlace' /\ NoRowNothing' /\ QuotedOnce'
  BY <1>1, <1>2 DEF OnePlace, NoRowNothing, QuotedOnce
<1>6. NewsToTheRun'
  <2> SUFFICES ASSUME NEW n \in Message, NEW q \in Run,
                      heard[q][n] + (IF n \in queue'[q] THEN 1 ELSE 0) > 0
               PROVE  n \notin prompt[q]
    BY <1>1 DEF NewsToTheRun
  <2>1. n \in queue'[q] => n \in queue[q]
    BY <1>2
  <2>2. heard[q][n] \in Nat
    BY DEF TypeOK
  <2>3. heard[q][n] + (IF n \in queue[q] THEN 1 ELSE 0) > 0
    BY <2>1, <2>2
  <2> QED
    BY <2>3 DEF NewsToTheRun
<1>7. Accounted'
  BY <1>1, <1>2 DEF Accounted
<1> QED
  BY <1>3, <1>4, <1>5, <1>6, <1>7

\* IInv holds in every state of every behaviour.
THEOREM InductiveInvariant == Spec => []IInv
<1>1. IInv /\ [Next]_vars => IInv'
  <2> SUFFICES ASSUME IInv, [Next]_vars PROVE IInv'
    OBVIOUS
  <2>1. CASE UNCHANGED vars
    BY <2>1 DEF vars, IInv, TypeOK, UnderWay, OnePlace, NoRowNothing, QuotedOnce,
                NewsToTheRun, Accounted, At
  <2>2. ASSUME NEW m \in Message, PostStep(m) PROVE IInv'
    BY <2>2, PostIInv, RecheckIInv, PushIInv, StartIInv DEF PostStep
  <2>3. ASSUME NEW r \in Run, RunStep(r) PROVE IInv'
    BY <2>3, DrainIInv, MoveIInv, FinishIInv DEF RunStep
  <2> QED
    BY <2>1, <2>2, <2>3 DEF Next
<1> QED
  BY InitIInv, <1>1, PTL DEF Spec

\* take_interjections: each interjection is delivered at most once, however
\* posts, runs, parks and resumes interleave.
THEOREM SafetyQuotedOnce == Spec => []QuotedOnce
<1>1. IInv => QuotedOnce
  BY DEF IInv
<1> QED
  BY <1>1, InductiveInvariant, PTL

\* post_message: a run is never interjected with a message of its prompt.
THEOREM SafetyNews == Spec => []NewsToTheRun
<1>1. IInv => NewsToTheRun
  BY DEF IInv
<1> QED
  BY <1>1, InductiveInvariant, PTL

\* post_message: a message handed over is in a prompt, a queue, a request or
\* among those finish disposed of.
THEOREM SafetyAccounted == Spec => []Accounted
<1>1. IInv => Accounted
  BY DEF IInv
<1> QED
  BY <1>1, InductiveInvariant, PTL

\* post_message: a message that is to start a run is in no queue.
THEOREM SafetyJoinsOrStarts == Spec => []JoinsOrStarts
<1>1. IInv => JoinsOrStarts
  BY DEF IInv, OnePlace, JoinsOrStarts, At
<1> QED
  BY <1>1, InductiveInvariant, PTL

-----------------------------------------------------------------------------
(***************************************************************************)
(* What is seen of a run                                                   *)
(***************************************************************************)

\* The events of a run that were sent on the bus.
Sent(r) == 1 .. pushed[r] \ flying[r]

\* The announcements that finish left without a bus.
Late(r) == IF task[r] \in {"timer", "gone"} THEN asks[r] ELSE {}

\* What a stream R is that began with c events of the backlog and joined the
\* bus when J had been sent, if S are sent by now and A are announcements: the
\* copy, then other events than J, each once; where the order is not the
\* run's, an announcement is one of the two.
Told(R, c, S, J, A) ==
  /\ c <= Len(R) /\ J \subseteq S
  /\ \A i \in 1 .. c : R[i] = i
  /\ \A i \in c + 1 .. Len(R) : R[i] \in S \ J
  /\ \A i, j \in c + 1 .. Len(R) :
       i < j => R[i] # R[j] /\ (R[i] > R[j] => A \cap {R[i], R[j]} # {})
  /\ \A d \in 1 .. c, e \in 1 .. c : e < d => e \in J \/ A \cap {e, d} # {}

\* Everything sent after the sender joined is in the stream, or came too late.
Whole(R, c, S, J, L) == \A e \in S \ J : (\E i \in c + 1 .. Len(R) : R[i] = e) \/ e \in L

\* What a post has been told, by where it is.
Streamed(r) ==
  /\ watch[r] \in {"idle", "subscribe"} => got[r] = <<>> /\ chan[r] = <<>>
  /\ watch[r] = "register" =>
       /\ got[r] = <<>> /\ Len(chan[r]) = copied[r] /\ copied[r] <= pushed[r]
       /\ \A i \in 1 .. copied[r] : chan[r][i] = i
  /\ watch[r] \in {"stream", "over"} =>
       Told(Stream!Received(r), copied[r], Sent(r), joined[r], asks[r])
  /\ watch[r] = "stream" => Whole(Stream!Received(r), copied[r], Sent(r), joined[r], Late(r))

\* Whoever drives the run has one event in flight, and it is the last of its own.
OneDriver(r) ==
  \A e \in flying[r] \ asks[r], d \in 1 .. pushed[r] \ asks[r] : d <= e

\* A stream is on the bus for as long as the run is driven; afterwards only
\* announcements are sent.
OnTheBus(r) ==
  /\ task[r] = "none" => watch[r] = "idle"
  /\ watch[r] = "idle" => task[r] \in {"none", "refused"}
  /\ task[r] \in {"none", "refused"} => tails[r] = 0 /\ asks[r] = {}
  /\ task[r] \in {"timer", "gone"} => flying[r] \subseteq asks[r]
  /\ task[r] = "refused" /\ watch[r] # "idle" => flying[r] = {}
  /\ watch[r] = "stream" /\ task[r] \in {"run", "parked", "finish"} => bus[r] = "sender"

\* The bound leaves room for the announcements due and for the end of the run.
Fits(r) ==
  /\ pushed[r] + tails[r] <= MaxEvents
  /\ task[r] \in {"none", "run", "parked"} => pushed[r] + tails[r] + 1 <= MaxEvents

StreamInv ==
  Stream!TypeOK /\ \A r \in Watched : Fits(r) /\ OneDriver(r) /\ OnTheBus(r) /\ Streamed(r)

LEMMA ReadingMoves ==
  ASSUME NEW S, NEW s \in Seq(S), NEW t \in Seq(S), t # <<>>
  PROVE  Append(s, Head(t)) \o Tail(t) = s \o t
<1>1. /\ Head(t) \in S /\ Tail(t) \in Seq(S) /\ Len(Tail(t)) = Len(t) - 1 /\ Head(t) = t[1]
      /\ \A i \in 1 .. Len(t) - 1 : Tail(t)[i] = t[i + 1]
      /\ Len(t) \in Nat \ {0} /\ Len(s) \in Nat
  OBVIOUS
<1>2. /\ Append(s, Head(t)) \in Seq(S) /\ Len(Append(s, Head(t))) = Len(s) + 1
      /\ \A i \in 1 .. Len(s) : Append(s, Head(t))[i] = s[i]
      /\ Append(s, Head(t))[Len(s) + 1] = t[1]
  BY <1>1
<1> DEFINE a == Append(s, Head(t))
           b == Tail(t)
<1> HIDE DEF a, b
<1>3. /\ a \o b \in Seq(S) /\ Len(a \o b) = Len(s) + Len(t)
      /\ \A i \in 1 .. Len(s) + Len(t) : (a \o b)[i] = IF i <= Len(s) + 1 THEN a[i] ELSE b[i - (Len(s) + 1)]
  BY <1>1, <1>2, ConcatProperties DEF a, b
<1>4. /\ s \o t \in Seq(S) /\ Len(s \o t) = Len(s) + Len(t)
      /\ \A i \in 1 .. Len(s) + Len(t) : (s \o t)[i] = IF i <= Len(s) THEN s[i] ELSE t[i - Len(s)]
  BY ConcatProperties
<1>5. ASSUME NEW i \in 1 .. Len(s) + Len(t) PROVE (a \o b)[i] = (s \o t)[i]
  <2>1. CASE i <= Len(s)
    BY <1>1, <1>2, <1>3, <1>4, <2>1 DEF a
  <2>2. CASE i = Len(s) + 1
    BY <1>1, <1>2, <1>3, <1>4, <2>2 DEF a
  <2>3. CASE i > Len(s) + 1
    <3>1. i - (Len(s) + 1) \in 1 .. Len(t) - 1 /\ (i - (Len(s) + 1)) + 1 = i - Len(s)
      BY <1>1, <2>3
    <3>2. b[i - (Len(s) + 1)] = t[i - Len(s)]
      BY <1>1, <3>1 DEF b
    <3> QED
      BY <1>1, <1>3, <1>4, <2>3, <3>2
  <2>4. i <= Len(s) \/ i = Len(s) + 1 \/ i > Len(s) + 1
    BY <1>1
  <2> QED
    BY <2>1, <2>2, <2>3, <2>4
<1> QED
  BY <1>3, <1>4, <1>5, SeqEqual DEF a, b

LEMMA SendingGrows ==
  ASSUME NEW S, NEW s \in Seq(S), NEW t \in Seq(S), NEW e \in S
  PROVE  /\ Len(s \o Append(t, e)) = Len(s \o t) + 1
         /\ \A i \in 1 .. Len(s \o t) : (s \o Append(t, e))[i] = (s \o t)[i]
         /\ (s \o Append(t, e))[Len(s \o t) + 1] = e
<1>1. /\ Append(t, e) \in Seq(S) /\ Len(Append(t, e)) = Len(t) + 1
      /\ \A i \in 1 .. Len(t) : Append(t, e)[i] = t[i]
      /\ Append(t, e)[Len(t) + 1] = e
      /\ Len(t) \in Nat /\ Len(s) \in Nat
  OBVIOUS
<1> DEFINE b == Append(t, e)
<1> HIDE DEF b
<1>2. /\ Len(s \o b) = Len(s) + Len(t) + 1
      /\ \A i \in 1 .. Len(s) + Len(t) + 1 : (s \o b)[i] = IF i <= Len(s) THEN s[i] ELSE b[i - Len(s)]
  BY <1>1, ConcatProperties DEF b
<1>3. /\ Len(s \o t) = Len(s) + Len(t)
      /\ \A i \in 1 .. Len(s) + Len(t) : (s \o t)[i] = IF i <= Len(s) THEN s[i] ELSE t[i - Len(s)]
  BY ConcatProperties
<1>4. ASSUME NEW i \in 1 .. Len(s) + Len(t) PROVE (s \o b)[i] = (s \o t)[i]
  BY <1>1, <1>2, <1>3 DEF b
<1>5. (s \o b)[Len(s) + Len(t) + 1] = e
  <2>1. Len(s) + Len(t) + 1 - Len(s) = Len(t) + 1 /\ ~ (Len(s) + Len(t) + 1 <= Len(s))
    BY <1>1
  <2> QED
    BY <1>1, <1>2, <2>1 DEF b
<1> QED
  BY <1>2, <1>3, <1>4, <1>5 DEF b

\* Pushing an event sends none; sending one adds it.
LEMMA PushedIsNotSent ==
  ASSUME NEW p \in Nat, NEW F, \A e \in F : e \in Nat /\ e <= p
  PROVE  (1 .. p + 1) \ (F \cup {p + 1}) = 1 .. p \ F
  OBVIOUS

LEMMA SentIsSent ==
  ASSUME NEW p \in Nat, NEW F, NEW e \in F, e \in 1 .. p
  PROVE  1 .. p \ (F \ {e}) = (1 .. p \ F) \cup {e}
  OBVIOUS

\* What a stream is told stays true when more is sent past it ...
LEMMA ToldStays ==
  ASSUME NEW R, NEW c, NEW S, NEW J, NEW A, NEW T, NEW B,
         Told(R, c, S, J, A), S \subseteq T, A \subseteq B
  PROVE  Told(R, c, T, J, B)
  BY DEF Told

\* ... and when an event is sent to it that overtakes nothing but announcements.
LEMMA ToldMore ==
  ASSUME NEW R, NEW Q, Len(R) \in Nat, NEW c \in Nat, NEW S \in SUBSET Nat, NEW J, NEW A, NEW L,
         NEW e \in Nat \ S,
         Told(R, c, S, J, A),
         \A d \in S : d > e => A \cap {d, e} # {},
         Len(Q) = Len(R) + 1, \A i \in 1 .. Len(R) : Q[i] = R[i], Q[Len(R) + 1] = e
  PROVE  /\ Told(Q, c, S \cup {e}, J, A)
         /\ Whole(R, c, S, J, L) => Whole(Q, c, S \cup {e}, J, L)
<1>0. PICK n \in Nat : n = Len(R)
  OBVIOUS
<1>1. /\ c <= n /\ J \subseteq S
      /\ \A i \in 1 .. c : R[i] = i
      /\ \A i \in c + 1 .. n : R[i] \in S \ J
      /\ \A i, j \in c + 1 .. n :
           i < j => R[i] # R[j] /\ (R[i] > R[j] => A \cap {R[i], R[j]} # {})
      /\ \A d \in 1 .. c, k \in 1 .. c : k < d => k \in J \/ A \cap {k, d} # {}
  BY <1>0 DEF Told
<1>2. /\ Len(Q) = n + 1 /\ \A i \in 1 .. n : Q[i] = R[i] /\ Q[n + 1] = e
  BY <1>0
<1>3. \A i \in c + 1 .. n + 1 : i \in c + 1 .. n \/ i = n + 1
  BY <1>1
<1>4. Q[n + 1] = e
  BY <1>0
<1>5. c <= Len(Q) /\ J \subseteq S \cup {e} /\ \A i \in 1 .. c : Q[i] = i
  BY <1>1, <1>2
<1>6. ASSUME NEW i \in c + 1 .. n + 1 PROVE Q[i] \in (S \cup {e}) \ J
  <2>1. CASE i \in c + 1 .. n
    <3>1. Q[i] = R[i]
      BY <1>2, <2>1
    <3> QED
      BY <1>1, <2>1, <3>1
  <2>2. CASE i = n + 1
    BY <1>1, <1>4, <2>2
  <2> QED
    BY <1>3, <2>1, <2>2
<1>7. ASSUME NEW i \in c + 1 .. n + 1, NEW j \in c + 1 .. n + 1, i < j
      PROVE  Q[i] # Q[j] /\ (Q[i] > Q[j] => A \cap {Q[i], Q[j]} # {})
  <2>1. i \in c + 1 .. n /\ Q[i] = R[i]
    BY <1>2, <1>7
  <2>2. CASE j \in c + 1 .. n
    <3>1. Q[j] = R[j]
      BY <1>2, <2>2
    <3>2. R[i] # R[j] /\ (R[i] > R[j] => A \cap {R[i], R[j]} # {})
      BY <1>1, <1>7, <2>1, <2>2
    <3> QED
      BY <2>1, <3>1, <3>2
  <2>3. CASE j = n + 1
    <3>1. Q[j] = e
      BY <1>4, <2>3
    <3>2. R[i] \in S
      BY <1>1, <2>1
    <3> QED
      BY <2>1, <3>1, <3>2
  <2> QED
    BY <1>3, <2>2, <2>3
<1>8. Told(Q, c, S \cup {e}, J, A)
  BY <1>1, <1>2, <1>5, <1>6, <1>7 DEF Told
<1>9. ASSUME Whole(R, c, S, J, L) PROVE Whole(Q, c, S \cup {e}, J, L)
  <2>1. ASSUME NEW k \in (S \cup {e}) \ J
        PROVE  (\E i \in c + 1 .. n + 1 : Q[i] = k) \/ k \in L
    <3>1. CASE k = e
      BY <1>1, <1>4, <3>1
    <3>2. CASE k \in S
      <4>1. (\E i \in c + 1 .. n : R[i] = k) \/ k \in L
        BY <1>0, <1>9, <2>1, <3>2 DEF Whole
      <4>2. ASSUME NEW i \in c + 1 .. n, R[i] = k PROVE i \in c + 1 .. n + 1 /\ Q[i] = k
        BY <1>2, <4>2
      <4> QED
        BY <4>1, <4>2
    <3> QED
      BY <3>1, <3>2
  <2> QED
    BY <1>2, <2>1 DEF Whole
<1> QED
  BY <1>8, <1>9

-----------------------------------------------------------------------------
WatchedStep(r) == \/ Stream!Start(r) \/ Stream!Notice(r) \/ Stream!StartFails(r)
           \/ Stream!EmitterStep(r) \/ Stream!Cleanup(r) \/ Stream!ReaderStep(r) \/ Stream!Disconnect(r)

\* A step of one run touches no other.
Same(q) ==
  /\ task'[q] = task[q] /\ tails'[q] = tails[q] /\ pushed'[q] = pushed[q]
  /\ flying'[q] = flying[q] /\ asks'[q] = asks[q] /\ bus'[q] = bus[q]
  /\ watch'[q] = watch[q] /\ chan'[q] = chan[q] /\ got'[q] = got[q]
  /\ copied'[q] = copied[q] /\ joined'[q] = joined[q]

\* The steps of a run, one by one.
LEMMA StepsOfARun ==
  ASSUME NEW r \in Watched, WatchedStep(r)
  PROVE  \/ Stream!Start(r) \/ Stream!Notice(r) \/ Stream!StartFails(r)
         \/ (\E e \in Stream!Event : Stream!SendBus(r, e))
         \/ Stream!Refused(r) \/ Stream!Emit(r) \/ Stream!Park(r) \/ Stream!Announce(r)
         \/ Stream!Resume(r) \/ Stream!EmitTerminal(r) \/ Stream!Finish(r) \/ Stream!Cleanup(r)
         \/ Stream!CopyBacklog(r) \/ Stream!Register(r) \/ Stream!Read(r) \/ Stream!ReadEnd(r)
         \/ Stream!Disconnect(r)
  BY DEF WatchedStep, Stream!EmitterStep, Stream!ReaderStep

LEMMA OneAtATime ==
  ASSUME Stream!TypeOK, NEW r \in Watched, WatchedStep(r), NEW q \in Watched \ {r}
  PROVE  Same(q)
<1> USE DEF Stream!TypeOK, Same, Stream!streamVars, Stream!runVars
<1>1. CASE Stream!Start(r) BY <1>1 DEF Stream!Start
<1>2. CASE Stream!Notice(r) BY <1>2 DEF Stream!Notice, Stream!PushBacklog
<1>3. CASE Stream!StartFails(r) BY <1>3 DEF Stream!StartFails, Stream!PushBacklog
<1>4. CASE \E e \in Stream!Event : Stream!SendBus(r, e) BY <1>4 DEF Stream!SendBus
<1>5. CASE Stream!Refused(r) BY <1>5 DEF Stream!Refused
<1>6. CASE Stream!Emit(r) BY <1>6 DEF Stream!Emit, Stream!PushBacklog
<1>7. CASE Stream!EmitTerminal(r) BY <1>7 DEF Stream!EmitTerminal, Stream!PushBacklog
<1>8. CASE Stream!Finish(r) BY <1>8 DEF Stream!Finish
<1>9. CASE Stream!Cleanup(r) BY <1>9 DEF Stream!Cleanup
<1>10. CASE Stream!CopyBacklog(r) BY <1>10 DEF Stream!CopyBacklog
<1>11. CASE Stream!Register(r) BY <1>11 DEF Stream!Register
<1>12. CASE Stream!Read(r) BY <1>12 DEF Stream!Read
<1>13. CASE Stream!ReadEnd(r) BY <1>13 DEF Stream!ReadEnd
<1>14. CASE Stream!Disconnect(r) BY <1>14 DEF Stream!Disconnect
<1>15. CASE Stream!Park(r) \/ Stream!Resume(r) BY <1>15 DEF Stream!Park, Stream!Resume
<1>16. CASE Stream!Announce(r) BY <1>16 DEF Stream!Announce, Stream!PushBacklog
<1> QED
  BY <1>1, <1>2, <1>3, <1>4, <1>5, <1>6, <1>7, <1>8, <1>9, <1>10, <1>11, <1>12, <1>13, <1>14,
     <1>15, <1>16, StepsOfARun

LEMMA Elsewhere ==
  ASSUME StreamInv, NEW r \in Watched, WatchedStep(r), NEW q \in Watched \ {r}
  PROVE  Fits(q)' /\ OneDriver(q)' /\ OnTheBus(q)' /\ Streamed(q)'
<1>1. Same(q) /\ Fits(q) /\ OneDriver(q) /\ OnTheBus(q) /\ Streamed(q)
  BY OneAtATime DEF StreamInv
<1>2. Stream!Received(q)' = Stream!Received(q) /\ Sent(q)' = Sent(q) /\ Late(q)' = Late(q)
  BY <1>1 DEF Same, Stream!Received, Sent, Late
<1>3. Streamed(q)'
  BY <1>1, <1>2 DEF Same, Streamed, Told, Whole
<1>4. Fits(q)' /\ OneDriver(q)' /\ OnTheBus(q)'
  BY <1>1 DEF Same, Fits, OneDriver, OnTheBus
<1> QED
  BY <1>3, <1>4

\* emit's first half.
LEMMA PushType ==
  ASSUME Stream!TypeOK, NEW r \in Watched, Stream!PushBacklog(r), pushed[r] + 1 <= MaxEvents,
         task' \in [Watched -> Stream!TaskPC], tails' \in [Watched -> 0 .. MaxEvents],
         terminal' \in [Watched -> 0 .. MaxEvents],
         asks' = asks \/ asks' = [asks EXCEPT ![r] = @ \cup {pushed[r] + 1}]
  PROVE  Stream!TypeOK'
<1>0. /\ flying \in [Watched -> SUBSET Stream!Event] /\ asks \in [Watched -> SUBSET Stream!Event]
      /\ DOMAIN backlog = Watched /\ pushed[r] \in Nat
      /\ \A e \in flying[r] \cup asks[r] : e <= pushed[r]
  BY DEF Stream!TypeOK
<1>1. /\ pushed' \in [Watched -> 0 .. MaxEvents] /\ pushed'[r] = pushed[r] + 1
      /\ \A q \in Watched \ {r} : pushed'[q] = pushed[q]
  BY WatchedAssumption DEF Stream!TypeOK, Stream!PushBacklog
<1>2. pushed[r] + 1 \in Stream!Event
  BY WatchedAssumption DEF Stream!TypeOK, Stream!Event
<1>3. /\ flying' \in [Watched -> SUBSET Stream!Event] /\ asks' \in [Watched -> SUBSET Stream!Event]
      /\ DOMAIN backlog' = Watched
  <2>1. /\ flying[r] \cup {pushed[r] + 1} \in SUBSET Stream!Event
        /\ asks[r] \cup {pushed[r] + 1} \in SUBSET Stream!Event
    BY <1>0, <1>2
  <2>2. flying' \in [Watched -> SUBSET Stream!Event] /\ DOMAIN backlog' = Watched
    BY <1>0, <2>1 DEF Stream!PushBacklog
  <2>3. asks' \in [Watched -> SUBSET Stream!Event]
    BY <1>0, <2>1
  <2> QED
    BY <2>2, <2>3
<1>4. ASSUME NEW q \in Watched
      PROVE  /\ backlog'[q] \in {Stream!NoEntry, Stream!Kept(pushed'[q])}
             /\ \A e \in flying'[q] \cup asks'[q] : e <= pushed'[q]
  <2>1. CASE q = r
    <3>1. backlog'[r] = Stream!Kept(pushed[r] + 1)
      BY <1>0 DEF Stream!PushBacklog
    <3>2. flying'[r] = flying[r] \cup {pushed[r] + 1}
      BY <1>0 DEF Stream!PushBacklog
    <3>3. asks'[r] \subseteq asks[r] \cup {pushed[r] + 1}
      BY <1>0
    <3>4. \A e \in flying[r] \cup asks[r] : e \in Nat /\ e <= pushed[r]
      BY <1>0 DEF Stream!Event
    <3> QED
      BY <1>0, <1>1, <2>1, <3>1, <3>2, <3>3, <3>4
  <2>2. CASE q # r
    BY <1>1, <2>2 DEF Stream!TypeOK, Stream!PushBacklog
  <2> QED
    BY <2>1, <2>2
<1>5. UNCHANGED <<bus, Stream!streamVars>>
  BY DEF Stream!PushBacklog
<1> QED
  BY <1>1, <1>3, <1>4, <1>5 DEF Stream!TypeOK, Stream!streamVars

LEMMA StreamType == ASSUME StreamInv, NEW r \in Watched, WatchedStep(r) PROVE Stream!TypeOK'
<1>0. Stream!TypeOK /\ Fits(r) /\ MaxEvents \in Nat /\ pushed[r] \in Nat /\ tails[r] \in Nat
  BY WatchedAssumption DEF StreamInv, Stream!TypeOK
<1>1. CASE Stream!Start(r)
  BY <1>0, <1>1 DEF Stream!Start, Stream!TypeOK, Stream!TaskPC, Stream!PostPC
<1>2. CASE Stream!Notice(r) \/ Stream!Emit(r)
  <2>1. /\ Stream!PushBacklog(r) /\ pushed[r] + 1 <= MaxEvents
        /\ UNCHANGED <<task, tails, asks, terminal>>
    BY <1>0, <1>2 DEF Stream!Notice, Stream!Emit, Stream!Room, Stream!runVars
  <2> QED
    BY <1>0, <2>1, PushType DEF Stream!TypeOK
<1>3. CASE Stream!StartFails(r) \/ Stream!EmitTerminal(r)
  <2>1. /\ Stream!PushBacklog(r) /\ pushed[r] + 1 <= MaxEvents /\ UNCHANGED <<tails, asks>>
    BY <1>0, <1>3 DEF Stream!StartFails, Stream!EmitTerminal, Stream!Room, Fits
  <2>2. task' \in [Watched -> Stream!TaskPC] /\ terminal' \in [Watched -> 0 .. MaxEvents]
    <3>1. terminal' = [terminal EXCEPT ![r] = pushed[r] + 1] /\ pushed[r] + 1 \in 0 .. MaxEvents
      BY <1>0, <1>3, <2>1 DEF Stream!StartFails, Stream!EmitTerminal
    <3>2. \E t \in Stream!TaskPC : task' = [task EXCEPT ![r] = t]
      BY <1>3 DEF Stream!StartFails, Stream!EmitTerminal, Stream!TaskPC
    <3> QED
      BY <1>0, <3>1, <3>2 DEF Stream!TypeOK
  <2> QED
    BY <1>0, <2>1, <2>2, PushType DEF Stream!TypeOK
<1>4. CASE Stream!Announce(r)
  <2>1. /\ Stream!PushBacklog(r) /\ pushed[r] + 1 <= MaxEvents /\ UNCHANGED <<task, terminal>>
        /\ asks' = [asks EXCEPT ![r] = @ \cup {pushed[r] + 1}]
    BY <1>0, <1>4 DEF Stream!Announce, Fits
  <2>2. tails' \in [Watched -> 0 .. MaxEvents]
    BY <1>0, <1>4 DEF Stream!Announce, Stream!TypeOK
  <2> QED
    BY <1>0, <2>1, <2>2, PushType DEF Stream!TypeOK
<1>5. CASE Stream!Park(r) \/ Stream!Resume(r)
  <2>1. task' \in [Watched -> Stream!TaskPC] /\ tails' \in [Watched -> 0 .. MaxEvents]
    <3>1. \E t \in Stream!TaskPC : task' = [task EXCEPT ![r] = t]
      BY <1>5 DEF Stream!Park, Stream!Resume, Stream!TaskPC
    <3>2. \E n \in 0 .. MaxEvents : tails' = [tails EXCEPT ![r] = n]
      <4>1. CASE Stream!Park(r)
        <5>1. tails' = [tails EXCEPT ![r] = tails[r] + 1] /\ tails[r] + 1 \in 0 .. MaxEvents
          BY <1>0, <4>1 DEF Stream!Park, Stream!Room
        <5> QED
          BY <5>1
      <4>2. CASE Stream!Resume(r)
        BY <1>0, <4>2 DEF Stream!Resume, Stream!TypeOK
      <4> QED
        BY <1>5, <4>1, <4>2
    <3> QED
      BY <1>0, <3>1, <3>2 DEF Stream!TypeOK
  <2>2. UNCHANGED <<pushed, flying, asks, terminal, backlog, bus, Stream!streamVars>>
    BY <1>5 DEF Stream!Park, Stream!Resume
  <2> QED
    BY <1>0, <2>1, <2>2 DEF Stream!TypeOK, Stream!streamVars
<1>6. ASSUME NEW e \in Stream!Event, Stream!SendBus(r, e) PROVE Stream!TypeOK'
  <2>1. /\ flying' \in [Watched -> SUBSET Stream!Event]
        /\ \A q \in Watched : flying'[q] \subseteq flying[q]
    BY <1>0, <1>6 DEF Stream!SendBus, Stream!TypeOK
  <2>2. chan' \in [Watched -> Seq(Stream!Event)] /\ bus' \in [Watched -> Stream!BusState]
    <3>1. CASE chan' = [chan EXCEPT ![r] = Append(@, e)] /\ UNCHANGED bus
      <4>1. Append(chan[r], e) \in Seq(Stream!Event)
        BY <1>0 DEF Stream!TypeOK
      <4> QED
        BY <1>0, <3>1, <4>1 DEF Stream!TypeOK
    <3>2. CASE bus' = [bus EXCEPT ![r] = IF @ = "sender" THEN "empty" ELSE @] /\ UNCHANGED chan
      BY <1>0, <3>2 DEF Stream!TypeOK, Stream!BusState
    <3> QED
      BY <1>6, <3>1, <3>2 DEF Stream!SendBus
  <2>3. UNCHANGED <<Stream!runVars, pushed, backlog, watch, sender, got, copied, joined>>
    BY <1>6 DEF Stream!SendBus
  <2> QED
    BY <1>0, <2>1, <2>2, <2>3 DEF Stream!TypeOK, Stream!runVars
<1>7. CASE Stream!Refused(r)
  BY <1>0, <1>7 DEF Stream!Refused, Stream!TypeOK, Stream!PostPC, Stream!runVars
<1>8. CASE Stream!Finish(r)
  BY <1>0, <1>8 DEF Stream!Finish, Stream!TypeOK, Stream!TaskPC, Stream!BusState
<1>9. CASE Stream!Cleanup(r)
  BY <1>0, <1>9 DEF Stream!Cleanup, Stream!TypeOK, Stream!TaskPC, Stream!BusState
<1>10. CASE Stream!CopyBacklog(r)
  <2> DEFINE n == IF backlog[r].kept THEN backlog[r].events ELSE 0
             c == IF backlog[r].kept THEN [e \in 1 .. backlog[r].events |-> e] ELSE <<>>
  <2>1. n \in 0 .. MaxEvents
    <3>1. backlog[r].kept => backlog[r].events = pushed[r]
      BY <1>0 DEF Stream!TypeOK, Stream!NoEntry, Stream!Kept
    <3> QED
      BY <1>0, <3>1 DEF Stream!TypeOK
  <2>2. c \in Seq(Stream!Event)
    <3>1. CASE backlog[r].kept
      <4>1. n \in Nat /\ n <= MaxEvents /\ c = [e \in 1 .. n |-> e] /\ MaxEvents \in Nat
        BY <1>0, <2>1, <3>1
      <4> HIDE DEF n, c
      <4> QED
        BY <4>1 DEF Stream!Event
    <3> QED
      BY <3>1
  <2> HIDE DEF n, c
  <2>3. copied' = [copied EXCEPT ![r] = n] /\ chan' = [chan EXCEPT ![r] = c]
    BY <1>10 DEF Stream!CopyBacklog, n, c
  <2>4. copied' \in [Watched -> 0 .. MaxEvents] /\ chan' \in [Watched -> Seq(Stream!Event)]
    BY <1>0, <2>1, <2>2, <2>3 DEF Stream!TypeOK
  <2>5. watch' \in [Watched -> Stream!PostPC] /\ sender' \in [Watched -> BOOLEAN]
    BY <1>0, <1>10 DEF Stream!CopyBacklog, Stream!TypeOK, Stream!PostPC
  <2>6. UNCHANGED <<Stream!runVars, pushed, flying, backlog, bus, got, joined>>
    BY <1>10 DEF Stream!CopyBacklog
  <2> QED
    BY <1>0, <2>4, <2>5, <2>6 DEF Stream!TypeOK, Stream!runVars
<1>11. CASE Stream!Register(r)
  <2>1. 1 .. pushed[r] \ flying[r] \in SUBSET Stream!Event
    BY <1>0 DEF Stream!TypeOK, Stream!Event
  <2>2. joined' \in [Watched -> SUBSET Stream!Event]
    BY <1>0, <1>11, <2>1 DEF Stream!Register, Stream!TypeOK
  <2>3. watch' \in [Watched -> Stream!PostPC] /\ bus' \in [Watched -> Stream!BusState]
    BY <1>0, <1>11 DEF Stream!Register, Stream!TypeOK, Stream!PostPC, Stream!BusState
  <2>4. UNCHANGED <<Stream!runVars, pushed, flying, backlog, chan, sender, got, copied>>
    BY <1>11 DEF Stream!Register
  <2> QED
    BY <1>0, <2>2, <2>3, <2>4 DEF Stream!TypeOK, Stream!runVars
<1>12. CASE Stream!Read(r)
  <2>1. Append(got[r], Head(chan[r])) \in Seq(Stream!Event) /\ Tail(chan[r]) \in Seq(Stream!Event)
    BY <1>0, <1>12, HeadTailProperties DEF Stream!Read, Stream!TypeOK
  <2>2. got' \in [Watched -> Seq(Stream!Event)] /\ chan' \in [Watched -> Seq(Stream!Event)]
    BY <1>0, <1>12, <2>1 DEF Stream!Read, Stream!TypeOK
  <2>3. watch' \in [Watched -> Stream!PostPC]
    BY <1>0, <1>12 DEF Stream!Read, Stream!TypeOK, Stream!PostPC
  <2>4. UNCHANGED <<Stream!runVars, pushed, flying, backlog, bus, sender, copied, joined>>
    BY <1>12 DEF Stream!Read
  <2> QED
    BY <1>0, <2>2, <2>3, <2>4 DEF Stream!TypeOK, Stream!runVars
<1>13. CASE Stream!ReadEnd(r) \/ Stream!Disconnect(r)
  BY <1>0, <1>13 DEF Stream!ReadEnd, Stream!Disconnect, Stream!TypeOK, Stream!PostPC, Stream!runVars
<1> QED
  BY <1>1, <1>2, <1>3, <1>4, <1>5, <1>6, <1>7, <1>8, <1>9, <1>10, <1>11, <1>12, <1>13, StepsOfARun


-----------------------------------------------------------------------------
\* What a step leaves of the run it does not name.
LEMMA FitsStep == ASSUME StreamInv, NEW r \in Watched, WatchedStep(r) PROVE Fits(r)'
<1> USE DEF Fits, Stream!runVars, Stream!Room
<1>0. /\ Stream!TypeOK /\ Fits(r) /\ MaxEvents \in Nat /\ pushed[r] \in Nat /\ tails[r] \in Nat
      /\ OnTheBus(r)
  BY WatchedAssumption DEF StreamInv, Stream!TypeOK
<1>1. CASE Stream!Start(r) BY <1>0, <1>1 DEF Stream!Start, Stream!TypeOK
<1>2. CASE Stream!Notice(r) \/ Stream!Emit(r)
  BY <1>0, <1>2 DEF Stream!Notice, Stream!Emit, Stream!PushBacklog, Stream!TypeOK
<1>3. CASE Stream!StartFails(r) \/ Stream!EmitTerminal(r)
  BY <1>0, <1>3 DEF Stream!StartFails, Stream!EmitTerminal, Stream!PushBacklog, Stream!TypeOK
<1>4. CASE Stream!Announce(r)
  BY <1>0, <1>4 DEF Stream!Announce, Stream!PushBacklog, Stream!TypeOK
<1>5. CASE Stream!Park(r)
  BY <1>0, <1>5 DEF Stream!Park, Stream!TypeOK
<1>6. CASE Stream!Resume(r)
  BY <1>0, <1>6 DEF Stream!Resume, Stream!TypeOK
<1>7. CASE \E e \in Stream!Event : Stream!SendBus(r, e)
  BY <1>0, <1>7 DEF Stream!SendBus
<1>8. CASE Stream!Finish(r) \/ Stream!Cleanup(r)
  BY <1>0, <1>8 DEF Stream!Finish, Stream!Cleanup, Stream!TypeOK
<1>9. CASE \/ Stream!Refused(r) \/ Stream!CopyBacklog(r) \/ Stream!Register(r) \/ Stream!Read(r)
           \/ Stream!ReadEnd(r) \/ Stream!Disconnect(r)
  BY <1>0, <1>9 DEF Stream!Refused, Stream!CopyBacklog, Stream!Register, Stream!Read,
                    Stream!ReadEnd, Stream!Disconnect
<1> QED
  BY <1>1, <1>2, <1>3, <1>4, <1>5, <1>6, <1>7, <1>8, <1>9, StepsOfARun

\* A push by the driver comes when its last event is out; the announcement of an
\* approval is none of its own.
LEMMA OneDriverStep == ASSUME StreamInv, NEW r \in Watched, WatchedStep(r) PROVE OneDriver(r)'
<1>0. /\ Stream!TypeOK /\ OneDriver(r) /\ pushed[r] \in Nat
      /\ flying[r] \cup asks[r] \subseteq 1 .. pushed[r]
  <2>1. Stream!TypeOK /\ OneDriver(r) /\ pushed[r] \in Nat /\ flying[r] \cup asks[r] \subseteq Stream!Event
    BY DEF StreamInv, Stream!TypeOK
  <2>2. \A e \in flying[r] \cup asks[r] : e \in 1 .. pushed[r]
    BY <2>1 DEF Stream!TypeOK, Stream!Event
  <2> QED
    BY <2>1, <2>2
<1>1. ASSUME flying'[r] = flying[r] \cup {pushed[r] + 1}, pushed'[r] = pushed[r] + 1, asks'[r] = asks[r],
             Stream!EmitOver(r) \/ pushed[r] = 0
      PROVE  OneDriver(r)'
  <2>1. flying'[r] \ asks'[r] \subseteq {pushed[r] + 1}
    BY <1>0, <1>1 DEF Stream!EmitOver
  <2> QED
    BY <1>0, <1>1, <2>1 DEF OneDriver
<1>2. ASSUME flying'[r] = flying[r] \cup {pushed[r] + 1}, pushed'[r] = pushed[r] + 1,
             asks'[r] = asks[r] \cup {pushed[r] + 1}
      PROVE  OneDriver(r)'
  <2>1. flying'[r] \ asks'[r] \subseteq flying[r] \ asks[r]
    BY <1>2
  <2>2. 1 .. pushed'[r] \ asks'[r] \subseteq 1 .. pushed[r] \ asks[r]
    BY <1>0, <1>2
  <2> QED
    BY <1>0, <2>1, <2>2 DEF OneDriver
<1>3. ASSUME flying'[r] \subseteq flying[r], pushed'[r] = pushed[r], asks'[r] = asks[r]
      PROVE  OneDriver(r)'
  BY <1>0, <1>3 DEF OneDriver
<1>4. CASE Stream!Notice(r) \/ Stream!Emit(r) \/ Stream!StartFails(r) \/ Stream!EmitTerminal(r)
  <2>1. Stream!PushBacklog(r) /\ UNCHANGED asks /\ (Stream!EmitOver(r) \/ pushed[r] = 0)
    BY <1>4 DEF Stream!Notice, Stream!Emit, Stream!StartFails, Stream!EmitTerminal, Stream!runVars
  <2>2. flying'[r] = flying[r] \cup {pushed[r] + 1} /\ pushed'[r] = pushed[r] + 1
    BY <1>0, <2>1 DEF Stream!PushBacklog, Stream!TypeOK
  <2> QED
    BY <1>1, <2>1, <2>2
<1>5. CASE Stream!Announce(r)
  <2>1. /\ flying'[r] = flying[r] \cup {pushed[r] + 1} /\ pushed'[r] = pushed[r] + 1
        /\ asks'[r] = asks[r] \cup {pushed[r] + 1}
    BY <1>0, <1>5 DEF Stream!Announce, Stream!PushBacklog, Stream!TypeOK
  <2> QED
    BY <1>2, <2>1
<1>6. CASE \E e \in Stream!Event : Stream!SendBus(r, e)
  <2>1. flying'[r] \subseteq flying[r] /\ UNCHANGED <<pushed, asks>>
    BY <1>0, <1>6 DEF Stream!SendBus, Stream!TypeOK, Stream!runVars
  <2> QED
    BY <1>3, <2>1
<1>7. CASE \/ Stream!Start(r) \/ Stream!Refused(r) \/ Stream!Park(r) \/ Stream!Resume(r)
           \/ Stream!Finish(r) \/ Stream!Cleanup(r) \/ Stream!CopyBacklog(r) \/ Stream!Register(r)
           \/ Stream!Read(r) \/ Stream!ReadEnd(r) \/ Stream!Disconnect(r)
  <2>1. UNCHANGED <<flying, pushed, asks>>
    BY <1>7 DEF Stream!Start, Stream!Refused, Stream!Park, Stream!Resume, Stream!Finish, Stream!Cleanup,
                Stream!CopyBacklog, Stream!Register, Stream!Read, Stream!ReadEnd, Stream!Disconnect,
                Stream!runVars
  <2> QED
    BY <1>3, <2>1
<1> QED
  BY <1>4, <1>5, <1>6, <1>7, StepsOfARun

LEMMA OnTheBusStep == ASSUME StreamInv, NEW r \in Watched, WatchedStep(r) PROVE OnTheBus(r)'
<1> USE DEF OnTheBus, Stream!runVars
<1>0. Stream!TypeOK /\ OnTheBus(r)
  BY DEF StreamInv
<1>1. CASE Stream!Start(r)
  BY <1>0, <1>1 DEF Stream!Start, Stream!TypeOK
<1>2. CASE Stream!Notice(r) \/ Stream!Emit(r)
  BY <1>0, <1>2 DEF Stream!Notice, Stream!Emit, Stream!PushBacklog, Stream!streamVars, Stream!TypeOK
<1>3. CASE Stream!StartFails(r) \/ Stream!EmitTerminal(r)
  BY <1>0, <1>3 DEF Stream!StartFails, Stream!EmitTerminal, Stream!PushBacklog, Stream!streamVars, Stream!TypeOK
<1>4. CASE Stream!Announce(r)
  BY <1>0, <1>4 DEF Stream!Announce, Stream!PushBacklog, Stream!streamVars, Stream!TypeOK
<1>5. CASE Stream!Park(r)
  BY <1>0, <1>5 DEF Stream!Park, Stream!streamVars, Stream!TypeOK
<1>6. CASE Stream!Resume(r)
  BY <1>0, <1>6 DEF Stream!Resume, Stream!streamVars, Stream!TypeOK
<1>7. CASE \E e \in Stream!Event : Stream!SendBus(r, e)
  BY <1>0, <1>7 DEF Stream!SendBus, Stream!TypeOK
<1>8. CASE Stream!Refused(r)
  BY <1>0, <1>8 DEF Stream!Refused, Stream!TypeOK, Stream!EmitOver
<1>9. CASE Stream!Finish(r)
  BY <1>0, <1>9 DEF Stream!Finish, Stream!TypeOK, Stream!EmitOver
<1>10. CASE Stream!Cleanup(r)
  BY <1>0, <1>10 DEF Stream!Cleanup, Stream!TimeIsUp, Stream!TypeOK
<1>11. CASE Stream!CopyBacklog(r)
  BY <1>0, <1>11 DEF Stream!CopyBacklog, Stream!TypeOK
<1>12. CASE Stream!Register(r)
  BY <1>0, <1>12 DEF Stream!Register, Stream!TypeOK
<1>13. CASE Stream!Read(r)
  BY <1>0, <1>13 DEF Stream!Read, Stream!TypeOK
<1>14. CASE Stream!ReadEnd(r) \/ Stream!Disconnect(r)
  BY <1>0, <1>14 DEF Stream!ReadEnd, Stream!Disconnect, Stream!TypeOK
<1> QED
  BY <1>1, <1>2, <1>3, <1>4, <1>5, <1>6, <1>7, <1>8, <1>9, <1>10, <1>11, <1>12, <1>13, <1>14, StepsOfARun

-----------------------------------------------------------------------------
\* A post that has not subscribed has been told nothing; it stays so.
LEMMA NotYet ==
  ASSUME StreamInv, NEW r \in Watched, watch[r] \in {"idle", "subscribe"},
         watch'[r] \in {"idle", "subscribe"}, UNCHANGED <<got, chan>>
  PROVE  Streamed(r)'
  BY DEF StreamInv, Streamed

\* Steps that leave a post where it is, what it has been told and what was sent.
LEMMA NotStreamed ==
  ASSUME StreamInv, NEW r \in Watched,
         watch'[r] = watch[r], UNCHANGED <<chan, got, copied, joined>>,
         Sent(r)' = Sent(r), asks[r] \subseteq asks'[r], pushed'[r] >= pushed[r], pushed'[r] \in Nat,
         watch[r] = "stream" => Late(r) \subseteq Late(r)'
  PROVE  Streamed(r)'
<1>1. Stream!Received(r)' = Stream!Received(r)
  BY DEF Stream!Received
<1>2. Streamed(r) /\ pushed[r] \in Nat /\ copied[r] \in Nat
  BY DEF StreamInv, Stream!TypeOK
<1>3. watch[r] \in {"stream", "over"} =>
        Told(Stream!Received(r)', copied'[r], Sent(r)', joined'[r], asks'[r])
  BY <1>1, <1>2, ToldStays DEF Streamed
<1>4. watch[r] = "stream" => Whole(Stream!Received(r)', copied'[r], Sent(r)', joined'[r], Late(r)')
  BY <1>1, <1>2 DEF Streamed, Whole
<1> QED
  BY <1>2, <1>3, <1>4 DEF Streamed

\* emit's first half tells a stream nothing.
LEMMA PushTells ==
  ASSUME StreamInv, NEW r \in Watched, Stream!PushBacklog(r), asks[r] \subseteq asks'[r],
         watch[r] = "stream" => Late(r) \subseteq Late(r)'
  PROVE  Streamed(r)'
<1>1. /\ pushed[r] \in Nat /\ pushed'[r] = pushed[r] + 1 /\ flying'[r] = flying[r] \cup {pushed[r] + 1}
      /\ \A e \in flying[r] : e \in Nat /\ e <= pushed[r]
  BY DEF StreamInv, Stream!TypeOK, Stream!Event, Stream!PushBacklog
<1>2. Sent(r)' = Sent(r)
  BY <1>1, PushedIsNotSent DEF Sent
<1>3. watch'[r] = watch[r] /\ UNCHANGED <<chan, got, copied, joined>>
  BY DEF Stream!PushBacklog, Stream!streamVars
<1> QED
  BY <1>1, <1>2, <1>3, NotStreamed

\* emit's second half tells it the event, unless finish has dropped the bus and
\* the event is an announcement.
LEMMA SendTells ==
  ASSUME StreamInv, NEW r \in Watched, NEW e \in Stream!Event, Stream!SendBus(r, e)
  PROVE  Streamed(r)'
<1>0. /\ Stream!TypeOK /\ Streamed(r) /\ OneDriver(r) /\ OnTheBus(r)
      /\ pushed[r] \in Nat /\ copied[r] \in Nat /\ e \in Nat /\ watch[r] \in Stream!PostPC
      /\ got[r] \in Seq(Stream!Event) /\ chan[r] \in Seq(Stream!Event) /\ task[r] \in Stream!TaskPC
  BY DEF StreamInv, Stream!TypeOK, Stream!Event
<1>1. /\ e \in flying[r] /\ flying'[r] = flying[r] \ {e} /\ e \in 1 .. pushed[r]
      /\ UNCHANGED <<task, pushed, asks, watch, got, copied, joined>>
  BY <1>0 DEF Stream!SendBus, Stream!TypeOK, Stream!Event, Stream!runVars
<1>2. Sent(r)' = Sent(r) \cup {e} /\ e \notin Sent(r) /\ Sent(r) \in SUBSET Nat
  BY <1>0, <1>1, SentIsSent DEF Sent
<1>3. Late(r)' = Late(r)
  BY <1>1 DEF Late
<1>4. CASE watch[r] = "stream" /\ bus[r] = "sender"
  <2>1. chan'[r] = Append(chan[r], e)
    BY <1>0, <1>4 DEF Stream!SendBus, Stream!TypeOK
  <2> DEFINE R == Stream!Received(r)
             Q == Stream!Received(r)'
  <2>2. Len(R) \in Nat /\ Len(Q) = Len(R) + 1 /\ (\A i \in 1 .. Len(R) : Q[i] = R[i]) /\ Q[Len(R) + 1] = e
    <3> DEFINE s == got[r]
               t == chan[r]
    <3>1. s \in Seq(Stream!Event) /\ t \in Seq(Stream!Event)
      BY <1>0
    <3>2. Q = s \o Append(t, e) /\ R = s \o t
      BY <1>1, <2>1 DEF Stream!Received
    <3> HIDE DEF s, t, Q, R
    <3>3. s \o t \in Seq(Stream!Event)
      BY <3>1, ConcatProperties
    <3>4. Len(R) \in Nat
      BY <3>2, <3>3
    <3> QED
      BY <3>1, <3>2, <3>4, SendingGrows
  <2>3. ASSUME NEW d \in Sent(r), d > e PROVE asks[r] \cap {d, e} # {}
    <3>1. d \in 1 .. pushed[r]
      BY DEF Sent
    <3>2. d \notin asks[r] /\ e \notin asks[r] => d <= e
      BY <1>0, <1>1, <3>1 DEF OneDriver
    <3> QED
      BY <1>0, <2>3, <3>1, <3>2
  <2>4. Told(R, copied[r], Sent(r), joined[r], asks[r]) /\ Whole(R, copied[r], Sent(r), joined[r], Late(r))
    BY <1>0, <1>4 DEF Streamed
  <2> HIDE DEF R, Q
  <2>5. e \in Nat \ Sent(r)
    BY <1>0, <1>2
  <2>7. \A d \in Sent(r) : d > e => asks[r] \cap {d, e} # {}
    BY <2>3
  <2>8. /\ Told(Q, copied[r], Sent(r) \cup {e}, joined[r], asks[r])
        /\ Whole(Q, copied[r], Sent(r) \cup {e}, joined[r], Late(r))
    <3> DEFINE c == copied[r]
               S == Sent(r)
               J == joined[r]
               A == asks[r]
               L == Late(r)
    <3>1. /\ c \in Nat /\ S \in SUBSET Nat /\ e \in Nat \ S /\ Told(R, c, S, J, A) /\ Whole(R, c, S, J, L)
          /\ \A d \in S : d > e => A \cap {d, e} # {}
      BY <1>0, <1>2, <2>4, <2>5, <2>7
    <3> HIDE DEF c, S, J, A, L
    <3>2. Told(Q, c, S \cup {e}, J, A) /\ Whole(Q, c, S \cup {e}, J, L)
      BY <2>2, <3>1, ToldMore
    <3> QED
      BY <3>2 DEF c, S, J, A, L
  <2>6. watch'[r] = "stream" /\ copied'[r] = copied[r] /\ joined'[r] = joined[r] /\ asks'[r] = asks[r]
    BY <1>1, <1>4
  <2> QED
    BY <1>2, <1>3, <2>6, <2>8 DEF Streamed, Q
<1>5. CASE ~(watch[r] = "stream" /\ bus[r] = "sender")
  <2>1. UNCHANGED chan
    BY <1>5 DEF Stream!SendBus
  <2>2. Stream!Received(r)' = Stream!Received(r)
    BY <1>1, <2>1 DEF Stream!Received
  <2>3. watch[r] = "stream" => e \in Late(r)
    BY <1>0, <1>1, <1>5 DEF OnTheBus, Late, Stream!TaskPC
  <2>4. watch[r] \in {"stream", "over"} =>
          Told(Stream!Received(r), copied[r], Sent(r) \cup {e}, joined[r], asks[r])
    BY <1>0, ToldStays DEF Streamed
  <2>5. watch[r] = "stream" =>
          Whole(Stream!Received(r), copied[r], Sent(r) \cup {e}, joined[r], Late(r))
    BY <1>0, <2>3 DEF Streamed, Whole
  <2> QED
    BY <1>0, <1>1, <1>2, <1>3, <2>1, <2>2, <2>4, <2>5 DEF Streamed
<1> QED
  BY <1>4, <1>5

\* subscribe's second half: what is sent so far is what joined keeps.
LEMMA RegisterTells ==
  ASSUME StreamInv, NEW r \in Watched, Stream!Register(r) PROVE Streamed(r)'
<1>1. /\ Stream!TypeOK /\ Streamed(r) /\ OneDriver(r) /\ pushed[r] \in Nat /\ copied[r] \in Nat
      /\ chan[r] \in Seq(Stream!Event)
  BY DEF StreamInv, Stream!TypeOK
<1>2. /\ watch[r] = "register" /\ watch'[r] = "stream" /\ joined'[r] = Sent(r)
      /\ UNCHANGED <<pushed, flying, asks, task, chan, got, copied>>
  BY <1>1 DEF Stream!Register, Stream!TypeOK, Stream!runVars, Sent
<1>3. /\ got[r] = <<>> /\ Len(chan[r]) = copied[r] /\ copied[r] <= pushed[r]
      /\ \A i \in 1 .. copied[r] : chan[r][i] = i
  BY <1>1, <1>2 DEF Streamed
<1>4. Stream!Received(r)' = chan[r] /\ Sent(r)' = Sent(r)
  BY <1>1, <1>2, <1>3, ConcatEmptySeq DEF Stream!Received, Sent
<1>5. ASSUME NEW d \in 1 .. copied[r], NEW e \in 1 .. copied[r], e < d
      PROVE  e \in Sent(r) \/ asks[r] \cap {e, d} # {}
  <2>1. d \in 1 .. pushed[r] /\ e \in 1 .. pushed[r]
    BY <1>1, <1>3
  <2>2. e \in flying[r] \ asks[r] /\ d \notin asks[r] => d <= e
    BY <1>1, <2>1 DEF OneDriver
  <2> QED
    BY <1>5, <2>1, <2>2 DEF Sent
<1>6. Told(chan[r], copied[r], Sent(r), Sent(r), asks[r])
  BY <1>1, <1>3, <1>5 DEF Told
<1>7. \A L : Whole(chan[r], copied[r], Sent(r), Sent(r), L)
  BY DEF Whole
<1> QED
  BY <1>2, <1>4, <1>6, <1>7 DEF Streamed

LEMMA StreamedStep == ASSUME StreamInv, NEW r \in Watched, WatchedStep(r) PROVE Streamed(r)'
<1>0. /\ Stream!TypeOK /\ Streamed(r) /\ OnTheBus(r) /\ pushed[r] \in Nat /\ copied[r] \in Nat
  BY DEF StreamInv, Stream!TypeOK
<1>1. CASE Stream!Start(r) \/ Stream!Refused(r)
  BY <1>0, <1>1, NotYet DEF Stream!Start, Stream!Refused, Stream!TypeOK, OnTheBus
<1>2. CASE Stream!Notice(r) \/ Stream!Emit(r)
  <2>1. Stream!PushBacklog(r) /\ UNCHANGED <<asks, task>>
    BY <1>2 DEF Stream!Notice, Stream!Emit, Stream!runVars
  <2> QED
    BY <2>1, PushTells DEF Late
<1>3. CASE Stream!StartFails(r) \/ Stream!EmitTerminal(r)
  <2>1. Stream!PushBacklog(r) /\ UNCHANGED asks /\ task[r] \in {"none", "run", "parked"}
    BY <1>3 DEF Stream!StartFails, Stream!EmitTerminal
  <2> QED
    BY <2>1, PushTells DEF Late
<1>4. CASE Stream!Announce(r)
  <2>1. Stream!PushBacklog(r) /\ UNCHANGED task /\ asks[r] \subseteq asks'[r]
    BY <1>0, <1>4 DEF Stream!Announce, Stream!TypeOK
  <2> QED
    BY <2>1, PushTells DEF Late
<1>5. ASSUME NEW e \in Stream!Event, Stream!SendBus(r, e) PROVE Streamed(r)'
  BY <1>5, SendTells
<1>6. CASE Stream!Park(r) \/ Stream!Resume(r) \/ Stream!Finish(r) \/ Stream!Cleanup(r)
  <2>1. UNCHANGED <<pushed, flying, asks, watch, chan, got, copied, joined>>
    BY <1>6 DEF Stream!Park, Stream!Resume, Stream!Finish, Stream!Cleanup, Stream!streamVars
  <2>2. Late(r) \subseteq Late(r)'
    BY <1>0, <1>6, <2>1 DEF Stream!Park, Stream!Resume, Stream!Finish, Stream!Cleanup, Stream!TimeIsUp,
                            Stream!TypeOK, Late
  <2> QED
    BY <1>0, <2>1, <2>2, NotStreamed DEF Sent
<1>7. CASE Stream!CopyBacklog(r)
  <2> DEFINE n == IF backlog[r].kept THEN backlog[r].events ELSE 0
  <2>1. n \in Nat /\ n <= pushed[r] /\ UNCHANGED <<pushed, got>> /\ got[r] = <<>>
        /\ watch'[r] = "register" /\ copied'[r] = n
    BY <1>0, <1>7 DEF Stream!CopyBacklog, Stream!TypeOK, Stream!NoEntry, Stream!Kept, Streamed
  <2>2. chan'[r] = IF backlog[r].kept THEN [e \in 1 .. backlog[r].events |-> e] ELSE <<>>
    BY <1>0, <1>7 DEF Stream!CopyBacklog, Stream!TypeOK
  <2>3. Len(chan'[r]) = n /\ \A i \in 1 .. n : chan'[r][i] = i
    BY <2>1, <2>2
  <2> HIDE DEF n
  <2> QED
    BY <2>1, <2>3 DEF Streamed
<1>8. CASE Stream!Register(r)
  BY <1>8, RegisterTells
<1>9. CASE Stream!Read(r)
  <2>1. /\ UNCHANGED <<task, pushed, flying, asks, copied, joined>>
        /\ watch[r] = "stream" /\ watch'[r] \in {"stream", "over"}
        /\ got'[r] = Append(got[r], Head(chan[r])) /\ chan'[r] = Tail(chan[r]) /\ chan[r] # <<>>
        /\ got[r] \in Seq(Stream!Event) /\ chan[r] \in Seq(Stream!Event)
    BY <1>0, <1>9 DEF Stream!Read, Stream!TypeOK, Stream!runVars
  <2>2. Stream!Received(r)' = Stream!Received(r)
    BY <2>1, ReadingMoves DEF Stream!Received
  <2>3. Sent(r)' = Sent(r) /\ Late(r)' = Late(r)
    BY <2>1 DEF Sent, Late
  <2> QED
    BY <1>0, <2>1, <2>2, <2>3 DEF Streamed
<1>10. CASE Stream!ReadEnd(r) \/ Stream!Disconnect(r)
  <2>1. /\ UNCHANGED <<task, pushed, flying, asks, copied, joined, got, chan>>
        /\ watch[r] = "stream" /\ watch'[r] = "over"
    BY <1>0, <1>10 DEF Stream!ReadEnd, Stream!Disconnect, Stream!TypeOK, Stream!runVars
  <2>2. Stream!Received(r)' = Stream!Received(r) /\ Sent(r)' = Sent(r)
    BY <2>1 DEF Sent, Stream!Received
  <2> QED
    BY <1>0, <2>1, <2>2 DEF Streamed
<1> QED
  BY <1>1, <1>2, <1>3, <1>4, <1>5, <1>6, <1>7, <1>8, <1>9, <1>10, StepsOfARun

-----------------------------------------------------------------------------
LEMMA InitStream == Stream!Init => StreamInv
<1> SUFFICES ASSUME Stream!Init PROVE StreamInv
  OBVIOUS
<1>1. Stream!TypeOK
  BY WatchedAssumption DEF Stream!Init, Stream!TypeOK, Stream!TaskPC, Stream!PostPC, Stream!BusState, Stream!NoEntry
<1>2. ASSUME NEW r \in Watched PROVE Fits(r) /\ OneDriver(r) /\ OnTheBus(r) /\ Streamed(r)
  BY WatchedAssumption DEF Stream!Init, Fits, OneDriver, Streamed, OnTheBus
<1> QED
  BY <1>1, <1>2 DEF StreamInv

\* A step in which nothing of a run changes keeps what is true of it.
LEMMA StreamStutter == ASSUME StreamInv, UNCHANGED Stream!vars PROVE StreamInv'
<1>1. Stream!TypeOK'
  BY DEF Stream!vars, StreamInv, Stream!TypeOK
<1>2. ASSUME NEW r \in Watched PROVE Fits(r)' /\ OneDriver(r)' /\ OnTheBus(r)' /\ Streamed(r)'
  <2>1. Fits(r)' /\ OneDriver(r)' /\ OnTheBus(r)'
    BY DEF Stream!vars, StreamInv, Fits, OneDriver, OnTheBus
  <2>2. Stream!Received(r)' = Stream!Received(r) /\ Sent(r)' = Sent(r) /\ Late(r)' = Late(r)
    BY DEF Stream!vars, Stream!Received, Sent, Late
  <2>3. Streamed(r)'
    BY <2>2 DEF Stream!vars, StreamInv, Streamed
  <2> QED
    BY <2>1, <2>3
<1> QED
  BY <1>1, <1>2 DEF StreamInv

\* emit, subscribe, finish, park: whatever the two mutexes let through between
\* the emits of a run and the posts that watch it, StreamInv is kept.
THEOREM StreamInvariant == Stream!Spec => []StreamInv
<1>1. StreamInv /\ [Stream!Next]_Stream!vars => StreamInv'
  <2> SUFFICES ASSUME StreamInv, [Stream!Next]_Stream!vars PROVE StreamInv'
    OBVIOUS
  <2>1. CASE UNCHANGED Stream!vars
    BY <2>1, StreamStutter
  <2>2. ASSUME NEW r \in Watched, WatchedStep(r) PROVE StreamInv'
    <3>1. Stream!TypeOK'
      BY <2>2, StreamType
    <3>2. ASSUME NEW q \in Watched PROVE Fits(q)' /\ OneDriver(q)' /\ OnTheBus(q)' /\ Streamed(q)'
      BY <2>2, Elsewhere, FitsStep, OneDriverStep, OnTheBusStep, StreamedStep
    <3> QED
      BY <3>1, <3>2 DEF StreamInv
  <2> QED
    BY <2>1, <2>2 DEF Stream!Next, WatchedStep
<1> QED
  BY InitStream, <1>1, PTL DEF Stream!Spec

\* What Streamed says of a subscribed stream, with its types.
LEMMA WhatIsTold ==
  ASSUME StreamInv, NEW r \in Watched
  PROVE  /\ Streamed(r) /\ watch[r] \in Stream!PostPC /\ copied[r] \in Nat /\ pushed[r] \in Nat
         /\ got[r] \in Seq(Stream!Event) /\ chan[r] \in Seq(Stream!Event)
         /\ DOMAIN Stream!Received(r) = 1 .. Len(Stream!Received(r))
         /\ Len(Stream!Received(r)) \in Nat
         /\ \A i \in DOMAIN Stream!Received(r) : Stream!Received(r)[i] \in Nat
<1>1. /\ Streamed(r) /\ watch[r] \in Stream!PostPC /\ copied[r] \in Nat /\ pushed[r] \in Nat
      /\ got[r] \in Seq(Stream!Event) /\ chan[r] \in Seq(Stream!Event)
  BY DEF StreamInv, Stream!TypeOK
<1>2. Stream!Received(r) \in Seq(Stream!Event)
  BY <1>1, ConcatProperties DEF Stream!Received
<1>3. /\ DOMAIN Stream!Received(r) = 1 .. Len(Stream!Received(r)) /\ Len(Stream!Received(r)) \in Nat
      /\ \A i \in DOMAIN Stream!Received(r) : Stream!Received(r)[i] \in Stream!Event
  BY <1>2
<1> QED
  BY <1>1, <1>3 DEF Stream!Event

\* emit, subscribe, park: of two events a stream shows out of the run's order, one
\* is the announcement of an approval.
THEOREM StreamInOrder == Stream!Spec => []Stream!InOrder
<1>1. StreamInv => Stream!InOrder
  <2> SUFFICES ASSUME StreamInv, NEW r \in Watched, NEW i \in DOMAIN Stream!Received(r),
                      NEW j \in DOMAIN Stream!Received(r),
                      i < j, Stream!Received(r)[i] > Stream!Received(r)[j]
               PROVE  asks[r] \cap {Stream!Received(r)[i], Stream!Received(r)[j]} # {}
    BY DEF Stream!InOrder
  <2> DEFINE R == Stream!Received(r)
             n == Len(R)
             c == copied[r]
  <2>1. /\ Streamed(r) /\ watch[r] \in Stream!PostPC /\ c \in Nat /\ n \in Nat /\ i \in 1 .. n /\ j \in 1 .. n
        /\ \A k \in 1 .. n : R[k] \in Nat
    BY WhatIsTold
  <2>2. CASE watch[r] \in {"idle", "subscribe"}
    <3>1. got[r] = <<>> /\ chan[r] = <<>>
      BY <2>1, <2>2 DEF Streamed
    <3>2. R = <<>>
      BY <2>1, <3>1, ConcatEmptySeq DEF Stream!Received
    <3> QED
      BY <2>1, <3>2
  <2>3. CASE watch[r] = "register"
    <3>1. got[r] = <<>> /\ Len(chan[r]) = c /\ \A k \in 1 .. c : chan[r][k] = k
      BY <2>1, <2>3 DEF Streamed
    <3>2. R = chan[r]
      BY <3>1, WhatIsTold, ConcatEmptySeq DEF Stream!Received
    <3>3. R[i] = i /\ R[j] = j
      BY <2>1, <3>1, <3>2
    <3> QED
      BY <2>1, <3>3
  <2>4. CASE watch[r] \in {"stream", "over"}
    <3>1. Told(R, c, Sent(r), joined[r], asks[r])
      BY <2>1, <2>4 DEF Streamed
    <3> HIDE DEF R, n, c
    <3>2. /\ \A k \in 1 .. c : R[k] = k
          /\ \A k \in c + 1 .. n : R[k] \in Sent(r) \ joined[r]
          /\ i \in c + 1 .. n /\ j \in c + 1 .. n => asks[r] \cap {R[i], R[j]} # {}
          /\ \A d \in 1 .. c, e \in 1 .. c : e < d => e \in joined[r] \/ asks[r] \cap {e, d} # {}
      BY <3>1 DEF Told, R, n
    <3>3. CASE i \in c + 1 .. n
      BY <2>1, <3>2, <3>3 DEF R
    <3>4. CASE i \in 1 .. c /\ j \in 1 .. c
      <4>1. R[i] = i /\ R[j] = j
        BY <3>2, <3>4
      <4> QED
        BY <2>1, <4>1 DEF R
    <3>5. CASE i \in 1 .. c /\ j \in c + 1 .. n
      <4>1. R[i] = i /\ R[j] \in Sent(r) /\ R[j] \notin joined[r] /\ R[j] < i
        BY <3>2, <3>5 DEF R
      <4>2. R[j] \in 1 .. c
        BY <2>1, <3>5, <4>1 DEF Sent
      <4> QED
        BY <3>2, <3>5, <4>1, <4>2 DEF R
    <3> QED
      BY <2>1, <3>3, <3>4, <3>5 DEF R
  <2> QED
    BY <2>1, <2>2, <2>3, <2>4 DEF Stream!PostPC
<1> QED
  BY <1>1, StreamInvariant, PTL

\* subscribe, park: a subscribed stream differs from its run only between the copy
\* and the moment the sender joined, and in announcements that come after finish.
THEOREM StreamSeam == Stream!Spec => []Stream!Seam
<1>1. StreamInv => Stream!Seam
  <2> SUFFICES ASSUME StreamInv, NEW r \in Watched, Stream!Subscribed(r)
               PROVE  /\ \A e \in 1 .. copied[r] :
                           /\ Stream!Times(r, e) # {}
                           /\ (e \in joined[r] \cup flying[r] => Stream!Once(r, e))
                      /\ \A e \in (copied[r] + 1 .. pushed[r]) \ flying[r] :
                           IF e \in joined[r]
                           THEN Stream!Times(r, e) = {}
                           ELSE \/ Stream!Once(r, e)
                                \/ /\ e \in asks[r] /\ task[r] \in {"timer", "gone"}
                                   /\ Stream!Times(r, e) = {}
    BY DEF Stream!Seam
  <2> DEFINE R == Stream!Received(r)
             n == Len(R)
             c == copied[r]
  <2>1. /\ Streamed(r) /\ watch[r] = "stream" /\ c \in Nat /\ n \in Nat /\ pushed[r] \in Nat
        /\ DOMAIN R = 1 .. n /\ \A k \in 1 .. n : R[k] \in Nat
    BY WhatIsTold DEF Stream!Subscribed
  <2>2. \A e : Stream!Times(r, e) = {i \in 1 .. n : R[i] = e}
    BY <2>1 DEF Stream!Times
  <2>3. Told(R, c, Sent(r), joined[r], asks[r]) /\ Whole(R, c, Sent(r), joined[r], Late(r))
    BY <2>1 DEF Streamed
  <2> HIDE DEF R, n, c
  <2>4. /\ c <= n /\ joined[r] \subseteq Sent(r)
        /\ \A k \in 1 .. c : R[k] = k
        /\ \A k \in c + 1 .. n : R[k] \in Sent(r) \ joined[r]
        /\ \A i, j \in c + 1 .. n : i < j => R[i] # R[j]
        /\ \A e \in Sent(r) \ joined[r] : (\E i \in c + 1 .. n : R[i] = e) \/ e \in Late(r)
    BY <2>3 DEF Told, Whole, n
  <2>5. ASSUME NEW e, NEW i \in c + 1 .. n, R[i] = e, e \notin 1 .. c
        PROVE  Stream!Times(r, e) = {i}
    <3>1. ASSUME NEW j \in 1 .. n, R[j] = e PROVE j = i
      BY <2>1, <2>4, <2>5, <3>1
    <3>2. i \in 1 .. n
      BY <2>1
    <3> QED
      BY <2>2, <2>5, <3>1, <3>2
  <2>6. ASSUME NEW e \in 1 .. c
        PROVE  Stream!Times(r, e) # {} /\ (e \in joined[r] \cup flying[r] => Stream!Once(r, e))
    <3>1. e \in Stream!Times(r, e)
      BY <2>1, <2>2, <2>4
    <3>2. ASSUME e \in joined[r] \cup flying[r], NEW j \in Stream!Times(r, e) PROVE j = e
      <4>1. j \in 1 .. n /\ R[j] = e
        BY <2>2
      <4>2. j \in 1 .. c
        BY <2>1, <2>4, <3>2, <4>1 DEF Sent
      <4> QED
        BY <2>4, <4>1, <4>2
    <3> QED
      BY <3>1, <3>2 DEF Stream!Once
  <2>7. ASSUME NEW e \in (c + 1 .. pushed[r]) \ flying[r], e \in joined[r]
        PROVE  Stream!Times(r, e) = {}
    <3>1. ASSUME NEW j \in 1 .. n, R[j] = e PROVE FALSE
      BY <2>1, <2>4, <2>7, <3>1
    <3> QED
      BY <2>2, <3>1
  <2>8. ASSUME NEW e \in (c + 1 .. pushed[r]) \ flying[r], e \notin joined[r]
        PROVE  \/ Stream!Once(r, e)
               \/ e \in asks[r] /\ task[r] \in {"timer", "gone"} /\ Stream!Times(r, e) = {}
    <3>1. e \in Sent(r) \ joined[r] /\ e \notin 1 .. c
      BY <2>1, <2>8 DEF Sent
    <3>2. CASE \E i \in c + 1 .. n : R[i] = e
      <4>1. PICK i \in c + 1 .. n : R[i] = e
        BY <3>2
      <4>2. Stream!Times(r, e) = {i}
        BY <2>5, <3>1, <4>1
      <4> QED
        BY <4>2 DEF Stream!Once
    <3>3. CASE ~ \E i \in c + 1 .. n : R[i] = e
      <4>1. e \in Late(r)
        BY <2>4, <3>1, <3>3
      <4>2. ASSUME NEW j \in 1 .. n PROVE R[j] # e
        BY <2>1, <2>4, <3>1, <3>3
      <4> QED
        BY <2>2, <4>1, <4>2 DEF Late
    <3> QED
      BY <3>2, <3>3
  <2> QED
    BY <2>6, <2>7, <2>8 DEF c
<1> QED
  BY <1>1, StreamInvariant, PTL

-----------------------------------------------------------------------------
(***************************************************************************)
(* Both, as they are checked together                                      *)
(***************************************************************************)

\* A behaviour of TalkSpec is one of Interjections and one of RunStream.
LEMMA TalkIsBoth == TalkSpec => Spec /\ Stream!Spec
<1>1. TalkInit => Init /\ Stream!Init
  BY DEF TalkInit
<1>2. [TalkNext]_<<side, vars, shown>> => [Next]_vars /\ [Stream!Next]_Stream!vars
  BY DEF TalkNext, shown, Stream!vars
<1> QED
  BY <1>1, <1>2, PTL DEF TalkSpec, Spec, Stream!Spec

\* emit, subscribe, park: no event of a run is overtaken on the way to its watchers
\* but by, or as, the announcement of an approval, in the model that is checked.
THEOREM SafetyInOrder == TalkSpec => []InOrder
<1>1. Stream!InOrder => InOrder
  BY DEF InOrder
<1> QED
  BY <1>1, TalkIsBoth, StreamInOrder, PTL

\* subscribe, park: events are missing, or come twice, only at the seam, or are
\* announcements that came after finish, in the model that is checked.
THEOREM SafetySeam == TalkSpec => []Seam
<1>1. Stream!Seam => Seam
  BY DEF Seam
<1> QED
  BY <1>1, TalkIsBoth, StreamSeam, PTL

\* post_message, take_interjections, emit and subscribe: what is said to a run
\* is news to it and accounted for, what is seen of it is in order and whole but
\* for the announcements of approvals and the seam.
THEOREM TalkIsSafe == TalkSpec => [](NewsToTheRun /\ Accounted /\ InOrder /\ Seam)
  BY TalkIsBoth, SafetyNews, SafetyAccounted, SafetyInOrder, SafetySeam, PTL
=============================================================================
